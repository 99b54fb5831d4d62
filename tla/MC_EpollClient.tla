--------------------------- MODULE MC_EpollClient ----------------------------
(***************************************************************************)
(* A small instance of EpollClient: its bounds are all in the cfg.         *)
(***************************************************************************)
EXTENDS EpollClient
=============================================================================
