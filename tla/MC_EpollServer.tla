--------------------------- MODULE MC_EpollServer ---------------------------
(***************************************************************************)
(* Small instances of EpollServer: two descriptors for up to three         *)
(* connections, so that descriptors are reused within a batch.             *)
(***************************************************************************)
EXTENDS EpollServer
=============================================================================
