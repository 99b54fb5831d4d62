------------------------------- MODULE MC_Epoll -------------------------------
(***************************************************************************)
(* Small instances of EpollServer and EpollClient, side by side: a         *)
(* behaviour exercises one of them, and the other stays as it was created. *)
(* Two descriptors for up to three connections of the server, so that      *)
(* descriptors are reused within a batch, and two chunks on the way to the *)
(* client.                                                                 *)
(***************************************************************************)
EXTENDS EpollServer, EpollClient

VARIABLE part  \* "server" or "client"

MCInit == Init /\ ClientInit /\ part \in {"server", "client"}

MCNext == /\ \/ part = "server" /\ Next /\ UNCHANGED clientVars
             \/ part = "client" /\ ClientNext /\ UNCHANGED vars
          /\ UNCHANGED part

\* The client of the other part never leaves init, where nothing is fair.
MCSpec == /\ MCInit /\ [][MCNext]_<<vars, clientVars, part>>
          /\ WF_vars(part = "server" /\ Thread) /\ ClientFair
=============================================================================
