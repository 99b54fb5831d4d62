----------------------------- MODULE MC_Streams ------------------------------
(***************************************************************************)
(* Small instances of Codec and UvServer, side by side: a behaviour        *)
(* exercises one of them, and the other stays as it was created.           *)
(*                                                                         *)
(* The codec is the instance of MC_Codec.  The libuv server has two        *)
(* sessions, which send three frames in all, and room for two answers.     *)
(***************************************************************************)
EXTENDS MC_Codec, UvServer

VARIABLE part  \* "codec" or "uv"

MCInit == part \in {"codec", "uv"} /\ CodecInit /\ UvInit

MCNext ==
  /\ \/ part = "codec" /\ CodecNext /\ UNCHANGED uvVars
     \/ part = "uv" /\ UvNext /\ UNCHANGED codecVars
  /\ UNCHANGED part

\* The fairness of each module, for the part that is exercised.
MCFair ==
  /\ WF_codecVars(part = "codec" /\ SendRequest)
  /\ \A d \in Side :
       /\ WF_codecVars(part = "codec" /\ Decode(d))
       /\ WF_codecVars(part = "codec" /\ \E n \in 1 .. WriteCap : Flush(d, n))
       /\ WF_codecVars(part = "codec" /\ \E n \in 1 .. ReadCap : Receives(d, n))
  /\ WF_uvVars(part = "uv" /\ UvThread)

MCSpec == MCInit /\ [][MCNext]_<<codecVars, uvVars, part>> /\ MCFair
=============================================================================
