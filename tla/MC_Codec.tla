------------------------------ MODULE MC_Codec ------------------------------
(***************************************************************************)
(* Small instances of Codec: up to three requests of unlike length over a  *)
(* write_buff with room for about two of them.                             *)
(***************************************************************************)
EXTENDS Codec

MCPayloadLen == [r \in 1 .. Requests |-> IF r = 2 THEN 0 ELSE 1]
=============================================================================
