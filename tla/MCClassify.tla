----------------------------- MODULE MCClassify -----------------------------
(***************************************************************************)
(* An instance of Classify for TLC: an IPv4 packet in each direction, which*)
(* passes both layers, and a packet of another protocol.                   *)
(***************************************************************************)
EXTENDS Classify

MCPackets == {"sent", "received", "other"}
MCEtherTypes ==
  [p \in MCPackets |-> IF p = "other" THEN "86DD" ELSE "0800"]
=============================================================================
