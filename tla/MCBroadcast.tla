---------------------------- MODULE MCBroadcast ----------------------------
(***************************************************************************)
(* Broadcast for TLC.  Two RTMP encoders and one FLV encoder of client a,  *)
(* a second client c, and a relay push: enough for a publish that is       *)
(* resumed twice, taken over, watched in its grace window and refused.     *)
(***************************************************************************)
EXTENDS Broadcast

CONSTANTS r1, r2, f1, f2, p1, b1, b2

\* r1, r2 and f1 are connections of one client, the others come from another.
MCAddress == [s \in Sessions |-> IF s \in {r1, r2, f1} THEN "a" ELSE "c"]
=============================================================================
