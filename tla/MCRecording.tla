---------------------------- MODULE MCRecording ----------------------------
(***************************************************************************)
(* Recording for TLC: p1 and p2 are one client that reconnects, p3 is      *)
(* another one.                                                            *)
(***************************************************************************)
EXTENDS Recording, TLC

CONSTANTS b1, b2, p1, p2, p3, v1, r1, r2

MCAddress == [s \in Publishers |-> IF s = p3 THEN "C" ELSE "A"]

MCSymmetry ==
  Permutations(Servers) \cup Permutations(Records) \cup Permutations({p1, p2})
=============================================================================
