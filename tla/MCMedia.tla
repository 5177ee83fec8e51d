------------------------------ MODULE MCMedia ------------------------------
(***************************************************************************)
(* Media for TLC.  Nothing tells two configurations apart.                 *)
(***************************************************************************)
EXTENDS Media, TLC

CONSTANTS c1, c2, v1

MCSymmetry == Permutations({c1, c2})
=============================================================================
