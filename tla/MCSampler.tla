----------------------------- MODULE MCSampler -----------------------------
(***************************************************************************)
(* Sampler for TLC: one path, with sessions that differ in nothing.        *)
(***************************************************************************)
EXTENDS Sampler, TLC

Symmetry == Permutations(Sessions \ Relays)
=============================================================================
