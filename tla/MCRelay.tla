------------------------------ MODULE MCRelay ------------------------------
(***************************************************************************)
(* Relay for TLC.                                                          *)
(***************************************************************************)
EXTENDS Relay, TLC

MCSymmetry == Permutations(Relays) \cup Permutations(Clients)
=============================================================================
