----------------------------- MODULE MCHistory -----------------------------
(***************************************************************************)
(* History for TLC: two sessions of a client and a relay pull, two paths   *)
(* that share a term.                                                      *)
(***************************************************************************)
EXTENDS History, TLC

CONSTANTS c1, c2, r, live, one, two, home, away

PathA == {live, one}
PathB == {live, two}

Home == {home}

\* The sessions of the client differ in nothing.
MCSymmetry == Permutations({c1, c2})

PathOfSession == c1 :> PathA @@ c2 :> PathA @@ r :> PathB
AddressOfSession ==
  c1 :> Home @@ c2 :> Home @@ r :> {away}

Rows == [startTime : 1..MaxTime, streamPath : Paths, ip : {Home, {away}}]

Anything ==
  [start |-> None, end |-> None, streamPath |-> None, ip |-> None, search |-> None]

Queries ==
  {Anything,
   [Anything EXCEPT !.start = 2, !.search = live],
   [Anything EXCEPT !.ip = Home, !.end = 2],
   [Anything EXCEPT !.streamPath = PathB, !.end = 2],
   [Anything EXCEPT !.search = away]}

OneByOne == {[request |-> Anything, size |-> 1]}

InOneFile == [s \in Ids |-> 0]
=============================================================================
