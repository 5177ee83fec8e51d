---------------------------- MODULE Publication ----------------------------
(***************************************************************************)
(* What the server promises about one publish, whatever connections carry  *)
(* it: a publish starts once, survives the loss of its connection for a    *)
(* grace window, may be carried on by a new connection of the same client  *)
(* with its start time and play counter, and is ended exactly once, at     *)
(* which point one history row with the final counter is written.          *)
(*                                                                         *)
(* Module Broadcast implements this.  Nothing here knows of sockets,       *)
(* timers, subscribers or of the registry of streams.                      *)
(***************************************************************************)
EXTENDS Naturals

CONSTANTS
  Sessions,   \* publishing and playing connections
  address     \* the address of a session, its port left out

VARIABLES
  phase,      \* what became of the publish each session carried
  origin,     \* session whose start time a session reports
  playCount,  \* plays a session reports
  rows        \* rows of the publish history

Phases == {"idle", "live", "held", "resumed", "ended"}

vars == <<phase, origin, playCount, rows>>

Row(s) == [id |-> s, createTime |-> origin[s], playCount |-> playCount[s]]

Init ==
  /\ phase = [s \in Sessions |-> "idle"]
  /\ origin = [s \in Sessions |-> s]
  /\ playCount = [s \in Sessions |-> 0]
  /\ rows = {}

\* A connection starts a publish of its own.
Start(s) ==
  /\ phase[s] = "idle"
  /\ phase' = [phase EXCEPT ![s] = "live"]
  /\ UNCHANGED <<origin, playCount, rows>>

\* The connection is lost; the publish is held for its client.
Lose(s) ==
  /\ phase[s] = "live"
  /\ phase' = [phase EXCEPT ![s] = "held"]
  /\ UNCHANGED <<origin, playCount, rows>>

\* The same client carries on the publish p with the connection s.
Resume(s, p) ==
  /\ phase[s] = "idle"
  /\ phase[p] = "held"
  /\ address[s] = address[p]
  /\ phase' = [phase EXCEPT ![s] = "live", ![p] = "resumed"]
  /\ origin' = [origin EXCEPT ![s] = origin[p]]
  /\ playCount' = [playCount EXCEPT ![s] = playCount[p]]
  /\ UNCHANGED rows

\* Nobody came back in time.
End(p) ==
  /\ phase[p] = "held"
  /\ phase' = [phase EXCEPT ![p] = "ended"]
  /\ rows' = rows \cup {Row(p)}
  /\ UNCHANGED <<origin, playCount>>

\* Another client starts its publish: the one that is held ends first.
Replace(s, p) ==
  /\ phase[s] = "idle"
  /\ phase[p] = "held"
  /\ address[s] # address[p]
  /\ phase' = [phase EXCEPT ![s] = "live", ![p] = "ended"]
  /\ rows' = rows \cup {Row(p)}
  /\ UNCHANGED <<origin, playCount>>

\* A viewer is counted on a publish that is live or held.
Watch(p) ==
  /\ phase[p] \in {"live", "held"}
  /\ playCount' = [playCount EXCEPT ![p] = @ + 1]
  /\ UNCHANGED <<phase, origin, rows>>

Next ==
  \/ \E s \in Sessions : Start(s) \/ Lose(s) \/ End(s) \/ Watch(s)
  \/ \E s, p \in Sessions : Resume(s, p) \/ Replace(s, p)

Spec == Init /\ [][Next]_vars

=============================================================================
