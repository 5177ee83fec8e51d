----------------------------- MODULE Recording -----------------------------
(***************************************************************************)
(* Recording a stream path: server/record_server.js and                    *)
(* session/record_session.js, driven by the events of the publish slots    *)
(* (server/broadcast_server.js), by the record API and by the start and    *)
(* stop of the process (index.js), with the rows of the store's "records"  *)
(* collection in memory and on disk.                                       *)
(*                                                                         *)
(* An event is emitted inside the callback that causes it, so the listeners*)
(* of the record server are part of the publish actions.  A record session *)
(* is a subscriber of whatever object the registry names when it starts,   *)
(* which need not be the object whose event started it.                    *)
(*                                                                         *)
(* Refusals by signature and several commands a connection are in module   *)
(* Broadcast; how rows get to disk is in module Store.                     *)
(***************************************************************************)
EXTENDS Naturals, FiniteSets

CONSTANTS
  Servers,      \* identities of BroadcastServer objects
  Publishers,   \* sessions that publish
  Viewers,      \* sessions that play
  Records,      \* identities of record sessions
  address,      \* address of a publisher's peer
  None,
  MaxToggles,   \* bound: changes of config.record.auto
  MaxStarts     \* bound: processes

Sessions == Publishers \cup Viewers

ASSUME RecordingAssumption ==
  /\ Publishers \cap Viewers = {}
  /\ Records \cap Sessions = {}
  /\ None \notin Sessions \cup Servers \cup Records
  /\ MaxToggles \in Nat /\ MaxStarts \in Nat

VARIABLES
  status,       \* of the process; "closing" while it waits for store.close()
  serving,      \* the record server runs: its listeners are installed
  auto,         \* config.record.auto
  registry,     \* Context.broadcasts.get(streamPath)
  publisher,    \* BroadcastServer.publisher
  graceTimer,   \* BroadcastServer._publishGraceTimer is armed
  subscribers,  \* BroadcastServer.subscribers
  conn,         \* the socket of a session
  broadcast,    \* the object a publisher or a viewer is bound to
  attached,     \* the object a record session is bound to
  active,       \* _activeRecords.get(streamPath)
  recorder,     \* life of a record session: its _stopped
  rows,         \* status of its row in memory
  disk,         \* and on disk
  \* The rest only records what happened, for the properties and the bounds.
  unrecorded,   \* publishers nobody asked to record, or asked not to
  orphaned,     \* a takeover has left its object out of the registry
  exitBy,       \* how the last process ended
  toggles,
  starts

serverVars == <<registry, publisher, graceTimer, subscribers>>
sessionVars == <<conn, broadcast>>
recordVars == <<attached, active, recorder, rows>>
ghostVars == <<unrecorded, orphaned>>
processVars == <<status, serving, exitBy, starts>>
configVars == <<auto, toggles>>
vars == <<processVars, configVars, serverVars, sessionVars, recordVars, disk,
          ghostVars>>

RowStatus == {"none", "recording", "done"}

TypeOK ==
  /\ status \in {"down", "starting", "up", "closing"}
  /\ serving \in BOOLEAN /\ auto \in BOOLEAN
  /\ registry \in Servers \cup {None}
  /\ publisher \in [Servers -> Publishers \cup {None}]
  /\ graceTimer \in [Servers -> BOOLEAN]
  /\ subscribers \in [Servers -> SUBSET (Viewers \cup Records)]
  /\ conn \in [Sessions -> {"unopened", "open", "closed"}]
  /\ broadcast \in [Sessions -> Servers \cup {None}]
  /\ attached \in [Records -> Servers \cup {None}]
  /\ active \in Records \cup {None}
  /\ recorder \in [Records -> {"new", "running", "stopped"}]
  /\ rows \in [Records -> RowStatus]
  /\ disk \in [Records -> RowStatus]
  /\ unrecorded \subseteq Publishers
  /\ orphaned \in BOOLEAN
  /\ exitBy \in {"none", "stop", "crash"}
  /\ toggles \in 0..MaxToggles
  /\ starts \in 0..MaxStarts

Init ==
  /\ status = "down" /\ serving = FALSE /\ exitBy = "none" /\ starts = 0
  /\ auto \in BOOLEAN /\ toggles = 0
  /\ registry = None
  /\ publisher = [b \in Servers |-> None]
  /\ graceTimer = [b \in Servers |-> FALSE]
  /\ subscribers = [b \in Servers |-> {}]
  /\ conn = [s \in Sessions |-> "unopened"]
  /\ broadcast = [s \in Sessions |-> None]
  /\ attached = [r \in Records |-> None]
  /\ active = None
  /\ recorder = [r \in Records |-> "new"]
  /\ rows = [r \in Records |-> "none"]
  /\ disk = [r \in Records |-> "none"]
  /\ unrecorded = {} /\ orphaned = FALSE

Alive == status # "down"
Running == {r \in Records : recorder[r] = "running"}

-----------------------------------------------------------------------------
(***************************************************************************)
(* Record sessions start and stop.                                         *)
(***************************************************************************)

\* An object nobody refers to: the one that `new BroadcastServer` returns.
Fresh(b) ==
  /\ publisher[b] = None
  /\ subscribers[b] = {}
  /\ \A s \in Sessions : conn[s] = "open" => broadcast[s] # b

\* Context.broadcasts.get(streamPath) ?? new BroadcastServer(streamPath)
Resolves(b, reg) == IF reg = None THEN Fresh(b) ELSE b = reg

\* The record sessions of R stop: donePlay of each, and its doneRecord event.
\* subs and reg are what subscribers and registry are afterwards; pub is the
\* publisher of each object at that time.
WithoutRecords(R) == [b \in Servers |-> subscribers[b] \ R]

\* _destroyIfEmpty of each object in B, once the sessions of R have left and the
\* slots hold pub: what the registry names then.
RegistryWithout(B, R, pub) ==
  IF registry \in B /\ pub[registry] = None /\ subscribers[registry] \subseteq R
  THEN None ELSE registry

ObjectsOf(R) == {attached[r] : r \in R}

\* Slip: the row is not closed.
RowsUntouched(R) == rows
RowsDone(R) ==
  [r \in Records |-> IF r \in R /\ rows[r] = "recording" THEN "done" ELSE rows[r]]

StopRecords(R) ==
  /\ subscribers' = WithoutRecords(R)
  /\ active' = IF R = {} THEN active ELSE None
  /\ recorder' = [r \in Records |-> IF r \in R THEN "stopped" ELSE recorder[r]]
  /\ rows' = RowsDone(R)
  /\ UNCHANGED attached

\* A record session is made and run, once those of R have stopped and the
\* registry is reg: postPlay, then its postRecord event.
StartRecord(R, reg) ==
  \E r \in Records, b \in Servers :
    /\ recorder[r] = "new"
    /\ Resolves(b, reg)
    /\ registry' = b
    /\ subscribers' = [WithoutRecords(R) EXCEPT ![b] = @ \cup {r}]
    /\ attached' = [attached EXCEPT ![r] = b]
    /\ active' = r
    /\ recorder' = [x \in Records |->
                      IF x = r THEN "running"
                      ELSE IF x \in R THEN "stopped" ELSE recorder[x]]
    /\ rows' = [RowsDone(R) EXCEPT ![r] = "recording"]

\* The postPublish event: _onPostPublish starts a recording, or leaves the
\* one that goes on.
\* Slip: it looks before those of R have left the map.
StartsUnlessMapped(R) == serving /\ auto /\ active = None
StartsRecord(R) == serving /\ auto /\ (active = None \/ R # {})

PostPublishEvent(R, reg) ==
  IF StartsRecord(R)
  THEN StartRecord(R, reg)
  ELSE StopRecords(R) /\ registry' = reg

-----------------------------------------------------------------------------
(***************************************************************************)
(* Publishing and playing, as in module Broadcast.  A command binds the    *)
(* session to the object of its path and registers that object.            *)
(***************************************************************************)

Command(s, b) ==
  /\ Alive
  /\ conn[s] = "unopened"
  /\ Resolves(b, registry)
  /\ conn' = [conn EXCEPT ![s] = "open"]
  /\ broadcast' = [broadcast EXCEPT ![s] = b]

\* Publishers that are to be recorded: s, when the event finds the record
\* server at work.
Asked(s) == IF serving /\ auto THEN unrecorded \ {s} ELSE unrecorded \cup {s}

Publish(s, b) ==
  /\ Command(s, b)
  /\ UNCHANGED <<processVars, configVars, disk>>

\* postPublish: the slot is free.
PublishStart(s, b) ==
  /\ publisher[b] = None
  /\ Publish(s, b)
  /\ PostPublishEvent({}, b)
  /\ publisher' = [publisher EXCEPT ![b] = s]
  /\ unrecorded' = Asked(s)
  /\ UNCHANGED <<graceTimer, orphaned>>

\* postPublish: somebody publishes.  The event is emitted all the same.
PublishBusy(s, b) ==
  /\ publisher[b] # None
  /\ ~graceTimer[b]
  /\ Publish(s, b)
  /\ PostPublishEvent({}, b)
  /\ UNCHANGED <<publisher, graceTimer, ghostVars>>

\* postPublish in the grace window, same client: _resumePublish.
PublishResume(s, b) ==
  /\ publisher[b] # None
  /\ graceTimer[b]
  /\ address[s] = address[publisher[b]]
  /\ Publish(s, b)
  /\ PostPublishEvent({}, b)
  /\ publisher' = [publisher EXCEPT ![b] = s]
  /\ graceTimer' = [graceTimer EXCEPT ![b] = FALSE]
  /\ unrecorded' = IF serving /\ auto THEN unrecorded \ {s}
                   ELSE IF publisher[b] \in unrecorded THEN unrecorded \cup {s}
                   ELSE unrecorded
  /\ UNCHANGED orphaned

\* Record sessions that hear donePublish: whatever object it comes from.
\* Slip: those attached to the object.
ListenersOf(b) == {r \in Running : attached[r] = b}
Listeners(b) == Running

\* What _finishPublish of b leaves in the registry, record sessions gone.
Finished(b) == [publisher EXCEPT ![b] = None]
RegistryAfterFinish(b) ==
  LET R == Listeners(b)
  IN  RegistryWithout(ObjectsOf(R) \cup {b}, R, Finished(b))

\* postPublish in the grace window, another client: _finishPublish stops the
\* recording, and the event then starts another one.
PublishTakeOver(s, b) ==
  /\ publisher[b] # None
  /\ graceTimer[b]
  /\ address[s] # address[publisher[b]]
  /\ Publish(s, b)
  /\ PostPublishEvent(Listeners(b), RegistryAfterFinish(b))
  /\ orphaned' = (orphaned \/ RegistryAfterFinish(b) # b)
  /\ publisher' = [publisher EXCEPT ![b] = s]
  /\ graceTimer' = [graceTimer EXCEPT ![b] = FALSE]
  /\ unrecorded' = Asked(s)

\* The grace timer fires: _finishPublish.
GraceExpires(b) ==
  /\ Alive
  /\ graceTimer[b]
  /\ graceTimer' = [graceTimer EXCEPT ![b] = FALSE]
  /\ publisher' = Finished(b)
  /\ StopRecords(Listeners(b))
  /\ registry' = RegistryAfterFinish(b)
  /\ UNCHANGED <<processVars, configVars, sessionVars, disk, ghostVars>>

\* The connection of a publisher is lost: donePublish, unless it was refused.
ClosePublisher(s, b) ==
  /\ Alive
  /\ conn[s] = "open" /\ broadcast[s] = b
  /\ conn' = [conn EXCEPT ![s] = "closed"]
  /\ graceTimer' = IF publisher[b] = s THEN [graceTimer EXCEPT ![b] = TRUE]
                   ELSE graceTimer
  /\ UNCHANGED <<processVars, configVars, registry, publisher, subscribers,
                 broadcast, recordVars, disk, ghostVars>>

\* postPlay.
PlayStart(s, b) ==
  /\ Command(s, b)
  /\ registry' = b
  /\ subscribers' = [subscribers EXCEPT ![b] = @ \cup {s}]
  /\ UNCHANGED <<processVars, configVars, publisher, graceTimer, recordVars,
                 disk, ghostVars>>

\* donePlay.
CloseViewer(s, b) ==
  /\ Alive
  /\ conn[s] = "open" /\ broadcast[s] = b
  /\ conn' = [conn EXCEPT ![s] = "closed"]
  /\ subscribers' = [subscribers EXCEPT ![b] = @ \ {s}]
  /\ registry' = RegistryWithout({b}, {s}, publisher)
  /\ UNCHANGED <<processVars, configVars, publisher, graceTimer, broadcast,
                 recordVars, disk, ghostVars>>

-----------------------------------------------------------------------------
(***************************************************************************)
(* The API: startRecord, stopRecord, deleteRecord, and config.record.auto. *)
(***************************************************************************)

startRecord ==
  /\ serving
  /\ active = None
  /\ \E b \in Servers : b = registry /\ publisher[b] # None
  /\ StartRecord({}, registry)
  /\ UNCHANGED <<processVars, configVars, publisher, graceTimer, sessionVars,
                 disk, ghostVars>>

\* The sessions that are stopped through the map.
Active == {active} \ {None}

StopActive ==
  /\ StopRecords(Active)
  /\ registry' = RegistryWithout(ObjectsOf(Active), Active, publisher)
  /\ UNCHANGED <<publisher, graceTimer>>

stopRecord ==
  /\ Alive
  /\ active # None
  /\ StopActive
  /\ unrecorded' = unrecorded \cup ({publisher[b] : b \in Servers} \ {None})
  /\ UNCHANGED <<processVars, configVars, sessionVars, disk, orphaned>>

\* A row in use is protected.
Deletable(r) == rows[r] = "done"

deleteRecord(r) ==
  /\ status = "up"
  /\ Deletable(r)
  /\ rows' = [rows EXCEPT ![r] = "none"]
  /\ UNCHANGED <<processVars, configVars, serverVars, sessionVars, attached,
                 active, recorder, disk, ghostVars>>

ToggleAuto ==
  /\ Alive
  /\ toggles < MaxToggles
  /\ toggles' = toggles + 1
  /\ auto' = ~auto
  /\ UNCHANGED <<processVars, serverVars, sessionVars, recordVars, disk,
                 ghostVars>>

-----------------------------------------------------------------------------
(***************************************************************************)
(* The process.                                                            *)
(***************************************************************************)

\* run(): the RTMP and HTTP servers listen, the store opens.  A store that
\* does not open leaves the process as it is here.
Boot ==
  /\ status = "down"
  /\ starts < MaxStarts
  /\ status' = "starting"
  /\ starts' = starts + 1
  /\ exitBy' = "none"
  /\ UNCHANGED <<serving, configVars, serverVars, sessionVars, recordVars, disk,
                 ghostVars>>

\* _recoverStaleRecords: rows of recordings that an unclean end left open.
Recovered(row) == IF row = "recording" THEN "done" ELSE row

\* The store has loaded its collections and the record server runs.
StoreOpened ==
  /\ status = "starting"
  /\ status' = "up"
  /\ serving' = TRUE
  /\ rows' = [r \in Records |-> Recovered(disk[r])]
  /\ UNCHANGED <<exitBy, starts, configVars, serverVars, sessionVars, attached,
                 active, recorder, disk, ghostVars>>

\* The store flushes (module Store says when).
Flush ==
  /\ status \in {"up", "closing"}
  /\ disk' = rows
  /\ UNCHANGED <<processVars, configVars, serverVars, sessionVars, recordVars,
                 ghostVars>>

\* stop(): the record server stops and finalizes; sockets are closed, which
\* the sessions learn later; store.close() is awaited.
RecordServerStop == StopActive

Shutdown ==
  /\ status = "up"
  /\ status' = "closing"
  /\ serving' = FALSE
  /\ RecordServerStop
  /\ UNCHANGED <<exitBy, starts, configVars, sessionVars, disk, ghostVars>>

\* Nothing is left but the disk.
ProcessEnds ==
  /\ status' = "down"
  /\ serving' = FALSE
  /\ registry' = None
  /\ publisher' = [b \in Servers |-> None]
  /\ graceTimer' = [b \in Servers |-> FALSE]
  /\ subscribers' = [b \in Servers |-> {}]
  /\ conn' = [s \in Sessions |->
                IF conn[s] = "open" THEN "closed" ELSE conn[s]]
  /\ active' = None
  /\ recorder' = [r \in Records |->
                    IF recorder[r] = "running" THEN "stopped" ELSE recorder[r]]
  /\ rows' = [r \in Records |-> "none"]
  /\ unrecorded' = {} /\ orphaned' = FALSE
  /\ UNCHANGED <<configVars, broadcast, attached, starts>>

\* store.close() has flushed.
Exit ==
  /\ status = "closing"
  /\ ProcessEnds
  /\ disk' = rows
  /\ exitBy' = "stop"

Crash ==
  /\ Alive
  /\ ProcessEnds
  /\ exitBy' = "crash"
  /\ UNCHANGED disk

-----------------------------------------------------------------------------
Next ==
  \/ \E s \in Publishers, b \in Servers :
       \/ PublishStart(s, b) \/ PublishBusy(s, b)
       \/ PublishResume(s, b) \/ PublishTakeOver(s, b)
       \/ ClosePublisher(s, b)
  \/ \E s \in Viewers, b \in Servers : PlayStart(s, b) \/ CloseViewer(s, b)
  \/ \E b \in Servers : GraceExpires(b)
  \/ startRecord \/ stopRecord \/ ToggleAuto
  \/ \E r \in Records : deleteRecord(r)
  \/ Boot \/ StoreOpened \/ Flush \/ Shutdown \/ Exit \/ Crash

Spec == Init /\ [][Next]_vars

-----------------------------------------------------------------------------
(***************************************************************************)
(* Properties.                                                             *)
(***************************************************************************)

\* A path has one recording at most, the one the map names, and its row is the
\* only one that says so: none is left open by a stop, a takeover, a crash or a
\* row deleted too early.
RowsMatchRecordings ==
  /\ Running = Active
  /\ status \in {"up", "closing"} =>
       \A r \in Records : rows[r] = "recording" <=> r \in Running

\* A recording gets packets as long as it runs and never after its file is
\* closed, is attached to the object that players of the path get, and never
\* outlives the last publish of the path.  That it is the object which is
\* published to is true as long as no takeover has split the two.
RecorderFollowsStream ==
  /\ \A r \in Records, b \in Servers :
       r \in subscribers[b] <=> r \in Running /\ attached[r] = b
  /\ \A r \in Running :
       /\ attached[r] = registry
       /\ \E b \in Servers :
            publisher[b] # None /\ (attached[r] = b \/ orphaned)

\* Every publish is recorded, over its reconnections, if the record server was
\* at work when it began and nobody stopped it; with the same exception.
AutoRecordsAll ==
  \A b \in Servers :
    serving /\ ~orphaned /\ publisher[b] \notin unrecorded \cup {None} =>
      \E r \in Running : attached[r] = b

\* After a clean shutdown no row on disk says that a recording goes on.
CleanShutdown ==
  status = "down" /\ exitBy = "stop" =>
    \A r \in Records : disk[r] # "recording"

\* Both of them: rows tell what is recorded, over takeovers, crashes and stops.
RowsInOrder == RowsMatchRecordings /\ CleanShutdown
=============================================================================
