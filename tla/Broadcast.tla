----------------------------- MODULE Broadcast -----------------------------
(***************************************************************************)
(* The publish slot of one stream path: server/broadcast_server.js driven  *)
(* by the RTMP, HTTP-FLV / WS-FLV and relay push sessions of the path      *)
(* (session/*.js) and by the grace timer, with the registry                *)
(* Context.broadcasts and the history rows that donePublish writes.        *)
(*                                                                         *)
(* Node runs one callback at a time, so one action is one callback with    *)
(* everything it calls, event listeners included.  What interleaves is the *)
(* order of commands, socket closes and timer expiries.                    *)
(*                                                                         *)
(* BroadcastServer objects have an identity of their own: a session keeps  *)
(* a reference to the object it was bound to, and the registry may by then *)
(* name another one, or none.                                              *)
(***************************************************************************)
EXTENDS Naturals, FiniteSets

CONSTANTS
  Servers,      \* identities of BroadcastServer objects
  Rtmp,         \* sessions that come in over RTMP
  Flv,          \* HTTP-FLV and WS-FLV sessions: one request, one command
  Push,         \* relay push sessions: internal players, with an empty ip
  address,      \* address of a session's peer, its port left out
  None,         \* null, undefined
  PublishAuth,  \* config.auth.publish
  PlayAuth,     \* config.auth.play
  MaxCommands   \* bound: publish and play commands one RTMP connection sends

Sessions == Rtmp \cup Flv \cup Push
External == Rtmp \cup Flv

ASSUME SessionsAssumption ==
  /\ Rtmp \cap Flv = {} /\ Rtmp \cap Push = {} /\ Flv \cap Push = {}
  /\ None \notin Sessions /\ None \notin Servers

ASSUME ConfigAssumption ==
  /\ PublishAuth \in BOOLEAN /\ PlayAuth \in BOOLEAN
  /\ MaxCommands \in Nat \ {0}

VARIABLES
  registry,     \* Context.broadcasts.get(streamPath)
  publisher,    \* BroadcastServer.publisher
  graceTimer,   \* BroadcastServer._publishGraceTimer is armed
  subscribers,  \* BroadcastServer.subscribers
  conn,         \* the socket of a session
  broadcast,    \* session.broadcast; None stands for the "" placeholder
  isPublisher,  \* session.isPublisher
  commands,     \* commands the session has sent
  endTime,      \* session.endTime is set
  createTime,   \* session.createTime, named by the session it was taken from
  playCount,    \* session.playCount
  history,      \* rows of the store's stream_history collection
  \* The rest only records what happened, for the properties.
  lineage,      \* first session of the publish that a session carried
  plays,        \* viewers accepted while a publish was in its slot
  tookOver,     \* sessions that ended the publish of another client
  doneEvents    \* donePublish events emitted for a session

serverVars  == <<registry, publisher, graceTimer, subscribers>>
sessionVars == <<conn, broadcast, isPublisher, commands>>
statVars    == <<endTime, createTime, playCount, history>>
ghostVars   == <<lineage, plays, tookOver, doneEvents>>
vars == <<serverVars, sessionVars, statVars, ghostVars>>

Rows == [id : Sessions, createTime : Sessions, playCount : Nat]

TypeOK ==
  /\ registry \in Servers \cup {None}
  /\ publisher \in [Servers -> Sessions \cup {None}]
  /\ graceTimer \in [Servers -> BOOLEAN]
  /\ subscribers \in [Servers -> SUBSET Sessions]
  /\ conn \in [Sessions -> {"unopened", "open", "closed"}]
  /\ broadcast \in [Sessions -> Servers \cup {None}]
  /\ isPublisher \in [Sessions -> BOOLEAN]
  /\ commands \in [Sessions -> 0..MaxCommands]
  /\ endTime \in [Sessions -> BOOLEAN]
  /\ createTime \in [Sessions -> Sessions]
  /\ playCount \in [Sessions -> Nat]
  /\ history \subseteq Rows
  /\ lineage \in [Sessions -> Sessions \cup {None}]
  /\ plays \in [Sessions \cup {None} -> Nat]
  /\ tookOver \subseteq Sessions
  /\ doneEvents \in [Sessions -> Nat]

Init ==
  /\ registry = None
  /\ publisher = [b \in Servers |-> None]
  /\ graceTimer = [b \in Servers |-> FALSE]
  /\ subscribers = [b \in Servers |-> {}]
  /\ conn = [s \in Sessions |-> "unopened"]
  /\ broadcast = [s \in Sessions |-> None]
  /\ isPublisher = [s \in Sessions |-> FALSE]
  /\ commands = [s \in Sessions |-> 0]
  /\ endTime = [s \in Sessions |-> FALSE]
  /\ createTime = [s \in Sessions |-> s]
  /\ playCount = [s \in Sessions |-> 0]
  /\ history = {}
  /\ lineage = [s \in Sessions |-> None]
  /\ plays = [s \in Sessions \cup {None} |-> 0]
  /\ tookOver = {}
  /\ doneEvents = [s \in Sessions |-> 0]

-----------------------------------------------------------------------------
(***************************************************************************)
(* Pieces of the handlers.                                                 *)
(***************************************************************************)

\* An object nobody refers to: the one that `new BroadcastServer` returns.
Fresh(b) ==
  /\ b # registry
  /\ publisher[b] = None
  /\ subscribers[b] = {}
  /\ \A s \in Sessions : conn[s] = "open" => broadcast[s] # b

\* Context.broadcasts.get(streamPath) ?? new BroadcastServer(streamPath)
Resolves(b) == IF registry = None THEN Fresh(b) ELSE b = registry

\* A session sends a command and is bound to the object of its path.  An FLV
\* session is constructed, bound and run in one callback.
Command(s, b) ==
  /\ \/ s \in Rtmp /\ conn[s] = "open"
     \/ s \in Flv  /\ conn[s] = "unopened"
  /\ commands[s] < MaxCommands
  /\ Resolves(b)
  /\ conn' = [conn EXCEPT ![s] = "open"]
  /\ commands' = [commands EXCEPT ![s] = @ + 1]
  /\ broadcast' = [broadcast EXCEPT ![s] = b]

\* Slip: the object goes with its publisher, players or not.
RegistryWithoutPlayed(b, subs) == IF registry = b THEN None ELSE registry

\* _destroyIfEmpty of b, whose slot is free: what the registry holds after it.
RegistryWithout(b, subs) ==
  IF registry = b /\ subs = {} THEN None ELSE registry

\* donePublish acts only for the session in the slot, once a connection.
\* Slips: any publisher's close; no grace for a stream nobody watches.
LosesAnySlot(s, b) == publisher[b] # None /\ ~graceTimer[b]
LosesWatchedSlot(s, b) ==
  publisher[b] = s /\ ~graceTimer[b] /\ subscribers[b] # {}
LosesSlot(s, b) == publisher[b] = s /\ ~graceTimer[b]

\* The grace window is for the client that lost the connection.
\* Slip: for everybody.
AnyClient(s, b) == TRUE
SameClient(s, b) == address[s] = address[publisher[b]]

\* What _resumePublish takes from the publisher that went.
\* Slip: it takes nothing.
NotInherited(stat, s, b) == stat
Inherited(stat, s, b) == [stat EXCEPT ![s] = stat[publisher[b]]]

\* subscribers.delete of donePlay.
WithoutPlayer(b, s) == [subscribers EXCEPT ![b] = @ \ {s}]

\* Slip in the rows below: one row a client.
HistoryByClient(p) ==
  IF endTime[p] /\ \A row \in history : address[row.id] # address[p]
  THEN history \cup {[id |-> p, createTime |-> createTime[p],
                      playCount |-> playCount[p]]}
  ELSE history

\* The history server's donePublish listener.  Rows are keyed by session id
\* and an insert of a known id throws, which the listener logs.
HistoryWith(p) ==
  IF endTime[p] /\ \A row \in history : row.id # p
  THEN history \cup {[id |-> p, createTime |-> createTime[p],
                      playCount |-> playCount[p]]}
  ELSE history

\* The donePublish event for p, with its listeners.
EmitDonePublish(p) ==
  /\ history' = HistoryWith(p)
  /\ doneEvents' = [doneEvents EXCEPT ![p] = @ + 1]

\* isPublisher after a publish command: FLV sets it from the request, before
\* the publish is accepted; RTMP once it is accepted.
MarkPublisher(s, accepted) ==
  isPublisher' = [isPublisher EXCEPT ![s] = @ \/ accepted \/ s \in Flv]

-----------------------------------------------------------------------------
(***************************************************************************)
(* Publishing.                                                             *)
(***************************************************************************)

\* The RTMP listener hands over a socket; the session has no path yet.
Connect(s) ==
  /\ s \in Rtmp
  /\ conn[s] = "unopened"
  /\ conn' = [conn EXCEPT ![s] = "open"]
  /\ UNCHANGED <<serverVars, broadcast, isPublisher, commands, statVars,
                 ghostVars>>

\* postPublish: the signature does not verify.
PublishUnauthorized(s, b) ==
  /\ PublishAuth
  /\ Command(s, b)
  /\ registry' = b
  /\ MarkPublisher(s, FALSE)
  /\ UNCHANGED <<publisher, graceTimer, subscribers, statVars, ghostVars>>

\* postPublish: the slot is free.
PublishStart(s, b) ==
  /\ publisher[b] = None
  /\ Command(s, b)
  /\ registry' = b
  /\ publisher' = [publisher EXCEPT ![b] = s]
  /\ MarkPublisher(s, TRUE)
  /\ lineage' = [lineage EXCEPT ![s] = s]
  /\ UNCHANGED <<graceTimer, subscribers, statVars, plays, tookOver,
                 doneEvents>>

\* postPublish: somebody publishes.
PublishBusy(s, b) ==
  /\ publisher[b] # None
  /\ ~graceTimer[b]
  /\ Command(s, b)
  /\ registry' = b
  /\ MarkPublisher(s, FALSE)
  /\ UNCHANGED <<publisher, graceTimer, subscribers, statVars, ghostVars>>

\* postPublish in the grace window, same client: _resumePublish.
PublishResume(s, b) ==
  /\ publisher[b] # None
  /\ graceTimer[b]
  /\ SameClient(s, b)
  /\ Command(s, b)
  /\ registry' = b
  /\ graceTimer' = [graceTimer EXCEPT ![b] = FALSE]
  /\ publisher' = [publisher EXCEPT ![b] = s]
  /\ createTime' = Inherited(createTime, s, b)
  /\ playCount' = Inherited(playCount, s, b)
  /\ MarkPublisher(s, TRUE)
  /\ lineage' = [lineage EXCEPT ![s] = lineage[publisher[b]]]
  /\ UNCHANGED <<subscribers, endTime, history, plays, tookOver, doneEvents>>

\* postPublish in the grace window, another client: _finishPublish, which may
\* unregister the object, then the newcomer takes the slot of that object.
PublishTakeOver(s, b) ==
  /\ publisher[b] # None
  /\ graceTimer[b]
  /\ ~SameClient(s, b)
  /\ Command(s, b)
  /\ registry' = RegistryWithout(b, subscribers[b])
  /\ graceTimer' = [graceTimer EXCEPT ![b] = FALSE]
  /\ EmitDonePublish(publisher[b])
  /\ publisher' = [publisher EXCEPT ![b] = s]
  /\ MarkPublisher(s, TRUE)
  /\ lineage' = [lineage EXCEPT ![s] = s]
  /\ tookOver' = tookOver \cup {s}
  /\ UNCHANGED <<subscribers, endTime, createTime, playCount, plays>>

\* The grace timer fires: _finishPublish.
GraceExpires(b) ==
  /\ graceTimer[b]
  /\ publisher[b] # None
  /\ graceTimer' = [graceTimer EXCEPT ![b] = FALSE]
  /\ publisher' = [publisher EXCEPT ![b] = None]
  /\ EmitDonePublish(publisher[b])
  /\ registry' = RegistryWithout(b, subscribers[b])
  /\ UNCHANGED <<subscribers, sessionVars, endTime, createTime, playCount,
                 lineage, plays, tookOver>>

-----------------------------------------------------------------------------
(***************************************************************************)
(* Playing.                                                                *)
(***************************************************************************)

\* postPlay: the signature does not verify.
PlayUnauthorized(s, b) ==
  /\ PlayAuth
  /\ Command(s, b)
  /\ registry' = b
  /\ UNCHANGED <<publisher, graceTimer, subscribers, isPublisher, statVars,
                 ghostVars>>

\* postPlay of an external player: counted on whoever is in the slot.
PlayStart(s, b) ==
  /\ Command(s, b)
  /\ registry' = b
  /\ subscribers' = [subscribers EXCEPT ![b] = @ \cup {s}]
  /\ isPublisher' = [isPublisher EXCEPT ![s] = FALSE]
  /\ IF publisher[b] # None
     THEN /\ playCount' = [playCount EXCEPT ![publisher[b]] = @ + 1]
          /\ plays' = [plays EXCEPT ![lineage[publisher[b]]] = @ + 1]
     ELSE /\ plays' = [plays EXCEPT ![None] = @ + 1]
          /\ UNCHANGED playCount
  /\ UNCHANGED <<publisher, graceTimer, endTime, createTime, history, lineage,
                 tookOver, doneEvents>>

\* registerPush: a relay push session joins a stream that exists; its ip is
\* empty, so it is neither checked nor counted.
RegisterPush(s) ==
  /\ s \in Push
  /\ conn[s] = "unopened"
  /\ registry # None
  /\ conn' = [conn EXCEPT ![s] = "open"]
  /\ broadcast' = [broadcast EXCEPT ![s] = registry]
  /\ subscribers' = [subscribers EXCEPT ![registry] = @ \cup {s}]
  /\ UNCHANGED <<registry, publisher, graceTimer, isPublisher, commands,
                 statVars, ghostVars>>

-----------------------------------------------------------------------------
(***************************************************************************)
(* The socket closes: onClose of the session.                              *)
(***************************************************************************)

\* Before any command there is only the placeholder object to leave.
CloseUnbound(s) ==
  /\ conn[s] = "open"
  /\ broadcast[s] = None
  /\ conn' = [conn EXCEPT ![s] = "closed"]
  /\ endTime' = [endTime EXCEPT ![s] = TRUE]
  /\ UNCHANGED <<serverVars, broadcast, isPublisher, commands, createTime,
                 playCount, history, ghostVars>>

\* donePublish: arms the grace timer, unless s does not hold the slot.
ClosePublisher(s) ==
  LET b == broadcast[s]
      held == LosesSlot(s, b)
  IN
  /\ conn[s] = "open"
  /\ b # None
  /\ isPublisher[s]
  /\ conn' = [conn EXCEPT ![s] = "closed"]
  /\ endTime' = [endTime EXCEPT ![s] = @ \/ held]
  /\ graceTimer' = [graceTimer EXCEPT ![b] = @ \/ held]
  /\ UNCHANGED <<registry, publisher, subscribers, broadcast, isPublisher,
                 commands, createTime, playCount, history, ghostVars>>

\* donePlay.
ClosePlayer(s) ==
  LET b == broadcast[s] IN
  /\ conn[s] = "open"
  /\ b # None
  /\ ~isPublisher[s]
  /\ conn' = [conn EXCEPT ![s] = "closed"]
  /\ endTime' = [endTime EXCEPT ![s] = TRUE]
  /\ subscribers' = WithoutPlayer(b, s)
  /\ registry' = IF publisher[b] = None
                 THEN RegistryWithout(b, subscribers'[b])
                 ELSE registry
  /\ UNCHANGED <<publisher, graceTimer, broadcast, isPublisher, commands,
                 createTime, playCount, history, ghostVars>>

-----------------------------------------------------------------------------
Publish(s, b) ==
  \/ PublishUnauthorized(s, b)
  \/ PublishStart(s, b)
  \/ PublishBusy(s, b)
  \/ PublishResume(s, b)
  \/ PublishTakeOver(s, b)

Play(s, b) == PlayUnauthorized(s, b) \/ PlayStart(s, b)

Close(s) == CloseUnbound(s) \/ ClosePublisher(s) \/ ClosePlayer(s)

Next ==
  \/ \E s \in Sessions : Connect(s) \/ RegisterPush(s) \/ Close(s)
  \/ \E s \in Sessions, b \in Servers : Publish(s, b) \/ Play(s, b)
  \/ \E b \in Servers : GraceExpires(b)

Spec == Init /\ [][Next]_vars

\* A timer that is armed and not cleared fires: setTimeout guarantees it while
\* the process runs.  Clients owe nothing.
Fairness == \A b \in Servers : WF_vars(GraceExpires(b))

FairSpec == Spec /\ Fairness

-----------------------------------------------------------------------------
(***************************************************************************)
(* Properties.                                                             *)
(***************************************************************************)

Holds(b, s) == publisher[b] = s

\* Whoever holds a slot is bound to it as a publisher and is in one slot only;
\* its connection is open unless the grace timer of the slot is running.  What
\* getPublishStatus reports ("publishing", "reconnecting", "idle") is then
\* true of the socket: no slot waits for a client without a timer, and no
\* timer runs against a client that is connected.
SlotFollowsConnection ==
  \A b \in Servers : \A s \in Sessions : Holds(b, s) =>
    /\ broadcast[s] = b
    /\ isPublisher[s]
    /\ graceTimer[b] <=> (conn[s] = "closed")

\* A closed connection is left in no subscriber list, a publisher in none, and
\* a player in the list of the object it is bound to only: what onClose undoes
\* is what the commands of the connection did.
SubscribersAreConnected ==
  \A b \in Servers : \A s \in subscribers[b] :
    conn[s] = "open" /\ ~isPublisher[s] /\ broadcast[s] = b

\* Both of them: the state of an object follows the sockets.
FollowsConnections == SlotFollowsConnection /\ SubscribersAreConnected

\* The objects in whose slot the publish that session o started still is.
SlotsOf(o) == {b \in Servers : publisher[b] # None /\ lineage[publisher[b]] = o}

\* The sessions of the publish started by o for which donePublish was emitted.
EndsOf(o) == {s \in Sessions : lineage[s] = o /\ doneEvents[s] > 0}

\* A publish, through all its reconnections, is in one slot or has had one
\* donePublish event, never both, never twice and never neither: resuming,
\* taking over, expiry and rejected attempts lose no publish and end none
\* twice, and each publish that ended has its row in the history.
EndedExactlyOnce ==
  /\ \A s \in Sessions : doneEvents[s] <= 1
  /\ \A o \in Sessions : lineage[o] = o =>
       \/ /\ \E b \in Servers : SlotsOf(o) = {b}
          /\ EndsOf(o) = {}
       \/ /\ SlotsOf(o) = {}
          /\ \E s \in Sessions :
               EndsOf(o) = {s} /\ \E row \in history : row.id = s

\* The start time and play counter reported for a publish, live or in its
\* history row, are those of the whole publish: every viewer accepted since
\* its first connection is counted once, those of the grace window included.
StatsSpanReconnects ==
  /\ \A b \in Servers : publisher[b] # None =>
       /\ createTime[publisher[b]] = lineage[publisher[b]]
       /\ playCount[publisher[b]] = plays[lineage[publisher[b]]]
  /\ \A row \in history :
       /\ row.createTime = lineage[row.id]
       /\ row.playCount = plays[lineage[row.id]]

\* Everything that goes on under the path goes on in the object the registry
\* names, but for publishers that took over a path nobody was watching: their
\* object was unregistered by the end of the publish before them.
OrphanedOnlyByTakeOver ==
  \A b \in Servers : b # registry =>
    /\ subscribers[b] = {}
    /\ (publisher[b] # None => publisher[b] \in tookOver)

\* The registry keeps an object without publisher and players only for a
\* refused client: one that is still connected, or an FLV publisher, whose
\* onClose takes it for the holder of the slot and never cleans up.
EmptyOnlyAfterRefusal ==
  registry # None /\ publisher[registry] = None /\ subscribers[registry] = {} =>
    \E s \in Sessions :
      /\ broadcast[s] = registry
      /\ lineage[s] = None
      /\ conn[s] = "open" \/ (s \in Flv /\ isPublisher[s])

\* Both of them: what goes on is found under the path, and what is found there
\* goes on, takeovers and refusals apart.
RegistryInOrder == OrphanedOnlyByTakeOver /\ EmptyOnlyAfterRefusal

\* What became of the publish a session carried, as Publication tells it.
PhaseOf(s) ==
  IF lineage[s] = None THEN "idle"
  ELSE IF \E b \in Servers : Holds(b, s) /\ graceTimer[b] THEN "held"
  ELSE IF \E b \in Servers : Holds(b, s) THEN "live"
  ELSE IF doneEvents[s] > 0 THEN "ended"
  ELSE "resumed"

Promise == INSTANCE Publication WITH
  phase <- [s \in Sessions |-> PhaseOf(s)],
  origin <- createTime,
  rows <- history

\* The slot of each object, its timer and the resume rule together keep the
\* promise of module Publication.
KeepsPublication == Promise!Spec

\* Once every connection is gone, every publish is ended and nothing waits:
\* the timers that are left do the rest.
EverythingEnds ==
  (\A s \in Sessions : conn[s] = "closed") ~>
    \A b \in Servers : publisher[b] = None /\ subscribers[b] = {}

\* All that goes on under one stream path goes on in one object, the one the
\* registry names: streams are listed, watched and refused through it.
OneBroadcast ==
  \A b \in Servers :
    publisher[b] # None \/ subscribers[b] # {} => b = registry
=============================================================================
