------------------------------- MODULE Relay -------------------------------
(***************************************************************************)
(* One relay task over RTMP: server/relay_server.js and                    *)
(* session/rtmp_client_session.js, with the connections that it makes      *)
(* (protocol/rtmp_client.js), the slot of its local stream path and its    *)
(* row in the store's "relay_tasks" collection.                            *)
(*                                                                         *)
(* connectAndStart is an asynchronous function: it awaits the handshake    *)
(* and the answer of each command, and then goes on with whatever client   *)
(* its session has by then.  A session makes a new client to reconnect and *)
(* does not disconnect the old one, whose callbacks remain installed.      *)
(*                                                                         *)
(* A call of connectAndStart is named by the client that was made for it.  *)
(***************************************************************************)
EXTENDS Naturals, FiniteSets

CONSTANTS
  Relays,                \* identities of RtmpClientSession objects
  Clients,               \* identities of RtmpClient objects
  Other,                 \* a local publisher of the path, another address
  None,
  reconnect,             \* config.reconnect
  maxReconnectAttempts,  \* 0: unlimited
  MaxStarts              \* bound: processes

ASSUME RelayAssumption ==
  /\ None \notin Relays \cup Clients /\ Other \notin Relays \cup {None}
  /\ reconnect \in BOOLEAN
  /\ maxReconnectAttempts \in Nat /\ MaxStarts \in Nat

VARIABLES
  up,            \* the process runs and its store is open
  task,          \* NodeRelayServer.tasks.get(taskKey)
  persisted,     \* the row of the task
  mode,          \* of the task: "pull" or "push"
  isRunning, isClosing, isRegistered,
  timer,         \* reconnectTimer is armed, reconnectScheduled
  watchdog,      \* timeoutTimer is armed
  attempts,      \* reconnectAttempts
  rtmpClient,    \* of a session
  session,       \* whose callbacks a client has
  socket,        \* of a client; "destroyed" until its close event
  awaits,        \* what a call waits for
  awaitsOn,      \* the client it waits for
  publisher,     \* of the local path
  graceTimer,
  players,       \* push sessions among its subscribers
  starts

sessionVars == <<isRunning, isClosing, isRegistered, timer, watchdog, attempts,
                 rtmpClient>>
clientVars == <<session, socket, awaits, awaitsOn>>
streamVars == <<publisher, graceTimer, players>>
taskVars == <<up, task, persisted, mode, starts>>
vars == <<taskVars, sessionVars, clientVars, streamVars>>

TypeOK ==
  /\ up \in BOOLEAN
  /\ task \in Relays \cup {None}
  /\ persisted \in BOOLEAN
  /\ mode \in {"pull", "push"}
  /\ isRunning \in [Relays -> BOOLEAN]
  /\ isClosing \in [Relays -> BOOLEAN]
  /\ isRegistered \in [Relays -> BOOLEAN]
  /\ timer \in [Relays -> BOOLEAN]
  /\ watchdog \in [Relays -> BOOLEAN]
  /\ attempts \in [Relays -> Nat]
  /\ maxReconnectAttempts > 0 =>
       \A s \in Relays : attempts[s] <= maxReconnectAttempts
  /\ rtmpClient \in [Relays -> Clients \cup {None}]
  /\ session \in [Clients -> Relays \cup {None}]
  /\ socket \in [Clients -> {"new", "open", "destroyed", "closed"}]
  /\ awaits \in [Clients -> {"nothing", "handshake", "command"}]
  /\ awaitsOn \in [Clients -> Clients \cup {None}]
  /\ publisher \in Relays \cup {Other, None}
  /\ graceTimer \in BOOLEAN
  /\ players \subseteq Relays
  /\ starts \in 0..MaxStarts

Init ==
  /\ up = FALSE /\ task = None /\ persisted = FALSE /\ starts = 0
  /\ mode \in {"pull", "push"}
  /\ isRunning = [s \in Relays |-> FALSE]
  /\ isClosing = [s \in Relays |-> FALSE]
  /\ isRegistered = [s \in Relays |-> FALSE]
  /\ timer = [s \in Relays |-> FALSE]
  /\ watchdog = [s \in Relays |-> FALSE]
  /\ attempts = [s \in Relays |-> 0]
  /\ rtmpClient = [s \in Relays |-> None]
  /\ session = [c \in Clients |-> None]
  /\ socket = [c \in Clients |-> "new"]
  /\ awaits = [c \in Clients |-> "nothing"]
  /\ awaitsOn = [c \in Clients |-> None]
  /\ publisher = None /\ graceTimer = FALSE /\ players = {}

-----------------------------------------------------------------------------
(***************************************************************************)
(* Pieces of the session.                                                  *)
(***************************************************************************)

\* The path has an object in Context.broadcasts.
Exists == publisher # None \/ players # {}

Open(c) == c \in Clients /\ socket[c] = "open"

\* createClient and connect of its client: a new call that awaits the
\* handshake.
Connects(s, c) ==
  /\ socket[c] = "new"
  /\ rtmpClient' = [rtmpClient EXCEPT ![s] = c]
  /\ session' = [session EXCEPT ![c] = s]
  /\ socket' = [socket EXCEPT ![c] = "open"]
  /\ awaits' = [awaits EXCEPT ![c] = "handshake"]
  /\ awaitsOn' = [awaitsOn EXCEPT ![c] = c]

\* Calls that wait for c are rejected.
Rejected(c) == {k \in Clients : awaits[k] # "nothing" /\ awaitsOn[k] = c}

\* handleReconnect gives up: a push whose source is gone, or enough attempts.
\* pub is the publisher at that time.
GivesUp(s, pub) ==
  \/ mode = "push" /\ pub = None
  \/ ~reconnect
  \/ maxReconnectAttempts > 0 /\ attempts[s] >= maxReconnectAttempts

\* handleReconnect: one timer, unless the session closes.  Giving up is
\* cleanup(): the session stays in the task list.
\* Slip: reconnectScheduled is not reset when the timer fires.
MayReconnectOnce(s) == ~isClosing[s] /\ ~timer[s] /\ attempts[s] = 0
MayReconnect(s) == ~isClosing[s] /\ ~timer[s]

handleReconnect(s, pub) ==
  LET may == MayReconnect(s)
      gives == GivesUp(s, pub)
  IN  /\ timer' = [timer EXCEPT ![s] = @ \/ (may /\ ~gives)]
      /\ attempts' = [attempts EXCEPT ![s] = IF may /\ ~gives THEN @ + 1 ELSE @]
      /\ isRunning' = [isRunning EXCEPT ![s] = @ /\ ~(may /\ gives)]

\* unregisterBroadcast: donePublish, which arms the grace timer, or donePlay.
\* Slip: the session remains registered.
unregisterKeeps(s) ==
  /\ IF isRegistered[s] /\ mode = "pull"
     THEN graceTimer' = (graceTimer \/ publisher = s)
     ELSE UNCHANGED graceTimer
  /\ players' = players \ (IF isRegistered[s] THEN {s} ELSE {})
  /\ UNCHANGED <<publisher, isRegistered>>

unregisterBroadcast(s) ==
  /\ isRegistered' = [isRegistered EXCEPT ![s] = FALSE]
  /\ IF isRegistered[s] /\ mode = "pull"
     THEN graceTimer' = (graceTimer \/ publisher = s)
     ELSE UNCHANGED graceTimer
  /\ players' = players \ (IF isRegistered[s] THEN {s} ELSE {})
  /\ UNCHANGED publisher

\* The rest of connectAndStart once the last answer is there.  A pull takes the
\* slot, when it is free or in the grace window of its own address.
Accepted(s) ==
  IF mode = "pull"
  THEN publisher = None \/ graceTimer
  ELSE Exists

Register(s) ==
  /\ isRegistered' = [isRegistered EXCEPT ![s] = TRUE]
  /\ IF mode = "pull"
     THEN publisher' = s /\ graceTimer' = FALSE /\ UNCHANGED players
     ELSE players' = players \cup {s} /\ UNCHANGED <<publisher, graceTimer>>
  /\ watchdog' = [watchdog EXCEPT ![s] = TRUE]
  /\ attempts' = [attempts EXCEPT ![s] = 0]

-----------------------------------------------------------------------------
(***************************************************************************)
(* connectAndStart.                                                        *)
(***************************************************************************)

\* What call k waits for is there, and it awaits the answer to a next command,
\* sent by the client the session has now.  Sending fails without a socket.
NextCommand(k) ==
  /\ up
  /\ awaits[k] # "nothing" /\ Open(awaitsOn[k])
  /\ LET s == session[k]
     IN  IF Open(rtmpClient[s])
         THEN /\ awaits' = [awaits EXCEPT ![k] = "command"]
              /\ awaitsOn' = [awaitsOn EXCEPT ![k] = rtmpClient[s]]
              /\ UNCHANGED <<timer, attempts, isRunning>>
         ELSE /\ awaits' = [awaits EXCEPT ![k] = "nothing"]
              /\ handleReconnect(s, publisher)
              /\ UNCHANGED awaitsOn
  /\ UNCHANGED <<taskVars, isClosing, isRegistered, watchdog, rtmpClient,
                 session, socket, streamVars>>

\* The answer to play or publish: the session registers, or the local stream
\* refuses it and the call throws.
Started(k) ==
  /\ up
  /\ awaits[k] = "command" /\ Open(awaitsOn[k])
  /\ awaits' = [awaits EXCEPT ![k] = "nothing"]
  /\ LET s == session[k]
     IN  IF Accepted(s)
         THEN Register(s) /\ UNCHANGED <<timer, isRunning>>
         ELSE /\ handleReconnect(s, publisher)
              /\ UNCHANGED <<isRegistered, watchdog, streamVars>>
  /\ UNCHANGED <<taskVars, isClosing, rtmpClient, session, socket, awaitsOn>>

\* The remote server answers with an error: the call is rejected, and the
\* connection stays.
Refused(k) ==
  /\ up
  /\ awaits[k] = "command" /\ Open(awaitsOn[k])
  /\ awaits' = [awaits EXCEPT ![k] = "nothing"]
  /\ handleReconnect(session[k], publisher)
  /\ UNCHANGED <<taskVars, isClosing, isRegistered, watchdog, rtmpClient,
                 session, socket, awaitsOn, streamVars>>

-----------------------------------------------------------------------------
(***************************************************************************)
(* Connections and timers.                                                 *)
(***************************************************************************)

\* onConnectionClose of the session that client c reports to.
onConnectionClose(c) ==
  LET s == session[c]
  IN  /\ watchdog' = [watchdog EXCEPT ![s] = FALSE]
      /\ unregisterBroadcast(s)
      /\ handleReconnect(s, publisher)

\* The close event of a socket, with or without an error, or after it was
\* destroyed: what waits for it is rejected too.
SocketCloses(c) ==
  /\ up
  /\ socket[c] \in {"open", "destroyed"}
  /\ socket' = [socket EXCEPT ![c] = "closed"]
  /\ awaits' = [k \in Clients |->
                 IF k \in Rejected(c) THEN "nothing" ELSE awaits[k]]
  /\ onConnectionClose(c)
  /\ UNCHANGED <<taskVars, isClosing, rtmpClient, session, awaitsOn>>

\* The remote server sends close or deleteStream and keeps the connection.
RemoteClose(c) ==
  /\ up
  /\ Open(c)
  /\ \A k \in Rejected(c) : awaits[k] = "command"
  /\ onConnectionClose(c)
  /\ UNCHANGED <<taskVars, isClosing, rtmpClient, clientVars>>

ReconnectFires(s, c) ==
  /\ up
  /\ timer[s]
  /\ timer' = [timer EXCEPT ![s] = FALSE]
  /\ Connects(s, c)
  /\ UNCHANGED <<taskVars, isRunning, isClosing, isRegistered, watchdog,
                 attempts, streamVars>>

\* disconnect() of the session's client: its socket is destroyed, what waits
\* for it is rejected.
Disconnect(s) ==
  /\ socket' = [c \in Clients |->
                 IF c = rtmpClient[s] /\ Open(c) THEN "destroyed" ELSE socket[c]]
  /\ awaits' = [k \in Clients |->
                 IF k \in Rejected(rtmpClient[s]) THEN "nothing" ELSE awaits[k]]

\* The timeout check finds that the session's client has been silent.
Silent(s) ==
  /\ up
  /\ watchdog[s]
  /\ Open(rtmpClient[s])
  /\ Disconnect(s)
  /\ IF Rejected(rtmpClient[s]) # {} THEN handleReconnect(s, publisher)
     ELSE UNCHANGED <<timer, attempts, isRunning>>
  /\ UNCHANGED <<taskVars, isClosing, isRegistered, watchdog, rtmpClient,
                 session, awaitsOn, streamVars>>

-----------------------------------------------------------------------------
(***************************************************************************)
(* Tasks and the process.                                                  *)
(***************************************************************************)

\* A task is added: its session runs.
Runs(s, c) ==
  /\ rtmpClient[s] = None
  /\ Connects(s, c)
  /\ isRunning' = [isRunning EXCEPT ![s] = TRUE]
  /\ task' = s
  /\ persisted' = TRUE

\* addTask of a task that is not there; otherwise it returns the one that is.
addTask(s, c) ==
  /\ up
  /\ task = None
  /\ Runs(s, c)
  /\ UNCHANGED <<up, mode, starts, isClosing, isRegistered, timer, watchdog,
                 attempts, streamVars>>

\* The timer of a session that closes.
TimerCleared(s) == [timer EXCEPT ![s] = FALSE]

\* close() of the session.
close(s) ==
  /\ isClosing' = [isClosing EXCEPT ![s] = TRUE]
  /\ isRunning' = [isRunning EXCEPT ![s] = FALSE]
  /\ timer' = TimerCleared(s)
  /\ watchdog' = [watchdog EXCEPT ![s] = FALSE]
  /\ unregisterBroadcast(s)
  /\ Disconnect(s)
  /\ UNCHANGED <<attempts, rtmpClient, session, awaitsOn>>

\* Slip: the row stays.
RowKept == persisted
RowDropped == FALSE

removeTask ==
  /\ up
  /\ \E s \in Relays : s = task /\ close(s)
  /\ task' = None
  /\ persisted' = RowDropped
  /\ UNCHANGED <<up, mode, starts>>

\* run() once the store is open: _restoreTasks.
Boot ==
  /\ ~up
  /\ starts < MaxStarts
  /\ up' = TRUE
  /\ starts' = starts + 1
  /\ IF persisted
     THEN \E s \in Relays, c \in Clients : Runs(s, c)
     ELSE UNCHANGED <<task, persisted, isRunning, rtmpClient, clientVars>>
  /\ UNCHANGED <<mode, isClosing, isRegistered, timer, watchdog, attempts,
                 streamVars>>

\* stop() and the end of the process, or a crash: the rows stay.
Stop ==
  /\ up
  /\ up' = FALSE
  /\ task' = None
  /\ isClosing' = [s \in Relays |-> rtmpClient[s] # None]
  /\ isRunning' = [s \in Relays |-> FALSE]
  /\ isRegistered' = [s \in Relays |-> FALSE]
  /\ timer' = [s \in Relays |-> FALSE]
  /\ watchdog' = [s \in Relays |-> FALSE]
  /\ socket' = [c \in Clients |-> IF socket[c] = "new" THEN "new" ELSE "closed"]
  /\ awaits' = [k \in Clients |-> "nothing"]
  /\ publisher' = None /\ graceTimer' = FALSE /\ players' = {}
  /\ UNCHANGED <<persisted, mode, starts, attempts, rtmpClient, session,
                 awaitsOn>>

-----------------------------------------------------------------------------
(***************************************************************************)
(* The local path (module Broadcast).                                      *)
(***************************************************************************)

\* Another client publishes, and takes the path over in a grace window.
OtherPublishes ==
  /\ up
  /\ publisher = None \/ graceTimer
  /\ publisher' = Other
  /\ graceTimer' = FALSE
  /\ UNCHANGED <<taskVars, sessionVars, clientVars, players>>

\* It has gone, and its grace window with it.
OtherLeaves ==
  /\ publisher = Other
  /\ publisher' = None
  /\ UNCHANGED <<taskVars, sessionVars, clientVars, graceTimer, players>>

GraceExpires ==
  /\ graceTimer
  /\ publisher' = None
  /\ graceTimer' = FALSE
  /\ UNCHANGED <<taskVars, sessionVars, clientVars, players>>

-----------------------------------------------------------------------------
Next ==
  \/ \E s \in Relays, c \in Clients : addTask(s, c) \/ ReconnectFires(s, c)
  \/ \E s \in Relays : Silent(s)
  \/ \E c \in Clients :
       \/ NextCommand(c) \/ Started(c) \/ Refused(c)
       \/ SocketCloses(c) \/ RemoteClose(c)
  \/ removeTask \/ Boot \/ Stop
  \/ OtherPublishes \/ OtherLeaves \/ GraceExpires

Spec == Init /\ [][Next]_vars

-----------------------------------------------------------------------------
(***************************************************************************)
(* Properties.                                                             *)
(***************************************************************************)

\* What a task holds of the local path it holds through a connection: with the
\* loss of it, a pull frees the slot for its grace window and a push leaves the
\* subscribers, however its reconnections overlap.
HoldsWhileConnected ==
  /\ \A s \in Relays : isRegistered[s] =>
       /\ IF mode = "pull" THEN publisher = s /\ ~graceTimer ELSE s \in players
       /\ \E c \in Clients :
            session[c] = s /\ socket[c] \in {"open", "destroyed"}
  /\ publisher \in Relays /\ ~graceTimer => isRegistered[publisher]
  /\ \A s \in players : isRegistered[s]

\* A task that runs is never idle: it is registered, is connecting through a
\* connection that is there to fail, or has its timer.
NeverIdle ==
  \A s \in Relays : isRunning[s] =>
    \/ isRegistered[s]
    \/ timer[s]
    \/ \E k \in Clients :
         session[k] = s /\ awaits[k] # "nothing" /\ Open(awaitsOn[k])

\* A session that was closed never reconnects, and the connection it had is
\* gone; those it had left behind before may be there still.
ClosedStaysClosed ==
  \A s \in Relays : isClosing[s] =>
    ~timer[s] /\ ~isRunning[s] /\ ~Open(rtmpClient[s])

\* The store has the row of the task as long as there is the task, over
\* restarts, and no session runs that is not in the list.
RowOfTask ==
  up => /\ persisted <=> task # None
        /\ \A s \in Relays : isRunning[s] => s = task

\* Both of them: a session lives as long as its task, and its end is final.
TaskLifetime == ClosedStaysClosed /\ RowOfTask

\* close() releases all resources of a session (rtmp_client_session.js:273).
\* It does not: connections left behind by a reconnection stay open.
ReleasesAll ==
  \A c \in Clients : Open(c) => ~isClosing[session[c]]
=============================================================================
