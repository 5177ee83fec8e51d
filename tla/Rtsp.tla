-------------------------------- MODULE Rtsp --------------------------------
(***************************************************************************)
(* A pull from an RTSP server: session/rtsp_client_session.js with the     *)
(* client of each of its connections, protocol/rtsp_client.js.             *)
(*                                                                         *)
(* connectAndPlay is an asynchronous function that awaits the connection   *)
(* and then the answer of one request after the other.  An answer settles  *)
(* a promise; the function goes on only after the handler that read the    *)
(* answer has gone through the rest of its chunk.  Every other event waits *)
(* until it has: see Quiet.                                                *)
(*                                                                         *)
(* A client is disconnected, and its callbacks are removed, before the     *)
(* next one is made, so that one client is enough here.  Left out are what *)
(* requests and media contain, the stream's metadata, and clocks: a timer  *)
(* that is armed may fire.                                                 *)
(***************************************************************************)
EXTENDS Naturals, Sequences, FiniteSets

CONSTANTS
  tracks,      \* number of media in the SDP
  Policies,    \* of reconnection: records [reconnect, max], max = 0: unlimited
  MaxAttempts, \* bound: reconnectAttempts is counted up to here
  MaxCSeq,     \* bound: no keep-alive beyond this CSeq
  MaxWire,     \* bound: messages under way from the server
  MaxFaults    \* bound: errors of the server and of the network

ASSUME RtspAssumption ==
  /\ tracks \in Nat \ {0}
  /\ \A p \in Policies : p.reconnect \in BOOLEAN /\ p.max \in 0..MaxAttempts
  /\ MaxAttempts \in Nat /\ MaxCSeq \in Nat /\ MaxFaults \in Nat
  /\ MaxWire \in Nat \ {0, 1}

VARIABLES
  policy,      \* config.reconnect and config.maxReconnectAttempts
  call,        \* what connectAndPlay awaits
  settled,     \* and whether that promise is settled
  track,       \* of the SETUP under way
  described,   \* a DESCRIBE was answered
  fed,         \* tracks of the depayloader
  timers,      \* pending reconnect timers
  attempts,    \* reconnectAttempts
  isRunning, isClosing,
  listed,      \* Context.sessions has the session
  broadcast,   \* this.broadcast is set
  slot,        \* of the path: "live" and "grace" are this session's
  socket,      \* "broken" between its error and its close event
  cSeq, pending, authParams,
  heartbeat,   \* heartbeatTimer is set
  asked,       \* requests that the server has not answered
  secured,     \* the server wants credentials
  streaming,   \* the server has answered a PLAY
  wire,        \* from the server to the client
  faults,
  died         \* the process ended with an uncaught exception

callVars == <<call, settled, track, described, fed>>
sessionVars == <<policy, timers, attempts, isRunning, isClosing, listed,
                 broadcast, slot>>
requestVars == <<cSeq, pending, authParams>>
peerVars == <<asked, streaming, wire>>
rtspVars == <<callVars, sessionVars, requestVars, peerVars, socket, heartbeat,
              secured, faults, died>>

Awaited == {"DESCRIBE", "SETUP", "PLAY"}
Statuses == {"200", "401", "scheme", "other"}
MediaPacket == [type |-> "rtp"]
Answer(c, status) == [type |-> "answer", cSeq |-> c, status |-> status]

Messages == {MediaPacket} \cup [type : {"answer"}, cSeq : Nat, status : Statuses]

Requests == [cSeq : Nat, method : Awaited \cup {"GET_PARAMETER"},
             retryOn401 : BOOLEAN]

\* Types, and the limit of reconnectAttempts.
TypeOK ==
  /\ policy \in Policies
  /\ call \in Awaited \cup {"nothing", "connect"}
  /\ settled \in {"no", "200", "other", "rejected"}
  /\ track \in 1..tracks
  /\ described \in BOOLEAN /\ fed \subseteq 1..tracks
  /\ timers \in Nat
  /\ attempts \in 0..MaxAttempts
  /\ policy.max > 0 => attempts <= policy.max
  /\ isRunning \in BOOLEAN /\ isClosing \in BOOLEAN /\ listed \in BOOLEAN
  /\ broadcast \in BOOLEAN
  /\ slot \in {"free", "live", "grace", "other"}
  /\ socket \in {"new", "opening", "open", "broken", "closed"}
  /\ cSeq \in Nat /\ pending \subseteq Requests
  /\ authParams \in BOOLEAN /\ heartbeat \in BOOLEAN
  /\ asked \subseteq [cSeq : Nat, authorized : BOOLEAN]
  /\ secured \in BOOLEAN /\ streaming \in BOOLEAN /\ died \in BOOLEAN
  /\ wire \in Seq(Messages)
  /\ faults \in 0..MaxFaults

RtspInit ==
  /\ policy \in Policies
  /\ call = "nothing" /\ settled = "no" /\ track = 1
  /\ described = FALSE /\ fed = {}
  /\ timers = 0 /\ attempts = 0
  /\ isRunning = FALSE /\ isClosing = FALSE /\ listed = FALSE
  /\ broadcast = FALSE /\ slot \in {"free", "other"}
  /\ socket = "new" /\ cSeq = 0 /\ pending = {}
  /\ authParams = FALSE /\ heartbeat = FALSE
  /\ asked = {} /\ secured \in BOOLEAN /\ streaming = FALSE /\ wire = <<>>
  /\ faults = 0 /\ died = FALSE

-----------------------------------------------------------------------------
(***************************************************************************)
(* Pieces.                                                                 *)
(***************************************************************************)

\* No promise is settled whose continuation has still to run: the event
\* loop may take its next event.
Quiet == settled = "no" /\ ~died

Fault == faults < MaxFaults /\ faults' = faults + 1

\* Mutant: the slot is not released before it is taken again.
KeepsSlot == slot

\* donePublish of this session: the slot is held for the grace window.
Done == IF slot = "live" THEN "grace" ELSE slot

\* clearTimeout of reconnectTimer, if it is set.
ClearedTimer == IF timers > 0 THEN timers - 1 ELSE timers

\* The session's part of cleanup.
Cleanup ==
  /\ isRunning' = FALSE
  /\ timers' = ClearedTimer
  /\ slot' = Done
  /\ listed' = FALSE

\* rejectAllPending, as the promise of the call sees it.  Nothing depends on
\* the outcome of a keep-alive.
Rejected ==
  IF \E p \in pending : p.method \in Awaited THEN "rejected" ELSE settled

\* What was under way on the connection is lost.
PeerGone == asked' = {} /\ streaming' = FALSE /\ wire' = <<>>

\* The socket of the client is gone, by disconnect or by its close event.
Disconnected ==
  /\ socket' = "closed" /\ heartbeat' = FALSE
  /\ pending' = {} /\ PeerGone
  /\ UNCHANGED <<cSeq, authParams>>

\* A new client connects: a new call of connectAndPlay.
Dial ==
  /\ call' = "connect" /\ settled' = "no"
  /\ socket' = "opening"
  /\ cSeq' = 0 /\ pending' = {} /\ authParams' = FALSE
  /\ heartbeat' = FALSE /\ PeerGone

\* Slip: without the check of reconnectTimer.
IgnoresClosing == isClosing

\* handleReconnect: nothing to do, ...
Ignores == isClosing \/ timers > 0

\* ... no more attempts, ...
OutOfAttempts ==
  ~policy.reconnect \/ (policy.max > 0 /\ attempts >= policy.max)

GivesUp == ~Ignores /\ OutOfAttempts

\* ... or a timer.  known: Context.sessions has the session at this time.
HandleReconnect(known) ==
  \/ /\ Ignores
     /\ listed' = known
     /\ UNCHANGED <<timers, attempts, isRunning, slot>>
  \/ /\ GivesUp
     /\ Cleanup
     /\ UNCHANGED attempts
  \/ /\ ~Ignores /\ ~OutOfAttempts
     /\ timers' = timers + 1
     /\ attempts' = IF attempts < MaxAttempts THEN attempts + 1 ELSE attempts
     /\ listed' = known
     /\ UNCHANGED <<isRunning, slot>>

\* sendRequest.
SendRequest(method, retry) ==
  IF socket = "open"
  THEN /\ cSeq' = cSeq + 1
       /\ pending' = pending \cup {[cSeq |-> cSeq + 1, method |-> method,
                                    retryOn401 |-> retry]}
       /\ asked' = asked \cup {[cSeq |-> cSeq + 1, authorized |-> authParams]}
       /\ settled' = "no"
  ELSE settled' = "rejected" /\ UNCHANGED <<cSeq, pending, asked>>

-----------------------------------------------------------------------------
(***************************************************************************)
(* The session starts, reconnects and is closed.                           *)
(***************************************************************************)

Run ==
  /\ socket = "new"
  /\ isRunning' = TRUE
  /\ Dial
  /\ UNCHANGED <<policy, timers, attempts, isClosing, listed, broadcast, slot,
                 track, described, fed, secured, faults, died>>

\* The reconnect timer.  A session that is closing has none: cleanup clears
\* it, and handleReconnect sets no other.  The close event that follows an
\* error comes in the same turn of the event loop, before any timer.
TimerFires ==
  /\ Quiet /\ timers > 0 /\ ~isClosing /\ socket # "broken"
  /\ timers' = timers - 1
  /\ slot' = Done
  /\ fed' = IF described THEN 1..tracks ELSE {}
  /\ Dial
  /\ UNCHANGED <<policy, attempts, isRunning, isClosing, listed, broadcast,
                 track, described, secured, faults, died>>

\* close: the TEARDOWN it sends is rejected by the disconnect that follows.
Close ==
  /\ Quiet /\ ~isClosing /\ socket # "new"
  /\ isClosing' = TRUE
  /\ Cleanup
  /\ Disconnected /\ settled' = Rejected
  /\ UNCHANGED <<policy, attempts, broadcast, call, track, described, fed, secured,
                 faults, died>>

-----------------------------------------------------------------------------
(***************************************************************************)
(* connectAndPlay goes on.                                                 *)
(***************************************************************************)

\* The call ends with an exception: the handler of run, or of the timer.
Throws(known) ==
  /\ call' = "nothing"
  /\ HandleReconnect(known)
  /\ settled' = "no"
  /\ IF GivesUp THEN Disconnected
     ELSE UNCHANGED <<socket, heartbeat, requestVars, peerVars>>

Fails ==
  /\ ~died
  /\ \/ settled = "rejected"
     \/ settled = "other" /\ call \in {"DESCRIBE", "PLAY"}
  /\ Throws(listed)
  /\ UNCHANGED <<policy, isClosing, broadcast, track, described, fed, secured,
                 faults, died>>

Describe ==
  /\ ~died
  /\ call = "connect" /\ settled = "200"
  /\ call' = "DESCRIBE"
  /\ SendRequest("DESCRIBE", TRUE)
  /\ UNCHANGED <<sessionVars, track, described, fed, authParams, streaming, wire,
                 socket, heartbeat, secured, faults, died>>

\* setupTrack of the first track.
Setup ==
  /\ ~died
  /\ call = "DESCRIBE" /\ settled = "200"
  /\ call' = "SETUP" /\ described' = TRUE /\ track' = 1
  /\ SendRequest("SETUP", TRUE)
  /\ UNCHANGED <<sessionVars, fed, authParams, streaming, wire, socket,
                 heartbeat, secured, faults, died>>

\* The end of setupTrack, which only logs a refusal, and the next track.
NextTrack ==
  /\ ~died
  /\ call = "SETUP" /\ settled \in {"200", "other"} /\ track < tracks
  /\ fed' = IF settled = "200" THEN fed \cup {track} ELSE fed
  /\ track' = track + 1
  /\ SendRequest("SETUP", TRUE)
  /\ UNCHANGED <<sessionVars, call, described, authParams, streaming, wire, socket,
                 heartbeat, secured, faults, died>>

Play ==
  /\ ~died
  /\ call = "SETUP" /\ settled \in {"200", "other"} /\ track = tracks
  /\ fed' = IF settled = "200" THEN fed \cup {track} ELSE fed
  /\ call' = "PLAY"
  /\ SendRequest("PLAY", FALSE)
  /\ UNCHANGED <<sessionVars, track, described, authParams, streaming, wire, socket,
                 heartbeat, secured, faults, died>>

\* registerBroadcast of a session that gets the slot, or resumes.
Publish ==
  /\ ~died
  /\ call = "PLAY" /\ settled = "200"
  /\ slot \in {"free", "grace"}
  /\ call' = "nothing" /\ settled' = "no"
  /\ broadcast' = TRUE /\ listed' = TRUE /\ slot' = "live"
  /\ heartbeat' = TRUE
  /\ attempts' = 0
  /\ UNCHANGED <<policy, timers, isRunning, isClosing, track, described, fed,
                 requestVars, peerVars, socket, secured, faults, died>>

\* registerBroadcast of a session that is refused.  Its connection stays.
Refused ==
  /\ ~died
  /\ call = "PLAY" /\ settled = "200"
  /\ slot \in {"live", "other"}
  /\ broadcast' = TRUE
  /\ Throws(TRUE)
  /\ UNCHANGED <<policy, isClosing, track, described, fed, secured, faults, died>>

-----------------------------------------------------------------------------
(***************************************************************************)
(* Events of the socket.                                                   *)
(***************************************************************************)

Connects ==
  /\ Quiet /\ socket = "opening"
  /\ socket' = "open"
  /\ settled' = "200"
  /\ UNCHANGED <<sessionVars, call, track, described, fed, requestVars, peerVars,
                 heartbeat, secured, faults, died>>

\* The error event.  Pending requests wait for the close event, unless the
\* session gives up.
SocketError ==
  /\ Quiet /\ socket \in {"opening", "open"}
  /\ Fault
  /\ HandleReconnect(listed)
  /\ socket' = IF GivesUp THEN "closed" ELSE "broken"
  /\ heartbeat' = (heartbeat /\ ~GivesUp)
  /\ pending' = IF GivesUp THEN {} ELSE pending
  /\ settled' = IF call = "connect" THEN "rejected"
                ELSE IF GivesUp THEN Rejected ELSE settled
  /\ PeerGone
  /\ UNCHANGED <<policy, isClosing, broadcast, call, track, described, fed, cSeq,
                 authParams, secured, died>>

\* The close event, after an error or because the server closes.
SocketClose ==
  /\ Quiet
  /\ \/ socket = "broken" /\ UNCHANGED faults
     \/ socket = "open" /\ Fault
  /\ HandleReconnect(listed)
  /\ Disconnected /\ settled' = Rejected
  /\ UNCHANGED <<policy, isClosing, broadcast, call, track, described, fed, secured,
                 died>>

\* The keep-alive.
Heartbeat ==
  /\ Quiet /\ heartbeat /\ socket = "open" /\ cSeq < MaxCSeq
  /\ SendRequest("GET_PARAMETER", FALSE)
  /\ UNCHANGED <<sessionVars, call, track, described, fed, authParams, streaming,
                 wire, socket, heartbeat, secured, faults, died>>

-----------------------------------------------------------------------------
(***************************************************************************)
(* handleData takes one message.  More of them may come with the same      *)
(* chunk, so that it may do so while a continuation waits.                 *)
(***************************************************************************)

Reads(type) == ~died /\ wire # <<>> /\ Head(wire).type = type

Matching == {p \in pending : p.cSeq = Head(wire).cSeq}

\* dispatchResponse of an answer that nobody waits for.
UnknownAnswer ==
  /\ Reads("answer") /\ Matching = {}
  /\ wire' = Tail(wire)
  /\ UNCHANGED <<callVars, sessionVars, requestVars, asked, streaming, socket,
                 heartbeat, secured, faults, died>>

\* Mutant: the repeated request is not among the pending ones.
ChallengedOnly(p) ==
  /\ Reads("answer") /\ p \in Matching
  /\ Head(wire).status = "401" /\ p.retryOn401
  /\ wire' = Tail(wire)
  /\ authParams' = TRUE
  /\ cSeq' = cSeq + 1
  /\ pending' = pending \ {p}
  /\ asked' = asked \cup {[cSeq |-> cSeq + 1, authorized |-> TRUE]}
  /\ UNCHANGED <<callVars, sessionVars, streaming, socket, heartbeat, secured,
                 faults, died>>

\* handleAuthChallenge: the request goes out again, under a new CSeq.
Challenged(p) ==
  /\ Reads("answer") /\ p \in Matching
  /\ Head(wire).status = "401" /\ p.retryOn401
  /\ wire' = Tail(wire)
  /\ authParams' = TRUE
  /\ cSeq' = cSeq + 1
  /\ pending' = (pending \ {p}) \cup
                  {[p EXCEPT !.cSeq = cSeq + 1, !.retryOn401 = FALSE]}
  /\ asked' = asked \cup {[cSeq |-> cSeq + 1, authorized |-> TRUE]}
  /\ UNCHANGED <<callVars, sessionVars, streaming, socket, heartbeat, secured,
                 faults, died>>

\* handleAuthChallenge of a scheme that is not supported.
BadScheme(p) ==
  /\ Reads("answer") /\ p \in Matching
  /\ Head(wire).status = "scheme" /\ p.retryOn401
  /\ wire' = Tail(wire)
  /\ authParams' = FALSE
  /\ pending' = pending \ {p}
  /\ settled' = "rejected"
  /\ UNCHANGED <<call, track, described, fed, sessionVars, cSeq, asked, streaming,
                 socket, heartbeat, secured, faults, died>>

Outcome(status) == IF status = "200" THEN "200" ELSE "other"

\* The promise of the request is resolved with the answer.
Answered(p) ==
  /\ Reads("answer") /\ p \in Matching
  /\ ~(p.retryOn401 /\ Head(wire).status \in {"401", "scheme"})
  /\ wire' = Tail(wire)
  /\ pending' = pending \ {p}
  /\ settled' = IF p.method \in Awaited THEN Outcome(Head(wire).status)
                ELSE settled
  /\ UNCHANGED <<call, track, described, fed, sessionVars, cSeq, authParams, asked,
                 streaming, socket, heartbeat, secured, faults, died>>

\* onRtpData.  A packet that completes a frame goes to this.broadcast, which
\* is null until the first registerBroadcast.
OnRtpData ==
  /\ Reads("rtp")
  /\ wire' = Tail(wire)
  /\ \E frame \in BOOLEAN : died' = (frame /\ fed # {} /\ ~broadcast)
  /\ UNCHANGED <<callVars, sessionVars, requestVars, asked, streaming, socket,
                 heartbeat, secured, faults>>

-----------------------------------------------------------------------------
(***************************************************************************)
(* The RTSP server.                                                        *)
(***************************************************************************)

Method(c) == {p.method : p \in {q \in pending : q.cSeq = c}}

Writes(m) == Len(wire) < MaxWire /\ wire' = Append(wire, m)

\* It answers, in any order.
Answers ==
  /\ ~died /\ socket = "open"
  /\ \E r \in asked :
       LET status == IF secured /\ ~r.authorized THEN "401" ELSE "200" IN
       /\ Writes(Answer(r.cSeq, status))
       /\ asked' = asked \ {r}
       /\ streaming' = (streaming \/ (status = "200" /\ "PLAY" \in Method(r.cSeq)))
  /\ UNCHANGED <<callVars, sessionVars, requestVars, socket, heartbeat,
                 secured, faults, died>>

\* It refuses.
Declines ==
  /\ ~died /\ socket = "open"
  /\ Fault
  /\ \E r \in asked, status \in Statuses \ {"200"} :
       Writes(Answer(r.cSeq, status)) /\ asked' = asked \ {r}
  /\ UNCHANGED <<callVars, sessionVars, requestVars, streaming, socket,
                 heartbeat, secured, died>>

\* It answers what it has answered before.
Repeats ==
  /\ ~died /\ socket = "open"
  /\ Fault
  /\ \E c \in 1..cSeq :
       /\ \A r \in asked : r.cSeq # c
       /\ Writes(Answer(c, "200"))
  /\ UNCHANGED <<callVars, sessionVars, requestVars, asked, streaming, socket,
                 heartbeat, secured, died>>

\* It sends media, and leaves room for an answer.
Streams ==
  /\ ~died /\ socket = "open" /\ streaming
  /\ Len(wire) + 1 < MaxWire
  /\ wire' = Append(wire, MediaPacket)
  /\ UNCHANGED <<callVars, sessionVars, requestVars, asked, streaming, socket,
                 heartbeat, secured, faults, died>>

-----------------------------------------------------------------------------
(***************************************************************************)
(* The slot of the path, as others use it (see Broadcast).                 *)
(***************************************************************************)

slotOnly == <<callVars, policy, timers, attempts, isRunning, isClosing, listed,
              broadcast, requestVars, peerVars, socket, heartbeat, secured,
              faults, died>>

\* The grace window ends.
GraceEnds ==
  /\ Quiet /\ slot = "grace"
  /\ slot' = "free"
  /\ UNCHANGED slotOnly

\* Another client publishes.  When it ends the publish that is held, it may
\* find itself in an object that is no longer registered.
OtherPublishes ==
  /\ Quiet
  /\ \/ slot = "free" /\ slot' = "other"
     \/ slot = "grace" /\ slot' \in {"other", "free"}
  /\ UNCHANGED slotOnly

OtherLeaves ==
  /\ Quiet /\ slot = "other"
  /\ slot' = "free"
  /\ UNCHANGED slotOnly

TakesAnswer(p) == Challenged(p) \/ BadScheme(p) \/ Answered(p)

HandleData == UnknownAnswer \/ OnRtpData \/ \E p \in pending : TakesAnswer(p)

CallGoesOn ==
  \/ Fails \/ Describe \/ Setup \/ NextTrack \/ Play \/ Publish \/ Refused

RtspNext ==
  \/ Run \/ TimerFires \/ Close
  \/ CallGoesOn
  \/ Connects \/ SocketError \/ SocketClose \/ Heartbeat
  \/ HandleData
  \/ Answers \/ Declines \/ Repeats \/ Streams
  \/ GraceEnds \/ OtherPublishes \/ OtherLeaves

RtspSpec == RtspInit /\ [][RtspNext]_rtspVars

\* The event loop runs what it has; a connection is made, or fails.
LocalFairness ==
  /\ WF_rtspVars(Run) /\ WF_rtspVars(TimerFires) /\ WF_rtspVars(CallGoesOn)
  /\ WF_rtspVars(HandleData) /\ WF_rtspVars(Connects)
  /\ WF_rtspVars(SocketClose /\ socket = "broken")

\* The server may fall silent.
SilentSpec == RtspSpec /\ LocalFairness

\* The server answers every request for as long as the connection is there.
FairSpec == SilentSpec /\ WF_rtspVars(Answers)

-----------------------------------------------------------------------------
(***************************************************************************)
(* Properties.                                                             *)
(***************************************************************************)

\* Close and error events, exceptions and refusals may all ask for a
\* reconnection: it is scheduled once, and never while a call is under way
\* that could still go on (rtsp_client_session.js:421).
OneCall ==
  /\ timers <= 1
  /\ timers = 1 /\ call # "nothing" => settled = "rejected" \/ socket = "broken"

\* A call never waits for an answer that nobody owes: its request is pending
\* on a client whose socket will still be closed, and as long as it is open,
\* the server has the request or its answer is under way, also after a
\* challenge (rtsp_client.js:653).  A call that waits for a connection has a
\* socket that opens, or its session has ended.
AnswerOwed ==
  /\ call \in Awaited /\ settled = "no" =>
       /\ socket \in {"open", "broken"}
       /\ \E p \in pending :
            /\ p.method = call
            /\ socket = "open" =>
                 \/ \E r \in asked : r.cSeq = p.cSeq
                 \/ \E i \in DOMAIN wire : /\ wire[i].type = "answer"
                                          /\ wire[i].cSeq = p.cSeq
  /\ call = "connect" /\ settled = "no" => socket = "opening" \/ ~isRunning

\* A session that has ended, closed or out of attempts, leaves nothing behind
\* that could dial, publish or be listed (rtsp_client_session.js:518), although
\* the call it interrupts goes on once more, to its exception.
EndsClean ==
  socket # "new" /\ ~isRunning =>
    /\ socket = "closed" /\ timers = 0 /\ pending = {} /\ ~heartbeat
    /\ ~listed /\ slot # "live"

\* Both of them: one attempt at a time, and none once the session has ended.
OneCallThenNone == OneCall /\ EndsClean

IsPlaying == call = "nothing" /\ heartbeat /\ socket = "open"

\* Whatever goes wrong a bounded number of times, a session whose server
\* answers plays at last, unless it ends, finds another publisher, or the
\* process dies (rtsp_client_session.js:403).
GetsThere == isRunning ~> (IsPlaying \/ ~isRunning \/ slot = "other" \/ died)

\* "this.timeoutMs = 60000; // 60 seconds RTP timeout" (rtsp_client.js:137):
\* a request that the server leaves unanswered does not hold the session.  It
\* does: nothing looks at the time, and AnswerOwed is all there is.
SilenceEnds == call \in Awaited ~> (call \notin Awaited \/ died)

=============================================================================
