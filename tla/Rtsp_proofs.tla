---------------------------- MODULE Rtsp_proofs ----------------------------
(***************************************************************************)
(* Proofs about the RTSP client.  Of module Rtsp, for every number of      *)
(* tracks, every policy of reconnection and every bound: its calls and its *)
(* connections.  Of module Depayloader, for every range of sequence        *)
(* numbers and of timestamps, every distance that is no gap, every session *)
(* description and every number of packets: the clock, fragmented units,   *)
(* what comes back after a loss, the header a frame is sent under, and the *)
(* sections of a session description.                                      *)
(***************************************************************************)
EXTENDS Rtsp, Depayloader, TLAPS, WellFoundedInduction, FiniteSetTheorems

(***************************************************************************)
(* Calls and connections.                                                  *)
(***************************************************************************)
Waiting == call \in Awaited /\ settled = "no"

\* Requests of the call that are pending.
Owed == {p \in pending : p.method \in Awaited}

\* The phases of a connection and of the call that uses it.
Phases ==
  /\ socket = "new" => /\ call = "nothing" /\ timers = 0
                       /\ ~isRunning /\ ~isClosing /\ ~listed
                       /\ slot # "live"
  /\ socket \notin {"open", "broken"} => pending = {} /\ ~heartbeat
  /\ socket # "open" => asked = {} /\ wire = <<>>
  /\ socket = "opening" => call = "connect" /\ settled = "no" /\ isRunning
  /\ socket = "broken" => settled = "no" \/ settled = "rejected"
  /\ settled # "no" => call # "nothing"
  /\ settled \in {"200", "other"} => socket = "open" /\ timers = 0
  /\ call = "connect" => settled # "other"
  /\ heartbeat => call = "nothing"
  /\ slot = "live" => call = "nothing"
  /\ isClosing => ~isRunning
  /\ ~isRunning /\ socket # "new" => isClosing \/ OutOfAttempts

\* What is pending, and for whom.
PendingOfCall ==
  /\ \A p \in pending : p.cSeq \in 1..cSeq
  /\ \A p, q \in pending : p.cSeq = q.cSeq => p = q
  /\ \A p \in pending : p.retryOn401 => p \in Owed
  /\ \A p \in Owed : p.method = call /\ settled = "no"
  /\ \A p, q \in Owed : p = q
  /\ Waiting => Owed # {} /\ socket \in {"open", "broken"}
  /\ call = "connect" /\ settled = "no" => socket = "opening" \/ ~isRunning

\* An answer to c is to come.
OnWire(w, c) == \E i \in DOMAIN w : w[i].type = "answer" /\ w[i].cSeq = c
OnItsWay(c) == (\E r \in asked : r.cSeq = c) \/ OnWire(wire, c)

Answerable == \A p \in Owed : socket = "open" => OnItsWay(p.cSeq)

LEMMA AnswerIsMessage ==
  \A c \in Nat, s \in Statuses : Answer(c, s) \in Messages
BY DEF Answer, Messages

LEMMA MediaIsMessage == MediaPacket \in Messages
BY DEF Messages

LEMMA EmptyWire == <<>> \in Seq(Messages)
OBVIOUS

LEMMA TypeInit == RtspInit => TypeOK
<1> SUFFICES ASSUME RtspInit PROVE TypeOK
  OBVIOUS
<1>1. pending \subseteq Requests /\ wire \in Seq(Messages)
  BY EmptyWire DEF RtspInit
<1>2. 1 \in 1..tracks /\ 0 \in 0..MaxAttempts /\ 0 \in 0..MaxFaults
  BY RtspAssumption
<1>3. policy.max > 0 => attempts <= policy.max
  BY RtspAssumption DEF RtspInit
<1>4. asked \subseteq [cSeq : Nat, authorized : BOOLEAN]
  BY DEF RtspInit
<1> QED BY <1>1, <1>2, <1>3, <1>4 DEF RtspInit, TypeOK

LEMMA ClearedType == TypeOK => ClearedTimer \in Nat
BY DEF TypeOK, ClearedTimer

LEMMA RejectedType ==
  TypeOK => Rejected \in {"no", "200", "other", "rejected"}
BY DEF TypeOK, Rejected

\* Attempts are counted up to the limit and no further.
LEMMA ReconnectType ==
  ASSUME TypeOK, NEW known \in BOOLEAN, HandleReconnect(known)
  PROVE  /\ timers' \in Nat /\ attempts' \in 0..MaxAttempts
         /\ policy.max > 0 => attempts' <= policy.max
         /\ isRunning' \in BOOLEAN /\ listed' \in BOOLEAN
         /\ slot' \in {"free", "live", "grace", "other"}
<1>1. timers' \in Nat
  BY ClearedType DEF TypeOK, HandleReconnect, Cleanup
<1>2. policy.max \in 0..MaxAttempts
  BY RtspAssumption DEF TypeOK
<1>3. attempts' \in 0..MaxAttempts
  BY RtspAssumption DEF TypeOK, HandleReconnect
<1>4. policy.max > 0 => attempts' <= policy.max
  BY <1>2, RtspAssumption DEF TypeOK, HandleReconnect, OutOfAttempts
<1>5. isRunning' \in BOOLEAN /\ listed' \in BOOLEAN
  BY DEF TypeOK, HandleReconnect, Cleanup
<1>6. slot' \in {"free", "live", "grace", "other"}
  BY DEF TypeOK, HandleReconnect, Cleanup, Done
<1> QED BY <1>1, <1>3, <1>4, <1>5, <1>6

LEMMA SendType ==
  ASSUME TypeOK, NEW m \in Awaited \cup {"GET_PARAMETER"}, NEW retry \in
      BOOLEAN,
         SendRequest(m, retry)
  PROVE  /\ cSeq' \in Nat /\ pending' \subseteq Requests
         /\ asked' \subseteq [cSeq : Nat, authorized : BOOLEAN]
         /\ settled' \in {"no", "rejected"}
BY DEF TypeOK, SendRequest, Requests

LEMMA TailOfWire ==
  ASSUME wire \in Seq(Messages), wire # <<>>
  PROVE  Tail(wire) \in Seq(Messages)
OBVIOUS

\* Every step keeps the types.
LEMMA TypeStep ==
  ASSUME TypeOK, [RtspNext]_rtspVars
  PROVE  TypeOK'
<1> USE DEF callVars, sessionVars, requestVars, peerVars
<1>1. CASE Run
  BY <1>1, EmptyWire DEF Run, Dial, PeerGone, TypeOK, Requests, Awaited,
      Statuses
<1>2. CASE TimerFires
  <2>1. timers' \in Nat /\ fed' \subseteq 1..tracks
    BY <1>2 DEF TimerFires, TypeOK
  <2> QED BY <1>2, <2>1, EmptyWire DEF TimerFires, Dial, PeerGone, Done, TypeOK
<1>3. CASE Close
  <2>1. timers' \in Nat
    BY <1>3, ClearedType DEF Close, Cleanup
  <2>2. settled' \in {"no", "200", "other", "rejected"}
    BY <1>3, RejectedType DEF Close
  <2> QED
    BY <1>3, <2>1, <2>2, EmptyWire
    DEF Close, Cleanup, Done, Disconnected, PeerGone, TypeOK
<1>4. CASE Fails
  <2>1. /\ timers' \in Nat /\ attempts' \in 0..MaxAttempts
        /\ policy.max > 0 => attempts' <= policy.max
        /\ isRunning' \in BOOLEAN /\ listed' \in BOOLEAN
        /\ slot' \in {"free", "live", "grace", "other"}
    BY <1>4, ReconnectType DEF Fails, Throws, TypeOK
  <2>2. wire' \in Seq(Messages) /\ faults' \in 0..MaxFaults
    BY <1>4, EmptyWire, RtspAssumption
    DEF Fails, Throws, Disconnected, PeerGone, requestVars, peerVars, TypeOK
  <2>3. settled' \in {"no", "200", "other", "rejected"}
    BY <1>4, RejectedType DEF Fails, Throws, TypeOK
  <2> QED
    BY ZenonT(60), <1>4, <2>1, <2>2, <2>3
    DEF Fails, Throws, Disconnected, PeerGone, requestVars, peerVars, TypeOK
<1>5. CASE Describe
  <2>1. SendRequest("DESCRIBE", TRUE)
    BY <1>5 DEF Describe
  <2>2. "DESCRIBE" \in Awaited \cup {"GET_PARAMETER"}
    BY DEF Awaited
  <2>3. /\ cSeq' \in Nat /\ pending' \subseteq Requests
        /\ asked' \subseteq [cSeq : Nat, authorized : BOOLEAN]
        /\ settled' \in {"no", "rejected"}
    BY <2>1, <2>2, SendType
  <2> QED BY <1>5, <2>3, RtspAssumption
  DEF Describe, sessionVars, TypeOK, Awaited
<1>6. CASE Setup
  <2>1. SendRequest("SETUP", TRUE)
    BY <1>6 DEF Setup
  <2>2. "SETUP" \in Awaited \cup {"GET_PARAMETER"}
    BY DEF Awaited
  <2>3. /\ cSeq' \in Nat /\ pending' \subseteq Requests
        /\ asked' \subseteq [cSeq : Nat, authorized : BOOLEAN]
        /\ settled' \in {"no", "rejected"}
    BY <2>1, <2>2, SendType
  <2> QED BY <1>6, <2>3, RtspAssumption DEF Setup, sessionVars, TypeOK, Awaited
<1>7. CASE NextTrack
  <2>1. SendRequest("SETUP", TRUE)
    BY <1>7 DEF NextTrack
  <2>2. "SETUP" \in Awaited \cup {"GET_PARAMETER"}
    BY DEF Awaited
  <2>3. /\ cSeq' \in Nat /\ pending' \subseteq Requests
        /\ asked' \subseteq [cSeq : Nat, authorized : BOOLEAN]
        /\ settled' \in {"no", "rejected"}
    BY <2>1, <2>2, SendType
  <2> QED BY <1>7, <2>3, RtspAssumption
  DEF NextTrack, sessionVars, TypeOK, Awaited
<1>8. CASE Play
  <2>1. SendRequest("PLAY", FALSE)
    BY <1>8 DEF Play
  <2>2. "PLAY" \in Awaited \cup {"GET_PARAMETER"}
    BY DEF Awaited
  <2>3. /\ cSeq' \in Nat /\ pending' \subseteq Requests
        /\ asked' \subseteq [cSeq : Nat, authorized : BOOLEAN]
        /\ settled' \in {"no", "rejected"}
    BY <2>1, <2>2, SendType
  <2> QED BY <1>8, <2>3, RtspAssumption DEF Play, sessionVars, TypeOK, Awaited
<1>9. CASE Publish
  BY <1>9, RtspAssumption DEF Publish, TypeOK, Requests, Awaited, Statuses
<1>10. CASE Refused
  <2>1. /\ timers' \in Nat /\ attempts' \in 0..MaxAttempts
        /\ policy.max > 0 => attempts' <= policy.max
        /\ isRunning' \in BOOLEAN /\ listed' \in BOOLEAN
        /\ slot' \in {"free", "live", "grace", "other"}
    BY <1>10, ReconnectType DEF Refused, Throws, TypeOK
  <2>2. wire' \in Seq(Messages) /\ faults' \in 0..MaxFaults
    BY <1>10, EmptyWire, RtspAssumption
    DEF Refused, Throws, Disconnected, PeerGone, requestVars, peerVars, TypeOK
  <2>3. settled' \in {"no", "200", "other", "rejected"}
    BY <1>10, RejectedType DEF Refused, Throws, TypeOK
  <2> QED
    BY ZenonT(60), <1>10, <2>1, <2>2, <2>3
    DEF Refused, Throws, Disconnected, PeerGone, requestVars, peerVars, TypeOK
<1>11. CASE Connects
  BY <1>11 DEF Connects, Quiet, TypeOK, Requests, Awaited, Statuses
<1>12. CASE SocketError
  <2>1. /\ timers' \in Nat /\ attempts' \in 0..MaxAttempts
        /\ policy.max > 0 => attempts' <= policy.max
        /\ isRunning' \in BOOLEAN /\ listed' \in BOOLEAN
        /\ slot' \in {"free", "live", "grace", "other"}
    BY <1>12, ReconnectType DEF SocketError, TypeOK
  <2>2. wire' \in Seq(Messages) /\ faults' \in 0..MaxFaults
    BY <1>12, EmptyWire, RtspAssumption
    DEF SocketError, Fault, Quiet, PeerGone, TypeOK
  <2>3. settled' \in {"no", "200", "other", "rejected"}
    BY <1>12, RejectedType DEF SocketError, TypeOK
  <2> QED
    BY <1>12, <2>1, <2>2, <2>3
    DEF SocketError, Fault, Quiet, PeerGone, TypeOK
<1>13. CASE SocketClose
  <2>1. /\ timers' \in Nat /\ attempts' \in 0..MaxAttempts
        /\ policy.max > 0 => attempts' <= policy.max
        /\ isRunning' \in BOOLEAN /\ listed' \in BOOLEAN
        /\ slot' \in {"free", "live", "grace", "other"}
    BY <1>13, ReconnectType DEF SocketClose, TypeOK
  <2>2. wire' \in Seq(Messages) /\ faults' \in 0..MaxFaults
    BY <1>13, EmptyWire, RtspAssumption
    DEF SocketClose, Fault, Quiet, Disconnected, PeerGone, TypeOK
  <2>3. settled' \in {"no", "200", "other", "rejected"}
    BY <1>13, RejectedType DEF SocketClose, TypeOK
  <2> QED
    BY <1>13, <2>1, <2>2, <2>3
    DEF SocketClose, Fault, Quiet, Disconnected, PeerGone, TypeOK
<1>14. CASE Heartbeat
  <2>1. SendRequest("GET_PARAMETER", FALSE)
    BY <1>14 DEF Heartbeat
  <2>2. "GET_PARAMETER" \in Awaited \cup {"GET_PARAMETER"}
    BY DEF Awaited
  <2>3. /\ cSeq' \in Nat /\ pending' \subseteq Requests
        /\ asked' \subseteq [cSeq : Nat, authorized : BOOLEAN]
        /\ settled' \in {"no", "rejected"}
    BY <2>1, <2>2, SendType
  <2> QED BY <1>14, <2>3, RtspAssumption
  DEF Heartbeat, Quiet, sessionVars, TypeOK, Awaited
<1>15. CASE UnknownAnswer
  BY <1>15, TailOfWire DEF UnknownAnswer, Reads, TypeOK, Requests, Awaited,
      Statuses
<1>16. ASSUME NEW p \in pending, Challenged(p) PROVE TypeOK'
  <2> DEFINE again == [p EXCEPT !.cSeq = cSeq + 1, !.retryOn401 = FALSE]
  <2>1. again \in Requests
    <3>1. p \in Requests /\ cSeq + 1 \in Nat
      BY DEF TypeOK
    <3> QED BY <3>1 DEF Requests
  <2>2. cSeq' \in Nat /\ pending' \subseteq Requests
    BY <1>16, <2>1 DEF Challenged, TypeOK
  <2>4. asked' \subseteq [cSeq : Nat, authorized : BOOLEAN]
    <3>1. cSeq + 1 \in Nat /\ asked \subseteq [cSeq : Nat, authorized : BOOLEAN]
      BY DEF TypeOK
    <3>2. [cSeq |-> cSeq + 1, authorized |-> TRUE]
            \in [cSeq : Nat, authorized : BOOLEAN]
      BY <3>1
    <3> QED BY <1>16, <3>1, <3>2 DEF Challenged
  <2>3. wire' \in Seq(Messages)
    BY <1>16, TailOfWire DEF Challenged, Reads, TypeOK
  <2> QED BY <1>16, <2>2, <2>3, <2>4
  DEF Challenged, callVars, sessionVars, TypeOK
<1>17. ASSUME NEW p \in pending, BadScheme(p) PROVE TypeOK'
  <2>1. wire' \in Seq(Messages)
    BY <1>17, TailOfWire DEF BadScheme, Reads, TypeOK
  <2>2. pending' \subseteq Requests /\ settled' = "rejected"
    BY <1>17 DEF BadScheme, TypeOK
  <2>3. UNCHANGED <<call, track, described, fed, sessionVars, cSeq, asked, streaming,
                    socket, heartbeat, secured, faults, died>>
    BY <1>17 DEF BadScheme
  <2>4. authParams' \in BOOLEAN
    BY <1>17 DEF BadScheme
  <2> QED BY <2>1, <2>2, <2>3, <2>4 DEF sessionVars, TypeOK
<1>18. ASSUME NEW p \in pending, Answered(p) PROVE TypeOK'
  BY <1>18, TailOfWire DEF Answered, Reads, Matching, Outcome, TypeOK,
      Requests, Awaited, Statuses
<1>19. CASE OnRtpData
  BY <1>19, TailOfWire DEF OnRtpData, Reads, TypeOK, Requests, Awaited,
      Statuses
<1>20. CASE Answers
  BY <1>20, AnswerIsMessage DEF Answers, Writes, TypeOK, Requests, Awaited,
      Statuses
<1>21. CASE Declines
  BY <1>21, AnswerIsMessage, RtspAssumption DEF Declines, Writes, Fault,
      TypeOK, Requests, Awaited, Statuses
<1>22. CASE Repeats
  BY <1>22, AnswerIsMessage, RtspAssumption DEF Repeats, Writes, Fault,
      TypeOK, Requests, Awaited, Statuses
<1>23. CASE Streams
  BY <1>23, MediaIsMessage DEF Streams, TypeOK, Requests, Awaited, Statuses
<1>24. CASE GraceEnds
  BY <1>24 DEF GraceEnds, Quiet, slotOnly, TypeOK, Requests, Awaited,
      Statuses
<1>25. CASE OtherPublishes
  BY <1>25 DEF OtherPublishes, Quiet, slotOnly, TypeOK, Requests, Awaited,
      Statuses
<1>26. CASE OtherLeaves
  BY <1>26 DEF OtherLeaves, Quiet, slotOnly, TypeOK, Requests, Awaited,
      Statuses
<1>27. CASE UNCHANGED rtspVars
  BY <1>27 DEF rtspVars, TypeOK, Requests, Awaited, Statuses
<1> QED BY <1>1, <1>2, <1>3, <1>4, <1>5, <1>6, <1>7, <1>8, <1>9, <1>10, <1>11,
      <1>12, <1>13, <1>14, <1>15, <1>16, <1>17, <1>18, <1>19, <1>20, <1>21,
      <1>22, <1>23, <1>24, <1>25, <1>26, <1>27 DEF RtspNext, CallGoesOn,
      HandleData, TakesAnswer

\* Every step keeps a connection and its call in step with each other.
LEMMA PhasesStep ==
  ASSUME TypeOK, Phases, PendingOfCall, OneCall, EndsClean, [RtspNext]_rtspVars
  PROVE  Phases'
<1> USE DEF Dial, PeerGone, Quiet, Done, Cleanup, ClearedTimer, Disconnected,
      Rejected, Throws, HandleReconnect, Ignores, GivesUp, requestVars,
      peerVars, SendRequest, sessionVars, Fault, Reads, callVars, Matching, Outcome,
      Writes, slotOnly, TypeOK, Phases, PendingOfCall, OneCall, EndsClean,
      OutOfAttempts, Waiting, Owed, Awaited, Requests
<1>1. CASE Run
  BY <1>1 DEF Run
<1>2. CASE TimerFires
  BY <1>2 DEF TimerFires
<1>3. CASE Close
  BY <1>3 DEF Close
<1>4. CASE Fails \/ Refused
  BY <1>4 DEF Fails, Refused
<1>5. CASE Describe \/ Setup \/ NextTrack \/ Play
  BY <1>5 DEF Describe, Setup, NextTrack, Play
<1>9. CASE Publish
  BY <1>9 DEF Publish
<1>11. CASE Connects
  BY <1>11 DEF Connects
<1>12. CASE SocketError
  BY <1>12 DEF SocketError
<1>13. CASE SocketClose
  BY <1>13 DEF SocketClose
<1>14. CASE Heartbeat
  BY <1>14 DEF Heartbeat
<1>15. CASE UnknownAnswer \/ OnRtpData
  BY <1>15 DEF UnknownAnswer, OnRtpData
<1>16. ASSUME NEW p \in pending, Challenged(p) PROVE Phases'
  BY <1>16 DEF Challenged
<1>17. ASSUME NEW p \in pending, BadScheme(p) PROVE Phases'
  BY <1>17 DEF BadScheme
<1>18. ASSUME NEW p \in pending, Answered(p) PROVE Phases'
  BY <1>18 DEF Answered
<1>20. CASE Answers \/ Declines \/ Repeats \/ Streams
  BY <1>20 DEF Answers, Declines, Repeats, Streams
<1>24. CASE GraceEnds \/ OtherPublishes \/ OtherLeaves
  BY <1>24 DEF GraceEnds, OtherPublishes, OtherLeaves
<1>27. CASE UNCHANGED rtspVars
  BY <1>27 DEF rtspVars
<1> QED BY <1>1, <1>2, <1>3, <1>4, <1>5, <1>9, <1>11, <1>12, <1>13, <1>14,
      <1>15, <1>16, <1>17, <1>18, <1>20, <1>24, <1>27 DEF RtspNext, CallGoesOn,
      HandleData, TakesAnswer

\* A new request has a CSeq of its own.
LEMMA FreshNumber ==
  ASSUME TypeOK, PendingOfCall
  PROVE  /\ \A p \in pending : p.cSeq \in Nat /\ p.cSeq <= cSeq
         /\ \A p \in pending : p.cSeq # cSeq + 1
BY DEF TypeOK, PendingOfCall, Requests

\* What sendRequest does to the pending requests.
SendPostcondition(m) ==
  /\ \A p \in pending' : p.cSeq \in 1..cSeq'
  /\ \A p, q \in pending' : p.cSeq = q.cSeq => p = q
  /\ \A p \in pending' : p.retryOn401 => p \in Owed'
  /\ \A p, q \in Owed' : p = q
  /\ settled' = "no"
  /\ m \in Awaited => Owed' # {} /\ \A p \in Owed' : p.method = m
  /\ m \notin Awaited => Owed' = Owed

LEMMA SendPending ==
  ASSUME TypeOK, PendingOfCall, socket = "open",
         NEW m \in Awaited \cup {"GET_PARAMETER"}, NEW retry \in BOOLEAN,
         SendRequest(m, retry), retry => m \in Awaited,
         m \in Awaited => Owed = {}
  PROVE  SendPostcondition(m)
<1> DEFINE new == [cSeq |-> cSeq + 1, method |-> m, retryOn401 |-> retry]
<1>1. pending' = pending \cup {new} /\ cSeq' = cSeq + 1 /\ settled' = "no"
  BY DEF SendRequest
<1>2. new.cSeq = cSeq + 1 /\ new.method = m /\ new.retryOn401 = retry
  OBVIOUS
<1>3. cSeq \in Nat
  BY DEF TypeOK
<1>4. Owed' = IF m \in Awaited THEN Owed \cup {new} ELSE Owed
  BY <1>1, <1>2 DEF Owed
<1> HIDE DEF new
<1>5. \A p \in pending' : p.cSeq \in 1..cSeq'
  BY <1>1, <1>2, <1>3 DEF PendingOfCall
<1>6. \A p, q \in pending' : p.cSeq = q.cSeq => p = q
  BY <1>1, <1>2, FreshNumber DEF PendingOfCall
<1>7. \A p \in pending' : p.retryOn401 => p \in Owed'
  BY <1>1, <1>2, <1>4 DEF PendingOfCall
<1>8. \A p, q \in Owed' : p = q
  BY <1>4 DEF PendingOfCall
<1> QED
  BY <1>1, <1>2, <1>4, <1>5, <1>6, <1>7, <1>8 DEF SendPostcondition

\* Only the request that the call awaits is pending for it.
LEMMA PendingOfCallStep ==
  ASSUME TypeOK, Phases, PendingOfCall, OneCall, EndsClean, [RtspNext]_rtspVars
  PROVE  PendingOfCall'
<1> USE DEF Dial, PeerGone, Quiet, Done, Cleanup, ClearedTimer, Disconnected,
      Rejected, Throws, HandleReconnect, Ignores, GivesUp, requestVars,
      peerVars, SendRequest, sessionVars, Fault, Reads, callVars, Matching, Outcome,
      Writes, slotOnly, TypeOK, Phases, PendingOfCall, OneCall, EndsClean,
      OutOfAttempts, Waiting, Owed, Awaited, Requests
<1>1. CASE Run
  BY <1>1 DEF Run
<1>2. CASE TimerFires
  BY <1>2 DEF TimerFires
<1>3. CASE Close
  BY <1>3 DEF Close
<1>4. CASE Fails \/ Refused
  BY <1>4 DEF Fails, Refused
<1>5. CASE Describe
  <2>1. SendRequest("DESCRIBE", TRUE) /\ socket = "open" /\ Owed = {}
    BY <1>5 DEF Describe, Phases, PendingOfCall, Owed, Awaited
  <2>2. "DESCRIBE" \in Awaited \cup {"GET_PARAMETER"}
    BY DEF Awaited
  <2>3. SendPostcondition("DESCRIBE")
    BY <2>1, <2>2, SendPending DEF Awaited
  <2> QED
    BY <1>5, <2>1, <2>3
    DEF Describe, SendPostcondition, PendingOfCall, Phases, Waiting, Awaited,
        sessionVars
<1>6. CASE Setup
  <2>1. SendRequest("SETUP", TRUE) /\ socket = "open" /\ Owed = {}
    BY <1>6 DEF Setup, Phases, PendingOfCall, Owed, Awaited
  <2>2. "SETUP" \in Awaited \cup {"GET_PARAMETER"}
    BY DEF Awaited
  <2>3. SendPostcondition("SETUP")
    BY <2>1, <2>2, SendPending DEF Awaited
  <2> QED
    BY <1>6, <2>1, <2>3
    DEF Setup, SendPostcondition, PendingOfCall, Phases, Waiting, Awaited,
        sessionVars
<1>7. CASE NextTrack
  <2>1. SendRequest("SETUP", TRUE) /\ socket = "open" /\ Owed = {}
    BY <1>7 DEF NextTrack, Phases, PendingOfCall, Owed, Awaited
  <2>2. "SETUP" \in Awaited \cup {"GET_PARAMETER"}
    BY DEF Awaited
  <2>3. SendPostcondition("SETUP")
    BY <2>1, <2>2, SendPending DEF Awaited
  <2> QED
    BY <1>7, <2>1, <2>3
    DEF NextTrack, SendPostcondition, PendingOfCall, Phases, Waiting, Awaited,
        sessionVars
<1>8. CASE Play
  <2>1. SendRequest("PLAY", FALSE) /\ socket = "open" /\ Owed = {}
    BY <1>8 DEF Play, Phases, PendingOfCall, Owed, Awaited
  <2>2. "PLAY" \in Awaited \cup {"GET_PARAMETER"}
    BY DEF Awaited
  <2>3. SendPostcondition("PLAY")
    BY <2>1, <2>2, SendPending DEF Awaited
  <2> QED
    BY <1>8, <2>1, <2>3
    DEF Play, SendPostcondition, PendingOfCall, Phases, Waiting, Awaited,
        sessionVars
<1>9. CASE Publish
  BY <1>9 DEF Publish
<1>11. CASE Connects
  BY <1>11 DEF Connects
<1>12. CASE SocketError
  BY <1>12 DEF SocketError
<1>13. CASE SocketClose
  BY <1>13 DEF SocketClose
<1>14. CASE Heartbeat
  <2>1. SendRequest("GET_PARAMETER", FALSE) /\ socket = "open" /\ Owed = {}
    BY <1>14 DEF Heartbeat, Quiet, Phases, PendingOfCall, Owed, Awaited
  <2>2. "GET_PARAMETER" \in Awaited \cup {"GET_PARAMETER"}
    BY DEF Awaited
  <2>3. SendPostcondition("GET_PARAMETER")
    BY <2>1, <2>2, SendPending DEF Awaited
  <2> QED
    BY <1>14, <2>1, <2>3
    DEF Heartbeat, Quiet, SendPostcondition, PendingOfCall, Phases, Waiting,
        Awaited, sessionVars
<1>15. CASE UnknownAnswer \/ OnRtpData
  BY <1>15 DEF UnknownAnswer, OnRtpData
<1>16. ASSUME NEW p \in pending, Challenged(p) PROVE PendingOfCall'
  <2> DEFINE again == [p EXCEPT !.cSeq = cSeq + 1, !.retryOn401 = FALSE]
  <2>1. pending' = (pending \ {p}) \cup {again} /\ cSeq' = cSeq + 1
    BY <1>16 DEF Challenged
  <2>2. again.cSeq = cSeq + 1 /\ again.method = p.method /\ ~again.retryOn401
    BY DEF TypeOK, Requests
  <2>3. p \in Owed /\ Owed' = {again} /\ cSeq \in Nat
    <3>1. p \in Owed
      BY <1>16 DEF Challenged, PendingOfCall
    <3>2. Owed = {p}
      BY <3>1 DEF PendingOfCall
    <3>3. again.method \in Awaited
      BY <2>2, <3>1 DEF Owed
    <3> HIDE DEF again
    <3> QED BY <2>1, <3>1, <3>2, <3>3 DEF Owed, TypeOK
  <2> HIDE DEF again
  <2>4. \A q \in pending' : q.cSeq \in 1..cSeq'
    BY <2>1, <2>2, <2>3 DEF PendingOfCall
  <2>5. \A q, r \in pending' : q.cSeq = r.cSeq => q = r
    BY <2>1, <2>2, FreshNumber DEF PendingOfCall
  <2>6. \A q \in pending' : q.retryOn401 => q \in Owed'
    BY <2>1, <2>2, <2>3 DEF PendingOfCall
  <2>7. UNCHANGED <<call, settled, socket, isRunning>>
    BY <1>16 DEF Challenged, callVars, sessionVars
  <2> QED
    BY <2>2, <2>3, <2>4, <2>5, <2>6, <2>7 DEF PendingOfCall, Waiting
<1>17. ASSUME NEW p \in pending, BadScheme(p) PROVE PendingOfCall'
  BY <1>17 DEF BadScheme
<1>18. ASSUME NEW p \in pending, Answered(p) PROVE PendingOfCall'
  BY <1>18 DEF Answered
<1>20. CASE Answers \/ Declines \/ Repeats \/ Streams
  BY <1>20 DEF Answers, Declines, Repeats, Streams
<1>24. CASE GraceEnds \/ OtherPublishes \/ OtherLeaves
  BY <1>24 DEF GraceEnds, OtherPublishes, OtherLeaves
<1>27. CASE UNCHANGED rtspVars
  BY <1>27 DEF rtspVars
<1> QED BY <1>1, <1>2, <1>3, <1>4, <1>5, <1>6, <1>7, <1>8, <1>9, <1>11, <1>12,
      <1>13, <1>14, <1>15, <1>16, <1>17, <1>18, <1>20, <1>24, <1>27 DEF RtspNext,
      CallGoesOn, HandleData, TakesAnswer

\* No second timer, and no timer beside a call that can go on.
LEMMA OneCallStep ==
  ASSUME TypeOK, Phases, PendingOfCall, OneCall, EndsClean, [RtspNext]_rtspVars
  PROVE  OneCall'
<1> USE DEF Dial, PeerGone, Quiet, Done, Cleanup, ClearedTimer, Disconnected,
      Rejected, Throws, HandleReconnect, Ignores, GivesUp, requestVars,
      peerVars, SendRequest, sessionVars, Fault, Reads, callVars, Matching, Outcome,
      Writes, slotOnly, TypeOK, Phases, PendingOfCall, OneCall, EndsClean,
      OutOfAttempts, Owed, Awaited, Requests
<1>1. CASE Run
  BY <1>1 DEF Run
<1>2. CASE TimerFires
  BY <1>2 DEF TimerFires
<1>3. CASE Close
  BY <1>3 DEF Close
<1>4. CASE Fails \/ Refused
  BY <1>4 DEF Fails, Refused
<1>5. CASE Describe \/ Setup \/ NextTrack \/ Play
  BY <1>5 DEF Describe, Setup, NextTrack, Play
<1>9. CASE Publish
  BY <1>9 DEF Publish
<1>11. CASE Connects
  BY <1>11 DEF Connects
<1>12. CASE SocketError
  BY <1>12 DEF SocketError
<1>13. CASE SocketClose
  <2>1. call # "nothing" => settled' = "rejected"
    <3>1. settled = "no" /\ socket \in {"open", "broken"}
      BY <1>13 DEF SocketClose, Quiet
    <3>2. call # "connect"
      BY <3>1 DEF PendingOfCall, EndsClean
    <3>3. call # "nothing" => Owed # {}
      BY <3>1, <3>2 DEF TypeOK, PendingOfCall, Waiting
    <3> QED BY <1>13, <3>3 DEF SocketClose, Rejected, Owed
  <2> QED
    BY <1>13, <2>1
    DEF SocketClose, Quiet, HandleReconnect, Ignores, GivesUp, Cleanup,
        ClearedTimer, TypeOK, OneCall
<1>14. CASE Heartbeat
  BY <1>14 DEF Heartbeat
<1>15. CASE UnknownAnswer \/ OnRtpData
  BY <1>15 DEF UnknownAnswer, OnRtpData
<1>16. ASSUME NEW p \in pending, Challenged(p) PROVE OneCall'
  BY <1>16 DEF Challenged
<1>17. ASSUME NEW p \in pending, BadScheme(p) PROVE OneCall'
  BY <1>17 DEF BadScheme
<1>18. ASSUME NEW p \in pending, Answered(p) PROVE OneCall'
  BY <1>18 DEF Answered
<1>20. CASE Answers \/ Declines \/ Repeats \/ Streams
  BY <1>20 DEF Answers, Declines, Repeats, Streams
<1>24. CASE GraceEnds \/ OtherPublishes \/ OtherLeaves
  BY <1>24 DEF GraceEnds, OtherPublishes, OtherLeaves
<1>27. CASE UNCHANGED rtspVars
  BY <1>27 DEF rtspVars
<1> QED BY <1>1, <1>2, <1>3, <1>4, <1>5, <1>9, <1>11, <1>12, <1>13, <1>14,
      <1>15, <1>16, <1>17, <1>18, <1>20, <1>24, <1>27 DEF RtspNext, CallGoesOn,
      HandleData, TakesAnswer

\* What has ended does not come back: no attempt is left, or isClosing is set.
LEMMA EndsCleanStep ==
  ASSUME TypeOK, Phases, PendingOfCall, OneCall, EndsClean, [RtspNext]_rtspVars
  PROVE  EndsClean'
<1> USE DEF Dial, PeerGone, Quiet, Done, Cleanup, ClearedTimer, Disconnected,
      Rejected, Throws, HandleReconnect, Ignores, GivesUp, requestVars,
      peerVars, SendRequest, sessionVars, Fault, Reads, callVars, Matching, Outcome,
      Writes, slotOnly, TypeOK, Phases, PendingOfCall, OneCall, EndsClean,
      OutOfAttempts
<1>1. CASE Run
  BY <1>1 DEF Run
<1>2. CASE TimerFires
  BY <1>2 DEF TimerFires
<1>3. CASE Close
  BY <1>3 DEF Close
<1>4. CASE Fails \/ Refused
  BY <1>4 DEF Fails, Refused
<1>5. CASE Describe \/ Setup \/ NextTrack \/ Play
  BY <1>5 DEF Describe, Setup, NextTrack, Play
<1>9. CASE Publish
  BY <1>9 DEF Publish
<1>11. CASE Connects
  BY <1>11 DEF Connects
<1>12. CASE SocketError
  BY <1>12 DEF SocketError
<1>13. CASE SocketClose
  BY <1>13 DEF SocketClose
<1>14. CASE Heartbeat
  BY <1>14 DEF Heartbeat
<1>15. CASE UnknownAnswer \/ OnRtpData
  BY <1>15 DEF UnknownAnswer, OnRtpData
<1>16. ASSUME NEW p \in pending, Challenged(p) PROVE EndsClean'
  BY <1>16 DEF Challenged
<1>17. ASSUME NEW p \in pending, BadScheme(p) PROVE EndsClean'
  BY <1>17 DEF BadScheme
<1>18. ASSUME NEW p \in pending, Answered(p) PROVE EndsClean'
  BY <1>18 DEF Answered
<1>20. CASE Answers \/ Declines \/ Repeats \/ Streams
  BY <1>20 DEF Answers, Declines, Repeats, Streams
<1>24. CASE GraceEnds \/ OtherPublishes \/ OtherLeaves
  BY <1>24 DEF GraceEnds, OtherPublishes, OtherLeaves
<1>27. CASE UNCHANGED rtspVars
  BY <1>27 DEF rtspVars
<1> QED BY <1>1, <1>2, <1>3, <1>4, <1>5, <1>9, <1>11, <1>12, <1>13, <1>14,
      <1>15, <1>16, <1>17, <1>18, <1>20, <1>24, <1>27 DEF RtspNext, CallGoesOn,
      HandleData, TakesAnswer

LEMMA TailOnWire ==
  ASSUME NEW w \in Seq(Messages), w # <<>>, NEW c, OnWire(w, c),
         Head(w).type = "answer" => Head(w).cSeq # c
  PROVE  OnWire(Tail(w), c)
<1>1. PICK i \in DOMAIN w : w[i].type = "answer" /\ w[i].cSeq = c
  BY DEF OnWire
<1>2. i # 1
  BY <1>1
<1>3. i - 1 \in DOMAIN Tail(w) /\ Tail(w)[i - 1] = w[i]
  BY <1>1, <1>2
<1> QED BY <1>1, <1>3 DEF OnWire

LEMMA AppendOnWire ==
  ASSUME NEW w \in Seq(Messages), NEW m \in Messages, NEW c
  PROVE  /\ OnWire(w, c) => OnWire(Append(w, m), c)
         /\ m.type = "answer" => OnWire(Append(w, m), m.cSeq)
<1>1. \A i \in DOMAIN w : i \in DOMAIN Append(w, m) /\ Append(w, m)[i] = w[i]
  OBVIOUS
<1>2. /\ Len(w) + 1 \in DOMAIN Append(w, m)
      /\ Append(w, m)[Len(w) + 1] = m
  OBVIOUS
<1>3. OnWire(w, c) => OnWire(Append(w, m), c)
  BY <1>1 DEF OnWire
<1>4. m.type = "answer" => OnWire(Append(w, m), m.cSeq)
  BY <1>2 DEF OnWire
<1> QED BY <1>3, <1>4

\* A request that is sent is one the server has to answer.
LEMMA SentIsAsked ==
  ASSUME socket = "open", Owed = {}, NEW m, NEW retry, SendRequest(m, retry)
  PROVE  \A p \in Owed' : \E r \in asked' : r.cSeq = p.cSeq
<1> DEFINE new == [cSeq |-> cSeq + 1, method |-> m, retryOn401 |-> retry]
           asks == [cSeq |-> cSeq + 1, authorized |-> authParams]
<1>1. pending' = pending \cup {new} /\ asks \in asked'
  BY DEF SendRequest
<1>2. \A p \in Owed' : p = new
  BY <1>1 DEF Owed
<1>3. new.cSeq = asks.cSeq
  OBVIOUS
<1> QED BY <1>1, <1>2, <1>3

\* A message taken from the wire, that is no answer to a request that goes on
\* waiting.
LEMMA TakenKeeps ==
  ASSUME TypeOK, Answerable, wire # <<>>, wire' = Tail(wire),
         asked \subseteq asked', Owed' \subseteq Owed, socket' = socket,
         \A p \in Owed' : Head(wire).type = "answer" => Head(wire).cSeq # p.cSeq
  PROVE  Answerable'
<1> SUFFICES ASSUME NEW p \in Owed', socket = "open"
             PROVE  OnItsWay(p.cSeq)'
  BY DEF Answerable
<1>1. OnItsWay(p.cSeq)
  BY DEF Answerable
<1>2. CASE \E r \in asked : r.cSeq = p.cSeq
  BY <1>2 DEF OnItsWay
<1>3. CASE OnWire(wire, p.cSeq)
  BY <1>3, TailOnWire DEF OnItsWay, TypeOK
<1> QED BY <1>1, <1>2, <1>3 DEF OnItsWay

\* A message written to the wire, and perhaps the request it answers taken
\* from those that wait for an answer.
LEMMA WrittenKeeps ==
  ASSUME TypeOK, Answerable, NEW m \in Messages, wire' = Append(wire, m),
         \A r \in asked \ asked' : m.type = "answer" /\ m.cSeq = r.cSeq,
         Owed' = Owed, socket' = socket
  PROVE  Answerable'
<1> SUFFICES ASSUME NEW p \in Owed, socket = "open"
             PROVE  OnItsWay(p.cSeq)'
  BY DEF Answerable
<1>1. OnItsWay(p.cSeq)
  BY DEF Answerable
<1>2. CASE \E r \in asked : r.cSeq = p.cSeq
  BY <1>2, AppendOnWire DEF OnItsWay, TypeOK
<1>3. CASE OnWire(wire, p.cSeq)
  BY <1>3, AppendOnWire DEF OnItsWay, TypeOK
<1> QED BY <1>1, <1>2, <1>3 DEF OnItsWay

\* The server, or the wire, holds what a pending request waits for.
LEMMA AnswerableStep ==
  ASSUME TypeOK, Phases, PendingOfCall, Answerable, [RtspNext]_rtspVars
  PROVE  Answerable'
<1> USE DEF callVars, sessionVars, requestVars, peerVars
<1>1. CASE Run
  BY <1>1 DEF Run, Dial, PeerGone, TypeOK, Phases, PendingOfCall,
      Answerable, OnItsWay, Owed, OutOfAttempts
<1>2. CASE TimerFires
  BY <1>2 DEF TimerFires, Quiet, Done, Dial, PeerGone, TypeOK, Phases,
      PendingOfCall, Answerable, OnItsWay, Owed, OutOfAttempts
<1>3. CASE Close
  BY <1>3 DEF Close, Quiet, Cleanup, ClearedTimer, Done, Disconnected,
      PeerGone, Rejected, TypeOK, Phases, PendingOfCall, Answerable,
      OnItsWay, Owed, OutOfAttempts
<1>4. CASE Fails \/ Refused
  BY <1>4 DEF Fails, Refused, Throws, HandleReconnect, Ignores,
      OutOfAttempts, GivesUp, Cleanup, ClearedTimer, Done, Disconnected,
      PeerGone, TypeOK, Phases, PendingOfCall, Answerable, OnItsWay, Owed
<1>5. CASE Describe
  <2>1. SendRequest("DESCRIBE", TRUE) /\ socket = "open" /\ Owed = {}
    BY <1>5 DEF Describe, Phases, PendingOfCall, Owed, Awaited
  <2> QED BY <2>1, SentIsAsked DEF Answerable, OnItsWay
<1>6. CASE Setup
  <2>1. SendRequest("SETUP", TRUE) /\ socket = "open" /\ Owed = {}
    BY <1>6 DEF Setup, Phases, PendingOfCall, Owed, Awaited
  <2> QED BY <2>1, SentIsAsked DEF Answerable, OnItsWay
<1>7. CASE NextTrack
  <2>1. SendRequest("SETUP", TRUE) /\ socket = "open" /\ Owed = {}
    BY <1>7 DEF NextTrack, Phases, PendingOfCall, Owed, Awaited
  <2> QED BY <2>1, SentIsAsked DEF Answerable, OnItsWay
<1>8. CASE Play
  <2>1. SendRequest("PLAY", FALSE) /\ socket = "open" /\ Owed = {}
    BY <1>8 DEF Play, Phases, PendingOfCall, Owed, Awaited
  <2> QED BY <2>1, SentIsAsked DEF Answerable, OnItsWay
<1>9. CASE Publish
  BY <1>9 DEF Publish, TypeOK, Phases, PendingOfCall, Answerable, OnItsWay,
      Owed, OutOfAttempts
<1>11. CASE Connects
  BY <1>11 DEF Connects, Quiet, TypeOK, Phases, PendingOfCall, Answerable,
      OnItsWay, Owed, OutOfAttempts
<1>12. CASE SocketError
  BY <1>12 DEF SocketError, Quiet, Fault, HandleReconnect, Ignores,
      OutOfAttempts, GivesUp, Cleanup, ClearedTimer, Done, PeerGone,
      Rejected, TypeOK, Phases, PendingOfCall, Answerable, OnItsWay, Owed
<1>13. CASE SocketClose
  BY <1>13 DEF SocketClose, Quiet, Fault, HandleReconnect, Ignores,
      OutOfAttempts, GivesUp, Cleanup, ClearedTimer, Done, Disconnected,
      PeerGone, Rejected, TypeOK, Phases, PendingOfCall, Answerable,
      OnItsWay, Owed
<1>14. CASE Heartbeat
  <2>1. SendRequest("GET_PARAMETER", FALSE) /\ socket = "open" /\ Owed = {}
    BY <1>14 DEF Heartbeat, Quiet, Phases, PendingOfCall, Owed, Awaited
  <2> QED BY <2>1, SentIsAsked DEF Answerable, OnItsWay
<1>15. CASE UnknownAnswer
  BY <1>15, TakenKeeps DEF UnknownAnswer, Reads, Matching, Owed, requestVars
<1>16. ASSUME NEW p \in pending, Challenged(p) PROVE Answerable'
  <2>1. p \in Owed /\ Owed = {p}
    BY <1>16 DEF Challenged, PendingOfCall
  <2>2. \A q \in Owed' : q.cSeq = cSeq + 1
    BY <1>16, <2>1 DEF Challenged, Owed, TypeOK, Requests
  <2> DEFINE asks == [cSeq |-> cSeq + 1, authorized |-> TRUE]
  <2>3. asks \in asked' /\ asks.cSeq = cSeq + 1
    BY <1>16 DEF Challenged
  <2> QED BY <2>2, <2>3 DEF Answerable, OnItsWay
<1>17. ASSUME NEW p \in pending, BadScheme(p) PROVE Answerable'
  <2>1. \A q \in Owed' : q \in Owed /\ q.cSeq # p.cSeq
    BY <1>17 DEF BadScheme, PendingOfCall, Owed
  <2> QED BY <1>17, <2>1, TakenKeeps DEF BadScheme, Reads, Matching
<1>18. ASSUME NEW p \in pending, Answered(p) PROVE Answerable'
  <2>1. \A q \in Owed' : q \in Owed /\ q.cSeq # p.cSeq
    BY <1>18 DEF Answered, PendingOfCall, Owed
  <2> QED BY <1>18, <2>1, TakenKeeps DEF Answered, Reads, Matching
<1>19. CASE OnRtpData
  BY <1>19, TakenKeeps DEF OnRtpData, Reads, Owed, requestVars
<1>20. CASE Answers
  <2>1. PICK r \in asked, s \in Statuses :
             wire' = Append(wire, Answer(r.cSeq, s)) /\ asked' = asked \ {r}
    BY <1>20 DEF Answers, Writes, Statuses
  <2>2. Owed' = Owed /\ socket' = socket
    BY <1>20 DEF Answers, requestVars, Owed
  <2>3. r.cSeq \in Nat
    BY DEF TypeOK
  <2>4. /\ Answer(r.cSeq, s) \in Messages
        /\ Answer(r.cSeq, s).type = "answer" /\ Answer(r.cSeq, s).cSeq = r.cSeq
    BY <2>3, AnswerIsMessage DEF Answer
  <2> QED BY <2>1, <2>2, <2>4, WrittenKeeps
<1>21. CASE Declines
  <2>1. PICK r \in asked, s \in Statuses :
             wire' = Append(wire, Answer(r.cSeq, s)) /\ asked' = asked \ {r}
    BY <1>21 DEF Declines, Writes, Statuses
  <2>2. Owed' = Owed /\ socket' = socket
    BY <1>21 DEF Declines, requestVars, Owed
  <2>3. r.cSeq \in Nat
    BY DEF TypeOK
  <2>4. /\ Answer(r.cSeq, s) \in Messages
        /\ Answer(r.cSeq, s).type = "answer" /\ Answer(r.cSeq, s).cSeq = r.cSeq
    BY <2>3, AnswerIsMessage DEF Answer
  <2> QED BY <2>1, <2>2, <2>4, WrittenKeeps
<1>22. CASE Repeats
  <2>1. \E c \in Nat : wire' = Append(wire, Answer(c, "200")) /\ asked' = asked
    BY <1>22 DEF Repeats, Writes, Statuses, TypeOK
  <2>2. Owed' = Owed /\ socket' = socket
    BY <1>22 DEF Repeats, requestVars, Owed
  <2> QED
    BY <2>1, <2>2, WrittenKeeps, AnswerIsMessage, MediaIsMessage
    DEF Answer, Statuses, TypeOK
<1>23. CASE Streams
  <2>1. wire' = Append(wire, MediaPacket) /\ asked' = asked
    BY <1>23 DEF Streams, Statuses, TypeOK
  <2>2. Owed' = Owed /\ socket' = socket
    BY <1>23 DEF Streams, requestVars, Owed
  <2> QED
    BY <2>1, <2>2, WrittenKeeps, AnswerIsMessage, MediaIsMessage
    DEF Answer, Statuses, TypeOK
<1>24. CASE GraceEnds \/ OtherPublishes \/ OtherLeaves
  BY <1>24 DEF GraceEnds, OtherPublishes, OtherLeaves, Quiet, slotOnly,
      TypeOK, Phases, PendingOfCall, Answerable, OnItsWay, Owed,
      OutOfAttempts
<1>27. CASE UNCHANGED rtspVars
  BY <1>27 DEF rtspVars, TypeOK, Phases, PendingOfCall, Answerable, OnItsWay,
      Owed, OutOfAttempts
<1> QED BY <1>1, <1>2, <1>3, <1>4, <1>5, <1>6, <1>7, <1>8, <1>9, <1>11, <1>12,
      <1>13, <1>14, <1>15, <1>16, <1>17, <1>18, <1>19, <1>20, <1>21, <1>22,
      <1>23, <1>24, <1>27 DEF RtspNext, CallGoesOn, HandleData, TakesAnswer

-----------------------------------------------------------------------------
(***************************************************************************)
(* Theorems.                                                               *)
(***************************************************************************)

RtspInv == TypeOK /\ Phases /\ PendingOfCall /\ OneCall /\ EndsClean /\ Answerable

LEMMA IInvInit == RtspInit => RtspInv
<1> SUFFICES ASSUME RtspInit PROVE RtspInv
  OBVIOUS
<1>1. Phases /\ OneCall /\ EndsClean
  BY DEF RtspInit, Phases, OneCall, EndsClean
<1>2. PendingOfCall /\ Answerable
  BY DEF RtspInit, PendingOfCall, Answerable, Owed, Waiting, Awaited
<1> QED BY <1>1, <1>2, TypeInit DEF RtspInv

LEMMA IInvStep == RtspInv /\ [RtspNext]_rtspVars => RtspInv'
BY TypeStep, PhasesStep, PendingOfCallStep, OneCallStep, EndsCleanStep,
   AnswerableStep
DEF RtspInv

THEOREM Invariance == RtspSpec => []RtspInv
BY IInvInit, IInvStep, PTL DEF RtspSpec

\* The state stays in its types, and no more attempts are counted than the
\* policy allows (handleReconnect).
THEOREM RtspTypeCorrect == RtspSpec => []TypeOK
<1>1. RtspInv => TypeOK
  BY DEF RtspInv
<1> QED BY <1>1, Invariance, PTL

\* A reconnection is scheduled once, and not while a call of connectAndPlay
\* could still go on: two calls never share the session's client.
THEOREM OneCallAtATime == RtspSpec => []OneCall
<1>1. RtspInv => OneCall
  BY DEF RtspInv
<1> QED BY <1>1, Invariance, PTL

\* A call never waits for an answer that nobody owes, whatever is answered
\* twice, refused, challenged or cut off (dispatchResponse, rejectAllPending).
THEOREM NeverStranded == RtspSpec => []AnswerOwed
<1>1. ASSUME RtspInv PROVE AnswerOwed
  <2>1. ASSUME call \in Awaited, settled = "no"
        PROVE  \E p \in Owed : TRUE
    BY <1>1, <2>1 DEF RtspInv, PendingOfCall, Waiting
  <2>2. \A p \in Owed : p \in pending /\ p.method = call
    BY <1>1 DEF RtspInv, PendingOfCall, Owed
  <2> QED
    BY <1>1, <2>1, <2>2
    DEF RtspInv, PendingOfCall, Answerable, AnswerOwed, OnItsWay, OnWire, Waiting
<1> QED BY <1>1, Invariance, PTL

\* A session that has ended leaves no timer, connection, request, slot or
\* entry in the list of sessions behind (cleanup).
THEOREM CleanEnd == RtspSpec => []EndsClean
<1>1. RtspInv => EndsClean
  BY DEF RtspInv
<1> QED BY <1>1, Invariance, PTL

\* One attempt at a time as long as the session lives, and none after that.
THEOREM AttemptsInOrder == RtspSpec => []OneCallThenNone
<1>1. OneCall /\ EndsClean => OneCallThenNone
  BY DEF OneCallThenNone
<1> QED BY <1>1, OneCallAtATime, CleanEnd, PTL

-----------------------------------------------------------------------------
(***************************************************************************)
(* Counting modulo a range.                                                *)
(***************************************************************************)

LEMMA ModDef ==
  ASSUME NEW R \in Int, R > 0, NEW x \in Int
  PROVE  /\ x % R \in 0..(R - 1)
         /\ x \div R \in Int
         /\ x = (x \div R) * R + (x % R)
OBVIOUS

LEMMA Remainder ==
  ASSUME NEW R \in Int, R > 0, NEW x \in Int, NEW q \in Int,
         NEW r \in 0..(R - 1), x = q * R + r
  PROVE  x % R = r
OBVIOUS

\* Two counts: one is i ranges and r, the other j ranges and s.
LEMMA Difference ==
  ASSUME NEW R \in Int, NEW a \in Int, NEW b \in Int,
         NEW i \in Int, NEW j \in Int, NEW r \in Int, NEW s \in Int,
         a = i * R + r, b = j * R + s
  PROVE  r - s = (j - i) * R + (a - b)
OBVIOUS

LEMMA DifferenceBack ==
  ASSUME NEW R \in Int, NEW a \in Int, NEW b \in Int,
         NEW i \in Int, NEW j \in Int, NEW r \in Int, NEW s \in Int,
         a = i * R + r, b = j * R + s
  PROVE  s - r = (i - j - 1) * R + (R - (a - b))
OBVIOUS

\* The distance of two counts that are less than a range apart is seen in
\* what is left of them.
LEMMA Distance ==
  ASSUME NEW R \in Int, R > 0, NEW a \in Int, NEW b \in Int,
         a - b \in 0..(R - 1)
  PROVE  ((a % R) - (b % R)) % R = a - b
<1>1. PICK i \in Int, r \in Int : i = a \div R /\ r = a % R /\ a = i * R + r
  BY ModDef
<1>2. PICK j \in Int, s \in Int : j = b \div R /\ s = b % R /\ b = j * R + s
  BY ModDef
<1>3. PICK q \in Int : r - s = q * R + (a - b)
  <2>1. r - s = (j - i) * R + (a - b)
    BY <1>1, <1>2, Difference
  <2>2. j - i \in Int
    OBVIOUS
  <2> QED BY <2>1, <2>2
<1>4. (r - s) % R = a - b
  <2>1. r - s \in Int
    OBVIOUS
  <2> QED BY <1>3, <2>1, Remainder
<1> QED BY <1>1, <1>2, <1>4

\* When the later one is taken from the earlier one, it is seen in what it
\* leaves to a whole range.
LEMMA DistanceBack ==
  ASSUME NEW R \in Int, R > 0, NEW a \in Int, NEW b \in Int,
         a - b \in 1..(R - 1)
  PROVE  ((b % R) - (a % R)) % R = R - (a - b)
<1>1. PICK i \in Int, r \in Int : i = a \div R /\ r = a % R /\ a = i * R + r
  BY ModDef
<1>2. PICK j \in Int, s \in Int : j = b \div R /\ s = b % R /\ b = j * R + s
  BY ModDef
<1>3. PICK q \in Int : s - r = q * R + (R - (a - b))
  <2>1. s - r = (i - j - 1) * R + (R - (a - b))
    BY <1>1, <1>2, DifferenceBack
  <2>2. i - j - 1 \in Int
    OBVIOUS
  <2> QED BY <2>1, <2>2
<1>4. (s - r) % R = R - (a - b)
  <2>1. s - r \in Int /\ R - (a - b) \in 0..(R - 1)
    OBVIOUS
  <2> QED BY <1>3, <2>1, Remainder
<1> QED BY <1>1, <1>2, <1>4

(***************************************************************************)
(* Types, as far as the proofs need them.                                  *)
(***************************************************************************)

NalType == {None} \cup [type : {"inter"}, config : Nat]
Part == Nat \X Nat \X Nat

Cameras ==
  [sent : Nat, missed : Nat, at : 0..MaxTime, latest : 0..MaxTime,
   hole : BOOLEAN, since : Nat, config : Nat, nal : NalType,
   first : Nat, part : Nat, count : Nat]

\* Where the camera is in the picture, and in time: a hole is the time that
\* was left out just before the latest one.
Ordered(c) ==
  /\ c.since <= c.sent
  /\ c.part <= c.count
  /\ c.part < c.count => 1 <= c.part
  /\ c.at <= c.latest
  /\ c.hole => c.at = c.latest /\ 2 <= c.latest

CameraInv == camera \in Cameras /\ Ordered(camera)

LEMMA CameraInit == Init => CameraInv
BY DepayloaderAssumption DEF Init, CameraInv, Cameras, Ordered, NalType

\* What every packet leaves of the camera: one more was sent.
SendStep(next) ==
  /\ camera.sent - camera.since < MaxBurst
  /\ \/ camera' = [next EXCEPT !.sent = @ + 1]
     \/ camera' = [next EXCEPT !.sent = @ + 1, !.missed = @ + 1]

LEMMA SendsNext ==
  ASSUME NEW p, NEW next, Send(p, next) PROVE SendStep(next)
BY DEF Send, SendStep

LEMMA OneMore ==
  ASSUME NEW next \in Cameras, Ordered(next), SendStep(next)
  PROVE  CameraInv'
<1>1. next.sent + 1 \in Nat /\ next.missed + 1 \in Nat
  BY DEF Cameras
<1>2. camera' \in Cameras
  BY <1>1, Zenon DEF SendStep, Cameras
<1>3. /\ camera'.sent = next.sent + 1
      /\ \A f \in {"since", "part", "count", "at", "latest", "hole"} :
           camera'[f] = next[f]
  BY DEF SendStep, Cameras
<1>4. Ordered(camera')
  BY <1>3 DEF Cameras, Ordered
<1> QED BY <1>2, <1>4 DEF CameraInv

LEMMA NoUnitType ==
  ASSUME CameraInv PROVE NoUnit \in Cameras /\ Ordered(NoUnit)
<1>1. 0 \in Nat
  OBVIOUS
<1>2. NoUnit \in Cameras
  BY <1>1, Zenon DEF CameraInv, Cameras, NoUnit
<1>3. Ordered(NoUnit)
  BY DEF CameraInv, Cameras, Ordered, NoUnit
<1> QED BY <1>2, <1>3

LEMMA CameraStep == CameraInv /\ [Next]_vars => CameraInv'
<1> SUFFICES ASSUME CameraInv, [Next]_vars PROVE CameraInv'
  OBVIOUS
<1>1. ASSUME SendStep(NoUnit) PROVE CameraInv'
  BY <1>1, NoUnitType, OneMore
<1>2. CASE SendSingle
  BY <1>1, <1>2, SendsNext DEF SendSingle
<1>3. CASE SendAggregate
  BY <1>1, <1>3, SendsNext DEF SendAggregate
<1>4. CASE StartUnit
  <2>1. PICK n \in 2..MaxParts :
          SendStep([camera EXCEPT !.nal = Nal("inter"), !.first = camera.sent,
                                  !.part = 1, !.count = n])
    BY <1>4, SendsNext, Zenon DEF StartUnit
  <2> DEFINE begun == [camera EXCEPT !.nal = Nal("inter"),
                         !.first = camera.sent, !.part = 1, !.count = n]
  <2>2. /\ Nal("inter") \in NalType /\ n \in Nat /\ 2 <= n
        /\ camera.sent \in Nat /\ 1 \in Nat
    <3>1. camera.config \in Nat /\ camera.sent \in Nat
      BY DEF CameraInv, Cameras
    <3>2. Nal("inter") \in NalType
      BY <3>1, Zenon DEF Nal, NalType
    <3>3. n \in Nat /\ 2 <= n
      BY DepayloaderAssumption
    <3> QED BY <3>1, <3>2, <3>3
  <2>3. begun \in Cameras
    BY <2>2, Zenon DEF CameraInv, Cameras
  <2>4. Ordered(begun)
    BY <2>2 DEF CameraInv, Cameras, Ordered
  <2> QED BY <2>1, <2>3, <2>4, OneMore
<1>5. CASE ContinueUnit
  <2> DEFINE next == [camera EXCEPT !.part = @ + 1]
  <2>1. SendStep(next) /\ camera.part < camera.count
    BY <1>5, SendsNext DEF ContinueUnit
  <2>2. next \in Cameras /\ Ordered(next)
    BY <2>1 DEF CameraInv, Cameras, Ordered
  <2> QED BY <2>1, <2>2, OneMore
<1>6. CASE SendSound
  BY <1>1, <1>6, SendsNext DEF SendSound
<1>7. CASE SendUnsupported
  BY <1>1, <1>7, SendsNext DEF SendUnsupported
<1>8. CASE SendEmpty
  <2>1. camera' = [NoUnit EXCEPT !.sent = @ + 1, !.missed = @ + 1]
    BY <1>8 DEF SendEmpty
  <2>2. NoUnit.sent + 1 \in Nat /\ NoUnit.missed + 1 \in Nat
    BY NoUnitType DEF Cameras
  <2>3. camera' \in Cameras
    BY <2>1, <2>2, NoUnitType, Zenon DEF Cameras
  <2>4. Ordered(camera')
    BY <2>1, NoUnitType DEF Cameras, Ordered
  <2> QED BY <2>3, <2>4 DEF CameraInv
<1>9. CASE NextPicture
  <2>1. PICK t \in {camera.latest - 1, camera.latest + 1, camera.latest + 2} :
          /\ t <= MaxTime
          /\ t < camera.latest => camera.hole
          /\ camera' = [NoUnit EXCEPT !.at = t, !.since = camera.sent,
                                      !.latest = IF t > @ THEN t ELSE @,
                                      !.hole = t > camera.latest + 1]
    BY <1>9, Zenon DEF NextPicture
  <2>2. /\ t \in 0..MaxTime /\ camera.sent \in Nat
        /\ (IF t > NoUnit.latest THEN t ELSE NoUnit.latest) \in 0..MaxTime
        /\ (t > camera.latest + 1) \in BOOLEAN
    BY <2>1, NoUnitType, DepayloaderAssumption DEF CameraInv, Cameras, Ordered
  <2>3. NoUnit.latest = camera.latest /\ NoUnit.sent = camera.sent
    BY DEF NoUnit, CameraInv, Cameras
  <2>4. camera' \in Cameras
    BY <2>1, <2>2, NoUnitType, Zenon DEF Cameras
  <2>5. Ordered(camera')
    <3>1. /\ camera'.at = t /\ camera'.since = camera.sent
          /\ camera'.latest = IF t > camera.latest THEN t ELSE camera.latest
          /\ camera'.hole => t > camera.latest + 1
          /\ camera'.sent = camera.sent
          /\ camera'.part = 0 /\ camera'.count = 0
      BY <2>1, <2>3 DEF CameraInv, Cameras, NoUnit
    <3>2. /\ camera.latest \in Int /\ camera.sent \in Int /\ t \in Int
          /\ camera.hole => 2 <= camera.latest
          /\ t \in {camera.latest - 1, camera.latest + 1, camera.latest + 2}
          /\ t < camera.latest => camera.hole
      BY <2>1, <2>2 DEF CameraInv, Cameras, Ordered
    <3>3. 0 <= camera.latest
      BY DepayloaderAssumption DEF CameraInv, Cameras
    <3> QED BY <3>1, <3>2, <3>3 DEF Ordered
  <2> QED BY <2>4, <2>5 DEF CameraInv
<1>10. CASE Reconfigure
  <2>1. camera' = [NoUnit EXCEPT !.config = @ + 1] /\ NoUnit.config + 1 \in Nat
    BY <1>10, NoUnitType DEF Reconfigure, Cameras
  <2>2. camera' \in Cameras
    BY <2>1, NoUnitType, Zenon DEF Cameras
  <2>3. Ordered(camera')
    BY <2>1, NoUnitType DEF Cameras, Ordered
  <2> QED BY <2>2, <2>3 DEF CameraInv
<1>11. CASE ReadLine
  BY <1>11 DEF ReadLine, CameraInv
<1>12. CASE SetupTrack
  BY <1>12 DEF SetupTrack, CameraInv
<1>13. CASE UNCHANGED vars
  BY <1>13 DEF vars, CameraInv
<1> QED BY <1>2, <1>3, <1>4, <1>5, <1>6, <1>7, <1>8, <1>9, <1>10, <1>11,
           <1>12, <1>13 DEF Next

(***************************************************************************)
(* What an action does with the track: it feeds it a packet of the         *)
(* camera's present time and count, it misses one, or it leaves the track  *)
(* as it is.                                                               *)
(***************************************************************************)

Stamped(p) ==
  /\ p.seq = (FirstSeq + camera.sent) % SeqRange
  /\ p.ts = (FirstTs + camera.at) % TsRange

LEMMA PacketStamped ==
  ASSUME NEW kind, NEW nals
  PROVE  /\ Stamped(Packet(kind, nals))
         /\ Packet(kind, nals).kind = kind /\ Packet(kind, nals).nals = nals
         /\ Packet(kind, nals).part = camera.part
         /\ Packet(kind, nals).count = camera.count
         /\ Packet(kind, nals).first = camera.first
         /\ \A n : [Packet(kind, nals) EXCEPT !.units = n].kind = kind
         /\ \A n : Stamped([Packet(kind, nals) EXCEPT !.units = n])
BY DEF Packet, Stamped

\* Before it is set up a media has no unit begun and nothing to show.
NotSetUp ==
  sdp # None => camera.part = 0 /\ camera.count = 0 /\ DOMAIN out = {}

LEMMA NotSetUpInit == Init => NotSetUp
BY DEF Init, NotSetUp

LEMMA NotSetUpStep == CameraInv /\ NotSetUp /\ [Next]_vars => NotSetUp'
<1> SUFFICES ASSUME CameraInv, NotSetUp, [Next]_vars, sdp' # None
             PROVE  /\ camera'.part = 0 /\ camera'.count = 0
                    /\ DOMAIN out' = {}
  BY DEF NotSetUp
<1>1. CASE sdp = None
  <2>1. ASSUME NEW p, Feed(p) PROVE FALSE
    BY <1>1, <2>1 DEF Feed, Return, mediaVars
  <2>2. ASSUME NEW p, NEW next, Send(p, next) PROVE FALSE
    BY <1>1, <2>1, <2>2 DEF Send, Miss, mediaVars
  <2>3. ~SendSingle /\ ~SendAggregate /\ ~StartUnit /\ ~ContinueUnit
    BY <2>2, Zenon DEF SendSingle, SendAggregate, StartUnit, ContinueUnit
  <2>4. ~SendSound /\ ~SendUnsupported /\ ~SendEmpty
    BY <2>1, <2>2, Zenon DEF SendSound, SendUnsupported, SendEmpty
  <2>5. ~NextPicture /\ ~Reconfigure /\ ~ReadLine /\ ~SetupTrack
    BY <1>1 DEF NextPicture, Reconfigure, ReadLine, SetupTrack, mediaVars
  <2>6. sdp' = sdp
    <3>1. CASE UNCHANGED vars
      BY <3>1 DEF vars, mediaVars
    <3> QED BY <2>3, <2>4, <2>5, <3>1 DEF Next
  <2> QED BY <1>1, <2>6
<1>2. CASE sdp # None
  <2>1. ~SendSingle /\ ~SendAggregate /\ ~StartUnit
    BY <1>2 DEF SendSingle, SendAggregate, StartUnit, Video, Playing
  <2>2. ~ContinueUnit
    BY <1>2 DEF ContinueUnit, NotSetUp
  <2>3. ~SendSound /\ ~SendUnsupported /\ ~SendEmpty
    BY <1>2 DEF SendSound, SendUnsupported, SendEmpty, BetweenUnits, Video,
                Playing
  <2>4. ~NextPicture /\ ~Reconfigure
    BY <1>2 DEF NextPicture, Reconfigure, BetweenUnits, Video, Playing
  <2>5. UNCHANGED <<out, camera>>
    BY <2>1, <2>2, <2>3, <2>4 DEF Next, vars, ReadLine, SetupTrack
  <2> QED BY <1>2, <2>5 DEF NotSetUp
<1> QED BY <1>1, <1>2

\* What a packet does to the track.
Fetches == Miss \/ \E p : Stamped(p) /\ Feed(p)

LEMMA SendFetches ==
  ASSUME NEW p, Stamped(p), NEW next, Send(p, next) PROVE Fetches
BY DEF Send, Fetches

LEMMA TrackSteps ==
  ASSUME [Next]_vars, NotSetUp
  PROVE  \/ Playing /\ Fetches
         \/ /\ UNCHANGED <<lastSeq, clock, fu, base, top>>
            /\ \/ UNCHANGED <<clockRate, out>>
               \/ DOMAIN out' = {}
<1>1. CASE SendSingle
  BY <1>1, PacketStamped, SendFetches, Zenon DEF SendSingle, Video
<1>2. CASE SendAggregate
  BY <1>2, PacketStamped, SendFetches, Zenon DEF SendAggregate, Video
<1>3. CASE StartUnit
  <2> DEFINE begun(n) == [camera EXCEPT !.nal = Nal("inter"),
                            !.first = camera.sent, !.part = 1, !.count = n]
             p(n) == [Packet("fragment", <<begun(n).nal>>) EXCEPT
                        !.first = begun(n).first, !.part = 1, !.count = n]
  <2>1. PICK n \in 2..MaxParts : Send(p(n), begun(n))
    BY <1>3, Zenon DEF StartUnit
  <2>2. Stamped(p(n))
    BY DEF Packet, Stamped
  <2> HIDE DEF p, begun
  <2> QED BY <1>3, <2>1, <2>2, SendFetches DEF StartUnit, Video
<1>4. CASE ContinueUnit
  <2> DEFINE next == [camera EXCEPT !.part = @ + 1]
             p == [Packet("fragment", <<camera.nal>>) EXCEPT !.part = next.part]
  <2>1. Send(p, next) /\ camera.part < camera.count
    BY <1>4, Zenon DEF ContinueUnit
  <2>2. Stamped(p)
    BY DEF Packet, Stamped
  <2>3. Playing
    BY <2>1 DEF NotSetUp, Playing
  <2> HIDE DEF p, next
  <2> QED BY <2>1, <2>2, <2>3, SendFetches
<1>5. CASE SendSound
  <2>1. PICK n \in 1..2 : Send([Packet("sound", <<>>) EXCEPT !.units = n], NoUnit)
    BY <1>5, Zenon DEF SendSound
  <2> QED BY <1>5, <2>1, PacketStamped, SendFetches DEF SendSound
<1>6. CASE SendUnsupported
  BY <1>6, PacketStamped, SendFetches, Zenon DEF SendUnsupported, Video
<1>7. CASE SendEmpty
  BY <1>7, PacketStamped, Zenon DEF SendEmpty, BetweenUnits, Fetches
<1>8. CASE NextPicture
  BY <1>8 DEF NextPicture, trackVars, ghosts
<1>9. CASE Reconfigure
  BY <1>9 DEF Reconfigure, trackVars
<1>10. CASE ReadLine
  BY <1>10 DEF ReadLine, trackVars, ghosts
<1>11. CASE SetupTrack
  <2>1. DOMAIN out = {} /\ out' = out
    BY <1>11 DEF SetupTrack, NotSetUp
  <2> QED BY <1>11, <2>1 DEF SetupTrack
<1>12. CASE UNCHANGED vars
  BY <1>12 DEF vars, mediaVars, trackVars, ghosts
<1> QED BY <1>1, <1>2, <1>3, <1>4, <1>5, <1>6, <1>7, <1>8, <1>9, <1>10,
           <1>11, <1>12 DEF Next

(***************************************************************************)
(* The clock.                                                              *)
(***************************************************************************)

\* The ticks counted are the distance in time from the first packet that
\* was returned to the latest one, and lastRtpTimestamp is its time.
ClockCounts ==
  /\ clock \in [first : Int, last : Int, elapsed : Int]
  /\ \/ /\ base = -1 /\ top = -1
        /\ clock.first = -1 /\ clock.elapsed = 0
     \/ /\ base \in 0..MaxTime /\ top \in base..MaxTime
        /\ clock.first >= 0
        /\ clock.last = (FirstTs + top) % TsRange
        /\ clock.elapsed = top - base

\* What was broadcast has the time of the latest packet.
LatestTime == \A i \in DOMAIN out : out[i].pts = Milliseconds(top - base)

LEMMA ClockInit == Init => ClockCounts /\ LatestTime
BY DEF Init, ClockCounts, LatestTime

\* One packet, at a time that may be before the latest one.
LEMMA TicksStep ==
  ASSUME CameraInv, ClockCounts, NEW ts, ts = (FirstTs + camera.at) % TsRange,
         NEW c, c = Ticks(clock, ts)
  PROVE  /\ c \in [first : Int, last : Int, elapsed : Int]
         /\ c.first >= 0
         /\ base < 0 => c.last = ts /\ c.elapsed = 0
         /\ base >= 0 /\ camera.at >= top =>
              c.last = ts /\ c.elapsed = camera.at - base
         /\ base >= 0 /\ camera.at < top => c = clock
<1> DEFINE now == FirstTs + camera.at
           then == FirstTs + top
<1>1. /\ TsRange \in Int /\ TsRange > 0 /\ now \in Int
      /\ ts \in 0..(TsRange - 1) /\ ts = now % TsRange
  BY DepayloaderAssumption, ModDef DEF CameraInv, Cameras
<1>2. ASSUME base < 0
      PROVE  /\ c \in [first : Int, last : Int, elapsed : Int]
             /\ c.first >= 0 /\ c.last = ts /\ c.elapsed = 0
  <2>1. (ts - ts) % TsRange = 0
    <3>1. ts - ts = 0 * TsRange + 0 /\ 0 \in 0..(TsRange - 1)
      BY <1>1
    <3> QED BY <1>1, <3>1, Remainder
  <2> DEFINE from == [first |-> ts, last |-> ts, elapsed |-> 0]
  <2>2. clock.first < 0
    BY <1>2 DEF ClockCounts
  <2>3. /\ from \in [first : Int, last : Int, elapsed : Int]
        /\ from.last = ts /\ from.first = ts /\ from.elapsed = 0
    BY <1>1
  <2>4. c = [from EXCEPT !.last = ts, !.elapsed = @ + 0]
    <3>1. 2 * 0 < TsRange
      BY <1>1
    <3>2. c = IF 2 * 0 < TsRange
              THEN [from EXCEPT !.last = ts, !.elapsed = @ + 0] ELSE from
      BY <2>1, <2>2, Zenon DEF Ticks
    <3> QED BY <3>1, <3>2
  <2>5. ts \in Int /\ from.elapsed + 0 \in Int /\ from.elapsed + 0 = 0
    BY <1>1, <2>3
  <2>7. c.first = ts /\ c.last = ts /\ c.elapsed = 0
    BY <2>4, <2>5
  <2>8. c.first >= 0
    BY <1>1, <2>7
  <2> HIDE DEF from
  <2>6. c \in [first : Int, last : Int, elapsed : Int]
    BY <2>3, <2>4, <2>5, Zenon
  <2> QED BY <2>6, <2>7, <2>8
<1>3. ASSUME base >= 0
      PROVE  /\ clock \in [first : Int, last : Int, elapsed : Int]
             /\ ~(clock.first < 0) /\ clock.first >= 0
             /\ clock.last = then % TsRange
             /\ clock.elapsed = top - base /\ base \in Int /\ top \in Int
             /\ camera.at \in Int
             /\ then \in Int
             /\ now >= then => now - then \in 0..(TsRange - 1)
                               /\ 2 * (now - then) < TsRange
                               /\ now - then = camera.at - top
             /\ now < then => then - now \in 1..(TsRange - 1)
                               /\ ~(2 * (TsRange - (then - now)) < TsRange)
  BY <1>3, DepayloaderAssumption DEF CameraInv, Cameras, ClockCounts
<1>4. camera.at >= top <=> now >= then
  BY DepayloaderAssumption DEF CameraInv, Cameras, ClockCounts
<1> HIDE DEF now, then
<1>5. ASSUME base >= 0, now >= then
      PROVE  /\ c \in [first : Int, last : Int, elapsed : Int]
             /\ c.first >= 0 /\ c.last = ts /\ c.elapsed = camera.at - base
  <2>1. (ts - clock.last) % TsRange = now - then
    <3>1. ((now % TsRange) - (then % TsRange)) % TsRange = now - then
      BY ZenonT(60), <1>1, <1>3, <1>5, Distance
    <3> QED BY <1>1, <1>3, <1>5, <3>1, Zenon
  <2>2. c = [clock EXCEPT !.last = ts, !.elapsed = @ + (now - then)]
    <3>1. 2 * (now - then) < TsRange
      BY <1>3, <1>5
    <3> QED BY <1>3, <1>5, <2>1, <3>1, Zenon DEF Ticks
  <2>3. /\ ts \in Int /\ clock.elapsed + (now - then) \in Int
        /\ clock.elapsed + (now - then) = camera.at - base
    BY <1>1, <1>3, <1>5
  <2>4. c \in [first : Int, last : Int, elapsed : Int]
    BY <1>3, <1>5, <2>2, <2>3, Zenon
  <2>5. c.first >= 0 /\ c.last = ts /\ c.elapsed = camera.at - base
    BY <1>3, <1>5, <2>2, <2>3
  <2> QED BY <2>4, <2>5
<1>6. ASSUME base >= 0, now < then
      PROVE  c = clock
  <2>1. (ts - clock.last) % TsRange = TsRange - (then - now)
    <3>1. /\ then - now \in 1..(TsRange - 1) /\ then \in Int
          /\ now \in Int /\ TsRange \in Int /\ TsRange > 0
      BY <1>1, <1>3, <1>6
    <3>2. ((now % TsRange) - (then % TsRange)) % TsRange
            = TsRange - (then - now)
      BY <3>1, DistanceBack
    <3> QED BY <1>1, <1>3, <1>6, <3>2, Zenon
  <2> QED BY <1>3, <1>6, <2>1, Zenon DEF Ticks
<1> QED
  <2>0. base \in Int
    BY DepayloaderAssumption DEF ClockCounts
  <2>1. CASE base < 0
    BY <1>2, <2>0, <2>1
  <2>2. CASE base >= 0 /\ now >= then
    BY <1>3, <1>4, <1>5, <2>2
  <2>3. CASE base >= 0 /\ now < then
    BY <1>1, <1>3, <1>4, <1>6, <2>3
  <2>4. base < 0 \/ base >= 0
    BY DepayloaderAssumption DEF ClockCounts
  <2> QED BY <1>1, <1>3, <2>1, <2>2, <2>3, <2>4

LEMMA ClockStep ==
  CameraInv /\ NotSetUp /\ ClockCounts /\ LatestTime /\ [Next]_vars
    => ClockCounts' /\ LatestTime'
<1> SUFFICES ASSUME CameraInv, NotSetUp, ClockCounts, LatestTime, [Next]_vars
             PROVE  ClockCounts' /\ LatestTime'
  OBVIOUS
<1>1. CASE Miss
  BY <1>1 DEF Miss, trackVars, mediaVars, ClockCounts, LatestTime
<1>2. ASSUME NEW p, Stamped(p), Feed(p)
      PROVE  ClockCounts' /\ LatestTime'
  <2>1. PICK r : Return(p, r)
    BY <1>2 DEF Feed
  <2>2. CASE r.out = <<>>
    BY <2>1, <2>2 DEF Return, ClockCounts, LatestTime
  <2>3. CASE r.out # <<>>
    <3>1. /\ clock' = Ticks(clock, p.ts) /\ p.ts = (FirstTs + camera.at) % TsRange
          /\ base' = IF base < 0 THEN camera.at ELSE base
          /\ top' = IF camera.at > top THEN camera.at ELSE top
          /\ clockRate' = clockRate
          /\ \A i \in DOMAIN out' : out'[i].pts = Milliseconds(clock'.elapsed)
      BY <1>2, <2>1, <2>3 DEF Return, Stamped, mediaVars
    <3>2. /\ clock' \in [first : Int, last : Int, elapsed : Int]
          /\ clock'.first >= 0
          /\ base < 0 => clock'.last = p.ts /\ clock'.elapsed = 0
          /\ base >= 0 /\ camera.at >= top =>
               clock'.last = p.ts /\ clock'.elapsed = camera.at - base
          /\ base >= 0 /\ camera.at < top => clock' = clock
      BY <3>1, TicksStep
    <3>3. camera.at \in 0..MaxTime /\ MaxTime \in Nat
      BY DepayloaderAssumption DEF CameraInv, Cameras
    <3>4. /\ base' \in 0..MaxTime /\ top' \in base'..MaxTime
          /\ clock'.last = (FirstTs + top') % TsRange
          /\ clock'.elapsed = top' - base'
      <4>1. CASE base < 0
        BY <3>1, <3>2, <3>3, <4>1 DEF ClockCounts
      <4>2. CASE base >= 0 /\ camera.at > top
        BY <3>1, <3>2, <3>3, <4>2 DEF ClockCounts
      <4>3. CASE base >= 0 /\ camera.at = top
        BY <3>1, <3>2, <3>3, <4>3 DEF ClockCounts
      <4>4. CASE base >= 0 /\ camera.at < top
        BY <3>1, <3>2, <3>3, <4>4 DEF ClockCounts
      <4> QED BY <3>3, <4>1, <4>2, <4>3, <4>4 DEF ClockCounts
    <3> QED BY <3>1, <3>2, <3>4 DEF ClockCounts, LatestTime, Milliseconds
  <2> QED BY <2>2, <2>3
<1>3. CASE /\ UNCHANGED <<lastSeq, clock, fu, base, top>>
           /\ \/ UNCHANGED <<clockRate, out>>
              \/ DOMAIN out' = {}
  BY <1>3 DEF ClockCounts, LatestTime, Milliseconds
<1> QED BY <1>1, <1>2, <1>3, TrackSteps DEF Fetches

\* ExactClock holds of every broadcast packet: what RtpDepayloader.feed
\* stamps is the time the camera's clock advanced since the first packet
\* it returned, however often the timestamps wrapped and whatever was lost.
THEOREM ClockIsExact == Spec => []ExactClock
<1> DEFINE IInv == CameraInv /\ NotSetUp /\ ClockCounts /\ LatestTime
<1>1. Init => IInv
  BY CameraInit, NotSetUpInit, ClockInit
<1>2. IInv /\ [Next]_vars => IInv'
  BY CameraStep, NotSetUpStep, ClockStep
<1>3. IInv => ExactClock
  BY DEF LatestTime, ExactClock
<1> QED BY <1>1, <1>2, <1>3, PTL DEF Spec

(***************************************************************************)
(* Induction, and the loop over the units of an aggregate.                 *)
(***************************************************************************)

LEMMA Least == ASSUME NEW T \in SUBSET Nat, T # {} PROVE \E x \in T : \A y \in T : x <= y
<1>1. PICK x \in T : \A y \in T : ~(<<y,x>> \in OpToRel(<,Nat))
  BY NatLessThanWellFounded, WFMin
<1>2. \A y \in T : ~(y < x)
  BY <1>1 DEF OpToRel
<1> QED BY <1>2

\* Induction: a set of numbers that has 0, and with a number the next one.
LEMMA Climb ==
  ASSUME NEW S, 0 \in S, \A i \in Nat : i \in S => i + 1 \in S
  PROVE  Nat \subseteq S
<1> SUFFICES ASSUME NEW k \in Nat, k \notin S PROVE FALSE
  OBVIOUS
<1> DEFINE T == {i \in Nat : i \notin S}
<1>1. PICK x \in T : \A y \in T : x <= y
  <2>1. T \in SUBSET Nat /\ T # {}
    OBVIOUS
  <2> QED BY <2>1, Least
<1>2. x \in Nat /\ x \notin S /\ x # 0
  BY <1>1
<1>3. x - 1 \in Nat /\ x - 1 \in S
  BY <1>1, <1>2
<1> QED BY <1>2, <1>3

LEMMA MaxOf ==
  ASSUME NEW S, NEW m \in S, S \subseteq Int, \A y \in S : m >= y
  PROVE  Max(S) = m
<1>1. \A x \in S : (\A y \in S : x >= y) <=> x = m
  OBVIOUS
<1>2. Max(S) \in S /\ \A y \in S : Max(S) >= y
  BY <1>1, Zenon DEF Max
<1> QED BY <1>1, <1>2

Loop(start, nals) == FoldLeft(Unpack, start, nals)

\* What FoldLeft does with the places in s, for each set s of places.
Recursion(f, start, nals, n) ==
  f = [s \in SUBSET (1..n) |->
        IF s = {} THEN start ELSE Unpack(f[s \ {Max(s)}], nals[Max(s)])]

LEMMA Unfold ==
  ASSUME NEW start, NEW nals, NEW n \in Nat, DOMAIN nals = 1..n
  PROVE \E f : f = (CHOOSE g : Recursion(g, start, nals, n))
           /\ Loop(start, nals) = f[1..n]
BY DEF Loop, FoldLeft, MapThenFoldSet, Recursion

LEMMA Largest ==
  ASSUME NEW i \in Nat, NEW s \in SUBSET (1..(i + 1))
  PROVE /\ i + 1 \in s => Max(s) = i + 1 /\ s \ {Max(s)} \in SUBSET (1..i)
        /\ i + 1 \notin s => s \in SUBSET (1..i)
<1>1. ASSUME i + 1 \in s PROVE Max(s) = i + 1
  <2>1. s \subseteq Int /\ \A y \in s : i + 1 >= y
    OBVIOUS
  <2> QED BY <1>1, <2>1, MaxOf
<1>2. \A x \in 1..(i+1) : x # i + 1 => x \in 1..i
  OBVIOUS
<1> QED BY <1>1, <1>2

LEMMA Recursive ==
  ASSUME NEW start, NEW nals
  PROVE  \A n \in Nat : \E f : Recursion(f, start, nals, n)
<1> DEFINE S == {n \in Nat : \E f : Recursion(f, start, nals, n)}
<1>1. 0 \in S
  <2> DEFINE f == [s \in SUBSET (1..0) |-> start]
  <2>1. \A s \in SUBSET (1..0) : s = {}
    OBVIOUS
  <2>2. Recursion(f, start, nals, 0)
    BY <2>1 DEF Recursion
  <2> QED BY <2>2
<1>2. ASSUME NEW i \in Nat, i \in S PROVE i + 1 \in S
  <2>1. PICK f : Recursion(f, start, nals, i)
    BY <1>2
  <2> DEFINE g == [s \in SUBSET (1..(i + 1)) |->
                     IF i + 1 \in s THEN Unpack(f[s \ {i + 1}], nals[i + 1])
                     ELSE f[s]]
             body(s) == IF s = {} THEN start
                        ELSE Unpack(g[s \ {Max(s)}], nals[Max(s)])
  <2>2. ASSUME NEW s \in SUBSET (1..i) PROVE g[s] = f[s] /\ s \in SUBSET (1..(i + 1))
    <3>1. i + 1 \notin s /\ s \in SUBSET (1..(i + 1))
      OBVIOUS
    <3> QED BY <3>1
  <2>3. ASSUME NEW s \in SUBSET (1..(i + 1)) PROVE g[s] = body(s)
    <3>1. CASE i + 1 \in s
      <4>1. Max(s) = i + 1 /\ s \ {i + 1} \in SUBSET (1..i) /\ s # {}
        BY <3>1, Largest
      <4>2. g[s \ {i + 1}] = f[s \ {i + 1}]
        BY <2>2, <4>1
      <4>3. g[s] = Unpack(f[s \ {i + 1}], nals[i + 1])
        BY <3>1
      <4> HIDE DEF g
      <4> QED BY <4>1, <4>2, <4>3
    <3>2. CASE i + 1 \notin s
      <4>1. s \in SUBSET (1..i)
        BY <3>2, Largest
      <4>2. g[s] = f[s]
        BY <2>2, <4>1
      <4>3. f[s] = IF s = {} THEN start ELSE Unpack(f[s \ {Max(s)}], nals[Max(s)])
        BY <2>1, <4>1 DEF Recursion
      <4>4. g[s \ {Max(s)}] = f[s \ {Max(s)}]
        <5>1. s \ {Max(s)} \in SUBSET (1..i)
          BY <4>1
        <5> QED BY <2>2, <5>1
      <4> HIDE DEF g
      <4> QED BY <4>2, <4>3, <4>4
    <3> QED BY <3>1, <3>2
  <2>4. g = [s \in SUBSET (1..(i + 1)) |-> g[s]]
    OBVIOUS
  <2>5. g = [s \in SUBSET (1..(i + 1)) |-> body(s)]
    <3> HIDE DEF g, body
    <3> QED BY <2>3, <2>4
  <2>6. Recursion(g, start, nals, i + 1)
    <3> HIDE DEF g
    <3> QED BY <2>5 DEF Recursion
  <2> HIDE DEF g
  <2> QED BY <2>6
<1> HIDE DEF S
<1>3. Nat \subseteq S
  BY <1>1, <1>2, Climb
<1> QED BY <1>3 DEF S

\* The loop over nals, from `start`, has n rounds.
InRounds(start, nals, n) ==
  \E g : /\ g[0] = start
         /\ \A i \in 1..n : g[i] = Unpack(g[i - 1], nals[i])
         /\ Loop(start, nals) = g[n]

\* The loop over a sequence of units, round by round.
LEMMA Rounds ==
  ASSUME NEW start, NEW nals, NEW n \in Nat, DOMAIN nals = 1..n
  PROVE  InRounds(start, nals, n)
<1>1. PICK f : /\ f = (CHOOSE g : Recursion(g, start, nals, n))
               /\ Loop(start, nals) = f[1..n]
  BY Unfold
<1>2. Recursion(f, start, nals, n)
  BY <1>1, Recursive
<1> DEFINE g == [i \in 0..n |-> f[1..i]]
<1>3. g[0] = start
  <2>1. 1..0 \in SUBSET (1..n) /\ 1..0 = {}
    OBVIOUS
  <2>2. f[1..0] = start
    BY <1>2, <2>1 DEF Recursion
  <2> QED BY <2>2
<1>4. ASSUME NEW i \in 1..n PROVE g[i] = Unpack(g[i - 1], nals[i])
  <2>1. 1..i \in SUBSET (1..n) /\ 1..i # {} /\ i - 1 \in 0..n /\ i \in 0..n
    <3>1. i \in 1..i /\ i - 1 \in 0..n /\ i \in 0..n
      OBVIOUS
    <3>2. \A k \in 1..i : k \in 1..n
      OBVIOUS
    <3> QED BY <3>1, <3>2
  <2>2. Max(1..i) = i
    <3>1. i \in 1..i /\ 1..i \subseteq Int /\ \A y \in 1..i : i >= y
      OBVIOUS
    <3> QED BY <3>1, MaxOf
  <2>3. (1..i) \ {i} = 1..(i - 1)
    <3>1. \A k \in Int : k \in (1..i) \ {i} <=> k \in 1..(i - 1)
      OBVIOUS
    <3>2. (1..i) \ {i} \subseteq Int /\ 1..(i - 1) \subseteq Int
      OBVIOUS
    <3> QED BY <3>1, <3>2
  <2>4. f[1..i] = Unpack(f[1..(i - 1)], nals[i])
    BY <1>2, <2>1, <2>2, <2>3 DEF Recursion
  <2> QED BY <2>1, <2>4
<1>5. Loop(start, nals) = g[n]
  BY <1>1
<1> HIDE DEF g
<1> QED BY <1>3, <1>4, <1>5 DEF InRounds

\* The loop keeps for the frame what was not stored, each unit uncut.
LEMMA UnpackedUnits ==
  ASSUME NEW h, NEW nals, NEW n \in Nat, DOMAIN nals = 1..n
  PROVE  Unpacked(h, nals).units \in Seq({Uncut(nals[k]) : k \in 1..n})
<1> DEFINE U == {Uncut(nals[k]) : k \in 1..n}
           start == [header |-> h, units |-> <<>>]
<1>1. PICK g : /\ g[0] = start
               /\ \A i \in 1..n : g[i] = Unpack(g[i - 1], nals[i])
               /\ Loop(start, nals) = g[n]
  <2> HIDE DEF start
  <2>1. InRounds(start, nals, n)
    BY Rounds
  <2> QED BY <2>1 DEF InRounds
<1> DEFINE S == {i \in Nat : i <= n => g[i].units \in Seq(U)}
<1>2. 0 \in S
  <2>1. g[0].units = <<>> /\ <<>> \in Seq(U)
    <3> HIDE DEF U
    <3> QED BY <1>1
  <2> QED BY <2>1
<1>3. ASSUME NEW i \in Nat, i \in S PROVE i + 1 \in S
  <2> SUFFICES ASSUME i + 1 <= n PROVE g[i + 1].units \in Seq(U)
    OBVIOUS
  <2>1. i + 1 \in 1..n /\ (i + 1) - 1 = i /\ i <= n
    OBVIOUS
  <2>2. g[i].units \in Seq(U) /\ Uncut(nals[i + 1]) \in U
    BY <1>3, <2>1
  <2>3. g[i + 1] = Unpack(g[i], nals[i + 1])
    BY <1>1, <2>1
  <2> HIDE DEF U
  <2> QED BY <2>2, <2>3 DEF Unpack
<1> HIDE DEF S
<1>4. n \in S
  BY <1>2, <1>3, Climb
<1> QED BY <1>1, <1>4 DEF S, Unpacked, Loop

(***************************************************************************)
(* What the handlers return.                                               *)
(***************************************************************************)

GoodUnit(unit) == unit.inStep => Whole(unit)
GoodPacket(a) ==
  a.flags \in Frames => \A i \in DOMAIN a.units : GoodUnit(a.units[i])
GoodSeq(s) ==
  /\ s \in Seq({s[i] : i \in DOMAIN s})
  /\ \A i \in DOMAIN s : GoodPacket(s[i])

LEMMA GoodEmpty == GoodSeq(<<>>)
BY DEF GoodSeq

LEMMA OwnElements ==
  ASSUME NEW S, NEW s \in Seq(S) PROVE s \in Seq({s[i] : i \in DOMAIN s})
OBVIOUS

LEMMA GoodAppend ==
  ASSUME NEW s, GoodSeq(s), NEW a, GoodPacket(a) PROVE GoodSeq(Append(s, a))
<1> DEFINE S == {s[i] : i \in DOMAIN s} \cup {a}
<1>1. s \in Seq(S) /\ a \in S
  <2>1. {s[i] : i \in DOMAIN s} \subseteq S
    OBVIOUS
  <2> QED BY <2>1 DEF GoodSeq
<1> HIDE DEF S
<1>2. /\ Append(s, a) \in Seq(S)
      /\ Len(Append(s, a)) = Len(s) + 1
      /\ \A i \in 1..Len(s) : Append(s, a)[i] = s[i]
      /\ Append(s, a)[Len(s) + 1] = a
  BY <1>1
<1>3. \A i \in DOMAIN Append(s, a) : GoodPacket(Append(s, a)[i])
  BY <1>1, <1>2 DEF GoodSeq
<1> QED BY <1>2, <1>3 DEF GoodSeq

LEMMA GoodConcat ==
  ASSUME NEW s, GoodSeq(s), NEW t, GoodSeq(t) PROVE GoodSeq(s \o t)
<1> DEFINE S == {s[i] : i \in DOMAIN s} \cup {t[i] : i \in DOMAIN t}
<1>1. s \in Seq(S) /\ t \in Seq(S)
  <2>1. {s[i] : i \in DOMAIN s} \subseteq S /\ {t[i] : i \in DOMAIN t} \subseteq S
    OBVIOUS
  <2> QED BY <2>1 DEF GoodSeq
<1> HIDE DEF S
<1>2. /\ s \o t \in Seq(S)
      /\ Len(s \o t) = Len(s) + Len(t)
      /\ \A i \in 1..Len(s \o t) :
           (s \o t)[i] = IF i <= Len(s) THEN s[i] ELSE t[i - Len(s)]
  BY <1>1
<1>3. \A i \in DOMAIN (s \o t) : GoodPacket((s \o t)[i])
  BY <1>1, <1>2 DEF GoodSeq
<1>4. s \o t \in Seq({(s \o t)[i] : i \in DOMAIN (s \o t)})
  BY <1>2, OwnElements
<1> QED BY <1>3, <1>4 DEF GoodSeq

LEMMA PendingGood == ASSUME NEW h PROVE GoodSeq(Pending(h))
<1> DEFINE a == HeaderPacket(h.record)
<1>1. GoodPacket(a)
  BY DEF GoodPacket, HeaderPacket, Frames
<1> HIDE DEF a
<1>2. GoodSeq(<<a>>)
  BY <1>1 DEF GoodSeq
<1> QED BY <1>2, GoodEmpty DEF Pending, a

LEMMA NalPacketGood ==
  ASSUME NEW units, \A i \in DOMAIN units : GoodUnit(units[i])
  PROVE  GoodPacket(NalPacket(units))
BY DEF GoodPacket, NalPacket

LEMMA UncutGood == ASSUME NEW nal PROVE GoodUnit(Uncut(nal))
BY DEF GoodUnit, Uncut, Unit, Whole

\* A packet after a header that may be pending.
LEMMA AfterPending ==
  ASSUME NEW h, NEW units, \A i \in DOMAIN units : GoodUnit(units[i])
  PROVE  GoodSeq(Append(Pending(h), NalPacket(units)))
BY PendingGood, NalPacketGood, GoodAppend

LEMMA SinglesGood ==
  ASSUME NEW p, NEW h, NEW f
  PROVE  /\ HandleSingleNal(p, h, f).fu = f
         /\ GoodSeq(HandleSingleNal(p, h, f).out)
         /\ HandleSingleH265(p, h, f).fu = f
         /\ GoodSeq(HandleSingleH265(p, h, f).out)
<1>1. GoodSeq(Append(Pending(h), NalPacket(<<Uncut(p.nals[1])>>)))
  BY AfterPending, UncutGood
<1>2. /\ HandleSingleNal(p, h, f).fu = f
      /\ GoodSeq(HandleSingleNal(p, h, f).out)
  BY <1>1, GoodEmpty DEF HandleSingleNal, Result
<1> QED BY <1>2, GoodEmpty DEF HandleSingleH265, Result

\* The units of p are those of a sequence.
Units(p) == \E n \in Nat : DOMAIN p.nals = 1..n

LEMMA AggregatesGood ==
  ASSUME NEW p, Units(p), NEW h, NEW f
  PROVE  /\ HandleStapA(p, h, f).fu = f
         /\ GoodSeq(HandleStapA(p, h, f).out)
         /\ HandleAp(p, h, f).fu = f
         /\ GoodSeq(HandleAp(p, h, f).out)
<1> DEFINE units == Unpacked(h, p.nals).units
<1>1. \A i \in DOMAIN units : GoodUnit(units[i])
  <2>1. PICK n \in Nat : DOMAIN p.nals = 1..n
    BY DEF Units
  <2>2. units \in Seq({Uncut(p.nals[k]) : k \in 1..n})
    BY <2>1, UnpackedUnits
  <2>3. \A i \in DOMAIN units : units[i] \in {Uncut(p.nals[k]) : k \in 1..n}
    BY <2>2
  <2> QED BY <2>3, UncutGood
<1>2. GoodSeq(Append(Pending(Unpacked(h, p.nals).header), NalPacket(units)))
  BY <1>1, AfterPending
<1>3. /\ HandleStapA(p, h, f).fu = f
      /\ GoodSeq(HandleStapA(p, h, f).out)
  BY <1>2, PendingGood DEF HandleStapA, Result
<1>4. /\ HandleAp(p, h, f).fu = f
      /\ GoodSeq(HandleAp(p, h, f).out)
  BY <1>2, GoodEmpty DEF HandleAp, Result
<1> QED BY <1>3, <1>4

LEMMA FedVideo ==
  ASSUME Video, NEW p, p.kind # "empty"
  PROVE  Fed(p) = FeedH264(p) \/ Fed(p) = FeedH265(p)
<1>1. TrackOf(codec) \in {"H264Depayloader", "H265Depayloader"}
  BY DEF Video, SetsOf
<1> QED BY <1>1 DEF Fed

\* A packet that is not a fragment leaves what a gap leaves.
LEMMA FedUnits ==
  ASSUME Video, NEW p, p.kind \in {"single", "aggregate", "unsupported"},
         Units(p)
  PROVE  Fed(p).fu = FragmentsAfterGap(p) /\ GoodSeq(Fed(p).out)
<1>1. FeedH264(p).fu = FragmentsAfterGap(p) /\ GoodSeq(FeedH264(p).out)
  <2> DEFINE h == Emitted(header)
             f == FragmentsAfterGap(p)
             r == CASE p.kind = "single"    -> HandleSingleNal(p, h, f)
                    [] p.kind = "aggregate" -> HandleStapA(p, h, f)
                    [] p.kind = "fragment"  -> HandleFuA(p, h, f)
                    [] OTHER                -> Result(h, f, <<>>)
  <2>1. r.fu = f /\ GoodSeq(r.out)
    BY SinglesGood, AggregatesGood, GoodEmpty DEF Result
  <2>2. FeedH264(p) = [r EXCEPT !.out = Pending(header) \o @]
    BY DEF FeedH264
  <2> QED BY <2>1, <2>2, PendingGood, GoodConcat
<1>2. FeedH265(p).fu = FragmentsAfterGap(p) /\ GoodSeq(FeedH265(p).out)
  BY SinglesGood, AggregatesGood, GoodEmpty DEF FeedH265, Result
<1> QED BY <1>1, <1>2, FedVideo

\* A fragment: what the handler leaves does not depend on the header.
FragmentLeft(p, f) ==
  IF p.part = 1
  THEN [started |-> TRUE, ts |-> p.ts, nal |-> p.nals[1],
        parts |-> <<<<p.first, p.part, p.count>>>>, inStep |-> ~Gap(p.seq)]
  ELSE IF ~f.started \/ p.ts # f.ts \/ p.part = p.count
  THEN NoFragment
  ELSE [f EXCEPT !.parts = Append(f.parts, <<p.first, p.part, p.count>>)]

\* What it returns is good if the unit that ends with it is.
EndsGood(p, f) ==
  p.part # 1 /\ f.started /\ p.ts = f.ts /\ p.part = p.count =>
    GoodUnit(Unit(f.nal, Append(f.parts, <<p.first, p.part, p.count>>), f.inStep))

LEMMA FragmentHandled ==
  ASSUME NEW p, NEW h, NEW f, EndsGood(p, f)
  PROVE  /\ HandleFuA(p, h, f).fu = FragmentLeft(p, f)
         /\ GoodSeq(HandleFuA(p, h, f).out)
<1> DEFINE parts == Append(f.parts, <<p.first, p.part, p.count>>)
<1>1. CASE p.part = 1
  BY <1>1, GoodEmpty DEF HandleFuA, Result, FragmentLeft
<1>2. CASE p.part # 1 /\ (~f.started \/ p.ts # f.ts)
  BY <1>2, GoodEmpty DEF HandleFuA, Result, FragmentLeft
<1>3. CASE p.part # 1 /\ f.started /\ p.ts = f.ts /\ p.part = p.count
  <2>1. GoodSeq(Append(Pending(h), NalPacket(<<Unit(f.nal, parts, f.inStep)>>)))
    BY <1>3, AfterPending DEF EndsGood
  <2> QED BY <1>3, <2>1 DEF HandleFuA, Result, FragmentLeft
<1>4. CASE p.part # 1 /\ f.started /\ p.ts = f.ts /\ p.part # p.count
  BY <1>4, GoodEmpty DEF HandleFuA, Result, FragmentLeft
<1> QED BY <1>1, <1>2, <1>3, <1>4

LEMMA FedFragment ==
  ASSUME Video, NEW p, p.kind = "fragment", EndsGood(p, FragmentsAfterGap(p))
  PROVE  /\ Fed(p).fu = FragmentLeft(p, FragmentsAfterGap(p))
         /\ GoodSeq(Fed(p).out)
<1> DEFINE f == FragmentsAfterGap(p)
<1>1. FeedH264(p).fu = FragmentLeft(p, f) /\ GoodSeq(FeedH264(p).out)
  <2> DEFINE r == HandleFuA(p, Emitted(header), f)
  <2>1. r.fu = FragmentLeft(p, f) /\ GoodSeq(r.out)
    BY FragmentHandled
  <2>2. FeedH264(p) = [r EXCEPT !.out = Pending(header) \o @]
    BY DEF FeedH264
  <2>3. r = Result(r.header, r.fu, r.out)
    BY DEF HandleFuA, Result
  <2> HIDE DEF r
  <2>4. /\ FeedH264(p).fu = r.fu
        /\ FeedH264(p).out = Pending(header) \o r.out
    BY <2>2, <2>3 DEF Result
  <2> QED BY <2>1, <2>4, PendingGood, GoodConcat
<1>2. FeedH265(p).fu = FragmentLeft(p, f) /\ GoodSeq(FeedH265(p).out)
  <2>1. FeedH265(p) = HandleFuA(p, header, f)
    BY DEF FeedH265, HandleFu
  <2> QED BY <2>1, FragmentHandled
<1> QED BY <1>1, <1>2, FedVideo

\* Padding, and media that are not video.
LEMMA FedOther ==
  ASSUME Playing, NEW p, Video => p.kind = "empty"
  PROVE  /\ Fed(p).fu = fu
         /\ \A i \in DOMAIN Fed(p).out : GoodPacket(Fed(p).out[i])
<1>1. CASE Video
  <2>1. TrackOf(codec) # "PassthroughDepayloader"
    BY <1>1 DEF Video, SetsOf
  <2>2. Fed(p) = Result(header, fu, <<>>)
    BY <1>1, <2>1 DEF Fed
  <2> QED BY <2>2 DEF Result
<1>2. CASE ~Video
  <2>1. TrackOf(codec) \notin {"H264Depayloader", "H265Depayloader"}
    BY <1>2 DEF Video, SetsOf
  <2>2. \/ Fed(p) = Result(header, fu, <<>>)
        \/ Fed(p) = FeedAac(p) \/ Fed(p) = FeedPcma(p)
        \/ Fed(p) = FeedPassthrough(p)
    BY <2>1 DEF Fed
  <2>3. /\ FeedAac(p).fu = fu
        /\ \A i \in DOMAIN FeedAac(p).out : GoodPacket(FeedAac(p).out[i])
    BY DEF FeedAac, Result, GoodPacket, Frames
  <2>4. /\ FeedPcma(p).fu = fu
        /\ \A i \in DOMAIN FeedPcma(p).out : GoodPacket(FeedPcma(p).out[i])
    BY DEF FeedPcma, Result, GoodPacket, Frames
  <2>5. /\ FeedPassthrough(p).fu = fu
        /\ \A i \in DOMAIN FeedPassthrough(p).out :
             GoodPacket(FeedPassthrough(p).out[i])
    BY DEF FeedPassthrough, Result, GoodPacket, Frames
  <2>6. /\ Result(header, fu, <<>>).fu = fu
        /\ DOMAIN Result(header, fu, <<>>).out = {}
    BY DEF Result
  <2> QED BY <2>2, <2>3, <2>4, <2>5, <2>6
<1> QED BY <1>1, <1>2

(***************************************************************************)
(* The unit that is put together.                                          *)
(***************************************************************************)

FuType ==
  [started : BOOLEAN, ts : Int, nal : NalType, parts : Seq(Part),
   inStep : BOOLEAN]
TrackType == lastSeq \in Int /\ fu \in FuType

\* k of count fragments of the unit that began with packet `first`, of the
\* picture of time t, and nothing was received since.  While the camera is
\* at that picture, no more than MaxBurst packets separate them from the
\* next: a fragment that is missing is a gap.  No picture to come has time t.
Held(first, k, count, t) ==
  /\ 1 <= k /\ k < count
  /\ fu.parts = [i \in 1..k |-> <<first, i, count>>]
  /\ fu.ts = (FirstTs + t) % TsRange
  /\ t <= camera.latest
  /\ camera.hole => t # camera.latest - 1
  /\ t = camera.at =>
       /\ lastSeq = (FirstSeq + (first + k - 1)) % SeqRange
       /\ camera.since <= first
       /\ first + k <= camera.sent
       /\ camera.sent = first + k =>
            camera.first = first /\ camera.count = count /\ camera.part = k

FuHeld ==
  fu.started /\ fu.inStep =>
    \E first \in Nat, k \in Nat, count \in Nat, t \in 0..MaxTime :
      Held(first, k, count, t)

OutGood == \A i \in DOMAIN out : GoodPacket(out[i].packet)

FuInv == TrackType /\ FuHeld /\ OutGood

LEMMA NoFragmentType == NoFragment \in FuType
BY DEF NoFragment, FuType, NalType

LEMMA FuInit == Init => FuInv
BY NoFragmentType DEF Init, FuInv, TrackType, FuHeld, OutGood, NoFragment

LEMMA WholeParts ==
  ASSUME NEW first \in Nat, NEW count \in Nat, count >= 1, NEW nal, NEW inStep
  PROVE  Whole(Unit(nal, [i \in 1..count |-> <<first, i, count>>], inStep))
<1> DEFINE parts == [i \in 1..count |-> <<first, i, count>>]
<1>1. parts[1] = <<first, 1, count>>
  OBVIOUS
<1> QED BY <1>1 DEF Whole, Unit

LEMMA AppendPart ==
  ASSUME NEW first \in Nat, NEW count \in Nat, NEW k \in Nat
  PROVE  /\ [i \in 1..k |-> <<first, i, count>>] \in Seq(Part)
         /\ Append([i \in 1..k |-> <<first, i, count>>], <<first, k + 1, count>>)
              = [i \in 1..(k + 1) |-> <<first, i, count>>]
<1> DEFINE s == [i \in 1..k |-> <<first, i, count>>]
           a == <<first, k + 1, count>>
           t == [i \in 1..(k + 1) |-> <<first, i, count>>]
<1>1. s \in Seq(Part) /\ Len(s) = k /\ a \in Part
  BY DEF Part
<1>2. /\ Append(s, a) \in Seq(Part) /\ Len(Append(s, a)) = k + 1
      /\ Append(s, a)[k + 1] = a
      /\ \A i \in 1..k : Append(s, a)[i] = s[i]
  BY <1>1
<1>3. t \in Seq(Part) /\ Len(t) = k + 1
  BY DEF Part
<1>4. \A i \in 1..(k + 1) : Append(s, a)[i] = t[i]
  BY <1>2
<1>5. Append(s, a) = t
  <2> HIDE DEF s, a, t
  <2> QED BY <1>2, <1>3, <1>4
<1> QED BY <1>1, <1>5

\* Two times of a camera give two timestamps.
LEMMA TimesApart ==
  ASSUME NEW t \in 0..MaxTime, NEW u \in 0..MaxTime,
         (FirstTs + t) % TsRange = (FirstTs + u) % TsRange
  PROVE  t = u
<1> SUFFICES ASSUME NEW v \in 0..MaxTime, NEW w \in 0..MaxTime, v > w,
                    (FirstTs + v) % TsRange = (FirstTs + w) % TsRange
             PROVE  FALSE
  BY DepayloaderAssumption
<1> DEFINE a == FirstTs + v
           b == FirstTs + w
<1>1. /\ TsRange \in Int /\ TsRange > 0 /\ a \in Int /\ b \in Int
      /\ a - b \in 0..(TsRange - 1) /\ a - b # 0
  BY DepayloaderAssumption
<1> HIDE DEF a, b
<1>2. ((a % TsRange) - (b % TsRange)) % TsRange = a - b
  BY <1>1, Distance
<1>3. (b % TsRange) - (b % TsRange) = 0 * TsRange + 0
  BY <1>1, ModDef
<1>4. ((b % TsRange) - (b % TsRange)) % TsRange = 0
  <2>1. 0 \in 0..(TsRange - 1)
    BY <1>1
  <2> QED BY <1>1, <1>3, <2>1, Remainder
<1>5. a % TsRange = b % TsRange
  BY DEF a, b
<1> QED BY <1>1, <1>2, <1>4, <1>5

\* A fragment that is missing is a gap, and the next one is none.
LEMMA GapSeen ==
  ASSUME CameraInv, camera.sent - camera.since < MaxBurst,
         NEW first \in Nat, NEW k \in Nat, NEW count \in Nat,
         NEW t \in 0..MaxTime, Held(first, k, count, t), t = camera.at,
         NEW seq, seq = (FirstSeq + camera.sent) % SeqRange
  PROVE  Gap(seq) <=> camera.sent # first + k
<1> DEFINE a == FirstSeq + camera.sent
           b == FirstSeq + (first + k - 1)
<1>1. /\ SeqRange \in Int /\ SeqRange > 0 /\ a \in Int /\ b \in Int
      /\ a - b \in 0..(SeqRange - 1)
      /\ a - b = camera.sent - (first + k) + 1
      /\ a - b \in 1..(GapLimit - 1) /\ GapLimit \in Int
      /\ camera.sent \in Int
  <2>1. 1 <= k /\ camera.since <= first /\ first + k <= camera.sent
    BY DEF Held
  <2>2. camera.sent \in Nat /\ camera.since \in Nat
    BY DEF CameraInv, Cameras
  <2> QED BY <2>1, <2>2, DepayloaderAssumption
<1>2. lastSeq = b % SeqRange /\ seq = a % SeqRange
  BY DEF Held
<1> HIDE DEF a, b
<1>3. (seq - lastSeq) % SeqRange = a - b
  <2>1. ((a % SeqRange) - (b % SeqRange)) % SeqRange = a - b
    BY <1>1, Distance, ZenonT(30)
  <2> QED BY <1>2, <2>1, Zenon
<1>4. lastSeq >= 0
  BY <1>1, <1>2, ModDef
<1> QED BY <1>1, <1>3, <1>4 DEF Gap

\* The camera goes on, and the track is as it was.
LEMMA FuKept ==
  ASSUME CameraInv, FuHeld, UNCHANGED <<fu, lastSeq>>,
         camera'.since = camera.since, camera'.at = camera.at,
         camera'.latest = camera.latest, camera'.hole = camera.hole,
         camera'.sent = camera.sent + 1
  PROVE  FuHeld'
<1> SUFFICES ASSUME fu.started, fu.inStep PROVE FuHeld'
  BY DEF FuHeld
<1>1. PICK first \in Nat, k \in Nat, count \in Nat, t \in 0..MaxTime :
        Held(first, k, count, t)
  BY DEF FuHeld
<1>2. t = camera.at => first + k <= camera.sent /\ camera.sent \in Nat
  BY <1>1 DEF Held, CameraInv, Cameras
<1>3. t = camera'.at => first + k <= camera'.sent /\ camera'.sent # first + k
  BY <1>2
<1>4. Held(first, k, count, t)'
  BY <1>1, <1>3 DEF Held
<1> QED BY <1>4 DEF FuHeld

\* A packet that is not a fragment of the unit leaves it, or ends it.
LEMMA FuAcross ==
  ASSUME CameraInv, TrackType, FuHeld, camera.part = camera.count,
         camera.sent - camera.since < MaxBurst,
         NEW p, Stamped(p), fu' = FragmentsAfterGap(p),
         camera'.since = camera.since, camera'.at = camera.at,
         camera'.latest = camera.latest, camera'.hole = camera.hole
  PROVE  FuHeld'
<1> SUFFICES ASSUME fu'.started, fu'.inStep PROVE FuHeld'
  BY DEF FuHeld
<1>1. fu' = fu /\ ~Gap(p.seq)
  BY DEF FragmentsAfterGap, NoFragment
<1>2. PICK first \in Nat, k \in Nat, count \in Nat, t \in 0..MaxTime :
        Held(first, k, count, t)
  BY <1>1 DEF FuHeld
<1>3. t # camera.at
  <2> SUFFICES ASSUME t = camera.at PROVE FALSE
    OBVIOUS
  <2>1. camera.sent = first + k
    BY <1>1, <1>2, GapSeen DEF Stamped
  <2>2. camera.count = count /\ camera.part = k /\ k < count
    BY <1>2, <2>1 DEF Held
  <2> QED BY <2>2
<1>4. Held(first, k, count, t)'
  BY <1>1, <1>2, <1>3 DEF Held
<1> QED BY <1>4 DEF FuHeld

LEMMA GapType ==
  ASSUME CameraInv, TrackType, NEW p, Stamped(p)
  PROVE  FragmentsAfterGap(p) \in FuType /\ p.seq \in Int /\ p.ts \in Int
<1>1. p.seq \in Int /\ p.ts \in Int
  <2>1. /\ FirstSeq + camera.sent \in Int /\ FirstTs + camera.at \in Int
        /\ SeqRange \in Int /\ SeqRange > 0 /\ TsRange \in Int /\ TsRange > 0
    BY DepayloaderAssumption DEF CameraInv, Cameras
  <2> QED BY <2>1, ModDef DEF Stamped
<1> QED BY <1>1, NoFragmentType DEF FragmentsAfterGap, TrackType

LEMMA ReturnGood ==
  ASSUME NEW p, NEW r, Return(p, r),
         \A i \in DOMAIN r.out : GoodPacket(r.out[i])
  PROVE  OutGood'
BY DEF Return, OutGood

LEMMA ReturnType ==
  ASSUME TrackType, NEW p, p.seq \in Int, NEW r, Return(p, r), r.fu \in FuType
  PROVE  TrackType'
BY DEF Return, TrackType

LEMMA MissedStep ==
  ASSUME CameraInv, FuInv, Miss,
         camera'.since = camera.since, camera'.at = camera.at,
         camera'.latest = camera.latest, camera'.hole = camera.hole,
         camera'.sent = camera.sent + 1
  PROVE  FuInv'
<1>1. fu' = fu /\ lastSeq' = lastSeq /\ out' = <<>>
  BY DEF Miss, trackVars
<1>2. FuHeld'
  BY <1>1, FuKept DEF FuInv
<1> QED BY <1>1, <1>2 DEF FuInv, TrackType, OutGood

\* Padding, or a packet of a media that is not video.
LEMMA OtherStep ==
  ASSUME CameraInv, FuInv, NEW p, Stamped(p), Playing, Feed(p),
         Video => p.kind = "empty",
         camera'.since = camera.since, camera'.at = camera.at,
         camera'.latest = camera.latest, camera'.hole = camera.hole,
         camera'.sent = camera.sent + 1
  PROVE  FuInv'
<1>1. Return(p, Fed(p)) /\ Fed(p).fu = fu
      /\ \A i \in DOMAIN Fed(p).out : GoodPacket(Fed(p).out[i])
  BY FedOther DEF Feed
<1>2. fu' = fu /\ lastSeq' = lastSeq
  BY <1>1 DEF Return
<1>3. FuHeld'
  BY <1>2, FuKept DEF FuInv
<1> QED BY <1>1, <1>2, <1>3, ReturnGood DEF FuInv, TrackType

\* A packet of video that is not a fragment.
LEMMA UnitsStep ==
  ASSUME CameraInv, FuInv, NEW p, Stamped(p), Video, Feed(p),
         p.kind \in {"single", "aggregate", "unsupported"}, Units(p),
         camera.part = camera.count, camera.sent - camera.since < MaxBurst,
         camera'.since = camera.since, camera'.at = camera.at,
         camera'.latest = camera.latest, camera'.hole = camera.hole
  PROVE  FuInv'
<1>1. /\ Return(p, Fed(p)) /\ Fed(p).fu = FragmentsAfterGap(p)
      /\ GoodSeq(Fed(p).out)
  BY FedUnits DEF Feed
<1>2. fu' = FragmentsAfterGap(p)
  BY <1>1 DEF Return
<1>3. FuHeld'
  BY <1>2, FuAcross DEF FuInv
<1>4. TrackType' /\ OutGood'
  BY <1>1, GapType, ReturnType, ReturnGood DEF FuInv, GoodSeq
<1> QED BY <1>3, <1>4 DEF FuInv

\* The first fragment of a unit.
LEMMA StartStep ==
  ASSUME CameraInv, FuInv, NEW p, Stamped(p), Video, Feed(p),
         p.kind = "fragment", NEW n \in Nat, 2 <= n,
         p.first = camera.sent, p.part = 1, p.count = n, p.nals[1] \in NalType,
         camera' = [[camera EXCEPT !.nal = Nal("inter"), !.first = camera.sent,
                                   !.part = 1, !.count = n]
                      EXCEPT !.sent = @ + 1]
  PROVE  FuInv'
<1>1. /\ camera'.since = camera.since /\ camera'.at = camera.at
      /\ camera'.latest = camera.latest /\ camera'.hole = camera.hole
      /\ camera'.sent = camera.sent + 1 /\ camera'.first = camera.sent
      /\ camera'.part = 1 /\ camera'.count = n
  BY DEF CameraInv, Cameras
<1>2. EndsGood(p, FragmentsAfterGap(p))
  BY DEF EndsGood
<1>3. /\ Return(p, Fed(p))
      /\ Fed(p).fu = FragmentLeft(p, FragmentsAfterGap(p))
      /\ GoodSeq(Fed(p).out)
  BY <1>2, FedFragment DEF Feed
<1>4. fu' = [started |-> TRUE, ts |-> p.ts, nal |-> p.nals[1],
             parts |-> <<<<camera.sent, 1, n>>>>, inStep |-> ~Gap(p.seq)]
  BY <1>3 DEF Return, FragmentLeft
<1>5. camera.sent \in Nat /\ p.seq \in Int /\ p.ts \in Int
  BY GapType DEF CameraInv, Cameras, FuInv
<1>6. TrackType'
  <2>1. <<<<camera.sent, 1, n>>>> \in Seq(Part)
    BY <1>5 DEF Part
  <2>2. fu' \in FuType
    BY <1>4, <1>5, <2>1 DEF FuType, Gap
  <2> QED BY <1>3, <1>5, <2>2, ReturnType DEF FuInv, Return
<1>7. FuHeld'
  <2> SUFFICES ASSUME ~Gap(p.seq) PROVE \E first \in Nat, k \in Nat,
                 count \in Nat, t \in 0..MaxTime : Held(first, k, count, t)'
    BY <1>4 DEF FuHeld
  <2>1. lastSeq' = (FirstSeq + camera.sent) % SeqRange
    BY <1>3 DEF Return, Stamped
  <2>2. fu'.parts = [i \in 1..1 |-> <<camera.sent, i, n>>]
    BY <1>4
  <2>3. fu'.ts = (FirstTs + camera.at) % TsRange
    BY <1>4 DEF Stamped
  <2>4. /\ camera.at \in 0..MaxTime /\ camera.at <= camera.latest
        /\ camera.hole => camera.at = camera.latest
        /\ camera.since <= camera.sent /\ camera.latest \in Int
    BY DepayloaderAssumption DEF CameraInv, Cameras, Ordered
  <2>5. lastSeq' = (FirstSeq + (camera.sent + 1 - 1)) % SeqRange
    <3>1. FirstSeq + (camera.sent + 1 - 1) = FirstSeq + camera.sent
      BY <1>5, DepayloaderAssumption
    <3> QED BY <2>1, <3>1
  <2>6. /\ 1 <= 1 /\ 1 < n
        /\ camera.hole => camera.at # camera.latest - 1
        /\ camera.sent + 1 <= camera.sent + 1
    BY <1>5, <2>4
  <2>7. PICK f \in Nat, u \in 0..MaxTime : f = camera.sent /\ u = camera.at
    BY <1>5, <2>4
  <2>8. Held(f, 1, n, u)'
    BY <1>1, <2>2, <2>3, <2>4, <2>5, <2>6, <2>7 DEF Held
  <2>9. 1 \in Nat
    OBVIOUS
  <2> QED BY <2>8, <2>9
<1> QED BY <1>3, <1>6, <1>7, ReturnGood DEF FuInv, GoodSeq

\* A fragment that follows: of the unit that is held, or of another one.
LEMMA ContinueStep ==
  ASSUME CameraInv, FuInv, NEW p, Stamped(p), Video, Feed(p),
         p.kind = "fragment", camera.part < camera.count,
         camera.sent - camera.since < MaxBurst,
         p.first = camera.first, p.part = camera.part + 1, p.count = camera.count,
         camera' = [[camera EXCEPT !.part = @ + 1] EXCEPT !.sent = @ + 1]
  PROVE  FuInv'
<1> DEFINE f == FragmentsAfterGap(p)
           part == <<camera.first, camera.part + 1, camera.count>>
<1>1. /\ camera'.since = camera.since /\ camera'.at = camera.at
      /\ camera'.latest = camera.latest /\ camera'.hole = camera.hole
      /\ camera'.sent = camera.sent + 1 /\ camera'.first = camera.first
      /\ camera'.part = camera.part + 1 /\ camera'.count = camera.count
  BY DEF CameraInv, Cameras
<1>2. /\ camera.part \in Nat /\ 1 <= camera.part /\ camera.first \in Nat
      /\ camera.count \in Nat /\ camera.sent \in Nat
      /\ camera.at \in 0..MaxTime
  BY DEF CameraInv, Cameras, Ordered
<1>3. /\ f \in FuType /\ p.seq \in Int /\ p.ts \in Int /\ part \in Part
      /\ <<p.first, p.part, p.count>> = part
  BY <1>2, GapType DEF FuInv, Part
\* A unit in step that is still held when a fragment arrives that has its
\* time lacks exactly this fragment.
<1>4. ASSUME f.started, f.inStep, p.ts = f.ts
      PROVE  /\ f = fu /\ ~Gap(p.seq)
             /\ \E first \in Nat, k \in Nat, count \in Nat, t \in 0..MaxTime :
                  /\ Held(first, k, count, t) /\ t = camera.at
                  /\ camera.sent = first + k /\ camera.first = first
                  /\ camera.part = k /\ camera.count = count
  <2>1. f = fu /\ ~Gap(p.seq)
    BY <1>4 DEF FragmentsAfterGap, NoFragment
  <2>2. PICK first \in Nat, k \in Nat, count \in Nat, t \in 0..MaxTime :
          Held(first, k, count, t)
    BY <1>4, <2>1 DEF FuInv, FuHeld
  <2>3. t = camera.at
    <3>1. (FirstTs + t) % TsRange = (FirstTs + camera.at) % TsRange
      BY <1>4, <2>1, <2>2 DEF Held, Stamped
    <3> QED BY <1>2, <3>1, TimesApart
  <2>4. camera.sent = first + k
    BY <2>1, <2>2, <2>3, GapSeen DEF Stamped
  <2>5. camera.first = first /\ camera.part = k /\ camera.count = count
    BY <2>2, <2>3, <2>4 DEF Held
  <2> QED BY <2>1, <2>2, <2>3, <2>4, <2>5
<1>5. EndsGood(p, f)
  <2> SUFFICES ASSUME f.started, p.ts = f.ts, p.part = p.count, f.inStep
               PROVE  Whole(Unit(f.nal, Append(f.parts, part), f.inStep))
    BY <1>3 DEF EndsGood, GoodUnit, Unit
  <2>1. PICK first \in Nat, k \in Nat, count \in Nat, t \in 0..MaxTime :
          /\ Held(first, k, count, t) /\ camera.first = first
          /\ camera.part = k /\ camera.count = count
    BY <1>4
  <2>2. f.parts = [i \in 1..k |-> <<first, i, count>>]
    BY <1>4, <2>1 DEF Held
  <2>3. Append(f.parts, part) = [i \in 1..(k + 1) |-> <<first, i, count>>]
    BY <2>1, <2>2, AppendPart
  <2>4. k + 1 = count
    BY <2>1
  <2>5. Append(f.parts, part) = [i \in 1..count |-> <<first, i, count>>]
    BY <2>3, <2>4
  <2>6. count >= 1
    BY <2>4
  <2>7. Whole(Unit(f.nal, [i \in 1..count |-> <<first, i, count>>], f.inStep))
    BY <2>6, WholeParts
  <2> QED BY <2>5, <2>7, Zenon
<1>6. /\ Return(p, Fed(p)) /\ Fed(p).fu = FragmentLeft(p, f)
      /\ GoodSeq(Fed(p).out)
  BY <1>5, FedFragment DEF Feed
<1>7. p.part # 1
  BY <1>2
<1>8. fu' = IF ~f.started \/ p.ts # f.ts \/ p.part = p.count
            THEN NoFragment ELSE [f EXCEPT !.parts = Append(f.parts, part)]
  BY <1>3, <1>6, <1>7 DEF Return, FragmentLeft
<1>9. TrackType'
  <2>1. Append(f.parts, part) \in Seq(Part)
    BY <1>3 DEF FuType
  <2>2. [f EXCEPT !.parts = Append(f.parts, part)] \in FuType
    <3> HIDE DEF f, part
    <3> QED BY <1>3, <2>1 DEF FuType
  <2>3. Fed(p).fu \in FuType
    BY <1>6, <1>8, <2>2, NoFragmentType DEF Return
  <2> QED BY <1>3, <1>6, <2>3, ReturnType DEF FuInv
<1>10. FuHeld'
  <2> SUFFICES ASSUME fu'.started, fu'.inStep PROVE FuHeld'
    BY DEF FuHeld
  <2>1. f.started /\ p.ts = f.ts /\ p.part # p.count
    BY <1>8 DEF NoFragment
  <2>2. /\ fu'.parts = Append(f.parts, part) /\ fu'.ts = f.ts
        /\ f.inStep
    BY <1>3, <1>8, <2>1 DEF FuType
  <2>3. PICK first \in Nat, k \in Nat, count \in Nat, t \in 0..MaxTime :
          /\ Held(first, k, count, t) /\ t = camera.at
          /\ camera.sent = first + k /\ camera.first = first
          /\ camera.part = k /\ camera.count = count
    BY <1>4, <2>1, <2>2
  <2>4. fu'.parts = [i \in 1..(k + 1) |-> <<first, i, count>>]
    <3>1. f.parts = [i \in 1..k |-> <<first, i, count>>]
      BY <1>4, <2>1, <2>2, <2>3 DEF Held
    <3> QED BY <2>2, <2>3, <3>1, AppendPart
  <2>5. lastSeq' = (FirstSeq + (first + (k + 1) - 1)) % SeqRange
    <3>1. lastSeq' = p.seq
      BY <1>4, <1>6, <2>1, <2>2 DEF Return
    <3>2. FirstSeq + (first + (k + 1) - 1) = FirstSeq + camera.sent
      BY <2>3, DepayloaderAssumption
    <3> QED BY <3>1, <3>2 DEF Stamped
  <2>6. fu'.ts = (FirstTs + t) % TsRange
    BY <1>4, <2>1, <2>2, <2>3 DEF Held
  <2>7. 1 <= k + 1 /\ k + 1 < count /\ k + 1 \in Nat
    BY <1>2, <2>1, <2>3
  <2>8. /\ t <= camera.latest /\ camera.hole => t # camera.latest - 1
        /\ camera.since <= first
    BY <2>3 DEF Held
  <2>9. camera'.sent = first + (k + 1)
    BY <1>1, <2>3
  <2>10. Held(first, k + 1, count, t)'
    BY <1>1, <2>3, <2>4, <2>5, <2>6, <2>7, <2>8, <2>9 DEF Held
  <2> QED BY <2>7, <2>10 DEF FuHeld
<1> QED BY <1>6, <1>9, <1>10, ReturnGood DEF FuInv, GoodSeq

LEMMA PictureStep == CameraInv /\ FuInv /\ NextPicture => FuInv'
<1> SUFFICES ASSUME CameraInv, FuInv, NextPicture PROVE FuInv'
  OBVIOUS
<1>1. fu' = fu /\ lastSeq' = lastSeq /\ out' = <<>>
  BY DEF NextPicture, trackVars
<1>2. PICK u \in {camera.latest - 1, camera.latest + 1, camera.latest + 2} :
        /\ u < camera.latest => camera.hole
        /\ camera'.at = u
        /\ camera'.latest = IF u > camera.latest THEN u ELSE camera.latest
        /\ camera'.hole => u > camera.latest + 1
  <2>1. PICK u \in {camera.latest - 1, camera.latest + 1, camera.latest + 2} :
          /\ u <= MaxTime
          /\ u < camera.latest => camera.hole
          /\ camera' = [NoUnit EXCEPT !.at = u, !.since = camera.sent,
                                      !.latest = IF u > @ THEN u ELSE @,
                                      !.hole = u > camera.latest + 1]
    BY Zenon DEF NextPicture
  <2> QED BY <2>1 DEF NoUnit, CameraInv, Cameras
<1>3. camera.latest \in Nat /\ camera.hole \in BOOLEAN
  BY DepayloaderAssumption DEF CameraInv, Cameras
<1>4. FuHeld'
  <2> SUFFICES ASSUME fu.started, fu.inStep PROVE FuHeld'
    BY <1>1 DEF FuHeld
  <2>1. PICK first \in Nat, k \in Nat, count \in Nat, t \in 0..MaxTime :
          Held(first, k, count, t)
    BY DEF FuInv, FuHeld
  <2>2. t <= camera.latest /\ (camera.hole => t # camera.latest - 1)
        /\ t \in Nat
    BY <2>1, DepayloaderAssumption DEF Held
  <2>3. /\ t # camera'.at /\ t <= camera'.latest
        /\ camera'.hole => t # camera'.latest - 1
    BY <1>2, <1>3, <2>2
  <2>4. Held(first, k, count, t)'
    BY <1>1, <2>1, <2>3 DEF Held
  <2> QED BY <2>4 DEF FuHeld
<1> QED BY <1>1, <1>4 DEF FuInv, TrackType, OutGood

\* The fields of the camera that a packet leaves alone.
LEMMA NoUnitSent ==
  ASSUME CameraInv, SendStep(NoUnit)
  PROVE  /\ camera'.since = camera.since /\ camera'.at = camera.at
         /\ camera'.latest = camera.latest /\ camera'.hole = camera.hole
         /\ camera'.sent = camera.sent + 1
BY DEF SendStep, NoUnit, CameraInv, Cameras

LEMMA UnitsSent ==
  ASSUME CameraInv, FuInv, Video, camera.part = camera.count,
         NEW p, Stamped(p), p.kind \in {"single", "aggregate", "unsupported"},
         Units(p), Send(p, NoUnit)
  PROVE  FuInv'
<1>1. SendStep(NoUnit) /\ (Feed(p) \/ Miss)
  BY SendsNext DEF Send
<1>2. camera.sent - camera.since < MaxBurst
  BY <1>1 DEF SendStep
<1> QED BY <1>1, <1>2, NoUnitSent, UnitsStep, MissedStep

LEMMA AggregateLengths ==
  ASSUME NEW types \in Aggregates PROVE \E n \in Nat : DOMAIN types = 1..n
<1>1. CASE types = <<"vps", "sps", "pps">>
  <2>1. DOMAIN types = 1..3
    BY <1>1
  <2> QED BY <2>1
<1>2. CASE types = <<"sps", "pps">>
  <2>1. DOMAIN types = 1..2
    BY <1>2
  <2> QED BY <2>1
<1>3. CASE types = <<"vps", "sps", "pps">> \o <<"sei", "key">>
  <2>1. DOMAIN types = 1..5
    BY <1>3
  <2> QED BY <2>1
<1>4. CASE types = <<"sps", "pps">> \o <<"sei", "key">>
  <2>1. DOMAIN types = 1..4
    BY <1>4
  <2> QED BY <2>1
<1> QED BY <1>1, <1>2, <1>3, <1>4 DEF Aggregates

LEMMA FuStep == CameraInv /\ NotSetUp /\ FuInv /\ [Next]_vars => FuInv'
<1> SUFFICES ASSUME CameraInv, NotSetUp, FuInv, [Next]_vars PROVE FuInv'
  OBVIOUS
<1>1. CASE SendSingle
  <2>1. PICK type \in SetsOf(codec) \cup Singles :
          Send(Packet("single", <<Nal(type)>>), NoUnit)
    BY <1>1, Zenon DEF SendSingle
  <2> DEFINE p == Packet("single", <<Nal(type)>>)
  <2>2. Stamped(p) /\ p.kind = "single" /\ p.nals = <<Nal(type)>>
    BY PacketStamped
  <2>3. Units(p)
    <3>1. DOMAIN <<Nal(type)>> = 1..1
      OBVIOUS
    <3> QED BY <2>2, <3>1 DEF Units
  <2> HIDE DEF p
  <2> QED BY <1>1, <2>1, <2>2, <2>3, UnitsSent DEF SendSingle, BetweenUnits, p
<1>2. CASE SendAggregate
  <2>1. PICK types \in Aggregates :
          Send(Packet("aggregate", [i \in DOMAIN types |-> Nal(types[i])]), NoUnit)
    BY <1>2, Zenon DEF SendAggregate
  <2>2. \E n \in Nat : DOMAIN types = 1..n
    BY AggregateLengths
  <2> DEFINE nals == [i \in DOMAIN types |-> Nal(types[i])]
             p == Packet("aggregate", nals)
  <2>3. Stamped(p) /\ p.kind = "aggregate" /\ p.nals = nals
    BY PacketStamped
  <2>4. Units(p)
    <3>1. DOMAIN nals = DOMAIN types
      OBVIOUS
    <3> HIDE DEF nals
    <3> QED BY <2>2, <2>3, <3>1 DEF Units
  <2>5. Send(p, NoUnit)
    BY <2>1
  <2> HIDE DEF p, nals
  <2> QED BY <1>2, <2>3, <2>4, <2>5, UnitsSent DEF SendAggregate, BetweenUnits
<1>3. CASE SendUnsupported
  <2>1. Send(Packet("unsupported", <<>>), NoUnit)
    BY <1>3, Zenon DEF SendUnsupported
  <2> DEFINE p == Packet("unsupported", <<>>)
  <2>2. Stamped(p) /\ p.kind = "unsupported" /\ p.nals = <<>>
    BY PacketStamped
  <2>3. Units(p)
    <3>1. DOMAIN <<>> = 1..0 /\ 0 \in Nat
      OBVIOUS
    <3> QED BY <2>2, <3>1, Zenon DEF Units
  <2> HIDE DEF p
  <2> QED BY <1>3, <2>1, <2>2, <2>3, UnitsSent
          DEF SendUnsupported, BetweenUnits, p
<1>4. CASE StartUnit
  <2> DEFINE begun(n) == [camera EXCEPT !.nal = Nal("inter"),
                            !.first = camera.sent, !.part = 1, !.count = n]
             p(n) == [Packet("fragment", <<begun(n).nal>>) EXCEPT
                        !.first = begun(n).first, !.part = 1, !.count = n]
  <2>1. PICK n \in 2..MaxParts : Send(p(n), begun(n))
    BY <1>4, Zenon DEF StartUnit
  <2>2. /\ Stamped(p(n)) /\ p(n).kind = "fragment" /\ p(n).first = camera.sent
        /\ p(n).part = 1 /\ p(n).count = n /\ p(n).nals[1] = Nal("inter")
    BY DEF Packet, Stamped, CameraInv, Cameras
  <2>3. Nal("inter") \in NalType
    <3>1. camera.config \in Nat
      BY DEF CameraInv, Cameras
    <3> QED BY <3>1, Zenon DEF Nal, NalType
  <2>4. n \in Nat /\ 2 <= n
    BY DepayloaderAssumption
  <2>5. CASE Feed(p(n)) /\ camera' = [begun(n) EXCEPT !.sent = @ + 1]
    <3> HIDE DEF p
    <3> QED BY <1>4, <2>2, <2>3, <2>4, <2>5, StartStep DEF StartUnit
  <2>6. CASE Miss /\ camera' = [begun(n) EXCEPT !.sent = @ + 1, !.missed = @ + 1]
    <3>1. /\ camera'.since = camera.since /\ camera'.at = camera.at
          /\ camera'.latest = camera.latest /\ camera'.hole = camera.hole
          /\ camera'.sent = camera.sent + 1
      BY <2>6 DEF CameraInv, Cameras
    <3> QED BY <2>6, <3>1, MissedStep
  <2> HIDE DEF p, begun
  <2> QED BY <2>1, <2>5, <2>6 DEF Send
<1>5. CASE ContinueUnit
  <2> DEFINE next == [camera EXCEPT !.part = @ + 1]
             p == [Packet("fragment", <<camera.nal>>) EXCEPT !.part = next.part]
  <2>1. Send(p, next) /\ camera.part < camera.count /\ Playing
    <3>1. Send(p, next) /\ camera.part < camera.count
      BY <1>5, Zenon DEF ContinueUnit
    <3>2. Playing
      BY <3>1 DEF NotSetUp, Playing
    <3> QED BY <3>1, <3>2
  <2>2. /\ Stamped(p) /\ p.kind = "fragment" /\ p.first = camera.first
        /\ p.part = camera.part + 1 /\ p.count = camera.count
    BY DEF Packet, Stamped, CameraInv, Cameras
  <2>3. camera.sent - camera.since < MaxBurst
    BY <2>1, Zenon DEF Send
  <2>4. camera'.since = camera.since /\ camera'.at = camera.at
        /\ camera'.latest = camera.latest /\ camera'.hole = camera.hole
        /\ camera'.sent = camera.sent + 1
    <3>1. SendStep(next)
      BY <2>1, SendsNext
    <3> QED BY <3>1 DEF SendStep, CameraInv, Cameras
  <2>5. CASE Miss
    BY <2>4, <2>5, MissedStep
  <2>6. CASE Feed(p) /\ Video /\ camera' = [next EXCEPT !.sent = @ + 1]
    <3> HIDE DEF p
    <3> QED BY <2>1, <2>2, <2>3, <2>6, ContinueStep
  <2>7. CASE Feed(p) /\ ~Video
    <3> HIDE DEF p
    <3> QED BY <2>1, <2>2, <2>4, <2>7, OtherStep
  <2> HIDE DEF p, next
  <2> QED BY <2>1, <2>5, <2>6, <2>7 DEF Send
<1>6. CASE SendSound
  <2>1. PICK n \in 1..2 : Send([Packet("sound", <<>>) EXCEPT !.units = n], NoUnit)
    BY <1>6, Zenon DEF SendSound
  <2> DEFINE p == [Packet("sound", <<>>) EXCEPT !.units = n]
  <2>2. SendStep(NoUnit) /\ (Feed(p) \/ Miss) /\ Stamped(p)
    BY <2>1, SendsNext, PacketStamped DEF Send
  <2> HIDE DEF p
  <2> QED BY <1>6, <2>2, NoUnitSent, OtherStep, MissedStep DEF SendSound
<1>7. CASE SendEmpty
  <2> DEFINE p == Packet("empty", <<>>)
  <2>1. Feed(p) /\ Stamped(p) /\ p.kind = "empty" /\ Playing
    BY <1>7, PacketStamped, Zenon DEF SendEmpty, BetweenUnits
  <2>2. camera' = [NoUnit EXCEPT !.sent = @ + 1, !.missed = @ + 1]
    BY <1>7, Zenon DEF SendEmpty
  <2>3. camera'.since = camera.since /\ camera'.at = camera.at
        /\ camera'.latest = camera.latest /\ camera'.hole = camera.hole
        /\ camera'.sent = camera.sent + 1
    BY <2>2 DEF NoUnit, CameraInv, Cameras
  <2> HIDE DEF p
  <2> QED BY <2>1, <2>3, OtherStep
<1>8. CASE NextPicture
  BY <1>8, PictureStep
<1>9. CASE Reconfigure
  <2>1. fu' = fu /\ lastSeq' = lastSeq /\ out' = <<>>
        /\ camera.part = camera.count
    BY <1>9 DEF Reconfigure, trackVars, BetweenUnits
  <2>2. camera'.since = camera.since /\ camera'.at = camera.at
        /\ camera'.latest = camera.latest /\ camera'.hole = camera.hole
        /\ camera'.sent = camera.sent
    BY <1>9 DEF Reconfigure, NoUnit, CameraInv, Cameras
  <2>3. FuHeld'
    <3> SUFFICES ASSUME fu.started, fu.inStep PROVE FuHeld'
      BY <2>1 DEF FuHeld
    <3>1. PICK first \in Nat, k \in Nat, count \in Nat, t \in 0..MaxTime :
            Held(first, k, count, t)
      BY DEF FuInv, FuHeld
    <3>2. t = camera.at => camera.sent # first + k
      BY <2>1, <3>1 DEF Held
    <3>3. Held(first, k, count, t)'
      BY <2>1, <2>2, <3>1, <3>2 DEF Held
    <3> QED BY <3>3 DEF FuHeld
  <2> QED BY <2>1, <2>3 DEF FuInv, TrackType, OutGood
<1>10. CASE UNCHANGED <<camera, fu, lastSeq, out>>
  <2>1. fu' = fu /\ lastSeq' = lastSeq /\ out' = out /\ camera' = camera
    BY <1>10
  <2>2. FuHeld'
    <3> SUFFICES ASSUME fu.started, fu.inStep PROVE FuHeld'
      BY <2>1 DEF FuHeld
    <3>1. PICK first \in Nat, k \in Nat, count \in Nat, t \in 0..MaxTime :
            Held(first, k, count, t)
      BY DEF FuInv, FuHeld
    <3>2. Held(first, k, count, t)'
      BY <2>1, <3>1 DEF Held
    <3> QED BY <3>2 DEF FuHeld
  <2> QED BY <2>1, <2>2 DEF FuInv, TrackType, OutGood
<1>11. ReadLine \/ SetupTrack \/ UNCHANGED vars
         => UNCHANGED <<camera, fu, lastSeq, out>>
  BY DEF ReadLine, SetupTrack, vars, trackVars, mediaVars
<1> QED BY <1>1, <1>2, <1>3, <1>4, <1>5, <1>6, <1>7, <1>8, <1>9, <1>10,
           <1>11 DEF Next

\* WholeIfInStep: no losses, no order of packets and no gap that is taken
\* for none makes _handleFuA join fragments of two units, or leave one out,
\* once the first fragment arrived in step.
THEOREM UnitsAreWhole == Spec => []WholeIfInStep
<1> DEFINE IInv == CameraInv /\ NotSetUp /\ FuInv
<1>1. Init => IInv
  BY CameraInit, NotSetUpInit, FuInit
<1>2. IInv /\ [Next]_vars => IInv'
  BY CameraStep, NotSetUpStep, FuStep
<1>3. IInv => WholeIfInStep
  BY DEF FuInv, OutGood, GoodPacket, GoodUnit, WholeIfInStep, NalsOut
<1> QED BY <1>1, <1>2, <1>3, PTL DEF Spec

(***************************************************************************)
(* The moves of the camera, with what is fed to the track.                 *)
(***************************************************************************)

\* The camera goes on by one packet, within its picture.
Onward ==
  /\ camera.sent - camera.since < MaxBurst
  /\ camera'.sent = camera.sent + 1
  /\ camera'.since = camera.since /\ camera'.at = camera.at
  /\ camera'.latest = camera.latest /\ camera'.hole = camera.hole
  /\ camera'.config = camera.config
Leaves == camera'.part = 0 /\ camera'.count = 0
Begins(n) ==
  /\ camera'.first = camera.sent /\ camera'.part = 1 /\ camera'.count = n
  /\ camera'.nal = Nal("inter")
Continues ==
  /\ camera.part < camera.count
  /\ camera'.part = camera.part + 1 /\ camera'.count = camera.count
  /\ camera'.first = camera.first /\ camera'.nal = camera.nal

\* Units of the present configuration, of which the track takes the first
\* or all.
OfConfig(p) ==
  /\ Units(p) /\ \A i \in DOMAIN p.nals : p.nals[i].config = camera.config
  /\ p.kind = "single" => 1 \in DOMAIN p.nals /\ DOMAIN p.nals = {1}

UnitsFed(p) ==
  /\ Video /\ camera.part = camera.count
  /\ Stamped(p) /\ p.kind \in {"single", "aggregate", "unsupported"}
  /\ OfConfig(p) /\ (p.kind = "unsupported" => p.nals = <<>>)
  /\ Feed(p) /\ Onward /\ Leaves

FirstFed(p, n) ==
  /\ Video /\ n \in Nat /\ 2 <= n
  /\ Stamped(p) /\ p.kind = "fragment" /\ p.nals = <<Nal("inter")>>
  /\ p.first = camera.sent /\ p.part = 1 /\ p.count = n
  /\ Feed(p) /\ Onward /\ Begins(n)

NextFed(p) ==
  /\ Playing
  /\ Stamped(p) /\ p.kind = "fragment" /\ p.nals = <<camera.nal>>
  /\ p.first = camera.first /\ p.part = camera.part + 1
  /\ p.count = camera.count
  /\ Feed(p) /\ Onward /\ Continues

OtherFed(p) ==
  /\ Playing /\ (Video => p.kind = "empty") /\ Stamped(p) /\ p.nals = <<>>
  /\ Feed(p) /\ camera'.sent = camera.sent + 1
  /\ camera'.since = camera.since /\ camera'.at = camera.at
  /\ camera'.latest = camera.latest /\ camera'.hole = camera.hole
  /\ camera'.config = camera.config /\ Leaves

Missed ==
  /\ Playing /\ Miss /\ Onward
  /\ \/ Leaves
     \/ Video /\ \E n \in Nat : 2 <= n /\ Begins(n)
     \/ Continues

\* Sending p with `next` afterwards.
LEMMA SendMoves ==
  ASSUME CameraInv, NEW p, NEW next \in Cameras, Send(p, next),
         next.sent = camera.sent, next.since = camera.since,
         next.at = camera.at, next.latest = camera.latest,
         next.hole = camera.hole, next.config = camera.config
  PROVE  /\ Onward /\ (Feed(p) \/ Miss)
         /\ camera'.part = next.part /\ camera'.count = next.count
         /\ camera'.first = next.first /\ camera'.nal = next.nal
<1>1. /\ camera.sent - camera.since < MaxBurst /\ (Feed(p) \/ Miss)
      /\ \/ camera' = [next EXCEPT !.sent = @ + 1]
         \/ camera' = [next EXCEPT !.sent = @ + 1, !.missed = @ + 1]
  BY Zenon DEF Send
<1> QED BY <1>1 DEF Onward, Cameras

LEMMA NoUnitFields ==
  ASSUME CameraInv
  PROVE  /\ NoUnit \in Cameras
         /\ NoUnit.sent = camera.sent /\ NoUnit.since = camera.since
         /\ NoUnit.at = camera.at /\ NoUnit.latest = camera.latest
         /\ NoUnit.hole = camera.hole /\ NoUnit.config = camera.config
         /\ NoUnit.part = 0 /\ NoUnit.count = 0
<1>1. NoUnit \in Cameras
  BY NoUnitType
<1> QED BY <1>1 DEF NoUnit, CameraInv, Cameras

LEMMA NoUnitMoves ==
  ASSUME CameraInv, NEW p, Send(p, NoUnit)
  PROVE  Onward /\ Leaves /\ (Feed(p) \/ Miss)
BY NoUnitFields, SendMoves DEF Leaves

LEMMA AggregateConfig ==
  ASSUME NEW types, \E n \in Nat : DOMAIN types = 1..n,
         NEW p, p.nals = [i \in DOMAIN types |-> Nal(types[i])],
         p.kind = "aggregate"
  PROVE  OfConfig(p)
<1>1. DOMAIN p.nals = DOMAIN types
  OBVIOUS
<1>2. \A i \in DOMAIN p.nals : p.nals[i].config = camera.config
  BY <1>1 DEF Nal
<1> QED BY <1>1, <1>2 DEF OfConfig, Units

LEMMA Moves ==
  ASSUME CameraInv, NotSetUp, Next
  PROVE  \/ \E p : UnitsFed(p) \/ NextFed(p) \/ OtherFed(p)
         \/ \E p, n : FirstFed(p, n)
         \/ Missed \/ NextPicture \/ Reconfigure \/ ReadLine \/ SetupTrack
<1>1. CASE SendSingle
  <2>1. PICK type \in SetsOf(codec) \cup Singles :
          Send(Packet("single", <<Nal(type)>>), NoUnit)
    BY <1>1, Zenon DEF SendSingle
  <2> DEFINE p == Packet("single", <<Nal(type)>>)
  <2>2. Stamped(p) /\ p.kind = "single" /\ p.nals = <<Nal(type)>>
    BY PacketStamped
  <2>3. OfConfig(p)
    <3>1. DOMAIN <<Nal(type)>> = 1..1 /\ 1..1 = {1} /\ 1 \in Nat
      OBVIOUS
    <3>2. <<Nal(type)>>[1].config = camera.config
      BY DEF Nal
    <3> HIDE DEF p
    <3> QED BY <2>2, <3>1, <3>2, Zenon DEF OfConfig, Units
  <2>4. Onward /\ Leaves /\ (Feed(p) \/ Miss)
    BY <2>1, NoUnitMoves
  <2> HIDE DEF p
  <2>5. Video /\ BetweenUnits
    BY <1>1 DEF SendSingle
  <2> QED BY <2>2, <2>3, <2>4, <2>5, Zenon
          DEF UnitsFed, Missed, BetweenUnits
<1>2. CASE SendAggregate
  <2>1. PICK types \in Aggregates :
          Send(Packet("aggregate", [i \in DOMAIN types |-> Nal(types[i])]), NoUnit)
    BY <1>2, Zenon DEF SendAggregate
  <2> DEFINE nals == [i \in DOMAIN types |-> Nal(types[i])]
             p == Packet("aggregate", nals)
  <2>2. Stamped(p) /\ p.kind = "aggregate" /\ p.nals = nals
    BY PacketStamped
  <2>3. OfConfig(p)
    <3> HIDE DEF p
    <3> QED BY <2>2, AggregateLengths, AggregateConfig
  <2>4. Onward /\ Leaves /\ (Feed(p) \/ Miss)
    BY <2>1, NoUnitMoves
  <2> HIDE DEF p, nals
  <2>5. Video /\ BetweenUnits
    BY <1>2 DEF SendAggregate
  <2> QED BY <2>2, <2>3, <2>4, <2>5, Zenon
          DEF UnitsFed, Missed, BetweenUnits
<1>3. CASE SendUnsupported
  <2> DEFINE p == Packet("unsupported", <<>>)
  <2>1. Send(p, NoUnit)
    BY <1>3, Zenon DEF SendUnsupported
  <2>2. Stamped(p) /\ p.kind = "unsupported" /\ p.nals = <<>>
    BY PacketStamped
  <2>3. OfConfig(p)
    <3>1. DOMAIN <<>> = 1..0 /\ 0 \in Nat /\ 1..0 = {}
      OBVIOUS
    <3> HIDE DEF p
    <3> QED BY <2>2, <3>1 DEF OfConfig, Units
  <2>4. Onward /\ Leaves /\ (Feed(p) \/ Miss)
    BY <2>1, NoUnitMoves
  <2> HIDE DEF p
  <2>5. Video /\ BetweenUnits
    BY <1>3 DEF SendUnsupported
  <2> QED BY <2>2, <2>3, <2>4, <2>5, Zenon
          DEF UnitsFed, Missed, BetweenUnits
<1>4. CASE StartUnit
  <2> DEFINE begun(n) == [camera EXCEPT !.nal = Nal("inter"),
                            !.first = camera.sent, !.part = 1, !.count = n]
             p(n) == [Packet("fragment", <<begun(n).nal>>) EXCEPT
                        !.first = begun(n).first, !.part = 1, !.count = n]
  <2>1. PICK n \in 2..MaxParts : Send(p(n), begun(n))
    BY <1>4, Zenon DEF StartUnit
  <2>2. n \in Nat /\ 2 <= n
    BY DepayloaderAssumption
  <2>3. /\ Stamped(p(n)) /\ p(n).kind = "fragment" /\ p(n).first = camera.sent
        /\ p(n).part = 1 /\ p(n).count = n /\ p(n).nals = <<Nal("inter")>>
    BY DEF Packet, Stamped, CameraInv, Cameras
  <2>4. begun(n) \in Cameras
    <3>1. /\ Nal("inter") \in NalType /\ camera.sent \in Nat /\ 1 \in Nat
      <4>1. camera.config \in Nat /\ camera.sent \in Nat
        BY DEF CameraInv, Cameras
      <4>2. Nal("inter") \in NalType
        BY <4>1, Zenon DEF Nal, NalType
      <4> QED BY <4>1, <4>2
    <3> QED BY <2>2, <3>1, Zenon DEF CameraInv, Cameras
  <2>5. /\ begun(n).sent = camera.sent /\ begun(n).since = camera.since
        /\ begun(n).at = camera.at /\ begun(n).latest = camera.latest
        /\ begun(n).hole = camera.hole /\ begun(n).config = camera.config
        /\ begun(n).first = camera.sent /\ begun(n).part = 1
        /\ begun(n).count = n /\ begun(n).nal = Nal("inter")
    BY DEF CameraInv, Cameras
  <2> HIDE DEF p, begun
  <2>6. Onward /\ Begins(n) /\ (Feed(p(n)) \/ Miss)
    BY <2>1, <2>4, <2>5, SendMoves DEF Begins
  <2>7. Video
    BY <1>4 DEF StartUnit
  <2>8. CASE Feed(p(n))
    BY <2>2, <2>3, <2>6, <2>7, <2>8, Zenon DEF FirstFed
  <2>9. CASE Miss
    BY <2>2, <2>6, <2>7, <2>9, Zenon DEF Missed, Video
  <2> QED BY <2>6, <2>8, <2>9
<1>5. CASE ContinueUnit
  <2> DEFINE next == [camera EXCEPT !.part = @ + 1]
             p == [Packet("fragment", <<camera.nal>>) EXCEPT !.part = next.part]
  <2>1. Send(p, next) /\ camera.part < camera.count /\ Playing
    <3>1. Send(p, next) /\ camera.part < camera.count
      BY <1>5, Zenon DEF ContinueUnit
    <3>2. Playing
      BY <3>1 DEF NotSetUp, Playing
    <3> QED BY <3>1, <3>2
  <2>2. /\ Stamped(p) /\ p.kind = "fragment" /\ p.first = camera.first
        /\ p.part = camera.part + 1 /\ p.count = camera.count
        /\ p.nals = <<camera.nal>>
    BY DEF Packet, Stamped, CameraInv, Cameras
  <2>3. /\ next \in Cameras
        /\ next.sent = camera.sent /\ next.since = camera.since
        /\ next.at = camera.at /\ next.latest = camera.latest
        /\ next.hole = camera.hole /\ next.config = camera.config
        /\ next.first = camera.first /\ next.part = camera.part + 1
        /\ next.count = camera.count /\ next.nal = camera.nal
    BY DEF CameraInv, Cameras
  <2> HIDE DEF p, next
  <2>4. Onward /\ Continues /\ (Feed(p) \/ Miss)
    BY <2>1, <2>3, SendMoves DEF Continues
  <2> QED BY <2>1, <2>2, <2>4, Zenon DEF NextFed, Missed
<1>6. CASE SendSound
  <2>1. PICK n \in 1..2 : Send([Packet("sound", <<>>) EXCEPT !.units = n], NoUnit)
    BY <1>6, Zenon DEF SendSound
  <2> DEFINE p == [Packet("sound", <<>>) EXCEPT !.units = n]
  <2>2. Stamped(p) /\ p.nals = <<>>
    BY DEF Packet, Stamped
  <2> HIDE DEF p
  <2>3. Onward /\ Leaves /\ (Feed(p) \/ Miss)
    BY <2>1, NoUnitMoves DEF p
  <2>4. Playing /\ ~Video
    BY <1>6 DEF SendSound
  <2> QED BY <2>2, <2>3, <2>4, Zenon DEF OtherFed, Missed, Onward
<1>7. CASE SendEmpty
  <2> DEFINE p == Packet("empty", <<>>)
  <2>1. Feed(p) /\ Stamped(p) /\ p.kind = "empty" /\ p.nals = <<>> /\ Playing
    <3>1. Feed(p) /\ Playing
      BY <1>7, Zenon DEF SendEmpty, BetweenUnits
    <3> QED BY <3>1, PacketStamped
  <2>2. camera' = [NoUnit EXCEPT !.sent = @ + 1, !.missed = @ + 1]
    BY <1>7, Zenon DEF SendEmpty
  <2>3. /\ camera'.since = camera.since /\ camera'.at = camera.at
        /\ camera'.latest = camera.latest /\ camera'.hole = camera.hole
        /\ camera'.sent = camera.sent + 1 /\ camera'.config = camera.config
        /\ Leaves
    BY <2>2, NoUnitFields DEF Cameras, Leaves
  <2> HIDE DEF p
  <2> QED BY <2>1, <2>3, Zenon DEF OtherFed
<1> QED BY <1>1, <1>2, <1>3, <1>4, <1>5, <1>6, <1>7, Zenon DEF Next

(***************************************************************************)
(* After a loss.                                                           *)
(***************************************************************************)

\* Before it is set up, a media has seen nothing.
Unused ==
  ~Playing => /\ camera.config = 1 /\ camera.sent = 0
              /\ lastSeq = -1 /\ steady = 0 /\ ~fu.started

\* Only a video that is played is sent in fragments.
FragmentsOfVideo == camera.count > 0 => Video

\* The unit that is being sent.
UnitSent ==
  camera.part < camera.count =>
    camera.nal = Nal("inter") /\ camera.first < camera.sent

CameraUnit == Unused /\ FragmentsOfVideo /\ UnitSent

LEMMA CameraUnitInit == Init => CameraUnit
BY DEF Init, CameraUnit, Unused, FragmentsOfVideo, UnitSent, Playing,
       NoFragment

\* What a step leaves of the media.
LEMMA MediaKept ==
  ASSUME UNCHANGED mediaVars
  PROVE  /\ Playing' <=> Playing
         /\ Video' <=> Video
         /\ SetsOf(codec)' = SetsOf(codec)
BY DEF mediaVars, Playing, Video, SetsOf, TrackOf

LEMMA FeedKeeps ==
  ASSUME NEW p, Feed(p) PROVE UNCHANGED mediaVars
BY DEF Feed, Return

LEMMA PictureFields ==
  ASSUME CameraInv, NextPicture
  PROVE  /\ camera'.part = 0 /\ camera'.count = 0
         /\ camera'.config = camera.config /\ camera'.sent = camera.sent
         /\ camera'.since = camera.sent
BY NoUnitFields DEF NextPicture, Cameras

LEMMA ReconfigureFields ==
  ASSUME CameraInv, Reconfigure
  PROVE  /\ camera'.part = 0 /\ camera'.count = 0
         /\ camera'.config = camera.config + 1 /\ camera'.sent = camera.sent
         /\ camera'.since = camera.since /\ camera'.at = camera.at
         /\ camera'.latest = camera.latest /\ camera'.hole = camera.hole
BY NoUnitFields DEF Reconfigure, Cameras

LEMMA CameraUnitStep ==
  ASSUME CameraInv, NotSetUp, CameraUnit, [Next]_vars
  PROVE  CameraUnit'
<1>0. /\ camera.sent \in Nat /\ camera.part \in Nat /\ camera.count \in Nat
      /\ camera.first \in Nat
  BY DEF CameraInv, Cameras
<1>1. ASSUME NEW p, UnitsFed(p) \/ OtherFed(p) PROVE CameraUnit'
  <2>1. /\ Playing /\ UNCHANGED mediaVars /\ camera'.part = 0
        /\ camera'.count = 0
    BY <1>1, FeedKeeps, Zenon DEF UnitsFed, OtherFed, Leaves, Video
  <2> QED BY <2>1, MediaKept DEF CameraUnit, Unused, FragmentsOfVideo, UnitSent
<1>2. ASSUME NEW p, NEW n, FirstFed(p, n) PROVE CameraUnit'
  <2>1. /\ Video /\ UNCHANGED mediaVars /\ camera'.nal = Nal("inter")
        /\ camera'.sent = camera.sent + 1 /\ camera'.first = camera.sent
        /\ camera'.config = camera.config
    BY <1>2, FeedKeeps, Zenon DEF FirstFed, Begins, Onward
  <2>2. Nal("inter")' = Nal("inter")
    BY <2>1 DEF Nal
  <2>3. Video' /\ Playing'
    BY <2>1, MediaKept DEF Video
  <2> QED BY <1>0, <2>1, <2>2, <2>3 DEF CameraUnit, Unused, FragmentsOfVideo, UnitSent
<1>3. ASSUME NEW p, NextFed(p) PROVE CameraUnit'
  <2>1. /\ UNCHANGED mediaVars /\ camera'.nal = camera.nal
        /\ camera'.sent = camera.sent + 1 /\ camera'.first = camera.first
        /\ camera'.config = camera.config /\ camera.part < camera.count
        /\ camera'.count = camera.count
    BY <1>3, FeedKeeps, Zenon DEF NextFed, Continues, Onward
  <2>2. Nal("inter")' = Nal("inter")
    BY <2>1 DEF Nal
  <2>3. Video' /\ Playing'
    BY <1>0, <2>1, MediaKept DEF Video, CameraUnit, FragmentsOfVideo
  <2> QED BY <1>0, <2>1, <2>2, <2>3 DEF CameraUnit, Unused, FragmentsOfVideo, UnitSent
<1>4. CASE Missed
  <2>1. /\ UNCHANGED mediaVars /\ camera'.sent = camera.sent + 1
        /\ camera'.config = camera.config /\ Playing
    BY <1>4, Zenon DEF Missed, Miss, Onward
  <2>2. Nal("inter")' = Nal("inter")
    BY <2>1 DEF Nal
  <2>3. Playing' /\ (Video' <=> Video)
    BY <2>1, MediaKept
  <2>4. \/ camera'.part = 0 /\ camera'.count = 0
        \/ Video /\ camera'.nal = Nal("inter") /\ camera'.first = camera.sent
        \/ /\ camera'.nal = camera.nal /\ camera.part < camera.count
           /\ camera'.first = camera.first
    BY <1>4, Zenon DEF Missed, Leaves, Begins, Continues
  <2> QED BY <1>0, <2>1, <2>2, <2>3, <2>4
          DEF CameraUnit, Unused, FragmentsOfVideo, UnitSent
<1>5. CASE NextPicture
  <2>1. UNCHANGED mediaVars /\ Playing
    BY <1>5 DEF NextPicture, BetweenUnits
  <2> QED BY <1>5, <2>1, MediaKept, PictureFields
          DEF CameraUnit, Unused, FragmentsOfVideo, UnitSent
<1>6. CASE Reconfigure
  <2>1. UNCHANGED mediaVars /\ Playing
    BY <1>6 DEF Reconfigure, BetweenUnits
  <2> QED BY <1>6, <2>1, MediaKept, ReconfigureFields
          DEF CameraUnit, Unused, FragmentsOfVideo, UnitSent
<1>7. CASE ReadLine \/ SetupTrack
  <2>1. /\ camera' = camera /\ lastSeq' = lastSeq /\ steady' = steady
        /\ fu' = fu /\ ~Playing
    BY <1>7 DEF ReadLine, SetupTrack, trackVars, ghosts, Playing
  <2>2. camera.count = 0 /\ camera.part = 0
    BY <2>1 DEF NotSetUp, Playing
  <2> QED BY <2>1, <2>2 DEF CameraUnit, Unused, FragmentsOfVideo, UnitSent
<1>8. CASE UNCHANGED vars
  <2>1. /\ camera' = camera /\ lastSeq' = lastSeq /\ steady' = steady
        /\ fu' = fu /\ UNCHANGED mediaVars
    BY <1>8 DEF vars, trackVars, ghosts
  <2> QED BY <2>1, MediaKept
          DEF CameraUnit, Unused, FragmentsOfVideo, UnitSent, Nal
<1> QED BY <1>1, <1>2, <1>3, <1>4, <1>5, <1>6, <1>7, <1>8, Moves

\* The track is in step, or it is behind by more than the packets that were
\* received since the last that was missed.
Lag == (FirstSeq + (camera.sent - 1) - lastSeq) % SeqRange
Recovers ==
  Video =>
    /\ steady \in Nat /\ lastSeq \in -1..(SeqRange - 1)
    /\ steady >= 1 => /\ lastSeq >= 0
                      /\ Lag # 0 => steady < Lag /\ Lag < GapLimit

LEMMA RecoversInit == Init => Recovers
BY DepayloaderAssumption DEF Init, Recovers

\* One more packet: the distance grows by one, until it is a whole range.
LEMMA OneFurther ==
  ASSUME NEW R \in Int, R > 1, NEW x \in Int
  PROVE  (x + 1) % R = IF x % R = R - 1 THEN 0 ELSE (x % R) + 1
<1>1. PICK q \in Int, r \in Int : /\ r = x % R /\ r \in 0..(R - 1)
                                  /\ x = q * R + r
  BY ModDef
<1>2. CASE r = R - 1
  <2>1. x + 1 = (q + 1) * R + 0 /\ q + 1 \in Int /\ 0 \in 0..(R - 1)
    BY <1>1, <1>2
  <2> QED BY <1>1, <1>2, <2>1, Remainder
<1>3. CASE r # R - 1
  <2>1. /\ x + 1 = q * R + (r + 1) /\ r + 1 \in 0..(R - 1)
        /\ x + 1 \in Int
    BY <1>1, <1>3
  <2>2. (x + 1) % R = r + 1
    BY <2>1, Remainder
  <2> QED BY <1>1, <1>3, <2>2
<1> QED BY <1>1, <1>2, <1>3

\* The remainder of a difference is the one of the remainders.
LEMMA ModMinus ==
  ASSUME NEW R \in Int, R > 0, NEW x \in Int, NEW y \in Int
  PROVE  ((x % R) - y) % R = (x - y) % R
<1>1. PICK q \in Int, r \in Int : r = x % R /\ x = q * R + r
  BY ModDef
<1>2. PICK k \in Int, s \in Int : /\ s = (x - y) % R /\ s \in 0..(R - 1)
                                  /\ x - y = k * R + s
  <2>1. PICK z \in Int : z = x - y
    OBVIOUS
  <2>2. z % R \in 0..(R - 1) /\ z \div R \in Int /\ z = (z \div R) * R + (z % R)
    BY ModDef
  <2>3. z % R \in Int
    BY <2>2
  <2> QED BY <2>1, <2>2, <2>3
<1>3. r - y = (k - q) * R + s /\ k - q \in Int /\ r - y \in Int
  BY <1>1, <1>2
<1>4. (r - y) % R = s
  <2>1. PICK z \in Int, l \in Int : z = r - y /\ l = k - q /\ z = l * R + s
    BY <1>3
  <2>2. s \in 0..(R - 1)
    BY <1>2
  <2>3. z % R = s
    BY <2>1, <2>2, Remainder
  <2> QED BY <2>1, <2>3
<1> QED BY <1>1, <1>2, <1>4

LEMMA MinOfTwo ==
  ASSUME NEW a \in Int, NEW b \in Int
  PROVE  Min({a, b}) = IF a <= b THEN a ELSE b
<1> DEFINE m == IF a <= b THEN a ELSE b
<1>1. \A x \in {a, b} : (\A y \in {a, b} : x <= y) <=> x = m
  OBVIOUS
<1>2. m \in {a, b}
  OBVIOUS
<1> HIDE DEF m
<1>3. Min({a, b}) \in {a, b} /\ \A y \in {a, b} : Min({a, b}) <= y
  BY <1>1, <1>2, Zenon DEF Min
<1> QED BY <1>1, <1>3 DEF m

\* What a packet of video with a payload leaves.
LEMMA PayloadReturn ==
  ASSUME CameraInv, Video, Recovers, NEW p, Stamped(p), p.kind # "empty",
         NEW r, Return(p, r), camera'.sent = camera.sent + 1
  PROVE  /\ steady' \in Nat /\ steady' <= steady + 1
         /\ lastSeq' \in -1..(SeqRange - 1) /\ lastSeq' >= 0
         /\ Lag' # 0 => steady' < Lag' /\ Lag' < GapLimit
         /\ steady >= GapLimit - 1 => ~Gap(p.seq)
<1> DEFINE x == FirstSeq + (camera.sent - 1) - lastSeq
           D == (p.seq - lastSeq) % SeqRange
<1>1. /\ SeqRange \in Int /\ SeqRange > 2 /\ GapLimit \in Nat
      /\ GapLimit < SeqRange /\ GapLimit >= 2 /\ FirstSeq \in Int
      /\ MaxParts \in Nat /\ camera.sent \in Nat
      /\ steady \in Nat /\ lastSeq \in Int /\ x \in Int /\ Lag = x % SeqRange
      /\ lastSeq \in -1..(SeqRange - 1)
  BY DepayloaderAssumption DEF CameraInv, Cameras, Recovers, Lag
<1>2. steady' \in Nat /\ steady' <= steady + 1
  <2>1. steady' = Min({steady + 1, GapLimit + MaxParts})
    BY DEF Return
  <2>2. Min({steady + 1, GapLimit + MaxParts})
          = IF steady + 1 <= GapLimit + MaxParts THEN steady + 1
            ELSE GapLimit + MaxParts
    BY <1>1, MinOfTwo
  <2> QED BY <1>1, <2>1, <2>2
<1>3. lastSeq' = IF Gap(p.seq) THEN lastSeq ELSE p.seq
  BY DEF Return
<1>4. p.seq \in 0..(SeqRange - 1) /\ p.seq = (FirstSeq + camera.sent) % SeqRange
  BY <1>1, ModDef DEF Stamped
<1>5. D = (x + 1) % SeqRange
  <2>1. (FirstSeq + camera.sent) - lastSeq = x + 1 /\ FirstSeq + camera.sent \in Int
    BY <1>1
  <2>2. PICK a \in Int, y \in Int : a = FirstSeq + camera.sent /\ y = lastSeq
    BY <1>1
  <2>3. ((a % SeqRange) - y) % SeqRange = (a - y) % SeqRange
    <3>1. SeqRange > 0
      BY <1>1
    <3> QED BY <1>1, <3>1, ModMinus, Zenon
  <2>4. a - y = x + 1 /\ p.seq = a % SeqRange
    BY <1>4, <2>1, <2>2
  <2> HIDE DEF x
  <2> QED BY <2>2, <2>3, <2>4
<1>6. /\ x % SeqRange \in 0..(SeqRange - 1)
      /\ D = IF x % SeqRange = SeqRange - 1 THEN 0 ELSE (x % SeqRange) + 1
  <2>1. PICK z \in Int : z = x
    BY <1>1
  <2>2. SeqRange > 1 /\ SeqRange > 0
    BY <1>1
  <2>3. z % SeqRange \in 0..(SeqRange - 1)
    BY <1>1, <2>2, ModDef
  <2>4. (z + 1) % SeqRange = IF z % SeqRange = SeqRange - 1 THEN 0
                             ELSE (z % SeqRange) + 1
    BY <1>1, <2>2, OneFurther
  <2> HIDE DEF x, D
  <2> QED BY <1>5, <2>1, <2>3, <2>4
<1>7. CASE Gap(p.seq)
  <2>1. lastSeq >= 0 /\ D \in 2..(GapLimit - 1) /\ lastSeq' = lastSeq
    BY <1>3, <1>7 DEF Gap
  <2>2. Lag' = D
    <3>1. camera'.sent - 1 = camera.sent
      BY <1>1
    <3>2. FirstSeq + camera.sent - lastSeq = x + 1
      BY <1>1
    <3> QED BY <1>5, <2>1, <3>1, <3>2 DEF Lag
  <2>3. Lag = D - 1
    BY <1>1, <1>6, <2>1
  <2>4. (steady < Lag /\ Lag < GapLimit) \/ steady = 0
    BY <1>1, <2>1, <2>3 DEF Recovers
  <2> HIDE DEF D
  <2> QED BY <1>1, <1>2, <2>1, <2>2, <2>3, <2>4
<1>8. CASE ~Gap(p.seq)
  <2>1. lastSeq' = p.seq
    BY <1>3, <1>8
  <2>2. Lag' = 0
    <3>1. camera'.sent - 1 = camera.sent
      BY <1>1
    <3>2. Lag' = (FirstSeq + camera.sent - p.seq) % SeqRange
      BY <2>1, <3>1 DEF Lag
    <3>3. FirstSeq + camera.sent \in Int
      BY <1>1
    <3>4. PICK a \in Int, y \in Int : a = FirstSeq + camera.sent /\ y = p.seq
      BY <1>4, <3>3
    <3>5. ((a % SeqRange) - y) % SeqRange = (a - y) % SeqRange
      <4>1. SeqRange > 0
        BY <1>1
      <4> QED BY <1>1, <4>1, ModMinus, Zenon
    <3>6. (a % SeqRange) - y = 0 /\ 0 = 0 * SeqRange + 0 /\ 0 \in 0..(SeqRange - 1)
      BY <1>1, <1>4, <3>4
    <3>7. 0 % SeqRange = 0
      BY <1>1, <3>6, Remainder
    <3>8. (a - y) % SeqRange = 0
      BY <3>5, <3>6, <3>7
    <3>9. FirstSeq + camera.sent - p.seq = a - y
      BY <1>1, <1>4, <3>4
    <3> QED BY <3>2, <3>8, <3>9
  <2> QED BY <1>1, <1>2, <1>4, <1>8, <2>1, <2>2
<1> QED BY <1>7, <1>8

\* A packet without payload, or one that is missed, is not steady.
LEMMA RecoversStep ==
  ASSUME CameraInv, NotSetUp, CameraUnit, Recovers, [Next]_vars
  PROVE  Recovers'
<1>1. ASSUME NEW p, Stamped(p), Feed(p), Video, p.kind # "empty",
             camera'.sent = camera.sent + 1
      PROVE  Recovers'
  <2>1. PICK r : Return(p, r)
    BY <1>1 DEF Feed
  <2> QED BY <1>1, <2>1, PayloadReturn DEF Recovers
<1>2. ASSUME NEW p, NEW n, UnitsFed(p) \/ FirstFed(p, n) PROVE Recovers'
  <2>1. /\ Stamped(p) /\ Feed(p) /\ Video /\ p.kind # "empty"
        /\ camera'.sent = camera.sent + 1
    BY <1>2 DEF UnitsFed, FirstFed, Onward
  <2> QED BY <1>1, <2>1
<1>3. ASSUME NEW p, NextFed(p) PROVE Recovers'
  <2>1. /\ Stamped(p) /\ Feed(p) /\ p.kind # "empty"
        /\ camera'.sent = camera.sent + 1
    BY <1>3 DEF NextFed, Onward
  <2>2. Video
    <3>1. camera.part < camera.count /\ camera.part \in Nat /\ camera.count \in Nat
      BY <1>3 DEF NextFed, Continues, CameraInv, Cameras
    <3> QED BY <3>1 DEF CameraUnit, FragmentsOfVideo
  <2> QED BY <1>1, <2>1, <2>2
<1>4. ASSUME NEW p, OtherFed(p) PROVE Recovers'
  <2>1. /\ Feed(p) /\ UNCHANGED mediaVars /\ (Video => p.kind = "empty")
    BY <1>4, FeedKeeps, Zenon DEF OtherFed
  <2>2. Video => steady' = 0 /\ lastSeq' = lastSeq
    BY <2>1, Zenon DEF Feed, Return
  <2> QED BY <2>1, <2>2, MediaKept DEF Recovers
<1>5. CASE Missed
  <2>1. UNCHANGED mediaVars /\ steady' = 0 /\ lastSeq' = lastSeq
    BY <1>5, Zenon DEF Missed, Miss, trackVars
  <2> QED BY <2>1, MediaKept DEF Recovers
<1>6. CASE NextPicture \/ Reconfigure \/ UNCHANGED vars
  <2>1. UNCHANGED mediaVars /\ steady' = steady /\ lastSeq' = lastSeq
    BY <1>6 DEF NextPicture, Reconfigure, vars, trackVars, ghosts
  <2>2. camera'.sent = camera.sent
    BY <1>6, PictureFields, ReconfigureFields DEF vars
  <2> QED BY <2>1, <2>2, MediaKept DEF Recovers, Lag
<1>7. CASE ReadLine \/ SetupTrack
  <2>1. steady' = steady /\ lastSeq' = lastSeq /\ ~Playing
    BY <1>7 DEF ReadLine, SetupTrack, trackVars, ghosts, Playing
  <2>2. steady = 0 /\ lastSeq = -1
    BY <2>1 DEF CameraUnit, Unused
  <2> QED BY <2>1, <2>2, DepayloaderAssumption DEF Recovers
<1> QED BY <1>2, <1>3, <1>4, <1>5, <1>6, <1>7, Moves

\* The first k fragments of a unit.
Parts(first, k, count) == [i \in 1..k |-> <<first, i, count>>]

LEMMA PartsGrow ==
  ASSUME NEW first \in Nat, NEW k \in Nat, NEW count \in Nat
  PROVE  Append(Parts(first, k, count), <<first, k + 1, count>>)
           = Parts(first, k + 1, count)
BY AppendPart DEF Parts

\* The unit that is being sent, if every fragment of it arrived after the
\* track was in step again.
UnitArrives ==
  camera.part < camera.count /\ steady >= GapLimit - 1 + camera.part =>
    /\ fu.started /\ fu.ts = (FirstTs + camera.at) % TsRange
    /\ fu.parts = Parts(camera.first, camera.part, camera.count)

ComesBack == UnitArrives /\ FragmentsComeBack

LEMMA ComesBackInit == Init => ComesBack
BY DEF Init, ComesBack, UnitArrives, FragmentsComeBack

\* p is the last fragment of the unit that f holds.
Completes(p, f) ==
  /\ p.kind = "fragment" /\ f.started /\ p.ts = f.ts
  /\ p.first \in Nat /\ p.count \in Nat /\ 2 <= p.count /\ p.part = p.count
  /\ f.parts = Parts(p.first, p.count - 1, p.count)

\* The unit p completes.
Completed(p, f) ==
  Unit(f.nal, Append(f.parts, <<p.first, p.part, p.count>>), f.inStep)

LEMMA CompletedWhole ==
  ASSUME NEW p, NEW f, Completes(p, f) PROVE Whole(Completed(p, f))
<1>1. PICK k \in Nat, n \in Nat, b \in Nat :
        k = p.count - 1 /\ n = k + 1 /\ n = p.count /\ b = p.first
  BY DEF Completes
<1>2. Append(f.parts, <<p.first, p.part, p.count>>) = Parts(b, n, n)
  <2>1. Append(Parts(b, k, n), <<b, k + 1, n>>) = Parts(b, k + 1, n)
    BY PartsGrow
  <2> QED BY <1>1, <2>1 DEF Completes
<1>3. Whole(Unit(f.nal, Parts(b, n, n), f.inStep))
  <2>1. n >= 1
    BY <1>1
  <2> QED BY <2>1, WholeParts DEF Parts
<1> QED BY <1>2, <1>3 DEF Completed

LEMMA UnitEnds ==
  ASSUME NEW p, NEW h, NEW f, Completes(p, f)
  PROVE  HandleFuA(p, h, f).out
           = Append(Pending(h), NalPacket(<<Completed(p, f)>>))
BY DEF HandleFuA, Result, Completes, Completed

\* The packet a is among those of s.
Among(a, s) == \E i \in DOMAIN s : s[i] = a

LEMMA AppendLast ==
  ASSUME NEW s, GoodSeq(s), NEW a PROVE Among(a, Append(s, a))
<1>1. PICK T : T = {s[i] : i \in DOMAIN s} \cup {a}
  OBVIOUS
<1>2. s \in Seq(T) /\ a \in T
  <2>1. {s[i] : i \in DOMAIN s} \subseteq T
    BY <1>1
  <2> QED BY <1>1, <2>1 DEF GoodSeq
<1>3. /\ Append(s, a) \in Seq(T) /\ Len(Append(s, a)) = Len(s) + 1
      /\ Append(s, a)[Len(s) + 1] = a /\ Len(s) \in Nat
  BY <1>2
<1> QED BY <1>3 DEF Among

LEMMA ConcatLast ==
  ASSUME NEW s, NEW t, GoodSeq(s), GoodSeq(t), NEW a, Among(a, t)
  PROVE  Among(a, s \o t)
<1>1. PICK U : U = {s[i] : i \in DOMAIN s} \cup {t[i] : i \in DOMAIN t}
  OBVIOUS
<1>2. s \in Seq(U) /\ t \in Seq(U)
  <2>1. {s[i] : i \in DOMAIN s} \subseteq U /\ {t[i] : i \in DOMAIN t} \subseteq U
    BY <1>1
  <2> QED BY <2>1 DEF GoodSeq
<1>3. PICK i \in DOMAIN t : t[i] = a
  BY DEF Among
<1>4. /\ s \o t \in Seq(U) /\ Len(s \o t) = Len(s) + Len(t)
      /\ Len(s) \in Nat /\ i \in 1..Len(t) /\ Len(t) \in Nat
      /\ \A j \in 1..Len(s \o t) :
           (s \o t)[j] = IF j <= Len(s) THEN s[j] ELSE t[j - Len(s)]
  BY <1>2
<1>5. Len(s) + i \in DOMAIN (s \o t) /\ (s \o t)[Len(s) + i] = a
  BY <1>3, <1>4
<1> QED BY <1>5 DEF Among

LEMMA EndReturned ==
  ASSUME NEW p, NEW h, NEW f, Completes(p, f)
  PROVE  /\ GoodSeq(HandleFuA(p, h, f).out)
         /\ Among(NalPacket(<<Completed(p, f)>>), HandleFuA(p, h, f).out)
<1>1. HandleFuA(p, h, f).out = Append(Pending(h), NalPacket(<<Completed(p, f)>>))
  BY UnitEnds
<1>2. GoodSeq(Pending(h))
  BY PendingGood
<1>3. Among(NalPacket(<<Completed(p, f)>>),
            Append(Pending(h), NalPacket(<<Completed(p, f)>>)))
  BY <1>2, AppendLast
<1>4. GoodSeq(HandleFuA(p, h, f).out)
  <2>1. GoodUnit(Unit(f.nal, Append(f.parts, <<p.first, p.part, p.count>>), f.inStep))
    BY CompletedWhole DEF GoodUnit, Completed
  <2>2. EndsGood(p, f)
    BY <2>1 DEF EndsGood
  <2> QED BY <2>2, FragmentHandled
<1> QED BY <1>1, <1>3, <1>4

\* It is broadcast.
LEMMA EndBroadcast ==
  ASSUME Video, NEW p, Return(p, Fed(p)), Completes(p, FragmentsAfterGap(p))
  PROVE  (\E a \in NalsOut : Whole(a.units[1]))'
<1> DEFINE f == FragmentsAfterGap(p)
           a == NalPacket(<<Completed(p, f)>>)
<1>0. p.kind = "fragment" /\ p.kind # "empty"
  BY DEF Completes
<1>1. Among(a, Fed(p).out)
  <2>1. CASE Fed(p) = FeedH265(p)
    <3>1. Fed(p) = HandleFuA(p, header, f)
      BY <1>0, <2>1 DEF FeedH265, HandleFu
    <3> HIDE DEF f
    <3> QED BY <3>1, EndReturned DEF f
  <2>2. CASE Fed(p) = FeedH264(p)
    <3>1. PICK r : r = HandleFuA(p, Emitted(header), f)
      OBVIOUS
    <3>2. FeedH264(p) = [r EXCEPT !.out = Pending(header) \o @]
      BY <1>0, <3>1 DEF FeedH264
    <3>3. r = Result(r.header, r.fu, r.out)
      BY <3>1 DEF HandleFuA, Result
    <3>4. Fed(p).out = Pending(header) \o r.out
      BY <2>2, <3>2, <3>3 DEF Result
    <3>5. GoodSeq(r.out) /\ Among(a, r.out)
      <4> HIDE DEF f
      <4> QED BY <3>1, EndReturned DEF f
    <3>6. GoodSeq(Pending(header))
      BY PendingGood
    <3> HIDE DEF a
    <3>7. Among(a, Pending(header) \o r.out)
      BY <3>5, <3>6, ConcatLast
    <3> QED BY <3>4, <3>7
  <2> QED BY <1>0, <2>1, <2>2, FedVideo
<1>2. a.flags \in Frames /\ Whole(a.units[1])
  BY CompletedWhole DEF NalPacket, Frames
<1> HIDE DEF a, f
<1>3. a \in NalsOut'
  <2>1. PICK i \in DOMAIN Fed(p).out : Fed(p).out[i] = a
    BY <1>1 DEF Among
  <2>2. i \in DOMAIN out' /\ out'[i].packet = a
    BY <2>1 DEF Return
  <2> QED BY <1>2, <2>2 DEF NalsOut
<1> QED BY <1>2, <1>3 DEF Whole

LEMMA FirstArrives ==
  ASSUME CameraInv, FuInv, NEW p, NEW n, FirstFed(p, n)
  PROVE  UnitArrives'
<1>1. /\ Return(p, Fed(p)) /\ p.part = 1
      /\ p.first = camera.sent /\ p.count = n
      /\ p.ts = (FirstTs + camera.at) % TsRange
      /\ camera'.first = camera.sent /\ camera'.part = 1 /\ camera'.count = n
      /\ camera'.at = camera.at
  BY DEF FirstFed, Feed, Stamped, Onward, Begins
<1>2. Fed(p).fu = FragmentLeft(p, FragmentsAfterGap(p))
  <2>1. EndsGood(p, FragmentsAfterGap(p))
    BY <1>1 DEF EndsGood
  <2> QED BY <2>1, FedFragment DEF FirstFed
<1>3. fu'.started /\ fu'.ts = p.ts /\ fu'.parts = <<<<camera.sent, 1, n>>>>
  BY <1>1, <1>2 DEF FragmentLeft, Return
<1>4. <<<<camera.sent, 1, n>>>> = Parts(camera.sent, 1, n)
  <2>1. PICK first \in Nat : first = camera.sent
    BY DEF CameraInv, Cameras
  <2>2. <<<<first, 1, n>>>> = [i \in 1..1 |-> <<first, i, n>>]
    OBVIOUS
  <2> QED BY <2>1, <2>2 DEF Parts
<1> QED BY <1>1, <1>3, <1>4 DEF UnitArrives

LEMMA NextArrives ==
  ASSUME CameraInv, FuInv, CameraUnit, Recovers, ComesBack,
         NEW p, NextFed(p)
  PROVE  ComesBack'
<1>1. /\ Return(p, Fed(p)) /\ Stamped(p) /\ p.kind = "fragment"
      /\ p.first = camera.first /\ p.part = camera.part + 1
      /\ p.count = camera.count
      /\ p.ts = (FirstTs + camera.at) % TsRange
      /\ camera'.first = camera.first /\ camera'.part = camera.part + 1
      /\ camera'.count = camera.count /\ camera'.at = camera.at
      /\ camera'.sent = camera.sent + 1 /\ camera.part < camera.count
  BY DEF NextFed, Feed, Stamped, Onward, Continues
<1>2. /\ camera.part \in Nat /\ camera.count \in Nat /\ camera.first \in Nat
      /\ camera.part >= 1 /\ GapLimit \in Nat
  BY <1>1, DepayloaderAssumption DEF CameraInv, Cameras, Ordered
<1>3. Video
  BY <1>1, <1>2 DEF CameraUnit, FragmentsOfVideo
<1>4. /\ steady \in Nat /\ steady' \in Nat /\ steady' <= steady + 1
      /\ steady >= GapLimit - 1 => ~Gap(p.seq)
  <2>1. p.kind # "empty"
    BY <1>1
  <2>2. steady \in Nat
    BY <1>3 DEF Recovers
  <2>3. /\ steady' \in Nat /\ steady' <= steady + 1
        /\ steady >= GapLimit - 1 => ~Gap(p.seq)
    BY <1>1, <1>3, <2>1, PayloadReturn
  <2> QED BY <2>2, <2>3
<1>5. CASE steady < GapLimit - 1 + camera.part
  BY <1>1, <1>2, <1>4, <1>5 DEF ComesBack, UnitArrives, FragmentsComeBack
<1>6. CASE steady >= GapLimit - 1 + camera.part
  <2>1. /\ fu.started /\ fu.ts = p.ts
        /\ fu.parts = Parts(camera.first, camera.part, camera.count)
    BY <1>1, <1>6 DEF ComesBack, UnitArrives
  <2>2. ~Gap(p.seq)
    BY <1>2, <1>4, <1>6
  <2>3. FragmentsAfterGap(p) = fu
    BY <2>2 DEF FragmentsAfterGap
  <2>4. CASE camera.part + 1 = camera.count
    <3>1. camera.part = camera.count - 1
      BY <1>2, <2>4
    <3>2. Completes(p, fu)
      BY <1>1, <1>2, <2>1, <2>4, <3>1 DEF Completes
    <3>3. (\E a \in NalsOut : Whole(a.units[1]))'
      BY <1>1, <1>3, <2>3, <3>2, EndBroadcast
    <3>4. UnitArrives'
      BY <1>1, <1>2, <2>4 DEF UnitArrives
    <3> QED BY <3>3, <3>4 DEF ComesBack, FragmentsComeBack
  <2>5. CASE camera.part + 1 # camera.count
    <3>1. EndsGood(p, FragmentsAfterGap(p))
      BY <1>1, <2>5 DEF EndsGood
    <3>2. Fed(p).fu = FragmentLeft(p, fu)
      BY <1>1, <1>3, <2>3, <3>1, FedFragment
    <3>3. fu' = [fu EXCEPT !.parts =
                   Append(fu.parts, <<camera.first, camera.part + 1, camera.count>>)]
      <4>1. p.part # 1 /\ p.part # p.count
        BY <1>1, <1>2, <2>5
      <4> QED BY <1>1, <2>1, <3>2, <4>1 DEF FragmentLeft, Return
    <3>4. fu' = [fu EXCEPT !.parts = Parts(camera.first, camera.part + 1, camera.count)]
      <4>1. Append(Parts(camera.first, camera.part, camera.count),
                   <<camera.first, camera.part + 1, camera.count>>)
              = Parts(camera.first, camera.part + 1, camera.count)
        BY <1>2, PartsGrow, Zenon
      <4> QED BY <2>1, <3>3, <4>1
    <3>5. /\ fu'.started /\ fu'.ts = fu.ts
          /\ fu'.parts = Parts(camera.first, camera.part + 1, camera.count)
      <4>1. fu \in FuType
        BY DEF FuInv, TrackType
      <4> QED BY <2>1, <3>4, <4>1 DEF FuType
    <3>6. UnitArrives'
      BY <1>1, <2>1, <3>5 DEF UnitArrives
    <3>7. FragmentsComeBack'
      BY <1>1, <2>5 DEF FragmentsComeBack
    <3> QED BY <3>6, <3>7 DEF ComesBack
  <2> QED BY <2>4, <2>5
<1> QED BY <1>2, <1>4, <1>5, <1>6

LEMMA ComesBackStep ==
  ASSUME CameraInv, NotSetUp, FuInv, CameraUnit, Recovers, ComesBack,
         [Next]_vars
  PROVE  ComesBack'
<1>1. ASSUME camera'.part = 0, camera'.count = 0 PROVE ComesBack'
  BY <1>1 DEF ComesBack, UnitArrives, FragmentsComeBack
<1>2. ASSUME NEW p, UnitsFed(p) \/ OtherFed(p) PROVE ComesBack'
  BY <1>1, <1>2, Zenon DEF UnitsFed, OtherFed, Leaves
<1>3. ASSUME NEW p, NEW n, FirstFed(p, n) PROVE ComesBack'
  <2>1. UnitArrives'
    BY <1>3, FirstArrives
  <2>2. camera'.part = 1 /\ camera'.count = n /\ n \in Nat /\ 2 <= n
    BY <1>3 DEF FirstFed, Begins
  <2>3. FragmentsComeBack'
    BY <2>2 DEF FragmentsComeBack
  <2> QED BY <2>1, <2>3 DEF ComesBack
<1>4. ASSUME NEW p, NextFed(p) PROVE ComesBack'
  BY <1>4, NextArrives
<1>5. CASE Missed
  <2>1. steady' = 0
    BY <1>5 DEF Missed, Miss
  <2>2. \/ camera'.part = 0 /\ camera'.count = 0
        \/ \E n \in Nat : 2 <= n /\ camera'.part = 1 /\ camera'.count = n
        \/ camera'.part = camera.part + 1 /\ camera'.count = camera.count
           /\ camera.part < camera.count
    BY <1>5, Zenon DEF Missed, Leaves, Begins, Continues
  <2>3. camera.part \in Nat /\ camera.count \in Nat /\ GapLimit \in Nat /\ GapLimit >= 2
    BY DepayloaderAssumption DEF CameraInv, Cameras
  <2> QED BY <2>1, <2>2, <2>3 DEF ComesBack, UnitArrives, FragmentsComeBack
<1>6. CASE NextPicture \/ Reconfigure
  BY <1>1, <1>6, PictureFields, ReconfigureFields
<1>7. CASE ReadLine \/ SetupTrack
  <2>1. camera' = camera /\ sdp # None
    BY <1>7 DEF ReadLine, SetupTrack
  <2> QED BY <1>1, <2>1 DEF NotSetUp
<1>8. CASE UNCHANGED vars
  <2>1. camera' = camera /\ steady' = steady /\ fu' = fu /\ out' = out
    BY <1>8 DEF vars, trackVars, ghosts
  <2>2. NalsOut' = NalsOut
    BY <2>1 DEF NalsOut
  <2>3. UnitArrives'
    BY <2>1 DEF ComesBack, UnitArrives
  <2>4. FragmentsComeBack'
    BY <2>1, <2>2, Zenon DEF ComesBack, FragmentsComeBack, Whole
  <2> QED BY <2>3, <2>4 DEF ComesBack
<1> QED BY <1>2, <1>3, <1>4, <1>5, <1>6, <1>7, <1>8, Moves

\* FragmentsComeBack: checkSeqGap takes every packet after a loss for a gap
\* until the distance to lastSeq reaches the limit, and not one packet
\* longer, whatever the camera sends, skips or pads in between.
THEOREM FragmentsReturn == Spec => []FragmentsComeBack
<1> DEFINE IInv == /\ CameraInv /\ NotSetUp /\ FuInv
                   /\ CameraUnit /\ Recovers /\ ComesBack
<1>1. Init => IInv
  BY CameraInit, NotSetUpInit, FuInit, CameraUnitInit, RecoversInit,
     ComesBackInit
<1>2. IInv /\ [Next]_vars => IInv'
  BY CameraStep, NotSetUpStep, FuStep, CameraUnitStep, RecoversStep,
     ComesBackStep
<1>3. IInv => FragmentsComeBack
  BY DEF ComesBack
<1> QED BY <1>1, <1>2, <1>3, PTL DEF Spec

(***************************************************************************)
(* The header.                                                             *)
(***************************************************************************)

Sets == [SetsOf(codec) -> Nat]

\* There is a record exactly when all sets are there, and it is made of
\* them; only a record is emitted.
HeaderOf(h) ==
  /\ h \in [sets : Sets, record : {None} \cup Sets, emitted : BOOLEAN]
  /\ h.record = IF \E t \in SetsOf(codec) : h.sets[t] = 0 THEN None ELSE h.sets
  /\ h.emitted => h.record # None

\* What becomes of h while no header is sent.
Follows(h, next) ==
  /\ HeaderOf(next)
  /\ next.emitted => h.emitted /\ next.record = h.record

LEMMA TwoCodecs ==
  ASSUME NEW name, SetsOf(name) # {}
  PROVE  \/ SetsOf(name) = {"sps", "pps"}
         \/ SetsOf(name) = {"vps", "sps", "pps"}
BY DEF SetsOf

\* A record is what it is made of.
LEMMA RecordIsSets ==
  ASSUME NEW name, SetsOf(name) # {}, NEW sets \in [SetsOf(name) -> Nat]
  PROVE  ConfigRecord(sets) = sets /\ sets # None
<1>1. CASE SetsOf(name) = {"sps", "pps"}
  <2>1. sets \in [{"sps", "pps"} -> Nat] /\ "vps" \notin DOMAIN sets
    BY <1>1
  <2>2. ConfigRecord(sets) = [sps |-> sets.sps, pps |-> sets.pps]
    BY <2>1 DEF ConfigRecord, AvcConfigRecord
  <2>3. [sps |-> sets.sps, pps |-> sets.pps] = sets
    BY <2>1
  <2> QED BY <2>1, <2>2, <2>3, DepayloaderAssumption
<1>2. CASE SetsOf(name) = {"vps", "sps", "pps"}
  <2>1. sets \in [{"vps", "sps", "pps"} -> Nat] /\ "vps" \in DOMAIN sets
    BY <1>2
  <2>2. ConfigRecord(sets) = [vps |-> sets.vps, sps |-> sets.sps, pps |-> sets.pps]
    BY <2>1 DEF ConfigRecord, HevcConfigRecord
  <2>3. [vps |-> sets.vps, sps |-> sets.sps, pps |-> sets.pps] = sets
    BY <2>1
  <2> QED BY <2>1, <2>2, <2>3, DepayloaderAssumption
<1> QED BY <1>1, <1>2, TwoCodecs

\* Where the set of type t is from, after nal.
LEMMA StoredHeader ==
  ASSUME Video, NEW h, HeaderOf(h), NEW nal, nal.config \in Nat \ {0}
  PROVE  /\ Follows(h, Stored(h, nal))
         /\ \A t \in SetsOf(codec) :
              Stored(h, nal).sets[t] = IF t = nal.type THEN nal.config ELSE h.sets[t]
<1>1. CASE nal.type \notin SetsOf(codec)
  BY <1>1 DEF Stored, Follows
<1>2. CASE nal.type \in SetsOf(codec)
  <2> DEFINE sets == [h.sets EXCEPT ![nal.type] = nal.config]
  <2>1. h.sets \in Sets /\ sets \in Sets /\ DOMAIN sets = SetsOf(codec)
    BY DEF HeaderOf, Sets
  <2>2. \A t \in SetsOf(codec) :
          sets[t] = IF t = nal.type THEN nal.config ELSE h.sets[t]
    BY <2>1 DEF Sets
  <2>3. ConfigRecord(sets) = sets /\ sets # None
    BY <2>1, RecordIsSets DEF Video, Sets
  <2>4. Stored(h, nal) =
          IF (\E t \in SetsOf(codec) : sets[t] = 0) \/ h.record = sets
          THEN [h EXCEPT !.sets = sets]
          ELSE [sets |-> sets, record |-> sets, emitted |-> FALSE]
    <3> HIDE DEF sets
    <3>1. Stored(h, nal) =
            IF (\E t \in DOMAIN sets : sets[t] = 0) \/ h.record = ConfigRecord(sets)
            THEN [h EXCEPT !.sets = sets]
            ELSE [sets |-> sets, record |-> ConfigRecord(sets), emitted |-> FALSE]
      BY <1>2, Zenon DEF Stored, sets
    <3> QED BY <2>1, <2>3, <3>1
  <2> HIDE DEF sets
  <2>5. CASE \E t \in SetsOf(codec) : sets[t] = 0
    <3>1. Stored(h, nal) = [h EXCEPT !.sets = sets]
      BY <2>4, <2>5
    <3>2. h.record = None
      <4>1. PICK t \in SetsOf(codec) : sets[t] = 0
        BY <2>5
      <4>2. h.sets[t] = 0
        BY <2>2, <4>1
      <4> QED BY <4>2 DEF HeaderOf
    <3>3. /\ Stored(h, nal).sets = sets /\ Stored(h, nal).record = None
          /\ Stored(h, nal).emitted = h.emitted
      BY <3>1, <3>2 DEF HeaderOf
    <3>4. HeaderOf(Stored(h, nal))
      BY <2>1, <2>5, <3>1, <3>3 DEF HeaderOf
    <3> QED BY <2>2, <3>2, <3>3, <3>4 DEF Follows
  <2>6. CASE (\A t \in SetsOf(codec) : sets[t] # 0) /\ h.record = sets
    <3>1. Stored(h, nal) = [h EXCEPT !.sets = sets]
      BY <2>4, <2>6
    <3>2. /\ Stored(h, nal).sets = sets /\ Stored(h, nal).record = h.record
          /\ Stored(h, nal).emitted = h.emitted
      BY <3>1 DEF HeaderOf
    <3>3. HeaderOf(Stored(h, nal))
      BY <2>1, <2>6, <3>1, <3>2 DEF HeaderOf
    <3> QED BY <2>2, <3>2, <3>3 DEF Follows
  <2>7. CASE (\A t \in SetsOf(codec) : sets[t] # 0) /\ h.record # sets
    <3>1. Stored(h, nal) = [sets |-> sets, record |-> sets, emitted |-> FALSE]
      BY <2>4, <2>7
    <3>2. HeaderOf(Stored(h, nal))
      BY <2>1, <2>7, <3>1 DEF HeaderOf
    <3> QED BY <2>2, <3>1, <3>2 DEF Follows
  <2> QED BY <2>5, <2>6, <2>7
<1> QED BY <1>1, <1>2

\* The sets after the units of nals, all of the configuration c.
Updated(h, next, nals, c) ==
  \A t \in SetsOf(codec) :
    next.sets[t] = IF \E i \in DOMAIN nals : nals[i].type = t THEN c ELSE h.sets[t]

LEMMA UnpackedHeader ==
  ASSUME Video, NEW h, HeaderOf(h), NEW nals, NEW n \in Nat, DOMAIN nals = 1..n,
         NEW c \in Nat \ {0}, \A i \in DOMAIN nals : nals[i].config = c
  PROVE  /\ Follows(h, Unpacked(h, nals).header)
         /\ Updated(h, Unpacked(h, nals).header, nals, c)
<1> DEFINE start == [header |-> h, units |-> <<>>]
<1>1. PICK g : /\ g[0] = start
               /\ \A i \in 1..n : g[i] = Unpack(g[i - 1], nals[i])
               /\ Loop(start, nals) = g[n]
  <2> HIDE DEF start
  <2>1. InRounds(start, nals, n)
    BY Rounds
  <2> QED BY <2>1 DEF InRounds
<1> DEFINE P(i) == /\ Follows(h, g[i].header)
                   /\ \A t \in SetsOf(codec) : g[i].header.sets[t] =
                        IF \E k \in 1..i : nals[k].type = t THEN c ELSE h.sets[t]
           S == {i \in Nat : i <= n => P(i)}
<1>2. 0 \in S
  <2>1. g[0].header = h /\ 1..0 = {}
    BY <1>1
  <2>2. P(0)
    <3>1. Follows(h, g[0].header)
      BY <2>1 DEF Follows
    <3>2. \A t \in SetsOf(codec) : ~\E k \in 1..0 : nals[k].type = t
      BY <2>1
    <3> QED BY <2>1, <3>1, <3>2
  <2> HIDE DEF P
  <2> QED BY <2>2
<1>3. ASSUME NEW i \in Nat, i \in S PROVE i + 1 \in S
  <2> SUFFICES ASSUME i + 1 <= n PROVE P(i + 1)
    <3> HIDE DEF P
    <3> QED OBVIOUS
  <2>1. i + 1 \in 1..n /\ (i + 1) - 1 = i /\ i <= n
    OBVIOUS
  <2>2. P(i)
    <3> HIDE DEF P
    <3> QED BY <1>3, <2>1
  <2>3. g[i + 1].header = Stored(g[i].header, nals[i + 1])
    <3>1. g[i + 1] = Unpack(g[i], nals[i + 1])
      BY <1>1, <2>1
    <3> QED BY <3>1 DEF Unpack
  <2>4. nals[i + 1].config = c
    BY <2>1
  <2>5. /\ Follows(g[i].header, g[i + 1].header)
        /\ \A t \in SetsOf(codec) : g[i + 1].header.sets[t] =
             IF t = nals[i + 1].type THEN nals[i + 1].config
             ELSE g[i].header.sets[t]
    <3>1. PICK q, nal : q = g[i].header /\ nal = nals[i + 1]
      OBVIOUS
    <3>2. HeaderOf(q) /\ nal.config \in Nat \ {0}
      BY <2>2, <2>4, <3>1 DEF Follows
    <3>3. /\ Follows(q, Stored(q, nal))
          /\ \A t \in SetsOf(codec) :
               Stored(q, nal).sets[t] = IF t = nal.type THEN nal.config ELSE q.sets[t]
      BY <3>2, StoredHeader
    <3> QED BY <2>3, <3>1, <3>3
  <2>6. Follows(h, g[i + 1].header)
    BY <2>2, <2>5 DEF Follows
  <2>7. ASSUME NEW t \in SetsOf(codec)
        PROVE  g[i + 1].header.sets[t] =
                 IF \E k \in 1..(i + 1) : nals[k].type = t THEN c ELSE h.sets[t]
    <3>1. (\E k \in 1..(i + 1) : nals[k].type = t)
            <=> (t = nals[i + 1].type \/ \E k \in 1..i : nals[k].type = t)
      <4>1. \A k \in 1..(i + 1) : k = i + 1 \/ k \in 1..i
        OBVIOUS
      <4>2. \A k \in 1..i : k \in 1..(i + 1)
        OBVIOUS
      <4>3. i + 1 \in 1..(i + 1)
        OBVIOUS
      <4> QED BY <4>1, <4>2, <4>3, Zenon
    <3>2. g[i].header.sets[t] =
            IF \E k \in 1..i : nals[k].type = t THEN c ELSE h.sets[t]
      BY <2>2
    <3> QED BY <2>4, <2>5, <3>1, <3>2
  <2> QED BY <2>6, <2>7
<1> HIDE DEF S
<1>4. n \in S
  BY <1>2, <1>3, Climb
<1>5. P(n)
  <2> HIDE DEF P
  <2> QED BY <1>4 DEF S
<1>6. Unpacked(h, nals) = g[n]
  BY <1>1 DEF Unpacked, Loop
<1> QED BY <1>5, <1>6 DEF Updated

LEMMA EmittedHeader ==
  ASSUME NEW h, HeaderOf(h)
  PROVE  /\ HeaderOf(Emitted(h))
         /\ Emitted(h).sets = h.sets /\ Emitted(h).record = h.record
         /\ Emitted(h).emitted <=> h.record # None
BY DEF HeaderOf, Emitted

(***************************************************************************)
(* What a viewer is sent.                                                  *)
(***************************************************************************)

Listed(s) == s \in Seq({s[i] : i \in DOMAIN s})
IsHeader(a) == a.flags = "videoHeader"
IsFrame(a) == a.flags \in Frames

\* With the header v before the packets of s, a viewer has w after them.
Leads(v, s, w) ==
  \/ w = v /\ \A i \in DOMAIN s : ~IsHeader(s[i])
  \/ \E i \in DOMAIN s : /\ IsHeader(s[i]) /\ w = s[i].record
                         /\ \A j \in DOMAIN s : i < j => ~IsHeader(s[j])

LEMMA LeadsSeen ==
  ASSUME NEW v, NEW s, Listed(s), NEW w, Leads(v, s, w)
  PROVE  Seen(v, s) = w
<1> DEFINE H == {i \in DOMAIN s : s[i].flags = "videoHeader"}
<1>1. DOMAIN s \subseteq Int
  BY DEF Listed
<1>2. CASE w = v /\ \A i \in DOMAIN s : ~IsHeader(s[i])
  <2>1. H = {}
    BY <1>2 DEF IsHeader
  <2> QED BY <1>2, <2>1 DEF Seen
<1>3. ASSUME NEW i \in DOMAIN s, IsHeader(s[i]), w = s[i].record,
             \A j \in DOMAIN s : i < j => ~IsHeader(s[j])
      PROVE  Seen(v, s) = w
  <2>1. i \in H /\ H \subseteq Int /\ \A j \in H : i >= j
    BY <1>1, <1>3 DEF IsHeader
  <2>2. H # {} /\ Max(H) = i
    <3> HIDE DEF H
    <3> QED BY <2>1, MaxOf
  <2>3. Seen(v, s) = IF H = {} THEN v ELSE s[Max(H)].record
    BY DEF Seen
  <2> HIDE DEF H
  <2> QED BY <1>3, <2>2, <2>3
<1> QED BY <1>2, <1>3 DEF Leads

LEMMA ListedEmpty == Listed(<<>>) /\ \A v : Leads(v, <<>>, v)
BY DEF Listed, Leads

LEMMA ListedPending == ASSUME NEW h PROVE Listed(Pending(h))
BY PendingGood DEF GoodSeq, Listed

LEMMA LeadsPending ==
  ASSUME NEW h, NEW v
  PROVE  Leads(v, Pending(h), IF h.emitted \/ h.record = None THEN v ELSE h.record)
<1>1. CASE h.emitted \/ h.record = None
  BY <1>1, ListedEmpty DEF Pending
<1>2. CASE ~(h.emitted \/ h.record = None)
  <2>1. PICK a : a = HeaderPacket(h.record)
    OBVIOUS
  <2>2. IsHeader(a) /\ a.record = h.record
    BY <2>1 DEF HeaderPacket, IsHeader
  <2>3. Pending(h) = <<a>> /\ DOMAIN <<a>> = {1} /\ <<a>>[1] = a
    BY <1>2, <2>1 DEF Pending
  <2>4. Leads(v, <<a>>, h.record)
    BY <2>2, <2>3 DEF Leads
  <2> QED BY <1>2, <2>3, <2>4
<1> QED BY <1>1, <1>2

LEMMA PendingHeaders ==
  ASSUME NEW h PROVE \A i \in DOMAIN Pending(h) : ~IsFrame(Pending(h)[i])
<1>1. PICK a : a = HeaderPacket(h.record)
  OBVIOUS
<1>2. ~IsFrame(a)
  BY <1>1 DEF HeaderPacket, IsFrame, Frames
<1>3. Pending(h) = <<>> \/ Pending(h) = <<a>>
  BY <1>1 DEF Pending
<1> QED BY <1>2, <1>3

Appended(s, a) ==
  /\ Listed(Append(s, a)) /\ Len(s) \in Nat /\ DOMAIN s = 1..Len(s)
  /\ DOMAIN Append(s, a) = 1..(Len(s) + 1)
  /\ \A i \in 1..Len(s) : Append(s, a)[i] = s[i]
  /\ Append(s, a)[Len(s) + 1] = a

LEMMA ListedAppend == ASSUME NEW s, Listed(s), NEW a PROVE Appended(s, a)
<1> DEFINE S == {s[i] : i \in DOMAIN s} \cup {a}
<1>1. s \in Seq(S) /\ a \in S
  <2>1. {s[i] : i \in DOMAIN s} \subseteq S
    OBVIOUS
  <2> QED BY <2>1 DEF Listed
<1> HIDE DEF S
<1>2. Append(s, a) \in Seq(S)
  BY <1>1
<1>3. Listed(Append(s, a))
  BY <1>2, OwnElements, Zenon DEF Listed
<1>4. Len(s) \in Nat /\ DOMAIN s = 1..Len(s)
  BY <1>1
<1>5. /\ DOMAIN Append(s, a) = 1..(Len(s) + 1)
      /\ \A i \in 1..Len(s) : Append(s, a)[i] = s[i]
      /\ Append(s, a)[Len(s) + 1] = a
  BY <1>1
<1> QED BY <1>3, <1>4, <1>5 DEF Appended

LEMMA ListedConcat ==
  ASSUME NEW s, Listed(s), NEW t, Listed(t)
  PROVE  /\ Listed(s \o t) /\ Len(s) \in Nat /\ Len(t) \in Nat
         /\ DOMAIN s = 1..Len(s) /\ DOMAIN t = 1..Len(t)
         /\ DOMAIN (s \o t) = 1..(Len(s) + Len(t))
         /\ \A i \in 1..(Len(s) + Len(t)) :
              (s \o t)[i] = IF i <= Len(s) THEN s[i] ELSE t[i - Len(s)]
<1> DEFINE S == {s[i] : i \in DOMAIN s} \cup {t[i] : i \in DOMAIN t}
<1>1. s \in Seq(S) /\ t \in Seq(S)
  <2>1. {s[i] : i \in DOMAIN s} \subseteq S /\ {t[i] : i \in DOMAIN t} \subseteq S
    OBVIOUS
  <2> QED BY <2>1 DEF Listed
<1> HIDE DEF S
<1>2. s \o t \in Seq(S)
  BY <1>1
<1>3. Listed(s \o t)
  <2>1. PICK u : u = s \o t
    OBVIOUS
  <2>2. u \in Seq(S)
    BY <1>2, <2>1
  <2>3. u \in Seq({u[i] : i \in DOMAIN u})
    BY <2>2, OwnElements, Zenon
  <2> QED BY <2>1, <2>3 DEF Listed
<1>4. /\ Len(s) \in Nat /\ Len(t) \in Nat
      /\ DOMAIN s = 1..Len(s) /\ DOMAIN t = 1..Len(t)
  BY <1>1
<1>5. DOMAIN (s \o t) = 1..(Len(s) + Len(t))
  BY <1>1
<1>6. \A i \in 1..(Len(s) + Len(t)) :
        (s \o t)[i] = IF i <= Len(s) THEN s[i] ELSE t[i - Len(s)]
  BY <1>1
<1> QED BY <1>3, <1>4, <1>5, <1>6

LEMMA LeadsAppend ==
  ASSUME NEW s, Listed(s), NEW a, ~IsHeader(a), NEW v, NEW w, Leads(v, s, w)
  PROVE  Leads(v, Append(s, a), w)
<1>0. PICK u : u = Append(s, a)
  OBVIOUS
<1>6. Appended(s, a)
  BY ListedAppend, Zenon
<1>5. PICK n \in Nat : n = Len(s)
  BY <1>6 DEF Appended
<1>1. /\ DOMAIN s = 1..n /\ DOMAIN u = 1..(n + 1)
      /\ \A i \in 1..n : u[i] = s[i]
      /\ u[n + 1] = a
  <2>1. /\ DOMAIN s = 1..Len(s)
        /\ DOMAIN Append(s, a) = 1..(Len(s) + 1)
        /\ \A i \in 1..Len(s) : Append(s, a)[i] = s[i]
        /\ Append(s, a)[Len(s) + 1] = a
    BY <1>6 DEF Appended
  <2> QED BY <1>0, <1>5, <2>1, Zenon
<1>2. \A i \in 1..(n + 1) : i \in 1..n \/ i = n + 1
  OBVIOUS
<1>3. CASE w = v /\ \A i \in DOMAIN s : ~IsHeader(s[i])
  BY <1>1, <1>2, <1>3 DEF Leads
<1>4. ASSUME NEW i \in DOMAIN s, IsHeader(s[i]), w = s[i].record,
             \A j \in DOMAIN s : i < j => ~IsHeader(s[j])
      PROVE  Leads(v, u, w)
  <2>1. i \in DOMAIN u /\ IsHeader(u[i]) /\ w = u[i].record
    BY <1>1, <1>4
  <2>2. \A j \in DOMAIN u : i < j => ~IsHeader(u[j])
    BY <1>1, <1>2, <1>4
  <2> QED BY <2>1, <2>2 DEF Leads
<1> QED BY <1>0, <1>3, <1>4 DEF Leads

LEMMA LeadsConcat ==
  ASSUME NEW s, Listed(s), NEW t, Listed(t), NEW v, NEW w, NEW x,
         Leads(v, s, w), Leads(w, t, x)
  PROVE  Leads(v, s \o t, x)
<1>0. PICK u : u = s \o t
  OBVIOUS
<1>7. PICK n \in Nat : n = Len(s)
  BY ListedConcat, Zenon
<1>8. PICK m \in Nat : m = Len(t)
  BY ListedConcat, Zenon
<1>1. /\ DOMAIN s = 1..n /\ DOMAIN t = 1..m
      /\ DOMAIN u = 1..(n + m)
      /\ \A i \in 1..(n + m) : u[i] = IF i <= n THEN s[i] ELSE t[i - n]
  <2>1. /\ DOMAIN s = 1..Len(s) /\ DOMAIN t = 1..Len(t)
        /\ DOMAIN (s \o t) = 1..(Len(s) + Len(t))
        /\ \A i \in 1..(Len(s) + Len(t)) :
             (s \o t)[i] = IF i <= Len(s) THEN s[i] ELSE t[i - Len(s)]
    BY ListedConcat, Zenon
  <2> QED BY <1>0, <1>7, <1>8, <2>1, Zenon
<1>2. /\ \A i \in 1..n : i \in DOMAIN u /\ u[i] = s[i]
      /\ \A i \in 1..m : i + n \in DOMAIN u /\ u[i + n] = t[i]
  <2>1. \A i \in 1..m : i + n \in 1..(n + m) /\ ~(i + n <= n) /\ (i + n) - n = i
    OBVIOUS
  <2> QED BY <1>1, <2>1
<1>3. \A j \in DOMAIN u : \/ j \in 1..n /\ u[j] = s[j]
                          \/ j - n \in 1..m /\ u[j] = t[j - n]
  BY <1>1
<1>4. ASSUME NEW i \in DOMAIN t, IsHeader(t[i]), x = t[i].record,
             \A j \in DOMAIN t : i < j => ~IsHeader(t[j])
      PROVE  Leads(v, u, x)
  <2>1. i + n \in DOMAIN u /\ IsHeader(u[i + n]) /\ x = u[i + n].record
    BY <1>1, <1>2, <1>4
  <2>2. ASSUME NEW j \in DOMAIN u, i + n < j PROVE ~IsHeader(u[j])
    <3>1. j - n \in 1..m /\ u[j] = t[j - n] /\ i < j - n
      BY <1>1, <1>3, <2>2
    <3> QED BY <1>1, <1>4, <3>1
  <2> QED BY <2>1, <2>2 DEF Leads
<1>5. ASSUME x = w, \A i \in DOMAIN t : ~IsHeader(t[i]) PROVE Leads(v, u, x)
  <2>1. CASE w = v /\ \A i \in DOMAIN s : ~IsHeader(s[i])
    <3>1. \A j \in DOMAIN u : ~IsHeader(u[j])
      BY <1>1, <1>3, <1>5, <2>1
    <3>2. x = v
      BY <1>5, <2>1
    <3> QED BY <3>1, <3>2, Zenon DEF Leads
  <2>2. ASSUME NEW i \in DOMAIN s, IsHeader(s[i]), w = s[i].record,
               \A j \in DOMAIN s : i < j => ~IsHeader(s[j])
        PROVE  Leads(v, u, x)
    <3>1. i \in DOMAIN u /\ IsHeader(u[i]) /\ x = u[i].record
      BY <1>1, <1>2, <1>5, <2>2
    <3>2. ASSUME NEW j \in DOMAIN u, i < j PROVE ~IsHeader(u[j])
      BY <1>1, <1>3, <1>5, <2>2, <3>2
    <3> QED BY <3>1, <3>2, Zenon DEF Leads
  <2>3. \/ w = v /\ \A i \in DOMAIN s : ~IsHeader(s[i])
        \/ \E i \in DOMAIN s : /\ IsHeader(s[i]) /\ w = s[i].record
                               /\ \A j \in DOMAIN s : i < j => ~IsHeader(s[j])
    BY Zenon DEF Leads
  <2> QED BY <2>1, <2>2, <2>3, Zenon
<1>6. \/ x = w /\ \A i \in DOMAIN t : ~IsHeader(t[i])
      \/ \E i \in DOMAIN t : /\ IsHeader(t[i]) /\ x = t[i].record
                             /\ \A j \in DOMAIN t : i < j => ~IsHeader(t[j])
  BY Zenon DEF Leads
<1> QED BY <1>0, <1>4, <1>5, <1>6

\* With the packets of o, a viewer that had the record of h once it was
\* emitted has the one of `next` once it is; no frame goes before a record
\* that is there.
Announced(h, next, o) ==
  /\ Listed(o)
  /\ (\E i \in DOMAIN o : IsFrame(o[i])) => (next.record # None => next.emitted)
  /\ \A v : (h.emitted => v = h.record) =>
       \E w : Leads(v, o, w) /\ (next.emitted => w = next.record)

\* The frames of o are of the configuration c.
Configured(o, c) ==
  \A i \in DOMAIN o : IsFrame(o[i]) =>
    \A k \in DOMAIN o[i].units : o[i].units[k].config = c

LEMMA Silent ==
  ASSUME NEW h, NEW next, Follows(h, next)
  PROVE  Announced(h, next, <<>>) /\ \A c : Configured(<<>>, c)
<1>1. DOMAIN <<>> = {}
  OBVIOUS
<1>2. \A c : Configured(<<>>, c)
  BY <1>1 DEF Configured
<1>3. ASSUME NEW v, h.emitted => v = h.record
      PROVE  \E w : Leads(v, <<>>, w) /\ (next.emitted => w = next.record)
  <2>1. Leads(v, <<>>, v)
    BY ListedEmpty
  <2>2. next.emitted => v = next.record
    BY <1>3 DEF Follows
  <2> QED BY <2>1, <2>2
<1>4. Announced(h, next, <<>>)
  BY <1>1, <1>3, ListedEmpty DEF Announced
<1> QED BY <1>2, <1>4

LEMMA NotHeader ==
  ASSUME NEW units
  PROVE  /\ ~IsHeader(NalPacket(units)) /\ IsFrame(NalPacket(units))
         /\ NalPacket(units).units = units
BY DEF IsHeader, IsFrame, NalPacket, Frames

\* What is pending goes out, alone or before a frame.
LEMMA Sends ==
  ASSUME NEW h, NEW next, Follows(h, next), NEW units
  PROVE  /\ Announced(h, Emitted(next), Pending(next))
         /\ Announced(h, Emitted(next), Append(Pending(next), NalPacket(units)))
<1>1. PICK e : e = Emitted(next)
  OBVIOUS
<1>2. HeaderOf(next) /\ e.record = next.record /\ (e.emitted <=> next.record # None)
  BY <1>1, EmittedHeader DEF Follows
<1>3. PICK a : a = NalPacket(units) /\ ~IsHeader(a)
  BY NotHeader
<1>4. ASSUME NEW v, h.emitted => v = h.record
      PROVE  \E w : /\ Leads(v, Pending(next), w)
                    /\ Leads(v, Append(Pending(next), a), w)
                    /\ e.emitted => w = e.record
  <2>1. PICK w : w = IF next.emitted \/ next.record = None THEN v ELSE next.record
    OBVIOUS
  <2>2. Leads(v, Pending(next), w)
    BY <2>1, LeadsPending, Zenon
  <2>3. Leads(v, Append(Pending(next), a), w)
    BY <1>3, <2>2, ListedPending, LeadsAppend
  <2>4. e.emitted => w = e.record
    BY <1>2, <1>4, <2>1 DEF Follows
  <2> QED BY <2>2, <2>3, <2>4
<1>5. Announced(h, e, Pending(next))
  BY <1>2, <1>4, ListedPending, Zenon DEF Announced
<1>6. Listed(Append(Pending(next), a))
  <2>1. Listed(Pending(next))
    BY ListedPending
  <2>2. Appended(Pending(next), a)
    BY <2>1, ListedAppend, Zenon
  <2> QED BY <2>2 DEF Appended
<1>7. Announced(h, e, Append(Pending(next), a))
  BY <1>2, <1>4, <1>6, Zenon DEF Announced
<1> QED BY <1>1, <1>3, <1>5, <1>7

LEMMA SendsConfigured ==
  ASSUME NEW h, NEW units, NEW c, \A k \in DOMAIN units : units[k].config = c
  PROVE  /\ Configured(Pending(h), c)
         /\ Configured(Append(Pending(h), NalPacket(units)), c)
<1>1. Configured(Pending(h), c)
  BY PendingHeaders DEF Configured
<1>2. PICK a : a = NalPacket(units) /\ a.units = units
  BY NotHeader
<1>3. PICK s : s = Pending(h) /\ Listed(s)
  BY ListedPending
<1>4. Configured(Append(s, a), c)
  <2>0. Appended(s, a)
    BY <1>3, ListedAppend, Zenon
  <2>1. PICK n \in Nat : n = Len(s)
    BY <2>0 DEF Appended
  <2>2. /\ DOMAIN s = 1..Len(s)
        /\ DOMAIN Append(s, a) = 1..(Len(s) + 1)
        /\ \A i \in 1..Len(s) : Append(s, a)[i] = s[i]
        /\ Append(s, a)[Len(s) + 1] = a
    BY <2>0 DEF Appended
  <2>3. ASSUME NEW i \in DOMAIN Append(s, a), IsFrame(Append(s, a)[i])
        PROVE  \A k \in DOMAIN Append(s, a)[i].units :
                 Append(s, a)[i].units[k].config = c
    <3>1. i \in 1..n \/ i = n + 1
      <4>1. i \in 1..(n + 1)
        BY <2>1, <2>2, Zenon
      <4> QED BY <4>1
    <3>2. CASE i \in 1..n
      <4>1. Append(s, a)[i] = s[i] /\ i \in DOMAIN s
        BY <2>1, <2>2, <3>2
      <4>2. ~IsFrame(s[i])
        BY <1>3, <4>1, PendingHeaders
      <4> QED BY <2>3, <4>1, <4>2
    <3>3. CASE i = n + 1
      <4>1. Append(s, a)[i] = a
        BY <2>1, <2>2, <3>3
      <4> QED BY <1>2, <4>1
    <3> QED BY <3>1, <3>2, <3>3
  <2> QED BY <2>3 DEF Configured
<1> QED BY <1>1, <1>2, <1>3, <1>4

\* H264Depayloader sends what is pending before it looks at the packet.
LEMMA SentBefore ==
  ASSUME NEW h, HeaderOf(h), NEW next, NEW o, Announced(Emitted(h), next, o),
         NEW c, Configured(o, c)
  PROVE  /\ Announced(h, next, Pending(h) \o o)
         /\ Configured(Pending(h) \o o, c)
<1>1. PICK e : /\ e = Emitted(h) /\ e.record = h.record
               /\ (e.emitted <=> h.record # None)
  BY EmittedHeader
<1>2. PICK s : s = Pending(h) /\ Listed(s) /\ \A i \in DOMAIN s : ~IsFrame(s[i])
  BY ListedPending, PendingHeaders
<1>3. Listed(o)
  BY DEF Announced
<1>4. PICK n \in Nat : n = Len(s)
  BY <1>2, <1>3, ListedConcat, Zenon
<1>5. PICK m \in Nat : m = Len(o)
  BY <1>2, <1>3, ListedConcat, Zenon
<1>6. PICK u : u = s \o o
  OBVIOUS
<1>7. /\ Listed(u) /\ DOMAIN s = 1..n /\ DOMAIN o = 1..m
      /\ DOMAIN u = 1..(n + m)
      /\ \A i \in 1..(n + m) : u[i] = IF i <= n THEN s[i] ELSE o[i - n]
  <2>1. /\ Listed(s \o o)
        /\ DOMAIN s = 1..Len(s) /\ DOMAIN o = 1..Len(o)
        /\ DOMAIN (s \o o) = 1..(Len(s) + Len(o))
        /\ \A i \in 1..(Len(s) + Len(o)) :
             (s \o o)[i] = IF i <= Len(s) THEN s[i] ELSE o[i - Len(s)]
    BY <1>2, <1>3, ListedConcat, Zenon
  <2> QED BY <1>4, <1>5, <1>6, <2>1, Zenon
\* A frame among them is one of o.
<1>8. ASSUME NEW i \in DOMAIN u, IsFrame(u[i])
      PROVE  i - n \in DOMAIN o /\ u[i] = o[i - n]
  <2>1. CASE i <= n
    <3>1. i \in DOMAIN s /\ u[i] = s[i]
      BY <1>7, <2>1
    <3> QED BY <1>2, <1>8, <3>1
  <2>2. CASE ~(i <= n)
    BY <1>7, <2>2
  <2> QED BY <2>1, <2>2
<1>9. Configured(u, c)
  BY <1>8 DEF Configured
<1>10. (\E i \in DOMAIN u : IsFrame(u[i])) => (next.record # None => next.emitted)
  BY <1>8 DEF Announced
<1>11. ASSUME NEW v, h.emitted => v = h.record
       PROVE  \E w : Leads(v, u, w) /\ (next.emitted => w = next.record)
  <2>1. PICK w : w = IF h.emitted \/ h.record = None THEN v ELSE h.record
    OBVIOUS
  <2>2. Leads(v, s, w)
    BY <1>2, <2>1, LeadsPending, Zenon
  <2>3. e.emitted => w = e.record
    BY <1>1, <1>11, <2>1
  <2>4. PICK x : Leads(w, o, x) /\ (next.emitted => x = next.record)
    BY <1>1, <2>3, Zenon DEF Announced
  <2>5. Leads(v, u, x)
    BY <1>2, <1>3, <1>6, <2>2, <2>4, LeadsConcat
  <2> QED BY <2>4, <2>5
<1>12. Announced(h, next, u)
  BY <1>7, <1>10, <1>11 DEF Announced
<1> QED BY <1>2, <1>6, <1>9, <1>12

\* What a handler makes of the units of p and the header h.
Right(p, h, r, c) ==
  /\ HeaderOf(r.header) /\ Updated(h, r.header, p.nals, camera.config)
  /\ Announced(h, r.header, r.out) /\ Configured(r.out, c)

\* No unit of p is a parameter set.
NoSets(p) == \A i \in DOMAIN p.nals : p.nals[i].type \notin SetsOf(codec)

LEMMA FollowsItself == ASSUME NEW h, HeaderOf(h) PROVE Follows(h, h)
BY DEF Follows

LEMMA Unchanged ==
  ASSUME NEW p, NoSets(p), NEW h, NEW next, next.sets = h.sets
  PROVE  Updated(h, next, p.nals, camera.config)
BY DEF Updated, NoSets

LEMMA NothingRight ==
  ASSUME NEW p, NoSets(p), NEW h, HeaderOf(h), NEW f, NEW c
  PROVE  Right(p, h, Result(h, f, <<>>), c)
<1>1. Updated(h, h, p.nals, camera.config)
  BY Unchanged
<1>2. Announced(h, h, <<>>) /\ Configured(<<>>, c)
  BY FollowsItself, Silent
<1> QED BY <1>1, <1>2 DEF Right, Result

LEMMA SendsRight ==
  ASSUME NEW p, NEW h, NEW next, Follows(h, next),
         Updated(h, next, p.nals, camera.config), NEW f, NEW units, NEW c,
         \A k \in DOMAIN units : units[k].config = c
  PROVE  /\ Right(p, h, Result(Emitted(next), f, Pending(next)), c)
         /\ Right(p, h, Result(Emitted(next), f,
                               Append(Pending(next), NalPacket(units))), c)
         /\ Right(p, h, Result(next, f, <<>>), c)
<1>1. PICK e : e = Emitted(next) /\ HeaderOf(e) /\ e.sets = next.sets
  BY EmittedHeader DEF Follows
<1>2. Updated(h, e, p.nals, camera.config)
  BY <1>1 DEF Updated
<1>3. /\ Announced(h, e, Pending(next))
      /\ Announced(h, e, Append(Pending(next), NalPacket(units)))
  BY <1>1, Sends
<1>4. /\ Configured(Pending(next), c)
      /\ Configured(Append(Pending(next), NalPacket(units)), c)
  BY SendsConfigured
<1>5. Announced(h, next, <<>>) /\ Configured(<<>>, c) /\ HeaderOf(next)
  BY Silent DEF Follows
<1> QED BY <1>1, <1>2, <1>3, <1>4, <1>5 DEF Right, Result

LEMMA SingleRight ==
  ASSUME Video, NEW p, OfConfig(p), p.kind = "single",
         camera.config \in Nat \ {0}, NEW h, HeaderOf(h), NEW f
  PROVE  /\ Right(p, h, HandleSingleNal(p, h, f), camera.config)
         /\ Right(p, h, HandleSingleH265(p, h, f), camera.config)
<1>1. PICK nal : nal = p.nals[1] /\ nal.config = camera.config
  BY DEF OfConfig
<1>2. DOMAIN p.nals = {1}
  BY DEF OfConfig
<1>3. Right(p, h, HandleSingleNal(p, h, f), camera.config)
  <2>1. CASE nal.type \in SetsOf(codec)
    <3>1. PICK next : next = Stored(h, nal)
      OBVIOUS
    <3>2. /\ Follows(h, next)
          /\ \A t \in SetsOf(codec) :
               next.sets[t] = IF t = nal.type THEN nal.config ELSE h.sets[t]
      BY <1>1, <3>1, StoredHeader
    <3>3. Updated(h, next, p.nals, camera.config)
      BY <1>1, <1>2, <3>2 DEF Updated
    <3>4. Right(p, h, Result(next, f, <<>>), camera.config)
      <4>1. \A k \in DOMAIN <<>> : <<>>[k].config = camera.config
        OBVIOUS
      <4> QED BY <3>2, <3>3, <4>1, SendsRight
    <3> QED BY <1>1, <2>1, <3>1, <3>4 DEF HandleSingleNal
  <2>2. CASE nal.type \notin SetsOf(codec)
    <3>1. Updated(h, h, p.nals, camera.config) /\ Follows(h, h)
      BY <1>1, <1>2, <2>2, FollowsItself, Unchanged DEF NoSets
    <3>2. PICK units : units = <<Uncut(nal)>>
      OBVIOUS
    <3>3. \A k \in DOMAIN units : units[k].config = camera.config
      BY <1>1, <3>2 DEF Uncut, Unit
    <3>4. Right(p, h, Result(Emitted(h), f,
                             Append(Pending(h), NalPacket(units))), camera.config)
      BY <3>1, <3>3, SendsRight
    <3> QED BY <1>1, <2>2, <3>2, <3>4 DEF HandleSingleNal
  <2> QED BY <2>1, <2>2
<1>4. CASE nal.type \in Frames \cup SetsOf(codec)
  BY <1>1, <1>3, <1>4 DEF HandleSingleH265
<1>5. CASE nal.type \notin Frames \cup SetsOf(codec)
  <2>1. NoSets(p)
    BY <1>1, <1>2, <1>5 DEF NoSets
  <2>2. Right(p, h, Result(h, f, <<>>), camera.config)
    BY <2>1, NothingRight
  <2> QED BY <1>1, <1>3, <1>5, <2>2 DEF HandleSingleH265
<1> QED BY <1>3, <1>4, <1>5

LEMMA AggregateRight ==
  ASSUME Video, NEW p, OfConfig(p), camera.config \in Nat \ {0},
         NEW h, HeaderOf(h), NEW f
  PROVE  /\ Right(p, h, HandleStapA(p, h, f), camera.config)
         /\ Right(p, h, HandleAp(p, h, f), camera.config)
<1>1. PICK n \in Nat : DOMAIN p.nals = 1..n
  BY DEF OfConfig, Units
<1>2. PICK unpacked, next, units :
        /\ unpacked = Unpacked(h, p.nals)
        /\ next = unpacked.header /\ units = unpacked.units
  OBVIOUS
<1>3. Follows(h, next) /\ Updated(h, next, p.nals, camera.config)
  <2>1. \A i \in DOMAIN p.nals : p.nals[i].config = camera.config
    BY DEF OfConfig
  <2> QED BY <1>1, <1>2, <2>1, UnpackedHeader
<1>4. \A k \in DOMAIN units : units[k].config = camera.config
  <2>1. units \in Seq({Uncut(p.nals[k]) : k \in 1..n})
    BY <1>1, <1>2, UnpackedUnits
  <2>2. \A k \in DOMAIN units : units[k] \in {Uncut(p.nals[i]) : i \in 1..n}
    BY <2>1
  <2>3. \A i \in 1..n : Uncut(p.nals[i]).config = camera.config
    BY <1>1 DEF OfConfig, Uncut, Unit
  <2> QED BY <2>2, <2>3
<1>5. /\ Right(p, h, Result(Emitted(next), f, Pending(next)), camera.config)
      /\ Right(p, h, Result(Emitted(next), f,
                      Append(Pending(next), NalPacket(units))), camera.config)
      /\ Right(p, h, Result(next, f, <<>>), camera.config)
  BY <1>3, <1>4, SendsRight
<1>6. Right(p, h, HandleStapA(p, h, f), camera.config)
  BY <1>2, <1>5 DEF HandleStapA
<1>7. Right(p, h, HandleAp(p, h, f), camera.config)
  BY <1>2, <1>5 DEF HandleAp
<1> QED BY <1>6, <1>7

\* The unit that ends with p is of the configuration c.
EndsOf(p, f, c) ==
  p.part # 1 /\ f.started /\ p.ts = f.ts /\ p.part = p.count => f.nal.config = c

LEMMA FragmentRight ==
  ASSUME NEW p, NoSets(p), NEW h, HeaderOf(h), NEW f, NEW c, EndsOf(p, f, c)
  PROVE  Right(p, h, HandleFuA(p, h, f), c)
<1> DEFINE parts == Append(f.parts, <<p.first, p.part, p.count>>)
           unit == Unit(f.nal, parts, f.inStep)
<1>1. \A left : Right(p, h, Result(h, left, <<>>), c)
  BY NothingRight
<1>2. CASE ~(p.part # 1 /\ f.started /\ p.ts = f.ts /\ p.part = p.count)
  BY <1>1, <1>2 DEF HandleFuA
<1>3. CASE p.part # 1 /\ f.started /\ p.ts = f.ts /\ p.part = p.count
  <2>1. HandleFuA(p, h, f) =
          Result(Emitted(h), NoFragment, Append(Pending(h), NalPacket(<<unit>>)))
    BY <1>3 DEF HandleFuA
  <2>2. unit.config = c
    BY <1>3 DEF EndsOf, Unit
  <2>3. \A k \in DOMAIN <<unit>> : <<unit>>[k].config = c
    BY <2>2
  <2>4. Updated(h, h, p.nals, camera.config) /\ Follows(h, h)
    BY FollowsItself, Unchanged
  <2> HIDE DEF unit
  <2> QED BY <2>1, <2>3, <2>4, SendsRight
<1> QED BY <1>2, <1>3

\* The detour of H264Depayloader.
LEMMA BeforeRight ==
  ASSUME NEW p, NEW h, HeaderOf(h), NEW r, NEW c, Right(p, Emitted(h), r, c),
         r = Result(r.header, r.fu, r.out)
  PROVE  Right(p, h, [r EXCEPT !.out = Pending(h) \o @], c)
<1>1. /\ [r EXCEPT !.out = Pending(h) \o @].header = r.header
      /\ [r EXCEPT !.out = Pending(h) \o @].out = Pending(h) \o r.out
  BY DEF Result
<1>2. /\ Announced(h, r.header, Pending(h) \o r.out)
      /\ Configured(Pending(h) \o r.out, c)
  BY SentBefore DEF Right
<1>3. Updated(h, r.header, p.nals, camera.config)
  <2>1. Emitted(h).sets = h.sets
    BY EmittedHeader
  <2> QED BY <2>1 DEF Right, Updated
<1> QED BY <1>1, <1>2, <1>3 DEF Right

LEMMA FedRight ==
  ASSUME Video, NEW p, p.kind # "empty", HeaderOf(header),
         camera.config \in Nat \ {0}, NEW c,
         \/ /\ p.kind \in {"single", "aggregate"} /\ OfConfig(p)
            /\ c = camera.config
         \/ p.kind = "fragment" /\ NoSets(p) /\ EndsOf(p, FragmentsAfterGap(p), c)
         \/ p.kind = "unsupported" /\ NoSets(p)
  PROVE  Right(p, header, Fed(p), c)
<1>1. PICK f : f = FragmentsAfterGap(p)
  OBVIOUS
<1>2. ASSUME NEW h, HeaderOf(h), NEW r, \E k \in {1, 2} :
               r = CASE p.kind = "single"    -> IF k = 1 THEN HandleSingleNal(p, h, f)
                                                ELSE HandleSingleH265(p, h, f)
                     [] p.kind = "aggregate" -> IF k = 1 THEN HandleStapA(p, h, f)
                                                ELSE HandleAp(p, h, f)
                     [] p.kind = "fragment"  -> HandleFuA(p, h, f)
                     [] OTHER                -> Result(h, f, <<>>)
      PROVE  Right(p, h, r, c) /\ r = Result(r.header, r.fu, r.out)
  <2>1. CASE p.kind = "single"
    <3>1. r = HandleSingleNal(p, h, f) \/ r = HandleSingleH265(p, h, f)
      BY <1>2, <2>1
    <3>2. Right(p, h, r, c)
      BY <1>2, <2>1, <3>1, SingleRight
    <3>3. r = Result(r.header, r.fu, r.out)
      BY <3>1 DEF HandleSingleNal, HandleSingleH265, Result
    <3> QED BY <3>2, <3>3
  <2>2. CASE p.kind = "aggregate"
    <3>1. r = HandleStapA(p, h, f) \/ r = HandleAp(p, h, f)
      BY <1>2, <2>2
    <3>2. Right(p, h, r, c)
      BY <1>2, <2>2, <3>1, AggregateRight
    <3>3. r = Result(r.header, r.fu, r.out)
      BY <3>1 DEF HandleStapA, HandleAp, Result
    <3> QED BY <3>2, <3>3
  <2>3. CASE p.kind = "fragment"
    <3>1. r = HandleFuA(p, h, f)
      BY <1>2, <2>3
    <3>2. Right(p, h, r, c)
      BY <1>1, <1>2, <2>3, <3>1, FragmentRight
    <3>3. r = Result(r.header, r.fu, r.out)
      BY <3>1 DEF HandleFuA, Result
    <3> QED BY <3>2, <3>3
  <2>4. CASE p.kind = "unsupported"
    <3>1. r = Result(h, f, <<>>)
      BY <1>2, <2>4
    <3>2. Right(p, h, r, c)
      BY <1>2, <2>4, <3>1, NothingRight
    <3>3. r = Result(r.header, r.fu, r.out)
      BY <3>1 DEF Result
    <3> QED BY <3>2, <3>3
  <2> QED BY <2>1, <2>2, <2>3, <2>4
<1>3. CASE Fed(p) = FeedH265(p)
  <2>1. \E k \in {1, 2} : Fed(p) =
          CASE p.kind = "single"    -> IF k = 1 THEN HandleSingleNal(p, header, f)
                                       ELSE HandleSingleH265(p, header, f)
            [] p.kind = "aggregate" -> IF k = 1 THEN HandleStapA(p, header, f)
                                       ELSE HandleAp(p, header, f)
            [] p.kind = "fragment"  -> HandleFuA(p, header, f)
            [] OTHER                -> Result(header, f, <<>>)
    <3> WITNESS 2 \in {1, 2}
    <3> QED BY <1>1, <1>3 DEF FeedH265, HandleFu
  <2> QED BY <1>2, <2>1
<1>4. CASE Fed(p) = FeedH264(p)
  <2>1. PICK h : h = Emitted(header) /\ HeaderOf(h)
    BY EmittedHeader
  <2>2. PICK r : r = CASE p.kind = "single"    -> HandleSingleNal(p, h, f)
                       [] p.kind = "aggregate" -> HandleStapA(p, h, f)
                       [] p.kind = "fragment"  -> HandleFuA(p, h, f)
                       [] OTHER                -> Result(h, f, <<>>)
    OBVIOUS
  <2>3. \E k \in {1, 2} : r =
          CASE p.kind = "single"    -> IF k = 1 THEN HandleSingleNal(p, h, f)
                                       ELSE HandleSingleH265(p, h, f)
            [] p.kind = "aggregate" -> IF k = 1 THEN HandleStapA(p, h, f)
                                       ELSE HandleAp(p, h, f)
            [] p.kind = "fragment"  -> HandleFuA(p, h, f)
            [] OTHER                -> Result(h, f, <<>>)
    <3> WITNESS 1 \in {1, 2}
    <3> QED BY <2>2
  <2>4. Right(p, Emitted(header), r, c) /\ r = Result(r.header, r.fu, r.out)
    BY <1>2, <2>1, <2>3
  <2>5. Fed(p) = [r EXCEPT !.out = Pending(header) \o @]
    BY <1>1, <1>4, <2>1, <2>2 DEF FeedH264
  <2> QED BY <2>4, <2>5, BeforeRight
<1> QED BY <1>3, <1>4, FedVideo

\* A media that is not set up has no codec, and is no video.
Undescribed == sdp # None => codec = None

LEMMA NoCodec == codec = None => ~Video
BY DepayloaderAssumption DEF Video, SetsOf, TrackOf

LEMMA UndescribedInit == Init => Undescribed
BY DEF Init, Undescribed

LEMMA UndescribedStep ==
  ASSUME CameraInv, NotSetUp, Undescribed, [Next]_vars PROVE Undescribed'
<1>1. CASE ReadLine
  BY <1>1 DEF ReadLine, Undescribed
<1>2. CASE SetupTrack
  BY <1>2, Zenon DEF SetupTrack, Undescribed
<1>3. CASE NextPicture \/ Reconfigure \/ UNCHANGED vars
  <2>1. UNCHANGED mediaVars
    BY <1>3 DEF NextPicture, Reconfigure, vars
  <2> QED BY <2>1 DEF Undescribed, mediaVars
<1>4. ASSUME NEW p, NEW n,
             UnitsFed(p) \/ NextFed(p) \/ OtherFed(p) \/ FirstFed(p, n)
      PROVE  Undescribed'
  <2>1. UNCHANGED mediaVars
    BY <1>4, FeedKeeps, Zenon DEF UnitsFed, NextFed, OtherFed, FirstFed
  <2> QED BY <2>1 DEF Undescribed, mediaVars
<1>5. CASE Missed
  <2>1. UNCHANGED mediaVars
    BY <1>5 DEF Missed, Miss
  <2> QED BY <2>1 DEF Undescribed, mediaVars
<1> QED BY <1>1, <1>2, <1>3, <1>4, <1>5, Moves

\* The header the track has, the sets of this configuration it was told of,
\* and the header a viewer has.
HeaderInv ==
  /\ camera.config \in Nat \ {0}
  /\ Video => /\ HeaderOf(header) /\ told \subseteq SetsOf(codec)
              /\ \A t \in told : header.sets[t] = camera.config
              /\ header.emitted => viewer = header.record

\* What was returned last: frames of a video, never before a header that is
\* there, and of this configuration once the track was told of it.
FramesOut == \E i \in DOMAIN out : IsFrame(out[i].packet)
OutOf(c) ==
  \A i \in DOMAIN out : IsFrame(out[i].packet) =>
    \A k \in DOMAIN out[i].packet.units : out[i].packet.units[k].config = c
OutInv ==
  /\ FramesOut => Video /\ (header.record # None => header.emitted)
  /\ told # {} => OutOf(camera.config)

LEMMA HeaderInit == Init => HeaderInv /\ OutInv
<1> SUFFICES ASSUME Init PROVE HeaderInv /\ OutInv
  OBVIOUS
<1>1. ~Video
  BY NoCodec DEF Init
<1>2. camera.config = 1 /\ told = {} /\ DOMAIN out = {}
  BY DEF Init
<1> QED BY <1>1, <1>2 DEF HeaderInv, OutInv, FramesOut

\* A packet of video.
LEMMA FeedHeader ==
  ASSUME HeaderInv, Video, NEW p, Return(p, Fed(p)), NEW c,
         Right(p, header, Fed(p), c), camera'.config = camera.config,
         told' # {} => c = camera.config
  PROVE  HeaderInv' /\ OutInv'
<1>1. /\ UNCHANGED mediaVars /\ header' = Fed(p).header
      /\ told' = told \cup ({p.nals[i].type : i \in DOMAIN p.nals} \cap SetsOf(codec))
      /\ viewer' = Seen(viewer, Fed(p).out)
      /\ DOMAIN out' = DOMAIN Fed(p).out
      /\ \A i \in DOMAIN out' : out'[i].packet = Fed(p).out[i]
  BY DEF Return
<1>2. codec' = codec /\ SetsOf(codec)' = SetsOf(codec) /\ Video'
  BY <1>1, MediaKept DEF mediaVars
<1>3. /\ HeaderOf(header') /\ Updated(header, header', p.nals, camera.config)
      /\ Announced(header, header', Fed(p).out) /\ Configured(Fed(p).out, c)
  BY <1>1 DEF Right
<1>4. HeaderOf(header)'
  BY <1>2, <1>3 DEF HeaderOf, Sets
<1>5. told' \subseteq SetsOf(codec) /\ \A t \in told' : header'.sets[t] = camera.config
  <2>1. told' \subseteq SetsOf(codec)
    BY <1>1 DEF HeaderInv
  <2>2. ASSUME NEW t \in told' PROVE header'.sets[t] = camera.config
    <3>1. t \in SetsOf(codec)
      BY <2>1, <2>2
    <3>2. header'.sets[t] = IF \E i \in DOMAIN p.nals : p.nals[i].type = t
                            THEN camera.config ELSE header.sets[t]
      BY <1>3, <3>1 DEF Updated
    <3>3. t \in told \/ \E i \in DOMAIN p.nals : p.nals[i].type = t
      BY <1>1, <2>2
    <3> QED BY <3>2, <3>3 DEF HeaderInv
  <2> QED BY <2>1, <2>2
<1>6. header'.emitted => viewer' = header'.record
  <2>1. header.emitted => viewer = header.record
    BY DEF HeaderInv
  <2>2. PICK w : Leads(viewer, Fed(p).out, w) /\ (header'.emitted => w = header'.record)
    BY <1>3, <2>1, Zenon DEF Announced
  <2>3. Listed(Fed(p).out)
    BY <1>3 DEF Announced
  <2>4. Seen(viewer, Fed(p).out) = w
    BY <2>2, <2>3, LeadsSeen, Zenon
  <2> QED BY <1>1, <2>2, <2>4
<1>7. HeaderInv'
  BY <1>2, <1>4, <1>5, <1>6 DEF HeaderInv
<1>8. FramesOut' => (header'.record # None => header'.emitted)
  BY <1>1, <1>3 DEF FramesOut, Announced
<1>9. OutOf(c)'
  BY <1>1, <1>3 DEF OutOf, Configured
<1>10. told' # {} => OutOf(camera.config)'
  BY <1>9 DEF OutOf
<1> QED BY <1>2, <1>7, <1>8, <1>10 DEF OutInv

\* A step that leaves the header alone and returns nothing.
LEMMA HeaderKept ==
  ASSUME HeaderInv, UNCHANGED mediaVars, header' = header, viewer' = viewer,
         told' \subseteq told, camera'.config \in Nat \ {0},
         told' # {} => camera'.config = camera.config, DOMAIN out' = {}
  PROVE  HeaderInv' /\ OutInv'
<1>1. codec' = codec /\ SetsOf(codec)' = SetsOf(codec) /\ (Video' <=> Video)
  BY MediaKept DEF mediaVars
<1>2. HeaderOf(header)' <=> HeaderOf(header)
  BY <1>1 DEF HeaderOf, Sets
<1>3. HeaderInv'
  BY <1>1, <1>2 DEF HeaderInv
<1>4. OutInv'
  BY DEF OutInv, FramesOut, OutOf
<1> QED BY <1>3, <1>4

\* A media that is no video returns no frames.
LEMMA FedSound ==
  ASSUME ~Video, Playing, NEW p
  PROVE  /\ \A i \in DOMAIN Fed(p).out : ~IsFrame(Fed(p).out[i])
         /\ SetsOf(codec) = {}
<1>1. SetsOf(codec) = {}
  BY DEF Video
<1>2. TrackOf(codec) \notin {"H264Depayloader", "H265Depayloader"}
  BY <1>1 DEF SetsOf
<1>3. \/ Fed(p) = Result(header, fu, <<>>)
      \/ Fed(p) = FeedAac(p) \/ Fed(p) = FeedPcma(p)
      \/ Fed(p) = FeedPassthrough(p)
  BY <1>2 DEF Fed
<1>4. \A i \in DOMAIN FeedAac(p).out : ~IsFrame(FeedAac(p).out[i])
  BY DEF FeedAac, Result, IsFrame, Frames
<1>5. \A i \in DOMAIN FeedPcma(p).out : ~IsFrame(FeedPcma(p).out[i])
  BY DEF FeedPcma, Result, IsFrame, Frames
<1>6. \A i \in DOMAIN FeedPassthrough(p).out : ~IsFrame(FeedPassthrough(p).out[i])
  BY DEF FeedPassthrough, Result, IsFrame, Frames
<1>7. DOMAIN Result(header, fu, <<>>).out = {}
  BY DEF Result
<1> QED BY <1>1, <1>3, <1>4, <1>5, <1>6, <1>7

\* The media is set up.
LEMMA HeaderSetUp ==
  ASSUME HeaderInv, Unused, NotSetUp, SetupTrack
  PROVE  HeaderInv' /\ OutInv'
<1>1. /\ sdp # None /\ out' = out /\ camera' = camera
  BY DEF SetupTrack
<1>2. PICK fmtp : /\ header' = InitFromFmtp(codec', fmtp)
                  /\ told' = IF header'.record = None THEN {} ELSE SetsOf(codec')
  BY Zenon DEF SetupTrack
<1>3. camera'.config = 1 /\ DOMAIN out' = {}
  BY <1>1 DEF Unused, NotSetUp, Playing
<1>4. OutInv'
  BY <1>3 DEF OutInv, FramesOut, OutOf
<1>5. ASSUME SetsOf(codec') # {}
      PROVE  /\ HeaderOf(header)' /\ told' \subseteq SetsOf(codec')
             /\ \A t \in told' : header'.sets[t] = 1
             /\ ~header'.emitted
  <2>1. CASE fmtp # "sprop"
    <3>1. header' = [sets |-> [t \in SetsOf(codec') |-> 0], record |-> None,
                     emitted |-> FALSE]
      BY <1>2, <2>1 DEF InitFromFmtp
    <3>2. told' = {}
      BY <1>2, <3>1
    <3>3. PICK sets : sets = [t \in SetsOf(codec') |-> 0]
      OBVIOUS
    <3>4. sets \in [SetsOf(codec') -> Nat] /\ \A t \in SetsOf(codec') : sets[t] = 0
      BY <3>3
    <3>5. header' = [sets |-> sets, record |-> None, emitted |-> FALSE]
      BY <3>1, <3>3
    <3>6. HeaderOf(header)'
      BY <1>5, <3>4, <3>5 DEF HeaderOf, Sets
    <3> QED BY <3>2, <3>5, <3>6
  <2>2. CASE fmtp = "sprop"
    <3>1. PICK sets : sets = [t \in SetsOf(codec') |-> 1]
      OBVIOUS
    <3>2. /\ sets \in [SetsOf(codec') -> Nat]
          /\ \A t \in SetsOf(codec') : sets[t] = 1
      BY <3>1
    <3>3. ConfigRecord(sets) = sets /\ sets # None
      BY <1>5, <3>2, RecordIsSets
    <3>4. header' = [sets |-> sets, record |-> sets, emitted |-> FALSE]
      BY <1>2, <1>5, <2>2, <3>1, <3>3 DEF InitFromFmtp
    <3>5. told' = SetsOf(codec')
      BY <1>2, <3>3, <3>4
    <3>6. HeaderOf(header)'
      BY <1>5, <3>2, <3>4 DEF HeaderOf, Sets
    <3> QED BY <3>2, <3>4, <3>5, <3>6
  <2> QED BY <2>1, <2>2
<1>6. HeaderInv'
  <2>1. Video' => SetsOf(codec') # {}
    BY DEF Video
  <2> QED BY <1>3, <1>5, <2>1 DEF HeaderInv
<1> QED BY <1>4, <1>6

(***************************************************************************)
(* A unit that began under an earlier configuration.                       *)
(***************************************************************************)

\* The last packet in step is of this picture, and came before the unit
\* that is being sent.
Behind(j) ==
  /\ camera.since <= j /\ j < camera.sent
  /\ lastSeq = (FirstSeq + j) % SeqRange
  /\ camera.part < camera.count => j < camera.first

\* The fragments that are held are of time t.  Those of an earlier
\* configuration are behind the sets the track was told of since.
Source(t) ==
  /\ fu.ts = (FirstTs + t) % TsRange
  /\ t <= camera.latest /\ (camera.hole => t # camera.latest - 1)
  /\ t = camera.at /\ told # {} /\ fu.nal.config # camera.config =>
       \E j \in Nat : Behind(j)

FuSource == Video /\ fu.started => \E t \in 0..MaxTime : Source(t)

LEMMA FuSourceInit == Init => FuSource
BY DEF Init, FuSource, NoFragment

LEMMA Fresh ==
  ASSUME CameraInv, CameraUnit, FuSource, NEW p, NextFed(p),
         NEW f, f = FragmentsAfterGap(p), f.started, p.ts = f.ts, told # {}
  PROVE  f.nal.config = camera.config
<1> SUFFICES ASSUME f.nal.config # camera.config PROVE FALSE
  OBVIOUS
<1>1. f = fu /\ ~Gap(p.seq)
  BY DEF FragmentsAfterGap, NoFragment
<1>2. /\ Stamped(p) /\ camera.part < camera.count
      /\ camera.sent - camera.since < MaxBurst
  BY DEF NextFed, Continues, Onward
<1>3. camera.part \in Nat /\ camera.count \in Nat /\ camera.count > 0
  BY <1>2 DEF CameraInv, Cameras
<1>4. Video /\ camera.first < camera.sent
  BY <1>2, <1>3 DEF CameraUnit, FragmentsOfVideo, UnitSent
<1>5. PICK t \in 0..MaxTime : Source(t)
  BY <1>1, <1>4 DEF FuSource
<1>6. t = camera.at
  <2>1. (FirstTs + t) % TsRange = (FirstTs + camera.at) % TsRange
    BY <1>1, <1>2, <1>5 DEF Source, Stamped
  <2>2. camera.at \in 0..MaxTime
    BY DEF CameraInv, Cameras
  <2> QED BY <2>1, <2>2, TimesApart
<1>7. PICK j \in Nat : Behind(j)
  BY <1>1, <1>5, <1>6 DEF Source
<1> DEFINE a == FirstSeq + camera.sent
           b == FirstSeq + j
<1>8. /\ SeqRange \in Int /\ SeqRange > 0 /\ a \in Int /\ b \in Int
      /\ a - b \in 0..(SeqRange - 1)
      /\ a - b \in 2..(GapLimit - 1)
  <2>1. camera.sent \in Nat /\ camera.since \in Nat /\ camera.first \in Nat
    BY DEF CameraInv, Cameras
  <2>2. camera.since <= j /\ j < camera.first
    BY <1>2, <1>7 DEF Behind
  <2> QED BY <1>2, <1>4, <2>1, <2>2, DepayloaderAssumption
<1>9. lastSeq = b % SeqRange /\ p.seq = a % SeqRange
  BY <1>2, <1>7 DEF Behind, Stamped
<1> HIDE DEF a, b
<1>10. (p.seq - lastSeq) % SeqRange = a - b
  <2>1. ((a % SeqRange) - (b % SeqRange)) % SeqRange = a - b
    BY <1>8, Distance
  <2> QED BY <1>9, <2>1, Zenon
<1>11. lastSeq >= 0
  BY <1>8, <1>9, ModDef
<1>12. Gap(p.seq)
  BY <1>8, <1>10, <1>11 DEF Gap
<1> QED BY <1>1, <1>12

\* The fragments are kept, and the camera is where it was or later in the
\* picture.
LEMMA SourceKept ==
  ASSUME CameraInv, FuSource, Video' => Video, fu' = fu, lastSeq' = lastSeq,
         told' = told, camera'.config = camera.config,
         camera'.since = camera.since, camera'.at = camera.at,
         camera'.latest = camera.latest, camera'.hole = camera.hole,
         camera'.sent \in {camera.sent, camera.sent + 1},
         \/ camera'.part = 0 /\ camera'.count = 0
         \/ camera'.first = camera.sent
         \/ camera'.first = camera.first /\ camera.part < camera.count
  PROVE  FuSource'
<1> SUFFICES ASSUME Video', fu'.started PROVE FuSource'
  BY DEF FuSource
<1>1. PICK t \in 0..MaxTime : Source(t)
  BY DEF FuSource
<1>2. camera.sent \in Nat
  BY DEF CameraInv, Cameras
<1>3. ASSUME NEW j \in Nat, Behind(j) PROVE Behind(j)'
  BY <1>2, <1>3 DEF Behind
<1>4. Source(t)'
  BY <1>1, <1>3 DEF Source
<1> QED BY <1>4 DEF FuSource

\* Units that are no fragments put the track in step, behind which are the
\* fragments it held.
LEMMA SourceUnits ==
  ASSUME CameraInv, FuSource, NEW p, UnitsFed(p)
  PROVE  FuSource'
<1>1. /\ Video /\ Stamped(p) /\ Return(p, Fed(p)) /\ p.kind # "empty"
      /\ p.kind \in {"single", "aggregate", "unsupported"} /\ Units(p)
      /\ camera'.sent = camera.sent + 1
      /\ camera'.since = camera.since /\ camera'.at = camera.at
      /\ camera'.latest = camera.latest /\ camera'.hole = camera.hole
      /\ camera'.config = camera.config
      /\ camera'.part = 0 /\ camera'.count = 0
  BY DEF UnitsFed, Feed, Onward, Leaves, OfConfig
<1>2. fu' = FragmentsAfterGap(p)
  BY <1>1, FedUnits DEF Return
<1> SUFFICES ASSUME fu'.started PROVE FuSource'
  BY DEF FuSource
<1>3. fu' = fu /\ ~Gap(p.seq)
  BY <1>2 DEF FragmentsAfterGap, NoFragment
<1>4. lastSeq' = (FirstSeq + camera.sent) % SeqRange
  BY <1>1, <1>3 DEF Return, Stamped
<1>5. PICK t \in 0..MaxTime : Source(t)
  BY <1>1, <1>3 DEF FuSource
<1>6. PICK j \in Nat : j = camera.sent
  BY DEF CameraInv, Cameras
<1>7. Behind(j)'
  <2>1. camera.since <= j /\ camera.since \in Nat
    BY <1>6 DEF CameraInv, Cameras, Ordered
  <2> QED BY <1>1, <1>4, <1>6, <2>1 DEF Behind
<1>8. Source(t)'
  BY <1>1, <1>3, <1>5, <1>7 DEF Source
<1> QED BY <1>8 DEF FuSource

\* The first fragment that arrives is of this configuration.
LEMMA SourceFirst ==
  ASSUME CameraInv, NEW p, NEW n, FirstFed(p, n)
  PROVE  FuSource'
<1>1. /\ Video /\ Stamped(p) /\ Return(p, Fed(p)) /\ p.kind = "fragment"
      /\ p.part = 1 /\ p.nals = <<Nal("inter")>>
      /\ camera'.at = camera.at /\ camera'.latest = camera.latest
      /\ camera'.hole = camera.hole /\ camera'.config = camera.config
  BY DEF FirstFed, Feed, Onward
<1>2. Fed(p).fu = FragmentLeft(p, FragmentsAfterGap(p))
  <2>1. EndsGood(p, FragmentsAfterGap(p))
    BY <1>1 DEF EndsGood
  <2> QED BY <1>1, <2>1, FedFragment
<1>3. fu'.ts = p.ts /\ fu'.nal = Nal("inter")
  BY <1>1, <1>2 DEF FragmentLeft, Return
<1>4. fu'.nal.config = camera'.config
  BY <1>1, <1>3 DEF Nal
<1>5. PICK t \in 0..MaxTime : t = camera.at
  BY DEF CameraInv, Cameras
<1>6. t <= camera.latest /\ (camera.hole => t # camera.latest - 1)
  BY <1>5, DepayloaderAssumption DEF CameraInv, Cameras, Ordered
<1>7. Source(t)'
  BY <1>1, <1>3, <1>4, <1>5, <1>6 DEF Source, Stamped
<1> QED BY <1>7 DEF FuSource

\* A fragment that follows.
LEMMA SourceNext ==
  ASSUME CameraInv, FuInv, CameraUnit, FuSource, NEW p, NextFed(p)
  PROVE  FuSource'
<1>1. /\ Stamped(p) /\ Return(p, Fed(p)) /\ p.kind = "fragment"
      /\ p.part = camera.part + 1 /\ camera.part < camera.count
      /\ camera'.at = camera.at /\ camera'.latest = camera.latest
      /\ camera'.hole = camera.hole /\ camera'.config = camera.config
      /\ UNCHANGED mediaVars
  BY FeedKeeps DEF NextFed, Feed, Onward, Continues
<1>2. Video /\ p.part # 1
  BY <1>1 DEF CameraUnit, FragmentsOfVideo, CameraInv, Cameras, Ordered
<1>3. told' = told
  <2>1. p.nals = <<camera.nal>> /\ camera.nal = Nal("inter")
    BY <1>1 DEF NextFed, CameraUnit, UnitSent
  <2>2. camera.nal.type = "inter" /\ "inter" \notin SetsOf(codec)
    BY <2>1 DEF Nal, SetsOf
  <2>3. DOMAIN p.nals = {1} /\ p.nals[1] = camera.nal
    BY <2>1
  <2> QED BY <1>1, <2>2, <2>3 DEF Return
<1> SUFFICES ASSUME fu'.started PROVE FuSource'
  BY DEF FuSource
<1>4. PICK f : f = FragmentsAfterGap(p)
  OBVIOUS
<1>5. HandleFuA(p, header, f).fu = fu' \/ HandleFuA(p, Emitted(header), f).fu = fu'
  <2>1. CASE Fed(p) = FeedH265(p)
    BY <1>1, <1>4, <2>1 DEF FeedH265, HandleFu, Return
  <2>2. CASE Fed(p) = FeedH264(p)
    <3>1. PICK r : r = HandleFuA(p, Emitted(header), f)
      OBVIOUS
    <3>2. FeedH264(p) = [r EXCEPT !.out = Pending(header) \o @]
      BY <1>1, <1>4, <3>1 DEF FeedH264
    <3>3. r = Result(r.header, r.fu, r.out)
      BY <3>1 DEF HandleFuA, Result
    <3>4. Fed(p).fu = r.fu
      BY <2>2, <3>2, <3>3 DEF Result
    <3> QED BY <1>1, <3>1, <3>4 DEF Return
  <2> QED BY <1>1, <1>2, <2>1, <2>2, FedVideo
<1>6. /\ f.started /\ p.ts = f.ts
      /\ fu' = [f EXCEPT !.parts = Append(f.parts, <<p.first, p.part, p.count>>)]
  <2>1. \A h : HandleFuA(p, h, f).fu =
          IF ~f.started \/ p.ts # f.ts \/ p.part = p.count THEN NoFragment
          ELSE [f EXCEPT !.parts = Append(f.parts, <<p.first, p.part, p.count>>)]
    BY <1>2 DEF HandleFuA, Result
  <2> QED BY <1>5, <2>1 DEF NoFragment
<1>7. f \in FuType
  BY <1>4, NoFragmentType DEF FragmentsAfterGap, FuInv, TrackType
<1>8. fu'.ts = f.ts /\ fu'.nal = f.nal /\ f = fu
  <2>1. f = fu
    BY <1>4, <1>6 DEF FragmentsAfterGap, NoFragment
  <2>2. fu' = [f EXCEPT !.parts = Append(f.parts, <<p.first, p.part, p.count>>)]
    BY <1>6
  <2>3. fu'.ts = f.ts /\ fu'.nal = f.nal
    <3>1. f = [started |-> f.started, ts |-> f.ts, nal |-> f.nal,
               parts |-> f.parts, inStep |-> f.inStep]
      BY <1>7 DEF FuType
    <3> QED BY <2>2, <3>1
  <2> QED BY <2>1, <2>3
<1>9. told # {} => fu'.nal.config = camera'.config
  <2>1. told # {} => f.nal.config = camera.config
    BY <1>1, <1>4, <1>6, Fresh
  <2> QED BY <1>1, <1>8, <2>1
<1>10. PICK t \in 0..MaxTime : Source(t)
  BY <1>2, <1>6, <1>8 DEF FuSource
<1>11. Source(t)'
  BY <1>1, <1>3, <1>8, <1>9, <1>10 DEF Source
<1> QED BY <1>11 DEF FuSource

LEMMA MissedMoves ==
  ASSUME CameraInv, Missed
  PROVE  /\ UNCHANGED mediaVars /\ header' = header /\ fu' = fu
         /\ lastSeq' = lastSeq /\ told' = told /\ viewer' = viewer
         /\ DOMAIN out' = {}
         /\ camera'.config = camera.config /\ camera'.sent = camera.sent + 1
         /\ camera'.since = camera.since /\ camera'.at = camera.at
         /\ camera'.latest = camera.latest /\ camera'.hole = camera.hole
         /\ \/ camera'.part = 0 /\ camera'.count = 0
            \/ camera'.first = camera.sent
            \/ camera'.first = camera.first /\ camera.part < camera.count
<1>1. Miss /\ Onward
  BY Zenon DEF Missed
<1>2. \/ camera'.part = 0 /\ camera'.count = 0
      \/ camera'.first = camera.sent
      \/ camera'.first = camera.first /\ camera.part < camera.count
  BY Zenon DEF Missed, Leaves, Begins, Continues
<1> QED BY <1>1, <1>2 DEF Miss, Onward, trackVars

LEMMA FuSourceStep ==
  ASSUME CameraInv, NotSetUp, FuInv, CameraUnit, FuSource, [Next]_vars
  PROVE  FuSource'
<1>1. ASSUME NEW p, UnitsFed(p) PROVE FuSource'
  BY <1>1, SourceUnits
<1>2. ASSUME NEW p, NEW n, FirstFed(p, n) PROVE FuSource'
  BY <1>2, SourceFirst
<1>3. ASSUME NEW p, NextFed(p) PROVE FuSource'
  BY <1>3, SourceNext
<1>4. ASSUME NEW p, OtherFed(p) PROVE FuSource'
  <2>1. /\ UNCHANGED mediaVars /\ p.nals = <<>> /\ Return(p, Fed(p))
        /\ Playing /\ (Video => p.kind = "empty")
        /\ camera'.config = camera.config /\ camera'.sent = camera.sent + 1
        /\ camera'.since = camera.since /\ camera'.at = camera.at
        /\ camera'.latest = camera.latest /\ camera'.hole = camera.hole
        /\ camera'.part = 0 /\ camera'.count = 0
    BY <1>4, FeedKeeps, Zenon DEF OtherFed, Feed, Leaves
  <2>2. told' = told
    <3>1. DOMAIN p.nals = {}
      BY <2>1
    <3> QED BY <2>1, <3>1 DEF Return
  <2>3. fu' = fu
    BY <2>1, FedOther DEF Return
  <2>4. Video => lastSeq' = lastSeq
    BY <2>1 DEF Return
  <2>5. Video' <=> Video
    BY <2>1, MediaKept
  <2>6. CASE Video
    BY <2>1, <2>2, <2>3, <2>4, <2>5, <2>6, SourceKept
  <2> QED BY <2>5, <2>6 DEF FuSource
<1>5. CASE Missed
  <2>1. Video' <=> Video
    BY <1>5, MissedMoves, MediaKept
  <2> QED BY <1>5, <2>1, MissedMoves, SourceKept
<1>6. CASE NextPicture
  <2>1. /\ UNCHANGED mediaVars /\ fu' = fu /\ lastSeq' = lastSeq
        /\ told' = told
    BY <1>6 DEF NextPicture, trackVars, ghosts
  <2>2. PICK u \in {camera.latest - 1, camera.latest + 1, camera.latest + 2} :
          /\ u < camera.latest => camera.hole
          /\ camera'.at = u
          /\ camera'.latest = IF u > camera.latest THEN u ELSE camera.latest
          /\ camera'.hole => u > camera.latest + 1
    <3>1. PICK u \in {camera.latest - 1, camera.latest + 1, camera.latest + 2} :
            /\ u <= MaxTime
            /\ u < camera.latest => camera.hole
            /\ camera' = [NoUnit EXCEPT !.at = u, !.since = camera.sent,
                                        !.latest = IF u > @ THEN u ELSE @,
                                        !.hole = u > camera.latest + 1]
      BY <1>6, Zenon DEF NextPicture
    <3> QED BY <3>1 DEF NoUnit, CameraInv, Cameras
  <2>3. camera.latest \in Nat /\ camera.hole \in BOOLEAN
    BY DepayloaderAssumption DEF CameraInv, Cameras
  <2>4. Video' <=> Video
    BY <2>1, MediaKept
  <2> SUFFICES ASSUME Video, fu.started PROVE FuSource'
    BY <2>1, <2>4 DEF FuSource
  <2>5. PICK t \in 0..MaxTime : Source(t)
    BY DEF FuSource
  <2>6. t <= camera.latest /\ (camera.hole => t # camera.latest - 1) /\ t \in Nat
    BY <2>5, DepayloaderAssumption DEF Source
  <2>7. /\ t # camera'.at /\ t <= camera'.latest
        /\ camera'.hole => t # camera'.latest - 1
    BY <2>2, <2>3, <2>6
  <2>8. Source(t)'
    BY <2>1, <2>5, <2>7 DEF Source
  <2> QED BY <2>8 DEF FuSource
<1>7. CASE Reconfigure
  <2>1. UNCHANGED mediaVars /\ fu' = fu /\ told' = {}
    BY <1>7 DEF Reconfigure, trackVars
  <2>2. Video' <=> Video
    BY <2>1, MediaKept
  <2>3. camera'.latest = camera.latest /\ camera'.hole = camera.hole
    BY <1>7, ReconfigureFields
  <2> SUFFICES ASSUME Video, fu.started PROVE FuSource'
    BY <2>1, <2>2 DEF FuSource
  <2>4. PICK t \in 0..MaxTime : Source(t)
    BY DEF FuSource
  <2>5. Source(t)'
    BY <2>1, <2>3, <2>4 DEF Source
  <2> QED BY <2>5 DEF FuSource
<1>8. CASE ReadLine \/ SetupTrack
  <2>1. fu' = fu /\ ~Playing
    BY <1>8 DEF ReadLine, SetupTrack, trackVars, Playing
  <2> QED BY <2>1 DEF FuSource, CameraUnit, Unused
<1>9. CASE UNCHANGED vars
  <2>1. /\ fu' = fu /\ lastSeq' = lastSeq /\ told' = told /\ camera' = camera
        /\ UNCHANGED mediaVars
    BY <1>9 DEF vars, trackVars, ghosts
  <2>2. Video' <=> Video
    BY <2>1, MediaKept
  <2> SUFFICES ASSUME Video, fu.started PROVE FuSource'
    BY <2>1, <2>2 DEF FuSource
  <2>3. PICK t \in 0..MaxTime : Source(t)
    BY DEF FuSource
  <2>4. Source(t)'
    BY <2>1, <2>3 DEF Source, Behind
  <2> QED BY <2>4 DEF FuSource
<1> QED BY <1>1, <1>2, <1>3, <1>4, <1>5, <1>6, <1>7, <1>8, <1>9, Moves

LEMMA HeaderStep ==
  ASSUME CameraInv, NotSetUp, CameraUnit, Undescribed, FuSource,
         HeaderInv, OutInv, [Next]_vars
  PROVE  HeaderInv' /\ OutInv'
<1>0. camera.config \in Nat \ {0}
  BY DEF HeaderInv
<1>1. ASSUME NEW p, UnitsFed(p) PROVE HeaderInv' /\ OutInv'
  <2>1. /\ Video /\ Return(p, Fed(p)) /\ OfConfig(p)
        /\ p.kind \in {"single", "aggregate", "unsupported"}
        /\ p.kind = "unsupported" => p.nals = <<>>
        /\ camera'.config = camera.config
    BY <1>1 DEF UnitsFed, Feed, Onward
  <2>2. p.kind = "unsupported" => NoSets(p)
    <3>1. DOMAIN <<>> = {}
      OBVIOUS
    <3> QED BY <2>1, <3>1 DEF NoSets
  <2>3. HeaderOf(header)
    BY <2>1 DEF HeaderInv
  <2>4. Right(p, header, Fed(p), camera.config)
    BY <1>0, <2>1, <2>2, <2>3, FedRight
  <2> QED BY <2>1, <2>4, FeedHeader
<1>2. ASSUME NEW p, NEW n, FirstFed(p, n) PROVE HeaderInv' /\ OutInv'
  <2>1. /\ Video /\ Return(p, Fed(p)) /\ p.kind = "fragment" /\ p.part = 1
        /\ p.nals = <<Nal("inter")>> /\ camera'.config = camera.config
    BY <1>2 DEF FirstFed, Feed, Onward
  <2>2. NoSets(p) /\ EndsOf(p, FragmentsAfterGap(p), camera.config)
    <3>1. Nal("inter").type \notin SetsOf(codec)
      BY DEF Nal, SetsOf
    <3>2. NoSets(p)
      BY <2>1, <3>1 DEF NoSets
    <3> QED BY <2>1, <3>2 DEF EndsOf
  <2>3. HeaderOf(header)
    BY <2>1 DEF HeaderInv
  <2>4. Right(p, header, Fed(p), camera.config)
    BY <1>0, <2>1, <2>2, <2>3, FedRight
  <2> QED BY <2>1, <2>4, FeedHeader
<1>3. ASSUME NEW p, NextFed(p) PROVE HeaderInv' /\ OutInv'
  <2>1. /\ Return(p, Fed(p)) /\ p.kind = "fragment" /\ camera.part < camera.count
        /\ p.nals = <<camera.nal>> /\ camera'.config = camera.config
    BY <1>3 DEF NextFed, Feed, Onward, Continues
  <2>2. Video
    BY <2>1 DEF CameraUnit, FragmentsOfVideo, CameraInv, Cameras
  <2>3. NoSets(p)
    <3>1. camera.nal = Nal("inter")
      BY <2>1 DEF CameraUnit, UnitSent
    <3>2. Nal("inter").type \notin SetsOf(codec)
      BY DEF Nal, SetsOf
    <3> QED BY <2>1, <3>1, <3>2 DEF NoSets
  <2>4. HeaderOf(header)
    BY <2>2 DEF HeaderInv
  <2>5. PICK f : f = FragmentsAfterGap(p)
    OBVIOUS
  <2>6. PICK c : c = IF told # {} THEN camera.config ELSE f.nal.config
    OBVIOUS
  <2>7. EndsOf(p, f, c)
    BY <1>3, <2>5, <2>6, Fresh DEF EndsOf
  <2>8. Right(p, header, Fed(p), c)
    BY <1>0, <2>1, <2>2, <2>3, <2>4, <2>5, <2>7, FedRight
  <2>9. told' = told
    <3>1. DOMAIN p.nals = {1}
      BY <2>1
    <3> QED BY <2>1, <2>3, <3>1 DEF Return, NoSets
  <2> QED BY <2>1, <2>2, <2>6, <2>8, <2>9, FeedHeader
<1>4. ASSUME NEW p, OtherFed(p) PROVE HeaderInv' /\ OutInv'
  <2>1. /\ UNCHANGED mediaVars /\ p.nals = <<>> /\ Return(p, Fed(p))
        /\ Playing /\ (Video => p.kind = "empty")
        /\ camera'.config = camera.config
    BY <1>4, FeedKeeps, Zenon DEF OtherFed, Feed
  <2>2. told' = told
    <3>1. DOMAIN p.nals = {}
      BY <2>1
    <3> QED BY <2>1, <3>1 DEF Return
  <2>3. CASE Video
    <3>1. TrackOf(codec) # "PassthroughDepayloader"
      BY <2>3 DEF Video, SetsOf
    <3>2. Fed(p) = Result(header, fu, <<>>)
      BY <2>1, <2>3, <3>1 DEF Fed
    <3>3. Fed(p).header = header /\ Fed(p).out = <<>> /\ DOMAIN <<>> = {}
      BY <3>2 DEF Result
    <3>4. header' = header /\ viewer' = viewer /\ DOMAIN out' = {}
      BY <2>1, <3>3 DEF Return, Seen
    <3> QED BY <1>0, <2>1, <2>2, <3>4, HeaderKept
  <2>4. CASE ~Video
    <3>1. ~FramesOut'
      <4>1. \A i \in DOMAIN Fed(p).out : ~IsFrame(Fed(p).out[i])
        BY <2>1, <2>4, FedSound
      <4>2. DOMAIN out' = DOMAIN Fed(p).out
        BY <2>1 DEF Return
      <4>3. \A i \in DOMAIN out' : out'[i].packet = Fed(p).out[i]
        BY <2>1 DEF Return
      <4> QED BY <4>1, <4>2, <4>3 DEF FramesOut
    <3>2. OutInv'
      BY <3>1 DEF OutInv, FramesOut, OutOf
    <3>3. ~Video'
      BY <2>1, <2>4, MediaKept
    <3> QED BY <1>0, <2>1, <3>2, <3>3 DEF HeaderInv
  <2> QED BY <2>3, <2>4
<1>5. CASE Missed
  BY <1>0, <1>5, MissedMoves, HeaderKept
<1>6. CASE NextPicture
  <2>1. /\ UNCHANGED mediaVars /\ header' = header /\ viewer' = viewer
        /\ told' = told /\ DOMAIN out' = {}
    BY <1>6 DEF NextPicture, trackVars, ghosts
  <2>2. camera'.config = camera.config
    BY <1>6, PictureFields
  <2> QED BY <1>0, <2>1, <2>2, HeaderKept
<1>7. CASE Reconfigure
  <2>1. /\ UNCHANGED mediaVars /\ header' = header /\ viewer' = viewer
        /\ told' = {} /\ DOMAIN out' = {}
    BY <1>7 DEF Reconfigure, trackVars
  <2>2. camera'.config \in Nat \ {0}
    BY <1>0, <1>7, ReconfigureFields
  <2> QED BY <2>1, <2>2, HeaderKept
<1>8. CASE ReadLine
  <2>1. codec' = codec /\ codec = None /\ camera' = camera /\ out' = out
    BY <1>8 DEF ReadLine, Undescribed
  <2>2. ~Video'
    BY <2>1, DepayloaderAssumption DEF Video, SetsOf, TrackOf
  <2>3. DOMAIN out' = {}
    BY <1>8, <2>1 DEF ReadLine, NotSetUp
  <2>4. OutInv'
    BY <2>3 DEF OutInv, FramesOut, OutOf
  <2> QED BY <1>0, <2>1, <2>2, <2>4 DEF HeaderInv
<1>9. CASE SetupTrack
  BY <1>9, HeaderSetUp DEF CameraUnit
<1>10. CASE UNCHANGED vars
  <2>1. /\ UNCHANGED mediaVars /\ header' = header /\ viewer' = viewer
        /\ told' = told /\ out' = out /\ camera' = camera
    BY <1>10 DEF vars, trackVars, ghosts
  <2>2. codec' = codec /\ SetsOf(codec)' = SetsOf(codec) /\ (Video' <=> Video)
    BY <2>1, MediaKept DEF mediaVars
  <2>3. HeaderOf(header)' <=> HeaderOf(header)
    BY <2>1, <2>2 DEF HeaderOf, Sets
  <2>4. HeaderInv'
    BY <2>1, <2>2, <2>3 DEF HeaderInv
  <2>5. (FramesOut' <=> FramesOut) /\ (OutOf(camera.config)' <=> OutOf(camera.config))
    BY <2>1 DEF FramesOut, OutOf
  <2>6. OutInv'
    BY <2>1, <2>2, <2>5 DEF OutInv
  <2> QED BY <2>4, <2>6
<1> QED BY <1>1, <1>2, <1>3, <1>4, <1>5, <1>6, <1>7, <1>8, <1>9, <1>10, Moves

\* UnderItsHeader: whatever order _tryBuildConfig gets the parameter sets
\* in, whatever is lost between them and wherever the encoder changes its
\* configuration, a frame that a viewer is sent after them has their header
\* before it, even one that is put together from fragments.
THEOREM FramesUnderHeader == Spec => []UnderItsHeader
<1> DEFINE IInv == /\ CameraInv /\ NotSetUp /\ FuInv /\ CameraUnit
                   /\ Undescribed /\ FuSource /\ HeaderInv /\ OutInv
<1>1. Init => IInv
  BY CameraInit, NotSetUpInit, FuInit, CameraUnitInit, UndescribedInit,
     FuSourceInit, HeaderInit
<1>2. IInv /\ [Next]_vars => IInv'
  BY CameraStep, NotSetUpStep, FuStep, CameraUnitStep, UndescribedStep,
     FuSourceStep, HeaderStep
<1>3. IInv => UnderItsHeader
  <2> SUFFICES ASSUME HeaderInv, OutInv, told = SetsOf(codec),
                      NEW a \in NalsOut, NEW i \in DOMAIN a.units
               PROVE  viewer = [t \in SetsOf(codec) |-> a.units[i].config]
    BY DEF UnderItsHeader
  <2>1. PICK k \in DOMAIN out : out[k].packet = a /\ IsFrame(a)
    BY DEF NalsOut, IsFrame
  <2>2. Video /\ (header.record # None => header.emitted)
    BY <2>1 DEF OutInv, FramesOut
  <2>3. SetsOf(codec) # {}
    BY <2>2 DEF Video
  <2>4. a.units[i].config = camera.config
    BY <2>1, <2>3 DEF OutInv, OutOf
  <2>5. /\ camera.config \in Nat \ {0} /\ HeaderOf(header)
        /\ \A t \in SetsOf(codec) : header.sets[t] = camera.config
        /\ header.emitted => viewer = header.record
    BY <2>2 DEF HeaderInv
  <2>6. header.sets \in [SetsOf(codec) -> Nat] /\ header.record = header.sets
    BY <2>5 DEF HeaderOf, Sets
  <2>7. header.record # None
    BY <2>3, <2>6, RecordIsSets
  <2>8. viewer = header.sets
    BY <2>2, <2>5, <2>6, <2>7
  <2>9. header.sets = [t \in SetsOf(codec) |-> camera.config]
    BY <2>5, <2>6
  <2> QED BY <2>4, <2>8, <2>9
<1> QED BY <1>1, <1>2, <1>3, PTL DEF Spec

(***************************************************************************)
(* The sections of a session description.                                  *)
(***************************************************************************)

IsSession(s) ==
  s = [fields |-> s.fields, connection |-> s.connection,
       bandwidth |-> s.bandwidth, attributes |-> s.attributes,
       media |-> s.media, current |-> s.current]

IsMedia(m) ==
  m = [type |-> m.type, payloadType |-> m.payloadType, codec |-> m.codec,
       clockRate |-> m.clockRate, channels |-> m.channels, fmtp |-> m.fmtp,
       control |-> m.control, direction |-> m.direction,
       connection |-> m.connection, bandwidth |-> m.bandwidth,
       attributes |-> m.attributes]

Accepted(lines) ==
  {i \in DOMAIN lines : lines[i].type = "m" /\ lines[i].complete}

\* The lines after `from`, up to the next m= line.
After(lines, from) ==
  {i \in DOMAIN lines : from < i /\ \A j \in (from + 1)..i : lines[j].type # "m"}

\* Those of key `key` for the payload type pt.
OfType(lines, from, pt, key) ==
  {i \in {i \in After(lines, from) : lines[i].type = "a" /\ lines[i].pt = pt} :
     lines[i].key = key}

\* A media has what the section after `from` gives it.
Agrees(m, lines, from) ==
  /\ IsMedia(m)
  /\ LET maps == OfType(lines, from, m.payloadType, "rtpmap")
         fmtps == OfType(lines, from, m.payloadType, "fmtp")
     IN /\ <<m.codec, m.clockRate>> =
             IF maps = {} THEN <<"", 0>>
             ELSE <<lines[Max(maps)].codec, lines[Max(maps)].rate>>
        /\ m.fmtp = IF fmtps = {} THEN None ELSE lines[Max(fmtps)].params

Ended(lines, from) == \E j \in DOMAIN lines : from < j /\ lines[j].type = "m"

\* at[k] is the line the k-th media began with.
Places(at, lines, media) ==
  /\ at \in [DOMAIN media -> DOMAIN lines]
  /\ \A k \in DOMAIN media : at[k] \in Accepted(lines)
  /\ \A k, l \in DOMAIN media : k < l => at[k] < at[l]
  /\ \A i \in Accepted(lines) : \E k \in DOMAIN media : at[k] = i

Located(at, lines, session) ==
  /\ Places(at, lines, session.media)
  /\ \A k \in DOMAIN session.media :
       /\ Agrees(session.media[k], lines, at[k])
       /\ k = session.current <=> ~Ended(lines, at[k])

\* What the lines read so far make of the session.
Described(lines, session) ==
  /\ lines \in Seq(Lines) /\ IsSession(session) /\ Listed(session.media)
  /\ session.current \in Nat
  /\ session.current > 0 => session.current = Len(session.media)
  /\ \E at : Located(at, lines, session)

SectionInv == sdp # None => Described(sdp.lines, sdp.session)

LEMMA SectionInit == Init => SectionInv
<1> SUFFICES ASSUME Init PROVE SectionInv
  OBVIOUS
<1>1. sdp = [lines |-> <<>>, session |-> EmptySession]
  BY DEF Init
<1>2. PICK session : session = EmptySession
  OBVIOUS
<1>3. session.media = <<>> /\ session.current = 0 /\ IsSession(session)
  BY <1>2 DEF EmptySession, IsSession
<1>4. DOMAIN <<>> = {} /\ <<>> \in Seq(Lines) /\ Listed(<<>>)
  BY ListedEmpty
<1>5. PICK at : at = [k \in {} |-> 0]
  OBVIOUS
<1>6. at \in [{} -> {}]
  BY <1>5
<1>7. Located(at, <<>>, session)
  BY <1>3, <1>4, <1>6 DEF Located, Places, Accepted
<1>8. Described(<<>>, session)
  BY <1>3, <1>4, <1>7 DEF Described
<1> QED BY <1>1, <1>2, <1>8 DEF SectionInv

LEMMA ListedExcept ==
  ASSUME NEW s, Listed(s), NEW i \in DOMAIN s, NEW x
  PROVE  /\ Listed([s EXCEPT ![i] = x]) /\ Len([s EXCEPT ![i] = x]) = Len(s)
         /\ DOMAIN [s EXCEPT ![i] = x] = DOMAIN s
         /\ \A k \in DOMAIN s :
              [s EXCEPT ![i] = x][k] = IF k = i THEN x ELSE s[k]
<1> DEFINE S == {s[k] : k \in DOMAIN s} \cup {x}
<1>1. s \in Seq(S) /\ x \in S
  <2>1. {s[k] : k \in DOMAIN s} \subseteq S
    OBVIOUS
  <2> QED BY <2>1 DEF Listed
<1> HIDE DEF S
<1>2. [s EXCEPT ![i] = x] \in Seq(S)
  BY <1>1
<1>3. Listed([s EXCEPT ![i] = x])
  <2>1. PICK u : u = [s EXCEPT ![i] = x]
    OBVIOUS
  <2>2. u \in Seq({u[k] : k \in DOMAIN u})
    <3>1. u \in Seq(S)
      BY <1>2, <2>1
    <3> QED BY <3>1, OwnElements, Zenon
  <2> QED BY <2>1, <2>2 DEF Listed
<1> QED BY <1>1, <1>2, <1>3

\* One more line.
LEMMA OneLine ==
  ASSUME NEW lines \in Seq(Lines), NEW line \in Lines
  PROVE  /\ Append(lines, line) \in Seq(Lines)
         /\ Len(lines) \in Nat /\ DOMAIN lines = 1..Len(lines)
         /\ DOMAIN Append(lines, line) = 1..(Len(lines) + 1)
         /\ \A i \in 1..Len(lines) : Append(lines, line)[i] = lines[i]
         /\ Append(lines, line)[Len(lines) + 1] = line
OBVIOUS

\* Grown is the description with one line more.
Grown(lines, grown, n, line) ==
  /\ DOMAIN lines = 1..n /\ DOMAIN grown = 1..(n + 1)
  /\ \A i \in 1..n : grown[i] = lines[i]
  /\ grown[n + 1] = line

AcceptedGrown(lines, grown, n, line) ==
  /\ Accepted(lines) \subseteq 1..n
  /\ Accepted(grown) = Accepted(lines) \cup
       (IF line.type = "m" /\ line.complete THEN {n + 1} ELSE {})

LEMMA AcceptedGrows ==
  ASSUME NEW lines, NEW grown, NEW n \in Nat, NEW line, Grown(lines, grown, n, line)
  PROVE  AcceptedGrown(lines, grown, n, line)
<1>1. \A i \in 1..(n + 1) : i \in 1..n \/ i = n + 1
  OBVIOUS
<1>2. \A i \in 1..n : i \in 1..(n + 1) /\ i # n + 1
  OBVIOUS
<1>3. n + 1 \in 1..(n + 1)
  OBVIOUS
<1> QED BY <1>1, <1>2, <1>3 DEF Accepted, Grown, AcceptedGrown

LEMMA EndedGrows ==
  ASSUME NEW lines, NEW grown, NEW n \in Nat, NEW line, Grown(lines, grown, n, line),
         NEW from \in 1..n
  PROVE  Ended(grown, from) <=> Ended(lines, from) \/ line.type = "m"
<1>1. \A i \in 1..(n + 1) : i \in 1..n \/ i = n + 1
  OBVIOUS
<1>2. \A i \in 1..n : i \in 1..(n + 1)
  OBVIOUS
<1>3. n + 1 \in 1..(n + 1) /\ from < n + 1
  OBVIOUS
<1> QED BY <1>1, <1>2, <1>3 DEF Ended, Grown

\* The section grows by the line, unless it ended or ends with it.
SectionGrown(lines, grown, n, line, from) ==
  /\ After(lines, from) \subseteq 1..n
  /\ After(grown, from) = After(lines, from) \cup
       (IF Ended(lines, from) \/ line.type = "m" THEN {} ELSE {n + 1})

LEMMA AfterGrows ==
  ASSUME NEW lines, NEW grown, NEW n \in Nat, NEW line, Grown(lines, grown, n, line),
         NEW from \in 1..n
  PROVE  SectionGrown(lines, grown, n, line, from)
<1>1. After(lines, from) \subseteq 1..n
  BY DEF After, Grown
<1>2. ASSUME NEW i \in 1..n PROVE i \in After(grown, from) <=> i \in After(lines, from)
  <2>1. i \in 1..(n + 1)
    OBVIOUS
  <2>2. \A j \in (from + 1)..i : j \in 1..n /\ grown[j] = lines[j]
    BY DEF Grown
  <2> QED BY <2>1, <2>2 DEF After, Grown
<1>3. n + 1 \in After(grown, from) <=> ~(Ended(lines, from) \/ line.type = "m")
  <2>1. n + 1 \in After(grown, from) <=>
          \A j \in (from + 1)..(n + 1) : grown[j].type # "m"
    BY DEF After, Grown
  <2>2. \A j \in (from + 1)..(n + 1) : j = n + 1 \/ j \in (from + 1)..n
    OBVIOUS
  <2>3. \A j \in (from + 1)..n : j \in (from + 1)..(n + 1) /\ j \in 1..n
    OBVIOUS
  <2>4. n + 1 \in (from + 1)..(n + 1)
    OBVIOUS
  <2>5. Ended(lines, from) <=> \E j \in (from + 1)..n : lines[j].type = "m"
    BY DEF Ended, Grown
  <2> QED BY <2>1, <2>2, <2>3, <2>4, <2>5 DEF Grown
<1>4. After(grown, from) \subseteq 1..(n + 1)
  BY DEF After, Grown
<1>5. \A i \in 1..(n + 1) : i \in 1..n \/ i = n + 1
  OBVIOUS
<1>6. n + 1 \notin 1..n
  OBVIOUS
<1> QED BY <1>1, <1>2, <1>3, <1>4, <1>5, <1>6 DEF SectionGrown

LEMMA HasMax ==
  ASSUME NEW n \in Nat, NEW S, S \subseteq 1..n, S # {}
  PROVE  Max(S) \in S
<1> DEFINE T == {x \in Nat : n - x \in S}
<1>1. PICK x \in T : \A y \in T : x <= y
  <2>1. PICK i \in 1..n : i \in S
    OBVIOUS
  <2>2. n - i \in Nat /\ n - (n - i) = i
    OBVIOUS
  <2>3. n - i \in T
    BY <2>1, <2>2
  <2>4. T \in SUBSET Nat /\ T # {}
    BY <2>3
  <2> HIDE DEF T
  <2> QED BY <2>4, Least
<1>2. x \in Nat /\ n - x \in S
  BY <1>1
<1>3. ASSUME NEW y \in S PROVE n - x >= y
  <2>1. y \in 1..n
    BY <1>3
  <2>2. n - y \in Nat /\ n - (n - y) = y
    BY <2>1
  <2>3. n - y \in T
    BY <1>3, <2>2
  <2>4. x <= n - y
    BY <1>1, <2>3
  <2> QED BY <1>2, <2>1, <2>4
<1>4. S \subseteq Int
  OBVIOUS
<1> QED BY <1>2, <1>3, <1>4, MaxOf

\* The line goes on with the section, is of the key, and of the payload type.
IsNext(lines, from, line, pt, key) ==
  ~Ended(lines, from) /\ line.type = "a" /\ line.pt = pt /\ line.key = key

\* The lines a media looks at are the ones before, and the new one if it is
\* of its type and section.
TypeGrown(lines, grown, n, line, from, pt, key) ==
  /\ OfType(lines, from, pt, key) \subseteq 1..n
  /\ OfType(grown, from, pt, key) = OfType(lines, from, pt, key) \cup
       (IF IsNext(lines, from, line, pt, key) THEN {n + 1} ELSE {})

LEMMA TypeGrows ==
  ASSUME NEW lines, NEW grown, NEW n \in Nat, NEW line, Grown(lines, grown, n, line),
         NEW from \in 1..n, NEW pt, NEW key
  PROVE  TypeGrown(lines, grown, n, line, from, pt, key)
<1>1. /\ After(lines, from) \subseteq 1..n
      /\ After(grown, from) = After(lines, from) \cup
           (IF Ended(lines, from) \/ line.type = "m" THEN {} ELSE {n + 1})
  <2>1. SectionGrown(lines, grown, n, line, from)
    BY AfterGrows, Zenon
  <2> QED BY <2>1 DEF SectionGrown
<1>2. /\ \A i \in 1..n : grown[i] = lines[i]
      /\ grown[n + 1] = line
  BY DEF Grown
<1> DEFINE own == OfType(lines, from, pt, key)
           next == OfType(grown, from, pt, key)
           new == IsNext(lines, from, line, pt, key)
<1>3. \A i : i \in own <=> /\ i \in After(lines, from) /\ lines[i].type = "a"
                         /\ lines[i].pt = pt /\ lines[i].key = key
  BY DEF OfType
<1>4. \A i : i \in next <=> /\ i \in After(grown, from) /\ grown[i].type = "a"
                          /\ grown[i].pt = pt /\ grown[i].key = key
  BY DEF OfType
<1> HIDE DEF own, next
<1>5. own \subseteq 1..n
  BY <1>1, <1>3
<1>6. \A i \in 1..n : i # n + 1
  OBVIOUS
<1>7. ASSUME NEW i \in 1..n PROVE i \in next <=> i \in own
  BY <1>1, <1>2, <1>3, <1>4, <1>6
<1>8. n + 1 \in next <=> new
  <2>1. n + 1 \in After(grown, from) <=> ~(Ended(lines, from) \/ line.type = "m")
    BY <1>1, <1>6
  <2> QED BY <1>2, <1>4, <2>1 DEF IsNext
<1>9. \A i \in next : i \in 1..n \/ i = n + 1
  BY <1>1, <1>4
<1> HIDE DEF new
<1>10. next = own \cup (IF new THEN {n + 1} ELSE {})
  BY <1>5, <1>7, <1>8, <1>9
<1> QED BY <1>5, <1>10 DEF own, next, new, TypeGrown

\* What the last of them says.
LEMMA LastGrows ==
  ASSUME NEW lines, NEW grown, NEW n \in Nat, NEW line, Grown(lines, grown, n, line),
         NEW from \in 1..n, NEW pt, NEW key
  PROVE  LET own == OfType(lines, from, pt, key)
             next == OfType(grown, from, pt, key)
         IN IF IsNext(lines, from, line, pt, key)
            THEN next # {} /\ grown[Max(next)] = line
            ELSE /\ next = own
                 /\ own # {} => grown[Max(own)] = lines[Max(own)]
<1> DEFINE own == OfType(lines, from, pt, key)
           next == OfType(grown, from, pt, key)
           new == IsNext(lines, from, line, pt, key)
<1>1. own \subseteq 1..n /\ next = own \cup (IF new THEN {n + 1} ELSE {})
  <2>1. TypeGrown(lines, grown, n, line, from, pt, key)
    BY TypeGrows, Zenon
  <2> QED BY <2>1 DEF TypeGrown
<1>2. /\ \A i \in 1..n : grown[i] = lines[i]
      /\ grown[n + 1] = line
  BY DEF Grown
<1> HIDE DEF own, next, new
<1>3. CASE new
  <2>1. n + 1 \in next /\ next \subseteq Int /\ \A y \in next : n + 1 >= y
    BY <1>1, <1>3
  <2>2. Max(next) = n + 1
    BY <2>1, MaxOf
  <2> QED BY <1>2, <1>3, <2>1, <2>2 DEF own, next, new
<1>4. CASE ~new
  <2>1. next = own
    BY <1>1, <1>4
  <2>2. own # {} => Max(own) \in 1..n
    BY <1>1, HasMax
  <2> QED BY <1>2, <1>4, <2>1, <2>2 DEF own, next, new
<1> QED BY <1>3, <1>4

\* What a line makes of a media.
Takes(m, line, key) ==
  line.type = "a" /\ line.key = key /\ line.pt = m.payloadType

MediaTakes(m, line, next) ==
  /\ IsMedia(next) /\ next.payloadType = m.payloadType
  /\ <<next.codec, next.clockRate>> =
       IF Takes(m, line, "rtpmap") THEN <<line.codec, line.rate>>
       ELSE <<m.codec, m.clockRate>>
  /\ next.fmtp = IF Takes(m, line, "fmtp") THEN line.params ELSE m.fmtp

LEMMA ParsedMedia ==
  ASSUME NEW m, IsMedia(m), NEW line, NEW next, next = ParseMediaLevelLine(m, line)
  PROVE  MediaTakes(m, line, next)
<1>1. CASE line.type = "a" /\ line.key = "rtpmap"
  <2>1. next = ParseRtpmap(m, line)
    BY <1>1 DEF ParseMediaLevelLine, ParseMediaAttribute
  <2> QED BY <1>1, <2>1 DEF ParseRtpmap, IsMedia, Takes, MediaTakes
<1>2. CASE line.type = "a" /\ line.key = "fmtp"
  <2>1. next = ParseFmtp(m, line)
    BY <1>2 DEF ParseMediaLevelLine, ParseMediaAttribute
  <2> QED BY <1>2, <2>1 DEF ParseFmtp, IsMedia, Takes, MediaTakes
<1>3. CASE line.type = "a" /\ line.key \notin {"rtpmap", "fmtp"}
  <2>1. next = ParseMediaAttribute(m, line)
    BY <1>3 DEF ParseMediaLevelLine
  <2>2. \/ next = [m EXCEPT !.control = line.value]
        \/ next = [m EXCEPT !.direction = line.key]
        \/ next = [m EXCEPT !.attributes = ParseAttribute(@, line)]
    BY <1>3, <2>1 DEF ParseMediaAttribute
  <2> QED BY <1>3, <2>2 DEF IsMedia, Takes, MediaTakes
<1>4. CASE line.type # "a"
  <2>1. \/ next = [m EXCEPT !.connection = line]
        \/ next = [m EXCEPT !.bandwidth = Append(@, line)]
        \/ next = m
    BY <1>4 DEF ParseMediaLevelLine
  <2> QED BY <1>4, <2>1 DEF IsMedia, Takes, MediaTakes
<1> QED BY <1>1, <1>2, <1>3, <1>4

\* The media whose section goes on takes the line, the others do not.
Parsed(lines, from, m, line) ==
  IF Ended(lines, from) THEN m ELSE ParseMediaLevelLine(m, line)

LEMMA AgreesGrown ==
  ASSUME NEW lines, NEW grown, NEW n \in Nat, NEW line, Grown(lines, grown, n, line),
         NEW from \in 1..n, NEW m, Agrees(m, lines, from), NEW next,
         next = Parsed(lines, from, m, line)
  PROVE  Agrees(next, grown, from)
<1> DEFINE pt == m.payloadType
           maps == OfType(lines, from, pt, "rtpmap")
           fmtps == OfType(lines, from, pt, "fmtp")
           maps2 == OfType(grown, from, pt, "rtpmap")
           fmtps2 == OfType(grown, from, pt, "fmtp")
           open == ~Ended(lines, from)
<1>1. /\ IsMedia(m)
      /\ <<m.codec, m.clockRate>> = IF maps = {} THEN <<"", 0>>
                                    ELSE <<lines[Max(maps)].codec, lines[Max(maps)].rate>>
      /\ m.fmtp = IF fmtps = {} THEN None ELSE lines[Max(fmtps)].params
  BY DEF Agrees
<1>2. IF open /\ Takes(m, line, "rtpmap")
      THEN maps2 # {} /\ grown[Max(maps2)] = line
      ELSE maps2 = maps /\ (maps # {} => grown[Max(maps)] = lines[Max(maps)])
  BY LastGrows DEF Takes, IsNext
<1>3. IF open /\ Takes(m, line, "fmtp")
      THEN fmtps2 # {} /\ grown[Max(fmtps2)] = line
      ELSE fmtps2 = fmtps /\ (fmtps # {} => grown[Max(fmtps)] = lines[Max(fmtps)])
  BY LastGrows DEF Takes, IsNext
<1>4. /\ IsMedia(next) /\ next.payloadType = pt
      /\ <<next.codec, next.clockRate>> =
           IF open /\ Takes(m, line, "rtpmap") THEN <<line.codec, line.rate>>
           ELSE <<m.codec, m.clockRate>>
      /\ next.fmtp = IF open /\ Takes(m, line, "fmtp") THEN line.params ELSE m.fmtp
  <2>1. CASE open
    <3>1. next = ParseMediaLevelLine(m, line)
      BY <2>1 DEF Parsed
    <3>2. MediaTakes(m, line, next)
      BY <1>1, <3>1, ParsedMedia, Zenon
    <3> QED BY <2>1, <3>2 DEF MediaTakes
  <2>2. CASE ~open
    <3>1. next = m
      BY <2>2 DEF Parsed
    <3> QED BY <1>1, <2>2, <3>1
  <2> QED BY <2>1, <2>2
<1> HIDE DEF maps, fmtps, maps2, fmtps2, open, pt
<1>5. <<next.codec, next.clockRate>> =
        IF maps2 = {} THEN <<"", 0>>
        ELSE <<grown[Max(maps2)].codec, grown[Max(maps2)].rate>>
  BY <1>1, <1>2, <1>4
<1>6. next.fmtp = IF fmtps2 = {} THEN None ELSE grown[Max(fmtps2)].params
  BY <1>1, <1>3, <1>4
<1> QED BY <1>4, <1>5, <1>6 DEF Agrees, maps2, fmtps2

\* A line that begins no media.
LEMMA LocatedSame ==
  ASSUME NEW lines, NEW grown, NEW n \in Nat, NEW line, Grown(lines, grown, n, line),
         NEW at, NEW session, NEW next, Located(at, lines, session),
         ~(line.type = "m" /\ line.complete),
         DOMAIN next.media = DOMAIN session.media,
         \A k \in DOMAIN session.media :
           next.media[k] = Parsed(lines, at[k], session.media[k], line),
         \A k \in DOMAIN session.media :
           k = next.current <=> k = session.current /\ line.type # "m"
  PROVE  Located(at, grown, next)
<1>1. Places(at, lines, session.media)
  BY DEF Located
<1>2. DOMAIN lines = 1..n /\ DOMAIN grown = 1..(n + 1)
  BY DEF Grown
<1>3. Accepted(grown) = Accepted(lines)
  <2>1. AcceptedGrown(lines, grown, n, line)
    BY AcceptedGrows, Zenon
  <2> QED BY <2>1 DEF AcceptedGrown
<1>4. 1..n \subseteq 1..(n + 1)
  OBVIOUS
<1>5. Places(at, grown, next.media)
  BY <1>1, <1>2, <1>3, <1>4 DEF Places
<1>6. ASSUME NEW k \in DOMAIN session.media
      PROVE  /\ Agrees(next.media[k], grown, at[k])
             /\ k = next.current <=> ~Ended(grown, at[k])
  <2>1. at[k] \in 1..n
    BY <1>1, <1>2 DEF Places
  <2>2. /\ Agrees(session.media[k], lines, at[k])
        /\ k = session.current <=> ~Ended(lines, at[k])
    BY DEF Located
  <2>3. PICK from \in 1..n : from = at[k]
    BY <2>1
  <2>4. PICK m : m = session.media[k]
    OBVIOUS
  <2>5. PICK m2 : m2 = next.media[k]
    OBVIOUS
  <2>6. Agrees(m, lines, from)
    BY <2>2, <2>3, <2>4
  <2>7. m2 = Parsed(lines, from, m, line)
    BY <2>3, <2>4, <2>5
  <2>8. Agrees(m2, grown, from)
    BY <2>6, <2>7, AgreesGrown, Zenon
  <2>9. Ended(grown, from) <=> Ended(lines, from) \/ line.type = "m"
    BY EndedGrows, Zenon
  <2> QED BY <2>2, <2>3, <2>5, <2>8, <2>9
<1> QED BY <1>5, <1>6 DEF Located

Begun(lines, grown, session, next, n, c, line) ==
  /\ Grown(lines, grown, n, line) /\ line.type = "m" /\ line.complete
  /\ DOMAIN session.media = 1..c
  /\ DOMAIN next.media = 1..(c + 1) /\ next.current = c + 1
  /\ \A k \in 1..c : next.media[k] = session.media[k]
  /\ next.media[c + 1] = Media(line)

\* A line that begins one.
LEMMA LocatedMore ==
  ASSUME NEW lines, NEW grown, NEW n \in Nat, NEW line, NEW at, NEW session,
         NEW next, NEW c \in Nat, Begun(lines, grown, session, next, n, c, line),
         Located(at, lines, session)
  PROVE  \E then : Located(then, grown, next)
<1> USE DEF Begun
<1> DEFINE then == [k \in 1..(c + 1) |-> IF k \in 1..c THEN at[k] ELSE n + 1]
<1>1. Places(at, lines, session.media)
  BY DEF Located
<1>2. DOMAIN lines = 1..n /\ DOMAIN grown = 1..(n + 1)
  BY DEF Grown
<1>3. Accepted(grown) = Accepted(lines) \cup {n + 1}
  <2>1. AcceptedGrown(lines, grown, n, line)
    BY AcceptedGrows, Zenon
  <2> QED BY <2>1 DEF AcceptedGrown
<1>4. 1..n \subseteq 1..(n + 1) /\ n + 1 \in 1..(n + 1) /\ \A i \in 1..n : i < n + 1
  OBVIOUS
<1>5. /\ \A k \in 1..(c + 1) : k \in 1..c \/ k = c + 1
      /\ 1..c \subseteq 1..(c + 1) /\ c + 1 \in 1..(c + 1)
      /\ \A k \in 1..c : k # c + 1 /\ k < c + 1 /\ ~(c + 1 < k)
      /\ ~(c + 1 < c + 1) /\ c + 1 \notin 1..c
  OBVIOUS
<1>6. /\ \A k \in 1..c : then[k] = at[k]
      /\ then[c + 1] = n + 1
  BY <1>5
<1>7. /\ at \in [1..c -> 1..n] /\ \A k \in 1..c : at[k] \in Accepted(lines)
      /\ \A k, l \in 1..c : k < l => at[k] < at[l]
      /\ \A i \in Accepted(lines) : \E k \in 1..c : at[k] = i
  BY <1>1, <1>2 DEF Places
<1>8. then \in [1..(c + 1) -> 1..(n + 1)]
  BY <1>4, <1>5, <1>7
<1> HIDE DEF then
<1>9. Places(then, grown, next.media)
  <2>1. \A k \in 1..(c + 1) : then[k] \in Accepted(grown)
    BY <1>3, <1>5, <1>6, <1>7
  <2>2. ASSUME NEW k \in 1..(c + 1), NEW l \in 1..(c + 1), k < l
        PROVE  then[k] < then[l]
    <3>1. CASE l \in 1..c
      <4>1. k \in 1..c
        BY <1>5, <2>2, <3>1
      <4> QED BY <1>6, <1>7, <2>2, <3>1, <4>1
    <3>2. CASE l = c + 1
      <4>1. k \in 1..c
        BY <1>5, <2>2, <3>2
      <4> QED BY <1>4, <1>6, <1>7, <3>2, <4>1
    <3> QED BY <1>5, <3>1, <3>2
  <2>3. \A i \in Accepted(grown) : \E k \in 1..(c + 1) : then[k] = i
    BY <1>3, <1>5, <1>6, <1>7
  <2> QED BY <1>2, <1>8, <2>1, <2>2, <2>3 DEF Places
<1>10. ASSUME NEW k \in 1..c
       PROVE  /\ Agrees(next.media[k], grown, then[k])
              /\ Ended(grown, then[k])
  <2>1. PICK from \in 1..n : from = at[k]
    BY <1>7
  <2>2. PICK m : m = session.media[k]
    OBVIOUS
  <2>3. Agrees(m, lines, from)
    BY <2>1, <2>2 DEF Located
  <2>4. m = Parsed(lines, from, m, line)
    BY DEF Parsed, ParseMediaLevelLine
  <2>5. Agrees(m, grown, from)
    <3>1. PICK m2 : m2 = Parsed(lines, from, m, line)
      OBVIOUS
    <3>2. Agrees(m2, grown, from)
      BY <2>3, <3>1, AgreesGrown, Zenon
    <3> QED BY <2>4, <3>1, <3>2
  <2>6. Ended(grown, from) <=> Ended(lines, from) \/ line.type = "m"
    BY EndedGrows, Zenon
  <2> QED BY <1>6, <2>1, <2>2, <2>5, <2>6
<1>11. ~Ended(grown, n + 1)
  <2>1. \A j \in 1..(n + 1) : ~(n + 1 < j)
    OBVIOUS
  <2> QED BY <1>2, <2>1 DEF Ended
<1>12. Agrees(Media(line), grown, n + 1)
  <2>1. After(grown, n + 1) = {}
    <3>1. \A j \in 1..(n + 1) : ~(n + 1 < j)
      OBVIOUS
    <3> QED BY <1>2, <3>1 DEF After
  <2>2. \A pt, key : OfType(grown, n + 1, pt, key) = {}
    BY <2>1 DEF OfType
  <2>3. PICK m : m = Media(line)
    OBVIOUS
  <2>4. IsMedia(m) /\ m.codec = "" /\ m.clockRate = 0 /\ m.fmtp = None
    BY <2>3 DEF Media, IsMedia
  <2>5. Agrees(m, grown, n + 1)
    BY <2>2, <2>4 DEF Agrees
  <2> QED BY <2>3, <2>5
<1>13. ASSUME NEW k \in 1..(c + 1)
       PROVE  /\ Agrees(next.media[k], grown, then[k])
              /\ k = next.current <=> ~Ended(grown, then[k])
  <2>1. CASE k \in 1..c
    BY <1>5, <1>10, <2>1
  <2>2. CASE k = c + 1
    BY <1>6, <1>11, <1>12, <2>2
  <2> QED BY <1>5, <2>1, <2>2
<1>14. Located(then, grown, next)
  BY <1>9, <1>13 DEF Located
<1> QED BY <1>14

LEMMA DescribedGrows ==
  ASSUME NEW lines, NEW session, Described(lines, session), NEW line \in Lines,
         NEW next, next = ParseLine(session, line)
  PROVE  Described(Append(lines, line), next)
<1>1. /\ lines \in Seq(Lines) /\ IsSession(session) /\ Listed(session.media)
      /\ session.current \in Nat
      /\ session.current > 0 => session.current = Len(session.media)
  BY DEF Described
<1>2. PICK at : Located(at, lines, session)
  BY DEF Described
<1>3. PICK n \in Nat : n = Len(lines)
  BY <1>1
<1>4. PICK grown : grown = Append(lines, line)
  OBVIOUS
<1>5. grown \in Seq(Lines) /\ Grown(lines, grown, n, line)
  BY <1>1, <1>3, <1>4, OneLine DEF Grown
<1>6. PICK c \in Nat : c = Len(session.media) /\ DOMAIN session.media = 1..c
  <2>1. PICK media : media = session.media
    OBVIOUS
  <2>2. Len(media) \in Nat /\ DOMAIN media = 1..Len(media)
    BY <1>1, <2>1, ListedAppend DEF Appended
  <2> QED BY <2>1, <2>2
<1>7. CASE line.type = "m" /\ line.complete
  <2>1. next = [session EXCEPT !.media = Append(@, Media(line)),
                               !.current = Len(session.media) + 1]
    BY <1>7 DEF ParseLine, StartMedia
  <2>2. /\ IsSession(next) /\ next.current = c + 1
        /\ next.media = Append(session.media, Media(line))
    BY <1>1, <1>6, <2>1 DEF IsSession
  <2>3. /\ Listed(Append(session.media, Media(line)))
        /\ DOMAIN Append(session.media, Media(line)) = 1..(c + 1)
        /\ \A k \in 1..c : Append(session.media, Media(line))[k] = session.media[k]
        /\ Append(session.media, Media(line))[c + 1] = Media(line)
    <3>1. PICK media : media = session.media
      OBVIOUS
    <3>2. Listed(media) /\ Len(media) = c
      BY <1>1, <1>6, <3>1
    <3>3. PICK new : new = Media(line)
      OBVIOUS
    <3>4. /\ Listed(Append(media, new))
          /\ DOMAIN Append(media, new) = 1..(Len(media) + 1)
          /\ \A k \in 1..Len(media) : Append(media, new)[k] = media[k]
          /\ Append(media, new)[Len(media) + 1] = new
      BY <3>2, ListedAppend DEF Appended
    <3> QED BY <3>1, <3>2, <3>3, <3>4
  <2>4. /\ Listed(next.media) /\ DOMAIN next.media = 1..(c + 1)
        /\ \A k \in 1..c : next.media[k] = session.media[k]
        /\ next.media[c + 1] = Media(line)
    BY <2>2, <2>3
  <2>5. \E then : Located(then, grown, next)
    <3>1. Begun(lines, grown, session, next, n, c, line)
      BY <1>5, <1>6, <1>7, <2>2, <2>4 DEF Begun
    <3> QED BY <1>2, <3>1, LocatedMore, Zenon
  <2>6. next.current = Len(next.media)
    <3>1. Len(next.media) \in Nat /\ 1..(c + 1) = 1..Len(next.media)
      BY <2>4, ListedAppend DEF Appended
    <3> QED BY <2>2, <3>1
  <2> QED BY <1>4, <1>5, <2>2, <2>4, <2>5, <2>6 DEF Described
<1>8. CASE line.type = "m" /\ ~line.complete
  <2>1. next = [session EXCEPT !.current = 0]
    BY <1>8 DEF ParseLine, StartMedia
  <2>2. IsSession(next) /\ next.current = 0 /\ next.media = session.media
    BY <1>1, <2>1 DEF IsSession
  <2>3. \A m, from : Parsed(lines, from, m, line) = m
    BY <1>8 DEF Parsed, ParseMediaLevelLine
  <2>4. \A k \in DOMAIN session.media : k # 0
    BY <1>6
  <2>5. Located(at, grown, next)
    BY <1>2, <1>5, <1>8, <2>2, <2>3, <2>4, LocatedSame
  <2> QED BY <1>1, <1>4, <1>5, <2>2, <2>5 DEF Described
<1>9. CASE line.type # "m" /\ session.current > 0
  <2> DEFINE m == ParseMediaLevelLine(session.media[c], line)
             media == [session.media EXCEPT ![c] = m]
  <2>1. session.current = c /\ c \in DOMAIN session.media
    BY <1>1, <1>6, <1>9
  <2>2. next = [session EXCEPT !.media = media]
    BY <1>9, <2>1 DEF ParseLine
  <2>3. IsSession(next) /\ next.current = c /\ next.media = media
    BY <1>1, <2>1, <2>2 DEF IsSession
  <2>4. /\ Listed(media) /\ Len(media) = c
        /\ DOMAIN media = DOMAIN session.media
        /\ \A k \in DOMAIN session.media :
             media[k] = IF k = c THEN m ELSE session.media[k]
    BY <1>1, <1>6, <2>1, ListedExcept
  <2> HIDE DEF media
  <2>5. ASSUME NEW k \in DOMAIN session.media
        PROVE  /\ next.media[k] = Parsed(lines, at[k], session.media[k], line)
               /\ k = next.current <=> k = session.current /\ line.type # "m"
    <3>1. k = c <=> ~Ended(lines, at[k])
      BY <1>2, <2>1 DEF Located
    <3> QED BY <1>9, <2>1, <2>3, <2>4, <3>1 DEF Parsed
  <2>6. Located(at, grown, next)
    <3>1. DOMAIN next.media = DOMAIN session.media
      BY <2>3, <2>4
    <3> QED BY <1>2, <1>5, <1>9, <2>5, <3>1, LocatedSame
  <2> QED BY <1>4, <1>5, <2>3, <2>4, <2>6 DEF Described
<1>10. CASE line.type # "m" /\ session.current = 0
  <2>1. next = ParseSessionLevelLine(session, line)
    BY <1>10 DEF ParseLine
  <2>2. IsSession(next) /\ next.current = 0 /\ next.media = session.media
    <3>1. \/ next = [session EXCEPT !.connection = line]
          \/ next = [session EXCEPT !.bandwidth = Append(@, line)]
          \/ next = [session EXCEPT !.attributes = ParseAttribute(@, line)]
          \/ next = [session EXCEPT !.fields =
                             {f \in @ : f.type # line.type} \cup {line}]
      BY <2>1 DEF ParseSessionLevelLine
    <3> QED BY <1>1, <1>10, <3>1 DEF IsSession
  <2>3. \A k \in DOMAIN session.media : k # 0
    BY <1>6
  <2>4. \A k \in DOMAIN session.media :
          Parsed(lines, at[k], session.media[k], line) = session.media[k]
    BY <1>2, <1>10, <2>3 DEF Located, Parsed
  <2>5. Located(at, grown, next)
    BY <1>2, <1>5, <1>10, <2>2, <2>3, <2>4, LocatedSame
  <2> QED BY <1>1, <1>4, <1>5, <2>2, <2>5 DEF Described
<1> QED BY <1>1, <1>7, <1>8, <1>9, <1>10

LEMMA SectionKept == SectionInv /\ sdp' = sdp => SectionInv'
BY DEF SectionInv

LEMMA SectionStep ==
  ASSUME CameraInv, NotSetUp, SectionInv, [Next]_vars PROVE SectionInv'
<1>1. ASSUME NEW p, UnitsFed(p) \/ NextFed(p) \/ OtherFed(p) PROVE sdp' = sdp
  <2>1. UNCHANGED mediaVars
    BY <1>1, FeedKeeps, Zenon DEF UnitsFed, NextFed, OtherFed
  <2> QED BY <2>1 DEF mediaVars
<1>2. ASSUME NEW p, NEW n, FirstFed(p, n) PROVE sdp' = sdp
  <2>1. UNCHANGED mediaVars
    BY <1>2, FeedKeeps, Zenon DEF FirstFed
  <2> QED BY <2>1 DEF mediaVars
<1>3. CASE Missed \/ NextPicture \/ Reconfigure \/ UNCHANGED vars
  <2>1. Missed => UNCHANGED mediaVars
    BY MissedMoves
  <2>2. sdp' = sdp
    BY <1>3, <2>1 DEF NextPicture, Reconfigure, vars, mediaVars
  <2> QED BY <2>2, SectionKept
<1>4. CASE SetupTrack
  BY <1>4 DEF SetupTrack, SectionInv
<1>5. CASE ReadLine
  <2>1. PICK line \in Lines :
          sdp' = [lines |-> Append(sdp.lines, line),
                  session |-> ParseLine(sdp.session, line)]
    BY <1>5 DEF ReadLine
  <2>2. sdp # None
    BY <1>5 DEF ReadLine
  <2>3. PICK lines, session : lines = sdp.lines /\ session = sdp.session
    OBVIOUS
  <2>4. Described(lines, session)
    BY <2>2, <2>3 DEF SectionInv
  <2>5. PICK next : next = ParseLine(session, line)
    OBVIOUS
  <2>6. Described(Append(lines, line), next)
    BY <2>4, <2>5, DescribedGrows, Zenon
  <2>7. sdp'.lines = Append(lines, line) /\ sdp'.session = next
    BY <2>1, <2>3, <2>5
  <2> QED BY <2>6, <2>7 DEF SectionInv
<1>6. CASE sdp' = sdp
  BY <1>6, SectionKept
<1> QED BY <1>1, <1>2, <1>3, <1>4, <1>5, <1>6, Moves

\* The place of the k-th media is the k-th line that begins one.
LEMMA KthPlace ==
  ASSUME NEW lines \in Seq(Lines), NEW media, Listed(media), NEW at,
         Places(at, lines, media), NEW k \in DOMAIN media
  PROVE  Section(lines, k) = After(lines, at[k])
<1>1. PICK c \in Nat : DOMAIN media = 1..c
  BY ListedAppend DEF Appended
<1>2. /\ at \in [1..c -> DOMAIN lines] /\ k \in 1..c
      /\ \A l \in 1..c : at[l] \in Accepted(lines)
      /\ \A l, m \in 1..c : l < m => at[l] < at[m]
      /\ \A i \in Accepted(lines) : \E l \in 1..c : at[l] = i
  BY <1>1 DEF Places
<1>3. PICK n \in Nat : DOMAIN lines = 1..n
  OBVIOUS
<1>4. ASSUME NEW l \in 1..c
      PROVE  Cardinality({j \in Accepted(lines) : j <= at[l]}) = l
  <2> DEFINE T == {j \in Accepted(lines) : j <= at[l]}
             f == [m \in 1..l |-> at[m]]
  <2>1. 1..l \subseteq 1..c
    OBVIOUS
  <2>2. \A m \in 1..c : m <= l <=> at[m] <= at[l]
    <3>1. ASSUME NEW m \in 1..c PROVE m <= l <=> at[m] <= at[l]
      <4>1. m < l => at[m] < at[l]
        BY <1>2
      <4>2. l < m => at[l] < at[m]
        BY <1>2
      <4>3. at[m] \in 1..n /\ at[l] \in 1..n
        BY <1>2, <1>3
      <4> QED BY <4>1, <4>2, <4>3
    <3> QED BY <3>1
  <2>3. f \in [1..l -> T]
    <3>1. ASSUME NEW m \in 1..l PROVE at[m] \in T
      <4>1. m \in 1..c /\ m <= l
        OBVIOUS
      <4> QED BY <1>2, <2>2, <4>1
    <3> QED BY <3>1
  <2>4. \A m, o \in 1..l : f[m] = f[o] => m = o
    <3>1. ASSUME NEW m \in 1..l, NEW o \in 1..l, f[m] = f[o] PROVE m = o
      <4>1. m \in 1..c /\ o \in 1..c /\ at[m] = at[o]
        BY <2>1, <3>1
      <4>2. at[m] \in 1..n
        BY <1>2, <1>3, <4>1
      <4>3. ~(m < o) /\ ~(o < m)
        BY <1>2, <4>1, <4>2
      <4> QED BY <4>3
    <3> QED BY <3>1
  <2>5. \A j \in T : \E m \in 1..l : f[m] = j
    <3>1. ASSUME NEW j \in T PROVE \E m \in 1..l : f[m] = j
      <4>1. PICK m \in 1..c : at[m] = j
        BY <1>2
      <4>2. m <= l
        BY <2>2, <4>1
      <4>3. m \in 1..l
        BY <4>2
      <4> QED BY <4>1, <4>3
    <3> QED BY <3>1
  <2>6. f \in Bijection(1..l, T)
    <3> HIDE DEF f, T
    <3>1. DOMAIN f = 1..l
      BY <2>3
    <3>2. IsInjective(f)
      BY <2>4, <3>1 DEF IsInjective
    <3> QED BY <2>3, <2>5, <3>2 DEF Bijection, Injection, Surjection
  <2>7. ExistsBijection(1..l, T)
    BY <2>6 DEF ExistsBijection
  <2>8. IsFiniteSet(1..l) /\ Cardinality(1..l) = l
    <3>1. 1 \in Int /\ l \in Int /\ ~(1 > l) /\ l - 1 + 1 = l
      OBVIOUS
    <3> QED BY <3>1, FS_Interval
  <2> HIDE DEF T
  <2>9. Cardinality(T) = l
    BY <2>7, <2>8, FS_Bijection
  <2> QED BY <2>9 DEF T
<1> DEFINE accepted == {i \in DOMAIN lines : lines[i].type = "m" /\ lines[i].complete}
           from == CHOOSE i \in accepted :
                     Cardinality({j \in accepted : j <= i}) = k
<1>5. accepted = Accepted(lines)
  BY DEF Accepted
<1> HIDE DEF accepted
<1>6. from \in accepted /\ Cardinality({j \in accepted : j <= from}) = k
  <2>1. at[k] \in accepted /\ Cardinality({j \in accepted : j <= at[k]}) = k
    BY <1>2, <1>4, <1>5
  <2> QED BY <2>1
<1>7. PICK l \in 1..c : at[l] = from
  BY <1>2, <1>5, <1>6
<1>8. l = k
  BY <1>4, <1>5, <1>6, <1>7
<1>9. from = at[k]
  BY <1>7, <1>8
<1>10. Section(lines, k) = After(lines, from)
  BY DEF Section, After, accepted
<1> QED BY <1>9, <1>10

\* What SectionsApart says of the k-th media.
SaysItsSection(media, line, k) ==
  LET own == {i \in Section(line, k) :
                line[i].type = "a" /\ line[i].pt = media.payloadType}
      maps == {i \in own : line[i].key = "rtpmap"}
      fmtps == {i \in own : line[i].key = "fmtp"}
  IN /\ <<media.codec, media.clockRate>> =
          IF maps = {} THEN <<"", 0>>
          ELSE <<line[Max(maps)].codec, line[Max(maps)].rate>>
     /\ media.fmtp = IF fmtps = {} THEN None ELSE line[Max(fmtps)].params

\* SectionsApart: whatever lines are refused, repeated or out of place, what
\* parse makes of a media is what its own section says.
THEOREM SectionsStayApart == Spec => []SectionsApart
<1> DEFINE IInv == CameraInv /\ NotSetUp /\ SectionInv
<1>1. Init => IInv
  BY CameraInit, NotSetUpInit, SectionInit
<1>2. IInv /\ [Next]_vars => IInv'
  BY CameraStep, NotSetUpStep, SectionStep
<1>3. IInv => SectionsApart
  <2> SUFFICES ASSUME SectionInv, sdp # None, NEW k \in DOMAIN sdp.session.media
               PROVE  SaysItsSection(sdp.session.media[k], sdp.lines, k)
    BY DEF SectionsApart, SaysItsSection
  <2>1. PICK lines : lines = sdp.lines
    OBVIOUS
  <2>2. PICK list : list = sdp.session.media
    OBVIOUS
  <2>3. PICK at : Located(at, lines, sdp.session)
    BY <2>1 DEF SectionInv, Described
  <2>4. /\ lines \in Seq(Lines) /\ Listed(list)
    BY <2>1, <2>2 DEF SectionInv, Described
  <2>5. Places(at, lines, list) /\ k \in DOMAIN list
    BY <2>2, <2>3 DEF Located
  <2>6. Section(lines, k) = After(lines, at[k])
    BY <2>4, <2>5, KthPlace
  <2>7. Agrees(list[k], lines, at[k])
    BY <2>2, <2>3 DEF Located
  <2>8. PICK m : m = list[k]
    OBVIOUS
  <2> DEFINE own == {i \in Section(lines, k) :
                      lines[i].type = "a" /\ lines[i].pt = m.payloadType}
             maps == {i \in own : lines[i].key = "rtpmap"}
             fmtps == {i \in own : lines[i].key = "fmtp"}
  <2>9. /\ maps = OfType(lines, at[k], m.payloadType, "rtpmap")
        /\ fmtps = OfType(lines, at[k], m.payloadType, "fmtp")
    BY <2>6 DEF OfType
  <2> HIDE DEF own, maps, fmtps
  <2>10. /\ <<m.codec, m.clockRate>> =
              IF maps = {} THEN <<"", 0>>
              ELSE <<lines[Max(maps)].codec, lines[Max(maps)].rate>>
         /\ m.fmtp = IF fmtps = {} THEN None ELSE lines[Max(fmtps)].params
    <3>1. PICK from : from = at[k]
      OBVIOUS
    <3>2. Agrees(m, lines, from)
      BY <2>7, <2>8, <3>1
    <3> QED BY <2>9, <3>1, <3>2 DEF Agrees
  <2>11. SaysItsSection(m, lines, k)
    BY <2>10 DEF SaysItsSection, own, maps, fmtps
  <2> QED BY <2>1, <2>2, <2>8, <2>11
<1> QED BY <1>1, <1>2, <1>3, PTL DEF Spec

=============================================================================
