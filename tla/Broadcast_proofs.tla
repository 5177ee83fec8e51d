-------------------------- MODULE Broadcast_proofs --------------------------
(***************************************************************************)
(* Proofs about module Broadcast, for every set of sessions, objects and   *)
(* addresses.                                                              *)
(***************************************************************************)
EXTENDS Broadcast, TLAPS

LEMMA TypeInit == Init => TypeOK
BY SessionsAssumption, ConfigAssumption DEF Init, TypeOK, Rows

\* What a command leaves of the session's type, whatever else it does.
LEMMA CommandType ==
  ASSUME TypeOK, NEW s \in Sessions, NEW b \in Servers, Command(s, b)
  PROVE  /\ conn' \in [Sessions -> {"unopened", "open", "closed"}]
         /\ commands' \in [Sessions -> 0..MaxCommands]
         /\ broadcast' \in [Sessions -> Servers \cup {None}]
BY ConfigAssumption DEF Command, TypeOK

\* The history stays a set of rows when donePublish is emitted for a session.
LEMMA HistoryType ==
  ASSUME TypeOK, NEW p \in Sessions
  PROVE  HistoryWith(p) \subseteq Rows
BY DEF HistoryWith, TypeOK, Rows

LEMMA TypeStep == TypeOK /\ [Next]_vars => TypeOK'
<1> SUFFICES ASSUME TypeOK, [Next]_vars PROVE TypeOK'
  OBVIOUS
<1>1. ASSUME NEW s \in Sessions, Connect(s) PROVE TypeOK'
  BY <1>1 DEF TypeOK, Connect, serverVars, statVars, ghostVars
<1>2. ASSUME NEW s \in Sessions, RegisterPush(s) PROVE TypeOK'
  BY <1>2 DEF TypeOK, RegisterPush, statVars, ghostVars
<1>3. ASSUME NEW s \in Sessions, Close(s) PROVE TypeOK'
  <2>1. CASE CloseUnbound(s)
    BY <2>1 DEF TypeOK, CloseUnbound, serverVars, ghostVars
  <2>2. CASE ClosePublisher(s)
    BY <2>2 DEF TypeOK, ClosePublisher, LosesSlot, ghostVars
  <2>3. CASE ClosePlayer(s)
    BY <2>3 DEF TypeOK, ClosePlayer, WithoutPlayer, RegistryWithout, ghostVars
  <2> QED BY <1>3, <2>1, <2>2, <2>3 DEF Close
<1>4. ASSUME NEW s \in Sessions, NEW b \in Servers, Publish(s, b) PROVE TypeOK'
  <2>1. CASE PublishUnauthorized(s, b)
    BY <2>1, CommandType
    DEF TypeOK, PublishUnauthorized, MarkPublisher, statVars, ghostVars
  <2>2. CASE PublishStart(s, b)
    BY <2>2, CommandType DEF TypeOK, PublishStart, MarkPublisher, statVars
  <2>3. CASE PublishBusy(s, b)
    BY <2>3, CommandType
    DEF TypeOK, PublishBusy, MarkPublisher, statVars, ghostVars
  <2>4. CASE PublishResume(s, b)
    BY <2>4, CommandType DEF TypeOK, PublishResume, Inherited, MarkPublisher
  <2>5. CASE PublishTakeOver(s, b)
    <3>1. publisher[b] \in Sessions
      BY <2>5 DEF TypeOK, PublishTakeOver
    <3>2. history' \subseteq Rows
      BY <2>5, <3>1, HistoryType DEF PublishTakeOver, EmitDonePublish
    <3> QED
      BY <2>5, <3>1, <3>2, CommandType
      DEF TypeOK, PublishTakeOver, MarkPublisher, EmitDonePublish,
          RegistryWithout
  <2> QED BY <1>4, <2>1, <2>2, <2>3, <2>4, <2>5 DEF Publish
<1>5. ASSUME NEW s \in Sessions, NEW b \in Servers, Play(s, b) PROVE TypeOK'
  <2>1. CASE PlayUnauthorized(s, b)
    BY <2>1, CommandType DEF TypeOK, PlayUnauthorized, statVars, ghostVars
  <2>2. CASE PlayStart(s, b)
    BY SMTT(30), <2>2, CommandType DEF TypeOK, PlayStart
  <2> QED BY <1>5, <2>1, <2>2 DEF Play
<1>6. ASSUME NEW b \in Servers, GraceExpires(b) PROVE TypeOK'
  <2>1. publisher[b] \in Sessions
    BY <1>6 DEF TypeOK, GraceExpires
  <2>2. history' \subseteq Rows
    BY <1>6, <2>1, HistoryType DEF GraceExpires, EmitDonePublish
  <2> QED
    BY <1>6, <2>1, <2>2
    DEF TypeOK, GraceExpires, EmitDonePublish, RegistryWithout, sessionVars
<1>7. CASE UNCHANGED vars
  BY <1>7 DEF TypeOK, vars, serverVars, sessionVars, statVars, ghostVars
<1> QED BY <1>1, <1>2, <1>3, <1>4, <1>5, <1>6, <1>7 DEF Next

\* Every variable keeps its type: the slot and the subscribers of an object
\* name sessions, and the history holds well-formed rows.
THEOREM TypeCorrect == Spec => []TypeOK
BY TypeInit, TypeStep, PTL DEF Spec

-----------------------------------------------------------------------------
(***************************************************************************)
(* The slot follows the connection.  The argument: a session that sends    *)
(* its only command has no object yet (Bound), so it is in no slot and in  *)
(* no list; a timer is armed only for a session that holds the slot.       *)
(***************************************************************************)

OneCommand == MaxCommands = 1

\* A session is bound to an object by its first command, and only a bound
\* session is ever a publisher.
Bound ==
  \A s \in Sessions :
    /\ conn[s] = "unopened" => broadcast[s] = None
    /\ s \notin Push /\ commands[s] = 0 => broadcast[s] = None
    /\ broadcast[s] = None => ~isPublisher[s]
    /\ s \in Push => ~isPublisher[s]

TimerHasPublisher == \A b \in Servers : graceTimer[b] => publisher[b] # None

SlotInv ==
  /\ TypeOK
  /\ Bound
  /\ TimerHasPublisher
  /\ SlotFollowsConnection
  /\ SubscribersAreConnected

LEMMA SlotInit == Init => SlotInv
<1> SUFFICES ASSUME Init PROVE SlotInv
  OBVIOUS
<1>1. TypeOK
  BY TypeInit
<1>2. Bound /\ TimerHasPublisher
  BY DEF Init, Bound, TimerHasPublisher
<1>3. SlotFollowsConnection /\ SubscribersAreConnected
  BY SessionsAssumption
  DEF Init, SlotFollowsConnection, SubscribersAreConnected, Holds
<1> QED BY <1>1, <1>2, <1>3 DEF SlotInv

\* The session of a command is unknown to every object.
LEMMA CommandFromNewcomer ==
  ASSUME SlotInv, OneCommand, NEW s \in Sessions, NEW b \in Servers,
         Command(s, b)
  PROVE  /\ s \notin Push
         /\ broadcast[s] = None
         /\ ~isPublisher[s]
         /\ \A c \in Servers : publisher[c] # s /\ s \notin subscribers[c]
         /\ conn' = [conn EXCEPT ![s] = "open"]
         /\ broadcast' = [broadcast EXCEPT ![s] = b]
<1>1. s \notin Push /\ commands[s] = 0
  BY SessionsAssumption DEF Command, OneCommand, SlotInv, TypeOK
<1>2. broadcast[s] = None /\ ~isPublisher[s]
  BY <1>1 DEF SlotInv, Bound
<1>3. \A c \in Servers : publisher[c] # s /\ s \notin subscribers[c]
  BY <1>2, SessionsAssumption
  DEF SlotInv, SlotFollowsConnection, SubscribersAreConnected, Holds
<1> QED BY <1>1, <1>2, <1>3 DEF Command

\* Bound survives a command, however the command ends.
LEMMA CommandBound ==
  ASSUME SlotInv, OneCommand, NEW s \in Sessions, NEW b \in Servers,
         Command(s, b),
         \/ UNCHANGED isPublisher
         \/ \E v \in BOOLEAN : isPublisher' = [isPublisher EXCEPT ![s] = v]
  PROVE  Bound'
<1>1. ASSUME NEW t \in Sessions, t # s
      PROVE  /\ conn'[t] = conn[t] /\ broadcast'[t] = broadcast[t]
             /\ commands'[t] = commands[t] /\ isPublisher'[t] = isPublisher[t]
  BY <1>1 DEF Command, SlotInv, TypeOK
<1>2. commands[s] \in Nat /\ commands'[s] = commands[s] + 1
  BY ConfigAssumption DEF Command, SlotInv, TypeOK
<1>3. conn'[s] = "open" /\ broadcast'[s] = b /\ commands'[s] # 0
  BY <1>2 DEF Command, SlotInv, TypeOK
<1>4. s \notin Push
  BY CommandFromNewcomer
<1>5. b # None
  BY SessionsAssumption
<1> QED BY <1>1, <1>3, <1>4, <1>5 DEF Bound, SlotInv

\* A publish attempt that is accepted: s takes the slot of b, timer cleared.
LEMMA AcceptedPublish ==
  ASSUME SlotInv, OneCommand, NEW s \in Sessions, NEW b \in Servers,
         Command(s, b),
         publisher' = [publisher EXCEPT ![b] = s],
         graceTimer' = [graceTimer EXCEPT ![b] = FALSE],
         MarkPublisher(s, TRUE), UNCHANGED subscribers, TypeOK'
  PROVE  SlotInv'
<1>1. Bound'
  BY CommandBound DEF MarkPublisher
<1>2. TimerHasPublisher'
  BY SessionsAssumption DEF SlotInv, TypeOK, TimerHasPublisher
<1>3. SlotFollowsConnection'
  <2> SUFFICES ASSUME NEW c \in Servers, NEW t \in Sessions,
                      publisher'[c] = t
               PROVE  /\ broadcast'[t] = c
                      /\ isPublisher'[t]
                      /\ graceTimer'[c] <=> (conn'[t] = "closed")
    BY DEF SlotFollowsConnection, Holds
  <2>1. CASE c = b
    <3>1. t = s
      BY <2>1 DEF SlotInv, TypeOK
    <3>2. broadcast'[s] = b /\ conn'[s] = "open"
      BY DEF Command, SlotInv, TypeOK
    <3>3. isPublisher'[s] = TRUE
      BY DEF MarkPublisher, SlotInv, TypeOK
    <3>4. graceTimer'[b] = FALSE
      BY DEF SlotInv, TypeOK
    <3> QED BY <2>1, <3>1, <3>2, <3>3, <3>4
  <2>2. CASE c # b
    <3>1. publisher[c] = t /\ t # s /\ graceTimer'[c] = graceTimer[c]
      BY <2>2, CommandFromNewcomer DEF SlotInv, TypeOK
    <3>2. /\ conn'[t] = conn[t] /\ broadcast'[t] = broadcast[t]
          /\ isPublisher'[t] = isPublisher[t]
      BY <3>1 DEF Command, SlotInv, TypeOK, MarkPublisher
    <3> QED BY ZenonT(60), <3>1, <3>2 DEF SlotInv, SlotFollowsConnection, Holds
  <2> QED BY <2>1, <2>2
<1>4. SubscribersAreConnected'
  BY CommandFromNewcomer DEF SlotInv, TypeOK, SubscribersAreConnected,
                             MarkPublisher
<1> QED BY <1>1, <1>2, <1>3, <1>4 DEF SlotInv

\* A command that is refused leaves slots and lists alone.
LEMMA RefusedCommand ==
  ASSUME SlotInv, OneCommand, NEW s \in Sessions, NEW b \in Servers,
         Command(s, b), UNCHANGED <<publisher, graceTimer, subscribers>>,
         \/ UNCHANGED isPublisher
         \/ \E v \in BOOLEAN : isPublisher' = [isPublisher EXCEPT ![s] = v],
         TypeOK'
  PROVE  SlotInv'
<1>1. Bound'
  BY CommandBound
<1>2. TimerHasPublisher'
  BY DEF SlotInv, TimerHasPublisher
<1>3. SlotFollowsConnection'
  BY CommandFromNewcomer DEF SlotInv, TypeOK, SlotFollowsConnection, Holds
<1>4. SubscribersAreConnected'
  BY CommandFromNewcomer DEF SlotInv, TypeOK, SubscribersAreConnected
<1> QED BY <1>1, <1>2, <1>3, <1>4 DEF SlotInv

LEMMA SlotStep == OneCommand /\ SlotInv /\ [Next]_vars => SlotInv'
<1> SUFFICES ASSUME OneCommand, SlotInv, [Next]_vars PROVE SlotInv'
  OBVIOUS
<1>0. TypeOK /\ TypeOK'
  BY TypeStep DEF SlotInv
<1>1. ASSUME NEW s \in Sessions, Connect(s) PROVE SlotInv'
  <2>1. /\ s \notin Push /\ conn[s] = "unopened" /\ broadcast[s] = None
        /\ conn' = [conn EXCEPT ![s] = "open"]
        /\ UNCHANGED <<publisher, graceTimer, subscribers, broadcast,
                       isPublisher, commands>>
    BY <1>1, SessionsAssumption DEF Connect, serverVars, SlotInv, Bound
  <2>2. \A c \in Servers : publisher[c] # s
    BY <2>1, SessionsAssumption DEF SlotInv, SlotFollowsConnection, Holds
  <2>3. Bound' /\ TimerHasPublisher'
    BY <2>1, <1>0 DEF SlotInv, Bound, TimerHasPublisher, TypeOK
  <2>4. SlotFollowsConnection'
    BY <2>1, <2>2, <1>0 DEF SlotInv, SlotFollowsConnection, Holds, TypeOK
  <2>5. SubscribersAreConnected'
    BY <2>1, <1>0 DEF SlotInv, SubscribersAreConnected, TypeOK
  <2> QED BY <1>0, <2>3, <2>4, <2>5 DEF SlotInv
<1>2. ASSUME NEW s \in Sessions, RegisterPush(s) PROVE SlotInv'
  <2>1. /\ s \in Push /\ conn[s] = "unopened" /\ broadcast[s] = None
        /\ ~isPublisher[s] /\ registry \in Servers
        /\ conn' = [conn EXCEPT ![s] = "open"]
        /\ broadcast' = [broadcast EXCEPT ![s] = registry]
        /\ subscribers' = [subscribers EXCEPT ![registry] = @ \cup {s}]
        /\ UNCHANGED <<publisher, graceTimer, isPublisher, commands>>
    BY <1>2, <1>0 DEF RegisterPush, SlotInv, Bound, TypeOK
  <2>2. \A c \in Servers : publisher[c] # s /\ s \notin subscribers[c]
    BY <2>1, SessionsAssumption
    DEF SlotInv, SlotFollowsConnection, SubscribersAreConnected, Holds
  <2>3. Bound' /\ TimerHasPublisher'
    BY <2>1, <1>0 DEF SlotInv, Bound, TimerHasPublisher, TypeOK
  <2>4. SlotFollowsConnection'
    BY <2>1, <2>2, <1>0 DEF SlotInv, SlotFollowsConnection, Holds, TypeOK
  <2>5. SubscribersAreConnected'
    BY <2>1, <2>2, <1>0 DEF SlotInv, SubscribersAreConnected, TypeOK
  <2> QED BY <1>0, <2>3, <2>4, <2>5 DEF SlotInv
<1>3. ASSUME NEW s \in Sessions, Close(s) PROVE SlotInv'
  <2>1. CASE CloseUnbound(s)
    <3>1. /\ conn[s] = "open" /\ broadcast[s] = None
          /\ conn' = [conn EXCEPT ![s] = "closed"]
          /\ UNCHANGED <<publisher, graceTimer, subscribers, broadcast,
                         isPublisher, commands>>
      BY <2>1 DEF CloseUnbound, serverVars
    <3>2. \A c \in Servers : publisher[c] # s /\ s \notin subscribers[c]
      BY <3>1, SessionsAssumption
      DEF SlotInv, SlotFollowsConnection, SubscribersAreConnected, Holds
    <3>3. Bound' /\ TimerHasPublisher'
      BY <3>1, <1>0 DEF SlotInv, Bound, TimerHasPublisher, TypeOK
    <3>4. SlotFollowsConnection'
      BY <3>1, <3>2, <1>0 DEF SlotInv, SlotFollowsConnection, Holds, TypeOK
    <3>5. SubscribersAreConnected'
      BY <3>1, <3>2, <1>0 DEF SlotInv, SubscribersAreConnected, TypeOK
    <3> QED BY <1>0, <3>3, <3>4, <3>5 DEF SlotInv
  <2>2. CASE ClosePublisher(s)
    <3> DEFINE b == broadcast[s]
               held == publisher[b] = s /\ ~graceTimer[b]
    <3>1. /\ conn[s] = "open" /\ b \in Servers /\ isPublisher[s]
          /\ conn' = [conn EXCEPT ![s] = "closed"]
          /\ graceTimer' = [graceTimer EXCEPT ![b] = @ \/ held]
          /\ UNCHANGED <<publisher, subscribers, broadcast, isPublisher,
                         commands>>
      BY <2>2, <1>0 DEF ClosePublisher, LosesSlot, TypeOK
    <3>2. \A c \in Servers : s \notin subscribers[c]
      BY <3>1 DEF SlotInv, SubscribersAreConnected
    <3>3. Bound'
      BY <3>1, <1>0 DEF SlotInv, Bound, TypeOK
    <3>4. TimerHasPublisher'
      BY <3>1, <1>0, SessionsAssumption DEF SlotInv, TimerHasPublisher, TypeOK
    <3>5. SlotFollowsConnection'
      <4> SUFFICES ASSUME NEW c \in Servers, NEW t \in Sessions,
                          publisher[c] = t
                   PROVE  graceTimer'[c] <=> (conn'[t] = "closed")
        BY <3>1 DEF SlotInv, SlotFollowsConnection, Holds
      <4>1. broadcast[t] = c /\ (graceTimer[c] <=> (conn[t] = "closed"))
        BY DEF SlotInv, SlotFollowsConnection, Holds
      <4>2. CASE t = s
        <5>1. c = b /\ ~graceTimer[b] /\ held
          BY <3>1, <4>1, <4>2
        <5>2. graceTimer'[c] = TRUE
          BY <3>1, <5>1, <1>0 DEF TypeOK
        <5>3. conn'[t] = "closed"
          BY <3>1, <4>2, <1>0 DEF TypeOK
        <5> QED BY <5>2, <5>3
      <4>3. CASE t # s
        <5>1. ~(c = b /\ held)
          BY <4>3
        <5>2. graceTimer'[c] = graceTimer[c]
          BY <3>1, <5>1, <1>0 DEF TypeOK
        <5>3. conn'[t] = conn[t]
          BY <3>1, <4>3, <1>0 DEF TypeOK
        <5> QED BY <4>1, <5>2, <5>3
      <4> QED BY <4>2, <4>3
    <3>6. SubscribersAreConnected'
      BY <3>1, <3>2, <1>0 DEF SlotInv, SubscribersAreConnected, TypeOK
    <3> QED BY <1>0, <3>3, <3>4, <3>5, <3>6 DEF SlotInv
  <2>3. CASE ClosePlayer(s)
    <3> DEFINE b == broadcast[s]
    <3>1. /\ conn[s] = "open" /\ b \in Servers /\ ~isPublisher[s]
          /\ conn' = [conn EXCEPT ![s] = "closed"]
          /\ subscribers' = [subscribers EXCEPT ![b] = @ \ {s}]
          /\ UNCHANGED <<publisher, graceTimer, broadcast, isPublisher,
                         commands>>
      BY <2>3, <1>0 DEF ClosePlayer, WithoutPlayer, TypeOK
    <3>2. \A c \in Servers : publisher[c] # s
      BY <3>1 DEF SlotInv, SlotFollowsConnection, Holds
    <3>3. Bound' /\ TimerHasPublisher'
      BY <3>1, <1>0 DEF SlotInv, Bound, TimerHasPublisher, TypeOK
    <3>4. SlotFollowsConnection'
      BY <3>1, <3>2, <1>0 DEF SlotInv, SlotFollowsConnection, Holds, TypeOK
    <3>5. SubscribersAreConnected'
      BY <3>1, <1>0 DEF SlotInv, SubscribersAreConnected, TypeOK
    <3> QED BY <1>0, <3>3, <3>4, <3>5 DEF SlotInv
  <2> QED BY <1>3, <2>1, <2>2, <2>3 DEF Close
<1>4. ASSUME NEW s \in Sessions, NEW b \in Servers, Publish(s, b) PROVE SlotInv'
  <2>1. CASE PublishUnauthorized(s, b) \/ PublishBusy(s, b)
    <3>1. /\ Command(s, b) /\ MarkPublisher(s, FALSE)
          /\ UNCHANGED <<publisher, graceTimer, subscribers>>
      BY <2>1 DEF PublishUnauthorized, PublishBusy
    <3>2. \E v \in BOOLEAN : isPublisher' = [isPublisher EXCEPT ![s] = v]
      BY <3>1 DEF MarkPublisher
    <3> QED BY <1>0, <3>1, <3>2, RefusedCommand
  <2>2. CASE PublishStart(s, b)
    <3>1. ~graceTimer[b]
      BY <2>2 DEF PublishStart, SlotInv, TimerHasPublisher
    <3>2. graceTimer' = [graceTimer EXCEPT ![b] = FALSE]
      BY <3>1, <2>2, <1>0 DEF PublishStart, TypeOK
    <3> QED BY <1>0, <2>2, <3>2, AcceptedPublish DEF PublishStart
  <2>3. CASE PublishResume(s, b)
    BY <1>0, <2>3, AcceptedPublish DEF PublishResume
  <2>4. CASE PublishTakeOver(s, b)
    BY <1>0, <2>4, AcceptedPublish DEF PublishTakeOver
  <2> QED BY <1>4, <2>1, <2>2, <2>3, <2>4 DEF Publish
<1>5. ASSUME NEW s \in Sessions, NEW b \in Servers, Play(s, b) PROVE SlotInv'
  <2>1. CASE PlayUnauthorized(s, b)
    BY <1>0, <2>1, RefusedCommand DEF PlayUnauthorized
  <2>2. CASE PlayStart(s, b)
    <3>1. /\ Command(s, b)
          /\ subscribers' = [subscribers EXCEPT ![b] = @ \cup {s}]
          /\ isPublisher' = [isPublisher EXCEPT ![s] = FALSE]
          /\ UNCHANGED <<publisher, graceTimer>>
      BY <2>2 DEF PlayStart
    <3>2. Bound'
      BY <3>1, CommandBound
    <3>3. TimerHasPublisher'
      BY <3>1 DEF SlotInv, TimerHasPublisher
    <3>4. SlotFollowsConnection'
      BY <3>1, CommandFromNewcomer, <1>0
      DEF SlotInv, TypeOK, SlotFollowsConnection, Holds
    <3>5. SubscribersAreConnected'
      BY <3>1, CommandFromNewcomer, <1>0
      DEF SlotInv, TypeOK, SubscribersAreConnected
    <3> QED BY <1>0, <3>2, <3>3, <3>4, <3>5 DEF SlotInv
  <2> QED BY <1>5, <2>1, <2>2 DEF Play
<1>6. ASSUME NEW b \in Servers, GraceExpires(b) PROVE SlotInv'
  <2>1. /\ graceTimer' = [graceTimer EXCEPT ![b] = FALSE]
        /\ publisher' = [publisher EXCEPT ![b] = None]
        /\ UNCHANGED <<subscribers, conn, broadcast, isPublisher, commands>>
    BY <1>6 DEF GraceExpires, sessionVars
  <2>2. Bound' /\ TimerHasPublisher'
    BY <2>1, <1>0 DEF SlotInv, Bound, TimerHasPublisher, TypeOK
  <2>3. SlotFollowsConnection'
    BY <2>1, <1>0, SessionsAssumption
    DEF SlotInv, SlotFollowsConnection, Holds, TypeOK
  <2>4. SubscribersAreConnected'
    BY <2>1 DEF SlotInv, SubscribersAreConnected
  <2> QED BY <1>0, <2>2, <2>3, <2>4 DEF SlotInv
<1>7. CASE UNCHANGED vars
  BY <1>7, <1>0
  DEF SlotInv, Bound, TimerHasPublisher, SlotFollowsConnection, Holds,
      SubscribersAreConnected, vars, serverVars, sessionVars
<1> QED BY <1>1, <1>2, <1>3, <1>4, <1>5, <1>6, <1>7 DEF Next

\* With clients that send one command a connection, a slot is held by an
\* open connection or by a running timer, and only open connections that are
\* bound to an object are subscribed to it.
THEOREM SlotInvariant ==
  ASSUME OneCommand
  PROVE  Spec => []FollowsConnections
<1>1. Init => SlotInv
  BY SlotInit
<1>2. SlotInv /\ [Next]_vars => SlotInv'
  BY SlotStep
<1>3. SlotInv => FollowsConnections
  BY DEF SlotInv, FollowsConnections
<1> QED BY <1>1, <1>2, <1>3, PTL DEF Spec

-----------------------------------------------------------------------------
(***************************************************************************)
(* The registry.  Only a takeover leaves a publisher in an object that the *)
(* registry does not name; without takeovers there is one object.          *)
(***************************************************************************)

RegistryInv == TypeOK /\ OrphanedOnlyByTakeOver

LEMMA RegistryInit == Init => RegistryInv
BY TypeInit DEF Init, RegistryInv, OrphanedOnlyByTakeOver

\* A command registers the object it resolves to; any other is unused or the
\* object of a takeover, as before.
LEMMA CommandRegisters ==
  ASSUME RegistryInv, NEW s \in Sessions, NEW b \in Servers, Command(s, b),
         NEW c \in Servers, c # b
  PROVE  /\ subscribers[c] = {}
         /\ publisher[c] # None => publisher[c] \in tookOver
BY SessionsAssumption
DEF RegistryInv, OrphanedOnlyByTakeOver, Command, Resolves

LEMMA RegistryStep == RegistryInv /\ [Next]_vars => RegistryInv'
<1> SUFFICES ASSUME RegistryInv, [Next]_vars PROVE OrphanedOnlyByTakeOver'
  BY TypeStep DEF RegistryInv
<1> USE DEF RegistryInv, OrphanedOnlyByTakeOver
<1>0. TypeOK
  OBVIOUS
<1>1. ASSUME NEW s \in Sessions, Connect(s) PROVE OrphanedOnlyByTakeOver'
  BY <1>1 DEF Connect, serverVars, ghostVars
<1>2. ASSUME NEW s \in Sessions, RegisterPush(s) PROVE OrphanedOnlyByTakeOver'
  BY <1>2 DEF RegisterPush, ghostVars, TypeOK
<1>3. ASSUME NEW s \in Sessions, Close(s) PROVE OrphanedOnlyByTakeOver'
  <2>1. CASE CloseUnbound(s)
    BY <2>1 DEF CloseUnbound, serverVars, ghostVars
  <2>2. CASE ClosePublisher(s)
    BY <2>2 DEF ClosePublisher, ghostVars
  <2>3. CASE ClosePlayer(s)
    <3>1. UNCHANGED <<publisher, tookOver>>
      BY <2>3 DEF ClosePlayer, ghostVars
    <3>2. \A c \in Servers : subscribers'[c] \subseteq subscribers[c]
      BY <2>3, <1>0 DEF ClosePlayer, WithoutPlayer, TypeOK
    <3>3. \/ registry' = registry
          \/ /\ registry = broadcast[s] /\ publisher[registry] = None
             /\ subscribers'[registry] = {} /\ registry' = None
      BY <2>3 DEF ClosePlayer, RegistryWithout
    <3> QED BY <3>1, <3>2, <3>3
  <2> QED BY <1>3, <2>1, <2>2, <2>3 DEF Close
<1>4. ASSUME NEW s \in Sessions, NEW b \in Servers, Publish(s, b)
      PROVE  OrphanedOnlyByTakeOver'
  <2>1. Command(s, b)
    BY <1>4 DEF Publish, PublishUnauthorized, PublishStart, PublishBusy,
                PublishResume, PublishTakeOver
  <2>2. CASE PublishUnauthorized(s, b) \/ PublishBusy(s, b)
    <3>1. /\ registry' = b
          /\ UNCHANGED <<publisher, subscribers, tookOver>>
      BY <2>2 DEF PublishUnauthorized, PublishBusy, ghostVars
    <3> QED BY <2>1, <3>1, CommandRegisters
  <2>3. CASE PublishStart(s, b) \/ PublishResume(s, b)
    <3>1. /\ registry' = b
          /\ publisher' = [publisher EXCEPT ![b] = s]
          /\ UNCHANGED <<subscribers, tookOver>>
      BY <2>3 DEF PublishStart, PublishResume
    <3>2. \A c \in Servers \ {b} : publisher'[c] = publisher[c]
      BY <3>1, <1>0 DEF TypeOK
    <3> QED BY <2>1, <3>1, <3>2, CommandRegisters
  <2>4. CASE PublishTakeOver(s, b)
    <3>1. /\ subscribers' = subscribers /\ tookOver' = tookOver \cup {s}
          /\ publisher' = [publisher EXCEPT ![b] = s]
          /\ registry' = RegistryWithout(b, subscribers[b])
      BY <2>4 DEF PublishTakeOver
    <3>2. publisher[b] # None
      BY <2>4 DEF PublishTakeOver
    <3>3. registry = b
      BY <2>1, <3>2 DEF Command, Resolves, Fresh
    <3>4. \A c \in Servers \ {b} : publisher'[c] = publisher[c]
      BY <3>1, <1>0 DEF TypeOK
    <3>5. publisher'[b] = s
      BY <3>1, <1>0 DEF TypeOK
    <3>6. ASSUME NEW c \in Servers, c # registry'
          PROVE  subscribers'[c] = {} /\ (publisher'[c] # None => publisher'[c] \in tookOver')
      BY <2>1, <3>1, <3>3, <3>4, <3>5, <3>6, CommandRegisters DEF RegistryWithout
    <3> QED BY <3>6
  <2> QED BY <1>4, <2>2, <2>3, <2>4 DEF Publish
<1>5. ASSUME NEW s \in Sessions, NEW b \in Servers, Play(s, b)
      PROVE  OrphanedOnlyByTakeOver'
  <2>1. Command(s, b)
    BY <1>5 DEF Play, PlayUnauthorized, PlayStart
  <2>2. CASE PlayUnauthorized(s, b)
    BY <2>1, <2>2, CommandRegisters DEF PlayUnauthorized, ghostVars
  <2>3. CASE PlayStart(s, b)
    BY <2>1, <2>3, <1>0, CommandRegisters DEF PlayStart, TypeOK
  <2> QED BY <1>5, <2>2, <2>3 DEF Play
<1>6. ASSUME NEW b \in Servers, GraceExpires(b) PROVE OrphanedOnlyByTakeOver'
  BY <1>6, <1>0 DEF GraceExpires, RegistryWithout, TypeOK
<1>7. CASE UNCHANGED vars
  BY <1>7 DEF vars, serverVars, ghostVars
<1> QED BY <1>1, <1>2, <1>3, <1>4, <1>5, <1>6, <1>7 DEF Next

\* The registry names the object everybody uses, but for publishers that took
\* over a path nobody was watching.
THEOREM OrphansInvariant == Spec => []OrphanedOnlyByTakeOver
<1>1. RegistryInv => OrphanedOnlyByTakeOver
  BY DEF RegistryInv
<1> QED BY <1>1, RegistryInit, RegistryStep, PTL DEF Spec

\* Where all clients have one address no publish is taken over, and the path
\* has one object: the property that the run with two clients refutes.
THEOREM OneClientOneBroadcast ==
  ASSUME \A s, t \in Sessions : address[s] = address[t]
  PROVE  Spec => []OneBroadcast
<1> DEFINE NoTakeOver == tookOver = {}
<1>1. Init => NoTakeOver
  BY DEF Init
<1>2. TypeOK /\ NoTakeOver /\ [Next]_vars => NoTakeOver'
  <2> SUFFICES ASSUME TypeOK, NoTakeOver, [Next]_vars PROVE NoTakeOver'
    OBVIOUS
  <2>1. ASSUME NEW s \in Sessions, NEW b \in Servers PROVE ~PublishTakeOver(s, b)
    BY DEF PublishTakeOver, SameClient, TypeOK
  <2> QED
    BY <2>1 DEF Next, vars, ghostVars, Connect, RegisterPush, Close,
                CloseUnbound, ClosePublisher, ClosePlayer, Publish,
                PublishUnauthorized, PublishStart, PublishBusy, PublishResume,
                Play, PlayUnauthorized, PlayStart, GraceExpires
<1>3. OrphanedOnlyByTakeOver /\ NoTakeOver => OneBroadcast
  BY DEF OrphanedOnlyByTakeOver, OneBroadcast
<1> QED
  BY <1>1, <1>2, <1>3, OrphansInvariant, TypeCorrect, PTL DEF Spec

-----------------------------------------------------------------------------
(***************************************************************************)
(* The ledger: a publish is named by its first session, its lineage.  A    *)
(* lineage is in at most one slot, and in a slot or in one history row but *)
(* not in both; from this follows that it is ended once and that its       *)
(* counters are moved by its own viewers only.                             *)
(***************************************************************************)

\* Sessions that never published carry their own stats and no viewers.
Untouched ==
  \A s \in Sessions :
    /\ s \in Push \/ commands[s] = 0 => lineage[s] = None
    /\ lineage[s] = None =>
         createTime[s] = s /\ playCount[s] = 0 /\ plays[s] = 0 /\ doneEvents[s] = 0

\* Lineages are rooted: the first session of a publish carries its own.
Rooted ==
  \A s \in Sessions : lineage[s] # None => lineage[lineage[s]] = lineage[s]

\* A publish in a slot is not ended, and is in no other slot.
InOneSlot ==
  /\ \A b \in Servers : publisher[b] # None =>
       lineage[publisher[b]] # None /\ doneEvents[publisher[b]] = 0
  /\ \A b, c \in Servers :
       publisher[b] # None /\ publisher[c] # None
         /\ lineage[publisher[b]] = lineage[publisher[c]] => b = c

\* A timer runs against a publisher whose end time is set.
FrozenInGrace ==
  \A b \in Servers : graceTimer[b] => endTime[publisher[b]]

\* The rows are those of the ended sessions, one for each publish.
RowsOfEnded ==
  /\ \A s \in Sessions : doneEvents[s] \in {0, 1}
  /\ \A s \in Sessions : doneEvents[s] = 1 => \E row \in history : row.id = s
  /\ \A row \in history : doneEvents[row.id] = 1 /\ lineage[row.id] # None
  /\ \A row, other \in history :
       lineage[row.id] = lineage[other.id] => row = other

\* No publish is both in a slot and in the history, and none is in neither.
SlotOrRow ==
  /\ \A b \in Servers : \A row \in history :
       publisher[b] # None => lineage[row.id] # lineage[publisher[b]]
  /\ \A o \in Sessions : lineage[o] = o =>
       \/ \E b \in Servers : publisher[b] # None /\ lineage[publisher[b]] = o
       \/ \E row \in history : lineage[row.id] = o

LedgerInv ==
  /\ SlotInv
  /\ Untouched
  /\ Rooted
  /\ InOneSlot
  /\ FrozenInGrace
  /\ RowsOfEnded
  /\ SlotOrRow
  /\ StatsSpanReconnects

LEMMA LedgerInit == Init => LedgerInv
<1> SUFFICES ASSUME Init PROVE LedgerInv
  OBVIOUS
<1>1. SlotInv
  BY SlotInit
<1>2. Untouched /\ Rooted /\ InOneSlot /\ FrozenInGrace
  BY SessionsAssumption DEF Init, Untouched, Rooted, InOneSlot, FrozenInGrace
<1>3. RowsOfEnded /\ SlotOrRow /\ StatsSpanReconnects
  BY SessionsAssumption DEF Init, RowsOfEnded, SlotOrRow, StatsSpanReconnects
<1> QED BY <1>1, <1>2, <1>3 DEF LedgerInv

\* A session that sends its command has no publish yet, and nobody has its.
LEMMA NewcomerHasNoPublish ==
  ASSUME LedgerInv, OneCommand, NEW s \in Sessions, NEW b \in Servers,
         Command(s, b)
  PROVE  /\ lineage[s] = None
         /\ createTime[s] = s /\ playCount[s] = 0 /\ plays[s] = 0
         /\ doneEvents[s] = 0
         /\ \A t \in Sessions : lineage[t] # s
         /\ \A row \in history : row.id # s
         /\ \A c \in Servers : publisher[c] # s
         /\ \A t \in Sessions : t # s => commands'[t] = commands[t]
<1>1. commands[s] = 0
  BY DEF Command, OneCommand, LedgerInv, SlotInv, TypeOK
<1>2. /\ lineage[s] = None
      /\ createTime[s] = s /\ playCount[s] = 0 /\ plays[s] = 0
      /\ doneEvents[s] = 0
  BY <1>1 DEF LedgerInv, Untouched
<1>3. \A t \in Sessions : lineage[t] # s
  BY <1>2, SessionsAssumption DEF LedgerInv, Rooted
<1>4. \A row \in history : row.id # s
  BY <1>2 DEF LedgerInv, RowsOfEnded
<1>5. \A c \in Servers : publisher[c] # s
  BY CommandFromNewcomer DEF LedgerInv
<1>6. \A t \in Sessions : t # s => commands'[t] = commands[t]
  BY DEF Command, LedgerInv, SlotInv, TypeOK
<1> QED BY <1>2, <1>3, <1>4, <1>5, <1>6

\* The donePublish event at the end of a grace window writes one new row.
LEMMA EndWritesRow ==
  ASSUME LedgerInv, NEW b \in Servers, graceTimer[b], publisher[b] # None,
         EmitDonePublish(publisher[b])
  PROVE  /\ publisher[b] \in Sessions
         /\ history' = history \cup {[id |-> publisher[b],
                                      createTime |-> createTime[publisher[b]],
                                      playCount |-> playCount[publisher[b]]]}
         /\ doneEvents' = [doneEvents EXCEPT ![publisher[b]] = 1]
         /\ \A row \in history : row.id \in Sessions /\ row.id # publisher[b]
<1> DEFINE p == publisher[b]
<1>1. p \in Sessions
  BY DEF LedgerInv, SlotInv, TypeOK
<1>2. endTime[p] /\ doneEvents[p] = 0
  BY DEF LedgerInv, FrozenInGrace, InOneSlot
<1>3. \A row \in history : row.id # p
  BY <1>2 DEF LedgerInv, RowsOfEnded
<1>4. \A row \in history : row.id \in Sessions
  BY DEF LedgerInv, SlotInv, TypeOK, Rows
<1> QED BY <1>1, <1>2, <1>3, <1>4 DEF EmitDonePublish, HistoryWith

\* Nothing the ledger speaks of moves, but for a timer or an end time.
LEMMA LedgerKept ==
  ASSUME LedgerInv, SlotInv', FrozenInGrace',
         UNCHANGED <<publisher, lineage, createTime, playCount, plays,
                     doneEvents, history>>,
         \A s \in Sessions : commands'[s] = 0 => commands[s] = 0
  PROVE  LedgerInv'
<1>1. Untouched'
  BY DEF LedgerInv, Untouched
<1>2. Rooted' /\ InOneSlot'
  BY DEF LedgerInv, Rooted, InOneSlot
<1>3. RowsOfEnded' /\ SlotOrRow' /\ StatsSpanReconnects'
  BY DEF LedgerInv, RowsOfEnded, SlotOrRow, StatsSpanReconnects
<1> QED BY <1>1, <1>2, <1>3 DEF LedgerInv

\* A command is counted, so its session is not taken for a newcomer again.
LEMMA CommandIsCounted ==
  ASSUME LedgerInv, OneCommand, NEW s \in Sessions, NEW b \in Servers,
         Command(s, b)
  PROVE  s \notin Push /\ \A t \in Sessions :
           commands'[t] = 0 => commands[t] = 0 /\ t # s
<1>1. s \notin Push
  BY CommandFromNewcomer DEF LedgerInv
<1>2. commands[s] \in Nat /\ commands'[s] = commands[s] + 1
  BY ConfigAssumption DEF Command, LedgerInv, SlotInv, TypeOK
<1> QED BY <1>1, <1>2, NewcomerHasNoPublish

\* A publish starts in a free slot.
LEMMA StartKeepsLedger ==
  ASSUME LedgerInv, SlotInv', OneCommand, NEW s \in Sessions, NEW b \in Servers,
         PublishStart(s, b)
  PROVE  LedgerInv'
<1>1. /\ Command(s, b) /\ publisher[b] = None
      /\ UNCHANGED <<graceTimer, endTime, createTime, playCount, history,
                     plays, doneEvents>>
  BY DEF PublishStart, statVars
<1>2. publisher'[b] = s /\ \A c \in Servers : c # b => publisher'[c] = publisher[c]
  BY DEF PublishStart, LedgerInv, SlotInv, TypeOK
<1>3. lineage'[s] = s /\ \A t \in Sessions : t # s => lineage'[t] = lineage[t]
  BY DEF PublishStart, LedgerInv, SlotInv, TypeOK
<1>4. /\ \A c \in Servers : publisher[c] \in Sessions \cup {None}
      /\ \A t \in Sessions : lineage[t] \in Sessions \cup {None}
      /\ \A row \in history : row.id \in Sessions
      /\ None \notin Sessions
  BY SessionsAssumption DEF LedgerInv, SlotInv, TypeOK, Rows
<1>5. /\ lineage[s] = None
      /\ createTime[s] = s /\ playCount[s] = 0 /\ plays[s] = 0
      /\ doneEvents[s] = 0
      /\ \A t \in Sessions : lineage[t] # s
      /\ \A row \in history : row.id # s
      /\ \A c \in Servers : publisher[c] # s
  BY <1>1, NewcomerHasNoPublish
<1>6. Untouched'
  BY <1>1, <1>3, <1>4, CommandIsCounted DEF LedgerInv, Untouched
<1>7. Rooted'
  BY <1>3, <1>4, <1>5 DEF LedgerInv, Rooted
<1>8. InOneSlot'
  BY <1>1, <1>2, <1>3, <1>4, <1>5 DEF LedgerInv, InOneSlot
<1>9. FrozenInGrace'
  BY <1>1, <1>2 DEF LedgerInv, FrozenInGrace, SlotInv, TimerHasPublisher
<1>10. RowsOfEnded'
  BY <1>1, <1>3, <1>4, <1>5 DEF LedgerInv, RowsOfEnded
<1>11. SlotOrRow'
  <2>1. \A c \in Servers : \A row \in history :
          publisher'[c] # None => lineage'[row.id] # lineage'[publisher'[c]]
    BY <1>2, <1>3, <1>4, <1>5 DEF LedgerInv, SlotOrRow
  <2>2. ASSUME NEW o \in Sessions, lineage'[o] = o
        PROVE  \/ \E c \in Servers : publisher'[c] # None /\ lineage'[publisher'[c]] = o
               \/ \E row \in history : lineage'[row.id] = o
    <3>1. CASE o = s
      BY <1>2, <1>3, <1>4, <3>1
    <3>2. CASE o # s
      <4>1. lineage[o] = o
        BY <1>3, <2>2, <3>2
      <4>2. CASE \E c \in Servers : publisher[c] # None /\ lineage[publisher[c]] = o
        BY <1>1, <1>2, <1>3, <1>4, <1>5, <4>2
      <4>3. CASE \E row \in history : lineage[row.id] = o
        BY <1>3, <1>4, <1>5, <4>3
      <4> QED BY <4>1, <4>2, <4>3 DEF LedgerInv, SlotOrRow
    <3> QED BY <3>1, <3>2
  <2> QED BY <1>1, <2>1, <2>2 DEF SlotOrRow
<1>12. StatsSpanReconnects'
  BY <1>1, <1>2, <1>3, <1>4, <1>5 DEF LedgerInv, StatsSpanReconnects
<1> QED
  BY <1>6, <1>7, <1>8, <1>9, <1>10, <1>11, <1>12 DEF LedgerInv

\* A publish is carried on by a new connection of its client.
LEMMA ResumeKeepsLedger ==
  ASSUME LedgerInv, SlotInv', OneCommand, NEW s \in Sessions, NEW b \in Servers,
         PublishResume(s, b)
  PROVE  LedgerInv'
<1> DEFINE p == publisher[b]
<1>1. /\ Command(s, b) /\ p # None
      /\ UNCHANGED <<endTime, history, plays, doneEvents>>
  BY DEF PublishResume
<1>2. publisher'[b] = s /\ \A c \in Servers : c # b => publisher'[c] = publisher[c]
  BY DEF PublishResume, LedgerInv, SlotInv, TypeOK
<1>3. /\ lineage'[s] = lineage[p]
      /\ \A t \in Sessions : t # s => lineage'[t] = lineage[t]
  BY DEF PublishResume, LedgerInv, SlotInv, TypeOK
<1>4. /\ \A c \in Servers : publisher[c] \in Sessions \cup {None}
      /\ \A t \in Sessions : lineage[t] \in Sessions \cup {None}
      /\ \A row \in history : row.id \in Sessions
      /\ None \notin Sessions
  BY SessionsAssumption DEF LedgerInv, SlotInv, TypeOK, Rows
<1>5. /\ lineage[s] = None /\ doneEvents[s] = 0
      /\ \A t \in Sessions : lineage[t] # s
      /\ \A row \in history : row.id # s
      /\ \A c \in Servers : publisher[c] # s
  BY <1>1, NewcomerHasNoPublish
<1>6. /\ createTime'[s] = createTime[p] /\ playCount'[s] = playCount[p]
      /\ \A t \in Sessions : t # s =>
           createTime'[t] = createTime[t] /\ playCount'[t] = playCount[t]
  BY DEF PublishResume, Inherited, LedgerInv, SlotInv, TypeOK
<1>7. p \in Sessions /\ lineage[p] # None
  BY <1>1, <1>4 DEF LedgerInv, InOneSlot
<1>8. graceTimer'[b] = FALSE /\ \A c \in Servers : c # b => graceTimer'[c] = graceTimer[c]
  BY DEF PublishResume, LedgerInv, SlotInv, TypeOK
<1>9. Untouched'
  BY <1>1, <1>3, <1>4, <1>6, <1>7, CommandIsCounted DEF LedgerInv, Untouched
<1>10. Rooted'
  BY <1>3, <1>4, <1>5, <1>7 DEF LedgerInv, Rooted
<1>11. InOneSlot'
  BY <1>1, <1>2, <1>3, <1>4, <1>5, <1>7 DEF LedgerInv, InOneSlot
<1>12. FrozenInGrace'
  BY <1>1, <1>2, <1>8 DEF LedgerInv, FrozenInGrace
<1>13. RowsOfEnded'
  BY <1>1, <1>3, <1>4, <1>5 DEF LedgerInv, RowsOfEnded
<1>14. SlotOrRow'
  <2>1. \A c \in Servers : \A row \in history :
          publisher'[c] # None => lineage'[row.id] # lineage'[publisher'[c]]
    BY <1>1, <1>2, <1>3, <1>4, <1>5 DEF LedgerInv, SlotOrRow
  <2>2. ASSUME NEW o \in Sessions, lineage'[o] = o
        PROVE  \/ \E c \in Servers : publisher'[c] # None /\ lineage'[publisher'[c]] = o
               \/ \E row \in history : lineage'[row.id] = o
    <3>1. o # s /\ lineage[o] = o
      BY <1>3, <1>5, <1>7, <2>2
    <3>2. CASE \E c \in Servers : publisher[c] # None /\ lineage[publisher[c]] = o
      BY <1>1, <1>2, <1>3, <1>4, <1>5, <3>2
    <3>3. CASE \E row \in history : lineage[row.id] = o
      BY <1>3, <1>4, <1>5, <3>3
    <3> QED BY <3>1, <3>2, <3>3 DEF LedgerInv, SlotOrRow
  <2> QED BY <1>1, <2>1, <2>2 DEF SlotOrRow
<1>15. StatsSpanReconnects'
  BY <1>1, <1>2, <1>3, <1>4, <1>5, <1>6, <1>7
  DEF LedgerInv, StatsSpanReconnects
<1> QED
  BY <1>9, <1>10, <1>11, <1>12, <1>13, <1>14, <1>15 DEF LedgerInv

\* The publish in the slot of b is ended, and it is the only one.
LEMMA EndKeepsRows ==
  ASSUME LedgerInv, NEW b \in Servers, graceTimer[b], publisher[b] # None,
         EmitDonePublish(publisher[b]),
         \A t \in Sessions : lineage[t] # None => lineage'[t] = lineage[t],
         UNCHANGED <<plays>>
  PROVE  /\ RowsOfEnded'
         /\ \A row \in history' :
              /\ row.createTime = lineage'[row.id]
              /\ row.playCount = plays'[lineage'[row.id]]
<1> DEFINE p == publisher[b]
           r == [id |-> p, createTime |-> createTime[p], playCount |-> playCount[p]]
<1>1. /\ p \in Sessions /\ history' = history \cup {r}
      /\ doneEvents' = [doneEvents EXCEPT ![p] = 1]
      /\ \A row \in history : row.id \in Sessions /\ row.id # p
  BY EndWritesRow
<1>2. r.id = p /\ r.createTime = createTime[p] /\ r.playCount = playCount[p]
  OBVIOUS
<1>3. lineage[p] # None /\ lineage'[p] = lineage[p]
  BY <1>1 DEF LedgerInv, InOneSlot
<1>4. doneEvents'[p] = 1 /\ \A t \in Sessions : t # p => doneEvents'[t] = doneEvents[t]
  BY <1>1 DEF LedgerInv, SlotInv, TypeOK
<1>5. \A row \in history :
        /\ doneEvents[row.id] = 1 /\ lineage[row.id] # None
        /\ lineage'[row.id] = lineage[row.id] /\ lineage[row.id] # lineage[p]
  BY <1>1 DEF LedgerInv, RowsOfEnded, SlotOrRow
<1>6. \A row \in history' : row = r \/ row \in history
  BY <1>1
<1>7. RowsOfEnded'
  <2>1. \A t \in Sessions : doneEvents'[t] \in {0, 1}
    BY <1>4 DEF LedgerInv, RowsOfEnded
  <2>2. ASSUME NEW t \in Sessions, doneEvents'[t] = 1
        PROVE  \E row \in history' : row.id = t
    <3>1. CASE t = p
      <4>1. r \in history' /\ r.id = t
        BY <1>1, <1>2, <3>1
      <4> QED BY <4>1
    <3>2. CASE t # p
      <4>1. \E row \in history : row.id = t
        BY <1>4, <2>2, <3>2 DEF LedgerInv, RowsOfEnded
      <4> QED BY <1>1, <4>1
    <3> QED BY <3>1, <3>2
  <2>3. \A row \in history' : doneEvents'[row.id] = 1 /\ lineage'[row.id] # None
    BY <1>1, <1>2, <1>3, <1>4, <1>5, <1>6
  <2>4. \A row, other \in history' :
          lineage'[row.id] = lineage'[other.id] => row = other
    BY <1>2, <1>3, <1>5, <1>6 DEF LedgerInv, RowsOfEnded
  <2> QED BY <2>1, <2>2, <2>3, <2>4 DEF RowsOfEnded
<1>8. createTime[p] = lineage[p] /\ playCount[p] = plays[lineage[p]]
  BY DEF LedgerInv, StatsSpanReconnects
<1>9. \A row \in history' : /\ row.createTime = lineage'[row.id]
                            /\ row.playCount = plays'[lineage'[row.id]]
  BY <1>2, <1>3, <1>5, <1>6, <1>8 DEF LedgerInv, StatsSpanReconnects
<1> QED BY <1>7, <1>9

\* The grace window of a publish ends without its client.
LEMMA ExpiryKeepsLedger ==
  ASSUME LedgerInv, SlotInv', NEW b \in Servers, GraceExpires(b)
  PROVE  LedgerInv'
<1> DEFINE p == publisher[b]
           r == [id |-> p, createTime |-> createTime[p], playCount |-> playCount[p]]
<1>1. /\ graceTimer[b] /\ p # None /\ EmitDonePublish(p)
      /\ UNCHANGED <<commands, endTime, createTime, playCount, lineage, plays>>
  BY DEF GraceExpires, sessionVars
<1>2. publisher'[b] = None /\ \A c \in Servers : c # b => publisher'[c] = publisher[c]
  BY DEF GraceExpires, LedgerInv, SlotInv, TypeOK
<1>3. graceTimer'[b] = FALSE /\ \A c \in Servers : c # b => graceTimer'[c] = graceTimer[c]
  BY DEF GraceExpires, LedgerInv, SlotInv, TypeOK
<1>4. /\ p \in Sessions /\ history' = history \cup {r}
      /\ doneEvents' = [doneEvents EXCEPT ![p] = 1]
  BY <1>1, EndWritesRow
<1>5. doneEvents'[p] = 1 /\ \A t \in Sessions : t # p => doneEvents'[t] = doneEvents[t]
  BY <1>4 DEF LedgerInv, SlotInv, TypeOK
<1>6. lineage[p] # None /\ r.id = p
  BY <1>1 DEF LedgerInv, InOneSlot
<1>7. /\ \A c \in Servers : publisher[c] \in Sessions \cup {None}
      /\ None \notin Sessions
  BY SessionsAssumption DEF LedgerInv, SlotInv, TypeOK
<1>8. \A c \in Servers : c # b /\ publisher[c] # None =>
        lineage[publisher[c]] # lineage[p] /\ publisher[c] # p
  BY <1>1 DEF LedgerInv, InOneSlot
<1>9. Untouched' /\ Rooted'
  BY <1>1, <1>5, <1>6 DEF LedgerInv, Untouched, Rooted
<1>10. InOneSlot'
  BY <1>1, <1>2, <1>5, <1>7, <1>8 DEF LedgerInv, InOneSlot
<1>11. FrozenInGrace'
  BY <1>1, <1>2, <1>3 DEF LedgerInv, FrozenInGrace
<1>12. /\ RowsOfEnded'
       /\ \A row \in history' : /\ row.createTime = lineage'[row.id]
                                /\ row.playCount = plays'[lineage'[row.id]]
  BY <1>1, EndKeepsRows
<1>13. SlotOrRow'
  <2>1. \A c \in Servers : \A row \in history' :
          publisher'[c] # None => lineage'[row.id] # lineage'[publisher'[c]]
    BY <1>1, <1>2, <1>4, <1>6, <1>8 DEF LedgerInv, SlotOrRow
  <2>2. ASSUME NEW o \in Sessions, lineage'[o] = o
        PROVE  \/ \E c \in Servers : publisher'[c] # None /\ lineage'[publisher'[c]] = o
               \/ \E row \in history' : lineage'[row.id] = o
    <3>1. CASE o = lineage[p]
      <4>1. r \in history' /\ lineage'[r.id] = o
        BY <1>1, <1>4, <1>6, <3>1
      <4> QED BY <4>1
    <3>2. CASE \E c \in Servers : publisher[c] # None /\ lineage[publisher[c]] = o
      BY <1>1, <1>2, <3>1, <3>2
    <3>3. CASE \E row \in history : lineage[row.id] = o
      BY <1>1, <1>4, <3>3
    <3> QED BY <1>1, <2>2, <3>1, <3>2, <3>3 DEF LedgerInv, SlotOrRow
  <2> QED BY <2>1, <2>2 DEF SlotOrRow
<1>14. StatsSpanReconnects'
  BY <1>1, <1>2, <1>7, <1>12 DEF LedgerInv, StatsSpanReconnects
<1> QED
  BY <1>9, <1>10, <1>11, <1>12, <1>13, <1>14 DEF LedgerInv

\* A publish that waits for its client ends, and another takes its place.
LEMMA TakeOverKeepsLedger ==
  ASSUME LedgerInv, SlotInv', OneCommand, NEW s \in Sessions, NEW b \in Servers,
         PublishTakeOver(s, b)
  PROVE  LedgerInv'
<1> DEFINE p == publisher[b]
           r == [id |-> p, createTime |-> createTime[p], playCount |-> playCount[p]]
<1>1. /\ Command(s, b) /\ graceTimer[b] /\ p # None /\ EmitDonePublish(p)
      /\ UNCHANGED <<endTime, createTime, playCount, plays>>
  BY DEF PublishTakeOver
<1>2. publisher'[b] = s /\ \A c \in Servers : c # b => publisher'[c] = publisher[c]
  BY DEF PublishTakeOver, LedgerInv, SlotInv, TypeOK
<1>3. graceTimer'[b] = FALSE /\ \A c \in Servers : c # b => graceTimer'[c] = graceTimer[c]
  BY DEF PublishTakeOver, LedgerInv, SlotInv, TypeOK
<1>4. lineage'[s] = s /\ \A t \in Sessions : t # s => lineage'[t] = lineage[t]
  BY DEF PublishTakeOver, LedgerInv, SlotInv, TypeOK
<1>5. /\ p \in Sessions /\ history' = history \cup {r}
      /\ doneEvents' = [doneEvents EXCEPT ![p] = 1]
      /\ \A row \in history : row.id \in Sessions
  BY <1>1, EndWritesRow
<1>6. doneEvents'[p] = 1 /\ \A t \in Sessions : t # p => doneEvents'[t] = doneEvents[t]
  BY <1>5 DEF LedgerInv, SlotInv, TypeOK
<1>7. lineage[p] # None /\ r.id = p
  BY <1>1 DEF LedgerInv, InOneSlot
<1>8. /\ \A c \in Servers : publisher[c] \in Sessions \cup {None}
      /\ \A t \in Sessions : lineage[t] \in Sessions \cup {None}
      /\ None \notin Sessions
  BY SessionsAssumption DEF LedgerInv, SlotInv, TypeOK
<1>9. /\ lineage[s] = None
      /\ createTime[s] = s /\ playCount[s] = 0 /\ plays[s] = 0
      /\ doneEvents[s] = 0
      /\ \A t \in Sessions : lineage[t] # s
      /\ \A row \in history : row.id # s
      /\ \A c \in Servers : publisher[c] # s
  BY <1>1, NewcomerHasNoPublish
<1>10. \A c \in Servers : c # b /\ publisher[c] # None =>
         lineage[publisher[c]] # lineage[p] /\ publisher[c] # p
  BY <1>1 DEF LedgerInv, InOneSlot
<1>11. Untouched'
  BY <1>1, <1>4, <1>6, <1>7, <1>8, CommandIsCounted DEF LedgerInv, Untouched
<1>12. Rooted'
  BY <1>4, <1>8, <1>9 DEF LedgerInv, Rooted
<1>13. InOneSlot'
  <2>1. \A c \in Servers : publisher'[c] # None =>
          lineage'[publisher'[c]] # None /\ doneEvents'[publisher'[c]] = 0
    BY <1>2, <1>4, <1>6, <1>7, <1>8, <1>9, <1>10 DEF LedgerInv, InOneSlot
  <2>2. \A c, d \in Servers :
          publisher'[c] # None /\ publisher'[d] # None
            /\ lineage'[publisher'[c]] = lineage'[publisher'[d]] => c = d
    BY <1>2, <1>4, <1>8, <1>9 DEF LedgerInv, InOneSlot
  <2> QED BY <2>1, <2>2 DEF InOneSlot
<1>14. FrozenInGrace'
  BY <1>1, <1>2, <1>3 DEF LedgerInv, FrozenInGrace
<1>15. /\ RowsOfEnded'
       /\ \A row \in history' : /\ row.createTime = lineage'[row.id]
                                /\ row.playCount = plays'[lineage'[row.id]]
  BY <1>1, <1>4, <1>9, EndKeepsRows
<1>16. SlotOrRow'
  <2>1. \A c \in Servers : \A row \in history' :
          publisher'[c] # None => lineage'[row.id] # lineage'[publisher'[c]]
    <3> SUFFICES ASSUME NEW c \in Servers, NEW row \in history', publisher'[c] # None
                 PROVE  lineage'[row.id] # lineage'[publisher'[c]]
      OBVIOUS
    <3>1. row.id \in Sessions /\ row.id # s /\ lineage'[row.id] = lineage[row.id]
      BY <1>4, <1>5, <1>7, <1>9
    <3>2. CASE c = b
      BY <1>2, <1>4, <1>9, <3>1, <3>2
    <3>3. CASE c # b
      <4>1. publisher'[c] = publisher[c] /\ lineage'[publisher[c]] = lineage[publisher[c]]
        BY <1>2, <1>4, <1>8, <1>9, <3>3
      <4>2. lineage[row.id] # lineage[publisher[c]]
        BY <1>5, <1>7, <1>10, <3>3, <4>1 DEF LedgerInv, SlotOrRow
      <4> QED BY <3>1, <4>1, <4>2
    <3> QED BY <3>2, <3>3
  <2>2. ASSUME NEW o \in Sessions, lineage'[o] = o
        PROVE  \/ \E c \in Servers : publisher'[c] # None /\ lineage'[publisher'[c]] = o
               \/ \E row \in history' : lineage'[row.id] = o
    <3>1. CASE o = s
      BY <1>2, <1>4, <1>8, <3>1
    <3>2. CASE o # s /\ o = lineage[p]
      <4>1. r \in history' /\ lineage'[r.id] = o
        BY <1>4, <1>5, <1>7, <1>9, <3>2
      <4> QED BY <4>1
    <3>3. CASE o # s /\ o # lineage[p]
      <4>1. lineage[o] = o
        BY <1>4, <2>2, <3>3
      <4>2. CASE \E c \in Servers : publisher[c] # None /\ lineage[publisher[c]] = o
        BY <1>2, <1>4, <1>8, <1>9, <3>3, <4>2
      <4>3. CASE \E row \in history : lineage[row.id] = o
        BY <1>4, <1>5, <1>9, <4>3
      <4> QED BY <4>1, <4>2, <4>3 DEF LedgerInv, SlotOrRow
    <3> QED BY <3>1, <3>2, <3>3
  <2> QED BY <2>1, <2>2 DEF SlotOrRow
<1>17. StatsSpanReconnects'
  BY <1>1, <1>2, <1>4, <1>8, <1>9, <1>15 DEF LedgerInv, StatsSpanReconnects
<1> QED
  BY <1>11, <1>12, <1>13, <1>14, <1>15, <1>16, <1>17 DEF LedgerInv

\* A viewer is counted on the publish in the slot and on no other.
LEMMA PlayKeepsLedger ==
  ASSUME LedgerInv, SlotInv', OneCommand, NEW s \in Sessions, NEW b \in Servers,
         PlayStart(s, b)
  PROVE  LedgerInv'
<1> DEFINE p == publisher[b]
<1>1. /\ Command(s, b)
      /\ UNCHANGED <<publisher, graceTimer, endTime, createTime, history,
                     lineage, doneEvents>>
  BY DEF PlayStart
<1>2. /\ \A c \in Servers : publisher[c] \in Sessions \cup {None}
      /\ \A t \in Sessions : lineage[t] \in Sessions \cup {None}
      /\ \A row \in history : row.id \in Sessions
      /\ None \notin Sessions
  BY SessionsAssumption DEF LedgerInv, SlotInv, TypeOK, Rows
<1>3. Rooted' /\ InOneSlot' /\ FrozenInGrace' /\ RowsOfEnded' /\ SlotOrRow'
  BY <1>1
  DEF LedgerInv, Rooted, InOneSlot, FrozenInGrace, RowsOfEnded, SlotOrRow
<1>4. CASE p # None
  <2>1. /\ p \in Sessions /\ lineage[p] \in Sessions
        /\ lineage[lineage[p]] = lineage[p]
    BY <1>2, <1>4 DEF LedgerInv, InOneSlot, Rooted
  <2>2. /\ playCount' = [playCount EXCEPT ![p] = @ + 1]
        /\ plays' = [plays EXCEPT ![lineage[p]] = @ + 1]
    BY <1>4 DEF PlayStart
  <2>3. /\ playCount'[p] = playCount[p] + 1
        /\ plays'[lineage[p]] = plays[lineage[p]] + 1
        /\ \A t \in Sessions : t # p => playCount'[t] = playCount[t]
        /\ \A t \in Sessions \cup {None} : t # lineage[p] => plays'[t] = plays[t]
    BY <2>1, <2>2 DEF LedgerInv, SlotInv, TypeOK
  <2>4. Untouched'
    BY <1>1, <1>2, <2>1, <2>3, CommandIsCounted DEF LedgerInv, Untouched
  <2>5. \A c \in Servers : publisher[c] # None =>
          /\ createTime[publisher[c]] = lineage[publisher[c]]
          /\ playCount'[publisher[c]] = plays'[lineage[publisher[c]]]
    <3> SUFFICES ASSUME NEW c \in Servers, publisher[c] # None
                 PROVE  /\ createTime[publisher[c]] = lineage[publisher[c]]
                        /\ playCount'[publisher[c]] = plays'[lineage[publisher[c]]]
      OBVIOUS
    <3>1. /\ createTime[publisher[c]] = lineage[publisher[c]]
          /\ playCount[publisher[c]] = plays[lineage[publisher[c]]]
      BY DEF LedgerInv, StatsSpanReconnects
    <3>2. CASE c = b
      BY <2>3, <3>1, <3>2
    <3>3. CASE c # b
      <4>1. lineage[publisher[c]] # lineage[p] /\ publisher[c] # p
        BY <1>4, <3>3 DEF LedgerInv, InOneSlot
      <4> QED BY <1>2, <2>3, <3>1, <4>1
    <3> QED BY <3>2, <3>3
  <2>6. \A row \in history : /\ row.createTime = lineage[row.id]
                             /\ row.playCount = plays'[lineage[row.id]]
    <3>1. \A row \in history : lineage[row.id] # lineage[p]
      BY <1>4 DEF LedgerInv, SlotOrRow
    <3> QED BY <1>2, <2>3, <3>1 DEF LedgerInv, StatsSpanReconnects
  <2> QED
    BY <1>1, <1>3, <2>4, <2>5, <2>6 DEF LedgerInv, StatsSpanReconnects
<1>5. CASE p = None
  <2>1. playCount' = playCount /\ plays' = [plays EXCEPT ![None] = @ + 1]
    BY <1>5 DEF PlayStart
  <2>2. \A t \in Sessions : plays'[t] = plays[t]
    BY <1>2, <2>1 DEF LedgerInv, SlotInv, TypeOK
  <2>3. Untouched'
    BY <1>1, <2>1, <2>2, CommandIsCounted DEF LedgerInv, Untouched
  <2>4. /\ \A c \in Servers : publisher[c] # None =>
             lineage[publisher[c]] \in Sessions
        /\ \A row \in history : lineage[row.id] \in Sessions
    BY <1>2 DEF LedgerInv, InOneSlot, RowsOfEnded
  <2>5. StatsSpanReconnects'
    BY <1>1, <2>1, <2>2, <2>4 DEF LedgerInv, StatsSpanReconnects
  <2> QED BY <1>3, <2>3, <2>5 DEF LedgerInv
<1> QED BY <1>4, <1>5

LEMMA LedgerStep == OneCommand /\ LedgerInv /\ [Next]_vars => LedgerInv'
<1> SUFFICES ASSUME OneCommand, LedgerInv, [Next]_vars PROVE LedgerInv'
  OBVIOUS
<1>0. SlotInv /\ SlotInv' /\ TypeOK
  BY SlotStep DEF LedgerInv, SlotInv
<1>1. ASSUME NEW s \in Sessions, Connect(s) \/ RegisterPush(s) PROVE LedgerInv'
  <2>1. UNCHANGED <<publisher, graceTimer, commands, endTime, createTime,
                    playCount, history, lineage, plays, doneEvents>>
    BY <1>1 DEF Connect, RegisterPush, serverVars, statVars, ghostVars
  <2>2. FrozenInGrace'
    BY <2>1 DEF LedgerInv, FrozenInGrace
  <2> QED BY <1>0, <2>1, <2>2, LedgerKept
<1>2. ASSUME NEW s \in Sessions, Close(s) PROVE LedgerInv'
  <2>1. UNCHANGED <<publisher, commands, createTime, playCount, history,
                    lineage, plays, doneEvents>>
    BY <1>2 DEF Close, CloseUnbound, ClosePublisher, ClosePlayer, serverVars,
                ghostVars
  <2>2. CASE CloseUnbound(s) \/ ClosePlayer(s)
    <3>1. /\ graceTimer' = graceTimer
          /\ endTime' = [endTime EXCEPT ![s] = TRUE]
      BY <2>2 DEF CloseUnbound, ClosePlayer, serverVars
    <3>2. FrozenInGrace'
      BY <1>0, <2>1, <3>1
      DEF LedgerInv, FrozenInGrace, TypeOK, SlotInv, TimerHasPublisher
    <3> QED BY <1>0, <2>1, <3>2, LedgerKept
  <2>3. CASE ClosePublisher(s)
    <3> DEFINE b == broadcast[s]
               held == publisher[b] = s /\ ~graceTimer[b]
    <3>1. /\ b \in Servers
          /\ endTime' = [endTime EXCEPT ![s] = @ \/ held]
          /\ graceTimer' = [graceTimer EXCEPT ![b] = @ \/ held]
      BY <1>0, <2>3 DEF ClosePublisher, LosesSlot, TypeOK
    <3>2. /\ \A c \in Servers : publisher[c] \in Sessions \cup {None}
          /\ \A c \in Servers : graceTimer[c] => publisher[c] # None
      BY <1>0 DEF TypeOK, SlotInv, TimerHasPublisher
    <3>3. \A t \in Sessions : endTime[t] => endTime'[t]
      BY <1>0, <3>1 DEF TypeOK
    <3>4. CASE held
      <4>1. endTime'[s] = TRUE
        BY <1>0, <3>1, <3>4 DEF TypeOK
      <4>2. \A c \in Servers : graceTimer'[c] => c = b \/ graceTimer[c]
        BY <1>0, <3>1 DEF TypeOK
      <4>3. FrozenInGrace'
        BY <2>1, <3>2, <3>3, <3>4, <4>1, <4>2 DEF LedgerInv, FrozenInGrace
      <4> QED BY <1>0, <2>1, <4>3, LedgerKept
    <3>5. CASE ~held
      <4>1. \A c \in Servers : graceTimer'[c] = graceTimer[c]
        BY <1>0, <3>1, <3>5 DEF TypeOK
      <4>2. FrozenInGrace'
        BY <2>1, <3>2, <3>3, <4>1 DEF LedgerInv, FrozenInGrace
      <4> QED BY <1>0, <2>1, <4>2, LedgerKept
    <3> QED BY <3>4, <3>5
  <2> QED BY <1>2, <2>2, <2>3 DEF Close
<1>3. ASSUME NEW s \in Sessions, NEW b \in Servers,
             \/ PublishUnauthorized(s, b) \/ PublishBusy(s, b)
             \/ PlayUnauthorized(s, b)
      PROVE  LedgerInv'
  <2>1. /\ Command(s, b)
        /\ UNCHANGED <<publisher, graceTimer, endTime, createTime, playCount,
                       history, lineage, plays, doneEvents>>
    BY <1>3 DEF PublishUnauthorized, PublishBusy, PlayUnauthorized, statVars,
                ghostVars
  <2>2. FrozenInGrace'
    BY <2>1 DEF LedgerInv, FrozenInGrace
  <2> QED BY <1>0, <2>1, <2>2, CommandIsCounted, LedgerKept
<1>4. ASSUME NEW s \in Sessions, NEW b \in Servers, Publish(s, b)
      PROVE  LedgerInv'
  BY <1>0, <1>3, <1>4, StartKeepsLedger, ResumeKeepsLedger,
     TakeOverKeepsLedger DEF Publish
<1>5. ASSUME NEW s \in Sessions, NEW b \in Servers, Play(s, b)
      PROVE  LedgerInv'
  BY <1>0, <1>3, <1>5, PlayKeepsLedger DEF Play
<1>6. ASSUME NEW b \in Servers, GraceExpires(b) PROVE LedgerInv'
  BY <1>0, <1>6, ExpiryKeepsLedger
<1>7. CASE UNCHANGED vars
  <2>1. UNCHANGED <<publisher, graceTimer, commands, endTime, createTime,
                    playCount, history, lineage, plays, doneEvents>>
    BY <1>7 DEF vars, serverVars, sessionVars, statVars, ghostVars
  <2>2. FrozenInGrace'
    BY <2>1 DEF LedgerInv, FrozenInGrace
  <2> QED BY <1>0, <2>1, <2>2, LedgerKept
<1> QED BY <1>1, <1>2, <1>4, <1>5, <1>6, <1>7 DEF Next

\* With one command a connection, the start time and the play counter of a
\* publish, live or in its history row, are those of all its connections.
THEOREM StatsInvariant ==
  ASSUME OneCommand PROVE Spec => []StatsSpanReconnects
<1>1. Init => LedgerInv
  BY LedgerInit
<1>2. LedgerInv /\ [Next]_vars => LedgerInv'
  BY LedgerStep
<1>3. LedgerInv => StatsSpanReconnects
  BY DEF LedgerInv
<1> QED BY <1>1, <1>2, <1>3, PTL DEF Spec

LEMMA LedgerEndsOnce == LedgerInv => EndedExactlyOnce
<1> SUFFICES ASSUME LedgerInv PROVE EndedExactlyOnce
  OBVIOUS
<1>1. \A s \in Sessions : doneEvents[s] \in {0, 1}
  BY DEF LedgerInv, RowsOfEnded
<1>2. /\ \A c \in Servers : publisher[c] \in Sessions \cup {None}
      /\ \A row \in history : row.id \in Sessions
      /\ None \notin Sessions
  BY SessionsAssumption DEF LedgerInv, SlotInv, TypeOK, Rows
<1>3. ASSUME NEW o \in Sessions, lineage[o] = o
      PROVE  \/ /\ \E b \in Servers : SlotsOf(o) = {b}
                /\ EndsOf(o) = {}
             \/ /\ SlotsOf(o) = {}
                /\ \E s \in Sessions :
                     EndsOf(o) = {s} /\ \E row \in history : row.id = s
  <2>1. CASE \E b \in Servers : publisher[b] # None /\ lineage[publisher[b]] = o
    <3>1. PICK b \in Servers : publisher[b] # None /\ lineage[publisher[b]] = o
      BY <2>1
    <3>2. SlotsOf(o) = {b}
      BY <3>1 DEF SlotsOf, LedgerInv, InOneSlot
    <3>3. \A s \in Sessions : lineage[s] = o => doneEvents[s] # 1
      BY <3>1 DEF LedgerInv, RowsOfEnded, SlotOrRow
    <3>4. EndsOf(o) = {}
      BY <1>1, <3>3 DEF EndsOf
    <3> QED BY <3>2, <3>4
  <2>2. CASE ~ \E b \in Servers : publisher[b] # None /\ lineage[publisher[b]] = o
    <3>1. PICK row \in history : lineage[row.id] = o
      BY <1>3, <2>2 DEF LedgerInv, SlotOrRow
    <3>2. SlotsOf(o) = {}
      BY <2>2 DEF SlotsOf
    <3>3. row.id \in Sessions /\ doneEvents[row.id] = 1
      BY <1>2 DEF LedgerInv, RowsOfEnded
    <3>4. ASSUME NEW s \in Sessions, lineage[s] = o, doneEvents[s] = 1
          PROVE  s = row.id
      <4>1. PICK other \in history : other.id = s
        BY <3>4 DEF LedgerInv, RowsOfEnded
      <4>2. other = row
        BY <3>1, <3>4, <4>1 DEF LedgerInv, RowsOfEnded
      <4> QED BY <4>1, <4>2
    <3>5. EndsOf(o) = {row.id}
      BY <1>1, <3>1, <3>3, <3>4 DEF EndsOf
    <3> QED BY <3>2, <3>3, <3>5
  <2> QED BY <2>1, <2>2
<1> QED BY <1>1, <1>3 DEF EndedExactlyOnce

\* With one command a connection, every publish that was accepted is in one
\* slot, or was ended by one donePublish event and has its history row.
THEOREM EndedOnceInvariant ==
  ASSUME OneCommand PROVE Spec => []EndedExactlyOnce
<1>1. Init => LedgerInv
  BY LedgerInit
<1>2. LedgerInv /\ [Next]_vars => LedgerInv'
  BY LedgerStep
<1> QED BY <1>1, <1>2, LedgerEndsOnce, PTL DEF Spec

-----------------------------------------------------------------------------
(***************************************************************************)
(* An object that nobody uses.  What empties an object unregisters it, and *)
(* what registers one uses it, or was refused: a refused session keeps its *)
(* object until its connection closes, and then leaves as a player does,   *)
(* unless it is an FLV publisher.                                          *)
(***************************************************************************)

\* An RTMP session is a publisher only once it was accepted.
OnlyFlvRefused == \A s \in Sessions : isPublisher[s] => s \in Flv \/ lineage[s] # None

EmptyInv == LedgerInv /\ OnlyFlvRefused /\ EmptyOnlyAfterRefusal

LEMMA EmptyInit == Init => EmptyInv
BY LedgerInit DEF EmptyInv, Init, OnlyFlvRefused, EmptyOnlyAfterRefusal

LEMMA OnlyFlvRefusedStep ==
  ASSUME OneCommand, EmptyInv, [Next]_vars
  PROVE  OnlyFlvRefused'
<1>0. TypeOK /\ LedgerInv /\ OnlyFlvRefused
  BY DEF EmptyInv, LedgerInv, SlotInv
<1>1. ASSUME NEW s \in Sessions, Connect(s) \/ RegisterPush(s) \/ Close(s)
      PROVE  OnlyFlvRefused'
  BY <1>0, <1>1
  DEF Connect, RegisterPush, Close, CloseUnbound, ClosePublisher, ClosePlayer,
      OnlyFlvRefused, ghostVars
<1>2. ASSUME NEW s \in Sessions, NEW b \in Servers, Publish(s, b)
      PROVE  OnlyFlvRefused'
  <2>1. CASE PublishUnauthorized(s, b) \/ PublishBusy(s, b)
    BY <1>0, <2>1
    DEF PublishUnauthorized, PublishBusy, MarkPublisher, OnlyFlvRefused,
        TypeOK, ghostVars
  <2>2. CASE PublishStart(s, b) \/ PublishTakeOver(s, b)
    BY <1>0, <2>2, SessionsAssumption
    DEF PublishStart, PublishTakeOver, MarkPublisher, OnlyFlvRefused, TypeOK
  <2>3. CASE PublishResume(s, b)
    <3>1. lineage[publisher[b]] # None
      BY <1>0, <2>3 DEF PublishResume, LedgerInv, InOneSlot
    <3> QED
      BY <1>0, <2>3, <3>1
      DEF PublishResume, MarkPublisher, OnlyFlvRefused, TypeOK
  <2> QED BY <1>2, <2>1, <2>2, <2>3 DEF Publish
<1>3. ASSUME NEW s \in Sessions, NEW b \in Servers, Play(s, b)
      PROVE  OnlyFlvRefused'
  BY <1>0, <1>3
  DEF Play, PlayUnauthorized, PlayStart, OnlyFlvRefused, TypeOK, ghostVars
<1>4. ASSUME NEW b \in Servers, GraceExpires(b) PROVE OnlyFlvRefused'
  BY <1>0, <1>4 DEF GraceExpires, OnlyFlvRefused, sessionVars
<1>5. CASE UNCHANGED vars
  BY <1>0, <1>5 DEF vars, sessionVars, ghostVars, OnlyFlvRefused
<1> QED BY <1>1, <1>2, <1>3, <1>4, <1>5 DEF Next

LEMMA EmptyStep ==
  ASSUME OneCommand, EmptyInv, [Next]_vars
  PROVE  EmptyOnlyAfterRefusal'
<1>0. TypeOK /\ SlotInv /\ LedgerInv /\ OnlyFlvRefused /\ EmptyOnlyAfterRefusal
  BY DEF EmptyInv, LedgerInv, SlotInv
<1>1. ASSUME NEW s \in Sessions, Connect(s) PROVE EmptyOnlyAfterRefusal'
  <2>1. broadcast[s] = None
    BY <1>0, <1>1 DEF Connect, SlotInv, Bound
  <2> QED BY <1>0, <1>1, <2>1
    DEF Connect, EmptyOnlyAfterRefusal, serverVars, ghostVars, TypeOK
<1>2. ASSUME NEW s \in Sessions, RegisterPush(s) PROVE EmptyOnlyAfterRefusal'
  BY <1>0, <1>2 DEF RegisterPush, EmptyOnlyAfterRefusal, TypeOK
<1>3. ASSUME NEW s \in Sessions, CloseUnbound(s) PROVE EmptyOnlyAfterRefusal'
  BY <1>0, <1>3
  DEF CloseUnbound, EmptyOnlyAfterRefusal, serverVars, ghostVars, TypeOK
<1>4. ASSUME NEW s \in Sessions, ClosePublisher(s) PROVE EmptyOnlyAfterRefusal'
  BY <1>0, <1>4
  DEF ClosePublisher, EmptyOnlyAfterRefusal, OnlyFlvRefused, ghostVars, TypeOK
<1>5. ASSUME NEW s \in Sessions, ClosePlayer(s) PROVE EmptyOnlyAfterRefusal'
  <2> SUFFICES ASSUME registry' # None, publisher'[registry'] = None,
                      subscribers'[registry'] = {}
               PROVE  \E w \in Sessions :
                        /\ broadcast'[w] = registry' /\ lineage'[w] = None
                        /\ conn'[w] = "open" \/ (w \in Flv /\ isPublisher'[w])
    BY DEF EmptyOnlyAfterRefusal
  <2>1. registry' = registry /\ registry \in Servers
    BY <1>0, <1>5 DEF ClosePlayer, RegistryWithout, TypeOK
  <2>2. UNCHANGED <<publisher, broadcast, isPublisher, lineage>>
    BY <1>5 DEF ClosePlayer, ghostVars
  <2>3. broadcast[s] # registry
    BY <1>5, <2>1, <2>2 DEF ClosePlayer, RegistryWithout
  <2>4. subscribers[registry] = {}
    BY <1>0, <1>5, <2>1, <2>3 DEF ClosePlayer, WithoutPlayer, TypeOK
  <2>5. PICK w \in Sessions :
          /\ broadcast[w] = registry /\ lineage[w] = None
          /\ conn[w] = "open" \/ (w \in Flv /\ isPublisher[w])
    BY <1>0, <2>1, <2>2, <2>4 DEF EmptyOnlyAfterRefusal
  <2>6. conn'[w] = conn[w]
    BY <1>0, <1>5, <2>3, <2>5 DEF ClosePlayer, TypeOK
  <2> QED BY <2>1, <2>2, <2>5, <2>6
<1>6. ASSUME NEW s \in Sessions, NEW b \in Servers, Publish(s, b)
      PROVE  EmptyOnlyAfterRefusal'
  <2>1. CASE PublishUnauthorized(s, b) \/ PublishBusy(s, b)
    <3>1. Command(s, b) /\ registry' = b /\ lineage' = lineage
      BY <2>1 DEF PublishUnauthorized, PublishBusy, ghostVars
    <3>2. lineage[s] = None /\ broadcast'[s] = b /\ conn'[s] = "open"
      BY <1>0, <3>1, NewcomerHasNoPublish, CommandFromNewcomer DEF TypeOK
    <3> QED BY <3>1, <3>2 DEF EmptyOnlyAfterRefusal
  <2>2. CASE PublishStart(s, b) \/ PublishResume(s, b) \/ PublishTakeOver(s, b)
    <3>1. /\ publisher' = [publisher EXCEPT ![b] = s]
          /\ registry' = b \/ registry' = RegistryWithout(b, subscribers[b])
          /\ Command(s, b)
      BY <2>2 DEF PublishStart, PublishResume, PublishTakeOver
    <3>2. publisher'[b] = s /\ s # None
      BY <1>0, <3>1, SessionsAssumption DEF TypeOK
    <3>3. registry' \in {b, None}
      <4>1. CASE PublishStart(s, b) \/ PublishResume(s, b)
        BY <4>1 DEF PublishStart, PublishResume
      <4>2. CASE PublishTakeOver(s, b)
        BY <4>2 DEF PublishTakeOver, Command, Resolves, Fresh, RegistryWithout
      <4> QED BY <2>2, <4>1, <4>2
    <3> QED BY <3>2, <3>3 DEF EmptyOnlyAfterRefusal
  <2> QED BY <1>6, <2>1, <2>2 DEF Publish
<1>7. ASSUME NEW s \in Sessions, NEW b \in Servers, Play(s, b)
      PROVE  EmptyOnlyAfterRefusal'
  <2>1. CASE PlayUnauthorized(s, b)
    <3>1. Command(s, b) /\ registry' = b /\ lineage' = lineage
      BY <2>1 DEF PlayUnauthorized, ghostVars
    <3>2. lineage[s] = None /\ broadcast'[s] = b /\ conn'[s] = "open"
      BY <1>0, <3>1, NewcomerHasNoPublish, CommandFromNewcomer DEF TypeOK
    <3> QED BY <3>1, <3>2 DEF EmptyOnlyAfterRefusal
  <2>2. CASE PlayStart(s, b)
    BY <1>0, <2>2 DEF PlayStart, EmptyOnlyAfterRefusal, TypeOK
  <2> QED BY <1>7, <2>1, <2>2 DEF Play
<1>8. ASSUME NEW b \in Servers, GraceExpires(b) PROVE EmptyOnlyAfterRefusal'
  BY <1>0, <1>8
  DEF GraceExpires, RegistryWithout, EmptyOnlyAfterRefusal, sessionVars, TypeOK
<1>9. CASE UNCHANGED vars
  BY <1>0, <1>9
  DEF vars, serverVars, sessionVars, ghostVars, EmptyOnlyAfterRefusal
<1> QED BY <1>1, <1>2, <1>3, <1>4, <1>5, <1>6, <1>7, <1>8, <1>9 DEF Next, Close

\* With one command a connection, the registry names whatever is used, but
\* for the objects of takeovers, and nothing that is not, but for refusals.
THEOREM RegistryInvariant ==
  ASSUME OneCommand PROVE Spec => []RegistryInOrder
<1>1. Init => EmptyInv /\ RegistryInv
  BY EmptyInit, RegistryInit
<1>2. EmptyInv /\ RegistryInv /\ [Next]_vars => (EmptyInv /\ RegistryInv)'
  BY EmptyStep, OnlyFlvRefusedStep, LedgerStep, RegistryStep DEF EmptyInv
<1>3. EmptyInv /\ RegistryInv => RegistryInOrder
  BY DEF EmptyInv, RegistryInv, RegistryInOrder
<1> QED BY <1>1, <1>2, <1>3, PTL DEF Spec
-----------------------------------------------------------------------------
(***************************************************************************)
(* Module Publication.  The ledger says of each session which of the five  *)
(* phases its publish is in: who is in a slot is live or held as the timer *)
(* tells, who has left it is ended or resumed as the history tells.        *)
(***************************************************************************)

InSlot(s) == \E b \in Servers : Holds(b, s)

\* PhaseOf, one phase at a time.
PhaseTable ==
  \A s \in Sessions :
    /\ lineage[s] = None <=> PhaseOf(s) = "idle"
    /\ \A b \in Servers : Holds(b, s) =>
         PhaseOf(s) = IF graceTimer[b] THEN "held" ELSE "live"
    /\ lineage[s] # None /\ ~InSlot(s) =>
         PhaseOf(s) = IF doneEvents[s] > 0 THEN "ended" ELSE "resumed"

LEMMA PhaseFacts == LedgerInv => PhaseTable
<1> SUFFICES ASSUME LedgerInv, NEW s \in Sessions
             PROVE  /\ lineage[s] = None <=> PhaseOf(s) = "idle"
                    /\ \A b \in Servers : Holds(b, s) =>
                         PhaseOf(s) = IF graceTimer[b] THEN "held" ELSE "live"
                    /\ lineage[s] # None /\ ~InSlot(s) =>
                         PhaseOf(s) = IF doneEvents[s] > 0 THEN "ended"
                                      ELSE "resumed"
  BY DEF PhaseTable
<1>1. s # None
  BY SessionsAssumption
<1>2. ASSUME NEW b \in Servers, NEW c \in Servers, Holds(b, s), Holds(c, s)
      PROVE  b = c
  BY <1>1, <1>2 DEF LedgerInv, InOneSlot, Holds
<1>3. ASSUME NEW b \in Servers, Holds(b, s)
      PROVE  lineage[s] # None
  BY <1>1, <1>3 DEF LedgerInv, InOneSlot, Holds
<1>4. lineage[s] = None <=> PhaseOf(s) = "idle"
  BY DEF PhaseOf
<1>5. ASSUME NEW b \in Servers, Holds(b, s)
      PROVE  PhaseOf(s) = IF graceTimer[b] THEN "held" ELSE "live"
  BY <1>2, <1>3, <1>5 DEF PhaseOf
<1>6. ASSUME lineage[s] # None, ~InSlot(s)
      PROVE  PhaseOf(s) = IF doneEvents[s] > 0 THEN "ended" ELSE "resumed"
  BY <1>6 DEF PhaseOf, InSlot
<1> QED BY <1>4, <1>5, <1>6

LEMMA PhaseFactsNext == LedgerInv' => PhaseTable'
BY PhaseFacts, PTL

\* A session that no slot, no timer and no event tells of keeps its phase.
LEMMA PhaseKept ==
  ASSUME NEW s \in Sessions,
         lineage'[s] = lineage[s], doneEvents'[s] = doneEvents[s],
         \A b \in Servers : /\ publisher'[b] = s <=> publisher[b] = s
                            /\ publisher[b] = s => graceTimer'[b] = graceTimer[b]
  PROVE  PhaseOf(s)' = PhaseOf(s)
BY DEF PhaseOf, Holds

\* What happens to one session and in one slot leaves the others their phases.
LEMMA OthersKeepPhase ==
  ASSUME TypeOK, TypeOK', NEW s \in Sessions, NEW b \in Servers,
         \A t \in Sessions \ {s} : lineage'[t] = lineage[t],
         \A c \in Servers \ {b} : /\ publisher'[c] = publisher[c]
                                  /\ graceTimer'[c] = graceTimer[c],
         NEW p \in Sessions \cup {None}, publisher[b] = p, publisher'[b] \in {s, p, None},
         \A t \in Sessions \ {p} : doneEvents'[t] = doneEvents[t]
  PROVE  \A t \in Sessions \ {s, p} : PhaseOf(t)' = PhaseOf(t)
<1> SUFFICES ASSUME NEW t \in Sessions \ {s, p} PROVE PhaseOf(t)' = PhaseOf(t)
  OBVIOUS
<1>1. t # None
  BY SessionsAssumption
<1>2. ASSUME NEW c \in Servers
      PROVE  /\ publisher'[c] = t <=> publisher[c] = t
             /\ publisher[c] = t => graceTimer'[c] = graceTimer[c]
  BY <1>1
<1> QED BY <1>2, PhaseKept

LEMMA PromiseInit == Init => Promise!Init
<1> SUFFICES ASSUME Init PROVE Promise!Init
  OBVIOUS
<1>1. \A s \in Sessions : PhaseOf(s) = "idle"
  BY DEF Init, PhaseOf
<1> QED BY <1>1 DEF Init, Promise!Init

LEMMA PublishStarts ==
  ASSUME OneCommand, LedgerInv, LedgerInv', NEW s \in Sessions, NEW b \in Servers,
         PublishStart(s, b)
  PROVE  Promise!Start(s)
<1>0. TypeOK /\ TypeOK' /\ PhaseTable /\ PhaseTable'
  BY PhaseFacts, PhaseFactsNext DEF LedgerInv, SlotInv
<1>1. /\ Command(s, b) /\ publisher[b] = None
      /\ publisher' = [publisher EXCEPT ![b] = s]
      /\ lineage' = [lineage EXCEPT ![s] = s]
      /\ UNCHANGED <<graceTimer, createTime, playCount, history, doneEvents>>
  BY DEF PublishStart, statVars
<1>2. lineage[s] = None
  BY <1>1, NewcomerHasNoPublish
<1>3. publisher'[b] = s /\ ~graceTimer'[b]
  BY <1>0, <1>1 DEF LedgerInv, SlotInv, TimerHasPublisher, TypeOK
<1>4. PhaseOf(s) = "idle" /\ PhaseOf(s)' = "live"
  BY <1>0, <1>2, <1>3 DEF PhaseTable, Holds
<1>5. \A t \in Sessions \ {s} : PhaseOf(t)' = PhaseOf(t)
  <2>1. /\ \A t \in Sessions \ {s} : lineage'[t] = lineage[t]
        /\ \A c \in Servers \ {b} : publisher'[c] = publisher[c]
    BY <1>0, <1>1 DEF TypeOK
  <2> QED BY <1>0, <1>1, <1>3, <2>1, OthersKeepPhase, SessionsAssumption
<1> QED BY <1>1, <1>4, <1>5 DEF Promise!Start

\* A publish is carried on: the session before it has lost its slot, without
\* an event.
LEMMA PublishIsResumed ==
  ASSUME OneCommand, LedgerInv, LedgerInv', NEW s \in Sessions, NEW b \in Servers,
         PublishResume(s, b)
  PROVE  \E p \in Sessions : Promise!Resume(s, p)
<1>0. TypeOK /\ TypeOK' /\ PhaseTable /\ PhaseTable'
  BY PhaseFacts, PhaseFactsNext DEF LedgerInv, SlotInv
<1>p. PICK p \in Sessions : p = publisher[b]
  BY <1>0 DEF TypeOK, PublishResume
<1>1. /\ Command(s, b) /\ p # None /\ graceTimer[b]
      /\ address[s] = address[p]
      /\ publisher' = [publisher EXCEPT ![b] = s]
      /\ graceTimer' = [graceTimer EXCEPT ![b] = FALSE]
      /\ lineage' = [lineage EXCEPT ![s] = lineage[p]]
      /\ createTime' = [createTime EXCEPT ![s] = createTime[p]]
      /\ playCount' = [playCount EXCEPT ![s] = playCount[p]]
      /\ UNCHANGED <<history, doneEvents>>
  BY <1>0, <1>p DEF PublishResume, SameClient, Inherited, TypeOK
<1>2. lineage[s] = None /\ p # s
  BY <1>p, <1>1, NewcomerHasNoPublish
<1>3. publisher'[b] = s /\ ~graceTimer'[b]
  BY <1>0, <1>1 DEF TypeOK
<1>4. /\ \A t \in Sessions \ {s} : lineage'[t] = lineage[t]
      /\ \A c \in Servers \ {b} : /\ publisher'[c] = publisher[c]
                                  /\ graceTimer'[c] = graceTimer[c]
  BY <1>0, <1>1 DEF TypeOK
<1>5. lineage[p] # None /\ doneEvents[p] = 0
  BY <1>p, <1>1, SessionsAssumption DEF LedgerInv, InOneSlot
<1>6. ~InSlot(p)'
  <2> SUFFICES ASSUME NEW c \in Servers, publisher'[c] = p PROVE FALSE
    BY DEF InSlot, Holds
  <2>1. c # b /\ publisher[c] = p
    BY <1>2, <1>3, <1>4
  <2> QED BY <1>p, <1>1, <2>1, SessionsAssumption DEF LedgerInv, InOneSlot
<1>7. PhaseOf(s) = "idle" /\ PhaseOf(p) = "held"
  BY <1>p, <1>0, <1>1, <1>2 DEF PhaseTable, Holds
<1>8. PhaseOf(s)' = "live"
  BY <1>0, <1>3 DEF PhaseTable, Holds
<1>9. PhaseOf(p)' = "resumed"
  BY <1>p, <1>0, <1>1, <1>2, <1>4, <1>5, <1>6 DEF PhaseTable
<1>10. \A t \in Sessions \ {s, p} : PhaseOf(t)' = PhaseOf(t)
  <2>1. publisher'[b] \in {s, p, None} /\ p \in Sessions \cup {None}
    BY <1>3
  <2>2. \A t \in Sessions \ {p} : doneEvents'[t] = doneEvents[t]
    BY <1>1
  <2> QED BY <1>p, <1>0, <1>4, <2>1, <2>2, OthersKeepPhase
<1>11. Promise!Resume(s, p)
  BY <1>p, <1>1, <1>2, <1>7, <1>8, <1>9, <1>10 DEF Promise!Resume
<1> QED BY <1>p, <1>1, <1>11

\* A publish ends and another starts, in one event: _finishPublish first.
LEMMA PublishIsReplaced ==
  ASSUME OneCommand, LedgerInv, LedgerInv', NEW s \in Sessions, NEW b \in Servers,
         PublishTakeOver(s, b)
  PROVE  \E p \in Sessions : Promise!Replace(s, p)
<1>0. TypeOK /\ TypeOK' /\ PhaseTable /\ PhaseTable'
  BY PhaseFacts, PhaseFactsNext DEF LedgerInv, SlotInv
<1>p. PICK p \in Sessions : p = publisher[b]
  BY <1>0 DEF TypeOK, PublishTakeOver
<1>1. /\ Command(s, b) /\ p # None /\ graceTimer[b]
      /\ address[s] # address[p] /\ EmitDonePublish(p)
      /\ publisher' = [publisher EXCEPT ![b] = s]
      /\ graceTimer' = [graceTimer EXCEPT ![b] = FALSE]
      /\ lineage' = [lineage EXCEPT ![s] = s]
      /\ UNCHANGED <<createTime, playCount>>
  BY <1>0, <1>p DEF PublishTakeOver, SameClient, TypeOK
<1>2. lineage[s] = None /\ p # s
  BY <1>p, <1>1, NewcomerHasNoPublish
<1>3. publisher'[b] = s /\ ~graceTimer'[b]
  BY <1>0, <1>1 DEF TypeOK
<1>4. /\ \A t \in Sessions \ {s} : lineage'[t] = lineage[t]
      /\ \A c \in Servers \ {b} : /\ publisher'[c] = publisher[c]
                                  /\ graceTimer'[c] = graceTimer[c]
  BY <1>0, <1>1 DEF TypeOK
<1>5. lineage[p] # None
  BY <1>p, <1>1 DEF LedgerInv, InOneSlot
<1>6. /\ history' = history \cup {[id |-> p, createTime |-> createTime[p],
                                   playCount |-> playCount[p]]}
      /\ doneEvents' = [doneEvents EXCEPT ![p] = 1]
  BY <1>p, <1>1, EndWritesRow
<1>7. doneEvents'[p] = 1 /\ \A t \in Sessions \ {p} : doneEvents'[t] = doneEvents[t]
  BY <1>p, <1>0, <1>1, <1>6 DEF TypeOK
<1>8. ~InSlot(p)'
  <2> SUFFICES ASSUME NEW c \in Servers, publisher'[c] = p PROVE FALSE
    BY DEF InSlot, Holds
  <2>1. c # b /\ publisher[c] = p
    BY <1>2, <1>3, <1>4
  <2> QED BY <1>p, <1>1, <2>1 DEF LedgerInv, InOneSlot
<1>9. PhaseOf(s) = "idle" /\ PhaseOf(p) = "held"
  BY <1>p, <1>0, <1>1, <1>2 DEF PhaseTable, Holds
<1>10. PhaseOf(s)' = "live"
  BY <1>0, <1>3 DEF PhaseTable, Holds
<1>11. PhaseOf(p)' = "ended"
  BY <1>p, <1>0, <1>1, <1>2, <1>4, <1>5, <1>7, <1>8 DEF PhaseTable
<1>12. \A t \in Sessions \ {s, p} : PhaseOf(t)' = PhaseOf(t)
  <2>1. publisher'[b] \in {s, p, None} /\ p \in Sessions \cup {None}
    BY <1>3
  <2> QED BY <1>p, <1>0, <1>4, <1>7, <2>1, OthersKeepPhase
<1>13. Promise!Replace(s, p)
  BY <1>p, <1>1, <1>2, <1>6, <1>9, <1>10, <1>11, <1>12 DEF Promise!Replace, Promise!Row
<1> QED BY <1>p, <1>1, <1>13

\* The timer fires: the publish ends.
LEMMA PublishEnds ==
  ASSUME LedgerInv, LedgerInv', NEW b \in Servers, GraceExpires(b)
  PROVE  \E p \in Sessions : Promise!End(p)
<1>0. TypeOK /\ TypeOK' /\ PhaseTable /\ PhaseTable'
  BY PhaseFacts, PhaseFactsNext DEF LedgerInv, SlotInv
<1>p. PICK p \in Sessions : p = publisher[b]
  BY <1>0 DEF TypeOK, GraceExpires
<1>1. /\ p # None /\ graceTimer[b] /\ EmitDonePublish(p)
      /\ publisher' = [publisher EXCEPT ![b] = None]
      /\ graceTimer' = [graceTimer EXCEPT ![b] = FALSE]
      /\ UNCHANGED <<createTime, playCount, lineage>>
  BY <1>0, <1>p DEF GraceExpires, TypeOK
<1>2. /\ publisher'[b] = None
      /\ \A c \in Servers \ {b} : /\ publisher'[c] = publisher[c]
                                  /\ graceTimer'[c] = graceTimer[c]
  BY <1>0, <1>1 DEF TypeOK
<1>3. lineage[p] # None
  BY <1>p, <1>1 DEF LedgerInv, InOneSlot
<1>4. /\ history' = history \cup {[id |-> p, createTime |-> createTime[p],
                                   playCount |-> playCount[p]]}
      /\ doneEvents' = [doneEvents EXCEPT ![p] = 1]
  BY <1>p, <1>1, EndWritesRow
<1>5. doneEvents'[p] = 1 /\ \A t \in Sessions \ {p} : doneEvents'[t] = doneEvents[t]
  BY <1>p, <1>0, <1>1, <1>4 DEF TypeOK
<1>6. ~InSlot(p)'
  <2> SUFFICES ASSUME NEW c \in Servers, publisher'[c] = p PROVE FALSE
    BY DEF InSlot, Holds
  <2>1. c # b /\ publisher[c] = p
    BY <1>p, <1>1, <1>2
  <2> QED BY <1>p, <1>1, <2>1 DEF LedgerInv, InOneSlot
<1>7. PhaseOf(p) = "held"
  BY <1>p, <1>0, <1>1 DEF PhaseTable, Holds
<1>8. PhaseOf(p)' = "ended"
  BY <1>p, <1>0, <1>1, <1>3, <1>5, <1>6 DEF PhaseTable
<1>9. \A t \in Sessions \ {p} : PhaseOf(t)' = PhaseOf(t)
  <2>1. publisher'[b] \in {p, None} /\ p \in Sessions \cup {None}
    BY <1>2
  <2>2. \A t \in Sessions \ {p} : lineage'[t] = lineage[t]
    BY <1>1
  <2> QED BY <1>p, <1>0, <1>2, <1>5, <2>1, <2>2, OthersKeepPhase
<1>10. Promise!End(p)
  BY <1>p, <1>1, <1>4, <1>7, <1>8, <1>9 DEF Promise!End, Promise!Row
<1> QED BY <1>p, <1>1, <1>10

\* The connection of a publisher closes: its publish is held, if it was live.
LEMMA PublishIsLost ==
  ASSUME LedgerInv, LedgerInv', NEW s \in Sessions, ClosePublisher(s)
  PROVE  Promise!Lose(s) \/ UNCHANGED Promise!vars
<1> DEFINE b == broadcast[s]
           held == publisher[b] = s /\ ~graceTimer[b]
<1>0. TypeOK /\ TypeOK' /\ PhaseTable /\ PhaseTable'
  BY PhaseFacts, PhaseFactsNext DEF LedgerInv, SlotInv
<1>1. /\ b \in Servers
      /\ graceTimer' = [graceTimer EXCEPT ![b] = @ \/ held]
      /\ UNCHANGED <<publisher, createTime, playCount, history, lineage, doneEvents>>
  BY <1>0 DEF ClosePublisher, LosesSlot, TypeOK, ghostVars
<1>2. ASSUME held PROVE Promise!Lose(s)
  <2>1. /\ graceTimer'[b] = TRUE
        /\ \A c \in Servers \ {b} : graceTimer'[c] = graceTimer[c]
    BY <1>0, <1>1, <1>2 DEF TypeOK
  <2>2. PhaseOf(s) = "live" /\ PhaseOf(s)' = "held"
    BY <1>0, <1>1, <1>2, <2>1 DEF PhaseTable, Holds
  <2>3. \A t \in Sessions \ {s} : PhaseOf(t)' = PhaseOf(t)
    BY <1>0, <1>1, <1>2, <2>1, OthersKeepPhase
  <2> QED BY <1>1, <2>2, <2>3 DEF Promise!Lose
<1>3. ASSUME ~held PROVE UNCHANGED Promise!vars
  <2>1. \A c \in Servers : graceTimer'[c] = graceTimer[c]
    BY <1>0, <1>1, <1>3 DEF TypeOK
  <2>2. \A t \in Sessions : PhaseOf(t)' = PhaseOf(t)
    BY <1>1, <2>1, PhaseKept
  <2> QED BY <1>1, <2>2 DEF Promise!vars
<1> QED BY <1>2, <1>3

\* A viewer is counted on the publish in the slot, or on none.
LEMMA PublishIsWatched ==
  ASSUME LedgerInv, LedgerInv', NEW s \in Sessions, NEW b \in Servers, PlayStart(s, b)
  PROVE  (\E p \in Sessions : Promise!Watch(p)) \/ UNCHANGED Promise!vars
<1> DEFINE p == publisher[b]
<1>0. TypeOK /\ TypeOK' /\ PhaseTable
  BY PhaseFacts DEF LedgerInv, SlotInv
<1>1. UNCHANGED <<publisher, graceTimer, createTime, history, lineage, doneEvents>>
  BY DEF PlayStart
<1>2. \A t \in Sessions : PhaseOf(t)' = PhaseOf(t)
  BY <1>1, PhaseKept
<1>3. CASE p = None
  <2>1. UNCHANGED playCount
    BY <1>3 DEF PlayStart
  <2> QED BY <1>1, <1>2, <2>1 DEF Promise!vars
<1>4. CASE p # None
  <2>1. p \in Sessions /\ playCount' = [playCount EXCEPT ![p] = @ + 1]
    BY <1>0, <1>4 DEF PlayStart, TypeOK
  <2>2. PhaseOf(p) \in {"live", "held"}
    BY <1>0, <2>1 DEF PhaseTable, Holds
  <2>3. Promise!Watch(p)
    BY <1>1, <1>2, <2>1, <2>2 DEF Promise!Watch
  <2> QED BY <2>1, <2>3
<1> QED BY <1>3, <1>4

\* Nothing that Promise speaks of moves.
LEMMA PublishIsLeftAlone ==
  ASSUME UNCHANGED <<publisher, graceTimer, createTime, playCount, history, lineage,
                     doneEvents>>
  PROVE  UNCHANGED Promise!vars
<1>1. \A t \in Sessions : PhaseOf(t)' = PhaseOf(t)
  BY PhaseKept
<1> QED BY <1>1 DEF Promise!vars

LEMMA PromiseStep ==
  OneCommand /\ LedgerInv /\ LedgerInv' /\ [Next]_vars => [Promise!Next]_(Promise!vars)
<1> SUFFICES ASSUME OneCommand, LedgerInv, LedgerInv', [Next]_vars
             PROVE  Promise!Next \/ UNCHANGED Promise!vars
  OBVIOUS
<1>1. ASSUME NEW s \in Sessions, Connect(s) \/ RegisterPush(s) PROVE UNCHANGED Promise!vars
  BY <1>1, PublishIsLeftAlone
  DEF Connect, RegisterPush, serverVars, statVars, ghostVars
<1>2. ASSUME NEW s \in Sessions, Close(s) PROVE Promise!Next \/ UNCHANGED Promise!vars
  <2>1. CASE CloseUnbound(s) \/ ClosePlayer(s)
    BY <2>1, PublishIsLeftAlone DEF CloseUnbound, ClosePlayer, serverVars, ghostVars
  <2>2. CASE ClosePublisher(s)
    BY <2>2, PublishIsLost DEF Promise!Next
  <2> QED BY <1>2, <2>1, <2>2 DEF Close
<1>3. ASSUME NEW s \in Sessions, NEW b \in Servers,
             \/ PublishUnauthorized(s, b) \/ PublishBusy(s, b)
             \/ PlayUnauthorized(s, b)
      PROVE  UNCHANGED Promise!vars
  BY <1>3, PublishIsLeftAlone
  DEF PublishUnauthorized, PublishBusy, PlayUnauthorized, statVars, ghostVars
<1>4. ASSUME NEW s \in Sessions, NEW b \in Servers, Publish(s, b)
      PROVE  Promise!Next \/ UNCHANGED Promise!vars
  <2>1. CASE PublishStart(s, b)
    BY <2>1, PublishStarts DEF Promise!Next
  <2>2. CASE PublishResume(s, b)
    BY <2>2, PublishIsResumed DEF Promise!Next
  <2>3. CASE PublishTakeOver(s, b)
    BY <2>3, PublishIsReplaced DEF Promise!Next
  <2> QED BY <1>3, <1>4, <2>1, <2>2, <2>3 DEF Publish
<1>5. ASSUME NEW s \in Sessions, NEW b \in Servers, Play(s, b)
      PROVE  Promise!Next \/ UNCHANGED Promise!vars
  <2>1. CASE PlayStart(s, b)
    BY <2>1, PublishIsWatched DEF Promise!Next
  <2> QED BY <1>3, <1>5, <2>1 DEF Play
<1>6. ASSUME NEW b \in Servers, GraceExpires(b) PROVE Promise!Next
  BY <1>6, PublishEnds DEF Promise!Next
<1>7. CASE UNCHANGED vars
  BY <1>7, PublishIsLeftAlone DEF vars, serverVars, statVars, ghostVars
<1> QED BY <1>1, <1>2, <1>4, <1>5, <1>6, <1>7 DEF Next

\* With one command a connection, every step of the slots, timers and commands
\* is a step in the life of a publish, or is none of its business: a publish
\* starts once, is held, carried on with its start time and play counter, and
\* is ended once with one row.
THEOREM ImplementsPublication ==
  ASSUME OneCommand PROVE Spec => KeepsPublication
<1>1. Init => LedgerInv /\ Promise!Init
  BY LedgerInit, PromiseInit
<1>2. LedgerInv /\ [Next]_vars => LedgerInv'
  BY LedgerStep
<1>3. LedgerInv /\ LedgerInv' /\ [Next]_vars => [Promise!Next]_(Promise!vars)
  BY PromiseStep
<1> QED BY <1>1, <1>2, <1>3, PTL DEF Spec, KeepsPublication, Promise!Spec
=============================================================================
