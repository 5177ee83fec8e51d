-------------------------- MODULE Recording_proofs --------------------------
(***************************************************************************)
(* Proofs about module Recording, for every set of sessions, objects and   *)
(* addresses and all bounds.                                               *)
(***************************************************************************)
EXTENDS Recording, TLAPS

(***************************************************************************)
(* Types.                                                                  *)
(***************************************************************************)

LEMMA TypeInit == Init => TypeOK
<1> SUFFICES ASSUME Init PROVE TypeOK
  OBVIOUS
<1>1. 0 \in 0..MaxToggles /\ 0 \in 0..MaxStarts
  BY RecordingAssumption
<1> QED BY <1>1 DEF Init, TypeOK, RowStatus

\* What _destroyIfEmpty leaves in the registry.
LEMMA RegistryType ==
  ASSUME TypeOK, NEW B, NEW R, NEW pub
  PROVE  RegistryWithout(B, R, pub) \in Servers \cup {None}
BY DEF TypeOK, RegistryWithout

\* Both outcomes of a postPublish event, and of whatever else stops and starts
\* record sessions, keep the types.
LEMMA StopType ==
  ASSUME TypeOK, NEW R, StopRecords(R)
  PROVE  /\ subscribers' \in [Servers -> SUBSET (Viewers \cup Records)]
         /\ attached' \in [Records -> Servers \cup {None}]
         /\ active' \in Records \cup {None}
         /\ recorder' \in [Records -> {"new", "running", "stopped"}]
         /\ rows' \in [Records -> RowStatus]
<1>1. \A b \in Servers : subscribers[b] \ R \in SUBSET (Viewers \cup Records)
  BY DEF TypeOK
<1> QED BY <1>1 DEF StopRecords, WithoutRecords, RowsDone, TypeOK, RowStatus

LEMMA StartType ==
  ASSUME TypeOK, NEW R, NEW reg, StartRecord(R, reg)
  PROVE  /\ registry' \in Servers
         /\ subscribers' \in [Servers -> SUBSET (Viewers \cup Records)]
         /\ attached' \in [Records -> Servers \cup {None}]
         /\ active' \in Records \cup {None}
         /\ recorder' \in [Records -> {"new", "running", "stopped"}]
         /\ rows' \in [Records -> RowStatus]
<1>1. PICK r \in Records, b \in Servers :
        /\ registry' = b
        /\ subscribers' = [WithoutRecords(R) EXCEPT ![b] = @ \cup {r}]
        /\ attached' = [attached EXCEPT ![r] = b]
        /\ active' = r
        /\ recorder' = [x \in Records |->
                          IF x = r THEN "running"
                          ELSE IF x \in R THEN "stopped" ELSE recorder[x]]
        /\ rows' = [RowsDone(R) EXCEPT ![r] = "recording"]
  BY DEF StartRecord
<1>2. WithoutRecords(R) \in [Servers -> SUBSET (Viewers \cup Records)]
  BY DEF WithoutRecords, TypeOK
<1>3. RowsDone(R) \in [Records -> RowStatus]
  BY DEF RowsDone, TypeOK, RowStatus
<1> QED BY <1>1, <1>2, <1>3 DEF TypeOK, RowStatus

LEMMA EventType ==
  ASSUME TypeOK, NEW R, NEW reg \in Servers \cup {None}, PostPublishEvent(R, reg)
  PROVE  /\ registry' \in Servers \cup {None}
         /\ subscribers' \in [Servers -> SUBSET (Viewers \cup Records)]
         /\ attached' \in [Records -> Servers \cup {None}]
         /\ active' \in Records \cup {None}
         /\ recorder' \in [Records -> {"new", "running", "stopped"}]
         /\ rows' \in [Records -> RowStatus]
<1>1. CASE StartsRecord(R)
  BY <1>1, StartType DEF PostPublishEvent
<1>2. CASE ~StartsRecord(R)
  BY <1>2, StopType DEF PostPublishEvent
<1> QED BY <1>1, <1>2

LEMMA TypeStep == TypeOK /\ [Next]_vars => TypeOK'
<1> SUFFICES ASSUME TypeOK, [Next]_vars PROVE TypeOK'
  OBVIOUS
<1> USE DEF processVars, configVars, sessionVars, serverVars, recordVars, ghostVars
<1>1. ASSUME NEW s \in Publishers, NEW b \in Servers, PublishStart(s, b)
      PROVE  TypeOK'
  BY <1>1, EventType
  DEF PublishStart, Publish, Command, Asked, TypeOK, Sessions
<1>2. ASSUME NEW s \in Publishers, NEW b \in Servers, PublishBusy(s, b)
      PROVE  TypeOK'
  BY <1>2, EventType DEF PublishBusy, Publish, Command, TypeOK, Sessions
<1>3. ASSUME NEW s \in Publishers, NEW b \in Servers, PublishResume(s, b)
      PROVE  TypeOK'
  <2>1. unrecorded' \subseteq Publishers
    BY <1>3 DEF PublishResume, TypeOK
  <2> QED
    BY <1>3, <2>1, EventType DEF PublishResume, Publish, Command, TypeOK, Sessions
<1>4. ASSUME NEW s \in Publishers, NEW b \in Servers, PublishTakeOver(s, b)
      PROVE  TypeOK'
  <2>1. RegistryAfterFinish(b) \in Servers \cup {None}
    BY RegistryType DEF RegistryAfterFinish
  <2> QED
    BY <1>4, <2>1, EventType
    DEF PublishTakeOver, Publish, Command, Asked, TypeOK, Sessions
<1>5. ASSUME NEW s \in Publishers, NEW b \in Servers, ClosePublisher(s, b)
      PROVE  TypeOK'
  BY <1>5 DEF ClosePublisher, TypeOK, Sessions
<1>6. ASSUME NEW s \in Viewers, NEW b \in Servers, PlayStart(s, b)
      PROVE  TypeOK'
  BY <1>6 DEF PlayStart, Command, TypeOK, Sessions
<1>7. ASSUME NEW s \in Viewers, NEW b \in Servers, CloseViewer(s, b)
      PROVE  TypeOK'
  <2>1. registry' \in Servers \cup {None}
    BY <1>7, RegistryType DEF CloseViewer
  <2> QED BY <1>7, <2>1 DEF CloseViewer, TypeOK, Sessions
<1>8. ASSUME NEW b \in Servers, GraceExpires(b) PROVE TypeOK'
  <2>1. registry' \in Servers \cup {None}
    BY <1>8, RegistryType DEF GraceExpires, RegistryAfterFinish
  <2> QED BY <1>8, <2>1, StopType DEF GraceExpires, Finished, TypeOK
<1>9. CASE startRecord
  BY <1>9, StartType DEF startRecord, TypeOK
<1>10. CASE stopRecord
  <2>1. registry' \in Servers \cup {None}
    BY <1>10, RegistryType DEF stopRecord, StopActive
  <2>2. unrecorded' \subseteq Publishers
    BY <1>10 DEF stopRecord, TypeOK
  <2> QED BY <1>10, <2>1, <2>2, StopType DEF stopRecord, StopActive, TypeOK
<1>11. CASE ToggleAuto
  BY <1>11, RecordingAssumption DEF ToggleAuto, TypeOK
<1>12. ASSUME NEW r \in Records, deleteRecord(r) PROVE TypeOK'
  BY <1>12 DEF deleteRecord, TypeOK, RowStatus
<1>13. CASE Boot
  BY <1>13, RecordingAssumption DEF Boot, TypeOK
<1>14. CASE StoreOpened
  BY <1>14 DEF StoreOpened, Recovered, TypeOK, RowStatus
<1>15. CASE Flush
  BY <1>15 DEF Flush, TypeOK
<1>16. CASE Shutdown
  <2>1. registry' \in Servers \cup {None}
    BY <1>16, RegistryType DEF Shutdown, RecordServerStop, StopActive
  <2> QED
    BY <1>16, <2>1, StopType DEF Shutdown, RecordServerStop, StopActive, TypeOK
<1>17. CASE Exit
  BY <1>17 DEF Exit, ProcessEnds, TypeOK, RowStatus
<1>18. CASE Crash
  BY <1>18 DEF Crash, ProcessEnds, TypeOK, RowStatus
<1>19. CASE UNCHANGED vars
  BY <1>19 DEF vars, TypeOK
<1> QED
  BY <1>1, <1>2, <1>3, <1>4, <1>5, <1>6, <1>7, <1>8, <1>9, <1>10, <1>11, <1>12,
     <1>13, <1>14, <1>15, <1>16, <1>17, <1>18, <1>19
  DEF Next

\* Every variable keeps its type.
THEOREM RecordingTypeCorrect == Spec => []TypeOK
<1>1. Init => TypeOK
  BY TypeInit
<1>2. TypeOK /\ [Next]_vars => TypeOK'
  BY TypeStep
<1> QED BY <1>1, <1>2, PTL DEF Spec

(***************************************************************************)
(* Rows and recordings.  Only a process whose record server is at work has *)
(* a recording, so that the rows need no care once it has stopped.         *)
(***************************************************************************)

RecordsWhileServing ==
  /\ serving => status = "up"
  /\ status # "up" => Running = {}

RowsInv == TypeOK /\ RecordsWhileServing /\ RowsMatchRecordings /\ CleanShutdown

(***************************************************************************)
(* What stopping and starting record sessions does to the recordings.      *)
(***************************************************************************)

LEMMA NoneApart ==
  /\ None \notin Servers /\ None \notin Records
  /\ None \notin Publishers /\ None \notin Viewers
  /\ \A v \in Viewers : v \notin Records
BY RecordingAssumption DEF Sessions

LEMMA StopFacts ==
  ASSUME TypeOK, NEW R \in SUBSET Running, StopRecords(R)
  PROVE  /\ Running' = Running \ R
         /\ active' = IF R = {} THEN active ELSE None
         /\ attached' = attached
         /\ \A r \in Records :
              rows'[r] = "recording" <=> rows[r] = "recording" /\ r \notin R
         /\ \A b \in Servers : subscribers'[b] = subscribers[b] \ R
<1>1. \A r \in Records : recorder'[r] = IF r \in R THEN "stopped" ELSE recorder[r]
  BY DEF StopRecords, TypeOK
<1>2. Running' = Running \ R
  BY <1>1 DEF Running
<1>3. \A r \in Records :
        rows'[r] = IF r \in R /\ rows[r] = "recording" THEN "done" ELSE rows[r]
  BY DEF StopRecords, RowsDone
<1> QED BY <1>2, <1>3 DEF StopRecords, WithoutRecords

\* What a start leaves behind: r records object b, and those of R have gone.
Begins(R, reg, r, b) ==
  /\ recorder[r] = "new" /\ Resolves(b, reg)
  /\ registry' = b /\ active' = r
  /\ Running' = (Running \ R) \cup {r}
  /\ attached' = [attached EXCEPT ![r] = b]
  /\ \A x \in Records : rows'[x] = "recording" <=>
       x = r \/ (rows[x] = "recording" /\ x \notin R)
  /\ \A c \in Servers : subscribers'[c] =
       IF c = b THEN (subscribers[c] \ R) \cup {r} ELSE subscribers[c] \ R

LEMMA StartFacts ==
  ASSUME TypeOK, NEW R \in SUBSET Running, NEW reg, StartRecord(R, reg)
  PROVE  \E r \in Records, b \in Servers : Begins(R, reg, r, b)
<1>1. PICK r \in Records, b \in Servers :
        /\ recorder[r] = "new"
        /\ Resolves(b, reg)
        /\ registry' = b
        /\ subscribers' = [WithoutRecords(R) EXCEPT ![b] = @ \cup {r}]
        /\ attached' = [attached EXCEPT ![r] = b]
        /\ active' = r
        /\ recorder' = [x \in Records |->
                          IF x = r THEN "running"
                          ELSE IF x \in R THEN "stopped" ELSE recorder[x]]
        /\ rows' = [RowsDone(R) EXCEPT ![r] = "recording"]
  BY DEF StartRecord
<1>2. Running' = (Running \ R) \cup {r}
  <2>1. \A x \in Records : recorder'[x] =
          IF x = r THEN "running" ELSE IF x \in R THEN "stopped" ELSE recorder[x]
    BY <1>1
  <2>2. r \notin R
    BY <1>1 DEF Running
  <2> QED BY <2>1, <2>2 DEF Running
<1>3. \A x \in Records : rows'[x] = "recording" <=>
        x = r \/ (rows[x] = "recording" /\ x \notin R)
  BY <1>1 DEF RowsDone
<1>4. \A c \in Servers : subscribers'[c] =
        IF c = b THEN (subscribers[c] \ R) \cup {r} ELSE subscribers[c] \ R
  BY <1>1 DEF WithoutRecords
<1>5. /\ recorder[r] = "new" /\ Resolves(b, reg)
      /\ registry' = b /\ active' = r
      /\ attached' = [attached EXCEPT ![r] = b]
  BY <1>1
<1>6. Begins(R, reg, r, b)
  BY <1>2, <1>3, <1>4, <1>5 DEF Begins
<1> QED BY <1>6

(***************************************************************************)
(* A postPublish event leaves at most one recording, after those of R.     *)
(***************************************************************************)

LEMMA NoneRunning == TypeOK /\ RowsMatchRecordings => (active = None <=> Running = {})
BY NoneApart DEF RowsMatchRecordings, Active, TypeOK

LEMMA EventStarts ==
  ASSUME TypeOK, RowsMatchRecordings, NEW R \in {{}, Running}, StartsRecord(R)
  PROVE  serving /\ Running \ R = {}
BY NoneRunning DEF StartsRecord

LEMMA StopRows ==
  ASSUME RowsInv, NEW R \in {{}, Running}, StopRecords(R),
         status \in {"up", "closing"} => status' \in {"up", "closing"},
         status' \in {"up", "closing"} => status \in {"up", "closing"}
  PROVE  RowsMatchRecordings' /\ Running' \subseteq Running
<1>1. R \in SUBSET Running
  OBVIOUS
<1>2. TypeOK /\ RowsMatchRecordings
  BY DEF RowsInv
<1>3. Running' = Active'
  BY <1>1, <1>2, StopFacts DEF RowsMatchRecordings, Active
<1>4. status' \in {"up", "closing"} =>
        \A r \in Records : rows'[r] = "recording" <=> r \in Running'
  BY <1>1, <1>2, StopFacts DEF RowsMatchRecordings
<1> QED BY <1>1, <1>2, <1>3, <1>4, StopFacts DEF RowsMatchRecordings

LEMMA StartRows ==
  ASSUME RowsInv, NEW R \in {{}, Running}, NEW reg, StartRecord(R, reg),
         Running \ R = {}, status = "up"
  PROVE  RowsMatchRecordings'
<1>1. R \in SUBSET Running /\ TypeOK
  BY DEF RowsInv
<1>2. PICK r \in Records, b \in Servers : Begins(R, reg, r, b)
  BY <1>1, StartFacts
<1>3. Running' = {r} /\ Active' = {r}
  BY <1>2, NoneApart DEF Active, Begins
<1>4. \A x \in Records : rows[x] = "recording" <=> x \in Running
  BY DEF RowsInv, RowsMatchRecordings
<1> QED BY <1>2, <1>3, <1>4 DEF RowsMatchRecordings, Begins

\* What an event does to the rows; the process goes on as it was.
LEMMA EventRows ==
  ASSUME RowsInv, NEW R \in {{}, Running}, NEW reg, PostPublishEvent(R, reg),
         UNCHANGED <<processVars, disk>>
  PROVE  RecordsWhileServing' /\ RowsMatchRecordings' /\ CleanShutdown'
<1> USE DEF processVars
<1>1. CleanShutdown'
  BY DEF RowsInv, CleanShutdown
<1>2. CASE StartsRecord(R)
  <2>1. serving /\ Running \ R = {}
    BY <1>2, EventStarts DEF RowsInv
  <2>2. status = "up"
    BY <2>1 DEF RowsInv, RecordsWhileServing
  <2> QED
    BY <1>1, <1>2, <2>1, <2>2, StartRows
    DEF PostPublishEvent, RowsInv, RecordsWhileServing
<1>3. CASE ~StartsRecord(R)
  <2>1. StopRecords(R)
    BY <1>3 DEF PostPublishEvent
  <2>2. RowsMatchRecordings' /\ Running' \subseteq Running
    BY <2>1, StopRows
  <2> QED BY <1>1, <2>2 DEF RowsInv, RecordsWhileServing
<1> QED BY <1>2, <1>3

LEMMA RowsInit == Init => RowsInv
<1> SUFFICES ASSUME Init PROVE RowsInv
  OBVIOUS
<1>1. Running = {}
  BY DEF Init, Running
<1> QED
  BY <1>1, TypeInit
  DEF Init, RowsInv, RecordsWhileServing, RowsMatchRecordings, Active, CleanShutdown

LEMMA RowsStep == RowsInv /\ [Next]_vars => RowsInv'
<1> SUFFICES ASSUME RowsInv, [Next]_vars
             PROVE  RecordsWhileServing' /\ RowsMatchRecordings' /\ CleanShutdown'
  BY TypeStep DEF RowsInv
<1> DEFINE Kept == RecordsWhileServing' /\ RowsMatchRecordings' /\ CleanShutdown'
<1> USE DEF processVars, configVars, sessionVars, serverVars, recordVars, ghostVars
<1>t. TypeOK /\ RecordsWhileServing /\ RowsMatchRecordings /\ CleanShutdown
  BY DEF RowsInv
<1>r. {} \in {{}, Running} /\ Running \in {{}, Running} /\ Running = Active
  BY <1>t DEF RowsMatchRecordings
\* Steps that touch neither the recordings nor the process.
<1>u. ASSUME UNCHANGED <<status, serving, exitBy, recorder, active, rows, disk>>
      PROVE  Kept
  BY <1>t, <1>u
  DEF RecordsWhileServing, RowsMatchRecordings, CleanShutdown, Running, Active
<1>1. ASSUME NEW s \in Publishers, NEW b \in Servers,
             PublishStart(s, b) \/ PublishBusy(s, b) \/ PublishResume(s, b)
      PROVE  Kept
  <2>1. PostPublishEvent({}, b) /\ UNCHANGED <<processVars, disk>>
    BY <1>1 DEF PublishStart, PublishBusy, PublishResume, Publish
  <2> QED BY <1>r, <2>1, EventRows
<1>2. ASSUME NEW s \in Publishers, NEW b \in Servers, PublishTakeOver(s, b)
      PROVE  Kept
  <2>1. PostPublishEvent(Running, RegistryAfterFinish(b))
        /\ UNCHANGED <<processVars, disk>>
    BY <1>2 DEF PublishTakeOver, Publish, Listeners
  <2> QED BY <1>r, <2>1, EventRows
<1>3. ASSUME NEW b \in Servers, GraceExpires(b) PROVE Kept
  <2>1. StopRecords(Running) /\ UNCHANGED <<processVars, disk>>
    BY <1>3 DEF GraceExpires, Listeners
  <2>2. RowsMatchRecordings' /\ Running' \subseteq Running
    BY <1>r, <2>1, StopRows
  <2> QED BY <1>t, <2>1, <2>2 DEF RecordsWhileServing, CleanShutdown
<1>4. CASE startRecord
  <2>1. serving /\ active = None /\ StartRecord({}, registry)
        /\ UNCHANGED <<processVars, disk>>
    BY <1>4 DEF startRecord
  <2>2. Running = {} /\ status = "up"
    BY <1>t, <2>1, NoneRunning DEF RecordsWhileServing
  <2>3. RowsMatchRecordings'
    BY <1>r, <2>1, <2>2, StartRows
  <2> QED BY <1>t, <2>1, <2>2, <2>3 DEF RecordsWhileServing, CleanShutdown
<1>5. CASE stopRecord
  <2>1. StopRecords(Running) /\ UNCHANGED <<processVars, disk>>
    BY <1>5, <1>r DEF stopRecord, StopActive
  <2>2. RowsMatchRecordings' /\ Running' \subseteq Running
    BY <1>r, <2>1, StopRows
  <2> QED BY <1>t, <2>1, <2>2 DEF RecordsWhileServing, CleanShutdown
<1>6. ASSUME NEW r \in Records, deleteRecord(r) PROVE Kept
  <2>1. \A x \in Records : rows'[x] = "recording" <=> rows[x] = "recording"
    BY <1>6, <1>t DEF deleteRecord, Deletable, TypeOK
  <2> QED
    BY <1>6, <1>t, <2>1
    DEF deleteRecord, RecordsWhileServing, RowsMatchRecordings, CleanShutdown,
        Running, Active
<1>7. CASE Boot
  BY <1>7, <1>t
  DEF Boot, RecordsWhileServing, RowsMatchRecordings, CleanShutdown, Running, Active
<1>8. CASE StoreOpened
  <2>1. \A r \in Records : rows'[r] # "recording"
    BY <1>8 DEF StoreOpened, Recovered
  <2>2. Running' = {} /\ Active' = {}
    BY <1>8, <1>t
    DEF StoreOpened, RecordsWhileServing, RowsMatchRecordings, Running, Active
  <2> QED
    BY <1>8, <2>1, <2>2
    DEF StoreOpened, RecordsWhileServing, RowsMatchRecordings, CleanShutdown
<1>9. CASE Flush
  BY <1>9, <1>t
  DEF Flush, RecordsWhileServing, RowsMatchRecordings, CleanShutdown, Running, Active
<1>10. CASE Shutdown
  <2>1. StopRecords(Running) /\ status = "up" /\ status' = "closing" /\ ~serving'
    BY <1>10, <1>r DEF Shutdown, RecordServerStop, StopActive
  <2>2. RowsMatchRecordings'
    BY <1>r, <2>1, StopRows
  <2>3. Running' = {}
    BY <1>r, <1>t, <2>1, StopFacts
  <2> QED BY <2>1, <2>2, <2>3 DEF RecordsWhileServing, CleanShutdown
<1>11. CASE Exit
  <2>1. \A r \in Records : rows[r] # "recording"
    BY <1>11, <1>t DEF Exit, RecordsWhileServing, RowsMatchRecordings
  <2>2. Running' = {} /\ Active' = {} /\ status' = "down" /\ ~serving'
    BY <1>11, <1>t DEF Exit, ProcessEnds, Running, Active, TypeOK
  <2>3. disk' = rows
    BY <1>11 DEF Exit
  <2> QED
    BY <2>1, <2>2, <2>3 DEF RecordsWhileServing, RowsMatchRecordings, CleanShutdown
<1>12. CASE Crash
  <2>1. Running' = {} /\ Active' = {} /\ status' = "down" /\ ~serving'
        /\ exitBy' = "crash"
    BY <1>12, <1>t DEF Crash, ProcessEnds, Running, Active, TypeOK
  <2> QED BY <2>1 DEF RecordsWhileServing, RowsMatchRecordings, CleanShutdown
<1>13. ASSUME NEW s \in Publishers, NEW b \in Servers, ClosePublisher(s, b)
       PROVE  Kept
  BY <1>13, <1>u DEF ClosePublisher
<1>14. ASSUME NEW s \in Viewers, NEW b \in Servers,
              PlayStart(s, b) \/ CloseViewer(s, b)
       PROVE  Kept
  BY <1>14, <1>u DEF PlayStart, CloseViewer
<1>15. CASE ToggleAuto
  BY <1>15, <1>u DEF ToggleAuto
<1>16. CASE UNCHANGED vars
  BY <1>16, <1>u DEF vars
<1> QED
  BY <1>1, <1>2, <1>3, <1>4, <1>5, <1>6, <1>7, <1>8, <1>9, <1>10, <1>11, <1>12,
     <1>13, <1>14, <1>15, <1>16
  DEF Next

\* A path has one recording at most, which the map names and whose row alone
\* says so: over resumes, takeovers, refusals, the API, crashes and restarts.
THEOREM OneRecording == Spec => []RowsMatchRecordings
<1>1. RowsInv => RowsMatchRecordings
  BY DEF RowsInv
<1> QED BY <1>1, RowsInit, RowsStep, PTL DEF Spec

\* After a clean stop no row on disk says that a recording goes on.
THEOREM StopClosesRows == Spec => []CleanShutdown
<1>1. RowsInv => CleanShutdown
  BY DEF RowsInv
<1> QED BY <1>1, RowsInit, RowsStep, PTL DEF Spec

(***************************************************************************)
(* The recorder and its stream.                                            *)
(***************************************************************************)

Attend ==
  \A r \in Records, b \in Servers :
    r \in subscribers[b] <=> r \in Running /\ attached[r] = b

AtRegistry == \A r \in Running : attached[r] = registry /\ registry \in Servers

HasPublisher ==
  \A r \in Running :
    \E b \in Servers : publisher[b] # None /\ (attached[r] = b \/ orphaned)

TimerHasPublisher == \A b \in Servers : graceTimer[b] => publisher[b] # None

\* Until a takeover splits slot and registry, a slot that is held is the one of
\* the registered object.
PublisherRegistered ==
  ~orphaned => \A b \in Servers : publisher[b] # None => registry = b

\* Who publishes before the record server is at work is not recorded.
EarlyUnrecorded ==
  status \in {"down", "starting"} =>
    \A b \in Servers : publisher[b] \in unrecorded \cup {None}

FollowInv ==
  /\ RowsInv
  /\ Attend /\ AtRegistry /\ HasPublisher
  /\ TimerHasPublisher
  /\ PublisherRegistered
  /\ EarlyUnrecorded
  /\ AutoRecordsAll

LEMMA FollowsAll == FollowInv => RecorderFollowsStream
BY DEF FollowInv, RecorderFollowsStream, Attend, AtRegistry, HasPublisher

\* A recording stops: it is no subscriber any more.
LEMMA StopLeaves ==
  ASSUME TypeOK, Attend, StopRecords(Running)
  PROVE  Attend' /\ Running' = {}
<1>1. Running \in SUBSET Running
  OBVIOUS
<1>2. Running' = {}
  BY <1>1, StopFacts
<1>3. \A b \in Servers : subscribers'[b] = subscribers[b] \ Running
  BY <1>1, StopFacts
<1> QED BY <1>2, <1>3 DEF Attend

\* A recording starts, where no other goes on.
LEMMA StartAttends ==
  ASSUME TypeOK, Attend, NEW R \in {{}, Running}, NEW reg, StartRecord(R, reg),
         Running \ R = {}
  PROVE  /\ Attend' /\ AtRegistry'
         /\ Running' # {}
         /\ reg # None => registry' = reg
<1>1. R \in SUBSET Running
  OBVIOUS
<1>2. PICK r \in Records, b \in Servers : Begins(R, reg, r, b)
  BY <1>1, StartFacts
<1>3. Running' = {r} /\ registry' = b /\ attached'[r] = b
  BY <1>2 DEF Begins, TypeOK
<1>4. ASSUME NEW x \in Records, NEW c \in Servers
      PROVE  x \in subscribers'[c] <=> x = r /\ c = b
  <2>1. x \notin subscribers[c] \ R
    BY DEF Attend
  <2> QED BY <1>2, <2>1 DEF Begins
<1>5. Attend'
  BY <1>3, <1>4 DEF Attend
<1>6. reg # None => registry' = reg
  BY <1>2 DEF Begins, Resolves
<1> QED BY <1>3, <1>5, <1>6 DEF AtRegistry

\* An event for the object that the publisher's command has registered.
LEMMA EventJoins ==
  ASSUME FollowInv, NEW b \in Servers, Resolves(b, registry),
         PostPublishEvent({}, b)
  PROVE  /\ Attend' /\ registry' = b
         /\ \A r \in Running' : attached'[r] = b
         /\ Running # {} => Running' # {}
         /\ serving /\ auto => Running' # {}
<1> USE DEF FollowInv, RowsInv
<1>1. CASE StartsRecord({})
  <2>1. StartRecord({}, b) /\ Running = {}
    BY <1>1, NoneRunning DEF PostPublishEvent, StartsRecord
  <2>2. b # None /\ {} \in {{}, Running}
    BY NoneApart
  <2> QED BY <2>1, <2>2, StartAttends DEF AtRegistry
<1>2. CASE ~StartsRecord({})
  <2>1. StopRecords({}) /\ registry' = b
    BY <1>2 DEF PostPublishEvent
  <2>2. Running' = Running /\ attached' = attached
        /\ \A c \in Servers : subscribers'[c] = subscribers[c]
    <3>1. {} \in SUBSET Running /\ TypeOK
      OBVIOUS
    <3>2. /\ Running' = Running \ {} /\ attached' = attached
          /\ \A c \in Servers : subscribers'[c] = subscribers[c] \ {}
      BY <2>1, <3>1, StopFacts
    <3> QED BY <3>2
  <2>3. Running # {} => registry = b
    BY NoneApart DEF AtRegistry, Resolves
  <2>4. serving /\ auto => Running # {}
    BY <1>2, NoneRunning DEF StartsRecord
  <2> QED BY <2>1, <2>2, <2>3, <2>4 DEF Attend, AtRegistry
<1> QED BY <1>1, <1>2

\* A takeover: the recording that went on has stopped, and the event of the
\* newcomer finds what _finishPublish has left in the registry.
LEMMA EventReplaces ==
  ASSUME FollowInv, NEW reg, PostPublishEvent(Running, reg)
  PROVE  /\ Attend' /\ AtRegistry'
         /\ reg # None => registry' = reg
         /\ serving /\ auto => Running' # {}
<1> USE DEF FollowInv, RowsInv
<1>1. CASE StartsRecord(Running)
  <2>1. StartRecord(Running, reg) /\ Running \ Running = {}
        /\ Running \in {{}, Running}
    BY <1>1 DEF PostPublishEvent
  <2> QED BY <2>1, StartAttends
<1>2. CASE ~StartsRecord(Running)
  <2>1. StopRecords(Running) /\ registry' = reg
    BY <1>2 DEF PostPublishEvent
  <2>2. ~(serving /\ auto)
    BY <1>2, NoneRunning DEF StartsRecord
  <2> QED BY <2>1, <2>2, StopLeaves DEF AtRegistry
<1> QED BY <1>1, <1>2

LEMMA FollowInit == Init => FollowInv
<1> SUFFICES ASSUME Init PROVE FollowInv
  OBVIOUS
<1>1. Running = {} /\ RowsInv
  BY RowsInit DEF Init, Running
<1> QED
  BY <1>1
  DEF Init, FollowInv, Attend, AtRegistry, HasPublisher, TimerHasPublisher,
      PublisherRegistered, EarlyUnrecorded, AutoRecordsAll

\* Slots and recordings after a command of a publisher.
LEMMA OnePublisher ==
  ASSUME FollowInv, ~orphaned, NEW b \in Servers, Resolves(b, registry),
         NEW c \in Servers, publisher[c] # None
  PROVE  c = b
<1>1. registry = c /\ registry # None
  BY NoneApart DEF FollowInv, PublisherRegistered
<1> QED BY <1>1 DEF Resolves

LEMMA FollowStep == FollowInv /\ [Next]_vars => FollowInv'
<1> DEFINE Kept == /\ Attend' /\ AtRegistry' /\ HasPublisher'
                   /\ TimerHasPublisher' /\ PublisherRegistered'
                   /\ EarlyUnrecorded' /\ AutoRecordsAll'
<1> SUFFICES ASSUME FollowInv, [Next]_vars PROVE Kept
  BY RowsStep DEF FollowInv
<1> USE DEF processVars, configVars, sessionVars, serverVars, recordVars, ghostVars
<1>t. TypeOK /\ RecordsWhileServing /\ RowsMatchRecordings
  BY DEF FollowInv, RowsInv
<1>f. /\ Attend /\ AtRegistry /\ HasPublisher
      /\ TimerHasPublisher /\ PublisherRegistered
      /\ EarlyUnrecorded /\ AutoRecordsAll
  BY DEF FollowInv
<1>1. ASSUME NEW s \in Publishers, NEW b \in Servers, PublishStart(s, b)
      PROVE  Kept
  <2>1. /\ Resolves(b, registry) /\ PostPublishEvent({}, b)
        /\ publisher[b] = None /\ UNCHANGED <<status, serving, auto>>
        /\ publisher' = [publisher EXCEPT ![b] = s]
        /\ unrecorded' = Asked(s)
        /\ UNCHANGED <<graceTimer, orphaned>>
    BY <1>1 DEF PublishStart, Publish, Command
  <2>2. /\ Attend' /\ registry' = b
        /\ \A r \in Running' : attached'[r] = b
        /\ serving /\ auto => Running' # {}
    BY <2>1, EventJoins
  <2>3. publisher'[b] = s /\ s # None
        /\ \A c \in Servers \ {b} : publisher'[c] = publisher[c]
    BY <2>1, <1>t, NoneApart DEF TypeOK
  <2>4. ~orphaned => \A c \in Servers : publisher'[c] # None => c = b
    BY <2>1, <2>3, OnePublisher
  <2>5. AtRegistry' /\ HasPublisher'
    BY <2>2, <2>3 DEF AtRegistry, HasPublisher
  <2>6. TimerHasPublisher' /\ PublisherRegistered'
    BY <2>1, <2>2, <2>3, <2>4, <1>f DEF TimerHasPublisher, PublisherRegistered
  <2>7. EarlyUnrecorded'
    BY <2>1, <2>3, <1>t, <1>f DEF EarlyUnrecorded, RecordsWhileServing, Asked
  <2>8. AutoRecordsAll'
    BY <2>1, <2>2, <2>3, <2>4 DEF AutoRecordsAll, Asked
  <2> QED BY <2>2, <2>5, <2>6, <2>7, <2>8
<1>2. ASSUME NEW s \in Publishers, NEW b \in Servers, PublishBusy(s, b)
      PROVE  Kept
  <2>1. /\ Resolves(b, registry) /\ PostPublishEvent({}, b)
        /\ publisher[b] # None /\ UNCHANGED <<status, serving, auto>>
        /\ UNCHANGED <<publisher, graceTimer, unrecorded, orphaned>>
    BY <1>2 DEF PublishBusy, Publish, Command
  <2>2. /\ Attend' /\ registry' = b
        /\ \A r \in Running' : attached'[r] = b
        /\ Running # {} => Running' # {}
    BY <2>1, EventJoins
  <2>3. ~orphaned => \A c \in Servers : publisher[c] # None => c = b
    BY <2>1, OnePublisher
  <2>4. AtRegistry' /\ HasPublisher'
    BY <2>1, <2>2 DEF AtRegistry, HasPublisher
  <2>5. TimerHasPublisher' /\ PublisherRegistered' /\ EarlyUnrecorded'
    BY <2>1, <2>2, <2>3, <1>f
    DEF TimerHasPublisher, PublisherRegistered, EarlyUnrecorded
  <2>6. AutoRecordsAll'
    BY <2>1, <2>2, <2>3, <1>f DEF AutoRecordsAll
  <2> QED BY <2>2, <2>4, <2>5, <2>6
<1>3. ASSUME NEW s \in Publishers, NEW b \in Servers, PublishResume(s, b)
      PROVE  Kept
  <2>1. /\ Resolves(b, registry) /\ PostPublishEvent({}, b)
        /\ publisher[b] # None /\ UNCHANGED <<status, serving, auto, orphaned>>
        /\ publisher' = [publisher EXCEPT ![b] = s]
        /\ graceTimer' = [graceTimer EXCEPT ![b] = FALSE]
        /\ unrecorded' = IF serving /\ auto THEN unrecorded \ {s}
                         ELSE IF publisher[b] \in unrecorded
                              THEN unrecorded \cup {s} ELSE unrecorded
    BY <1>3 DEF PublishResume, Publish, Command
  <2>2. /\ Attend' /\ registry' = b
        /\ \A r \in Running' : attached'[r] = b
        /\ Running # {} => Running' # {}
        /\ serving /\ auto => Running' # {}
    BY <2>1, EventJoins
  <2>3. publisher'[b] = s /\ s # None
        /\ \A c \in Servers \ {b} : publisher'[c] = publisher[c]
    BY <2>1, <1>t, NoneApart DEF TypeOK
  <2>4. ~orphaned => \A c \in Servers : publisher'[c] # None => c = b
    BY <2>1, <2>3, OnePublisher
  <2>5. AtRegistry' /\ HasPublisher'
    BY <2>2, <2>3 DEF AtRegistry, HasPublisher
  <2>6. TimerHasPublisher' /\ PublisherRegistered'
    BY <2>1, <2>2, <2>3, <2>4, <1>t, <1>f
    DEF TimerHasPublisher, PublisherRegistered, TypeOK
  <2>7. EarlyUnrecorded'
    BY <2>1, <2>3, <1>t, <1>f DEF EarlyUnrecorded, RecordsWhileServing
  <2>8. AutoRecordsAll'
    <3> SUFFICES ASSUME NEW c \in Servers, serving, ~orphaned,
                        publisher'[c] # None, publisher'[c] \notin unrecorded'
                 PROVE  Running' # {} /\ c = b
      BY <2>1, <2>2 DEF AutoRecordsAll
    <3>1. c = b
      BY <2>4
    <3>2. CASE auto
      BY <3>1, <3>2, <2>2
    <3>3. CASE ~auto
      <4>1. publisher[b] \notin unrecorded
        BY <3>1, <3>3, <2>1, <2>3
      <4>2. Running # {}
        BY <4>1, <2>1, <1>f DEF AutoRecordsAll
      <4> QED BY <3>1, <4>2, <2>2
    <3> QED BY <3>2, <3>3
  <2> QED BY <2>2, <2>5, <2>6, <2>7, <2>8
<1>4. ASSUME NEW s \in Publishers, NEW b \in Servers, PublishTakeOver(s, b)
      PROVE  Kept
  <2> DEFINE reg == RegistryAfterFinish(b)
  <2>1. /\ Resolves(b, registry) /\ PostPublishEvent(Running, reg)
        /\ publisher[b] # None /\ UNCHANGED <<status, serving, auto>>
        /\ orphaned' = (orphaned \/ reg # b)
        /\ publisher' = [publisher EXCEPT ![b] = s]
        /\ graceTimer' = [graceTimer EXCEPT ![b] = FALSE]
        /\ unrecorded' = Asked(s)
    BY <1>4 DEF PublishTakeOver, Publish, Command, Listeners
  <2> HIDE DEF reg
  <2>2. /\ Attend' /\ AtRegistry'
        /\ reg # None => registry' = reg
        /\ serving /\ auto => Running' # {}
    BY <2>1, EventReplaces
  <2>3. publisher'[b] = s /\ s # None
        /\ \A c \in Servers \ {b} : publisher'[c] = publisher[c]
    BY <2>1, <1>t, NoneApart DEF TypeOK
  <2>4. ~orphaned' => ~orphaned /\ registry' = b
    BY <2>1, <2>2, NoneApart
  <2>5. ~orphaned' => \A c \in Servers : publisher'[c] # None => c = b
    BY <2>1, <2>3, <2>4, OnePublisher
  <2>6. HasPublisher'
    BY <2>2, <2>3, <2>4 DEF AtRegistry, HasPublisher
  <2>7. TimerHasPublisher' /\ PublisherRegistered'
    BY <2>1, <2>3, <2>4, <2>5, <1>t, <1>f
    DEF TimerHasPublisher, PublisherRegistered, TypeOK
  <2>8. EarlyUnrecorded'
    BY <2>1, <2>3, <1>t, <1>f DEF EarlyUnrecorded, RecordsWhileServing, Asked
  <2>9. AutoRecordsAll'
    BY <2>1, <2>2, <2>3, <2>4, <2>5 DEF AutoRecordsAll, Asked, AtRegistry
  <2> QED BY <2>2, <2>6, <2>7, <2>8, <2>9
<1>5. ASSUME NEW b \in Servers, GraceExpires(b) PROVE Kept
  <2>1. /\ StopRecords(Running) /\ graceTimer[b]
        /\ graceTimer' = [graceTimer EXCEPT ![b] = FALSE]
        /\ publisher' = [publisher EXCEPT ![b] = None]
        /\ UNCHANGED <<status, serving, unrecorded, orphaned>>
    BY <1>5 DEF GraceExpires, Listeners, Finished
  <2>2. Attend' /\ Running' = {}
    BY <2>1, <1>t, <1>f, StopLeaves
  <2>3. publisher[b] # None /\ publisher'[b] = None
        /\ \A c \in Servers \ {b} : publisher'[c] = publisher[c]
    BY <2>1, <1>t, <1>f DEF TypeOK, TimerHasPublisher
  <2>4. ~orphaned => \A c \in Servers : publisher'[c] = None
    BY <2>3, <1>f DEF PublisherRegistered
  <2>5. TimerHasPublisher' /\ EarlyUnrecorded'
    BY <2>1, <2>3, <1>t, <1>f DEF TimerHasPublisher, EarlyUnrecorded, TypeOK
  <2> QED
    BY <2>1, <2>2, <2>4, <2>5
    DEF AtRegistry, HasPublisher, PublisherRegistered, AutoRecordsAll
<1>6. ASSUME NEW s \in Publishers, NEW b \in Servers, ClosePublisher(s, b)
      PROVE  Kept
  <2>1. UNCHANGED <<status, serving, registry, publisher, subscribers, attached,
                    recorder, unrecorded, orphaned>> /\ Running' = Running
    BY <1>6 DEF ClosePublisher, Running
  <2>2. TimerHasPublisher'
    BY <1>6, <2>1, <1>t, <1>f, NoneApart
    DEF ClosePublisher, TimerHasPublisher, TypeOK
  <2> QED
    BY <2>1, <2>2, <1>f
    DEF Attend, AtRegistry, HasPublisher, PublisherRegistered, EarlyUnrecorded,
        AutoRecordsAll
<1>7. ASSUME NEW s \in Viewers, NEW b \in Servers, PlayStart(s, b)
      PROVE  Kept
  <2>1. /\ Resolves(b, registry) /\ registry' = b
        /\ subscribers' = [subscribers EXCEPT ![b] = @ \cup {s}]
        /\ UNCHANGED <<status, serving, publisher, graceTimer, attached,
                       unrecorded, orphaned>>
        /\ Running' = Running
    BY <1>7 DEF PlayStart, Command, Running
  <2>2. \A r \in Records, c \in Servers :
          r \in subscribers'[c] <=> r \in subscribers[c]
    BY <2>1, <1>t, NoneApart DEF TypeOK
  <2>3. Attend'
    BY <2>1, <2>2, <1>f DEF Attend
  <2>4. \A c \in Servers : registry = c => c = b
    BY <2>1, NoneApart DEF Resolves
  <2> QED
    BY <2>1, <2>3, <2>4, <1>f
    DEF AtRegistry, HasPublisher, TimerHasPublisher, PublisherRegistered,
        EarlyUnrecorded, AutoRecordsAll
<1>8. ASSUME NEW s \in Viewers, NEW b \in Servers, CloseViewer(s, b)
      PROVE  Kept
  <2>1. /\ registry' = RegistryWithout({b}, {s}, publisher)
        /\ subscribers' = [subscribers EXCEPT ![b] = @ \ {s}]
        /\ UNCHANGED <<status, serving, publisher, graceTimer, attached,
                       unrecorded, orphaned>>
        /\ Running' = Running
    BY <1>8 DEF CloseViewer, Running
  <2>2. \A r \in Records, c \in Servers :
          r \in subscribers'[c] <=> r \in subscribers[c]
    BY <2>1, <1>t, NoneApart DEF TypeOK
  <2>3. Attend'
    BY <2>1, <2>2, <1>f DEF Attend
  <2>4. \A c \in Servers : registry = c /\ publisher[c] # None => registry' = c
    BY <2>1 DEF RegistryWithout
  <2>5. \A r \in Running : registry' = registry
    <3> SUFFICES ASSUME NEW r \in Running, registry' # registry PROVE FALSE
      OBVIOUS
    <3>1. registry = b /\ subscribers[b] \subseteq {s}
      BY <2>1 DEF RegistryWithout
    <3>2. r \in Records /\ r \in subscribers[b]
      BY <3>1, <1>f DEF Attend, AtRegistry, Running
    <3> QED BY <3>1, <3>2, NoneApart
  <2> QED
    BY <2>1, <2>3, <2>4, <2>5, <1>f
    DEF AtRegistry, HasPublisher, TimerHasPublisher, PublisherRegistered,
        EarlyUnrecorded, AutoRecordsAll
<1>9. CASE startRecord
  <2>1. /\ StartRecord({}, registry) /\ active = None
        /\ registry \in Servers /\ publisher[registry] # None
        /\ UNCHANGED <<status, serving, publisher, graceTimer, unrecorded, orphaned>>
    BY <1>9 DEF startRecord
  <2>2. Running = {} /\ {} \in {{}, Running}
    BY <2>1, <1>t, NoneRunning
  <2>3. Attend' /\ AtRegistry' /\ registry' = registry
    BY <2>1, <2>2, <1>t, <1>f, NoneApart, StartAttends
  <2>4. AutoRecordsAll'
    BY <2>1, <2>2, <1>f DEF AutoRecordsAll
  <2> QED
    BY <2>1, <2>3, <2>4, <1>f
    DEF AtRegistry, HasPublisher, TimerHasPublisher, PublisherRegistered,
        EarlyUnrecorded
<1>10. ASSUME StopActive, status' = status \/ status' = "closing",
              UNCHANGED orphaned, unrecorded \subseteq unrecorded',
              serving' => serving /\ \A b \in Servers :
                            publisher[b] \in unrecorded' \cup {None}
       PROVE  Kept
  <2>1. /\ StopRecords(Running) /\ UNCHANGED <<publisher, graceTimer>>
        /\ registry' = RegistryWithout(ObjectsOf(Active), Active, publisher)
    BY <1>10, <1>t DEF StopActive, RowsMatchRecordings
  <2>2. Attend' /\ Running' = {}
    BY <2>1, <1>t, <1>f, StopLeaves
  <2>3. \A c \in Servers : registry = c /\ publisher[c] # None => registry' = c
    BY <2>1 DEF RegistryWithout
  <2>4. AutoRecordsAll' /\ EarlyUnrecorded'
    BY <1>10, <2>1, <1>f DEF AutoRecordsAll, EarlyUnrecorded
  <2> QED
    BY <1>10, <2>1, <2>2, <2>3, <2>4, <1>f
    DEF AtRegistry, HasPublisher, TimerHasPublisher, PublisherRegistered
<1>11. CASE stopRecord
  <2>1. /\ StopActive /\ UNCHANGED <<status, serving, orphaned>>
        /\ unrecorded' = unrecorded \cup ({publisher[b] : b \in Servers} \ {None})
    BY <1>11 DEF stopRecord
  <2> QED BY <2>1, <1>10
<1>12. CASE Shutdown
  <2>1. StopActive /\ status' = "closing" /\ ~serving'
        /\ UNCHANGED <<unrecorded, orphaned>>
    BY <1>12 DEF Shutdown, RecordServerStop
  <2> QED BY <2>1, <1>10
\* Steps that touch neither slots nor recordings.
<1>13. ASSUME UNCHANGED <<registry, publisher, graceTimer, subscribers, attached,
                          recorder, unrecorded, orphaned>>,
              status' \in {"down", "starting"} => status \in {"down", "starting"},
              serving' => serving \/ status = "starting"
       PROVE  Kept
  <2>1. Running' = Running
    BY <1>13 DEF Running
  <2>2. AutoRecordsAll'
    BY <1>13, <2>1, <1>f DEF AutoRecordsAll, EarlyUnrecorded
  <2> QED
    BY <1>13, <2>1, <2>2, <1>f
    DEF Attend, AtRegistry, HasPublisher, TimerHasPublisher, PublisherRegistered,
        EarlyUnrecorded
<1>14. CASE ToggleAuto
  BY <1>13, <1>14 DEF ToggleAuto
<1>15. ASSUME NEW r \in Records, deleteRecord(r) PROVE Kept
  BY <1>13, <1>15 DEF deleteRecord
<1>16. CASE Boot
  BY <1>13, <1>16 DEF Boot
<1>17. CASE StoreOpened
  BY <1>13, <1>17 DEF StoreOpened
<1>18. CASE Flush
  BY <1>13, <1>18 DEF Flush
<1>19. ASSUME ProcessEnds PROVE Kept
  <2>1. Running' = {}
    BY <1>19, <1>t DEF ProcessEnds, Running, TypeOK
  <2> QED
    BY <1>19, <2>1
    DEF ProcessEnds, Attend, AtRegistry, HasPublisher, TimerHasPublisher,
        PublisherRegistered, EarlyUnrecorded, AutoRecordsAll
<1>20. CASE Exit
  BY <1>19, <1>20 DEF Exit
<1>21. CASE Crash
  BY <1>19, <1>21 DEF Crash
<1>22. CASE UNCHANGED vars
  BY <1>13, <1>22 DEF vars
<1> QED
  BY <1>1, <1>2, <1>3, <1>4, <1>5, <1>6, <1>7, <1>8, <1>9, <1>11, <1>12, <1>14,
     <1>15, <1>16, <1>17, <1>18, <1>20, <1>21, <1>22
  DEF Next

\* A recording is a subscriber of the object that players get as long as it
\* runs and no longer, and does not outlive the last publish of the path.
THEOREM RecorderFollows == Spec => []RecorderFollowsStream
BY FollowsAll, FollowInit, FollowStep, PTL DEF Spec

\* With automatic recording, no publish that the record server has heard of
\* goes unrecorded, over its reconnections and takeovers, but for orphans.
THEOREM NothingUnrecorded == Spec => []AutoRecordsAll
<1>1. FollowInv => AutoRecordsAll
  BY DEF FollowInv
<1> QED BY <1>1, FollowInit, FollowStep, PTL DEF Spec

\* Rows tell what is recorded, in memory and, after a clean stop, on disk.
THEOREM RowsTellTruth == Spec => []RowsInOrder
<1>1. RowsMatchRecordings /\ CleanShutdown => RowsInOrder
  BY DEF RowsInOrder
<1> QED BY <1>1, OneRecording, StopClosesRows, PTL
=============================================================================
