---------------------------- MODULE Store_proofs ----------------------------
(***************************************************************************)
(* Proofs about module Store, for every finite set of collections and all  *)
(* bounds.                                                                 *)
(***************************************************************************)
EXTENDS Store, SequenceTheorems, TLAPS

(***************************************************************************)
(* Types.  A handle that is not null names a timer that will fire, which   *)
(* is what keeps the number of timers from going below zero.               *)
(***************************************************************************)

HandlesArmed == (timer => timers > 0) /\ (retryTimer => retryTimers > 0)

TypeInv == TypeOK /\ HandlesArmed

LEMMA TypeInit == Init => TypeInv
<1> SUFFICES ASSUME Init PROVE TypeInv
  OBVIOUS
<1>1. 0 \in Content /\ 0 \in 0..MaxCalls /\ 0 \in 0..MaxFailures
      /\ 0 \in 0..MaxStarts /\ 0 \in 0..3
  BY StoreAssumption DEF Content
<1>2. chain \in Seq(Tasks)
  BY DEF Init
<1> QED BY <1>1, <1>2 DEF Init, TypeInv, TypeOK, HandlesArmed

LEMMA KindType == DOMAIN Attempts = {"auto", "flush", "close"}
BY DEF Attempts

LEMMA TaskIsOne ==
  ASSUME TypeOK
  PROVE  /\ Task("auto") \in Tasks
         /\ Task("flush") \in Tasks
         /\ Task("close") \in Tasks
<1>1. 0 \in Content
  BY StoreAssumption DEF Content
<1> QED BY <1>1, KindType DEF Task, Tasks, TypeOK

\* A task that is put on the chain leaves it a chain of tasks.
LEMMA TaskType ==
  ASSUME TypeOK
  PROVE  /\ Append(chain, Task("auto")) \in Seq(Tasks)
         /\ Append(chain, Task("flush")) \in Seq(Tasks)
         /\ Append(chain, Task("close")) \in Seq(Tasks)
<1>1. chain \in Seq(Tasks)
  BY DEF TypeOK
<1> QED BY <1>1, TaskIsOne

\* The task that runs is one, and so are those behind it.
LEMMA HeadType ==
  ASSUME TypeOK, chain # <<>>
  PROVE  /\ Head(chain).kind \in {"auto", "flush", "close"}
         /\ Head(chain).floor \in [Files -> Content]
         /\ Attempts[Head(chain).kind] \in 1..3
         /\ Tail(chain) \in Seq(Tasks)
<1>1. chain \in Seq(Tasks)
  BY DEF TypeOK
<1>2. Head(chain) \in Tasks /\ Tail(chain) \in Seq(Tasks)
  BY <1>1
<1>3. /\ Head(chain).kind \in {"auto", "flush", "close"}
      /\ Head(chain).floor \in [Files -> Content]
  BY <1>2, KindType DEF Tasks
<1> QED BY <1>2, <1>3 DEF Attempts

LEMMA TypeStep == TypeInv /\ [Next]_vars => TypeInv'
<1> SUFFICES ASSUME TypeInv, [Next]_vars PROVE TypeInv'
  OBVIOUS
<1> USE DEF TypeInv, HandlesArmed
<1>1. CASE Start
  BY <1>1, StoreAssumption
  DEF Start, TypeOK, Content, Torn, Gone, timerVars, chainVars, exitVars
<1>2. CASE Opened
  <2>1. mem' \in [Files -> Content]
    BY <1>2 DEF Opened, Loaded, TypeOK
  <2>2. file' \in [Files -> Content \cup {Torn}]
    <3>1. 0 \in Content
      BY StoreAssumption DEF Content
    <3> QED BY <1>2, <3>1 DEF Opened, TypeOK
  <2>3. timer' \in BOOLEAN /\ timers' \in Nat /\ (timer' => timers' > 0)
    <3>1. CASE dirty = {}
      BY <1>2, <3>1 DEF Opened, TypeOK
    <3>2. CASE dirty # {}
      BY <1>2, <3>2 DEF Opened, ScheduleFlush, TypeOK
    <3> QED BY <3>1, <3>2
  <2> QED
    BY <1>2, <2>1, <2>2, <2>3
    DEF Opened, TypeOK, chainVars, exitVars, ghostVars
<1>3. ASSUME NEW f \in Files, Mutate(f) PROVE TypeInv'
  BY <1>3, StoreAssumption
  DEF Mutate, Marked, ScheduleFlush, TypeOK, Content, chainVars, diskVars,
      exitVars
<1>4. CASE TimerFires
  <2>1. chain' \in Seq(Tasks) /\ timer' \in BOOLEAN /\ ~timer'
    BY <1>4, TaskType DEF TimerFires, AutoFlush, TypeOK
  <2>2. HandlesArmed'
    BY <1>4, <2>1 DEF TimerFires
  <2>3. TypeOK'
    <3>1. timers' \in Nat
      BY <1>4, <2>1 DEF TimerFires, TypeOK
    <3> QED
      BY <1>4, <2>1, <3>1
      DEF TimerFires, TypeOK, memVars, diskVars, exitVars, ghostVars
  <2> QED BY <2>2, <2>3
<1>5. CASE RetryFires
  <2>1. chain' \in Seq(Tasks) /\ timer' \in BOOLEAN /\ ~timer'
    BY <1>5, TaskType DEF RetryFires, AutoFlush, TypeOK
  <2>2. HandlesArmed'
    BY <1>5, <2>1 DEF RetryFires
  <2>3. TypeOK'
    <3>1. retryTimers' \in Nat
      BY <1>5, <2>1 DEF RetryFires, TypeOK
    <3> QED
      BY <1>5, <2>1, <3>1
      DEF RetryFires, TypeOK, memVars, diskVars, exitVars, ghostVars
  <2> QED BY <2>2, <2>3
<1>6. CASE FlushCall
  <2>1. chain' \in Seq(Tasks)
    BY <1>6, TaskType DEF FlushCall
  <2>2. timers' \in Nat
    BY <1>6 DEF FlushCall, Cleared, TypeOK
  <2>3. calls' \in 0..MaxCalls
    BY <1>6, StoreAssumption DEF FlushCall, TypeOK
  <2> QED
    BY <1>6, <2>1, <2>2, <2>3
    DEF FlushCall, TypeOK, memVars, diskVars, exitVars, ghostVars
<1>7. CASE CloseCall
  <2>1. chain' \in Seq(Tasks)
    BY <1>7, TaskType DEF CloseCall
  <2>2. timers' \in Nat /\ retryTimers' \in Nat
    BY <1>7 DEF CloseCall, Cleared, TypeOK
  <2>3. calls' \in 0..MaxCalls
    BY <1>7, StoreAssumption DEF CloseCall, TypeOK
  <2> QED
    BY <1>7, <2>1, <2>2, <2>3
    DEF CloseCall, TypeOK, memVars, diskVars, exitVars, ghostVars
<1>8. CASE BeginRound
  BY <1>8, HeadType
  DEF BeginRound, Running, TypeOK, timerVars, exitVars, ghostVars
<1>9. ASSUME NEW f \in Files, OpenTmp(f) PROVE TypeInv'
  BY <1>9
  DEF OpenTmp, Submitted, Following, TypeOK, memVars, timerVars, chainVars,
      exitVars, ghostVars
<1>10. ASSUME NEW f \in Files, WriteTmp(f) PROVE TypeInv'
  BY <1>10
  DEF WriteTmp, Submitted, Following, TypeOK, memVars, timerVars, chainVars,
      exitVars, ghostVars
<1>11. ASSUME NEW f \in Files, RenameTmp(f) PROVE TypeInv'
  BY <1>11
  DEF RenameTmp, TypeOK, memVars, timerVars, chainVars, exitVars, ghostVars
<1>12. ASSUME NEW f \in Files, JobFails(f) PROVE TypeInv'
  BY <1>12, StoreAssumption
  DEF JobFails, Redirtied, TypeOK, timerVars, exitVars
<1>13. CASE Resolve
  <2>1. chain' \in Seq(Tasks)
    BY <1>13, HeadType DEF Resolve, Running, NextTask
  <2>2. acked' \in [Files -> Content]
    BY <1>13, HeadType DEF Resolve, Running, Larger, TypeOK
  <2>3. retryTimer' \in BOOLEAN /\ (retryTimer' => retryTimer)
    BY <1>13 DEF Resolve, TypeOK
  <2>4. HandlesArmed'
    BY <1>13, <2>3 DEF Resolve
  <2>5. TypeOK'
    <3>1. status' \in {"down", "opening", "open", "closed", "dying"}
      BY <1>13 DEF Resolve, TypeOK
    <3>2. rounds' \in 0..3
      BY <1>13 DEF Resolve, NextTask
    <3>3. failed' \in BOOLEAN
      BY <1>13 DEF Resolve, NextTask
    <3> QED
      BY <1>13, <2>1, <2>2, <2>3, <3>1, <3>2, <3>3
      DEF Resolve, TypeOK, memVars, diskVars, exitVars
  <2> QED BY <2>4, <2>5
<1>14. CASE Reject
  <2>1. chain' \in Seq(Tasks)
    BY <1>14, HeadType DEF Reject, Running, NextTask
  <2>2. retryTimer' \in BOOLEAN /\ retryTimers' \in Nat
        /\ (retryTimer' => retryTimers' > 0)
    BY <1>14 DEF Reject, ArmsRetry, TypeOK
  <2>3. flushFailed' \in BOOLEAN
    BY <1>14 DEF Reject, TypeOK
  <2>4. HandlesArmed'
    BY <1>14, <2>2 DEF Reject
  <2>5. TypeOK'
    <3>1. status' \in {"down", "opening", "open", "closed", "dying"}
      BY <1>14 DEF Reject, TypeOK
    <3>2. rounds' \in 0..3
      BY <1>14 DEF Reject, NextTask
    <3>3. failed' \in BOOLEAN
      BY <1>14 DEF Reject, NextTask
    <3> QED
      BY <1>14, <2>1, <2>2, <2>3, <3>1, <3>2, <3>3
      DEF Reject, TypeOK, memVars, diskVars, exitVars
  <2> QED BY <2>4, <2>5
<1>15. CASE ExitHook
  BY <1>15
  DEF ExitHook, SyncJobs, TypeOK, memVars, timerVars, chainVars, diskVars
<1>16. ASSUME NEW f \in Files, SyncWrite(f) PROVE TypeInv'
  BY <1>16
  DEF SyncWrite, TypeOK, memVars, timerVars, chainVars, ghostVars
<1>17. ASSUME NEW f \in Files, SyncRename(f) PROVE TypeInv'
  BY <1>17
  DEF SyncRename, TypeOK, memVars, timerVars, chainVars, ghostVars
<1>18. CASE SyncAborts
  BY <1>18, StoreAssumption
  DEF SyncAborts, TypeOK, memVars, timerVars, chainVars, diskVars
<1>19. CASE HookEnds \/ Crash
  <2>1. <<>> \in Seq(Tasks)
    OBVIOUS
  <2>2. 0 \in 0..MaxCalls /\ 0 \in 0..3
    BY StoreAssumption
  <2>3. ProcessEnds /\ exitBy' \in {"none", "hook", "aborted", "crash"}
    BY <1>19 DEF HookEnds, Crash, TypeOK
  <2>4. HandlesArmed'
    BY <2>3 DEF ProcessEnds
  <2>5. TypeOK'
    BY <2>1, <2>2, <2>3 DEF ProcessEnds, TypeOK
  <2> QED BY <2>4, <2>5
<1>20. CASE UNCHANGED vars
  BY <1>20
  DEF vars, memVars, timerVars, chainVars, diskVars, exitVars, ghostVars, TypeOK
<1> QED
  BY <1>1, <1>2, <1>3, <1>4, <1>5, <1>6, <1>7, <1>8, <1>9, <1>10, <1>11, <1>12,
     <1>13, <1>14, <1>15, <1>16, <1>17, <1>18, <1>19, <1>20
  DEF Next, ThreadStep

\* Every variable keeps its type: no timer is cleared that is not armed, no
\* task takes more rounds than it may, no file holds what nobody wrote.
THEOREM StoreTypeCorrect == Spec => []TypeOK
<1>1. TypeInv => TypeOK
  BY DEF TypeInv
<1> QED BY <1>1, TypeInit, TypeStep, PTL DEF Spec

(***************************************************************************)
(* Control.  Only the exit hook has files to write by itself or keeps a    *)
(* job from going on; a job belongs to the task at the head of the chain,  *)
(* and there is no task before the store is open.                          *)
(***************************************************************************)

HookQuiet == status # "dying" => sync = {} /\ syncAt = None /\ moved = {}

NoTaskBefore == status \in {"down", "opening"} => chain = <<>>

JobsOfTask == \A f \in Files : job[f] # "none" => chain # <<>>

HaltedByHook == status # "dying" => \A f \in Files : job[f] # "halt"

ControlInv ==
  TypeInv /\ HookQuiet /\ NoTaskBefore /\ JobsOfTask /\ HaltedByHook

LEMMA ControlInit == Init => ControlInv
BY TypeInit
DEF Init, ControlInv, HookQuiet, NoTaskBefore, JobsOfTask, HaltedByHook

\* A chain that grows is not empty.
LEMMA ChainGrows ==
  ASSUME TypeOK
  PROVE  /\ Append(chain, Task("auto")) # <<>>
         /\ Append(chain, Task("flush")) # <<>>
         /\ Append(chain, Task("close")) # <<>>
<1>1. chain \in Seq(Tasks)
  BY DEF TypeOK
<1>2. ASSUME NEW t \in Tasks PROVE Append(chain, t) # <<>>
  BY <1>1, AppendProperties
<1>3. /\ Task("auto") \in Tasks
      /\ Task("flush") \in Tasks
      /\ Task("close") \in Tasks
  BY TaskIsOne
<1> QED BY <1>2, <1>3

LEMMA ControlStep == ControlInv /\ [Next]_vars => ControlInv'
<1> SUFFICES ASSUME ControlInv, [Next]_vars PROVE ControlInv'
  OBVIOUS
<1>0. TypeInv'
  BY TypeStep DEF ControlInv
<1> SUFFICES HookQuiet' /\ NoTaskBefore' /\ JobsOfTask' /\ HaltedByHook'
  BY <1>0 DEF ControlInv
<1> USE DEF ControlInv, TypeInv, HookQuiet, NoTaskBefore, JobsOfTask,
            HaltedByHook
<1>1. ASSUME Start \/ Opened PROVE ControlInv'
  BY <1>0, <1>1 DEF Start, Opened, chainVars, exitVars
<1>2. ASSUME NEW f \in Files, Mutate(f) PROVE ControlInv'
  BY <1>0, <1>2 DEF Mutate, chainVars, diskVars, exitVars
<1>3. ASSUME AutoFlush, UNCHANGED <<status, diskVars, exitVars>>
      PROVE  ControlInv'
  BY <1>0, <1>3, ChainGrows DEF AutoFlush, Usable, diskVars, exitVars
<1>4. ASSUME FlushCall \/ CloseCall PROVE ControlInv'
  BY <1>0, <1>4, ChainGrows
  DEF FlushCall, CloseCall, Usable, diskVars, exitVars
<1>5. CASE BeginRound
  BY <1>0, <1>5 DEF BeginRound, Running, exitVars
<1>6. ASSUME NEW f \in Files, ThreadStep(f) PROVE ControlInv'
  <2>1. /\ job[f] # "none"
        /\ UNCHANGED <<status, chain, sync, syncAt, moved>>
        /\ \A g \in Files : g # f => job'[g] = job[g]
        /\ status # "dying" => job'[f] # "halt"
    <3>1. CASE OpenTmp(f)
      BY <3>1 DEF OpenTmp, Submitted, Following, TypeOK, chainVars, exitVars
    <3>2. CASE WriteTmp(f)
      BY <3>2 DEF WriteTmp, Submitted, Following, TypeOK, chainVars, exitVars
    <3>3. CASE RenameTmp(f)
      BY <3>3 DEF RenameTmp, TypeOK, chainVars, exitVars
    <3> QED BY <1>6, <3>1, <3>2, <3>3 DEF ThreadStep
  <2> QED BY <1>0, <2>1
<1>7. ASSUME NEW f \in Files, JobFails(f) PROVE ControlInv'
  BY <1>0, <1>7 DEF JobFails, TypeOK, exitVars
<1>8. CASE Resolve
  BY <1>0, <1>8 DEF Resolve, Running, Idle, diskVars, exitVars
<1>9. CASE Reject
  BY <1>0, <1>9 DEF Reject, Running, Idle, diskVars, exitVars
<1>10. CASE ExitHook
  BY <1>0, <1>10 DEF ExitHook, chainVars, diskVars
<1>11. ASSUME NEW f \in Files, SyncWrite(f) \/ SyncRename(f) PROVE ControlInv'
  BY <1>0, <1>11, StoreAssumption DEF SyncWrite, SyncRename, chainVars
<1>12. CASE SyncAborts
  BY <1>0, <1>12 DEF SyncAborts, chainVars, diskVars
<1>13. CASE HookEnds \/ Crash
  BY <1>0, <1>13 DEF HookEnds, Crash, ProcessEnds
<1>14. CASE UNCHANGED vars
  BY <1>0, <1>14 DEF vars, chainVars, diskVars, exitVars
<1>15. CASE TimerFires \/ RetryFires
  BY <1>3, <1>15 DEF TimerFires, RetryFires
<1> QED
  BY <1>1, <1>2, <1>4, <1>5, <1>6, <1>7, <1>8, <1>9, <1>10, <1>11, <1>12,
     <1>13, <1>14, <1>15
  DEF Next

(***************************************************************************)
(* Scheduling.                                                             *)
(***************************************************************************)

ScheduledInv == ControlInv /\ DirtyIsScheduled

LEMMA ScheduledStep == ScheduledInv /\ [Next]_vars => ScheduledInv'
<1> SUFFICES ASSUME ScheduledInv, [Next]_vars PROVE DirtyIsScheduled'
  BY ControlStep DEF ScheduledInv
<1>0. TypeOK /\ HandlesArmed
  BY DEF ScheduledInv, ControlInv, TypeInv
<1> USE DEF ScheduledInv, DirtyIsScheduled
\* A timer that is armed where none was, or that was there already, will fire.
<1>a. ScheduleFlush => timers' > 0
  BY <1>0 DEF ScheduleFlush, HandlesArmed, TypeOK
<1>1. CASE Start
  BY <1>1 DEF Start
<1>2. CASE Opened
  BY <1>2, <1>a DEF Opened
<1>3. ASSUME NEW f \in Files, Mutate(f) PROVE DirtyIsScheduled'
  BY <1>3, <1>a DEF Mutate
<1>4. CASE TimerFires \/ RetryFires
  BY <1>0, <1>4, ChainGrows
  DEF TimerFires, RetryFires, AutoFlush, Usable, memVars
<1>5. CASE FlushCall \/ CloseCall
  BY <1>0, <1>5, ChainGrows DEF FlushCall, CloseCall
<1>6. CASE BeginRound
  BY <1>6 DEF BeginRound
<1>7. ASSUME NEW f \in Files, ThreadStep(f) PROVE DirtyIsScheduled'
  BY <1>7 DEF ThreadStep, OpenTmp, WriteTmp, RenameTmp, memVars, timerVars,
              chainVars, ghostVars
<1>8. ASSUME NEW f \in Files, JobFails(f) PROVE DirtyIsScheduled'
  BY <1>8 DEF JobFails, ControlInv, JobsOfTask
<1>9. CASE Resolve
  BY <1>9 DEF Resolve, Drained, memVars
\* An automatic flush that gives up leaves a retry; another one is known to
\* have failed.
<1>10. CASE Reject
  <2>1. CASE Head(chain).kind = "auto"
    <3>1. status' = status
      BY <1>10, <2>1 DEF Reject
    <3>2. status # "closed" => retryTimers' > 0
      BY <1>0, <1>10, <2>1 DEF Reject, ArmsRetry, HandlesArmed, TypeOK
    <3> QED BY <3>1, <3>2
  <2>2. CASE Head(chain).kind # "auto"
    BY <1>10, <2>2 DEF Reject
  <2> QED BY <2>1, <2>2
<1>11. CASE ExitHook
  BY <1>11 DEF ExitHook
<1>12. ASSUME NEW f \in Files, SyncWrite(f) \/ SyncRename(f)
       PROVE  DirtyIsScheduled'
  BY <1>12 DEF SyncWrite, SyncRename, memVars, timerVars, chainVars, ghostVars
<1>13. CASE SyncAborts
  BY <1>13 DEF SyncAborts
<1>14. CASE HookEnds \/ Crash
  BY <1>14 DEF HookEnds, Crash, ProcessEnds
<1>15. CASE UNCHANGED vars
  BY <1>15 DEF vars, memVars, timerVars, chainVars, ghostVars
<1> QED
  BY <1>1, <1>2, <1>3, <1>4, <1>5, <1>6, <1>7, <1>8, <1>9, <1>10, <1>11, <1>12,
     <1>13, <1>14, <1>15
  DEF Next

\* Dirty data of an open store has a timer, a retry or a task coming for it,
\* or an explicit flush has failed.
THEOREM AlwaysScheduled == Spec => []DirtyIsScheduled
<1>1. Init => ScheduledInv
  BY ControlInit DEF Init, ScheduledInv, DirtyIsScheduled
<1>2. ScheduledInv => DirtyIsScheduled
  BY DEF ScheduledInv
<1> QED BY <1>1, <1>2, ScheduledStep, PTL DEF Spec

(***************************************************************************)
(* Contents.  While the store is open, memory is ahead of the files, and a *)
(* snapshot between the two; one that is stale has its collection dirty.   *)
(***************************************************************************)

NewProcess ==
  /\ status = "down" => dirty = {}
  /\ status = "opening" => \A f \in Files : f \notin dirty => mem[f] = 0

Written ==
  \A f \in Files :
    mem[f] <= clock /\ snap[f] <= clock /\ tmp[f] <= clock /\ file[f] <= clock

MemoryAhead ==
  /\ status = "opening" => \A f \in Files : f \in dirty => file[f] <= mem[f]
  /\ status \in {"open", "closed"} => \A f \in Files : file[f] <= mem[f]

Snapshots ==
  status \in {"open", "closed"} =>
    \A f \in Files : job[f] # "none" =>
      /\ file[f] <= snap[f] /\ snap[f] <= mem[f]
      /\ snap[f] = mem[f] \/ f \in dirty
      /\ job[f] = "rename" => tmp[f] = snap[f]

DataParts ==
  NewProcess /\ Written /\ MemoryAhead /\ Snapshots /\ NothingForgotten

DataInv == ControlInv /\ DataParts

LEMMA DataInit == Init => DataInv
BY ControlInit
DEF Init, DataInv, DataParts, NewProcess, Written, MemoryAhead, Snapshots,
    NothingForgotten, Gone

LEMMA Numbers ==
  ASSUME TypeOK
  PROVE  /\ clock \in Nat
         /\ \A f \in Files :
              /\ mem[f] \in Nat /\ snap[f] \in Nat
              /\ tmp[f] \in Nat \cup {Torn, Gone}
              /\ file[f] \in Nat \cup {Torn}
         /\ Torn = -1 /\ Gone = -2
BY DEF TypeOK, Content, Torn, Gone

LEMMA DataStep == DataInv /\ [Next]_vars => DataInv'
<1> SUFFICES ASSUME DataInv, [Next]_vars PROVE DataParts'
  BY ControlStep DEF DataInv
<1>0. TypeOK /\ ControlInv
  BY DEF DataInv, ControlInv, TypeInv
<1>a. TypeOK'
  BY ControlStep, <1>0 DEF ControlInv, TypeInv
<1> USE DEF DataInv, DataParts, NewProcess, Written, MemoryAhead, Snapshots,
            NothingForgotten
<1>1. CASE Start
  BY <1>0, <1>1, Numbers DEF Start, ControlInv, NoTaskBefore, JobsOfTask
<1>2. CASE Opened
  <2>1. \A f \in Files : job'[f] = "none"
    BY <1>0, <1>2 DEF Opened, ControlInv, NoTaskBefore, JobsOfTask
  <2>2. \A f \in Files :
          /\ mem'[f] = Loaded(f)
          /\ file'[f] = IF file[f] = Torn THEN 0 ELSE file[f]
    BY <1>2 DEF Opened
  <2>3. \A f \in Files : /\ file'[f] <= mem'[f]
                         /\ f \in dirty \/ file'[f] = mem'[f]
    BY <1>0, <1>2, <2>2, Numbers DEF Opened, Loaded
  <2>4. \A f \in Files : mem'[f] <= clock /\ file'[f] <= clock
    BY <1>0, <2>2, Numbers DEF Loaded
  <2> QED BY <1>2, <2>1, <2>3, <2>4 DEF Opened, ghostVars
<1>3. ASSUME NEW f \in Files, Mutate(f) PROVE DataParts'
  <2>1. /\ UNCHANGED <<status, job, snap, tmp, file>>
        /\ clock' = clock + 1
        /\ dirty' = dirty \cup {f}
        /\ status \in {"opening", "open"}
    BY <1>3 DEF Mutate, Marked, diskVars
  <2>2. /\ mem'[f] = clock + 1
        /\ \A g \in Files : g # f => mem'[g] = mem[g]
    BY <1>0, <1>3 DEF Mutate, TypeOK
  <2>3. Written' /\ MemoryAhead'
    BY <1>0, <2>1, <2>2, Numbers
  <2>4. NewProcess' /\ Snapshots' /\ NothingForgotten'
    BY <1>0, <2>1, <2>2, Numbers
  <2> QED BY <2>3, <2>4
<1>4. ASSUME UNCHANGED <<status, memVars, diskVars, clock>> PROVE DataParts'
  BY <1>4 DEF memVars, diskVars
<1>5. CASE BeginRound
  <2>1. /\ \A f \in Files : job[f] = "none"
        /\ \A f \in Files : job'[f] # "none" => job'[f] = "open" /\ f \in dirty
        /\ \A f \in Files : f \in dirty => snap'[f] = mem[f] /\ job'[f] = "open"
        /\ \A f \in Files : snap'[f] = mem[f] \/ snap'[f] = snap[f]
    BY <1>5 DEF BeginRound, Running, Idle
  <2>2. /\ status \in {"open", "closed"}
        /\ UNCHANGED <<status, mem, tmp, file, clock>>
    BY <1>5 DEF BeginRound, Running, ghostVars
  <2>3. NewProcess' /\ Written' /\ MemoryAhead'
    BY <2>1, <2>2
  <2>4. Snapshots' /\ NothingForgotten'
    BY <1>0, <2>1, <2>2, Numbers
  <2> QED BY <2>3, <2>4
<1>6. ASSUME NEW f \in Files, OpenTmp(f) PROVE DataParts'
  <2>1. /\ UNCHANGED <<status, dirty, mem, snap, file, clock>>
        /\ job[f] = "open"
        /\ \A g \in Files : g # f => job'[g] = job[g] /\ tmp'[g] = tmp[g]
        /\ tmp'[f] = Torn
        /\ status # "dying" => job'[f] = "write"
    BY <1>0, <1>6 DEF OpenTmp, Submitted, Following, TypeOK, memVars, ghostVars
  <2> QED BY <1>0, <2>1, Numbers
<1>7. ASSUME NEW f \in Files, WriteTmp(f) PROVE DataParts'
  <2>1. /\ UNCHANGED <<status, dirty, mem, snap, clock>>
        /\ job[f] = "write"
        /\ \A g \in Files : g # f => job'[g] = job[g]
        /\ status # "dying" => job'[f] = "rename"
    BY <1>0, <1>7
    DEF WriteTmp, Submitted, Following, TypeOK, memVars, ghostVars
  <2>2. \A g \in Files :
          /\ tmp'[g] = tmp[g] \/ tmp'[g] = snap[g] \/ tmp'[g] = Torn
          /\ file'[g] = file[g] \/ file'[g] = snap[g] \/ file'[g] = Torn
          /\ g # f => tmp'[g] = tmp[g]
    BY <1>0, <1>7 DEF WriteTmp, TypeOK
  <2>3. CASE status = "dying"
    BY <1>0, <2>1, <2>2, <2>3, Numbers
  <2>4. CASE status # "dying"
    <3>1. f \notin moved /\ f # syncAt
      BY <1>0, <2>4, StoreAssumption DEF ControlInv, HookQuiet
    <3>2. tmp'[f] = snap[f] /\ UNCHANGED file
      BY <1>0, <1>7, <3>1 DEF WriteTmp, TypeOK
    <3>3. \A g \in Files : tmp'[g] <= clock /\ file'[g] = file[g]
      BY <1>0, <2>2, <3>2, Numbers
    <3>4. NewProcess' /\ Written' /\ MemoryAhead' /\ NothingForgotten'
      BY <1>0, <2>1, <3>3
    <3>5. Snapshots'
      BY <1>0, <2>1, <2>2, <3>2, <3>3
    <3> QED BY <3>4, <3>5
  <2> QED BY <2>3, <2>4
<1>8. ASSUME NEW f \in Files, RenameTmp(f) PROVE DataParts'
  <2>1. /\ UNCHANGED <<status, dirty, mem, snap, clock>>
        /\ job[f] = "rename"
        /\ \A g \in Files : g # f => /\ job'[g] = job[g]
                                     /\ tmp'[g] = tmp[g]
                                     /\ file'[g] = file[g]
        /\ tmp'[f] = Gone
        /\ file'[f] = IF tmp[f] = Gone THEN file[f] ELSE tmp[f]
        /\ status # "dying" => job'[f] = "none"
    BY <1>0, <1>8 DEF RenameTmp, TypeOK, memVars, ghostVars
  <2>2. Written'
    BY <1>0, <2>1, Numbers
  <2>3. status \in {"open", "closed"} => file'[f] = snap[f]
    BY <1>0, <2>1, Numbers
  <2>4. status \notin {"down", "opening"}
    BY <1>0, <2>1 DEF ControlInv, NoTaskBefore, JobsOfTask
  <2>5. NewProcess' /\ MemoryAhead'
    BY <1>0, <2>1, <2>3, <2>4, Numbers
  <2>6. Snapshots' /\ NothingForgotten'
    BY <1>0, <2>1, <2>3, <2>4, Numbers
  <2> QED BY <2>2, <2>5, <2>6
<1>9. ASSUME NEW f \in Files, JobFails(f) PROVE DataParts'
  <2>1. /\ UNCHANGED <<status, mem, snap, tmp, file, clock>>
        /\ status \in {"open", "closed"}
        /\ \A g \in Files : g # f => job'[g] = job[g]
        /\ job'[f] = "none"
        /\ dirty' = dirty \cup {f}
    BY <1>0, <1>9 DEF JobFails, Redirtied, TypeOK
  <2> QED BY <1>0, <2>1, Numbers
<1>10. ASSUME Resolve \/ Reject PROVE DataParts'
  <2>1. /\ status \in {"open", "closed"} /\ status' \in {"open", "closed"}
        /\ UNCHANGED <<mem, dirty, job, snap, tmp, file, clock>>
    BY <1>10 DEF Resolve, Reject, Running, memVars, diskVars
  <2> QED BY <2>1
<1>11. CASE ExitHook
  BY <1>11 DEF ExitHook, memVars, diskVars
<1>12. ASSUME NEW f \in Files, SyncWrite(f) \/ SyncRename(f) PROVE DataParts'
  <2>1. UNCHANGED <<status, dirty, mem, snap, clock, job>>
    BY <1>12 DEF SyncWrite, SyncRename, memVars, ghostVars
  <2>2. status = "dying"
    BY <1>0, <1>12, StoreAssumption
    DEF SyncWrite, SyncRename, ControlInv, HookQuiet
  <2>3. \A g \in Files :
          /\ tmp'[g] \in {tmp[g], mem[g], Gone}
          /\ file'[g] \in {file[g], tmp[g]}
    BY <1>0, <1>12 DEF SyncWrite, SyncRename, TypeOK
  <2> QED BY <1>0, <2>1, <2>2, <2>3, Numbers
<1>13. CASE SyncAborts
  BY <1>4, <1>13 DEF SyncAborts
<1>14. CASE HookEnds \/ Crash
  BY <1>14 DEF HookEnds, Crash, ProcessEnds
<1>15. CASE UNCHANGED vars
  BY <1>4, <1>15 DEF vars, ghostVars
<1>16. CASE TimerFires \/ RetryFires \/ FlushCall \/ CloseCall
  BY <1>4, <1>16 DEF TimerFires, RetryFires, FlushCall, CloseCall, ghostVars
<1> QED
  BY <1>1, <1>2, <1>3, <1>5, <1>6, <1>7, <1>8, <1>9, <1>10, <1>11, <1>12, <1>13,
     <1>14, <1>15, <1>16
  DEF Next, ThreadStep

\* Memory that differs from disk is marked dirty or is being written from a
\* snapshot that is current, whatever is mutated, fails or restarts meanwhile.
THEOREM ForgetsNothing == Spec => []NothingForgotten
<1>1. DataInv => NothingForgotten
  BY DEF DataInv, DataParts
<1> QED BY <1>1, DataInit, DataStep, PTL DEF Spec

(***************************************************************************)
(* Ends.  While the exit hook runs, a file that the thread pool was not    *)
(* given is the hook's alone: its .tmp is what the hook wrote.             *)
(***************************************************************************)

HookWorks ==
  status = "dying" =>
    \A f \in Files : f \notin overlap =>
      /\ job[f] = "none"
      /\ file[f] <= mem[f]
      /\ syncAt = f => tmp[f] = mem[f]
      /\ exitBy = "hook" /\ f \notin sync => file[f] = mem[f]

EndParts == HookWorks /\ WholeFiles /\ HookSaves

EndInv == DataInv /\ EndParts

\* Until the exit hook runs, the thread pool writes to .tmp files only and
\* renames whole ones.
LEMMA ThreadOutsideHook ==
  ASSUME DataInv, NEW f \in Files, ThreadStep(f), status # "dying"
  PROVE  \A g \in Files : \/ file'[g] = file[g]
                          \/ g = f /\ job[f] = "rename" /\ file'[g] = snap[g]
<1>0. TypeOK /\ ControlInv
  BY DEF DataInv, ControlInv, TypeInv
<1>1. CASE OpenTmp(f)
  BY <1>1 DEF OpenTmp
<1>2. CASE WriteTmp(f)
  <2>1. f \notin moved
    BY <1>0 DEF ControlInv, HookQuiet
  <2> QED BY <1>2, <2>1 DEF WriteTmp
<1>3. CASE RenameTmp(f)
  <2>1. job[f] = "rename" /\ job[f] # "none"
    BY <1>3 DEF RenameTmp
  <2>2. status \in {"open", "closed"}
    BY <1>0, <2>1 DEF ControlInv, NoTaskBefore, JobsOfTask, TypeOK
  <2>3. tmp[f] = snap[f]
    BY <2>1, <2>2 DEF DataInv, DataParts, Snapshots
  <2>4. tmp[f] # Gone
    BY <1>0, <2>3, Numbers
  <2> QED BY <1>0, <1>3, <2>1, <2>3, <2>4 DEF RenameTmp, TypeOK
<1> QED BY <1>1, <1>2, <1>3 DEF ThreadStep

\* What a step of the thread pool leaves alone.
LEMMA ThreadFrame ==
  ASSUME TypeOK, NEW f \in Files, ThreadStep(f)
  PROVE  /\ job[f] # "none"
         /\ UNCHANGED <<status, mem, sync, syncAt, overlap, exitBy, chain, acked>>
         /\ \A g \in Files : g # f => /\ job'[g] = job[g]
                                      /\ tmp'[g] = tmp[g]
                                      /\ file'[g] = file[g]
<1>1. CASE OpenTmp(f)
  BY <1>1 DEF OpenTmp, TypeOK, memVars, chainVars, exitVars, ghostVars
<1>2. CASE WriteTmp(f)
  BY <1>2 DEF WriteTmp, TypeOK, memVars, chainVars, exitVars, ghostVars
<1>3. CASE RenameTmp(f)
  BY <1>3 DEF RenameTmp, TypeOK, memVars, chainVars, exitVars, ghostVars
<1> QED BY <1>1, <1>2, <1>3 DEF ThreadStep

LEMMA EndStep == EndInv /\ [Next]_vars => EndInv'
<1> SUFFICES ASSUME EndInv, [Next]_vars PROVE EndParts'
  BY DataStep DEF EndInv
<1>0. TypeOK /\ ControlInv /\ DataInv
  BY DEF EndInv, DataInv, ControlInv, TypeInv
<1> USE DEF EndInv, EndParts, HookWorks, WholeFiles, HookSaves
<1>1. CASE Start
  BY <1>1 DEF Start
<1>2. CASE Opened
  <2>1. \A f \in Files : file'[f] # Torn
    BY <1>0, <1>2, Numbers DEF Opened
  <2> QED BY <1>2, <2>1 DEF Opened
<1>3. ASSUME NEW f \in Files, Mutate(f) PROVE EndParts'
  BY <1>3 DEF Mutate, diskVars
<1>4. ASSUME \/ UNCHANGED <<status, mem, job, tmp, file, sync, syncAt, overlap,
                            exitBy>>
             \/ /\ status \notin {"down", "dying"}
                /\ status' \notin {"down", "dying"}
                /\ UNCHANGED <<file, overlap>>
      PROVE  EndParts'
  BY <1>4
<1>5. CASE TimerFires \/ RetryFires \/ FlushCall \/ CloseCall
  BY <1>4, <1>5
  DEF TimerFires, RetryFires, FlushCall, CloseCall, memVars, diskVars, exitVars,
      ghostVars
<1>6. CASE BeginRound \/ Resolve \/ Reject
  BY <1>4, <1>6
  DEF BeginRound, Resolve, Reject, Running, diskVars, ghostVars
<1>7. ASSUME NEW f \in Files, ThreadStep(f) PROVE EndParts'
  <2>1. CASE status = "dying"
    <3>1. f \in overlap
      BY <1>0, <1>7, <2>1, ThreadFrame
    <3> QED BY <1>0, <1>7, <2>1, <3>1, ThreadFrame
  <2>2. CASE status # "dying"
    <3>1. \A g \in Files : file'[g] = Torn => file[g] = Torn
      BY <1>0, <1>7, <2>2, ThreadOutsideHook, Numbers
    <3>2. status # "down"
      BY <1>0, <1>7, ThreadFrame DEF ControlInv, NoTaskBefore, JobsOfTask
    <3> QED BY <1>0, <1>7, <2>2, <3>1, <3>2, ThreadFrame
  <2> QED BY <2>1, <2>2
<1>8. ASSUME NEW f \in Files, JobFails(f) PROVE EndParts'
  BY <1>4, <1>8 DEF JobFails
<1>9. CASE ExitHook
  <2>1. ASSUME NEW f \in Files, f \notin overlap'
        PROVE  /\ job'[f] = "none"
               /\ file'[f] <= mem'[f]
               /\ syncAt' # f
               /\ f \notin sync' => file'[f] = mem'[f]
    <3>1. job[f] = "none"
      BY <1>9, <2>1 DEF ExitHook
    <3>2. syncAt = None
      BY <1>0, <1>9 DEF ExitHook, ControlInv, HookQuiet
    <3>3. file[f] <= mem[f] /\ (f \notin dirty => file[f] = mem[f])
      BY <1>0, <1>9, <3>1
      DEF ExitHook, DataInv, DataParts, MemoryAhead, NothingForgotten
    <3> QED
      BY <1>9, <3>1, <3>2, <3>3, StoreAssumption
      DEF ExitHook, SyncJobs, memVars, diskVars
  <2>2. WholeFiles'
    BY <1>9 DEF ExitHook, diskVars
  <2>3. status' = "dying"
    BY <1>9 DEF ExitHook
  <2> QED BY <2>1, <2>2, <2>3
<1>10. ASSUME NEW f \in Files, SyncWrite(f) PROVE EndParts'
  BY <1>0, <1>10 DEF SyncWrite, TypeOK, memVars, ghostVars
<1>11. ASSUME NEW f \in Files, SyncRename(f) PROVE EndParts'
  <2>1. status = "dying"
    BY <1>0, <1>11, StoreAssumption DEF SyncRename, ControlInv, HookQuiet
  <2>2. /\ UNCHANGED <<status, mem, job, overlap, exitBy>>
        /\ syncAt = f /\ syncAt' = None
        /\ sync' = sync \ {f}
        /\ file'[f] = tmp[f]
        /\ \A g \in Files : g # f => file'[g] = file[g]
    BY <1>0, <1>11 DEF SyncRename, TypeOK, memVars, ghostVars
  <2>3. f \notin overlap => file'[f] = mem[f] /\ file'[f] # Torn
    BY <1>0, <2>1, <2>2, Numbers
  <2> QED BY <1>0, <2>1, <2>2, <2>3, Numbers, StoreAssumption
<1>12. CASE SyncAborts
  BY <1>12, StoreAssumption DEF SyncAborts, memVars, diskVars
<1>13. CASE HookEnds
  BY <1>13 DEF HookEnds, ProcessEnds
<1>14. CASE Crash
  BY <1>14 DEF Crash, ProcessEnds
<1>15. CASE UNCHANGED vars
  BY <1>4, <1>15 DEF vars, memVars, diskVars, exitVars, ghostVars
<1> QED
  BY <1>1, <1>2, <1>3, <1>5, <1>6, <1>7, <1>8, <1>9, <1>10, <1>11, <1>12, <1>13,
     <1>14, <1>15
  DEF Next

LEMMA EndInvariant == Spec => []EndInv
<1>1. Init => EndInv
  BY DataInit, StoreAssumption
  DEF Init, EndInv, EndParts, HookWorks, WholeFiles, HookSaves, Torn
<1> QED BY <1>1, EndStep, PTL DEF Spec

\* Only a file that the thread pool was writing when an exit hook ran can be
\* left in part.
THEOREM FilesStayWhole == Spec => []WholeFiles
<1>1. EndInv => WholeFiles
  BY DEF EndInv, EndParts
<1> QED BY <1>1, EndInvariant, PTL

\* A process that ends through its hook has saved every other file.
THEOREM ExitSaves == Spec => []HookSaves
<1>1. EndInv => HookSaves
  BY DEF EndInv, EndParts
<1> QED BY <1>1, EndInvariant, PTL

(***************************************************************************)
(* Order.  Contents only move forward, so what a flush found in memory     *)
(* when it was called is on disk when it succeeds, and stays there.        *)
(***************************************************************************)

Forward ==
  \A f \in Files :
    /\ f \notin overlap' => file'[f] >= file[f]
    /\ status # "down" => mem'[f] >= mem[f]

LEMMA ForwardStep == EndInv /\ [Next]_vars => Forward
<1> SUFFICES ASSUME EndInv, [Next]_vars PROVE Forward
  OBVIOUS
<1>0. TypeOK /\ ControlInv /\ DataInv /\ DataParts
  BY DEF EndInv, DataInv, ControlInv, TypeInv
<1> USE DEF Forward
<1>1. CASE Start
  BY <1>0, <1>1, Numbers DEF Start
<1>2. CASE Opened
  <2>1. \A f \in Files :
          /\ mem'[f] = Loaded(f)
          /\ file'[f] = IF file[f] = Torn THEN 0 ELSE file[f]
    BY <1>2 DEF Opened
  <2>2. \A f \in Files : f \notin dirty => mem[f] = 0
    BY <1>0, <1>2 DEF Opened, DataParts, NewProcess
  <2> QED BY <1>0, <2>1, <2>2, Numbers DEF Loaded
<1>3. ASSUME NEW f \in Files, Mutate(f) PROVE Forward
  <2>1. \A g \in Files : mem'[g] = mem[g] \/ mem'[g] = clock + 1
    BY <1>0, <1>3 DEF Mutate, TypeOK
  <2>2. UNCHANGED file
    BY <1>3 DEF Mutate, diskVars
  <2> QED BY <1>0, <2>1, <2>2, Numbers DEF DataParts, Written
<1>4. ASSUME UNCHANGED <<mem, file>> PROVE Forward
  BY <1>0, <1>4, Numbers
<1>5. CASE TimerFires \/ RetryFires \/ FlushCall \/ CloseCall
  BY <1>4, <1>5
  DEF TimerFires, RetryFires, FlushCall, CloseCall, memVars, diskVars
<1>6. CASE BeginRound \/ Resolve \/ Reject
  BY <1>4, <1>6 DEF BeginRound, Resolve, Reject, memVars, diskVars
<1>7. ASSUME NEW f \in Files, ThreadStep(f) PROVE Forward
  <2>1. mem' = mem /\ overlap' = overlap /\ job[f] # "none"
    BY <1>0, <1>7, ThreadFrame
  <2>2. \A g \in Files : g # f => file'[g] = file[g]
    BY <1>0, <1>7, ThreadFrame
  <2>3. CASE status = "dying"
    <3>1. f \in overlap
      BY <2>1, <2>3 DEF EndInv, EndParts, HookWorks
    <3> QED BY <1>0, <2>1, <2>2, <3>1, Numbers
  <2>4. CASE status # "dying"
    <3>1. status \in {"open", "closed"}
      BY <1>0, <2>1, <2>4 DEF ControlInv, NoTaskBefore, JobsOfTask, TypeOK
    <3>2. file[f] <= snap[f]
      BY <1>0, <2>1, <3>1 DEF DataParts, Snapshots
    <3>3. file'[f] = file[f] \/ file'[f] = snap[f]
      BY <1>0, <1>7, <2>4, ThreadOutsideHook
    <3> QED BY <1>0, <2>1, <2>2, <3>2, <3>3, Numbers
  <2> QED BY <2>3, <2>4
<1>8. ASSUME NEW f \in Files, JobFails(f) PROVE Forward
  BY <1>4, <1>8 DEF JobFails
<1>9. CASE ExitHook \/ SyncAborts
  BY <1>4, <1>9 DEF ExitHook, SyncAborts, memVars, diskVars
<1>10. ASSUME NEW f \in Files, SyncWrite(f) PROVE Forward
  BY <1>4, <1>10 DEF SyncWrite, memVars
<1>11. ASSUME NEW f \in Files, SyncRename(f) PROVE Forward
  <2>1. status = "dying"
    BY <1>0, <1>11, StoreAssumption DEF SyncRename, ControlInv, HookQuiet
  <2>2. /\ mem' = mem /\ overlap' = overlap /\ syncAt = f
        /\ file'[f] = tmp[f]
        /\ \A g \in Files : g # f => file'[g] = file[g]
    BY <1>0, <1>11 DEF SyncRename, TypeOK, memVars, ghostVars
  <2>3. f \notin overlap => tmp[f] = mem[f] /\ file[f] <= mem[f]
    BY <2>1, <2>2 DEF EndInv, EndParts, HookWorks
  <2> QED BY <1>0, <2>2, <2>3, Numbers
<1>12. CASE HookEnds \/ Crash
  BY <1>4, <1>12 DEF HookEnds, Crash, ProcessEnds
<1>13. CASE UNCHANGED vars
  BY <1>4, <1>13 DEF vars, memVars, diskVars
<1> QED
  BY <1>1, <1>2, <1>3, <1>5, <1>6, <1>7, <1>8, <1>9, <1>10, <1>11, <1>12, <1>13
  DEF Next

\* Snapshots reach the disk in order, and loading leaves alone what was
\* written while the store was opening.
THEOREM ContentsMoveForward == Spec => NothingGoesBack
<1>1. EndInv /\ [Next]_vars => [Forward]_vars
  BY ForwardStep
<1>2. Spec => [][Forward]_vars
  BY <1>1, EndInvariant, PTL DEF Spec
<1> QED BY <1>2 DEF NothingGoesBack, Forward

\* What a caller was promised is in memory until the task is done.
FloorsInMemory ==
  \A i \in 1..Len(chain) : \A f \in Files : chain[i].floor[f] <= mem[f]

AckedInv == EndInv /\ FloorsInMemory /\ AckedSurvive

LEMMA AppendKeepsFloors ==
  ASSUME TypeOK, FloorsInMemory, mem' = mem,
         NEW kind \in {"auto", "flush", "close"},
         chain' = chain \/ chain' = Append(chain, Task(kind))
  PROVE  FloorsInMemory'
<1>1. chain \in Seq(Tasks)
  BY DEF TypeOK
<1>2. Task(kind) \in Tasks
  BY TaskIsOne
<1>3. \A f \in Files : Task(kind).floor[f] <= mem[f]
  BY Numbers DEF Task
<1>4. CASE chain' = chain
  BY <1>4 DEF FloorsInMemory
<1>5. CASE chain' = Append(chain, Task(kind))
  <2>1. /\ Len(chain') = Len(chain) + 1
        /\ \A i \in 1..Len(chain) : chain'[i] = chain[i]
        /\ chain'[Len(chain) + 1] = Task(kind)
    BY <1>1, <1>2, <1>5, AppendProperties
  <2>2. Len(chain) \in Nat
    BY <1>1
  <2> QED BY <1>3, <2>1, <2>2 DEF FloorsInMemory
<1> QED BY <1>4, <1>5

LEMMA TailKeepsFloors ==
  ASSUME TypeOK, FloorsInMemory, mem' = mem, chain # <<>>,
         chain' = Tail(chain)
  PROVE  FloorsInMemory'
<1>1. chain \in Seq(Tasks)
  BY DEF TypeOK
<1>2. /\ Len(chain') = Len(chain) - 1
      /\ \A i \in 1..Len(chain') : chain'[i] = chain[i + 1]
  BY <1>1, HeadTailProperties
<1>3. Len(chain) \in Nat
  BY <1>1
<1> QED BY <1>2, <1>3 DEF FloorsInMemory

LEMMA FloorsStep ==
  AckedInv /\ [Next]_vars => FloorsInMemory'
<1> SUFFICES ASSUME AckedInv, [Next]_vars PROVE FloorsInMemory'
  OBVIOUS
<1>0. TypeOK /\ ControlInv /\ DataInv /\ EndInv /\ FloorsInMemory
  BY DEF AckedInv, EndInv, DataInv, ControlInv, TypeInv
<1>1. ASSUME chain' = <<>> PROVE FloorsInMemory'
  BY <1>1 DEF FloorsInMemory
<1>2. ASSUME chain' = chain, status # "down" PROVE FloorsInMemory'
  <2>1. \A f \in Files : mem'[f] >= mem[f] /\ mem'[f] \in Nat /\ mem[f] \in Nat
    <3>1. TypeOK'
      BY TypeStep, <1>0 DEF ControlInv, TypeInv
    <3>2. \A f \in Files : mem'[f] \in Nat
      BY <3>1 DEF TypeOK, Content
    <3> QED BY <1>0, <1>2, <3>2, ForwardStep, Numbers DEF Forward
  <2>2. \A i \in 1..Len(chain) : \A f \in Files : chain[i].floor[f] \in Nat
    <3>1. chain \in Seq(Tasks)
      BY <1>0 DEF TypeOK
    <3>2. \A i \in 1..Len(chain) : chain[i] \in Tasks
      BY <3>1
    <3> QED BY <3>2 DEF Tasks, Content
  <2> QED BY <1>0, <1>2, <2>1, <2>2 DEF FloorsInMemory
<1>3. CASE Start \/ Opened
  <2>1. chain' = <<>>
    BY <1>0, <1>3 DEF Start, Opened, chainVars, ControlInv, NoTaskBefore
  <2> QED BY <1>1, <2>1
<1>4. ASSUME NEW f \in Files, Mutate(f) PROVE FloorsInMemory'
  BY <1>2, <1>4 DEF Mutate, chainVars
<1>5. CASE TimerFires \/ RetryFires
  <2>1. /\ mem' = mem
        /\ chain' = chain \/ chain' = Append(chain, Task("auto"))
    BY <1>5 DEF TimerFires, RetryFires, AutoFlush, memVars
  <2> QED BY <1>0, <2>1, AppendKeepsFloors
<1>6. CASE FlushCall
  <2>1. mem' = mem /\ chain' = Append(chain, Task("flush"))
    BY <1>6 DEF FlushCall, memVars
  <2> QED BY <1>0, <2>1, AppendKeepsFloors
<1>7. CASE CloseCall
  <2>1. mem' = mem /\ chain' = Append(chain, Task("close"))
    BY <1>7 DEF CloseCall, memVars
  <2> QED BY <1>0, <2>1, AppendKeepsFloors
<1>8. CASE BeginRound
  BY <1>2, <1>8 DEF BeginRound, Running
<1>9. ASSUME NEW f \in Files, ThreadStep(f) PROVE FloorsInMemory'
  BY <1>0, <1>9, ThreadFrame DEF FloorsInMemory
<1>10. ASSUME NEW f \in Files, JobFails(f) PROVE FloorsInMemory'
  BY <1>2, <1>10 DEF JobFails
<1>11. CASE Resolve \/ Reject
  <2>1. mem' = mem /\ chain # <<>> /\ chain' = Tail(chain)
    BY <1>11 DEF Resolve, Reject, Running, NextTask, memVars
  <2> QED BY <1>0, <2>1, TailKeepsFloors
<1>12. CASE ExitHook \/ SyncAborts
  BY <1>2, <1>12 DEF ExitHook, SyncAborts, chainVars
<1>13. ASSUME NEW f \in Files, SyncWrite(f) \/ SyncRename(f)
       PROVE  FloorsInMemory'
  <2>1. mem' = mem /\ chain' = chain
    BY <1>13 DEF SyncWrite, SyncRename, memVars, chainVars
  <2> QED BY <1>0, <2>1 DEF FloorsInMemory
<1>14. CASE HookEnds \/ Crash
  BY <1>1, <1>14 DEF HookEnds, Crash, ProcessEnds
<1>15. CASE UNCHANGED vars
  BY <1>0, <1>15 DEF vars, memVars, chainVars, FloorsInMemory
<1> QED
  BY <1>3, <1>4, <1>5, <1>6, <1>7, <1>8, <1>9, <1>10, <1>11, <1>12, <1>13,
     <1>14, <1>15
  DEF Next

\* Nothing but the success of a flush() or close() acknowledges anything.
LEMMA AckedFrame ==
  ASSUME [Next]_vars, TypeOK
  PROVE  /\ overlap \subseteq overlap'
         /\ acked' = acked \/ Resolve
<1>1. CASE Start \/ Opened \/ TimerFires \/ RetryFires \/ FlushCall \/ CloseCall
  BY <1>1
  DEF Start, Opened, TimerFires, RetryFires, FlushCall, CloseCall, ghostVars
<1>2. CASE BeginRound \/ Resolve \/ Reject
  BY <1>2 DEF BeginRound, Resolve, Reject, ghostVars
<1>3. ASSUME NEW f \in Files, Mutate(f) \/ JobFails(f)
      PROVE  overlap' = overlap /\ acked' = acked
  BY <1>3 DEF Mutate, JobFails
<1>4. ASSUME NEW f \in Files, ThreadStep(f)
      PROVE  overlap' = overlap /\ acked' = acked
  BY <1>4, ThreadFrame
<1>5. CASE ExitHook \/ SyncAborts \/ HookEnds \/ Crash
  BY <1>5 DEF ExitHook, SyncAborts, HookEnds, Crash, ProcessEnds
<1>6. ASSUME NEW f \in Files, SyncWrite(f) \/ SyncRename(f)
      PROVE  overlap' = overlap /\ acked' = acked
  BY <1>6 DEF SyncWrite, SyncRename, ghostVars
<1>7. CASE UNCHANGED vars
  BY <1>7 DEF vars, ghostVars
<1> QED BY <1>1, <1>2, <1>3, <1>4, <1>5, <1>6, <1>7 DEF Next

LEMMA AckedStep == AckedInv /\ [Next]_vars => AckedInv'
<1> SUFFICES ASSUME AckedInv, [Next]_vars PROVE AckedSurvive'
  BY EndStep, FloorsStep DEF AckedInv
<1>0. /\ TypeOK /\ TypeOK' /\ DataParts /\ EndInv
      /\ FloorsInMemory /\ AckedSurvive
  BY TypeStep DEF AckedInv, EndInv, DataInv, ControlInv, TypeInv
<1>1. /\ overlap \subseteq overlap'
      /\ acked' = acked \/ Resolve
  BY <1>0, AckedFrame
<1>2. \A f \in Files : acked[f] \in Nat
  BY <1>0 DEF TypeOK, Content
<1>3. CASE acked' = acked
  <2>1. \A f \in Files : f \notin overlap' => file'[f] >= file[f]
    BY <1>0, ForwardStep DEF Forward
  <2>2. \A f \in Files : file[f] \in Int /\ file'[f] \in Int
    <3>1. /\ file \in [Files -> Content \cup {Torn}]
          /\ file' \in [Files -> Content \cup {Torn}]
      BY <1>0 DEF TypeOK
    <3>2. Content \cup {Torn} \subseteq Int
      BY StoreAssumption DEF Content, Torn
    <3> QED BY <3>1, <3>2
  <2> QED BY <1>0, <1>1, <1>2, <1>3, <2>1, <2>2 DEF AckedSurvive
<1>4. CASE Resolve
  <2>1. chain # <<>> /\ dirty = {} /\ \A f \in Files : job[f] = "none"
    BY <1>4 DEF Resolve, Running, Drained, Idle
  <2>2. \A f \in Files : mem[f] = file[f]
    BY <1>4, <1>0, <2>1 DEF Resolve, Running, DataParts, NothingForgotten
  <2>3. \A f \in Files : Head(chain).floor[f] <= mem[f]
    <3>1. Head(chain) = chain[1] /\ 1 \in 1..Len(chain)
      BY <1>0, <2>1 DEF TypeOK
    <3> QED BY <1>0, <3>1 DEF FloorsInMemory
  <2>4. \A f \in Files : Head(chain).floor[f] \in Nat
    BY <1>0, <2>1, HeadType DEF Content
  <2>5. file' = file
    BY <1>4 DEF Resolve, diskVars
  <2>6. \A f \in Files : acked'[f] \in {acked[f], Head(chain).floor[f]}
    BY <1>4 DEF Resolve, Larger
  <2> QED
    BY <1>0, <1>1, <1>2, <2>2, <2>3, <2>4, <2>5, <2>6, Numbers DEF AckedSurvive
<1> QED BY <1>1, <1>3, <1>4

\* What a flush() or close() that succeeded was called for is on disk, and
\* stays there over crashes and restarts, but for a file that an exit hook met.
THEOREM AcknowledgedStays == Spec => []AckedSurvive
<1>1. Init => AckedInv
  <2> SUFFICES ASSUME Init PROVE AckedInv
    OBVIOUS
  <2>1. EndInv
    BY DataInit, StoreAssumption
    DEF Init, EndInv, EndParts, HookWorks, WholeFiles, HookSaves, Torn
  <2> QED BY <2>1 DEF Init, AckedInv, FloorsInMemory, AckedSurvive
<1>2. AckedInv => AckedSurvive
  BY DEF AckedInv
<1> QED BY <1>1, <1>2, AckedStep, PTL DEF Spec

\* No change in memory is lost sight of before it is on disk.
THEOREM AllInSight == Spec => []ChangesInSight
<1>1. NothingForgotten /\ DirtyIsScheduled => ChangesInSight
  BY DEF ChangesInSight
<1> QED BY <1>1, ForgetsNothing, AlwaysScheduled, PTL

\* What was acknowledged, or had to be saved at the exit, is there to be loaded.
THEOREM KeptOverRestarts == Spec => []SavedIsKept
<1>1. AckedSurvive /\ HookSaves => SavedIsKept
  BY DEF SavedIsKept
<1> QED BY <1>1, AcknowledgedStays, ExitSaves, PTL
=============================================================================
