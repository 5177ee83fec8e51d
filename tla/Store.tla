------------------------------- MODULE Store -------------------------------
(***************************************************************************)
(* The document store: store/lightweight_store.js with the mutations of    *)
(* collection.js and the file operations of persister.js.                  *)
(*                                                                         *)
(* Callbacks run one at a time and file operations on the thread pool, so  *)
(* mutations, timers and calls interleave with each operation of each file *)
(* that is being written.  The hook for signals and exits keeps the main   *)
(* thread, while operations that were submitted before go on.  The process *)
(* may die at any time; what the file system was told survives.            *)
(*                                                                         *)
(* The server fixes one partition a collection: a collection is a file.    *)
(* The content of a collection is the number of the last mutation in it.   *)
(***************************************************************************)
EXTENDS Integers, Sequences

CONSTANTS
  Files,         \* collections of the store
  None,
  MaxVersion,    \* bound: mutations
  MaxFailures,   \* bound: file operations that fail
  MaxStarts,     \* bound: processes that open the store
  MaxCalls       \* bound: calls of flush(), and of close(), in a process

ASSUME StoreAssumption ==
  /\ None \notin Files
  /\ MaxVersion \in Nat /\ MaxFailures \in Nat
  /\ MaxStarts \in Nat /\ MaxCalls \in Nat

Torn == -1   \* a file that is truncated or written in part: not JSON
Gone == -2   \* no such file

VARIABLES
  status,       \* of the process and of its store
  mem,          \* content of a collection in memory
  dirty,        \* _dirty
  timer,        \* _timer is not null
  timers,       \* flush timers that will fire, the one _timer names included
  retryTimer,   \* _retryTimer is not null
  retryTimers,  \* retry timers that will fire
  chain,        \* _flushChain: the task that runs and those behind it
  rounds,       \* rounds the running task has begun
  failed,       \* a write of the round has failed
  job,          \* the operation of a file that the thread pool was given
  snap,         \* the snapshot that is being written to a file
  tmp,          \* the file's .tmp
  file,         \* the file itself
  sync,         \* files the exit hook has still to write
  syncAt,       \* the file whose .tmp it has written
  moved,        \* files it has renamed
  calls,        \* calls of flush() or close() so far
  \* The rest only records what happened, for the properties and the bounds.
  clock,        \* mutations so far
  acked,        \* content of a file when the last flush that succeeded began
  overlap,      \* files that were being written when an exit hook ran
  flushFailed,  \* an explicit flush has failed in this process
  exitBy,       \* how the last process ended
  failures,     \* file operations that failed
  starts        \* processes so far

memVars   == <<mem, dirty>>
timerVars == <<timer, timers, retryTimer, retryTimers>>
chainVars == <<chain, rounds, failed>>
diskVars  == <<job, snap, tmp, file>>
exitVars  == <<sync, syncAt, moved>>
ghostVars == <<clock, acked, overlap, flushFailed, exitBy, failures, starts>>
vars == <<status, memVars, timerVars, chainVars, diskVars, exitVars, calls,
          ghostVars>>

Content == 0..MaxVersion

\* Rounds a task may take.
Attempts == [auto |-> 1, flush |-> 3, close |-> 3]

Tasks == [kind : DOMAIN Attempts, floor : [Files -> Content]]

TypeOK ==
  /\ status \in {"down", "opening", "open", "closed", "dying"}
  /\ mem \in [Files -> Content]
  /\ dirty \subseteq Files
  /\ timer \in BOOLEAN /\ timers \in Nat
  /\ retryTimer \in BOOLEAN /\ retryTimers \in Nat
  /\ chain \in Seq(Tasks)
  /\ rounds \in 0..3
  /\ failed \in BOOLEAN
  /\ job \in [Files -> {"none", "open", "write", "rename", "halt"}]
  /\ snap \in [Files -> Content]
  /\ tmp \in [Files -> Content \cup {Torn, Gone}]
  /\ file \in [Files -> Content \cup {Torn}]
  /\ sync \subseteq Files
  /\ syncAt \in Files \cup {None}
  /\ moved \subseteq Files
  /\ calls \in 0..MaxCalls
  /\ clock \in Content
  /\ acked \in [Files -> Content]
  /\ overlap \subseteq Files
  /\ flushFailed \in BOOLEAN
  /\ exitBy \in {"none", "hook", "aborted", "crash"}
  /\ failures \in 0..MaxFailures
  /\ starts \in 0..MaxStarts

Init ==
  /\ status = "down"
  /\ mem = [f \in Files |-> 0] /\ dirty = {}
  /\ timer = FALSE /\ timers = 0
  /\ retryTimer = FALSE /\ retryTimers = 0
  /\ chain = <<>> /\ rounds = 0 /\ failed = FALSE
  /\ job = [f \in Files |-> "none"] /\ snap = [f \in Files |-> 0]
  /\ tmp = [f \in Files |-> Gone] /\ file = [f \in Files |-> 0]
  /\ sync = {} /\ syncAt = None /\ moved = {}
  /\ calls = 0
  /\ clock = 0 /\ acked = [f \in Files |-> 0] /\ overlap = {}
  /\ flushFailed = FALSE /\ exitBy = "none"
  /\ failures = 0 /\ starts = 0

Alive == status \in {"opening", "open", "closed"}
Usable == status = "open"
Idle == \A f \in Files : job[f] = "none"

-----------------------------------------------------------------------------
(***************************************************************************)
(* Opening and mutating.                                                   *)
(***************************************************************************)

\* A process creates the store and calls open(): old .tmp files go.
Start ==
  /\ status = "down"
  /\ starts < MaxStarts
  /\ status' = "opening"
  /\ mem' = [f \in Files |-> 0]
  /\ tmp' = [f \in Files |-> Gone]
  /\ starts' = starts + 1
  /\ exitBy' = "none"
  /\ UNCHANGED <<dirty, timerVars, chainVars, job, snap, file, exitVars, calls,
                 clock, acked, overlap, flushFailed, failures>>

\* clearTimeout of the timer that a handle names: how many are left to fire.
Cleared(handle, pending) == IF handle THEN pending - 1 ELSE pending

\* _scheduleFlush: one timer at a time, as far as the handle tells.
ScheduleFlush ==
  /\ timer' = TRUE
  /\ timers' = IF timer THEN timers ELSE timers + 1

\* What loading makes of the content of a collection: documents written while
\* opening win over those on disk.
\* Slip: the files are loaded over them.
LoadedOver(f) == IF file[f] = Torn THEN mem[f] ELSE file[f]
Loaded(f) == IF f \in dirty \/ file[f] = Torn THEN mem[f] ELSE file[f]

\* open() has loaded every file; one that does not parse was moved aside.
Opened ==
  /\ status = "opening"
  /\ status' = "open"
  /\ mem' = [f \in Files |-> Loaded(f)]
  /\ file' = [f \in Files |-> IF file[f] = Torn THEN 0 ELSE file[f]]
  /\ IF dirty # {} THEN ScheduleFlush ELSE UNCHANGED <<timer, timers>>
  /\ UNCHANGED <<dirty, retryTimer, retryTimers, chainVars, job, snap, tmp,
                 exitVars, calls, ghostVars>>

\* _onCollectionDirty: the collection is marked.
Marked(f) == dirty \cup {f}

\* insert, set, update, delete, deleteMany, clear: the collection changes and is
\* marked, which arms the timer.
Mutate(f) ==
  /\ status \in {"opening", "open"}
  /\ clock < MaxVersion
  /\ clock' = clock + 1
  /\ mem' = [mem EXCEPT ![f] = clock + 1]
  /\ dirty' = Marked(f)
  /\ ScheduleFlush
  /\ UNCHANGED <<status, retryTimer, retryTimers, chainVars, diskVars, exitVars,
                 calls, acked, overlap, flushFailed, exitBy, failures, starts>>

-----------------------------------------------------------------------------
(***************************************************************************)
(* Timers and calls put tasks on the chain.                                *)
(***************************************************************************)

\* floor: what a caller that waits for the task has been told is saved.
Task(kind) ==
  [kind |-> kind, floor |-> IF kind = "auto" THEN [f \in Files |-> 0] ELSE mem]

\* _autoFlush, called by a timer of either kind: nulls _timer, whether or not
\* it still names a timer, and starts a task if the store is open and dirty.
AutoFlush ==
  /\ timer' = FALSE
  /\ chain' = IF Usable /\ dirty # {}
              THEN Append(chain, Task("auto")) ELSE chain

TimerFires ==
  /\ Alive
  /\ timers > 0
  /\ timers' = timers - 1
  /\ AutoFlush
  /\ UNCHANGED <<status, memVars, retryTimer, retryTimers, rounds, failed,
                 diskVars, exitVars, calls, ghostVars>>

\* A retry timer nulls its handle, were it that of a later timer.
RetryFires ==
  /\ Alive
  /\ retryTimers > 0
  /\ retryTimers' = retryTimers - 1
  /\ retryTimer' = FALSE
  /\ AutoFlush
  /\ UNCHANGED <<status, memVars, timers, rounds, failed, diskVars, exitVars,
                 calls, ghostVars>>

FlushCall ==
  /\ Usable
  /\ calls < MaxCalls
  /\ calls' = calls + 1
  /\ timer' = FALSE
  /\ timers' = Cleared(timer, timers)
  /\ chain' = Append(chain, Task("flush"))
  /\ UNCHANGED <<status, memVars, retryTimer, retryTimers, rounds, failed,
                 diskVars, exitVars, ghostVars>>

CloseCall ==
  /\ Usable
  /\ calls < MaxCalls
  /\ calls' = calls + 1
  /\ timer' = FALSE
  /\ timers' = Cleared(timer, timers)
  /\ retryTimer' = FALSE
  /\ retryTimers' = Cleared(retryTimer, retryTimers)
  /\ chain' = Append(chain, Task("close"))
  /\ UNCHANGED <<status, memVars, rounds, failed, diskVars, exitVars,
                 ghostVars>>

-----------------------------------------------------------------------------
(***************************************************************************)
(* The task at the head of the chain: _drainDirty and _runFlushOnce.       *)
(***************************************************************************)

Running == status \in {"open", "closed"} /\ chain # <<>> /\ Idle

\* A round: snapshot what is dirty, give each file to the thread pool.
BeginRound ==
  /\ Running
  /\ ~failed
  /\ dirty # {}
  /\ rounds < Attempts[Head(chain).kind]
  /\ rounds' = rounds + 1
  /\ snap' = [f \in Files |-> IF f \in dirty THEN mem[f] ELSE snap[f]]
  /\ job' = [f \in Files |-> IF f \in dirty THEN "open" ELSE "none"]
  /\ dirty' = {}
  /\ UNCHANGED <<status, mem, timerVars, chain, failed, tmp, file, exitVars,
                 calls, ghostVars>>

\* The callback of an operation submits the next one of writeAtomic, unless
\* the exit hook keeps the main thread.
\* Slip: the write is not awaited.
WithoutWaiting(op) == IF op = "open" THEN "rename" ELSE op
Following(op) == IF op = "open" THEN "write" ELSE "rename"

Submitted(f) == IF status = "dying" THEN "halt" ELSE Following(job[f])

OpenTmp(f) ==
  /\ job[f] = "open"
  /\ job' = [job EXCEPT ![f] = Submitted(f)]
  /\ tmp' = [tmp EXCEPT ![f] = Torn]
  /\ UNCHANGED <<status, memVars, timerVars, chainVars, snap, file, exitVars,
                 calls, ghostVars>>

\* The write goes to the file that was opened, wherever it is by now, and over
\* what the exit hook wrote to it: longer content leaves its tail.
WriteTmp(f) ==
  /\ job[f] = "write"
  /\ job' = [job EXCEPT ![f] = Submitted(f)]
  /\ \E c \in {snap[f]} \cup (IF f = syncAt \/ f \in moved THEN {Torn} ELSE {}) :
       IF f \in moved
       THEN file' = [file EXCEPT ![f] = c] /\ UNCHANGED tmp
       ELSE tmp' = [tmp EXCEPT ![f] = c] /\ UNCHANGED file
  /\ UNCHANGED <<status, memVars, timerVars, chainVars, snap, exitVars, calls,
                 ghostVars>>

\* The rename ends the job; it does nothing when the exit hook has taken the
\* .tmp away.
RenameTmp(f) ==
  /\ job[f] = "rename"
  /\ job' = [job EXCEPT ![f] = IF status = "dying" THEN "halt" ELSE "none"]
  /\ file' = IF tmp[f] = Gone THEN file ELSE [file EXCEPT ![f] = tmp[f]]
  /\ tmp' = [tmp EXCEPT ![f] = Gone]
  /\ UNCHANGED <<status, memVars, timerVars, chainVars, snap, exitVars, calls,
                 ghostVars>>

\* A failed write marks its file dirty again.
\* Slip: it does not.
NotRedirtied(f) == dirty
Redirtied(f) == dirty \cup {f}

JobFails(f) ==
  /\ status \in {"open", "closed"}
  /\ job[f] \in {"open", "write", "rename"}
  /\ failures < MaxFailures
  /\ failures' = failures + 1
  /\ job' = [job EXCEPT ![f] = "none"]
  /\ dirty' = Redirtied(f)
  /\ failed' = TRUE
  /\ UNCHANGED <<status, mem, timerVars, chain, rounds, snap, tmp, file,
                 exitVars, calls, clock, acked, overlap, flushFailed, exitBy,
                 starts>>

\* The head of the chain is done and the next task may begin.
NextTask == chain' = Tail(chain) /\ rounds' = 0 /\ failed' = FALSE

\* _drainDirty returns when nothing is dirty.
\* Slip: when no write has failed.
NoWriteFailed == ~failed
Drained == ~failed /\ dirty = {}

Larger(a, b) == IF a > b THEN a ELSE b

\* The task succeeds: flush() and close() report it to their caller.
Resolve ==
  /\ Running
  /\ Drained
  /\ NextTask
  /\ status' = IF Head(chain).kind = "close" THEN "closed" ELSE status
  /\ retryTimer' = (retryTimer /\ Head(chain).kind # "auto")
  /\ acked' = IF Head(chain).kind = "auto" THEN acked
              ELSE [f \in Files |-> Larger(acked[f], Head(chain).floor[f])]
  /\ UNCHANGED <<memVars, timer, timers, retryTimers, diskVars, exitVars, calls,
                 clock, overlap, flushFailed, exitBy, failures, starts>>

\* _scheduleRetry, for automatic flushes only.
\* Slip: not for a write that failed.
RetriesUnlessFailed ==
  Head(chain).kind = "auto" /\ ~retryTimer /\ status # "closed" /\ ~failed
ArmsRetry ==
  Head(chain).kind = "auto" /\ ~retryTimer /\ status # "closed"

\* The task gives up.  close() closes the store all the same.
Reject ==
  /\ Running
  /\ failed \/ (dirty # {} /\ rounds = Attempts[Head(chain).kind])
  /\ NextTask
  /\ status' = IF Head(chain).kind = "close" THEN "closed" ELSE status
  /\ retryTimer' = (retryTimer \/ ArmsRetry)
  /\ retryTimers' = IF ArmsRetry THEN retryTimers + 1 ELSE retryTimers
  /\ flushFailed' = (flushFailed \/ Head(chain).kind # "auto")
  /\ UNCHANGED <<memVars, timer, timers, diskVars, exitVars, calls, clock,
                 acked, overlap, exitBy, failures, starts>>

-----------------------------------------------------------------------------
(***************************************************************************)
(* The process ends.                                                       *)
(***************************************************************************)

\* What flushSync writes.
SyncJobs == dirty

\* A signal or process.exit(): the hook runs flushSync and the main thread
\* does nothing else from here on.
ExitHook ==
  /\ status = "open"
  /\ status' = "dying"
  /\ sync' = SyncJobs
  /\ overlap' = overlap \cup {f \in Files : job[f] # "none"}
  /\ exitBy' = "hook"
  /\ UNCHANGED <<memVars, timerVars, chainVars, diskVars, syncAt, moved, calls,
                 clock, acked, flushFailed, failures, starts>>

SyncWrite(f) ==
  /\ status = "dying"
  /\ syncAt = None
  /\ f \in sync
  /\ tmp' = [tmp EXCEPT ![f] = mem[f]]
  /\ syncAt' = f
  /\ UNCHANGED <<status, memVars, timerVars, chainVars, job, snap, file, sync,
                 moved, calls, ghostVars>>

SyncRename(f) ==
  /\ syncAt = f
  /\ tmp[f] # Gone
  /\ file' = [file EXCEPT ![f] = tmp[f]]
  /\ tmp' = [tmp EXCEPT ![f] = Gone]
  /\ moved' = moved \cup {f}
  /\ sync' = sync \ {f}
  /\ syncAt' = None
  /\ UNCHANGED <<status, memVars, timerVars, chainVars, job, snap, calls,
                 ghostVars>>

\* flushSync throws: the disk fails, or the thread pool has renamed the .tmp.
\* The files that are left are not written.
SyncAborts ==
  /\ status = "dying"
  /\ \/ sync # {} /\ failures < MaxFailures /\ failures' = failures + 1
     \/ /\ syncAt # None /\ \E f \in Files : f = syncAt /\ tmp[f] = Gone
        /\ UNCHANGED failures
  /\ sync' = {}
  /\ syncAt' = None
  /\ exitBy' = "aborted"
  /\ UNCHANGED <<status, memVars, timerVars, chainVars, diskVars, moved, calls,
                 clock, acked, overlap, flushFailed, starts>>

\* Nothing of the process is left but its files; mem stays, as a record.
ProcessEnds ==
  /\ status' = "down"
  /\ dirty' = {} /\ UNCHANGED mem
  /\ timer' = FALSE /\ timers' = 0
  /\ retryTimer' = FALSE /\ retryTimers' = 0
  /\ chain' = <<>> /\ rounds' = 0 /\ failed' = FALSE
  /\ job' = [f \in Files |-> "none"]
  /\ sync' = {} /\ syncAt' = None /\ moved' = {}
  /\ calls' = 0
  /\ flushFailed' = FALSE
  /\ UNCHANGED <<snap, tmp, file, clock, acked, overlap, failures, starts>>

\* The hook is done: the signal is raised again.
HookEnds ==
  /\ status = "dying"
  /\ sync = {}
  /\ ProcessEnds
  /\ UNCHANGED exitBy

\* SIGKILL or a crash, at any time; or the end of a process whose store is
\* closed.
Crash ==
  /\ status # "down"
  /\ ProcessEnds
  /\ exitBy' = "crash"

-----------------------------------------------------------------------------
ThreadStep(f) == OpenTmp(f) \/ WriteTmp(f) \/ RenameTmp(f)

Next ==
  \/ Start \/ Opened \/ TimerFires \/ RetryFires \/ FlushCall \/ CloseCall
  \/ BeginRound \/ Resolve \/ Reject
  \/ \E f \in Files : Mutate(f) \/ ThreadStep(f) \/ JobFails(f)
  \/ ExitHook \/ SyncAborts \/ HookEnds \/ Crash
  \/ \E f \in Files : SyncWrite(f) \/ SyncRename(f)

Spec == Init /\ [][Next]_vars

\* Timers fire, promises settle and the thread pool works while the process
\* runs.  Nothing makes a caller call, a disk fail or a process end.
Fairness ==
  /\ WF_vars(Opened) /\ WF_vars(TimerFires) /\ WF_vars(RetryFires)
  /\ WF_vars(BeginRound) /\ WF_vars(Resolve) /\ WF_vars(Reject)
  /\ \A f \in Files : WF_vars(ThreadStep(f))

FairSpec == Spec /\ Fairness

-----------------------------------------------------------------------------
(***************************************************************************)
(* Properties.                                                             *)
(***************************************************************************)

\* What differs between memory and disk is marked dirty, or being written from
\* a snapshot that is still current: mutations during a write, failed writes
\* and reloads lose no mark.
NothingForgotten ==
  status \in {"open", "closed"} =>
    \A f \in Files : mem[f] # file[f] =>
      \/ f \in dirty
      \/ job[f] # "none" /\ snap[f] = mem[f]

\* Whatever is dirty in an open store has somebody coming for it: a timer, a
\* retry or a task.  The exception is an explicit flush() that failed, which
\* had cleared the timer and arms no retry.
DirtyIsScheduled ==
  status = "open" /\ dirty # {} =>
    timers > 0 \/ retryTimers > 0 \/ chain # <<>> \/ flushFailed

\* Both of them: no change is lost sight of before it is on disk, whatever
\* overlaps or fails.
ChangesInSight == NothingForgotten /\ DirtyIsScheduled

\* A process that dies at any point leaves old or new content in a file, never
\* part of one, unless its exit hook ran while the file was being written.
WholeFiles == \A f \in Files : file[f] = Torn => f \in overlap

\* What a flush() or close() that succeeded was called for is on disk, after
\* crashes and restarts too; with the exception above.
AckedSurvive == \A f \in Files : f \notin overlap => file[f] >= acked[f]

\* A process that ends through its exit hook has saved all it had in memory,
\* but for files that were being written when the hook ran.
HookSaves ==
  status = "down" /\ exitBy = "hook" =>
    \A f \in Files : f \notin overlap => file[f] = mem[f]

\* Both of them: what a caller was told is saved, or an exit had to save, is
\* what the next process finds.
SavedIsKept == AckedSurvive /\ HookSaves

\* No file goes back to older content, and no collection while its process
\* lives: snapshots reach the disk in order, and loading leaves alone what was
\* written while the store was opening.
NothingGoesBack ==
  [][\A f \in Files :
       /\ f \notin overlap' => file'[f] >= file[f]
       /\ status # "down" => mem'[f] >= mem[f]]_vars

\* Every mutation reaches the disk while the process lives, however many
\* automatic flushes fail, if explicit ones do not.
Saved ==
  \A f \in Files, v \in 1..MaxVersion :
    status = "open" /\ mem[f] = v ~>
      file[f] >= v \/ status # "open" \/ flushFailed

\* A target file is complete at any point (persister.js:130).  It is not: the
\* exit hook and a write under way share the temporary file, see WholeFiles.
FilesAreComplete == \A f \in Files : file[f] # Torn

\* The exit hook flushes pending data before the process ends
\* (lightweight_store.js:16).  It does not: it leaves alone what a flush under
\* way has taken from the dirty set, see HookSaves.
ExitFlushes ==
  status = "down" /\ exitBy = "hook" => \A f \in Files : file[f] = mem[f]
=============================================================================
