---------------------------- MODULE MacroReplay ----------------------------
(***************************************************************************)
(* The replay half of KeyboardMacro.kt: handler threads of the gRPC server *)
(* run startComplexReplay and startReplayDebug, which put the reports of a *)
(* recorded file on a single-threaded ScheduledExecutorService; the worker *)
(* of that executor sends them to the HID channel; stopReplay, called from *)
(* another handler thread, tries to end all of it.                         *)
(*                                                                         *)
(* stopFlag, scheduler and scheduledTasks are fields of one singleton that *)
(* all these threads share without a lock.  A thread's step is the code    *)
(* between two accesses of these fields that another thread can observe.   *)
(*                                                                         *)
(* Time is counted in ticks.  Only differences of times matter to the      *)
(* code, so instead of a clock the model keeps, for each playing thread,   *)
(* the time since its startTime and, for each queued task, the time left   *)
(* until it is due.                                                        *)
(***************************************************************************)
EXTENDS Integers, Sequences, SequencesExt

CONSTANTS
  Replayer,     \* handler threads that serve replay requests
  Stopper,      \* handler threads that serve stop requests
  Executor,     \* pool the executors are drawn from; terminated ones are reused
  NoTask,       \* the worker of an executor runs nothing
  NoExecutor,   \* the thread waits for no executor
  Report,       \* HID reports
  Zero,         \* the report in which no key is down
  Tasks,        \* the files of the request's task list, each a sequence of events
  RepeatCount,  \* ComplexReplayRequest.repeatCount
  MaxDelay,     \* bound: no event is recorded later than this
  Jitter,       \* bound: ticks that may pass between lines 216 and 218
  Serial        \* whether clients issue one replay or stop call at a time, except
                \* that a stop may come at any moment of a replay

Event == [delay : 0..MaxDelay, data : Report]

ASSUME ConstantsAssumption ==
  /\ Zero \in Report
  /\ Executor # {} /\ NoExecutor \notin Executor
  /\ Replayer \cap Stopper = {}
  /\ Tasks \in Seq(Seq(Event)) /\ Tasks # << >>
  /\ RepeatCount \in Nat \ {0}
  /\ MaxDelay \in Nat /\ Jitter \in Nat
  /\ Serial \in BOOLEAN

VARIABLES
  stopFlag,     \* KeyboardMacro.stopFlag (volatile)
  scheduler,    \* KeyboardMacro.scheduler
  shut,         \* executors whose shutdown or shutdownNow was called
  queue,        \* the delayed work queue of each executor, soonest first
  running,      \* the task an executor's worker is past the stopFlag check with
  pc,           \* where each handler thread is
  loc,          \* the local variables of each replay thread
  modified,     \* stopReplay's iterator has seen scheduledTasks change under it
  host,         \* the last report handed to the HID channel
  alive,        \* the process runs
  \* History variables, for the properties only.
  sent,         \* events of the thread's current file that went out
  plays,        \* files its current request has played to the end
  halted,       \* a stop was requested during its current request
  outcome,      \* how its last request ended
  late          \* reports each executor sent since stopFlag rose

shared == <<stopFlag, scheduler, shut, queue, running>>
ghosts == <<sent, plays, halted, outcome, late>>
vars == <<shared, pc, loc, modified, host, alive, ghosts>>
-----------------------------------------------------------------------------
Mode == {"complex", "debug"}
Playing == {"check", "submit", "add", "shutdown", "awaiting", "await"}
ReplayStep == Playing \cup {"idle", "load", "enter", "create", "played", "sleep"}
StopStep == {"idle", "iterator", "forEach", "shutdownNow", "signal"}
Thread == Replayer \cup Stopper

\* added: the task is in scheduledTasks; orphan: its replay has returned already.
TaskRecord == [owner : Replayer, task : 1..Len(Tasks), event : Nat \ {0}, wait : 0..MaxDelay,
               added : BOOLEAN, cancelled : BOOLEAN, orphan : BOOLEAN]
Task == {t \in TaskRecord : t.event <= Len(Tasks[t.task])}

ASSUME NoTaskAssumption == NoTask \notin Task

Local == [mode : Mode, round : 1..RepeatCount, task : 1..Len(Tasks), gone : BOOLEAN,
          next : Nat \ {0}, delay : 0..MaxDelay, lag : 0..Jitter, elapsed : 0..MaxDelay,
          awaited : Executor \cup {NoExecutor}]

Outcome == {"none", "returned", "threw"}

TypeOK ==
  /\ stopFlag \in BOOLEAN
  /\ scheduler \in Executor
  /\ shut \subseteq Executor
  /\ queue \in [Executor -> Seq(Task)]
  /\ running \in [Executor -> Task \cup {NoTask}]
  /\ pc \in [Thread -> ReplayStep \cup StopStep]
  /\ loc \in [Replayer -> Local]
  /\ modified \in [Stopper -> BOOLEAN]
  /\ host \in Report
  /\ alive \in BOOLEAN
  /\ sent \in [Replayer -> SUBSET (Nat \ {0})]
  /\ plays \in [Replayer -> Nat]
  /\ halted \in [Replayer -> BOOLEAN]
  /\ outcome \in [Replayer -> Outcome]
  /\ late \in [Executor -> Nat]
  /\ \A r \in Replayer : pc[r] = "submit" => loc[r].next <= Len(Tasks[loc[r].task])
-----------------------------------------------------------------------------
Idle(p) == pc[p] = "idle"
File(t) == IF loc[t].gone THEN << >> ELSE Tasks[loc[t].task]
Goto(p, from, to) == pc[p] = from /\ pc' = [pc EXCEPT ![p] = to]

Each(q, F(_)) == [j \in 1..Len(q) |-> F(q[j])]
InEveryQueue(F(_)) == queue' = [e \in Executor |-> Each(queue[e], F)]

Terminated(e) == e \in shut /\ queue[e] = << >> /\ running[e] = NoTask
Fresh(e) == Terminated(e) /\ e # scheduler /\ \A r \in Replayer : loc[r].awaited # e

\* The play of r is over: what is left of it on any executor has no replay to belong to.
Orphaned(r, t) == IF t.owner = r THEN [t EXCEPT !.orphan = TRUE] ELSE t
LeavePlay(r) ==
  /\ LET F(t) == Orphaned(r, t) IN InEveryQueue(F)
  /\ running' = [e \in Executor |->
                   IF running[e] = NoTask THEN NoTask ELSE Orphaned(r, running[e])]
  /\ sent' = [sent EXCEPT ![r] = {}]

NoPlay == [mode |-> "complex", round |-> 1, task |-> 1, gone |-> FALSE, next |-> 1,
           delay |-> 0, lag |-> 0, elapsed |-> 0, awaited |-> NoExecutor]
On(S, x) == [p \in S |-> x]

Init ==
  /\ stopFlag = FALSE
  /\ scheduler \in Executor
  /\ shut = Executor \ {scheduler}
  /\ queue = On(Executor, << >>) /\ running = On(Executor, NoTask)
  /\ pc = On(Thread, "idle")
  /\ loc = On(Replayer, NoPlay)
  /\ modified = On(Stopper, FALSE)
  /\ host = Zero
  /\ alive = TRUE
  /\ sent = On(Replayer, {}) /\ plays = On(Replayer, 0) /\ halted = On(Replayer, FALSE)
  /\ outcome = On(Replayer, "none")
  /\ late = On(Executor, 0)
-----------------------------------------------------------------------------
(* startComplexReplay, startReplayDebug *)

\* Lines 174 and 196.  The debug call plays one file, the first of the list here.  Of
\* requests that are over nothing is remembered any more.
Start(r) ==
  /\ Goto(r, "idle", "load")
  /\ Serial => \A p \in Thread : Idle(p)
  /\ stopFlag' = FALSE
  /\ \E m \in Mode :
       loc' = [loc EXCEPT ![r].mode = m, ![r].round = 1, ![r].task = 1]
  /\ plays' = [plays EXCEPT ![r] = 0]
  /\ halted' = [p \in Replayer |-> halted[p] /\ ~Idle(p)]
  /\ outcome' = [p \in Replayer |-> IF Idle(p) THEN "none" ELSE outcome[p]]
  /\ late' = On(Executor, 0)
  /\ UNCHANGED <<scheduler, shut, queue, running, modified, host, alive, sent>>

Return(r, how) ==
  /\ pc' = [pc EXCEPT ![r] = "idle"]
  /\ outcome' = [outcome EXCEPT ![r] = how]
  /\ loc' = [loc EXCEPT ![r] = [NoPlay EXCEPT !.mode = loc[r].mode]]

\* An exception leaves the Kotlin code.  The native caller of a debug call detaches its
\* thread with the exception pending, which ends the process.  The one of a complex call
\* keeps its thread attached; a debug call that comes to such a thread lives on as well.
Throw(r) ==
  /\ Return(r, "threw")
  /\ alive' \in BOOLEAN /\ (loc[r].mode = "complex" => alive')

\* Lines 137 and 197, loadRecordedFile.  A file that does not exist has no events.
Load(r) ==
  /\ Goto(r, "load", "enter")
  /\ \E gone \in BOOLEAN : loc' = [loc EXCEPT ![r].gone = gone]
  /\ UNCHANGED <<shared, modified, host, alive, ghosts>>

\* Lines 124-129: a number that does not fit its type, or a file that is deleted after
\* line 119.  stopFlag stays as it is.
LoadThrows(r) ==
  /\ pc[r] = "load"
  /\ Throw(r)
  /\ UNCHANGED <<shared, modified, host, sent, plays, halted, late>>

\* Lines 180-182 and 199-200: replayRecordFile is back.
Played(r) ==
  /\ pc[r] = "played"
  /\ \/ /\ loc[r].mode = "debug"
        /\ stopFlag' = TRUE
        /\ Return(r, "returned")
     \/ /\ loc[r].mode = "complex" /\ stopFlag
        /\ Return(r, "returned")
        /\ UNCHANGED stopFlag
     \/ /\ loc[r].mode = "complex" /\ ~stopFlag
        /\ pc' = [pc EXCEPT ![r] = "sleep"]
        /\ UNCHANGED <<stopFlag, loc, outcome>>
  /\ UNCHANGED <<scheduler, shut, queue, running, modified, host, alive, sent, plays,
                 halted, late>>

\* Mutant: the last repetition is left out.
WakeTooFew(r) ==
  /\ pc[r] = "sleep"
  /\ IF loc[r].task < Len(Tasks)
       THEN /\ loc' = [loc EXCEPT ![r].task = @ + 1]
            /\ pc' = [pc EXCEPT ![r] = "load"]
            /\ UNCHANGED <<stopFlag, outcome>>
       ELSE stopFlag' = TRUE /\ Return(r, "returned")
  /\ UNCHANGED <<scheduler, shut, queue, running, modified, host, alive, sent, plays,
                 halted, late>>

\* Lines 184-192: Thread.sleep is over.  stopFlag is looked at only where the task
\* list ends; the next file looks for itself.
Wake(r) ==
  /\ pc[r] = "sleep"
  /\ \/ /\ loc[r].task < Len(Tasks)
        /\ loc' = [loc EXCEPT ![r].task = @ + 1]
        /\ pc' = [pc EXCEPT ![r] = "load"]
        /\ UNCHANGED <<stopFlag, outcome>>
     \/ /\ loc[r].task = Len(Tasks) /\ ~stopFlag /\ loc[r].round < RepeatCount
        /\ loc' = [loc EXCEPT ![r].task = 1, ![r].round = @ + 1]
        /\ pc' = [pc EXCEPT ![r] = "load"]
        /\ UNCHANGED <<stopFlag, outcome>>
     \/ /\ loc[r].task = Len(Tasks) /\ (stopFlag \/ loc[r].round = RepeatCount)
        /\ stopFlag' = TRUE
        /\ Return(r, "returned")
  /\ UNCHANGED <<scheduler, shut, queue, running, modified, host, alive, sent, plays,
                 halted, late>>

\* Line 184: Thread.sleep does not take the negative delayAfter of a task.
SleepThrows(r) ==
  /\ pc[r] = "sleep"
  /\ Throw(r)
  /\ UNCHANGED <<shared, modified, host, sent, plays, halted, late>>
-----------------------------------------------------------------------------
(* replayRecordFile *)

\* Line 208: startTime is read and the loop starts.
BeginPlay(r) ==
  /\ loc' = [loc EXCEPT ![r].next = 1, ![r].elapsed = 0]
  /\ sent' = [sent EXCEPT ![r] = {}]

\* Mutant: every file lowers the flag, not only the request.
EnterLowersFlag(r) ==
  /\ IF scheduler \in shut
       THEN Goto(r, "enter", "create") /\ UNCHANGED <<loc, sent>>
       ELSE Goto(r, "enter", "check") /\ BeginPlay(r)
  /\ stopFlag' = FALSE
  /\ UNCHANGED <<scheduler, shut, queue, running, modified, host, alive, plays, halted,
                 outcome, late>>

\* Line 204.
Enter(r) ==
  /\ IF scheduler \in shut
       THEN Goto(r, "enter", "create") /\ UNCHANGED <<loc, sent>>
       ELSE Goto(r, "enter", "check") /\ BeginPlay(r)
  /\ UNCHANGED <<shared, modified, host, alive, plays, halted, outcome, late>>

\* Line 205.
Create(r) ==
  /\ Goto(r, "create", "check")
  /\ \E e \in Executor : Fresh(e) /\ scheduler' = e /\ shut' = shut \ {e}
  /\ BeginPlay(r)
  /\ UNCHANGED <<stopFlag, queue, running, modified, host, alive, plays, halted, outcome,
                 late>>

\* Mutants: a delay counted from the event before, and one that may be negative.
TimeLeftRelative(r) ==
  LET i == loc[r].next IN
  IF i = 1 THEN File(r)[i].delay ELSE File(r)[i].delay - File(r)[i - 1].delay
TimeLeftNegative(r) == File(r)[loc[r].next].delay - loc[r].elapsed

\* The time from startTime to an event, from now: line 216.  A negative delay is one
\* of 0 to ScheduledExecutorService.schedule.
TimeLeft(r) ==
  LET d == File(r)[loc[r].next].delay
  IN  IF d > loc[r].elapsed THEN d - loc[r].elapsed ELSE 0

\* Lines 211 and 216, for the next event.
CheckGoesOn(r) ==
  /\ loc[r].next <= Len(File(r))
  /\ Goto(r, "check", "submit")
  /\ ~stopFlag /\ scheduler \notin shut
  /\ loc' = [loc EXCEPT ![r].delay = TimeLeft(r), ![r].lag = 0]
  /\ UNCHANGED <<shared, modified, host, alive, ghosts>>

\* Lines 211-213, with handleStopSignal: the executor is not shut down here.
CheckAborts(r) ==
  /\ loc[r].next <= Len(File(r))
  /\ Goto(r, "check", "played")
  /\ stopFlag \/ scheduler \in shut
  /\ host' = Zero
  /\ LeavePlay(r)
  /\ UNCHANGED <<stopFlag, scheduler, shut, loc, modified, alive, plays, halted, outcome,
                 late>>

CheckEnds(r) ==
  /\ loc[r].next > Len(File(r))
  /\ Goto(r, "check", "shutdown")
  /\ UNCHANGED <<shared, loc, modified, host, alive, ghosts>>

\* Mutant: of two tasks due at once the one submitted later goes first.
EnqueueBefore(e, t) ==
  \E n \in 0..Len(queue[e]) :
    /\ \A j \in 1..n : queue[e][j].wait < t.wait
    /\ \A j \in (n + 1)..Len(queue[e]) : queue[e][j].wait >= t.wait
    /\ queue' = [queue EXCEPT ![e] = InsertAt(@, n + 1, t)]

\* The queue keeps tasks by the time they are due, in order of submission for equal times.
Enqueue(e, t) ==
  \E n \in 0..Len(queue[e]) :
    /\ \A j \in 1..n : queue[e][j].wait <= t.wait
    /\ \A j \in (n + 1)..Len(queue[e]) : queue[e][j].wait > t.wait
    /\ queue' = [queue EXCEPT ![e] = InsertAt(@, n + 1, t)]

\* Line 218, on an executor that accepts the task.
Submit(r) ==
  /\ Goto(r, "submit", "add")
  /\ scheduler \notin shut
  /\ Enqueue(scheduler,
       [owner |-> r, task |-> loc[r].task, event |-> loc[r].next, wait |-> loc[r].delay,
        added |-> FALSE, cancelled |-> FALSE, orphan |-> FALSE])
  /\ loc' = [loc EXCEPT ![r].next = @ + 1, ![r].delay = 0, ![r].lag = 0]
  /\ UNCHANGED <<stopFlag, scheduler, shut, running, modified, host, alive, ghosts>>

\* Line 218, when the executor was shut down after line 211: RejectedExecutionException.
Rejected(r) ==
  /\ pc[r] = "submit"
  /\ scheduler \in shut
  /\ LeavePlay(r)
  /\ Throw(r)
  /\ UNCHANGED <<stopFlag, scheduler, shut, modified, host, plays, halted, late>>

\* Line 224.  A stopReplay that walks the list now will find it changed.
Add(r) ==
  /\ Goto(r, "add", "check")
  /\ LET F(t) == IF t.owner = r /\ ~t.orphan THEN [t EXCEPT !.added = TRUE] ELSE t
     IN  InEveryQueue(F)
  /\ modified' = On(Stopper, TRUE)
  /\ UNCHANGED <<stopFlag, scheduler, shut, running, loc, host, alive, ghosts>>

\* Mutants: shutdownNow in place of shutdown, and no shutdown.
ShutdownDrains(r) ==
  /\ Goto(r, "shutdown", "awaiting")
  /\ shut' = shut \cup {scheduler}
  /\ queue' = [queue EXCEPT ![scheduler] = << >>]
  /\ UNCHANGED <<stopFlag, scheduler, running, loc, modified, host, alive, ghosts>>
ShutdownForgotten(r) ==
  /\ Goto(r, "shutdown", "awaiting")
  /\ UNCHANGED <<shared, loc, modified, host, alive, ghosts>>

\* Line 226: queued tasks still run, new ones are refused.
Shutdown(r) ==
  /\ Goto(r, "shutdown", "awaiting")
  /\ shut' = shut \cup {scheduler}
  /\ UNCHANGED <<stopFlag, scheduler, queue, running, loc, modified, host, alive, ghosts>>

\* Line 228 reads scheduler a second time.
AwaitTermination(r) ==
  /\ Goto(r, "awaiting", "await")
  /\ loc' = [loc EXCEPT ![r].awaited = scheduler]
  /\ UNCHANGED <<shared, modified, host, alive, ghosts>>

Awaited(r) ==
  /\ Goto(r, "await", "played")
  /\ Terminated(loc[r].awaited)
  /\ loc' = [loc EXCEPT ![r].awaited = NoExecutor]
  /\ plays' = [plays EXCEPT ![r] = IF sent[r] = DOMAIN File(r) THEN @ + 1 ELSE @]
  /\ LeavePlay(r)
  /\ UNCHANGED <<stopFlag, scheduler, shut, modified, host, alive, halted, outcome, late>>
-----------------------------------------------------------------------------
(* The worker of an executor: the lambda of lines 218-222. *)

\* Mutant: line 219 is missing.
TakeUnchecked(e) ==
  /\ running[e] = NoTask
  /\ queue[e] # << >> /\ Head(queue[e]).wait = 0
  /\ running' = [running EXCEPT ![e] = IF Head(queue[e]).cancelled THEN NoTask ELSE Head(queue[e])]
  /\ queue' = [queue EXCEPT ![e] = Tail(@)]
  /\ UNCHANGED <<stopFlag, scheduler, shut, pc, loc, modified, host, alive, ghosts>>

\* The task that is due first is taken, and does nothing if it was cancelled or the
\* flag is up (line 219).
Take(e) ==
  /\ running[e] = NoTask
  /\ queue[e] # << >> /\ Head(queue[e]).wait = 0
  /\ running' = [running EXCEPT ![e] =
                   IF stopFlag \/ Head(queue[e]).cancelled THEN NoTask ELSE Head(queue[e])]
  /\ queue' = [queue EXCEPT ![e] = Tail(@)]
  /\ UNCHANGED <<stopFlag, scheduler, shut, pc, loc, modified, host, alive, ghosts>>

\* Lines 220-221: past the check, neither cancel(true) nor shutdownNow holds it back.
Send(e) ==
  /\ running[e] # NoTask
  /\ host' = Tasks[running[e].task][running[e].event].data
  /\ running' = [running EXCEPT ![e] = NoTask]
  /\ sent' = IF running[e].orphan THEN sent
             ELSE [sent EXCEPT ![running[e].owner] = @ \cup {running[e].event}]
  /\ late' = IF stopFlag THEN [late EXCEPT ![e] = @ + 1] ELSE late
  /\ UNCHANGED <<stopFlag, scheduler, shut, queue, pc, loc, modified, alive, plays, halted,
                 outcome>>
-----------------------------------------------------------------------------
(* stopReplay *)

\* Line 238.
Stop(s) ==
  /\ Goto(s, "idle", "iterator")
  /\ stopFlag' = TRUE
  /\ halted' = [r \in Replayer |-> halted[r] \/ ~Idle(r)]
  /\ UNCHANGED <<scheduler, shut, queue, running, loc, modified, host, alive, sent, plays,
                 outcome, late>>

\* Line 239: forEach starts on scheduledTasks as it is now ...
StopIterator(s) ==
  /\ Goto(s, "iterator", "forEach")
  /\ modified' = [modified EXCEPT ![s] = FALSE]
  /\ UNCHANGED <<shared, loc, host, alive, ghosts>>

\* ... and has cancelled all of it,
StopCancels(s) ==
  /\ Goto(s, "forEach", "shutdownNow")
  /\ ~modified[s]
  /\ LET F(t) == IF t.added THEN [t EXCEPT !.cancelled = TRUE] ELSE t IN InEveryQueue(F)
  /\ UNCHANGED <<stopFlag, scheduler, shut, running, loc, modified, host, alive, ghosts>>

\* ... or ends in a ConcurrentModificationException.  It leaves the Kotlin code, and
\* RestartProcess, whose server's threads are always detached, detaches this one with it
\* pending, which ends the process.
StopThrows(s) ==
  /\ Goto(s, "forEach", "idle")
  /\ modified[s]
  /\ alive' = FALSE
  /\ UNCHANGED <<shared, loc, modified, host, ghosts>>

\* Mutant: shutdown in place of shutdownNow.
StopKeepsQueue(s) ==
  /\ Goto(s, "shutdownNow", "signal")
  /\ shut' = shut \cup {scheduler}
  /\ UNCHANGED <<stopFlag, scheduler, queue, running, loc, modified, host, alive, ghosts>>

\* Line 240: the queue is drained, what runs is only interrupted.
StopShutsDown(s) ==
  /\ Goto(s, "shutdownNow", "signal")
  /\ shut' = shut \cup {scheduler}
  /\ queue' = [queue EXCEPT ![scheduler] = << >>]
  /\ UNCHANGED <<stopFlag, scheduler, running, loc, modified, host, alive, ghosts>>

\* Mutant: no release is sent.
StopSilent(s) ==
  /\ Goto(s, "signal", "idle")
  /\ UNCHANGED <<shared, host, loc, modified, alive, ghosts>>

\* Line 241, handleStopSignal.
StopSignals(s) ==
  /\ Goto(s, "signal", "idle")
  /\ host' = Zero
  /\ UNCHANGED <<shared, loc, modified, alive, ghosts>>
-----------------------------------------------------------------------------
(* The environment *)

\* A tick.  A thread gets from line 216 to line 218 within Jitter ticks.
CanTick == \A r \in Replayer : pc[r] = "submit" => loc[r].lag < Jitter
Tick ==
  /\ CanTick
  /\ LET F(t) == [t EXCEPT !.wait = IF @ > 0 THEN @ - 1 ELSE 0] IN InEveryQueue(F)
  /\ loc' = [r \in Replayer |->
       [loc[r] EXCEPT
          !.lag     = IF pc[r] = "submit" THEN @ + 1 ELSE @,
          !.elapsed = IF pc[r] \in Playing /\ @ < MaxDelay THEN @ + 1 ELSE @]]
  /\ UNCHANGED <<stopFlag, scheduler, shut, running, pc, modified, host, alive, ghosts>>

\* The process is started again; the host has dropped the keyboard with its last report.
Relaunch ==
  /\ ~alive /\ alive' = TRUE
  /\ stopFlag' = FALSE
  /\ scheduler' \in Executor
  /\ shut' = Executor \ {scheduler'}
  /\ queue' = On(Executor, << >>) /\ running' = On(Executor, NoTask)
  /\ pc' = On(Thread, "idle")
  /\ loc' = On(Replayer, NoPlay)
  /\ modified' = On(Stopper, FALSE)
  /\ host' = Zero
  /\ sent' = On(Replayer, {}) /\ plays' = On(Replayer, 0) /\ halted' = On(Replayer, FALSE)
  /\ outcome' = On(Replayer, "none")
  /\ late' = On(Executor, 0)

ReplayerNext(r) ==
  \/ Start(r) \/ Load(r) \/ LoadThrows(r) \/ Played(r) \/ Wake(r) \/ SleepThrows(r)
  \/ Enter(r) \/ Create(r) \/ CheckGoesOn(r) \/ CheckAborts(r) \/ CheckEnds(r)
  \/ Submit(r) \/ Rejected(r) \/ Add(r)
  \/ Shutdown(r) \/ AwaitTermination(r) \/ Awaited(r)

WorkerNext(e) == Take(e) \/ Send(e)

StopperNext(s) ==
  \/ Stop(s) \/ StopIterator(s) \/ StopCancels(s) \/ StopThrows(s) \/ StopShutsDown(s)
  \/ StopSignals(s)

Step ==
  \/ \E r \in Replayer : ReplayerNext(r)
  \/ \E e \in Executor : WorkerNext(e)
  \/ \E s \in Stopper : StopperNext(s)
  \/ Tick

Next == (alive /\ Step) \/ Relaunch

Spec == Init /\ [][Next]_vars

\* Every thread is an operating-system thread or a pool worker that the scheduler runs
\* sooner or later, and time passes.  Nobody is bound to ask for a replay or a stop.
FairSpec ==
  /\ Spec
  /\ \A r \in Replayer : WF_vars(alive /\ ReplayerNext(r) /\ ~Idle(r))
  /\ \A e \in Executor : WF_vars(alive /\ WorkerNext(e))
  /\ \A s \in Stopper : WF_vars(alive /\ StopperNext(s) /\ ~Idle(s))
  /\ WF_vars(alive /\ Tick)
-----------------------------------------------------------------------------
(* Properties *)

AtRest == \A p \in Thread : Idle(p)

\* What is on the current executor and not sent yet, soonest first.
Line ==
  (IF running[scheduler] = NoTask THEN << >> ELSE <<running[scheduler]>>) \o queue[scheduler]

\* Event i of a file may go out before event k only if it is due within Jitter of it.
MayPass(f, i, k) == f[i].delay < f[k].delay + Jitter

\* Until someone stops it, a play that has the service to itself loses no event, doubles
\* none and has nothing else on its executor: what was sent and what waits are the
\* events handed over so far.  An event overtakes an earlier one of the file, in the
\* queue or on its way to the host, only if the two are recorded within Jitter of each
\* other, although each delay is computed anew (lines 208-225).
Conveyor ==
  Serial => \A r \in Replayer : pc[r] \in Playing /\ ~halted[r] =>
    LET Waiting == {Line[j].event : j \in 1..Len(Line)} IN
    /\ \A j \in 1..Len(Line) :
         Line[j].owner = r /\ ~Line[j].orphan /\ Line[j].task = loc[r].task
    /\ sent[r] \cap Waiting = {} /\ sent[r] \cup Waiting = 1..(loc[r].next - 1)
    /\ \A i \in sent[r], k \in Waiting : k < i => MayPass(File(r), i, k)
    /\ \A j, l \in 1..Len(Line) : j < l =>
         LET i == Line[j].event  k == Line[l].event IN
         i # k /\ (k < i => MayPass(File(r), i, k))

\* For clients that take turns: the files of the request that is being served, how many
\* of them are over, and how far the host has got with the one being played.
Busy == {r \in Replayer : ~Idle(r)}
Served == CHOOSE r \in Busy : TRUE
Repeated(n) == [j \in 1..n |-> Tasks[((j - 1) % Len(Tasks)) + 1]]
Asked(mode) == Repeated(IF mode = "debug" THEN 1 ELSE RepeatCount * Len(Tasks))
Threw == \E r \in Replayer : outcome[r] = "threw"
Phase ==
  IF ~alive THEN "dead" ELSE IF Busy = {} THEN (IF Threw THEN "failed" ELSE "idle")
  ELSE IF halted[Served] THEN "stopping" ELSE "playing"
Plan == IF Phase = "playing" THEN Asked(loc[Served].mode) ELSE << >>
Done == IF Phase = "playing" THEN plays[Served] ELSE 0
Reading ==
  IF Phase # "playing" \/ pc[Served] \in {"load", "played", "sleep"} THEN "unread"
  ELSE IF loc[Served].gone THEN "gone" ELSE "whole"
Got == IF Phase = "playing" THEN sent[Served] ELSE {}
Unserved ==
  {e \in Executor : alive /\ running[e] # NoTask /\ (running[e].orphan \/ Phase # "playing")}
Flying == {Tasks[running[e].task][running[e].event].data : e \in Unserved}
Client == INSTANCE Playback WITH
  Request <- {Asked(m) : m \in Mode}, Slack <- Jitter,
  phase <- Phase, plan <- Plan, done <- Done, file <- Reading, sent <- Got,
  flying <- Flying

\* With one replay at a time a client sees what Playback describes: every repetition of
\* every file whole, no report twice, none overtaken by one due Jitter or more after it,
\* whatever the executors, the delays, a stop and files that cannot be read do.  A call that
\* nobody stops returns without an exception only when all of them are played.
PlaysBack == Client!Spec

\* No event of a play goes out before the time at which it was recorded (line 216).
NotEarly ==
  \A e \in Executor :
    LET t == running[e] IN
      (t # NoTask /\ ~t.orphan) => loc[t.owner].elapsed >= Tasks[t.task][t.event].delay

\* A request that returns without anybody having asked for a stop has played every file
\* of its list, repeatCount times over (KeyboardMacro.kt:35, input_service.proto:90).
RepeatHonoured ==
  \A r \in Replayer : Idle(r) /\ outcome[r] = "returned" /\ ~halted[r] =>
    plays[r] = (IF loc[r].mode = "debug" THEN 1 ELSE RepeatCount * Len(Tasks))

\* A stop asked for during a request is not forgotten before the request has returned:
\* no later file or repetition of it lowers stopFlag again.
StopSticks == Serial => \A r \in Replayer : halted[r] /\ ~Idle(r) => stopFlag

\* Once stopFlag is up, the worker of an executor sends at most the one report it was past
\* the check with, whatever the replay and stop threads do (lines 219-220).
LateAtMostOne == stopFlag => \A e \in Executor : late[e] <= 1

\* When the calls are over nothing is left on any executor that a later replay, which
\* lowers stopFlag, would set free.
NothingLeft == Serial /\ AtRest /\ alive => \A e \in Executor : queue[e] = << >>

\* A stopped replay leaves no key down, unless the report in flight overtook the release
\* that handleStopSignal sends.
StopReleases ==
  Serial /\ AtRest /\ alive /\ (\E r \in Replayer : halted[r]) /\ (\A e \in Executor : late[e] = 0)
    => host = Zero

\* Every replay call returns, unless the process dies first: awaitTermination waits for an
\* executor that will terminate.
ReplayReturns == \A r \in Replayer : ~Idle(r) ~> (Idle(r) \/ ~alive)
=============================================================================
