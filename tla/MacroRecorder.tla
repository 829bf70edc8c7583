--------------------------- MODULE MacroRecorder ---------------------------
(***************************************************************************)
(* The recording half of KeyboardMacro.kt.  A gRPC handler thread starts   *)
(* and stops recordings; the listener thread of every USB keyboard adds    *)
(* the reports it reads to inputQueue; the TimerTask that startRecord      *)
(* leaves on the one Timer thread moves them, once a second, to the file   *)
(* that is open then.                                                      *)
(*                                                                         *)
(* isRecording, startTime and writer are plain fields all three read; they *)
(* are modelled as sequentially consistent.  Every start is a session of   *)
(* its own, into a file of its own; clients wait for a call to return.     *)
(***************************************************************************)
EXTENDS Integers, Sequences, SequencesExt

CONSTANTS
  Listener,     \* listener threads, one per keyboard
  MaxSessions,  \* bound: recordings started
  MaxEvents,    \* bound: reports added to inputQueue
  Uptime        \* System.nanoTime() when the process starts

ASSUME BoundsAssumption ==
  MaxSessions \in Nat \ {0} /\ MaxEvents \in Nat /\ Uptime \in Nat

VARIABLES
  isRecording,  \* KeyboardMacro.isRecording
  startTime,    \* KeyboardMacro.startTime
  writer,       \* KeyboardMacro.writer, as the session that opened it; NoWriter is null
  closed,       \* the writers that were closed
  inputQueue,   \* KeyboardMacro.inputQueue
  file,         \* what each session's file holds
  buffer,       \* what each session's FileWriter has not flushed
  ticking,      \* live TimerTasks
  timer,        \* the Timer thread: Idle, Process, or the writer it works on
  rpc,          \* where the handler thread is
  pc,           \* where each listener thread is
  event,        \* the event each listener is making
  now,          \* System.nanoTime(), later at each reading
  alive,        \* the process runs
  \* History variables, for the properties only.
  session,      \* recordings started
  started,      \* the startTime of each of them
  stopped,      \* those that stopRecord has ended
  accepted,     \* every event added to inputQueue, in that order
  lost          \* events polled and never written

field == <<isRecording, startTime, writer, closed>>
disk == <<file, buffer>>
timerState == <<ticking, timer>>
input == <<pc, event>>
ghost == <<session, started, stopped, accepted, lost>>
vars == <<field, inputQueue, disk, timerState, rpc, input, now, alive, ghost>>
-----------------------------------------------------------------------------
Session == 1..MaxSessions
NoWriter == 0
Idle == -1      \* the Timer thread waits for a tick
Process == 0    \* it is about to read writer

\* A report with its delay.  For the properties: when and by which thread it was made,
\* and the recording that was on when addInput looked at isRecording.
Event == [delay : Int, time : Nat, by : Listener, session : 0..MaxSessions]
NoEvent(l) == [delay |-> 0, time |-> 0, by |-> l, session |-> 0]

TypeOK ==
  /\ isRecording \in BOOLEAN
  /\ startTime \in Nat
  /\ writer \in Session \cup {NoWriter}
  /\ closed \subseteq Session
  /\ inputQueue \in Seq(Event)
  /\ file \in [Session -> Seq(Event)]
  /\ buffer \in [Session -> Seq(Event)]
  /\ ticking \in Nat
  /\ timer \in {Idle, Process} \cup Session
  /\ rpc \in {"idle", "startTime", "writer", "schedule", "close", "null"}
  /\ pc \in [Listener -> {"idle", "stamp", "diff", "add"}]
  /\ event \in [Listener -> Event]
  /\ now \in Nat
  /\ alive \in BOOLEAN
  /\ session \in 0..MaxSessions
  /\ started \in [Session -> Nat]
  /\ stopped \subseteq Session
  /\ accepted \in Seq(Event)
  /\ lost \in Seq(Event)
  /\ rpc \in {"startTime", "writer", "schedule"} => session \in Session

Init ==
  /\ isRecording = FALSE /\ startTime = 0 /\ writer = NoWriter /\ closed = {}
  /\ inputQueue = << >>
  /\ file = [k \in Session |-> << >>] /\ buffer = [k \in Session |-> << >>]
  /\ ticking = 0 /\ timer = Idle
  /\ rpc = "idle"
  /\ pc = [l \in Listener |-> "idle"] /\ event = [l \in Listener |-> NoEvent(l)]
  /\ now = Uptime
  /\ alive = TRUE
  /\ session = 0 /\ started = [k \in Session |-> 0] /\ stopped = {}
  /\ accepted = << >> /\ lost = << >>
-----------------------------------------------------------------------------
(* startRecord and stopRecord, on the handler thread *)

Handler(from, to) == rpc = from /\ rpc' = to

\* Line 75.
StartRecord ==
  /\ Handler("idle", "startTime")
  /\ session < MaxSessions
  /\ isRecording' = TRUE
  /\ session' = session + 1
  /\ UNCHANGED <<startTime, writer, closed, inputQueue, disk, timerState, input, now, alive,
                 started, stopped, accepted, lost>>

\* Line 76.
SetStartTime ==
  /\ Handler("startTime", "writer")
  /\ startTime' = now
  /\ now' = now + 1
  /\ started' = [started EXCEPT ![session] = now]
  /\ UNCHANGED <<isRecording, writer, closed, inputQueue, disk, timerState, input, alive,
                 session, stopped, accepted, lost>>

\* Line 77: FileWriter(it, false) truncates; the file is new here.
OpenWriter ==
  /\ Handler("writer", "schedule")
  /\ writer' = session
  /\ UNCHANGED <<isRecording, startTime, closed, inputQueue, disk, timerState, input, now,
                 alive, ghost>>

\* Line 77, when the file cannot be opened: isRecording stays, and the native caller
\* detaches its thread with the exception pending, which ends the process.
OpenFails ==
  /\ Handler("writer", "idle")
  /\ alive' = FALSE
  /\ UNCHANGED <<field, inputQueue, disk, timerState, input, now, ghost>>

\* Mutant: no task is left on the Timer.
ScheduleForgotten ==
  /\ Handler("schedule", "idle")
  /\ UNCHANGED <<field, inputQueue, disk, timerState, input, now, alive, ghost>>

\* Line 79.
ScheduleTimer ==
  /\ Handler("schedule", "idle")
  /\ ticking' = ticking + 1
  /\ UNCHANGED <<field, inputQueue, disk, timer, input, now, alive, ghost>>

\* Mutant: the Timer is told to drop a task, whether one is scheduled or not.
StopUnschedules ==
  /\ Handler("idle", "close")
  /\ isRecording' = FALSE
  /\ ticking' = ticking - 1
  /\ UNCHANGED <<startTime, writer, closed, inputQueue, disk, timer, input, now, alive, ghost>>

\* Line 91.
StopRecord ==
  /\ Handler("idle", "close")
  /\ isRecording' = FALSE
  /\ UNCHANGED <<startTime, writer, closed, inputQueue, disk, timerState, input, now, alive,
                 ghost>>

\* Mutant: the writer is dropped and stays open.
CloseForgotten ==
  /\ Handler("close", "null")
  /\ UNCHANGED <<field, inputQueue, disk, timerState, input, now, alive, ghost>>

\* Mutant: what was not flushed is dropped.
CloseDrops ==
  /\ Handler("close", "null")
  /\ closed' = closed \cup ({writer} \ {NoWriter})
  /\ buffer' = [k \in Session |-> IF k = writer THEN << >> ELSE buffer[k]]
  /\ UNCHANGED <<isRecording, startTime, writer, file, inputQueue, timerState, input, now,
                 alive, ghost>>

\* Line 92: close flushes.
CloseWriter ==
  /\ Handler("close", "null")
  /\ closed' = closed \cup ({writer} \ {NoWriter})
  /\ file' = [k \in Session |-> IF k = writer THEN file[k] \o buffer[k] ELSE file[k]]
  /\ buffer' = [k \in Session |-> IF k = writer THEN << >> ELSE buffer[k]]
  /\ UNCHANGED <<isRecording, startTime, writer, inputQueue, timerState, input, now, alive,
                 ghost>>

\* Line 93.
DropWriter ==
  /\ Handler("null", "idle")
  /\ writer' = NoWriter
  /\ stopped' = stopped \cup ({writer} \ {NoWriter})
  /\ UNCHANGED <<isRecording, startTime, closed, inputQueue, disk, timerState, input, now,
                 alive, session, started, accepted, lost>>
-----------------------------------------------------------------------------
(* addInput, on a listener thread *)

Listen(l, from, to) == pc[l] = from /\ pc' = [pc EXCEPT ![l] = to]
Making == {l \in Listener : pc[l] # "idle"}

\* Line 97, when it is true; otherwise nothing happens.
AddInput(l) ==
  /\ Listen(l, "idle", "stamp")
  /\ isRecording
  /\ Len(accepted) + Cardinality(Making) < MaxEvents
  /\ event' = [event EXCEPT ![l].session = session]
  /\ UNCHANGED <<field, inputQueue, disk, timerState, rpc, now, alive, ghost>>

\* Line 98.
Stamp(l) ==
  /\ Listen(l, "stamp", "diff")
  /\ event' = [event EXCEPT ![l].time = now]
  /\ now' = now + 1
  /\ UNCHANGED <<field, inputQueue, disk, timerState, rpc, alive, ghost>>

\* Line 99.
TimeDiff(l) ==
  /\ Listen(l, "diff", "add")
  /\ event' = [event EXCEPT ![l].delay = event[l].time - startTime]
  /\ UNCHANGED <<field, inputQueue, disk, timerState, rpc, now, alive, ghost>>

\* Mutant: the last report in is the first one out.
QueuePush(l) ==
  /\ Listen(l, "add", "idle")
  /\ inputQueue' = <<event[l]>> \o inputQueue
  /\ accepted' = Append(accepted, event[l])
  /\ event' = [event EXCEPT ![l] = NoEvent(l)]
  /\ UNCHANGED <<field, disk, timerState, rpc, now, alive, session, started, stopped, lost>>

\* Line 100.
QueueAdd(l) ==
  /\ Listen(l, "add", "idle")
  /\ inputQueue' = Append(inputQueue, event[l])
  /\ accepted' = Append(accepted, event[l])
  /\ event' = [event EXCEPT ![l] = NoEvent(l)]
  /\ UNCHANGED <<field, disk, timerState, rpc, now, alive, session, started, stopped, lost>>
-----------------------------------------------------------------------------
(* The Timer thread *)

\* Mutant: a task outlives its recording.
FireForever ==
  /\ timer = Idle /\ ticking > 0
  /\ timer' = IF isRecording THEN Process ELSE Idle
  /\ UNCHANGED <<field, inputQueue, disk, ticking, rpc, input, now, alive, ghost>>

\* Lines 80-84: a task of whatever session, that finds recording off, cancels itself.
Fire ==
  /\ timer = Idle /\ ticking > 0
  /\ \/ isRecording /\ timer' = Process /\ UNCHANGED ticking
     \/ ~isRecording /\ ticking' = ticking - 1 /\ UNCHANGED timer
  /\ UNCHANGED <<field, inputQueue, disk, rpc, input, now, alive, ghost>>

\* Line 106: the writer is read once.
TakeWriter ==
  /\ timer = Process
  /\ timer' = IF writer = NoWriter THEN Idle ELSE writer
  /\ UNCHANGED <<field, inputQueue, disk, ticking, rpc, input, now, alive, ghost>>

\* Mutant: one event is written, and the queue cleared.
WriteClears ==
  /\ timer \in Session \ closed
  /\ inputQueue # << >>
  /\ buffer' = [buffer EXCEPT ![timer] = Append(@, Head(inputQueue))]
  /\ inputQueue' = << >>
  /\ UNCHANGED <<field, file, timerState, rpc, input, now, alive, ghost>>

\* Lines 107-109.
WriteNext ==
  /\ timer \in Session \ closed
  /\ inputQueue # << >>
  /\ buffer' = [buffer EXCEPT ![timer] = Append(@, Head(inputQueue))]
  /\ inputQueue' = Tail(inputQueue)
  /\ UNCHANGED <<field, file, timerState, rpc, input, now, alive, ghost>>

\* Mutant: nothing is flushed.
FlushForgotten ==
  /\ timer \in Session \ closed
  /\ inputQueue = << >>
  /\ timer' = Idle
  /\ UNCHANGED <<field, inputQueue, disk, ticking, rpc, input, now, alive, ghost>>

\* Line 111.  (The writer itself flushes only when 8 KiB wait.)
Flush ==
  /\ timer \in Session \ closed
  /\ inputQueue = << >>
  /\ file' = [file EXCEPT ![timer] = @ \o buffer[timer]]
  /\ buffer' = [buffer EXCEPT ![timer] = << >>]
  /\ timer' = Idle
  /\ UNCHANGED <<field, inputQueue, ticking, rpc, input, now, alive, ghost>>

\* Lines 109 and 111 on a writer that stopRecord has closed: an IOException that nobody
\* catches on the Timer thread, which ends the process.
WriteFails ==
  /\ timer \in closed
  /\ \/ /\ inputQueue # << >>
        /\ lost' = Append(lost, Head(inputQueue))
        /\ inputQueue' = Tail(inputQueue)
     \/ inputQueue = << >> /\ UNCHANGED <<lost, inputQueue>>
  /\ alive' = FALSE
  /\ UNCHANGED <<field, disk, timerState, rpc, input, now, session, started, stopped,
                 accepted>>

HandlerNext ==
  \/ StartRecord \/ SetStartTime \/ OpenWriter \/ OpenFails \/ ScheduleTimer
  \/ StopRecord \/ CloseWriter \/ DropWriter
ListenerNext(l) == AddInput(l) \/ Stamp(l) \/ TimeDiff(l) \/ QueueAdd(l)
TimerNext == Fire \/ TakeWriter \/ WriteNext \/ Flush \/ WriteFails

Step == HandlerNext \/ TimerNext \/ \E l \in Listener : ListenerNext(l)

\* The process is gone, and with it what waits in inputQueue; nothing starts it again.
Dead == ~alive /\ UNCHANGED vars

Next == (alive /\ Step) \/ Dead

Spec == Init /\ [][Next]_vars

\* The Timer thread and the listeners are scheduled, and a call that was made returns.
\* Nobody is bound to start or to stop a recording, or to press a key.
FairSpec ==
  /\ Spec
  /\ WF_vars(alive /\ TimerNext)
  /\ WF_vars(alive /\ HandlerNext /\ rpc # "idle")
  /\ \A l \in Listener : WF_vars(alive /\ ListenerNext(l) /\ pc[l] # "idle")
-----------------------------------------------------------------------------
(* Properties *)

\* Everything the files hold, in the order of the recordings.
OnFiles == FlattenSeq([k \in Session |-> file[k] \o buffer[k]])

\* Every report that was accepted is written exactly once and in order, across recordings
\* that share the queue and the Timer thread; a write that fails loses one at most
\* (lines 100 and 107-109).
OrderKept == OnFiles \o lost \o inputQueue = accepted /\ Len(lost) <= 1

\* The recorder is a log: see EventLog.  In memory are the reports of inputQueue and, before
\* them, those that a FileWriter has not flushed.
Log == INSTANCE EventLog WITH
  Report <- Event, alive <- alive,
  saved <- FlattenSeq(file),
  held <- FlattenSeq(buffer) \o inputQueue

\* A recorded report reaches the files in its turn, across recordings, flushes, closes and
\* the Timer thread's late writes, and nothing that is in a file ever changes.
KeepsLog == Log!Spec

\* Between two ticks nothing waits in a writer: all that a crash can then lose is in
\* inputQueue (line 111).
FlushedBetweenTicks == timer \notin Session => \A k \in Session : buffer[k] = << >>

\* The file of a recording that was stopped is never written to with the reports of a
\* later one, although the Timer thread may still hold its writer (lines 92 and 106).
NoLaterSession == \A k \in stopped : \A i \in 1..Len(file[k]) : file[k][i].session <= k

\* The delay of an event is counted from the start of its own recording.
FromItsStart(e) == e.delay = e.time - started[e.session]

\* Of the reports that one keyboard made during one recording a file holds the delays in
\* growing order, apart from those made while startRecord ran (lines 98-100 and 107-111).
\* Reports of two keyboards, or left over from an earlier recording, may be out of order.
Chronological ==
  \A k \in Session : \A i, j \in 1..Len(file[k]) :
    LET a == file[k][i]
        b == file[k][j]
    IN  i < j /\ a.by = b.by /\ a.session = b.session /\ FromItsStart(a) /\ FromItsStart(b)
          => a.delay < b.delay

\* A report that is in the queue while recording is on gets written, unless recording is
\* turned off or the process dies first (lines 79-84).
EventuallyWritten ==
  isRecording /\ inputQueue # << >> ~> inputQueue = << >> \/ ~isRecording \/ ~alive

\* When recording is off and stays off, no task is left on the Timer (line 83).
TimersEnd == ~isRecording ~> ticking = 0 \/ isRecording \/ ~alive

\* KeyboardMacro.kt:99: the delay of an event is the time since its recording started.
ElapsedTime == \A k \in Session : \A i \in 1..Len(file[k]) : FromItsStart(file[k][i])

\* KeyboardMacro.kt:89: stopRecord stops the recording: no report of a recording that was
\* stopped is in the file of another.
StopStops ==
  \A k \in Session : \A i \in 1..Len(file[k]) :
    file[k][i].session # k => file[k][i].session \notin stopped
=============================================================================
