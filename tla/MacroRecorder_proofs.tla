----------------------- MODULE MacroRecorder_proofs ------------------------
(***************************************************************************)
(* Theorems about MacroRecorder, for any number of keyboards, recordings   *)
(* and reports.                                                            *)
(***************************************************************************)
EXTENDS MacroRecorder, SequenceFacts

USE BoundsAssumption DEF BoundsAssumption

\* An event a listener begins with is well typed.
LEMMA NoEventType == \A l \in Listener : NoEvent(l) \in Event
BY DEF NoEvent, Event

\* What addInput writes into an event leaves it one.
LEMMA EventUpdates ==
  ASSUME NEW e \in Event
  PROVE  /\ e.time \in Nat /\ e.session \in Int
         /\ \A s \in 0..MaxSessions : [e EXCEPT !.session = s] \in Event
         /\ \A t \in Nat : /\ [e EXCEPT !.time = t] \in Event
                          /\ [e EXCEPT !.time = t].session = e.session
         /\ \A d \in Int : /\ [e EXCEPT !.delay = d] \in Event
                          /\ [e EXCEPT !.delay = d].session = e.session
BY DEF Event

\* The initial state is well typed.
LEMMA InitType == Init => TypeOK
<1> SUFFICES ASSUME Init PROVE TypeOK
  OBVIOUS
<1> USE DEF Init
<1>1. << >> \in Seq(Event)
  BY EmptySeq
<1>2. file \in [Session -> Seq(Event)] /\ buffer \in [Session -> Seq(Event)]
  BY <1>1
<1>3. event \in [Listener -> Event]
  BY NoEventType
<1>4. pc \in [Listener -> {"idle", "stamp", "diff", "add"}] /\ started \in [Session -> Nat]
  OBVIOUS
<1>5. session \in 0..MaxSessions /\ now \in Nat
  OBVIOUS
<1> QED
  BY <1>1, <1>2, <1>3, <1>4, <1>5 DEF TypeOK

\* Every step of startRecord and stopRecord keeps the types.
LEMMA HandlerType == TypeOK /\ HandlerNext => TypeOK'
<1> SUFFICES ASSUME TypeOK, HandlerNext PROVE TypeOK'
  OBVIOUS
<1> USE DEF TypeOK, Handler, NoWriter
<1>1. CASE StartRecord
  <2>1. session' \in 0..MaxSessions /\ session' \in Session
    BY <1>1 DEF StartRecord, Session
  <2> QED
    BY <1>1, <2>1 DEF StartRecord, disk, timerState, input
<1>2. CASE SetStartTime
  <2>1. started' \in [Session -> Nat]
    BY <1>2 DEF SetStartTime
  <2> QED
    BY <1>2, <2>1 DEF SetStartTime, disk, timerState, input
<1>3. CASE OpenWriter
  BY <1>3 DEF OpenWriter, disk, timerState, input, ghost
<1>4. CASE OpenFails
  BY <1>4 DEF OpenFails, field, disk, timerState, input, ghost
<1>5. CASE ScheduleTimer
  <2>1. ticking' \in Nat
    BY <1>5 DEF ScheduleTimer
  <2> QED
    BY <1>5, <2>1 DEF ScheduleTimer, field, disk, input, ghost
<1>6. CASE StopRecord
  BY <1>6 DEF StopRecord, disk, timerState, input, ghost
<1>7. CASE CloseWriter
  <2>1. file' \in [Session -> Seq(Event)]
    <3>1. \A k \in Session : file[k] \o buffer[k] \in Seq(Event)
      BY ConcatProperties
    <3> QED
      BY <1>7, <3>1 DEF CloseWriter
  <2>2. buffer' \in [Session -> Seq(Event)]
    BY <1>7, EmptySeq DEF CloseWriter
  <2>3. closed' \subseteq Session
    BY <1>7 DEF CloseWriter
  <2> QED
    BY <1>7, <2>1, <2>2, <2>3 DEF CloseWriter, timerState, input, ghost
<1>8. CASE DropWriter
  BY <1>8 DEF DropWriter, disk, timerState, input, ghost
<1> QED
  BY <1>1, <1>2, <1>3, <1>4, <1>5, <1>6, <1>7, <1>8 DEF HandlerNext

\* Every step of addInput keeps the types.
LEMMA ListenerType ==
  ASSUME TypeOK, NEW l \in Listener, ListenerNext(l)
  PROVE  TypeOK'
<1> USE DEF TypeOK, Listen
<1>1. CASE AddInput(l)
  <2>1. event' \in [Listener -> Event]
    BY <1>1, EventUpdates DEF AddInput
  <2> QED
    BY <1>1, <2>1 DEF AddInput, field, disk, timerState, ghost
<1>2. CASE Stamp(l)
  <2>1. event' \in [Listener -> Event]
    BY <1>2, EventUpdates DEF Stamp
  <2>2. pc' \in [Listener -> {"idle", "stamp", "diff", "add"}]
    BY <1>2 DEF Stamp
  <2>3. now' \in Nat
    BY <1>2 DEF Stamp
  <2>4. /\ UNCHANGED <<isRecording, startTime, writer, closed, file, buffer, ticking, timer>>
        /\ UNCHANGED <<inputQueue, rpc, alive, ghost>>
    BY <1>2 DEF Stamp, field, disk, timerState
  <2> QED
    BY <2>1, <2>2, <2>3, <2>4 DEF ghost
<1>3. CASE TimeDiff(l)
  <2>1. event[l].time - startTime \in Int
    <3>1. event[l] \in Event /\ startTime \in Nat
      OBVIOUS
    <3>2. event[l].time \in Nat
      BY <3>1 DEF Event
    <3> QED
      BY <3>1, <3>2
  <2>2. event' \in [Listener -> Event]
    BY <1>3, <2>1, EventUpdates DEF TimeDiff
  <2> QED
    BY <1>3, <2>2 DEF TimeDiff, field, disk, timerState, ghost
<1>4. CASE QueueAdd(l)
  <2>1. event' \in [Listener -> Event]
    BY <1>4, NoEventType DEF QueueAdd
  <2>2. inputQueue' \in Seq(Event) /\ accepted' \in Seq(Event)
    BY <1>4 DEF QueueAdd
  <2> QED
    BY <1>4, <2>1, <2>2 DEF QueueAdd, field, disk, timerState
<1> QED
  BY <1>1, <1>2, <1>3, <1>4 DEF ListenerNext

\* Every step of the Timer thread keeps the types.
LEMMA TimerType == TypeOK /\ TimerNext => TypeOK'
<1> SUFFICES ASSUME TypeOK, TimerNext PROVE TypeOK'
  OBVIOUS
<1> USE DEF TypeOK, NoWriter
<1>1. CASE Fire
  BY <1>1 DEF Fire, field, disk, input, ghost
<1>2. CASE TakeWriter
  BY <1>2 DEF TakeWriter, field, disk, input, ghost
<1>3. CASE WriteNext
  <2>1. Head(inputQueue) \in Event /\ Tail(inputQueue) \in Seq(Event)
    BY <1>3, HeadTailProperties DEF WriteNext
  <2>2. buffer' \in [Session -> Seq(Event)]
    BY <1>3, <2>1 DEF WriteNext
  <2> QED
    BY <1>3, <2>1, <2>2 DEF WriteNext, field, timerState, input, ghost
<1>4. CASE Flush
  BY <1>4 DEF Flush, field, input, ghost
<1>5. CASE WriteFails
  <2>1. inputQueue' \in Seq(Event) /\ lost' \in Seq(Event)
    <3>1. inputQueue # << >> => Head(inputQueue) \in Event /\ Tail(inputQueue) \in Seq(Event)
      BY HeadTailProperties
    <3>2. CASE inputQueue # << >>
      <4>1. Append(lost, Head(inputQueue)) \in Seq(Event)
        BY <3>1, <3>2, AppendProperties
      <4> QED
        BY <1>5, <3>1, <3>2, <4>1 DEF WriteFails
    <3>3. CASE inputQueue = << >>
      BY <1>5, <3>3 DEF WriteFails
    <3> QED
      BY <3>2, <3>3
  <2> QED
    BY <1>5, <2>1 DEF WriteFails, field, disk, timerState, input
<1> QED
  BY <1>1, <1>2, <1>3, <1>4, <1>5 DEF TimerNext

\* A stuttering step keeps the types.
LEMMA StutterType == TypeOK /\ UNCHANGED vars => TypeOK'
BY DEF TypeOK, vars, field, disk, timerState, input, ghost

\* Every variable keeps its type (MacroRecorder!TypeOK).
THEOREM TypeCorrect == Spec => []TypeOK
<1>1. TypeOK /\ [Next]_vars => TypeOK'
  BY HandlerType, ListenerType, TimerType, StutterType DEF Next, Step, Dead
<1> QED
  BY InitType, <1>1, PTL DEF Spec
-----------------------------------------------------------------------------
(* What the Timer thread has finished with is on disk *)

\* Stronger than FlushedBetweenTicks: only the writer in hand may hold something.
OnlyInHand == \A k \in Session : k # timer => buffer[k] = << >>

\* A step leaves nothing in a writer that the Timer thread does not have in hand.
LEMMA InHandStep == TypeOK /\ OnlyInHand /\ [Next]_vars => OnlyInHand'
<1> SUFFICES ASSUME TypeOK, OnlyInHand, [Next]_vars PROVE OnlyInHand'
  OBVIOUS
<1> USE DEF TypeOK, OnlyInHand, Session, NoWriter, Idle, Process, disk, timerState
<1>1. CASE HandlerNext
  BY <1>1 DEF HandlerNext, StartRecord, SetStartTime, OpenWriter, OpenFails, ScheduleTimer,
              StopRecord, CloseWriter, DropWriter
<1>2. ASSUME NEW l \in Listener, ListenerNext(l) PROVE OnlyInHand'
  BY <1>2 DEF ListenerNext, AddInput, Stamp, TimeDiff, QueueAdd
<1>3. CASE TimerNext
  <2>1. CASE Fire
    BY <2>1 DEF Fire
  <2>2. CASE TakeWriter
    BY <2>2 DEF TakeWriter
  <2>3. CASE WriteNext
    BY <2>3 DEF WriteNext
  <2>4. CASE Flush
    BY <2>4 DEF Flush
  <2>5. CASE WriteFails
    BY <2>5 DEF WriteFails
  <2> QED
    BY <1>3, <2>1, <2>2, <2>3, <2>4, <2>5 DEF TimerNext
<1>4. CASE UNCHANGED vars
  BY <1>4 DEF vars
<1> QED
  BY <1>1, <1>2, <1>3, <1>4 DEF Next, Step, Dead

\* Between two ticks no writer holds anything back, so that a crash then loses only what
\* is in inputQueue (MacroRecorder!FlushedBetweenTicks, line 111).
THEOREM TicksFlush == Spec => []FlushedBetweenTicks
<1>1. Init => OnlyInHand
  BY DEF Init, OnlyInHand
<1>2. TypeOK /\ OnlyInHand => FlushedBetweenTicks
  BY DEF OnlyInHand, FlushedBetweenTicks
<1> QED
  BY <1>1, <1>2, InHandStep, TypeCorrect, PTL DEF Spec
-----------------------------------------------------------------------------
(* The file of a stopped recording gets nothing of a later one *)

\* Nothing in the sequence is of a recording after the k-th.
UpTo(k, s) == \A i \in 1..Len(s) : s[i].session <= k

\* When no start is under way the writer is that of the last recording started, and what
\* stopRecord has ended is closed.
WriterInv ==
  /\ alive /\ rpc \notin {"startTime", "writer"} /\ writer # NoWriter => writer = session
  /\ rpc = "null" => writer \in closed \cup {NoWriter}
  /\ stopped \subseteq closed

\* Nothing is of a recording still to come, and nothing in a closed file of a later one.
SessionInv ==
  /\ \A k \in Session : UpTo(session, file[k]) /\ UpTo(session, buffer[k])
  /\ \A k \in closed : UpTo(k, file[k])
  /\ UpTo(session, inputQueue)
  /\ \A l \in Listener : event[l].session <= session

\* The operations on sequences keep what is said of their elements.
LEMMA UpToConcat ==
  ASSUME NEW k \in Int, NEW s \in Seq(Event), NEW t \in Seq(Event), UpTo(k, s), UpTo(k, t)
  PROVE  UpTo(k, s \o t)
BY ConcatProperties DEF UpTo

\* An element that is not of a later recording may be appended.
LEMMA UpToAppend ==
  ASSUME NEW k \in Int, NEW s \in Seq(Event), NEW e \in Event, UpTo(k, s), e.session <= k
  PROVE  UpTo(k, Append(s, e))
BY AppendProperties DEF UpTo

\* The first element and the rest are what the whole is.
LEMMA UpToTail ==
  ASSUME NEW k \in Int, NEW s \in Seq(Event), s # << >>, UpTo(k, s)
  PROVE  Head(s).session <= k /\ UpTo(k, Tail(s))
BY HeadTailProperties DEF UpTo

\* A recording started later excludes nothing.
LEMMA UpToLater ==
  ASSUME NEW k \in Int, NEW m \in Int, k <= m, NEW s \in Seq(Event), UpTo(k, s)
  PROVE  UpTo(m, s)
<1> SUFFICES ASSUME NEW i \in 1..Len(s) PROVE s[i].session <= m
  BY DEF UpTo
<1>1. s[i] \in Event
  BY ElementOfSeq
<1>2. s[i].session \in Int /\ s[i].session <= k
  BY <1>1, EventUpdates DEF UpTo
<1> QED
  BY <1>2

\* A step keeps the writer with its recording.
LEMMA WriterStep == TypeOK /\ WriterInv /\ [Next]_vars => WriterInv'
<1> SUFFICES ASSUME TypeOK, WriterInv, [Next]_vars PROVE WriterInv'
  OBVIOUS
<1> USE DEF TypeOK, WriterInv, Session, NoWriter, field
<1>1. CASE alive /\ HandlerNext
  <2>1. CASE StartRecord
    BY <2>1 DEF StartRecord, Handler
  <2>2. CASE SetStartTime
    BY <2>2 DEF SetStartTime, Handler
  <2>3. CASE OpenWriter
    BY <2>3 DEF OpenWriter, Handler, ghost
  <2>4. CASE OpenFails
    BY <2>4 DEF OpenFails, Handler, ghost
  <2>5. CASE ScheduleTimer
    BY <1>1, <2>5 DEF ScheduleTimer, Handler, ghost
  <2>6. CASE StopRecord
    BY <1>1, <2>6 DEF StopRecord, Handler, ghost
  <2>7. CASE CloseWriter
    BY <1>1, <2>7 DEF CloseWriter, Handler, ghost
  <2>8. CASE DropWriter
    BY <2>8 DEF DropWriter, Handler
  <2> QED
    BY <1>1, <2>1, <2>2, <2>3, <2>4, <2>5, <2>6, <2>7, <2>8 DEF HandlerNext
<1>2. ASSUME alive, NEW l \in Listener, ListenerNext(l) PROVE WriterInv'
  BY <1>2 DEF ListenerNext, AddInput, Stamp, TimeDiff, QueueAdd, ghost
<1>3. CASE alive /\ TimerNext
  BY <1>3 DEF TimerNext, Fire, TakeWriter, WriteNext, Flush, WriteFails, ghost
<1>4. CASE UNCHANGED vars
  BY <1>4 DEF vars, ghost
<1> QED
  BY <1>1, <1>2, <1>3, <1>4 DEF Next, Step, Dead

\* startRecord opens a later file for later reports; stopRecord flushes what was due.
LEMMA SessionHandler ==
  TypeOK /\ WriterInv /\ SessionInv /\ alive /\ HandlerNext => SessionInv'
<1> SUFFICES ASSUME TypeOK, WriterInv, SessionInv, alive, HandlerNext PROVE SessionInv'
  OBVIOUS
<1> USE DEF TypeOK, SessionInv
<1>1. session \in Int /\ Session \subseteq Int
  BY DEF Session
<1>2. session' \in Int /\ session <= session' /\ UNCHANGED <<inputQueue, event>>
  <2>1. CASE StartRecord
    BY <1>1, <2>1 DEF StartRecord, input
  <2>2. CASE UNCHANGED <<session, inputQueue, input>>
    BY <1>1, <2>2 DEF input
  <2> QED
    BY <2>1, <2>2 DEF HandlerNext, StartRecord, SetStartTime, OpenWriter, OpenFails,
                      ScheduleTimer, StopRecord, CloseWriter, DropWriter, ghost
<1>3. \A s \in Seq(Event) : UpTo(session, s) => UpTo(session', s)
  BY <1>1, <1>2, UpToLater
<1>4. UpTo(session', inputQueue')
  BY <1>2, <1>3
<1>5. \A l \in Listener : event'[l].session <= session'
  <2> TAKE l \in Listener
  <2>1. event[l].session \in Int /\ event[l].session <= session
    BY EventUpdates
  <2> QED
    BY <1>1, <1>2, <2>1
<1>6. CASE CloseWriter
  <2>1. session' = session
    BY <1>6 DEF CloseWriter, ghost
  <2>2. \A k \in Session : UpTo(session, file[k] \o buffer[k]) /\ UpTo(session, << >>)
    <3>1. \A k \in Session : UpTo(session, << >>)
      BY DEF UpTo
    <3> QED
      BY <1>1, <3>1, UpToConcat
  <2>3. \A k \in Session : UpTo(session', file'[k]) /\ UpTo(session', buffer'[k])
    BY <1>6, <2>1, <2>2 DEF CloseWriter
  <2>4. ASSUME NEW k \in closed' PROVE UpTo(k, file'[k])
    <3>1. CASE k = writer
      <4>1. k \in Session /\ k = session
        BY <1>6, <2>4, <3>1 DEF CloseWriter, Handler, WriterInv, NoWriter, Session
      <4> QED
        BY <2>1, <2>3, <4>1
    <3>2. CASE k # writer
      BY <1>6, <2>4, <3>2 DEF CloseWriter
    <3> QED
      BY <3>1, <3>2
  <2> QED
    BY <1>4, <1>5, <2>3, <2>4
<1>7. CASE UNCHANGED <<disk, closed>>
  <2>1. \A k \in Session : UpTo(session', file[k]) /\ UpTo(session', buffer[k])
    BY <1>3
  <2> QED
    BY <1>4, <1>5, <1>7, <2>1 DEF disk
<1> QED
  BY <1>6, <1>7 DEF HandlerNext, StartRecord, SetStartTime, OpenWriter, OpenFails, ScheduleTimer,
                    StopRecord, DropWriter, field

\* addInput notes the recording that is on, and no later one.
LEMMA SessionListener ==
  ASSUME TypeOK, SessionInv, NEW l \in Listener, ListenerNext(l)
  PROVE  SessionInv'
<1> USE DEF TypeOK, SessionInv
<1>1. session \in Int
  OBVIOUS
<1>2. UNCHANGED <<disk, session, closed>>
  BY DEF ListenerNext, AddInput, Stamp, TimeDiff, QueueAdd, ghost, field
<1>3. \A m \in Listener : event'[m].session <= session
  <2>1. CASE AddInput(l)
    BY <1>1, <2>1 DEF AddInput, Event
  <2>2. CASE Stamp(l) \/ TimeDiff(l)
    <3>1. \A m \in Listener : event'[m].session = event[m].session
      <4>1. CASE Stamp(l)
        <5>1. event[l] \in Event /\ event' = [event EXCEPT ![l] = [@ EXCEPT !.time = now]]
          BY <4>1 DEF Stamp
        <5> QED
          BY <5>1 DEF Event
      <4>2. CASE TimeDiff(l)
        <5>1. event[l].time - startTime \in Int
          BY SMTT(30), EventUpdates
        <5> QED
          BY <4>2, <5>1, EventUpdates DEF TimeDiff
      <4> QED
        BY <2>2, <4>1, <4>2
    <3> QED
      BY <3>1
  <2>3. CASE QueueAdd(l)
    BY <2>3 DEF QueueAdd, NoEvent
  <2> QED
    BY <2>1, <2>2, <2>3 DEF ListenerNext
<1>4. UpTo(session, inputQueue')
  <2>1. CASE QueueAdd(l)
    BY <1>1, <2>1, UpToAppend DEF QueueAdd
  <2>2. CASE UNCHANGED inputQueue
    BY <2>2
  <2> QED
    BY <2>1, <2>2 DEF ListenerNext, AddInput, Stamp, TimeDiff
<1> QED
  BY <1>2, <1>3, <1>4 DEF disk

\* The Timer thread writes to no closed file.
LEMMA SessionTimer == TypeOK /\ SessionInv /\ TimerNext => SessionInv'
<1> SUFFICES ASSUME TypeOK, SessionInv, TimerNext PROVE SessionInv'
  OBVIOUS
<1> USE DEF TypeOK, SessionInv
<1>1. session \in Int
  OBVIOUS
<1>2. UNCHANGED <<session, event, closed>>
  BY DEF TimerNext, Fire, TakeWriter, WriteNext, Flush, WriteFails, input, ghost, field
<1>3. CASE WriteNext
  <2>1. Head(inputQueue) \in Event /\ Head(inputQueue).session <= session
    BY <1>1, <1>3, UpToTail, HeadTailProperties DEF WriteNext
  <2>2. UpTo(session, Tail(inputQueue))
    BY <1>1, <1>3, UpToTail DEF WriteNext
  <2>3. timer \in Session /\ UpTo(session, Append(buffer[timer], Head(inputQueue)))
    BY <1>1, <1>3, <2>1, UpToAppend DEF WriteNext
  <2> QED
    BY <1>2, <1>3, <2>2, <2>3 DEF WriteNext
<1>4. CASE Flush
  <2>1. \A k \in Session : UpTo(session, file[k] \o buffer[k]) /\ UpTo(session, << >>)
    <3>1. \A k \in Session : UpTo(session, << >>)
      BY DEF UpTo
    <3> QED
      BY <1>1, <3>1, UpToConcat
  <2> QED
    BY <1>2, <1>4, <2>1 DEF Flush
<1>5. CASE WriteFails
  <2>1. inputQueue # << >> => UpTo(session, Tail(inputQueue))
    BY <1>1, UpToTail
  <2> QED
    BY <1>2, <1>5, <2>1 DEF WriteFails, disk
<1>6. CASE Fire \/ TakeWriter
  BY <1>2, <1>6 DEF Fire, TakeWriter, disk
<1> QED
  BY <1>3, <1>4, <1>5, <1>6 DEF TimerNext

\* The file of a recording that was stopped is not written to with the reports of a later
\* one (MacroRecorder!NoLaterSession, lines 92 and 106).
THEOREM StoppedStaysStopped == Spec => []NoLaterSession
<1>1. Init => WriterInv /\ SessionInv
  BY DEF Init, WriterInv, SessionInv, UpTo, NoEvent, NoWriter
<1>2. TypeOK /\ WriterInv /\ SessionInv /\ [Next]_vars => WriterInv' /\ SessionInv'
  <2>1. UNCHANGED vars /\ SessionInv => SessionInv'
    BY DEF vars, field, disk, input, ghost, SessionInv
  <2> QED
    BY <2>1, WriterStep, SessionHandler, SessionListener, SessionTimer DEF Next, Step, Dead
<1>3. WriterInv /\ SessionInv => NoLaterSession
  BY DEF WriterInv, SessionInv, UpTo, NoLaterSession
<1> QED
  BY <1>1, <1>2, <1>3, TypeCorrect, PTL DEF Spec
-----------------------------------------------------------------------------
(* What is accepted is written once and in order *)

\* The recordings after the m-th have nothing in their files.
NothingAfter(m) == \A k \in Session : k > m => file[k] = << >> /\ buffer[k] = << >>

\* The Timer thread writes to the last file that holds anything.
WritesLast ==
  /\ writer <= session /\ timer <= session
  /\ NothingAfter(session)
  /\ writer # NoWriter => timer <= writer /\ NothingAfter(writer)
  /\ timer \in Session => NothingAfter(timer)

\* What OnFiles joins.
Parts == [k \in Session |-> file[k] \o buffer[k]]

\* What there is of every recording is a sequence, and can be joined.
LEMMA JoinType ==
  \A f \in [Session -> Seq(Event)] :
    f \in Seq(Seq(Event)) /\ Len(f) = MaxSessions /\ FlattenSeq(f) \in Seq(Event)
<1> TAKE f \in [Session -> Seq(Event)]
<1>1. f \in Seq(Seq(Event)) /\ Len(f) = MaxSessions /\ f # << >>
  BY DEF Session
<1> QED
  BY <1>1, FlattenType

\* There is a part for every recording.
LEMMA PartsType ==
  ASSUME NEW f \in [Session -> Seq(Event)], NEW b \in [Session -> Seq(Event)]
  PROVE  [k \in Session |-> f[k] \o b[k]] \in [Session -> Seq(Event)]
BY ConcatProperties

\* A file that holds nothing gets something only from the Timer thread.
LEMMA NothingComesOfNothing ==
  ASSUME TypeOK, [Next]_vars, NEW k \in Session, file[k] = << >>, buffer[k] = << >>,
         file'[k] # << >> \/ buffer'[k] # << >>
  PROVE  k = timer /\ WriteNext
<1> USE DEF TypeOK, disk
<1>0. << >> \o << >> = << >>
  BY EmptySeq, ConcatEmptySeq
<1>1. CASE CloseWriter
  BY <1>0, <1>1 DEF CloseWriter
<1>2. CASE Flush
  BY <1>0, <1>2 DEF Flush
<1>3. CASE WriteNext
  BY <1>3 DEF WriteNext
<1>4. CASE UNCHANGED disk
  BY <1>4
<1> QED
  BY <1>1, <1>2, <1>3, <1>4
  DEF Next, Step, Dead, HandlerNext, StartRecord, SetStartTime, OpenWriter, OpenFails,
      ScheduleTimer, StopRecord, DropWriter, ListenerNext, AddInput, Stamp, TimeDiff, QueueAdd,
      TimerNext, Fire, TakeWriter, WriteFails, vars

\* A step keeps the Timer thread with the last file.
LEMMA WritesLastStep == TypeOK /\ WritesLast /\ [Next]_vars => WritesLast'
<1> SUFFICES ASSUME TypeOK, WritesLast, [Next]_vars PROVE WritesLast'
  OBVIOUS
<1> USE DEF Session, NoWriter, Idle, Process
<1>1. writer \in Nat /\ timer \in Int /\ session \in Nat
  BY DEF TypeOK
<1> DEFINE Then(m) == \A k \in Session : k > m => file'[k] = << >> /\ buffer'[k] = << >>
<1>2. /\ writer' <= session' /\ timer' <= session'
      /\ Then(session')
      /\ writer' # NoWriter => timer' <= writer' /\ Then(writer')
      /\ timer' \in Session => Then(timer')
      => WritesLast'
  BY DEF WritesLast, NothingAfter
<1>3. \A m \in Int : NothingAfter(m) /\ (~WriteNext \/ timer <= m) => Then(m)
  BY <1>1, NothingComesOfNothing DEF NothingAfter
<1>4. \A m \in Int, n \in Int : Then(m) /\ m <= n => Then(n)
  OBVIOUS
<1> HIDE DEF Then
<1>5. CASE WriteNext
  <2>1. UNCHANGED <<writer, timer, session>>
    BY <1>5 DEF WriteNext, field, timerState, ghost
  <2> QED
    BY <1>1, <1>2, <1>3, <2>1 DEF WritesLast
<1>6. CASE ~WriteNext
  <2>1. \A m \in Int : NothingAfter(m) => Then(m)
    BY <1>3, <1>6
  <2>2. \/ UNCHANGED <<writer, timer, session>>
        \/ session' = session + 1 /\ UNCHANGED <<writer, timer>>
        \/ writer' \in {session, NoWriter} /\ UNCHANGED <<session, timer>>
        \/ timer' \in {writer, Idle, Process} /\ UNCHANGED <<session, writer>>
    BY <1>6 DEF Next, Step, Dead, HandlerNext, StartRecord, SetStartTime, OpenWriter, OpenFails,
                ScheduleTimer, StopRecord, CloseWriter, DropWriter, ListenerNext, AddInput, Stamp,
                TimeDiff, QueueAdd, TimerNext, Fire, TakeWriter, Flush, WriteFails, vars, field,
                timerState, ghost
  <2>3. CASE UNCHANGED <<writer, timer, session>>
    BY <1>1, <1>2, <2>1, <2>3 DEF WritesLast
  <2>4. CASE session' = session + 1 /\ UNCHANGED <<writer, timer>>
    <3>1. session <= session' /\ session' \in Int
      BY <1>1, <2>4
    <3> QED
      BY <1>1, <1>2, <1>4, <2>1, <2>4, <3>1 DEF WritesLast
  <2>5. CASE writer' \in {session, NoWriter} /\ UNCHANGED <<session, timer>>
    BY <1>1, <1>2, <2>1, <2>5 DEF WritesLast
  <2>6. CASE timer' \in {writer, Idle, Process} /\ UNCHANGED <<session, writer>>
    BY <1>1, <1>2, <2>1, <2>6 DEF WritesLast
  <2> QED
    BY <2>2, <2>3, <2>4, <2>5, <2>6
<1> QED
  BY <1>5, <1>6

\* Flushing and closing move events within one recording's part.
LEMMA PartsKept == TypeOK /\ (CloseWriter \/ Flush \/ UNCHANGED disk) => Parts' = Parts
<1> SUFFICES ASSUME TypeOK, CloseWriter \/ Flush \/ UNCHANGED disk PROVE Parts' = Parts
  OBVIOUS
<1> USE DEF TypeOK, disk
<1>1. \A k \in Session : (file[k] \o buffer[k]) \o << >> = file[k] \o buffer[k]
  BY ConcatProperties, ConcatEmptySeq
<1>2. CASE CloseWriter
  BY <1>1, <1>2 DEF CloseWriter, Parts
<1>3. CASE Flush
  <2>1. \A k \in Session : file'[k] \o buffer'[k] = file[k] \o buffer[k]
    BY <1>1, <1>3 DEF Flush
  <2> QED
    BY <2>1 DEF Parts
<1>4. CASE UNCHANGED disk
  BY <1>4 DEF Parts
<1> QED
  BY <1>2, <1>3, <1>4

\* What a part ends with ends its second half.
LEMMA AppendToPart ==
  \A f \in Seq(Event), b \in Seq(Event), e \in Event :
    /\ Append(b, e) = b \o <<e>>
    /\ f \o Append(b, e) = (f \o b) \o <<e>>
<1> TAKE f \in Seq(Event), b \in Seq(Event), e \in Event
<1>1. Append(b, e) = b \o <<e>>
  BY AppendIsConcat
<1>2. <<e>> \in Seq(Event)
  OBVIOUS
<1>3. f \o (b \o <<e>>) = (f \o b) \o <<e>>
  BY <1>2, Associative
<1> QED
  BY <1>1, <1>3

\* A write adds to the last part that holds anything.
LEMMA PartsGrow ==
  ASSUME TypeOK, TypeOK', WritesLast, WriteNext
  PROVE  OnFiles' = OnFiles \o <<Head(inputQueue)>> /\ Head(inputQueue) \in Event
<1> DEFINE e == Head(inputQueue)
<1>1. e \in Event /\ timer \in Session
  BY HeadTailProperties DEF WriteNext, TypeOK
<1>2. <<e>> \in Seq(Event)
  BY <1>1
<1> HIDE DEF e
<1>3. file' = file /\ buffer' = [buffer EXCEPT ![timer] = Append(@, e)]
  BY DEF WriteNext, e
<1>4. file[timer] \o Append(buffer[timer], e) = (file[timer] \o buffer[timer]) \o <<e>>
  <2>1. file[timer] \in Seq(Event) /\ buffer[timer] \in Seq(Event)
    BY <1>1 DEF TypeOK
  <2> QED
    BY <1>1, <2>1, AppendToPart
<1>5. Parts \in [Session -> Seq(Event)] /\ Parts' \in [Session -> Seq(Event)]
  BY PartsType DEF Parts, TypeOK
<1>6. GrowsAt(Parts, Parts', timer, <<e>>)
  <2>1. Len(Parts) = MaxSessions /\ Len(Parts') = MaxSessions
    BY <1>5, JoinType
  <2>2. Parts'[timer] = Parts[timer] \o <<e>>
    <3>1. buffer'[timer] = Append(buffer[timer], e)
      BY <1>1, <1>3 DEF TypeOK
    <3> QED
      BY <1>1, <1>3, <1>4, <3>1 DEF Parts
  <2>3. \A i \in Session : i # timer => Parts'[i] = Parts[i]
    BY <1>3 DEF Parts, TypeOK
  <2>4. \A i \in Session : i > timer => Parts[i] = << >>
    BY <1>1, EmptySeq, ConcatEmptySeq DEF WritesLast, NothingAfter, Parts
  <2> QED
    BY <1>1, <2>1, <2>2, <2>3, <2>4 DEF GrowsAt, Session
<1>7. FlattenSeq(Parts') = FlattenSeq(Parts) \o <<e>>
  <2>1. Parts \in Seq(Seq(Event)) /\ Parts' \in Seq(Seq(Event))
    BY <1>5, JoinType
  <2> QED
    BY <1>2, <1>6, <2>1, FlattenGrows
<1> QED
  BY <1>1, <1>7 DEF OnFiles, Parts, e

\* No report is lost while the process runs.
NoneLost == alive => lost = << >>

\* A step keeps the order.
LEMMA OrderStep ==
  TypeOK /\ TypeOK' /\ WritesLast /\ NoneLost /\ OrderKept /\ [Next]_vars
    => NoneLost' /\ OrderKept'
<1> SUFFICES ASSUME TypeOK, TypeOK', WritesLast, NoneLost, OrderKept, [Next]_vars
             PROVE  NoneLost' /\ OrderKept'
  OBVIOUS
<1>1. /\ OnFiles \in Seq(Event) /\ inputQueue \in Seq(Event) /\ lost \in Seq(Event)
      /\ accepted \in Seq(Event)
  BY PartsType, JoinType DEF TypeOK, OnFiles
<1>2. OnFiles \o lost \o inputQueue = accepted /\ Len(lost) <= 1
  BY DEF OrderKept
<1>3. Parts' = Parts => OnFiles' = OnFiles
  BY DEF Parts, OnFiles
<1>4. inputQueue # << >> => /\ Head(inputQueue) \in Event /\ Tail(inputQueue) \in Seq(Event)
                            /\ <<Head(inputQueue)>> \in Seq(Event)
                            /\ <<Head(inputQueue)>> \o Tail(inputQueue) = inputQueue
  BY <1>1, HeadTailProperties
<1>5. CASE alive /\ WriteNext
  <2>1. lost = << >> /\ lost' = lost /\ accepted' = accepted
    BY <1>5 DEF NoneLost, WriteNext, ghost
  <2>2. OnFiles' = OnFiles \o <<Head(inputQueue)>> /\ inputQueue' = Tail(inputQueue)
    BY <1>5, PartsGrow DEF WriteNext
  <2>3. (OnFiles \o <<Head(inputQueue)>>) \o Tail(inputQueue)
          = OnFiles \o (<<Head(inputQueue)>> \o Tail(inputQueue))
    BY <1>1, <1>4, <1>5, Associative DEF WriteNext
  <2>4. OnFiles' \o lost' = OnFiles' /\ OnFiles \o lost = OnFiles
    BY <1>1, <1>4, <1>5, <2>1, <2>2, ConcatEmptySeq, ConcatProperties DEF WriteNext
  <2> QED
    BY <1>2, <1>4, <1>5, <2>1, <2>2, <2>3, <2>4 DEF WriteNext, OrderKept, NoneLost
<1>6. CASE alive /\ WriteFails
  <2>1. lost = << >> /\ ~alive' /\ accepted' = accepted /\ OnFiles' = OnFiles
    BY <1>3, <1>6, PartsKept DEF NoneLost, WriteFails
  <2>2. CASE inputQueue # << >> /\ lost' = Append(lost, Head(inputQueue))
                                /\ inputQueue' = Tail(inputQueue)
    <3>1. lost' = <<Head(inputQueue)>> /\ Len(lost') = 1
      BY <2>1, <2>2
    <3>2. (OnFiles \o <<Head(inputQueue)>>) \o Tail(inputQueue)
            = OnFiles \o (<<Head(inputQueue)>> \o Tail(inputQueue))
      BY <1>1, <1>4, <2>2, Associative
    <3>3. OnFiles \o lost = OnFiles
      BY <1>1, <2>1, ConcatEmptySeq
    <3>4. OnFiles' \o lost' \o inputQueue' = accepted'
      BY <1>2, <1>4, <2>1, <2>2, <3>1, <3>2, <3>3, Zenon
    <3>5. Len(lost') <= 1
      BY <3>1
    <3> QED
      BY <2>1, <3>4, <3>5, Zenon DEF OrderKept, NoneLost
  <2>3. CASE UNCHANGED <<lost, inputQueue>>
    BY <1>2, <2>1, <2>3 DEF OrderKept, NoneLost
  <2> QED
    BY <1>6, <2>2, <2>3 DEF WriteFails
<1>7. ASSUME alive, NEW l \in Listener, QueueAdd(l) PROVE NoneLost' /\ OrderKept'
  <2>1. OnFiles' = OnFiles /\ lost' = lost
    BY <1>3, <1>7, PartsKept DEF QueueAdd
  <2>2. event[l] \in Event /\ <<event[l]>> \in Seq(Event)
    BY DEF TypeOK
  <2>3. inputQueue' = inputQueue \o <<event[l]>> /\ accepted' = accepted \o <<event[l]>>
    BY <1>1, <1>7, <2>2, AppendIsConcat DEF QueueAdd
  <2>4. OnFiles \o lost \in Seq(Event)
    BY <1>1, ConcatProperties
  <2>5. (OnFiles \o lost) \o (inputQueue \o <<event[l]>>)
          = ((OnFiles \o lost) \o inputQueue) \o <<event[l]>>
    BY <1>1, <2>2, <2>4, Associative
  <2> QED
    BY <1>2, <1>7, <2>1, <2>3, <2>5 DEF OrderKept, NoneLost
<1>8. CASE UNCHANGED <<inputQueue, lost, accepted>> /\ Parts' = Parts /\ (alive' => alive)
  BY <1>2, <1>3, <1>8 DEF OrderKept, NoneLost
<1> QED
  <2>1. CASE UNCHANGED vars
    BY <1>8, <2>1, PartsKept DEF vars, ghost
  <2>2. CASE alive /\ HandlerNext
    <3>1. UNCHANGED <<inputQueue, lost, accepted>>
      BY <2>2 DEF HandlerNext, StartRecord, SetStartTime, OpenWriter, OpenFails, ScheduleTimer,
                  StopRecord, CloseWriter, DropWriter, ghost
    <3>2. CloseWriter \/ UNCHANGED disk
      BY <2>2 DEF HandlerNext, StartRecord, SetStartTime, OpenWriter, OpenFails, ScheduleTimer,
                  StopRecord, DropWriter
    <3> QED
      BY <1>8, <2>2, <3>1, <3>2, PartsKept
  <2>3. CASE alive /\ TimerNext
    <3>1. CASE Fire \/ TakeWriter \/ Flush
      <4>1. UNCHANGED <<inputQueue, lost, accepted, alive>> /\ (Flush \/ UNCHANGED disk)
        BY <3>1 DEF Fire, TakeWriter, Flush, ghost
      <4> QED
        BY <1>8, <4>1, PartsKept
    <3> QED
      BY <1>5, <1>6, <2>3, <3>1 DEF TimerNext
  <2>4. ASSUME alive, NEW l \in Listener, ListenerNext(l) PROVE NoneLost' /\ OrderKept'
    <3>1. CASE AddInput(l) \/ Stamp(l) \/ TimeDiff(l)
      <4>1. UNCHANGED <<inputQueue, lost, accepted, alive, disk>>
        BY <3>1 DEF AddInput, Stamp, TimeDiff, ghost
      <4> QED
        BY <1>8, <4>1, PartsKept
    <3> QED
      BY <1>7, <2>4, <3>1 DEF ListenerNext
  <2> QED
    BY <2>1, <2>2, <2>3, <2>4 DEF Next, Step, Dead

\* The initial state has nothing in any file.
LEMMA InitOrder == Init => WritesLast /\ NoneLost /\ OrderKept
<1> SUFFICES ASSUME Init PROVE WritesLast /\ NoneLost /\ OrderKept
  OBVIOUS
<1> USE DEF Init
<1>1. WritesLast /\ NoneLost
  BY DEF WritesLast, NothingAfter, NoneLost, NoWriter, Idle, Session
<1>2. FlattenSeq(Parts) = << >>
  <2>1. << >> \in Seq(Event) /\ << >> \o << >> = << >>
    BY EmptySeq, ConcatEmptySeq
  <2>2. Parts = [k \in Session |-> << >>]
    BY <2>1 DEF Parts
  <2>3. Parts \in Seq(Seq(Event)) /\ Len(Parts) = MaxSessions
    BY <2>1, <2>2, JoinType
  <2>4. Parts # << >> /\ \A i \in 1..Len(Parts) : Parts[i] = << >>
    BY <2>2, <2>3 DEF Session
  <2> QED
    BY <2>3, <2>4, FlattenOfNothing
<1>3. OnFiles \o lost \o inputQueue = << >> /\ Len(lost) = 0
  BY <1>2, EmptySeq, ConcatEmptySeq DEF Parts, OnFiles
<1> QED
  BY <1>1, <1>3 DEF OrderKept

\* Every report that was accepted is written exactly once and in order, across recordings
\* that share the queue and the Timer thread, but for the one that a failing write loses
\* (MacroRecorder!OrderKept, lines 100 and 107-109).
THEOREM WrittenInOrder == Spec => []OrderKept
<1>1. TypeOK /\ TypeOK' /\ WritesLast /\ NoneLost /\ OrderKept /\ [Next]_vars
        => WritesLast' /\ NoneLost' /\ OrderKept'
  BY WritesLastStep, OrderStep
<1> QED
  BY <1>1, InitOrder, TypeCorrect, PTL DEF Spec
-----------------------------------------------------------------------------
(* The recorder implements EventLog *)

\* What EventLog calls held, but for the queue, is what one writer holds.
LEMMA HeldIs ==
  ASSUME NEW b \in [Session -> Seq(Event)], NEW w,
         \A k \in Session : k # w => b[k] = << >>
  PROVE  /\ w \in Session => FlattenSeq(b) = b[w]
         /\ w \notin Session => FlattenSeq(b) = << >>
<1> DEFINE none == [k \in Session |-> << >>]
<1>1. << >> \in Seq(Event)
  BY EmptySeq
<1>2. /\ none \in [Session -> Seq(Event)] /\ (\A k \in Session : none[k] = << >>)
      /\ \A f \in [Session -> Seq(Event)] : (\A k \in Session : f[k] = << >>) => f = none
  BY <1>1
<1> HIDE DEF none
<1>3. none \in Seq(Seq(Event)) /\ Len(none) = MaxSessions /\ none # << >>
  <2>1. none \in Seq(Seq(Event)) /\ Len(none) = MaxSessions
    BY <1>2, JoinType
  <2> QED
    BY <2>1, EmptySeq
<1>4. FlattenSeq(none) = << >>
  <2>1. \A i \in 1..Len(none) : none[i] = << >>
    BY <1>2, <1>3 DEF Session
  <2> QED
    BY <1>3, <2>1, FlattenOfNothing
<1>5. b \in Seq(Seq(Event)) /\ Len(b) = MaxSessions
  BY JoinType
<1>6. ASSUME w \in Session PROVE FlattenSeq(b) = b[w]
  <2>1. b[w] \in Seq(Event) /\ << >> \o b[w] = b[w]
    BY <1>6, ConcatEmptySeq
  <2>2. PICK x \in Seq(Event) : x = b[w]
    BY <2>1
  <2>3. GrowsAt(none, b, w, x)
    BY <1>2, <1>3, <1>5, <1>6, <2>1, <2>2 DEF GrowsAt, Session
  <2>4. FlattenSeq(b) = FlattenSeq(none) \o x
    BY <1>3, <1>5, <2>3, FlattenGrows
  <2> QED
    BY <1>4, <2>1, <2>2, <2>4
<1>7. ASSUME w \notin Session PROVE FlattenSeq(b) = << >>
  <2>1. b = none
    BY <1>2, <1>7
  <2> QED
    BY <1>4, <2>1
<1> QED
  BY <1>6, <1>7

\* A writer that is closed has been flushed.
ClosedFlushed == \A k \in closed : buffer[k] = << >>

\* The Timer thread does not write to a closed writer.
LEMMA ClosedStep == TypeOK /\ ClosedFlushed /\ [Next]_vars => ClosedFlushed'
<1> SUFFICES ASSUME TypeOK, ClosedFlushed, [Next]_vars PROVE ClosedFlushed'
  OBVIOUS
<1> USE DEF TypeOK, ClosedFlushed, disk, field
<1>1. CASE CloseWriter
  BY <1>1 DEF CloseWriter
<1>2. CASE WriteNext
  BY <1>2 DEF WriteNext
<1>3. CASE Flush
  BY <1>3 DEF Flush
<1>4. CASE UNCHANGED <<buffer, closed>>
  BY <1>4
<1> QED
  BY <1>1, <1>2, <1>3, <1>4
  DEF Next, Step, Dead, HandlerNext, StartRecord, SetStartTime, OpenWriter, OpenFails,
      ScheduleTimer, StopRecord, DropWriter, ListenerNext, AddInput, Stamp, TimeDiff, QueueAdd,
      TimerNext, Fire, TakeWriter, WriteFails, vars

\* What the steps of EventLog need to know of a state.
LogInv == TypeOK /\ OnlyInHand /\ WritesLast /\ ClosedFlushed

\* The variables of EventLog, as the recorder has them.
Saved == FlattenSeq(file)
Held == FlattenSeq(buffer) \o inputQueue

\* What is held is of the writer in hand and of the queue.
LEMMA HeldInHand ==
  ASSUME TypeOK, OnlyInHand
  PROVE  /\ timer \in Session => FlattenSeq(buffer) = buffer[timer]
         /\ timer \notin Session => FlattenSeq(buffer) = << >>
         /\ FlattenSeq(buffer) \in Seq(Event)
         /\ Held \in Seq(Event)
<1>1. buffer \in [Session -> Seq(Event)] /\ inputQueue \in Seq(Event)
  BY DEF TypeOK
<1>2. FlattenSeq(buffer) \in Seq(Event)
  BY <1>1, JoinType
<1> QED
  BY <1>1, <1>2, HeldIs, ConcatProperties DEF OnlyInHand, Held

\* Flushing the writer in hand, or closing it, is a Save of all it holds.
LEMMA SaveStep ==
  ASSUME LogInv, LogInv', alive, NEW w \in Session, NothingAfter(w),
         file' = [k \in Session |-> IF k = w THEN file[k] \o buffer[k] ELSE file[k]],
         buffer' = [k \in Session |-> IF k = w THEN << >> ELSE buffer[k]],
         UNCHANGED <<inputQueue, alive>>
  PROVE  Log!Save \/ UNCHANGED Log!vars
<1>0. TypeOK /\ TypeOK' /\ OnlyInHand /\ OnlyInHand'
  BY DEF LogInv
<1>1. PICK x \in Seq(Event) : x = buffer[w]
  BY <1>0 DEF TypeOK
<1>2. CASE x = << >>
  <2>1. file[w] \in Seq(Event) /\ file[w] \o << >> = file[w]
    BY <1>0, ConcatEmptySeq DEF TypeOK
  <2>2. file' = file /\ buffer' = buffer
    BY <1>0, <1>1, <1>2, <2>1 DEF TypeOK
  <2> QED
    BY <2>2 DEF Log!vars
<1>3. CASE x # << >>
  <2>1. timer = w /\ FlattenSeq(buffer) = x
    BY <1>0, <1>1, <1>3, HeldInHand DEF OnlyInHand
  <2>2. Saved' = Saved \o x
    <3>1. file \in [Session -> Seq(Event)] /\ file' \in [Session -> Seq(Event)]
      BY <1>0 DEF TypeOK
    <3>2. /\ file \in Seq(Seq(Event)) /\ Len(file) = MaxSessions
          /\ file' \in Seq(Seq(Event)) /\ Len(file') = MaxSessions
      BY <3>1, JoinType
    <3>3. GrowsAt(file, file', w, x)
      BY <1>1, <3>2 DEF GrowsAt, Session, NothingAfter
    <3> QED
      BY <3>2, <3>3, FlattenGrows DEF Saved
  <2>3. FlattenSeq(buffer') = << >>
    <3>1. \A k \in Session : k # w => buffer[k] = << >>
      BY <1>0, <2>1 DEF OnlyInHand
    <3>2. \A k \in Session : buffer'[k] = << >>
      BY <3>1
    <3>3. buffer' \in [Session -> Seq(Event)]
      BY <1>0 DEF TypeOK
    <3> QED
      BY <3>2, <3>3, HeldIs
  <2>4. inputQueue \in Seq(Event) /\ Held = x \o inputQueue /\ Held' = inputQueue
    BY <1>0, <2>1, <2>3, ConcatEmptySeq DEF TypeOK, Held
  <2>5. /\ SubSeq(Held, 1, Len(x)) = x
        /\ SubSeq(Held, Len(x) + 1, Len(Held)) = inputQueue
    BY <2>4, Halves
  <2>6. Len(x) \in 1..Len(Held)
    BY <1>3, <2>4, EmptySeq, ConcatProperties
  <2> QED
    BY <2>2, <2>4, <2>5, <2>6 DEF Log!Save, Saved, Held
<1> QED
  BY <1>2, <1>3

\* A step of the Timer thread that writes leaves everything held, though elsewhere.
LEMMA WriteKeeps ==
  ASSUME LogInv, LogInv', WriteNext
  PROVE  UNCHANGED Log!vars
<1>1. TypeOK /\ TypeOK' /\ OnlyInHand /\ OnlyInHand'
  BY DEF LogInv
<1>2. timer \in Session /\ timer' = timer /\ UNCHANGED <<file, alive>>
  BY DEF WriteNext, timerState
<1>3. PICK e \in Event : e = Head(inputQueue) /\ inputQueue = <<e>> \o inputQueue'
  BY <1>1, HeadTailProperties DEF WriteNext, TypeOK
<1>4. PICK x \in Seq(Event) : x = buffer[timer]
  BY <1>1, <1>2 DEF TypeOK
<1>5. FlattenSeq(buffer) = x
  BY <1>1, <1>2, <1>4, HeldInHand
<1>6. FlattenSeq(buffer') = x \o <<e>>
  <2>1. buffer'[timer] = x \o <<e>>
    <3>1. buffer'[timer] = Append(x, e)
      BY <1>1, <1>2, <1>3, <1>4 DEF WriteNext, TypeOK
    <3>2. Append(x, e) = x \o <<e>>
      BY AppendToPart
    <3> QED
      BY <3>1, <3>2
  <2>2. buffer' \in [Session -> Seq(Event)] /\ \A k \in Session : k # timer => buffer'[k] = << >>
    BY <1>1, <1>2 DEF TypeOK, OnlyInHand
  <2> QED
    BY <1>2, <2>1, <2>2, HeldIs
<1>7. Held' = Held
  <2>1. inputQueue' \in Seq(Event) /\ <<e>> \in Seq(Event)
    BY <1>1 DEF TypeOK
  <2>2. (x \o <<e>>) \o inputQueue' = x \o (<<e>> \o inputQueue')
    BY <2>1, Associative
  <2> QED
    BY <1>3, <1>5, <1>6, <2>2 DEF Held
<1> QED
  BY <1>2, <1>7 DEF Log!vars, Held

\* A write to a closed writer loses the first report that is held, if any.
LEMMA FailureCrashes ==
  ASSUME LogInv, LogInv', alive, WriteFails
  PROVE  Log!Crash
<1>1. TypeOK /\ OnlyInHand /\ ClosedFlushed
  BY DEF LogInv
<1>2. timer \in Session /\ timer \in closed /\ ~alive' /\ UNCHANGED <<file, buffer>>
  BY <1>1 DEF WriteFails, disk, TypeOK
<1>3. FlattenSeq(buffer) = << >> /\ inputQueue \in Seq(Event) /\ inputQueue' \in Seq(Event)
  BY <1>1, <1>2, HeldInHand DEF ClosedFlushed, LogInv, TypeOK
<1>4. Held = inputQueue /\ FlattenSeq(buffer') \o inputQueue' = inputQueue'
  BY <1>2, <1>3, ConcatEmptySeq DEF Held
<1>5. \/ inputQueue' = inputQueue
      \/ inputQueue # << >> /\ inputQueue' = SubSeq(inputQueue, 2, Len(inputQueue))
  BY <1>3, TailIsSubSeq DEF WriteFails
<1> QED
  BY <1>2, <1>4, <1>5 DEF Log!Crash, Held

\* A report that is added to the queue is accepted.
LEMMA AddAccepts ==
  ASSUME LogInv, LogInv', alive, NEW l \in Listener, QueueAdd(l)
  PROVE  Log!Accept
<1>1. TypeOK /\ OnlyInHand
  BY DEF LogInv
<1>2. UNCHANGED <<file, buffer, alive>>
  BY DEF QueueAdd, disk
<1>3. PICK e \in Event : e = event[l]
  BY <1>1 DEF TypeOK
<1>4. /\ FlattenSeq(buffer) \in Seq(Event) /\ inputQueue \in Seq(Event)
      /\ Held \in Seq(Event)
  BY <1>1, HeldInHand DEF TypeOK
<1>5. FlattenSeq(buffer) \o Append(inputQueue, e) = Held \o <<e>> /\ Held \o <<e>> = Append(Held, e)
  BY <1>3, <1>4, AppendToPart DEF Held
<1>6. Held' = Append(Held, e)
  BY <1>2, <1>3, <1>5 DEF QueueAdd, Held
<1>7. Append(Held, e) # << >> /\ Log!Last(Append(Held, e)) = e
  BY <1>3, <1>4, AppendProperties DEF Log!Last
<1> QED
  BY <1>2, <1>3, <1>6, <1>7 DEF Log!Accept, Held

\* Every step is a step of EventLog, or changes nothing that EventLog shows.
LEMMA LogStep == LogInv /\ LogInv' /\ [Next]_vars => [Log!Next]_Log!vars
<1> SUFFICES ASSUME LogInv, LogInv', [Next]_vars PROVE [Log!Next]_Log!vars
  OBVIOUS
<1>0. TypeOK /\ OnlyInHand /\ WritesLast
  BY DEF LogInv
<1>1. CASE UNCHANGED <<disk, inputQueue, alive>>
  BY <1>1 DEF disk, Log!vars
<1>2. CASE alive /\ HandlerNext
  <2>1. CASE OpenFails
    BY <1>2, <2>1 DEF OpenFails, disk, Log!Next, Log!Crash
  <2>2. CASE CloseWriter
    <3>1. CASE writer = NoWriter
      <4>1. file' = file /\ buffer' = buffer
        BY <1>0, <2>2, <3>1 DEF CloseWriter, NoWriter, Session, TypeOK
      <4> QED
        BY <1>1, <2>2, <4>1 DEF CloseWriter, disk
    <3>2. CASE writer # NoWriter
      <4>1. writer \in Session /\ NothingAfter(writer)
        BY <1>0, <3>2 DEF TypeOK, WritesLast
      <4> QED
        BY <1>2, <2>2, <4>1, SaveStep DEF CloseWriter, Log!Next
    <3> QED
      BY <3>1, <3>2
  <2>3. CASE UNCHANGED <<disk, inputQueue, alive>>
    BY <1>1, <2>3
  <2> QED
    BY <1>2, <2>1, <2>2, <2>3
    DEF HandlerNext, StartRecord, SetStartTime, OpenWriter, ScheduleTimer, StopRecord, DropWriter
<1>3. CASE alive /\ TimerNext
  <2>1. CASE WriteNext
    BY <2>1, WriteKeeps
  <2>2. CASE Flush
    <3>1. timer \in Session /\ NothingAfter(timer)
      BY <1>0, <2>2 DEF Flush, WritesLast
    <3>2. /\ file' = [k \in Session |-> IF k = timer THEN file[k] \o buffer[k] ELSE file[k]]
          /\ buffer' = [k \in Session |-> IF k = timer THEN << >> ELSE buffer[k]]
      BY <1>0, <2>2 DEF Flush, TypeOK
    <3> QED
      BY <1>3, <2>2, <3>1, <3>2, SaveStep DEF Flush, Log!Next
  <2>3. CASE WriteFails
    BY <1>3, <2>3, FailureCrashes DEF Log!Next
  <2>4. CASE Fire \/ TakeWriter
    BY <1>1, <2>4 DEF Fire, TakeWriter
  <2> QED
    BY <1>3, <2>1, <2>2, <2>3, <2>4 DEF TimerNext
<1>4. ASSUME alive, NEW l \in Listener, ListenerNext(l) PROVE [Log!Next]_Log!vars
  <2>1. CASE QueueAdd(l)
    BY <1>4, <2>1, AddAccepts DEF Log!Next
  <2>2. CASE AddInput(l) \/ Stamp(l) \/ TimeDiff(l)
    BY <1>1, <2>2 DEF AddInput, Stamp, TimeDiff
  <2> QED
    BY <1>4, <2>1, <2>2 DEF ListenerNext
<1>5. CASE UNCHANGED vars
  BY <1>1, <1>5 DEF vars
<1> QED
  BY <1>2, <1>3, <1>4, <1>5 DEF Next, Step, Dead

\* The recorder starts as an empty log.
LEMMA InitLog == Init => LogInv /\ Log!Init
<1> SUFFICES ASSUME Init PROVE LogInv /\ Log!Init
  OBVIOUS
<1>1. LogInv
  BY InitType, InitOrder DEF LogInv, Init, OnlyInHand, ClosedFlushed
<1>2. \A k \in Session : file[k] = << >> /\ buffer[k] = << >>
  BY DEF Init
<1>3. file \in [Session -> Seq(Event)] /\ buffer \in [Session -> Seq(Event)]
  BY <1>1 DEF LogInv, TypeOK
<1>4. 0 \notin Session
  BY DEF Session
<1>5. FlattenSeq(file) = << >> /\ FlattenSeq(buffer) = << >>
  BY <1>2, <1>3, <1>4, HeldIs
<1>6. << >> \o << >> = << >>
  BY EmptySeq, ConcatEmptySeq
<1> QED
  BY <1>1, <1>5, <1>6 DEF Init, Log!Init

\* The recorder implements the log: reports reach the files in their turn, across
\* recordings, flushes, closes and the Timer thread's late writes, and nothing that is in a
\* file ever changes (MacroRecorder!KeepsLog).
THEOREM RecorderIsLog == Spec => KeepsLog
<1>1. Init => LogInv /\ Log!Init
  BY InitLog
<1>2. LogInv /\ [Next]_vars => LogInv'
  <2>1. TypeOK /\ [Next]_vars => TypeOK'
    BY HandlerType, ListenerType, TimerType, StutterType DEF Next, Step, Dead
  <2> QED
    BY <2>1, InHandStep, WritesLastStep, ClosedStep DEF LogInv
<1>3. LogInv /\ LogInv' /\ [Next]_vars => [Log!Next]_Log!vars
  BY LogStep
<1> QED
  BY <1>1, <1>2, <1>3, PTL DEF Spec, KeepsLog, Log!Spec
-----------------------------------------------------------------------------
(* The reports of one keyboard keep their order *)

\* The reports of each keyboard are in the order in which they were made.
Ordered(s) == \A i, j \in 1..Len(s) : i < j /\ s[i].by = s[j].by => s[i].time < s[j].time

\* Those in s were made before those in t.
Precedes(s, t) ==
  \A i \in 1..Len(s), j \in 1..Len(t) : s[i].by = t[j].by => s[i].time < t[j].time

\* They were made before the time m, while a recording was on.
Made(m, s) == \A i \in 1..Len(s) : s[i].time < m /\ s[i].session \in Session

\* What is ordered and what it precedes, put together.
LEMMA OrderedConcat ==
  \A s, t \in Seq(Event) : Ordered(s) /\ Ordered(t) /\ Precedes(s, t) => Ordered(s \o t)
<1> SUFFICES ASSUME NEW s \in Seq(Event), NEW t \in Seq(Event), Ordered(s), Ordered(t),
                    Precedes(s, t),
                    NEW i \in 1..Len(s \o t), NEW j \in 1..Len(s \o t), i < j,
                    (s \o t)[i].by = (s \o t)[j].by
             PROVE  (s \o t)[i].time < (s \o t)[j].time
  BY DEF Ordered
<1>1. /\ Len(s) \in Nat /\ Len(t) \in Nat /\ Len(s \o t) = Len(s) + Len(t)
      /\ (s \o t)[i] = IF i <= Len(s) THEN s[i] ELSE t[i - Len(s)]
      /\ (s \o t)[j] = IF j <= Len(s) THEN s[j] ELSE t[j - Len(s)]
  BY ConcatProperties
<1>2. CASE j <= Len(s)
  BY <1>1, <1>2 DEF Ordered
<1>3. CASE i <= Len(s) /\ ~(j <= Len(s))
  <2>1. i \in 1..Len(s) /\ j - Len(s) \in 1..Len(t)
    BY <1>1, <1>3
  <2> QED
    BY <1>1, <1>3, <2>1 DEF Precedes
<1>4. CASE ~(i <= Len(s))
  <2>1. /\ i - Len(s) \in 1..Len(t) /\ j - Len(s) \in 1..Len(t) /\ i - Len(s) < j - Len(s)
        /\ ~(j <= Len(s))
    BY <1>1, <1>4
  <2> QED
    BY <1>1, <1>4, <2>1 DEF Ordered
<1> QED
  BY <1>1, <1>2, <1>3, <1>4

\* Two that precede a third, put together, precede it, and the other way round.
LEMMA PrecedesConcat ==
  \A s, t, u \in Seq(Event) :
    /\ Precedes(s, u) /\ Precedes(t, u) => Precedes(s \o t, u)
    /\ Precedes(u, s) /\ Precedes(u, t) => Precedes(u, s \o t)
<1> TAKE s, t, u \in Seq(Event)
<1>1. /\ Len(s) \in Nat /\ Len(t) \in Nat /\ Len(s \o t) = Len(s) + Len(t)
      /\ \A i \in 1..Len(s \o t) :
           \/ i \in 1..Len(s) /\ (s \o t)[i] = s[i]
           \/ i - Len(s) \in 1..Len(t) /\ (s \o t)[i] = t[i - Len(s)]
  BY ConcatProperties
<1> DEFINE c == s \o t
<1> HIDE DEF c
<1>2. \A i \in 1..Len(c) : \/ \E m \in 1..Len(s) : c[i] = s[m]
                           \/ \E m \in 1..Len(t) : c[i] = t[m]
  BY <1>1 DEF c
<1>3. Precedes(s, u) /\ Precedes(t, u) => Precedes(c, u)
  BY <1>2 DEF Precedes
<1>4. Precedes(u, s) /\ Precedes(u, t) => Precedes(u, c)
  BY <1>2 DEF Precedes
<1> QED
  BY <1>3, <1>4 DEF c

\* What was made remains made.
LEMMA MadeConcat ==
  \A s, t \in Seq(Event) : \A m \in Nat : Made(m, s) /\ Made(m, t) => Made(m, s \o t)
<1> SUFFICES ASSUME NEW s \in Seq(Event), NEW t \in Seq(Event), NEW m \in Nat, Made(m, s),
                    Made(m, t), NEW i \in 1..Len(s \o t)
             PROVE  (s \o t)[i].time < m /\ (s \o t)[i].session \in Session
  BY DEF Made
<1>1. /\ Len(s) \in Nat /\ Len(t) \in Nat /\ Len(s \o t) = Len(s) + Len(t)
      /\ (s \o t)[i] = IF i <= Len(s) THEN s[i] ELSE t[i - Len(s)]
  BY ConcatProperties
<1>2. CASE i <= Len(s)
  BY <1>1, <1>2 DEF Made
<1>3. CASE ~(i <= Len(s))
  <2>1. i - Len(s) \in 1..Len(t)
    BY <1>1, <1>3
  <2> QED
    BY <1>1, <1>3, <2>1 DEF Made
<1> QED
  BY <1>2, <1>3

\* One report is in order, and what is said of the queue is so of its head and of its tail.
LEMMA HeadAndTail ==
  \A q \in Seq(Event) : q # << >> =>
    /\ Head(q) \in Event /\ Tail(q) \in Seq(Event) /\ <<Head(q)>> \in Seq(Event)
    /\ Ordered(<<Head(q)>>)
    /\ Ordered(q) => Ordered(Tail(q)) /\ Precedes(<<Head(q)>>, Tail(q))
    /\ \A m \in Nat : Made(m, q) => Made(m, Tail(q)) /\ Made(m, <<Head(q)>>)
    /\ \A s \in Seq(Event) :
         /\ Precedes(s, q) => Precedes(s, Tail(q)) /\ Precedes(s, <<Head(q)>>)
         /\ Precedes(q, s) => Precedes(Tail(q), s)
<1> SUFFICES ASSUME NEW q \in Seq(Event), q # << >>
             PROVE  /\ Head(q) \in Event /\ Tail(q) \in Seq(Event) /\ <<Head(q)>> \in Seq(Event)
                    /\ Ordered(<<Head(q)>>)
                    /\ Ordered(q) => Ordered(Tail(q)) /\ Precedes(<<Head(q)>>, Tail(q))
                    /\ \A m \in Nat : Made(m, q) => Made(m, Tail(q)) /\ Made(m, <<Head(q)>>)
                    /\ \A s \in Seq(Event) :
                         /\ Precedes(s, q) => Precedes(s, Tail(q)) /\ Precedes(s, <<Head(q)>>)
                         /\ Precedes(q, s) => Precedes(Tail(q), s)
  OBVIOUS
<1> DEFINE h == <<Head(q)>>
           t == Tail(q)
<1>1. /\ Head(q) \in Event /\ t \in Seq(Event) /\ h \in Seq(Event)
      /\ Len(q) \in Nat /\ Len(q) >= 1 /\ Len(t) = Len(q) - 1
      /\ \A i \in 1..Len(t) : t[i] = q[i+1]
      /\ Len(h) = 1 /\ h[1] = q[1]
  BY HeadTailProperties, EmptySeq
<1> HIDE DEF h, t
<1>2. Ordered(h)
  BY <1>1 DEF Ordered
<1>3. \A i \in 1..Len(t) : i + 1 \in 1..Len(q) /\ 1 < i + 1
  BY <1>1
<1>4. ASSUME Ordered(q) PROVE Ordered(t) /\ Precedes(h, t)
  <2>1. Ordered(t)
    <3> SUFFICES ASSUME NEW i \in 1..Len(t), NEW j \in 1..Len(t), i < j, t[i].by = t[j].by
                 PROVE  t[i].time < t[j].time
      BY DEF Ordered
    <3>1. i + 1 < j + 1
      OBVIOUS
    <3> QED
      BY <1>1, <1>3, <1>4, <3>1 DEF Ordered
  <2>2. Precedes(h, t)
    <3>1. 1 \in 1..Len(q)
      BY <1>1
    <3> QED
      BY <1>1, <1>3, <1>4, <3>1 DEF Ordered, Precedes
  <2> QED
    BY <2>1, <2>2
<1>5. \A m \in Nat : Made(m, q) => Made(m, t) /\ Made(m, h)
  <2>1. 1 \in 1..Len(q)
    BY <1>1
  <2> QED
    BY <1>1, <1>3, <2>1 DEF Made
<1>6. ASSUME NEW s \in Seq(Event)
      PROVE  /\ Precedes(s, q) => Precedes(s, t) /\ Precedes(s, h)
             /\ Precedes(q, s) => Precedes(t, s)
  <2>1. /\ \A i \in 1..Len(t) : \E m \in 1..Len(q) : t[i] = q[m]
        /\ \A i \in 1..Len(h) : \E m \in 1..Len(q) : h[i] = q[m]
    BY <1>1, <1>3
  <2>2. Precedes(s, q) => Precedes(s, t)
    BY <2>1 DEF Precedes
  <2>3. Precedes(s, q) => Precedes(s, h)
    BY <2>1 DEF Precedes
  <2>4. Precedes(q, s) => Precedes(t, s)
    BY <2>1 DEF Precedes
  <2> QED
    BY <2>2, <2>3, <2>4
<1> QED
  BY <1>1, <1>2, <1>4, <1>5, <1>6 DEF h, t

\* Each file, its buffer and the queue are in order, one after the other.
InOrder ==
  /\ \A k \in Session :
       /\ Ordered(file[k]) /\ Ordered(buffer[k])
       /\ Precedes(file[k], buffer[k])
       /\ Precedes(file[k], inputQueue) /\ Precedes(buffer[k], inputQueue)
  /\ Ordered(inputQueue)

\* All of it was made before now.
AllMade == Made(now, inputQueue) /\ \A k \in Session : Made(now, file[k]) /\ Made(now, buffer[k])

\* The report a listener is making comes after all of its own.
Latest(e) ==
  Precedes(inputQueue, <<e>>) /\ \A k \in Session : Precedes(file[k], <<e>>) /\ Precedes(buffer[k], <<e>>)

\* What each listener is making.
InTheMaking ==
  /\ isRecording => session \in Session
  /\ \A l \in Listener :
       /\ event[l].by = l
       /\ pc[l] # "idle" => event[l].session \in Session
       /\ pc[l] \in {"diff", "add"} => event[l].time < now /\ Latest(event[l])

TimeInv == InOrder /\ AllMade /\ InTheMaking

\* Flushing and closing put a buffer after its file.
LEMMA TimeSave ==
  ASSUME TypeOK, TimeInv, CloseWriter \/ Flush
  PROVE  TimeInv'
<1> USE DEF TypeOK
<1>1. \A k \in Session : file[k] \in Seq(Event) /\ buffer[k] \in Seq(Event)
  OBVIOUS
<1>2. \A k \in Session :
         \/ file'[k] = file[k] /\ buffer'[k] = buffer[k]
         \/ file'[k] = file[k] \o buffer[k] /\ buffer'[k] = << >>
  BY DEF CloseWriter, Flush
<1>3. UNCHANGED <<isRecording, inputQueue, pc, event, now, session>>
  BY DEF CloseWriter, Flush, field, input, ghost
<1>4. \A s \in Seq(Event) : /\ Ordered(<< >>) /\ Precedes(s, << >>) /\ Precedes(<< >>, s)
                            /\ Made(now, << >>)
  BY DEF Ordered, Precedes, Made
<1>5. ASSUME NEW k \in Session
      PROVE  /\ Ordered(file'[k]) /\ Ordered(buffer'[k])
             /\ Precedes(file'[k], buffer'[k])
             /\ Precedes(file'[k], inputQueue) /\ Precedes(buffer'[k], inputQueue)
             /\ Made(now, file'[k]) /\ Made(now, buffer'[k])
             /\ \A e \in Event : Precedes(file[k], <<e>>) /\ Precedes(buffer[k], <<e>>)
                                   => Precedes(file'[k], <<e>>) /\ Precedes(buffer'[k], <<e>>)
  <2>1. CASE file'[k] = file[k] /\ buffer'[k] = buffer[k]
    BY <2>1 DEF TimeInv, InOrder, AllMade
  <2>2. CASE file'[k] = file[k] \o buffer[k] /\ buffer'[k] = << >>
    <3>1. file[k] \o buffer[k] \in Seq(Event)
      BY <1>1, ConcatProperties
    <3>2. \A e \in Event : <<e>> \in Seq(Event)
      OBVIOUS
    <3>3. /\ Ordered(file[k] \o buffer[k]) /\ Made(now, file[k] \o buffer[k])
          /\ Precedes(file[k] \o buffer[k], inputQueue)
      BY <1>1, OrderedConcat, PrecedesConcat, MadeConcat DEF TimeInv, InOrder, AllMade
    <3>4. \A e \in Event : Precedes(file[k], <<e>>) /\ Precedes(buffer[k], <<e>>)
                             => Precedes(file[k] \o buffer[k], <<e>>)
      BY <1>1, <3>2, PrecedesConcat
    <3> QED
      BY <1>4, <2>2, <3>1, <3>2, <3>3, <3>4
  <2> QED
    BY <1>2, <2>1, <2>2
<1>6. \A l \in Listener : event[l] \in Event
  OBVIOUS
<1> HIDE DEF TypeOK
<1>7. InOrder' /\ AllMade'
  BY <1>3, <1>5 DEF TimeInv, InOrder, AllMade
<1>8. InTheMaking'
  BY <1>3, <1>5, <1>6 DEF TimeInv, InTheMaking, Latest
<1> QED
  BY <1>7, <1>8 DEF TimeInv

\* The head of the queue becomes the last of a buffer.
LEMMA TimeWrite ==
  ASSUME TypeOK, TimeInv, WriteNext
  PROVE  TimeInv'
<1>1. UNCHANGED <<isRecording, file, pc, event, now, session>>
  BY DEF WriteNext, field, input, ghost
<1>2. inputQueue \in Seq(Event) /\ inputQueue # << >> /\ now \in Nat
  BY DEF WriteNext, TypeOK
<1>3. PICK h \in Event : h = Head(inputQueue)
  BY <1>2, HeadAndTail
<1>4. PICK t \in Seq(Event) : t = Tail(inputQueue)
  BY <1>2, HeadAndTail
<1>5. /\ <<h>> \in Seq(Event) /\ Ordered(<<h>>) /\ Ordered(t) /\ Precedes(<<h>>, t)
      /\ Made(now, t) /\ Made(now, <<h>>)
      /\ \A s \in Seq(Event) :
           /\ Precedes(s, inputQueue) => Precedes(s, t) /\ Precedes(s, <<h>>)
           /\ Precedes(inputQueue, s) => Precedes(t, s)
      /\ \A e \in Event : Precedes(inputQueue, <<e>>) => Precedes(<<h>>, <<e>>)
  <2>1. \A e \in Event : <<e>> \in Seq(Event)
    OBVIOUS
  <2>2. \A e \in Event : Precedes(inputQueue, <<e>>) => Precedes(<<h>>, <<e>>)
    <3>1. 1 \in 1..Len(inputQueue) /\ h = inputQueue[1]
      BY <1>2, <1>3, EmptySeq
    <3> QED
      BY <3>1 DEF Precedes
  <2> QED
    BY <1>2, <1>3, <1>4, <2>2, HeadAndTail DEF TimeInv, InOrder, AllMade
<1>6. \A k \in Session : file[k] \in Seq(Event) /\ buffer[k] \in Seq(Event)
  BY DEF TypeOK
<1>7. /\ inputQueue' = t
      /\ \A k \in Session : buffer'[k] = buffer[k] \/ buffer'[k] = buffer[k] \o <<h>>
  <2>1. \A k \in Session : buffer'[k] = buffer[k] \/ buffer'[k] = Append(buffer[k], h)
    BY <1>3 DEF WriteNext, TypeOK
  <2>2. \A k \in Session : Append(buffer[k], h) = buffer[k] \o <<h>>
    BY <1>6, AppendToPart
  <2> QED
    BY <1>4, <2>1, <2>2 DEF WriteNext
<1>8. ASSUME NEW k \in Session
      PROVE  /\ Ordered(buffer'[k]) /\ Precedes(file[k], buffer'[k])
             /\ Precedes(file[k], t) /\ Precedes(buffer'[k], t)
             /\ Made(now, buffer'[k])
             /\ \A e \in Event : Precedes(inputQueue, <<e>>) /\ Precedes(buffer[k], <<e>>)
                                   => Precedes(buffer'[k], <<e>>)
  <2>1. CASE buffer'[k] = buffer[k]
    BY <1>5, <1>6, <2>1 DEF TimeInv, InOrder, AllMade
  <2>2. CASE buffer'[k] = buffer[k] \o <<h>>
    <3>1. Precedes(buffer[k], <<h>>) /\ Precedes(file[k], <<h>>) /\ Precedes(buffer[k], t)
                                     /\ Precedes(file[k], t)
      BY <1>5, <1>6 DEF TimeInv, InOrder
    <3>2. \A e \in Event : <<e>> \in Seq(Event)
      OBVIOUS
    <3>3. Ordered(buffer[k]) /\ Precedes(file[k], buffer[k]) /\ Made(now, buffer[k])
      BY DEF TimeInv, InOrder, AllMade
    <3>4. Ordered(buffer[k] \o <<h>>)
      BY <1>5, <1>6, <3>1, <3>3, OrderedConcat
    <3>5. Precedes(file[k], buffer[k] \o <<h>>) /\ Precedes(buffer[k] \o <<h>>, t)
      BY <1>5, <1>6, <3>1, <3>3, PrecedesConcat
    <3>6. Made(now, buffer[k] \o <<h>>)
      BY <1>2, <1>5, <1>6, <3>3, MadeConcat
    <3>7. \A e \in Event : Precedes(inputQueue, <<e>>) /\ Precedes(buffer[k], <<e>>)
                             => Precedes(buffer[k] \o <<h>>, <<e>>)
      BY <1>5, <1>6, <3>2, PrecedesConcat
    <3> QED
      BY <2>2, <3>1, <3>4, <3>5, <3>6, <3>7
  <2> QED
    BY <1>7, <2>1, <2>2
<1>9. InOrder' /\ AllMade'
  BY <1>1, <1>5, <1>7, <1>8 DEF TimeInv, InOrder, AllMade
<1>10. InTheMaking'
  <2>1. \A l \in Listener : event[l] \in Event /\ <<event[l]>> \in Seq(Event)
    BY DEF TypeOK
  <2>2. \A l \in Listener : Precedes(inputQueue, <<event[l]>>) => Precedes(t, <<event[l]>>)
    BY <1>5, <2>1
  <2> QED
    BY <1>1, <1>7, <1>8, <2>1, <2>2 DEF TimeInv, InTheMaking, Latest
<1> QED
  BY <1>9, <1>10 DEF TimeInv

\* A failing write only shortens the queue; other steps of the Timer and of the handler
\* leave files, queue and events alone.
LEMMA TimeRest ==
  ASSUME TypeOK, TimeInv, alive,
         HandlerNext \/ TimerNext, ~CloseWriter, ~WriteNext, ~Flush
  PROVE  TimeInv'
<1>1. UNCHANGED <<disk, input>>
  BY DEF HandlerNext, StartRecord, SetStartTime, OpenWriter, OpenFails, ScheduleTimer, StopRecord,
         DropWriter, TimerNext, Fire, TakeWriter, WriteFails
<1>2. now \in Nat /\ now' \in Nat /\ now <= now'
  <2>1. now' = now \/ now' = now + 1
    BY DEF HandlerNext, StartRecord, SetStartTime, OpenWriter, OpenFails, ScheduleTimer,
           StopRecord, DropWriter, TimerNext, Fire, TakeWriter, WriteFails
  <2> QED
    BY <2>1 DEF TypeOK
<1>3. \/ inputQueue' = inputQueue
      \/ inputQueue # << >> /\ inputQueue' = Tail(inputQueue)
  BY DEF HandlerNext, StartRecord, SetStartTime, OpenWriter, OpenFails, ScheduleTimer, StopRecord,
         DropWriter, TimerNext, Fire, TakeWriter, WriteFails
<1>4. isRecording' => session' \in Session
  <2>1. \/ UNCHANGED <<isRecording, session>>
        \/ ~isRecording'
        \/ session < MaxSessions /\ session' = session + 1
    BY DEF HandlerNext, StartRecord, SetStartTime, OpenWriter, OpenFails, ScheduleTimer,
           StopRecord, DropWriter, TimerNext, Fire, TakeWriter, WriteFails, field, ghost
  <2>2. session < MaxSessions => session + 1 \in Session
    BY DEF TypeOK, Session
  <2> QED
    BY <2>1, <2>2 DEF TimeInv, InTheMaking
<1>5. /\ inputQueue \in Seq(Event) /\ inputQueue' \in Seq(Event)
      /\ \A k \in Session : file[k] \in Seq(Event) /\ buffer[k] \in Seq(Event)
      /\ \A l \in Listener : event[l] \in Event /\ <<event[l]>> \in Seq(Event)
  <2>1. inputQueue \in Seq(Event)
    BY DEF TypeOK
  <2>2. inputQueue' \in Seq(Event)
    BY <1>3, <2>1, HeadTailProperties
  <2> QED
    BY <2>1, <2>2 DEF TypeOK
<1>6. \A s \in Seq(Event) : Made(now, s) => Made(now', s)
  <2> SUFFICES ASSUME NEW s \in Seq(Event), Made(now, s), NEW i \in 1..Len(s)
               PROVE  s[i].time < now' /\ s[i].session \in Session
    BY DEF Made
  <2>1. s[i] \in Event
    BY ElementOfSeq
  <2>2. s[i].time \in Nat
    BY <2>1, EventUpdates
  <2> QED
    BY <1>2, <2>2 DEF Made
<1>7. /\ Ordered(inputQueue) => Ordered(inputQueue')
      /\ Made(now, inputQueue) => Made(now, inputQueue')
      /\ \A s \in Seq(Event) :
           /\ Precedes(s, inputQueue) => Precedes(s, inputQueue')
           /\ Precedes(inputQueue, s) => Precedes(inputQueue', s)
  BY <1>2, <1>3, <1>5, HeadAndTail
<1>8. InOrder'
  BY <1>1, <1>5, <1>7 DEF TimeInv, InOrder, disk
<1>9. AllMade'
  BY <1>1, <1>5, <1>6, <1>7 DEF TimeInv, AllMade, disk
<1>10. InTheMaking'
  <2>1. \A l \in Listener : event[l].time \in Nat
    BY <1>5, EventUpdates
  <2>2. \A l \in Listener : event[l].time < now => event[l].time < now'
    BY <1>2, <2>1
  <2> QED
    BY <1>1, <1>4, <1>5, <1>7, <2>2 DEF TimeInv, InTheMaking, Latest, disk, input
<1> QED
  BY <1>8, <1>9, <1>10 DEF TimeInv

\* Two reports of one keyboard that were made at the same time precede the same ones.
LEMMA SameTime ==
  \A s \in Seq(Event) : \A d, e \in Event :
    d.time = e.time /\ d.by = e.by /\ Precedes(s, <<d>>) => Precedes(s, <<e>>)
BY DEF Precedes

\* A step of addInput before the last changes its own event only.
LEMMA TimeMaking ==
  ASSUME TypeOK, TypeOK', TimeInv, NEW l \in Listener, AddInput(l) \/ Stamp(l) \/ TimeDiff(l)
  PROVE  TimeInv'
<1>1. UNCHANGED <<disk, inputQueue, isRecording, session>>
  BY DEF AddInput, Stamp, TimeDiff, field, ghost
<1>2. now \in Nat /\ now' \in Nat /\ now <= now'
  BY DEF AddInput, Stamp, TimeDiff, TypeOK
<1>3. /\ inputQueue \in Seq(Event)
      /\ \A k \in Session : file[k] \in Seq(Event) /\ buffer[k] \in Seq(Event)
      /\ \A m \in Listener : event[m] \in Event /\ event'[m] \in Event /\ event[m].time \in Nat
  BY EventUpdates DEF TypeOK
<1>4. \A s \in Seq(Event) : Made(now, s) => Made(now', s)
  <2> SUFFICES ASSUME NEW s \in Seq(Event), Made(now, s), NEW i \in 1..Len(s)
               PROVE  s[i].time < now' /\ s[i].session \in Session
    BY DEF Made
  <2>1. s[i] \in Event
    BY ElementOfSeq
  <2>2. s[i].time \in Nat
    BY <2>1, EventUpdates
  <2> QED
    BY <1>2, <2>2 DEF Made
<1>5. InOrder' /\ AllMade'
  BY <1>1, <1>3, <1>4 DEF TimeInv, InOrder, AllMade, disk
<1>6. \A m \in Listener : m # l => event'[m] = event[m] /\ pc'[m] = pc[m]
  BY DEF AddInput, Stamp, TimeDiff, Listen, TypeOK
<1>7. ASSUME NEW m \in Listener, m # l
      PROVE  /\ event'[m].by = m
             /\ pc'[m] # "idle" => event'[m].session \in Session
             /\ pc'[m] \in {"diff", "add"} => event'[m].time < now' /\ Latest(event[m])'
  <2>1. event[m].time < now => event[m].time < now'
    BY <1>2, <1>3
  <2> QED
    BY <1>1, <1>6, <1>7, <2>1 DEF TimeInv, InTheMaking, Latest, disk
<1>8. /\ event'[l].by = l
      /\ event'[l].session \in Session
      /\ pc'[l] \in {"diff", "add"} => event'[l].time < now' /\ Latest(event[l])'
  <2>0. event[l].by = l /\ (isRecording => session \in Session)
                       /\ (pc[l] # "idle" => event[l].session \in Session)
    BY DEF TimeInv, InTheMaking
  <2>1. CASE AddInput(l)
    <3>1. event'[l] = [event[l] EXCEPT !.session = session] /\ pc'[l] = "stamp"
      BY <2>1 DEF AddInput, Listen, TypeOK
    <3> QED
      BY <1>3, <2>0, <2>1, <3>1 DEF AddInput, Event
  <2>2. CASE Stamp(l)
    <3>1. event'[l] = [event[l] EXCEPT !.time = now] /\ now' = now + 1 /\ pc[l] = "stamp"
      BY <2>2 DEF Stamp, Listen, TypeOK
    <3>2. event'[l].by = l /\ event'[l].session \in Session /\ event'[l].time = now
      BY <1>3, <2>0, <3>1 DEF Event
    <3>3. \A s \in Seq(Event) : Made(now, s) => Precedes(s, <<event'[l]>>)
      BY <3>2 DEF Made, Precedes
    <3>4. Latest(event[l])'
      BY <1>1, <1>3, <3>3 DEF TimeInv, AllMade, Latest, disk
    <3> QED
      BY <1>2, <3>1, <3>2, <3>4
  <2>3. CASE TimeDiff(l)
    <3>1. /\ event'[l] = [event[l] EXCEPT !.delay = event[l].time - startTime]
          /\ now' = now /\ pc[l] = "diff"
      BY <2>3 DEF TimeDiff, Listen, TypeOK
    <3>2. event'[l].by = l /\ event'[l].session \in Session /\ event'[l].time = event[l].time
      BY <1>3, <2>0, <3>1 DEF Event
    <3>3. event[l].time < now /\ Latest(event[l])
      BY <3>1 DEF TimeInv, InTheMaking
    <3>4. \A s \in Seq(Event) : Precedes(s, <<event[l]>>) => Precedes(s, <<event'[l]>>)
      BY <1>3, <2>0, <3>2, SameTime
    <3>5. Latest(event[l])'
      BY <1>1, <1>3, <3>3, <3>4 DEF Latest, disk
    <3> QED
      BY <3>1, <3>2, <3>3, <3>5
  <2> QED
    BY <2>1, <2>2, <2>3
<1>9. InTheMaking'
  BY <1>1, <1>7, <1>8, Zenon DEF TimeInv, InTheMaking
<1> QED
  BY <1>5, <1>9 DEF TimeInv

\* The report that is added comes after all of its keyboard, and before none.
LEMMA TimeAdd ==
  ASSUME TypeOK, TypeOK', TimeInv, NEW l \in Listener, QueueAdd(l)
  PROVE  TimeInv'
<1>1. UNCHANGED <<disk, now, isRecording, session>>
  BY DEF QueueAdd, field
<1>2. PICK e \in Event : e = event[l]
  BY DEF TypeOK
<1>3. /\ e.by = l /\ e.time < now /\ e.session \in Session /\ Latest(e)
  BY <1>2 DEF QueueAdd, Listen, TimeInv, InTheMaking
<1>4. /\ inputQueue \in Seq(Event) /\ <<e>> \in Seq(Event) /\ now \in Nat
      /\ \A k \in Session : file[k] \in Seq(Event) /\ buffer[k] \in Seq(Event)
      /\ \A m \in Listener : event[m] \in Event /\ <<event[m]>> \in Seq(Event)
  <2>1. \A d \in Event : <<d>> \in Seq(Event)
    OBVIOUS
  <2> QED
    BY <2>1 DEF TypeOK
<1>5. inputQueue' = inputQueue \o <<e>>
  <2>1. inputQueue' = Append(inputQueue, e)
    BY <1>2 DEF QueueAdd
  <2> QED
    BY <1>4, <2>1, AppendToPart
<1>6. Ordered(<<e>>) /\ Made(now, <<e>>)
  BY <1>3 DEF Ordered, Made
<1>7. Ordered(inputQueue') /\ Made(now, inputQueue')
  BY <1>3, <1>4, <1>5, <1>6, OrderedConcat, MadeConcat DEF TimeInv, InOrder, AllMade, Latest
<1>8. \A s \in Seq(Event) : Precedes(s, inputQueue) /\ Precedes(s, <<e>>) => Precedes(s, inputQueue')
  BY <1>4, <1>5, PrecedesConcat
<1>9. InOrder' /\ AllMade'
  BY <1>1, <1>3, <1>4, <1>7, <1>8 DEF TimeInv, InOrder, AllMade, Latest, disk
<1>10. pc' = [pc EXCEPT ![l] = "idle"] /\ event' = [event EXCEPT ![l] = NoEvent(l)]
  BY DEF QueueAdd, Listen
<1>11. ASSUME NEW m \in Listener
       PROVE  /\ event'[m].by = m
              /\ pc'[m] # "idle" => event'[m].session \in Session
              /\ pc'[m] \in {"diff", "add"} => event'[m].time < now' /\ Latest(event[m])'
  <2>1. CASE m = l
    BY <1>10, <2>1 DEF NoEvent, TypeOK
  <2>2. CASE m # l
    <3>1. event'[m] = event[m] /\ pc'[m] = pc[m] /\ event[m].by = m
      BY <1>10, <2>2 DEF TypeOK, TimeInv, InTheMaking
    <3>2. Precedes(<<e>>, <<event[m]>>)
      BY <1>3, <2>2, <3>1 DEF Precedes
    <3>3. Precedes(inputQueue, <<event[m]>>) => Precedes(inputQueue', <<event[m]>>)
      BY <1>4, <1>5, <3>2, PrecedesConcat
    <3> QED
      BY <1>1, <3>1, <3>3 DEF TimeInv, InTheMaking, Latest, disk
  <2> QED
    BY <2>1, <2>2
<1>12. InTheMaking'
  BY <1>1, <1>11, Zenon DEF TimeInv, InTheMaking
<1> QED
  BY <1>9, <1>12 DEF TimeInv

\* The initial state has no report.
LEMMA InitTime == Init => TimeInv
<1> SUFFICES ASSUME Init PROVE TimeInv
  OBVIOUS
<1>1. /\ inputQueue = << >> /\ isRecording = FALSE
      /\ \A k \in Session : file[k] = << >> /\ buffer[k] = << >>
      /\ \A l \in Listener : pc[l] = "idle" /\ event[l].by = l
  BY DEF Init, NoEvent
<1> QED
  BY <1>1 DEF TimeInv, InOrder, AllMade, InTheMaking, Ordered, Precedes, Made

\* A step keeps reports in the order in which their keyboard made them.
LEMMA TimeStep == TypeOK /\ TypeOK' /\ TimeInv /\ [Next]_vars => TimeInv'
<1> SUFFICES ASSUME TypeOK, TypeOK', TimeInv, [Next]_vars PROVE TimeInv'
  OBVIOUS
<1>1. CASE alive /\ (HandlerNext \/ TimerNext)
  BY <1>1, TimeSave, TimeWrite, TimeRest
<1>2. ASSUME alive, NEW l \in Listener, ListenerNext(l) PROVE TimeInv'
  BY <1>2, TimeMaking, TimeAdd DEF ListenerNext
<1>3. CASE UNCHANGED vars
  BY <1>3 DEF vars, field, disk, input, ghost, TimeInv, InOrder, AllMade, InTheMaking, Latest
<1> QED
  BY <1>1, <1>2, <1>3 DEF Next, Step, Dead

\* Of the reports that one keyboard made during one recording, and not while startRecord
\* ran, a file holds the delays in growing order (MacroRecorder!Chronological).
THEOREM DelaysInOrder == Spec => []Chronological
<1>1. TypeOK /\ TypeOK' /\ TimeInv /\ [Next]_vars => TimeInv'
  BY TimeStep
<1>2. TypeOK /\ TimeInv => Chronological
  <2> SUFFICES ASSUME TypeOK, TimeInv, NEW k \in Session,
                      NEW i \in 1..Len(file[k]), NEW j \in 1..Len(file[k]),
                      i < j, file[k][i].by = file[k][j].by,
                      file[k][i].session = file[k][j].session,
                      FromItsStart(file[k][i]), FromItsStart(file[k][j])
               PROVE  file[k][i].delay < file[k][j].delay
    BY DEF Chronological
  <2>1. file[k] \in Seq(Event)
    BY DEF TypeOK
  <2>2. file[k][i] \in Event /\ file[k][j] \in Event
    BY <2>1, ElementOfSeq
  <2>3. file[k][i].time \in Nat /\ file[k][j].time \in Nat
    BY <2>2, EventUpdates
  <2>4. file[k][i].time < file[k][j].time
    BY DEF TimeInv, InOrder, Ordered
  <2>5. file[k][i].session \in Session
    BY DEF TimeInv, AllMade, Made
  <2>6. PICK n \in Nat : n = started[file[k][i].session]
    BY <2>5 DEF TypeOK
  <2>7. file[k][i].delay = file[k][i].time - n /\ file[k][j].delay = file[k][j].time - n
    BY <2>6 DEF FromItsStart
  <2> QED
    BY <2>3, <2>4, <2>7
<1> QED
  BY <1>1, <1>2, InitTime, TypeCorrect, PTL DEF Spec
=============================================================================
