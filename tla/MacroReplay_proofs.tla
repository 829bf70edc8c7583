------------------------- MODULE MacroReplay_proofs -------------------------
(***************************************************************************)
(* What holds of MacroReplay for any number of replay and stop threads,    *)
(* any pool of executors and any task list:                                *)
(*   - type correctness, which includes that a report is looked up inside  *)
(*     its file;                                                           *)
(*   - LateAtMostOne: a raised stopFlag lets through at most one report of *)
(*     each executor;                                                      *)
(*   - NotEarly: no report goes out before the time it was recorded at;    *)
(* and, with clients that wait for their calls:                            *)
(*   - StopSticks: a stop is not forgotten before the request it was meant *)
(*     for returns;                                                        *)
(*   - StopReleases: a stopped replay leaves no key down;                  *)
(*   - NothingLeft: no executor is left with a task;                       *)
(*   - Conveyor: a play loses and doubles no event, and none overtakes one *)
(*     that was recorded Jitter or more before it;                         *)
(*   - PlaysBack: MacroReplay implements Playback, what a client relies on.*)
(***************************************************************************)
EXTENDS MacroReplay, SequenceFacts, TLAPS

\* A sequence mapped element by element into T is a sequence over T of the same length.
LEMMA MapIsSeq ==
  ASSUME NEW T, NEW n \in Nat, NEW g, g = [j \in 1..n |-> g[j]],
         \A j \in 1..n : g[j] \in T
  PROVE  g \in Seq(T)
<1>1. g \in [1..n -> T]
  OBVIOUS
<1> QED
  BY <1>1

\* Inserting an element of S at a place of a sequence over S gives a sequence over S.
LEMMA InsertAtType ==
  ASSUME NEW S, NEW q \in Seq(S), NEW x \in S, NEW n \in 0..Len(q)
  PROVE  InsertAt(q, n + 1, x) \in Seq(S)
<1>1. Len(q) \in Nat /\ \A i \in 1..Len(q) : q[i] \in S
  BY LenProperties, ElementOfSeq
<1>2. SubSeq(q, 1, (n + 1) - 1) \in Seq(S)
  <2>1. (n + 1) - 1 \in Int /\ \A i \in 1..((n + 1) - 1) : q[i] \in S
    BY <1>1
  <2> QED
    BY <2>1, SubSeqProperties, 1 \in Int
<1>3. SubSeq(q, n + 1, Len(q)) \in Seq(S)
  <2>1. n + 1 \in Int /\ Len(q) \in Int /\ \A i \in (n + 1)..Len(q) : q[i] \in S
    BY <1>1
  <2> QED
    BY <2>1, SubSeqProperties
<1>4. <<x>> \in Seq(S)
  OBVIOUS
<1>5. SubSeq(q, 1, (n + 1) - 1) \o <<x>> \in Seq(S)
  BY <1>2, <1>4, ConcatProperties
<1> QED
  BY <1>3, <1>5, ConcatProperties DEF InsertAt

\* An insertion moves what comes after its place one further.
LEMMA InsertAtPlaces ==
  ASSUME NEW S, NEW q \in Seq(S), NEW x, NEW n \in 0..Len(q)
  PROVE  /\ Len(InsertAt(q, n + 1, x)) = Len(q) + 1
         /\ \A j \in 1..(Len(q) + 1) :
              InsertAt(q, n + 1, x)[j] =
                IF j <= n THEN q[j] ELSE IF j = n + 1 THEN x ELSE q[j - 1]
<1> DEFINE T == S \cup {x}
           a == SubSeq(q, 1, n)
           b == SubSeq(q, n + 1, Len(q))
<1>1. Len(q) \in Nat /\ \A i \in 1..Len(q) : q[i] \in T
  BY LenProperties, ElementOfSeq
<1>2. /\ a \in Seq(T) /\ Len(a) = n
      /\ \A i \in 1..n : a[i] = q[i]
  <2>1. 1 \in Int /\ n \in Int /\ \A i \in 1..n : q[i] \in T
    BY <1>1
  <2>2. /\ a \in Seq(T) /\ Len(a) = (IF 1 <= n THEN n - 1 + 1 ELSE 0)
        /\ \A i \in 1..(n - 1 + 1) : a[i] = q[1 + i - 1]
    BY <2>1, SubSeqProperties
  <2> QED
    BY <1>1, <2>2
<1>3. /\ b \in Seq(T) /\ Len(b) = Len(q) - n
      /\ \A i \in 1..(Len(q) - n) : b[i] = q[n + i]
  <2>1. n + 1 \in Int /\ Len(q) \in Int /\ \A i \in (n + 1)..Len(q) : q[i] \in T
    BY <1>1
  <2>2. /\ b \in Seq(T)
        /\ Len(b) = (IF n + 1 <= Len(q) THEN Len(q) - (n + 1) + 1 ELSE 0)
        /\ \A i \in 1..(Len(q) - (n + 1) + 1) : b[i] = q[n + 1 + i - 1]
    BY <2>1, SubSeqProperties
  <2> QED
    BY <1>1, <2>2
<1>4. <<x>> \in Seq(T) /\ Len(<<x>>) = 1 /\ <<x>>[1] = x
  OBVIOUS
<1>5. InsertAt(q, n + 1, x) = (a \o <<x>>) \o b
  <2>1. (n + 1) - 1 = n
    BY <1>1
  <2> QED
    BY <2>1 DEF InsertAt
<1> HIDE DEF a, b, T
<1>6. /\ a \o <<x>> \in Seq(T) /\ Len(a \o <<x>>) = n + 1
      /\ \A i \in 1..(n + 1) : (a \o <<x>>)[i] = IF i <= n THEN a[i] ELSE x
  <2>1. /\ a \o <<x>> \in Seq(T) /\ Len(a \o <<x>>) = Len(a) + Len(<<x>>)
        /\ \A i \in 1..(Len(a) + Len(<<x>>)) :
             (a \o <<x>>)[i] = IF i <= Len(a) THEN a[i] ELSE <<x>>[i - Len(a)]
    BY <1>2, <1>4, ConcatProperties
  <2> QED
    BY <1>1, <1>2, <1>4, <2>1
<1>7. /\ Len((a \o <<x>>) \o b) = n + 1 + Len(b)
      /\ \A i \in 1..(n + 1 + Len(b)) :
           ((a \o <<x>>) \o b)[i] = IF i <= n + 1 THEN (a \o <<x>>)[i] ELSE b[i - (n + 1)]
  <2> DEFINE ax == a \o <<x>>
  <2>1. ax \in Seq(T) /\ Len(ax) = n + 1 /\ b \in Seq(T)
    BY <1>3, <1>6
  <2> HIDE DEF ax
  <2>2. /\ Len(ax \o b) = Len(ax) + Len(b)
        /\ \A i \in 1..(Len(ax) + Len(b)) :
             (ax \o b)[i] = IF i <= Len(ax) THEN ax[i] ELSE b[i - Len(ax)]
    BY <2>1, ConcatProperties
  <2>3. /\ Len(ax \o b) = n + 1 + Len(b)
        /\ \A i \in 1..(n + 1 + Len(b)) :
             (ax \o b)[i] = IF i <= n + 1 THEN ax[i] ELSE b[i - (n + 1)]
    BY <2>1, <2>2
  <2> QED
    BY <2>3 DEF ax
<1> SUFFICES ASSUME NEW j \in 1..(Len(q) + 1)
             PROVE  InsertAt(q, n + 1, x)[j] =
                      IF j <= n THEN q[j] ELSE IF j = n + 1 THEN x ELSE q[j - 1]
  BY <1>1, <1>3, <1>5, <1>7
<1>j. j \in 1..(n + 1 + Len(b)) /\ InsertAt(q, n + 1, x)[j] = ((a \o <<x>>) \o b)[j]
  <2>1. n + 1 + Len(b) = Len(q) + 1
    BY <1>1, <1>3
  <2> QED
    BY <1>5, <2>1
<1>8. CASE j <= n
  <2>1. j \in 1..n /\ j \in 1..(n + 1) /\ j <= n + 1
    BY <1>1, <1>3, <1>j, <1>8
  <2>2. InsertAt(q, n + 1, x)[j] = (a \o <<x>>)[j]
    BY <1>7, <1>j, <2>1
  <2>3. (a \o <<x>>)[j] = a[j]
    BY <1>6, <1>8, <2>1
  <2> QED
    BY <1>2, <1>8, <2>1, <2>2, <2>3
<1>9. CASE j = n + 1
  <2>1. j \in 1..(n + 1) /\ ~(j <= n) /\ j <= n + 1
    BY <1>1, <1>3, <1>j, <1>9
  <2>2. InsertAt(q, n + 1, x)[j] = (a \o <<x>>)[j]
    BY <1>7, <1>j, <2>1
  <2> QED
    BY <1>6, <1>9, <2>1, <2>2
<1>10. CASE j > n + 1
  <2>1. j - (n + 1) \in 1..(Len(q) - n) /\ n + (j - (n + 1)) = j - 1
    BY <1>1, <1>10
  <2>2. ~(j <= n + 1) /\ ~(j <= n) /\ j # n + 1
    BY <1>1, <1>10
  <2>3. InsertAt(q, n + 1, x)[j] = b[j - (n + 1)]
    BY <1>7, <1>j, <2>2
  <2> QED
    BY <1>3, <2>1, <2>2, <2>3
<1> QED
  BY <1>1, <1>8, <1>9, <1>10

\* The elements of a sequence after an insertion are the old ones and the new one.
LEMMA InsertAtElements ==
  ASSUME NEW S, NEW q \in Seq(S), NEW x, NEW n \in 0..Len(q),
         NEW j \in 1..Len(InsertAt(q, n + 1, x))
  PROVE  \/ InsertAt(q, n + 1, x)[j] = x
         \/ \E i \in 1..Len(q) : InsertAt(q, n + 1, x)[j] = q[i]
<1>1. Len(q) \in Nat
  BY LenProperties
<1>2. j \in 1..(Len(q) + 1)
  BY InsertAtPlaces
<1>3. InsertAt(q, n + 1, x)[j] = IF j <= n THEN q[j] ELSE IF j = n + 1 THEN x ELSE q[j - 1]
  BY <1>2, InsertAtPlaces
<1>4. (j <= n => j \in 1..Len(q)) /\ (~(j <= n) /\ j # n + 1 => j - 1 \in 1..Len(q))
  BY <1>1, <1>2
<1> QED
  BY <1>3, <1>4

\* What the record sets of the model say about a queue after a step that changes its
\* tasks one by one.
LEMMA QueuesMapped ==
  ASSUME TypeOK, NEW g,
         g = [e \in Executor |-> [j \in 1..Len(queue[e]) |-> g[e][j]]],
         \A e \in Executor : \A j \in 1..Len(queue[e]) : g[e][j] \in Task
  PROVE  g \in [Executor -> Seq(Task)]
<1>1. ASSUME NEW e \in Executor
      PROVE  g[e] \in Seq(Task)
  <2>1. Len(queue[e]) \in Nat
    BY LenProperties DEF TypeOK
  <2>2. g[e] = [j \in 1..Len(queue[e]) |-> g[e][j]]
    OBVIOUS
  <2> HIDE DEF Task
  <2> QED
    BY <2>1, <2>2, MapIsSeq
<1> QED
  BY <1>1

\* What waits in a queue is a task.
LEMMA QueuedIsTask ==
  ASSUME TypeOK, NEW e \in Executor, NEW j \in 1..Len(queue[e])
  PROVE  queue[e][j] \in Task
  BY ElementOfSeq DEF TypeOK

\* A task whose flags or waiting time change is still a task.
LEMMA TaskUpdates ==
  ASSUME NEW t \in Task
  PROVE  /\ [t EXCEPT !.orphan = TRUE] \in Task
         /\ [t EXCEPT !.added = TRUE] \in Task
         /\ [t EXCEPT !.cancelled = TRUE] \in Task
         /\ [t EXCEPT !.wait = IF @ > 0 THEN @ - 1 ELSE 0] \in Task
<1>1. /\ t \in TaskRecord
      /\ t.event <= Len(Tasks[t.task])
  BY DEF Task
<1>2. /\ [t EXCEPT !.orphan = TRUE] \in TaskRecord
      /\ [t EXCEPT !.orphan = TRUE].event = t.event
      /\ [t EXCEPT !.orphan = TRUE].task = t.task
  BY <1>1 DEF TaskRecord
<1>3. /\ [t EXCEPT !.added = TRUE] \in TaskRecord
      /\ [t EXCEPT !.added = TRUE].event = t.event
      /\ [t EXCEPT !.added = TRUE].task = t.task
  BY <1>1 DEF TaskRecord
<1>4. /\ [t EXCEPT !.cancelled = TRUE] \in TaskRecord
      /\ [t EXCEPT !.cancelled = TRUE].event = t.event
      /\ [t EXCEPT !.cancelled = TRUE].task = t.task
  BY <1>1 DEF TaskRecord
<1>5. (IF t.wait > 0 THEN t.wait - 1 ELSE 0) \in 0..MaxDelay
  BY <1>1, ConstantsAssumption DEF TaskRecord
<1>6. /\ [t EXCEPT !.wait = IF @ > 0 THEN @ - 1 ELSE 0] \in TaskRecord
      /\ [t EXCEPT !.wait = IF @ > 0 THEN @ - 1 ELSE 0].event = t.event
      /\ [t EXCEPT !.wait = IF @ > 0 THEN @ - 1 ELSE 0].task = t.task
  BY <1>1, <1>5 DEF TaskRecord
<1> QED
  BY <1>1, <1>2, <1>3, <1>4, <1>6 DEF Task

\* Leaving a play (replayRecordFile returns or throws) keeps the types.
LEMMA LeavePlayType ==
  ASSUME TypeOK, NEW r \in Replayer, LeavePlay(r)
  PROVE  /\ queue' \in [Executor -> Seq(Task)]
         /\ running' \in [Executor -> Task \cup {NoTask}]
         /\ sent' \in [Replayer -> SUBSET (Nat \ {0})]
<1>1. \A t \in Task : Orphaned(r, t) \in Task
  BY TaskUpdates DEF Orphaned
<1>2. queue' \in [Executor -> Seq(Task)]
  <2>1. queue' = [e \in Executor |-> [j \in 1..Len(queue[e]) |-> Orphaned(r, queue[e][j])]]
    BY DEF LeavePlay, InEveryQueue, Each
  <2>2. \A e \in Executor : \A j \in 1..Len(queue[e]) : queue'[e][j] \in Task
    BY <1>1, <2>1, QueuedIsTask
  <2> QED
    BY <2>1, <2>2, QueuesMapped
<1>3. running' \in [Executor -> Task \cup {NoTask}]
  BY <1>1 DEF LeavePlay, TypeOK
<1> QED
  BY <1>2, <1>3 DEF LeavePlay, TypeOK

\* The initial state is well typed.
LEMMA InitType == Init => TypeOK
<1> SUFFICES ASSUME Init PROVE TypeOK
  OBVIOUS
<1> USE ConstantsAssumption DEF Init, On
<1>1. NoPlay \in Local
  <2>1. 1 \in 1..RepeatCount /\ 1 \in 1..Len(Tasks)
    OBVIOUS
  <2>2. 0 \in 0..MaxDelay /\ 0 \in 0..Jitter
    OBVIOUS
  <2> QED
    BY <2>1, <2>2 DEF NoPlay, Local, Mode
<1>2. pc \in [Thread -> ReplayStep \cup StopStep]
  BY DEF ReplayStep
<1>3. queue \in [Executor -> Seq(Task)]
  OBVIOUS
<1>4. \A r \in Replayer : pc[r] # "submit"
  BY DEF Thread
<1> QED
  BY <1>1, <1>2, <1>3, <1>4 DEF TypeOK, Outcome

\* The local variables of a thread that plays nothing are well typed.
LEMMA NoPlayType == NoPlay \in Local
<1> USE ConstantsAssumption
<1>1. 1 \in 1..RepeatCount /\ 1 \in 1..Len(Tasks) /\ 0 \in 0..MaxDelay /\ 0 \in 0..Jitter
  OBVIOUS
<1> QED
  BY <1>1 DEF NoPlay, Local, Mode

\* The updates the replay thread makes to its local variables keep their types.
LEMMA LocalUpdates ==
  ASSUME TypeOK, NEW r \in Replayer
  PROVE  /\ \A m \in Mode :
              [loc EXCEPT ![r].mode = m, ![r].round = 1, ![r].task = 1] \in [Replayer -> Local]
         /\ [loc EXCEPT ![r] = [NoPlay EXCEPT !.mode = loc[r].mode]] \in [Replayer -> Local]
         /\ loc[r].task < Len(Tasks) =>
              [loc EXCEPT ![r].task = @ + 1] \in [Replayer -> Local]
         /\ loc[r].round < RepeatCount =>
              [loc EXCEPT ![r].task = 1, ![r].round = @ + 1] \in [Replayer -> Local]
         /\ [loc EXCEPT ![r].next = 1, ![r].elapsed = 0] \in [Replayer -> Local]
         /\ \A d \in 0..MaxDelay :
              [loc EXCEPT ![r].delay = d, ![r].lag = 0] \in [Replayer -> Local]
         /\ [loc EXCEPT ![r].next = @ + 1, ![r].delay = 0, ![r].lag = 0]
              \in [Replayer -> Local]
         /\ \A e \in Executor \cup {NoExecutor} :
              [loc EXCEPT ![r].awaited = e] \in [Replayer -> Local]
         /\ \A gone \in BOOLEAN : [loc EXCEPT ![r].gone = gone] \in [Replayer -> Local]
<1> USE ConstantsAssumption
<1>0. /\ loc \in [Replayer -> Local]
      /\ loc[r] \in Local
  BY DEF TypeOK
<1>z. 0 \in 0..MaxDelay /\ 0 \in 0..Jitter /\ 1 \in Nat \ {0}
  OBVIOUS
<1>1. ASSUME NEW m \in Mode
      PROVE  [loc EXCEPT ![r].mode = m, ![r].round = 1, ![r].task = 1] \in [Replayer -> Local]
  <2>1. 1 \in 1..RepeatCount /\ 1 \in 1..Len(Tasks)
    OBVIOUS
  <2> QED
    BY <1>0, <2>1 DEF Local
<1>2. [loc EXCEPT ![r] = [NoPlay EXCEPT !.mode = loc[r].mode]] \in [Replayer -> Local]
  <2>1. loc[r].mode \in Mode
    BY <1>0 DEF Local
  <2>2. [NoPlay EXCEPT !.mode = loc[r].mode] \in Local
    BY <2>1, NoPlayType DEF Local
  <2> QED
    BY <1>0, <2>2
<1>3. loc[r].task < Len(Tasks) => [loc EXCEPT ![r].task = @ + 1] \in [Replayer -> Local]
  <2>1. loc[r].task < Len(Tasks) => loc[r].task + 1 \in 1..Len(Tasks)
    BY SMTT(30), <1>0 DEF Local
  <2> QED
    BY <1>0, <2>1 DEF Local
<1>4. loc[r].round < RepeatCount =>
        [loc EXCEPT ![r].task = 1, ![r].round = @ + 1] \in [Replayer -> Local]
  <2>1. loc[r].round < RepeatCount => loc[r].round + 1 \in 1..RepeatCount
    BY <1>0 DEF Local
  <2>2. 1 \in 1..Len(Tasks)
    OBVIOUS
  <2> QED
    BY <1>0, <2>1, <2>2 DEF Local
<1>5. [loc EXCEPT ![r].next = 1, ![r].elapsed = 0] \in [Replayer -> Local]
  BY <1>0, <1>z DEF Local
<1>6. ASSUME NEW d \in 0..MaxDelay
      PROVE  [loc EXCEPT ![r].delay = d, ![r].lag = 0] \in [Replayer -> Local]
  BY <1>0, <1>z DEF Local
<1>7. [loc EXCEPT ![r].next = @ + 1, ![r].delay = 0, ![r].lag = 0] \in [Replayer -> Local]
  <2>1. loc[r].next + 1 \in Nat \ {0}
    BY <1>0, <1>z DEF Local
  <2> QED
    BY <1>0, <1>z, <2>1 DEF Local
<1>8. ASSUME NEW e \in Executor \cup {NoExecutor}
      PROVE  [loc EXCEPT ![r].awaited = e] \in [Replayer -> Local]
  BY <1>0, <1>z DEF Local
<1>9. ASSUME NEW gone \in BOOLEAN
      PROVE  [loc EXCEPT ![r].gone = gone] \in [Replayer -> Local]
  BY <1>0 DEF Local
<1> QED
  BY <1>1, <1>2, <1>3, <1>4, <1>5, <1>6, <1>7, <1>8, <1>9

\* An event that is still to come is one of a file that is there.
LEMMA FileWhole ==
  ASSUME TypeOK, NEW r \in Replayer, loc[r].next <= Len(File(r))
  PROVE  ~loc[r].gone /\ File(r) = Tasks[loc[r].task]
<1>1. loc[r].next \in Nat \ {0} /\ loc[r].gone \in BOOLEAN
  BY DEF TypeOK, Local
<1>2. CASE loc[r].gone
  <2>1. Len(File(r)) = 0
    BY <1>2 DEF File
  <2> QED
    BY <1>1, <2>1
<1> QED
  BY <1>1, <1>2 DEF File

\* Where a thread goes is a place that it has.
LEMMA PcType ==
  ASSUME TypeOK, NEW p \in Thread, NEW to \in ReplayStep \cup StopStep
  PROVE  [pc EXCEPT ![p] = to] \in [Thread -> ReplayStep \cup StopStep]
  BY DEF TypeOK

\* Only a thread that is about to submit has to be inside its file.
LEMMA SubmitElsewhere ==
  ASSUME TypeOK, NEW r \in Replayer, NEW to, to # "submit",
         pc' = [pc EXCEPT ![r] = to],
         loc' \in [Replayer -> Local],
         \A x \in Replayer \ {r} : loc'[x] = loc[x]
  PROVE  \A x \in Replayer : pc'[x] = "submit" => loc'[x].next <= Len(Tasks[loc'[x].task])
<1> TAKE x \in Replayer
<1>1. CASE x = r
  BY <1>1 DEF TypeOK, Thread
<1>2. CASE x # r
  BY <1>2 DEF TypeOK, Thread
<1> QED
  BY <1>1, <1>2

\* What is left of a delay is within the bound.
LEMMA TimeLeftRange ==
  \A d, elapsed \in 0..MaxDelay : (IF d > elapsed THEN d - elapsed ELSE 0) \in 0..MaxDelay
<1> MaxDelay \in Nat
  BY ConstantsAssumption
<1> QED
  OBVIOUS

\* Every step keeps the types.
LEMMA StepType == TypeOK /\ [Next]_vars => TypeOK'
<1> SUFFICES ASSUME TypeOK, [Next]_vars PROVE TypeOK'
  OBVIOUS
<1>r. ASSUME NEW r \in Replayer, ReplayerNext(r) PROVE TypeOK'
  <2> USE DEF shared, ghosts
  <2>0. loc \in [Replayer -> Local]
    BY DEF TypeOK
  <2>1. CASE Start(r)
    <3>1. loc' \in [Replayer -> Local] /\ \A x \in Replayer \ {r} : loc'[x] = loc[x]
      <4>1. PICK m \in Mode : loc' = [loc EXCEPT ![r].mode = m, ![r].round = 1, ![r].task = 1]
        BY <2>1 DEF Start
      <4>2. loc' \in [Replayer -> Local]
        BY <4>1, LocalUpdates
      <4> QED
        BY <4>1, <4>2 DEF TypeOK
    <3>2. pc' = [pc EXCEPT ![r] = "load"]
      BY <2>1 DEF Start, Goto, On, Outcome
    <3>3. pc' \in [Thread -> ReplayStep \cup StopStep]
      BY <3>2, PcType DEF Thread, ReplayStep, Playing
    <3>4. \A x \in Replayer : pc'[x] = "submit" => loc'[x].next <= Len(Tasks[loc'[x].task])
      BY <3>1, <3>2, SubmitElsewhere
    <3> QED
      BY <2>1, <3>1, <3>3, <3>4 DEF Start, Goto, On, Outcome, TypeOK
  <2>2. CASE Played(r)
    <3>1. loc' \in [Replayer -> Local] /\ \A x \in Replayer \ {r} : loc'[x] = loc[x]
      <4>1. loc' = loc \/ loc' = [loc EXCEPT ![r] = [NoPlay EXCEPT !.mode = loc[r].mode]]
        BY <2>2 DEF Played, Return
      <4>2. CASE loc' = loc
        BY <2>0, <4>2
      <4>3. CASE loc' = [loc EXCEPT ![r] = [NoPlay EXCEPT !.mode = loc[r].mode]]
        BY <2>0, <4>3, LocalUpdates
      <4> QED
        BY <4>1, <4>2, <4>3
    <3>2. pc' = [pc EXCEPT ![r] = "idle"] \/ pc' = [pc EXCEPT ![r] = "sleep"]
      BY <2>2 DEF Played, Goto, Return, Outcome
    <3>3. pc' \in [Thread -> ReplayStep \cup StopStep]
      BY <3>2, PcType DEF Thread, ReplayStep, Playing
    <3>4. \A x \in Replayer : pc'[x] = "submit" => loc'[x].next <= Len(Tasks[loc'[x].task])
      BY <3>1, <3>2, SubmitElsewhere
    <3> QED
      BY <2>2, <3>1, <3>3, <3>4 DEF Played, Goto, Return, Outcome, TypeOK
  <2>3. CASE Wake(r)
    <3>1. loc' \in [Replayer -> Local] /\ \A x \in Replayer \ {r} : loc'[x] = loc[x]
      <4>1. \/ loc[r].task < Len(Tasks) /\ loc' = [loc EXCEPT ![r].task = @ + 1]
            \/ /\ loc[r].round < RepeatCount
               /\ loc' = [loc EXCEPT ![r].task = 1, ![r].round = @ + 1]
            \/ loc' = [loc EXCEPT ![r] = [NoPlay EXCEPT !.mode = loc[r].mode]]
        BY <2>3 DEF Wake, Return
      <4>2. CASE loc[r].task < Len(Tasks) /\ loc' = [loc EXCEPT ![r].task = @ + 1]
        BY <2>0, <4>2, LocalUpdates
      <4>3. CASE /\ loc[r].round < RepeatCount
                 /\ loc' = [loc EXCEPT ![r].task = 1, ![r].round = @ + 1]
        BY <2>0, <4>3, LocalUpdates
      <4>4. CASE loc' = [loc EXCEPT ![r] = [NoPlay EXCEPT !.mode = loc[r].mode]]
        BY <2>0, <4>4, LocalUpdates
      <4> QED
        BY <4>1, <4>2, <4>3, <4>4
    <3>2. pc' = [pc EXCEPT ![r] = "idle"] \/ pc' = [pc EXCEPT ![r] = "load"]
      BY <2>3 DEF Wake, Goto, Return, Outcome
    <3>3. pc' \in [Thread -> ReplayStep \cup StopStep]
      <4>1. "idle" \in ReplayStep /\ "load" \in ReplayStep
        BY DEF ReplayStep
      <4> QED
        BY <3>2, <4>1, PcType DEF Thread
    <3>4. \A x \in Replayer : pc'[x] = "submit" => loc'[x].next <= Len(Tasks[loc'[x].task])
      BY <3>1, <3>2, SubmitElsewhere
    <3> QED
      BY <2>3, <3>1, <3>3, <3>4 DEF Wake, Goto, Return, Outcome, TypeOK
  <2>4. CASE Enter(r)
    <3>1. loc' \in [Replayer -> Local] /\ \A x \in Replayer \ {r} : loc'[x] = loc[x]
      <4>1. loc' = loc \/ loc' = [loc EXCEPT ![r].next = 1, ![r].elapsed = 0]
        BY <2>4 DEF Enter, BeginPlay
      <4>2. CASE loc' = loc
        BY <2>0, <4>2
      <4>3. CASE loc' = [loc EXCEPT ![r].next = 1, ![r].elapsed = 0]
        BY <2>0, <4>3, LocalUpdates
      <4> QED
        BY <4>1, <4>2, <4>3
    <3>2. pc' = [pc EXCEPT ![r] = "create"] \/ pc' = [pc EXCEPT ![r] = "check"]
      BY <2>4 DEF Enter, Goto, BeginPlay
    <3>3. pc' \in [Thread -> ReplayStep \cup StopStep]
      BY <3>2, PcType DEF Thread, ReplayStep, Playing
    <3>4. \A x \in Replayer : pc'[x] = "submit" => loc'[x].next <= Len(Tasks[loc'[x].task])
      BY <3>1, <3>2, SubmitElsewhere
    <3>5. sent' \in [Replayer -> SUBSET (Nat \ {0})]
      BY <2>4 DEF Enter, BeginPlay, TypeOK
    <3> QED
      BY <2>4, <3>1, <3>3, <3>4, <3>5 DEF Enter, Goto, TypeOK
  <2>5. CASE Create(r)
    <3>1. loc' \in [Replayer -> Local] /\ \A x \in Replayer \ {r} : loc'[x] = loc[x]
      BY <2>5, LocalUpdates DEF Create, Goto, BeginPlay, TypeOK
    <3>2. pc' = [pc EXCEPT ![r] = "check"]
      BY <2>5 DEF Create, Goto, BeginPlay
    <3>3. pc' \in [Thread -> ReplayStep \cup StopStep]
      BY <3>2, PcType DEF Thread, ReplayStep, Playing
    <3>4. \A x \in Replayer : pc'[x] = "submit" => loc'[x].next <= Len(Tasks[loc'[x].task])
      BY <3>1, <3>2, SubmitElsewhere
    <3> QED
      BY <2>5, <3>1, <3>3, <3>4 DEF Create, Goto, BeginPlay, TypeOK
  <2>6. CASE CheckGoesOn(r)
    <3>1. TimeLeft(r) \in 0..MaxDelay
      <4>1. /\ loc[r].task \in 1..Len(Tasks) /\ loc[r].elapsed \in 0..MaxDelay
            /\ loc[r].next \in Nat \ {0} /\ loc[r].next <= Len(File(r))
        BY <2>6 DEF CheckGoesOn, TypeOK, Local
      <4>2. File(r) \in Seq(Event)
        <5>1. File(r) = Tasks[loc[r].task]
          BY <4>1, FileWhole
        <5>2. Tasks \in Seq(Seq(Event))
          BY ConstantsAssumption
        <5> QED
          BY <4>1, <5>1, <5>2, ElementOfSeq
      <4>3. File(r)[loc[r].next] \in Event
        BY <4>1, <4>2, ElementOfSeq
      <4>4. File(r)[loc[r].next].delay \in 0..MaxDelay
        BY <4>3 DEF Event
      <4> QED
        BY <4>1, <4>4, TimeLeftRange DEF TimeLeft
    <3>2. loc' \in [Replayer -> Local]
      BY <2>6, <3>1, LocalUpdates DEF CheckGoesOn
    <3>3. pc' \in [Thread -> ReplayStep \cup StopStep]
      BY <2>6, PcType DEF CheckGoesOn, Goto, Thread, ReplayStep, Playing
    <3>4. \A x \in Replayer : pc'[x] = "submit" => loc'[x].next <= Len(Tasks[loc'[x].task])
      <4>1. /\ loc'[r].next = loc[r].next /\ loc'[r].task = loc[r].task
            /\ \A x \in Replayer \ {r} : loc'[x] = loc[x] /\ pc'[x] = pc[x]
        BY <2>6 DEF CheckGoesOn, Goto, TypeOK, Local, Thread
      <4>2. loc[r].next <= Len(Tasks[loc[r].task])
        BY <2>6, FileWhole DEF CheckGoesOn
      <4> QED
        BY <4>1, <4>2 DEF TypeOK
    <3> QED
      BY <2>6, <3>2, <3>3, <3>4 DEF CheckGoesOn, TypeOK
  <2>7. CASE CheckAborts(r)
    <3>1. loc' \in [Replayer -> Local] /\ \A x \in Replayer \ {r} : loc'[x] = loc[x]
      BY <2>7 DEF CheckAborts, TypeOK
    <3>2. pc' = [pc EXCEPT ![r] = "played"]
      BY <2>7 DEF CheckAborts, Goto
    <3>3. pc' \in [Thread -> ReplayStep \cup StopStep]
      BY <3>2, PcType DEF Thread, ReplayStep, Playing
    <3>4. \A x \in Replayer : pc'[x] = "submit" => loc'[x].next <= Len(Tasks[loc'[x].task])
      BY <3>1, <3>2, SubmitElsewhere
    <3>5. /\ queue' \in [Executor -> Seq(Task)]
          /\ running' \in [Executor -> Task \cup {NoTask}]
          /\ sent' \in [Replayer -> SUBSET (Nat \ {0})]
      BY <2>7, LeavePlayType DEF CheckAborts
    <3> QED
      BY <2>7, <3>1, <3>3, <3>4, <3>5, ConstantsAssumption DEF CheckAborts, Goto, TypeOK
  <2>8. CASE CheckEnds(r)
    <3>1. loc' \in [Replayer -> Local] /\ \A x \in Replayer \ {r} : loc'[x] = loc[x]
      BY <2>8 DEF CheckEnds, TypeOK
    <3>2. pc' = [pc EXCEPT ![r] = "shutdown"]
      BY <2>8 DEF CheckEnds, Goto
    <3>3. pc' \in [Thread -> ReplayStep \cup StopStep]
      BY <3>2, PcType DEF Thread, ReplayStep, Playing
    <3>4. \A x \in Replayer : pc'[x] = "submit" => loc'[x].next <= Len(Tasks[loc'[x].task])
      BY <3>1, <3>2, SubmitElsewhere
    <3> QED
      BY <2>8, <3>1, <3>3, <3>4 DEF CheckEnds, Goto, TypeOK
  <2>9. CASE Submit(r)
    <3>1. loc' \in [Replayer -> Local] /\ \A x \in Replayer \ {r} : loc'[x] = loc[x]
      BY <2>9, LocalUpdates DEF Submit, Goto, TypeOK
    <3>2. pc' = [pc EXCEPT ![r] = "add"]
      BY <2>9 DEF Submit, Goto
    <3>3. pc' \in [Thread -> ReplayStep \cup StopStep]
      BY <3>2, PcType DEF Thread, ReplayStep, Playing
    <3>4. \A x \in Replayer : pc'[x] = "submit" => loc'[x].next <= Len(Tasks[loc'[x].task])
      BY <3>1, <3>2, SubmitElsewhere
    <3>5. queue' \in [Executor -> Seq(Task)]
      <4> DEFINE t == [owner |-> r, task |-> loc[r].task, event |-> loc[r].next,
                       wait |-> loc[r].delay, added |-> FALSE, cancelled |-> FALSE,
                       orphan |-> FALSE]
      <4>1. /\ loc[r].task \in 1..Len(Tasks) /\ loc[r].next \in Nat \ {0}
            /\ loc[r].delay \in 0..MaxDelay
            /\ loc[r].next <= Len(Tasks[loc[r].task])
        BY <2>9 DEF Submit, Goto, TypeOK, Local
      <4>2. t \in Task
        BY <4>1 DEF Task, TaskRecord
      <4> HIDE DEF t
      <4>3. scheduler \in Executor /\ queue[scheduler] \in Seq(Task)
        BY DEF TypeOK
      <4>4. PICK n \in 0..Len(queue[scheduler]) :
              queue' = [queue EXCEPT ![scheduler] = InsertAt(@, n + 1, t)]
        BY <2>9 DEF Submit, Enqueue, t
      <4>5. InsertAt(queue[scheduler], n + 1, t) \in Seq(Task)
        BY <4>2, <4>3, InsertAtType
      <4> QED
        BY <4>3, <4>4, <4>5 DEF TypeOK
    <3> QED
      BY <2>9, <3>1, <3>3, <3>4, <3>5 DEF Submit, TypeOK
  <2>10. CASE Rejected(r)
    <3>1. loc' \in [Replayer -> Local] /\ \A x \in Replayer \ {r} : loc'[x] = loc[x]
      BY <2>10, LocalUpdates DEF Rejected, Throw, Return, Outcome, TypeOK
    <3>2. pc' = [pc EXCEPT ![r] = "idle"]
      BY <2>10 DEF Rejected, Throw, Return, Outcome
    <3>3. pc' \in [Thread -> ReplayStep \cup StopStep]
      BY <3>2, PcType DEF Thread, ReplayStep, Playing
    <3>4. \A x \in Replayer : pc'[x] = "submit" => loc'[x].next <= Len(Tasks[loc'[x].task])
      BY <3>1, <3>2, SubmitElsewhere
    <3>5. /\ queue' \in [Executor -> Seq(Task)]
          /\ running' \in [Executor -> Task \cup {NoTask}]
          /\ sent' \in [Replayer -> SUBSET (Nat \ {0})]
      BY <2>10, LeavePlayType DEF Rejected
    <3> QED
      BY <2>10, <3>1, <3>3, <3>4, <3>5 DEF Rejected, Throw, Return, Outcome, TypeOK
  <2>11. CASE Add(r)
    <3>1. loc' \in [Replayer -> Local] /\ \A x \in Replayer \ {r} : loc'[x] = loc[x]
      BY <2>11 DEF Add, TypeOK
    <3>2. pc' = [pc EXCEPT ![r] = "check"]
      BY <2>11 DEF Add, Goto, On
    <3>3. pc' \in [Thread -> ReplayStep \cup StopStep]
      BY <3>2, PcType DEF Thread, ReplayStep, Playing
    <3>4. \A x \in Replayer : pc'[x] = "submit" => loc'[x].next <= Len(Tasks[loc'[x].task])
      BY <3>1, <3>2, SubmitElsewhere
    <3>5. queue' \in [Executor -> Seq(Task)]
      <4> DEFINE F(t) == IF t.owner = r /\ ~t.orphan THEN [t EXCEPT !.added = TRUE] ELSE t
      <4>1. queue' = [e \in Executor |-> [j \in 1..Len(queue[e]) |-> F(queue[e][j])]]
        BY <2>11 DEF Add, InEveryQueue, Each
      <4>2. \A t \in Task : F(t) \in Task
        BY TaskUpdates
      <4> HIDE DEF F
      <4>3. \A e \in Executor : \A j \in 1..Len(queue[e]) : queue'[e][j] \in Task
        BY <4>1, <4>2, QueuedIsTask
      <4> QED
        BY <4>1, <4>3, QueuesMapped
    <3> QED
      BY <2>11, <3>1, <3>3, <3>4, <3>5 DEF Add, On, TypeOK
  <2>12. CASE Shutdown(r)
    <3>1. loc' \in [Replayer -> Local] /\ \A x \in Replayer \ {r} : loc'[x] = loc[x]
      BY <2>12 DEF Shutdown, TypeOK
    <3>2. pc' = [pc EXCEPT ![r] = "awaiting"]
      BY <2>12 DEF Shutdown, Goto
    <3>3. pc' \in [Thread -> ReplayStep \cup StopStep]
      BY <3>2, PcType DEF Thread, ReplayStep, Playing
    <3>4. \A x \in Replayer : pc'[x] = "submit" => loc'[x].next <= Len(Tasks[loc'[x].task])
      BY <3>1, <3>2, SubmitElsewhere
    <3> QED
      BY <2>12, <3>1, <3>3, <3>4 DEF Shutdown, Goto, TypeOK
  <2>13. CASE AwaitTermination(r)
    <3>1. loc' \in [Replayer -> Local] /\ \A x \in Replayer \ {r} : loc'[x] = loc[x]
      BY <2>13, LocalUpdates DEF AwaitTermination, Goto, TypeOK
    <3>2. pc' = [pc EXCEPT ![r] = "await"]
      BY <2>13 DEF AwaitTermination, Goto
    <3>3. pc' \in [Thread -> ReplayStep \cup StopStep]
      BY <3>2, PcType DEF Thread, ReplayStep, Playing
    <3>4. \A x \in Replayer : pc'[x] = "submit" => loc'[x].next <= Len(Tasks[loc'[x].task])
      BY <3>1, <3>2, SubmitElsewhere
    <3> QED
      BY <2>13, <3>1, <3>3, <3>4 DEF AwaitTermination, Goto, TypeOK
  <2>14. CASE Awaited(r)
    <3>1. loc' \in [Replayer -> Local] /\ \A x \in Replayer \ {r} : loc'[x] = loc[x]
      BY <2>14, LocalUpdates DEF Awaited, Goto, TypeOK
    <3>2. pc' = [pc EXCEPT ![r] = "played"]
      BY <2>14 DEF Awaited, Goto
    <3>3. pc' \in [Thread -> ReplayStep \cup StopStep]
      BY <3>2, PcType DEF Thread, ReplayStep, Playing
    <3>4. \A x \in Replayer : pc'[x] = "submit" => loc'[x].next <= Len(Tasks[loc'[x].task])
      BY <3>1, <3>2, SubmitElsewhere
    <3>5. /\ queue' \in [Executor -> Seq(Task)]
          /\ running' \in [Executor -> Task \cup {NoTask}]
          /\ sent' \in [Replayer -> SUBSET (Nat \ {0})]
      BY <2>14, LeavePlayType DEF Awaited
    <3> QED
      <4>1. plays' \in [Replayer -> Nat]
        BY <2>14 DEF Awaited, TypeOK
      <4> QED
        BY <2>14, <3>1, <3>3, <3>4, <3>5, <4>1 DEF Awaited, TypeOK
  <2>15. CASE Load(r)
    <3>1. loc' \in [Replayer -> Local] /\ \A x \in Replayer \ {r} : loc'[x] = loc[x]
      <4>1. PICK gone \in BOOLEAN : loc' = [loc EXCEPT ![r].gone = gone]
        BY <2>15 DEF Load
      <4>2. loc' \in [Replayer -> Local]
        BY <4>1, LocalUpdates
      <4> QED
        BY <4>1, <4>2 DEF TypeOK
    <3>2. pc' = [pc EXCEPT ![r] = "enter"]
      BY <2>15 DEF Load, Goto
    <3>3. pc' \in [Thread -> ReplayStep \cup StopStep]
      BY <3>2, PcType DEF Thread, ReplayStep, Playing
    <3>4. \A x \in Replayer : pc'[x] = "submit" => loc'[x].next <= Len(Tasks[loc'[x].task])
      BY <3>1, <3>2, SubmitElsewhere
    <3> QED
      BY <2>15, <3>1, <3>3, <3>4 DEF Load, TypeOK
  <2>t. ASSUME Throw(r),
               UNCHANGED <<shared, modified, host, sent, plays, halted, late>>
        PROVE  TypeOK'
    <3>1. loc' \in [Replayer -> Local] /\ \A x \in Replayer \ {r} : loc'[x] = loc[x]
      BY <2>t, LocalUpdates DEF Throw, Return, TypeOK
    <3>2. pc' = [pc EXCEPT ![r] = "idle"]
      BY <2>t DEF Throw, Return
    <3>3. pc' \in [Thread -> ReplayStep \cup StopStep]
      BY <3>2, PcType DEF Thread, ReplayStep, Playing
    <3>4. \A x \in Replayer : pc'[x] = "submit" => loc'[x].next <= Len(Tasks[loc'[x].task])
      BY <3>1, <3>2, SubmitElsewhere
    <3> QED
      BY <2>t, <3>1, <3>3, <3>4 DEF Throw, Return, Outcome, TypeOK
  <2>16. CASE LoadThrows(r)
    BY <2>t, <2>16 DEF LoadThrows
  <2>17. CASE SleepThrows(r)
    BY <2>t, <2>17 DEF SleepThrows
  <2> QED
    BY <1>r, <2>1, <2>2, <2>3, <2>4, <2>5, <2>6, <2>7, <2>8, <2>9, <2>10, <2>11, <2>12,
      <2>13, <2>14, <2>15, <2>16, <2>17 DEF ReplayerNext
<1>e. ASSUME NEW e \in Executor, WorkerNext(e) PROVE TypeOK'
  <2>1. CASE Take(e)
    <3>1. Head(queue[e]) \in Task /\ Tail(queue[e]) \in Seq(Task)
      BY <2>1, HeadTailProperties DEF Take, TypeOK
    <3> QED
      BY <2>1, <3>1 DEF Take, TypeOK, ghosts
  <2>2. CASE Send(e)
    <3>1. running[e] \in Task
      BY <2>2 DEF Send, TypeOK
    <3>2. /\ running[e].task \in 1..Len(Tasks) /\ running[e].owner \in Replayer
          /\ running[e].event \in Nat \ {0}
          /\ running[e].event <= Len(Tasks[running[e].task])
      BY <3>1 DEF Task, TaskRecord
    <3>3. Tasks[running[e].task] \in Seq(Event)
      BY <3>2, ElementOfSeq, ConstantsAssumption
    <3>4. Tasks[running[e].task][running[e].event] \in Event
      BY <3>2, <3>3, ElementOfSeq
    <3>5. host' \in Report
      BY <2>2, <3>4 DEF Send, Event
    <3>6. sent' \in [Replayer -> SUBSET (Nat \ {0})]
      <4>1. \/ sent' = sent
            \/ sent' = [sent EXCEPT ![running[e].owner] = @ \cup {running[e].event}]
        BY <2>2 DEF Send
      <4>2. sent \in [Replayer -> SUBSET (Nat \ {0})]
        BY DEF TypeOK
      <4>3. CASE sent' = sent
        BY <4>2, <4>3
      <4>4. CASE sent' = [sent EXCEPT ![running[e].owner] = @ \cup {running[e].event}]
        <5> DEFINE o == running[e].owner
                   i == running[e].event
        <5>1. o \in Replayer /\ sent[o] \cup {i} \in SUBSET (Nat \ {0})
          BY <3>2, <4>2
        <5> HIDE DEF o, i
        <5>2. sent' = [sent EXCEPT ![o] = sent[o] \cup {i}]
          BY <4>4 DEF o, i
        <5> QED
          BY <4>2, <5>1, <5>2
      <4> QED
        BY <4>1, <4>3, <4>4
    <3>7. late' \in [Executor -> Nat]
      BY <2>2 DEF Send, TypeOK
    <3> QED
      BY <2>2, <3>5, <3>6, <3>7 DEF Send, TypeOK
  <2> QED
    BY <1>e, <2>1, <2>2 DEF WorkerNext
<1>s. ASSUME NEW s \in Stopper, StopperNext(s) PROVE TypeOK'
  <2> USE DEF shared, ghosts
  <2>0. ASSUME NEW to \in StopStep, pc' = [pc EXCEPT ![s] = to], UNCHANGED loc
        PROVE  /\ pc' \in [Thread -> ReplayStep \cup StopStep]
               /\ \A x \in Replayer :
                    pc'[x] = "submit" => loc'[x].next <= Len(Tasks[loc'[x].task])
    <3>1. pc' \in [Thread -> ReplayStep \cup StopStep]
      BY <2>0, PcType DEF Thread
    <3>2. \A x \in Replayer : pc'[x] = pc[x]
      BY <2>0, ConstantsAssumption DEF TypeOK, Thread
    <3> QED
      BY <2>0, <3>1, <3>2 DEF TypeOK
  <2>1. CASE Stop(s)
    <3>1. pc' = [pc EXCEPT ![s] = "iterator"] /\ UNCHANGED loc
      BY <2>1 DEF Stop, Goto
    <3>2. "iterator" \in StopStep
      BY DEF StopStep
    <3> QED
      BY <2>0, <2>1, <3>1, <3>2 DEF Stop, TypeOK
  <2>2. CASE StopIterator(s)
    <3>1. pc' = [pc EXCEPT ![s] = "forEach"] /\ UNCHANGED loc
      BY <2>2 DEF StopIterator, Goto
    <3>2. "forEach" \in StopStep
      BY DEF StopStep
    <3> QED
      BY <2>0, <2>2, <3>1, <3>2 DEF StopIterator, TypeOK
  <2>3. CASE StopCancels(s)
    <3>1. pc' = [pc EXCEPT ![s] = "shutdownNow"] /\ UNCHANGED loc
      BY <2>3 DEF StopCancels, Goto
    <3>2. "shutdownNow" \in StopStep
      BY DEF StopStep
    <3>3. queue' \in [Executor -> Seq(Task)]
      <4> DEFINE F(t) == IF t.added THEN [t EXCEPT !.cancelled = TRUE] ELSE t
      <4>1. queue' = [e \in Executor |-> [j \in 1..Len(queue[e]) |-> F(queue[e][j])]]
        BY <2>3 DEF StopCancels, InEveryQueue, Each
      <4>2. \A t \in Task : F(t) \in Task
        BY TaskUpdates
      <4> HIDE DEF F
      <4>3. \A e \in Executor : \A j \in 1..Len(queue[e]) : queue'[e][j] \in Task
        BY <4>1, <4>2, QueuedIsTask
      <4> QED
        BY <4>1, <4>3, QueuesMapped
    <3> QED
      BY <2>0, <2>3, <3>1, <3>2, <3>3 DEF StopCancels, TypeOK
  <2>4. CASE StopThrows(s)
    <3>1. pc' = [pc EXCEPT ![s] = "idle"] /\ UNCHANGED loc
      BY <2>4 DEF StopThrows, Goto
    <3>2. "idle" \in StopStep
      BY DEF StopStep
    <3> QED
      BY <2>0, <2>4, <3>1, <3>2 DEF StopThrows, TypeOK
  <2>5. CASE StopShutsDown(s)
    <3>1. pc' = [pc EXCEPT ![s] = "signal"] /\ UNCHANGED loc
      BY <2>5 DEF StopShutsDown, Goto
    <3>2. "signal" \in StopStep
      BY DEF StopStep
    <3>3. queue' \in [Executor -> Seq(Task)]
      <4>1. << >> \in Seq(Task)
        BY EmptySeq
      <4> QED
        BY <2>5, <4>1 DEF StopShutsDown, TypeOK
    <3>4. shut' \subseteq Executor
      BY <2>5 DEF StopShutsDown, TypeOK
    <3> QED
      BY <2>0, <2>5, <3>1, <3>2, <3>3, <3>4 DEF StopShutsDown, TypeOK
  <2>6. CASE StopSignals(s)
    <3>1. pc' = [pc EXCEPT ![s] = "idle"] /\ UNCHANGED loc
      BY <2>6 DEF StopSignals, Goto
    <3>2. "idle" \in StopStep
      BY DEF StopStep
    <3> QED
      BY <2>0, <2>6, <3>1, <3>2, ConstantsAssumption DEF StopSignals, TypeOK
  <2> QED
    BY <1>s, <2>1, <2>2, <2>3, <2>4, <2>5, <2>6 DEF StopperNext
<1>t. CASE Tick
  <2>1. queue' \in [Executor -> Seq(Task)]
    <3> DEFINE F(t) == [t EXCEPT !.wait = IF @ > 0 THEN @ - 1 ELSE 0]
    <3>1. queue' = [e \in Executor |-> [j \in 1..Len(queue[e]) |-> F(queue[e][j])]]
      BY <1>t DEF Tick, InEveryQueue, Each
    <3>2. \A t \in Task : F(t) \in Task
      BY TaskUpdates
    <3> HIDE DEF F
    <3>3. \A e \in Executor : \A j \in 1..Len(queue[e]) : queue'[e][j] \in Task
      BY <3>1, <3>2, QueuedIsTask
    <3> QED
      BY <3>1, <3>3, QueuesMapped
  <2>2. ASSUME NEW r \in Replayer
        PROVE  /\ loc'[r] \in Local
               /\ loc'[r].next = loc[r].next /\ loc'[r].task = loc[r].task
    <3> DEFINE lag == IF pc[r] = "submit" THEN loc[r].lag + 1 ELSE loc[r].lag
               el == IF pc[r] \in Playing /\ loc[r].elapsed < MaxDelay
                       THEN loc[r].elapsed + 1 ELSE loc[r].elapsed
    <3>1. loc'[r] = [loc[r] EXCEPT !.lag = lag, !.elapsed = el]
      BY <1>t DEF Tick
    <3>2. loc[r] \in Local
      BY DEF TypeOK
    <3>a. loc[r].lag \in 0..Jitter /\ loc[r].elapsed \in 0..MaxDelay
      BY <3>2 DEF Local
    <3>3. lag \in 0..Jitter
      <4>1. pc[r] = "submit" => loc[r].lag < Jitter
        BY <1>t DEF Tick, CanTick
      <4> QED
        BY <3>a, <4>1, ConstantsAssumption
    <3>4. el \in 0..MaxDelay
      BY <3>a, ConstantsAssumption
    <3> HIDE DEF lag, el
    <3> QED
      BY <3>1, <3>2, <3>3, <3>4 DEF Local
  <2>3. loc' \in [Replayer -> Local]
    BY <1>t, <2>2 DEF Tick
  <2> QED
    BY <1>t, <2>1, <2>2, <2>3 DEF Tick, TypeOK, ghosts
<1>l. CASE Relaunch
  <2>1. pc' \in [Thread -> ReplayStep \cup StopStep]
    BY <1>l DEF Relaunch, On, ReplayStep
  <2>2. queue' \in [Executor -> Seq(Task)]
    BY <1>l DEF Relaunch, On
  <2>3. \A r \in Replayer : pc'[r] # "submit"
    BY <1>l DEF Relaunch, On, Thread
  <2>4. loc' \in [Replayer -> Local]
    BY <1>l, NoPlayType DEF Relaunch, On
  <2> QED
    BY <1>l, <2>1, <2>2, <2>3, <2>4, ConstantsAssumption DEF Relaunch, On, TypeOK, Outcome
<1>v. CASE UNCHANGED vars
  BY <1>v DEF vars, shared, ghosts, TypeOK
<1> QED
  BY <1>r, <1>e, <1>s, <1>t, <1>l, <1>v DEF Next, Step

\* Every reachable state is well typed; above all, the worker never looks for a report
\* outside the file it was scheduled from.
THEOREM TypeCorrect == Spec => []TypeOK
  BY InitType, StepType, PTL DEF Spec
-----------------------------------------------------------------------------
(* LateAtMostOne *)

InFlight(e) == IF running[e] = NoTask THEN 0 ELSE 1

\* Inductive: while the flag is up, what an executor has sent since and what its worker
\* is about to send are one report together.  The worker takes nothing new then.
LateInv ==
  \A e \in Executor :
    IF stopFlag THEN late[e] + InFlight(e) <= 1 ELSE late[e] = 0

\* Every step keeps what an executor may still send below two reports once stopFlag is up.
LEMMA LateStep == TypeOK /\ LateInv /\ [Next]_vars => LateInv'
<1> SUFFICES ASSUME TypeOK, LateInv, [Next]_vars PROVE LateInv'
  OBVIOUS
<1>0. /\ late \in [Executor -> Nat] /\ stopFlag \in BOOLEAN
      /\ running \in [Executor -> Task \cup {NoTask}]
  BY DEF TypeOK
<1> HIDE DEF Task
<1>k. ASSUME UNCHANGED <<stopFlag, late>>,
             \A e \in Executor : running[e] = NoTask => running'[e] = NoTask
      PROVE  LateInv'
  BY <1>0, <1>k DEF LateInv, InFlight
<1>u. ASSUME stopFlag' = TRUE, UNCHANGED <<late, running>> PROVE LateInv'
  BY <1>0, <1>u DEF LateInv, InFlight
<1>r. ASSUME NEW r \in Replayer, ReplayerNext(r) PROVE LateInv'
  <2> USE DEF shared, ghosts
  <2>0. ASSUME LeavePlay(r) 
        PROVE  \A e \in Executor : running[e] = NoTask => running'[e] = NoTask
    BY <2>0 DEF LeavePlay
  <2>1. CASE Start(r)
    BY <2>1 DEF Start, On, LateInv
  <2>2. CASE Played(r)
    BY <1>k, <1>u, <2>2 DEF Played
  <2>3. CASE Wake(r)
    BY <1>k, <1>u, <2>3 DEF Wake
  <2>4. CASE Enter(r)
    BY <1>k, <2>4 DEF Enter
  <2>5. CASE Create(r)
    BY <1>k, <2>5 DEF Create
  <2>6. CASE CheckGoesOn(r)
    BY <1>k, <2>6 DEF CheckGoesOn
  <2>7. CASE CheckAborts(r)
    BY <1>k, <2>0, <2>7 DEF CheckAborts
  <2>8. CASE CheckEnds(r)
    BY <1>k, <2>8 DEF CheckEnds
  <2>9. CASE Submit(r)
    BY <1>k, <2>9 DEF Submit
  <2>10. CASE Rejected(r)
    BY <1>k, <2>0, <2>10 DEF Rejected
  <2>11. CASE Add(r)
    BY <1>k, <2>11 DEF Add
  <2>12. CASE Shutdown(r)
    BY <1>k, <2>12 DEF Shutdown
  <2>13. CASE AwaitTermination(r)
    BY <1>k, <2>13 DEF AwaitTermination
  <2>14. CASE Awaited(r)
    BY <1>k, <2>0, <2>14 DEF Awaited
  <2>15. CASE Load(r)
    BY <1>k, <2>15 DEF Load
  <2>16. CASE LoadThrows(r)
    BY <1>k, <2>16 DEF LoadThrows
  <2>17. CASE SleepThrows(r)
    BY <1>k, <2>17 DEF SleepThrows
  <2> QED
    BY <1>r, <2>1, <2>2, <2>3, <2>4, <2>5, <2>6, <2>7, <2>8, <2>9, <2>10, <2>11, <2>12,
      <2>13, <2>14, <2>15, <2>16, <2>17 DEF ReplayerNext
<1>e. ASSUME NEW e \in Executor, WorkerNext(e) PROVE LateInv'
  <2>1. CASE Take(e)
    <3>1. CASE stopFlag
      BY <1>0, <1>k, <2>1, <3>1 DEF Take, ghosts
    <3>2. CASE ~stopFlag
      BY <1>0, <2>1, <3>2 DEF Take, LateInv, ghosts
    <3> QED
      BY <3>1, <3>2
  <2>2. CASE Send(e)
    <3>1. CASE stopFlag
      BY <1>0, <2>2, <3>1 DEF Send, LateInv, InFlight
    <3>2. CASE ~stopFlag
      BY <1>0, <2>2, <3>2 DEF Send, LateInv
    <3> QED
      BY <3>1, <3>2
  <2> QED
    BY <1>e, <2>1, <2>2 DEF WorkerNext
<1>s. ASSUME NEW s \in Stopper, StopperNext(s) PROVE LateInv'
  <2> USE DEF shared, ghosts
  <2>1. CASE Stop(s)
    BY <1>u, <2>1 DEF Stop
  <2>2. CASE StopIterator(s)
    BY <1>k, <2>2 DEF StopIterator
  <2>3. CASE StopCancels(s)
    BY <1>k, <2>3 DEF StopCancels
  <2>4. CASE StopThrows(s)
    BY <1>k, <2>4 DEF StopThrows
  <2>5. CASE StopShutsDown(s)
    BY <1>k, <2>5 DEF StopShutsDown
  <2>6. CASE StopSignals(s)
    BY <1>k, <2>6 DEF StopSignals
  <2> QED
    BY <1>s, <2>1, <2>2, <2>3, <2>4, <2>5, <2>6 DEF StopperNext
<1>t. CASE Tick
  BY <1>k, <1>t DEF Tick, ghosts
<1>l. CASE Relaunch
  BY <1>l DEF Relaunch, On, LateInv
<1>v. CASE UNCHANGED vars
  BY <1>k, <1>v DEF vars, shared, ghosts
<1> QED
  BY <1>r, <1>e, <1>s, <1>t, <1>l, <1>v DEF Next, Step

\* Once a stop or the end of a request has raised stopFlag, the worker of every executor
\* sends at most one more report until a request lowers it (lines 219-220), for any
\* number of replays and stops at once.
THEOREM LateReports == Spec => []LateAtMostOne
<1>1. Init => LateInv
  BY DEF Init, On, LateInv
<1>2. TypeOK /\ LateInv => LateAtMostOne
  <2> SUFFICES ASSUME TypeOK, LateInv, stopFlag, NEW e \in Executor
               PROVE  late[e] <= 1
    BY DEF LateAtMostOne
  <2>1. late[e] \in Nat /\ late[e] + InFlight(e) <= 1
    BY DEF TypeOK, LateInv
  <2>2. InFlight(e) \in {0, 1}
    BY DEF InFlight
  <2> QED
    BY <2>1, <2>2
<1> QED
  BY <1>1, <1>2, LateStep, TypeCorrect, PTL DEF Spec
-----------------------------------------------------------------------------
(* StopSticks, StopReleases *)

\* Inductive: while clients take turns, a stop that is remembered keeps the flag up, and
\* until it has sent its release it keeps its thread busy; what comes after that release
\* is late.
HaltInv ==
  Serial /\ (\E r \in Replayer : halted[r]) =>
    /\ stopFlag
    /\ alive /\ (\A e \in Executor : late[e] = 0) =>
         host = Zero \/ \E s \in Stopper : ~Idle(s)

\* Every step keeps that.
LEMMA HaltStep == TypeOK /\ HaltInv /\ [Next]_vars => HaltInv'
<1> SUFFICES ASSUME TypeOK, HaltInv, [Next]_vars, Serial PROVE HaltInv'
  BY DEF HaltInv
<1>0. /\ pc \in [Thread -> ReplayStep \cup StopStep]
      /\ halted \in [Replayer -> BOOLEAN]
      /\ late \in [Executor -> Nat]
  BY DEF TypeOK
<1>k. ASSUME stopFlag' = stopFlag \/ stopFlag' = TRUE, host' = host \/ host' = Zero,
             alive' => alive, \A s \in Stopper : pc'[s] = pc[s], UNCHANGED <<halted, late>>
      PROVE  HaltInv'
  BY <1>k DEF HaltInv, Idle
<1>r. ASSUME NEW r \in Replayer, alive, ReplayerNext(r) PROVE HaltInv'
  <2> USE DEF shared, ghosts, Goto
  <2>0. ASSUME NEW to, pc' = [pc EXCEPT ![r] = to] PROVE \A s \in Stopper : pc'[s] = pc[s]
    BY <1>0, <2>0, ConstantsAssumption DEF Thread
  <2>1. CASE Start(r)
    <3>1. \A x \in Replayer : halted'[x] = FALSE
      BY <2>1 DEF Start, Thread, Idle
    <3> QED
      BY <3>1 DEF HaltInv
  <2>2. CASE Played(r)
    BY <1>k, <2>0, <2>2 DEF Played, Return
  <2>3. CASE Wake(r)
    BY <1>k, <2>0, <2>3 DEF Wake, Return
  <2>4. CASE Enter(r)
    BY <1>k, <2>0, <2>4 DEF Enter
  <2>5. CASE Create(r)
    BY <1>k, <2>0, <2>5 DEF Create
  <2>6. CASE CheckGoesOn(r)
    BY <1>k, <2>0, <2>6 DEF CheckGoesOn
  <2>7. CASE CheckAborts(r)
    BY <1>k, <2>0, <2>7 DEF CheckAborts
  <2>8. CASE CheckEnds(r)
    BY <1>k, <2>0, <2>8 DEF CheckEnds
  <2>9. CASE Submit(r)
    BY <1>k, <2>0, <2>9 DEF Submit
  <2>10. CASE Rejected(r)
    BY <1>k, <1>r, <2>0, <2>10 DEF Rejected, Throw, Return
  <2>11. CASE Add(r)
    BY <1>k, <2>0, <2>11 DEF Add
  <2>12. CASE Shutdown(r)
    BY <1>k, <2>0, <2>12 DEF Shutdown
  <2>13. CASE AwaitTermination(r)
    BY <1>k, <2>0, <2>13 DEF AwaitTermination
  <2>14. CASE Awaited(r)
    BY <1>k, <2>0, <2>14 DEF Awaited
  <2>15. CASE Load(r)
    BY <1>k, <2>0, <2>15 DEF Load
  <2>16. CASE LoadThrows(r)
    BY <1>k, <1>r, <2>0, <2>16 DEF LoadThrows, Throw, Return
  <2>17. CASE SleepThrows(r)
    BY <1>k, <1>r, <2>0, <2>17 DEF SleepThrows, Throw, Return
  <2> QED
    BY <1>r, <2>1, <2>2, <2>3, <2>4, <2>5, <2>6, <2>7, <2>8, <2>9, <2>10, <2>11, <2>12,
      <2>13, <2>14, <2>15, <2>16, <2>17 DEF ReplayerNext
<1>e. ASSUME NEW e \in Executor, WorkerNext(e) PROVE HaltInv'
  <2>1. CASE Take(e)
    BY <1>k, <2>1 DEF Take, ghosts
  <2>2. CASE Send(e)
    <3>1. stopFlag' = stopFlag /\ halted' = halted /\ pc' = pc /\ alive' = alive
      BY <2>2 DEF Send
    <3>2. stopFlag => late'[e] # 0
      BY <1>0, <2>2 DEF Send
    <3> QED
      BY <3>1, <3>2 DEF HaltInv
  <2> QED
    BY <1>e, <2>1, <2>2 DEF WorkerNext
<1>s. ASSUME NEW s \in Stopper, StopperNext(s) PROVE HaltInv'
  <2> USE DEF shared, ghosts, Goto, Idle
  <2>0. ASSUME NEW to, to # "idle", pc' = [pc EXCEPT ![s] = to] PROVE pc'[s] # "idle"
    BY <1>0, <2>0 DEF Thread
  <2>k. ASSUME pc'[s] # "idle", UNCHANGED <<stopFlag, halted>> PROVE HaltInv'
    BY <2>k DEF HaltInv
  <2>1. CASE Stop(s)
    BY <2>0, <2>1 DEF Stop, HaltInv
  <2>2. CASE StopIterator(s)
    BY <2>0, <2>k, <2>2 DEF StopIterator
  <2>3. CASE StopCancels(s)
    BY <2>0, <2>k, <2>3 DEF StopCancels
  <2>4. CASE StopThrows(s)
    BY <2>4 DEF StopThrows, HaltInv
  <2>5. CASE StopShutsDown(s)
    BY <2>0, <2>k, <2>5 DEF StopShutsDown
  <2>6. CASE StopSignals(s)
    BY <2>6 DEF StopSignals, HaltInv
  <2> QED
    BY <1>s, <2>1, <2>2, <2>3, <2>4, <2>5, <2>6 DEF StopperNext
<1>t. CASE Tick
  BY <1>k, <1>t DEF Tick, ghosts
<1>l. CASE Relaunch
  BY <1>l DEF Relaunch, On, HaltInv
<1>v. CASE UNCHANGED vars
  BY <1>k, <1>v DEF vars, shared, ghosts
<1> QED
  BY <1>r, <1>e, <1>s, <1>t, <1>l, <1>v DEF Next, Step

\* Initially nothing was stopped.
LEMMA HaltInit == Init => HaltInv
  BY DEF Init, On, HaltInv

\* When clients wait for their calls to return, a stop that comes during a request keeps
\* the flag up until that request has returned, however many files and repetitions are
\* left: only lines 174 and 196 lower it.
THEOREM StopIsNotForgotten == Spec => []StopSticks
<1>1. HaltInv => StopSticks
  BY DEF HaltInv, StopSticks
<1> QED
  BY <1>1, HaltInit, HaltStep, TypeCorrect, PTL DEF Spec

\* A replay that was stopped leaves no key down on the host when all calls are over,
\* unless a report was past the check of line 219 when the flag rose: no event of the
\* stopped request, nor of one before it, follows the release of line 241.
THEOREM StopsReleased == Spec => []StopReleases
<1>1. HaltInv => StopReleases
  BY DEF HaltInv, StopReleases, AtRest, Thread
<1> QED
  BY <1>1, HaltInit, HaltStep, TypeCorrect, PTL DEF Spec
-----------------------------------------------------------------------------
(* NotEarly *)

\* Where the threads are (at) and with which locals (l), a task that belongs to a running
\* replay is not due before its event was recorded.
DueInTime(t, at, l) ==
  ~t.orphan =>
    /\ at[t.owner] \in Playing
    /\ t.wait + l[t.owner].elapsed >= Tasks[t.task][t.event].delay

\* Inductive: so it is with every queued task, with the one a thread is about to submit,
\* and, with no time left to wait, with the one a worker is about to send.
TimeInv ==
  /\ \A e \in Executor : \A j \in 1..Len(queue[e]) : DueInTime(queue[e][j], pc, loc)
  /\ \A e \in Executor : running[e] # NoTask =>
       DueInTime(running[e], pc, loc) /\ running[e].wait = 0
  /\ \A r \in Replayer : pc[r] = "submit" =>
       loc[r].delay + loc[r].elapsed >= Tasks[loc[r].task][loc[r].next].delay

\* The delay of a recorded event is within the bound.
LEMMA EventDelay ==
  ASSUME NEW i \in 1..Len(Tasks), NEW j \in Nat \ {0}, j <= Len(Tasks[i])
  PROVE  Tasks[i][j].delay \in 0..MaxDelay
<1>1. Tasks[i] \in Seq(Event)
  BY ElementOfSeq, ConstantsAssumption
<1>2. Tasks[i][j] \in Event
  BY <1>1, ElementOfSeq
<1> QED
  BY <1>2 DEF Event

\* No thread leaves its play and no clock is set back.
StaysInPlay == \A x \in Replayer : pc[x] \in Playing =>
                 pc'[x] \in Playing /\ loc'[x].elapsed = loc[x].elapsed
NoNewSubmit == \A x \in Replayer : pc'[x] = "submit" => pc[x] = "submit" /\ loc'[x] = loc[x]

\* A task due in time stays so while its owner plays on and no time passes.
LEMMA DueKept ==
  ASSUME StaysInPlay, NEW t \in Task, DueInTime(t, pc, loc)
  PROVE  DueInTime(t, pc', loc')
<1>1. t.owner \in Replayer
  BY DEF Task, TaskRecord
<1> QED
  BY <1>1 DEF DueInTime, StaysInPlay

\* What is known of the tasks of a queue or a worker is known after a step that leaves
\* them alone.
LEMMA QueueKept ==
  ASSUME TypeOK, TimeInv, StaysInPlay, UNCHANGED queue
  PROVE  \A e \in Executor : \A j \in 1..Len(queue'[e]) : DueInTime(queue'[e][j], pc', loc')
  BY DueKept, QueuedIsTask DEF TimeInv

\* So does the task a worker runs, ...
LEMMA RunningKept ==
  ASSUME TypeOK, TimeInv, StaysInPlay, UNCHANGED running
  PROVE  \A e \in Executor : running'[e] # NoTask =>
           DueInTime(running'[e], pc', loc') /\ running'[e].wait = 0
<1> HIDE DEF Task
<1> QED
  BY DueKept DEF TimeInv, TypeOK

\* ... and the delay of the event that is about to be submitted.
LEMMA SubmitKept ==
  ASSUME TimeInv, NoNewSubmit
  PROVE  \A x \in Replayer : pc'[x] = "submit" =>
           loc'[x].delay + loc'[x].elapsed >= Tasks[loc'[x].task][loc'[x].next].delay
  BY DEF TimeInv, NoNewSubmit

\* Hence a step that touches neither queues nor clocks keeps the timing invariant.
LEMMA TimeKept ==
  ASSUME TypeOK, TimeInv, StaysInPlay, NoNewSubmit, UNCHANGED <<queue, running>>
  PROVE  TimeInv'
<1>1. \A e \in Executor : \A j \in 1..Len(queue'[e]) : DueInTime(queue'[e][j], pc', loc')
  BY QueueKept
<1>2. \A e \in Executor : running'[e] # NoTask =>
        DueInTime(running'[e], pc', loc') /\ running'[e].wait = 0
  BY RunningKept
<1> QED
  BY <1>1, <1>2, SubmitKept DEF TimeInv

\* The end of a play, for whatever reason, makes orphans of what is left of it.
LEMMA TimeLeave ==
  ASSUME TypeOK, TimeInv, NEW r \in Replayer, LeavePlay(r), NoNewSubmit,
         \A x \in Replayer \ {r} : pc'[x] = pc[x] /\ loc'[x] = loc[x]
  PROVE  TimeInv'
<1>1. ASSUME NEW t \in Task, DueInTime(t, pc, loc)
      PROVE  DueInTime(Orphaned(r, t), pc', loc') /\ Orphaned(r, t).wait = t.wait
  <2>1. t.owner \in Replayer /\ t \in TaskRecord
    BY DEF Task, TaskRecord
  <2>2. CASE t.owner = r
    <3>1. Orphaned(r, t).orphan = TRUE /\ Orphaned(r, t).wait = t.wait
      BY <2>1, <2>2 DEF Orphaned, TaskRecord
    <3> QED
      BY <3>1 DEF DueInTime
  <2>3. CASE t.owner # r
    BY <1>1, <2>1, <2>3 DEF Orphaned, DueInTime
  <2> QED
    BY <2>2, <2>3
<1>2. \A e \in Executor : \A j \in 1..Len(queue'[e]) : DueInTime(queue'[e][j], pc', loc')
  <2>1. queue' = [e \in Executor |-> [j \in 1..Len(queue[e]) |-> Orphaned(r, queue[e][j])]]
    BY DEF LeavePlay, InEveryQueue, Each
  <2>2. ASSUME NEW e \in Executor, NEW j \in 1..Len(queue'[e])
        PROVE  DueInTime(queue'[e][j], pc', loc')
    <3>1. Len(queue'[e]) = Len(queue[e])
      BY <2>1, LenProperties DEF TypeOK
    <3>2. queue[e][j] \in Task /\ DueInTime(queue[e][j], pc, loc)
      BY <3>1, QueuedIsTask DEF TimeInv
    <3> QED
      BY <1>1, <2>1, <3>1, <3>2
  <2> QED
    BY <2>2
<1>3. \A e \in Executor : running'[e] # NoTask =>
        DueInTime(running'[e], pc', loc') /\ running'[e].wait = 0
  <2> SUFFICES ASSUME NEW e \in Executor, running'[e] # NoTask
               PROVE  DueInTime(running'[e], pc', loc') /\ running'[e].wait = 0
    OBVIOUS
  <2>1. running[e] # NoTask /\ running'[e] = Orphaned(r, running[e])
    BY DEF LeavePlay
  <2>2. running[e] \in Task /\ DueInTime(running[e], pc, loc) /\ running[e].wait = 0
    BY <2>1 DEF TypeOK, TimeInv
  <2> QED
    BY <1>1, <2>1, <2>2
<1> QED
  BY <1>2, <1>3, SubmitKept DEF TimeInv

\* A step that changes flags of queued tasks and nothing that time depends on.
LEMMA TimeFlags ==
  ASSUME TypeOK, TimeInv, StaysInPlay, NoNewSubmit, UNCHANGED running, NEW g,
         queue' = [e \in Executor |-> [j \in 1..Len(queue[e]) |-> g[e][j]]],
         \A e \in Executor : \A j \in 1..Len(queue[e]) :
           /\ g[e][j].owner = queue[e][j].owner /\ g[e][j].task = queue[e][j].task
           /\ g[e][j].event = queue[e][j].event /\ g[e][j].wait = queue[e][j].wait
           /\ g[e][j].orphan = queue[e][j].orphan
  PROVE  TimeInv'
<1>1. \A e \in Executor : \A j \in 1..Len(queue'[e]) : DueInTime(queue'[e][j], pc', loc')
  <2> SUFFICES ASSUME NEW e \in Executor, NEW j \in 1..Len(queue'[e])
               PROVE  DueInTime(queue'[e][j], pc', loc')
    OBVIOUS
  <2>1. Len(queue'[e]) = Len(queue[e])
    BY LenProperties DEF TypeOK
  <2>2. DueInTime(queue[e][j], pc', loc')
    BY <2>1, DueKept, QueuedIsTask DEF TimeInv
  <2>3. queue'[e][j] = g[e][j]
    BY <2>1
  <2>4. /\ g[e][j].owner = queue[e][j].owner /\ g[e][j].task = queue[e][j].task
        /\ g[e][j].event = queue[e][j].event /\ g[e][j].wait = queue[e][j].wait
        /\ g[e][j].orphan = queue[e][j].orphan
    BY <2>1
  <2> DEFINE was == queue[e][j]
             is == queue'[e][j]
  <2>5. /\ is.owner = was.owner /\ is.task = was.task /\ is.event = was.event
        /\ is.wait = was.wait /\ is.orphan = was.orphan
    BY <2>3, <2>4
  <2>6. DueInTime(was, pc', loc')
    BY <2>2
  <2> HIDE DEF was, is
  <2>7. DueInTime(is, pc', loc')
    BY <2>5, <2>6, Zenon DEF DueInTime
  <2> QED
    BY <2>7 DEF is
<1>2. \A e \in Executor : running'[e] # NoTask =>
        DueInTime(running'[e], pc', loc') /\ running'[e].wait = 0
  BY RunningKept
<1> QED
  BY <1>1, <1>2, SubmitKept DEF TimeInv

\* Every step keeps the timing invariant.
LEMMA TimeStep == TypeOK /\ TimeInv /\ [Next]_vars => TimeInv'
<1> SUFFICES ASSUME TypeOK, TimeInv, [Next]_vars PROVE TimeInv'
  OBVIOUS
<1>0. /\ pc \in [Thread -> ReplayStep \cup StopStep]
      /\ loc \in [Replayer -> Local]
      /\ queue \in [Executor -> Seq(Task)]
  BY DEF TypeOK
<1>r. ASSUME NEW r \in Replayer, ReplayerNext(r) PROVE TimeInv'
  <2> USE DEF shared, ghosts
  <2>1. CASE Start(r)
    <3>1. StaysInPlay
      BY <1>0, <2>1 DEF Start, Goto, StaysInPlay, Playing, Thread, Local
    <3>2. NoNewSubmit
      BY <1>0, <2>1 DEF Start, Goto, NoNewSubmit, Thread
    <3>3. UNCHANGED <<queue, running>>
      BY <2>1 DEF Start
    <3> QED
      BY <3>1, <3>2, <3>3, TimeKept
  <2>2. CASE Played(r)
    <3>1. StaysInPlay
      BY <1>0, <2>2 DEF Played, Goto, Return, NoPlay, StaysInPlay, Playing, Thread, Local
    <3>2. NoNewSubmit
      BY <1>0, <2>2 DEF Played, Goto, Return, NoPlay, NoNewSubmit, Thread
    <3>3. UNCHANGED <<queue, running>>
      BY <2>2 DEF Played
    <3> QED
      BY <3>1, <3>2, <3>3, TimeKept
  <2>3. CASE Wake(r)
    <3>1. StaysInPlay
      BY <1>0, <2>3 DEF Wake, Goto, Return, NoPlay, StaysInPlay, Playing, Thread, Local
    <3>2. NoNewSubmit
      BY <1>0, <2>3 DEF Wake, Goto, Return, NoPlay, NoNewSubmit, Thread
    <3>3. UNCHANGED <<queue, running>>
      BY <2>3 DEF Wake
    <3> QED
      BY <3>1, <3>2, <3>3, TimeKept
  <2>4. CASE Enter(r)
    <3>1. StaysInPlay
      BY <1>0, <2>4 DEF Enter, Goto, BeginPlay, StaysInPlay, Playing, Thread, Local
    <3>2. NoNewSubmit
      BY <1>0, <2>4 DEF Enter, Goto, BeginPlay, NoNewSubmit, Thread
    <3>3. UNCHANGED <<queue, running>>
      BY <2>4 DEF Enter
    <3> QED
      BY <3>1, <3>2, <3>3, TimeKept
  <2>5. CASE Create(r)
    <3>1. StaysInPlay
      BY <1>0, <2>5 DEF Create, Goto, BeginPlay, StaysInPlay, Playing, Thread, Local
    <3>2. NoNewSubmit
      BY <1>0, <2>5 DEF Create, Goto, BeginPlay, NoNewSubmit, Thread
    <3>3. UNCHANGED <<queue, running>>
      BY <2>5 DEF Create
    <3> QED
      BY <3>1, <3>2, <3>3, TimeKept
  <2>6. CASE CheckGoesOn(r)
    <3>1. StaysInPlay /\ UNCHANGED <<queue, running>>
      BY <1>0, <2>6 DEF CheckGoesOn, Goto, StaysInPlay, Playing, Thread, Local
    <3>2. loc'[r].delay + loc'[r].elapsed >= Tasks[loc'[r].task][loc'[r].next].delay
      <4>1. /\ loc'[r].delay = TimeLeft(r) /\ loc'[r].elapsed = loc[r].elapsed
            /\ loc'[r].task = loc[r].task /\ loc'[r].next = loc[r].next
        BY <1>0, <2>6 DEF CheckGoesOn, Local
      <4>2. /\ loc[r].task \in 1..Len(Tasks) /\ loc[r].next \in Nat \ {0}
            /\ loc[r].elapsed \in 0..MaxDelay /\ loc[r].next <= Len(Tasks[loc[r].task])
            /\ File(r) = Tasks[loc[r].task]
        BY <1>0, <2>6, FileWhole DEF CheckGoesOn, Local
      <4>3. Tasks[loc[r].task][loc[r].next].delay \in 0..MaxDelay
        BY <4>2, EventDelay
      <4> QED
        BY <4>1, <4>2, <4>3 DEF TimeLeft
    <3>3. \A x \in Replayer \ {r} : pc'[x] = pc[x] /\ loc'[x] = loc[x]
      BY <1>0, <2>6 DEF CheckGoesOn, Goto
    <3>4. \A x \in Replayer : pc'[x] = "submit" =>
            loc'[x].delay + loc'[x].elapsed >= Tasks[loc'[x].task][loc'[x].next].delay
      BY <3>2, <3>3 DEF TimeInv
    <3> QED
      BY <3>1, <3>4, QueueKept, RunningKept DEF TimeInv
  <2>7. CASE CheckAborts(r)
    <3>1. \A x \in Replayer \ {r} : pc'[x] = pc[x] /\ loc'[x] = loc[x]
      BY <1>0, <2>7 DEF CheckAborts, Goto
    <3>2. pc'[r] # "submit"
      BY <1>0, <2>7 DEF CheckAborts, Goto, Thread
    <3>3. NoNewSubmit
      BY <3>1, <3>2 DEF NoNewSubmit
    <3> QED
      BY <2>7, <3>1, <3>3, TimeLeave DEF CheckAborts
  <2>8. CASE CheckEnds(r)
    <3>1. StaysInPlay
      BY <1>0, <2>8 DEF CheckEnds, Goto, StaysInPlay, Playing, Thread, Local
    <3>2. NoNewSubmit
      BY <1>0, <2>8 DEF CheckEnds, Goto, NoNewSubmit, Thread
    <3>3. UNCHANGED <<queue, running>>
      BY <2>8 DEF CheckEnds
    <3> QED
      BY <3>1, <3>2, <3>3, TimeKept
  <2>9. CASE Submit(r)
    <3> DEFINE t == [owner |-> r, task |-> loc[r].task, event |-> loc[r].next,
                     wait |-> loc[r].delay, added |-> FALSE, cancelled |-> FALSE,
                     orphan |-> FALSE]
    <3>1. StaysInPlay /\ NoNewSubmit /\ UNCHANGED running
      BY <1>0, <2>9
      DEF Submit, Goto, StaysInPlay, NoNewSubmit, Playing, Thread, Local
    <3>2. DueInTime(t, pc', loc')
      <4>1. pc'[r] \in Playing /\ loc'[r].elapsed = loc[r].elapsed
        BY <1>0, <2>9 DEF Submit, Goto, Playing, Thread, Local
      <4>2. loc[r].delay + loc[r].elapsed >= Tasks[loc[r].task][loc[r].next].delay
        BY <2>9 DEF Submit, Goto, TimeInv
      <4> QED
        BY <4>1, <4>2 DEF DueInTime
    <3> HIDE DEF t
    <3>3. scheduler \in Executor /\ queue[scheduler] \in Seq(Task)
      BY DEF TypeOK
    <3>4. PICK n \in 0..Len(queue[scheduler]) :
            queue' = [queue EXCEPT ![scheduler] = InsertAt(@, n + 1, t)]
      BY <2>9 DEF Submit, Enqueue, t
    <3>5. ASSUME NEW j \in 1..Len(queue'[scheduler])
          PROVE  DueInTime(queue'[scheduler][j], pc', loc')
      <4> DEFINE q == queue[scheduler]
      <4>1. queue'[scheduler] = InsertAt(q, n + 1, t)
        BY <1>0, <3>3, <3>4
      <4>2. InsertAt(q, n + 1, t)[j] = t \/ \E i \in 1..Len(q) : InsertAt(q, n + 1, t)[j] = q[i]
        <5>1. q \in Seq(Task) /\ n \in 0..Len(q) /\ j \in 1..Len(InsertAt(q, n + 1, t))
          BY <3>3, <4>1
        <5> HIDE DEF q
        <5> QED
          BY <5>1, InsertAtElements
      <4>3. \A i \in 1..Len(q) : DueInTime(q[i], pc', loc')
        BY <3>1, <3>3, DueKept, QueuedIsTask DEF TimeInv
      <4> QED
        BY <3>2, <4>1, <4>2, <4>3
    <3>6. ASSUME NEW e \in Executor \ {scheduler}, NEW j \in 1..Len(queue'[e])
          PROVE  DueInTime(queue'[e][j], pc', loc')
      <4>1. queue'[e] = queue[e]
        BY <1>0, <3>4
      <4> QED
        BY <3>1, <4>1, DueKept, QueuedIsTask DEF TimeInv
    <3> QED
      BY <3>1, <3>5, <3>6, RunningKept, SubmitKept DEF TimeInv
  <2>10. CASE Rejected(r)
    <3>1. \A x \in Replayer \ {r} : pc'[x] = pc[x] /\ loc'[x] = loc[x]
      BY <1>0, <2>10 DEF Rejected, Throw, Return
    <3>2. pc'[r] # "submit"
      BY <1>0, <2>10 DEF Rejected, Throw, Return, Thread
    <3>3. NoNewSubmit
      BY <3>1, <3>2 DEF NoNewSubmit
    <3> QED
      BY <2>10, <3>1, <3>3, TimeLeave DEF Rejected
  <2>11. CASE Add(r)
    <3> DEFINE F(t) == IF t.owner = r /\ ~t.orphan THEN [t EXCEPT !.added = TRUE] ELSE t
               g == [e \in Executor |-> [j \in 1..Len(queue[e]) |-> F(queue[e][j])]]
    <3>1. StaysInPlay /\ NoNewSubmit /\ UNCHANGED running
      BY <1>0, <2>11 DEF Add, Goto, StaysInPlay, NoNewSubmit, Playing, Thread
    <3>2. queue' = g
      BY <2>11 DEF Add, InEveryQueue, Each
    <3>3. \A t \in Task : /\ F(t).owner = t.owner /\ F(t).task = t.task /\ F(t).event = t.event
                          /\ F(t).wait = t.wait /\ F(t).orphan = t.orphan
      BY DEF Task, TaskRecord
    <3>4. g = [e \in Executor |-> [j \in 1..Len(queue[e]) |-> g[e][j]]]
      OBVIOUS
    <3>5. \A e \in Executor : \A j \in 1..Len(queue[e]) : g[e][j] = F(queue[e][j])
      OBVIOUS
    <3> HIDE DEF F, g
    <3>6. \A e \in Executor : \A j \in 1..Len(queue[e]) :
            /\ g[e][j].owner = queue[e][j].owner /\ g[e][j].task = queue[e][j].task
            /\ g[e][j].event = queue[e][j].event /\ g[e][j].wait = queue[e][j].wait
            /\ g[e][j].orphan = queue[e][j].orphan
      BY <3>3, <3>5, QueuedIsTask
    <3>7. queue' = [e \in Executor |-> [j \in 1..Len(queue[e]) |-> g[e][j]]]
      BY <3>2, <3>4
    <3> QED
      BY <3>1, <3>6, <3>7, TimeFlags
  <2>12. CASE Shutdown(r)
    <3>1. StaysInPlay
      BY <1>0, <2>12 DEF Shutdown, Goto, StaysInPlay, Playing, Thread, Local
    <3>2. NoNewSubmit
      BY <1>0, <2>12 DEF Shutdown, Goto, NoNewSubmit, Thread
    <3>3. UNCHANGED <<queue, running>>
      BY <2>12 DEF Shutdown
    <3> QED
      BY <3>1, <3>2, <3>3, TimeKept
  <2>13. CASE AwaitTermination(r)
    <3>1. StaysInPlay
      BY <1>0, <2>13 DEF AwaitTermination, Goto, StaysInPlay, Playing, Thread, Local
    <3>2. NoNewSubmit
      BY <1>0, <2>13 DEF AwaitTermination, Goto, NoNewSubmit, Thread
    <3>3. UNCHANGED <<queue, running>>
      BY <2>13 DEF AwaitTermination
    <3> QED
      BY <3>1, <3>2, <3>3, TimeKept
  <2>14. CASE Awaited(r)
    <3>1. \A x \in Replayer \ {r} : pc'[x] = pc[x] /\ loc'[x] = loc[x]
      BY <1>0, <2>14 DEF Awaited, Goto
    <3>2. pc'[r] # "submit"
      BY <1>0, <2>14 DEF Awaited, Goto, Thread
    <3>3. NoNewSubmit
      BY <3>1, <3>2 DEF NoNewSubmit
    <3> QED
      BY <2>14, <3>1, <3>3, TimeLeave DEF Awaited
  <2>15. CASE Load(r)
    <3>1. StaysInPlay
      BY <1>0, <2>15 DEF Load, Goto, StaysInPlay, Playing, Thread, Local
    <3>2. NoNewSubmit
      BY <1>0, <2>15 DEF Load, Goto, NoNewSubmit, Thread
    <3>3. UNCHANGED <<queue, running>>
      BY <2>15 DEF Load
    <3> QED
      BY <3>1, <3>2, <3>3, TimeKept
  <2>t. ASSUME Throw(r), UNCHANGED shared, pc[r] \notin Playing
        PROVE  TimeInv'
    <3>1. StaysInPlay
      BY <1>0, <2>t DEF Throw, Return, NoPlay, StaysInPlay, Thread, Local
    <3>2. NoNewSubmit
      BY <1>0, <2>t DEF Throw, Return, NoNewSubmit, Thread
    <3>3. UNCHANGED <<queue, running>>
      BY <2>t
    <3> QED
      BY <3>1, <3>2, <3>3, TimeKept
  <2>16. CASE LoadThrows(r)
    BY <2>t, <2>16 DEF LoadThrows, Playing
  <2>17. CASE SleepThrows(r)
    BY <2>t, <2>17 DEF SleepThrows, Playing
  <2> QED
    BY <1>r, <2>1, <2>2, <2>3, <2>4, <2>5, <2>6, <2>7, <2>8, <2>9, <2>10, <2>11, <2>12,
      <2>13, <2>14, <2>15, <2>16, <2>17 DEF ReplayerNext
<1>e. ASSUME NEW e \in Executor, WorkerNext(e) PROVE TimeInv'
  <2>0. UNCHANGED <<pc, loc>>
    BY <1>e DEF WorkerNext, Take, Send, ghosts
  <2>1. StaysInPlay /\ NoNewSubmit
    BY <2>0 DEF StaysInPlay, NoNewSubmit
  <2>2. CASE Take(e)
    <3>1. /\ queue[e] # << >> /\ queue[e] \in Seq(Task)
          /\ queue' = [queue EXCEPT ![e] = Tail(@)]
      BY <1>0, <2>2 DEF Take
    <3>2. Len(queue[e]) \in Nat \ {0} /\ Head(queue[e]) = queue[e][1]
      BY <3>1, EmptySeq
    <3>3. ASSUME NEW x \in Executor, NEW j \in 1..Len(queue'[x])
          PROVE  DueInTime(queue'[x][j], pc', loc')
      <4>1. CASE x = e
        <5>1. /\ Len(Tail(queue[e])) = Len(queue[e]) - 1
              /\ \A i \in 1..Len(Tail(queue[e])) : Tail(queue[e])[i] = queue[e][i + 1]
          BY <3>1, HeadTailProperties
        <5>2. queue'[x] = Tail(queue[e])
          BY <1>0, <3>1, <4>1
        <5>3. j + 1 \in 1..Len(queue[e]) /\ queue'[x][j] = queue[e][j + 1]
          BY <3>2, <5>1, <5>2
        <5> QED
          BY <2>0, <5>3 DEF TimeInv
      <4>2. CASE x # e
        <5>1. queue'[x] = queue[x]
          BY <1>0, <3>1, <4>2
        <5> QED
          BY <2>0, <5>1 DEF TimeInv
      <4> QED
        BY <4>1, <4>2
    <3>4. DueInTime(Head(queue[e]), pc', loc') /\ Head(queue[e]).wait = 0
      BY <2>0, <2>2, <3>2 DEF Take, TimeInv
    <3>5. /\ \A x \in Executor \ {e} : running'[x] = running[x]
          /\ running'[e] = NoTask \/ running'[e] = Head(queue[e])
      BY <2>2 DEF Take, TypeOK
    <3>6. ASSUME NEW x \in Executor, running'[x] # NoTask
          PROVE  DueInTime(running'[x], pc', loc') /\ running'[x].wait = 0
      <4>1. CASE x = e
        BY <3>4, <3>5, <3>6, <4>1
      <4>2. CASE x # e
        BY <2>0, <3>5, <3>6, <4>2 DEF TimeInv
      <4> QED
        BY <4>1, <4>2
    <3> QED
      BY <2>1, <3>3, <3>6, SubmitKept DEF TimeInv
  <2>3. CASE Send(e)
    <3>1. UNCHANGED queue /\ \A x \in Executor : running'[x] \in {running[x], NoTask}
      BY <2>3 DEF Send, TypeOK
    <3>2. ASSUME NEW x \in Executor, running'[x] # NoTask
          PROVE  DueInTime(running'[x], pc', loc') /\ running'[x].wait = 0
      BY <2>0, <3>1, <3>2 DEF TimeInv
    <3> QED
      BY <2>1, <3>1, <3>2, QueueKept, SubmitKept DEF TimeInv
  <2> QED
    BY <1>e, <2>2, <2>3 DEF WorkerNext
<1>s. ASSUME NEW s \in Stopper, StopperNext(s) PROVE TimeInv'
  <2> USE DEF shared, ghosts
  <2>0. \A x \in Replayer : pc'[x] = pc[x]
    BY <1>0, <1>s, ConstantsAssumption
    DEF StopperNext, Stop, StopIterator, StopCancels, StopThrows, StopShutsDown, StopSignals,
        Goto, Thread
  <2>a. UNCHANGED <<loc, running>>
    BY <1>s
    DEF StopperNext, Stop, StopIterator, StopCancels, StopThrows, StopShutsDown, StopSignals
  <2>b. StaysInPlay /\ NoNewSubmit
    BY <2>0, <2>a DEF StaysInPlay, NoNewSubmit
  <2>1. CASE Stop(s)
    BY <2>a, <2>b, <2>1, TimeKept DEF Stop
  <2>2. CASE StopIterator(s)
    BY <2>a, <2>b, <2>2, TimeKept DEF StopIterator
  <2>3. CASE StopCancels(s)
    <3> DEFINE F(t) == IF t.added THEN [t EXCEPT !.cancelled = TRUE] ELSE t
               g == [e \in Executor |-> [j \in 1..Len(queue[e]) |-> F(queue[e][j])]]
    <3>2. queue' = g
      BY <2>3 DEF StopCancels, InEveryQueue, Each
    <3>3. \A t \in Task : /\ F(t).owner = t.owner /\ F(t).task = t.task /\ F(t).event = t.event
                          /\ F(t).wait = t.wait /\ F(t).orphan = t.orphan
      BY DEF Task, TaskRecord
    <3>4. g = [e \in Executor |-> [j \in 1..Len(queue[e]) |-> g[e][j]]]
      OBVIOUS
    <3>5. \A e \in Executor : \A j \in 1..Len(queue[e]) : g[e][j] = F(queue[e][j])
      OBVIOUS
    <3> HIDE DEF F, g
    <3>6. \A e \in Executor : \A j \in 1..Len(queue[e]) :
            /\ g[e][j].owner = queue[e][j].owner /\ g[e][j].task = queue[e][j].task
            /\ g[e][j].event = queue[e][j].event /\ g[e][j].wait = queue[e][j].wait
            /\ g[e][j].orphan = queue[e][j].orphan
      BY <3>3, <3>5, QueuedIsTask
    <3>7. queue' = [e \in Executor |-> [j \in 1..Len(queue[e]) |-> g[e][j]]]
      BY <3>2, <3>4
    <3> QED
      BY <2>a, <2>b, <3>6, <3>7, TimeFlags
  <2>4. CASE StopThrows(s)
    BY <2>a, <2>b, <2>4, TimeKept DEF StopThrows
  <2>5. CASE StopShutsDown(s)
    <3>1. ASSUME NEW e \in Executor, NEW j \in 1..Len(queue'[e])
          PROVE  DueInTime(queue'[e][j], pc', loc')
      <4>1. queue'[e] = queue[e] \/ queue'[e] = << >>
        BY <1>0, <2>5 DEF StopShutsDown
      <4>2. queue'[e] = queue[e]
        BY <4>1
      <4> QED
        BY <2>b, <4>2, DueKept, QueuedIsTask DEF TimeInv
    <3> QED
      BY <2>a, <2>b, <3>1, RunningKept, SubmitKept DEF TimeInv
  <2>6. CASE StopSignals(s)
    BY <2>a, <2>b, <2>6, TimeKept DEF StopSignals
  <2> QED
    BY <1>s, <2>1, <2>2, <2>3, <2>4, <2>5, <2>6 DEF StopperNext
<1>t. CASE Tick
  <2> DEFINE F(t) == [t EXCEPT !.wait = IF @ > 0 THEN @ - 1 ELSE 0]
  <2>1. UNCHANGED <<pc, running>>
    BY <1>t DEF Tick
  <2>2. \A x \in Replayer :
          /\ loc'[x].task = loc[x].task /\ loc'[x].next = loc[x].next
          /\ loc'[x].delay = loc[x].delay
          /\ loc[x].elapsed \in 0..MaxDelay
          /\ loc'[x].elapsed = IF pc[x] \in Playing /\ loc[x].elapsed < MaxDelay
                                 THEN loc[x].elapsed + 1 ELSE loc[x].elapsed
    BY <1>0, <1>t DEF Tick, Local
  <2>3. ASSUME NEW t \in Task, DueInTime(t, pc, loc)
        PROVE  DueInTime(F(t), pc', loc') /\ (t.wait = 0 => DueInTime(t, pc', loc'))
    <3>1. /\ t \in TaskRecord /\ t.owner \in Replayer /\ t.wait \in 0..MaxDelay
          /\ Tasks[t.task][t.event].delay \in 0..MaxDelay
      BY EventDelay DEF Task, TaskRecord
    <3>2. /\ F(t).owner = t.owner /\ F(t).task = t.task /\ F(t).event = t.event
          /\ F(t).orphan = t.orphan
          /\ F(t).wait = IF t.wait > 0 THEN t.wait - 1 ELSE 0
      BY <3>1 DEF TaskRecord
    <3> HIDE DEF F
    <3> SUFFICES ASSUME ~t.orphan
                 PROVE  /\ pc'[t.owner] \in Playing
                        /\ F(t).wait + loc'[t.owner].elapsed >= Tasks[t.task][t.event].delay
                        /\ t.wait = 0 =>
                             t.wait + loc'[t.owner].elapsed >= Tasks[t.task][t.event].delay
      BY <3>2 DEF DueInTime
    <3> DEFINE el == loc[t.owner].elapsed
               el2 == loc'[t.owner].elapsed
               d == Tasks[t.task][t.event].delay
    <3>3. pc[t.owner] \in Playing /\ t.wait + el >= d
      BY <2>3 DEF DueInTime
    <3>4. el \in 0..MaxDelay /\ el2 = IF el < MaxDelay THEN el + 1 ELSE el
      BY <2>2, <3>1, <3>3
    <3>5. d \in 0..MaxDelay
      BY <3>1
    <3> HIDE DEF el, el2, d
    <3>m. MaxDelay \in Nat
      BY ConstantsAssumption
    <3>6. F(t).wait + el2 >= d /\ (t.wait = 0 => t.wait + el2 >= d)
      BY <3>m, <3>1, <3>2, <3>3, <3>4, <3>5
    <3> QED
      BY <2>1, <3>3, <3>6 DEF el, el2, d
  <2>4. ASSUME NEW e \in Executor, NEW j \in 1..Len(queue'[e])
        PROVE  DueInTime(queue'[e][j], pc', loc')
    <3>1. queue' = [x \in Executor |-> [i \in 1..Len(queue[x]) |-> F(queue[x][i])]]
      BY <1>t DEF Tick, InEveryQueue, Each
    <3> HIDE DEF F
    <3>2. Len(queue'[e]) = Len(queue[e])
      BY <1>0, <3>1, LenProperties
    <3>3. queue[e][j] \in Task /\ DueInTime(queue[e][j], pc, loc)
      BY <3>2, QueuedIsTask DEF TimeInv
    <3> QED
      BY <2>3, <3>1, <3>2, <3>3
  <2>5. ASSUME NEW e \in Executor, running'[e] # NoTask
        PROVE  DueInTime(running'[e], pc', loc') /\ running'[e].wait = 0
    <3>1. running[e] \in Task /\ DueInTime(running[e], pc, loc) /\ running[e].wait = 0
      BY <2>1, <2>5 DEF TypeOK, TimeInv
    <3> HIDE DEF F
    <3> QED
      BY <2>1, <2>3, <3>1
  <2>6. ASSUME NEW x \in Replayer, pc'[x] = "submit"
        PROVE  loc'[x].delay + loc'[x].elapsed >= Tasks[loc'[x].task][loc'[x].next].delay
    <3>1. /\ loc[x].task \in 1..Len(Tasks) /\ loc[x].next \in Nat \ {0}
          /\ loc[x].next <= Len(Tasks[loc[x].task])
          /\ loc[x].delay + loc[x].elapsed >= Tasks[loc[x].task][loc[x].next].delay
          /\ loc[x].delay \in 0..MaxDelay
      BY <1>0, <2>1, <2>6 DEF TypeOK, TimeInv, Local
    <3>2. Tasks[loc[x].task][loc[x].next].delay \in 0..MaxDelay
      BY <3>1, EventDelay
    <3>m. MaxDelay \in Nat
      BY ConstantsAssumption
    <3>3. loc'[x].elapsed \in 0..MaxDelay /\ loc'[x].elapsed >= loc[x].elapsed
      BY <3>m, <2>2
    <3>4. /\ loc'[x].delay = loc[x].delay /\ loc'[x].task = loc[x].task
          /\ loc'[x].next = loc[x].next /\ loc[x].elapsed \in 0..MaxDelay
      BY <2>2
    <3> DEFINE delay == loc[x].delay
               el == loc[x].elapsed
               el2 == loc'[x].elapsed
               d == Tasks[loc[x].task][loc[x].next].delay
    <3>5. delay + el >= d /\ delay \in 0..MaxDelay /\ d \in 0..MaxDelay
      BY <3>1, <3>2
    <3>6. el \in 0..MaxDelay /\ el2 \in 0..MaxDelay /\ el2 >= el
      BY <3>3, <3>4
    <3> HIDE DEF delay, el, el2, d
    <3>7. delay + el2 >= d
      BY <3>5, <3>6
    <3> QED
      BY <3>4, <3>7 DEF delay, el2, d
  <2> QED
    BY <2>4, <2>5, <2>6 DEF TimeInv
<1>l. CASE Relaunch
  <2>1. \A e \in Executor : queue'[e] = << >> /\ running'[e] = NoTask
    BY <1>l DEF Relaunch, On
  <2>2. \A r \in Replayer : pc'[r] # "submit"
    BY <1>l DEF Relaunch, On, Thread
  <2> QED
    BY <2>1, <2>2 DEF TimeInv
<1>v. CASE UNCHANGED vars
  <2>1. UNCHANGED <<pc, loc, queue, running>>
    BY <1>v DEF vars, shared
  <2> QED
    BY <2>1, TimeKept DEF StaysInPlay, NoNewSubmit
<1> QED
  BY <1>r, <1>e, <1>s, <1>t, <1>l, <1>v DEF Next, Step

\* No report of a play goes out before the time, counted from the start of the play, at
\* which it was recorded: line 216 subtracts the time the loop has used, and neither the
\* executor's order nor a late submission makes up for more than that.
THEOREM NeverEarly == Spec => []NotEarly
<1>1. Init => TimeInv
  <2> SUFFICES ASSUME Init PROVE TimeInv
    OBVIOUS
  <2>1. \A e \in Executor : queue[e] = << >> /\ running[e] = NoTask
    BY DEF Init, On
  <2>2. \A r \in Replayer : pc[r] # "submit"
    BY DEF Init, On, Thread
  <2> QED
    BY <2>1, <2>2 DEF TimeInv
<1>2. TypeOK /\ TimeInv => NotEarly
  <2> SUFFICES ASSUME TypeOK, TimeInv, NEW e \in Executor,
                      running[e] # NoTask, ~running[e].orphan
               PROVE  loc[running[e].owner].elapsed
                        >= Tasks[running[e].task][running[e].event].delay
    BY DEF NotEarly
  <2>1. /\ DueInTime(running[e], pc, loc) /\ running[e].wait = 0
        /\ running[e].owner \in Replayer
    BY DEF TypeOK, TimeInv, Task, TaskRecord
  <2>2. loc[running[e].owner].elapsed \in 0..MaxDelay
    BY <2>1 DEF TypeOK, Local
  <2> QED
    BY <2>1, <2>2 DEF DueInTime
<1> QED
  BY <1>1, <1>2, TimeStep, TypeCorrect, PTL DEF Spec
-----------------------------------------------------------------------------
(* NothingLeft *)

\* While clients take turns, one request runs at a time.
OneBusy == Serial => \A x, y \in Replayer : ~Idle(x) /\ ~Idle(y) => x = y

\* Every step keeps that: only the start of a request makes a thread busy.
LEMMA OneBusyStep == TypeOK /\ OneBusy /\ [Next]_vars => OneBusy'
<1> SUFFICES ASSUME TypeOK, OneBusy, [Next]_vars, Serial PROVE OneBusy'
  BY DEF OneBusy
<1> USE DEF Idle
<1>0. pc \in [Thread -> ReplayStep \cup StopStep]
  BY DEF TypeOK
<1>k. ASSUME \A x \in Replayer : pc'[x] # "idle" => pc[x] # "idle" PROVE OneBusy'
  BY <1>k DEF OneBusy
<1>r. ASSUME NEW r \in Replayer, ReplayerNext(r) PROVE OneBusy'
  <2> USE DEF Goto
  <2>0. ASSUME NEW to, pc[r] # "idle", pc' = [pc EXCEPT ![r] = to] PROVE OneBusy'
    BY <1>0, <1>k, <2>0 DEF Thread
  <2>1. CASE Start(r)
    <3>1. \A p \in Thread : pc[p] = "idle"
      BY <2>1 DEF Start
    <3>2. \A x \in Replayer : pc'[x] # "idle" => x = r
      BY <1>0, <2>1, <3>1 DEF Start, Thread
    <3> QED
      BY <3>2 DEF OneBusy
  <2>2. CASE ~Start(r)
    <3>1. pc[r] # "idle" /\ \E to : pc' = [pc EXCEPT ![r] = to]
      BY <1>r, <2>2
      DEF ReplayerNext, Load, LoadThrows, SleepThrows, Throw, Played, Return, Wake, Enter,
          Create, CheckGoesOn, CheckAborts, CheckEnds, Submit, Rejected, Add, Shutdown,
          AwaitTermination, Awaited
    <3> QED
      BY <2>0, <3>1
  <2> QED
    BY <2>1, <2>2
<1>e. ASSUME NEW e \in Executor, WorkerNext(e) PROVE OneBusy'
  BY <1>k, <1>e DEF WorkerNext, Take, Send
<1>s. ASSUME NEW s \in Stopper, StopperNext(s) PROVE OneBusy'
  <2>1. \E to : pc' = [pc EXCEPT ![s] = to]
    BY <1>s
    DEF StopperNext, Stop, StopIterator, StopCancels, StopThrows, StopShutsDown,
        StopSignals, Goto
  <2> QED
    BY <1>0, <1>k, <2>1, ConstantsAssumption DEF Thread
<1>t. CASE Tick
  BY <1>k, <1>t DEF Tick
<1>l. CASE Relaunch
  BY <1>l DEF Relaunch, On, Thread, OneBusy
<1>v. CASE UNCHANGED vars
  BY <1>k, <1>v DEF vars
<1> QED
  BY <1>r, <1>e, <1>s, <1>t, <1>l, <1>v DEF Next, Step

\* Steps that change tasks where they wait leave every queue as long as it was.
LEMMA SameLength ==
  ASSUME TypeOK,
         \/ \E r \in Replayer : LeavePlay(r) \/ Add(r)
         \/ \E s \in Stopper : StopCancels(s)
         \/ Tick
  PROVE  \A e \in Executor : Len(queue'[e]) = Len(queue[e])
<1>1. PICK g : queue' = [e \in Executor |-> [j \in 1..Len(queue[e]) |-> g[e][j]]]
  <2>1. ASSUME NEW r \in Replayer, LeavePlay(r)
        PROVE  \E g : queue' = [e \in Executor |-> [j \in 1..Len(queue[e]) |-> g[e][j]]]
    <3> DEFINE g == [e \in Executor |-> [j \in 1..Len(queue[e]) |-> Orphaned(r, queue[e][j])]]
    <3>1. queue' = [e \in Executor |-> [j \in 1..Len(queue[e]) |-> g[e][j]]]
      BY <2>1 DEF LeavePlay, InEveryQueue, Each
    <3> HIDE DEF g
    <3> QED
      BY <3>1
  <2>2. ASSUME NEW r \in Replayer, Add(r)
        PROVE  \E g : queue' = [e \in Executor |-> [j \in 1..Len(queue[e]) |-> g[e][j]]]
    <3> DEFINE F(t) == IF t.owner = r /\ ~t.orphan THEN [t EXCEPT !.added = TRUE] ELSE t
               g == [e \in Executor |-> [j \in 1..Len(queue[e]) |-> F(queue[e][j])]]
    <3>1. queue' = [e \in Executor |-> [j \in 1..Len(queue[e]) |-> g[e][j]]]
      BY <2>2 DEF Add, InEveryQueue, Each
    <3> HIDE DEF g
    <3> QED
      BY <3>1
  <2>3. ASSUME NEW s \in Stopper, StopCancels(s)
        PROVE  \E g : queue' = [e \in Executor |-> [j \in 1..Len(queue[e]) |-> g[e][j]]]
    <3> DEFINE F(t) == IF t.added THEN [t EXCEPT !.cancelled = TRUE] ELSE t
               g == [e \in Executor |-> [j \in 1..Len(queue[e]) |-> F(queue[e][j])]]
    <3>1. queue' = [e \in Executor |-> [j \in 1..Len(queue[e]) |-> g[e][j]]]
      BY <2>3 DEF StopCancels, InEveryQueue, Each
    <3> HIDE DEF g
    <3> QED
      BY <3>1
  <2>4. ASSUME Tick
        PROVE  \E g : queue' = [e \in Executor |-> [j \in 1..Len(queue[e]) |-> g[e][j]]]
    <3> DEFINE F(t) == [t EXCEPT !.wait = IF @ > 0 THEN @ - 1 ELSE 0]
               g == [e \in Executor |-> [j \in 1..Len(queue[e]) |-> F(queue[e][j])]]
    <3>1. queue' = [e \in Executor |-> [j \in 1..Len(queue[e]) |-> g[e][j]]]
      BY <2>4 DEF Tick, InEveryQueue, Each
    <3> HIDE DEF g
    <3> QED
      BY <3>1
  <2> QED
    BY <2>1, <2>2, <2>3, <2>4
<1>2. ASSUME NEW e \in Executor PROVE Len(queue'[e]) = Len(queue[e])
  <2>1. Len(queue[e]) \in Nat
    BY LenProperties DEF TypeOK
  <2>2. queue'[e] = [j \in 1..Len(queue[e]) |-> g[e][j]]
    BY <1>1
  <2> QED
    BY <2>1, <2>2
<1> QED
  BY <1>2

\* Some stopReplay has raised the flag and not yet drained the executor.
Stopping == \E s \in Stopper : pc[s] \in {"iterator", "forEach", "shutdownNow"}

\* Nothing can come out of the current executor any more, unless something is submitted.
Quiet == queue[scheduler] = << >> /\ (scheduler \in shut \/ running[scheduler] = NoTask)

\* A thread between two plays finds the executor quiet; one that hands over events finds
\* it so once it was shut down, or once the stop that raised the flag is done with it.
Settled(r) ==
  /\ pc[r] \in {"sleep", "load", "enter", "create"} => Quiet
  /\ pc[r] = "played" /\ ~stopFlag => Quiet
  /\ pc[r] \in {"check", "submit", "add"} /\ scheduler \in shut => Quiet
  /\ pc[r] \in {"check", "submit", "add"} /\ stopFlag /\ ~Stopping =>
       Quiet /\ (scheduler \in shut \/ pc[r] = "check")
  /\ pc[r] = "await" => loc[r].awaited = scheduler

\* Inductive, with OneBusy: while clients take turns, only the current executor holds
\* tasks, and only during a play or until a stop has drained it.
TurnInv ==
  Serial /\ alive =>
    /\ \A e \in Executor \ {scheduler} : queue[e] = << >>
    /\ Quiet \/ Stopping \/ \E r \in Replayer : pc[r] \in Playing
    /\ \A r \in Replayer : Settled(r)

\* A queue of the same length is as empty.
LEMMA SameEmpty ==
  ASSUME NEW S, NEW q \in Seq(S), NEW p, Len(p) = Len(q), p \in Seq(S)
  PROVE  p = << >> <=> q = << >>
  BY EmptySeq

\* While clients take turns, every other replay thread is idle, before and after.
LEMMA OthersIdle ==
  ASSUME TypeOK, OneBusy, Serial, NEW r \in Replayer, ~Idle(r), NEW to,
         pc' = [pc EXCEPT ![r] = to]
  PROVE  /\ pc'[r] = to
         /\ \A x \in Replayer \ {r} : pc[x] = "idle" /\ pc'[x] = "idle"
         /\ \A s \in Stopper : pc'[s] = pc[s]
         /\ Stopping' = Stopping
<1>1. pc'[r] = to /\ \A x \in Replayer \ {r} : pc[x] = "idle" /\ pc'[x] = "idle"
  BY DEF TypeOK, OneBusy, Idle, Thread
<1>2. \A s \in Stopper : pc'[s] = pc[s]
  BY ConstantsAssumption DEF TypeOK, Thread
<1> QED
  BY <1>1, <1>2 DEF Stopping

\* What a step of replay thread r leaves behind.
LEMMA TurnOfPlay ==
  ASSUME NEW r \in Replayer, \A x \in Replayer \ {r} : pc'[x] = "idle",
         \A e \in Executor \ {scheduler'} : queue'[e] = << >>,
         Quiet' \/ Stopping' \/ pc'[r] \in Playing,
         Settled(r)'
  PROVE  TurnInv'
<1>1. \A x \in Replayer \ {r} : Settled(x)'
  BY DEF Settled
<1> QED
  BY <1>1 DEF TurnInv

\* Every step keeps the invariant.
LEMMA TurnStep == TypeOK /\ OneBusy /\ TurnInv /\ [Next]_vars => TurnInv'
<1> SUFFICES ASSUME TypeOK, TypeOK', OneBusy, TurnInv, [Next]_vars, Serial PROVE TurnInv'
  BY StepType DEF TurnInv
<1>0. /\ pc \in [Thread -> ReplayStep \cup StopStep]
      /\ loc \in [Replayer -> Local]
      /\ queue \in [Executor -> Seq(Task)] /\ queue' \in [Executor -> Seq(Task)]
      /\ running \in [Executor -> Task \cup {NoTask}]
      /\ scheduler \in Executor /\ scheduler' \in Executor
  BY DEF TypeOK
<1>m. ASSUME \A e \in Executor : Len(queue'[e]) = Len(queue[e])
      PROVE  \A e \in Executor : queue'[e] = << >> <=> queue[e] = << >>
  BY <1>0, <1>m, SameEmpty
<1>r. ASSUME NEW r \in Replayer, alive, ReplayerNext(r) PROVE TurnInv'
  <2> USE DEF shared, ghosts, Goto
  <2>a. /\ \A e \in Executor \ {scheduler} : queue[e] = << >>
        /\ Quiet \/ Stopping \/ \E x \in Replayer : pc[x] \in Playing
        /\ Settled(r)
    BY <1>r DEF TurnInv
  <2>b. ASSUME pc[r] \notin Playing, pc[r] # "idle" PROVE Quiet \/ Stopping
    BY <2>a, <2>b DEF OneBusy, Idle, Playing
  <2>q. ASSUME LeavePlay(r), UNCHANGED <<scheduler, shut>>
        PROVE  /\ Quiet => Quiet'
               /\ \A e \in Executor \ {scheduler} : queue'[e] = << >>
    <3>1. \A e \in Executor : queue'[e] = << >> <=> queue[e] = << >>
      BY <1>m, <2>q, SameLength
    <3>2. running[scheduler] = NoTask => running'[scheduler] = NoTask
      BY <1>0, <2>q DEF LeavePlay
    <3> QED
      BY <1>0, <2>a, <2>q, <3>1, <3>2 DEF Quiet
  <2>1. CASE Start(r)
    <3>1. \A p \in Thread : pc[p] = "idle"
      BY <2>1 DEF Start, Idle
    <3>2. Quiet
      BY <2>a, <3>1 DEF Stopping, Playing, Thread
    <3>3. Quiet' /\ UNCHANGED <<queue, scheduler>>
      BY <2>1, <3>2 DEF Start, Quiet
    <3>4. pc'[r] = "load" /\ \A x \in Replayer \ {r} : pc'[x] = "idle"
      BY <1>0, <2>1, <3>1 DEF Start, Thread
    <3> QED
      BY <2>a, <3>3, <3>4, TurnOfPlay DEF Settled
  <2>2. CASE Played(r)
    <3>1. PICK to \in {"idle", "sleep"} : pc' = [pc EXCEPT ![r] = to] /\ (to = "sleep" => ~stopFlag)
      BY <2>2 DEF Played, Return
    <3>2. pc[r] = "played" /\ UNCHANGED <<queue, running, scheduler, shut>>
      BY <2>2 DEF Played
    <3>3. /\ pc'[r] = to /\ \A x \in Replayer \ {r} : pc'[x] = "idle"
          /\ Stopping' = Stopping
      BY <3>1, <3>2, OthersIdle DEF Idle
    <3>4. Quiet' = Quiet
      BY <3>2 DEF Quiet
    <3>5. Quiet \/ Stopping
      BY <2>b, <3>2 DEF Playing
    <3>6. Settled(r)'
      BY <2>a, <3>1, <3>2, <3>3, <3>4 DEF Settled
    <3> QED
      BY <2>a, <3>2, <3>3, <3>4, <3>5, <3>6, TurnOfPlay
  <2>3. CASE Wake(r)
    <3>1. PICK to \in {"idle", "load"} : pc' = [pc EXCEPT ![r] = to]
      BY <2>3 DEF Wake, Return
    <3>2. pc[r] = "sleep" /\ UNCHANGED <<queue, running, scheduler, shut>>
      BY <2>3 DEF Wake
    <3>3. pc'[r] = to /\ \A x \in Replayer \ {r} : pc'[x] = "idle"
      BY <3>1, <3>2, OthersIdle DEF Idle
    <3>4. Quiet'
      BY <2>a, <3>2 DEF Quiet, Settled
    <3> QED
      BY <2>a, <3>2, <3>3, <3>4, TurnOfPlay DEF Settled
  <2>4. CASE Enter(r)
    <3>1. PICK to \in {"create", "check"} : pc' = [pc EXCEPT ![r] = to]
      BY <2>4 DEF Enter
    <3>2. pc[r] = "enter" /\ UNCHANGED <<queue, running, scheduler, shut>>
      BY <2>4 DEF Enter
    <3>3. pc'[r] = to /\ \A x \in Replayer \ {r} : pc'[x] = "idle"
      BY <3>1, <3>2, OthersIdle DEF Idle
    <3>4. Quiet'
      BY <2>a, <3>2 DEF Quiet, Settled
    <3> QED
      BY <2>a, <3>2, <3>3, <3>4, TurnOfPlay DEF Settled
  <2>5. CASE Create(r)
    <3>1. PICK e \in Executor : Fresh(e) /\ scheduler' = e /\ shut' = shut \ {e}
      BY <2>5 DEF Create
    <3>2. pc[r] = "create" /\ pc' = [pc EXCEPT ![r] = "check"] /\ UNCHANGED <<queue, running>>
      BY <2>5 DEF Create
    <3>3. pc'[r] = "check" /\ \A x \in Replayer \ {r} : pc'[x] = "idle"
      BY <3>2, OthersIdle DEF Idle
    <3>4. Quiet'
      BY <3>1, <3>2 DEF Quiet, Fresh, Terminated
    <3>5. \A x \in Executor \ {scheduler'} : queue'[x] = << >>
      BY <2>a, <3>2 DEF Settled, Quiet
    <3> QED
      BY <3>3, <3>4, <3>5, TurnOfPlay DEF Settled
  <2>6. CASE CheckGoesOn(r)
    <3>1. /\ pc[r] = "check" /\ pc' = [pc EXCEPT ![r] = "submit"]
          /\ ~stopFlag /\ scheduler \notin shut
          /\ UNCHANGED <<stopFlag, queue, running, scheduler, shut>>
      BY <2>6 DEF CheckGoesOn
    <3>2. pc'[r] = "submit" /\ \A x \in Replayer \ {r} : pc'[x] = "idle"
      BY <3>1, OthersIdle DEF Idle
    <3> QED
      BY <2>a, <3>1, <3>2, TurnOfPlay DEF Settled, Playing
  <2>7. CASE CheckAborts(r)
    <3>1. /\ pc[r] = "check" /\ pc' = [pc EXCEPT ![r] = "played"]
          /\ stopFlag \/ scheduler \in shut
          /\ UNCHANGED <<stopFlag, scheduler, shut>>
      BY <2>7 DEF CheckAborts
    <3>2. /\ pc'[r] = "played" /\ \A x \in Replayer \ {r} : pc'[x] = "idle"
          /\ Stopping' = Stopping
      BY <3>1, OthersIdle DEF Idle
    <3>3. /\ Quiet => Quiet'
          /\ \A e \in Executor \ {scheduler} : queue'[e] = << >>
      BY <2>7, <2>q DEF CheckAborts
    <3>4. (scheduler \in shut => Quiet) /\ (stopFlag /\ ~Stopping => Quiet)
      BY <2>a, <3>1 DEF Settled
    <3>5. Quiet' \/ Stopping'
      BY <3>1, <3>2, <3>3, <3>4
    <3>6. Settled(r)'
      BY <3>1, <3>2, <3>3, <3>4 DEF Settled
    <3> QED
      BY <3>1, <3>2, <3>3, <3>5, <3>6, TurnOfPlay
  <2>8. CASE CheckEnds(r)
    <3>1. /\ pc[r] = "check" /\ pc' = [pc EXCEPT ![r] = "shutdown"]
          /\ UNCHANGED <<queue, scheduler>>
      BY <2>8 DEF CheckEnds
    <3>2. pc'[r] = "shutdown" /\ \A x \in Replayer \ {r} : pc'[x] = "idle"
      BY <3>1, OthersIdle DEF Idle
    <3> QED
      BY <2>a, <3>1, <3>2, TurnOfPlay DEF Settled, Playing
  <2>9. CASE Submit(r)
    <3>1. /\ pc[r] = "submit" /\ pc' = [pc EXCEPT ![r] = "add"]
          /\ scheduler \notin shut
          /\ UNCHANGED <<stopFlag, scheduler, shut>>
      BY <2>9 DEF Submit
    <3>2. /\ pc'[r] = "add" /\ \A x \in Replayer \ {r} : pc'[x] = "idle"
          /\ Stopping' = Stopping
      BY <3>1, OthersIdle DEF Idle
    <3>3. \A e \in Executor \ {scheduler} : queue'[e] = queue[e]
      BY <1>0, <2>9 DEF Submit, Enqueue
    <3>4. ~(stopFlag /\ ~Stopping)
      BY <2>a, <3>1 DEF Settled
    <3>5. Settled(r)'
      BY <3>1, <3>2, <3>4 DEF Settled
    <3> QED
      BY <2>a, <3>1, <3>2, <3>3, <3>5, TurnOfPlay DEF Playing
  <2>10. CASE Rejected(r)
    <3>1. /\ pc[r] = "submit" /\ pc' = [pc EXCEPT ![r] = "idle"] /\ scheduler \in shut
          /\ UNCHANGED <<scheduler, shut>>
      BY <2>10 DEF Rejected, Throw, Return
    <3>2. pc'[r] = "idle" /\ \A x \in Replayer \ {r} : pc'[x] = "idle"
      BY <3>1, OthersIdle DEF Idle
    <3>3. Quiet' /\ \A e \in Executor \ {scheduler} : queue'[e] = << >>
      BY <2>10, <2>a, <2>q, <3>1 DEF Rejected, Settled
    <3> QED
      BY <3>1, <3>2, <3>3, TurnOfPlay DEF Settled
  <2>11. CASE Add(r)
    <3>1. /\ pc[r] = "add" /\ pc' = [pc EXCEPT ![r] = "check"]
          /\ UNCHANGED <<stopFlag, scheduler, shut, running>>
      BY <2>11 DEF Add
    <3>2. /\ pc'[r] = "check" /\ \A x \in Replayer \ {r} : pc'[x] = "idle"
          /\ Stopping' = Stopping
      BY <3>1, OthersIdle DEF Idle
    <3>3. \A e \in Executor : queue'[e] = << >> <=> queue[e] = << >>
      BY <1>m, <2>11, SameLength
    <3>4. Quiet' = Quiet
      BY <1>0, <3>1, <3>3 DEF Quiet
    <3>5. Settled(r)'
      BY <2>a, <3>1, <3>2, <3>4 DEF Settled
    <3> QED
      BY <2>a, <3>1, <3>2, <3>3, <3>5, TurnOfPlay DEF Playing
  <2>12. CASE Shutdown(r)
    <3>1. /\ pc[r] = "shutdown" /\ pc' = [pc EXCEPT ![r] = "awaiting"]
          /\ UNCHANGED <<queue, scheduler>>
      BY <2>12 DEF Shutdown
    <3>2. pc'[r] = "awaiting" /\ \A x \in Replayer \ {r} : pc'[x] = "idle"
      BY <3>1, OthersIdle DEF Idle
    <3> QED
      BY <2>a, <3>1, <3>2, TurnOfPlay DEF Settled, Playing
  <2>13. CASE AwaitTermination(r)
    <3>1. /\ pc[r] = "awaiting" /\ pc' = [pc EXCEPT ![r] = "await"]
          /\ UNCHANGED <<queue, scheduler>>
      BY <2>13 DEF AwaitTermination
    <3>2. pc'[r] = "await" /\ \A x \in Replayer \ {r} : pc'[x] = "idle"
      BY <3>1, OthersIdle DEF Idle
    <3>3. loc'[r].awaited = scheduler
      BY <1>0, <2>13 DEF AwaitTermination, Local
    <3> QED
      BY <2>a, <3>1, <3>2, <3>3, TurnOfPlay DEF Settled, Playing
  <2>14. CASE Awaited(r)
    <3>1. /\ pc[r] = "await" /\ pc' = [pc EXCEPT ![r] = "played"]
          /\ Terminated(loc[r].awaited)
          /\ UNCHANGED <<scheduler, shut>>
      BY <2>14 DEF Awaited
    <3>2. pc'[r] = "played" /\ \A x \in Replayer \ {r} : pc'[x] = "idle"
      BY <3>1, OthersIdle DEF Idle
    <3>3. Quiet
      BY <2>a, <3>1 DEF Settled, Terminated, Quiet
    <3>4. Quiet' /\ \A e \in Executor \ {scheduler} : queue'[e] = << >>
      BY <2>14, <2>q, <3>3 DEF Awaited
    <3> QED
      BY <3>1, <3>2, <3>4, TurnOfPlay DEF Settled
  <2>t. ASSUME NEW to \in {"idle", "enter"}, pc[r] \in {"sleep", "load"},
               pc' = [pc EXCEPT ![r] = to], UNCHANGED shared
        PROVE  TurnInv'
    <3>1. pc'[r] = to /\ \A x \in Replayer \ {r} : pc'[x] = "idle"
      BY <2>t, OthersIdle DEF Idle
    <3>2. Quiet'
      BY <2>a, <2>t DEF Quiet, Settled
    <3> QED
      BY <2>a, <2>t, <3>1, <3>2, TurnOfPlay DEF Settled
  <2>15. CASE Load(r)
    BY <2>t, <2>15 DEF Load
  <2>16. CASE LoadThrows(r)
    BY <2>t, <2>16 DEF LoadThrows, Throw, Return
  <2>17. CASE SleepThrows(r)
    BY <2>t, <2>17 DEF SleepThrows, Throw, Return
  <2> QED
    BY <1>r, <2>1, <2>2, <2>3, <2>4, <2>5, <2>6, <2>7, <2>8, <2>9, <2>10, <2>11, <2>12,
      <2>13, <2>14, <2>15, <2>16, <2>17 DEF ReplayerNext
\* A step of no replay thread that leaves tasks and flags as they are, or quiet.
<1>k. ASSUME alive, UNCHANGED <<scheduler, stopFlag>>, Stopping' = Stopping, shut \subseteq shut',
             \A x \in Replayer : pc'[x] = pc[x] /\ loc'[x].awaited = loc[x].awaited,
             \A e \in Executor \ {scheduler} : queue'[e] = << >>,
             (Quiet => Quiet') /\ (shut' = shut \/ Quiet')
      PROVE  TurnInv'
  <2>1. /\ Quiet \/ Stopping \/ \E x \in Replayer : pc[x] \in Playing
        /\ \A x \in Replayer : Settled(x)
    BY <1>k DEF TurnInv
  <2>2. ASSUME NEW x \in Replayer PROVE Settled(x)'
    BY <1>k, <2>1 DEF Settled
  <2> QED
    BY <1>k, <2>1, <2>2 DEF TurnInv
<1>e. ASSUME NEW e \in Executor, alive, WorkerNext(e) PROVE TurnInv'
  <2>1. /\ UNCHANGED <<stopFlag, scheduler, shut, pc, loc>>
        /\ \/ queue' = [queue EXCEPT ![e] = Tail(@)] /\ queue[e] # << >>
           \/ queue' = queue /\ running' = [running EXCEPT ![e] = NoTask]
    BY <1>e DEF WorkerNext, Take, Send, ghosts
  <2>2. \A x \in Executor \ {scheduler} : queue[x] = << >>
    BY <1>e DEF TurnInv
  <2>3. \A x \in Executor \ {scheduler} : queue'[x] = << >>
    BY <1>0, <2>1, <2>2
  <2>4. Quiet => Quiet'
    BY <1>0, <2>1, <2>2 DEF Quiet
  <2> QED
    BY <1>e, <1>k, <2>1, <2>3, <2>4 DEF Stopping
<1>s. ASSUME NEW s \in Stopper, alive, StopperNext(s) PROVE TurnInv'
  <2> USE DEF shared, ghosts, Goto
  <2>0. ASSUME NEW to, pc' = [pc EXCEPT ![s] = to]
        PROVE  /\ \A x \in Replayer : pc'[x] = pc[x]
               /\ pc'[s] = to /\ \A x \in Stopper \ {s} : pc'[x] = pc[x]
    BY <1>0, <2>0, ConstantsAssumption DEF Thread
  <2>a. /\ \A e \in Executor \ {scheduler} : queue[e] = << >>
        /\ Quiet \/ Stopping \/ \E x \in Replayer : pc[x] \in Playing
        /\ \A x \in Replayer : Settled(x)
    BY <1>s DEF TurnInv
  <2>1. CASE Stop(s)
    <3>1. /\ pc' = [pc EXCEPT ![s] = "iterator"] /\ stopFlag'
          /\ UNCHANGED <<queue, running, scheduler, shut, loc>>
      BY <2>1 DEF Stop
    <3>2. Stopping' /\ \A x \in Replayer : pc'[x] = pc[x]
      BY <2>0, <3>1 DEF Stopping
    <3>3. Quiet' = Quiet
      BY <3>1 DEF Quiet
    <3>4. ASSUME NEW x \in Replayer PROVE Settled(x)'
      BY <2>a, <3>1, <3>2, <3>3 DEF Settled
    <3> QED
      BY <2>a, <3>1, <3>2, <3>4 DEF TurnInv
  <2>2. CASE StopIterator(s)
    <3>1. /\ pc[s] = "iterator" /\ pc' = [pc EXCEPT ![s] = "forEach"]
          /\ UNCHANGED <<stopFlag, queue, running, scheduler, shut, loc>>
      BY <2>2 DEF StopIterator
    <3>2. Stopping /\ Stopping' /\ \A x \in Replayer : pc'[x] = pc[x]
      BY <2>0, <3>1 DEF Stopping
    <3>3. Quiet' = Quiet
      BY <3>1 DEF Quiet
    <3> QED
      BY <1>k, <1>s, <2>a, <3>1, <3>2, <3>3
  <2>3. CASE StopCancels(s)
    <3>1. /\ pc[s] = "forEach" /\ pc' = [pc EXCEPT ![s] = "shutdownNow"]
          /\ UNCHANGED <<stopFlag, running, scheduler, shut, loc>>
      BY <2>3 DEF StopCancels
    <3>2. Stopping /\ Stopping' /\ \A x \in Replayer : pc'[x] = pc[x]
      BY <2>0, <3>1 DEF Stopping
    <3>3. \A e \in Executor : queue'[e] = << >> <=> queue[e] = << >>
      BY <1>m, <2>3, SameLength
    <3>4. Quiet' = Quiet
      BY <1>0, <3>1, <3>3 DEF Quiet
    <3> QED
      BY <1>k, <1>s, <2>a, <3>1, <3>2, <3>3, <3>4
  <2>4. CASE StopThrows(s)
    BY <2>4 DEF StopThrows, TurnInv
  <2>5. CASE StopShutsDown(s)
    <3>1. /\ pc' = [pc EXCEPT ![s] = "signal"]
          /\ scheduler \in shut' /\ queue'[scheduler] = << >>
          /\ \A e \in Executor \ {scheduler} : queue'[e] = queue[e]
          /\ UNCHANGED <<stopFlag, running, scheduler, loc>>
      BY <1>0, <2>5 DEF StopShutsDown
    <3>2. \A x \in Replayer : pc'[x] = pc[x]
      BY <2>0, <3>1
    <3>3. Quiet'
      BY <3>1 DEF Quiet
    <3>4. ASSUME NEW x \in Replayer PROVE Settled(x)'
      BY <2>a, <3>1, <3>2, <3>3 DEF Settled
    <3> QED
      BY <2>a, <3>1, <3>3, <3>4 DEF TurnInv
  <2>6. CASE StopSignals(s)
    <3>1. /\ pc[s] = "signal" /\ pc' = [pc EXCEPT ![s] = "idle"]
          /\ UNCHANGED <<stopFlag, queue, running, scheduler, shut, loc>>
      BY <2>6 DEF StopSignals
    <3>2. Stopping' = Stopping /\ \A x \in Replayer : pc'[x] = pc[x]
      BY <2>0, <3>1 DEF Stopping
    <3>3. Quiet' = Quiet
      BY <3>1 DEF Quiet
    <3> QED
      BY <1>k, <1>s, <2>a, <3>1, <3>2, <3>3
  <2> QED
    BY <1>s, <2>1, <2>2, <2>3, <2>4, <2>5, <2>6 DEF StopperNext
<1>t. CASE alive /\ Tick
  <2>1. /\ UNCHANGED <<pc, stopFlag, running, scheduler, shut>>
        /\ \A x \in Replayer : loc'[x].awaited = loc[x].awaited
    BY <1>0, <1>t DEF Tick, Local
  <2>2. \A e \in Executor : queue'[e] = << >> <=> queue[e] = << >>
    BY <1>m, <1>t, SameLength
  <2>3. Quiet' = Quiet
    BY <1>0, <2>1, <2>2 DEF Quiet
  <2>4. \A e \in Executor \ {scheduler} : queue'[e] = << >>
    BY <1>t, <2>2 DEF TurnInv
  <2> QED
    BY <1>k, <1>t, <2>1, <2>3, <2>4 DEF Stopping
<1>l. CASE Relaunch
  <2>1. /\ \A e \in Executor : queue'[e] = << >> /\ running'[e] = NoTask
        /\ \A x \in Replayer : pc'[x] = "idle"
    BY <1>l DEF Relaunch, On, Thread
  <2> QED
    BY <1>0, <2>1 DEF TurnInv, Quiet, Settled
<1>v. CASE UNCHANGED vars
  <2>1. UNCHANGED <<pc, loc, alive, queue, stopFlag, running, scheduler, shut>>
    BY <1>v DEF vars, shared
  <2> QED
    BY <2>1 DEF TurnInv, Quiet, Stopping, Settled
<1> QED
  BY <1>r, <1>e, <1>s, <1>t, <1>l, <1>v DEF Next, Step

\* Initially all is quiet.
LEMMA TurnInit == Init => OneBusy /\ TurnInv
<1> SUFFICES ASSUME Init PROVE OneBusy /\ TurnInv
  OBVIOUS
<1>1. /\ \A e \in Executor : queue[e] = << >> /\ running[e] = NoTask
      /\ \A x \in Replayer : pc[x] = "idle"
      /\ scheduler \in Executor
  BY DEF Init, On, Thread
<1>2. OneBusy
  BY <1>1 DEF OneBusy, Idle
<1>3. TurnInv
  BY <1>1 DEF TurnInv, Quiet, Settled
<1> QED
  BY <1>2, <1>3

\* When the calls of clients that take turns are over, no executor holds a task that a
\* later replay, which lowers stopFlag, would set free: what a play leaves on the
\* executor the stop that ended it drains, and a replay that a stop did not end waited
\* for the last task.
THEOREM NothingIsLeft == Spec => []NothingLeft
<1>1. TypeOK /\ TurnInv => NothingLeft
  <2> SUFFICES ASSUME TypeOK, TurnInv, Serial, AtRest, alive, NEW e \in Executor
               PROVE  queue[e] = << >>
    BY DEF NothingLeft
  <2>1. ~Stopping /\ \A r \in Replayer : pc[r] \notin Playing
    BY DEF AtRest, Thread, Idle, Stopping, Playing
  <2> QED
    BY <2>1 DEF TurnInv, Quiet
<1> QED
  BY <1>1, TurnInit, OneBusyStep, TurnStep, TypeCorrect, PTL DEF Spec
-----------------------------------------------------------------------------
(* Conveyor *)

\* Inductive, with OneBusy: a request that nobody has stopped meets no stop thread, and
\* the flag it lowered is down.
Undisturbed ==
  Serial => \A r \in Replayer : ~Idle(r) /\ ~halted[r] =>
    ~stopFlag /\ \A s \in Stopper : Idle(s)

\* No stop thread takes a step beside a replay that nobody has stopped.
LEMMA NoStopBeside ==
  ASSUME TypeOK, Undisturbed, Serial, NEW s \in Stopper, StopperNext(s),
         NEW x \in Replayer, pc'[x] # "idle", ~halted'[x]
  PROVE  FALSE
<1>1. \E to : pc' = [pc EXCEPT ![s] = to]
  BY DEF StopperNext, Stop, StopIterator, StopCancels, StopThrows, StopShutsDown,
         StopSignals, Goto
<1>2. pc[x] # "idle"
  BY <1>1, ConstantsAssumption DEF TypeOK, Thread
<1>3. CASE Stop(s)
  BY <1>2, <1>3 DEF Stop, Idle
<1>4. CASE ~Stop(s)
  <2>1. pc[s] # "idle" /\ halted' = halted
    BY <1>4
    DEF StopperNext, StopIterator, StopCancels, StopThrows, StopShutsDown, StopSignals,
        Goto, ghosts
  <2> QED
    BY <1>2, <2>1 DEF Undisturbed, Idle
<1> QED
  BY <1>3, <1>4

\* Every step keeps that.
LEMMA UndisturbedStep == TypeOK /\ OneBusy /\ Undisturbed /\ [Next]_vars => Undisturbed'
<1> SUFFICES ASSUME TypeOK, OneBusy, Undisturbed, [Next]_vars, Serial,
                    NEW x \in Replayer, pc'[x] # "idle", ~halted'[x]
             PROVE  ~stopFlag' /\ \A s \in Stopper : pc'[s] = "idle"
  BY DEF Undisturbed, Idle
<1> USE DEF Idle
<1>0. pc \in [Thread -> ReplayStep \cup StopStep] /\ halted \in [Replayer -> BOOLEAN]
  BY DEF TypeOK
<1>k. ASSUME UNCHANGED <<stopFlag, halted>>, pc[x] # "idle", \A s \in Stopper : pc'[s] = pc[s]
      PROVE  ~stopFlag' /\ \A s \in Stopper : pc'[s] = "idle"
  BY <1>k DEF Undisturbed
<1>r. ASSUME NEW r \in Replayer, ReplayerNext(r)
      PROVE  ~stopFlag' /\ \A s \in Stopper : pc'[s] = "idle"
  <2> USE DEF shared, ghosts, Goto
  <2>0. ASSUME NEW to, pc[r] # "idle", pc' = [pc EXCEPT ![r] = to]
        PROVE  /\ pc[x] # "idle" /\ x = r /\ pc'[x] = to
               /\ \A s \in Stopper : pc'[s] = pc[s]
    BY <1>0, <2>0, ConstantsAssumption DEF Thread, OneBusy
  <2>1. CASE Start(r)
    <3>1. \A p \in Thread : pc[p] = "idle"
      BY <2>1 DEF Start
    <3> QED
      BY <1>0, <2>1, <3>1, ConstantsAssumption DEF Start, Thread
  <2>2. CASE Played(r)
    <3>1. pc' = [pc EXCEPT ![r] = "idle"] \/ (pc' = [pc EXCEPT ![r] = "sleep"] /\ stopFlag' = stopFlag)
      BY <2>2 DEF Played, Return
    <3> QED
      BY <1>k, <2>0, <2>2, <3>1 DEF Played
  <2>3. CASE Wake(r)
    <3>1. pc' = [pc EXCEPT ![r] = "idle"] \/ (pc' = [pc EXCEPT ![r] = "load"] /\ stopFlag' = stopFlag)
      BY <2>3 DEF Wake, Return
    <3> QED
      BY <1>k, <2>0, <2>3, <3>1 DEF Wake
  <2>4. CASE ~Start(r) /\ ~Played(r) /\ ~Wake(r)
    <3>1. pc[r] # "idle" /\ UNCHANGED <<stopFlag, halted>> /\ \E to : pc' = [pc EXCEPT ![r] = to]
      BY <1>r, <2>4
      DEF ReplayerNext, Load, LoadThrows, SleepThrows, Throw, Return, Enter, Create,
          CheckGoesOn, CheckAborts, CheckEnds, Submit, Rejected, Add, Shutdown, AwaitTermination, Awaited
    <3> QED
      BY <1>k, <2>0, <3>1
  <2> QED
    BY <2>1, <2>2, <2>3, <2>4
<1>e. ASSUME NEW e \in Executor, WorkerNext(e)
      PROVE  ~stopFlag' /\ \A s \in Stopper : pc'[s] = "idle"
  BY <1>k, <1>e DEF WorkerNext, Take, Send, ghosts
<1>s. ASSUME NEW s \in Stopper, StopperNext(s) PROVE FALSE
  BY <1>s, NoStopBeside
<1>t. CASE Tick
  BY <1>k, <1>t DEF Tick, ghosts
<1>l. CASE Relaunch
  BY <1>l DEF Relaunch, On, Thread
<1>v. CASE UNCHANGED vars
  BY <1>k, <1>v DEF vars, shared, ghosts
<1> QED
  BY <1>r, <1>e, <1>s, <1>t, <1>l, <1>v DEF Next, Step

\* A task that belongs to a running replay is run by the current executor.
NoStray ==
  Serial => \A e \in Executor : running[e] # NoTask /\ ~running[e].orphan => e = scheduler

\* Task t belongs to the current file of replay r, and nobody cancelled it.
Mine(r, t) == t.owner = r /\ ~t.orphan /\ ~t.cancelled /\ t.task = loc[r].task

\* An upper bound of the time left that goes with the lower one of DueInTime.
OnTime(r, t) == t.wait > 0 => t.wait + loc[r].elapsed <= Tasks[t.task][t.event].delay + Jitter

\* What the current executor holds, soonest first, and the events of it.
Held == InFlight(scheduler) + Len(queue[scheduler])
Nth(j) == IF j <= InFlight(scheduler) THEN running[scheduler]
                                      ELSE queue[scheduler][j - InFlight(scheduler)]
Events == [j \in 1..Held |-> Nth(j).event]

\* Of file f the events before n are handed over: those in s are sent, the others are the
\* N events of E, in this order, and none has a place before one recorded Jitter earlier.
Handed(E, N, s, n, f) ==
  /\ s \subseteq 1..(n - 1)
  /\ \A j \in 1..N : E[j] \in (1..(n - 1)) \ s
  /\ \A i \in 1..(n - 1) : i \in s \/ \E j \in 1..N : E[j] = i
  /\ \A i \in s : \A j \in 1..N : E[j] < i => MayPass(f, i, E[j])
  /\ \A j, l \in 1..N : j < l => E[j] # E[l] /\ (E[l] < E[j] => MayPass(f, E[j], E[l]))

\* What the current executor holds for replay r.
InLine(r) ==
  /\ \A j \in 1..Held : Mine(r, Nth(j)) /\ OnTime(r, Nth(j))
  /\ Handed(Events, Held, sent[r], loc[r].next, Tasks[loc[r].task])
  /\ loc[r].gone => loc[r].next = 1 /\ pc[r] # "submit"
  /\ pc[r] = "submit" /\ loc[r].delay > 0 =>
       loc[r].delay + loc[r].elapsed <= Tasks[loc[r].task][loc[r].next].delay + loc[r].lag

\* Inductive, with the invariants before: so it is for a play that nobody has stopped.
ConveyorInv == Serial => \A r \in Replayer : pc[r] \in Playing /\ ~halted[r] => InLine(r)

\* Everything known so far of clients that take turns.
TurnsInv == TypeOK /\ TimeInv /\ OneBusy /\ TurnInv /\ Undisturbed

\* No step makes a task stray.
LEMMA NoStrayStep == TurnsInv /\ NoStray /\ [Next]_vars => NoStray'
<1> SUFFICES ASSUME TypeOK, TimeInv, OneBusy, TurnInv, NoStray, [Next]_vars, Serial,
                    NEW x \in Executor, running'[x] # NoTask, ~running'[x].orphan
             PROVE  x = scheduler'
  BY DEF NoStray, TurnsInv
<1>0. /\ running \in [Executor -> Task \cup {NoTask}]
      /\ queue \in [Executor -> Seq(Task)]
  BY DEF TypeOK
<1>k. ASSUME running'[x] = running[x], scheduler' = scheduler PROVE x = scheduler'
  BY <1>k DEF NoStray
<1>q. ASSUME NEW r \in Replayer, LeavePlay(r), scheduler' = scheduler PROVE x = scheduler'
  <2>1. running[x] # NoTask /\ running'[x] = Orphaned(r, running[x])
    BY <1>q DEF LeavePlay
  <2>2. ~running[x].orphan
    <3>1. running[x] \in TaskRecord
      BY <1>0, <2>1 DEF Task
    <3> QED
      BY <2>1, <3>1 DEF Orphaned, TaskRecord
  <2> QED
    BY <1>q, <2>1, <2>2 DEF NoStray
<1>r. ASSUME NEW r \in Replayer, ReplayerNext(r) PROVE x = scheduler'
  <2>1. CASE CheckAborts(r) \/ Rejected(r) \/ Awaited(r)
    BY <1>q, <2>1 DEF CheckAborts, Rejected, Awaited
  <2>2. CASE Create(r)
    <3>1. UNCHANGED running /\ pc[r] = "create"
      BY <2>2 DEF Create, Goto
    <3>2. running[x] \in Task /\ DueInTime(running[x], pc, loc)
      BY <1>0, <3>1 DEF TimeInv
    <3>3. running[x].owner \in Replayer /\ pc[running[x].owner] \in Playing
      BY <3>1, <3>2 DEF DueInTime, Task, TaskRecord
    <3> QED
      BY <3>1, <3>3 DEF OneBusy, Idle, Playing
  <2>3. CASE ~(CheckAborts(r) \/ Rejected(r) \/ Awaited(r)) /\ ~Create(r)
    <3>1. UNCHANGED <<running, scheduler>>
      BY <1>r, <2>3
      DEF ReplayerNext, Start, Load, LoadThrows, SleepThrows, Played, Wake, Enter, CheckGoesOn, CheckEnds, Submit, Add,
          Shutdown, AwaitTermination, shared
    <3> QED
      BY <1>k, <3>1
  <2> QED
    BY <2>1, <2>2, <2>3
<1>e. ASSUME NEW e \in Executor, alive, WorkerNext(e) PROVE x = scheduler'
  <2>1. CASE Take(e)
    <3>1. scheduler' = scheduler /\ (x # e => running'[x] = running[x])
      BY <1>0, <2>1 DEF Take
    <3>2. e = scheduler
      BY <1>e, <2>1 DEF Take, TurnInv
    <3> QED
      BY <1>k, <3>1, <3>2
  <2>2. CASE Send(e)
    <3>1. scheduler' = scheduler /\ running'[x] = running[x]
      BY <1>0, <2>2 DEF Send
    <3> QED
      BY <1>k, <3>1
  <2> QED
    BY <1>e, <2>1, <2>2 DEF WorkerNext
<1>s. ASSUME NEW s \in Stopper, StopperNext(s) PROVE x = scheduler'
  BY <1>k, <1>s
  DEF StopperNext, Stop, StopIterator, StopCancels, StopThrows, StopShutsDown, StopSignals,
      shared
<1>t. CASE Tick
  BY <1>k, <1>t DEF Tick
<1>l. CASE Relaunch
  BY <1>l DEF Relaunch, On
<1>v. CASE UNCHANGED vars
  BY <1>k, <1>v DEF vars, shared
<1> QED
  BY <1>r, <1>e, <1>s, <1>t, <1>l, <1>v DEF Next, Step

\* Nothing is handed over when a file begins.
LEMMA HandedStart == ASSUME NEW E, NEW f PROVE Handed(E, 0, {}, 1, f)
  BY DEF Handed

\* The first event in line is sent.
LEMMA HandedSend ==
  ASSUME NEW E, NEW M, NEW N \in Nat \ {0}, NEW n \in Nat \ {0}, NEW s, NEW f,
         Handed(E, N, s, n, f),
         \A j \in 1..(N - 1) : M[j] = E[j + 1]
  PROVE  Handed(M, N - 1, s \cup {E[1]}, n, f)
<1> HIDE DEF MayPass
<1>1. 1 \in 1..N /\ \A j \in 1..(N - 1) : j + 1 \in 1..N /\ 1 < j + 1
  OBVIOUS
<1>2. s \cup {E[1]} \subseteq 1..(n - 1)
  BY <1>1 DEF Handed
<1>3. ASSUME NEW j \in 1..(N - 1) PROVE M[j] \in (1..(n - 1)) \ (s \cup {E[1]})
  <2>1. M[j] = E[j + 1] /\ E[j + 1] \in (1..(n - 1)) \ s /\ E[1] # E[j + 1]
    BY <1>1 DEF Handed
  <2> QED
    BY <2>1
<1>4. ASSUME NEW i \in 1..(n - 1), i \notin s \cup {E[1]}
      PROVE  \E j \in 1..(N - 1) : M[j] = i
  <2>1. PICK j \in 1..N : E[j] = i
    BY <1>4 DEF Handed
  <2>2. j # 1
    BY <1>4, <2>1
  <2>3. j - 1 \in 1..(N - 1) /\ (j - 1) + 1 = j
    BY <2>2
  <2>4. M[j - 1] = i
    BY <2>1, <2>3
  <2> QED
    BY <2>3, <2>4
<1>5. ASSUME NEW i \in s \cup {E[1]}, NEW j \in 1..(N - 1), M[j] < i
      PROVE  MayPass(f, i, M[j])
  <2>1. M[j] = E[j + 1] /\ j + 1 \in 1..N /\ 1 < j + 1
    BY <1>1
  <2>2. CASE i \in s
    BY <1>5, <2>1, <2>2 DEF Handed
  <2>3. CASE i = E[1]
    BY <1>1, <1>5, <2>1, <2>3 DEF Handed
  <2> QED
    BY <2>2, <2>3
<1>6. ASSUME NEW j \in 1..(N - 1), NEW l \in 1..(N - 1), j < l
      PROVE  M[j] # M[l] /\ (M[l] < M[j] => MayPass(f, M[j], M[l]))
  <2>1. /\ M[j] = E[j + 1] /\ M[l] = E[l + 1] /\ j + 1 \in 1..N /\ l + 1 \in 1..N
        /\ j + 1 < l + 1
    BY <1>1, <1>6
  <2> QED
    BY <2>1 DEF Handed
<1> QED
  BY <1>2, <1>3, <1>4, <1>5, <1>6 DEF Handed

\* The next event takes its place in line.
LEMMA HandedSubmit ==
  ASSUME NEW E, NEW M, NEW N \in Nat, NEW n \in Nat \ {0}, NEW s, NEW f, NEW p \in 0..N,
         Handed(E, N, s, n, f),
         \A j \in 1..(N + 1) : M[j] = IF j <= p THEN E[j] ELSE IF j = p + 1 THEN n ELSE E[j - 1],
         \A j \in 1..N : j > p => MayPass(f, n, E[j])
  PROVE  Handed(M, N + 1, s, n + 1, f)
<1> HIDE DEF MayPass
<1>0. (n + 1) - 1 = n /\ 1..(n - 1) \subseteq 1..n /\ n \in 1..n /\ n \notin 1..(n - 1)
  OBVIOUS
<1>1. s \subseteq 1..n
  BY <1>0 DEF Handed
\* Where an element of the new line comes from.
<1>2. ASSUME NEW j \in 1..(N + 1)
      PROVE  \/ j = p + 1 /\ M[j] = n
             \/ j <= p /\ j \in 1..N /\ M[j] = E[j]
             \/ j > p + 1 /\ j - 1 \in 1..N /\ j - 1 > p /\ M[j] = E[j - 1]
  <2>1. CASE j <= p
    BY <2>1
  <2>2. CASE j = p + 1
    BY <2>2
  <2>3. CASE j > p + 1
    <3>1. ~(j <= p) /\ j # p + 1 /\ j - 1 \in 1..N /\ j - 1 > p
      BY <2>3
    <3> QED
      BY <2>3, <3>1
  <2> QED
    BY <2>1, <2>2, <2>3
<1>e. \A j \in 1..N : E[j] \in 1..(n - 1) /\ E[j] \notin s /\ E[j] # n
  BY <1>0 DEF Handed
<1>3. ASSUME NEW j \in 1..(N + 1) PROVE M[j] \in (1..n) \ s
  <2>1. n \notin s
    BY <1>0 DEF Handed
  <2> QED
    BY <1>0, <1>2, <1>e, <2>1
<1>4. ASSUME NEW i \in 1..n, i \notin s PROVE \E j \in 1..(N + 1) : M[j] = i
  <2>1. CASE i = n
    <3>1. p + 1 \in 1..(N + 1) /\ ~(p + 1 <= p)
      OBVIOUS
    <3>2. M[p + 1] = n
      BY <3>1
    <3> QED
      BY <2>1, <3>1, <3>2
  <2>2. CASE i # n
    <3>1. i \in 1..(n - 1)
      BY <2>2
    <3>2. PICK j \in 1..N : E[j] = i
      BY <1>4, <3>1 DEF Handed
    <3>3. CASE j <= p
      <4>1. j \in 1..(N + 1) /\ M[j] = E[j]
        BY <3>3
      <4> QED
        BY <3>2, <4>1
    <3>4. CASE j > p
      <4>1. /\ j + 1 \in 1..(N + 1) /\ ~(j + 1 <= p) /\ j + 1 # p + 1
            /\ (j + 1) - 1 = j
        BY <3>4
      <4>2. M[j + 1] = E[j]
        BY <4>1
      <4> QED
        BY <3>2, <4>1, <4>2
    <3> QED
      BY <3>3, <3>4
  <2> QED
    BY <2>1, <2>2
<1>5. ASSUME NEW i \in s, NEW j \in 1..(N + 1), M[j] < i
      PROVE  MayPass(f, i, M[j])
  <2>1. i \in 1..(n - 1) /\ ~(n < i)
    BY DEF Handed
  <2>2. M[j] # n
    BY <1>5, <2>1
  <2>3. \E l \in 1..N : M[j] = E[l]
    BY <1>2, <2>2
  <2> QED
    BY <1>5, <2>3 DEF Handed
<1>6. ASSUME NEW j \in 1..(N + 1), NEW l \in 1..(N + 1), j < l
      PROVE  M[j] # M[l] /\ (M[l] < M[j] => MayPass(f, M[j], M[l]))
  <2>1. CASE j = p + 1
    <3>1. M[j] = n /\ l - 1 \in 1..N /\ l - 1 > p /\ M[l] = E[l - 1]
      BY <1>2, <1>6, <2>1
    <3> QED
      BY <1>e, <3>1
  <2>2. CASE l = p + 1
    <3>1. M[l] = n /\ M[j] = E[j] /\ j \in 1..N
      BY <1>2, <1>6, <2>2
    <3>2. M[j] \in 1..(n - 1)
      BY <1>e, <3>1
    <3>3. M[j] # M[l] /\ ~(M[l] < M[j])
      BY <3>1, <3>2
    <3> QED
      BY <3>3
  <2>3. CASE j # p + 1 /\ l # p + 1
    <3>1. PICK a \in 1..N, b \in 1..N : a < b /\ M[j] = E[a] /\ M[l] = E[b]
      <4>1. CASE l <= p
        <5>1. j <= p /\ j \in 1..N /\ l \in 1..N /\ M[j] = E[j] /\ M[l] = E[l]
          BY <1>2, <1>6, <4>1
        <5> QED
          BY <1>6, <5>1
      <4>2. CASE l > p + 1
        <5>1. l - 1 \in 1..N /\ M[l] = E[l - 1]
          BY <1>2, <4>2
        <5>2. CASE j <= p
          <6>1. j \in 1..N /\ M[j] = E[j] /\ j < l - 1
            BY <1>2, <4>2, <5>2
          <6> QED
            BY <5>1, <6>1
        <5>3. CASE j > p + 1
          <6>1. j - 1 \in 1..N /\ M[j] = E[j - 1] /\ j - 1 < l - 1
            BY <1>2, <1>6, <5>3
          <6> QED
            BY <5>1, <6>1
        <5> QED
          BY <2>3, <5>2, <5>3
      <4> QED
        BY <2>3, <4>1, <4>2
    <3> QED
      BY <3>1 DEF Handed
  <2> QED
    BY <2>1, <2>2, <2>3
<1> QED
  BY <1>0, <1>1, <1>3, <1>4, <1>5, <1>6 DEF Handed

\* Only the events count, not the function they are the values of.
LEMMA HandedSame ==
  ASSUME NEW E, NEW M, NEW N, NEW n, NEW s, NEW f, Handed(E, N, s, n, f),
         \A j \in 1..N : M[j] = E[j]
  PROVE  Handed(M, N, s, n, f)
<1> HIDE DEF MayPass
<1> QED
  BY DEF Handed

\* What the executor holds is a number of tasks.
LEMMA HeldType ==
  ASSUME TypeOK
  PROVE  /\ InFlight(scheduler) \in {0, 1} /\ Len(queue[scheduler]) \in Nat /\ Held \in Nat
         /\ \A j \in 1..Held :
              Nth(j) \in Task /\
              \/ j = 1 /\ running[scheduler] # NoTask /\ Nth(j) = running[scheduler]
              \/ /\ j - InFlight(scheduler) \in 1..Len(queue[scheduler])
                 /\ Nth(j) = queue[scheduler][j - InFlight(scheduler)]
<1>1. /\ scheduler \in Executor /\ queue[scheduler] \in Seq(Task)
      /\ running[scheduler] \in Task \cup {NoTask}
  BY DEF TypeOK
<1> DEFINE fl == InFlight(scheduler)
           q == queue[scheduler]
<1>2. fl \in {0, 1} /\ Len(q) \in Nat /\ (fl = 1 <=> running[scheduler] # NoTask)
  BY <1>1, LenProperties DEF InFlight
<1>3. ASSUME NEW j \in 1..(fl + Len(q))
      PROVE  Nth(j) \in Task /\
             \/ j = 1 /\ running[scheduler] # NoTask /\ Nth(j) = running[scheduler]
             \/ j - fl \in 1..Len(q) /\ Nth(j) = q[j - fl]
  <2>1. CASE j <= fl
    <3>1. j = 1 /\ fl = 1
      BY <1>2, <2>1
    <3>2. Nth(j) = running[scheduler]
      BY <2>1 DEF Nth
    <3> QED
      BY <1>1, <1>2, <3>1, <3>2
  <2>2. CASE ~(j <= fl)
    <3>1. j - fl \in 1..Len(q)
      <4> HIDE DEF fl, q
      <4> QED
        BY <1>2, <2>2
    <3>2. Nth(j) = q[j - fl]
      BY <2>2 DEF Nth
    <3>3. q[j - fl] \in Task
      BY <1>1, <3>1, ElementOfSeq
    <3> QED
      BY <3>1, <3>2, <3>3
  <2> QED
    BY <2>1, <2>2
<1>4. Held = fl + Len(q)
  BY DEF Held
<1>5. Held \in Nat
  <2> HIDE DEF fl, q
  <2> QED
    BY <1>2, <1>4
<1> QED
  BY <1>2, <1>3, <1>4, <1>5

\* A step that leaves the executor alone leaves the line as it is.
LEMMA InLineKept ==
  ASSUME NEW r \in Replayer, InLine(r),
         UNCHANGED <<queue, running, scheduler, sent[r]>>,
         UNCHANGED <<loc[r].next, loc[r].task, loc[r].gone, loc[r].elapsed>>,
         pc'[r] = "submit" => ~loc[r].gone,
         pc'[r] = "submit" /\ loc'[r].delay > 0 =>
           loc'[r].delay + loc'[r].elapsed <= Tasks[loc'[r].task][loc'[r].next].delay + loc'[r].lag
  PROVE  InLine(r)'
<1>1. Held' = Held /\ \A j \in 1..Held : Nth(j)' = Nth(j)
  BY DEF Held, Nth, InFlight
<1>2. Events' = Events
  BY <1>1 DEF Events
<1>3. \A j \in 1..Held : (Mine(r, Nth(j)) /\ OnTime(r, Nth(j)))'
  BY <1>1 DEF InLine, Mine, OnTime
<1>4. Handed(Events, Held, sent[r], loc[r].next, Tasks[loc[r].task])'
  BY <1>1, <1>2 DEF InLine
<1> QED
  BY <1>1, <1>3, <1>4 DEF InLine

\* Nor does one that changes neither the places of the tasks nor what they stand for.
LEMMA InLineMoved ==
  ASSUME NEW r \in Replayer, InLine(r), Held' = Held,
         \A j \in 1..Held : Nth(j)'.event = Nth(j).event /\ (Mine(r, Nth(j)) /\ OnTime(r, Nth(j)))',
         UNCHANGED <<sent[r], loc[r].next, loc[r].task, loc[r].gone>>,
         pc'[r] = "submit" => pc[r] = "submit",
         pc'[r] = "submit" /\ loc'[r].delay > 0 =>
           loc'[r].delay + loc'[r].elapsed <= Tasks[loc'[r].task][loc'[r].next].delay + loc'[r].lag
  PROVE  InLine(r)'
<1>1. \A j \in 1..Held : Events'[j] = Events[j]
  BY DEF Events
<1>2. Handed(Events, Held, sent[r], loc[r].next, Tasks[loc[r].task])
  BY DEF InLine
<1>3. Handed(Events', Held, sent[r], loc[r].next, Tasks[loc[r].task])
  BY <1>1, <1>2, HandedSame
<1>4. Handed(Events, Held, sent[r], loc[r].next, Tasks[loc[r].task])'
  BY <1>3
<1> QED
  BY <1>4 DEF InLine

\* The line starts empty.
LEMMA BeginInLine ==
  ASSUME TypeOK, NEW r \in Replayer, BeginPlay(r), pc'[r] = "check",
         queue'[scheduler'] = << >>, running'[scheduler'] = NoTask
  PROVE  InLine(r)'
<1>1. loc'[r].next = 1 /\ sent'[r] = {}
  BY DEF BeginPlay, TypeOK, Local
<1>2. Held' = 0
  BY DEF Held, InFlight
<1>3. Handed(Events', 0, {}, 1, Tasks[loc'[r].task])
  BY HandedStart
<1>4. Handed(Events, Held, sent[r], loc[r].next, Tasks[loc[r].task])'
  BY <1>1, <1>2, <1>3
<1> QED
  BY <1>1, <1>2, <1>4 DEF InLine

\* Line 218: what is submitted overtakes only what is due later.
LEMMA SubmitInLine ==
  ASSUME TypeOK, TimeInv, NEW r \in Replayer, InLine(r), Submit(r)
  PROVE  InLine(r)'
<1> DEFINE q == queue[scheduler]
           fl == InFlight(scheduler)
           f == Tasks[loc[r].task]
           k == loc[r].next
           t == [owner |-> r, task |-> loc[r].task, event |-> loc[r].next,
                 wait |-> loc[r].delay, added |-> FALSE, cancelled |-> FALSE,
                 orphan |-> FALSE]
<1>0. /\ scheduler \in Executor /\ queue \in [Executor -> Seq(Task)] /\ loc \in [Replayer -> Local]
      /\ loc[r] \in Local /\ pc[r] = "submit" /\ loc[r].next <= Len(Tasks[loc[r].task])
      /\ pc \in [Thread -> ReplayStep \cup StopStep]
      /\ k \in Nat \ {0}
  BY DEF TypeOK, Submit, Goto, Local
<1>1. q \in Seq(Task) /\ Len(q) \in Nat /\ fl \in {0, 1} /\ Held = fl + Len(q) /\ Held \in Nat
  BY <1>0, HeldType DEF Held
<1>2. t \in Task
  BY <1>0 DEF Local, Task, TaskRecord
<1>3. PICK n \in 0..Len(q) :
        /\ \A j \in (n + 1)..Len(q) : q[j].wait > t.wait
        /\ queue' = [queue EXCEPT ![scheduler] = InsertAt(q, n + 1, t)]
  BY DEF Submit, Enqueue
<1>5. /\ queue'[scheduler] = InsertAt(q, n + 1, t)
      /\ UNCHANGED <<scheduler, running, sent>>
      /\ pc'[r] = "add"
  BY <1>0, <1>3 DEF Submit, Goto, Thread, ghosts
<1>6. /\ loc'[r].next = k + 1 /\ loc'[r].task = loc[r].task
      /\ loc'[r].elapsed = loc[r].elapsed /\ loc'[r].gone = loc[r].gone
  BY <1>0 DEF Submit, Local
<1>7. OnTime(r, t)
  <2> DEFINE w == loc[r].delay
             e == loc[r].elapsed
             g == loc[r].lag
             d == Tasks[loc[r].task][loc[r].next].delay
  <2>1. w > 0 => w + e <= d + g
    BY <1>0 DEF InLine
  <2>2. d \in 0..MaxDelay
    BY <1>0, EventDelay DEF Local
  <2>3. w \in 0..MaxDelay /\ e \in 0..MaxDelay /\ g \in 0..Jitter
    BY <1>0 DEF Local
  <2>5. MaxDelay \in Nat /\ Jitter \in Nat
    BY ConstantsAssumption
  <2> HIDE DEF w, e, g, d
  <2>4. w > 0 => w + e <= d + Jitter
    BY <2>1, <2>2, <2>3, <2>5
  <2> QED
    BY <2>4 DEF OnTime, w, e, d
<1>8. /\ t.owner = r /\ ~t.orphan /\ ~t.cancelled /\ t.task = loc[r].task /\ t.event = k
      /\ t.wait = loc[r].delay
  OBVIOUS
\* A task that is overtaken was recorded less than Jitter before.
<1>9. ASSUME NEW j \in 1..Held, j > fl + n PROVE MayPass(f, k, Nth(j).event)
  <2> DEFINE u == Nth(j)
  <2>1. u \in Task /\ j - fl \in (n + 1)..Len(q) /\ u = q[j - fl]
    <3>1. j - fl \in (n + 1)..Len(q) /\ ~(j <= fl)
      <4> HIDE DEF fl, q
      <4> QED
        BY <1>1, <1>9
    <3> QED
      BY <3>1, HeldType DEF Nth
  <2>2. u.wait > loc[r].delay
    BY <1>3, <1>8, <2>1
  <2>3. Mine(r, u) /\ OnTime(r, u)
    BY DEF InLine
  <2> DEFINE w == u.wait
             d == loc[r].delay
             el == loc[r].elapsed
             dk == f[k].delay
             du == f[u.event].delay
  <2>4. d + el >= dk
    BY <1>0 DEF TimeInv
  <2>5. w > 0 => w + el <= du + Jitter
    BY <2>3 DEF OnTime, Mine
  <2>6. w \in 0..MaxDelay /\ d \in 0..MaxDelay /\ el \in 0..MaxDelay
    BY <1>0, <2>1 DEF Task, TaskRecord, Local
  <2>7. dk \in 0..MaxDelay
    BY <1>0, EventDelay DEF Local
  <2>8. du \in 0..MaxDelay
    <3>1. /\ u.task \in 1..Len(Tasks) /\ u.event \in Nat \ {0}
          /\ u.event <= Len(Tasks[u.task]) /\ u.task = loc[r].task
      BY <2>1, <2>3 DEF Task, TaskRecord, Mine
    <3> HIDE DEF u
    <3> QED
      BY <3>1, EventDelay
  <2>9. dk < du + Jitter
    <3>1. MaxDelay \in Nat /\ Jitter \in Nat /\ w > d
      BY <2>2, ConstantsAssumption
    <3> HIDE DEF w, d, el, dk, du
    <3> QED
      BY <2>4, <2>5, <2>6, <2>7, <2>8, <3>1
  <2> QED
    BY <2>9 DEF MayPass
<1> HIDE DEF t
<1>10. /\ Len(queue'[scheduler]) = Len(q) + 1
       /\ \A j \in 1..(Len(q) + 1) :
            queue'[scheduler][j] = IF j <= n THEN q[j] ELSE IF j = n + 1 THEN t ELSE q[j - 1]
  <2> HIDE DEF q
  <2> QED
    BY <1>1, <1>2, <1>5, InsertAtPlaces
<1>11. InFlight(scheduler)' = fl /\ scheduler' = scheduler
  BY <1>5 DEF InFlight
<1>12. Held' = Held + 1
  <2>1. Held' = fl + (Len(q) + 1)
    BY <1>10, <1>11 DEF Held
  <2> HIDE DEF fl, q
  <2> QED
    BY <1>1, <2>1
<1>13. ASSUME NEW j \in 1..(Held + 1)
       PROVE  Nth(j)' = IF j <= fl + n THEN Nth(j) ELSE IF j = fl + n + 1 THEN t ELSE Nth(j - 1)
  <2>1. Nth(j)' = IF j <= fl THEN running[scheduler] ELSE queue'[scheduler][j - fl]
    BY <1>5, <1>11 DEF Nth
  <2>2. CASE j <= fl
    <3>1. j <= fl + n
      <4> HIDE DEF fl, q
      <4> QED
        BY <1>1, <2>2
    <3> QED
      BY <2>1, <2>2, <3>1 DEF Nth
  <2>3. CASE ~(j <= fl) /\ j <= fl + n
    <3>1. j - fl \in 1..(Len(q) + 1) /\ j - fl <= n
      <4> HIDE DEF fl, q
      <4> QED
        BY <1>1, <2>3
    <3>2. queue'[scheduler][j - fl] = q[j - fl]
      BY <1>10, <3>1
    <3> QED
      BY <2>1, <2>3, <3>2 DEF Nth
  <2>4. CASE j = fl + n + 1
    <3>1. j - fl \in 1..(Len(q) + 1) /\ ~(j - fl <= n) /\ j - fl = n + 1 /\ ~(j <= fl) /\ ~(j <= fl + n)
      <4> HIDE DEF fl, q
      <4> QED
        BY <1>1, <2>4
    <3>2. queue'[scheduler][j - fl] = t
      BY <1>10, <3>1
    <3> QED
      BY <2>1, <2>4, <3>1, <3>2
  <2>5. CASE j > fl + n + 1
    <3>1. /\ j - fl \in 1..(Len(q) + 1) /\ ~(j - fl <= n) /\ j - fl # n + 1 /\ ~(j <= fl)
          /\ ~(j <= fl + n) /\ j # fl + n + 1 /\ ~(j - 1 <= fl) /\ (j - fl) - 1 = (j - 1) - fl
      <4> HIDE DEF fl, q
      <4> QED
        BY <1>1, <2>5
    <3>2. queue'[scheduler][j - fl] = q[(j - 1) - fl]
      BY <1>10, <3>1
    <3> QED
      BY <2>1, <3>1, <3>2 DEF Nth
  <2> QED
    <3> HIDE DEF fl, q
    <3> QED
      BY <1>1, <2>2, <2>3, <2>4, <2>5
<1> DEFINE p == fl + n
<1>14. p \in 0..Held
  <2> HIDE DEF fl, q
  <2> QED
    BY <1>1
<1>15. ASSUME NEW j \in 1..(Held + 1)
       PROVE  Nth(j)' = t \/ \E i \in 1..Held : Nth(j)' = Nth(i)
  <2>1. j <= p => j \in 1..Held
    BY <1>1, <1>14
  <2>2. ~(j <= p) /\ j # p + 1 => j - 1 \in 1..Held
    BY <1>1, <1>14
  <2> QED
    BY <1>13, <2>1, <2>2
<1>16. \A j \in 1..Held' : (Mine(r, Nth(j)) /\ OnTime(r, Nth(j)))'
  <2> SUFFICES ASSUME NEW j \in 1..(Held + 1)
               PROVE  (Mine(r, Nth(j)) /\ OnTime(r, Nth(j)))'
    BY <1>12
  <2>1. Mine(r, t)
    BY <1>8 DEF Mine
  <2>2. \A i \in 1..Held : Mine(r, Nth(i)) /\ OnTime(r, Nth(i))
    BY DEF InLine
  <2> QED
    BY <1>6, <1>7, <1>15, <2>1, <2>2 DEF Mine, OnTime
<1>17. Handed(Events', Held + 1, sent[r], k + 1, f)
  <2>1. Handed(Events, Held, sent[r], k, f)
    BY DEF InLine
  <2>2. ASSUME NEW j \in 1..(Held + 1)
        PROVE  Events'[j] = IF j <= p THEN Events[j] ELSE IF j = p + 1 THEN k ELSE Events[j - 1]
    <3>1. Events'[j] = Nth(j)'.event
      BY <1>12 DEF Events
    <3>2. j <= p => j \in 1..Held
      BY <1>1, <1>14
    <3>3. ~(j <= p) /\ j # p + 1 => j - 1 \in 1..Held
      BY <1>1, <1>14
    <3> QED
      BY <1>8, <1>13, <3>1, <3>2, <3>3 DEF Events
  <2>3. \A j \in 1..Held : j > p => MayPass(f, k, Events[j])
    BY <1>9 DEF Events
  <2> HIDE DEF p, f, k
  <2> QED
    BY <1>0, <1>1, <1>14, <2>1, <2>2, <2>3, HandedSubmit
<1>18. Handed(Events, Held, sent[r], loc[r].next, Tasks[loc[r].task])'
  BY <1>5, <1>6, <1>12, <1>17
<1>19. ~loc'[r].gone
  BY <1>0, <1>6 DEF InLine
<1> QED
  BY <1>5, <1>16, <1>18, <1>19 DEF InLine

\* The worker takes what is first in line ...
LEMMA TakeInLine ==
  ASSUME TypeOK, NEW r \in Replayer, InLine(r), ~stopFlag, Take(scheduler)
  PROVE  InLine(r)'
<1> DEFINE q == queue[scheduler]
<1>1. /\ q \in Seq(Task) /\ q # << >> /\ running[scheduler] = NoTask
      /\ scheduler \in Executor /\ queue'[scheduler] = Tail(q)
      /\ UNCHANGED <<scheduler, pc, loc, sent>>
  BY DEF Take, TypeOK, ghosts
<1>2. Len(q) \in Nat \ {0} /\ 1 \in 1..Len(q) /\ Head(q) = q[1]
  BY <1>1, EmptySeq
<1>3. /\ Len(queue'[scheduler]) = Len(q) - 1
      /\ \A j \in 1..(Len(q) - 1) : queue'[scheduler][j] = q[j + 1]
  BY <1>1, HeadTailProperties
<1>4. /\ InFlight(scheduler) = 0 /\ Held = Len(q)
      /\ \A j \in 1..Len(q) : Nth(j) = q[j]
  <2>1. InFlight(scheduler) = 0
    BY <1>1 DEF InFlight
  <2>2. Held = Len(q)
    BY <1>2, <2>1 DEF Held
  <2>3. \A j \in 1..Len(q) : Nth(j) = q[j]
    BY <1>2, <2>1 DEF Nth
  <2> QED
    BY <2>1, <2>2, <2>3
<1>5. running'[scheduler] = q[1] /\ q[1] \in Task
  <2>1. Mine(r, q[1])
    BY <1>2, <1>4 DEF InLine
  <2> QED
    BY <1>1, <1>2, <2>1, ElementOfSeq DEF Take, TypeOK, Mine
<1>6. InFlight(scheduler)' = 1
  BY <1>1, <1>5, NoTaskAssumption DEF InFlight
<1>7. Held' = Held
  <2>1. Held' = 1 + (Len(q) - 1)
    BY <1>1, <1>3, <1>6 DEF Held
  <2> HIDE DEF q
  <2> QED
    BY <1>2, <1>4, <2>1
<1>8. ASSUME NEW j \in 1..Held PROVE Nth(j)' = Nth(j)
  <2>1. Nth(j)' = IF j <= 1 THEN q[1] ELSE queue'[scheduler][j - 1]
    BY <1>1, <1>5, <1>6 DEF Nth
  <2>2. Nth(j) = q[j]
    BY <1>4
  <2>3. j # 1 => j - 1 \in 1..(Len(q) - 1) /\ (j - 1) + 1 = j /\ ~(j <= 1)
    <3> HIDE DEF q
    <3> QED
      BY <1>2, <1>4
  <2> QED
    BY <1>3, <2>1, <2>2, <2>3
<1>9. \A j \in 1..Held : (Mine(r, Nth(j)) /\ OnTime(r, Nth(j)))'
  BY <1>1, <1>8 DEF InLine, Mine, OnTime
<1>10. (pc[r] = "submit" /\ loc[r].delay > 0 =>
         loc[r].delay + loc[r].elapsed <= Tasks[loc[r].task][loc[r].next].delay + loc[r].lag)'
  BY <1>1 DEF InLine
<1> QED
  BY <1>1, <1>7, <1>8, <1>9, <1>10, InLineMoved

\* ... and sends it.
LEMMA SendInLine ==
  ASSUME TypeOK, NEW r \in Replayer, InLine(r), Send(scheduler)
  PROVE  InLine(r)'
<1> DEFINE q == queue[scheduler]
<1>1. /\ running[scheduler] # NoTask /\ running'[scheduler] = NoTask
      /\ scheduler \in Executor /\ sent \in [Replayer -> SUBSET (Nat \ {0})]
      /\ Len(q) \in Nat /\ loc[r].next \in Nat \ {0}
      /\ UNCHANGED <<scheduler, queue, pc, loc>>
  BY HeldType DEF Send, TypeOK, Local
<1>2. InFlight(scheduler) = 1 /\ InFlight(scheduler)' = 0
  BY <1>1 DEF InFlight
<1>3. Held = 1 + Len(q) /\ Held' = 0 + Len(q)
  BY <1>1, <1>2 DEF Held
<1> HIDE DEF q
<1>4. Held \in Nat \ {0} /\ Held' = Held - 1 /\ 1 \in 1..Held
  BY <1>1, <1>3
<1>5. Nth(1) = running[scheduler]
  BY <1>2 DEF Nth
<1>6. Mine(r, running[scheduler]) /\ Events[1] = running[scheduler].event
  BY <1>4, <1>5 DEF InLine, Events
<1>7. sent'[r] = sent[r] \cup {Events[1]}
  BY <1>1, <1>6 DEF Send, Mine
<1>8. ASSUME NEW j \in 1..(Held - 1) PROVE Nth(j)' = Nth(j + 1) /\ j + 1 \in 1..Held
  <2>1. j + 1 \in 1..Held /\ ~(j + 1 <= 1) /\ ~(j <= 0) /\ (j + 1) - 1 = j /\ j - 0 = j
    BY <1>4
  <2>2. Nth(j)' = queue[scheduler][j]
    BY <1>1, <1>2, <2>1 DEF Nth
  <2>3. Nth(j + 1) = queue[scheduler][j]
    BY <1>2, <2>1 DEF Nth
  <2> QED
    BY <2>1, <2>2, <2>3
<1>9. Handed(Events', Held - 1, sent[r] \cup {Events[1]}, loc[r].next, Tasks[loc[r].task])
  <2>1. \A j \in 1..(Held - 1) : Events'[j] = Events[j + 1]
    BY <1>4, <1>8 DEF Events
  <2>2. Handed(Events, Held, sent[r], loc[r].next, Tasks[loc[r].task])
    BY DEF InLine
  <2> QED
    BY <1>1, <1>4, <2>1, <2>2, HandedSend
<1>10. Handed(Events, Held, sent[r], loc[r].next, Tasks[loc[r].task])'
  BY <1>1, <1>4, <1>7, <1>9
<1>11. \A j \in 1..Held' : (Mine(r, Nth(j)) /\ OnTime(r, Nth(j)))'
  BY <1>1, <1>4, <1>8 DEF InLine, Mine, OnTime
<1> QED
  BY <1>1, <1>10, <1>11 DEF InLine

\* What a step that changes the queued tasks one by one does to the line.
LEMMA LineMapped ==
  ASSUME TypeOK, UNCHANGED <<scheduler, running>>,
         Len(queue'[scheduler]) = Len(queue[scheduler])
  PROVE  /\ Held' = Held
         /\ \A j \in 1..Held :
              \/ /\ running[scheduler] # NoTask
                 /\ Nth(j) = running[scheduler] /\ Nth(j)' = running[scheduler]
              \/ \E i \in 1..Len(queue[scheduler]) :
                   Nth(j) = queue[scheduler][i] /\ Nth(j)' = queue'[scheduler][i]
<1>1. InFlight(scheduler)' = InFlight(scheduler)
  BY DEF InFlight
<1>2. Held' = Held
  BY <1>1 DEF Held
<1> DEFINE fl == InFlight(scheduler)
           l == Len(queue[scheduler])
<1>3. fl \in {0, 1} /\ l \in Nat /\ Held = fl + l
  BY HeldType DEF Held
<1>4. ASSUME NEW j \in 1..Held
      PROVE  \/ /\ running[scheduler] # NoTask
                /\ Nth(j) = running[scheduler] /\ Nth(j)' = running[scheduler]
             \/ \E i \in 1..l : Nth(j) = queue[scheduler][i] /\ Nth(j)' = queue'[scheduler][i]
  <2>1. CASE j <= fl
    <3>1. fl = 1
      <4> HIDE DEF fl, l
      <4> QED
        BY <1>3, <2>1
    <3> QED
      BY <1>1, <2>1, <3>1 DEF Nth, InFlight
  <2>2. CASE ~(j <= fl)
    <3>1. j - fl \in 1..l
      <4> HIDE DEF fl, l
      <4> QED
        BY <1>3, <2>2
    <3>2. Nth(j) = queue[scheduler][j - fl] /\ Nth(j)' = queue'[scheduler][j - fl]
      BY <1>1, <2>2 DEF Nth
    <3> QED
      BY <3>1, <3>2
  <2> QED
    BY <2>1, <2>2
<1> QED
  BY <1>2, <1>4

\* Line 224 marks tasks of the line and does not move them.
LEMMA AddInLine ==
  ASSUME TypeOK, NEW r \in Replayer, InLine(r), Add(r)
  PROVE  InLine(r)'
<1> DEFINE F(t) == IF t.owner = r /\ ~t.orphan THEN [t EXCEPT !.added = TRUE] ELSE t
<1>1. /\ UNCHANGED <<scheduler, running, loc, sent>> /\ pc'[r] = "check"
      /\ scheduler \in Executor
  BY DEF Add, Goto, TypeOK, Thread, ghosts
<1>2. \A e \in Executor : queue'[e] = [j \in 1..Len(queue[e]) |-> F(queue[e][j])]
  BY DEF Add, InEveryQueue, Each
<1>3. Len(queue'[scheduler]) = Len(queue[scheduler])
  BY <1>1, SameLength
<1>4. \A t \in Task : /\ F(t).owner = t.owner /\ F(t).task = t.task /\ F(t).event = t.event
                      /\ F(t).wait = t.wait /\ F(t).orphan = t.orphan
                      /\ F(t).cancelled = t.cancelled
  BY DEF Task, TaskRecord
<1> HIDE DEF F
<1>5. ASSUME NEW j \in 1..Held
      PROVE  Nth(j)'.event = Nth(j).event /\ (Mine(r, Nth(j)) /\ OnTime(r, Nth(j)))'
  <2> DEFINE was == Nth(j)
             is == Nth(j)'
  <2>1. /\ is.owner = was.owner /\ is.task = was.task /\ is.event = was.event
        /\ is.wait = was.wait /\ is.orphan = was.orphan /\ is.cancelled = was.cancelled
    <3>1. CASE was = running[scheduler] /\ is = running[scheduler]
      BY <3>1
    <3>2. ASSUME NEW i \in 1..Len(queue[scheduler]),
                 was = queue[scheduler][i], is = queue'[scheduler][i]
          PROVE  /\ is.owner = was.owner /\ is.task = was.task /\ is.event = was.event
                 /\ is.wait = was.wait /\ is.orphan = was.orphan
                 /\ is.cancelled = was.cancelled
      <4>1. queue[scheduler][i] \in Task
        BY <1>1, QueuedIsTask
      <4>2. queue'[scheduler][i] = F(queue[scheduler][i])
        BY <1>1, <1>2
      <4>3. is = F(was) /\ was \in Task
        BY <3>2, <4>1, <4>2
      <4> HIDE DEF is, was
      <4> QED
        BY <1>4, <4>3
    <3> QED
      BY <1>1, <1>3, <3>1, <3>2, LineMapped
  <2>2. Mine(r, was) /\ OnTime(r, was)
    BY DEF InLine
  <2>3. Mine(r, Nth(j))'  <=> is.owner = r /\ ~is.orphan /\ ~is.cancelled /\ is.task = loc'[r].task
    BY DEF Mine
  <2>4. OnTime(r, Nth(j))' <=>
          (is.wait > 0 => is.wait + loc'[r].elapsed <= Tasks[is.task][is.event].delay + Jitter)
    BY DEF OnTime
  <2> HIDE DEF was, is
  <2>5. is.event = was.event /\ Mine(r, Nth(j))' /\ OnTime(r, Nth(j))'
    BY <1>1, <2>1, <2>2, <2>3, <2>4 DEF Mine, OnTime
  <2> QED
    BY <2>5 DEF was, is
<1> QED
  BY <1>1, <1>3, <1>5, LineMapped, InLineMoved

\* A tick: who still has to wait has waited one tick more.
LEMMA TickInLine ==
  ASSUME TypeOK, TimeInv, NEW r \in Replayer, pc[r] \in Playing, InLine(r), Tick
  PROVE  InLine(r)'
<1> DEFINE F(t) == [t EXCEPT !.wait = IF @ > 0 THEN @ - 1 ELSE 0]
<1>1. /\ UNCHANGED <<scheduler, running, pc, sent>>
      /\ scheduler \in Executor
  BY DEF Tick, TypeOK, ghosts
<1>2. \A e \in Executor : queue'[e] = [j \in 1..Len(queue[e]) |-> F(queue[e][j])]
  BY DEF Tick, InEveryQueue, Each
<1>3. Len(queue'[scheduler]) = Len(queue[scheduler])
  BY <1>1, SameLength
<1>4. \A t \in Task : /\ F(t).owner = t.owner /\ F(t).task = t.task /\ F(t).event = t.event
                      /\ F(t).orphan = t.orphan /\ F(t).cancelled = t.cancelled
                      /\ F(t).wait = (IF t.wait > 0 THEN t.wait - 1 ELSE 0)
  BY DEF Task, TaskRecord
<1>6. /\ loc[r] \in Local /\ MaxDelay \in Nat /\ Jitter \in Nat
      /\ loc'[r].next = loc[r].next /\ loc'[r].task = loc[r].task
      /\ loc'[r].delay = loc[r].delay /\ loc'[r].gone = loc[r].gone
      /\ pc[r] = "submit" => loc'[r].lag = loc[r].lag + 1
      /\ loc'[r].elapsed = (IF loc[r].elapsed < MaxDelay THEN loc[r].elapsed + 1
                                                         ELSE loc[r].elapsed)
  <2> DEFINE lag == IF pc[r] = "submit" THEN loc[r].lag + 1 ELSE loc[r].lag
             el == IF loc[r].elapsed < MaxDelay THEN loc[r].elapsed + 1 ELSE loc[r].elapsed
  <2>1. loc'[r] = [loc[r] EXCEPT !.lag = lag, !.elapsed = el]
    BY DEF Tick
  <2>2. loc[r] \in Local
    BY DEF TypeOK
  <2>3. pc[r] = "submit" => lag = loc[r].lag + 1
    OBVIOUS
  <2> HIDE DEF lag
  <2> QED
    BY <2>1, <2>2, <2>3, ConstantsAssumption DEF Local
<1> HIDE DEF F
<1>7. ASSUME NEW j \in 1..Held
      PROVE  Nth(j)'.event = Nth(j).event /\ (Mine(r, Nth(j)) /\ OnTime(r, Nth(j)))'
  <2> DEFINE was == Nth(j)
             is == Nth(j)'
             d == Tasks[was.task][was.event].delay
             w == was.wait
             e == loc[r].elapsed
             e2 == loc'[r].elapsed
  <2>1. was \in Task
    BY HeldType
  <2>4. /\ is.owner = was.owner /\ is.task = was.task /\ is.event = was.event
        /\ is.orphan = was.orphan /\ is.cancelled = was.cancelled
        /\ is.wait = IF w > 0 THEN w - 1 ELSE 0
    <3>1. CASE running[scheduler] # NoTask /\ was = running[scheduler] /\ is = running[scheduler]
      <4>1. w = 0
        BY <1>1, <3>1 DEF TimeInv
      <4> QED
        BY <3>1, <4>1
    <3>2. ASSUME NEW i \in 1..Len(queue[scheduler]),
                 was = queue[scheduler][i], is = queue'[scheduler][i]
          PROVE  /\ is.owner = was.owner /\ is.task = was.task /\ is.event = was.event
                 /\ is.orphan = was.orphan /\ is.cancelled = was.cancelled
                 /\ is.wait = IF w > 0 THEN w - 1 ELSE 0
      <4>1. is = F(was)
        BY <1>1, <1>2, <3>2
      <4> HIDE DEF is, was
      <4> QED
        BY <1>4, <2>1, <4>1
    <3> QED
      BY <1>1, <1>3, <3>1, <3>2, LineMapped
  <2>5. Mine(r, was) /\ OnTime(r, was)
    BY DEF InLine
  <2>7. d \in 0..MaxDelay /\ w \in 0..MaxDelay /\ e \in 0..MaxDelay
    BY <1>6, <2>1, EventDelay DEF Task, TaskRecord, Local
  <2>8. (w > 0 => w + e <= d + Jitter) /\ e2 = IF e < MaxDelay THEN e + 1 ELSE e
    BY <1>6, <2>5 DEF OnTime
  <2>9. is.wait > 0 => is.wait + e2 <= d + Jitter
    <3> HIDE DEF was, is, d, w, e, e2
    <3> QED
      BY <1>6, <2>4, <2>7, <2>8
  <2>3. Mine(r, Nth(j))'  <=> is.owner = r /\ ~is.orphan /\ ~is.cancelled /\ is.task = loc'[r].task
    BY DEF Mine
  <2>6. OnTime(r, Nth(j))' <=>
          (is.wait > 0 => is.wait + loc'[r].elapsed <= Tasks[is.task][is.event].delay + Jitter)
    BY DEF OnTime
  <2> HIDE DEF was, is
  <2>10. Tasks[is.task][is.event].delay = d
    BY <2>4
  <2>11. OnTime(r, Nth(j))'
    BY <2>6, <2>9, <2>10
  <2>12. is.event = was.event /\ Mine(r, Nth(j))'
    BY <1>6, <2>3, <2>4, <2>5 DEF Mine
  <2> QED
    BY <2>11, <2>12 DEF was, is
<1>8. (pc[r] = "submit" /\ loc[r].delay > 0 =>
         loc[r].delay + loc[r].elapsed <= Tasks[loc[r].task][loc[r].next].delay + loc[r].lag)'
  <2> SUFFICES ASSUME pc[r] = "submit", loc[r].delay > 0
               PROVE  loc'[r].delay + loc'[r].elapsed
                        <= Tasks[loc'[r].task][loc'[r].next].delay + loc'[r].lag
    BY <1>1, <1>6
  <2> DEFINE d == Tasks[loc[r].task][loc[r].next].delay
             w == loc[r].delay
             e == loc[r].elapsed
             e2 == loc'[r].elapsed
             g == loc[r].lag
  <2>1. w + e <= d + g
    BY DEF InLine
  <2>2. w \in 0..MaxDelay /\ e \in 0..MaxDelay /\ g \in 0..Jitter
    BY <1>6 DEF Local
  <2>3. d \in 0..MaxDelay
    BY <1>6, EventDelay DEF TypeOK, Local
  <2>4. e2 = IF e < MaxDelay THEN e + 1 ELSE e
    BY <1>6
  <2>5. /\ loc'[r].delay = w /\ loc'[r].lag = g + 1
        /\ Tasks[loc'[r].task][loc'[r].next].delay = d
    BY <1>6
  <2> HIDE DEF d, w, e, e2, g
  <2>6. w + e2 <= d + (g + 1)
    BY <1>6, <2>1, <2>2, <2>3, <2>4
  <2> QED
    BY <2>5, <2>6 DEF e2
<1> QED
  BY <1>1, <1>3, <1>6, <1>7, <1>8, LineMapped, InLineMoved

\* Every step keeps the line of a play that nobody has stopped.
LEMMA ConveyorStep == TurnsInv /\ NoStray /\ ConveyorInv /\ [Next]_vars => ConveyorInv'
<1> SUFFICES ASSUME TypeOK, TimeInv, OneBusy, TurnInv, Undisturbed, NoStray, ConveyorInv,
                    [Next]_vars, Serial,
                    NEW r \in Replayer, pc'[r] \in Playing, ~halted'[r]
             PROVE  InLine(r)'
  BY DEF ConveyorInv, TurnsInv
<1>0. /\ pc \in [Thread -> ReplayStep \cup StopStep]
      /\ halted \in [Replayer -> BOOLEAN]
      /\ loc \in [Replayer -> Local]
  BY DEF TypeOK
<1>i. ASSUME pc[r] \in Playing, halted' = halted
      PROVE  InLine(r) /\ ~stopFlag /\ \A s \in Stopper : pc[s] = "idle"
  BY <1>i DEF ConveyorInv, Undisturbed, Idle, Playing
<1>k. ASSUME pc[r] \in Playing, halted' = halted, UNCHANGED <<queue, running, scheduler, sent>>,
             UNCHANGED <<loc[r].next, loc[r].task, loc[r].gone, loc[r].elapsed>>,
             pc'[r] # "submit"
      PROVE  InLine(r)'
  BY <1>i, <1>k, InLineKept
<1>r. ASSUME NEW x \in Replayer, alive, ReplayerNext(x) PROVE InLine(r)'
  <2> USE DEF shared, ghosts, Goto
  <2>1. CASE Start(x)
    <3>1. pc'[r] \in {"idle", "load"}
      BY <1>0, <2>1 DEF Start, Thread, Idle
    <3> QED
      BY <3>1 DEF Playing
  <2>a. CASE ~Start(x)
    <3>0. pc[x] # "idle" /\ halted' = halted /\ \E to : pc' = [pc EXCEPT ![x] = to]
      BY <1>r, <2>a
      DEF ReplayerNext, Load, LoadThrows, SleepThrows, Throw, Played, Return, Wake, Enter,
          Create, CheckGoesOn, CheckAborts, CheckEnds, Submit, Rejected, Add, Shutdown, AwaitTermination, Awaited
    <3>a. x = r
      <4>1. x # r => pc'[r] = pc[r]
        BY <1>0, <3>0 DEF Thread
      <4> QED
        BY <3>0, <4>1 DEF OneBusy, Idle, Playing
    <3>q. Settled(r)
      BY <1>r DEF TurnInv
    <3>p. r \in Thread
      BY DEF Thread
    <3>2. CASE Played(r)
      BY <1>0, <3>p, <3>2 DEF Played, Return, Playing
    <3>3. CASE Wake(r)
      BY <1>0, <3>p, <3>3 DEF Wake, Return, Playing
    <3>4. CASE Enter(r)
      <4>1. scheduler \notin shut
        BY <1>0, <3>p, <3>4 DEF Enter, Playing
      <4>2. pc'[r] = "check" /\ pc[r] = "enter" /\ BeginPlay(r) /\ UNCHANGED <<queue, running, scheduler>>
        BY <1>0, <3>p, <3>4, <4>1 DEF Enter
      <4> QED
        BY <3>q, <4>1, <4>2, BeginInLine DEF Settled, Quiet
    <3>5. CASE Create(r)
      <4>1. /\ pc'[r] = "check" /\ BeginPlay(r) /\ UNCHANGED <<queue, running>>
            /\ Terminated(scheduler')
        BY <1>0, <3>p, <3>5 DEF Create, Fresh, Terminated
      <4> QED
        BY <4>1, BeginInLine DEF Terminated
    <3>6. CASE CheckGoesOn(r)
      <4>1. /\ pc[r] \in Playing /\ UNCHANGED <<queue, running, scheduler, sent>>
            /\ loc' = [loc EXCEPT ![r].delay = TimeLeft(r), ![r].lag = 0]
        BY <3>6 DEF CheckGoesOn, Playing
      <4>2. /\ UNCHANGED <<loc[r].next, loc[r].task, loc[r].gone, loc[r].elapsed>>
            /\ loc'[r].delay = TimeLeft(r) /\ loc'[r].lag = 0
        BY <1>0, <4>1 DEF Local
      <4> DEFINE d == Tasks[loc[r].task][loc[r].next].delay
                 e == loc[r].elapsed
      <4>w. /\ ~loc[r].gone /\ File(r) = Tasks[loc[r].task]
            /\ loc[r].next <= Len(Tasks[loc[r].task])
        BY <3>6, FileWhole DEF CheckGoesOn
      <4>3. d \in 0..MaxDelay /\ e \in 0..MaxDelay /\ MaxDelay \in Nat
        BY <1>0, <4>w, EventDelay, ConstantsAssumption DEF Local
      <4>4. TimeLeft(r) = IF d > e THEN d - e ELSE 0
        BY <4>w DEF TimeLeft
      <4>5. TimeLeft(r) > 0 => TimeLeft(r) + e <= d + 0
        <5> HIDE DEF d, e
        <5> QED
          BY <4>3, <4>4
      <4>6. loc'[r].delay > 0 =>
              loc'[r].delay + loc'[r].elapsed <= Tasks[loc'[r].task][loc'[r].next].delay + loc'[r].lag
        BY <4>2, <4>5
      <4> QED
        BY <1>i, <3>0, <4>1, <4>2, <4>6, <4>w, InLineKept
    <3>7. CASE CheckAborts(r)
      BY <1>0, <3>p, <3>7 DEF CheckAborts, Playing
    <3>8. CASE CheckEnds(r)
      BY <1>0, <1>k, <3>0, <3>p, <3>8 DEF CheckEnds, Playing
    <3>9. CASE Submit(r)
      <4>1. InLine(r)
        BY <1>i, <3>0, <3>9 DEF Submit, Playing
      <4> QED
        BY <3>9, <4>1, SubmitInLine
    <3>10. CASE Rejected(r)
      BY <1>0, <3>p, <3>10 DEF Rejected, Throw, Return, Playing
    <3>11. CASE Add(r)
      <4>1. InLine(r)
        BY <1>i, <3>0, <3>11 DEF Add, Playing
      <4> QED
        BY <3>11, <4>1, AddInLine
    <3>12. CASE Shutdown(r)
      BY <1>0, <1>k, <3>0, <3>p, <3>12 DEF Shutdown, Playing
    <3>13. CASE AwaitTermination(r)
      <4>1. /\ pc[r] = "awaiting" /\ pc'[r] = "await"
            /\ UNCHANGED <<queue, running, scheduler, sent>>
            /\ loc' = [loc EXCEPT ![r].awaited = scheduler]
        BY <1>0, <3>p, <3>13 DEF AwaitTermination
      <4>2. UNCHANGED <<loc[r].next, loc[r].task, loc[r].gone, loc[r].elapsed>>
        BY <1>0, <4>1 DEF Local
      <4> QED
        BY <1>k, <3>0, <4>1, <4>2 DEF Playing
    <3>14. CASE Awaited(r)
      BY <1>0, <3>p, <3>14 DEF Awaited, Playing
    <3>15. CASE Load(r)
      BY <1>0, <3>p, <3>15 DEF Load, Playing
    <3>16. CASE LoadThrows(r)
      BY <1>0, <3>p, <3>16 DEF LoadThrows, Throw, Return, Playing
    <3>17. CASE SleepThrows(r)
      BY <1>0, <3>p, <3>17 DEF SleepThrows, Throw, Return, Playing
    <3> QED
      BY <1>r, <2>a, <3>a, <3>2, <3>3, <3>4, <3>5, <3>6, <3>7, <3>8, <3>9, <3>10, <3>11,
        <3>12, <3>13, <3>14, <3>15, <3>16, <3>17 DEF ReplayerNext
  <2> QED
    BY <2>1, <2>a
<1>e. ASSUME NEW e \in Executor, alive, WorkerNext(e) PROVE InLine(r)'
  <2>0. UNCHANGED <<pc, loc, scheduler, halted>> /\ pc[r] \in Playing
    BY <1>e DEF WorkerNext, Take, Send, ghosts
  <2>i. InLine(r) /\ ~stopFlag
    BY <1>i, <2>0
  <2>1. CASE Take(e)
    <3>1. e = scheduler
      BY <1>e, <2>1 DEF Take, TurnInv
    <3> QED
      BY <2>i, <2>1, <3>1, TakeInLine
  <2>2. CASE Send(e) /\ e = scheduler
    BY <2>i, <2>2, SendInLine
  <2>3. CASE Send(e) /\ e # scheduler
    <3>1. running[e].orphan
      BY <2>3 DEF Send, NoStray
    <3>2. UNCHANGED <<queue, sent, running[scheduler], InFlight(scheduler)>>
      BY <2>0, <2>3, <3>1 DEF Send, TypeOK, InFlight
    <3>3. Held' = Held /\ \A j \in 1..Held : Nth(j)' = Nth(j)
      BY <2>0, <3>2 DEF Held, Nth
    <3>4. \A j \in 1..Held : (Mine(r, Nth(j)) /\ OnTime(r, Nth(j)))'
      BY <2>0, <2>i, <3>3 DEF InLine, Mine, OnTime
    <3>5. (pc[r] = "submit" /\ loc[r].delay > 0 =>
            loc[r].delay + loc[r].elapsed <= Tasks[loc[r].task][loc[r].next].delay + loc[r].lag)'
      BY <2>0, <2>i DEF InLine
    <3> QED
      BY <2>0, <2>i, <3>2, <3>3, <3>4, <3>5, InLineMoved
  <2> QED
    BY <1>e, <2>1, <2>2, <2>3 DEF WorkerNext
<1>s. ASSUME NEW s \in Stopper, StopperNext(s) PROVE FALSE
  BY <1>s, NoStopBeside DEF Playing
<1>t. CASE Tick
  <2>1. pc[r] \in Playing /\ halted' = halted
    BY <1>t DEF Tick, ghosts
  <2> QED
    BY <1>i, <1>t, <2>1, TickInLine
<1>l. CASE Relaunch
  BY <1>l DEF Relaunch, On, Thread, Playing
<1>v. CASE UNCHANGED vars
  <2>1. UNCHANGED <<pc, loc, queue, running, scheduler, sent, halted>>
    BY <1>v DEF vars, shared, ghosts
  <2>2. InLine(r)
    BY <1>i, <2>1
  <2>3. pc'[r] = "submit" => ~loc[r].gone
    BY <2>1, <2>2 DEF InLine
  <2>4. (pc[r] = "submit" /\ loc[r].delay > 0 =>
          loc[r].delay + loc[r].elapsed <= Tasks[loc[r].task][loc[r].next].delay + loc[r].lag)'
    BY <2>1, <2>2 DEF InLine
  <2> QED
    BY <2>1, <2>2, <2>3, <2>4, InLineKept
<1> QED
  BY <1>r, <1>e, <1>s, <1>t, <1>l, <1>v DEF Next, Step

\* The line, as a sequence: what the worker runs, then what waits.
LEMMA LineElements ==
  ASSUME TypeOK
  PROVE  /\ Len(Line) = InFlight(scheduler) + Len(queue[scheduler])
         /\ \A j \in 1..Len(Line) :
              Line[j] = IF j <= InFlight(scheduler) THEN running[scheduler]
                                                   ELSE queue[scheduler][j - InFlight(scheduler)]
<1> DEFINE a == IF running[scheduler] = NoTask THEN << >> ELSE <<running[scheduler]>>
           b == queue[scheduler]
<1>1. b \in Seq(Task) /\ running[scheduler] \in Task \cup {NoTask}
  BY DEF TypeOK
<1>2. a \in Seq(Task) /\ Len(a) = InFlight(scheduler)
      /\ \A j \in 1..Len(a) : a[j] = running[scheduler]
  <2> HIDE DEF Task
  <2> QED
    BY <1>1 DEF InFlight
<1>3. Line = a \o b
  BY DEF Line
<1> HIDE DEF a, b
<1>4. /\ Len(a \o b) = Len(a) + Len(b)
      /\ \A j \in 1..(Len(a) + Len(b)) : (a \o b)[j] = IF j <= Len(a) THEN a[j] ELSE b[j - Len(a)]
  BY <1>1, <1>2, ConcatProperties
<1>5. Len(a) \in Nat /\ Len(b) \in Nat
  BY <1>1, <1>2, LenProperties
<1>6. ASSUME NEW j \in 1..Len(Line)
      PROVE  Line[j] = IF j <= InFlight(scheduler) THEN running[scheduler]
                                                  ELSE b[j - InFlight(scheduler)]
  BY <1>2, <1>3, <1>4, <1>5
<1> QED
  BY <1>2, <1>3, <1>4, <1>6 DEF b

\* The line is what the executor holds.
LEMMA LineIsHeld ==
  ASSUME TypeOK
  PROVE  Len(Line) = Held /\ \A j \in 1..Held : Line[j] = Nth(j)
  BY LineElements DEF Held, Nth

\* Nobody having stopped it, a play that has the service to itself loses no event, sends
\* none twice and has nothing else on its executor; an event overtakes an earlier one of
\* its file only if the two are recorded within Jitter of each other.  This is so for
\* files of any length and events recorded at any times.
THEOREM InOrder == Spec => []Conveyor
<1> DEFINE Inv == TurnsInv /\ NoStray /\ ConveyorInv
<1>1. Init => OneBusy /\ TurnInv /\ Undisturbed /\ NoStray /\ ConveyorInv /\ TimeInv
  <2> SUFFICES ASSUME Init PROVE OneBusy /\ TurnInv /\ Undisturbed /\ NoStray /\ ConveyorInv /\ TimeInv
    OBVIOUS
  <2>1. /\ \A e \in Executor : queue[e] = << >> /\ running[e] = NoTask
        /\ \A x \in Replayer : pc[x] = "idle"
        /\ scheduler \in Executor
    BY DEF Init, On, Thread
  <2>2. OneBusy /\ TurnInv
    BY TurnInit
  <2>3. Undisturbed
    BY <2>1 DEF Undisturbed, Idle
  <2>4. NoStray /\ TimeInv
    BY <2>1 DEF NoStray, TimeInv
  <2>5. ConveyorInv
    BY <2>1 DEF ConveyorInv, Playing
  <2> QED
    BY <2>2, <2>3, <2>4, <2>5
<1>2. Inv /\ TypeOK' /\ [Next]_vars => Inv'
  BY TimeStep, OneBusyStep, TurnStep, UndisturbedStep, NoStrayStep, ConveyorStep DEF TurnsInv
<1>3. TypeOK /\ ConveyorInv => Conveyor
  <2> DEFINE Waiting == {Line[j].event : j \in 1..Len(Line)}
  <2> SUFFICES ASSUME TypeOK, ConveyorInv, Serial,
                      NEW r \in Replayer, pc[r] \in Playing, ~halted[r]
               PROVE  /\ \A j \in 1..Len(Line) :
                           Line[j].owner = r /\ ~Line[j].orphan /\ Line[j].task = loc[r].task
                      /\ sent[r] \cap Waiting = {}
                      /\ sent[r] \cup Waiting = 1..(loc[r].next - 1)
                      /\ \A i \in sent[r], k \in Waiting : k < i => MayPass(File(r), i, k)
                      /\ \A j, l \in 1..Len(Line) : j < l =>
                           /\ Line[j].event # Line[l].event
                           /\ Line[l].event < Line[j].event =>
                                MayPass(File(r), Line[j].event, Line[l].event)
    BY Zenon DEF Conveyor
  <2> HIDE DEF MayPass
  <2>1. InLine(r)
    BY DEF ConveyorInv
  <2>2. Waiting = {Events[j] : j \in 1..Held} /\ \A j \in 1..Held : Events[j] = Line[j].event
    BY LineIsHeld DEF Events
  <2>3. Handed(Events, Held, sent[r], loc[r].next, Tasks[loc[r].task])
    BY <2>1 DEF InLine
  <2>4. \A j \in 1..Len(Line) :
          Line[j].owner = r /\ ~Line[j].orphan /\ Line[j].task = loc[r].task
    BY <2>1, LineIsHeld DEF InLine, Mine
  <2> HIDE DEF Waiting
  <2>5. sent[r] \cap Waiting = {} /\ sent[r] \cup Waiting = 1..(loc[r].next - 1)
    BY <2>2, <2>3 DEF Handed
  <2>6. sent[r] # {} \/ Held # 0 => File(r) = Tasks[loc[r].task]
    <3>1. CASE loc[r].gone
      <4>1. 1..(loc[r].next - 1) = {}
        BY <2>1, <3>1 DEF InLine
      <4>2. sent[r] = {} /\ \A j \in 1..Held : FALSE
        BY <2>3, <4>1 DEF Handed
      <4>3. Held \in Nat
        BY HeldType
      <4> QED
        BY <4>2, <4>3
    <3>2. CASE ~loc[r].gone
      BY <3>2 DEF File
    <3> QED
      BY <3>1, <3>2
  <2>7. ASSUME NEW i \in sent[r], NEW k \in Waiting, k < i PROVE MayPass(File(r), i, k)
    <3>1. PICK j \in 1..Held : k = Events[j]
      BY <2>2
    <3> QED
      BY <2>3, <2>6, <2>7, <3>1 DEF Handed
  <2>8. ASSUME NEW j \in 1..Len(Line), NEW l \in 1..Len(Line), j < l
        PROVE  /\ Line[j].event # Line[l].event
               /\ Line[l].event < Line[j].event =>
                    MayPass(File(r), Line[j].event, Line[l].event)
    <3>1. j \in 1..Held /\ l \in 1..Held
      BY LineIsHeld
    <3>2. Held # 0
      BY <3>1, HeldType
    <3> QED
      BY <2>2, <2>3, <2>6, <2>8, <3>1, <3>2 DEF Handed
  <2> QED
    BY <2>4, <2>5, <2>7, <2>8
<1>4. Init => Inv
  BY <1>1, InitType DEF TurnsInv
<1>5. Inv => Conveyor
  BY <1>3 DEF TurnsInv
<1> HIDE DEF Inv
<1> QED
  BY <1>2, <1>4, <1>5, TypeCorrect, PTL DEF Spec
-----------------------------------------------------------------------------
(* PlaysBack *)

\* Which file is played after n others.
Turn(n) == (n % Len(Tasks)) + 1

\* The files of n plays.
LEMMA RepeatedFiles ==
  ASSUME NEW n \in Nat
  PROVE  /\ Len(Repeated(n)) = n
         /\ \A k \in Nat : k < n => Repeated(n)[k + 1] = Tasks[Turn(k)]
<1>1. Len(Repeated(n)) = n
  BY DEF Repeated
<1>2. ASSUME NEW k \in Nat, k < n PROVE Repeated(n)[k + 1] = Tasks[Turn(k)]
  <2>1. k + 1 \in 1..n /\ (k + 1) - 1 = k
    BY <1>2
  <2>2. Repeated(n)[k + 1] = Tasks[(((k + 1) - 1) % Len(Tasks)) + 1]
    BY <2>1 DEF Repeated
  <2> QED
    BY <2>1, <2>2 DEF Turn
<1> QED
  BY <1>1, <1>2

\* Which play of its request thread r is in, counted from 1.
PlaysDue(r) == (loc[r].round - 1) * Len(Tasks) + loc[r].task

\* How many plays make up the request of thread r.
Wanted(r) == IF loc[r].mode = "debug" THEN 1 ELSE RepeatCount * Len(Tasks)

\* The play that follows PlaysDue(r) - 1 others is of the file that r is at.
LEMMA DoneTurn ==
  ASSUME TypeOK, NEW r \in Replayer
  PROVE  /\ PlaysDue(r) \in Nat \ {0} /\ Turn(PlaysDue(r) - 1) = loc[r].task
         /\ PlaysDue(r) <= RepeatCount * Len(Tasks)
<1> DEFINE L == Len(Tasks)
           a == loc[r].round - 1
           k == loc[r].task - 1
<1>1. /\ L \in Nat \ {0} /\ a \in Nat /\ k \in 0..(L - 1) /\ loc[r].task = k + 1
      /\ a <= RepeatCount - 1 /\ RepeatCount \in Nat /\ loc[r].round = a + 1
  <2>1. L \in Nat \ {0} /\ RepeatCount \in Nat
    BY ConstantsAssumption, EmptySeq
  <2>2. loc[r].round \in 1..RepeatCount /\ loc[r].task \in 1..L
    BY DEF TypeOK, Local
  <2> HIDE DEF L
  <2> QED
    BY <2>1, <2>2
<1>2. PlaysDue(r) = a * L + k + 1
  <2>1. PlaysDue(r) = a * L + loc[r].task
    BY DEF PlaysDue
  <2> HIDE DEF L, a, k
  <2>2. a * L \in Nat
    BY <1>1
  <2> DEFINE m == a * L
  <2> HIDE DEF m
  <2> QED
    BY <1>1, <2>1, <2>2 DEF m
<1> HIDE DEF L, a, k
<1>3. (a * L + k) % L = k
  BY <1>1, SMTT(60)
<1>4. a * L \in Nat /\ a * L <= (RepeatCount - 1) * L /\ (RepeatCount - 1) * L + L = RepeatCount * L
  BY <1>1, SMTT(60)
<1> DEFINE m == a * L
           n == (RepeatCount - 1) * L
           w == RepeatCount * L
<1>5. PlaysDue(r) = m + k + 1 /\ m \in Nat /\ m <= n /\ n + L = w /\ (m + k) % L = k /\ n \in Nat
  BY <1>1, <1>2, <1>3, <1>4
<1>6. w = RepeatCount * Len(Tasks)
  BY DEF L
<1> HIDE DEF m, n, w
<1>7. PlaysDue(r) \in Nat \ {0} /\ PlaysDue(r) - 1 = m + k /\ PlaysDue(r) <= w
  BY <1>1, <1>5
<1>8. Turn(PlaysDue(r) - 1) = k + 1
  BY <1>5, <1>7 DEF Turn, L
<1> QED
  BY <1>1, <1>6, <1>7, <1>8

\* Inductive: while clients take turns, the flag stays up for as long as a stop thread is
\* at work.
Raised == Serial /\ (\E s \in Stopper : ~Idle(s)) => stopFlag

\* Every step keeps that.
LEMMA RaisedStep == TypeOK /\ Raised /\ [Next]_vars => Raised'
<1> SUFFICES ASSUME TypeOK, Raised, [Next]_vars, Serial, NEW s \in Stopper, pc'[s] # "idle"
             PROVE  stopFlag'
  BY DEF Raised, Idle
<1>0. pc \in [Thread -> ReplayStep \cup StopStep]
  BY DEF TypeOK
<1>k. ASSUME pc'[s] = pc[s], stopFlag' = stopFlag \/ stopFlag' = TRUE PROVE stopFlag'
  BY <1>k DEF Raised, Idle
<1>r. ASSUME NEW r \in Replayer, ReplayerNext(r) PROVE stopFlag'
  <2>1. \E to : pc' = [pc EXCEPT ![r] = to]
    BY <1>r
    DEF ReplayerNext, Start, Load, LoadThrows, SleepThrows, Throw, Played, Return, Wake, Enter, Create, CheckGoesOn, CheckAborts,
        CheckEnds, Submit, Rejected, Add, Shutdown, AwaitTermination, Awaited, Goto
  <2>2. pc'[s] = pc[s]
    BY <1>0, <2>1, ConstantsAssumption DEF Thread
  <2>3. ~Start(r)
    BY <2>2 DEF Start, Idle, Thread
  <2>4. stopFlag' = stopFlag \/ stopFlag' = TRUE
    BY <1>r, <2>3
    DEF ReplayerNext, Load, LoadThrows, SleepThrows, Played, Wake, Enter, Create, CheckGoesOn, CheckAborts,
        CheckEnds, Submit, Rejected, Add, Shutdown, AwaitTermination, Awaited, shared
  <2> QED
    BY <1>k, <2>2, <2>4
<1>e. ASSUME NEW e \in Executor, WorkerNext(e) PROVE stopFlag'
  BY <1>k, <1>e DEF WorkerNext, Take, Send
<1>s. ASSUME NEW x \in Stopper, StopperNext(x) PROVE stopFlag'
  <2>1. CASE Stop(x)
    BY <2>1 DEF Stop
  <2>2. CASE ~Stop(x)
    <3>1. stopFlag' = stopFlag /\ pc[x] # "idle"
      BY <1>s, <2>2
      DEF StopperNext, StopIterator, StopCancels, StopThrows, StopShutsDown, StopSignals,
          Goto, shared
    <3> QED
      BY <3>1 DEF Raised, Idle
  <2> QED
    BY <2>1, <2>2
<1>t. CASE Tick
  BY <1>k, <1>t DEF Tick
<1>l. CASE Relaunch
  BY <1>l DEF Relaunch, On, Thread
<1>v. CASE UNCHANGED vars
  BY <1>k, <1>v DEF vars, shared
<1> QED
  BY <1>r, <1>e, <1>s, <1>t, <1>l, <1>v DEF Next, Step

\* Inductive: nothing counts as sent outside of a play.
SentInPlay == \A r \in Replayer : pc[r] \notin Playing => sent[r] = {}

\* Every step keeps that.
LEMMA SentStep == TypeOK /\ TimeInv /\ SentInPlay /\ [Next]_vars => SentInPlay'
<1> SUFFICES ASSUME TypeOK, TimeInv, SentInPlay, [Next]_vars,
                    NEW x \in Replayer, pc'[x] \notin Playing
             PROVE  sent'[x] = {}
  BY DEF SentInPlay
<1>0. /\ pc \in [Thread -> ReplayStep \cup StopStep] /\ sent \in [Replayer -> SUBSET (Nat \ {0})]
      /\ x \in Thread
  BY DEF TypeOK, Thread
<1>k. ASSUME pc'[x] = pc[x] \/ pc[x] \notin Playing, sent'[x] = sent[x] PROVE sent'[x] = {}
  BY <1>k DEF SentInPlay
<1>r. ASSUME NEW r \in Replayer, ReplayerNext(r) PROVE sent'[x] = {}
  <2>0. ASSUME NEW to, pc' = [pc EXCEPT ![r] = to] PROVE x # r => pc'[x] = pc[x]
    BY <1>0, <2>0
  <2>1. CASE CheckAborts(r) \/ Rejected(r) \/ Awaited(r)
    <3>1. LeavePlay(r) /\ \E to : pc' = [pc EXCEPT ![r] = to]
      BY <2>1 DEF CheckAborts, Rejected, Awaited, Throw, Return, Goto
    <3>2. sent' = [sent EXCEPT ![r] = {}]
      BY <3>1 DEF LeavePlay
    <3> QED
      BY <1>0, <1>k, <2>0, <3>1, <3>2
  <2>2. CASE Enter(r) \/ Create(r)
    <3>1. /\ \E to : pc' = [pc EXCEPT ![r] = to]
          /\ sent' = sent \/ sent' = [sent EXCEPT ![r] = {}]
          /\ pc[r] \in {"enter", "create"}
      BY <2>2 DEF Enter, Create, BeginPlay, Goto
    <3> QED
      BY <1>0, <1>k, <2>0, <3>1 DEF Playing
  <2>3. CASE \/ Start(r) \/ Load(r) \/ LoadThrows(r) \/ Played(r) \/ Wake(r)
               \/ SleepThrows(r)
    <3>1. /\ \E to : pc' = [pc EXCEPT ![r] = to]
          /\ sent' = sent
          /\ pc[r] \in {"idle", "load", "played", "sleep"}
      BY <2>3
      DEF Start, Load, LoadThrows, SleepThrows, Throw, Played, Wake, Return, Goto, ghosts
    <3> QED
      BY <1>0, <1>k, <2>0, <3>1 DEF Playing
  <2>4. CASE CheckGoesOn(r) \/ CheckEnds(r) \/ Submit(r) \/ Add(r) \/ Shutdown(r)
               \/ AwaitTermination(r)
    <3>1. /\ \E to \in Playing : pc' = [pc EXCEPT ![r] = to]
          /\ sent' = sent
      BY <2>4
      DEF CheckGoesOn, CheckEnds, Submit, Add, Shutdown, AwaitTermination, Goto, ghosts, Playing
    <3> QED
      BY <1>0, <1>k, <2>0, <3>1
  <2> QED
    BY <1>r, <2>1, <2>2, <2>3, <2>4 DEF ReplayerNext
<1>e. ASSUME NEW e \in Executor, WorkerNext(e) PROVE sent'[x] = {}
  <2>1. CASE Take(e)
    BY <1>k, <2>1 DEF Take, ghosts
  <2>2. CASE Send(e)
    <3>1. pc' = pc
      BY <2>2 DEF Send
    <3>2. ~running[e].orphan => running[e].owner # x
      <4>1. running[e] # NoTask
        BY <2>2 DEF Send
      <4>2. DueInTime(running[e], pc, loc)
        BY <4>1 DEF TimeInv
      <4> QED
        BY <3>1, <4>2 DEF DueInTime
    <3>3. sent'[x] = sent[x]
      BY <1>0, <2>2, <3>2 DEF Send
    <3> QED
      BY <1>k, <3>1, <3>3
  <2> QED
    BY <1>e, <2>1, <2>2 DEF WorkerNext
<1>s. ASSUME NEW s \in Stopper, StopperNext(s) PROVE sent'[x] = {}
  <2>1. sent' = sent /\ \E to : pc' = [pc EXCEPT ![s] = to]
    BY <1>s
    DEF StopperNext, Stop, StopIterator, StopCancels, StopThrows, StopShutsDown,
        StopSignals, Goto, ghosts
  <2>2. pc'[x] = pc[x]
    BY <1>0, <2>1, ConstantsAssumption
  <2> QED
    BY <1>k, <2>1, <2>2
<1>t. CASE Tick
  BY <1>k, <1>t DEF Tick, ghosts
<1>l. CASE Relaunch
  BY <1>l DEF Relaunch, On
<1>v. CASE UNCHANGED vars
  BY <1>k, <1>v DEF vars, ghosts
<1> QED
  BY <1>r, <1>e, <1>s, <1>t, <1>l, <1>v DEF Next, Step

\* A replay that nobody has stopped has counted each of its plays, is inside its file,
\* and has an executor that accepts its events until it has handed over the last.
OnTrack(r) ==
  /\ loc[r].mode = "debug" => loc[r].round = 1 /\ loc[r].task = 1 /\ pc[r] # "sleep"
  /\ plays[r] = IF pc[r] \in {"played", "sleep"} THEN PlaysDue(r) ELSE PlaysDue(r) - 1
  /\ pc[r] \in {"check", "submit", "add"} =>
       scheduler \notin shut /\ loc[r].next <= Len(File(r)) + 1
  /\ pc[r] \in {"shutdown", "awaiting", "await"} => loc[r].next = Len(File(r)) + 1

\* Inductive, with the invariants before.
PlaysInv == Serial => \A r \in Replayer : ~Idle(r) /\ ~halted[r] => OnTrack(r)

\* A file of the task list is a sequence of events.
LEMMA FileIsSeq ==
  ASSUME TypeOK, NEW r \in Replayer
  PROVE  /\ File(r) \in Seq(Event) /\ Len(File(r)) \in Nat
         /\ loc[r].next \in Nat \ {0} /\ loc[r].task \in 1..Len(Tasks)
<1>1. loc[r].next \in Nat \ {0} /\ loc[r].task \in 1..Len(Tasks)
  BY DEF TypeOK, Local
<1>2. File(r) \in Seq(Event)
  BY <1>1, ElementOfSeq, EmptySeq, ConstantsAssumption DEF File
<1> QED
  BY <1>1, <1>2, LenProperties

\* Going on to the next file, or to the next repetition, is one play more.
LEMMA DoneGrows ==
  ASSUME TypeOK, NEW r \in Replayer,
         \/ /\ loc[r].task < Len(Tasks)
            /\ loc' = [loc EXCEPT ![r].task = @ + 1]
         \/ /\ loc[r].task = Len(Tasks)
            /\ loc' = [loc EXCEPT ![r].task = 1, ![r].round = @ + 1]
  PROVE  PlaysDue(r)' - 1 = PlaysDue(r)
<1> DEFINE L == Len(Tasks)
           a == loc[r].round
           k == loc[r].task
<1>1. L \in Nat /\ a \in Nat /\ k \in Nat
  <2>1. L \in Nat
    BY EmptySeq, ConstantsAssumption
  <2>2. a \in 1..RepeatCount /\ k \in 1..L
    BY DEF TypeOK, Local
  <2> HIDE DEF L
  <2> QED
    BY <2>1, <2>2, ConstantsAssumption
<1>2. \/ loc'[r].round = a /\ loc'[r].task = k + 1
      \/ k = L /\ loc'[r].round = a + 1 /\ loc'[r].task = 1
  BY DEF TypeOK, Local
<1>3. PlaysDue(r) = (a - 1) * L + k
  BY DEF PlaysDue
<1>4. \/ PlaysDue(r)' = (a - 1) * L + (k + 1)
      \/ k = L /\ PlaysDue(r)' = ((a + 1) - 1) * L + 1
  BY <1>2 DEF PlaysDue
<1> HIDE DEF L, a, k
<1>5. ((a + 1) - 1) * L = (a - 1) * L + L /\ (a - 1) * L \in Int
  BY <1>1, SMTT(60)
<1> DEFINE m == (a - 1) * L
           n == ((a + 1) - 1) * L
<1>6. /\ PlaysDue(r) = m + k /\ n = m + L /\ m \in Int
      /\ PlaysDue(r)' = m + (k + 1) \/ (k = L /\ PlaysDue(r)' = n + 1)
  BY <1>3, <1>4, <1>5
<1> DEFINE d == PlaysDue(r)'
<1> HIDE DEF m, n, d
<1>7. d = m + (k + 1) \/ (k = L /\ d = n + 1)
  BY <1>6 DEF d
<1>8. d - 1 = m + k
  BY <1>1, <1>6, <1>7
<1> QED
  BY <1>6, <1>8 DEF d

\* What a play keeps of its request, nothing is left of on the way.
LEMMA TrackKept ==
  ASSUME NEW r \in Replayer, OnTrack(r),
         UNCHANGED <<plays[r], loc[r].mode, loc[r].round, loc[r].task, loc[r].gone,
                     loc[r].next, scheduler, shut>>,
         pc'[r] = pc[r]
  PROVE  OnTrack(r)'
BY DEF OnTrack, PlaysDue, File

\* Once the executor has ended, all events of the file are sent.
LEMMA AllSent ==
  ASSUME TypeOK, NEW r \in Replayer, InLine(r), Terminated(scheduler),
         loc[r].next = Len(File(r)) + 1
  PROVE  sent[r] = DOMAIN File(r)
<1>1. Held = 0
  <2>1. InFlight(scheduler) = 0 /\ Len(queue[scheduler]) = 0
    BY EmptySeq DEF Terminated, InFlight
  <2> QED
    BY <2>1 DEF Held
<1>2. sent[r] = 1..(loc[r].next - 1)
  <2> DEFINE E == Events
             f == Tasks[loc[r].task]
             n == loc[r].next
             s == sent[r]
  <2>1. Handed(E, 0, s, n, f)
    BY <1>1 DEF InLine
  <2> HIDE DEF E, f, n, s
  <2>2. s \subseteq 1..(n - 1) /\ \A i \in 1..(n - 1) : i \in s \/ \E j \in 1..0 : E[j] = i
    BY <2>1, Zenon DEF Handed
  <2> DEFINE S == 1..(n - 1)
  <2>3. s \subseteq S /\ \A i \in S : i \in s
    <3>1. 1..0 = {}
      OBVIOUS
    <3> QED
      BY <2>2, <3>1
  <2> HIDE DEF S
  <2>4. s = S
    BY <2>3
  <2> QED
    BY <2>4 DEF n, s, S
<1>3. File(r) \in Seq(Event) /\ Len(File(r)) \in Nat
  BY FileIsSeq
<1>4. DOMAIN File(r) = 1..Len(File(r))
  BY <1>3, LenProperties
<1> QED
  BY <1>2, <1>3, <1>4

\* Every step keeps the invariant.
LEMMA PlaysStep ==
  TurnsInv /\ ConveyorInv /\ PlaysInv /\ [Next]_vars => PlaysInv'
<1> SUFFICES ASSUME TypeOK, OneBusy, TurnInv, Undisturbed, ConveyorInv, PlaysInv,
                    [Next]_vars, Serial, NEW x \in Replayer, pc'[x] # "idle", ~halted'[x]
             PROVE  OnTrack(x)'
  BY DEF PlaysInv, TurnsInv, Idle
<1>0. /\ pc \in [Thread -> ReplayStep \cup StopStep] /\ x \in Thread
      /\ loc \in [Replayer -> Local] /\ halted \in [Replayer -> BOOLEAN]
      /\ plays \in [Replayer -> Nat] /\ sent \in [Replayer -> SUBSET (Nat \ {0})]
  BY DEF TypeOK, Thread
<1>i. ASSUME pc[x] # "idle", halted' = halted
      PROVE  OnTrack(x) /\ ~stopFlag
  BY <1>i DEF PlaysInv, Undisturbed, Idle
<1>r. ASSUME NEW r \in Replayer, alive, ReplayerNext(r) PROVE OnTrack(x)'
  <2> USE DEF shared, ghosts, Goto
  <2>1. CASE Start(r)
    <3>1. x = r /\ pc'[x] = "load"
      BY <1>0, <2>1 DEF Start, Idle, Thread
    <3>2. loc'[x].round = 1 /\ loc'[x].task = 1 /\ plays'[x] = 0
      BY <1>0, <2>1, <3>1 DEF Start, Local
    <3>3. PlaysDue(x)' = 1
      <4>1. (1 - 1) * Len(Tasks) = 0
        BY LenProperties, ConstantsAssumption
      <4> QED
        BY <3>2, <4>1 DEF PlaysDue
    <3> QED
      BY <3>1, <3>2, <3>3 DEF OnTrack
  <2>a. CASE ~Start(r)
    <3>0. pc[r] # "idle" /\ halted' = halted /\ \E to : pc' = [pc EXCEPT ![r] = to]
      BY <1>r, <2>a
      DEF ReplayerNext, Load, LoadThrows, SleepThrows, Throw, Played, Return, Wake, Enter, Create, CheckGoesOn, CheckAborts,
          CheckEnds, Submit, Rejected, Add, Shutdown, AwaitTermination, Awaited
    <3>a. x = r
      BY <1>0, <3>0 DEF OneBusy, Idle
    <3>t. OnTrack(x) /\ ~stopFlag
      BY <1>i, <3>0, <3>a
    <3>k. ASSUME NEW to, pc' = [pc EXCEPT ![x] = to],
                 UNCHANGED <<plays, loc[x].mode, loc[x].round, loc[x].task, loc[x].gone>>
          PROVE  /\ pc'[x] = to /\ plays'[x] = plays[x] /\ PlaysDue(x)' = PlaysDue(x)
                 /\ File(x)' = File(x) /\ loc'[x].mode = loc[x].mode
                 /\ loc'[x].round = loc[x].round /\ loc'[x].task = loc[x].task
      BY <1>0, <3>k DEF PlaysDue, File
    <3>1. CASE Load(x)
      <4>1. PICK gone \in BOOLEAN :
              /\ pc[x] = "load" /\ pc' = [pc EXCEPT ![x] = "enter"] /\ plays' = plays
              /\ loc' = [loc EXCEPT ![x].gone = gone]
        BY <3>1 DEF Load
      <4>2. UNCHANGED <<loc[x].mode, loc[x].round, loc[x].task>> /\ pc'[x] = "enter"
        BY <1>0, <4>1 DEF Local
      <4>3. PlaysDue(x)' = PlaysDue(x)
        BY <4>2 DEF PlaysDue
      <4> QED
        BY <3>t, <4>1, <4>2, <4>3 DEF OnTrack
    <3>5. CASE LoadThrows(x) \/ SleepThrows(x)
      BY <1>0, <3>5 DEF LoadThrows, SleepThrows, Throw, Return
    <3>2. CASE Played(x)
      <4>1. /\ pc[x] = "played" /\ pc' = [pc EXCEPT ![x] = "sleep"] /\ loc' = loc
            /\ plays' = plays /\ loc[x].mode = "complex"
        BY <1>0, <3>2 DEF Played, Return
      <4> QED
        BY <3>t, <3>k, <4>1 DEF OnTrack
    <3>3. CASE Wake(x)
      <4>1. /\ pc[x] = "sleep" /\ pc' = [pc EXCEPT ![x] = "load"] /\ plays' = plays
            /\ \/ /\ loc[x].task < Len(Tasks)
                  /\ loc' = [loc EXCEPT ![x].task = @ + 1]
               \/ /\ loc[x].task = Len(Tasks)
                  /\ loc' = [loc EXCEPT ![x].task = 1, ![x].round = @ + 1]
        BY <1>0, <3>3 DEF Wake, Return
      <4>2. PlaysDue(x)' - 1 = PlaysDue(x)
        BY <4>1, DoneGrows
      <4>3. loc[x].mode # "debug" /\ loc'[x].mode = loc[x].mode /\ pc'[x] = "load"
        BY <1>0, <3>t, <4>1 DEF OnTrack, Local
      <4>4. plays'[x] = PlaysDue(x)
        BY <3>t, <4>1 DEF OnTrack
      <4> QED
        BY <4>2, <4>3, <4>4 DEF OnTrack
    <3>4. CASE Enter(x) \/ Create(x)
      <4>1. PICK to \in {"create", "check"} :
              /\ pc' = [pc EXCEPT ![x] = to] /\ pc[x] \in {"enter", "create"} /\ plays' = plays
              /\ \/ to = "create" /\ loc' = loc
                 \/ /\ to = "check" /\ scheduler' \notin shut'
                    /\ loc' = [loc EXCEPT ![x].next = 1, ![x].elapsed = 0]
        BY <3>4 DEF Enter, Create, BeginPlay
      <4>2. UNCHANGED <<loc[x].mode, loc[x].round, loc[x].task, loc[x].gone>>
        BY <1>0, <4>1 DEF Local
      <4>3. pc'[x] = to /\ (to = "check" => loc'[x].next = 1 /\ scheduler' \notin shut')
        BY <1>0, <4>1 DEF Local
      <4>4. Len(File(x)) \in Nat /\ File(x)' = File(x)
        BY <4>2, FileIsSeq DEF File
      <4>5. to = "check" => loc'[x].next <= Len(File(x)') + 1
        BY <4>3, <4>4
      <4>6. /\ plays'[x] = plays[x] /\ PlaysDue(x)' = PlaysDue(x) /\ loc'[x].mode = loc[x].mode
            /\ loc'[x].round = loc[x].round /\ loc'[x].task = loc[x].task
        BY <3>k, <4>1, <4>2
      <4>7. plays[x] = PlaysDue(x) - 1
        BY <3>t, <4>1 DEF OnTrack
      <4> QED
        BY <3>t, <4>3, <4>5, <4>6, <4>7 DEF OnTrack
    <3>6. CASE CheckGoesOn(x)
      <4>1. /\ pc[x] = "check" /\ pc' = [pc EXCEPT ![x] = "submit"] /\ plays' = plays
            /\ UNCHANGED <<scheduler, shut>>
            /\ loc' = [loc EXCEPT ![x].delay = TimeLeft(x), ![x].lag = 0]
        BY <3>6 DEF CheckGoesOn
      <4>2. UNCHANGED <<loc[x].mode, loc[x].round, loc[x].task, loc[x].gone, loc[x].next>>
        BY <1>0, <4>1 DEF Local
      <4> QED
        BY <3>t, <3>k, <4>1, <4>2 DEF OnTrack
    <3>7. CASE CheckAborts(x)
      BY <3>t, <3>7 DEF CheckAborts, OnTrack
    <3>8. CASE CheckEnds(x)
      <4>1. /\ pc[x] = "check" /\ pc' = [pc EXCEPT ![x] = "shutdown"] /\ plays' = plays
            /\ loc' = loc /\ loc[x].next > Len(File(x))
        BY <3>8 DEF CheckEnds
      <4>2. loc[x].next = Len(File(x)) + 1
        BY <3>t, <4>1, FileIsSeq DEF OnTrack
      <4> QED
        BY <3>t, <3>k, <4>1, <4>2 DEF OnTrack
    <3>9. CASE Submit(x)
      <4>1. /\ pc[x] = "submit" /\ pc' = [pc EXCEPT ![x] = "add"] /\ plays' = plays
            /\ UNCHANGED <<scheduler, shut>>
            /\ loc' = [loc EXCEPT ![x].next = @ + 1, ![x].delay = 0, ![x].lag = 0]
        BY <3>9 DEF Submit
      <4>2. /\ UNCHANGED <<loc[x].mode, loc[x].round, loc[x].task, loc[x].gone>>
            /\ loc'[x].next = loc[x].next + 1
        BY <1>0, <4>1 DEF Local
      <4>3. loc[x].next + 1 <= Len(File(x)) + 1
        <5>1. loc[x].next <= Len(File(x))
          <6>1. loc[x].next <= Len(Tasks[loc[x].task])
            BY <4>1 DEF TypeOK
          <6>2. ~loc[x].gone
            BY <1>r, <3>0, <3>a, <4>1 DEF ConveyorInv, InLine, Playing
          <6> QED
            BY <6>1, <6>2 DEF File
        <5> QED
          BY <5>1, FileIsSeq
      <4> QED
        BY <3>t, <3>k, <4>1, <4>2, <4>3 DEF OnTrack
    <3>10. CASE Rejected(x)
      BY <1>0, <3>10 DEF Rejected, Throw, Return
    <3>11. CASE Add(x)
      <4>1. /\ pc[x] = "add" /\ pc' = [pc EXCEPT ![x] = "check"] /\ plays' = plays
            /\ UNCHANGED <<scheduler, shut>> /\ loc' = loc
        BY <3>11 DEF Add
      <4> QED
        BY <3>t, <3>k, <4>1 DEF OnTrack
    <3>12. CASE Shutdown(x)
      <4>1. /\ pc[x] = "shutdown" /\ pc' = [pc EXCEPT ![x] = "awaiting"] /\ plays' = plays
            /\ loc' = loc
        BY <3>12 DEF Shutdown
      <4> QED
        BY <3>t, <3>k, <4>1 DEF OnTrack
    <3>13. CASE AwaitTermination(x)
      <4>1. /\ pc[x] = "awaiting" /\ pc' = [pc EXCEPT ![x] = "await"] /\ plays' = plays
            /\ loc' = [loc EXCEPT ![x].awaited = scheduler]
        BY <3>13 DEF AwaitTermination
      <4>2. UNCHANGED <<loc[x].mode, loc[x].round, loc[x].task, loc[x].gone, loc[x].next>>
        BY <1>0, <4>1 DEF Local
      <4> QED
        BY <3>t, <3>k, <4>1, <4>2 DEF OnTrack
    <3>14. CASE Awaited(x)
      <4>1. /\ pc[x] = "await" /\ pc' = [pc EXCEPT ![x] = "played"]
            /\ loc' = [loc EXCEPT ![x].awaited = NoExecutor]
            /\ Terminated(loc[x].awaited)
            /\ plays' = [plays EXCEPT ![x] = IF sent[x] = DOMAIN File(x) THEN @ + 1 ELSE @]
        BY <3>14 DEF Awaited
      <4>2. UNCHANGED <<loc[x].mode, loc[x].round, loc[x].task, loc[x].gone>>
        BY <1>0, <4>1 DEF Local
      <4>3. InLine(x) /\ loc[x].awaited = scheduler
        BY <1>r, <3>0, <3>a, <4>1 DEF ConveyorInv, Playing, TurnInv, Settled
      <4>4. sent[x] = DOMAIN File(x)
        BY <3>t, <4>1, <4>3, AllSent DEF OnTrack
      <4>5. plays'[x] = plays[x] + 1 /\ plays[x] = PlaysDue(x) - 1
        BY <1>0, <3>t, <4>1, <4>4 DEF OnTrack
      <4>6. PlaysDue(x)' = PlaysDue(x) /\ pc'[x] = "played" /\ PlaysDue(x) \in Nat
        BY <1>0, <4>1, <4>2, DoneTurn DEF PlaysDue
      <4> QED
        BY <3>t, <4>1, <4>2, <4>5, <4>6 DEF OnTrack
    <3> QED
      BY <1>r, <2>a, <3>a, <3>1, <3>2, <3>3, <3>4, <3>5, <3>6, <3>7, <3>8, <3>9, <3>10, <3>11, <3>12, <3>13, <3>14 DEF ReplayerNext
  <2> QED
    BY <2>1, <2>a
<1>e. ASSUME NEW e \in Executor, WorkerNext(e) PROVE OnTrack(x)'
  <2>1. UNCHANGED <<plays, pc, loc, scheduler, shut, halted>>
    BY <1>e DEF WorkerNext, Take, Send, ghosts
  <2> QED
    BY <1>i, <2>1, TrackKept
<1>s. ASSUME NEW s \in Stopper, StopperNext(s) PROVE FALSE
  BY <1>s, NoStopBeside
<1>t. CASE Tick
  <2>1. UNCHANGED <<plays, pc, scheduler, shut, halted>>
    BY <1>t DEF Tick, ghosts
  <2>2. UNCHANGED <<loc[x].mode, loc[x].round, loc[x].task, loc[x].gone, loc[x].next>>
    BY <1>0, <1>t DEF Tick, Local
  <2> QED
    BY <1>i, <2>1, <2>2, TrackKept
<1>l. CASE Relaunch
  BY <1>0, <1>l DEF Relaunch, On
<1>v. CASE UNCHANGED vars
  <2>1. UNCHANGED <<plays, pc, loc, scheduler, shut, halted>>
    BY <1>v DEF vars, shared, ghosts
  <2> QED
    BY <1>i, <2>1, TrackKept
<1> QED
  BY <1>r, <1>e, <1>s, <1>t, <1>l, <1>v DEF Next, Step

\* Inductive, with OneBusy: of the calls that failed nothing is remembered while another
\* one is served.
Untroubled == Serial => \A r \in Replayer : ~Idle(r) => ~Threw

\* Every step keeps that.
LEMMA UntroubledStep == TypeOK /\ OneBusy /\ Untroubled /\ [Next]_vars => Untroubled'
<1> SUFFICES ASSUME TypeOK, OneBusy, Untroubled, [Next]_vars, Serial,
                    NEW x \in Replayer, pc'[x] # "idle"
             PROVE  ~Threw'
  BY DEF Untroubled, Idle
<1> USE DEF Idle
<1>0. /\ pc \in [Thread -> ReplayStep \cup StopStep] /\ outcome \in [Replayer -> Outcome]
      /\ x \in Thread
  BY DEF TypeOK, Thread
<1>k. ASSUME outcome' = outcome, pc[x] # "idle" PROVE ~Threw'
  BY <1>k DEF Threw, Untroubled
<1>r. ASSUME NEW r \in Replayer, ReplayerNext(r) PROVE ~Threw'
  <2> USE DEF Goto
  <2>1. CASE Start(r)
    <3>1. \A p \in Replayer : Idle(p)
      BY <2>1 DEF Start, Thread
    <3>2. \A p \in Replayer : outcome'[p] = "none"
      BY <2>1, <3>1 DEF Start
    <3> QED
      BY <3>2 DEF Threw
  <2>2. CASE ~Start(r)
    <3>1. /\ pc[r] # "idle" /\ \E to : pc' = [pc EXCEPT ![r] = to]
          /\ outcome' = outcome \/ pc' = [pc EXCEPT ![r] = "idle"]
      BY <1>r, <2>2
      DEF ReplayerNext, Load, LoadThrows, SleepThrows, Throw, Played, Return, Wake, Enter,
          Create, CheckGoesOn, CheckAborts, CheckEnds, Submit, Rejected, Add, Shutdown,
          AwaitTermination, Awaited, shared, ghosts
    <3>2. pc[x] # "idle"
      BY <1>0, <3>1
    <3>3. x = r
      BY <3>1, <3>2 DEF OneBusy
    <3>4. outcome' = outcome
      BY <1>0, <3>1, <3>3
    <3> QED
      BY <1>k, <3>2, <3>4
  <2> QED
    BY <2>1, <2>2
<1>e. ASSUME NEW e \in Executor, WorkerNext(e) PROVE ~Threw'
  BY <1>k, <1>e DEF WorkerNext, Take, Send, ghosts
<1>s. ASSUME NEW s \in Stopper, StopperNext(s) PROVE ~Threw'
  <2>1. (\E to : pc' = [pc EXCEPT ![s] = to]) /\ outcome' = outcome
    BY <1>s
    DEF StopperNext, Stop, StopIterator, StopCancels, StopThrows, StopShutsDown,
        StopSignals, Goto, ghosts
  <2>2. pc'[x] = pc[x]
    BY <1>0, <2>1, ConstantsAssumption
  <2> QED
    BY <1>k, <2>1, <2>2
<1>t. CASE Tick
  BY <1>k, <1>t DEF Tick, ghosts
<1>l. CASE Relaunch
  BY <1>0, <1>l DEF Relaunch, On
<1>v. CASE UNCHANGED vars
  BY <1>k, <1>v DEF vars, ghosts
<1> QED
  BY <1>r, <1>e, <1>s, <1>t, <1>l, <1>v DEF Next, Step

\* Everything the proof of the refinement needs to know of a state.
ClientInv ==
  TurnsInv /\ NoStray /\ ConveyorInv /\ HaltInv /\ Raised /\ SentInPlay /\ PlaysInv
  /\ Untroubled

\* The data of what the workers are about to send, whoever it belongs to.
Carried ==
  {Tasks[running[e].task][running[e].event].data : e \in {x \in Executor : running[x] # NoTask}}

\* Every other replay thread is idle.
Alone(r) == \A x \in Replayer \ {r} : Idle(x)

\* Then the phase is that of thread r.
LEMMA PhaseOf ==
  ASSUME NEW r \in Replayer, Alone(r)
  PROVE  /\ ~Idle(r) => Served = r
         /\ Phase = "playing" <=> alive /\ ~Idle(r) /\ ~halted[r]
         /\ Phase = "stopping" <=> alive /\ ~Idle(r) /\ halted[r]
         /\ Phase \in {"idle", "failed"} <=> alive /\ Idle(r)
         /\ Phase = "dead" <=> ~alive
<1>1. Busy = IF Idle(r) THEN {} ELSE {r}
  BY DEF Busy, Alone
<1>2. ~Idle(r) => Served = r
  BY <1>1 DEF Served
<1> QED
  BY <1>1, <1>2 DEF Phase

\* ... and so it is after a step.
LEMMA PhaseNext ==
  ASSUME NEW r \in Replayer, Alone(r)'
  PROVE  /\ pc'[r] # "idle" => Served' = r
         /\ Phase' = "playing" <=> alive' /\ pc'[r] # "idle" /\ ~halted'[r]
         /\ Phase' = "stopping" <=> alive' /\ pc'[r] # "idle" /\ halted'[r]
         /\ alive' /\ pc'[r] = "idle" => Phase' = IF Threw' THEN "failed" ELSE "idle"
         /\ Phase' = "dead" <=> ~alive'
<1>1. Busy' = IF pc'[r] = "idle" THEN {} ELSE {r}
  BY DEF Busy, Alone, Idle
<1>2. pc'[r] # "idle" => Served' = r
  BY <1>1 DEF Served
<1> QED
  BY <1>1, <1>2 DEF Phase

\* Outside of a play every task that a worker runs is an orphan.
LEMMA OrphansOnly ==
  ASSUME TypeOK, TimeInv, NEW r \in Replayer, Alone(r), pc[r] \notin Playing,
         NEW e \in Executor, running[e] # NoTask
  PROVE  running[e].orphan
<1>1. running[e].owner \in Replayer /\ DueInTime(running[e], pc, loc)
  BY DEF TypeOK, TimeInv, Task, TaskRecord
<1> QED
  BY <1>1 DEF DueInTime, Alone, Idle, Playing

\* When none of them belongs to a play that goes on, all of them are in flight.
LEMMA FlyingAll ==
  ASSUME alive, \A e \in Executor : running[e] # NoTask =>
                  running[e].orphan \/ Phase # "playing"
  PROVE  Flying = Carried
BY DEF Flying, Carried, Unserved

\* ... and so it is after a step.
LEMMA FlyingAllNext ==
  ASSUME alive', \A e \in Executor : running'[e] # NoTask =>
                   running'[e].orphan \/ Phase' # "playing"
  PROVE  Flying' = Carried'
BY DEF Flying, Carried, Unserved

\* What is left of a play is carried on.
LEMMA CarriedLeave ==
  ASSUME TypeOK, TimeInv, NEW r \in Replayer, Alone(r), LeavePlay(r)
  PROVE  /\ Carried' = Carried
         /\ \A e \in Executor : running'[e] # NoTask => running'[e].orphan
<1>1. ASSUME NEW e \in Executor
      PROVE  /\ running'[e] = NoTask <=> running[e] = NoTask
             /\ running[e] # NoTask => /\ running'[e].task = running[e].task
                                       /\ running'[e].event = running[e].event
                                       /\ running'[e].orphan
  <2>1. CASE running[e] = NoTask
    BY <2>1 DEF LeavePlay
  <2>2. CASE running[e] # NoTask
    <3> DEFINE t == running[e]
    <3>1. t \in Task /\ running'[e] = Orphaned(r, t)
      BY <2>2 DEF LeavePlay, TypeOK
    <3>2. t.owner # r => t.orphan
      <4>1. t.owner \in Replayer /\ DueInTime(t, pc, loc)
        BY <2>2, <3>1 DEF TimeInv, Task, TaskRecord
      <4> QED
        BY <4>1 DEF DueInTime, Alone, Idle, Playing
    <3>3. Orphaned(r, t) \in Task
      BY <3>1, TaskUpdates DEF Orphaned
    <3>4. /\ Orphaned(r, t).task = t.task /\ Orphaned(r, t).event = t.event
          /\ Orphaned(r, t).orphan
      BY <3>1, <3>2 DEF Orphaned, Task, TaskRecord
    <3> HIDE DEF t, Task
    <3> QED
      BY <2>2, <3>1, <3>3, <3>4, NoTaskAssumption DEF t
  <2> QED
    BY <2>1, <2>2
<1> QED
  BY <1>1 DEF Carried

\* At these places the next file is still to be read.
Between == {"load", "played", "sleep"}

\* What the client sees of a play: the request, and how far it has got.
LEMMA PlayOf ==
  ASSUME NEW r \in Replayer, Alone(r), Phase = "playing"
  PROVE  /\ Plan = Repeated(Wanted(r)) /\ Done = plays[r] /\ Got = sent[r]
         /\ Reading = IF pc[r] \in Between THEN "unread"
                      ELSE IF loc[r].gone THEN "gone" ELSE "whole"
BY PhaseOf DEF Plan, Done, Got, Reading, Asked, Wanted, Between

\* ... and so it is after a step.
LEMMA PlayNext ==
  ASSUME NEW r \in Replayer, Alone(r)', Phase' = "playing"
  PROVE  /\ Plan' = Asked(loc'[r].mode) /\ Done' = plays'[r] /\ Got' = sent'[r]
         /\ Reading' = IF pc'[r] \in Between THEN "unread"
                       ELSE IF loc'[r].gone THEN "gone" ELSE "whole"
BY PhaseNext DEF Plan, Done, Got, Reading, Between

\* Without a play there is nothing of it to see.
LEMMA NoPlayOf ==
  ASSUME Phase # "playing"
  PROVE  Plan = << >> /\ Done = 0 /\ Reading = "unread" /\ Got = {}
BY DEF Plan, Done, Reading, Got

\* ... and so it is after a step.
LEMMA NoPlayNext ==
  ASSUME Phase' # "playing"
  PROVE  Plan' = << >> /\ Done' = 0 /\ Reading' = "unread" /\ Got' = {}
BY DEF Plan, Done, Reading, Got

\* A step that does nothing a client can see.
LEMMA Unseen ==
  ASSUME NEW r \in Replayer, Alone(r), Alone(r)',
         UNCHANGED <<alive, halted, plays, sent, running, host>>,
         loc'[r].mode = loc[r].mode, pc'[r] = "idle" <=> pc[r] = "idle",
         pc[r] = "idle" => outcome' = outcome,
         pc'[r] \in Between <=> pc[r] \in Between,
         pc[r] \notin Between => loc'[r].gone = loc[r].gone
  PROVE  UNCHANGED Client!vars
<1>1. Phase' = Phase
  BY PhaseOf, PhaseNext DEF Phase, Idle, Threw
<1>2. Plan' = Plan /\ Done' = Done /\ Reading' = Reading /\ Got' = Got
  <2>1. CASE Phase = "playing"
    <3>1. Plan = Asked(loc[r].mode)
      BY <2>1, PhaseOf DEF Plan
    <3> QED
      BY <1>1, <2>1, <3>1, PlayOf, PlayNext
  <2>2. CASE Phase # "playing"
    BY <1>1, <2>2, NoPlayOf, NoPlayNext
  <2> QED
    BY <2>1, <2>2
<1>3. Flying' = Flying
  BY <1>1 DEF Flying, Unserved
<1> QED
  BY <1>1, <1>2, <1>3 DEF Client!vars, Client!play

\* The file that is played is the one the plan has next.
LEMMA CurrentFile ==
  ASSUME Serial, NEW r \in Replayer, Alone(r), ClientInv, Phase = "playing",
         pc[r] \notin {"played", "sleep"}
  PROVE  Done \in Nat /\ Done < Len(Plan) /\ Client!Current = Tasks[loc[r].task]
<1> USE DEF ClientInv, TurnsInv
<1>1. OnTrack(r)
  BY PhaseOf DEF PlaysInv
<1> DEFINE k == PlaysDue(r) - 1
           n == Wanted(r)
<1>2. plays[r] = k
  BY <1>1 DEF OnTrack
<1>3. Turn(k) = loc[r].task /\ k \in Nat /\ n \in Nat /\ k < n
  <2>1. PlaysDue(r) \in Nat \ {0} /\ Turn(PlaysDue(r) - 1) = loc[r].task
        /\ PlaysDue(r) <= RepeatCount * Len(Tasks)
    BY DoneTurn
  <2>2. RepeatCount * Len(Tasks) \in Nat
    <3>1. Len(Tasks) \in Nat
      BY EmptySeq, ConstantsAssumption
    <3> QED
      BY <3>1, ConstantsAssumption
  <2>3. loc[r].mode = "debug" => PlaysDue(r) = 1
    <3>1. (1 - 1) * Len(Tasks) = 0
      BY EmptySeq, ConstantsAssumption
    <3> QED
      BY <1>1, <3>1 DEF OnTrack, PlaysDue
  <2> DEFINE w == RepeatCount * Len(Tasks)
  <2>4. n = IF loc[r].mode = "debug" THEN 1 ELSE w
    BY DEF Wanted
  <2>5. w \in Nat /\ PlaysDue(r) <= w
    BY <2>1, <2>2
  <2> HIDE DEF w, n
  <2> QED
    BY <2>1, <2>3, <2>4, <2>5
<1>4. Plan = Repeated(n) /\ Done = k
  BY <1>2, PlayOf
<1> HIDE DEF k, n
<1>5. Len(Repeated(n)) = n /\ Repeated(n)[k + 1] = Tasks[Turn(k)]
  BY <1>3, RepeatedFiles
<1> QED
  BY <1>3, <1>4, <1>5 DEF Client!Current

\* What the worker is about to send for a play that nobody has stopped is a report that
\* may go out next.
LEMMA NextReport ==
  ASSUME Serial, NEW r \in Replayer, Alone(r), ClientInv, Phase = "playing",
         NEW e \in Executor, running[e] # NoTask, ~running[e].orphan
  PROVE  /\ e = scheduler /\ running[e].owner = r /\ pc[r] \in Playing
         /\ Reading = "whole" /\ running[e].event \in Client!Deliverable
         /\ Client!Current[running[e].event].data = Tasks[running[e].task][running[e].event].data
<1> USE DEF ClientInv, TurnsInv
<1>1. e = scheduler
  BY DEF NoStray
<1>2. running[e] \in Task /\ running[e].owner = r
  <2>1. running[e] \in Task /\ running[e].owner \in Replayer /\ DueInTime(running[e], pc, loc)
    BY DEF TypeOK, TimeInv, Task, TaskRecord
  <2> QED
    BY <2>1 DEF DueInTime, Alone, Idle, Playing
<1>3. pc[r] \in Playing
  BY <1>2, OrphansOnly
<1>4. InLine(r) /\ OnTrack(r)
  BY <1>3, PhaseOf DEF ConveyorInv, PlaysInv
<1> DEFINE f == Tasks[loc[r].task]
           i == running[e].event
           s == sent[r]
           n == loc[r].next
<1>5. Held \in Nat \ {0} /\ Nth(1) = running[e]
  <2>1. InFlight(scheduler) = 1
    BY <1>1 DEF InFlight
  <2>2. Len(queue[scheduler]) \in Nat /\ Held = 1 + Len(queue[scheduler])
    BY <2>1, HeldType DEF Held
  <2> QED
    BY <1>1, <2>1, <2>2 DEF Nth
<1>6. running[e].task = loc[r].task /\ Events[1] = i
  BY <1>4, <1>5 DEF InLine, Mine, Events
<1>7. Handed(Events, Held, s, n, f)
  BY <1>4 DEF InLine
<1>8. Client!Current = f
  BY <1>3, CurrentFile DEF Playing
<1>9. n \in Nat \ {0} /\ f \in Seq(Event) /\ Len(f) \in Nat /\ DOMAIN f = 1..Len(f)
  <2>1. n \in Nat \ {0} /\ loc[r].task \in 1..Len(Tasks)
    BY DEF TypeOK, Local
  <2>2. f \in Seq(Event)
    BY <2>1, ElementOfSeq, ConstantsAssumption
  <2> QED
    BY <2>1, <2>2, LenProperties
<1> HIDE DEF MayPass
<1>10. i \in (1..(n - 1)) \ s
  BY <1>5, <1>6, <1>7 DEF Handed
<1>11. ~loc[r].gone
  <2>1. loc[r].gone \in BOOLEAN
    BY DEF TypeOK, Local
  <2> QED
    BY <1>4, <1>9, <1>10, <2>1 DEF InLine
<1>12. n <= Len(f) + 1
  <2>1. n <= Len(File(r)) + 1
    BY <1>3, <1>4, FileIsSeq DEF OnTrack, Playing
  <2> QED
    BY <1>11, <2>1 DEF File
<1>13. ASSUME NEW k \in 1..(i - 1), k \notin s PROVE MayPass(f, i, k)
  <2>1. k \in 1..(n - 1) /\ k < i /\ k # i
    BY <1>9, <1>10, <1>13
  <2>2. PICK j \in 1..Held : Events[j] = k
    BY <1>7, <1>13, <2>1 DEF Handed
  <2>3. 1 \in 1..Held /\ 1 < j
    BY <1>5, <1>6, <2>1, <2>2
  <2> QED
    BY <1>6, <1>7, <2>1, <2>2, <2>3 DEF Handed
<1> HIDE DEF f, i, s, n
<1>14. i \in DOMAIN f \ s
  BY <1>9, <1>10, <1>12
<1>15. i \in Client!Deliverable
  <2>1. Got = s
    BY PlayOf DEF s
  <2> QED
    BY <1>8, <1>13, <1>14, <2>1 DEF Client!Deliverable, MayPass
<1>16. Reading = "whole"
  BY <1>3, <1>11, PlayOf DEF Playing, Between
<1> QED
  BY <1>1, <1>2, <1>3, <1>6, <1>8, <1>15, <1>16 DEF f, i

\* A step of the replay thread is one that a client may see: Begin, Open, Close, Finish,
\* Fail, Stopped, Release or Crash, or nothing.
LEMMA ReplayerSeen ==
  ASSUME Serial, NEW r \in Replayer, Alone(r), Alone(r)', ClientInv, alive, ReplayerNext(r)
  PROVE  [Client!Next]_(Client!vars)
<1> USE DEF Goto
<1>0. /\ pc \in [Thread -> ReplayStep \cup StopStep] /\ r \in Thread
      /\ loc \in [Replayer -> Local] /\ halted \in [Replayer -> BOOLEAN]
      /\ plays \in [Replayer -> Nat] /\ sent \in [Replayer -> SUBSET (Nat \ {0})]
      /\ outcome \in [Replayer -> Outcome]
      /\ TypeOK /\ TimeInv
  BY DEF ClientInv, TurnsInv, TypeOK, Thread
<1>i. ASSUME Phase = "playing"
      PROVE  ~stopFlag /\ OnTrack(r)
  BY <1>i, PhaseOf DEF ClientInv, TurnsInv, Undisturbed, PlaysInv
<1>o. ASSUME pc[r] \notin Playing PROVE Flying = Carried
  BY <1>0, <1>o, OrphansOnly, FlyingAll
<1>c. ASSUME running' = running PROVE Carried' = Carried
  BY <1>c DEF Carried
<1>p. ASSUME pc[r] \notin Playing, running' = running, alive'
      PROVE  Flying' = Flying
  <2>1. \A e \in Executor : running'[e] # NoTask => running'[e].orphan
    BY <1>0, <1>p, OrphansOnly
  <2> QED
    BY <1>c, <1>o, <1>p, <2>1, FlyingAllNext
<1>g. ASSUME Phase # "playing", Phase' # "playing" PROVE UNCHANGED Client!play
  BY <1>g, NoPlayOf, NoPlayNext DEF Client!play
<1>q. ASSUME Phase' # "playing" PROVE Client!NoPlay'
  BY <1>q, NoPlayNext DEF Client!NoPlay
<1>u. ASSUME UNCHANGED <<alive, halted, plays, sent, running, host>>,
             loc'[r].mode = loc[r].mode, NEW to, to # "idle", pc[r] # "idle",
             pc' = [pc EXCEPT ![r] = to], to \in Between <=> pc[r] \in Between,
             pc[r] \notin Between => loc'[r].gone = loc[r].gone
      PROVE  [Client!Next]_(Client!vars)
  BY <1>0, <1>u, Unseen
<1>1. CASE Start(r)
  <2>1. /\ pc[r] = "idle" /\ pc'[r] = "load" /\ alive' /\ ~halted'[r]
        /\ UNCHANGED <<running, host, sent>> /\ plays'[r] = 0
        /\ loc'[r].mode \in Mode
    <3>1. pc[r] = "idle" /\ pc'[r] = "load" /\ alive' /\ UNCHANGED <<running, host, sent>>
      BY <1>0, <1>1 DEF Start
    <3>2. plays'[r] = 0
      BY <1>0, <1>1 DEF Start
    <3>3. ~halted'[r]
      BY <1>1, <3>1 DEF Start, Idle
    <3>4. PICK m \in Mode : loc' = [loc EXCEPT ![r].mode = m, ![r].round = 1, ![r].task = 1]
      BY <1>1 DEF Start
    <3>5. loc'[r].mode = m
      BY <1>0, <3>4 DEF Local
    <3> QED
      BY <3>1, <3>2, <3>3, <3>5
  <2>2. Phase \in {"idle", "failed"} /\ Phase' = "playing"
    BY <2>1, PhaseOf, PhaseNext DEF Idle
  <2>3. Flying' = Flying
    BY <1>p, <2>1 DEF Playing
  <2>4. /\ Plan = << >> /\ Done = 0 /\ Reading = "unread" /\ Got = {}
        /\ Plan' \in {Asked(m) : m \in Mode}
        /\ Done' = 0 /\ Reading' = "unread" /\ Got' = sent[r]
    BY <2>1, <2>2, NoPlayOf, PlayNext DEF Between
  <2>5. sent[r] = {}
    BY <2>1 DEF ClientInv, SentInPlay, Playing
  <2> QED
    BY <2>1, <2>2, <2>3, <2>4, <2>5 DEF Client!Next, Client!Begin, Client!Rest
<1>f. ASSUME pc[r] \in {"played", "sleep"}, pc'[r] = "idle",
             UNCHANGED <<alive, halted, running, host>>,
             outcome' = [outcome EXCEPT ![r] = "returned"],
             Phase = "playing" => PlaysDue(r) = Wanted(r)
      PROVE  [Client!Next]_(Client!vars)
  <2>1. Phase' = "idle"
    <3>1. ~Threw
      BY <1>f DEF ClientInv, Untroubled, Idle
    <3>2. ~Threw'
      BY <1>0, <1>f, <3>1 DEF Threw
    <3> QED
      BY <1>f, <3>2, PhaseNext
  <2>2. Flying' = Flying
    BY <1>f, <1>p DEF Playing
  <2>3. CASE Phase = "playing"
    <3>1. plays[r] = Wanted(r)
      BY <1>i, <1>f, <2>3 DEF OnTrack
    <3>2. Wanted(r) \in Nat
      BY <1>0, <3>1
    <3>3. Done = Len(Plan)
      BY <2>3, <3>1, <3>2, PlayOf, RepeatedFiles
    <3> QED
      BY <1>f, <1>q, <2>1, <2>2, <2>3, <3>3 DEF Client!Next, Client!Finish
  <2>4. CASE Phase # "playing"
    <3>1. Phase = "stopping"
      BY <1>f, <2>4, PhaseOf DEF Idle
    <3> QED
      BY <1>f, <1>g, <2>1, <2>2, <3>1 DEF Client!Next, Client!Stopped, Client!Rest
  <2> QED
    BY <2>3, <2>4
<1>2. CASE Played(r)
  <2>1. /\ pc[r] = "played" /\ UNCHANGED <<alive, halted, plays, sent, running, host>>
    BY <1>2 DEF Played
  <2>2. CASE loc[r].mode = "complex" /\ ~stopFlag
    <3>1. pc' = [pc EXCEPT ![r] = "sleep"] /\ loc' = loc
      BY <1>2, <2>2 DEF Played
    <3> QED
      BY <1>u, <2>1, <3>1 DEF Between
  <2>3. CASE ~(loc[r].mode = "complex" /\ ~stopFlag)
    <3>1. /\ pc'[r] = "idle" /\ outcome' = [outcome EXCEPT ![r] = "returned"]
          /\ loc[r].mode = "debug" \/ stopFlag
      BY <1>0, <1>2, <2>3 DEF Played, Return
    <3>2. Phase = "playing" => PlaysDue(r) = Wanted(r)
      <4> SUFFICES ASSUME Phase = "playing" PROVE PlaysDue(r) = 1 /\ Wanted(r) = 1
        OBVIOUS
      <4>1. loc[r].mode = "debug" /\ loc[r].round = 1 /\ loc[r].task = 1
        BY <1>i, <3>1 DEF OnTrack
      <4>2. (1 - 1) * Len(Tasks) = 0
        BY EmptySeq, ConstantsAssumption
      <4> QED
        BY <4>1, <4>2 DEF PlaysDue, Wanted
    <3> QED
      BY <1>f, <2>1, <3>1, <3>2
  <2> QED
    BY <2>2, <2>3
<1>3. CASE Wake(r)
  <2>1. /\ pc[r] = "sleep" /\ UNCHANGED <<alive, halted, plays, sent, running, host>>
    BY <1>3 DEF Wake
  <2>2. CASE pc' = [pc EXCEPT ![r] = "load"]
    <3>1. loc'[r].mode = loc[r].mode
      BY <1>0, <1>3, <2>2 DEF Wake, Return, Local
    <3> QED
      BY <1>u, <2>1, <2>2, <3>1 DEF Between
  <2>3. CASE pc' # [pc EXCEPT ![r] = "load"]
    <3>1. /\ pc'[r] = "idle" /\ outcome' = [outcome EXCEPT ![r] = "returned"]
          /\ loc[r].task = Len(Tasks)
          /\ stopFlag \/ loc[r].round = RepeatCount
      BY <1>0, <1>3, <2>3 DEF Wake, Return
    <3>2. Phase = "playing" => PlaysDue(r) = Wanted(r)
      <4> SUFFICES ASSUME Phase = "playing" PROVE PlaysDue(r) = Wanted(r)
        OBVIOUS
      <4>1. loc[r].mode # "debug" /\ loc[r].round = RepeatCount
        BY <1>i, <2>1, <3>1 DEF OnTrack
      <4>2. Len(Tasks) \in Nat /\ RepeatCount \in Nat
        BY EmptySeq, ConstantsAssumption
      <4>3. (RepeatCount - 1) * Len(Tasks) + Len(Tasks) = RepeatCount * Len(Tasks)
        <5> DEFINE l == Len(Tasks)
        <5> HIDE DEF l
        <5>1. (RepeatCount - 1) * l + l = RepeatCount * l
          BY <4>2, SMTT(60) DEF l
        <5> QED
          BY <5>1 DEF l
      <4> QED
        BY <3>1, <4>1, <4>3 DEF PlaysDue, Wanted
    <3> QED
      BY <1>f, <2>1, <3>1, <3>2
  <2> QED
    BY <2>2, <2>3
<1>4. CASE Enter(r) \/ Create(r)
  <2>1. PICK to \in {"create", "check"} :
          /\ pc' = [pc EXCEPT ![r] = to] /\ pc[r] \in {"enter", "create"}
          /\ UNCHANGED <<alive, halted, plays, running, host>>
          /\ \/ UNCHANGED <<loc, sent>>
             \/ /\ loc' = [loc EXCEPT ![r].next = 1, ![r].elapsed = 0]
                /\ sent' = [sent EXCEPT ![r] = {}]
    BY <1>4 DEF Enter, Create, BeginPlay, shared
  <2>2. sent' = sent
    <3> DEFINE none == {}
    <3>1. sent[r] = none
      BY <2>1 DEF ClientInv, SentInPlay, Playing
    <3>2. sent' = sent \/ sent' = [sent EXCEPT ![r] = none]
      BY <2>1
    <3> HIDE DEF none
    <3>3. DOMAIN sent = Replayer /\ sent = [x \in Replayer |-> sent[x]]
      BY <1>0
    <3> QED
      BY <3>1, <3>2, <3>3
  <2>3. loc'[r].mode = loc[r].mode /\ loc'[r].gone = loc[r].gone
    BY <1>0, <2>1 DEF Local
  <2> QED
    BY <1>u, <2>1, <2>2, <2>3 DEF Between
<1>5. CASE CheckGoesOn(r) \/ CheckEnds(r) \/ Submit(r) \/ Add(r) \/ Shutdown(r)
             \/ AwaitTermination(r)
  <2>1. PICK to \in Playing :
          /\ pc' = [pc EXCEPT ![r] = to] /\ pc[r] \in Playing
          /\ UNCHANGED <<alive, halted, plays, sent, running, host>>
    BY <1>5 DEF CheckGoesOn, CheckEnds, Submit, Add, Shutdown, AwaitTermination, shared, ghosts, Playing
  <2>2. loc'[r].mode = loc[r].mode /\ loc'[r].gone = loc[r].gone
    <3>1. \/ loc' = loc
          \/ loc' = [loc EXCEPT ![r].delay = TimeLeft(r), ![r].lag = 0]
          \/ loc' = [loc EXCEPT ![r].next = @ + 1, ![r].delay = 0, ![r].lag = 0]
          \/ loc' = [loc EXCEPT ![r].awaited = scheduler]
      BY <1>5 DEF CheckGoesOn, CheckEnds, Submit, Add, Shutdown, AwaitTermination
    <3> QED
      BY <1>0, <3>1 DEF Local
  <2> QED
    BY <1>u, <2>1, <2>2 DEF Playing, Between
<1>l. ASSUME LeavePlay(r), alive', Phase # "playing" \/ \A e \in Executor : running[e] # NoTask => running[e].orphan
      PROVE  Flying' = Flying
  <2>1. Carried' = Carried /\ \A e \in Executor : running'[e] # NoTask => running'[e].orphan
    BY <1>0, <1>l, CarriedLeave
  <2>2. Flying = Carried
    BY <1>l, FlyingAll
  <2> QED
    BY <1>l, <2>1, <2>2, FlyingAllNext
<1>6. CASE CheckAborts(r)
  <2>1. /\ pc[r] = "check" /\ pc'[r] = "played" /\ host' = Zero /\ LeavePlay(r)
        /\ UNCHANGED <<alive, halted>>
        /\ stopFlag \/ scheduler \in shut
    BY <1>0, <1>6 DEF CheckAborts
  <2>2. Phase # "playing"
    BY <1>i, <2>1 DEF OnTrack
  <2>3. Phase = "stopping" /\ Phase' = "stopping"
    BY <2>1, <2>2, PhaseOf, PhaseNext DEF Idle
  <2>4. Flying' = Flying
    BY <1>l, <2>1, <2>2
  <2> QED
    BY <1>g, <2>1, <2>3, <2>4 DEF Client!Next, Client!Release
<1>7. CASE Rejected(r)
  <2>1. /\ pc[r] = "submit" /\ pc'[r] = "idle" /\ LeavePlay(r)
        /\ UNCHANGED <<halted, host>>
        /\ scheduler \in shut
    BY <1>0, <1>7 DEF Rejected, Throw, Return
  <2>2. Phase # "playing"
    BY <1>i, <2>1 DEF OnTrack
  <2>3. Phase = "stopping"
    BY <2>1, <2>2, PhaseOf DEF Idle
  <2>4. CASE alive'
    <3>1. Phase' \in {"idle", "failed"}
      BY <2>1, <2>4, PhaseNext
    <3>2. Flying' = Flying
      BY <1>l, <2>1, <2>2, <2>4
    <3> QED
      BY <1>g, <2>1, <2>3, <3>1, <3>2 DEF Client!Next, Client!Stopped, Client!Rest
  <2>5. CASE ~alive'
    <3>1. Phase' = "dead"
      BY <2>5, PhaseNext
    <3>2. Flying' = {}
      BY <2>5 DEF Flying, Unserved
    <3> QED
      BY <1>g, <2>1, <2>3, <3>1, <3>2 DEF Client!Next, Client!Crash
  <2> QED
    BY <2>4, <2>5
<1>8. CASE Awaited(r)
  <2>1. /\ pc[r] = "await" /\ pc'[r] = "played" /\ Terminated(loc[r].awaited) /\ LeavePlay(r)
        /\ loc' = [loc EXCEPT ![r].awaited = NoExecutor]
        /\ plays' = [plays EXCEPT ![r] = IF sent[r] = DOMAIN File(r) THEN @ + 1 ELSE @]
        /\ UNCHANGED <<alive, halted, host>>
    BY <1>0, <1>8 DEF Awaited
  <2>2. Phase' = Phase
    BY <2>1, PhaseOf, PhaseNext DEF Phase, Idle
  <2>3. loc'[r].mode = loc[r].mode
    BY <1>0, <2>1 DEF Local
  <2>5. CASE Phase = "playing"
    <3>1. loc[r].awaited = scheduler /\ InLine(r)
      BY <2>1, <2>5, PhaseOf DEF ClientInv, TurnsInv, TurnInv, Settled, ConveyorInv, Playing
    <3>2. queue[scheduler] = << >> /\ running[scheduler] = NoTask
      BY <2>1, <3>1 DEF Terminated
    <3>3. \A e \in Executor : running[e] # NoTask => running[e].orphan
      BY <3>2 DEF ClientInv, NoStray
    <3>4. Flying' = Flying
      BY <1>l, <2>1, <3>3
    <3>5. sent[r] = DOMAIN File(r)
      BY <1>0, <1>i, <2>1, <2>5, <3>1, AllSent DEF OnTrack
    <3>6. plays'[r] = plays[r] + 1 /\ sent'[r] = {}
      BY <1>0, <2>1, <3>5 DEF LeavePlay
    <3>7. /\ Plan = Asked(loc[r].mode) /\ Done = plays[r] /\ Got = sent[r]
          /\ Reading = IF loc[r].gone THEN "gone" ELSE "whole"
      BY <2>1, <2>5, PlayOf DEF Between, Asked, Wanted
    <3>8. Plan' = Plan /\ Done' = Done + 1 /\ Got' = {} /\ Reading' = "unread"
      BY <2>1, <2>2, <2>3, <2>5, <3>6, <3>7, PlayNext DEF Between
    <3>9. Client!Current = Tasks[loc[r].task]
      BY <2>1, <2>5, CurrentFile
    <3>10. ~loc[r].gone => Got = DOMAIN Client!Current
      BY <3>5, <3>7, <3>9 DEF File
    <3> QED
      BY <2>1, <2>2, <2>5, <3>4, <3>7, <3>8, <3>10 DEF Client!Next, Client!Close
  <2>6. CASE Phase # "playing"
    <3>1. Flying' = Flying
      BY <1>l, <2>1, <2>6
    <3> QED
      BY <1>g, <2>1, <2>2, <2>6, <3>1 DEF Client!vars
  <2> QED
    BY <2>5, <2>6
<1>9. CASE Load(r)
  <2>1. PICK gone \in BOOLEAN :
          /\ pc[r] = "load" /\ pc' = [pc EXCEPT ![r] = "enter"]
          /\ loc' = [loc EXCEPT ![r].gone = gone]
          /\ UNCHANGED <<alive, halted, plays, sent, running, host>>
    BY <1>9 DEF Load, shared, ghosts
  <2>2. pc'[r] = "enter" /\ loc'[r].mode = loc[r].mode /\ loc'[r].gone = gone
    BY <1>0, <2>1 DEF Local
  <2>3. Phase' = Phase
    BY <2>1, <2>2, PhaseOf, PhaseNext DEF Phase, Idle
  <2>4. Flying' = Flying
    BY <2>1, <2>3 DEF Flying, Unserved
  <2>5. CASE Phase = "playing"
    <3>1. /\ Plan = Asked(loc[r].mode) /\ Done = plays[r] /\ Got = sent[r]
          /\ Reading = "unread"
      BY <2>1, <2>5, PlayOf DEF Between, Asked, Wanted
    <3>2. Plan' = Plan /\ Done' = Done /\ Got' = Got /\ Reading' \in {"whole", "gone"}
      BY <2>1, <2>2, <2>3, <2>5, <3>1, PlayNext DEF Between
    <3>3. Done < Len(Plan)
      BY <2>1, <2>5, CurrentFile
    <3> QED
      BY <2>1, <2>3, <2>4, <2>5, <3>1, <3>2, <3>3 DEF Client!Next, Client!Open
  <2>6. CASE Phase # "playing"
    BY <1>g, <2>1, <2>3, <2>4, <2>6 DEF Client!vars
  <2> QED
    BY <2>5, <2>6
<1>10. CASE LoadThrows(r) \/ SleepThrows(r)
  <2>1. /\ pc[r] \in {"load", "sleep"} /\ pc'[r] = "idle" /\ outcome'[r] = "threw"
        /\ UNCHANGED <<halted, running, host>>
    BY <1>0, <1>10 DEF LoadThrows, SleepThrows, Throw, Return, shared
  <2>2. Phase \in {"playing", "stopping"}
    BY <2>1, PhaseOf DEF Idle
  <2>3. CASE alive'
    <3>1. Phase' = "failed"
      BY <2>1, <2>3, PhaseNext DEF Threw
    <3>2. Flying' = Flying
      BY <1>p, <2>1, <2>3 DEF Playing
    <3>3. CASE Phase = "playing"
      <4>1. Reading = "unread"
        BY <2>1, <3>3, PlayOf DEF Between
      <4> QED
        BY <1>q, <2>1, <3>1, <3>2, <3>3, <4>1 DEF Client!Next, Client!Fail
    <3>4. CASE Phase = "stopping"
      BY <1>g, <2>1, <3>1, <3>2, <3>4 DEF Client!Next, Client!Stopped, Client!Rest
    <3> QED
      BY <2>2, <3>3, <3>4
  <2>4. CASE ~alive'
    <3>1. Phase' = "dead"
      BY <2>4, PhaseNext
    <3>2. Flying' = {}
      BY <2>4 DEF Flying, Unserved
    <3>3. CASE Phase = "playing"
      <4>1. Reading = "unread"
        BY <2>1, <3>3, PlayOf DEF Between
      <4> QED
        BY <1>q, <2>1, <3>1, <3>2, <3>3, <4>1 DEF Client!Next, Client!Fail
    <3>4. CASE Phase = "stopping"
      BY <1>g, <2>1, <3>1, <3>2, <3>4 DEF Client!Next, Client!Crash
    <3> QED
      BY <2>2, <3>3, <3>4
  <2> QED
    BY <2>3, <2>4
<1> QED
  BY <1>1, <1>2, <1>3, <1>4, <1>5, <1>6, <1>7, <1>8, <1>9, <1>10 DEF ReplayerNext

\* A step of a worker does not change whom it is working for.
LEMMA SameRequest ==
  ASSUME NEW r \in Replayer, Alone(r), Alone(r)', UNCHANGED <<pc, loc, alive, halted, plays, outcome>>
  PROVE  /\ Phase' = Phase /\ Plan' = Plan /\ Done' = Done /\ Reading' = Reading
         /\ sent'[r] = sent[r] => Got' = Got
         /\ Phase = "playing" => Got' = sent'[r]
<1>1. Phase' = Phase
  BY PhaseOf, PhaseNext DEF Phase, Idle, Threw
<1>2. CASE Phase = "playing"
  BY <1>1, <1>2, PlayOf, PlayNext DEF Asked, Wanted
<1>3. CASE Phase # "playing"
  BY <1>1, <1>3, NoPlayOf, NoPlayNext
<1> QED
  BY <1>1, <1>2, <1>3

\* A report that no play waits for any more arrives.
LEMMA UnservedSent ==
  ASSUME TypeOK, NEW r \in Replayer, Alone(r), Alone(r)', alive, NEW e \in Executor, e \in Unserved, Send(e)
  PROVE  [Client!Next]_(Client!vars)
<1> DEFINE D(x) == Tasks[running[x].task][running[x].event].data
<1>1. /\ host' = D(e) /\ running' = [running EXCEPT ![e] = NoTask]
      /\ UNCHANGED <<pc, loc, alive, plays, halted, outcome>>
      /\ running[e].orphan => sent' = sent
      /\ running \in [Executor -> Task \cup {NoTask}]
  BY DEF Send, TypeOK
<1>2. Phase' = Phase /\ Phase # "dead"
  BY <1>1, SameRequest DEF Unserved, Phase
<1>3. Plan' = Plan /\ Done' = Done /\ Reading' = Reading /\ Got' = Got
  <2>1. Phase = "playing" => sent' = sent
    BY <1>1 DEF Unserved
  <2>2. Phase # "playing" => Got' = Got
    BY <1>2, NoPlayOf, NoPlayNext
  <2> QED
    BY <1>1, <2>1, <2>2, SameRequest
<1>4. Unserved' = Unserved \ {e}
  BY <1>1, <1>2 DEF Unserved
<1>5. Flying = {D(x) : x \in Unserved}
  BY DEF Flying
<1>6. \A x \in Unserved \ {e} : running'[x] = running[x]
  BY <1>1 DEF Unserved
<1>7. Flying' = {D(x) : x \in Unserved \ {e}}
  BY <1>4, <1>6 DEF Flying
<1> HIDE DEF D
<1>8. D(e) \in Flying /\ Flying' \in {Flying, Flying \ {D(e)}}
  BY <1>5, <1>7
<1> QED
  BY <1>1, <1>2, <1>3, <1>8 DEF Client!Next, Client!Arrive, Client!play

\* A step of a worker is Deliver, Arrive or nothing.
LEMMA WorkerSeen ==
  ASSUME Serial, NEW r \in Replayer, Alone(r), Alone(r)', ClientInv, alive, NEW e \in Executor, WorkerNext(e)
  PROVE  [Client!Next]_(Client!vars)
<1>0. /\ TypeOK /\ TimeInv /\ running \in [Executor -> Task \cup {NoTask}]
      /\ queue \in [Executor -> Seq(Task)] /\ sent \in [Replayer -> SUBSET (Nat \ {0})]
  BY DEF ClientInv, TurnsInv, TypeOK
<1>1. CASE Take(e)
  <2>1. /\ UNCHANGED <<pc, loc, alive, halted, plays, outcome, sent, host, stopFlag>>
        /\ running[e] = NoTask /\ queue[e] # << >>
    BY <1>1 DEF Take, ghosts
  <2>2. Phase' = Phase
    BY <2>1, SameRequest
  <2>3. UNCHANGED Client!play
    BY <2>1, SameRequest DEF Client!play
  <2>4. running'[e] # NoTask => Phase = "playing" /\ ~running'[e].orphan
    <3> SUFFICES ASSUME running'[e] # NoTask PROVE Phase = "playing" /\ ~running'[e].orphan
      OBVIOUS
    <3>1. ~stopFlag /\ running'[e] = Head(queue[e])
      BY <1>0, <1>1 DEF Take
    <3>2. e = scheduler
      BY <2>1 DEF ClientInv, TurnsInv, TurnInv
    <3>3. ~halted[r] /\ \A s \in Stopper : Idle(s)
      BY <3>1 DEF ClientInv, HaltInv, Raised
    <3>4. pc[r] \in Playing
      <4>1. \E x \in Replayer : pc[x] \in Playing
        BY <2>1, <3>2, <3>3 DEF ClientInv, TurnsInv, TurnInv, Quiet, Stopping, Idle
      <4> QED
        BY <4>1 DEF Alone, Idle, Playing
    <3>5. InLine(r)
      BY <3>3, <3>4 DEF ClientInv, ConveyorInv
    <3>6. 1 \in 1..Len(queue[e]) /\ Head(queue[e]) = queue[e][1]
      BY <1>0, <2>1, EmptySeq
    <3>7. ~queue[e][1].orphan
      <4>1. InFlight(e) = 0 /\ Len(queue[e]) \in Nat
        BY <1>0, <2>1, LenProperties DEF InFlight
      <4>2. Held = Len(queue[e]) /\ Nth(1) = queue[e][1]
        BY <3>2, <4>1 DEF Held, Nth
      <4> QED
        BY <3>5, <3>6, <4>2 DEF InLine, Mine
    <3>8. Phase = "playing"
      BY <3>3, <3>4, PhaseOf DEF Idle, Playing
    <3> QED
      BY <3>1, <3>6, <3>7, <3>8
  <2>5. \A x \in Executor \ {e} : running'[x] = running[x]
    BY <1>0, <1>1 DEF Take
  <2>6. Unserved' = Unserved /\ e \notin Unserved
    BY <2>1, <2>2, <2>4, <2>5 DEF Unserved
  <2>7. \A x \in Unserved : running'[x] = running[x]
    BY <2>5, <2>6 DEF Unserved
  <2>8. Flying' = Flying
    BY <2>6, <2>7 DEF Flying
  <2> QED
    BY <2>1, <2>2, <2>3, <2>8 DEF Client!vars
<1>2. CASE Send(e) /\ e \in Unserved
  BY <1>0, <1>2, UnservedSent
<1>3. CASE Send(e) /\ e \notin Unserved
  <2>1. Phase = "playing" /\ running[e] # NoTask /\ ~running[e].orphan
    BY <1>3 DEF Send, Unserved
  <2>2. /\ running[e].owner = r /\ Reading = "whole"
        /\ running[e].event \in Client!Deliverable
        /\ Client!Current[running[e].event].data = Tasks[running[e].task][running[e].event].data
    BY <2>1, NextReport
  <2>3. /\ host' = Client!Current[running[e].event].data
        /\ sent'[r] = sent[r] \cup {running[e].event}
        /\ running' = [running EXCEPT ![e] = NoTask]
        /\ UNCHANGED <<pc, loc, alive, halted, plays, outcome>>
    BY <1>0, <1>3, <2>1, <2>2 DEF Send
  <2>4. Phase' = Phase
    BY <2>3, SameRequest
  <2>5. Plan' = Plan /\ Done' = Done /\ Reading' = Reading
    BY <2>3, SameRequest
  <2>6. Got' = Got \cup {running[e].event}
    BY <2>1, <2>3, PlayOf, SameRequest
  <2>7. Unserved' = Unserved /\ \A x \in Unserved : running'[x] = running[x]
    BY <1>0, <1>3, <2>3, <2>4 DEF Unserved
  <2>8. Flying' = Flying
    BY <2>7 DEF Flying
  <2> QED
    BY <2>1, <2>2, <2>3, <2>4, <2>5, <2>6, <2>8 DEF Client!Next, Client!Deliver
<1> QED
  BY <1>1, <1>2, <1>3 DEF WorkerNext

\* A step of a stop thread is Stop, Release, Crash or nothing.
LEMMA StopperSeen ==
  ASSUME Serial, NEW r \in Replayer, Alone(r), Alone(r)', ClientInv, alive, NEW s \in Stopper, StopperNext(s)
  PROVE  [Client!Next]_(Client!vars)
<1> USE DEF Goto
<1>0. /\ TypeOK /\ TimeInv /\ pc \in [Thread -> ReplayStep \cup StopStep]
      /\ halted \in [Replayer -> BOOLEAN] /\ r \in Thread /\ r # s
  BY ConstantsAssumption DEF ClientInv, TurnsInv, TypeOK, Thread
<1>g. ASSUME Phase # "playing", Phase' # "playing" PROVE UNCHANGED Client!play
  BY <1>g, NoPlayOf, NoPlayNext DEF Client!play
<1>q. ASSUME Phase' # "playing" PROVE Client!NoPlay'
  BY <1>q, NoPlayNext DEF Client!NoPlay
<1>b. ASSUME pc[s] # "idle" PROVE Phase # "playing"
  BY <1>b, PhaseOf DEF ClientInv, TurnsInv, Undisturbed, Idle
<1>f. ASSUME running' = running, Phase' = Phase, alive' = alive PROVE Flying' = Flying
  BY <1>f DEF Flying, Unserved
<1>1. CASE Stop(s)
  <2>1. /\ UNCHANGED <<running, loc, host, alive, sent, plays, outcome>>
        /\ pc'[r] = pc[r] /\ halted'[r] = (halted[r] \/ pc[r] # "idle")
    BY <1>0, <1>1 DEF Stop, Idle
  <2>2. CASE Phase = "playing"
    <3>1. Phase' = "stopping"
      BY <2>1, <2>2, PhaseOf, PhaseNext DEF Idle
    <3>2. Flying' = Carried
      <4>1. Carried' = Carried
        BY <2>1 DEF Carried
      <4> QED
        BY <2>1, <3>1, <4>1, FlyingAllNext
    <3>3. \/ Carried = Flying
          \/ /\ Reading = "whole"
             /\ \E i \in Client!Deliverable : Carried = Flying \cup {Client!Current[i].data}
      <4>1. CASE \A e \in Executor : running[e] # NoTask => running[e].orphan
        BY <4>1, FlyingAll
      <4>2. CASE \E e \in Executor : running[e] # NoTask /\ ~running[e].orphan
        <5> DEFINE D(x) == Tasks[running[x].task][running[x].event].data
        <5>1. PICK e \in Executor : running[e] # NoTask /\ ~running[e].orphan
          BY <4>2
        <5>2. /\ Reading = "whole" /\ running[e].event \in Client!Deliverable
              /\ Client!Current[running[e].event].data = D(e)
          BY <2>2, <5>1, NextReport
        <5>3. \A x \in Executor : running[x] # NoTask /\ ~running[x].orphan => x = e
          BY <5>1 DEF ClientInv, NoStray
        <5>4. {x \in Executor : running[x] # NoTask} = Unserved \cup {e}
          BY <2>2, <5>1, <5>3 DEF Unserved
        <5>5. Carried = {D(x) : x \in Unserved \cup {e}} /\ Flying = {D(x) : x \in Unserved}
          BY <5>4 DEF Carried, Flying
        <5> HIDE DEF D
        <5>6. Carried = Flying \cup {D(e)}
          BY <5>5
        <5> QED
          BY <5>2, <5>6
      <4> QED
        BY <4>1, <4>2
    <3> QED
      BY <1>q, <2>1, <2>2, <3>1, <3>2, <3>3 DEF Client!Next, Client!Stop
  <2>3. CASE Phase # "playing"
    <3>1. Phase' = Phase
      BY <1>0, <2>1, <2>3, PhaseOf, PhaseNext DEF Phase, Idle, Threw
    <3> QED
      BY <1>f, <1>g, <2>1, <2>3, <3>1 DEF Client!vars
  <2> QED
    BY <2>2, <2>3
<1>2. CASE StopIterator(s) \/ StopCancels(s) \/ StopShutsDown(s)
  <2>1. /\ UNCHANGED <<running, loc, host, alive, sent, plays, halted, outcome>>
        /\ pc'[r] = pc[r]
    BY <1>0, <1>2 DEF StopIterator, StopCancels, StopShutsDown, shared, ghosts
  <2> QED
    BY <2>1, Unseen
<1>3. CASE StopThrows(s)
  <2>1. pc[s] # "idle" /\ ~alive' /\ host' = host
    BY <1>3 DEF StopThrows
  <2>2. Phase \in {"stopping", "idle", "failed"} /\ Phase' = "dead"
    BY <1>b, <2>1, PhaseOf, PhaseNext
  <2>3. Flying' = {}
    BY <2>1 DEF Flying, Unserved
  <2> QED
    BY <1>g, <2>1, <2>2, <2>3 DEF Client!Next, Client!Crash, Client!Rest
<1>4. CASE StopSignals(s)
  <2>1. /\ pc[s] # "idle" /\ host' = Zero /\ UNCHANGED <<running, alive, halted, outcome>>
        /\ pc'[r] = pc[r]
    BY <1>0, <1>4 DEF StopSignals, shared, ghosts
  <2>2. Phase \in {"stopping", "idle", "failed"} /\ Phase' = Phase
    BY <1>b, <2>1, PhaseOf, PhaseNext DEF Phase, Idle, Threw
  <2> QED
    BY <1>f, <1>g, <2>1, <2>2 DEF Client!Next, Client!Release, Client!Rest
<1> QED
  BY <1>1, <1>2, <1>3, <1>4 DEF StopperNext

\* Around a step there is a replay thread beside which all others are idle.
LEMMA SomeAlone ==
  ASSUME Replayer # {}, Serial, ClientInv, OneBusy', [Next]_vars
  PROVE  \E r \in Replayer : /\ Alone(r) /\ Alone(r)'
                             /\ \A x \in Replayer : alive /\ ReplayerNext(x) => x = r
<1>0. /\ pc \in [Thread -> ReplayStep \cup StopStep]
      /\ \A x, y \in Replayer : pc[x] # "idle" /\ pc[y] # "idle" => x = y
      /\ \A x, y \in Replayer : pc'[x] # "idle" /\ pc'[y] # "idle" => x = y
  BY DEF ClientInv, TurnsInv, TypeOK, OneBusy, Idle
<1>1. ASSUME NEW r \in Replayer, ReplayerNext(r)
      PROVE  Alone(r) /\ Alone(r)'
  <2>1. \E to : pc' = [pc EXCEPT ![r] = to]
    BY <1>1
    DEF ReplayerNext, Start, Load, LoadThrows, SleepThrows, Throw, Played, Return, Wake, Enter, Create, CheckGoesOn, CheckAborts,
        CheckEnds, Submit, Rejected, Add, Shutdown, AwaitTermination, Awaited, Goto
  <2>2. Alone(r)
    <3>1. CASE Start(r)
      BY <3>1 DEF Start, Alone, Thread
    <3>2. CASE ~Start(r)
      <4>1. pc[r] # "idle"
        BY <1>1, <3>2
        DEF ReplayerNext, Load, LoadThrows, SleepThrows, Played, Wake, Enter, Create, CheckGoesOn, CheckAborts,
            CheckEnds, Submit, Rejected, Add, Shutdown, AwaitTermination, Awaited, Goto
      <4> QED
        BY <1>0, <4>1 DEF Alone, Idle
    <3> QED
      BY <3>1, <3>2
  <2> QED
    BY <1>0, <2>1, <2>2 DEF Alone, Idle, Thread
<1>2. CASE \E r \in Replayer : alive /\ ReplayerNext(r)
  <2>1. PICK r \in Replayer : alive /\ ReplayerNext(r)
    BY <1>2
  <2>2. \A x \in Replayer : ReplayerNext(x) => x = r
    <3> SUFFICES ASSUME NEW x \in Replayer, ReplayerNext(x), x # r PROVE FALSE
      OBVIOUS
    <3>1. Idle(r) /\ Idle(x) /\ pc'[r] = "idle" /\ pc'[x] = "idle"
      BY <1>1, <2>1 DEF Alone, Idle
    <3>2. Start(r)
      BY <2>1, <3>1
      DEF ReplayerNext, Load, LoadThrows, SleepThrows, Played, Wake, Enter, Create, CheckGoesOn, CheckAborts,
          CheckEnds, Submit, Rejected, Add, Shutdown, AwaitTermination, Awaited, Goto, Idle
    <3> QED
      BY <1>0, <3>1, <3>2 DEF Start, Goto, Thread
  <2> QED
    BY <1>1, <2>1, <2>2
<1>3. CASE ~(\E r \in Replayer : alive /\ ReplayerNext(r)) /\ Relaunch
  <2>1. \A x \in Replayer : pc'[x] = "idle"
    BY <1>3 DEF Relaunch, On, Thread
  <2>2. \E r \in Replayer : Alone(r)
    BY <1>0 DEF Alone, Idle
  <2> QED
    BY <1>3, <2>1, <2>2 DEF Alone, Idle
<1>4. CASE ~(\E r \in Replayer : alive /\ ReplayerNext(r)) /\ ~Relaunch
  <2>1. \A x \in Replayer : pc'[x] = pc[x]
    <3>1. CASE \E e \in Executor : WorkerNext(e)
      BY <3>1 DEF WorkerNext, Take, Send
    <3>2. CASE \E s \in Stopper : StopperNext(s)
      <4>1. PICK s \in Stopper : StopperNext(s)
        BY <3>2
      <4>2. \E to : pc' = [pc EXCEPT ![s] = to]
        BY <4>1
        DEF StopperNext, Stop, StopIterator, StopCancels, StopThrows, StopShutsDown,
            StopSignals, Goto
      <4> QED
        BY <1>0, <4>2, ConstantsAssumption DEF Thread
    <3>3. CASE Tick
      BY <3>3 DEF Tick
    <3>4. CASE UNCHANGED vars
      BY <3>4 DEF vars
    <3> QED
      BY <1>4, <3>1, <3>2, <3>3, <3>4 DEF Next, Step
  <2>2. \E r \in Replayer : Alone(r)
    BY <1>0 DEF Alone, Idle
  <2> QED
    BY <1>4, <2>1, <2>2 DEF Alone, Idle
<1> QED
  BY <1>2, <1>3, <1>4

\* Every step of the executors and of the threads is one that a client is told of, or none.
LEMMA ClientStep ==
  ASSUME Serial, Replayer # {}, ClientInv, OneBusy', [Next]_vars
  PROVE  [Client!Next]_(Client!vars)
<1>0. PICK r \in Replayer : /\ Alone(r) /\ Alone(r)'
                           /\ \A x \in Replayer : alive /\ ReplayerNext(x) => x = r
  BY SomeAlone
<1>1. CASE alive /\ \E x \in Replayer : ReplayerNext(x)
  BY <1>0, <1>1, ReplayerSeen
<1>2. CASE alive /\ \E e \in Executor : WorkerNext(e)
  BY <1>0, <1>2, WorkerSeen
<1>3. CASE alive /\ \E s \in Stopper : StopperNext(s)
  BY <1>0, <1>3, StopperSeen
<1>4. CASE alive /\ Tick
  <2>1. UNCHANGED <<alive, halted, plays, outcome, sent, running, host, pc>>
    BY <1>4 DEF Tick, ghosts
  <2>2. loc'[r].mode = loc[r].mode /\ loc'[r].gone = loc[r].gone
    BY <1>0, <1>4 DEF Tick, ClientInv, TurnsInv, TypeOK, Local
  <2> QED
    BY <1>0, <2>1, <2>2, Unseen
<1>5. CASE Relaunch
  <2>1. /\ ~alive /\ alive' /\ pc'[r] = "idle" /\ host' = Zero
        /\ \A e \in Executor : running'[e] = NoTask
    BY <1>0, <1>5 DEF Relaunch, On, Thread
  <2>2. Phase = "dead" /\ Phase' = "idle"
    <3>1. ~Threw'
      BY <1>5 DEF Relaunch, On, Threw
    <3> QED
      BY <1>0, <2>1, <3>1, PhaseOf, PhaseNext
  <2>3. UNCHANGED Client!play
    BY <2>2, NoPlayOf, NoPlayNext DEF Client!play
  <2>4. Flying = {} /\ Flying' = {}
    BY <2>1 DEF Flying, Unserved
  <2> QED
    BY <2>1, <2>2, <2>3, <2>4 DEF Client!Next, Client!Relaunch
<1>6. CASE UNCHANGED vars
  <2>1. UNCHANGED <<alive, halted, plays, outcome, sent, running, host, pc, loc>>
    BY <1>6 DEF vars, shared, ghosts
  <2> QED
    BY <1>0, <2>1, Unseen
<1> QED
  BY <1>1, <1>2, <1>3, <1>4, <1>5, <1>6 DEF Next, Step

\* A client that asks for one replay at a time sees what Playback promises, however the
\* worker, the delays, a stop, files that cannot be read and the end of the process fall:
\* every repetition of every file whole, every report of it once, none overtaken by one
\* recorded Jitter or more after it, for task lists, files and delays of any kind.  A call
\* that nobody stops returns normally only when all of that is played.
THEOREM ClientIsServed ==
  ASSUME Serial, Replayer # {}
  PROVE  Spec => PlaysBack
<1>1. Init => ClientInv /\ Client!Init
  <2> SUFFICES ASSUME Init PROVE ClientInv /\ Client!Init
    OBVIOUS
  <2>1. /\ \A e \in Executor : queue[e] = << >> /\ running[e] = NoTask
        /\ \A p \in Thread : pc[p] = "idle"
        /\ \A x \in Replayer : sent[x] = {}
        /\ alive /\ host = Zero /\ ~Threw
    BY DEF Init, On, Thread, Threw
  <2>2. ClientInv
    BY <2>1, InitType, TurnInit, HaltInit
    DEF ClientInv, TurnsInv, TimeInv, Undisturbed, NoStray, ConveyorInv, Raised, SentInPlay,
        PlaysInv, Untroubled, Idle, Thread, Playing
  <2>3. Phase = "idle"
    <3>1. Busy = {}
      BY <2>1 DEF Busy, Idle, Thread
    <3> QED
      BY <2>1, <3>1 DEF Phase
  <2>4. Flying = {}
    BY <2>1 DEF Flying, Unserved
  <2> QED
    BY <2>1, <2>2, <2>3, <2>4, NoPlayOf DEF Client!Init, Client!NoPlay
<1>2. ClientInv /\ [Next]_vars => ClientInv'
  BY StepType, TimeStep, OneBusyStep, TurnStep, UndisturbedStep, NoStrayStep, ConveyorStep,
     HaltStep, RaisedStep, SentStep, PlaysStep, UntroubledStep
  DEF ClientInv, TurnsInv
<1>3. ClientInv /\ [Next]_vars => [Client!Next]_(Client!vars)
  BY OneBusyStep, ClientStep DEF ClientInv, TurnsInv
<1> QED
  BY <1>1, <1>2, <1>3, PTL DEF Spec, PlaysBack, Client!Spec
=============================================================================
