------------------------ MODULE CaptureNotices_proofs ------------------------
(***************************************************************************)
(* Theorems about CaptureNotices, for any number of capture devices, any   *)
(* number of complex replays and any of the two times.                     *)
(***************************************************************************)
EXTENDS CaptureNotices, FiniteSetTheorems, TLAPS

USE TimesAssumption DEF TimesAssumption, detection, service, camera, ghost

-----------------------------------------------------------------------------
(* Types *)

\* The initial state is well typed.
LEMMA InitType == Init => TypeOK
<1> SUFFICES ASSUME Init PROVE TypeOK
  OBVIOUS
<1>1. NoNotice \in Notice
  BY DEF NoNotice, Notice, Kind
<1>2. /\ notice \in [Camera -> Notice] /\ clock \in [Camera -> 0..time]
      /\ target \in [Camera -> Call \cup {Unset}]
  BY <1>1 DEF Init
<1>3. call \in [Call -> InProgress \cup {"none", "done"}] /\ startedAt \in [Call -> 0..time]
  BY DEF Init
<1>4. at \in [Camera -> {"idle"}]
  BY DEF Init
<1>5. lastDetectionTime \in 0..time /\ lastNotifyTime \in 0..time /\ noticed \in 0..time
  BY DEF Init
<1>6. /\ isCharacterDetectionActive \in BOOLEAN /\ complexRepalyFlag \in BOOLEAN
      /\ alive \in BOOLEAN /\ turns \in BOOLEAN
  BY Zenon DEF Init
<1>7. /\ complexReplayErrorWriter \in Call \cup {Unset} /\ time \in Nat
      /\ began \in 0..MaxCalls /\ refused \subseteq Call
  BY DEF Init
<1> QED
  BY <1>2, <1>3, <1>4, <1>5, <1>6, <1>7 DEF TypeOK

\* What is kept of a notice is a notice.
LEMMA HeldType == \A n \in Notice : \A to : Held(n, to) \in Notice
<1> TAKE n \in Notice
<1> TAKE to
<1>1. NoNotice \in Notice
  BY DEF NoNotice, Notice, Kind
<1>2. [kind |-> n.kind, taken |-> 0, began |-> 0, running |-> n.running] \in Notice
  BY DEF Notice
<1> QED
  BY <1>1, <1>2 DEF Held

\* Where the callback thread goes after a notice.
LEMMA AfterType == \A kind \in Kind : After[kind] \in {"rune", "enemy", "idle"}
  BY DEF After, Kind

\* A step of a handler keeps the types.
LEMMA HandlerType ==
  ASSUME TypeOK, NEW k \in Call, HandlerNext(k)
  PROVE  TypeOK'
<1> USE DEF Handle, InProgress, Call, Unset
<1>1. CASE Begin(k)
  <2>1. turns' \in BOOLEAN
    BY <1>1 DEF Begin
  <2>2. began' \in 0..MaxCalls
    BY <1>1 DEF Begin
  <2>3. call' \in [Call -> InProgress \cup {"none", "done"}]
    BY <1>1 DEF Begin, TypeOK
  <2> QED
    BY <1>1, <2>1, <2>2, <2>3 DEF Begin, TypeOK
<1>2. CASE InitCaptureMinimap(k)
  <2>1. call' \in [Call -> InProgress \cup {"none", "done"}]
    BY <1>2 DEF InitCaptureMinimap, TypeOK
  <2>a. time \in 0..time /\ lastDetectionTime \in 0..time /\ startedAt \in [Call -> 0..time]
    BY DEF TypeOK
  <2>b. lastDetectionTime' \in {lastDetectionTime, time}
        /\ startedAt' \in {startedAt, [startedAt EXCEPT ![k] = time]}
    BY <1>2 DEF InitCaptureMinimap
  <2>2. startedAt' \in [Call -> 0..time] /\ lastDetectionTime' \in 0..time
    BY <2>a, <2>b
  <2>3. isCharacterDetectionActive' \in BOOLEAN
    BY <1>2 DEF InitCaptureMinimap, TypeOK
  <2>4. UNCHANGED <<lastNotifyTime, service, camera, time, alive, began, refused, turns, noticed>>
    BY <1>2 DEF InitCaptureMinimap
  <2> QED
    BY <2>1, <2>2, <2>3, <2>4 DEF TypeOK, Notice
<1>3. CASE GetEnv(k)
  BY <1>3 DEF GetEnv, TypeOK
<1>4. CASE RaiseFlag(k) \/ LowerFlag(k)
  BY <1>4 DEF RaiseFlag, LowerFlag, TypeOK
<1>5. CASE SetWriter(k)
  BY <1>5 DEF SetWriter, TypeOK
<1>6. CASE JavaReturns(k) \/ StopMinimap(k)
  BY <1>6 DEF JavaReturns, StopMinimap, TypeOK
<1> QED
  BY <1>1, <1>2, <1>3, <1>4, <1>5, <1>6 DEF HandlerNext

\* A step of a callback thread keeps the types.
LEMMA CameraType ==
  ASSUME TypeOK, NEW c \in Camera, CameraNext(c)
  PROVE  TypeOK'
<1> USE DEF Watch
<1>a. notice[c] \in Notice /\ notice[c].kind \in Kind /\ clock[c] \in 0..time
  BY DEF TypeOK, Notice
<1>b. ASSUME NEW from, NEW to \in {"idle", "player", "timeout", "lost", "rune", "enemy", "flag",
                                   "writer", "stamp"},
             Continue(c, from, to)
      PROVE  TypeOK'
  BY <1>a, <1>b, HeldType DEF Continue, TypeOK
<1>c. ASSUME NEW from, NEW kind \in Kind, SystemNotify(c, from, kind)
      PROVE  TypeOK'
  <2>1. [notice[c] EXCEPT !.kind = kind] \in Notice
    BY <1>a DEF Notice
  <2>2. notice' = [notice EXCEPT ![c] = [notice[c] EXCEPT !.kind = kind]]
    BY <1>c DEF SystemNotify, TypeOK, Notice
  <2> QED
    BY <1>c, <2>1, <2>2 DEF SystemNotify, TypeOK
<1>1. CASE CaptureFrame(c)
  <2>1. PICK k \in IF InJava = {} THEN {0} ELSE InJava :
          notice' = [notice EXCEPT ![c] =
                       [kind |-> "player", taken |-> time, began |-> began, running |-> k]]
    BY <1>1 DEF CaptureFrame
  <2>2. k \in 0..MaxCalls
    BY <2>1 DEF InJava, Call
  <2>3. [kind |-> "player", taken |-> time, began |-> began, running |-> k] \in Notice
    BY <2>2 DEF Notice, Kind, TypeOK
  <2> QED
    BY <1>1, <2>1, <2>3 DEF CaptureFrame, TypeOK
<1>2. CASE LookForPlayer(c) \/ PlayerLost(c) \/ ReadFlag(c)
  BY <1>2, <1>b DEF LookForPlayer, PlayerLost, ReadFlag
<1>3. CASE PlayerNotice(c) \/ LookForRune(c) \/ LookForEnemy(c)
  BY <1>3, <1>b, <1>c DEF PlayerNotice, LookForRune, LookForEnemy, Kind
<1>4. CASE Throttle(c)
  <2>1. Held(notice[c], at'[c]) \in Notice
    BY <1>a, HeldType
  <2>2. After[notice[c].kind] \in {"rune", "enemy", "idle"}
    BY <1>a, AfterType
  <2> QED
    BY <1>4, <1>a, <2>1, <2>2 DEF Throttle, TypeOK
<1>5. CASE ReadWriter(c)
  <2>1. CASE Continue(c, "writer", "stamp")
    BY <2>1, <1>b
  <2>2. CASE ~Continue(c, "writer", "stamp")
    BY <1>5, <2>2 DEF ReadWriter, TypeOK
  <2> QED
    BY <2>1, <2>2
<1>6. CASE Write(c)
  BY <1>6 DEF Write, TypeOK
<1>7. CASE Stamp(c)
  <2>1. Held(notice[c], at'[c]) \in Notice
    BY <1>a, HeldType
  <2>2. After[notice[c].kind] \in {"rune", "enemy", "idle"}
    BY <1>a, AfterType
  <2> QED
    BY <1>7, <1>a, <2>1, <2>2 DEF Stamp, TypeOK
<1>8. CASE FindColorThrows(c)
  BY <1>8 DEF FindColorThrows, TypeOK
<1> QED
  BY <1>1, <1>2, <1>3, <1>4, <1>5, <1>6, <1>7, <1>8 DEF CameraNext

\* TypeOK is inductive.
LEMMA TypeStep == TypeOK /\ [Next]_vars => TypeOK'
<1> SUFFICES ASSUME TypeOK, [Next]_vars PROVE TypeOK'
  OBVIOUS
<1>1. CASE UNCHANGED vars
  BY <1>1 DEF vars, TypeOK
<1>2. CASE Tick
  BY <1>2 DEF Tick, TypeOK
<1> QED
  BY <1>1, <1>2, HandlerType, CameraType DEF Next, Step, Dead

\* Every variable keeps its type; no time is one to come.
THEOREM TypeCorrect == Spec => []TypeOK
  BY InitType, TypeStep, PTL DEF Spec

-----------------------------------------------------------------------------
(* The flags *)

\* A callback thread changes neither a flag, nor the writer, nor where a call is.
LEMMA CameraLeaves ==
  ASSUME NEW c \in Camera, CameraNext(c)
  PROVE  UNCHANGED <<detection, service, call, time, ghost>>
<1>1. CASE CaptureFrame(c) \/ LookForPlayer(c) \/ PlayerLost(c) \/ PlayerNotice(c)
  BY <1>1 DEF CaptureFrame, LookForPlayer, PlayerLost, PlayerNotice, Continue, SystemNotify
<1>2. CASE LookForRune(c) \/ LookForEnemy(c) \/ ReadFlag(c) \/ ReadWriter(c)
  BY <1>2 DEF LookForRune, LookForEnemy, ReadFlag, ReadWriter, Continue, SystemNotify
<1>3. CASE Throttle(c) \/ Write(c) \/ Stamp(c) \/ FindColorThrows(c)
  BY <1>3 DEF Throttle, Write, Stamp, FindColorThrows
<1> QED
  BY <1>1, <1>2, <1>3 DEF CameraNext

\* A flag that is up belongs to a call that will take it down.
THEOREM Flags == Spec => []FlagsFollowReplay
<1>1. Init => FlagsFollowReplay
  BY DEF Init, FlagsFollowReplay
<1>2. TypeOK /\ FlagsFollowReplay /\ [Next]_vars => FlagsFollowReplay'
  <2> SUFFICES ASSUME TypeOK, FlagsFollowReplay, [Next]_vars PROVE FlagsFollowReplay'
    OBVIOUS
  <2>1. CASE UNCHANGED <<detection, service, call, ghost>>
    BY <2>1 DEF FlagsFollowReplay, Served, Detected
  <2>2. ASSUME NEW k \in Call, HandlerNext(k) PROVE FlagsFollowReplay'
    <3> USE DEF Handle, Served, Detected, FlagsFollowReplay, TypeOK
    <3>1. CASE Begin(k)
      BY <2>2, <3>1 DEF Begin
    <3>2. CASE InitCaptureMinimap(k)
      BY <2>2, <3>2 DEF InitCaptureMinimap
    <3>3. CASE GetEnv(k)
      BY <2>2, <3>3 DEF GetEnv
    <3>4. CASE RaiseFlag(k) \/ SetWriter(k) \/ JavaReturns(k)
      BY <2>2, <3>4 DEF RaiseFlag, SetWriter, JavaReturns
    <3>5. CASE StopMinimap(k) \/ LowerFlag(k)
      BY <2>2, <3>5 DEF StopMinimap, LowerFlag
    <3> QED
      BY <2>2, <3>1, <3>2, <3>3, <3>4, <3>5 DEF HandlerNext
  <2> QED
    BY <2>1, <2>2, CameraLeaves DEF Next, Step, Dead, Tick, vars
<1> QED
  BY <1>1, <1>2, TypeCorrect, PTL DEF Spec

-----------------------------------------------------------------------------
(* Calls that take turns *)

\* The one call that is on is the latest; what it has set is as it set it, and the writer is
\* never that of a call to come.
Turns ==
  turns =>
    /\ \A k \in Call : Running(k) => k = began
    /\ \A k \in Call :
         /\ call[k] \in {"env", "flag", "writer", "java", "stop"} => isCharacterDetectionActive
         /\ call[k] \in Served => complexRepalyFlag
         /\ call[k] \in {"java", "stop", "lower"} => complexReplayErrorWriter = k
    /\ complexReplayErrorWriter <= began
    /\ \A k \in Call : k > began => call[k] = "none"

\* Turns is inductive.
LEMMA TurnsStep == TypeOK /\ Turns /\ [Next]_vars => Turns'
<1> SUFFICES ASSUME TypeOK, Turns, [Next]_vars PROVE Turns'
  OBVIOUS
<1>1. CASE UNCHANGED <<detection, service, call, ghost>>
  BY <1>1 DEF Turns, Running, InProgress, Served
<1>2. ASSUME NEW k \in Call, HandlerNext(k) PROVE Turns'
  <2> USE DEF Handle, Served, Running, InProgress, Turns, TypeOK, Call, Unset
  <2>1. CASE Begin(k)
    <3>1. turns' => turns /\ \A j \in Call : ~Running(j)
      BY <2>1 DEF Begin
    <3>2. /\ began' = k /\ k = began + 1 /\ call' = [call EXCEPT ![k] = "init"]
          /\ UNCHANGED <<detection, service>>
      BY <2>1 DEF Begin
    <3> HAVE turns'
    <3>3. \A j \in Call : call[j] \in {"none", "done"}
      BY <3>1
    <3>4. \A j \in Call : call'[j] = IF j = k THEN "init" ELSE call[j]
      BY <3>2
    <3> QED
      BY <3>1, <3>2, <3>3, <3>4, SMTT(30)
  <2>2. CASE InitCaptureMinimap(k)
    BY <2>2 DEF InitCaptureMinimap
  <2>3. CASE GetEnv(k)
    BY <2>3 DEF GetEnv
  <2>4. CASE RaiseFlag(k)
    BY <2>4 DEF RaiseFlag
  <2>5. CASE SetWriter(k)
    BY <2>5 DEF SetWriter
  <2>6. CASE JavaReturns(k)
    BY <2>6 DEF JavaReturns
  <2>7. CASE StopMinimap(k)
    BY <2>7 DEF StopMinimap
  <2>8. CASE LowerFlag(k)
    BY <2>8 DEF LowerFlag
  <2> QED
    BY <1>2, <2>1, <2>2, <2>3, <2>4, <2>5, <2>6, <2>7, <2>8 DEF HandlerNext
<1> QED
  BY <1>1, <1>2, CameraLeaves DEF Next, Step, Dead, Tick, vars

\* Turns holds of every state.
LEMMA TakingTurns == Spec => [](TypeOK /\ Turns)
<1>1. Init => Turns
  BY DEF Init, Turns, Running, InProgress, Served, Unset, Call
<1> QED
  BY <1>1, InitType, TypeStep, TurnsStep, PTL DEF Spec

\* While calls take turns, the one that plays has all that a notice needs.
THEOREM Serves == Spec => []ServedWhilePlaying
<1>1. TypeOK /\ Turns => ServedWhilePlaying
  BY DEF TypeOK, Turns, ServedWhilePlaying, InJava, Served
<1> QED
  BY <1>1, TakingTurns, PTL

-----------------------------------------------------------------------------
(* The writer of a notice *)

\* What a callback thread's step does to another's locals: nothing.
LEMMA OtherCameras ==
  ASSUME TypeOK, NEW c \in Camera, CameraNext(c), NEW d \in Camera \ {c}
  PROVE  at'[d] = at[d] /\ notice'[d] = notice[d] /\ clock'[d] = clock[d] /\ target'[d] = target[d]
<1> USE DEF TypeOK, Watch
<1>1. CASE CaptureFrame(c) \/ LookForPlayer(c) \/ PlayerLost(c) \/ PlayerNotice(c)
  BY <1>1 DEF CaptureFrame, LookForPlayer, PlayerLost, PlayerNotice, Continue, SystemNotify
<1>2. CASE LookForRune(c) \/ LookForEnemy(c) \/ ReadFlag(c) \/ ReadWriter(c)
  BY <1>2 DEF LookForRune, LookForEnemy, ReadFlag, ReadWriter, Continue, SystemNotify
<1>3. CASE Throttle(c) \/ Write(c) \/ Stamp(c) \/ FindColorThrows(c)
  BY <1>3 DEF Throttle, Write, Stamp, FindColorThrows
<1> QED
  BY <1>1, <1>2, <1>3 DEF CameraNext

\* A handler leaves the locals of the callback threads.
LEMMA HandlerLeaves ==
  ASSUME NEW k \in Call, HandlerNext(k)
  PROVE  UNCHANGED <<camera, lastNotifyTime, noticed, time>>
BY DEF HandlerNext, Begin, InitCaptureMinimap, GetEnv, RaiseFlag, SetWriter, JavaReturns, StopMinimap,
   LowerFlag

\* What each step of a callback thread does to its own locals.
LEMMA OwnCamera ==
  ASSUME TypeOK, NEW c \in Camera, CameraNext(c)
  PROVE  \/ /\ at[c] = "idle" /\ at'[c] = "player" /\ target' = target
            /\ notice'[c].running \in IF InJava = {} THEN {0} ELSE InJava
         \/ /\ at[c] # "idle" /\ at'[c] # "write" /\ target'[c] \in {target[c], Unset}
            /\ at'[c] = "idle" \/ notice'[c].running = notice[c].running
         \/ /\ at[c] = "writer" /\ at'[c] = "write" /\ notice' = notice
            /\ target'[c] = complexReplayErrorWriter
<1> USE DEF Watch
<1>a. notice[c] \in Notice /\ notice' \in [Camera -> Notice]
  BY CameraType DEF TypeOK
<1>b. ASSUME NEW to, to # "idle" PROVE Held(notice[c], to).running = notice[c].running
  BY <1>b DEF Held
<1>1. CASE CaptureFrame(c)
  BY <1>1 DEF CaptureFrame, TypeOK
<1>2. CASE LookForPlayer(c) \/ PlayerLost(c) \/ ReadFlag(c)
  BY <1>2, <1>b DEF LookForPlayer, PlayerLost, ReadFlag, Continue, TypeOK
<1>3. CASE PlayerNotice(c) \/ LookForRune(c) \/ LookForEnemy(c)
  <2>1. ASSUME NEW from \in {"lost", "rune", "enemy"}, NEW kind \in Kind, SystemNotify(c, from, kind)
        PROVE  /\ at[c] = from /\ at'[c] = "throttle" /\ target' = target
               /\ notice'[c].running = notice[c].running
    BY <2>1, <1>a DEF SystemNotify, TypeOK, Notice
  <2> QED
    BY <1>3, <2>1, <1>b DEF PlayerNotice, LookForRune, LookForEnemy, Continue, TypeOK, Kind
<1>4. CASE Throttle(c) \/ Stamp(c)
  <2>1. After[notice[c].kind] \in {"rune", "enemy", "idle"}
    BY <1>a, AfterType DEF Notice
  <2> QED
    BY <1>4, <1>b, <2>1 DEF Throttle, Stamp, TypeOK
<1>5. CASE ReadWriter(c)
  BY <1>5, <1>b DEF ReadWriter, Continue, TypeOK
<1>6. CASE Write(c)
  BY <1>6 DEF Write, TypeOK
<1>7. CASE FindColorThrows(c)
  BY <1>7 DEF FindColorThrows, TypeOK
<1> QED
  BY <1>1, <1>2, <1>3, <1>4, <1>5, <1>6, <1>7 DEF CameraNext

\* The writer that is published is never earlier than the call that played when a notice's
\* frame was taken, nor is the one a callback thread has read.
NotBehind ==
  turns => \A c \in Camera :
    /\ at[c] # "idle" => notice[c].running <= complexReplayErrorWriter
    /\ at[c] = "write" => notice[c].running <= target[c]

\* NotBehind is inductive.
LEMMA NotBehindStep == TypeOK /\ Turns /\ NotBehind /\ [Next]_vars => NotBehind'
<1> SUFFICES ASSUME TypeOK, Turns, NotBehind, [Next]_vars PROVE NotBehind'
  OBVIOUS
<1>1. CASE UNCHANGED <<service, camera, ghost>>
  BY <1>1 DEF NotBehind
<1>2. ASSUME NEW k \in Call, HandlerNext(k) PROVE NotBehind'
  <2>1. turns' => turns /\ complexReplayErrorWriter <= complexReplayErrorWriter'
    <3>1. CASE SetWriter(k)
      <4>1. turns' = turns /\ complexReplayErrorWriter' = k /\ Running(k)
        BY <3>1 DEF SetWriter, Handle, Running, InProgress
      <4> QED
        BY <4>1 DEF Turns
    <3>2. CASE ~SetWriter(k)
      <4>1. complexReplayErrorWriter' = complexReplayErrorWriter
        BY <1>2, <3>2 DEF HandlerNext, Begin, InitCaptureMinimap, GetEnv, RaiseFlag, JavaReturns,
           StopMinimap, LowerFlag
      <4>2. turns' => turns
        BY <1>2, <3>2 DEF HandlerNext, Begin, InitCaptureMinimap, GetEnv, RaiseFlag, JavaReturns,
           StopMinimap, LowerFlag
      <4> QED
        BY <4>1, <4>2 DEF TypeOK, Call, Unset
    <3> QED
      BY <3>1, <3>2
  <2>2. UNCHANGED camera
    BY <1>2, HandlerLeaves
  <2>3. complexReplayErrorWriter \in Nat /\ complexReplayErrorWriter' \in Nat
    BY <1>2, HandlerType, SMTT(30) DEF TypeOK, Call, Unset
  <2>4. \A c \in Camera : notice[c].running \in Nat
    BY DEF TypeOK, Notice
  <2> QED
    BY <2>1, <2>2, <2>3, <2>4 DEF NotBehind
<1>3. ASSUME NEW c \in Camera, CameraNext(c) PROVE NotBehind'
  <2>1. UNCHANGED <<service, call, turns>>
    BY <1>3, CameraLeaves
  <2>2. ASSUME turns PROVE /\ at'[c] # "idle" => notice'[c].running <= complexReplayErrorWriter
                           /\ at'[c] = "write" => notice'[c].running <= target'[c]
    <3>1. complexReplayErrorWriter \in Nat
      BY DEF TypeOK, Call, Unset
    <3>2. \A k \in InJava : complexReplayErrorWriter = k
      BY <2>2 DEF Turns, InJava
    <3> QED
      BY <1>3, <2>2, <3>1, <3>2, OwnCamera DEF NotBehind
  <2> QED
    BY <1>3, <2>1, <2>2, OtherCameras DEF NotBehind
<1> QED
  BY <1>1, <1>2, <1>3 DEF Next, Step, Dead, Tick, vars

\* While calls take turns, no notice goes to the stream of an earlier call.
THEOREM RightClient == Spec => []NotEarlierClient
<1>1. Init => NotBehind
  BY DEF Init, NotBehind
<1>2. NotBehind => NotEarlierClient
  BY DEF NotBehind, NotEarlierClient
<1> QED
  BY <1>1, <1>2, TakingTurns, NotBehindStep, PTL DEF Spec

-----------------------------------------------------------------------------
(* The throttle *)

\* With one callback thread, lastNotifyTime is the time of the last notice, but for the one
\* it is busy with.
Stamped ==
  /\ \A c \in Camera : at[c] \in {"flag", "writer", "write", "stamp"} => noticed = clock[c]
  /\ (\A c \in Camera : at[c] \notin {"flag", "writer", "write", "stamp"}) => noticed = lastNotifyTime

Alone == \A c, d \in Camera : c = d

\* At most one device is one callback thread.
LEMMA OneCamera == Cardinality(Camera) <= 1 => Alone
<1> HAVE Cardinality(Camera) <= 1
<1>1. Cardinality(Camera) \in Nat
  BY CameraAssumption, FS_CardinalityType DEF CameraAssumption
<1>2. CASE Cardinality(Camera) = 0
  <2>1. Camera = {}
    BY <1>2, CameraAssumption, FS_EmptySet DEF CameraAssumption
  <2> QED
    BY <2>1 DEF Alone
<1>3. CASE Cardinality(Camera) = 1
  <2>1. PICK c : Camera = {c}
    BY <1>3, CameraAssumption, FS_Singleton DEF CameraAssumption
  <2> QED
    BY <2>1 DEF Alone
<1> QED
  BY <1>1, <1>2, <1>3

\* A step keeps Stamped, and moves the time of the last notice by NotifyGap or more.
LEMMA StampedStep ==
  ASSUME Alone, TypeOK, Stamped, [Next]_vars
  PROVE  Stamped' /\ (noticed' # noticed => noticed' - noticed >= NotifyGap)
<1>1. CASE UNCHANGED <<camera, lastNotifyTime, noticed>>
  BY <1>1 DEF Stamped
<1>2. ASSUME NEW c \in Camera, CameraNext(c)
      PROVE  Stamped' /\ (noticed' # noticed => noticed' - noticed >= NotifyGap)
  <2> DEFINE Busy == {"flag", "writer", "write", "stamp"}
             Idle == {"idle", "player", "timeout", "lost", "rune", "enemy", "throttle"}
  <2>a. \A d \in Camera : d = c
    BY DEF Alone
  <2>b. at[c] \in Busy => noticed = clock[c]
    BY DEF Stamped
  <2>c. at[c] \notin Busy => noticed = lastNotifyTime
    BY <2>a DEF Stamped
  <2>d. After[notice[c].kind] \in {"rune", "enemy", "idle"}
    BY AfterType DEF TypeOK, Notice
  <2>e. SUFFICES /\ at'[c] \in Busy => noticed' = clock'[c]
                 /\ at'[c] \notin Busy => noticed' = lastNotifyTime'
                 /\ noticed' # noticed => noticed' - noticed >= NotifyGap
    BY <2>a DEF Stamped
  <2> USE DEF Watch, TypeOK
  <2>1. CASE UNCHANGED <<noticed, lastNotifyTime, clock>> /\ (at[c] \in Busy <=> at'[c] \in Busy)
    BY <2>1, <2>b, <2>c
  <2>2. CASE UNCHANGED <<noticed, lastNotifyTime>> /\ at[c] \in Idle /\ at'[c] \in Idle
    BY <2>2, <2>c
  <2>3. CASE CaptureFrame(c) \/ LookForPlayer(c) \/ PlayerLost(c) \/ PlayerNotice(c)
             \/ LookForRune(c) \/ LookForEnemy(c)
    BY <2>3, <2>2 DEF CaptureFrame, LookForPlayer, PlayerLost, PlayerNotice, LookForRune,
       LookForEnemy, Continue, SystemNotify
  <2>4. CASE ReadFlag(c) \/ ReadWriter(c) \/ Write(c)
    BY <2>4, <2>1 DEF ReadFlag, ReadWriter, Write, Continue
  <2>5. CASE Throttle(c)
    <3>1. CASE TooSoon(c)
      BY <2>5, <3>1, <2>2, <2>d DEF Throttle
    <3>2. CASE ~TooSoon(c)
      <4>1. /\ at[c] = "throttle" /\ at'[c] = "flag" /\ clock' = clock /\ noticed' = clock[c]
        BY <2>5, <3>2 DEF Throttle
      <4>2. noticed = lastNotifyTime
        BY <4>1, <2>c
      <4>3. clock[c] \in Nat /\ lastNotifyTime \in Nat /\ clock[c] - lastNotifyTime >= NotifyGap
        BY <3>2 DEF TooSoon
      <4> QED
        BY <4>1, <4>2, <4>3
    <3> QED
      BY <3>1, <3>2
  <2>6. CASE Stamp(c)
    BY <2>6, <2>b, <2>d DEF Stamp
  <2>7. CASE FindColorThrows(c)
    BY <2>7, <2>1 DEF FindColorThrows
  <2> QED
    BY <1>2, <2>3, <2>4, <2>5, <2>6, <2>7 DEF CameraNext
<1> QED
  BY <1>1, <1>2, HandlerLeaves DEF Next, Step, Dead, Tick, vars

\* With one capture device, notices are NotifyGap apart.
THEOREM Apart == Spec => NoticesApart
<1>1. Init => Stamped
  BY DEF Init, Stamped
<1>2. CASE Alone
  <2>1. TypeOK /\ Stamped /\ [Next]_vars => Stamped'
    BY <1>2, StampedStep
  <2>2. TypeOK /\ Stamped /\ [Next]_vars =>
          [Cardinality(Camera) <= 1 /\ noticed' # noticed => noticed' - noticed >= NotifyGap]_vars
    BY <1>2, StampedStep
  <2> QED
    BY <1>1, <2>1, <2>2, TypeCorrect, PTL DEF Spec, NoticesApart
<1>3. CASE ~Alone
  <2>1. [Next]_vars =>
          [Cardinality(Camera) <= 1 /\ noticed' # noticed => noticed' - noticed >= NotifyGap]_vars
    BY <1>3, OneCamera
  <2> QED
    BY <2>1, PTL DEF Spec, NoticesApart
<1> QED
  BY <1>2, <1>3

-----------------------------------------------------------------------------
(* The time of a player notice *)

Begun(k) == call[k] \notin {"none", "init"}   \* it has set lastDetectionTime

\* What a client will be told of a lost player is true of the latest call at the frame.
Told(c) ==
  /\ notice[c].began \in Call /\ Begun(notice[c].began)
  /\ notice[c].taken - startedAt[notice[c].began] > DetectionTimeout

Started ==
  /\ \A k \in Call : startedAt[k] <= lastDetectionTime
  /\ \A k \in Call : Running(k) /\ Begun(k) => startedAt[k] = lastDetectionTime

\* A frame in hand is older than the calls begun since.
Older(c) ==
  at[c] \in {"player", "timeout"} =>
    /\ notice[c].taken <= time /\ notice[c].began <= began
    /\ \A k \in Call : k > notice[c].began /\ Begun(k) => startedAt[k] >= notice[c].taken

\* When the callback thread compares the times, the last detection is that of a call begun
\* before the frame, or not before the frame.
Compared(c) ==
  at[c] = "timeout" =>
    \/ notice[c].taken <= lastDetectionTime
    \/ notice[c].began \in Call /\ Begun(notice[c].began)

Noticing == {"throttle", "flag", "writer", "write", "stamp"}

PlayerTold(c) ==
  at[c] = "lost" \/ (at[c] \in Noticing /\ notice[c].kind = "player") => Told(c)

Timely ==
  turns /\ refused = {} =>
    Started /\ \A c \in Camera : Older(c) /\ Compared(c) /\ PlayerTold(c)

\* A handler's step keeps Timely.
LEMMA TimelyHandler ==
  ASSUME TypeOK, Turns, Timely, NEW k \in Call, HandlerNext(k)
  PROVE  Timely'
<1> SUFFICES ASSUME turns', refused' = {}
             PROVE  Started' /\ \A c \in Camera : Older(c)' /\ Compared(c)' /\ PlayerTold(c)'
  BY DEF Timely
<1> USE DEF Handle
<1>1. turns /\ refused = {}
  <2>1. CASE Begin(k)
    BY <2>1 DEF Begin
  <2>2. CASE GetEnv(k)
    BY <2>2 DEF GetEnv
  <2>3. CASE ~Begin(k) /\ ~GetEnv(k)
    BY <2>3 DEF HandlerNext, InitCaptureMinimap, RaiseFlag, SetWriter, JavaReturns, StopMinimap, LowerFlag
  <2> QED
    BY <2>1, <2>2, <2>3
<1>2. Started /\ \A c \in Camera : Older(c) /\ Compared(c) /\ PlayerTold(c)
  BY <1>1 DEF Timely
<1>3. UNCHANGED <<camera, time>>
  BY HandlerLeaves
<1>4. CASE call[k] = "init" /\ call' = [call EXCEPT ![k] = "activate"] /\ lastDetectionTime' = time
           /\ startedAt' = [startedAt EXCEPT ![k] = time] /\ began' = began
  <2>a. lastDetectionTime \in Nat /\ time \in Nat /\ lastDetectionTime <= time
    BY DEF TypeOK
  <2>b. \A j \in Call : startedAt[j] \in Nat /\ startedAt'[j] \in Nat
    BY <1>4, <2>a DEF TypeOK
  <2>c. \A j \in Call \ {k} : startedAt'[j] = startedAt[j] /\ call'[j] = call[j] /\ ~Running(j)
    BY <1>1, <1>4 DEF TypeOK, Turns, Running, InProgress
  <2>d. startedAt'[k] = time /\ call'[k] = "activate"
    BY <1>4 DEF TypeOK
  <2>1. Started'
    BY <1>2, <1>4, <2>a, <2>b, <2>c, <2>d DEF Started, Running, InProgress, Begun
  <2>2. ASSUME NEW c \in Camera PROVE Older(c)' /\ Compared(c)' /\ PlayerTold(c)'
    <3>a. notice[c].taken \in Nat /\ notice[c].began \in Nat
      BY DEF TypeOK, Notice
    <3>1. Older(c)'
      BY <1>2, <1>3, <1>4, <2>c, <2>d, <3>a DEF Older, Begun
    <3>2. Compared(c)'
      BY <1>2, <1>3, <1>4, <2>a, <2>c, <2>d, <3>a DEF Compared, Begun
    <3>3. PlayerTold(c)'
      BY <1>2, <1>3, <1>4, <2>c, <2>d DEF PlayerTold, Told, Begun
    <3> QED
      BY <3>1, <3>2, <3>3
  <2> QED
    BY <2>1, <2>2
<1>5. CASE UNCHANGED <<lastDetectionTime, startedAt>> /\ began <= began'
           /\ \A j \in Call : Begun(j)' = Begun(j) /\ (Running(j)' /\ Begun(j) => Running(j))
  <2>1. Started'
    BY <1>2, <1>5 DEF Started
  <2>2. ASSUME NEW c \in Camera PROVE Older(c)' /\ Compared(c)' /\ PlayerTold(c)'
    <3>a. notice[c].began \in Nat /\ began \in Nat /\ began' \in Nat
      BY HandlerType DEF TypeOK, Notice
    <3>1. Older(c)'
      BY <1>2, <1>3, <1>5, <3>a DEF Older
    <3>2. Compared(c)' /\ PlayerTold(c)'
      BY <1>2, <1>3, <1>5 DEF Compared, PlayerTold, Told
    <3> QED
      BY <3>1, <3>2
  <2> QED
    BY <2>1, <2>2
<1> USE DEF Begun, Running, InProgress, TypeOK
<1>6. CASE Begin(k)
  BY <1>5, <1>6 DEF Begin
<1>7. CASE InitCaptureMinimap(k)
  <2>1. CASE call[k] = "init"
    BY <1>4, <1>7, <2>1 DEF InitCaptureMinimap
  <2>2. CASE call[k] # "init"
    <3>1. /\ UNCHANGED <<lastDetectionTime, startedAt, began>>
          /\ call[k] = "activate" /\ call' = [call EXCEPT ![k] = "env"]
      BY <1>7, <2>2 DEF InitCaptureMinimap
    <3>2. \A j \in Call : Begun(j)' = Begun(j) /\ (Running(j)' /\ Begun(j) => Running(j))
      BY <3>1
    <3> QED
      BY <1>5, <3>1, <3>2
  <2> QED
    BY <2>1, <2>2
<1>8. CASE GetEnv(k)
  BY <1>5, <1>8 DEF GetEnv
<1>9. CASE RaiseFlag(k) \/ SetWriter(k) \/ JavaReturns(k) \/ StopMinimap(k) \/ LowerFlag(k)
  <2>1. /\ UNCHANGED <<lastDetectionTime, startedAt, began>>
        /\ call[k] \in Served \cup {"flag"} /\ call'[k] \in Served \cup {"done"}
        /\ \A j \in Call \ {k} : call'[j] = call[j]
    BY <1>9 DEF RaiseFlag, SetWriter, JavaReturns, StopMinimap, LowerFlag, Served
  <2>2. \A j \in Call : Begun(j)' = Begun(j) /\ (Running(j)' /\ Begun(j) => Running(j))
    BY <2>1 DEF Served
  <2> QED
    BY <1>5, <2>1, <2>2
<1> QED
  BY <1>6, <1>7, <1>8, <1>9 DEF HandlerNext

\* A callback thread's step keeps Timely.
LEMMA TimelyCamera ==
  ASSUME TypeOK, Turns, FlagsFollowReplay, Timely, NEW c \in Camera, CameraNext(c)
  PROVE  Timely'
<1>1. UNCHANGED <<detection, call, time, ghost>>
  BY CameraLeaves
<1> SUFFICES ASSUME turns, refused = {}
             PROVE  Started' /\ \A d \in Camera : Older(d)' /\ Compared(d)' /\ PlayerTold(d)'
  BY <1>1 DEF Timely
<1>2. Started /\ \A d \in Camera : Older(d) /\ Compared(d) /\ PlayerTold(d)
  BY DEF Timely
<1>3. Started'
  BY <1>1, <1>2 DEF Started, Running, Begun
<1>4. ASSUME NEW d \in Camera \ {c} PROVE Older(d)' /\ Compared(d)' /\ PlayerTold(d)'
  <2>1. at'[d] = at[d] /\ notice'[d] = notice[d]
    BY OtherCameras
  <2> QED
    BY <1>1, <1>2, <2>1 DEF Older, Compared, PlayerTold, Told, Begun
<1>5. Older(c)' /\ Compared(c)' /\ PlayerTold(c)'
  <2>a. notice[c] \in Notice /\ notice[c].taken \in Nat /\ notice[c].began \in Nat
        /\ notice[c].kind \in Kind
    BY DEF TypeOK, Notice
  <2>b. began \in 0..MaxCalls /\ time \in Nat /\ lastDetectionTime \in Nat
        /\ \A k \in Call : startedAt[k] \in Nat
    BY DEF TypeOK
  <2> USE DEF Watch, TypeOK, Noticing
  <2>1. CASE at'[c] \in {"idle", "rune", "enemy"}
    BY <2>1 DEF Older, Compared, PlayerTold
  <2>2. CASE at'[c] \in Noticing /\ notice'[c].kind # "player"
    BY <2>2 DEF Older, Compared, PlayerTold
  <2>3. CASE notice'[c] = notice[c] /\ at'[c] \in Noticing
             /\ (at[c] = "lost" \/ (at[c] \in Noticing /\ notice[c].kind = "player"))
    BY <1>1, <1>2, <2>3 DEF Older, Compared, PlayerTold, Told, Begun
  <2>4. CASE CaptureFrame(c)
    <3>1. /\ at'[c] = "player" /\ notice'[c].taken = time /\ notice'[c].began = began
      BY <2>4 DEF CaptureFrame
    <3>2. \A k \in Call : k > began => ~Begun(k)
      BY DEF Turns, Begun
    <3>3. Older(c)'
      BY <1>1, <2>b, <3>1, <3>2 DEF Older, Begun
    <3> QED
      BY <3>1, <3>3 DEF Compared, PlayerTold
  <2>5. CASE LookForPlayer(c)
    <3>1. CASE at'[c] = "rune"
      BY <3>1, <2>1
    <3>2. CASE at'[c] # "rune"
      <4>1. /\ isCharacterDetectionActive /\ at[c] = "player" /\ at'[c] = "timeout"
            /\ notice'[c] = notice[c]
        BY <2>5, <3>2 DEF LookForPlayer, Continue, Held
      <4>2. PICK k \in Call : call[k] \in Detected
        BY <4>1 DEF FlagsFollowReplay
      <4>3. k = began /\ Begun(k) /\ startedAt[k] = lastDetectionTime
        BY <1>2, <4>2 DEF Turns, Running, InProgress, Detected, Begun, Started
      <4>4. Older(c)'
        BY <1>1, <1>2, <4>1 DEF Older, Begun
      <4>5. Compared(c)'
        <5>1. CASE notice[c].began = k
          BY <1>1, <4>1, <4>3, <5>1 DEF Compared, Begun
        <5>2. CASE notice[c].began # k
          <6>1. k > notice[c].began
            BY <1>2, <2>a, <2>b, <4>1, <4>3, <5>2 DEF Older
          <6>2. notice[c].taken <= lastDetectionTime
            BY <1>2, <4>1, <4>3, <6>1, <2>a, <2>b DEF Older
          <6> QED
            BY <1>1, <4>1, <6>2 DEF Compared
        <5> QED
          BY <5>1, <5>2
      <4> QED
        BY <4>1, <4>4, <4>5 DEF PlayerTold
    <3> QED
      BY <3>1, <3>2
  <2>6. CASE PlayerLost(c)
    <3>1. CASE at'[c] = "rune"
      BY <3>1, <2>1
    <3>2. CASE at'[c] # "rune"
      <4>1. /\ at[c] = "timeout" /\ at'[c] = "lost" /\ Overdue(c) /\ notice'[c] = notice[c]
        BY <2>6, <3>2 DEF PlayerLost, Continue, Held
      <4>2. notice[c].taken - lastDetectionTime > DetectionTimeout
        BY <4>1 DEF Overdue
      <4>3. notice[c].began \in Call /\ Begun(notice[c].began)
        BY <1>2, <2>a, <2>b, <4>1, <4>2 DEF Compared
      <4>4. Told(c)
        BY <1>2, <2>a, <2>b, <4>2, <4>3 DEF Told, Started
      <4> QED
        BY <1>1, <4>1, <4>4 DEF Older, Compared, PlayerTold, Told, Begun
    <3> QED
      BY <3>1, <3>2
  <2>7. CASE PlayerNotice(c)
    <3>1. /\ at[c] = "lost" /\ at'[c] = "throttle"
          /\ notice'[c].taken = notice[c].taken /\ notice'[c].began = notice[c].began
      BY <2>7, <2>a DEF PlayerNotice, SystemNotify, Notice
    <3>2. Told(c)
      BY <1>2, <3>1 DEF PlayerTold
    <3> QED
      BY <1>1, <3>1, <3>2 DEF Older, Compared, PlayerTold, Told, Begun
  <2>8. CASE LookForRune(c) \/ LookForEnemy(c)
    <3>1. ASSUME NEW kind \in {"rune", "enemy"}, NEW from, SystemNotify(c, from, kind)
          PROVE  at'[c] \in Noticing /\ notice'[c].kind # "player"
      BY <3>1, <2>a DEF SystemNotify, Notice
    <3> QED
      BY <2>8, <2>1, <2>2, <3>1 DEF LookForRune, LookForEnemy, Continue
  <2>9. CASE Throttle(c) \/ Stamp(c)
    <3>1. After[notice[c].kind] \in {"rune", "enemy", "idle"}
      BY <2>a, AfterType
    <3>2. CASE at'[c] # "flag"
      BY <2>9, <3>1, <3>2, <2>1 DEF Throttle, Stamp
    <3>3. CASE at'[c] = "flag"
      <4>1. at[c] = "throttle" /\ notice'[c] = notice[c]
        BY <2>9, <3>1, <3>3 DEF Throttle, Stamp, Held
      <4> QED
        BY <3>3, <4>1, <2>2, <2>3
    <3> QED
      BY <3>2, <3>3
  <2>10. CASE ReadFlag(c) \/ ReadWriter(c) \/ Write(c)
    <3>1. at[c] \in Noticing /\ at'[c] \in Noticing /\ notice'[c] = notice[c]
      BY <2>10 DEF ReadFlag, ReadWriter, Write, Continue, Held
    <3> QED
      BY <3>1, <2>2, <2>3
  <2>11. CASE FindColorThrows(c)
    BY <1>1, <1>2, <2>11 DEF FindColorThrows, Older, Compared, PlayerTold, Told, Begun
  <2> QED
    BY <2>4, <2>5, <2>6, <2>7, <2>8, <2>9, <2>10, <2>11 DEF CameraNext
<1> QED
  BY <1>3, <1>4, <1>5

\* Timely is inductive.
LEMMA TimelyStep == TypeOK /\ Turns /\ FlagsFollowReplay /\ Timely /\ [Next]_vars => Timely'
<1> SUFFICES ASSUME TypeOK, Turns, FlagsFollowReplay, Timely, [Next]_vars PROVE Timely'
  OBVIOUS
<1> USE DEF Timely, Started, Older, Compared, PlayerTold, Told, Begun, Running
<1>1. CASE UNCHANGED vars
  BY <1>1 DEF vars
<1>2. CASE Tick
  <2>1. /\ UNCHANGED <<detection, camera, call, ghost>> /\ time' = time + 1
    BY <1>2 DEF Tick
  <2>2. time \in Nat /\ \A c \in Camera : notice[c].taken \in Nat
    BY DEF TypeOK, Notice
  <2> QED
    BY <2>1, <2>2
<1> QED
  BY <1>1, <1>2, TimelyHandler, TimelyCamera DEF Next, Step, Dead

\* While calls take turns and none is refused an environment, a notice that the player is
\* lost comes of a frame taken more than DetectionTimeout after the latest call begun by
\* then started detection.  That call's client may have left: what is bounded is the time
\* from that detection to the frame, not from the replay of the client that is told.
THEOREM PlayerTimely == Spec => []PlayerNoticeTimely
<1>1. Init => Timely
  BY DEF Init, Timely, Started, Older, Compared, PlayerTold, Told, Begun, Running, InProgress, Noticing
<1>2. TypeOK /\ Timely => PlayerNoticeTimely
  BY DEF Timely, PlayerTold, Told, Noticing, PlayerNoticeTimely, TypeOK, Call
<1> QED
  BY <1>1, <1>2, TakingTurns, Flags, TimelyStep, PTL DEF Spec
=============================================================================
