--------------------------- MODULE CaptureNotices ---------------------------
(***************************************************************************)
(* The notices a complex replay's client gets about the picture.           *)
(* InputService.cpp: StartComplexReplay turns detection and a flag on,     *)
(* publishes the writer of its stream, plays, and turns both off.          *)
(* CaptureThread.cpp: the frame callback looks for the player, a rune and  *)
(* an enemy in the minimap; systemNotify passes one notice per NotifyGap   *)
(* to onCaptureSystemNotify, which writes to the published writer.         *)
(*                                                                         *)
(* Each connected capture device has a callback thread of its own on the   *)
(* one CaptureThread object, and gRPC runs calls concurrently.  None of    *)
(* the fields has a lock.  A thread's step is the code between two         *)
(* accesses to them; pictures are what find_color makes of them.  Only     *)
(* frames that pass the bounds check are here (see CaptureMinimap).        *)
(***************************************************************************)
EXTENDS Integers, Sequences, FiniteSets

CONSTANTS
  Camera,            \* callback threads, one per connected device
  MaxCalls,          \* bound: calls of StartComplexReplay
  MaxTime,           \* bound: the last second
  Uptime,            \* steady_clock::now() at the start, in seconds
  NotifyGap,         \* 3000 ms (line 66)
  DetectionTimeout   \* CaptureThread.h line 95

ASSUME TimesAssumption ==
  /\ MaxCalls \in Nat /\ MaxTime \in Nat /\ Uptime \in Nat
  /\ NotifyGap \in Nat /\ DetectionTimeout \in Nat
ASSUME CameraAssumption == IsFiniteSet(Camera)

VARIABLES
  isCharacterDetectionActive, lastDetectionTime, lastNotifyTime,  \* of CaptureThread
  complexRepalyFlag, complexReplayErrorWriter,                    \* of InputService
  call,      \* where each call is
  at,        \* where each callback thread is
  notice,    \* the notice it has in hand
  clock,     \* its reading of the clock at line 63
  target,    \* the writer it read at line 576
  time,
  alive,     \* the process runs
  \* History variables, for the properties only.
  began,     \* calls begun
  startedAt, \* when each call set lastDetectionTime
  refused,   \* calls that were refused a JNIEnv
  turns,     \* no call has begun while another was on
  noticed    \* the time of the last notice that passed the throttle

detection == <<isCharacterDetectionActive, lastDetectionTime>>
service == <<complexRepalyFlag, complexReplayErrorWriter>>
camera == <<at, notice, clock, target>>
ghost == <<began, startedAt, refused, turns>>
vars == <<detection, lastNotifyTime, service, call, camera, time, alive, ghost, noticed>>
-----------------------------------------------------------------------------
Call == 1..MaxCalls
Unset == 0    \* the constructor leaves complexReplayErrorWriter as it finds it
Kind == {"player", "rune", "enemy"}

\* A notice, with the time of its frame, the calls begun by then and the one in Java then.
Notice == [kind : Kind, taken : Nat, began : 0..MaxCalls, running : 0..MaxCalls]

NoNotice == [kind |-> "rune", taken |-> 0, began |-> 0, running |-> 0]

After == [player |-> "rune", rune |-> "enemy", enemy |-> "idle"]

InProgress == {"init", "activate", "env", "flag", "writer", "java", "stop", "lower"}
Served == {"writer", "java", "stop", "lower"}     \* between lines 150 and 156
Detected == {"activate", "env", "flag", "writer", "java", "stop"}  \* between lines 127 and 155

TypeOK ==
  /\ isCharacterDetectionActive \in BOOLEAN
  /\ lastDetectionTime \in 0..time /\ lastNotifyTime \in 0..time
  /\ complexRepalyFlag \in BOOLEAN
  /\ complexReplayErrorWriter \in Call \cup {Unset}
  /\ call \in [Call -> InProgress \cup {"none", "done"}]
  /\ at \in [Camera -> {"idle", "player", "timeout", "lost", "rune", "enemy", "throttle",
                        "flag", "writer", "write", "stamp"}]
  /\ notice \in [Camera -> Notice]
  /\ clock \in [Camera -> 0..time]
  /\ target \in [Camera -> Call \cup {Unset}]
  /\ time \in Nat
  /\ alive \in BOOLEAN
  /\ began \in 0..MaxCalls
  /\ startedAt \in [Call -> 0..time]
  /\ refused \subseteq Call
  /\ turns \in BOOLEAN
  /\ noticed \in 0..time

Running(k) == call[k] \in InProgress
Gone == {Unset} \cup {k \in Call : ~Running(k)}   \* writers that are no stream's

Init ==
  /\ isCharacterDetectionActive = FALSE /\ lastDetectionTime = 0 /\ lastNotifyTime = 0
  /\ complexRepalyFlag = FALSE /\ complexReplayErrorWriter = Unset
  /\ call = [k \in Call |-> "none"]
  /\ at = [c \in Camera |-> "idle"]
  /\ notice = [c \in Camera |-> NoNotice]
  /\ clock = [c \in Camera |-> 0] /\ target = [c \in Camera |-> Unset]
  /\ time = Uptime
  /\ alive = TRUE
  /\ began = 0 /\ startedAt = [k \in Call |-> 0] /\ refused = {} /\ turns = TRUE
  /\ noticed = 0
-----------------------------------------------------------------------------
(* StartComplexReplay, on a handler thread *)

Handle(k, from, to) == call[k] = from /\ call' = [call EXCEPT ![k] = to]

\* Lines 122-126.
Begin(k) ==
  /\ k = began + 1
  /\ Handle(k, "none", "init")
  /\ began' = k
  /\ turns' = (turns /\ \A j \in Call : ~Running(j))
  /\ UNCHANGED <<detection, lastNotifyTime, service, camera, time, alive, startedAt, refused,
                 noticed>>

\* Mutant: detection is turned on first, with the time of the call before.
InitActivatesFirst(k) ==
  \/ /\ Handle(k, "init", "activate")
     /\ isCharacterDetectionActive' = TRUE
     /\ UNCHANGED <<lastDetectionTime, lastNotifyTime, service, camera, time, alive, ghost,
                    noticed>>
  \/ /\ Handle(k, "activate", "env")
     /\ lastDetectionTime' = time /\ startedAt' = [startedAt EXCEPT ![k] = time]
     /\ UNCHANGED <<isCharacterDetectionActive, lastNotifyTime, service, camera, time, alive,
                    began, refused, turns, noticed>>

\* initCaptureMinimap, called at line 127: the time (262), then the flag (263).
InitCaptureMinimap(k) ==
  \/ /\ Handle(k, "init", "activate")
     /\ lastDetectionTime' = time /\ startedAt' = [startedAt EXCEPT ![k] = time]
     /\ UNCHANGED <<isCharacterDetectionActive, lastNotifyTime, service, camera, time, alive,
                    began, refused, turns, noticed>>
  \/ /\ Handle(k, "activate", "env")
     /\ isCharacterDetectionActive' = TRUE
     /\ UNCHANGED <<lastDetectionTime, lastNotifyTime, service, camera, time, alive, ghost,
                    noticed>>

\* Lines 135-140: without an environment the call returns, and detection stays on.
GetEnv(k) ==
  /\ \/ Handle(k, "env", "flag") /\ UNCHANGED refused
     \/ Handle(k, "env", "done") /\ refused' = refused \cup {k}
  /\ UNCHANGED <<detection, lastNotifyTime, service, camera, time, alive, began, startedAt,
                 turns, noticed>>

\* Line 150.
RaiseFlag(k) ==
  /\ Handle(k, "flag", "writer")
  /\ complexRepalyFlag' = TRUE
  /\ UNCHANGED <<detection, lastNotifyTime, complexReplayErrorWriter, camera, time, alive,
                 ghost, noticed>>

\* Mutant: the writer is kept once it is set.
SetWriterOnce(k) ==
  /\ Handle(k, "writer", "java")
  /\ complexReplayErrorWriter' =
       IF complexReplayErrorWriter = Unset THEN k ELSE complexReplayErrorWriter
  /\ UNCHANGED <<detection, lastNotifyTime, complexRepalyFlag, camera, time, alive, ghost,
                 noticed>>

\* Line 151.
SetWriter(k) ==
  /\ Handle(k, "writer", "java")
  /\ complexReplayErrorWriter' = k
  /\ UNCHANGED <<detection, lastNotifyTime, complexRepalyFlag, camera, time, alive, ghost,
                 noticed>>

\* Line 153 returns.
JavaReturns(k) ==
  /\ Handle(k, "java", "stop")
  /\ UNCHANGED <<detection, lastNotifyTime, service, camera, time, alive, ghost,
                 noticed>>

\* stopMinimap, called at line 155.
StopMinimap(k) ==
  /\ Handle(k, "stop", "lower")
  /\ isCharacterDetectionActive' = FALSE
  /\ UNCHANGED <<lastDetectionTime, lastNotifyTime, service, camera, time, alive, ghost,
                 noticed>>

\* Mutant: the flag is left up at the end of a call.
LowerForgotten(k) ==
  /\ Handle(k, "lower", "done")
  /\ UNCHANGED <<detection, lastNotifyTime, service, camera, time, alive, ghost,
                 noticed>>

\* Line 156.
LowerFlag(k) ==
  /\ Handle(k, "lower", "done")
  /\ complexRepalyFlag' = FALSE
  /\ UNCHANGED <<detection, lastNotifyTime, complexReplayErrorWriter, camera, time, alive,
                 ghost, noticed>>
-----------------------------------------------------------------------------
(* captureFrame from line 213 on, and what it calls, on a callback thread *)

Watch(c, from, to) == at[c] = from /\ at' = [at EXCEPT ![c] = to]

\* What it goes on with after the test for the player needs less of the notice.
Held(n, to) ==
  CASE to = "idle" -> NoNotice
    [] to \in {"rune", "enemy"} ->
         [kind |-> n.kind, taken |-> 0, began |-> 0, running |-> n.running]
    [] OTHER -> n

\* It goes on without touching what others read.
Continue(c, from, to) ==
  /\ Watch(c, from, to)
  /\ notice' = [notice EXCEPT ![c] = Held(@, to)]
  /\ UNCHANGED <<detection, lastNotifyTime, service, call, clock, target, time, alive, ghost,
                 noticed>>

\* systemNotify up to line 63.
SystemNotify(c, from, kind) ==
  /\ Watch(c, from, "throttle")
  /\ notice' = [notice EXCEPT ![c].kind = kind]
  /\ clock' = [clock EXCEPT ![c] = time]
  /\ UNCHANGED <<detection, lastNotifyTime, service, call, target, time, alive, ghost,
                 noticed>>

InJava == {k \in Call : call[k] = "java"}

\* Line 213.
CaptureFrame(c) ==
  /\ Watch(c, "idle", "player")
  /\ \E k \in IF InJava = {} THEN {0} ELSE InJava :
       notice' = [notice EXCEPT ![c] =
                    [kind |-> "player", taken |-> time, began |-> began, running |-> k]]
  /\ UNCHANGED <<detection, lastNotifyTime, service, call, clock, target, time, alive, ghost,
                 noticed>>

\* Lines 215-222: the player is looked for, and found or not.
LookForPlayer(c) ==
  \/ isCharacterDetectionActive /\ Continue(c, "player", "timeout")
  \/ Continue(c, "player", "rune")

\* Lines 215-218: unlike the searches below, this one is not kept from a minimap without
\* pixels, of which find_color may make an exception.  Until the first calibration the
\* minimap is one; the picture is not part of this module.
FindColorThrows(c) ==
  /\ at[c] = "player" /\ isCharacterDetectionActive
  /\ alive' = FALSE
  /\ UNCHANGED <<detection, lastNotifyTime, service, call, camera, time, ghost, noticed>>

Overdue(c) == notice[c].taken - lastDetectionTime > DetectionTimeout

\* Line 223.
PlayerLost(c) == Continue(c, "timeout", IF Overdue(c) THEN "lost" ELSE "rune")

\* Line 224.
PlayerNotice(c) == SystemNotify(c, "lost", "player")

\* Lines 229-236.
LookForRune(c) == SystemNotify(c, "rune", "rune") \/ Continue(c, "rune", "enemy")

\* Lines 238-246; what follows does not concern the notices.
LookForEnemy(c) == SystemNotify(c, "enemy", "enemy") \/ Continue(c, "enemy", "idle")

TooSoon(c) == clock[c] - lastNotifyTime < NotifyGap

\* Lines 64-68.
Throttle(c) ==
  /\ Watch(c, "throttle", IF TooSoon(c) THEN After[notice[c].kind] ELSE "flag")
  /\ notice' = [notice EXCEPT ![c] = Held(@, at'[c])]
  /\ clock' = [clock EXCEPT ![c] = IF TooSoon(c) THEN 0 ELSE @]
  /\ noticed' = IF TooSoon(c) THEN noticed ELSE clock[c]
  /\ UNCHANGED <<detection, lastNotifyTime, service, call, target, time, alive, ghost>>

\* onCaptureSystemNotify, line 576: the flag.
ReadFlag(c) == Continue(c, "flag", IF complexRepalyFlag THEN "writer" ELSE "stamp")

\* Lines 576 and 579: the writer.  Before any call has set it, it may be null or not.
ReadWriter(c) ==
  \/ complexReplayErrorWriter = Unset /\ Continue(c, "writer", "stamp")
  \/ /\ Watch(c, "writer", "write")
     /\ target' = [target EXCEPT ![c] = complexReplayErrorWriter]
     /\ UNCHANGED <<detection, lastNotifyTime, service, call, notice, clock, time, alive,
                    ghost, noticed>>

\* Line 579.  The stream of a call that has returned is gone, and what the address holds
\* instead may end the process.
Write(c) ==
  /\ Watch(c, "write", "stamp")
  /\ alive' \in IF target[c] \in Gone THEN BOOLEAN ELSE {TRUE}
  /\ target' = [target EXCEPT ![c] = Unset]
  /\ UNCHANGED <<detection, lastNotifyTime, service, call, notice, clock, time, ghost, noticed>>

\* Mutant: the time is that of the next notice allowed.
StampNext(c) ==
  /\ Watch(c, "stamp", After[notice[c].kind])
  /\ lastNotifyTime' = clock[c] + NotifyGap
  /\ notice' = [notice EXCEPT ![c] = Held(@, at'[c])]
  /\ clock' = [clock EXCEPT ![c] = 0]
  /\ UNCHANGED <<detection, service, call, target, time, alive, ghost, noticed>>

\* Mutant: the time of the notice is not kept.
StampForgotten(c) ==
  /\ Watch(c, "stamp", After[notice[c].kind])
  /\ notice' = [notice EXCEPT ![c] = Held(@, at'[c])]
  /\ clock' = [clock EXCEPT ![c] = 0]
  /\ UNCHANGED <<detection, lastNotifyTime, service, call, target, time, alive, ghost,
                 noticed>>

\* Line 74: the time at which the notice was decided, not at which it was taken.
Stamp(c) ==
  /\ Watch(c, "stamp", After[notice[c].kind])
  /\ lastNotifyTime' = clock[c]
  /\ notice' = [notice EXCEPT ![c] = Held(@, at'[c])]
  /\ clock' = [clock EXCEPT ![c] = 0]
  /\ UNCHANGED <<detection, service, call, target, time, alive, ghost, noticed>>
-----------------------------------------------------------------------------
Tick ==
  /\ time < MaxTime
  /\ time' = time + 1
  /\ UNCHANGED <<detection, lastNotifyTime, service, call, camera, alive, ghost,
                 noticed>>

HandlerNext(k) ==
  \/ Begin(k) \/ InitCaptureMinimap(k) \/ GetEnv(k) \/ RaiseFlag(k) \/ SetWriter(k)
  \/ JavaReturns(k) \/ StopMinimap(k) \/ LowerFlag(k)
CameraNext(c) ==
  \/ CaptureFrame(c) \/ LookForPlayer(c) \/ FindColorThrows(c) \/ PlayerLost(c)
  \/ PlayerNotice(c) \/ LookForRune(c) \/ LookForEnemy(c) \/ Throttle(c)
  \/ ReadFlag(c) \/ ReadWriter(c) \/ Write(c) \/ Stamp(c)

Step == Tick \/ (\E k \in Call : HandlerNext(k)) \/ (\E c \in Camera : CameraNext(c))

Dead == ~alive /\ UNCHANGED vars

Next == (alive /\ Step) \/ Dead

Spec == Init /\ [][Next]_vars
-----------------------------------------------------------------------------
(* Properties *)

\* Clients are notified only while one of their calls is between its lines 150 and 156, and
\* detection is on only while one is between lines 127 and 155, or was refused in there:
\* however calls overlap, no flag outlives the last of them.
FlagsFollowReplay ==
  /\ complexRepalyFlag => \E k \in Call : call[k] \in Served
  /\ isCharacterDetectionActive => refused # {} \/ \E k \in Call : call[k] \in Detected

\* While calls take turns, the one that plays has everything a notice needs: detection is
\* on, the flag is up and the writer is its own (lines 127, 150-153, 155-156).
ServedWhilePlaying ==
  turns => \A k \in InJava : isCharacterDetectionActive /\ complexRepalyFlag
                               /\ complexReplayErrorWriter = k

\* While calls take turns, what is seen while a call plays is not written to the stream of
\* an earlier one, which is gone, whatever the callback was doing when the calls changed
\* (lines 576-579).
NotEarlierClient ==
  turns => \A c \in Camera : at[c] = "write" => notice[c].running <= target[c]

\* While calls take turns and none is refused an environment, a notice that the player is
\* lost comes of a frame taken more than DetectionTimeout after the latest call begun by
\* then had started detection (lines 215-224 and 262-263).  The client it is written to may
\* be that of a later call, which began while the notice was on its way.
PlayerNoticeTimely ==
  turns /\ refused = {} =>
    \A c \in Camera :
      at[c] = "write" /\ notice[c].kind = "player" =>
        /\ notice[c].began # 0
        /\ notice[c].taken - startedAt[notice[c].began] > DetectionTimeout

\* With one capture device, notices are NotifyGap apart, whatever their kinds and however
\* slow a client is to take one (lines 63-74).
NoticesApart ==
  [][Cardinality(Camera) <= 1 /\ noticed' # noticed => noticed' - noticed >= NotifyGap]_vars
=============================================================================
