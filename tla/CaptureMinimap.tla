--------------------------- MODULE CaptureMinimap ---------------------------
(***************************************************************************)
(* Frames, the minimap cut from them and the streams that show both        *)
(* (CaptureThread.cpp, VideoService.cpp).  A callback thread stores each   *)
(* frame and cuts the minimap at the corners mm_tl and mm_br.  A           *)
(* CalculateMinimap call finds the corners, stores them one after the      *)
(* other, checks them, and then streams the minimap; a StreamVideo call    *)
(* streams the frames.  frame_mutex and minimap_frame_mutex guard the      *)
(* pictures; the corners and frame.cols have no lock.                      *)
(*                                                                         *)
(* A frame is its number; one axis of the picture stands for both, since   *)
(* the code treats them alike.  Detection and notices, which come between  *)
(* the cut and the publication, are in CaptureNotices.                     *)
(***************************************************************************)
EXTENDS Integers, FiniteSets

CONSTANTS
  Camera,      \* callback threads, one per connected device
  Calculator,  \* handler threads of CalculateMinimap
  Streamer,    \* handler threads of StreamVideo
  MaxFrames,   \* bound: frames that arrive
  Width,       \* of a frame
  PtWidth,     \* of the player template
  Border,      \* MINIMAP_BOTTOM_BORDER
  TlMatch,     \* where single_match may find the left corner's template begin
  BrMatch      \* where it may find the right corner's template end

ASSUME PictureAssumption ==
  /\ MaxFrames \in Nat /\ Width \in Nat /\ PtWidth \in Nat /\ Border \in Nat
  /\ TlMatch \subseteq 0..(Width - Border)   \* the template is wider than the border
  /\ BrMatch \subseteq 0..Width
ASSUME ThreadsAssumption ==
  /\ IsFiniteSet(Camera)
  /\ Camera \cap (Calculator \cup Streamer) = {} /\ Calculator \cap Streamer = {}

VARIABLES
  frame, frameReady,   \* CaptureThread.frame, as the number of the frame; 0 is empty
  mm_tl, mm_br,
  minimap,             \* CaptureThread.minimap: the frame and the part it was cut from
  at,                  \* where each thread is
  got,                 \* the frame it works on
  tl,                  \* mm_tl as it read it
  cut,                 \* the part it has cut
  cancelled,           \* the calls whose client is gone
  frames,              \* frames that have arrived
  alive,               \* the process runs
  \* History variables, for the properties only.
  raced,     \* threads that have seen a corner change between their check and their cut
  accepted,  \* the last calibration that stored a corner passed its check
  alone,     \* no calibration has begun to store corners while another was on
  own        \* the frame of each calculator's own calibration, once it is published

picture == <<frame, frameReady, minimap>>
corner == <<mm_tl, mm_br>>
local == <<got, tl, cut>>
ghost == <<raced, accepted, alone, own>>
vars == <<picture, corner, at, local, cancelled, frames, alive, ghost>>
-----------------------------------------------------------------------------
Viewer == Calculator \cup Streamer
Cutter == Camera \cup Calculator
Thread == Camera \cup Viewer
Frame == 0..MaxFrames
Corner == 0..(Width + PtWidth + Border)
NoMinimap == [frame |-> 0, lo |-> 0, hi |-> 0]
Larger(a, b) == IF a >= b THEN a ELSE b

Storing == {"storeTl", "storeBr", "checkTl", "checkBr", "cropTl", "cropBr", "publish"}

TypeOK ==
  /\ frame \in Frame /\ frameReady \in BOOLEAN
  /\ mm_tl \in Corner /\ mm_br \in Corner
  /\ minimap \in [frame : Frame, lo : 0..Width, hi : 0..Width]
  /\ at \in [Thread -> {"idle", "try", "frame", "ready", "lock", "clone", "show",
                          "write"} \cup Storing]
  /\ got \in [Thread -> Frame]
  /\ tl \in [Thread -> Corner]
  /\ cut \in [Thread -> 0..Width]
  /\ cancelled \subseteq Viewer
  /\ frames \in Frame
  /\ alive \in BOOLEAN
  /\ raced \subseteq Cutter
  /\ accepted \in BOOLEAN /\ alone \in BOOLEAN
  /\ own \in [Calculator -> Frame]

Init ==
  /\ frame = 0 /\ frameReady = FALSE
  /\ mm_tl = 0 /\ mm_br = 0
  /\ minimap = NoMinimap
  /\ at = [t \in Thread |-> "idle"]
  /\ got = [t \in Thread |-> 0] /\ tl = [t \in Thread |-> 0] /\ cut = [t \in Thread |-> 0]
  /\ cancelled = {}
  /\ frames = 0
  /\ alive = TRUE
  /\ raced = {} /\ accepted = FALSE /\ alone = TRUE /\ own = [v \in Calculator |-> 0]

Go(t, from, to) == at[t] = from /\ at' = [at EXCEPT ![t] = to]

\* frame_mutex: held by a callback that stores, or shared by those that clone.
Exclusive == {c \in Camera : at[c] = "frame"}
Shared == {v \in Viewer : at[v] = "clone"}
-----------------------------------------------------------------------------
(* captureFrame, on a callback thread *)

\* frameCallback with a frame that convertFrame could convert; others are dropped.
FrameCallback(c) ==
  /\ Go(c, "idle", "try")
  /\ frames < MaxFrames
  /\ frames' = frames + 1
  /\ got' = [got EXCEPT ![c] = frames + 1]
  /\ UNCHANGED <<picture, corner, tl, cut, cancelled, alive, ghost>>

\* Lines 197-198.
TryLock(c) ==
  /\ Go(c, "try", IF Exclusive \cup Shared = {} THEN "frame" ELSE "checkTl")
  /\ UNCHANGED <<picture, corner, local, cancelled, frames, alive, ghost>>

\* Lines 199-202.
StoreFrame(c) ==
  /\ Go(c, "frame", "checkTl")
  /\ frame' = got[c] /\ frameReady' = TRUE
  /\ UNCHANGED <<minimap, corner, local, cancelled, frames, alive, ghost>>

\* frame.cols, without the lock: the assignment of a frame releases the old one first.
Cols == (IF frame = 0 THEN {0} ELSE {Width}) \cup (IF Exclusive = {} THEN {} ELSE {0})

\* Lines 204 and 301: the left corner.
CheckTl(t) ==
  /\ Go(t, "checkTl", "checkBr")
  /\ tl' = [tl EXCEPT ![t] = mm_tl]
  /\ raced' = raced \ {t}
  /\ UNCHANGED <<picture, corner, got, cut, cancelled, frames, alive, accepted, alone, own>>

\* Mutant: the right corner is not compared with the frame.
InBoundsLeft(lo, hi, cols) == 0 <= lo /\ lo <= hi /\ lo <= cols

InBounds(lo, hi, cols) == 0 <= lo /\ hi <= cols /\ lo <= hi

Done(t) == IF t \in Camera THEN "idle" ELSE "show"

\* The locals of a thread that is through.
Drop(t) ==
  /\ got' = [got EXCEPT ![t] = 0] /\ tl' = [tl EXCEPT ![t] = 0]
  /\ cut' = [cut EXCEPT ![t] = 0]

\* Lines 204-207 and 301-305: the right corner.
CheckBr(t) ==
  \E cols \in Cols :
    LET ok == InBounds(tl[t], mm_br, cols) IN
    /\ Go(t, "checkBr", IF ok THEN "cropTl" ELSE Done(t))
    /\ IF ok THEN UNCHANGED local ELSE Drop(t)
    /\ accepted' = IF t \in Calculator THEN ok ELSE accepted
    /\ UNCHANGED <<picture, corner, cancelled, frames, alive, raced, alone, own>>

\* Lines 209 and 308: the left corner.
CropTl(t) ==
  /\ Go(t, "cropTl", "cropBr")
  /\ tl' = [tl EXCEPT ![t] = mm_tl]
  /\ UNCHANGED <<picture, corner, got, cut, cancelled, frames, alive, ghost>>

\* Rect takes its two corners in any order.
Lo(t) == IF tl[t] <= mm_br THEN tl[t] ELSE mm_br
Hi(t) == Larger(tl[t], mm_br)

\* Lines 209 and 308: the right corner, and the cut.  Out of the frame it throws, which ends
\* the process on a callback thread and the call on a handler's.
CropBr(t) ==
  \/ /\ Hi(t) <= Width
     /\ Go(t, "cropBr", "publish")
     /\ tl' = [tl EXCEPT ![t] = Lo(t)] /\ cut' = [cut EXCEPT ![t] = Hi(t)]
     /\ UNCHANGED <<picture, corner, got, cancelled, frames, alive, ghost>>
  \/ /\ Hi(t) > Width
     /\ Go(t, "cropBr", "idle")
     /\ alive' = (t \notin Camera)
     /\ Drop(t)
     /\ UNCHANGED <<picture, corner, cancelled, frames, ghost>>

\* Mutant: the first minimap stays.
PublishOnce(t) ==
  /\ Go(t, "publish", Done(t))
  /\ minimap' = IF minimap.frame = 0
                THEN [frame |-> got[t], lo |-> tl[t], hi |-> cut[t]] ELSE minimap
  /\ own' = IF t \in Calculator THEN [own EXCEPT ![t] = got[t]] ELSE own
  /\ Drop(t)
  /\ UNCHANGED <<frame, frameReady, corner, cancelled, frames, alive, raced, accepted, alone>>

\* Lines 250-253 and 310-313.
Publish(t) ==
  /\ Go(t, "publish", Done(t))
  /\ minimap' = [frame |-> got[t], lo |-> tl[t], hi |-> cut[t]]
  /\ own' = IF t \in Calculator THEN [own EXCEPT ![t] = got[t]] ELSE own
  /\ Drop(t)
  /\ UNCHANGED <<frame, frameReady, corner, cancelled, frames, alive, raced, accepted, alone>>
-----------------------------------------------------------------------------
(* calculateMinimap, on a handler thread *)

Call(v, first) ==
  /\ Go(v, "idle", first)
  /\ cancelled' = cancelled \ {v}
  /\ UNCHANGED <<picture, corner, local, frames, alive>>

\* VideoService.cpp line 41.
CalculateMinimap(v) ==
  /\ Call(v, "ready")
  /\ own' = [own EXCEPT ![v] = 0]
  /\ UNCHANGED <<raced, accepted, alone>>

\* Line 276; without a frame there is nothing to do.
FrameReady(v) ==
  /\ Go(v, "ready", IF frameReady THEN "lock" ELSE "show")
  /\ UNCHANGED <<picture, corner, local, cancelled, frames, alive, ghost>>

\* Lines 278 and 83 of CaptureThread.cpp.
LockShared(v) ==
  /\ Go(v, "lock", "clone")
  /\ Exclusive = {}
  /\ UNCHANGED <<picture, corner, local, cancelled, frames, alive, ghost>>

\* Lines 279-291 and, on a StreamVideo call, 84; an empty frame is not used.
CloneFrame(v) ==
  /\ Go(v, "clone", IF frame = 0 THEN "show" ELSE IF v \in Calculator THEN "storeTl" ELSE "write")
  /\ got' = [got EXCEPT ![v] = IF v \in Calculator THEN frame ELSE 0]
  /\ UNCHANGED <<picture, corner, tl, cut, cancelled, frames, alive, ghost>>

RacedBy(v) == {t \in Cutter \ {v} : at[t] \in {"checkBr", "cropTl", "cropBr"}}

\* Lines 293-297.
StoreTl(v) ==
  /\ Go(v, "storeTl", "storeBr")
  /\ \E x \in TlMatch : mm_tl' = x + Border
  /\ raced' = raced \cup RacedBy(v)
  /\ accepted' = FALSE
  /\ alone' = (alone /\ \A u \in Calculator \ {v} : at[u] \notin Storing)
  /\ UNCHANGED <<picture, mm_br, local, cancelled, frames, alive, own>>

\* Mutant: the minimap may be narrower than the player.
StoreBrNarrow(v) ==
  /\ Go(v, "storeBr", "checkTl")
  /\ \E x \in BrMatch : mm_br' = Larger(mm_tl, x - Border)
  /\ raced' = raced \cup RacedBy(v)
  /\ UNCHANGED <<picture, mm_tl, local, cancelled, frames, alive, accepted, alone, own>>

\* Mutant: the right corner is counted from the left one.
StoreBrBeyond(v) ==
  /\ Go(v, "storeBr", "checkTl")
  /\ \E x \in BrMatch : mm_br' = mm_tl + Larger(PtWidth, x - Border)
  /\ raced' = raced \cup RacedBy(v)
  /\ UNCHANGED <<picture, mm_tl, local, cancelled, frames, alive, accepted, alone, own>>

\* Lines 294 and 298, from the mm_tl there is now.
StoreBr(v) ==
  /\ Go(v, "storeBr", "checkTl")
  /\ \E x \in BrMatch : mm_br' = Larger(mm_tl + PtWidth, x - Border)
  /\ raced' = raced \cup RacedBy(v)
  /\ UNCHANGED <<picture, mm_tl, local, cancelled, frames, alive, accepted, alone, own>>
-----------------------------------------------------------------------------
(* The streams, and their clients *)

\* VideoService.cpp line 9.
StreamVideo(v) == Call(v, "show") /\ UNCHANGED ghost

\* What a client sees next: a frame, or the minimap if it is not empty.
Picture(v) == IF v \in Streamer THEN "lock" ELSE IF minimap.lo < minimap.hi THEN "write" ELSE "show"

\* Mutant: nobody asks whether the client is still there.
ShowAlways(v) ==
  /\ Go(v, "show", Picture(v))
  /\ UNCHANGED <<picture, corner, local, cancelled, frames, alive, ghost>>

\* VideoService.cpp lines 12-19 and 43-50.
Show(v) ==
  /\ Go(v, "show", IF v \in cancelled THEN "idle" ELSE Picture(v))
  /\ UNCHANGED <<picture, corner, local, cancelled, frames, alive, ghost>>

\* Lines 22-36 and 53-67: a write may fail, and fails when the client is gone.
Write(v) ==
  /\ \/ v \notin cancelled /\ Go(v, "write", "show")
     \/ Go(v, "write", "idle")
  /\ UNCHANGED <<picture, corner, local, cancelled, frames, alive, ghost>>

\* A client goes away.
Cancel(v) ==
  /\ at[v] # "idle" /\ v \notin cancelled
  /\ cancelled' = cancelled \cup {v}
  /\ UNCHANGED <<picture, corner, at, local, frames, alive, ghost>>

CutterNext(t) == CheckTl(t) \/ CheckBr(t) \/ CropTl(t) \/ CropBr(t) \/ Publish(t)
CameraNext(c) == FrameCallback(c) \/ TryLock(c) \/ StoreFrame(c) \/ CutterNext(c)
ViewerStep(v) ==
  \/ v \in Calculator /\ (FrameReady(v) \/ StoreTl(v) \/ StoreBr(v) \/ CutterNext(v))
  \/ LockShared(v) \/ CloneFrame(v) \/ Show(v) \/ Write(v)

Step ==
  \/ \E c \in Camera : CameraNext(c)
  \/ \E v \in Calculator : CalculateMinimap(v)
  \/ \E v \in Streamer : StreamVideo(v)
  \/ \E v \in Viewer : ViewerStep(v) \/ Cancel(v)

Dead == ~alive /\ UNCHANGED vars

Next == (alive /\ Step) \/ Dead

Spec == Init /\ [][Next]_vars

\* Threads in the middle of a call or a callback are scheduled.  No client is bound to call
\* or to go, and no frame to arrive.
FairSpec ==
  /\ Spec
  /\ \A c \in Camera : WF_vars(alive /\ at[c] # "idle" /\ CameraNext(c))
  /\ \A v \in Viewer : WF_vars(alive /\ ViewerStep(v))
-----------------------------------------------------------------------------
(* Properties *)

\* A cut never leaves the frame unless a calibration stored a corner between the check of
\* the bounds and the cut: only that race lets the cut throw, which ends the callback thread
\* and with it the process (lines 204-209, 297-308).
CropAsChecked ==
  \A t \in Cutter : at[t] = "cropBr" /\ Hi(t) > Width => t \in raced

\* Calibrations that do not overlap: once one has accepted its corners they are in the frame
\* and apart by the player's width, so that every later frame can be cut (lines 297-305).
CalibrationHolds ==
  alone /\ accepted => mm_tl + PtWidth <= mm_br /\ mm_br <= Width

\* With one device, and calibrations that do not overlap: the minimap a client is shown is
\* not older than the frame its own calibration took, although the callback goes on
\* publishing all the while (lines 250-253 and 310-313).
ShownIsRecent ==
  Cardinality(Camera) <= 1 /\ alone =>
    \A v \in Calculator : at[v] = "show" => own[v] <= minimap.frame

\* A call whose client is gone ends, also when there has been no picture yet
\* (VideoService.cpp 12-19 and 43-50).
CancelEnds ==
  \A v \in Viewer : v \in cancelled /\ at[v] # "idle" ~> at[v] = "idle" \/ ~alive
=============================================================================
