------------------------ MODULE CaptureMinimap_proofs ------------------------
(***************************************************************************)
(* Theorems about CaptureMinimap, for any number of capture devices,       *)
(* calibrations, streams and frames, and pictures of any size.             *)
(***************************************************************************)
EXTENDS CaptureMinimap, FiniteSetTheorems, TLAPS

USE PictureAssumption, ThreadsAssumption DEF PictureAssumption, ThreadsAssumption

-----------------------------------------------------------------------------
(* Types *)

\* The left corner is in the frame, and so is the left side of what is to be published.
Inside ==
  /\ mm_tl <= Width
  /\ \A t \in Thread : at[t] = "publish" => tl[t] <= Width
  /\ \A t \in Thread : at[t] \in {"checkTl", "checkBr", "cropTl", "cropBr", "publish"} => t \in Cutter

\* The initial state is well typed.
LEMMA InitType == Init => TypeOK /\ Inside
<1> SUFFICES ASSUME Init PROVE TypeOK /\ Inside
  OBVIOUS
<1>1. frame \in Frame /\ frames \in Frame /\ mm_tl \in Corner /\ mm_br \in Corner
  BY DEF Init, Frame, Corner
<1>2. minimap \in [frame : Frame, lo : 0..Width, hi : 0..Width]
  BY DEF Init, NoMinimap, Frame
<1>3. /\ got \in [Thread -> Frame] /\ tl \in [Thread -> Corner] /\ cut \in [Thread -> 0..Width]
      /\ own \in [Calculator -> Frame]
  BY DEF Init, Frame, Corner
<1>4. at \in [Thread -> {"idle"}]
  BY DEF Init
<1>5. /\ frameReady \in BOOLEAN /\ alive \in BOOLEAN /\ accepted \in BOOLEAN /\ alone \in BOOLEAN
  BY Zenon DEF Init
<1>6. cancelled \subseteq Viewer /\ raced \subseteq Cutter
  BY DEF Init
<1> QED
  BY <1>1, <1>2, <1>3, <1>4, <1>5, <1>6 DEF Init, TypeOK, Inside

\* A cutter's step keeps the types.
LEMMA CutterType ==
  ASSUME TypeOK, Inside, NEW t \in Cutter, CutterNext(t)
  PROVE  TypeOK' /\ Inside'
<1> USE DEF Go, picture, corner, local, ghost
<1>a. t \in Thread
  BY DEF Thread, Cutter, Viewer
<1>b. mm_br \in Nat /\ tl[t] \in Nat /\ mm_br \in Corner /\ tl[t] \in Corner
  BY <1>a DEF TypeOK, Corner
<1>c. Done(t) \in {"idle", "show"}
  BY DEF Done
<1>d. 0 \in Frame /\ 0 \in Corner /\ 0 \in 0..Width
  BY DEF Frame, Corner
<1>1. CASE CheckTl(t)
  BY <1>a, <1>1 DEF CheckTl, TypeOK, Storing, Inside
<1>2. CASE CheckBr(t)
  <2>1. PICK cols \in Cols :
          LET ok == InBounds(tl[t], mm_br, cols) IN
          /\ Go(t, "checkBr", IF ok THEN "cropTl" ELSE Done(t))
          /\ IF ok THEN UNCHANGED local ELSE Drop(t)
          /\ accepted' = IF t \in Calculator THEN ok ELSE accepted
          /\ UNCHANGED <<picture, corner, cancelled, frames, alive, raced, alone, own>>
    BY <1>2 DEF CheckBr
  <2> DEFINE ok == InBounds(tl[t], mm_br, cols)
  <2>2. accepted' \in BOOLEAN
    BY <2>1, Zenon DEF TypeOK, InBounds
  <2>3. got' \in [Thread -> Frame] /\ tl' \in [Thread -> Corner] /\ cut' \in [Thread -> 0..Width]
    BY <2>1, <1>d DEF TypeOK, Drop
  <2>4. at' = [at EXCEPT ![t] = IF ok THEN "cropTl" ELSE Done(t)]
    BY <2>1
  <2>5. UNCHANGED <<picture, corner, cancelled, frames, alive, raced, alone, own>>
    BY <2>1
  <2>6. \A u \in Thread : at'[u] = "publish" => tl'[u] = tl[u] /\ at[u] = "publish"
    BY <1>a, <1>c, <2>1, <2>4 DEF TypeOK, Drop
  <2> HIDE DEF ok
  <2> QED
    BY <1>a, <1>c, <2>2, <2>3, <2>4, <2>5, <2>6 DEF TypeOK, Inside, Storing
<1>3. CASE CropTl(t)
  BY <1>a, <1>3 DEF CropTl, TypeOK, Storing, Inside
<1>4. CASE CropBr(t)
  <2>1. Lo(t) \in Corner /\ Lo(t) \in Nat /\ Hi(t) \in Nat /\ Lo(t) <= Hi(t)
    BY <1>b DEF Lo, Hi, Larger
  <2>2. CASE Hi(t) <= Width
    BY <1>a, <1>4, <2>1, <2>2 DEF CropBr, TypeOK, Storing, Inside
  <2>3. CASE ~(Hi(t) <= Width)
    <3>1. /\ at' = [at EXCEPT ![t] = "idle"] /\ Drop(t)
          /\ UNCHANGED <<picture, corner, cancelled, frames, ghost>>
      BY <1>4, <2>3 DEF CropBr
    <3>2. alive' \in BOOLEAN
      BY <1>4, <2>3, Zenon DEF CropBr
    <3>3. got' \in [Thread -> Frame] /\ tl' \in [Thread -> Corner] /\ cut' \in [Thread -> 0..Width]
      BY <3>1, <1>d DEF TypeOK, Drop
    <3> QED
      BY <1>a, <3>1, <3>2, <3>3 DEF TypeOK, Inside, Drop
  <2> QED
    BY <2>2, <2>3
<1>5. CASE Publish(t)
  <2>1. tl[t] \in 0..Width /\ cut[t] \in 0..Width /\ got[t] \in Frame
    BY <1>a, <1>b, <1>5 DEF Publish, Inside, TypeOK
  <2>2. minimap' \in [frame : Frame, lo : 0..Width, hi : 0..Width]
    BY <1>5, <2>1 DEF Publish
  <2>3. own' \in [Calculator -> Frame]
    BY <1>5, <2>1 DEF Publish, TypeOK
  <2>4. got' \in [Thread -> Frame] /\ tl' \in [Thread -> Corner] /\ cut' \in [Thread -> 0..Width]
    BY <1>5, <1>d DEF Publish, TypeOK, Drop
  <2>5. /\ at' = [at EXCEPT ![t] = Done(t)]
        /\ UNCHANGED <<frame, frameReady, corner, cancelled, frames, alive, raced, accepted, alone>>
        /\ tl' = [tl EXCEPT ![t] = 0]
    BY <1>5 DEF Publish, Drop
  <2> QED
    BY <1>a, <1>c, <2>2, <2>3, <2>4, <2>5 DEF TypeOK, Inside
<1> QED
  BY <1>1, <1>2, <1>3, <1>4, <1>5 DEF CutterNext

\* A step of a callback thread that is no cut keeps the types.
LEMMA CameraType ==
  ASSUME TypeOK, Inside, NEW c \in Camera, FrameCallback(c) \/ TryLock(c) \/ StoreFrame(c)
  PROVE  TypeOK' /\ Inside'
<1> USE DEF Go, picture, corner, local, ghost
<1>a. c \in Thread /\ c \in Cutter
  BY DEF Thread, Cutter
<1>1. CASE FrameCallback(c)
  <2>1. frames + 1 \in Frame
    BY <1>1 DEF FrameCallback, TypeOK, Frame
  <2> QED
    BY <1>a, <1>1, <2>1 DEF FrameCallback, TypeOK, Inside
<1>2. CASE TryLock(c)
  BY <1>a, <1>2 DEF TryLock, TypeOK, Inside, Storing
<1>3. CASE StoreFrame(c)
  <2>1. frameReady' \in BOOLEAN
    BY <1>3, Zenon DEF StoreFrame
  <2> QED
    BY <1>a, <1>3, <2>1 DEF StoreFrame, TypeOK, Inside, Storing
<1> QED
  BY <1>1, <1>2, <1>3

\* A step of a handler that is no cut keeps the types.
LEMMA ViewerType ==
  ASSUME TypeOK, Inside, NEW v \in Viewer,
         \/ v \in Calculator /\ (CalculateMinimap(v) \/ FrameReady(v) \/ StoreTl(v) \/ StoreBr(v))
         \/ v \in Streamer /\ StreamVideo(v)
         \/ LockShared(v) \/ CloneFrame(v) \/ Show(v) \/ Write(v) \/ Cancel(v)
  PROVE  TypeOK' /\ Inside'
<1> USE DEF Go, picture, corner, local, ghost
<1>a. v \in Thread
  BY DEF Thread
<1>b. 0 \in Frame /\ frame \in Frame
  BY DEF Frame, TypeOK
<1>1. CASE v \in Calculator /\ CalculateMinimap(v)
  BY <1>a, <1>b, <1>1 DEF CalculateMinimap, Call, TypeOK, Inside
<1>2. CASE FrameReady(v) \/ LockShared(v)
  BY <1>a, <1>2 DEF FrameReady, LockShared, TypeOK, Inside
<1>3. CASE v \in Calculator /\ StoreTl(v)
  <2>1. mm_tl' \in Corner /\ mm_tl' <= Width
    BY <1>3 DEF StoreTl, Corner
  <2>2. alone' \in BOOLEAN /\ accepted' \in BOOLEAN
    BY <1>3, Zenon DEF StoreTl
  <2>3. raced' \subseteq Cutter
    BY <1>3 DEF StoreTl, RacedBy, TypeOK
  <2>4. at' = [at EXCEPT ![v] = "storeBr"] /\ UNCHANGED <<picture, mm_br, local, cancelled, frames, alive, own>>
    BY <1>3 DEF StoreTl
  <2> QED
    BY <1>a, <2>1, <2>2, <2>3, <2>4 DEF TypeOK, Inside, Storing
<1>4. CASE v \in Calculator /\ StoreBr(v)
  <2>1. mm_br' \in Corner
    BY <1>4 DEF StoreBr, Corner, Larger, TypeOK, Inside
  <2>2. raced' \subseteq Cutter
    BY <1>4 DEF StoreBr, RacedBy, TypeOK
  <2>3. at' = [at EXCEPT ![v] = "checkTl"]
        /\ UNCHANGED <<picture, mm_tl, local, cancelled, frames, alive, accepted, alone, own>>
    BY <1>4 DEF StoreBr
  <2>4. v \in Cutter
    BY <1>4 DEF Cutter
  <2> QED
    BY <1>a, <2>1, <2>2, <2>3, <2>4 DEF TypeOK, Inside, Storing
<1>5. CASE StreamVideo(v)
  BY <1>a, <1>5 DEF StreamVideo, Call, TypeOK, Inside
<1>6. CASE CloneFrame(v)
  BY <1>a, <1>b, <1>6 DEF CloneFrame, TypeOK, Inside, Storing
<1>7. CASE Show(v)
  BY <1>a, <1>7 DEF Show, Picture, TypeOK, Inside
<1>8. CASE Write(v)
  BY <1>a, <1>8 DEF Write, TypeOK, Inside
<1>9. CASE Cancel(v)
  BY <1>9 DEF Cancel, TypeOK, Inside
<1> QED
  BY <1>1, <1>2, <1>3, <1>4, <1>5, <1>6, <1>7, <1>8, <1>9

\* What a step is, by the thread that takes it.
LEMMA Steps ==
  ASSUME Next
  PROVE  \/ UNCHANGED vars
         \/ \E t \in Cutter : CutterNext(t)
         \/ \E c \in Camera : FrameCallback(c) \/ TryLock(c) \/ StoreFrame(c)
         \/ \E v \in Calculator : CalculateMinimap(v) \/ FrameReady(v) \/ StoreTl(v) \/ StoreBr(v)
         \/ \E v \in Streamer : StreamVideo(v)
         \/ \E v \in Viewer : LockShared(v) \/ CloneFrame(v) \/ Show(v) \/ Write(v) \/ Cancel(v)
BY DEF Next, Dead, Step, CameraNext, ViewerStep, Cutter, Viewer

\* TypeOK is inductive together with Inside.
LEMMA TypeStep == TypeOK /\ Inside /\ [Next]_vars => TypeOK' /\ Inside'
<1> SUFFICES ASSUME TypeOK, Inside, [Next]_vars PROVE TypeOK' /\ Inside'
  OBVIOUS
<1>1. CASE UNCHANGED vars
  BY <1>1 DEF vars, picture, corner, local, ghost, TypeOK, Inside
<1> QED
  BY <1>1, Steps, CutterType, CameraType, ViewerType DEF Viewer

\* Types hold of every state.
LEMMA Typed == Spec => [](TypeOK /\ Inside)
  BY InitType, TypeStep, PTL DEF Spec

\* Every variable keeps its type: a corner stays within a template and a border of the frame,
\* and no minimap reaches beyond its frame.
THEOREM TypeCorrect == Spec => []TypeOK
  BY Typed, PTL

-----------------------------------------------------------------------------
(* The corners *)

\* What a thread no calibration has raced knows of the corners.
Known(t) ==
  t \notin raced =>
    /\ at[t] = "checkBr" => tl[t] = mm_tl
    /\ at[t] = "cropTl" => mm_tl <= mm_br /\ mm_br <= Width
    /\ at[t] = "cropBr" => tl[t] = mm_tl /\ mm_tl <= mm_br /\ mm_br <= Width

AllKnown == \A t \in Cutter : Known(t)

\* Every step keeps AllKnown.
LEMMA KnownStep == TypeOK /\ Inside /\ AllKnown /\ [Next]_vars => AllKnown'
<1> USE DEF Go, picture, corner, local, ghost
<1> SUFFICES ASSUME TypeOK, Inside, AllKnown, [Next]_vars, NEW t \in Cutter
             PROVE  Known(t)'
  BY DEF AllKnown
<1>a. t \in Thread /\ Known(t)
  BY DEF AllKnown, Thread, Cutter, Viewer
<1>b. mm_tl \in Nat /\ mm_br \in Nat /\ \A u \in Thread : tl[u] \in Nat
  BY DEF TypeOK, Corner
<1>c. ASSUME UNCHANGED corner, raced' = raced, tl'[t] = tl[t],
             at'[t] \in {"checkBr", "cropTl", "cropBr"} => at'[t] = at[t]
      PROVE  Known(t)'
  BY <1>a, <1>c DEF Known
<1>1. CASE UNCHANGED vars
  BY <1>1, <1>c DEF vars
<1>2. ASSUME NEW u \in Cutter, CutterNext(u) PROVE Known(t)'
  <2>a. u \in Thread /\ Done(u) \in {"idle", "show"}
    BY DEF Thread, Cutter, Viewer, Done
  <2>b. UNCHANGED corner
    BY <1>2 DEF CutterNext, CheckTl, CheckBr, CropTl, CropBr, Publish
  <2>1. CASE u # t
    <3>1. /\ at'[t] = at[t] /\ tl'[t] = tl[t] /\ (t \in raced' <=> t \in raced)
      BY <1>a, <2>a, <1>2, <2>1 DEF CutterNext, CheckTl, CheckBr, CropTl, CropBr, Publish, Drop, TypeOK
    <3> QED
      BY <1>a, <2>b, <3>1 DEF Known
  <2>2. CASE u = t /\ CheckTl(u)
    BY <1>a, <2>2 DEF CheckTl, Known, TypeOK
  <2>3. CASE u = t /\ CheckBr(u)
    <3>1. PICK cols \in Cols :
            LET ok == InBounds(tl[t], mm_br, cols) IN
            /\ Go(t, "checkBr", IF ok THEN "cropTl" ELSE Done(t))
            /\ UNCHANGED raced
      BY <2>3 DEF CheckBr
    <3>2. CASE InBounds(tl[t], mm_br, cols)
      <4>1. cols <= Width
        BY DEF Cols
      <4>2. tl[t] <= mm_br /\ mm_br <= Width
        BY <1>a, <1>b, <3>2, <4>1 DEF InBounds, Cols
      <4>3. at'[t] = "cropTl" /\ at[t] = "checkBr"
        BY <1>a, <3>1, <3>2 DEF TypeOK
      <4> QED
        BY <1>a, <2>b, <3>1, <4>2, <4>3 DEF Known
    <3>3. CASE ~InBounds(tl[t], mm_br, cols)
      BY <1>a, <2>a, <2>3, <3>1, <3>3 DEF Known, TypeOK
    <3> QED
      BY <3>2, <3>3
  <2>4. CASE u = t /\ CropTl(u)
    BY <1>a, <2>4 DEF CropTl, Known, TypeOK
  <2>5. CASE u = t /\ (CropBr(u) \/ Publish(u))
    BY <1>a, <2>a, <2>5 DEF CropBr, Publish, Known, TypeOK
  <2> QED
    BY <1>2, <2>1, <2>2, <2>3, <2>4, <2>5 DEF CutterNext
<1>3. ASSUME NEW c \in Camera, FrameCallback(c) \/ TryLock(c) \/ StoreFrame(c) PROVE Known(t)'
  BY <1>a, <1>c, <1>3 DEF FrameCallback, TryLock, StoreFrame, TypeOK
<1>4. ASSUME NEW v \in Calculator, StoreTl(v) \/ StoreBr(v) PROVE Known(t)'
  <2>1. CASE t = v
    BY <1>a, <1>4, <2>1 DEF StoreTl, StoreBr, Known, TypeOK
  <2>2. CASE t # v
    <3>1. at'[t] = at[t]
      BY <1>a, <1>4, <2>2 DEF StoreTl, StoreBr, TypeOK
    <3>2. at[t] \in {"checkBr", "cropTl", "cropBr"} => t \in raced'
      BY <1>4, <2>2 DEF StoreTl, StoreBr, RacedBy
    <3> QED
      BY <3>1, <3>2 DEF Known
  <2> QED
    BY <2>1, <2>2
<1>5. ASSUME NEW v \in Calculator, CalculateMinimap(v) \/ FrameReady(v) PROVE Known(t)'
  BY <1>a, <1>c, <1>5 DEF CalculateMinimap, Call, FrameReady, TypeOK
<1>6. ASSUME NEW v \in Viewer,
             StreamVideo(v) \/ LockShared(v) \/ CloneFrame(v) \/ Show(v) \/ Write(v) \/ Cancel(v)
      PROVE  Known(t)'
  BY <1>a, <1>c, <1>6 DEF StreamVideo, Call, LockShared, CloneFrame, Show, Picture, Write, Cancel, TypeOK
<1> QED
  BY <1>1, <1>2, <1>3, <1>4, <1>5, <1>6, Steps DEF Viewer

\* Without a calibration between check and cut, no cut leaves the frame.
THEOREM Crops == Spec => []CropAsChecked
<1>1. Init => AllKnown
  BY DEF Init, AllKnown, Known, Thread, Cutter, Viewer
<1>2. TypeOK /\ AllKnown => CropAsChecked
  <2> SUFFICES ASSUME TypeOK, AllKnown, NEW t \in Cutter, at[t] = "cropBr", t \notin raced
               PROVE  ~(Hi(t) > Width)
    BY DEF CropAsChecked
  <2>1. mm_br \in Nat /\ tl[t] \in Nat
    BY DEF TypeOK, Corner, Thread, Cutter, Viewer
  <2> QED
    BY <2>1 DEF AllKnown, Known, Hi, Larger
<1> QED
  BY <1>1, <1>2, Typed, KnownStep, PTL DEF Spec

-----------------------------------------------------------------------------
(* Calibrations that do not overlap *)

\* Where a calculator has stored the left corner, and where both.
Storing2 == Storing \ {"storeTl"}
Stored == Storing2 \ {"storeBr"}

\* One calibration at a time: its corners are apart, and accepted ones are in the frame.
Calibrated ==
  alone =>
    /\ \A u, v \in Calculator : at[u] \in Storing2 /\ at[v] \in Storing2 => u = v
    /\ \A v \in Calculator : at[v] \in Stored => mm_tl + PtWidth <= mm_br
    /\ accepted => mm_tl + PtWidth <= mm_br /\ mm_br <= Width
    /\ accepted => \A v \in Calculator : at[v] # "storeBr"

\* Calibrated is inductive.
LEMMA CalibratedStep == TypeOK /\ Inside /\ Calibrated /\ [Next]_vars => Calibrated'
<1> USE DEF Go, picture, corner, local, ghost
<1> SUFFICES ASSUME TypeOK, Inside, Calibrated, [Next]_vars, alone' PROVE Calibrated'
  BY DEF Calibrated
<1>a. mm_tl \in Nat /\ mm_br \in Nat
  BY DEF TypeOK, Corner
<1>b. ASSUME NEW u \in Thread, \A v \in Thread \ {u} : at'[v] = at[v],
             at'[u] \in Storing2 => at[u] \in Storing2, at'[u] \in Stored => at[u] \in Stored,
             at'[u] = "storeBr" => at[u] = "storeBr",
             UNCHANGED <<corner, accepted, alone>>
      PROVE  Calibrated'
  <2>1. \A v \in Calculator : /\ at'[v] \in Storing2 => at[v] \in Storing2
                              /\ at'[v] \in Stored => at[v] \in Stored
                              /\ at'[v] = "storeBr" => at[v] = "storeBr"
    BY <1>b DEF Thread, Viewer
  <2> QED
    BY <1>b, <2>1 DEF Calibrated
<1>1. CASE UNCHANGED vars
  BY <1>1 DEF vars, Calibrated
<1>2. ASSUME NEW t \in Cutter, CutterNext(t) PROVE Calibrated'
  <2>a. t \in Thread /\ Done(t) \in {"idle", "show"}
    BY DEF Thread, Cutter, Viewer, Done
  <2>1. CASE CheckTl(t) \/ CropTl(t) \/ CropBr(t) \/ Publish(t)
    BY <1>b, <2>a, <2>1 DEF CheckTl, CropTl, CropBr, Publish, Storing2, Stored, Storing, TypeOK
  <2>2. CASE CheckBr(t)
    <3>1. PICK cols \in Cols :
            LET ok == InBounds(tl[t], mm_br, cols) IN
            /\ Go(t, "checkBr", IF ok THEN "cropTl" ELSE Done(t))
            /\ accepted' = IF t \in Calculator THEN ok ELSE accepted
            /\ UNCHANGED <<corner, alone>>
      BY <2>2 DEF CheckBr
    <3>2. /\ \A v \in Thread \ {t} : at'[v] = at[v]
          /\ at[t] = "checkBr" /\ at'[t] \in {"cropTl", "idle", "show"}
      BY <2>a, <3>1 DEF TypeOK
    <3>3. CASE t \notin Calculator
      BY <1>b, <2>a, <3>1, <3>2, <3>3 DEF Storing2, Stored, Storing
    <3>4. CASE t \in Calculator
      <4>1. accepted' => mm_br <= Width
        <5>1. accepted' => InBounds(tl[t], mm_br, cols)
          BY <3>1, <3>4, Zenon
        <5>2. cols \in {0, Width}
          BY DEF Cols
        <5> QED
          BY <1>a, <5>1, <5>2 DEF InBounds
      <4>2. \A v \in Calculator \ {t} : at[v] \notin Storing2
        BY <3>1, <3>2, <3>4 DEF Calibrated, Storing2, Storing
      <4>3. \A v \in Calculator : at'[v] \in Storing2 => v = t
        BY <3>2, <4>2 DEF Thread, Viewer
      <4>4. mm_tl + PtWidth <= mm_br
        BY <3>1, <3>2, <3>4 DEF Calibrated, Stored, Storing2, Storing
      <4>5. \A v \in Calculator : at'[v] # "storeBr"
        BY <3>2, <4>3 DEF Storing2, Storing
      <4> QED
        BY <3>1, <4>1, <4>3, <4>4, <4>5 DEF Calibrated
    <3> QED
      BY <3>3, <3>4
  <2> QED
    BY <1>2, <2>1, <2>2 DEF CutterNext
<1>3. ASSUME NEW c \in Camera, FrameCallback(c) \/ TryLock(c) \/ StoreFrame(c) PROVE Calibrated'
  <2>1. c \in Thread
    BY DEF Thread
  <2>2. /\ \A v \in Thread \ {c} : at'[v] = at[v]
        /\ UNCHANGED <<corner, accepted, alone>>
    BY <1>3, <2>1 DEF FrameCallback, TryLock, StoreFrame, TypeOK
  <2>3. \A v \in Calculator : at'[v] = at[v]
    BY <2>2 DEF Thread, Viewer
  <2> QED
    BY <2>2, <2>3 DEF Calibrated
<1>4. ASSUME NEW v \in Calculator, StoreTl(v) PROVE Calibrated'
  <2>1. /\ v \in Thread /\ at' = [at EXCEPT ![v] = "storeBr"] /\ accepted' = FALSE
        /\ \A u \in Calculator \ {v} : at[u] \notin Storing
    BY <1>4 DEF StoreTl, Thread, Viewer
  <2>2. \A u \in Calculator : at'[u] \in Storing2 => u = v
    BY <2>1 DEF Storing2, TypeOK, Thread, Viewer
  <2>3. at'[v] = "storeBr"
    BY <2>1 DEF TypeOK
  <2> QED
    BY <2>1, <2>2, <2>3 DEF Calibrated, Stored, Storing2
<1>5. ASSUME NEW v \in Calculator, StoreBr(v) PROVE Calibrated'
  <2>1. /\ v \in Thread /\ at[v] = "storeBr" /\ at' = [at EXCEPT ![v] = "checkTl"]
        /\ UNCHANGED <<mm_tl, accepted, alone>>
    BY <1>5 DEF StoreBr, Thread, Viewer
  <2>2. mm_tl + PtWidth <= mm_br'
    BY <1>a, <1>5 DEF StoreBr, Larger
  <2>3. ~accepted
    BY <2>1 DEF Calibrated
  <2>4. \A u \in Calculator : at'[u] = IF u = v THEN "checkTl" ELSE at[u]
    BY <2>1 DEF TypeOK, Thread, Viewer
  <2>5. \A u, w \in Calculator : at'[u] \in Storing2 /\ at'[w] \in Storing2 => u = w
    BY <2>1, <2>4 DEF Calibrated, Storing2, Storing
  <2> QED
    BY <2>1, <2>2, <2>3, <2>5 DEF Calibrated
<1>6. ASSUME NEW v \in Calculator, CalculateMinimap(v) \/ FrameReady(v) PROVE Calibrated'
  <2>1. v \in Thread
    BY DEF Thread, Viewer
  <2> QED
    BY <1>b, <1>6, <2>1 DEF CalculateMinimap, Call, FrameReady, Storing2, Stored, Storing, TypeOK
<1>7. ASSUME NEW v \in Viewer,
             StreamVideo(v) \/ LockShared(v) \/ CloneFrame(v) \/ Show(v) \/ Write(v) \/ Cancel(v)
      PROVE  Calibrated'
  <2>1. v \in Thread
    BY DEF Thread
  <2> QED
    BY <1>b, <1>7, <2>1 DEF StreamVideo, Call, LockShared, CloneFrame, Show, Picture, Write, Cancel,
       Storing2, Stored, Storing, TypeOK
<1> QED
  BY <1>1, <1>2, <1>3, <1>4, <1>5, <1>6, <1>7, Steps DEF Viewer

\* Accepted corners hold until the next calibration, if calibrations do not overlap.
THEOREM Calibrates == Spec => []CalibrationHolds
<1>1. Init => Calibrated
  BY DEF Init, Calibrated, Storing2, Stored, Storing, Thread, Viewer
<1>2. Calibrated => CalibrationHolds
  BY DEF Calibrated, CalibrationHolds
<1> QED
  BY <1>1, <1>2, Typed, CalibratedStep, PTL DEF Spec

-----------------------------------------------------------------------------
(* One capture device *)

OneCamera == \A c, d \in Camera : c = d

\* At most one device is one callback thread.
LEMMA FewCameras == Cardinality(Camera) <= 1 => OneCamera
<1> HAVE Cardinality(Camera) <= 1
<1>1. Cardinality(Camera) \in Nat
  BY FS_CardinalityType
<1>2. CASE Cardinality(Camera) = 0
  <2>1. Camera = {}
    BY <1>2, FS_EmptySet
  <2> QED
    BY <2>1 DEF OneCamera
<1>3. CASE Cardinality(Camera) = 1
  <2>1. PICK c : Camera = {c}
    BY <1>3, FS_Singleton
  <2> QED
    BY <2>1 DEF OneCamera
<1> QED
  BY <1>1, <1>2, <1>3

\* The callback's frame is the latest, and what a calibration will publish is not older than
\* what any other has published.
Newest ==
  /\ frame <= frames
  /\ \A c \in Camera : at[c] # "idle" => frame <= got[c]
  /\ \A c \in Camera : got[c] <= frames
  /\ \A v \in Calculator : own[v] <= frame
  /\ \A v \in Calculator : at[v] \in Storing => got[v] <= frame
  /\ alone => \A v \in Calculator :
       /\ own[v] <= minimap.frame
       /\ \A u \in Calculator : at[u] \in Storing => own[v] <= got[u]
       /\ \A u \in Calculator : at[v] \in Storing2 /\ at[u] = "storeTl" => got[v] <= got[u]

\* With one capture device, Newest is inductive.
LEMMA NewestStep ==
  ASSUME OneCamera, TypeOK, Inside, Calibrated, Newest, [Next]_vars
  PROVE  Newest'
<1> USE DEF Go, picture, corner, local, ghost
<1>a. /\ frame \in Nat /\ frames \in Nat /\ minimap.frame \in Nat
      /\ \A t \in Thread : got[t] \in Nat
      /\ \A v \in Calculator : own[v] \in Nat /\ v \in Thread /\ v \notin Camera
      /\ \A c \in Camera : c \in Thread
  BY DEF TypeOK, Frame, Thread, Viewer
<1>b. ASSUME NEW t \in Thread, \A u \in Thread \ {t} : at'[u] = at[u] /\ got'[u] = got[u],
             UNCHANGED <<frame, frames, minimap, own>>, alone' => alone,
             t \in Camera => (at'[t] = "idle" /\ got'[t] = 0) \/ (at[t] # "idle" /\ got'[t] = got[t]),
             t \in Calculator /\ at'[t] \in Storing =>
               at[t] \in Storing /\ got'[t] = got[t] /\ (at'[t] \in Storing2 => at[t] \in Storing2)
               /\ (at'[t] = "storeTl" => at[t] = "storeTl")
      PROVE  Newest'
  <2>1. \A v \in Calculator : at'[v] \in Storing =>
          at[v] \in Storing /\ got'[v] = got[v] /\ (at'[v] \in Storing2 => at[v] \in Storing2)
          /\ (at'[v] = "storeTl" => at[v] = "storeTl")
    BY <1>a, <1>b
  <2>2. \A v \in Calculator : at'[v] \in Storing2 \/ at'[v] = "storeTl" => at'[v] \in Storing
    BY DEF Storing2, Storing
  <2>3. \A c \in Camera : got'[c] = 0 \/ got'[c] = got[c]
    BY <1>a, <1>b
  <2>4. \A c \in Camera : at'[c] # "idle" => at[c] # "idle" /\ got'[c] = got[c]
    BY <1>a, <1>b
  <2> QED
    BY <1>a, <1>b, <2>1, <2>2, <2>3, <2>4 DEF Newest
<1>1. CASE UNCHANGED vars
  BY <1>1 DEF vars, Newest
<1>2. ASSUME NEW t \in Cutter, CutterNext(t) PROVE Newest'
  <2>a. t \in Thread /\ Done(t) \in {"idle", "show"} /\ (t \in Camera => Done(t) = "idle")
    BY DEF Thread, Cutter, Viewer, Done
  <2>1. CASE CheckTl(t) \/ CropTl(t)
    BY <1>b, <2>a, <2>1 DEF CheckTl, CropTl, Storing2, Storing, TypeOK
  <2>2. CASE CheckBr(t) \/ CropBr(t)
    <3>1. /\ at[t] \in {"checkBr", "cropBr"} /\ at'[t] \in {"cropTl", "publish", "idle", "show"}
          /\ t \in Camera => at'[t] # "show"
          /\ \A u \in Thread \ {t} : at'[u] = at[u]
          /\ UNCHANGED <<frame, frames, minimap, own, alone>>
      BY <2>a, <2>2 DEF CheckBr, CropBr, TypeOK
    <3>2. /\ \A u \in Thread \ {t} : got'[u] = got[u]
          /\ IF at'[t] \in {"cropTl", "publish"} THEN got'[t] = got[t] ELSE got'[t] = 0
      <4>1. CASE CheckBr(t)
        <5>1. PICK cols \in Cols :
                LET ok == InBounds(tl[t], mm_br, cols) IN
                /\ at' = [at EXCEPT ![t] = IF ok THEN "cropTl" ELSE Done(t)]
                /\ IF ok THEN UNCHANGED local ELSE Drop(t)
          BY <4>1 DEF CheckBr
        <5>2. CASE InBounds(tl[t], mm_br, cols)
          BY <2>a, <5>1, <5>2 DEF TypeOK
        <5>3. CASE ~InBounds(tl[t], mm_br, cols)
          BY <2>a, <5>1, <5>3 DEF Drop, TypeOK
        <5> QED
          BY <5>2, <5>3
      <4>2. CASE CropBr(t)
        BY <2>a, <4>2 DEF CropBr, Drop, TypeOK
      <4> QED
        BY <2>2, <4>1, <4>2
    <3>3. t \in Camera => (at'[t] = "idle" /\ got'[t] = 0) \/ (at[t] # "idle" /\ got'[t] = got[t])
      <4>1. CASE at'[t] \in {"cropTl", "publish"}
        BY <3>1, <3>2, <4>1
      <4>2. CASE at'[t] \in {"idle", "show"}
        BY <3>1, <3>2, <4>2
      <4> QED
        BY <3>1, <4>1, <4>2
    <3>4. at'[t] \in Storing => /\ at[t] \in Storing /\ got'[t] = got[t] /\ at[t] \in Storing2
                                /\ at'[t] # "storeTl"
      BY <3>1, <3>2 DEF Storing2, Storing
    <3> QED
      BY <1>b, <2>a, <3>1, <3>2, <3>3, <3>4
  <2>3. CASE Publish(t)
    <3>1. /\ at[t] = "publish" /\ at'[t] \in {"idle", "show"} /\ got'[t] = 0
          /\ \A u \in Thread \ {t} : at'[u] = at[u] /\ got'[u] = got[u]
          /\ minimap'.frame = got[t] /\ UNCHANGED <<frame, frames, alone>>
          /\ t \in Camera => at'[t] = "idle"
      BY <2>a, <2>3 DEF Publish, Drop, TypeOK
    <3>2. \A v \in Calculator : at'[v] \in Storing => at[v] \in Storing /\ at'[v] = at[v] /\ got'[v] = got[v]
      BY <1>a, <3>1 DEF Storing
    <3>3. \A c \in Camera : /\ at'[c] # "idle" => frame <= got'[c]
                            /\ got'[c] <= frames
      BY <1>a, <3>1 DEF Newest
    <3>4. CASE t \in Camera
      <4>1. own' = own
        BY <2>3, <3>4 DEF Publish
      <4>2. \A v \in Calculator : own[v] <= got[t]
        BY <1>a, <3>1, <3>4 DEF Newest
      <4> QED
        BY <1>a, <3>1, <3>2, <3>3, <4>1, <4>2 DEF Newest, Storing, Storing2
    <3>5. CASE t \in Calculator
      <4>1. own' = [own EXCEPT ![t] = got[t]]
        BY <2>3, <3>5 DEF Publish
      <4>2. got[t] <= frame /\ (alone => \A v \in Calculator : own[v] <= got[t])
        BY <3>1, <3>5 DEF Newest, Storing
      <4>3. \A v \in Calculator : own'[v] = IF v = t THEN got[t] ELSE own[v]
        BY <4>1 DEF TypeOK
      <4>4. ASSUME alone, NEW u \in Calculator, at'[u] \in Storing PROVE got[t] <= got'[u]
        <5>1. u # t /\ at[u] \in Storing /\ got'[u] = got[u]
          BY <3>1, <3>2, <4>4 DEF Storing
        <5>2. at[u] = "storeTl"
          BY <3>1, <3>5, <4>4, <5>1 DEF Calibrated, Storing2, Storing
        <5> QED
          BY <3>1, <3>5, <4>4, <5>1, <5>2 DEF Newest, Storing2, Storing
      <4>5. /\ frame' <= frames'
            /\ \A v \in Calculator : own'[v] <= frame'
            /\ \A v \in Calculator : at'[v] \in Storing => got'[v] <= frame'
        BY <3>1, <3>2, <4>2, <4>3 DEF Newest
      <4>6. alone' => \A v \in Calculator : own'[v] <= minimap'.frame
        BY <1>a, <3>1, <3>5, <4>2, <4>3
      <4>7. alone' => \A v, u \in Calculator : at'[u] \in Storing => own'[v] <= got'[u]
        BY <3>1, <3>2, <4>3, <4>4 DEF Newest
      <4>8. alone' => \A v, u \in Calculator :
                        at'[v] \in Storing2 /\ at'[u] = "storeTl" => got'[v] <= got'[u]
        BY <3>1, <3>2 DEF Newest, Storing, Storing2
      <4> QED
        BY <3>1, <3>3, <4>5, <4>6, <4>7, <4>8 DEF Newest
    <3> QED
      BY <3>4, <3>5 DEF Cutter
  <2> QED
    BY <1>2, <2>1, <2>2, <2>3 DEF CutterNext
<1>3. ASSUME NEW c \in Camera, FrameCallback(c) \/ TryLock(c) \/ StoreFrame(c) PROVE Newest'
  <2>a. c \in Thread /\ c \notin Calculator /\ \A d \in Camera : d = c
    BY DEF Thread, OneCamera
  <2>1. CASE TryLock(c)
    BY <1>b, <2>a, <2>1 DEF TryLock, TypeOK
  <2>2. CASE FrameCallback(c)
    <3>1. /\ frames' = frames + 1 /\ got'[c] = frames + 1
          /\ \A u \in Thread \ {c} : at'[u] = at[u] /\ got'[u] = got[u]
          /\ UNCHANGED <<frame, minimap, own, alone>>
      BY <2>a, <2>2 DEF FrameCallback, TypeOK
    <3>2. \A v \in Calculator : at'[v] = at[v] /\ got'[v] = got[v]
      BY <1>a, <2>a, <3>1
    <3> QED
      BY <1>a, <2>a, <3>1, <3>2 DEF Newest
  <2>3. CASE StoreFrame(c)
    <3>1. /\ frame' = got[c] /\ at[c] # "idle" /\ UNCHANGED <<got, frames, minimap, own, alone>>
          /\ \A u \in Thread \ {c} : at'[u] = at[u]
      BY <2>a, <2>3 DEF StoreFrame, TypeOK
    <3>2. frame <= frame' /\ frame' \in Nat /\ frame' <= frames
      BY <1>a, <2>a, <3>1 DEF Newest
    <3>3. \A v \in Calculator : at'[v] = at[v]
      BY <1>a, <2>a, <3>1
    <3> QED
      BY <1>a, <2>a, <3>1, <3>2, <3>3 DEF Newest
  <2> QED
    BY <1>3, <2>1, <2>2, <2>3
<1>4. ASSUME NEW v \in Calculator, StoreTl(v) PROVE Newest'
  <2>1. /\ v \in Thread /\ at[v] = "storeTl" /\ at'[v] = "storeBr"
        /\ \A u \in Thread \ {v} : at'[u] = at[u]
        /\ UNCHANGED <<frame, frames, minimap, got, own>>
        /\ alone' => alone /\ \A u \in Calculator \ {v} : at[u] \notin Storing
    BY <1>4 DEF StoreTl, TypeOK, Thread, Viewer
  <2>2. \A u \in Calculator : (at'[u] \in Storing <=> at[u] \in Storing)
    BY <1>a, <2>1 DEF Storing
  <2>3. \A c \in Camera : at'[c] = at[c]
    BY <1>a, <2>1
  <2>4. alone' => \A u \in Calculator : at'[u] # "storeTl"
    BY <1>a, <2>1 DEF Storing
  <2> QED
    BY <2>1, <2>2, <2>3, <2>4 DEF Newest
<1>5. ASSUME NEW v \in Calculator, StoreBr(v) \/ FrameReady(v) PROVE Newest'
  BY <1>a, <1>b, <1>5 DEF StoreBr, FrameReady, Storing2, Storing, TypeOK
<1>6. ASSUME NEW v \in Calculator, CalculateMinimap(v) PROVE Newest'
  <2>1. /\ at[v] = "idle" /\ at'[v] = "ready" /\ \A u \in Thread \ {v} : at'[u] = at[u]
        /\ UNCHANGED <<frame, frames, minimap, got, alone>>
        /\ \A u \in Calculator : own'[u] = IF u = v THEN 0 ELSE own[u]
    BY <1>a, <1>6 DEF CalculateMinimap, Call, TypeOK
  <2>2. \A u \in Calculator : at'[u] \in Storing => at'[u] = at[u]
    BY <1>a, <2>1 DEF Storing
  <2>3. \A c \in Camera : at'[c] = at[c]
    BY <1>a, <2>1
  <2> QED
    BY <1>a, <2>1, <2>2, <2>3 DEF Newest, Storing2, Storing
<1>7. ASSUME NEW v \in Viewer, CloneFrame(v) PROVE Newest'
  <2>a. v \in Thread /\ v \notin Camera
    BY DEF Thread, Viewer
  <2>1. CASE v \in Calculator /\ frame # 0
    <3>1. /\ at'[v] = "storeTl" /\ got'[v] = frame
          /\ \A u \in Thread \ {v} : at'[u] = at[u] /\ got'[u] = got[u]
          /\ UNCHANGED <<frame, frames, minimap, own, alone>>
      BY <1>7, <2>a, <2>1 DEF CloneFrame, TypeOK
    <3>2. \A u \in Calculator \ {v} : at'[u] = at[u] /\ got'[u] = got[u]
      BY <1>a, <3>1
    <3>3. \A c \in Camera : at'[c] = at[c] /\ got'[c] = got[c]
      BY <1>a, <2>a, <3>1
    <3>4. /\ \A u \in Calculator : at'[u] \in Storing2 => at[u] \in Storing2 /\ u # v
          /\ \A u \in Calculator : at'[u] \in Storing2 => at[u] \in Storing
      BY <3>1, <3>2 DEF Storing2, Storing
    <3> QED
      BY <1>a, <3>1, <3>2, <3>3, <3>4 DEF Newest
  <2>2. CASE v \notin Calculator \/ frame = 0
    <3>1. /\ at'[v] \in {"show", "write"}
          /\ \A u \in Thread \ {v} : at'[u] = at[u] /\ got'[u] = got[u]
          /\ UNCHANGED <<frame, frames, minimap, own, alone>>
      BY <1>7, <2>a, <2>2 DEF CloneFrame, TypeOK
    <3> QED
      BY <1>b, <2>a, <3>1 DEF Storing
  <2> QED
    BY <2>1, <2>2
<1>8. ASSUME NEW v \in Viewer, StreamVideo(v) \/ LockShared(v) \/ Show(v) \/ Write(v) \/ Cancel(v)
      PROVE  Newest'
  <2>a. v \in Thread /\ v \notin Camera
    BY DEF Thread, Viewer
  <2> QED
    BY <1>b, <1>8, <2>a DEF StreamVideo, Call, LockShared, Show, Picture, Write, Cancel, Storing, Storing2, TypeOK
<1> QED
  BY <1>1, <1>2, <1>3, <1>4, <1>5, <1>6, <1>7, <1>8, Steps DEF Viewer

\* With one device and calibrations that do not overlap, no client is shown a minimap older
\* than its own calibration.
THEOREM Recent == Spec => []ShownIsRecent
<1>1. CASE OneCamera
  <2>1. Init => Newest
    BY DEF Init, Newest, NoMinimap, Storing, Storing2, Thread, Viewer
  <2>2. Init => Calibrated
    BY DEF Init, Calibrated, Storing2, Stored, Storing, Thread, Viewer
  <2>3. TypeOK /\ Inside /\ Calibrated /\ Newest /\ [Next]_vars => Newest'
    BY <1>1, NewestStep
  <2>4. Newest => ShownIsRecent
    BY DEF Newest, ShownIsRecent
  <2> QED
    BY <2>1, <2>2, <2>3, <2>4, Typed, CalibratedStep, PTL DEF Spec
<1>2. CASE ~OneCamera
  <2>1. ShownIsRecent
    BY <1>2, FewCameras DEF ShownIsRecent
  <2> QED
    BY <2>1, PTL
<1> QED
  BY <1>1, <1>2
=============================================================================
