------------------------- MODULE UsbDevices_proofs --------------------------
(***************************************************************************)
(* Proofs about UsbDevices, for any devices, any number of plugs and any   *)
(* number of activities.                                                   *)
(***************************************************************************)
EXTENDS UsbDevices, TLAPS

USE DeviceAssumption

\* What None is.
LEMMA NoneFacts == None \in [Device -> Nat] /\ \A d \in Device : None[d] = 0
BY DEF None
-----------------------------------------------------------------------------
(* Types *)

\* The initial state is well typed.
LEMMA TypeInit == Init => TypeOK
BY NoneFacts DEF Init, TypeOK, None

\* TypeOK is inductive.
LEMMA TypeStep == TypeOK /\ [Next]_vars => TypeOK'
<1> SUFFICES ASSUME TypeOK, [Next]_vars PROVE TypeOK'
  OBVIOUS
<1> USE DEF TypeOK
<1>1. CASE OnCreate
  BY <1>1 DEF OnCreate, count
<1>2. CASE InitializeUsbDevice
  BY <1>2 DEF InitializeUsbDevice, More
<1>3. CASE OnDestroy
  BY <1>3, NoneFacts DEF OnDestroy, Cleanup
<1>4. ASSUME NEW d \in Device, DeviceNext(d) PROVE TypeOK'
  <2>1. CASE Plug(d)
    <3>1. plugs' \in [Device -> 0..MaxPlugs]
      BY <2>1 DEF Plug, More
    <3> QED BY <2>1, <3>1 DEF Plug, More
  <2>2. CASE Unplug(d)
    BY <2>2 DEF Unplug
  <2>3. CASE Answer(d)
    BY <2>3 DEF Answer, More, Less
  <2>4. CASE OnAttached(d)
    BY <2>4 DEF OnAttached, More, Less
  <2>5. CASE OnGranted(d)
    BY <2>5 DEF OnGranted, More, Less
  <2>6. CASE OnDenied(d)
    BY <2>6 DEF OnDenied, Less
  <2>7. CASE Classify(d)
    BY <2>7 DEF Classify, More, Less
  <2>8. CASE StartListeningForKeyboard(d)
    BY <2>8 DEF StartListeningForKeyboard, CanOpen, More, Less
  <2>9. CASE StartCaptureDevice(d)
    BY <2>9 DEF StartCaptureDevice, Less
  <2>10. CASE CaptureThrows(d)
    BY <2>10, NoneFacts DEF CaptureThrows, Cleanup
  <2> QED
    BY <1>4, <2>1, <2>2, <2>3, <2>4, <2>5, <2>6, <2>7, <2>8, <2>9, <2>10 DEF DeviceNext
<1>5. CASE UNCHANGED vars
  BY <1>5 DEF vars, count
<1> QED
  BY <1>1, <1>2, <1>3, <1>4, <1>5 DEF Next

\* Every variable keeps its type, and a thread listens to a permitted keyboard only.
THEOREM TypeCorrect == Spec => []TypeOK
<1>1. Init => TypeOK
  BY TypeInit
<1>2. TypeOK /\ [Next]_vars => TypeOK'
  BY TypeStep
<1> QED
  BY <1>1, <1>2, PTL DEF Spec
-----------------------------------------------------------------------------
(* Marks *)

\* NeverShutOut is inductive with the types.
LEMMA MarkStep == TypeOK /\ NeverShutOut /\ [Next]_vars => NeverShutOut'
<1> SUFFICES ASSUME TypeOK, NeverShutOut, [Next]_vars, NEW m \in marked'
             PROVE  (app = "running")' /\ (Awaited(m) > 0)'
  BY DEF NeverShutOut
<1> USE DEF TypeOK, NeverShutOut, Awaited
<1>0. TypeOK'
  BY TypeStep
<1>1. CASE OnCreate
  BY <1>1 DEF OnCreate, count
<1>2. CASE InitializeUsbDevice
  BY <1>2 DEF InitializeUsbDevice
<1>3. CASE OnDestroy
  BY <1>3 DEF OnDestroy, Cleanup
<1>4. ASSUME NEW d \in Device, DeviceNext(d)
      PROVE  (app = "running")' /\ (Awaited(m) > 0)'
  <2>1. CASE Plug(d)
    BY <2>1 DEF Plug
  <2>2. CASE Unplug(d)
    BY <2>2 DEF Unplug
  <2>3. CASE Answer(d)
    \* With the activity there, what is no longer asked is on its way.
    <3>1. app = "running" /\ app' = app /\ m \in Device
      BY <2>3 DEF Answer
    <3>2. CASE m = d
      BY <2>3, <3>1, <3>2, <1>0 DEF Answer, More, Less
    <3>3. CASE m # d
      BY <2>3, <3>1, <3>3 DEF Answer, More, Less
    <3> QED BY <3>2, <3>3
  <2>4. CASE OnAttached(d)
    BY <2>4 DEF OnAttached, More
  <2>5. CASE OnGranted(d)
    BY <2>5 DEF OnGranted, Less
  <2>6. CASE OnDenied(d)
    BY <2>6 DEF OnDenied, Less
  <2>7. CASE Classify(d)
    BY <2>7 DEF Classify
  <2>8. CASE StartListeningForKeyboard(d)
    BY <2>8 DEF StartListeningForKeyboard
  <2>9. CASE StartCaptureDevice(d)
    BY <2>9 DEF StartCaptureDevice
  <2>10. CASE CaptureThrows(d)
    BY <2>10 DEF CaptureThrows, Cleanup
  <2> QED
    BY <1>4, <2>1, <2>2, <2>3, <2>4, <2>5, <2>6, <2>7, <2>8, <2>9, <2>10 DEF DeviceNext
<1>5. CASE UNCHANGED vars
  BY <1>5 DEF vars, count
<1> QED
  BY <1>1, <1>2, <1>3, <1>4, <1>5 DEF Next

\* While a mark stands an answer is still to come that will clear it.
THEOREM ShutsNobodyOut == Spec => []NeverShutOut
<1>1. Init => NeverShutOut
  BY DEF Init, NeverShutOut
<1>2. TypeOK /\ NeverShutOut /\ [Next]_vars => NeverShutOut'
  BY MarkStep
<1> QED
  BY <1>1, <1>2, TypeCorrect, PTL DEF Spec
-----------------------------------------------------------------------------
(* Listeners *)

\* For a device that is not excused one thing is under way at a time: an answer that is
\* awaited behind a mark, or a thread.
Single ==
  \A d \in Device \ excused :
    /\ Awaited(d) + Threads(d) <= 1
    /\ app # "none" /\ Awaited(d) > 0 => d \in marked

\* Single is inductive with NeverShutOut.
LEMMA SingleStep == TypeOK /\ NeverShutOut /\ Single /\ [Next]_vars => Single'
<1> SUFFICES ASSUME TypeOK, NeverShutOut, Single, [Next]_vars, NEW e \in Device, e \notin excused'
             PROVE  /\ (Awaited(e) + Threads(e) <= 1)'
                    /\ (app # "none" /\ Awaited(e) > 0 => e \in marked)'
  BY DEF Single
<1> DEFINE Goal == /\ (Awaited(e) + Threads(e) <= 1)'
                   /\ (app # "none" /\ Awaited(e) > 0 => e \in marked)'
<1>0. TypeOK'
  BY TypeStep
<1> USE DEF TypeOK, Awaited, Threads
<1>1. CASE OnCreate
  BY <1>1 DEF OnCreate, count
<1>2. CASE InitializeUsbDevice
  <2>1. e \notin excused /\ asking'[e] = asking[e]
    BY <1>2 DEF InitializeUsbDevice, More
  <2> QED BY <1>2, <2>1 DEF InitializeUsbDevice, Single
<1>3. CASE OnDestroy
  BY <1>3, NoneFacts DEF OnDestroy, Cleanup, Single
<1>4. ASSUME NEW d \in Device, DeviceNext(d) PROVE Goal
  <2>1. CASE Plug(d)
    BY <2>1 DEF Plug, Single
  <2>2. CASE Unplug(d)
    <3>1. CASE e = d
      BY <2>2, <3>1 DEF Unplug, Single
    <3>2. CASE e # d
      BY <2>2, <3>2 DEF Unplug, Single
    <3> QED BY <3>1, <3>2
  <2>3. CASE Answer(d)
    \* The answer is on its way, or lost with its receiver.
    <3>1. CASE e = d
      BY <2>3, <3>1 DEF Answer, Single, More, Less
    <3>2. CASE e # d
      BY <2>3, <3>2 DEF Answer, Single, More, Less
    <3> QED BY <3>1, <3>2
  <2>4. CASE OnAttached(d)
    <3>0. e \notin excused /\ app = "running"
      BY <2>4 DEF OnAttached
    <3>1. CASE e = d /\ d \notin marked
      \* Nothing is under way, or the device would be excused from now on.
      <4>1. Awaited(e) = 0
        <5>1. e \in Device \ excused /\ app # "none" /\ e \notin marked
          BY <3>0, <3>1
        <5>2. ~(Awaited(e) > 0)
          BY <5>1 DEF Single
        <5> QED BY <5>2
      <4>2. Threads(e) = 0
        BY <2>4, <3>1 DEF OnAttached
      <4>3. asking'[e] = asking[e] + 1 /\ e \in marked'
        BY <2>4, <3>1 DEF OnAttached, More
      <4>4. UNCHANGED <<granting, denying, trying, starting, listening>>
        BY <2>4 DEF OnAttached
      <4> QED BY <4>1, <4>2, <4>3, <4>4
    <3>2. CASE d \in marked
      BY <2>4, <3>0, <3>2 DEF OnAttached, Single
    <3>3. CASE e # d
      BY <2>4, <3>0, <3>3 DEF OnAttached, Single, More
    <3> QED BY <3>1, <3>2, <3>3
  <2>5. CASE OnGranted(d)
    <3>1. CASE e = d
      BY <2>5, <3>1 DEF OnGranted, Single, More, Less
    <3>2. CASE e # d
      BY <2>5, <3>2 DEF OnGranted, Single, More, Less
    <3> QED BY <3>1, <3>2
  <2>6. CASE OnDenied(d)
    <3>1. CASE e = d
      BY <2>6, <3>1 DEF OnDenied, Single, Less
    <3>2. CASE e # d
      BY <2>6, <3>2 DEF OnDenied, Single, Less
    <3> QED BY <3>1, <3>2
  <2>7. CASE Classify(d)
    <3>1. CASE e = d
      BY <2>7, <3>1 DEF Classify, Single, More, Less
    <3>2. CASE e # d
      BY <2>7, <3>2 DEF Classify, Single, More, Less
    <3> QED BY <3>1, <3>2
  <2>8. CASE StartListeningForKeyboard(d)
    <3>1. CASE e = d
      BY <2>8, <3>1 DEF StartListeningForKeyboard, Single, More, Less
    <3>2. CASE e # d
      BY <2>8, <3>2 DEF StartListeningForKeyboard, Single, More, Less
    <3> QED BY <3>1, <3>2
  <2>9. CASE StartCaptureDevice(d)
    <3>1. CASE e = d
      BY <2>9, <3>1 DEF StartCaptureDevice, Single, Less
    <3>2. CASE e # d
      BY <2>9, <3>2 DEF StartCaptureDevice, Single, Less
    <3> QED BY <3>1, <3>2
  <2>10. CASE CaptureThrows(d)
    BY <2>10, NoneFacts DEF CaptureThrows, Cleanup, Single
  <2> QED
    BY <1>4, <2>1, <2>2, <2>3, <2>4, <2>5, <2>6, <2>7, <2>8, <2>9, <2>10 DEF DeviceNext
<1>5. CASE UNCHANGED vars
  BY <1>5 DEF vars, count, Single
<1> QED
  BY <1>1, <1>2, <1>3, <1>4, <1>5 DEF Next

\* A keyboard has one listener thread, the named cases aside.
THEOREM HeardOnce == Spec => []NotHeardTwice
<1>1. Init => Single
  BY NoneFacts DEF Init, Single, Awaited, Threads
<1>2. TypeOK /\ NeverShutOut /\ Single /\ [Next]_vars => Single'
  BY SingleStep
<1>3. TypeOK /\ Single => NotHeardTwice
  BY DEF TypeOK, Single, NotHeardTwice, Awaited, Threads
<1> QED
  BY <1>1, <1>2, <1>3, TypeCorrect, ShutsNobodyOut, PTL DEF Spec
=============================================================================
