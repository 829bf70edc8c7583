----------------------------- MODULE UsbDevices -----------------------------
(***************************************************************************)
(* How USB devices come to be used (UsbDeviceHandler.kt, UsbHelper.java,   *)
(* MainActivity.kt 160-167, 243-260 and 307-314).  The activity registers  *)
(* a receiver and asks for the permission of one device that is there; the *)
(* receiver asks for each device that is attached, unless its mark in      *)
(* deviceProcessingMap says that an answer is awaited, and on a granted    *)
(* permission starts a thread that classifies the device for five seconds  *)
(* and then listens to the keyboard or starts the capture.                 *)
(*                                                                         *)
(* Callbacks run on the main thread, one at a time.  The threads outlive   *)
(* the activity.  A device that is plugged in again has its name again.  A *)
(* listener whose device is gone goes round its loop for ever without an   *)
(* effect, and is left out from then on.                                   *)
(***************************************************************************)
EXTENDS Naturals, FiniteSets

CONSTANTS
  Device,       \* names of devices
  Type,         \* what the interfaces of a device say it is
  MaxPlugs,     \* how often a device is plugged in
  MaxLaunches   \* how often the activity is created

ASSUME DeviceAssumption ==
  /\ IsFiniteSet(Device)
  /\ Type \in [Device -> {"Keyboard", "CaptureBoard", "Unknown"}]
  /\ MaxPlugs \in Nat /\ MaxLaunches \in Nat

VARIABLES
  plugged,    \* devices
  permitted,  \* devices the app may open
  attaching,  \* ACTION_USB_DEVICE_ATTACHED on its way to the receiver
  asking,     \* permissions the user is asked for
  granting,   \* answers on their way to the receiver
  denying,
  app,        \* none, creating (its receiver is registered) or running
  marked,     \* deviceProcessingMap
  trying,     \* threads that classify a device
  starting,   \* threads that have classified it
  listening,  \* listener threads connected to it
  plugs, launches,
  excused     \* history: devices asked for beside what is already under way

count == <<attaching, asking, granting, denying, trying, starting, listening>>
vars == <<plugged, permitted, count, app, marked, plugs, launches, excused>>

TypeOK ==
  /\ plugged \subseteq Device /\ permitted \subseteq plugged
  /\ attaching \in [Device -> Nat] /\ asking \in [Device -> Nat]
  /\ granting \in [Device -> Nat] /\ denying \in [Device -> Nat]
  /\ trying \in [Device -> Nat] /\ starting \in [Device -> Nat]
  /\ listening \in [Device -> Nat]
  /\ app \in {"none", "creating", "running"}
  /\ marked \subseteq Device /\ excused \subseteq Device
  /\ plugs \in [Device -> 0..MaxPlugs] /\ launches \in 0..MaxLaunches
  /\ \A d \in Device :
       /\ starting[d] > 0 => Type[d] # "Unknown"
       /\ listening[d] > 0 => d \in permitted /\ Type[d] = "Keyboard"

None == [d \in Device |-> 0]
More(f, d) == [f EXCEPT ![d] = @ + 1]
Less(f, d) == [f EXCEPT ![d] = @ - 1]

Init ==
  /\ plugged = {} /\ permitted = {}
  /\ attaching = None /\ asking = None /\ granting = None /\ denying = None
  /\ app = "none" /\ marked = {}
  /\ trying = None /\ starting = None /\ listening = None
  /\ plugs = None /\ launches = 0
  /\ excused = {}

\* An answer for the device will come.
Awaited(d) == asking[d] + granting[d] + denying[d]

\* Threads at work on the device.
Threads(d) == trying[d] + starting[d] + listening[d]
-----------------------------------------------------------------------------
(* The system *)

Plug(d) ==
  /\ d \notin plugged /\ plugs[d] < MaxPlugs
  /\ plugged' = plugged \cup {d}
  /\ plugs' = More(plugs, d)
  /\ attaching' = IF app # "none" THEN More(attaching, d) ELSE attaching
  /\ UNCHANGED <<permitted, asking, granting, denying, app, marked, trying, starting,
                 listening, launches, excused>>

Unplug(d) ==
  /\ d \in plugged
  /\ plugged' = plugged \ {d} /\ permitted' = permitted \ {d}
  /\ listening' = [listening EXCEPT ![d] = 0]
  /\ excused' = IF Awaited(d) + trying[d] + starting[d] = 0 THEN excused \ {d} ELSE excused
  /\ UNCHANGED <<attaching, asking, granting, denying, app, marked, trying, starting,
                 plugs, launches>>

\* Of the user, or of the system for a device that is permitted or gone.
Answer(d) ==
  /\ asking[d] > 0 /\ asking' = Less(asking, d)
  /\ \/ /\ d \in plugged
        /\ permitted' = permitted \cup {d}
        /\ granting' = IF app # "none" THEN More(granting, d) ELSE granting
        /\ UNCHANGED denying
     \/ /\ d \notin permitted
        /\ denying' = IF app # "none" THEN More(denying, d) ELSE denying
        /\ UNCHANGED <<permitted, granting>>
  /\ UNCHANGED <<plugged, attaching, app, marked, trying, starting, listening, plugs,
                 launches, excused>>
-----------------------------------------------------------------------------
(* MainActivity *)

\* A new handler, with an empty deviceProcessingMap, registers its receiver.
OnCreate ==
  /\ app = "none" /\ app' = "creating"
  /\ launches < MaxLaunches /\ launches' = launches + 1
  /\ excused' = {d \in Device : Awaited(d) + Threads(d) > 0}
  /\ UNCHANGED <<plugged, permitted, count, marked, plugs>>

\* Of the devices that are there it asks for the first, without a mark.
InitializeUsbDevice ==
  /\ app = "creating" /\ app' = "running"
  /\ \/ plugged = {} /\ UNCHANGED <<asking, excused>>
     \/ \E d \in plugged : asking' = More(asking, d) /\ excused' = excused \cup {d}
  /\ UNCHANGED <<plugged, permitted, attaching, granting, denying, marked, trying, starting,
                 listening, plugs, launches>>

\* What is on its way to the receiver is dropped with it.
Cleanup ==
  /\ app' = "none" /\ marked' = {}
  /\ attaching' = None /\ granting' = None /\ denying' = None

\* cleanup unregisters the receiver; no thread is told.
OnDestroy ==
  /\ app = "running"
  /\ Cleanup
  /\ UNCHANGED <<plugged, permitted, asking, trying, starting, listening, plugs, launches,
                 excused>>
-----------------------------------------------------------------------------
(* usbReceiver *)

\* Mutant: the mark is set and not looked at.
OnAttachedAlways(d) ==
  /\ app = "running" /\ attaching[d] > 0 /\ attaching' = Less(attaching, d)
  /\ marked' = marked \cup {d}
  /\ asking' = More(asking, d)
  /\ excused' = IF Threads(d) > 0 THEN excused \cup {d} ELSE excused
  /\ UNCHANGED <<plugged, permitted, granting, denying, app, trying, starting, listening,
                 plugs, launches>>

OnAttached(d) ==
  /\ app = "running" /\ attaching[d] > 0 /\ attaching' = Less(attaching, d)
  /\ \/ d \in marked /\ UNCHANGED <<marked, asking, excused>>
     \/ /\ d \notin marked
        /\ marked' = marked \cup {d}
        /\ asking' = More(asking, d)
        /\ excused' = IF Threads(d) > 0 THEN excused \cup {d} ELSE excused
  /\ UNCHANGED <<plugged, permitted, granting, denying, app, trying, starting, listening,
                 plugs, launches>>

OnGranted(d) ==
  /\ app = "running" /\ granting[d] > 0 /\ granting' = Less(granting, d)
  /\ trying' = More(trying, d)
  /\ marked' = marked \ {d}
  /\ UNCHANGED <<plugged, permitted, attaching, asking, denying, app, starting, listening,
                 plugs, launches, excused>>

\* Mutant: only a granted permission clears the mark.
OnDeniedForgets(d) ==
  /\ app = "running" /\ denying[d] > 0 /\ denying' = Less(denying, d)
  /\ UNCHANGED <<plugged, permitted, attaching, asking, granting, app, marked, trying,
                 starting, listening, plugs, launches, excused>>

OnDenied(d) ==
  /\ app = "running" /\ denying[d] > 0 /\ denying' = Less(denying, d)
  /\ marked' = marked \ {d}
  /\ UNCHANGED <<plugged, permitted, attaching, asking, granting, app, trying, starting,
                 listening, plugs, launches, excused>>
-----------------------------------------------------------------------------
(* The threads *)

\* openDevice gives null for a device that is gone or not permitted, and may for another.
CanOpen(d) == d \in permitted

\* The tenth try decides, whatever the nine before it have found.
Classify(d) ==
  /\ trying[d] > 0 /\ trying' = Less(trying, d)
  /\ \/ CanOpen(d) /\ Type[d] # "Unknown" /\ starting' = More(starting, d)
     \/ UNCHANGED starting
  /\ UNCHANGED <<plugged, permitted, attaching, asking, granting, denying, app, marked,
                 listening, plugs, launches, excused>>

\* Mutant: the interface of a device that cannot be opened is taken for claimed.
StartListeningAlways(d) ==
  /\ Type[d] = "Keyboard"
  /\ starting[d] > 0 /\ starting' = Less(starting, d)
  /\ listening' = More(listening, d)
  /\ UNCHANGED <<plugged, permitted, attaching, asking, granting, denying, app, marked,
                 trying, plugs, launches, excused>>

\* openDevice or claimInterface may fail.
StartListeningForKeyboard(d) ==
  /\ Type[d] = "Keyboard"
  /\ starting[d] > 0 /\ starting' = Less(starting, d)
  /\ \/ CanOpen(d) /\ listening' = More(listening, d)
     \/ UNCHANGED listening
  /\ UNCHANGED <<plugged, permitted, attaching, asking, granting, denying, app, marked,
                 trying, plugs, launches, excused>>

StartCaptureDevice(d) ==
  /\ Type[d] = "CaptureBoard"
  /\ CanOpen(d)
  /\ starting[d] > 0 /\ starting' = Less(starting, d)
  /\ UNCHANGED <<plugged, permitted, attaching, asking, granting, denying, app, marked,
                 trying, listening, plugs, launches, excused>>

\* getFileDescriptor throws if openDevice gives null; nobody catches it and the process ends.
CaptureThrows(d) ==
  /\ Type[d] = "CaptureBoard"
  /\ starting[d] > 0
  /\ Cleanup
  /\ trying' = None /\ starting' = None /\ listening' = None
  /\ UNCHANGED <<plugged, permitted, asking, plugs, launches, excused>>
-----------------------------------------------------------------------------
DeviceNext(d) ==
  \/ Plug(d) \/ Unplug(d) \/ Answer(d)
  \/ OnAttached(d) \/ OnGranted(d) \/ OnDenied(d)
  \/ Classify(d) \/ StartListeningForKeyboard(d) \/ StartCaptureDevice(d) \/ CaptureThrows(d)

Next == OnCreate \/ InitializeUsbDevice \/ OnDestroy \/ \E d \in Device : DeviceNext(d)

Spec == Init /\ [][Next]_vars
-----------------------------------------------------------------------------
(* Properties *)

\* A device is never shut out for good: while its mark makes the receiver ignore that it is
\* attached, an answer is still to come that will clear the mark
\* (UsbDeviceHandler.kt 38-39 and 79).
NeverShutOut == \A d \in marked : app = "running" /\ Awaited(d) > 0

\* A keyboard that is plugged in has at most one listener thread, so that its reports keep
\* their order, unless the activity asked for it when it was created, or was created anew
\* while the device was in work, or it was attached again while a thread of an earlier
\* answer was at work on it: the mark is down by then (UsbDeviceHandler.kt 38-48, 59-79).
NotHeardTwice == \A d \in Device : listening[d] > 1 => d \in excused
=============================================================================
