----------------------------- MODULE GattServer -----------------------------
(***************************************************************************)
(* GattServerService.java: the HID-over-GATT server that every report      *)
(* leaves through.  The main thread creates and destroys the service; the  *)
(* Bluetooth stack calls mGattServerCallback on a binder thread; keyboard  *)
(* listeners, replay workers and gRPC handlers call sendReport and         *)
(* sendMouseInput.  None of it holds a lock: a sender tests                *)
(* mConnectedDevice, sets the characteristic's value and notifies, and     *)
(* the other threads act in between.                                       *)
(*                                                                         *)
(* Reports are numbered in the order in which senders hand them over.      *)
(***************************************************************************)
EXTENDS Naturals, Sequences

CONSTANTS
  Sender,        \* threads that send reports
  Fatal,         \* those whose uncaught exceptions end the process
  Host,          \* Bluetooth hosts
  NoHost,        \* null
  Channel,       \* the keyboard's and the mouse's report characteristic
  MaxReports,    \* bound: reports handed over
  MaxCallbacks   \* bound: callbacks the stack has not run yet

ASSUME GattAssumption ==
  /\ Fatal \subseteq Sender
  /\ NoHost \notin Host
  /\ MaxReports \in Nat /\ MaxCallbacks \in Nat

VARIABLES
  main,              \* where the service is in its life
  mConnectedDevice,  \* GattServerService.mConnectedDevice
  saved,             \* device_address in the preferences, NoHost when there is none
  value,             \* the value of each report characteristic
  pc,                \* where each sender is
  local,             \* the report each sender has in hand
  \* The Bluetooth stack, modelled from how the service uses it.
  link,              \* hosts that are connected
  callbacks,         \* changes of connection the service has not been told of
  notified,          \* the last report a notification carried to a host
  alive,             \* the process runs
  \* History variables, for the properties only.
  handed,            \* reports handed over
  met,               \* hosts that have been connected, or were saved by an earlier run
  missed             \* channels on which the last notification reached nobody

stack == <<link, callbacks, met>>
service == <<main, mConnectedDevice, saved>>
sending == <<value, pc, local, notified, handed, missed>>
vars == <<service, stack, sending, alive>>
-----------------------------------------------------------------------------
NoReport == 0
Report == 1..MaxReports
Stage == {"create", "server", "running", "stopped", "destroyed"}
Callback == [host : Host, up : BOOLEAN]

TypeOK ==
  /\ main \in Stage
  /\ mConnectedDevice \in Host \cup {NoHost}
  /\ saved \in Host \cup {NoHost}
  /\ value \in [Channel -> Report \cup {NoReport}]
  /\ pc \in [Sender -> {"idle", "set", "notify"}]
  /\ local \in [Sender -> [channel : Channel, report : Report \cup {NoReport}]]
  /\ link \subseteq Host
  /\ callbacks \in Seq(Callback)
  /\ notified \in [Channel -> Report \cup {NoReport}]
  /\ alive \in BOOLEAN
  /\ handed \in 0..MaxReports
  /\ met \subseteq Host
  /\ missed \subseteq Channel
  /\ main \notin {"server", "running"} => link = {} /\ callbacks = << >>

NothingIn(c) == [channel |-> c, report |-> NoReport]
Init ==
  /\ main = "create" /\ mConnectedDevice = NoHost /\ saved \in Host \cup {NoHost}
  /\ value = [c \in Channel |-> NoReport] /\ notified = value
  /\ pc = [s \in Sender |-> "idle"]
  /\ \E c \in Channel : local = [s \in Sender |-> NothingIn(c)]
  /\ link = {} /\ callbacks = << >>
  /\ alive = TRUE
  /\ handed = 0 /\ met = {saved} \ {NoHost} /\ missed = {}
-----------------------------------------------------------------------------
(* onCreate and onDestroy, on the main thread *)

\* Lines 196-206: Bluetooth is off, or cannot advertise.  stopSelf leaves the service to
\* the clients that are bound to it.
OnCreateStops ==
  /\ main = "create" /\ main' = "stopped"
  /\ UNCHANGED <<mConnectedDevice, saved, stack, sending, alive>>

\* Lines 220-222: from here on hosts connect.
StartServer ==
  /\ main = "create" /\ main' = "server"
  /\ UNCHANGED <<mConnectedDevice, saved, stack, sending, alive>>

\* Mutant: no saved device overwrites as well.
AutoPairingForgets ==
  /\ main = "server" /\ main' = "running"
  /\ mConnectedDevice' = saved
  /\ UNCHANGED <<saved, stack, sending, alive>>

\* Lines 873-885: the device the preferences name counts as connected at once, unless it is
\* not bonded and the permission to bond with it is missing (876-880).
AttemptAutoPairing ==
  /\ main = "server" /\ main' = "running"
  /\ mConnectedDevice' \in {mConnectedDevice} \cup ({saved} \ {NoHost})
  /\ UNCHANGED <<saved, stack, sending, alive>>

\* Mutant: the server is left open.
OnDestroyLeavesServer ==
  /\ main \in {"running", "stopped"} /\ main' = "destroyed"
  /\ alive' = (main = "running")
  /\ UNCHANGED <<mConnectedDevice, saved, sending, stack>>

\* Lines 888-903.  A service that stopped in onCreate has registered no receiver, and
\* unregisterReceiver throws.
OnDestroy ==
  /\ main \in {"running", "stopped"} /\ main' = "destroyed"
  /\ alive' = (main = "running")
  /\ link' = {} /\ callbacks' = << >>
  /\ UNCHANGED <<mConnectedDevice, saved, sending, met>>
-----------------------------------------------------------------------------
(* The Bluetooth stack and mGattServerCallback *)

Serving == main \in {"server", "running"}

Connect(h) ==
  /\ Serving /\ h \notin link /\ Len(callbacks) < MaxCallbacks
  /\ link' = link \cup {h} /\ met' = met \cup {h}
  /\ callbacks' = Append(callbacks, [host |-> h, up |-> TRUE])
  /\ UNCHANGED <<service, sending, alive>>

Disconnect(h) ==
  /\ Serving /\ h \in link /\ Len(callbacks) < MaxCallbacks
  /\ link' = link \ {h}
  /\ callbacks' = Append(callbacks, [host |-> h, up |-> FALSE])
  /\ UNCHANGED <<service, sending, met, alive>>

\* Lines 481-491: whichever host went, nobody is connected.
OnConnectionStateChange ==
  /\ callbacks # << >>
  /\ mConnectedDevice' = IF Head(callbacks).up THEN Head(callbacks).host ELSE NoHost
  /\ callbacks' = Tail(callbacks)
  /\ UNCHANGED <<main, saved, sending, link, met, alive>>

\* Lines 162-183, once onCreate has registered the receiver (line 216): the address of the
\* connected device is saved when it bonds and removed when it unbonds.
OnBondStateChanged ==
  /\ main = "running" /\ mConnectedDevice # NoHost
  /\ saved' \in {mConnectedDevice, NoHost}
  /\ UNCHANGED <<main, mConnectedDevice, stack, sending, alive>>
-----------------------------------------------------------------------------
(* sendReport and sendMouseInput, on a sender's thread *)

At(s, from, to) == pc[s] = from /\ pc' = [pc EXCEPT ![s] = to]
ChannelOf(s) == local[s].channel

\* Lines 587-616 and 627-638, with a device connected; otherwise nothing happens.
\* Clients are given the service when onCreate has returned.
SendReport(s) ==
  /\ At(s, "idle", "set")
  /\ main \notin {"create", "server"}
  /\ mConnectedDevice # NoHost
  /\ handed < MaxReports /\ handed' = handed + 1
  /\ \E c \in Channel : local' = [local EXCEPT ![s] = [channel |-> c, report |-> handed + 1]]
  /\ UNCHANGED <<service, stack, alive, value, notified, missed>>

\* Lines 621 and 642.
SetValue(s) ==
  /\ At(s, "set", "notify")
  /\ value' = [value EXCEPT ![ChannelOf(s)] = local[s].report]
  /\ UNCHANGED <<service, stack, alive, local, notified, handed, missed>>

Finished(s) == local' = [local EXCEPT ![s].report = NoReport]

\* Mutant: the notification is of the report in hand, not of the characteristic.
NotifyHostByValue(s) ==
  /\ At(s, "notify", "idle")
  /\ mConnectedDevice \in link
  /\ notified' = [notified EXCEPT ![ChannelOf(s)] = local[s].report]
  /\ missed' = missed \ {ChannelOf(s)}
  /\ Finished(s)
  /\ UNCHANGED <<service, stack, alive, value, handed>>

\* Lines 622 and 645.  notifyCharacteristicChanged sends the value the characteristic has
\* now to the device that counts as connected now ...
NotifyHost(s) ==
  /\ At(s, "notify", "idle")
  /\ mConnectedDevice \in link
  /\ notified' = [notified EXCEPT ![ChannelOf(s)] = value[ChannelOf(s)]]
  /\ missed' = missed \ {ChannelOf(s)}
  /\ Finished(s)
  /\ UNCHANGED <<service, stack, alive, value, handed>>

\* ... or returns false when that is not connected ...
NotifyNobody(s) ==
  /\ At(s, "notify", "idle")
  /\ mConnectedDevice \in Host \ link
  /\ missed' = missed \cup {ChannelOf(s)}
  /\ Finished(s)
  /\ UNCHANGED <<service, stack, alive, value, notified, handed>>

\* ... or throws a NullPointerException when it is null by now.
NotifyNull(s) ==
  /\ At(s, "notify", "idle")
  /\ mConnectedDevice = NoHost
  /\ missed' = missed \cup {ChannelOf(s)}
  /\ Finished(s)
  /\ alive' = (s \notin Fatal)
  /\ UNCHANGED <<service, stack, value, notified, handed>>

MainNext == OnCreateStops \/ StartServer \/ AttemptAutoPairing \/ OnBondStateChanged \/ OnDestroy
StackNext == OnConnectionStateChange \/ \E h \in Host : Connect(h) \/ Disconnect(h)
SenderNext(s) == SendReport(s) \/ SetValue(s) \/ NotifyHost(s) \/ NotifyNobody(s) \/ NotifyNull(s)

Ended == (~alive \/ main = "destroyed") /\ UNCHANGED vars

Next ==
  \/ alive /\ (MainNext \/ StackNext \/ \E s \in Sender : SenderNext(s))
  \/ Ended

Spec == Init /\ [][Next]_vars
-----------------------------------------------------------------------------
(* Properties *)

\* When no report is under way on a channel, the last one a host was told is the last one
\* set: reports of concurrent senders may be swallowed, but the host is never left with an
\* old state of keys or buttons, unless the last notification found nobody (lines 642-645).
Converged ==
  \A c \in Channel \ missed :
    (\A s \in Sender : pc[s] # "notify" \/ ChannelOf(s) # c) => notified[c] = value[c]

\* The only host there is is served whenever it is connected and its callbacks have run,
\* even if it connects before onCreate gets to attemptAutoPairing (lines 222-224, 486, 883).
OnlyHostServed ==
  \A h \in Host : met = {h} /\ h \in link /\ callbacks = << >> => mConnectedDevice = h

\* GattServerService.java:620 ("send the mouse report"): the report a call sends is the one
\* it was given.
OwnReport ==
  [][\A s \in Sender : NotifyHost(s) => value[ChannelOf(s)] = local[s].report]_vars
=============================================================================
