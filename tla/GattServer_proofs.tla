-------------------------- MODULE GattServer_proofs -------------------------
(***************************************************************************)
(* Theorems about GattServer, for any number of senders, hosts, report     *)
(* characteristics and reports.                                            *)
(***************************************************************************)
EXTENDS GattServer, SequenceTheorems, TLAPS

USE GattAssumption DEF GattAssumption

\* The initial state is well typed.
LEMMA InitType == Init => TypeOK
<1> SUFFICES ASSUME Init PROVE TypeOK
  OBVIOUS
<1>1. local \in [Sender -> [channel : Channel, report : Report \cup {NoReport}]]
  BY DEF Init, NothingIn
<1>2. callbacks \in Seq(Callback)
  BY EmptySeq DEF Init
<1> QED
  BY <1>1, <1>2 DEF Init, TypeOK, Stage

\* Every step of the main thread keeps the types.
LEMMA MainType == TypeOK /\ MainNext => TypeOK'
<1> SUFFICES ASSUME TypeOK, MainNext PROVE TypeOK'
  OBVIOUS
<1> USE DEF TypeOK, Stage, stack, sending
<1>1. CASE OnCreateStops
  BY <1>1 DEF OnCreateStops
<1>2. CASE StartServer
  BY <1>2 DEF StartServer
<1>3. CASE AttemptAutoPairing
  BY <1>3 DEF AttemptAutoPairing
<1>4. CASE OnBondStateChanged
  BY <1>4 DEF OnBondStateChanged
<1>5. CASE OnDestroy
  BY <1>5, EmptySeq DEF OnDestroy
<1> QED
  BY <1>1, <1>2, <1>3, <1>4, <1>5 DEF MainNext

\* Every step of the Bluetooth stack keeps the types.
LEMMA StackType == TypeOK /\ StackNext => TypeOK'
<1> SUFFICES ASSUME TypeOK, StackNext PROVE TypeOK'
  OBVIOUS
<1> USE DEF TypeOK, sending, service
<1>1. CASE OnConnectionStateChange
  <2>1. Head(callbacks) \in Callback /\ Tail(callbacks) \in Seq(Callback)
    BY <1>1, HeadTailProperties DEF OnConnectionStateChange
  <2>2. mConnectedDevice' \in Host \cup {NoHost}
    BY <1>1, <2>1 DEF OnConnectionStateChange, Callback
  <2> QED
    BY <1>1, <2>1, <2>2 DEF OnConnectionStateChange
<1>2. ASSUME NEW h \in Host, Connect(h) \/ Disconnect(h) PROVE TypeOK'
  <2>1. \A b \in BOOLEAN : Append(callbacks, [host |-> h, up |-> b]) \in Seq(Callback)
    BY DEF Callback
  <2>2. callbacks' \in Seq(Callback)
    BY <1>2, <2>1 DEF Connect, Disconnect
  <2> QED
    BY <1>2, <2>2 DEF Connect, Disconnect, Serving
<1> QED
  BY <1>1, <1>2 DEF StackNext

\* Every step of a sender keeps the types.
LEMMA SenderType ==
  ASSUME TypeOK, NEW s \in Sender, SenderNext(s)
  PROVE  TypeOK'
<1> USE DEF TypeOK, At, ChannelOf, service, stack
<1> DEFINE Locals == [channel : Channel, report : Report \cup {NoReport}]
<1>1. local[s].channel \in Channel /\ local[s].report \in Report \cup {NoReport}
  OBVIOUS
<1>2. Finished(s) => local' \in [Sender -> Locals]
  <2>1. [local[s] EXCEPT !.report = NoReport] \in Locals
    OBVIOUS
  <2> QED
    BY <2>1 DEF Finished
<1>3. CASE SendReport(s)
  <2>1. handed' \in 0..MaxReports /\ handed' \in Report
    BY <1>3 DEF SendReport, Report
  <2>2. local' \in [Sender -> Locals]
    BY <1>3, <2>1 DEF SendReport
  <2> QED
    BY <1>3, <2>1, <2>2 DEF SendReport
<1>4. CASE SetValue(s)
  BY <1>1, <1>4 DEF SetValue
<1>5. CASE NotifyHost(s)
  BY <1>1, <1>2, <1>5 DEF NotifyHost
<1>6. CASE NotifyNobody(s)
  BY <1>1, <1>2, <1>6 DEF NotifyNobody
<1>7. CASE NotifyNull(s)
  BY <1>1, <1>2, <1>7 DEF NotifyNull
<1> QED
  BY <1>3, <1>4, <1>5, <1>6, <1>7 DEF SenderNext

\* Every variable keeps its type, and a service that is not open has no connection
\* (GattServer!TypeOK).
THEOREM TypeCorrect == Spec => []TypeOK
<1>1. TypeOK /\ UNCHANGED vars => TypeOK'
  BY DEF TypeOK, vars, service, stack, sending
<1>2. TypeOK /\ [Next]_vars => TypeOK'
  BY <1>1, MainType, StackType, SenderType DEF Next, Ended
<1> QED
  BY InitType, <1>2, PTL DEF Spec
-----------------------------------------------------------------------------
\* Setting a value and notifying keep the host's picture the last one set.
LEMMA ConvergedStep == TypeOK /\ Converged /\ [Next]_vars => Converged'
<1> SUFFICES ASSUME TypeOK, Converged, [Next]_vars PROVE Converged'
  OBVIOUS
<1> USE DEF Converged, ChannelOf
<1>1. CASE UNCHANGED sending
  BY <1>1 DEF sending
<1>2. ASSUME NEW s \in Sender, SenderNext(s) PROVE Converged'
  <2> SUFFICES ASSUME NEW c \in Channel \ missed',
                      \A t \in Sender : pc'[t] # "notify" \/ local'[t].channel # c
               PROVE  notified'[c] = value'[c]
    OBVIOUS
  <2> USE DEF TypeOK, At
  <2>1. CASE SendReport(s)
    <3>1. \A t \in Sender : pc[t] # "notify" \/ local[t].channel # c
      BY <2>1 DEF SendReport
    <3> QED
      BY <2>1, <3>1 DEF SendReport
  <2>2. CASE SetValue(s)
    <3>1. local[s].channel # c /\ value'[c] = value[c]
      BY <2>2 DEF SetValue
    <3>2. \A t \in Sender : pc[t] # "notify" \/ local[t].channel # c
      BY <2>2, <3>1 DEF SetValue
    <3> QED
      BY <2>2, <3>1, <3>2 DEF SetValue
  <2>3. CASE local[s].channel # c /\ (NotifyHost(s) \/ NotifyNobody(s) \/ NotifyNull(s))
    <3>1. \A t \in Sender : pc[t] # "notify" \/ local[t].channel # c
      BY <2>3 DEF NotifyHost, NotifyNobody, NotifyNull, Finished
    <3>2. c \notin missed /\ notified'[c] = notified[c] /\ value' = value
      BY <2>3 DEF NotifyHost, NotifyNobody, NotifyNull
    <3> QED
      BY <3>1, <3>2
  <2>4. CASE local[s].channel = c /\ NotifyHost(s)
    BY <2>4 DEF NotifyHost
  <2>5. CASE local[s].channel = c /\ (NotifyNobody(s) \/ NotifyNull(s))
    BY <2>5 DEF NotifyNobody, NotifyNull
  <2> QED
    BY <1>2, <2>1, <2>2, <2>3, <2>4, <2>5 DEF SenderNext
<1> QED
  BY <1>1, <1>2 DEF Next, Ended, MainNext, StackNext, OnCreateStops, StartServer,
                    AttemptAutoPairing, OnBondStateChanged, OnDestroy, Connect, Disconnect,
                    OnConnectionStateChange, vars

\* Whatever the senders' interleaving, a host is not left with an old state of the keys or
\* buttons (GattServer!Converged, lines 621-622 and 642-645).
THEOREM HostsConverge == Spec => []Converged
<1>1. Init => Converged
  BY DEF Init, Converged
<1> QED
  BY <1>1, ConvergedStep, TypeCorrect, PTL DEF Spec
-----------------------------------------------------------------------------
(* A host that has the service to itself *)

\* Nobody else is named anywhere, and the callbacks the stack still has to run end in what
\* the link is now.
Alone(h) ==
  /\ {mConnectedDevice, saved} \subseteq {h, NoHost}
  /\ \A i \in 1..Len(callbacks) : callbacks[i].host = h
  /\ callbacks # << >> => (callbacks[Len(callbacks)].up <=> h \in link)
  /\ callbacks = << >> /\ h \in link => mConnectedDevice = h
AloneInv ==
  /\ {mConnectedDevice, saved} \cup link \subseteq met \cup {NoHost}
  /\ \A h \in Host : met = {h} => Alone(h)
  /\ \A i \in 1..Len(callbacks) : callbacks[i].host \in met

\* Appending a callback makes it the last one.
LEMMA AppendLast ==
  ASSUME NEW q \in Seq(Callback), NEW c \in Callback
  PROVE  LET a == Append(q, c)
         IN  /\ a # << >> /\ a[Len(a)] = c
             /\ \A i \in 1..Len(a) : a[i] = c \/ (i \in 1..Len(q) /\ a[i] = q[i])
<1> DEFINE a == Append(q, c)
<1>1. Len(a) = Len(q) + 1 /\ Len(q) \in Nat /\ a # << >> /\ a[Len(q) + 1] = c
  BY AppendProperties, LenProperties
<1>2. \A i \in 1..Len(q) : a[i] = q[i]
  BY AppendProperties
<1> QED
  BY <1>1, <1>2

\* Running the first callback leaves the last one, if there is another.
LEMMA TailLast ==
  ASSUME NEW q \in Seq(Callback), q # << >>
  PROVE  LET t == Tail(q)
         IN  /\ Head(q) = q[1] /\ Len(q) \in Nat \ {0}
             /\ t = << >> => Len(q) = 1
             /\ t # << >> => t[Len(t)] = q[Len(q)]
             /\ \A i \in 1..Len(t) : i + 1 \in 1..Len(q) /\ t[i] = q[i + 1]
<1> DEFINE t == Tail(q)
<1>1. Head(q) = q[1] /\ Len(q) \in Nat \ {0} /\ Len(t) = Len(q) - 1 /\ t \in Seq(Callback)
  BY HeadTailProperties, LenProperties, EmptySeq
<1>2. \A i \in 1..Len(t) : i + 1 \in 1..Len(q) /\ t[i] = q[i + 1]
  BY <1>1, HeadTailProperties
<1>3. t = << >> => Len(q) = 1
  <2>1. t = << >> => Len(t) = 0
    BY EmptySeq
  <2> QED
    BY <1>1, <2>1
<1>4. t # << >> => Len(t) \in 1..Len(t)
  BY <1>1, EmptySeq
<1>5. t # << >> => t[Len(t)] = q[Len(q)]
  BY <1>1, <1>2, <1>4
<1> QED
  BY <1>1, <1>2, <1>3, <1>5

\* What the stack does keeps a host that is alone served.
LEMMA AloneStack == TypeOK /\ AloneInv /\ StackNext => AloneInv'
<1> SUFFICES ASSUME TypeOK, AloneInv, StackNext PROVE AloneInv'
  OBVIOUS
<1> USE DEF TypeOK, AloneInv, Alone, service
<1>1. CASE OnConnectionStateChange
  <2> DEFINE q == Tail(callbacks)
  <2>1. /\ callbacks # << >> /\ callbacks' = q /\ UNCHANGED <<saved, link, met>>
        /\ mConnectedDevice' = IF Head(callbacks).up THEN Head(callbacks).host ELSE NoHost
    BY <1>1 DEF OnConnectionStateChange
  <2>2. ASSUME NEW h \in Host, met = {h} PROVE Alone(h)'
    <3>1. Head(callbacks).host = h
      BY <2>1, <2>2, TailLast
    <3>2. \A i \in 1..Len(q) : q[i].host = h
      BY <2>1, <2>2, TailLast
    <3>3. q # << >> => (q[Len(q)].up <=> h \in link)
      BY <2>1, <2>2, TailLast
    <3>4. q = << >> /\ h \in link => Head(callbacks).up
      BY <2>1, <2>2, TailLast
    <3> QED
      BY <2>1, <2>2, <3>1, <3>2, <3>3, <3>4
  <2>3. mConnectedDevice' \in met \cup {NoHost}
    BY <2>1, TailLast
  <2>4. \A i \in 1..Len(q) : q[i].host \in met
    BY <2>1, TailLast
  <2> QED
    BY <2>1, <2>2, <2>3, <2>4
<1>2. ASSUME NEW h \in Host, Connect(h) \/ Disconnect(h) PROVE AloneInv'
  <2>1. PICK b \in BOOLEAN : /\ callbacks' = Append(callbacks, [host |-> h, up |-> b])
                             /\ b <=> h \in link'
    BY <1>2 DEF Connect, Disconnect
  <2>2. /\ met' = met \cup {h} /\ link' \subseteq link \cup {h}
        /\ UNCHANGED <<mConnectedDevice, saved>>
    BY <1>2 DEF Connect, Disconnect
  <2> DEFINE c == [host |-> h, up |-> b]
             a == callbacks'
  <2>3. c \in Callback /\ c.host = h /\ c.up = b
    BY DEF Callback
  <2>4. /\ a # << >> /\ a[Len(a)] = c
        /\ \A i \in 1..Len(a) : a[i] = c \/ (i \in 1..Len(callbacks) /\ a[i] = callbacks[i])
    BY <2>1, <2>3, AppendLast
  <2>5. \A i \in 1..Len(a) : a[i].host \in met'
    BY <2>2, <2>3, <2>4
  <2>6. {mConnectedDevice', saved'} \cup link' \subseteq met' \cup {NoHost}
    BY <2>2
  <2>7. ASSUME NEW g \in Host, met' = {g} PROVE Alone(g)'
    <3>1. g = h
      BY <2>2, <2>7
    <3> HIDE DEF a, c
    <3> QED
      BY <2>1, <2>3, <2>4, <2>5, <2>6, <2>7, <3>1 DEF a
  <2> QED
    BY <2>5, <2>6, <2>7
<1> QED
  BY <1>1, <1>2 DEF StackNext

\* So does what the main thread does: the saved device, when there is one, is that host.
LEMMA AloneMain == TypeOK /\ AloneInv /\ MainNext => AloneInv'
<1> SUFFICES ASSUME TypeOK, AloneInv, MainNext PROVE AloneInv'
  OBVIOUS
<1> USE DEF TypeOK, AloneInv, Alone, stack
<1>1. CASE OnCreateStops \/ StartServer
  BY <1>1 DEF OnCreateStops, StartServer
<1>2. CASE AttemptAutoPairing
  BY <1>2 DEF AttemptAutoPairing
<1>3. CASE OnBondStateChanged
  BY <1>3 DEF OnBondStateChanged
<1>4. CASE OnDestroy
  <2>1. Len(callbacks') = 0
    BY <1>4 DEF OnDestroy
  <2> QED
    BY <1>4, <2>1 DEF OnDestroy
<1> QED
  BY <1>1, <1>2, <1>3, <1>4 DEF MainNext

\* A host that has the service to itself counts as connected whenever it is and the service
\* has been told, although attemptAutoPairing and the callbacks race (GattServer!
\* OnlyHostServed, lines 222-224, 486 and 883).
THEOREM OnlyHostIsServed == Spec => []OnlyHostServed
<1>1. Init => AloneInv
  BY EmptySeq DEF Init, AloneInv, Alone
<1>2. TypeOK /\ AloneInv /\ [Next]_vars => AloneInv'
  <2> SUFFICES ASSUME TypeOK, AloneInv, [Next]_vars PROVE AloneInv'
    OBVIOUS
  <2>1. CASE UNCHANGED <<service, stack>>
    BY <2>1 DEF service, stack, AloneInv, Alone
  <2>2. ASSUME NEW s \in Sender, SenderNext(s) PROVE UNCHANGED <<service, stack>>
    BY <2>2 DEF SenderNext, SendReport, SetValue, NotifyHost, NotifyNobody, NotifyNull
  <2> QED
    BY <2>1, <2>2, AloneStack, AloneMain DEF Next, Ended, vars
<1>3. AloneInv => OnlyHostServed
  BY DEF AloneInv, Alone, OnlyHostServed
<1> QED
  BY <1>1, <1>2, <1>3, TypeCorrect, PTL DEF Spec
=============================================================================
