------------------------ MODULE InputHandlers_proofs ------------------------
(***************************************************************************)
(* Theorems about InputHandlers, for any pool, any profiles, any uploads   *)
(* and recordings, and Longs of any width.                                 *)
(***************************************************************************)
EXTENDS InputHandlers, SequenceFacts

USE HalfAssumption, DataAssumption, ContentsAssumption
      DEF HalfAssumption, DataAssumption, ContentsAssumption

\* Where a thread is while Kotlin runs, and the handlers that load a profile.
InKotlin == {"check", "exists", "load", "act", "open", "write", "back"}
Loader == Player \cup {"getMacroDetail", "exportProfile"}

\* What a thread is about agrees with where it is.
Consistent ==
  \A t \in Thread :
    /\ at[t] # "idle" => kind[t] \in Kind /\ name[t] \in Name
    /\ at[t] # "idle" /\ kind[t] = "importProfile" => upload[t] \in Upload
    /\ at[t] = "reading" => kind[t] \in Stream
    /\ at[t] = "env" => kind[t] \in OwnEnv
    /\ at[t] = "after" => kind[t] = "remoteKeyEvent"
    /\ at[t] \in {"open", "write"} => kind[t] = "importProfile"
    /\ at[t] = "check" => kind[t] = "exportProfile"
    /\ at[t] \in {"exists", "load"} => kind[t] \in Loader
    /\ at[t] = "act" => kind[t] \notin {"importProfile", "getMacroDetail"}

-----------------------------------------------------------------------------
(* What the files hold *)

\* The digits of a Long are those of a line.
LEMMA DigitsType == \A d \in Long : Digits(d) \in 0..(2 * Half - 1)
  BY DEF Long, Digits

\* What the recorder and an export write are lines.
LEMMA RenderType == \A events \in Seq(Event) : Render(events) \in Seq(Line)
<1> TAKE events \in Seq(Event)
<1>1. \A i \in 1..Len(events) : Written(events[i]) \in Line
  <2> TAKE i \in 1..Len(events)
  <2>1. events[i] \in Event
    BY ElementOfSeq
  <2> QED
    BY <2>1, DigitsType DEF Event, Written, Line
<1> QED
  BY <1>1, LenProperties DEF Render

\* A write over a file leaves lines.
LEMMA OverType ==
  \A new, old \in Seq(Line), from \in Nat : Over(new, old, from) \in Seq(Line)
<1> TAKE new, old \in Seq(Line), from \in Nat
<1> DEFINE first == IF from <= Len(old) THEN from ELSE Len(old)
           head == SubSeq(old, 1, first)
           tail == SubSeq(old, from + Len(new) + 1, Len(old))
<1>1. Len(new) \in Nat /\ Len(old) \in Nat
  BY LenProperties
<1>2. \A i \in 1..Len(old) : old[i] \in Line
  BY ElementOfSeq
<1>3. first \in Int /\ \A i \in 1..first : old[i] \in Line
  BY <1>1, <1>2
<1>4. from + Len(new) + 1 \in Int /\ \A i \in (from + Len(new) + 1)..Len(old) : old[i] \in Line
  BY <1>1, <1>2
<1>5. head \in Seq(Line)
  <2> HIDE DEF first
  <2> QED
    BY <1>3, SubSeqProperties
<1>6. tail \in Seq(Line)
  BY <1>1, <1>4, SubSeqProperties
<1>7. Over(new, old, from) = head \o new \o tail
  BY DEF Over
<1> HIDE DEF head, tail
<1> QED
  BY <1>5, <1>6, <1>7, ConcatProperties

\* A write from the start of an empty file leaves what is written.
LEMMA OverEmpty == \A new \in Seq(Line) : Over(new, << >>, 0) = new
<1> TAKE new \in Seq(Line)
<1>1. Len(new) \in Nat /\ Len(<< >>) = 0
  BY LenProperties, EmptySeq
<1>2. SubSeq(<< >>, 1, 0) = << >> /\ SubSeq(<< >>, 0 + Len(new) + 1, 0) = << >>
  BY <1>1, SubSeqEmpty
<1>3. Over(new, << >>, 0) = << >> \o new \o << >>
  BY <1>1, <1>2 DEF Over
<1>4. << >> \o new = new
  BY ConcatEmptySeq
<1> QED
  BY <1>3, <1>4, ConcatEmptySeq

\* What a file holds is lines.
LEMMA BytesType == TypeOK => \A n \in Name : Bytes(n) \in Seq(Line)
  BY EmptySeq DEF TypeOK, Bytes

\* What a recording with a negative delay holds is no line that a load can read.
LEMMA NegativeUnreadable ==
  \A event \in Event : event.delay < 0 => ~Readable(Written(event))
  BY DEF Event, Long, Digits, Written, Readable

-----------------------------------------------------------------------------
(* Types *)

\* The initial state is well typed, and every thread idle.
LEMMA InitType == Init => TypeOK /\ Consistent
  BY DEF Init, TypeOK, Consistent

\* The end of a call, or of callJavaMethod, keeps the types.
LEMMA FinishType ==
  ASSUME TypeOK, Consistent, NEW t \in Thread, at[t] \in {"back", "call"}, Finish(t)
  PROVE  /\ at' \in [Thread -> {"idle", "reading", "after"}  \cup InKotlin \cup {"env", "call"}]
         /\ kind' \in [Thread -> Kind \cup {NoOne}] /\ name' \in [Thread -> Name \cup {NoOne}]
         /\ upload' \in [Thread -> Upload \cup {NoFile}]
         /\ outer' \subseteq Thread /\ kept' \subseteq Thread
         /\ Consistent'
<1>1. CASE kind[t] \in Stream
  BY <1>1 DEF Finish, TypeOK, Consistent, call, InKotlin, Stream
<1>2. CASE kind[t] \notin Stream
  <2>1. Leave(t) /\ outer' = outer \ {t} /\ kept' \in {kept, kept \cup {t}}
    BY <1>2 DEF Finish
  <2>2. Consistent'
    BY <2>1 DEF Leave, TypeOK, Consistent
  <2> QED
    BY <2>1, <2>2 DEF Leave, TypeOK, InKotlin
<1> QED
  BY <1>1, <1>2

\* Every step of a thread keeps the types.
LEMMA ThreadType ==
  ASSUME TypeOK, Consistent, NEW t \in Thread, ThreadNext(t)
  PROVE  TypeOK' /\ Consistent'
<1> USE DEF store, call, flag, jvm, ghost
<1>1. CASE Read(t)
  <2>1. CASE Leave(t) /\ at[t] = "reading" /\ UNCHANGED <<store, jvm, killer, ghost>>
    BY <2>1 DEF Leave, TypeOK, Consistent
  <2>2. CASE /\ Go(t, "reading", IF kind[t] \in OwnEnv THEN "env" ELSE "call")
             /\ UNCHANGED <<store, call, jvm, killer, ghost>>
    BY <2>2 DEF Go, TypeOK, Consistent
  <2> QED
    BY <1>1, <2>1, <2>2 DEF Read
<1>2. CASE OwnGetEnv(t)
  BY <1>2 DEF OwnGetEnv, GetJNIEnv, Go, TypeOK, Consistent
<1>3. CASE CallJavaMethod(t)
  <2>1. at[t] = "call" /\ kind[t] \in Kind
    BY <1>3 DEF CallJavaMethod, Go, Consistent
  <2>2. /\ Entry(kind[t]) \in {"check", "open", "exists", "act"}
        /\ Entry(kind[t]) = "check" => kind[t] = "exportProfile"
        /\ Entry(kind[t]) = "exists" => kind[t] \in Loader
        /\ Entry(kind[t]) = "open" => kind[t] = "importProfile"
        /\ Entry(kind[t]) = "act" => kind[t] \notin {"importProfile", "getMacroDetail"}
    BY <2>1 DEF Entry, Loader, Kind, Forward, Player, Value, Stream, Keeps, OwnEnv
  <2>3. TypeOK'
    BY <1>3, <2>2 DEF CallJavaMethod, GetJNIEnv, Go, TypeOK
  <2>4. Consistent'
    BY <1>3, <2>1, <2>2 DEF CallJavaMethod, Go, TypeOK, Consistent
  <2> QED
    BY <2>3, <2>4
<1>4. CASE NoMethod(t) \/ Back(t)
  <2>1. at[t] \in {"back", "call"} /\ Finish(t)
    BY <1>4 DEF NoMethod, Back
  <2>2. /\ attached' \subseteq Thread /\ inner' \subseteq Thread
        /\ UNCHANGED <<store, exception, killer, soiled, troubled, spoilt>>
    BY <1>4 DEF NoMethod, Back, TypeOK
  <2> QED
    BY <2>1, <2>2, FinishType DEF TypeOK, InKotlin
<1>5. CASE Undefined(t) \/ BackDies(t) \/ ExitThread(t) \/ (at[t] = "after" /\ Dies(t))
  <2>1. UNCHANGED <<store, at, call, jvm, ghost>>
    BY <1>5 DEF Undefined, BackDies, ExitThread, Dies
  <2>2. killer' \in [kind : Kind \cup {"exit"}, name : Name \cup {NoOne}, soiled : BOOLEAN,
                      kept : BOOLEAN]
    <3>1. CASE ExitThread(t)
      BY <3>1 DEF ExitThread
    <3>2. CASE at[t] # "idle" /\ Dies(t)
      BY <3>2 DEF Dies, Consistent
    <3> QED
      BY <1>5, <3>1, <3>2 DEF Undefined, BackDies
  <2> QED
    BY <2>1, <2>2 DEF TypeOK, Consistent
<1>6. CASE KeyAfter(t) /\ ~Dies(t)
  BY <1>6 DEF KeyAfter, Go, TypeOK, Consistent, Stream
<1>7a. ASSUME NEW f \in {"check", "load", "act"}, Throws(t, f)
       PROVE  TypeOK' /\ Consistent'
  BY <1>7a DEF Throws, Go, TypeOK, Consistent
<1>7. CASE CheckExport(t) \/ ForEachLine(t) \/ Act(t)
  <2>2. ASSUME NEW f \in {"check", "load", "act"}, NEW g \in {"exists", "act", "back"},
               Go(t, f, g), g = "exists" => kind[t] \in Loader,
               g = "act" => kind[t] \notin {"importProfile", "getMacroDetail"},
               \E n \in Name : name' = name \/ name' = [name EXCEPT ![t] = n],
               UNCHANGED <<store, kind, upload, jvm, killer, ghost>>
        PROVE  TypeOK' /\ Consistent'
    BY <2>2 DEF Go, TypeOK, Consistent
  <2>3. at[t] # "idle" => name[t] \in Name
    BY DEF Consistent
  <2>4. CASE CheckExport(t)
    BY <2>4, <1>7a, <2>2, <2>3 DEF CheckExport, Go, Consistent, Loader
  <2>5. CASE ForEachLine(t)
    BY <2>5, <1>7a, <2>2, <2>3 DEF ForEachLine, Loaded, Go, Player
  <2>6. CASE Act(t)
    BY <2>6, <1>7a, <2>2, <2>3 DEF Act, Go, Consistent, Loader, Player
  <2> QED
    BY <1>7, <2>4, <2>5, <2>6
<1>8. CASE FileExists(t)
  BY <1>8 DEF FileExists, Loaded, Go, TypeOK, Consistent, Player
<1>9. CASE DeleteMacros(t)
  <2>1. writer' \in {writer, NoOne}
    BY <1>9 DEF DeleteMacros
  <2>2. writer' \in [name : Name, left : Seq(Event), from : Nat] \cup {NoOne}
    BY <2>1 DEF TypeOK
  <2> QED
    BY <1>9, <2>2 DEF DeleteMacros, Importer, Disturbed, TroubledBy, Go, TypeOK, Consistent
<1>10. CASE OpenFile(t)
  <2>1. << >> \in Seq(Line)
    BY EmptySeq
  <2> QED
    BY <1>10, <2>1 DEF OpenFile, Truncate, Importer, Disturbed, Go, TypeOK, Consistent
<1>11. CASE WriteFile(t)
  <2>1. name[t] \in Name /\ upload[t] \in Seq(Line) /\ kind[t] = "importProfile"
    BY <1>11 DEF WriteFile, Go, Consistent
  <2> DEFINE file == Over(upload[t], Bytes(name[t]), 0)
  <2>2. file \in Seq(Line)
    BY <2>1, OverType, BytesType
  <2> HIDE DEF file
  <2>3. /\ Go(t, "write", "back")
        /\ files' \in {files, [files EXCEPT ![name[t]] = file]}
        /\ troubled' \in {troubled, TroubledBy(name[t], file)}
        /\ spoilt' \in {spoilt, spoilt \cup (Disturbed(name[t]) \ {t})}
        /\ unlinked' = unlinked \ {t}
        /\ UNCHANGED <<writer, call, jvm, killer, soiled, kept>>
    BY <1>11 DEF WriteFile, file
  <2>a. files' \in [Name -> Seq(Line) \cup {NoFile}]
    BY <2>1, <2>2, <2>3 DEF TypeOK
  <2>b. troubled' \subseteq Name
    BY <2>1, <2>3 DEF TroubledBy, TypeOK
  <2>c. spoilt' \subseteq Thread
    BY <2>3 DEF Importer, Disturbed, TypeOK
  <2>4. TypeOK'
    BY <2>3, <2>a, <2>b, <2>c DEF Go, TypeOK
  <2>5. Consistent'
    BY <2>3 DEF Go, TypeOK, Consistent
  <2> QED
    BY <2>4, <2>5
<1>12. CASE ImportFails(t)
  BY <1>12 DEF ImportFails, TypeOK, Consistent
<1>13. CASE StartRecord(t) \/ StopRecord(t)
  <2>1. CASE Throws(t, "act")
    BY <2>1, <1>7a
  <2>2. CASE ~Throws(t, "act") /\ StopRecord(t)
    BY <2>2 DEF StopRecord, Go, TypeOK, Consistent
  <2>3. CASE ~Throws(t, "act") /\ StartRecord(t)
    <3>1. name[t] \in Name /\ << >> \in Seq(Line)
      BY <2>3, EmptySeq DEF StartRecord, Go, Consistent
    <3>2. writer' \in [name : Name, left : Seq(Event), from : Nat]
      <4>1. PICK events \in Recording :
              writer' = [name |-> name[t], left |-> events, from |-> 0]
        BY <2>3 DEF StartRecord
      <4> QED
        BY <3>1, <4>1
    <3>3. files' = [files EXCEPT ![name[t]] = << >>] /\ troubled' = troubled
      BY <2>3 DEF StartRecord, Truncate
    <3>4. spoilt' \subseteq Thread
      BY <2>3 DEF StartRecord, Importer, Disturbed, TypeOK
    <3>5. /\ at' = [at EXCEPT ![t] = "back"] /\ at[t] = "act"
          /\ UNCHANGED <<unlinked, call, jvm, killer, soiled, kept>>
      BY <2>3 DEF StartRecord, Go
    <3>6. TypeOK'
      BY <3>1, <3>2, <3>3, <3>4, <3>5 DEF TypeOK
    <3>7. Consistent'
      BY <3>5 DEF TypeOK, Consistent
    <3> QED
      BY <3>6, <3>7
  <2> QED
    BY <1>13, <2>1, <2>2, <2>3
<1> QED
  BY <1>1, <1>2, <1>3, <1>4, <1>5, <1>6, <1>7, <1>8, <1>9, <1>10, <1>11, <1>12, <1>13
     DEF ThreadNext, KeyAfter

\* A writer that has written some of what it had left is one.
LEMMA WriterMoves ==
  ASSUME NEW w \in [name : Name, left : Seq(Event), from : Nat],
         NEW rest \in Seq(Event), NEW k \in Nat
  PROVE  [w EXCEPT !.left = rest, !.from = @ + k]
           \in [name : Name, left : Seq(Event), from : Nat]
<1>1. w.name \in Name /\ w.from + k \in Nat
  OBVIOUS
<1> QED
  BY <1>1

\* A tick changes the recorder's file, if any, by lines that it writes to it.
LEMMA Tick ==
  ASSUME TypeOK, ProcessInputs
  PROVE  \E n \in Name, file \in Seq(Line) :
           /\ files' = [files EXCEPT ![n] = file]
           /\ troubled' = TroubledBy(n, file) /\ spoilt' = spoilt \cup Disturbed(n)
           /\ writer' \in [name : Name, left : Seq(Event), from : Nat] \cup {NoOne}
           /\ UNCHANGED <<unlinked, at, call, jvm, killer, soiled, kept>>
<1>1. /\ writer.name \in Name /\ writer.left \in Seq(Event) /\ writer.from \in Nat
      /\ writer = [name |-> writer.name, left |-> writer.left, from |-> writer.from]
  BY DEF ProcessInputs, TypeOK
<1>2. PICK k \in 1..Len(writer.left) :
        LET n == writer.name
            rest == SubSeq(writer.left, k + 1, Len(writer.left))
            file == Over(Render(SubSeq(writer.left, 1, k)), Bytes(n), writer.from) IN
        /\ files' = [files EXCEPT ![n] = file]
        /\ writer' = IF rest = << >> THEN NoOne
                     ELSE [writer EXCEPT !.left = rest, !.from = @ + k]
        /\ troubled' = TroubledBy(n, file) /\ spoilt' = spoilt \cup Disturbed(n)
  BY DEF ProcessInputs
<1>3. Len(writer.left) \in Nat /\ k \in Nat
  BY <1>1, LenProperties
<1>4. \A i \in 1..Len(writer.left) : writer.left[i] \in Event
  BY <1>1, ElementOfSeq
<1> DEFINE n == writer.name
           rest == SubSeq(writer.left, k + 1, Len(writer.left))
           some == SubSeq(writer.left, 1, k)
           lines == Render(some)
           file == Over(lines, Bytes(n), writer.from)
<1>5. rest \in Seq(Event) /\ some \in Seq(Event)
  BY <1>3, <1>4, SubSeqProperties
<1>6. file \in Seq(Line)
  <2> HIDE DEF some
  <2>1. lines \in Seq(Line)
    BY <1>5, RenderType
  <2> HIDE DEF lines
  <2> QED
    BY <1>1, <2>1, OverType, BytesType
<1>7. /\ files' = [files EXCEPT ![n] = file]
      /\ writer' = IF rest = << >> THEN NoOne
                   ELSE [writer EXCEPT !.left = rest, !.from = @ + k]
      /\ troubled' = TroubledBy(n, file) /\ spoilt' = spoilt \cup Disturbed(n)
  BY <1>2
<1> HIDE DEF rest, some, lines, file
<1>8. writer' \in [name : Name, left : Seq(Event), from : Nat] \cup {NoOne}
  <2>1. writer \in [name : Name, left : Seq(Event), from : Nat]
    BY DEF ProcessInputs, TypeOK
  <2>2. [writer EXCEPT !.left = rest, !.from = @ + k]
          \in [name : Name, left : Seq(Event), from : Nat]
    BY <1>3, <1>5, <2>1, WriterMoves
  <2> QED
    BY <1>7, <2>2
<1> QED
  BY <1>1, <1>6, <1>7, <1>8 DEF ProcessInputs

\* A client that calls, and the recorder, keep the types.
LEMMA OtherType ==
  ASSUME TypeOK, Consistent, Step, \A t \in Thread : ~ThreadNext(t)
  PROVE  TypeOK' /\ Consistent'
<1> USE DEF store, call, flag, jvm, ghost
<1>1. ASSUME NEW t \in Thread, NEW k \in Kind, NEW n \in Name, NEW file \in File(k),
             Call(t, k, n, file)
      PROVE  TypeOK' /\ Consistent'
  BY <1>1 DEF Call, File, Go, TypeOK, Consistent
<1>2. CASE ProcessInputs
  <2>1. PICK n \in Name, file \in Seq(Line) :
          /\ files' = [files EXCEPT ![n] = file]
          /\ troubled' = TroubledBy(n, file) /\ spoilt' = spoilt \cup Disturbed(n)
          /\ writer' \in [name : Name, left : Seq(Event), from : Nat] \cup {NoOne}
          /\ UNCHANGED <<unlinked, at, call, jvm, killer, soiled, kept>>
    BY <1>2, Tick
  <2>2. troubled' \subseteq Name /\ spoilt' \subseteq Thread
    BY <2>1 DEF TroubledBy, Importer, Disturbed, TypeOK
  <2> QED
    BY <2>1, <2>2 DEF TypeOK, Consistent
<1> QED
  BY <1>1, <1>2 DEF Step

\* TypeOK is inductive together with Consistent.
LEMMA TypeStep == TypeOK /\ Consistent /\ [Next]_vars => TypeOK' /\ Consistent'
<1> SUFFICES ASSUME TypeOK, Consistent, [Next]_vars PROVE TypeOK' /\ Consistent'
  OBVIOUS
<1>1. CASE UNCHANGED vars
  BY <1>1 DEF vars, store, call, flag, jvm, ghost, TypeOK, Consistent
<1>2. CASE Step
  BY <1>2, ThreadType, OtherType
<1> QED
  BY <1>1, <1>2 DEF Next, Dead

\* Every variable keeps its type, and what a thread is about agrees with where it is.
THEOREM TypeCorrect == Spec => []TypeOK
<1>1. Spec => [](TypeOK /\ Consistent)
  BY InitType, TypeStep, PTL DEF Spec
<1> QED
  BY <1>1, PTL

-----------------------------------------------------------------------------
(* The JVM *)

\* What a thread's own steps change concerns itself alone.
Same(u) ==
  /\ at'[u] = at[u] /\ kind'[u] = kind[u] /\ name'[u] = name[u] /\ upload'[u] = upload[u]
  /\ (u \in attached') = (u \in attached) /\ (u \in exception') = (u \in exception)
  /\ (u \in outer') = (u \in outer) /\ (u \in inner') = (u \in inner)
  /\ (u \in soiled') = (u \in soiled) /\ (u \in kept') = (u \in kept)

\* A thread's step leaves the other threads as they are.
LEMMA Others ==
  ASSUME TypeOK, Consistent, NEW t \in Thread, ThreadNext(t), NEW u \in Thread \ {t}
  PROVE  Same(u)
<1> USE DEF store, call, flag, jvm, ghost, Same, Go, TypeOK
<1>1. CASE Read(t) \/ OwnGetEnv(t)
  BY <1>1 DEF Read, Leave, OwnGetEnv, GetJNIEnv
<1>2. CASE CallJavaMethod(t)
  BY <1>2 DEF CallJavaMethod, GetJNIEnv
<1>3. CASE NoMethod(t) \/ Back(t)
  BY <1>3 DEF NoMethod, Back, Finish, Leave
<1>4. CASE Undefined(t) \/ BackDies(t) \/ ExitThread(t)
  BY <1>4 DEF Undefined, BackDies, ExitThread, Dies
<1>5. CASE KeyAfter(t)
  BY <1>5 DEF KeyAfter, Dies
<1>6. CASE CheckExport(t) \/ ForEachLine(t) \/ Act(t) \/ FileExists(t)
  BY <1>6 DEF CheckExport, ForEachLine, Act, FileExists, Throws
<1>7. CASE DeleteMacros(t) \/ OpenFile(t) \/ WriteFile(t) \/ ImportFails(t)
  BY <1>7 DEF DeleteMacros, OpenFile, WriteFile, ImportFails
<1>8. CASE StartRecord(t) \/ StopRecord(t)
  BY <1>8 DEF StartRecord, StopRecord, Throws
<1> QED
  BY <1>1, <1>2, <1>3, <1>4, <1>5, <1>6, <1>7, <1>8 DEF ThreadNext

\* Attachment, exceptions and flags of a thread, by where it is.
Attached(t) ==
  /\ t \in exception => t \in attached
  /\ at[t] \in InKotlin => t \in attached
  /\ t \in inner => at[t] \in InKotlin
  /\ kind[t] \in OwnEnv /\ at[t] \in InKotlin \cup {"call", "after"} =>
       t \in attached /\ t \notin inner

\* A thread no call has left attached is detached between calls, and what attached it during
\* one is known: callJavaMethod, or the handler of a key event.
Restored(t) ==
  t \notin kept =>
    /\ at[t] = "idle" => t \notin attached
    /\ at[t] # "idle" /\ kind[t] \notin OwnEnv =>
         /\ at[t] \in {"reading", "call"} => t \notin attached
         /\ at[t] \in InKotlin => t \in inner
    /\ at[t] # "idle" /\ kind[t] = "remoteKeyEvent" =>
         /\ at[t] \in {"reading", "env"} => t \notin attached
         /\ at[t] \in InKotlin \cup {"call", "after"} => t \in outer

\* What an exception that is pending can come from, if none was when the call began.
Thrown(t) ==
  t \notin soiled /\ at[t] # "idle" =>
    /\ kind[t] # "remoteMouseEvent" /\ at[t] \in {"reading", "env", "call"} => t \notin exception
    /\ kind[t] = "listSaveFiles" => t \notin exception

Bridge == \A t \in Thread : Attached(t) /\ Restored(t) /\ Thrown(t)

\* A step of a thread that is not a death keeps Bridge for that thread.
LEMMA BridgeOwn ==
  ASSUME TypeOK, Consistent, Bridge, NEW t \in Thread, ThreadNext(t), killer' = killer
  PROVE  (Attached(t) /\ Restored(t) /\ Thrown(t))'
<1> USE DEF store, call, flag, jvm, ghost, Go, TypeOK
<1>a. Attached(t) /\ Restored(t) /\ Thrown(t)
  BY DEF Bridge
<1>b. at[t] # "idle" => kind[t] \in Kind
  BY DEF Consistent
<1>1. CASE Read(t)
  <2>1. at[t] = "reading" /\ kind[t] \in Stream
    BY <1>1 DEF Read, Consistent
  <2> QED
    BY <1>1, <1>a, <2>1 DEF Read, Leave, Attached, Restored, Thrown, InKotlin, OwnEnv, Keeps, Stream
<1>2. CASE OwnGetEnv(t)
  <2>1. at[t] = "env" /\ kind[t] \in OwnEnv
    BY <1>2 DEF OwnGetEnv, Consistent
  <2> QED
    BY <1>2, <1>a, <2>1 DEF OwnGetEnv, GetJNIEnv, Attached, Restored, Thrown, InKotlin
<1>3. CASE CallJavaMethod(t)
  <2>1. at[t] = "call" /\ Entry(kind[t]) \in InKotlin
    BY <1>3 DEF CallJavaMethod, Entry, InKotlin
  <2> QED
    BY <1>3, <1>a, <2>1 DEF CallJavaMethod, GetJNIEnv, Attached, Restored, Thrown, InKotlin
<1>4. CASE NoMethod(t)
  BY <1>4, <1>a, <1>b DEF NoMethod, Finish, Leave, Attached, Restored, Thrown, InKotlin,
     OwnEnv, Stream
<1>5. CASE Back(t)
  BY <1>5, <1>a, <1>b DEF Back, Finish, Leave, Attached, Restored, Thrown, InKotlin,
     OwnEnv, Stream
<1>6. CASE KeyAfter(t)
  BY <1>6, <1>a DEF KeyAfter, Dies, Attached, Restored, Thrown, InKotlin, Consistent, OwnEnv
<1>7. CASE Undefined(t) \/ BackDies(t) \/ ExitThread(t)
  BY <1>7, <1>a DEF Undefined, BackDies, ExitThread, Dies, Attached, Restored, Thrown
<1>8. ASSUME NEW f \in InKotlin, NEW g \in InKotlin, Go(t, f, g), kind' = kind,
             UNCHANGED <<attached, flag, soiled, kept>>,
             exception' = exception
               \/ (exception' = exception \cup {t} /\ kind[t] # "listSaveFiles")
      PROVE  (Attached(t) /\ Restored(t) /\ Thrown(t))'
  BY <1>8, <1>a DEF Attached, Restored, Thrown, InKotlin
<1>9. CASE CheckExport(t) \/ ForEachLine(t)
  <2>1. kind[t] # "listSaveFiles"
    BY <1>9 DEF CheckExport, ForEachLine, Throws, Consistent, Loader, Player
  <2> QED
    BY <1>9, <1>8, <2>1 DEF CheckExport, ForEachLine, Throws, Loaded, InKotlin
<1>10. CASE Act(t) \/ FileExists(t)
  BY <1>10, <1>8 DEF Act, FileExists, Throws, Loaded, InKotlin
<1>11. CASE DeleteMacros(t) \/ OpenFile(t) \/ WriteFile(t) \/ ImportFails(t)
  BY <1>11, <1>8 DEF DeleteMacros, OpenFile, WriteFile, ImportFails, InKotlin
<1>12. CASE StartRecord(t) \/ StopRecord(t)
  BY <1>12, <1>8 DEF StartRecord, StopRecord, Throws, InKotlin
<1> QED
  BY <1>1, <1>2, <1>3, <1>4, <1>5, <1>6, <1>7, <1>9, <1>10, <1>11, <1>12 DEF ThreadNext

\* A death changes nothing but killer.
LEMMA DeathStill ==
  ASSUME NEW t \in Thread, ThreadNext(t), killer' # killer
  PROVE  UNCHANGED <<store, at, call, jvm, ghost>>
<1> USE DEF store, call, flag, jvm, ghost
<1>1. CASE Undefined(t) \/ BackDies(t) \/ ExitThread(t)
  BY <1>1 DEF Undefined, BackDies, ExitThread, Dies
<1>2. CASE KeyAfter(t)
  BY <1>2 DEF KeyAfter, Dies
<1>3. CASE Read(t) \/ OwnGetEnv(t) \/ CallJavaMethod(t) \/ NoMethod(t) \/ Back(t)
  BY <1>3 DEF Read, OwnGetEnv, CallJavaMethod, NoMethod, Back
<1>4. CASE CheckExport(t) \/ FileExists(t) \/ ForEachLine(t) \/ Act(t)
  BY <1>4 DEF CheckExport, FileExists, ForEachLine, Act, Throws
<1>5. CASE DeleteMacros(t) \/ OpenFile(t) \/ WriteFile(t) \/ ImportFails(t)
            \/ StartRecord(t) \/ StopRecord(t)
  BY <1>5 DEF DeleteMacros, OpenFile, WriteFile, ImportFails, StartRecord, StopRecord, Throws
<1> QED
  BY <1>1, <1>2, <1>3, <1>4, <1>5 DEF ThreadNext

\* Bridge is inductive.
LEMMA BridgeStep == TypeOK /\ Consistent /\ Bridge /\ [Next]_vars => Bridge'
<1> USE DEF store, call, flag, jvm, ghost
<1> SUFFICES ASSUME TypeOK, Consistent, Bridge, [Next]_vars PROVE Bridge'
  OBVIOUS
<1> SUFFICES ASSUME NEW u \in Thread PROVE (Attached(u) /\ Restored(u) /\ Thrown(u))'
  BY DEF Bridge
<1>a. Attached(u) /\ Restored(u) /\ Thrown(u)
  BY DEF Bridge
<1>b. Same(u) => (Attached(u) /\ Restored(u) /\ Thrown(u))'
  BY <1>a DEF Same, Attached, Restored, Thrown
<1>1. CASE UNCHANGED vars
  BY <1>1, <1>b DEF vars, Same
<1>2. ASSUME NEW t \in Thread, ThreadNext(t) PROVE (Attached(u) /\ Restored(u) /\ Thrown(u))'
  <2>1. CASE killer' # killer
    BY <1>2, <1>b, <2>1, DeathStill DEF Same
  <2>2. CASE killer' = killer /\ u # t
    BY <1>2, <1>b, <2>2, Others
  <2>3. CASE killer' = killer /\ u = t
    BY <1>2, <2>3, BridgeOwn
  <2> QED
    BY <2>1, <2>2, <2>3
<1>3. ASSUME NEW t \in Thread, NEW k \in Kind, NEW n \in Name, NEW file, Call(t, k, n, file)
      PROVE  (Attached(u) /\ Restored(u) /\ Thrown(u))'
  <2>1. CASE u # t
    BY <1>3, <1>b, <2>1 DEF Call, Go, Same, TypeOK
  <2>2. CASE u = t
    BY <1>3, <1>a, <2>2 DEF Call, Go, TypeOK, Attached, Restored, Thrown, InKotlin, OwnEnv, Stream
  <2> QED
    BY <2>1, <2>2
<1>4. CASE ProcessInputs
  BY <1>4, <1>b DEF ProcessInputs, Same
<1> QED
  BY <1>1, <1>2, <1>3, <1>4 DEF Next, Step, Dead

\* The three hold of every state.
LEMMA Bridged == Spec => [](TypeOK /\ Consistent /\ Bridge)
<1>1. Init => Bridge
  BY DEF Init, Bridge, Attached, Restored, Thrown, InKotlin
<1> QED
  BY <1>1, InitType, TypeStep, BridgeStep, PTL DEF Spec

\* A thread that no call has left attached is, between calls, detached and clean.
THEOREM Clean == Spec => []CleanBetweenCalls
<1>1. Bridge => CleanBetweenCalls
  BY DEF Bridge, Attached, Restored, CleanBetweenCalls
<1> QED
  BY <1>1, Bridged, PTL

-----------------------------------------------------------------------------
(* What ends the process *)

\* The steps that end the process, and the thread that takes them.
Death(t) ==
  \/ Undefined(t) \/ BackDies(t) \/ ExitThread(t)
  \/ at[t] = "after" /\ t \notin attached /\ Dies(t)

\* A step that changes killer is a death.
LEMMA Deaths ==
  ASSUME NEW t \in Thread, ThreadNext(t), killer' # killer
  PROVE  Death(t)
<1> USE DEF store, call, flag, jvm, ghost
<1>1. CASE KeyAfter(t)
  BY <1>1 DEF KeyAfter, Death
<1>2. CASE Read(t) \/ OwnGetEnv(t) \/ CallJavaMethod(t) \/ NoMethod(t) \/ Back(t)
  BY <1>2 DEF Read, OwnGetEnv, CallJavaMethod, NoMethod, Back
<1>3. CASE CheckExport(t) \/ FileExists(t) \/ ForEachLine(t) \/ Act(t)
  BY <1>3 DEF CheckExport, FileExists, ForEachLine, Act, Throws
<1>4. CASE DeleteMacros(t) \/ OpenFile(t) \/ WriteFile(t) \/ ImportFails(t)
            \/ StartRecord(t) \/ StopRecord(t)
  BY <1>4 DEF DeleteMacros, OpenFile, WriteFile, ImportFails, StartRecord, StopRecord, Throws
<1> QED
  BY <1>1, <1>2, <1>3, <1>4 DEF ThreadNext, Death

\* Only a thread's step changes killer.
LEMMA Killers ==
  ASSUME [Next]_vars, killer' # killer
  PROVE  killer = NoOne /\ \E t \in Thread : ThreadNext(t) /\ Death(t)
<1>1. ~UNCHANGED vars
  BY DEF vars
<1>2. ~Dead
  BY <1>1 DEF Dead
<1>3. killer = NoOne /\ Step
  BY <1>1, <1>2 DEF Next
<1>4. \A t \in Thread, k \in Kind, n \in Name : \A file \in File(k) : ~Call(t, k, n, file)
  BY DEF Call
<1>5. ~ProcessInputs
  BY DEF ProcessInputs
<1> QED
  BY <1>3, <1>4, <1>5, Deaths DEF Step

\* No call with an environment of its own ends the process while it runs, unless an exception
\* was pending when it began; nor does the end of a thread that no call has left attached.
THEOREM OwnEnvsSurvive == Spec => []OwnEnvSurvives
<1>1. Init => OwnEnvSurvives
  BY DEF Init, OwnEnvSurvives
<1>2. TypeOK /\ Consistent /\ Bridge /\ OwnEnvSurvives /\ [Next]_vars => OwnEnvSurvives'
  <2> SUFFICES ASSUME TypeOK, Consistent, Bridge, OwnEnvSurvives, [Next]_vars,
                      killer' # killer
               PROVE  /\ killer'.kind \in OwnEnv \ Value => killer'.soiled
                      /\ killer'.kind = "exit" => killer'.kept
    BY DEF OwnEnvSurvives
  <2>1. PICK t \in Thread : Death(t)
    BY Killers
  <2>2. Attached(t) /\ Restored(t) /\ Thrown(t)
    BY DEF Bridge
  <2>3. CASE ExitThread(t)
    <3>1. at[t] = "idle" /\ t \in attached
          /\ killer'.kind = "exit" /\ killer'.kept = (t \in kept)
      BY <2>3 DEF ExitThread
    <3>2. "exit" \notin OwnEnv
      BY DEF OwnEnv, Keeps
    <3> QED
      BY <2>2, <3>1, <3>2 DEF Restored
  <2>4. CASE ~ExitThread(t)
    <3>1. /\ Dies(t) /\ at[t] # "idle"
          /\ killer'.kind = kind[t] /\ killer'.soiled = (t \in soiled)
      BY <2>1, <2>4 DEF Death, Undefined, BackDies, Dies
    <3>2. kind[t] \in Kind /\ "exit" \notin Kind
      BY <3>1 DEF Consistent, Kind, Forward, Player, Value, Stream, OwnEnv, Keeps
    <3>3. CASE kind[t] \in OwnEnv \ Value /\ t \notin soiled
      <4>1. ~(at[t] = "after" /\ t \notin attached)
        BY <2>2, <3>3 DEF Attached
      <4>2. ~BackDies(t)
        BY <2>2, <3>3 DEF BackDies, Attached, InKotlin
      <4>3. Undefined(t)
        BY <2>1, <2>4, <4>1, <4>2 DEF Death
      <4>4. kind[t] # "remoteMouseEvent"
        BY <3>3 DEF OwnEnv, Keeps
      <4> QED
        BY <2>2, <3>1, <3>3, <4>3, <4>4 DEF Undefined, Thrown
    <3> QED
      BY <3>1, <3>2, <3>3
  <2> QED
    BY <2>3, <2>4
<1> QED
  BY <1>1, <1>2, Bridged, PTL DEF Spec

\* A profile that is gone, or does not load, while somebody may read it is a troubled one.
Trouble ==
  /\ \A n \in Name : files[n] # NoFile /\ ~Loads(files[n]) => n \in troubled
  /\ \A t \in Thread :
       /\ at[t] = "load" /\ files[name[t]] = NoFile => name[t] \in troubled
       /\ at[t] # "idle" /\ kind[t] = "getMacroDetail" /\ t \notin soiled /\ t \in exception =>
            name[t] \in troubled

\* A thread's step keeps Trouble for the other threads, if it keeps the files.
LEMMA TroubleStep ==
  TypeOK /\ Consistent /\ Bridge /\ Trouble /\ [Next]_vars => Trouble'
<1> USE DEF store, call, flag, jvm, ghost
<1> SUFFICES ASSUME TypeOK, Consistent, Bridge, Trouble, [Next]_vars PROVE Trouble'
  OBVIOUS
<1>a. \A u \in Thread : Same(u) => name[u] = name'[u]
  BY DEF Same
<1>1. CASE UNCHANGED vars
  BY <1>1 DEF vars, Trouble
<1>2. ASSUME NEW t \in Thread, ThreadNext(t), UNCHANGED <<files, troubled>> PROVE Trouble'
  <2>1. \A u \in Thread \ {t} : Same(u)
    BY <1>2, Others
  <2>2. /\ at'[t] = "load" /\ files'[name'[t]] = NoFile => name'[t] \in troubled'
        /\ at'[t] # "idle" /\ kind'[t] = "getMacroDetail" /\ t \notin soiled' /\ t \in exception' =>
             name'[t] \in troubled'
    <3>a. Thrown(t)
      BY DEF Bridge
    <3> USE DEF Go, TypeOK, Trouble
    <3>1. CASE Read(t) \/ OwnGetEnv(t) \/ NoMethod(t) \/ Back(t) \/ KeyAfter(t)
      BY <3>1, <1>2 DEF Read, Leave, OwnGetEnv, NoMethod, Back, Finish, KeyAfter, Dies
    <3>2. CASE CallJavaMethod(t)
      BY <3>2, <1>2 DEF CallJavaMethod, Entry
    <3>3. CASE Undefined(t) \/ BackDies(t) \/ ExitThread(t)
      BY <3>3, <1>2 DEF Undefined, BackDies, ExitThread, Dies
    <3>4. CASE CheckExport(t)
      BY <3>4, <1>2 DEF CheckExport, Throws, Consistent, Entry
    <3>5. CASE FileExists(t)
      BY <3>5, <1>2 DEF FileExists, Loaded
    <3>6. CASE ForEachLine(t)
      BY <3>6, <1>2 DEF ForEachLine, Loaded, Throws, Consistent
    <3>7. CASE Act(t)
      BY <3>7, <1>2 DEF Act, Throws, Consistent
    <3>8. CASE DeleteMacros(t) \/ OpenFile(t) \/ WriteFile(t) \/ ImportFails(t)
      BY <3>8, <1>2 DEF DeleteMacros, OpenFile, WriteFile, ImportFails
    <3>9. CASE StartRecord(t) \/ StopRecord(t)
      BY <3>9, <1>2 DEF StartRecord, StopRecord, Throws
    <3> QED
      BY <3>1, <3>2, <3>3, <3>4, <3>5, <3>6, <3>7, <3>8, <3>9, <1>2 DEF ThreadNext
  <2> QED
    BY <1>2, <2>1, <2>2 DEF Trouble, Same
<1>3. ASSUME files' \in [Name -> Seq(Line) \cup {NoFile}], troubled \subseteq troubled',
             \A n \in Name : files'[n] = files[n] \/ files'[n] \in Seq(Line) \/ n \in troubled',
             \A n \in Name : files'[n] = files[n] \/ files'[n] = NoFile \/ Loads(files'[n])
                             \/ n \in troubled',
             UNCHANGED <<kind, name, exception, soiled>>,
             \A u \in Thread : at'[u] = "load" => at[u] = "load",
             \A u \in Thread : at'[u] # "idle" => at[u] # "idle"
      PROVE  Trouble'
  <2>1. \A n \in Name : files'[n] # NoFile /\ ~Loads(files'[n]) => n \in troubled'
    BY <1>3 DEF Trouble
  <2>2. ASSUME NEW u \in Thread
        PROVE  /\ at'[u] = "load" /\ files'[name'[u]] = NoFile => name'[u] \in troubled'
               /\ at'[u] # "idle" /\ kind'[u] = "getMacroDetail" /\ u \notin soiled'
                    /\ u \in exception' => name'[u] \in troubled'
    <3>1. at[u] # "idle" => name[u] \in Name
      BY DEF Consistent
    <3>a. /\ at[u] = "load" /\ files[name[u]] = NoFile => name[u] \in troubled
          /\ at[u] # "idle" /\ kind[u] = "getMacroDetail" /\ u \notin soiled /\ u \in exception =>
               name[u] \in troubled
      BY DEF Trouble
    <3>b. name' = name /\ kind' = kind /\ soiled' = soiled /\ exception' = exception
      BY <1>3
    <3>c. (at'[u] = "load" => at[u] = "load") /\ (at'[u] # "idle" => at[u] # "idle")
      BY <1>3
    <3>2. at'[u] = "load" /\ files'[name'[u]] = NoFile => name'[u] \in troubled'
      <4> HAVE at'[u] = "load" /\ files'[name'[u]] = NoFile
      <4>1. at[u] = "load" /\ name[u] \in Name /\ files'[name[u]] = NoFile
        BY <3>1, <3>b, <3>c
      <4>2. files[name[u]] = NoFile \/ name[u] \in troubled'
        BY <1>3, <4>1
      <4> QED
        BY <1>3, <3>a, <3>b, <4>1, <4>2
    <3>3. at'[u] # "idle" /\ kind'[u] = "getMacroDetail" /\ u \notin soiled'
            /\ u \in exception' => name'[u] \in troubled'
      BY <1>3, <3>a, <3>b, <3>c
    <3> QED
      BY <3>2, <3>3
  <2> QED
    BY <2>1, <2>2 DEF Trouble
<1>4. ASSUME NEW n \in Name, NEW file \in Seq(Line) \cup {NoFile}
      PROVE  /\ TroubledBy(n, file) \in {troubled, troubled \cup {n}}
             /\ file = NoFile \/ ~Loads(file) => n \in TroubledBy(n, file)
  BY DEF TroubledBy
<1>5. ASSUME NEW t \in Thread, DeleteMacros(t) PROVE Trouble'
  <2>1. name[t] \in Name
    BY <1>5 DEF DeleteMacros, Go, Consistent
  <2>2. /\ files' = [files EXCEPT ![name[t]] = NoFile] /\ UNCHANGED <<kind, name, exception, soiled>>
        /\ at' = [at EXCEPT ![t] = "back"] /\ at[t] = "act"
        /\ name[t] \in troubled' /\ troubled \subseteq troubled'
    BY <1>4, <1>5, <2>1 DEF DeleteMacros, Go
  <2> QED
    BY <1>3, <2>1, <2>2 DEF TypeOK
<1>6. ASSUME NEW t \in Thread, OpenFile(t) PROVE Trouble'
  <2>1. name[t] \in Name
    BY <1>6 DEF OpenFile, Go, Consistent
  <2>2. << >> \in Seq(Line) /\ Loads(<< >>)
    BY EmptySeq DEF Loads
  <2>3. /\ files' = [files EXCEPT ![name[t]] = << >>]
        /\ UNCHANGED <<kind, name, exception, soiled, troubled>>
        /\ at' = [at EXCEPT ![t] = "write"] /\ at[t] = "open"
    BY <1>6 DEF OpenFile, Truncate, Go
  <2> QED
    BY <1>3, <2>1, <2>2, <2>3 DEF TypeOK
<1>7. ASSUME NEW t \in Thread, WriteFile(t) PROVE Trouble'
  <2>1. name[t] \in Name /\ upload[t] \in Seq(Line)
    BY <1>7 DEF WriteFile, Go, Consistent
  <2> DEFINE file == Over(upload[t], Bytes(name[t]), 0)
  <2>2. file \in Seq(Line)
    BY <2>1, OverType, BytesType
  <2> HIDE DEF file
  <2>3. /\ \/ UNCHANGED <<files, troubled>>
           \/ files' = [files EXCEPT ![name[t]] = file] /\ troubled' = TroubledBy(name[t], file)
        /\ UNCHANGED <<kind, name, exception, soiled>>
        /\ at' = [at EXCEPT ![t] = "back"] /\ at[t] = "write"
    BY <1>7 DEF WriteFile, Go, file
  <2>4. troubled \subseteq troubled' /\ (UNCHANGED files \/ Loads(file) \/ name[t] \in troubled')
    BY <1>4, <2>1, <2>2, <2>3
  <2> QED
    BY <1>3, <2>1, <2>2, <2>3, <2>4 DEF TypeOK
<1>8. CASE ProcessInputs
  <2>1. PICK n \in Name, file \in Seq(Line) :
          /\ files' = [files EXCEPT ![n] = file] /\ UNCHANGED <<kind, name, exception, soiled, at>>
          /\ troubled' = TroubledBy(n, file)
    BY <1>8, Tick
  <2>2. troubled \subseteq troubled' /\ (Loads(file) \/ n \in troubled')
    BY <1>4, <2>1
  <2> QED
    BY <1>3, <2>1, <2>2 DEF TypeOK
<1>11. ASSUME NEW t \in Thread, StartRecord(t), ~Throws(t, "act") PROVE Trouble'
  <2>1. name[t] \in Name
    BY <1>11 DEF StartRecord, Go, Consistent
  <2>2. << >> \in Seq(Line) /\ Loads(<< >>)
    BY EmptySeq DEF Loads
  <2>3. /\ files' = [files EXCEPT ![name[t]] = << >>]
        /\ UNCHANGED <<kind, name, exception, soiled, troubled>>
        /\ at' = [at EXCEPT ![t] = "back"] /\ at[t] = "act"
    BY <1>11 DEF StartRecord, Truncate, Go
  <2> QED
    BY <1>3, <2>1, <2>2, <2>3 DEF TypeOK
<1>9. ASSUME NEW t \in Thread, NEW k \in Kind, NEW n \in Name, NEW file, Call(t, k, n, file)
      PROVE  Trouble'
  <2>1. \A u \in Thread \ {t} : Same(u)
    BY <1>9 DEF Call, Go, Same, TypeOK
  <2>2. at'[t] # "load" /\ (t \notin soiled' => t \notin exception') /\ UNCHANGED <<files, troubled>>
    BY <1>9 DEF Call, Go, TypeOK
  <2> QED
    BY <2>1, <2>2 DEF Trouble, Same
<1>10. ASSUME NEW t \in Thread, ThreadNext(t) PROVE Trouble'
  <2>1. \/ UNCHANGED <<files, troubled>>
        \/ DeleteMacros(t) \/ OpenFile(t) \/ WriteFile(t)
        \/ (StartRecord(t) /\ ~Throws(t, "act"))
    <3>1. CASE Read(t) \/ OwnGetEnv(t) \/ CallJavaMethod(t) \/ NoMethod(t) \/ Back(t) \/ KeyAfter(t)
      BY <3>1 DEF Read, OwnGetEnv, CallJavaMethod, NoMethod, Back, KeyAfter, Dies
    <3>2. CASE Undefined(t) \/ BackDies(t) \/ ExitThread(t) \/ ImportFails(t)
      BY <3>2 DEF Undefined, BackDies, ExitThread, Dies, ImportFails
    <3>3. CASE CheckExport(t) \/ FileExists(t) \/ ForEachLine(t) \/ Act(t)
      BY <3>3 DEF CheckExport, FileExists, ForEachLine, Act, Throws
    <3>4. CASE StopRecord(t) \/ Throws(t, "act")
      BY <3>4 DEF StopRecord, Throws
    <3> QED
      BY <1>10, <3>1, <3>2, <3>3, <3>4 DEF ThreadNext
  <2> QED
    BY <1>2, <1>5, <1>6, <1>7, <1>10, <1>11, <2>1
<1> QED
  BY <1>1, <1>8, <1>9, <1>10 DEF Next, Step, Dead

\* Trouble holds of every state.
LEMMA Troubles == Spec => [](TypeOK /\ Consistent /\ Bridge /\ Trouble)
<1>1. Init => Trouble
  BY DEF Init, Trouble
<1> QED
  BY <1>1, Bridged, TroubleStep, PTL DEF Spec

\* Only a profile that was deleted, or held a line no load can read, lets a client that reads
\* profiles end the process.
THEOREM ReadersLive == Spec => []ReadersSurvive
<1>1. Init => ReadersSurvive
  BY DEF Init, ReadersSurvive
<1>2. TypeOK /\ Consistent /\ Bridge /\ Trouble /\ ReadersSurvive /\ [Next]_vars => ReadersSurvive'
  <2> USE DEF store, call, flag, jvm, ghost
  <2> SUFFICES ASSUME TypeOK, Consistent, Bridge, Trouble, ReadersSurvive, [Next]_vars,
                      killer' # NoOne, ~killer'.soiled
               PROVE  /\ killer'.kind # "listSaveFiles"
                      /\ killer'.kind = "getMacroDetail" => killer'.name \in troubled'
    BY DEF ReadersSurvive
  <2>1. CASE killer' = killer
    <3>1. CASE UNCHANGED vars
      BY <2>1, <3>1 DEF vars, ReadersSurvive
    <3>2. CASE killer = NoOne /\ Step
      BY <2>1, <3>2
    <3> QED
      BY <3>1, <3>2 DEF Next, Dead
  <2>2. CASE killer' # killer
    <3>1. PICK t \in Thread : ThreadNext(t) /\ Death(t)
      BY <2>2, Killers
    <3>2. Thrown(t)
      BY DEF Bridge
    <3>3. CASE ExitThread(t)
      BY <3>3 DEF ExitThread
    <3>4. CASE Dies(t) /\ at[t] = "after"
      BY <3>4 DEF Dies, Consistent
    <3>5. CASE Undefined(t)
      BY <3>5, <3>2 DEF Undefined, Dies, Thrown, Value
    <3>6. CASE BackDies(t)
      <4>1. /\ Dies(t) /\ t \in exception /\ t \notin soiled /\ at[t] = "back"
            /\ killer'.kind = kind[t] /\ killer'.name = name[t] /\ troubled' = troubled
        BY <3>6 DEF BackDies, Dies
      <4> QED
        BY <4>1, <3>2 DEF Thrown, Trouble
    <3> QED
      BY <3>1, <3>3, <3>4, <3>5, <3>6 DEF Death
  <2> QED
    BY <2>1, <2>2
<1> QED
  BY <1>1, <1>2, Troubles, PTL DEF Spec

-----------------------------------------------------------------------------
(* Imports *)

\* An import nobody disturbs finds its file empty, and leaves it as the upload.
Undisturbed ==
  \A t \in Thread : kind[t] = "importProfile" /\ t \notin spoilt =>
    /\ at[t] = "write" => files[name[t]] = << >> /\ t \notin unlinked
    /\ at[t] = "back" => files[name[t]] = upload[t]

\* Undisturbed is inductive.
LEMMA UndisturbedStep == TypeOK /\ Consistent /\ Undisturbed /\ [Next]_vars => Undisturbed'
<1> USE DEF store, call, flag, jvm, ghost, Importer, Disturbed
<1> SUFFICES ASSUME TypeOK, Consistent, Undisturbed, [Next]_vars, NEW u \in Thread,
                    kind'[u] = "importProfile", u \notin spoilt'
             PROVE  /\ at'[u] = "write" => files'[name'[u]] = << >> /\ u \notin unlinked'
                    /\ at'[u] = "back" => files'[name'[u]] = upload'[u]
  BY DEF Undisturbed
<1> DEFINE Quiet == /\ at'[u] \in {"write", "back"} => at'[u] = at[u]
                    /\ kind'[u] = kind[u] /\ name'[u] = name[u] /\ upload'[u] = upload[u]
           Goal == /\ at'[u] = "write" => files'[name'[u]] = << >> /\ u \notin unlinked'
                   /\ at'[u] = "back" => files'[name'[u]] = upload'[u]
<1>a. ASSUME at'[u] \in {"write", "back"} => Quiet, UNCHANGED <<files, unlinked, spoilt>> PROVE Goal
  BY <1>a DEF Undisturbed
<1>b. at[u] # "idle" => name[u] \in Name
  BY DEF Consistent
<1>1. CASE UNCHANGED vars
  BY <1>1, <1>a DEF vars
<1>2. ASSUME NEW t \in Thread,
             \/ Read(t) \/ OwnGetEnv(t) \/ CallJavaMethod(t) \/ NoMethod(t) \/ Back(t) \/ KeyAfter(t)
             \/ Undefined(t) \/ BackDies(t) \/ ExitThread(t)
             \/ CheckExport(t) \/ FileExists(t) \/ ForEachLine(t) \/ Act(t)
             \/ StopRecord(t) \/ (StartRecord(t) /\ Throws(t, "act"))
      PROVE  Goal
  <2>1. UNCHANGED <<files, unlinked, spoilt>>
    BY <1>2 DEF Read, OwnGetEnv, CallJavaMethod, NoMethod, Back, KeyAfter, Undefined, BackDies, ExitThread,
       Dies, CheckExport, FileExists, ForEachLine, Act, StopRecord, Throws
  <2>2. CASE u # t
    <3>1. Same(u)
      BY <1>2, <2>2, Others DEF ThreadNext
    <3> QED
      BY <1>a, <2>1, <3>1 DEF Same
  <2>3. CASE u = t
    <3>1. CASE Read(t) \/ OwnGetEnv(t) \/ NoMethod(t) \/ Back(t) \/ KeyAfter(t)
      BY <3>1, <2>3, <1>a, <2>1 DEF Read, Leave, OwnGetEnv, NoMethod, Back, Finish, KeyAfter, Dies, Go, TypeOK
    <3>2. CASE CallJavaMethod(t)
      BY <3>2, <2>3 DEF CallJavaMethod, Entry, Go, TypeOK
    <3>3. CASE Undefined(t) \/ BackDies(t) \/ ExitThread(t)
      BY <3>3, <2>3, <1>a, <2>1 DEF Undefined, BackDies, ExitThread, Dies
    <3>4. CASE CheckExport(t) \/ FileExists(t) \/ ForEachLine(t) \/ Act(t)
      BY <3>4, <2>3 DEF CheckExport, FileExists, ForEachLine, Act, Throws, Go, TypeOK, Consistent, Loader, Player
    <3>5. CASE StopRecord(t) \/ (StartRecord(t) /\ Throws(t, "act"))
      <4>1. at[t] = "act" /\ kind'[u] = kind[u]
        BY <3>5, <2>3 DEF StopRecord, Throws, Go
      <4> QED
        BY <4>1, <2>3 DEF Consistent
    <3> QED
      BY <1>2, <3>1, <3>2, <3>3, <3>4, <3>5
  <2> QED
    BY <2>2, <2>3
<1>3. ASSUME NEW t \in Thread, DeleteMacros(t) PROVE Goal
  BY <1>3, <1>b DEF DeleteMacros, Go, TypeOK, Undisturbed
<1>4. ASSUME NEW t \in Thread, OpenFile(t) PROVE Goal
  BY <1>4, <1>b DEF OpenFile, Truncate, Go, TypeOK, Undisturbed, Consistent
<1>5. ASSUME NEW t \in Thread, WriteFile(t) PROVE Goal
  <2>1. name[t] \in Name /\ upload[t] \in Seq(Line) /\ kind[t] = "importProfile" /\ at[t] = "write"
    BY <1>5 DEF WriteFile, Go, Consistent
  <2>2. /\ UNCHANGED call /\ at' = [at EXCEPT ![t] = "back"]
        /\ spoilt \subseteq spoilt' /\ unlinked' = unlinked \ {t}
    BY <1>5 DEF WriteFile, Go
  <2>3. CASE u = t
    <3>1. files[name[t]] = << >> /\ t \notin unlinked
      BY <2>1, <2>2, <2>3 DEF Undisturbed
    <3>2. << >> # NoFile
      BY EmptySeq
    <3>3. files' = [files EXCEPT ![name[t]] = Over(upload[t], << >>, 0)]
      BY <1>5, <3>1, <3>2 DEF WriteFile, Bytes
    <3> QED
      BY <2>1, <2>2, <2>3, <3>3, OverEmpty DEF TypeOK
  <2>4. CASE u # t
    <3>1. kind[u] = "importProfile" /\ u \notin spoilt /\ at'[u] = at[u]
      BY <2>2, <2>4
    <3>2. CASE name[u] = name[t] /\ t \notin unlinked
      <4>1. at[u] \notin {"write", "back"}
        BY <1>5, <2>4, <3>1, <3>2 DEF WriteFile
      <4> QED
        BY <3>1, <4>1
    <3>3. CASE name[u] # name[t] \/ t \in unlinked
      <4>1. files'[name[u]] = files[name[u]]
        BY <1>5, <2>1, <3>3 DEF WriteFile, TypeOK
      <4> QED
        BY <2>2, <3>1, <4>1 DEF Undisturbed
    <3> QED
      BY <3>2, <3>3
  <2> QED
    BY <2>3, <2>4
<1>6. ASSUME NEW t \in Thread, ImportFails(t) PROVE Goal
  BY <1>6 DEF ImportFails, TypeOK, Undisturbed
<1>7. CASE ProcessInputs
  <2>1. PICK n \in Name, file \in Seq(Line) :
          /\ files' = [files EXCEPT ![n] = file] /\ spoilt' = spoilt \cup Disturbed(n)
          /\ UNCHANGED <<unlinked, at, call>>
    BY <1>7, Tick
  <2> QED
    BY <1>b, <2>1 DEF TypeOK, Undisturbed
<1>8. ASSUME NEW t \in Thread, NEW k \in Kind, NEW n \in Name, NEW file, Call(t, k, n, file) PROVE Goal
  <2>1. UNCHANGED <<files, unlinked, spoilt>>
    BY <1>8 DEF Call
  <2> QED
    BY <1>8, <1>a, <2>1 DEF Call, Go, TypeOK
<1>9. ASSUME NEW t \in Thread, StartRecord(t), ~Throws(t, "act") PROVE Goal
  BY <1>9, <1>b DEF StartRecord, Truncate, Go, TypeOK, Undisturbed
<1> QED
  BY <1>1, <1>2, <1>3, <1>4, <1>5, <1>6, <1>7, <1>8, <1>9 DEF Next, Step, Dead, ThreadNext

\* An import that no other call overlaps and no failure meets leaves exactly its upload.
THEOREM Imports == Spec => []ImportWhole
<1>1. Init => Undisturbed
  BY DEF Init, Undisturbed
<1>2. Undisturbed => ImportWhole
  BY DEF Undisturbed, ImportWhole
<1> QED
  BY <1>1, <1>2, InitType, TypeStep, UndisturbedStep, PTL DEF Spec

-----------------------------------------------------------------------------
(* The round trip of a profile *)

\* What a load can read: a negative delay is not among it, nor a report without a byte.
Sound == [delay : 0..(Half - 1), data : Data]

\* A load that does not throw finds such events, junk and empty reports aside.
LEMMA LoadSound ==
  ASSUME NEW file \in Seq(Line), Loads(file)
  PROVE  Load(file) \in Seq(Sound)
<1> DEFINE found == [i \in 1..Len(file) |->
                       IF Matches(file[i]) THEN <<EventOf(file[i])>> ELSE << >>]
<1>1. Len(file) \in Nat /\ DOMAIN file = 1..Len(file)
  BY LenProperties
<1>2. ASSUME NEW i \in 1..Len(file) PROVE found[i] \in Seq(Sound)
  <2>1. file[i] \in Line
    BY ElementOfSeq
  <2>2. CASE Matches(file[i])
    <3>1. Readable(file[i])
      BY <1>1, <2>2 DEF Loads
    <3>2. file[i].digits \in 0..(Half - 1) /\ file[i].data \in Data
      BY <2>1, <2>2, <3>1 DEF Line, Matches, Readable
    <3>3. EventOf(file[i]) \in Sound
      BY <3>2 DEF EventOf, Sound
    <3> QED
      BY <2>2, <3>3
  <2>3. CASE ~Matches(file[i])
    BY <2>3, EmptySeq
  <2> QED
    BY <2>2, <2>3
<1>3. found \in Seq(Seq(Sound)) /\ Len(found) = Len(file)
  BY <1>1, <1>2
<1> HIDE DEF found
<1>4. FlattenSeq(found) \in Seq(Sound)
  <2>1. CASE found = << >>
    <3>1. Len(found) = 0
      BY <2>1, EmptySeq
    <3>2. FlattenSeq(found) = << >>
      BY <2>1, <3>1 DEF FlattenSeq
    <3> QED
      BY <3>2, EmptySeq
  <2>2. CASE found # << >>
    BY <1>3, <2>2, FlattenType
  <2> QED
    BY <2>1, <2>2
<1> QED
  BY <1>4 DEF found, Load

\* Such an event is written as a line that is read as that event.
LEMMA SoundKept ==
  \A event \in Sound : /\ Matches(Written(event)) /\ Readable(Written(event))
                       /\ EventOf(Written(event)) = event
<1> SUFFICES ASSUME NEW event \in Sound
             PROVE  /\ Matches(Written(event)) /\ Readable(Written(event))
                    /\ EventOf(Written(event)) = event
  OBVIOUS
<1>1. /\ event.delay \in 0..(Half - 1) /\ event.data \in Data
      /\ event = [delay |-> event.delay, data |-> event.data]
  BY DEF Sound
<1>2. Written(event) = [digits |-> event.delay, data |-> event.data]
  BY <1>1 DEF Written, Digits
<1>3. Written(event) # Junk
  BY <1>1, <1>2
<1> QED
  BY <1>1, <1>2, <1>3 DEF Matches, Readable, EventOf

\* An export of such events loads, as these events.
LEMMA ExportKept ==
  ASSUME NEW events \in Seq(Sound)
  PROVE  Loads(Render(events)) /\ Load(Render(events)) = events
<1> DEFINE file == Render(events)
<1>1. Len(events) \in Nat /\ Len(file) = Len(events) /\ DOMAIN file = 1..Len(events)
  BY LenProperties DEF Render
<1>2. ASSUME NEW i \in 1..Len(events)
      PROVE  /\ Matches(file[i]) /\ Readable(file[i])
             /\ EventOf(file[i]) = events[i]
  <2>1. events[i] \in Sound /\ file[i] = Written(events[i])
    BY ElementOfSeq DEF Render
  <2> QED
    BY <2>1, SoundKept
<1> HIDE DEF file
<1>3. Loads(file)
  BY <1>1, <1>2 DEF Loads
<1>4. Load(file) = FlattenSeq([i \in 1..Len(events) |-> <<events[i]>>])
  <2>1. [i \in 1..Len(file) |-> IF Matches(file[i]) THEN <<EventOf(file[i])>> ELSE << >>]
          = [i \in 1..Len(events) |-> <<events[i]>>]
    BY <1>1, <1>2
  <2> QED
    BY <2>1 DEF Load
<1>5. Load(file) = events
  BY <1>4, FlattenSingles
<1> QED
  BY <1>3, <1>5 DEF file

\* What is exported from a profile that loads can be imported again, and loads as the same
\* events, for files of any length and Longs of any width.
THEOREM ExportReturns == Spec => []RoundTrip
<1>1. TypeOK => RoundTrip
  <2> SUFFICES ASSUME TypeOK, NEW n \in Name, files[n] # NoFile, Loads(files[n])
               PROVE  LET exported == Render(Load(files[n])) IN
                      Loads(exported) /\ Load(exported) = Load(files[n])
    BY DEF RoundTrip
  <2>1. files[n] \in Seq(Line)
    BY DEF TypeOK
  <2>2. Load(files[n]) \in Seq(Sound)
    BY <2>1, LoadSound
  <2> QED
    BY <2>2, ExportKept
<1> QED
  BY <1>1, TypeCorrect, PTL
=============================================================================
