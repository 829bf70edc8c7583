---------------------------- MODULE InputHandlers ----------------------------
(***************************************************************************)
(* The handlers of the Input and Restart services on the threads of a gRPC *)
(* pool (InputService.cpp, RestartService.cpp), the JVM bridge they call   *)
(* Kotlin through (JvmManager), and the profile files they read and write  *)
(* (KeyboardMacro.kt 71-134 and 270-320).                                  *)
(*                                                                         *)
(* Per thread: whether it is attached to the JVM, the exception pending on *)
(* it, and the two isAttached flags of a handler that gets an environment  *)
(* of its own and then calls callJavaMethod, which gets another.  Of the   *)
(* recorder only what it does to the files is here, of the replay only     *)
(* what it loads: the rest is in MacroRecorder and MacroReplay.            *)
(* StartReplay, StopReplay and SaveMacro only answer and change nothing.   *)
(***************************************************************************)
EXTENDS ProfileStore

CONSTANTS
  Thread,     \* of the pool
  Name,       \* of a profile
  Upload,     \* files that clients import
  Recording,  \* sequences of events that the recorder writes
  NoFile,
  NoOne

ASSUME ContentsAssumption ==
  /\ Upload \subseteq Seq(Line) /\ Recording \subseteq Seq(Event)
  /\ NoFile \notin Seq(Line)

VARIABLES
  files,      \* the profiles directory
  unlinked,   \* importers whose open file has been deleted
  writer,     \* the recorder's open file, while it has something left to write to it
  at,         \* where a thread is
  kind,       \* the handler it runs
  name,       \* the profile it works on
  upload,     \* what an import writes
  attached,   \* threads attached to the JVM
  exception,  \* threads with a pending exception
  outer,      \* threads whose handler got isAttached = true
  inner,      \* threads whose callJavaMethod got isAttached = true
  killer,     \* what ended the process, or NoOne
  \* History variables, for the properties only.
  soiled,     \* threads whose call began with an exception pending
  kept,       \* threads that a call left attached to the JVM
  troubled,   \* profiles that were deleted, or held a line no load can read
  spoilt      \* importers whose file another call touched, or whose write failed

store == <<files, unlinked, writer>>
call == <<kind, name, upload>>
flag == <<outer, inner>>
jvm == <<attached, exception, flag>>
ghost == <<soiled, kept, troubled, spoilt>>
vars == <<store, at, call, jvm, killer, ghost>>
-----------------------------------------------------------------------------
Forward == {"startRecording", "stopRecording", "restartProcess"}
Player == {"replayMacroDebug", "startComplexReplay"}
Value == {"listSaveFiles", "getMacroDetail", "exportProfile"}  \* callJavaMethod<T>
Stream == {"remoteKeyEvent", "remoteMouseEvent"}
Keeps == {"startComplexReplay", "deleteMacros", "importProfile", "exportProfile"}
OwnEnv == Keeps \cup {"remoteKeyEvent"}  \* those that call getJNIEnv themselves
Kind == Forward \cup Player \cup Value \cup Stream \cup OwnEnv

TypeOK ==
  /\ files \in [Name -> Seq(Line) \cup {NoFile}]
  /\ at \in [Thread -> {"idle", "reading", "env", "call", "check", "exists", "load", "act",
                          "open", "write", "back", "after"}]
  /\ kind \in [Thread -> Kind \cup {NoOne}]
  /\ name \in [Thread -> Name \cup {NoOne}]
  /\ upload \in [Thread -> Upload \cup {NoFile}]
  /\ writer \in [name : Name, left : Seq(Event), from : Nat] \cup {NoOne}
  /\ killer \in [kind : Kind \cup {"exit"}, name : Name \cup {NoOne}, soiled : BOOLEAN,
                  kept : BOOLEAN] \cup {NoOne}
  /\ unlinked \subseteq Thread /\ attached \subseteq Thread /\ exception \subseteq Thread
  /\ outer \subseteq Thread /\ inner \subseteq Thread
  /\ soiled \subseteq Thread /\ kept \subseteq Thread /\ spoilt \subseteq Thread
  /\ troubled \subseteq Name

Init ==
  /\ files = [n \in Name |-> NoFile] /\ unlinked = {} /\ writer = NoOne
  /\ at = [t \in Thread |-> "idle"]
  /\ kind = [t \in Thread |-> NoOne] /\ name = [t \in Thread |-> NoOne]
  /\ upload = [t \in Thread |-> NoFile]
  /\ attached = {} /\ exception = {} /\ outer = {} /\ inner = {}
  /\ killer = NoOne
  /\ soiled = {} /\ kept = {} /\ troubled = {} /\ spoilt = {}

Go(t, from, to) == at[t] = from /\ at' = [at EXCEPT ![t] = to]

\* Undefined behaviour, an abort of the JVM, or an exception nobody catches.
Dies(t) ==
  /\ killer' = [kind |-> kind[t], name |-> name[t], soiled |-> t \in soiled, kept |-> t \in kept]
  /\ UNCHANGED <<store, at, call, jvm, ghost>>
-----------------------------------------------------------------------------
(* The native side of a call *)

Call(t, k, n, file) ==
  /\ Go(t, "idle", IF k \in Stream THEN "reading" ELSE IF k \in OwnEnv THEN "env" ELSE "call")
  /\ kind' = [kind EXCEPT ![t] = k] /\ name' = [name EXCEPT ![t] = n]
  /\ upload' = [upload EXCEPT ![t] = file]
  /\ soiled' = IF t \in exception THEN soiled \cup {t} ELSE soiled \ {t}
  /\ UNCHANGED <<store, jvm, killer, kept, troubled, spoilt>>

\* The handler's locals go; the thread waits for another call.
Leave(t) ==
  /\ at' = [at EXCEPT ![t] = "idle"]
  /\ kind' = [kind EXCEPT ![t] = NoOne] /\ name' = [name EXCEPT ![t] = NoOne]
  /\ upload' = [upload EXCEPT ![t] = NoFile]

\* reader->Read of RemoteKeyEvent and RemoteMouseEvent: an event, or the end of the stream.
Read(t) ==
  /\ at[t] = "reading"
  /\ \/ /\ Go(t, "reading", IF kind[t] \in OwnEnv THEN "env" ELSE "call")
        /\ UNCHANGED call
     \/ Leave(t)
  /\ UNCHANGED <<store, jvm, killer, ghost>>

\* Mutant: getJNIEnv reports every thread as one it has attached.
GetJNIEnvAlways(t, flags) == flags \cup {t}

\* The isAttached flags after getJNIEnv.
GetJNIEnv(t, flags) == IF t \in attached THEN flags \ {t} ELSE flags \cup {t}

\* JNI functions with an exception pending.
Undefined(t) == at[t] \in {"env", "call"} /\ t \in exception /\ Dies(t)

\* Lines 135, 317, 357, 400 and 496.
OwnGetEnv(t) ==
  /\ Go(t, "env", "call")
  /\ outer' = GetJNIEnv(t, outer)
  /\ attached' = attached \cup {t}
  /\ UNCHANGED <<store, call, exception, inner, killer, ghost>>

Entry(k) ==
  CASE k = "exportProfile" -> "check"
    [] k = "importProfile" -> "open"
    [] k \in Player \cup {"getMacroDetail"} -> "exists"
    [] OTHER -> "act"

\* callJavaMethod, up to the invocation.
CallJavaMethod(t) ==
  /\ Go(t, "call", Entry(kind[t]))
  /\ inner' = GetJNIEnv(t, inner)
  /\ attached' = attached \cup {t}
  /\ UNCHANGED <<store, call, exception, outer, killer, ghost>>

\* What follows callJavaMethod; four handlers return without a detach.
Finish(t) ==
  \/ /\ kind[t] \in Stream
     /\ at' = [at EXCEPT ![t] = IF kind[t] = "remoteKeyEvent" THEN "after" ELSE "reading"]
     /\ UNCHANGED <<call, outer, kept>>
  \/ /\ kind[t] \notin Stream
     /\ Leave(t)
     /\ outer' = outer \ {t}
     /\ kept' = IF kind[t] \in Keeps THEN kept \cup {t} ELSE kept

\* With an exception pending GetMethodID may find nothing, and the call is not made.
NoMethod(t) ==
  /\ at[t] = "call" /\ t \in exception
  /\ Finish(t)
  /\ UNCHANGED <<store, attached, exception, inner, killer, soiled, troubled, spoilt>>

\* Mutant: callJavaMethod leaves the thread attached.
BackAttached(t) ==
  /\ at[t] = "back"
  /\ Finish(t)
  /\ inner' = inner \ {t}
  /\ UNCHANGED <<store, attached, exception, killer, soiled, troubled, spoilt>>

\* The mapper of a null result, or a detach with an exception pending, ends the process.
BackDies(t) ==
  /\ at[t] = "back" /\ t \in exception
  /\ t \in inner \/ kind[t] \in Value
  /\ Dies(t)

\* JvmManager.cpp 90-91, JvmManager.h 81-87.  If an exception was pending before the call
\* the result of a Value call may be there after all.
Back(t) ==
  /\ at[t] = "back"
  /\ t \in exception => t \notin inner /\ (kind[t] \notin Value \/ t \in soiled)
  /\ Finish(t)
  /\ attached' = IF t \in inner THEN attached \ {t} ELSE attached
  /\ inner' = inner \ {t}
  /\ UNCHANGED <<store, exception, killer, soiled, troubled, spoilt>>

\* RemoteKeyEvent 522-533: an exception is cleared, and the next event read without the
\* detach; the environment of a thread that is not attached is undefined.
KeyAfter(t) ==
  /\ at[t] = "after"
  /\ \/ t \notin attached /\ Dies(t)
     \/ /\ t \in attached
        /\ Go(t, "after", "reading")
        /\ exception' = exception \ {t}
        /\ attached' = IF t \in outer \ exception THEN attached \ {t} ELSE attached
        /\ kept' = IF t \in exception THEN kept \cup {t} ELSE kept
        /\ outer' = outer \ {t}
        /\ UNCHANGED <<store, call, inner, killer, soiled, troubled, spoilt>>

\* An idle thread of the pool ends: the JVM aborts if it is still attached.  Another takes
\* the place of one that is not.
ExitThread(t) ==
  /\ at[t] = "idle" /\ t \in attached
  /\ killer' = [kind |-> "exit", name |-> NoOne, soiled |-> t \in exception, kept |-> t \in kept]
  /\ UNCHANGED <<store, at, call, jvm, ghost>>
-----------------------------------------------------------------------------
(* The Kotlin side *)

Throws(t, from) ==
  /\ Go(t, from, "back")
  /\ exception' = exception \cup {t}
  /\ UNCHANGED <<store, call, attached, flag, killer, ghost>>

\* exportProfile, lines 299-302.
CheckExport(t) ==
  \/ Throws(t, "check") /\ files[name[t]] = NoFile
  \/ /\ Go(t, "check", "exists")
     /\ files[name[t]] # NoFile
     /\ UNCHANGED <<store, call, jvm, killer, ghost>>

Loaded(t) == IF kind[t] \in Player THEN "act" ELSE "back"

\* Mutant: loadRecordedFile does not look whether the file is there.
FileExistsAlways(t) ==
  /\ Go(t, "exists", "load")
  /\ UNCHANGED <<store, call, jvm, killer, ghost>>

\* loadRecordedFile, lines 119-122: no file, no events.
FileExists(t) ==
  /\ Go(t, "exists", IF files[name[t]] = NoFile THEN Loaded(t) ELSE "load")
  /\ UNCHANGED <<store, call, jvm, killer, ghost>>

\* Lines 124-133.
ForEachLine(t) ==
  LET file == files[name[t]]
      loads == file # NoFile /\ Loads(file) IN
  \/ Throws(t, "load") /\ ~loads
  \/ /\ Go(t, "load", Loaded(t))
     /\ loads
     /\ UNCHANGED <<store, call, jvm, killer, ghost>>

\* The rest of Kotlin: the replay, the report senders, the list of files.  A complex replay
\* may go on to load another file; listing files does not throw.
Act(t) ==
  /\ kind[t] \notin {"deleteMacros", "startRecording", "stopRecording"}
  /\ \/ kind[t] # "listSaveFiles" /\ Throws(t, "act")
     \/ /\ Go(t, "act", "back")
        /\ UNCHANGED <<store, call, jvm, killer, ghost>>
     \/ /\ kind[t] = "startComplexReplay"
        /\ Go(t, "act", "exists")
        /\ \E n \in Name : name' = [name EXCEPT ![t] = n]
        /\ UNCHANGED <<store, kind, upload, jvm, killer, ghost>>

Importer(n) == {t \in Thread : kind[t] = "importProfile" /\ name[t] = n}

\* The importers that a change of the file n disturbs.
Disturbed(n) == {t \in Importer(n) : at[t] \in {"write", "back"}}

TroubledBy(n, file) == IF file = NoFile \/ ~Loads(file) THEN troubled \cup {n} ELSE troubled

\* What the file n holds.
Bytes(n) == IF files[n] = NoFile THEN <<>> ELSE files[n]

\* Mutant: the file keeps what it has.
TruncateNot(n) ==
  /\ files' = [files EXCEPT ![n] = Bytes(n)]
  /\ UNCHANGED troubled

\* An open that empties the file n.
Truncate(n) ==
  /\ files' = [files EXCEPT ![n] = <<>>]
  /\ UNCHANGED troubled

\* A write of new over old, after the first from lines.  Past the end of old, what is skipped
\* hides no line that follows it.
Over(new, old, from) ==
  SubSeq(old, 1, IF from <= Len(old) THEN from ELSE Len(old)) \o new
    \o SubSeq(old, from + Len(new) + 1, Len(old))

\* startRecord, lines 71-86: the open, which may fail, empties the file.  A writer that is
\* still open is left to itself.
StartRecord(t) ==
  LET n == name[t] IN
  /\ kind[t] = "startRecording"
  /\ \/ Throws(t, "act")
     \/ /\ Go(t, "act", "back")
        /\ Truncate(n)
        /\ \E events \in Recording :
             writer' = [name |-> n, left |-> events, from |-> 0]
        /\ spoilt' = spoilt \cup Disturbed(n)
        /\ UNCHANGED <<unlinked, call, jvm, killer, soiled, kept>>

\* A tick, lines 105-113, appends some of what is left.
ProcessInputs ==
  /\ writer # NoOne
  /\ \E k \in 1..Len(writer.left) :
       LET n == writer.name
           rest == SubSeq(writer.left, k + 1, Len(writer.left))
           file == Over(Render(SubSeq(writer.left, 1, k)), Bytes(n), writer.from) IN
       /\ files' = [files EXCEPT ![n] = file]
       /\ writer' = IF rest = <<>> THEN NoOne
                    ELSE [writer EXCEPT !.left = rest, !.from = @ + k]
       /\ troubled' = TroubledBy(n, file)
       /\ spoilt' = spoilt \cup Disturbed(n)
  /\ UNCHANGED <<unlinked, at, call, jvm, killer, soiled, kept>>

\* stopRecord, lines 90-94; the close may fail.
StopRecord(t) ==
  /\ kind[t] = "stopRecording"
  /\ \/ Throws(t, "act")
     \/ /\ Go(t, "act", "back")
        /\ writer' = NoOne
        /\ UNCHANGED <<files, unlinked, call, jvm, killer, ghost>>

\* KeyboardMacro.kt 306-320, one file.  What the recorder has still to write to it is lost.
DeleteMacros(t) ==
  LET n == name[t] IN
  /\ kind[t] = "deleteMacros"
  /\ Go(t, "act", "back")
  /\ files' = [files EXCEPT ![n] = NoFile]
  /\ unlinked' = unlinked \cup {u \in Importer(n) : at[u] = "write"}
  /\ writer' = IF writer # NoOne /\ writer.name = n THEN NoOne ELSE writer
  /\ troubled' = TroubledBy(n, NoFile)
  /\ spoilt' = spoilt \cup Disturbed(n)
  /\ UNCHANGED <<call, jvm, killer, soiled, kept>>

\* writeBytes of importProfile first empties the file.
OpenFile(t) ==
  LET n == name[t] IN
  /\ Go(t, "open", "write")
  /\ Truncate(n)
  /\ unlinked' = unlinked \ {t}
  /\ spoilt' = (spoilt \ {t}) \cup Disturbed(n)
                 \cup (IF \E u \in Importer(n) : at[u] = "write" THEN {t} ELSE {})
  /\ UNCHANGED <<writer, call, jvm, killer, soiled, kept>>

\* Then it writes; into a file that has been deleted the bytes are lost.
WriteFile(t) ==
  LET n == name[t]
      lost == t \in unlinked
      file == Over(upload[t], Bytes(n), 0) IN
  /\ Go(t, "write", "back")
  /\ files' = IF lost THEN files ELSE [files EXCEPT ![n] = file]
  /\ troubled' = IF lost THEN troubled ELSE TroubledBy(n, file)
  /\ spoilt' = IF lost THEN spoilt ELSE spoilt \cup (Disturbed(n) \ {t})
  /\ unlinked' = unlinked \ {t}
  /\ UNCHANGED <<writer, call, jvm, killer, soiled, kept>>

\* InputService.kt 87-93: an exception of the open or the write is caught and forgotten.
ImportFails(t) ==
  /\ at[t] \in {"open", "write"}
  /\ at' = [at EXCEPT ![t] = "back"]
  /\ spoilt' = spoilt \cup {t}
  /\ unlinked' = unlinked \ {t}
  /\ UNCHANGED <<files, writer, call, jvm, killer, soiled, kept, troubled>>
-----------------------------------------------------------------------------
ThreadNext(t) ==
  \/ Read(t) \/ OwnGetEnv(t) \/ CallJavaMethod(t) \/ NoMethod(t) \/ Undefined(t)
  \/ Back(t) \/ BackDies(t) \/ KeyAfter(t) \/ ExitThread(t)
  \/ CheckExport(t) \/ FileExists(t) \/ ForEachLine(t) \/ Act(t) \/ StartRecord(t) \/ StopRecord(t)
  \/ DeleteMacros(t) \/ OpenFile(t) \/ WriteFile(t) \/ ImportFails(t)

\* An upload belongs to an import only.
File(k) == IF k = "importProfile" THEN Upload ELSE {NoFile}

Step ==
  \/ \E t \in Thread : ThreadNext(t)
  \/ \E t \in Thread, k \in Kind, n \in Name : \E file \in File(k) : Call(t, k, n, file)
  \/ ProcessInputs

Dead == killer # NoOne /\ UNCHANGED vars

Next == (killer = NoOne /\ Step) \/ Dead

Spec == Init /\ [][Next]_vars
-----------------------------------------------------------------------------
(* Properties *)

\* Between two calls a thread is detached from the JVM and has no exception pending, unless
\* one of the four handlers that never detach has run on it, or a key event's exception has
\* been cleared (JvmManager.cpp 91, InputService.cpp 133-160, 312-478, 522-533).
CleanBetweenCalls ==
  \A t \in Thread : at[t] = "idle" /\ t \in attached \cup exception => t \in kept

\* While it runs, a call whose handler gets an environment of its own (a key event, a complex
\* replay, an import, a deletion) does not end the process, whatever Kotlin throws, unless an
\* exception was pending when it began: its attachment keeps callJavaMethod from detaching.
\* What it leaves attached may end the process later, with its thread; a thread that no call
\* has left attached may end (InputService.cpp 313-528, JvmManager.cpp 74-91).
OwnEnvSurvives ==
  killer # NoOne =>
    /\ killer.kind \in OwnEnv \ Value => killer.soiled
    /\ killer.kind = "exit" => killer.kept

\* A client that lists the profiles, or asks for the events of one, ends the process only if
\* an exception was pending on the thread, or the profile has been deleted or has held a line
\* that cannot be read (KeyboardMacro.kt 115-134, JvmManager.h 94-113).
ReadersSurvive ==
  killer # NoOne /\ ~killer.soiled =>
    /\ killer.kind # "listSaveFiles"
    /\ killer.kind = "getMacroDetail" => killer.name \in troubled

\* An import that no other call overlaps and no failure meets leaves exactly its upload,
\* whatever the file held before (KeyboardMacro.kt 292-295).
ImportWhole ==
  \A t \in Thread :
    at[t] = "back" /\ kind[t] = "importProfile" /\ t \notin spoilt => files[name[t]] = upload[t]

\* What is exported from a profile that loads can be imported again, and then loads as the
\* same events (InputService.cpp 412-463, KeyboardMacro.kt 124-132).
RoundTrip ==
  \A n \in Name :
    files[n] # NoFile /\ Loads(files[n]) =>
      LET exported == Render(Load(files[n])) IN
      Loads(exported) /\ Load(exported) = Load(files[n])
=============================================================================
