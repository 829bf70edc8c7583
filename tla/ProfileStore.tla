---------------------------- MODULE ProfileStore ----------------------------
(***************************************************************************)
(* What a profile file keeps of the events it stands for: the lines that   *)
(* the recorder and the export write, and what a load makes of them        *)
(* (KeyboardMacro.kt 104-134, InputService.cpp 441-452).                   *)
(*                                                                         *)
(* A file is a sequence of lines.  A line that has the form of an event    *)
(* has the number its hexadecimal digits spell and its data; case does not *)
(* matter to a load and is left out.  A Long has 2 * Half values.          *)
(***************************************************************************)
EXTENDS Integers, Sequences, SequencesExt

CONSTANTS
  Half,     \* 2^63
  Data,     \* reports of at least one byte
  NoData,   \* the report without a byte
  BadData,  \* data no byte array is spelled by: two spaces in a row, too many digits
  Junk      \* a line without the form of an event

ASSUME HalfAssumption == Half \in Nat \ {0}
ASSUME DataAssumption ==
  /\ NoData \notin Data /\ BadData \notin Data /\ NoData # BadData
  /\ \A n \in 0..(2 * Half - 1), d \in Data \cup {NoData, BadData} :
       Junk # [digits |-> n, data |-> d]

Long == -Half..(Half - 1)
Event == [delay : Long, data : Data \cup {NoData}]
Line == [digits : 0..(2 * Half - 1), data : Data \cup {NoData, BadData}] \cup {Junk}

\* Mutant: a minus sign.
DigitsSigned(delay) == delay

\* The digits of a Long, by "%X" and by std::hex: those of its two's complement.
Digits(delay) == IF delay >= 0 THEN delay ELSE delay + 2 * Half

\* The line of an event.
Written(event) == [digits |-> Digits(event.delay), data |-> event.data]

\* Mutant: the loop begins with the second event.
RenderFromSecond(events) == [i \in 1..(Len(events) - 1) |-> Written(events[i + 1])]

\* The lines of the recorder and of an export.
Render(events) == [i \in 1..Len(events) |-> Written(events[i])]

\* The regular expression finds an event: at least one character of data.
Matches(line) == line # Junk /\ line.data # NoData

\* toLong(16) and toInt(16) accept the digits they are given.
Readable(line) == line.digits < Half /\ line.data # BadData

\* Whether a load of the file ends without a NumberFormatException.
Loads(file) == \A i \in DOMAIN file : Matches(file[i]) => Readable(file[i])

EventOf(line) == [delay |-> line.digits, data |-> line.data]

\* An event for each line that has one.
Load(file) ==
  FlattenSeq([i \in 1..Len(file) |-> IF Matches(file[i]) THEN <<EventOf(file[i])>> ELSE << >>])
=============================================================================
