------------------------------ MODULE EventLog ------------------------------
(***************************************************************************)
(* What the recorder promises of the reports it accepts: they reach the    *)
(* disk in the order in which they were accepted, each of them once, and   *)
(* what is on the disk stays as it is.  Until then they are held in        *)
(* memory; a crash loses all that is held, and a write that fails loses    *)
(* one report and ends the process.                                        *)
(***************************************************************************)
EXTENDS Integers, Sequences, SequencesExt

CONSTANT Report

VARIABLES
  saved,  \* reports on the disk
  held,   \* reports accepted and not on the disk
  alive

vars == <<saved, held, alive>>

Init == saved = << >> /\ held = << >> /\ alive = TRUE

Accept ==
  /\ alive
  /\ held' # << >> /\ Last(held') \in Report
  /\ held' = Append(held, Last(held'))
  /\ UNCHANGED <<saved, alive>>

\* The reports that have waited longest, however many.
Save ==
  /\ alive
  /\ \E n \in 1..Len(held) :
       /\ saved' = saved \o SubSeq(held, 1, n)
       /\ held' = SubSeq(held, n + 1, Len(held))
  /\ UNCHANGED alive

Crash ==
  /\ alive /\ alive' = FALSE
  /\ held' \in {held, SubSeq(held, 2, Len(held))}
  /\ UNCHANGED saved

Next == Accept \/ Save \/ Crash

Spec == Init /\ [][Next]_vars
=============================================================================
