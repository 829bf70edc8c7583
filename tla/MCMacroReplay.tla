--------------------------- MODULE MCMacroReplay ---------------------------
(***************************************************************************)
(* Small instances of MacroReplay.  Two files: one that presses and        *)
(* releases a key a tick apart, one with both reports in the same tick, as *)
(* two keyboards or a quick hand leave them: the second may overtake.      *)
(***************************************************************************)
EXTENDS MacroReplay

CONSTANTS down, up

MCReport == {down, up}
Tap == <<[delay |-> 0, data |-> down], [delay |-> 1, data |-> up]>>
Roll == <<[delay |-> 1, data |-> down], [delay |-> 1, data |-> up]>>

TapRoll == <<Tap, Roll>>
OneTap == <<Tap>>

Symmetry == Permutations(Replayer) \cup Permutations(Executor)
OnePress == << <<[delay |-> 0, data |-> down]>> >>
=============================================================================
