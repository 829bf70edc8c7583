-------------------------- MODULE MCMacroRecorder --------------------------
(***************************************************************************)
(* Small instances of MacroRecorder.                                       *)
(***************************************************************************)
EXTENDS MacroRecorder

\* Event records name their listener, which the properties only compare.
Symmetry == Permutations(Listener)
=============================================================================
