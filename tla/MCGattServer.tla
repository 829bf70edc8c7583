---------------------------- MODULE MCGattServer ----------------------------
(***************************************************************************)
(* Small instances of GattServer.                                          *)
(***************************************************************************)
EXTENDS GattServer, TLC

CONSTANTS keyboard, mouse, h1, h2

Hosts == {h1, h2}
Channels == {keyboard, mouse}
Symmetry == Permutations(Hosts) \cup Permutations(Channels)
=============================================================================
