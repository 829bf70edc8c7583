-------------------------- MODULE MCCaptureMinimap --------------------------
(***************************************************************************)
(* Small instances of CaptureMinimap.                                      *)
(***************************************************************************)
EXTENDS CaptureMinimap

\* The left corner where it belongs, and so far to the right that not even the least
\* minimap fits in the frame.
LeftCorners == {0, Width - Border}
RightCorners == {Width}
=============================================================================
