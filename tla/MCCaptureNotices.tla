-------------------------- MODULE MCCaptureNotices --------------------------
(***************************************************************************)
(* Small instances of CaptureNotices.  Times are in seconds, scaled down:  *)
(* the code's 3 and 2 are 2 and 1.                                         *)
(***************************************************************************)
EXTENDS CaptureNotices

Gap == 2
Timeout == 1
FirstSecond == Gap
LastSecond == FirstSecond + Gap + 2 * Timeout
=============================================================================
