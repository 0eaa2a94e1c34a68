----------------------------- MODULE MCClockSync -----------------------------
(***************************************************************************)
(* ClockSync for TLC.                                                      *)
(***************************************************************************)
EXTENDS ClockSync

\* A packet that is no answer may stand for a time far ahead or before 1970.
MCGarbage == {90, -7}
=============================================================================
