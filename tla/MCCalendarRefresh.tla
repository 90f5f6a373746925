-------------------------- MODULE MCCalendarRefresh -------------------------
(***************************************************************************)
(* CalendarRefresh for TLC: two commands, so that one can wait behind      *)
(* another or be dropped; two replies, so that a device code can wait with *)
(* the end of its pairing, or with an earlier answer.                      *)
(***************************************************************************)
EXTENDS CalendarRefresh
=============================================================================
