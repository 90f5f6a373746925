-------------------------- MODULE MCGoogleCalendar --------------------------
(***************************************************************************)
(* GoogleCalendar for TLC: a holiday and an agenda calendar, one of which  *)
(* can fail after the other; six events out of order, three of them at one *)
(* time, and none, one, four or all of them past; a code that lives for    *)
(* three polls; a token from before and one of a new pairing; a boot in    *)
(* every state.                                                            *)
(***************************************************************************)
EXTENDS GoogleCalendar

MCCalendars == <<"Holiday", "Agenda">>
On(d, t) == [date |-> d, time |-> t]
MCOffer == {<<>>, <<On(2, 1), On(1, AllDay), On(2, 0), On(1, 0), On(0, AllDay), On(1, 0)>>}
MCNow == {0, 2, 3, 6}
=============================================================================
