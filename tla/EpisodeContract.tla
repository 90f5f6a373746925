--------------------------- MODULE EpisodeContract ---------------------------
(***************************************************************************)
(* What the alarm episode promises, without the player, the volume, the    *)
(* sources and the clocks: one episode at a time, of one alarm; it rings,  *)
(* it may lend the player back for a snooze at most Cap[owner] times, a    *)
(* loan ends, and a second alarm takes over from the first.                *)
(***************************************************************************)
EXTENDS Integers

CONSTANTS Alarm, NoAlarm, Cap
VARIABLES phase, owner, used
contractVars == <<phase, owner, used>>

Init == phase = "None" /\ owner = NoAlarm /\ used = 0

Ring(a) == phase' = "Ringing" /\ owner' = a /\ used' = 0

Lend ==
  /\ phase = "Ringing"
  /\ used < Cap[owner]
  /\ phase' = "Lent"
  /\ used' = used + 1
  /\ UNCHANGED owner

TakeBack == phase = "Lent" /\ phase' = "Ringing" /\ UNCHANGED <<owner, used>>

End == phase # "None" /\ phase' = "None" /\ owner' = NoAlarm /\ used' = 0

Next == (\E a \in Alarm : Ring(a)) \/ Lend \/ TakeBack \/ End

\* A loan does not last for ever.
Spec == Init /\ [][Next]_contractVars /\ WF_contractVars(TakeBack)
=============================================================================
