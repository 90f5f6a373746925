---------------------------- MODULE MCEpisodeFSM ----------------------------
(* An instance of EpisodeFSM: an alarm that climbs in three steps, one within *)
(* the grace window, one over its own max_volume and one over any ceiling,    *)
(* with one backup and one snooze, and a fixed-volume alarm over the ceiling  *)
(* that allows no snooze.                                                     *)
EXTENDS EpisodeFSM, TLC

CONSTANTS a1, a2, song, radio

MCAlarm == {a1, a2}
MCMediaUri == {song, radio}
MCAlarmRow ==
  (a1 :> [max_volume |-> 90, fallbacks |-> 1, max_snoozes |-> 1,
          steps |-> <<[after_secs |-> 0, volume |-> 20],
                      [after_secs |-> 1, volume |-> 95],
                      [after_secs |-> 2, volume |-> 120]>>])
  @@ (a2 :> [max_volume |-> 120, fallbacks |-> 0, max_snoozes |-> 0, steps |-> <<>>])

\* A track playing, a track stopped.
MCUserMedia ==
  {[uri |-> song, playing |-> TRUE, volume |-> 35, repeat |-> FALSE, shuffle |-> TRUE],
   [uri |-> radio, playing |-> FALSE, volume |-> 10, repeat |-> TRUE, shuffle |-> FALSE]}
=============================================================================
