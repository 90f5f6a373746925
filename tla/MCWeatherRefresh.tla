-------------------------- MODULE MCWeatherRefresh --------------------------
(***************************************************************************)
(* WeatherRefresh for TLC: two cities, so that a reply can be of another   *)
(* city than the one set meanwhile; two commands, so that one can wait     *)
(* behind another or be dropped; one reply, so that the dispatcher waits   *)
(* for room.  The retries, the dispatcher's states and the channels bound  *)
(* the model by themselves.                                                *)
(***************************************************************************)
EXTENDS WeatherRefresh
=============================================================================
