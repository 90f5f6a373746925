--------------------------- MODULE WeatherRefresh ---------------------------
(***************************************************************************)
(* The weather refresh (WeatherStore, maybe_dispatch_weather and the two   *)
(* weather arms of dispatch_reply_to_domain in main.rs) over the worker.   *)
(*                                                                         *)
(* An Instant is only ever compared with now, so what a store's retry time *)
(* and the age of its snapshot decide is one of "fresh" (nothing is due),  *)
(* "backoff" (next_retry lies ahead) and "due" (a retry or the cadence).   *)
(* A city stands for its name, as typed or as the geocoder spells it, and  *)
(* for its coordinates.  The calendar's commands, which share the channel, *)
(* are among those of SendMopidy here: commands of others, served in turn. *)
(* Names that CalendarRefresh has too begin with Weather.                  *)
(*                                                                         *)
(* An operator named as faulty is not used: it stands beside the one it    *)
(* would replace, and shows which property notices the fault.              *)
(***************************************************************************)
EXTENDS CommandWorker

CONSTANTS
  City,     \* what the weather's commands speak of
  HomeCity  \* the city of config.toml, to which every boot resets

NoCity == NoArg

ASSUME CityAssumption == City \subseteq Arg /\ HomeCity \in City /\ NoCity \notin City

VARIABLES
  city,               \* the config table: weather_city
  coords,             \* the config table: whose weather_lat and weather_lon
  weather_in_flight,  \* WeatherStore.fetch_in_flight
  geocode_in_flight,
  weather_cadence,    \* what retry_state and last_snapshot make due
  unpersisted         \* history: geocoded coordinates could not be stored

store == <<weather_in_flight, geocode_in_flight, weather_cadence>>
config == <<city, coords, unpersisted>>
weatherVars == <<workerVars, store, config>>

\* Boot has reset the city, stored the coordinates of config.toml if it gives
\* any, and deleted them otherwise.
WeatherInit ==
  /\ WorkerInit
  /\ city = HomeCity /\ coords \in {NoCity, HomeCity} /\ unpersisted = FALSE
  /\ weather_in_flight = FALSE /\ geocode_in_flight = FALSE /\ weather_cadence = "due"

-----------------------------------------------------------------------------
(* maybe_dispatch_weather, on the 30 s timer. *)

\* Faulty: the weather of the city that is set, wherever the coordinates are.
DispatchFetchOfCity ==
  /\ up /\ coords # NoCity /\ ~weather_in_flight /\ weather_cadence = "due"
  /\ Sends(Cmd("FetchWeather", city))
  /\ weather_in_flight' = Room
  /\ UNCHANGED <<replies, job, stage, listening, signal, up,
                 geocode_in_flight, weather_cadence, config>>

\* Faulty: a dropped command leaves its flag set.
DispatchFetchMarked ==
  /\ up /\ coords # NoCity /\ ~weather_in_flight /\ weather_cadence = "due"
  /\ Sends(Cmd("FetchWeather", coords))
  /\ weather_in_flight' = TRUE
  /\ UNCHANGED <<replies, job, stage, listening, signal, up,
                 geocode_in_flight, weather_cadence, config>>

DispatchFetch ==
  /\ up /\ coords # NoCity
  /\ ~weather_in_flight /\ weather_cadence = "due"
  /\ Sends(Cmd("FetchWeather", coords))
  /\ weather_in_flight' = Room
  /\ UNCHANGED <<replies, job, stage, listening, signal, up,
                 geocode_in_flight, weather_cadence, config>>

DispatchGeocode ==
  /\ up /\ coords = NoCity
  /\ ~geocode_in_flight /\ weather_cadence # "backoff"
  /\ Sends(Cmd("GeocodeCity", city))
  /\ geocode_in_flight' = Room
  /\ UNCHANGED <<replies, job, stage, listening, signal, up,
                 weather_in_flight, weather_cadence, config>>

WeatherTick == DispatchFetch \/ DispatchGeocode

-----------------------------------------------------------------------------
(* The replies. *)

HandleFailure ==
  /\ weather_in_flight' = FALSE /\ geocode_in_flight' = FALSE
  /\ weather_cadence' = "backoff"

WeatherFetched ==
  /\ Takes("FetchWeather", "ok")
  /\ weather_in_flight' = FALSE /\ weather_cadence' = "fresh"
  /\ UNCHANGED <<cmds, job, stage, listening, signal, up, geocode_in_flight, config>>

WeatherFailed ==
  /\ Takes("FetchWeather", "err") \/ Takes("GeocodeCity", "err")
  /\ HandleFailure
  /\ UNCHANGED <<cmds, job, stage, listening, signal, up, config>>

\* The name and the coordinates are stored, or a write fails after the name
\* was stored or before it; a fetch is sent for them in either case.  (Old
\* coordinates of which one half is rewritten take a second such failure, and
\* are left out.)
Persist(c) ==
  \/ city' = c /\ coords' = c /\ unpersisted' = unpersisted
  \/ city' \in {city, c} /\ coords' = coords /\ unpersisted' = TRUE

\* record_success takes the backoff away, and with it a retry: the age of the
\* snapshot decides.
RecordSuccess == weather_cadence' \in IF weather_cadence = "fresh" THEN {"fresh"} ELSE {"fresh", "due"}

Geocoded ==
  /\ Takes("GeocodeCity", "ok")
  /\ Persist(Head(replies).arg)
  /\ RecordSuccess
  /\ geocode_in_flight' = FALSE
  /\ Sends(Cmd("FetchWeather", Head(replies).arg))
  /\ weather_in_flight' = Room
  /\ UNCHANGED <<job, stage, listening, signal, up>>

-----------------------------------------------------------------------------
(* The web page, and time. *)

SetWeatherCity(c) ==
  /\ up /\ city' = c
  /\ UNCHANGED <<workerVars, store, coords, unpersisted>>

WeatherAges ==
  /\ up /\ weather_cadence # "due" /\ weather_cadence' = "due"
  /\ UNCHANGED <<workerVars, weather_in_flight, geocode_in_flight, config>>

WeatherWorker == WorkerNext /\ UNCHANGED <<store, config>>

WeatherNext ==
  \/ WeatherWorker \/ WeatherTick
  \/ WeatherFetched \/ WeatherFailed \/ Geocoded
  \/ (\E c \in City : SetWeatherCity(c)) \/ WeatherAges

\* The runtime goes on with what it can go on with, the drain timer takes
\* what has arrived.  select! picks at random among the branches that are
\* ready, so that a pending signal is not passed over for ever.  The timer
\* finds the channel empty again and again if it is empty again and again.
WeatherFairness ==
  /\ WF_weatherVars(WeatherWorker /\ (Receive \/ Answer \/ FinishSilently \/ RequestShutdown))
  /\ SF_weatherVars(WeatherWorker /\ CatchSignal)
  /\ WF_weatherVars((WeatherWorker /\ (MopidyReplied \/ ShutdownRequested))
             \/ WeatherFetched \/ WeatherFailed \/ Geocoded)
  /\ SF_weatherVars(WeatherTick /\ cmds = <<>>)

WeatherSpec == WeatherInit /\ [][WeatherNext]_weatherVars /\ WeatherFairness

-----------------------------------------------------------------------------
(* Properties. *)

\* Every variable keeps its type, and no channel is overfilled.
WeatherTypeOK ==
  /\ WorkerTypeOK
  /\ city \in City /\ coords \in City \union {NoCity}
  /\ weather_in_flight \in BOOLEAN /\ geocode_in_flight \in BOOLEAN
  /\ weather_cadence \in {"fresh", "due", "backoff"} /\ unpersisted \in BOOLEAN

\* A flag that is set stands for a request whose reply is still to come:
\* whatever fails, overtakes or is dropped, the scheduler is not left waiting
\* for an answer that nobody owes it.
WeatherFlagsHonest ==
  /\ weather_in_flight => UnderWay({"FetchWeather"}) # {}
  /\ geocode_in_flight => UnderWay({"GeocodeCity"}) # {}

\* Geocode and fetch exclude each other in time, which is why a failure may
\* clear both flags; only a failed write of the coordinates lets the scheduler
\* geocode again while the fetch for them is under way.
OneWeatherRequest == ~unpersisted => AtMostOne({"FetchWeather", "GeocodeCity"})

\* What is fetched is the weather of the place whose coordinates are stored.
FetchedWhereStored ==
  ~unpersisted => \A r \in UnderWay({"FetchWeather"}) : r.arg = coords

\* A refresh that is due is made and answered, unless the worker never catches
\* up with its commands, the coordinates cannot be stored, or the process ends.
WeatherRefreshed ==
  []<>(cmds = <<>>) => (weather_cadence = "due" ~> weather_cadence # "due" \/ unpersisted \/ ~up)
=============================================================================
