--------------------------- MODULE CalendarRefresh ---------------------------
(***************************************************************************)
(* The calendar (CalendarState, maybe_dispatch_calendar_fetch, the pairing *)
(* from the touchscreen and from the web page, the web page's discovery,   *)
(* and the four calendar arms of dispatch_reply_to_domain, in main.rs)     *)
(* over the worker.                                                        *)
(*                                                                         *)
(* As in WeatherRefresh, the retry time and the time of the last success   *)
(* decide one of "fresh", "backoff" and "due".  OAuth credentials are      *)
(* taken to be configured: without them no calendar command is ever sent.  *)
(* The weather's commands are among those of SendMopidy.  The argument of  *)
(* a PairDeviceFlow, who asked for it, is history: no command holds it.    *)
(*                                                                         *)
(* An operator named as faulty is not used: it stands beside the one it    *)
(* would replace, and shows which property notices the fault.              *)
(***************************************************************************)
EXTENDS CommandWorker

Asker == {"screen", "web"}

ASSUME AskerAssumption == Asker \subseteq Arg /\ NoArg \notin Asker

VARIABLES
  fetch_in_flight, pairing_in_flight, re_pair_needed,
  cadence,       \* what next_retry and last_success make due
  token,         \* Secrets: a refresh token is in memory
  calendars,     \* the calendars table has a row
  pair_slot,     \* PENDING_CALENDAR_PAIR holds a web client's sender
  pair_status,   \* CALENDAR_PAIR_STATUS
  disc_slot,     \* PENDING_DISCOVERY holds a web client's sender
  unsaved        \* history: a token could not be saved

state == <<fetch_in_flight, pairing_in_flight, re_pair_needed, cadence>>
slots == <<pair_slot, pair_status, disc_slot>>
vars == <<workerVars, state, token, calendars, slots, unsaved>>

\* What the last run of the process left on disk is there at boot.
Init ==
  /\ WorkerInit
  /\ fetch_in_flight = FALSE /\ pairing_in_flight = FALSE
  /\ re_pair_needed = FALSE /\ cadence = "due"
  /\ token \in BOOLEAN /\ calendars \in BOOLEAN
  /\ pair_slot = FALSE /\ pair_status = "idle" /\ disc_slot = FALSE
  /\ unsaved = FALSE

-----------------------------------------------------------------------------
(* Main's timer, the touchscreen and the web page. *)

\* Faulty: a fetch in flight does not hold back another.
DueAgain == ~pairing_in_flight /\ cadence = "due"

Due == ~fetch_in_flight /\ ~pairing_in_flight /\ cadence = "due"

\* Faulty: a dropped command leaves its flag set.
MaybeDispatchMarked(rows) ==
  \/ /\ Due /\ token /\ rows
     /\ Sends(Cmd("FetchCalendarEvents", NoArg))
     /\ fetch_in_flight' = TRUE /\ re_pair_needed' = re_pair_needed
  \/ /\ ~(Due /\ token /\ rows)
     /\ re_pair_needed' = (re_pair_needed \/ (Due /\ ~token))
     /\ UNCHANGED <<cmds, fetch_in_flight>>

\* maybe_dispatch_calendar_fetch, with a calendars table that has rows or not.
MaybeDispatch(rows) ==
  \/ /\ Due /\ token /\ rows
     /\ Sends(Cmd("FetchCalendarEvents", NoArg))
     /\ fetch_in_flight' = Room /\ re_pair_needed' = re_pair_needed
  \/ /\ ~(Due /\ token /\ rows)
     /\ re_pair_needed' = (re_pair_needed \/ (Due /\ ~token))
     /\ UNCHANGED <<cmds, fetch_in_flight>>

RefreshTick ==
  /\ up /\ MaybeDispatch(calendars)
  /\ UNCHANGED <<replies, job, stage, listening, signal, up,
                 pairing_in_flight, cadence, token, calendars, slots, unsaved>>

MayPair == ~pairing_in_flight /\ ~fetch_in_flight

PairCalendarsTapped ==
  /\ up /\ MayPair
  /\ Sends(Cmd("PairDeviceFlow", "screen"))
  /\ pairing_in_flight' = Room
  /\ UNCHANGED <<replies, job, stage, listening, signal, up, fetch_in_flight,
                 re_pair_needed, cadence, token, calendars, slots, unsaved>>

\* A pairing that cannot be dispatched takes everything back and says so.
PairCalendar ==
  /\ up /\ MayPair
  /\ Sends(Cmd("PairDeviceFlow", "web"))
  /\ pairing_in_flight' = Room /\ pair_slot' = Room
  /\ pair_status' = IF Room THEN "pending" ELSE "error"
  /\ UNCHANGED <<replies, job, stage, listening, signal, up, fetch_in_flight,
                 re_pair_needed, cadence, token, calendars, disc_slot, unsaved>>

\* A second discovery takes the slot of the first.
DiscoverCalendars ==
  /\ up /\ token
  /\ Sends(Cmd("ListCalendars", NoArg))
  /\ disc_slot' = Room
  /\ UNCHANGED <<replies, job, stage, listening, signal, up, state, token,
                 calendars, pair_slot, pair_status, unsaved>>

\* A row is added, or the last one deleted.
EditCalendars ==
  /\ up /\ calendars' \in BOOLEAN
  /\ UNCHANGED <<workerVars, state, token, slots, unsaved>>

-----------------------------------------------------------------------------
(* The replies. *)

CalendarEvents ==
  /\ \/ /\ Takes("FetchCalendarEvents", "ok")
        /\ re_pair_needed' = FALSE /\ cadence' = "fresh" /\ token' = token
     \/ /\ Takes("FetchCalendarEvents", "unauthorized")
        /\ re_pair_needed' = TRUE /\ cadence' = cadence /\ token' = FALSE
     \/ /\ Takes("FetchCalendarEvents", "err")
        /\ re_pair_needed' = re_pair_needed /\ cadence' = "backoff" /\ token' = token
  /\ fetch_in_flight' = FALSE
  /\ UNCHANGED <<cmds, job, stage, listening, signal, up, pairing_in_flight,
                 calendars, slots, unsaved>>

\* To the web client whose sender is parked, or to the screen.
DeviceCode ==
  /\ Takes("DeviceCode", "ok")
  /\ pair_slot' = FALSE
  /\ UNCHANGED <<cmds, job, stage, listening, signal, up, state, token,
                 calendars, pair_status, disc_slot, unsaved>>

\* The token is saved, and the calendars are asked for.
Paired ==
  /\ Takes("PairDeviceFlow", "ok")
  /\ re_pair_needed' = FALSE
  /\ pairing_in_flight' = FALSE /\ fetch_in_flight' = FALSE
  /\ token' = TRUE /\ pair_status' = "paired"
  /\ Sends(Cmd("ListCalendars", NoArg))
  /\ UNCHANGED <<job, stage, listening, signal, up, cadence, calendars,
                 pair_slot, disc_slot, unsaved>>

\* The token is in memory, but could not be saved; the flag stays set.
PairedUnsaved ==
  /\ Takes("PairDeviceFlow", "ok")
  /\ token' = TRUE /\ pair_status' = "error" /\ unsaved' = TRUE
  /\ UNCHANGED <<cmds, job, stage, listening, signal, up, state, calendars,
                 pair_slot, disc_slot>>

\* Faulty: the web client's sender stays parked.
PairingFailedParked ==
  /\ Takes("PairDeviceFlow", "err")
  /\ pairing_in_flight' = FALSE /\ pair_status' = "error"
  /\ UNCHANGED <<cmds, job, stage, listening, signal, up, fetch_in_flight,
                 re_pair_needed, cadence, token, calendars, pair_slot,
                 disc_slot, unsaved>>

PairingFailed ==
  /\ Takes("PairDeviceFlow", "err")
  /\ pairing_in_flight' = FALSE /\ pair_slot' = FALSE /\ pair_status' = "error"
  /\ UNCHANGED <<cmds, job, stage, listening, signal, up, fetch_in_flight,
                 re_pair_needed, cadence, token, calendars, disc_slot, unsaved>>

TakesList == Takes("ListCalendars", "ok") \/ Takes("ListCalendars", "err")

\* To the web client that waits for a list, whoever asked for this one.
ListDiscovered ==
  /\ TakesList /\ disc_slot
  /\ disc_slot' = FALSE
  /\ UNCHANGED <<cmds, job, stage, listening, signal, up, state, token,
                 calendars, pair_slot, pair_status, unsaved>>

\* Into the table, the defaults if the list failed; the store may refuse.
AutoSeed ==
  /\ TakesList /\ ~disc_slot
  /\ calendars' \in {calendars, TRUE}
  /\ MaybeDispatch(calendars')
  /\ UNCHANGED <<job, stage, listening, signal, up, pairing_in_flight, cadence,
                 token, slots, unsaved>>

-----------------------------------------------------------------------------
Ages ==
  /\ up /\ cadence # "due" /\ cadence' = "due"
  /\ UNCHANGED <<workerVars, fetch_in_flight, pairing_in_flight, re_pair_needed,
                 token, calendars, slots, unsaved>>

Worker == WorkerNext /\ UNCHANGED <<state, token, calendars, slots, unsaved>>

Pairing == DeviceCode \/ Paired \/ PairedUnsaved \/ PairingFailed
Listing == ListDiscovered \/ AutoSeed

Next ==
  \/ Worker \/ RefreshTick
  \/ PairCalendarsTapped \/ PairCalendar \/ DiscoverCalendars \/ EditCalendars
  \/ CalendarEvents \/ Pairing \/ Listing \/ Ages

\* As in WeatherRefresh; a device flow ends by the expiry of its code.
Fairness ==
  /\ WF_vars(Worker /\ (Receive \/ Answer \/ FinishSilently \/ RequestDeviceCode \/ RequestShutdown))
  /\ SF_vars(Worker /\ CatchSignal)
  /\ WF_vars((Worker /\ (MopidyReplied \/ ShutdownRequested))
             \/ CalendarEvents \/ Pairing \/ Listing)
  /\ SF_vars(RefreshTick /\ cmds = <<>>)

Spec == Init /\ [][Next]_vars /\ Fairness

-----------------------------------------------------------------------------
(* Properties. *)

\* Every variable keeps its type, and no channel is overfilled.
TypeOK ==
  /\ WorkerTypeOK
  /\ fetch_in_flight \in BOOLEAN /\ pairing_in_flight \in BOOLEAN
  /\ re_pair_needed \in BOOLEAN /\ cadence \in {"fresh", "due", "backoff"}
  /\ token \in BOOLEAN /\ calendars \in BOOLEAN
  /\ pair_slot \in BOOLEAN /\ disc_slot \in BOOLEAN /\ unsaved \in BOOLEAN
  /\ pair_status \in {"idle", "pending", "paired", "error"}

\* A flag that is set stands for a request whose reply is still to come,
\* unless a token could not be saved, which leaves the pairing flag set.
FlagsHonest ==
  /\ fetch_in_flight => UnderWay({"FetchCalendarEvents"}) # {}
  /\ pairing_in_flight /\ ~unsaved => UnderWay({"PairDeviceFlow"}) # {}

\* Fetch and pairing exclude each other, wherever they were started: no fetch
\* uses a token that a pairing is about to replace, and no result clears the
\* flags of a request it does not belong to.
OneRequest == AtMostOne({"FetchCalendarEvents", "PairDeviceFlow"})

\* A device code is shown where its pairing was asked for, and a web client
\* whose sender is parked has its own pairing under way.
CodeReachesAsker ==
  /\ \A i \in 1 .. Len(replies) :
       replies[i].kind = "DeviceCode" => (pair_slot <=> replies[i].arg = "web")
  /\ pair_slot => Cmd("PairDeviceFlow", "web") \in UnderWay({"PairDeviceFlow"})

\* A web client's poll says "pending" exactly while the pairing that it asked
\* for has not ended, not less and not for an earlier one.
StatusHonest ==
  pair_status = "pending" <=>
    Cmd("PairDeviceFlow", "web") \in UnderWay({"PairDeviceFlow"})

\* A web client that waits for a list has one under way.
DiscoveryUnderWay == disc_slot => UnderWay({"ListCalendars"}) # {}

\* Once the user is asked to pair again, the request stands until there is a
\* token again; a late success of an earlier fetch does not take it away.
PromptStands == [][re_pair_needed /\ ~token' => re_pair_needed']_vars

\* A fetch that is due is made and answered, if there is a token and something
\* to fetch, unless the worker never catches up, a pairing is under way or
\* never got its token saved, or the process ends.
Refreshed ==
  []<>(cmds = <<>>) =>
    (cadence = "due" /\ token /\ calendars ~>
       cadence # "due" \/ ~token \/ ~calendars \/ pairing_in_flight \/ ~up)

\* A web client gets its device code, or its list, or an error, unless a Mopidy
\* call before it hangs or the process ends.
WebAnswered ==
  /\ pair_slot ~> ~pair_slot \/ Hung \/ ~up
  /\ disc_slot ~> ~disc_slot \/ Hung \/ ~up

\* A SIGTERM ends the process, even in the middle of a device flow, unless a
\* Mopidy call hangs.
ShutdownServed == signal ~> Hung \/ ~up
=============================================================================
