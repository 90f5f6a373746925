---------------------------- MODULE GoogleCalendar ----------------------------
(***************************************************************************)
(* Google's side of the calendar: the device flow and the calendar client  *)
(* at the dispatcher (calendar.rs and main.rs), the refresh token in       *)
(* secrets.json (secrets.rs), and the holiday and agenda stores.           *)
(*                                                                         *)
(* CalendarRefresh takes the outcome of a command as given and follows the *)
(* flags and the askers; here the outcome is what the servers' answers     *)
(* make of it, a save takes steps, and the power may fail between them.    *)
(* The servers, the disk and the user's consent are external.  Left out:   *)
(* the web's bearer token in the same file, the calendars table (a fixed   *)
(* list) and other commands on the channel.  A faulty operator is not      *)
(* used: it stands beside the one it would replace.                        *)
(***************************************************************************)
EXTENDS Naturals, Sequences, FiniteSets

CONSTANTS
  Calendars,    \* the configured calendars: a sequence of roles
  Offer,        \* lists of events a calendar may answer with
  DayLen,       \* hours of a day
  AllDay,       \* the time of an event that has only a date
  MaxInterval,  \* device flow: the longest interval the server asks for, in 5 s
  Expiry,       \* device flow: how long a code lives, in 5 s
  Now,          \* bound: the hours at which a fetch comes in
  MaxTokens,    \* bound: refresh tokens the server issues
  MaxBoots      \* bound: restarts and power cuts

Time == 0 .. DayLen - 1

ASSUME CalendarsAssumption == Calendars \in Seq({"Holiday", "Agenda"}) /\ Calendars # <<>>
ASSUME OfferAssumption ==
  \A o \in Offer : o \in Seq([date : Nat, time : Time \cup {AllDay}])
ASSUME TimeAssumption == AllDay \notin Time /\ DayLen \in Nat \ {0} /\ MaxInterval \in Nat \ {0} /\ Expiry \in Nat \ {0}
ASSUME BoundAssumption == Now \subseteq Nat /\ MaxTokens \in Nat /\ MaxBoots \in Nat

NoToken == 0
Token == 1 .. MaxTokens
Torn == MaxTokens + 1      \* what is no JSON
NoJob == [kind |-> "none"]
NoSave == [at |-> "none"]

VARIABLES
  token,           \* Secrets.google_refresh_token, in memory
  re_pair_needed, fetch_in_flight, pairing_in_flight,
  holidays, agenda,  \* the two stores
  save,            \* the save main is in
  file,            \* external: secrets.json as a restart finds it
  survives,        \* external: what a power cut may leave of it
  cmds, replies, job,
  issued, revoked, \* external: refresh tokens
  told,            \* history: calendars that answered in this fetch
  listed,          \* history: the starts the agenda was made of, and when
  lapsed,          \* history: a save failed, or a boot could not read
  unsynced,        \* history: an fsync failed
  boots            \* restarts and power cuts so far

secrets == <<token, save, file, survives, lapsed, unsynced>>
state == <<re_pair_needed, fetch_in_flight, pairing_in_flight>>
stores == <<holidays, agenda, listed>>
server == <<issued, revoked>>
vars == <<secrets, state, stores, cmds, replies, job, server, told, boots>>

-----------------------------------------------------------------------------
(* Events and the two stores. *)

\* event_json_to_event: an all-day event starts at midnight UTC.
Start(e) == e.date * DayLen + IF e.time = AllDay THEN 0 ELSE e.time

\* HolidayStore::from_events, the Holiday arm of fetch_calendar_events.
AllDayDates(events) ==
  {events[i].date : i \in {j \in DOMAIN events : events[j].time = AllDay}}

Starts(events) == [i \in DOMAIN events |-> Start(events[i])]

\* Faulty: the oldest of the past fill the list.
FilledFromOldest(past, upcoming, cap) ==
  LET kept == SubSeq(upcoming, 1, IF Len(upcoming) < cap THEN Len(upcoming) ELSE cap)
      room == cap - Len(kept)
  IN SubSeq(past, 1, IF Len(past) < room THEN Len(past) ELSE room) \o kept

\* The first to come, then the latest of the past while there is room.
Filled(past, upcoming, cap) ==
  LET kept == SubSeq(upcoming, 1, IF Len(upcoming) < cap THEN Len(upcoming) ELSE cap)
      room == cap - Len(kept)
      from == IF Len(past) > room THEN Len(past) - room ELSE 0
  IN SubSeq(past, from + 1, Len(past)) \o kept

AgendaCap == 4

\* The order of a stable sort: of simultaneous ones, the first that came.
Precedes(starts, i, j) ==
  starts[i] < starts[j] \/ (starts[i] = starts[j] /\ i < j)

Sorted(starts) ==
  [r \in 1 .. Len(starts) |->
     starts[CHOOSE i \in DOMAIN starts :
              Cardinality({j \in DOMAIN starts : Precedes(starts, j, i)}) = r - 1]]

\* The place of the first that is not past, or one behind the last.
FirstUpcoming(sorted, now) ==
  CHOOSE i \in 1 .. Len(sorted) + 1 :
    /\ \A k \in 1 .. i - 1 : sorted[k] < now
    /\ i <= Len(sorted) => sorted[i] >= now

\* AgendaStore::replace_from_events, of the starts; what is past is past now.
Agenda(starts, now) ==
  LET sorted == Sorted(starts)
      first_upcoming == FirstUpcoming(sorted, now)
      kept == IF Len(sorted) <= AgendaCap THEN sorted
              ELSE Filled(SubSeq(sorted, 1, first_upcoming - 1),
                          SubSeq(sorted, first_upcoming, Len(sorted)), AgendaCap)
  IN [i \in DOMAIN kept |-> [start |-> kept[i], past |-> kept[i] < now]]

-----------------------------------------------------------------------------
(* secrets.json.  Main sets or clears the token in memory, then saves.  *)

SaveFor(t, why) == [at |-> "tmp", token |-> t, why |-> why]

\* Faulty: the file itself is truncated and written.
WriteTmpInPlace ==
  /\ save.at = "tmp"
  /\ \E ok \in BOOLEAN :
       /\ save' = [save EXCEPT !.at = IF ok THEN "synced" ELSE "written"]
       /\ unsynced' = (unsynced \/ ~ok)
  /\ file' = Torn
  /\ UNCHANGED <<token, survives, lapsed, state, stores, cmds, replies, job, server, told, boots>>

\* A sibling is truncated, written and synced; an fsync may fail unnoticed.
WriteTmp ==
  /\ save.at = "tmp"
  /\ \E ok \in BOOLEAN :
       /\ save' = [save EXCEPT !.at = IF ok THEN "synced" ELSE "written"]
       /\ unsynced' = (unsynced \/ ~ok)
  /\ UNCHANGED <<token, file, survives, lapsed, state, stores, cmds, replies, job, server, told, boots>>

CmdCap == 2
Room == Len(cmds) < CmdCap
Cmd(kind, t) == [kind |-> kind, token |-> t]

\* The rest of the DeviceFlowResult arm, or of the unauthorized one.
AfterSave(saved) ==
  \/ /\ save.why = "paired" /\ saved
     /\ re_pair_needed' = FALSE /\ pairing_in_flight' = FALSE /\ fetch_in_flight' = FALSE
     /\ cmds' = IF Room THEN Append(cmds, Cmd("list", save.token)) ELSE cmds
  \/ /\ save.why = "paired" /\ ~saved
     /\ UNCHANGED <<state, cmds>>
  \/ /\ save.why = "revoked"
     /\ re_pair_needed' = TRUE /\ fetch_in_flight' = FALSE
     /\ UNCHANGED <<pairing_in_flight, cmds>>

\* The sibling takes the file's place.  A power cut may bring the old file
\* back until the directory is written, or an empty one that was not synced.
\* The mode set afterwards may fail, and the save with it.
Rename ==
  /\ save.at \in {"synced", "written"}
  /\ file' = save.token
  /\ survives' = survives \cup {save.token}
                          \cup IF save.at = "synced" THEN {} ELSE {Torn}
  /\ \E saved \in BOOLEAN : AfterSave(saved) /\ lapsed' = ~saved
  /\ save' = NoSave
  /\ UNCHANGED <<token, unsynced, stores, replies, job, server, told, boots>>

\* The disk is full, or read-only.
SaveFails ==
  /\ save # NoSave
  /\ AfterSave(FALSE) /\ lapsed' = TRUE /\ save' = NoSave
  /\ UNCHANGED <<token, file, survives, unsynced, stores, replies, job, server, told, boots>>

WrittenBack ==
  /\ survives # {file} /\ survives' = {file}
  /\ UNCHANGED <<token, save, file, lapsed, unsynced, state, stores, cmds, replies, job, server, told, boots>>

\* Faulty: what cannot be read is taken for a token.
LoadTorn(f) ==
  /\ token' = f /\ re_pair_needed' = (f = NoToken) /\ lapsed' = (f = Torn)
  /\ file' = f

\* Secrets::load at boot; what cannot be read counts as no secrets, and then
\* only the first refresh that is due asks for a pairing.
Load(f) ==
  /\ token' = IF f = Torn THEN NoToken ELSE f
  /\ re_pair_needed' = (f = NoToken)
  /\ lapsed' = (f = Torn)
  /\ file' = f

\* A restart finds the file, a power cut leaves one of those that may survive.
Boot ==
  /\ boots < MaxBoots /\ boots' = boots + 1
  /\ \/ Load(file) /\ UNCHANGED survives
     \/ \E f \in survives : Load(f) /\ survives' = {f}
  /\ save' = NoSave
  /\ fetch_in_flight' = FALSE /\ pairing_in_flight' = FALSE
  /\ holidays' = {} /\ agenda' = <<>> /\ listed' = [starts |-> <<>>, now |-> 0]
  /\ cmds' = <<>> /\ replies' = <<>> /\ job' = NoJob /\ told' = {}
  /\ UNCHANGED <<unsynced, server>>

-----------------------------------------------------------------------------
(* The dispatcher: one command at a time.  A call that is not answered, or *)
(* with what cannot be parsed, ends like one that is answered an error.    *)

KeepsMain == UNCHANGED <<secrets, state, stores, issued, boots>>

\* The reply to the command at hand.
Ends(outcome, dates, events) ==
  /\ job' = NoJob
  /\ replies' = Append(replies, [kind |-> job.kind, outcome |-> outcome,
                                 token |-> job.token, dates |-> dates, events |-> events])

Fails(outcome) == Ends(outcome, {}, <<>>)

\* CalendarClient::new: no access token yet.  A list asks one question.
Receive ==
  /\ job = NoJob /\ cmds # <<>>
  /\ LET c == Head(cmds) IN
     job' = IF c.kind = "pair"
            THEN [kind |-> "pair", token |-> NoToken, at |-> "ask", interval |-> 1, left |-> Expiry]
            ELSE [kind |-> c.kind, token |-> c.token, access |-> FALSE,
                  todo |-> IF c.kind = "list" THEN <<"List">> ELSE Calendars,
                  dates |-> {}, events |-> <<>>]
  /\ cmds' = Tail(cmds)
  /\ told' = IF Head(cmds).kind = "fetch" THEN {} ELSE told
  /\ UNCHANGED <<replies, revoked>> /\ KeepsMain

\* request_device_code; an interval of less than five seconds is not believed.
RequestDeviceCode ==
  /\ job.kind = "pair" /\ job.at = "ask"
  /\ \/ \E n \in 0 .. MaxInterval :
          /\ job' = [job EXCEPT !.at = "poll", !.interval = IF n > 1 THEN n ELSE 1]
          /\ UNCHANGED replies
     \/ Fails("err")
  /\ UNCHANGED <<cmds, told, revoked>> /\ KeepsMain

PollAnswer == {"pending", "slow_down", "token", "no refresh_token", "error"}

\* An interval longer than the code lives counts as long as that.
SleepFor(interval) ==
  job' = [job EXCEPT !.at = "sleep",
                     !.interval = IF interval < Expiry THEN interval ELSE Expiry]

\* Faulty: the code's expiry is not looked at.
ExpiredNever == FALSE

Expired == job.left = 0

\* classify_poll and the loop of the PairDeviceFlow arm: a poll, then a sleep.
Poll ==
  /\ job.kind = "pair" /\ job.at = "poll"
  /\ \/ Expired /\ Fails("err") /\ UNCHANGED issued
     \/ /\ ~Expired
        /\ \E a \in PollAnswer :
             \/ /\ a = "pending" /\ SleepFor(job.interval) /\ UNCHANGED <<replies, issued>>
             \/ /\ a = "slow_down" /\ SleepFor(job.interval + 1) /\ UNCHANGED <<replies, issued>>
             \/ /\ a = "token" /\ issued < MaxTokens /\ issued' = issued + 1
                /\ job' = NoJob
                /\ replies' = Append(replies, [kind |-> "pair", outcome |-> "ok", token |-> issued + 1,
                                               dates |-> {}, events |-> <<>>])
             \/ a \in {"no refresh_token", "error"} /\ Fails("err") /\ UNCHANGED issued
  /\ UNCHANGED <<cmds, told, revoked, secrets, state, stores, boots>>

Slept ==
  /\ job.kind = "pair" /\ job.at = "sleep"
  /\ job' = [job EXCEPT !.at = "poll",
                        !.left = IF @ > job.interval THEN @ - job.interval ELSE 0]
  /\ UNCHANGED <<replies, cmds, told, revoked>> /\ KeepsMain

Asking == job.kind \in {"fetch", "list"}

\* refresh_access_token: a 401 says the refresh token is revoked; any other
\* refusal, Google's 400 invalid_grant among them, is an error like others.
RefreshAccessToken ==
  /\ Asking /\ ~job.access
  /\ \/ /\ job.token \notin revoked
        /\ job' = [job EXCEPT !.access = TRUE] /\ UNCHANGED replies
     \/ job.token \in revoked /\ Fails("unauthorized")
     \/ Fails("err")
  /\ UNCHANGED <<cmds, told, revoked>> /\ KeepsMain

MayAsk == Asking /\ job.access

\* A calendar's events go where its role says; the last one ends the fetch.
\* An access token may be out of date by the next calendar.
GetOk ==
  /\ MayAsk
  /\ \E o \in IF job.kind = "list" THEN {<<>>} ELSE Offer :
       LET dates == job.dates \cup IF Head(job.todo) = "Holiday" THEN AllDayDates(o) ELSE {}
           events == job.events \o IF Head(job.todo) = "Agenda" THEN Starts(o) ELSE <<>>
       IN IF Len(job.todo) = 1
          THEN Ends("ok", dates, events)
          ELSE /\ \E valid \in BOOLEAN :
                    job' = [job EXCEPT !.todo = Tail(@), !.access = valid,
                                       !.dates = dates, !.events = events]
               /\ UNCHANGED replies
  /\ told' = IF job.kind = "fetch" THEN told \cup {Len(job.todo)} ELSE told
  /\ UNCHANGED <<cmds, revoked>> /\ KeepsMain

\* Faulty: a calendar that fails is left out.
GetFailsAndSkips ==
  /\ MayAsk
  /\ IF Len(job.todo) = 1
     THEN Ends("ok", job.dates, job.events)
     ELSE job' = [job EXCEPT !.todo = Tail(@)] /\ UNCHANGED replies
  /\ UNCHANGED <<cmds, told, revoked>> /\ KeepsMain

\* One calendar that fails fails the fetch.
GetFails ==
  /\ MayAsk /\ Fails("err")
  /\ UNCHANGED <<cmds, told, revoked>> /\ KeepsMain

\* get_events and get_calendar_list refresh and ask again, as often as it takes.
Get401 ==
  /\ MayAsk /\ job' = [job EXCEPT !.access = FALSE]
  /\ UNCHANGED <<cmds, replies, told, revoked>> /\ KeepsMain

\* External: the user revokes the program's access.
Revoke ==
  /\ \E t \in (1 .. issued) \ revoked : revoked' = revoked \cup {t}
  /\ UNCHANGED <<secrets, state, stores, cmds, replies, job, issued, told, boots>>

-----------------------------------------------------------------------------
(* Main: the timer, the pairing button and the replies. *)

Idle == save = NoSave

\* Faulty: a pairing does not hold back a fetch.
MayFetchWhilePairing == ~fetch_in_flight

MayFetch == ~fetch_in_flight /\ ~pairing_in_flight

\* maybe_dispatch_calendar_fetch, when due.
RefreshTick ==
  /\ Idle /\ MayFetch
  /\ \/ /\ token = NoToken /\ re_pair_needed' = TRUE
        /\ UNCHANGED <<cmds, fetch_in_flight>>
     \/ /\ token # NoToken /\ Room
        /\ cmds' = Append(cmds, Cmd("fetch", token)) /\ fetch_in_flight' = TRUE
        /\ UNCHANGED re_pair_needed
  /\ UNCHANGED <<secrets, stores, pairing_in_flight, replies, job, server, told, boots>>

PairCalendars ==
  /\ Idle /\ ~pairing_in_flight /\ ~fetch_in_flight /\ Room
  /\ cmds' = Append(cmds, Cmd("pair", NoToken)) /\ pairing_in_flight' = TRUE
  /\ UNCHANGED <<secrets, stores, re_pair_needed, fetch_in_flight, replies, job, server, told, boots>>

Takes(kind, outcome) ==
  /\ Idle /\ replies # <<>>
  /\ Head(replies).kind = kind /\ Head(replies).outcome = outcome
  /\ replies' = Tail(replies)

\* Reply::CalendarEvents: both stores are replaced, or both stay.
EventsFetched ==
  /\ Takes("fetch", "ok")
  /\ holidays' = Head(replies).dates
  /\ \E now \in Now : /\ agenda' = Agenda(Head(replies).events, now)
                       /\ listed' = [starts |-> Head(replies).events, now |-> now]
  /\ re_pair_needed' = FALSE /\ fetch_in_flight' = FALSE
  /\ UNCHANGED <<secrets, pairing_in_flight, cmds, job, server, told, boots>>

FetchFailed ==
  /\ Takes("fetch", "err") /\ fetch_in_flight' = FALSE
  /\ UNCHANGED <<secrets, stores, re_pair_needed, pairing_in_flight, cmds, job, server, told, boots>>

\* clear_google_refresh_token, with the save that follows if there was one.
Unauthorized ==
  /\ Takes("fetch", "unauthorized")
  /\ token' = NoToken
  /\ IF token # NoToken
     THEN save' = SaveFor(NoToken, "revoked") /\ UNCHANGED state
     ELSE /\ re_pair_needed' = TRUE /\ fetch_in_flight' = FALSE
          /\ UNCHANGED <<save, pairing_in_flight>>
  /\ UNCHANGED <<file, survives, lapsed, unsynced, stores, cmds, job, server, told, boots>>

\* set_google_refresh_token.
Paired ==
  /\ Takes("pair", "ok")
  /\ token' = Head(replies).token
  /\ save' = SaveFor(Head(replies).token, "paired")
  /\ UNCHANGED <<file, survives, lapsed, unsynced, state, stores, cmds, job, server, told, boots>>

PairingFailed ==
  /\ Takes("pair", "err") /\ pairing_in_flight' = FALSE
  /\ UNCHANGED <<secrets, stores, re_pair_needed, fetch_in_flight, cmds, job, server, told, boots>>

\* The calendars are listed: what follows is CalendarRefresh's.
Listed ==
  /\ \E outcome \in {"ok", "err", "unauthorized"} : Takes("list", outcome)
  /\ UNCHANGED <<secrets, stores, state, cmds, job, server, told, boots>>

-----------------------------------------------------------------------------
\* What the last run left on disk, with a token the server may have revoked.
Init ==
  /\ issued \in 0 .. MaxTokens /\ issued <= 1 /\ revoked = {}
  /\ file = (IF issued = 0 THEN NoToken ELSE 1) /\ survives = {file} /\ token = file
  /\ re_pair_needed = (token = NoToken)
  /\ fetch_in_flight = FALSE /\ pairing_in_flight = FALSE
  /\ holidays = {} /\ agenda = <<>> /\ listed = [starts |-> <<>>, now |-> 0] /\ save = NoSave
  /\ cmds = <<>> /\ replies = <<>> /\ job = NoJob /\ told = {}
  /\ lapsed = FALSE /\ unsynced = FALSE /\ boots = 0

Dispatcher ==
  \/ Receive \/ RequestDeviceCode \/ Poll \/ Slept
  \/ RefreshAccessToken \/ GetOk \/ GetFails \/ Get401
Saving == WriteTmp \/ Rename \/ SaveFails
Replied == EventsFetched \/ FetchFailed \/ Unauthorized \/ Paired \/ PairingFailed \/ Listed

Next ==
  \/ Dispatcher \/ Saving \/ Replied \/ RefreshTick \/ PairCalendars
  \/ WrittenBack \/ Boot \/ Revoke

\* The dispatcher runs on, whatever main does; every request has a timeout.
\* The API does not answer 401 to one fresh access token after the other.
Fairness == WF_vars(Dispatcher) /\ SF_vars(GetOk \/ GetFails)

Spec == Init /\ [][Next]_vars /\ Fairness

-----------------------------------------------------------------------------
(* Properties. *)

Entry == [start : Nat, past : BOOLEAN]

\* Every variable keeps its type; the agenda its cap, the channels their size.
TypeOK ==
  /\ token \in Token \cup {NoToken} /\ file \in Token \cup {NoToken, Torn}
  /\ survives \subseteq Token \cup {NoToken, Torn}
  /\ re_pair_needed \in BOOLEAN /\ fetch_in_flight \in BOOLEAN /\ pairing_in_flight \in BOOLEAN
  /\ holidays \subseteq UNION {AllDayDates(o) : o \in Offer}
  /\ agenda \in Seq(Entry) /\ Len(agenda) <= AgendaCap
  /\ Len(cmds) <= CmdCap /\ Len(replies) <= CmdCap
  /\ lapsed \in BOOLEAN /\ unsynced \in BOOLEAN
  /\ issued \in 0 .. MaxTokens /\ revoked \subseteq 1 .. issued

Times(list, t) == Cardinality({i \in DOMAIN list : list[i] = t})

\* The agenda is the best four of what the calendars hold, sorted, of several
\* simultaneous events none twice: and of the events that are left out none
\* comes sooner than a listed one still to come, or passed later than a listed
\* past one, and nothing past is listed while one to come is left out.
AgendaBest ==
  LET starts == listed.starts
      now == listed.now
      kept == [i \in DOMAIN agenda |-> agenda[i].start]
  IN /\ Len(kept) = IF Len(starts) < AgendaCap THEN Len(starts) ELSE AgendaCap
     /\ \A i \in DOMAIN kept : agenda[i].past <=> kept[i] < now
     /\ \A i \in 2 .. Len(kept) : kept[i-1] <= kept[i]
     /\ \A i \in DOMAIN kept : Times(kept, kept[i]) <= Times(starts, kept[i])
     /\ \A i \in DOMAIN kept, d \in DOMAIN starts :
          Times(kept, starts[d]) < Times(starts, starts[d]) =>
            IF starts[d] < now THEN kept[i] >= starts[d]
            ELSE kept[i] >= now /\ kept[i] <= starts[d]

\* Whenever the process or the power is cut, also in the middle of a save, the
\* next boot can read the file, unless an fsync failed; and between two saves
\* it finds the very token the program works with, unless a save failed.
BootFindsToken ==
  /\ ~unsynced => Torn \notin survives \cup {file}
  /\ save = NoSave /\ ~lapsed => file = token

\* A running program lets go of a refresh token only after the server revoked
\* it, or for the token of a new pairing: not on an error of the network, not
\* on a 401 of the API, and not on a late answer to an earlier token.
ValidTokenKept ==
  [][token # NoToken /\ token' # token /\ boots' = boots
       => token \in revoked \/ token' > token]_vars

\* While the program runs, holidays and agenda change only to what one fetch
\* brought in which every calendar answered: one that failed in between takes
\* none of the days off that alarms must skip.
StoresFromWholeFetch ==
  [][<<holidays, agenda>>' # <<holidays, agenda>> /\ boots' = boots => told = 1 .. Len(Calendars)]_vars

\* A pairing ends by the expiry of its code, and a fetch when its calendars
\* have answered or one has failed: no command holds the dispatcher for ever.
JobEnds == job # NoJob ~> job = NoJob
=============================================================================
