---------------------------- MODULE ConfigServer ----------------------------
(***************************************************************************)
(* The configuration server: the web handlers on tokio (web_config.rs),    *)
(* the channel to main, dispatch_web_cmd over the database, and main's own *)
(* use of the same tables: the migrations and the seed of a start, the     *)
(* theme controller, and the favourites on the panel.                      *)
(*                                                                         *)
(* A handler waits, without a timeout, for room in the channel and for its *)
(* answer; when its client hangs up it is dropped where it stands.  Main   *)
(* answers between its own timers.  Any write or read of the database may  *)
(* fail, and the process may end at any moment, in a migration too; systemd*)
(* starts it again.                                                        *)
(*                                                                         *)
(* An operator named as faulty is not used: it stands beside the one it    *)
(* would replace.                                                          *)
(***************************************************************************)
EXTENDS ConfigTables, FiniteSets

CONSTANTS
  Client, Request,
  NoRequest, NoAnswer,
  ChannelCap,    \* capacity of the WebCmd channel (32)
  Rank,          \* [Id -> Nat]: the order of ids
  PanelCap,      \* favourites the panel shows (8)
  DefaultFav,    \* id of the favourite a start seeds
  OldVersions,   \* schema versions the first start may find
  MaxFailures,   \* bound: exits and failed migrations
  MaxHangUps,    \* bound: clients that give up
  MaxCycles      \* bound: taps on the theme and mode cards

ASSUME ConstantAssumption ==
  /\ NoRequest \notin Request /\ NoAnswer \notin Answer
  /\ \A t \in Table : NoRow \notin Rows[t]
  /\ \A r \in Request :
       \/ \E u \in Listed : r = List(u)
       \/ \E v \in Value : r = SetTheme(v)
       \/ /\ r.op = "upsert" /\ r.table \in Listed /\ r.id \in Id
          /\ r.form \in Form[r.table] /\ r = Upsert(r.table, r.id, r.form)
       \/ /\ r.op = "delete" /\ r.table \in Listed /\ r.id \in Id
          /\ r = Delete(r.table, r.id)
  /\ DefaultFav \in Id /\ OldVersions \subseteq 0..Latest
  /\ ChannelCap \in Nat \ {0} /\ PanelCap \in Nat /\ Rank \in [Id -> Nat]

VARIABLES
  phase,             \* "off", "migrating", "starting" (web served), "up"
  version, applied,  \* user_version, and the migrations the schema shows
  tables,            \* the database
  asked, answers,    \* per client: its handler's request, and the oneshot
  line,              \* the channel and, behind it, those who wait for room
  theme, mode,       \* of the theme controller
  chosen,            \* history: what the panel showed after its last tap
  unsaved,           \* history: the keys of it that were not written
  shown,             \* the favourites on the panel
  failures, hangups, cycles

disk == <<version, applied, tables>>
web == <<asked, answers, line>>
panel == <<theme, mode, chosen, unsaved, shown>>
bounds == <<failures, hangups, cycles>>
vars == <<phase, disk, web, panel, bounds>>

Entry == [client : Client, req : Request, wanted : BOOLEAN]

\* What an earlier run left behind: nothing, or rows of one table.
Old(t, v) ==
  CASE t = "alarms" -> [i \in Id |-> <<"once", IF v < 7 THEN "absent" ELSE "Ignore">>]
    [] t = "favorites" -> [i \in Id |-> <<"File">>]
    [] t = "calendars" -> [i \in Id |-> <<"Holiday">>]
    [] OTHER -> Empty[t]

Init ==
  /\ phase = "off"
  /\ version \in OldVersions /\ applied = 1..version
  /\ \E old \in {u \in Listed : Exists[u] <= version} \union {"kv_config"} :
       tables = [Empty EXCEPT ![old] = Old(old, version)]
  /\ asked = [c \in Client |-> NoRequest] /\ answers = [c \in Client |-> NoAnswer]
  /\ line = <<>>
  /\ theme = "Liquid Glass" /\ mode = "Follow-Bedtime"
  /\ chosen = [theme |-> theme, mode |-> mode] /\ unsaved = {}
  /\ shown = {} /\ failures = 0 /\ hangups = 0 /\ cycles = 0

-----------------------------------------------------------------------------
(* A request on its way. *)

Ask(c) ==
  /\ phase \in {"starting", "up"} /\ asked[c] = NoRequest
  /\ \E r \in Request :
       /\ asked' = [asked EXCEPT ![c] = r]
       /\ line' = Append(line, [client |-> c, req |-> r, wanted |-> TRUE])
  /\ UNCHANGED <<phase, disk, answers, panel, bounds>>

\* Faulty: a failed write is answered as a success.
DispatchBlindly ==
  /\ phase = "up" /\ line # <<>>
  /\ LET e == Head(line)
     IN  \E ok \in BOOLEAN :
           /\ tables' = Applied(tables, e.req, ok)
           /\ answers' = IF e.wanted
                         THEN [answers EXCEPT ![e.client] = Answered(tables, e.req, TRUE)]
                         ELSE answers
  /\ line' = Tail(line)
  /\ UNCHANGED <<phase, version, applied, asked, panel, bounds>>

\* One command of the drain timer; the answer to a dropped receiver is lost.
Dispatch ==
  /\ phase = "up" /\ line # <<>>
  /\ LET e == Head(line)
     IN  \E ok \in BOOLEAN :
           /\ tables' = Applied(tables, e.req, ok)
           /\ answers' = IF e.wanted
                         THEN [answers EXCEPT ![e.client] = Answered(tables, e.req, ok)]
                         ELSE answers
  /\ line' = Tail(line)
  /\ UNCHANGED <<phase, version, applied, asked, panel, bounds>>

Return(c) ==
  /\ answers[c] # NoAnswer
  /\ asked' = [asked EXCEPT ![c] = NoRequest]
  /\ answers' = [answers EXCEPT ![c] = NoAnswer]
  /\ UNCHANGED <<phase, disk, line, panel, bounds>>

Wanted(c, i) == i \in DOMAIN line /\ line[i].client = c /\ line[i].wanted

Without(s, i) == SubSeq(s, 1, i - 1) \o SubSeq(s, i + 1, Len(s))

\* Faulty: a handler that is dropped leaves its sender in the queue.
LeaveUntold(l, i) == l

\* A handler that is dropped takes back what waits for room; what is in the
\* channel stays there.
LeaveLine(l, i) ==
  IF i > ChannelCap THEN Without(l, i) ELSE [l EXCEPT ![i].wanted = FALSE]

GiveUp(c) ==
  /\ hangups < MaxHangUps /\ asked[c] # NoRequest
  /\ asked' = [asked EXCEPT ![c] = NoRequest]
  /\ answers' = [answers EXCEPT ![c] = NoAnswer]
  /\ line' = IF \E i \in DOMAIN line : Wanted(c, i)
             THEN LeaveLine(line, CHOOSE i \in DOMAIN line : Wanted(c, i)) ELSE line
  /\ hangups' = hangups + 1
  /\ UNCHANGED <<phase, disk, panel, failures, cycles>>

-----------------------------------------------------------------------------
(* The process. *)

Gone ==
  /\ phase' = "off"
  /\ asked' = [c \in Client |-> NoRequest] /\ answers' = [c \in Client |-> NoAnswer]
  /\ line' = <<>>

Exit ==
  /\ phase # "off" /\ failures < MaxFailures
  /\ Gone /\ failures' = failures + 1
  /\ UNCHANGED <<disk, panel, hangups, cycles>>

Open == phase = "off" /\ phase' = "migrating" /\ UNCHANGED <<disk, web, panel, bounds>>

\* Faulty: the version is written in a transaction of its own.
MigrateInTwo ==
  /\ phase = "migrating" /\ version < Latest
  /\ LET v == version + 1
     IN  \/ /\ v \notin applied \intersect AddsColumns
            /\ tables' = Migrated(tables, v) /\ applied' = applied \union {v}
            /\ \/ version' = v /\ UNCHANGED <<phase, web, failures>>
               \/ failures < MaxFailures /\ failures' = failures + 1 /\ Gone /\ UNCHANGED version
         \/ /\ failures < MaxFailures \/ v \in applied \intersect AddsColumns
            /\ Gone /\ failures' = IF failures < MaxFailures THEN failures + 1 ELSE failures
            /\ UNCHANGED disk
  /\ UNCHANGED <<panel, hangups, cycles>>

\* The SQL and the new user_version are one transaction.  It fails when its
\* columns are there already, or for a reason that passes; main then panics.
Migrate ==
  /\ phase = "migrating" /\ version < Latest
  /\ LET v == version + 1
     IN  \/ /\ v \notin applied \intersect AddsColumns
            /\ tables' = Migrated(tables, v) /\ applied' = applied \union {v} /\ version' = v
            /\ UNCHANGED <<phase, web, failures>>
         \/ /\ failures < MaxFailures \/ v \in applied \intersect AddsColumns
            /\ Gone /\ failures' = IF failures < MaxFailures THEN failures + 1 ELSE failures
            /\ UNCHANGED disk
  /\ UNCHANGED <<panel, hangups, cycles>>

ThemeByName(name) == IF name = "Neuromorphic" THEN name ELSE "Liquid Glass"

ThemeKey == {"theme", "theme_mode"}

\* ThemeController::load; a key that is not there, or whose read fails, leaves
\* the default (both, if the lock is poisoned), and nothing tells of it.
Loaded(kv, unread) ==
  [theme |-> IF "theme" \in unread \/ kv["theme"] = NoRow
             THEN "Liquid Glass" ELSE ThemeByName(kv["theme"][1]),
   mode |-> IF \/ "theme_mode" \in unread
               \/ kv["theme_mode"] = NoRow \/ kv["theme_mode"][1] \notin Mode
            THEN "Follow-Bedtime" ELSE kv["theme_mode"][1]]

\* bootstrap: the worker with its web server, then the theme controller, which
\* cannot read some of its keys.
Bootstrap(unread) ==
  /\ phase = "migrating" /\ version >= Latest
  /\ phase' = "starting"
  /\ theme' = Loaded(tables.kv_config, unread).theme
  /\ mode' = Loaded(tables.kv_config, unread).mode
  /\ UNCHANGED <<disk, web, chosen, unsaved, shown, bounds>>

Booting == \E unread \in SUBSET ThemeKey : Bootstrap(unread)

\* seed_default_favorites, before the event loop runs; its failure is logged.
Seed ==
  IF tables.favorites = Empty.favorites
  THEN tables' \in {tables, [tables EXCEPT !.favorites[DefaultFav] = <<"Radio">>]}
  ELSE UNCHANGED tables

Start ==
  /\ phase = "starting"
  /\ phase' = "up" /\ Seed
  /\ UNCHANGED <<version, applied, web, panel, bounds>>

-----------------------------------------------------------------------------
(* Main's own callbacks. *)

\* The first PanelCap of the list, which is ordered by id (every favourite of
\* the page, and the seeded one, has display_order 0).
FirstOf(favorites) ==
  LET there == {i \in Id : favorites[i] # NoRow}
  IN  {i \in there : Cardinality({j \in there : Rank[j] < Rank[i]}) < PanelCap}

\* Faulty: an empty list is taken for a failed read.
PushUnlessEmpty ==
  /\ phase = "up" /\ tables.favorites # Empty.favorites
  /\ shown' \in {FirstOf(tables.favorites)}
  /\ UNCHANGED <<phase, disk, web, theme, mode, chosen, unsaved, bounds>>

\* push_media_to_ui, each second: the favourites are read again; a read that
\* fails shows none.
Push ==
  /\ phase = "up"
  /\ shown' \in {FirstOf(tables.favorites), {}}
  /\ UNCHANGED <<phase, disk, web, theme, mode, chosen, unsaved, bounds>>

\* Faulty: the mode is not written.
PersistTheme(kv, th, md, written) ==
  IF "theme" \in written THEN [kv EXCEPT !["theme"] = <<th>>] ELSE kv

\* persist writes the theme, then the mode; neither write is checked.
Persist(kv, th, md, written) ==
  [k \in Key |-> IF k \notin written THEN kv[k] ELSE IF k = "theme" THEN <<th>> ELSE <<md>>]

NextMode == [m \in Mode |-> CASE m = "Follow-Bedtime" -> "Manual-Light"
                              [] m = "Manual-Light" -> "Manual-Dark"
                              [] OTHER -> "Follow-Bedtime"]

\* A tap on the theme card or on the mode card; either writes both keys, so a
\* default that stands in for a key that was not read is written over it.
Cycle ==
  /\ phase = "up" /\ cycles < MaxCycles
  /\ \/ theme' = (IF theme = "Liquid Glass" THEN "Neuromorphic" ELSE "Liquid Glass") /\ mode' = mode
     \/ mode' = NextMode[mode] /\ theme' = theme
  /\ chosen' = [theme |-> theme', mode |-> mode']
  /\ \E written \in SUBSET ThemeKey :
       /\ tables' = [tables EXCEPT !.kv_config = Persist(@, theme', mode', written)]
       /\ unsaved' = ThemeKey \ written
  /\ cycles' = cycles + 1
  /\ UNCHANGED <<phase, version, applied, web, shown, failures, hangups>>

-----------------------------------------------------------------------------
Next ==
  \/ Dispatch \/ Exit \/ Open \/ Migrate \/ Booting \/ Start \/ Push \/ Cycle
  \/ \E c \in Client : Ask(c) \/ Return(c) \/ GiveUp(c)

\* Main's timers run, tokio polls a handler whose answer is there, and
\* systemd starts the service again.
Fairness ==
  /\ WF_vars(Dispatch) /\ WF_vars(Push) /\ \A c \in Client : WF_vars(Return(c))
  /\ WF_vars(Open) /\ WF_vars(Migrate) /\ WF_vars(Booting) /\ WF_vars(Start)

Spec == Init /\ [][Next]_vars /\ Fairness

-----------------------------------------------------------------------------
(* Properties. *)

\* Types of the variables.
TypeOK ==
  /\ phase \in {"off", "migrating", "starting", "up"}
  /\ version \in 0..Latest /\ applied \subseteq 1..Latest /\ tables \in Tables
  /\ asked \in [Client -> Request \union {NoRequest}]
  /\ answers \in [Client -> Answer \union {NoAnswer}]
  /\ line \in Seq(Entry)
  /\ theme \in ThemeName /\ mode \in Mode
  /\ chosen \in [theme : ThemeName, mode : Mode] /\ unsaved \subseteq ThemeKey /\ shown \subseteq Id
  /\ failures \in Nat /\ hangups \in Nat /\ cycles \in Nat

\* A handler waits exactly while its own request stands in the line, once; so
\* no answer goes to a request other than the one that was asked, whoever
\* hangs up and asks again.
WaitingStandsInLine ==
  \A c \in Client :
    /\ (asked[c] # NoRequest /\ answers[c] = NoAnswer) <=> \E i \in DOMAIN line : Wanted(c, i)
    /\ answers[c] # NoAnswer => asked[c] # NoRequest
    /\ \A i, j \in DOMAIN line : Wanted(c, i) /\ Wanted(c, j) => i = j
    /\ \A i \in DOMAIN line : Wanted(c, i) => line[i].req = asked[c]

\* The schema shows the migrations that user_version counts, no more and no
\* fewer, wherever a start was cut off: else the next start fails for good.
SchemaIsVersion == applied = 1..version

\* Places in increasing order; and what stands in the line of a client that
\* gave up, in the order of the line.
InOrder(places) ==
  CHOOSE f \in [1..Cardinality(places) -> places] : \A i, j \in DOMAIN f : i < j => f[i] < f[j]

Unwanted(l, c) == {i \in DOMAIN l : l[i].client = c /\ ~l[i].wanted}

GivenUp(l, c) ==
  LET at == InOrder(Unwanted(l, c))
  IN  [k \in 1..Cardinality(Unwanted(l, c)) |-> l[at[k]].req]

\* The server, its queue, hang-ups, exits and starts are a store that serves
\* each request at one moment, at most once and in order; a migration changes
\* nothing that a list shows.
Contract == INSTANCE ConfigContract WITH
  tables <- View(tables), loose <- [c \in Client |-> GivenUp(line, c)]
ImplementsContract == Contract!Spec

\* A start that was cut off or failed is followed by one that succeeds.
ComesUp == (phase = "off") ~> (phase = "up")

\* A start brings back the theme and the mode that the panel showed after its
\* last tap, each unless it was not written then or is not read now; that one
\* of the two fails costs the other nothing.
StartRestoresTheme ==
  [][\A unread \in SUBSET ThemeKey : Bootstrap(unread) =>
       /\ theme' = chosen.theme \/ "theme" \in unsaved \union unread
       /\ mode' = chosen.mode \/ "theme_mode" \in unsaved \union unread]_vars

\* A favourite that was deleted leaves the panel.
DeletedLeavesPanel ==
  \A i \in Id : (tables.favorites[i] = NoRow)
    ~> (i \notin shown \/ tables.favorites[i] # NoRow)

\* PRD.md:256 has the active theme be selected on the web page as well: after
\* the next start that can read the choice of the page shows, if the panel made
\* none.
PageThemeShows ==
  [][Bootstrap({}) /\ cycles = 0 /\ tables.kv_config["theme_name"] = <<"Neuromorphic">>
       => theme' = "Neuromorphic"]_vars
=============================================================================
