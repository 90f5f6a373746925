---------------------------- MODULE ConfigTables ----------------------------
(***************************************************************************)
(* What the web page can ask of the database (web_config.rs) and what a    *)
(* request does to the tables and answers (the stores of alarm_store.rs,   *)
(* media.rs and database.rs, called by dispatch_web_cmd).                  *)
(*                                                                         *)
(* A row is a tuple of the columns the properties tell apart: the rule and *)
(* the holiday policy of an alarm, the type of a favourite, the role of a  *)
(* calendar, the value of a setting.  Left out: the city and the display's *)
(* settings (WeatherRefresh, AlarmClock), the commands that only pair      *)
(* (CalendarRefresh for Google), and a calendar without a name, which its  *)
(* handler refuses by itself.                                              *)
(***************************************************************************)
EXTENDS Naturals, Sequences

CONSTANTS
  Id,     \* of alarms, favourites and calendars
  NoRow

Key == {"theme", "theme_mode", "theme_name"}
KeysOf == [alarms |-> Id, favorites |-> Id, calendars |-> Id, kv_config |-> Key]
Table == DOMAIN KeysOf
Listed == Table \ {"kv_config"}

ThemeName == {"Liquid Glass", "Neuromorphic"}
Value == ThemeName \union {"Dark", "Light", ""}
Mode == {"Follow-Bedtime", "Manual-Light", "Manual-Dark"}
Rule == {"weekly", "once", "none"}
HolidayPolicy == {"Ignore", "Suppress", "ShiftForward"}
SourceType == {"File", "Spotify", "Radio", "PodcastFeed"}

\* "absent": the column does not exist yet (before migration 7).
Rows ==
  [alarms |-> Rule \X (HolidayPolicy \union {"absent"}),
   favorites |-> {<<t>> : t \in SourceType},
   calendars |-> {<<r>> : r \in {"Agenda", "Holiday"}},
   kv_config |-> {<<v>> : v \in Value \union Mode}]

\* What a client may put into a form.
Form ==
  [alarms |-> Rule \X STRING, favorites |-> [1..1 -> STRING],
   calendars |-> [1..1 -> STRING], kv_config |-> {<<v>> : v \in Value}]

Tables == [alarms : [Id -> Rows.alarms \union {NoRow}],
           favorites : [Id -> Rows.favorites \union {NoRow}],
           calendars : [Id -> Rows.calendars \union {NoRow}],
           kv_config : [Key -> Rows.kv_config \union {NoRow}]]

Empty == [t \in Table |-> [i \in KeysOf[t] |-> NoRow]]

-----------------------------------------------------------------------------
(* Conversions: what a form becomes, and what a row is read back as. *)

PolicyFromDb(s) == IF s \in HolidayPolicy THEN s ELSE "Suppress"
RoleFromDb(s) == IF s = "Agenda" THEN "Agenda" ELSE "Holiday"
FromTypeTag(s) == IF s \in SourceType THEN s ELSE "Radio"

\* From<...Dto>.  An alarm's form has no field for once_at: it keeps the rule
\* of a recurring alarm only.
Converted(t, form) ==
  CASE t = "alarms" ->
         <<IF form[1] = "once" THEN "none" ELSE form[1], PolicyFromDb(form[2])>>
    [] t = "favorites" -> <<FromTypeTag(form[1])>>
    [] t = "calendars" -> <<RoleFromDb(form[1])>>
    [] OTHER -> form

\* row_to_alarm and its like: a read never fails on a column it does not know.
Read(t, row) ==
  IF t = "alarms" /\ row # NoRow THEN <<row[1], PolicyFromDb(row[2])>> ELSE row

ListOf(tables, t) == [i \in KeysOf[t] |-> Read(t, tables[t][i])]
View(tables) == [t \in Table |-> ListOf(tables, t)]

-----------------------------------------------------------------------------
(* Requests. *)

List(t) == [op |-> "list", table |-> t, id |-> NoRow, form |-> <<>>]
Upsert(t, i, form) == [op |-> "upsert", table |-> t, id |-> i, form |-> form]
Delete(t, i) == [op |-> "delete", table |-> t, id |-> i, form |-> <<>>]
SetTheme(name) == Upsert("kv_config", "theme_name", <<name>>)

\* A mutation is one transaction: all of it, or an error and none of it.
Applied(tables, r, ok) ==
  IF ~ok \/ r.op = "list" THEN tables
  ELSE [tables EXCEPT ![r.table][r.id] =
          IF r.op = "upsert" THEN Converted(r.table, r.form) ELSE NoRow]

\* A list that cannot be read is answered as an empty one.  To delete what is
\* not there is an error, except for a favourite.
Answered(tables, r, ok) ==
  IF r.op = "list"
  THEN [status |-> "rows",
        rows |-> IF ok THEN ListOf(tables, r.table) ELSE Empty[r.table]]
  ELSE LET found == r.op = "upsert" \/ r.table = "favorites"
                    \/ tables[r.table][r.id] # NoRow
       IN  [status |-> IF ok /\ found THEN "Success" ELSE "Error", rows |-> Empty[r.table]]

Answer ==
  [status : {"rows", "Success", "Error"},
   rows : UNION {[KeysOf[t] -> Rows[t] \union {NoRow}] : t \in Table}]

-----------------------------------------------------------------------------
(* The migrations.  Those that add columns cannot run twice. *)

Latest == 8
AddsColumns == {3, 4, 5, 7}
Exists == [alarms |-> 2, favorites |-> 8, calendars |-> 7, kv_config |-> 1]

\* Migration 7 gives every alarm the policy Suppress.
Migrated(tables, v) ==
  IF v # 7 THEN tables
  ELSE [tables EXCEPT !.alarms = [i \in Id |->
          IF @[i] = NoRow THEN NoRow ELSE <<@[i][1], "Suppress">>]]
=============================================================================
