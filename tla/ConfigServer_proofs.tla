------------------------- MODULE ConfigServer_proofs -------------------------
(***************************************************************************)
(* Proofs about ConfigServer, for any ids, clients, requests, capacity of  *)
(* the channel, size of the panel and number of failures and hang-ups.     *)
(***************************************************************************)
EXTENDS ConfigServer, FiniteSetTheorems, WellFoundedInduction, TLAPS

-----------------------------------------------------------------------------
(* The tables and the requests. *)

LEMMA TableFacts ==
  /\ Table = {"alarms", "favorites", "calendars", "kv_config"}
  /\ Listed = {"alarms", "favorites", "calendars"}
  /\ KeysOf["alarms"] = Id /\ KeysOf["favorites"] = Id /\ KeysOf["calendars"] = Id
  /\ KeysOf["kv_config"] = Key
BY DEF Table, Listed, KeysOf

LEMMA TablesFacts ==
  ASSUME NEW ts \in Tables, NEW t \in Table
  PROVE  ts[t] \in [KeysOf[t] -> Rows[t] \union {NoRow}]
BY DEF Tables, Table, KeysOf, Rows

LEMMA TablesUpdate ==
  ASSUME NEW ts \in Tables, NEW t \in Table, NEW i \in KeysOf[t], NEW row \in Rows[t] \union {NoRow}
  PROVE  [ts EXCEPT ![t][i] = row] \in Tables
<1>1. CASE t = "alarms"
  BY <1>1 DEF Tables, Table, KeysOf, Rows
<1>2. CASE t = "favorites"
  BY <1>2 DEF Tables, Table, KeysOf, Rows
<1>3. CASE t = "calendars"
  BY <1>3 DEF Tables, Table, KeysOf, Rows
<1>4. CASE t = "kv_config"
  BY <1>4 DEF Tables, Table, KeysOf, Rows
<1>5. QED
  BY <1>1, <1>2, <1>3, <1>4, TableFacts

LEMMA ConvertedType ==
  ASSUME NEW t \in Table, NEW form \in Form[t]
  PROVE  Converted(t, form) \in Rows[t]
<1>1. CASE t = "alarms"
  <2>1. form[1] \in Rule /\ form[2] \in STRING
    BY <1>1 DEF Form
  <2>2. QED
    BY <1>1, <2>1 DEF Converted, Rows, Rule, PolicyFromDb, HolidayPolicy
<1>2. CASE t = "favorites"
  BY <1>2 DEF Converted, Rows, FromTypeTag, SourceType
<1>3. CASE t = "calendars"
  BY <1>3 DEF Converted, Rows, RoleFromDb
<1>4. CASE t = "kv_config"
  BY <1>4 DEF Converted, Rows, Form
<1>5. QED
  BY <1>1, <1>2, <1>3, <1>4, TableFacts

LEMMA ListOfType ==
  ASSUME NEW ts \in Tables, NEW t \in Table
  PROVE  ListOf(ts, t) \in [KeysOf[t] -> Rows[t] \union {NoRow}]
<1>1. ASSUME NEW row \in Rows[t] \union {NoRow}
      PROVE  Read(t, row) \in Rows[t] \union {NoRow}
  <2>1. CASE t = "alarms" /\ row # NoRow
    <3>1. row[1] \in Rule
      BY <2>1 DEF Rows
    <3>2. QED
      BY <2>1, <3>1 DEF Read, Rows, PolicyFromDb, HolidayPolicy
  <2>2. QED
    BY <2>1 DEF Read
<1>2. QED
  BY <1>1, TablesFacts DEF ListOf

LEMMA ConstantFacts ==
  /\ NoRequest \notin Request /\ NoAnswer \notin Answer
  /\ \A t \in Table : NoRow \notin Rows[t]
  /\ DefaultFav \in Id /\ OldVersions \subseteq 0..Latest
  /\ ChannelCap \in Nat \ {0}
BY ConstantAssumption

\* A request of the page: of the settings it can change only theme_name.
LEMMA RequestFacts ==
  ASSUME NEW r \in Request
  PROVE  /\ r.table \in Table
         /\ \/ r.op = "list" /\ r.table \in Listed
            \/ /\ r.op = "upsert" /\ r.id \in KeysOf[r.table]
               /\ Converted(r.table, r.form) \in Rows[r.table]
            \/ r.op = "delete" /\ r.id \in KeysOf[r.table]
         /\ r.table = "kv_config" => r.op = "upsert" /\ r.id = "theme_name"
<1>1. CASE \E u \in Listed : r = List(u)
  BY <1>1, TableFacts DEF List
<1>2. CASE \E v \in Value : r = SetTheme(v)
  <2>1. PICK v \in Value : r = SetTheme(v)
    BY <1>2
  <2>2. /\ r.op = "upsert" /\ r.table = "kv_config" /\ r.id = "theme_name"
        /\ r.form = <<v>>
    BY <2>1 DEF SetTheme, Upsert
  <2>3. r.form \in Form["kv_config"]
    BY <2>2 DEF Form
  <2>4. QED
    BY <2>2, <2>3, ConvertedType, TableFacts DEF Key
<1>3. CASE r.op = "upsert" /\ r.table \in Listed /\ r.id \in Id /\ r.form \in Form[r.table]
  BY <1>3, ConvertedType, TableFacts
<1>4. CASE r.op = "delete" /\ r.table \in Listed /\ r.id \in Id
  BY <1>4, TableFacts
<1>5. QED
  BY <1>1, <1>2, <1>3, <1>4, ConstantAssumption

LEMMA AppliedType ==
  ASSUME NEW ts \in Tables, NEW r \in Request, NEW ok \in BOOLEAN
  PROVE  Applied(ts, r, ok) \in Tables
BY RequestFacts, TablesUpdate DEF Applied

\* Of the panel's keys no request of the page changes anything.
LEMMA AppliedSpares ==
  ASSUME NEW ts \in Tables, NEW r \in Request, NEW ok \in BOOLEAN,
         NEW k \in {"theme", "theme_mode"}
  PROVE  Applied(ts, r, ok)["kv_config"][k] = ts["kv_config"][k]
<1> DEFINE row == IF r.op = "upsert" THEN Converted(r.table, r.form) ELSE NoRow
<1>1. CASE ~ok \/ r.op = "list"
  BY <1>1 DEF Applied
<1>2. CASE ~(~ok \/ r.op = "list")
  <2>1. Applied(ts, r, ok) = [ts EXCEPT ![r.table][r.id] = row]
    BY <1>2 DEF Applied
  <2> HIDE DEF row
  <2>2. CASE r.table = "kv_config"
    <3>1. r.id = "theme_name"
      BY <2>2, RequestFacts
    <3>2. Applied(ts, r, ok) = [ts EXCEPT !["kv_config"]["theme_name"] = row]
      BY <2>1, <2>2, <3>1
    <3>3. QED
      BY <3>2, TableFacts, TablesFacts DEF Tables, Key
  <2>3. CASE r.table # "kv_config"
    BY <2>1, <2>3, TableFacts DEF Tables
  <2>4. QED
    BY <2>2, <2>3
<1>3. QED
  BY <1>1, <1>2

LEMMA EmptyType ==
  /\ Empty \in Tables
  /\ \A t \in Table : Empty[t] \in [KeysOf[t] -> Rows[t] \union {NoRow}]
BY TableFacts DEF Empty, Tables, Table, KeysOf

LEMMA AnsweredType ==
  ASSUME NEW ts \in Tables, NEW r \in Request, NEW ok \in BOOLEAN
  PROVE  Answered(ts, r, ok) \in Answer
<1>1. r.table \in Table
  BY RequestFacts
<1> DEFINE Shown == [KeysOf[r.table] -> Rows[r.table] \union {NoRow}]
<1>2. Empty[r.table] \in Shown /\ ListOf(ts, r.table) \in Shown
  BY <1>1, EmptyType, ListOfType
<1>3. \A status \in {"rows", "Success", "Error"}, rows \in Shown :
        [status |-> status, rows |-> rows] \in Answer
  BY <1>1 DEF Answer
<1> HIDE DEF Shown
<1>4. QED
  BY <1>2, <1>3 DEF Answered

-----------------------------------------------------------------------------
(* The line of waiting handlers. *)

Stands(l, c, i) == i \in 1..Len(l) /\ l[i].client = c /\ l[i].wanted

\* No handler of c waits in l; and: one waits in l, once, for r.
Nobody(l, c) == \A i \in 1..Len(l) : ~Stands(l, c, i)
WaitsFor(l, c, r) ==
  \E i \in 1..Len(l) :
    Stands(l, c, i) /\ l[i].req = r /\ \A j \in 1..Len(l) : Stands(l, c, j) => j = i

LEMMA JoinOwn ==
  ASSUME NEW l \in Seq(Entry), NEW c \in Client, NEW r \in Request, Nobody(l, c)
  PROVE  LET m == Append(l, [client |-> c, req |-> r, wanted |-> TRUE])
         IN  m \in Seq(Entry) /\ WaitsFor(m, c, r)
<1> DEFINE e == [client |-> c, req |-> r, wanted |-> TRUE]
           m == Append(l, e)
<1>1. e \in Entry /\ e.client = c /\ e.req = r /\ e.wanted
  BY DEF Entry
<1> HIDE DEF e
<1>2. /\ m \in Seq(Entry) /\ Len(m) = Len(l) + 1 /\ m[Len(m)] = e
      /\ \A i \in 1..Len(l) : m[i] = l[i]
  BY <1>1
<1> HIDE DEF m
<1>3. \A j \in 1..Len(m) : Stands(m, c, j) => j = Len(m)
  BY <1>2 DEF Nobody, Stands
<1>4. WaitsFor(m, c, r)
  BY <1>1, <1>2, <1>3 DEF WaitsFor, Stands
<1>5. QED
  BY <1>2, <1>4 DEF m, e

LEMMA JoinOther ==
  ASSUME NEW l \in Seq(Entry), NEW e \in Entry, NEW c, e.client # c, NEW r
  PROVE  /\ Nobody(l, c) => Nobody(Append(l, e), c)
         /\ WaitsFor(l, c, r) => WaitsFor(Append(l, e), c, r)
<1> DEFINE m == Append(l, e)
<1>1. /\ Len(m) = Len(l) + 1 /\ m[Len(m)] = e /\ Len(l) \in Nat
      /\ \A i \in 1..Len(l) : m[i] = l[i]
  OBVIOUS
<1> HIDE DEF m
<1>2. \A i \in 1..Len(m) : Stands(m, c, i) <=> i \in 1..Len(l) /\ Stands(l, c, i)
  BY <1>1 DEF Stands
<1>3. QED
  BY <1>1, <1>2 DEF Nobody, WaitsFor, m

LEMMA TailFacts ==
  ASSUME NEW l \in Seq(Entry), l # <<>>
  PROVE  /\ Head(l) \in Entry /\ Head(l) = l[1] /\ Tail(l) \in Seq(Entry)
         /\ Len(Tail(l)) = Len(l) - 1 /\ Len(l) \in Nat
         /\ \A i \in 1..Len(Tail(l)) : Tail(l)[i] = l[i + 1]
OBVIOUS

LEMMA ServedOwn ==
  ASSUME NEW l \in Seq(Entry), l # <<>>, NEW c, NEW r,
         Head(l).client = c, Head(l).wanted, WaitsFor(l, c, r)
  PROVE  Head(l).req = r /\ Nobody(Tail(l), c)
<1>1. Stands(l, c, 1)
  BY TailFacts DEF Stands
<1>2. 1 \in 1..Len(l)
  BY TailFacts
<1>3. PICK i \in 1..Len(l) :
        l[i].req = r /\ \A j \in 1..Len(l) : Stands(l, c, j) => j = i
  BY DEF WaitsFor
<1>4. i = 1
  BY <1>1, <1>2, <1>3
<1>5. ASSUME NEW j \in 1..Len(Tail(l)), Stands(Tail(l), c, j) PROVE FALSE
  <2>1. Stands(l, c, j + 1) /\ j + 1 \in 1..Len(l)
    BY <1>5, TailFacts DEF Stands
  <2>2. QED
    BY <1>3, <1>4, <2>1
<1>6. QED
  BY <1>3, <1>4, <1>5, TailFacts DEF Nobody

LEMMA ServedOther ==
  ASSUME NEW l \in Seq(Entry), l # <<>>, NEW c, NEW r,
         ~(Head(l).client = c /\ Head(l).wanted)
  PROVE  /\ Nobody(l, c) => Nobody(Tail(l), c)
         /\ WaitsFor(l, c, r) => WaitsFor(Tail(l), c, r)
<1> DEFINE m == Tail(l)
<1>1. /\ Len(m) = Len(l) - 1 /\ Len(l) \in Nat /\ Head(l) = l[1]
      /\ \A i \in 1..Len(m) : m[i] = l[i + 1]
  BY TailFacts
<1> HIDE DEF m
<1>2. ~Stands(l, c, 1)
  BY <1>1 DEF Stands
<1>3. \A i \in 1..Len(m) : Stands(m, c, i) <=> Stands(l, c, i + 1)
  BY <1>1 DEF Stands
<1>4. Nobody(l, c) => Nobody(m, c)
  BY <1>1, <1>3 DEF Nobody
<1>5. ASSUME WaitsFor(l, c, r) PROVE WaitsFor(m, c, r)
  <2>1. PICK i \in 1..Len(l) :
          /\ Stands(l, c, i) /\ l[i].req = r
          /\ \A j \in 1..Len(l) : Stands(l, c, j) => j = i
    BY <1>5 DEF WaitsFor
  <2>2. i # 1 /\ i - 1 \in 1..Len(m) /\ m[i - 1] = l[i]
    BY <1>1, <1>2, <2>1
  <2>3. Stands(m, c, i - 1) /\ m[i - 1].req = r
    BY <1>1, <2>1, <2>2 DEF Stands
  <2>4. \A j \in 1..Len(m) : Stands(m, c, j) => j = i - 1
    BY <1>1, <1>3, <2>1
  <2>5. QED
    BY <2>2, <2>3, <2>4 DEF WaitsFor
<1>6. QED
  BY <1>4, <1>5 DEF m

LEMMA Joined ==
  ASSUME NEW a \in Seq(Entry), NEW b \in Seq(Entry)
  PROVE  a \o b \in Seq(Entry) /\ Len(a \o b) = Len(a) + Len(b)
OBVIOUS

LEMMA WithoutFacts ==
  ASSUME NEW l \in Seq(Entry), NEW i \in 1..Len(l)
  PROVE  LET m == Without(l, i)
         IN  /\ m \in Seq(Entry) /\ Len(m) = Len(l) - 1
             /\ \A j \in 1..Len(m) : m[j] = IF j < i THEN l[j] ELSE l[j + 1]
<1> DEFINE a == SubSeq(l, 1, i - 1)
           b == SubSeq(l, i + 1, Len(l))
<1>1. /\ a \in Seq(Entry) /\ Len(a) = i - 1 /\ \A j \in 1..Len(a) : a[j] = l[j]
  OBVIOUS
<1>2. /\ b \in Seq(Entry) /\ Len(b) = Len(l) - i
      /\ \A j \in 1..Len(b) : b[j] = l[i + j]
  OBVIOUS
<1> HIDE DEF a, b
<1>3. Len(l) \in Nat /\ i \in Nat /\ i >= 1 /\ i <= Len(l)
  OBVIOUS
<1>4. /\ a \o b \in Seq(Entry) /\ Len(a \o b) = Len(l) - 1
      /\ \A j \in 1..Len(a \o b) : (a \o b)[j] = IF j < i THEN l[j] ELSE l[j + 1]
  <2>1. a \o b \in Seq(Entry) /\ Len(a \o b) = Len(a) + Len(b)
    BY <1>1, <1>2, Joined
  <2>2. Len(a \o b) = Len(l) - 1
    BY <1>1, <1>2, <1>3, <2>1
  <2>3. ASSUME NEW j \in 1..Len(a \o b)
        PROVE  (a \o b)[j] = IF j < i THEN l[j] ELSE l[j + 1]
    <3>1. CASE j < i
      <4>1. j \in 1..Len(a)
        BY <1>1, <1>3, <3>1
      <4>2. (a \o b)[j] = a[j]
        BY <1>1, <1>2, <4>1
      <4>3. QED
        BY <1>1, <3>1, <4>1, <4>2
    <3>2. CASE ~(j < i)
      <4>1. j - (i - 1) \in 1..Len(b) /\ i + (j - (i - 1)) = j + 1
        BY <1>2, <1>3, <2>2, <3>2
      <4>2. (a \o b)[j] = b[j - (i - 1)]
        BY <1>1, <1>2, <1>3, <2>1, <3>2
      <4>3. QED
        BY <1>2, <3>2, <4>1, <4>2
    <3>3. QED
      BY <3>1, <3>2
  <2>4. QED
    BY <2>1, <2>2, <2>3
<1>5. QED
  BY <1>4 DEF Without, a, b

LEMMA LeaveType ==
  ASSUME NEW l \in Seq(Entry), NEW i \in 1..Len(l)
  PROVE  LeaveLine(l, i) \in Seq(Entry)
<1>1. [l EXCEPT ![i].wanted = FALSE] \in Seq(Entry)
  <2> DEFINE f == [l[i] EXCEPT !.wanted = FALSE]
             m == [l EXCEPT ![i].wanted = FALSE]
  <2>1. l[i] \in Entry
    OBVIOUS
  <2>2. \A e \in Entry : [e EXCEPT !.wanted = FALSE] \in Entry
    BY DEF Entry
  <2>3. f \in Entry
    BY <2>1, <2>2
  <2>4. m = [l EXCEPT ![i] = f]
    OBVIOUS
  <2> HIDE DEF f, m
  <2>5. m \in Seq(Entry)
    BY <2>3, <2>4
  <2>6. QED
    BY <2>5 DEF m
<1>2. QED
  BY <1>1, WithoutFacts DEF LeaveLine

\* Whether its place is given back or left behind, the one who leaves no
\* longer stands there, and the others stay in line.
LEMMA LeaveFacts ==
  ASSUME NEW l \in Seq(Entry), NEW c, NEW r,
         NEW i \in 1..Len(l), Stands(l, c, i),
         \A j \in 1..Len(l) : Stands(l, c, j) => j = i
  PROVE  /\ LeaveLine(l, i) \in Seq(Entry)
         /\ Nobody(LeaveLine(l, i), c)
         /\ \A d : d # c => /\ Nobody(l, d) => Nobody(LeaveLine(l, i), d)
                            /\ WaitsFor(l, d, r) => WaitsFor(LeaveLine(l, i), d, r)
<1> DEFINE m == LeaveLine(l, i)
<1>1. CASE i > ChannelCap
  <2>1. m = Without(l, i)
    BY <1>1 DEF LeaveLine
  <2>2. /\ m \in Seq(Entry) /\ Len(m) = Len(l) - 1
        /\ \A j \in 1..Len(m) : m[j] = IF j < i THEN l[j] ELSE l[j + 1]
    BY <2>1, WithoutFacts
  <2> HIDE DEF m
  <2>3. Nobody(m, c)
    BY <2>2 DEF Nobody, Stands
  <2>4. ASSUME NEW d, d # c, Nobody(l, d) PROVE Nobody(m, d)
    BY <2>2, <2>4 DEF Nobody, Stands
  <2>5. ASSUME NEW d, d # c, WaitsFor(l, d, r) PROVE WaitsFor(m, d, r)
    <3>1. PICK k \in 1..Len(l) :
            /\ Stands(l, d, k) /\ l[k].req = r
            /\ \A j \in 1..Len(l) : Stands(l, d, j) => j = k
      BY <2>5 DEF WaitsFor
    <3>2. k # i
      BY <2>5, <3>1 DEF Stands
    <3> DEFINE n == IF k < i THEN k ELSE k - 1
    <3>3. n \in 1..Len(m) /\ m[n] = l[k]
      BY <2>2, <3>2
    <3>4. ASSUME NEW j \in 1..Len(m), Stands(m, d, j) PROVE j = n
      <4>1. CASE j < i
        <5>1. j \in 1..Len(l) /\ m[j] = l[j]
          BY <2>2, <4>1
        <5>2. j = k
          BY <3>1, <3>4, <5>1 DEF Stands
        <5>3. QED
          BY <4>1, <5>2
      <4>2. CASE ~(j < i)
        <5>1. j + 1 \in 1..Len(l) /\ m[j] = l[j + 1]
          BY <2>2, <4>2
        <5>2. j + 1 = k
          BY <3>1, <3>4, <5>1 DEF Stands
        <5>3. QED
          BY <4>2, <5>2
      <4>3. QED
        BY <4>1, <4>2
    <3> HIDE DEF n
    <3>5. QED
      BY <3>1, <3>3, <3>4 DEF WaitsFor, Stands
  <2>6. QED
    BY <2>2, <2>3, <2>4, <2>5 DEF m
<1>2. CASE ~(i > ChannelCap)
  <2>1. m = [l EXCEPT ![i].wanted = FALSE]
    BY <1>2 DEF LeaveLine
  <2>2. /\ m \in Seq(Entry) /\ Len(m) = Len(l)
        /\ \A j \in 1..Len(m) : j # i => m[j] = l[j]
        /\ ~m[i].wanted
    <3>1. l[i] \in Entry
      OBVIOUS
    <3>2. \A e \in Entry : LET f == [e EXCEPT !.wanted = FALSE] IN f \in Entry /\ ~f.wanted
      BY DEF Entry
    <3>3. m = [l EXCEPT ![i] = [l[i] EXCEPT !.wanted = FALSE]]
      BY <2>1
    <3> DEFINE f == [l[i] EXCEPT !.wanted = FALSE]
    <3>4. f \in Entry /\ ~f.wanted
      BY <3>1, <3>2
    <3> HIDE DEF f, m
    <3>5. m = [l EXCEPT ![i] = f]
      BY <3>3 DEF f
    <3>6. QED
      BY <3>4, <3>5
  <2> HIDE DEF m
  <2>3. Nobody(m, c)
    BY <2>2 DEF Nobody, Stands
  <2>4. ASSUME NEW d, d # c PROVE \A j \in 1..Len(l) : Stands(m, d, j) <=> Stands(l, d, j)
    BY <2>2, <2>4 DEF Stands
  <2>5. ASSUME NEW d, d # c, NEW j \in 1..Len(l), Stands(l, d, j) PROVE m[j].req = l[j].req
    BY <2>2, <2>5 DEF Stands
  <2>6. QED
    BY <2>2, <2>3, <2>4, <2>5 DEF Nobody, WaitsFor, m
<1>3. QED
  BY <1>1, <1>2, ConstantFacts

-----------------------------------------------------------------------------
(* What a start and the panel do to the tables. *)

LEMMA OldType ==
  ASSUME NEW t \in Table, NEW v \in 0..Latest
  PROVE  [Empty EXCEPT ![t] = Old(t, v)] \in Tables
<1>1. Old(t, v) \in [KeysOf[t] -> Rows[t] \union {NoRow}]
  <2>1. CASE t = "alarms"
    BY <2>1, TableFacts DEF Old, Rows, Rule, HolidayPolicy
  <2>2. CASE t = "favorites"
    BY <2>2, TableFacts DEF Old, Rows, SourceType
  <2>3. CASE t = "calendars"
    BY <2>3, TableFacts DEF Old, Rows
  <2>4. CASE t = "kv_config"
    BY <2>4, TableFacts DEF Old, Empty, Table, KeysOf
  <2>5. QED
    BY <2>1, <2>2, <2>3, <2>4, TableFacts
<1>2. QED
  BY <1>1, EmptyType, TableFacts DEF Tables

LEMMA MigratedType ==
  ASSUME NEW ts \in Tables, NEW v
  PROVE  /\ Migrated(ts, v) \in Tables
         /\ Migrated(ts, v).kv_config = ts.kv_config
<1> DEFINE col == [i \in Id |-> IF ts.alarms[i] = NoRow THEN NoRow
                                ELSE <<ts.alarms[i][1], "Suppress">>]
<1>1. col \in [Id -> Rows.alarms \union {NoRow}]
  <2>1. ASSUME NEW i \in Id, ts.alarms[i] # NoRow
        PROVE  <<ts.alarms[i][1], "Suppress">> \in Rows.alarms
    <3>1. ts.alarms[i] \in Rows.alarms
      BY <2>1 DEF Tables
    <3>2. QED
      BY <3>1 DEF Rows, HolidayPolicy
  <2>2. QED
    BY <2>1
<1>2. Migrated(ts, v) = IF v # 7 THEN ts ELSE [ts EXCEPT !.alarms = col]
  BY DEF Migrated
<1> HIDE DEF col
<1>3. QED
  BY <1>1, <1>2 DEF Tables

LEMMA SeededType ==
  ASSUME NEW ts \in Tables
  PROVE  LET us == [ts EXCEPT !.favorites[DefaultFav] = <<"Radio">>]
         IN  us \in Tables /\ us.kv_config = ts.kv_config
<1>1. <<"Radio">> \in Rows.favorites
  BY DEF Rows, SourceType
<1>2. QED
  BY <1>1, ConstantFacts DEF Tables

LEMMA PersistType ==
  ASSUME NEW ts \in Tables, NEW th \in ThemeName, NEW md \in Mode,
         NEW written \in SUBSET ThemeKey
  PROVE  [ts EXCEPT !.kv_config = Persist(ts.kv_config, th, md, written)] \in Tables
<1> DEFINE kv == Persist(ts.kv_config, th, md, written)
<1>1. <<th>> \in Rows.kv_config /\ <<md>> \in Rows.kv_config
  BY DEF Rows, Value
<1>2. kv = [k \in Key |-> IF k \notin written THEN ts.kv_config[k]
                          ELSE IF k = "theme" THEN <<th>> ELSE <<md>>]
  BY DEF Persist
<1>3. ts.kv_config \in [Key -> Rows.kv_config \union {NoRow}]
  BY DEF Tables
<1> HIDE DEF kv
<1>4. kv \in [Key -> Rows.kv_config \union {NoRow}]
  BY <1>1, <1>2, <1>3
<1>5. [ts EXCEPT !.kv_config = kv] \in Tables
  BY <1>4 DEF Tables
<1>6. QED
  BY <1>5 DEF kv

\* What is written is what is kept of a key.
LEMMA PersistKeys ==
  ASSUME NEW old, NEW th, NEW md, NEW written
  PROVE  LET kv == Persist(old, th, md, written)
         IN  /\ "theme" \in written => kv["theme"] = <<th>>
             /\ "theme_mode" \in written => kv["theme_mode"] = <<md>>
BY DEF Persist, Key

LEMMA LoadedType ==
  ASSUME NEW kv, NEW unread
  PROVE  Loaded(kv, unread).theme \in ThemeName /\ Loaded(kv, unread).mode \in Mode
BY DEF Loaded, ThemeByName, ThemeName, Mode

LEMMA RowsApart ==
  \A v \in Value \union Mode : <<v>> # NoRow
BY ConstantFacts, TableFacts DEF Rows

-----------------------------------------------------------------------------
(* Types. *)

LEMMA TypeInit == Init => TypeOK
<1> SUFFICES ASSUME Init PROVE TypeOK
  OBVIOUS
<1>1. version \in 0..Latest /\ applied \subseteq 1..Latest
  <2>1. version \in OldVersions /\ applied = 1..version
    BY DEF Init
  <2>2. version \in 0..Latest
    BY <2>1, ConstantFacts
  <2>3. QED
    BY <2>1, <2>2 DEF Latest
<1>2. tables \in Tables
  <2>1. PICK old \in {u \in Listed : Exists[u] <= version} \union {"kv_config"} :
          tables = [Empty EXCEPT ![old] = Old(old, version)]
    BY DEF Init
  <2>2. old \in Table
    BY TableFacts
  <2>3. QED
    BY <1>1, <2>1, <2>2, OldType
<1>3. line = <<>>
  BY DEF Init
<1>4. line \in Seq(Entry)
  BY <1>3
<1>5. QED
  BY <1>1, <1>2, <1>4 DEF Init, TypeOK, ThemeName, Mode

LEMMA TypeStep ==
  ASSUME TypeOK, [Next]_vars
  PROVE  TypeOK'
<1> USE DEF TypeOK
<1>1. ASSUME NEW c \in Client, Ask(c) PROVE TypeOK'
  <2>1. PICK r \in Request :
          /\ asked' = [asked EXCEPT ![c] = r]
          /\ line' = Append(line, [client |-> c, req |-> r, wanted |-> TRUE])
    BY <1>1 DEF Ask
  <2>2. [client |-> c, req |-> r, wanted |-> TRUE] \in Entry
    BY DEF Entry
  <2>3. line' \in Seq(Entry) /\ asked' \in [Client -> Request \union {NoRequest}]
    BY <2>1, <2>2
  <2>4. QED
    BY <1>1, <2>3 DEF Ask, disk, panel, bounds
<1>2. ASSUME Dispatch PROVE TypeOK'
  <2>1. PICK ok \in BOOLEAN :
          /\ tables' = Applied(tables, Head(line).req, ok)
          /\ answers' = IF Head(line).wanted
                        THEN [answers EXCEPT ![Head(line).client] =
                                Answered(tables, Head(line).req, ok)]
                        ELSE answers
    BY <1>2 DEF Dispatch
  <2>2. line # <<>> /\ line' = Tail(line)
    BY <1>2 DEF Dispatch
  <2>3. Head(line) \in Entry /\ line' \in Seq(Entry)
    BY <2>2, TailFacts
  <2>4. tables' \in Tables
    BY <2>1, <2>3, AppliedType DEF Entry
  <2>5. answers' \in [Client -> Answer \union {NoAnswer}]
    <3>1. Answered(tables, Head(line).req, ok) \in Answer
      BY <2>3, AnsweredType DEF Entry
    <3>2. QED
      BY <2>1, <3>1
  <2>6. QED
    BY <1>2, <2>3, <2>4, <2>5 DEF Dispatch, panel, bounds
<1>3. ASSUME NEW c \in Client, Return(c) PROVE TypeOK'
  BY <1>3 DEF Return, disk, panel, bounds
<1>4. ASSUME NEW c \in Client, GiveUp(c) PROVE TypeOK'
  <2>1. line' \in Seq(Entry)
    <3>1. CASE \E i \in DOMAIN line : Wanted(c, i)
      <4> DEFINE i == CHOOSE i \in DOMAIN line : Wanted(c, i)
      <4>1. i \in 1..Len(line)
        BY <3>1
      <4>2. line' = LeaveLine(line, i)
        BY <1>4, <3>1 DEF GiveUp
      <4> HIDE DEF i
      <4>3. QED
        BY <4>1, <4>2, LeaveType
    <3>2. CASE ~\E i \in DOMAIN line : Wanted(c, i)
      BY <1>4, <3>2 DEF GiveUp
    <3>3. QED
      BY <3>1, <3>2
  <2>2. QED
    BY <1>4, <2>1 DEF GiveUp, disk, panel
<1>5. CASE Exit
  BY <1>5 DEF Exit, Gone, disk, panel
<1>6. CASE Open
  BY <1>6 DEF Open, disk, web, panel, bounds
<1>7. CASE Migrate
  <2>1. version + 1 \in 1..Latest
    BY <1>7 DEF Migrate, Latest
  <2>2. Migrated(tables, version + 1) \in Tables
    BY MigratedType
  <2>3. UNCHANGED <<theme, mode, chosen, unsaved, shown, hangups, cycles>>
    BY <1>7 DEF Migrate, panel
  <2>4. \/ /\ tables' = Migrated(tables, version + 1)
           /\ applied' = applied \union {version + 1} /\ version' = version + 1
           /\ UNCHANGED <<phase, web, failures>>
        \/ /\ Gone /\ UNCHANGED disk
           /\ failures' = IF failures < MaxFailures THEN failures + 1 ELSE failures
    BY <1>7 DEF Migrate
  <2>5. CASE /\ tables' = Migrated(tables, version + 1)
             /\ applied' = applied \union {version + 1} /\ version' = version + 1
             /\ UNCHANGED <<phase, web, failures>>
    BY <2>1, <2>2, <2>3, <2>5 DEF web, Latest
  <2>6. CASE /\ Gone /\ UNCHANGED disk
             /\ failures' = IF failures < MaxFailures THEN failures + 1 ELSE failures
    <3>1. UNCHANGED <<version, applied, tables>>
      BY <2>6 DEF disk
    <3>2. /\ phase' = "off" /\ line' = <<>>
          /\ asked' = [c \in Client |-> NoRequest] /\ answers' = [c \in Client |-> NoAnswer]
      BY <2>6 DEF Gone
    <3>3. failures' \in Nat
      BY <2>6
    <3>4. line' \in Seq(Entry)
      BY <3>2
    <3>5. /\ asked' \in [Client -> Request \union {NoRequest}]
          /\ answers' \in [Client -> Answer \union {NoAnswer}]
      BY <3>2
    <3>6. QED
      BY <2>3, <3>1, <3>2, <3>3, <3>4, <3>5
  <2>7. QED
    BY <2>4, <2>5, <2>6
<1>8. CASE Booting
  BY <1>8, LoadedType DEF Booting, Bootstrap, disk, web, bounds
<1>9. CASE Start
  <2>1. tables' \in Tables
    BY <1>9, SeededType DEF Start, Seed
  <2>2. QED
    BY <1>9, <2>1 DEF Start, web, panel, bounds
<1>10. CASE Push
  <2>1. FirstOf(tables.favorites) \subseteq Id
    BY DEF FirstOf
  <2>2. QED
    BY <1>10, <2>1 DEF Push, disk, web, bounds
<1>11. CASE Cycle
  <2>1. theme' \in ThemeName /\ mode' \in Mode
    BY <1>11 DEF Cycle, ThemeName, NextMode, Mode
  <2>2. PICK written \in SUBSET ThemeKey :
          /\ tables' = [tables EXCEPT !.kv_config =
                          Persist(tables.kv_config, theme', mode', written)]
          /\ unsaved' = ThemeKey \ written
    BY <1>11 DEF Cycle
  <2>3. tables' \in Tables
    BY <2>1, <2>2, PersistType
  <2>4. UNCHANGED <<phase, version, applied, asked, answers, line, shown, failures, hangups>>
    BY <1>11 DEF Cycle, web
  <2>5. unsaved' \subseteq ThemeKey /\ chosen' \in [theme : ThemeName, mode : Mode]
    BY <1>11, <2>1, <2>2 DEF Cycle
  <2>6. cycles' \in Nat
    <3>1. cycles' = cycles + 1
      BY <1>11 DEF Cycle
    <3>2. QED
      BY <3>1
  <2>7. QED
    BY <2>1, <2>3, <2>4, <2>5, <2>6
<1>12. CASE UNCHANGED vars
  BY <1>12 DEF vars, disk, web, panel, bounds
<1>13. QED
  BY <1>1, <1>2, <1>3, <1>4, <1>5, <1>6, <1>7, <1>8, <1>9, <1>10, <1>11, <1>12 DEF Next

-----------------------------------------------------------------------------
(* The schema. *)

LEMMA SchemaInit == Init => SchemaIsVersion
BY DEF Init, SchemaIsVersion

LEMMA SchemaStep ==
  ASSUME TypeOK, SchemaIsVersion, [Next]_vars
  PROVE  SchemaIsVersion'
<1>1. CASE Migrate
  <2>1. \/ version' = version + 1 /\ applied' = applied \union {version + 1}
        \/ UNCHANGED <<version, applied>>
    BY <1>1 DEF Migrate, disk
  <2>2. version \in Nat
    BY DEF TypeOK, Latest
  <2>3. 1..(version + 1) = 1..version \union {version + 1}
    BY <2>2
  <2>4. QED
    BY <2>1, <2>3 DEF SchemaIsVersion
<1>2. CASE ~Migrate
  <2>1. UNCHANGED <<version, applied>>
    BY <1>2 DEF Next, vars, disk, Ask, Dispatch, Return, GiveUp, Exit, Open, Booting, Bootstrap,
                Start, Push, Cycle
  <2>2. QED
    BY <2>1 DEF SchemaIsVersion
<1>3. QED
  BY <1>1, <1>2

-----------------------------------------------------------------------------
(* The line: inductive form of WaitingStandsInLine. *)

InLine ==
  \A c \in Client :
    /\ asked[c] # NoRequest /\ answers[c] = NoAnswer => WaitsFor(line, c, asked[c])
    /\ ~(asked[c] # NoRequest /\ answers[c] = NoAnswer) => Nobody(line, c)
    /\ answers[c] # NoAnswer => asked[c] # NoRequest

LEMMA InLineInit == Init => InLine
<1> SUFFICES ASSUME Init PROVE InLine
  OBVIOUS
<1>1. /\ asked = [c \in Client |-> NoRequest] /\ answers = [c \in Client |-> NoAnswer]
      /\ line = <<>>
  BY DEF Init
<1>2. \A c : Nobody(line, c)
  BY <1>1 DEF Nobody
<1>3. QED
  BY <1>1, <1>2 DEF InLine

LEMMA InLineMeans ==
  ASSUME TypeOK, InLine
  PROVE  WaitingStandsInLine
<1> SUFFICES ASSUME NEW c \in Client
             PROVE  /\ (asked[c] # NoRequest /\ answers[c] = NoAnswer)
                         <=> \E i \in DOMAIN line : Wanted(c, i)
                    /\ answers[c] # NoAnswer => asked[c] # NoRequest
                    /\ \A i, j \in DOMAIN line : Wanted(c, i) /\ Wanted(c, j) => i = j
                    /\ \A i \in DOMAIN line : Wanted(c, i) => line[i].req = asked[c]
  BY DEF WaitingStandsInLine
<1>1. DOMAIN line = 1..Len(line)
  BY DEF TypeOK
<1>2. \A i \in 1..Len(line) : Wanted(c, i) <=> Stands(line, c, i)
  BY <1>1 DEF Wanted, Stands
<1>3. CASE asked[c] # NoRequest /\ answers[c] = NoAnswer
  <2>1. WaitsFor(line, c, asked[c])
    BY <1>3 DEF InLine
  <2>2. QED
    BY <1>1, <1>2, <1>3, <2>1 DEF WaitsFor
<1>4. CASE ~(asked[c] # NoRequest /\ answers[c] = NoAnswer)
  <2>1. Nobody(line, c) /\ (answers[c] # NoAnswer => asked[c] # NoRequest)
    BY <1>4 DEF InLine
  <2>2. QED
    BY <1>1, <1>2, <1>4, <2>1 DEF Nobody
<1>5. QED
  BY <1>3, <1>4

LEMMA InLineStep ==
  ASSUME TypeOK, InLine, [Next]_vars
  PROVE  InLine'
<1> DEFINE Waits(c) == asked[c] # NoRequest /\ answers[c] = NoAnswer
<1>1. ASSUME NEW d \in Client, Ask(d) PROVE InLine'
  <2>1. PICK r \in Request :
          /\ asked' = [asked EXCEPT ![d] = r]
          /\ line' = Append(line, [client |-> d, req |-> r, wanted |-> TRUE])
    BY <1>1 DEF Ask
  <2>2. asked[d] = NoRequest /\ answers' = answers
    BY <1>1 DEF Ask
  <2>3. Nobody(line, d) /\ answers[d] = NoAnswer
    BY <2>2 DEF InLine
  <2>4. WaitsFor(line', d, r)
    BY <2>1, <2>3, JoinOwn DEF TypeOK
  <2>5. [client |-> d, req |-> r, wanted |-> TRUE] \in Entry
    BY DEF Entry
  <2>6. ASSUME NEW c \in Client, c # d
        PROVE  /\ Nobody(line, c) => Nobody(line', c)
               /\ WaitsFor(line, c, asked[c]) => WaitsFor(line', c, asked[c])
    BY <2>1, <2>5, <2>6, JoinOther DEF TypeOK
  <2>7. asked'[d] = r /\ r # NoRequest /\ \A c \in Client : c # d => asked'[c] = asked[c]
    BY <2>1, ConstantFacts DEF TypeOK
  <2>8. QED
    BY <2>2, <2>3, <2>4, <2>6, <2>7 DEF InLine
<1>2. CASE Dispatch
  <2> DEFINE e == Head(line)
  <2>1. PICK ok \in BOOLEAN :
          answers' = IF e.wanted
                     THEN [answers EXCEPT ![e.client] = Answered(tables, e.req, ok)]
                     ELSE answers
    BY <1>2 DEF Dispatch
  <2>2. line # <<>> /\ line' = Tail(line) /\ asked' = asked
    BY <1>2 DEF Dispatch
  <2>3. /\ e.client \in Client /\ e.req \in Request
        /\ Answered(tables, e.req, ok) # NoAnswer
    <3>1. e \in Entry
      BY <2>2, TailFacts DEF TypeOK
    <3>2. e.client \in Client /\ e.req \in Request
      BY <3>1 DEF Entry
    <3>3. QED
      BY <3>2, AnsweredType, ConstantFacts DEF TypeOK
  <2>4. ASSUME NEW c \in Client, e.wanted, e.client = c
        PROVE  asked'[c] # NoRequest /\ answers'[c] # NoAnswer /\ Nobody(line', c)
    <3>1. answers'[c] # NoAnswer
      BY <2>1, <2>3, <2>4 DEF TypeOK
    <3>2. ~Nobody(line, c)
      <4>1. 1 \in 1..Len(line) /\ line[1] = e
        BY <2>2, TailFacts DEF TypeOK
      <4>2. Stands(line, c, 1)
        BY <2>4, <4>1 DEF Stands
      <4>3. QED
        BY <4>1, <4>2 DEF Nobody
    <3>3. Waits(c) /\ WaitsFor(line, c, asked[c])
      BY <3>2 DEF InLine
    <3>4. Nobody(line', c)
      BY <2>2, <2>4, <3>3, ServedOwn DEF TypeOK
    <3>5. QED
      BY <2>2, <3>1, <3>3, <3>4
  <2>5. ASSUME NEW c \in Client, ~(e.wanted /\ e.client = c)
        PROVE  /\ answers'[c] = answers[c]
               /\ Nobody(line, c) => Nobody(line', c)
               /\ WaitsFor(line, c, asked[c]) => WaitsFor(line', c, asked[c])
    <3>1. answers'[c] = answers[c]
      BY <2>1, <2>3, <2>5 DEF TypeOK
    <3>2. QED
      BY <2>2, <2>5, <3>1, ServedOther DEF TypeOK
  <2> HIDE DEF e
  <2>6. QED
    BY <2>2, <2>4, <2>5 DEF InLine
<1>3. ASSUME NEW d \in Client, Return(d) PROVE InLine'
  <2>1. /\ answers[d] # NoAnswer /\ line' = line
        /\ asked' = [asked EXCEPT ![d] = NoRequest]
        /\ answers' = [answers EXCEPT ![d] = NoAnswer]
    BY <1>3 DEF Return
  <2>2. Nobody(line, d)
    BY <2>1 DEF InLine
  <2>3. /\ asked'[d] = NoRequest /\ answers'[d] = NoAnswer
        /\ \A c \in Client : c # d => asked'[c] = asked[c] /\ answers'[c] = answers[c]
    BY <2>1 DEF TypeOK
  <2>4. QED
    BY <2>1, <2>2, <2>3 DEF InLine
<1>4. ASSUME NEW d \in Client, GiveUp(d) PROVE InLine'
  <2>1. /\ asked[d] # NoRequest
        /\ asked' = [asked EXCEPT ![d] = NoRequest]
        /\ answers' = [answers EXCEPT ![d] = NoAnswer]
    BY <1>4 DEF GiveUp
  <2>2. /\ asked'[d] = NoRequest /\ answers'[d] = NoAnswer
        /\ \A c \in Client : c # d => asked'[c] = asked[c] /\ answers'[c] = answers[c]
    BY <2>1 DEF TypeOK
  <2>3. DOMAIN line = 1..Len(line)
    BY DEF TypeOK
  <2>4. \A i \in 1..Len(line) : Wanted(d, i) <=> Stands(line, d, i)
    BY <2>3 DEF Wanted, Stands
  <2>5. CASE answers[d] = NoAnswer
    <3>1. PICK k \in 1..Len(line) :
            Stands(line, d, k) /\ \A j \in 1..Len(line) : Stands(line, d, j) => j = k
      BY <2>1, <2>5 DEF InLine, WaitsFor
    <3>2. (CHOOSE i \in DOMAIN line : Wanted(d, i)) = k
      BY <2>3, <2>4, <3>1
    <3>3. \E i \in DOMAIN line : Wanted(d, i)
      BY <2>3, <2>4, <3>1
    <3>4. line' = LeaveLine(line, k)
      BY <1>4, <3>2, <3>3 DEF GiveUp
    <3>5. Nobody(line', d)
      BY <3>1, <3>4, LeaveFacts DEF TypeOK
    <3>6. \A c \in Client \ {d} :
            /\ Nobody(line, c) => Nobody(line', c)
            /\ WaitsFor(line, c, asked[c]) => WaitsFor(line', c, asked[c])
      BY <3>1, <3>4, LeaveFacts DEF TypeOK
    <3>7. QED
      BY <2>2, <3>5, <3>6 DEF InLine
  <2>6. CASE answers[d] # NoAnswer
    <3>1. Nobody(line, d)
      BY <2>6 DEF InLine
    <3>2. ~\E i \in DOMAIN line : Wanted(d, i)
      BY <2>3, <2>4, <3>1 DEF Nobody
    <3>3. line' = line
      BY <1>4, <3>2 DEF GiveUp
    <3>4. QED
      BY <2>2, <3>1, <3>3 DEF InLine
  <2>7. QED
    BY <2>5, <2>6
<1>5. ASSUME Gone PROVE InLine'
  <2>1. \A c : Nobody(line', c)
    BY <1>5 DEF Gone, Nobody
  <2>2. QED
    BY <1>5, <2>1 DEF Gone, InLine
<1>6. ASSUME UNCHANGED <<asked, answers, line>> PROVE InLine'
  BY <1>6 DEF InLine
<1>7. CASE Exit
  BY <1>5, <1>7 DEF Exit
<1>8. CASE Migrate
  BY <1>5, <1>6, <1>8 DEF Migrate, web
<1>9. CASE Open \/ Booting \/ Start \/ Push \/ Cycle \/ UNCHANGED vars
  BY <1>6, <1>9 DEF Open, Booting, Bootstrap, Start, Push, Cycle, vars, web
<1>10. QED
  BY <1>1, <1>2, <1>3, <1>4, <1>7, <1>8, <1>9 DEF Next

-----------------------------------------------------------------------------
(* The theme: of each key, what was chosen and written is what a start that   *)
(* can read it would load.                                                    *)

Remembered ==
  /\ "theme" \notin unsaved => Loaded(tables.kv_config, {}).theme = chosen.theme
  /\ "theme_mode" \notin unsaved => Loaded(tables.kv_config, {}).mode = chosen.mode

LEMMA RememberedInit == Init => Remembered
<1> SUFFICES ASSUME Init PROVE Remembered
  OBVIOUS
<1>1. PICK old \in {u \in Listed : Exists[u] <= version} \union {"kv_config"} :
        tables = [Empty EXCEPT ![old] = Old(old, version)]
  BY DEF Init
<1>2. tables.kv_config = Empty.kv_config
  <2>1. CASE old = "kv_config"
    BY <1>1, <2>1 DEF Old, Empty, Table
  <2>2. CASE old # "kv_config"
    BY <1>1, <2>2, TableFacts DEF Empty
  <2>3. QED
    BY <2>1, <2>2
<1>3. Empty.kv_config["theme"] = NoRow /\ Empty.kv_config["theme_mode"] = NoRow
  BY TableFacts DEF Empty, Key
<1>4. chosen.theme = "Liquid Glass" /\ chosen.mode = "Follow-Bedtime"
  BY DEF Init
<1>5. QED
  BY <1>2, <1>3, <1>4 DEF Remembered, Loaded

LEMMA LoadedSame ==
  ASSUME NEW k1, NEW k2, k1["theme"] = k2["theme"], k1["theme_mode"] = k2["theme_mode"]
  PROVE  Loaded(k1, {}) = Loaded(k2, {})
BY DEF Loaded

LEMMA LoadedBack ==
  ASSUME NEW kv, NEW th \in ThemeName, NEW md \in Mode
  PROVE  /\ kv["theme"] = <<th>> => Loaded(kv, {}).theme = th
         /\ kv["theme_mode"] = <<md>> => Loaded(kv, {}).mode = md
<1>1. <<th>> # NoRow /\ <<md>> # NoRow
  BY RowsApart DEF Value
<1>2. ASSUME kv["theme"] = <<th>> PROVE Loaded(kv, {}).theme = th
  <2>1. kv["theme"] # NoRow /\ kv["theme"][1] = th
    BY <1>1, <1>2
  <2>2. ThemeByName(th) = th
    BY DEF ThemeByName, ThemeName
  <2>3. QED
    BY <2>1, <2>2 DEF Loaded
<1>3. ASSUME kv["theme_mode"] = <<md>> PROVE Loaded(kv, {}).mode = md
  BY <1>1, <1>3 DEF Loaded
<1>4. QED
  BY <1>2, <1>3

LEMMA RememberedStep ==
  ASSUME TypeOK, Remembered, [Next]_vars
  PROVE  Remembered'
<1>1. ASSUME tables'.kv_config["theme"] = tables.kv_config["theme"],
             tables'.kv_config["theme_mode"] = tables.kv_config["theme_mode"],
             UNCHANGED <<chosen, unsaved>>
      PROVE  Remembered'
  <2>1. Loaded(tables'.kv_config, {}) = Loaded(tables.kv_config, {})
    BY <1>1, LoadedSame
  <2>2. QED
    BY <1>1, <2>1 DEF Remembered
<1>2. CASE Dispatch
  <2>1. PICK ok \in BOOLEAN : tables' = Applied(tables, Head(line).req, ok)
    BY <1>2 DEF Dispatch
  <2>2. Head(line) \in Entry
    BY <1>2, TailFacts DEF Dispatch, TypeOK
  <2>3. Head(line).req \in Request /\ tables \in Tables
    BY <2>2 DEF Entry, TypeOK
  <2>4. /\ tables'.kv_config["theme"] = tables.kv_config["theme"]
        /\ tables'.kv_config["theme_mode"] = tables.kv_config["theme_mode"]
    BY <2>1, <2>3, AppliedSpares
  <2>5. UNCHANGED <<chosen, unsaved>>
    BY <1>2 DEF Dispatch, panel
  <2>6. QED
    BY <1>1, <2>4, <2>5
<1>3. CASE Migrate
  <2>1. tables'.kv_config = tables.kv_config
    BY <1>3, MigratedType DEF Migrate, disk, TypeOK
  <2>2. QED
    BY <1>1, <1>3, <2>1 DEF Migrate, panel
<1>4. CASE Start
  <2>1. tables'.kv_config = tables.kv_config
    BY <1>4, SeededType DEF Start, Seed, TypeOK
  <2>2. QED
    BY <1>1, <1>4, <2>1 DEF Start, panel
<1>5. CASE Booting
  <2>1. UNCHANGED <<tables, chosen, unsaved>>
    BY <1>5 DEF Booting, Bootstrap, disk
  <2>2. QED
    BY <1>1, <2>1
<1>6. CASE Cycle
  <2>1. /\ theme' \in ThemeName /\ mode' \in Mode
        /\ chosen'.theme = theme' /\ chosen'.mode = mode'
    BY <1>6 DEF Cycle, ThemeName, NextMode, Mode, TypeOK
  <2>2. PICK written \in SUBSET ThemeKey :
          /\ tables' = [tables EXCEPT !.kv_config =
                          Persist(tables.kv_config, theme', mode', written)]
          /\ unsaved' = ThemeKey \ written
    BY <1>6 DEF Cycle
  <2>3. tables'.kv_config = Persist(tables.kv_config, theme', mode', written)
    BY <2>2 DEF TypeOK, Tables
  <2>4. /\ "theme" \in written => tables'.kv_config["theme"] = <<theme'>>
        /\ "theme_mode" \in written => tables'.kv_config["theme_mode"] = <<mode'>>
    <3>1. LET kv == Persist(tables.kv_config, theme', mode', written)
          IN  /\ "theme" \in written => kv["theme"] = <<theme'>>
              /\ "theme_mode" \in written => kv["theme_mode"] = <<mode'>>
      BY PersistKeys
    <3>2. QED
      BY <2>3, <3>1
  <2>5. /\ "theme" \in written => Loaded(tables'.kv_config, {}).theme = theme'
        /\ "theme_mode" \in written => Loaded(tables'.kv_config, {}).mode = mode'
    BY <2>1, <2>4, LoadedBack
  <2>6. QED
    BY <2>1, <2>2, <2>5 DEF Remembered, ThemeKey
<1>7. CASE Exit \/ Open \/ Push \/ UNCHANGED vars
  <2>1. UNCHANGED <<tables, chosen, unsaved>>
    BY <1>7 DEF Exit, Open, Push, vars, disk, panel
  <2>2. QED
    BY <1>1, <2>1
<1>8. CASE \E c \in Client : Ask(c) \/ Return(c) \/ GiveUp(c)
  <2>1. UNCHANGED <<tables, chosen, unsaved>>
    BY <1>8 DEF Ask, Return, GiveUp, disk, panel
  <2>2. QED
    BY <1>1, <2>1
<1>9. QED
  BY <1>2, <1>3, <1>4, <1>5, <1>6, <1>7, <1>8 DEF Next

-----------------------------------------------------------------------------
(* The requests given up, in the order of the line. *)

\* f lists P, once each and in increasing order.
Enumerates(f, n, P) ==
  /\ f \in [1..n -> P]
  /\ \A i, j \in 1..n : i < j => f[i] < f[j]
  /\ \A p \in P : \E i \in 1..n : f[i] = p

LEMMA LeastOfNats ==
  ASSUME NEW S \in SUBSET Nat, S # {}
  PROVE  \E x \in S : \A y \in S : x <= y
<1>1. PICK x \in S : \A y \in S : ~(<<y, x>> \in OpToRel(<, Nat))
  BY WFMin, NatLessThanWellFounded
<1>2. \A y \in S : ~(y < x)
  BY <1>1, Zenon DEF OpToRel
<1> QED BY <1>2

\* Where two lists of one set first differ, each would come before the other.
LEMMA EnumeratesOnce ==
  ASSUME NEW P \in SUBSET Nat, NEW n \in Nat, NEW f, NEW g,
         Enumerates(f, n, P), Enumerates(g, n, P)
  PROVE  f = g
<1> DEFINE D == {k \in 1..n : f[k] # g[k]}
<1>1. /\ \A i \in 1..n : f[i] \in Nat /\ g[i] \in Nat /\ f[i] \in P /\ g[i] \in P
      /\ f \in [1..n -> P] /\ g \in [1..n -> P]
  BY DEF Enumerates
<1>2. CASE D = {}
  <2>1. \A k \in 1..n : f[k] = g[k]
    BY <1>2
  <2> QED BY <1>1, <2>1
<1>3. CASE D # {}
  <2>1. PICK k \in D : \A j \in D : k <= j
    <3>1. D \in SUBSET Nat
      OBVIOUS
    <3> QED BY <1>3, <3>1, LeastOfNats
  <2>2. k \in 1..n /\ f[k] # g[k] /\ \A j \in 1..n : j < k => f[j] = g[j]
    BY <2>1
  <2>3. PICK m \in 1..n : g[m] = f[k]
    BY <1>1, <2>2 DEF Enumerates
  <2>4. PICK l \in 1..n : f[l] = g[k]
    BY <1>1, <2>2 DEF Enumerates
  <2>5. m > k
    <3>1. ~(m < k)
      BY <1>1, <2>2, <2>3 DEF Enumerates
    <3> QED BY <2>2, <2>3, <3>1
  <2>6. l > k
    <3>1. ~(l < k)
      BY <1>1, <2>2, <2>4 DEF Enumerates
    <3> QED BY <2>2, <2>4, <3>1
  <2>7. g[k] < f[k] /\ f[k] < g[k]
    BY <2>2, <2>3, <2>4, <2>5, <2>6 DEF Enumerates
  <2> QED BY <1>1, <2>2, <2>7
<1> QED BY <1>2, <1>3

LEMMA InOrderIs ==
  ASSUME NEW P \in SUBSET Nat, NEW n \in Nat, NEW f, Enumerates(f, n, P)
  PROVE  Cardinality(P) = n /\ InOrder(P) = f
<1>1. IsFiniteSet(1..n) /\ Cardinality(1..n) = n
  BY FS_Interval
<1>2. /\ f \in [1..n -> P] /\ \A i \in 1..n : f[i] \in Nat
      /\ \A i, j \in 1..n : i < j => f[i] < f[j]
      /\ \A p \in P : \E i \in 1..n : f[i] = p
  BY DEF Enumerates
<1>3. f \in Injection(1..n, P) /\ f \in Surjection(1..n, P)
  <2>1. \A i, j \in 1..n : f[i] = f[j] => i = j
    <3> SUFFICES ASSUME NEW i \in 1..n, NEW j \in 1..n, f[i] = f[j], i # j PROVE FALSE
      OBVIOUS
    <3>1. i < j \/ j < i
      OBVIOUS
    <3>2. f[i] < f[j] \/ f[j] < f[i]
      BY <1>2, <3>1
    <3>3. f[i] \in Nat /\ f[j] \in Nat
      BY <1>2
    <3> QED BY <3>2, <3>3
  <2> QED BY <1>2, <2>1, Zenon DEF Injection, IsInjective, Surjection
<1>4. IsFiniteSet(P) /\ Cardinality(P) = n
  BY <1>1, <1>3, FS_Surjection
<1> DEFINE Grows(h) == \A i, j \in DOMAIN h : i < j => h[i] < h[j]
<1>5. f \in [1..n -> P] /\ Grows(f)
  BY <1>2
<1>6. ASSUME NEW h \in [1..n -> P], Grows(h) PROVE h = f
  <2>1. \A i \in 1..n : h[i] \in Nat
    OBVIOUS
  <2>2. \A i, j \in 1..n : h[i] = h[j] => i = j
    <3> SUFFICES ASSUME NEW i \in 1..n, NEW j \in 1..n, h[i] = h[j], i # j PROVE FALSE
      OBVIOUS
    <3>1. i < j \/ j < i
      OBVIOUS
    <3>2. h[i] < h[j] \/ h[j] < h[i]
      BY <1>6, <3>1
    <3> QED BY <2>1, <3>2
  <2>3. h \in Injection(1..n, P)
    BY <2>2 DEF Injection, IsInjective
  <2>4. h \in Surjection(1..n, P)
    BY <1>1, <1>4, <2>3, FS_Injection
  <2>5. Enumerates(h, n, P)
    BY <1>6, <2>4 DEF Surjection, Enumerates
  <2> QED BY <2>5, EnumeratesOnce
<1>7. InOrder(P) = CHOOSE h \in [1..n -> P] : Grows(h)
  BY <1>4 DEF InOrder
<1> HIDE DEF Grows
<1> QED BY <1>4, <1>5, <1>6, <1>7

\* s holds the requests of those of c that gave up, in the order of the line.
Lists(s, l, c) ==
  \E f : /\ Enumerates(f, Len(s), Unwanted(l, c))
         /\ \A k \in 1..Len(s) : s[k] = l[f[k]].req

LEMMA UnwantedFacts ==
  ASSUME NEW l \in Seq(Entry), NEW c
  PROVE  /\ Unwanted(l, c) \in SUBSET Nat /\ Unwanted(l, c) \in SUBSET (1..Len(l))
         /\ \A i : i \in Unwanted(l, c) <=> i \in 1..Len(l) /\ l[i].client = c /\ ~l[i].wanted
         /\ Len(l) \in Nat /\ \A i \in 1..Len(l) : l[i] \in Entry
BY DEF Unwanted

LEMMA ListsIs ==
  ASSUME NEW l \in Seq(Entry), NEW c, NEW s \in Seq(Request), Lists(s, l, c)
  PROVE  GivenUp(l, c) = s
<1>1. PICK f : /\ Enumerates(f, Len(s), Unwanted(l, c))
               /\ \A k \in 1..Len(s) : s[k] = l[f[k]].req
  BY DEF Lists
<1>2. Len(s) \in Nat /\ Unwanted(l, c) \in SUBSET Nat
  BY UnwantedFacts
<1>3. Cardinality(Unwanted(l, c)) = Len(s) /\ InOrder(Unwanted(l, c)) = f
  BY <1>1, <1>2, InOrderIs
<1>4. GivenUp(l, c) = [k \in 1..Len(s) |-> l[f[k]].req]
  BY <1>3, Zenon DEF GivenUp
<1>5. [k \in 1..Len(s) |-> l[f[k]].req] = [k \in 1..Len(s) |-> s[k]]
  BY <1>1
<1>6. s = [k \in 1..Len(s) |-> s[k]]
  OBVIOUS
<1> QED BY <1>4, <1>5, <1>6

LEMMA ListsNothing ==
  ASSUME NEW c
  PROVE  Lists(<<>>, <<>>, c)
<1> DEFINE f == [i \in 1..0 |-> 0]
<1>1. Unwanted(<<>>, c) = {}
  BY DEF Unwanted
<1>2. Enumerates(f, 0, {})
  BY DEF Enumerates
<1> HIDE DEF f
<1>3. Len(<<>>) = 0
  OBVIOUS
<1>4. \A k \in 1..0 : <<>>[k] = <<>>[f[k]].req
  OBVIOUS
<1> QED BY <1>1, <1>2, <1>3, <1>4, Zenon DEF Lists

\* Who joins, joins behind them all.
LEMMA ListsJoin ==
  ASSUME NEW l \in Seq(Entry), NEW c, NEW s \in Seq(Request), Lists(s, l, c),
         NEW e \in Entry, e.wanted
  PROVE  Lists(s, Append(l, e), c)
<1> DEFINE m == Append(l, e)
<1>1. PICK f : /\ Enumerates(f, Len(s), Unwanted(l, c))
               /\ \A k \in 1..Len(s) : s[k] = l[f[k]].req
  BY DEF Lists
<1>2. /\ m \in Seq(Entry) /\ Len(m) = Len(l) + 1 /\ m[Len(m)] = e
      /\ \A i \in 1..Len(l) : m[i] = l[i]
  OBVIOUS
<1> HIDE DEF m
<1>3. Unwanted(m, c) = Unwanted(l, c)
  <2>1. \A i \in 1..Len(m) : i \in 1..Len(l) \/ i = Len(m)
    BY <1>2, UnwantedFacts
  <2>2. \A i \in 1..Len(l) : i \in 1..Len(m)
    BY <1>2, UnwantedFacts
  <2>3. \A i : i \in Unwanted(m, c) <=> i \in Unwanted(l, c)
    BY <1>2, <2>1, <2>2, UnwantedFacts
  <2> QED BY <2>3, Zenon
<1>4. \A k \in 1..Len(s) : f[k] \in 1..Len(l)
  BY <1>1, UnwantedFacts DEF Enumerates
<1>5. Lists(s, m, c)
  BY <1>1, <1>2, <1>3, <1>4 DEF Lists
<1> QED BY <1>5 DEF m

\* Places move up by one when another is served.
LEMMA ListsServedOther ==
  ASSUME NEW l \in Seq(Entry), l # <<>>, NEW c, NEW s \in Seq(Request), Lists(s, l, c),
         ~(Head(l).client = c /\ ~Head(l).wanted)
  PROVE  Lists(s, Tail(l), c)
<1> DEFINE m == Tail(l)
           P == Unwanted(l, c)
           n == Len(s)
<1>1. PICK f : Enumerates(f, n, P) /\ \A k \in 1..n : s[k] = l[f[k]].req
  BY DEF Lists
<1>2. /\ m \in Seq(Entry) /\ Len(m) = Len(l) - 1 /\ Len(l) \in Nat /\ Head(l) = l[1]
      /\ \A i \in 1..Len(m) : m[i] = l[i + 1]
  BY TailFacts
<1> HIDE DEF m
<1>3. \A i \in P : i \in 2..Len(l) /\ i - 1 \in Unwanted(m, c) /\ m[i - 1] = l[i]
  <2> SUFFICES ASSUME NEW i \in P
               PROVE  i \in 2..Len(l) /\ i - 1 \in Unwanted(m, c) /\ m[i - 1] = l[i]
    OBVIOUS
  <2>1. i \in 1..Len(l) /\ l[i].client = c /\ ~l[i].wanted
    BY UnwantedFacts
  <2>2. i # 1
    BY <1>2, <2>1
  <2>3. i \in 2..Len(l) /\ i - 1 \in 1..Len(m) /\ (i - 1) + 1 = i
    BY <1>2, <2>1, <2>2
  <2>4. m[i - 1] = l[i]
    BY <1>2, <2>3
  <2> QED BY <1>2, <2>1, <2>3, <2>4, UnwantedFacts
<1>4. \A i \in Unwanted(m, c) : i \in Nat /\ i + 1 \in P
  <2> SUFFICES ASSUME NEW i \in Unwanted(m, c) PROVE i \in Nat /\ i + 1 \in P
    OBVIOUS
  <2>1. i \in 1..Len(m) /\ m[i].client = c /\ ~m[i].wanted
    BY <1>2, UnwantedFacts
  <2>2. i + 1 \in 1..Len(l) /\ l[i + 1] = m[i]
    BY <1>2, <2>1
  <2> QED BY <2>1, <2>2, UnwantedFacts
<1> HIDE DEF P
<1> DEFINE g == [k \in 1..n |-> f[k] - 1]
<1>5. \A k \in 1..n : f[k] \in P
  BY <1>1 DEF Enumerates
<1>6. Enumerates(g, n, Unwanted(m, c))
  <2>1. g \in [1..n -> Unwanted(m, c)]
    BY <1>3, <1>5
  <2>2. \A i, j \in 1..n : i < j => g[i] < g[j]
    <3> SUFFICES ASSUME NEW i \in 1..n, NEW j \in 1..n, i < j PROVE f[i] - 1 < f[j] - 1
      OBVIOUS
    <3>1. f[i] < f[j]
      BY <1>1 DEF Enumerates
    <3>2. f[i] \in Int /\ f[j] \in Int
      BY <1>3, <1>5
    <3> QED BY <3>1, <3>2
  <2>3. \A p \in Unwanted(m, c) : \E i \in 1..n : g[i] = p
    <3> SUFFICES ASSUME NEW p \in Unwanted(m, c) PROVE \E i \in 1..n : f[i] - 1 = p
      OBVIOUS
    <3>1. PICK i \in 1..n : f[i] = p + 1
      BY <1>1, <1>4 DEF Enumerates
    <3>2. f[i] - 1 = p
      BY <1>4, <3>1
    <3> QED BY <3>2
  <2> HIDE DEF g
  <2> QED BY <2>1, <2>2, <2>3 DEF Enumerates
<1>7. \A k \in 1..n : s[k] = m[g[k]].req
  BY <1>1, <1>3, <1>5
<1> HIDE DEF g
<1>8. Lists(s, m, c)
  BY <1>6, <1>7 DEF Lists
<1> QED BY <1>8 DEF m

\* The first of them is served.
LEMMA ListsServedOwn ==
  ASSUME NEW l \in Seq(Entry), l # <<>>, NEW c, NEW s \in Seq(Request), Lists(s, l, c),
         Head(l).client = c, ~Head(l).wanted
  PROVE  s # <<>> /\ Head(s) = Head(l).req /\ Tail(s) \in Seq(Request) /\ Lists(Tail(s), Tail(l), c)
<1> DEFINE m == Tail(l)
           P == Unwanted(l, c)
           n == Len(s)
<1>1. PICK f : Enumerates(f, n, P) /\ \A k \in 1..n : s[k] = l[f[k]].req
  BY DEF Lists
<1>2. /\ m \in Seq(Entry) /\ Len(m) = Len(l) - 1 /\ Len(l) \in Nat /\ Head(l) = l[1]
      /\ \A i \in 1..Len(m) : m[i] = l[i + 1]
  BY TailFacts
<1> HIDE DEF m
<1>3. 1 \in P /\ P \in SUBSET (1..Len(l)) /\ n \in Nat
  <2>1. 1 \in 1..Len(l)
    BY TailFacts
  <2> QED BY <1>2, <2>1, UnwantedFacts
<1>4. \A i \in P : i # 1 => i - 1 \in Unwanted(m, c) /\ m[i - 1] = l[i]
  <2> SUFFICES ASSUME NEW i \in P, i # 1 PROVE i - 1 \in Unwanted(m, c) /\ m[i - 1] = l[i]
    OBVIOUS
  <2>1. i \in 1..Len(l) /\ l[i].client = c /\ ~l[i].wanted
    BY UnwantedFacts
  <2>2. i - 1 \in 1..Len(m) /\ (i - 1) + 1 = i
    BY <1>2, <2>1
  <2>3. m[i - 1] = l[i]
    BY <1>2, <2>2
  <2> QED BY <1>2, <2>1, <2>2, <2>3, UnwantedFacts
<1>5. \A i \in Unwanted(m, c) : i \in Nat /\ i >= 1 /\ i + 1 \in P
  <2> SUFFICES ASSUME NEW i \in Unwanted(m, c) PROVE i \in Nat /\ i >= 1 /\ i + 1 \in P
    OBVIOUS
  <2>1. i \in 1..Len(m) /\ m[i].client = c /\ ~m[i].wanted
    BY <1>2, UnwantedFacts
  <2>2. i + 1 \in 1..Len(l) /\ l[i + 1] = m[i]
    BY <1>2, <2>1
  <2> QED BY <2>1, <2>2, UnwantedFacts
<1> HIDE DEF P
<1>6. \A k \in 1..n : f[k] \in P /\ f[k] \in Nat /\ f[k] >= 1
  <2>1. \A k \in 1..n : f[k] \in P
    BY <1>1 DEF Enumerates
  <2>2. \A i \in P : i \in Nat /\ i >= 1
    BY <1>2, <1>3
  <2> QED BY <2>1, <2>2
<1>7. 1 \in 1..n /\ f[1] = 1
  <2>1. PICK k \in 1..n : f[k] = 1
    BY <1>1, <1>3 DEF Enumerates
  <2>2. 1 \in 1..n
    BY <1>3, <2>1
  <2>3. 1 < k => f[1] < f[k]
    BY <1>1, <2>2 DEF Enumerates
  <2>4. f[1] \in Nat /\ f[1] >= 1
    BY <1>6, <2>2
  <2> QED BY <2>1, <2>2, <2>3, <2>4
<1> DEFINE t == Tail(s)
<1>8. /\ s # <<>> /\ Head(s) = s[1] /\ t \in Seq(Request) /\ Len(t) = n - 1
      /\ \A k \in 1..Len(t) : k + 1 \in 1..n /\ t[k] = s[k + 1]
  <2>1. s # <<>>
    BY <1>7
  <2> QED BY <2>1
<1> HIDE DEF t
<1> DEFINE g == [k \in 1..Len(t) |-> f[k + 1] - 1]
<1>9. \A k \in 1..Len(t) : f[k + 1] \in P /\ f[k + 1] \in Nat /\ f[k + 1] # 1
  <2> SUFFICES ASSUME NEW k \in 1..Len(t)
               PROVE  f[k + 1] \in P /\ f[k + 1] \in Nat /\ f[k + 1] # 1
    OBVIOUS
  <2>1. k + 1 \in 1..n /\ 1 < k + 1
    BY <1>3, <1>8
  <2>2. f[1] < f[k + 1]
    BY <1>1, <1>7, <2>1 DEF Enumerates
  <2> QED BY <1>6, <1>7, <2>1, <2>2
<1>10. Enumerates(g, Len(t), Unwanted(m, c))
  <2>1. g \in [1..Len(t) -> Unwanted(m, c)]
    BY <1>4, <1>9
  <2>2. \A i, j \in 1..Len(t) : i < j => g[i] < g[j]
    <3> SUFFICES ASSUME NEW i \in 1..Len(t), NEW j \in 1..Len(t), i < j
                 PROVE  f[i + 1] - 1 < f[j + 1] - 1
      OBVIOUS
    <3>1. i + 1 \in 1..n /\ j + 1 \in 1..n /\ i + 1 < j + 1
      BY <1>8
    <3>2. f[i + 1] < f[j + 1]
      BY <1>1, <3>1 DEF Enumerates
    <3> QED BY <1>9, <3>2
  <2>3. \A p \in Unwanted(m, c) : \E i \in 1..Len(t) : g[i] = p
    <3> SUFFICES ASSUME NEW p \in Unwanted(m, c) PROVE \E i \in 1..Len(t) : f[i + 1] - 1 = p
      OBVIOUS
    <3>1. PICK k \in 1..n : f[k] = p + 1
      BY <1>1, <1>5 DEF Enumerates
    <3>2. k # 1
      BY <1>5, <1>7, <3>1
    <3>3. k - 1 \in 1..Len(t) /\ (k - 1) + 1 = k
      BY <1>3, <1>8, <3>2
    <3>4. f[(k - 1) + 1] - 1 = p
      BY <1>5, <3>1, <3>3
    <3> QED BY <3>3, <3>4
  <2> HIDE DEF g
  <2> QED BY <2>1, <2>2, <2>3 DEF Enumerates
<1>11. \A k \in 1..Len(t) : t[k] = m[g[k]].req
  BY <1>1, <1>4, <1>8, <1>9
<1> HIDE DEF g
<1>12. Lists(t, m, c)
  BY <1>10, <1>11 DEF Lists
<1>13. Head(s) = Head(l).req
  BY <1>1, <1>2, <1>7, <1>8
<1> QED BY <1>8, <1>12, <1>13 DEF m, t

\* A handler that still waits takes its own place back, and those behind move up.
LEMMA ListsWithdrawn ==
  ASSUME NEW l \in Seq(Entry), NEW c, NEW s \in Seq(Request), Lists(s, l, c),
         NEW o \in 1..Len(l), l[o].wanted
  PROVE  Lists(s, Without(l, o), c)
<1> DEFINE m == Without(l, o)
           P == Unwanted(l, c)
           n == Len(s)
           to(i) == IF i < o THEN i ELSE i - 1
<1>1. PICK f : Enumerates(f, n, P) /\ \A k \in 1..n : s[k] = l[f[k]].req
  BY DEF Lists
<1>2. /\ m \in Seq(Entry) /\ Len(m) = Len(l) - 1 /\ Len(l) \in Nat
      /\ \A j \in 1..Len(m) : m[j] = IF j < o THEN l[j] ELSE l[j + 1]
  BY WithoutFacts
<1> HIDE DEF m
<1>3. \A i \in P : i \in Nat /\ i # o /\ to(i) \in Unwanted(m, c) /\ m[to(i)] = l[i]
  <2> SUFFICES ASSUME NEW i \in P
               PROVE  i \in Nat /\ i # o /\ to(i) \in Unwanted(m, c) /\ m[to(i)] = l[i]
    OBVIOUS
  <2>1. i \in 1..Len(l) /\ l[i].client = c /\ ~l[i].wanted
    BY UnwantedFacts
  <2>2. i # o
    BY <2>1
  <2>3. CASE i < o
    <3>1. i \in 1..Len(m) /\ m[i] = l[i] /\ to(i) = i
      BY <1>2, <2>1, <2>3
    <3> QED BY <1>2, <2>1, <2>2, <3>1, UnwantedFacts
  <2>4. CASE ~(i < o)
    <3>1. i - 1 \in 1..Len(m) /\ ~(i - 1 < o) /\ (i - 1) + 1 = i /\ to(i) = i - 1
      BY <1>2, <2>1, <2>2, <2>4
    <3>2. m[i - 1] = l[i]
      BY <1>2, <3>1
    <3> QED BY <1>2, <2>1, <2>2, <3>1, <3>2, UnwantedFacts
  <2> QED BY <2>3, <2>4
<1>4. \A p \in Unwanted(m, c) : \E i \in P : to(i) = p
  <2> SUFFICES ASSUME NEW p \in Unwanted(m, c) PROVE \E i \in P : to(i) = p
    OBVIOUS
  <2>1. p \in 1..Len(m) /\ m[p].client = c /\ ~m[p].wanted
    BY <1>2, UnwantedFacts
  <2>2. CASE p < o
    <3>1. p \in P /\ to(p) = p
      BY <1>2, <2>1, <2>2, UnwantedFacts
    <3> QED BY <3>1
  <2>3. CASE ~(p < o)
    <3>1. p + 1 \in 1..Len(l) /\ m[p] = l[p + 1]
      BY <1>2, <2>1, <2>3
    <3>2. p + 1 \in P /\ to(p + 1) = p
      BY <2>1, <2>3, <3>1, UnwantedFacts
    <3> QED BY <3>2
  <2> QED BY <2>2, <2>3
<1>5. \A i, j \in P : i < j => to(i) < to(j)
  BY <1>3
<1> HIDE DEF P, to
<1> DEFINE g == [k \in 1..n |-> to(f[k])]
<1>6. \A k \in 1..n : f[k] \in P
  BY <1>1 DEF Enumerates
<1>7. Enumerates(g, n, Unwanted(m, c))
  <2>1. g \in [1..n -> Unwanted(m, c)]
    BY <1>3, <1>6
  <2>2. \A i, j \in 1..n : i < j => g[i] < g[j]
    BY <1>1, <1>5, <1>6 DEF Enumerates
  <2>3. \A p \in Unwanted(m, c) : \E i \in 1..n : g[i] = p
    <3> SUFFICES ASSUME NEW p \in Unwanted(m, c) PROVE \E i \in 1..n : to(f[i]) = p
      OBVIOUS
    <3>1. PICK q \in P : to(q) = p
      BY <1>4
    <3>2. PICK i \in 1..n : f[i] = q
      BY <1>1 DEF Enumerates
    <3> QED BY <3>1, <3>2
  <2> HIDE DEF g
  <2> QED BY <2>1, <2>2, <2>3 DEF Enumerates
<1>8. \A k \in 1..n : s[k] = m[g[k]].req
  BY <1>1, <1>3, <1>6
<1> HIDE DEF g
<1>9. Lists(s, m, c)
  BY <1>7, <1>8 DEF Lists
<1> QED BY <1>9 DEF m

\* What is left behind in the channel becomes the last of those given up, as
\* nothing of its client stands behind it.
LEMMA ListsLeftBehind ==
  ASSUME NEW l \in Seq(Entry), NEW c, NEW s \in Seq(Request), Lists(s, l, c),
         NEW o \in 1..Len(l), l[o].wanted,
         \A j \in o + 1..Len(l) : l[j].client # l[o].client
  PROVE  LET m == [l EXCEPT ![o].wanted = FALSE]
             t == IF l[o].client = c THEN Append(s, l[o].req) ELSE s
         IN  t \in Seq(Request) /\ Lists(t, m, c)
<1> DEFINE m == [l EXCEPT ![o].wanted = FALSE]
           P == Unwanted(l, c)
           n == Len(s)
<1>1. PICK f : Enumerates(f, n, P) /\ \A k \in 1..n : s[k] = l[f[k]].req
  BY DEF Lists
<1>2. /\ m \in Seq(Entry) /\ Len(m) = Len(l) /\ Len(l) \in Nat
      /\ m[o].client = l[o].client /\ m[o].req = l[o].req /\ ~m[o].wanted
      /\ \A j \in 1..Len(m) : j # o => m[j] = l[j]
  <2>1. l[o] \in Entry
    OBVIOUS
  <2>2. \A e \in Entry : LET d == [e EXCEPT !.wanted = FALSE]
                         IN  d \in Entry /\ d.client = e.client /\ d.req = e.req /\ ~d.wanted
    BY DEF Entry
  <2>3. \A d \in Entry : LET k == [l EXCEPT ![o] = d]
                         IN  /\ k \in Seq(Entry) /\ Len(k) = Len(l) /\ k[o] = d
                             /\ \A j \in 1..Len(k) : j # o => k[j] = l[j]
    OBVIOUS
  <2>4. m = [l EXCEPT ![o] = [l[o] EXCEPT !.wanted = FALSE]]
    OBVIOUS
  <2> HIDE DEF m
  <2> QED BY <2>1, <2>2, <2>3, <2>4
<1> HIDE DEF m
<1>3. P \in SUBSET (1..Len(l)) /\ n \in Nat /\ o \notin P /\ l[o] \in Entry
  BY UnwantedFacts
<1>4. \A i \in P : m[i] = l[i]
  BY <1>2, <1>3
<1>5. \A k \in 1..n : f[k] \in P
  BY <1>1 DEF Enumerates
<1>6. CASE l[o].client = c
  <2>1. Unwanted(m, c) = P \union {o}
    <3>1. \A i : i \in Unwanted(m, c) <=> i \in P \/ i = o
      BY <1>2, <1>6, UnwantedFacts
    <3> QED BY <3>1
  <2>2. \A i \in P : i \in Nat /\ i < o
    BY <1>2, <1>6, UnwantedFacts
  <2> DEFINE t == Append(s, l[o].req)
             g == [k \in 1..n + 1 |-> IF k <= n THEN f[k] ELSE o]
  <2>3. /\ t \in Seq(Request) /\ Len(t) = n + 1 /\ t[n + 1] = l[o].req
        /\ \A k \in 1..n : t[k] = s[k]
    <3>1. l[o].req \in Request
      BY <1>3 DEF Entry
    <3> QED BY <3>1
  <2> HIDE DEF t, P
  <2>4. Enumerates(g, n + 1, Unwanted(m, c))
    <3>1. g \in [1..n + 1 -> Unwanted(m, c)]
      BY <1>3, <1>5, <2>1
    <3>2. \A i, j \in 1..n + 1 : i < j => g[i] < g[j]
      <4> SUFFICES ASSUME NEW i \in 1..n + 1, NEW j \in 1..n + 1, i < j PROVE g[i] < g[j]
        OBVIOUS
      <4>1. i \in 1..n /\ g[i] = f[i]
        BY <1>3
      <4>2. CASE j <= n
        <5>1. j \in 1..n /\ g[j] = f[j]
          BY <4>2
        <5> QED BY <1>1, <4>1, <5>1 DEF Enumerates
      <4>3. CASE ~(j <= n)
        <5>1. g[j] = o
          BY <4>3
        <5> QED BY <1>5, <2>2, <4>1, <5>1
      <4> QED BY <4>2, <4>3
    <3>3. \A p \in Unwanted(m, c) : \E i \in 1..n + 1 : g[i] = p
      <4> SUFFICES ASSUME NEW p \in Unwanted(m, c) PROVE \E i \in 1..n + 1 : g[i] = p
        OBVIOUS
      <4>1. CASE p = o
        <5>1. n + 1 \in 1..n + 1 /\ g[n + 1] = o
          BY <1>3
        <5> QED BY <4>1, <5>1
      <4>2. CASE p \in P
        <5>1. PICK i \in 1..n : f[i] = p
          BY <1>1, <4>2 DEF Enumerates
        <5>2. i \in 1..n + 1 /\ g[i] = p
          BY <1>3, <5>1
        <5> QED BY <5>2
      <4> QED BY <2>1, <4>1, <4>2
    <3> HIDE DEF g
    <3> QED BY <3>1, <3>2, <3>3 DEF Enumerates
  <2>5. \A k \in 1..n + 1 : t[k] = m[g[k]].req
    <3> SUFFICES ASSUME NEW k \in 1..n + 1 PROVE t[k] = m[g[k]].req
      OBVIOUS
    <3>1. CASE k <= n
      <4>1. k \in 1..n /\ g[k] = f[k]
        BY <3>1
      <4> QED BY <1>1, <1>4, <1>5, <2>3, <4>1
    <3>2. CASE ~(k <= n)
      <4>1. k = n + 1 /\ g[k] = o
        BY <1>3, <3>2
      <4> QED BY <1>2, <2>3, <4>1
    <3> QED BY <3>1, <3>2
  <2> HIDE DEF g
  <2>6. Lists(t, m, c)
    BY <2>3, <2>4, <2>5 DEF Lists
  <2> QED BY <1>6, <2>3, <2>6 DEF m, t
<1>7. CASE l[o].client # c
  <2>1. Unwanted(m, c) = P
    <3>1. \A i : i \in Unwanted(m, c) <=> i \in P
      BY <1>2, <1>7, UnwantedFacts
    <3> QED BY <3>1
  <2>2. \A k \in 1..n : s[k] = m[f[k]].req
    BY <1>1, <1>4, <1>5
  <2>3. Lists(s, m, c)
    BY <1>1, <2>1, <2>2 DEF Lists
  <2> QED BY <1>7, <2>3 DEF m
<1> QED BY <1>6, <1>7
-----------------------------------------------------------------------------
(* What a list shows of the tables. *)

LEMMA TablesEqual ==
  ASSUME NEW xs \in Tables, NEW ys \in Tables,
         \A t \in Table : \A i \in KeysOf[t] : xs[t][i] = ys[t][i]
  PROVE  xs = ys
<1>1. \A t \in Table : xs[t] = ys[t]
  <2> SUFFICES ASSUME NEW t \in Table PROVE xs[t] = ys[t]
    OBVIOUS
  <2>1. /\ xs[t] \in [KeysOf[t] -> Rows[t] \union {NoRow}]
        /\ ys[t] \in [KeysOf[t] -> Rows[t] \union {NoRow}]
    BY TablesFacts
  <2> QED BY <2>1
<1> QED BY <1>1, TableFacts DEF Tables

LEMMA ReadFacts ==
  ASSUME NEW t \in Table, NEW row \in Rows[t] \union {NoRow}
  PROVE  /\ Read(t, row) \in Rows[t] \union {NoRow}
         /\ Read(t, Read(t, row)) = Read(t, row)
         /\ Read(t, row) = NoRow <=> row = NoRow
<1>1. CASE t = "alarms" /\ row # NoRow
  <2>1. row \in Rows.alarms /\ row[1] \in Rule
    BY <1>1 DEF Rows
  <2> DEFINE p == PolicyFromDb(row[2])
             new == <<row[1], p>>
  <2>2. p \in HolidayPolicy /\ PolicyFromDb(p) = p
    BY DEF PolicyFromDb, HolidayPolicy
  <2> HIDE DEF p
  <2>3. new \in Rows.alarms /\ new # NoRow /\ new[1] = row[1] /\ new[2] = p
    <3>1. new \in Rows.alarms
      BY <2>1, <2>2 DEF Rows
    <3>2. NoRow \notin Rows.alarms
      BY ConstantFacts, TableFacts
    <3> QED BY <3>1, <3>2
  <2>4. Read(t, row) = new
    BY <1>1 DEF Read, p
  <2> HIDE DEF new
  <2>5. Read(t, new) = <<new[1], PolicyFromDb(new[2])>>
    BY <1>1, <2>3 DEF Read
  <2>6. Read(t, new) = new
    BY <2>2, <2>3, <2>5 DEF new
  <2> QED BY <1>1, <2>3, <2>4, <2>6
<1>2. CASE ~(t = "alarms" /\ row # NoRow)
  BY <1>2 DEF Read
<1> QED BY <1>1, <1>2

LEMMA ReadConverted ==
  ASSUME NEW t \in Table, NEW form \in Form[t]
  PROVE  Read(t, Converted(t, form)) = Converted(t, form)
<1>1. CASE t = "alarms"
  <2> DEFINE a == IF form[1] = "once" THEN "none" ELSE form[1]
             p == PolicyFromDb(form[2])
             row == <<a, p>>
  <2>1. Converted(t, form) = row
    BY <1>1 DEF Converted
  <2>2. PolicyFromDb(p) = p
    BY DEF PolicyFromDb, HolidayPolicy
  <2>3. row # NoRow
    BY <2>1, ConvertedType, ConstantFacts
  <2> HIDE DEF a, p
  <2>4. Read(t, row) = <<row[1], PolicyFromDb(row[2])>>
    BY <1>1, <2>3 DEF Read
  <2> QED BY <2>1, <2>2, <2>4
<1>2. CASE t # "alarms"
  BY <1>2 DEF Read
<1> QED BY <1>1, <1>2

LEMMA UpsertForm ==
  ASSUME NEW r \in Request, r.op = "upsert"
  PROVE  r.form \in Form[r.table]
<1>1. CASE \E u \in Listed : r = List(u)
  BY <1>1 DEF List
<1>2. CASE \E v \in Value : r = SetTheme(v)
  BY <1>2 DEF SetTheme, Upsert, Form
<1>3. CASE r.op = "delete"
  BY <1>3
<1> QED BY <1>1, <1>2, <1>3, ConstantAssumption

LEMMA ViewFacts ==
  ASSUME NEW ts \in Tables
  PROVE  /\ View(ts) \in Tables
         /\ \A t \in Table : View(ts)[t] = ListOf(ts, t)
         /\ \A t \in Table : \A i \in KeysOf[t] : View(ts)[t][i] = Read(t, ts[t][i])
<1>1. \A t \in Table : View(ts)[t] = ListOf(ts, t)
  BY DEF View
<1>2. \A t \in Table : ListOf(ts, t) \in [KeysOf[t] -> Rows[t] \union {NoRow}]
  BY ListOfType
<1>3. View(ts) \in Tables
  BY <1>2, TableFacts DEF View, Tables, Table, KeysOf
<1>4. \A t \in Table : \A i \in KeysOf[t] : View(ts)[t][i] = Read(t, ts[t][i])
  BY <1>1 DEF ListOf
<1> QED BY <1>1, <1>3, <1>4

LEMMA UpdateAt ==
  ASSUME NEW ts \in Tables, NEW t \in Table, NEW i \in KeysOf[t],
         NEW row \in Rows[t] \union {NoRow}
  PROVE  LET us == [ts EXCEPT ![t][i] = row]
         IN  \A u \in Table : \A k \in KeysOf[u] :
               us[u][k] = IF u = t /\ k = i THEN row ELSE ts[u][k]
<1> DEFINE us == [ts EXCEPT ![t][i] = row]
<1>1. t \in DOMAIN ts /\ i \in DOMAIN ts[t]
  BY TablesFacts, TableFacts DEF Tables
<1>2. us[t] = [ts[t] EXCEPT ![i] = row] /\ \A u \in Table : u # t => us[u] = ts[u]
  BY <1>1, TableFacts DEF Tables
<1> HIDE DEF us
<1>3. us[t][i] = row /\ \A k \in KeysOf[t] : k # i => us[t][k] = ts[t][k]
  BY <1>1, <1>2
<1>4. \A u \in Table : \A k \in KeysOf[u] :
        us[u][k] = IF u = t /\ k = i THEN row ELSE ts[u][k]
  BY <1>2, <1>3
<1> QED BY <1>4 DEF us

\* A mutation does to the list what it does to the table.
LEMMA ViewApplied ==
  ASSUME NEW ts \in Tables, NEW r \in Request, NEW ok \in BOOLEAN
  PROVE  View(Applied(ts, r, ok)) = Applied(View(ts), r, ok)
<1>1. CASE ~ok \/ r.op = "list"
  BY <1>1 DEF Applied
<1>2. CASE ~(~ok \/ r.op = "list")
  <2> DEFINE row == IF r.op = "upsert" THEN Converted(r.table, r.form) ELSE NoRow
             t == r.table
             i == r.id
             vs == View(ts)
  <2>1. /\ Applied(ts, r, ok) = [ts EXCEPT ![t][i] = row]
        /\ Applied(vs, r, ok) = [vs EXCEPT ![t][i] = row]
    BY <1>2 DEF Applied
  <2>2. t \in Table /\ i \in KeysOf[t] /\ row \in Rows[t] \union {NoRow}
    BY <1>2, RequestFacts
  <2>3. Read(t, row) = row
    <3>1. CASE r.op = "upsert"
      <4>1. r.form \in Form[t]
        BY <3>1, UpsertForm
      <4> QED BY <2>2, <3>1, <4>1, ReadConverted
    <3>2. CASE r.op # "upsert"
      BY <3>2 DEF Read
    <3> QED BY <3>1, <3>2
  <2> HIDE DEF row, t, i
  <2> DEFINE us == [ts EXCEPT ![t][i] = row]
             ws == [vs EXCEPT ![t][i] = row]
  <2>4. vs \in Tables /\ us \in Tables /\ ws \in Tables
    BY <2>2, ViewFacts, TablesUpdate
  <2>5. \A u \in Table : \A k \in KeysOf[u] :
          us[u][k] = IF u = t /\ k = i THEN row ELSE ts[u][k]
    BY <2>2, UpdateAt
  <2>6. \A u \in Table : \A k \in KeysOf[u] :
          ws[u][k] = IF u = t /\ k = i THEN row ELSE vs[u][k]
    BY <2>2, <2>4, UpdateAt
  <2>7. \A u \in Table : \A k \in KeysOf[u] : vs[u][k] = Read(u, ts[u][k])
    BY ViewFacts
  <2> HIDE DEF us, ws, vs
  <2>8. View(us) \in Tables /\ \A u \in Table : \A k \in KeysOf[u] : View(us)[u][k] = Read(u, us[u][k])
    BY <2>4, ViewFacts
  <2>9. \A u \in Table : \A k \in KeysOf[u] : View(us)[u][k] = ws[u][k]
    BY <2>3, <2>5, <2>6, <2>7, <2>8
  <2>10. View(us) = ws
    BY <2>4, <2>8, <2>9, TablesEqual
  <2> QED BY <2>1, <2>10 DEF us, ws, vs
<1> QED BY <1>1, <1>2

\* The answer depends on what a list shows only.
LEMMA ViewAnswered ==
  ASSUME NEW ts \in Tables, NEW r \in Request, NEW ok \in BOOLEAN
  PROVE  Answered(View(ts), r, ok) = Answered(ts, r, ok)
<1> DEFINE vs == View(ts)
           t == r.table
<1>1. t \in Table /\ vs \in Tables
  BY RequestFacts, ViewFacts
<1>2. ListOf(vs, t) = ListOf(ts, t)
  <2>1. \A i \in KeysOf[t] : Read(t, vs[t][i]) = Read(t, ts[t][i])
    <3> SUFFICES ASSUME NEW i \in KeysOf[t] PROVE Read(t, vs[t][i]) = Read(t, ts[t][i])
      OBVIOUS
    <3>1. ts[t][i] \in Rows[t] \union {NoRow}
      BY <1>1, TablesFacts
    <3>2. vs[t][i] = Read(t, ts[t][i])
      BY <1>1, ViewFacts
    <3> QED BY <1>1, <3>1, <3>2, ReadFacts
  <2> HIDE DEF vs, t
  <2> QED BY <2>1 DEF ListOf
<1>3. r.op # "list" => (vs[t][r.id] # NoRow <=> ts[t][r.id] # NoRow)
  <2> SUFFICES ASSUME r.op # "list" PROVE vs[t][r.id] # NoRow <=> ts[t][r.id] # NoRow
    OBVIOUS
  <2>1. r.id \in KeysOf[t]
    BY RequestFacts
  <2>2. ts[t][r.id] \in Rows[t] \union {NoRow}
    BY <1>1, <2>1, TablesFacts
  <2>3. vs[t][r.id] = Read(t, ts[t][r.id])
    BY <1>1, <2>1, ViewFacts
  <2> QED BY <1>1, <2>2, <2>3, ReadFacts
<1>4. CASE r.op = "list"
  <2>1. \A us : Answered(us, r, ok) =
          [status |-> "rows", rows |-> IF ok THEN ListOf(us, t) ELSE Empty[t]]
    BY <1>4 DEF Answered
  <2> HIDE DEF vs, t
  <2>2. Answered(vs, r, ok) = Answered(ts, r, ok)
    BY <1>2, <2>1
  <2> QED BY <2>2 DEF vs
<1>5. CASE r.op # "list"
  <2> DEFINE found(us) == r.op = "upsert" \/ t = "favorites" \/ us[t][r.id] # NoRow
  <2>1. \A us : Answered(us, r, ok) =
          [status |-> IF ok /\ found(us) THEN "Success" ELSE "Error", rows |-> Empty[t]]
    BY <1>5 DEF Answered
  <2>2. found(vs) <=> found(ts)
    BY <1>3, <1>5
  <2> HIDE DEF found, vs, t
  <2>3. Answered(vs, r, ok) = Answered(ts, r, ok)
    BY <2>1, <2>2
  <2> QED BY <2>3 DEF vs
<1> QED BY <1>4, <1>5

\* Before migration 7 no alarm has a policy, so that giving all of them the
\* policy Suppress is what a read made of it anyway.
OldRows ==
  version < 7 => \A i \in Id : tables.alarms[i] # NoRow => tables.alarms[i][2] = "absent"

LEMMA ViewMigrated ==
  ASSUME TypeOK, OldRows, version < Latest
  PROVE  View(Migrated(tables, version + 1)) = View(tables)
<1> DEFINE v == version + 1
           us == Migrated(tables, v)
<1>1. tables \in Tables /\ us \in Tables
  BY MigratedType DEF TypeOK
<1>2. CASE v # 7
  BY <1>2 DEF Migrated
<1>3. CASE v = 7
  <2>1. us = [tables EXCEPT !.alarms = [i \in Id |->
                IF tables.alarms[i] = NoRow THEN NoRow ELSE <<tables.alarms[i][1], "Suppress">>]]
    BY <1>3 DEF Migrated
  <2>2. /\ \A i \in Id : us.alarms[i] = IF tables.alarms[i] = NoRow THEN NoRow
                                        ELSE <<tables.alarms[i][1], "Suppress">>
        /\ \A u \in Table : u # "alarms" => us[u] = tables[u]
    BY <1>1, <2>1, TableFacts DEF Tables
  <2>3. version < 7
    BY <1>3 DEF TypeOK
  <2> HIDE DEF us, v
  <2>4. \A i \in Id : Read("alarms", us.alarms[i]) = Read("alarms", tables.alarms[i])
    <3> SUFFICES ASSUME NEW i \in Id
                 PROVE  Read("alarms", us.alarms[i]) = Read("alarms", tables.alarms[i])
      OBVIOUS
    <3>1. CASE tables.alarms[i] = NoRow
      BY <2>2, <3>1
    <3>2. CASE tables.alarms[i] # NoRow
      <4> DEFINE a == tables.alarms[i]
                 b == <<a[1], "Suppress">>
      <4>1. a[2] = "absent" /\ us.alarms[i] = b /\ b[1] = a[1] /\ b[2] = "Suppress"
        BY <2>2, <2>3, <3>2 DEF OldRows
      <4>2. b # NoRow
        <5>1. a \in Rows.alarms
          BY <1>1, <3>2 DEF Tables
        <5>2. b \in Rows.alarms
          BY <5>1 DEF Rows, HolidayPolicy
        <5>3. NoRow \notin Rows.alarms
          BY ConstantFacts, TableFacts
        <5> QED BY <5>2, <5>3
      <4>3. PolicyFromDb(a[2]) = "Suppress" /\ PolicyFromDb(b[2]) = "Suppress"
        BY <4>1 DEF PolicyFromDb, HolidayPolicy
      <4> HIDE DEF b
      <4> QED BY <3>2, <4>1, <4>2, <4>3 DEF Read
    <3> QED BY <3>1, <3>2
  <2>5. \A u \in Table : \A i \in KeysOf[u] : Read(u, us[u][i]) = Read(u, tables[u][i])
    BY <2>2, <2>4, TableFacts
  <2>6. \A u \in Table : \A i \in KeysOf[u] : View(us)[u][i] = View(tables)[u][i]
    BY <1>1, <2>5, ViewFacts
  <2>7. View(us) = View(tables)
    BY <1>1, <2>6, ViewFacts, TablesEqual
  <2> QED BY <2>7 DEF us, v
<1> QED BY <1>2, <1>3

\* The web is served, and the panel there, only once every migration is done.
Migrating == phase \in {"starting", "up"} => version = Latest

LEMMA BootingInit == Init => OldRows /\ Migrating
<1> SUFFICES ASSUME Init PROVE OldRows /\ Migrating
  OBVIOUS
<1>1. PICK old \in {u \in Listed : Exists[u] <= version} \union {"kv_config"} :
        tables = [Empty EXCEPT ![old] = Old(old, version)]
  BY DEF Init
<1>2. CASE old = "alarms"
  <2>1. tables.alarms = Old("alarms", version)
    BY <1>1, <1>2, TableFacts DEF Empty
  <2>2. \A i \in Id : Old("alarms", version)[i] = <<"once", IF version < 7 THEN "absent" ELSE "Ignore">>
    BY DEF Old
  <2>3. version < 7 => \A i \in Id : tables.alarms[i] = <<"once", "absent">>
    BY <2>1, <2>2
  <2>4. OldRows
    BY <2>3 DEF OldRows
  <2> QED BY <2>4 DEF Migrating, Init
<1>3. CASE old # "alarms"
  <2>1. tables.alarms = Empty.alarms
    BY <1>1, <1>3, TableFacts DEF Empty
  <2>2. \A i \in Id : Empty.alarms[i] = NoRow
    BY TableFacts DEF Empty
  <2> QED BY <2>1, <2>2 DEF OldRows, Migrating, Init
<1> QED BY <1>2, <1>3

LEMMA BootingStep ==
  ASSUME TypeOK, OldRows, Migrating, [Next]_vars
  PROVE  OldRows' /\ Migrating'
<1> USE DEF Latest
<1>1. CASE UNCHANGED vars
  BY <1>1 DEF vars, disk, OldRows, Migrating
<1>2. CASE Dispatch \/ Push \/ Cycle
  <2>1. phase = "up" /\ version = 8 /\ UNCHANGED <<phase, version>>
    BY <1>2 DEF Dispatch, Push, Cycle, disk, Migrating
  <2> QED BY <2>1 DEF OldRows, Migrating
<1>3. CASE Start
  <2>1. phase = "starting" /\ version = 8 /\ UNCHANGED version
    BY <1>3 DEF Start, Migrating
  <2> QED BY <2>1 DEF OldRows, Migrating
<1>4. CASE Open \/ Exit
  <2>1. phase' \in {"off", "migrating"} /\ UNCHANGED <<version, tables>>
    BY <1>4 DEF Open, Exit, Gone, disk
  <2> QED BY <2>1 DEF OldRows, Migrating
<1>5. CASE Booting
  <2>1. version = 8 /\ UNCHANGED <<version, tables>>
    BY <1>5 DEF Booting, Bootstrap, disk, TypeOK
  <2> QED BY <2>1 DEF OldRows, Migrating
<1>6. CASE \E c \in Client : Ask(c) \/ Return(c) \/ GiveUp(c)
  <2>1. UNCHANGED <<phase, version, tables>>
    BY <1>6 DEF Ask, Return, GiveUp, disk
  <2> QED BY <2>1 DEF OldRows, Migrating
<1>7. CASE Migrate
  <2>1. CASE UNCHANGED disk /\ Gone
    BY <2>1 DEF disk, Gone, OldRows, Migrating
  <2>2. CASE /\ tables' = Migrated(tables, version + 1) /\ version' = version + 1
             /\ UNCHANGED phase
    <3>1. phase' = "migrating"
      BY <1>7, <2>2 DEF Migrate
    <3>2. version' < 7 => tables' = tables /\ version < 7
      BY <2>2 DEF Migrated, TypeOK
    <3> QED BY <3>1, <3>2 DEF OldRows, Migrating
  <2> QED BY <1>7, <2>1, <2>2 DEF Migrate
<1> QED BY <1>1, <1>2, <1>3, <1>4, <1>5, <1>6, <1>7 DEF Next
-----------------------------------------------------------------------------
(* The line again: what those who gave up leave in it, and that a client's   *)
(* present request is the last of its own.                                   *)

IsLast(l, i) == \A j \in i + 1..Len(l) : l[j].client # l[i].client

Kept(l) ==
  /\ \A c \in Client : \E s \in Seq(Request) : Lists(s, l, c)
  /\ \A i \in 1..Len(l) : l[i].wanted => IsLast(l, i)

LEMMA KeptLists ==
  ASSUME NEW l \in Seq(Entry), Kept(l), NEW c \in Client
  PROVE  GivenUp(l, c) \in Seq(Request) /\ Lists(GivenUp(l, c), l, c)
<1>1. PICK s \in Seq(Request) : Lists(s, l, c)
  BY DEF Kept
<1> QED BY <1>1, ListsIs

LEMMA KeptNothing ==
  Kept(<<>>) /\ \A c \in Client : GivenUp(<<>>, c) = <<>>
<1>1. <<>> \in Seq(Entry) /\ <<>> \in Seq(Request)
  OBVIOUS
<1>2. \A c \in Client : Lists(<<>>, <<>>, c)
  BY ListsNothing
<1>3. \A c \in Client : GivenUp(<<>>, c) = <<>>
  BY <1>1, <1>2, ListsIs
<1>4. 1..Len(<<>>) = {}
  OBVIOUS
<1> QED BY <1>1, <1>2, <1>3, <1>4 DEF Kept

LEMMA KeptJoin ==
  ASSUME NEW l \in Seq(Entry), Kept(l), NEW c \in Client, NEW r \in Request, Nobody(l, c)
  PROVE  LET m == Append(l, [client |-> c, req |-> r, wanted |-> TRUE])
         IN  Kept(m) /\ \A d \in Client : GivenUp(m, d) = GivenUp(l, d)
<1> DEFINE e == [client |-> c, req |-> r, wanted |-> TRUE]
           m == Append(l, e)
<1>1. e \in Entry /\ e.client = c /\ e.wanted
  BY DEF Entry
<1> HIDE DEF e
<1>2. /\ m \in Seq(Entry) /\ Len(m) = Len(l) + 1 /\ Len(l) \in Nat /\ m[Len(m)] = e
      /\ \A i \in 1..Len(l) : m[i] = l[i]
  BY <1>1
<1>3. \A d \in Client : Lists(GivenUp(l, d), m, d) /\ GivenUp(l, d) \in Seq(Request)
  BY <1>1, KeptLists, ListsJoin
<1> HIDE DEF m
<1>4. \A d \in Client : GivenUp(m, d) = GivenUp(l, d)
  BY <1>2, <1>3, ListsIs
<1>5. ASSUME NEW i \in 1..Len(m), m[i].wanted PROVE IsLast(m, i)
  <2>1. CASE i = Len(m)
    BY <1>2, <2>1 DEF IsLast
  <2>2. CASE i # Len(m)
    <3>1. i \in 1..Len(l) /\ m[i] = l[i] /\ l[i].wanted
      BY <1>2, <1>5, <2>2
    <3>2. l[i].client # c
      BY <3>1 DEF Nobody, Stands
    <3>3. \A j \in i + 1..Len(l) : l[j].client # l[i].client
      BY <3>1 DEF Kept, IsLast
    <3>4. ASSUME NEW j \in i + 1..Len(m) PROVE m[j].client # m[i].client
      <4>1. CASE j = Len(m)
        BY <1>1, <1>2, <3>1, <3>2, <4>1
      <4>2. CASE j # Len(m)
        <5>1. j \in i + 1..Len(l) /\ j \in 1..Len(l)
          BY <1>2, <3>1, <4>2
        <5> QED BY <1>2, <3>1, <3>3, <5>1
      <4> QED BY <4>1, <4>2
    <3> QED BY <3>4 DEF IsLast
  <2> QED BY <2>1, <2>2
<1>6. Kept(m)
  BY <1>3, <1>5 DEF Kept
<1> QED BY <1>4, <1>6 DEF m, e

LEMMA KeptServed ==
  ASSUME NEW l \in Seq(Entry), Kept(l), l # <<>>
  PROVE  /\ Kept(Tail(l))
         /\ \A d \in Client :
              IF Head(l).client = d /\ ~Head(l).wanted
              THEN /\ GivenUp(l, d) # <<>> /\ Head(GivenUp(l, d)) = Head(l).req
                   /\ GivenUp(Tail(l), d) = Tail(GivenUp(l, d))
              ELSE GivenUp(Tail(l), d) = GivenUp(l, d)
         /\ Head(l).wanted => GivenUp(l, Head(l).client) = <<>>
<1> DEFINE m == Tail(l)
           e == Head(l)
<1>1. /\ m \in Seq(Entry) /\ Len(m) = Len(l) - 1 /\ Len(l) \in Nat /\ e = l[1]
      /\ \A i \in 1..Len(m) : m[i] = l[i + 1]
      /\ 1 \in 1..Len(l) /\ e \in Entry
  BY TailFacts
<1>2. ASSUME NEW d \in Client, e.client = d, ~e.wanted
      PROVE  LET s == GivenUp(l, d)
             IN  /\ s # <<>> /\ Head(s) = e.req /\ Tail(s) \in Seq(Request)
                 /\ Lists(Tail(s), m, d)
  BY <1>2, KeptLists, ListsServedOwn
<1>3. ASSUME NEW d \in Client, ~(e.client = d /\ ~e.wanted)
      PROVE  GivenUp(l, d) \in Seq(Request) /\ Lists(GivenUp(l, d), m, d)
  BY <1>3, KeptLists, ListsServedOther
<1> HIDE DEF m, e
<1>4. \A d \in Client : \E s \in Seq(Request) : Lists(s, m, d)
  BY <1>2, <1>3
<1>5. ASSUME NEW i \in 1..Len(m), m[i].wanted PROVE IsLast(m, i)
  <2>1. i + 1 \in 1..Len(l) /\ l[i + 1] = m[i] /\ l[i + 1].wanted
    BY <1>1, <1>5
  <2>2. \A j \in (i + 1) + 1..Len(l) : l[j].client # l[i + 1].client
    BY <2>1 DEF Kept, IsLast
  <2>3. ASSUME NEW j \in i + 1..Len(m) PROVE m[j].client # m[i].client
    <3>1. j + 1 \in (i + 1) + 1..Len(l) /\ j \in 1..Len(m)
      BY <1>1
    <3> QED BY <1>1, <2>1, <2>2, <3>1
  <2> QED BY <2>3 DEF IsLast
<1>6. Kept(m)
  BY <1>4, <1>5 DEF Kept
<1>7. \A d \in Client : IF e.client = d /\ ~e.wanted
        THEN /\ GivenUp(l, d) # <<>> /\ Head(GivenUp(l, d)) = e.req
             /\ GivenUp(m, d) = Tail(GivenUp(l, d))
        ELSE GivenUp(m, d) = GivenUp(l, d)
  BY <1>1, <1>2, <1>3, ListsIs
<1>8. ASSUME e.wanted PROVE GivenUp(l, e.client) = <<>>
  <2>1. e.client \in Client /\ IsLast(l, 1)
    BY <1>1, <1>8 DEF Kept, Entry
  <2>2. Unwanted(l, e.client) = {}
    <3>1. ASSUME NEW i \in Unwanted(l, e.client) PROVE FALSE
      <4>1. i \in 1..Len(l) /\ l[i].client = l[1].client /\ ~l[i].wanted
        BY <1>1, UnwantedFacts
      <4>2. i # 1
        BY <1>1, <1>8, <4>1
      <4>3. i \in 1 + 1..Len(l)
        BY <1>1, <4>1, <4>2
      <4> QED BY <2>1, <4>1, <4>3 DEF IsLast
    <3> QED BY <3>1
  <2> DEFINE s == GivenUp(l, e.client)
  <2>3. s \in Seq(Request) /\ Lists(s, l, e.client)
    BY <2>1, KeptLists
  <2> HIDE DEF s
  <2>4. \E f : f \in [1..Len(s) -> {}]
    BY <2>2, <2>3 DEF Lists, Enumerates
  <2>5. Len(s) = 0
    <3>1. Len(s) \in Nat /\ 1..Len(s) = {}
      BY <2>3, <2>4
    <3>2. Len(s) # 0 => 1 \in 1..Len(s)
      BY <3>1
    <3> QED BY <3>1, <3>2
  <2>6. s = <<>>
    BY <2>3, <2>5
  <2> QED BY <2>6 DEF s
<1> QED BY <1>6, <1>7, <1>8 DEF m, e

LEMMA KeptLeave ==
  ASSUME NEW l \in Seq(Entry), Kept(l), NEW o \in 1..Len(l), l[o].wanted
  PROVE  /\ Kept(LeaveLine(l, o))
         /\ \A d \in Client : GivenUp(LeaveLine(l, o), d) =
              IF l[o].client = d /\ ~(o > ChannelCap) THEN Append(GivenUp(l, d), l[o].req)
              ELSE GivenUp(l, d)
<1> DEFINE m == LeaveLine(l, o)
<1>1. m \in Seq(Entry)
  BY LeaveType
<1>2. CASE o > ChannelCap
  <2>1. m = Without(l, o)
    BY <1>2 DEF LeaveLine
  <2>2. \A d \in Client : Lists(GivenUp(l, d), m, d) /\ GivenUp(l, d) \in Seq(Request)
    BY <2>1, KeptLists, ListsWithdrawn
  <2>3. /\ Len(m) = Len(l) - 1 /\ Len(l) \in Nat
        /\ \A j \in 1..Len(m) : m[j] = IF j < o THEN l[j] ELSE l[j + 1]
    BY <2>1, WithoutFacts
  <2> HIDE DEF m
  <2> DEFINE at(i) == IF i < o THEN i ELSE i + 1
  <2>4. /\ \A i \in 1..Len(m) : at(i) \in 1..Len(l) /\ m[i] = l[at(i)]
        /\ \A i, j \in 1..Len(m) : i < j => at(i) < at(j)
    BY <2>3
  <2> HIDE DEF at
  <2>5. ASSUME NEW i \in 1..Len(m), m[i].wanted PROVE IsLast(m, i)
    <3>1. IsLast(l, at(i)) /\ at(i) \in 1..Len(l)
      BY <2>4, <2>5 DEF Kept
    <3>2. ASSUME NEW j \in i + 1..Len(m) PROVE m[j].client # m[i].client
      <4>1. j \in 1..Len(m) /\ i < j
        BY <2>3
      <4>2. at(j) \in 1..Len(l) /\ at(i) < at(j)
        BY <2>4, <4>1
      <4>3. at(j) \in at(i) + 1..Len(l)
        BY <2>3, <3>1, <4>2
      <4>4. l[at(j)].client # l[at(i)].client
        BY <3>1, <4>3 DEF IsLast
      <4> QED BY <2>4, <4>1, <4>4
    <3> QED BY <3>2 DEF IsLast
  <2>6. Kept(m)
    BY <2>2, <2>5 DEF Kept
  <2>7. \A d \in Client : GivenUp(m, d) = GivenUp(l, d)
    BY <1>1, <2>2, ListsIs
  <2> QED BY <1>2, <2>6, <2>7 DEF m
<1>3. CASE ~(o > ChannelCap)
  <2>1. m = [l EXCEPT ![o].wanted = FALSE]
    BY <1>3 DEF LeaveLine
  <2>2. \A j \in o + 1..Len(l) : l[j].client # l[o].client
    BY DEF Kept, IsLast
  <2> DEFINE t(d) == IF l[o].client = d THEN Append(GivenUp(l, d), l[o].req) ELSE GivenUp(l, d)
  <2>3. \A d \in Client : t(d) \in Seq(Request) /\ Lists(t(d), m, d)
    <3> SUFFICES ASSUME NEW d \in Client PROVE t(d) \in Seq(Request) /\ Lists(t(d), m, d)
      OBVIOUS
    <3> DEFINE s == GivenUp(l, d)
    <3>1. s \in Seq(Request) /\ Lists(s, l, d)
      BY KeptLists
    <3> HIDE DEF s, m
    <3>2. LET b == [l EXCEPT ![o].wanted = FALSE]
              u == IF l[o].client = d THEN Append(s, l[o].req) ELSE s
          IN  u \in Seq(Request) /\ Lists(u, b, d)
      BY <2>2, <3>1, ListsLeftBehind
    <3> QED BY <2>1, <3>2 DEF s
  <2>4. Len(m) = Len(l) /\ \A j \in 1..Len(m) : m[j].client = l[j].client /\ (m[j].wanted => l[j].wanted)
    <3>1. l[o] \in Entry
      OBVIOUS
    <3>2. \A e \in Entry : LET d == [e EXCEPT !.wanted = FALSE]
                           IN  d \in Entry /\ d.client = e.client /\ ~d.wanted
      BY DEF Entry
    <3>3. \A d \in Entry : LET k == [l EXCEPT ![o] = d]
                           IN  /\ Len(k) = Len(l) /\ k[o] = d
                               /\ \A j \in 1..Len(k) : j # o => k[j] = l[j]
      OBVIOUS
    <3>4. m = [l EXCEPT ![o] = [l[o] EXCEPT !.wanted = FALSE]]
      BY <2>1
    <3> HIDE DEF m
    <3> QED BY <3>1, <3>2, <3>3, <3>4
  <2> HIDE DEF m, t
  <2>5. ASSUME NEW i \in 1..Len(m), m[i].wanted PROVE IsLast(m, i)
    <3>1. IsLast(l, i) /\ Len(l) \in Nat
      BY <2>4, <2>5 DEF Kept
    <3>2. \A j \in i + 1..Len(m) : m[j].client # m[i].client
      BY <2>4, <3>1 DEF IsLast
    <3> QED BY <3>2 DEF IsLast
  <2>6. Kept(m)
    BY <2>3, <2>5 DEF Kept
  <2>7. \A d \in Client : GivenUp(m, d) = t(d)
    BY <1>1, <2>3, ListsIs
  <2> QED BY <1>3, <2>6, <2>7 DEF m, t
<1> QED BY <1>2, <1>3
-----------------------------------------------------------------------------
(* The server implements ConfigContract.                                     *)

LEMMA LeaverStands ==
  ASSUME TypeOK, InLine, NEW c \in Client, GiveUp(c)
  PROVE  \/ /\ answers[c] = NoAnswer
            /\ \E k \in 1..Len(line) :
                 /\ line[k].client = c /\ line[k].wanted /\ line[k].req = asked[c]
                 /\ line' = LeaveLine(line, k)
         \/ answers[c] # NoAnswer /\ line' = line
<1>1. DOMAIN line = 1..Len(line)
  BY DEF TypeOK
<1>2. \A i \in 1..Len(line) : Wanted(c, i) <=> Stands(line, c, i)
  BY <1>1 DEF Wanted, Stands
<1>3. asked[c] # NoRequest
  BY DEF GiveUp
<1>4. CASE answers[c] = NoAnswer
  <2>1. PICK k \in 1..Len(line) :
          /\ Stands(line, c, k) /\ line[k].req = asked[c]
          /\ \A j \in 1..Len(line) : Stands(line, c, j) => j = k
    BY <1>3, <1>4 DEF InLine, WaitsFor
  <2>2. (CHOOSE i \in DOMAIN line : Wanted(c, i)) = k
    BY <1>1, <1>2, <2>1
  <2>3. \E i \in DOMAIN line : Wanted(c, i)
    BY <1>1, <1>2, <2>1
  <2>4. line' = LeaveLine(line, k)
    BY <2>2, <2>3 DEF GiveUp
  <2> QED BY <1>4, <2>1, <2>4 DEF Stands
<1>5. CASE answers[c] # NoAnswer
  <2>1. Nobody(line, c)
    BY <1>5 DEF InLine
  <2>2. ~\E i \in DOMAIN line : Wanted(c, i)
    BY <1>1, <1>2, <2>1 DEF Nobody
  <2> QED BY <1>5, <2>2 DEF GiveUp
<1> QED BY <1>4, <1>5

LEMMA KeptInit == Init => Kept(line)
BY KeptNothing DEF Init

LEMMA KeptStep ==
  ASSUME TypeOK, InLine, Kept(line), [Next]_vars
  PROVE  Kept(line)'
<1>1. ASSUME NEW c \in Client, Ask(c) PROVE Kept(line)'
  <2>1. PICK r \in Request :
          line' = Append(line, [client |-> c, req |-> r, wanted |-> TRUE])
    BY <1>1 DEF Ask
  <2>2. Nobody(line, c)
    BY <1>1 DEF Ask, InLine
  <2> QED BY <2>1, <2>2, KeptJoin DEF TypeOK
<1>2. CASE Dispatch
  BY <1>2, KeptServed DEF Dispatch, TypeOK
<1>3. ASSUME NEW c \in Client, GiveUp(c) PROVE Kept(line)'
  BY <1>3, LeaverStands, KeptLeave DEF TypeOK
<1>4. ASSUME Gone PROVE Kept(line)'
  BY <1>4, KeptNothing DEF Gone
<1>5. ASSUME line' = line PROVE Kept(line)'
  BY <1>5
<1> QED BY <1>1, <1>2, <1>3, <1>4, <1>5
        DEF Next, Exit, Migrate, Open, Booting, Bootstrap, Start, Push, Cycle, Return, vars, web

-----------------------------------------------------------------------------

Loose == [c \in Client |-> GivenUp(line, c)]

LEMMA ContractTables ==
  /\ Contract!Table = Table /\ Contract!Empty = Empty /\ Contract!Tables = Tables
  /\ \A ts, r, ok : Contract!Applied(ts, r, ok) = Applied(ts, r, ok)
  /\ \A ts, r, ok : Contract!Answered(ts, r, ok) = Answered(ts, r, ok)
BY DEF Contract!Table, Table, Contract!Empty, Empty, Contract!Tables, Tables,
       Contract!Applied, Applied, Contract!Answered, Answered, Contract!KeysOf, KeysOf,
       Contract!Key, Key, Contract!Rows, Rows, Contract!Converted, Converted,
       Contract!ListOf, ListOf, Contract!Read, Read, Contract!PolicyFromDb, PolicyFromDb,
       Contract!RoleFromDb, RoleFromDb, Contract!FromTypeTag, FromTypeTag,
       Contract!SourceType, SourceType, Contract!HolidayPolicy, HolidayPolicy,
       Contract!Rule, Rule, Contract!Value, Value, Contract!ThemeName, ThemeName,
       Contract!Mode, Mode

LEMMA ContractInit == Init => Contract!Init
<1> SUFFICES ASSUME Init PROVE Contract!Init
  OBVIOUS
<1>1. View(tables) \in Tables
  BY TypeInit, ViewFacts DEF TypeOK
<1>2. Loose = [c \in Client |-> <<>>]
  <2>1. line = <<>>
    BY DEF Init
  <2> QED BY <2>1, KeptNothing DEF Loose
<1>3. /\ asked = [c \in Client |-> NoRequest] /\ answers = [c \in Client |-> NoAnswer]
  BY DEF Init
<1> QED BY <1>1, <1>2, <1>3, ContractTables DEF Contract!Init, Loose

LEMMA LooseSame ==
  ASSUME \A d \in Client : GivenUp(line', d) = GivenUp(line, d)
  PROVE  Loose' = Loose
BY DEF Loose

LEMMA AskContract ==
  ASSUME TypeOK, InLine, Kept(line), NEW c \in Client, Ask(c)
  PROVE  Contract!Ask(c)
<1>1. PICK r \in Request :
        /\ asked' = [asked EXCEPT ![c] = r]
        /\ line' = Append(line, [client |-> c, req |-> r, wanted |-> TRUE])
  BY DEF Ask
<1>2. asked[c] = NoRequest /\ answers' = answers /\ tables' = tables
  BY DEF Ask, disk
<1>3. Nobody(line, c)
  BY <1>2 DEF InLine
<1>4. \A d \in Client : GivenUp(line', d) = GivenUp(line, d)
  BY <1>1, <1>3, KeptJoin DEF TypeOK
<1>5. Loose' = Loose
  BY <1>4, LooseSame
<1>6. View(tables)' = View(tables)
  BY <1>2
<1> QED BY <1>1, <1>2, <1>5, <1>6 DEF Contract!Ask, Loose

LEMMA ReturnContract ==
  ASSUME NEW c \in Client, Return(c)
  PROVE  Contract!Return(c)
<1>1. /\ answers[c] # NoAnswer /\ line' = line /\ tables' = tables
      /\ asked' = [asked EXCEPT ![c] = NoRequest]
      /\ answers' = [answers EXCEPT ![c] = NoAnswer]
  BY DEF Return, disk
<1>2. Loose' = Loose /\ View(tables)' = View(tables)
  BY <1>1 DEF Loose
<1> QED BY <1>1, <1>2 DEF Contract!Return, Loose

LEMMA GiveUpContract ==
  ASSUME TypeOK, InLine, Kept(line), NEW c \in Client, GiveUp(c)
  PROVE  Contract!GiveUp(c)
<1>1. /\ asked[c] # NoRequest /\ tables' = tables
      /\ asked' = [asked EXCEPT ![c] = NoRequest]
      /\ answers' = [answers EXCEPT ![c] = NoAnswer]
  BY DEF GiveUp, disk
<1>2. View(tables)' = View(tables)
  BY <1>1
<1>3. \/ Loose' = Loose
      \/ answers[c] = NoAnswer /\ Loose' = [Loose EXCEPT ![c] = Append(Loose[c], asked[c])]
  <2>1. CASE line' = line
    BY <2>1 DEF Loose
  <2>2. CASE line' # line
    <3>1. PICK k \in 1..Len(line) :
            /\ line[k].client = c /\ line[k].wanted /\ line[k].req = asked[c]
            /\ line' = LeaveLine(line, k)
      BY <2>2, LeaverStands
    <3>2. \A d \in Client : GivenUp(line', d) =
            IF c = d /\ ~(k > ChannelCap) THEN Append(GivenUp(line, d), asked[c])
            ELSE GivenUp(line, d)
      BY <3>1, KeptLeave DEF TypeOK
    <3>3. CASE k > ChannelCap
      BY <3>2, <3>3, LooseSame
    <3>4. CASE ~(k > ChannelCap)
      <4>1. Loose' = [Loose EXCEPT ![c] = Append(Loose[c], asked[c])]
        BY <3>2, <3>4 DEF Loose
      <4>2. answers[c] = NoAnswer
        BY <2>2, LeaverStands
      <4> QED BY <4>1, <4>2
    <3> QED BY <3>3, <3>4
  <2> QED BY <2>1, <2>2
<1> QED BY <1>1, <1>2, <1>3 DEF Contract!GiveUp, Loose

LEMMA DispatchContract ==
  ASSUME TypeOK, InLine, Kept(line), Dispatch
  PROVE  \E c \in Client : Contract!Serve(c) \/ Contract!ServeLoose(c)
<1> DEFINE e == Head(line)
           c == e.client
           r == e.req
<1>1. line # <<>> /\ line' = Tail(line) /\ asked' = asked
  BY DEF Dispatch
<1>2. PICK ok \in BOOLEAN :
        /\ tables' = Applied(tables, r, ok)
        /\ answers' = IF e.wanted THEN [answers EXCEPT ![c] = Answered(tables, r, ok)]
                      ELSE answers
  BY DEF Dispatch
<1>3. e \in Entry /\ c \in Client /\ r \in Request /\ e = line[1] /\ 1 \in 1..Len(line)
  <2>1. e \in Entry /\ e = line[1] /\ 1 \in 1..Len(line)
    BY <1>1, TailFacts DEF TypeOK
  <2> QED BY <2>1 DEF Entry
<1>4. \A d \in Client :
        IF c = d /\ ~e.wanted
        THEN /\ GivenUp(line, d) # <<>> /\ Head(GivenUp(line, d)) = r
             /\ GivenUp(line', d) = Tail(GivenUp(line, d))
        ELSE GivenUp(line', d) = GivenUp(line, d)
  BY <1>1, KeptServed DEF TypeOK
<1>5. e.wanted => GivenUp(line, c) = <<>>
  BY <1>1, KeptServed DEF TypeOK
<1>6. View(tables)' = Applied(View(tables), r, ok)
  <2>1. View(tables)' = View(Applied(tables, r, ok))
    BY <1>2
  <2> QED BY <1>3, <2>1, ViewApplied DEF TypeOK
<1>7. Answered(View(tables), r, ok) = Answered(tables, r, ok)
  BY <1>3, ViewAnswered DEF TypeOK
<1>8. ASSUME e.wanted PROVE Contract!Serve(c)
  <2>1. Stands(line, c, 1)
    BY <1>3, <1>8 DEF Stands
  <2>2. ~Nobody(line, c)
    BY <1>3, <2>1 DEF Nobody
  <2>3. asked[c] # NoRequest /\ answers[c] = NoAnswer /\ WaitsFor(line, c, asked[c])
    BY <1>3, <2>2 DEF InLine
  <2>4. r = asked[c]
    BY <1>1, <1>8, <2>3, ServedOwn DEF TypeOK
  <2>5. Loose' = Loose
    BY <1>4, <1>8, LooseSame
  <2>6. Loose[c] = <<>>
    BY <1>3, <1>5, <1>8 DEF Loose
  <2>7. answers' = [answers EXCEPT ![c] = Answered(View(tables), r, ok)]
    BY <1>2, <1>7, <1>8
  <2> HIDE DEF e
  <2> QED BY <1>1, <1>6, <2>3, <2>4, <2>5, <2>6, <2>7, ContractTables DEF Contract!Serve, Loose
<1>9. ASSUME ~e.wanted PROVE Contract!ServeLoose(c)
  <2>1. /\ Loose[c] # <<>> /\ Head(Loose[c]) = r
    BY <1>3, <1>4, <1>9 DEF Loose
  <2>2. Loose' = [Loose EXCEPT ![c] = Tail(Loose[c])]
    BY <1>3, <1>4, <1>9 DEF Loose
  <2>3. asked' = asked /\ answers' = answers
    BY <1>1, <1>2, <1>9
  <2> HIDE DEF e
  <2> QED BY <1>6, <2>1, <2>2, <2>3, ContractTables DEF Contract!ServeLoose, Loose
<1> QED BY <1>3, <1>8, <1>9

LEMMA GoneContract ==
  ASSUME Gone, UNCHANGED tables
  PROVE  Contract!Cut
<1>1. /\ asked' = [c \in Client |-> NoRequest] /\ answers' = [c \in Client |-> NoAnswer]
      /\ line' = <<>>
  BY DEF Gone
<1>2. Loose' = [c \in Client |-> <<>>]
  BY <1>1, KeptNothing DEF Loose
<1>3. View(tables)' = View(tables)
  OBVIOUS
<1> QED BY <1>1, <1>2, <1>3 DEF Contract!Cut, Loose

LEMMA ListSame ==
  ASSUME NEW xs \in Tables, NEW ys \in Tables, NEW t \in Table, xs[t] = ys[t]
  PROVE  View(xs)[t] = View(ys)[t]
<1>1. View(xs)[t] = ListOf(xs, t) /\ View(ys)[t] = ListOf(ys, t)
  BY ViewFacts
<1>2. ListOf(xs, t) = ListOf(ys, t)
  BY DEF ListOf
<1> QED BY <1>1, <1>2

LEMMA StartContract ==
  ASSUME TypeOK, TypeOK', Start
  PROVE  Contract!Inside \/ UNCHANGED Contract!vars
<1>1. UNCHANGED <<asked, answers, line>>
  BY DEF Start, web
<1>2. Loose' = Loose
  BY <1>1 DEF Loose
<1>3. CASE tables' = tables
  BY <1>1, <1>2, <1>3 DEF Contract!vars, Loose
<1>4. CASE tables' # tables
  <2>1. /\ tables.favorites = Empty.favorites
        /\ tables' = [tables EXCEPT !.favorites[DefaultFav] = <<"Radio">>]
    BY <1>4 DEF Start, Seed
  <2>2. \A t \in Table : t # "favorites" => tables'[t] = tables[t]
    BY <2>1, TableFacts DEF TypeOK, Tables
  <2>3. \A t \in Table : t # "favorites" => View(tables)'[t] = View(tables)[t]
    BY <2>2, ListSame DEF TypeOK
  <2>4. View(tables)["favorites"] = Empty["favorites"]
    <3>1. View(tables)["favorites"] = ListOf(tables, "favorites")
      BY ViewFacts, TableFacts DEF TypeOK
    <3>2. ListOf(tables, "favorites") = [i \in Id |-> tables.favorites[i]]
      BY TableFacts DEF ListOf, Read
    <3>3. tables.favorites = [i \in Id |-> NoRow] /\ Empty["favorites"] = [i \in Id |-> NoRow]
      BY <2>1, TableFacts DEF Empty
    <3> QED BY <3>1, <3>2, <3>3
  <2>5. "favorites" \in Table
    BY TableFacts
  <2>6. Contract!Inside
    BY <1>1, <1>2, <2>3, <2>4, <2>5, ContractTables DEF Contract!Inside, Loose
  <2> QED BY <2>6
<1> QED BY <1>3, <1>4

LEMMA CycleContract ==
  ASSUME TypeOK, TypeOK', Cycle
  PROVE  Contract!Inside
<1>1. UNCHANGED <<asked, answers, line>>
  BY DEF Cycle, web
<1>2. Loose' = Loose
  BY <1>1 DEF Loose
<1>3. PICK written \in SUBSET ThemeKey :
        tables' = [tables EXCEPT !.kv_config =
                     Persist(tables.kv_config, theme', mode', written)]
  BY DEF Cycle
<1>4. \A t \in Table : t # "kv_config" => tables'[t] = tables[t]
  BY <1>3, TableFacts DEF TypeOK, Tables
<1>5. \A t \in Table : t # "kv_config" => View(tables)'[t] = View(tables)[t]
  BY <1>4, ListSame DEF TypeOK
<1>6. tables'["kv_config"]["theme_name"] = tables["kv_config"]["theme_name"]
  <2>1. tables'["kv_config"] = Persist(tables.kv_config, theme', mode', written)
    BY <1>3 DEF TypeOK, Tables
  <2>2. "theme_name" \in Key /\ "theme_name" \notin written
    BY DEF Key, ThemeKey
  <2>3. \A kv, th, md : Persist(kv, th, md, written)["theme_name"] = kv["theme_name"]
    BY <2>2 DEF Persist
  <2> QED BY <2>1, <2>3
<1>7. View(tables)'["kv_config"]["theme_name"] = View(tables)["kv_config"]["theme_name"]
  <2>1. "kv_config" \in Table /\ "theme_name" \in KeysOf["kv_config"]
    BY TableFacts DEF Key
  <2>2. \A ts \in Tables : View(ts)["kv_config"]["theme_name"] = ts["kv_config"]["theme_name"]
    BY <2>1, ViewFacts DEF Read
  <2> QED BY <1>6, <2>2 DEF TypeOK
<1>8. "kv_config" \in Table
  BY TableFacts
<1> QED BY <1>1, <1>2, <1>5, <1>7, <1>8, ContractTables DEF Contract!Inside, Loose

LEMMA MigrateContract ==
  ASSUME TypeOK, OldRows, Migrate
  PROVE  Contract!Cut \/ UNCHANGED Contract!vars
<1>1. CASE Gone /\ UNCHANGED disk
  BY <1>1, GoneContract DEF disk
<1>2. CASE tables' = Migrated(tables, version + 1) /\ UNCHANGED web
  <2>1. View(tables)' = View(tables)
    <3>1. View(tables)' = View(Migrated(tables, version + 1))
      BY <1>2
    <3> QED BY <3>1, ViewMigrated DEF Migrate
  <2>2. Loose' = Loose /\ asked' = asked /\ answers' = answers
    BY <1>2 DEF Loose, web
  <2> QED BY <2>1, <2>2 DEF Contract!vars, Loose
<1> QED BY <1>1, <1>2 DEF Migrate

LEMMA ContractStep ==
  ASSUME TypeOK, TypeOK', InLine, Kept(line), OldRows, [Next]_vars
  PROVE  [Contract!Next]_(Contract!vars)
<1>1. ASSUME NEW c \in Client, Ask(c) \/ Return(c) \/ GiveUp(c) PROVE Contract!Next
  BY <1>1, AskContract, ReturnContract, GiveUpContract DEF Contract!Next
<1>2. CASE Dispatch
  BY <1>2, DispatchContract DEF Contract!Next
<1>3. CASE Exit
  BY <1>3, GoneContract DEF Contract!Next, Exit, disk
<1>4. CASE Migrate
  BY <1>4, MigrateContract DEF Contract!Next
<1>5. CASE Start
  BY <1>5, StartContract DEF Contract!Next
<1>6. CASE Cycle
  BY <1>6, CycleContract DEF Contract!Next
<1>7. CASE Open \/ Booting \/ Push \/ UNCHANGED vars
  <2>1. UNCHANGED <<tables, asked, answers, line>>
    BY <1>7 DEF Open, Booting, Bootstrap, Push, vars, disk, web
  <2>2. Loose' = Loose /\ View(tables)' = View(tables)
    BY <2>1 DEF Loose
  <2> QED BY <2>1, <2>2 DEF Contract!vars, Loose
<1> QED BY <1>1, <1>2, <1>3, <1>4, <1>5, <1>6, <1>7 DEF Next

-----------------------------------------------------------------------------
(* Theorems. *)

IInv ==
  /\ TypeOK /\ InLine /\ SchemaIsVersion /\ Remembered
  /\ Kept(line) /\ OldRows /\ Migrating

LEMMA Invariance == Spec => []IInv
<1>1. Init => IInv
  BY TypeInit, InLineInit, SchemaInit, RememberedInit, KeptInit, BootingInit DEF IInv
<1>2. IInv /\ [Next]_vars => IInv'
  BY TypeStep, InLineStep, SchemaStep, RememberedStep, KeptStep, BootingStep DEF IInv
<1>3. QED
  BY <1>1, <1>2, PTL DEF Spec

\* Every variable keeps its type: whatever the page puts into a form, only
\* rows that can be read come into the tables (the From<...Dto> conversions).
THEOREM TypeCorrect == Spec => []TypeOK
BY Invariance, PTL DEF IInv

\* A handler waits exactly while its request stands in the line, once,
\* whoever hangs up and asks again (WebCommandSender::send).
THEOREM WaitingIsInLine == Spec => []WaitingStandsInLine
<1>1. IInv => WaitingStandsInLine
  BY InLineMeans DEF IInv
<1>2. QED
  BY <1>1, Invariance, PTL

\* No cut-off or failed start leaves the schema ahead of its version
\* (run_migrations).
THEOREM SchemaAgrees == Spec => []SchemaIsVersion
BY Invariance, PTL DEF IInv

\* A start that reads a key finds what it held before.
LEMMA LoadedAsRead ==
  ASSUME NEW kv, NEW unread
  PROVE  /\ "theme" \notin unread => Loaded(kv, unread).theme = Loaded(kv, {}).theme
         /\ "theme_mode" \notin unread => Loaded(kv, unread).mode = Loaded(kv, {}).mode
BY DEF Loaded

\* Whatever fails to be written or read, a start brings back each of theme and
\* mode as the panel last showed it unless that very key was not written at the
\* last tap or is not read now (ThemeController::load and persist).
THEOREM StartRestores == Spec => StartRestoresTheme
<1> DEFINE Restores == \A unread \in SUBSET ThemeKey : Bootstrap(unread) =>
                         /\ theme' = chosen.theme \/ "theme" \in unsaved \union unread
                         /\ mode' = chosen.mode \/ "theme_mode" \in unsaved \union unread
<1>1. IInv => Restores
  <2> SUFFICES ASSUME IInv, NEW unread \in SUBSET ThemeKey, Bootstrap(unread)
               PROVE  /\ theme' = chosen.theme \/ "theme" \in unsaved \union unread
                      /\ mode' = chosen.mode \/ "theme_mode" \in unsaved \union unread
    OBVIOUS
  <2>1. /\ theme' = Loaded(tables.kv_config, unread).theme
        /\ mode' = Loaded(tables.kv_config, unread).mode
    BY DEF Bootstrap
  <2>2. QED
    BY <2>1, LoadedAsRead DEF IInv, Remembered
<1>2. Spec => [][Restores]_vars
  <2> HIDE DEF Restores
  <2>1. QED
    BY <1>1, Invariance, PTL DEF Spec
<1>3. QED
  BY <1>2 DEF StartRestoresTheme

\* Every behaviour of the server, its queue, hang-ups, exits and starts is one
\* of the contract: each request takes effect at one moment between question
\* and answer, at most once and in its client's order (web_config.rs,
\* dispatch_web_cmd), and no migration changes what a list shows.
THEOREM ServerKeepsContract == Spec => ImplementsContract
<1>1. Init => Contract!Init
  BY ContractInit
<1>2. IInv /\ IInv' /\ [Next]_vars => [Contract!Next]_(Contract!vars)
  BY ContractStep DEF IInv
<1> QED BY <1>1, <1>2, Invariance, PTL DEF Spec, ImplementsContract, Contract!Spec
=============================================================================
