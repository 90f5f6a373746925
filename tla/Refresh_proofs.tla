---------------------------- MODULE Refresh_proofs ----------------------------
(***************************************************************************)
(* The safety of the weather refresh and of the calendar's fetches and     *)
(* pairings, for channels of any capacity and any set of cities.  Both     *)
(* are users of CommandWorker: what its steps do to the requests under way *)
(* is proved first, for any kinds of requests, and each specification's    *)
(* proof rests on it.  Nothing is said of the two together.                *)
(***************************************************************************)
EXTENDS WeatherRefresh, CalendarRefresh, SequenceTheorems, TLAPS

-----------------------------------------------------------------------------
(* The worker. *)

Request == [kind : Kind \union {"DeviceCode", "ShutdownRequested"},
            arg : Arg \union {NoArg}]

\* q is p with one request more, at place n.
OneMore(p, q, n) ==
  /\ n \in 1 .. Len(q) /\ Len(q) = Len(p) + 1
  /\ \A i \in 1 .. Len(p) : q[IF i < n THEN i ELSE i + 1] = p[i]

\* A request more or less counts for its own kind only.
LEMMA OneMoreCounts ==
  ASSUME NEW p \in Seq(Request), NEW q \in Seq(Request), NEW n, NEW kinds,
         OneMore(p, q, n)
  PROVE  /\ q[n].kind \notin kinds =>
              /\ RequestsIn(q, kinds) = RequestsIn(p, kinds)
              /\ SingleIn(q, kinds) <=> SingleIn(p, kinds)
         /\ q[n].kind \in kinds =>
              /\ RequestsIn(q, kinds) = RequestsIn(p, kinds) \union {q[n]}
              /\ SingleIn(q, kinds) <=> RequestsIn(p, kinds) = {}
<1> DEFINE above(i) == IF i < n THEN i ELSE i + 1
           below(i) == IF i < n THEN i ELSE i - 1
<1>n. n \in Nat /\ Len(p) \in Nat /\ Len(q) = Len(p) + 1 /\ n \in 1 .. Len(q)
  BY DEF OneMore
<1>1. \A i \in 1 .. Len(p) : above(i) \in 1 .. Len(q) /\ above(i) # n /\ q[above(i)] = p[i]
  BY <1>n DEF OneMore
<1>2. \A i \in 1 .. Len(q) : i # n =>
        below(i) \in 1 .. Len(p) /\ above(below(i)) = i /\ q[i] = p[below(i)]
  BY <1>n DEF OneMore
<1>3. \A i, j \in 1 .. Len(p) : above(i) = above(j) => i = j
  BY <1>n
<1>4. \A i, j \in 1 .. Len(q) : i # n /\ j # n /\ below(i) = below(j) => i = j
  BY <1>n
<1> HIDE DEF above, below
<1>5. RequestsIn(p, kinds) \subseteq RequestsIn(q, kinds)
  BY <1>1 DEF RequestsIn
<1>6. RequestsIn(q, kinds) \subseteq RequestsIn(p, kinds) \union {q[n]}
  BY <1>2 DEF RequestsIn
<1>7. ASSUME q[n].kind \notin kinds
      PROVE  /\ RequestsIn(q, kinds) = RequestsIn(p, kinds)
             /\ SingleIn(q, kinds) <=> SingleIn(p, kinds)
  <2>1. RequestsIn(q, kinds) \subseteq RequestsIn(p, kinds)
    BY <1>2, <1>7 DEF RequestsIn
  <2>2. SingleIn(q, kinds) => SingleIn(p, kinds)
    BY <1>1, <1>3 DEF SingleIn
  <2>3. SingleIn(p, kinds) => SingleIn(q, kinds)
    BY <1>2, <1>4, <1>7 DEF SingleIn
  <2> QED BY <1>5, <2>1, <2>2, <2>3
<1>8. ASSUME q[n].kind \in kinds
      PROVE  /\ RequestsIn(q, kinds) = RequestsIn(p, kinds) \union {q[n]}
             /\ SingleIn(q, kinds) <=> RequestsIn(p, kinds) = {}
  <2>1. q[n] \in RequestsIn(q, kinds)
    BY <1>8, <1>n DEF RequestsIn
  <2>2. ASSUME SingleIn(q, kinds) PROVE RequestsIn(p, kinds) = {}
    <3> SUFFICES ASSUME NEW i \in 1 .. Len(p), p[i].kind \in kinds PROVE FALSE
      BY DEF RequestsIn
    <3> QED BY <1>1, <1>n, <1>8, <2>2 DEF SingleIn
  <2>3. ASSUME RequestsIn(p, kinds) = {} PROVE SingleIn(q, kinds)
    <3>1. \A i \in 1 .. Len(p) : p[i].kind \notin kinds
      BY <2>3 DEF RequestsIn
    <3> QED BY <3>1, <1>2 DEF SingleIn
  <2> QED BY <1>5, <1>6, <2>1, <2>2, <2>3
<1> QED BY <1>7, <1>8

\* The pipeline of CommandWorker, as a function of what it is made of.
PipeOf(rs, j, cs) == RequestsOf(rs) \o j \o cs

LEMMA CommandIsRequest == Command \subseteq Request
BY DEF Command, Request

LEMMA Concatenated ==
  ASSUME NEW s \in Seq(Request), NEW t \in Seq(Request)
  PROVE  /\ s \o t \in Seq(Request) /\ Len(s \o t) = Len(s) + Len(t)
         /\ \A i \in 1 .. Len(s) + Len(t) :
              (s \o t)[i] = IF i <= Len(s) THEN s[i] ELSE t[i - Len(s)]
BY ConcatProperties

\* The pipeline p, place by place.
Holds(p, rs, j, cs) ==
  /\ p \in Seq(Request)
  /\ Len(p) = Len(rs) + Len(j) + Len(cs)
  /\ \A i \in 1 .. Len(rs) + Len(j) + Len(cs) :
       p[i] = IF i <= Len(rs) THEN Cmd(rs[i].kind, rs[i].arg)
              ELSE IF i <= Len(rs) + Len(j) THEN j[i - Len(rs)]
              ELSE cs[i - (Len(rs) + Len(j))]

LEMMA Places ==
  ASSUME NEW rs \in Seq(Reply), NEW j \in Seq(Command), NEW cs \in Seq(Command)
  PROVE  Holds(PipeOf(rs, j, cs), rs, j, cs)
<1> DEFINE q == RequestsOf(rs)
<1>1. Len(rs) \in Nat /\ Len(j) \in Nat /\ Len(cs) \in Nat
  OBVIOUS
<1>2. ASSUME NEW i \in 1 .. Len(rs)
      PROVE  Cmd(rs[i].kind, rs[i].arg) \in Request
  <2>1. rs[i] \in Reply OBVIOUS
  <2> QED BY <2>1 DEF Reply, Request, Cmd
<1>3. q \in Seq(Request) /\ Len(q) = Len(rs)
      /\ \A i \in 1 .. Len(rs) : q[i] = Cmd(rs[i].kind, rs[i].arg)
  BY <1>1, <1>2 DEF RequestsOf
<1>4. j \in Seq(Request) /\ cs \in Seq(Request)
  BY CommandIsRequest
<1> HIDE DEF q
<1> DEFINE m == q \o j
<1>5. m \in Seq(Request) /\ Len(m) = Len(q) + Len(j)
      /\ \A i \in 1 .. Len(q) + Len(j) :
           m[i] = IF i <= Len(q) THEN q[i] ELSE j[i - Len(q)]
  BY <1>3, <1>4, Concatenated
<1> HIDE DEF m
<1>6. /\ m \o cs \in Seq(Request) /\ Len(m \o cs) = Len(m) + Len(cs)
      /\ \A i \in 1 .. Len(m) + Len(cs) :
           (m \o cs)[i] = IF i <= Len(m) THEN m[i] ELSE cs[i - Len(m)]
  BY ONLY <1>4, <1>5, Concatenated
<1>7. PipeOf(rs, j, cs) = m \o cs BY DEF PipeOf, q, m
<1>8. ASSUME NEW i \in 1 .. Len(rs) + Len(j) + Len(cs)
      PROVE  (m \o cs)[i] = IF i <= Len(rs) THEN Cmd(rs[i].kind, rs[i].arg)
                            ELSE IF i <= Len(rs) + Len(j) THEN j[i - Len(rs)]
                            ELSE cs[i - (Len(rs) + Len(j))]
  <2>1. (m \o cs)[i] = IF i <= Len(rs) + Len(j) THEN m[i]
                       ELSE cs[i - (Len(rs) + Len(j))]
    BY <1>1, <1>3, <1>5, <1>6
  <2>2. i <= Len(rs) + Len(j) =>
          m[i] = IF i <= Len(rs) THEN q[i] ELSE j[i - Len(rs)]
    BY <1>1, <1>3, <1>5
  <2>3. i <= Len(rs) => q[i] = Cmd(rs[i].kind, rs[i].arg)
    BY <1>1, <1>3
  <2>4. i <= Len(rs) => i <= Len(rs) + Len(j) BY <1>1
  <2> QED BY <2>1, <2>2, <2>3, <2>4
<1>9. (m \o cs) \in Seq(Request) /\ Len(m \o cs) = Len(rs) + Len(j) + Len(cs)
  BY <1>1, <1>3, <1>5, <1>6
<1> QED BY <1>7, <1>8, <1>9 DEF Holds

\* Two pipelines with the same requests at the same places are the same.
LEMMA SamePipeline ==
  ASSUME NEW p \in Seq(Request), NEW q \in Seq(Request), Len(p) = Len(q),
         \A i \in 1 .. Len(p) : p[i] = q[i]
  PROVE  p = q
OBVIOUS

\* t is s with e appended.
Longer(t, s, e) == t = Append(s, e)

\* A command that is queued comes last.
LEMMA QueuedIsLast ==
  ASSUME NEW rs \in Seq(Reply), NEW j \in Seq(Command), NEW cs \in Seq(Command),
         NEW c \in Command, NEW cs2, Longer(cs2, cs, c), NEW p, NEW q,
         Holds(p, rs, j, cs), Holds(q, rs, j, cs2)
  PROVE  OneMore(p, q, Len(q)) /\ q[Len(q)] = c
<1> DEFINE n == Len(rs) + Len(j)
<1>1. cs2 \in Seq(Command) /\ Len(cs2) = Len(cs) + 1
      /\ (\A i \in 1 .. Len(cs) : cs2[i] = cs[i]) /\ cs2[Len(cs) + 1] = c
  BY AppendProperties DEF Longer
<1>2. Len(rs) \in Nat /\ Len(j) \in Nat /\ Len(cs) \in Nat /\ n \in Nat
      /\ n = Len(rs) + Len(j) /\ Len(rs) <= n
  OBVIOUS
<1> HIDE DEF n
<1>3. Len(p) = n + Len(cs) /\ Len(q) = n + Len(cs) + 1
  BY <1>1, <1>2 DEF Holds
<1>4. \A i \in 1 .. n + Len(cs) :
        p[i] = IF i <= Len(rs) THEN Cmd(rs[i].kind, rs[i].arg)
               ELSE IF i <= n THEN j[i - Len(rs)] ELSE cs[i - n]
  BY <1>2 DEF Holds
<1>5. \A i \in 1 .. n + Len(cs2) :
        q[i] = IF i <= Len(rs) THEN Cmd(rs[i].kind, rs[i].arg)
               ELSE IF i <= n THEN j[i - Len(rs)] ELSE cs2[i - n]
  BY <1>2 DEF Holds
<1>6. q[Len(q)] = c
  BY <1>1, <1>2, <1>3, <1>5
<1>7. ASSUME NEW i \in 1 .. n + Len(cs) PROVE q[i] = p[i] /\ i < Len(q)
  <2>1. i \in 1 .. n + Len(cs2) /\ i < Len(q) BY <1>1, <1>2, <1>3
  <2>2. CASE i <= n
    BY <1>4, <1>5, <2>1, <2>2
  <2>3. CASE ~(i <= n)
    <3>1. i - n \in 1 .. Len(cs) /\ ~(i <= Len(rs)) BY <1>2, <2>3
    <3>2. cs2[i - n] = cs[i - n] BY <1>1, <3>1
    <3> QED BY <1>4, <1>5, <2>1, <2>3, <3>1, <3>2
  <2> QED BY <2>2, <2>3
<1> QED BY <1>2, <1>3, <1>6, <1>7 DEF OneMore

\* The oldest reply comes first.
LEMMA ServedIsFirst ==
  ASSUME NEW rs \in Seq(Reply), NEW j \in Seq(Command), NEW cs \in Seq(Command),
         rs # <<>>, NEW p, NEW q, Holds(p, rs, j, cs), Holds(q, Tail(rs), j, cs)
  PROVE  OneMore(q, p, 1) /\ p[1] = Cmd(Head(rs).kind, Head(rs).arg)
<1> DEFINE ts == Tail(rs)
           n == Len(ts) + Len(j)
<1>1. ts \in Seq(Reply) /\ Len(rs) = Len(ts) + 1
      /\ (\A i \in 1 .. Len(ts) : ts[i] = rs[i + 1]) /\ Head(rs) = rs[1]
  BY HeadTailProperties
<1>2. Len(ts) \in Nat /\ Len(j) \in Nat /\ Len(cs) \in Nat /\ n \in Nat
      /\ n = Len(ts) + Len(j) /\ Len(ts) <= n
  BY <1>1
<1> HIDE DEF ts, n
<1>3. Len(q) = n + Len(cs) /\ Len(p) = n + Len(cs) + 1
  BY <1>1, <1>2 DEF Holds, ts
<1>4. \A i \in 1 .. n + Len(cs) :
        q[i] = IF i <= Len(ts) THEN Cmd(ts[i].kind, ts[i].arg)
               ELSE IF i <= n THEN j[i - Len(ts)] ELSE cs[i - n]
  BY <1>2 DEF Holds, ts
<1>5. \A i \in 1 .. n + Len(cs) + 1 :
        p[i] = IF i <= Len(rs) THEN Cmd(rs[i].kind, rs[i].arg)
               ELSE IF i <= n + 1 THEN j[i - Len(rs)] ELSE cs[i - (n + 1)]
  <2>1. Len(rs) + Len(j) = n + 1 BY <1>1, <1>2
  <2> QED BY <2>1, <1>3 DEF Holds
<1>6. p[1] = Cmd(Head(rs).kind, Head(rs).arg)
  BY <1>1, <1>2, <1>5
<1>7. ASSUME NEW i \in 1 .. n + Len(cs) PROVE p[i + 1] = q[i] /\ ~(i < 1)
  <2>1. i + 1 \in 1 .. n + Len(cs) + 1 /\ ~(i < 1) BY <1>2
  <2>2. CASE i <= Len(ts)
    <3>1. i + 1 <= Len(rs) /\ rs[i + 1] = ts[i] BY <1>1, <1>2, <2>2
    <3> QED BY <1>4, <1>5, <2>1, <2>2, <3>1
  <2>3. CASE ~(i <= Len(ts)) /\ i <= n
    <3>1. ~(i + 1 <= Len(rs)) /\ i + 1 <= n + 1 /\ (i + 1) - Len(rs) = i - Len(ts)
      BY <1>1, <1>2, <2>3
    <3> QED BY <1>4, <1>5, <2>1, <2>3, <3>1
  <2>4. CASE ~(i <= n)
    <3>1. ~(i + 1 <= Len(rs)) /\ ~(i + 1 <= n + 1) /\ (i + 1) - (n + 1) = i - n
          /\ ~(i <= Len(ts))
      BY <1>1, <1>2, <2>4
    <3> QED BY <1>4, <1>5, <2>1, <2>4, <3>1
  <2> QED BY <2>2, <2>3, <2>4
<1> QED BY <1>2, <1>3, <1>6, <1>7 DEF OneMore

\* A command that the dispatcher takes up keeps its place.
LEMMA ReceivedStays ==
  ASSUME NEW rs \in Seq(Reply), NEW cs \in Seq(Command), cs # <<>>, NEW p, NEW q,
         Holds(p, rs, <<>>, cs), Holds(q, rs, <<Head(cs)>>, Tail(cs))
  PROVE  p = q
<1> DEFINE ts == Tail(cs)
           j == <<Head(cs)>>
<1>1. ts \in Seq(Command) /\ Len(cs) = Len(ts) + 1
      /\ (\A i \in 1 .. Len(ts) : ts[i] = cs[i + 1]) /\ Head(cs) = cs[1]
  BY HeadTailProperties
<1>2. Len(ts) \in Nat /\ Len(rs) \in Nat /\ Len(j) = 1 /\ j[1] = cs[1]
      /\ Len(<<>>) = 0
  BY <1>1
<1> HIDE DEF ts, j
<1>3. Len(p) = Len(rs) + Len(cs) /\ Len(q) = Len(p)
  BY <1>1, <1>2 DEF Holds, ts, j
<1>4. \A i \in 1 .. Len(p) :
        p[i] = IF i <= Len(rs) THEN Cmd(rs[i].kind, rs[i].arg) ELSE cs[i - Len(rs)]
  BY <1>1, <1>2 DEF Holds
<1>5. \A i \in 1 .. Len(p) :
        q[i] = IF i <= Len(rs) THEN Cmd(rs[i].kind, rs[i].arg)
               ELSE IF i <= Len(rs) + 1 THEN j[i - Len(rs)] ELSE ts[i - (Len(rs) + 1)]
  BY <1>2, <1>3 DEF Holds, ts, j
<1>6. ASSUME NEW i \in 1 .. Len(p) PROVE p[i] = q[i]
  <2>1. CASE i <= Len(rs)
    BY <1>4, <1>5, <2>1
  <2>2. CASE i = Len(rs) + 1
    <3>1. i - Len(rs) = 1 /\ ~(i <= Len(rs)) /\ i <= Len(rs) + 1 BY <1>2, <2>2
    <3> QED BY <1>2, <1>4, <1>5, <3>1
  <2>3. CASE ~(i <= Len(rs) + 1)
    <3>1. /\ i - (Len(rs) + 1) \in 1 .. Len(ts) /\ ~(i <= Len(rs))
          /\ (i - (Len(rs) + 1)) + 1 = i - Len(rs)
      BY <1>1, <1>2, <1>3, <2>3
    <3>2. ts[i - (Len(rs) + 1)] = cs[i - Len(rs)] BY <1>1, <3>1
    <3> QED BY <1>4, <1>5, <2>3, <3>1, <3>2
  <2> QED BY <1>2, <1>3, <2>1, <2>2, <2>3
<1>7. p \in Seq(Request) /\ q \in Seq(Request) BY DEF Holds
<1> QED BY <1>3, <1>6, <1>7, SamePipeline

\* So does one that is answered.
LEMMA AnsweredStays ==
  ASSUME NEW rs \in Seq(Reply), NEW j \in Seq(Command), NEW cs \in Seq(Command),
         Len(j) = 1, NEW r \in Reply, NEW rs2, Longer(rs2, rs, r), Cmd(r.kind, r.arg) = j[1], NEW p, NEW q,
         Holds(p, rs, j, cs), Holds(q, rs2, <<>>, cs)
  PROVE  p = q
<1>1. rs2 \in Seq(Reply) /\ Len(rs2) = Len(rs) + 1
      /\ (\A i \in 1 .. Len(rs) : rs2[i] = rs[i]) /\ rs2[Len(rs) + 1] = r
  BY AppendProperties DEF Longer
<1>2. Len(rs) \in Nat /\ Len(cs) \in Nat /\ Len(<<>>) = 0
  OBVIOUS
<1>3. Len(p) = Len(rs) + 1 + Len(cs) /\ Len(q) = Len(p)
  BY <1>1, <1>2 DEF Holds
<1>4. \A i \in 1 .. Len(p) :
        p[i] = IF i <= Len(rs) THEN Cmd(rs[i].kind, rs[i].arg)
               ELSE IF i <= Len(rs) + 1 THEN j[i - Len(rs)] ELSE cs[i - (Len(rs) + 1)]
  BY <1>2, <1>3 DEF Holds
<1>5. \A i \in 1 .. Len(p) :
        q[i] = IF i <= Len(rs) + 1 THEN Cmd(rs2[i].kind, rs2[i].arg)
               ELSE cs[i - (Len(rs) + 1)]
  BY <1>1, <1>2, <1>3 DEF Holds
<1>6. ASSUME NEW i \in 1 .. Len(p) PROVE p[i] = q[i]
  <2>1. CASE i <= Len(rs)
    <3>1. i \in 1 .. Len(rs) /\ i <= Len(rs) + 1 BY <1>2, <2>1
    <3> QED BY <1>1, <1>4, <1>5, <2>1, <3>1
  <2>2. CASE i = Len(rs) + 1
    <3>1. i - Len(rs) = 1 /\ ~(i <= Len(rs)) /\ i <= Len(rs) + 1 BY <1>2, <2>2
    <3> QED BY <1>1, <1>4, <1>5, <2>2, <3>1
  <2>3. CASE ~(i <= Len(rs) + 1)
    <3>1. ~(i <= Len(rs)) BY <1>2, <2>3
    <3> QED BY <1>4, <1>5, <2>3, <3>1
  <2> QED BY <1>2, <1>3, <2>1, <2>2, <2>3
<1>7. p \in Seq(Request) /\ q \in Seq(Request) BY DEF Holds
<1> QED BY <1>3, <1>6, <1>7, SamePipeline

\* A command that is finished without a reply is one less.
LEMMA FinishedLeaves ==
  ASSUME NEW rs \in Seq(Reply), NEW j \in Seq(Command), NEW cs \in Seq(Command),
         Len(j) = 1, NEW p, NEW q, Holds(p, rs, j, cs), Holds(q, rs, <<>>, cs)
  PROVE  OneMore(q, p, Len(rs) + 1) /\ p[Len(rs) + 1] = j[1]
<1>1. Len(rs) \in Nat /\ Len(cs) \in Nat /\ Len(<<>>) = 0
  OBVIOUS
<1>2. Len(p) = Len(rs) + 1 + Len(cs) /\ Len(q) = Len(rs) + Len(cs)
  BY <1>1 DEF Holds
<1>3. \A i \in 1 .. Len(p) :
        p[i] = IF i <= Len(rs) THEN Cmd(rs[i].kind, rs[i].arg)
               ELSE IF i <= Len(rs) + 1 THEN j[i - Len(rs)] ELSE cs[i - (Len(rs) + 1)]
  BY <1>1, <1>2 DEF Holds
<1>4. \A i \in 1 .. Len(q) :
        q[i] = IF i <= Len(rs) THEN Cmd(rs[i].kind, rs[i].arg) ELSE cs[i - Len(rs)]
  BY <1>1, <1>2 DEF Holds
<1>5. p[Len(rs) + 1] = j[1]
  BY <1>1, <1>2, <1>3
<1>6. ASSUME NEW i \in 1 .. Len(q)
      PROVE  p[IF i < Len(rs) + 1 THEN i ELSE i + 1] = q[i]
  <2>1. CASE i <= Len(rs)
    <3>1. i < Len(rs) + 1 /\ i \in 1 .. Len(p) BY <1>1, <1>2, <2>1
    <3> QED BY <1>3, <1>4, <2>1, <3>1
  <2>2. CASE ~(i <= Len(rs))
    <3>1. /\ ~(i < Len(rs) + 1) /\ i + 1 \in 1 .. Len(p) /\ ~(i + 1 <= Len(rs))
          /\ ~(i + 1 <= Len(rs) + 1) /\ (i + 1) - (Len(rs) + 1) = i - Len(rs)
      BY <1>1, <1>2, <2>2
    <3> QED BY <1>3, <1>4, <2>2, <3>1
  <2> QED BY <2>1, <2>2
<1>7. Len(rs) + 1 \in 1 .. Len(p) /\ Len(p) = Len(q) + 1
  BY <1>1, <1>2
<1> QED BY <1>5, <1>6, <1>7 DEF OneMore

\* A reply to no command, or ahead of the job's end, is one more.
LEMMA ToldIsOneMore ==
  ASSUME NEW rs \in Seq(Reply), NEW j \in Seq(Command), NEW cs \in Seq(Command),
         NEW r \in Reply, NEW rs2, Longer(rs2, rs, r), NEW p, NEW q,
         Holds(p, rs, j, cs), Holds(q, rs2, j, cs)
  PROVE  OneMore(p, q, Len(rs) + 1) /\ q[Len(rs) + 1] = Cmd(r.kind, r.arg)
<1> DEFINE n == Len(rs) + Len(j)
<1>1. rs2 \in Seq(Reply) /\ Len(rs2) = Len(rs) + 1
      /\ (\A i \in 1 .. Len(rs) : rs2[i] = rs[i]) /\ rs2[Len(rs) + 1] = r
  BY AppendProperties DEF Longer
<1>2. Len(rs) \in Nat /\ Len(j) \in Nat /\ Len(cs) \in Nat /\ n \in Nat
      /\ n = Len(rs) + Len(j) /\ Len(rs) <= n
  OBVIOUS
<1> HIDE DEF n
<1>3. Len(p) = n + Len(cs) /\ Len(q) = n + 1 + Len(cs)
  BY <1>1, <1>2 DEF Holds
<1>4. \A i \in 1 .. Len(p) :
        p[i] = IF i <= Len(rs) THEN Cmd(rs[i].kind, rs[i].arg)
               ELSE IF i <= n THEN j[i - Len(rs)] ELSE cs[i - n]
  BY <1>2, <1>3 DEF Holds
<1>5. \A i \in 1 .. Len(q) :
        q[i] = IF i <= Len(rs) + 1 THEN Cmd(rs2[i].kind, rs2[i].arg)
               ELSE IF i <= n + 1 THEN j[i - (Len(rs) + 1)] ELSE cs[i - (n + 1)]
  <2>1. Len(rs2) + Len(j) = n + 1 BY <1>1, <1>2
  <2> QED BY <2>1, <1>1, <1>3 DEF Holds
<1>6. q[Len(rs) + 1] = Cmd(r.kind, r.arg)
  BY <1>1, <1>2, <1>3, <1>5
<1>7. ASSUME NEW i \in 1 .. Len(p)
      PROVE  q[IF i < Len(rs) + 1 THEN i ELSE i + 1] = p[i]
  <2>1. CASE i <= Len(rs)
    <3>1. i < Len(rs) + 1 /\ i \in 1 .. Len(q) /\ i \in 1 .. Len(rs) /\ i <= Len(rs) + 1
      BY <1>2, <1>3, <2>1
    <3> QED BY <1>1, <1>4, <1>5, <2>1, <3>1
  <2>2. CASE ~(i <= Len(rs)) /\ i <= n
    <3>1. /\ ~(i < Len(rs) + 1) /\ i + 1 \in 1 .. Len(q) /\ ~(i + 1 <= Len(rs) + 1)
          /\ i + 1 <= n + 1 /\ (i + 1) - (Len(rs) + 1) = i - Len(rs)
      BY <1>2, <1>3, <2>2
    <3> QED BY <1>4, <1>5, <2>2, <3>1
  <2>3. CASE ~(i <= n)
    <3>1. /\ ~(i < Len(rs) + 1) /\ i + 1 \in 1 .. Len(q) /\ ~(i + 1 <= Len(rs) + 1)
          /\ ~(i + 1 <= n + 1) /\ (i + 1) - (n + 1) = i - n /\ ~(i <= Len(rs))
      BY <1>2, <1>3, <2>3
    <3> QED BY <1>4, <1>5, <2>3, <3>1
  <2> QED BY <2>1, <2>2, <2>3
<1>8. Len(rs) + 1 \in 1 .. Len(q) /\ Len(q) = Len(p) + 1
  BY <1>2, <1>3
<1> QED BY <1>6, <1>7, <1>8 DEF OneMore

-----------------------------------------------------------------------------
(* The same of the pipeline, step by step. *)

LEMMA PipelineHolds ==
  ASSUME NEW rs \in Seq(Reply), NEW j \in Seq(Command), NEW cs \in Seq(Command)
  PROVE  /\ PipeOf(rs, j, cs) \in Seq(Request)
         /\ Holds(PipeOf(rs, j, cs), rs, j, cs)
BY Places DEF Holds

\* What is under way of some kinds, and whether it is at most one, in q is
\* what it is in p and, if c is of these kinds, c besides.
Adds(p, q, c, kinds) ==
  /\ c.kind \notin kinds =>
       /\ RequestsIn(q, kinds) = RequestsIn(p, kinds)
       /\ SingleIn(q, kinds) <=> SingleIn(p, kinds)
  /\ c.kind \in kinds =>
       /\ RequestsIn(q, kinds) = RequestsIn(p, kinds) \union {c}
       /\ SingleIn(q, kinds) <=> RequestsIn(p, kinds) = {}

\* Main sends a command: it is under way if there was room for it.
LEMMA Sent ==
  ASSUME NEW rs \in Seq(Reply), NEW j \in Seq(Command), NEW cs \in Seq(Command),
         NEW c \in Command, NEW cs2, Longer(cs2, cs, c), NEW kinds
  PROVE  Adds(PipeOf(rs, j, cs), PipeOf(rs, j, cs2), c, kinds)
<1> DEFINE p == PipeOf(rs, j, cs)
           q == PipeOf(rs, j, cs2)
<1>1. cs2 \in Seq(Command) BY AppendProperties DEF Longer
<1>2. p \in Seq(Request) /\ Holds(p, rs, j, cs)
      /\ q \in Seq(Request) /\ Holds(q, rs, j, cs2)
  BY <1>1, PipelineHolds
<1> HIDE DEF p, q
<1>3. OneMore(p, q, Len(q)) /\ q[Len(q)] = c
  BY <1>2, QueuedIsLast
<1>4. Adds(p, q, c, kinds)
  BY <1>2, <1>3, OneMoreCounts DEF Adds
<1> QED BY <1>4 DEF p, q

\* Main takes a reply: its request is no longer under way.
LEMMA Taken ==
  ASSUME NEW rs \in Seq(Reply), NEW j \in Seq(Command), NEW cs \in Seq(Command),
         rs # <<>>, NEW kinds
  PROVE  Adds(PipeOf(Tail(rs), j, cs), PipeOf(rs, j, cs),
              Cmd(Head(rs).kind, Head(rs).arg), kinds)
<1> DEFINE p == PipeOf(rs, j, cs)
           q == PipeOf(Tail(rs), j, cs)
<1>1. Tail(rs) \in Seq(Reply) BY HeadTailProperties
<1>2. p \in Seq(Request) /\ Holds(p, rs, j, cs)
      /\ q \in Seq(Request) /\ Holds(q, Tail(rs), j, cs)
  BY <1>1, PipelineHolds
<1> HIDE DEF p, q
<1>3. OneMore(q, p, 1) /\ p[1] = Cmd(Head(rs).kind, Head(rs).arg)
  BY <1>2, ServedIsFirst
<1>4. Adds(q, p, Cmd(Head(rs).kind, Head(rs).arg), kinds)
  BY <1>2, <1>3, OneMoreCounts DEF Adds
<1> QED BY <1>4 DEF p, q

\* The dispatcher takes a command up, or ends one with its reply.
LEMMA Received ==
  ASSUME NEW rs \in Seq(Reply), NEW cs \in Seq(Command), cs # <<>>
  PROVE  PipeOf(rs, <<Head(cs)>>, Tail(cs)) = PipeOf(rs, <<>>, cs)
<1> DEFINE p == PipeOf(rs, <<>>, cs)
           q == PipeOf(rs, <<Head(cs)>>, Tail(cs))
<1>1. <<>> \in Seq(Command) OBVIOUS
<1>2. <<Head(cs)>> \in Seq(Command) /\ Tail(cs) \in Seq(Command)
  BY HeadTailProperties
<1>3. Holds(p, rs, <<>>, cs) /\ Holds(q, rs, <<Head(cs)>>, Tail(cs))
  BY <1>1, <1>2, PipelineHolds
<1> HIDE DEF p, q
<1>4. p = q BY <1>3, ReceivedStays
<1> QED BY <1>4 DEF p, q

LEMMA Answered ==
  ASSUME NEW rs \in Seq(Reply), NEW j \in Seq(Command), NEW cs \in Seq(Command),
         Len(j) = 1, NEW r \in Reply, Cmd(r.kind, r.arg) = j[1],
         NEW rs2, Longer(rs2, rs, r)
  PROVE  PipeOf(rs2, <<>>, cs) = PipeOf(rs, j, cs)
<1> DEFINE p == PipeOf(rs, j, cs)
           q == PipeOf(rs2, <<>>, cs)
<1>1. <<>> \in Seq(Command) OBVIOUS
<1>2. rs2 \in Seq(Reply) BY AppendProperties DEF Longer
<1>3. Holds(p, rs, j, cs) /\ Holds(q, rs2, <<>>, cs)
  BY <1>1, <1>2, PipelineHolds
<1> HIDE DEF p, q
<1>4. p = q BY <1>3, AnsweredStays
<1> QED BY <1>4 DEF p, q

\* It ends one without a reply, or tells main something besides.
LEMMA Finished ==
  ASSUME NEW rs \in Seq(Reply), NEW j \in Seq(Command), NEW cs \in Seq(Command),
         Len(j) = 1, NEW kinds
  PROVE  Adds(PipeOf(rs, <<>>, cs), PipeOf(rs, j, cs), j[1], kinds)
<1> DEFINE p == PipeOf(rs, j, cs)
           q == PipeOf(rs, <<>>, cs)
<1>1. <<>> \in Seq(Command) OBVIOUS
<1>2. p \in Seq(Request) /\ Holds(p, rs, j, cs)
      /\ q \in Seq(Request) /\ Holds(q, rs, <<>>, cs)
  BY <1>1, PipelineHolds
<1> HIDE DEF p, q
<1>3. OneMore(q, p, Len(rs) + 1) /\ p[Len(rs) + 1] = j[1]
  BY <1>2, FinishedLeaves
<1>4. Adds(q, p, j[1], kinds)
  BY <1>2, <1>3, OneMoreCounts DEF Adds
<1> QED BY <1>4 DEF p, q

LEMMA Told ==
  ASSUME NEW rs \in Seq(Reply), NEW j \in Seq(Command), NEW cs \in Seq(Command),
         NEW r \in Reply, NEW rs2, Longer(rs2, rs, r), NEW kinds
  PROVE  Adds(PipeOf(rs, j, cs), PipeOf(rs2, j, cs), Cmd(r.kind, r.arg), kinds)
<1> DEFINE p == PipeOf(rs, j, cs)
           q == PipeOf(rs2, j, cs)
<1>1. rs2 \in Seq(Reply) BY AppendProperties DEF Longer
<1>2. p \in Seq(Request) /\ Holds(p, rs, j, cs)
      /\ q \in Seq(Request) /\ Holds(q, rs2, j, cs)
  BY <1>1, PipelineHolds
<1> HIDE DEF p, q
<1>3. OneMore(p, q, Len(rs) + 1) /\ q[Len(rs) + 1] = Cmd(r.kind, r.arg)
  BY <1>2, ToldIsOneMore
<1>4. Adds(p, q, Cmd(r.kind, r.arg), kinds)
  BY <1>2, <1>3, OneMoreCounts DEF Adds
<1> QED BY <1>4 DEF p, q

-----------------------------------------------------------------------------
(* The same of the steps of CommandWorker. *)

Pipe == PipeOf(replies, job, cmds)

\* For some kinds, q has the same requests under way as p.
Same(p, q, kinds) ==
  /\ RequestsIn(q, kinds) = RequestsIn(p, kinds)
  /\ SingleIn(q, kinds) <=> SingleIn(p, kinds)

LEMMA SendKeepsType ==
  ASSUME WorkerTypeOK, NEW c \in Command, Sends(c)
  PROVE  cmds' \in Seq(Command) /\ Len(cmds') <= CmdCap
<1>1. cmds \in Seq(Command) /\ Len(cmds) \in Nat /\ Len(cmds) <= CmdCap /\ CmdCap \in Nat
  BY CapAssumption DEF WorkerTypeOK
<1>2. CASE Room
  <2>1. cmds' = Append(cmds, c) BY <1>2 DEF Sends
  <2>2. cmds' \in Seq(Command) /\ Len(cmds') = Len(cmds) + 1
    BY <1>1, <2>1, AppendProperties
  <2> QED BY <1>1, <1>2, <2>2 DEF Room
<1>3. CASE ~Room
  BY <1>1, <1>3 DEF Sends
<1> QED BY <1>2, <1>3

LEMMA ReplyKeepsType ==
  ASSUME WorkerTypeOK, NEW r \in Reply, Len(replies) < ReplyCap, Longer(replies', replies, r)
  PROVE  replies' \in Seq(Reply) /\ Len(replies') <= ReplyCap
<1>1. replies \in Seq(Reply) /\ Len(replies) \in Nat /\ ReplyCap \in Nat
  BY CapAssumption DEF WorkerTypeOK
<1>2. replies' \in Seq(Reply) /\ Len(replies') = Len(replies) + 1
  BY <1>1, AppendProperties DEF Longer
<1> QED BY <1>1, <1>2

LEMMA TakeKeepsType ==
  ASSUME WorkerTypeOK, replies # <<>>, replies' = Tail(replies)
  PROVE  /\ replies' \in Seq(Reply) /\ Len(replies') <= ReplyCap
         /\ Head(replies) \in Reply
<1>1. replies \in Seq(Reply) /\ Len(replies) \in Nat /\ Len(replies) <= ReplyCap
      /\ ReplyCap \in Nat
  BY CapAssumption DEF WorkerTypeOK
<1>2. replies' \in Seq(Reply) /\ Len(replies') = Len(replies) - 1 /\ Head(replies) \in Reply
  BY <1>1, HeadTailProperties
<1> QED BY <1>1, <1>2

\* The steps of the worker neither make nor lose requests of the kinds that
\* refresh or pair.
LEMMA WorkerStep ==
  ASSUME WorkerTypeOK, WorkerNext, NEW kinds \in SUBSET (Kind \ {"Mopidy"})
  PROVE  WorkerTypeOK' /\ Same(Pipe, Pipe', kinds)
<1> DEFINE p == PipeOf(replies, job, cmds)
           q == PipeOf(replies', job', cmds')
<1>1. /\ cmds \in Seq(Command) /\ replies \in Seq(Reply) /\ job \in Seq(Command)
      /\ Len(cmds) \in Nat /\ Len(replies) \in Nat /\ Len(job) \in Nat /\ Len(job) <= 1
      /\ Len(cmds) <= CmdCap /\ CmdCap \in Nat
  BY CapAssumption DEF WorkerTypeOK
<1>2. ASSUME job # <<>> PROVE Len(job) = 1 /\ job[1] \in Command
  <2>1. Tail(job) \in Seq(Command) /\ Len(Tail(job)) = Len(job) - 1
    BY <1>1, <1>2, HeadTailProperties
  <2>2. Len(Tail(job)) \in Nat BY <2>1
  <2>3. Len(job) = 1 BY <1>1, <2>1, <2>2
  <2>4. 1 \in 1 .. Len(job) BY <2>3
  <2>5. job[1] \in Command BY ONLY <1>1, <2>4, ElementOfSeq
  <2> QED BY <2>3, <2>5
<1>3. Cmd("Mopidy", NoArg) \in Command /\ Cmd("Mopidy", NoArg).kind = "Mopidy"
  BY DEF Cmd, Command, Kind
<1>4. /\ "Mopidy" \notin kinds /\ "DeviceCode" \notin kinds
      /\ "ShutdownRequested" \notin kinds
  BY DEF Kind
<1>5. SUFFICES WorkerTypeOK' /\ Same(p, q, kinds)
  BY DEF Pipe
<1> HIDE DEF p, q
<1>6. p = q => Same(p, q, kinds)
  BY DEF Same
<1>7. CASE Receive
  <2> USE <1>7 DEF Receive
  <2>1. cmds' \in Seq(Command) /\ Len(cmds') = Len(cmds) - 1 /\ Head(cmds) \in Command
    BY <1>1, HeadTailProperties
  <2>2. job' \in Seq(Command) /\ Len(job') = 1
    BY <2>1
  <2>3. WorkerTypeOK'
    BY <1>1, <2>1, <2>2 DEF WorkerTypeOK
  <2>4. q = p
    BY <1>1, Received DEF p, q
  <2> QED BY <1>6, <2>3, <2>4
<1>8. CASE Answer
  <2>1. PICK out \in Outcomes(job[1].kind) : SendReply(job[1].kind, job[1].arg, out)
    BY <1>8 DEF Answer
  <2> DEFINE r == [kind |-> job[1].kind, arg |-> job[1].arg, out |-> out]
  <2>2. Len(replies) < ReplyCap /\ Longer(replies', replies, r)
    BY <2>1 DEF SendReply, Longer
  <2>3. r \in Reply /\ Cmd(r.kind, r.arg) = job[1]
    <3>1. job[1] \in Command BY <1>2, <1>8 DEF Answer
    <3>2. out \in Outcome BY DEF Outcomes, Outcome
    <3> QED BY <3>1, <3>2 DEF Command, Reply, Cmd
  <2> HIDE DEF r
  <2>4. replies' \in Seq(Reply) /\ Len(replies') <= ReplyCap
    BY <2>2, <2>3, ReplyKeepsType
  <2>5. WorkerTypeOK'
    BY <1>1, <1>8, <2>4 DEF WorkerTypeOK, Answer
  <2>6. q = p
    BY <1>1, <1>2, <1>8, <2>2, <2>3, Answered DEF p, q, Answer
  <2> QED BY <1>6, <2>5, <2>6
<1>9. CASE FinishSilently
  <2>1. WorkerTypeOK'
    BY <1>1, <1>9 DEF WorkerTypeOK, FinishSilently
  <2>2. Adds(q, p, job[1], kinds)
    BY <1>1, <1>2, <1>9, Finished DEF p, q, FinishSilently
  <2> QED BY <1>4, <1>9, <2>1, <2>2 DEF Adds, Same, FinishSilently
<1>10. CASE RequestDeviceCode
  <2>1. job # <<>> /\ job[1] \in Command /\ job[1].kind = "PairDeviceFlow"
    BY <1>2, <1>10 DEF RequestDeviceCode
  <2>2. CASE SendReply("DeviceCode", job[1].arg, "ok") /\ stage' = "polling" /\ job' = job
    <3> DEFINE r == [kind |-> "DeviceCode", arg |-> job[1].arg, out |-> "ok"]
    <3>1. Len(replies) < ReplyCap /\ Longer(replies', replies, r)
      BY <2>2 DEF SendReply, Longer
    <3>2. r \in Reply /\ Cmd(r.kind, r.arg).kind = "DeviceCode"
      BY <2>1 DEF Command, Reply, Outcome, Cmd
    <3> HIDE DEF r
    <3>3. replies' \in Seq(Reply) /\ Len(replies') <= ReplyCap
      BY <3>1, <3>2, ReplyKeepsType
    <3>4. WorkerTypeOK'
      BY <1>1, <1>10, <2>2, <3>3 DEF WorkerTypeOK, RequestDeviceCode
    <3>5. Adds(p, q, Cmd(r.kind, r.arg), kinds)
      BY <1>1, <1>10, <2>2, <3>1, <3>2, Told DEF p, q, RequestDeviceCode
    <3> QED BY <1>4, <3>2, <3>4, <3>5 DEF Adds, Same
  <2>3. CASE SendReply("PairDeviceFlow", job[1].arg, "err") /\ stage' = stage /\ job' = <<>>
    <3> DEFINE r == [kind |-> "PairDeviceFlow", arg |-> job[1].arg, out |-> "err"]
    <3>1. Len(replies) < ReplyCap /\ Longer(replies', replies, r)
      BY <2>3 DEF SendReply, Longer
    <3>2. r \in Reply /\ Cmd(r.kind, r.arg) = job[1]
      BY <2>1 DEF Command, Reply, Outcome, Cmd, Kind
    <3> HIDE DEF r
    <3>3. replies' \in Seq(Reply) /\ Len(replies') <= ReplyCap
      BY <3>1, <3>2, ReplyKeepsType
    <3>4. WorkerTypeOK'
      BY <1>1, <1>10, <2>3, <3>3 DEF WorkerTypeOK, RequestDeviceCode
    <3>5. q = p
      BY <1>1, <1>2, <1>10, <2>1, <2>3, <3>1, <3>2, Answered DEF p, q, RequestDeviceCode
    <3> QED BY <1>6, <3>4, <3>5
  <2> QED BY <1>10, <2>2, <2>3 DEF RequestDeviceCode
<1>11. CASE Hang \/ CatchSignal \/ Terminate
  <2>1. WorkerTypeOK' /\ q = p
    BY <1>11 DEF Hang, CatchSignal, Terminate, WorkerTypeOK, p, q
  <2> QED BY <1>6, <2>1
<1>12. CASE RequestShutdown
  <2> DEFINE r == [kind |-> "ShutdownRequested", arg |-> NoArg, out |-> "ok"]
  <2>1. Len(replies) < ReplyCap /\ Longer(replies', replies, r)
    BY <1>12 DEF RequestShutdown, SendReply, Longer
  <2>2. r \in Reply /\ Cmd(r.kind, r.arg).kind = "ShutdownRequested"
    BY DEF Reply, Outcome, Cmd
  <2> HIDE DEF r
  <2>3. replies' \in Seq(Reply) /\ Len(replies') <= ReplyCap
    BY <2>1, <2>2, ReplyKeepsType
  <2>4. WorkerTypeOK'
    BY <1>12, <2>3 DEF WorkerTypeOK, RequestShutdown
  <2>5. Adds(p, q, Cmd(r.kind, r.arg), kinds)
    BY <1>1, <1>12, <2>1, <2>2, Told DEF p, q, RequestShutdown
  <2> QED BY <1>4, <2>2, <2>4, <2>5 DEF Adds, Same
<1>13. CASE SendMopidy
  <2> DEFINE c == Cmd("Mopidy", NoArg)
  <2>1. Longer(cmds', cmds, c) /\ Sends(c)
    BY <1>13 DEF SendMopidy, Sends, Longer
  <2> HIDE DEF c
  <2>2. c \in Command /\ c.kind = "Mopidy" BY <1>3 DEF c
  <2>3. cmds' \in Seq(Command) /\ Len(cmds') <= CmdCap
    BY <2>1, <2>2, SendKeepsType
  <2>4. WorkerTypeOK'
    BY <1>13, <2>3 DEF WorkerTypeOK, SendMopidy
  <2>5. Adds(p, q, c, kinds)
    BY <1>1, <1>13, <2>1, <2>2, Sent DEF p, q, SendMopidy
  <2> QED BY <1>4, <2>2, <2>4, <2>5 DEF Adds, Same
<1>14. CASE MopidyReplied \/ ShutdownRequested
  <2>1. /\ replies # <<>> /\ replies' = Tail(replies)
        /\ Head(replies).kind \in {"Mopidy", "ShutdownRequested"}
        /\ UNCHANGED <<cmds, job, stage, listening, signal>> /\ up' \in {up, FALSE}
    BY <1>14 DEF MopidyReplied, ShutdownRequested, Takes
  <2>2. replies' \in Seq(Reply) /\ Len(replies') <= ReplyCap
    BY <2>1, TakeKeepsType
  <2>3. WorkerTypeOK'
    BY <2>1, <2>2 DEF WorkerTypeOK
  <2>4. Adds(q, p, Cmd(Head(replies).kind, Head(replies).arg), kinds)
    BY <1>1, <2>1, Taken DEF p, q
  <2>5. Cmd(Head(replies).kind, Head(replies).arg).kind \notin kinds
    BY <1>4, <2>1 DEF Cmd
  <2> QED BY <2>3, <2>4, <2>5 DEF Adds, Same
<1> QED BY <1>7, <1>8, <1>9, <1>10, <1>11, <1>12, <1>13, <1>14 DEF WorkerNext, Dispatch

\* q is p and the command c, if there is room for it.
Sending(p, q, c, kinds) == IF Room THEN Adds(p, q, c, kinds) ELSE q = p

\* A handler of main sends a command.
LEMMA SendStep ==
  ASSUME WorkerTypeOK, NEW c \in Command, Sends(c),
         UNCHANGED <<replies, job, stage, listening, signal, up>>, NEW kinds
  PROVE  WorkerTypeOK' /\ Sending(Pipe, Pipe', c, kinds)
<1>1. /\ cmds \in Seq(Command) /\ replies \in Seq(Reply) /\ job \in Seq(Command)
  BY DEF WorkerTypeOK
<1>2. WorkerTypeOK'
  <2>1. cmds' \in Seq(Command) /\ Len(cmds') <= CmdCap BY SendKeepsType
  <2> QED BY <2>1 DEF WorkerTypeOK
<1>3. CASE Room
  <2>1. Longer(cmds', cmds, c) BY <1>3 DEF Sends, Longer
  <2>2. Adds(PipeOf(replies, job, cmds), PipeOf(replies, job, cmds'), c, kinds)
    BY <1>1, <2>1, Sent
  <2> QED BY <1>2, <1>3, <2>2 DEF Pipe, Sending
<1>4. CASE ~Room
  BY <1>2, <1>4 DEF Sends, Pipe, Sending
<1> QED BY <1>3, <1>4

\* A handler of main takes a reply.
LEMMA TakeStep ==
  ASSUME WorkerTypeOK, replies # <<>>, replies' = Tail(replies),
         UNCHANGED <<cmds, job, stage, listening, signal, up>>, NEW kinds
  PROVE  /\ WorkerTypeOK' /\ Head(replies) \in Reply
         /\ Adds(Pipe', Pipe, Cmd(Head(replies).kind, Head(replies).arg), kinds)
<1>1. /\ cmds \in Seq(Command) /\ replies \in Seq(Reply) /\ job \in Seq(Command)
  BY DEF WorkerTypeOK
<1>2. replies' \in Seq(Reply) /\ Len(replies') <= ReplyCap /\ Head(replies) \in Reply
  BY TakeKeepsType
<1>3. WorkerTypeOK' BY <1>2 DEF WorkerTypeOK
<1>4. Adds(PipeOf(Tail(replies), job, cmds), PipeOf(replies, job, cmds),
           Cmd(Head(replies).kind, Head(replies).arg), kinds)
  BY <1>1, Taken
<1> QED BY <1>2, <1>3, <1>4 DEF Pipe

\* A handler of main takes a reply and sends a command: between the two, there
\* is the pipeline m.
LEMMA TakeSendStep ==
  ASSUME WorkerTypeOK, replies # <<>>, replies' = Tail(replies),
         NEW c \in Command, Sends(c), UNCHANGED <<job, stage, listening, signal, up>>
  PROVE  /\ WorkerTypeOK' /\ Head(replies) \in Reply
         /\ \E m : \A kinds :
              /\ Adds(m, Pipe, Cmd(Head(replies).kind, Head(replies).arg), kinds)
              /\ Sending(m, Pipe', c, kinds)
<1>1. /\ cmds \in Seq(Command) /\ replies \in Seq(Reply) /\ job \in Seq(Command)
  BY DEF WorkerTypeOK
<1>2. replies' \in Seq(Reply) /\ Len(replies') <= ReplyCap /\ Head(replies) \in Reply
  BY TakeKeepsType
<1>3. WorkerTypeOK'
  <2>1. cmds' \in Seq(Command) /\ Len(cmds') <= CmdCap BY SendKeepsType
  <2> QED BY <1>2, <2>1 DEF WorkerTypeOK
<1> DEFINE m == PipeOf(replies', job, cmds)
<1>4. ASSUME NEW kinds
      PROVE  Adds(m, Pipe, Cmd(Head(replies).kind, Head(replies).arg), kinds)
  BY <1>1, Taken DEF Pipe
<1>5. ASSUME NEW kinds PROVE Sending(m, Pipe', c, kinds)
  <2>1. CASE Room
    <3>1. Longer(cmds', cmds, c) BY <2>1 DEF Sends, Longer
    <3>2. Adds(PipeOf(replies', job, cmds), PipeOf(replies', job, cmds'), c, kinds)
      BY <1>1, <1>2, <3>1, Sent
    <3> QED BY <2>1, <3>2 DEF Pipe, Sending
  <2>2. CASE ~Room
    BY <2>2 DEF Sends, Pipe, Sending
  <2> QED BY <2>1, <2>2
<1> HIDE DEF m
<1> QED BY <1>2, <1>3, <1>4, <1>5

\* Requests of either of two kinds.
LEMMA EitherKind ==
  ASSUME NEW p, NEW k, NEW l
  PROVE  RequestsIn(p, {k, l}) = RequestsIn(p, {k}) \union RequestsIn(p, {l})
BY DEF RequestsIn

\* Under way is what the pipeline holds.
LEMMA UnderWayIs ==
  ASSUME NEW kinds
  PROVE  /\ UnderWay(kinds) = RequestsIn(Pipe, kinds)
         /\ AtMostOne(kinds) <=> SingleIn(Pipe, kinds)
BY DEF UnderWay, AtMostOne, Pipeline, Pipe, PipeOf

LEMMA NothingUnderWay ==
  ASSUME WorkerInit, NEW kinds
  PROVE  WorkerTypeOK /\ RequestsIn(Pipe, kinds) = {} /\ SingleIn(Pipe, kinds)
<1>1. WorkerTypeOK
  <2>1. <<>> \in Seq(Command) /\ <<>> \in Seq(Reply) /\ Len(<<>>) = 0 OBVIOUS
  <2>2. 0 <= CmdCap /\ 0 <= ReplyCap /\ 0 <= 1 BY CapAssumption
  <2> QED BY <2>1, <2>2 DEF WorkerInit, WorkerTypeOK
<1>2. Len(Pipe) = 0
  <2>1. Holds(Pipe, replies, job, cmds) BY <1>1, PipelineHolds DEF Pipe, WorkerTypeOK
  <2>2. Len(replies) = 0 /\ Len(job) = 0 /\ Len(cmds) = 0 BY DEF WorkerInit
  <2> QED BY <2>1, <2>2 DEF Holds
<1>3. 1 .. Len(Pipe) = {} BY <1>2
<1> QED BY <1>1, <1>3 DEF RequestsIn, SingleIn

-----------------------------------------------------------------------------
(* The weather.  The flags tell the truth by themselves.  That they are    *)
(* enough to keep the requests apart needs more: no geocode is under way   *)
(* once coordinates are known, and no request without its flag.  A failed  *)
(* write of the coordinates ends that, and with it what Guarded says.      *)

F == {"FetchWeather"}
G == {"GeocodeCity"}
FG == {"FetchWeather", "GeocodeCity"}

\* Every request under way is of a city.
OfCities == \A r \in RequestsIn(Pipe, FG) : r.arg \in City

WeatherFlagged ==
  /\ RequestsIn(Pipe, F) # {} => weather_in_flight
  /\ RequestsIn(Pipe, G) # {} => geocode_in_flight
WeatherHonest ==
  /\ weather_in_flight => RequestsIn(Pipe, F) # {}
  /\ geocode_in_flight => RequestsIn(Pipe, G) # {}
Placed == \A r \in RequestsIn(Pipe, F) : r.arg = coords

Guarded ==
  /\ WeatherFlagged /\ Placed
  /\ coords # NoCity => RequestsIn(Pipe, G) = {}
  /\ SingleIn(Pipe, FG)

WeatherIInv == WeatherTypeOK /\ OfCities /\ WeatherHonest /\ (~unpersisted => Guarded)

LEMMA EitherWeather ==
  ASSUME NEW p PROVE RequestsIn(p, FG) = RequestsIn(p, F) \union RequestsIn(p, G)
BY EitherKind DEF F, G, FG

\* The invariant speaks of the pipeline only through these three.
LEMMA SameRequests ==
  ASSUME NEW p, NEW q, Same(p, q, F), Same(p, q, G), Same(p, q, FG)
  PROVE  /\ RequestsIn(q, F) = RequestsIn(p, F)
         /\ RequestsIn(q, G) = RequestsIn(p, G)
         /\ RequestsIn(q, FG) = RequestsIn(p, FG)
         /\ SingleIn(q, FG) <=> SingleIn(p, FG)
BY DEF Same

LEMMA WeatherInitEstablishes == WeatherInit => WeatherIInv
<1> SUFFICES ASSUME WeatherInit PROVE WeatherIInv OBVIOUS
<1>1. WorkerInit BY DEF WeatherInit
<1>2. /\ WorkerTypeOK
      /\ RequestsIn(Pipe, F) = {} /\ RequestsIn(Pipe, G) = {} /\ RequestsIn(Pipe, FG) = {}
      /\ SingleIn(Pipe, FG)
  BY <1>1, NothingUnderWay
<1> QED BY <1>2, CityAssumption
        DEF WeatherInit, WeatherIInv, WeatherTypeOK, OfCities, WeatherHonest, Guarded, WeatherFlagged, Placed

\* What the channels' steps leave alone, and the steps that leave them alone.
LEMMA WeatherQuietStep ==
  ASSUME WeatherIInv, WorkerTypeOK', Same(Pipe, Pipe', F), Same(Pipe, Pipe', G), Same(Pipe, Pipe', FG),
         UNCHANGED <<coords, weather_in_flight, geocode_in_flight, unpersisted>>,
         city' \in City, weather_cadence' \in {"fresh", "due", "backoff"}
  PROVE  WeatherIInv'
<1>1. /\ RequestsIn(Pipe', F) = RequestsIn(Pipe, F)
      /\ RequestsIn(Pipe', G) = RequestsIn(Pipe, G)
      /\ RequestsIn(Pipe', FG) = RequestsIn(Pipe, FG)
      /\ SingleIn(Pipe', FG) <=> SingleIn(Pipe, FG)
  BY SameRequests
<1> QED BY <1>1 DEF WeatherIInv, WeatherTypeOK, OfCities, WeatherHonest, Guarded, WeatherFlagged, Placed

LEMMA WeatherWorkerKeeps == WeatherIInv /\ WeatherWorker => WeatherIInv'
<1> SUFFICES ASSUME WeatherIInv, WeatherWorker PROVE WeatherIInv' OBVIOUS
<1>1. WorkerTypeOK /\ WorkerNext BY DEF WeatherIInv, WeatherTypeOK, WeatherWorker
<1>2. F \in SUBSET (Kind \ {"Mopidy"}) /\ G \in SUBSET (Kind \ {"Mopidy"})
      /\ FG \in SUBSET (Kind \ {"Mopidy"})
  BY DEF F, G, FG, Kind
<1>3. WorkerTypeOK' /\ Same(Pipe, Pipe', F) /\ Same(Pipe, Pipe', G) /\ Same(Pipe, Pipe', FG)
  BY <1>1, <1>2, WorkerStep
<1> QED BY <1>3, WeatherQuietStep DEF WeatherWorker, store, config, WeatherIInv, WeatherTypeOK

LEMMA DispatchFetchKeeps == WeatherIInv /\ DispatchFetch => WeatherIInv'
<1> SUFFICES ASSUME WeatherIInv, DispatchFetch PROVE WeatherIInv' OBVIOUS
<1> DEFINE c == Cmd("FetchWeather", coords)
<1>1. c \in Command /\ c.kind = "FetchWeather" /\ c.arg = coords /\ coords \in City
  BY CityAssumption DEF WeatherIInv, WeatherTypeOK, DispatchFetch, Command, Kind, Cmd, NoCity
<1>2. Sends(c) /\ WorkerTypeOK BY DEF DispatchFetch, WeatherIInv, WeatherTypeOK
<1> HIDE DEF c
<1>3. /\ WorkerTypeOK'
      /\ Sending(Pipe, Pipe', c, F) /\ Sending(Pipe, Pipe', c, G) /\ Sending(Pipe, Pipe', c, FG)
  BY <1>1, <1>2, SendStep DEF DispatchFetch
<1>4. ~unpersisted => RequestsIn(Pipe, FG) = {}
  BY EitherWeather DEF WeatherIInv, Guarded, WeatherFlagged, DispatchFetch
<1>5. c.kind \in F /\ c.kind \notin G /\ c.kind \in FG BY <1>1 DEF F, G, FG
<1>6. UNCHANGED <<city, coords, unpersisted, geocode_in_flight, weather_cadence>>
      /\ weather_in_flight' = Room /\ ~weather_in_flight /\ coords # NoCity /\ Room \in BOOLEAN
  BY DEF DispatchFetch, config, Room
<1>7. CASE Room
  <2>1. /\ RequestsIn(Pipe', F) = RequestsIn(Pipe, F) \union {c}
        /\ RequestsIn(Pipe', G) = RequestsIn(Pipe, G)
        /\ RequestsIn(Pipe', FG) = RequestsIn(Pipe, FG) \union {c}
        /\ SingleIn(Pipe', FG) <=> RequestsIn(Pipe, FG) = {}
    BY <1>3, <1>5, <1>7 DEF Sending, Adds
  <2> QED BY <1>1, <1>3, <1>4, <1>6, <1>7, <2>1, EitherWeather
          DEF WeatherIInv, WeatherTypeOK, OfCities, WeatherHonest, Guarded, WeatherFlagged, Placed
<1>8. CASE ~Room
  <2>1. Pipe' = Pipe BY <1>3, <1>8 DEF Sending
  <2> QED BY <1>3, <1>4, <1>6, <1>8, <2>1, EitherWeather
          DEF WeatherIInv, WeatherTypeOK, OfCities, WeatherHonest, Guarded, WeatherFlagged, Placed
<1> QED BY <1>7, <1>8

LEMMA DispatchGeocodeKeeps == WeatherIInv /\ DispatchGeocode => WeatherIInv'
<1> SUFFICES ASSUME WeatherIInv, DispatchGeocode PROVE WeatherIInv' OBVIOUS
<1> DEFINE c == Cmd("GeocodeCity", city)
<1>1. c \in Command /\ c.kind = "GeocodeCity" /\ c.arg = city /\ city \in City
  BY CityAssumption DEF WeatherIInv, WeatherTypeOK, DispatchGeocode, Command, Kind, Cmd
<1>2. Sends(c) /\ WorkerTypeOK BY DEF DispatchGeocode, WeatherIInv, WeatherTypeOK
<1> HIDE DEF c
<1>3. /\ WorkerTypeOK'
      /\ Sending(Pipe, Pipe', c, F) /\ Sending(Pipe, Pipe', c, G) /\ Sending(Pipe, Pipe', c, FG)
  BY <1>1, <1>2, SendStep DEF DispatchGeocode
<1>4. ~unpersisted => RequestsIn(Pipe, FG) = {}
  <2>1. coords = NoCity /\ NoCity \notin City BY CityAssumption DEF DispatchGeocode
  <2>2. ~unpersisted => RequestsIn(Pipe, F) = {}
    BY <2>1, EitherWeather DEF WeatherIInv, OfCities, Guarded, Placed
  <2>3. ~unpersisted => RequestsIn(Pipe, G) = {}
    BY DEF WeatherIInv, Guarded, WeatherFlagged, DispatchGeocode
  <2> QED BY <2>2, <2>3, EitherWeather
<1>5. c.kind \notin F /\ c.kind \in G /\ c.kind \in FG BY <1>1 DEF F, G, FG
<1>6. UNCHANGED <<city, coords, unpersisted, weather_in_flight, weather_cadence>>
      /\ geocode_in_flight' = Room /\ ~geocode_in_flight /\ coords = NoCity /\ Room \in BOOLEAN
  BY DEF DispatchGeocode, config, Room
<1>7. CASE Room
  <2>1. /\ RequestsIn(Pipe', F) = RequestsIn(Pipe, F)
        /\ RequestsIn(Pipe', G) = RequestsIn(Pipe, G) \union {c}
        /\ RequestsIn(Pipe', FG) = RequestsIn(Pipe, FG) \union {c}
        /\ SingleIn(Pipe', FG) <=> RequestsIn(Pipe, FG) = {}
    BY <1>3, <1>5, <1>7 DEF Sending, Adds
  <2> QED BY <1>1, <1>3, <1>4, <1>6, <1>7, <2>1, EitherWeather
          DEF WeatherIInv, WeatherTypeOK, OfCities, WeatherHonest, Guarded, WeatherFlagged, Placed
<1>8. CASE ~Room
  <2>1. Pipe' = Pipe BY <1>3, <1>8 DEF Sending
  <2> QED BY <1>3, <1>4, <1>6, <1>8, <2>1, EitherWeather
          DEF WeatherIInv, WeatherTypeOK, OfCities, WeatherHonest, Guarded, WeatherFlagged, Placed
<1> QED BY <1>7, <1>8

\* The reply to a weather request is taken from a pipeline q, which leaves m.
LEMMA WeatherTaken ==
  ASSUME NEW q, NEW m, NEW c, c.kind \in FG,
         Adds(m, q, c, F), Adds(m, q, c, G), Adds(m, q, c, FG)
  PROVE  /\ RequestsIn(q, FG) = RequestsIn(m, FG) \union {c}
         /\ SingleIn(q, FG) <=> RequestsIn(m, FG) = {}
         /\ c.kind = "FetchWeather" => RequestsIn(q, G) = RequestsIn(m, G)
         /\ c.kind = "GeocodeCity" => RequestsIn(q, F) = RequestsIn(m, F)
BY DEF Adds, F, G, FG

LEMMA WeatherRepliesKeep == WeatherIInv /\ (WeatherFetched \/ WeatherFailed) => WeatherIInv'
<1> SUFFICES ASSUME WeatherIInv, WeatherFetched \/ WeatherFailed PROVE WeatherIInv' OBVIOUS
<1> DEFINE c == Cmd(Head(replies).kind, Head(replies).arg)
<1>1. /\ replies # <<>> /\ replies' = Tail(replies) /\ WorkerTypeOK
      /\ Head(replies).kind \in FG /\ UNCHANGED <<cmds, job, stage, listening, signal, up>>
      /\ UNCHANGED <<city, coords, unpersisted>>
      /\ weather_cadence' \in {"fresh", "backoff"} /\ weather_in_flight' = FALSE
      /\ \/ geocode_in_flight' = geocode_in_flight /\ Head(replies).kind = "FetchWeather"
         \/ geocode_in_flight' = FALSE
  BY DEF WeatherFetched, WeatherFailed, HandleFailure, Takes, FG, WeatherIInv, WeatherTypeOK, config
<1>2. c.kind = Head(replies).kind BY DEF Cmd
<1> HIDE DEF c
<1>3. /\ WorkerTypeOK'
      /\ Adds(Pipe', Pipe, c, F) /\ Adds(Pipe', Pipe, c, G) /\ Adds(Pipe', Pipe, c, FG)
  BY <1>1, TakeStep DEF c
<1>4. /\ RequestsIn(Pipe, FG) = RequestsIn(Pipe', FG) \union {c}
      /\ SingleIn(Pipe, FG) <=> RequestsIn(Pipe', FG) = {}
      /\ c.kind = "FetchWeather" => RequestsIn(Pipe, G) = RequestsIn(Pipe', G)
  BY <1>1, <1>2, <1>3, WeatherTaken
<1>5. RequestsIn(Pipe', FG) = {} => SingleIn(Pipe', FG)
  BY DEF RequestsIn, SingleIn
<1>6. OfCities' /\ WeatherHonest'
  BY <1>1, <1>2, <1>4 DEF WeatherIInv, OfCities, WeatherHonest
<1>7. ~unpersisted' => Guarded'
  BY <1>1, <1>4, <1>5, EitherWeather DEF WeatherIInv, Guarded, WeatherFlagged, Placed
<1>8. WeatherTypeOK'
  BY <1>1, <1>3 DEF WeatherIInv, WeatherTypeOK
<1> QED BY <1>6, <1>7, <1>8 DEF WeatherIInv

LEMMA GeocodedKeeps == WeatherIInv /\ Geocoded => WeatherIInv'
<1> SUFFICES ASSUME WeatherIInv, Geocoded PROVE WeatherIInv' OBVIOUS
<1> DEFINE a == Head(replies).arg
           c == Cmd(Head(replies).kind, a)
           d == Cmd("FetchWeather", a)
<1>1. /\ replies # <<>> /\ replies' = Tail(replies) /\ WorkerTypeOK
      /\ Head(replies).kind = "GeocodeCity" /\ UNCHANGED <<job, stage, listening, signal, up>>
      /\ Sends(d) /\ weather_in_flight' = Room /\ geocode_in_flight' = FALSE
      /\ weather_cadence' \in {"fresh", "due"} /\ Persist(a) /\ Room \in BOOLEAN
  BY DEF Geocoded, Takes, WeatherIInv, WeatherTypeOK, RecordSuccess, Room
<1>2. /\ c.kind = "GeocodeCity" /\ c.arg = a
      /\ d.kind = "FetchWeather" /\ d.arg = a
  BY <1>1 DEF Cmd
<1>3. a \in City
  <2> DEFINE n == PipeOf(Tail(replies), job, cmds)
  <2>1. /\ replies \in Seq(Reply) /\ job \in Seq(Command) /\ cmds \in Seq(Command)
    BY <1>1 DEF WorkerTypeOK
  <2>2. Adds(n, Pipe, c, FG) BY <1>1, <2>1, Taken DEF Pipe
  <2> HIDE DEF n
  <2>3. c \in RequestsIn(Pipe, FG) BY <1>2, <2>2 DEF Adds, FG
  <2> QED BY <1>2, <2>3 DEF WeatherIInv, OfCities
<1>4. d \in Command BY <1>3, CityAssumption DEF Command, Kind, Cmd
<1> HIDE DEF c, d
<1>5. /\ WorkerTypeOK'
      /\ \E m : \A kinds : Adds(m, Pipe, c, kinds) /\ Sending(m, Pipe', d, kinds)
  BY <1>1, <1>4, TakeSendStep DEF c
<1>6. PICK m : \A kinds : Adds(m, Pipe, c, kinds) /\ Sending(m, Pipe', d, kinds)
  BY <1>5
<1>7. /\ RequestsIn(Pipe, FG) = RequestsIn(m, FG) \union {c}
      /\ SingleIn(Pipe, FG) <=> RequestsIn(m, FG) = {}
  <2>1. Adds(m, Pipe, c, F) /\ Adds(m, Pipe, c, G) /\ Adds(m, Pipe, c, FG) BY <1>6
  <2>2. c.kind \in FG BY <1>2 DEF FG
  <2> QED BY <2>1, <2>2, WeatherTaken
<1>8. d.kind \in F /\ d.kind \notin G /\ d.kind \in FG BY <1>2 DEF F, G, FG
<1>9. /\ RequestsIn(Pipe', F) = RequestsIn(m, F) \union (IF Room THEN {d} ELSE {})
      /\ RequestsIn(Pipe', G) = RequestsIn(m, G)
      /\ RequestsIn(Pipe', FG) = RequestsIn(m, FG) \union (IF Room THEN {d} ELSE {})
      /\ RequestsIn(m, FG) = {} => SingleIn(Pipe', FG)
  <2>1. Sending(m, Pipe', d, F) /\ Sending(m, Pipe', d, G) /\ Sending(m, Pipe', d, FG)
    BY <1>6
  <2>2. RequestsIn(m, FG) = {} => SingleIn(m, FG) BY DEF RequestsIn, SingleIn
  <2> QED BY <1>8, <2>1, <2>2 DEF Sending, Adds
<1>10. WeatherTypeOK'
  BY <1>1, <1>3, <1>5 DEF WeatherIInv, WeatherTypeOK, Persist
<1>11. OfCities'
  BY <1>2, <1>3, <1>7, <1>9 DEF WeatherIInv, OfCities
<1>12. WeatherHonest'
  BY <1>1, <1>9 DEF WeatherHonest
<1>13. ASSUME ~unpersisted' PROVE Guarded'
  <2>1. ~unpersisted /\ coords' = a
    BY <1>1, <1>13 DEF Persist, WeatherIInv, WeatherTypeOK
  <2>2. RequestsIn(m, FG) = {} /\ RequestsIn(m, F) = {} /\ RequestsIn(m, G) = {}
    BY <1>7, <2>1, EitherWeather DEF WeatherIInv, Guarded
  <2> QED BY <1>1, <1>2, <1>9, <2>1, <2>2 DEF Guarded, WeatherFlagged, Placed
<1> QED BY <1>10, <1>11, <1>12, <1>13 DEF WeatherIInv

LEMMA WeatherNextKeeps == WeatherIInv /\ [WeatherNext]_weatherVars => WeatherIInv'
<1> SUFFICES ASSUME WeatherIInv, [WeatherNext]_weatherVars PROVE WeatherIInv' OBVIOUS
<1>1. CASE WeatherWorker BY <1>1, WeatherWorkerKeeps
<1>2. CASE WeatherTick BY <1>2, DispatchFetchKeeps, DispatchGeocodeKeeps DEF WeatherTick
<1>3. CASE WeatherFetched \/ WeatherFailed BY <1>3, WeatherRepliesKeep
<1>4. CASE Geocoded BY <1>4, GeocodedKeeps
<1>5. CASE (\E c \in City : SetWeatherCity(c)) \/ WeatherAges \/ UNCHANGED weatherVars
  <2>1. UNCHANGED workerVars
        /\ UNCHANGED <<coords, weather_in_flight, geocode_in_flight, unpersisted>>
        /\ city' \in City /\ weather_cadence' \in {"fresh", "due", "backoff"}
    BY <1>5 DEF SetWeatherCity, WeatherAges, weatherVars, store, config, WeatherIInv, WeatherTypeOK
  <2>2. WorkerTypeOK' /\ Pipe' = Pipe
    BY <2>1 DEF workerVars, WorkerTypeOK, Pipe, WeatherIInv, WeatherTypeOK
  <2>3. Same(Pipe, Pipe', F) /\ Same(Pipe, Pipe', G) /\ Same(Pipe, Pipe', FG)
    BY <2>2 DEF Same
  <2> QED BY <2>1, <2>2, <2>3, WeatherQuietStep
<1> QED BY <1>1, <1>2, <1>3, <1>4, <1>5 DEF WeatherNext

LEMMA WeatherInvariant == WeatherSpec => []WeatherIInv
<1>1. WeatherInit => WeatherIInv BY WeatherInitEstablishes
<1>2. WeatherIInv /\ [WeatherNext]_weatherVars => WeatherIInv' BY WeatherNextKeeps
<1> QED BY <1>1, <1>2, PTL DEF WeatherSpec

-----------------------------------------------------------------------------
\* The state is well typed: no channel is ever overfilled.
THEOREM WeatherTypeCorrect == WeatherSpec => []WeatherTypeOK
<1>1. WeatherIInv => WeatherTypeOK BY DEF WeatherIInv
<1> QED BY <1>1, WeatherInvariant, PTL

\* A flag that is set stands for a request whose reply is still to come.
THEOREM WeatherFlagsTellTheTruth == WeatherSpec => []WeatherFlagsHonest
<1>1. WeatherIInv => WeatherFlagsHonest
  BY UnderWayIs DEF WeatherIInv, WeatherHonest, WeatherFlagsHonest, F, G
<1> QED BY <1>1, WeatherInvariant, PTL

\* Geocode and fetch exclude each other while coordinates can be stored.
THEOREM OneWeatherRequestAtATime == WeatherSpec => []OneWeatherRequest
<1>1. WeatherIInv => OneWeatherRequest
  BY UnderWayIs DEF WeatherIInv, Guarded, OneWeatherRequest, FG
<1> QED BY <1>1, WeatherInvariant, PTL

\* What is fetched is the weather of the place whose coordinates are stored.
THEOREM FetchesTheStoredPlace == WeatherSpec => []FetchedWhereStored
<1>1. WeatherIInv => FetchedWhereStored
  BY UnderWayIs DEF WeatherIInv, Guarded, Placed, FetchedWhereStored, F
<1> QED BY <1>1, WeatherInvariant, PTL

-----------------------------------------------------------------------------
(* The calendar.  Each flag guards its requests: without the flag none is  *)
(* under way, so that nothing is under way of fetches and pairings when    *)
(* one of them is sent.  What is said of the token and of the web page's   *)
(* status follows from there being one request at a time.  Where a device  *)
(* code is shown rests besides on the order of the pipeline (InOrder).     *)

E == {"FetchCalendarEvents"}
P == {"PairDeviceFlow"}
L == {"ListCalendars"}
EP == {"FetchCalendarEvents", "PairDeviceFlow"}

WebPairing == Cmd("PairDeviceFlow", "web")

Flagged ==
  /\ RequestsIn(Pipe, E) # {} => fetch_in_flight
  /\ RequestsIn(Pipe, P) # {} => pairing_in_flight
Honest ==
  /\ fetch_in_flight => RequestsIn(Pipe, E) # {}
  /\ pairing_in_flight /\ ~unsaved => RequestsIn(Pipe, P) # {}
Listed == disc_slot => RequestsIn(Pipe, L) # {}
Pending == pair_status = "pending" <=> WebPairing \in RequestsIn(Pipe, P)
Tokened == RequestsIn(Pipe, E) # {} => token

IInv ==
  /\ TypeOK /\ Flagged /\ Honest /\ SingleIn(Pipe, EP)
  /\ Listed /\ Pending /\ Tokened

LEMMA EitherRequest ==
  ASSUME NEW p PROVE RequestsIn(p, EP) = RequestsIn(p, E) \union RequestsIn(p, P)
BY EitherKind DEF E, P, EP

LEMMA NoneIsSingle ==
  ASSUME NEW p, NEW kinds, RequestsIn(p, kinds) = {} PROVE SingleIn(p, kinds)
BY DEF RequestsIn, SingleIn

\* The invariant speaks of the pipeline only through these four.
Alike(p, q) ==
  /\ RequestsIn(q, E) = RequestsIn(p, E)
  /\ RequestsIn(q, P) = RequestsIn(p, P)
  /\ RequestsIn(q, L) = RequestsIn(p, L)
  /\ SingleIn(q, EP) <=> SingleIn(p, EP)

LEMMA InitEstablishes == Init => IInv
<1> SUFFICES ASSUME Init PROVE IInv OBVIOUS
<1>1. WorkerInit BY DEF Init
<1>2. /\ WorkerTypeOK
      /\ RequestsIn(Pipe, E) = {} /\ RequestsIn(Pipe, P) = {} /\ RequestsIn(Pipe, L) = {}
      /\ SingleIn(Pipe, EP)
  BY <1>1, NothingUnderWay
<1> QED BY <1>2 DEF Init, IInv, TypeOK, Honest, Flagged, Listed, Pending, Tokened

\* A step that sends and takes nothing of the calendar's, and leaves alone
\* what guards its requests.
LEMMA QuietStep ==
  ASSUME IInv, TypeOK', Alike(Pipe, Pipe'), token' = token,
         UNCHANGED <<fetch_in_flight, pairing_in_flight, disc_slot, pair_status, unsaved>>
  PROVE  IInv'
BY DEF IInv, Honest, Flagged, Listed, Pending, Tokened, Alike

LEMMA WorkerKeeps == IInv /\ Worker => IInv'
<1> SUFFICES ASSUME IInv, Worker PROVE IInv' OBVIOUS
<1>1. WorkerTypeOK /\ WorkerNext BY DEF IInv, TypeOK, Worker
<1>2. /\ E \in SUBSET (Kind \ {"Mopidy"}) /\ P \in SUBSET (Kind \ {"Mopidy"})
      /\ L \in SUBSET (Kind \ {"Mopidy"}) /\ EP \in SUBSET (Kind \ {"Mopidy"})
  BY DEF E, P, L, EP, Kind
<1>3. /\ WorkerTypeOK' /\ Same(Pipe, Pipe', E) /\ Same(Pipe, Pipe', P)
      /\ Same(Pipe, Pipe', L) /\ Same(Pipe, Pipe', EP)
  BY <1>1, <1>2, WorkerStep
<1>4. Alike(Pipe, Pipe') BY <1>3 DEF Same, Alike
<1>5. TypeOK' BY <1>3 DEF Worker, state, slots, IInv, TypeOK
<1> QED BY <1>4, <1>5, QuietStep DEF Worker, state, slots

\* What becomes of the requests of a pipeline p to which c is sent.
LEMMA Requested ==
  ASSUME NEW p, NEW q, NEW c, NEW k,
         c.kind = k, k \in {"FetchCalendarEvents", "PairDeviceFlow", "ListCalendars"},
         \A kinds : Sending(p, q, c, kinds)
  PROVE  /\ ~Room => q = p
         /\ k # "FetchCalendarEvents" => RequestsIn(q, E) = RequestsIn(p, E)
         /\ k # "PairDeviceFlow" => RequestsIn(q, P) = RequestsIn(p, P)
         /\ k # "ListCalendars" => RequestsIn(q, L) = RequestsIn(p, L)
         /\ Room /\ k = "FetchCalendarEvents" => RequestsIn(q, E) = RequestsIn(p, E) \union {c}
         /\ Room /\ k = "PairDeviceFlow" => RequestsIn(q, P) = RequestsIn(p, P) \union {c}
         /\ Room /\ k = "ListCalendars" => RequestsIn(q, L) = RequestsIn(p, L) \union {c}
         /\ k = "ListCalendars" => (SingleIn(q, EP) <=> SingleIn(p, EP))
         /\ RequestsIn(p, EP) = {} => SingleIn(q, EP)
<1>1. Sending(p, q, c, E) /\ Sending(p, q, c, P) /\ Sending(p, q, c, L) /\ Sending(p, q, c, EP)
  OBVIOUS
<1>2. RequestsIn(p, EP) = {} => SingleIn(p, EP) BY NoneIsSingle
<1>3. CASE Room
  <2>1. Adds(p, q, c, E) /\ Adds(p, q, c, P) /\ Adds(p, q, c, L) /\ Adds(p, q, c, EP)
    BY <1>1, <1>3 DEF Sending
  <2> QED BY <1>2, <1>3, <2>1 DEF Adds, E, P, L, EP
<1>4. CASE ~Room
  <2>1. q = p BY <1>1, <1>4 DEF Sending
  <2> QED BY <1>2, <1>4, <2>1
<1> QED BY <1>3, <1>4

\* What becomes of those of a pipeline p from which c is taken.
LEMMA Replied ==
  ASSUME NEW p, NEW q, NEW c, NEW k,
         c.kind = k, \A kinds : Adds(q, p, c, kinds)
  PROVE  /\ k # "FetchCalendarEvents" => RequestsIn(q, E) = RequestsIn(p, E)
         /\ k # "PairDeviceFlow" => RequestsIn(q, P) = RequestsIn(p, P)
         /\ k # "ListCalendars" => RequestsIn(q, L) = RequestsIn(p, L)
         /\ SingleIn(p, EP) => SingleIn(q, EP)
         /\ k \in EP /\ SingleIn(p, EP) => RequestsIn(q, EP) = {}
<1>1. Adds(q, p, c, E) /\ Adds(q, p, c, P) /\ Adds(q, p, c, L) /\ Adds(q, p, c, EP)
  OBVIOUS
<1>2. RequestsIn(q, EP) = {} => SingleIn(q, EP) BY NoneIsSingle
<1> QED BY <1>1, <1>2 DEF Adds, E, P, L, EP

\* When no flag is set, nothing is under way.
LEMMA NothingFlagged ==
  ASSUME IInv, ~fetch_in_flight, ~pairing_in_flight
  PROVE  /\ RequestsIn(Pipe, E) = {} /\ RequestsIn(Pipe, P) = {}
         /\ RequestsIn(Pipe, EP) = {} /\ pair_status # "pending"
BY EitherRequest DEF IInv, Flagged, Pending

LEMMA CalendarCommands ==
  /\ Cmd("FetchCalendarEvents", NoArg) \in Command
  /\ Cmd("FetchCalendarEvents", NoArg).kind = "FetchCalendarEvents"
  /\ Cmd("ListCalendars", NoArg) \in Command
  /\ Cmd("ListCalendars", NoArg).kind = "ListCalendars"
  /\ \A a \in Asker : /\ Cmd("PairDeviceFlow", a) \in Command
                      /\ Cmd("PairDeviceFlow", a).kind = "PairDeviceFlow"
  /\ Cmd("PairDeviceFlow", "screen") # WebPairing
BY AskerAssumption DEF Cmd, Command, Kind, WebPairing, Asker

LEMMA RefreshTickKeeps == IInv /\ RefreshTick => IInv'
<1> SUFFICES ASSUME IInv, RefreshTick PROVE IInv' OBVIOUS
<1>1. UNCHANGED <<replies, job, stage, listening, signal, up>>
      /\ UNCHANGED <<pairing_in_flight, cadence, token, calendars,
                     pair_slot, pair_status, disc_slot, unsaved>>
      /\ MaybeDispatch(calendars) /\ WorkerTypeOK
  BY DEF RefreshTick, slots, IInv, TypeOK
<1> DEFINE c == Cmd("FetchCalendarEvents", NoArg)
<1>2. CASE Due /\ token /\ calendars /\ Sends(c)
           /\ fetch_in_flight' = Room /\ re_pair_needed' = re_pair_needed
  <2>1. c \in Command /\ c.kind = "FetchCalendarEvents" BY CalendarCommands
  <2> HIDE DEF c
  <2>2. WorkerTypeOK' /\ \A kinds : Sending(Pipe, Pipe', c, kinds)
    BY <1>1, <1>2, <2>1, SendStep
  <2>3. ~fetch_in_flight /\ ~pairing_in_flight BY <1>2 DEF Due
  <2>4. RequestsIn(Pipe, E) = {} /\ RequestsIn(Pipe, EP) = {}
    BY <2>3, NothingFlagged
  <2>5. /\ ~Room => Pipe' = Pipe
        /\ RequestsIn(Pipe', P) = RequestsIn(Pipe, P)
        /\ RequestsIn(Pipe', L) = RequestsIn(Pipe, L)
        /\ Room => RequestsIn(Pipe', E) = RequestsIn(Pipe, E) \union {c}
        /\ SingleIn(Pipe', EP)
    BY <2>1, <2>2, <2>4, Requested
  <2>6. TypeOK' BY <1>1, <1>2, <2>2 DEF IInv, TypeOK, Room
  <2> QED BY <1>1, <1>2, <2>4, <2>5, <2>6
          DEF IInv, Honest, Flagged, Listed, Pending, Tokened
<1>3. CASE re_pair_needed' = (re_pair_needed \/ (Due /\ ~token))
           /\ UNCHANGED <<cmds, fetch_in_flight>>
  <2>1. TypeOK' BY <1>1, <1>3 DEF IInv, TypeOK, WorkerTypeOK, Due
  <2>2. Alike(Pipe, Pipe') BY <1>1, <1>3 DEF Pipe, Alike
  <2> QED BY <1>1, <1>3, <2>1, <2>2, QuietStep
<1> QED BY <1>1, <1>2, <1>3 DEF MaybeDispatch

LEMMA PairKeeps == IInv /\ (PairCalendarsTapped \/ PairCalendar) => IInv'
<1> SUFFICES ASSUME IInv, PairCalendarsTapped \/ PairCalendar PROVE IInv' OBVIOUS
<1>1. PICK a \in Asker :
        /\ Sends(Cmd("PairDeviceFlow", a)) /\ pairing_in_flight' = Room
        /\ pair_status' = IF a = "screen" THEN pair_status
                          ELSE IF Room THEN "pending" ELSE "error"
        /\ pair_slot' \in {pair_slot, Room}
  BY DEF PairCalendarsTapped, PairCalendar, Asker, slots
<1>0. /\ pair_slot' \in BOOLEAN /\ pairing_in_flight' \in BOOLEAN
      /\ pair_status' \in {"idle", "pending", "paired", "error"}
  <2>1. Room \in BOOLEAN /\ pair_slot \in BOOLEAN
        /\ pair_status \in {"idle", "pending", "paired", "error"}
    BY DEF Room, IInv, TypeOK
  <2> QED BY <1>1, <2>1
<1>2. /\ UNCHANGED <<replies, job, stage, listening, signal, up>>
      /\ UNCHANGED <<fetch_in_flight, re_pair_needed, cadence, token, calendars,
                     disc_slot, unsaved>>
      /\ ~fetch_in_flight /\ ~pairing_in_flight /\ WorkerTypeOK
  BY DEF PairCalendarsTapped, PairCalendar, MayPair, slots, IInv, TypeOK
<1> DEFINE c == Cmd("PairDeviceFlow", a)
<1>3. c \in Command /\ c.kind = "PairDeviceFlow" /\ (a = "screen" => c # WebPairing)
      /\ (a # "screen" => c = WebPairing)
  BY CalendarCommands DEF Asker, WebPairing
<1>4. Sends(c) BY <1>1
<1> HIDE DEF c
<1>5. WorkerTypeOK' /\ \A kinds : Sending(Pipe, Pipe', c, kinds)
  BY <1>2, <1>3, <1>4, SendStep
<1>6. /\ RequestsIn(Pipe, E) = {} /\ RequestsIn(Pipe, P) = {}
      /\ RequestsIn(Pipe, EP) = {} /\ pair_status # "pending"
  BY <1>2, NothingFlagged
<1>7. /\ ~Room => Pipe' = Pipe
      /\ RequestsIn(Pipe', E) = RequestsIn(Pipe, E)
      /\ RequestsIn(Pipe', L) = RequestsIn(Pipe, L)
      /\ Room => RequestsIn(Pipe', P) = RequestsIn(Pipe, P) \union {c}
      /\ SingleIn(Pipe', EP)
  BY <1>3, <1>5, <1>6, Requested
<1>8. TypeOK' BY <1>0, <1>2, <1>5 DEF IInv, TypeOK
<1>9. Pending'
  <2>1. CASE Room
    <3>1. RequestsIn(Pipe', P) = {c} BY <1>6, <1>7, <2>1
    <3>2. pair_status' = "pending" <=> a # "screen" BY <1>1, <1>6, <2>1
    <3> QED BY <1>3, <3>1, <3>2 DEF Pending
  <2>2. CASE ~Room
    <3>1. RequestsIn(Pipe', P) = {} BY <1>6, <1>7, <2>2
    <3>2. pair_status' # "pending" BY <1>1, <1>6, <2>2
    <3> QED BY <3>1, <3>2 DEF Pending
  <2> QED BY <2>1, <2>2
<1>10. Room \in BOOLEAN BY DEF Room
<1> QED BY <1>1, <1>2, <1>6, <1>7, <1>8, <1>9, <1>10
        DEF IInv, Honest, Flagged, Listed, Tokened

LEMMA DiscoverKeeps == IInv /\ DiscoverCalendars => IInv'
<1> SUFFICES ASSUME IInv, DiscoverCalendars PROVE IInv' OBVIOUS
<1> DEFINE c == Cmd("ListCalendars", NoArg)
<1>1. /\ UNCHANGED <<replies, job, stage, listening, signal, up>>
      /\ UNCHANGED <<fetch_in_flight, pairing_in_flight, re_pair_needed, cadence,
                     token, calendars, pair_slot, pair_status, unsaved>>
      /\ Sends(c) /\ disc_slot' = Room /\ WorkerTypeOK /\ Room \in BOOLEAN
  BY DEF DiscoverCalendars, state, IInv, TypeOK, Room
<1>2. c \in Command /\ c.kind = "ListCalendars" BY CalendarCommands
<1> HIDE DEF c
<1>3. WorkerTypeOK' /\ \A kinds : Sending(Pipe, Pipe', c, kinds)
  BY <1>1, <1>2, SendStep
<1>4. /\ RequestsIn(Pipe', E) = RequestsIn(Pipe, E)
      /\ RequestsIn(Pipe', P) = RequestsIn(Pipe, P)
      /\ Room => RequestsIn(Pipe', L) = RequestsIn(Pipe, L) \union {c}
      /\ SingleIn(Pipe', EP) <=> SingleIn(Pipe, EP)
  BY <1>2, <1>3, Requested
<1>5. TypeOK' BY <1>1, <1>3 DEF IInv, TypeOK
<1> QED BY <1>1, <1>4, <1>5 DEF IInv, Honest, Flagged, Listed, Pending, Tokened

\* A reply is taken: what a step that sends nothing finds afterwards.
LEMMA TakesReply ==
  ASSUME IInv, replies # <<>>, replies' = Tail(replies),
         UNCHANGED <<cmds, job, stage, listening, signal, up>>,
         NEW k, Head(replies).kind = k
  PROVE  /\ WorkerTypeOK'
         /\ k # "FetchCalendarEvents" => RequestsIn(Pipe', E) = RequestsIn(Pipe, E)
         /\ k # "PairDeviceFlow" => RequestsIn(Pipe', P) = RequestsIn(Pipe, P)
         /\ k # "ListCalendars" => RequestsIn(Pipe', L) = RequestsIn(Pipe, L)
         /\ SingleIn(Pipe', EP)
         /\ k \in EP => RequestsIn(Pipe', E) = {} /\ RequestsIn(Pipe', P) = {}
<1> DEFINE c == Cmd(Head(replies).kind, Head(replies).arg)
<1>1. c.kind = k BY DEF Cmd
<1>2. WorkerTypeOK /\ SingleIn(Pipe, EP) BY DEF IInv, TypeOK
<1> HIDE DEF c
<1>3. WorkerTypeOK' /\ \A kinds : Adds(Pipe', Pipe, c, kinds)
  BY <1>2, TakeStep DEF c
<1>4. /\ k # "FetchCalendarEvents" => RequestsIn(Pipe', E) = RequestsIn(Pipe, E)
      /\ k # "PairDeviceFlow" => RequestsIn(Pipe', P) = RequestsIn(Pipe, P)
      /\ k # "ListCalendars" => RequestsIn(Pipe', L) = RequestsIn(Pipe, L)
      /\ SingleIn(Pipe', EP)
      /\ k \in EP => RequestsIn(Pipe', EP) = {}
  BY <1>1, <1>2, <1>3, Replied
<1> QED BY <1>3, <1>4, EitherRequest

LEMMA CalendarEventsKeep == IInv /\ CalendarEvents => IInv'
<1> SUFFICES ASSUME IInv, CalendarEvents PROVE IInv' OBVIOUS
<1>1. /\ replies # <<>> /\ replies' = Tail(replies) /\ Head(replies).kind = "FetchCalendarEvents"
      /\ UNCHANGED <<cmds, job, stage, listening, signal, up>>
      /\ fetch_in_flight' = FALSE
      /\ UNCHANGED <<pairing_in_flight, calendars, pair_slot, pair_status, disc_slot, unsaved>>
      /\ re_pair_needed' \in {re_pair_needed, TRUE, FALSE}
      /\ cadence' \in {"fresh", "backoff", cadence} /\ token' \in {token, FALSE}
  BY DEF CalendarEvents, Takes, slots
<1>2. /\ WorkerTypeOK' /\ RequestsIn(Pipe', L) = RequestsIn(Pipe, L) /\ SingleIn(Pipe', EP)
      /\ RequestsIn(Pipe', E) = {} /\ RequestsIn(Pipe', P) = {}
      /\ RequestsIn(Pipe', P) = RequestsIn(Pipe, P)
  BY <1>1, TakesReply DEF EP
<1>3. TypeOK' BY <1>1, <1>2 DEF IInv, TypeOK
<1> QED BY <1>1, <1>2, <1>3 DEF IInv, Honest, Flagged, Listed, Pending, Tokened

LEMMA DeviceCodeKeeps == IInv /\ DeviceCode => IInv'
<1> SUFFICES ASSUME IInv, DeviceCode PROVE IInv' OBVIOUS
<1>1. /\ replies # <<>> /\ replies' = Tail(replies) /\ Head(replies).kind = "DeviceCode"
      /\ UNCHANGED <<cmds, job, stage, listening, signal, up>>
      /\ UNCHANGED <<fetch_in_flight, pairing_in_flight, re_pair_needed, cadence, token,
                     calendars, pair_status, disc_slot, unsaved>>
      /\ pair_slot' = FALSE
  BY DEF DeviceCode, Takes, state
<1>2. /\ WorkerTypeOK' /\ RequestsIn(Pipe', E) = RequestsIn(Pipe, E)
      /\ RequestsIn(Pipe', P) = RequestsIn(Pipe, P)
      /\ RequestsIn(Pipe', L) = RequestsIn(Pipe, L) /\ SingleIn(Pipe', EP)
  BY <1>1, TakesReply
<1>3. TypeOK' BY <1>1, <1>2 DEF IInv, TypeOK
<1> QED BY <1>1, <1>2, <1>3 DEF IInv, Honest, Flagged, Listed, Pending, Tokened

LEMMA PairingEndsKeep == IInv /\ (PairedUnsaved \/ PairingFailed) => IInv'
<1> SUFFICES ASSUME IInv, PairedUnsaved \/ PairingFailed PROVE IInv' OBVIOUS
<1>1. /\ replies # <<>> /\ replies' = Tail(replies) /\ Head(replies).kind = "PairDeviceFlow"
      /\ UNCHANGED <<cmds, job, stage, listening, signal, up>>
      /\ UNCHANGED <<fetch_in_flight, re_pair_needed, cadence, calendars, disc_slot>>
      /\ pair_status' = "error" /\ pair_slot' \in {pair_slot, FALSE} /\ token' \in {token, TRUE}
      /\ \/ pairing_in_flight' = pairing_in_flight /\ unsaved' = TRUE
         \/ pairing_in_flight' = FALSE /\ unsaved' = unsaved
  BY DEF PairedUnsaved, PairingFailed, Takes, state
<1>2. /\ WorkerTypeOK' /\ RequestsIn(Pipe', L) = RequestsIn(Pipe, L) /\ SingleIn(Pipe', EP)
      /\ RequestsIn(Pipe', E) = {} /\ RequestsIn(Pipe', P) = {}
      /\ RequestsIn(Pipe', E) = RequestsIn(Pipe, E)
  BY <1>1, TakesReply DEF EP
<1>3. TypeOK' BY <1>1, <1>2 DEF IInv, TypeOK
<1> QED BY <1>1, <1>2, <1>3 DEF IInv, Honest, Flagged, Listed, Pending, Tokened

\* A reply is taken and a command sent.
LEMMA TakesAndSends ==
  ASSUME IInv, replies # <<>>, replies' = Tail(replies),
         UNCHANGED <<job, stage, listening, signal, up>>,
         NEW k, Head(replies).kind = k, NEW c \in Command, Sends(c)
  PROVE  /\ WorkerTypeOK'
         /\ \E m :
              /\ k # "FetchCalendarEvents" => RequestsIn(m, E) = RequestsIn(Pipe, E)
              /\ k # "PairDeviceFlow" => RequestsIn(m, P) = RequestsIn(Pipe, P)
              /\ k # "ListCalendars" => RequestsIn(m, L) = RequestsIn(Pipe, L)
              /\ SingleIn(m, EP)
              /\ k \in EP => RequestsIn(m, E) = {} /\ RequestsIn(m, P) = {}
              /\ \A kinds : Sending(m, Pipe', c, kinds)
<1> DEFINE d == Cmd(Head(replies).kind, Head(replies).arg)
<1>1. d.kind = k BY DEF Cmd
<1>2. WorkerTypeOK /\ SingleIn(Pipe, EP) BY DEF IInv, TypeOK
<1> HIDE DEF d
<1>3. /\ WorkerTypeOK'
      /\ \E m : \A kinds : Adds(m, Pipe, d, kinds) /\ Sending(m, Pipe', c, kinds)
  BY <1>2, TakeSendStep DEF d
<1>4. PICK m : \A kinds : Adds(m, Pipe, d, kinds) /\ Sending(m, Pipe', c, kinds)
  BY <1>3
<1>5. /\ k # "FetchCalendarEvents" => RequestsIn(m, E) = RequestsIn(Pipe, E)
      /\ k # "PairDeviceFlow" => RequestsIn(m, P) = RequestsIn(Pipe, P)
      /\ k # "ListCalendars" => RequestsIn(m, L) = RequestsIn(Pipe, L)
      /\ SingleIn(m, EP)
      /\ k \in EP => RequestsIn(m, EP) = {}
  BY <1>1, <1>2, <1>4, Replied
<1> QED BY <1>3, <1>4, <1>5, EitherRequest

LEMMA PairedKeeps == IInv /\ Paired => IInv'
<1> SUFFICES ASSUME IInv, Paired PROVE IInv' OBVIOUS
<1> DEFINE c == Cmd("ListCalendars", NoArg)
<1>1. /\ replies # <<>> /\ replies' = Tail(replies) /\ Head(replies).kind = "PairDeviceFlow"
      /\ UNCHANGED <<job, stage, listening, signal, up>> /\ Sends(c)
      /\ UNCHANGED <<cadence, calendars, pair_slot, disc_slot, unsaved>>
      /\ re_pair_needed' = FALSE /\ pairing_in_flight' = FALSE /\ fetch_in_flight' = FALSE
      /\ token' = TRUE /\ pair_status' = "paired"
  BY DEF Paired, Takes
<1>2. c \in Command /\ c.kind = "ListCalendars" BY CalendarCommands
<1> HIDE DEF c
<1>3. WorkerTypeOK' BY <1>1, <1>2, TakesAndSends
<1>4. PICK m : /\ RequestsIn(m, L) = RequestsIn(Pipe, L) /\ SingleIn(m, EP)
               /\ RequestsIn(m, E) = {} /\ RequestsIn(m, P) = {}
               /\ \A kinds : Sending(m, Pipe', c, kinds)
  BY <1>1, <1>2, TakesAndSends DEF EP
<1>5. /\ ~Room => Pipe' = m
      /\ RequestsIn(Pipe', E) = {} /\ RequestsIn(Pipe', P) = {}
      /\ Room => RequestsIn(Pipe', L) = RequestsIn(m, L) \union {c}
      /\ SingleIn(Pipe', EP)
  <2>1. /\ ~Room => Pipe' = m
        /\ RequestsIn(Pipe', E) = RequestsIn(m, E)
        /\ RequestsIn(Pipe', P) = RequestsIn(m, P)
        /\ Room => RequestsIn(Pipe', L) = RequestsIn(m, L) \union {c}
        /\ SingleIn(Pipe', EP) <=> SingleIn(m, EP)
    BY <1>2, <1>4, Requested
  <2> QED BY <1>4, <2>1
<1>6. TypeOK' BY <1>1, <1>3 DEF IInv, TypeOK
<1>7. Listed' BY <1>1, <1>4, <1>5 DEF IInv, Listed
<1> QED BY <1>1, <1>5, <1>6, <1>7 DEF IInv, Honest, Flagged, Pending, Tokened

LEMMA ListDiscoveredKeeps == IInv /\ ListDiscovered => IInv'
<1> SUFFICES ASSUME IInv, ListDiscovered PROVE IInv' OBVIOUS
<1>1. /\ replies # <<>> /\ replies' = Tail(replies) /\ Head(replies).kind = "ListCalendars"
      /\ UNCHANGED <<cmds, job, stage, listening, signal, up>>
      /\ UNCHANGED <<fetch_in_flight, pairing_in_flight, re_pair_needed, cadence, token,
                     calendars, pair_slot, pair_status, unsaved>>
      /\ disc_slot' = FALSE
  BY DEF ListDiscovered, TakesList, Takes, state
<1>2. /\ WorkerTypeOK' /\ RequestsIn(Pipe', E) = RequestsIn(Pipe, E)
      /\ RequestsIn(Pipe', P) = RequestsIn(Pipe, P) /\ SingleIn(Pipe', EP)
  BY <1>1, TakesReply
<1>3. TypeOK' BY <1>1, <1>2 DEF IInv, TypeOK
<1> QED BY <1>1, <1>2, <1>3 DEF IInv, Honest, Flagged, Listed, Pending, Tokened

LEMMA AutoSeedKeeps == IInv /\ AutoSeed => IInv'
<1> SUFFICES ASSUME IInv, AutoSeed PROVE IInv' OBVIOUS
<1>1. /\ replies # <<>> /\ replies' = Tail(replies) /\ Head(replies).kind = "ListCalendars"
      /\ UNCHANGED <<job, stage, listening, signal, up>>
      /\ UNCHANGED <<pairing_in_flight, cadence, token, pair_slot, pair_status,
                     disc_slot, unsaved>>
      /\ disc_slot = FALSE /\ calendars' \in {calendars, TRUE} /\ MaybeDispatch(calendars')
  BY DEF AutoSeed, TakesList, Takes, slots, IInv, TypeOK
<1> DEFINE c == Cmd("FetchCalendarEvents", NoArg)
<1>2. CASE Due /\ token /\ calendars' /\ Sends(c)
           /\ fetch_in_flight' = Room /\ re_pair_needed' = re_pair_needed
  <2>1. c \in Command /\ c.kind = "FetchCalendarEvents" BY CalendarCommands
  <2> HIDE DEF c
  <2>2. WorkerTypeOK' BY <1>1, <1>2, <2>1, TakesAndSends
  <2>3. PICK m : /\ RequestsIn(m, E) = RequestsIn(Pipe, E)
                 /\ RequestsIn(m, P) = RequestsIn(Pipe, P)
                 /\ \A kinds : Sending(m, Pipe', c, kinds)
    BY <1>1, <1>2, <2>1, TakesAndSends
  <2>4. ~fetch_in_flight /\ ~pairing_in_flight BY <1>2 DEF Due
  <2>5. RequestsIn(m, E) = {} /\ RequestsIn(m, EP) = {} /\ RequestsIn(Pipe, E) = {}
    BY <2>3, <2>4, NothingFlagged, EitherRequest
  <2>6. /\ ~Room => Pipe' = m
        /\ RequestsIn(Pipe', P) = RequestsIn(m, P)
        /\ Room => RequestsIn(Pipe', E) = RequestsIn(m, E) \union {c}
        /\ SingleIn(Pipe', EP)
    BY <2>1, <2>3, <2>5, Requested
  <2>7. TypeOK' BY <1>1, <1>2, <2>2 DEF IInv, TypeOK, Room
  <2> QED BY <1>1, <1>2, <2>3, <2>5, <2>6, <2>7
          DEF IInv, Honest, Flagged, Listed, Pending, Tokened
<1>3. CASE re_pair_needed' = (re_pair_needed \/ (Due /\ ~token))
           /\ UNCHANGED <<cmds, fetch_in_flight>>
  <2>1. /\ WorkerTypeOK' /\ RequestsIn(Pipe', E) = RequestsIn(Pipe, E)
        /\ RequestsIn(Pipe', P) = RequestsIn(Pipe, P) /\ SingleIn(Pipe', EP)
    BY <1>1, <1>3, TakesReply
  <2>2. TypeOK' BY <1>1, <1>3, <2>1 DEF IInv, TypeOK, Due
  <2> QED BY <1>1, <1>3, <2>1, <2>2 DEF IInv, Honest, Flagged, Listed, Pending, Tokened
<1> QED BY <1>1, <1>2, <1>3 DEF MaybeDispatch

LEMMA NextKeeps == IInv /\ [Next]_vars => IInv'
<1> SUFFICES ASSUME IInv, [Next]_vars PROVE IInv' OBVIOUS
<1>1. CASE Worker BY <1>1, WorkerKeeps
<1>2. CASE RefreshTick BY <1>2, RefreshTickKeeps
<1>3. CASE PairCalendarsTapped \/ PairCalendar BY <1>3, PairKeeps
<1>4. CASE DiscoverCalendars BY <1>4, DiscoverKeeps
<1>5. CASE CalendarEvents BY <1>5, CalendarEventsKeep
<1>6. CASE Pairing BY <1>6, DeviceCodeKeeps, PairedKeeps, PairingEndsKeep DEF Pairing
<1>7. CASE Listing BY <1>7, ListDiscoveredKeeps, AutoSeedKeeps DEF Listing
<1>8. CASE EditCalendars \/ Ages \/ UNCHANGED vars
  <2>1. UNCHANGED workerVars
        /\ UNCHANGED <<fetch_in_flight, pairing_in_flight, re_pair_needed, token,
                       pair_slot, pair_status, disc_slot, unsaved>>
        /\ calendars' \in BOOLEAN /\ cadence' \in {"fresh", "due", "backoff"}
    BY <1>8 DEF EditCalendars, Ages, vars, state, slots, IInv, TypeOK
  <2>2. Alike(Pipe, Pipe') BY <2>1 DEF workerVars, Pipe, Alike
  <2>3. TypeOK' BY <2>1 DEF workerVars, WorkerTypeOK, IInv, TypeOK
  <2> QED BY <2>1, <2>2, <2>3, QuietStep
<1> QED BY <1>1, <1>2, <1>3, <1>4, <1>5, <1>6, <1>7, <1>8 DEF Next

LEMMA Invariant == Spec => []IInv
<1>1. Init => IInv BY InitEstablishes
<1>2. IInv /\ [Next]_vars => IInv' BY NextKeeps
<1> QED BY <1>1, <1>2, PTL DEF Spec

-----------------------------------------------------------------------------
\* The state is well typed: no channel is ever overfilled.
THEOREM TypeCorrect == Spec => []TypeOK
<1>1. IInv => TypeOK BY DEF IInv
<1> QED BY <1>1, Invariant, PTL

\* A flag that is set stands for a request whose reply is still to come.
THEOREM FlagsTellTheTruth == Spec => []FlagsHonest
<1>1. IInv => FlagsHonest
  BY UnderWayIs DEF IInv, Honest, FlagsHonest, E, P
<1> QED BY <1>1, Invariant, PTL

\* Fetch and pairing exclude each other, wherever they were started.
THEOREM OneRequestAtATime == Spec => []OneRequest
<1>1. IInv => OneRequest
  BY UnderWayIs DEF IInv, OneRequest, EP
<1> QED BY <1>1, Invariant, PTL

\* The web page's poll says "pending" exactly while its pairing has not ended.
THEOREM StatusTellsTheTruth == Spec => []StatusHonest
<1>1. IInv => StatusHonest
  BY UnderWayIs DEF IInv, Pending, StatusHonest, WebPairing, P
<1> QED BY <1>1, Invariant, PTL

\* A web client that waits for a list has one under way.
THEOREM WaitsForAList == Spec => []DiscoveryUnderWay
<1>1. IInv => DiscoveryUnderWay
  BY UnderWayIs DEF IInv, Listed, DiscoveryUnderWay, L
<1> QED BY <1>1, Invariant, PTL

\* The prompt to pair again stands until there is a token again: while there is
\* none, no fetch is under way whose success could take it away.
THEOREM PromptIsKept == Spec => PromptStands
<1>1. IInv /\ [Next]_vars => (re_pair_needed /\ ~token' => re_pair_needed')
  <2> SUFFICES ASSUME IInv, [Next]_vars, re_pair_needed, ~token' PROVE re_pair_needed'
    OBVIOUS
  <2>1. CASE CalendarEvents
    <3>1. /\ replies # <<>> /\ Head(replies).kind = "FetchCalendarEvents"
          /\ replies' = Tail(replies) /\ UNCHANGED <<cmds, job, stage, listening, signal, up>>
      BY <2>1 DEF CalendarEvents, Takes
    <3> DEFINE c == Cmd(Head(replies).kind, Head(replies).arg)
    <3>2. c.kind = "FetchCalendarEvents" BY <3>1 DEF Cmd
    <3> HIDE DEF c
    <3>3. Adds(Pipe', Pipe, c, E) BY <3>1, TakeStep DEF IInv, TypeOK, c
    <3>4. c \in RequestsIn(Pipe, E) BY <3>2, <3>3 DEF Adds, E
    <3>5. token BY <3>4 DEF IInv, Tokened
    <3> QED BY <2>1, <3>5 DEF CalendarEvents
  <2>2. CASE RefreshTick \/ AutoSeed
    BY <2>2 DEF RefreshTick, AutoSeed, MaybeDispatch
  <2>3. CASE Paired
    BY <2>3 DEF Paired
  <2>4. CASE Worker \/ PairCalendarsTapped \/ PairCalendar \/ DiscoverCalendars
             \/ EditCalendars \/ DeviceCode \/ PairedUnsaved \/ PairingFailed
             \/ ListDiscovered \/ Ages \/ UNCHANGED vars
    BY <2>4 DEF Worker, PairCalendarsTapped, PairCalendar, DiscoverCalendars, EditCalendars,
                DeviceCode, PairedUnsaved, PairingFailed, ListDiscovered, Ages, vars, state
  <2> QED BY <2>1, <2>2, <2>3, <2>4 DEF Next, Pairing, Listing
<1> QED BY <1>1, Invariant, PTL DEF Spec, PromptStands

-----------------------------------------------------------------------------
(* The device code of a pairing.  A pairing waits until its code is asked  *)
(* for; from there on the code, while main has not seen it, is ahead of    *)
(* the pairing.  A parked sender belongs to a pairing that waits, to a     *)
(* code that main has not seen, or to a pairing that failed without one.   *)

Place == 1 .. Len(replies)
Code(i) == replies[i].kind = "DeviceCode"
Ended(i) == replies[i].kind = "PairDeviceFlow"
At(c, s) == job # <<>> /\ job[1] = c /\ stage = s
Polls(a) == At(Cmd("PairDeviceFlow", a), "polling")
Queued == \E i \in 1 .. Len(cmds) : cmds[i] = WebPairing
Waits == Queued \/ At(WebPairing, "asked")

OneCode == \A i, j \in Place : Code(i) /\ Code(j) => i = j
CodeMeets == \A i \in Place : Code(i) => (pair_slot <=> replies[i].arg = "web")
CodeBefore ==
  \A i \in Place : Code(i) =>
    \/ Polls(replies[i].arg)
    \/ \E j \in Place : i < j /\ Ended(j) /\ replies[j].arg = replies[i].arg
Slotted ==
  pair_slot =>
    \/ Waits \/ \E i \in Place : Code(i)
    \/ \E i \in Place : Ended(i) /\ replies[i].arg = "web" /\ replies[i].out = "err"

InOrder == OneCode /\ CodeMeets /\ CodeBefore /\ Slotted /\ (Waits => pair_slot)

\* Where the pipeline holds what.
LEMMA Where ==
  ASSUME WorkerTypeOK
  PROVE  /\ Len(replies) \in Nat /\ Len(cmds) \in Nat
         /\ \A i \in Place : i \in 1 .. Len(Pipe) /\ Pipe[i] = Cmd(replies[i].kind, replies[i].arg)
         /\ job # <<>> => /\ job[1] \in Command
                          /\ Len(replies) + 1 \in 1 .. Len(Pipe) /\ Pipe[Len(replies) + 1] = job[1]
         /\ \A i \in 1 .. Len(cmds) :
              \E n \in 1 .. Len(Pipe) : /\ n > Len(replies) /\ Pipe[n] = cmds[i]
                                        /\ job # <<>> => n > Len(replies) + 1
<1>1. /\ cmds \in Seq(Command) /\ replies \in Seq(Reply) /\ job \in Seq(Command)
      /\ Len(cmds) \in Nat /\ Len(replies) \in Nat /\ Len(job) \in Nat /\ Len(job) <= 1
  BY DEF WorkerTypeOK
<1>2. Holds(Pipe, replies, job, cmds) BY <1>1, PipelineHolds DEF Pipe
<1>3. ASSUME job # <<>> PROVE Len(job) = 1 /\ job[1] \in Command
  <2>1. Tail(job) \in Seq(Command) /\ Len(Tail(job)) = Len(job) - 1
    BY <1>1, <1>3, HeadTailProperties
  <2>2. Len(Tail(job)) \in Nat BY <2>1
  <2>3. Len(job) = 1 BY <1>1, <2>1, <2>2
  <2>4. 1 \in 1 .. Len(job) BY <2>3
  <2>5. job[1] \in Command BY ONLY <1>1, <2>4, ElementOfSeq
  <2> QED BY <2>3, <2>5
<1> DEFINE p == Pipe
           m == Len(replies) + Len(job)
<1>4. /\ m \in Nat /\ Len(replies) <= m /\ Len(p) = m + Len(cmds)
      /\ job # <<>> => m = Len(replies) + 1
  BY <1>1, <1>2, <1>3 DEF Holds
<1>5. \A i \in 1 .. m + Len(cmds) :
        p[i] = IF i <= Len(replies) THEN Cmd(replies[i].kind, replies[i].arg)
               ELSE IF i <= m THEN job[i - Len(replies)] ELSE cmds[i - m]
  BY <1>2 DEF Holds
<1> HIDE DEF p, m
<1>6. ASSUME NEW i \in Place
      PROVE  i \in 1 .. Len(p) /\ p[i] = Cmd(replies[i].kind, replies[i].arg)
  BY <1>1, <1>4, <1>5 DEF Place
<1>7. ASSUME job # <<>>
      PROVE  Len(replies) + 1 \in 1 .. Len(p) /\ p[Len(replies) + 1] = job[1]
  <2>1. /\ Len(replies) + 1 \in 1 .. m + Len(cmds) /\ ~(Len(replies) + 1 <= Len(replies))
        /\ Len(replies) + 1 <= m /\ (Len(replies) + 1) - Len(replies) = 1
    BY <1>1, <1>4, <1>7
  <2> QED BY <1>4, <1>5, <2>1
<1>8. ASSUME NEW i \in 1 .. Len(cmds)
      PROVE  \E n \in 1 .. Len(p) : /\ n > Len(replies) /\ p[n] = cmds[i]
                                    /\ job # <<>> => n > Len(replies) + 1
  <2>1. /\ m + i \in 1 .. m + Len(cmds) /\ m + i > Len(replies) /\ ~(m + i <= Len(replies))
        /\ ~(m + i <= m) /\ (m + i) - m = i /\ (job # <<>> => m + i > Len(replies) + 1)
    BY <1>1, <1>4
  <2>2. p[m + i] = cmds[i] BY <1>5, <2>1
  <2> QED BY <1>4, <2>1, <2>2
<1> QED BY <1>1, <1>3, <1>6, <1>7, <1>8 DEF p

\* What is in the pipeline is under way.
LEMMA Members ==
  ASSUME WorkerTypeOK
  PROVE  /\ \A i \in Place : Ended(i) =>
              Cmd("PairDeviceFlow", replies[i].arg) \in RequestsIn(Pipe, P)
         /\ job # <<>> /\ job[1].kind = "PairDeviceFlow" => job[1] \in RequestsIn(Pipe, P)
         /\ \A i \in 1 .. Len(cmds) :
              cmds[i].kind = "PairDeviceFlow" => cmds[i] \in RequestsIn(Pipe, P)
BY Where DEF RequestsIn, P, Ended, Cmd

\* There is one pairing: at one place of the replies, or at the dispatcher, or
\* in the queue.
LEMMA Apart ==
  ASSUME WorkerTypeOK, SingleIn(Pipe, EP)
  PROVE  /\ \A i, j \in Place : Ended(i) /\ Ended(j) => i = j
         /\ (\E i \in Place : Ended(i)) =>
              ~Queued /\ ~(job # <<>> /\ job[1].kind = "PairDeviceFlow")
         /\ job # <<>> /\ job[1].kind = "PairDeviceFlow" => ~Queued
<1>1. \A m, n \in 1 .. Len(Pipe) :
        Pipe[m].kind = "PairDeviceFlow" /\ Pipe[n].kind = "PairDeviceFlow" => m = n
  BY DEF SingleIn, EP
<1>2. \A i \in Place : Ended(i) => i \in 1 .. Len(Pipe) /\ Pipe[i].kind = "PairDeviceFlow"
  <2>1. \A k, a : Cmd(k, a).kind = k BY DEF Cmd
  <2> QED BY <2>1, Where DEF Ended
<1>3. Queued => \E n \in 1 .. Len(Pipe) : /\ n > Len(replies) /\ Pipe[n].kind = "PairDeviceFlow"
                                          /\ job # <<>> => n > Len(replies) + 1
  BY Where DEF Queued, WebPairing, Cmd
<1>4. job # <<>> /\ job[1].kind = "PairDeviceFlow" =>
        Len(replies) + 1 \in 1 .. Len(Pipe) /\ Pipe[Len(replies) + 1].kind = "PairDeviceFlow"
  BY Where
<1>5. Len(replies) \in Nat BY Where
<1>6. \A i \in Place : ~(i > Len(replies)) /\ i # Len(replies) + 1
  BY <1>5 DEF Place
<1>7. \A n : n > Len(replies) + 1 => n # Len(replies) + 1 BY <1>5
<1> QED BY <1>1, <1>2, <1>3, <1>4, <1>6, <1>7

LEMMA InitOrders == Init => InOrder
<1> SUFFICES ASSUME Init PROVE InOrder OBVIOUS
<1>1. Len(replies) = 0 /\ Len(cmds) = 0 /\ job = <<>> /\ pair_slot = FALSE
  BY DEF Init, WorkerInit
<1>2. Place = {} /\ 1 .. Len(cmds) = {} BY <1>1 DEF Place
<1> QED BY <1>1, <1>2 DEF InOrder, OneCode, CodeMeets, CodeBefore, Slotted, Waits, Queued, At

\* A step that touches no pairing and no code: replies of other kinds come and
\* go, and the rest stays as it is.
Other(r) == r.kind \notin {"DeviceCode", "PairDeviceFlow"}

LEMMA Moved ==
  ASSUME WorkerTypeOK, InOrder,
         pair_slot' = pair_slot, Waits' <=> Waits, \A a : Polls(a)' <=> Polls(a),
         \/ replies' = replies
         \/ replies # <<>> /\ replies' = Tail(replies) /\ Other(Head(replies))
         \/ \E r : replies' = Append(replies, r) /\ Other(r)
  PROVE  InOrder'
<1>0. replies \in Seq(Reply) /\ Len(replies) \in Nat BY DEF WorkerTypeOK
<1>1. CASE replies' = replies
  BY <1>1 DEF InOrder, OneCode, CodeMeets, CodeBefore, Slotted, Place, Code, Ended
<1>2. CASE replies # <<>> /\ replies' = Tail(replies) /\ Other(Head(replies))
  <2>1. /\ Len(replies) = Len(replies') + 1 /\ Len(replies') \in Nat
        /\ \A i \in 1 .. Len(replies') : replies'[i] = replies[i + 1]
        /\ Head(replies) = replies[1]
    BY <1>0, <1>2, HeadTailProperties
  <2>2. ~Code(1) /\ ~Ended(1) BY <1>2, <2>1 DEF Other, Code, Ended
  <2>3. \A i \in Place' : /\ i + 1 \in Place /\ replies'[i] = replies[i + 1]
                          /\ Code(i)' <=> Code(i + 1)
                          /\ Ended(i)' <=> Ended(i + 1)
    BY <2>1 DEF Place, Code, Ended
  <2>4. \A i \in Place : Code(i) \/ Ended(i) =>
          \E j \in Place' : j + 1 = i /\ replies'[j] = replies[i]
                            /\ (Code(j)' <=> Code(i)) /\ (Ended(j)' <=> Ended(i))
    <3> SUFFICES ASSUME NEW i \in Place, Code(i) \/ Ended(i)
                 PROVE  \E j \in Place' : j + 1 = i /\ replies'[j] = replies[i]
                            /\ (Code(j)' <=> Code(i)) /\ (Ended(j)' <=> Ended(i))
      OBVIOUS
    <3>1. i # 1 BY <2>2
    <3>2. i - 1 \in Place' /\ (i - 1) + 1 = i BY <2>1, <3>1 DEF Place
    <3> QED BY <2>3, <3>2
  <2>5. \A i, j \in Place' : (i + 1 = j + 1 => i = j) /\ (i + 1 < j + 1 => i < j)
    BY DEF Place
  <2>6. OneCode' BY <2>3, <2>5 DEF InOrder, OneCode
  <2>7. CodeMeets' BY <2>3 DEF InOrder, CodeMeets
  <2>8. CodeBefore'
    <3> SUFFICES ASSUME NEW i \in Place', Code(i)'
                 PROVE  \/ Polls(replies[i].arg)'
                        \/ \E j \in Place' : i < j /\ Ended(j)'
                                             /\ replies'[j].arg = replies'[i].arg
      BY DEF CodeBefore
    <3>1. i + 1 \in Place /\ Code(i + 1) /\ replies'[i] = replies[i + 1] BY <2>3
    <3>2. CASE Polls(replies[i + 1].arg) BY <3>1, <3>2
    <3>3. ASSUME NEW j \in Place, i + 1 < j, Ended(j), replies[j].arg = replies[i + 1].arg
          PROVE  \E k \in Place' : i < k /\ Ended(k)' /\ replies'[k].arg = replies'[i].arg
      <4>1. PICK k \in Place' : k + 1 = j /\ replies'[k] = replies[j] /\ (Ended(k)' <=> Ended(j))
        BY <2>4, <3>3
      <4>2. i < k BY <2>5, <3>3, <4>1
      <4> QED BY <3>1, <3>3, <4>1, <4>2
    <3> QED BY <3>1, <3>2, <3>3 DEF InOrder, CodeBefore
  <2>9. Slotted'
    BY <2>4 DEF InOrder, Slotted
  <2> QED BY <2>6, <2>7, <2>8, <2>9 DEF InOrder
<1>3. CASE \E r : replies' = Append(replies, r) /\ Other(r)
  <2>1. PICK r : replies' = Append(replies, r) /\ Other(r) BY <1>3
  <2>0. PICK n \in Nat : n = Len(replies) BY <1>0
  <2>2. /\ Len(replies') = n + 1 /\ replies'[n + 1] = r
        /\ \A i \in 1 .. n : replies'[i] = replies[i]
    BY <1>0, <2>0, <2>1
  <2>3. ~Code(n + 1)' /\ ~Ended(n + 1)'
    BY <2>1, <2>2 DEF Other, Code, Ended
  <2>4. \A i \in Place : /\ i \in Place' /\ replies'[i] = replies[i]
                         /\ Code(i)' <=> Code(i)
                         /\ Ended(i)' <=> Ended(i)
    BY <2>0, <2>2 DEF Place, Code, Ended
  <2>5. \A i \in Place' : Code(i)' \/ Ended(i)' => i \in Place
    <3>1. \A i \in Place' : i \in Place \/ i = n + 1 BY <2>0, <2>2 DEF Place
    <3> QED BY <2>3, <3>1
  <2>6. OneCode' BY <2>4, <2>5 DEF InOrder, OneCode
  <2>7. CodeMeets' BY <2>4, <2>5 DEF InOrder, CodeMeets
  <2>8. CodeBefore' BY <2>4, <2>5 DEF InOrder, CodeBefore
  <2>9. Slotted' BY <2>4 DEF InOrder, Slotted
  <2> QED BY <2>6, <2>7, <2>8, <2>9 DEF InOrder
<1> QED BY <1>1, <1>2, <1>3

\* A command that asks for no web pairing leaves those that wait.
LEMMA QueuesOther ==
  ASSUME WorkerTypeOK, NEW c, Sends(c), c # WebPairing, UNCHANGED <<job, stage>>
  PROVE  (Waits' <=> Waits) /\ (Queued' <=> Queued) /\ \A a : Polls(a)' <=> Polls(a)
<1>1. cmds \in Seq(Command) /\ Len(cmds) \in Nat BY DEF WorkerTypeOK
<1>2. CASE Room
  <2>1. /\ Len(cmds') = Len(cmds) + 1 /\ cmds'[Len(cmds) + 1] = c
        /\ \A i \in 1 .. Len(cmds) : cmds'[i] = cmds[i]
    BY <1>1, <1>2 DEF Sends
  <2>2. Queued' <=> Queued
    BY <1>1, <2>1 DEF Queued, WebPairing
  <2> QED BY <2>2 DEF Waits, Polls, At, WebPairing
<1>3. CASE ~Room
  BY <1>3 DEF Sends, Waits, Queued, Polls, At, WebPairing
<1> QED BY <1>2, <1>3

\* A reply that the dispatcher gives comes last.
LEMMA TellsLast ==
  ASSUME WorkerTypeOK, NEW k, NEW a, NEW out, SendReply(k, a, out)
  PROVE  \E n \in Nat :
           /\ n = Len(replies) /\ n + 1 \in Place' /\ \A i \in Place : i < n + 1
           /\ replies'[n + 1] = [kind |-> k, arg |-> a, out |-> out]
           /\ \A i \in Place : /\ i \in Place' /\ replies'[i] = replies[i]
                               /\ Code(i)' <=> Code(i)
                               /\ Ended(i)' <=> Ended(i)
           /\ \A i \in Place' : i \in Place \/ i = n + 1
<1>1. replies \in Seq(Reply) /\ Len(replies) \in Nat BY DEF WorkerTypeOK
<1>2. PICK n \in Nat : n = Len(replies) BY <1>1
<1>3. /\ Len(replies') = n + 1 /\ replies'[n + 1] = [kind |-> k, arg |-> a, out |-> out]
      /\ \A i \in 1 .. n : replies'[i] = replies[i]
  BY <1>1, <1>2 DEF SendReply
<1>4. /\ n + 1 \in Place' /\ \A i \in Place : i < n + 1 /\ i \in Place'
      /\ \A i \in Place' : i \in Place \/ i = n + 1
  BY <1>2, <1>3 DEF Place
<1>5. \A i \in Place : /\ replies'[i] = replies[i]
                       /\ Code(i)' <=> Code(i)
                       /\ Ended(i)' <=> Ended(i)
  BY <1>2, <1>3 DEF Place, Code, Ended
<1> QED BY <1>2, <1>3, <1>4, <1>5

\* While a pairing is asked for its code, main has none and no end to see.
LEMMA NotYetTold ==
  ASSUME IInv, InOrder, job # <<>>, job[1].kind = "PairDeviceFlow", stage = "asked"
  PROVE  \A i \in Place : ~Code(i) /\ ~Ended(i)
<1>1. \A i \in Place : ~Ended(i) BY Apart DEF IInv, TypeOK
<1>2. \A a : ~Polls(a) BY DEF Polls, At
<1> QED BY <1>1, <1>2 DEF InOrder, CodeBefore

LEMMA AnswerOrders ==
  ASSUME IInv, InOrder, Answer, pair_slot' = pair_slot PROVE InOrder'
<1>1. WorkerTypeOK /\ UNCHANGED <<cmds, stage>> /\ job # <<>> /\ job' = <<>>
  BY DEF IInv, TypeOK, Answer
<1>2. PICK out \in Outcomes(job[1].kind) : SendReply(job[1].kind, job[1].arg, out)
  BY DEF Answer
<1>3. job[1] \in Command BY <1>1, Where
<1>4. Queued' <=> Queued BY <1>1 DEF Queued, WebPairing
<1>5. Waits' <=> Queued BY <1>1, <1>4 DEF Waits, At
<1>6. Waits <=> Queued
  BY DEF Waits, At, WebPairing, Cmd, Answer
<1>7. CASE job[1].kind = "PairDeviceFlow"
  <2>1. PICK n \in Nat :
           /\ n = Len(replies) /\ n + 1 \in Place' /\ \A i \in Place : i < n + 1
           /\ replies'[n + 1] = [kind |-> job[1].kind, arg |-> job[1].arg, out |-> out]
           /\ \A i \in Place : /\ i \in Place' /\ replies'[i] = replies[i]
                               /\ Code(i)' <=> Code(i)
                               /\ Ended(i)' <=> Ended(i)
           /\ \A i \in Place' : i \in Place \/ i = n + 1
    BY <1>1, <1>2, TellsLast
  <2>2. ~Code(n + 1)' /\ Ended(n + 1)' /\ replies'[n + 1].arg = job[1].arg
    BY <1>7, <2>1 DEF Code, Ended
  <2>3. \A i \in Place' : Code(i)' => i \in Place /\ Code(i) /\ replies'[i] = replies[i]
    BY <2>1, <2>2
  <2>4. \A a : Polls(a) => job[1].arg = a BY DEF Polls, At, Cmd
  <2>5. CodeBefore' BY <2>1, <2>2, <2>3, <2>4 DEF InOrder, CodeBefore
  <2>6. OneCode' BY <2>3 DEF InOrder, OneCode
  <2>7. CodeMeets' BY <2>3 DEF InOrder, CodeMeets
  <2>8. Slotted' BY <1>5, <1>6, <2>1 DEF InOrder, Slotted
  <2>9. Waits' => pair_slot' BY <1>5, <1>6 DEF InOrder
  <2> QED BY <2>5, <2>6, <2>7, <2>8, <2>9 DEF InOrder
<1>8. CASE job[1].kind # "PairDeviceFlow"
  <2>1. \A a : Polls(a)' <=> Polls(a)
    BY <1>1, <1>8 DEF Polls, At, Cmd
  <2>2. \E r : replies' = Append(replies, r) /\ Other(r)
    BY <1>2, <1>3, <1>8 DEF SendReply, Other, Command, Kind
  <2> QED BY <1>1, <1>5, <1>6, <2>1, <2>2, Moved DEF Answer
<1> QED BY <1>7, <1>8

\* The code comes after no other, and finds the sender of its own pairing.
LEMMA RequestOrders ==
  ASSUME IInv, InOrder, RequestDeviceCode, pair_slot' = pair_slot PROVE InOrder'
<1>1. /\ WorkerTypeOK /\ cmds' = cmds /\ job # <<>> /\ stage = "asked"
      /\ job[1].kind = "PairDeviceFlow"
  BY DEF IInv, TypeOK, RequestDeviceCode
<1>2. \A i \in Place : ~Code(i) /\ ~Ended(i) BY <1>1, NotYetTold
<1>3. job[1] \in Command /\ job[1] = Cmd("PairDeviceFlow", job[1].arg)
  <2>1. job[1] \in Command BY <1>1, Where
  <2> QED BY <1>1, <2>1 DEF Command, Cmd
<1>4. ~Queued BY <1>1, Apart DEF IInv
<1>5. ~Queued' BY <1>1, <1>4 DEF Queued, WebPairing
<1>6. pair_slot <=> job[1].arg = "web"
  <2>1. Waits <=> job[1] = WebPairing BY <1>1, <1>4 DEF Waits, At
  <2>2. pair_slot <=> Waits BY <1>2 DEF InOrder, Slotted
  <2>3. job[1] = WebPairing <=> job[1].arg = "web" BY <1>3 DEF WebPairing, Cmd
  <2> QED BY <2>1, <2>2, <2>3
<1>7. CASE SendReply("DeviceCode", job[1].arg, "ok") /\ stage' = "polling" /\ job' = job
  <2>1. PICK n \in Nat :
           /\ n + 1 \in Place'
           /\ replies'[n + 1] = [kind |-> "DeviceCode", arg |-> job[1].arg, out |-> "ok"]
           /\ \A i \in Place : Code(i)' <=> Code(i)
           /\ \A i \in Place' : i \in Place \/ i = n + 1
    BY <1>1, <1>7, TellsLast
  <2>2. \A i \in Place' : Code(i)' => i = n + 1 BY <1>2, <2>1
  <2>3. Code(n + 1)' /\ replies'[n + 1].arg = job[1].arg BY <2>1 DEF Code
  <2>4. \A a : a = job[1].arg => Polls(a)' BY <1>1, <1>3, <1>7 DEF Polls, At
  <2>5. ~Waits' BY <1>5, <1>7 DEF Waits, At
  <2>6. OneCode' BY <2>2 DEF OneCode
  <2>7. CodeMeets' BY <1>6, <2>2, <2>3 DEF CodeMeets
  <2>8. CodeBefore' BY <2>2, <2>3, <2>4 DEF CodeBefore
  <2>9. Slotted' BY <2>1, <2>3 DEF Slotted
  <2> QED BY <2>5, <2>6, <2>7, <2>8, <2>9 DEF InOrder
<1>8. CASE SendReply("PairDeviceFlow", job[1].arg, "err") /\ stage' = stage /\ job' = <<>>
  <2>1. PICK n \in Nat :
           /\ n + 1 \in Place'
           /\ replies'[n + 1] = [kind |-> "PairDeviceFlow", arg |-> job[1].arg, out |-> "err"]
           /\ \A i \in Place : Code(i)' <=> Code(i)
           /\ \A i \in Place' : i \in Place \/ i = n + 1
    BY <1>1, <1>8, TellsLast
  <2>2. /\ Ended(n + 1)' /\ ~Code(n + 1)' /\ replies'[n + 1].arg = job[1].arg
        /\ replies'[n + 1].out = "err"
    BY <2>1 DEF Ended, Code
  <2>3. \A i \in Place' : ~Code(i)' BY <1>2, <2>1, <2>2
  <2>4. ~Waits' BY <1>5, <1>8 DEF Waits, At
  <2>5. Slotted' BY <1>6, <2>1, <2>2 DEF Slotted
  <2> QED BY <2>3, <2>4, <2>5 DEF InOrder, OneCode, CodeMeets, CodeBefore
<1> QED BY <1>7, <1>8 DEF RequestDeviceCode

LEMMA WorkerOrders == IInv /\ InOrder /\ Worker => InOrder'
<1> SUFFICES ASSUME IInv, InOrder, Worker PROVE InOrder' OBVIOUS
<1>1. WorkerTypeOK /\ pair_slot' = pair_slot BY DEF IInv, TypeOK, Worker, slots
<1>2. CASE Answer BY <1>1, <1>2, AnswerOrders
<1>3. CASE RequestDeviceCode BY <1>1, <1>3, RequestOrders
<1>4. CASE Receive
  <2>1. /\ cmds \in Seq(Command) /\ cmds # <<>> /\ job = <<>> /\ job' = <<Head(cmds)>>
        /\ cmds' = Tail(cmds) /\ stage' = "asked" /\ replies' = replies
    BY <1>1, <1>4 DEF WorkerTypeOK, Receive
  <2>2. /\ Len(cmds) = Len(cmds') + 1 /\ Len(cmds') \in Nat /\ Head(cmds) = cmds[1]
        /\ \A i \in 1 .. Len(cmds') : cmds'[i] = cmds[i + 1]
    BY <2>1, HeadTailProperties
  <2>3. job' # <<>> /\ job'[1] = cmds[1] BY <2>1, <2>2
  <2>4. Queued => Queued' \/ cmds[1] = WebPairing
    <3> SUFFICES ASSUME NEW i \in 1 .. Len(cmds), cmds[i] = WebPairing, i # 1 PROVE Queued'
      BY DEF Queued
    <3>1. i - 1 \in 1 .. Len(cmds') /\ (i - 1) + 1 = i BY <2>2
    <3>2. cmds'[i - 1] = WebPairing BY <2>2, <3>1
    <3> QED BY <3>1, <3>2 DEF Queued, WebPairing
  <2>5. Queued' \/ cmds[1] = WebPairing => Queued
    <3>1. \A i \in 1 .. Len(cmds') : i + 1 \in 1 .. Len(cmds) /\ cmds'[i] = cmds[i + 1]
      BY <2>2
    <3>2. 1 \in 1 .. Len(cmds) BY <2>2
    <3> QED BY <3>1, <3>2 DEF Queued, WebPairing
  <2>6. Waits' <=> Waits BY <2>1, <2>3, <2>4, <2>5 DEF Waits, At, WebPairing
  <2>7. \A a : Polls(a)' <=> Polls(a) BY <2>1 DEF Polls, At
  <2> QED BY <1>1, <2>1, <2>6, <2>7, Moved
<1>5. CASE FinishSilently \/ Hang
  <2>1. /\ job # <<>> /\ job[1].kind = "Mopidy" /\ UNCHANGED <<cmds, replies>>
        /\ job' = <<>> \/ job' = job
    BY <1>5 DEF FinishSilently, Hang
  <2>2. \A a, s : ~At(Cmd("PairDeviceFlow", a), s) /\ ~At(Cmd("PairDeviceFlow", a), s)'
    BY <2>1 DEF At, Cmd
  <2>3. Waits' <=> Waits BY <2>1, <2>2 DEF Waits, Queued, WebPairing
  <2>4. \A a : Polls(a)' <=> Polls(a) BY <2>2 DEF Polls
  <2> QED BY <1>1, <2>1, <2>3, <2>4, Moved
<1>6. CASE SendMopidy
  <2>1. Sends(Cmd("Mopidy", NoArg)) /\ UNCHANGED <<job, stage, replies>>
    BY <1>6 DEF SendMopidy
  <2>2. Cmd("Mopidy", NoArg) # WebPairing BY DEF Cmd, WebPairing
  <2>3. (Waits' <=> Waits) /\ \A a : Polls(a)' <=> Polls(a) BY <1>1, <2>1, <2>2, QueuesOther
  <2> QED BY <1>1, <2>1, <2>3, Moved
<1>7. CASE CatchSignal \/ Terminate \/ RequestShutdown \/ MopidyReplied \/ ShutdownRequested
  <2>1. UNCHANGED <<cmds, job, stage>>
    BY <1>7 DEF CatchSignal, Terminate, RequestShutdown, MopidyReplied, ShutdownRequested
  <2>2. (Waits' <=> Waits) /\ \A a : Polls(a)' <=> Polls(a)
    BY <2>1 DEF Waits, Queued, Polls, At, WebPairing
  <2>3. \/ replies' = replies
        \/ replies # <<>> /\ replies' = Tail(replies) /\ Other(Head(replies))
        \/ \E r : replies' = Append(replies, r) /\ Other(r)
    BY <1>7 DEF CatchSignal, Terminate, RequestShutdown, MopidyReplied, ShutdownRequested,
                SendReply, Takes, Other
  <2> QED BY <1>1, <2>2, <2>3, Moved
<1> QED BY <1>2, <1>3, <1>4, <1>5, <1>6, <1>7 DEF Worker, WorkerNext, Dispatch

\* A reply that main takes comes first.
LEMMA TakesFirst ==
  ASSUME WorkerTypeOK, replies # <<>>, replies' = Tail(replies)
  PROVE  /\ 1 \in Place /\ Head(replies) = replies[1]
         /\ \A i \in Place' : /\ i + 1 \in Place /\ i + 1 > 1 /\ i + 1 # 1
                              /\ replies'[i] = replies[i + 1]
                              /\ Code(i)' <=> Code(i + 1)
                              /\ Ended(i)' <=> Ended(i + 1)
<1>1. /\ Len(replies) = Len(replies') + 1 /\ Len(replies') \in Nat
      /\ \A i \in 1 .. Len(replies') : replies'[i] = replies[i + 1]
      /\ Head(replies) = replies[1]
  BY HeadTailProperties DEF WorkerTypeOK
<1>2. \A i \in Place' : replies'[i] = replies[i + 1] BY <1>1 DEF Place
<1>3. \A i \in Place' : i + 1 \in Place /\ i + 1 > 1 /\ i + 1 # 1 BY <1>1 DEF Place
<1>4. 1 \in Place BY <1>1 DEF Place
<1> QED BY <1>1, <1>2, <1>3, <1>4 DEF Code, Ended

\* Main has seen the code: no sender is parked, and no pairing waits.
LEMMA DeviceCodeOrders == IInv /\ InOrder /\ DeviceCode => InOrder'
<1> SUFFICES ASSUME IInv, InOrder, DeviceCode PROVE InOrder' OBVIOUS
<1>1. /\ WorkerTypeOK /\ replies # <<>> /\ replies' = Tail(replies)
      /\ Head(replies).kind = "DeviceCode" /\ UNCHANGED <<cmds, job, stage>>
      /\ pair_slot' = FALSE
  BY DEF IInv, TypeOK, DeviceCode, Takes
<1>2. 1 \in Place /\ Code(1) BY <1>1, TakesFirst DEF Code
<1>3. \A i \in Place' : ~Code(i)'
  BY <1>1, <1>2, TakesFirst DEF InOrder, OneCode
<1>4. ~Waits
  <2>1. CASE Polls(replies[1].arg)
    <3>1. job # <<>> /\ job[1].kind = "PairDeviceFlow" /\ stage = "polling"
      BY <2>1 DEF Polls, At, Cmd
    <3>2. ~Queued BY <1>1, <3>1, Apart DEF IInv
    <3> QED BY <3>1, <3>2 DEF Waits, At
  <2>2. CASE \E j \in Place : Ended(j)
    <3>1. ~Queued /\ ~(job # <<>> /\ job[1].kind = "PairDeviceFlow")
      BY <1>1, <2>2, Apart DEF IInv
    <3> QED BY <3>1 DEF Waits, At, WebPairing, Cmd
  <2> QED BY <1>2, <2>1, <2>2 DEF InOrder, CodeBefore
<1>5. ~Waits' BY <1>1, <1>4 DEF Waits, Queued, At, WebPairing
<1> QED BY <1>1, <1>3, <1>5 DEF InOrder, OneCode, CodeMeets, CodeBefore, Slotted

\* A pairing has ended: its code came before, and no other was asked for.
LEMMA PairingEndOrders ==
  IInv /\ InOrder /\ (Paired \/ PairedUnsaved \/ PairingFailed) => InOrder'
<1> SUFFICES ASSUME IInv, InOrder, Paired \/ PairedUnsaved \/ PairingFailed PROVE InOrder'
  OBVIOUS
<1>1. /\ WorkerTypeOK /\ replies # <<>> /\ replies' = Tail(replies)
      /\ Head(replies).kind = "PairDeviceFlow" /\ UNCHANGED <<job, stage>>
      /\ \/ pair_slot' = pair_slot /\ Head(replies).out = "ok"
         \/ pair_slot' = FALSE
      /\ Sends(Cmd("ListCalendars", NoArg)) \/ cmds' = cmds
  BY DEF IInv, TypeOK, Paired, PairedUnsaved, PairingFailed, Takes
<1>2. 1 \in Place /\ Ended(1) /\ Head(replies) = replies[1]
  BY <1>1, TakesFirst DEF Ended
<1>3. /\ \A j \in Place : Ended(j) => j = 1
      /\ ~Queued /\ ~(job # <<>> /\ job[1].kind = "PairDeviceFlow")
  BY <1>1, <1>2, Apart DEF IInv
<1>4. \A a, s : ~At(Cmd("PairDeviceFlow", a), s) BY <1>3 DEF At, Cmd
<1>5. \A i \in Place : ~Code(i)
  <2>1. \A i \in Place : ~(i < 1) BY DEF Place
  <2> QED BY <1>3, <1>4, <2>1 DEF InOrder, CodeBefore, Polls
<1>6. \A i \in Place' : ~Code(i)' BY <1>1, <1>5, TakesFirst
<1>7. ~Waits BY <1>3, <1>4 DEF Waits, WebPairing
<1>8. ~Waits'
  <2>1. Cmd("ListCalendars", NoArg) # WebPairing BY DEF Cmd, WebPairing
  <2>2. CASE Sends(Cmd("ListCalendars", NoArg)) BY <1>1, <1>7, <2>1, <2>2, QueuesOther
  <2>3. CASE cmds' = cmds BY <1>1, <1>7, <2>3 DEF Waits, Queued, At, WebPairing
  <2> QED BY <1>1, <2>2, <2>3
<1>9. ~pair_slot'
  BY <1>1, <1>2, <1>3, <1>5, <1>7 DEF InOrder, Slotted
<1> QED BY <1>6, <1>8, <1>9 DEF InOrder, OneCode, CodeMeets, CodeBefore, Slotted

\* A pairing is asked for only when there is none.
LEMMA PairOrders == IInv /\ InOrder /\ (PairCalendarsTapped \/ PairCalendar) => InOrder'
<1> SUFFICES ASSUME IInv, InOrder, PairCalendarsTapped \/ PairCalendar PROVE InOrder' OBVIOUS
<1>1. /\ WorkerTypeOK /\ UNCHANGED <<replies, job, stage>>
      /\ ~fetch_in_flight /\ ~pairing_in_flight
  BY DEF IInv, TypeOK, PairCalendarsTapped, PairCalendar, MayPair
<1>2. RequestsIn(Pipe, P) = {} BY <1>1, NothingFlagged
<1>3. /\ \A i \in Place : ~Ended(i)
      /\ ~(job # <<>> /\ job[1].kind = "PairDeviceFlow")
      /\ ~Queued
  BY <1>1, <1>2, Members DEF Queued, WebPairing, Cmd
<1>4. \A a, s : ~At(Cmd("PairDeviceFlow", a), s) BY <1>3 DEF At, Cmd
<1>5. \A i \in Place : ~Code(i) BY <1>3, <1>4 DEF InOrder, CodeBefore, Polls
<1>6. ~Waits /\ ~pair_slot
  BY <1>3, <1>4, <1>5 DEF InOrder, Slotted, Waits, WebPairing
<1>7. \A i \in Place' : ~Code(i)' BY <1>1, <1>5 DEF Place, Code
<1>8. Waits' <=> pair_slot'
  <2>1. CASE PairCalendarsTapped
    <3>1. Sends(Cmd("PairDeviceFlow", "screen")) /\ pair_slot' = pair_slot
      BY <2>1 DEF PairCalendarsTapped, slots
    <3>2. Cmd("PairDeviceFlow", "screen") # WebPairing BY CalendarCommands
    <3> QED BY <1>1, <1>6, <3>1, <3>2, QueuesOther
  <2>2. CASE PairCalendar
    <3>1. Sends(WebPairing) /\ pair_slot' = Room BY <2>2 DEF PairCalendar, WebPairing
    <3>2. CASE Room
      <4>1. cmds \in Seq(Command) /\ Len(cmds) \in Nat BY <1>1 DEF WorkerTypeOK
      <4>2. Len(cmds') = Len(cmds) + 1 /\ cmds'[Len(cmds) + 1] = WebPairing
        BY <3>1, <3>2, <4>1 DEF Sends
      <4>3. Len(cmds) + 1 \in 1 .. Len(cmds') BY <4>1, <4>2
      <4>4. Queued' BY <4>2, <4>3 DEF Queued, WebPairing
      <4> QED BY <3>1, <3>2, <4>4 DEF Waits
    <3>3. CASE ~Room
      BY <1>1, <1>6, <3>1, <3>3 DEF Sends, Waits, Queued, At, WebPairing
    <3> QED BY <3>2, <3>3
  <2> QED BY <2>1, <2>2
<1> QED BY <1>7, <1>8 DEF InOrder, OneCode, CodeMeets, CodeBefore, Slotted

\* What remains: fetches and lists, sent or answered.
LEMMA OthersOrder ==
  IInv /\ InOrder /\ (RefreshTick \/ DiscoverCalendars \/ CalendarEvents \/ Listing) => InOrder'
<1> SUFFICES ASSUME IInv, InOrder,
                    RefreshTick \/ DiscoverCalendars \/ CalendarEvents \/ Listing
             PROVE  InOrder'
  OBVIOUS
<1>1. /\ WorkerTypeOK /\ UNCHANGED <<job, stage, pair_slot>>
      /\ \/ replies' = replies
         \/ replies # <<>> /\ replies' = Tail(replies) /\ Other(Head(replies))
      /\ \/ cmds' = cmds
         \/ Sends(Cmd("FetchCalendarEvents", NoArg)) \/ Sends(Cmd("ListCalendars", NoArg))
  BY DEF IInv, TypeOK, RefreshTick, DiscoverCalendars, CalendarEvents, Listing,
         ListDiscovered, AutoSeed, TakesList, Takes, MaybeDispatch, Other, slots
<1>2. /\ Cmd("FetchCalendarEvents", NoArg) # WebPairing
      /\ Cmd("ListCalendars", NoArg) # WebPairing
  BY DEF Cmd, WebPairing
<1>3. (Waits' <=> Waits) /\ \A a : Polls(a)' <=> Polls(a)
  <2>1. CASE cmds' = cmds BY <1>1, <2>1 DEF Waits, Queued, Polls, At, WebPairing
  <2>2. CASE Sends(Cmd("FetchCalendarEvents", NoArg)) \/ Sends(Cmd("ListCalendars", NoArg))
    BY <1>1, <1>2, <2>2, QueuesOther
  <2> QED BY <1>1, <2>1, <2>2
<1> QED BY <1>1, <1>3, Moved

LEMMA NextOrders == IInv /\ InOrder /\ [Next]_vars => InOrder'
<1> SUFFICES ASSUME IInv, InOrder, [Next]_vars PROVE InOrder' OBVIOUS
<1>1. CASE Worker BY <1>1, WorkerOrders
<1>2. CASE PairCalendarsTapped \/ PairCalendar BY <1>2, PairOrders
<1>3. CASE Pairing BY <1>3, DeviceCodeOrders, PairingEndOrders DEF Pairing
<1>4. CASE RefreshTick \/ DiscoverCalendars \/ CalendarEvents \/ Listing BY <1>4, OthersOrder
<1>5. CASE EditCalendars \/ Ages \/ UNCHANGED vars
  <2>1. WorkerTypeOK /\ UNCHANGED <<cmds, replies, job, stage, pair_slot>>
    BY <1>5 DEF EditCalendars, Ages, vars, workerVars, slots, IInv, TypeOK
  <2>2. (Waits' <=> Waits) /\ \A a : Polls(a)' <=> Polls(a)
    BY <2>1 DEF Waits, Queued, Polls, At, WebPairing
  <2> QED BY <2>1, <2>2, Moved
<1> QED BY <1>1, <1>2, <1>3, <1>4, <1>5 DEF Next

\* A device code is shown where its pairing was asked for, on the screen or to
\* the web client, and a web client whose sender is parked has its own pairing
\* under way: dispatch_reply_to_domain, which looks at the slot alone, finds
\* the asker, because a code is never left over from an earlier pairing.
THEOREM CodeFindsItsAsker == Spec => []CodeReachesAsker
<1>1. IInv /\ InOrder => CodeReachesAsker
  <2> SUFFICES ASSUME IInv, InOrder PROVE CodeReachesAsker OBVIOUS
  <2>1. \A i \in 1 .. Len(replies) :
          replies[i].kind = "DeviceCode" => (pair_slot <=> replies[i].arg = "web")
    BY DEF InOrder, CodeMeets, Place, Code
  <2>2. WorkerTypeOK BY DEF IInv, TypeOK
  <2>3. ASSUME pair_slot PROVE WebPairing \in RequestsIn(Pipe, P)
    <3>1. \A s : At(WebPairing, s) => WebPairing \in RequestsIn(Pipe, P)
      BY <2>2, Members DEF At, WebPairing, Cmd
    <3>2. ASSUME NEW i \in Place, Ended(i), replies[i].arg = "web"
          PROVE  WebPairing \in RequestsIn(Pipe, P)
      BY <2>2, <3>2, Members DEF WebPairing
    <3>3. Queued => WebPairing \in RequestsIn(Pipe, P)
      BY <2>2, Members DEF Queued, WebPairing, Cmd
    <3>4. ASSUME NEW i \in Place, Code(i) PROVE WebPairing \in RequestsIn(Pipe, P)
      <4>1. replies[i].arg = "web" BY <2>3, <3>4 DEF InOrder, CodeMeets
      <4>2. Polls(replies[i].arg) => At(WebPairing, "polling") BY <4>1 DEF Polls, WebPairing
      <4> QED BY <3>1, <3>2, <3>4, <4>1, <4>2 DEF InOrder, CodeBefore
    <3> QED BY <2>3, <3>1, <3>2, <3>3, <3>4 DEF InOrder, Slotted, Waits
  <2> QED BY <2>1, <2>3, UnderWayIs DEF CodeReachesAsker, WebPairing, P
<1>2. Init => InOrder BY InitOrders
<1>3. IInv /\ InOrder /\ [Next]_vars => InOrder' BY NextOrders
<1> QED BY <1>1, <1>2, <1>3, Invariant, PTL DEF Spec
=============================================================================
