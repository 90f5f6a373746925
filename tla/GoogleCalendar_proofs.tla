------------------------ MODULE GoogleCalendar_proofs ------------------------
(***************************************************************************)
(* Proofs about GoogleCalendar, for any calendars, any answers of theirs,  *)
(* any day, any number of tokens and boots.                                *)
(***************************************************************************)
EXTENDS GoogleCalendar, FiniteSetTheorems, SequenceTheorems, WellFoundedInduction, TLAPS

-----------------------------------------------------------------------------
(* The agenda: sorting by rank, and the window that is kept.  *)

Before(q, i) == {j \in DOMAIN q : Precedes(q, j, i)}
Rank(q, i) == Cardinality(Before(q, i))

\* The sort's order is one: strict, total and transitive.
LEMMA PrecedesOrders ==
  ASSUME NEW q \in Seq(Nat), NEW i \in DOMAIN q, NEW j \in DOMAIN q
  PROVE  /\ ~ Precedes(q, i, i)
         /\ i # j => Precedes(q, i, j) \/ Precedes(q, j, i)
         /\ \A k \in DOMAIN q : Precedes(q, k, i) /\ Precedes(q, i, j) => Precedes(q, k, j)
<1>1. \A k \in DOMAIN q : k \in Nat /\ q[k] \in Nat
  OBVIOUS
<1> QED BY <1>1 DEF Precedes

\* A rank is below the number of places, and grows along the order.
LEMMA RankBound ==
  ASSUME NEW q \in Seq(Nat), NEW i \in DOMAIN q
  PROVE  Rank(q, i) \in 0 .. Len(q) - 1 /\ IsFiniteSet(Before(q, i))
<1>1. Len(q) \in Nat /\ DOMAIN q = 1 .. Len(q)
  BY LenProperties
<1>2. IsFiniteSet(DOMAIN q) /\ Cardinality(DOMAIN q) = Len(q)
  <2>1. /\ IsFiniteSet(1 .. Len(q))
        /\ Cardinality(1 .. Len(q)) = IF 1 > Len(q) THEN 0 ELSE Len(q) - 1 + 1
    BY <1>1, FS_Interval
  <2> QED BY <1>1, <2>1
<1>3. Before(q, i) \in SUBSET DOMAIN q /\ i \notin Before(q, i)
  BY PrecedesOrders DEF Before
<1>4. /\ IsFiniteSet(Before(q, i)) /\ Rank(q, i) <= Len(q)
      /\ Len(q) = Rank(q, i) => DOMAIN q = Before(q, i)
  BY <1>2, <1>3, FS_Subset DEF Rank
<1>5. Rank(q, i) \in Nat
  BY <1>4, FS_CardinalityType DEF Rank
<1> QED BY <1>1, <1>3, <1>4, <1>5

LEMMA RankGrows ==
  ASSUME NEW q \in Seq(Nat), NEW i \in DOMAIN q, NEW j \in DOMAIN q, Precedes(q, i, j)
  PROVE  Rank(q, i) < Rank(q, j)
<1>1. Before(q, i) \in SUBSET Before(q, j) /\ i \in Before(q, j) \ Before(q, i)
  BY PrecedesOrders DEF Before
<1>2. /\ Rank(q, i) <= Rank(q, j)
      /\ Rank(q, j) = Rank(q, i) => Before(q, j) = Before(q, i)
  BY <1>1, RankBound, FS_Subset DEF Rank
<1>3. Rank(q, i) \in Nat /\ Rank(q, j) \in Nat
  BY RankBound
<1> QED BY <1>1, <1>2, <1>3

\* Every rank is some place's: ranks are one to one, and as many.
LEMMA RankOnto ==
  ASSUME NEW q \in Seq(Nat)
  PROVE  \A r \in 0 .. Len(q) - 1 : \E i \in DOMAIN q : Rank(q, i) = r
<1> DEFINE S == DOMAIN q
           T == 0 .. Len(q) - 1
           f == [i \in S |-> Rank(q, i)]
<1>1. Len(q) \in Nat /\ S = 1 .. Len(q)
  BY LenProperties
<1>2. IsFiniteSet(T) /\ Cardinality(T) = Len(q) /\ IsFiniteSet(S) /\ Cardinality(S) = Len(q)
  <2>1. Len(q) - 1 \in Int /\ 0 \in Int /\ Len(q) \in Int /\ 1 \in Int
    BY <1>1
  <2>2. /\ IsFiniteSet(T)
        /\ Cardinality(T) = IF 0 > Len(q) - 1 THEN 0 ELSE Len(q) - 1 - 0 + 1
    BY <2>1, FS_Interval
  <2>3. /\ IsFiniteSet(1 .. Len(q))
        /\ Cardinality(1 .. Len(q)) = IF 1 > Len(q) THEN 0 ELSE Len(q) - 1 + 1
    BY <2>1, FS_Interval
  <2> QED BY <1>1, <2>2, <2>3
<1>3. f \in [S -> T]
  BY RankBound
<1>4. \A i, j \in S : f[i] = f[j] => i = j
  <2> SUFFICES ASSUME NEW i \in S, NEW j \in S, f[i] = f[j], i # j PROVE FALSE
    OBVIOUS
  <2>1. Precedes(q, i, j) \/ Precedes(q, j, i)
    BY PrecedesOrders
  <2>2. Rank(q, i) < Rank(q, j) \/ Rank(q, j) < Rank(q, i)
    BY <2>1, RankGrows
  <2> QED BY <2>2, RankBound
<1>5. f \in Injection(S, T)
  BY <1>3, <1>4 DEF Injection, IsInjective
<1>6. f \in Surjection(S, T)
  BY <1>2, <1>5, FS_Injection
<1> QED BY <1>6 DEF Surjection

\* Sorted takes every place of the list once, in order of the starts.
LEMMA SortedList ==
  ASSUME NEW q \in Seq(Nat)
  PROVE  \E at \in [1 .. Len(q) -> DOMAIN q] :
           /\ Sorted(q) = [r \in 1 .. Len(q) |-> q[at[r]]]
           /\ \A r, s \in 1 .. Len(q) : r < s => at[r] # at[s] /\ q[at[r]] <= q[at[s]]
           /\ \A i \in DOMAIN q : \E r \in 1 .. Len(q) : i = at[r]
<1> DEFINE n == Len(q)
           at(r) == CHOOSE i \in DOMAIN q : Cardinality({j \in DOMAIN q : Precedes(q, j, i)}) = r - 1
<1>1. n \in Nat /\ DOMAIN q = 1 .. n
  BY LenProperties
<1>2. ASSUME NEW r \in 1 .. n PROVE at(r) \in DOMAIN q /\ Rank(q, at(r)) = r - 1
  <2>1. r - 1 \in 0 .. n - 1
    BY <1>1
  <2>2. \E i \in DOMAIN q : Rank(q, i) = r - 1
    BY <2>1, RankOnto
  <2>3. \E i \in DOMAIN q : Cardinality({j \in DOMAIN q : Precedes(q, j, i)}) = r - 1
    BY <2>2 DEF Rank, Before
  <2> QED BY <2>3 DEF Rank, Before
<1>3. Sorted(q) = [r \in 1 .. n |-> q[at(r)]]
  BY DEF Sorted
<1> HIDE DEF at
<1>4. ASSUME NEW r \in 1 .. n, NEW s \in 1 .. n, r < s
      PROVE  at(r) # at(s) /\ q[at(r)] <= q[at(s)]
  <2> DEFINE x == at(r)
             y == at(s)
  <2>1. x \in DOMAIN q /\ y \in DOMAIN q /\ Rank(q, x) = r - 1 /\ Rank(q, y) = s - 1
    BY <1>2
  <2> HIDE DEF x, y
  <2>2. x # y
    BY <1>1, <1>4, <2>1
  <2>3. Precedes(q, y, x) => Rank(q, y) < Rank(q, x)
    BY <2>1, RankGrows
  <2>4. Precedes(q, x, y)
    <3>1. ~ (s - 1 < r - 1)
      BY <1>1, <1>4
    <3>2. ~ Precedes(q, y, x)
      BY <2>1, <2>3, <3>1
    <3> QED BY <2>1, <2>2, <3>2, PrecedesOrders
  <2>5. q[x] <= q[y]
    <3>1. q[x] \in Nat /\ q[y] \in Nat
      BY <2>1
    <3> QED BY <2>4, <3>1 DEF Precedes
  <2> QED BY <2>2, <2>5 DEF x, y
<1>5. ASSUME NEW i \in DOMAIN q PROVE \E r \in 1 .. n : i = at(r)
  <2>1. Rank(q, i) \in 0 .. n - 1
    BY RankBound
  <2>2. PICK r \in 1 .. n : r = Rank(q, i) + 1
    BY <1>1, <2>1
  <2> DEFINE x == at(r)
  <2>3. x \in DOMAIN q /\ Rank(q, x) = Rank(q, i)
    BY <1>2, <2>1, <2>2
  <2> HIDE DEF x
  <2>4. /\ Precedes(q, x, i) => Rank(q, x) < Rank(q, i)
        /\ Precedes(q, i, x) => Rank(q, i) < Rank(q, x)
    BY <2>3, RankGrows
  <2>5. i = x
    BY <2>1, <2>3, <2>4, PrecedesOrders
  <2> QED BY <2>5 DEF x
<1> DEFINE a == [r \in 1 .. n |-> at(r)]
<1>6. a \in [1 .. n -> DOMAIN q] /\ \A r \in 1 .. n : a[r] = at(r)
  BY <1>2
<1> HIDE DEF a
<1>7. Sorted(q) = [r \in 1 .. n |-> q[a[r]]]
  BY <1>3, <1>6, Zenon
<1>8. /\ \A r, s \in 1 .. n : r < s => a[r] # a[s] /\ q[a[r]] <= q[a[s]]
      /\ \A i \in DOMAIN q : \E r \in 1 .. n : i = a[r]
  BY <1>4, <1>5, <1>6
<1> QED BY <1>6, <1>7, <1>8

\* A set of naturals that is not empty has a least element.
LEMMA LeastOfNats ==
  ASSUME NEW S \in SUBSET Nat, S # {}
  PROVE  \E x \in S : \A y \in S : x <= y
<1>1. PICK x \in S : \A y \in S : ~(<<y, x>> \in OpToRel(<, Nat))
  BY WFMin, NatLessThanWellFounded
<1>2. \A y \in S : ~(y < x)
  BY <1>1, Zenon DEF OpToRel
<1> QED BY <1>2

\* The place of the first that is not past divides a sorted list.
LEMMA FirstDivides ==
  ASSUME NEW q, NEW n \in Nat, q \in [1 .. n -> Nat], Len(q) = n, NEW now \in Nat,
         \A i, j \in 1 .. n : i < j => q[i] <= q[j]
  PROVE  /\ FirstUpcoming(q, now) \in 1 .. n + 1
         /\ \A i \in 1 .. n : q[i] < now <=> i < FirstUpcoming(q, now)
<1> DEFINE S == {i \in 1 .. n + 1 : i <= n => q[i] >= now}
           first == FirstUpcoming(q, now)
<1>1. n + 1 \in S /\ S \in SUBSET Nat
  OBVIOUS
<1>2. PICK f \in S : \A i \in S : f <= i
  <2> HIDE DEF S
  <2> QED BY <1>1, LeastOfNats
<1>3. f \in 1 .. n + 1 /\ (f <= n => q[f] >= now)
  OBVIOUS
<1>4. \A k \in 1 .. f - 1 : q[k] < now
  <2> SUFFICES ASSUME NEW k \in 1 .. f - 1, ~ (q[k] < now) PROVE FALSE
    OBVIOUS
  <2>1. k \in 1 .. n /\ q[k] \in Nat /\ k < f
    BY <1>3
  <2>2. k \in S
    BY <2>1
  <2> QED BY <1>2, <1>3, <2>1, <2>2
<1>5. \E i \in 1 .. Len(q) + 1 :
        /\ \A k \in 1 .. i - 1 : q[k] < now
        /\ i <= Len(q) => q[i] >= now
  BY <1>3, <1>4
<1>6. /\ first \in 1 .. n + 1
      /\ \A k \in 1 .. first - 1 : q[k] < now
      /\ first <= n => q[first] >= now
  BY <1>5 DEF FirstUpcoming
<1> HIDE DEF first
<1>7. ASSUME NEW i \in 1 .. n PROVE q[i] < now <=> i < first
  <2>1. i < first => q[i] < now
    BY <1>6
  <2>2. ASSUME first <= i PROVE ~ (q[i] < now)
    <3>1. first \in 1 .. n /\ q[first] >= now /\ q[first] \in Nat /\ q[i] \in Nat
      BY <1>6, <2>2
    <3>2. first = i \/ q[first] <= q[i]
      BY <2>2, <3>1
    <3> QED BY <3>1, <3>2
  <2> QED BY <1>6, <2>1, <2>2
<1> QED BY <1>6, <1>7 DEF first

\* Of more than the cap, four in a row are kept: those from the first to come
\* on, or the last four when fewer are to come.
IsWindow(kept, q, n, f) ==
  \E w \in 0 .. n - 4 :
    /\ w = f - 1 \/ (w = n - 4 /\ w < f - 1)
    /\ kept \in Seq(Nat) /\ Len(kept) = 4
    /\ \A i \in 1 .. 4 : kept[i] = q[w + i]

LEMMA FilledIsWindow ==
  ASSUME NEW q \in Seq(Nat), NEW n \in Nat, Len(q) = n, n > AgendaCap, NEW f \in 1 .. n + 1
  PROVE  IsWindow(Filled(SubSeq(q, 1, f - 1), SubSeq(q, f, n), AgendaCap), q, n, f)
<1> DEFINE kept == Filled(SubSeq(q, 1, f - 1), SubSeq(q, f, n), AgendaCap)
           past == SubSeq(q, 1, f - 1)
           upcoming == SubSeq(q, f, n)
           head == SubSeq(upcoming, 1, IF Len(upcoming) < 4 THEN Len(upcoming) ELSE 4)
           room == 4 - Len(head)
           from == IF Len(past) > room THEN Len(past) - room ELSE 0
           tail == SubSeq(past, from + 1, Len(past))
<1>1. kept = tail \o head
  BY DEF Filled, AgendaCap
<1> HIDE DEF kept
<1>2. n > 4 /\ \A i \in 1 .. n : q[i] \in Nat
  BY DEF AgendaCap
<1>3. /\ past \in Seq(Nat) /\ Len(past) = f - 1
      /\ \A i \in 1 .. f - 1 : past[i] = q[i]
  <2>1. 1 \in Int /\ f - 1 \in Int /\ \A i \in 1 .. f - 1 : q[i] \in Nat
    BY <1>2
  <2>2. /\ past \in Seq(Nat) /\ Len(past) = IF 1 <= f - 1 THEN f - 1 - 1 + 1 ELSE 0
        /\ \A i \in 1 .. f - 1 - 1 + 1 : past[i] = q[1 + i - 1]
    BY <2>1, SubSeqProperties
  <2> HIDE DEF past
  <2> QED BY <2>2
<1>4. /\ upcoming \in Seq(Nat) /\ Len(upcoming) = n - f + 1
      /\ \A i \in 1 .. n - f + 1 : upcoming[i] = q[f + i - 1]
  <2>1. f \in Int /\ n \in Int /\ \A i \in f .. n : q[i] \in Nat
    BY <1>2
  <2>2. /\ upcoming \in Seq(Nat) /\ Len(upcoming) = IF f <= n THEN n - f + 1 ELSE 0
        /\ \A i \in 1 .. n - f + 1 : upcoming[i] = q[f + i - 1]
    BY <2>1, SubSeqProperties
  <2> HIDE DEF upcoming
  <2> QED BY <2>2
<1> HIDE DEF past, upcoming
<1> DEFINE h == IF n - f + 1 < 4 THEN n - f + 1 ELSE 4
<1>5. h \in 0 .. 4 /\ h <= n - f + 1
  BY <1>2
<1>6. /\ head \in Seq(Nat) /\ Len(head) = h
      /\ \A i \in 1 .. h : head[i] = q[f + i - 1]
  <2>0. head = SubSeq(upcoming, 1, h)
    BY <1>4
  <2> HIDE DEF head, h
  <2>1. 1 \in Int /\ h \in Int /\ \A i \in 1 .. h : upcoming[i] \in Nat /\ upcoming[i] = q[f + i - 1]
    BY <1>2, <1>4, <1>5
  <2>2. /\ head \in Seq(Nat) /\ Len(head) = IF 1 <= h THEN h - 1 + 1 ELSE 0
        /\ \A i \in 1 .. h - 1 + 1 : head[i] = upcoming[1 + i - 1]
    BY <2>0, <2>1, SubSeqProperties
  <2> QED BY <1>5, <2>1, <2>2
<1> HIDE DEF head
<1>7. from = f - 1 - (4 - h) /\ from \in 0 .. f - 1
  BY <1>2, <1>3, <1>6
<1> HIDE DEF from
<1>8. /\ tail \in Seq(Nat) /\ Len(tail) = 4 - h
      /\ \A i \in 1 .. 4 - h : tail[i] = q[from + i]
  <2>1. /\ from + 1 \in Int /\ f - 1 \in Int
        /\ \A i \in from + 1 .. f - 1 : past[i] \in Nat /\ past[i] = q[i]
    BY <1>2, <1>3, <1>7
  <2>2. /\ tail \in Seq(Nat)
        /\ Len(tail) = IF from + 1 <= f - 1 THEN f - 1 - (from + 1) + 1 ELSE 0
        /\ \A i \in 1 .. f - 1 - (from + 1) + 1 : tail[i] = past[from + 1 + i - 1]
    BY <1>3, <2>1, SubSeqProperties
  <2> HIDE DEF tail, h
  <2> QED BY <1>5, <1>7, <2>1, <2>2
<1> HIDE DEF tail
<1>9. /\ kept \in Seq(Nat) /\ Len(kept) = 4
      /\ \A i \in 1 .. 4 : kept[i] = IF i <= 4 - h THEN tail[i] ELSE head[i - (4 - h)]
  <2>1. /\ kept \in Seq(Nat) /\ Len(kept) = Len(tail) + Len(head)
        /\ \A i \in 1 .. Len(tail) + Len(head) :
             kept[i] = IF i <= Len(tail) THEN tail[i] ELSE head[i - Len(tail)]
    <3>1. tail \in Seq(Nat) /\ head \in Seq(Nat)
      BY <1>6, <1>8
    <3>2. /\ tail \o head \in Seq(Nat) /\ Len(tail \o head) = Len(tail) + Len(head)
          /\ \A i \in 1 .. Len(tail) + Len(head) :
               (tail \o head)[i] = IF i <= Len(tail) THEN tail[i] ELSE head[i - Len(tail)]
      BY <3>1, ConcatProperties
    <3> QED BY <1>1, <3>2, Zenon
  <2>2. Len(tail) + Len(head) = 4
    BY <1>5, <1>6, <1>8
  <2> QED BY <1>8, <2>1, <2>2
<1>10. \A i \in 1 .. 4 : kept[i] = q[from + i]
  <2> TAKE i \in 1 .. 4
  <2>1. CASE i <= 4 - h
    <3>1. i \in 1 .. 4 - h
      BY <1>5, <2>1
    <3> QED BY <1>8, <1>9, <2>1, <3>1
  <2>2. CASE ~ (i <= 4 - h)
    <3>1. i - (4 - h) \in 1 .. h
      BY <1>5, <2>2
    <3>2. head[i - (4 - h)] = q[f + (i - (4 - h)) - 1]
      BY <1>6, <3>1
    <3>3. f + (i - (4 - h)) - 1 = from + i
      BY <1>5, <1>7
    <3> QED BY <1>9, <2>2, <3>2, <3>3
  <2> QED BY <2>1, <2>2
<1>11. from \in 0 .. n - 4 /\ (from = f - 1 \/ (from = n - 4 /\ from < f - 1))
  BY <1>2, <1>5, <1>7
<1>12. IsWindow(kept, q, n, f)
  BY <1>9, <1>10, <1>11 DEF IsWindow
<1> QED BY <1>12 DEF kept

\* What AgendaBest says of the stored agenda, of any list, starts and hour.
Best(list, starts, now) ==
  LET kept == [i \in DOMAIN list |-> list[i].start]
  IN /\ Len(kept) = IF Len(starts) < AgendaCap THEN Len(starts) ELSE AgendaCap
     /\ \A i \in DOMAIN kept : list[i].past <=> kept[i] < now
     /\ \A i \in 2 .. Len(kept) : kept[i-1] <= kept[i]
     /\ \A i \in DOMAIN kept : Times(kept, kept[i]) <= Times(starts, kept[i])
     /\ \A i \in DOMAIN kept, d \in DOMAIN starts :
          Times(kept, starts[d]) < Times(starts, starts[d]) =>
            IF starts[d] < now THEN kept[i] >= starts[d]
            ELSE kept[i] >= now /\ kept[i] <= starts[d]

\* Where each of a list has a place of its own in another, the list has no
\* time more often, and when less often, not all the places of that time are
\* taken.
Placed(k, m, q, place) ==
  /\ k \in [1 .. m -> Nat] /\ place \in [1 .. m -> DOMAIN q]
  /\ \A i \in 1 .. m : k[i] = q[place[i]]
  /\ \A i, j \in 1 .. m : place[i] = place[j] => i = j

LEMMA TimesByPlace ==
  ASSUME NEW q \in Seq(Nat), NEW m \in Nat, NEW k, NEW place, Placed(k, m, q, place),
         NEW t \in Nat
  PROVE  /\ Times(k, t) <= Times(q, t)
         /\ Times(k, t) < Times(q, t) =>
              \E d \in DOMAIN q : q[d] = t /\ \A i \in 1 .. m : place[i] # d
<1> DEFINE K == {i \in DOMAIN k : k[i] = t}
           Q == {i \in DOMAIN q : q[i] = t}
           f == [i \in K |-> place[i]]
<1>0. /\ k \in [1 .. m -> Nat] /\ place \in [1 .. m -> DOMAIN q]
      /\ \A i \in 1 .. m : k[i] = q[place[i]]
      /\ \A i, j \in 1 .. m : place[i] = place[j] => i = j
  BY DEF Placed
<1>1. DOMAIN k = 1 .. m /\ DOMAIN q = 1 .. Len(q) /\ Len(q) \in Nat
  BY <1>0, LenProperties
<1>2. IsFiniteSet(Q) /\ IsFiniteSet(K)
  <2>1. IsFiniteSet(1 .. Len(q)) /\ IsFiniteSet(1 .. m)
    BY <1>1, FS_Interval
  <2> QED BY <1>1, <2>1, FS_Subset
<1>3. f \in Injection(K, Q)
  BY <1>0, <1>1 DEF Injection, IsInjective
<1>4. Cardinality(K) <= Cardinality(Q)
  BY <1>2, <1>3, FS_Injection
<1>5. ASSUME Cardinality(K) < Cardinality(Q), \A d \in Q : \E i \in 1 .. m : place[i] = d
      PROVE  FALSE
  <2>1. \A d \in Q : \E i \in K : f[i] = d
    <3> TAKE d \in Q
    <3>1. PICK i \in 1 .. m : place[i] = d
      BY <1>5
    <3>2. i \in K
      BY <1>0, <1>1, <3>1
    <3> QED BY <3>1, <3>2
  <2>2. f \in Surjection(K, Q)
    BY <1>3, <2>1 DEF Injection, Surjection
  <2>3. Cardinality(Q) <= Cardinality(K)
    BY <1>2, <2>2, FS_Surjection
  <2>4. Cardinality(Q) \in Nat /\ Cardinality(K) \in Nat
    BY <1>2, FS_CardinalityType
  <2> HIDE DEF K, Q
  <2> QED BY <1>5, <2>3, <2>4
<1>6. Times(k, t) = Cardinality(K) /\ Times(q, t) = Cardinality(Q)
  BY DEF Times
<1>7. Cardinality(K) < Cardinality(Q) => \E d \in Q : \A i \in 1 .. m : place[i] # d
  BY <1>5
<1> QED BY <1>4, <1>6, <1>7

\* In either case what is kept is a window of the sorted list.
KeptWindow(kept, q, n, f, w) ==
  /\ kept \in [1 .. Len(kept) -> Nat]
  /\ Len(kept) = (IF n < 4 THEN n ELSE 4) /\ w + Len(kept) <= n
  /\ n > 4 => w = f - 1 \/ (w = n - 4 /\ w < f - 1)
  /\ \A i \in 1 .. Len(kept) : kept[i] = q[w + i]

LEMMA KeptIsWindow ==
  ASSUME NEW q \in Seq(Nat), NEW n \in Nat, Len(q) = n, NEW f \in 1 .. n + 1, NEW kept,
         kept = IF Len(q) <= AgendaCap THEN q
                ELSE Filled(SubSeq(q, 1, f - 1), SubSeq(q, f, Len(q)), AgendaCap)
  PROVE  \E w \in 0 .. n : KeptWindow(kept, q, n, f, w)
<1>1. CASE n <= 4
  <2>1. kept = q
    BY <1>1 DEF AgendaCap
  <2>2. kept \in [1 .. Len(kept) -> Nat] /\ \A i \in 1 .. Len(kept) : kept[i] = q[0 + i]
    BY <2>1, LenProperties
  <2>3. KeptWindow(kept, q, n, f, 0)
    BY <1>1, <2>1, <2>2 DEF KeptWindow
  <2> QED BY <2>3
<1>2. CASE n > 4
  <2>1. n > AgendaCap /\ kept = Filled(SubSeq(q, 1, f - 1), SubSeq(q, f, n), AgendaCap)
    BY <1>2 DEF AgendaCap
  <2>2. IsWindow(kept, q, n, f)
    BY <2>1, FilledIsWindow
  <2>3. PICK w \in 0 .. n - 4 :
          /\ w = f - 1 \/ (w = n - 4 /\ w < f - 1)
          /\ kept \in Seq(Nat) /\ Len(kept) = 4
          /\ \A i \in 1 .. 4 : kept[i] = q[w + i]
    BY <2>2 DEF IsWindow
  <2>4. kept \in [1 .. Len(kept) -> Nat]
    BY <2>3, LenProperties
  <2>5. Len(kept) = (IF n < 4 THEN n ELSE 4) /\ w + Len(kept) <= n
    <3>1. Len(kept) = 4
      BY <2>3
    <3>2. w + 4 <= n /\ 4 = (IF n < 4 THEN n ELSE 4)
      BY <1>2
    <3> QED BY <3>1, <3>2, Zenon
  <2>6. \A i \in 1 .. Len(kept) : kept[i] = q[w + i]
    BY <2>3, Zenon
  <2>7. KeptWindow(kept, q, n, f, w)
    BY <2>3, <2>4, <2>5, <2>6, Zenon DEF KeptWindow
  <2>8. w \in 0 .. n
    BY <1>2
  <2> QED BY <2>7, <2>8
<1> QED BY <1>1, <1>2

\* A window is sorted, and what lies outside of it is on the right side.
SortedAt(q, n, now, f) ==
  /\ q \in [1 .. n -> Nat] /\ f \in 1 .. n + 1
  /\ \A i, j \in 1 .. n : i < j => q[i] <= q[j]
  /\ \A i \in 1 .. n : q[i] < now <=> i < f

BestWindow(kept, q, n, w, now) ==
  /\ Len(kept) \in Nat /\ Len(kept) <= 4
  /\ \A i \in 1 .. Len(kept) : w + i \in 1 .. n
  /\ \A i \in 2 .. Len(kept) : kept[i-1] <= kept[i]
  /\ \A i \in 1 .. Len(kept), j \in 1 .. n :
       (\A e \in 1 .. Len(kept) : j # w + e) =>
         IF q[j] < now THEN kept[i] >= q[j] ELSE kept[i] >= now /\ kept[i] <= q[j]

LEMMA WindowIsBest ==
  ASSUME NEW q, NEW n \in Nat, NEW now \in Nat, NEW f, SortedAt(q, n, now, f),
         NEW kept, NEW w \in 0 .. n, KeptWindow(kept, q, n, f, w)
  PROVE  BestWindow(kept, q, n, w, now)
<1>0. /\ q \in [1 .. n -> Nat] /\ f \in 1 .. n + 1
      /\ \A i, j \in 1 .. n : i < j => q[i] <= q[j]
      /\ \A i \in 1 .. n : q[i] < now <=> i < f
  BY DEF SortedAt
<1> DEFINE m == Len(kept)
<1>1. /\ m = (IF n < 4 THEN n ELSE 4) /\ w + m <= n
      /\ n > 4 => w = f - 1 \/ (w = n - 4 /\ w < f - 1)
  BY DEF KeptWindow
<1>2. \A i \in 1 .. m : kept[i] = q[w + i]
  BY DEF KeptWindow
<1> HIDE DEF m
<1>3. m \in Nat /\ m <= 4 /\ \A i \in 1 .. m : w + i \in 1 .. n
  BY <1>1
<1>4. ASSUME NEW i \in 2 .. m PROVE kept[i-1] <= kept[i]
  <2>1. i - 1 \in 1 .. m /\ i \in 1 .. m /\ w + (i - 1) < w + i
    BY <1>3
  <2>2. w + (i - 1) \in 1 .. n /\ w + i \in 1 .. n
    BY <1>3, <2>1
  <2>3. q[w + (i - 1)] <= q[w + i]
    BY <1>0, <2>1, <2>2
  <2> QED BY <1>2, <2>1, <2>3
<1>5. ASSUME NEW i \in 1 .. m, NEW j \in 1 .. n, \A e \in 1 .. m : j # w + e
      PROVE  IF q[j] < now THEN kept[i] >= q[j] ELSE kept[i] >= now /\ kept[i] <= q[j]
  <2>1. w + i \in 1 .. n /\ kept[i] = q[w + i] /\ q[w + i] \in Nat /\ q[j] \in Nat
    BY <1>0, <1>2, <1>3
  <2>2. ~ (j \in w + 1 .. w + m)
    <3> SUFFICES ASSUME j \in w + 1 .. w + m PROVE FALSE
      OBVIOUS
    <3>1. j - w \in 1 .. m /\ w + (j - w) = j
      BY <1>3
    <3> QED BY <1>5, <3>1
  <2>3. n > 4 /\ m = 4
    BY <1>1, <2>2
  <2>4. w + i \in w + 1 .. w + 4 /\ (j <= w \/ j > w + 4)
    BY <2>2, <2>3
  <2>5. (q[j] < now <=> j < f) /\ (q[w + i] < now <=> w + i < f)
    BY <1>0, <2>1
  <2>6. /\ j < w + i => q[j] <= q[w + i]
        /\ w + i < j => q[w + i] <= q[j]
    BY <1>0, <2>1
  <2>7. w = f - 1 \/ (w = n - 4 /\ w < f - 1)
    BY <1>1, <2>3
  <2>8. j < f => j < w + i
    BY <1>0, <2>4, <2>7
  <2>9. ~ (j < f) => w + i < j /\ ~ (w + i < f)
    BY <1>0, <2>4, <2>7
  <2> QED BY <2>1, <2>5, <2>6, <2>8, <2>9
<1> QED BY <1>3, <1>4, <1>5, Zenon DEF m, BestWindow

\* The best of the starts are listed, whatever they are, sorted or not and
\* simultaneous or not.
THEOREM AgendaIsBest ==
  ASSUME NEW S \in Seq(Nat), NEW now \in Nat
  PROVE  /\ Agenda(S, now) \in Seq(Entry) /\ Len(Agenda(S, now)) <= AgendaCap
         /\ Best(Agenda(S, now), S, now)
<1> DEFINE q == Sorted(S)
           n == Len(S)
           f == FirstUpcoming(q, now)
           kept == IF Len(q) <= AgendaCap THEN q
                   ELSE Filled(SubSeq(q, 1, f - 1), SubSeq(q, f, Len(q)), AgendaCap)
           list == [i \in DOMAIN kept |-> [start |-> kept[i], past |-> kept[i] < now]]
<1>1. Agenda(S, now) = list
  BY DEF Agenda
<1> HIDE DEF list
<1>2. PICK at \in [1 .. n -> DOMAIN S] :
        /\ q = [r \in 1 .. n |-> S[at[r]]]
        /\ \A r, s \in 1 .. n : r < s => at[r] # at[s] /\ S[at[r]] <= S[at[s]]
        /\ \A d \in DOMAIN S : \E r \in 1 .. n : d = at[r]
  BY SortedList
<1>3. n \in Nat
  BY LenProperties
<1> HIDE DEF q, n
<1>4. q \in Seq(Nat) /\ q \in [1 .. n -> Nat] /\ Len(q) = n
  <2>1. q \in [1 .. n -> Nat]
    BY <1>2
  <2> QED BY <1>3, <2>1, LenProperties
<1>5. \A i \in 1 .. n : q[i] = S[at[i]] /\ at[i] \in DOMAIN S
  BY <1>2
<1>6. \A i, j \in 1 .. n : i < j => q[i] <= q[j]
  BY <1>2, <1>5
<1>7. f \in 1 .. n + 1 /\ \A i \in 1 .. n : q[i] < now <=> i < f
  BY <1>3, <1>4, <1>6, FirstDivides
<1> HIDE DEF f
<1>8. PICK w \in 0 .. n : KeptWindow(kept, q, n, f, w)
  BY <1>3, <1>4, <1>7, KeptIsWindow
<1> HIDE DEF kept
<1> DEFINE m == Len(kept)
<1>9. /\ m \in Nat /\ m <= 4
      /\ \A i \in 1 .. m : w + i \in 1 .. n
      /\ \A i \in 2 .. m : kept[i-1] <= kept[i]
      /\ \A i \in 1 .. m, j \in 1 .. n :
           (\A e \in 1 .. m : j # w + e) =>
             IF q[j] < now THEN kept[i] >= q[j] ELSE kept[i] >= now /\ kept[i] <= q[j]
  <2>1. SortedAt(q, n, now, f)
    BY <1>4, <1>6, <1>7, Zenon DEF SortedAt
  <2>2. BestWindow(kept, q, n, w, now)
    BY <1>3, <1>8, <2>1, WindowIsBest
  <2> QED BY <2>2, Zenon DEF BestWindow
<1>10. kept \in [1 .. m -> Nat] /\ DOMAIN kept = 1 .. m
  BY <1>8 DEF KeptWindow
<1>11. (\A i \in 1 .. m : kept[i] = q[w + i]) /\ m = IF n < 4 THEN n ELSE 4
  BY <1>8 DEF KeptWindow
<1> HIDE DEF m
<1>12. list \in Seq(Entry) /\ Len(list) = m /\ DOMAIN list = 1 .. m
  <2>1. \A i \in 1 .. m : [start |-> kept[i], past |-> kept[i] < now] \in Entry
    <3> TAKE i \in 1 .. m
    <3>1. kept[i] \in Nat
      BY <1>10
    <3>2. (kept[i] < now) \in BOOLEAN
      BY <3>1, SMT
    <3> QED BY <3>1, <3>2, Zenon DEF Entry
  <2>2. list \in [1 .. m -> Entry]
    BY <1>10, <2>1, Zenon DEF list
  <2>3. m \in Nat
    BY <1>9
  <2> HIDE DEF list
  <2> QED BY <2>2, <2>3
<1>13. \A i \in 1 .. m : list[i].past = (kept[i] < now) /\ list[i].start = kept[i]
  BY <1>10, Zenon DEF list
<1> DEFINE k == [i \in DOMAIN list |-> list[i].start]
<1>14. k = kept
  <2>1. k = [i \in 1 .. m |-> list[i].start]
    BY <1>12
  <2>2. k = [i \in 1 .. m |-> kept[i]]
    BY <1>13, <2>1, Zenon
  <2> HIDE DEF k
  <2> QED BY <1>10, <2>2
<1> HIDE DEF k
<1> DEFINE place == [i \in 1 .. m |-> at[w + i]]
<1>15. \A i \in 1 .. m : w + i \in 1 .. n /\ place[i] = at[w + i]
  BY <1>9, Zenon
<1>16. place \in [1 .. m -> DOMAIN S]
  <2>1. \A i \in 1 .. m : at[w + i] \in DOMAIN S
    BY <1>5, <1>15
  <2> QED BY <2>1, Zenon
<1> HIDE DEF place
<1>17. \A i \in 1 .. m : kept[i] = S[place[i]]
  BY <1>5, <1>11, <1>15, Zenon
<1>18. \A i, j \in 1 .. m : place[i] = place[j] => i = j
  <2> SUFFICES ASSUME NEW i \in 1 .. m, NEW j \in 1 .. m, place[i] = place[j], i # j PROVE FALSE
    OBVIOUS
  <2>1. w \in Nat /\ i \in Nat /\ j \in Nat
    BY <1>3, <1>9
  <2>2. w + i < w + j \/ w + j < w + i
    BY <2>1
  <2>3. w + i \in 1 .. n /\ w + j \in 1 .. n /\ at[w + i] = at[w + j]
    BY <1>15, Zenon
  <2> QED BY <1>2, <2>2, <2>3, Zenon
<1>19. Placed(kept, m, S, place)
  BY <1>10, <1>16, <1>17, <1>18, Zenon DEF Placed
<1>20. \A i \in 1 .. m : Times(kept, kept[i]) <= Times(S, kept[i])
  BY <1>9, <1>10, <1>19, TimesByPlace
<1>21. ASSUME NEW i \in 1 .. m, NEW d \in DOMAIN S, Times(kept, S[d]) < Times(S, S[d])
       PROVE  IF S[d] < now THEN kept[i] >= S[d] ELSE kept[i] >= now /\ kept[i] <= S[d]
  <2>1. S[d] \in Nat /\ m \in Nat
    BY <1>9
  <2>2. PICK e \in DOMAIN S : S[e] = S[d] /\ \A x \in 1 .. m : place[x] # e
    BY <1>19, <1>21, <2>1, TimesByPlace
  <2>3. PICK j \in 1 .. n : e = at[j]
    BY <1>2
  <2>4. q[j] = S[d]
    BY <1>5, <2>2, <2>3
  <2>5. \A x \in 1 .. m : j # w + x
    BY <1>15, <2>2, <2>3, Zenon
  <2> QED BY <1>9, <2>4, <2>5
<1>22. Best(list, S, now)
  <2>1. DOMAIN kept = 1 .. m /\ Len(kept) = m
    BY <1>10 DEF m
  <2>2. m = (IF Len(S) < AgendaCap THEN Len(S) ELSE AgendaCap)
    BY <1>11 DEF AgendaCap, n
  <2>3. \A i \in 1 .. m : list[i].past <=> kept[i] < now
    BY <1>13, Zenon
  <2>4. \A i \in 2 .. m : kept[i-1] <= kept[i]
    BY <1>9
  <2>5. [i \in DOMAIN list |-> list[i].start] = kept
    BY <1>14 DEF k
  <2> QED BY <1>20, <1>21, <2>1, <2>2, <2>3, <2>4, <2>5, Zenon DEF Best
<1> QED BY <1>1, <1>9, <1>12, <1>22 DEF AgendaCap

-----------------------------------------------------------------------------
(* Types of what is under way. *)

Dates == UNION {AllDayDates(o) : o \in Offer}
AnyToken == Token \cup {NoToken}
Kind == {"fetch", "list", "pair"}
Command == [kind : Kind, token : AnyToken]
Answer == [kind : Kind, outcome : {"ok", "err", "unauthorized"}, token : AnyToken,
           dates : SUBSET Dates, events : Seq(Nat)]
PairJob == [kind : {"pair"}, token : {NoToken}, at : {"ask", "poll", "sleep"},
            interval : Nat, left : Nat]
AskJob == [kind : {"fetch", "list"}, token : AnyToken, access : BOOLEAN,
           todo : Seq({"Holiday", "Agenda", "List"}) \ {<<>>},
           dates : SUBSET Dates, events : Seq(Nat)]
Save == [at : {"tmp", "synced", "written"}, token : AnyToken, why : {"paired", "revoked"}]

WireTypes ==
  /\ cmds \in Seq(Command) /\ replies \in Seq(Answer)
  /\ job \in {NoJob} \cup PairJob \cup AskJob

MainTypes ==
  /\ token \in AnyToken /\ file \in AnyToken \cup {Torn}
  /\ survives \subseteq AnyToken \cup {Torn} /\ save \in {NoSave} \cup Save
  /\ re_pair_needed \in BOOLEAN /\ fetch_in_flight \in BOOLEAN /\ pairing_in_flight \in BOOLEAN
  /\ holidays \subseteq Dates
  /\ agenda \in Seq(Entry) /\ Len(agenda) <= AgendaCap
  /\ listed \in [starts : Seq(Nat), now : Nat]
  /\ lapsed \in BOOLEAN /\ unsynced \in BOOLEAN
  /\ issued \in 0 .. MaxTokens /\ revoked \subseteq 1 .. issued

\* What an action leaves alone keeps its type.
LEMMA MainKept ==
  ASSUME MainTypes, KeepsMain, UNCHANGED revoked
  PROVE  MainTypes'
BY DEF MainTypes, KeepsMain, secrets, state, stores

LEMMA TokenType ==
  /\ NoToken \in AnyToken /\ NoToken \in Nat /\ Torn \notin AnyToken
  /\ \A t \in AnyToken : t \in Nat
  /\ \A n \in 0 .. MaxTokens : n < MaxTokens => n + 1 \in AnyToken
BY BoundAssumption DEF AnyToken, Token, NoToken, Torn

LEMMA CommandType ==
  ASSUME NEW k \in Kind, NEW t \in AnyToken
  PROVE  Cmd(k, t) \in Command /\ Cmd(k, t).kind = k /\ Cmd(k, t).token = t
BY DEF Cmd, Command

LEMMA SaveForType ==
  ASSUME NEW t \in AnyToken, NEW w \in {"paired", "revoked"}
  PROVE  SaveFor(t, w) \in Save /\ SaveFor(t, w).token = t /\ SaveFor(t, w).at = "tmp"
         /\ SaveFor(t, w).why = w /\ SaveFor(t, w) # NoSave
BY DEF SaveFor, Save, NoSave

LEMMA SaveKind ==
  ASSUME save \in {NoSave} \cup Save
  PROVE  /\ save = NoSave <=> save.at = "none"
         /\ save # NoSave => save \in Save /\ save.token \in AnyToken
                              /\ save.at \in {"tmp", "synced", "written"}
                              /\ save.why \in {"paired", "revoked"}
BY DEF NoSave, Save

LEMMA JobKind ==
  ASSUME job \in {NoJob} \cup PairJob \cup AskJob
  PROVE  /\ job.kind = "pair" => job \in PairJob
         /\ job.kind \in {"fetch", "list"} => job \in AskJob
         /\ job.kind \in Kind \/ job = NoJob
         /\ NoJob.kind \notin Kind
         /\ job.kind \in Kind => job.token \in AnyToken
BY DEF NoJob, PairJob, AskJob, Kind, AnyToken

\* An empty answer.
LEMMA NothingType == {} \in SUBSET Dates /\ <<>> \in Seq(Nat)
BY EmptySeq

\* What a calendar answers is made of dates and of a list of starts.
LEMMA OfferType ==
  ASSUME NEW o \in Offer
  PROVE  AllDayDates(o) \in SUBSET Dates /\ Starts(o) \in Seq(Nat)
<1>1. AllDayDates(o) \in SUBSET Dates
  BY DEF Dates
<1> DEFINE Event == [date : Nat, time : Time \cup {AllDay}]
<1>2. o \in Seq(Event)
  BY OfferAssumption
<1>3. \A e \in Event : Start(e) \in Nat
  <2> TAKE e \in Event
  <2>1. e.date \in Nat /\ DayLen \in Nat /\ (e.time = AllDay \/ e.time \in 0 .. DayLen - 1)
    BY TimeAssumption DEF Time
  <2>2. e.date * DayLen \in Nat
    BY <2>1
  <2>3. (IF e.time = AllDay THEN 0 ELSE e.time) \in Nat
    BY <2>1
  <2> QED BY <2>2, <2>3 DEF Start
<1> HIDE DEF Event
<1>4. Len(o) \in Nat /\ DOMAIN o = 1 .. Len(o) /\ \A i \in 1 .. Len(o) : o[i] \in Event
  BY <1>2, LenProperties
<1>5. Starts(o) \in [1 .. Len(o) -> Nat]
  BY <1>3, <1>4 DEF Starts
<1>6. Starts(o) \in Seq(Nat)
  BY <1>4, <1>5
<1> QED BY <1>1, <1>6

\* The reply to the command at hand.
LEMMA EndsType ==
  ASSUME WireTypes, job.kind \in Kind, NEW outcome \in {"ok", "err", "unauthorized"},
         NEW dates \in SUBSET Dates, NEW events \in Seq(Nat), Ends(outcome, dates, events),
         cmds' \in Seq(Command)
  PROVE  WireTypes'
<1>1. job' = NoJob
  BY DEF Ends
<1> DEFINE r == [kind |-> job.kind, outcome |-> outcome, token |-> job.token,
                 dates |-> dates, events |-> events]
<1>2. r \in Answer
  BY JobKind DEF Answer, WireTypes
<1>3. replies' = Append(replies, r)
  BY DEF Ends
<1> HIDE DEF r
<1> QED BY <1>1, <1>2, <1>3 DEF WireTypes

LEMMA FailsType ==
  ASSUME WireTypes, job.kind \in Kind, NEW outcome \in {"err", "unauthorized"}, Fails(outcome),
         cmds' \in Seq(Command)
  PROVE  WireTypes'
BY EndsType, NothingType DEF Fails

-----------------------------------------------------------------------------
(* Type correctness, action by action. *)

LEMMA InitTypes == Init => WireTypes /\ MainTypes
<1> SUFFICES ASSUME Init PROVE WireTypes /\ MainTypes
  OBVIOUS
<1>1. issued \in 0 .. MaxTokens /\ MaxTokens \in Nat /\ file \in AnyToken
  BY BoundAssumption DEF Init, AnyToken, Token, NoToken
<1>2. agenda \in Seq(Entry) /\ Len(agenda) <= AgendaCap
  BY EmptySeq DEF Init, AgendaCap
<1>3. listed \in [starts : Seq(Nat), now : Nat]
  BY NothingType DEF Init
<1>4. MainTypes
  BY <1>1, <1>2, <1>3, Zenon DEF Init, MainTypes
<1>5. WireTypes
  BY EmptySeq DEF Init, WireTypes
<1> QED BY <1>4, <1>5

LEMMA ReceiveType == WireTypes /\ MainTypes /\ Receive => WireTypes' /\ MainTypes'
<1> SUFFICES ASSUME WireTypes, MainTypes, Receive PROVE WireTypes' /\ MainTypes'
  OBVIOUS
<1>1. cmds \in Seq(Command) /\ cmds # <<>>
  BY DEF WireTypes, Receive
<1>2. Head(cmds) \in Command /\ Tail(cmds) \in Seq(Command)
  BY <1>1, HeadTailProperties
<1>3. job' \in PairJob \cup AskJob
  <2> DEFINE c == Head(cmds)
  <2>1. c.kind \in Kind /\ c.token \in AnyToken
    BY <1>2 DEF Command
  <2>2. CASE c.kind = "pair"
    <3>1. job' = [kind |-> "pair", token |-> NoToken, at |-> "ask", interval |-> 1, left |-> Expiry]
      BY <2>2 DEF Receive
    <3> QED BY <3>1, TimeAssumption DEF PairJob
  <2>3. CASE c.kind # "pair"
    <3> DEFINE todo == IF c.kind = "list" THEN <<"List">> ELSE Calendars
    <3>1. job' = [kind |-> c.kind, token |-> c.token, access |-> FALSE, todo |-> todo,
                  dates |-> {}, events |-> <<>>]
      BY <2>3 DEF Receive
    <3>2. todo \in Seq({"Holiday", "Agenda", "List"}) \ {<<>>}
      <4>1. Calendars \in Seq({"Holiday", "Agenda", "List"})
        BY CalendarsAssumption, SeqMonotonic
      <4>2. <<"List">> \in Seq({"Holiday", "Agenda", "List"}) /\ <<"List">> # <<>>
        OBVIOUS
      <4> QED BY <4>1, <4>2, CalendarsAssumption
    <3> HIDE DEF todo
    <3> QED BY <2>1, <2>3, <3>1, <3>2, NothingType DEF AskJob, Kind
  <2> QED BY <2>2, <2>3
<1>4. WireTypes'
  BY <1>2, <1>3 DEF WireTypes, Receive
<1> QED BY <1>4, MainKept DEF Receive

LEMMA PairTypes ==
  WireTypes /\ MainTypes /\ (RequestDeviceCode \/ Poll \/ Slept) => WireTypes' /\ MainTypes'
<1> SUFFICES ASSUME WireTypes, MainTypes, RequestDeviceCode \/ Poll \/ Slept
             PROVE  WireTypes' /\ MainTypes'
  OBVIOUS
<1>0. job \in PairJob /\ job.kind \in Kind /\ cmds \in Seq(Command)
  BY JobKind DEF WireTypes, RequestDeviceCode, Poll, Slept, Kind
<1>1. CASE RequestDeviceCode
  <2>0. cmds' \in Seq(Command)
    BY <1>0, <1>1 DEF RequestDeviceCode
  <2>1. MainTypes'
    BY <1>1, MainKept DEF RequestDeviceCode
  <2>2. CASE Fails("err")
    BY <1>0, <2>0, <2>1, <2>2, FailsType
  <2>3. ASSUME NEW n \in 0 .. MaxInterval,
               job' = [job EXCEPT !.at = "poll", !.interval = IF n > 1 THEN n ELSE 1],
               UNCHANGED replies
        PROVE  WireTypes'
    <3>1. n \in Nat /\ (IF n > 1 THEN n ELSE 1) \in Nat
      BY TimeAssumption
    <3>2. job' \in PairJob
      BY <1>0, <2>3, <3>1 DEF PairJob
    <3> QED BY <2>0, <2>3, <3>2 DEF WireTypes
  <2> QED BY <1>1, <2>1, <2>2, <2>3 DEF RequestDeviceCode
<1>2. CASE Poll
  <2>0. cmds' \in Seq(Command) /\ cmds' = cmds
    BY <1>0, <1>2 DEF Poll
  <2>1. issued' = issued => MainTypes'
    BY <1>2 DEF Poll, MainTypes, secrets, state, stores
  <2>2. CASE Fails("err") /\ UNCHANGED issued
    BY <1>0, <2>0, <2>1, <2>2, FailsType
  <2>3. ASSUME NEW i \in Nat, SleepFor(i), UNCHANGED <<replies, issued>>
        PROVE  WireTypes' /\ MainTypes'
    <3>1. (IF i < Expiry THEN i ELSE Expiry) \in Nat
      BY TimeAssumption
    <3>2. job' \in PairJob
      BY <1>0, <2>3, <3>1 DEF PairJob, SleepFor
    <3> QED BY <2>0, <2>1, <2>3, <3>2 DEF WireTypes
  <2>4. ASSUME issued < MaxTokens, issued' = issued + 1, job' = NoJob,
               replies' = Append(replies, [kind |-> "pair", outcome |-> "ok", token |-> issued + 1,
                                               dates |-> {}, events |-> <<>>])
        PROVE  WireTypes' /\ MainTypes'
    <3>1. issued \in 0 .. MaxTokens /\ issued' \in 0 .. MaxTokens /\ issued + 1 \in AnyToken
          /\ revoked \subseteq 1 .. issued'
      BY <2>4, TokenType, BoundAssumption DEF MainTypes
    <3>2. [kind |-> "pair", outcome |-> "ok", token |-> issued + 1, dates |-> {}, events |-> <<>>] \in Answer
      BY <3>1, NothingType DEF Answer, Kind
    <3>3. WireTypes'
      BY <2>0, <2>4, <3>2 DEF WireTypes
    <3>4. MainTypes'
      BY <1>2, <3>1 DEF Poll, MainTypes, secrets, state, stores
    <3> QED BY <3>3, <3>4
  <2>5. job.interval \in Nat /\ job.interval + 1 \in Nat
    BY <1>0 DEF PairJob
  <2> QED BY <1>2, <2>2, <2>3, <2>4, <2>5 DEF Poll
<1>3. CASE Slept
  <2>1. MainTypes'
    BY <1>3, MainKept DEF Slept
  <2>2. (IF job.left > job.interval THEN job.left - job.interval ELSE 0) \in Nat
    BY <1>0 DEF PairJob
  <2>3. job' \in PairJob
    BY <1>0, <1>3, <2>2 DEF Slept, PairJob
  <2> QED BY <1>3, <2>1, <2>3 DEF Slept, WireTypes
<1> QED BY <1>1, <1>2, <1>3

\* What the command has gathered once calendar o of the list has answered.
DatesWith(o) == job.dates \cup IF Head(job.todo) = "Holiday" THEN AllDayDates(o) ELSE {}
EventsWith(o) == job.events \o IF Head(job.todo) = "Agenda" THEN Starts(o) ELSE <<>>

LEMMA GatheredType ==
  ASSUME job \in AskJob, NEW o \in IF job.kind = "list" THEN {<<>>} ELSE Offer
  PROVE  DatesWith(o) \in SUBSET Dates /\ EventsWith(o) \in Seq(Nat)
<1>1. AllDayDates(o) \in SUBSET Dates /\ Starts(o) \in Seq(Nat)
  <2>1. CASE job.kind = "list"
    <3>1. o = <<>>
      BY <2>1
    <3>2. AllDayDates(o) = {} /\ Starts(o) = <<>>
      BY <3>1 DEF AllDayDates, Starts
    <3> QED BY <3>2, NothingType
  <2>2. CASE job.kind # "list"
    BY <2>2, OfferType
  <2> QED BY <2>1, <2>2
<1>2. job.dates \in SUBSET Dates /\ job.events \in Seq(Nat)
  BY DEF AskJob
<1>3. DatesWith(o) \in SUBSET Dates
  BY <1>1, <1>2 DEF DatesWith
<1>4. (IF Head(job.todo) = "Agenda" THEN Starts(o) ELSE <<>>) \in Seq(Nat)
  BY <1>1, NothingType
<1>5. EventsWith(o) \in Seq(Nat)
  BY <1>2, <1>4, ConcatProperties DEF EventsWith
<1> QED BY <1>3, <1>5

LEMMA GetOkGathers ==
  ASSUME GetOk
  PROVE  \E o \in IF job.kind = "list" THEN {<<>>} ELSE Offer :
           IF Len(job.todo) = 1
           THEN Ends("ok", DatesWith(o), EventsWith(o))
           ELSE /\ \E valid \in BOOLEAN :
                     job' = [job EXCEPT !.todo = Tail(@), !.access = valid,
                                        !.dates = DatesWith(o), !.events = EventsWith(o)]
                /\ UNCHANGED replies
BY DEF GetOk, DatesWith, EventsWith

LEMMA AskTypes ==
  WireTypes /\ MainTypes /\ (RefreshAccessToken \/ GetOk \/ GetFails \/ Get401)
    => WireTypes' /\ MainTypes'
<1> SUFFICES ASSUME WireTypes, MainTypes, RefreshAccessToken \/ GetOk \/ GetFails \/ Get401
             PROVE  WireTypes' /\ MainTypes'
  OBVIOUS
<1>0. job \in AskJob /\ job.kind \in Kind /\ cmds' \in Seq(Command)
  BY JobKind DEF WireTypes, RefreshAccessToken, GetOk, GetFails, Get401, MayAsk, Asking, Kind
<1>1. MainTypes'
  BY MainKept DEF RefreshAccessToken, GetOk, GetFails, Get401
<1>2. CASE Fails("err") \/ Fails("unauthorized")
  BY <1>0, <1>1, <1>2, FailsType
<1>3. ASSUME NEW a \in BOOLEAN, job' = [job EXCEPT !.access = a], UNCHANGED replies
      PROVE  WireTypes'
  <2>1. job' \in AskJob
    BY <1>0, <1>3 DEF AskJob
  <2> QED BY <1>0, <1>3, <2>1 DEF WireTypes
<1>4. CASE GetOk
  <2>1. PICK o \in IF job.kind = "list" THEN {<<>>} ELSE Offer :
          IF Len(job.todo) = 1
          THEN Ends("ok", DatesWith(o), EventsWith(o))
          ELSE /\ \E valid \in BOOLEAN :
                    job' = [job EXCEPT !.todo = Tail(@), !.access = valid,
                                       !.dates = DatesWith(o), !.events = EventsWith(o)]
               /\ UNCHANGED replies
    BY <1>4, GetOkGathers
  <2>2. DatesWith(o) \in SUBSET Dates /\ EventsWith(o) \in Seq(Nat)
    BY <1>0, GatheredType
  <2>3. CASE Len(job.todo) = 1
    BY <1>0, <1>1, <2>1, <2>2, <2>3, EndsType
  <2>4. CASE Len(job.todo) # 1
    <3>1. PICK valid \in BOOLEAN :
            job' = [job EXCEPT !.todo = Tail(@), !.access = valid,
                               !.dates = DatesWith(o), !.events = EventsWith(o)]
      BY <2>1, <2>4
    <3>2. job.todo \in Seq({"Holiday", "Agenda", "List"}) /\ job.todo # <<>>
      BY <1>0 DEF AskJob
    <3>3. Tail(job.todo) \in Seq({"Holiday", "Agenda", "List"}) /\ Len(Tail(job.todo)) = Len(job.todo) - 1
          /\ Len(job.todo) \in Nat \ {0}
      BY <3>2, HeadTailProperties, EmptySeq
    <3>4. Tail(job.todo) # <<>>
      <4>1. Len(Tail(job.todo)) # 0
        BY <2>4, <3>3
      <4> QED BY <4>1, EmptySeq
    <3>5. job' \in AskJob
      BY <1>0, <2>2, <3>1, <3>3, <3>4 DEF AskJob
    <3> QED BY <1>0, <1>1, <2>1, <2>4, <3>5 DEF WireTypes
  <2> QED BY <2>3, <2>4
<1> QED BY <1>1, <1>2, <1>3, <1>4 DEF RefreshAccessToken, GetFails, Get401

LEMMA AfterSaveTypes ==
  ASSUME WireTypes, MainTypes, save # NoSave, NEW saved, AfterSave(saved)
  PROVE  /\ cmds' \in Seq(Command)
         /\ re_pair_needed' \in BOOLEAN /\ fetch_in_flight' \in BOOLEAN /\ pairing_in_flight' \in BOOLEAN
<1>1. Cmd("list", save.token) \in Command /\ cmds \in Seq(Command)
  BY CommandType, SaveKind DEF MainTypes, WireTypes, Kind
<1>2. cmds' \in Seq(Command)
  BY <1>1 DEF AfterSave
<1> QED BY <1>2, Zenon DEF AfterSave, MainTypes, state

LEMMA SavingTypes == WireTypes /\ MainTypes /\ (Saving \/ WrittenBack) => WireTypes' /\ MainTypes'
<1> SUFFICES ASSUME WireTypes, MainTypes, Saving \/ WrittenBack PROVE WireTypes' /\ MainTypes'
  OBVIOUS
<1>1. CASE WriteTmp
  <2>1. save \in Save
    BY <1>1, SaveKind DEF WriteTmp, MainTypes
  <2>2. PICK ok \in BOOLEAN :
       /\ save' = [save EXCEPT !.at = IF ok THEN "synced" ELSE "written"]
       /\ unsynced' = (unsynced \/ ~ok)
    BY <1>1 DEF WriteTmp
  <2>3. save' \in Save
    BY <2>1, <2>2 DEF Save
  <2>4. unsynced' \in BOOLEAN
    BY <2>2, Zenon
  <2>5. WireTypes'
    BY <1>1 DEF WriteTmp, WireTypes
  <2> QED BY <1>1, <2>3, <2>4, <2>5 DEF WriteTmp, MainTypes, state, stores, server
<1>2. CASE Rename
  <2>1. save # NoSave /\ save.token \in AnyToken
    BY <1>2, SaveKind DEF Rename, MainTypes
  <2>2. PICK saved \in BOOLEAN : AfterSave(saved) /\ lapsed' = ~saved
    BY <1>2 DEF Rename
  <2>3. /\ cmds' \in Seq(Command)
        /\ re_pair_needed' \in BOOLEAN /\ fetch_in_flight' \in BOOLEAN /\ pairing_in_flight' \in BOOLEAN
    BY <2>1, <2>2, AfterSaveTypes
  <2>4. lapsed' \in BOOLEAN
    BY <2>2, Zenon
  <2>5. WireTypes'
    BY <1>2, <2>3 DEF Rename, WireTypes
  <2>6. file' \in AnyToken \cup {Torn} /\ survives' \subseteq AnyToken \cup {Torn}
    BY <1>2, <2>1 DEF Rename, MainTypes
  <2> QED BY <1>2, <2>3, <2>4, <2>5, <2>6 DEF Rename, MainTypes, stores, server
<1>3. CASE SaveFails
  <2>1. /\ cmds' \in Seq(Command)
        /\ re_pair_needed' \in BOOLEAN /\ fetch_in_flight' \in BOOLEAN /\ pairing_in_flight' \in BOOLEAN
    BY <1>3, AfterSaveTypes DEF SaveFails
  <2>2. WireTypes'
    BY <1>3, <2>1 DEF SaveFails, WireTypes
  <2> QED BY <1>3, <2>1, <2>2 DEF SaveFails, MainTypes, stores, server
<1>4. CASE WrittenBack
  <2>1. WireTypes'
    BY <1>4 DEF WrittenBack, WireTypes
  <2> QED BY <1>4, <2>1 DEF WrittenBack, MainTypes, stores, server, state
<1> QED BY <1>1, <1>2, <1>3, <1>4 DEF Saving

LEMMA LoadTypes ==
  ASSUME MainTypes, NEW f \in AnyToken \cup {Torn}, Load(f)
  PROVE  /\ token' \in AnyToken /\ file' \in AnyToken \cup {Torn}
         /\ re_pair_needed' \in BOOLEAN /\ lapsed' \in BOOLEAN
<1>1. token' \in AnyToken /\ file' \in AnyToken \cup {Torn}
  BY TokenType DEF Load
<1>2. re_pair_needed' \in BOOLEAN /\ lapsed' \in BOOLEAN
  BY Zenon DEF Load
<1> QED BY <1>1, <1>2

LEMMA BootTypes == WireTypes /\ MainTypes /\ Boot => WireTypes' /\ MainTypes'
<1> SUFFICES ASSUME WireTypes, MainTypes, Boot PROVE WireTypes' /\ MainTypes'
  OBVIOUS
<1>1. PICK f \in survives \cup {file} : Load(f) /\ (survives' = survives \/ survives' = {f})
  BY DEF Boot
<1>2. f \in AnyToken \cup {Torn} /\ survives' \subseteq AnyToken \cup {Torn}
  BY <1>1 DEF MainTypes
<1>3. /\ token' \in AnyToken /\ file' \in AnyToken \cup {Torn}
      /\ re_pair_needed' \in BOOLEAN /\ lapsed' \in BOOLEAN
  BY <1>1, <1>2, LoadTypes
<1>4. agenda' \in Seq(Entry) /\ Len(agenda') <= AgendaCap
  BY EmptySeq DEF Boot, AgendaCap
<1>5. listed' \in [starts : Seq(Nat), now : Nat]
  BY NothingType DEF Boot
<1>6. WireTypes'
  BY EmptySeq DEF Boot, WireTypes
<1>7. MainTypes'
  BY <1>2, <1>3, <1>4, <1>5 DEF Boot, MainTypes, server
<1> QED BY <1>6, <1>7

LEMMA TakesTypes ==
  ASSUME WireTypes, NEW kind, NEW outcome, Takes(kind, outcome), cmds' = cmds, job' = job
  PROVE  /\ WireTypes' /\ Head(replies) \in Answer
         /\ Head(replies).token \in AnyToken /\ Head(replies).dates \in SUBSET Dates
         /\ Head(replies).events \in Seq(Nat)
<1>1. replies \in Seq(Answer) /\ replies # <<>>
  BY DEF WireTypes, Takes
<1>2. Head(replies) \in Answer /\ Tail(replies) \in Seq(Answer)
  BY <1>1, HeadTailProperties
<1>3. WireTypes'
  BY <1>2 DEF WireTypes, Takes
<1> QED BY <1>2, <1>3 DEF Answer

LEMMA RepliedTypes == WireTypes /\ MainTypes /\ Replied => WireTypes' /\ MainTypes'
<1> SUFFICES ASSUME WireTypes, MainTypes, Replied PROVE WireTypes' /\ MainTypes'
  OBVIOUS
<1>1. CASE EventsFetched
  <2>1. /\ WireTypes' /\ Head(replies).dates \in SUBSET Dates /\ Head(replies).events \in Seq(Nat)
    BY <1>1, TakesTypes DEF EventsFetched
  <2>2. PICK now \in Now : /\ agenda' = Agenda(Head(replies).events, now)
                           /\ listed' = [starts |-> Head(replies).events, now |-> now]
    BY <1>1 DEF EventsFetched
  <2>3. now \in Nat /\ Head(replies).events \in Seq(Nat)
    BY <2>1, BoundAssumption
  <2>4. agenda' \in Seq(Entry) /\ Len(agenda') <= AgendaCap
    BY <2>2, <2>3, AgendaIsBest
  <2>5. listed' \in [starts : Seq(Nat), now : Nat] /\ holidays' \subseteq Dates
    BY <1>1, <2>1, <2>2, <2>3 DEF EventsFetched
  <2> QED BY <1>1, <2>1, <2>4, <2>5 DEF EventsFetched, MainTypes, secrets, server
<1>2. CASE FetchFailed
  <2>1. WireTypes'
    BY <1>2, TakesTypes DEF FetchFailed
  <2> QED BY <1>2, <2>1 DEF FetchFailed, MainTypes, secrets, stores, server
<1>3. CASE Unauthorized
  <2>1. WireTypes'
    BY <1>3, TakesTypes DEF Unauthorized
  <2>2. token' \in AnyToken /\ save' \in {NoSave} \cup Save
        /\ re_pair_needed' \in BOOLEAN /\ fetch_in_flight' \in BOOLEAN /\ pairing_in_flight' \in BOOLEAN
    <3>1. SaveFor(NoToken, "revoked") \in Save /\ token' \in AnyToken
      BY <1>3, TokenType, SaveForType DEF Unauthorized
    <3>2. CASE token # NoToken
      BY <1>3, <3>1, <3>2 DEF Unauthorized, MainTypes, state
    <3>3. CASE token = NoToken
      BY <1>3, <3>1, <3>3 DEF Unauthorized, MainTypes
    <3> QED BY <3>2, <3>3
  <2> QED BY <1>3, <2>1, <2>2 DEF Unauthorized, MainTypes, stores, server
<1>4. CASE Paired
  <2>1. WireTypes' /\ Head(replies).token \in AnyToken
    BY <1>4, TakesTypes DEF Paired
  <2>2. token' \in AnyToken /\ save' \in {NoSave} \cup Save
    BY <1>4, <2>1, SaveForType DEF Paired
  <2> QED BY <1>4, <2>1, <2>2 DEF Paired, MainTypes, stores, server, state
<1>5. CASE PairingFailed
  <2>1. WireTypes'
    BY <1>5, TakesTypes DEF PairingFailed
  <2> QED BY <1>5, <2>1 DEF PairingFailed, MainTypes, secrets, stores, server
<1>6. CASE Listed
  <2>1. WireTypes'
    BY <1>6, TakesTypes DEF Listed
  <2> QED BY <1>6, <2>1 DEF Listed, MainTypes, secrets, stores, server, state
<1> QED BY <1>1, <1>2, <1>3, <1>4, <1>5, <1>6 DEF Replied

LEMMA TimerTypes ==
  WireTypes /\ MainTypes /\ (RefreshTick \/ PairCalendars \/ Revoke) => WireTypes' /\ MainTypes'
<1> SUFFICES ASSUME WireTypes, MainTypes, RefreshTick \/ PairCalendars \/ Revoke
             PROVE  WireTypes' /\ MainTypes'
  OBVIOUS
<1>0. /\ Cmd("fetch", token) \in Command /\ Cmd("pair", NoToken) \in Command
      /\ cmds \in Seq(Command)
  BY CommandType, TokenType DEF MainTypes, WireTypes, Kind
<1>1. CASE RefreshTick
  <2>1. WireTypes'
    BY <1>0, <1>1 DEF RefreshTick, WireTypes
  <2>2. re_pair_needed' \in BOOLEAN /\ fetch_in_flight' \in BOOLEAN
    BY <1>1 DEF RefreshTick, MainTypes
  <2> QED BY <1>1, <2>1, <2>2 DEF RefreshTick, MainTypes, secrets, stores, server
<1>2. CASE PairCalendars
  <2>1. WireTypes'
    BY <1>0, <1>2 DEF PairCalendars, WireTypes
  <2> QED BY <1>2, <2>1 DEF PairCalendars, MainTypes, secrets, stores, server
<1>3. CASE Revoke
  <2>1. WireTypes'
    BY <1>3 DEF Revoke, WireTypes
  <2>2. revoked' \subseteq 1 .. issued'
    BY <1>3 DEF Revoke, MainTypes
  <2> QED BY <1>3, <2>1, <2>2 DEF Revoke, MainTypes, secrets, stores, state
<1> QED BY <1>1, <1>2, <1>3

LEMMA TypesStep == WireTypes /\ MainTypes /\ [Next]_vars => WireTypes' /\ MainTypes'
<1> SUFFICES ASSUME WireTypes, MainTypes, [Next]_vars PROVE WireTypes' /\ MainTypes'
  OBVIOUS
<1>1. CASE UNCHANGED vars
  <2>1. WireTypes'
    BY <1>1 DEF vars, WireTypes
  <2> QED BY <1>1, <2>1 DEF vars, MainTypes, secrets, stores, server, state
<1> QED BY <1>1, ReceiveType, PairTypes, AskTypes, SavingTypes, RepliedTypes, TimerTypes, BootTypes
        DEF Next, Dispatcher

-----------------------------------------------------------------------------
(* One busy request at a time.  A fetch or a pairing is in one place: the  *)
(* last of the commands, at the dispatcher, or the last of the replies.    *)
(* One listing of the calendars may stand before it, and both channels     *)
(* and the dispatcher are empty while main saves.                          *)

Busy(r) == r.kind \in {"fetch", "pair"}

CmdLine ==
  \A i \in 1 .. Len(cmds) :
    LET c == cmds[i] IN
    /\ IF Busy(c) THEN i = Len(cmds) ELSE i = 1 /\ job = NoJob /\ replies = <<>>
    /\ c.kind = "fetch" => fetch_in_flight /\ c.token = token
    /\ c.kind = "pair" => pairing_in_flight

\* An answer to a fetch was asked with the token main holds; one to a pairing
\* brings a newer one.
ReplyLine ==
  \A i \in 1 .. Len(replies) :
    LET r == replies[i] IN
    /\ IF Busy(r) THEN i = Len(replies) /\ job = NoJob /\ cmds = <<>> ELSE i = 1
    /\ r.kind = "fetch" => /\ fetch_in_flight /\ r.token = token
                           /\ r.outcome = "unauthorized" => r.token \in revoked
                           /\ r.outcome = "ok" => told = 1 .. Len(Calendars)
    /\ r.kind = "pair" => /\ pairing_in_flight /\ r.outcome \in {"ok", "err"}
                          /\ r.outcome = "ok" => r.token > token /\ r.token <= issued

\* A fetch has been told by the calendars it has not to ask any more.
JobLine ==
  /\ Busy(job) => cmds = <<>>
  /\ job.kind = "list" => replies = <<>>
  /\ job.kind = "fetch" => /\ fetch_in_flight /\ job.token = token
                           /\ Len(job.todo) <= Len(Calendars)
                           /\ told = Len(job.todo) + 1 .. Len(Calendars)
  /\ job.kind = "pair" => pairing_in_flight

Quiet == cmds = <<>> /\ job = NoJob /\ replies = <<>>

SaveLine == save # NoSave => Quiet /\ save.token = token

\* The tokens main and the disk hold are the server's.
TokensIssued ==
  /\ token <= issued
  /\ \A f \in survives \cup {file} : f <= issued \/ f = Torn

Disk == /\ save.at = "written" => unsynced
        /\ BootFindsToken

Types == WireTypes /\ MainTypes
Line == CmdLine /\ ReplyLine /\ JobLine /\ SaveLine /\ TokensIssued
BootsType == boots \in Nat
Inv == Types /\ Line /\ Disk /\ BootsType

LEMMA AppendPlaces ==
  ASSUME NEW T, NEW q \in Seq(T), NEW e \in T
  PROVE  /\ Append(q, e) \in Seq(T) /\ Len(q) \in Nat /\ Len(Append(q, e)) = Len(q) + 1
         /\ \A i \in 1 .. Len(q) : Append(q, e)[i] = q[i]
         /\ Append(q, e)[Len(q) + 1] = e
BY AppendProperties

LEMMA TailPlaces ==
  ASSUME NEW T, NEW q \in Seq(T), q # <<>>
  PROVE  /\ Tail(q) \in Seq(T) /\ Len(Tail(q)) \in Nat /\ Len(q) = Len(Tail(q)) + 1
         /\ \A i \in 1 .. Len(Tail(q)) : Tail(q)[i] = q[i + 1]
         /\ Head(q) = q[1] /\ Head(q) \in T
BY HeadTailProperties

\* Places of the two channels.
LEMMA Lens ==
  ASSUME WireTypes
  PROVE  /\ cmds \in Seq(Command) /\ Len(cmds) \in Nat /\ (cmds = <<>> <=> Len(cmds) = 0)
         /\ replies \in Seq(Answer) /\ Len(replies) \in Nat /\ (replies = <<>> <=> Len(replies) = 0)
         /\ \A i \in 1 .. Len(cmds) : cmds[i].kind \in Kind /\ cmds[i].token \in AnyToken
         /\ \A i \in 1 .. Len(replies) : replies[i].kind \in Kind /\ replies[i].token \in AnyToken
<1>1. cmds \in Seq(Command) /\ replies \in Seq(Answer)
  BY DEF WireTypes
<1>2. /\ Len(cmds) \in Nat /\ (cmds = <<>> <=> Len(cmds) = 0)
      /\ Len(replies) \in Nat /\ (replies = <<>> <=> Len(replies) = 0)
  BY <1>1, EmptySeq
<1>3. /\ \A i \in 1 .. Len(cmds) : cmds[i] \in Command
      /\ \A i \in 1 .. Len(replies) : replies[i] \in Answer
  BY <1>1, ElementOfSeq
<1> QED BY <1>1, <1>2, <1>3 DEF Command, Answer

\* Without both flags nothing busy is under way.
LEMMA NothingBusy ==
  ASSUME WireTypes, Line, ~fetch_in_flight, ~pairing_in_flight
  PROVE  /\ \A i \in 1 .. Len(cmds) : cmds[i].kind = "list" /\ i = 1 /\ job = NoJob /\ replies = <<>>
         /\ \A i \in 1 .. Len(replies) : replies[i].kind = "list" /\ i = 1
         /\ ~ Busy(job)
BY Lens DEF Line, CmdLine, ReplyLine, JobLine, Busy, Kind

LEMMA ReceiveLine == Types /\ Line /\ Receive => Line'
<1> SUFFICES ASSUME Types, Line, Receive PROVE Line'
  OBVIOUS
<1> DEFINE c == Head(cmds)
<1>1. /\ cmds' = Tail(cmds) /\ Len(cmds') \in Nat /\ Len(cmds) = Len(cmds') + 1
      /\ \A i \in 1 .. Len(cmds') : cmds'[i] = cmds[i + 1]
      /\ c = cmds[1] /\ (cmds' = <<>> <=> Len(cmds') = 0)
      /\ 1 \in 1 .. Len(cmds) /\ c.kind \in Kind
  <2>1. cmds \in Seq(Command) /\ cmds # <<>> /\ cmds' = Tail(cmds)
    BY DEF Types, WireTypes, Receive
  <2>2. /\ Tail(cmds) \in Seq(Command)
        /\ Len(Tail(cmds)) \in Nat /\ Len(cmds) = Len(Tail(cmds)) + 1
        /\ \A i \in 1 .. Len(Tail(cmds)) : Tail(cmds)[i] = cmds[i + 1]
        /\ Head(cmds) = cmds[1] /\ Head(cmds) \in Command
    BY <2>1, TailPlaces
  <2>3. Tail(cmds) = <<>> <=> Len(Tail(cmds)) = 0
    BY <2>2, EmptySeq
  <2>4. c.kind \in Kind
    BY <2>2 DEF Command
  <2> QED BY <2>1, <2>2, <2>3, <2>4
<1>2. /\ job = NoJob /\ UNCHANGED <<replies, revoked, token, issued, save, file, survives>>
      /\ UNCHANGED <<fetch_in_flight, pairing_in_flight>>
      /\ told' = IF c.kind = "fetch" THEN {} ELSE told
  BY DEF Receive, KeepsMain, secrets, state
<1>3. /\ job'.kind = c.kind
      /\ c.kind = "fetch" => job'.token = c.token /\ job'.todo = Calendars
  BY DEF Receive
<1>4. cmds # <<>> /\ save = NoSave
  BY DEF Receive, Line, SaveLine, Quiet
<1> HIDE DEF c
<1>5. IF Busy(c) THEN Len(cmds) = 1 ELSE replies = <<>>
  BY <1>1 DEF Line, CmdLine
<1>6. \A i \in 1 .. Len(replies) : ~ Busy(replies[i]) /\ i = 1
  BY <1>4 DEF Line, ReplyLine
<1>7. CmdLine'
  <2> SUFFICES ASSUME NEW i \in 1 .. Len(cmds') PROVE
         /\ Busy(cmds[i + 1]) /\ i = Len(cmds')
         /\ cmds[i + 1].kind = "fetch" => fetch_in_flight /\ cmds[i + 1].token = token
         /\ cmds[i + 1].kind = "pair" => pairing_in_flight
    BY <1>1, <1>2 DEF CmdLine, Busy
  <2>1. i + 1 \in 1 .. Len(cmds) /\ i + 1 # 1
    BY <1>1
  <2> QED BY <1>1, <2>1 DEF Line, CmdLine
<1>8. ReplyLine'
  <2> SUFFICES ASSUME NEW i \in 1 .. Len(replies) PROVE ~ Busy(replies[i]) /\ i = 1
    BY <1>2 DEF ReplyLine, Busy
  <2> QED BY <1>6
<1>9. JobLine'
  <2>1. Busy(job') => cmds' = <<>>
    BY <1>1, <1>3, <1>5 DEF Busy
  <2>2. job'.kind = "list" => replies' = <<>>
    BY <1>2, <1>3, <1>5 DEF Busy
  <2>3. job'.kind = "pair" => pairing_in_flight'
    BY <1>1, <1>2, <1>3 DEF Line, CmdLine
  <2>4. ASSUME job'.kind = "fetch"
        PROVE  /\ fetch_in_flight' /\ job'.token = token'
               /\ Len(job'.todo) <= Len(Calendars)
               /\ told' = Len(job'.todo) + 1 .. Len(Calendars)
    <3>1. fetch_in_flight /\ c.token = token
      BY <1>1, <1>3, <2>4 DEF Line, CmdLine
    <3>2. Len(Calendars) \in Nat /\ Len(Calendars) + 1 .. Len(Calendars) = {}
      BY CalendarsAssumption
    <3> QED BY <1>2, <1>3, <2>4, <3>1, <3>2
  <2> QED BY <2>1, <2>2, <2>3, <2>4 DEF JobLine, Busy
<1>10. SaveLine' /\ TokensIssued'
  BY <1>2, <1>4 DEF Line, SaveLine, TokensIssued
<1> QED BY <1>7, <1>8, <1>9, <1>10 DEF Line

\* The reply to the command at hand.
LEMMA EndsLine ==
  ASSUME Types, Line, job.kind \in Kind, NEW r \in Answer, r.kind = job.kind,
         job' = NoJob, replies' = Append(replies, r),
         UNCHANGED <<cmds, revoked, token, save, file, survives, fetch_in_flight, pairing_in_flight>>,
         issued' \in Nat, issued <= issued',
         job.kind = "fetch" => /\ r.token = job.token
                               /\ r.outcome = "unauthorized" => r.token \in revoked
                               /\ r.outcome = "ok" => told' = 1 .. Len(Calendars),
         job.kind = "pair" => /\ r.outcome \in {"ok", "err"}
                              /\ r.outcome = "ok" => r.token > token /\ r.token <= issued'
  PROVE  Line'
<1>1. /\ Len(replies) \in Nat /\ Len(replies') = Len(replies) + 1
      /\ \A i \in 1 .. Len(replies) : replies'[i] = replies[i]
      /\ replies'[Len(replies) + 1] = r
  <2>1. replies \in Seq(Answer)
    BY Lens DEF Types
  <2> QED BY <2>1, AppendPlaces
<1>2. job # NoJob
  BY JobKind DEF Types, WireTypes
<1>3. \A i \in 1 .. Len(replies) : ~ Busy(replies[i]) /\ i = 1
  BY <1>2 DEF Line, ReplyLine
<1>4. \A i \in 1 .. Len(cmds) : Busy(cmds[i]) /\ i = Len(cmds)
  BY <1>2 DEF Line, CmdLine
<1>5. IF Busy(r) THEN cmds = <<>> ELSE replies = <<>> /\ Len(replies) = 0
  BY Lens DEF Types, Line, JobLine, Busy, Kind
<1>6. CmdLine'
  <2> SUFFICES ASSUME NEW i \in 1 .. Len(cmds) PROVE
         /\ Busy(cmds[i]) /\ i = Len(cmds)
         /\ cmds[i].kind = "fetch" => fetch_in_flight /\ cmds[i].token = token
         /\ cmds[i].kind = "pair" => pairing_in_flight
    BY DEF CmdLine, Busy
  <2> QED BY <1>4 DEF Line, CmdLine
<1>7. ReplyLine'
  <2> SUFFICES ASSUME NEW i \in 1 .. Len(replies')
               PROVE  LET s == replies'[i] IN
                 /\ IF Busy(s) THEN i = Len(replies') /\ job' = NoJob /\ cmds' = <<>> ELSE i = 1
                 /\ s.kind = "fetch" => /\ fetch_in_flight' /\ s.token = token'
                                        /\ s.outcome = "unauthorized" => s.token \in revoked'
                                        /\ s.outcome = "ok" => told' = 1 .. Len(Calendars)
                 /\ s.kind = "pair" => /\ pairing_in_flight' /\ s.outcome \in {"ok", "err"}
                                       /\ s.outcome = "ok" => s.token > token' /\ s.token <= issued'
    BY DEF ReplyLine, Busy
  <2>1. CASE i \in 1 .. Len(replies)
    BY <1>1, <1>3, <2>1 DEF Busy
  <2>2. CASE i = Len(replies) + 1
    <3>1. replies'[i] = r
      BY <1>1, <2>2
    <3>2. r.kind = "fetch" => fetch_in_flight /\ r.token = token
      BY DEF Line, JobLine
    <3>3. r.kind = "pair" => pairing_in_flight
      BY DEF Line, JobLine
    <3> QED BY <1>1, <1>5, <2>2, <3>1, <3>2, <3>3
  <2> QED BY <1>1, <2>1, <2>2
<1>8. JobLine'
  BY DEF JobLine, NoJob, Busy
<1>9. SaveLine'
  BY <1>2 DEF Line, SaveLine, Quiet
<1>10. TokensIssued'
  <2>1. token \in Nat /\ issued \in Nat /\ token <= issued
    BY TokenType, BoundAssumption DEF Types, MainTypes, Line, TokensIssued
  <2>2. ASSUME NEW f \in survives \cup {file} PROVE f <= issued' \/ f = Torn
    <3>1. f = Torn \/ (f \in Nat /\ f <= issued)
      BY TokenType DEF Types, MainTypes, Line, TokensIssued
    <3> QED BY <2>1, <3>1
  <2> QED BY <2>1, <2>2 DEF TokensIssued
<1> QED BY <1>6, <1>7, <1>8, <1>9, <1>10 DEF Line

LEMMA FailsLine ==
  ASSUME Types, Line, job.kind \in Kind, NEW outcome \in {"err", "unauthorized"}, Fails(outcome),
         outcome = "unauthorized" => job.kind # "pair" /\ job.token \in revoked,
         UNCHANGED <<cmds, revoked, issued, token, save, file, survives,
                     fetch_in_flight, pairing_in_flight>>
  PROVE  Line'
<1> DEFINE r == [kind |-> job.kind, outcome |-> outcome, token |-> job.token,
                 dates |-> {}, events |-> <<>>]
<1>1. r \in Answer
  BY JobKind, NothingType DEF Answer, Types, WireTypes
<1>2. job' = NoJob /\ replies' = Append(replies, r)
  BY DEF Fails, Ends
<1>3. r.kind = job.kind /\ r.outcome = outcome /\ r.token = job.token
  OBVIOUS
<1>4. issued' \in Nat /\ issued <= issued'
  BY BoundAssumption DEF Types, MainTypes
<1> HIDE DEF r
<1> QED BY <1>1, <1>2, <1>3, <1>4, EndsLine

\* The dispatcher goes on with the command at hand.
LEMMA GoesOnLine ==
  ASSUME Types, Line, job.kind \in Kind, job'.kind = job.kind, job'.token = job.token,
         UNCHANGED <<cmds, replies, revoked, issued, token, save, file, survives,
                     fetch_in_flight, pairing_in_flight>>,
         job.kind = "fetch" => /\ Len(job'.todo) <= Len(Calendars)
                               /\ told' = Len(job'.todo) + 1 .. Len(Calendars)
  PROVE  Line'
<1>1. job # NoJob
  BY JobKind DEF Types, WireTypes
<1>2. CmdLine'
  <2> SUFFICES ASSUME NEW i \in 1 .. Len(cmds) PROVE
         /\ Busy(cmds[i]) /\ i = Len(cmds)
         /\ cmds[i].kind = "fetch" => fetch_in_flight /\ cmds[i].token = token
         /\ cmds[i].kind = "pair" => pairing_in_flight
    BY DEF CmdLine, Busy
  <2> QED BY <1>1 DEF Line, CmdLine
<1>3. ReplyLine'
  <2> SUFFICES ASSUME NEW i \in 1 .. Len(replies) PROVE ~ Busy(replies[i]) /\ i = 1
    BY DEF ReplyLine, Busy
  <2> QED BY <1>1 DEF Line, ReplyLine
<1>4. JobLine'
  BY DEF Line, JobLine, Busy
<1>5. SaveLine' /\ TokensIssued'
  BY <1>1 DEF Line, SaveLine, Quiet, TokensIssued
<1> QED BY <1>2, <1>3, <1>4, <1>5 DEF Line

LEMMA PairLine == Types /\ Line /\ (RequestDeviceCode \/ Poll \/ Slept) => Line'
<1> SUFFICES ASSUME Types, Line, RequestDeviceCode \/ Poll \/ Slept PROVE Line'
  OBVIOUS
<1>0. job.kind = "pair" /\ job.kind \in Kind /\ job \in PairJob
  BY JobKind DEF Types, WireTypes, RequestDeviceCode, Poll, Slept, Kind
<1>1. UNCHANGED <<cmds, revoked, token, save, file, survives, fetch_in_flight, pairing_in_flight>>
  BY DEF RequestDeviceCode, Poll, Slept, KeepsMain, secrets, state
<1>2. CASE Fails("err") /\ UNCHANGED issued
  BY <1>0, <1>1, <1>2, FailsLine
<1>3. CASE job' \in PairJob /\ UNCHANGED <<replies, issued>>
  <2>1. job'.kind = "pair" /\ job'.token = job.token
    BY <1>0, <1>3 DEF PairJob
  <2> QED BY <1>0, <1>1, <1>3, <2>1, GoesOnLine
<1>4. ASSUME issued < MaxTokens, issued' = issued + 1, job' = NoJob,
             replies' = Append(replies, [kind |-> "pair", outcome |-> "ok", token |-> issued + 1,
                                             dates |-> {}, events |-> <<>>])
      PROVE  Line'
  <2> DEFINE r == [kind |-> "pair", outcome |-> "ok", token |-> issued + 1,
                   dates |-> {}, events |-> <<>>]
  <2>1. issued \in Nat /\ issued' \in Nat /\ issued <= issued' /\ issued + 1 \in AnyToken
        /\ token \in Nat /\ issued + 1 > token /\ issued + 1 <= issued'
    BY <1>4, TokenType, BoundAssumption DEF Types, MainTypes, Line, TokensIssued
  <2>2. r \in Answer /\ r.kind = "pair" /\ r.outcome = "ok" /\ r.token = issued + 1
    BY <2>1, NothingType DEF Answer, Kind
  <2>3. replies' = Append(replies, r)
    BY <1>4
  <2> HIDE DEF r
  <2> QED BY <1>0, <1>1, <1>4, <2>1, <2>2, <2>3, EndsLine
<1>5. CASE RequestDeviceCode
  <2>1. UNCHANGED issued
    BY <1>5 DEF RequestDeviceCode, KeepsMain
  <2>2. ASSUME NEW n \in 0 .. MaxInterval,
               job' = [job EXCEPT !.at = "poll", !.interval = IF n > 1 THEN n ELSE 1],
               UNCHANGED replies
        PROVE  Line'
    <3>1. (IF n > 1 THEN n ELSE 1) \in Nat
      BY TimeAssumption
    <3>2. job' \in PairJob
      BY <1>0, <2>2, <3>1 DEF PairJob
    <3> QED BY <1>3, <2>1, <2>2, <3>2
  <2> QED BY <1>2, <1>5, <2>1, <2>2 DEF RequestDeviceCode
<1>6. CASE Poll
  <2>1. ASSUME NEW i \in Nat, SleepFor(i), UNCHANGED <<replies, issued>> PROVE Line'
    <3>1. (IF i < Expiry THEN i ELSE Expiry) \in Nat
      BY TimeAssumption
    <3>2. job' \in PairJob
      BY <1>0, <2>1, <3>1 DEF PairJob, SleepFor
    <3> QED BY <1>3, <2>1, <3>2
  <2>2. job.interval \in Nat /\ job.interval + 1 \in Nat
    BY <1>0 DEF PairJob
  <2> QED BY <1>2, <1>4, <1>6, <2>1, <2>2 DEF Poll
<1>7. CASE Slept
  <2>1. (IF job.left > job.interval THEN job.left - job.interval ELSE 0) \in Nat
    BY <1>0 DEF PairJob
  <2>2. job' \in PairJob
    BY <1>0, <1>7, <2>1 DEF Slept, PairJob
  <2> QED BY <1>3, <1>7, <2>2 DEF Slept, KeepsMain
<1> QED BY <1>5, <1>6, <1>7

LEMMA AskLine == Types /\ Line /\ (RefreshAccessToken \/ GetOk \/ GetFails \/ Get401) => Line'
<1> SUFFICES ASSUME Types, Line, RefreshAccessToken \/ GetOk \/ GetFails \/ Get401 PROVE Line'
  OBVIOUS
<1>0. job \in AskJob /\ job.kind \in {"fetch", "list"} /\ job.kind \in Kind
  BY JobKind DEF Types, WireTypes, RefreshAccessToken, GetOk, GetFails, Get401, MayAsk, Asking, Kind
<1>1. UNCHANGED <<cmds, revoked, issued, token, save, file, survives,
                  fetch_in_flight, pairing_in_flight>>
  BY DEF RefreshAccessToken, GetOk, GetFails, Get401, KeepsMain, secrets, state
<1>2. CASE Fails("err")
  BY <1>0, <1>1, <1>2, FailsLine
<1>3. CASE job.token \in revoked /\ Fails("unauthorized")
  BY <1>0, <1>1, <1>3, FailsLine
<1>4. ASSUME NEW a, job' = [job EXCEPT !.access = a], UNCHANGED <<replies, told>>
      PROVE  Line'
  <2>1. job'.kind = job.kind /\ job'.token = job.token /\ job'.todo = job.todo
    BY <1>0, <1>4 DEF AskJob
  <2>2. job.kind = "fetch" => /\ Len(job'.todo) <= Len(Calendars)
                              /\ told' = Len(job'.todo) + 1 .. Len(Calendars)
    BY <1>4, <2>1 DEF Line, JobLine
  <2> QED BY <1>0, <1>1, <1>4, <2>1, <2>2, GoesOnLine
<1>5. CASE GetOk
  <2>1. PICK o \in IF job.kind = "list" THEN {<<>>} ELSE Offer :
          IF Len(job.todo) = 1
          THEN Ends("ok", DatesWith(o), EventsWith(o))
          ELSE /\ \E valid \in BOOLEAN :
                    job' = [job EXCEPT !.todo = Tail(@), !.access = valid,
                                       !.dates = DatesWith(o), !.events = EventsWith(o)]
               /\ UNCHANGED replies
    BY <1>5, GetOkGathers
  <2>2. told' = IF job.kind = "fetch" THEN told \cup {Len(job.todo)} ELSE told
    BY <1>5 DEF GetOk
  <2>3. job.todo \in Seq({"Holiday", "Agenda", "List"}) /\ job.todo # <<>>
    BY <1>0 DEF AskJob
  <2>4. /\ Len(Tail(job.todo)) = Len(job.todo) - 1 /\ Len(job.todo) \in Nat \ {0}
        /\ Len(Calendars) \in Nat
    BY <2>3, HeadTailProperties, EmptySeq, CalendarsAssumption
  <2>5. job.kind = "fetch" => /\ Len(job.todo) <= Len(Calendars)
                              /\ told' = Len(job.todo) .. Len(Calendars)
    <3> SUFFICES ASSUME job.kind = "fetch"
                 PROVE  Len(job.todo) <= Len(Calendars) /\ told' = Len(job.todo) .. Len(Calendars)
      OBVIOUS
    <3>1. /\ Len(job.todo) <= Len(Calendars) /\ told = Len(job.todo) + 1 .. Len(Calendars)
      BY DEF Line, JobLine
    <3>2. (Len(job.todo) + 1 .. Len(Calendars)) \cup {Len(job.todo)} = Len(job.todo) .. Len(Calendars)
      BY <2>4, <3>1
    <3> QED BY <2>2, <3>1, <3>2
  <2>6. CASE Len(job.todo) = 1
    <3>1. DatesWith(o) \in SUBSET Dates /\ EventsWith(o) \in Seq(Nat)
      BY <1>0, GatheredType
    <3> DEFINE r == [kind |-> job.kind, outcome |-> "ok", token |-> job.token,
                     dates |-> DatesWith(o), events |-> EventsWith(o)]
    <3>2. job' = NoJob /\ replies' = Append(replies, r)
      BY <2>1, <2>6 DEF Ends
    <3>3. r \in Answer /\ r.kind = job.kind /\ r.outcome = "ok" /\ r.token = job.token
      BY <1>0, <3>1, JobKind DEF Answer, Types, WireTypes
    <3>4. issued' \in Nat /\ issued <= issued'
      BY <1>1, BoundAssumption DEF Types, MainTypes
    <3> HIDE DEF r
    <3> QED BY <1>0, <1>1, <2>5, <2>6, <3>2, <3>3, <3>4, EndsLine
  <2>7. CASE Len(job.todo) # 1
    <3>1. PICK valid \in BOOLEAN :
            job' = [job EXCEPT !.todo = Tail(@), !.access = valid,
                               !.dates = DatesWith(o), !.events = EventsWith(o)]
      BY <2>1, <2>7
    <3>2. /\ job'.kind = job.kind /\ job'.token = job.token /\ job'.todo = Tail(job.todo)
          /\ UNCHANGED replies
      BY <1>0, <2>1, <2>7, <3>1 DEF AskJob
    <3>3. job.kind = "fetch" => /\ Len(job'.todo) <= Len(Calendars)
                                /\ told' = Len(job'.todo) + 1 .. Len(Calendars)
      BY <2>4, <2>5, <3>2
    <3> QED BY <1>0, <1>1, <3>2, <3>3, GoesOnLine
  <2> QED BY <2>6, <2>7
<1> QED BY <1>2, <1>3, <1>4, <1>5 DEF RefreshAccessToken, GetFails, Get401

\* With nothing busy under way the flags and the token are free to change.
LEMMA QuietLine ==
  ASSUME \A i \in 1 .. Len(cmds') : i = 1 /\ cmds'[i].kind = "list",
         job' = NoJob, replies' = <<>>, SaveLine', TokensIssued'
  PROVE  Line'
<1>1. CmdLine'
  <2> SUFFICES ASSUME NEW i \in 1 .. Len(cmds') PROVE i = 1 /\ cmds'[i].kind = "list"
    BY DEF CmdLine, Busy
  <2> QED OBVIOUS
<1>2. ReplyLine' /\ JobLine'
  BY EmptySeq DEF ReplyLine, JobLine, Busy, NoJob
<1> QED BY <1>1, <1>2 DEF Line

LEMMA SavingLine == Types /\ Line /\ (Saving \/ WrittenBack) => Line'
<1> SUFFICES ASSUME Types, Line, Saving \/ WrittenBack PROVE Line'
  OBVIOUS
<1>0. /\ NoSave.at = "none" /\ token <= issued /\ UNCHANGED <<token, issued>>
      /\ \A f \in survives \cup {file} : f <= issued \/ f = Torn
  BY DEF NoSave, Line, TokensIssued, Saving, WriteTmp, Rename, SaveFails, WrittenBack, server
<1>1. CASE WriteTmp
  <2>1. save # NoSave /\ Quiet /\ save.token = token /\ save \in Save
    BY <1>0, <1>1, SaveKind DEF WriteTmp, Line, SaveLine, Types, MainTypes
  <2>2. save'.token = save.token
    BY <1>1, <2>1 DEF WriteTmp, Save
  <2>3. UNCHANGED <<cmds, job, replies, survives, file>>
    BY <1>1 DEF WriteTmp
  <2>4. SaveLine' /\ TokensIssued'
    BY <1>0, <2>1, <2>2, <2>3 DEF SaveLine, Quiet, TokensIssued
  <2> QED BY <2>1, <2>3, <2>4, QuietLine, EmptySeq DEF Quiet
<1>2. ASSUME NEW saved, AfterSave(saved), save # NoSave, save' = NoSave, UNCHANGED <<job, replies>>,
             \A f \in survives' \cup {file'} : f \in survives \cup {file, token, Torn}
      PROVE  Line'
  <2>1. Quiet /\ save.token = token
    BY <1>2 DEF Line, SaveLine
  <2>2. cmds' = <<>> \/ cmds' = <<Cmd("list", save.token)>>
    BY <1>2, <2>1 DEF AfterSave, Quiet
  <2>3. \A i \in 1 .. Len(cmds') : i = 1 /\ cmds'[i].kind = "list"
    BY <2>2 DEF Cmd
  <2>4. TokensIssued'
    BY <1>0, <1>2 DEF TokensIssued
  <2>5. SaveLine'
    BY <1>2 DEF SaveLine
  <2> QED BY <1>2, <2>1, <2>3, <2>4, <2>5, QuietLine DEF Quiet
<1>3. CASE Rename
  <2>1. save # NoSave /\ save.token = token
    BY <1>0, <1>3 DEF Rename, Line, SaveLine
  <2>2. \A f \in survives' \cup {file'} : f \in survives \cup {file, token, Torn}
    BY <1>3, <2>1 DEF Rename
  <2> QED BY <1>2, <1>3, <2>1, <2>2 DEF Rename
<1>4. CASE SaveFails
  BY <1>2, <1>4 DEF SaveFails
<1>5. CASE WrittenBack
  <2>1. UNCHANGED <<cmds, job, replies, save, revoked, told, fetch_in_flight, pairing_in_flight>>
    BY <1>5 DEF WrittenBack, server, state
  <2>2. TokensIssued'
    BY <1>0, <1>5 DEF WrittenBack, TokensIssued
  <2> QED BY <1>0, <2>1, <2>2 DEF Line, CmdLine, ReplyLine, JobLine, SaveLine, Quiet, Busy
<1> QED BY <1>1, <1>3, <1>4, <1>5 DEF Saving

LEMMA BootLine == Types /\ Line /\ Boot => Line'
<1> SUFFICES ASSUME Types, Line, Boot PROVE Line'
  OBVIOUS
<1>1. PICK f \in survives \cup {file} : Load(f) /\ (survives' = survives \/ survives' = {f})
  BY DEF Boot
<1>2. cmds' = <<>> /\ replies' = <<>> /\ job' = NoJob /\ save' = NoSave /\ issued' = issued
  BY DEF Boot, server
<1>3. \A g \in survives' \cup {file'} : g \in survives \cup {file}
  BY <1>1 DEF Load
<1>4. token' <= issued'
  <2>1. f <= issued \/ f = Torn
    BY DEF Line, TokensIssued
  <2>2. 0 <= issued
    BY BoundAssumption DEF Types, MainTypes
  <2> QED BY <1>1, <1>2, <2>1, <2>2 DEF Load, NoToken
<1>5. SaveLine' /\ TokensIssued'
  BY <1>2, <1>3, <1>4 DEF SaveLine, Line, TokensIssued
<1> QED BY <1>2, <1>5, QuietLine, EmptySeq

\* The first of the replies: what the line says of it, and what is left.
LEMMA TakenLine ==
  ASSUME Types, Line, NEW kind, NEW outcome, Takes(kind, outcome)
  PROVE  /\ save = NoSave /\ Head(replies) = replies[1] /\ 1 \in 1 .. Len(replies)
         /\ Head(replies).kind = kind /\ Head(replies).outcome = outcome
         /\ Len(replies') \in Nat /\ Len(replies) = Len(replies') + 1
         /\ \A i \in 1 .. Len(replies') : replies'[i] = replies[i + 1]
         /\ replies' = <<>> <=> Len(replies') = 0
<1>1. /\ replies \in Seq(Answer) /\ replies # <<>> /\ replies' = Tail(replies)
      /\ save = NoSave /\ Head(replies).kind = kind /\ Head(replies).outcome = outcome
  BY DEF Types, WireTypes, Takes, Idle
<1>2. /\ Tail(replies) \in Seq(Answer)
      /\ Len(Tail(replies)) \in Nat /\ Len(replies) = Len(Tail(replies)) + 1
      /\ \A i \in 1 .. Len(Tail(replies)) : Tail(replies)[i] = replies[i + 1]
      /\ Head(replies) = replies[1]
  BY <1>1, TailPlaces
<1>3. Tail(replies) = <<>> <=> Len(Tail(replies)) = 0
  BY <1>2, EmptySeq
<1> QED BY <1>1, <1>2, <1>3

\* An answer to a fetch or a pairing leaves nothing under way.
LEMMA BusyTaken ==
  ASSUME Types, Line, NEW kind \in {"fetch", "pair"}, NEW outcome, Takes(kind, outcome)
  PROVE  Quiet \/ (cmds = <<>> /\ job = NoJob /\ replies' = <<>>)
<1>1. replies[1].kind = kind /\ 1 \in 1 .. Len(replies) /\ Len(replies') \in Nat
      /\ Len(replies) = Len(replies') + 1 /\ (replies' = <<>> <=> Len(replies') = 0)
  BY TakenLine
<1>2. 1 = Len(replies) /\ job = NoJob /\ cmds = <<>>
  BY <1>1 DEF Line, ReplyLine, Busy
<1> QED BY <1>1, <1>2

LEMMA RepliedLine == Types /\ Line /\ Replied => Line'
<1> SUFFICES ASSUME Types, Line, Replied PROVE Line'
  OBVIOUS
<1>0. /\ cmds' = cmds /\ job' = job /\ UNCHANGED <<issued, survives, file, revoked, told>>
  BY DEF Replied, EventsFetched, FetchFailed, Unauthorized, Paired, PairingFailed, Listed, secrets, server
<1>1. ASSUME NEW kind \in {"fetch", "pair"}, NEW outcome, Takes(kind, outcome),
             token' <= issued, save' # NoSave => save'.token = token'
      PROVE  Line'
  <2>1. cmds' = <<>> /\ job' = NoJob /\ replies' = <<>>
    <3>1. replies # <<>>
      BY <1>1 DEF Takes
    <3> QED BY <1>0, <1>1, <3>1, BusyTaken DEF Quiet
  <2>2. SaveLine' /\ TokensIssued'
    BY <1>0, <1>1, <2>1 DEF SaveLine, Quiet, Line, TokensIssued
  <2> QED BY <2>1, <2>2, QuietLine, EmptySeq
<1>2. token <= issued
  BY DEF Line, TokensIssued
<1>3. CASE EventsFetched \/ FetchFailed \/ PairingFailed
  <2>1. token' = token /\ save' = save
    BY <1>3 DEF EventsFetched, FetchFailed, PairingFailed, secrets
  <2>2. PICK kind \in {"fetch", "pair"}, outcome \in {"ok", "err"} : Takes(kind, outcome)
    BY <1>3 DEF EventsFetched, FetchFailed, PairingFailed
  <2>3. save = NoSave
    BY <2>2 DEF Takes, Idle
  <2> QED BY <1>1, <1>2, <2>1, <2>2, <2>3
<1>4. CASE Unauthorized
  <2>1. Takes("fetch", "unauthorized") /\ token' = NoToken /\ save = NoSave
    BY <1>4 DEF Unauthorized, Takes, Idle
  <2>2. save' # NoSave => save'.token = NoToken
    <3>1. CASE token # NoToken
      BY <1>4, <3>1 DEF Unauthorized, SaveFor
    <3>2. CASE token = NoToken
      BY <1>4, <2>1, <3>2 DEF Unauthorized
    <3> QED BY <3>1, <3>2
  <2>3. NoToken <= issued
    BY BoundAssumption DEF Types, MainTypes, NoToken
  <2> QED BY <1>1, <2>1, <2>2, <2>3
<1>5. CASE Paired
  <2>1. Takes("pair", "ok") /\ token' = Head(replies).token /\ save' = SaveFor(token', "paired")
    BY <1>5 DEF Paired
  <2>2. token' <= issued
    BY <2>1, TakenLine DEF Line, ReplyLine
  <2>3. save'.token = token'
    BY <2>1 DEF SaveFor
  <2> QED BY <1>1, <2>1, <2>2, <2>3
<1>6. CASE Listed
  <2>1. PICK outcome : Takes("list", outcome)
    BY <1>6 DEF Listed
  <2>2. UNCHANGED <<token, save, fetch_in_flight, pairing_in_flight>> /\ save = NoSave
    BY <1>6, <2>1 DEF Listed, secrets, state, Takes, Idle
  <2>3. /\ Len(replies') \in Nat /\ Len(replies) = Len(replies') + 1
        /\ \A i \in 1 .. Len(replies') : replies'[i] = replies[i + 1]
        /\ replies' = <<>> <=> Len(replies') = 0
    BY <2>1, TakenLine
  <2>4. replies # <<>>
    BY <2>1 DEF Takes
  <2>5. CmdLine'
    <3> SUFFICES ASSUME NEW i \in 1 .. Len(cmds) PROVE
           /\ Busy(cmds[i]) /\ i = Len(cmds)
           /\ cmds[i].kind = "fetch" => fetch_in_flight /\ cmds[i].token = token
           /\ cmds[i].kind = "pair" => pairing_in_flight
      BY <1>0, <2>2 DEF CmdLine, Busy
    <3> QED BY <2>4 DEF Line, CmdLine
  <2>6. ReplyLine'
    <3> SUFFICES ASSUME NEW i \in 1 .. Len(replies')
                 PROVE  LET s == replies'[i] IN
                   /\ IF Busy(s) THEN i = Len(replies') /\ job' = NoJob /\ cmds' = <<>> ELSE i = 1
                   /\ s.kind = "fetch" => /\ fetch_in_flight' /\ s.token = token'
                                          /\ s.outcome = "unauthorized" => s.token \in revoked'
                                          /\ s.outcome = "ok" => told' = 1 .. Len(Calendars)
                   /\ s.kind = "pair" => /\ pairing_in_flight' /\ s.outcome \in {"ok", "err"}
                                         /\ s.outcome = "ok" => s.token > token' /\ s.token <= issued'
      BY DEF ReplyLine, Busy
    <3>1. i + 1 \in 1 .. Len(replies) /\ replies'[i] = replies[i + 1] /\ i + 1 # 1
      BY <2>3
    <3>2. Busy(replies[i + 1]) /\ i + 1 = Len(replies)
      BY <3>1 DEF Line, ReplyLine
    <3>3. i = Len(replies') /\ job = NoJob /\ cmds = <<>>
      BY <2>3, <3>1, <3>2 DEF Line, ReplyLine
    <3> QED BY <1>0, <2>2, <3>1, <3>2, <3>3 DEF Line, ReplyLine, Busy
  <2>7. JobLine'
    BY <1>0, <2>2, <2>4 DEF Line, JobLine, Busy
  <2>8. SaveLine' /\ TokensIssued'
    BY <1>0, <2>2 DEF Line, SaveLine, TokensIssued
  <2> QED BY <2>5, <2>6, <2>7, <2>8 DEF Line
<1> QED BY <1>3, <1>4, <1>5, <1>6 DEF Replied

\* A new command of main is busy, with its flag set, behind a listing at most.
LEMMA AskedLine ==
  ASSUME Types, Line, NEW c \in Command, c.kind \in {"fetch", "pair"}, cmds' = Append(cmds, c),
         ~fetch_in_flight, ~pairing_in_flight,
         c.kind = "fetch" => fetch_in_flight' /\ c.token = token,
         c.kind = "pair" => pairing_in_flight',
         save = NoSave, UNCHANGED <<replies, job, revoked, issued, told, token, save, file, survives>>
  PROVE  Line'
<1>1. /\ \A i \in 1 .. Len(cmds) : cmds[i].kind = "list" /\ i = 1 /\ job = NoJob /\ replies = <<>>
      /\ \A i \in 1 .. Len(replies) : replies[i].kind = "list" /\ i = 1
      /\ ~ Busy(job)
  BY NothingBusy DEF Types
<1>2. /\ Len(cmds) \in Nat /\ Len(cmds') = Len(cmds) + 1
      /\ \A i \in 1 .. Len(cmds) : cmds'[i] = cmds[i]
      /\ cmds'[Len(cmds) + 1] = c
  <2>1. cmds \in Seq(Command)
    BY Lens DEF Types
  <2> QED BY <2>1, AppendPlaces
<1>3. CmdLine'
  <2> SUFFICES ASSUME NEW i \in 1 .. Len(cmds')
               PROVE  LET d == cmds'[i] IN
                 /\ IF Busy(d) THEN i = Len(cmds') ELSE i = 1 /\ job' = NoJob /\ replies' = <<>>
                 /\ d.kind = "fetch" => fetch_in_flight' /\ d.token = token'
                 /\ d.kind = "pair" => pairing_in_flight'
    BY DEF CmdLine, Busy
  <2>1. CASE i \in 1 .. Len(cmds)
    BY <1>1, <1>2, <2>1 DEF Busy
  <2>2. CASE i = Len(cmds) + 1
    BY <1>2, <2>2 DEF Busy
  <2> QED BY <1>2, <2>1, <2>2
<1>4. ReplyLine'
  <2> SUFFICES ASSUME NEW i \in 1 .. Len(replies) PROVE replies[i].kind = "list" /\ i = 1
    BY DEF ReplyLine, Busy
  <2> QED BY <1>1
<1>5. JobLine'
  BY <1>1 DEF Line, JobLine, Busy
<1>6. SaveLine' /\ TokensIssued'
  BY DEF SaveLine, Line, TokensIssued
<1> QED BY <1>3, <1>4, <1>5, <1>6 DEF Line

LEMMA TimerLine == Types /\ Line /\ (RefreshTick \/ PairCalendars \/ Revoke) => Line'
<1> SUFFICES ASSUME Types, Line, RefreshTick \/ PairCalendars \/ Revoke PROVE Line'
  OBVIOUS
<1>0. /\ Cmd("fetch", token) \in Command /\ Cmd("fetch", token).kind = "fetch"
      /\ Cmd("fetch", token).token = token
      /\ Cmd("pair", NoToken) \in Command /\ Cmd("pair", NoToken).kind = "pair"
  BY CommandType, TokenType DEF Types, MainTypes, Kind
<1>1. CASE RefreshTick /\ token # NoToken
  <2>1. /\ cmds' = Append(cmds, Cmd("fetch", token)) /\ fetch_in_flight' = TRUE
        /\ ~fetch_in_flight /\ ~pairing_in_flight /\ save = NoSave
        /\ UNCHANGED <<replies, job, revoked, issued, told, token, save, file, survives>>
    BY <1>1 DEF RefreshTick, MayFetch, Idle, secrets, server
  <2> QED BY <1>0, <2>1, AskedLine
<1>2. CASE PairCalendars
  <2>1. /\ cmds' = Append(cmds, Cmd("pair", NoToken)) /\ pairing_in_flight' = TRUE
        /\ ~fetch_in_flight /\ ~pairing_in_flight /\ save = NoSave
        /\ UNCHANGED <<replies, job, revoked, issued, told, token, save, file, survives>>
    BY <1>2 DEF PairCalendars, Idle, secrets, server
  <2> QED BY <1>0, <2>1, AskedLine
<1>3. CASE (RefreshTick /\ token = NoToken) \/ Revoke
  <2>1. /\ revoked \subseteq revoked'
        /\ UNCHANGED <<cmds, replies, job, issued, told, token, save, file, survives,
                        fetch_in_flight, pairing_in_flight>>
    BY <1>3 DEF RefreshTick, Revoke, secrets, server, state
  <2>2. CmdLine' /\ JobLine' /\ SaveLine' /\ TokensIssued'
    BY <2>1 DEF Line, CmdLine, JobLine, SaveLine, Quiet, TokensIssued, Busy
  <2>3. ReplyLine'
    BY <2>1 DEF Line, ReplyLine, Busy
  <2> QED BY <2>2, <2>3 DEF Line
<1> QED BY <1>1, <1>2, <1>3

LEMMA LineStep == Types /\ Line /\ [Next]_vars => Line'
<1> SUFFICES ASSUME Types, Line, [Next]_vars PROVE Line'
  OBVIOUS
<1>1. CASE UNCHANGED vars
  BY <1>1 DEF vars, secrets, state, server, Line, CmdLine, ReplyLine, JobLine, SaveLine, Quiet, TokensIssued, Busy
<1> QED BY <1>1, ReceiveLine, PairLine, AskLine, SavingLine, RepliedLine, TimerLine, BootLine
        DEF Next, Dispatcher

-----------------------------------------------------------------------------
(* The disk, the boots and the invariant as a whole. *)

LEMMA DiskStep == Types /\ Line /\ Disk /\ [Next]_vars => Disk'
<1> SUFFICES ASSUME Types, Line, Disk, [Next]_vars PROVE Disk'
  OBVIOUS
<1>0. /\ NoSave.at = "none" /\ Torn \notin AnyToken /\ token \in AnyToken
      /\ save # NoSave => save.token = token /\ save \in Save
      /\ NoToken # Torn
  BY TokenType, SaveKind DEF NoSave, Types, MainTypes, Line, SaveLine
<1>1. CASE UNCHANGED secrets
  BY <1>1 DEF secrets, Disk, BootFindsToken
<1>2. CASE WriteTmp
  <2>1. save # NoSave /\ save \in Save
    BY <1>0, <1>2 DEF WriteTmp
  <2>2. save' # NoSave /\ (save'.at = "written" => unsynced') /\ (unsynced => unsynced')
    BY <1>0, <1>2, <2>1 DEF WriteTmp, Save
  <2> QED BY <1>2, <2>2 DEF WriteTmp, Disk, BootFindsToken
<1>3. CASE Rename
  <2>1. save # NoSave /\ save.token = token
    BY <1>0, <1>3 DEF Rename
  <2>2. file' = token /\ token' = token /\ save' = NoSave /\ unsynced' = unsynced
    BY <1>3, <2>1 DEF Rename
  <2>3. ~unsynced => Torn \notin survives' \cup {file'}
    BY <1>0, <1>3, <2>1, <2>2 DEF Rename, Disk, BootFindsToken
  <2> QED BY <1>0, <2>2, <2>3 DEF Disk, BootFindsToken
<1>4. CASE SaveFails
  BY <1>0, <1>4 DEF SaveFails, Disk, BootFindsToken
<1>5. CASE WrittenBack
  BY <1>5 DEF WrittenBack, Disk, BootFindsToken
<1>6. CASE Boot
  <2>1. PICK f \in survives \cup {file} : Load(f) /\ (survives' = survives \/ survives' = {f})
    BY <1>6 DEF Boot
  <2>2. save' = NoSave /\ unsynced' = unsynced /\ file' = f
    BY <1>6, <2>1 DEF Boot, Load
  <2>3. ~lapsed' => file' = token'
    BY <2>1 DEF Load
  <2>4. ~unsynced' => Torn \notin survives' \cup {file'}
    BY <2>1, <2>2 DEF Disk, BootFindsToken
  <2> QED BY <1>0, <2>2, <2>3, <2>4 DEF Disk, BootFindsToken
<1>7. CASE Unauthorized
  <2>1. UNCHANGED <<file, survives, lapsed, unsynced>> /\ token' = NoToken
    BY <1>7 DEF Unauthorized
  <2>2. CASE token # NoToken
    <3>1. save' = SaveFor(NoToken, "revoked")
      BY <1>7, <2>2 DEF Unauthorized
    <3>2. save'.at = "tmp" /\ save' # NoSave
      BY <3>1, SaveForType, TokenType
    <3> QED BY <2>1, <3>2 DEF Disk, BootFindsToken
  <2>3. CASE token = NoToken
    BY <1>7, <2>1, <2>3 DEF Unauthorized, Disk, BootFindsToken
  <2> QED BY <2>2, <2>3
<1>8. CASE Paired
  <2>1. /\ UNCHANGED <<file, survives, lapsed, unsynced>>
        /\ Takes("pair", "ok") /\ save' = SaveFor(Head(replies).token, "paired")
    BY <1>8 DEF Paired
  <2>2. Head(replies).token \in AnyToken
    BY <1>8, TakesTypes DEF Paired, Types
  <2>3. save'.at = "tmp" /\ save' # NoSave
    BY <2>1, <2>2, SaveForType
  <2> QED BY <2>1, <2>3 DEF Disk, BootFindsToken
<1>9. CASE Dispatcher \/ RefreshTick \/ PairCalendars \/ Revoke
           \/ EventsFetched \/ FetchFailed \/ PairingFailed \/ Listed \/ UNCHANGED vars
  <2>1. UNCHANGED secrets
    BY <1>9 DEF Dispatcher, Receive, RequestDeviceCode, Poll, Slept, RefreshAccessToken, GetOk, GetFails,
                Get401, KeepsMain, RefreshTick, PairCalendars, Revoke, EventsFetched, FetchFailed,
                PairingFailed, Listed, vars
  <2> QED BY <1>1, <2>1
<1> QED BY <1>2, <1>3, <1>4, <1>5, <1>6, <1>7, <1>8, <1>9 DEF Next, Saving, Replied

LEMMA BootsStep == BootsType /\ [Next]_vars => BootsType' /\ (boots' = boots \/ boots' = boots + 1)
<1> SUFFICES ASSUME BootsType, [Next]_vars PROVE boots' = boots \/ boots' = boots + 1
  BY DEF BootsType
<1> QED BY DEF Next, Dispatcher, Saving, Replied, Receive, RequestDeviceCode, Poll, Slept,
               RefreshAccessToken, GetOk, GetFails, Get401, KeepsMain, WriteTmp, Rename, SaveFails,
               WrittenBack, Boot, RefreshTick, PairCalendars, Revoke, EventsFetched, FetchFailed,
               Unauthorized, Paired, PairingFailed, Listed, vars

LEMMA InitInv == Init => Inv
<1> SUFFICES ASSUME Init PROVE Inv
  OBVIOUS
<1>1. Types
  BY InitTypes DEF Types
<1>2. CmdLine /\ ReplyLine /\ JobLine
  BY EmptySeq DEF Init, CmdLine, ReplyLine, JobLine, Busy, NoJob
<1>3. SaveLine /\ Disk /\ BootsType
  <2>1. file \in AnyToken /\ file # Torn
    BY <1>1, TokenType, BoundAssumption DEF Init, AnyToken, Token, NoToken
  <2>2. NoSave.at = "none"
    BY DEF NoSave
  <2> QED BY <2>1, <2>2 DEF Init, SaveLine, Disk, BootFindsToken, BootsType
<1>4. TokensIssued
  <2>1. file <= issued
    BY BoundAssumption DEF Init, NoToken
  <2> QED BY <2>1 DEF Init, TokensIssued
<1> QED BY <1>1, <1>2, <1>3, <1>4 DEF Inv, Line

LEMMA InvStep == Inv /\ [Next]_vars => Inv'
BY TypesStep, LineStep, DiskStep, BootsStep DEF Inv, Types

LEMMA Invariance == Spec => []Inv
<1>1. Init => Inv
  BY InitInv
<1>2. Inv /\ [Next]_vars => Inv'
  BY InvStep
<1> QED BY <1>1, <1>2, PTL DEF Spec

-----------------------------------------------------------------------------
(* Theorems. *)

\* The channels never hold more than the listing and one busy request.
LEMMA InvTypeOK == Inv => TypeOK
<1> SUFFICES ASSUME Inv PROVE TypeOK
  OBVIOUS
<1>1. WireTypes /\ MainTypes /\ Line
  BY DEF Inv, Types
<1>2. Len(cmds) <= CmdCap /\ Len(replies) <= CmdCap
  <2>1. Len(cmds) \in Nat /\ Len(replies) \in Nat
    BY <1>1, Lens
  <2>2. \A n \in Nat : n <= 2 \/ (2 \in 1 .. n /\ n # 2)
    OBVIOUS
  <2>3. \A i \in 1 .. Len(cmds) : i = Len(cmds) \/ i = 1
    BY <1>1 DEF Line, CmdLine
  <2>4. \A i \in 1 .. Len(replies) : i = Len(replies) \/ i = 1
    BY <1>1 DEF Line, ReplyLine
  <2> QED BY <2>1, <2>2, <2>3, <2>4 DEF CmdCap
<1> QED BY <1>1, <1>2, Zenon DEF MainTypes, TypeOK, AnyToken, Dates

\* Every variable of the calendar's Google side keeps its type, the agenda its
\* cap, and neither channel (calendar commands and replies of main.rs) ever
\* holds more than two.
THEOREM TypeCorrect == Spec => []TypeOK
<1>1. Inv => TypeOK
  BY InvTypeOK
<1> QED BY <1>1, Invariance, PTL

\* Secrets::save leaves a file the next boot can read wherever the power is
\* cut, and between two saves the file holds the token in memory.
THEOREM BootReadsTheToken == Spec => []BootFindsToken
<1>1. Inv => BootFindsToken
  BY DEF Inv, Disk
<1> QED BY <1>1, Invariance, PTL

\* The stored agenda is the best one of the starts it was made of.
LEMMA NothingIsBest == agenda = <<>> /\ listed.starts = <<>> => AgendaBest
<1> SUFFICES ASSUME agenda = <<>>, listed.starts = <<>> PROVE AgendaBest
  OBVIOUS
<1> DEFINE kept == [i \in DOMAIN agenda |-> agenda[i].start]
<1>1. DOMAIN agenda = {} /\ DOMAIN listed.starts = {} /\ Len(listed.starts) = 0
  BY EmptySeq
<1>2. kept = <<>> /\ DOMAIN kept = {} /\ Len(kept) = 0
  BY <1>1
<1> QED BY <1>1, <1>2 DEF AgendaBest, AgendaCap

LEMMA AgendaStep == Inv /\ AgendaBest /\ [Next]_vars => AgendaBest'
<1> SUFFICES ASSUME Inv, AgendaBest, [Next]_vars PROVE AgendaBest'
  OBVIOUS
<1>1. CASE agenda' = agenda /\ listed' = listed
  BY <1>1 DEF AgendaBest
<1>2. CASE EventsFetched
  <2>1. Head(replies).events \in Seq(Nat)
    BY <1>2, TakesTypes DEF EventsFetched, Inv, Types
  <2>2. PICK now \in Now : /\ agenda' = Agenda(Head(replies).events, now)
                           /\ listed' = [starts |-> Head(replies).events, now |-> now]
    BY <1>2 DEF EventsFetched
  <2>3. now \in Nat /\ Head(replies).events \in Seq(Nat)
    BY <2>1, BoundAssumption
  <2>4. Best(agenda', listed'.starts, listed'.now)
    BY <2>2, <2>3, AgendaIsBest
  <2> QED BY <2>4 DEF Best, AgendaBest
<1>3. CASE Boot
  <2>1. agenda' = <<>> /\ listed'.starts = <<>>
    BY <1>3 DEF Boot
  <2>2. (agenda = <<>> /\ listed.starts = <<>> => AgendaBest)'
    BY NothingIsBest, PTL
  <2> QED BY <2>1, <2>2
<1>4. CASE Dispatcher \/ Saving \/ FetchFailed \/ Unauthorized \/ Paired \/ PairingFailed \/ Listed
           \/ RefreshTick \/ PairCalendars \/ WrittenBack \/ Revoke \/ UNCHANGED vars
  <2>1. UNCHANGED stores
    BY <1>4 DEF Dispatcher, Saving, Receive, RequestDeviceCode, Poll, Slept, RefreshAccessToken, GetOk,
                GetFails, Get401, KeepsMain, WriteTmp, Rename, SaveFails, WrittenBack, RefreshTick,
                PairCalendars, Revoke, FetchFailed, Unauthorized, Paired, PairingFailed, Listed, vars
  <2> QED BY <1>1, <2>1 DEF stores
<1> QED BY <1>2, <1>3, <1>4 DEF Next, Replied

\* AgendaStore::replace_from_events keeps the best four of any list of starts,
\* in any order and with any of them at one time, whatever the hour: the next
\* to come, then the latest of the past.
THEOREM AgendaIsTheBestFour == Spec => []AgendaBest
<1>1. Init => AgendaBest
  <2> SUFFICES ASSUME Init PROVE AgendaBest
    OBVIOUS
  <2>1. agenda = <<>> /\ listed.starts = <<>>
    BY DEF Init
  <2> QED BY <2>1, NothingIsBest
<1>2. Inv /\ AgendaBest /\ [Next]_vars => AgendaBest'
  BY AgendaStep
<1> QED BY <1>1, <1>2, Invariance, PTL DEF Spec

LEMMA TokenStep ==
  Inv /\ [Next]_vars
    => (token # NoToken /\ token' # token /\ boots' = boots => token \in revoked \/ token' > token)
<1> SUFFICES ASSUME Inv, [Next]_vars, token' # token, boots' = boots, token # NoToken
             PROVE  token \in revoked \/ token' > token
  OBVIOUS
<1>1. Types /\ Line
  BY DEF Inv
<1>2. CASE Unauthorized
  <2>1. Takes("fetch", "unauthorized")
    BY <1>2 DEF Unauthorized
  <2>2. 1 \in 1 .. Len(replies) /\ replies[1].kind = "fetch" /\ replies[1].outcome = "unauthorized"
    BY <1>1, <2>1, TakenLine
  <2> QED BY <1>1, <2>2 DEF Line, ReplyLine
<1>3. CASE Paired
  <2>1. Takes("pair", "ok") /\ token' = Head(replies).token
    BY <1>3 DEF Paired
  <2>2. 1 \in 1 .. Len(replies) /\ replies[1].kind = "pair" /\ replies[1].outcome = "ok"
        /\ Head(replies) = replies[1]
    BY <1>1, <2>1, TakenLine
  <2> QED BY <1>1, <2>1, <2>2 DEF Line, ReplyLine
<1>4. CASE Boot
  <2>1. boots' = boots + 1 /\ boots \in Nat
    BY <1>4 DEF Boot, Inv, BootsType
  <2> QED BY <2>1
<1>5. CASE Dispatcher \/ Saving \/ FetchFailed \/ EventsFetched \/ PairingFailed \/ Listed
           \/ RefreshTick \/ PairCalendars \/ WrittenBack \/ Revoke \/ UNCHANGED vars
  <2>1. token' = token
    BY <1>5 DEF Dispatcher, Saving, Receive, RequestDeviceCode, Poll, Slept, RefreshAccessToken, GetOk,
                GetFails, Get401, KeepsMain, WriteTmp, Rename, SaveFails, WrittenBack, RefreshTick,
                PairCalendars, Revoke, FetchFailed, EventsFetched, PairingFailed, Listed, vars, secrets
  <2> QED BY <2>1
<1> QED BY <1>2, <1>3, <1>4, <1>5 DEF Next, Replied

\* Main clears the refresh token only for an answer to that very token which
\* the server gave after revoking it, and replaces it only by a newer one:
\* the arms of main.rs for CalendarEvents and DeviceFlowResult.
THEOREM ValidTokensAreKept == Spec => ValidTokenKept
<1>1. Inv /\ [Next]_vars
        => [token # NoToken /\ token' # token /\ boots' = boots
              => token \in revoked \/ token' > token]_vars
  BY TokenStep
<1> QED BY <1>1, Invariance, PTL DEF Spec, ValidTokenKept

LEMMA StoresStep ==
  Inv /\ [Next]_vars
    => (<<holidays, agenda>>' # <<holidays, agenda>> /\ boots' = boots => told = 1 .. Len(Calendars))
<1> SUFFICES ASSUME Inv, [Next]_vars, <<holidays, agenda>>' # <<holidays, agenda>>, boots' = boots
             PROVE  told = 1 .. Len(Calendars)
  OBVIOUS
<1>1. Types /\ Line
  BY DEF Inv
<1>2. CASE EventsFetched
  <2>1. Takes("fetch", "ok")
    BY <1>2 DEF EventsFetched
  <2>2. 1 \in 1 .. Len(replies) /\ replies[1].kind = "fetch" /\ replies[1].outcome = "ok"
    BY <1>1, <2>1, TakenLine
  <2> QED BY <1>1, <2>2 DEF Line, ReplyLine
<1>3. CASE Boot
  <2>1. boots' = boots + 1 /\ boots \in Nat
    BY <1>3 DEF Boot, Inv, BootsType
  <2> QED BY <2>1
<1>4. CASE Dispatcher \/ Saving \/ FetchFailed \/ Unauthorized \/ Paired \/ PairingFailed \/ Listed
           \/ RefreshTick \/ PairCalendars \/ WrittenBack \/ Revoke \/ UNCHANGED vars
  <2>1. UNCHANGED stores
    BY <1>4 DEF Dispatcher, Saving, Receive, RequestDeviceCode, Poll, Slept, RefreshAccessToken, GetOk,
                GetFails, Get401, KeepsMain, WriteTmp, Rename, SaveFails, WrittenBack, RefreshTick,
                PairCalendars, Revoke, FetchFailed, Unauthorized, Paired, PairingFailed, Listed, vars
  <2> QED BY <2>1 DEF stores
<1> QED BY <1>2, <1>3, <1>4 DEF Next, Replied

\* Holidays and agenda change only to what one fetch brought in which every
\* calendar answered: fetch_calendar_events fails as a whole.
THEOREM StoresComeFromWholeFetches == Spec => StoresFromWholeFetch
<1>1. Inv /\ [Next]_vars
        => [<<holidays, agenda>>' # <<holidays, agenda>> /\ boots' = boots
              => told = 1 .. Len(Calendars)]_vars
  BY StoresStep
<1> QED BY <1>1, Invariance, PTL DEF Spec, StoresFromWholeFetch
=============================================================================
