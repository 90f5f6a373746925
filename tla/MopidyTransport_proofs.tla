----------------------- MODULE MopidyTransport_proofs -----------------------
(***************************************************************************)
(* Proofs about MopidyTransport, for any number of tasks, any capacity of  *)
(* the channel and any bound.                                              *)
(***************************************************************************)
EXTENDS MopidyTransport, TLAPS

\* A registered oneshot belongs to the task that allocated its id, which
\* waits for it; a task that waits has its oneshot registered.  Only a dead
\* loop leaves one behind, and then no further call is made.
Registered ==
  /\ \A i \in Id : pending[i] # NoTask =>
       /\ call[pending[i]] = i /\ reply[pending[i]] = NoId /\ i <= issued
       /\ pc[pending[i]] # "idle" \/ loop = "dead"
  /\ \A t \in Task : pc[t] # "idle" /\ reply[t] = NoId =>
       call[t] \in Id /\ call[t] <= issued /\ pending[call[t]] = t

\* A loop that dials, or died of it, tells callers that it is not connected;
\* it sleeps only after an attempt whose delay could be computed.
LoopKnown ==
  /\ loop \in {"dialling", "dead"} => conn = "Connecting"
  /\ loop = "asleep" => attempt < OverflowAt

\* No id is in the channel twice.
Distinct == \A m, n \in 1 .. Len(queue) : queue[m] = queue[n] => m = n

Somewhere == Range(queue) \union Unread \union cut

\* The places of a frame exclude each other.
Apart ==
  /\ Range(queue) \intersect Unread = {}
  /\ asked \intersect inbound = {}
  /\ cut \intersect (Range(queue) \union Unread) = {}

\* Only ids that were allocated and sent are somewhere, and each of them is
\* until its reply came.
Located ==
  /\ \A i \in Somewhere : i <= issued
  /\ \A t \in Task : pc[t] = "sending" => call[t] \notin Somewhere /\ reply[t] = NoId
  /\ \A t \in Task : InFlight(t) => call[t] \in Somewhere

IInv == TypeOK /\ Registered /\ LoopKnown /\ OwnReply /\ Distinct /\ Apart /\ Located

\* What is left of a queue once its first k frames were taken.
LEMMA Rest ==
  ASSUME NEW S, NEW q \in Seq(S), NEW k \in 0 .. Len(q)
  PROVE  LET r == SubSeq(q, k + 1, Len(q)) IN
         /\ r \in Seq(S) /\ Len(r) = Len(q) - k
         /\ \A n \in 1 .. Len(r) : r[n] = q[n + k]
<1>1. CASE k = Len(q)
  BY <1>1, SMT
<1>2. CASE k < Len(q)
  BY <1>2, SMT
<1> QED BY <1>1, <1>2, SMT

LEMMA RangeOfSeq ==
  ASSUME NEW S, NEW q \in Seq(S)
  PROVE  Range(q) = {q[n] : n \in 1 .. Len(q)} /\ Range(q) \subseteq S
BY DEF Range

\* Taking k frames splits the ids of the channel in two.
LEMMA Split ==
  ASSUME TypeOK, Distinct, NEW k \in 0 .. Len(queue),
         queue' = SubSeq(queue, k + 1, Len(queue))
  PROVE  /\ queue' \in Seq(Id) /\ Len(queue') <= Len(queue)
         /\ Distinct'
         /\ Sent(k) \subseteq Range(queue)
         /\ Range(queue') = Range(queue) \ Sent(k)
<1>q. queue \in Seq(Id) BY DEF TypeOK
<1>1. /\ queue' \in Seq(Id) /\ Len(queue') = Len(queue) - k
      /\ \A n \in 1 .. Len(queue') : queue'[n] = queue[n + k]
  BY <1>q, Rest
<1>2. Range(queue) = {queue[n] : n \in 1 .. Len(queue)}
  BY <1>q, RangeOfSeq
<1>3. Range(queue') = {queue'[n] : n \in 1 .. Len(queue')}
  <2>1. DOMAIN queue' = 1 .. Len(queue') BY <1>1
  <2> QED BY <2>1 DEF Range
<1>l. Len(queue) \in Nat BY <1>q
<1>4. Distinct'
  BY <1>1, <1>l DEF Distinct
<1>5. Sent(k) \subseteq Range(queue)
  BY <1>2, <1>l DEF Sent
<1>6. Range(queue') \subseteq Range(queue) \ Sent(k)
  <2> SUFFICES ASSUME NEW n \in 1 .. Len(queue')
               PROVE  queue'[n] \in Range(queue) \ Sent(k)
    BY <1>3
  <2>1. n + k \in 1 .. Len(queue) /\ queue'[n] = queue[n + k]
    BY <1>1, <1>l
  <2>2. \A m \in 1 .. k : queue[m] # queue[n + k]
    BY <2>1, <1>l DEF Distinct
  <2> QED BY <2>1, <2>2, <1>2 DEF Sent
<1>7. Range(queue) \ Sent(k) \subseteq Range(queue')
  <2> SUFFICES ASSUME NEW n \in 1 .. Len(queue), queue[n] \notin Sent(k)
               PROVE  queue[n] \in Range(queue')
    BY <1>2
  <2>1. n \notin 1 .. k BY DEF Sent
  <2>2. n - k \in 1 .. Len(queue') BY <2>1, <1>1, <1>l
  <2>3. queue'[n - k] = queue[n] BY <2>2, <1>1, <1>l
  <2> QED BY <2>2, <2>3, <1>3
<1> QED BY <1>1, <1>l, <1>4, <1>5, <1>6, <1>7

LEMMA InitIInv == Init => IInv
<1> SUFFICES ASSUME Init PROVE IInv OBVIOUS
<1> USE DEF Init
<1>1. TypeOK
  <2>1. queue \in Seq(Id) /\ Len(queue) = 0 /\ 0 <= QueueCap
    BY CapAssumption
  <2>2. reply \in [Task -> 0 .. MaxCalls] /\ call \in [Task -> 0 .. MaxCalls]
    BY BoundAssumption DEF NoId
  <2>3. issued \in 0 .. MaxCalls /\ outages \in 0 .. MaxOutages /\ attempt \in 0 .. OverflowAt
    BY CapAssumption, BoundAssumption
  <2> QED BY <2>1, <2>2, <2>3 DEF TypeOK, ConnState
<1>2. Range(queue) = {}
  BY DEF Range
<1>3. Registered /\ LoopKnown /\ OwnReply /\ Distinct
  BY DEF Registered, LoopKnown, OwnReply, Distinct, NoId
<1>4. Apart /\ Located
  BY <1>2 DEF Apart, Located, Somewhere, Unread, InFlight
<1> QED BY <1>1, <1>3, <1>4 DEF IInv
\* A pass over the channel moves frames on without losing or doubling one.
LEMMA WriteMoves ==
  ASSUME IInv, NEW k \in 0 .. Len(queue), Write(k)
  PROVE  /\ queue' \in Seq(Id) /\ Len(queue') <= QueueCap
         /\ asked' \in SUBSET Id /\ cut' \in SUBSET Id
         /\ Distinct'
         /\ Sent(k) \subseteq Range(queue)
         /\ Range(queue') = Range(queue) \ Sent(k)
         /\ asked \subseteq asked' /\ asked' \subseteq asked \union Sent(k)
         /\ cut \subseteq cut' /\ cut' \subseteq cut \union Sent(k)
         /\ asked' \union cut' = asked \union cut \union Sent(k)
         /\ asked' \intersect cut' = asked \intersect cut
<1> USE DEF IInv, Write
<1>1. /\ queue' \in Seq(Id) /\ Len(queue') <= Len(queue)
      /\ Distinct'
      /\ Sent(k) \subseteq Range(queue)
      /\ Range(queue') = Range(queue) \ Sent(k)
  BY Split
<1>2. Range(queue) \subseteq Id
  BY RangeOfSeq DEF TypeOK
<1>3. Len(queue') <= QueueCap
  BY <1>1, CapAssumption DEF TypeOK
<1>4. Range(queue) \intersect (asked \union cut) = {}
  BY DEF Apart, Unread
<1>5. asked' \in SUBSET Id /\ cut' \in SUBSET Id
  BY <1>1, <1>2 DEF TypeOK
<1> QED BY <1>1, <1>3, <1>4, <1>5

LEMMA TakenInQueue ==
  ASSUME TypeOK, NEW k \in Taken
  PROVE  k \in 0 .. Len(queue)
BY DEF Taken, TypeOK

\* A step that leaves the frames alone, and every call as it was.
LEMMA Still ==
  ASSUME IInv, UNCHANGED <<queue, asked, inbound, cut, issued, pending, call, reply, pc>>
  PROVE  /\ Distinct' /\ Apart' /\ Located' /\ OwnReply'
         /\ (loop = "dead" => loop' = "dead") => Registered'
BY DEF IInv, Distinct, Apart, Located, OwnReply, Registered, Somewhere, Unread, InFlight

LEMMA CallStep == ASSUME IInv, NEW t \in Task, Call(t) PROVE IInv'
<1> USE DEF IInv, Call, client, wire, world
<1>1. NextId \in Id /\ NextId = issued + 1 /\ NextId > issued
  BY BoundAssumption DEF NextId, Id, TypeOK
<1>2. TypeOK'
  <2>1. issued' \in 0 .. MaxCalls /\ NextId \in 0 .. MaxCalls /\ NoId \in 0 .. MaxCalls
    BY <1>1, BoundAssumption DEF TypeOK, Id, NoId
  <2> QED BY <2>1, <1>1 DEF TypeOK
<1>3. loop # "dead"
  BY DEF LoopKnown
<1>4. \A u \in Task : u # t =>
        call'[u] = call[u] /\ reply'[u] = reply[u] /\ pc'[u] = pc[u]
  BY DEF TypeOK
<1>5. call'[t] = NextId /\ reply'[t] = NoId /\ pc'[t] = "sending"
  BY DEF TypeOK
<1>6. \A i \in Id : i # NextId => pending'[i] = pending[i]
  BY DEF TypeOK
<1>7. pending'[NextId] = t
  BY <1>1 DEF TypeOK
<1>8. Registered'
  <2>1. ASSUME NEW i \in Id, pending'[i] # NoTask
        PROVE  /\ call'[pending'[i]] = i /\ reply'[pending'[i]] = NoId /\ i <= issued'
               /\ pc'[pending'[i]] # "idle" \/ loop' = "dead"
    <3>1. CASE i = NextId
      BY <3>1, <1>1, <1>5, <1>7
    <3>2. CASE i # NextId
      <4>1. pending[i] \in Task /\ pending'[i] = pending[i]
        BY <3>2, <2>1, <1>6 DEF TypeOK
      <4>2. pending[i] # t
        BY <4>1, <1>3, TaskAssumption DEF Registered
      <4>3. i <= issued /\ i \in Nat /\ issued \in Nat
        BY <4>1, TaskAssumption DEF Registered, Id, TypeOK
      <4> QED BY <4>1, <4>2, <4>3, <1>3, <1>4, TaskAssumption DEF Registered
    <3> QED BY <3>1, <3>2
  <2>2. ASSUME NEW u \in Task, pc'[u] # "idle", reply'[u] = NoId
        PROVE  call'[u] \in Id /\ call'[u] <= issued' /\ pending'[call'[u]] = u
    <3>1. CASE u = t
      BY <3>1, <1>1, <1>5, <1>7
    <3>2. CASE u # t
      <4>1. call[u] \in Id /\ call[u] <= issued /\ pending[call[u]] = u
        BY <3>2, <2>2, <1>4 DEF Registered
      <4>2. call[u] # NextId /\ call[u] <= issued + 1
        BY <4>1, <1>1 DEF Id, TypeOK
      <4> QED BY <4>1, <4>2, <3>2, <1>4, <1>6
    <3> QED BY <3>1, <3>2
  <2> QED BY <2>1, <2>2 DEF Registered
<1>9. LoopKnown' /\ Distinct' /\ Apart'
  BY DEF LoopKnown, Distinct, Apart, Unread
<1>10. OwnReply'
  BY <1>4, <1>5 DEF OwnReply
<1>11. Located'
  <2>1. Somewhere' = Somewhere
    BY DEF Somewhere, Unread
  <2>2. Somewhere \subseteq Id
    BY RangeOfSeq DEF Somewhere, Unread, TypeOK
  <2>3. \A i \in Somewhere : i <= issued'
    BY <2>2 DEF Located, Id, TypeOK
  <2>4. NextId \notin Somewhere
    BY <2>2, <1>1 DEF Located, Id, TypeOK
  <2>5. \A u \in Task : pc'[u] = "sending" => call'[u] \notin Somewhere /\ reply'[u] = NoId
    BY <2>4, <1>4, <1>5 DEF Located
  <2>6. \A u \in Task : InFlight(u)' => call'[u] \in Somewhere
    BY <1>4, <1>5 DEF Located, InFlight
  <2> QED BY <2>1, <2>3, <2>5, <2>6 DEF Located
<1> QED BY <1>2, <1>8, <1>9, <1>10, <1>11
LEMMA EnqueueStep == ASSUME IInv, NEW t \in Task, Enqueue(t) PROVE IInv'
<1> USE DEF IInv, Enqueue, client, wire, world
<1>a. pc[t] = "sending" /\ reply[t] = NoId /\ call[t] \notin Somewhere
  BY DEF Located
<1>b. call[t] \in Id /\ call[t] <= issued
  BY <1>a DEF Registered
<1>c. queue' \in Seq(Id) /\ Len(queue') = Len(queue) + 1 /\ Len(queue) \in Nat
  BY <1>b DEF TypeOK
<1>d. /\ \A n \in 1 .. Len(queue) : queue'[n] = queue[n]
      /\ queue'[Len(queue) + 1] = call[t]
  BY <1>b DEF TypeOK
<1>e. Range(queue) = {queue[n] : n \in 1 .. Len(queue)}
  BY RangeOfSeq DEF TypeOK
<1>f. Range(queue') = Range(queue) \union {call[t]}
  <2>1. DOMAIN queue' = 1 .. Len(queue) + 1 BY <1>c
  <2>2. 1 .. Len(queue) + 1 = (1 .. Len(queue)) \union {Len(queue) + 1} BY <1>c
  <2> QED BY <2>1, <2>2, <1>d, <1>e DEF Range
<1>g. \A u \in Task : pc'[u] = IF u = t THEN "awaiting" ELSE pc[u]
  BY DEF TypeOK
<1>1. TypeOK'
  BY <1>c, CapAssumption DEF TypeOK
<1>2. Registered' /\ LoopKnown' /\ OwnReply'
  <2>1. \A u \in Task : pc'[u] # "idle" <=> pc[u] # "idle"
    BY <1>a, <1>g
  <2>2. Registered'
    BY <2>1 DEF Registered, TypeOK
  <2> QED BY <2>2 DEF LoopKnown, OwnReply
<1>3. Distinct'
  <2>1. \A n \in 1 .. Len(queue) : queue[n] # call[t]
    BY <1>a, <1>e DEF Somewhere
  <2> QED BY <2>1, <1>c, <1>d DEF Distinct
<1>4. Apart'
  BY <1>a, <1>f DEF Apart, Somewhere, Unread
<1>5. Located'
  <2>1. Somewhere' = Somewhere \union {call[t]}
    BY <1>f DEF Somewhere, Unread
  <2>2. \A i \in Somewhere' : i <= issued'
    BY <2>1, <1>b DEF Located
  <2>3. ASSUME NEW u \in Task, pc'[u] = "sending"
        PROVE  call'[u] \notin Somewhere' /\ reply'[u] = NoId
    <3>1. u # t /\ pc[u] = "sending" BY <2>3, <1>g
    <3>2. call[u] # call[t]
      BY <3>1, <1>a DEF Registered, Located
    <3> QED BY <3>1, <3>2, <2>1 DEF Located
  <2>4. \A u \in Task : InFlight(u)' => call'[u] \in Somewhere'
    BY <2>1, <1>g DEF Located, InFlight
  <2> QED BY <2>2, <2>3, <2>4 DEF Located
<1> QED BY <1>1, <1>2, <1>3, <1>4, <1>5

LEMMA LeaveStep ==
  ASSUME IInv, NEW t \in Task, ChannelClosed(t) \/ Return(t)
  PROVE  IInv'
<1> USE DEF IInv, ChannelClosed, Return, client, wire, world
<1>g. \A u \in Task : pc'[u] = IF u = t THEN "idle" ELSE pc[u]
  BY DEF TypeOK
<1>1. TypeOK'
  BY DEF TypeOK
<1>2. LoopKnown' /\ OwnReply' /\ Distinct' /\ Apart'
  BY DEF LoopKnown, OwnReply, Distinct, Apart, Unread
<1>3. Registered'
  <2>1. \A i \in Id : pending[i] = t => loop = "dead"
    BY TaskAssumption DEF Registered
  <2>2. \A u \in Task : pc'[u] # "idle" => pc[u] = pc'[u]
    BY <1>g
  <2>3. \A i \in Id : pending[i] # NoTask => pending[i] \in Task
    BY DEF TypeOK
  <2> QED BY <1>g, <2>1, <2>2, <2>3 DEF Registered
<1>4. Located'
  BY <1>g DEF Located, Somewhere, Unread, InFlight
<1> QED BY <1>1, <1>2, <1>3, <1>4

LEMMA LoopStep == ASSUME IInv, Loop PROVE IInv'
<1> USE DEF IInv, calls, wire, world
<1>1. CASE Dial \/ Connect \/ BackOff \/ Wake
  <2> USE <1>1 DEF Dial, Connect, BackOff, Wake
  <2>1. attempt' \in 0 .. OverflowAt
    <3>1. CASE Wake
      BY <3>1, CapAssumption DEF TypeOK, LoopKnown
    <3> QED BY <3>1, CapAssumption DEF TypeOK
  <2>2. TypeOK'
    BY <2>1 DEF TypeOK, ConnState
  <2>3. LoopKnown'
    BY DEF LoopKnown
  <2>4. UNCHANGED <<queue, asked, inbound, cut, issued, pending, call, reply, pc>> /\ loop # "dead"
    OBVIOUS
  <2> QED BY <2>2, <2>3, <2>4, Still
<1>2. CASE Overflow
  <2> USE <1>2 DEF Overflow
  <2>1. Range(queue') = {}
    BY DEF Range
  <2>2. TypeOK'
    BY RangeOfSeq, CapAssumption DEF TypeOK
  <2>3. Somewhere' = Somewhere
    BY <2>1 DEF Somewhere, Unread
  <2>4. Registered' /\ OwnReply' /\ Distinct'
    BY DEF Registered, OwnReply, Distinct
  <2>5. LoopKnown'
    BY DEF LoopKnown
  <2>6. Apart'
    BY <2>1 DEF Apart, Unread
  <2>7. Located'
    BY <2>3 DEF Located, InFlight
  <2> QED BY <2>2, <2>4, <2>5, <2>6, <2>7
<1> QED BY <1>1, <1>2 DEF Loop
LEMMA ReadReplyStep == ASSUME IInv, NEW i \in Id, ReadReply(i) PROVE IInv'
<1> USE DEF IInv, ReadReply, client, world, Waiter
<1>k. PICK k \in 0 .. Len(queue) : Write(k)
  BY TakenInQueue DEF DrainQueue
<1>w. /\ queue' \in Seq(Id) /\ Len(queue') <= QueueCap
      /\ asked' \in SUBSET Id /\ cut' \in SUBSET Id
      /\ Distinct'
      /\ Sent(k) \subseteq Range(queue)
      /\ Range(queue') = Range(queue) \ Sent(k)
      /\ asked \subseteq asked' /\ asked' \subseteq asked \union Sent(k)
      /\ cut \subseteq cut' /\ cut' \subseteq cut \union Sent(k)
      /\ asked' \union cut' = asked \union cut \union Sent(k)
      /\ asked' \intersect cut' = asked \intersect cut
  BY <1>k, WriteMoves
<1>i. i \notin Range(queue) /\ i \notin asked /\ i \notin cut /\ i \in Somewhere
  BY DEF Apart, Unread, Somewhere
<1>s. Somewhere' = Somewhere \ {i}
  BY <1>w, <1>i DEF Somewhere, Unread
<1>1. TypeOK'
  <2>1. i \in 0 .. MaxCalls BY DEF Id
  <2> QED BY <1>w, <2>1 DEF TypeOK
<1>2. LoopKnown'
  BY DEF LoopKnown
<1>3. Apart'
  BY <1>w DEF Apart, Unread
<1>c. CASE pending[i] \in Task
  <2> DEFINE t == pending[i]
  <2>1. t \in Task /\ call[t] = i /\ reply[t] = NoId
    BY <1>c, TaskAssumption DEF Registered
  <2>2. \A u \in Task : reply'[u] = IF u = t THEN i ELSE reply[u]
    BY <1>c DEF TypeOK
  <2>3. \A j \in Id : pending'[j] = IF j = i THEN NoTask ELSE pending[j]
    BY DEF TypeOK
  <2>4. i # NoId BY DEF Id, NoId
  <2>5. OwnReply'
    BY <2>1, <2>2 DEF OwnReply
  <2>6. Registered'
    <3>1. ASSUME NEW j \in Id, pending'[j] # NoTask
          PROVE  /\ call'[pending'[j]] = j /\ reply'[pending'[j]] = NoId /\ j <= issued'
                 /\ pc'[pending'[j]] # "idle" \/ loop' = "dead"
      <4>1. j # i /\ pending'[j] = pending[j] /\ pending[j] \in Task
        BY <2>3, <3>1 DEF TypeOK
      <4>2. pending[j] # t
        BY <4>1, <2>1, TaskAssumption DEF Registered
      <4> QED BY <4>1, <4>2, <2>2, TaskAssumption DEF Registered
    <3>2. ASSUME NEW u \in Task, pc'[u] # "idle", reply'[u] = NoId
          PROVE  call'[u] \in Id /\ call'[u] <= issued' /\ pending'[call'[u]] = u
      <4>1. u # t BY <2>2, <2>4, <3>2
      <4>2. reply[u] = NoId BY <4>1, <2>2, <3>2
      <4>3. call[u] \in Id /\ call[u] <= issued /\ pending[call[u]] = u
        BY <4>2, <3>2 DEF Registered
      <4>4. call[u] # i BY <4>1, <4>3
      <4> QED BY <4>3, <4>4, <2>3
    <3> QED BY <3>1, <3>2 DEF Registered
  <2>7. Located'
    <3>1. \A j \in Somewhere' : j <= issued'
      BY <1>s DEF Located
    <3>2. \A u \in Task : pc'[u] = "sending" => call'[u] \notin Somewhere' /\ reply'[u] = NoId
      BY <1>s, <1>i, <2>1, <2>2 DEF Located
    <3>3. ASSUME NEW u \in Task, InFlight(u)' PROVE call'[u] \in Somewhere'
      <4>1. u # t /\ InFlight(u)
        BY <3>3, <2>2, <2>4 DEF InFlight
      <4>2. pending[call[u]] = u
        BY <4>1 DEF Registered, InFlight
      <4> QED BY <4>1, <4>2, <1>s DEF Located
    <3> QED BY <3>1, <3>2, <3>3 DEF Located
  <2> QED BY <1>1, <1>2, <1>3, <1>w, <2>5, <2>6, <2>7
<1>n. CASE pending[i] \notin Task
  <2>1. pending[i] = NoTask /\ reply' = reply
    BY <1>n DEF TypeOK
  <2>2. pending' = pending
    BY <2>1 DEF TypeOK
  <2>3. OwnReply' /\ Registered'
    BY <2>1, <2>2 DEF OwnReply, Registered
  <2>4. \A u \in Task : InFlight(u) => call[u] # i
    BY <2>1, TaskAssumption DEF Registered, InFlight
  <2>5. Located'
    BY <2>1, <2>4, <1>s DEF Located, InFlight
  <2> QED BY <1>1, <1>2, <1>3, <1>w, <2>3, <2>5
<1> QED BY <1>c, <1>n

LEMMA WriteStep == ASSUME IInv, ReadEvent \/ WriteOne PROVE IInv'
<1> USE DEF IInv, client, calls, world
<1>k. PICK k \in 0 .. Len(queue) : Write(k)
  <2>1. CASE ReadEvent
    BY <2>1, TakenInQueue DEF ReadEvent, DrainQueue
  <2>2. CASE WriteOne
    <3>1. 1 \in 0 .. Len(queue)
      BY <2>2 DEF WriteOne, TypeOK
    <3> QED BY <2>2, <3>1 DEF WriteOne
  <2> QED BY <2>1, <2>2
<1>u. /\ UNCHANGED <<loop, conn, attempt, issued, pending, pc, call, reply, link, inbound, mopidy, outages>>
      /\ event' \in BOOLEAN
  BY DEF ReadEvent, WriteOne, TypeOK
<1>w. /\ queue' \in Seq(Id) /\ Len(queue') <= QueueCap
      /\ asked' \in SUBSET Id /\ cut' \in SUBSET Id
      /\ Distinct'
      /\ Sent(k) \subseteq Range(queue)
      /\ Range(queue') = Range(queue) \ Sent(k)
      /\ asked \subseteq asked' /\ asked' \subseteq asked \union Sent(k)
      /\ cut \subseteq cut' /\ cut' \subseteq cut \union Sent(k)
      /\ asked' \union cut' = asked \union cut \union Sent(k)
      /\ asked' \intersect cut' = asked \intersect cut
  BY <1>k, WriteMoves
<1>1. TypeOK'
  BY <1>u, <1>w DEF TypeOK
<1>2. Apart'
  BY <1>u, <1>w DEF Apart, Unread
<1>3. Somewhere' = Somewhere
  BY <1>u, <1>w DEF Somewhere, Unread
<1>4. Located'
  BY <1>u, <1>3 DEF Located, InFlight
<1>5. Registered' /\ LoopKnown' /\ OwnReply'
  BY <1>u DEF Registered, LoopKnown, OwnReply
<1> QED BY <1>1, <1>2, <1>4, <1>5, <1>w

LEMMA SessionEndsStep == ASSUME IInv, SessionEnds PROVE IInv'
<1> USE DEF IInv, SessionEnds, calls, world
<1>1. TypeOK'
  BY DEF TypeOK, Unread
<1>2. Somewhere' = Somewhere
  BY DEF Somewhere, Unread
<1>3. Located'
  BY <1>2 DEF Located, InFlight
<1>4. Apart'
  BY DEF Apart, Unread
<1>5. Registered' /\ LoopKnown' /\ OwnReply' /\ Distinct'
  BY DEF Registered, LoopKnown, OwnReply, Distinct
<1> QED BY <1>1, <1>3, <1>4, <1>5

LEMMA MopidyStep == ASSUME IInv, Mopidy PROVE IInv'
<1> USE DEF IInv, client, calls, world
<1>1. ASSUME NEW i \in Id, Answer(i) PROVE IInv'
  <2> USE <1>1 DEF Answer
  <2>1. TypeOK' BY DEF TypeOK
  <2>2. Somewhere' = Somewhere BY DEF Somewhere, Unread
  <2>3. Located' BY <2>2 DEF Located, InFlight
  <2>4. Apart' BY DEF Apart, Unread
  <2>5. Registered' /\ LoopKnown' /\ OwnReply' /\ Distinct'
    BY DEF Registered, LoopKnown, OwnReply, Distinct
  <2> QED BY <2>1, <2>3, <2>4, <2>5
<1>2. CASE Emit
  <2> USE <1>2 DEF Emit
  <2>1. TypeOK' /\ LoopKnown' BY DEF TypeOK, LoopKnown
  <2> QED BY <2>1, Still
<1>3. CASE GoAway
  <2> USE <1>3 DEF GoAway
  <2>1. TypeOK'
    <3>1. outages' \in 0 .. MaxOutages /\ cut' \in SUBSET Id
      BY BoundAssumption DEF TypeOK
    <3> QED BY <3>1 DEF TypeOK
  <2>2. Somewhere' = Somewhere BY DEF Somewhere, Unread
  <2>3. Located' BY <2>2 DEF Located, InFlight
  <2>4. Apart' BY DEF Apart, Unread
  <2>5. Registered' /\ LoopKnown' /\ OwnReply' /\ Distinct'
    BY DEF Registered, LoopKnown, OwnReply, Distinct
  <2> QED BY <2>1, <2>3, <2>4, <2>5
<1>4. CASE ComeBack
  <2> USE <1>4 DEF ComeBack, wire
  <2>1. TypeOK' /\ LoopKnown' BY DEF TypeOK, LoopKnown
  <2> QED BY <2>1, Still
<1> QED BY <1>1, <1>2, <1>3, <1>4 DEF Mopidy

LEMMA NextIInv == IInv /\ [Next]_vars => IInv'
<1> SUFFICES ASSUME IInv, [Next]_vars PROVE IInv'
  OBVIOUS
<1>1. CASE \E t \in Task : Caller(t)
  BY <1>1, CallStep, EnqueueStep, LeaveStep DEF Caller
<1>2. CASE Loop
  BY <1>2, LoopStep
<1>3. CASE Session
  BY <1>3, ReadReplyStep, WriteStep, SessionEndsStep DEF Session
<1>4. CASE Mopidy
  BY <1>4, MopidyStep
<1>5. CASE UNCHANGED vars
  <2> USE <1>5 DEF vars, client, calls, wire, world
  <2>1. TypeOK' /\ LoopKnown'
    BY DEF IInv, TypeOK, LoopKnown
  <2> QED BY <2>1, Still DEF IInv
<1> QED BY <1>1, <1>2, <1>3, <1>4, <1>5 DEF Next

LEMMA AlwaysIInv == Spec => []IInv
BY InitIInv, NextIInv, PTL DEF Spec

\* Every variable of the client keeps its type, and the command channel its
\* capacity.
THEOREM TypeCorrect == Spec => []TypeOK
<1>1. IInv => TypeOK
  BY DEF IInv
<1> QED BY <1>1, AlwaysIInv, PTL

\* A task is only ever handed the reply to the call it waits for, for any
\* number of tasks, calls, outages and orders of the replies.
THEOREM RepliesReachTheirCaller == Spec => []OwnReply
<1>1. IInv => OwnReply
  BY DEF IInv
<1> QED BY <1>1, AlwaysIInv, PTL

\* No request that went down with a connection is written to a later one.
THEOREM RequestsAreNotResent == Spec => []NeverResent
<1>1. IInv => NeverResent
  BY DEF IInv, Apart, NeverResent
<1> QED BY <1>1, AlwaysIInv, PTL

\* A call in flight is in exactly one place, its oneshot registered, unless a
\* connection took it: no request is lost or doubled by the client itself.
THEOREM CallsAreNotMislaid == Spec => []OnePlace
<1>1. IInv => OnePlace
  BY DEF IInv, Registered, Apart, Located, Somewhere, Unread, OnePlace, InFlight
<1> QED BY <1>1, AlwaysIInv, PTL
=============================================================================
