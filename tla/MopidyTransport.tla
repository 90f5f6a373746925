-------------------------- MODULE MopidyTransport --------------------------
(***************************************************************************)
(* The Mopidy client (mopidy-client/src/transport.rs): the reconnect loop, *)
(* the session that multiplexes calls over one WebSocket, and              *)
(* send_and_await, by which tasks that share the client make calls.        *)
(*                                                                         *)
(* A request frame and its reply are the request's id.  Mopidy, and the    *)
(* connection to it, are the environment: Mopidy answers what reaches it,  *)
(* in any order, and an outage takes the connection and all it carries.    *)
(* Left out: frames that do not parse, which are skipped, and half-open    *)
(* connections, which nothing here detects (there is no heartbeat).        *)
(*                                                                         *)
(* An operator named as faulty is not used: it stands beside the one it    *)
(* would replace, and shows which property notices the fault.              *)
(***************************************************************************)
EXTENDS Naturals, Sequences, Functions

CONSTANTS
  Task,        \* the tasks that share the client
  QueueCap,    \* capacity of the command channel (64)
  OverflowAt,  \* the attempt at which 500 ms * 2^attempt overflows a Duration (65)
  MaxCalls,    \* bound: calls made
  MaxOutages,  \* bound: times Mopidy goes away
  NoTask       \* nobody awaits the reply

ASSUME TaskAssumption == NoTask \notin Task
ASSUME CapAssumption == QueueCap \in Nat \ {0} /\ OverflowAt \in Nat
ASSUME BoundAssumption == MaxCalls \in Nat /\ MaxOutages \in Nat

Id == 1 .. MaxCalls
NoId == 0

ConnState == {"Disconnected", "Connecting", "Connected", "BackingOff"}

VARIABLES
  loop,     \* where reconnect_loop stands
  conn,     \* the shared connection state is_connected reads
  attempt,  \* the backoff exponent
  issued,   \* id_counter
  pending,  \* pending_replies: whose oneshot waits for the reply to an id
  queue,    \* frames in the command channel
  pc,       \* where a task stands in send_and_await
  call,     \* the id a task allocated
  reply,    \* what a task's oneshot holds
  mopidy,   \* Mopidy can be reached
  link,     \* the session's socket still works
  asked,    \* requests Mopidy has and did not answer
  inbound,  \* replies the session has not read
  event,    \* an event frame the session has not read
  cut,      \* history: ids that went down with a connection
  outages   \* bound: outages so far

client == <<loop, conn, attempt>>
calls  == <<issued, pending, pc, call, reply>>
wire   == <<link, asked, inbound, event>>
world  == <<mopidy, outages>>
vars   == <<client, calls, queue, wire, world, cut>>

Init ==
  /\ loop = "top" /\ conn = "Disconnected" /\ attempt = 0
  /\ issued = 0 /\ pending = [i \in Id |-> NoTask] /\ queue = <<>>
  /\ pc = [t \in Task |-> "idle"] /\ call = [t \in Task |-> NoId]
  /\ reply = [t \in Task |-> NoId]
  /\ mopidy \in BOOLEAN /\ outages = 0
  /\ link = FALSE /\ asked = {} /\ inbound = {} /\ event = FALSE
  /\ cut = {}

-----------------------------------------------------------------------------
(* Callers. *)

\* The next id of the counter, which every session shares.
NextId == issued + 1

\* A typed wrapper checks is_connected, then send_and_await allocates an id
\* and registers its oneshot.  A wrapper that finds another state returns
\* NotConnected and changes nothing.
Call(t) ==
  /\ pc[t] = "idle" /\ conn = "Connected" /\ issued < MaxCalls
  /\ issued' = issued + 1
  /\ call' = [call EXCEPT ![t] = NextId]
  /\ pending' = [pending EXCEPT ![NextId] = t]
  /\ reply' = [reply EXCEPT ![t] = NoId]
  /\ pc' = [pc EXCEPT ![t] = "sending"]
  /\ UNCHANGED <<client, queue, wire, world, cut>>

\* cmd_tx.send: waits for room in the channel.
Enqueue(t) ==
  /\ pc[t] = "sending" /\ loop # "dead" /\ Len(queue) < QueueCap
  /\ queue' = Append(queue, call[t])
  /\ pc' = [pc EXCEPT ![t] = "awaiting"]
  /\ UNCHANGED <<client, issued, pending, call, reply, wire, world, cut>>

\* The receiver is gone: ChannelClosed, and the oneshot stays registered.
ChannelClosed(t) ==
  /\ pc[t] = "sending" /\ loop = "dead"
  /\ pc' = [pc EXCEPT ![t] = "idle"]
  /\ UNCHANGED <<client, issued, pending, call, reply, queue, wire, world, cut>>

Return(t) ==
  /\ pc[t] = "awaiting" /\ reply[t] # NoId
  /\ pc' = [pc EXCEPT ![t] = "idle"]
  /\ UNCHANGED <<client, issued, pending, call, reply, queue, wire, world, cut>>

-----------------------------------------------------------------------------
(* reconnect_loop. *)

Dial ==
  /\ loop = "top"
  /\ loop' = "dialling" /\ conn' = "Connecting"
  /\ UNCHANGED <<attempt, calls, queue, wire, world, cut>>

\* connect_ws answers: the exponent starts over and the session begins with
\* whatever frames the channel already holds.
Connect ==
  /\ loop = "dialling" /\ mopidy
  /\ loop' = "session" /\ conn' = "Connected" /\ attempt' = 0
  /\ link' = TRUE
  /\ UNCHANGED <<calls, queue, asked, inbound, event, world, cut>>

BackOff ==
  /\ loop = "dialling" /\ ~mopidy /\ attempt < OverflowAt
  /\ loop' = "asleep" /\ conn' = "BackingOff"
  /\ UNCHANGED <<attempt, calls, queue, wire, world, cut>>

\* Faulty: the loop gives up when the backoff is near its end.
WakeUntilCap ==
  /\ loop = "asleep" /\ attempt + 1 < OverflowAt
  /\ loop' = "top" /\ attempt' = attempt + 1
  /\ UNCHANGED <<conn, calls, queue, wire, world, cut>>

Wake ==
  /\ loop = "asleep"
  /\ loop' = "top" /\ attempt' = attempt + 1
  /\ UNCHANGED <<conn, calls, queue, wire, world, cut>>

\* jitter_delay computes initial * factor^attempt before it caps it, and
\* mul_f64 panics when the product is no Duration: the task that runs the
\* loop is gone, and with it the channel's receiver and the frames in it.
Overflow ==
  /\ loop = "dialling" /\ ~mopidy /\ attempt >= OverflowAt
  /\ loop' = "dead" /\ queue' = <<>>
  /\ cut' = cut \union Range(queue)
  /\ UNCHANGED <<conn, attempt, calls, wire, world>>

-----------------------------------------------------------------------------
(* run_session. *)

\* The frames of the channel that one pass over it takes: all of them, or
\* those up to the first one a broken socket refuses.
Taken == IF queue = <<>> THEN {0}
         ELSE IF link THEN {Len(queue)} ELSE 1 .. Len(queue)

Sent(k) == {queue[n] : n \in 1 .. k}

\* k frames leave the channel: for Mopidy, or into a broken socket.
Write(k) ==
  /\ queue' = SubSeq(queue, k + 1, Len(queue))
  /\ asked' = IF link THEN asked \union Sent(k) ELSE asked
  /\ cut' = IF link THEN cut ELSE cut \union Sent(k)

\* Faulty: the session writes only when it has nothing to read.
DrainNothing == Write(0)

\* After every frame it reads the session writes what the channel holds, as
\* the select is biased and a busy stream would leave it no other turn.
DrainQueue == \E k \in Taken : Write(k)

\* Faulty: replies are matched to calls by their order.
OldestWaiter(i) ==
  IF \E j \in Id : pending[j] # NoTask
  THEN pending[CHOOSE j \in Id : pending[j] # NoTask /\ \A k \in 1 .. j - 1 : pending[k] = NoTask]
  ELSE NoTask

Waiter(i) == pending[i]

\* A reply resolves the oneshot registered for its id, if there is one.
ReadReply(i) ==
  /\ loop = "session" /\ i \in inbound
  /\ inbound' = inbound \ {i}
  /\ pending' = [pending EXCEPT ![i] = NoTask]
  /\ reply' = IF Waiter(i) \in Task
              THEN [reply EXCEPT ![Waiter(i)] = i] ELSE reply
  /\ DrainQueue
  /\ UNCHANGED <<client, issued, pc, call, link, event, world>>

ReadEvent ==
  /\ loop = "session" /\ event
  /\ event' = FALSE
  /\ DrainQueue
  /\ UNCHANGED <<client, calls, link, inbound, world>>

\* The outbound branch: only when there is nothing to read.  A broken socket
\* swallows frames until it refuses one, and that ends the session.
WriteOne ==
  /\ loop = "session" /\ inbound = {} /\ ~event /\ queue # <<>>
  /\ Write(1)
  /\ UNCHANGED <<client, calls, link, inbound, event, world>>

Unread == asked \union inbound

\* The stream ended, reading it failed, or WriteOne's write did: the state
\* stays Connected until the loop dials again, and nobody tells the callers.
SessionEnds ==
  /\ loop = "session" /\ ~link
  /\ loop' = "top"
  /\ asked' = {} /\ inbound' = {} /\ event' = FALSE
  /\ cut' = cut \union Unread
  /\ UNCHANGED <<conn, attempt, calls, queue, link, world>>

-----------------------------------------------------------------------------
(* Mopidy and the network. *)

Answer(i) ==
  /\ link /\ i \in asked
  /\ asked' = asked \ {i} /\ inbound' = inbound \union {i}
  /\ UNCHANGED <<client, calls, queue, link, event, world, cut>>

Emit ==
  /\ link /\ ~event
  /\ event' = TRUE
  /\ UNCHANGED <<client, calls, queue, link, asked, inbound, world, cut>>

GoAway ==
  /\ mopidy /\ outages < MaxOutages
  /\ mopidy' = FALSE /\ outages' = outages + 1
  /\ link' = FALSE
  /\ asked' = {} /\ cut' = cut \union asked
  /\ UNCHANGED <<client, calls, queue, inbound, event>>

ComeBack ==
  /\ ~mopidy
  /\ mopidy' = TRUE
  /\ UNCHANGED <<client, calls, queue, wire, outages, cut>>

-----------------------------------------------------------------------------
Caller(t) == Call(t) \/ Enqueue(t) \/ ChannelClosed(t) \/ Return(t)
Session == (\E i \in Id : ReadReply(i)) \/ ReadEvent \/ WriteOne \/ SessionEnds
Loop == Dial \/ Connect \/ BackOff \/ Wake \/ Overflow
Mopidy == (\E i \in Id : Answer(i)) \/ Emit \/ GoAway \/ ComeBack

Next == (\E t \in Task : Caller(t)) \/ Loop \/ Session \/ Mopidy

\* The runtime polls every task that can go on, Mopidy answers each request
\* that reached it and every reply that arrived is read sooner or later: the
\* socket is a stream, so events do not overtake replies for ever.
Fairness ==
  /\ \A t \in Task : WF_vars(Enqueue(t) \/ ChannelClosed(t) \/ Return(t))
  /\ WF_vars(Loop) /\ WF_vars(Session)
  /\ \A i \in Id : WF_vars(Answer(i)) /\ WF_vars(ReadReply(i))

Spec == Init /\ [][Next]_vars /\ Fairness

-----------------------------------------------------------------------------
(* Properties. *)

\* Every variable keeps its type, and the channel its capacity.
TypeOK ==
  /\ loop \in {"top", "dialling", "session", "asleep", "dead"}
  /\ conn \in ConnState /\ attempt \in 0 .. OverflowAt
  /\ issued \in 0 .. MaxCalls
  /\ pending \in [Id -> Task \union {NoTask}]
  /\ queue \in Seq(Id) /\ Len(queue) <= QueueCap
  /\ pc \in [Task -> {"idle", "sending", "awaiting"}]
  /\ call \in [Task -> 0 .. MaxCalls]
  /\ reply \in [Task -> 0 .. MaxCalls]
  /\ mopidy \in BOOLEAN /\ link \in BOOLEAN /\ event \in BOOLEAN
  /\ asked \in SUBSET Id /\ inbound \in SUBSET Id /\ cut \in SUBSET Id
  /\ outages \in 0 .. MaxOutages

\* A task is never handed the reply to a call of another task, nor one to an
\* earlier call of its own, whatever the order of the replies and however
\* many sessions its request waited for.
OwnReply == \A t \in Task : reply[t] \in {NoId, call[t]}

InFlight(t) == pc[t] = "awaiting" /\ reply[t] = NoId

\* A call in flight is in one place of the pipeline, with its oneshot still
\* registered, unless it went down with a connection: it is neither dropped
\* nor written, and so obeyed by Mopidy, twice.
OnePlace ==
  \A t \in Task : InFlight(t) =>
    /\ pending[call[t]] = t
    /\ \/ call[t] \in cut
       \/ call[t] \in Range(queue) /\ call[t] \notin Unread
       \/ call[t] \notin Range(queue) /\ call[t] \in asked /\ call[t] \notin inbound
       \/ call[t] \notin Range(queue) /\ call[t] \notin asked /\ call[t] \in inbound

\* What Mopidy has is what a session of this connection wrote: a request that
\* a connection took with it is not sent again by the next one.
NeverResent == cut \intersect (Range(queue) \union Unread) = {}

\* The writer is not starved by the reader: a call whose connection holds is
\* answered, even while Mopidy floods the session with events.
AnsweredUnlessCut ==
  \A t \in Task, i \in Id :
    (InFlight(t) /\ call[t] = i) ~> (~InFlight(t) \/ call[t] # i \/ i \in cut)

\* Once Mopidy stays up the client is connected and stays so, unless the
\* backoff overflowed before.
Reconnects == <>[]mopidy => <>[](conn = "Connected" \/ loop = "dead")

\* What the documentation says of a call: it gets its reply, or an error,
\* also when the connection drops under it ("await the matching reply or
\* fail on channel drop").
CallReturns == \A t \in Task : pc[t] # "idle" ~> pc[t] = "idle"
=============================================================================
