---------------------------- MODULE CommandWorker ----------------------------
(***************************************************************************)
(* The tokio worker as main sees it (channel.rs, command_dispatcher in     *)
(* main.rs): two bounded channels and a dispatcher that takes one command  *)
(* after the other, answers it, and looks at signals in between.           *)
(*                                                                         *)
(* Main never blocks: a command that finds the channel full is dropped.    *)
(* The dispatcher does: it waits for a call, a device flow, and for room   *)
(* among the replies.  Open-Meteo, Google and Mopidy are the environment   *)
(* and answer as they like; every HTTP request has a timeout, and so an    *)
(* end; a Mopidy call has none (see MopidyTransport).                      *)
(* A SIGINT is heard only while the dispatcher waits for a command, and    *)
(* is then as the SIGTERM here.  Cmd::Shutdown is left out: main never     *)
(* sends it.                                                               *)
(***************************************************************************)
EXTENDS Naturals, Sequences

CONSTANTS
  CmdCap,     \* capacity of the Cmd channel (32)
  ReplyCap,   \* capacity of the Reply channel (32)
  Arg,        \* what a command may speak of
  NoArg       \* the argument of a command that has none

ASSUME CapAssumption == CmdCap \in Nat \ {0} /\ ReplyCap \in Nat \ {0}

\* "Mopidy" stands for the commands of the player and those that only log.
Kind == {"Mopidy", "FetchWeather", "GeocodeCity", "FetchCalendarEvents",
         "ListCalendars", "PairDeviceFlow"}
Outcome == {"ok", "err", "unauthorized"}

\* A reply has its command's kind; two kinds answer no command, or not yet.
Command == [kind : Kind, arg : Arg \union {NoArg}]
Reply == [kind : Kind \union {"DeviceCode", "ShutdownRequested"},
          arg : Arg \union {NoArg}, out : Outcome]

Cmd(k, a) == [kind |-> k, arg |-> a]

VARIABLES
  cmds,       \* the Cmd channel
  replies,    \* the Reply channel
  job,        \* the command the dispatcher is at: a sequence of one or none
  stage,      \* of the job: "asked", "polling" (device flow) or "hung"
  listening,  \* the dispatcher's loop runs
  signal,     \* a SIGTERM is pending, or main is still to be told of it
  up          \* the process runs

workerVars == <<cmds, replies, job, stage, listening, signal, up>>

WorkerInit ==
  /\ cmds = <<>> /\ replies = <<>> /\ job = <<>> /\ stage = "asked"
  /\ listening = TRUE /\ signal = FALSE /\ up = TRUE

-----------------------------------------------------------------------------
(* The dispatcher. *)

Receive ==
  /\ up /\ listening /\ job = <<>> /\ cmds # <<>>
  /\ job' = <<Head(cmds)>> /\ cmds' = Tail(cmds) /\ stage' = "asked"
  /\ UNCHANGED <<replies, listening, signal, up>>

\* reply_tx.send(..).await waits for room.
SendReply(k, a, out) ==
  /\ Len(replies) < ReplyCap
  /\ replies' = Append(replies, [kind |-> k, arg |-> a, out |-> out])

\* What a command is answered with at its end.
Outcomes(k) ==
  CASE k = "FetchCalendarEvents" -> {"ok", "err", "unauthorized"}
    [] k = "Mopidy" -> {"ok"}
    [] OTHER -> {"ok", "err"}

\* A device flow ends after its polling, by consent, refusal or expiry.
Answer ==
  /\ up /\ job # <<>>
  /\ stage = IF job[1].kind = "PairDeviceFlow" THEN "polling" ELSE "asked"
  /\ \E out \in Outcomes(job[1].kind) : SendReply(job[1].kind, job[1].arg, out)
  /\ job' = <<>>
  /\ UNCHANGED <<cmds, stage, listening, signal, up>>

\* PlayUri and the arms that only log have no reply.
FinishSilently ==
  /\ up /\ job # <<>> /\ job[1].kind = "Mopidy" /\ stage = "asked"
  /\ job' = <<>>
  /\ UNCHANGED <<cmds, replies, stage, listening, signal, up>>

\* A device flow surfaces its code before it polls; without one it is over.
RequestDeviceCode ==
  /\ up /\ job # <<>> /\ job[1].kind = "PairDeviceFlow" /\ stage = "asked"
  /\ \/ /\ SendReply("DeviceCode", job[1].arg, "ok")
        /\ stage' = "polling" /\ job' = job
     \/ /\ SendReply("PairDeviceFlow", job[1].arg, "err")
        /\ stage' = stage /\ job' = <<>>
  /\ UNCHANGED <<cmds, listening, signal, up>>

\* The connection went away under a Mopidy call.
Hang ==
  /\ up /\ job # <<>> /\ job[1].kind = "Mopidy" /\ stage = "asked"
  /\ stage' = "hung"
  /\ UNCHANGED <<cmds, replies, job, listening, signal, up>>

\* Faulty: a queued command goes before a signal.
CatchSignalWhenIdle ==
  /\ up /\ listening /\ job = <<>> /\ signal /\ cmds = <<>>
  /\ listening' = FALSE
  /\ UNCHANGED <<cmds, replies, job, stage, signal, up>>

\* A signal ends the loop, whatever is queued; main is told when there is room.
CatchSignal ==
  /\ up /\ listening /\ job = <<>> /\ signal
  /\ listening' = FALSE
  /\ UNCHANGED <<cmds, replies, job, stage, signal, up>>

RequestShutdown ==
  /\ up /\ ~listening /\ signal
  /\ SendReply("ShutdownRequested", NoArg, "ok")
  /\ signal' = FALSE
  /\ UNCHANGED <<cmds, job, stage, listening, up>>

Terminate ==
  /\ up /\ listening /\ ~signal
  /\ signal' = TRUE
  /\ UNCHANGED <<cmds, replies, job, stage, listening, up>>

Dispatch == Receive \/ Answer \/ FinishSilently \/ RequestDeviceCode \/ Hang
            \/ CatchSignal \/ RequestShutdown

-----------------------------------------------------------------------------
(* Main's end of the channels. *)

Room == Len(cmds) < CmdCap

\* try_send
Sends(c) == cmds' = IF Room THEN Append(cmds, c) ELSE cmds

\* Main has taken a reply of this kind and outcome.
Takes(k, out) ==
  /\ up /\ replies # <<>>
  /\ Head(replies).kind = k /\ Head(replies).out = out
  /\ replies' = Tail(replies)

\* The clock's poll of the player, the taps of the media panel, an alarm's
\* commands: the main thread sends them whenever it likes.
SendMopidy ==
  /\ up /\ Room /\ Sends(Cmd("Mopidy", NoArg))
  /\ UNCHANGED <<replies, job, stage, listening, signal, up>>

MopidyReplied ==
  /\ Takes("Mopidy", "ok")
  /\ UNCHANGED <<cmds, job, stage, listening, signal, up>>

\* execute_shutdown: what it queues for the worker dies with the process.
ShutdownRequested ==
  /\ Takes("ShutdownRequested", "ok")
  /\ up' = FALSE
  /\ UNCHANGED <<cmds, job, stage, listening, signal>>

WorkerNext == Dispatch \/ Terminate \/ SendMopidy \/ MopidyReplied \/ ShutdownRequested

WorkerTypeOK ==
  /\ cmds \in Seq(Command) /\ Len(cmds) <= CmdCap
  /\ replies \in Seq(Reply) /\ Len(replies) <= ReplyCap
  /\ job \in Seq(Command) /\ Len(job) <= 1
  /\ stage \in {"asked", "polling", "hung"}
  /\ listening \in BOOLEAN /\ signal \in BOOLEAN /\ up \in BOOLEAN

-----------------------------------------------------------------------------
(* The pipeline: requests answered, at the dispatcher and queued, in the   *)
(* order in which main made them and will see them answered.               *)

RequestsOf(rs) == [i \in 1 .. Len(rs) |-> Cmd(rs[i].kind, rs[i].arg)]
Pipeline == RequestsOf(replies) \o job \o cmds

RequestsIn(p, kinds) == {p[i] : i \in {j \in 1 .. Len(p) : p[j].kind \in kinds}}
SingleIn(p, kinds) ==
  \A i, j \in 1 .. Len(p) : p[i].kind \in kinds /\ p[j].kind \in kinds => i = j

\* The requests of some kinds that are under way.
UnderWay(kinds) == RequestsIn(Pipeline, kinds)
AtMostOne(kinds) == SingleIn(Pipeline, kinds)

Hung == job # <<>> /\ stage = "hung"
=============================================================================
