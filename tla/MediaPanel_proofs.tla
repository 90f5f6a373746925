-------------------------- MODULE MediaPanel_proofs --------------------------
(***************************************************************************)
(* Proofs about MediaPanel, for any favourites, any controls, channels of  *)
(* any capacity and any number of taps.                                    *)
(***************************************************************************)
EXTENDS MediaPanel, SequenceTheorems, TLAPS

-----------------------------------------------------------------------------
(* Commands, answers and the channels. *)

LEMMA CommandType ==
  /\ Poll \in Command
  /\ \A m \in Method : Call(m) \in Command
  /\ \A f \in Feed : Browse(f) \in Command
  /\ \A f \in Fav : PlayUri(f) \in Command
BY DEF Command

LEMMA CommandArg ==
  ASSUME NEW c \in Command
  PROVE  /\ c.kind = "BrowseFeed" => c.arg \in Feed /\ c = Browse(c.arg)
         /\ c.kind = "PlayUri" => c.arg \in Fav /\ c = PlayUri(c.arg)
         /\ c.kind = "CallMopidy" => c.arg \in Method
BY DEF Command, Poll, Call, Browse, PlayUri

LEMMA AnswerArg ==
  ASSUME NEW r \in Answer
  PROVE  /\ r.kind = "MopidyState" => r.arg \in PlayerState
         /\ r.kind = "FeedBrowse" => r.arg \in Feed \union {NoFav} /\ r.asked \in Feed
BY DEF Answer

LEMMA AnswerType ==
  /\ \A s \in PlayerState : [kind |-> "MopidyState", arg |-> s] \in Answer
  /\ \A f \in Feed, g \in Feed \union {NoFav} :
       [kind |-> "FeedBrowse", arg |-> g, asked |-> f] \in Answer
  /\ [kind |-> "CallResult", arg |-> NoFav] \in Answer
BY DEF Answer

LEMMA CapsType ==
  ASSUME NEW cmd \in Method, NEW f
  PROVE  ResolveTransport(cmd, Caps(f)) \subseteq Method
BY DEF ResolveTransport, Caps, Method

LEMMA SendType ==
  ASSUME TypeOK, NEW c \in Command, TrySend(c)
  PROVE  cmds' \in Seq(Command) /\ Len(cmds') <= CmdCap
<1>1. cmds \in Seq(Command) /\ Len(cmds) <= CmdCap /\ Len(cmds) \in Nat /\ CmdCap \in Nat
  BY CapAssumption DEF TypeOK
<1>2. Append(cmds, c) \in Seq(Command) /\ Len(Append(cmds, c)) = Len(cmds) + 1
  BY <1>1, AppendProperties
<1> QED BY <1>1, <1>2 DEF TrySend, Room

LEMMA ReplyType ==
  ASSUME TypeOK, NEW r \in Answer, Reply(r)
  PROVE  replies' \in Seq(Answer) /\ Len(replies') <= ReplyCap
<1>1. replies \in Seq(Answer) /\ Len(replies) \in Nat /\ ReplyCap \in Nat
  BY CapAssumption DEF TypeOK
<1>2. Append(replies, r) \in Seq(Answer) /\ Len(Append(replies, r)) = Len(replies) + 1
  BY <1>1, AppendProperties
<1> QED BY <1>1, <1>2 DEF Reply

LEMMA TakesType ==
  ASSUME TypeOK, NEW kind, Takes(kind)
  PROVE  /\ replies' \in Seq(Answer) /\ Len(replies') <= ReplyCap
         /\ Head(replies) \in Answer /\ Head(replies).kind = kind
<1>1. replies \in Seq(Answer) /\ replies # <<>> /\ Len(replies) <= ReplyCap
      /\ ReplyCap \in Nat
  BY CapAssumption DEF TypeOK, Takes
<1>2. Tail(replies) \in Seq(Answer) /\ Len(Tail(replies)) = Len(replies) - 1
      /\ Head(replies) \in Answer
  BY <1>1, HeadTailProperties
<1> QED BY <1>1, <1>2 DEF Takes

\* The command at the dispatcher.
LEMMA JobType ==
  ASSUME TypeOK, job # <<>>
  PROVE  Job \in Command /\ Len(job) = 1 /\ job = <<Job>>
<1>1. job \in Seq(Command) /\ Len(job) \in Nat /\ Len(job) <= 1
  BY DEF TypeOK
<1>2. Len(job) = 1 /\ job[1] \in Command
  BY <1>1
<1>3. job = <<job[1]>>
  BY <1>1, <1>2
<1> QED BY <1>2, <1>3 DEF Job

-----------------------------------------------------------------------------
(* Type correctness. *)

LEMMA InitType == Init => TypeOK
<1> SUFFICES ASSUME Init PROVE TypeOK
  OBVIOUS
<1>1. cmds \in Seq(Command) /\ replies \in Seq(Answer) /\ job \in Seq(Command)
  BY EmptySeq DEF Init
<1>2. Len(cmds) = 0 /\ Len(replies) = 0 /\ Len(job) = 0
  BY EmptySeq DEF Init
<1>3. player \in [source : Fav \union {NoFav}, state : PlayerState]
  BY DEF Init, PlayerState
<1>4. 0 <= CmdCap /\ 0 <= ReplyCap /\ 0 <= 1 /\ 0 \in 0 .. MaxTaps
  BY CapAssumption
<1>5. /\ cmds \in Seq(Command) /\ Len(cmds) <= CmdCap
      /\ replies \in Seq(Answer) /\ Len(replies) <= ReplyCap
      /\ job \in Seq(Command) /\ Len(job) <= 1
  BY <1>1, <1>2, <1>4
<1> QED BY <1>3, <1>4, <1>5, Zenon DEF Init, TypeOK

\* What the dispatcher does to the player leaves it one.
LEMMA MovedType ==
  ASSUME NEW p \in [source : Fav \union {NoFav}, state : PlayerState], NEW m
  PROVE  /\ Moved(p, m) \in [source : Fav \union {NoFav}, state : PlayerState]
         /\ Moved(p, m).source = p.source
BY DEF Moved, PlayerState

LEMMA TapType == TypeOK /\ Tap => TypeOK'
<1> SUFFICES ASSUME TypeOK, Tap PROVE TypeOK'
  OBVIOUS
<1>t. taps' \in 0 .. MaxTaps
  BY CapAssumption DEF Tap, TypeOK
<1>1. ASSUME NEW f \in Feed, TapFeed(f) PROVE TypeOK'
  <2>1. cmds' \in Seq(Command) /\ Len(cmds') <= CmdCap
    BY <1>1, CommandType, SendType DEF TapFeed
  <2> QED BY <1>1, <1>t, <2>1 DEF TapFeed, TypeOK
<1>2. ASSUME NEW f \in Fav, TapPlay(f) PROVE TypeOK'
  <2>1. cmds' \in Seq(Command) /\ Len(cmds') <= CmdCap
    BY <1>2, CommandType, SendType DEF TapPlay
  <2> QED BY <1>2, <1>t, <2>1 DEF TapPlay, TypeOK
<1>3. CASE FavoriteTapped
  BY <1>1, <1>2, <1>3 DEF FavoriteTapped
<1>4. CASE EpisodeTapped
  <2>1. episodes \in Fav BY <1>4 DEF EpisodeTapped, TypeOK, Feed
  <2> QED BY <1>2, <1>4, <2>1 DEF EpisodeTapped
<1>5. CASE TransportTapped
  <2>1. PICK cmd \in Control :
          \E m \in ResolveTransport(cmd, Caps(now_playing)) : TrySend(Call(m))
    BY <1>5 DEF TransportTapped
  <2>2. PICK m \in Method : TrySend(Call(m))
    BY <2>1, CapsType, ControlAssumption
  <2>3. cmds' \in Seq(Command) /\ Len(cmds') <= CmdCap
    BY <2>2, CommandType, SendType
  <2> QED BY <1>5, <1>t, <2>3 DEF TransportTapped, TypeOK, panel, history
<1> QED BY <1>3, <1>4, <1>5 DEF Tap

LEMMA RepliedType == TypeOK /\ DispatchReply => TypeOK'
<1> SUFFICES ASSUME TypeOK, DispatchReply PROVE TypeOK'
  OBVIOUS
<1>1. CASE MopidyState
  <2>1. replies' \in Seq(Answer) /\ Len(replies') <= ReplyCap
    BY <1>1, TakesType DEF MopidyState
  <2>2. media_playing' \in BOOLEAN
    BY <1>1, Zenon DEF MopidyState, Reflect
  <2>3. buffering' \in {"off", "on", "due"}
    BY <1>1 DEF MopidyState, Reflect, TypeOK
  <2> QED BY <1>1, <2>1, <2>2, <2>3 DEF MopidyState, TypeOK, history
<1>2. CASE CallResult
  <2>1. replies' \in Seq(Answer) /\ Len(replies') <= ReplyCap
    BY <1>2, TakesType DEF CallResult
  <2> QED BY <1>2, <2>1 DEF CallResult, TypeOK, panel, history
<1>3. CASE FeedBrowse
  <2>1. /\ replies' \in Seq(Answer) /\ Len(replies') <= ReplyCap
        /\ Head(replies).arg \in Feed \union {NoFav}
    BY <1>3, TakesType, AnswerArg DEF FeedBrowse
  <2> QED BY <1>3, <2>1 DEF FeedBrowse, TypeOK, history
<1> QED BY <1>1, <1>2, <1>3 DEF DispatchReply

LEMMA DoneType ==
  ASSUME Done PROVE job' \in Seq(Command) /\ Len(job') <= 1 /\ stage' = "call"
BY EmptySeq DEF Done

LEMMA WorkType == TypeOK /\ Work => TypeOK'
<1> SUFFICES ASSUME TypeOK, Work PROVE TypeOK'
  OBVIOUS
<1>1. ASSUME NEW s \in PlayerState, AnswerPoll(s) PROVE TypeOK'
  <2>1. replies' \in Seq(Answer) /\ Len(replies') <= ReplyCap
    BY <1>1, AnswerType, ReplyType DEF AnswerPoll
  <2> QED BY <1>1, <2>1, DoneType DEF AnswerPoll, TypeOK, panel, history
<1>2. CASE PollAnswered
  BY <1>1, <1>2 DEF PollAnswered, TypeOK
<1>3. CASE PollFails
  BY <1>1, <1>3 DEF PollFails, PlayerState
<1>4. CASE BrowseFeed
  <2>1. Job.arg \in Feed
    BY <1>4, JobType, CommandArg DEF BrowseFeed, At
  <2>2. replies' \in Seq(Answer) /\ Len(replies') <= ReplyCap
    BY <1>4, <2>1, AnswerType, ReplyType DEF BrowseFeed
  <2> QED BY <1>4, <2>2, DoneType DEF BrowseFeed, TypeOK, panel, history
<1>5. CASE CallMopidy
  <2>1. replies' \in Seq(Answer) /\ Len(replies') <= ReplyCap
    BY <1>5, AnswerType, ReplyType DEF CallMopidy
  <2>2. player' \in [source : Fav \union {NoFav}, state : PlayerState]
    BY <1>5, MovedType DEF CallMopidy, TypeOK
  <2> QED BY <1>5, <2>1, <2>2, DoneType DEF CallMopidy, TypeOK, panel, history
<1>6. CASE PlayRefused \/ AddFails \/ PlayFails
  BY <1>6, DoneType DEF PlayRefused, AddFails, PlayFails, TypeOK, panel
<1>7. CASE TracklistClear
  BY <1>7 DEF TracklistClear, TypeOK, panel, history, PlayerState
<1>8. CASE TracklistAdd
  BY <1>8 DEF TracklistAdd, TypeOK, panel, history
<1>9. CASE PlaybackPlay
  <2>1. Job.arg \in Fav
    BY <1>9, JobType, CommandArg DEF PlaybackPlay, At
  <2> QED BY <1>9, <2>1, DoneType DEF PlaybackPlay, TypeOK, panel, history, PlayerState
<1> QED BY <1>2, <1>3, <1>4, <1>5, <1>6, <1>7, <1>8, <1>9 DEF Work

LEMMA StepType == TypeOK /\ [Next]_vars => TypeOK'
<1> SUFFICES ASSUME TypeOK, [Next]_vars PROVE TypeOK'
  OBVIOUS
<1>1. CASE Tap BY <1>1, TapType
<1>2. CASE ClockTick
  <2>1. cmds' \in Seq(Command) /\ Len(cmds') <= CmdCap
    BY <1>2, CommandType, SendType DEF ClockTick
  <2> QED BY <1>2, <2>1 DEF ClockTick, PushMediaToUi, TypeOK, history
<1>3. CASE BufferingDeadline
  BY <1>3 DEF BufferingDeadline, TypeOK, dispatcher, history
<1>4. CASE DispatchReply BY <1>4, RepliedType
<1>5. CASE Receive
  <2>1. Head(cmds) \in Command /\ Tail(cmds) \in Seq(Command)
        /\ Len(Tail(cmds)) = Len(cmds) - 1
    BY <1>5, HeadTailProperties DEF Receive, TypeOK
  <2>2. job' \in Seq(Command) /\ Len(job') = 1
    BY <1>5, <2>1 DEF Receive
  <2>3. cmds' \in Seq(Command) /\ Len(cmds') <= CmdCap
    BY <1>5, <2>1, CapAssumption DEF Receive, TypeOK
  <2> QED BY <1>5, <2>2, <2>3 DEF Receive, TypeOK, panel, history
<1>6. CASE Work BY <1>6, WorkType
<1>7. CASE Hang
  BY <1>7 DEF Hang, TypeOK, panel, history
<1>8. CASE PlayerStops
  BY <1>8 DEF PlayerStops, TypeOK, panel, dispatcher, history, PlayerState
<1>9. CASE Restart
  <2>1. /\ cmds' \in Seq(Command) /\ replies' \in Seq(Answer) /\ job' \in Seq(Command)
        /\ Len(cmds') = 0 /\ Len(replies') = 0 /\ Len(job') = 0
    BY <1>9, EmptySeq DEF Restart
  <2>2. 0 <= CmdCap /\ 0 <= ReplyCap /\ 0 <= 1 /\ 0 \in 0 .. MaxTaps
    BY CapAssumption
  <2>3. Len(cmds') <= CmdCap /\ Len(replies') <= ReplyCap /\ Len(job') <= 1
    BY <2>1, <2>2
  <2> QED BY <1>9, <2>1, <2>2, <2>3, Zenon DEF Restart, TypeOK
<1>10. CASE UNCHANGED vars
  BY <1>10 DEF vars, panel, dispatcher, history, TypeOK
<1> QED BY <1>1, <1>2, <1>3, <1>4, <1>5, <1>6, <1>7, <1>8, <1>9, <1>10 DEF Next

\* Every variable keeps its type and each channel its capacity, whatever is
\* tapped, answered, refused or cut off.
THEOREM TypeCorrect == Spec => []TypeOK
BY InitType, StepType, PTL DEF Spec

-----------------------------------------------------------------------------
(* The last element of a kind among the first n of a queue. *)

None(q, n, k) == \A i \in 1 .. n : q[i].kind # k

LastIn(q, n, k, S) == \E i \in 1 .. n : q[i] \in S /\ \A j \in i + 1 .. n : q[j].kind # k

LEMMA AppendPlaces ==
  ASSUME NEW T, NEW q \in Seq(T), NEW e \in T
  PROVE  /\ Append(q, e) \in Seq(T) /\ Len(q) \in Nat /\ Len(Append(q, e)) = Len(q) + 1
         /\ \A i \in 1 .. Len(q) : Append(q, e)[i] = q[i]
         /\ Append(q, e)[Len(q) + 1] = e
BY AppendProperties

LEMMA TailPlaces ==
  ASSUME NEW T, NEW q \in Seq(T), q # <<>>
  PROVE  /\ Tail(q) \in Seq(T) /\ Len(Tail(q)) \in Nat /\ Len(q) = Len(Tail(q)) + 1
         /\ \A i \in 1 .. Len(Tail(q)) : Tail(q)[i] = q[i + 1]
         /\ Head(q) = q[1] /\ Head(q) \in T
BY HeadTailProperties

\* What is appended changes nothing about those before it.
LEMMA Extended ==
  ASSUME NEW T, NEW q \in Seq(T), NEW e \in T, NEW n \in 0 .. Len(q), NEW k, NEW S
  PROVE  /\ None(Append(q, e), n, k) <=> None(q, n, k)
         /\ LastIn(Append(q, e), n, k, S) <=> LastIn(q, n, k, S)
<1>1. Len(q) \in Nat /\ \A i \in 1 .. n : i \in 1 .. Len(q) /\ Append(q, e)[i] = q[i]
  BY AppendPlaces
<1>2. \A i \in 1 .. n : \A j \in i + 1 .. n : j \in 1 .. n
  OBVIOUS
<1> QED BY <1>1, <1>2 DEF None, LastIn

\* One place further.
LEMMA Counted ==
  ASSUME NEW q, NEW n \in Nat, NEW k, NEW S
  PROVE  /\ None(q, n + 1, k) <=> None(q, n, k) /\ q[n + 1].kind # k
         /\ q[n + 1] \in S => LastIn(q, n + 1, k, S)
         /\ q[n + 1].kind # k /\ LastIn(q, n, k, S) => LastIn(q, n + 1, k, S)
<1>1. \A i : i \in 1 .. n + 1 <=> i \in 1 .. n \/ i = n + 1
  OBVIOUS
<1>2. \A i \in 1 .. n : \A j : j \in i + 1 .. n + 1 <=> j \in i + 1 .. n \/ j = n + 1
  OBVIOUS
<1>3. \A j : j \notin (n + 1) + 1 .. n + 1
  OBVIOUS
<1>4. n + 1 \in 1 .. n + 1
  OBVIOUS
<1>a. None(q, n + 1, k) <=> None(q, n, k) /\ q[n + 1].kind # k
  BY <1>1 DEF None
<1>b. q[n + 1] \in S => LastIn(q, n + 1, k, S)
  BY <1>3, <1>4 DEF LastIn
<1>c. ASSUME q[n + 1].kind # k, LastIn(q, n, k, S) PROVE LastIn(q, n + 1, k, S)
  BY <1>1, <1>2, <1>c DEF LastIn
<1> QED BY <1>a, <1>b, <1>c

\* The first is taken.
LEMMA Shifted ==
  ASSUME NEW T, NEW q \in Seq(T), q # <<>>, NEW n \in 0 .. Len(Tail(q)), NEW k, NEW S
  PROVE  /\ None(q, n + 1, k) => Head(q).kind # k /\ None(Tail(q), n, k)
         /\ LastIn(q, n + 1, k, S) =>
              \/ LastIn(Tail(q), n, k, S)
              \/ Head(q) \in S /\ None(Tail(q), n, k)
<1>1. /\ Len(Tail(q)) \in Nat /\ Head(q) = q[1] /\ n \in Nat
      /\ \A i \in 1 .. n : i + 1 \in 1 .. n + 1 /\ Tail(q)[i] = q[i + 1]
  BY TailPlaces
<1>2. 1 \in 1 .. n + 1
  BY <1>1
<1>a. ASSUME None(q, n + 1, k) PROVE Head(q).kind # k /\ None(Tail(q), n, k)
  BY <1>1, <1>2, <1>a DEF None
<1>b. ASSUME LastIn(q, n + 1, k, S)
      PROVE  LastIn(Tail(q), n, k, S) \/ (Head(q) \in S /\ None(Tail(q), n, k))
  <2>1. PICK i \in 1 .. n + 1 : q[i] \in S /\ \A j \in i + 1 .. n + 1 : q[j].kind # k
    BY <1>b DEF LastIn
  <2>2. CASE i = 1
    <3>1. \A j \in 1 .. n : Tail(q)[j].kind # k
      <4> SUFFICES ASSUME NEW j \in 1 .. n PROVE Tail(q)[j].kind # k
        OBVIOUS
      <4>1. j + 1 \in i + 1 .. n + 1 BY <1>1, <2>2
      <4> QED BY <1>1, <2>1, <4>1
    <3> QED BY <1>1, <2>1, <2>2, <3>1 DEF None
  <2>3. CASE i # 1
    <3>1. i - 1 \in 1 .. n /\ (i - 1) + 1 = i BY <1>1, <2>3
    <3>2. Tail(q)[i - 1] \in S BY <1>1, <2>1, <3>1
    <3>3. \A j \in (i - 1) + 1 .. n : Tail(q)[j].kind # k
      <4> SUFFICES ASSUME NEW j \in i .. n PROVE Tail(q)[j].kind # k
        BY <3>1
      <4>1. j + 1 \in i + 1 .. n + 1 /\ j \in 1 .. n BY <1>1
      <4> QED BY <1>1, <2>1, <4>1
    <3> QED BY <3>1, <3>2, <3>3 DEF LastIn
  <2> QED BY <2>2, <2>3
<1> QED BY <1>a, <1>b

\* The whole queue, with an element of another kind appended.
LEMMA Queued ==
  ASSUME NEW T, NEW q \in Seq(T), NEW e \in T, NEW k, NEW S, e.kind # k
  PROVE  /\ None(q, Len(q), k) => None(Append(q, e), Len(Append(q, e)), k)
         /\ LastIn(q, Len(q), k, S) => LastIn(Append(q, e), Len(Append(q, e)), k, S)
<1> DEFINE p == Append(q, e)
<1>1. Len(q) \in Nat /\ Len(p) = Len(q) + 1 /\ p[Len(q) + 1] = e
  BY AppendPlaces
<1>2. Len(q) \in 0 .. Len(q) BY <1>1
<1>3. /\ None(p, Len(q), k) <=> None(q, Len(q), k)
      /\ LastIn(p, Len(q), k, S) <=> LastIn(q, Len(q), k, S)
  BY <1>2, Extended
<1> HIDE DEF p
<1>4. /\ None(p, Len(q) + 1, k) <=> None(p, Len(q), k) /\ p[Len(q) + 1].kind # k
      /\ p[Len(q) + 1].kind # k /\ LastIn(p, Len(q), k, S) => LastIn(p, Len(q) + 1, k, S)
  BY <1>1, Counted
<1>5. /\ None(q, Len(q), k) => None(p, Len(p), k)
      /\ LastIn(q, Len(q), k, S) => LastIn(p, Len(p), k, S)
  BY <1>1, <1>3, <1>4
<1> QED BY <1>5 DEF p

\* The whole queue, with its first element taken.
LEMMA Taken ==
  ASSUME NEW T, NEW q \in Seq(T), q # <<>>, NEW k, NEW S
  PROVE  /\ None(q, Len(q), k) => Head(q).kind # k /\ None(Tail(q), Len(Tail(q)), k)
         /\ LastIn(q, Len(q), k, S) =>
              \/ LastIn(Tail(q), Len(Tail(q)), k, S)
              \/ Head(q) \in S /\ None(Tail(q), Len(Tail(q)), k)
<1>1. Len(Tail(q)) \in 0 .. Len(Tail(q)) /\ Len(q) = Len(Tail(q)) + 1
  BY TailPlaces
<1> QED BY <1>1, Shifted

-----------------------------------------------------------------------------
(* The last podcast tapped is the last one that is listed.                 *)

\* The answers that list the episodes of f, or that it has none.
Listings(f) == {r \in Answer : r.kind = "FeedBrowse" /\ r.asked = f /\ r.arg \in {f, NoFav}}

\* An answer holds what was asked for.
ListingsMatch ==
  \A i \in 1 .. Len(replies) :
    replies[i].kind = "FeedBrowse" => replies[i] \in Listings(replies[i].asked)

\* No browse is queued behind what is at the dispatcher or answered, and the
\* last one of those, or what is listed if there is none, is of f.
Served(f) ==
  \/ job = <<Browse(f)>>
  \/ /\ None(job, Len(job), "BrowseFeed")
     /\ \/ LastIn(replies, Len(replies), "FeedBrowse", Listings(f))
        \/ None(replies, Len(replies), "FeedBrowse") /\ episodes \in {f, NoFav}

BrowseStands ==
  ~browse_lost =>
    \/ LastIn(cmds, Len(cmds), "BrowseFeed", {Browse(expanded)})
    \/ None(cmds, Len(cmds), "BrowseFeed") /\ Served(expanded)

BrowseInv == TypeOK /\ ListingsMatch /\ BrowseStands

LEMMA EmptyHasNone == \A k : None(<<>>, Len(<<>>), k)
BY EmptySeq DEF None

LEMMA BrowseInit == Init => BrowseInv
<1> SUFFICES ASSUME Init PROVE BrowseInv
  OBVIOUS
<1>1. Len(replies) = 0 /\ cmds = <<>> /\ job = <<>> /\ replies = <<>>
  BY EmptySeq DEF Init
<1>2. ListingsMatch BY <1>1 DEF ListingsMatch
<1>3. BrowseStands
  BY <1>1, EmptyHasNone DEF BrowseStands, Served, Init
<1> QED BY <1>2, <1>3, InitType DEF BrowseInv

\* A command that is sent changes nothing, unless it is a browse.
LEMMA SendKeepsBrowse ==
  ASSUME BrowseInv, NEW c \in Command, c.kind # "BrowseFeed", TrySend(c),
         UNCHANGED <<expanded, episodes, replies, job, browse_lost>>
  PROVE  ListingsMatch' /\ BrowseStands'
<1> USE DEF BrowseInv
<1>1. ListingsMatch' BY DEF ListingsMatch
<1>2. cmds \in Seq(Command) /\ Len(cmds) \in Nat BY DEF TypeOK
<1>3. CASE Room
  <2>1. cmds' = Append(cmds, c) BY <1>3 DEF TrySend
  <2>4. LastIn(cmds, Len(cmds), "BrowseFeed", {Browse(expanded)})
          => LastIn(cmds', Len(cmds'), "BrowseFeed", {Browse(expanded)})
    BY <1>2, <2>1, Queued
  <2>5. None(cmds, Len(cmds), "BrowseFeed") => None(cmds', Len(cmds'), "BrowseFeed")
    BY <1>2, <2>1, Queued
  <2>6. Served(expanded) => Served(expanded)' BY DEF Served
  <2>7. expanded' = expanded /\ browse_lost' = browse_lost OBVIOUS
  <2> QED BY <1>1, <2>4, <2>5, <2>6, <2>7 DEF BrowseStands
<1>4. CASE ~Room
  <2>1. cmds' = cmds BY <1>4 DEF TrySend
  <2> QED BY <1>1, <2>1 DEF BrowseStands, Served
<1> QED BY <1>3, <1>4

LEMMA TapFeedBrowse ==
  ASSUME BrowseInv, NEW f \in Feed, TapFeed(f)
  PROVE  ListingsMatch' /\ BrowseStands'
<1> USE DEF BrowseInv
<1>1. ListingsMatch' BY DEF ListingsMatch, TapFeed
<1>2. cmds \in Seq(Command) /\ Len(cmds) \in Nat /\ Browse(f) \in Command
  BY CommandType DEF TypeOK
<1>3. ASSUME Room PROVE LastIn(cmds, Len(cmds), "BrowseFeed", {Browse(expanded)})'
  <2>1. cmds' = Append(cmds, Browse(f)) /\ expanded' = f BY <1>3 DEF TapFeed, TrySend
  <2>2. Len(cmds') = Len(cmds) + 1 /\ cmds'[Len(cmds) + 1] = Browse(f)
    BY <1>2, <2>1, AppendPlaces
  <2>3. cmds'[Len(cmds) + 1] \in {Browse(expanded')} BY <2>1, <2>2
  <2>4. LastIn(cmds', Len(cmds) + 1, "BrowseFeed", {Browse(expanded')})
    BY <1>2, <2>3, Counted
  <2> QED BY <2>2, <2>4
<1> QED BY <1>1, <1>3 DEF BrowseStands, TapFeed

\* A reply that main has taken, of another kind.
LEMMA TakesKeepsBrowse ==
  ASSUME BrowseInv, NEW kind, Takes(kind), kind # "FeedBrowse",
         UNCHANGED <<expanded, episodes, cmds, job, browse_lost>>
  PROVE  ListingsMatch' /\ BrowseStands'
<1> USE DEF BrowseInv
<1>1. /\ replies \in Seq(Answer) /\ replies # <<>> /\ replies' = Tail(replies)
      /\ Head(replies).kind = kind
  BY DEF TypeOK, Takes
<1>2. /\ Len(replies') \in Nat /\ Len(replies) = Len(replies') + 1
      /\ \A i \in 1 .. Len(replies') : replies'[i] = replies[i + 1]
  BY <1>1, TailPlaces
<1>3. \A i \in 1 .. Len(replies') : i + 1 \in 1 .. Len(replies) BY <1>2
<1>4. ListingsMatch' BY <1>2, <1>3 DEF ListingsMatch
<1>6. \A r \in Listings(expanded) : r.kind = "FeedBrowse" BY DEF Listings
<1>7. LastIn(replies, Len(replies), "FeedBrowse", Listings(expanded))
        => LastIn(replies', Len(replies'), "FeedBrowse", Listings(expanded))
  BY <1>1, <1>6, Taken
<1>8. None(replies, Len(replies), "FeedBrowse") => None(replies', Len(replies'), "FeedBrowse")
  BY <1>1, Taken
<1>9. Served(expanded) => Served(expanded)' BY <1>7, <1>8 DEF Served
<1> QED BY <1>4, <1>9 DEF BrowseStands

LEMMA FeedBrowseBrowse ==
  ASSUME BrowseInv, FeedBrowse
  PROVE  ListingsMatch' /\ BrowseStands'
<1> USE DEF BrowseInv
<1>1. /\ replies \in Seq(Answer) /\ replies # <<>> /\ replies' = Tail(replies)
      /\ Head(replies).kind = "FeedBrowse" /\ episodes' = Head(replies).arg
      /\ UNCHANGED <<expanded, cmds, job, browse_lost>>
  BY DEF TypeOK, FeedBrowse, Takes, history
<1>2. /\ Len(replies') \in Nat /\ Len(replies) = Len(replies') + 1
      /\ \A i \in 1 .. Len(replies') : replies'[i] = replies[i + 1]
  BY <1>1, TailPlaces
<1>3. \A i \in 1 .. Len(replies') : i + 1 \in 1 .. Len(replies) BY <1>2
<1>4. ListingsMatch' BY <1>2, <1>3 DEF ListingsMatch
<1>6. \A r \in Listings(expanded) : r.arg \in {expanded, NoFav} BY DEF Listings
<1>7. LastIn(replies, Len(replies), "FeedBrowse", Listings(expanded))
        => \/ LastIn(replies', Len(replies'), "FeedBrowse", Listings(expanded))
           \/ /\ None(replies', Len(replies'), "FeedBrowse")
              /\ episodes' \in {expanded, NoFav}
  BY <1>1, <1>6, Taken
<1>8. ~None(replies, Len(replies), "FeedBrowse")
  BY <1>1, Taken
<1>9. Served(expanded) => Served(expanded)' BY <1>1, <1>7, <1>8 DEF Served
<1> QED BY <1>1, <1>4, <1>9 DEF BrowseStands

LEMMA ReceiveBrowse ==
  ASSUME BrowseInv, Receive
  PROVE  ListingsMatch' /\ BrowseStands'
<1> USE DEF BrowseInv
<1>1. /\ cmds \in Seq(Command) /\ cmds # <<>> /\ cmds' = Tail(cmds) /\ job = <<>>
      /\ job' = <<Head(cmds)>>
      /\ UNCHANGED <<expanded, episodes, replies, browse_lost>>
  BY DEF TypeOK, Receive, panel, history
<1>2. Len(cmds') \in Nat /\ Len(cmds) = Len(cmds') + 1 /\ Head(cmds) \in Command
  BY <1>1, TailPlaces
<1>4. LastIn(cmds, Len(cmds), "BrowseFeed", {Browse(expanded)})
        => \/ LastIn(cmds', Len(cmds'), "BrowseFeed", {Browse(expanded)})
           \/ job' = <<Browse(expanded)>> /\ None(cmds', Len(cmds'), "BrowseFeed")
  BY <1>1, Taken
<1>5. None(cmds, Len(cmds), "BrowseFeed")
        => None(cmds', Len(cmds'), "BrowseFeed") /\ Head(cmds).kind # "BrowseFeed"
  BY <1>1, Taken
<1>6. Head(cmds).kind # "BrowseFeed" => None(job', Len(job'), "BrowseFeed")
  <2>1. Len(job') = 1 /\ job'[1] = Head(cmds) BY <1>1, <1>2
  <2> QED BY <2>1 DEF None
<1>7. Head(cmds).kind # "BrowseFeed" /\ Served(expanded) => Served(expanded)'
  <2>1. job # <<Browse(expanded)>> BY <1>1
  <2> QED BY <1>1, <1>6, <2>1 DEF Served
<1>8. ListingsMatch' BY <1>1 DEF ListingsMatch
<1>9. job' = <<Browse(expanded)>> => Served(expanded)' BY <1>1 DEF Served
<1> QED BY <1>1, <1>4, <1>5, <1>7, <1>8, <1>9 DEF BrowseStands

\* A command of another kind is done, with an answer or without.
LEMMA DoneKeepsBrowse ==
  ASSUME BrowseInv, job # <<>>, Job.kind # "BrowseFeed", Done,
         UNCHANGED <<expanded, episodes, cmds, browse_lost>>,
         \/ UNCHANGED replies
         \/ \E r \in Answer : r.kind # "FeedBrowse" /\ Reply(r)
  PROVE  ListingsMatch' /\ BrowseStands'
<1> USE DEF BrowseInv
<1>1. replies \in Seq(Answer) /\ Len(replies) \in Nat BY DEF TypeOK
<1>2. job' = <<>> BY DEF Done
<1>3. Served(expanded) =>
        \/ LastIn(replies, Len(replies), "FeedBrowse", Listings(expanded))
        \/ None(replies, Len(replies), "FeedBrowse") /\ episodes \in {expanded, NoFav}
  <2>1. job # <<Browse(expanded)>> BY DEF Job, Browse
  <2> QED BY <2>1 DEF Served
<1>4. CASE UNCHANGED replies
  <2>1. ListingsMatch' BY <1>4 DEF ListingsMatch
  <2>2. Served(expanded) => Served(expanded)' BY <1>2, <1>3, <1>4, EmptyHasNone DEF Served
  <2> QED BY <2>1, <2>2 DEF BrowseStands
<1>5. ASSUME NEW r \in Answer, r.kind # "FeedBrowse", Reply(r)
      PROVE  ListingsMatch' /\ BrowseStands'
  <2>1. replies' = Append(replies, r) BY <1>5 DEF Reply
  <2>2. /\ Len(replies') = Len(replies) + 1 /\ replies'[Len(replies) + 1] = r
        /\ \A i \in 1 .. Len(replies) : replies'[i] = replies[i]
    BY <1>1, <1>5, <2>1, AppendPlaces
  <2>3. \A i \in 1 .. Len(replies') : i \in 1 .. Len(replies) \/ i = Len(replies) + 1
    BY <1>1, <2>2
  <2>4. ListingsMatch' BY <1>5, <2>2, <2>3 DEF ListingsMatch
  <2>6. LastIn(replies, Len(replies), "FeedBrowse", Listings(expanded))
          => LastIn(replies', Len(replies'), "FeedBrowse", Listings(expanded))
    BY <1>1, <1>5, <2>1, Queued
  <2>7. None(replies, Len(replies), "FeedBrowse") => None(replies', Len(replies'), "FeedBrowse")
    BY <1>1, <1>5, <2>1, Queued
  <2>8. Served(expanded) => Served(expanded)'
    BY <1>2, <1>3, <2>6, <2>7, EmptyHasNone DEF Served
  <2> QED BY <2>4, <2>8 DEF BrowseStands
<1> QED BY <1>4, <1>5

LEMMA BrowseFeedBrowse ==
  ASSUME BrowseInv, BrowseFeed
  PROVE  ListingsMatch' /\ BrowseStands'
<1> USE DEF BrowseInv
<1>1. /\ replies \in Seq(Answer) /\ Len(replies) \in Nat /\ job' = <<>>
      /\ UNCHANGED <<expanded, episodes, cmds, browse_lost>>
  BY DEF TypeOK, BrowseFeed, Done, panel, history
<1>2. Job.arg \in Feed /\ Job = Browse(Job.arg) /\ job = <<Job>>
  BY JobType, CommandArg DEF BrowseFeed, At
<1>3. PICK found \in {Job.arg, NoFav} :
        Reply([kind |-> "FeedBrowse", arg |-> found, asked |-> Job.arg])
  BY DEF BrowseFeed
<1> DEFINE r == [kind |-> "FeedBrowse", arg |-> found, asked |-> Job.arg]
<1>4. r \in Answer /\ r \in Listings(Job.arg) /\ r.asked = Job.arg
  BY <1>2, AnswerType DEF Listings
<1>5. replies' = Append(replies, r) BY <1>3 DEF Reply
<1> HIDE DEF r
<1>6. /\ Len(replies') = Len(replies) + 1 /\ replies'[Len(replies) + 1] = r
      /\ \A i \in 1 .. Len(replies) : replies'[i] = replies[i]
  BY <1>1, <1>4, <1>5, AppendPlaces
<1>7. \A i \in 1 .. Len(replies') : i \in 1 .. Len(replies) \/ i = Len(replies) + 1
  BY <1>1, <1>6
<1>8. ListingsMatch' BY <1>4, <1>6, <1>7 DEF ListingsMatch
<1>9. Served(expanded) => Served(expanded)'
  <2>1. ASSUME Served(expanded) PROVE Job.arg = expanded
    <3>1. ~None(job, Len(job), "BrowseFeed")
      <4>1. Len(job) = 1 /\ job[1].kind = "BrowseFeed" BY <1>2 DEF Browse
      <4> QED BY <4>1 DEF None
    <3>2. job = <<Browse(expanded)>> BY <2>1, <3>1 DEF Served
    <3> QED BY <1>2, <3>2 DEF Browse
  <2>2. LastIn(replies', Len(replies) + 1, "FeedBrowse", Listings(Job.arg))
    BY <1>1, <1>4, <1>6, Counted
  <2> QED BY <1>1, <1>6, <2>1, <2>2, EmptyHasNone DEF Served
<1> QED BY <1>1, <1>8, <1>9 DEF BrowseStands

LEMMA BrowseStep == BrowseInv /\ [Next]_vars => BrowseInv'
<1> SUFFICES ASSUME BrowseInv, [Next]_vars PROVE ListingsMatch' /\ BrowseStands'
  BY StepType DEF BrowseInv
<1>t. TypeOK BY DEF BrowseInv
<1>k. \A m : Call(m).kind # "BrowseFeed"
  BY DEF Call
<1>1. CASE Tap
  <2>1. ASSUME NEW f \in Fav, TapPlay(f) PROVE ListingsMatch' /\ BrowseStands'
    <3>1. PlayUri(f) \in Command /\ PlayUri(f).kind # "BrowseFeed"
      BY CommandType DEF PlayUri
    <3> QED BY <2>1, <3>1, SendKeepsBrowse DEF TapPlay
  <2>2. CASE FavoriteTapped
    BY <2>1, <2>2, TapFeedBrowse DEF FavoriteTapped
  <2>3. CASE EpisodeTapped
    <3>1. episodes \in Fav BY <1>t, <2>3 DEF EpisodeTapped, TypeOK, Feed
    <3> QED BY <2>1, <2>3, <3>1 DEF EpisodeTapped
  <2>4. CASE TransportTapped
    <3>1. PICK cmd \in Control :
            \E m \in ResolveTransport(cmd, Caps(now_playing)) : TrySend(Call(m))
      BY <2>4 DEF TransportTapped
    <3>2. PICK m \in Method : TrySend(Call(m))
      BY <3>1, CapsType, ControlAssumption
    <3>3. UNCHANGED <<expanded, episodes, replies, job, browse_lost>>
      BY <2>4 DEF TransportTapped, panel, history
    <3> QED BY <1>k, <3>2, <3>3, CommandType, SendKeepsBrowse
  <2> QED BY <1>1, <2>2, <2>3, <2>4 DEF Tap
<1>2. CASE ClockTick
  <2>1. Poll \in Command /\ Poll.kind # "BrowseFeed" BY CommandType DEF Poll
  <2> QED BY <1>2, <2>1, SendKeepsBrowse DEF ClockTick, PushMediaToUi, history
<1>3. CASE DispatchReply
  <2>1. CASE MopidyState
    BY <2>1, TakesKeepsBrowse DEF MopidyState, history
  <2>2. CASE CallResult
    BY <2>2, TakesKeepsBrowse DEF CallResult, panel, history
  <2> QED BY <1>3, <2>1, <2>2, FeedBrowseBrowse DEF DispatchReply
<1>4. CASE Receive BY <1>4, ReceiveBrowse
<1>5. CASE Work
  <2>1. ASSUME NEW state \in PlayerState, AnswerPoll(state)
        PROVE  ListingsMatch' /\ BrowseStands'
    <3>1. [kind |-> "MopidyState", arg |-> state] \in Answer BY AnswerType
    <3> QED BY <2>1, <3>1, DoneKeepsBrowse DEF AnswerPoll, At, panel, history
  <2>2. CASE PollAnswered \/ PollFails
    BY <1>t, <2>1, <2>2 DEF PollAnswered, PollFails, TypeOK, PlayerState
  <2>3. CASE CallMopidy
    <3>1. [kind |-> "CallResult", arg |-> NoFav] \in Answer BY AnswerType
    <3> QED BY <2>3, <3>1, DoneKeepsBrowse DEF CallMopidy, At, panel, history
  <2>4. CASE PlayRefused \/ AddFails \/ PlaybackPlay \/ PlayFails
    BY <2>4, DoneKeepsBrowse
    DEF PlayRefused, AddFails, PlaybackPlay, PlayFails, At, panel, history
  <2>5. CASE TracklistClear \/ TracklistAdd
    BY <2>5 DEF TracklistClear, TracklistAdd, panel, history,
                BrowseInv, ListingsMatch, BrowseStands, Served
  <2> QED BY <1>5, <2>2, <2>3, <2>4, <2>5, BrowseFeedBrowse DEF Work
<1>6. CASE BufferingDeadline \/ Hang \/ PlayerStops \/ UNCHANGED vars
  BY <1>6 DEF BufferingDeadline, Hang, PlayerStops, vars, panel, dispatcher, history,
              BrowseInv, ListingsMatch, BrowseStands, Served
<1>7. CASE Restart
  <2>1. /\ cmds' = <<>> /\ job' = <<>> /\ replies' = <<>> /\ episodes' = NoFav
    BY <1>7 DEF Restart
  <2>2. Len(replies') = 0 BY <2>1, EmptySeq
  <2>3. ListingsMatch' BY <2>2 DEF ListingsMatch
  <2> QED BY <2>1, <2>3, EmptyHasNone DEF BrowseStands, Served
<1> QED BY <1>1, <1>2, <1>3, <1>4, <1>5, <1>6, <1>7 DEF Next

\* The pipeline, place by place.
LEMMA Places ==
  ASSUME TypeOK
  PROVE  LET l == Len(replies)
             m == Len(replies) + Len(job)
         IN /\ l \in Nat /\ Len(job) \in Nat /\ Len(cmds) \in Nat
            /\ Len(Pipeline) = m + Len(cmds)
            /\ \A i \in 1 .. l :
                 Pipeline[i] = IF replies[i].kind = "FeedBrowse" THEN Browse(replies[i].asked)
                               ELSE Poll
            /\ \A i \in 1 .. Len(job) : Pipeline[l + i] = job[i]
            /\ \A i \in 1 .. Len(cmds) : Pipeline[m + i] = cmds[i]
<1> DEFINE asked(r) == IF r.kind = "FeedBrowse" THEN Browse(r.asked) ELSE Poll
           a == [i \in 1 .. Len(replies) |-> asked(replies[i])]
           b == a \o job
<1>1. /\ replies \in Seq(Answer) /\ job \in Seq(Command) /\ cmds \in Seq(Command)
      /\ Len(replies) \in Nat /\ Len(job) \in Nat /\ Len(cmds) \in Nat
  BY DEF TypeOK
<1>2. \A i \in 1 .. Len(replies) : asked(replies[i]) \in Command
  BY <1>1, AnswerArg, CommandType
<1>p. Pipeline = b \o cmds BY DEF Pipeline
<1> HIDE DEF asked
<1>3. a \in Seq(Command) /\ Len(a) = Len(replies)
      /\ \A i \in 1 .. Len(replies) : a[i] = asked(replies[i])
  BY <1>1, <1>2
<1> HIDE DEF a
<1>4. b \in Seq(Command) /\ Len(b) = Len(a) + Len(job)
      /\ (\A i \in 1 .. Len(a) : b[i] = a[i])
      /\ \A i \in 1 .. Len(job) : b[Len(a) + i] = job[i]
  <2>1. /\ b \in Seq(Command) /\ Len(b) = Len(a) + Len(job)
        /\ \A i \in 1 .. Len(a) + Len(job) : b[i] = IF i <= Len(a) THEN a[i] ELSE job[i - Len(a)]
    BY <1>1, <1>3, ConcatProperties
  <2> HIDE DEF b
  <2>2. \A i \in 1 .. Len(a) : i \in 1 .. Len(a) + Len(job) /\ i <= Len(a)
    BY <1>1, <1>3
  <2>3. \A i \in 1 .. Len(job) :
          /\ Len(a) + i \in 1 .. Len(a) + Len(job)
          /\ ~(Len(a) + i <= Len(a)) /\ (Len(a) + i) - Len(a) = i
    BY <1>1, <1>3
  <2> QED BY <2>1, <2>2, <2>3
<1> HIDE DEF b
<1>s. b \in Seq(Command) /\ cmds \in Seq(Command)
  BY <1>1, <1>4
<1>5. Len(b \o cmds) = Len(b) + Len(cmds)
      /\ (\A i \in 1 .. Len(b) : (b \o cmds)[i] = b[i])
      /\ \A i \in 1 .. Len(cmds) : (b \o cmds)[Len(b) + i] = cmds[i]
  <2>1. /\ Len(b \o cmds) = Len(b) + Len(cmds)
        /\ \A i \in 1 .. Len(b) + Len(cmds) :
             (b \o cmds)[i] = IF i <= Len(b) THEN b[i] ELSE cmds[i - Len(b)]
    BY ONLY <1>s, ConcatProperties
  <2>2. Len(b) \in Nat BY <1>1, <1>3, <1>4
  <2>3. \A i \in 1 .. Len(b) : i \in 1 .. Len(b) + Len(cmds) /\ i <= Len(b)
    BY <1>1, <2>2
  <2>4. \A i \in 1 .. Len(cmds) :
          /\ Len(b) + i \in 1 .. Len(b) + Len(cmds)
          /\ ~(Len(b) + i <= Len(b)) /\ (Len(b) + i) - Len(b) = i
    BY <1>1, <2>2
  <2> QED BY <2>1, <2>3, <2>4
<1>6. \A i \in 1 .. Len(a) : i \in 1 .. Len(b)
  BY <1>1, <1>3, <1>4
<1>7. \A i \in 1 .. Len(job) : Len(a) + i \in 1 .. Len(b)
  BY <1>1, <1>3, <1>4
<1>8. \A i \in 1 .. Len(replies) : Pipeline[i] = asked(replies[i])
  BY <1>p, <1>3, <1>4, <1>5, <1>6
<1>9. \A i \in 1 .. Len(job) : Pipeline[Len(replies) + i] = job[i]
  BY <1>p, <1>3, <1>4, <1>5, <1>7
<1>10. /\ Len(Pipeline) = (Len(replies) + Len(job)) + Len(cmds)
       /\ \A i \in 1 .. Len(cmds) : Pipeline[(Len(replies) + Len(job)) + i] = cmds[i]
  BY <1>p, <1>3, <1>4, <1>5
<1> QED BY <1>1, <1>8, <1>9, <1>10 DEF asked

LEMMA BrowseInvImplies == BrowseInv => LastBrowseWins
<1> SUFFICES ASSUME BrowseInv, ~browse_lost PROVE LastBrowseWins
  BY DEF LastBrowseWins
<1> DEFINE l == Len(replies)
           m == Len(replies) + Len(job)
           n == Len(replies) + Len(job) + Len(cmds)
<1>1. /\ l \in Nat /\ m \in Nat /\ n \in Nat /\ l <= m /\ m <= n /\ Len(Pipeline) = n
      /\ m = l + Len(job) /\ n = m + Len(cmds) /\ Len(job) \in Nat /\ Len(cmds) \in Nat
      /\ \A i \in 1 .. l :
           Pipeline[i] = IF replies[i].kind = "FeedBrowse" THEN Browse(replies[i].asked) ELSE Poll
      /\ \A i \in 1 .. Len(job) : Pipeline[l + i] = job[i]
      /\ \A i \in 1 .. Len(cmds) : Pipeline[m + i] = cmds[i]
  BY Places DEF BrowseInv
<1> HIDE DEF l, m, n
<1>2. \A i \in 1 .. l : IsBrowse(i) <=> replies[i].kind = "FeedBrowse"
  <2> TAKE i \in 1 .. l
  <2>1. Browse(replies[i].asked).kind = "BrowseFeed" /\ Poll.kind # "BrowseFeed"
    BY DEF Browse, Poll
  <2> QED BY <1>1, <2>1 DEF IsBrowse
<1>3. \A j \in l + 1 .. m : j - l \in 1 .. Len(job) /\ Pipeline[j] = job[j - l]
  <2> TAKE j \in l + 1 .. m
  <2>1. j - l \in 1 .. Len(job) /\ l + (j - l) = j BY <1>1
  <2> QED BY <1>1, <2>1
<1>4. \A j \in m + 1 .. n : j - m \in 1 .. Len(cmds) /\ Pipeline[j] = cmds[j - m]
  <2> TAKE j \in m + 1 .. n
  <2>1. j - m \in 1 .. Len(cmds) /\ m + (j - m) = j BY <1>1
  <2> QED BY <1>1, <2>1
<1>5. CASE LastIn(cmds, Len(cmds), "BrowseFeed", {Browse(expanded)})
  <2>1. PICK i \in 1 .. Len(cmds) :
          /\ cmds[i] = Browse(expanded)
          /\ \A j \in i + 1 .. Len(cmds) : cmds[j].kind # "BrowseFeed"
    BY <1>5 DEF LastIn
  <2>2. m + i \in 1 .. Len(Pipeline) /\ Pipeline[m + i] = Browse(expanded)
    BY <1>1, <2>1
  <2>3. \A j \in (m + i) + 1 .. Len(Pipeline) : ~IsBrowse(j)
    <3> TAKE j \in (m + i) + 1 .. Len(Pipeline)
    <3>1. j \in m + 1 .. n /\ j - m \in i + 1 .. Len(cmds) BY <1>1, <2>1
    <3> QED BY <1>4, <2>1, <3>1 DEF IsBrowse
  <2> QED BY <2>2, <2>3 DEF LastBrowseWins
<1>6. CASE None(cmds, Len(cmds), "BrowseFeed") /\ Served(expanded)
  <2>1. \A j \in m + 1 .. n : ~IsBrowse(j)
    BY <1>4, <1>6 DEF None, IsBrowse
  <2>2. CASE job = <<Browse(expanded)>>
    <3>1. Len(job) = 1 /\ job[1] = Browse(expanded) BY <2>2
    <3>2. m \in 1 .. Len(Pipeline) /\ Pipeline[m] = Browse(expanded)
      BY <1>1, <3>1
    <3> QED BY <1>1, <2>1, <3>2 DEF LastBrowseWins
  <2>3. CASE None(job, Len(job), "BrowseFeed")
    <3>1. \A j \in l + 1 .. n : ~IsBrowse(j)
      <4> TAKE j \in l + 1 .. n
      <4>1. j \in l + 1 .. m \/ j \in m + 1 .. n BY <1>1
      <4> QED BY <1>3, <2>1, <2>3, <4>1 DEF None, IsBrowse
    <3>2. CASE LastIn(replies, Len(replies), "FeedBrowse", Listings(expanded))
      <4>1. PICK i \in 1 .. l :
              /\ replies[i].kind = "FeedBrowse" /\ replies[i].asked = expanded
              /\ \A j \in i + 1 .. l : replies[j].kind # "FeedBrowse"
        BY <3>2 DEF LastIn, Listings, l
      <4>2. i \in 1 .. Len(Pipeline) /\ Pipeline[i] = Browse(expanded)
        BY <1>1, <4>1
      <4>3. \A j \in i + 1 .. Len(Pipeline) : ~IsBrowse(j)
        <5> TAKE j \in i + 1 .. Len(Pipeline)
        <5>1. (j \in i + 1 .. l /\ j \in 1 .. l) \/ j \in l + 1 .. n BY <1>1
        <5> QED BY <1>2, <3>1, <4>1, <5>1
      <4> QED BY <4>2, <4>3 DEF LastBrowseWins
    <3>3. CASE None(replies, Len(replies), "FeedBrowse") /\ episodes \in {expanded, NoFav}
      <4>1. \A i \in 1 .. Len(Pipeline) : ~IsBrowse(i)
        <5> TAKE i \in 1 .. Len(Pipeline)
        <5>1. i \in 1 .. l \/ i \in l + 1 .. n BY <1>1
        <5> QED BY <1>2, <3>1, <3>3, <5>1 DEF None, l
      <4> QED BY <3>3, <4>1 DEF LastBrowseWins
    <3>4. ~(job = <<Browse(expanded)>>) \/ job = <<Browse(expanded)>> OBVIOUS
    <3> QED BY <1>6, <2>2, <3>2, <3>3, <3>4 DEF Served
  <2> QED BY <1>6, <2>2, <2>3 DEF Served
<1> QED BY <1>5, <1>6 DEF BrowseInv, BrowseStands

\* However fast podcasts are tapped, and whatever else is queued, answered or
\* cut off, the last answer is of the one expanded, and once it is in no
\* other's episodes are listed.
THEOREM LastTapIsListed == Spec => []LastBrowseWins
BY BrowseInit, BrowseStep, BrowseInvImplies, PTL DEF Spec

-----------------------------------------------------------------------------
(* A control reaches the source it was resolved for.                       *)

\* What is loaded when the command at the dispatcher is done.
InHand(f) == IF job # <<>> /\ Job.kind = "PlayUri" THEN Job.arg = f ELSE player.source = f

\* What is loaded when the first i of the queue are done too.
LoadedBy(i, f) ==
  \/ LastIn(cmds, i, "PlayUri", {PlayUri(f)})
  \/ None(cmds, i, "PlayUri") /\ InHand(f)

Pausable == (Fav \union {NoFav}) \ Radio

\* As long as no PlayUri is lost, a pause that is queued comes when something
\* other than a radio is loaded, and in the end the favourite on the card is.
PauseStands ==
  ~play_lost =>
    /\ \A i \in 1 .. Len(cmds) :
         cmds[i] = Call("pause") => \E f \in Pausable : LoadedBy(i, f)
    /\ job # <<>> /\ Job = Call("pause") => player.source \in Pausable
    /\ now_playing # NoFav => LoadedBy(Len(cmds), now_playing)

PauseInv == TypeOK /\ PauseStands

LEMMA PauseInit == Init => PauseInv
<1> SUFFICES ASSUME Init PROVE PauseStands
  BY InitType DEF PauseInv
<1>1. Len(cmds) = 0 /\ job = <<>> /\ now_playing = NoFav
  BY EmptySeq DEF Init
<1> QED BY <1>1 DEF PauseStands

\* A pause is resolved for something that can be paused.
LEMMA ResolvedPause ==
  ASSUME NEW f \in Fav \union {NoFav}, NEW cmd, "pause" \in ResolveTransport(cmd, Caps(f))
  PROVE  f # NoFav /\ f \in Pausable
BY DEF ResolveTransport, Caps, Pausable

\* A command that is sent behind the others.
LEMMA SendLoads ==
  ASSUME TypeOK, NEW c \in Command, cmds' = Append(cmds, c), UNCHANGED <<job, player>>
  PROVE  /\ Len(cmds) \in Nat /\ Len(cmds') = Len(cmds) + 1 /\ cmds'[Len(cmds) + 1] = c
         /\ \A i \in 1 .. Len(cmds) : cmds'[i] = cmds[i]
         /\ \A i \in 0 .. Len(cmds), f \in Fav \union {NoFav} : LoadedBy(i, f) => LoadedBy(i, f)'
         /\ c.kind # "PlayUri" =>
              \A f \in Fav \union {NoFav} :
                LoadedBy(Len(cmds), f) => LoadedBy(Len(cmds), f)'
         /\ \A f \in Fav : c = PlayUri(f) => LoadedBy(Len(cmds), f)'
<1>1. cmds \in Seq(Command) BY DEF TypeOK
<1>2. /\ Len(cmds) \in Nat /\ Len(cmds') = Len(cmds) + 1 /\ cmds'[Len(cmds) + 1] = c
      /\ \A i \in 1 .. Len(cmds) : cmds'[i] = cmds[i]
  BY <1>1, AppendPlaces
<1>3. \A f : InHand(f) => InHand(f)'
  BY DEF InHand, Job
<1>4. ASSUME NEW i \in 0 .. Len(cmds), NEW f \in Fav \union {NoFav}, LoadedBy(i, f)
      PROVE  LoadedBy(i, f)'
  <2>1. /\ None(cmds', i, "PlayUri") <=> None(cmds, i, "PlayUri")
        /\ LastIn(cmds', i, "PlayUri", {PlayUri(f)}) <=> LastIn(cmds, i, "PlayUri", {PlayUri(f)})
    BY <1>1, Extended
  <2> QED BY <1>3, <1>4, <2>1 DEF LoadedBy
<1>5. ASSUME NEW f \in Fav \union {NoFav}, c.kind # "PlayUri", LoadedBy(Len(cmds), f)
      PROVE  LoadedBy(Len(cmds), f)'
  <2>1. /\ None(cmds, Len(cmds), "PlayUri") => None(cmds', Len(cmds'), "PlayUri")
        /\ LastIn(cmds, Len(cmds), "PlayUri", {PlayUri(f)})
             => LastIn(cmds', Len(cmds'), "PlayUri", {PlayUri(f)})
    BY <1>1, <1>5, Queued
  <2> QED BY <1>3, <1>5, <2>1 DEF LoadedBy
<1>6. ASSUME NEW f \in Fav, c = PlayUri(f) PROVE LoadedBy(Len(cmds), f)'
  <2>1. cmds'[Len(cmds) + 1] \in {PlayUri(f)} BY <1>2, <1>6
  <2>2. LastIn(cmds', Len(cmds) + 1, "PlayUri", {PlayUri(f)}) BY <1>2, <2>1, Counted
  <2> QED BY <1>2, <2>2 DEF LoadedBy
<1> QED BY <1>2, <1>4, <1>5, <1>6

LEMMA SendKeepsPause ==
  ASSUME PauseInv, NEW c \in Command, c.kind # "PlayUri", TrySend(c),
         c = Call("pause") => now_playing \in Pausable /\ now_playing # NoFav,
         UNCHANGED <<now_playing, job, player, play_lost>>
  PROVE  PauseStands'
<1> USE DEF PauseInv
<1>1. CASE Room
  <2> SUFFICES ASSUME ~play_lost PROVE PauseStands'
    BY DEF PauseStands
  <2>1. cmds' = Append(cmds, c) BY <1>1 DEF TrySend
  <2>2. /\ Len(cmds) \in Nat /\ Len(cmds') = Len(cmds) + 1 /\ cmds'[Len(cmds) + 1] = c
        /\ \A i \in 1 .. Len(cmds) : cmds'[i] = cmds[i]
        /\ \A i \in 0 .. Len(cmds), f \in Fav \union {NoFav} : LoadedBy(i, f) => LoadedBy(i, f)'
        /\ \A f \in Fav \union {NoFav} : LoadedBy(Len(cmds), f) => LoadedBy(Len(cmds), f)'
    BY <2>1, SendLoads
  <2>3. now_playing \in Fav \union {NoFav} BY DEF TypeOK
  <2>4. ASSUME NEW i \in 1 .. Len(cmds'), cmds'[i] = Call("pause")
        PROVE  \E f \in Pausable : LoadedBy(i, f)'
    <3>1. CASE i \in 1 .. Len(cmds)
      <4>1. PICK f \in Pausable : LoadedBy(i, f)
        BY <2>2, <2>4, <3>1 DEF PauseStands
      <4>2. i \in 0 .. Len(cmds) /\ f \in Fav \union {NoFav} BY <2>2, <3>1 DEF Pausable
      <4> QED BY <2>2, <4>1, <4>2
    <3>2. CASE i \notin 1 .. Len(cmds)
      <4>1. i = Len(cmds') /\ c = Call("pause") BY <2>2, <2>4, <3>2
      <4>2. LoadedBy(Len(cmds), now_playing) BY <4>1 DEF PauseStands
      <4> QED BY <2>2, <2>3, <4>1, <4>2
    <3> QED BY <3>1, <3>2
  <2>5. now_playing' # NoFav => LoadedBy(Len(cmds), now_playing)'
    BY <2>2, <2>3 DEF PauseStands, LoadedBy, InHand, Job
  <2>6. job' # <<>> /\ Job' = Call("pause") => player'.source \in Pausable
    BY DEF PauseStands, Job
  <2>7. Pausable' = Pausable BY DEF Pausable, Radio
  <2> QED BY <2>4, <2>5, <2>6, <2>7 DEF PauseStands
<1>2. CASE ~Room
  <2>1. cmds' = cmds BY <1>2 DEF TrySend
  <2> QED BY <2>1 DEF PauseStands, LoadedBy, InHand, Job
<1> QED BY <1>1, <1>2

LEMMA TapPlayPause ==
  ASSUME PauseInv, NEW g \in Fav, TapPlay(g)
  PROVE  PauseStands'
<1> USE DEF PauseInv
<1> SUFFICES ASSUME ~play_lost, Room PROVE PauseStands'
  BY DEF PauseStands, TapPlay
<1>1. /\ cmds' = Append(cmds, PlayUri(g)) /\ now_playing' = g /\ PlayUri(g) \in Command
      /\ UNCHANGED <<job, player>>
  BY CommandType DEF TapPlay, TrySend
<1>2. /\ Len(cmds) \in Nat /\ Len(cmds') = Len(cmds) + 1
      /\ cmds'[Len(cmds) + 1] = PlayUri(g)
      /\ \A i \in 1 .. Len(cmds) : cmds'[i] = cmds[i]
      /\ \A i \in 0 .. Len(cmds), f \in Fav \union {NoFav} : LoadedBy(i, f) => LoadedBy(i, f)'
      /\ LoadedBy(Len(cmds), g)'
  BY <1>1, SendLoads
<1>3. ASSUME NEW i \in 1 .. Len(cmds'), cmds'[i] = Call("pause")
      PROVE  \E f \in Pausable : LoadedBy(i, f)'
  <2>1. i \in 1 .. Len(cmds)
    <3>1. PlayUri(g) # Call("pause") BY DEF PlayUri, Call
    <3> QED BY <1>2, <1>3, <3>1
  <2>2. PICK f \in Pausable : LoadedBy(i, f)
    BY <1>2, <1>3, <2>1 DEF PauseStands
  <2>3. i \in 0 .. Len(cmds) /\ f \in Fav \union {NoFav} BY <1>2, <2>1 DEF Pausable
  <2> QED BY <1>2, <2>2, <2>3
<1>4. job' # <<>> /\ Job' = Call("pause") => player'.source \in Pausable
  BY <1>1 DEF PauseStands, Job
<1>6. Pausable' = Pausable BY DEF Pausable, Radio
<1>7. LoadedBy(Len(cmds), now_playing)'
  BY <1>1, <1>2 DEF LoadedBy, InHand, Job
<1> QED BY <1>3, <1>4, <1>6, <1>7 DEF PauseStands

LEMMA ReceivePause ==
  ASSUME PauseInv, Receive
  PROVE  PauseStands'
<1> USE DEF PauseInv
<1> SUFFICES ASSUME ~play_lost PROVE PauseStands'
  BY DEF PauseStands, Receive, history
<1>1. /\ cmds \in Seq(Command) /\ cmds # <<>> /\ cmds' = Tail(cmds) /\ job = <<>>
      /\ job' = <<Head(cmds)>>
      /\ UNCHANGED <<now_playing, player, play_lost>>
  BY DEF TypeOK, Receive, panel, history
<1>2. /\ Len(cmds') \in Nat /\ Len(cmds) = Len(cmds') + 1
      /\ \A i \in 1 .. Len(cmds') : cmds'[i] = cmds[i + 1]
      /\ Head(cmds) = cmds[1] /\ Head(cmds) \in Command
  BY <1>1, TailPlaces
<1>3. \A f : InHand(f) <=> player.source = f
  BY <1>1 DEF InHand
<1>4. \A f : InHand(f)' <=> IF Head(cmds).kind = "PlayUri" THEN Head(cmds).arg = f
                            ELSE player.source = f
  BY <1>1 DEF InHand, Job
<1>5. ASSUME NEW i \in 0 .. Len(cmds'), NEW f \in Fav \union {NoFav}, LoadedBy(i + 1, f)
      PROVE  LoadedBy(i, f)'
  <2>1. /\ None(cmds, i + 1, "PlayUri")
             => Head(cmds).kind # "PlayUri" /\ None(cmds', i, "PlayUri")
        /\ LastIn(cmds, i + 1, "PlayUri", {PlayUri(f)}) =>
             \/ LastIn(cmds', i, "PlayUri", {PlayUri(f)})
             \/ Head(cmds) \in {PlayUri(f)} /\ None(cmds', i, "PlayUri")
    BY <1>1, Shifted
  <2>2. Head(cmds) \in {PlayUri(f)} => InHand(f)'
    BY <1>4 DEF PlayUri
  <2>3. CASE None(cmds, i + 1, "PlayUri") /\ InHand(f)
    BY <1>3, <1>4, <2>1, <2>3 DEF LoadedBy
  <2>4. CASE LastIn(cmds, i + 1, "PlayUri", {PlayUri(f)})
    BY <2>1, <2>2, <2>4 DEF LoadedBy
  <2> QED BY <1>5, <2>3, <2>4 DEF LoadedBy
<1>6. ASSUME NEW i \in 1 .. Len(cmds'), cmds'[i] = Call("pause")
      PROVE  \E f \in Pausable : LoadedBy(i, f)'
  <2>1. i + 1 \in 1 .. Len(cmds) /\ cmds[i + 1] = Call("pause") /\ i \in 0 .. Len(cmds')
    BY <1>2, <1>6
  <2>2. PICK f \in Pausable : LoadedBy(i + 1, f) BY <2>1 DEF PauseStands
  <2>3. f \in Fav \union {NoFav} BY DEF Pausable
  <2> QED BY <1>5, <2>1, <2>2, <2>3
<1>7. ASSUME Head(cmds) = Call("pause") PROVE player.source \in Pausable
  <2>1. 1 \in 1 .. Len(cmds) /\ 1 \in 1 .. 1 BY <1>2
  <2>2. PICK f \in Pausable : LoadedBy(1, f) BY <1>2, <1>7, <2>1 DEF PauseStands
  <2>3. cmds[1].kind # "PlayUri" BY <1>2, <1>7 DEF Call
  <2>4. ~LastIn(cmds, 1, "PlayUri", {PlayUri(f)})
    <3>1. \A i \in 1 .. 1 : i = 1 OBVIOUS
    <3> QED BY <2>3, <3>1 DEF LastIn, PlayUri
  <2> QED BY <1>3, <2>2, <2>4 DEF LoadedBy
<1>8. now_playing # NoFav => LoadedBy(Len(cmds), now_playing)'
  <2> SUFFICES ASSUME now_playing # NoFav PROVE LoadedBy(Len(cmds), now_playing)'
    OBVIOUS
  <2>1. LoadedBy(Len(cmds') + 1, now_playing) BY <1>2 DEF PauseStands
  <2>2. now_playing \in Fav \union {NoFav} /\ Len(cmds') \in 0 .. Len(cmds')
    BY <1>2 DEF TypeOK
  <2>3. \/ LastIn(cmds', Len(cmds'), "PlayUri", {PlayUri(now_playing)})
        \/ None(cmds', Len(cmds'), "PlayUri") /\ (InHand(now_playing))'
    <3>1. /\ None(cmds, Len(cmds') + 1, "PlayUri")
               => Head(cmds).kind # "PlayUri" /\ None(cmds', Len(cmds'), "PlayUri")
          /\ LastIn(cmds, Len(cmds') + 1, "PlayUri", {PlayUri(now_playing)}) =>
               \/ LastIn(cmds', Len(cmds'), "PlayUri", {PlayUri(now_playing)})
               \/ Head(cmds) \in {PlayUri(now_playing)} /\ None(cmds', Len(cmds'), "PlayUri")
      BY <1>1, <2>2, Shifted
    <3>2. (InHand(now_playing))' <=> IF Head(cmds).kind = "PlayUri"
                                     THEN Head(cmds).arg = now_playing
                                     ELSE player.source = now_playing
      BY <1>1 DEF InHand, Job
    <3>3. Head(cmds) \in {PlayUri(now_playing)} => (InHand(now_playing))'
      BY <3>2 DEF PlayUri
    <3> QED BY <1>3, <2>1, <3>1, <3>2, <3>3 DEF LoadedBy
  <2> QED BY <1>1, <2>3 DEF LoadedBy
<1>9. job' # <<>> /\ Job' = Call("pause") => player'.source \in Pausable
  BY <1>1, <1>7 DEF Job
<1>10. Pausable' = Pausable BY DEF Pausable, Radio
<1> QED BY <1>1, <1>6, <1>8, <1>9, <1>10 DEF PauseStands

\* What is loaded when the command at the dispatcher is done is not disturbed.
LEMMA SamePause ==
  ASSUME PauseInv, UNCHANGED <<cmds, now_playing, play_lost>>,
         \A f \in Fav \union {NoFav} : InHand(f) => InHand(f)',
         job' # <<>> /\ Job' = Call("pause") => job # <<>> /\ Job = Call("pause")
                                                /\ player'.source = player.source
  PROVE  PauseStands'
<1> USE DEF PauseInv
<1> SUFFICES ASSUME ~play_lost PROVE PauseStands'
  BY DEF PauseStands
<1>1. ASSUME NEW i, NEW f \in Fav \union {NoFav}, LoadedBy(i, f) PROVE LoadedBy(i, f)'
  BY <1>1 DEF LoadedBy
<1>2. Pausable' = Pausable /\ Pausable \subseteq Fav \union {NoFav}
  BY DEF Pausable, Radio
<1>3. now_playing # NoFav => LoadedBy(Len(cmds), now_playing)'
  <2>1. now_playing \in Fav \union {NoFav} BY DEF TypeOK
  <2>2. InHand(now_playing) => (InHand(now_playing))'
    <3>1. InHand(now_playing) => (\E f \in Fav \union {NoFav} : f = now_playing /\ InHand(f))
      BY <2>1
    <3> QED BY <2>1 DEF InHand, Job
  <2> QED BY <2>2 DEF PauseStands, LoadedBy
<1> QED BY <1>1, <1>2, <1>3 DEF PauseStands

LEMMA PauseStep == PauseInv /\ [Next]_vars => PauseInv'
<1> SUFFICES ASSUME PauseInv, [Next]_vars PROVE PauseStands'
  BY StepType DEF PauseInv
<1>t. TypeOK BY DEF PauseInv
<1>1. CASE Tap
  <2>1. ASSUME NEW f \in Feed, TapFeed(f) PROVE PauseStands'
    <3>1. Browse(f) \in Command /\ Browse(f).kind # "PlayUri" /\ Browse(f) # Call("pause")
      BY CommandType DEF Browse, Call
    <3> QED BY <2>1, <3>1, SendKeepsPause DEF TapFeed
  <2>2. CASE FavoriteTapped
    BY <2>1, <2>2, TapPlayPause DEF FavoriteTapped
  <2>3. CASE EpisodeTapped
    <3>1. episodes \in Fav BY <1>t, <2>3 DEF EpisodeTapped, TypeOK, Feed
    <3> QED BY <2>3, <3>1, TapPlayPause DEF EpisodeTapped
  <2>4. CASE TransportTapped
    <3>1. PICK cmd \in Control :
            \E m \in ResolveTransport(cmd, Caps(now_playing)) : TrySend(Call(m))
      BY <2>4 DEF TransportTapped
    <3>2. PICK m \in ResolveTransport(cmd, Caps(now_playing)) : TrySend(Call(m))
      BY <3>1
    <3>3. m \in Method BY CapsType, ControlAssumption
    <3>4. UNCHANGED <<now_playing, job, player, play_lost>>
      BY <2>4 DEF TransportTapped, panel, history
    <3>5. m = "pause" => now_playing \in Pausable /\ now_playing # NoFav
      BY <1>t, <3>2, ResolvedPause DEF TypeOK
    <3>6. Call(m) \in Command /\ Call(m).kind # "PlayUri"
          /\ (Call(m) = Call("pause") => m = "pause")
      BY <3>3, CommandType DEF Call
    <3> QED BY <3>2, <3>4, <3>5, <3>6, SendKeepsPause
  <2> QED BY <1>1, <2>2, <2>3, <2>4 DEF Tap
<1>2. CASE ClockTick
  <2>1. Poll \in Command /\ Poll.kind # "PlayUri" /\ Poll # Call("pause")
    BY CommandType DEF Poll, Call
  <2> QED BY <1>2, <2>1, SendKeepsPause DEF ClockTick, PushMediaToUi, history
<1>3. CASE Receive BY <1>3, ReceivePause
<1>4. ASSUME job # <<>>, Job.kind # "PlayUri", Done, player'.source = player.source,
             UNCHANGED <<cmds, now_playing, play_lost>>
      PROVE  PauseStands'
  BY <1>4, SamePause DEF Done, InHand
<1>5. CASE Work
  <2>1. ASSUME NEW state, AnswerPoll(state) PROVE PauseStands'
    BY <1>4, <2>1 DEF AnswerPoll, At, panel, history
  <2>2. CASE PollAnswered \/ PollFails
    BY <2>1, <2>2 DEF PollAnswered, PollFails
  <2>3. CASE BrowseFeed
    BY <1>4, <2>3 DEF BrowseFeed, At, panel, history
  <2>4. CASE CallMopidy
    <3>1. player'.source = player.source
      BY <1>t, <2>4, MovedType DEF CallMopidy, TypeOK
    <3> QED BY <1>4, <2>4, <3>1 DEF CallMopidy, At, panel, history
  <2>5. CASE PlayRefused \/ AddFails \/ PlayFails
    BY <2>5 DEF PlayRefused, AddFails, PlayFails, PauseStands
  <2>6. CASE TracklistClear \/ TracklistAdd
    <3>1. /\ job # <<>> /\ Job.kind = "PlayUri" /\ job' = job
          /\ UNCHANGED <<cmds, now_playing, play_lost>>
      BY <2>6 DEF TracklistClear, TracklistAdd, At, panel, history
    <3>2. Job' = Job /\ Job # Call("pause") BY <3>1 DEF Job, Call
    <3> QED BY <3>1, <3>2, SamePause DEF InHand
  <2>7. CASE PlaybackPlay
    <3>1. /\ job # <<>> /\ Job.kind = "PlayUri" /\ job' = <<>> /\ player'.source = Job.arg
          /\ UNCHANGED <<cmds, now_playing, play_lost>>
      BY <2>7 DEF PlaybackPlay, At, Done, panel, history
    <3> QED BY <3>1, SamePause DEF InHand
  <2> QED BY <1>5, <2>2, <2>3, <2>4, <2>5, <2>6, <2>7 DEF Work
<1>6. CASE BufferingDeadline \/ DispatchReply \/ Hang \/ PlayerStops \/ UNCHANGED vars
  <2>1. /\ UNCHANGED <<cmds, job, now_playing, play_lost>>
        /\ player'.source = player.source
    BY <1>6, <1>t DEF BufferingDeadline, DispatchReply, MopidyState, CallResult, FeedBrowse,
         Hang, PlayerStops, vars, panel, dispatcher, history, TypeOK
  <2>2. Job' = Job BY <2>1 DEF Job
  <2> QED BY <2>1, <2>2, SamePause DEF InHand
<1>7. CASE Restart
  <2>1. Len(cmds') = 0 /\ job' = <<>> /\ now_playing' = NoFav
    BY <1>7, EmptySeq DEF Restart
  <2> QED BY <2>1 DEF PauseStands
<1> QED BY <1>1, <1>2, <1>3, <1>5, <1>6, <1>7 DEF Next

\* A live radio is never sent a pause, unless a PlayUri was lost: by the time a
\* control is served, what it was resolved for is loaded, however many taps,
\* polls and plays are queued before it.
THEOREM RadioIsSpared == Spec => []PauseSparesRadio
<1>1. PauseInv => PauseSparesRadio
  BY DEF PauseInv, PauseStands, PauseSparesRadio, Pausable
<1> QED BY <1>1, PauseInit, PauseStep, PTL DEF Spec

=============================================================================
