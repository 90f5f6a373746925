----------------------------- MODULE MediaPanel -----------------------------
(***************************************************************************)
(* The media panel (media.rs and MediaState, push_media_to_ui and the tap  *)
(* callbacks in main.rs): favourites, the episodes of an expanded podcast, *)
(* tap to play and the transport row, over the dispatcher's Mopidy arms.   *)
(*                                                                         *)
(* Taps change what the panel shows at once and drop their command when    *)
(* the channel is full; the dispatcher plays them one after the other, and *)
(* what the panel shows of the player it learns from a poll each second.   *)
(* A favourite stands for what it plays: a podcast's for its episodes.     *)
(* The player (Mopidy) is external.  Left out: other commands on the same  *)
(* channels (CommandWorker), an alarm that takes the player over           *)
(* (EpisodeFSM), and the quick controls (AlarmClock).  A faulty operator   *)
(* is not used: it stands beside the one it would replace.                 *)
(***************************************************************************)
EXTENDS Naturals, Sequences

CONSTANTS
  Fav,       \* the favourites on screen
  Kind,      \* [Fav -> kind of source]
  NoFav,
  Control,   \* the controls of the transport row that are tapped
  CmdCap, ReplyCap,
  MaxTaps    \* bound: taps while the process runs

Method == {"play", "pause", "stop", "next", "previous"}
SourceKind == {"File", "Spotify", "Radio", "PodcastFeed"}

ASSUME FavAssumption == NoFav \notin Fav /\ Kind \in [Fav -> SourceKind]
ASSUME ControlAssumption == Control \subseteq Method
ASSUME CapAssumption == CmdCap \in Nat \ {0} /\ ReplyCap \in Nat \ {0} /\ MaxTaps \in Nat

Feed == {f \in Fav : Kind[f] = "PodcastFeed"}
Radio == {f \in Fav : Kind[f] = "Radio"}

VARIABLES
  expanded,      \* expanded_feed_id
  episodes,      \* feed_episodes: those of this favourite, or NoFav for none
  now_playing,   \* the favourite on the card; it decides the transport caps
  media_playing, \* the play/pause glyph
  buffering,     \* off, on, or due to end
  cmds, replies, \* the two channels
  job, stage,    \* the command at the dispatcher and how far it is
  player,        \* external: what is loaded, and its state
  browse_lost,   \* history: the last browse found the channel full
  play_lost,     \* history: some PlayUri was dropped or did not load
  taps           \* taps so far

panel == <<expanded, episodes, now_playing, media_playing, buffering>>
dispatcher == <<cmds, replies, job, stage>>
history == <<browse_lost, play_lost>>
vars == <<panel, dispatcher, player, history, taps>>

-----------------------------------------------------------------------------
(* Favourites and the transport. *)

\* TransportCaps::for_source; no caps before something was tapped.
Caps(f) == IF f = NoFav THEN {}
           ELSE IF f \in Radio THEN {"play", "stop"}
           ELSE {"play", "pause", "stop", "next", "previous"}

\* Faulty: a pause is a pause.
ResolvePause(cmd, caps) == IF caps = {} THEN {} ELSE {cmd}
\* resolve_transport: the calls a control turns into; on a radio pause is stop.
ResolveTransport(cmd, caps) ==
  IF cmd \in caps THEN {cmd}
  ELSE IF cmd = "pause" /\ "stop" \in caps THEN {"stop"} ELSE {}

Poll == [kind |-> "GetMopidyState", arg |-> NoFav]
Call(m) == [kind |-> "CallMopidy", arg |-> m]
Browse(f) == [kind |-> "BrowseFeed", arg |-> f]
PlayUri(f) == [kind |-> "PlayUri", arg |-> f]

PlayerState == {"playing", "paused", "stopped"}
Command == {Poll} \union {Call(m) : m \in Method} \union {Browse(f) : f \in Feed}
           \union {PlayUri(f) : f \in Fav}
Answer == [kind : {"MopidyState"}, arg : PlayerState]
          \union [kind : {"FeedBrowse"}, arg : Feed \union {NoFav}, asked : Feed]
          \union {[kind |-> "CallResult", arg |-> NoFav]}

\* Faulty: the channel has no bound.
SendRegardless(c) == cmds' = Append(cmds, c)

Room == Len(cmds) < CmdCap
TrySend(c) == cmds' = IF Room THEN Append(cmds, c) ELSE cmds

-----------------------------------------------------------------------------
(* The panel. *)

\* Faulty: a second tap does not ask again while the first is under way.
TapFeedOnce(f) ==
  /\ expanded' = f
  /\ episodes' = NoFav
  /\ TrySend(IF cmds # <<>> THEN Poll ELSE Browse(f))
  /\ browse_lost' = ~Room
  /\ UNCHANGED <<now_playing, media_playing, buffering, replies, job, stage, player, play_lost>>

TapFeed(f) ==
  /\ expanded' = f
  /\ episodes' = NoFav
  /\ TrySend(Browse(f))
  /\ browse_lost' = ~Room
  /\ UNCHANGED <<now_playing, media_playing, buffering, replies, job, stage, player, play_lost>>

TapPlay(f) ==
  /\ TrySend(PlayUri(f))
  /\ play_lost' = (play_lost \/ ~Room)
  /\ now_playing' = f
  /\ buffering' = "on"
  /\ UNCHANGED <<expanded, episodes, media_playing, replies,
                 job, stage, player, browse_lost>>

FavoriteTapped == \E f \in Fav : IF f \in Feed THEN TapFeed(f) ELSE TapPlay(f)

EpisodeTapped == episodes # NoFav /\ TapPlay(episodes)

TransportTapped ==
  /\ \E cmd \in Control : \E m \in ResolveTransport(cmd, Caps(now_playing)) : TrySend(Call(m))
  /\ UNCHANGED <<panel, replies, job, stage, player, history>>

Tap ==
  /\ taps < MaxTaps /\ taps' = taps + 1
  /\ FavoriteTapped \/ EpisodeTapped \/ TransportTapped

\* Faulty: the spinner has no timeout.
PushWithoutTimeout ==
  /\ UNCHANGED <<expanded, episodes, now_playing, media_playing, buffering>>
PushMediaToUi ==
  /\ buffering' = IF buffering = "due" THEN "off" ELSE buffering
  /\ UNCHANGED <<expanded, episodes, now_playing, media_playing>>

\* The whole second: push, then poll.
ClockTick ==
  /\ PushMediaToUi
  /\ TrySend(Poll)
  /\ UNCHANGED <<taps, replies, job, stage, player, history>>

\* 15 s pass.
BufferingDeadline ==
  /\ buffering = "on"
  /\ buffering' = "due"
  /\ UNCHANGED <<taps, expanded, episodes, now_playing, media_playing, dispatcher,
                 player, history>>

Reflect(state) ==
  /\ media_playing' = (state = "playing")
  /\ buffering' = IF state = "stopped" THEN buffering ELSE "off"

Takes(kind) == replies # <<>> /\ Head(replies).kind = kind /\ replies' = Tail(replies)

MopidyState ==
  /\ Takes("MopidyState")
  /\ Reflect(Head(replies).arg)
  /\ UNCHANGED <<taps, expanded, episodes, now_playing, cmds, job, stage,
                 player, history>>

CallResult ==
  /\ Takes("CallResult")
  /\ UNCHANGED <<taps, panel, cmds, job, stage, player, history>>

FeedBrowse ==
  /\ Takes("FeedBrowse")
  /\ episodes' = Head(replies).arg
  /\ UNCHANGED <<taps, expanded, now_playing, media_playing, buffering, cmds, job, stage, player, history>>

DispatchReply == MopidyState \/ CallResult \/ FeedBrowse

-----------------------------------------------------------------------------
(* The dispatcher: each call may fail, or find no connection; one on which   *)
(* the connection breaks never returns.                                      *)

Job == job[1]
At(kind, s) == job # <<>> /\ Job.kind = kind /\ stage = s
Done == job' = <<>> /\ stage' = "call"
Reply(r) == Len(replies) < ReplyCap /\ replies' = Append(replies, r)

Receive ==
  /\ job = <<>> /\ cmds # <<>>
  /\ job' = <<Head(cmds)>> /\ cmds' = Tail(cmds)
  /\ stage' = IF Head(cmds).kind = "PlayUri" THEN "clear" ELSE "call"
  /\ UNCHANGED <<taps, panel, replies, player, history>>

AnswerPoll(state) ==
  /\ At("GetMopidyState", "call")
  /\ Reply([kind |-> "MopidyState", arg |-> state])
  /\ Done
  /\ UNCHANGED <<taps, panel, cmds, player, history>>
PollAnswered == AnswerPoll(player.state)
PollFails == AnswerPoll("stopped")

BrowseFeed ==
  /\ At("BrowseFeed", "call")
  /\ \E found \in {Job.arg, NoFav} :
       Reply([kind |-> "FeedBrowse", arg |-> found, asked |-> Job.arg])
  /\ Done
  /\ UNCHANGED <<taps, panel, cmds, player, history>>

\* External: what a transport call does to a player that has something loaded.
Moved(p, m) ==
  IF p.source = NoFav THEN p
  ELSE [p EXCEPT !.state = CASE m = "pause" -> IF @ = "playing" THEN "paused" ELSE @
                             [] m = "stop"  -> "stopped"
                             [] m = "play"  -> "playing"
                             [] OTHER       -> @]

CallMopidy ==
  /\ At("CallMopidy", "call")
  /\ player' \in {player, Moved(player, Job.arg)}
  /\ Reply([kind |-> "CallResult", arg |-> NoFav])
  /\ Done
  /\ UNCHANGED <<taps, panel, cmds, history>>

\* PlayUri: clear, add, settle, play; only a failed add stops it.
PlayRefused ==
  /\ At("PlayUri", "clear")
  /\ Done
  /\ play_lost' = TRUE
  /\ UNCHANGED <<taps, panel, cmds, replies, player, browse_lost>>

TracklistClear ==
  /\ At("PlayUri", "clear")
  /\ player' \in {player, [source |-> NoFav, state |-> "stopped"]}
  /\ stage' = "add"
  /\ UNCHANGED <<taps, panel, cmds, replies, job, history>>

TracklistAdd ==
  /\ At("PlayUri", "add")
  /\ stage' = "play"
  /\ UNCHANGED <<taps, panel, cmds, replies, job, player, history>>

AddFails ==
  /\ At("PlayUri", "add")
  /\ Done
  /\ play_lost' = TRUE
  /\ UNCHANGED <<taps, panel, cmds, replies, player, browse_lost>>

PlaybackPlay ==
  /\ At("PlayUri", "play")
  /\ player' = [source |-> Job.arg, state |-> "playing"]
  /\ Done
  /\ UNCHANGED <<taps, panel, cmds, replies, history>>

PlayFails ==
  /\ At("PlayUri", "play")
  /\ Done
  /\ play_lost' = TRUE
  /\ UNCHANGED <<taps, panel, cmds, replies, player, browse_lost>>

Hang ==
  /\ job # <<>> /\ stage # "hung"
  /\ stage' = "hung"
  /\ UNCHANGED <<taps, panel, cmds, replies, job, player, history>>

Work == \/ PollAnswered \/ PollFails \/ BrowseFeed \/ CallMopidy
        \/ PlayRefused \/ TracklistClear \/ TracklistAdd \/ AddFails
        \/ PlaybackPlay \/ PlayFails

-----------------------------------------------------------------------------
(* Around it. *)

\* External: a track or a stream ends.
PlayerStops ==
  /\ player.state = "playing"
  /\ player' = [player EXCEPT !.state = "stopped"]
  /\ UNCHANGED <<taps, panel, dispatcher, history>>

\* The process starts again; the player goes on.
Restart ==
  /\ expanded' = NoFav /\ episodes' = NoFav /\ now_playing' = NoFav
  /\ media_playing' = FALSE /\ buffering' = "off"
  /\ cmds' = <<>> /\ replies' = <<>> /\ job' = <<>> /\ stage' = "call"
  /\ browse_lost' = FALSE /\ play_lost' = FALSE /\ taps' = 0
  /\ UNCHANGED player

Init ==
  /\ expanded = NoFav /\ episodes = NoFav /\ now_playing = NoFav
  /\ media_playing = FALSE /\ buffering = "off"
  /\ cmds = <<>> /\ replies = <<>> /\ job = <<>> /\ stage = "call"
  /\ browse_lost = FALSE /\ play_lost = FALSE /\ taps = 0
  /\ player = [source |-> NoFav, state |-> "stopped"]

Next ==
  \/ Tap \/ ClockTick \/ BufferingDeadline \/ DispatchReply
  \/ Receive \/ Work \/ Hang
  \/ PlayerStops \/ Restart

\* The timers run on the event loop, 15 s pass, and a call that does not hang
\* ends.
Spec ==
  /\ Init /\ [][Next]_vars
  /\ WF_vars(ClockTick) /\ WF_vars(BufferingDeadline) /\ WF_vars(DispatchReply)
  /\ WF_vars(Receive) /\ WF_vars(Work)

-----------------------------------------------------------------------------
(* Properties. *)

\* Every variable keeps its type and each channel its capacity.
TypeOK ==
  /\ expanded \in Feed \union {NoFav} /\ episodes \in Feed \union {NoFav}
  /\ now_playing \in Fav \union {NoFav}
  /\ media_playing \in BOOLEAN /\ buffering \in {"off", "on", "due"}
  /\ cmds \in Seq(Command) /\ Len(cmds) <= CmdCap
  /\ replies \in Seq(Answer) /\ Len(replies) <= ReplyCap
  /\ job \in Seq(Command) /\ Len(job) <= 1
  /\ stage \in {"call", "clear", "add", "play", "hung"}
  /\ player \in [source : Fav \union {NoFav}, state : PlayerState]
  /\ browse_lost \in BOOLEAN /\ play_lost \in BOOLEAN /\ taps \in 0 .. MaxTaps

\* Replies, job and commands in the order in which main sees them answered.
Pipeline ==
  [i \in 1 .. Len(replies) |->
     IF replies[i].kind = "FeedBrowse" THEN Browse(replies[i].asked) ELSE Poll]
  \o job \o cmds
IsBrowse(i) == Pipeline[i].kind = "BrowseFeed"

\* However fast podcasts are tapped, the last answer is of the one expanded, and
\* once it is in no other's episodes are listed, unless the last browse found
\* the channel full (the feed tap, the serial dispatcher, FeedBrowse).
LastBrowseWins ==
  \/ browse_lost
  \/ \E i \in 1 .. Len(Pipeline) :
       Pipeline[i] = Browse(expanded) /\ \A j \in i + 1 .. Len(Pipeline) : ~IsBrowse(j)
  \/ (\A i \in 1 .. Len(Pipeline) : ~IsBrowse(i)) /\ episodes \in {expanded, NoFav}

\* A live radio is never sent a pause, which would resume it late: by the time
\* a control reaches the player, the source it was resolved for is loaded,
\* unless a PlayUri was lost (the caps set by a tap, resolve_transport).
PauseSparesRadio ==
  job # <<>> /\ Job = Call("pause") /\ player.source \in Radio => play_lost

\* The spinner ends, whatever becomes of the PlayUri and its replies: only taps
\* keep it (the 15 s timeout in push_media_to_ui).
SpinnerEnds == []<><<Tap>>_vars \/ []<>(buffering = "off")
=============================================================================
