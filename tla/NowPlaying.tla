----------------------------- MODULE NowPlaying -----------------------------
(***************************************************************************)
(* How a Client shows on its service what is being played.                 *)
(*                                                                         *)
(* Players of several Sources report to the Client.  The Client keeps, per *)
(* player, the update it heard last, and every few seconds a task picks    *)
(* one, decides whether the service should hear of it, and forgets all it  *)
(* had: the task replaces the queue at its end, awaits included.  A polled *)
(* Source reports the state of its players again and again; one that is    *)
(* told (ingress) reports each track once.                                 *)
(***************************************************************************)
EXTENDS Integers, Sequences, FiniteSets, FiniteSetsExt

CONSTANTS
  Device,         \* the players: <<source, platform>>, numbered by their names
  Ingress,        \* the Sources that are told; their players are in nowPlayingMode
  Tune,           \* the Plays of the players
  Setup,          \* the nowPlaying option (a priority list of Sources, or none),
                  \* and a bound: how often each player changes
  MinThreshold,   \* nowPlayingMinThreshold: 5, 10 or 20 seconds
  MaxThreshold,   \* nowPlayingMaxThreshold of a Play: 30 seconds, or a second
                  \* more than it lasts, which may be less than the minimum
  MaxAge,         \* bound: time is counted up to here
  MaxInflight,    \* bound: updates that wait for their transform
  Mishaps         \* bound: one of them may happen, once

Silence == "silence"    \* no Play

ASSUME NowAssumption ==
  /\ Device \subseteq Nat \X Nat /\ Device # {}
  /\ Silence \notin Tune
  /\ MinThreshold \in Nat /\ MaxThreshold \in [Tune -> Nat] /\ MaxAge \in Nat
  /\ MinThreshold < MaxAge /\ \A t \in Tune : MaxThreshold[t] < MaxAge
  /\ Setup \subseteq [priority: Seq(Nat), changes: [Device -> Nat]]
  /\ Mishaps \subseteq {"fails", "unready", "notAllowed"}

VARIABLES
  realtime,   \* nowPlayingIsRealtime: Discord and Teal
  priority,   \* the list of Sources of the nowPlaying option
  state,      \* what each player does
  inflight,   \* updates that await their transform
  queue,      \* nowPlayingQueue
  task,       \* processingPlayingNow
  lastPlay,   \* nowPlayingLastPlay
  age,        \* time since nowPlayingLastUpdated
  shown,      \* what the service shows
  ready,      \* is the Client ready?
  settled,    \* history: the ingress Sources whose last update was shown or dropped
  changes,    \* how often each player may still change
  mishaps     \* what may still go wrong

nowVars == <<realtime, priority, state, inflight, queue, task, lastPlay, age,
             shown, ready, settled, changes, mishaps>>

SourceOf(d)   == d[1]
PlatformOf(d) == d[2]

ClearingStatus == {"stopped", "paused", "stale", "orphaned"}
Status         == ClearingStatus \cup {"playing", "unknown"}
Report         == [status: Status, play: Tune \cup {Silence}]
Update         == [by: Device, status: Status, play: Tune \cup {Silence}]

NoUpdate == [by |-> <<0, 0>>, status |-> "none", play |-> Silence]
Idle     == [at |-> "idle", u |-> NoUpdate]

(* The data of the update of player d. *)
Now(d)  == [by |-> d, status |-> state[d].status, play |-> state[d].play]
Fresh(u) == u.status \notin {"stale", "orphaned"}
(* The Client shows nothing for a player in such a status. *)
Clears(u) == u.status \in ClearingStatus

-----------------------------------------------------------------------------
(* Which update the task looks at. *)

Queued(s)   == {u \in queue : SourceOf(u.by) = s}
HasQueued   == {SourceOf(u.by) : u \in queue}

(* Without a list, the Source with the first name; with one, the first of   *)
(* the list that has something queued, and no other Source at all.          *)
ChosenSource ==
  IF priority = <<>> THEN {Min(HasQueued)}
  ELSE LET listed == {i \in DOMAIN priority : priority[i] \in HasQueued}
       IN IF listed = {} THEN {} ELSE {priority[Min(listed)]}

FirstOf(us) == CHOOSE u \in us : \A v \in us : PlatformOf(u.by) <= PlatformOf(v.by)

(* One player of the Source: the only one; the one on the platform that is  *)
(* shown, as long as it is fresh; a fresh one; any.                         *)
ChosenOf(us) ==
  LET fresh  == {u \in us : Fresh(u)}
      sticky == {u \in fresh : lastPlay # NoUpdate
                                 /\ PlatformOf(u.by) = PlatformOf(lastPlay.by)}
  IN  IF Cardinality(us) = 1 THEN CHOOSE u \in us : TRUE
      ELSE IF sticky # {} THEN CHOOSE u \in sticky : TRUE
      ELSE FirstOf(IF fresh # {} THEN fresh ELSE us)

-----------------------------------------------------------------------------
(* Whether the service should hear of it. *)

minMet == MinThreshold < age
maxMet(u) == MaxThreshold[u.play] < age

Matches(u) == u.play = lastPlay.play

(* Is u in a status that this Client reports?  A player in nowPlayingMode    *)
(* only has to be anything but stopped.                                      *)
StatusValid(u) ==
  IF SourceOf(u.by) \in Ingress THEN u.status # "stopped"
  ELSE IF realtime THEN u.status # "unknown" ELSE u.status = "playing"

(* An update without a Play has no track.  The code means to ask for one    *)
(* only if the player plays, but it tests the pair of that answer and its    *)
(* reason, which is always true: it is refused in every status.              *)
HasTrackIfPlaying(u) == u.status = "playing" => u.play # Silence
HasTrack(u) == u.play # Silence

(* nowPlayingHasDiscrepancy: how u differs from what was reported last.      *)
Discrepancy(u) ==
  IF lastPlay = NoUpdate THEN "notSet"
  ELSE IF lastPlay.play # Silence /\ u.play = Silence THEN "playGone"
  ELSE IF lastPlay.play = Silence /\ u.play = Silence THEN "bothGone"
  ELSE IF lastPlay.status # u.status THEN "status"
  ELSE IF ~Matches(u) THEN "play"
  ELSE "same"

(* Every difference is urgent. *)
NotSpaced(u) == TRUE
Spaced(u) == lastPlay = NoUpdate \/ minMet

IsNews(u) ==
  /\ StatusValid(u)
  /\ Spaced(u)
  /\ HasTrack(u)
  /\ ~(realtime /\ lastPlay # NoUpdate /\ Clears(u) /\ Clears(lastPlay))

(* What was reported is never reported again. *)
OnlyNews(u) == Discrepancy(u) \notin {"same", "bothGone"} /\ IsNews(u)

(* shouldUpdatePlayingNow.  A Play that stays the same is reported again     *)
(* from time to time, even one that only clears what the service shows, and *)
(* whatever the minimum is.                                                 *)
ShouldUpdate(u) ==
  \/ Discrepancy(u) = "same" /\ maxMet(u)
  \/ Discrepancy(u) \notin {"same", "bothGone"} /\ IsNews(u)

(* A Play that would be shown, had it come later. *)
TooSoon(u) ==
  HasTrack(u) /\ Discrepancy(u) = "play" /\ StatusValid(u) /\ ~Spaced(u)

(* What is too soon is dropped. *)
NothingBuffered(u) == FALSE

(* A track of an ingress Source that came too soon is kept for a later run.  *)
Buffered(u) == SourceOf(u.by) \in Ingress /\ TooSoon(u)

-----------------------------------------------------------------------------
Mishap(m) == mishaps = Mishaps /\ m \in Mishaps /\ mishaps' = Mishaps \ {m}

Initially == [status |-> "unknown", play |-> Silence]

NowInit ==
  /\ realtime \in BOOLEAN
  /\ \E s \in Setup : priority = s.priority /\ changes = s.changes
  /\ state = [d \in Device |-> Initially]
  /\ inflight = {} /\ queue = {} /\ task = Idle
  /\ lastPlay = NoUpdate /\ age = MaxAge /\ shown = Silence
  /\ ready = TRUE /\ settled = Ingress
  /\ mishaps = Mishaps

(* The latest a player says replaces what it said before. *)
Put(q, u) == {v \in q : v.by # u.by} \cup {u}

(* queuePlayingNow: an update with a Play is transformed first.  An update  *)
(* that a Client that is not ready gets is dropped.                         *)
Tell(u) ==
  IF ~ready THEN /\ settled' = settled \cup ({SourceOf(u.by)} \cap Ingress)
                 /\ UNCHANGED <<inflight, queue>>
  ELSE /\ settled' = settled \ {SourceOf(u.by)}
       /\ IF u.play = Silence
          THEN queue' = Put(queue, u) /\ UNCHANGED inflight
          ELSE inflight' = inflight \cup {u} /\ UNCHANGED queue

(* What a player may do next: it goes silent step by step, and a player in  *)
(* nowPlayingMode hears of a track or is silent.                            *)
MayBecome(d, r) ==
  /\ r # state[d]
  /\ r.status = "stale"    => /\ Fresh(state[d]) /\ r.play = state[d].play
                              /\ r.play # Silence
  /\ r.status = "orphaned" => state[d].status = "stale" /\ r.play = state[d].play
  /\ r.status \in {"playing", "paused"} => r.play # Silence
  /\ r.status = "unknown" => r.play = Silence
  /\ SourceOf(d) \in Ingress => r.status \in {"playing", "stale", "orphaned"}

PlayerChanges(d) ==
  /\ changes[d] > 0 /\ changes' = [changes EXCEPT ![d] = @ - 1]
  /\ Cardinality(inflight) < MaxInflight
  /\ \E r \in Report : /\ MayBecome(d, r)
                       /\ state' = [state EXCEPT ![d] = r]
                       /\ Tell([by |-> d, status |-> r.status, play |-> r.play])
  /\ UNCHANGED <<realtime, priority, task, lastPlay, age, shown, ready, mishaps>>

(* A polled Source reports its players in every poll, while they answer. *)
Answers(d) ==
  SourceOf(d) \notin Ingress /\ state[d].status \notin {"unknown", "stale", "orphaned"}

PlayerPolled(d) ==
  /\ Answers(d)
  /\ Now(d) \notin inflight \cup queue
  /\ Cardinality(inflight) < MaxInflight /\ ready
  /\ Tell(Now(d))
  /\ UNCHANGED <<realtime, priority, state, task, lastPlay, age, shown, ready,
                 changes, mishaps>>

(* The transform of u has ended.  Two updates of a player may end in either *)
(* order: an older one that ends last is the one that stays.                *)
Transformed(u) ==
  /\ u \in inflight /\ inflight' = inflight \ {u}
  /\ queue' = Put(queue, u)
  /\ settled' = IF u # Now(u.by) /\ Now(u.by) \notin inflight
               THEN settled \cup ({SourceOf(u.by)} \cap Ingress) ELSE settled
  /\ UNCHANGED <<realtime, priority, state, task, lastPlay, age, shown, ready,
                 changes, mishaps>>

(* The Sources whose last update is dropped when the queue becomes q. *)
Dropped(q) ==
  {SourceOf(u.by) : u \in {v \in queue \ q : v = Now(v.by) /\ v \notin inflight}}
    \cap Ingress

(* A run of the task begins: it goes on to ask the service's own check, or  *)
(* ends with the queue emptied, but for the Source it buffers.             *)
TaskRuns ==
  /\ task = Idle /\ ready /\ queue # {}
  /\ \E s \in ChosenSource :
       LET u == ChosenOf(Queued(s)) IN
       IF ShouldUpdate(u)
       THEN /\ task' = [at |-> "asking", u |-> u]
            /\ UNCHANGED <<queue, settled>>
       ELSE LET kept == IF Buffered(u) THEN Queued(s) ELSE {} IN
            /\ queue' = kept
            /\ settled' = settled \cup Dropped(kept \cup {v \in {u} : TooSoon(v)})
            /\ UNCHANGED task
  /\ UNCHANGED <<realtime, priority, state, inflight, lastPlay, age, shown, ready,
                 changes, mishaps>>

(* shouldUpdatePlayingNowPlatformSpecific has answered. *)
PlatformAllows ==
  /\ task.at = "asking" /\ task' = [task EXCEPT !.at = "calling"]
  /\ UNCHANGED <<realtime, priority, state, inflight, queue, lastPlay, age, shown,
                 ready, settled, changes, mishaps>>

PlatformRefuses ==
  /\ task.at = "asking" /\ Mishap("notAllowed")
  /\ task' = Idle /\ queue' = {} /\ settled' = settled \cup Dropped({})
  /\ UNCHANGED <<realtime, priority, state, inflight, lastPlay, age, shown, ready,
                 changes>>

(* What the service shows after it heard of u. *)
Display(u) == IF realtime /\ Clears(u) THEN Silence ELSE u.play

(* An error is ignored: the update counts as made. *)
CallEnds(u) ==
  /\ lastPlay' = u /\ age' = 0 /\ task' = Idle /\ queue' = {}
  /\ settled' = settled \cup Dropped({}) \cup
                   ({SourceOf(v.by) : v \in {u} \cap {Now(u.by)}} \cap Ingress)
  /\ UNCHANGED <<realtime, priority, state, inflight, ready, changes>>

CallSucceeds ==
  /\ task.at = "calling" /\ CallEnds(task.u) /\ shown' = Display(task.u)
  /\ UNCHANGED mishaps

CallFails ==
  /\ task.at = "calling" /\ Mishap("fails") /\ CallEnds(task.u)
  /\ UNCHANGED shown

TimePasses ==
  /\ age < MaxAge /\ age' = age + 1
  /\ UNCHANGED <<realtime, priority, state, inflight, queue, task, lastPlay, shown,
                 ready, settled, changes, mishaps>>

(* The Client loses its authentication or its connection, and is            *)
(* initialised again.                                                       *)
ReadinessLost ==
  /\ ready /\ Mishap("unready") /\ ready' = FALSE
  /\ UNCHANGED <<realtime, priority, state, inflight, queue, task, lastPlay, age,
                 shown, settled, changes>>
ReadyAgain ==
  /\ ~ready /\ ready' = TRUE
  /\ UNCHANGED <<realtime, priority, state, inflight, queue, task, lastPlay, age,
                 shown, settled, changes, mishaps>>

NowNext ==
  \/ \E d \in Device : PlayerChanges(d) \/ PlayerPolled(d)
  \/ \E u \in inflight : Transformed(u)
  \/ TaskRuns \/ PlatformAllows \/ PlatformRefuses \/ CallSucceeds \/ CallFails
  \/ TimePasses \/ ReadinessLost \/ ReadyAgain

(* Sources poll, promises settle, the scheduler runs the task, and the      *)
(* heartbeat makes the Client ready again.                                  *)
NowFairness ==
  /\ \A d \in Device : /\ WF_nowVars(PlayerPolled(d))
                       /\ WF_nowVars(\E u \in inflight : u.by = d /\ Transformed(u))
  /\ WF_nowVars(TaskRuns)
  /\ WF_nowVars(PlatformAllows \/ PlatformRefuses)
  /\ WF_nowVars(CallSucceeds \/ CallFails)
  /\ WF_nowVars(TimePasses) /\ WF_nowVars(ReadyAgain)

NowSpec == NowInit /\ [][NowNext]_nowVars /\ NowFairness

-----------------------------------------------------------------------------
(* Every player has at most one update queued, and the task works on one    *)
(* only during its awaits.                                                  *)
NowTypeOK ==
  /\ state \in [Device -> Report]
  /\ inflight \subseteq Update
  /\ queue \subseteq Update /\ \A u, v \in queue : u.by = v.by => u = v
  /\ task.at \in {"idle", "asking", "calling"}
  /\ task.u \in Update \cup {NoUpdate} /\ (task.at = "idle" <=> task.u = NoUpdate)
  /\ lastPlay \in Update \cup {NoUpdate}
  /\ age \in 0..MaxAge /\ shown \in Tune \cup {Silence}
  /\ ready \in BOOLEAN /\ settled \subseteq Ingress

(* What was reported last always names a track.  nowPlayingHasDiscrepancy    *)
(* rests on it: it compares Plays (playObjDataMatch) without asking again    *)
(* whether the last update had one, and would throw if it had none.          *)
ReportedHasTrack == lastPlay # NoUpdate => lastPlay.play \in Tune

(* The queue is keyed by player, and what it is compared with names a track. *)
NowPlayingIsSound == NowTypeOK /\ ReportedHasTrack

(* The service hears of something else at most once per minimum interval,    *)
(* and of the same thing again once the maximum interval of its Play has    *)
(* passed - for a short track that is sooner -, counted from the end of a   *)
(* call to the start of the next, whatever the queue did meanwhile.         *)
CallsAreSpaced ==
  [][task'.at = "calling" /\ task.at # "calling" /\ lastPlay # NoUpdate
       => IF task.u.status = lastPlay.status /\ task.u.play = lastPlay.play
          THEN MaxThreshold[task.u.play] < age ELSE MinThreshold < age]_nowVars

(* Is d the one player that keeps reporting? *)
Alone(d) ==
  ready /\ priority = <<>> /\ Answers(d) /\ \A e \in Device \ {d} : ~Answers(e)

(* What a polled player that is left alone plays is in the end what the      *)
(* service shows, whatever updates were lost in awaits, refused as too soon  *)
(* or failed on the way; and a realtime service ends up cleared once the     *)
(* player pauses, but not if a call failed: the update that was to clear it  *)
(* counts as made, and the next is taken for a repetition.                   *)
PlayingIsShown ==
  \A d \in Device :
    <>[](/\ Alone(d) /\ state[d].play \in Tune
         /\ \/ state[d].status = "playing"
            \/ realtime /\ state[d].status = "paused" /\ "fails" \in mishaps)
      => <>[](shown = Display(Now(d)))

(* What an ingress Source tells, once, is not forgotten: in the end it was   *)
(* shown, even if it came too soon after another track, or it was dropped    *)
(* for a reason: it came during a call, with another player's update, out of *)
(* order, with another status, or to a Client that was not ready.  (Without  *)
(* a priority list: what a Source that is not on the list tells stays in the *)
(* queue until a listed Source has something queued as well.)                *)
ToldIsSettled ==
  \A s \in Ingress : (priority = <<>> /\ s \notin settled) ~> s \in settled
=============================================================================
