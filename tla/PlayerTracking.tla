--------------------------- MODULE PlayerTracking ---------------------------
(***************************************************************************)
(* How a Source that is told what a device plays works out what has been   *)
(* listened to.                                                            *)
(*                                                                         *)
(* A report says which track the device plays, at which position and, for  *)
(* some Sources, in which status and since when.  The player compares each *)
(* report with the last, adds up ranges of listening, and hands over a     *)
(* Play when the track changes, restarts or stops, or when the device      *)
(* falls silent.  Time is counted in ticks.                                *)
(***************************************************************************)
EXTENDS Integers, FiniteSets

CONSTANTS
  Track,
  Duration,       \* of every track
  AllowedDrift,   \* between a position and real time, before it is a seek
  EndBuffer,      \* gracefulEndBuffer: this close to the end counts as the end
  ClosePosition,  \* this close to the start or the end hints at a repeat
  ScrobbleAfter,  \* listened this long, a Play is worth discovering
  StaleInterval, OrphanedInterval,
  FuzzyThreshold, \* how well a gap must fit the duration to be a fuzzy match
  RecentlyStopped,\* a track that starts again so soon is on repeat
  FirstTrack,     \* bound: what the device plays at first
  SeekTargets,    \* bound: where the listener seeks to
  MaxTime,        \* bound: ticks
  MaxGestures     \* bound: what the listener does, beyond listening

None   == "none"
Unseen == -1     \* a time that never was

ASSUME PlayerAssumption ==
  /\ None \notin Track /\ FirstTrack \in Track
  /\ {Duration, StaleInterval, MaxTime, MaxGestures} \subseteq Nat
  /\ {AllowedDrift, EndBuffer, ClosePosition, ScrobbleAfter} \cup SeekTargets
       \subseteq 0..Duration
  /\ AllowedDrift # 0
  /\ {FuzzyThreshold, RecentlyStopped} \subseteq Nat
  /\ OrphanedInterval \in Nat /\ OrphanedInterval >= StaleInterval

VARIABLES
  setup,       \* the Source: its kind of player, and what its reports hold
  clock,
  device,      \* what really happens
  player,      \* the player, or NoPlayer
  deceased,    \* the update time of the player that was deleted last
  cleaning,    \* the cleanup that waits for its decision, or NoCleanup
  deciding,    \* the candidates an update waits to have decided
  discovered,  \* the Plays handed over
  lost,        \* history: why Plays worth discovering were not
  raced,       \* history: did a report overtake a cleanup?
  served,      \* in this tick: has the Source looked after its player? ...
  reported,    \* ... and has there been a report?
  gestures

playerVars == <<setup, clock, device, player, deceased, cleaning, deciding,
                discovered, lost, raced, served, reported, gestures>>

NoRange   == [start |-> Unseen, end |-> Unseen, rt |-> Unseen]
NoPlayer  == [play |-> None, born |-> Unseen]
NoCleanup == [born |-> Unseen, kill |-> FALSE]

Status     == {"unknown", "playing", "paused", "stopped"}
Calculated == Status \cup {"stale", "orphaned"}
Time       == Unseen..MaxTime
Play  == [track : Track, stamp : Time, listened : Nat, repeat : BOOLEAN]
Range == [start : 0..Duration + MaxTime, end : 0..Duration + MaxTime,
          rt : 0..Duration + MaxTime]
Player ==
  [play : Track \cup {None}, reported : Status, calculated : Calculated,
   range : Range \cup {NoRange}, listened : Nat, repeat : BOOLEAN,
   firstSeen : Time, playUpdated : Time, stateUpdated : Time,
   lastPlay : Track \cup {None}, lastAt : Time,
   attempted : BOOLEAN, born : 0..MaxTime,
   \* history: ticks heard, ranges begun and seeks made since the session
   \* began; how much of it a decision has seen; the last fresh report
   heard : Nat, parts : Nat, seeks : Nat, judged : Nat, contact : 0..MaxTime]
Cleanup == [play : Play, born : 0..MaxTime, kill : BOOLEAN]
Device  == [track : Track \cup {None}, pos : 0..Duration,
            playing : BOOLEAN, since : 0..MaxTime]

Exists == player # NoPlayer

\* The players there are: by the clock (generic, and timed: a Subsonic server
\* that reports no position), by position (Jellyfin's says since when), by
\* position and real time (Plex), and those that only show what is Now Playing
\* for a Source that devices report to.
Setups ==
  [kind : {"generic", "positional"}, known : BOOLEAN, stamped : {FALSE}]
    \cup [kind : {"positional"}, known : {TRUE}, stamped : {TRUE}]
    \cup [kind : {"timed"}, known : {FALSE}, stamped : {FALSE}]
    \cup [kind : {"realtime", "nowPlaying"}, known : {TRUE}, stamped : {FALSE}]

\* Now Playing comes from devices that report to the Source; what such a player
\* hands over is not used.
IsIngress == setup.kind = "nowPlaying"

PlayerTypeOK ==
  /\ setup \in Setups
  /\ clock \in 0..MaxTime
  /\ device \in Device
  /\ player \in Player \cup {NoPlayer}
  /\ deceased \in Time
  /\ cleaning \in Cleanup \cup {NoCleanup}
  /\ deciding \subseteq Play /\ discovered \subseteq Play
  /\ lost \subseteq {"sameStamp", "fuzzy", "forgotten"}
  /\ raced \in BOOLEAN /\ served \in BOOLEAN /\ reported \in BOOLEAN
  /\ gestures \in 0..MaxGestures

-----------------------------------------------------------------------------
\* The range of listening that is under way.

Positional == setup.kind \in {"positional", "realtime"}

\* where a report puts the end of a range: generic players go by the clock
Observed(r, pos) == IF Positional THEN pos ELSE r.rt

OverDrifted(r, pos) == pos - r.rt \notin -AllowedDrift..AllowedDrift

SeekedBy(r, pos) == IF pos < r.end THEN pos - r.end ELSE pos - r.rt
Seeked(r, pos)   == Positional /\ (pos < r.end \/ OverDrifted(r, pos))

RangeDuration(r) == IF r = NoRange THEN 0 ELSE r.end - r.start
ListenDuration(p) == p.listened + RangeDuration(p.range)

\* where a session is taken to have ended
FinalPosition(p) ==
  LET r == p.range
      nearEnd == Duration - r.end < EndBuffer
  IN  IF ~Positional THEN r.end
      ELSE IF p.calculated \in {"playing", "stale"} /\ nearEnd THEN Duration
      ELSE IF p.calculated = "stale" /\ OverDrifted(r, r.end) THEN r.end
      ELSE IF setup.kind = "realtime" THEN r.rt ELSE r.end

\* currentListenSessionEnd: a range without length is dropped
Total(p) == IF RangeDuration(p.range) = 0 THEN p.listened
            ELSE p.listened + FinalPosition(p) - p.range.start
SessionEnd(p) == [p EXCEPT !.listened = Total(p), !.range = NoRange]

\* A player that went straight to the next track missed its very beginning.
StartPosition(p, pos) ==
  IF ~Positional \/ (p.calculated = "playing" /\ pos <= 1) THEN 0 ELSE pos

Stuck(p, pos) ==
  /\ IF setup.kind = "realtime" THEN p.reported # "playing"
                                ELSE OverDrifted(p.range, pos) /\ pos = p.range.end
  /\ p.calculated \notin {"paused", "stopped"}

\* currentListenSessionContinue
SessionContinue(p, pos) ==
  IF p.range = NoRange
  THEN LET s == StartPosition(p, pos)
       IN  [p EXCEPT !.range = [start |-> s, end |-> s, rt |-> s],
                     !.parts = @ + 1]
  ELSE [p EXCEPT
          !.calculated =
             IF Positional /\ Stuck(p, pos)
             THEN IF p.reported = "stopped" THEN "stopped" ELSE "paused"
             ELSE IF Positional /\ pos = p.range.end THEN @ ELSE "playing",
          !.range = [@ EXCEPT !.end = Observed(p.range, pos)]]

\* isSessionRepeat: back to the start after half of the track, or from its end;
\* without positions, more listened to than there is
IsSessionRepeat(p, pos) ==
  IF setup.kind = "timed" THEN ListenDuration(p) > Duration ELSE
  /\ p.range # NoRange
  /\ Seeked(p.range, pos) /\ SeekedBy(p.range, pos) <= 0
  /\ pos <= ClosePosition
  /\ \/ 2 * ListenDuration(p) >= Duration
     \/ Duration - p.range.end <= ClosePosition

-----------------------------------------------------------------------------
\* The player's answer to a report.

\* mutant: the ranges of the last track stay
KeepsListened(p, rep) ==
  [p EXCEPT !.play = rep.track, !.firstSeen = clock, !.range = NoRange,
            !.heard = 0, !.parts = 0, !.seeks = 0, !.judged = 0]
\* a new session, before its first range
NewSession(p, rep) ==
  [p EXCEPT !.play = rep.track, !.firstSeen = clock,
            !.listened = 0, !.range = NoRange,
            !.heard = 0, !.parts = 0, !.seeks = 0, !.judged = 0]

\* setCurrentPlay
SetCurrentPlay(p, rep) ==
  LET q == NewSession(p, rep)
  IN  IF q.reported = "stopped" THEN q ELSE SessionContinue(q, rep.pos)

PlayedObject(p) ==
  [track |-> p.play, stamp |-> p.firstSeen, listened |-> ListenDuration(p),
   repeat |-> p.repeat]

\* An update leaves a player, and perhaps the Play that it ended.
Ends(p, played) == [player |-> p, played |-> {played}]
GoesOn(p)       == [player |-> p, played |-> {}]

\* setPlay: no track before
FirstPlay(p, rep) ==
  LET again == p.lastPlay = rep.track /\ clock - p.lastAt < RecentlyStopped
      q == SetCurrentPlay([p EXCEPT !.repeat = again], rep)
  IN  GoesOn([q EXCEPT !.calculated = "unknown"])

\* setPlay: another track
OtherPlay(p, rep) ==
  LET done == SessionEnd(p)
      q == SetCurrentPlay([done EXCEPT !.repeat = FALSE, !.lastPlay = p.play,
                                       !.lastAt = clock], rep)
  IN  Ends([q EXCEPT !.calculated = IF @ = "playing" THEN @ ELSE "unknown"],
           PlayedObject(done))

\* setPlay: the same track, from its start
RepeatPlay(p, rep) ==
  LET done == SessionEnd(p)
  IN  Ends(SetCurrentPlay([done EXCEPT !.repeat = TRUE], rep), PlayedObject(done))

\* setPlay: the same track, elsewhere or further on
SamePlay(p, rep) ==
  IF p.range # NoRange /\ Seeked(p.range, rep.pos)
  THEN LET q == IF p.range.end = rep.pos THEN [p EXCEPT !.calculated = "paused"] ELSE p
       IN  GoesOn(SessionContinue(SessionEnd(q), rep.pos))
  ELSE GoesOn(SessionContinue(p, rep.pos))

\* update: the device has stopped and reports no track
StopPlay(p) ==
  LET done == SessionEnd([p EXCEPT !.reported = "stopped", !.calculated = "stopped"])
  IN  Ends([done EXCEPT !.play = None, !.lastPlay = p.play, !.lastAt = clock,
                        !.playUpdated = Unseen, !.firstSeen = Unseen,
                        !.listened = 0, !.range = NoRange, !.repeat = FALSE,
                        !.heard = 0, !.parts = 0, !.seeks = 0, !.judged = 0],
           PlayedObject(done))

Update(p0, rep) ==
  LET seen == [p0 EXCEPT !.stateUpdated = rep.at]
      p == [seen EXCEPT !.playUpdated = rep.at,
                        !.reported = IF rep.status = "none" THEN @ ELSE rep.status]
  IN  IF rep.track = None
      THEN IF p0.reported # "stopped" /\ p0.play # None THEN StopPlay(seen)
           ELSE GoesOn([seen EXCEPT !.reported = "stopped"])
      ELSE IF p.play = None THEN FirstPlay(p, rep)
      ELSE IF p.play # rep.track THEN OtherPlay(p, rep)
      ELSE IF rep.status = "paused"
           THEN GoesOn([SessionEnd(p) EXCEPT !.calculated = "paused"])
      ELSE IF IsSessionRepeat(p, rep.pos) THEN RepeatPlay(p, rep)
                                          ELSE SamePlay(p, rep)

-----------------------------------------------------------------------------
\* Is a Play that has ended worth discovering, and is it a new one?

\* existingDiscovered, for Plays of the same track; listening ranges of earlier
\* Plays end before a later one begins, so that none matches as "during"
Existing(c) ==
  {d \in discovered :
     /\ d.track = c.track
     /\ \/ d.stamp = c.stamp
        \/ /\ ~c.repeat
           /\ c.stamp - d.stamp - Duration \in -FuzzyThreshold..FuzzyThreshold}

PassesThreshold(c) == c.listened >= ScrobbleAfter

\* isListenedPlayDiscoverable looks at the oldest match
Discoverable(c) ==
  /\ PassesThreshold(c)
  /\ \/ Existing(c) = {}
     \/ \E d \in Existing(c) : /\ \A e \in Existing(c) : d.stamp <= e.stamp
                               /\ c.stamp > d.stamp + Duration

\* What is discovered when c is decided, and why it is not: discover() in turn
\* drops what matches.
Found(c) == {d \in {c} : Discoverable(c) /\ Existing(c) = {} /\ ~IsIngress}

LostBy(c) ==
  {IF \E d \in Existing(c) : d.stamp = c.stamp THEN "sameStamp" ELSE "fuzzy" :
     e \in {d \in {c} : PassesThreshold(c) /\ Existing(c) # {}}}

-----------------------------------------------------------------------------
\* Silence.

\* What is Now Playing is over with its track.
StaleAfter    == IF IsIngress THEN Duration ELSE StaleInterval
OrphanedAfter == IF IsIngress THEN Duration \div 2 + 1 ELSE OrphanedInterval
DeadAfter     == IF IsIngress THEN OrphanedAfter ELSE 2 * OrphanedAfter

\* isUpdateStale
Stale(p) == p.play # None /\ clock - p.playUpdated > StaleAfter
Orphaned(p) == clock - p.stateUpdated >= OrphanedAfter
\* mutant: off by one
DeadLater(p) == clock - p.stateUpdated > DeadAfter
\* isDead
Dead(p) == clock - p.stateUpdated >= DeadAfter

\* checkStale and checkOrphaned, of a player that is stale
Silenced(p) ==
  LET q == IF p.calculated \in {"stale", "orphaned"} THEN p
           ELSE SessionEnd([p EXCEPT !.calculated = "stale"])
  IN  IF Orphaned(p) THEN [q EXCEPT !.calculated = "orphaned"] ELSE q

\* what goes with a player that is deleted
Forgotten(p) ==
  IF ListenDuration(p) >= ScrobbleAfter /\ ListenDuration(p) > p.judged
  THEN {"forgotten"} ELSE {}

\* mutant: the attempt of an earlier silence stands
AttemptStands(p) == p
\* fresh data: the next silence is worth another attempt
AttemptReset(p) == [p EXCEPT !.attempted = FALSE]

Delete(p) ==
  /\ player' = NoPlayer
  /\ deceased' = p.stateUpdated

\* cleanupPlayer
CleanupPlayer ==
  LET q == Silenced(player)
      kill == Orphaned(player) /\ Dead(player)
  IN  \/ /\ ~Stale(player)
         /\ player' = AttemptReset(player)
         /\ UNCHANGED <<deceased, cleaning, lost>>
      \/ /\ Stale(player) /\ ~player.attempted
         /\ cleaning = NoCleanup
         /\ player' = [q EXCEPT !.attempted = TRUE, !.judged = ListenDuration(q)]
         /\ cleaning' = [play |-> PlayedObject(q), born |-> player.born,
                         kill |-> kill]
         /\ UNCHANGED <<deceased, lost>>
      \/ /\ Stale(player) /\ player.attempted
         /\ IF kill THEN Delete(q) /\ lost' = lost \cup Forgotten(q)
                    ELSE player' = q /\ UNCHANGED <<deceased, lost>>
         /\ UNCHANGED cleaning

\* the stale session is over, so that one that is resumed counts from nothing
Cleared(p) == [p EXCEPT !.listened = 0, !.range = NoRange,
                        !.heard = 0, !.parts = 0, !.seeks = 0, !.judged = 0]

\* cleanupPlayer, after its await
CleanupDecided ==
  LET c == cleaning.play
      p == IF player.born = cleaning.born /\ Discoverable(c) THEN Cleared(player)
                                                             ELSE player
  IN  /\ cleaning # NoCleanup
      /\ cleaning' = NoCleanup
      /\ discovered' = discovered \cup Found(c)
      /\ IF cleaning.kill /\ Exists THEN Delete(p) ELSE player' = p /\ UNCHANGED deceased
      /\ lost' = lost \cup LostBy(c)
                      \cup (IF cleaning.kill /\ Exists THEN Forgotten(p) ELSE {})
      /\ UNCHANGED <<setup, clock, device, deciding, raced, served, reported, gestures>>

-----------------------------------------------------------------------------
\* What a Source hears.

Report ==
  [track  |-> device.track,
   pos    |-> device.pos,
   status |-> IF device.track = None THEN "stopped"
              ELSE IF ~setup.known THEN "none"
              ELSE IF device.playing THEN "playing" ELSE "paused",
   at     |-> IF setup.stamped THEN device.since ELSE clock]

NewPlayer ==
  [play |-> None, reported |-> "unknown", calculated |-> "unknown",
   range |-> NoRange, listened |-> 0, repeat |-> FALSE,
   firstSeen |-> Unseen, playUpdated |-> Unseen, stateUpdated |-> Unseen,
   lastPlay |-> None, lastAt |-> Unseen, attempted |-> FALSE, born |-> clock,
   heard |-> 0, parts |-> 0, seeks |-> 0, judged |-> 0, contact |-> clock]

\* mutant: a report of the past brings a deleted player back
NoZombies(rep) == FALSE
\* isZombiePlayer
Zombie(rep) == setup.stamped /\ deceased = rep.at

SameState(rep) == setup.stamped /\ player.stateUpdated = rep.at

\* processRecentPlays, of one report
Hear(rep) ==
  \/ /\ ~Exists /\ Zombie(rep)
     /\ UNCHANGED <<player, deceased, cleaning, deciding, lost, raced>>
  \/ /\ Exists /\ SameState(rep)
     /\ CleanupPlayer
     /\ UNCHANGED <<deciding, raced>>
  \/ /\ IF Exists THEN ~SameState(rep) ELSE ~Zombie(rep)
     /\ LET u == Update(IF Exists THEN player ELSE NewPlayer, rep)
            p == [AttemptReset(u.player) EXCEPT !.contact = clock]
            current == IF u.played = {} /\ Stale(p) THEN {PlayedObject(p)} ELSE {}
        IN  /\ player' = p
            /\ deciding' = u.played \cup current
     /\ deceased' = IF Exists THEN deceased ELSE Unseen
     /\ raced' = (raced \/ cleaning # NoCleanup)
     /\ UNCHANGED <<cleaning, lost>>

\* processRecentPlays, after its await
CandidateDecided ==
  \E c \in deciding :
    /\ deciding' = deciding \ {c}
    /\ discovered' = discovered \cup Found(c)
    /\ lost' = lost \cup LostBy(c)
    /\ UNCHANGED <<setup, clock, device, player, deceased, cleaning, raced,
                   served, reported, gestures>>

Undecided == cleaning # NoCleanup \/ deciding # {}

\* One pass of the polling: a report, or nothing because nothing is played.  Only
\* a Source that knows the status says that it has stopped.
Poll ==
  /\ ~IsIngress /\ ~served /\ ~Undecided
  /\ served' = TRUE
  /\ \/ (device.track # None \/ setup.known) /\ Hear(Report)
     \/ /\ device.track = None
        /\ IF Exists THEN CleanupPlayer
                     ELSE UNCHANGED <<player, deceased, cleaning, lost>>
        /\ UNCHANGED <<deciding, raced>>
  /\ UNCHANGED <<setup, clock, device, discovered, reported, gestures>>

\* A device that reports by itself; bound: one candidate is decided at a time.
Ingress ==
  /\ IsIngress /\ ~reported /\ deciding = {}
  /\ reported' = TRUE
  /\ Hear(Report)
  /\ UNCHANGED <<setup, clock, device, discovered, served, gestures>>

\* The scheduled cleanup, which drops what cleanupPlayer returns.
ScheduledCleanup ==
  /\ IsIngress /\ ~served /\ cleaning = NoCleanup
  /\ served' = TRUE
  /\ IF Exists THEN CleanupPlayer
               ELSE UNCHANGED <<player, deceased, cleaning, lost>>
  /\ UNCHANGED <<setup, clock, device, deciding, raced, discovered, reported, gestures>>

-----------------------------------------------------------------------------
\* The device and time.

Gesture(d) ==
  /\ gestures < MaxGestures
  /\ gestures' = gestures + 1
  /\ device' = [d EXCEPT !.since = clock]

\* The listener chooses a track, pauses, goes on, or turns the device off.
Listener ==
  /\ \/ \E t \in Track : Gesture([device EXCEPT !.track = t, !.pos = 0, !.playing = TRUE])
     \/ device.track # None /\ Gesture([device EXCEPT !.playing = ~@])
     \/ device.track # None
        /\ Gesture([device EXCEPT !.track = None, !.pos = 0, !.playing = FALSE])
  /\ UNCHANGED <<setup, clock, player, deceased, cleaning, deciding, discovered,
                 lost, raced, served, reported>>

Seek ==
  /\ device.track # None
  /\ \E q \in SeekTargets : q # device.pos /\ Gesture([device EXCEPT !.pos = q])
  /\ player' = IF Exists THEN [player EXCEPT !.seeks = @ + 1] ELSE player
  /\ UNCHANGED <<setup, clock, deceased, cleaning, deciding, discovered, lost,
                 raced, served, reported>>

\* The device plays on, and at the end of a track goes to any track.
Advanced(d) ==
  IF d.track = None \/ ~d.playing THEN {d}
  ELSE IF d.pos < Duration THEN {[d EXCEPT !.pos = @ + 1, !.since = clock + 1]}
  ELSE {[d EXCEPT !.track = t, !.pos = 0, !.since = clock + 1] : t \in Track}

Heard ==
  IF setup.kind = "positional"
  THEN device.track = player.play /\ device.playing
  ELSE TRUE

RealTime(r) == IF r = NoRange THEN r ELSE [r EXCEPT !.rt = @ + 1]
Later(p) ==
  [p EXCEPT !.range = RealTime(@),
            !.heard = IF Heard THEN @ + 1 ELSE @]

\* Time passes once the Source has looked after its player.  Bound: of what is
\* undecided only a cleanup, which reports may overtake, takes more than a tick.
Tick ==
  /\ clock < MaxTime
  /\ deciding = {}
  /\ \/ served /\ cleaning = NoCleanup
     \/ IsIngress /\ cleaning # NoCleanup
  /\ clock' = clock + 1
  /\ served' = FALSE /\ reported' = FALSE
  /\ device' \in Advanced(device)
  /\ player' = IF Exists THEN Later(player) ELSE player
  /\ UNCHANGED <<setup, deceased, cleaning, deciding, discovered, lost, raced, gestures>>

PlayerInit ==
  /\ setup \in Setups
  /\ clock = 0
  /\ device = [track |-> FirstTrack, pos |-> 0, playing |-> TRUE, since |-> 0]
  /\ player = NoPlayer /\ deceased = Unseen
  /\ cleaning = NoCleanup /\ deciding = {} /\ discovered = {} /\ lost = {}
  /\ raced = FALSE /\ served = FALSE /\ reported = FALSE /\ gestures = 0

PlayerNext ==
  \/ Tick \/ Listener \/ Seek
  \/ Poll \/ Ingress \/ ScheduledCleanup
  \/ CleanupDecided \/ CandidateDecided

PlayerSpec == PlayerInit /\ [][PlayerNext]_playerVars

-----------------------------------------------------------------------------
\* What is to hold.

\* A player hears nothing new for no longer than this.
LongestSilence == IF StaleAfter < DeadAfter THEN DeadAfter ELSE StaleAfter + 1

\* What a player counts as listened to is what was really played since its
\* session began, give or take what each range is forgiven: drift, the missed
\* beginning and the buffer at the end; and what each seek is, which is taken
\* for listening if it lands where an uninterrupted listener would be, drift
\* and the silence before it included.
ListenedIsReal ==
  Exists => ListenDuration(player) <=
              player.heard + player.parts * (AllowedDrift + EndBuffer)
                           + player.seeks * (2 * AllowedDrift + LongestSilence)

\* A session listened to for long enough is handed over, unless for one of two
\* reasons: it was resumed after it had gone stale, and keeps the time of the Play
\* that was discovered then; or it is played again, after something else, when the
\* earlier one would have ended.  None is forgotten with its player.
SessionsAreKept == ~IsIngress => "forgotten" \notin lost

\* A player with a track that hears nothing new is removed in time, whatever the
\* position in which it fell silent.
SilentPlayersGo ==
  Exists /\ player.play # None /\ served /\ cleaning = NoCleanup
    => clock - player.contact < DeadAfter \/ clock - player.contact <= StaleAfter

\* The fields fit together, and the player is not older than it may be.
PlayersAreSound == PlayerTypeOK /\ SilentPlayersGo

\* Only a player that is dead is removed, unless its report overtook a cleanup
\* that had decided on its death; and it comes back only when the device has
\* done something since, if its reports say when.
RemovedIsDead ==
  [][/\ Exists /\ player' = NoPlayer =>
          clock - player.stateUpdated >= DeadAfter \/ (IsIngress /\ raced)
     /\ ~Exists /\ player' # NoPlayer /\ setup.stamped /\ deceased # Unseen
          => device.since # deceased]_playerVars
=============================================================================
