--------------------------- MODULE PresenceProofs ---------------------------
(***************************************************************************)
(* What a Client shows of what is being played.                            *)
(*                                                                         *)
(* First, NowPlaying: the update the task decided on is still the right    *)
(* one when it is sent, whatever the queue did during the task's awaits,   *)
(* for every number of players and every thresholds.                       *)
(*                                                                         *)
(* Then, DiscordClient: the flags of a Client and of its gateway client    *)
(* fit the connection, in every state, however many reconnects overlap and *)
(* whatever goes wrong.                                                    *)
(***************************************************************************)
EXTENDS NowPlaying, DiscordClient, FiniteSetTheorems, WellFoundedInduction, TLAPS

TaskRecord == [at : {"idle", "asking", "calling"}, u : Update \cup {NoUpdate}]

(* What the task works on names a track. *)
AskedHasTrack == task.at # "idle" => task.u.play \in Tune

(* What the task decided from the time and the last call, before its await,  *)
(* is still true after it.                                                  *)
DecisionStands ==
  task.at = "asking" /\ lastPlay # NoUpdate =>
    IF task.u.status = lastPlay.status /\ task.u.play = lastPlay.play
    THEN MaxThreshold[task.u.play] < age ELSE MinThreshold < age

NowInv ==
  /\ NowTypeOK /\ task \in TaskRecord /\ priority \in Seq(Nat)
  /\ ReportedHasTrack /\ AskedHasTrack /\ DecisionStands

-----------------------------------------------------------------------------
(* Every set of numbers has a least one. *)
LEMMA LeastNatural ==
  ASSUME NEW S, S \subseteq Nat, S # {}
  PROVE  \E m \in S : \A n \in S : m <= n
<1> DEFINE R == {ss \in Nat \X Nat : ss[1] < ss[2]}
<1>1. IsWellFoundedOn(R, Nat)
  BY NatLessThanWellFounded DEF OpToRel
<1>2. \A x, y \in Nat : x < y => <<x, y>> \in R
  OBVIOUS
<1> HIDE DEF R
<1>3. PICK m \in S : \A n \in S : ~(<<n, m>> \in R)
  BY <1>1, WFMin
<1>4. \A n \in S : m <= n
  <2> TAKE n \in S
  <2>1. ~(n < m)
    BY <1>2, <1>3
  <2> QED BY <2>1
<1> QED BY <1>4

LEMMA MinIsMember ==
  ASSUME NEW S, S \subseteq Nat, S # {}
  PROVE  Min(S) \in S
BY LeastNatural DEF Min

LEMMA UpdateFacts ==
  /\ NoUpdate \notin Update
  /\ \A u \in Update : /\ u.by \in Device /\ SourceOf(u.by) \in Nat /\ PlatformOf(u.by) \in Nat
                       /\ u.play \in Tune \cup {Silence}
BY NowAssumption DEF NoUpdate, Update, Status, ClearingStatus, SourceOf, PlatformOf

(* The task looks at the queue of a Source that has one. *)
LEMMA ChosenSourceFacts ==
  ASSUME queue \subseteq Update, queue # {}, priority \in Seq(Nat)
  PROVE  \A s \in ChosenSource : Queued(s) # {}
<1>1. HasQueued \subseteq Nat /\ HasQueued # {}
  BY UpdateFacts DEF HasQueued
<1>2. ChosenSource \subseteq HasQueued
  <2>1. CASE priority = <<>>
    BY <1>1, <2>1, MinIsMember DEF ChosenSource
  <2>2. CASE priority # <<>>
    <3> DEFINE listed == {i \in DOMAIN priority : priority[i] \in HasQueued}
    <3>1. listed \subseteq Nat
      OBVIOUS
    <3>2. listed # {} => Min(listed) \in listed
      BY <3>1, MinIsMember
    <3>3. ChosenSource = IF listed = {} THEN {} ELSE {priority[Min(listed)]}
      BY <2>2 DEF ChosenSource
    <3> QED BY <3>2, <3>3
  <2> QED BY <2>1, <2>2
<1> QED BY <1>2 DEF HasQueued, Queued

LEMMA FirstOfFacts ==
  ASSUME NEW us, us \subseteq Update, us # {} PROVE FirstOf(us) \in us
<1> DEFINE platforms == {PlatformOf(u.by) : u \in us}
<1>1. platforms \subseteq Nat /\ platforms # {}
  BY UpdateFacts
<1>2. PICK m \in platforms : \A n \in platforms : m <= n
  BY <1>1, LeastNatural
<1>3. \E u \in us : \A v \in us : PlatformOf(u.by) <= PlatformOf(v.by)
  BY <1>2
<1> QED BY <1>3 DEF FirstOf

(* What the task looks at was queued. *)
LEMMA ChosenOfFacts ==
  ASSUME NEW us, us \subseteq Update, us # {} PROVE ChosenOf(us) \in us
<1> DEFINE fresh  == {u \in us : Fresh(u)}
           sticky == {u \in fresh : lastPlay # NoUpdate
                                      /\ PlatformOf(u.by) = PlatformOf(lastPlay.by)}
<1>1. fresh \subseteq us /\ sticky \subseteq us
  OBVIOUS
<1>2. fresh # {} => FirstOf(fresh) \in us
  BY <1>1, FirstOfFacts
<1>3. FirstOf(us) \in us
  BY FirstOfFacts
<1>4. ChosenOf(us) = IF Cardinality(us) = 1 THEN CHOOSE u \in us : TRUE
                     ELSE IF sticky # {} THEN CHOOSE u \in sticky : TRUE
                     ELSE FirstOf(IF fresh # {} THEN fresh ELSE us)
  BY DEF ChosenOf
<1> HIDE DEF fresh, sticky
<1>5. (CHOOSE u \in us : TRUE) \in us
  OBVIOUS
<1>6. sticky # {} => (CHOOSE u \in sticky : TRUE) \in us
  BY <1>1
<1> QED BY <1>2, <1>3, <1>4, <1>5, <1>6

(* An update that the service is to hear of names a track, and comes when   *)
(* it may: a repetition after the longer interval of its Play, anything else *)
(* after the minimum.                                                       *)
LEMMA ShouldUpdateFacts ==
  ASSUME NEW u \in Update, lastPlay \in Update \cup {NoUpdate}, ReportedHasTrack,
         ShouldUpdate(u)
  PROVE  /\ u.play \in Tune
         /\ lastPlay # NoUpdate =>
              IF u.status = lastPlay.status /\ u.play = lastPlay.play
              THEN MaxThreshold[u.play] < age ELSE MinThreshold < age
<1>1. u.play \in Tune \cup {Silence} /\ Silence \notin Tune
  BY UpdateFacts, NowAssumption
<1>2. CASE Discrepancy(u) = "same" /\ maxMet(u)
  <2>1. /\ lastPlay # NoUpdate /\ ~(lastPlay.play # Silence /\ u.play = Silence)
        /\ lastPlay.status = u.status /\ u.play = lastPlay.play
    BY <1>2 DEF Discrepancy, Matches
  <2>2. u.play \in Tune
    BY <1>1, <2>1 DEF ReportedHasTrack
  <2> QED BY <1>2, <2>1, <2>2 DEF maxMet
<1>3. CASE Discrepancy(u) \notin {"same", "bothGone"} /\ IsNews(u)
  <2>1. u.play # Silence /\ (lastPlay = NoUpdate \/ MinThreshold < age)
    BY <1>3 DEF IsNews, HasTrack, Spaced, minMet
  <2>2. lastPlay # NoUpdate => ~(u.status = lastPlay.status /\ u.play = lastPlay.play)
    BY <1>3, <2>1 DEF Discrepancy, Matches
  <2> QED BY <1>1, <2>1, <2>2
<1> QED BY <1>2, <1>3 DEF ShouldUpdate

LEMMA PutFacts ==
  ASSUME NEW q, q \subseteq Update, NEW u \in Update,
         \A v, w \in q : v.by = w.by => v = w
  PROVE  /\ Put(q, u) \subseteq Update
         /\ \A v, w \in Put(q, u) : v.by = w.by => v = w
BY DEF Put

(* An update is queued, is transformed first, or is dropped. *)
LEMMA TellFacts ==
  ASSUME NowTypeOK, NEW u \in Update, Tell(u)
  PROVE  /\ settled' \subseteq Ingress /\ inflight' \subseteq Update /\ queue' \subseteq Update
         /\ \A v, w \in queue' : v.by = w.by => v = w
BY PutFacts DEF Tell, NowTypeOK

-----------------------------------------------------------------------------
LEMMA NowStarts == NowInit => NowInv
<1> SUFFICES ASSUME NowInit PROVE NowInv
  OBVIOUS
<1>1. Idle \in TaskRecord /\ Idle.at = "idle" /\ Idle.u = NoUpdate
  BY DEF Idle, TaskRecord
<1>2. [d \in Device |-> Initially] \in [Device -> Report]
  BY DEF Initially, Report, Status
<1>3. MaxAge \in 0..MaxAge
  BY NowAssumption
<1>4. priority \in Seq(Nat)
  BY NowAssumption DEF NowInit
<1> QED BY <1>1, <1>2, <1>3, <1>4
        DEF NowInit, NowInv, NowTypeOK, ReportedHasTrack, AskedHasTrack, DecisionStands

(* What a step keeps that leaves the task, and what it compares with, alone. *)
LEMMA TaskAlone ==
  ASSUME NowInv, NowTypeOK', age' = age \/ age' = age + 1,
         UNCHANGED <<task, lastPlay, priority>>
  PROVE  NowInv'
<1>1. age \in Nat /\ MinThreshold \in Nat /\ (task.u.play \in Tune => MaxThreshold[task.u.play] \in Nat)
  BY NowAssumption DEF NowInv, NowTypeOK
<1>2. task.at = "asking" => task.u.play \in Tune
  BY DEF NowInv, AskedHasTrack
<1> QED BY <1>1, <1>2 DEF NowInv, ReportedHasTrack, AskedHasTrack, DecisionStands

LEMMA PlayerKeeps ==
  ASSUME NowInv, NEW d \in Device, PlayerChanges(d) \/ PlayerPolled(d)
  PROVE  NowInv'
<1>1. NowTypeOK
  BY DEF NowInv
<1>2. /\ UNCHANGED <<task, lastPlay, priority, age, shown, ready>>
      /\ state' \in [Device -> Report] /\ \E u \in Update : Tell(u)
  <2>1. CASE PlayerChanges(d)
    <3>1. PICK r \in Report : /\ state' = [state EXCEPT ![d] = r]
                              /\ Tell([by |-> d, status |-> r.status, play |-> r.play])
      BY <2>1 DEF PlayerChanges
    <3>2. [by |-> d, status |-> r.status, play |-> r.play] \in Update
      BY DEF Report, Update
    <3> QED BY <1>1, <2>1, <3>1, <3>2 DEF PlayerChanges, NowTypeOK
  <2>2. CASE PlayerPolled(d)
    <3>1. Now(d) \in Update
      BY <1>1 DEF Now, NowTypeOK, Report, Update
    <3> QED BY <1>1, <2>2, <3>1 DEF PlayerPolled, NowTypeOK
  <2> QED BY <2>1, <2>2
<1>3. NowTypeOK'
  BY <1>1, <1>2, TellFacts DEF NowTypeOK
<1> QED BY <1>2, <1>3, TaskAlone

LEMMA TransformedKeeps ==
  ASSUME NowInv, NEW u \in inflight, Transformed(u) PROVE NowInv'
<1>1. NowTypeOK /\ u \in Update
  BY DEF NowInv, NowTypeOK
<1>2. NowTypeOK'
  BY <1>1, PutFacts DEF NowTypeOK, Transformed
<1> QED BY <1>2, TaskAlone DEF Transformed

LEMMA RunKeeps ==
  ASSUME NowInv, TaskRuns PROVE NowInv'
<1>1. /\ NowTypeOK /\ task = Idle /\ queue \subseteq Update /\ queue # {} /\ priority \in Seq(Nat)
      /\ UNCHANGED <<priority, state, inflight, lastPlay, age, shown, ready>>
  BY DEF NowInv, NowTypeOK, TaskRuns
<1>2. PICK s \in ChosenSource :
        LET u == ChosenOf(Queued(s)) IN
        IF ShouldUpdate(u)
        THEN task' = [at |-> "asking", u |-> u] /\ UNCHANGED <<queue, settled>>
        ELSE LET kept == IF Buffered(u) THEN Queued(s) ELSE {} IN
             /\ queue' = kept
             /\ settled' = settled \cup Dropped(kept \cup {v \in {u} : TooSoon(v)})
             /\ UNCHANGED task
  BY DEF TaskRuns
<1> DEFINE u == ChosenOf(Queued(s))
<1>3. u \in Update
  <2>1. Queued(s) \subseteq queue /\ Queued(s) # {}
    BY <1>1, ChosenSourceFacts DEF Queued
  <2> QED BY <1>1, <2>1, ChosenOfFacts
<1>4. CASE ShouldUpdate(u)
  <2>1. task' = [at |-> "asking", u |-> u] /\ UNCHANGED <<queue, settled>>
    BY <1>2, <1>4
  <2>2. /\ u.play \in Tune
        /\ lastPlay # NoUpdate =>
             IF u.status = lastPlay.status /\ u.play = lastPlay.play
             THEN MaxThreshold[u.play] < age ELSE MinThreshold < age
    BY <1>1, <1>3, <1>4, ShouldUpdateFacts DEF NowInv, NowTypeOK
  <2> HIDE DEF u
  <2>3. NowTypeOK' /\ task' \in TaskRecord
    BY <1>1, <1>3, <2>1, UpdateFacts DEF NowTypeOK, TaskRecord
  <2> QED BY <1>1, <1>3, <2>1, <2>2, <2>3
          DEF NowInv, ReportedHasTrack, AskedHasTrack, DecisionStands
<1>5. CASE ~ShouldUpdate(u)
  <2>1. PICK kept, q : /\ kept \in {Queued(s), {}} /\ queue' = kept
                       /\ settled' = settled \cup Dropped(q) /\ UNCHANGED task
    BY <1>2, <1>5
  <2>2. queue' \subseteq queue /\ settled' \subseteq Ingress
    BY <1>1, <2>1 DEF Queued, Dropped, NowTypeOK
  <2>3. NowTypeOK'
    BY <1>1, <2>1, <2>2 DEF NowTypeOK
  <2> QED BY <1>1, <2>1, <2>3, TaskAlone
<1> QED BY <1>4, <1>5

LEMMA AllowedKeeps ==
  ASSUME NowInv, PlatformAllows PROVE NowInv'
<1>1. /\ task \in TaskRecord /\ task.at = "asking" /\ task' = [task EXCEPT !.at = "calling"]
      /\ UNCHANGED <<priority, state, inflight, queue, lastPlay, age, shown, ready, settled>>
  BY DEF NowInv, PlatformAllows
<1>2. task' \in TaskRecord /\ task'.at = "calling" /\ task'.u = task.u
  BY <1>1 DEF TaskRecord
<1> QED BY <1>1, <1>2
        DEF NowInv, NowTypeOK, ReportedHasTrack, AskedHasTrack, DecisionStands

(* The task has ended. *)
LEMMA EndKeeps ==
  ASSUME NowInv, task' = Idle, queue' = {}, settled' \subseteq Ingress, age' \in 0..MaxAge,
         lastPlay' = lastPlay \/ (lastPlay' \in Update /\ lastPlay'.play \in Tune),
         shown' \in Tune \cup {Silence},
         UNCHANGED <<priority, state, inflight, ready>>
  PROVE  NowInv'
<1>1. Idle \in TaskRecord /\ Idle.at = "idle" /\ Idle.u = NoUpdate
  BY DEF Idle, TaskRecord
<1> QED BY <1>1 DEF NowInv, NowTypeOK, ReportedHasTrack, AskedHasTrack, DecisionStands

LEMMA RefusedKeeps ==
  ASSUME NowInv, PlatformRefuses PROVE NowInv'
<1>1. settled' \subseteq Ingress
  BY DEF PlatformRefuses, Dropped, NowInv, NowTypeOK
<1> QED BY <1>1, EndKeeps DEF PlatformRefuses, NowInv, NowTypeOK

LEMMA CallKeeps ==
  ASSUME NowInv, CallSucceeds \/ CallFails PROVE NowInv'
<1>1. task \in TaskRecord /\ task.at = "calling" /\ CallEnds(task.u)
      /\ (shown' = Display(task.u) \/ shown' = shown)
  BY DEF CallSucceeds, CallFails, NowInv
<1>2. task.u \in Update /\ task.u.play \in Tune
  BY <1>1 DEF NowInv, NowTypeOK, AskedHasTrack
<1>3. shown' \in Tune \cup {Silence}
  BY <1>1, <1>2 DEF Display, NowInv, NowTypeOK
<1>4. settled' \subseteq Ingress
  BY <1>1 DEF CallEnds, Dropped, NowInv, NowTypeOK
<1>5. 0 \in 0..MaxAge
  BY NowAssumption
<1> QED BY <1>1, <1>2, <1>3, <1>4, <1>5, EndKeeps DEF CallEnds

LEMMA RestKeeps ==
  ASSUME NowInv, TimePasses \/ ReadinessLost \/ ReadyAgain PROVE NowInv'
<1>1. age' \in 0..MaxAge /\ (age' = age \/ age' = age + 1)
  BY NowAssumption DEF TimePasses, ReadinessLost, ReadyAgain, NowInv, NowTypeOK
<1>2. /\ UNCHANGED <<priority, state, inflight, queue, task, lastPlay, shown, settled>>
      /\ ready' \in BOOLEAN
  BY DEF TimePasses, ReadinessLost, ReadyAgain, NowInv, NowTypeOK
<1>3. NowTypeOK'
  BY <1>1, <1>2 DEF NowInv, NowTypeOK
<1> QED BY <1>1, <1>2, <1>3, TaskAlone

LEMMA NowSteps ==
  ASSUME NowInv, [NowNext]_nowVars PROVE NowInv'
<1>1. CASE UNCHANGED nowVars
  BY <1>1 DEF nowVars, NowInv, NowTypeOK, ReportedHasTrack, AskedHasTrack, DecisionStands
<1>2. CASE NowNext
  BY <1>2, PlayerKeeps, TransformedKeeps, RunKeeps, AllowedKeeps, RefusedKeeps, CallKeeps,
     RestKeeps DEF NowNext
<1> QED BY <1>1, <1>2

(* The queue is keyed by player, and a Play is only ever compared with an    *)
(* update that names a track.                                               *)
THEOREM NowPlayingAlwaysSound == NowSpec => []NowPlayingIsSound
<1>1. NowInv => NowPlayingIsSound
  BY DEF NowInv, NowPlayingIsSound
<1> QED BY <1>1, NowStarts, NowSteps, PTL DEF NowSpec

(* The service hears of something else at most once per minimum interval,    *)
(* and of the same thing again at most once per maximum interval of its Play *)
(* - for a short track that is sooner than the minimum -, counted from the   *)
(* end of a call, whatever was queued during the task's awaits.             *)
THEOREM CallsAlwaysSpaced == NowSpec => CallsAreSpaced
<1> DEFINE calls ==
      task'.at = "calling" /\ task.at # "calling" /\ lastPlay # NoUpdate
        => IF task.u.status = lastPlay.status /\ task.u.play = lastPlay.play
           THEN MaxThreshold[task.u.play] < age ELSE MinThreshold < age
<1>1. NowInv /\ [NowNext]_nowVars => [calls]_nowVars
  <2> SUFFICES ASSUME NowInv, [NowNext]_nowVars, task'.at = "calling", task.at # "calling"
               PROVE  task.at = "asking"
    BY DEF NowInv, DecisionStands
  <2>1. task # task'
    OBVIOUS
  <2>2. Idle.at = "idle"
    BY DEF Idle
  <2> QED BY <2>1, <2>2
          DEF NowNext, nowVars, PlayerChanges, PlayerPolled, Transformed, TaskRuns,
              PlatformAllows, PlatformRefuses, CallSucceeds, CallFails, CallEnds,
              TimePasses, ReadinessLost, ReadyAgain
<1> QED BY <1>1, NowStarts, NowSteps, PTL DEF NowSpec, CallsAreSpaced

(***************************************************************************)
(* The connection of a Discord Client.                                      *)
(***************************************************************************)

Closes == \E a \in Reconnect : activity[a] = "closing"

(* Only an open connection carries anything, and the gateway that accepts   *)
(* the Client knows of it before the Client does.                           *)
CarriesWhenOpen == conn.server # "none" \/ conn.inbox # <<>> => conn.socket = "open"

WelcomeIsMeant ==
  \A i \in DOMAIN conn.inbox : conn.inbox[i] \in {"ready", "resumed"} => conn.server # "none"

(* A gateway client that takes itself for ready has been accepted on this   *)
(* connection, or somebody is about to clean up after the last one.         *)
ReadyIsAccepted == gate.ready => conn.server # "none" \/ stranded \/ Closes

(* A socket is being closed only by a reconnect, which waits for that, until *)
(* it has waited too long.                                                  *)
CloserWaits ==
  (conn.socket = "closing" => Closes \/ stranded) /\ activity[Initialize] # "closing"

(* Nobody is authenticated without a gateway client.                        *)
BuiltFirst ==
  /\ client.authed => client.flag["build"] = "ok" \/ stranded
  /\ client.at \in {"cache", "connection", "auth"} => client.flag["build"] = "ok"

(* A closed socket: someone works at it, or the flags tell, or a forced     *)
(* attempt has just replaced the gateway client.                            *)
ClosedIsKnown ==
  conn.socket = "closed" =>
    \/ Closes \/ stranded \/ ~client.authed \/ client.flag["connection"] \notin Fine
    \/ client.force /\ client.at \in {"cache", "connection"}

DiscordInv ==
  /\ DiscordTypeOK /\ CarriesWhenOpen /\ WelcomeIsMeant /\ ReadyIsAccepted
  /\ CloserWaits /\ BuiltFirst /\ ClosedIsKnown

-----------------------------------------------------------------------------
(* What the operators do to the Client. *)

LEMMA FailsFacts ==
  ASSUME NEW c \in Client
  PROVE  /\ Fails(c) \in Client /\ Fails(c).at = "idle" /\ Fails(c).flag = c.flag
         /\ Fails(c).authed = c.authed /\ Fails(c).force = c.force
BY DEF Fails, Client

LEMMA PassesFacts ==
  ASSUME NEW c \in Client, c.at \in Flagged
  PROVE  /\ Passes(c) \in Client /\ Passes(c).at = After(c.at)
         /\ Passes(c).authed = c.authed /\ Passes(c).force = c.force
         /\ Passes(c).flag[c.at] = "ok"
         /\ \A s \in Flagged \ {c.at} : Passes(c).flag[s] = c.flag[s]
<1> DEFINE f == [c.flag EXCEPT ![c.at] = "ok"]
<1>1. Passes(c) = [c EXCEPT !.flag = f, !.at = After(c.at)]
  BY DEF Passes, Client
<1>2. After(c.at) \in Flagged \cup {"auth", "idle"}
  BY DEF After, Flagged
<1>3. f \in [Flagged -> Fine \cup {"unset", "failed"}] /\ f[c.at] = "ok"
      /\ \A s \in Flagged \ {c.at} : f[s] = c.flag[s]
  BY DEF Client, Fine
<1> HIDE DEF f
<1> QED BY <1>1, <1>2, <1>3 DEF Client

(* One flag is set. *)
Sets(c, s, v) == [c EXCEPT !.flag[s] = v]

LEMMA FlagFacts ==
  ASSUME NEW c \in Client, NEW s \in Flagged, NEW v \in Fine \cup {"unset", "failed"}
  PROVE  /\ Sets(c, s, v) \in Client /\ Sets(c, s, v).at = c.at
         /\ Sets(c, s, v).authed = c.authed /\ Sets(c, s, v).force = c.force
         /\ Sets(c, s, v).flag[s] = v
         /\ \A t \in Flagged \ {s} : Sets(c, s, v).flag[t] = c.flag[t]
<1> DEFINE f == [c.flag EXCEPT ![s] = v]
<1>1. Sets(c, s, v) = [c EXCEPT !.flag = f]
  BY DEF Client, Sets
<1>2. f \in [Flagged -> Fine \cup {"unset", "failed"}] /\ f[s] = v
      /\ \A t \in Flagged \ {s} : f[t] = c.flag[t]
  BY DEF Client
<1> HIDE DEF f
<1> QED BY <1>1, <1>2 DEF Client

(* An attempt that fails is noted: one that waited for the connection in its *)
(* flag, one that waited to be authenticated by not being so.               *)
LEMMA StageFailsFacts ==
  ASSUME NEW c \in Client
  PROVE  /\ StageFails(c) \in Client /\ StageFails(c).at = "idle"
         /\ StageFails(c).force = c.force
         /\ \A s \in Flagged \ {"connection"} : StageFails(c).flag[s] = c.flag[s]
         /\ StageFails(c).authed => c.authed
         /\ c.flag["connection"] \notin Fine
              => StageFails(c).flag["connection"] \notin Fine
         /\ ~StageFails(c).authed \/ StageFails(c).flag["connection"] \notin Fine
<1>1. CASE c.at = "connection"
  <2> DEFINE d == Sets(c, "connection", "failed")
  <2>1. /\ d \in Client /\ d.at = c.at /\ d.authed = c.authed /\ d.force = c.force
        /\ d.flag["connection"] = "failed"
        /\ \A t \in Flagged \ {"connection"} : d.flag[t] = c.flag[t]
    <3>1. "connection" \in Flagged /\ "failed" \in Fine \cup {"unset", "failed"}
      BY DEF Flagged
    <3> QED BY <3>1, FlagFacts
  <2>2. StageFails(c) = Fails(d)
    BY <1>1 DEF StageFails, Sets
  <2> HIDE DEF d
  <2>3. "failed" \notin Fine
    BY DEF Fine
  <2> QED BY <2>1, <2>2, <2>3, FailsFacts
<1>2. CASE c.at # "connection"
  <2> DEFINE d == [c EXCEPT !.authed = FALSE, !.authFailure = TRUE]
  <2>1. d \in Client /\ d.flag = c.flag /\ d.authed = FALSE /\ d.force = c.force
    BY DEF Client
  <2>2. StageFails(c) = Fails(d)
    BY <1>2 DEF StageFails
  <2> HIDE DEF d
  <2> QED BY <2>1, <2>2, FailsFacts
<1> QED BY <1>1, <1>2

LEMMA StoppedFlagsFacts ==
  ASSUME NEW c \in Client, NEW refusal \in BOOLEAN
  PROVE  /\ StoppedFlags(c, refusal) \in Client
         /\ StoppedFlags(c, refusal).at = c.at
         /\ StoppedFlags(c, refusal).force = c.force
         /\ ~StoppedFlags(c, refusal).authed
         /\ StoppedFlags(c, refusal).flag["connection"] = "failed"
         /\ \A s \in Flagged \ {"connection"} :
              StoppedFlags(c, refusal).flag[s] = c.flag[s]
<1> DEFINE f == [c.flag EXCEPT !["connection"] = "failed"]
<1>1. StoppedFlags(c, refusal)
        = [c EXCEPT !.authed = FALSE, !.authFailure = refusal, !.flag = f]
  BY DEF StoppedFlags, Client
<1>2. f \in [Flagged -> Fine \cup {"unset", "failed"}] /\ f["connection"] = "failed"
      /\ \A s \in Flagged \ {"connection"} : f[s] = c.flag[s]
  BY DEF Client, Flagged
<1> HIDE DEF f
<1> QED BY <1>1, <1>2 DEF Client

LEMMA AuthenticatedFacts ==
  ASSUME NEW c \in Client
  PROVE  /\ Authenticated(c) \in Client /\ Authenticated(c).at = "idle"
         /\ Authenticated(c).force = c.force /\ Authenticated(c).flag = c.flag
<1> DEFINE d == [c EXCEPT !.authed = TRUE, !.authFailure = FALSE]
<1>1. d \in Client /\ d.flag = c.flag /\ d.force = c.force
  BY DEF Client
<1>2. Authenticated(c) = Fails(d)
  BY DEF Authenticated
<1> HIDE DEF d
<1> QED BY <1>1, <1>2, FailsFacts

-----------------------------------------------------------------------------
(* What the operators do to the gateway client and to the connection. *)

LEMMA CleanupFacts ==
  ASSUME NEW g \in Gate
  PROVE  Cleanup(g) \in Gate /\ ~Cleanup(g).ready
<1> DEFINE kept  == g.session /\ g.canResume
           heard == g.acknowledged /\ g.canResume
<1>1. Cleanup(g) = [g EXCEPT !.timer = FALSE, !.ready = FALSE, !.session = kept,
                             !.acknowledged = heard]
  BY DEF Cleanup, Gate
<1>2. kept \in BOOLEAN /\ heard \in BOOLEAN
  BY Zenon
<1> HIDE DEF kept, heard
<1> QED BY <1>1, <1>2 DEF Gate

LEMMA NoConnFacts ==
  /\ NoConn \in Conn /\ NoConn.socket = "closed" /\ NoConn.server = "none"
  /\ NoConn.inbox = <<>>
<1>1. 0 \in 0..MaxAttempts /\ 0 \in 0..2
  BY DiscordAssumption
<1>2. <<>> \in Seq(Message)
  OBVIOUS
<1> QED BY <1>1, <1>2 DEF NoConn, Conn

LEMMA OpeningFacts ==
  ASSUME NEW c \in Conn
  PROVE  /\ Opening(c) \in Conn /\ Opening(c).socket = "connecting"
         /\ c.socket = "connecting" => Opening(c) = c
         /\ c.socket # "connecting" => Opening(c).server = "none" /\ Opening(c).inbox = <<>>
<1>1. CASE c.socket = "connecting"
  BY <1>1 DEF Opening
<1>2. CASE c.socket # "connecting"
  <2>1. 1 \in 0..MaxAttempts
    BY DiscordAssumption
  <2>2. Opening(c) = [NoConn EXCEPT !.socket = "connecting", !.attempts = 1]
    BY <1>2 DEF Opening
  <2> QED BY <1>2, <2>1, <2>2, NoConnFacts DEF Conn
<1> QED BY <1>1, <1>2

LEMMA AsksFacts ==
  ASSUME NEW c \in Conn, NEW g \in Gate, NEW n \in Nat
  PROVE  /\ Asks(c, g, n) \in Conn /\ Asks(c, g, n).socket = c.socket
         /\ Asks(c, g, n).server = c.server /\ Asks(c, g, n).inbox = c.inbox
<1> DEFINE a == IF c.asked + n > 1 THEN 2 ELSE c.asked + n
           r == IF c.asked + n > 1 THEN "again"
                ELSE IF g.canResume /\ g.session THEN "resume" ELSE "identify"
<1>1. c.asked \in 0..2
  BY DEF Conn
<1>2. a \in 0..2
  BY <1>1
<1>3. r \in {"none", "identify", "resume", "again"}
  OBVIOUS
<1>4. Asks(c, g, n) = c \/ Asks(c, g, n) = [c EXCEPT !.asked = a, !.request = r]
  <2>1. [c EXCEPT !.asked = IF @ + n > 1 THEN 2 ELSE @ + n, !.request = r]
          = [c EXCEPT !.asked = a, !.request = r]
    BY DEF Conn
  <2> QED BY <2>1 DEF Asks
<1> HIDE DEF a, r
<1> QED BY <1>2, <1>3, <1>4 DEF Conn

(* A message is put behind those that are on their way, if at all. *)
LEMMA SentFacts ==
  ASSUME NEW c \in Conn, NEW m \in Message
  PROVE  /\ Sent(c, m) \in Conn /\ Sent(c, m).socket = c.socket
         /\ Sent(c, m).server = c.server
         /\ \A i \in DOMAIN Sent(c, m).inbox :
              Sent(c, m).inbox[i] = m
                \/ (i \in DOMAIN c.inbox /\ Sent(c, m).inbox[i] = c.inbox[i])
<1> DEFINE q == Append(c.inbox, m)
<1>1. q \in Seq(Message)
      /\ \A i \in DOMAIN q : q[i] = m \/ (i \in DOMAIN c.inbox /\ q[i] = c.inbox[i])
  BY DEF Conn
<1>2. Sent(c, m) = c \/ Sent(c, m) = [c EXCEPT !.inbox = q]
  BY DEF Sent, Conn
<1> HIDE DEF q
<1> QED BY <1>1, <1>2 DEF Conn

-----------------------------------------------------------------------------
LEMMA DiscordStarts == ASSUME DiscordInit PROVE DiscordInv
<1>1. client \in Client /\ gate \in Gate /\ conn \in Conn
  <2>1. client \in Client
    BY DEF DiscordInit, Client, Flagged
  <2>2. gate \in Gate
    BY DEF DiscordInit, NewGate, Gate
  <2> QED BY <2>1, <2>2, NoConnFacts DEF DiscordInit
<1>2. faults \in 0..MaxFaults /\ requests \in 0..MaxRequests
  BY DiscordAssumption DEF DiscordInit
<1>3. DiscordTypeOK
  BY <1>1, <1>2 DEF DiscordTypeOK, DiscordInit, Activity
<1> QED BY <1>3, NoConnFacts
        DEF DiscordInit, DiscordInv, CarriesWhenOpen, WelcomeIsMeant, ReadyIsAccepted, CloserWaits,
            BuiltFirst, ClosedIsKnown, NewGate, Activity, Initialize

(* What a step keeps that leaves the gateway client, the socket and the     *)
(* activities alone.                                                        *)
LEMMA ClientOnly ==
  ASSUME DiscordInv, client' \in Client, UNCHANGED <<gate, conn, activity>>,
         activity[Initialize] # "idle" => client'.at \in {"connection", "auth"},
         stranded' \in BOOLEAN, stranded => stranded', leaked' \in BOOLEAN,
         faults' \in 0..MaxFaults, requests' \in 0..MaxRequests,
         BuiltFirst', ClosedIsKnown'
  PROVE  DiscordInv'
<1>1. DiscordTypeOK'
  BY DEF DiscordInv, DiscordTypeOK
<1> QED BY <1>1
        DEF DiscordInv, CarriesWhenOpen, WelcomeIsMeant, ReadyIsAccepted, CloserWaits, Closes

LEMMA FaultCounts ==
  ASSUME DiscordTypeOK, NEW f, Fault(f) PROVE faults' \in 0..MaxFaults
BY DiscordAssumption DEF DiscordTypeOK, Fault

LEMMA BeginKeeps ==
  ASSUME DiscordInv, HeartbeatInitializes \/ UserInitializes PROVE DiscordInv'
<1>1. PICK force \in BOOLEAN : Begins(force)
  BY DEF HeartbeatInitializes, UserInitializes
<1>2. /\ ~Initializing /\ UNCHANGED <<gate, conn, activity, leaked, stranded, faults>>
      /\ requests' \in 0..MaxRequests
  <2>1. MaxRequests \in Nat /\ requests \in 0..MaxRequests
    BY DiscordAssumption DEF DiscordInv, DiscordTypeOK
  <2>2. CASE HeartbeatInitializes
    BY <2>1, <2>2 DEF HeartbeatInitializes
  <2>3. CASE UserInitializes
    BY <2>1, <2>3 DEF UserInitializes
  <2> QED BY <2>2, <2>3
<1>3. /\ client' \in Client /\ client'.at = "database" /\ client'.authed = client.authed
      /\ client'.flag = client.flag /\ client.at = "idle"
  BY <1>1, <1>2 DEF Begins, Client, Flagged, Initializing, DiscordInv, DiscordTypeOK
<1>4. BuiltFirst' /\ ClosedIsKnown'
  BY <1>2, <1>3 DEF DiscordInv, BuiltFirst, ClosedIsKnown, Closes
<1>5. activity[Initialize] = "idle"
  BY <1>3 DEF DiscordInv, DiscordTypeOK
<1> QED BY <1>2, <1>3, <1>4, <1>5, ClientOnly DEF DiscordInv, DiscordTypeOK

LEMMA SkipKeeps ==
  ASSUME DiscordInv, StageSkipped PROVE DiscordInv'
<1>1. After(client.at) \in Flagged \cup {"auth"}
  BY DEF After, Flagged
<1>2. /\ client' \in Client /\ client'.at = After(client.at) /\ client'.flag = client.flag
      /\ client'.authed = client.authed
  BY <1>1 DEF StageSkipped, Client, DiscordInv, DiscordTypeOK
<1>3. ~client.force /\ client.flag[client.at] = "ok" /\ client.at \in Flagged
  BY DEF StageSkipped, Skips
<1>4. BuiltFirst' /\ ClosedIsKnown'
  BY <1>2, <1>3
     DEF StageSkipped, DiscordInv, BuiltFirst, ClosedIsKnown, Closes, After, Flagged
<1> QED BY <1>2, <1>4, ClientOnly DEF StageSkipped, DiscordInv, DiscordTypeOK

LEMMA DatabaseKeeps ==
  ASSUME DiscordInv, DatabaseBuilt PROVE DiscordInv'
<1>1. "database" \in Flagged /\ client \in Client /\ client.at = "database"
  BY DEF Flagged, DatabaseBuilt, DiscordInv, DiscordTypeOK
<1> DEFINE set(v) == Sets(client, "database", v)
<1>2. PICK v \in {"ok", "failed"} : client' = Passes(client) \/ client' = Fails(set(v))
  BY DEF DatabaseBuilt, Sets
<1>3. set(v) \in Client /\ set(v).authed = client.authed /\ set(v).force = client.force
      /\ \A t \in Flagged \ {"database"} : set(v).flag[t] = client.flag[t]
  <2>1. v \in Fine \cup {"unset", "failed"}
    BY DEF Fine
  <2> QED BY <1>1, <2>1, FlagFacts
<1> HIDE DEF set
<1>4. /\ client' \in Client /\ client'.authed = client.authed
      /\ \A t \in Flagged \ {"database"} : client'.flag[t] = client.flag[t]
      /\ client'.at \in {"build", "idle"}
  BY <1>1, <1>2, <1>3, PassesFacts, FailsFacts DEF After
<1>5. BuiltFirst' /\ ClosedIsKnown'
  BY <1>1, <1>4
     DEF DatabaseBuilt, DiscordInv, BuiltFirst, ClosedIsKnown, Closes, Flagged
<1>6. activity[Initialize] = "idle" /\ DiscordTypeOK
  BY <1>1 DEF DiscordInv, DiscordTypeOK
<1>7. faults' \in 0..MaxFaults
  BY <1>6, FaultCounts DEF DatabaseBuilt, DiscordTypeOK
<1> QED BY <1>4, <1>5, <1>6, <1>7, ClientOnly DEF DatabaseBuilt, DiscordTypeOK

LEMMA BuildKeeps ==
  ASSUME DiscordInv, GatewayClientBuilt PROVE DiscordInv'
<1>1. "build" \in Flagged /\ client \in Client /\ client.at = "build" /\ DiscordTypeOK
  BY DEF Flagged, GatewayClientBuilt, DiscordInv, DiscordTypeOK
<1>2. stranded' \in BOOLEAN /\ (stranded => stranded') /\ leaked' \in BOOLEAN
  <2>1. stranded \in BOOLEAN /\ leaked \in BOOLEAN
    BY <1>1 DEF DiscordTypeOK
  <2>2. stranded' = stranded \/ stranded' = (stranded \/ Strands(client))
    BY DEF GatewayClientBuilt
  <2>3. leaked' = (leaked \/ conn.socket # "closed")
    BY DEF GatewayClientBuilt
  <2> QED BY <2>1, <2>2, <2>3, Zenon
<1>3. /\ client' \in Client /\ client'.force = client.force /\ client'.authed = client.authed
      /\ \/ client' = Passes(client) /\ client'.flag["build"] = "ok" /\ client'.at = "cache"
         \/ client'.at = "idle" /\ (Strands(client) => stranded')
  <2>1. CASE client' = Passes(client)
    BY <1>1, <2>1, PassesFacts DEF After
  <2>2. CASE client' = Fails(Sets(client, "build", "failed"))
             /\ (Strands(client) => stranded')
    BY <1>1, <2>2, FlagFacts, FailsFacts
  <2>3. \/ client' = Passes(client)
        \/ /\ client' = Fails(Sets(client, "build", "failed"))
           /\ stranded' = (stranded \/ Strands(client))
    BY DEF GatewayClientBuilt, Sets
  <2>4. stranded' = (stranded \/ Strands(client)) => (Strands(client) => stranded')
    BY Zenon
  <2> QED BY <2>1, <2>2, <2>3, <2>4
<1>4. ~client.authed \/ stranded \/ client.force
  BY <1>1 DEF GatewayClientBuilt, Skips, DiscordInv, BuiltFirst
<1>5. BuiltFirst' /\ ClosedIsKnown'
  BY <1>2, <1>3, <1>4 DEF BuiltFirst, ClosedIsKnown, Strands
<1>6. /\ gate' \in Gate /\ ~gate'.ready /\ conn' = NoConn
      /\ activity' = [a \in Activity |-> "idle"]
  BY DEF GatewayClientBuilt, NewGate, Gate
<1>7. DiscordTypeOK'
  <2>1. faults' \in 0..MaxFaults /\ requests' \in 0..MaxRequests
    BY <1>1, FaultCounts DEF GatewayClientBuilt, DiscordTypeOK
  <2>2. activity' \in [Activity -> {"idle", "closing", "opening", "awaiting"}]
        /\ activity'[Initialize] = "idle"
    BY <1>6 DEF Activity
  <2> QED BY <1>2, <1>3, <1>6, <2>1, <2>2, NoConnFacts DEF DiscordTypeOK
<1> QED BY <1>5, <1>6, <1>7, NoConnFacts
        DEF DiscordInv, CarriesWhenOpen, WelcomeIsMeant, ReadyIsAccepted, CloserWaits, Activity

LEMMA CacheKeeps ==
  ASSUME DiscordInv, CacheParsed PROVE DiscordInv'
<1>1. "cache" \in Flagged /\ client \in Client /\ client.at = "cache" /\ DiscordTypeOK
  BY DEF Flagged, CacheParsed, DiscordInv, DiscordTypeOK
<1> DEFINE d == Sets(client, "cache", "null")
<1>2. d \in Client /\ d.authed = client.authed /\ d.force = client.force
      /\ \A t \in Flagged \ {"cache"} : d.flag[t] = client.flag[t]
  BY <1>1, FlagFacts DEF Fine
<1>3. client' = [d EXCEPT !.at = "connection"]
  BY <1>1 DEF CacheParsed, Client, Sets
<1> HIDE DEF d
<1>4. /\ client' \in Client /\ client'.authed = client.authed /\ client'.force = client.force
      /\ client'.at = "connection"
      /\ \A t \in Flagged \ {"cache"} : client'.flag[t] = client.flag[t]
  BY <1>2, <1>3 DEF Client, Flagged
<1>5. BuiltFirst' /\ ClosedIsKnown'
  BY <1>1, <1>4 DEF CacheParsed, DiscordInv, BuiltFirst, ClosedIsKnown, Closes, Flagged
<1> QED BY <1>1, <1>4, <1>5, ClientOnly DEF CacheParsed, DiscordTypeOK

-----------------------------------------------------------------------------
(* What a step keeps that leaves the Client and the activities alone, and   *)
(* loses nothing that the open connection had.                              *)
LEMMA ConnOnly ==
  ASSUME DiscordInv, UNCHANGED <<client, activity, leaked, stranded, requests>>,
         gate' \in Gate, gate'.ready => gate.ready,
         conn' \in Conn, conn'.socket = conn.socket,
         conn.server # "none" => conn'.server # "none",
         conn'.server # "none" \/ conn'.inbox # <<>> => conn'.socket = "open",
         WelcomeIsMeant', faults' \in 0..MaxFaults
  PROVE  DiscordInv'
<1>1. DiscordTypeOK'
  BY DEF DiscordInv, DiscordTypeOK
<1>2. ReadyIsAccepted'
  BY DEF DiscordInv, ReadyIsAccepted, Closes
<1>3. CarriesWhenOpen' /\ CloserWaits' /\ BuiltFirst' /\ ClosedIsKnown'
  BY DEF DiscordInv, CarriesWhenOpen, CloserWaits, Closes, BuiltFirst, ClosedIsKnown
<1> QED BY <1>1, <1>2, <1>3 DEF DiscordInv

(* What a step keeps that opens the socket, or takes it for being opened,   *)
(* for the activity that waits for it.                                      *)
LEMMA OpeningKeeps ==
  ASSUME DiscordInv, NEW a \in Activity, conn.socket \in {"closed", "connecting"},
         conn' = Opening(conn), activity' = [activity EXCEPT ![a] = "opening"],
         a = Initialize => client.at \in {"connection", "auth"},
         a = Initialize => gate' = gate,
         a # Initialize => gate' = Cleanup(gate),
         UNCHANGED <<client, leaked, stranded, faults, requests>>
  PROVE  DiscordInv'
<1>1. DiscordTypeOK /\ conn \in Conn /\ gate \in Gate /\ conn.server = "none" /\ conn.inbox = <<>>
  BY DEF DiscordInv, DiscordTypeOK, CarriesWhenOpen
<1>2. conn' \in Conn /\ conn'.socket = "connecting" /\ conn'.server = "none" /\ conn'.inbox = <<>>
  BY <1>1, OpeningFacts
<1>3. gate' \in Gate /\ (gate'.ready => gate.ready /\ a = Initialize)
  BY <1>1, CleanupFacts
<1>4. /\ activity' \in [Activity -> {"idle", "closing", "opening", "awaiting"}]
      /\ activity'[a] = "opening" /\ \A b \in Activity \ {a} : activity'[b] = activity[b]
  BY <1>1 DEF DiscordTypeOK
<1>5. Initialize \in Activity /\ Reconnect \subseteq Activity /\ Initialize \notin Reconnect
  BY DiscordAssumption DEF Activity
<1>6. DiscordTypeOK'
  BY <1>1, <1>2, <1>3, <1>4, <1>5 DEF DiscordTypeOK
<1>7. ReadyIsAccepted'
  BY <1>1, <1>3, <1>4, <1>5 DEF DiscordInv, ReadyIsAccepted, Closes
<1>8. CarriesWhenOpen' /\ WelcomeIsMeant' /\ ClosedIsKnown'
  BY <1>2 DEF CarriesWhenOpen, WelcomeIsMeant, ClosedIsKnown
<1>9. CloserWaits' /\ BuiltFirst'
  BY <1>2, <1>4, <1>5 DEF DiscordInv, CloserWaits, BuiltFirst
<1> QED BY <1>6, <1>7, <1>8, <1>9 DEF DiscordInv

LEMMA CheckKeeps ==
  ASSUME DiscordInv, ConnectionChecked PROVE DiscordInv'
<1>1. "connection" \in Flagged /\ client \in Client /\ client.at = "connection" /\ DiscordTypeOK
      /\ UNCHANGED <<gate, leaked, stranded, faults, requests>> /\ activity[Initialize] = "idle"
  BY DEF Flagged, ConnectionChecked, DiscordInv, DiscordTypeOK
<1>2. client.flag["build"] = "ok" /\ "build" \in Flagged \ {"connection"}
  BY <1>1 DEF DiscordInv, BuiltFirst, Flagged
<1>3. CASE conn.socket = "open" /\ client' = Passes(client) /\ UNCHANGED <<conn, activity>>
  <2>1. client' \in Client /\ client'.flag["build"] = "ok" /\ client'.authed = client.authed
    BY <1>1, <1>2, <1>3, PassesFacts
  <2>2. BuiltFirst' /\ ClosedIsKnown'
    BY <1>2, <1>3, <2>1 DEF BuiltFirst, ClosedIsKnown
  <2> QED BY <1>1, <1>3, <2>1, <2>2, ClientOnly DEF DiscordTypeOK
<1>4. CASE conn.socket = "closing" /\ client' = StageFails(client) /\ UNCHANGED <<conn, activity>>
  <2>1. client' \in Client /\ client'.flag["build"] = "ok"
    BY <1>1, <1>2, <1>4, StageFailsFacts
  <2>2. BuiltFirst' /\ ClosedIsKnown'
    BY <1>2, <1>4, <2>1 DEF BuiltFirst, ClosedIsKnown
  <2> QED BY <1>1, <1>4, <2>1, <2>2, ClientOnly DEF DiscordTypeOK
<1>5. CASE /\ conn.socket \in {"closed", "connecting"} /\ conn' = Opening(conn)
           /\ activity' = [activity EXCEPT ![Initialize] = "opening"] /\ UNCHANGED client
  BY <1>1, <1>5, OpeningKeeps DEF Activity
<1> QED BY <1>3, <1>4, <1>5 DEF ConnectionChecked

LEMMA AuthKeeps ==
  ASSUME DiscordInv, AuthTested PROVE DiscordInv'
<1>1. client \in Client /\ client.at = "auth" /\ DiscordTypeOK /\ conn \in Conn /\ gate \in Gate
      /\ UNCHANGED <<gate, leaked, stranded, faults, requests>> /\ activity[Initialize] = "idle"
  BY DEF AuthTested, DiscordInv, DiscordTypeOK
<1>2. client.flag["build"] = "ok" /\ "build" \in Flagged \ {"connection"}
  BY <1>1 DEF DiscordInv, BuiltFirst, Flagged
<1>3. CASE client' = Fails(client) /\ UNCHANGED <<conn, activity>>
  <2>1. /\ client' \in Client /\ client'.flag = client.flag /\ client'.authed = client.authed
        /\ client'.at = "idle"
    BY <1>1, <1>3, FailsFacts
  <2>2. BuiltFirst' /\ ClosedIsKnown'
    BY <1>1, <1>2, <1>3, <2>1 DEF DiscordInv, BuiltFirst, ClosedIsKnown, Closes
  <2> QED BY <1>1, <1>3, <2>1, <2>2, ClientOnly DEF DiscordTypeOK
<1>4. CASE gate.ready /\ client' = Authenticated(client) /\ UNCHANGED <<conn, activity>>
  <2>1. client' \in Client /\ client'.flag = client.flag /\ client'.at = "idle"
    BY <1>1, <1>4, AuthenticatedFacts
  <2>2. conn.socket = "closed" => stranded \/ Closes
    BY <1>4 DEF DiscordInv, ReadyIsAccepted, CarriesWhenOpen
  <2>3. BuiltFirst' /\ ClosedIsKnown'
    BY <1>1, <1>2, <1>4, <2>1, <2>2 DEF BuiltFirst, ClosedIsKnown, Closes
  <2> QED BY <1>1, <1>4, <2>1, <2>3, ClientOnly DEF DiscordTypeOK
<1>5. CASE /\ conn.socket = "open" /\ conn' = Asks(conn, gate, 1)
           /\ activity' = [activity EXCEPT ![Initialize] = "awaiting"] /\ UNCHANGED client
  <2>1. /\ conn' \in Conn /\ conn'.socket = "open" /\ conn'.server = conn.server
        /\ conn'.inbox = conn.inbox
    BY <1>1, <1>5, AsksFacts
  <2>2. Initialize \in Activity /\ Reconnect \subseteq Activity /\ Initialize \notin Reconnect
    BY DiscordAssumption DEF Activity
  <2>3. /\ activity' \in [Activity -> {"idle", "closing", "opening", "awaiting"}]
        /\ activity'[Initialize] = "awaiting" /\ \A b \in Reconnect : activity'[b] = activity[b]
    BY <1>1, <1>5, <2>2 DEF DiscordTypeOK
  <2>4. DiscordTypeOK'
    BY <1>1, <1>5, <2>1, <2>3 DEF DiscordTypeOK
  <2>5. CarriesWhenOpen' /\ WelcomeIsMeant' /\ ReadyIsAccepted'
    BY <1>1, <2>1, <2>3
       DEF DiscordInv, CarriesWhenOpen, WelcomeIsMeant, ReadyIsAccepted, Closes
  <2>6. CloserWaits' /\ BuiltFirst' /\ ClosedIsKnown'
    BY <1>1, <1>5, <2>1, <2>3 DEF DiscordInv, CloserWaits, BuiltFirst, ClosedIsKnown
  <2> QED BY <2>4, <2>5, <2>6 DEF DiscordInv
<1>6. CASE conn.socket = "closing" /\ client' = StageFails(client) /\ UNCHANGED <<conn, activity>>
  <2>1. client' \in Client /\ client'.flag["build"] = "ok"
    BY <1>1, <1>2, <1>6, StageFailsFacts
  <2>2. BuiltFirst' /\ ClosedIsKnown'
    BY <1>2, <1>6, <2>1 DEF BuiltFirst, ClosedIsKnown
  <2> QED BY <1>1, <1>6, <2>1, <2>2, ClientOnly DEF DiscordTypeOK
<1>7. CASE /\ conn.socket \in {"closed", "connecting"} /\ conn' = Opening(conn)
           /\ activity' = [activity EXCEPT ![Initialize] = "opening"] /\ UNCHANGED client
  BY <1>1, <1>7, OpeningKeeps DEF Activity
<1> QED BY <1>3, <1>4, <1>5, <1>6, <1>7 DEF AuthTested

-----------------------------------------------------------------------------
LEMMA OpensKeeps ==
  ASSUME DiscordInv, SocketOpens PROVE DiscordInv'
<1> DEFINE checking == activity[Initialize] = "opening" /\ client.at = "connection"
           openers  == {a \in Activity : activity[a] = "opening"
                                           /\ ~(a = Initialize /\ checking)}
           asks     == Cardinality(openers) + IF gate.reconnecting THEN 1 ELSE 0
           opened   == [NoConn EXCEPT !.socket = "open", !.inbox = <<"hello">>]
<1>1. /\ client \in Client /\ DiscordTypeOK /\ gate \in Gate /\ conn.socket = "connecting"
      /\ UNCHANGED <<gate, leaked, stranded, faults, requests>>
      /\ conn' = Asks(opened, gate, asks)
      /\ client' = IF checking THEN Passes(client) ELSE client
      /\ activity' = [a \in Activity |->
                        IF a \in openers THEN "awaiting"
                        ELSE IF a = Initialize /\ checking THEN "idle"
                        ELSE activity[a]]
  BY DEF SocketOpens, DiscordInv, DiscordTypeOK
<1>2. asks \in Nat
  <2>1. IsFiniteSet(Activity)
    BY DiscordAssumption, FS_AddElement DEF Activity
  <2>2. Cardinality(openers) \in Nat
    BY <2>1, FS_Subset, FS_CardinalityType
  <2> QED BY <2>2
<1>3. /\ opened \in Conn /\ opened.socket = "open" /\ opened.server = "none"
      /\ opened.inbox = <<"hello">>
  <2>1. <<"hello">> \in Seq(Message)
    BY DEF Message
  <2> QED BY <2>1, NoConnFacts DEF Conn
<1>4. Initialize \in Activity /\ Reconnect \subseteq Activity /\ Initialize \notin Reconnect
  BY DiscordAssumption DEF Activity
<1>5. /\ activity' \in [Activity -> {"idle", "closing", "opening", "awaiting"}]
      /\ checking => activity'[Initialize] = "idle"
      /\ \A a \in Activity : activity'[a] = "closing" <=> activity[a] = "closing"
      /\ ~checking => (activity'[Initialize] # "idle" <=> activity[Initialize] # "idle")
  BY <1>1, <1>4 DEF DiscordTypeOK
<1>6. client' \in Client /\ client'.authed = client.authed
      /\ client'.flag["build"] = client.flag["build"]
      /\ (~checking => client' = client)
      /\ (checking => client.at = "connection" /\ client'.at = "auth")
  <2>1. CASE checking
    <3>1. client.at = "connection" /\ "connection" \in Flagged
          /\ "build" \in Flagged \ {"connection"}
      BY <2>1 DEF Flagged
    <3>2. client' = Passes(client)
      BY <1>1, <2>1
    <3> QED BY <1>1, <3>1, <3>2, <2>1, PassesFacts DEF After
  <2>2. CASE ~checking
    BY <1>1, <2>2
  <2> QED BY <2>1, <2>2
<1> HIDE DEF checking, openers, asks, opened
<1>7. conn' \in Conn /\ conn'.socket = "open" /\ conn'.server = "none" /\ conn'.inbox = <<"hello">>
  BY <1>1, <1>2, <1>3, AsksFacts
<1>8. DiscordTypeOK'
  <2>1. activity'[Initialize] # "idle" => client'.at \in {"connection", "auth"}
    BY <1>1, <1>5, <1>6 DEF DiscordTypeOK
  <2> QED BY <1>1, <1>5, <1>6, <1>7, <2>1 DEF DiscordTypeOK
<1>9. conn.server = "none"
  BY <1>1 DEF DiscordInv, CarriesWhenOpen
<1>10. ReadyIsAccepted' /\ CloserWaits'
  BY <1>1, <1>4, <1>5, <1>7, <1>9 DEF DiscordInv, ReadyIsAccepted, CloserWaits, Closes
<1>11. WelcomeIsMeant' /\ CarriesWhenOpen' /\ ClosedIsKnown'
  BY <1>7 DEF WelcomeIsMeant, CarriesWhenOpen, ClosedIsKnown
<1>12. BuiltFirst'
  BY <1>1, <1>6 DEF DiscordInv, BuiltFirst
<1> QED BY <1>8, <1>10, <1>11, <1>12 DEF DiscordInv

-----------------------------------------------------------------------------
(* What a step keeps after which no gateway client takes itself for ready,  *)
(* and the socket is opened again, or gone and everybody told.              *)
LEMMA LostKeeps ==
  ASSUME DiscordInv, gate' \in Gate, ~gate'.ready,
         conn' \in Conn, conn'.socket \in {"connecting", "closed"},
         conn'.server = "none", conn'.inbox = <<>>,
         conn'.socket = "closed" =>
           ~client'.authed \/ client'.flag["connection"] \notin Fine,
         client' \in Client, client'.authed => client.authed,
         client'.at \in {client.at, "idle"},
         client'.flag["build"] = client.flag["build"],
         activity' \in [Activity -> {"idle", "closing", "opening", "awaiting"}],
         activity'[Initialize] # "idle"
           => activity[Initialize] # "idle" /\ client'.at = client.at,
         activity'[Initialize] # "closing",
         UNCHANGED <<leaked, stranded, requests>>, faults' \in 0..MaxFaults
  PROVE  DiscordInv'
<1>1. DiscordTypeOK'
  BY DEF DiscordInv, DiscordTypeOK
<1>2. /\ CarriesWhenOpen' /\ WelcomeIsMeant' /\ ReadyIsAccepted' /\ CloserWaits'
      /\ ClosedIsKnown'
  BY DEF CarriesWhenOpen, WelcomeIsMeant, ReadyIsAccepted, CloserWaits, ClosedIsKnown
<1>3. BuiltFirst'
  BY DEF DiscordInv, BuiltFirst
<1> QED BY <1>1, <1>2, <1>3 DEF DiscordInv

LEMMA StoppedFacts ==
  ASSUME DiscordInv, NEW refusal \in BOOLEAN, Stopped(refusal)
  PROVE  /\ client' \in Client /\ ~client'.authed /\ client'.flag["connection"] \notin Fine
         /\ client'.at \in {client.at, "idle"}
         /\ client'.flag["build"] = client.flag["build"]
         /\ activity' \in [Activity -> {"idle", "closing", "opening", "awaiting"}]
         /\ activity'[Initialize] = "idle"
<1>1. client \in Client /\ DiscordTypeOK /\ "build" \in Flagged \ {"connection"}
  BY DEF DiscordInv, DiscordTypeOK, Flagged
<1> DEFINE c == StoppedFlags(client, refusal)
<1>2. /\ c \in Client /\ ~c.authed /\ c.at = client.at /\ c.flag["connection"] \notin Fine
      /\ c.flag["build"] = client.flag["build"]
  BY <1>1, StoppedFlagsFacts DEF Fine
<1>3. client' = StageFails(c) \/ client' = c
  BY DEF Stopped
<1> HIDE DEF c
<1>4. /\ client' \in Client /\ ~client'.authed /\ client'.flag["connection"] \notin Fine
      /\ client'.at \in {client.at, "idle"}
      /\ client'.flag["build"] = client.flag["build"]
  BY <1>1, <1>2, <1>3, StageFailsFacts
<1>5. /\ activity' \in [Activity -> {"idle", "closing", "opening", "awaiting"}]
      /\ activity'[Initialize] = "idle"
  BY <1>1 DEF Stopped, Released, Waiting, DiscordInv, DiscordTypeOK, CloserWaits, Activity
<1> QED BY <1>4, <1>5

LEMMA RetriedKeeps ==
  ASSUME DiscordInv, NEW canResume \in BOOLEAN, Retried(canResume),
         UNCHANGED <<leaked, stranded, requests>>, faults' \in 0..MaxFaults
  PROVE  DiscordInv'
<1>1. client \in Client /\ gate \in Gate /\ DiscordTypeOK /\ "build" \in Flagged
  BY DEF DiscordInv, DiscordTypeOK, Flagged
<1> DEFINE may == gate.canResume /\ canResume
           g == [gate EXCEPT !.canResume = may]
<1>2. g \in Gate
  <2>1. may \in BOOLEAN
    BY Zenon
  <2> HIDE DEF may
  <2> QED BY <1>1, <2>1 DEF Gate
<1>3. gate' = [Cleanup(g) EXCEPT !.reconnecting = TRUE]
  BY <1>1 DEF Retried, CleanedUp, Gate
<1> HIDE DEF g
<1>4. gate' \in Gate /\ ~gate'.ready
  <2>1. Cleanup(g) \in Gate /\ ~Cleanup(g).ready
    BY <1>2, CleanupFacts
  <2> QED BY <1>3, <2>1 DEF Gate
<1>5. /\ conn' \in Conn /\ conn'.socket = "connecting" /\ conn'.server = "none"
      /\ conn'.inbox = <<>>
  <2>1. 1 \in 0..MaxAttempts
    BY DiscordAssumption
  <2> QED BY <2>1, NoConnFacts DEF Retried, Conn
<1>6. UNCHANGED <<client, activity>>
  BY DEF Retried
<1> QED BY <1>1, <1>4, <1>5, <1>6, LostKeeps DEF DiscordTypeOK, DiscordInv, CloserWaits

(* The socket is gone, and the Client is told. *)
LEMMA StoppedKeeps ==
  ASSUME DiscordInv, NEW refusal \in BOOLEAN, Stopped(refusal), conn' = NoConn,
         gate' \in Gate, ~gate'.ready,
         UNCHANGED <<leaked, stranded, requests>>, faults' \in 0..MaxFaults
  PROVE  DiscordInv'
BY StoppedFacts, NoConnFacts, LostKeeps

LEMMA LibraryKeeps ==
  ASSUME DiscordInv,
         ConnectFails \/ ConnectionLost \/ AskedTwice \/ TokenRefused \/ ClosedForGood
  PROVE  DiscordInv'
<1>1. client \in Client /\ gate \in Gate /\ conn \in Conn /\ DiscordTypeOK
  BY DEF DiscordInv, DiscordTypeOK
<1>2. faults' \in 0..MaxFaults
  BY <1>1, FaultCounts
     DEF ConnectFails, ConnectionLost, AskedTwice, TokenRefused, ClosedForGood, DiscordTypeOK
<1>3. CASE ConnectFails
  <2>1. CASE /\ conn.attempts < MaxAttempts /\ conn' = [conn EXCEPT !.attempts = @ + 1]
             /\ gate' = [gate EXCEPT !.reconnecting = TRUE]
             /\ UNCHANGED <<client, activity>>
    <3>1. conn.attempts + 1 \in 0..MaxAttempts
      BY <1>1, <2>1, DiscordAssumption DEF Conn
    <3>2. /\ conn' \in Conn /\ conn'.socket = conn.socket /\ conn'.server = conn.server
          /\ conn'.inbox = conn.inbox
      BY <1>1, <2>1, <3>1 DEF Conn
    <3>3. gate' \in Gate /\ gate'.ready = gate.ready
      BY <1>1, <2>1 DEF Gate
    <3>4. conn'.server # "none" \/ conn'.inbox # <<>> => conn'.socket = "open"
      BY <3>2 DEF DiscordInv, CarriesWhenOpen
    <3>5. WelcomeIsMeant'
      BY <3>2 DEF DiscordInv, WelcomeIsMeant
    <3> QED BY <1>2, <1>3, <2>1, <3>2, <3>3, <3>4, <3>5, ConnOnly DEF ConnectFails
  <2>2. CASE /\ conn' = NoConn /\ Stopped(FALSE)
             /\ gate' = Cleanup([gate EXCEPT !.canResume = FALSE, !.reconnecting = FALSE])
    <3>1. [gate EXCEPT !.canResume = FALSE, !.reconnecting = FALSE] \in Gate
      BY <1>1 DEF Gate
    <3>2. gate' \in Gate /\ ~gate'.ready
      BY <2>2, <3>1, CleanupFacts
    <3> QED BY <1>2, <1>3, <2>2, <3>2, StoppedKeeps DEF ConnectFails
  <2> QED BY <1>3, <2>1, <2>2 DEF ConnectFails
<1>4. CASE ConnectionLost
  BY <1>2, <1>4, RetriedKeeps DEF ConnectionLost
<1>5. CASE AskedTwice
  BY <1>2, <1>5, RetriedKeeps DEF AskedTwice
<1>6. CASE TokenRefused
  <2> DEFINE g == [gate EXCEPT !.canResume = FALSE]
  <2>1. g \in Gate
    BY <1>1 DEF Gate
  <2>2. gate' = [Cleanup(g) EXCEPT !.reconnecting = FALSE]
    BY <1>6 DEF TokenRefused, CleanedUp
  <2> HIDE DEF g
  <2>3. gate' \in Gate /\ ~gate'.ready
    <3>1. Cleanup(g) \in Gate /\ ~Cleanup(g).ready
      BY <2>1, CleanupFacts
    <3> QED BY <2>2, <3>1 DEF Gate
  <2> QED BY <1>2, <1>6, <2>3, StoppedKeeps DEF TokenRefused
<1>7. CASE ClosedForGood
  <2>1. gate' \in Gate /\ ~gate'.ready
    <3>1. Cleanup(gate) \in Gate /\ ~Cleanup(gate).ready
      BY <1>1, CleanupFacts
    <3> QED BY <1>7, <3>1 DEF ClosedForGood, CleanedUp, Gate
  <2> QED BY <1>2, <1>7, <2>1, StoppedKeeps DEF ClosedForGood
<1> QED BY <1>3, <1>4, <1>5, <1>6, <1>7

LEMMA DiesKeeps ==
  ASSUME DiscordInv, ConnectionDies PROVE DiscordInv'
<1>1. gate \in Gate /\ conn \in Conn /\ DiscordTypeOK
  BY DEF DiscordInv, DiscordTypeOK
<1>2. /\ conn' \in Conn /\ conn'.socket = "open" /\ conn'.server = "dead"
      /\ conn'.inbox = conn.inbox /\ conn.socket = "open"
  BY <1>1 DEF ConnectionDies, Conn
<1>3. WelcomeIsMeant'
  BY <1>2 DEF WelcomeIsMeant
<1>4. faults' \in 0..MaxFaults
  BY <1>1, FaultCounts DEF ConnectionDies
<1> QED BY <1>1, <1>2, <1>3, <1>4, ConnOnly DEF ConnectionDies

LEMMA ReplacedKeeps ==
  ASSUME DiscordInv, ReplacedStops PROVE DiscordInv'
<1>1. client \in Client /\ DiscordTypeOK /\ "build" \in Flagged \ {"connection"}
  BY DEF DiscordInv, DiscordTypeOK, Flagged
<1>2. /\ client' \in Client /\ ~client'.authed /\ client'.at = client.at
      /\ client'.flag["build"] = client.flag["build"]
  BY <1>1, StoppedFlagsFacts DEF ReplacedStops
<1>3. BuiltFirst' /\ ClosedIsKnown'
  BY <1>2 DEF DiscordInv, BuiltFirst, ClosedIsKnown
<1>4. faults' \in 0..MaxFaults
  BY <1>1, FaultCounts DEF ReplacedStops
<1> QED BY <1>1, <1>2, <1>3, <1>4, ClientOnly DEF ReplacedStops, DiscordTypeOK

LEMMA ClosesKeeps ==
  ASSUME DiscordInv, SocketCloses PROVE DiscordInv'
<1>1. /\ conn.socket = "closing" /\ conn.server = "none" /\ (Closes \/ stranded)
      /\ UNCHANGED <<client, gate, activity, leaked, stranded, faults, requests>>
  BY DEF SocketCloses, DiscordInv, CarriesWhenOpen, CloserWaits
<1>2. /\ conn' \in Conn /\ conn'.socket = "closed" /\ conn'.server = "none"
      /\ conn'.inbox = <<>>
  BY NoConnFacts DEF SocketCloses
<1>3. DiscordTypeOK' /\ (Closes' \/ stranded')
  BY <1>1, <1>2 DEF DiscordInv, DiscordTypeOK, Closes
<1> QED BY <1>1, <1>2, <1>3
        DEF DiscordInv, CarriesWhenOpen, WelcomeIsMeant, ReadyIsAccepted, CloserWaits,
            BuiltFirst, ClosedIsKnown

-----------------------------------------------------------------------------
LEMMA GatewayKeeps ==
  ASSUME DiscordInv, GatewayAnswers \/ GatewayAsksToReconnect PROVE DiscordInv'
<1>1. /\ gate \in Gate /\ conn \in Conn /\ DiscordTypeOK /\ conn.socket = "open"
      /\ UNCHANGED <<client, gate, activity, leaked, stranded, requests>>
  BY DEF GatewayAnswers, GatewayAsksToReconnect, DiscordInv, DiscordTypeOK
<1>2. faults' \in 0..MaxFaults
  BY <1>1, FaultCounts DEF GatewayAnswers, GatewayAsksToReconnect, DiscordTypeOK
<1>3. PICK c \in Conn, m \in Message :
        /\ conn' = Sent(c, m) /\ c.inbox = conn.inbox /\ c.socket = "open"
        /\ conn.server # "none" => c.server # "none"
        /\ m \in {"ready", "resumed"} => c.server # "none"
  <2> DEFINE accepts == [conn EXCEPT !.server = "identified", !.request = "none"]
             refuses == [conn EXCEPT !.request = "none"]
  <2>1. /\ accepts \in Conn /\ accepts.inbox = conn.inbox /\ accepts.socket = "open"
        /\ accepts.server = "identified"
    BY <1>1 DEF Conn
  <2>2. /\ refuses \in Conn /\ refuses.inbox = conn.inbox /\ refuses.socket = "open"
        /\ refuses.server = conn.server
    BY <1>1 DEF Conn
  <2>3. /\ {"ready", "resumed", "invalid", "resumable", "reconnect"} \subseteq Message
    BY DEF Message
  <2>4. \/ conn' = Sent(accepts, "ready") \/ conn' = Sent(accepts, "resumed")
        \/ conn' = Sent(refuses, "invalid") \/ conn' = Sent(refuses, "resumable")
        \/ conn' = Sent(conn, "reconnect")
    BY DEF GatewayAnswers, GatewayAsksToReconnect
  <2> HIDE DEF accepts, refuses
  <2> QED BY <1>1, <2>1, <2>2, <2>3, <2>4
<1>4. /\ conn' \in Conn /\ conn'.socket = "open" /\ conn'.server = c.server
      /\ \A i \in DOMAIN conn'.inbox :
           conn'.inbox[i] = m \/ (i \in DOMAIN c.inbox /\ conn'.inbox[i] = c.inbox[i])
  BY <1>3, SentFacts
<1>5. WelcomeIsMeant'
  BY <1>3, <1>4 DEF DiscordInv, WelcomeIsMeant
<1> QED BY <1>1, <1>2, <1>3, <1>4, <1>5, ConnOnly

-----------------------------------------------------------------------------
(* A reconnect is about to clean up, whatever the gateway client thinks.    *)
LEMMA ReconnectKeeps ==
  ASSUME DiscordInv, NEW g \in Gate, StartsReconnect(g),
         UNCHANGED <<leaked, stranded, faults, requests>>
  PROVE  DiscordInv'
<1>1. client \in Client /\ conn \in Conn /\ DiscordTypeOK
  BY DEF DiscordInv, DiscordTypeOK
<1>2. PICK a \in Reconnect : activity' = [activity EXCEPT ![a] = "closing"]
  BY DEF StartsReconnect
<1>3. gate' = g /\ UNCHANGED client
  BY DEF StartsReconnect
<1>4. Reconnect \subseteq Activity /\ Initialize \in Activity /\ Initialize \notin Reconnect
  BY DiscordAssumption DEF Activity
<1>5. /\ activity' \in [Activity -> {"idle", "closing", "opening", "awaiting"}]
      /\ activity'[a] = "closing" /\ activity'[Initialize] = activity[Initialize]
  BY <1>1, <1>2, <1>4 DEF DiscordTypeOK
<1>6. /\ conn' \in Conn /\ conn'.server = "none" /\ conn'.inbox = <<>>
  <2>1. CASE conn.socket = "closed" /\ conn' = conn
    BY <1>1, <2>1 DEF DiscordInv, CarriesWhenOpen
  <2>2. CASE conn' = [NoConn EXCEPT !.socket = "closing"]
    BY <2>2, NoConnFacts DEF Conn
  <2> QED BY <2>1, <2>2 DEF StartsReconnect
<1>7. DiscordTypeOK' /\ Closes'
  BY <1>1, <1>3, <1>4, <1>5, <1>6 DEF DiscordTypeOK, Closes
<1>8. CarriesWhenOpen' /\ WelcomeIsMeant' /\ ReadyIsAccepted' /\ ClosedIsKnown'
  BY <1>6, <1>7 DEF CarriesWhenOpen, WelcomeIsMeant, ReadyIsAccepted, ClosedIsKnown
<1>9. CloserWaits' /\ BuiltFirst'
  BY <1>3, <1>5, <1>7 DEF DiscordInv, CloserWaits, BuiltFirst
<1> QED BY <1>7, <1>8, <1>9 DEF DiscordInv

(* What waits in the inbox once the first message is handled. *)
LEMMA HandledFacts ==
  ASSUME DiscordInv, conn.inbox # <<>>, NEW g, Handled(g)
  PROVE  /\ conn' \in Conn /\ conn'.socket = "open" /\ conn.socket = "open"
         /\ conn'.server = conn.server /\ WelcomeIsMeant'
<1>1. conn \in Conn /\ conn.socket = "open"
  BY DEF DiscordInv, DiscordTypeOK, CarriesWhenOpen
<1> DEFINE q == Tail(conn.inbox)
<1>2. q \in Seq(Message) /\ \A i \in DOMAIN q : i + 1 \in DOMAIN conn.inbox
                                                /\ q[i] = conn.inbox[i + 1]
  BY <1>1 DEF Conn
<1>3. conn' = [conn EXCEPT !.inbox = q]
  BY <1>1 DEF Handled, Conn
<1> HIDE DEF q
<1>4. /\ conn' \in Conn /\ conn'.socket = "open" /\ conn'.server = conn.server
      /\ conn'.inbox = q
  BY <1>1, <1>2, <1>3 DEF Conn
<1>5. WelcomeIsMeant'
  BY <1>2, <1>4 DEF DiscordInv, WelcomeIsMeant
<1> QED BY <1>1, <1>4, <1>5

(* 'ready' comes from a gateway that has accepted the Client. *)
LEMMA WelcomeKeeps ==
  ASSUME DiscordInv, conn.inbox # <<>>, Head(conn.inbox) \in {"ready", "resumed"},
         NEW g \in Gate, Handled(g), Ready,
         UNCHANGED <<leaked, stranded, faults, requests>>
  PROVE  DiscordInv'
<1>1. client \in Client /\ DiscordTypeOK /\ conn \in Conn
  BY DEF DiscordInv, DiscordTypeOK
<1>2. /\ conn' \in Conn /\ conn'.socket = "open" /\ conn'.server = conn.server
      /\ WelcomeIsMeant' /\ gate' = g
  BY HandledFacts DEF Handled
<1>3. conn.server # "none"
  <2>1. 1 \in DOMAIN conn.inbox /\ conn.inbox[1] = Head(conn.inbox)
    BY <1>1 DEF Conn
  <2> QED BY <2>1 DEF DiscordInv, WelcomeIsMeant
<1>4. /\ client' \in Client /\ client'.flag = client.flag
      /\ \/ client' = client /\ activity[Initialize] # "awaiting"
         \/ client'.at = "idle" /\ client.flag["build"] = "ok"
            /\ activity[Initialize] = "awaiting"
  <2>1. CASE activity[Initialize] = "awaiting"
    <3>1. client' = Authenticated(client)
      BY <2>1 DEF Ready
    <3>2. client.flag["build"] = "ok"
      BY <2>1 DEF DiscordInv, DiscordTypeOK, BuiltFirst
    <3> QED BY <1>1, <2>1, <3>1, <3>2, AuthenticatedFacts
  <2>2. CASE activity[Initialize] # "awaiting"
    BY <1>1, <2>2 DEF Ready
  <2> QED BY <2>1, <2>2
<1>5. Initialize \in Activity
  BY DEF Activity
<1>6. /\ activity' \in [Activity -> {"idle", "closing", "opening", "awaiting"}]
      /\ activity[Initialize] = "awaiting" => activity'[Initialize] = "idle"
      /\ activity[Initialize] # "awaiting" => activity'[Initialize] = activity[Initialize]
  BY <1>1, <1>5 DEF Ready, DiscordTypeOK
<1>7. DiscordTypeOK'
  <2>1. activity'[Initialize] # "idle" => client'.at \in {"connection", "auth"}
    BY <1>1, <1>4, <1>6 DEF DiscordTypeOK
  <2> QED BY <1>1, <1>2, <1>4, <1>6, <2>1 DEF DiscordTypeOK
<1>8. CarriesWhenOpen' /\ ReadyIsAccepted' /\ ClosedIsKnown'
  BY <1>2, <1>3 DEF CarriesWhenOpen, ReadyIsAccepted, ClosedIsKnown
<1>9. CloserWaits' /\ BuiltFirst'
  BY <1>2, <1>4, <1>6 DEF DiscordInv, CloserWaits, BuiltFirst
<1> QED BY <1>2, <1>7, <1>8, <1>9 DEF DiscordInv

LEMMA MessageKeeps ==
  ASSUME DiscordInv, MessageHandled PROVE DiscordInv'
<1> DEFINE m == Head(conn.inbox)
<1>1. /\ gate \in Gate /\ conn.inbox # <<>> /\ DiscordTypeOK
      /\ UNCHANGED <<leaked, stranded, faults, requests>>
  BY DEF MessageHandled, DiscordInv, DiscordTypeOK
<1>2. CASE UNCHANGED <<client, activity>>
             /\ (\/ Handled([gate EXCEPT !.hello = TRUE])
                 \/ Handled([gate EXCEPT !.acknowledged = TRUE]))
  <2>1. PICK g \in Gate : Handled(g) /\ g.ready = gate.ready
    <3> DEFINE h == [gate EXCEPT !.hello = TRUE]
               k == [gate EXCEPT !.acknowledged = TRUE]
    <3>1. h \in Gate /\ h.ready = gate.ready
      BY <1>1 DEF Gate
    <3>2. k \in Gate /\ k.ready = gate.ready
      BY <1>1 DEF Gate
    <3>3. Handled(h) \/ Handled(k)
      BY <1>2
    <3> HIDE DEF h, k
    <3> QED BY <3>1, <3>2, <3>3
  <2>2. gate' = g
    BY <2>1 DEF Handled
  <2>3. /\ conn' \in Conn /\ conn'.socket = "open" /\ conn.socket = "open"
        /\ conn'.server = conn.server /\ WelcomeIsMeant'
    BY <1>1, <2>1, HandledFacts
  <2> QED BY <1>1, <1>2, <2>1, <2>2, <2>3, ConnOnly DEF DiscordTypeOK
<1>3. CASE /\ m \in {"ready", "resumed"} /\ Ready
           /\ Handled([gate EXCEPT !.canResume = TRUE, !.ready = TRUE, !.session = TRUE,
                                   !.reconnecting = FALSE,
                                   !.timer = @ \/ m = "resumed"])
  <2> DEFINE t == gate.timer \/ m = "resumed"
             g == [gate EXCEPT !.canResume = TRUE, !.ready = TRUE, !.session = TRUE,
                               !.reconnecting = FALSE, !.timer = t]
  <2>1. t \in BOOLEAN
    BY Zenon
  <2>2. Handled(g)
    BY <1>1, <1>3 DEF Gate
  <2> HIDE DEF t
  <2>3. g \in Gate
    BY <1>1, <2>1 DEF Gate
  <2> HIDE DEF g
  <2> QED BY <1>1, <1>3, <2>2, <2>3, WelcomeKeeps
<1>4. CASE StartsReconnect([gate EXCEPT !.canResume = m = "resumable"])
  <2> DEFINE b == m = "resumable"
  <2>1. b \in BOOLEAN
    BY Zenon
  <2>2. StartsReconnect([gate EXCEPT !.canResume = b])
    BY <1>4
  <2> HIDE DEF b
  <2>3. [gate EXCEPT !.canResume = b] \in Gate
    BY <1>1, <2>1 DEF Gate
  <2> QED BY <1>1, <2>2, <2>3, ReconnectKeeps
<1>5. CASE StartsReconnect(gate)
  BY <1>1, <1>5, ReconnectKeeps
<1> QED BY <1>2, <1>3, <1>4, <1>5 DEF MessageHandled

LEMMA HeartbeatKeeps ==
  ASSUME DiscordInv, FirstHeartbeat \/ NextHeartbeat PROVE DiscordInv'
<1>1. gate \in Gate /\ conn \in Conn /\ DiscordTypeOK
      /\ UNCHANGED <<leaked, stranded, faults, requests>>
  BY DEF FirstHeartbeat, NextHeartbeat, DiscordInv, DiscordTypeOK
<1>2. CASE /\ UNCHANGED <<client, activity>> /\ gate' \in Gate /\ gate'.ready = gate.ready
           /\ conn' = IF conn.socket = "open" THEN Sent(conn, "ack") ELSE conn
  <2>1. "ack" \in Message
    BY DEF Message
  <2>2. /\ conn' \in Conn /\ conn'.socket = conn.socket /\ conn'.server = conn.server
        /\ conn'.inbox # <<>> => conn.inbox # <<>> \/ conn.socket = "open"
        /\ \A i \in DOMAIN conn'.inbox :
             conn'.inbox[i] = "ack" \/ (i \in DOMAIN conn.inbox /\ conn'.inbox[i] = conn.inbox[i])
    BY <1>1, <1>2, <2>1, SentFacts
  <2>3. WelcomeIsMeant'
    BY <2>2 DEF DiscordInv, WelcomeIsMeant
  <2>4. conn'.server # "none" \/ conn'.inbox # <<>> => conn'.socket = "open"
    BY <2>2 DEF DiscordInv, CarriesWhenOpen
  <2> QED BY <1>1, <1>2, <2>2, <2>3, <2>4, ConnOnly DEF DiscordTypeOK
<1> DEFINE open == conn.socket = "open"
           t == gate.timer \/ open
<1>3. open \in BOOLEAN /\ t \in BOOLEAN
  BY Zenon
<1>4. CASE FirstHeartbeat
  <2>1. gate' = [gate EXCEPT !.hello = FALSE, !.timer = t]
    BY <1>1, <1>4 DEF FirstHeartbeat, Gate
  <2>2. gate' \in Gate /\ gate'.ready = gate.ready
    <3> HIDE DEF t, open
    <3> QED BY <1>1, <1>3, <2>1 DEF Gate
  <2> QED BY <1>2, <1>4, <2>2 DEF FirstHeartbeat
<1>5. CASE NextHeartbeat
  <2> DEFINE g == [gate EXCEPT !.timer = FALSE]
  <2>1. g \in Gate /\ g.ready = gate.ready
    BY <1>1 DEF Gate
  <2>2. CASE StartsReconnect(g)
    BY <1>1, <2>1, <2>2, ReconnectKeeps
  <2>3. CASE /\ gate' = Unacknowledged([g EXCEPT !.timer = open]) /\ UNCHANGED <<client, activity>>
             /\ conn' = IF open THEN Sent(conn, "ack") ELSE conn
    <3>1. gate' \in Gate /\ gate'.ready = gate.ready
      <4>1. gate' = [gate EXCEPT !.timer = open, !.acknowledged = FALSE]
        BY <1>1, <2>3 DEF Unacknowledged, Gate
      <4> HIDE DEF open
      <4> QED BY <1>1, <1>3, <4>1 DEF Gate
    <3> QED BY <1>2, <2>3, <3>1
  <2> QED BY <1>5, <2>2, <2>3 DEF NextHeartbeat
<1> QED BY <1>4, <1>5

LEMMA GoesOnKeeps ==
  ASSUME DiscordInv, NEW a \in Reconnect, ReconnectGoesOn(a) PROVE DiscordInv'
BY OpeningKeeps, DiscordAssumption DEF ReconnectGoesOn, CleanedUp, Activity

(* A reconnect that gives up leaves a connection that is authenticated, or   *)
(* a Client that nobody will help.                                          *)
LEMMA GivesUpKeeps ==
  ASSUME DiscordInv, NEW a \in Reconnect, ReconnectGivesUp(a) PROVE DiscordInv'
<1>1. /\ DiscordTypeOK /\ conn.socket = "open" /\ activity' = [activity EXCEPT ![a] = "idle"]
      /\ UNCHANGED <<client, gate, conn, leaked, faults, requests>>
  BY DEF ReconnectGivesUp, DiscordInv
<1>2. /\ stranded' \in BOOLEAN /\ (stranded => stranded')
      /\ conn.server = "none" => stranded'
  <2>1. stranded' = (stranded \/ conn.server = "none")
    BY DEF ReconnectGivesUp
  <2> QED BY <2>1, Zenon
<1>3. /\ activity' \in [Activity -> {"idle", "closing", "opening", "awaiting"}]
      /\ activity'[Initialize] = activity[Initialize]
  BY <1>1, DiscordAssumption DEF DiscordTypeOK, Activity
<1>4. DiscordTypeOK'
  BY <1>1, <1>2, <1>3 DEF DiscordTypeOK
<1>5. ReadyIsAccepted' /\ CloserWaits' /\ BuiltFirst' /\ ClosedIsKnown'
  BY <1>1, <1>2, <1>3
     DEF DiscordInv, ReadyIsAccepted, CloserWaits, BuiltFirst, ClosedIsKnown
<1>6. CarriesWhenOpen' /\ WelcomeIsMeant'
  BY <1>1 DEF DiscordInv, CarriesWhenOpen, WelcomeIsMeant
<1> QED BY <1>4, <1>5, <1>6 DEF DiscordInv

(* One that stops waiting for the socket to close strands the Client.       *)
LEMMA TooLongKeeps ==
  ASSUME DiscordInv, NEW a \in Reconnect, CloseTakesTooLong(a) PROVE DiscordInv'
<1>1. /\ DiscordTypeOK /\ conn.socket = "closing" /\ activity' = [activity EXCEPT ![a] = "idle"]
      /\ stranded' = TRUE /\ UNCHANGED <<client, gate, conn, leaked, requests>>
  BY DEF CloseTakesTooLong, DiscordInv
<1>2. faults' \in 0..MaxFaults
  BY <1>1, FaultCounts DEF CloseTakesTooLong
<1>3. /\ activity' \in [Activity -> {"idle", "closing", "opening", "awaiting"}]
      /\ activity'[Initialize] = activity[Initialize]
  BY <1>1, DiscordAssumption DEF DiscordTypeOK, Activity
<1>4. DiscordTypeOK'
  BY <1>1, <1>2, <1>3 DEF DiscordTypeOK
<1>5. ReadyIsAccepted' /\ CloserWaits' /\ BuiltFirst' /\ ClosedIsKnown'
  BY <1>1, <1>3
     DEF DiscordInv, ReadyIsAccepted, CloserWaits, BuiltFirst, ClosedIsKnown
<1>6. CarriesWhenOpen' /\ WelcomeIsMeant'
  BY <1>1 DEF DiscordInv, CarriesWhenOpen, WelcomeIsMeant
<1> QED BY <1>4, <1>5, <1>6 DEF DiscordInv

LEMMA TimeoutKeeps ==
  ASSUME DiscordInv, NEW a \in Activity, AnswerTooLate(a) \/ AnswerNeverComes(a)
  PROVE  DiscordInv'
<1>1. /\ DiscordTypeOK /\ client \in Client /\ TimesOut(a) /\ Waiting(a)
      /\ UNCHANGED <<gate, conn, leaked, requests>>
      /\ activity' = [activity EXCEPT ![a] = "idle"]
  BY DEF AnswerTooLate, AnswerNeverComes, TimesOut, DiscordInv, DiscordTypeOK
<1>2. stranded' \in BOOLEAN /\ (stranded => stranded')
  <2>1. stranded \in BOOLEAN
    BY <1>1 DEF DiscordTypeOK
  <2>2. \/ stranded' = stranded
        \/ stranded' = (stranded \/ a \in Reconnect
                          \/ (client.at = "connection" /\ Strands(client)))
    BY DEF AnswerTooLate, AnswerNeverComes
  <2> QED BY <2>1, <2>2, Zenon
<1>3. faults' \in 0..MaxFaults
  BY <1>1, FaultCounts DEF AnswerTooLate, AnswerNeverComes, DiscordTypeOK
<1>4. /\ activity' \in [Activity -> {"idle", "closing", "opening", "awaiting"}]
      /\ activity'[a] = "idle" /\ \A b \in Activity \ {a} : activity'[b] = activity[b]
      /\ activity[a] # "closing"
  BY <1>1 DEF DiscordTypeOK, Waiting
<1>5. /\ client' \in Client /\ client'.flag["build"] = client.flag["build"]
      /\ client'.authed => client.authed
      /\ \/ client' = client /\ a # Initialize
         \/ /\ client'.at = "idle" /\ a = Initialize
            /\ ~client'.authed \/ client'.flag["connection"] \notin Fine
  <2>1. "build" \in Flagged \ {"connection"}
    BY DEF Flagged
  <2>2. CASE a = Initialize
    <3>1. client' = StageFails(client)
      BY <1>1, <2>2 DEF TimesOut
    <3> QED BY <1>1, <2>1, <2>2, <3>1, StageFailsFacts
  <2>3. CASE a # Initialize
    BY <1>1, <2>3 DEF TimesOut
  <2> QED BY <2>2, <2>3
<1>6. Initialize \in Activity /\ Reconnect \subseteq Activity
  BY DEF Activity
<1>7. DiscordTypeOK'
  <2>1. activity'[Initialize] # "idle" => client'.at \in {"connection", "auth"}
    BY <1>1, <1>4, <1>5, <1>6 DEF DiscordTypeOK
  <2> QED BY <1>1, <1>2, <1>3, <1>4, <1>5, <2>1 DEF DiscordTypeOK
<1>8. Closes' <=> Closes
  BY <1>4, <1>6 DEF Closes
<1>9. ReadyIsAccepted' /\ CloserWaits'
  BY <1>1, <1>2, <1>4, <1>6, <1>8 DEF DiscordInv, ReadyIsAccepted, CloserWaits
<1>10. BuiltFirst'
  BY <1>2, <1>5 DEF DiscordInv, BuiltFirst
<1>11. ClosedIsKnown'
  BY <1>1, <1>2, <1>5, <1>8 DEF DiscordInv, ClosedIsKnown
<1>12. CarriesWhenOpen' /\ WelcomeIsMeant'
  BY <1>1 DEF DiscordInv, CarriesWhenOpen, WelcomeIsMeant
<1> QED BY <1>7, <1>9, <1>10, <1>11, <1>12 DEF DiscordInv

-----------------------------------------------------------------------------
LEMMA DiscordSteps ==
  ASSUME DiscordInv, [DiscordNext]_discordVars PROVE DiscordInv'
<1>1. CASE UNCHANGED discordVars
  BY <1>1
     DEF discordVars, DiscordInv, DiscordTypeOK, CarriesWhenOpen, WelcomeIsMeant,
         ReadyIsAccepted, CloserWaits, Closes, BuiltFirst, ClosedIsKnown
<1>2. CASE DiscordNext
  BY <1>2, BeginKeeps, SkipKeeps, DatabaseKeeps, BuildKeeps, CacheKeeps, CheckKeeps, AuthKeeps,
     OpensKeeps, LibraryKeeps, DiesKeeps, ReplacedKeeps, ClosesKeeps, GatewayKeeps,
     MessageKeeps, HeartbeatKeeps, GoesOnKeeps, GivesUpKeeps, TooLongKeeps,
     TimeoutKeeps
     DEF DiscordNext
<1> QED BY <1>1, <1>2

LEMMA DiscordInvImplies ==
  ASSUME DiscordInv PROVE ReadyIsReal
<1>1. DiscordTypeOK
  BY DEF DiscordInv
<1>2. ReadyIsIdentified
  BY DEF DiscordInv, ReadyIsAccepted, ReadyIsIdentified, Closes
<1>3. ReadyIsHonest
  <2> SUFFICES ASSUME IsReady, conn.socket = "closed", ~Initializing, ~stranded
               PROVE  Reconnecting
    BY DEF ReadyIsHonest
  <2> QED BY DEF DiscordInv, ClosedIsKnown, Closes, IsReady, Initializing, Reconnecting
<1> QED BY <1>1, <1>2, <1>3 DEF ReadyIsReal

(* The Discord Client's flags tell the truth about its connection: the      *)
(* gateway client is never taken for ready over a socket that it has not    *)
(* authenticated, and a Client that says it is ready has a connection, is   *)
(* getting one, or is the stranded one that the property names; for every   *)
(* number of overlapping reconnects, retries, faults and requests.          *)
THEOREM ReadyAlwaysReal == DiscordSpec => []ReadyIsReal
<1>1. DiscordInit => DiscordInv
  BY DiscordStarts
<1>2. DiscordInv /\ [DiscordNext]_discordVars => DiscordInv'
  BY DiscordSteps
<1>3. DiscordInv => ReadyIsReal
  BY DiscordInvImplies
<1> QED BY <1>1, <1>2, <1>3, PTL DEF DiscordSpec
=============================================================================
