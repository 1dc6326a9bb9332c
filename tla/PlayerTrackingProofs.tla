------------------------ MODULE PlayerTrackingProofs ------------------------
(***************************************************************************)
(* Proofs that what a player of a Source counts as listened to was really  *)
(* played, that nothing worth discovering is forgotten with a player, and  *)
(* that a player goes when it has been silent for too long, and only then. *)
(***************************************************************************)
EXTENDS PlayerTracking, TLAPS

-----------------------------------------------------------------------------
\* What holds of a player, and of the range of listening that is under way.

\* what a session may count: what was heard, and what is forgiven
Forgiven == AllowedDrift + EndBuffer
BySeek   == 2 * AllowedDrift + LongestSilence
Budget(p) == p.heard + p.parts * Forgiven + p.seeks * BySeek

\* the furthest position that a report could still add to the range
Reach(p, c) ==
  IF /\ device.track = p.play /\ p.range.end < device.pos
     /\ device.pos <= p.range.rt - (clock - c) + AllowedDrift + LongestSilence
  THEN device.pos ELSE p.range.end

\* The budget covers all that the range can come to, if the last report was at c.
Fair(p, c) ==
  IF p.range = NoRange THEN p.listened <= Budget(p)
  ELSE IF setup.kind = "positional"
  THEN /\ p.range.rt - AllowedDrift - (clock - c) <= p.range.end
       /\ p.listened + Reach(p, c) - p.range.start + EndBuffer <= Budget(p)
  ELSE /\ p.range.end <= p.range.rt + AllowedDrift
       /\ p.listened + p.range.rt - p.range.start + Forgiven <= Budget(p)

RangeIsSound(r) ==
  /\ r.start <= r.end /\ r.start <= r.rt
  /\ r.rt <= Duration + clock
  /\ IF Positional THEN r.end <= Duration ELSE r.end <= r.rt

SessionIsSound(p) ==
  /\ p.range # NoRange => p.play # None /\ RangeIsSound(p.range)
  /\ p.stateUpdated <= p.contact /\ p.playUpdated <= p.contact
  /\ p.contact <= clock

Recent(p) == clock - p.contact < DeadAfter \/ clock - p.contact <= StaleAfter

-----------------------------------------------------------------------------
\* The inductive invariant.

DeviceIsPast == device.since <= clock

\* An attempt has seen all of the session.
SeesAll(p) ==
  p.attempted => /\ ListenDuration(p) <= p.judged
                 /\ p.calculated \in {"stale", "orphaned"}

\* Only a Source that knows so says that a player has stopped, without a track.
Live(p) == p.reported = "stopped" => setup.known /\ p.play = None

Fit(p) == SessionIsSound(p) /\ Fair(p, p.contact) /\ Live(p) /\ SeesAll(p)

PlayerIsFit == Exists => Fit(player)

\* Between two looks after the player no more than a tick passes.
SilenceIsShort ==
  ~IsIngress /\ Exists /\ player.play # None => clock - player.contact <= LongestSilence

\* A served player is recent, or its end has been decided.
ServedIsRecent ==
  Exists /\ player.play # None /\ served =>
    \/ Recent(player)
    \/ cleaning # NoCleanup /\ cleaning.kill

\* A cleanup that waits has attempted the player; if it is to kill it, it is dead.
CleanupIsKnown ==
  cleaning # NoCleanup /\ Exists =>
    /\ cleaning.kill => clock - player.stateUpdated >= DeadAfter \/ (IsIngress /\ raced)
    /\ ~IsIngress => player.attempted

PlayerInv ==
  /\ PlayerTypeOK /\ DeviceIsPast /\ PlayerIsFit
  /\ SilenceIsShort /\ ServedIsRecent /\ CleanupIsKnown
  /\ SessionsAreKept

-----------------------------------------------------------------------------
\* What the lemmas take for granted of the time of a report.

Scene ==
  /\ setup \in Setups /\ clock \in 0..MaxTime
  /\ device \in Device /\ device.since <= clock

LEMMA Amounts ==
  /\ {StaleAfter, OrphanedAfter, DeadAfter, LongestSilence, Forgiven, BySeek} \subseteq Nat
  /\ OrphanedAfter <= DeadAfter
  /\ LongestSilence >= DeadAfter /\ LongestSilence >= StaleAfter
  /\ AllowedDrift \in Nat /\ EndBuffer \in Nat /\ AllowedDrift >= 1
  /\ Duration \in Nat /\ MaxTime \in Nat /\ MaxGestures \in Nat
  /\ Forgiven = AllowedDrift + EndBuffer
  /\ BySeek = 2 * AllowedDrift + LongestSilence
  /\ \A t \in Track : t # None
<1>1. /\ AllowedDrift \in Nat /\ EndBuffer \in Nat /\ AllowedDrift >= 1
      /\ Duration \in Nat /\ MaxTime \in Nat /\ MaxGestures \in Nat
      /\ StaleInterval \in Nat /\ OrphanedInterval \in Nat
      /\ \A t \in Track : t # None
  BY PlayerAssumption
<1>2. OrphanedAfter \in Nat
  BY <1>1 DEF OrphanedAfter
<1>3. DeadAfter \in Nat /\ OrphanedAfter <= DeadAfter
  BY <1>2 DEF DeadAfter
<1>4. StaleAfter \in Nat
  BY <1>1 DEF StaleAfter
<1>5. /\ LongestSilence \in Nat
      /\ LongestSilence >= DeadAfter /\ LongestSilence >= StaleAfter
  BY <1>3, <1>4 DEF LongestSilence
<1>6. Forgiven \in Nat /\ BySeek \in Nat
  BY <1>1, <1>5 DEF Forgiven, BySeek
<1> QED
  BY <1>1, <1>2, <1>3, <1>4, <1>5, <1>6 DEF Forgiven, BySeek

LEMMA BudgetIsNat ==
  ASSUME NEW p \in Player
  PROVE  Budget(p) \in Nat
<1>1. Forgiven \in Nat /\ BySeek \in Nat
  BY Amounts
<1>2. p.heard \in Nat /\ p.parts \in Nat /\ p.seeks \in Nat
  BY DEF Player
<1>3. p.parts * Forgiven \in Nat /\ p.seeks * BySeek \in Nat
  BY <1>1, <1>2
<1> QED
  BY <1>2, <1>3 DEF Budget

\* A budget grows with each range and with each seek.
LEMMA BudgetGrows ==
  ASSUME NEW p \in Player, NEW q \in Player
  PROVE  /\ q.heard = p.heard /\ q.parts = p.parts /\ q.seeks = p.seeks
              => Budget(q) = Budget(p)
         /\ q.heard = p.heard + 1 /\ q.parts = p.parts /\ q.seeks = p.seeks
              => Budget(q) = Budget(p) + 1
         /\ q.heard = p.heard /\ q.parts = p.parts + 1 /\ q.seeks = p.seeks
              => Budget(q) = Budget(p) + Forgiven
         /\ q.heard = p.heard /\ q.parts = p.parts /\ q.seeks = p.seeks + 1
              => Budget(q) = Budget(p) + BySeek
<1>1. Forgiven \in Nat /\ BySeek \in Nat
  BY Amounts
<1>2. p.heard \in Nat /\ p.parts \in Nat /\ p.seeks \in Nat
  BY DEF Player
<1>3. p.parts * Forgiven \in Nat /\ p.seeks * BySeek \in Nat
  BY <1>1, <1>2
<1>4. \A m \in Nat : \A n \in Nat : (m + 1) * n = m * n + n
  OBVIOUS
<1>5. /\ (p.parts + 1) * Forgiven = p.parts * Forgiven + Forgiven
      /\ (p.seeks + 1) * BySeek = p.seeks * BySeek + BySeek
  BY <1>1, <1>2, <1>4
<1> HIDE DEF Forgiven, BySeek
<1>6. q.heard = p.heard /\ q.parts = p.parts /\ q.seeks = p.seeks
         => Budget(q) = Budget(p)
  BY DEF Budget
<1>7. q.heard = p.heard + 1 /\ q.parts = p.parts /\ q.seeks = p.seeks
         => Budget(q) = Budget(p) + 1
  BY <1>2, <1>3 DEF Budget
<1>8. q.heard = p.heard /\ q.parts = p.parts + 1 /\ q.seeks = p.seeks
         => Budget(q) = Budget(p) + Forgiven
  BY <1>1, <1>2, <1>3, <1>5 DEF Budget
<1>9. q.heard = p.heard /\ q.parts = p.parts /\ q.seeks = p.seeks + 1
         => Budget(q) = Budget(p) + BySeek
  BY <1>1, <1>2, <1>3, <1>5 DEF Budget
<1> QED
  BY <1>6, <1>7, <1>8, <1>9

-----------------------------------------------------------------------------
\* A range that ends.

LEMMA RangeFields ==
  ASSUME NEW p \in Player
  PROVE  /\ p.listened \in Nat
         /\ p.range # NoRange =>
              /\ p.range \in Range
              /\ p.range.start \in Nat /\ p.range.end \in Nat /\ p.range.rt \in Nat
<1>1. p.listened \in Nat /\ p.range \in Range \cup {NoRange}
  BY DEF Player
<1>2. 0..Duration + MaxTime \subseteq Nat
  BY Amounts
<1> QED
  BY <1>1, <1>2 DEF Range

\* What is added up never exceeds the budget.
LEMMA TotalIsFair ==
  ASSUME NEW p \in Player, NEW c \in 0..clock, Scene,
         p.range # NoRange => RangeIsSound(p.range),
         Fair(p, c)
  PROVE  Total(p) \in Nat /\ Total(p) <= Budget(p)
<1>1. Budget(p) \in Nat
  BY BudgetIsNat
<1>2. CASE p.range = NoRange
  BY <1>1, <1>2, RangeFields DEF Total, RangeDuration, Fair
<1>3. CASE p.range # NoRange
  <2> DEFINE r == p.range
             B == Budget(p)
  <2>1. /\ r.start \in Nat /\ r.end \in Nat /\ r.rt \in Nat /\ p.listened \in Nat
        /\ r.start <= r.end /\ r.start <= r.rt
        /\ Positional => r.end <= Duration
        /\ ~Positional => r.end <= r.rt
    BY <1>3, RangeFields DEF RangeIsSound
  <2>2. B \in Nat
    BY <1>1
  <2>3. Reach(p, c) \in Nat /\ r.end <= Reach(p, c)
    BY <2>1 DEF Reach, Scene, Device
  <2> HIDE DEF r, B
  <2>4. CASE setup.kind = "positional"
    <3>1. p.listened + r.end - r.start + EndBuffer <= B
      BY <1>3, <2>1, <2>2, <2>3, <2>4, Amounts DEF Fair, r, B
    <3>2. FinalPosition(p) \in Nat
          /\ r.end <= FinalPosition(p) /\ FinalPosition(p) <= r.end + EndBuffer
      BY <2>1, <2>4, Amounts DEF FinalPosition, Positional, r
    <3> QED
      BY <1>3, <2>1, <2>2, <3>1, <3>2, Amounts DEF Total, RangeDuration, r, B
  <2>5. CASE setup.kind # "positional"
    <3>1. /\ r.end <= r.rt + AllowedDrift
          /\ p.listened + r.rt - r.start + AllowedDrift + EndBuffer <= B
      BY <1>3, <2>1, <2>2, <2>5, Amounts DEF Fair, r, B
    <3>2. FinalPosition(p) \in Nat /\ r.start <= FinalPosition(p)
          /\ FinalPosition(p) <= r.rt + AllowedDrift + EndBuffer
      BY <2>1, <2>5, <3>1, Amounts DEF FinalPosition, Positional, Scene, Setups, r
    <3> QED
      BY <1>3, <2>1, <2>2, <3>1, <3>2, Amounts DEF Total, RangeDuration, r, B
  <2> QED
    BY <2>4, <2>5
<1> QED
  BY <1>2, <1>3

\* What a player is listened to is not more than it may come to.
LEMMA ListenedIsFair ==
  ASSUME NEW p \in Player, NEW c \in 0..clock, Scene,
         p.range # NoRange => RangeIsSound(p.range),
         Fair(p, c)
  PROVE  ListenDuration(p) \in Nat /\ ListenDuration(p) <= Budget(p)
<1>1. Budget(p) \in Nat
  BY BudgetIsNat
<1>2. CASE p.range = NoRange
  BY <1>1, <1>2, RangeFields DEF ListenDuration, RangeDuration, Fair
<1>3. CASE p.range # NoRange
  <2> DEFINE r == p.range
             B == Budget(p)
  <2>1. /\ r.start \in Nat /\ r.end \in Nat /\ r.rt \in Nat /\ p.listened \in Nat
        /\ r.start <= r.end
    BY <1>3, RangeFields DEF RangeIsSound
  <2>2. B \in Nat
    BY <1>1
  <2>3. Reach(p, c) \in Nat /\ r.end <= Reach(p, c)
    BY <2>1 DEF Reach, Scene, Device
  <2> HIDE DEF r, B
  <2>4. p.listened + r.end - r.start <= B
    BY <1>3, <2>1, <2>2, <2>3, Amounts DEF Fair, r, B
  <2> QED
    BY <1>3, <2>1, <2>4 DEF ListenDuration, RangeDuration, r, B
<1> QED
  BY <1>2, <1>3

-----------------------------------------------------------------------------
\* A player whose last report was at c.

Ready(p, c) ==
  /\ p \in Player
  /\ p.range # NoRange => p.play # None /\ RangeIsSound(p.range)
  /\ p.stateUpdated <= clock /\ p.playUpdated <= clock
  /\ Fair(p, c)

\* The rest of a player does not matter to that.
LEMMA ReadySame ==
  ASSUME NEW p, NEW q \in Player, NEW c \in 0..clock, Ready(p, c),
         q.range = p.range, q.play = p.play, q.listened = p.listened,
         q.heard = p.heard, q.parts = p.parts, q.seeks = p.seeks,
         q.stateUpdated <= clock, q.playUpdated <= clock
  PROVE  Ready(q, c)
<1>1. Budget(q) = Budget(p)
  BY BudgetGrows DEF Ready
<1>2. Reach(q, c) = Reach(p, c)
  BY DEF Reach
<1>3. Fair(q, c)
  BY <1>1, <1>2 DEF Fair, Ready
<1> QED
  BY <1>3 DEF Ready

\* A range ends.
LEMMA AfterEnd ==
  ASSUME NEW p, NEW c \in 0..clock, NEW d \in 0..clock, Scene, Ready(p, c)
  PROVE  /\ Ready(SessionEnd(p), d)
         /\ SessionEnd(p).range = NoRange
         /\ SessionEnd(p).listened <= Budget(SessionEnd(p))
         /\ SessionEnd(p).play = p.play
         /\ SessionEnd(p).reported = p.reported
         /\ SessionEnd(p).calculated = p.calculated
         /\ SessionEnd(p).firstSeen = p.firstSeen
         /\ SessionEnd(p).born = p.born
         /\ SessionEnd(p).repeat = p.repeat
         /\ SessionEnd(p).contact = p.contact
<1> DEFINE q == SessionEnd(p)
<1>1. p \in Player
  BY DEF Ready
<1>2. Total(p) \in Nat /\ Total(p) <= Budget(p)
  BY <1>1, TotalIsFair DEF Ready
<1>3. q \in Player
  BY <1>1, <1>2 DEF SessionEnd, Player
<1>4. /\ q.range = NoRange /\ q.listened = Total(p) /\ q.play = p.play
      /\ q.heard = p.heard /\ q.parts = p.parts /\ q.seeks = p.seeks
      /\ q.stateUpdated = p.stateUpdated /\ q.playUpdated = p.playUpdated
      /\ q.reported = p.reported /\ q.calculated = p.calculated
      /\ q.firstSeen = p.firstSeen /\ q.born = p.born /\ q.repeat = p.repeat
      /\ q.contact = p.contact
  BY <1>1 DEF SessionEnd, Player
<1> HIDE DEF q
<1>5. Budget(q) = Budget(p)
  BY <1>1, <1>3, <1>4, BudgetGrows
<1>6. Fair(q, d)
  BY <1>2, <1>4, <1>5 DEF Fair
<1>7. Ready(q, d)
  BY <1>3, <1>4, <1>6 DEF Ready
<1> QED
  BY <1>2, <1>4, <1>5, <1>7 DEF q

\* A range begins where the device is.
LEMMA AfterStart ==
  ASSUME NEW p, NEW c \in 0..clock, Scene, Ready(p, c),
         p.range = NoRange, p.play = device.track, p.play # None
  PROVE  /\ Ready(SessionContinue(p, device.pos), clock)
         /\ SessionContinue(p, device.pos).play = p.play
         /\ SessionContinue(p, device.pos).reported = p.reported
         /\ SessionContinue(p, device.pos).born = p.born
         /\ SessionContinue(p, device.pos).firstSeen = p.firstSeen
<1> DEFINE q == SessionContinue(p, device.pos)
           s == StartPosition(p, device.pos)
           r == [start |-> s, end |-> s, rt |-> s]
<1>1. p \in Player /\ p.listened \in Nat /\ p.listened <= Budget(p)
  BY RangeFields DEF Ready, Fair
<1>2. device.pos \in 0..Duration /\ Duration \in Nat /\ clock \in Nat /\ MaxTime \in Nat
  BY Amounts DEF Scene, Device
<1>3. /\ s \in 0..Duration
      /\ s = device.pos \/ s = 0
      /\ Positional /\ s # device.pos => device.pos <= 1
  BY <1>2 DEF StartPosition
<1> HIDE DEF s
<1>4. r \in Range /\ r # NoRange
  BY <1>2, <1>3 DEF Range, NoRange, Unseen
<1>5. q = [p EXCEPT !.range = r, !.parts = @ + 1]
  BY DEF SessionContinue, s
<1> HIDE DEF q, r
<1>6. q \in Player
  <2> DEFINE m == p.parts + 1
  <2>1. m \in Nat
    BY <1>1 DEF Player
  <2>2. q = [p EXCEPT !.range = r, !.parts = m]
    BY <1>5
  <2> HIDE DEF m
  <2> QED
    BY <1>1, <1>4, <2>1, <2>2 DEF Player
<1>7. /\ q.range = r /\ q.parts = p.parts + 1 /\ q.listened = p.listened
      /\ q.heard = p.heard /\ q.seeks = p.seeks /\ q.play = p.play
      /\ q.stateUpdated = p.stateUpdated /\ q.playUpdated = p.playUpdated
      /\ q.reported = p.reported /\ q.born = p.born /\ q.firstSeen = p.firstSeen
  BY <1>1, <1>5 DEF Player
<1>8. r.start = s /\ r.end = s /\ r.rt = s
  BY DEF r
<1>9. Budget(q) = Budget(p) + Forgiven /\ Budget(p) \in Nat
  BY <1>1, <1>6, <1>7, BudgetGrows, BudgetIsNat
<1>10. RangeIsSound(q.range)
  BY <1>2, <1>3, <1>7, <1>8 DEF RangeIsSound
<1>11. Fair(q, clock)
  <2>1. CASE setup.kind = "positional"
    <3>1. Reach(q, clock) \in Nat /\ Reach(q, clock) <= s + 1
      BY <1>2, <1>3, <1>7, <1>8, <2>1 DEF Reach, Positional
    <3>2. q.listened + Reach(q, clock) - q.range.start + EndBuffer <= Budget(q)
      BY <1>1, <1>2, <1>3, <1>7, <1>8, <1>9, <3>1, Amounts
    <3>3. q.range.rt - AllowedDrift - (clock - clock) <= q.range.end
      BY <1>2, <1>3, <1>7, <1>8, Amounts
    <3> QED
      BY <1>4, <1>7, <2>1, <3>2, <3>3 DEF Fair
  <2>2. CASE setup.kind # "positional"
    <3>1. /\ q.range.end <= q.range.rt + AllowedDrift
          /\ q.listened + q.range.rt - q.range.start + Forgiven <= Budget(q)
      BY <1>1, <1>2, <1>3, <1>7, <1>8, <1>9, Amounts
    <3> QED
      BY <1>4, <1>7, <2>2, <3>1 DEF Fair
  <2> QED
    BY <2>1, <2>2
<1>12. Ready(q, clock)
  BY <1>6, <1>7, <1>10, <1>11 DEF Ready
<1> QED
  BY <1>7, <1>12 DEF q

\* A range goes on: the device is where an uninterrupted listener would be.
LEMMA AfterMore ==
  ASSUME NEW p, NEW c \in 0..clock, Scene, Ready(p, c),
         p.range # NoRange, p.play = device.track,
         ~Seeked(p.range, device.pos),
         setup.kind = "positional" => clock - c <= LongestSilence
  PROVE  /\ Ready(SessionContinue(p, device.pos), clock)
         /\ SessionContinue(p, device.pos).play = p.play
         /\ SessionContinue(p, device.pos).reported = p.reported
         /\ SessionContinue(p, device.pos).born = p.born
         /\ SessionContinue(p, device.pos).firstSeen = p.firstSeen
<1> DEFINE q == SessionContinue(p, device.pos)
           e == Observed(p.range, device.pos)
           r == [p.range EXCEPT !.end = e]
           k == IF Positional /\ Stuck(p, device.pos)
                THEN IF p.reported = "stopped" THEN "stopped" ELSE "paused"
                ELSE IF Positional /\ device.pos = p.range.end THEN p.calculated
                     ELSE "playing"
<1>1. p \in Player /\ p.listened \in Nat /\ p.range \in Range
      /\ p.range.start \in Nat /\ p.range.end \in Nat /\ p.range.rt \in Nat
  BY RangeFields DEF Ready
<1>2. /\ device.pos \in 0..Duration /\ Duration \in Nat /\ clock \in Nat /\ MaxTime \in Nat
      /\ clock <= MaxTime
  BY Amounts DEF Scene, Device
<1>3. /\ p.range.start <= p.range.end /\ p.range.start <= p.range.rt
      /\ p.range.rt <= Duration + clock
      /\ IF Positional THEN p.range.end <= Duration ELSE p.range.end <= p.range.rt
  BY DEF Ready, RangeIsSound
<1>4. /\ Positional => /\ e = device.pos /\ p.range.end <= e
                       /\ e <= p.range.rt + AllowedDrift
                       /\ p.range.rt - AllowedDrift <= e
      /\ ~Positional => e = p.range.rt
  BY <1>1, <1>2, Amounts DEF Seeked, OverDrifted, Observed
<1>5. e \in 0..Duration + MaxTime /\ p.range.start <= e
  BY <1>1, <1>2, <1>3, <1>4
<1>6. k \in Calculated
  BY <1>1 DEF Player, Calculated, Status
<1>7. q = [p EXCEPT !.calculated = k, !.range = r]
  BY DEF SessionContinue
<1> HIDE DEF e, k, q
<1>8. /\ r \in Range /\ r # NoRange
      /\ r.start = p.range.start /\ r.end = e /\ r.rt = p.range.rt
  BY <1>1, <1>5, Amounts DEF Range, NoRange, Unseen
<1> HIDE DEF r
<1>9. q \in Player
  BY <1>1, <1>6, <1>7, <1>8 DEF Player
<1>10. /\ q.range = r /\ q.parts = p.parts /\ q.listened = p.listened
       /\ q.heard = p.heard /\ q.seeks = p.seeks /\ q.play = p.play
       /\ q.stateUpdated = p.stateUpdated /\ q.playUpdated = p.playUpdated
       /\ q.reported = p.reported /\ q.born = p.born /\ q.firstSeen = p.firstSeen
  BY <1>1, <1>7 DEF Player
<1>11. Budget(q) = Budget(p) /\ Budget(p) \in Nat
  BY <1>1, <1>9, <1>10, BudgetGrows, BudgetIsNat
<1>12. RangeIsSound(q.range)
  BY <1>1, <1>2, <1>3, <1>4, <1>5, <1>8, <1>10 DEF RangeIsSound
<1>13. Fair(q, clock)
  <2>1. CASE setup.kind = "positional"
    <3>1. /\ e = device.pos /\ p.range.end <= e
          /\ e <= p.range.rt + AllowedDrift
          /\ p.range.rt - AllowedDrift <= e
      BY <1>4, <2>1 DEF Positional
    <3>2. Reach(q, clock) = e
      BY <1>8, <1>10, <3>1 DEF Reach
    <3>3. Reach(p, c) = e
      BY <1>1, <1>2, <2>1, <3>1, Amounts DEF Reach
    <3>4. q.listened + Reach(q, clock) - q.range.start + EndBuffer <= Budget(q)
      BY <1>8, <1>10, <1>11, <2>1, <3>2, <3>3 DEF Ready, Fair
    <3>5. q.range.rt - AllowedDrift - (clock - clock) <= q.range.end
      BY <1>1, <1>2, <1>8, <1>10, <3>1, Amounts
    <3> QED
      BY <1>8, <1>10, <2>1, <3>4, <3>5 DEF Fair
  <2>2. CASE setup.kind # "positional"
    <3>1. q.range.end <= q.range.rt + AllowedDrift
      BY <1>1, <1>4, <1>8, <1>10, Amounts
    <3>2. q.listened + q.range.rt - q.range.start + Forgiven <= Budget(q)
      BY <1>8, <1>10, <1>11, <2>2 DEF Ready, Fair
    <3> QED
      BY <1>8, <1>10, <2>2, <3>1, <3>2 DEF Fair
  <2> QED
    BY <2>1, <2>2
<1>14. Ready(q, clock)
  BY <1>8, <1>9, <1>10, <1>12, <1>13 DEF Ready
<1> QED
  BY <1>10, <1>14 DEF q

-----------------------------------------------------------------------------
\* The answer to a report.

ReportIsSound(rep) ==
  /\ rep.track = device.track /\ rep.pos = device.pos
  /\ rep.at \in 0..clock
  /\ rep.track = None => setup.known
  /\ rep.track # None => rep.status \in {"none", "playing", "paused"}
  /\ rep.status = "none" => ~setup.known

LEMMA AfterSet ==
  ASSUME NEW p, NEW c \in 0..clock, NEW rep, Scene, Ready(p, c), ReportIsSound(rep),
         rep.track # None
  PROVE  /\ Ready(SetCurrentPlay(p, rep), clock)
         /\ SetCurrentPlay(p, rep).play = rep.track
         /\ SetCurrentPlay(p, rep).reported = p.reported
         /\ SetCurrentPlay(p, rep).born = p.born
<1> DEFINE q == NewSession(p, rep)
<1>1. /\ p \in Player /\ clock \in Time /\ rep.track \in Track
      /\ p.stateUpdated <= clock /\ p.playUpdated <= clock
  BY Amounts DEF Ready, Scene, Device, ReportIsSound, Time, Unseen
<1>2. q \in Player
  BY <1>1 DEF NewSession, Player
<1>3. /\ q.play = rep.track /\ q.range = NoRange /\ q.listened = 0
      /\ q.reported = p.reported /\ q.born = p.born
      /\ q.stateUpdated = p.stateUpdated /\ q.playUpdated = p.playUpdated
  BY <1>1 DEF NewSession, Player
<1> HIDE DEF q
<1>4. Budget(q) \in Nat
  BY <1>2, BudgetIsNat
<1>5. Ready(q, clock)
  BY <1>1, <1>2, <1>3, <1>4 DEF Ready, Fair
<1>6. clock \in 0..clock
  BY Amounts DEF Scene
<1>7. CASE q.reported = "stopped"
  BY <1>3, <1>5, <1>7 DEF SetCurrentPlay, q
<1>8. CASE q.reported # "stopped"
  <2>1. SetCurrentPlay(p, rep) = SessionContinue(q, device.pos)
    BY <1>8 DEF SetCurrentPlay, q, ReportIsSound
  <2>2. q.play = device.track /\ q.play # None
    BY <1>3 DEF ReportIsSound
  <2> QED
    BY <1>3, <1>5, <1>6, <2>1, <2>2, AfterStart
<1> QED
  BY <1>7, <1>8

LEMMA PlayedIsPlay ==
  ASSUME NEW p \in Player, p.play # None, ListenDuration(p) \in Nat
  PROVE  PlayedObject(p) \in Play
<1>1. p.play \in Track /\ p.firstSeen \in Time
  BY DEF Player
<1>2. p.repeat \in BOOLEAN
  BY Zenon DEF Player
<1> QED
  BY <1>1, <1>2 DEF PlayedObject, Play

LEMMA EndedIsPlay ==
  ASSUME NEW p, NEW c \in 0..clock, Scene, Ready(p, c), p.play # None
  PROVE  PlayedObject(SessionEnd(p)) \in Play
<1> DEFINE q == SessionEnd(p)
<1>1. q \in Player /\ q.range = NoRange /\ q.play # None
  BY AfterEnd DEF Ready
<1>2. ListenDuration(q) \in Nat
  BY <1>1, RangeFields DEF ListenDuration, RangeDuration
<1> HIDE DEF q
<1>3. PlayedObject(q) \in Play
  BY <1>1, <1>2, PlayedIsPlay
<1> QED
  BY <1>3 DEF q

\* The calculated status does not matter.
LEMMA AfterStatus ==
  ASSUME NEW p, NEW c \in 0..clock, NEW k \in Calculated, Ready(p, c)
  PROVE  /\ Ready([p EXCEPT !.calculated = k], c)
         /\ [p EXCEPT !.calculated = k].play = p.play
         /\ [p EXCEPT !.calculated = k].born = p.born
         /\ [p EXCEPT !.calculated = k].reported = p.reported
         /\ [p EXCEPT !.calculated = k].range = p.range
<1> DEFINE q == [p EXCEPT !.calculated = k]
<1>1. p \in Player
  BY DEF Ready
<1>2. q \in Player
  BY <1>1 DEF Player
<1>3. /\ q.range = p.range /\ q.play = p.play /\ q.listened = p.listened
      /\ q.heard = p.heard /\ q.parts = p.parts /\ q.seeks = p.seeks
      /\ q.stateUpdated = p.stateUpdated /\ q.playUpdated = p.playUpdated
      /\ q.born = p.born /\ q.reported = p.reported
  BY <1>1 DEF Player
<1> HIDE DEF q
<1>4. q.stateUpdated <= clock /\ q.playUpdated <= clock
  BY <1>3 DEF Ready
<1>5. Ready(q, c)
  BY <1>2, <1>3, <1>4, ReadySame
<1> QED
  BY <1>3, <1>5 DEF q

\* What an update of p owes its caller.
Answers(u, p, rep) ==
  /\ Ready(u.player, clock)
  /\ u.player.play = rep.track
  /\ u.player.born = p.born /\ u.player.reported = p.reported
  /\ u.played \subseteq Play

LEMMA FirstAnswers ==
  ASSUME NEW p, NEW c \in 0..clock, NEW rep, Scene, Ready(p, c), ReportIsSound(rep),
         rep.track # None
  PROVE  Answers(FirstPlay(p, rep), p, rep)
<1> DEFINE again == p.lastPlay = rep.track /\ clock - p.lastAt < RecentlyStopped
           a == [p EXCEPT !.repeat = again]
           q == SetCurrentPlay(a, rep)
<1>1. p \in Player
  BY DEF Ready
<1>2. again \in BOOLEAN
  OBVIOUS
<1> HIDE DEF again
<1>3. a \in Player
  BY <1>1, <1>2 DEF Player
<1>4. /\ a.range = p.range /\ a.play = p.play /\ a.listened = p.listened
      /\ a.heard = p.heard /\ a.parts = p.parts /\ a.seeks = p.seeks
      /\ a.stateUpdated = p.stateUpdated /\ a.playUpdated = p.playUpdated
      /\ a.born = p.born /\ a.reported = p.reported
  BY <1>1 DEF Player
<1> HIDE DEF a
<1>5. a.stateUpdated <= clock /\ a.playUpdated <= clock
  BY <1>4 DEF Ready
<1>6. Ready(a, c)
  BY <1>3, <1>4, <1>5, ReadySame
<1>7. /\ Ready(q, clock) /\ q.play = rep.track
      /\ q.reported = p.reported /\ q.born = p.born
  BY <1>4, <1>6, AfterSet
<1> HIDE DEF q
<1>8. clock \in 0..clock /\ "unknown" \in Calculated
  BY Amounts DEF Scene, Calculated, Status
<1> DEFINE z == [q EXCEPT !.calculated = "unknown"]
<1>9. /\ Ready(z, clock) /\ z.play = rep.track
      /\ z.born = p.born /\ z.reported = p.reported
  BY <1>7, <1>8, AfterStatus
<1>10. FirstPlay(p, rep) = GoesOn(z)
  BY DEF FirstPlay, q, a, again
<1> HIDE DEF z
<1> QED
  BY <1>9, <1>10 DEF GoesOn, Answers

LEMMA OtherAnswers ==
  ASSUME NEW p, NEW c \in 0..clock, NEW rep, Scene, Ready(p, c), ReportIsSound(rep),
         rep.track # None, p.play # None
  PROVE  Answers(OtherPlay(p, rep), p, rep)
<1> DEFINE done == SessionEnd(p)
           a == [done EXCEPT !.repeat = FALSE, !.lastPlay = p.play, !.lastAt = clock]
           q == SetCurrentPlay(a, rep)
           k == IF q.calculated = "playing" THEN q.calculated ELSE "unknown"
<1>1. p \in Player /\ clock \in Time /\ clock \in 0..clock
  BY Amounts DEF Ready, Scene, Time, Unseen
<1>2. /\ Ready(done, clock) /\ done.reported = p.reported /\ done.born = p.born
  BY <1>1, AfterEnd
<1>3. PlayedObject(done) \in Play
  BY EndedIsPlay
<1>4. done \in Player
  BY <1>2 DEF Ready
<1> HIDE DEF done
<1>5. p.play \in Track \cup {None}
  BY <1>1 DEF Player
<1>6. a \in Player
  BY <1>1, <1>4, <1>5 DEF Player
<1>7. /\ a.range = done.range /\ a.play = done.play /\ a.listened = done.listened
      /\ a.heard = done.heard /\ a.parts = done.parts /\ a.seeks = done.seeks
      /\ a.stateUpdated = done.stateUpdated /\ a.playUpdated = done.playUpdated
      /\ a.born = done.born /\ a.reported = done.reported
  BY <1>4 DEF Player
<1> HIDE DEF a
<1>8. a.stateUpdated <= clock /\ a.playUpdated <= clock
  BY <1>2, <1>7 DEF Ready
<1>9. Ready(a, clock)
  BY <1>1, <1>2, <1>6, <1>7, <1>8, ReadySame
<1>10. /\ Ready(q, clock) /\ q.play = rep.track
       /\ q.reported = p.reported /\ q.born = p.born
  BY <1>1, <1>2, <1>7, <1>9, AfterSet
<1> DEFINE z == [q EXCEPT !.calculated = k]
<1>11. OtherPlay(p, rep) = Ends(z, PlayedObject(done))
  BY DEF OtherPlay, q, a, done
<1> HIDE DEF q
<1>12. k \in Calculated
  BY DEF Calculated, Status
<1> HIDE DEF k
<1>13. /\ Ready(z, clock) /\ z.play = rep.track
       /\ z.born = p.born /\ z.reported = p.reported
  BY <1>1, <1>10, <1>12, AfterStatus
<1> HIDE DEF z
<1> QED
  BY <1>3, <1>11, <1>13 DEF Ends, Answers

LEMMA RepeatAnswers ==
  ASSUME NEW p, NEW c \in 0..clock, NEW rep, Scene, Ready(p, c), ReportIsSound(rep),
         rep.track # None, p.play # None
  PROVE  Answers(RepeatPlay(p, rep), p, rep)
<1> DEFINE done == SessionEnd(p)
           a == [done EXCEPT !.repeat = TRUE]
           q == SetCurrentPlay(a, rep)
<1>1. p \in Player /\ clock \in 0..clock
  BY Amounts DEF Ready, Scene
<1>2. /\ Ready(done, clock) /\ done.reported = p.reported /\ done.born = p.born
  BY <1>1, AfterEnd
<1>3. PlayedObject(done) \in Play
  BY EndedIsPlay
<1>4. done \in Player
  BY <1>2 DEF Ready
<1> HIDE DEF done
<1>5. a \in Player
  BY <1>4 DEF Player
<1>6. /\ a.range = done.range /\ a.play = done.play /\ a.listened = done.listened
      /\ a.heard = done.heard /\ a.parts = done.parts /\ a.seeks = done.seeks
      /\ a.stateUpdated = done.stateUpdated /\ a.playUpdated = done.playUpdated
      /\ a.born = done.born /\ a.reported = done.reported
  BY <1>4 DEF Player
<1> HIDE DEF a
<1>7. a.stateUpdated <= clock /\ a.playUpdated <= clock
  BY <1>2, <1>6 DEF Ready
<1>8. Ready(a, clock)
  BY <1>1, <1>2, <1>5, <1>6, <1>7, ReadySame
<1>9. /\ Ready(q, clock) /\ q.play = rep.track
      /\ q.reported = p.reported /\ q.born = p.born
  BY <1>1, <1>2, <1>6, <1>8, AfterSet
<1>10. RepeatPlay(p, rep) = Ends(q, PlayedObject(done))
  BY DEF RepeatPlay, q, a, done
<1> QED
  BY <1>3, <1>9, <1>10 DEF Ends, Answers

LEMMA SameAnswers ==
  ASSUME NEW p, NEW c \in 0..clock, NEW rep, Scene, Ready(p, c), ReportIsSound(rep),
         rep.track # None, p.play = rep.track,
         setup.kind = "positional" => clock - c <= LongestSilence
  PROVE  Answers(SamePlay(p, rep), p, rep)
<1>1. /\ p \in Player /\ clock \in 0..clock /\ "paused" \in Calculated
      /\ rep.pos = device.pos /\ p.play = device.track /\ p.play # None
  BY Amounts DEF Ready, Scene, Calculated, Status, ReportIsSound
<1>2. CASE p.range # NoRange /\ Seeked(p.range, rep.pos)
  <2> DEFINE q == IF p.range.end = rep.pos THEN [p EXCEPT !.calculated = "paused"] ELSE p
             r == SessionEnd(q)
  <2>1. Ready(q, c) /\ q.play = p.play /\ q.reported = p.reported /\ q.born = p.born
    BY <1>1, AfterStatus
  <2>2. SamePlay(p, rep) = GoesOn(SessionContinue(r, device.pos))
    BY <1>1, <1>2 DEF SamePlay
  <2> HIDE DEF q
  <2>3. /\ Ready(r, clock) /\ r.range = NoRange
        /\ r.play = p.play /\ r.reported = p.reported /\ r.born = p.born
    BY <1>1, <2>1, AfterEnd
  <2> HIDE DEF r
  <2>4. /\ Ready(SessionContinue(r, device.pos), clock)
        /\ SessionContinue(r, device.pos).play = p.play
        /\ SessionContinue(r, device.pos).reported = p.reported
        /\ SessionContinue(r, device.pos).born = p.born
    BY <1>1, <2>3, AfterStart
  <2> QED
    BY <2>2, <2>4 DEF GoesOn, Answers
<1>3. CASE ~(p.range # NoRange /\ Seeked(p.range, rep.pos))
  <2>1. SamePlay(p, rep) = GoesOn(SessionContinue(p, device.pos))
    BY <1>1, <1>3 DEF SamePlay
  <2>2. /\ Ready(SessionContinue(p, device.pos), clock)
        /\ SessionContinue(p, device.pos).play = p.play
        /\ SessionContinue(p, device.pos).reported = p.reported
        /\ SessionContinue(p, device.pos).born = p.born
    <3>1. CASE p.range = NoRange
      BY <1>1, <3>1, AfterStart
    <3>2. CASE p.range # NoRange
      BY <1>1, <1>3, <3>2, AfterMore
    <3> QED
      BY <3>1, <3>2
  <2> QED
    BY <2>1, <2>2 DEF GoesOn, Answers
<1> QED
  BY <1>2, <1>3

LEMMA PauseAnswers ==
  ASSUME NEW p, NEW c \in 0..clock, NEW rep, Scene, Ready(p, c), ReportIsSound(rep),
         rep.track # None, p.play = rep.track
  PROVE  Answers(GoesOn([SessionEnd(p) EXCEPT !.calculated = "paused"]), p, rep)
<1> DEFINE done == SessionEnd(p)
           z == [done EXCEPT !.calculated = "paused"]
<1>1. clock \in 0..clock /\ "paused" \in Calculated
  BY Amounts DEF Scene, Calculated, Status
<1>2. /\ Ready(done, clock) /\ done.play = p.play
      /\ done.reported = p.reported /\ done.born = p.born
  BY <1>1, AfterEnd
<1> HIDE DEF done
<1>3. /\ Ready(z, clock) /\ z.play = p.play
      /\ z.reported = p.reported /\ z.born = p.born
  BY <1>1, <1>2, AfterStatus
<1>4. GoesOn([SessionEnd(p) EXCEPT !.calculated = "paused"]) = GoesOn(z)
  BY DEF done
<1> HIDE DEF z
<1>5. Answers(GoesOn(z), p, rep)
  BY <1>3 DEF GoesOn, Answers
<1> QED
  BY <1>4, <1>5

LEMMA StopAnswers ==
  ASSUME NEW p, NEW c \in 0..clock, Scene, Ready(p, c), p.play # None
  PROVE  /\ Ready(StopPlay(p).player, clock)
         /\ StopPlay(p).player.play = None
         /\ StopPlay(p).player.born = p.born
         /\ StopPlay(p).played \subseteq Play
<1> DEFINE a == [p EXCEPT !.reported = "stopped", !.calculated = "stopped"]
           done == SessionEnd(a)
           q == [done EXCEPT !.play = None, !.lastPlay = p.play, !.lastAt = clock,
                        !.playUpdated = Unseen, !.firstSeen = Unseen,
                        !.listened = 0, !.range = NoRange, !.repeat = FALSE,
                        !.heard = 0, !.parts = 0, !.seeks = 0, !.judged = 0]
<1>1. /\ p \in Player /\ clock \in Time /\ Unseen \in Time /\ clock \in 0..clock
      /\ clock \in Nat /\ "stopped" \in Calculated /\ "stopped" \in Status
      /\ p.stateUpdated <= clock /\ p.playUpdated <= clock
  BY Amounts DEF Ready, Scene, Time, Unseen, Calculated, Status
<1>2. /\ a \in Player /\ a.range = p.range /\ a.play = p.play
      /\ a.listened = p.listened /\ a.born = p.born
      /\ a.heard = p.heard /\ a.parts = p.parts /\ a.seeks = p.seeks
      /\ a.stateUpdated = p.stateUpdated /\ a.playUpdated = p.playUpdated
  BY <1>1 DEF Player
<1> HIDE DEF a
<1>3. Ready(a, c)
  BY <1>1, <1>2, ReadySame
<1>4. Ready(done, clock) /\ done.born = p.born /\ PlayedObject(done) \in Play
  BY <1>1, <1>2, <1>3, AfterEnd, EndedIsPlay
<1>5. /\ done \in Player /\ done.stateUpdated <= clock
      /\ p.play \in Track \cup {None}
  BY <1>1, <1>4 DEF Ready, Player
<1> HIDE DEF done
<1>6. /\ q \in Player /\ q.range = NoRange /\ q.play = None /\ q.listened = 0
      /\ q.stateUpdated = done.stateUpdated /\ q.playUpdated = Unseen
      /\ q.born = done.born
  BY <1>1, <1>5 DEF Player
<1>7. StopPlay(p) = Ends(q, PlayedObject(done))
  BY DEF StopPlay, done, a
<1> HIDE DEF q
<1>8. Budget(q) \in Nat
  BY <1>6, BudgetIsNat
<1>9. Ready(q, clock)
  BY <1>1, <1>5, <1>6, <1>8 DEF Ready, Fair, Unseen
<1> QED
  BY <1>4, <1>6, <1>7, <1>9 DEF Ends

\* Whatever is reported, the player that is left is sound, and so is what it ended.
LEMMA UpdateIsSound ==
  ASSUME NEW p0, NEW c \in 0..clock, NEW rep, Scene, Ready(p0, c), Live(p0),
         ReportIsSound(rep),
         setup.kind = "positional" /\ p0.play # None => clock - c <= LongestSilence
  PROVE  /\ Ready(Update(p0, rep).player, clock)
         /\ Live(Update(p0, rep).player)
         /\ Update(p0, rep).player.born = p0.born
         /\ Update(p0, rep).played \subseteq Play
<1> DEFINE seen == [p0 EXCEPT !.stateUpdated = rep.at]
           st == IF rep.status = "none" THEN p0.reported ELSE rep.status
           p == [seen EXCEPT !.playUpdated = rep.at, !.reported = st]
<1>1. /\ p0 \in Player /\ rep.at \in Time /\ rep.at <= clock /\ clock \in 0..clock
      /\ p0.playUpdated <= clock
  BY Amounts DEF Ready, ReportIsSound, Scene, Time, Unseen
<1>2. /\ seen \in Player /\ seen.range = p0.range /\ seen.play = p0.play
      /\ seen.listened = p0.listened /\ seen.heard = p0.heard
      /\ seen.parts = p0.parts /\ seen.seeks = p0.seeks
      /\ seen.stateUpdated = rep.at /\ seen.playUpdated = p0.playUpdated
      /\ seen.born = p0.born /\ seen.reported = p0.reported
  BY <1>1 DEF Player
<1> HIDE DEF seen
<1>3. Ready(seen, c)
  BY <1>1, <1>2, ReadySame
<1>4. CASE rep.track = None
  <2>1. CASE p0.reported # "stopped" /\ p0.play # None
    <3>1. Update(p0, rep) = StopPlay(seen)
      BY <1>4, <2>1 DEF Update, seen
    <3>2. /\ Ready(StopPlay(seen).player, clock)
          /\ StopPlay(seen).player.play = None
          /\ StopPlay(seen).player.born = p0.born
          /\ StopPlay(seen).played \subseteq Play
      BY <1>2, <1>3, <2>1, StopAnswers
    <3> QED
      BY <1>4, <3>1, <3>2 DEF Live, ReportIsSound
  <2>2. CASE ~(p0.reported # "stopped" /\ p0.play # None)
    <3> DEFINE q == [seen EXCEPT !.reported = "stopped"]
    <3>1. Update(p0, rep) = GoesOn(q)
      BY <1>4, <2>2 DEF Update, seen
    <3>2. p0.play = None
      BY <2>2 DEF Live
    <3>3. /\ q \in Player /\ q.range = seen.range /\ q.play = None
          /\ q.listened = seen.listened /\ q.heard = seen.heard
          /\ q.parts = seen.parts /\ q.seeks = seen.seeks
          /\ q.stateUpdated = rep.at /\ q.playUpdated = p0.playUpdated
          /\ q.born = p0.born
      BY <1>2, <3>2 DEF Player, Status
    <3> HIDE DEF q
    <3>4. seen.range = NoRange
      BY <1>2, <1>3, <3>2 DEF Ready
    <3>5. Ready(q, c)
      BY <1>1, <1>2, <1>3, <3>2, <3>3, ReadySame
    <3>6. Ready(q, clock)
      BY <3>3, <3>4, <3>5 DEF Ready, Fair
    <3> QED
      BY <1>4, <3>1, <3>3, <3>6 DEF GoesOn, Live, ReportIsSound
  <2> QED
    BY <2>1, <2>2
<1>5. CASE rep.track # None
  <2>1. st \in Status /\ st # "stopped"
    BY <1>1, <1>5 DEF ReportIsSound, Live, Player, Status
  <2> HIDE DEF st
  <2>2. /\ p \in Player /\ p.range = seen.range /\ p.play = seen.play
        /\ p.listened = seen.listened /\ p.heard = seen.heard
        /\ p.parts = seen.parts /\ p.seeks = seen.seeks
        /\ p.stateUpdated = seen.stateUpdated /\ p.playUpdated = rep.at
        /\ p.born = seen.born /\ p.reported = st
    BY <1>1, <1>2, <2>1 DEF Player
  <2>3. Update(p0, rep) =
          IF p.play = None THEN FirstPlay(p, rep)
          ELSE IF p.play # rep.track THEN OtherPlay(p, rep)
          ELSE IF rep.status = "paused"
               THEN GoesOn([SessionEnd(p) EXCEPT !.calculated = "paused"])
          ELSE IF IsSessionRepeat(p, rep.pos) THEN RepeatPlay(p, rep)
                                              ELSE SamePlay(p, rep)
    BY <1>5 DEF Update, seen, st
  <2> HIDE DEF p
  <2>4. Ready(p, c)
    BY <1>1, <1>2, <1>3, <2>2, ReadySame
  <2>5. setup.kind = "positional" /\ p.play # None => clock - c <= LongestSilence
    BY <1>2, <2>2
  <2>6. Answers(Update(p0, rep), p, rep)
    <3>1. CASE p.play = None
      BY <1>5, <2>3, <2>4, <3>1, FirstAnswers
    <3>2. CASE p.play # None /\ p.play # rep.track
      BY <1>5, <2>3, <2>4, <3>2, OtherAnswers
    <3>3. CASE p.play # None /\ p.play = rep.track /\ rep.status = "paused"
      BY <1>5, <2>3, <2>4, <3>3, PauseAnswers
    <3>4. CASE p.play # None /\ p.play = rep.track /\ rep.status # "paused"
      <4>1. CASE IsSessionRepeat(p, rep.pos)
        BY <1>5, <2>3, <2>4, <3>4, <4>1, RepeatAnswers
      <4>2. CASE ~IsSessionRepeat(p, rep.pos)
        BY <1>5, <2>3, <2>4, <2>5, <3>4, <4>2, SameAnswers
      <4> QED
        BY <4>1, <4>2
    <3> QED
      BY <3>1, <3>2, <3>3, <3>4
  <2> QED
    BY <1>2, <2>1, <2>2, <2>6 DEF Answers, Live
<1> QED
  BY <1>4, <1>5

-----------------------------------------------------------------------------
\* What an action that leaves the device and the time alone leaves alone.

LEMMA SameAmounts ==
  ASSUME UNCHANGED setup
  PROVE  /\ IsIngress' = IsIngress /\ Positional' = Positional
         /\ StaleAfter' = StaleAfter /\ OrphanedAfter' = OrphanedAfter
         /\ DeadAfter' = DeadAfter /\ LongestSilence' = LongestSilence
         /\ \A q : Budget(q)' = Budget(q)
<1>1. IsIngress' = IsIngress /\ Positional' = Positional
  BY DEF IsIngress, Positional
<1>2. /\ StaleAfter' = StaleAfter /\ OrphanedAfter' = OrphanedAfter
      /\ DeadAfter' = DeadAfter
  BY DEF IsIngress, StaleAfter, OrphanedAfter, DeadAfter
<1>3. LongestSilence' = LongestSilence
  BY <1>2 DEF LongestSilence
<1>4. BySeek' = BySeek /\ Forgiven' = Forgiven
  BY <1>3 DEF BySeek, Forgiven
<1>5. \A q : Budget(q)' = Budget(q)
  BY <1>4 DEF Budget
<1> QED
  BY <1>1, <1>2, <1>3, <1>5

LEMMA SameFit ==
  ASSUME UNCHANGED <<setup, clock, device>>
  PROVE  \A q : (Fit(q) => Fit(q)') /\ (Recent(q) => Recent(q)')
<1> TAKE q
<1>1. Reach(q, q.contact)' = Reach(q, q.contact)
  BY SameAmounts DEF Reach
<1>2. Fair(q, q.contact) => Fair(q, q.contact)'
  BY <1>1, SameAmounts DEF Fair, Forgiven
<1>3. SessionIsSound(q) => SessionIsSound(q)'
  BY SameAmounts DEF SessionIsSound, RangeIsSound
<1>4. Live(q) => Live(q)'
  BY DEF Live
<1>5. SeesAll(q) => SeesAll(q)'
  BY DEF SeesAll, ListenDuration, RangeDuration
<1>6. Recent(q) => Recent(q)'
  BY SameAmounts DEF Recent
<1> QED
  BY <1>2, <1>3, <1>4, <1>5, <1>6 DEF Fit

LEMMA InvScene ==
  ASSUME PlayerInv
  PROVE  Scene /\ clock \in Nat /\ clock \in 0..clock
  BY Amounts DEF PlayerInv, PlayerTypeOK, DeviceIsPast, Scene

\* A player that exists, as the lemmas about it want it.
LEMMA InvReady ==
  ASSUME PlayerInv, Exists
  PROVE  /\ player \in Player /\ player.contact \in 0..clock
         /\ player.stateUpdated \in Time /\ player.playUpdated \in Time
         /\ player.stateUpdated \in Int /\ player.playUpdated \in Int
         /\ player.stateUpdated <= player.contact /\ player.playUpdated <= player.contact
         /\ Ready(player, player.contact)
<1>1. player \in Player
  BY DEF PlayerInv, PlayerTypeOK, Exists
<1>2. player.contact \in 0..MaxTime /\ player.stateUpdated \in Time /\ player.playUpdated \in Time
  BY <1>1 DEF Player
<1>3. /\ SessionIsSound(player) /\ Fair(player, player.contact)
      /\ clock \in 0..MaxTime
  BY DEF PlayerInv, PlayerTypeOK, PlayerIsFit, Fit
<1>4. /\ player.stateUpdated \in Int /\ player.playUpdated \in Int
      /\ player.contact \in Nat /\ clock \in Nat
  BY <1>2, <1>3, Amounts DEF Time, Unseen
<1>5. /\ player.contact \in 0..clock
      /\ player.stateUpdated <= player.contact /\ player.playUpdated <= player.contact
      /\ player.stateUpdated <= clock /\ player.playUpdated <= clock
  BY <1>3, <1>4 DEF SessionIsSound
<1> QED
  BY <1>1, <1>2, <1>3, <1>4, <1>5 DEF SessionIsSound, Ready

-----------------------------------------------------------------------------
\* Silence.

\* What stays of a player when it falls silent.
Stays(q, p) ==
  /\ q.play = p.play /\ q.born = p.born /\ q.contact = p.contact
  /\ q.reported = p.reported
  /\ q.stateUpdated = p.stateUpdated /\ q.playUpdated = p.playUpdated
  /\ q.attempted = p.attempted /\ q.judged = p.judged

LEMMA SilencedIsSound ==
  ASSUME NEW p, NEW c \in 0..clock, Scene, Ready(p, c)
  PROVE  /\ Ready(Silenced(p), c) /\ Stays(Silenced(p), p)
         /\ Silenced(p).calculated \in {"stale", "orphaned"}
         /\ p.calculated \in {"stale", "orphaned"} =>
              ListenDuration(Silenced(p)) = ListenDuration(p)
<1> DEFINE a == [p EXCEPT !.calculated = "stale"]
           q == IF p.calculated \in {"stale", "orphaned"} THEN p ELSE SessionEnd(a)
           z == [q EXCEPT !.calculated = "orphaned"]
<1>1. p \in Player /\ "stale" \in Calculated /\ "orphaned" \in Calculated
  BY DEF Ready, Calculated
<1>2. Ready(a, c)
  BY <1>1, AfterStatus
<1>3. a.calculated = "stale" /\ Stays(a, p)
  BY <1>1 DEF Stays, Player
<1> HIDE DEF a
<1>4. /\ Ready(SessionEnd(a), c) /\ SessionEnd(a).calculated = "stale"
      /\ Stays(SessionEnd(a), p)
  <2>1. Ready(SessionEnd(a), c) /\ SessionEnd(a).calculated = "stale"
    BY <1>2, <1>3, AfterEnd
  <2>2. a \in Player
    BY <1>2 DEF Ready
  <2>3. Stays(SessionEnd(a), a)
    BY <2>2 DEF Stays, SessionEnd, Player
  <2> QED
    BY <1>3, <2>1, <2>3 DEF Stays
<1>5. /\ Ready(q, c) /\ q.calculated \in {"stale", "orphaned"} /\ Stays(q, p)
      /\ p.calculated \in {"stale", "orphaned"} => q = p
  BY <1>4 DEF Stays
<1>6. Silenced(p) = IF Orphaned(p) THEN z ELSE q
  BY DEF Silenced, a
<1> HIDE DEF q
<1>7. Ready(z, c) /\ z.range = q.range
  BY <1>1, <1>5, AfterStatus
<1>8. z.calculated = "orphaned" /\ z.listened = q.listened /\ Stays(z, q)
  BY <1>5 DEF Stays, Player, Ready
<1> HIDE DEF z
<1>9. ListenDuration(z) = ListenDuration(q) /\ Stays(z, p)
  BY <1>5, <1>7, <1>8 DEF ListenDuration, Stays
<1> QED
  BY <1>5, <1>6, <1>7, <1>8, <1>9

\* A player that has had no news is recent, or it is stale: then it is recent, or
\* dead.
LEMMA StaleOrRecent ==
  ASSUME PlayerInv, Exists
  PROVE  /\ player.play # None /\ ~Stale(player) => Recent(player)
         /\ ~(Orphaned(player) /\ Dead(player)) => Recent(player)
         /\ Dead(player) => clock - player.stateUpdated >= DeadAfter
<1>1. /\ player.contact \in 0..clock /\ clock \in Nat
      /\ player.stateUpdated \in Int /\ player.playUpdated \in Int
      /\ player.stateUpdated <= player.contact /\ player.playUpdated <= player.contact
  BY InvReady, InvScene
<1> QED
  BY <1>1, Amounts DEF Stale, Recent, Orphaned, Dead

\* The cleanup deletes a player that is dead and has nothing left to discover, or
\* leaves one that is recent, or whose end it waits to decide.
LEMMA CleanupResult ==
  ASSUME PlayerInv, Exists, cleaning = NoCleanup, CleanupPlayer
  PROVE
    \/ /\ player' = NoPlayer /\ clock - player.stateUpdated >= DeadAfter
       /\ deceased' = player.stateUpdated /\ lost' = lost /\ cleaning' = NoCleanup
    \/ \E q \in Player :
         /\ player' = q /\ Fit(q) /\ q.play = player.play
         /\ q.contact = player.contact
         /\ deceased' = deceased /\ lost' = lost
         /\ \/ cleaning' = NoCleanup /\ (q.play # None => Recent(q))
            \/ /\ cleaning' \in Cleanup /\ q.attempted
               /\ cleaning'.kill => clock - q.stateUpdated >= DeadAfter
               /\ ~cleaning'.kill => Recent(q)
<1> DEFINE c == player.contact
           s == Silenced(player)
           kill == Orphaned(player) /\ Dead(player)
<1>1. /\ player \in Player /\ c \in 0..clock /\ Ready(player, c) /\ Scene
      /\ player.stateUpdated \in Int /\ player.playUpdated \in Int
      /\ player.stateUpdated <= c /\ player.playUpdated <= c
      /\ clock \in Nat
  BY InvReady, InvScene
<1>2. Live(player) /\ SeesAll(player)
  BY DEF PlayerInv, PlayerIsFit, Fit
<1>3. /\ Ready(s, c) /\ Stays(s, player)
      /\ s.calculated \in {"stale", "orphaned"}
      /\ player.calculated \in {"stale", "orphaned"} =>
           ListenDuration(s) = ListenDuration(player)
  BY <1>1, SilencedIsSound
<1>4. /\ s \in Player /\ Live(s) /\ s.contact = c /\ s.play = player.play
      /\ s.stateUpdated = player.stateUpdated /\ SessionIsSound(s) /\ Fair(s, s.contact)
      /\ s.born = player.born
  BY <1>1, <1>2, <1>3 DEF Ready, Stays, Live, SessionIsSound
<1>5. player.play # None /\ ~Stale(player) => Recent(player)
  BY StaleOrRecent
<1>6. ~kill => Recent(player)
  BY StaleOrRecent
<1>7. kill => clock - player.stateUpdated >= DeadAfter
  BY StaleOrRecent
<1>8. Recent(player) => Recent(s)
  BY <1>4 DEF Recent
<1> HIDE DEF s
<1>9. CASE /\ ~Stale(player)
           /\ player' = AttemptReset(player)
           /\ UNCHANGED <<deceased, cleaning, lost>>
  <2> DEFINE q == [player EXCEPT !.attempted = FALSE]
  <2>1. /\ q \in Player /\ q.range = player.range /\ q.play = player.play
        /\ q.listened = player.listened /\ q.heard = player.heard
        /\ q.parts = player.parts /\ q.seeks = player.seeks
        /\ q.stateUpdated = player.stateUpdated /\ q.playUpdated = player.playUpdated
        /\ q.contact = c /\ q.reported = player.reported /\ q.attempted = FALSE
    BY <1>1 DEF Player
  <2>2. player' = q
    BY <1>9 DEF AttemptReset
  <2> HIDE DEF q
  <2>3. q.stateUpdated <= clock /\ q.playUpdated <= clock
    BY <1>1, <2>1
  <2>4. Ready(q, c)
    BY <1>1, <2>1, <2>3, ReadySame
  <2>5. Fit(q)
    BY <1>1, <1>2, <2>1, <2>4 DEF Fit, Ready, SessionIsSound, Live, SeesAll
  <2>6. Recent(player) => Recent(q)
    BY <2>1 DEF Recent
  <2> QED
    BY <1>5, <1>9, <2>1, <2>2, <2>5, <2>6
<1>10. CASE /\ Stale(player) /\ ~player.attempted
            /\ cleaning = NoCleanup
            /\ player' = [s EXCEPT !.attempted = TRUE, !.judged = ListenDuration(s)]
            /\ cleaning' = [play |-> PlayedObject(s), born |-> player.born, kill |-> kill]
            /\ UNCHANGED <<deceased, lost>>
  <2> DEFINE n == ListenDuration(s)
             q == [s EXCEPT !.attempted = TRUE, !.judged = n]
  <2>1. n \in Nat
    BY <1>1, <1>3, <1>4, ListenedIsFair DEF Ready
  <2> HIDE DEF n
  <2>2. /\ q \in Player /\ q.range = s.range /\ q.play = s.play
        /\ q.listened = s.listened /\ q.heard = s.heard
        /\ q.parts = s.parts /\ q.seeks = s.seeks
        /\ q.stateUpdated = s.stateUpdated /\ q.playUpdated = s.playUpdated
        /\ q.contact = c /\ q.reported = s.reported /\ q.attempted = TRUE
        /\ q.judged = n /\ q.calculated = s.calculated
    BY <1>4, <2>1 DEF Player
  <2>3. player' = q
    BY <1>10 DEF n
  <2> HIDE DEF q
  <2>4. q.stateUpdated <= clock /\ q.playUpdated <= clock
    BY <1>3, <2>2 DEF Ready
  <2>5. Ready(q, c)
    BY <1>1, <1>3, <2>2, <2>4, ReadySame
  <2>6. ListenDuration(q) = n
    BY <2>2 DEF ListenDuration, n
  <2>7. Fit(q)
    <3>1. SessionIsSound(q) /\ Fair(q, q.contact)
      BY <1>1, <1>4, <2>2, <2>5, <1>3 DEF Ready, SessionIsSound, Stays
    <3>2. Live(q)
      BY <1>4, <2>2 DEF Live
    <3>3. SeesAll(q)
      BY <1>3, <2>1, <2>2, <2>6 DEF SeesAll
    <3> QED
      BY <3>1, <3>2, <3>3 DEF Fit
  <2>8. cleaning' \in Cleanup
    <3>1. PlayedObject(s) \in Play
      BY <1>4, <1>10, <2>1, PlayedIsPlay DEF Stale, n
    <3>2. player.born \in 0..MaxTime
      BY <1>1 DEF Player
    <3>3. kill \in BOOLEAN
      BY DEF Orphaned, Dead
    <3> HIDE DEF kill
    <3> QED
      BY <1>10, <3>1, <3>2, <3>3 DEF Cleanup
  <2>9. cleaning'.kill <=> kill
    BY <1>10
  <2>10. Recent(player) => Recent(q)
    BY <2>2 DEF Recent
  <2> HIDE DEF kill
  <2> QED
    BY <1>4, <1>6, <1>7, <1>10, <2>2, <2>3, <2>7, <2>8, <2>9, <2>10
<1>11. CASE /\ Stale(player) /\ player.attempted
            /\ IF kill THEN Delete(s) /\ lost' = lost \cup Forgotten(s)
                       ELSE player' = s /\ UNCHANGED <<deceased, lost>>
            /\ UNCHANGED cleaning
  <2>1. /\ player.judged \in Nat /\ ListenDuration(player) <= player.judged
        /\ ListenDuration(s) = ListenDuration(player)
        /\ s.judged = player.judged
    BY <1>1, <1>2, <1>3, <1>11 DEF SeesAll, Stays, Player
  <2>2. ListenDuration(s) \in Nat
    BY <1>1, <1>3, <1>4, ListenedIsFair DEF Ready
  <2>3. CASE kill
    <3>1. Forgotten(s) = {}
      BY <2>1, <2>2 DEF Forgotten
    <3>2. /\ player' = NoPlayer /\ deceased' = player.stateUpdated /\ lost' = lost
          /\ cleaning' = NoCleanup
      BY <1>4, <1>11, <2>3, <3>1 DEF Delete
    <3> QED
      BY <1>7, <2>3, <3>2
  <2>4. CASE ~kill
    <3>1. player' = s /\ deceased' = deceased /\ lost' = lost /\ cleaning' = NoCleanup
      BY <1>11, <2>4
    <3>2. SeesAll(s)
      BY <1>3, <2>1 DEF SeesAll
    <3>3. Fit(s)
      BY <1>4, <3>2 DEF Fit
    <3> QED
      BY <1>4, <1>6, <1>8, <2>4, <3>1, <3>3
  <2> QED
    BY <2>3, <2>4
<1> QED
  BY <1>9, <1>10, <1>11 DEF CleanupPlayer, s

-----------------------------------------------------------------------------
\* News.

LEMMA ReportSound ==
  ASSUME PlayerInv, device.track # None \/ setup.known
  PROVE  ReportIsSound(Report)
<1>1. /\ device \in Device /\ device.since <= clock /\ clock \in 0..MaxTime
      /\ setup \in Setups
  BY DEF PlayerInv, PlayerTypeOK, DeviceIsPast
<1>2. (IF setup.stamped THEN device.since ELSE clock) \in 0..clock
  BY <1>1, Amounts DEF Device
<1> QED
  BY <1>1, <1>2 DEF ReportIsSound, Report

LEMMA NewPlayerReady ==
  ASSUME Scene
  PROVE  /\ Ready(NewPlayer, clock) /\ Live(NewPlayer)
         /\ NewPlayer \in Player /\ NewPlayer.play = None
<1>1. /\ clock \in 0..MaxTime /\ clock \in Nat /\ Unseen \in Time
      /\ "unknown" \in Status /\ "unknown" \in Calculated
  BY Amounts DEF Scene, Time, Unseen, Status, Calculated
<1>2. NewPlayer \in Player
  BY <1>1 DEF NewPlayer, Player
<1>3. /\ NewPlayer.play = None /\ NewPlayer.range = NoRange /\ NewPlayer.listened = 0
      /\ NewPlayer.reported = "unknown"
      /\ NewPlayer.stateUpdated = Unseen /\ NewPlayer.playUpdated = Unseen
  BY DEF NewPlayer
<1>4. Budget(NewPlayer) \in Nat
  BY <1>2, BudgetIsNat
<1> QED
  BY <1>1, <1>2, <1>3, <1>4 DEF Ready, Fair, Live, Unseen

\* What a report leaves.
News ==
  LET u == Update(IF Exists THEN player ELSE NewPlayer, Report)
      p == [AttemptReset(u.player) EXCEPT !.contact = clock]
      current == IF u.played = {} /\ Stale(p) THEN {PlayedObject(p)} ELSE {}
  IN  player' = p /\ deciding' = u.played \cup current

LEMMA NewsResult ==
  ASSUME PlayerInv, device.track # None \/ setup.known, News
  PROVE  /\ deciding' \subseteq Play
         /\ \E q \in Player : /\ player' = q /\ Fit(q) /\ q.contact = clock
                              /\ ~q.attempted
<1> DEFINE p0 == IF Exists THEN player ELSE NewPlayer
           c == IF Exists THEN player.contact ELSE clock
           u == Update(p0, Report)
           v == u.player
           q == [v EXCEPT !.attempted = FALSE, !.contact = clock]
<1>1. Scene /\ clock \in Nat /\ clock \in 0..clock
  BY InvScene
<1>2. ReportIsSound(Report)
  BY ReportSound
<1>3. Ready(p0, c) /\ Live(p0) /\ c \in 0..clock
  BY <1>1, InvReady, NewPlayerReady DEF PlayerInv, PlayerIsFit, Fit
<1>4. setup.kind = "positional" /\ p0.play # None => clock - c <= LongestSilence
  BY NewPlayerReady, <1>1 DEF PlayerInv, SilenceIsShort, IsIngress
<1> HIDE DEF p0, c
<1>5. /\ Ready(v, clock) /\ Live(v) /\ u.played \subseteq Play
  BY <1>1, <1>2, <1>3, <1>4, UpdateIsSound
<1> HIDE DEF v
<1>6. v \in Player /\ clock \in 0..MaxTime
  BY <1>1, <1>5 DEF Ready, Scene
<1>7. /\ q \in Player /\ q.range = v.range /\ q.play = v.play
      /\ q.listened = v.listened /\ q.heard = v.heard
      /\ q.parts = v.parts /\ q.seeks = v.seeks
      /\ q.stateUpdated = v.stateUpdated /\ q.playUpdated = v.playUpdated
      /\ q.contact = clock /\ q.reported = v.reported /\ q.attempted = FALSE
  BY <1>6 DEF Player
<1>8. [AttemptReset(v) EXCEPT !.contact = clock] = q
  BY <1>6 DEF AttemptReset, Player
<1> HIDE DEF q
<1>9. q.stateUpdated <= clock /\ q.playUpdated <= clock
  BY <1>5, <1>7 DEF Ready
<1>10. Ready(q, clock)
  BY <1>1, <1>5, <1>7, <1>9, ReadySame
<1>11. Fit(q)
  <2>1. SessionIsSound(q) /\ Fair(q, q.contact)
    BY <1>1, <1>7, <1>9, <1>10 DEF SessionIsSound, Ready
  <2>2. Live(q) /\ SeesAll(q)
    BY <1>5, <1>7 DEF Live, SeesAll
  <2> QED
    BY <2>1, <2>2 DEF Fit
<1>12. Stale(q) => PlayedObject(q) \in Play
  BY <1>1, <1>7, <1>10, ListenedIsFair, PlayedIsPlay DEF Stale, Ready
<1>13. /\ player' = q
       /\ deciding' = u.played \cup
            (IF u.played = {} /\ Stale(q) THEN {PlayedObject(q)} ELSE {})
  BY <1>8 DEF News, p0, v
<1> HIDE DEF u
<1>14. deciding' \subseteq Play
  BY <1>5, <1>12, <1>13
<1> QED
  BY <1>7, <1>11, <1>13, <1>14

-----------------------------------------------------------------------------
\* Every action preserves the invariant.

LEMMA PlayerIsNotNone ==
  ASSUME NEW q \in Player
  PROVE  q # NoPlayer
<1>1. q.born \in 0..MaxTime
  BY DEF Player
<1>2. NoPlayer.born = Unseen
  BY DEF NoPlayer
<1> QED
  BY <1>1, <1>2, Amounts DEF Unseen

LEMMA StepHears ==
  ASSUME PlayerInv, device.track # None \/ setup.known, News,
         cleaning # NoCleanup => IsIngress,
         deceased' \in Time, raced' = (raced \/ cleaning # NoCleanup),
         served' \in BOOLEAN, reported' \in BOOLEAN,
         UNCHANGED <<setup, clock, device, cleaning, lost, discovered, gestures>>
  PROVE  PlayerInv'
<1>1. deciding' \subseteq Play
  BY NewsResult
<1>2. PICK q \in Player : player' = q /\ Fit(q) /\ q.contact = clock /\ ~q.attempted
  BY NewsResult
<1>3. Fit(q)'
  BY <1>2, SameFit
<1>4. Scene /\ clock \in Nat
  BY InvScene
<1>5. PlayerTypeOK'
  <2>1. PlayerTypeOK /\ raced' \in BOOLEAN
    BY DEF PlayerInv, PlayerTypeOK
  <2> QED
    BY <1>1, <1>2, <2>1 DEF PlayerTypeOK
<1>6. DeviceIsPast'
  BY DEF PlayerInv, DeviceIsPast
<1>7. PlayerIsFit'
  BY <1>2, <1>3 DEF PlayerIsFit
<1>8. SilenceIsShort'
  BY <1>2, <1>4, SameAmounts, Amounts DEF SilenceIsShort
<1>9. ServedIsRecent'
  BY <1>2, <1>4, SameAmounts, Amounts DEF ServedIsRecent, Recent
<1>10. CleanupIsKnown'
  BY SameAmounts DEF CleanupIsKnown
<1>11. SessionsAreKept'
  BY SameAmounts DEF PlayerInv, SessionsAreKept
<1> QED
  BY <1>5, <1>6, <1>7, <1>8, <1>9, <1>10, <1>11 DEF PlayerInv

LEMMA StepCleans ==
  ASSUME PlayerInv, cleaning = NoCleanup, Exists, CleanupPlayer,
         served' \in BOOLEAN, reported' \in BOOLEAN,
         UNCHANGED <<setup, clock, device, deciding, raced, discovered, gestures>>
  PROVE  PlayerInv'
<1>1. /\ Scene /\ clock \in Nat /\ player.contact \in 0..clock
      /\ player.stateUpdated \in Time
  BY InvScene, InvReady
<1>2. PlayerTypeOK
  BY DEF PlayerInv
<1>3. CASE /\ player' = NoPlayer /\ clock - player.stateUpdated >= DeadAfter
           /\ deceased' = player.stateUpdated /\ lost' = lost /\ cleaning' = NoCleanup
  <2>1. PlayerTypeOK'
    BY <1>1, <1>2, <1>3 DEF PlayerTypeOK
  <2>2. ~Exists'
    BY <1>3 DEF Exists
  <2>3. DeviceIsPast' /\ SessionsAreKept'
    BY <1>3, SameAmounts DEF PlayerInv, DeviceIsPast, SessionsAreKept
  <2> QED
    BY <2>1, <2>2, <2>3
    DEF PlayerInv, PlayerIsFit, SilenceIsShort, ServedIsRecent, CleanupIsKnown
<1>4. ASSUME NEW q \in Player,
             player' = q, Fit(q), q.play = player.play, q.contact = player.contact,
             deceased' = deceased, lost' = lost,
             \/ cleaning' = NoCleanup /\ (q.play # None => Recent(q))
             \/ /\ cleaning' \in Cleanup /\ q.attempted
                /\ cleaning'.kill => clock - q.stateUpdated >= DeadAfter
                /\ ~cleaning'.kill => Recent(q)
      PROVE  PlayerInv'
  <2>1. Fit(q)' /\ (Recent(q) => Recent(q)')
    BY <1>4, SameFit
  <2>2. PlayerTypeOK'
    BY <1>2, <1>4 DEF PlayerTypeOK
  <2>3. DeviceIsPast' /\ SessionsAreKept'
    BY <1>4, SameAmounts DEF PlayerInv, DeviceIsPast, SessionsAreKept
  <2>4. PlayerIsFit'
    BY <1>4, <2>1 DEF PlayerIsFit
  <2>5. SilenceIsShort'
    BY <1>4, SameAmounts DEF PlayerInv, SilenceIsShort
  <2>6. ServedIsRecent'
    <3>1. \A z \in Cleanup : z # NoCleanup
      BY Amounts DEF Cleanup, NoCleanup, Unseen
    <3> QED
      BY <1>4, <2>1, <3>1 DEF ServedIsRecent
  <2>7. CleanupIsKnown'
    BY <1>4, SameAmounts DEF CleanupIsKnown
  <2> QED
    BY <2>2, <2>3, <2>4, <2>5, <2>6, <2>7 DEF PlayerInv
<1> QED
  BY <1>3, <1>4, CleanupResult

\* Without a player there is little to preserve.
LEMMA StepIdle ==
  ASSUME PlayerInv, ~Exists, UNCHANGED <<player, deceased, cleaning, lost>>,
         served' \in BOOLEAN, reported' \in BOOLEAN, raced' \in BOOLEAN,
         UNCHANGED <<setup, clock, device, deciding, discovered, gestures>>
  PROVE  PlayerInv'
<1>1. ~Exists'
  BY DEF Exists
<1>2. PlayerTypeOK'
  BY DEF PlayerInv, PlayerTypeOK
<1>3. DeviceIsPast' /\ SessionsAreKept'
  BY SameAmounts DEF PlayerInv, DeviceIsPast, SessionsAreKept
<1> QED
  BY <1>1, <1>2, <1>3
  DEF PlayerInv, PlayerIsFit, SilenceIsShort, ServedIsRecent, CleanupIsKnown

LEMMA StepPoll ==
  ASSUME PlayerInv, Poll
  PROVE  PlayerInv'
<1>1. /\ cleaning = NoCleanup /\ ~IsIngress
      /\ served' \in BOOLEAN /\ reported' \in BOOLEAN
      /\ UNCHANGED <<setup, clock, device, discovered, gestures>>
  BY DEF Poll, Undecided, PlayerInv, PlayerTypeOK
<1>2. raced \in BOOLEAN /\ deceased \in Time /\ Unseen \in Time
  BY Amounts DEF PlayerInv, PlayerTypeOK, Time, Unseen
<1>3. CASE (device.track # None \/ setup.known) /\ Hear(Report)
  <2>1. CASE ~Exists /\ Zombie(Report)
             /\ UNCHANGED <<player, deceased, cleaning, deciding, lost, raced>>
    BY <1>1, <1>2, <2>1, StepIdle
  <2>2. CASE Exists /\ SameState(Report) /\ CleanupPlayer /\ UNCHANGED <<deciding, raced>>
    BY <1>1, <2>2, StepCleans
  <2>3. CASE /\ News /\ deceased' = IF Exists THEN deceased ELSE Unseen
             /\ raced' = (raced \/ cleaning # NoCleanup)
             /\ UNCHANGED <<cleaning, lost>>
    BY <1>1, <1>2, <1>3, <2>3, StepHears
  <2> QED
    BY <1>3, <2>1, <2>2, <2>3 DEF Hear, News
<1>4. CASE /\ IF Exists THEN CleanupPlayer
                        ELSE UNCHANGED <<player, deceased, cleaning, lost>>
           /\ UNCHANGED <<deciding, raced>>
  <2>1. CASE Exists
    BY <1>1, <1>4, <2>1, StepCleans
  <2>2. CASE ~Exists
    BY <1>1, <1>2, <1>4, <2>2, StepIdle
  <2> QED
    BY <2>1, <2>2
<1> QED
  BY <1>3, <1>4 DEF Poll

LEMMA StepIngress ==
  ASSUME PlayerInv, Ingress
  PROVE  PlayerInv'
<1>1. /\ IsIngress /\ served' \in BOOLEAN /\ reported' \in BOOLEAN
      /\ UNCHANGED <<setup, clock, device, discovered, gestures>>
  BY DEF Ingress, PlayerInv, PlayerTypeOK
<1>2. /\ raced \in BOOLEAN /\ deceased \in Time /\ Unseen \in Time
      /\ setup.known /\ ~setup.stamped
  <2>1. raced \in BOOLEAN /\ deceased \in Time /\ Unseen \in Time /\ setup \in Setups
    BY Amounts DEF PlayerInv, PlayerTypeOK, Time, Unseen
  <2>2. setup.known = TRUE /\ setup.stamped = FALSE
    BY <1>1, <2>1 DEF IsIngress, Setups
  <2> QED
    BY <2>1, <2>2
<1>3. Hear(Report)
  BY DEF Ingress
<1>4. CASE ~Exists /\ Zombie(Report)
           /\ UNCHANGED <<player, deceased, cleaning, deciding, lost, raced>>
  BY <1>1, <1>2, <1>4, StepIdle
<1>5. CASE Exists /\ SameState(Report)
  BY <1>2, <1>5 DEF SameState
<1>6. CASE /\ News /\ deceased' = IF Exists THEN deceased ELSE Unseen
           /\ raced' = (raced \/ cleaning # NoCleanup)
           /\ UNCHANGED <<cleaning, lost>>
  BY <1>1, <1>2, <1>6, StepHears
<1> QED
  BY <1>3, <1>4, <1>5, <1>6 DEF Hear, News

LEMMA StepScheduledCleanup ==
  ASSUME PlayerInv, ScheduledCleanup
  PROVE  PlayerInv'
<1>1. /\ cleaning = NoCleanup
      /\ served' \in BOOLEAN /\ reported' \in BOOLEAN /\ raced' \in BOOLEAN
      /\ UNCHANGED <<setup, clock, device, deciding, raced, discovered, gestures>>
  BY DEF ScheduledCleanup, PlayerInv, PlayerTypeOK
<1>2. CASE Exists
  BY <1>1, <1>2, StepCleans DEF ScheduledCleanup
<1>3. CASE ~Exists
  BY <1>1, <1>3, StepIdle DEF ScheduledCleanup
<1> QED
  BY <1>2, <1>3

-----------------------------------------------------------------------------
\* The device and time.

LEMMA StepListener ==
  ASSUME PlayerInv, Listener
  PROVE  PlayerInv'
<1>1. /\ UNCHANGED <<setup, clock, player, deceased, cleaning, deciding, discovered,
                     lost, raced, served, reported>>
      /\ gestures' \in 0..MaxGestures
      /\ device' \in Device /\ device'.since = clock
      /\ \/ device'.track \in Track /\ device'.pos = 0
         \/ device'.track = device.track /\ device'.pos = device.pos
         \/ device'.track = None
  <2>1. /\ device \in Device /\ clock \in 0..MaxTime /\ gestures \in 0..MaxGestures
        /\ 0 \in 0..Duration /\ MaxGestures \in Nat
    BY Amounts DEF PlayerInv, PlayerTypeOK
  <2>2. ASSUME NEW d, Gesture(d)
        PROVE  gestures' \in 0..MaxGestures /\ device' = [d EXCEPT !.since = clock]
    BY <2>1, <2>2 DEF Gesture
  <2>3. UNCHANGED <<setup, clock, player, deceased, cleaning, deciding, discovered,
                    lost, raced, served, reported>>
    BY DEF Listener
  <2>4. ASSUME NEW t \in Track,
               Gesture([device EXCEPT !.track = t, !.pos = 0, !.playing = TRUE])
        PROVE  /\ gestures' \in 0..MaxGestures
               /\ device' \in Device /\ device'.since = clock
               /\ device'.track \in Track /\ device'.pos = 0
    <3> DEFINE d == [device EXCEPT !.track = t, !.pos = 0, !.playing = TRUE]
    <3>1. gestures' \in 0..MaxGestures /\ device' = [d EXCEPT !.since = clock]
      BY <2>2, <2>4
    <3> QED
      BY <2>1, <3>1 DEF Device
  <2>5. ASSUME Gesture([device EXCEPT !.playing = ~@])
        PROVE  /\ gestures' \in 0..MaxGestures
               /\ device' \in Device /\ device'.since = clock
               /\ device'.track = device.track /\ device'.pos = device.pos
    <3> DEFINE b == ~device.playing
               d == [device EXCEPT !.playing = b]
    <3>1. gestures' \in 0..MaxGestures /\ device' = [d EXCEPT !.since = clock]
      BY <2>2, <2>5
    <3>2. b \in BOOLEAN
      OBVIOUS
    <3> HIDE DEF b
    <3> QED
      BY <2>1, <3>1, <3>2 DEF Device
  <2>6. ASSUME Gesture([device EXCEPT !.track = None, !.pos = 0, !.playing = FALSE])
        PROVE  /\ gestures' \in 0..MaxGestures
               /\ device' \in Device /\ device'.since = clock
               /\ device'.track = None
    <3> DEFINE d == [device EXCEPT !.track = None, !.pos = 0, !.playing = FALSE]
    <3>1. gestures' \in 0..MaxGestures /\ device' = [d EXCEPT !.since = clock]
      BY <2>2, <2>6
    <3> QED
      BY <2>1, <3>1 DEF Device
  <2> QED
    BY <2>3, <2>4, <2>5, <2>6 DEF Listener
<1>2. Scene /\ clock \in Nat
  BY InvScene
<1>3. ASSUME Exists
      PROVE  Fit(player)'
  <2>1. Fit(player) /\ Ready(player, player.contact) /\ player \in Player
    BY <1>3, InvReady DEF PlayerInv, PlayerIsFit
  <2>2. Budget(player)' = Budget(player) /\ player' = player
    BY <1>1, SameAmounts DEF Budget, Forgiven, BySeek
  <2>3. player.range # NoRange =>
          /\ Reach(player, player.contact)' <= Reach(player, player.contact)
          /\ Reach(player, player.contact)' \in Int /\ Reach(player, player.contact) \in Int
    <3>1. SUFFICES ASSUME player.range # NoRange
                   PROVE  /\ Reach(player, player.contact)' <= Reach(player, player.contact)
                          /\ Reach(player, player.contact)' \in Int
                          /\ Reach(player, player.contact) \in Int
      OBVIOUS
    <3>2. player.play # None /\ player.range.end \in Nat
      BY <2>1, <3>1, RangeFields DEF Ready
    <3>3. device.pos \in Nat /\ device'.pos \in Nat
      BY <1>1, <1>2, Amounts DEF Scene, Device
    <3> QED
      BY <1>1, <2>2, <3>2, <3>3, SameAmounts DEF Reach
  <2>4. player.listened \in Nat /\ (player.range # NoRange => player.range.start \in Nat)
        /\ Budget(player) \in Nat
    BY <2>1, RangeFields, BudgetIsNat
  <2>5. Fair(player, player.contact)'
    BY <1>1, <2>1, <2>2, <2>3, <2>4, Amounts DEF Fit, Fair, Forgiven
  <2>6. SessionIsSound(player)' /\ Live(player)' /\ SeesAll(player)'
    BY <1>1, <2>1, <2>2, SameAmounts
    DEF Fit, SessionIsSound, RangeIsSound, Live, SeesAll, ListenDuration, RangeDuration
  <2> QED
    BY <2>5, <2>6 DEF Fit
<1>4. PlayerIsFit'
  BY <1>1, <1>3 DEF PlayerIsFit, Exists
<1>5. PlayerTypeOK'
  BY <1>1 DEF PlayerInv, PlayerTypeOK
<1>6. DeviceIsPast'
  BY <1>1, <1>2 DEF DeviceIsPast
<1>7. SilenceIsShort' /\ ServedIsRecent' /\ CleanupIsKnown' /\ SessionsAreKept'
  BY <1>1, SameAmounts
  DEF PlayerInv, SilenceIsShort, ServedIsRecent, CleanupIsKnown, SessionsAreKept,
      Recent, Exists
<1> QED
  BY <1>4, <1>5, <1>6, <1>7 DEF PlayerInv

LEMMA StepSeek ==
  ASSUME PlayerInv, Seek
  PROVE  PlayerInv'
<1>1. /\ UNCHANGED <<setup, clock, deceased, cleaning, deciding, discovered, lost,
                     raced, served, reported>>
      /\ gestures' \in 0..MaxGestures
      /\ device' \in Device /\ device'.since = clock
      /\ device'.track = device.track
      /\ player' = IF Exists THEN [player EXCEPT !.seeks = @ + 1] ELSE player
  <2>1. /\ device \in Device /\ clock \in 0..MaxTime /\ gestures \in 0..MaxGestures
        /\ MaxGestures \in Nat
    BY Amounts DEF PlayerInv, PlayerTypeOK
  <2>2. PICK x \in SeekTargets : Gesture([device EXCEPT !.pos = x])
    BY DEF Seek
  <2>3. x \in 0..Duration
    BY PlayerAssumption
  <2> DEFINE d == [device EXCEPT !.pos = x]
  <2>4. gestures' \in 0..MaxGestures /\ device' = [d EXCEPT !.since = clock]
    BY <2>1, <2>2 DEF Gesture
  <2>5. device' \in Device /\ device'.since = clock /\ device'.track = device.track
    BY <2>1, <2>3, <2>4 DEF Device
  <2> QED
    BY <2>4, <2>5 DEF Seek
<1>2. Scene /\ clock \in Nat
  BY InvScene
<1>3. ASSUME Exists
      PROVE  /\ player' \in Player /\ Fit(player)'
             /\ player'.play = player.play /\ player'.contact = player.contact
             /\ player'.stateUpdated = player.stateUpdated
             /\ player'.attempted = player.attempted
  <2> DEFINE n == player.seeks + 1
             q == [player EXCEPT !.seeks = n]
             c == player.contact
  <2>1. /\ Fit(player) /\ Ready(player, c) /\ player \in Player
        /\ c \in 0..clock
    BY <1>3, InvReady DEF PlayerInv, PlayerIsFit
  <2>2. n \in Nat
    BY <2>1 DEF Player
  <2>3. player' = q
    BY <1>1, <1>3
  <2>4. /\ q \in Player /\ q.range = player.range /\ q.play = player.play
        /\ q.listened = player.listened /\ q.heard = player.heard
        /\ q.parts = player.parts /\ q.seeks = player.seeks + 1
        /\ q.stateUpdated = player.stateUpdated /\ q.playUpdated = player.playUpdated
        /\ q.contact = c /\ q.reported = player.reported
        /\ q.attempted = player.attempted /\ q.judged = player.judged
        /\ q.calculated = player.calculated
    <3> HIDE DEF n
    <3>1. /\ q \in Player /\ q.range = player.range /\ q.play = player.play
          /\ q.listened = player.listened /\ q.heard = player.heard
          /\ q.parts = player.parts /\ q.seeks = n
          /\ q.stateUpdated = player.stateUpdated /\ q.playUpdated = player.playUpdated
          /\ q.contact = c /\ q.reported = player.reported
          /\ q.attempted = player.attempted /\ q.judged = player.judged
          /\ q.calculated = player.calculated
      BY <2>1, <2>2 DEF Player
    <3> QED
      BY <3>1 DEF n
  <2> HIDE DEF q
  <2>5. Budget(q) = Budget(player) + BySeek /\ Budget(player) \in Nat
    BY <2>1, <2>4, BudgetGrows, BudgetIsNat
  <2>6. Budget(player)' = Budget(q)
    BY <1>1, <2>3, SameAmounts DEF Budget, Forgiven, BySeek
  <2>7. player.listened \in Nat
        /\ (player.range # NoRange =>
              /\ player.range.start \in Nat /\ player.range.end \in Nat
              /\ player.range.rt \in Nat)
    BY <2>1, RangeFields
  <2>8. device.pos \in Nat /\ device'.pos \in Nat /\ c \in Nat
    BY <1>1, <1>2, <2>1, Amounts DEF Scene, Device
  <2>9. ASSUME player.range # NoRange
        PROVE  /\ Reach(player, c)' \in Int
               /\ Reach(player, c)' <= player.range.end
                     \/ Reach(player, c)' <= player.range.rt - (clock - c)
                                               + AllowedDrift + LongestSilence
               /\ Reach(player, c) \in Int /\ player.range.end <= Reach(player, c)
    BY <1>1, <1>2, <2>3, <2>4, <2>7, <2>8, <2>9, SameAmounts, Amounts DEF Reach
  <2>10. Fair(player, c)'
    <3>1. CASE player.range = NoRange
      BY <2>1, <2>3, <2>4, <2>5, <2>6, <2>7, <3>1, Amounts DEF Fair, Fit
    <3>2. CASE player.range # NoRange /\ setup.kind = "positional"
      <4>1. /\ player.range.rt - AllowedDrift - (clock - c) <= player.range.end
            /\ player.listened + Reach(player, c) - player.range.start + EndBuffer
                 <= Budget(player)
        BY <2>1, <3>2 DEF Fit, Fair
      <4>2. Reach(player, c)' <= player.range.end + BySeek
        BY <1>2, <2>7, <2>8, <2>9, <3>2, <4>1, Amounts
      <4>3. player.listened + Reach(player, c)' - player.range.start + EndBuffer
              <= Budget(q)
        BY <2>5, <2>7, <2>9, <3>2, <4>1, <4>2, Amounts
      <4> QED
        BY <1>1, <2>3, <2>4, <2>6, <3>2, <4>1, <4>3 DEF Fair
    <3>3. CASE player.range # NoRange /\ setup.kind # "positional"
      BY <1>1, <2>1, <2>3, <2>4, <2>5, <2>6, <2>7, <3>3, SameAmounts, Amounts
      DEF Fit, Fair, Forgiven
    <3> QED
      BY <3>1, <3>2, <3>3
  <2>11. SessionIsSound(player)' /\ Live(player)' /\ SeesAll(player)'
    BY <1>1, <2>1, <2>3, <2>4, SameAmounts
    DEF Fit, SessionIsSound, RangeIsSound, Live, SeesAll, ListenDuration, RangeDuration
  <2> QED
    BY <2>3, <2>4, <2>10, <2>11 DEF Fit
<1>4. CASE Exists
  <2>1. PlayerTypeOK'
    BY <1>1, <1>3, <1>4 DEF PlayerInv, PlayerTypeOK
  <2>2. DeviceIsPast' /\ PlayerIsFit'
    BY <1>1, <1>2, <1>3, <1>4 DEF DeviceIsPast, PlayerIsFit
  <2>3. SilenceIsShort' /\ ServedIsRecent' /\ CleanupIsKnown' /\ SessionsAreKept'
    BY <1>1, <1>3, <1>4, SameAmounts
    DEF PlayerInv, SilenceIsShort, ServedIsRecent, CleanupIsKnown, SessionsAreKept, Recent
  <2> QED
    BY <2>1, <2>2, <2>3 DEF PlayerInv
<1>5. CASE ~Exists
  <2>1. ~Exists'
    BY <1>1, <1>5 DEF Exists
  <2>2. PlayerTypeOK'
    BY <1>1, <1>5 DEF PlayerInv, PlayerTypeOK
  <2>3. DeviceIsPast' /\ SessionsAreKept'
    BY <1>1, <1>2, SameAmounts DEF PlayerInv, DeviceIsPast, SessionsAreKept
  <2> QED
    BY <2>1, <2>2, <2>3
    DEF PlayerInv, PlayerIsFit, SilenceIsShort, ServedIsRecent, CleanupIsKnown
<1> QED
  BY <1>4, <1>5

\* A tick brings the device further by no more than the player hears.
LEMMA StepTick ==
  ASSUME PlayerInv, Tick
  PROVE  PlayerInv'
<1>1. /\ UNCHANGED <<setup, deceased, cleaning, deciding, discovered, lost, raced, gestures>>
      /\ clock' = clock + 1 /\ clock' \in 0..MaxTime /\ clock \in Nat
      /\ served' = FALSE /\ reported' = FALSE
      /\ player' = IF Exists THEN Later(player) ELSE player
      /\ \/ served /\ cleaning = NoCleanup
         \/ IsIngress /\ cleaning # NoCleanup
  BY Amounts DEF Tick, PlayerInv, PlayerTypeOK
<1>2. Scene
  BY InvScene
<1>3. /\ device' \in Device /\ device'.since <= clock'
      /\ \/ device' = device
         \/ /\ device.playing /\ device.track # None
            /\ \/ device'.track = device.track /\ device'.pos = device.pos + 1
               \/ device'.pos = 0
  <2>1. /\ device \in Device /\ device.since <= clock /\ device.pos \in 0..Duration
        /\ device.since \in Nat /\ Duration \in Nat /\ clock + 1 \in 0..MaxTime
    BY <1>1, <1>2, Amounts DEF Scene, Device
  <2>2. device' \in Advanced(device)
    BY DEF Tick
  <2>3. CASE device.track = None \/ ~device.playing
    <3>1. device' = device
      BY <2>2, <2>3 DEF Advanced
    <3> QED
      BY <1>1, <2>1, <3>1
  <2>4. CASE ~(device.track = None \/ ~device.playing) /\ device.pos < Duration
    <3> DEFINE n == device.pos + 1
               m == clock + 1
    <3>1. device' = [device EXCEPT !.pos = n, !.since = m]
      BY <2>2, <2>4 DEF Advanced
    <3>2. n \in 0..Duration /\ m \in 0..MaxTime
      BY <2>1, <2>4
    <3> HIDE DEF n, m
    <3>3. /\ device' \in Device /\ device'.since = m /\ device'.track = device.track
          /\ device'.pos = n
      BY <2>1, <3>1, <3>2 DEF Device
    <3> QED
      BY <1>1, <2>4, <3>3 DEF n, m
  <2>5. CASE ~(device.track = None \/ ~device.playing) /\ ~(device.pos < Duration)
    <3> DEFINE m == clock + 1
    <3>1. PICK t \in Track : device' = [device EXCEPT !.track = t, !.pos = 0, !.since = m]
      BY <2>2, <2>5 DEF Advanced
    <3>2. m \in 0..MaxTime /\ 0 \in 0..Duration
      BY <2>1
    <3> HIDE DEF m
    <3>3. device' \in Device /\ device'.since = m /\ device'.pos = 0
      BY <2>1, <3>1, <3>2 DEF Device
    <3> QED
      BY <1>1, <2>1, <2>5, <3>3 DEF m
  <2> QED
    BY <2>3, <2>4, <2>5
<1>4. ASSUME Exists
      PROVE  /\ player' \in Player /\ Fit(player)'
             /\ player'.play = player.play /\ player'.contact = player.contact
             /\ player'.stateUpdated = player.stateUpdated
             /\ player'.attempted = player.attempted
             /\ player.contact \in 0..clock /\ player.stateUpdated \in Int
  <2> DEFINE h == IF Heard THEN player.heard + 1 ELSE player.heard
             r == RealTime(player.range)
             q == [player EXCEPT !.range = r, !.heard = h]
             c == player.contact
  <2>1. /\ Fit(player) /\ Ready(player, c) /\ player \in Player
        /\ c \in 0..clock /\ c \in Nat /\ player.stateUpdated \in Int
        /\ player.stateUpdated <= c /\ player.playUpdated <= c
    BY <1>4, InvReady DEF PlayerInv, PlayerIsFit
  <2>2. h \in Nat /\ player.range \in Range \cup {NoRange}
    BY <2>1 DEF Player
  <2>3. player.listened \in Nat
        /\ (player.range # NoRange =>
              /\ player.range.start \in Nat /\ player.range.end \in Nat
              /\ player.range.rt \in Nat)
    BY <2>1, RangeFields
  <2>4. /\ r \in Range \cup {NoRange}
        /\ player.range = NoRange <=> r = NoRange
        /\ player.range # NoRange =>
             /\ r.start = player.range.start /\ r.end = player.range.end
             /\ r.rt = player.range.rt + 1
    <3>1. CASE player.range = NoRange
      BY <3>1 DEF RealTime
    <3>2. CASE player.range # NoRange
      <4> DEFINE m == player.range.rt + 1
      <4>1. player.range.rt <= Duration + clock
        BY <2>1, <3>2 DEF Ready, RangeIsSound
      <4>2. m \in 0..Duration + MaxTime /\ player.range \in Range
        BY <1>1, <2>2, <2>3, <3>2, <4>1, Amounts
      <4>3. r = [player.range EXCEPT !.rt = m]
        BY <3>2 DEF RealTime
      <4> HIDE DEF m
      <4>4. /\ r \in Range /\ r.start = player.range.start /\ r.end = player.range.end
            /\ r.rt = m
        BY <4>2, <4>3 DEF Range
      <4>5. r # NoRange
        BY <2>3, <3>2, <4>4 DEF NoRange, Unseen
      <4> QED
        BY <3>2, <4>4, <4>5 DEF m
    <3> QED
      BY <3>1, <3>2
  <2>5. player' = q
    BY <1>1, <1>4 DEF Later
  <2> HIDE DEF h, r
  <2>6. /\ q \in Player /\ q.range = r /\ q.play = player.play
        /\ q.listened = player.listened /\ q.heard = h
        /\ q.parts = player.parts /\ q.seeks = player.seeks
        /\ q.stateUpdated = player.stateUpdated /\ q.playUpdated = player.playUpdated
        /\ q.contact = c /\ q.reported = player.reported
        /\ q.attempted = player.attempted /\ q.judged = player.judged
        /\ q.calculated = player.calculated
    BY <2>1, <2>2, <2>4 DEF Player
  <2> HIDE DEF q
  <2>7. /\ Budget(q) = IF Heard THEN Budget(player) + 1 ELSE Budget(player)
        /\ Budget(player) \in Nat
    <3>1. q.heard = IF Heard THEN player.heard + 1 ELSE player.heard
      BY <2>6 DEF h
    <3> QED
      BY <2>1, <2>6, <3>1, BudgetGrows, BudgetIsNat
  <2>8. Budget(player)' = Budget(q)
    BY <1>1, <2>5, SameAmounts DEF Budget, Forgiven, BySeek
  <2>9. device.pos \in Nat /\ device'.pos \in Nat
    BY <1>2, <1>3, Amounts DEF Scene, Device
  <2>10. ASSUME player.range # NoRange, setup.kind = "positional"
         PROVE  /\ Reach(player, c)' \in Int /\ Reach(player, c) \in Int
                /\ Reach(player, c)' <= Reach(player, c) + (IF Heard THEN 1 ELSE 0)
    <3>1. /\ q.play = player.play /\ r.end = player.range.end
          /\ r.rt - (clock' - c) = player.range.rt - (clock - c)
      BY <1>1, <2>1, <2>3, <2>4, <2>6, <2>10
    <3>2. Reach(player, c)' =
            IF /\ device'.track = player.play /\ player.range.end < device'.pos
               /\ device'.pos <= player.range.rt - (clock - c) + AllowedDrift + LongestSilence
            THEN device'.pos ELSE player.range.end
      BY <1>1, <2>5, <2>6, <3>1, SameAmounts DEF Reach
    <3>3. Reach(player, c) \in Int /\ Reach(player, c)' \in Int
          /\ player.range.end <= Reach(player, c)
      BY <2>3, <2>9, <2>10, <3>2 DEF Reach
    <3>4. CASE device' = device
      BY <2>3, <2>9, <2>10, <3>2, <3>3, <3>4 DEF Reach
    <3>5. CASE device'.pos = 0
      BY <2>3, <2>9, <2>10, <3>2, <3>3, <3>5
    <3>6. CASE /\ device.playing /\ device'.track = device.track
               /\ device'.pos = device.pos + 1
      <4>1. CASE device.track = player.play
        <5>1. Heard
          BY <2>10, <3>6, <4>1 DEF Heard
        <5>2. Reach(player, c)' <= Reach(player, c) + 1
          BY <1>1, <2>1, <2>3, <2>9, <2>10, <3>2, <3>3, <3>6, <4>1, Amounts DEF Reach
        <5> QED
          BY <3>3, <5>1, <5>2
      <4>2. CASE device.track # player.play
        BY <2>3, <2>10, <3>2, <3>3, <3>6, <4>2
      <4> QED
        BY <4>1, <4>2
    <3> QED
      BY <1>3, <3>3, <3>4, <3>5, <3>6
  <2>11. Fair(player, c)'
    <3>1. CASE player.range = NoRange
      BY <2>1, <2>3, <2>4, <2>5, <2>6, <2>7, <2>8, <3>1 DEF Fair, Fit
    <3>2. CASE player.range # NoRange /\ setup.kind = "positional"
      <4>1. /\ player.range.rt - AllowedDrift - (clock - c) <= player.range.end
            /\ player.listened + Reach(player, c) - player.range.start + EndBuffer
                 <= Budget(player)
        BY <2>1, <3>2 DEF Fit, Fair
      <4>2. player.listened + Reach(player, c)' - player.range.start + EndBuffer
              <= Budget(q)
        BY <2>3, <2>7, <2>10, <3>2, <4>1, Amounts
      <4>3. r.rt - AllowedDrift - (clock' - c) <= r.end
        BY <1>1, <2>1, <2>3, <2>4, <3>2, <4>1, Amounts
      <4> QED
        BY <1>1, <2>4, <2>5, <2>6, <2>8, <3>2, <4>2, <4>3 DEF Fair
    <3>3. CASE player.range # NoRange /\ setup.kind # "positional"
      <4>1. Heard
        BY <3>3 DEF Heard
      <4>2. /\ player.range.end <= player.range.rt + AllowedDrift
            /\ player.listened + player.range.rt - player.range.start + Forgiven
                 <= Budget(player)
        BY <2>1, <3>3 DEF Fit, Fair
      <4>3. /\ r.end <= r.rt + AllowedDrift
            /\ player.listened + r.rt - r.start + Forgiven <= Budget(q)
        BY <2>3, <2>4, <2>7, <3>3, <4>1, <4>2, Amounts
      <4> QED
        BY <1>1, <2>4, <2>5, <2>6, <2>8, <3>3, <4>3, SameAmounts DEF Fair, Forgiven
    <3> QED
      BY <3>1, <3>2, <3>3
  <2>12. SessionIsSound(player)'
    <3>1. q.range # NoRange => q.play # None /\ RangeIsSound(player.range)
      BY <2>1, <2>4, <2>6 DEF Fit, SessionIsSound
    <3>2. q.range # NoRange =>
            /\ r.start <= r.end /\ r.start <= r.rt
            /\ r.rt <= Duration + clock'
            /\ IF Positional' THEN r.end <= Duration ELSE r.end <= r.rt
      BY <1>1, <2>3, <2>4, <2>6, <3>1, SameAmounts, Amounts DEF RangeIsSound
    <3>3. q.stateUpdated <= q.contact /\ q.playUpdated <= q.contact /\ q.contact <= clock'
      BY <1>1, <2>1, <2>6
    <3> QED
      BY <1>1, <2>5, <2>6, <3>1, <3>2, <3>3 DEF SessionIsSound, RangeIsSound
  <2>13. Live(player)' /\ SeesAll(player)'
    <3>1. ListenDuration(q) = ListenDuration(player)
      BY <2>4, <2>6 DEF ListenDuration, RangeDuration
    <3> QED
      BY <1>1, <2>1, <2>5, <2>6, <3>1
      DEF Fit, Live, SeesAll, ListenDuration, RangeDuration
  <2> QED
    BY <2>1, <2>5, <2>6, <2>11, <2>12, <2>13 DEF Fit
<1>5. PlayerTypeOK'
  BY <1>1, <1>3, <1>4 DEF PlayerInv, PlayerTypeOK, Exists
<1>6. DeviceIsPast'
  BY <1>3 DEF DeviceIsPast
<1>7. PlayerIsFit'
  BY <1>1, <1>4 DEF PlayerIsFit, Exists
<1>8. SilenceIsShort'
  <2>1. ASSUME ~IsIngress, Exists, player.play # None
        PROVE  clock + 1 - player.contact <= LongestSilence
    <3>1. Recent(player)
      BY <1>1, <2>1 DEF PlayerInv, ServedIsRecent
    <3>2. player.contact \in Nat
      BY <1>1, <1>4, <2>1
    <3> QED
      BY <1>1, <3>1, <3>2, Amounts DEF Recent, LongestSilence
  <2> QED
    BY <1>1, <1>4, <2>1, SameAmounts DEF SilenceIsShort, Exists
<1>9. ServedIsRecent'
  BY <1>1 DEF ServedIsRecent
<1>10. CleanupIsKnown'
  <2>1. ASSUME cleaning # NoCleanup, Exists, cleaning.kill
        PROVE  clock + 1 - player.stateUpdated >= DeadAfter \/ (IsIngress /\ raced)
    BY <1>1, <1>4, <2>1, Amounts DEF PlayerInv, CleanupIsKnown
  <2> QED
    BY <1>1, <1>4, <2>1, SameAmounts DEF CleanupIsKnown, Exists
<1>11. SessionsAreKept'
  BY <1>1, SameAmounts DEF PlayerInv, SessionsAreKept
<1> QED
  BY <1>5, <1>6, <1>7, <1>8, <1>9, <1>10, <1>11 DEF PlayerInv

-----------------------------------------------------------------------------
\* Decisions.

LEMMA DecisionIsTyped ==
  ASSUME NEW k \in Play
  PROVE  Found(k) \subseteq Play /\ LostBy(k) \subseteq {"sameStamp", "fuzzy"}
  BY DEF Found, LostBy

LEMMA StepCandidateDecided ==
  ASSUME PlayerInv, CandidateDecided
  PROVE  PlayerInv'
<1>1. PICK k \in deciding :
        /\ deciding' = deciding \ {k}
        /\ discovered' = discovered \cup Found(k)
        /\ lost' = lost \cup LostBy(k)
        /\ UNCHANGED <<setup, clock, device, player, deceased, cleaning, raced,
                       served, reported, gestures>>
  BY DEF CandidateDecided
<1>2. PlayerTypeOK
  BY DEF PlayerInv
<1>3. Found(k) \subseteq Play /\ LostBy(k) \subseteq {"sameStamp", "fuzzy"}
  BY <1>2, DecisionIsTyped DEF PlayerTypeOK
<1>4. PlayerTypeOK'
  BY <1>1, <1>2, <1>3 DEF PlayerTypeOK
<1>5. SessionsAreKept'
  BY <1>1, <1>3, SameAmounts DEF PlayerInv, SessionsAreKept
<1>6. DeviceIsPast'
  BY <1>1 DEF PlayerInv, DeviceIsPast
<1>7. PlayerIsFit'
  <2>1. Fit(player) => Fit(player)'
    BY <1>1, SameAmounts
    DEF Fit, Fair, Reach, Forgiven, BySeek, Budget, SessionIsSound, RangeIsSound,
        Live, SeesAll, ListenDuration, RangeDuration
  <2> QED
    BY <1>1, <2>1 DEF PlayerInv, PlayerIsFit, Exists
<1>8. SilenceIsShort' /\ ServedIsRecent' /\ CleanupIsKnown'
  BY <1>1, SameAmounts
  DEF PlayerInv, SilenceIsShort, ServedIsRecent, CleanupIsKnown, Recent, Exists
<1> QED
  BY <1>4, <1>5, <1>6, <1>7, <1>8 DEF PlayerInv

\* What a cleanup leaves of the player when its decision comes.
DecidedAs(p) ==
  /\ Exists => /\ p \in Player /\ Fit(p) /\ p.play = player.play
               /\ p.contact = player.contact
               /\ p.stateUpdated = player.stateUpdated
               /\ ~IsIngress => Forgotten(p) = {}
  /\ ~Exists => p = NoPlayer
  /\ IF cleaning.kill /\ Exists THEN Delete(p)
                               ELSE player' = p /\ UNCHANGED deceased
  /\ lost' = lost \cup LostBy(cleaning.play)
                  \cup (IF cleaning.kill /\ Exists THEN Forgotten(p) ELSE {})

LEMMA DecidedPlayer ==
  ASSUME PlayerInv, CleanupDecided
  PROVE  \E p : DecidedAs(p)
<1> DEFINE b == player.born = cleaning.born /\ Discoverable(cleaning.play)
           p == IF b THEN Cleared(player) ELSE player
<1>1. cleaning \in Cleanup /\ cleaning # NoCleanup /\ cleaning.born \in 0..MaxTime
  BY DEF CleanupDecided, PlayerInv, PlayerTypeOK, Cleanup
<1>2. ~Exists => p = NoPlayer
  BY <1>1, Amounts DEF Exists, NoPlayer, Unseen
<1> HIDE DEF b
<1>3. ASSUME Exists
      PROVE  /\ p \in Player /\ Fit(p) /\ p.play = player.play
             /\ p.contact = player.contact
             /\ p.stateUpdated = player.stateUpdated
             /\ ~IsIngress => Forgotten(p) = {}
  <2>1. /\ player \in Player /\ player.contact \in 0..clock
        /\ Ready(player, player.contact) /\ Fit(player) /\ Scene
    BY <1>3, InvReady, InvScene DEF PlayerInv, PlayerIsFit
  <2>2. ~IsIngress => player.attempted
    BY <1>1, <1>3 DEF PlayerInv, CleanupIsKnown
  <2>3. CASE b
    <3> DEFINE q == Cleared(player)
    <3>1. /\ q \in Player /\ q.range = NoRange /\ q.listened = 0 /\ q.judged = 0
          /\ q.play = player.play /\ q.contact = player.contact
          /\ q.stateUpdated = player.stateUpdated /\ q.playUpdated = player.playUpdated
          /\ q.reported = player.reported /\ q.attempted = player.attempted
          /\ q.calculated = player.calculated
      BY <2>1 DEF Cleared, Player
    <3> HIDE DEF q
    <3>2. Budget(q) \in Nat
      BY <3>1, BudgetIsNat
    <3>3. ListenDuration(q) = 0
      BY <3>1 DEF ListenDuration, RangeDuration
    <3>4. Fit(q)
      BY <2>1, <3>1, <3>2, <3>3 DEF Fit, SessionIsSound, Fair, Live, SeesAll
    <3>5. Forgotten(q) = {}
      BY <3>1, <3>3 DEF Forgotten
    <3>6. p = q
      BY <2>3 DEF q
    <3> QED
      BY <3>1, <3>4, <3>5, <3>6
  <2>4. CASE ~b
    <3>1. p = player
      BY <2>4
    <3>2. ListenDuration(player) \in Nat
      BY <2>1, ListenedIsFair DEF Ready
    <3>3. player.judged \in Nat
      BY <2>1 DEF Player
    <3>4. ~IsIngress => Forgotten(player) = {}
      BY <2>1, <2>2, <3>2, <3>3 DEF Fit, SeesAll, Forgotten
    <3> QED
      BY <2>1, <3>1, <3>4
  <2> QED
    BY <2>3, <2>4
<1>4. /\ IF cleaning.kill /\ Exists THEN Delete(p)
                                    ELSE player' = p /\ UNCHANGED deceased
      /\ lost' = lost \cup LostBy(cleaning.play)
                      \cup (IF cleaning.kill /\ Exists THEN Forgotten(p) ELSE {})
  BY DEF CleanupDecided, b
<1> HIDE DEF p
<1>5. DecidedAs(p)
  BY <1>2, <1>3, <1>4 DEF DecidedAs
<1> QED
  BY <1>5

LEMMA StepCleanupDecided ==
  ASSUME PlayerInv, CleanupDecided
  PROVE  PlayerInv'
<1> DEFINE k == cleaning.play
<1>1. /\ cleaning \in Cleanup /\ cleaning # NoCleanup /\ k \in Play
      /\ cleaning' = NoCleanup /\ discovered' = discovered \cup Found(k)
      /\ UNCHANGED <<setup, clock, device, deciding, raced, served, reported, gestures>>
  BY DEF CleanupDecided, PlayerInv, PlayerTypeOK, Cleanup
<1>2. PlayerTypeOK /\ Scene
  BY InvScene DEF PlayerInv
<1>3. Found(k) \subseteq Play /\ LostBy(k) \subseteq {"sameStamp", "fuzzy"}
  BY <1>1, DecisionIsTyped
<1>3a. PICK p : DecidedAs(p)
  BY DecidedPlayer
<1>4. /\ Exists => /\ p \in Player /\ Fit(p) /\ p.play = player.play
                   /\ p.contact = player.contact
                   /\ p.stateUpdated = player.stateUpdated
                   /\ ~IsIngress => Forgotten(p) = {}
      /\ ~Exists => p = NoPlayer
      /\ IF cleaning.kill /\ Exists THEN Delete(p)
                                   ELSE player' = p /\ UNCHANGED deceased
      /\ lost' = lost \cup LostBy(k)
                      \cup (IF cleaning.kill /\ Exists THEN Forgotten(p) ELSE {})
  BY <1>3a DEF DecidedAs
<1>5. Forgotten(p) \subseteq {"forgotten"}
  BY DEF Forgotten
<1>6. /\ lost' \subseteq {"sameStamp", "fuzzy", "forgotten"}
      /\ discovered' \subseteq Play
  BY <1>1, <1>2, <1>3, <1>4, <1>5 DEF PlayerTypeOK
<1>7. SessionsAreKept'
  BY <1>1, <1>3, <1>4, SameAmounts DEF PlayerInv, SessionsAreKept
<1>8. DeviceIsPast'
  BY <1>1 DEF PlayerInv, DeviceIsPast
<1>9. CASE player' = NoPlayer /\ deceased' \in Time
  <2>1. ~Exists'
    BY <1>9 DEF Exists
  <2>2. PlayerTypeOK'
    BY <1>1, <1>2, <1>6, <1>9 DEF PlayerTypeOK
  <2> QED
    BY <1>1, <1>7, <1>8, <2>1, <2>2
    DEF PlayerInv, PlayerIsFit, SilenceIsShort, ServedIsRecent, CleanupIsKnown
<1>10. CASE Exists /\ ~cleaning.kill
  <2>1. player' = p /\ deceased' = deceased /\ p \in Player
    BY <1>4, <1>10
  <2>2. Fit(p)' /\ (Recent(p) => Recent(p)')
    BY <1>1, <1>4, <1>10, SameFit
  <2>3. PlayerTypeOK'
    BY <1>1, <1>2, <1>6, <2>1 DEF PlayerTypeOK
  <2>4. PlayerIsFit'
    BY <2>1, <2>2 DEF PlayerIsFit
  <2>5. SilenceIsShort' /\ CleanupIsKnown'
    BY <1>1, <1>4, <1>10, <2>1, SameAmounts DEF PlayerInv, SilenceIsShort, CleanupIsKnown
  <2>6. Recent(player) => Recent(p)
    BY <1>4, <1>10 DEF Recent
  <2>7. ServedIsRecent'
    BY <1>1, <1>4, <1>10, <2>1, <2>2, <2>6 DEF PlayerInv, ServedIsRecent
  <2> QED
    BY <1>7, <1>8, <2>3, <2>4, <2>5, <2>7 DEF PlayerInv
<1>11. ~(Exists /\ ~cleaning.kill) => player' = NoPlayer /\ deceased' \in Time
  <2>1. CASE Exists /\ cleaning.kill
    <3>1. player.stateUpdated \in Time
      BY <2>1, InvReady
    <3> QED
      BY <1>4, <2>1, <3>1 DEF Delete
  <2>2. CASE ~Exists
    BY <1>2, <1>4, <2>2 DEF PlayerTypeOK
  <2> QED
    BY <2>1, <2>2
<1> QED
  BY <1>9, <1>10, <1>11

-----------------------------------------------------------------------------
\* The invariant, and what follows from it.

LEMMA PlayerStep ==
  ASSUME PlayerInv, [PlayerNext]_playerVars
  PROVE  PlayerInv'
<1>1. CASE UNCHANGED playerVars
  <2>1. UNCHANGED <<setup, clock, device, player, deceased, cleaning, deciding,
                    discovered, lost, raced, served, reported, gestures>>
    BY <1>1 DEF playerVars
  <2>2. Fit(player) => Fit(player)'
    BY <2>1, SameAmounts
    DEF Fit, Fair, Reach, Forgiven, BySeek, Budget, SessionIsSound, RangeIsSound,
        Live, SeesAll, ListenDuration, RangeDuration
  <2>3. PlayerIsFit'
    BY <2>1, <2>2 DEF PlayerInv, PlayerIsFit, Exists
  <2>4. PlayerTypeOK' /\ DeviceIsPast' /\ SessionsAreKept'
    BY <2>1, SameAmounts DEF PlayerInv, PlayerTypeOK, DeviceIsPast, SessionsAreKept
  <2>5. SilenceIsShort' /\ ServedIsRecent' /\ CleanupIsKnown'
    BY <2>1, SameAmounts
    DEF PlayerInv, SilenceIsShort, ServedIsRecent, CleanupIsKnown, Recent, Exists
  <2> QED
    BY <2>3, <2>4, <2>5 DEF PlayerInv
<1>2. CASE Tick
  BY <1>2, StepTick
<1>3. CASE Listener
  BY <1>3, StepListener
<1>4. CASE Seek
  BY <1>4, StepSeek
<1>5. CASE Poll
  BY <1>5, StepPoll
<1>6. CASE Ingress
  BY <1>6, StepIngress
<1>7. CASE ScheduledCleanup
  BY <1>7, StepScheduledCleanup
<1>8. CASE CleanupDecided
  BY <1>8, StepCleanupDecided
<1>9. CASE CandidateDecided
  BY <1>9, StepCandidateDecided
<1> QED
  BY <1>1, <1>2, <1>3, <1>4, <1>5, <1>6, <1>7, <1>8, <1>9 DEF PlayerNext

LEMMA PlayerStart ==
  ASSUME PlayerInit
  PROVE  PlayerInv
<1>1. ~Exists
  BY DEF PlayerInit, Exists
<1>2. PlayerTypeOK
  <2>1. /\ 0 \in 0..MaxTime /\ 0 \in 0..Duration /\ FirstTrack \in Track
        /\ Unseen \in Time /\ 0 \in 0..MaxGestures
    BY Amounts, PlayerAssumption DEF Time, Unseen
  <2>2. device \in Device
    BY <2>1 DEF PlayerInit, Device
  <2> QED
    BY <2>1, <2>2 DEF PlayerInit, PlayerTypeOK
<1>3. DeviceIsPast /\ SessionsAreKept
  BY DEF PlayerInit, DeviceIsPast, SessionsAreKept
<1> QED
  BY <1>1, <1>2, <1>3
  DEF PlayerInv, PlayerIsFit, SilenceIsShort, ServedIsRecent, CleanupIsKnown

LEMMA PlayerInvAlways == PlayerSpec => []PlayerInv
<1>1. PlayerInit => PlayerInv
  BY PlayerStart
<1>2. PlayerInv /\ [PlayerNext]_playerVars => PlayerInv'
  BY PlayerStep
<1> QED
  BY <1>1, <1>2, PTL DEF PlayerSpec

\* What a player counts as listened to was played, drift, buffers and seeks aside.
THEOREM ListenedAlwaysReal == PlayerSpec => []ListenedIsReal
<1>1. PlayerInv => ListenedIsReal
  <2>1. ASSUME PlayerInv, Exists
        PROVE  ListenDuration(player) <= Budget(player)
    <3>1. player \in Player /\ player.contact \in 0..clock /\ Scene
          /\ Ready(player, player.contact)
      BY <2>1, InvReady, InvScene
    <3> QED
      BY <3>1, ListenedIsFair DEF Ready
  <2> QED
    BY <2>1 DEF ListenedIsReal, Budget, Forgiven, BySeek
<1> QED
  BY <1>1, PlayerInvAlways, PTL

\* No session that was worth discovering is forgotten with its player.
THEOREM SessionsAlwaysKept == PlayerSpec => []SessionsAreKept
<1>1. PlayerInv => SessionsAreKept
  BY DEF PlayerInv
<1> QED
  BY <1>1, PlayerInvAlways, PTL

\* The fields fit together, and a silent player is gone in time.
THEOREM PlayersAlwaysSound == PlayerSpec => []PlayersAreSound
<1>1. PlayerInv => PlayersAreSound
  BY DEF PlayerInv, ServedIsRecent, Recent, PlayersAreSound, SilentPlayersGo
<1> QED
  BY <1>1, PlayerInvAlways, PTL

\* Only the dead are removed, and none comes back without news.
THEOREM RemovedAlwaysDead == PlayerSpec => RemovedIsDead
<1> DEFINE A == /\ Exists /\ player' = NoPlayer =>
                     clock - player.stateUpdated >= DeadAfter \/ (IsIngress /\ raced)
                /\ ~Exists /\ player' # NoPlayer /\ setup.stamped /\ deceased # Unseen
                     => device.since # deceased
<1>1. ASSUME PlayerInv, Exists, CleanupPlayer, cleaning = NoCleanup
      PROVE  A
  <2>1. \A q \in Player : q # NoPlayer
    BY PlayerIsNotNone
  <2> QED
    BY <1>1, <2>1, CleanupResult
<1>2. ASSUME PlayerInv, device.track # None \/ setup.known, News,
             IF Exists THEN ~SameState(Report) ELSE ~Zombie(Report)
      PROVE  A
  <2>1. player' # NoPlayer
    BY <1>2, NewsResult, PlayerIsNotNone
  <2>2. ~Exists /\ setup.stamped => deceased # device.since
    BY <1>2 DEF Zombie, Report
  <2> QED
    BY <2>1, <2>2
<1>3. ASSUME UNCHANGED player
      PROVE  A
  BY <1>3 DEF Exists
<1>4. ASSUME PlayerInv, CleanupDecided
      PROVE  A
  <2>4. PICK p : DecidedAs(p)
    BY <1>4, DecidedPlayer
  <2>1. /\ Exists => p \in Player
        /\ ~Exists => p = NoPlayer
        /\ IF cleaning.kill /\ Exists THEN Delete(p)
                                     ELSE player' = p /\ UNCHANGED deceased
    BY <2>4 DEF DecidedAs
  <2>2. cleaning # NoCleanup
    BY <1>4 DEF CleanupDecided
  <2>3. \A q \in Player : q # NoPlayer
    BY PlayerIsNotNone
  <2> QED
    BY <1>4, <2>1, <2>2, <2>3 DEF PlayerInv, CleanupIsKnown, Delete
<1>5. ASSUME PlayerInv, Tick \/ Seek
      PROVE  A
  <2>1. CASE ~Exists
    BY <1>5, <1>3, <2>1 DEF Tick, Seek
  <2>2. CASE Exists
    <3>1. player' # NoPlayer
      <4>1. player'.born = player.born
        BY <1>5, <2>2, InvReady DEF Tick, Seek, Later, Player
      <4>2. player.born \in 0..MaxTime /\ NoPlayer.born = Unseen
        BY <1>5, <2>2, InvReady DEF Player, NoPlayer
      <4> QED
        BY <4>1, <4>2, Amounts DEF Unseen
    <3> QED
      BY <2>2, <3>1
  <2> QED
    BY <2>1, <2>2
<1>6. ASSUME PlayerInv, Poll \/ Ingress \/ ScheduledCleanup
      PROVE  A
  <2>1. CASE Poll
    <3>1. cleaning = NoCleanup
      BY <2>1 DEF Poll, Undecided
    <3> HIDE DEF A
    <3> QED
      BY <1>1, <1>2, <1>3, <1>6, <2>1, <3>1 DEF Poll, Hear, News
  <2>2. CASE Ingress
    <3>1. setup.known /\ ~setup.stamped
      <4>1. setup.known = TRUE /\ setup.stamped = FALSE
        BY <1>6, <2>2 DEF Ingress, IsIngress, PlayerInv, PlayerTypeOK, Setups
      <4> QED
        BY <4>1
    <3>2. ~SameState(Report)
      BY <3>1 DEF SameState
    <3> HIDE DEF A
    <3> QED
      BY <1>2, <1>3, <1>6, <2>2, <3>1, <3>2 DEF Ingress, Hear, News
  <2>3. CASE ScheduledCleanup
    <3> HIDE DEF A
    <3> QED
      BY <1>1, <1>3, <1>6, <2>3 DEF ScheduledCleanup
  <2> QED
    BY <1>6, <2>1, <2>2, <2>3
<1>7. PlayerInv /\ [PlayerNext]_playerVars => [A]_playerVars
  <2>1. ASSUME PlayerInv, PlayerNext
        PROVE  A
    <3>1. CASE Listener \/ CandidateDecided
      BY <1>3, <3>1 DEF Listener, CandidateDecided
    <3> HIDE DEF A
    <3> QED
      BY <1>4, <1>5, <1>6, <2>1, <3>1 DEF PlayerNext
  <2> HIDE DEF A
  <2> QED
    BY <2>1
<1>8. PlayerSpec => [][A]_playerVars
  BY <1>7, PlayerInvAlways, PTL DEF PlayerSpec
<1> QED
  BY <1>8 DEF RemovedIsDead
=============================================================================
