------------------------ MODULE ScrobbleQueueProofs ------------------------
(* What holds of ScrobbleQueue for every number of Plays and listens, every  *)
(* option and every set of faults, crashes included.                         *)
EXTENDS ScrobbleQueue, TLAPS, FiniteSetTheorems, SequenceTheorems

-----------------------------------------------------------------------------
(* Sequences and sets of rows *)

(* A dead queue stays one when a row of it is replaced.                      *)
LEMMA ExceptDead ==
  ASSUME NEW s \in Seq(DeadRow), NEW i, NEW e \in DeadRow
  PROVE  /\ [s EXCEPT ![i] = e] \in Seq(DeadRow)
         /\ DOMAIN [s EXCEPT ![i] = e] = DOMAIN s
<1>1. s \in [1..Len(s) -> DeadRow] /\ Len(s) \in Nat /\ DOMAIN s = 1..Len(s)
  BY LenProperties
<1>2. [s EXCEPT ![i] = e] \in [1..Len(s) -> DeadRow]
  BY <1>1
<1>3. QED
  BY <1>1, <1>2, SeqDef

(* Completing some rows of a dead queue leaves a dead queue.                 *)
LEMMA CompletedDead ==
  ASSUME NEW s \in Seq(DeadRow), NEW I
  PROVE  /\ Completed(s, I) \in Seq(DeadRow)
         /\ DOMAIN Completed(s, I) = DOMAIN s
<1>1. s \in [1..Len(s) -> DeadRow] /\ Len(s) \in Nat /\ DOMAIN s = 1..Len(s)
  BY LenProperties
<1>2. \A i \in 1..Len(s) : [s[i] EXCEPT !.status = "completed"] \in DeadRow
  BY <1>1 DEF DeadRow, QueueStatus
<1>3. Completed(s, I) \in [1..Len(s) -> DeadRow]
  BY <1>1, <1>2 DEF Completed
<1>4. QED
  BY <1>1, <1>3, SeqDef

(* So does requeueing the failed rows that may be retried.                   *)
LEMMA RequeuedDead ==
  ASSUME dead \in [Play -> Seq(DeadRow)], NEW r
  PROVE  /\ Requeued(r) \in [Play -> Seq(DeadRow)]
         /\ \A p \in Play : DOMAIN Requeued(r)[p] = DOMAIN dead[p]
<1> SUFFICES ASSUME NEW p \in Play
             PROVE  /\ Requeued(r)[p] \in Seq(DeadRow)
                    /\ DOMAIN Requeued(r)[p] = DOMAIN dead[p]
  BY DEF Requeued
<1>1. /\ dead[p] \in [1..Len(dead[p]) -> DeadRow] /\ Len(dead[p]) \in Nat
      /\ DOMAIN dead[p] = 1..Len(dead[p])
  BY LenProperties
<1>2. \A i \in 1..Len(dead[p]) :
        [dead[p][i] EXCEPT !.status = "queued"] \in DeadRow
  BY <1>1 DEF DeadRow, QueueStatus
<1>3. Requeued(r)[p] \in [1..Len(dead[p]) -> DeadRow]
  BY <1>1, <1>2 DEF Requeued
<1>4. QED
  BY <1>1, <1>3, SeqDef

(* The rows a count selects are finitely many.                               *)
LEMMA RowsCount ==
  ASSUME NEW d \in [Play -> Seq(DeadRow)], NEW statuses
  PROVE  Cardinality(RowsIn(d, statuses)) \in Nat
<1> DEFINE All == {{p} \X DOMAIN d[p] : p \in Play}
           f   == [p \in Play |-> {p} \X DOMAIN d[p]]
<1>1. IsFiniteSet(Play)
  BY QueueAssumption, FS_Interval DEF Play
<1>2. f \in Surjection(Play, All)
  BY DEF Surjection
<1>3. IsFiniteSet(All)
  BY <1>1, <1>2, FS_Surjection, Zenon DEF ExistsSurjection
<1>4. \A T \in All : IsFiniteSet(T)
  <2> SUFFICES ASSUME NEW p \in Play PROVE IsFiniteSet({p} \X DOMAIN d[p])
    OBVIOUS
  <2>1. Len(d[p]) \in Nat /\ DOMAIN d[p] = 1..Len(d[p])
    BY LenProperties
  <2>2. IsFiniteSet(DOMAIN d[p])
    BY <2>1, FS_Interval
  <2>3. IsFiniteSet({p})
    BY FS_Singleton
  <2>4. QED
    BY <2>2, <2>3, FS_Product
<1>5. IsFiniteSet(UNION All)
  BY <1>3, <1>4, FS_UNION
<1>6. RowsIn(d, statuses) \in SUBSET UNION All
  BY DEF RowsIn
<1>7. QED
  BY <1>5, <1>6, FS_Subset, FS_CardinalityType

-----------------------------------------------------------------------------
(* Types *)

Busy == {"fetch", "compare", "submit", "accepted"}

(* An activity that waits with a Play holds one, a retry has read at least   *)
(* one dead row of it, and the loop backs off only while it may try again.   *)
Holding ==
  /\ pc["loop"] \in LoopPC
  /\ pc["loop"] = "backoff" => scrobbleRetries < MaxRequestRetries
  /\ \A a \in DeadActor : pc[a] \in DeadPC
  /\ \A a \in Actor : pc[a] \in Busy => cur[a] \in Play
  /\ \A a \in DeadActor : pc[a] \in Busy => DOMAIN rows[a] # {}

TypeInv == TypeOK /\ Holding

DeadTyped == dead \in [Play -> Seq(DeadRow)]

(* The ways the dead rows change all keep their type.                        *)
LEMMA AppendTyped ==
  ASSUME DeadTyped, NEW p, AppendDeadRow(p)
  PROVE  DeadTyped'
<1> DEFINE row == [status |-> "queued", retries |-> 0]
<1>1. row \in DeadRow
  BY DEF DeadRow, QueueStatus
<1>2. \A q \in Play : Append(dead[q], row) \in Seq(DeadRow)
  BY <1>1, AppendProperties DEF DeadTyped
<1>3. dead' = [dead EXCEPT ![p] = Append(dead[p], row)]
  BY DEF AppendDeadRow
<1> HIDE DEF row
<1>4. QED
  BY <1>2, <1>3 DEF DeadTyped

(* A failed attempt rewrites the first dead row.                             *)
LEMMA AttemptTyped ==
  ASSUME TypeInv, NEW a \in DeadActor, pc[a] \in Busy,
         dead' = [dead EXCEPT ![cur[a]][1] =
                    [status |-> "failed", retries |-> OneMore(rows[a][1].retries)]]
  PROVE  DeadTyped'
<1>1. rows[a] \in Seq(DeadRow) /\ DOMAIN rows[a] # {} /\ cur[a] \in Play
  BY DEF TypeInv, TypeOK, Holding, Actor, DeadActor
<1>2. rows[a][1] \in DeadRow
  BY <1>1
<1>3. OneMore(rows[a][1].retries) \in Nat
  BY <1>2 DEF OneMore, DeadRow
<1>4. [status |-> "failed", retries |-> OneMore(rows[a][1].retries)] \in DeadRow
  BY <1>3 DEF DeadRow, QueueStatus
<1>5. [dead[cur[a]] EXCEPT ![1] = [status |-> "failed",
          retries |-> OneMore(rows[a][1].retries)]] \in Seq(DeadRow)
  BY <1>1, <1>4, ExceptDead DEF TypeInv, TypeOK
<1>6. QED
  BY <1>1, <1>5 DEF DeadTyped, TypeInv, TypeOK

(* A resolved Play has rows completed, and a new state.                      *)
LEMMA ResolveTyped ==
  ASSUME TypeInv, NEW p \in Play, NEW s, NEW state \in PlayState,
         Resolve(p, s, state)
  PROVE  /\ DeadTyped'
         /\ play' \in [Play -> PlayState]
         /\ deadLetterLength' \in Int
         /\ deadLetterQueued' \in Int
<1> DEFINE I == IF state = "scrobbled" THEN {1, FirstUnresolved(s)}
                                       ELSE {FirstUnresolved(s)}
<1>1. dead' = [dead EXCEPT ![p] = Completed(dead[p], I)]
  BY DEF Resolve
<1>2. Completed(dead[p], I) \in Seq(DeadRow)
  BY CompletedDead DEF TypeInv, TypeOK
<1>3. DeadTyped'
  BY <1>1, <1>2 DEF DeadTyped, TypeInv, TypeOK
<1>4. QED
  BY <1>3 DEF Resolve, TypeInv, TypeOK

(* A run requeues rows and counts them.                                      *)
LEMMA StartRunTyped ==
  ASSUME TypeInv, NEW r \in Nat, StartRun(r),
         interventions' \in 0..MaxInterventions
  PROVE  TypeInv'
<1>1. DeadTyped'
  BY RequeuedDead DEF StartRun, DeadTyped, TypeInv, TypeOK
<1>2. /\ deadLetterLength' \in Int
      /\ deadLetterQueued' \in Int
  BY <1>1, RowsCount DEF StartRun, DeadTyped
<1>3. pc' \in [Actor -> LoopPC \cup DeadPC] /\ UNCHANGED <<cur, seen, rows>>
  BY DEF StartRun, Goto, DeadPC, TypeInv, TypeOK
<1>4. Holding'
  BY DEF StartRun, Goto, control, TypeInv, TypeOK, Holding, Busy, Actor,
         DeadActor, DeadPC
<1>5. QED
  BY <1>1, <1>2, <1>3, <1>4
     DEF StartRun, TypeInv, TypeOK, DeadTyped, ingressSide, serviceVars, control

(* The types hold at first.                                                  *)
LEMMA TypeInit == Init => TypeInv
<1> SUFFICES ASSUME Init PROVE TypeInv
  OBVIOUS
<1>1. (CHOOSE l \in Listen : TRUE) \in Listen
  BY QueueAssumption
<1>2. TypeOK
  <2>1. <<>> \in Seq(DeadRow)
    BY EmptySeq
  <2>2. /\ dead \in [Play -> Seq(DeadRow)]
        /\ rows \in [Actor -> Seq(DeadRow)]
    BY <2>1 DEF Init
  <2>3. /\ play \in [Play -> PlayState]
        /\ listen \in [Play -> Listen]
        /\ ingress \in [Play -> QueueStatus \cup {"none"}]
        /\ ingressError \in [Play -> Reason]
        /\ history \subseteq Listen
        /\ sent \in [Play -> 0..2]
        /\ cache \in Cache
    BY <1>1 DEF Init, PlayState, QueueStatus, Reason, Cache, NoCache
  <2>4. /\ queuedLength \in Int /\ deadLetterLength \in Int
        /\ deadLetterQueued \in Int
        /\ scrobbleRetries \in 0..MaxRequestRetries
        /\ limit \in Nat
        /\ interventions \in 0..MaxInterventions
    BY QueueAssumption DEF Init
  <2>5. /\ pc \in [Actor -> LoopPC \cup DeadPC]
        /\ cur \in [Actor -> Play \cup {0}]
        /\ seen \in [Actor -> SUBSET Listen]
    BY DEF Init, Actor, LoopPC, DeadPC
  <2>6. aborted \in BOOLEAN /\ monitoring \in BOOLEAN /\ ready \in BOOLEAN
    BY Zenon DEF Init
  <2>7. QED
    BY <2>2, <2>3, <2>4, <2>5, <2>6 DEF TypeOK
<1>3. Holding
  BY DEF Init, Holding, Busy, Actor, DeadActor, LoopPC, DeadPC
<1>4. QED
  BY <1>2, <1>3 DEF TypeInv

(* What the loop does when it gives a Play up, or parks it, keeps the types. *)
LEMMA LoopFailsTyped ==
  ASSUME TypeInv, pc["loop"] \in Busy, NEW why \in Reason,
         FailIngress(cur["loop"], why),
         AddDeadLetter(cur["loop"]),
         NEW where \in LoopPC \ Busy, Leave("loop", where),
         cache' \in Cache, EnvStill, UNCHANGED listen,
         \/ UNCHANGED control
         \/ Succeeded /\ where # "backoff",
         where = "backoff" => where = AfterError
  PROVE  TypeInv'
<1>1. DeadTyped'
  <2>1. DeadTyped
    BY DEF DeadTyped, TypeInv, TypeOK
  <2>2. AppendDeadRow(cur["loop"])
    BY DEF AddDeadLetter
  <2>3. QED
    BY <2>1, <2>2, AppendTyped
<1>2. /\ play' \in [Play -> PlayState]
      /\ ingress' \in [Play -> QueueStatus \cup {"none"}]
      /\ ingressError' \in [Play -> Reason]
      /\ listen' \in [Play -> Listen]
      /\ history' \subseteq Listen
      /\ sent' \in [Play -> 0..2]
  BY DEF FailIngress, EnvStill, serviceVars, TypeInv, TypeOK, PlayState,
         QueueStatus
<1>3. /\ queuedLength' \in Int
      /\ deadLetterLength' \in Int
      /\ deadLetterQueued' \in Int
  BY DEF FailIngress, AddDeadLetter, TypeInv, TypeOK
<1>4. /\ scrobbleRetries' \in 0..MaxRequestRetries
      /\ aborted' \in BOOLEAN /\ monitoring' \in BOOLEAN /\ ready' \in BOOLEAN
      /\ limit' \in Nat
      /\ interventions' \in 0..MaxInterventions
  BY QueueAssumption DEF Succeeded, control, EnvStill, TypeInv, TypeOK
<1>5. <<>> \in Seq(DeadRow)
  BY EmptySeq
<1>6. /\ pc' \in [Actor -> LoopPC \cup DeadPC]
      /\ cur' \in [Actor -> Play \cup {0}]
      /\ seen' \in [Actor -> SUBSET Listen]
      /\ rows' \in [Actor -> Seq(DeadRow)]
  BY <1>5 DEF Leave, TypeInv, TypeOK
<1>7. where = "backoff" => scrobbleRetries' < MaxRequestRetries
  BY DEF AfterError, control
<1>8. Holding'
  BY <1>7 DEF Leave, TypeInv, TypeOK, Holding, Actor, DeadActor, LoopPC,
              DeadPC, Busy
<1>9. QED
  BY <1>1, <1>2, <1>3, <1>4, <1>6, <1>8 DEF TypeInv, TypeOK, DeadTyped

(* No step of the loop leaves the types. *)
LEMMA LoopStepTyped ==
  ASSUME TypeInv, LoopStep
  PROVE  TypeInv'
<1> USE QueueAssumption
    DEF TypeInv, TypeOK, Holding, Busy, Actor, DeadActor, LoopPC, DeadPC,
        PlayState, QueueStatus, Reason, Cache, RowsStill, EnvStill, dbVars,
        serviceVars, counters, control, deadCounts, ingressSide, activity,
        Goto, Leave, Hold, Succeeded
<1>1. CASE LoopTake
  BY <1>1 DEF LoopTake, IsOldest, QueuedPlays
<1>2. CASE LoopNotMonitoring
  BY <1>2 DEF LoopNotMonitoring, FailIngress, NoDeadLetter, AfterError, IsOldest, QueuedPlays
<1>3. CASE LoopAborted
  BY <1>3 DEF LoopAborted, FailHeld, FailIngress, NoDeadLetter, HistoryIs
<1>4. CASE LoopHalts
  BY <1>4 DEF LoopHalts
<1>5. CASE LoopFetch
  BY <1>5 DEF LoopFetch, GotHistory, HistoryIs
<1>6. CASE LoopFetchFails
  <2>1. PICK where \in {"idle", "stopped"} :
          /\ Leave("loop", where)
          /\ Succeeded \/ UNCHANGED control
    BY <1>6 DEF LoopFetchFails, ParkAndGoOn
  <2>2. cache' \in Cache
    BY <1>6 DEF LoopFetchFails, HistoryFails, ErrorCache
  <2>3. /\ FailIngress(cur["loop"], "history") /\ AddDeadLetter(cur["loop"])
        /\ EnvStill /\ UNCHANGED listen
        /\ pc["loop"] \in Busy
    BY <1>6 DEF LoopFetchFails, ParkAndGoOn, SubmitError
  <2>4. /\ where \in LoopPC \ Busy /\ where # "backoff"
        /\ "history" \in Reason /\ TypeInv
    OBVIOUS
  <2>5. QED
    BY <2>1, <2>2, <2>3, <2>4, LoopFailsTyped
<1>7. CASE LoopCompareThrows
  BY <1>7 DEF LoopCompareThrows, FailIngress, NoDeadLetter, AfterError
<1>8. CASE LoopDuped
  BY <1>8 DEF LoopDuped, CompleteIngress
<1>9. CASE LoopNoMatch
  BY <1>9 DEF LoopNoMatch
<1>10. CASE LoopAccepted
  BY <1>10 DEF LoopAccepted, ServiceAccepts
<1>11. CASE LoopScrobbled
  BY <1>11 DEF LoopScrobbled, CompleteIngress
<1>12. CASE LoopRejected
  <2>1. PICK where \in {"idle", "stopped"} :
          /\ Leave("loop", where)
          /\ Succeeded \/ UNCHANGED control
    BY <1>12 DEF LoopRejected, ParkAndGoOn
  <2>2. cache' \in Cache
    BY <1>12 DEF LoopRejected, HistoryFails, ErrorCache
  <2>3. /\ FailIngress(cur["loop"], "submit") /\ AddDeadLetter(cur["loop"])
        /\ EnvStill /\ UNCHANGED listen
        /\ pc["loop"] \in Busy
    BY <1>12 DEF LoopRejected, ParkAndGoOn, SubmitError
  <2>4. /\ where \in LoopPC \ Busy /\ where # "backoff"
        /\ "submit" \in Reason /\ TypeInv
    OBVIOUS
  <2>5. QED
    BY <2>1, <2>2, <2>3, <2>4, LoopFailsTyped
<1>13. CASE LoopShowStop
  <2>1. /\ FailIngress(cur["loop"], "submit") /\ AddDeadLetter(cur["loop"])
        /\ Leave("loop", AfterError)
        /\ EnvStill /\ UNCHANGED <<listen, cache, control>>
        /\ pc["loop"] \in Busy
    BY <1>13 DEF LoopShowStop, SubmitError
  <2>2. /\ AfterError \in LoopPC \ Busy
        /\ "submit" \in Reason /\ TypeInv
    BY DEF AfterError
  <2>3. cache' \in Cache
    BY <2>1
  <2>4. QED
    BY <2>1, <2>2, <2>3, LoopFailsTyped
<1>14. CASE LoopResume
  BY <1>14 DEF LoopResume
<1>15. QED
  BY <1>1, <1>2, <1>3, <1>4, <1>5, <1>6, <1>7, <1>8, <1>9, <1>10, <1>11, <1>12, <1>13, <1>14
     DEF LoopStep

(* The end of an attempt keeps the types when what it records does.          *)
LEMMA AttemptEndsTyped ==
  ASSUME TypeInv, NEW a \in DeadActor, Leave(a, AfterAttempt(a)),
         DeadTyped', play' \in [Play -> PlayState],
         deadLetterLength' \in Int, deadLetterQueued' \in Int,
         cache' \in Cache, EnvStill, UNCHANGED <<ingressSide, control>>
  PROVE  TypeInv'
<1>1. <<>> \in Seq(DeadRow)
  BY EmptySeq
<1>2. /\ pc' \in [Actor -> LoopPC \cup DeadPC]
      /\ cur' \in [Actor -> Play \cup {0}]
      /\ seen' \in [Actor -> SUBSET Listen]
      /\ rows' \in [Actor -> Seq(DeadRow)]
  BY <1>1 DEF Leave, AfterAttempt, DeadPC, TypeInv, TypeOK
<1>3. Holding'
  BY DEF Leave, AfterAttempt, control, TypeInv, TypeOK, Holding, Busy, Actor,
         DeadActor, DeadPC
<1>4. QED
  BY <1>2, <1>3 DEF TypeInv, TypeOK, DeadTyped, EnvStill, serviceVars, control,
                    ingressSide

(* Nor does a step of a retry leave them. *)
LEMMA DeadStepTyped ==
  ASSUME TypeInv, NEW a \in DeadActor, DeadStep(a)
  PROVE  TypeInv'
<1>1. CASE DeadFetchFails(a) \/ DeadSubmitFails(a)
  <2>1. AttemptFails(a) /\ pc[a] \in Busy
    BY <1>1 DEF DeadFetchFails, DeadSubmitFails, Busy
  <2>2. DeadTyped'
    BY <2>1, AttemptTyped DEF AttemptFails
  <2>3. cache' \in Cache
    BY <1>1 DEF DeadFetchFails, DeadSubmitFails, HistoryFails, ErrorCache, Cache,
                TypeInv, TypeOK
  <2>4. /\ play' \in [Play -> PlayState]
        /\ deadLetterLength' \in Int /\ deadLetterQueued' \in Int
    BY <2>1 DEF AttemptFails, deadCounts, TypeInv, TypeOK
  <2>5. QED
    BY <2>1, <2>2, <2>3, <2>4, AttemptEndsTyped DEF AttemptFails
<1>2. CASE DeadDuped(a) \/ DeadScrobbled(a)
  <2>1. cur[a] \in Play
    BY <1>2 DEF DeadDuped, DeadScrobbled, Busy, TypeInv, Holding, Actor,
                DeadActor
  <2>2. \E state \in PlayState : Resolve(cur[a], rows[a], state)
    BY <1>2 DEF DeadDuped, DeadScrobbled, PlayState
  <2>3. /\ DeadTyped' /\ play' \in [Play -> PlayState]
        /\ deadLetterLength' \in Int /\ deadLetterQueued' \in Int
    BY <2>1, <2>2, ResolveTyped
  <2>4. /\ Leave(a, AfterAttempt(a)) /\ EnvStill
        /\ UNCHANGED <<ingressSide, control, cache>>
    BY <1>2 DEF DeadDuped, DeadScrobbled
  <2>5. QED
    BY <2>3, <2>4, AttemptEndsTyped DEF TypeInv, TypeOK
<1> USE DEF TypeInv, TypeOK, Holding, Busy, Actor, DeadActor, LoopPC, DeadPC,
            Cache, RowsStill, EnvStill, dbVars, serviceVars, counters, control,
            Goto, Leave
<1>3. CASE DeadFetch(a)
  BY <1>3 DEF DeadFetch, GotHistory, HistoryIs
<1>4. CASE DeadCompareThrows(a)
  <2>1. <<>> \in Seq(DeadRow)
    BY EmptySeq
  <2>2. QED
    BY <1>4, <2>1 DEF DeadCompareThrows
<1>5. CASE DeadNoMatch(a)
  BY <1>5 DEF DeadNoMatch
<1>6. CASE DeadAccepted(a)
  BY <1>6 DEF DeadAccepted, ServiceAccepts
<1>7. QED
  BY <1>1, <1>2, <1>3, <1>4, <1>5, <1>6 DEF DeadStep

(* Nor does a restart after a crash, whatever row it tore.                   *)
LEMMA RebootTyped ==
  ASSUME TypeInv, Reboot, DeadTyped',
         play' \in [Play -> PlayState],
         listen' \in [Play -> Listen],
         ingress' \in [Play -> QueueStatus \cup {"none"}],
         ingressError' \in [Play -> Reason]
  PROVE  TypeInv'
<1>1. queuedLength' \in Int
  <2>1. IsFiniteSet(Play)
    BY QueueAssumption, FS_Interval DEF Play
  <2>2. {p \in Play : ingress'[p] = "queued"} \in SUBSET Play
    OBVIOUS
  <2>3. Cardinality({p \in Play : ingress'[p] = "queued"}) \in Nat
    BY <2>1, <2>2, FS_Subset, FS_CardinalityType
  <2>4. QED
    BY <2>3 DEF Reboot
<1>2. /\ deadLetterLength' \in Int
      /\ deadLetterQueued' \in Int
  BY RowsCount DEF Reboot, DeadTyped
<1>3. /\ scrobbleRetries' \in 0..MaxRequestRetries
      /\ limit' \in Nat
      /\ interventions' \in 0..MaxInterventions
  BY QueueAssumption DEF Reboot, Intervene, TypeInv, TypeOK
<1>4. <<>> \in Seq(DeadRow)
  BY EmptySeq
<1>5. /\ pc' \in [Actor -> LoopPC \cup DeadPC]
      /\ cur' \in [Actor -> Play \cup {0}]
      /\ seen' \in [Actor -> SUBSET Listen]
      /\ rows' \in [Actor -> Seq(DeadRow)]
  BY <1>4 DEF Reboot, Actor, LoopPC, DeadPC
<1>6. /\ history' \subseteq Listen
      /\ sent' \in [Play -> 0..2]
      /\ cache' \in Cache
  BY DEF Reboot, serviceVars, TypeInv, TypeOK, Cache, NoCache
<1>7. Holding'
  BY DEF Reboot, Holding, Actor, DeadActor, LoopPC, DeadPC, Busy
<1>8. aborted' \in BOOLEAN /\ monitoring' \in BOOLEAN /\ ready' \in BOOLEAN
  BY Zenon DEF Reboot
<1>9. QED
  BY <1>1, <1>2, <1>3, <1>5, <1>6, <1>7, <1>8 DEF TypeInv, TypeOK, DeadTyped

(* Every crash is such a restart.                                            *)
LEMMA CrashStepTyped ==
  ASSUME TypeInv, CrashStep
  PROVE  TypeInv'
<1> USE DEF dbVars
<1>1. CASE Crash
  <2>1. Reboot /\ DeadTyped'
        /\ play' \in [Play -> PlayState]
        /\ listen' \in [Play -> Listen]
        /\ ingress' \in [Play -> QueueStatus \cup {"none"}]
        /\ ingressError' \in [Play -> Reason]
    BY <1>1 DEF Crash, DeadTyped, TypeInv, TypeOK
  <2>2. QED
    BY <2>1, RebootTyped
<1>2. CASE \E p \in Play, l \in Listen : TornEnqueue(p, l)
  <2>1. Reboot /\ DeadTyped'
        /\ play' \in [Play -> PlayState]
        /\ listen' \in [Play -> Listen]
        /\ ingress' \in [Play -> QueueStatus \cup {"none"}]
        /\ ingressError' \in [Play -> Reason]
    BY <1>2 DEF TornEnqueue, NewPlay, DeadTyped, TypeInv, TypeOK, PlayState
  <2>2. QED
    BY <2>1, RebootTyped
<1>3. CASE TornDeadLetter \/ TornFailure
  <2>1. DeadTyped
    BY DEF DeadTyped, TypeInv, TypeOK
  <2>2. AppendDeadRow(cur["loop"])
    BY <1>3 DEF TornDeadLetter, TornFailure
  <2>3. DeadTyped'
    BY <2>1, <2>2, AppendTyped
  <2>4. Reboot
        /\ play' \in [Play -> PlayState]
        /\ listen' \in [Play -> Listen]
        /\ ingress' \in [Play -> QueueStatus \cup {"none"}]
        /\ ingressError' \in [Play -> Reason]
    BY <1>3 DEF TornDeadLetter, TornFailure, TypeInv, TypeOK, QueueStatus,
                Reason
  <2>5. QED
    BY <2>3, <2>4, RebootTyped
<1>4. CASE TornSuccess
  <2>1. Reboot /\ DeadTyped'
        /\ play' \in [Play -> PlayState]
        /\ listen' \in [Play -> Listen]
        /\ ingress' \in [Play -> QueueStatus \cup {"none"}]
        /\ ingressError' \in [Play -> Reason]
    BY <1>4 DEF TornSuccess, DeadTyped, TypeInv, TypeOK, QueueStatus
  <2>2. QED
    BY <2>1, RebootTyped
<1>5. ASSUME NEW a \in DeadActor, TornRetry(a)
      PROVE  TypeInv'
  <2> DEFINE row == [dead[cur[a]][1] EXCEPT !.status = "completed"]
             same == dead[cur[a]]
  <2>1. cur[a] \in Play /\ dead[cur[a]] \in Seq(DeadRow)
    BY <1>5 DEF TornRetry, TypeInv, TypeOK, Holding, Busy, Actor, DeadActor
  <2>2. dead' = [dead EXCEPT ![cur[a]] = [same EXCEPT ![1] = row]]
    BY <1>5 DEF TornRetry
  <2>3. [same EXCEPT ![1] = row] \in Seq(DeadRow)
    <3>1. /\ same \in [1..Len(same) -> DeadRow] /\ Len(same) \in Nat
          /\ DOMAIN same = 1..Len(same)
      BY <2>1, LenProperties
    <3>2. CASE 1 \in 1..Len(same)
      <4>1. same[1] \in DeadRow
        BY <3>1, <3>2
      <4>2. row \in DeadRow
        BY <4>1 DEF DeadRow, QueueStatus
      <4> HIDE DEF row
      <4>3. QED
        BY <2>1, <4>2, ExceptDead
    <3>3. CASE 1 \notin 1..Len(same)
      <4>1. [same EXCEPT ![1] = row] = same
        BY <3>1, <3>3
      <4>2. QED
        BY <2>1, <4>1
    <3>4. QED
      BY <3>2, <3>3
  <2> HIDE DEF row, same
  <2>4. DeadTyped'
    BY <2>1, <2>2, <2>3 DEF DeadTyped, TypeInv, TypeOK
  <2>5. Reboot
        /\ play' \in [Play -> PlayState]
        /\ listen' \in [Play -> Listen]
        /\ ingress' \in [Play -> QueueStatus \cup {"none"}]
        /\ ingressError' \in [Play -> Reason]
    BY <1>5 DEF TornRetry, TypeInv, TypeOK
  <2>6. QED
    BY <2>4, <2>5, RebootTyped
<1>6. QED
  BY <1>1, <1>2, <1>3, <1>4, <1>5 DEF CrashStep

(* Nor does what Sources, users, the scheduler and the environment do.       *)
LEMMA UserStepTyped ==
  ASSUME TypeInv, UserStep
  PROVE  TypeInv'
<1> USE QueueAssumption
    DEF TypeInv, TypeOK, Holding, Busy, Actor, DeadActor, LoopPC, DeadPC,
        PlayState, RowsStill, EnvStill, dbVars, serviceVars, counters,
        control, activity, ingressSide, Goto, Hold, Intervene
<1>1. CASE LoopStart
  <2>1. aborted' \in BOOLEAN
    BY <1>1, Zenon DEF LoopStart
  <2>2. QED
    BY <1>1, <2>1 DEF LoopStart
<1>2. CASE ForceRun
  <2>1. /\ StartRun(ForcedRetries) /\ ForcedRetries \in Nat /\ TypeInv
        /\ interventions' \in 0..MaxInterventions
    BY <1>2 DEF ForceRun
  <2>2. QED
    BY <2>1, StartRunTyped
<1>3. CASE ApiRemoveAll
  <2> DEFINE listed == {p \in Play : HasRow(p, Unresolved)}
  <2>1. dead' = [p \in Play |->
                   IF p \in listed
                   THEN Completed(dead[p], {FirstUnresolved(dead[p])})
                   ELSE dead[p]]
    BY <1>3 DEF ApiRemoveAll
  <2>2. \A p \in Play :
          Completed(dead[p], {FirstUnresolved(dead[p])}) \in Seq(DeadRow)
    BY CompletedDead
  <2>3. DeadTyped'
    BY <2>1, <2>2 DEF DeadTyped
  <2>4. /\ deadLetterLength' \in Int
        /\ deadLetterQueued' \in Int
    <3>1. /\ deadLetterLength' = Cardinality(RowsIn(dead', Unresolved))
          /\ deadLetterQueued' = Cardinality(RowsIn(dead', {"queued"}))
      BY <1>3 DEF ApiRemoveAll
    <3>2. dead' \in [Play -> Seq(DeadRow)]
      BY <2>3 DEF DeadTyped
    <3>3. Cardinality(RowsIn(dead', Unresolved)) \in Nat
      BY <3>2, RowsCount
    <3>4. Cardinality(RowsIn(dead', {"queued"})) \in Nat
      BY <3>2, RowsCount
    <3>5. QED
      BY <3>1, <3>3, <3>4
  <2>5. play' \in [Play -> PlayState]
    BY <1>3 DEF ApiRemoveAll
  <2>6. QED
    BY <1>3, <2>3, <2>4, <2>5 DEF ApiRemoveAll, DeadTyped
<1>4. CASE Stop
  BY <1>4 DEF Stop
<1>5. CASE SetMonitoring
  BY <1>5 DEF SetMonitoring
<1>6. ASSUME NEW p \in Play, ApiRetry(p)
      PROVE  TypeInv'
  <2>1. DOMAIN dead[p] # {}
    BY <1>6 DEF ApiRetry, HasRow
  <2>2. QED
    BY <1>6, <2>1 DEF ApiRetry
<1>7. ASSUME NEW p \in Play, ApiRemove(p)
      PROVE  TypeInv'
  <2>1. Resolve(p, dead[p], "failed") /\ "failed" \in PlayState
    BY <1>7 DEF ApiRemove
  <2>2. /\ DeadTyped' /\ play' \in [Play -> PlayState]
        /\ deadLetterLength' \in Int /\ deadLetterQueued' \in Int
    BY <2>1, ResolveTyped
  <2>3. QED
    BY <1>7, <2>2 DEF ApiRemove, DeadTyped
<1>8. QED
  BY <1>1, <1>2, <1>3, <1>4, <1>5, <1>6, <1>7 DEF UserStep

(* The types and what the activities hold are an inductive invariant.        *)
LEMMA TypeStep == TypeInv /\ [Next]_vars => TypeInv'
<1> SUFFICES ASSUME TypeInv, [Next]_vars PROVE TypeInv'
  OBVIOUS
<1>1. ASSUME NEW p \in Play, NEW l \in Listen, Enqueue(p, l)
      PROVE  TypeInv'
  BY <1>1
     DEF Enqueue, NewPlay, TypeInv, TypeOK, Holding, PlayState, QueueStatus,
         serviceVars, deadCounts, control, activity
<1>2. CASE LoopStep
  BY <1>2, LoopStepTyped
<1>3. CASE RunTick
  <2>1. /\ StartRun(DeadLetterRetries) /\ DeadLetterRetries \in Nat
        /\ interventions' \in 0..MaxInterventions
    BY <1>3, QueueAssumption DEF RunTick, TypeInv, TypeOK
  <2>2. QED
    BY <2>1, StartRunTyped
<1>4. CASE RunTake
  <2>1. \A p \in Retriable : DOMAIN dead[p] # {}
    BY DEF Retriable
  <2>2. QED
    BY <1>4, <2>1
       DEF RunTake, IsOldest, Retriable, Hold, TypeInv, TypeOK, Holding, Busy,
           Actor, DeadActor, LoopPC, DeadPC, RowsStill, EnvStill, dbVars,
           counters, serviceVars, control
<1>5. CASE RunEnds
  BY <1>5
     DEF RunEnds, Goto, TypeInv, TypeOK, Holding, Busy, Actor, DeadActor,
         LoopPC, DeadPC, RowsStill, EnvStill, dbVars, counters, serviceVars,
         control
<1>6. ASSUME NEW a \in DeadActor, DeadStep(a)
      PROVE  TypeInv'
  BY <1>6, DeadStepTyped
<1>7. CASE UserStep
  BY <1>7, UserStepTyped
<1>8. CASE BecomeUnready \/ BecomeReady
  <2>1. ready' \in BOOLEAN
    BY <1>8, Zenon DEF BecomeUnready, BecomeReady
  <2>2. QED
    BY <1>8, <2>1, QueueAssumption
       DEF BecomeUnready, BecomeReady, Intervene, TypeInv, TypeOK, Holding,
         RowsStill, dbVars, counters, serviceVars, activity
<1>9. CASE CrashStep
  BY <1>9, CrashStepTyped
<1>10. CASE UNCHANGED vars
  BY <1>10
     DEF vars, TypeInv, TypeOK, Holding, dbVars, serviceVars, counters,
         control, activity
<1>11. QED
  BY <1>1, <1>2, <1>3, <1>4, <1>5, <1>6, <1>7, <1>8, <1>9, <1>10
     DEF Next, RunStep, DeadActor

(* Whatever fails and whenever the process dies, the variables keep their    *)
(* types: in particular the loop never exceeds its configured retries, and   *)
(* an activity that works on a Play holds one.                               *)
THEOREM TypeCorrect == Spec => []TypeOK
<1>1. Spec => []TypeInv
  BY TypeInit, TypeStep, PTL DEF Spec
<1>2. TypeInv => TypeOK
  BY DEF TypeInv
<1>3. QED
  BY <1>1, <1>2, PTL

-----------------------------------------------------------------------------
(* Success is real *)

(* What the client believes of the service is true: an activity that got an  *)
(* answer has submitted its Play, and a history it has seen, or kept, never  *)
(* shows a listen the service does not have.                                 *)
Evidence ==
  /\ \A a \in Actor : pc[a] = "accepted" => sent[cur[a]] > 0
  /\ \A a \in Actor : seen[a] \subseteq history
  /\ cache.listens \subseteq history
  /\ \A p \in Play : sent[p] > 0 => listen[p] \in history

(* No queue, activity or submission is about a row that does not exist yet,  *)
(* whose listen is still to be chosen.                                       *)
Fresh ==
  \A p \in Play : play[p] = "absent" =>
    /\ sent[p] = 0
    /\ ingress[p] = "none"
    /\ DOMAIN dead[p] = {}
    /\ \A a \in Actor : cur[a] # p

RealInv == TypeInv /\ Evidence /\ Fresh /\ SuccessIsReal

(* A step that submits nothing and creates no row keeps all of it when no    *)
(* activity takes an answer or a history from nowhere, the rows that do not  *)
(* exist are left alone, and a new outcome has its evidence.                 *)
ServiceStill == UNCHANGED <<history, sent, listen>>

CacheReal == cache'.listens \subseteq history

ActorsReal ==
  \A a \in Actor :
    /\ pc'[a] = "accepted" => pc[a] = "accepted" /\ cur'[a] = cur[a]
    /\ seen'[a] \subseteq history
    /\ cur'[a] \in Play => cur'[a] = cur[a] \/ play[cur'[a]] # "absent"

RowsReal ==
  \A p \in Play : play'[p] = "absent" =>
    /\ play[p] = "absent"
    /\ ingress'[p] = ingress[p]
    /\ DOMAIN dead'[p] = DOMAIN dead[p]

OutcomeReal ==
  \A p \in Play :
    /\ play'[p] = "scrobbled" => play[p] = "scrobbled" \/ sent[p] > 0
    /\ play'[p] = "duped" => play[p] = "duped" \/ listen[p] \in history

(* Such a step keeps all of it.                                              *)
LEMMA QuietStep ==
  ASSUME RealInv, ServiceStill, CacheReal, ActorsReal, RowsReal, OutcomeReal
  PROVE  (Evidence /\ Fresh /\ SuccessIsReal)'
<1> USE DEF RealInv, ServiceStill
<1>1. Evidence'
  BY DEF CacheReal, ActorsReal, Evidence
<1>2. Fresh'
  BY DEF ActorsReal, RowsReal, Fresh
<1>3. SuccessIsReal'
  BY DEF OutcomeReal, SuccessIsReal
<1>4. QED
  BY <1>1, <1>2, <1>3

(* An activity that moves on, other than by an answer, takes nothing from    *)
(* nowhere.                                                                  *)
LEMMA GotoReal ==
  ASSUME RealInv, NEW a \in Actor, NEW where, where # "accepted",
         Goto(a, where) \/ Leave(a, where)
  PROVE  ActorsReal
BY DEF RealInv, TypeInv, TypeOK, Evidence, ActorsReal, Goto, Leave, Play

(* Nor does one that takes up an existing Play.                              *)
LEMMA HoldReal ==
  ASSUME RealInv, NEW a \in Actor, NEW p \in Play, play[p] # "absent",
         Hold(a, p)
  PROVE  ActorsReal
BY DEF RealInv, TypeInv, TypeOK, Evidence, ActorsReal, Hold

(* A Play an activity works on exists.                                       *)
LEMMA HeldExists ==
  ASSUME RealInv, NEW a \in Actor, pc[a] \in Busy
  PROVE  cur[a] \in Play /\ play[cur[a]] # "absent"
BY DEF RealInv, TypeInv, Holding, Fresh

(* An acceptable match is a listen the service has.                          *)
LEMMA MatchIsReal ==
  ASSUME RealInv, NEW a \in Actor, Matches(a)
  PROVE  listen[cur[a]] \in history
<1>1. CASE Recorded(listen[cur[a]])
  <2>1. PICK q \in Play : play[q] = "scrobbled" /\ listen[q] = listen[cur[a]]
    BY <1>1 DEF Recorded, Scrobbled
  <2>2. sent[q] > 0
    BY <2>1 DEF RealInv, SuccessIsReal
  <2>3. QED
    BY <2>1, <2>2 DEF RealInv, Evidence
<1>2. CASE listen[cur[a]] \in seen[a]
  BY <1>2 DEF RealInv, Evidence
<1>3. QED
  BY <1>1, <1>2 DEF Matches

(* A submission the service accepts is in its history.                       *)
LEMMA AcceptedReal ==
  ASSUME RealInv, NEW a \in Actor, ServiceAccepts(a)
  PROVE  (Evidence /\ Fresh /\ SuccessIsReal)'
<1>1. cur[a] \in Play /\ play[cur[a]] # "absent"
  BY HeldExists DEF ServiceAccepts, Busy
<1>2. /\ sent' = [sent EXCEPT ![cur[a]] = IF @ = 0 THEN 1 ELSE 2]
      /\ sent \in [Play -> 0..2]
      /\ history' = history \cup {listen[cur[a]]}
      /\ UNCHANGED <<play, listen, ingress, dead, cache, cur, seen>>
      /\ pc' = [pc EXCEPT ![a] = "accepted"]
      /\ pc \in [Actor -> LoopPC \cup DeadPC]
  BY DEF ServiceAccepts, Goto, RowsStill, dbVars, RealInv, TypeInv, TypeOK
<1>3. \A p \in Play : /\ sent[p] > 0 => sent'[p] > 0
                      /\ p # cur[a] => sent'[p] = sent[p]
  BY <1>1, <1>2
<1>4. sent'[cur[a]] > 0
  BY <1>1, <1>2
<1>5. Evidence'
  <2>1. \A b \in Actor : pc'[b] = "accepted" => sent'[cur[b]] > 0
    <3> SUFFICES ASSUME NEW b \in Actor, pc'[b] = "accepted"
                 PROVE  sent'[cur[b]] > 0
      OBVIOUS
    <3>1. CASE b = a
      BY <3>1, <1>4
    <3>2. CASE b # a
      <4>1. pc[b] = "accepted"
        BY <3>2, <1>2
      <4>2. cur[b] \in Play /\ sent[cur[b]] > 0
        BY <4>1, HeldExists DEF Busy, RealInv, Evidence
      <4>3. QED
        BY <4>2, <1>3
    <3>3. QED
      BY <3>1, <3>2
  <2>2. \A p \in Play : sent'[p] > 0 => listen[p] \in history'
    BY <1>2, <1>3 DEF RealInv, Evidence
  <2>3. QED
    BY <1>2, <2>1, <2>2 DEF RealInv, Evidence
<1>6. Fresh'
  BY <1>1, <1>2, <1>3 DEF RealInv, Fresh
<1>7. SuccessIsReal'
  BY <1>2, <1>3 DEF RealInv, SuccessIsReal
<1>8. QED
  BY <1>5, <1>6, <1>7

(* So does the creation of a row.                                            *)
LEMMA NewPlayReal ==
  ASSUME RealInv, NEW p \in Play, NEW l \in Listen, NewPlay(p, l),
         CacheReal, ActorsReal, UNCHANGED <<history, sent, dead>>,
         \A q \in Play \ {p} : ingress'[q] = ingress[q]
  PROVE  (Evidence /\ Fresh /\ SuccessIsReal)'
<1> USE DEF RealInv, NewPlay
<1>1. sent[p] = 0
  BY DEF Fresh
<1>2. /\ play' = [play EXCEPT ![p] = "queued"] /\ play \in [Play -> PlayState]
      /\ listen' = [listen EXCEPT ![p] = l] /\ listen \in [Play -> Listen]
  BY DEF TypeInv, TypeOK
<1>3. Evidence'
  <2>1. \A q \in Play : sent[q] > 0 => listen'[q] \in history
    BY <1>1, <1>2 DEF Evidence
  <2>2. QED
    BY <2>1 DEF CacheReal, ActorsReal, Evidence
<1>4. Fresh'
  BY <1>2 DEF ActorsReal, Fresh
<1>5. SuccessIsReal'
  BY <1>2 DEF SuccessIsReal
<1>6. QED
  BY <1>3, <1>4, <1>5

(* No step of the loop records a success that is not one.                    *)
LEMMA LoopStepReal ==
  ASSUME RealInv, LoopStep
  PROVE  (Evidence /\ Fresh /\ SuccessIsReal)'
<1> USE DEF Actor
<1>1. CASE LoopAccepted
  BY <1>1, AcceptedReal DEF LoopAccepted
<1>2. CASE ~LoopAccepted
  <2> USE <1>2
      DEF LoopStep, LoopTake, LoopNotMonitoring, LoopAborted, LoopHalts,
          LoopFetch, LoopFetchFails, LoopCompareThrows, LoopDuped, LoopNoMatch,
          LoopScrobbled, LoopRejected, LoopShowStop, LoopResume, FailHeld,
          ParkAndGoOn
  <2>1. ServiceStill
    BY DEF ServiceStill, RowsStill, EnvStill, dbVars, serviceVars
  <2>2. CacheReal
    BY DEF CacheReal, HistoryIs, GotHistory, HistoryFails, ErrorCache, RealInv,
           Evidence
  <2>3. ActorsReal
    <3>1. CASE LoopTake
      BY <3>1, HoldReal DEF IsOldest, QueuedPlays, RealInv, Fresh
    <3>2. CASE LoopFetch
      BY <3>2 DEF ActorsReal, GotHistory, HistoryIs, RealInv, Evidence, TypeInv,
                  TypeOK, Play
    <3>3. CASE ~LoopTake /\ ~LoopFetch
      <4>1. \E where \in LoopPC : /\ where # "accepted"
                                  /\ Goto("loop", where) \/ Leave("loop", where)
        BY <3>3 DEF AfterError, LoopPC
      <4>2. QED
        BY <4>1, GotoReal
    <3>4. QED
      BY <3>1, <3>2, <3>3
  <2>4. RowsReal
    <3>1. \A p \in Play :
            \/ dead'[p] # dead[p]
            \/ ingress'[p] # ingress[p]
            \/ play'[p] # play[p]
            => play[p] # "absent" /\ play'[p] # "absent"
      BY HeldExists
         DEF Busy, IsOldest, QueuedPlays, RealInv, Fresh, RowsStill, dbVars,
             AddDeadLetter, AppendDeadRow, NoDeadLetter, FailIngress,
             CompleteIngress, SubmitError, TypeInv, TypeOK
    <3>2. QED
      BY <3>1 DEF RowsReal
  <2>5. OutcomeReal
    BY MatchIsReal
       DEF OutcomeReal, FailIngress, CompleteIngress, RowsStill, dbVars, RealInv,
           TypeInv, TypeOK, Evidence
  <2>6. QED
    BY <2>1, <2>2, <2>3, <2>4, <2>5, QuietStep
<1>3. QED
  BY <1>1, <1>2

(* No retry does.                                                            *)
LEMMA DeadStepReal ==
  ASSUME RealInv, NEW a \in DeadActor, DeadStep(a)
  PROVE  (Evidence /\ Fresh /\ SuccessIsReal)'
<1> USE DEF Actor, DeadActor
<1>1. CASE DeadAccepted(a)
  BY <1>1, AcceptedReal DEF DeadAccepted
<1>2. CASE ~DeadAccepted(a)
  <2> USE <1>2
      DEF DeadStep, DeadFetch, DeadFetchFails, DeadCompareThrows, DeadDuped,
          DeadNoMatch, DeadScrobbled, DeadSubmitFails, AttemptFails
  <2>1. ServiceStill
    BY DEF ServiceStill, RowsStill, EnvStill, dbVars, serviceVars, ingressSide
  <2>2. CacheReal
    BY DEF CacheReal, HistoryIs, GotHistory, HistoryFails, ErrorCache, RealInv,
           Evidence
  <2>3. ActorsReal
    <3>1. CASE DeadFetch(a)
      BY <3>1 DEF ActorsReal, GotHistory, HistoryIs, RealInv, Evidence, TypeInv,
                  TypeOK, Play
    <3>2. CASE ~DeadFetch(a)
      <4>1. \E where \in DeadPC : /\ where # "accepted"
                                  /\ Goto(a, where) \/ Leave(a, where)
        BY <3>2 DEF AfterAttempt, DeadPC
      <4>2. QED
        BY <4>1, GotoReal
    <3>3. QED
      BY <3>1, <3>2
  <2>4. RowsReal
    <3>1. cur[a] \in Play /\ play[cur[a]] # "absent"
      BY HeldExists DEF Busy
    <3>2. ingress' = ingress
      BY DEF RowsStill, dbVars, ingressSide
    <3>3. \A p \in Play \ {cur[a]} : dead'[p] = dead[p]
      BY DEF RowsStill, dbVars, Resolve, RealInv, TypeInv, TypeOK
    <3>4. \/ UNCHANGED play
          \/ play' = [play EXCEPT ![cur[a]] = "duped"]
          \/ play' = [play EXCEPT ![cur[a]] = "scrobbled"]
      BY DEF RowsStill, dbVars, Resolve
    <3>5. play'[cur[a]] # "absent"
          /\ \A p \in Play \ {cur[a]} : play'[p] = play[p]
      BY <3>1, <3>4 DEF RealInv, TypeInv, TypeOK
    <3>6. QED
      BY <3>2, <3>3, <3>5 DEF RowsReal
  <2>5. OutcomeReal
    <3>1. CASE DeadDuped(a)
      <4>1. listen[cur[a]] \in history
        BY <3>1, MatchIsReal
      <4>2. play' = [play EXCEPT ![cur[a]] = "duped"]
        BY <3>1 DEF Resolve
      <4>3. QED
        BY <4>1, <4>2 DEF OutcomeReal, RealInv, TypeInv, TypeOK
    <3>2. CASE DeadScrobbled(a)
      <4>1. sent[cur[a]] > 0
        BY <3>2 DEF RealInv, Evidence
      <4>2. play' = [play EXCEPT ![cur[a]] = "scrobbled"]
        BY <3>2 DEF Resolve
      <4>3. QED
        BY <4>1, <4>2 DEF OutcomeReal, RealInv, TypeInv, TypeOK
    <3>3. CASE UNCHANGED play
      BY <3>3 DEF OutcomeReal
    <3>4. QED
      BY <3>1, <3>2, <3>3 DEF RowsStill, dbVars
  <2>6. QED
    BY <2>1, <2>2, <2>3, <2>4, <2>5, QuietStep
<1>3. QED
  BY <1>1, <1>2

(* Nor does a user.                                                          *)
LEMMA StartRunReal ==
  ASSUME RealInv, NEW r, StartRun(r)
  PROVE  (Evidence /\ Fresh /\ SuccessIsReal)'
<1>1. ServiceStill /\ CacheReal
  BY DEF StartRun, ServiceStill, CacheReal, serviceVars, ingressSide, RealInv,
         Evidence
<1>2. ActorsReal
  BY GotoReal DEF StartRun, Actor
<1>3. RowsReal
  <2>1. \A p \in Play : DOMAIN dead'[p] = DOMAIN dead[p]
    BY RequeuedDead DEF StartRun, RealInv, TypeInv, TypeOK
  <2>2. QED
    BY <2>1 DEF StartRun, RowsReal, ingressSide
<1>4. OutcomeReal
  BY DEF StartRun, OutcomeReal
<1>5. QED
  BY <1>1, <1>2, <1>3, <1>4, QuietStep

(* Nor does a user.                                                          *)
LEMMA UserStepReal ==
  ASSUME RealInv, UserStep
  PROVE  (Evidence /\ Fresh /\ SuccessIsReal)'
<1>1. CASE ForceRun
  BY <1>1, StartRunReal DEF ForceRun
<1>2. CASE ~ForceRun
  <2> USE <1>2
      DEF UserStep, LoopStart, ApiRemoveAll, Stop, SetMonitoring, ApiRetry,
          ApiRemove
  <2>1. ServiceStill /\ CacheReal
    BY DEF ServiceStill, CacheReal, RowsStill, EnvStill, dbVars, serviceVars,
           ingressSide, RealInv, Evidence
  <2>2. ActorsReal
    <3>1. CASE \E p \in Play : ApiRetry(p)
      <4>1. PICK p \in Play : Hold("api", p) /\ HasRow(p, Unresolved)
        BY <3>1
      <4>2. play[p] # "absent"
        BY <4>1 DEF HasRow, RealInv, Fresh
      <4>3. QED
        BY <4>1, <4>2, HoldReal DEF Actor
    <3>2. CASE LoopStart
      BY <3>2, GotoReal DEF Actor
    <3>3. CASE UNCHANGED <<pc, cur, seen>>
      BY <3>3 DEF ActorsReal, RealInv, Evidence
    <3>4. QED
      BY <3>1, <3>2, <3>3 DEF activity
  <2>3. RowsReal
    <3>1. \A p \in Play : HasRow(p, Unresolved) => play[p] # "absent"
      BY DEF HasRow, RealInv, Fresh
    <3>2. CASE ApiRemoveAll
      BY <3>1, <3>2 DEF RowsReal, ingressSide
    <3>3. CASE \E p \in Play : ApiRemove(p)
      BY <3>1, <3>3 DEF Resolve, RowsReal, ingressSide, RealInv, TypeInv, TypeOK
    <3>4. CASE UNCHANGED dbVars
      BY <3>4 DEF RowsReal, dbVars
    <3>5. QED
      BY <3>2, <3>3, <3>4 DEF RowsStill
  <2>4. OutcomeReal
    BY DEF OutcomeReal, Resolve, RowsStill, dbVars, RealInv, TypeInv, TypeOK
  <2>5. QED
    BY <2>1, <2>2, <2>3, <2>4, QuietStep
<1>3. QED
  BY <1>1, <1>2

(* Nor does a crash, whatever row it tears.                                  *)
LEMMA CrashStepReal ==
  ASSUME RealInv, CrashStep
  PROVE  (Evidence /\ Fresh /\ SuccessIsReal)'
<1> USE DEF CrashStep, Crash, TornDeadLetter, TornFailure, TornSuccess,
            TornRetry, TornEnqueue
<1>1. Reboot
  OBVIOUS
<1>2. CacheReal /\ ActorsReal /\ UNCHANGED <<history, sent>>
  BY <1>1 DEF Reboot, CacheReal, ActorsReal, NoCache, Play, serviceVars
<1>3. CASE \E p \in Play, l \in Listen : TornEnqueue(p, l)
  BY <1>2, <1>3, NewPlayReal
<1>4. CASE ~\E p \in Play, l \in Listen : TornEnqueue(p, l)
  <2>1. ServiceStill
    BY <1>2, <1>4 DEF ServiceStill, dbVars
  <2>2. RowsReal
    <3>1. UNCHANGED play
      BY <1>4 DEF dbVars
    <3>2. \A p \in Play : dead'[p] # dead[p] \/ ingress'[p] # ingress[p]
                            => play[p] # "absent"
      BY <1>4, HeldExists
         DEF AboutToFail, Busy, Actor, DeadActor, AppendDeadRow, dbVars,
             RealInv, TypeInv, TypeOK
    <3>3. QED
      BY <3>1, <3>2 DEF RowsReal
  <2>3. OutcomeReal
    BY <1>4 DEF OutcomeReal, dbVars
  <2>4. QED
    BY <1>2, <2>1, <2>2, <2>3, QuietStep
<1>5. QED
  BY <1>3, <1>4

(* All of it holds at first.                                                 *)
LEMMA RealInit == Init => RealInv
<1> SUFFICES ASSUME Init PROVE RealInv
  OBVIOUS
<1>1. TypeInv
  BY TypeInit
<1>2. Evidence /\ Fresh /\ SuccessIsReal
  BY DEF Init, Evidence, Fresh, SuccessIsReal, Actor, NoCache, Play
<1>3. QED
  BY <1>1, <1>2 DEF RealInv

(* That every recorded success has its evidence is inductive.                *)
LEMMA RealStep == RealInv /\ [Next]_vars => RealInv'
<1> SUFFICES ASSUME RealInv, [Next]_vars PROVE RealInv'
  OBVIOUS
<1>1. TypeInv'
  BY TypeStep DEF RealInv
<1>2. (Evidence /\ Fresh /\ SuccessIsReal)'
  <2>1. ASSUME NEW p \in Play, NEW l \in Listen, Enqueue(p, l)
        PROVE  (Evidence /\ Fresh /\ SuccessIsReal)'
    <3>1. /\ NewPlay(p, l) /\ UNCHANGED <<history, sent, dead>>
          /\ \A q \in Play \ {p} : ingress'[q] = ingress[q]
      BY <2>1 DEF Enqueue, serviceVars, RealInv, TypeInv, TypeOK
    <3>2. CacheReal /\ ActorsReal
      BY <2>1 DEF Enqueue, activity, CacheReal, ActorsReal, RealInv, Evidence
    <3>3. QED
      BY <3>1, <3>2, NewPlayReal
  <2>2. CASE LoopStep
    BY <2>2, LoopStepReal
  <2>3. CASE RunTick
    BY <2>3, StartRunReal DEF RunTick
  <2>4. CASE RunTake
    <3>1. PICK p \in Play : Hold("run", p) /\ p \in Retriable
      BY <2>4 DEF RunTake, IsOldest
    <3>2. play[p] # "absent"
      BY <3>1 DEF Retriable, RealInv, Fresh
    <3>3. ActorsReal
      BY <3>1, <3>2, HoldReal DEF Actor
    <3>4. ServiceStill /\ CacheReal /\ RowsReal /\ OutcomeReal
      BY <2>4 DEF RunTake, RowsStill, EnvStill, dbVars, serviceVars, RealInv,
                  Evidence, ServiceStill, CacheReal, RowsReal, OutcomeReal
    <3>5. QED
      BY <3>3, <3>4, QuietStep
  <2>5. CASE RunEnds
    <3>1. ActorsReal
      BY <2>5, GotoReal DEF RunEnds, Actor
    <3>2. ServiceStill /\ CacheReal /\ RowsReal /\ OutcomeReal
      BY <2>5 DEF RunEnds, RowsStill, EnvStill, dbVars, serviceVars, RealInv,
                  Evidence, ServiceStill, CacheReal, RowsReal, OutcomeReal
    <3>3. QED
      BY <3>1, <3>2, QuietStep
  <2>6. ASSUME NEW a \in DeadActor, DeadStep(a)
        PROVE  (Evidence /\ Fresh /\ SuccessIsReal)'
    BY <2>6, DeadStepReal
  <2>7. CASE UserStep
    BY <2>7, UserStepReal
  <2>8. CASE BecomeUnready \/ BecomeReady \/ UNCHANGED vars
    <3>1. UNCHANGED <<dbVars, serviceVars, cache, activity>>
      BY <2>8 DEF BecomeUnready, BecomeReady, RowsStill, vars
    <3>2. ServiceStill /\ CacheReal /\ ActorsReal /\ RowsReal /\ OutcomeReal
      BY <3>1 DEF dbVars, serviceVars, activity, RealInv, Evidence,
                  ServiceStill, CacheReal, ActorsReal, RowsReal, OutcomeReal
    <3>3. QED
      BY <3>2, QuietStep
  <2>9. CASE CrashStep
    BY <2>9, CrashStepReal
  <2>10. QED
    BY <2>1, <2>2, <2>3, <2>4, <2>5, <2>6, <2>7, <2>8, <2>9
       DEF Next, RunStep, DeadActor
<1>3. QED
  BY <1>1, <1>2 DEF RealInv

(* Whatever fails, is retried, removed or interrupted by the death of the    *)
(* process, a Play recorded as scrobbled was taken by the service, and one   *)
(* recorded as a dupe is in its history.                                     *)
THEOREM SuccessIsRealAlways == Spec => []SuccessIsReal
<1>1. Spec => []RealInv
  BY RealInit, RealStep, PTL DEF Spec
<1>2. RealInv => SuccessIsReal
  BY DEF RealInv
<1>3. QED
  BY <1>1, <1>2, PTL

-----------------------------------------------------------------------------
(* How a Play is handed over from the ingress queue to the dead queue, while *)
(* the process lives: it is in one queue at a time, and no two activities    *)
(* hold it.                                                                  *)

Rows(p) == Len(dead[p])

\* OneQueueAtATime, counting rows
OneRow == \A p \in Play : /\ Rows(p) \in {0, 1}
                          /\ Rows(p) = 1 => ingress[p] = "failed"

(* The loop holds a Play of the ingress queue, a retry one of the dead queue.*)
Held ==
  /\ pc["loop"] \in Busy => ingress[cur["loop"]] = "queued"
  /\ \A a \in DeadActor : pc[a] \in Busy => Rows(cur[a]) = 1

Handover == OneRow /\ Held

(* Sequences of dead rows with the same domain are equally long.             *)
LEMMA SameLen ==
  ASSUME NEW s \in Seq(DeadRow), NEW t \in Seq(DeadRow), DOMAIN s = DOMAIN t
  PROVE  Len(s) = Len(t)
<1>1. /\ Len(s) \in Nat /\ DOMAIN s = 1..Len(s)
      /\ Len(t) \in Nat /\ DOMAIN t = 1..Len(t)
  BY LenProperties
<1>2. ASSUME NEW m \in Nat, NEW n \in Nat, 1..m = 1..n
      PROVE  m = n
  <2>1. m # 0 => m \in 1..n
    BY <1>2
  <2>2. n # 0 => n \in 1..m
    BY <1>2
  <2>3. QED
    BY <2>1, <2>2
<1>3. 1..Len(s) = 1..Len(t)
  BY <1>1, Zenon
<1>4. QED
  BY <1>1, <1>2, <1>3

(* A Play that has a row in the dead queue has exactly one.                  *)
LEMMA SomeRow ==
  ASSUME TypeInv, OneRow, NEW p \in Play, DOMAIN dead[p] # {}
  PROVE  Rows(p) = 1
<1>1. dead[p] \in Seq(DeadRow)
  BY DEF TypeInv, TypeOK
<1>2. Len(dead[p]) \in Nat /\ DOMAIN dead[p] = 1..Len(dead[p])
  BY <1>1, LenProperties
<1>3. Rows(p) # 0
  BY <1>2 DEF Rows
<1>4. QED
  BY <1>3 DEF OneRow

\* the step creates no dead row and moves no Play that has one
RowsKept == \A p \in Play : /\ Len(dead'[p]) = Len(dead[p])
                            /\ Rows(p) = 1 => ingress'[p] = ingress[p]

\* the activities take what is theirs
TakenWell ==
  /\ pc'["loop"] \in Busy => ingress'[cur'["loop"]] = "queued"
  /\ \A a \in DeadActor :
       pc'[a] \in Busy => cur'[a] \in Play /\ Rows(cur'[a]) = 1

(* Such a step keeps the handover.                                           *)
LEMMA KeptHandover ==
  ASSUME Handover, RowsKept, TakenWell
  PROVE  Handover'
<1>1. OneRow'
  BY DEF Handover, OneRow, RowsKept, Rows
<1>2. Held'
  BY DEF RowsKept, TakenWell, Held, Rows
<1>3. QED
  BY <1>1, <1>2 DEF Handover

(* Leaving every row alone is one way to do so.                              *)
LEMMA StillHandover ==
  ASSUME TypeInv, Handover, UNCHANGED <<dead, ingress>>,
         \/ UNCHANGED <<pc, cur>>
         \/ \E a \in Actor : \E where : Goto(a, where)
                                    /\ (where \in Busy => pc[a] \in Busy)
         \/ \E a \in Actor : \E where : Leave(a, where) /\ where \notin Busy
  PROVE  Handover'
<1>1. RowsKept
  BY DEF RowsKept
<1>2. TakenWell
  BY DEF TakenWell, Handover, Held, TypeInv, TypeOK, Holding, Goto, Leave,
         Actor, DeadActor
<1>3. QED
  BY <1>1, <1>2, KeptHandover

(* What the loop holds, or takes from its queue, has no dead row.            *)
LEMMA QueuedHasNone ==
  ASSUME OneRow, NEW p \in Play, ingress[p] = "queued"
  PROVE  Rows(p) = 0
BY DEF OneRow

(* The loop takes a Play out of its queue without a dead row.                *)
LEMMA TakenOut ==
  ASSUME TypeInv, Handover, NEW p \in Play, ingress[p] = "queued",
         NEW status, ingress' = [ingress EXCEPT ![p] = status],
         UNCHANGED dead, NEW where, where \notin Busy,
         \/ Leave("loop", where)
         \/ Goto("loop", where)
  PROVE  Handover'
<1>1. RowsKept
  BY QueuedHasNone DEF RowsKept, Handover, TypeInv, TypeOK
<1>2. TakenWell
  BY DEF TakenWell, Handover, Held, TypeInv, TypeOK, Holding, Goto, Leave,
         Actor, DeadActor
<1>3. QED
  BY <1>1, <1>2, KeptHandover

(* The loop hands the Play it holds over to the dead queue.                  *)
LEMMA HandedOver ==
  ASSUME TypeInv, Handover, pc["loop"] \in Busy, NEW why,
         FailIngress(cur["loop"], why), AddDeadLetter(cur["loop"]),
         NEW where, where \notin Busy, Leave("loop", where)
  PROVE  Handover'
<1> DEFINE p == cur["loop"]
           row == [status |-> "queued", retries |-> 0]
<1>1. p \in Play /\ ingress[p] = "queued" /\ Rows(p) = 0
  BY QueuedHasNone DEF Handover, Held, TypeInv, Holding, Actor
<1>2. dead' = [dead EXCEPT ![p] = Append(dead[p], row)]
  BY DEF AddDeadLetter, AppendDeadRow
<1>3. Len(Append(dead[p], row)) = 1
  <2>1. dead[p] \in Seq(DeadRow) /\ row \in DeadRow
    BY <1>1 DEF TypeInv, TypeOK, DeadRow, QueueStatus
  <2>2. Len(Append(dead[p], row)) = Len(dead[p]) + 1
    BY <2>1, AppendProperties
  <2>3. QED
    BY <1>1, <2>2 DEF Rows
<1>4. \A q \in Play : Len(dead'[q]) = IF q = p THEN 1 ELSE Len(dead[q])
  BY <1>2, <1>3 DEF TypeInv, TypeOK
<1>5. \A q \in Play : ingress'[q] = IF q = p THEN "failed" ELSE ingress[q]
  BY DEF FailIngress, TypeInv, TypeOK
<1> HIDE DEF p, row
<1>6. OneRow'
  BY <1>4, <1>5 DEF Handover, OneRow, Rows
<1>7. Held'
  BY <1>4 DEF Handover, Held, Leave, Rows, TypeInv, TypeOK, Holding, Actor,
              DeadActor
<1>8. QED
  BY <1>6, <1>7 DEF Handover

-----------------------------------------------------------------------------
(* The steps *)

(* The loop takes what is queued, and hands over what it holds.              *)
LEMMA LoopStepHandover ==
  ASSUME TypeInv, Handover, LoopStep
  PROVE  Handover'
<1> DEFINE p == cur["loop"]
<1>1. pc["loop"] \in Busy => p \in Play /\ ingress[p] = "queued"
  BY DEF TypeInv, Holding, Actor, Handover, Held
<1>2. CASE LoopTake
  <2>1. PICK q \in Play : ingress[q] = "queued" /\ Hold("loop", q)
    BY <1>2 DEF LoopTake, IsOldest, QueuedPlays
  <2>2. UNCHANGED <<dead, ingress>>
    BY <1>2 DEF LoopTake, RowsStill, dbVars
  <2>3. RowsKept
    BY <2>2 DEF RowsKept
  <2>4. TakenWell
    BY <2>1, <2>2 DEF TakenWell, Hold, Handover, Held, TypeInv, TypeOK,
       Holding, Actor, DeadActor
  <2>5. QED
    BY <2>3, <2>4, KeptHandover
<1>3. CASE LoopNotMonitoring
  <2>1. PICK q \in Play : ingress[q] = "queued" /\ FailIngress(q, "monitoring")
    BY <1>3 DEF LoopNotMonitoring, IsOldest, QueuedPlays
  <2>2. Goto("loop", AfterError) /\ AfterError \notin Busy /\ UNCHANGED dead
    BY <1>3 DEF LoopNotMonitoring, NoDeadLetter, AfterError, Busy
  <2>3. ingress' = [ingress EXCEPT ![q] = "failed"]
    BY <2>1 DEF FailIngress
  <2>4. QED
    BY <2>1, <2>2, <2>3, TakenOut
<1>4. CASE LoopAborted \/ LoopCompareThrows
  <2>1. pc["loop"] \in Busy /\ UNCHANGED dead
    BY <1>4 DEF LoopAborted, FailHeld, LoopCompareThrows, NoDeadLetter, Busy
  <2>2. ingress' = [ingress EXCEPT ![p] = "failed"]
    BY <1>4 DEF LoopAborted, FailHeld, LoopCompareThrows, FailIngress
  <2>3. Leave("loop", "stopped") \/ Leave("loop", AfterError)
    BY <1>4 DEF LoopAborted, FailHeld, LoopCompareThrows
  <2>4. "stopped" \notin Busy /\ AfterError \notin Busy
    BY DEF AfterError, Busy
  <2>5. QED
    BY <1>1, <2>1, <2>2, <2>3, <2>4, TakenOut
<1>5. CASE LoopDuped \/ LoopScrobbled
  <2>1. pc["loop"] \in Busy
    BY <1>5 DEF LoopDuped, LoopScrobbled, Busy
  <2>2. UNCHANGED dead /\ ingress' = [ingress EXCEPT ![p] = "completed"]
    BY <1>5 DEF LoopDuped, LoopScrobbled, CompleteIngress
  <2>3. Leave("loop", "idle") /\ "idle" \notin Busy
    BY <1>5 DEF LoopDuped, LoopScrobbled, Busy
  <2>4. QED
    BY <1>1, <2>1, <2>2, <2>3, TakenOut
<1>6. CASE LoopFetchFails \/ LoopRejected \/ LoopShowStop
  <2>1. pc["loop"] \in Busy
    BY <1>6 DEF LoopFetchFails, LoopRejected, LoopShowStop, SubmitError, Busy
  <2>2. \E why : FailIngress(p, why) /\ AddDeadLetter(p)
    BY <1>6 DEF LoopFetchFails, LoopRejected, LoopShowStop, ParkAndGoOn
  <2>3. \E where : Leave("loop", where) /\ where \notin Busy
    <3>1. {"idle", "stopped", AfterError} \cap Busy = {}
      BY DEF AfterError, Busy
    <3>2. QED
      BY <1>6, <3>1 DEF LoopFetchFails, LoopRejected, LoopShowStop, ParkAndGoOn
  <2>4. QED
    BY <2>1, <2>2, <2>3, HandedOver
<1>7. CASE LoopFetch
  <2>1. /\ UNCHANGED <<dead, ingress, cur>>
        /\ pc' = [pc EXCEPT !["loop"] = "compare"]
        /\ pc["loop"] \in Busy
    BY <1>7 DEF LoopFetch, GotHistory, RowsStill, dbVars, Busy
  <2>2. RowsKept
    BY <2>1 DEF RowsKept
  <2>3. TakenWell
    BY <2>1 DEF TakenWell, Handover, Held, TypeInv, TypeOK, Holding, Actor,
       DeadActor
  <2>4. QED
    BY <2>2, <2>3, KeptHandover
<1>8. CASE LoopHalts \/ LoopNoMatch \/ LoopAccepted \/ LoopResume
  <2>1. UNCHANGED <<dead, ingress>>
    BY <1>8 DEF LoopHalts, LoopNoMatch, LoopAccepted, LoopResume,
       ServiceAccepts, RowsStill, dbVars
  <2>2. \E where : Goto("loop", where) /\ (where \in Busy => pc["loop"] \in Busy)
    BY <1>8 DEF LoopHalts, LoopNoMatch, LoopAccepted, LoopResume,
       ServiceAccepts, Busy
  <2>3. QED
    BY <2>1, <2>2, StillHandover DEF Actor
<1>9. QED
  BY <1>2, <1>3, <1>4, <1>5, <1>6, <1>7, <1>8 DEF LoopStep

(* A resolved Play keeps its dead rows.                                      *)
LEMMA ResolveDomains ==
  ASSUME TypeInv, NEW p, NEW s, NEW state, Resolve(p, s, state)
  PROVE  \A q \in Play : DOMAIN dead'[q] = DOMAIN dead[q]
<1>1. PICK I : dead' = [dead EXCEPT ![p] = Completed(dead[p], I)]
  BY DEF Resolve
<1>2. dead \in [Play -> Seq(DeadRow)]
  BY DEF TypeInv, TypeOK
<1>3. \A q \in Play : DOMAIN Completed(dead[q], I) = DOMAIN dead[q]
  BY <1>2, CompletedDead
<1>4. QED
  BY <1>1, <1>2, <1>3

(* A retry rewrites the dead row it holds and creates none.                  *)
LEMMA DeadStepHandover ==
  ASSUME TypeInv, TypeInv', Handover, NEW a \in DeadActor, DeadStep(a)
  PROVE  Handover'
<1>1. a \in Actor
  BY DEF Actor, DeadActor
<1>2. ASSUME UNCHANGED ingress, NEW where, where \notin Busy, Leave(a, where),
             \A p \in Play : DOMAIN dead'[p] = DOMAIN dead[p]
      PROVE  Handover'
  <2>1. RowsKept
    BY <1>2, SameLen DEF RowsKept, TypeInv, TypeOK
  <2>2. TakenWell
    BY <1>1, <1>2 DEF TakenWell, Leave, Handover, Held, TypeInv, TypeOK,
       Holding, Actor, DeadActor
  <2>3. QED
    BY <2>1, <2>2, KeptHandover
<1>3. AfterAttempt(a) \notin Busy /\ "off" \notin Busy
  BY DEF AfterAttempt, Busy
<1>4. CASE DeadFetchFails(a) \/ DeadSubmitFails(a)
  <2>1. AttemptFails(a)
    BY <1>4 DEF DeadFetchFails, DeadSubmitFails
  <2>2. \A p \in Play : DOMAIN dead'[p] = DOMAIN dead[p]
    BY <2>1 DEF AttemptFails, TypeInv, TypeOK
  <2>3. QED
    BY <1>2, <1>3, <2>1, <2>2 DEF AttemptFails, ingressSide
<1>5. CASE DeadDuped(a) \/ DeadScrobbled(a)
  <2>1. PICK state : Resolve(cur[a], rows[a], state)
    BY <1>5 DEF DeadDuped, DeadScrobbled
  <2>2. \A p \in Play : DOMAIN dead'[p] = DOMAIN dead[p]
    BY <2>1, ResolveDomains
  <2>3. Leave(a, AfterAttempt(a)) /\ UNCHANGED ingress
    BY <1>5 DEF DeadDuped, DeadScrobbled, ingressSide
  <2>4. QED
    BY <1>2, <1>3, <2>2, <2>3
<1>6. CASE DeadCompareThrows(a)
  BY <1>2, <1>3, <1>6 DEF DeadCompareThrows, RowsStill, dbVars
<1>7. CASE DeadFetch(a)
  <2>1. /\ UNCHANGED <<dead, ingress, cur>> /\ pc' = [pc EXCEPT ![a] = "compare"]
        /\ pc[a] \in Busy
    BY <1>7 DEF DeadFetch, GotHistory, RowsStill, dbVars, Busy
  <2>2. RowsKept
    BY <2>1 DEF RowsKept
  <2>3. TakenWell
    BY <1>1, <2>1 DEF TakenWell, Handover, Held, TypeInv, TypeOK, Holding,
       Actor, DeadActor
  <2>4. QED
    BY <2>2, <2>3, KeptHandover
<1>8. CASE DeadNoMatch(a) \/ DeadAccepted(a)
  <2>1. UNCHANGED <<dead, ingress>>
    BY <1>8 DEF DeadNoMatch, DeadAccepted, ServiceAccepts, RowsStill, dbVars
  <2>2. \E where : Goto(a, where) /\ (where \in Busy => pc[a] \in Busy)
    BY <1>8 DEF DeadNoMatch, DeadAccepted, ServiceAccepts, Busy
  <2>3. QED
    BY <1>1, <2>1, <2>2, StillHandover
<1>9. QED
  BY <1>4, <1>5, <1>6, <1>7, <1>8 DEF DeadStep

(* A run requeues rows, a removal completes them; neither holds any.         *)
LEMMA RewrittenHandover ==
  ASSUME TypeInv, TypeInv', Handover, UNCHANGED <<ingress, cur>>,
         \A p \in Play : DOMAIN dead'[p] = DOMAIN dead[p],
         \A a \in Actor : pc'[a] \in Busy => pc[a] \in Busy
  PROVE  Handover'
<1>1. RowsKept
  BY SameLen DEF RowsKept, TypeInv, TypeOK
<1>2. TakenWell
  BY DEF TakenWell, Handover, Held, TypeInv, TypeOK, Holding, Actor, DeadActor
<1>3. QED
  BY <1>1, <1>2, KeptHandover

(* A run requeues the rows there are.                                        *)
LEMMA StartRunHandover ==
  ASSUME TypeInv, TypeInv', Handover, NEW r, StartRun(r)
  PROVE  Handover'
<1>1. \A p \in Play : DOMAIN dead'[p] = DOMAIN dead[p]
  BY RequeuedDead DEF StartRun, TypeInv, TypeOK
<1>2. \A a \in Actor : pc'[a] \in Busy => pc[a] \in Busy
  BY DEF StartRun, Goto, Busy, TypeInv, TypeOK
<1>3. UNCHANGED <<ingress, cur>>
  BY DEF StartRun, Goto, ingressSide
<1>4. QED
  BY <1>1, <1>2, <1>3, RewrittenHandover

(* A run or a request takes a Play that has a dead row.                      *)
LEMMA TakenHandover ==
  ASSUME TypeInv, Handover, NEW a \in DeadActor, NEW p \in Play,
         DOMAIN dead[p] # {}, Hold(a, p), UNCHANGED <<dead, ingress>>
  PROVE  Handover'
<1>1. RowsKept
  BY DEF RowsKept
<1>2. Rows(p) = 1
  BY SomeRow DEF Handover
<1>3. TakenWell
  BY <1>2 DEF TakenWell, Hold, Handover, Held, TypeInv, TypeOK, Holding,
     Actor, DeadActor
<1>4. QED
  BY <1>1, <1>3, KeptHandover

(* What users do keeps the handover.                                         *)
LEMMA UserStepHandover ==
  ASSUME TypeInv, TypeInv', Handover, UserStep
  PROVE  Handover'
<1>1. CASE LoopStart
  <2>1. UNCHANGED <<dead, ingress>> /\ Goto("loop", "idle") /\ "idle" \notin Busy
    BY <1>1 DEF LoopStart, RowsStill, dbVars, Busy
  <2>2. QED
    BY <2>1, StillHandover DEF Actor
<1>2. CASE ForceRun
  BY <1>2, StartRunHandover DEF ForceRun
<1>3. CASE ApiRemoveAll
  <2>1. \A p \in Play : DOMAIN dead'[p] = DOMAIN dead[p]
    BY <1>3, CompletedDead DEF ApiRemoveAll, TypeInv, TypeOK
  <2>2. UNCHANGED <<ingress, cur, pc>>
    BY <1>3 DEF ApiRemoveAll, ingressSide, activity
  <2>3. QED
    BY <2>1, <2>2, RewrittenHandover
<1>4. CASE Stop \/ SetMonitoring
  <2>1. UNCHANGED <<dead, ingress, pc, cur>>
    BY <1>4 DEF Stop, SetMonitoring, RowsStill, dbVars, activity
  <2>2. QED
    BY <2>1, StillHandover
<1>5. ASSUME NEW p \in Play, ApiRetry(p)
      PROVE  Handover'
  <2>1. DOMAIN dead[p] # {}
    BY <1>5 DEF ApiRetry, HasRow
  <2>2. Hold("api", p) /\ UNCHANGED <<dead, ingress>>
    BY <1>5 DEF ApiRetry, RowsStill, dbVars
  <2>3. QED
    BY <2>1, <2>2, TakenHandover DEF DeadActor
<1>6. ASSUME NEW p \in Play, ApiRemove(p)
      PROVE  Handover'
  <2>1. \A q \in Play : DOMAIN dead'[q] = DOMAIN dead[q]
    BY <1>6, ResolveDomains DEF ApiRemove
  <2>2. UNCHANGED <<ingress, cur, pc>>
    BY <1>6 DEF ApiRemove, ingressSide, activity
  <2>3. QED
    BY <2>1, <2>2, RewrittenHandover
<1>7. QED
  BY <1>1, <1>2, <1>3, <1>4, <1>5, <1>6 DEF UserStep

(* Every step but a crash keeps the handover.                                *)
LEMMA HandoverStep ==
  ASSUME "crash" \notin Faults, RealInv, RealInv', Handover, [Next]_vars
  PROVE  Handover'
<1>1. TypeInv /\ TypeInv' /\ Fresh
  BY DEF RealInv
<1>2. ASSUME NEW p \in Play, NEW l \in Listen, Enqueue(p, l)
      PROVE  Handover'
  <2>1. /\ play[p] = "absent" /\ UNCHANGED <<dead, pc, cur>>
        /\ ingress' = [ingress EXCEPT ![p] = "queued"]
    BY <1>2 DEF Enqueue, NewPlay, activity
  <2>2. Rows(p) # 1
    <3>1. DOMAIN dead[p] = {} /\ dead[p] \in Seq(DeadRow)
      BY <1>1, <2>1 DEF Fresh, TypeInv, TypeOK
    <3>2. DOMAIN dead[p] = 1..Rows(p)
      BY <3>1, LenProperties DEF Rows
    <3>3. 1 \in 1..1
      OBVIOUS
    <3>4. QED
      BY <3>1, <3>2, <3>3
  <2>3. RowsKept
    BY <1>1, <2>1, <2>2 DEF RowsKept, TypeInv, TypeOK
  <2>4. TakenWell
    BY <1>1, <2>1 DEF TakenWell, Handover, Held, TypeInv, TypeOK, Holding,
       Actor, DeadActor
  <2>5. QED
    BY <2>3, <2>4, KeptHandover
<1>3. CASE LoopStep
  BY <1>1, <1>3, LoopStepHandover
<1>4. CASE RunTick
  BY <1>1, <1>4, StartRunHandover DEF RunTick
<1>5. CASE RunTake
  <2>1. PICK p \in Play : DOMAIN dead[p] # {} /\ Hold("run", p)
    BY <1>5 DEF RunTake, IsOldest, Retriable
  <2>2. UNCHANGED <<dead, ingress>>
    BY <1>5 DEF RunTake, RowsStill, dbVars
  <2>3. QED
    BY <1>1, <2>1, <2>2, TakenHandover DEF DeadActor
<1>6. CASE RunEnds
  <2>1. UNCHANGED <<dead, ingress>> /\ Goto("run", "off") /\ "off" \notin Busy
    BY <1>6 DEF RunEnds, RowsStill, dbVars, Busy
  <2>2. QED
    BY <1>1, <2>1, StillHandover DEF Actor
<1>7. ASSUME NEW a \in DeadActor, DeadStep(a)
      PROVE  Handover'
  BY <1>1, <1>7, DeadStepHandover
<1>8. CASE UserStep
  BY <1>1, <1>8, UserStepHandover
<1>9. CASE BecomeUnready \/ BecomeReady \/ UNCHANGED vars
  <2>1. UNCHANGED <<dead, ingress, pc, cur>>
    BY <1>9 DEF BecomeUnready, BecomeReady, RowsStill, dbVars, activity, vars
  <2>2. QED
    BY <1>1, <2>1, StillHandover
<1>10. CASE CrashStep
  BY <1>10 DEF CrashStep, Crash, TornDeadLetter, TornFailure, TornSuccess,
     TornRetry, TornEnqueue, Reboot, Intervene
<1>11. QED
  BY <1>2, <1>3, <1>4, <1>5, <1>6, <1>7, <1>8, <1>9, <1>10
     DEF Next, RunStep, DeadActor

(* Nothing is in the queues at first.                                        *)
LEMMA HandoverInit == Init => Handover
<1> SUFFICES ASSUME Init PROVE Handover
  OBVIOUS
<1>1. \A p \in Play : Rows(p) = 0
  BY EmptySeq DEF Init, Rows
<1>2. OneRow
  BY <1>1 DEF OneRow
<1>3. Held
  BY DEF Init, Held, Busy, Actor, DeadActor
<1>4. QED
  BY <1>2, <1>3 DEF Handover

(* So it holds as long as the process lives.                                 *)
LEMMA HandoverAlways ==
  ASSUME "crash" \notin Faults
  PROVE  Spec => [](RealInv /\ Handover)
<1>1. RealInv /\ Handover /\ [Next]_vars => (RealInv /\ Handover)'
  BY RealStep, HandoverStep
<1>2. QED
  BY <1>1, RealInit, HandoverInit, PTL DEF Spec

-----------------------------------------------------------------------------
(* The theorems *)

(* While the process lives a Play has at most one dead row, and none before  *)
(* the ingress queue has given it up.                                        *)
THEOREM OneQueueAlways ==
  ASSUME "crash" \notin Faults
  PROVE  Spec => []OneQueueAtATime
<1>1. RealInv /\ Handover => OneQueueAtATime
  <2> SUFFICES ASSUME RealInv, Handover, NEW p \in Play
               PROVE  /\ Len(dead[p]) <= 1
                      /\ dead[p] # <<>> => ingress[p] = "failed"
    BY DEF OneQueueAtATime
  <2>1. dead[p] \in Seq(DeadRow)
    BY DEF RealInv, TypeInv, TypeOK
  <2>2. dead[p] # <<>> => Len(dead[p]) # 0
    BY <2>1, EmptySeq
  <2>3. /\ Rows(p) \in {0, 1}
        /\ Rows(p) = 1 => ingress[p] = "failed"
    BY DEF Handover, OneRow
  <2>4. Rows(p) <= 1
    BY <2>3
  <2>5. QED
    BY <2>2, <2>3, <2>4, Zenon DEF Rows
<1>2. QED
  BY <1>1, HandoverAlways, PTL

(* The loop and a retry never hold the same Play at the same time: no lock   *)
(* is needed between processQueueCurrentScrobble and                         *)
(* processDeadLetterScrobble.                                                *)
THEOREM LoopAndRetriesApart ==
  ASSUME "crash" \notin Faults
  PROVE  Spec => [](\A a \in DeadActor : pc["loop"] \in Busy /\ pc[a] \in Busy
                                           => cur["loop"] # cur[a])
<1>1. RealInv /\ Handover =>
        \A a \in DeadActor : pc["loop"] \in Busy /\ pc[a] \in Busy
                               => cur["loop"] # cur[a]
  BY DEF RealInv, TypeInv, Holding, Actor, DeadActor, Handover, Held, OneRow
<1>2. QED
  BY <1>1, HandoverAlways, PTL

=============================================================================
