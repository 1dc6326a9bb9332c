----------------------- MODULE ScrobblePromiseProofs -----------------------
(* What becomes of a Play while the process lives: it is lost for known      *)
(* reasons only, it is submitted once, the counters count it, and the queues *)
(* implement ScrobblePromise.                                                *)
(*                                                                           *)
(* The proofs share one case distinction.  StepKinds says which few things a *)
(* step can do to the rows, whatever activity takes it; each invariant is    *)
(* then shown to survive each of these.                                      *)
EXTENDS ScrobbleQueueRefinement, ScrobbleQueueProofs, FunctionTheorems

Known == {"monitoring", "aborted", "compare"}

\* only activity a moves, and it ends without a Play
Others(a) == \A b \in Actor \ {a} : /\ pc'[b] = pc[b]
                                    /\ cur'[b] = cur[b]
                                    /\ rows'[b] = rows[b]
Frees(a)  == pc'[a] \notin Busy /\ Others(a)

SentStill == UNCHANGED sent

(* A Source's Play is queued.                                                *)
Creates(p) ==
  /\ play[p] = "absent" /\ play' = [play EXCEPT ![p] = "queued"]
  /\ ingress' = [ingress EXCEPT ![p] = "queued"]
  /\ queuedLength' = queuedLength + 1
  /\ UNCHANGED <<ingressError, dead, deadCounts, pc, cur, rows>> /\ SentStill

(* The loop is done with a queued Play: gives it up, records how it went, or *)
(* parks it.                                                                 *)
GivesUp(p) ==
  /\ ingress[p] = "queued" /\ (pc["loop"] \in Busy => p = cur["loop"])
  /\ \E why \in Known : FailIngress(p, why)
  /\ NoDeadLetter /\ Frees("loop") /\ SentStill

Finishes(p, state) ==
  /\ p = cur["loop"] /\ CompleteIngress(p, state)
  /\ \/ state = "scrobbled" /\ pc["loop"] = "accepted"
     \/ state = "duped" /\ pc["loop"] = "compare"
  /\ Frees("loop") /\ SentStill

Parks(p) ==
  /\ p = cur["loop"] /\ pc["loop"] \in Busy
  /\ pc["loop"] = "accepted" => "lostReply" \in Faults
  /\ \E why \in Reason : FailIngress(p, why)
  /\ AddDeadLetter(p) /\ Frees("loop") /\ SentStill

(* A retry fails, or resolves its Play.                                      *)
RetryFails(a) ==
  /\ pc[a] \in Busy /\ (pc[a] = "accepted" => "lostReply" \in Faults)
  /\ dead' = [dead EXCEPT ![cur[a]][1] =
                [status |-> "failed", retries |-> OneMore(rows[a][1].retries)]]
  /\ UNCHANGED <<play, ingressSide, deadCounts>>
  /\ Frees(a) /\ SentStill

Resolves(a, state) ==
  /\ \/ state = "scrobbled" /\ pc[a] = "accepted"
     \/ state = "duped" /\ pc[a] = "compare"
  /\ Resolve(cur[a], rows[a], state)
  /\ UNCHANGED ingressSide /\ Frees(a) /\ SentStill

(* A run begins; a user removes a Play, or all.                              *)
Requeues(r) ==
  /\ pc["run"] = "off" /\ pc'["run"] \notin Busy
  /\ dead' = Requeued(r)
  /\ deadLetterQueued' = Cardinality(RowsIn(dead', {"queued"}))
  /\ deadLetterLength' = Cardinality(RowsIn(dead', Unresolved))
  /\ UNCHANGED <<play, ingressSide>>
  /\ Others("run") /\ SentStill

Removes(p) ==
  /\ "removeApi" \in Faults /\ HasRow(p, Unresolved)
  /\ Resolve(p, dead[p], "failed")
  /\ UNCHANGED <<ingressSide, pc, cur, rows>> /\ SentStill

RemovesAll ==
  /\ "removeApi" \in Faults
  /\ dead' = [p \in Play |->
                IF HasRow(p, Unresolved)
                THEN Completed(dead[p], {FirstUnresolved(dead[p])})
                ELSE dead[p]]
  /\ play' = [p \in Play |-> IF HasRow(p, Unresolved) THEN "failed" ELSE play[p]]
  /\ UNCHANGED <<ingressSide, pc, cur, rows>> /\ SentStill

(* The rows stay as they are: an activity takes a Play up, goes on with it,  *)
(* or moves without one; and the service may accept a submission.            *)
Takes(a, p) ==
  /\ RowsStill /\ SentStill /\ pc[a] \notin Busy
  /\ pc'[a] \in {"fetch", "compare"} /\ cur'[a] = p /\ rows'[a] = dead[p]
  /\ Others(a)
  /\ a = "loop" => ingress[p] = "queued"
  /\ a = "run"  => p \in Retriable /\ play[p] # "scrobbled"
  /\ a = "api"  => "retryApi" \in Faults /\ DOMAIN dead[p] # {}

GoesOn(a) ==
  /\ RowsStill /\ SentStill
  /\ pc[a] \in Busy \ {"accepted"} /\ pc'[a] \in Busy \ {"accepted"}
  /\ cur'[a] = cur[a] /\ rows'[a] = rows[a] /\ Others(a)

Idles(a) == RowsStill /\ SentStill /\ pc[a] # "accepted" /\ Frees(a)

Rests == RowsStill /\ SentStill /\ UNCHANGED <<pc, cur, rows>>

StepKind ==
  \/ \E p \in Play : Creates(p) \/ GivesUp(p) \/ Parks(p) \/ Removes(p)
  \/ \E p \in Play, state \in {"scrobbled", "duped"} : Finishes(p, state)
  \/ \E a \in DeadActor : \/ RetryFails(a)
                          \/ \E state \in {"scrobbled", "duped"} : Resolves(a, state)
  \/ \E r \in Nat : Requeues(r)
  \/ RemovesAll
  \/ \E a \in Actor : \/ ServiceAccepts(a) \/ GoesOn(a) \/ Idles(a)
                      \/ \E p \in Play : Takes(a, p)
  \/ Rests

(* Moving an activity leaves the others where they are.                      *)
LEMMA OnlyThis ==
  ASSUME TypeInv, NEW a \in Actor, NEW where,
         Goto(a, where) \/ Leave(a, where)
  PROVE  Others(a) /\ pc'[a] = where
BY DEF TypeInv, TypeOK, Goto, Leave, Others

LEMMA HoldsIt ==
  ASSUME TypeInv, NEW a \in Actor, NEW p, Hold(a, p)
  PROVE  /\ Others(a) /\ pc'[a] \in {"fetch", "compare"}
         /\ cur'[a] = p /\ rows'[a] = dead[p]
BY DEF TypeInv, TypeOK, Hold, Others

LEMMA GotIt ==
  ASSUME TypeInv, NEW a \in Actor, GotHistory(a)
  PROVE  /\ Others(a) /\ pc'[a] = "compare"
         /\ cur'[a] = cur[a] /\ rows'[a] = rows[a]
BY DEF TypeInv, TypeOK, GotHistory, Others

(* What the loop does is one of these.                                       *)
LEMMA LoopStepKind ==
  ASSUME TypeInv, Handover, LoopStep
  PROVE  StepKind
<1> DEFINE p == cur["loop"]
<1> "loop" \in Actor
  BY DEF Actor
<1>1. pc["loop"] \in Busy => p \in Play /\ ingress[p] = "queued"
  BY DEF TypeInv, Holding, Handover, Held
<1>2. AfterError \notin Busy /\ {"idle", "stopped"} \cap Busy = {}
  BY DEF AfterError, Busy
<1>3. CASE LoopTake
  <2>1. PICK q \in Play : ingress[q] = "queued" /\ Hold("loop", q)
    BY <1>3 DEF LoopTake, IsOldest, QueuedPlays
  <2>2. RowsStill /\ SentStill /\ pc["loop"] \notin Busy
    BY <1>3 DEF LoopTake, EnvStill, serviceVars, SentStill, Busy
  <2>3. Takes("loop", q)
    BY <2>1, <2>2, HoldsIt DEF Takes
  <2>4. QED
    BY <2>3 DEF StepKind
<1>4. CASE LoopNotMonitoring
  <2>1. PICK q \in Play : ingress[q] = "queued" /\ FailIngress(q, "monitoring")
    BY <1>4 DEF LoopNotMonitoring, IsOldest, QueuedPlays
  <2>2. pc["loop"] \notin Busy /\ NoDeadLetter /\ Goto("loop", AfterError) /\ SentStill
    BY <1>4 DEF LoopNotMonitoring, EnvStill, serviceVars, SentStill, Busy
  <2>3. GivesUp(q)
    BY <1>2, <2>1, <2>2, OnlyThis DEF GivesUp, Known, Frees
  <2>4. QED
    BY <2>3 DEF StepKind
<1>5. CASE LoopAborted \/ LoopCompareThrows
  <2>1. pc["loop"] \in Busy /\ NoDeadLetter /\ SentStill
    BY <1>5 DEF LoopAborted, FailHeld, LoopCompareThrows, EnvStill, serviceVars,
                SentStill, Busy
  <2>2. \E why \in Known : FailIngress(p, why)
    BY <1>5 DEF LoopAborted, FailHeld, LoopCompareThrows, Known
  <2>3. Leave("loop", "stopped") \/ Leave("loop", AfterError)
    BY <1>5 DEF LoopAborted, FailHeld, LoopCompareThrows
  <2>4. GivesUp(p)
    BY <1>1, <1>2, <2>1, <2>2, <2>3, OnlyThis DEF GivesUp, Frees
  <2>5. QED
    BY <1>1, <2>1, <2>4 DEF StepKind
<1>6. CASE LoopDuped \/ LoopScrobbled
  <2>1. PICK state \in {"scrobbled", "duped"} :
          /\ CompleteIngress(p, state)
          /\ \/ state = "scrobbled" /\ pc["loop"] = "accepted"
             \/ state = "duped" /\ pc["loop"] = "compare"
    BY <1>6 DEF LoopDuped, LoopScrobbled
  <2>2. Leave("loop", "idle") /\ SentStill
    BY <1>6 DEF LoopDuped, LoopScrobbled, EnvStill, serviceVars, SentStill
  <2>3. Finishes(p, state) /\ p \in Play
    BY <1>1, <1>2, <2>1, <2>2, OnlyThis DEF Finishes, Frees, Busy
  <2>4. QED
    BY <2>3 DEF StepKind
<1>7. CASE LoopFetchFails \/ LoopRejected \/ LoopShowStop
  <2>1. /\ pc["loop"] \in Busy
        /\ pc["loop"] = "accepted" => "lostReply" \in Faults
    BY <1>7 DEF LoopFetchFails, LoopRejected, LoopShowStop, SubmitError, Busy
  <2>2. \E why \in Reason : FailIngress(p, why) /\ AddDeadLetter(p)
    BY <1>7 DEF LoopFetchFails, LoopRejected, LoopShowStop, ParkAndGoOn, Reason
  <2>3. \E where \in {"idle", "stopped", AfterError} : Leave("loop", where)
    BY <1>7 DEF LoopFetchFails, LoopRejected, LoopShowStop, ParkAndGoOn
  <2>4. SentStill
    BY <1>7 DEF LoopFetchFails, LoopRejected, LoopShowStop, ParkAndGoOn,
       EnvStill, serviceVars, SentStill
  <2>5. Parks(p)
    BY <1>2, <2>1, <2>2, <2>3, <2>4, OnlyThis DEF Parks, Frees
  <2>6. QED
    BY <1>1, <2>1, <2>5 DEF StepKind
<1>8. CASE LoopFetch
  <2>1. GotHistory("loop") /\ pc["loop"] = "fetch" /\ RowsStill /\ SentStill
    BY <1>8 DEF LoopFetch, EnvStill, serviceVars, SentStill
  <2>2. GoesOn("loop")
    BY <2>1, GotIt DEF GoesOn, Busy
  <2>3. QED
    BY <2>2 DEF StepKind
<1>9. CASE LoopNoMatch
  <2>1. /\ pc["loop"] = "compare" /\ Goto("loop", "submit")
        /\ RowsStill /\ SentStill
    BY <1>9 DEF LoopNoMatch, EnvStill, serviceVars, SentStill
  <2>2. GoesOn("loop")
    BY <2>1, OnlyThis DEF GoesOn, Busy, Goto
  <2>3. QED
    BY <2>2 DEF StepKind
<1>10. CASE LoopHalts \/ LoopResume
  <2>1. /\ RowsStill /\ SentStill /\ pc["loop"] # "accepted"
        /\ \E where \in {"idle", "stopped"} : Goto("loop", where)
    BY <1>10 DEF LoopHalts, LoopResume, EnvStill, serviceVars, SentStill
  <2>2. Idles("loop")
    BY <1>2, <2>1, OnlyThis DEF Idles, Frees
  <2>3. QED
    BY <2>2 DEF StepKind
<1>11. CASE LoopAccepted
  BY <1>11 DEF LoopAccepted, StepKind
<1>12. QED
  BY <1>3, <1>4, <1>5, <1>6, <1>7, <1>8, <1>9, <1>10, <1>11 DEF LoopStep

(* So is what a retry does.                                                  *)
LEMMA DeadStepKind ==
  ASSUME TypeInv, NEW a \in DeadActor, DeadStep(a)
  PROVE  StepKind
<1> a \in Actor
  BY DEF Actor, DeadActor
<1>1. AfterAttempt(a) \notin Busy /\ "off" \notin Busy
  BY DEF AfterAttempt, Busy
<1>2. CASE DeadFetchFails(a) \/ DeadSubmitFails(a)
  <2>1. AttemptFails(a)
    BY <1>2 DEF DeadFetchFails, DeadSubmitFails
  <2>2. pc[a] \in Busy /\ (pc[a] = "accepted" => "lostReply" \in Faults)
    BY <1>2 DEF DeadFetchFails, DeadSubmitFails, Busy
  <2>3. Frees(a) /\ SentStill
    BY <1>1, <2>1, OnlyThis DEF AttemptFails, Frees, EnvStill, serviceVars, SentStill
  <2>4. RetryFails(a)
    BY <2>1, <2>2, <2>3 DEF AttemptFails, RetryFails
  <2>5. QED
    BY <2>4 DEF StepKind
<1>3. CASE DeadDuped(a) \/ DeadScrobbled(a)
  <2>1. PICK state \in {"scrobbled", "duped"} :
          /\ Resolve(cur[a], rows[a], state)
          /\ \/ state = "scrobbled" /\ pc[a] = "accepted"
             \/ state = "duped" /\ pc[a] = "compare"
    BY <1>3 DEF DeadDuped, DeadScrobbled
  <2>2. Leave(a, AfterAttempt(a)) /\ SentStill /\ UNCHANGED ingressSide
    BY <1>3 DEF DeadDuped, DeadScrobbled, EnvStill, serviceVars, SentStill
  <2>3. Resolves(a, state)
    BY <1>1, <2>1, <2>2, OnlyThis DEF Resolves, Frees
  <2>4. QED
    BY <2>3 DEF StepKind
<1>4. CASE DeadCompareThrows(a)
  <2>1. RowsStill /\ SentStill /\ pc[a] # "accepted" /\ Leave(a, "off")
    BY <1>4 DEF DeadCompareThrows, EnvStill, serviceVars, SentStill
  <2>2. Idles(a)
    BY <1>1, <2>1, OnlyThis DEF Idles, Frees
  <2>3. QED
    BY <2>2 DEF StepKind
<1>5. CASE DeadFetch(a)
  <2>1. GotHistory(a) /\ pc[a] = "fetch" /\ RowsStill /\ SentStill
    BY <1>5 DEF DeadFetch, EnvStill, serviceVars, SentStill
  <2>2. GoesOn(a)
    BY <2>1, GotIt DEF GoesOn, Busy
  <2>3. QED
    BY <2>2 DEF StepKind
<1>6. CASE DeadNoMatch(a)
  <2>1. pc[a] = "compare" /\ Goto(a, "submit") /\ RowsStill /\ SentStill
    BY <1>6 DEF DeadNoMatch, EnvStill, serviceVars, SentStill
  <2>2. GoesOn(a)
    BY <2>1, OnlyThis DEF GoesOn, Busy, Goto
  <2>3. QED
    BY <2>2 DEF StepKind
<1>7. CASE DeadAccepted(a)
  BY <1>7 DEF DeadAccepted, StepKind
<1>8. QED
  BY <1>2, <1>3, <1>4, <1>5, <1>6, <1>7 DEF DeadStep

LEMMA StartRunKind ==
  ASSUME TypeInv, NEW r \in Nat, StartRun(r)
  PROVE  StepKind
<1>1. \E where \in {"off", "next"} : Goto("run", where)
  BY DEF StartRun
<1>2. Others("run") /\ pc'["run"] \notin Busy
  BY <1>1, OnlyThis DEF Actor, Busy
<1>3. Requeues(r)
  BY <1>2 DEF StartRun, Requeues, serviceVars, SentStill
<1>4. QED
  BY <1>3 DEF StepKind

(* And what a user does.                                                     *)
LEMMA UserStepKind ==
  ASSUME TypeInv, UserStep
  PROVE  StepKind
<1>1. CASE LoopStart
  <2>1. /\ RowsStill /\ SentStill /\ pc["loop"] # "accepted"
        /\ Goto("loop", "idle") /\ "idle" \notin Busy
    BY <1>1 DEF LoopStart, EnvStill, serviceVars, SentStill, Busy
  <2>2. Idles("loop")
    BY <2>1, OnlyThis DEF Idles, Frees, Actor
  <2>3. QED
    BY <2>2 DEF StepKind, Actor
<1>2. CASE ForceRun
  BY <1>2, StartRunKind, QueueAssumption DEF ForceRun
<1>3. CASE ApiRemoveAll
  <2>1. RemovesAll
    BY <1>3 DEF ApiRemoveAll, RemovesAll, Intervene, serviceVars, activity, SentStill
  <2>2. QED
    BY <2>1 DEF StepKind
<1>4. CASE Stop \/ SetMonitoring
  <2>1. Rests
    BY <1>4 DEF Stop, SetMonitoring, Rests, serviceVars, activity, SentStill
  <2>2. QED
    BY <2>1 DEF StepKind
<1>5. ASSUME NEW p \in Play, ApiRetry(p)
      PROVE  StepKind
  <2>1. /\ RowsStill /\ SentStill /\ pc["api"] \notin Busy /\ "retryApi" \in Faults
        /\ DOMAIN dead[p] # {} /\ Hold("api", p)
    BY <1>5 DEF ApiRetry, Intervene, HasRow, serviceVars, SentStill, Busy
  <2>2. Takes("api", p)
    BY <2>1, HoldsIt DEF Takes, Actor
  <2>3. QED
    BY <2>2 DEF StepKind, Actor
<1>6. ASSUME NEW p \in Play, ApiRemove(p)
      PROVE  StepKind
  <2>1. Removes(p)
    BY <1>6 DEF ApiRemove, Removes, Intervene, serviceVars, activity, SentStill
  <2>2. QED
    BY <2>1 DEF StepKind
<1>7. QED
  BY <1>1, <1>2, <1>3, <1>4, <1>5, <1>6 DEF UserStep

(* Every step but a crash does one of these things to the rows.              *)
LEMMA StepKinds ==
  ASSUME "crash" \notin Faults, TypeInv, Handover, [Next]_vars
  PROVE  StepKind
<1>1. ASSUME NEW p \in Play, NEW l \in Listen, Enqueue(p, l)
      PROVE  StepKind
  <2>1. Creates(p)
    BY <1>1 DEF Enqueue, NewPlay, Creates, activity, serviceVars, SentStill
  <2>2. QED
    BY <2>1 DEF StepKind
<1>2. CASE LoopStep
  BY <1>2, LoopStepKind
<1>3. CASE RunTick
  BY <1>3, StartRunKind, QueueAssumption DEF RunTick
<1>4. CASE RunTake
  <2>1. PICK p \in Play : /\ p \in Retriable /\ play[p] # "scrobbled"
                         /\ Hold("run", p)
    BY <1>4 DEF RunTake, IsOldest
  <2>2. RowsStill /\ SentStill /\ pc["run"] \notin Busy
    BY <1>4 DEF RunTake, EnvStill, serviceVars, SentStill, Busy
  <2>3. Takes("run", p)
    BY <2>1, <2>2, HoldsIt DEF Takes, Actor
  <2>4. QED
    BY <2>3 DEF StepKind, Actor
<1>5. CASE RunEnds
  <2>1. /\ RowsStill /\ SentStill /\ pc["run"] # "accepted"
        /\ Goto("run", "off") /\ "off" \notin Busy
    BY <1>5 DEF RunEnds, EnvStill, serviceVars, SentStill, Busy
  <2>2. Idles("run")
    BY <2>1, OnlyThis DEF Idles, Frees, Actor
  <2>3. QED
    BY <2>2 DEF StepKind, Actor
<1>6. ASSUME NEW a \in DeadActor, DeadStep(a)
      PROVE  StepKind
  BY <1>6, DeadStepKind
<1>7. CASE UserStep
  BY <1>7, UserStepKind
<1>8. CASE BecomeUnready \/ BecomeReady \/ UNCHANGED vars
  <2>1. Rests
    BY <1>8 DEF BecomeUnready, BecomeReady, Rests, RowsStill, SentStill, vars,
                dbVars, serviceVars, counters, activity
  <2>2. QED
    BY <2>1 DEF StepKind
<1>9. CASE CrashStep
  BY <1>9 DEF CrashStep, Crash, TornDeadLetter, TornFailure, TornSuccess,
     TornRetry, TornEnqueue, Reboot, Intervene
<1>10. QED
  BY <1>1, <1>2, <1>3, <1>4, <1>5, <1>6, <1>7, <1>8, <1>9
     DEF Next, RunStep, DeadActor

-----------------------------------------------------------------------------
(* Dead queues of at most one row *)

LEMMA OneRowSeq ==
  ASSUME NEW s \in Seq(DeadRow), Len(s) \in {0, 1}
  PROVE  /\ Len(s) = 0 => DOMAIN s = {}
         /\ Len(s) = 1 => DOMAIN s = {1} /\ s # <<>> /\ s[1] \in DeadRow
<1>1. DOMAIN s = 1..Len(s) /\ s \in [1..Len(s) -> DeadRow]
  BY LenProperties
<1>2. Len(s) = 0 <=> s = <<>>
  BY EmptySeq
<1>3. 1..1 = {1} /\ 1..0 = {}
  OBVIOUS
<1>4. Len(s) = 0 => DOMAIN s = {}
  BY <1>1, <1>3
<1>5. Len(s) = 1 => DOMAIN s = {1} /\ s[1] \in DeadRow
  BY <1>1, <1>3
<1>6. QED
  BY <1>2, <1>4, <1>5

Status(p) == dead[p][1].status

(* What the rows of a Play are, is what its only one is.                     *)
LEMMA OnlyRow ==
  ASSUME TypeInv, OneRow, NEW p \in Play
  PROVE  /\ Rows(p) = 0 => DOMAIN dead[p] = {}
         /\ Rows(p) = 1 => /\ DOMAIN dead[p] = {1} /\ dead[p] # <<>>
                           /\ dead[p][1] \in DeadRow
         /\ \A S : HasRow(p, S) <=> Rows(p) = 1 /\ Status(p) \in S
<1>1. dead[p] \in Seq(DeadRow) /\ Len(dead[p]) \in {0, 1}
  BY DEF TypeInv, TypeOK, OneRow, Rows
<1>2. QED
  BY <1>1, OneRowSeq DEF HasRow, Rows, Status

(* A step changes the status of rows in the ways of its kind.                *)
LEMMA RequeuedStatus ==
  ASSUME TypeInv, OneRow, OneRow', NEW r, dead' = Requeued(r), NEW p \in Play
  PROVE  /\ Rows(p)' = Rows(p)
         /\ Rows(p) = 1 =>
              \/ Status(p)' = Status(p)
              \/ Status(p) = "failed" /\ Status(p)' = "queued"
<1>1. dead \in [Play -> Seq(DeadRow)]
  BY DEF TypeInv, TypeOK
<1>2. /\ dead'[p] \in Seq(DeadRow) /\ dead[p] \in Seq(DeadRow)
      /\ DOMAIN dead'[p] = DOMAIN dead[p]
  BY <1>1, RequeuedDead
<1>3. Rows(p)' = Rows(p)
  BY <1>2, SameLen DEF Rows
<1>4. ASSUME Rows(p) = 1
      PROVE  \/ Status(p)' = Status(p)
             \/ Status(p) = "failed" /\ Status(p)' = "queued"
  <2>1. 1 \in DOMAIN dead[p] /\ dead[p][1] \in DeadRow
    BY <1>4, OnlyRow
  <2>2. dead'[p][1] = IF dead[p][1].status = "failed" /\ dead[p][1].retries <= r
                      THEN [dead[p][1] EXCEPT !.status = "queued"]
                      ELSE dead[p][1]
    BY <2>1 DEF Requeued
  <2>3. QED
    BY <2>1, <2>2 DEF Status, DeadRow
<1>5. QED
  BY <1>3, <1>4

LEMMA CompletedStatus ==
  ASSUME TypeInv, OneRow, NEW p \in Play, Rows(p) = 1, NEW I
  PROVE  Completed(dead[p], I)[1].status =
           IF 1 \in I THEN "completed" ELSE Status(p)
<1>1. DOMAIN dead[p] = {1} /\ dead[p][1] \in DeadRow
  BY OnlyRow
<1>2. Completed(dead[p], I)[1] =
        IF 1 \in I THEN [dead[p][1] EXCEPT !.status = "completed"] ELSE dead[p][1]
  BY <1>1 DEF Completed
<1>3. QED
  BY <1>1, <1>2 DEF Status, DeadRow

LEMMA FailedStatus ==
  ASSUME TypeInv, OneRow, OneRow', NEW p \in Play, Rows(p) = 1, NEW n,
         dead' = [dead EXCEPT ![p][1] = [status |-> "failed", retries |-> n]]
  PROVE  /\ dead'[p][1].status = "failed" /\ dead'[p][1].retries = n
         /\ \A q \in Play \ {p} : dead'[q] = dead[q]
         /\ \A q \in Play : DOMAIN dead'[q] = DOMAIN dead[q]
<1>1. DOMAIN dead[p] = {1} /\ DOMAIN dead = Play
  BY OnlyRow DEF TypeInv, TypeOK
<1>2. QED
  BY <1>1

(* A retry at work holds a Play with a row.                                  *)
LEMMA RetryHolds ==
  ASSUME TypeInv, Handover, NEW a \in DeadActor, pc[a] \in Busy
  PROVE  cur[a] \in Play /\ Rows(cur[a]) = 1
BY DEF TypeInv, Holding, Actor, DeadActor, Handover, Held

-----------------------------------------------------------------------------
(* Losses *)

(* LossesAreKnown, in terms of the only row.                                 *)
Accounted(p) ==
  \/ play[p] \in {"absent", "scrobbled", "duped"}
  \/ ingress[p] = "queued"
  \/ Rows(p) = 1 /\ (Status(p) \in Unresolved \/ "removeApi" \in Faults)
  \/ ingressError[p] \in Known

LossInv == \A p \in Play : Accounted(p)

(* A Play of which a step leaves everything as it was stays accounted for.   *)
LEMMA SameAccount ==
  ASSUME NEW p \in Play, Accounted(p),
         play'[p] = play[p], ingress'[p] = ingress[p],
         ingressError'[p] = ingressError[p], dead'[p] = dead[p]
  PROVE  Accounted(p)'
BY DEF Accounted, Rows, Status

(* The only way out of the queues is a known one.                            *)
LEMMA LossStep ==
  ASSUME TypeInv, TypeInv', Handover, Handover', LossInv, StepKind
  PROVE  LossInv'
<1> SUFFICES ASSUME NEW q \in Play PROVE Accounted(q)'
  BY DEF LossInv
<1> USE DEF Handover
<1>1. Accounted(q) /\ OneRow /\ OneRow'
  BY DEF LossInv
<1>2. ASSUME NEW p \in Play, Creates(p)
      PROVE  Accounted(q)'
  <2>1. CASE q = p
    BY <1>2, <2>1 DEF Creates, Accounted, TypeInv, TypeOK
  <2>2. CASE q # p
    BY <1>1, <1>2, <2>2, SameAccount DEF Creates, TypeInv, TypeOK
  <2>3. QED
    BY <2>1, <2>2
<1>3. ASSUME NEW p \in Play, GivesUp(p)
      PROVE  Accounted(q)'
  <2>1. CASE q = p
    <3>1. ingressError'[p] \in Known
      BY <1>3 DEF GivesUp, FailIngress, TypeInv, TypeOK
    <3>2. QED
      BY <2>1, <3>1 DEF Accounted
  <2>2. CASE q # p
    BY <1>1, <1>3, <2>2, SameAccount
       DEF GivesUp, FailIngress, NoDeadLetter, TypeInv, TypeOK
  <2>3. QED
    BY <2>1, <2>2
<1>4. ASSUME NEW p \in Play, Parks(p)
      PROVE  Accounted(q)'
  <2> DEFINE row == [status |-> "queued", retries |-> 0]
  <2>1. dead' = [dead EXCEPT ![p] = Append(dead[p], row)]
    BY <1>4 DEF Parks, AddDeadLetter, AppendDeadRow
  <2>2. CASE q = p
    <3>1. dead[p] \in Seq(DeadRow) /\ row \in DeadRow /\ dead'[p] = Append(dead[p], row)
      BY <2>1 DEF TypeInv, TypeOK, DeadRow, QueueStatus
    <3>2. Rows(p) = 0
      BY <1>1, <1>4, QueuedHasNone DEF Parks, Held
    <3>3. Len(dead'[p]) = 1 /\ dead'[p][1] = row
      BY <3>1, <3>2, AppendProperties DEF Rows
    <3>4. QED
      BY <2>2, <3>3 DEF Accounted, Rows, Status, Unresolved
  <2>3. CASE q # p
    <3>1. dead'[q] = dead[q]
      BY <2>1, <2>3 DEF TypeInv, TypeOK
    <3>2. QED
      BY <1>1, <1>4, <2>3, <3>1, SameAccount DEF Parks, FailIngress, TypeInv, TypeOK
  <2>4. QED
    BY <2>2, <2>3
<1>5. ASSUME NEW p \in Play, NEW s, Resolve(p, s, "failed"), Rows(p) = 1,
             "removeApi" \in Faults, UNCHANGED ingressSide
      PROVE  Accounted(q)'
  <2>1. \A x \in Play : DOMAIN dead'[x] = DOMAIN dead[x]
    BY <1>5, ResolveDomains
  <2>2. Rows(q)' = Rows(q)
    BY <2>1, SameLen DEF Rows, TypeInv, TypeOK
  <2>3. CASE q = p
    BY <1>5, <2>2, <2>3 DEF Accounted
  <2>4. CASE q # p
    BY <1>1, <1>5, <2>4, SameAccount DEF Resolve, ingressSide, TypeInv, TypeOK
  <2>5. QED
    BY <2>3, <2>4
<1>6. ASSUME NEW p \in Play, Removes(p)
      PROVE  Accounted(q)'
  BY <1>1, <1>5, <1>6, OnlyRow DEF Removes
<1>7. CASE RemovesAll
  <2>1. UNCHANGED <<ingress, ingressError>> /\ "removeApi" \in Faults
    BY <1>7 DEF RemovesAll, ingressSide
  <2>2. CASE HasRow(q, Unresolved)
    <3>1. DOMAIN dead'[q] = DOMAIN dead[q]
      BY <1>7, <2>2, CompletedDead DEF RemovesAll, TypeInv, TypeOK
    <3>2. Rows(q)' = Rows(q)
      BY <3>1, SameLen DEF Rows, TypeInv, TypeOK
    <3>3. QED
      BY <1>1, <2>1, <2>2, <3>2, OnlyRow DEF Accounted
  <2>3. CASE ~HasRow(q, Unresolved)
    BY <1>1, <1>7, <2>1, <2>3, SameAccount DEF RemovesAll
  <2>4. QED
    BY <2>2, <2>3
<1>8. ASSUME NEW p \in Play, NEW state \in {"scrobbled", "duped"},
             UNCHANGED ingressError, play' = [play EXCEPT ![p] = state],
             \A x \in Play \ {p} : ingress'[x] = ingress[x] /\ dead'[x] = dead[x]
      PROVE  Accounted(q)'
  <2>1. CASE q = p
    BY <1>8, <2>1 DEF Accounted, TypeInv, TypeOK
  <2>2. CASE q # p
    BY <1>1, <1>8, <2>2, SameAccount DEF TypeInv, TypeOK
  <2>3. QED
    BY <2>1, <2>2
<1>9. ASSUME NEW p \in Play, NEW state \in {"scrobbled", "duped"}, Finishes(p, state)
      PROVE  Accounted(q)'
  BY <1>8, <1>9 DEF Finishes, CompleteIngress, TypeInv, TypeOK
<1>10. ASSUME NEW a \in DeadActor, NEW state \in {"scrobbled", "duped"},
              Resolves(a, state)
       PROVE  Accounted(q)'
  <2>1. cur[a] \in Play
    BY <1>10 DEF Resolves, Busy, TypeInv, Holding, Actor, DeadActor
  <2>2. /\ play' = [play EXCEPT ![cur[a]] = state] /\ UNCHANGED <<ingress, ingressError>>
        /\ \A x \in Play \ {cur[a]} : dead'[x] = dead[x]
    BY <1>10 DEF Resolves, Resolve, ingressSide, TypeInv, TypeOK
  <2>3. QED
    BY <1>8, <2>1, <2>2
<1>11. ASSUME NEW a \in DeadActor, RetryFails(a)
       PROVE  Accounted(q)'
  <2>1. cur[a] \in Play /\ Rows(cur[a]) = 1
    BY <1>11, RetryHolds DEF RetryFails
  <2>2. /\ dead'[cur[a]][1].status = "failed"
        /\ \A x \in Play \ {cur[a]} : dead'[x] = dead[x]
        /\ \A x \in Play : DOMAIN dead'[x] = DOMAIN dead[x]
    BY <1>1, <1>11, <2>1, FailedStatus DEF RetryFails
  <2>3. CASE q = cur[a]
    <3>1. Rows(q)' = 1
      BY <2>1, <2>2, <2>3, SameLen DEF Rows, TypeInv, TypeOK
    <3>2. QED
      BY <2>2, <2>3, <3>1 DEF Accounted, Unresolved, Status
  <2>4. CASE q # cur[a]
    BY <1>1, <1>11, <2>2, <2>4, SameAccount DEF RetryFails, ingressSide
  <2>5. QED
    BY <2>3, <2>4
<1>12. ASSUME NEW r \in Nat, Requeues(r)
       PROVE  Accounted(q)'
  BY <1>1, <1>12, RequeuedStatus DEF Requeues, ingressSide, Accounted, Unresolved
<1>13. CASE UNCHANGED <<play, ingress, ingressError, dead>>
  BY <1>1, <1>13, SameAccount
<1>14. ASSUME RowsStill PROVE UNCHANGED <<play, ingress, ingressError, dead>>
  BY <1>14 DEF RowsStill, dbVars
<1>15. QED
  BY <1>2, <1>3, <1>4, <1>6, <1>7, <1>9, <1>10, <1>11, <1>12, <1>13, <1>14
     DEF StepKind, ServiceAccepts, GoesOn, Idles, Takes, Rests

(* While the process lives, no rejection, lost answer, failed history        *)
(* request, retry or forced run loses a Play: one that is in no queue and    *)
(* not at the service was removed by the user, or given up because           *)
(* monitoring was off, the loop was aborted, or its comparison threw.        *)
THEOREM LossesAlwaysKnown ==
  ASSUME "crash" \notin Faults
  PROVE  Spec => []LossesAreKnown
<1> DEFINE Inv == RealInv /\ Handover
<1>1. Init => LossInv
  BY DEF Init, LossInv, Accounted
<1>2. Inv /\ Inv' /\ LossInv /\ [Next]_vars => LossInv'
  BY LossStep, StepKinds DEF RealInv
<1>3. Inv /\ LossInv => LossesAreKnown
  BY OnlyRow DEF RealInv, Handover, LossInv, Accounted, LossesAreKnown,
                 RemovedByUser, Known
<1>4. Spec => []Inv
  BY HandoverAlways
<1> HIDE DEF Inv
<1>5. QED
  BY <1>1, <1>2, <1>3, <1>4, PTL DEF Spec

-----------------------------------------------------------------------------
(* Submissions *)

(* A Play may still be submitted: its row is queued, or it has a dead row    *)
(* and is not recorded as scrobbled.                                         *)
Pending(p) == ingress[p] = "queued" \/ (Rows(p) = 1 /\ play[p] # "scrobbled")

\* its submission was accepted, and the answer is on its way
InFlight(p) == \E a \in Actor : pc[a] = "accepted" /\ cur[a] = p

(* A Play that was submitted is pending only as long as its answer is on its *)
(* way; and one that is recorded as scrobbled is in no queue, so that no     *)
(* run takes it and no removal makes it pending again.                       *)
OnceAt(p) ==
  /\ sent[p] \in {0, 1}
  /\ Pending(p) /\ sent[p] = 1 => InFlight(p)
  /\ play[p] = "scrobbled" /\ Rows(p) = 1 => Status(p) \notin Unresolved

Apart ==
  /\ pc["api"] \notin Busy
  /\ pc["run"] \in Busy => play[cur["run"]] # "scrobbled"

Once == Apart /\ \A p \in Play : OnceAt(p)

OneByOne == Faults \cap {"crash", "lostReply", "retryApi"} = {}

(* An answer is on its way until the activity that waits for it moves.       *)
LEMMA FlightKept ==
  ASSUME NEW p \in Play, NEW a \in Actor, InFlight(p), Others(a),
         ~(pc[a] = "accepted" /\ cur[a] = p)
  PROVE  InFlight(p)'
BY DEF InFlight, Others

(* What the loop holds is queued, and nobody else waits for an answer about  *)
(* it.                                                                       *)
LEMMA LoopAlone ==
  ASSUME TypeInv, Handover, Once, NEW p \in Play, ingress[p] = "queued",
         InFlight(p)
  PROVE  pc["loop"] = "accepted" /\ cur["loop"] = p
<1>1. PICK a \in Actor : pc[a] = "accepted" /\ cur[a] = p
  BY DEF InFlight
<1>2. a # "api"
  BY <1>1 DEF Once, Apart, Busy
<1>3. a # "run"
  BY <1>1, RetryHolds, QueuedHasNone DEF Handover, DeadActor, Busy
<1>4. QED
  BY <1>1, <1>2, <1>3 DEF Actor

LEMMA RunAlone ==
  ASSUME TypeInv, Handover, Once, NEW p \in Play, Rows(p) = 1,
         InFlight(p)
  PROVE  pc["run"] = "accepted" /\ cur["run"] = p
<1>1. PICK a \in Actor : pc[a] = "accepted" /\ cur[a] = p
  BY DEF InFlight
<1>2. a # "api"
  BY <1>1 DEF Once, Apart, Busy
<1>3. a # "loop"
  <2>1. a = "loop" => ingress[p] = "queued"
    BY <1>1 DEF Handover, Held, Busy
  <2>2. QED
    BY <2>1, QueuedHasNone DEF Handover
<1>4. QED
  BY <1>1, <1>2, <1>3 DEF Actor

(* A step that leaves a Play alone, and the answer about it.                 *)
LEMMA SameOnce ==
  ASSUME NEW p \in Play, OnceAt(p), sent'[p] = sent[p],
         play'[p] = play[p], ingress'[p] = ingress[p], dead'[p] = dead[p],
         \/ UNCHANGED <<pc, cur>>
         \/ \E a \in Actor : Others(a) /\ ~(pc[a] = "accepted" /\ cur[a] = p)
  PROVE  OnceAt(p)'
<1>1. Pending(p)' = Pending(p)
  BY DEF Pending, Rows
<1>2. InFlight(p) => InFlight(p)'
  BY FlightKept DEF InFlight
<1>3. QED
  BY <1>1, <1>2 DEF OnceAt, Rows, Status

(* What a loop that ends with its Play did not wait for is kept.             *)
LEMMA LoopEndsOnce ==
  ASSUME TypeInv, Handover, Once, NEW p \in Play, Others("loop"),
         pc["loop"] \in Busy => p = cur["loop"],
         UNCHANGED sent, NEW q \in Play, q # p, play'[q] = play[q],
         ingress'[q] = ingress[q], dead'[q] = dead[q]
  PROVE  OnceAt(q)'
BY SameOnce DEF Once, Actor, Busy

(* Taken out of its queue without a dead row, a Play is not pending.         *)
LEMMA GivenUpOnce ==
  ASSUME TypeInv, Handover, Once, NEW p \in Play, ingress[p] = "queued",
         ingress'[p] # "queued", dead'[p] = dead[p], UNCHANGED sent
  PROVE  OnceAt(p)'
<1>1. Rows(p) = 0
  BY QueuedHasNone DEF Handover
<1>2. ~Pending(p)' /\ Rows(p)' # 1
  BY <1>1 DEF Pending, Rows
<1>3. QED
  BY <1>2 DEF Once, OnceAt

(* Every step of the loop that ends with its Play.                           *)
LEMMA LoopKindOnce ==
  ASSUME OneByOne, TypeInv, Handover, Once, NEW p \in Play,
         GivesUp(p) \/ Parks(p) \/ \E state : Finishes(p, state)
  PROVE  \A q \in Play : OnceAt(q)'
<1>1. /\ ingress[p] = "queued" /\ (pc["loop"] \in Busy => p = cur["loop"])
      /\ Others("loop") /\ UNCHANGED sent
  BY DEF GivesUp, Parks, Finishes, Frees, SentStill, Handover, Held, Busy
<1>2. ASSUME NEW q \in Play, q # p
      PROVE  OnceAt(q)'
  <2>1. play'[q] = play[q] /\ ingress'[q] = ingress[q] /\ dead'[q] = dead[q]
    BY <1>2 DEF GivesUp, Parks, Finishes, FailIngress, CompleteIngress,
       NoDeadLetter, AddDeadLetter, AppendDeadRow, TypeInv, TypeOK
  <2>2. QED
    BY <1>1, <1>2, <2>1, LoopEndsOnce
<1>3. CASE GivesUp(p) \/ \E state : Finishes(p, state)
  <2>1. ingress'[p] # "queued" /\ dead'[p] = dead[p]
    BY <1>3 DEF GivesUp, Finishes, FailIngress, CompleteIngress, NoDeadLetter,
                TypeInv, TypeOK
  <2>2. QED
    BY <1>1, <1>2, <2>1, GivenUpOnce
<1>4. CASE Parks(p)
  <2>1. sent[p] # 1
    <3>1. pc["loop"] # "accepted"
      BY <1>4 DEF Parks, OneByOne
    <3>2. QED
      BY <1>1, <3>1, LoopAlone DEF Once, OnceAt, Pending
  <2>2. play'[p] = "failed"
    BY <1>4 DEF Parks, FailIngress, TypeInv, TypeOK
  <2>3. OnceAt(p)'
    BY <1>1, <2>1, <2>2 DEF Once, OnceAt
  <2>4. QED
    BY <1>2, <2>3
<1>5. QED
  BY <1>3, <1>4

(* Every step of a retry that ends with its Play: only the run has one.      *)
LEMMA RetryKindOnce ==
  ASSUME OneByOne, TypeInv, Handover, Handover', Once, NEW a \in DeadActor,
         RetryFails(a) \/ \E state : Resolves(a, state)
  PROVE  \A q \in Play : OnceAt(q)'
<1>1. pc[a] \in Busy /\ Others(a) /\ UNCHANGED <<sent, ingress>> /\ a \in Actor
  BY DEF RetryFails, Resolves, Frees, SentStill, Busy, ingressSide, Actor, DeadActor
<1>2. a = "run"
  BY <1>1 DEF Once, Apart, DeadActor
<1>3. PICK p \in Play : p = cur[a] /\ Rows(p) = 1 /\ play[p] # "scrobbled"
  BY <1>1, <1>2, RetryHolds DEF Once, Apart
<1>4. ASSUME NEW q \in Play, q # p
      PROVE  OnceAt(q)'
  <2>1. play'[q] = play[q] /\ dead'[q] = dead[q]
    BY <1>3, <1>4 DEF RetryFails, Resolves, Resolve, TypeInv, TypeOK
  <2>2. QED
    BY <1>1, <1>3, <1>4, <2>1, SameOnce DEF Once
<1>5. ASSUME pc[a] # "accepted", play'[p] # "scrobbled"
      PROVE  OnceAt(p)'
  <2>1. sent[p] # 1
    BY <1>2, <1>3, <1>5, RunAlone DEF Once, OnceAt, Pending
  <2>2. QED
    BY <1>1, <1>3, <1>5, <2>1 DEF Once, OnceAt
<1>6. CASE RetryFails(a)
  <2>1. pc[a] # "accepted" /\ UNCHANGED play
    BY <1>6 DEF RetryFails, OneByOne
  <2>2. QED
    BY <1>3, <1>4, <1>5, <2>1
<1>7. ASSUME NEW state, Resolves(a, state)
      PROVE  OnceAt(p)'
  <2>1. play'[p] = state
    BY <1>3, <1>7 DEF Resolves, Resolve, TypeInv, TypeOK
  <2>2. CASE state # "scrobbled"
    BY <1>5, <1>7, <2>1, <2>2 DEF Resolves
  <2>3. CASE state = "scrobbled"
    <3>1. PICK I : 1 \in I /\ dead'[p] = Completed(dead[p], I)
      BY <1>3, <1>7, <2>3 DEF Resolves, Resolve, TypeInv, TypeOK
    <3>2. Status(p)' = "completed"
      BY <1>3, <3>1, CompletedStatus DEF Handover, Status
    <3>3. ingress'[p] # "queued"
      BY <1>1, <1>3 DEF Handover, OneRow
    <3>4. QED
      BY <1>1, <1>3, <2>1, <2>3, <3>2, <3>3 DEF Once, OnceAt, Pending, Unresolved
  <2>4. QED
    BY <2>2, <2>3
<1>8. QED
  BY <1>4, <1>6, <1>7

(* A step that accepts a submission is the first one for its Play.           *)
LEMMA AcceptedOnce ==
  ASSUME TypeInv, Handover, Once, NEW a \in Actor, ServiceAccepts(a)
  PROVE  \A q \in Play : OnceAt(q)'
<1>1. PICK p \in Play : p = cur[a]
  BY DEF ServiceAccepts, TypeInv, Holding, Busy
<1>2. /\ pc[a] = "submit" /\ UNCHANGED <<play, ingress, dead, cur>>
      /\ sent' = [sent EXCEPT ![p] = IF @ = 0 THEN 1 ELSE 2]
      /\ Others(a) /\ pc'[a] = "accepted"
      /\ a # "api"
  BY <1>1, OnlyThis DEF ServiceAccepts, RowsStill, dbVars, Goto, Once, Apart, Busy
<1>3. ASSUME NEW q \in Play, q # p
      PROVE  OnceAt(q)'
  <2>1. sent'[q] = sent[q]
    BY <1>2, <1>3 DEF TypeInv, TypeOK
  <2>2. QED
    BY <1>1, <1>2, <1>3, <2>1, SameOnce DEF Once
<1>4. Pending(p)
  <2>1. CASE a = "loop"
    BY <1>1, <1>2, <2>1 DEF Pending, Handover, Held, Busy
  <2>2. CASE a = "run"
    BY <1>1, <1>2, <2>2, RetryHolds DEF Pending, Once, Apart, Busy, DeadActor
  <2>3. QED
    BY <1>2, <2>1, <2>2 DEF Actor
<1>5. sent[p] = 0
  <2>1. ~InFlight(p)
    <3>1. CASE a = "loop"
      BY <1>1, <1>2, <3>1, LoopAlone DEF Handover, Held, Busy
    <3>2. CASE a = "run"
      BY <1>1, <1>2, <3>2, RetryHolds, RunAlone DEF Busy, DeadActor
    <3>3. QED
      BY <1>2, <3>1, <3>2 DEF Actor
  <2>2. QED
    BY <1>2, <1>4, <2>1 DEF Once, OnceAt
<1>6. OnceAt(p)'
  <2>1. sent'[p] = 1
    BY <1>1, <1>2, <1>5 DEF TypeInv, TypeOK
  <2>2. InFlight(p)'
    BY <1>1, <1>2 DEF InFlight
  <2>3. QED
    BY <1>1, <1>2, <2>1, <2>2 DEF Once, OnceAt, Rows, Status
<1>7. QED
  BY <1>3, <1>6

(* Other changes of the rows submit nothing.                                 *)
LEMMA RowKindOnce ==
  ASSUME OneByOne, RealInv, Handover, Handover', TypeInv', Once,
         \/ \E p \in Play : Creates(p) \/ Removes(p)
         \/ \E r \in Nat : Requeues(r)
         \/ RemovesAll
  PROVE  \A q \in Play : OnceAt(q)'
<1> USE DEF RealInv
<1>1. ASSUME NEW p \in Play, Creates(p)
      PROVE  \A q \in Play : OnceAt(q)'
  <2>1. sent[p] = 0 /\ sent' = sent /\ UNCHANGED <<pc, cur, dead>> /\ play'[p] = "queued"
    BY <1>1 DEF Creates, Fresh, SentStill, TypeInv, TypeOK
  <2>2. OnceAt(p)'
    BY <2>1 DEF OnceAt
  <2>3. ASSUME NEW q \in Play, q # p
        PROVE  OnceAt(q)'
    <3>1. play'[q] = play[q] /\ ingress'[q] = ingress[q]
      BY <1>1, <2>3 DEF Creates, TypeInv, TypeOK
    <3>2. QED
      BY <2>1, <3>1, SameOnce DEF Once
  <2>4. QED
    BY <2>2, <2>3
<1>2. ASSUME NEW q \in Play, HasRow(q, Unresolved), play'[q] = "failed",
             UNCHANGED <<pc, cur, sent, ingress>>
      PROVE  OnceAt(q)'
  <2>1. Rows(q) = 1 /\ play[q] # "scrobbled"
    BY <1>2, OnlyRow DEF Once, OnceAt, Handover
  <2>2. Pending(q)
    BY <2>1 DEF Pending
  <2>3. InFlight(q) => InFlight(q)'
    BY <1>2 DEF InFlight
  <2>4. QED
    BY <1>2, <2>2, <2>3 DEF Once, OnceAt
<1>3. ASSUME NEW p \in Play, Removes(p)
      PROVE  \A q \in Play : OnceAt(q)'
  <2>1. UNCHANGED <<pc, cur, sent, ingress>>
    BY <1>3 DEF Removes, ingressSide, SentStill
  <2>2. play'[p] = "failed" /\ HasRow(p, Unresolved)
    BY <1>3 DEF Removes, Resolve, TypeInv, TypeOK
  <2>3. \A q \in Play \ {p} : play'[q] = play[q] /\ dead'[q] = dead[q]
    BY <1>3 DEF Removes, Resolve, TypeInv, TypeOK
  <2>4. QED
    BY <1>2, <2>1, <2>2, <2>3, SameOnce DEF Once
<1>4. CASE RemovesAll
  <2>1. UNCHANGED <<pc, cur, sent, ingress>>
    BY <1>4 DEF RemovesAll, ingressSide, SentStill
  <2>2. \A q \in Play : IF HasRow(q, Unresolved)
                        THEN play'[q] = "failed"
                        ELSE play'[q] = play[q] /\ dead'[q] = dead[q]
    BY <1>4 DEF RemovesAll
  <2>3. QED
    BY <1>2, <2>1, <2>2, SameOnce DEF Once
<1>5. ASSUME NEW r \in Nat, Requeues(r), NEW q \in Play
      PROVE  OnceAt(q)'
  <2>1. /\ Rows(q)' = Rows(q)
        /\ Rows(q) = 1 => (Status(q)' \in Unresolved <=> Status(q) \in Unresolved)
    BY <1>5, RequeuedStatus DEF Requeues, Handover, Unresolved
  <2>2. UNCHANGED <<play, ingress, sent>>
    BY <1>5 DEF Requeues, ingressSide, SentStill
  <2>3. InFlight(q) => InFlight(q)'
    BY <1>5, FlightKept DEF Requeues, Actor
  <2>4. QED
    BY <2>1, <2>2, <2>3 DEF Once, OnceAt, Pending
<1>6. QED
  BY <1>1, <1>3, <1>4, <1>5

(* No run takes a Play that is scrobbled, or has it scrobbled by others.     *)
LEMMA ApartStep ==
  ASSUME "retryApi" \notin Faults, TypeInv, Handover, Apart, StepKind
  PROVE  Apart'
<1>1. pc["run"] \in Busy => cur["run"] \in Play /\ Rows(cur["run"]) = 1
  BY RetryHolds DEF DeadActor
<1>2. ASSUME UNCHANGED <<pc, cur>>,
             \A p \in Play : play'[p] = "scrobbled" => play[p] = "scrobbled"
      PROVE  Apart'
  BY <1>1, <1>2 DEF Apart
<1>3. ASSUME NEW a \in Actor, Others(a), pc'[a] \notin Busy,
             \A p \in Play : play'[p] = "scrobbled" => play[p] = "scrobbled" \/ p = cur[a],
             pc["run"] \in Busy /\ a # "run" => cur["run"] # cur[a]
      PROVE  Apart'
  BY <1>1, <1>3 DEF Apart, Others, Actor
<1>4. ASSUME NEW p \in Play, Creates(p)
      PROVE  Apart'
  <2>1. \A q \in Play : play'[q] = "scrobbled" => play[q] = "scrobbled"
    BY <1>4 DEF Creates, TypeInv, TypeOK
  <2>2. QED
    BY <1>2, <1>4, <2>1 DEF Creates
<1>5. ASSUME NEW p \in Play, Removes(p)
      PROVE  Apart'
  <2>1. \A q \in Play : play'[q] = "scrobbled" => play[q] = "scrobbled"
    BY <1>5 DEF Removes, Resolve, TypeInv, TypeOK
  <2>2. QED
    BY <1>2, <1>5, <2>1 DEF Removes
<1>6. CASE RemovesAll
  BY <1>2, <1>6 DEF RemovesAll
<1>7. ASSUME NEW p \in Play, GivesUp(p) \/ Parks(p)
      PROVE  Apart'
  <2>1. /\ Others("loop") /\ pc'["loop"] \notin Busy
        /\ \A q \in Play : play'[q] = "scrobbled" => play[q] = "scrobbled"
    BY <1>7 DEF GivesUp, Parks, Frees, FailIngress, TypeInv, TypeOK
  <2>2. QED
    BY <1>1, <2>1 DEF Apart, Others, Actor
<1>8. ASSUME NEW p \in Play, NEW state, Finishes(p, state)
      PROVE  Apart'
  <2>1. /\ Others("loop") /\ pc'["loop"] \notin Busy /\ pc["loop"] \in Busy
        /\ p = cur["loop"]
        /\ \A q \in Play : play'[q] = "scrobbled" => play[q] = "scrobbled" \/ q = p
    BY <1>8 DEF Finishes, Frees, CompleteIngress, Busy, TypeInv, TypeOK
  <2>2. Rows(p) = 0
    BY <2>1, QueuedHasNone DEF Handover, Held
  <2>3. QED
    BY <1>1, <1>3, <2>1, <2>2 DEF Actor
<1>9. ASSUME NEW a \in DeadActor, NEW state, RetryFails(a) \/ Resolves(a, state)
      PROVE  Apart'
  <2>1. /\ Others(a) /\ pc'[a] \notin Busy /\ pc[a] \in Busy /\ a \in Actor
        /\ \A q \in Play : play'[q] = "scrobbled" => play[q] = "scrobbled" \/ q = cur[a]
    BY <1>9 DEF RetryFails, Resolves, Resolve, Frees, Busy, TypeInv, TypeOK, Actor,
                DeadActor
  <2>2. a = "run"
    BY <2>1 DEF Apart, DeadActor
  <2>3. QED
    BY <1>3, <2>1, <2>2
<1>10. ASSUME NEW r, Requeues(r)
       PROVE  Apart'
  BY <1>10 DEF Requeues, Apart, Others, Actor
<1>11. ASSUME NEW a \in Actor, NEW p \in Play, Takes(a, p)
       PROVE  Apart'
  <2>1. a # "api" /\ UNCHANGED play
    BY <1>11 DEF Takes, RowsStill, dbVars
  <2>2. QED
    BY <1>11, <2>1 DEF Takes, Apart, Others, Actor
<1>12. ASSUME NEW a \in Actor, ServiceAccepts(a) \/ GoesOn(a)
       PROVE  Apart'
  <2>1. /\ Others(a) /\ pc[a] \in Busy /\ cur'[a] = cur[a] /\ UNCHANGED play
    BY <1>12, OnlyThis DEF ServiceAccepts, GoesOn, RowsStill, dbVars, Goto, Busy
  <2>2. QED
    BY <2>1 DEF Apart, Others, Actor
<1>13. ASSUME NEW a \in Actor, Idles(a)
       PROVE  Apart'
  BY <1>13 DEF Idles, Frees, RowsStill, dbVars, Apart, Others, Actor
<1>14. CASE Rests
  BY <1>2, <1>14 DEF Rests, RowsStill, dbVars
<1>15. QED
  BY <1>4, <1>5, <1>6, <1>7, <1>8, <1>9, <1>10, <1>11, <1>12, <1>13, <1>14
     DEF StepKind

LEMMA OnceStep ==
  ASSUME OneByOne, RealInv, RealInv', Handover, Handover', Once, StepKind
  PROVE  Once'
<1>1. TypeInv /\ TypeInv'
  BY DEF RealInv
<1>2. Apart'
  BY <1>1, ApartStep DEF OneByOne, Once
<1>3. \A q \in Play : OnceAt(q)'
  <2>1. ASSUME NEW a \in Actor, GoesOn(a) \/ Idles(a) \/ \E p \in Play : Takes(a, p)
        PROVE  \A q \in Play : OnceAt(q)'
    <3>1. /\ UNCHANGED <<play, ingress, dead, sent>> /\ Others(a)
          /\ pc[a] # "accepted"
      BY <2>1 DEF GoesOn, Idles, Takes, Frees, RowsStill, dbVars, SentStill, Busy
    <3>2. QED
      BY <3>1, SameOnce DEF Once
  <2>2. CASE Rests
    <3>1. UNCHANGED <<play, ingress, dead, sent, pc, cur>>
      BY <2>2 DEF Rests, RowsStill, dbVars, SentStill
    <3>2. QED
      BY <3>1, SameOnce DEF Once
  <2>3. QED
    BY <1>1, <2>1, <2>2, LoopKindOnce, RetryKindOnce, AcceptedOnce, RowKindOnce
       DEF StepKind
<1>4. QED
  BY <1>2, <1>3 DEF Once

LEMMA OnceInit == Init => Once
<1> SUFFICES ASSUME Init PROVE Once
  OBVIOUS
<1>1. Apart
  BY DEF Init, Apart, Busy, Actor
<1>2. QED
  BY <1>1 DEF Init, Once, OnceAt

LEMMA OnceAlways ==
  ASSUME OneByOne
  PROVE  Spec => []Once
<1> DEFINE Inv == RealInv /\ Handover
<1>1. Inv /\ Inv' /\ Once /\ [Next]_vars => Once'
  BY OnceStep, StepKinds DEF RealInv, OneByOne
<1>2. Spec => []Inv
  BY HandoverAlways DEF OneByOne
<1> HIDE DEF Inv
<1>3. QED
  BY <1>1, <1>2, OnceInit, PTL DEF Spec

(* The service accepts a Play at most once, from the loop and the dead run   *)
(* together, while the process lives, answers arrive, and no Play is retried *)
(* by hand beside the run; whatever fails, is stopped, forced or removed.    *)
THEOREM SubmittedOnce ==
  ASSUME OneByOne
  PROVE  Spec => []NoResubmission
<1>1. Once => NoResubmission
  BY DEF Once, OnceAt, NoResubmission
<1>2. QED
  BY <1>1, OnceAlways, PTL

-----------------------------------------------------------------------------
(* The promise *)

Undisturbed == Faults \cap {"crash", "retryApi", "removeApi"} = {}

(* The state of a Play says which queue it is in.                            *)
LifeAt(p) ==
  /\ ingress[p] = "queued" <=> play[p] = "queued"
  /\ Rows(p) = 1 => (Status(p) \in Unresolved <=> play[p] = "failed")

(* Nobody touches the row a run has read before the run does.                *)
Snapshot == pc["run"] \in Busy => /\ rows["run"] = dead[cur["run"]]
                                 /\ Status(cur["run"]) = "queued"

Life == Snapshot /\ \A p \in Play : LifeAt(p)

LEMMA FirstOfOne ==
  ASSUME NEW s \in Seq(DeadRow), Len(s) = 1, s[1].status \in Unresolved
  PROVE  FirstUnresolved(s) = 1
<1>1. DOMAIN s = {1}
  BY OneRowSeq
<1>2. \A j \in 1..(1 - 1) : s[j].status \notin Unresolved
  OBVIOUS
<1>3. FirstUnresolved(s) \in DOMAIN s
  BY <1>1, <1>2 DEF FirstUnresolved
<1>4. QED
  BY <1>1, <1>3

(* What a run resolves is the one row of the Play it holds.                  *)
LEMMA RunResolves ==
  ASSUME TypeInv, Handover, Handover', Apart, Life, NEW a \in DeadActor, NEW state,
         RetryFails(a) \/ Resolves(a, state)
  PROVE  /\ a = "run" /\ cur["run"] \in Play /\ Rows(cur["run"]) = 1
         /\ Status(cur["run"]) = "queued" /\ play[cur["run"]] = "failed"
         /\ Resolves(a, state) =>
              /\ FirstUnresolved(rows["run"]) = 1
              /\ rows["run"][1].status = "queued"
              /\ dead' = [dead EXCEPT ![cur["run"]] = Completed(@, {1})]
<1>1. pc[a] \in Busy /\ a = "run"
  BY DEF RetryFails, Resolves, Busy, Apart, DeadActor
<1>2. /\ cur["run"] \in Play /\ Rows(cur["run"]) = 1
      /\ Status(cur["run"]) = "queued" /\ rows["run"] = dead[cur["run"]]
  BY <1>1, RetryHolds DEF Life, Snapshot
<1>3. play[cur["run"]] = "failed"
  BY <1>2 DEF Life, LifeAt, Unresolved
<1>4. rows["run"] \in Seq(DeadRow) /\ Len(rows["run"]) = 1 /\ rows["run"][1].status = "queued"
  BY <1>2 DEF TypeInv, TypeOK, Actor, Rows, Status
<1>5. FirstUnresolved(rows["run"]) = 1
  BY <1>4, FirstOfOne DEF Unresolved
<1>6. ASSUME Resolves(a, state)
      PROVE  dead' = [dead EXCEPT ![cur["run"]] = Completed(@, {1})]
  <2>1. {1, 1} = {1}
    OBVIOUS
  <2>2. QED
    BY <1>1, <1>5, <1>6, <2>1 DEF Resolves, Resolve
<1>7. QED
  BY <1>1, <1>2, <1>3, <1>4, <1>5, <1>6

(* A step that ends with a queued Play changes no other.                     *)
LEMMA LoopEndsPlay ==
  ASSUME TypeInv, Handover, NEW p \in Play,
         GivesUp(p) \/ Parks(p) \/ \E state \in {"scrobbled", "duped"} : Finishes(p, state)
  PROVE  /\ ingress[p] = "queued" /\ Rows(p) = 0
         /\ ingress'[p] # "queued" /\ play'[p] # "queued"
         /\ GivesUp(p) => play'[p] = "failed" /\ dead'[p] = dead[p]
         /\ Parks(p) => /\ play'[p] = "failed"
                        /\ Rows(p)' = 1 /\ Status(p)' = "queued"
         /\ \A state : Finishes(p, state) => play'[p] = state /\ dead'[p] = dead[p]
         /\ \A q \in Play \ {p} : /\ play'[q] = play[q] /\ ingress'[q] = ingress[q]
                                /\ dead'[q] = dead[q]
         /\ Others("loop")
<1>1. ingress[p] = "queued" /\ Others("loop")
  BY DEF GivesUp, Parks, Finishes, Frees, Handover, Held, Busy
<1>2. Rows(p) = 0
  BY <1>1, QueuedHasNone DEF Handover
<1>3. ASSUME Parks(p)
      PROVE  play'[p] = "failed" /\ Rows(p)' = 1 /\ Status(p)' = "queued"
  <2> DEFINE row == [status |-> "queued", retries |-> 0]
  <2>1. dead[p] \in Seq(DeadRow) /\ row \in DeadRow /\ dead'[p] = Append(dead[p], row)
    BY <1>3 DEF Parks, AddDeadLetter, AppendDeadRow, TypeInv, TypeOK, DeadRow, QueueStatus
  <2>2. Len(dead'[p]) = 1 /\ dead'[p][1] = row
    BY <1>2, <2>1, AppendProperties DEF Rows
  <2>3. QED
    BY <1>3, <2>2 DEF Rows, Status, Parks, FailIngress, TypeInv, TypeOK
<1>4. /\ ingress'[p] # "queued" /\ play'[p] # "queued"
      /\ GivesUp(p) => play'[p] = "failed" /\ dead'[p] = dead[p]
      /\ \A state : Finishes(p, state) => play'[p] = state /\ dead'[p] = dead[p]
  BY DEF GivesUp, Parks, Finishes, FailIngress, CompleteIngress, NoDeadLetter,
         TypeInv, TypeOK
<1>5. \A q \in Play \ {p} : /\ play'[q] = play[q] /\ ingress'[q] = ingress[q]
                           /\ dead'[q] = dead[q]
  BY DEF GivesUp, Parks, Finishes, FailIngress, CompleteIngress, NoDeadLetter,
         AddDeadLetter, AppendDeadRow, TypeInv, TypeOK
<1>6. QED
  BY <1>1, <1>2, <1>3, <1>4, <1>5

LEMMA SameLife ==
  ASSUME NEW p \in Play, LifeAt(p), play'[p] = play[p], ingress'[p] = ingress[p],
         Rows(p)' = Rows(p),
         Rows(p) = 1 => (Status(p)' \in Unresolved <=> Status(p) \in Unresolved)
  PROVE  LifeAt(p)'
BY DEF LifeAt

LEMMA LifeStep ==
  ASSUME Undisturbed, RealInv, RealInv', Handover, Handover', Apart, Life, StepKind
  PROVE  Life'
<1>1. TypeInv /\ TypeInv' /\ Fresh /\ "retryApi" \notin Faults
  BY DEF RealInv, Undisturbed
<1>2. /\ pc["run"] \in Busy => /\ cur["run"] \in Play /\ Rows(cur["run"]) = 1
                              /\ rows["run"] = dead[cur["run"]]
                              /\ Status(cur["run"]) = "queued"
      /\ \A p \in Play : LifeAt(p)
  BY <1>1, RetryHolds DEF Life, Snapshot, DeadActor
<1>3. ASSUME UNCHANGED <<play, ingress, dead>>
      PROVE  \A p \in Play : LifeAt(p)'
  BY <1>2, <1>3 DEF LifeAt, Rows, Status
<1>4. ASSUME pc'["run"] \in Busy => /\ pc["run"] \in Busy
                                   /\ cur'["run"] = cur["run"] /\ rows'["run"] = rows["run"]
                                   /\ dead'[cur["run"]] = dead[cur["run"]]
      PROVE  Snapshot'
  BY <1>2, <1>4 DEF Snapshot, Status
<1>5. ASSUME NEW p \in Play, Creates(p)
      PROVE  Life'
  <2>1. Rows(p) # 1
    BY <1>1, <1>5, OnlyRow DEF Creates, Fresh, Handover
  <2>2. LifeAt(p)'
    BY <1>1, <1>5, <2>1 DEF Creates, LifeAt, Rows, TypeInv, TypeOK
  <2>3. \A q \in Play \ {p} : LifeAt(q)'
    BY <1>1, <1>2, <1>5 DEF Creates, LifeAt, Rows, Status, TypeInv, TypeOK
  <2>4. Snapshot'
    BY <1>4, <1>5 DEF Creates
  <2>5. QED
    BY <2>2, <2>3, <2>4 DEF Life
<1>6. ASSUME NEW p \in Play,
             GivesUp(p) \/ Parks(p) \/ \E state \in {"scrobbled", "duped"} : Finishes(p, state)
      PROVE  Life'
  <2>1. LifeAt(p)'
    BY <1>1, <1>6, LoopEndsPlay DEF LifeAt, Rows, Unresolved
  <2>2. \A q \in Play \ {p} : LifeAt(q)'
    BY <1>1, <1>2, <1>6, LoopEndsPlay DEF LifeAt, Rows, Status
  <2>3. pc["run"] \in Busy => dead'[cur["run"]] = dead[cur["run"]]
    BY <1>1, <1>2, <1>6, LoopEndsPlay
  <2>4. Others("loop")
    BY <1>1, <1>6, LoopEndsPlay
  <2>5. Snapshot'
    BY <1>4, <2>3, <2>4 DEF Others, Actor
  <2>6. QED
    BY <2>1, <2>2, <2>5 DEF Life
<1>7. ASSUME NEW a \in DeadActor, NEW state \in {"scrobbled", "duped"},
             RetryFails(a) \/ Resolves(a, state)
      PROVE  Life'
  <2>1. PICK p \in Play : /\ p = cur["run"] /\ Rows(p) = 1 /\ Status(p) = "queued"
                         /\ play[p] = "failed" /\ a = "run"
    BY <1>1, <1>7, RunResolves
  <2>2. /\ pc'["run"] \notin Busy /\ UNCHANGED ingress
        /\ \A q \in Play \ {p} : play'[q] = play[q] /\ dead'[q] = dead[q]
    BY <1>1, <1>7, <2>1 DEF RetryFails, Resolves, Resolve, Frees, ingressSide,
       TypeInv, TypeOK
  <2>3. CASE RetryFails(a)
    <3>1. play' = play
      BY <2>3 DEF RetryFails
    <3>2. dead'[p][1].status = "failed" /\ DOMAIN dead'[p] = DOMAIN dead[p]
      BY <1>1, <2>1, <2>3, FailedStatus DEF RetryFails, Handover
    <3>3. Rows(p)' = Rows(p)
      BY <1>1, <3>2, SameLen DEF Rows, TypeInv, TypeOK
    <3>4. LifeAt(p)'
      BY <1>2, <2>1, <2>2, <3>1, <3>2, <3>3 DEF LifeAt, Status, Unresolved
    <3>5. QED
      BY <1>2, <2>2, <3>4 DEF Life, LifeAt, Snapshot, Rows, Status
  <2>4. CASE Resolves(a, state)
    <3>1. dead'[p] = Completed(dead[p], {1}) /\ play'[p] = state
      BY <1>1, <2>1, <2>4, RunResolves DEF Resolves, Resolve, TypeInv, TypeOK
    <3>2. Status(p)' = "completed"
      BY <1>1, <2>1, <3>1, CompletedStatus DEF Handover, Status
    <3>3. ingress[p] # "queued"
      BY <2>1 DEF Handover, OneRow
    <3>4. LifeAt(p)'
      BY <2>2, <3>1, <3>2, <3>3 DEF LifeAt, Unresolved
    <3>5. QED
      BY <1>2, <2>2, <3>4 DEF Life, LifeAt, Snapshot, Rows, Status
  <2>5. QED
    BY <1>7, <2>3, <2>4
<1>8. ASSUME NEW r \in Nat, Requeues(r)
      PROVE  Life'
  <2>1. \A p \in Play : /\ Rows(p)' = Rows(p)
                        /\ Rows(p) = 1 => (Status(p)' \in Unresolved <=> Status(p) \in Unresolved)
    BY <1>1, <1>8, RequeuedStatus DEF Requeues, Handover, Unresolved
  <2>2. \A p \in Play : LifeAt(p)'
    BY <1>2, <1>8, <2>1, SameLife DEF Requeues, ingressSide
  <2>3. QED
    BY <1>8, <2>2 DEF Requeues, Life, Snapshot
<1>9. ASSUME NEW a \in Actor, NEW p \in Play, Takes(a, p)
      PROVE  Life'
  <2>1. UNCHANGED <<play, ingress, dead>> /\ a # "api"
    BY <1>1, <1>9 DEF Takes, RowsStill, dbVars
  <2>2. CASE a = "run"
    <3>1. HasRow(p, {"queued"})
      BY <1>9, <2>2 DEF Takes, Retriable, HasRow
    <3>2. Status(p) = "queued"
      BY <1>1, <3>1, OnlyRow DEF Handover
    <3>3. Snapshot'
      BY <1>9, <2>1, <2>2, <3>2 DEF Takes, Snapshot, Status
    <3>4. QED
      BY <1>3, <2>1, <3>3 DEF Life
  <2>3. CASE a # "run"
    BY <1>3, <1>4, <1>9, <2>1, <2>3 DEF Takes, Others, Actor, Life
  <2>4. QED
    BY <2>2, <2>3
<1>10. ASSUME NEW a \in Actor, GoesOn(a) \/ Idles(a) \/ ServiceAccepts(a)
       PROVE  Life'
  <2>1. /\ UNCHANGED <<play, ingress, dead>> /\ Others(a)
        /\ pc'[a] \notin Busy \/ (pc[a] \in Busy /\ cur'[a] = cur[a] /\ rows'[a] = rows[a])
    BY <1>1, <1>10, OnlyThis DEF GoesOn, Idles, ServiceAccepts, Frees, RowsStill,
       dbVars, Goto, Busy
  <2>2. Snapshot'
    BY <1>4, <2>1 DEF Others, Actor
  <2>3. QED
    BY <1>3, <2>1, <2>2 DEF Life
<1>11. CASE Rests
  <2>1. UNCHANGED <<play, ingress, dead, pc, cur, rows>>
    BY <1>11 DEF Rests, RowsStill, dbVars
  <2>2. QED
    BY <1>3, <1>4, <2>1 DEF Life
<1>12. ASSUME RemovesAll \/ \E p \in Play : Removes(p) PROVE Life'
  BY <1>12 DEF RemovesAll, Removes, Undisturbed
<1>13. QED
  BY <1>5, <1>6, <1>7, <1>8, <1>9, <1>10, <1>11, <1>12 DEF StepKind, DeadActor

-----------------------------------------------------------------------------
(* The refinement *)

(* A Play's state and its dead row tell its stage.                           *)
StageIs(p) ==
  /\ play[p] = "absent"    => StageOf(p) = "none"
  /\ play[p] = "scrobbled" => StageOf(p) = "delivered"
  /\ play[p] = "duped"     => StageOf(p) = "skipped"
  /\ play[p] = "queued"    => StageOf(p) = "waiting"
  /\ play[p] = "failed" /\ Rows(p) = 1 => StageOf(p) = "parked"
  /\ play[p] = "failed" /\ Rows(p) = 0 => StageOf(p) = "dropped"

StagesKnown == \A p \in Play : StageIs(p)

LEMMA StagesAre == TypeInv /\ Handover /\ Life => StagesKnown
<1> SUFFICES ASSUME TypeInv, Handover, Life, NEW p \in Play
             PROVE  StageIs(p)
  BY DEF StagesKnown
<1>1. LifeAt(p) /\ Rows(p) \in {0, 1}
  BY DEF Life, Handover, OneRow
<1>2. HasRow(p, Unresolved) <=> Rows(p) = 1 /\ Status(p) \in Unresolved
  BY OnlyRow DEF Handover
<1>3. play[p] \in DOMAIN Told <=> play[p] \in {"absent", "scrobbled", "duped"}
  BY DEF Told
<1>4. Told["absent"] = "none" /\ Told["scrobbled"] = "delivered" /\ Told["duped"] = "skipped"
  BY DEF Told
<1>5. QED
  BY <1>1, <1>2, <1>3, <1>4 DEF LifeAt, StageIs, StageOf

LEMMA StagesWillBe == TypeInv' /\ Handover' /\ Life' => StagesKnown'
BY StagesAre, PTL

(* So a Play whose state and rows stay has the same stage, a step in which   *)
(* all do is invisible, and a step that changes one Play moves it.           *)
LEMMA SameStage ==
  ASSUME TypeInv, OneRow, NEW p \in Play, StageIs(p), StageIs(p)',
         play'[p] = play[p], Rows(p)' = Rows(p)
  PROVE  StageOf(p)' = StageOf(p)
BY DEF TypeInv, TypeOK, PlayState, OneRow, StageIs

LEMMA NoneMoves ==
  ASSUME \A p \in Play : StageOf(p)' = StageOf(p), UNCHANGED sent
  PROVE  UNCHANGED <<Stages, sent>>
BY DEF Stages

LEMMA OneMoves ==
  ASSUME NEW p \in Play, NEW from, StageOf(p) \in from, UNCHANGED sent,
         \A q \in Play \ {p} : StageOf(q)' = StageOf(q)
  PROVE  Promise!Move(p, from, StageOf(p)')
<1>1. Stages' = [q \in Play |-> StageOf(q)']
  BY DEF Stages
<1>2. Stages' = [Stages EXCEPT ![p] = StageOf(p)']
  BY <1>1 DEF Stages
<1>3. Stages[p] \in from
  BY DEF Stages
<1>4. QED
  BY <1>2, <1>3 DEF Promise!Move

(* Every step of the queues is one of the promise, or invisible to it.       *)
LEMMA PromiseStep ==
  ASSUME Undisturbed, RealInv, RealInv', Handover, Handover', Once, Once',
         Life, Life', StepKind
  PROVE  Promise!Next \/ UNCHANGED <<Stages, sent>>
<1> DEFINE Kept == Promise!Next \/ UNCHANGED <<Stages, sent>>
<1>1. /\ TypeInv /\ TypeInv' /\ OneRow /\ OneRow' /\ Apart
      /\ \A p \in Play : StageIs(p) /\ StageIs(p)'
  BY StagesAre, StagesWillBe DEF StagesKnown, RealInv, Handover, Once
<1>2. ASSUME NEW q \in Play, play'[q] = play[q], Rows(q)' = Rows(q)
      PROVE  StageOf(q)' = StageOf(q)
  BY <1>1, <1>2, SameStage
<1>3. ASSUME UNCHANGED <<play, sent>>, \A q \in Play : Rows(q)' = Rows(q)
      PROVE  Kept
  BY <1>2, <1>3, NoneMoves
<1>4. ASSUME NEW p \in Play, NEW from, StageOf(p) \in from, UNCHANGED sent,
             \A q \in Play \ {p} : play'[q] = play[q] /\ Rows(q)' = Rows(q)
      PROVE  Promise!Move(p, from, StageOf(p)')
  BY <1>2, <1>4, OneMoves
<1>5. ASSUME NEW p \in Play, Creates(p)
      PROVE  Kept
  <2>1. StageOf(p) = "none" /\ StageOf(p)' = "waiting" /\ UNCHANGED sent
    BY <1>1, <1>5 DEF Creates, StageIs, SentStill, TypeInv, TypeOK
  <2>2. \A q \in Play \ {p} : play'[q] = play[q] /\ Rows(q)' = Rows(q)
    BY <1>1, <1>5 DEF Creates, Rows, TypeInv, TypeOK
  <2>3. Promise!Take(p)
    BY <1>4, <2>1, <2>2 DEF Promise!Take
  <2>4. QED
    BY <2>3 DEF Promise!Next
<1>6. ASSUME NEW p \in Play,
             GivesUp(p) \/ Parks(p) \/ \E state \in {"scrobbled", "duped"} : Finishes(p, state)
      PROVE  Kept
  <2>1. /\ ingress[p] = "queued" /\ Rows(p) = 0
        /\ \A q \in Play \ {p} : play'[q] = play[q] /\ Rows(q)' = Rows(q)
    BY <1>1, <1>6, LoopEndsPlay DEF Rows
  <2>2. StageOf(p) = "waiting"
    BY <1>1, <2>1 DEF Life, LifeAt, StageIs
  <2>3. UNCHANGED sent
    BY <1>6 DEF GivesUp, Parks, Finishes, SentStill
  <2>4. CASE GivesUp(p)
    <3>1. StageOf(p)' = "dropped"
      BY <1>1, <2>1, <2>4, LoopEndsPlay DEF StageIs, Rows
    <3>2. Promise!Drop(p)
      BY <1>4, <2>1, <2>2, <2>3, <3>1 DEF Promise!Drop, Promise!Pending
    <3>3. QED
      BY <3>2 DEF Promise!Next
  <2>5. CASE Parks(p)
    <3>1. StageOf(p)' = "parked"
      BY <1>1, <2>5, LoopEndsPlay DEF StageIs
    <3>2. Promise!Park(p)
      BY <1>4, <2>1, <2>2, <2>3, <3>1 DEF Promise!Park
    <3>3. QED
      BY <3>2 DEF Promise!Next
  <2>6. CASE Finishes(p, "duped")
    <3>1. StageOf(p)' = "skipped"
      BY <1>1, <2>6, LoopEndsPlay DEF StageIs
    <3>2. Promise!Skip(p)
      BY <1>4, <2>1, <2>2, <2>3, <3>1 DEF Promise!Skip, Promise!Pending
    <3>3. QED
      BY <3>2 DEF Promise!Next
  <2>7. CASE Finishes(p, "scrobbled")
    <3>1. StageOf(p)' = "delivered"
      BY <1>1, <2>7, LoopEndsPlay DEF StageIs
    <3>2. sent[p] = 1
      BY <2>7 DEF Finishes, RealInv, Evidence, Actor, Once, OnceAt
    <3>3. Promise!Deliver(p)
      BY <1>4, <2>1, <2>2, <2>3, <3>1, <3>2 DEF Promise!Deliver, Promise!Pending
    <3>4. QED
      BY <3>3 DEF Promise!Next
  <2>8. QED
    BY <1>6, <2>4, <2>5, <2>6, <2>7
<1>7. ASSUME NEW a \in DeadActor, NEW state \in {"scrobbled", "duped"},
             RetryFails(a) \/ Resolves(a, state)
      PROVE  Kept
  <2>1. PICK p \in Play : /\ p = cur["run"] /\ Rows(p) = 1 /\ a = "run"
                         /\ Status(p) = "queued" /\ play[p] = "failed"
    BY <1>1, <1>7, RunResolves
  <2>2. StageOf(p) = "parked" /\ UNCHANGED sent
    BY <1>1, <1>7, <2>1 DEF StageIs, RetryFails, Resolves, SentStill
  <2>3. \A q \in Play : Rows(q)' = Rows(q)
    <3>1. \A q \in Play : DOMAIN dead'[q] = DOMAIN dead[q]
      BY <1>1, <1>7, <2>1, FailedStatus, ResolveDomains DEF RetryFails, Resolves
    <3>2. QED
      BY <1>1, <3>1, SameLen DEF Rows, TypeInv, TypeOK
  <2>4. CASE RetryFails(a)
    BY <1>3, <2>2, <2>3, <2>4 DEF RetryFails
  <2>5. CASE Resolves(a, state)
    <3>1. play' = [play EXCEPT ![p] = state]
      BY <2>1, <2>5 DEF Resolves, Resolve
    <3>2. \A q \in Play \ {p} : play'[q] = play[q] /\ Rows(q)' = Rows(q)
      BY <1>1, <2>3, <3>1 DEF TypeInv, TypeOK
    <3>3. play'[p] = state
      BY <1>1, <3>1 DEF TypeInv, TypeOK
    <3>4. CASE state = "duped"
      <4>1. StageOf(p)' = "skipped"
        BY <1>1, <3>3, <3>4 DEF StageIs
      <4>2. Promise!Skip(p)
        BY <1>4, <2>2, <3>2, <4>1 DEF Promise!Skip, Promise!Pending
      <4>3. QED
        BY <4>2 DEF Promise!Next
    <3>5. CASE state = "scrobbled"
      <4>1. StageOf(p)' = "delivered"
        BY <1>1, <3>3, <3>5 DEF StageIs
      <4>2. sent[p] = 1
        BY <2>1, <2>5, <3>5 DEF Resolves, RealInv, Evidence, Actor, Once, OnceAt
      <4>3. Promise!Deliver(p)
        BY <1>4, <2>2, <3>2, <4>1, <4>2 DEF Promise!Deliver, Promise!Pending
      <4>4. QED
        BY <4>3 DEF Promise!Next
    <3>6. QED
      BY <3>4, <3>5
  <2>6. QED
    BY <1>7, <2>4, <2>5
<1>8. ASSUME NEW r \in Nat, Requeues(r)
      PROVE  Kept
  BY <1>1, <1>3, <1>8, RequeuedStatus DEF Requeues, SentStill
<1>9. ASSUME NEW a \in Actor, ServiceAccepts(a)
      PROVE  Kept
  <2>1. PICK p \in Play : p = cur[a]
    BY <1>1, <1>9 DEF ServiceAccepts, TypeInv, Holding, Busy
  <2>2. /\ pc[a] = "submit" /\ UNCHANGED <<play, dead>>
        /\ sent' = [sent EXCEPT ![p] = IF @ = 0 THEN 1 ELSE 2]
    BY <1>9, <2>1 DEF ServiceAccepts, RowsStill, dbVars
  <2>3. StageOf(p) \in {"waiting", "parked"}
    <3>1. CASE a = "loop"
      BY <1>1, <2>1, <2>2, <3>1 DEF Handover, Held, Busy, Life, LifeAt, StageIs
    <3>2. CASE a = "run"
      <4>1. Rows(p) = 1 /\ Status(p) = "queued"
        BY <1>1, <2>1, <2>2, <3>2, RetryHolds DEF Busy, DeadActor, Life, Snapshot
      <4>2. QED
        BY <1>1, <4>1 DEF Life, LifeAt, Unresolved, StageIs
    <3>3. QED
      BY <2>2, <3>1, <3>2 DEF Actor, Once, Apart, Busy
  <2>4. sent[p] = 0 /\ sent' = [sent EXCEPT ![p] = 1]
    <3>1. sent[p] \in {0, 1} /\ sent'[p] \in {0, 1}
      BY DEF Once, OnceAt
    <3>2. sent'[p] = IF sent[p] = 0 THEN 1 ELSE 2
      BY <1>1, <2>2 DEF TypeInv, TypeOK
    <3>3. sent[p] = 0
      BY <3>1, <3>2
    <3>4. QED
      BY <2>2, <3>3
  <2>5. Stages' = Stages /\ Stages[p] = StageOf(p)
    <3>1. \A q \in Play : StageOf(q)' = StageOf(q)
      BY <1>2, <2>2 DEF Rows
    <3>2. Stages' = [q \in Play |-> StageOf(q)']
      BY DEF Stages
    <3>3. QED
      BY <3>1, <3>2 DEF Stages
  <2>6. Promise!Submit(p)
    BY <2>3, <2>4, <2>5 DEF Promise!Submit, Promise!Pending
  <2>7. QED
    BY <2>6 DEF Promise!Next
<1>10. ASSUME RowsStill, SentStill
       PROVE  Kept
  BY <1>3, <1>10 DEF RowsStill, dbVars, SentStill, Rows
<1>11. ASSUME RemovesAll \/ \E p \in Play : Removes(p) PROVE Kept
  BY <1>11 DEF RemovesAll, Removes, Undisturbed
<1>12. QED
  BY <1>5, <1>6, <1>7, <1>8, <1>9, <1>10, <1>11
     DEF StepKind, DeadActor, GoesOn, Idles, Takes, Rests

LEMMA PromiseInit ==
  ASSUME Init
  PROVE  Promise!Init
<1>1. \A p \in Play : StageOf(p) = "none"
  BY DEF Init, StageOf, Told
<1>2. QED
  BY <1>1 DEF Init, Stages, Promise!Init

LEMMA LifeInit == Init => Life
<1> SUFFICES ASSUME Init PROVE Life
  OBVIOUS
<1>1. \A p \in Play : Rows(p) = 0
  BY DEF Init, Rows
<1>2. QED
  BY <1>1 DEF Init, Life, Snapshot, LifeAt, Busy, Actor

(* While the process lives, and no Play is retried or removed by hand, the   *)
(* life of each is an invariant.                                             *)
LEMMA LifeAlways ==
  ASSUME Undisturbed
  PROVE  Spec => [](RealInv /\ Handover /\ Apart /\ Life)
<1> DEFINE Inv == RealInv /\ Handover
<1>1. Inv /\ Inv' /\ Apart /\ [Next]_vars => Apart'
  BY ApartStep, StepKinds DEF RealInv, Undisturbed
<1>2. Inv /\ Inv' /\ Apart /\ Life /\ [Next]_vars => Life'
  BY LifeStep, StepKinds DEF RealInv, Undisturbed
<1>3. Spec => []Inv
  BY HandoverAlways DEF Undisturbed
<1>4. Init => Apart /\ Life
  BY OnceInit, LifeInit DEF Once
<1>5. (RealInv /\ Handover /\ Apart /\ Life) <=> (Inv /\ Apart /\ Life)
  OBVIOUS
<1> HIDE DEF Inv
<1>6. QED
  BY <1>1, <1>2, <1>3, <1>4, <1>5, PTL DEF Spec

(* The two queues, the loop and the scheduled retries implement the Client's *)
(* promise: each Play waits, may be parked once, and ends delivered, skipped *)
(* or dropped for good, and the service takes it once, while it is pending.  *)
(* Rejections, errors, failing history requests and aborts are included; a  *)
(* lost answer (the retry submits again), a crash, and removals and retries *)
(* of single Plays by hand are not.                                         *)
THEOREM PromiseKept ==
  ASSUME Undisturbed, "lostReply" \notin Faults
  PROVE  Spec => KeepsPromise
<1> DEFINE Inv == RealInv /\ Handover /\ Apart /\ Life
<1>1. OneByOne
  BY DEF OneByOne, Undisturbed
<1>2. Inv /\ Inv' /\ Once /\ Once' /\ [Next]_vars => [Promise!Next]_<<Stages, sent>>
  BY PromiseStep, StepKinds DEF RealInv, Undisturbed
<1>3. Init => Promise!Init
  BY PromiseInit
<1>4. Spec => []Inv
  BY LifeAlways
<1>5. Spec => []Once
  BY <1>1, OnceAlways
<1> HIDE DEF Inv
<1>6. QED
  BY <1>2, <1>3, <1>4, <1>5, PTL DEF Spec, KeepsPromise, Promise!Spec

-----------------------------------------------------------------------------
(* The numbers a Client keeps about its queues: the counters the dashboard   *)
(* shows, and the retries of dead Plays.                                     *)

(* The counters *)

\* the Plays whose one dead row has one of these statuses
With(statuses) == {p \in Play : Rows(p) = 1 /\ Status(p) \in statuses}

(* CountersAgree, in Plays instead of rows.                                  *)
PlaysCounted ==
  /\ queuedLength = Cardinality(QueuedPlays)
  /\ deadLetterLength = Cardinality(With(Unresolved))
  /\ Cardinality(With({"queued"})) <= deadLetterQueued
  /\ deadLetterQueued <= deadLetterLength

RowsArePlays ==
  \A statuses \in {Unresolved, {"queued"}} :
    Cardinality(RowsIn(dead, statuses)) = Cardinality(With(statuses))

LEMMA SomePlays ==
  ASSUME NEW S \in SUBSET Play
  PROVE  IsFiniteSet(S) /\ Cardinality(S) \in Nat
<1>1. 1 \in Int /\ MaxPlays \in Int
  BY QueueAssumption
<1>2. IsFiniteSet(Play)
  BY <1>1, FS_Interval DEF Play
<1>3. QED
  BY <1>2, FS_Subset, FS_CardinalityType

LEMMA OneAdded ==
  ASSUME NEW S \in SUBSET Play, NEW p \in Play \ S
  PROVE  Cardinality(S \cup {p}) = Cardinality(S) + 1
BY SomePlays, FS_AddElement

LEMMA OneLess ==
  ASSUME NEW S \in SUBSET Play, NEW p \in S
  PROVE  Cardinality(S \ {p}) = Cardinality(S) - 1
BY SomePlays, FS_RemoveElement

(* A Play with one row at most is counted once.                              *)
LEMMA RowsCounted == TypeInv /\ OneRow => RowsArePlays
<1> SUFFICES ASSUME TypeInv, OneRow, NEW S
             PROVE  Cardinality(RowsIn(dead, S)) = Cardinality(With(S))
  BY DEF RowsArePlays
<1> DEFINE f == [p \in With(S) |-> <<p, 1>>]
<1>1. ASSUME NEW x
      PROVE  x \in RowsIn(dead, S) <=> \E p \in With(S) : x = <<p, 1>>
  <2>1. ASSUME x \in RowsIn(dead, S)
        PROVE  \E p \in With(S) : x = <<p, 1>>
    <3>1. PICK p \in Play : x \in {p} \X DOMAIN dead[p]
      BY <2>1 DEF RowsIn
    <3>2. Rows(p) = 1 /\ DOMAIN dead[p] = {1}
      BY <3>1, SomeRow, OnlyRow
    <3>3. x = <<p, 1>>
      BY <3>1, <3>2
    <3>4. QED
      BY <2>1, <3>2, <3>3 DEF RowsIn, With, Status
  <2>2. ASSUME NEW p \in With(S), x = <<p, 1>>
        PROVE  x \in RowsIn(dead, S)
    <3>1. p \in Play /\ DOMAIN dead[p] = {1} /\ dead[p][1].status \in S
      BY OnlyRow DEF With, Status
    <3>2. QED
      BY <2>2, <3>1 DEF RowsIn
  <2>3. QED
    BY <2>1, <2>2
<1>2. f \in Bijection(With(S), RowsIn(dead, S))
  <2>1. f \in [With(S) -> RowsIn(dead, S)]
    BY <1>1
  <2>2. \A p, q \in With(S) : f[p] = f[q] => p = q
    OBVIOUS
  <2>3. \A x \in RowsIn(dead, S) : \E p \in With(S) : f[p] = x
    BY <1>1
  <2>4. QED
    BY <2>1, <2>2, <2>3, Fun_IsBij
<1>3. IsFiniteSet(With(S))
  BY SomePlays DEF With
<1>4. QED
  BY <1>2, <1>3, FS_Bijection DEF ExistsBijection

LEMMA RowsWillBeCounted == TypeInv' /\ OneRow' => RowsArePlays'
BY RowsCounted, PTL

(* The count of queued Plays follows the queue.                              *)
LEMMA QueueCounted ==
  ASSUME NEW p \in Play, queuedLength = Cardinality(QueuedPlays),
         \/ /\ ingress[p] # "queued" /\ ingress'[p] = "queued"
            /\ queuedLength' = queuedLength + 1
         \/ /\ ingress[p] = "queued" /\ ingress'[p] # "queued"
            /\ queuedLength' = queuedLength - 1,
         \A q \in Play \ {p} : ingress'[q] = ingress[q]
  PROVE  queuedLength' = Cardinality(QueuedPlays)'
<1>1. QueuedPlays' = {q \in Play : ingress'[q] = "queued"}
  BY DEF QueuedPlays
<1>2. CASE ingress[p] # "queued"
  <2>1. QueuedPlays' = QueuedPlays \cup {p} /\ p \in Play \ QueuedPlays
    BY <1>1, <1>2 DEF QueuedPlays
  <2>2. QueuedPlays \in SUBSET Play
    BY DEF QueuedPlays
  <2>3. QED
    BY <1>2, <2>1, <2>2, OneAdded
<1>3. CASE ingress[p] = "queued"
  <2>1. QueuedPlays' = QueuedPlays \ {p} /\ p \in QueuedPlays
    BY <1>1, <1>3 DEF QueuedPlays
  <2>2. QueuedPlays \in SUBSET Play
    BY DEF QueuedPlays
  <2>3. QED
    BY <1>3, <2>1, <2>2, OneLess
<1>4. QED
  BY <1>2, <1>3

LEMMA SameQueueCount ==
  ASSUME queuedLength = Cardinality(QueuedPlays), UNCHANGED <<ingress, queuedLength>>
  PROVE  queuedLength' = Cardinality(QueuedPlays)'
BY DEF QueuedPlays

(* The dead rows that have one of the statuses, before and after a step that *)
(* changes those of one Play.                                                *)
LEMMA DeadCounted ==
  ASSUME NEW S, NEW p \in Play, \A q \in Play \ {p} : dead'[q] = dead[q]
  PROVE  /\ With(S) \in SUBSET Play
         /\ p \notin With(S) /\ Rows(p)' = 1 /\ Status(p)' \in S
              => Cardinality(With(S))' = Cardinality(With(S)) + 1
         /\ p \in With(S) /\ Status(p)' \notin S
              => Cardinality(With(S))' = Cardinality(With(S)) - 1
         /\ (p \in With(S) <=> Rows(p)' = 1 /\ Status(p)' \in S)
              => Cardinality(With(S))' = Cardinality(With(S))
<1>1. With(S)' = {q \in Play : Rows(q)' = 1 /\ Status(q)' \in S}
  BY DEF With
<1>2. \A q \in Play \ {p} : q \in With(S)' <=> q \in With(S)
  BY <1>1 DEF With, Rows, Status
<1>3. With(S) \in SUBSET Play /\ With(S)' \in SUBSET Play
  BY <1>1 DEF With
<1>4. ASSUME p \notin With(S), Rows(p)' = 1, Status(p)' \in S
      PROVE  Cardinality(With(S))' = Cardinality(With(S)) + 1
  <2>1. With(S)' = With(S) \cup {p}
    BY <1>1, <1>2, <1>3, <1>4
  <2>2. QED
    BY <1>3, <1>4, <2>1, OneAdded
<1>5. ASSUME p \in With(S), Status(p)' \notin S
      PROVE  Cardinality(With(S))' = Cardinality(With(S)) - 1
  <2>1. With(S)' = With(S) \ {p}
    BY <1>1, <1>2, <1>3, <1>5
  <2>2. QED
    BY <1>3, <1>5, <2>1, OneLess
<1>6. ASSUME p \in With(S) <=> Rows(p)' = 1 /\ Status(p)' \in S
      PROVE  Cardinality(With(S))' = Cardinality(With(S))
  <2>1. With(S)' = With(S)
    BY <1>1, <1>2, <1>3, <1>6
  <2>2. QED
    BY <2>1
<1>7. QED
  BY <1>3, <1>4, <1>5, <1>6

LEMMA SameDeadCounts ==
  ASSUME PlaysCounted, UNCHANGED <<dead, deadLetterLength, deadLetterQueued>>
  PROVE  /\ deadLetterLength' = Cardinality(With(Unresolved))'
         /\ Cardinality(With({"queued"}))' <= deadLetterQueued'
         /\ deadLetterQueued' <= deadLetterLength'
BY DEF PlaysCounted, With, Rows, Status

LEMMA CounterStep ==
  ASSUME Undisturbed, RealInv, RealInv', Handover, Handover', Apart, Life,
         PlaysCounted, StepKind
  PROVE  PlaysCounted'
<1>1. /\ TypeInv /\ TypeInv' /\ OneRow /\ OneRow'
      /\ queuedLength = Cardinality(QueuedPlays)
  BY DEF RealInv, Handover, PlaysCounted
<1>2. /\ Cardinality(With(Unresolved)) \in Nat /\ Cardinality(With({"queued"})) \in Nat
      /\ deadLetterQueued \in Int /\ deadLetterLength \in Int
  BY <1>1, SomePlays DEF With, TypeInv, TypeOK
<1>3. ASSUME UNCHANGED <<ingress, dead, queuedLength, deadCounts>>
      PROVE  PlaysCounted'
  BY <1>1, <1>3, SameQueueCount, SameDeadCounts DEF PlaysCounted, deadCounts
<1>4. ASSUME NEW p \in Play, Creates(p)
      PROVE  PlaysCounted'
  <2>1. /\ ingress[p] # "queued" /\ ingress'[p] = "queued"
        /\ queuedLength' = queuedLength + 1
        /\ \A q \in Play \ {p} : ingress'[q] = ingress[q]
    BY <1>1, <1>4 DEF Creates, RealInv, Fresh, TypeInv, TypeOK
  <2>2. queuedLength' = Cardinality(QueuedPlays)'
    BY <1>1, <2>1, QueueCounted
  <2>3. QED
    BY <1>4, <2>2, SameDeadCounts DEF Creates, PlaysCounted, deadCounts
<1>5. ASSUME NEW p \in Play,
             GivesUp(p) \/ Parks(p) \/ \E state \in {"scrobbled", "duped"} : Finishes(p, state)
      PROVE  PlaysCounted'
  <2>1. /\ ingress[p] = "queued" /\ ingress'[p] # "queued" /\ Rows(p) = 0
        /\ \A q \in Play \ {p} : ingress'[q] = ingress[q] /\ dead'[q] = dead[q]
        /\ Parks(p) => Rows(p)' = 1 /\ Status(p)' = "queued"
    BY <1>1, <1>5, LoopEndsPlay
  <2>2. queuedLength' = queuedLength - 1
    BY <1>5 DEF GivesUp, Parks, Finishes, FailIngress, CompleteIngress
  <2>3. queuedLength' = Cardinality(QueuedPlays)'
    BY <1>1, <2>1, <2>2, QueueCounted
  <2>4. CASE Parks(p)
    <3>1. p \notin With(Unresolved) /\ p \notin With({"queued"})
      BY <2>1 DEF With
    <3>2. /\ Cardinality(With(Unresolved))' = Cardinality(With(Unresolved)) + 1
          /\ Cardinality(With({"queued"}))' = Cardinality(With({"queued"})) + 1
      BY <2>1, <2>4, <3>1, DeadCounted DEF Unresolved
    <3>3. /\ deadLetterLength' = deadLetterLength + 1
          /\ deadLetterQueued' = deadLetterQueued + 1
      BY <2>4 DEF Parks, AddDeadLetter
    <3>4. QED
      BY <1>2, <2>3, <3>2, <3>3 DEF PlaysCounted
  <2>5. CASE UNCHANGED <<dead, deadCounts>>
    BY <2>3, <2>5, SameDeadCounts DEF PlaysCounted, deadCounts
  <2>6. QED
    BY <1>5, <2>4, <2>5 DEF GivesUp, Finishes, NoDeadLetter, CompleteIngress
<1>6. ASSUME NEW a \in DeadActor, NEW state \in {"scrobbled", "duped"},
             RetryFails(a) \/ Resolves(a, state)
      PROVE  PlaysCounted'
  <2>1. PICK p \in Play : /\ p = cur["run"] /\ Rows(p) = 1 /\ a = "run"
                         /\ Status(p) = "queued"
    BY <1>1, <1>6, RunResolves
  <2>2. p \in With(Unresolved) /\ p \in With({"queued"})
    BY <2>1 DEF With, Unresolved
  <2>3. queuedLength' = Cardinality(QueuedPlays)'
    BY <1>1, <1>6, SameQueueCount DEF RetryFails, Resolves, ingressSide
  <2>4. CASE RetryFails(a)
    <3>1. /\ dead'[p][1].status = "failed" /\ DOMAIN dead'[p] = DOMAIN dead[p]
          /\ \A q \in Play \ {p} : dead'[q] = dead[q]
      BY <1>1, <2>1, <2>4, FailedStatus DEF RetryFails
    <3>2. Rows(p)' = 1 /\ Status(p)' = "failed"
      BY <1>1, <2>1, <3>1, SameLen DEF Rows, Status, TypeInv, TypeOK
    <3>3. /\ Cardinality(With(Unresolved))' = Cardinality(With(Unresolved))
          /\ Cardinality(With({"queued"}))' = Cardinality(With({"queued"})) - 1
      BY <2>2, <3>1, <3>2, DeadCounted DEF Unresolved
    <3>4. UNCHANGED <<deadLetterLength, deadLetterQueued>>
      BY <2>4 DEF RetryFails, deadCounts
    <3>5. QED
      BY <1>2, <2>3, <3>3, <3>4 DEF PlaysCounted
  <2>5. CASE Resolves(a, state)
    <3>1. /\ FirstUnresolved(rows["run"]) = 1 /\ rows["run"][1].status = "queued"
          /\ dead' = [dead EXCEPT ![p] = Completed(@, {1})]
      BY <1>1, <2>1, <2>5, RunResolves
    <3>2. /\ dead'[p] = Completed(dead[p], {1})
          /\ \A q \in Play \ {p} : dead'[q] = dead[q]
      BY <1>1, <3>1 DEF TypeInv, TypeOK
    <3>3. Status(p)' = "completed"
      BY <1>1, <2>1, <3>2, CompletedStatus DEF Status
    <3>4. /\ Cardinality(With(Unresolved))' = Cardinality(With(Unresolved)) - 1
          /\ Cardinality(With({"queued"}))' = Cardinality(With({"queued"})) - 1
      BY <2>2, <3>2, <3>3, DeadCounted DEF Unresolved
    <3>5. /\ deadLetterLength' = deadLetterLength - 1
          /\ deadLetterQueued' = deadLetterQueued - 1
      BY <2>1, <2>5, <3>1 DEF Resolves, Resolve
    <3>6. QED
      BY <1>2, <2>3, <3>4, <3>5 DEF PlaysCounted
  <2>6. QED
    BY <1>6, <2>4, <2>5
<1>7. ASSUME NEW r \in Nat, Requeues(r)
      PROVE  PlaysCounted'
  <2>1. queuedLength' = Cardinality(QueuedPlays)'
    BY <1>1, <1>7, SameQueueCount DEF Requeues, ingressSide
  <2>2. RowsArePlays'
    BY <1>1, RowsWillBeCounted
  <2>3. /\ deadLetterLength' = Cardinality(With(Unresolved))'
        /\ deadLetterQueued' = Cardinality(With({"queued"}))'
    BY <1>7, <2>2 DEF Requeues, RowsArePlays
  <2>4. /\ With(Unresolved)' \in SUBSET Play
        /\ With({"queued"})' \in SUBSET With(Unresolved)'
    BY DEF With, Unresolved
  <2>5. Cardinality(With({"queued"}))' <= Cardinality(With(Unresolved))'
    BY <2>4, SomePlays, FS_Subset
  <2>6. Cardinality(With({"queued"}))' \in Nat
    BY <2>4, SomePlays
  <2>7. QED
    BY <2>1, <2>3, <2>5, <2>6 DEF PlaysCounted
<1>8. ASSUME RowsStill PROVE PlaysCounted'
  BY <1>3, <1>8 DEF RowsStill, dbVars, counters, deadCounts
<1>9. ASSUME RemovesAll \/ \E p \in Play : Removes(p) PROVE PlaysCounted'
  BY <1>9 DEF RemovesAll, Removes, Undisturbed
<1>10. QED
  BY <1>4, <1>5, <1>6, <1>7, <1>8, <1>9
     DEF StepKind, DeadActor, ServiceAccepts, GoesOn, Idles, Takes, Rests

LEMMA CounterInit == Init => PlaysCounted
<1> SUFFICES ASSUME Init PROVE PlaysCounted
  OBVIOUS
<1>1. QueuedPlays = {} /\ With(Unresolved) = {} /\ With({"queued"}) = {}
  BY DEF Init, QueuedPlays, With, Rows
<1>2. queuedLength = 0 /\ deadLetterLength = 0 /\ deadLetterQueued = 0
  BY DEF Init
<1>3. Cardinality({}) = 0
  BY FS_EmptySet
<1>4. QED
  BY <1>1, <1>2, <1>3 DEF PlaysCounted

(* The numbers on the dashboard are those of the rows, whatever fails, is    *)
(* stopped or forced, and whichever answers are lost, while the process      *)
(* lives and no Play is retried or removed by hand.                          *)
THEOREM CountersRight ==
  ASSUME Undisturbed
  PROVE  Spec => []CountersAgree
<1> DEFINE Inv == RealInv /\ Handover /\ Apart /\ Life
<1>1. Inv /\ Inv' /\ PlaysCounted /\ [Next]_vars => PlaysCounted'
  BY CounterStep, StepKinds DEF RealInv, Undisturbed
<1>2. Inv /\ PlaysCounted => CountersAgree
  BY RowsCounted DEF RealInv, Handover, RowsArePlays, PlaysCounted, CountersAgree
<1>3. Spec => []Inv
  BY LifeAlways
<1> HIDE DEF Inv
<1>4. QED
  BY <1>1, <1>2, <1>3, CounterInit, PTL DEF Spec

-----------------------------------------------------------------------------
(* The retries *)

Automatic == Faults \cap {"forceRun", "retryApi"} = {}

(* The run read the row it is retrying when that row was within the limit,   *)
(* and the row is still there.                                               *)
RetryInv ==
  /\ limit = DeadLetterRetries
  /\ pc["api"] \notin Busy
  /\ pc["run"] \in Busy =>
       /\ Rows(cur["run"]) # 0
       /\ Rows(cur["run"]) = 1 => rows["run"][1].retries <= DeadLetterRetries
  /\ RetriesBounded

\* the run does not take up a Play, and no retry by hand begins
RunSteady ==
  /\ limit' = DeadLetterRetries
  /\ pc'["api"] \notin Busy
  /\ pc'["run"] \in Busy => /\ pc["run"] \in Busy
                           /\ cur'["run"] = cur["run"] /\ rows'["run"] = rows["run"]

RetriesKept ==
  \A p \in Play : /\ DOMAIN dead'[p] = DOMAIN dead[p]
                  /\ \A i \in DOMAIN dead[p] : dead'[p][i].retries = dead[p][i].retries

(* One row is the first.                                                     *)
LEMMA RowCount ==
  ASSUME TypeInv, NEW p \in Play
  PROVE  /\ Rows(p) \in Nat /\ DOMAIN dead[p] = 1..Rows(p)
         /\ Rows(p) = 1 => 1 \in DOMAIN dead[p]
         /\ DOMAIN dead[p] # {} <=> Rows(p) # 0
<1>1. dead[p] \in Seq(DeadRow)
  BY DEF TypeInv, TypeOK
<1>2. Rows(p) \in Nat /\ DOMAIN dead[p] = 1..Rows(p)
  BY <1>1, LenProperties DEF Rows
<1>3. QED
  BY <1>2

(* Steps that leave the retries as they are, or add a row.                   *)
LEMMA KeptBound ==
  ASSUME TypeInv, TypeInv', RetryInv, RetriesKept, RunSteady
  PROVE  RetryInv'
<1>1. \A p \in Play : Rows(p)' = Rows(p)
  BY SameLen DEF RetriesKept, Rows, TypeInv, TypeOK
<1>2. pc["run"] \in Busy => cur["run"] \in Play
  BY DEF TypeInv, Holding, Actor
<1>3. ASSUME NEW p \in Play, Rows(p)' = 1
      PROVE  dead'[p][1].retries <= DeadLetterRetries + 1
  <2>1. Rows(p) = 1 /\ 1 \in DOMAIN dead[p]
    BY <1>1, <1>3, RowCount
  <2>2. dead'[p][1].retries = dead[p][1].retries
    BY <2>1 DEF RetriesKept
  <2>3. QED
    BY <2>1, <2>2 DEF RetryInv, RetriesBounded, Rows
<1>4. RetriesBounded'
  BY <1>3 DEF RetriesBounded, Rows
<1>5. QED
  BY <1>1, <1>2, <1>4 DEF RetryInv, RunSteady

LEMMA GrownBound ==
  ASSUME TypeInv, RetryInv, RunSteady, NEW q \in Play, AppendDeadRow(q)
  PROVE  RetryInv'
<1> DEFINE row == [status |-> "queued", retries |-> 0]
<1>1. /\ dead'[q] = Append(dead[q], row) /\ dead[q] \in Seq(DeadRow) /\ row \in DeadRow
      /\ \A p \in Play \ {q} : dead'[p] = dead[p]
  BY DEF AppendDeadRow, TypeInv, TypeOK, DeadRow, QueueStatus
<1>2. Rows(q) \in Nat /\ Rows(q)' = Rows(q) + 1 /\ dead'[q][Rows(q) + 1] = row
  BY <1>1, AppendProperties, LenProperties DEF Rows
<1>3. Rows(q)' = 1 => dead'[q][1].retries = 0
  BY <1>2
<1>4. ASSUME NEW p \in Play, Rows(p) # 0, Rows(p)' = 1
      PROVE  Rows(p) = 1
  <2>1. p # q
    BY <1>2, <1>4
  <2>2. QED
    BY <1>1, <1>4, <2>1 DEF Rows
<1>5. ASSUME NEW p \in Play, Rows(p) # 0
      PROVE  Rows(p)' # 0
  <2>1. CASE p = q
    BY <1>2, <2>1
  <2>2. CASE p # q
    BY <1>1, <1>5, <2>2 DEF Rows
  <2>3. QED
    BY <2>1, <2>2
<1>6. RetriesBounded'
  <2>1. \A p \in Play \ {q} : Rows(p)' = 1 => dead'[p][1].retries <= DeadLetterRetries + 1
    BY <1>1 DEF Rows, RetryInv, RetriesBounded
  <2>2. 0 <= DeadLetterRetries + 1
    BY QueueAssumption
  <2>3. QED
    BY <1>3, <2>1, <2>2 DEF RetriesBounded, Rows
<1>7. ASSUME pc'["run"] \in Busy
      PROVE  /\ Rows(cur["run"])' # 0
             /\ Rows(cur["run"])' = 1 => rows'["run"][1].retries <= DeadLetterRetries
  <2>1. PICK p \in Play : p = cur["run"]
    BY <1>7 DEF RunSteady, TypeInv, Holding, Actor
  <2>2. /\ pc["run"] \in Busy /\ cur'["run"] = p /\ rows'["run"] = rows["run"]
        /\ Rows(cur["run"])' = Rows(p)'
    BY <1>7, <2>1 DEF RunSteady, Rows
  <2>3. Rows(p) # 0 /\ (Rows(p) = 1 => rows["run"][1].retries <= DeadLetterRetries)
    BY <2>1, <2>2 DEF RetryInv
  <2>4. QED
    BY <1>4, <1>5, <2>2, <2>3
<1>8. QED
  BY <1>6, <1>7 DEF RetryInv, RunSteady

(* The ways the rows change without a retry.                                 *)
LEMMA CompletedKeeps ==
  ASSUME NEW s \in Seq(DeadRow), NEW I, NEW i \in DOMAIN s
  PROVE  Completed(s, I)[i].retries = s[i].retries
<1>1. s[i] \in DeadRow
  BY ElementOfSeq, LenProperties
<1>2. Completed(s, I)[i] = IF i \in I THEN [s[i] EXCEPT !.status = "completed"] ELSE s[i]
  BY DEF Completed
<1>3. QED
  BY <1>1, <1>2 DEF DeadRow

LEMMA CompletedRetries ==
  ASSUME TypeInv,
         \A p \in Play : dead'[p] = dead[p] \/ \E I : dead'[p] = Completed(dead[p], I)
  PROVE  RetriesKept
<1> SUFFICES ASSUME NEW p \in Play
             PROVE  /\ DOMAIN dead'[p] = DOMAIN dead[p]
                    /\ \A i \in DOMAIN dead[p] :
                         dead'[p][i].retries = dead[p][i].retries
  BY DEF RetriesKept
<1>1. dead[p] \in Seq(DeadRow)
  BY DEF TypeInv, TypeOK
<1>2. CASE dead'[p] = dead[p]
  BY <1>2
<1>3. ASSUME NEW I, dead'[p] = Completed(dead[p], I)
      PROVE  /\ DOMAIN dead'[p] = DOMAIN dead[p]
             /\ \A i \in DOMAIN dead[p] : dead'[p][i].retries = dead[p][i].retries
  BY <1>1, <1>3, CompletedKeeps, CompletedDead
<1>4. QED
  BY <1>2, <1>3

LEMMA RequeuedRetries ==
  ASSUME TypeInv, NEW r, dead' = Requeued(r)
  PROVE  RetriesKept
<1> SUFFICES ASSUME NEW p \in Play, NEW i \in DOMAIN dead[p]
             PROVE  dead'[p][i].retries = dead[p][i].retries
  BY RequeuedDead DEF RetriesKept, TypeInv, TypeOK
<1>1. dead[p][i] \in DeadRow
  BY ElementOfSeq, LenProperties DEF TypeInv, TypeOK
<1>2. dead'[p][i] = IF dead[p][i].status = "failed" /\ dead[p][i].retries <= r
                    THEN [dead[p][i] EXCEPT !.status = "queued"]
                    ELSE dead[p][i]
  BY DEF Requeued
<1>3. QED
  BY <1>1, <1>2 DEF DeadRow

LEMMA SameRetries ==
  ASSUME UNCHANGED dead
  PROVE  RetriesKept
BY DEF RetriesKept

LEMMA LoopLeavesRun ==
  ASSUME TypeInv, RetryInv, Others("loop"), UNCHANGED limit
  PROVE  RunSteady
BY DEF RetryInv, Others, Actor, RunSteady

LEMMA StillSteady ==
  ASSUME RetryInv, UNCHANGED <<pc, cur, rows, limit>>
  PROVE  RunSteady
BY DEF RetryInv, RunSteady

(* The loop adds a row, or leaves them alone.                                *)
LEMMA LoopBound ==
  ASSUME TypeInv, TypeInv', RetryInv, LoopStep
  PROVE  RetryInv'
<1>1. "loop" \in Actor /\ (pc["loop"] \in Busy => cur["loop"] \in Play)
  BY DEF Actor, TypeInv, Holding
<1>2. UNCHANGED limit
  BY DEF LoopStep, LoopTake, LoopNotMonitoring, LoopAborted, FailHeld, LoopHalts,
     LoopFetch, LoopFetchFails, LoopCompareThrows, LoopDuped, LoopNoMatch,
     LoopAccepted, ServiceAccepts, LoopScrobbled, LoopRejected, ParkAndGoOn,
     LoopShowStop, LoopResume, EnvStill
<1>3. Others("loop")
  <2>1. \/ \E where : Goto("loop", where) \/ Leave("loop", where)
        \/ \E p : Hold("loop", p)
        \/ GotHistory("loop")
    BY DEF LoopStep, LoopTake, LoopNotMonitoring, LoopAborted, FailHeld, LoopHalts,
       LoopFetch, LoopFetchFails, LoopCompareThrows, LoopDuped, LoopNoMatch,
       LoopAccepted, ServiceAccepts, LoopScrobbled, LoopRejected, ParkAndGoOn,
       LoopShowStop, LoopResume
  <2>2. QED
    BY <1>1, <2>1, OnlyThis, HoldsIt, GotIt
<1>4. RunSteady
  BY <1>2, <1>3, LoopLeavesRun
<1>5. CASE LoopFetchFails \/ LoopRejected \/ LoopShowStop
  <2>1. pc["loop"] \in Busy /\ AppendDeadRow(cur["loop"])
    BY <1>5 DEF LoopFetchFails, LoopRejected, LoopShowStop, SubmitError,
       ParkAndGoOn, AddDeadLetter, Busy
  <2>2. QED
    BY <1>1, <1>4, <2>1, GrownBound
<1>6. CASE UNCHANGED dead
  BY <1>4, <1>6, SameRetries, KeptBound
<1>7. QED
  BY <1>5, <1>6 DEF LoopStep, LoopTake, LoopNotMonitoring, LoopAborted, FailHeld,
     LoopHalts, LoopFetch, LoopCompareThrows, LoopDuped, LoopNoMatch, LoopAccepted,
     ServiceAccepts, LoopScrobbled, LoopResume, NoDeadLetter, CompleteIngress,
     RowsStill, dbVars

(* A failed retry counts one more than the run had read.                     *)
LEMMA FailedBound ==
  ASSUME TypeInv, TypeInv', RetryInv, pc["run"] \in Busy, AttemptFails("run")
  PROVE  RetryInv'
<1>1. PICK p \in Play : p = cur["run"] /\ Rows(p) # 0
  BY DEF TypeInv, Holding, Actor, RetryInv
<1>2. /\ dead' = [dead EXCEPT ![p][1] =
                    [status |-> "failed", retries |-> OneMore(rows["run"][1].retries)]]
      /\ dead \in [Play -> Seq(DeadRow)]
  BY <1>1 DEF AttemptFails, TypeInv, TypeOK
<1>3. \A q \in Play : DOMAIN dead'[q] = DOMAIN dead[q]
  BY <1>2
<1>4. \A q \in Play : Rows(q)' = Rows(q)
  BY <1>3, SameLen DEF Rows, TypeInv, TypeOK
<1>5. Rows(p) = 1 => dead'[p][1].retries <= DeadLetterRetries + 1
  <2>1. ASSUME Rows(p) = 1
        PROVE  dead'[p][1].retries = OneMore(rows["run"][1].retries)
    BY <1>2, <2>1, RowCount
  <2>2. rows["run"][1].retries \in Nat
    <3>1. rows["run"] \in Seq(DeadRow) /\ DOMAIN rows["run"] # {}
      BY DEF TypeInv, TypeOK, Holding, Actor, DeadActor
    <3>2. 1 \in DOMAIN rows["run"]
      BY <3>1, LenProperties
    <3>3. rows["run"][1] \in DeadRow
      BY <3>1, <3>2, ElementOfSeq, LenProperties
    <3>4. QED
      BY <3>3 DEF DeadRow
  <2>3. Rows(p) = 1 => OneMore(rows["run"][1].retries) <= DeadLetterRetries + 1
    BY <1>1, <2>2, QueueAssumption DEF RetryInv, OneMore
  <2>4. QED
    BY <2>1, <2>3
<1>6. \A q \in Play \ {p} : dead'[q] = dead[q]
  BY <1>2
<1>7. RetriesBounded'
  BY <1>4, <1>5, <1>6 DEF RetryInv, RetriesBounded, Rows
<1>8. Others("run") /\ pc'["run"] = "next" /\ limit' = limit
  BY OnlyThis DEF AttemptFails, AfterAttempt, Actor, EnvStill
<1>9. QED
  BY <1>7, <1>8 DEF RetryInv, Others, Actor, Busy

LEMMA RunBound ==
  ASSUME TypeInv, TypeInv', RetryInv, DeadStep("run")
  PROVE  RetryInv'
<1>1. "run" \in Actor /\ pc["run"] \in Busy
  BY DEF Actor, DeadStep, DeadFetch, DeadFetchFails, DeadCompareThrows, DeadDuped,
     DeadNoMatch, DeadAccepted, ServiceAccepts, DeadScrobbled, DeadSubmitFails, Busy
<1>2. CASE DeadFetchFails("run") \/ DeadSubmitFails("run")
  BY <1>1, <1>2, FailedBound DEF DeadFetchFails, DeadSubmitFails
<1>3. CASE ~(DeadFetchFails("run") \/ DeadSubmitFails("run"))
  <2>1. limit' = limit
    BY <1>3 DEF DeadStep, DeadFetch, DeadCompareThrows, DeadDuped, DeadNoMatch,
       DeadAccepted, ServiceAccepts, DeadScrobbled, EnvStill
  <2>2. \/ \E where \in {"next", "off"} : Leave("run", where)
        \/ \E where : Goto("run", where)
        \/ GotHistory("run")
    BY <1>3 DEF DeadStep, DeadFetch, DeadCompareThrows, DeadDuped, DeadNoMatch,
       DeadAccepted, ServiceAccepts, DeadScrobbled, AfterAttempt
  <2>3. /\ Others("run")
        /\ pc'["run"] \in Busy => cur'["run"] = cur["run"] /\ rows'["run"] = rows["run"]
    BY <1>1, <2>2, OnlyThis, GotIt DEF Goto, Busy
  <2>4. RunSteady
    BY <1>1, <2>1, <2>3 DEF RunSteady, RetryInv, Others, Actor
  <2>5. RetriesKept
    <3>1. CASE DeadDuped("run") \/ DeadScrobbled("run")
      <4>1. \A p \in Play : dead'[p] = dead[p] \/ \E I : dead'[p] = Completed(dead[p], I)
        BY <3>1 DEF DeadDuped, DeadScrobbled, Resolve, TypeInv, TypeOK
      <4>2. QED
        BY <4>1, CompletedRetries
    <3>2. CASE UNCHANGED dead
      BY <3>2, SameRetries
    <3>3. QED
      BY <1>3, <3>1, <3>2 DEF DeadStep, DeadFetch, DeadCompareThrows, DeadNoMatch,
         DeadAccepted, ServiceAccepts, RowsStill, dbVars
  <2>6. QED
    BY <2>4, <2>5, KeptBound
<1>4. QED
  BY <1>2, <1>3

(* A run begins, and takes up what is within the limit.                      *)
LEMMA TickBound ==
  ASSUME TypeInv, TypeInv', RetryInv, RunTick
  PROVE  RetryInv'
<1>1. StartRun(DeadLetterRetries) /\ dead' = Requeued(DeadLetterRetries)
  BY DEF RunTick, StartRun
<1>2. \E where \in {"off", "next"} : Goto("run", where)
  BY <1>1 DEF StartRun
<1>3. Others("run") /\ pc'["run"] \notin Busy
  BY <1>2, OnlyThis DEF Actor, Busy
<1>4. RunSteady
  BY <1>1, <1>3 DEF StartRun, RunSteady, RetryInv, Others, Actor
<1>5. QED
  BY <1>1, <1>4, RequeuedRetries, KeptBound

LEMMA TakeBound ==
  ASSUME TypeInv, TypeInv', RetryInv, RunTake
  PROVE  RetryInv'
<1>1. PICK p \in Play : p \in Retriable /\ Hold("run", p)
  BY DEF RunTake, IsOldest
<1>2. /\ Others("run") /\ cur'["run"] = p /\ rows'["run"] = dead[p]
      /\ UNCHANGED <<dead, limit>>
  BY <1>1, HoldsIt DEF RunTake, RowsStill, EnvStill, dbVars, Actor
<1>3. PICK i \in DOMAIN dead[p] : dead[p][i].retries <= limit
  BY <1>1 DEF Retriable
<1>4. Rows(p) # 0 /\ (Rows(p) = 1 => i = 1)
  BY <1>3, RowCount
<1>5. QED
  BY <1>2, <1>3, <1>4 DEF RetryInv, RetriesBounded, Rows, Others, Actor

(* The process dies: nobody works on anything.                               *)
LEMMA CrashBound ==
  ASSUME TypeInv, TypeInv', RetryInv, CrashStep
  PROVE  RetryInv'
<1>1. Reboot
  BY DEF CrashStep, Crash, TornDeadLetter, TornFailure, TornSuccess, TornRetry,
     TornEnqueue
<1>2. RunSteady
  BY <1>1 DEF Reboot, RunSteady, Actor, Busy
<1>3. CASE TornDeadLetter \/ TornFailure
  <2>1. cur["loop"] \in Play /\ AppendDeadRow(cur["loop"])
    BY <1>3 DEF TornDeadLetter, TornFailure, AboutToFail, TypeInv, Holding, Actor, Busy
  <2>2. QED
    BY <1>2, <2>1, GrownBound
<1>4. ASSUME NEW a \in DeadActor, TornRetry(a)
      PROVE  RetryInv'
  <2>1. dead' = [dead EXCEPT ![cur[a]][1].status = "completed"]
    BY <1>4 DEF TornRetry
  <2>2. \A p \in Play : \A i \in DOMAIN dead[p] : dead[p][i] \in DeadRow
    BY ElementOfSeq, LenProperties DEF TypeInv, TypeOK
  <2>3. ASSUME NEW p \in Play
        PROVE  /\ DOMAIN dead'[p] = DOMAIN dead[p]
               /\ \A i \in DOMAIN dead[p] : dead'[p][i].retries = dead[p][i].retries
    <3>1. dead \in [Play -> Seq(DeadRow)]
      BY DEF TypeInv, TypeOK
    <3>2. CASE p # cur[a]
      BY <2>1, <3>1, <3>2
    <3>3. CASE p = cur[a]
      <4>1. dead'[p] = [dead[p] EXCEPT ![1].status = "completed"]
        BY <2>1, <3>1, <3>3
      <4>2. ASSUME NEW i \in DOMAIN dead[p]
            PROVE  dead'[p][i] = IF i = 1 THEN [dead[p][1] EXCEPT !.status = "completed"]
                                 ELSE dead[p][i]
        BY <4>1, <4>2
      <4>3. QED
        BY <2>2, <4>1, <4>2 DEF DeadRow
    <3>4. QED
      BY <3>2, <3>3
  <2>4. QED
    BY <1>2, <2>3, KeptBound DEF RetriesKept
<1>5. CASE UNCHANGED dead
  BY <1>2, <1>5, SameRetries, KeptBound
<1>6. QED
  BY <1>3, <1>4, <1>5 DEF CrashStep, Crash, TornSuccess, TornEnqueue, dbVars

LEMMA UserBound ==
  ASSUME Automatic, TypeInv, TypeInv', RetryInv, UserStep
  PROVE  RetryInv'
<1>1. CASE LoopStart
  <2>1. Others("loop") /\ UNCHANGED <<dead, limit>>
    BY <1>1, OnlyThis DEF LoopStart, EnvStill, RowsStill, dbVars, Actor
  <2>2. QED
    BY <2>1, LoopLeavesRun, SameRetries, KeptBound
<1>2. CASE ApiRemoveAll
  <2>1. UNCHANGED <<pc, cur, rows, limit>>
    BY <1>2 DEF ApiRemoveAll, activity
  <2>2. \A p \in Play : dead'[p] = dead[p] \/ \E I : dead'[p] = Completed(dead[p], I)
    BY <1>2 DEF ApiRemoveAll
  <2>3. QED
    BY <2>1, <2>2, StillSteady, CompletedRetries, KeptBound
<1>3. ASSUME NEW q \in Play, ApiRemove(q)
      PROVE  RetryInv'
  <2>1. UNCHANGED <<pc, cur, rows, limit>>
    BY <1>3 DEF ApiRemove, activity
  <2>2. \A p \in Play : dead'[p] = dead[p] \/ \E I : dead'[p] = Completed(dead[p], I)
    BY <1>3 DEF ApiRemove, Resolve, TypeInv, TypeOK
  <2>3. QED
    BY <2>1, <2>2, StillSteady, CompletedRetries, KeptBound
<1>4. CASE Stop \/ SetMonitoring
  <2>1. UNCHANGED <<pc, cur, rows, limit, dead>>
    BY <1>4 DEF Stop, SetMonitoring, activity, RowsStill, dbVars
  <2>2. QED
    BY <2>1, StillSteady, SameRetries, KeptBound
<1>5. ~ForceRun /\ \A p \in Play : ~ApiRetry(p)
  BY DEF Automatic, ForceRun, ApiRetry, Intervene
<1>6. QED
  BY <1>1, <1>2, <1>3, <1>4, <1>5 DEF UserStep

LEMMA RetryStep ==
  ASSUME Automatic, TypeInv, TypeInv', RetryInv, [Next]_vars
  PROVE  RetryInv'
<1>1. ASSUME UNCHANGED <<pc, cur, rows, limit, dead>>
      PROVE  RetryInv'
  BY <1>1, StillSteady, SameRetries, KeptBound
<1>2. CASE BecomeUnready \/ BecomeReady \/ UNCHANGED vars
           \/ \E p \in Play, l \in Listen : Enqueue(p, l)
  <2>1. UNCHANGED <<pc, cur, rows, limit, dead>>
    BY <1>2 DEF BecomeUnready, BecomeReady, Enqueue, vars, activity, RowsStill, dbVars
  <2>2. QED
    BY <1>1, <2>1
<1>3. CASE RunEnds
  <2>1. Others("run") /\ pc'["run"] \notin Busy /\ UNCHANGED <<dead, limit>>
    BY <1>3, OnlyThis DEF RunEnds, EnvStill, RowsStill, dbVars, Actor, Busy
  <2>2. RunSteady
    BY <2>1 DEF RunSteady, RetryInv, Others, Actor
  <2>3. QED
    BY <2>1, <2>2, SameRetries, KeptBound
<1>4. CASE DeadStep("api")
  BY <1>4 DEF RetryInv, DeadStep, DeadFetch, DeadFetchFails, DeadCompareThrows,
     DeadDuped, DeadNoMatch, DeadAccepted, ServiceAccepts, DeadScrobbled,
     DeadSubmitFails, Busy
<1>5. QED
  BY <1>2, <1>3, <1>4, LoopBound, TickBound, TakeBound, RunBound, UserBound,
     CrashBound DEF Next, RunStep

LEMMA RetryInit == Init => RetryInv
<1> SUFFICES ASSUME Init PROVE RetryInv
  OBVIOUS
<1>1. \A p \in Play : Len(dead[p]) # 1
  BY DEF Init
<1>2. QED
  BY <1>1 DEF Init, RetryInv, RetriesBounded, Actor, Busy

(* A Play that was dead-lettered once is retried automatically until one     *)
(* attempt after the limit, and no more: crashes, stops and removals in      *)
(* between do not reset its count.                                           *)
THEOREM RetriesEnd ==
  ASSUME Automatic
  PROVE  Spec => []RetriesBounded
<1>1. RetryInv => RetriesBounded
  BY DEF RetryInv
<1>2. TypeInv /\ TypeInv' /\ RetryInv /\ [Next]_vars => RetryInv'
  BY RetryStep
<1>3. Spec => []TypeInv
  BY TypeInit, TypeStep, PTL DEF Spec
<1>4. QED
  BY <1>1, <1>2, <1>3, RetryInit, PTL DEF Spec

=============================================================================
