------------------------ MODULE SourcePollingProofs ------------------------
(* What holds of the polling of a Source for every number of activities and  *)
(* overlapping calls, every retry limit and every set of faults.             *)
EXTENDS SourcePolling, TLAPS, FiniteSetTheorems

-----------------------------------------------------------------------------
(* The failures in a row *)

Waiting == {p \in Poll : loop[p] = "backoff"}

\* a loop that waits to try again has found the limit not reached
Counted ==
  /\ Waiting # {} => MaxPollRetries > 0
  /\ pollRetries + Cardinality(Waiting) <= MaxPollRetries + Cardinality(Poll) - 1

LEMMA SomePolls ==
  ASSUME NEW S \in SUBSET Poll
  PROVE  /\ IsFiniteSet(S) /\ Cardinality(S) \in Nat
         /\ Cardinality(S) <= Cardinality(Poll)
         /\ Cardinality(Poll) \in Nat /\ Cardinality(Poll) > 0
BY FS_Subset, FS_CardinalityType, FS_EmptySet, PollingAssumption

(* A step that leaves the count below the limit, or moves no loop into a     *)
(* back-off, or counts a back-off that ends, keeps the bound.                *)
LEMMA CountedBy ==
  ASSUME TypeOK, Counted, pollRetries' \in Nat,
         \/ pollRetries' < MaxPollRetries
         \/ pollRetries' <= pollRetries /\ Waiting' \subseteq Waiting
         \/ \E p \in Waiting : /\ pollRetries' = pollRetries + 1
                               /\ Waiting' \subseteq Waiting \ {p}
  PROVE  Counted' /\ pollRetries' \in 0..(MaxPollRetries + Cardinality(Poll) - 1)
<1>1. Waiting \in SUBSET Poll /\ Waiting' \in SUBSET Poll
  BY DEF Waiting
<1>2. /\ Cardinality(Waiting) \in Nat /\ Cardinality(Waiting') \in Nat
      /\ Cardinality(Waiting') <= Cardinality(Poll)
      /\ Cardinality(Poll) \in Nat /\ IsFiniteSet(Waiting)
      /\ MaxPollRetries \in Nat /\ pollRetries \in Nat
  BY <1>1, SomePolls, PollingAssumption DEF TypeOK
<1>3. /\ pollRetries' + Cardinality(Waiting') <= MaxPollRetries + Cardinality(Poll) - 1
      /\ Waiting' # {} => MaxPollRetries > 0
  <2>1. CASE pollRetries' < MaxPollRetries
    BY <1>2, <2>1
  <2>2. CASE pollRetries' <= pollRetries /\ Waiting' \subseteq Waiting
    <3>1. Cardinality(Waiting') <= Cardinality(Waiting)
      BY <1>2, <2>2, FS_Subset
    <3>2. QED
      BY <1>2, <2>2, <3>1 DEF Counted
  <2>3. ASSUME NEW p \in Waiting, pollRetries' = pollRetries + 1,
               Waiting' \subseteq Waiting \ {p}
        PROVE  /\ pollRetries' + Cardinality(Waiting') <= MaxPollRetries + Cardinality(Poll) - 1
               /\ Waiting' # {} => MaxPollRetries > 0
    <3>1. /\ Cardinality(Waiting \ {p}) = Cardinality(Waiting) - 1
          /\ IsFiniteSet(Waiting \ {p})
      BY <1>2, <2>3, FS_RemoveElement
    <3>2. Cardinality(Waiting') <= Cardinality(Waiting \ {p})
      BY <2>3, <3>1, FS_Subset
    <3>3. QED
      BY <1>2, <2>3, <3>1, <3>2 DEF Counted
  <2>4. QED
    BY <2>1, <2>2, <2>3
<1>4. QED
  BY <1>2, <1>3 DEF Counted

LEMMA CountedStep ==
  ASSUME TypeOK, Counted, Next
  PROVE  Counted' /\ pollRetries' \in 0..(MaxPollRetries + Cardinality(Poll) - 1)
<1> DEFINE Kept == Counted' /\ pollRetries' \in 0..(MaxPollRetries + Cardinality(Poll) - 1)
<1>1. pollRetries \in Nat /\ MaxPollRetries \in Nat
  BY PollingAssumption DEF TypeOK
<1>2. Waiting' = {p \in Poll : loop'[p] = "backoff"}
  BY DEF Waiting
<1>3. ASSUME UNCHANGED <<loop, pollRetries>>
      PROVE  Kept
  BY <1>1, <1>2, <1>3, CountedBy DEF Waiting
<1>4. ASSUME NEW p \in Poll, NEW s, loop' = [loop EXCEPT ![p] = s], UNCHANGED pollRetries,
             s = "backoff" => pollRetries < MaxPollRetries
      PROVE  Kept
  <2>1. s # "backoff" => Waiting' \subseteq Waiting
    BY <1>2, <1>4 DEF Waiting, TypeOK
  <2>2. QED
    BY <1>1, <1>4, <2>1, CountedBy
<1>5. ASSUME NEW c \in Caller, NEW p \in Poll, Start(c, p)
      PROVE  Kept
  <2>1. pollRetries' = 0
    BY <1>5 DEF Start
  <2>2. PICK s : loop' = [loop EXCEPT ![p] = s] /\ (s = "backoff" => MaxPollRetries > 0)
    BY <1>5 DEF Start
  <2>3. s # "backoff" => Waiting' \subseteq Waiting
    BY <1>2, <2>2 DEF Waiting, TypeOK
  <2>4. QED
    BY <1>1, <2>1, <2>2, <2>3, CountedBy
<1>6. ASSUME NEW p \in Poll, BackoffEnds(p)
      PROVE  Kept
  <2>1. pollRetries' = pollRetries + 1 /\ p \in Waiting
    BY <1>6 DEF BackoffEnds, Waiting
  <2>2. PICK s : /\ loop' = [loop EXCEPT ![p] = s]
                 /\ s = "backoff" => pollRetries + 1 < MaxPollRetries
    BY <1>6 DEF BackoffEnds, EnterLoop
  <2>3. s # "backoff" => Waiting' \subseteq Waiting \ {p}
    BY <1>2, <2>2 DEF Waiting, TypeOK
  <2>4. QED
    BY <1>1, <2>1, <2>2, <2>3, CountedBy
<1>7. ASSUME NEW p \in Poll, Slept(p)
      PROVE  Kept
  <2>1. PICK s \in {"stopped", "fetching"} : loop' = [loop EXCEPT ![p] = s]
    BY <1>7 DEF Slept
  <2>2. Waiting' \subseteq Waiting
    BY <1>2, <2>1 DEF Waiting, TypeOK
  <2>3. pollRetries' \in Nat /\ pollRetries' <= pollRetries
    BY <1>1, <1>7 DEF Slept
  <2>4. QED
    BY <2>2, <2>3, CountedBy
<1>8. ASSUME NEW p \in Poll, \E o \in InitOutcome : LoopInitialized(p, o)
      PROVE  Kept
  BY <1>4, <1>8 DEF LoopInitialized, AfterFailure, fields
<1>9. ASSUME NEW p \in Poll, Notified(p) \/ Fetched(p) \/ Ended(p)
      PROVE  Kept
  BY <1>4, <1>9 DEF Notified, Fetched, Ended, fields
<1>10. ASSUME NEW p \in Poll, \E kind \in FaultKinds : FetchFails(p, kind)
       PROVE  Kept
  BY <1>4, <1>10 DEF FetchFails, AfterFailure, fields
<1>11. ASSUME NEW p \in Poll, LoopFailed(p) \/ BacklogEnds(p) \/ BacklogFails(p)
       PROVE  Kept
  BY <1>3, <1>11 DEF LoopFailed, BacklogEnds, BacklogFails, fields
<1>12. CASE Heartbeat
  BY <1>3, <1>12 DEF Heartbeat, HeartbeatPrepares, HeartbeatPolls, HeartbeatPrepared,
     fields, tasks
<1>13. ASSUME NEW c \in Caller,
              \/ StopAcknowledged(c) \/ StopTimesOut(c) \/ Refused(c)
              \/ RequestArrives(c) \/ Authenticated(c)
              \/ \E o \in InitOutcome : Initialized(c, o)
       PROVE  Kept
  BY <1>3, <1>13 DEF StopAcknowledged, StopTimesOut, Refused, RequestArrives,
     Authenticated, Initialized, fields, tasks
<1>14. QED
  BY <1>5, <1>6, <1>7, <1>8, <1>9, <1>10, <1>11, <1>12, <1>13
     DEF Next, GoesOn, RunsLoop, Caller

-----------------------------------------------------------------------------
(* Types *)

LEMMA HappensTyped ==
  ASSUME TypeOK, NEW kind, Happens(kind)
  PROVE  interventions' \in 0..MaxInterventions
BY PollingAssumption DEF TypeOK, Happens

LEMMA OutcomeTyped ==
  ASSUME TypeOK, NEW o, NEW force, Outcome(o, force)
  PROVE  /\ ready' \in BOOLEAN /\ locked' \in BOOLEAN /\ initController' = None
         /\ interventions' \in 0..MaxInterventions
<1>1. \/ UNCHANGED interventions
      \/ \E kind \in FaultKinds : Happens(kind)
  BY Zenon DEF Outcome, FaultKinds
<1>2. interventions' \in 0..MaxInterventions
  BY <1>1, HappensTyped DEF TypeOK
<1>3. /\ ready' = TRUE \/ ready' = FALSE \/ ready' = ready
      /\ locked' = TRUE \/ locked' = FALSE \/ locked' = locked
  BY Zenon DEF Outcome
<1>4. ready' \in BOOLEAN /\ locked' \in BOOLEAN
  BY <1>3 DEF TypeOK
<1>5. QED
  BY <1>2, <1>4 DEF Outcome

LEMMA CallTyped ==
  ASSUME TypeOK, NEW c \in Caller, NEW force \in BOOLEAN, CallPoll(c, force)
  PROVE  /\ at' \in [Caller -> CallerStage] /\ raced' \in BOOLEAN
         /\ initController' \in Caller \cup Poll \cup {None}
<1>1. CASE AlreadyPolling
  BY <1>1 DEF TypeOK, CallPoll, CallerStage
<1>2. CASE ~AlreadyPolling
  <2>1. raced' = (raced \/ BeingStarted(c))
    BY <1>2 DEF CallPoll
  <2>2. raced' \in BOOLEAN
    BY <2>1, Zenon
  <2>3. PICK s \in CallerStage : at' = [at EXCEPT ![c] = s]
    BY <1>2 DEF CallPoll, CallerStage
  <2>4. initController' \in {c, initController}
    BY <1>2 DEF CallPoll
  <2>5. QED
    BY <2>2, <2>3, <2>4 DEF TypeOK
<1>3. QED
  BY <1>1, <1>2

LEMMA TypedStep ==
  ASSUME TypeOK, Next, pollRetries' \in 0..(MaxPollRetries + Cardinality(Poll) - 1)
  PROVE  TypeOK'
<1> USE PollingAssumption DEF TypeOK, fields, tasks, auth, others
<1>1. ASSUME NEW p \in Poll, RunsLoop(p)
      PROVE  TypeOK'
  <2>1. ASSUME NEW o \in InitOutcome, LoopInitialized(p, o)
        PROVE  TypeOK'
    BY <2>1, OutcomeTyped DEF LoopInitialized, AfterFailure, LoopStage
  <2>2. CASE Notified(p) \/ Fetched(p) \/ Slept(p) \/ LoopFailed(p)
    BY <2>2 DEF Notified, Fetched, Slept, LoopFailed, LoopStage
  <2>3. CASE BackoffEnds(p)
    BY <2>3 DEF BackoffEnds, EnterLoop, LoopStage
  <2>4. ASSUME NEW kind \in FaultKinds, FetchFails(p, kind)
        PROVE  TypeOK'
    <3>1. interventions' \in 0..MaxInterventions
      BY <2>4, HappensTyped DEF FetchFails
    <3>4. \/ ready' = FALSE /\ locked' = TRUE
          \/ ready' = ready /\ locked' = locked
      BY <2>4 DEF FetchFails
    <3>2. loop' \in [Poll -> LoopStage]
      BY <2>4 DEF FetchFails, AfterFailure, LoopStage
    <3>3. QED
      BY <2>4, <3>1, <3>2, <3>4 DEF FetchFails
  <2>5. QED
    BY <1>1, <2>1, <2>2, <2>3, <2>4 DEF RunsLoop
<1>2. ASSUME NEW p \in Poll, BacklogEnds(p) \/ BacklogFails(p) \/ Ended(p)
      PROVE  TypeOK'
  <2>1. CASE BacklogEnds(p) \/ BacklogFails(p)
    BY <2>1 DEF BacklogEnds, BacklogFails, Happens, BacklogStage
  <2>2. CASE Ended(p)
    <3>1. crashed' \in BOOLEAN
      BY <2>2, Zenon DEF Ended
    <3>2. QED
      BY <2>2, <3>1 DEF Ended, FlagAfter, BacklogStage, LoopStage
  <2>3. QED
    BY <1>2, <2>1, <2>2
<1>3. ASSUME NEW c \in Caller, NEW p \in Poll, Start(c, p)
      PROVE  TypeOK'
  BY <1>3 DEF Start, CallerStage, LoopStage, BacklogStage
<1>4. ASSUME NEW c \in Caller, NEW o \in InitOutcome, Initialized(c, o)
      PROVE  TypeOK'
  BY <1>4, OutcomeTyped DEF Initialized, CallerStage
<1>5. ASSUME NEW c \in Caller, StopAcknowledged(c)
      PROVE  TypeOK'
  BY <1>5, CallTyped DEF StopAcknowledged
<1>6. ASSUME NEW c \in Caller, StopTimesOut(c) \/ Refused(c)
      PROVE  TypeOK'
  BY <1>6 DEF StopTimesOut, Refused, Happens, CallerStage
<1>7. ASSUME NEW c \in Request, RequestArrives(c)
      PROVE  TypeOK'
  <2>1. interventions' \in 0..MaxInterventions /\ c \in Caller
    BY <1>7, HappensTyped DEF RequestArrives, Caller
  <2>2. CASE polling
    <3>1. at' = [at EXCEPT ![c] = "stopping"] /\ aborted' = aborted \cup {abortController}
          /\ abortController \in Poll /\ UNCHANGED <<initController, raced>>
      BY <1>7, <2>2 DEF RequestArrives
    <3>2. QED
      BY <1>7, <2>1, <3>1 DEF RequestArrives, CallerStage
  <2>3. CASE ~polling
    <3>1. PICK force \in BOOLEAN : CallPoll(c, force)
      BY <1>7, <2>3 DEF RequestArrives
    <3>2. aborted' = aborted
      BY <1>7, <2>3 DEF RequestArrives
    <3>3. QED
      BY <1>7, <2>1, <3>1, <3>2, CallTyped DEF RequestArrives
  <2>4. QED
    BY <2>2, <2>3
<1>8. ASSUME NEW c \in Request, Authenticated(c)
      PROVE  TypeOK'
  <2>1. interventions' \in 0..MaxInterventions /\ c \in Caller
    BY <1>8, HappensTyped DEF Authenticated, Caller
  <2>2. CallPoll(c, FALSE)
    BY <1>8 DEF Authenticated
  <2>3. /\ at' \in [Caller -> CallerStage] /\ raced' \in BOOLEAN
        /\ initController' \in Caller \cup Poll \cup {None}
    BY <2>1, <2>2, CallTyped
  <2>4. QED
    BY <1>8, <2>1, <2>3 DEF Authenticated
<1>9. "heartbeat" \in Caller
  BY DEF Caller
<1>10. CASE HeartbeatPrepares
  BY <1>9, <1>10 DEF HeartbeatPrepares, CallerStage
<1>11. CASE HeartbeatPolls
  BY <1>9, <1>11, CallTyped DEF HeartbeatPolls
<1>12. ASSUME NEW o \in InitOutcome, HeartbeatPrepared(o)
       PROVE  TypeOK'
  <2>1. raced' \in BOOLEAN
    BY <1>12, Zenon DEF HeartbeatPrepared
  <2>2. at' \in [Caller -> CallerStage]
    BY <1>9, <1>12 DEF HeartbeatPrepared, CallerStage
  <2>3. QED
    BY <1>12, <2>1, <2>2, OutcomeTyped DEF HeartbeatPrepared
<1>13. QED
  BY <1>1, <1>2, <1>3, <1>4, <1>5, <1>6, <1>7, <1>8, <1>10, <1>11, <1>12
     DEF Next, GoesOn, Heartbeat

-----------------------------------------------------------------------------
(* What a call of poll() may rely on while nobody has passed the check early *)

Starting == {c \in Caller : at[c] \in {"initializing", "forcing", "checking"}}

NobodyPolls == \A p \in Poll : ~Alive(p)

\* one call at most is on its way, then there is no activity yet; and the one
\* activity there may be is in the field, with the flag once it has set it
Unraced ==
  /\ \A c, d \in Starting : c = d
  /\ Starting # {} => NobodyPolls
  /\ \A p \in Poll : Alive(p) =>
       /\ abortController = p /\ (p \in flagged => polling)
       /\ \A q \in Poll : Alive(q) => q = p

\* a loop that fetches or sleeps has set the flag
Tidy == \A p \in Poll : loop[p] \in {"fetching", "sleeping"} => p \in flagged

PollInv ==
  /\ TypeOK /\ Counted /\ Tidy /\ FlagIsBacked /\ EndsByRaceOnly
  /\ ~raced => Unraced

(* The step of caller c that passes the check of the flag.                   *)
Passes(c) ==
  /\ ~polling /\ raced' = (raced \/ BeingStarted(c))
  /\ \A d \in Caller \ {c} : at'[d] = at[d]

(* A step of a caller that begins no start of an activity.                   *)
Settles ==
  /\ UNCHANGED raced
  /\ \A c \in Caller : c \in Starting' => c \in Starting

LEMMA CallKinds ==
  ASSUME TypeOK, NEW c \in Caller, NEW force \in BOOLEAN, CallPoll(c, force)
  PROVE  Passes(c) \/ Settles
<1>1. CASE AlreadyPolling
  BY <1>1 DEF CallPoll, Settles, Starting, TypeOK
<1>2. CASE ~AlreadyPolling
  <2>1. raced' = (raced \/ BeingStarted(c))
    BY <1>2 DEF CallPoll
  <2>2. PICK s \in CallerStage : at' = [at EXCEPT ![c] = s]
    BY <1>2 DEF CallPoll, CallerStage
  <2>3. \A d \in Caller \ {c} : at'[d] = at[d]
    BY <2>2 DEF TypeOK
  <2>4. QED
    BY <1>2, <2>1, <2>3, Zenon DEF Passes, AlreadyPolling
<1>3. QED
  BY <1>1, <1>2

(* Every step of a caller is one of these, but the start of an activity.     *)
LEMMA CallerKinds ==
  ASSUME TypeOK,
         \/ Heartbeat
         \/ \E c \in Caller : \/ StopAcknowledged(c) \/ StopTimesOut(c) \/ Refused(c)
                              \/ \E o \in InitOutcome : Initialized(c, o)
         \/ \E c \in Request : RequestArrives(c) \/ Authenticated(c)
  PROVE  /\ UNCHANGED <<loop, flagged, fields, crashed>>
         /\ Settles \/ \E c \in Caller : Passes(c)
<1> USE DEF fields, tasks, others
<1>1. ASSUME NEW c \in Caller, StopAcknowledged(c)
      PROVE  /\ UNCHANGED <<loop, flagged, fields, crashed>>
             /\ Settles \/ \E d \in Caller : Passes(d)
  <2>1. PICK force \in BOOLEAN : CallPoll(c, force)
    BY <1>1 DEF StopAcknowledged
  <2>2. UNCHANGED <<loop, flagged, fields, crashed>>
    BY <1>1 DEF StopAcknowledged
  <2>3. QED
    BY <2>1, <2>2, CallKinds
<1>2. ASSUME NEW c \in Caller, StopTimesOut(c) \/ Refused(c)
      PROVE  UNCHANGED <<loop, flagged, fields, crashed>> /\ Settles
  BY <1>2 DEF StopTimesOut, Refused, Settles, Starting, TypeOK
<1>3. ASSUME NEW c \in Caller, NEW o \in InitOutcome, Initialized(c, o)
      PROVE  UNCHANGED <<loop, flagged, fields, crashed>> /\ Settles
  BY <1>3 DEF Initialized, Settles, Starting, TypeOK
<1>4. ASSUME NEW c \in Request, RequestArrives(c)
      PROVE  /\ UNCHANGED <<loop, flagged, fields, crashed>>
             /\ Settles \/ \E d \in Caller : Passes(d)
  <2>1. UNCHANGED <<loop, flagged, fields, crashed>> /\ c \in Caller
    BY <1>4 DEF RequestArrives, Caller
  <2>2. CASE polling
    <3>1. at' = [at EXCEPT ![c] = "stopping"] /\ raced' = raced
      BY <1>4, <2>2 DEF RequestArrives
    <3>2. QED
      BY <2>1, <3>1 DEF Settles, Starting, TypeOK
  <2>3. CASE ~polling
    <3>1. PICK force \in BOOLEAN : CallPoll(c, force)
      BY <1>4, <2>3 DEF RequestArrives
    <3>2. QED
      BY <2>1, <3>1, CallKinds
  <2>4. QED
    BY <2>2, <2>3
<1>5. ASSUME NEW c \in Request, Authenticated(c)
      PROVE  /\ UNCHANGED <<loop, flagged, fields, crashed>>
             /\ Settles \/ \E d \in Caller : Passes(d)
  <2>1. CallPoll(c, FALSE) /\ c \in Caller
    BY <1>5 DEF Authenticated, Caller
  <2>2. UNCHANGED <<loop, flagged, fields, crashed>>
    BY <1>5 DEF Authenticated
  <2>3. QED
    BY <2>1, <2>2, CallKinds
<1>6. "heartbeat" \in Caller
  BY DEF Caller
<1>7. CASE HeartbeatPrepares
  BY <1>6, <1>7 DEF HeartbeatPrepares, Settles, Starting, TypeOK
<1>8. CASE HeartbeatPolls
  BY <1>6, <1>8, CallKinds DEF HeartbeatPolls
<1>9. ASSUME NEW o \in InitOutcome, HeartbeatPrepared(o)
      PROVE  /\ UNCHANGED <<loop, flagged, fields, crashed>>
             /\ Settles \/ \E d \in Caller : Passes(d)
  <2>1. UNCHANGED <<loop, flagged, fields, crashed>>
    BY <1>9 DEF HeartbeatPrepared
  <2>2. CASE o = "ready" /\ ~polling
    <3>1. raced' = (raced \/ BeingStarted("heartbeat"))
      BY <1>9, <2>2 DEF HeartbeatPrepared
    <3>2. \A d \in Caller \ {"heartbeat"} : at'[d] = at[d]
      BY <1>9, <2>2 DEF HeartbeatPrepared, TypeOK
    <3>3. QED
      BY <1>6, <2>1, <2>2, <3>1, <3>2, Zenon DEF Passes
  <2>3. CASE ~(o = "ready" /\ ~polling)
    <3>1. at' = [at EXCEPT !["heartbeat"] = "idle"] /\ raced' = raced
      BY <1>9, <2>3 DEF HeartbeatPrepared
    <3>2. QED
      BY <1>6, <2>1, <3>1 DEF Settles, Starting, TypeOK
  <2>4. QED
    BY <2>2, <2>3
<1>10. QED
  BY <1>1, <1>2, <1>3, <1>4, <1>5, <1>7, <1>8, <1>9 DEF Heartbeat

(* A step of an activity that goes on, without a word about the flag.        *)
Moves(p) ==
  /\ Alive(p)
  /\ \E s \in LoopStage \ {"off"} :
       /\ loop' = [loop EXCEPT ![p] = s]
       /\ s \in {"fetching", "sleeping"} => p \in flagged
  /\ UNCHANGED <<flagged, polling, abortController, at, crashed, raced>>

LEMMA ActivityKinds ==
  ASSUME TypeOK, Tidy, NEW p \in Poll, RunsLoop(p) \/ BacklogEnds(p) \/ BacklogFails(p)
  PROVE  \/ Notified(p) \/ Moves(p)
         \/ UNCHANGED <<loop, flagged, polling, abortController, at, crashed, raced>>
<1> USE DEF TypeOK, fields, others, LoopStage, Alive, Moves
<1>1. ASSUME NEW o \in InitOutcome, LoopInitialized(p, o)
      PROVE  Moves(p)
  <2>1. PICK s \in {"backoff", "failed", "stopped", "notifying"} :
          loop' = [loop EXCEPT ![p] = s]
    BY <1>1 DEF LoopInitialized, AfterFailure
  <2>2. QED
    BY <1>1, <2>1 DEF LoopInitialized
<1>2. CASE Fetched(p)
  BY <1>2 DEF Fetched, Tidy
<1>3. CASE Slept(p)
  BY <1>3 DEF Slept, Tidy
<1>4. CASE BackoffEnds(p)
  BY <1>4 DEF BackoffEnds, EnterLoop
<1>5. ASSUME NEW kind \in FaultKinds, FetchFails(p, kind)
      PROVE  Moves(p)
  <2>1. PICK s \in {"backoff", "failed", "stopped"} : loop' = [loop EXCEPT ![p] = s]
    BY <1>5 DEF FetchFails, AfterFailure
  <2>2. QED
    BY <1>5, <2>1 DEF FetchFails
<1>6. CASE LoopFailed(p) \/ BacklogEnds(p) \/ BacklogFails(p)
  BY <1>6 DEF LoopFailed, BacklogEnds, BacklogFails
<1>7. QED
  BY <1>1, <1>2, <1>3, <1>4, <1>5, <1>6 DEF RunsLoop

LEMMA UnracedStep ==
  ASSUME PollInv, Next
  PROVE  Tidy' /\ FlagIsBacked' /\ EndsByRaceOnly' /\ (~raced' => Unraced')
<1> DEFINE Kept == Tidy' /\ FlagIsBacked' /\ EndsByRaceOnly' /\ (~raced' => Unraced')
<1> USE DEF PollInv, TypeOK, Unraced, Tidy, FlagIsBacked, EndsByRaceOnly, Alive,
            NobodyPolls
<1>1. ASSUME UNCHANGED <<loop, flagged, fields, crashed>>, Settles
      PROVE  Kept
  <2>1. Starting' \subseteq Starting
    BY <1>1 DEF Settles, Starting
  <2>2. UNCHANGED <<loop, flagged, polling, abortController, crashed, raced>>
    BY <1>1 DEF fields, Settles
  <2>3. QED
    BY <2>1, <2>2
<1>2. ASSUME UNCHANGED <<loop, flagged, fields, crashed>>, NEW c \in Caller, Passes(c)
      PROVE  Kept
  <2>1. Tidy' /\ FlagIsBacked' /\ EndsByRaceOnly'
    BY <1>2 DEF fields, Passes
  <2>2. ASSUME ~raced'
        PROVE  Unraced'
    <3>1. ~raced /\ ~BeingStarted(c) /\ ~polling
      BY <1>2, <2>2 DEF Passes
    <3>2. NobodyPolls
      BY <3>1 DEF BeingStarted
    <3>3. \A d \in Starting' : d = c
      BY <1>2, <3>1 DEF BeingStarted, Passes, Starting
    <3>4. QED
      BY <1>2, <3>2, <3>3 DEF fields
  <2>3. QED
    BY <2>1, <2>2
<1>3. ASSUME NEW c \in Caller, NEW p \in Poll, Start(c, p)
      PROVE  Kept
  <2>1. PICK s \in LoopStage \ {"off", "fetching", "sleeping"} :
          loop' = [loop EXCEPT ![p] = s]
    BY <1>3 DEF Start, LoopStage
  <2>2. /\ abortController' = p /\ flagged' = flagged \ {p}
        /\ UNCHANGED <<polling, crashed, raced>>
        /\ at' = [at EXCEPT ![c] = "idle"] /\ ~Alive(p) /\ c \in Starting
    BY <1>3 DEF Start, Starting
  <2>3. Tidy' /\ FlagIsBacked' /\ EndsByRaceOnly'
    BY <2>1, <2>2
  <2>4. ASSUME ~raced
        PROVE  Unraced'
    <3>1. NobodyPolls /\ Starting = {c}
      BY <2>2, <2>4
    <3>2. Starting' = {}
      BY <2>2, <3>1 DEF Starting
    <3>3. QED
      BY <2>1, <2>2, <3>1, <3>2
  <2>5. QED
    BY <2>2, <2>3, <2>4
<1>4. ASSUME NEW p \in Poll, Moves(p)
      PROVE  Kept
  <2>1. Starting' = Starting
    BY <1>4 DEF Moves, Starting
  <2>2. QED
    BY <1>4, <2>1 DEF Moves
<1>5. ASSUME NEW p \in Poll, Notified(p)
      PROVE  Kept
  <2>1. Starting' = Starting
    BY <1>5 DEF Notified, Starting
  <2>2. QED
    BY <1>5, <2>1 DEF Notified, others
<1>6. ASSUME NEW p \in Poll, Ended(p)
      PROVE  Kept
  <2>1. Starting' = Starting /\ Alive(p) /\ raced' = raced /\ polling' = FALSE
    BY <1>6 DEF Ended, Starting, Over, FlagAfter
  <2>2. Tidy' /\ FlagIsBacked'
    BY <1>6, <2>1 DEF Ended
  <2>3. raced \/ Unraced'
    BY <1>6, <2>1 DEF Ended
  <2>4. crashed' => crashed \/ abortController = None
    BY <1>6 DEF Ended
  <2>5. EndsByRaceOnly'
    BY <2>1, <2>4, PollingAssumption
  <2>6. QED
    BY <2>1, <2>2, <2>3, <2>5
<1>7. ASSUME UNCHANGED <<loop, flagged, polling, abortController, at, crashed, raced>>
      PROVE  Kept
  <2>1. Starting' = Starting
    BY <1>7 DEF Starting
  <2>2. QED
    BY <1>7, <2>1
<1>8. ASSUME NEW p \in Poll, RunsLoop(p) \/ BacklogEnds(p) \/ BacklogFails(p)
      PROVE  Kept
  BY <1>4, <1>5, <1>7, <1>8, ActivityKinds
<1>9. QED
  BY <1>1, <1>2, <1>3, <1>6, <1>8, CallerKinds DEF Next, GoesOn

(* Whoever starts, stops and retries the polling, in whatever order: the     *)
(* retries stay within the limit, the flag never outlives the activities,    *)
(* and unless a call passed the check of the flag while polling was being    *)
(* started, there is one activity, a stop reaches it, its flag is set while  *)
(* it polls, and its end is handled (poll, startPolling, tryStopPolling,     *)
(* heartbeatTask).                                                           *)
THEOREM PollingAlwaysKnown == Spec => []PollingIsKnown
<1>1. Init => PollInv
  <2>1. ASSUME Init
        PROVE  Waiting = {} /\ Starting = {} /\ NobodyPolls
    BY <2>1 DEF Init, Waiting, Starting, NobodyPolls, Alive
  <2>2. /\ Cardinality({}) = 0 /\ Cardinality(Poll) \in Nat /\ Cardinality(Poll) > 0
        /\ MaxPollRetries \in Nat
    BY FS_EmptySet, SomePolls, PollingAssumption
  <2>3. ASSUME Init
        PROVE  TypeOK
    <3>1. 0 \in 0..(MaxPollRetries + Cardinality(Poll) - 1) /\ 0 \in 0..MaxInterventions
      BY <2>2, PollingAssumption
    <3>2. QED
      BY <2>3, <3>1 DEF Init, TypeOK, LoopStage, BacklogStage, CallerStage
  <2>4. ASSUME Init
        PROVE  Counted
    <3>1. Waiting = {} /\ pollRetries = 0
      BY <2>1, <2>4 DEF Init
    <3>2. Cardinality(Waiting) = 0
      BY <2>2, <3>1
    <3>3. QED
      BY <2>2, <3>1, <3>2 DEF Counted
  <2>5. ASSUME Init
        PROVE  Tidy /\ FlagIsBacked /\ EndsByRaceOnly /\ Unraced
    BY <2>1, <2>5 DEF Init, Tidy, FlagIsBacked, EndsByRaceOnly, Unraced, NobodyPolls
  <2>6. QED
    BY <2>3, <2>4, <2>5 DEF PollInv
<1>2. PollInv /\ [Next]_vars => PollInv'
  <2>1. ASSUME PollInv, Next
        PROVE  PollInv'
    <3>1. Counted' /\ pollRetries' \in 0..(MaxPollRetries + Cardinality(Poll) - 1)
      BY <2>1, CountedStep DEF PollInv
    <3>2. TypeOK'
      BY <2>1, <3>1, TypedStep DEF PollInv
    <3>3. QED
      BY <2>1, <3>1, <3>2, UnracedStep DEF PollInv
  <2>2. ASSUME PollInv, UNCHANGED vars
        PROVE  PollInv'
    BY <2>2 DEF PollInv, TypeOK, Counted, Waiting, Tidy, FlagIsBacked, EndsByRaceOnly,
       Unraced, Starting, NobodyPolls, Alive, vars, auth, fields, tasks, others
  <2>3. QED
    BY <2>1, <2>2
<1>3. PollInv => PollingIsKnown
  <2>1. PollInv => OneReachablePoll /\ PollingIsFlagged
    BY DEF PollInv, OneReachablePoll, PollingIsFlagged, Unraced, Tidy, Alive
  <2>2. QED
    BY <2>1 DEF PollInv, PollingIsKnown
<1>4. QED
  BY <1>1, <1>2, <1>3, PTL DEF Spec
=============================================================================
