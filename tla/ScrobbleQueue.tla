--------------------------- MODULE ScrobbleQueue ---------------------------
(***************************************************************************)
(* The scrobbling queues of one Client (AbstractScrobbleClient).           *)
(*                                                                         *)
(* A Play accepted from a Source becomes a row of "plays" with a row of    *)
(* "play_queue_states" in the ingress queue.  The processing loop takes    *)
(* the oldest queued row, fetches the service's history, compares, submits *)
(* and records the outcome; what it cannot submit gets a row in the dead   *)
(* queue, which a scheduled run (and the REST API, one Play at a time)     *)
(* retries.  The loop, the run and an API retry are three asynchronous     *)
(* activities over the same rows and the same in-memory counters.          *)
(*                                                                         *)
(* The database driver is synchronous, so the statements between two waits *)
(* for the network or a timer are one action; only the death of the        *)
(* process can separate them, and the Torn actions are those deaths.       *)
(***************************************************************************)
EXTENDS Integers, Sequences, FiniteSets

CONSTANTS
  MaxPlays,           \* bound: rows the Sources ever create
  Listen,             \* the distinct listens a row may report
  Repeats,            \* <<l, m>>: m is the same track, played right after l
  RefreshEnabled,     \* the upstreamRefresh.refreshEnabled option
  MaxRequestRetries,  \* option: failures in a row before the loop stops
  DeadLetterRetries,  \* option: automatic retries of a dead Play
  ForcedRetries,      \* retry limit of PUT /api/dead (1000 in the code)
  RetryCap,           \* bound: a retry counter stops here
  Faults,             \* which failures and interventions may happen
  MaxInterventions    \* bound: how many interventions and crashes happen

FaultKinds == {"reject", "showstop", "lostReply", "history",
               "abort", "monitor", "unready", "retryApi", "removeApi",
               "forceRun", "crash"}

Play == 1..MaxPlays     \* row ids; they are also the order of seenAt

ASSUME QueueAssumption ==
  /\ MaxPlays \in Nat \ {0}
  /\ Listen # {}
  /\ Repeats \subseteq Listen \X Listen
  /\ RefreshEnabled \in BOOLEAN
  /\ MaxRequestRetries \in Nat
  /\ DeadLetterRetries \in Nat
  /\ ForcedRetries \in Nat
  /\ RetryCap \in Nat
  /\ DeadLetterRetries + 1 < RetryCap /\ ForcedRetries + 1 < RetryCap
  /\ Faults \subseteq FaultKinds
  /\ MaxInterventions \in Nat

VARIABLES
  \* the database
  play,               \* plays.state, "absent" before the row exists
  listen,             \* what the row reports
  ingress,            \* status of the row's ingress queue state
  ingressError,       \* why it failed
  dead,               \* the row's dead queue states, oldest first
  \* the service
  history,            \* the listens the service's history shows
  sent,               \* submissions of each row it accepted; 2 is "several"
  \* memory of the client
  queuedLength, deadLetterLength, deadLetterQueued,
  cache,              \* the cached answer of the history request
  scrobbleRetries, aborted, monitoring, ready,
  \* the activities
  pc, cur, seen, rows, limit,
  interventions

dbVars      == <<play, listen, ingress, ingressError, dead>>
serviceVars == <<history, sent>>
deadCounts  == <<deadLetterLength, deadLetterQueued>>
control     == <<scrobbleRetries, aborted, monitoring, ready>>
activity    == <<pc, cur, seen, rows, limit>>
counters    == <<queuedLength, deadLetterLength, deadLetterQueued>>
vars == <<dbVars, serviceVars, counters, cache, control, activity,
          interventions>>

\* what the retries of dead Plays leave alone
ingressSide == <<listen, ingress, ingressError, queuedLength>>

RowsStill == UNCHANGED <<dbVars, counters>>
EnvStill  == UNCHANGED <<serviceVars, limit, interventions>>

Actor     == {"loop", "run", "api"}
DeadActor == {"run", "api"}

PlayState   == {"absent", "queued", "scrobbled", "duped", "failed"}
QueueStatus == {"queued", "completed", "failed"}
Reason      == {"none", "monitoring", "aborted", "compare", "history",
                "submit"}
DeadRow     == [status : QueueStatus, retries : Nat]
Cache       == [kind : {"none", "error", "plays"}, listens : SUBSET Listen]
LoopPC      == {"idle", "fetch", "compare", "submit", "accepted",
                "backoff", "stopped"}
DeadPC      == {"off", "next", "fetch", "compare", "submit", "accepted"}

NoCache    == [kind |-> "none", listens |-> {}]
ErrorCache == [kind |-> "error", listens |-> {}]

TypeOK ==
  /\ play \in [Play -> PlayState]
  /\ listen \in [Play -> Listen]
  /\ ingress \in [Play -> QueueStatus \cup {"none"}]
  /\ ingressError \in [Play -> Reason]
  /\ dead \in [Play -> Seq(DeadRow)]
  /\ history \subseteq Listen
  /\ sent \in [Play -> 0..2]
  /\ queuedLength \in Int
  /\ deadLetterLength \in Int
  /\ deadLetterQueued \in Int
  /\ cache \in Cache
  /\ scrobbleRetries \in 0..MaxRequestRetries
  /\ aborted \in BOOLEAN
  /\ monitoring \in BOOLEAN
  /\ ready \in BOOLEAN
  /\ pc \in [Actor -> LoopPC \cup DeadPC]
  /\ cur \in [Actor -> Play \cup {0}]
  /\ seen \in [Actor -> SUBSET Listen]
  /\ rows \in [Actor -> Seq(DeadRow)]
  /\ limit \in Nat
  /\ interventions \in 0..MaxInterventions

Init ==
  /\ play = [p \in Play |-> "absent"]
  /\ listen = [p \in Play |-> CHOOSE l \in Listen : TRUE]
  /\ ingress = [p \in Play |-> "none"]
  /\ ingressError = [p \in Play |-> "none"]
  /\ dead = [p \in Play |-> <<>>]
  /\ history \in SUBSET Listen       \* scrobbled earlier, or by another app
  /\ sent = [p \in Play |-> 0]
  /\ queuedLength = 0
  /\ deadLetterLength = 0
  /\ deadLetterQueued = 0
  /\ cache = NoCache
  /\ scrobbleRetries = 0
  /\ aborted = FALSE
  /\ monitoring = TRUE
  /\ ready = TRUE
  /\ pc = [a \in Actor |-> IF a = "loop" THEN "idle" ELSE "off"]
  /\ cur = [a \in Actor |-> 0]
  /\ seen = [a \in Actor |-> {}]
  /\ rows = [a \in Actor |-> <<>>]
  /\ limit = DeadLetterRetries
  /\ interventions = 0

-----------------------------------------------------------------------------
(* Queries over the rows *)

IsOldest(p, S) == p \in S /\ \A q \in S : p <= q

QueuedPlays == {p \in Play : ingress[p] = "queued"}

RowsIn(d, statuses) ==
  {x \in UNION {{p} \X DOMAIN d[p] : p \in Play} :
     d[x[1]][x[2]].status \in statuses}

HasRow(p, statuses) == \E i \in DOMAIN dead[p] : dead[p][i].status \in statuses

Unresolved == {"queued", "failed"}

FirstUnresolved(s) ==
  CHOOSE i \in DOMAIN s : /\ s[i].status \in Unresolved
                          /\ \A j \in 1..(i - 1) : s[j].status \notin Unresolved

(* findExistingSubmittedPlayObj: an exact match among the rows recorded as   *)
(* scrobbled ends the search; a close row of the same track that is not an   *)
(* acceptable match makes it throw (it dereferences the match it lacks).     *)
(* Such a row is that of the replay, when the earlier listen comes later: in *)
(* the order of listening the row of the earlier one is no candidate.        *)
AnyState          == {q \in Play : play[q] # "absent"}   \* mutant: no filter
Scrobbled         == {q \in Play : play[q] = "scrobbled"}
Recorded(l)       == \E q \in Scrobbled : listen[q] = l
RecordedRepeat(l) == \E q \in Scrobbled : <<l, listen[q]>> \in Repeats

Throws(p)    == ~Recorded(listen[p]) /\ RecordedRepeat(listen[p])
\* mutant: the replayed track passes for a match
MatchesLoosely(a) == LET l == listen[cur[a]] IN
                     Recorded(l) \/ RecordedRepeat(l) \/ l \in seen[a]
Matches(a)   == LET l == listen[cur[a]] IN
                Recorded(l) \/ (~RecordedRepeat(l) /\ l \in seen[a])
NoMatch(a)   == ~Throws(cur[a]) /\ ~Matches(a)

Intervene(kind) ==
  /\ kind \in Faults
  /\ interventions < MaxInterventions
  /\ interventions' = interventions + 1

-----------------------------------------------------------------------------
(* queueScrobble *)

Accepts(l) == /\ \A q \in QueuedPlays : listen[q] # l
              /\ ~Recorded(l)

NewPlay(p, l) == /\ play[p] = "absent"
                 /\ \A q \in Play : play[q] = "absent" => p <= q
                 /\ Accepts(l)
                 /\ play' = [play EXCEPT ![p] = "queued"]
                 /\ listen' = [listen EXCEPT ![p] = l]

Enqueue(p, l) ==
  /\ NewPlay(p, l)
  /\ ingress' = [ingress EXCEPT ![p] = "queued"]
  /\ queuedLength' = queuedLength + 1
  /\ UNCHANGED <<ingressError, dead, serviceVars, deadCounts, cache, control,
                 activity, interventions>>

-----------------------------------------------------------------------------
(* What the activities share *)

Goto(a, where) == /\ pc' = [pc EXCEPT ![a] = where]
                  /\ UNCHANGED <<cur, seen, rows>>

\* the activity drops the Play it holds
Leave(a, where) ==
  /\ pc' = [pc EXCEPT ![a] = where]
  /\ cur' = [cur EXCEPT ![a] = 0]
  /\ seen' = [seen EXCEPT ![a] = {}]
  /\ rows' = [rows EXCEPT ![a] = <<>>]

Hold(a, p) ==
  /\ pc' = [pc EXCEPT ![a] = IF RefreshEnabled THEN "fetch" ELSE "compare"]
  /\ cur' = [cur EXCEPT ![a] = p]
  /\ rows' = [rows EXCEPT ![a] = dead[p]]
  /\ UNCHANGED seen

(* getSOTScrobblesForPlay: the cached answer of the Play's time range, or,   *)
(* when there is none, it expired, or the range has moved, a new request.    *)
HistoryIs(s) ==
  \/ s = history /\ cache' = [kind |-> "plays", listens |-> history]
  \/ cache.kind = "plays" /\ s = cache.listens /\ UNCHANGED cache

HistoryFails ==
  \/ "history" \in Faults /\ cache' = ErrorCache
  \/ cache.kind = "error" /\ UNCHANGED cache

GotHistory(a) ==
  \E s \in SUBSET Listen :
    /\ HistoryIs(s)
    /\ pc' = [pc EXCEPT ![a] = "compare"]
    /\ seen' = [seen EXCEPT ![a] = s]
    /\ UNCHANGED <<cur, rows>>

\* the service takes the submission; the answer is still on its way
ServiceAccepts(a) ==
  /\ pc[a] = "submit"
  /\ sent' = [sent EXCEPT ![cur[a]] = IF @ = 0 THEN 1 ELSE 2]
  /\ history' = history \cup {listen[cur[a]]}
  /\ Goto(a, "accepted")
  /\ RowsStill /\ UNCHANGED <<cache, control, limit, interventions>>

-----------------------------------------------------------------------------
(* The processing loop: doProcessing and processQueueCurrentScrobble *)

\* mutant: the outcome of the Play alone is recorded
FailPlayOnly(p, why) ==
  /\ play' = [play EXCEPT ![p] = "failed"]
  /\ queuedLength' = queuedLength - 1
  /\ UNCHANGED <<ingress, ingressError>>

FailIngress(p, why) ==
  /\ ingress' = [ingress EXCEPT ![p] = "failed"]
  /\ ingressError' = [ingressError EXCEPT ![p] = why]
  /\ play' = [play EXCEPT ![p] = "failed"]
  /\ queuedLength' = queuedLength - 1

\* mutant: the row stays in the queue
CompletePlayOnly(p, state) ==
  /\ play' = [play EXCEPT ![p] = state]
  /\ UNCHANGED <<ingress, ingressError, queuedLength, dead, deadCounts>>

CompleteIngress(p, state) ==
  /\ ingress' = [ingress EXCEPT ![p] = "completed"]
  /\ play' = [play EXCEPT ![p] = state]
  /\ queuedLength' = queuedLength - 1
  /\ UNCHANGED <<ingressError, dead, deadCounts>>

AppendNothing(p) == UNCHANGED dead     \* mutant: no dead row is created

AppendDeadRow(p) ==
  dead' = [dead EXCEPT ![p] = Append(@, [status |-> "queued", retries |-> 0])]

\* mutant: one of the two counters is forgotten
AddDeadLetterUncounted(p) ==
  /\ AppendDeadRow(p)
  /\ deadLetterQueued' = deadLetterQueued + 1
  /\ UNCHANGED deadLetterLength

\* addDeadLetterScrobble
AddDeadLetter(p) ==
  /\ AppendDeadRow(p)
  /\ deadLetterLength' = deadLetterLength + 1
  /\ deadLetterQueued' = deadLetterQueued + 1

NoDeadLetter == UNCHANGED <<dead, deadCounts>>

\* mutant: one retry too many
AfterErrorOnceMore ==
  IF ready /\ scrobbleRetries <= MaxRequestRetries THEN "backoff" ELSE "stopped"

\* what startScrobbling does when doProcessing throws: a client that is not
\* usable or not authenticated (that is, not ready) stops at once
AfterError ==
  IF ready /\ scrobbleRetries < MaxRequestRetries THEN "backoff" ELSE "stopped"

Succeeded == scrobbleRetries' = 0 /\ UNCHANGED <<aborted, monitoring, ready>>

LoopTake ==
  /\ pc["loop"] = "idle" /\ ~aborted /\ monitoring
  /\ \E p \in Play : IsOldest(p, QueuedPlays) /\ Hold("loop", p)
  /\ RowsStill /\ EnvStill /\ UNCHANGED <<cache, control>>

LoopNotMonitoring ==
  /\ pc["loop"] = "idle" /\ ~aborted /\ ~monitoring
  /\ \E p \in Play : IsOldest(p, QueuedPlays) /\ FailIngress(p, "monitoring")
  /\ NoDeadLetter
  /\ Goto("loop", AfterError)
  /\ EnvStill /\ UNCHANGED <<listen, cache, control>>

\* an abort is noticed at the next check; what the loop holds is failed
FailHeld(deadLetter) ==
  /\ aborted
  /\ pc["loop"] \in {"fetch", "compare", "submit", "accepted"}
  /\ FailIngress(cur["loop"], "aborted")
  /\ deadLetter
  /\ Leave("loop", "stopped")
  /\ \/ pc["loop"] = "fetch" /\ \E s \in SUBSET Listen : HistoryIs(s)
     \/ pc["loop"] # "fetch" /\ UNCHANGED cache
  /\ ~(pc["loop"] = "compare" /\ Throws(cur["loop"]))
  /\ EnvStill /\ UNCHANGED <<listen, control>>

LoopAbortedParks == FailHeld(AddDeadLetter(cur["loop"]))   \* mutant

LoopAborted == FailHeld(NoDeadLetter)

LoopHalts ==
  /\ aborted
  /\ pc["loop"] = "idle"
  /\ Goto("loop", "stopped")
  /\ RowsStill /\ EnvStill /\ UNCHANGED <<cache, control>>

LoopFetch ==
  /\ pc["loop"] = "fetch" /\ ~aborted
  /\ GotHistory("loop")
  /\ RowsStill /\ EnvStill /\ UNCHANGED control

\* the Play is dead-lettered; the loop goes on with the next one, unless an
\* abort is noticed first
ParkAndGoOn(why) ==
  /\ FailIngress(cur["loop"], why)
  /\ AddDeadLetter(cur["loop"])
  /\ \/ ~aborted /\ Leave("loop", "idle") /\ Succeeded
     \/ aborted /\ Leave("loop", "stopped") /\ UNCHANGED control
  /\ EnvStill /\ UNCHANGED listen

LoopFetchFails ==
  /\ pc["loop"] = "fetch"
  /\ HistoryFails
  /\ ParkAndGoOn("history")

LoopCompareThrows ==
  /\ pc["loop"] = "compare"
  /\ Throws(cur["loop"])
  /\ FailIngress(cur["loop"], "compare")
  /\ NoDeadLetter
  /\ Leave("loop", AfterError)
  /\ EnvStill /\ UNCHANGED <<listen, cache, control>>

LoopDuped ==
  /\ pc["loop"] = "compare" /\ ~aborted
  /\ Matches("loop")
  /\ CompleteIngress(cur["loop"], "duped")
  /\ Leave("loop", "idle")
  /\ Succeeded
  /\ EnvStill /\ UNCHANGED <<listen, cache>>

LoopNoMatch ==
  /\ pc["loop"] = "compare" /\ ~aborted
  /\ NoMatch("loop")
  /\ Goto("loop", "submit")
  /\ RowsStill /\ EnvStill /\ UNCHANGED <<cache, control>>

LoopAccepted == ServiceAccepts("loop")

LoopScrobbled ==
  /\ pc["loop"] = "accepted" /\ ~aborted
  /\ CompleteIngress(cur["loop"], "scrobbled")
  /\ Leave("loop", "idle")
  /\ Succeeded
  /\ EnvStill /\ UNCHANGED <<listen, cache>>

\* the submission ends in an error, or its answer is lost
SubmitError(kind) == \/ pc["loop"] = "submit" /\ kind \in Faults
                     \/ pc["loop"] = "accepted" /\ "lostReply" \in Faults

\* mutant: the finally block is not told of the error
LoopRejectedUnnoticed ==
  /\ SubmitError("reject") /\ ~aborted
  /\ CompleteIngress(cur["loop"], "scrobbled")
  /\ Leave("loop", "idle")
  /\ Succeeded
  /\ EnvStill /\ UNCHANGED <<listen, cache>>

LoopRejected ==
  /\ SubmitError("reject")
  /\ ParkAndGoOn("submit")
  /\ UNCHANGED cache

\* a show-stopping error; an abort while the submission is delayed is one
LoopShowStop ==
  /\ SubmitError("showstop") \/ (pc["loop"] = "submit" /\ aborted)
  /\ FailIngress(cur["loop"], "submit")
  /\ AddDeadLetter(cur["loop"])
  /\ Leave("loop", AfterError)
  /\ EnvStill /\ UNCHANGED <<listen, cache, control>>

LoopResume ==
  /\ pc["loop"] = "backoff"
  /\ scrobbleRetries' = scrobbleRetries + 1
  /\ Goto("loop", IF aborted THEN "stopped" ELSE "idle")
  /\ RowsStill /\ EnvStill /\ UNCHANGED <<cache, aborted, monitoring, ready>>

\* initScrobbleMonitoring, after the loop has ended
LoopStart ==
  /\ pc["loop"] = "stopped" /\ ready
  /\ scrobbleRetries' = 0
  /\ aborted' = FALSE
  /\ Goto("loop", "idle")
  /\ RowsStill /\ EnvStill /\ UNCHANGED <<cache, monitoring, ready>>

-----------------------------------------------------------------------------
(* Retrying dead Plays: processDeadLetterQueue, processDeadLetterScrobble *)

AfterAttempt(a) == IF a = "run" THEN "next" ELSE "off"

Requeued(r) ==
  [p \in Play |-> [i \in DOMAIN dead[p] |->
     IF dead[p][i].status = "failed" /\ dead[p][i].retries <= r
     THEN [dead[p][i] EXCEPT !.status = "queued"]
     ELSE dead[p][i]]]

StartRun(r) ==
  /\ ready
  /\ pc["run"] = "off"
  /\ dead' = Requeued(r)
  /\ deadLetterQueued' = Cardinality(RowsIn(dead', {"queued"}))
  /\ deadLetterLength' = Cardinality(RowsIn(dead', Unresolved))
  /\ Goto("run", IF RowsIn(dead', {"queued"}) = {} THEN "off" ELSE "next")
  /\ limit' = r
  /\ UNCHANGED <<play, ingressSide, serviceVars, cache, control>>

\* mutant: the limit is one off
RunTickOnceMore == StartRun(DeadLetterRetries + 1) /\ UNCHANGED interventions

\* the scheduled task
RunTick == StartRun(DeadLetterRetries) /\ UNCHANGED interventions

\* PUT /api/dead
ForceRun == StartRun(ForcedRetries) /\ Intervene("forceRun")

Retriable ==
  {p \in Play : \E i \in DOMAIN dead[p] :
      dead[p][i].status = "queued" /\ dead[p][i].retries <= limit}

RunTake ==
  /\ pc["run"] = "next" /\ ready
  /\ \E p \in Play : /\ IsOldest(p, Retriable)
                    /\ play[p] # "scrobbled"
                    /\ Hold("run", p)
  /\ RowsStill /\ EnvStill /\ UNCHANGED <<cache, control>>

\* nothing left, or the oldest Play makes processDeadLetterScrobble throw
RunEnds ==
  /\ pc["run"] = "next"
  /\ \/ Retriable = {}
     \/ \E p \in Play : IsOldest(p, Retriable) /\ play[p] = "scrobbled"
  /\ Goto("run", "off")
  /\ RowsStill /\ EnvStill /\ UNCHANGED <<cache, control>>

\* PUT /api/dead/:id, for a Play that GET /api/dead lists
ApiRetry(p) ==
  /\ pc["api"] = "off" /\ ready
  /\ HasRow(p, Unresolved)
  /\ play[p] # "scrobbled"
  /\ Intervene("retryApi")
  /\ Hold("api", p)
  /\ RowsStill /\ UNCHANGED <<serviceVars, cache, control, limit>>

DeadFetch(a) ==
  /\ pc[a] = "fetch"
  /\ GotHistory(a)
  /\ RowsStill /\ EnvStill /\ UNCHANGED control

SameAgain(n) == n     \* mutant: the retry is not counted
OneMore(n) == IF n < RetryCap THEN n + 1 ELSE n

\* the first dead row goes back to failed, one retry more than when it was read
AttemptFails(a) ==
  /\ dead' = [dead EXCEPT ![cur[a]][1] =
                [status |-> "failed", retries |-> OneMore(rows[a][1].retries)]]
  /\ Leave(a, AfterAttempt(a))
  /\ EnvStill /\ UNCHANGED <<play, ingressSide, deadCounts, control>>

DeadFetchFails(a) ==
  /\ pc[a] = "fetch"
  /\ HistoryFails
  /\ AttemptFails(a)

\* the error ends the attempt, and the whole run it belongs to
DeadCompareThrows(a) ==
  /\ pc[a] = "compare"
  /\ Throws(cur[a])
  /\ Leave(a, "off")
  /\ RowsStill /\ EnvStill /\ UNCHANGED <<cache, control>>

Completed(s, indices) ==
  [i \in DOMAIN s |-> IF i \in indices THEN [s[i] EXCEPT !.status = "completed"]
                                       ELSE s[i]]

\* removeDeadLetterScrobble, working on the rows as they were when read, s; a
\* success has completed the first row already
Resolve(p, s, state) ==
  LET i == FirstUnresolved(s) IN
  /\ dead' = [dead EXCEPT ![p] =
                Completed(@, IF state = "scrobbled" THEN {1, i} ELSE {i})]
  /\ play' = [play EXCEPT ![p] = state]
  /\ deadLetterLength' = deadLetterLength - 1
  /\ deadLetterQueued' = IF s[i].status = "queued" THEN deadLetterQueued - 1
                                                   ELSE deadLetterQueued

DeadDuped(a) ==
  /\ pc[a] = "compare"
  /\ Matches(a)
  /\ Resolve(cur[a], rows[a], "duped")
  /\ Leave(a, AfterAttempt(a))
  /\ EnvStill /\ UNCHANGED <<ingressSide, cache, control>>

DeadNoMatch(a) ==
  /\ pc[a] = "compare"
  /\ NoMatch(a)
  /\ Goto(a, "submit")
  /\ RowsStill /\ EnvStill /\ UNCHANGED <<cache, control>>

DeadAccepted(a) == ServiceAccepts(a)

DeadScrobbled(a) ==
  /\ pc[a] = "accepted"
  /\ Resolve(cur[a], rows[a], "scrobbled")
  /\ Leave(a, AfterAttempt(a))
  /\ EnvStill /\ UNCHANGED <<ingressSide, cache, control>>

DeadSubmitFails(a) ==
  /\ \/ pc[a] = "submit" /\ Faults \cap {"reject", "showstop"} # {}
     \/ pc[a] = "accepted" /\ "lostReply" \in Faults
  /\ AttemptFails(a)
  /\ UNCHANGED cache

\* DELETE /api/dead/:id
ApiRemove(p) ==
  /\ HasRow(p, Unresolved)
  /\ Intervene("removeApi")
  /\ Resolve(p, dead[p], "failed")
  /\ UNCHANGED <<ingressSide, serviceVars, cache, control, activity>>

\* DELETE /api/dead: the first unresolved row of every Play, then a recount
ApiRemoveAll ==
  LET listed == {p \in Play : HasRow(p, Unresolved)} IN
  /\ listed # {}
  /\ Intervene("removeApi")
  /\ dead' = [p \in Play |->
                IF p \in listed
                THEN Completed(dead[p], {FirstUnresolved(dead[p])})
                ELSE dead[p]]
  /\ play' = [p \in Play |-> IF p \in listed THEN "failed" ELSE play[p]]
  /\ deadLetterLength' = Cardinality(RowsIn(dead', Unresolved))
  /\ deadLetterQueued' = Cardinality(RowsIn(dead', {"queued"}))
  /\ UNCHANGED <<ingressSide, serviceVars, cache, control, activity>>

-----------------------------------------------------------------------------
(* Interventions and the environment *)

\* tryStopScrobbling (it does nothing while the loop is backing off)
Stop ==
  /\ pc["loop"] \notin {"backoff", "stopped"} /\ ~aborted
  /\ Intervene("abort")
  /\ aborted' = TRUE
  /\ UNCHANGED <<scrobbleRetries, monitoring, ready>>
  /\ RowsStill /\ UNCHANGED <<serviceVars, cache, activity>>

\* POST /api/client/listen
SetMonitoring ==
  /\ Intervene("monitor")
  /\ monitoring' = ~monitoring
  /\ UNCHANGED <<scrobbleRetries, aborted, ready>>
  /\ RowsStill /\ UNCHANGED <<serviceVars, cache, activity>>

BecomeUnready ==
  /\ ready
  /\ Intervene("unready")
  /\ ready' = FALSE
  /\ UNCHANGED <<scrobbleRetries, aborted, monitoring>>
  /\ RowsStill /\ UNCHANGED <<serviceVars, cache, activity>>

BecomeReady ==
  /\ ~ready
  /\ ready' = TRUE
  /\ UNCHANGED <<scrobbleRetries, aborted, monitoring>>
  /\ RowsStill /\ UNCHANGED <<serviceVars, cache, activity, interventions>>

\* the process dies and is started again: postDatabase counts the rows
Reboot ==
  /\ Intervene("crash")
  /\ queuedLength' = Cardinality({p \in Play : ingress'[p] = "queued"})
  /\ deadLetterLength' = Cardinality(RowsIn(dead', Unresolved))
  /\ deadLetterQueued' = Cardinality(RowsIn(dead', {"queued"}))
  /\ cache' = NoCache
  /\ scrobbleRetries' = 0
  /\ aborted' = FALSE
  /\ monitoring' = TRUE
  /\ ready' = TRUE
  /\ pc' = [a \in Actor |-> IF a = "loop" THEN "idle" ELSE "off"]
  /\ cur' = [a \in Actor |-> 0]
  /\ seen' = [a \in Actor |-> {}]
  /\ rows' = [a \in Actor |-> <<>>]
  /\ limit' = DeadLetterRetries
  /\ UNCHANGED serviceVars

Crash == UNCHANGED dbVars /\ Reboot

\* between createPlays and the creation of the queue row
TornEnqueue(p, l) ==
  /\ NewPlay(p, l)
  /\ UNCHANGED <<ingress, ingressError, dead>>
  /\ Reboot

AboutToFail ==      \* the loop may be about to dead-letter its Play
  \/ pc["loop"] = "fetch" /\ "history" \in Faults
  \/ /\ pc["loop"] = "submit"
     /\ aborted \/ Faults \cap {"reject", "showstop"} # {}
  \/ pc["loop"] = "accepted" /\ "lostReply" \in Faults

\* between addDeadLetterScrobble and the update of the ingress row
TornDeadLetter ==
  /\ AboutToFail
  /\ AppendDeadRow(cur["loop"])
  /\ UNCHANGED <<play, listen, ingress, ingressError>>
  /\ Reboot

\* between the update of the ingress row and that of the play
TornFailure ==
  /\ AboutToFail
  /\ AppendDeadRow(cur["loop"])
  /\ ingress' = [ingress EXCEPT ![cur["loop"]] = "failed"]
  /\ ingressError' = [ingressError EXCEPT ![cur["loop"]] =
                        IF pc["loop"] = "fetch" THEN "history" ELSE "submit"]
  /\ UNCHANGED <<play, listen>>
  /\ Reboot

TornSuccess ==
  /\ ~aborted
  /\ pc["loop"] = "accepted" \/ (pc["loop"] = "compare" /\ Matches("loop"))
  /\ ingress' = [ingress EXCEPT ![cur["loop"]] = "completed"]
  /\ UNCHANGED <<play, listen, ingressError, dead>>
  /\ Reboot

\* between the update of the dead row and that of the play
TornRetry(a) ==
  /\ pc[a] = "accepted"
  /\ dead' = [dead EXCEPT ![cur[a]][1].status = "completed"]
  /\ UNCHANGED <<play, listen, ingress, ingressError>>
  /\ Reboot

-----------------------------------------------------------------------------
LoopStep == \/ LoopTake \/ LoopNotMonitoring \/ LoopAborted \/ LoopHalts
            \/ LoopFetch \/ LoopFetchFails \/ LoopCompareThrows \/ LoopDuped
            \/ LoopNoMatch \/ LoopAccepted \/ LoopScrobbled \/ LoopRejected
            \/ LoopShowStop \/ LoopResume

DeadStep(a) == \/ DeadFetch(a) \/ DeadFetchFails(a) \/ DeadCompareThrows(a)
               \/ DeadDuped(a) \/ DeadNoMatch(a) \/ DeadAccepted(a)
               \/ DeadScrobbled(a) \/ DeadSubmitFails(a)

RunStep == RunTake \/ RunEnds \/ DeadStep("run")

UserStep == \/ LoopStart \/ ForceRun \/ ApiRemoveAll \/ Stop \/ SetMonitoring
            \/ \E p \in Play : ApiRetry(p) \/ ApiRemove(p)

CrashStep == \/ Crash \/ TornDeadLetter \/ TornFailure \/ TornSuccess
             \/ \E a \in DeadActor : TornRetry(a)
             \/ \E p \in Play, l \in Listen : TornEnqueue(p, l)

Next == \/ \E p \in Play, l \in Listen : Enqueue(p, l)
        \/ LoopStep
        \/ RunTick \/ RunStep
        \/ DeadStep("api")
        \/ UserStep
        \/ BecomeUnready \/ BecomeReady
        \/ CrashStep

Spec == Init /\ [][Next]_vars

(* The runtime resumes every activity whose wait is over, the scheduler      *)
(* fires the dead task for ever, and an unready client is initialised again  *)
(* by its heartbeat.  Nothing is assumed of Sources and users: a loop that   *)
(* has stopped stays stopped until somebody starts it.                       *)
Fairness == /\ WF_vars(LoopStep)
            /\ WF_vars(RunTick)
            /\ WF_vars(RunStep)
            /\ WF_vars(DeadStep("api"))
            /\ WF_vars(BecomeReady)

FairSpec == Spec /\ Fairness

-----------------------------------------------------------------------------
(* Safety *)

(* A Play is recorded as scrobbled only if the service took it, and as a     *)
(* dupe only if the service's history holds its listen: whatever fails and   *)
(* whenever the process dies, a success on the dashboard is real.            *)
SuccessIsReal ==
  \A p \in Play : /\ play[p] = "scrobbled" => sent[p] > 0
                  /\ play[p] = "duped" => listen[p] \in history

(* The ingress queue and the dead queue hand a Play over: while the loop may *)
(* still take it there is no dead row, and there is never a second dead row, *)
(* so the two activities cannot hold the same Play.                          *)
OneQueueAtATime ==
  \A p \in Play : /\ Len(dead[p]) <= 1
                  /\ dead[p] # <<>> => ingress[p] = "failed"

(* No row is submitted twice, by the loop, the dead run or both.             *)
NoResubmission == \A p \in Play : sent[p] <= 1

(* A Play the client took from a Source is in a queue until it is at the     *)
(* service (clients.mdx: "you will never lose a scrobble that hasn't been    *)
(* successfully submitted yet").  False: an earlier listen that reaches the  *)
(* client after the track's replay was scrobbled (from a backlog, another    *)
(* Source, or discovered late) is compared with the replay, which throws.    *)
NothingLost ==
  \A p \in Play : \/ play[p] \in {"absent", "scrobbled", "duped"}
                  \/ ingress[p] = "queued"
                  \/ HasRow(p, Unresolved)

(* What the code does lose: a Play leaves the queues without reaching the    *)
(* service only if the user removed it, monitoring was off, or the loop was  *)
(* aborted or its comparison threw while it held the Play.  No rejection,    *)
(* lost answer or failed history request loses one.                          *)
RemovedByUser(p) == /\ dead[p] # <<>>
                    /\ ~HasRow(p, Unresolved)
                    /\ "removeApi" \in Faults

LossesAreKnown ==
  \A p \in Play : \/ play[p] \in {"absent", "scrobbled", "duped"}
                  \/ ingress[p] = "queued"
                  \/ HasRow(p, Unresolved)
                  \/ RemovedByUser(p)
                  \/ ingressError[p] \in {"monitoring", "aborted", "compare"}

(* The numbers the dashboard shows are those of the rows; the count of Plays *)
(* waiting for a retry may only lag behind by the retries that failed.       *)
CountersAgree ==
  /\ queuedLength = Cardinality(QueuedPlays)
  /\ deadLetterLength = Cardinality(RowsIn(dead, Unresolved))
  /\ Cardinality(RowsIn(dead, {"queued"})) <= deadLetterQueued
  /\ deadLetterQueued <= deadLetterLength

(* The scheduled runs stop retrying one attempt after the configured limit.  *)
(* A Play that was dead-lettered twice, because the process died before the  *)
(* loop had recorded that it was, is retried without a limit.                *)
RetriesBounded ==
  \A p \in Play : Len(dead[p]) = 1 =>
    dead[p][1].retries <= DeadLetterRetries + 1

-----------------------------------------------------------------------------
(* Liveness *)

(* Every Play in the ingress queue is processed, even if the process dies.   *)
QueuedIsProcessed ==
  \A p \in Play : ingress[p] = "queued" ~> ingress[p] # "queued"

(* Every dead Play is retried until it is at the service, its row resolved,  *)
(* or its automatic retries used up: none is starved by the others, or by    *)
(* the death of the process, unless that left a Play in both queues: such a  *)
(* Play may occupy the run for ever, or end it each time.                    *)
DeadIsRetried ==
  \A p \in Play : HasRow(p, Unresolved) ~>
    \/ play[p] \in {"scrobbled", "duped"}
    \/ ~HasRow(p, Unresolved)
    \/ \E i \in DOMAIN dead[p] : dead[p][i].retries > DeadLetterRetries
    \/ ~OneQueueAtATime
=============================================================================
