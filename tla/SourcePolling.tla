--------------------------- MODULE SourcePolling ---------------------------
(***************************************************************************)
(* Who starts and stops the polling of one Source.                         *)
(*                                                                         *)
(* poll() checks a flag, waits for the initialisation and for two hooks,   *)
(* and then starts an activity of two tasks: the polling loop, and the     *)
(* processing of the backlog beside it.  The heartbeat, a request of the   *)
(* REST API and the callback of an authentication all call it.  What the   *)
(* loop discovers is SourceDiscovery's subject; here a pass succeeds,      *)
(* fails or is stopped.                                                    *)
(***************************************************************************)
EXTENDS Integers, FiniteSets

CONSTANTS
  Poll,              \* bound: polling activities alive at the same time
  Request,           \* requests and callbacks that may be under way
  MaxPollRetries,    \* option: failures in a row before the polling stops
  Faults,            \* which of the events below may happen
  MaxInterventions   \* bound: how many of them happen

None == "none"
FaultKinds == {"initFails", "notAuthed", "fetchFails", "unauthorized",
               "backlogFails", "refused", "request"}

ASSUME PollingAssumption ==
  /\ Poll # {} /\ IsFiniteSet(Poll) /\ None \notin Poll
  /\ Request \cap ({"heartbeat", None} \cup Poll) = {} /\ "heartbeat" \notin Poll
  /\ MaxPollRetries \in Nat
  /\ Faults \subseteq FaultKinds
  /\ MaxInterventions \in Nat

VARIABLES
  ready,            \* isReady()
  locked,           \* authFailure: only a forced attempt authenticates again
  initController,   \* whose initialize() is under way
  polling,          \* the flag
  abortController,  \* the activity the field of that name belongs to
  pollRetries,      \* one counter for whatever loops there are
  loop, backlog,    \* the two tasks of each activity
  aborted,          \* the activities whose signal is aborted
  flagged,          \* history: the activities that have set the flag
  at,               \* where the heartbeat and each request are
  crashed,          \* did an unhandled rejection end the process?
  raced,            \* history: did a call of poll() pass its check too early?
  interventions

tasks  == <<loop, backlog, aborted, flagged>>
fields == <<polling, abortController, pollRetries>>
others == <<crashed, raced, interventions>>
auth   == <<ready, locked>>
vars   == <<auth, initController, fields, tasks, at, others>>

Caller == {"heartbeat"} \cup Request

LoopStage    == {"off", "initializing", "notifying", "fetching", "sleeping",
                 "backoff", "returned", "stopped", "failed"}
BacklogStage == {"off", "running", "returned", "stopped", "failed"}
Over         == {"returned", "stopped", "failed"}
\* the heartbeat may initialise before it thinks of polling
CallerStage  == {"idle", "preparing", "stopping", "initializing", "forcing",
                 "checking"}

TypeOK ==
  /\ ready \in BOOLEAN /\ locked \in BOOLEAN /\ polling \in BOOLEAN
  /\ initController \in Caller \cup Poll \cup {None}
  /\ abortController \in Poll \cup {None}
  /\ pollRetries \in 0..(MaxPollRetries + Cardinality(Poll) - 1)
  /\ loop \in [Poll -> LoopStage] /\ backlog \in [Poll -> BacklogStage]
  /\ aborted \subseteq Poll /\ flagged \subseteq Poll
  /\ at \in [Caller -> CallerStage]
  /\ crashed \in BOOLEAN /\ raced \in BOOLEAN
  /\ interventions \in 0..MaxInterventions

Init ==
  /\ ready \in BOOLEAN /\ locked = FALSE /\ initController = None
  /\ polling = FALSE /\ abortController = None /\ pollRetries = 0
  /\ loop = [p \in Poll |-> "off"] /\ backlog = [p \in Poll |-> "off"]
  /\ aborted = {} /\ flagged = {}
  /\ at = [c \in Caller |-> "idle"]
  /\ crashed = FALSE /\ raced = FALSE /\ interventions = 0

-----------------------------------------------------------------------------
\* What the steps are made of.

Alive(p) == loop[p] # "off"

Happens(kind) ==
  /\ kind \in Faults
  /\ interventions < MaxInterventions
  /\ interventions' = interventions + 1

\* An attempt throws at a stage, which may leave a ready Source ready, or at its
\* authentication; one that is told it cannot authenticate ends well all the
\* same.  After such a failure only a forced attempt gets to authenticate.
InitOutcome == {"ready", "throws", "authThrows", "notAuthed"}
Throws(o) == o \in {"throws", "authThrows"}

Outcome(o, force) ==
  /\ initController' = None
  /\ \/ /\ o = "ready" /\ (force \/ ~locked)
        /\ ready' = TRUE /\ locked' = FALSE
        /\ UNCHANGED interventions
     \/ /\ o = "throws" /\ Happens("initFails")
        /\ ready' \in {FALSE, ready} /\ UNCHANGED locked
     \/ /\ o = "notAuthed" /\ (force \/ ~locked) /\ Happens("notAuthed")
        /\ ready' = FALSE /\ locked' = TRUE
     \/ /\ o = "authThrows"
        /\ IF locked /\ ~force THEN UNCHANGED interventions ELSE Happens("notAuthed")
        /\ ready' = FALSE /\ locked' = TRUE

\* somebody passes the check of the flag although polling is being started: by
\* another call that waits for its checks, or by an activity that has not come
\* to set the flag
BeingStarted(c) ==
  \/ \E d \in Caller \ {c} : at[d] \in {"initializing", "forcing", "checking"}
  \/ \E p \in Poll : Alive(p) /\ p \notin flagged

NeverPolling == FALSE                  \* mutant: the check is dropped
\* the check of poll()
AlreadyPolling == polling

\* poll() up to its first await
CallPoll(c, force) ==
  IF AlreadyPolling
  THEN /\ at' = [at EXCEPT ![c] = "idle"]
       /\ UNCHANGED <<initController, raced>>
  ELSE /\ raced' = (raced \/ BeingStarted(c))
       /\ \/ /\ ready /\ ~force
             /\ at' = [at EXCEPT ![c] = "checking"]
             /\ UNCHANGED initController
          \/ /\ ~ready \/ force
             /\ IF initController = None
                THEN /\ at' = [at EXCEPT ![c] = IF force THEN "forcing"
                                                         ELSE "initializing"]
                     /\ initController' = c
                ELSE /\ at' = [at EXCEPT ![c] = "idle"]
                     /\ UNCHANGED initController

\* the loop decides how to go on after a failed pass or a failed attempt
AfterFailure == IF pollRetries < MaxPollRetries THEN "backoff" ELSE "failed"

\* the loop from its condition to its first await
EnterLoop(p, retries) ==
  \/ /\ retries > MaxPollRetries
     /\ loop' = [loop EXCEPT ![p] = "returned"]
     /\ UNCHANGED initController
  \/ /\ retries <= MaxPollRetries /\ ~ready /\ initController = None
     /\ loop' = [loop EXCEPT ![p] = "initializing"]
     /\ initController' = p
  \/ /\ retries <= MaxPollRetries /\ ~ready /\ initController # None
     /\ loop' = [loop EXCEPT ![p] = IF retries < MaxPollRetries THEN "backoff"
                                                                ELSE "failed"]
     /\ UNCHANGED initController
  \/ /\ retries <= MaxPollRetries /\ ready
     /\ loop' = [loop EXCEPT ![p] = IF p \in aborted THEN "stopped" ELSE "notifying"]
     /\ UNCHANGED initController

-----------------------------------------------------------------------------
\* Calls of poll().

\* the heartbeat looks every twenty minutes
HeartbeatPrepares ==
  /\ at["heartbeat"] = "idle" /\ ~ready /\ initController = None
  /\ at' = [at EXCEPT !["heartbeat"] = "preparing"]
  /\ initController' = "heartbeat"
  /\ UNCHANGED <<auth, fields, tasks, others>>

HeartbeatPrepared(o) ==
  /\ at["heartbeat"] = "preparing"
  /\ Outcome(o, FALSE)
  /\ IF o = "ready" /\ ~polling
     THEN /\ raced' = (raced \/ BeingStarted("heartbeat"))
          /\ at' = [at EXCEPT !["heartbeat"] = "checking"]
     ELSE /\ at' = [at EXCEPT !["heartbeat"] = "idle"]
          /\ UNCHANGED raced
  /\ UNCHANGED <<fields, tasks, crashed>>

HeartbeatPolls ==
  /\ at["heartbeat"] = "idle" /\ ready /\ ~polling
  /\ CallPoll("heartbeat", FALSE)
  /\ UNCHANGED <<auth, fields, tasks, crashed, interventions>>

\* POST /api/source/init stops a polling Source first
RequestArrives(c) ==
  /\ at[c] = "idle" /\ Happens("request")
  /\ \/ /\ polling /\ abortController # None
        /\ aborted' = aborted \cup {abortController}
        /\ at' = [at EXCEPT ![c] = "stopping"]
        /\ UNCHANGED <<initController, raced>>
     \/ /\ ~polling
        /\ \E force \in BOOLEAN : CallPoll(c, force)
        /\ UNCHANGED aborted
  /\ UNCHANGED <<auth, fields, loop, backlog, flagged, crashed>>

\* the callback of an authentication clears the failure and calls poll()
Authenticated(c) ==
  /\ at[c] = "idle" /\ Happens("request")
  /\ locked' = FALSE
  /\ CallPoll(c, FALSE)
  /\ UNCHANGED <<ready, fields, tasks, crashed>>

StopAcknowledged(c) ==
  /\ at[c] = "stopping" /\ ~polling
  /\ \E force \in BOOLEAN : CallPoll(c, force)
  /\ UNCHANGED <<auth, fields, tasks, crashed, interventions>>

\* the flag is looked at ten times; then the request gives up
StopTimesOut(c) ==
  /\ at[c] = "stopping" /\ polling
  /\ at' = [at EXCEPT ![c] = "idle"]
  /\ UNCHANGED <<auth, initController, fields, tasks, others>>

Initialized(c, o) ==
  /\ at[c] \in {"initializing", "forcing"}
  /\ Outcome(o, at[c] = "forcing")
  /\ at' = [at EXCEPT ![c] = IF Throws(o) THEN "idle" ELSE "checking"]
  /\ UNCHANGED <<fields, tasks, crashed, raced>>

\* the hooks before and after authentication may refuse
Refused(c) ==
  /\ at[c] = "checking" /\ Happens("refused")
  /\ at' = [at EXCEPT ![c] = "idle"]
  /\ UNCHANGED <<auth, initController, fields, tasks, crashed, raced>>

\* the activity starts: the backlog is forked, and the loop runs unless the
\* flag was set meanwhile
Start(c, p) ==
  /\ at[c] = "checking" /\ ~Alive(p)
  /\ at' = [at EXCEPT ![c] = "idle"]
  /\ abortController' = p
  /\ pollRetries' = 0
  /\ aborted' = aborted \ {p} /\ flagged' = flagged \ {p}
  /\ backlog' = [backlog EXCEPT ![p] = "running"]
  /\ IF polling
     THEN /\ loop' = [loop EXCEPT ![p] = "returned"]
          /\ UNCHANGED initController
     ELSE \* its signal is new, and in this step not aborted
          IF ready \/ initController = None
          THEN /\ loop' = [loop EXCEPT ![p] = IF ready THEN "notifying"
                                                       ELSE "initializing"]
               /\ initController' = IF ready THEN initController ELSE p
          ELSE /\ loop' = [loop EXCEPT ![p] = IF MaxPollRetries > 0
                                              THEN "backoff" ELSE "failed"]
               /\ UNCHANGED initController
  /\ UNCHANGED <<auth, polling, crashed, raced, interventions>>

-----------------------------------------------------------------------------
\* The polling loop of activity p.

LoopInitialized(p, o) ==
  /\ loop[p] = "initializing"
  /\ Outcome(o, FALSE)
  /\ loop' = [loop EXCEPT ![p] = IF Throws(o) THEN AfterFailure
                                 ELSE IF p \in aborted THEN "stopped"
                                 ELSE "notifying"]
  /\ UNCHANGED <<fields, backlog, aborted, flagged, at, crashed, raced>>

\* only after the notification the flag is set
Notified(p) ==
  /\ loop[p] = "notifying"
  /\ polling' = TRUE
  /\ flagged' = flagged \cup {p}
  /\ loop' = [loop EXCEPT ![p] = IF p \in aborted THEN "stopped" ELSE "fetching"]
  /\ UNCHANGED <<auth, initController, abortController, pollRetries, backlog,
                 aborted, at, others>>

Fetched(p) ==
  /\ loop[p] = "fetching"
  /\ loop' = [loop EXCEPT ![p] = IF p \in aborted THEN "stopped" ELSE "sleeping"]
  /\ UNCHANGED <<auth, initController, fields, backlog, aborted, flagged, at,
                 others>>

\* a service that refuses the credentials locks the Source
FetchFails(p, kind) ==
  /\ loop[p] = "fetching" /\ Happens(kind)
  /\ kind \in {"fetchFails", "unauthorized"}
  /\ loop' = [loop EXCEPT ![p] = IF p \in aborted THEN "stopped" ELSE AfterFailure]
  /\ IF kind = "unauthorized" /\ p \notin aborted
     THEN ready' = FALSE /\ locked' = TRUE
     ELSE UNCHANGED auth
  /\ UNCHANGED <<initController, fields, backlog, aborted, flagged, at, crashed,
                 raced>>

Slept(p) ==
  /\ loop[p] = "sleeping"
  /\ IF p \in aborted
     THEN loop' = [loop EXCEPT ![p] = "stopped"] /\ UNCHANGED pollRetries
     ELSE loop' = [loop EXCEPT ![p] = "fetching"] /\ pollRetries' = 0
  /\ UNCHANGED <<auth, initController, polling, abortController, backlog,
                 aborted, flagged, at, others>>

\* the back-off does not look at the signal
BackoffEnds(p) ==
  /\ loop[p] = "backoff"
  /\ pollRetries' = pollRetries + 1
  /\ EnterLoop(p, pollRetries + 1)
  /\ UNCHANGED <<auth, polling, abortController, backlog, aborted, flagged, at,
                 others>>

-----------------------------------------------------------------------------
\* The backlog, and the end of the activity.

\* a failed task stops the other one
LoopFailed(p) ==
  /\ loop[p] = "failed" /\ backlog[p] = "running" /\ p \notin aborted
  /\ aborted' = aborted \cup {p}
  /\ UNCHANGED <<auth, initController, fields, loop, backlog, flagged, at, others>>

BacklogEnds(p) ==
  /\ backlog[p] = "running"
  /\ backlog' = [backlog EXCEPT ![p] = IF p \in aborted THEN "stopped" ELSE "returned"]
  /\ UNCHANGED <<auth, initController, fields, loop, aborted, flagged, at, others>>

BacklogFails(p) ==
  /\ backlog[p] = "running" /\ p \notin aborted /\ Happens("backlogFails")
  /\ backlog' = [backlog EXCEPT ![p] = "failed"]
  /\ aborted' = aborted \cup {p}
  /\ UNCHANGED <<auth, initController, fields, loop, flagged, at, crashed, raced>>

FlagLeft(p) == polling                 \* mutant: nothing resets the flag
FlagAfter(p) == FALSE

\* the deferred reset, then catch and finally: the reason of a stop is read
\* from the controller in the field, which may be gone by now
Ended(p) ==
  /\ loop[p] \in Over /\ backlog[p] \in Over
  /\ polling' = FlagAfter(p)
  /\ crashed' = (crashed \/ /\ "stopped" \in {loop[p], backlog[p]}
                            /\ "failed" \notin {loop[p], backlog[p]}
                            /\ abortController = None)
  /\ abortController' = None
  /\ loop' = [loop EXCEPT ![p] = "off"]
  /\ backlog' = [backlog EXCEPT ![p] = "off"]
  /\ aborted' = aborted \ {p} /\ flagged' = flagged \ {p}
  /\ UNCHANGED <<auth, initController, pollRetries, at, raced, interventions>>

Heartbeat ==
  HeartbeatPrepares \/ HeartbeatPolls \/ \E o \in InitOutcome : HeartbeatPrepared(o)

GoesOn(c) ==
  \/ StopAcknowledged(c)
  \/ \E o \in InitOutcome : Initialized(c, o)
  \/ \E p \in Poll : Start(c, p)

RunsLoop(p) ==
  \/ Notified(p) \/ Fetched(p) \/ Slept(p) \/ BackoffEnds(p) \/ LoopFailed(p)
  \/ \E o \in InitOutcome : LoopInitialized(p, o)
  \/ \E kind \in FaultKinds : FetchFails(p, kind)

Next ==
  /\ ~crashed
  /\ \/ Heartbeat
     \/ \E c \in Caller : GoesOn(c) \/ StopTimesOut(c) \/ Refused(c)
     \/ \E c \in Request : RequestArrives(c) \/ Authenticated(c)
     \/ \E p \in Poll : RunsLoop(p) \/ BacklogEnds(p) \/ BacklogFails(p) \/ Ended(p)

Spec == Init /\ [][Next]_vars

\* the scheduler runs the heartbeat, and what is awaited settles; a refusal, a
\* failed pass or a request is never owed
Fairness ==
  /\ WF_vars(Heartbeat)
  /\ \A c \in Caller : WF_vars(GoesOn(c))
  /\ \A p \in Poll : WF_vars(RunsLoop(p)) /\ WF_vars(BacklogEnds(p)) /\ WF_vars(Ended(p))
  /\ \A c \in Request : WF_vars(StopTimesOut(c))

FairSpec == Spec /\ Fairness

-----------------------------------------------------------------------------
\* What must be true of it.

\* The flag never outlives the activities: while it is set, some activity still
\* has its deferred reset before it.  Otherwise the heartbeat would take the
\* Source for polling for ever (poll, doPolling, heartbeatTask).
FlagIsBacked == polling => \E p \in Poll : Alive(p)

\* Unless some call of poll() passed the check while polling was already being
\* started, there is one activity, and a stop reaches it: through back-offs,
\* restarts, stops that were not acknowledged in time and calls that found the
\* Source polling (poll, tryStopPolling, POST /api/source/init).
OneReachablePoll ==
  ~raced => \A p \in Poll : Alive(p) =>
              abortController = p /\ \A q \in Poll \ {p} : ~Alive(q)

\* A loop that polls has the flag set, so the heartbeat leaves it alone; again
\* only a race lets the end of one activity reset the flag under another.
PollingIsFlagged ==
  ~raced => \A p \in Poll : loop[p] \in {"fetching", "sleeping"} => polling

\* Handling a stop reads the reason from a field another activity may have
\* cleared, and nobody handles that error: this takes a race, too (the catch of
\* poll).
EndsByRaceOnly == crashed => raced

\* The flag, the controller in the field and the activities agree, and what
\* they say is of its type: failures are counted up to the limit.
PollingIsKnown ==
  TypeOK /\ FlagIsBacked /\ OneReachablePoll /\ PollingIsFlagged /\ EndsByRaceOnly

\* A Source that is not locked polls again and again: whatever fails, gives up,
\* is refused or overlaps, the heartbeat or the loop itself takes it up again
\* (heartbeatTask, startPolling).
KeepsPolling ==
  []<>(locked \/ crashed \/ \E p \in Poll : loop[p] \in {"fetching", "sleeping"})
=============================================================================
