---------------------------- MODULE ScrobbleLoop ----------------------------
(***************************************************************************)
(* Who starts and stops the processing loop of one Client.                 *)
(*                                                                         *)
(* ScrobbleQueue takes its loop as given.  Here the loop is only running,  *)
(* backing off or ending, and the subject is what surrounds it: the        *)
(* heartbeat, the (re)start and the re-authentication of the REST API, the *)
(* initialisation they share, a service that drops the connection, and the *)
(* scheduled task that retries dead Plays.  All of them work on the same   *)
(* fields of the Client: scrobbling, scrobbleQueueAbortController and      *)
(* scrobbleRetries.  Code between two waits runs alone and is one action.  *)
(***************************************************************************)
EXTENDS Integers, FiniteSets

CONSTANTS
  Loop,               \* bound: loops that may be alive at the same time
  Call,               \* REST requests that may be under way
  MaxRequestRetries,  \* option: failures in a row before a loop stops
  Faults,             \* which of the events below may happen
  MaxInterventions    \* bound: how many of them happen

None == "none"

FaultKinds == {"error", "initFails", "disconnect", "restart", "reauth"}

ASSUME LoopAssumption ==
  /\ Loop # {} /\ IsFiniteSet(Loop) /\ None \notin Loop
  /\ "heartbeat" \notin Call /\ None \notin Call
  /\ MaxRequestRetries \in Nat
  /\ Faults \subseteq FaultKinds
  /\ MaxInterventions \in Nat

VARIABLES
  ready,              \* isReady()
  initController,     \* the task whose initialize() is under way
  scrobbling,         \* the flag
  abortController,    \* the loop scrobbleQueueAbortController belongs to
  scrobbleRetries,    \* shared by whatever loops there are
  loop,               \* where each loop is
  aborted,            \* the loops whose signal is aborted
  at,                 \* where the heartbeat and each request are
  deadTask,           \* the scheduled retry of dead Plays
  interventions

flags == <<scrobbling, abortController>>
loops == <<loop, aborted, scrobbleRetries>>
tasks == <<at, initController>>
vars  == <<ready, flags, loops, tasks, deadTask, interventions>>

Task == {"heartbeat"} \cup Call

LoopState == {"off", "running", "backoff", "ending"}
\* a task initialises before it thinks of the loop (prepar...), or as part of
\* the start of the loop (initializ...); then the hooks run (...ed)
TaskState == {"idle", "stopping", "stoppingForced", "preparing", "prepared",
              "initializing", "initialized"}

TypeOK ==
  /\ ready \in BOOLEAN
  /\ initController \in Task \cup {None}
  /\ scrobbling \in BOOLEAN
  /\ abortController \in Loop \cup {None}
  /\ scrobbleRetries \in 0..(MaxRequestRetries + Cardinality(Loop))
  /\ loop \in [Loop -> LoopState]
  /\ aborted \subseteq {l \in Loop : loop[l] # "off"}
  /\ at \in [Task -> TaskState]
  /\ deadTask \in {"waiting", "running", "hung"}
  /\ interventions \in 0..MaxInterventions

\* a Client as the process starts it: initTasks runs the heartbeat at once
Init ==
  /\ ready = FALSE
  /\ initController = None
  /\ scrobbling = FALSE
  /\ abortController = None
  /\ scrobbleRetries = 0
  /\ loop = [l \in Loop |-> "off"]
  /\ aborted = {}
  /\ at = [t \in Task |-> "idle"]
  /\ deadTask = "waiting"
  /\ interventions = 0

Intervene(kind) ==
  /\ kind \in Faults
  /\ interventions < MaxInterventions
  /\ interventions' = interventions + 1

NothingElse == UNCHANGED <<deadTask, interventions>>

-----------------------------------------------------------------------------
(* The loop: startScrobbling, doProcessing                                   *)

\* the deferred functions and the finally of initScrobbleMonitoring
LoopFieldsReset == scrobbling' = FALSE /\ abortController' = None

Alive(l) == loop[l] # "off"

Running(l) ==
  /\ loop' = [loop EXCEPT ![l] = "running"]
  /\ scrobbling' = TRUE

\* mutant: the aborted loop ends without its signal being forgotten
EndLeavingSignal(l) ==
  /\ loop' = [loop EXCEPT ![l] = "off"]
  /\ UNCHANGED aborted
  /\ LoopFieldsReset

End(l) ==
  /\ loop' = [loop EXCEPT ![l] = "off"]
  /\ aborted' = aborted \ {l}
  /\ LoopFieldsReset

\* the end of initScrobbleMonitoring: a loop is created, and gives up at once
\* when another one is processing
StartLoop ==
  /\ scrobbleRetries' = 0
  /\ \/ /\ scrobbling
        /\ LoopFieldsReset
        /\ UNCHANGED <<loop, aborted>>
     \/ /\ ~scrobbling
        /\ \E l \in Loop : /\ loop[l] = "off"
                           /\ Running(l)
                           /\ abortController' = l
        /\ UNCHANGED aborted

\* a Play was processed
LoopSucceeds(l) ==
  /\ loop[l] = "running"
  /\ scrobbleRetries' = 0
  /\ UNCHANGED <<ready, flags, loop, aborted, tasks>> /\ NothingElse

\* mutant: the flag is only reset when the loop ends
LoopFailsSilently(l) ==
  /\ loop[l] = "running"
  /\ Intervene("error")
  /\ loop' = [loop EXCEPT ![l] =
                IF ready /\ scrobbleRetries < MaxRequestRetries THEN "backoff"
                                                                ELSE "ending"]
  /\ UNCHANGED <<ready, flags, scrobbleRetries, aborted, tasks, deadTask>>

\* doProcessing throws; before its next attempt, or its end, the loop waits
LoopFails(l) ==
  /\ loop[l] = "running"
  /\ Intervene("error")
  /\ scrobbling' = FALSE
  /\ loop' = [loop EXCEPT ![l] =
                IF ready /\ scrobbleRetries < MaxRequestRetries THEN "backoff"
                                                                ELSE "ending"]
  /\ UNCHANGED <<ready, abortController, scrobbleRetries, aborted, tasks,
                 deadTask>>

LoopResumes(l) ==
  /\ loop[l] = "backoff"
  /\ scrobbleRetries' = scrobbleRetries + 1
  /\ IF l \in aborted \/ scrobbleRetries' > MaxRequestRetries
     THEN End(l)
     ELSE Running(l) /\ UNCHANGED <<aborted, abortController>>
  /\ UNCHANGED <<ready, tasks>> /\ NothingElse

LoopEnds(l) ==
  /\ \/ loop[l] = "ending"
     \/ loop[l] = "running" /\ l \in aborted
  /\ End(l)
  /\ UNCHANGED <<ready, scrobbleRetries, tasks>> /\ NothingElse

-----------------------------------------------------------------------------
(* Initialisation: one attempt at a time                                     *)

GoTo(t, where) == at' = [at EXCEPT ![t] = where]

\* mutant: attempts are not exclusive
BeginInitializeAnyway(t, where) == initController' = t /\ GoTo(t, where)

\* initialize() rejects at once while another attempt is under way
BeginInitialize(t, where) ==
  \/ initController = None /\ initController' = t /\ GoTo(t, where)
  \/ initController # None /\ UNCHANGED initController /\ GoTo(t, "idle")

StagesPass(t) ==
  /\ at[t] \in {"preparing", "initializing"}
  /\ ready' = TRUE
  /\ GoTo(t, IF at[t] = "preparing" THEN "prepared" ELSE "initialized")
  /\ UNCHANGED <<flags, loops, initController>> /\ NothingElse

\* a stage fails; after a re-authentication the start of the loop tries again
StageFails(t) ==
  /\ at[t] \in {"preparing", "initializing"}
  /\ Intervene("initFails")
  /\ ready' = FALSE
  /\ IF t # "heartbeat" /\ at[t] = "preparing"
     THEN GoTo(t, "initializing") /\ UNCHANGED initController
     ELSE GoTo(t, "idle") /\ initController' = None
  /\ UNCHANGED <<flags, loops, deadTask>>

Finish(t) == initController' = None /\ GoTo(t, "idle")

Initialized(t) ==
  /\ at[t] = "initialized"
  /\ Finish(t) /\ StartLoop
  /\ UNCHANGED ready /\ NothingElse

\* mutant: the heartbeat leaves the loop alone
PreparedOnly(t) ==
  /\ at[t] = "prepared" /\ Finish(t)
  /\ UNCHANGED <<ready, flags, loops>> /\ NothingElse

\* the heartbeat leaves a loop alone that the flag says is running; otherwise
\* the loop is started, after another attempt if the client is not ready now
Prepared(t) ==
  /\ at[t] = "prepared"
  /\ \/ /\ t = "heartbeat" /\ scrobbling
        /\ Finish(t) /\ UNCHANGED <<flags, loops>>
     \/ /\ t # "heartbeat" \/ ~scrobbling
        /\ \/ ready /\ Finish(t) /\ StartLoop
           \/ /\ ~ready /\ GoTo(t, "initializing")
              /\ UNCHANGED <<flags, loops, initController>>
  /\ UNCHANGED ready /\ NothingElse

-----------------------------------------------------------------------------
(* The heartbeat and the requests                                            *)

Heartbeat ==
  /\ at["heartbeat"] = "idle" /\ ~ready
  /\ BeginInitialize("heartbeat", "preparing")
  /\ UNCHANGED <<ready, flags, loops>> /\ NothingElse

\* initScrobbleMonitoring
Monitor(c, force) ==
  \/ /\ ready /\ ~force
     /\ StartLoop
     /\ GoTo(c, "idle")
     /\ UNCHANGED initController
  \/ /\ ~ready \/ force
     /\ BeginInitialize(c, "initializing")
     /\ UNCHANGED <<flags, loops>>

\* tryStopScrobbling: nothing to stop, or the loop the field knows of is told
\* (when the flag is set and the field is empty it answers that it cannot)
Abort == /\ scrobbling /\ abortController # None
         /\ aborted' = aborted \cup {abortController}
         /\ UNCHANGED <<flags, loop, scrobbleRetries>>

\* mutant: the restart does not wait for the loop it stops
RestartAtOnce(c, force) ==
  /\ at[c] = "idle"
  /\ Intervene("restart")
  /\ Monitor(c, force)
  /\ UNCHANGED <<ready, deadTask>>

\* POST /api/client/init
Restart(c, force) ==
  /\ at[c] = "idle"
  /\ Intervene("restart")
  /\ \/ ~scrobbling /\ Monitor(c, force)
     \/ /\ Abort
        /\ GoTo(c, IF force THEN "stoppingForced" ELSE "stopping")
        /\ UNCHANGED initController
  /\ UNCHANGED <<ready, deadTask>>

RestartGoesOn(c) ==
  /\ at[c] \in {"stopping", "stoppingForced"} /\ ~scrobbling
  /\ Monitor(c, at[c] = "stoppingForced")
  /\ UNCHANGED ready /\ NothingElse

\* the loop did not react in time
RestartGivesUp(c) ==
  /\ at[c] \in {"stopping", "stoppingForced"} /\ scrobbling
  /\ GoTo(c, "idle")
  /\ UNCHANGED <<ready, flags, loops, initController>> /\ NothingElse

\* the callback of an authentication: initialize, then start, whatever runs
Reauthenticate(c) ==
  /\ at[c] = "idle" /\ Intervene("reauth")
  /\ IF initController = None
     THEN BeginInitialize(c, "preparing") /\ UNCHANGED <<flags, loops>>
     ELSE Monitor(c, FALSE)
  /\ UNCHANGED <<ready, deadTask>>

\* the service ends the connection, and the client stops its loop
Disconnected ==
  /\ ready
  /\ Intervene("disconnect")
  /\ ready' = FALSE
  /\ \/ Abort
     \/ ~(scrobbling /\ abortController # None) /\ UNCHANGED <<flags, loops>>
  /\ UNCHANGED <<tasks, deadTask>>

-----------------------------------------------------------------------------
(* The scheduled retry of dead Plays                                         *)

\* a task that finds the client not ready returns a promise that never
\* settles; the scheduler starts no task that it believes is executing
DeadTick ==
  /\ deadTask = "waiting"
  /\ deadTask' = IF ready THEN "running" ELSE "hung"
  /\ UNCHANGED <<ready, flags, loops, tasks, interventions>>

DeadDone ==
  /\ deadTask = "running"
  /\ deadTask' = "waiting"
  /\ UNCHANGED <<ready, flags, loops, tasks, interventions>>

-----------------------------------------------------------------------------
LoopStep(l) == LoopSucceeds(l) \/ LoopFails(l) \/ LoopResumes(l) \/ LoopEnds(l)

InitializeStep(t) ==
  StagesPass(t) \/ StageFails(t) \/ Prepared(t) \/ Initialized(t)

RequestStep(c) ==
  \/ RestartGoesOn(c) \/ RestartGivesUp(c) \/ Reauthenticate(c)
  \/ \E force \in BOOLEAN : Restart(c, force)

Next == \/ \E l \in Loop : LoopStep(l)
        \/ \E t \in Task : InitializeStep(t)
        \/ \E c \in Call : RequestStep(c)
        \/ Heartbeat \/ Disconnected
        \/ DeadTick \/ DeadDone

Spec == Init /\ [][Next]_vars

(* Timers fire and requests to the service end: what waits goes on.  Nothing *)
(* is assumed of users, of the service or of the outcome of a Play.          *)
Fairness ==
  /\ \A l \in Loop : WF_vars(LoopResumes(l) \/ LoopEnds(l))
  /\ \A t \in Task : WF_vars(InitializeStep(t))
  /\ \A c \in Call : WF_vars(RestartGoesOn(c) \/ RestartGivesUp(c))
  /\ WF_vars(Heartbeat)
  /\ WF_vars(DeadTick) /\ WF_vars(DeadDone)

FairSpec == Spec /\ Fairness

-----------------------------------------------------------------------------
(* The loop that runs is the one the flag and the abort controller speak of: *)
(* whatever the heartbeat, restarts, failed initialisations and lost         *)
(* connections did before, the dashboard can stop it.                        *)
RunningIsStoppable ==
  \A l \in Loop : loop[l] = "running" => scrobbling /\ abortController = l

(* What the fields say is never out of date: the flag is set only while a    *)
(* loop runs, so no restart waits and no heartbeat holds back in vain, and   *)
(* the abort controller is that of a loop which is alive.                    *)
FieldsAreCurrent ==
  /\ scrobbling => \E l \in Loop : loop[l] = "running"
  /\ abortController # None => Alive(abortController)

(* Initialisations exclude each other, and an attempt under way belongs to   *)
(* the task that waits for it.                                               *)
OneInitialization ==
  \A t \in Task :
    at[t] \in {"preparing", "prepared", "initializing", "initialized"}
      <=> initController = t

(* A client that is not ready and has no loop gets one, by the heartbeat or  *)
(* by a request, even when initialisations fail and overlap.                 *)
IdleIsRestarted ==
  (~ready /\ \A l \in Loop : ~Alive(l)) ~> \E l \in Loop : loop[l] = "running"

=============================================================================
