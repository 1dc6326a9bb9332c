-------------------------- MODULE ClientLifeProofs --------------------------
(* What holds of a Client beside its queues: of its loop, for every number   *)
(* of loops and requests, every option and every set of faults; of the        *)
(* history that it keeps itself, for every set of Plays and ids, batch size  *)
(* and length of the account; and of the ranges of its service's history,    *)
(* for every set of dates and every duration.                                *)
EXTENDS ScrobbleLoop, HistoricalStore, HistoryRanges, FiniteSetTheorems, SequenceTheorems,
        WellFoundedInduction, TLAPS

-----------------------------------------------------------------------------
(* The loop: its steps, seen from the loops and seen from the tasks *)

Owning == {"preparing", "prepared", "initializing", "initialized"}

\* what a step may do to the loops and their fields
LoopChange ==
  \/ UNCHANGED <<flags, loops>>
  \/ StartLoop
  \/ Abort
  \/ \E l \in Loop : LoopStep(l)

\* what a step may do to a task and to the initialisation it may own
TaskChange ==
  \/ UNCHANGED tasks
  \/ \E t \in Task, where \in TaskState :
       /\ GoTo(t, where)
       /\ \/ /\ initController' = initController
             /\ (initController = t) <=> (where \in Owning)
          \/ initController = None /\ initController' = t /\ where \in Owning
          \/ /\ initController = t /\ initController' = None
             /\ where \notin Owning

(* An initialisation belongs to one task, and only that task waits for       *)
(* one.                                                                      *)
LEMMA OwnerOnly ==
  ASSUME OneInitialization, NEW t \in Task
  PROVE  at[t] \in Owning <=> initController = t
BY DEF OneInitialization, Owning

(* What is left of the type invariant: the values no other part changes.     *)
OtherTypes ==
  /\ ready \in BOOLEAN
  /\ deadTask \in {"waiting", "running", "hung"}
  /\ interventions \in 0..MaxInterventions

TaskInv ==
  /\ at \in [Task -> TaskState]
  /\ initController \in Task \cup {None}
  /\ OneInitialization

(* An event that may happen is counted within its bound.                     *)
LEMMA Intervened ==
  ASSUME LoopAssumption, interventions \in 0..MaxInterventions,
         NEW event, Intervene(event)
  PROVE  interventions' \in 0..MaxInterventions
BY DEF LoopAssumption, Intervene

(* A task that begins to initialise owns the attempt, or is refused and      *)
(* idle.                                                                     *)
LEMMA BeginTask ==
  ASSUME TaskInv, NEW t \in Task, NEW where \in Owning, at[t] \notin Owning,
         BeginInitialize(t, where)
  PROVE  TaskChange
<1>1. initController # t
  BY OwnerOnly DEF TaskInv
<1>2. where \in TaskState /\ "idle" \in TaskState /\ "idle" \notin Owning
  BY DEF Owning, TaskState
<1>3. QED
  BY <1>1, <1>2 DEF TaskChange, BeginInitialize, tasks

(* A request that starts the loop either does so or initialises first.       *)
LEMMA MonitorChanges ==
  ASSUME TaskInv, NEW c \in Call, at[c] \notin Owning,
         NEW force, Monitor(c, force)
  PROVE  LoopChange /\ TaskChange
<1>1. c \in Task /\ initController # c
  BY OwnerOnly DEF TaskInv, Task
<1>2. CASE StartLoop /\ GoTo(c, "idle") /\ UNCHANGED initController
  <2>1. "idle" \in TaskState /\ "idle" \notin Owning
    BY DEF TaskState, Owning
  <2>2. QED
    BY <1>1, <1>2, <2>1 DEF LoopChange, TaskChange
<1>3. CASE BeginInitialize(c, "initializing") /\ UNCHANGED <<flags, loops>>
  <2>1. "initializing" \in Owning
    BY DEF Owning
  <2>2. QED
    BY <1>1, <1>3, <2>1, BeginTask DEF LoopChange
<1>4. QED
  BY <1>2, <1>3 DEF Monitor

(* Every step changes the loops in one of the ways of LoopChange, the tasks  *)
(* in one of those of TaskChange, and the rest within its types.             *)
LEMMA StepChanges ==
  ASSUME TaskInv, OtherTypes, LoopAssumption, [Next]_vars
  PROVE  LoopChange /\ TaskChange /\ OtherTypes'
<1>1. CASE UNCHANGED vars
  BY <1>1 DEF vars, LoopChange, TaskChange, OtherTypes
<1>2. ASSUME NEW l \in Loop, LoopStep(l) PROVE LoopChange /\ TaskChange /\ OtherTypes'
  <2>1. LoopChange
    BY <1>2 DEF LoopChange
  <2>2. UNCHANGED <<ready, deadTask, tasks>>
    BY <1>2 DEF LoopStep, LoopSucceeds, LoopFails, LoopResumes, LoopEnds, NothingElse, tasks
  <2>3. UNCHANGED interventions \/ \E event : Intervene(event)
    BY <1>2 DEF LoopStep, LoopSucceeds, LoopFails, LoopResumes, LoopEnds, NothingElse
  <2>4. TaskChange
    BY <2>2 DEF TaskChange
  <2>5. interventions' \in 0..MaxInterventions
    BY <2>3, Intervened DEF OtherTypes
  <2>6. QED
    BY <2>1, <2>2, <2>4, <2>5, Zenon DEF OtherTypes
<1>3. ASSUME NEW t \in Task, InitializeStep(t)
      PROVE  LoopChange /\ TaskChange /\ OtherTypes'
  <2>1. at[t] \in Owning /\ initController = t
    BY <1>3, OwnerOnly DEF InitializeStep, StagesPass, StageFails, Prepared,
       Initialized, Owning, TaskInv
  <2>2. CASE StagesPass(t)
    <3>1. \E where \in Owning \cap TaskState : GoTo(t, where)
      BY <2>2 DEF StagesPass, Owning, TaskState
    <3>2. QED
      BY <2>1, <2>2, <3>1 DEF StagesPass, LoopChange, TaskChange, OtherTypes, NothingElse
  <2>3. CASE StageFails(t)
    <3>1. "initializing" \in Owning \cap TaskState /\ "idle" \in TaskState \ Owning
      BY DEF Owning, TaskState
    <3>2. TaskChange
      BY <2>1, <2>3, <3>1 DEF StageFails, TaskChange
    <3>3. LoopChange
      BY <2>3 DEF StageFails, LoopChange
    <3>4. QED
      BY <2>3, <3>2, <3>3, Intervened, Zenon DEF StageFails, OtherTypes
  <2>4. CASE Initialized(t)
    <3>1. "idle" \in TaskState \ Owning
      BY DEF Owning, TaskState
    <3>2. QED
      BY <2>1, <2>4, <3>1 DEF Initialized, Finish, LoopChange, TaskChange, OtherTypes, NothingElse
  <2>5. CASE Prepared(t)
    <3>1. "initializing" \in Owning \cap TaskState /\ "idle" \in TaskState \ Owning
      BY DEF Owning, TaskState
    <3>2. LoopChange
      BY <2>5 DEF Prepared, LoopChange, loops, flags
    <3>3. TaskChange
      BY <2>1, <2>5, <3>1 DEF Prepared, Finish, TaskChange
    <3>4. QED
      BY <2>5, <3>2, <3>3 DEF Prepared, OtherTypes, NothingElse
  <2>6. QED
    BY <1>3, <2>2, <2>3, <2>4, <2>5 DEF InitializeStep
<1>4. ASSUME NEW c \in Call, RequestStep(c)
      PROVE  LoopChange /\ TaskChange /\ OtherTypes'
  <2> c \in Task
    BY DEF Task
  <2>1. ASSUME at[c] \in {"idle", "stopping", "stoppingForced"}
        PROVE  at[c] \notin Owning /\ initController # c
    BY <2>1, OwnerOnly DEF Owning, TaskInv
  <2>2. CASE RestartGoesOn(c)
    <3>1. LoopChange /\ TaskChange
      BY <2>1, <2>2, MonitorChanges DEF RestartGoesOn
    <3>2. QED
      BY <2>2, <3>1 DEF RestartGoesOn, OtherTypes, NothingElse
  <2>3. CASE RestartGivesUp(c)
    <3>1. "idle" \in TaskState \ Owning
      BY DEF Owning, TaskState
    <3>2. QED
      BY <2>1, <2>3, <3>1 DEF RestartGivesUp, LoopChange, TaskChange, OtherTypes, NothingElse
  <2>4. CASE Reauthenticate(c)
    <3>1. LoopChange /\ TaskChange
      <4>1. CASE BeginInitialize(c, "preparing") /\ UNCHANGED <<flags, loops>>
        BY <2>1, <2>4, <4>1, BeginTask DEF Reauthenticate, LoopChange, Owning
      <4>2. CASE Monitor(c, FALSE)
        BY <2>1, <2>4, <4>2, MonitorChanges DEF Reauthenticate
      <4>3. QED
        BY <2>4, <4>1, <4>2 DEF Reauthenticate
    <3>2. QED
      BY <2>4, <3>1, Intervened DEF Reauthenticate, OtherTypes
  <2>5. ASSUME NEW force \in BOOLEAN, Restart(c, force)
        PROVE  LoopChange /\ TaskChange /\ OtherTypes'
    <3>1. CASE Monitor(c, force)
      <4>1. LoopChange /\ TaskChange
        BY <2>1, <2>5, <3>1, MonitorChanges DEF Restart
      <4>2. QED
        BY <2>5, <4>1, Intervened DEF Restart, OtherTypes
    <3>2. CASE Abort /\ GoTo(c, IF force THEN "stoppingForced" ELSE "stopping")
               /\ UNCHANGED initController
      <4>1. {"stopping", "stoppingForced"} \subseteq TaskState \ Owning
        BY DEF Owning, TaskState
      <4>2. LoopChange /\ TaskChange
        BY <2>1, <2>5, <3>2, <4>1 DEF Restart, LoopChange, TaskChange
      <4>3. QED
        BY <2>5, <4>2, Intervened DEF Restart, OtherTypes
    <3>3. QED
      BY <2>5, <3>1, <3>2 DEF Restart
  <2>6. QED
    BY <1>4, <2>2, <2>3, <2>4, <2>5 DEF RequestStep
<1>5. CASE Heartbeat
  <2>1. "heartbeat" \in Task /\ at["heartbeat"] \notin Owning /\ "preparing" \in Owning
    BY <1>5 DEF Heartbeat, Task, Owning
  <2>2. TaskChange
    BY <1>5, <2>1, BeginTask DEF Heartbeat
  <2>3. QED
    BY <1>5, <2>2 DEF Heartbeat, LoopChange, OtherTypes, NothingElse
<1>6. CASE Disconnected
  <2>1. LoopChange /\ TaskChange
    BY <1>6, Zenon DEF Disconnected, LoopChange, TaskChange
  <2>2. QED
    BY <1>6, <2>1, Intervened, Zenon DEF Disconnected, OtherTypes
<1>7. CASE DeadTick \/ DeadDone
  BY <1>7 DEF DeadTick, DeadDone, LoopChange, TaskChange, OtherTypes, tasks
<1>8. QED
  BY <1>1, <1>2, <1>3, <1>4, <1>5, <1>6, <1>7 DEF Next

-----------------------------------------------------------------------------
(* The tasks *)

(* Every way to change the tasks keeps initialisations exclusive.            *)
LEMMA TasksStep ==
  ASSUME LoopAssumption, TaskInv, TaskChange
  PROVE  TaskInv'
<1>1. None \notin Task
  BY DEF LoopAssumption, Task, None
<1>2. CASE UNCHANGED tasks
  BY <1>2 DEF tasks, TaskInv, OneInitialization
<1>3. ASSUME NEW t \in Task, NEW where \in TaskState, GoTo(t, where),
             \/ /\ initController' = initController
                /\ (initController = t) <=> (where \in Owning)
             \/ initController = None /\ initController' = t /\ where \in Owning
             \/ /\ initController = t /\ initController' = None
                /\ where \notin Owning
      PROVE  TaskInv'
  <2>1. /\ at' \in [Task -> TaskState]
        /\ initController' \in Task \cup {None}
    BY <1>3 DEF TaskInv, GoTo
  <2>2. at'[t] \in Owning <=> initController' = t
    BY <1>1, <1>3 DEF TaskInv, GoTo
  <2>3. ASSUME NEW u \in Task, u # t
        PROVE  at'[u] \in Owning <=> initController' = u
    <3>1. at'[u] = at[u]
      BY <1>3, <2>3 DEF TaskInv, GoTo
    <3>2. at[u] \in Owning <=> initController = u
      BY OwnerOnly DEF TaskInv
    <3>3. QED
      BY <1>1, <1>3, <2>3, <3>1, <3>2
  <2>4. QED
    BY <2>1, <2>2, <2>3 DEF TaskInv, OneInitialization, Owning
<1>4. QED
  BY <1>2, <1>3 DEF TaskChange

-----------------------------------------------------------------------------
(* The loops *)

BackingOff == {l \in Loop : loop[l] = "backoff"}

\* each loop that backs off will count one failure when it resumes
RetryBudget ==
  /\ scrobbleRetries \in Nat
  /\ scrobbleRetries + Cardinality(BackingOff)
       <= MaxRequestRetries + Cardinality(Loop)

LoopTypes ==
  /\ scrobbling \in BOOLEAN
  /\ abortController \in Loop \cup {None}
  /\ loop \in [Loop -> LoopState]
  /\ aborted \subseteq {l \in Loop : loop[l] # "off"}

LoopInv == LoopTypes /\ RetryBudget /\ FieldsAreCurrent

(* The loops that back off can be counted.                                   *)
LEMMA BackingOffCount ==
  ASSUME LoopAssumption
  PROVE  /\ Cardinality(Loop) \in Nat
         /\ IsFiniteSet(BackingOff)
         /\ Cardinality(BackingOff) \in 0..Cardinality(Loop)
<1>1. IsFiniteSet(Loop) /\ BackingOff \in SUBSET Loop
  BY DEF LoopAssumption, BackingOff
<1>2. QED
  BY <1>1, FS_CardinalityType, FS_Subset

(* A loop that ends leaves the fields as if there were none.                 *)
LEMMA EndTypes ==
  ASSUME LoopInv, NEW l \in Loop, End(l)
  PROVE  LoopTypes' /\ FieldsAreCurrent'
<1>1. scrobbling' = FALSE /\ abortController' = None
  BY DEF End, LoopFieldsReset
<1>2. loop' \in [Loop -> LoopState]
  BY DEF LoopInv, LoopTypes, End, LoopState
<1>3. aborted' \subseteq {m \in Loop : loop'[m] # "off"}
  BY DEF LoopInv, LoopTypes, End
<1>4. LoopTypes'
  BY <1>1, <1>2, <1>3, Zenon DEF LoopTypes
<1>5. FieldsAreCurrent'
  BY <1>1, Zenon DEF FieldsAreCurrent
<1>6. QED
  BY <1>4, <1>5

(* A loop that starts or resumes sets the flag.                              *)
LEMMA RunningTypes ==
  ASSUME LoopInv, NEW l \in Loop, Running(l), UNCHANGED aborted,
         abortController' \in {abortController, l}
  PROVE  LoopTypes' /\ FieldsAreCurrent'
<1>1. scrobbling' = TRUE
  BY DEF Running
<1>2. /\ loop' \in [Loop -> LoopState] /\ loop'[l] = "running"
      /\ \A m \in Loop : m # l => loop'[m] = loop[m]
  BY DEF LoopInv, LoopTypes, Running, LoopState
<1>3. /\ aborted' \subseteq {m \in Loop : loop'[m] # "off"}
      /\ abortController' \in Loop \cup {None}
  BY <1>2 DEF LoopInv, LoopTypes
<1>4. LoopTypes'
  BY <1>1, <1>2, <1>3, Zenon DEF LoopTypes
<1>5. abortController' # None => loop'[abortController'] # "off"
  BY <1>2 DEF LoopInv, LoopTypes, FieldsAreCurrent, Alive
<1>6. FieldsAreCurrent'
  BY <1>1, <1>2, <1>5, Zenon DEF FieldsAreCurrent, Alive
<1>7. QED
  BY <1>4, <1>6

(* Every way to change the loops keeps their invariant.                      *)
LEMMA LoopsStep ==
  ASSUME LoopAssumption, LoopInv, LoopChange
  PROVE  LoopInv'
<1> DEFINE Backing == {l \in Loop : loop'[l] = "backoff"}
<1>1. /\ Cardinality(Loop) \in Nat /\ MaxRequestRetries \in Nat
      /\ IsFiniteSet(BackingOff)
      /\ Cardinality(BackingOff) \in 0..Cardinality(Loop)
  BY BackingOffCount DEF LoopAssumption
<1>2. Cardinality(Backing) \in 0..Cardinality(Loop)
  <2>1. IsFiniteSet(Loop) /\ Backing \in SUBSET Loop
    BY DEF LoopAssumption
  <2>2. QED
    BY <2>1, FS_CardinalityType, FS_Subset
<1>3. Backing = BackingOff'
  BY DEF BackingOff
<1>4. ASSUME LoopTypes', FieldsAreCurrent', scrobbleRetries' \in Nat,
             scrobbleRetries' + Cardinality(Backing)
               <= MaxRequestRetries + Cardinality(Loop)
      PROVE  LoopInv'
  BY <1>3, <1>4, Zenon DEF LoopInv, RetryBudget
<1> HIDE DEF Backing
<1>5. CASE UNCHANGED <<flags, loops>>
  BY <1>5 DEF flags, loops, LoopInv, LoopTypes, RetryBudget, BackingOff,
     FieldsAreCurrent, Alive
<1>6. CASE StartLoop
  <2>1. LoopTypes' /\ FieldsAreCurrent'
    <3>1. ASSUME NEW l \in Loop, Running(l), abortController' = l, UNCHANGED aborted
          PROVE  LoopTypes' /\ FieldsAreCurrent'
      BY <3>1, RunningTypes
    <3>2. CASE LoopFieldsReset /\ UNCHANGED <<loop, aborted>>
      <4>1. scrobbling' = FALSE /\ abortController' = None
        BY <3>2 DEF LoopFieldsReset
      <4>2. LoopTypes'
        BY <3>2, <4>1, Zenon DEF LoopInv, LoopTypes
      <4>3. FieldsAreCurrent'
        BY <4>1, Zenon DEF FieldsAreCurrent
      <4>4. QED
        BY <4>2, <4>3
    <3>3. QED
      BY <1>6, <3>1, <3>2 DEF StartLoop
  <2>2. scrobbleRetries' = 0
    BY <1>6 DEF StartLoop
  <2>3. QED
    BY <1>1, <1>2, <1>4, <2>1, <2>2
<1>7. CASE Abort
  <2>1. LoopTypes'
    BY <1>7 DEF Abort, flags, LoopInv, LoopTypes, FieldsAreCurrent, Alive
  <2>2. FieldsAreCurrent'
    BY <1>7, Zenon DEF Abort, flags, LoopInv, FieldsAreCurrent, Alive
  <2>3. BackingOff' = BackingOff /\ scrobbleRetries' = scrobbleRetries
    BY <1>7 DEF Abort, BackingOff
  <2>4. QED
    BY <1>3, <1>4, <2>1, <2>2, <2>3 DEF LoopInv, RetryBudget
<1>8. ASSUME NEW l \in Loop, LoopSucceeds(l)
      PROVE  LoopInv'
  <2>1. scrobbleRetries' = 0 /\ UNCHANGED <<flags, loop, aborted>>
    BY <1>8 DEF LoopSucceeds
  <2>2. LoopTypes' /\ FieldsAreCurrent'
    BY <2>1, Zenon DEF flags, LoopInv, LoopTypes, FieldsAreCurrent, Alive
  <2>3. QED
    BY <1>1, <1>2, <1>4, <2>1, <2>2
<1>9. ASSUME NEW l \in Loop, LoopFails(l)
      PROVE  LoopInv'
  <2>1. /\ scrobbling' = FALSE
        /\ UNCHANGED <<abortController, aborted, scrobbleRetries>>
    BY <1>9 DEF LoopFails
  <2>2. /\ loop' \in [Loop -> LoopState]
        /\ \A m \in Loop : m # l => loop'[m] = loop[m]
        /\ loop'[l] \in {"backoff", "ending"}
        /\ loop'[l] = "backoff" => scrobbleRetries < MaxRequestRetries
    BY <1>9 DEF LoopFails, LoopInv, LoopTypes, LoopState
  <2>3. LoopTypes'
    <3>1. aborted' \subseteq {m \in Loop : loop'[m] # "off"}
      BY <2>1, <2>2 DEF LoopInv, LoopTypes
    <3>2. QED
      BY <2>1, <2>2, <3>1, Zenon DEF LoopInv, LoopTypes
  <2>4. FieldsAreCurrent'
    <3>1. abortController' # None => loop'[abortController'] # "off"
      BY <2>1, <2>2 DEF LoopInv, LoopTypes, FieldsAreCurrent, Alive
    <3>2. QED
      BY <2>1, <3>1, Zenon DEF FieldsAreCurrent, Alive
  <2>5. CASE loop'[l] = "backoff"
    BY <1>1, <1>2, <1>4, <2>1, <2>2, <2>3, <2>4, <2>5 DEF LoopInv, RetryBudget
  <2>6. CASE loop'[l] = "ending"
    <3>1. loop[l] = "running"
      BY <1>9 DEF LoopFails
    <3>2. Backing = BackingOff
      BY <2>2, <2>6, <3>1 DEF Backing, BackingOff
    <3>3. QED
      BY <1>4, <2>1, <2>3, <2>4, <3>2 DEF LoopInv, RetryBudget
  <2>7. QED
    BY <2>2, <2>5, <2>6
<1>10. ASSUME NEW l \in Loop, LoopResumes(l)
       PROVE  LoopInv'
  <2>1. LoopTypes' /\ FieldsAreCurrent'
    <3>1. CASE End(l)
      BY <3>1, EndTypes
    <3>2. CASE Running(l) /\ UNCHANGED <<aborted, abortController>>
      BY <3>2, RunningTypes
    <3>3. QED
      BY <1>10, <3>1, <3>2 DEF LoopResumes
  <2>2. scrobbleRetries' = scrobbleRetries + 1
    BY <1>10 DEF LoopResumes
  <2>3. l \in BackingOff /\ Backing = BackingOff \ {l}
    BY <1>10 DEF LoopResumes, End, Running, BackingOff, Backing, LoopInv, LoopTypes
  <2>4. Cardinality(Backing) = Cardinality(BackingOff) - 1
    BY <1>1, <2>3, FS_RemoveElement
  <2>5. QED
    BY <1>1, <1>2, <1>4, <2>1, <2>2, <2>4 DEF LoopInv, RetryBudget
<1>11. ASSUME NEW l \in Loop, LoopEnds(l)
       PROVE  LoopInv'
  <2>1. LoopTypes' /\ FieldsAreCurrent'
    BY <1>11, EndTypes DEF LoopEnds
  <2>2. Backing = BackingOff /\ scrobbleRetries' = scrobbleRetries
    BY <1>11 DEF LoopEnds, End, BackingOff, Backing, LoopInv, LoopTypes
  <2>3. QED
    BY <1>4, <2>1, <2>2 DEF LoopInv, RetryBudget
<1>12. QED
  BY <1>5, <1>6, <1>7, <1>8, <1>9, <1>10, <1>11 DEF LoopChange, LoopStep

-----------------------------------------------------------------------------
(* The theorems *)

LoopsInv == LoopInv /\ TaskInv /\ OtherTypes

(* The invariant holds of a Client as the process starts it.                 *)
LEMMA LoopStarts ==
  ASSUME LoopAssumption, Init
  PROVE  LoopsInv
<1>1. None \notin Task /\ "idle" \in TaskState \ Owning
  BY DEF LoopAssumption, Task, None, TaskState, Owning
<1>2. TaskInv
  BY <1>1 DEF Init, TaskInv, OneInitialization, Owning
<1>3. OtherTypes
  <2>1. interventions \in 0..MaxInterventions
    BY DEF Init, LoopAssumption
  <2>2. QED
    BY <2>1, Zenon DEF Init, OtherTypes
<1>4. LoopTypes
  BY DEF Init, LoopTypes, LoopState
<1>5. FieldsAreCurrent
  BY DEF Init, FieldsAreCurrent
<1>6. RetryBudget
  BY BackingOffCount DEF Init, RetryBudget, LoopAssumption
<1>7. QED
  BY <1>2, <1>3, <1>4, <1>5, <1>6 DEF LoopsInv, LoopInv

(* The invariant is inductive.                                              *)
LEMMA LoopInvAlways == Spec => []LoopsInv
<1>1. Init => LoopsInv
  BY LoopStarts, LoopAssumption
<1>2. LoopsInv /\ [Next]_vars => LoopsInv'
  BY LoopAssumption, StepChanges, LoopsStep, TasksStep DEF LoopsInv
<1>3. QED
  BY <1>1, <1>2, PTL DEF Spec

(* The variables keep their types, whatever happens: retries counted by      *)
(* loops that overlap stay within one more per loop.                         *)
THEOREM LoopsAreTyped == Spec => []TypeOK
<1>1. LoopsInv => TypeOK
  <2> SUFFICES ASSUME LoopsInv PROVE TypeOK
    OBVIOUS
  <2>1. scrobbleRetries \in 0..(MaxRequestRetries + Cardinality(Loop))
    BY BackingOffCount, LoopAssumption DEF LoopsInv, LoopInv, RetryBudget, LoopAssumption
  <2>2. QED
    BY <2>1, Zenon DEF LoopsInv, LoopInv, LoopTypes, TaskInv, OtherTypes, TypeOK
<1>2. QED
  BY <1>1, LoopInvAlways, PTL

(* Whatever the heartbeat, restarts, failures and lost connections do, the   *)
(* flag is set only while a loop runs, and the abort controller is that of a *)
(* loop which is alive.                                                      *)
THEOREM FieldsAlwaysCurrent == Spec => []FieldsAreCurrent
<1>1. LoopsInv => FieldsAreCurrent
  BY DEF LoopsInv, LoopInv
<1>2. QED
  BY <1>1, LoopInvAlways, PTL

(* Initialisations exclude each other, whoever asks for them.                *)
THEOREM OneInitializationAlways == Spec => []OneInitialization
<1>1. LoopsInv => OneInitialization
  BY DEF LoopsInv, TaskInv
<1>2. QED
  BY <1>1, LoopInvAlways, PTL

-----------------------------------------------------------------------------
(* When restarts come one at a time *)

\* no loop fails, no connection is lost, and there is one request at a time
OneRestarter ==
  /\ Faults \subseteq {"restart", "initFails"}
  /\ \A c, d \in Call : c = d

LoopsControlled ==
  /\ \A l \in Loop : loop[l] \in {"off", "running"}
  /\ RunningIsStoppable

\* a request that initialises has stopped the loop; the heartbeat starts the
\* loop itself, since the client is ready after it has initialised it
TasksControlled ==
  /\ at["heartbeat"] \in {"idle", "preparing", "prepared"}
  /\ at["heartbeat"] = "prepared" => ready
  /\ \A c \in Call :
       /\ at[c] \notin {"preparing", "prepared"}
       /\ at[c] \in {"initializing", "initialized"} => ~scrobbling

Controlled == LoopsControlled /\ TasksControlled

(* A start that finds the flag reset starts the only loop there is.          *)
LEMMA StartControlled ==
  ASSUME LoopInv, LoopsControlled, StartLoop, ~scrobbling
  PROVE  LoopsControlled'
<1>1. PICK l \in Loop : Running(l) /\ abortController' = l
  BY DEF StartLoop
<1>2. scrobbling'
  BY <1>1 DEF Running
<1>3. \A m \in Loop : loop[m] = "off"
  BY DEF LoopsControlled, RunningIsStoppable
<1>4. \A m \in Loop : loop'[m] = IF m = l THEN "running" ELSE "off"
  BY <1>1, <1>3 DEF Running, LoopInv, LoopTypes
<1>5. QED
  BY <1>1, <1>2, <1>4 DEF LoopsControlled, RunningIsStoppable

(* A step that leaves the loops alone leaves them under control.             *)
LEMMA SameLoops ==
  ASSUME LoopsControlled, UNCHANGED <<flags, loop>>
  PROVE  LoopsControlled'
BY DEF flags, LoopsControlled, RunningIsStoppable

(* The start of a request that found nothing to stop.                        *)
LEMMA MonitorControlled ==
  ASSUME LoopAssumption, LoopsInv, Controlled, NEW c \in Call, NEW force,
         OneRestarter, at[c] \in {"idle", "stopping", "stoppingForced"},
         ~scrobbling, Monitor(c, force), UNCHANGED ready
  PROVE  Controlled'
<1>1. c \in Task /\ c # "heartbeat" /\ "heartbeat" \in Task
  BY DEF LoopAssumption, Task
<1>2. at \in [Task -> TaskState] /\ \A d \in Call : d = c
  BY DEF LoopsInv, TaskInv, OneRestarter
<1>3. CASE StartLoop /\ GoTo(c, "idle")
  <2>1. LoopsControlled'
    BY <1>3, StartControlled DEF LoopsInv, Controlled
  <2>2. TasksControlled'
    BY <1>1, <1>2, <1>3 DEF GoTo, Controlled, TasksControlled
  <2>3. QED
    BY <2>1, <2>2 DEF Controlled
<1>4. CASE BeginInitialize(c, "initializing") /\ UNCHANGED <<flags, loops>>
  <2>1. LoopsControlled' /\ ~scrobbling'
    BY <1>4, SameLoops DEF flags, loops, Controlled
  <2>2. GoTo(c, "initializing") \/ GoTo(c, "idle")
    BY <1>4 DEF BeginInitialize
  <2>3. TasksControlled'
    BY <1>1, <1>2, <2>1, <2>2 DEF GoTo, Controlled, TasksControlled
  <2>4. QED
    BY <2>1, <2>3 DEF Controlled
<1>5. QED
  BY <1>3, <1>4 DEF Monitor

(* Every step keeps the running loop under the control of the dashboard.     *)
LEMMA ControlledStep ==
  ASSUME LoopAssumption, OneRestarter, LoopsInv, Controlled, [Next]_vars
  PROVE  Controlled'
<1>1. /\ "heartbeat" \in Task /\ "heartbeat" \notin Call
      /\ at \in [Task -> TaskState]
      /\ \A t \in Task : t # "heartbeat" => t \in Call
  BY DEF LoopAssumption, Task, LoopsInv, TaskInv
<1>2. CASE UNCHANGED vars
  BY <1>2, SameLoops DEF vars, loops, flags, tasks, Controlled, TasksControlled
<1>3. ASSUME NEW l \in Loop, LoopStep(l) PROVE Controlled'
  <2>1. CASE LoopSucceeds(l)
    <3>1. UNCHANGED <<ready, flags, loop, at>>
      BY <2>1 DEF LoopSucceeds, tasks
    <3>2. QED
      BY <3>1, SameLoops DEF flags, Controlled, TasksControlled
  <2>2. CASE LoopFails(l)
    BY <2>2 DEF LoopFails, Intervene, OneRestarter
  <2>3. CASE LoopResumes(l)
    BY <2>3 DEF LoopResumes, Controlled, LoopsControlled
  <2>4. CASE LoopEnds(l)
    <3>1. loop[l] = "running" /\ End(l) /\ UNCHANGED <<ready, at>>
      BY <2>4 DEF LoopEnds, Controlled, LoopsControlled, tasks
    <3>2. \A m \in Loop : loop'[m] = "off"
      BY <3>1 DEF End, Controlled, LoopsControlled, RunningIsStoppable,
         LoopsInv, LoopInv, LoopTypes
    <3>3. LoopsControlled'
      BY <3>2 DEF LoopsControlled, RunningIsStoppable
    <3>4. ~scrobbling'
      BY <3>1 DEF End, LoopFieldsReset
    <3>5. QED
      BY <3>1, <3>3, <3>4 DEF Controlled, TasksControlled
  <2>5. QED
    BY <1>3, <2>1, <2>2, <2>3, <2>4 DEF LoopStep
<1>4. ASSUME NEW t \in Task, InitializeStep(t) PROVE Controlled'
  <2>1. CASE StagesPass(t)
    <3>1. LoopsControlled' /\ UNCHANGED scrobbling /\ ready'
      BY <2>1, SameLoops DEF StagesPass, flags, loops, Controlled
    <3>2. TasksControlled'
      BY <1>1, <2>1, <3>1 DEF StagesPass, GoTo, Controlled, TasksControlled
    <3>3. QED
      BY <3>1, <3>2 DEF Controlled
  <2>2. CASE StageFails(t)
    <3>1. LoopsControlled' /\ UNCHANGED scrobbling
      BY <2>2, SameLoops DEF StageFails, flags, loops, Controlled
    <3>2. GoTo(t, "idle")
      BY <1>1, <2>2 DEF StageFails, Controlled, TasksControlled
    <3>3. at["heartbeat"] = "prepared" => t = "heartbeat"
      BY <1>1, <2>2, OwnerOnly DEF StageFails, LoopsInv, TaskInv, Owning
    <3>4. TasksControlled'
      BY <1>1, <3>1, <3>2, <3>3 DEF GoTo, Controlled, TasksControlled
    <3>5. QED
      BY <3>1, <3>4 DEF Controlled
  <2>3. ASSUME ~scrobbling, StartLoop, Finish(t), UNCHANGED ready,
               initController = t
        PROVE  Controlled'
    <3>1. LoopsControlled'
      BY <2>3, StartControlled DEF LoopsInv, Controlled
    <3>2. \A u \in Task : u # t => at[u] \notin Owning
      BY <2>3, OwnerOnly DEF LoopsInv, TaskInv
    <3>3. \A u \in Task : at'[u] = IF u = t THEN "idle" ELSE at[u]
      BY <1>1, <2>3 DEF Finish, GoTo
    <3>4. \A u \in Task : at'[u] \notin Owning
      BY <3>2, <3>3 DEF Owning
    <3>5. at'["heartbeat"] = "idle"
      BY <1>1, <3>3, <3>4 DEF Owning, Controlled, TasksControlled
    <3>6. \A c \in Call : at'[c] \notin Owning
      BY <3>4 DEF Task
    <3>7. TasksControlled'
      BY <3>5, <3>6, Zenon DEF Owning, TasksControlled
    <3>8. QED
      BY <3>1, <3>7 DEF Controlled
  <2>4. CASE Initialized(t)
    <3>1. initController = t
      BY <2>4, OwnerOnly DEF Initialized, LoopsInv, TaskInv, Owning
    <3>2. ~scrobbling
      BY <1>1, <2>4 DEF Initialized, Controlled, TasksControlled
    <3>3. QED
      BY <2>3, <2>4, <3>1, <3>2 DEF Initialized
  <2>5. CASE Prepared(t)
    <3>1. initController = t /\ t = "heartbeat" /\ ready
      BY <1>1, <2>5, OwnerOnly DEF Prepared, LoopsInv, TaskInv, Owning, Controlled,
         TasksControlled
    <3>2. CASE scrobbling
      <4>1. Finish(t) /\ UNCHANGED <<ready, flags, loop>>
        BY <2>5, <3>1, <3>2 DEF Prepared, loops
      <4>2. LoopsControlled'
        BY <4>1, SameLoops DEF Controlled
      <4>3. TasksControlled'
        BY <1>1, <3>1, <4>1 DEF Finish, GoTo, flags, Controlled, TasksControlled
      <4>4. QED
        BY <4>2, <4>3 DEF Controlled
    <3>3. CASE ~scrobbling
      BY <2>3, <2>5, <3>1, <3>3 DEF Prepared
    <3>4. QED
      BY <3>2, <3>3
  <2>6. QED
    BY <1>4, <2>1, <2>2, <2>4, <2>5 DEF InitializeStep
<1>5. ASSUME NEW c \in Call, RequestStep(c) PROVE Controlled'
  <2>1. CASE RestartGoesOn(c)
    BY <2>1, MonitorControlled DEF RestartGoesOn
  <2>2. CASE RestartGivesUp(c)
    <3>1. LoopsControlled'
      BY <2>2, SameLoops DEF RestartGivesUp, loops, Controlled
    <3>2. TasksControlled'
      BY <1>1, <2>2 DEF RestartGivesUp, GoTo, flags, Controlled, TasksControlled, Task
    <3>3. QED
      BY <3>1, <3>2 DEF Controlled
  <2>3. CASE Reauthenticate(c)
    BY <2>3 DEF Reauthenticate, Intervene, OneRestarter
  <2>4. ASSUME NEW force \in BOOLEAN, Restart(c, force) PROVE Controlled'
    <3>1. CASE ~scrobbling /\ Monitor(c, force)
      BY <2>4, <3>1, MonitorControlled DEF Restart
    <3>2. CASE Abort /\ GoTo(c, IF force THEN "stoppingForced" ELSE "stopping")
      <4>1. LoopsControlled'
        BY <3>2, SameLoops DEF Abort, Controlled
      <4>2. TasksControlled'
        BY <1>1, <2>4, <3>2 DEF Restart, Abort, GoTo, flags, Controlled,
           TasksControlled, Task
      <4>3. QED
        BY <4>1, <4>2 DEF Controlled
    <3>3. QED
      BY <2>4, <3>1, <3>2 DEF Restart
  <2>5. QED
    BY <1>5, <2>1, <2>2, <2>3, <2>4 DEF RequestStep
<1>6. CASE Heartbeat
  <2>1. LoopsControlled' /\ UNCHANGED <<scrobbling, ready>>
    BY <1>6, SameLoops DEF Heartbeat, flags, loops, Controlled
  <2>2. GoTo("heartbeat", "preparing") \/ GoTo("heartbeat", "idle")
    BY <1>6 DEF Heartbeat, BeginInitialize
  <2>3. TasksControlled'
    BY <1>1, <2>1, <2>2 DEF GoTo, Controlled, TasksControlled, Task
  <2>4. QED
    BY <2>1, <2>3 DEF Controlled
<1>7. CASE Disconnected
  BY <1>7 DEF Disconnected, Intervene, OneRestarter
<1>8. CASE DeadTick \/ DeadDone
  <2>1. UNCHANGED <<ready, flags, loop, at>>
    BY <1>8 DEF DeadTick, DeadDone, loops, tasks
  <2>2. QED
    BY <2>1, SameLoops DEF flags, Controlled, TasksControlled
<1>9. QED
  BY <1>2, <1>3, <1>4, <1>5, <1>6, <1>7, <1>8 DEF Next

(* While no loop fails, no connection is lost and restarts come one at a     *)
(* time, the loop that runs is the one the dashboard can stop, whatever the  *)
(* heartbeat does meanwhile and however often initialisations fail.          *)
THEOREM RunningStaysStoppable ==
  ASSUME OneRestarter
  PROVE  Spec => []RunningIsStoppable
<1>1. Init => Controlled
  BY LoopAssumption DEF LoopAssumption, Init, Controlled, LoopsControlled,
     RunningIsStoppable, TasksControlled, Task
<1>2. LoopsInv /\ Controlled /\ [Next]_vars => Controlled'
  BY OneRestarter, LoopAssumption, ControlledStep
<1>3. Controlled => RunningIsStoppable
  BY DEF Controlled, LoopsControlled
<1>4. QED
  BY <1>1, <1>2, <1>3, LoopInvAlways, PTL DEF Spec

-----------------------------------------------------------------------------
(* The history that a Client keeps itself: the account and the table *)

Listen == { ListenOf[p] : p \in Track }
Record == [listen : Listen, own : BOOLEAN]
Outcomes == {"new", "failed", "stopped", "scrobbled", "duped"}

\* what the variables hold, and that what is fetched is in the account
Typed ==
  /\ StoreTypeOK
  /\ records \in Seq(Record) /\ rows \subseteq [uid : Int, listen : Listen]
  /\ foreign \subseteq { n \in Int : n <= NoId }
  /\ play \in [Track -> Outcomes] /\ car \subseteq Keys
  /\ looked \in [Worker -> BOOLEAN] /\ excused \subseteq Track

LEMMA KeysAre ==
  ASSUME Typed
  PROVE  Keys = 1..Len(records) /\ Len(records) \in Nat
         /\ \A r \in Keys : r \in Int /\ r # NoId /\ r > NoId
BY DEF Typed, Keys, NoId

LEMMA PlaysAre ==
  ASSUME NEW p \in Track
  PROVE  ListenOf[p] \in Listen /\ IdOf[p] \in Int /\ IdOf[p] <= NoId
BY StoreAssumption DEF Listen

LEMMA AnyPlayIs == AnyPlay \in Track
BY StoreAssumption DEF AnyPlay

(* A record is put at the end of the account, and changes no other.          *)
LEMMA RecordsGrow ==
  ASSUME Typed, NEW p \in Track, NEW own \in BOOLEAN, Records(p, own)
  PROVE  /\ records' \in Seq(Record)
         /\ Keys' = Keys \cup {Len(records) + 1} /\ Len(records) + 1 \notin Keys
         /\ \A r \in Keys : records'[r] = records[r]
         /\ records'[Len(records) + 1] = [listen |-> ListenOf[p], own |-> own]
<1> DEFINE new == [listen |-> ListenOf[p], own |-> own]
<1>1. new \in Record /\ records' = Append(records, new) /\ records \in Seq(Record)
  BY PlaysAre DEF Records, Record, Typed
<1> HIDE DEF new
<1>2. /\ records' \in Seq(Record) /\ Len(records') = Len(records) + 1
      /\ \A r \in 1..Len(records) : records'[r] = records[r]
      /\ records'[Len(records) + 1] = new
  BY <1>1, AppendProperties
<1>3. Keys' = 1..Len(records') /\ Keys = 1..Len(records) /\ Len(records) \in Nat
  BY <1>1, <1>2 DEF Keys
<1>4. QED
  BY <1>2, <1>3 DEF new

(* What a step does to the account ...                                       *)
LEMMA AccountKinds ==
  ASSUME Typed, StoreNext
  PROVE  \/ records' = records
         \/ \E p \in Track : Records(p, FALSE)
         \/ \E w \in Worker : /\ step[w] = "submit" /\ Records(playObj[w], TRUE)
                              /\ SubmitRecord(w) \/ playObj[w] \in excused'
<1> USE DEF pullVars, importVars, scrobbleVars
<1>1. CASE \E w \in Worker : SubmitRecord(w) \/ \E created \in BOOLEAN : SubmitFails(w, created)
  BY <1>1 DEF SubmitRecord, SubmitFails
<1>2. CASE \E p \in Track : Elsewhere(p)
  BY <1>2 DEF Elsewhere
<1>3. CASE \/ RequestImport \/ Fetch \/ Check \/ CheckedAll \/ StoreBatch \/ ImportFails
           \/ PostInitialize \/ Ask \/ StoreRecent \/ Crash
           \/ \E p \in Track : OtherStores(p) \/ MarkStopped(p)
  BY <1>3 DEF RequestImport, Fetch, Check, CheckedAll, StoreBatch, ImportFails,
     PostInitialize, Ask, StoreRecent, Crash, OtherStores, MarkStopped
<1>4. CASE \E w \in Worker : \/ CompareStored(w) \/ StoreScrobble(w)
                            \/ \E p \in Track : LookUpTable(w, p) \/ Mark(w, p)
  BY <1>4 DEF CompareStored, StoreScrobble, LookUpTable, Mark
<1>5. QED
  BY <1>1, <1>2, <1>3, <1>4 DEF StoreNext

(* ... and to the table.                                                     *)
LEMMA TableKinds ==
  ASSUME Typed, StoreNext
  PROVE  \/ rows' = rows
         \/ \E S \in SUBSET Keys : Stores(S) /\ records' = records
         \/ \E w \in Worker : /\ step[w] = "store" /\ ~Taken(IdOf[playObj[w]])
                              /\ PutScrobble(playObj[w]) /\ records' = records
<1> USE DEF pullVars, importVars, scrobbleVars
<1>1. batch \in SUBSET Keys /\ unseen \in SUBSET Keys
  BY DEF Typed, StoreTypeOK
<1>2. CASE StoreBatch \/ StoreRecent
  BY <1>1, <1>2 DEF StoreBatch, StoreRecent
<1>3. CASE \E w \in Worker : StoreScrobble(w)
  BY <1>3 DEF StoreScrobble
<1>4. CASE \E w \in Worker : SubmitRecord(w) \/ \E created \in BOOLEAN : SubmitFails(w, created)
  BY <1>4 DEF SubmitRecord, SubmitFails, StoredBefore
<1>5. CASE \/ RequestImport \/ Fetch \/ Check \/ CheckedAll \/ ImportFails
           \/ PostInitialize \/ Ask \/ Crash
           \/ \E p \in Track : OtherStores(p) \/ MarkStopped(p) \/ Elsewhere(p)
  BY <1>5 DEF RequestImport, Fetch, Check, CheckedAll, ImportFails,
     PostInitialize, Ask, Crash, OtherStores, MarkStopped, Elsewhere
<1>6. CASE \E w \in Worker : \/ CompareStored(w)
                            \/ \E p \in Track : LookUpTable(w, p) \/ Mark(w, p)
  BY <1>6 DEF CompareStored, LookUpTable, Mark
<1>7. QED
  BY <1>2, <1>3, <1>4, <1>5, <1>6 DEF StoreNext

(* Nothing is forgotten by the account.                                      *)
LEMMA AccountStep ==
  ASSUME Typed, StoreNext
  PROVE  /\ records' \in Seq(Record) /\ Keys \subseteq Keys'
         /\ \A listen : IsRecorded(listen) => IsRecorded(listen)'
<1>1. CASE records' = records
  BY <1>1 DEF Typed, Keys, IsRecorded
<1>2. ASSUME NEW p \in Track, NEW own \in BOOLEAN, Records(p, own)
      PROVE  /\ records' \in Seq(Record) /\ Keys \subseteq Keys'
             /\ \A listen : IsRecorded(listen) => IsRecorded(listen)'
  BY <1>2, RecordsGrow DEF IsRecorded
<1>3. playObj \in [Worker -> Track]
  BY DEF Typed, StoreTypeOK
<1>4. ASSUME NEW w \in Worker, Records(playObj[w], TRUE)
      PROVE  /\ records' \in Seq(Record) /\ Keys \subseteq Keys'
             /\ \A listen : IsRecorded(listen) => IsRecorded(listen)'
  BY <1>2, <1>3, <1>4
<1>5. ASSUME NEW p \in Track, Records(p, FALSE)
      PROVE  /\ records' \in Seq(Record) /\ Keys \subseteq Keys'
             /\ \A listen : IsRecorded(listen) => IsRecorded(listen)'
  BY <1>2, <1>5
<1>6. \/ records' = records
      \/ \E p \in Track : Records(p, FALSE)
      \/ \E w \in Worker : Records(playObj[w], TRUE)
  BY AccountKinds
<1> HIDE DEF Keys, IsRecorded
<1>7. QED
  BY <1>1, <1>4, <1>5, <1>6

-----------------------------------------------------------------------------
(* Types *)

OneRowEach == \A row, other \in rows : row.uid = other.uid /\ row.uid # NoId => row = other

(* What is stored of a set of records has ids of its own.                    *)
LEMMA StoredAre ==
  ASSUME Typed, NEW S \in SUBSET Keys, Stores(S)
  PROVE  \A row \in rows' : row \in rows \/
           (\E r \in S : /\ row = [uid |-> r, listen |-> records[r].listen]
                         /\ ~Taken(r) /\ r \in Keys)
<1>1. \A r \in Storable(S) : r \in S /\ ~Taken(r) /\ r \in Keys
  BY KeysAre DEF Storable
<1>2. QED
  BY <1>1 DEF Stores

LEMMA RowsStep ==
  ASSUME Typed, StoreNext
  PROVE  rows' \subseteq [uid : Int, listen : Listen] /\ OneRowEach'
<1>1. OneRowEach /\ rows \subseteq [uid : Int, listen : Listen]
  BY DEF Typed, StoreTypeOK, OneRowEach
<1>2. CASE rows' = rows
  BY <1>1, <1>2 DEF OneRowEach
<1>3. ASSUME NEW S \in SUBSET Keys, Stores(S)
      PROVE  rows' \subseteq [uid : Int, listen : Listen] /\ OneRowEach'
  <2>1. \A r \in Keys : records[r] \in Record /\ r \in Int /\ r # NoId
    BY KeysAre DEF Typed
  <2>2. \A row \in rows' : row \in rows \/
          (\E r \in Keys : /\ row = [uid |-> r, listen |-> records[r].listen]
                           /\ \A other \in rows : other.uid # r)
    BY <1>3, <2>1, StoredAre DEF Taken, HasByUid
  <2>3. rows' \subseteq [uid : Int, listen : Listen]
    BY <1>1, <2>1, <2>2 DEF Record
  <2>4. OneRowEach'
    BY <1>1, <2>2 DEF OneRowEach
  <2>5. QED
    BY <2>3, <2>4
<1>4. ASSUME NEW p \in Track, ~Taken(IdOf[p]), PutScrobble(p)
      PROVE  rows' \subseteq [uid : Int, listen : Listen] /\ OneRowEach'
  <2>1. rows' = rows \cup {[uid |-> IdOf[p], listen |-> ListenOf[p]]}
    BY <1>4 DEF PutScrobble
  <2>2. IdOf[p] # NoId => \A row \in rows : row.uid # IdOf[p]
    BY <1>4 DEF Taken, HasByUid
  <2>3. QED
    BY <1>1, <2>1, <2>2, PlaysAre DEF OneRowEach
<1>5. playObj \in [Worker -> Track]
  BY DEF Typed, StoreTypeOK
<1>6. QED
  BY <1>2, <1>3, <1>4, <1>5, TableKinds

LEMMA ForeignStep ==
  ASSUME Typed, StoreNext
  PROVE  foreign' \subseteq { n \in Int : n <= NoId }
<1>1. foreign' = foreign \/ \E p \in Track : foreign' = foreign \cup {IdOf[p]}
  BY DEF StoreNext, RequestImport, Fetch, Check, CheckedAll, StoreBatch, ImportFails,
     PostInitialize, Ask, StoreRecent, SubmitRecord, SubmitFails, StoreScrobble, Crash,
     OtherStores, LookUpTable, CompareStored, Mark, MarkStopped, Elsewhere
<1>2. QED
  BY <1>1, PlaysAre DEF Typed

ImportMarks ==
  /\ imports \in {"none", "open", "success", "failed"}
  /\ stage \in {"no", "fetch", "check", "store"} /\ batch \subseteq car /\ todo \subseteq car
  /\ pull \in {"no", "import", "ask", "store"} /\ unseen \subseteq Keys
  /\ car \subseteq Keys

WorkMarks ==
  /\ step \in [Worker -> {"no", "compare", "submit", "store"}]
  /\ playObj \in [Worker -> Track] /\ settling \in [Worker -> SUBSET Track]
  /\ play \in [Track -> Outcomes]
  /\ looked \in [Worker -> BOOLEAN] /\ excused \subseteq Track

LEMMA ImportMarksStep ==
  ASSUME Typed, StoreNext
  PROVE  ImportMarks'
<1>1. ImportMarks /\ Keys \subseteq Keys'
  BY AccountStep DEF Typed, StoreTypeOK, ImportMarks
<1> HIDE DEF Keys
<1> USE <1>1 DEF ImportMarks, importVars, pullVars
<1>2. CASE RequestImport \/ Fetch \/ ImportFails \/ CheckedAll \/ StoreBatch
  BY <1>2 DEF RequestImport, StartsImport, Fetch, ImportFails, CheckedAll, StoreBatch,
     EndsImport
<1>3. CASE Check
  BY <1>3 DEF Check
<1>4. CASE PostInitialize \/ Ask \/ StoreRecent
  BY <1>4 DEF PostInitialize, StartsImport, Ask, StoreRecent
<1>5. CASE Crash
  BY <1>5 DEF Crash
<1>6. CASE UNCHANGED <<imports, stage, batch, todo, car, pull, unseen>>
  BY <1>6
<1>7. CASE \E w \in Worker : \/ SubmitRecord(w) \/ StoreScrobble(w) \/ CompareStored(w)
                            \/ \E created \in BOOLEAN : SubmitFails(w, created)
                            \/ \E p \in Track : LookUpTable(w, p) \/ Mark(w, p)
  BY <1>6, <1>7 DEF SubmitRecord, StoreScrobble, SubmitFails, CompareStored, LookUpTable, Mark
<1>8. CASE \E p \in Track : Elsewhere(p) \/ OtherStores(p) \/ MarkStopped(p)
  BY <1>6, <1>8 DEF Elsewhere, OtherStores, MarkStopped
<1>9. QED
  BY <1>2, <1>3, <1>4, <1>5, <1>7, <1>8 DEF StoreNext

LEMMA FreesTyped ==
  ASSUME WorkMarks, NEW w \in Worker, Frees(w)
  PROVE  /\ step' \in [Worker -> {"no", "compare", "submit", "store"}]
         /\ playObj' \in [Worker -> Track] /\ looked' \in [Worker -> BOOLEAN]
BY AnyPlayIs DEF WorkMarks, Frees

LEMMA WorkMarksStep ==
  ASSUME Typed, StoreNext
  PROVE  WorkMarks'
<1>1. WorkMarks /\ AnyPlay \in Track
  BY AnyPlayIs DEF Typed, StoreTypeOK, WorkMarks
<1> USE <1>1 DEF WorkMarks
<1>2. CASE UNCHANGED scrobbleVars
  BY <1>2 DEF scrobbleVars
<1>3. CASE \/ RequestImport \/ Fetch \/ Check \/ CheckedAll \/ StoreBatch \/ ImportFails
           \/ PostInitialize \/ Ask \/ StoreRecent
           \/ \E p \in Track : Elsewhere(p) \/ OtherStores(p)
  BY <1>2, <1>3 DEF RequestImport, Fetch, Check, CheckedAll, StoreBatch, ImportFails,
     PostInitialize, Ask, StoreRecent, Elsewhere, OtherStores
<1>4. ASSUME NEW w \in Worker, NEW p \in Track, LookUpTable(w, p)
      PROVE  WorkMarks'
  <2>1. InTable(p) \in BOOLEAN
    BY DEF InTable
  <2>2. PICK found \in BOOLEAN : found = InTable(p)
    BY <2>1
  <2>3. looked' = [looked EXCEPT ![w] = found]
    BY <1>4, <2>2 DEF LookUpTable
  <2>4. looked' \in [Worker -> BOOLEAN]
    BY <2>3
  <2>5. /\ step' = [step EXCEPT ![w] = "compare"] /\ playObj' = [playObj EXCEPT ![w] = p]
        /\ UNCHANGED <<play, settling, excused>>
    BY <1>4 DEF LookUpTable
  <2>6. QED
    BY <2>4, <2>5
<1>5. ASSUME NEW w \in Worker, CompareStored(w)
      PROVE  WorkMarks'
  <2>1. CASE Frees(w) /\ play' = [play EXCEPT ![playObj[w]] = "duped"] /\ excused' = excused
             /\ UNCHANGED settling
    BY <2>1, FreesTyped DEF Outcomes
  <2>2. CASE /\ step' = [step EXCEPT ![w] = "submit"]
             /\ excused' = excused \cup { p \in {playObj[w]} : Meanwhile(w) }
             /\ UNCHANGED <<play, playObj, looked, settling>>
    <3>1. excused' \subseteq excused \cup {playObj[w]}
      BY <2>2
    <3>2. excused' \subseteq Track
      BY <3>1
    <3>3. QED
      BY <2>2, <3>2
  <2>3. QED
    BY <1>5, <2>1, <2>2 DEF CompareStored
<1>6. ASSUME NEW w \in Worker, SubmitRecord(w)
      PROVE  WorkMarks'
  BY <1>6, FreesTyped DEF SubmitRecord, Submits
<1>7. ASSUME NEW w \in Worker, NEW created \in BOOLEAN, SubmitFails(w, created)
      PROVE  WorkMarks'
  <2>1. Fails(w) /\ (excused' = excused \/ excused' = excused \cup {playObj[w]})
    BY <1>7 DEF SubmitFails
  <2>2. excused' \subseteq Track
    BY <2>1
  <2>3. QED
    BY <2>1, <2>2, FreesTyped DEF Fails, Outcomes
<1>8. ASSUME NEW w \in Worker, StoreScrobble(w)
      PROVE  WorkMarks'
  <2>1. CASE Submits(w) /\ excused' = excused
    BY <2>1, FreesTyped DEF Submits
  <2>2. CASE Fails(w) /\ excused' = excused \cup {playObj[w]}
    BY <2>2, FreesTyped DEF Fails, Outcomes
  <2>3. QED
    BY <1>8, <2>1, <2>2 DEF StoreScrobble
<1>9. ASSUME NEW w \in Worker, NEW p \in Track, Mark(w, p)
      PROVE  WorkMarks'
  BY <1>9 DEF Mark, Outcomes
<1>10. ASSUME NEW p \in Track, MarkStopped(p)
      PROVE  WorkMarks'
  BY <1>10 DEF MarkStopped, Outcomes
<1>11. CASE Crash
  BY <1>11 DEF Crash
<1>12. QED
  BY <1>3, <1>4, <1>5, <1>6, <1>7, <1>8, <1>9, <1>10, <1>11 DEF StoreNext

LEMMA TypedInit == StoreInit => Typed
<1>1. ASSUME StoreInit
      PROVE  records \in Seq(Record) /\ Keys = {}
  BY <1>1 DEF StoreInit, Keys
<1>2. QED
  BY <1>1, AnyPlayIs DEF StoreInit, Typed, StoreTypeOK, Outcomes

LEMMA TypedStep == Typed /\ [StoreNext]_storeVars => Typed'
<1>1. ASSUME Typed, StoreNext
      PROVE  Typed'
  BY <1>1, AccountStep, RowsStep, ForeignStep, ImportMarksStep, WorkMarksStep
     DEF Typed, StoreTypeOK, OneRowEach, ImportMarks, WorkMarks
<1>2. ASSUME Typed, UNCHANGED storeVars
      PROVE  Typed'
  BY <1>2 DEF Typed, StoreTypeOK, Keys, storeVars, importVars, pullVars, scrobbleVars
<1>3. QED
  BY <1>1, <1>2

-----------------------------------------------------------------------------
(* What the Client compares with, and the records it makes *)

\* the listen a worker's Play is about
About(w) == ListenOf[playObj[w]]

\* a Play of the listen is scrobbled, about to be stored or about to be marked so
Done(listen) ==
  \/ \E q \in Track : play[q] = "scrobbled" /\ ListenOf[q] = listen
  \/ \E w \in Worker : step[w] = "store" /\ About(w) = listen
  \/ \E w \in Worker : \E q \in settling[w] : ListenOf[q] = listen

Excused(listen) == \E q \in excused : ListenOf[q] = listen

\* the Plays that a worker takes
TakenBy(w) == IF w = "loop" THEN "new" ELSE "failed"

\* a Play is worked on once at a time
Working ==
  /\ \A w \in Worker : step[w] # "no" =>
       play[playObj[w]] = TakenBy(w) /\ playObj[w] \notin settling[w]
  /\ \A w \in Worker : \A q \in settling[w] : play[q] = TakenBy(w)

\* what was found, stored or is about to be marked is recorded
WorkIsTrue ==
  /\ \A w \in Worker : looked[w] \/ step[w] = "store" => IsRecorded(About(w))
  /\ \A w \in Worker : \A q \in settling[w] : IsRecorded(ListenOf[q])

\* a record of the Client's is what a Play is done with, or is excused
OwnAccounted ==
  \A r \in Keys : records[r].own => Done(records[r].listen) \/ Excused(records[r].listen)

\* a Play that is submitted is the only one of its listen, or is excused
Unrivalled ==
  \A w \in Worker : step[w] = "submit" =>
    \/ Excused(About(w))
    \/ /\ ~Done(About(w))
       /\ \A v \in Worker \ {w} : step[v] = "submit" => About(v) # About(w)

RecordInv ==
  Typed /\ StoreIsTrue /\ RecordedOnce /\ Working /\ WorkIsTrue /\ OwnAccounted /\ Unrivalled

(* Every row of the table after a step has a record.                         *)
LEMMA RowsTrueStep ==
  ASSUME RecordInv, StoreNext
  PROVE  \A row \in rows' : IsRecorded(row.listen)'
<1>1. \A listen : IsRecorded(listen) => IsRecorded(listen)'
  BY AccountStep DEF RecordInv
<1>2. \A row \in rows : IsRecorded(row.listen)
  BY DEF RecordInv, StoreIsTrue
<1>3. CASE rows' = rows
  BY <1>1, <1>2, <1>3
<1>4. ASSUME NEW S \in SUBSET Keys, Stores(S), records' = records
      PROVE  \A row \in rows' : IsRecorded(row.listen)'
  <2>1. \A r \in Keys : IsRecorded(records[r].listen)
    BY DEF IsRecorded
  <2>2. \A row \in rows' : row \in rows \/ \E r \in Keys :
                             row = [uid |-> r, listen |-> records[r].listen]
    BY <1>4, StoredAre DEF RecordInv
  <2>3. QED
    BY <1>1, <1>2, <2>1, <2>2
<1>5. ASSUME NEW w \in Worker, step[w] = "store", PutScrobble(playObj[w])
      PROVE  \A row \in rows' : IsRecorded(row.listen)'
  <2>1. IsRecorded(About(w))
    BY <1>5 DEF RecordInv, WorkIsTrue
  <2>2. QED
    BY <1>1, <1>2, <1>5, <2>1 DEF PutScrobble, About
<1>6. QED
  BY <1>3, <1>4, <1>5, TableKinds DEF RecordInv

(* What a step does to the scrobbling.                                       *)
LEMMA ScrobbleKinds ==
  ASSUME Typed, StoreNext
  PROVE  \/ /\ UNCHANGED scrobbleVars
            /\ records' = records \/ \E p \in Track : Records(p, FALSE)
         \/ \E w \in Worker :
              \/ CompareStored(w) \/ SubmitRecord(w) \/ StoreScrobble(w)
              \/ \E created \in BOOLEAN : SubmitFails(w, created)
              \/ \E p \in Track : LookUpTable(w, p) \/ Mark(w, p)
         \/ (\E p \in Track : MarkStopped(p)) \/ Crash
<1>1. CASE \/ RequestImport \/ Fetch \/ Check \/ CheckedAll \/ StoreBatch \/ ImportFails
           \/ PostInitialize \/ Ask \/ StoreRecent
           \/ \E p \in Track : Elsewhere(p) \/ OtherStores(p)
  BY <1>1 DEF RequestImport, Fetch, Check, CheckedAll, StoreBatch, ImportFails,
     PostInitialize, Ask, StoreRecent, Elsewhere, OtherStores
<1>2. QED
  BY <1>1 DEF StoreNext

(* What a worker does that is done with a Play: it submits it, ...           *)
LEMMA SubmitsFacts ==
  ASSUME Typed, NEW w \in Worker, Submits(w)
  PROVE  /\ step'[w] = "no" /\ looked'[w] = FALSE /\ play' = play
         /\ settling'[w] = settling[w] \cup {playObj[w]}
         /\ \A v \in Worker \ {w} : /\ step'[v] = step[v] /\ playObj'[v] = playObj[v]
                                    /\ looked'[v] = looked[v] /\ settling'[v] = settling[v]
BY DEF Submits, Frees, Typed, StoreTypeOK

(* ... or it has failed.                                                     *)
LEMMA FailsFacts ==
  ASSUME Typed, NEW w \in Worker, Fails(w)
  PROVE  /\ step'[w] = "no" /\ looked'[w] = FALSE /\ settling' = settling
         /\ play'[playObj[w]] = "failed"
         /\ \A q \in Track : q # playObj[w] => play'[q] = play[q]
         /\ \A v \in Worker \ {w} : /\ step'[v] = step[v] /\ playObj'[v] = playObj[v]
                                    /\ looked'[v] = looked[v] /\ settling'[v] = settling[v]
BY DEF Fails, Frees, Typed, StoreTypeOK

LEMMA LookUpFacts ==
  ASSUME Typed, NEW w \in Worker, NEW p \in Track, LookUpTable(w, p)
  PROVE  /\ step[w] = "no" /\ step'[w] = "compare" /\ playObj'[w] = p
         /\ play[p] = TakenBy(w) /\ p \notin settling[w] /\ (looked'[w] => InTable(p))
         /\ UNCHANGED <<play, settling, excused, records>>
         /\ \A v \in Worker \ {w} : /\ step'[v] = step[v] /\ playObj'[v] = playObj[v]
                                    /\ looked'[v] = looked[v]
<1>1. /\ step'[w] = "compare" /\ playObj'[w] = p /\ (looked'[w] <=> InTable(p))
      /\ \A v \in Worker \ {w} : /\ step'[v] = step[v] /\ playObj'[v] = playObj[v]
                                 /\ looked'[v] = looked[v]
  BY DEF LookUpTable, Typed, StoreTypeOK
<1>2. step[w] = "no" /\ play[p] = TakenBy(w) /\ p \notin settling[w]
  BY DEF LookUpTable, Worker, TakenBy
<1>3. UNCHANGED <<play, settling, excused, records>>
  BY DEF LookUpTable
<1>4. QED
  BY <1>1, <1>2, <1>3

LEMMA CompareFacts ==
  ASSUME Typed, NEW w \in Worker, CompareStored(w)
  PROVE  /\ step[w] = "compare" /\ UNCHANGED <<settling, records>>
         /\ excused \subseteq excused'
         /\ \A v \in Worker \ {w} : /\ step'[v] = step[v] /\ playObj'[v] = playObj[v]
                                    /\ looked'[v] = looked[v] /\ settling'[v] = settling[v]
         /\ \/ /\ Found(w) /\ step'[w] = "no" /\ looked'[w] = FALSE /\ excused' = excused
               /\ play'[playObj[w]] = "duped"
               /\ \A q \in Track : q # playObj[w] => play'[q] = play[q]
            \/ /\ ~Found(w) /\ step'[w] = "submit" /\ playObj'[w] = playObj[w] /\ play' = play
               /\ looked' = looked /\ (Meanwhile(w) => playObj[w] \in excused')
<1>1. step[w] = "compare" /\ UNCHANGED <<settling, records>>
  BY DEF CompareStored
<1>2. CASE Found(w) /\ Frees(w) /\ play' = [play EXCEPT ![playObj[w]] = "duped"]
           /\ excused' = excused
  BY <1>1, <1>2 DEF Frees, Typed, StoreTypeOK
<1>3. CASE /\ ~Found(w) /\ step' = [step EXCEPT ![w] = "submit"]
           /\ excused' = excused \cup { p \in {playObj[w]} : Meanwhile(w) }
           /\ UNCHANGED <<play, playObj, looked>>
  <2>1. excused \subseteq excused' /\ (Meanwhile(w) => playObj[w] \in excused')
    BY <1>3
  <2>2. QED
    BY <1>1, <1>3, <2>1 DEF Typed, StoreTypeOK
<1>4. QED
  BY <1>2, <1>3 DEF CompareStored

LEMMA MarkFacts ==
  ASSUME Typed, NEW w \in Worker, NEW p \in Track, Mark(w, p)
  PROVE  /\ p \in settling[w] /\ settling'[w] = settling[w] \ {p} /\ play'[p] = "scrobbled"
         /\ UNCHANGED <<step, playObj, looked, excused, records>>
         /\ \A q \in Track \ {p} : play'[q] = play[q]
         /\ \A v \in Worker \ {w} : settling'[v] = settling[v]
BY DEF Mark, Typed, StoreTypeOK

LEMMA MarkStoppedFacts ==
  ASSUME Typed, NEW p \in Track, MarkStopped(p)
  PROVE  /\ p \in settling["loop"] /\ settling'["loop"] = settling["loop"] \ {p}
         /\ settling'["dead"] = settling["dead"]
         /\ play'[p] = "stopped" /\ p \in excused' /\ excused \subseteq excused'
         /\ UNCHANGED <<step, playObj, looked, records>>
         /\ \A q \in Track \ {p} : play'[q] = play[q]
BY DEF MarkStopped, Typed, StoreTypeOK, Worker

LEMMA CrashFacts ==
  ASSUME Typed, Crash
  PROVE  /\ \A w \in Worker : step'[w] = "no" /\ looked'[w] = FALSE /\ settling'[w] = {}
         /\ excused \subseteq excused' /\ UNCHANGED <<play, records>>
         /\ \A w \in Worker : step[w] = "store" => playObj[w] \in excused'
         /\ \A w \in Worker : settling[w] \subseteq excused'
BY DEF Crash

(* What creates a record, and what follows it.                               *)
LEMMA SubmitRecordFacts ==
  ASSUME Typed, NEW w \in Worker, SubmitRecord(w)
  PROVE  /\ step[w] = "submit" /\ Records(playObj[w], TRUE) /\ UNCHANGED excused
         /\ \/ /\ step'[w] = "store" /\ UNCHANGED <<play, playObj, looked, settling>>
               /\ \A v \in Worker \ {w} : step'[v] = step[v]
            \/ Submits(w)
BY DEF SubmitRecord, Typed, StoreTypeOK

LEMMA SubmitFailsFacts ==
  ASSUME Typed, NEW w \in Worker, NEW created \in BOOLEAN, SubmitFails(w, created)
  PROVE  /\ step[w] = "submit" /\ Fails(w)
         /\ \/ /\ Records(playObj[w], TRUE) /\ excused' = excused \cup {playObj[w]}
            \/ UNCHANGED <<records, excused>>
BY DEF SubmitFails

LEMMA StoreScrobbleFacts ==
  ASSUME Typed, NEW w \in Worker, StoreScrobble(w)
  PROVE  /\ step[w] = "store" /\ UNCHANGED records
         /\ \/ Submits(w) /\ UNCHANGED excused
            \/ Fails(w) /\ excused' = excused \cup {playObj[w]}
BY DEF StoreScrobble

(* What a worker found, and a record it made, is in the account.            *)
LEMMA FoundIsRecorded ==
  ASSUME RecordInv, NEW w \in Worker, Found(w)
  PROVE  IsRecorded(About(w))
<1>1. playObj[w] \in Track
  BY DEF RecordInv, Typed, StoreTypeOK
<1>2. QED
  BY <1>1 DEF Found, Submitted, RecordInv, StoreIsTrue, WorkIsTrue, About

LEMMA MadeIsRecorded ==
  ASSUME Typed, NEW p \in Track, NEW own \in BOOLEAN, Records(p, own)
  PROVE  IsRecorded(ListenOf[p])'
<1>1. PICK r \in Keys' : records'[r] = [listen |-> ListenOf[p], own |-> own]
  BY RecordsGrow
<1>2. records'[r].listen = ListenOf[p]
  BY <1>1
<1>3. QED
  BY <1>2 DEF IsRecorded

LEMMA WorkingStep ==
  ASSUME RecordInv, StoreNext
  PROVE  Working'
<1>1. Typed /\ Working
  BY DEF RecordInv
<1>2. /\ playObj \in [Worker -> Track] /\ settling \in [Worker -> SUBSET Track]
      /\ \A v, w \in Worker : v # w => TakenBy(v) # TakenBy(w)
      /\ \A w \in Worker : TakenBy(w) \in {"new", "failed"}
  BY <1>1 DEF Typed, StoreTypeOK, Worker, TakenBy
<1> DEFINE Free(w)  == step[w] # "no" => play[playObj[w]] = TakenBy(w) /\ playObj[w] \notin settling[w]
           Meant(w) == \A q \in settling[w] : play[q] = TakenBy(w)
<1>3. \A w \in Worker : Free(w) /\ Meant(w)
  BY <1>1 DEF Working
<1> SUFFICES ASSUME NEW v \in Worker PROVE Free(v)' /\ Meant(v)'
  BY DEF Working
<1>4. Free(v) /\ Meant(v)
  BY <1>3
<1>5. CASE UNCHANGED scrobbleVars
  BY <1>4, <1>5 DEF scrobbleVars
<1>6. ASSUME NEW w \in Worker, NEW p \in Track, LookUpTable(w, p)
      PROVE  Free(v)' /\ Meant(v)'
  BY <1>1, <1>4, <1>6, LookUpFacts
<1>7. ASSUME NEW w \in Worker, CompareStored(w)
      PROVE  Free(v)' /\ Meant(v)'
  <2>1. Free(w) /\ step[w] = "compare" /\ settling' = settling
    BY <1>1, <1>3, <1>7, CompareFacts
  <2>2. step'[v] # "no" => step[v] # "no" /\ playObj'[v] = playObj[v]
    BY <1>1, <1>7, <2>1, CompareFacts
  <2>3. /\ play[playObj[w]] = TakenBy(w) /\ playObj[w] \in Track
        /\ playObj[w] \notin settling[w]
    BY <1>2, <2>1
  <2>4. /\ \A q \in Track : q # playObj[w] => play'[q] = play[q]
        /\ step'[w] # "no" => play' = play
    BY <1>1, <1>7, CompareFacts
  <2>5. \A q \in Track : play[q] = TakenBy(v) /\ v # w => play'[q] = TakenBy(v)
    BY <1>2, <2>3, <2>4
  <2>6. \A q \in settling[w] : play'[q] = play[q]
    BY <1>2, <2>3, <2>4
  <2>7. QED
    BY <1>2, <1>4, <2>1, <2>2, <2>4, <2>5, <2>6
<1>8. ASSUME NEW w \in Worker, Submits(w), step[w] # "no"
      PROVE  Free(v)' /\ Meant(v)'
  <2>1. Free(w) /\ Meant(w)
    BY <1>3
  <2>2. QED
    <3>1. CASE v # w
      <4>1. /\ step'[v] = step[v] /\ playObj'[v] = playObj[v] /\ settling'[v] = settling[v]
            /\ play' = play
        BY <1>1, <1>8, <3>1, SubmitsFacts
      <4>2. QED
        BY <1>4, <4>1
    <3>2. CASE v = w
      <4>1. /\ step'[v] = "no" /\ settling'[v] = settling[v] \cup {playObj[v]}
            /\ play' = play
        BY <1>1, <1>8, <3>2, SubmitsFacts
      <4>2. QED
        BY <1>8, <2>1, <3>2, <4>1
    <3>3. QED
      BY <3>1, <3>2
<1>9. ASSUME NEW w \in Worker, Fails(w), step[w] # "no"
      PROVE  Free(v)' /\ Meant(v)'
  <2>1. Free(w) /\ Meant(w)
    BY <1>3
  <2>2. QED
    <3>1. settling' = settling /\ \A q \in Track : q # playObj[w] => play'[q] = play[q]
      BY <1>1, <1>9, FailsFacts
    <3>2. /\ play[playObj[w]] = TakenBy(w) /\ playObj[w] \in Track
          /\ playObj[w] \notin settling[w]
      BY <1>2, <1>9, <2>1
    <3>3. \A q \in Track : play[q] = TakenBy(v) /\ v # w => play'[q] = TakenBy(v)
      BY <1>2, <3>1, <3>2
    <3>4. \A q \in settling[w] : play'[q] = play[q]
      BY <1>2, <3>1, <3>2
    <3>5. CASE v # w
      <4>1. v \in Worker \ {w}
        BY <3>5
      <4>2. step'[v] = step[v] /\ playObj'[v] = playObj[v] /\ settling'[v] = settling[v]
        BY <1>1, <1>9, <4>1, FailsFacts
      <4>3. QED
        BY <1>2, <1>4, <3>3, <3>5, <4>2
    <3>6. CASE v = w
      <4>1. step'[v] = "no" /\ settling'[v] = settling[v]
        BY <1>1, <1>9, <3>1, <3>6, FailsFacts
      <4>2. QED
        BY <2>1, <3>4, <3>6, <4>1
    <3>7. QED
      BY <3>5, <3>6
<1>10. ASSUME NEW w \in Worker, SubmitRecord(w)
       PROVE  Free(v)' /\ Meant(v)'
  BY <1>1, <1>3, <1>4, <1>8, <1>10, SubmitRecordFacts
<1>11. ASSUME NEW w \in Worker, StoreScrobble(w) \/ \E created \in BOOLEAN : SubmitFails(w, created)
       PROVE  Free(v)' /\ Meant(v)'
  BY <1>1, <1>8, <1>9, <1>11, StoreScrobbleFacts, SubmitFailsFacts
<1>12. ASSUME NEW w \in Worker, NEW p \in Track, Mark(w, p)
       PROVE  Free(v)' /\ Meant(v)'
  <2>1. Meant(w)
    BY <1>3
  <2>2. QED
    BY <1>1, <1>2, <1>4, <1>12, <2>1, MarkFacts
<1>13. ASSUME NEW p \in Track, MarkStopped(p)
       PROVE  Free(v)' /\ Meant(v)'
  <2>1. Meant("loop")
    BY <1>3 DEF Worker
  <2>2. v \in {"loop", "dead"}
    BY DEF Worker
  <2>3. QED
    BY <1>1, <1>2, <1>4, <1>13, <2>1, <2>2, MarkStoppedFacts DEF Worker
<1>14. CASE Crash
  BY <1>1, <1>14, CrashFacts
<1>15. QED
  BY <1>1, <1>5, <1>6, <1>7, <1>10, <1>11, <1>12, <1>13, <1>14, ScrobbleKinds

LEMMA WorkTrueStep ==
  ASSUME RecordInv, StoreNext
  PROVE  WorkIsTrue'
<1>1. Typed /\ WorkIsTrue /\ StoreIsTrue /\ playObj \in [Worker -> Track]
      /\ settling \in [Worker -> SUBSET Track]
  BY DEF RecordInv, Typed, StoreTypeOK
<1>2. \A listen : IsRecorded(listen) => IsRecorded(listen)'
  BY <1>1, AccountStep
<1> DEFINE Had(w)  == looked[w] \/ step[w] = "store" => IsRecorded(About(w))
           Made(w) == \A q \in settling[w] : IsRecorded(ListenOf[q])
<1>3. \A w \in Worker : Had(w) /\ Made(w)
  BY <1>1 DEF WorkIsTrue
<1> SUFFICES ASSUME NEW v \in Worker PROVE Had(v)' /\ Made(v)'
  BY DEF WorkIsTrue
<1> HIDE DEF IsRecorded
<1>4. Had(v) /\ Made(v)
  BY <1>3
<1>5. ASSUME looked'[v] = looked[v], step'[v] = step[v], playObj'[v] = playObj[v],
             settling'[v] = settling[v]
      PROVE  Had(v)' /\ Made(v)'
  <2>1. About(v)' = About(v)
    BY <1>5 DEF About
  <2>2. QED
    BY <1>2, <1>4, <1>5, <2>1
<1>6. CASE UNCHANGED scrobbleVars
  BY <1>5, <1>6 DEF scrobbleVars
<1>7. ASSUME NEW w \in Worker, NEW p \in Track, LookUpTable(w, p)
      PROVE  Had(v)' /\ Made(v)'
  <2>1. InTable(p) => IsRecorded(ListenOf[p])
    BY <1>1 DEF InTable, StoreIsTrue
  <2>2. v = w => About(v)' = ListenOf[p]
    BY <1>1, <1>7, LookUpFacts DEF About
  <2>3. QED
    BY <1>1, <1>2, <1>4, <1>5, <1>7, <2>1, <2>2, LookUpFacts
<1>8. ASSUME NEW w \in Worker, CompareStored(w)
      PROVE  Had(v)' /\ Made(v)'
  <2>1. CASE v # w
    <3>1. v \in Worker \ {w}
      BY <2>1
    <3>2. /\ looked'[v] = looked[v] /\ step'[v] = step[v] /\ playObj'[v] = playObj[v]
          /\ settling'[v] = settling[v]
      BY <1>1, <1>8, <3>1, CompareFacts
    <3>3. QED
      BY <1>5, <3>2
  <2>2. CASE v = w
    <3>1. \/ step'[v] = "no" /\ looked'[v] = FALSE
          \/ step'[v] = "submit" /\ looked'[v] = looked[v] /\ playObj'[v] = playObj[v]
      BY <1>1, <1>8, <2>2, CompareFacts
    <3>2. playObj'[v] = playObj[v] => About(v)' = About(v)
      BY DEF About
    <3>3. settling' = settling
      BY <1>1, <1>8, CompareFacts
    <3>4. QED
      BY <1>2, <1>4, <3>1, <3>2, <3>3
  <2>3. QED
    BY <2>1, <2>2
<1>9. ASSUME NEW w \in Worker, NEW p \in Track, p = playObj[w], IsRecorded(ListenOf[p])',
             Submits(w)
      PROVE  Had(v)' /\ Made(v)'
  <2>1. CASE v # w
    BY <1>1, <1>5, <1>9, <2>1, SubmitsFacts
  <2>2. CASE v = w
    <3>1. step'[v] = "no" /\ looked'[v] = FALSE /\ settling'[v] = settling[v] \cup {p}
      BY <1>1, <1>9, <2>2, SubmitsFacts
    <3>2. QED
      BY <1>2, <1>4, <1>9, <3>1
  <2>3. QED
    BY <2>1, <2>2
<1>10. ASSUME NEW w \in Worker, Fails(w)
       PROVE  Had(v)' /\ Made(v)'
  <2>1. settling' = settling
    BY <1>1, <1>10, FailsFacts
  <2>2. CASE v # w
    <3>1. v \in Worker \ {w}
      BY <2>2
    <3>2. /\ looked'[v] = looked[v] /\ step'[v] = step[v] /\ playObj'[v] = playObj[v]
          /\ settling'[v] = settling[v]
      BY <1>1, <1>10, <3>1, FailsFacts
    <3>3. QED
      BY <1>5, <3>2
  <2>3. CASE v = w
    <3>1. step'[v] = "no" /\ looked'[v] = FALSE
      BY <1>1, <1>10, <2>3, FailsFacts
    <3>2. QED
      BY <1>2, <1>4, <2>1, <3>1
  <2>4. QED
    BY <2>2, <2>3
<1>11. ASSUME NEW w \in Worker, SubmitRecord(w)
       PROVE  Had(v)' /\ Made(v)'
  <2>1. PICK p \in Track : p = playObj[w]
    BY <1>1
  <2>2. Records(p, TRUE)
    BY <1>1, <1>11, <2>1, SubmitRecordFacts DEF Records
  <2>3. IsRecorded(ListenOf[p])'
    BY <1>1, <2>2, MadeIsRecorded
  <2>4. CASE /\ step'[w] = "store" /\ UNCHANGED <<play, playObj, looked, settling>>
             /\ \A u \in Worker \ {w} : step'[u] = step[u]
    <3>1. v = w => About(v)' = ListenOf[p]
      BY <2>1, <2>4 DEF About
    <3>2. v # w => About(v)' = About(v)
      BY <2>4 DEF About
    <3>3. QED
      BY <1>2, <1>4, <2>3, <2>4, <3>1, <3>2
  <2>5. QED
    BY <1>1, <1>9, <1>11, <2>1, <2>3, <2>4, SubmitRecordFacts
<1>12. ASSUME NEW w \in Worker, StoreScrobble(w)
       PROVE  Had(v)' /\ Made(v)'
  <2>1. PICK p \in Track : p = playObj[w]
    BY <1>1
  <2>2. IsRecorded(ListenOf[p])
    BY <1>1, <1>3, <1>12, <2>1, StoreScrobbleFacts DEF About
  <2>3. QED
    BY <1>1, <1>2, <1>9, <1>10, <1>12, <2>1, <2>2, StoreScrobbleFacts
<1>13. ASSUME NEW w \in Worker, NEW created \in BOOLEAN, SubmitFails(w, created)
       PROVE  Had(v)' /\ Made(v)'
  BY <1>1, <1>10, <1>13, SubmitFailsFacts
<1>14. ASSUME settling'[v] \subseteq settling[v],
              UNCHANGED <<step, playObj, looked>> \/ (step'[v] = "no" /\ looked'[v] = FALSE)
       PROVE  Had(v)' /\ Made(v)'
  <2>1. playObj' = playObj => About(v)' = About(v)
    BY DEF About
  <2>2. QED
    BY <1>2, <1>4, <1>14, <2>1
<1>15. ASSUME NEW w \in Worker, NEW p \in Track, Mark(w, p)
       PROVE  Had(v)' /\ Made(v)'
  BY <1>1, <1>14, <1>15, MarkFacts
<1>16. ASSUME NEW p \in Track, MarkStopped(p)
       PROVE  Had(v)' /\ Made(v)'
  <2>1. v \in {"loop", "dead"}
    BY DEF Worker
  <2>2. QED
    BY <1>1, <1>14, <1>16, <2>1, MarkStoppedFacts
<1>17. CASE Crash
  BY <1>1, <1>14, <1>17, CrashFacts
<1>18. QED
  BY <1>1, <1>6, <1>7, <1>8, <1>11, <1>12, <1>13, <1>15, <1>16, <1>17, ScrobbleKinds

(* A Play that ends as scrobbled or as a duplicate has a record.             *)
LEMMA PlaysTrueStep ==
  ASSUME RecordInv, StoreNext
  PROVE  \A p \in Track : play'[p] \in {"scrobbled", "duped"} => IsRecorded(ListenOf[p])'
<1>1. /\ Typed /\ playObj \in [Worker -> Track]
      /\ \A w \in Worker : \A q \in settling[w] : IsRecorded(ListenOf[q])
      /\ \A p \in Track : play[p] \in {"scrobbled", "duped"} => IsRecorded(ListenOf[p])
  BY DEF RecordInv, Typed, StoreTypeOK, WorkIsTrue, StoreIsTrue
<1>2. \A listen : IsRecorded(listen) => IsRecorded(listen)'
  BY <1>1, AccountStep
<1>3. SUFFICES ASSUME NEW p \in Track, play'[p] \in {"scrobbled", "duped"}
               PROVE  IsRecorded(ListenOf[p])
  BY <1>2
<1>4. CASE play' = play
  BY <1>1, <1>3, <1>4
<1>5. ASSUME NEW w \in Worker, CompareStored(w)
      PROVE  IsRecorded(ListenOf[p])
  BY <1>1, <1>3, <1>5, CompareFacts, FoundIsRecorded DEF About
<1>6. ASSUME NEW w \in Worker, Fails(w)
      PROVE  IsRecorded(ListenOf[p])
  BY <1>1, <1>3, <1>6, FailsFacts
<1>7. ASSUME NEW w \in Worker, NEW q \in Track, Mark(w, q)
      PROVE  IsRecorded(ListenOf[p])
  BY <1>1, <1>3, <1>7, MarkFacts
<1>8. ASSUME NEW q \in Track, MarkStopped(q)
      PROVE  IsRecorded(ListenOf[p])
  BY <1>1, <1>3, <1>8, MarkStoppedFacts
<1>9. ASSUME NEW w \in Worker,
             SubmitRecord(w) \/ StoreScrobble(w) \/ \E created \in BOOLEAN : SubmitFails(w, created)
      PROVE  play' = play \/ Fails(w)
  BY <1>1, <1>9, SubmitRecordFacts, StoreScrobbleFacts, SubmitFailsFacts, SubmitsFacts
<1>10. QED
  BY <1>1, <1>4, <1>5, <1>6, <1>7, <1>8, <1>9, ScrobbleKinds, LookUpFacts, CrashFacts
     DEF scrobbleVars

LEMMA ExcusedGrows ==
  ASSUME Typed, StoreNext
  PROVE  excused \subseteq excused'
BY ScrobbleKinds, LookUpFacts, CompareFacts, SubmitRecordFacts, SubmitFailsFacts,
   StoreScrobbleFacts, MarkFacts, MarkStoppedFacts, CrashFacts DEF scrobbleVars

(* A listen that is done with stays so, or is excused.                       *)
LEMMA DoneStays ==
  ASSUME RecordInv, StoreNext, NEW listen, Done(listen)
  PROVE  Done(listen)' \/ Excused(listen)'
<1>1. /\ Typed /\ Working /\ playObj \in [Worker -> Track]
      /\ settling \in [Worker -> SUBSET Track]
  BY DEF RecordInv, Typed, StoreTypeOK
<1>2. \A w \in Worker : TakenBy(w) # "scrobbled"
  BY DEF TakenBy
<1> SUFFICES ASSUME ~Excused(listen)' PROVE Done(listen)'
  OBVIOUS
<1>3. \A q \in excused' : ListenOf[q] # listen
  BY DEF Excused
<1>4. ASSUME NEW q \in Track, play[q] = "scrobbled", ListenOf[q] = listen
      PROVE  Done(listen)'
  <2>1. \A w \in Worker : /\ step[w] # "no" => playObj[w] # q
                          /\ q \notin settling[w]
    BY <1>1, <1>2, <1>4 DEF Working
  <2>2. CASE play' = play
    BY <1>4, <2>2 DEF Done
  <2>3. ASSUME NEW w \in Worker, Fails(w), step[w] # "no"
        PROVE  play'[q] = "scrobbled"
    BY <1>1, <1>4, <2>1, <2>3, FailsFacts
  <2>4. ASSUME NEW w \in Worker, CompareStored(w)
        PROVE  play'[q] = "scrobbled"
    BY <1>1, <1>4, <2>1, <2>4, CompareFacts
  <2>5. ASSUME NEW w \in Worker, NEW p \in Track, Mark(w, p)
        PROVE  play'[q] = "scrobbled"
    BY <1>1, <1>4, <2>1, <2>5, MarkFacts
  <2>6. ASSUME NEW p \in Track, MarkStopped(p)
        PROVE  play'[q] = "scrobbled"
    BY <1>1, <1>4, <2>1, <2>6, MarkStoppedFacts DEF Worker
  <2>7. ASSUME NEW w \in Worker,
               \/ SubmitRecord(w) \/ StoreScrobble(w)
               \/ \E created \in BOOLEAN : SubmitFails(w, created)
        PROVE  play' = play \/ (Fails(w) /\ step[w] # "no")
    BY <1>1, <2>7, SubmitRecordFacts, StoreScrobbleFacts, SubmitFailsFacts, SubmitsFacts
  <2>8. play' = play \/ play'[q] = "scrobbled"
    BY <1>1, <2>3, <2>4, <2>5, <2>6, <2>7, ScrobbleKinds, LookUpFacts, CrashFacts
       DEF scrobbleVars
  <2>9. QED
    BY <1>4, <2>8 DEF Done
<1>5. ASSUME NEW w \in Worker, NEW q \in settling[w], ListenOf[q] = listen
      PROVE  Done(listen)'
  <2>1. q \in Track /\ q \notin excused'
    BY <1>1, <1>3, <1>5
  <2>2. q \in settling'[w] => Done(listen)'
    BY <1>5 DEF Done
  <2>3. play'[q] = "scrobbled" => Done(listen)'
    BY <1>5, <2>1 DEF Done
  <2>4. ASSUME NEW v \in Worker, Submits(v)
        PROVE  q \in settling'[w]
    BY <1>1, <2>4, SubmitsFacts
  <2>5. ASSUME NEW v \in Worker, NEW p \in Track, Mark(v, p)
        PROVE  q \in settling'[w] \/ play'[q] = "scrobbled"
    BY <1>1, <2>5, MarkFacts
  <2>6. ASSUME NEW p \in Track, MarkStopped(p)
        PROVE  q \in settling'[w]
    <3>1. p # q /\ w \in {"loop", "dead"}
      BY <1>1, <2>1, <2>6, MarkStoppedFacts DEF Worker
    <3>2. QED
      BY <1>1, <2>6, <3>1, MarkStoppedFacts
  <2>7. ASSUME NEW v \in Worker,
               \/ SubmitRecord(v) \/ StoreScrobble(v) \/ CompareStored(v)
               \/ \E created \in BOOLEAN : SubmitFails(v, created)
               \/ \E p \in Track : LookUpTable(v, p)
        PROVE  settling' = settling \/ Submits(v)
    BY <1>1, <2>7, SubmitRecordFacts, StoreScrobbleFacts, SubmitFailsFacts, FailsFacts,
       CompareFacts, LookUpFacts
  <2>8. ~Crash
    BY <1>1, <2>1, CrashFacts
  <2>9. \/ settling' = settling \/ q \in settling'[w] \/ play'[q] = "scrobbled"
    BY <1>1, <2>4, <2>5, <2>6, <2>7, <2>8, ScrobbleKinds DEF scrobbleVars
  <2>10. QED
    BY <2>2, <2>3, <2>9
<1>6. ASSUME NEW w \in Worker, step[w] = "store", About(w) = listen
      PROVE  Done(listen)'
  <2>1. PICK q \in Track : q = playObj[w]
    BY <1>1
  <2>2. ListenOf[q] = listen /\ q \notin excused'
    BY <1>3, <1>6, <2>1 DEF About
  <2>3. step'[w] = "store" /\ playObj'[w] = q => Done(listen)'
    BY <2>2 DEF Done, About
  <2>4. q \in settling'[w] => Done(listen)'
    BY <2>2 DEF Done
  <2>5. ASSUME NEW v \in Worker \ {w},
               \/ SubmitRecord(v) \/ StoreScrobble(v) \/ CompareStored(v)
               \/ \E created \in BOOLEAN : SubmitFails(v, created)
               \/ \E p \in Track : LookUpTable(v, p)
        PROVE  step'[w] = step[w] /\ playObj'[w] = playObj[w]
    <3>1. w \in Worker \ {v} /\ v \in Worker
      OBVIOUS
    <3>2. CASE Submits(v)
      BY <1>1, <3>1, <3>2, SubmitsFacts
    <3>3. CASE Fails(v)
      BY <1>1, <3>1, <3>3, FailsFacts
    <3>4. CASE SubmitRecord(v)
      BY <1>1, <3>1, <3>2, <3>4, SubmitRecordFacts
    <3>5. CASE StoreScrobble(v) \/ \E created \in BOOLEAN : SubmitFails(v, created)
      BY <1>1, <3>2, <3>3, <3>5, StoreScrobbleFacts, SubmitFailsFacts
    <3>6. CASE CompareStored(v)
      BY <1>1, <3>1, <3>6, CompareFacts
    <3>7. CASE \E p \in Track : LookUpTable(v, p)
      BY <1>1, <3>1, <3>7, LookUpFacts
    <3>8. QED
      BY <2>5, <3>7, <3>4, <3>5, <3>6
  <2>6. ASSUME \/ SubmitRecord(w) \/ StoreScrobble(w) \/ CompareStored(w)
               \/ \E created \in BOOLEAN : SubmitFails(w, created)
               \/ \E p \in Track : LookUpTable(w, p)
        PROVE  q \in settling'[w]
    <3>1. StoreScrobble(w)
      BY <1>1, <1>6, <2>6, SubmitRecordFacts, SubmitFailsFacts, CompareFacts, LookUpFacts
    <3>2. Submits(w)
      BY <1>1, <2>1, <2>2, <3>1, StoreScrobbleFacts
    <3>3. QED
      BY <1>1, <2>1, <3>2, SubmitsFacts
  <2>7. ASSUME NEW p \in Track, MarkStopped(p) \/ \E v \in Worker : Mark(v, p)
        PROVE  UNCHANGED <<step, playObj>>
    BY <1>1, <2>7, MarkFacts, MarkStoppedFacts
  <2>8. ~Crash
    BY <1>1, <1>6, <2>1, <2>2, CrashFacts
  <2>9. \/ step'[w] = step[w] /\ playObj'[w] = playObj[w]
        \/ q \in settling'[w]
    BY <1>1, <2>5, <2>6, <2>7, <2>8, ScrobbleKinds DEF scrobbleVars
  <2>10. QED
    BY <1>6, <2>1, <2>3, <2>4, <2>9
<1>7. QED
  BY <1>4, <1>5, <1>6 DEF Done

(* A listen becomes done with when a worker's submission creates its record. *)
LEMMA DoneBegins ==
  ASSUME RecordInv, StoreNext, NEW listen, Done(listen)', ~Done(listen)
  PROVE  \E w \in Worker : SubmitRecord(w) /\ step[w] = "submit" /\ About(w) = listen
<1>1. /\ Typed /\ playObj \in [Worker -> Track] /\ settling \in [Worker -> SUBSET Track]
  BY DEF RecordInv, Typed, StoreTypeOK
<1>2. /\ \A q \in Track : play[q] = "scrobbled" => ListenOf[q] # listen
      /\ \A w \in Worker : step[w] = "store" => ListenOf[playObj[w]] # listen
      /\ \A w \in Worker : \A q \in settling[w] : ListenOf[q] # listen
  BY DEF Done, About
<1> SUFFICES ASSUME \A w \in Worker : SubmitRecord(w) => ListenOf[playObj[w]] # listen
             PROVE  ~Done(listen)'
  BY <1>1, SubmitRecordFacts DEF About
<1>3. ASSUME UNCHANGED <<play, step, playObj, settling>>
      PROVE  ~Done(listen)'
  BY <1>2, <1>3 DEF Done, About
<1>4. \A v, w \in Worker : v # w => v \in Worker \ {w}
  OBVIOUS
<1>5. ASSUME NEW q \in Track, play'[q] = "scrobbled", ListenOf[q] = listen
      PROVE  FALSE
  <2>1. play[q] # "scrobbled" /\ \A w \in Worker : q \notin settling[w]
    BY <1>2, <1>5
  <2>2. ASSUME NEW w \in Worker, Fails(w)
        PROVE  play'[q] = "failed" \/ play'[q] = play[q]
    BY <1>1, <2>2, FailsFacts
  <2>3. ASSUME NEW w \in Worker,
               SubmitRecord(w) \/ StoreScrobble(w) \/ \E created \in BOOLEAN : SubmitFails(w, created)
        PROVE  play' = play \/ Fails(w)
    BY <1>1, <2>3, SubmitRecordFacts, StoreScrobbleFacts, SubmitFailsFacts, SubmitsFacts
  <2>4. ASSUME NEW w \in Worker, CompareStored(w)
        PROVE  play'[q] = "duped" \/ play'[q] = play[q]
    BY <1>1, <2>4, CompareFacts
  <2>5. ASSUME NEW p \in Track, MarkStopped(p) \/ \E w \in Worker : Mark(w, p)
        PROVE  play'[q] = "stopped" \/ play'[q] = play[q]
    BY <1>1, <2>1, <2>5, MarkFacts, MarkStoppedFacts
  <2>6. QED
    BY <1>1, <1>5, <2>1, <2>2, <2>3, <2>4, <2>5, ScrobbleKinds, LookUpFacts, CrashFacts
       DEF scrobbleVars
<1>6. ASSUME NEW w \in Worker, NEW q \in settling'[w], ListenOf[q] = listen
      PROVE  FALSE
  <2>1. q \notin settling[w]
    BY <1>2, <1>6
  <2>2. ASSUME NEW v \in Worker, Submits(v)
        PROVE  v = w /\ q = playObj[v]
    <3>1. \A u \in Worker \ {v} : settling'[u] = settling[u]
      BY <1>1, <2>2, SubmitsFacts
    <3>2. v = w
      BY <1>6, <2>1, <3>1
    <3>3. settling'[v] = settling[v] \cup {playObj[v]}
      BY <1>1, <2>2, SubmitsFacts
    <3>4. QED
      BY <1>6, <2>1, <3>2, <3>3
  <2>3. ASSUME NEW v \in Worker, SubmitRecord(v) \/ StoreScrobble(v)
        PROVE  settling' = settling
    <3>1. \/ settling' = settling
          \/ Submits(v) /\ (SubmitRecord(v) \/ step[v] = "store")
      BY <1>1, <2>3, SubmitRecordFacts, StoreScrobbleFacts, FailsFacts
    <3>2. ~Submits(v) \/ (v = w /\ q = playObj[v])
      BY <2>2
    <3>3. ListenOf[playObj[v]] # listen
      BY <1>2, <2>3, StoreScrobbleFacts, <1>1
    <3>4. QED
      BY <1>6, <3>1, <3>2, <3>3
  <2>4. ASSUME NEW v \in Worker,
               \/ CompareStored(v) \/ \E created \in BOOLEAN : SubmitFails(v, created)
               \/ \E p \in Track : LookUpTable(v, p)
        PROVE  settling' = settling
    BY <1>1, <2>4, CompareFacts, LookUpFacts, SubmitFailsFacts, FailsFacts
  <2>5. ASSUME NEW v \in Worker, NEW p \in Track, Mark(v, p)
        PROVE  settling'[w] \subseteq settling[w]
    BY <1>1, <2>5, <1>4, MarkFacts
  <2>6. ASSUME NEW p \in Track, MarkStopped(p)
        PROVE  settling'[w] \subseteq settling[w]
    <3>1. w \in {"loop", "dead"}
      BY DEF Worker
    <3>2. QED
      BY <1>1, <2>6, <3>1, MarkStoppedFacts
  <2>7. Crash => settling'[w] = {}
    BY <1>1, CrashFacts
  <2>8. QED
    BY <1>1, <1>6, <2>1, <2>3, <2>4, <2>5, <2>6, <2>7, ScrobbleKinds DEF scrobbleVars
<1>7. ASSUME NEW w \in Worker, step'[w] = "store", ListenOf[playObj'[w]] = listen
      PROVE  FALSE
  <2>1. step'[w] # step[w] \/ playObj'[w] # playObj[w]
    BY <1>2, <1>7
  <2>2. ASSUME NEW v \in Worker, Submits(v)
        PROVE  v # w /\ step'[w] = step[w] /\ playObj'[w] = playObj[w]
    BY <1>1, <1>4, <1>7, <2>2, SubmitsFacts
  <2>3. ASSUME NEW v \in Worker, Fails(v)
        PROVE  v # w /\ step'[w] = step[w] /\ playObj'[w] = playObj[w]
    BY <1>1, <1>4, <1>7, <2>3, FailsFacts
  <2>4. ASSUME NEW v \in Worker, SubmitRecord(v), ~Submits(v)
        PROVE  playObj' = playObj /\ (v # w => step'[w] = step[w])
    BY <1>1, <1>4, <2>4, SubmitRecordFacts
  <2>5. ASSUME NEW v \in Worker, CompareStored(v)
        PROVE  v # w /\ step'[w] = step[w] /\ playObj'[w] = playObj[w]
    BY <1>1, <1>4, <1>7, <2>5, CompareFacts
  <2>6. ASSUME NEW v \in Worker, NEW p \in Track, LookUpTable(v, p)
        PROVE  v # w /\ step'[w] = step[w] /\ playObj'[w] = playObj[w]
    BY <1>1, <1>4, <1>7, <2>6, LookUpFacts
  <2>7. ASSUME NEW p \in Track, MarkStopped(p) \/ \E v \in Worker : Mark(v, p)
        PROVE  UNCHANGED <<step, playObj>>
    BY <1>1, <2>7, MarkFacts, MarkStoppedFacts
  <2>8. ~Crash
    BY <1>1, <1>7, CrashFacts
  <2>9. ~\E v \in Worker : SubmitRecord(v)
    BY <1>7, <2>1, <2>2, <2>4
  <2>10. QED
    BY <1>1, <2>1, <2>2, <2>3, <2>5, <2>6, <2>7, <2>8, <2>9, ScrobbleKinds,
       StoreScrobbleFacts, SubmitFailsFacts DEF scrobbleVars
<1>8. QED
  BY <1>5, <1>6, <1>7 DEF Done, About

(* Who is at its submission has been, or has just compared.                  *)
LEMMA SubmittingBefore ==
  ASSUME RecordInv, StoreNext, NEW w \in Worker, step'[w] = "submit"
  PROVE  /\ playObj'[w] = playObj[w] /\ ~SubmitRecord(w)
         /\ \/ step[w] = "submit"
            \/ CompareStored(w) /\ ~Found(w) /\ (Meanwhile(w) => playObj[w] \in excused')
<1>1. Typed
  BY DEF RecordInv
<1>2. \A v \in Worker : v # w => w \in Worker \ {v}
  OBVIOUS
<1>3. ASSUME NEW v \in Worker, Submits(v)
      PROVE  v # w /\ step'[w] = step[w] /\ playObj'[w] = playObj[w]
  BY <1>1, <1>2, <1>3, SubmitsFacts
<1>4. ASSUME NEW v \in Worker, Fails(v)
      PROVE  v # w /\ step'[w] = step[w] /\ playObj'[w] = playObj[w]
  BY <1>1, <1>2, <1>4, FailsFacts
<1>5. ASSUME NEW v \in Worker, SubmitRecord(v)
      PROVE  v # w /\ step'[w] = step[w] /\ playObj'[w] = playObj[w]
  BY <1>1, <1>2, <1>3, <1>5, SubmitRecordFacts
<1>6. ASSUME NEW v \in Worker, CompareStored(v), v # w
      PROVE  step'[w] = step[w] /\ playObj'[w] = playObj[w]
  BY <1>1, <1>2, <1>6, CompareFacts
<1>7. ASSUME NEW v \in Worker, NEW p \in Track, LookUpTable(v, p)
      PROVE  v # w /\ step'[w] = step[w] /\ playObj'[w] = playObj[w]
  BY <1>1, <1>2, <1>7, LookUpFacts
<1>8. ASSUME NEW p \in Track, MarkStopped(p) \/ \E v \in Worker : Mark(v, p)
      PROVE  UNCHANGED <<step, playObj>>
  BY <1>1, <1>8, MarkFacts, MarkStoppedFacts
<1>9. ~Crash
  BY <1>1, CrashFacts
<1>10. \/ step'[w] = step[w] /\ playObj'[w] = playObj[w]
       \/ CompareStored(w)
  BY <1>1, <1>3, <1>4, <1>5, <1>6, <1>7, <1>8, <1>9, ScrobbleKinds,
     StoreScrobbleFacts, SubmitFailsFacts DEF scrobbleVars
<1>11. CompareStored(w) => /\ playObj'[w] = playObj[w] /\ ~Found(w)
                           /\ Meanwhile(w) => playObj[w] \in excused'
  BY <1>1, CompareFacts
<1>12. ~SubmitRecord(w)
  BY <1>5
<1>13. QED
  BY <1>10, <1>11, <1>12

LEMMA UnrivalledStep ==
  ASSUME RecordInv, StoreNext
  PROVE  Unrivalled'
<1>1. Typed /\ Unrivalled /\ playObj \in [Worker -> Track]
  BY DEF RecordInv, Typed, StoreTypeOK
<1>2. excused \subseteq excused' /\ \A listen : Excused(listen) => Excused(listen)'
  BY <1>1, ExcusedGrows DEF Excused
<1> SUFFICES ASSUME NEW w \in Worker, step'[w] = "submit",
                    NEW mine, mine = ListenOf[playObj'[w]], ~Excused(mine)'
             PROVE  /\ ~Done(mine)'
                    /\ \A v \in Worker \ {w} :
                         step'[v] = "submit" => ListenOf[playObj'[v]] # mine
  BY DEF Unrivalled, Done, Excused, About
<1>3. /\ About(w) = mine /\ ~SubmitRecord(w) /\ ~Excused(mine)
      /\ \/ step[w] = "submit"
         \/ CompareStored(w) /\ ~Found(w) /\ (Meanwhile(w) => playObj[w] \in excused')
  BY <1>2, SubmittingBefore DEF About
<1>4. CASE step[w] = "submit"
  <2>1. /\ ~Done(mine)
        /\ \A v \in Worker \ {w} : step[v] = "submit" => About(v) # mine
    BY <1>1, <1>3, <1>4 DEF Unrivalled
  <2>2. ~Done(mine)'
    BY <1>3, <2>1, DoneBegins
  <2>3. ASSUME NEW v \in Worker \ {w}, step'[v] = "submit", ListenOf[playObj'[v]] = mine
        PROVE  FALSE
    <3>1. /\ ListenOf[playObj[v]] = mine
          /\ step[v] = "submit" \/ (Meanwhile(v) => playObj[v] \in excused')
      BY <2>3, SubmittingBefore
    <3>2. Meanwhile(v) \/ step[v] = "submit"
      BY <1>3, <1>4, <3>1 DEF Meanwhile, About
    <3>3. playObj[v] \notin excused'
      BY <3>1 DEF Excused
    <3>4. QED
      BY <2>1, <3>1, <3>2, <3>3 DEF About
  <2>4. QED
    BY <2>2, <2>3
<1>5. CASE step[w] # "submit"
  <2>1. CompareStored(w) /\ ~Found(w) /\ step[w] = "compare"
    BY <1>1, <1>3, <1>5, CompareFacts
  <2>2. playObj[w] \notin excused'
    BY <1>3 DEF Excused, About
  <2>3. /\ \A v \in Worker : v # w /\ step[v] \in {"submit", "store"} => About(v) # mine
        /\ \A v \in Worker : \A q \in settling[v] : ListenOf[q] # mine
    BY <1>3, <1>5, <2>2 DEF Meanwhile, About
  <2>4. ~Submitted(playObj[w])
    BY <2>1 DEF Found
  <2>5. ~Done(mine)
    BY <1>3, <2>1, <2>3, <2>4 DEF Done, Submitted, About
  <2>6. ~Done(mine)'
    BY <1>1, <2>1, <2>3, <2>5, DoneBegins
  <2>7. ASSUME NEW v \in Worker \ {w}, step'[v] = "submit", ListenOf[playObj'[v]] = mine
        PROVE  FALSE
    <3>1. step'[v] = step[v] /\ playObj'[v] = playObj[v]
      BY <1>1, <2>1, CompareFacts
    <3>2. QED
      BY <2>3, <2>7, <3>1 DEF About
  <2>8. QED
    BY <2>6, <2>7
<1>6. QED
  BY <1>4, <1>5

(* The listen of a record that is made is done with, or excused.             *)
LEMMA MadeIsDone ==
  ASSUME Typed, NEW w \in Worker, SubmitRecord(w) \/ playObj[w] \in excused',
         NEW me \in Track, me = playObj[w]
  PROVE  Done(ListenOf[me])' \/ Excused(ListenOf[me])'
<1>1. CASE me \in excused'
  BY <1>1 DEF Excused
<1>2. CASE SubmitRecord(w)
  <2>1. CASE step'[w] = "store" /\ playObj' = playObj
    BY <2>1 DEF Done, About
  <2>2. CASE Submits(w)
    <3>1. me \in settling'[w]
      BY <2>2, SubmitsFacts
    <3>2. QED
      BY <3>1 DEF Done
  <2>3. QED
    BY <1>2, <2>1, <2>2, SubmitRecordFacts
<1>3. QED
  BY <1>1, <1>2

(* The records that the Client makes.                                        *)
LEMMA OwnStep ==
  ASSUME RecordInv, StoreNext
  PROVE  OwnAccounted' /\ RecordedOnce'
<1>1. Typed /\ OwnAccounted /\ RecordedOnce /\ Unrivalled /\ playObj \in [Worker -> Track]
  BY DEF RecordInv, Typed, StoreTypeOK
<1>2. \A listen : Excused(listen) => Excused(listen)'
  BY <1>1, ExcusedGrows DEF Excused
<1>3. \A listen : Done(listen) \/ Excused(listen) => Done(listen)' \/ Excused(listen)'
  BY <1>2, DoneStays
<1> DEFINE Once(p) == \A r, s \in Keys :
                        /\ records[r].own /\ records[s].own
                        /\ records[r].listen = ListenOf[p] /\ records[s].listen = ListenOf[p]
                        => r = s
<1>4. \A p \in Track : Once(p) \/ Excused(ListenOf[p])
  BY <1>1 DEF RecordedOnce, Excused
<1>5. SUFFICES OwnAccounted' /\ \A p \in Track : Once(p)' \/ Excused(ListenOf[p])'
  BY DEF RecordedOnce, Excused
<1>6. CASE records' = records
  <2>1. Keys' = Keys
    BY <1>6 DEF Keys
  <2>2. OwnAccounted'
    BY <1>1, <1>3, <1>6, <2>1 DEF OwnAccounted
  <2>3. \A p \in Track : Once(p)' \/ Excused(ListenOf[p])'
    BY <1>2, <1>4, <1>6, <2>1
  <2>4. QED
    BY <2>2, <2>3
<1>7. ASSUME NEW p \in Track, Records(p, FALSE)
      PROVE  OwnAccounted' /\ \A q \in Track : Once(q)' \/ Excused(ListenOf[q])'
  <2>1. /\ Keys' = Keys \cup {Len(records) + 1}
        /\ \A r \in Keys : records'[r] = records[r]
        /\ records'[Len(records) + 1] = [listen |-> ListenOf[p], own |-> FALSE]
    BY <1>1, <1>7, RecordsGrow
  <2>2. records'[Len(records) + 1].own = FALSE
    BY <2>1
  <2>3. OwnAccounted'
    BY <1>1, <1>3, <2>1, <2>2 DEF OwnAccounted
  <2>4. \A q \in Track : Once(q)' \/ Excused(ListenOf[q])'
    BY <1>2, <1>4, <2>1, <2>2
  <2>5. QED
    BY <2>3, <2>4
<1>8. ASSUME NEW w \in Worker, step[w] = "submit", Records(playObj[w], TRUE),
             SubmitRecord(w) \/ playObj[w] \in excused'
      PROVE  OwnAccounted' /\ \A q \in Track : Once(q)' \/ Excused(ListenOf[q])'
  <2>1. PICK me \in Track : me = playObj[w]
    BY <1>1
  <2> DEFINE new  == Len(records) + 1
             mine == ListenOf[me]
  <2>2. /\ Keys' = Keys \cup {new} /\ new \notin Keys
        /\ \A r \in Keys : records'[r] = records[r]
        /\ records'[new] = [listen |-> mine, own |-> TRUE]
    <3>1. Records(me, TRUE)
      BY <1>8, <2>1 DEF Records
    <3>2. QED
      BY <1>1, <3>1, RecordsGrow
  <2> HIDE DEF new
  <2>3. records'[new].listen = mine /\ records'[new].own = TRUE
    BY <2>2
  <2>4. Done(mine)' \/ Excused(mine)'
    BY <1>1, <1>8, <2>1, MadeIsDone
  <2>5. OwnAccounted'
    BY <1>1, <1>3, <2>2, <2>3, <2>4 DEF OwnAccounted
  <2>6. Excused(mine) \/ ~Done(mine)
    BY <1>1, <1>8, <2>1 DEF Unrivalled, About
  <2>7. ASSUME ~Excused(mine)
        PROVE  \A r \in Keys : records[r].own => records[r].listen # mine
    BY <1>1, <2>6, <2>7 DEF OwnAccounted
  <2>8. ASSUME NEW q \in Track, ~Excused(ListenOf[q])
        PROVE  Once(q)'
    <3>1. Once(q)
      BY <1>4, <2>8
    <3>2. ListenOf[q] = mine => \A r \in Keys : records[r].own => records[r].listen # mine
      BY <2>7, <2>8
    <3>3. QED
      BY <2>2, <2>3, <3>1, <3>2
  <2>9. QED
    BY <1>2, <2>5, <2>8
<1> DEFINE Goal == OwnAccounted' /\ \A q \in Track : Once(q)' \/ Excused(ListenOf[q])'
<1> HIDE DEF Goal
<1>9. (records' = records => Goal) /\ \A p \in Track : Records(p, FALSE) => Goal
  BY <1>6, <1>7 DEF Goal
<1>10. \A w \in Worker : /\ step[w] = "submit" /\ Records(playObj[w], TRUE)
                         /\ SubmitRecord(w) \/ playObj[w] \in excused'
                         => Goal
  BY <1>8 DEF Goal
<1>11. Goal
  BY <1>1, <1>9, <1>10, AccountKinds
<1>12. QED
  BY <1>11 DEF Goal

(* Whatever is imported, pulled and scrobbled at a time, whatever the loop   *)
(* and the dead run compare and submit meanwhile, and wherever the process   *)
(* dies: all the Client compares Plays with is in the account, so is each    *)
(* Play it is done with, and of a listen it makes one record - unless a Play *)
(* of it has a record and is not marked so (no answer, a stop, a crash or a  *)
(* taken id), or was compared between another's comparison and its mark      *)
(* (createHistoricalPlays, syncRecentHistoricalScrobbles, scrobble of the    *)
(* teal.fm Client, getSOTScrobblesForPlay, and the two that call it).        *)
THEOREM RecordsAlwaysSound == StoreSpec => []RecordsAreSound
<1>1. StoreInit => RecordInv
  <2>1. ASSUME StoreInit
        PROVE  Keys = {} /\ Typed
    BY <2>1, TypedInit DEF StoreInit, Keys
  <2>2. QED
    BY <2>1 DEF StoreInit, RecordInv, StoreIsTrue, RecordedOnce, OwnAccounted, Working,
       WorkIsTrue, Unrivalled
<1>2. RecordInv /\ [StoreNext]_storeVars => RecordInv'
  <2>1. ASSUME RecordInv, StoreNext
        PROVE  RecordInv'
    <3>1. Typed'
      BY <2>1, TypedStep DEF RecordInv
    <3>2. StoreIsTrue'
      BY <2>1, RowsTrueStep, PlaysTrueStep DEF StoreIsTrue
    <3>3. QED
      BY <2>1, <3>1, <3>2, WorkingStep, WorkTrueStep, OwnStep, UnrivalledStep DEF RecordInv
  <2>2. ASSUME RecordInv, UNCHANGED storeVars
        PROVE  RecordInv'
    <3>1. Typed'
      BY <2>2, TypedStep DEF RecordInv
    <3>2. QED
      BY <2>2, <3>1 DEF RecordInv, StoreIsTrue, RecordedOnce, OwnAccounted, Working,
         WorkIsTrue, Unrivalled, Done, Excused, About, IsRecorded, Keys, storeVars, scrobbleVars
  <2>3. QED
    BY <2>1, <2>2
<1>3. RecordInv => RecordsAreSound
  BY DEF RecordInv, Typed, RecordsAreSound
<1>4. QED
  BY <1>1, <1>2, <1>3, PTL DEF StoreSpec
-----------------------------------------------------------------------------
(* The imports *)

\* what was fetched is looked at later, is to be stored or is in the table; what
\* is to be stored is not there unless a pull has stored it meanwhile
StoredIds == { row.uid : row \in rows }

ImportInv ==
  /\ Typed
  /\ stage \in {"no", "fetch"} => car = {}
  /\ stage # "no" => imports = "open"
  /\ car \subseteq todo \cup batch \cup StoredIds
  /\ raced \/ batch \cap StoredIds = {}

LEMMA ByUid == \A r : HasByUid(r) <=> r \in StoredIds
BY DEF HasByUid, StoredIds

(* No row is ever removed.                                                   *)
LEMMA TableGrows ==
  ASSUME Typed, StoreNext
  PROVE  StoredIds \subseteq StoredIds'
<1>1. rows \subseteq rows'
  BY TableKinds DEF Stores, PutScrobble
<1>2. QED
  BY <1>1 DEF StoredIds

(* What a Play is stored under is no record's key.                           *)
LEMMA OwnRows ==
  ASSUME Typed, NEW p \in Track, PutScrobble(p)
  PROVE  Keys \cap StoredIds' \subseteq StoredIds
<1>1. IdOf[p] \in Int /\ IdOf[p] <= NoId
  BY PlaysAre
<1>2. \A r \in Keys : r # IdOf[p]
  BY <1>1, KeysAre DEF NoId
<1>3. \A row \in rows' : row \in rows \/ row.uid = IdOf[p]
  BY DEF PutScrobble
<1>4. QED
  BY <1>2, <1>3 DEF StoredIds

(* A batch is stored as a whole, unless a pull came before it.               *)
LEMMA BatchIsStorable ==
  ASSUME ImportInv, ~raced
  PROVE  Storable(batch) = batch
<1>1. batch \subseteq Keys /\ \A r \in batch : ~HasByUid(r)
  BY ByUid DEF ImportInv, Typed, StoreTypeOK
<1>2. \A r \in batch : r \notin foreign
  BY <1>1, KeysAre DEF ImportInv, Typed, NoId
<1>3. QED
  BY <1>1, <1>2 DEF Storable, Taken

LEMMA StoredAll ==
  ASSUME Typed, NEW S \in SUBSET Keys, Stores(S), Storable(S) = S
  PROVE  S \subseteq StoredIds'
<1>1. \A r \in S : [uid |-> r, listen |-> records[r].listen] \in rows'
  BY DEF Stores
<1>2. \A r \in S : [uid |-> r, listen |-> records[r].listen].uid \in StoredIds'
  BY <1>1 DEF StoredIds
<1>3. QED
  BY <1>2

(* The import is not concerned by a step.                                    *)
Apart == UNCHANGED <<stage, imports, car, todo, batch>>

LEMMA ImportStep ==
  ASSUME ImportInv, StoreNext
  PROVE  ImportInv'
<1> DEFINE Rest == /\ stage' \in {"no", "fetch"} => car' = {}
                   /\ stage' # "no" => imports' = "open"
                   /\ car' \subseteq todo' \cup batch' \cup StoredIds'
                   /\ raced' \/ batch' \cap StoredIds' = {}
<1>1. Typed' /\ Typed
  BY TypedStep DEF ImportInv
<1>2. StoredIds \subseteq StoredIds'
  BY <1>1, TableGrows
<1>3. /\ stage \in {"no", "fetch", "check", "store"} /\ batch \subseteq car
      /\ todo \subseteq car /\ car \subseteq Keys
  BY <1>1 DEF Typed, StoreTypeOK
<1>4. rows' = rows => StoredIds' = StoredIds
  BY DEF StoredIds
<1> SUFFICES Rest
  BY <1>1 DEF ImportInv
<1> USE DEF ImportInv
<1>5. ASSUME Apart, UNCHANGED <<rows, raced>>
      PROVE  Rest
  BY <1>2, <1>4, <1>5 DEF Apart
<1>6. CASE RequestImport \/ PostInitialize
  <2>1. \/ Apart /\ UNCHANGED <<rows, raced>>
        \/ /\ stage = "no" /\ stage' = "fetch" /\ imports' = "open" /\ car' = car
           /\ batch' = batch
    BY <1>6 DEF RequestImport, PostInitialize, StartsImport, Apart, pullVars, importVars
  <2>2. QED
    BY <1>3, <1>5, <2>1
<1>7. CASE Fetch
  <2>1. /\ stage' = "check" /\ imports' = "open" /\ car' = Keys /\ todo' = Keys
        /\ batch' = batch /\ car = {}
    BY <1>7 DEF Fetch
  <2>2. QED
    BY <1>3, <2>1
<1>8. CASE Check
  <2>1. PICK r \in todo : /\ todo' = todo \ {r}
                          /\ batch' = batch \cup { s \in {r} : ToStore(s) }
    BY <1>8 DEF Check
  <2>2. stage' \in {"check", "store"} /\ UNCHANGED <<imports, car, rows, raced>>
    BY <1>8 DEF Check
  <2>3. batch' = IF r \in StoredIds THEN batch ELSE batch \cup {r}
    BY <2>1, ByUid DEF ToStore
  <2>4. imports = "open"
    BY <1>8 DEF Check
  <2>5. QED
    BY <1>2, <1>4, <2>1, <2>2, <2>3, <2>4
<1>9. CASE CheckedAll
  <2>1. CASE EndsImport(TRUE)
    BY <2>1 DEF EndsImport
  <2>2. CASE stage' = "store" /\ UNCHANGED <<imports, car, todo, batch>>
    BY <1>2, <1>4, <1>9, <2>2 DEF CheckedAll
  <2>3. QED
    BY <1>9, <2>1, <2>2 DEF CheckedAll
<1>10. CASE StoreBatch
  <2>1. CASE Storable(batch) = batch /\ stage' = "check" /\ batch' = {}
             /\ UNCHANGED <<imports, car, todo>>
    <3>1. batch \subseteq StoredIds'
      BY <1>1, <1>3, <1>10, <2>1, StoredAll DEF StoreBatch
    <3>2. QED
      BY <1>2, <1>10, <2>1, <3>1 DEF StoreBatch
  <2>2. CASE EndsImport(FALSE)
    BY <2>2 DEF EndsImport
  <2>3. QED
    BY <1>10, <2>1, <2>2 DEF StoreBatch
<1>11. CASE ImportFails
  BY <1>11 DEF ImportFails, EndsImport
<1>12. CASE Crash
  BY <1>12 DEF Crash
<1>13. CASE StoreRecent
  <2>1. Apart /\ raced' = (raced \/ stage # "no")
    BY <1>13 DEF StoreRecent, Apart
  <2>2. stage = "no" => batch = {}
    BY <1>3
  <2>3. ~raced' => batch = {}
    BY <2>1, <2>2
  <2>4. QED
    BY <1>2, <2>1, <2>3 DEF Apart
<1>14. CASE \E w \in Worker : StoreScrobble(w)
  <2>1. Apart /\ UNCHANGED raced /\ (rows' = rows \/ \E p \in Track : PutScrobble(p))
    BY <1>1, <1>14 DEF StoreScrobble, Apart, importVars, Typed, StoreTypeOK
  <2>2. batch \cap StoredIds' \subseteq StoredIds
    BY <1>1, <1>3, <1>4, <2>1, OwnRows
  <2>3. QED
    BY <1>2, <2>1, <2>2 DEF Apart
<1>15. CASE \/ Ask \/ \E p \in Track : Elsewhere(p) \/ OtherStores(p) \/ MarkStopped(p)
            \/ \E w \in Worker :
                 \/ SubmitRecord(w) \/ CompareStored(w)
                 \/ \E created \in BOOLEAN : SubmitFails(w, created)
                 \/ \E p \in Track : LookUpTable(w, p) \/ Mark(w, p)
  <2>1. Apart /\ UNCHANGED <<rows, raced>>
    BY <1>15 DEF Ask, SubmitRecord, SubmitFails, StoredBefore, Elsewhere, OtherStores,
       CompareStored, LookUpTable, Mark, MarkStopped, Apart, importVars
  <2>2. QED
    BY <1>5, <2>1
<1>16. QED
  BY <1>6, <1>7, <1>8, <1>9, <1>10, <1>11, <1>12, <1>13, <1>14, <1>15 DEF StoreNext

(* An import that is reported as a success has stored all the records it     *)
(* fetched, in whatever batches; and one that fails met a fault, or a pull   *)
(* stored some of them before it (the import and createHistoricalPlays).     *)
THEOREM ImportsAlwaysComplete == StoreSpec => ImportsAreComplete
<1> DEFINE Complete == stage # "no" /\ stage' = "no" /\ imports' # "open"
                       => IF synced' THEN \A r \in car : HasByUid(r)' ELSE raced'
<1>1. StoreInit => ImportInv
  BY TypedInit DEF StoreInit, ImportInv, StoredIds
<1>2. ImportInv /\ [StoreNext]_storeVars => ImportInv'
  <2>1. ASSUME ImportInv, UNCHANGED storeVars
        PROVE  ImportInv'
    <3>1. Typed'
      BY <2>1, TypedStep DEF ImportInv
    <3>2. QED
      BY <2>1, <3>1 DEF ImportInv, StoredIds, storeVars, importVars
  <2>2. QED
    BY <2>1, ImportStep
<1>3. ImportInv /\ [StoreNext]_storeVars => [Complete]_stage
  <2>1. SUFFICES ASSUME ImportInv, StoreNext, stage # "no", stage' = "no", imports' # "open"
                 PROVE  IF synced' THEN \A r \in car : HasByUid(r)' ELSE raced'
    BY DEF storeVars, importVars
  <2>2. Typed /\ StoredIds \subseteq StoredIds'
    BY <2>1, TableGrows DEF ImportInv
  <2>3. imports = "open"
    BY <2>1 DEF ImportInv
  <2>4. CheckedAll \/ StoreBatch \/ ImportFails
    BY <2>1, <2>3 DEF StoreNext, RequestImport, StartsImport, Fetch, Check, PostInitialize,
       Ask, StoreRecent, SubmitRecord, SubmitFails, StoreScrobble, Crash, Elsewhere,
       OtherStores, LookUpTable, CompareStored, Mark, MarkStopped, importVars
  <2>5. CASE CheckedAll
    <3>1. synced' = TRUE /\ todo = {} /\ batch = {}
      BY <2>1, <2>5 DEF CheckedAll, EndsImport, NothingLeft
    <3>2. car \subseteq StoredIds'
      BY <2>1, <2>2, <3>1 DEF ImportInv
    <3>3. \A r \in car : HasByUid(r)'
      BY <3>2 DEF HasByUid, StoredIds
    <3>4. QED
      BY <3>1, <3>3
  <2>6. CASE StoreBatch
    <3>1. synced' = FALSE /\ raced' = raced /\ Storable(batch) # batch
      BY <2>1, <2>6 DEF StoreBatch, EndsImport
    <3>2. raced
      BY <2>1, <3>1, BatchIsStorable
    <3>3. QED
      BY <3>1, <3>2
  <2>7. CASE ImportFails
    BY <2>7 DEF ImportFails, EndsImport
  <2>8. QED
    BY <2>4, <2>5, <2>6, <2>7
<1>4. QED
  BY <1>1, <1>2, <1>3, PTL DEF StoreSpec, ImportsAreComplete

-----------------------------------------------------------------------------
(* Dates: the least, the greatest, and how many come before. *)

LEMMA LeastNatural ==
  ASSUME NEW S, S \subseteq Nat, S # {}
  PROVE  \E m \in S : \A n \in S : m <= n
<1> DEFINE R == {ss \in Nat \X Nat : ss[1] < ss[2]}
<1>1. IsWellFoundedOn(R, Nat)
  BY NatLessThanWellFounded DEF OpToRel
<1>2. \A x, y \in Nat : x < y => <<x, y>> \in R
  OBVIOUS
<1> HIDE DEF R
<1>3. PICK m \in S : \A n \in S : ~(<<n, m>> \in R)
  BY <1>1, WFMin
<1>4. \A n \in S : m <= n
  <2> TAKE n \in S
  <2>1. ~(n < m)
    BY <1>2, <1>3
  <2> QED BY <2>1
<1> QED BY <1>4

LEMMA MinOfNaturals ==
  ASSUME NEW S, S \subseteq Nat, S # {}
  PROVE  Min(S) \in S /\ \A x \in S : Min(S) <= x
  BY LeastNatural DEF Min

LEMMA MaxOfNaturals ==
  ASSUME NEW n \in Nat, NEW S \in SUBSET (0..n), S # {}
  PROVE  Max(S) \in S /\ \A x \in S : x <= Max(S)
<1> DEFINE gaps == { n - x : x \in S }
<1>1. \A x \in S : x \in Int /\ n - x \in Nat
  OBVIOUS
<1>2. gaps \subseteq Nat /\ gaps # {}
  BY <1>1
<1>3. PICK g \in gaps : \A h \in gaps : g <= h
  <2> HIDE DEF gaps
  <2> QED BY <1>2, LeastNatural
<1>4. PICK m \in S : g = n - m
  OBVIOUS
<1>5. \A x \in S : n - m <= n - x
  BY <1>3, <1>4
<1>6. \A x \in S : m >= x
  BY <1>1, <1>5
<1>7. Max(S) \in S /\ \A x \in S : Max(S) >= x
  BY <1>6 DEF Max
<1> QED BY <1>1, <1>7

(* How many of a set of numbers there are up to one of them.                *)
Rank(P, i) == Cardinality({ j \in P : j <= i })

LEMMA RankGrows ==
  ASSUME NEW n \in Nat, NEW P \in SUBSET (0..n)
  PROVE  /\ IsFiniteSet(P) /\ Cardinality(P) \in Nat
         /\ \A i \in P : /\ Rank(P, i) \in Nat
                         /\ 1 <= Rank(P, i) /\ Rank(P, i) <= Cardinality(P)
         /\ \A i, j \in P : i < j => Rank(P, i) < Rank(P, j)
<1> DEFINE upto(i) == { j \in P : j <= i }
<1>1. IsFiniteSet(0..n)
  BY FS_Interval
<1>2. IsFiniteSet(P) /\ Cardinality(P) \in Nat
  BY <1>1, FS_Subset, FS_CardinalityType
<1>3. \A i \in P : upto(i) \in SUBSET P /\ i \in upto(i)
  OBVIOUS
<1>4. \A i : Rank(P, i) = Cardinality(upto(i))
  BY DEF Rank
<1>5. \A i, j \in P : i < j => upto(i) \in SUBSET upto(j) /\ j \notin upto(i)
  <2> SUFFICES ASSUME NEW i \in P, NEW j \in P, i < j
               PROVE  upto(i) \in SUBSET upto(j) /\ j \notin upto(i)
    OBVIOUS
  <2>1. i \in Int /\ j \in Int /\ \A k \in P : k \in Int
    OBVIOUS
  <2>2. \A k \in P : k <= i => k <= j
    BY <2>1
  <2>3. ~(j <= i)
    BY <2>1
  <2> QED BY <2>2, <2>3
<1> HIDE DEF upto
<1>6. \A i \in P : /\ IsFiniteSet(upto(i)) /\ Cardinality(upto(i)) \in Nat
                  /\ Cardinality(upto(i)) <= Cardinality(P)
  BY <1>2, <1>3, FS_Subset, FS_CardinalityType
<1>7. \A i \in P : Cardinality(upto(i)) # 0
  BY <1>3, <1>6, FS_EmptySet
<1>8. \A i, j \in P : i < j => Cardinality(upto(i)) < Cardinality(upto(j))
  <2> SUFFICES ASSUME NEW i \in P, NEW j \in P, i < j
               PROVE  Cardinality(upto(i)) < Cardinality(upto(j))
    OBVIOUS
  <2>1. /\ Cardinality(upto(i)) <= Cardinality(upto(j))
        /\ Cardinality(upto(j)) = Cardinality(upto(i)) => upto(i) = upto(j)
    BY <1>5, <1>6, FS_Subset
  <2>2. upto(i) # upto(j)
    BY <1>3, <1>5
  <2> QED BY <2>1, <2>2, <1>6
<1>9. \A i \in P : /\ Rank(P, i) \in Nat
                  /\ 1 <= Rank(P, i) /\ Rank(P, i) <= Cardinality(P)
  BY <1>2, <1>4, <1>6, <1>7
<1>10. \A i, j \in P : i < j => Rank(P, i) < Rank(P, j)
  BY <1>4, <1>8
<1> QED BY <1>2, <1>9, <1>10

LEMMA RankIsOnto ==
  ASSUME NEW n \in Nat, NEW P \in SUBSET (0..n)
  PROVE  \A k \in 1..Cardinality(P) : \E i \in P : Rank(P, i) = k
<1> DEFINE c == Cardinality(P)
           rank == [i \in P |-> Rank(P, i)]
<1>1. /\ IsFiniteSet(P) /\ c \in Nat
      /\ \A i \in P : Rank(P, i) \in Nat /\ 1 <= Rank(P, i) /\ Rank(P, i) <= c
      /\ \A i, j \in P : i < j => Rank(P, i) < Rank(P, j)
  BY RankGrows
<1>2. IsFiniteSet(1..c) /\ Cardinality(1..c) = c
  BY <1>1, FS_Interval
<1> HIDE DEF c
<1>3. rank \in Injection(P, 1..c)
  <2>1. rank \in [P -> 1..c]
    BY <1>1
  <2>2. \A i, j \in P : rank[i] = rank[j] => i = j
    <3> TAKE i, j \in P
    <3>1. i \in Int /\ j \in Int /\ (i < j \/ j < i \/ i = j)
      OBVIOUS
    <3>2. Rank(P, i) \in Int /\ Rank(P, j) \in Int
      BY <1>1
    <3> QED BY <3>1, <3>2, <1>1
  <2> QED BY <2>1, <2>2 DEF Injection, IsInjective
<1>4. rank \in Surjection(P, 1..c)
  BY <1>2, <1>3, FS_Injection DEF c
<1>5. \A k \in 1..c : \E i \in P : rank[i] = k
  BY <1>4 DEF Surjection
<1> QED BY <1>5 DEF c

(* The dates in their order are these dates.                                *)
LEMMA InOrderIs ==
  ASSUME NEW n \in Nat, NEW S \in SUBSET (0..n)
  PROVE  /\ Cardinality(S) \in Nat /\ DOMAIN InOrder(S) = 1..Cardinality(S)
         /\ \A k \in 1..Cardinality(S) : InOrder(S)[k] \in S
         /\ \A d \in S : \E k \in 1..Cardinality(S) : InOrder(S)[k] = d
<1> DEFINE c == Cardinality(S)
<1>1. /\ c \in Nat
      /\ \A d \in S : Rank(S, d) \in Nat /\ 1 <= Rank(S, d) /\ Rank(S, d) <= c
      /\ \A d, e \in S : d < e => Rank(S, d) < Rank(S, e)
  BY RankGrows
<1>2. DOMAIN InOrder(S) = 1..c
  BY DEF InOrder
<1>3. \A k \in 1..c : InOrder(S)[k] \in S /\ Rank(S, InOrder(S)[k]) = k
  <2> SUFFICES ASSUME NEW k \in 1..c PROVE InOrder(S)[k] \in S /\ Rank(S, InOrder(S)[k]) = k
    OBVIOUS
  <2>1. \E d \in S : Cardinality({ e \in S : e <= d }) = k
    BY RankIsOnto DEF Rank
  <2>2. InOrder(S)[k] = CHOOSE d \in S : Cardinality({ e \in S : e <= d }) = k
    BY DEF InOrder
  <2> QED BY <2>1, <2>2 DEF Rank
<1>4. \A d \in S : \E k \in 1..c : InOrder(S)[k] = d
  <2> SUFFICES ASSUME NEW d \in S PROVE \E k \in 1..c : InOrder(S)[k] = d
    OBVIOUS
  <2> DEFINE k == Rank(S, d)
             e == InOrder(S)[k]
  <2>1. k \in 1..c
    BY <1>1
  <2>2. e \in S /\ Rank(S, e) = k
    BY <1>3, <2>1
  <2> HIDE DEF e
  <2>3. e \in Int /\ d \in Int /\ (d < e \/ e < d \/ d = e)
    BY <2>2
  <2>4. e = d
    BY <1>1, <2>2, <2>3
  <2> QED BY <2>1, <2>4 DEF e
<1> QED BY <1>1, <1>2, <1>3, <1>4

(* There are groups that are kept apart as Consolidated says: those that    *)
(* start before some date are known when those that start earlier are.      *)
LEMMA ApartExists ==
  ASSUME NEW n \in Nat, NEW opening \in SUBSET (0..n), NEW last
  PROVE  \E apart \in SUBSET opening :
           \A o \in opening :
             o \in apart <=> \A c \in apart : c < o => last[o] - c >= Consolidate
<1> DEFINE Fits(o, A) == \A c \in A : c < o => last[o] - c >= Consolidate
           Upto(A, m) == /\ \A o \in opening : o < m => (o \in A <=> Fits(o, A))
                         /\ \A o \in A : o < m
           Bad == { m \in Nat : ~ \E A \in SUBSET opening : Upto(A, m) }
<1>1. \A o \in opening : o \in Int /\ o >= 0 /\ o < n + 1
  OBVIOUS
<1>2. Bad = {}
  <2> SUFFICES ASSUME Bad # {} PROVE FALSE
    OBVIOUS
  <2>1. PICK m \in Bad : \A k \in Bad : m <= k
    <3>1. Bad \subseteq Nat
      OBVIOUS
    <3> HIDE DEF Bad
    <3> QED BY <3>1, LeastNatural
  <2>2. m \in Nat /\ ~ \E A \in SUBSET opening : Upto(A, m)
    BY <2>1
  <2>3. m # 0
    <3>1. Upto({}, 0) /\ {} \in SUBSET opening
      BY <1>1
    <3> QED BY <2>2, <3>1
  <2> DEFINE p == m - 1
  <2>4. p \in Nat /\ p < m /\ \A o \in opening : o < m <=> (o < p \/ o = p)
    BY <1>1, <2>2, <2>3
  <2>5. PICK A \in SUBSET opening : Upto(A, p)
    <3> HIDE DEF Upto, Bad, p
    <3>1. p \notin Bad
      BY <2>1, <2>2, <2>4
    <3> QED BY <3>1, <2>4 DEF Bad
  <2> HIDE DEF p, Bad
  <2> DEFINE B == IF p \in opening /\ Fits(p, A) THEN A \cup {p} ELSE A
  <2>6. B \in SUBSET opening
    OBVIOUS
  <2>7. \A o \in opening : o < p => (o \in B <=> o \in A) /\ o # p
    BY <1>1, <2>4
  <2>8. \A o \in opening : o < m => (Fits(o, B) <=> Fits(o, A))
    <3> SUFFICES ASSUME NEW o \in opening, o < m PROVE Fits(o, B) <=> Fits(o, A)
      OBVIOUS
    <3>1. ~(p < o)
      BY <1>1, <2>4
    <3>2. \A c \in opening : c < o => (c \in B <=> c \in A)
      BY <3>1
    <3> HIDE DEF B
    <3> QED BY <3>2, <2>6
  <2>9. p \notin A
    BY <2>4, <2>5
  <2>10. \A o \in opening : o < m => (o \in B <=> Fits(o, B))
    <3> SUFFICES ASSUME NEW o \in opening, o < m PROVE o \in B <=> Fits(o, A)
      BY <2>8
    <3>1. CASE o < p
      <4>1. o \in A <=> Fits(o, A)
        BY <2>5, <3>1
      <4> QED BY <4>1, <2>7, <3>1
    <3>2. CASE o = p
      <4> HIDE DEF Fits
      <4> QED BY <3>2, <2>9
    <3> QED BY <2>4, <3>1, <3>2
  <2>11. \A o \in B : o < m
    <3>1. \A o \in A : o < m
      BY <2>4, <2>5
    <3> QED BY <3>1, <2>4
  <2> HIDE DEF B, Fits
  <2> QED BY <2>2, <2>6, <2>10, <2>11
<1>3. PICK A \in SUBSET opening : Upto(A, n + 1)
  <2> HIDE DEF Upto
  <2>1. n + 1 \in Nat
    OBVIOUS
  <2> QED BY <2>1, <1>2
<1>4. \A o \in opening : o \in A <=> Fits(o, A)
  BY <1>1, <1>3
<1> QED BY <1>4

(* What is grouped is grouped with an older date, or its own.               *)
LEMMA ConsolidatedIs ==
  ASSUME NEW n \in Nat, NEW D \in SUBSET (0..n)
  PROVE  /\ Consolidated(D) \in SUBSET D
         /\ \A d \in D : \E o \in Consolidated(D) : o <= d
<1> DEFINE opening == Opening(D)
           last == [o \in opening |-> Max(Opened(D, opening, o))]
           KeptApart(A) ==
             \A o \in opening :
               o \in A <=> \A c \in A : c < o => Max(Opened(D, opening, o)) - c >= Consolidate
<1>1. opening \in SUBSET D /\ opening \in SUBSET (0..n)
  BY DEF Opening
<1>2. \E A \in SUBSET opening : KeptApart(A)
  <2>1. \E A \in SUBSET opening :
          \A o \in opening : o \in A <=> \A c \in A : c < o => last[o] - c >= Consolidate
    <3> HIDE DEF opening, last
    <3> QED BY <1>1, ApartExists
  <2>2. \A o \in opening : last[o] = Max(Opened(D, opening, o))
    OBVIOUS
  <2> HIDE DEF opening, last
  <2> QED BY <2>1, <2>2
<1>3. Consolidated(D) = CHOOSE A \in SUBSET opening : KeptApart(A)
  BY DEF Consolidated
<1>4. Consolidated(D) \in SUBSET opening /\ KeptApart(Consolidated(D))
  <2> HIDE DEF opening, KeptApart
  <2> QED BY <1>2, <1>3
<1>5. ASSUME NEW d \in D PROVE \E o \in Consolidated(D) : o <= d
  <2>1. PICK o \in D : \A e \in D : o <= e
    <3>1. D \subseteq Nat /\ D # {}
      BY <1>5
    <3> QED BY <3>1, LeastNatural
  <2>2. \A e \in D : e \in Int /\ ~(e < o)
    BY <2>1
  <2>3. o \in opening
    BY <2>2 DEF Opening
  <2>4. \A c \in Consolidated(D) : ~(c < o)
    BY <1>1, <1>4, <2>2
  <2>5. o \in Consolidated(D)
    BY <1>4, <2>3, <2>4
  <2> QED BY <2>1, <2>5
<1> QED BY <1>1, <1>4, <1>5

-----------------------------------------------------------------------------
(* The ranges: their types, and what they serve. *)

Request == [listens : SUBSET Scrobble, start : Int, page : Nat, initial : BOOLEAN,
            knew : SUBSET Scrobble, late : SUBSET Scrobble, whole : BOOLEAN]

Entry == [key : Int \X Int, listens : SUBSET Scrobble, error : BOOLEAN, left : Nat \ {0},
          late : SUBSET Scrobble, whole : BOOLEAN]

Busy == {"reads", "grouped", "looks", "asks", "compares"}

OneEach == \A c, d \in cache : c.key = d.key => c = d

RangesTyped ==
  /\ kind \in Kinds /\ now \in 0..MaxTime /\ ranges \in Seq(TimeRange)
  /\ heard \in [Scrobble -> Dates \cup {Never}] /\ age \in [Scrobble -> 0..Kept]
  /\ date \in [Play -> Dates \cup {Never}]
  /\ queue \in [Play -> {"new", "loop", "dead", "done"}]
  /\ \A p \in Play : queue[p] \in {"loop", "dead"} => date[p] \in Dates
  /\ task \in [Activity -> {"idle"} \cup Busy]
  /\ current \in [Activity -> Play] /\ read \in [Activity -> SUBSET Dates]
  /\ hold \in [Activity -> TimeRange] /\ due \in [Activity -> SUBSET Scrobble]
  /\ answer \in [Activity -> Request]
  /\ cache \subseteq Entry /\ OneEach
  /\ preload \in [stage : {"no", "asks", "sets"}, knew : SUBSET Scrobble, from : Int, to : Int]
  /\ \A a \in Activity : task[a] # "idle" => queue[current[a]] = a

LEMMA NumbersAre ==
  /\ MaxTime \in Nat /\ StaleAfter \in Nat /\ StaleAfter >= 1 /\ Padding \in Nat /\ Padding >= 1
  /\ PageSize \in Nat /\ PageSize >= 1 /\ Scrobbles \in Nat
  /\ PreloadFor \in Nat /\ PreloadFor >= 1 /\ ErrorFor \in Nat /\ ErrorFor >= 1
  /\ Kept \in Nat /\ StaleAfter <= Kept /\ PreloadFor <= Kept
  /\ Dates \subseteq 0..MaxTime /\ Never = -1 /\ 1 \in Play
  /\ Kinds \subseteq {"listenbrainz", "lastfm", "koito", "maloja"}
  BY HistoryAssumption DEF Never, Play, Kept

LEMMA RangesAre ==
  ASSUME RangesTyped
  PROVE  /\ now \in Nat /\ Len(ranges) \in Nat /\ DOMAIN ranges = 1..Len(ranges)
         /\ \A i \in DOMAIN ranges : ranges[i] \in TimeRange
         /\ \A r \in TimeRange : r.from \in Int /\ r.to \in Int /\ r.copy \in Nat /\ r.cursor \in Nat
<1>1. ranges \in Seq(TimeRange) /\ now \in 0..MaxTime
  BY DEF RangesTyped
<1>2. /\ Len(ranges) \in Nat /\ DOMAIN ranges = 1..Len(ranges)
      /\ \A i \in DOMAIN ranges : ranges[i] \in TimeRange
  BY <1>1
<1>3. \A r \in TimeRange : r.from \in Int /\ r.to \in Int /\ r.copy \in Nat /\ r.cursor \in Nat
  BY DEF TimeRange
<1> QED BY <1>1, <1>2, <1>3, NumbersAre

(* The copies there are of all ranges have a bound.                         *)
LEMMA CopiesBounded ==
  ASSUME RangesTyped
  PROVE  \E n \in Nat : \A r \in Live : r.copy \in 0..n
<1> DEFINE Bounded(k, n) == \A i \in 1..k : ranges[i].copy <= n
           Bad == { k \in 0..Len(ranges) : ~ \E n \in Nat : Bounded(k, n) }
<1>1. Len(ranges) \in Nat /\ \A i \in 1..Len(ranges) : ranges[i] \in TimeRange /\ ranges[i].copy \in Nat
  BY RangesAre
<1>2. Bad = {}
  <2> SUFFICES ASSUME Bad # {} PROVE FALSE
    OBVIOUS
  <2>1. PICK k \in Bad : \A j \in Bad : k <= j
    <3>1. Bad \subseteq Nat
      BY <1>1
    <3> HIDE DEF Bad
    <3> QED BY <3>1, LeastNatural
  <2>2. k \in 0..Len(ranges) /\ ~ \E n \in Nat : Bounded(k, n)
    BY <2>1
  <2>3. k # 0
    <3>1. 0 \in Nat /\ Bounded(0, 0)
      OBVIOUS
    <3> HIDE DEF Bounded
    <3> QED BY <2>2, <3>1
  <2>4. k - 1 \in 0..Len(ranges) /\ k - 1 \notin Bad
    <3>1. k \in Int /\ k - 1 \in 0..Len(ranges) /\ ~(k <= k - 1)
      BY <1>1, <2>2, <2>3
    <3> HIDE DEF Bad
    <3> QED BY <2>1, <3>1
  <2>5. PICK n \in Nat : Bounded(k - 1, n)
    BY <2>4
  <2> DEFINE m == ranges[k].copy
  <2>6. m \in Nat /\ n + m \in Nat
    <3>1. k \in 1..Len(ranges)
      BY <1>1, <2>2, <2>3
    <3>2. m \in Nat
      BY <1>1, <3>1
    <3> HIDE DEF m, Bad, Bounded
    <3> QED BY <3>2
  <2>7. Bounded(k, n + m)
    <3> SUFFICES ASSUME NEW i \in 1..k PROVE ranges[i].copy <= n + m
      OBVIOUS
    <3>1. i = k \/ i \in 1..(k - 1)
      BY <1>1, <2>2
    <3>2. i \in 1..Len(ranges)
      BY <1>1, <2>2
    <3>3. ranges[i].copy \in Nat
      BY <1>1, <3>2
    <3>4. i \in 1..(k - 1) => ranges[i].copy <= n
      BY <2>5
    <3> DEFINE c == ranges[i].copy
    <3>5. i = k => c = m
      OBVIOUS
    <3>7. c \in Nat /\ (i \in 1..(k - 1) => c <= n)
      BY <3>3, <3>4
    <3> HIDE DEF c, m
    <3>6. c <= n + m
      BY <3>1, <3>4, <3>5, <3>7, <2>6
    <3> QED BY <3>6 DEF c, m
  <2> HIDE DEF Bounded, m
  <2> QED BY <2>2, <2>6, <2>7
<1>3. PICK n \in Nat : Bounded(Len(ranges), n)
  <2>1. Len(ranges) \in 0..Len(ranges)
    BY <1>1
  <2> QED BY <1>2, <2>1
<1> DEFINE x == hold["loop"].copy
           y == hold["dead"].copy
           b == n + x + y
<1>4. x \in Nat /\ y \in Nat
  <2>1. hold["loop"] \in TimeRange /\ hold["dead"] \in TimeRange
    BY DEF RangesTyped, Activity
  <2> QED BY <2>1 DEF TimeRange
<1>5. ASSUME NEW r \in Live PROVE r.copy \in 0..b
  <2>1. (\E i \in DOMAIN ranges : r = ranges[i]) \/ r = hold["loop"] \/ r = hold["dead"]
    BY DEF Live, Activity
  <2>2. r.copy \in Nat /\ (r.copy <= n \/ r.copy = x \/ r.copy = y)
    <3>1. ASSUME NEW i \in DOMAIN ranges, r = ranges[i] PROVE r.copy \in Nat /\ r.copy <= n
      <4>1. i \in 1..Len(ranges)
        BY RangesAre
      <4> QED BY <1>1, <1>3, <3>1, <4>1
    <3> QED BY <2>1, <3>1, <1>4
  <2> DEFINE c == r.copy
  <2> HIDE DEF x, y, c
  <2>3. c \in Nat /\ (c <= n \/ c = x \/ c = y)
    BY <2>2 DEF c, x, y
  <2>4. c \in 0..(n + x + y)
    BY <2>3, <1>4
  <2> QED BY <2>4 DEF c
<1>6. b \in Nat
  BY <1>4
<1> HIDE DEF b
<1> QED BY <1>5, <1>6

(* A range that is made has its times and the first page.                   *)
LEMMA NewRangeIs ==
  ASSUME RangesTyped, NEW from \in Int, NEW to \in Int
  PROVE  /\ NewRange(from, to) \in TimeRange /\ NewRange(from, to).cursor = 1
         /\ NewRange(from, to).from = from /\ NewRange(from, to).to = to
<1> DEFINE copies == {0} \cup { r.copy : r \in { s \in Live : s.from = from /\ s.to = to } }
<1>1. PICK n \in Nat : \A r \in Live : r.copy \in 0..n
  BY CopiesBounded
<1>2. copies \in SUBSET (0..n) /\ copies # {}
  <2>1. 0 \in 0..n
    OBVIOUS
  <2>2. \A r \in { s \in Live : s.from = from /\ s.to = to } : r.copy \in 0..n
    BY <1>1
  <2> QED BY <2>1, <2>2
<1>3. NewRange(from, to) = [from |-> from, to |-> to, cursor |-> 1, copy |-> Max(copies) + 1]
  BY DEF NewRange
<1> HIDE DEF copies
<1>4. Max(copies) \in 0..n
  BY <1>2, MaxOfNaturals
<1>5. Max(copies) + 1 \in Nat
  BY <1>4
<1> QED BY <1>3, <1>5 DEF TimeRange

(* The range of a group starts before it, and ends after it unless one that *)
(* is kept ends with it or a little earlier; and it is kept or starts with  *)
(* the first page.                                                          *)
LEMMA RangeOfGroupIs ==
  ASSUME RangesTyped, NEW o \in 0..MaxTime, NEW m \in 0..MaxTime
  PROVE  /\ RangeOfGroup(o, m) \in TimeRange /\ RangeOfGroup(o, m).from <= o
         /\ \/ RangeOfGroup(o, m).cursor = 1
            \/ \E i \in DOMAIN ranges : RangeOfGroup(o, m) = ranges[i]
         /\ \A d \in 0..MaxTime :
              o <= d /\ d <= m =>
                \/ RangeOfGroup(o, m).to > Least(now - StaleAfter, d)
                \/ \E i \in DOMAIN ranges : ranges[i].to \in (d - StaleAfter)..d
<1> DEFINE existing == { i \in DOMAIN ranges : Covers(ranges[i], o, m) }
           end == Least(m + Padding, now)
           new == NewRange(o - Padding, end)
<1>1. /\ now \in Nat /\ DOMAIN ranges = 1..Len(ranges)
      /\ \A i \in DOMAIN ranges : /\ ranges[i] \in TimeRange
                                  /\ ranges[i].from \in Int /\ ranges[i].to \in Int
  BY RangesAre
<1>2. RangeOfGroup(o, m) = IF existing # {} THEN ranges[Min(existing)] ELSE new
  BY DEF RangeOfGroup
<1>3. CASE existing = {}
  <2>1. RangeOfGroup(o, m) = new
    BY <1>2, <1>3
  <2>2. end \in Int /\ (end = m + Padding \/ end = now)
    BY <1>1, NumbersAre DEF Least
  <2>3. o - Padding \in Int /\ o - Padding <= o
    BY NumbersAre
  <2> HIDE DEF end
  <2>4. new \in TimeRange /\ new.from = o - Padding /\ new.to = end /\ new.cursor = 1
    BY <2>2, <2>3, NewRangeIs
  <2> HIDE DEF new
  <2>5. ASSUME NEW d \in 0..MaxTime, d <= m PROVE end > Least(now - StaleAfter, d)
    BY <2>2, <2>5, <1>1, NumbersAre DEF Least
  <2> QED BY <2>1, <2>3, <2>4, <2>5
<1>4. CASE existing # {}
  <2> DEFINE i == Min(existing)
             r == ranges[i]
  <2>1. i \in existing
    <3>1. existing \subseteq Nat
      BY <1>1
    <3> HIDE DEF existing
    <3> QED BY <3>1, <1>4, MinOfNaturals
  <2>2. i \in DOMAIN ranges /\ Covers(r, o, m)
    BY <2>1
  <2>3. RangeOfGroup(o, m) = r
    BY <1>2, <1>4
  <2> HIDE DEF i, existing
  <2>4. r \in TimeRange /\ r.from \in Int /\ r.to \in Int
    BY <1>1, <2>2
  <2>5. /\ r.from <= o
        /\ r.to >= IF now - m < StaleAfter THEN m - StaleAfter ELSE m
    BY <2>2 DEF Covers
  <2>6. ASSUME NEW d \in 0..MaxTime, o <= d, d <= m
        PROVE  \/ r.to > Least(now - StaleAfter, d)
               \/ \E j \in DOMAIN ranges : ranges[j].to \in (d - StaleAfter)..d
    <3> DEFINE to == r.to
    <3>1. to \in Int /\ to >= IF now - m < StaleAfter THEN m - StaleAfter ELSE m
      BY <2>4, <2>5
    <3> HIDE DEF to
    <3>2. to > Least(now - StaleAfter, d) \/ to \in (d - StaleAfter)..d
      BY <3>1, <2>6, <1>1, NumbersAre DEF Least
    <3> QED BY <3>2, <2>2 DEF to
  <2>7. \E j \in DOMAIN ranges : r = ranges[j]
    BY <2>2
  <2> HIDE DEF r
  <2> QED BY <2>3, <2>4, <2>5, <2>6, <2>7
<1> QED BY <1>3, <1>4

(* Every date that is grouped has its range.                                *)
LEMMA GroupedRangesAre ==
  ASSUME RangesTyped, NEW D \in SUBSET Dates
  PROVE  /\ GroupedRanges(D) \in Seq(TimeRange)
         /\ \A k \in DOMAIN GroupedRanges(D) :
              \/ GroupedRanges(D)[k].cursor = 1
              \/ \E i \in DOMAIN ranges : GroupedRanges(D)[k] = ranges[i]
         /\ \A d \in D :
              \/ \E k \in DOMAIN GroupedRanges(D) :
                   LET r == GroupedRanges(D)[k]
                   IN r.from <= d /\ r.to > Least(now - StaleAfter, d)
              \/ \E i \in DOMAIN ranges : ranges[i].to \in (d - StaleAfter)..d
<1> DEFINE starts == Consolidated(D)
           groups == InOrder(starts)
           newest(o) == Max(Opened(D, starts, o))
           c == Cardinality(starts)
<1>1. D \in SUBSET (0..MaxTime) /\ MaxTime \in Nat
  BY NumbersAre
<1>2. starts \in SUBSET D /\ \A d \in D : \E o \in starts : o <= d
  BY <1>1, ConsolidatedIs
<1>3. /\ c \in Nat /\ DOMAIN groups = 1..c
      /\ \A k \in 1..c : groups[k] \in starts
      /\ \A o \in starts : \E k \in 1..c : groups[k] = o
  <2> HIDE DEF starts
  <2>1. starts \in SUBSET (0..MaxTime)
    BY <1>1, <1>2
  <2> QED BY <2>1, <1>1, InOrderIs
<1>4. GroupedRanges(D) = [k \in 1..c |-> RangeOfGroup(groups[k], newest(groups[k]))]
  BY <1>3 DEF GroupedRanges
<1> HIDE DEF starts, groups, c
<1>5. ASSUME NEW o \in starts
      PROVE  /\ newest(o) \in 0..MaxTime
             /\ \A d \in Opened(D, starts, o) : d <= newest(o)
  <2>1. o \in Opened(D, starts, o) /\ Opened(D, starts, o) \in SUBSET (0..MaxTime)
    <3>1. o \in D /\ o \in 0..MaxTime /\ \A e \in starts : e \in Int
      BY <1>1, <1>2
    <3>2. o <= o /\ \A e \in starts : ~(o < e /\ e <= o)
      BY <3>1
    <3>3. o \in Opened(D, starts, o)
      BY <3>1, <3>2 DEF Opened
    <3>4. Opened(D, starts, o) \in SUBSET D
      BY DEF Opened
    <3> QED BY <3>3, <3>4, <1>1
  <2> QED BY <2>1, <1>1, MaxOfNaturals
<1>6. \A k \in 1..c : /\ groups[k] \in starts /\ groups[k] \in 0..MaxTime
                      /\ newest(groups[k]) \in 0..MaxTime
  BY <1>1, <1>2, <1>3, <1>5
<1>7. GroupedRanges(D) \in Seq(TimeRange) /\ DOMAIN GroupedRanges(D) = 1..c
  <2>1. \A k \in 1..c : RangeOfGroup(groups[k], newest(groups[k])) \in TimeRange
    <3> HIDE DEF newest
    <3> QED BY <1>6, RangeOfGroupIs
  <2> HIDE DEF newest
  <2>2. GroupedRanges(D) \in [1..c -> TimeRange]
    BY <1>4, <2>1
  <2> QED BY <2>2, <1>3, <1>4
<1>8. ASSUME NEW d \in D
      PROVE  \/ \E k \in 1..c :
                  LET r == GroupedRanges(D)[k]
                  IN r.from <= d /\ r.to > Least(now - StaleAfter, d)
             \/ \E i \in DOMAIN ranges : ranges[i].to \in (d - StaleAfter)..d
  <2>1. PICK o \in starts : o <= d /\ \A e \in starts : e <= d => e <= o
    <3> DEFINE before == { e \in starts : e <= d }
    <3>1. before \in SUBSET (0..MaxTime) /\ before # {}
      BY <1>1, <1>2
    <3>2. Max(before) \in before /\ \A e \in before : e <= Max(before)
      <4> HIDE DEF before
      <4> QED BY <3>1, <1>1, MaxOfNaturals
    <3> QED BY <3>2
  <2>2. d \in Opened(D, starts, o)
    <3>1. \A e \in starts : e \in Int /\ o \in Int /\ d \in Int
      BY <1>1, <1>2
    <3>2. \A e \in starts : ~(o < e /\ e <= d)
      BY <2>1, <3>1
    <3> QED BY <2>1, <3>2 DEF Opened
  <2>3. d <= newest(o) /\ newest(o) \in 0..MaxTime
    BY <2>2, <1>5
  <2>4. PICK k \in 1..c : groups[k] = o
    BY <1>3
  <2> DEFINE r == RangeOfGroup(o, newest(o))
  <2>5. GroupedRanges(D)[k] = r
    BY <1>4, <2>4
  <2>6. o \in 0..MaxTime /\ d \in 0..MaxTime
    BY <1>1, <1>2
  <2> HIDE DEF newest
  <2>7. /\ r \in TimeRange /\ r.from <= o
        /\ \/ r.to > Least(now - StaleAfter, d)
           \/ \E i \in DOMAIN ranges : ranges[i].to \in (d - StaleAfter)..d
    BY <2>1, <2>3, <2>6, RangeOfGroupIs
  <2>8. r.from <= d
    <3>1. r.from \in Int
      BY <2>7 DEF TimeRange
    <3> HIDE DEF r
    <3> QED BY <3>1, <2>1, <2>6, <2>7
  <2> HIDE DEF r
  <2> QED BY <2>5, <2>7, <2>8
<1>9. \A k \in 1..c : \/ GroupedRanges(D)[k].cursor = 1
                       \/ \E i \in DOMAIN ranges : GroupedRanges(D)[k] = ranges[i]
  <2> SUFFICES ASSUME NEW k \in 1..c
               PROVE  \/ GroupedRanges(D)[k].cursor = 1
                      \/ \E i \in DOMAIN ranges : GroupedRanges(D)[k] = ranges[i]
    OBVIOUS
  <2>1. GroupedRanges(D)[k] = RangeOfGroup(groups[k], newest(groups[k]))
    BY <1>4
  <2> HIDE DEF newest
  <2> QED BY <2>1, <1>6, RangeOfGroupIs
<1> QED BY <1>7, <1>8, <1>9

-----------------------------------------------------------------------------
(* Pages: the first few of a set in an order. *)

(* Those before which fewer than n come.                                    *)
Front(S, before, n) == { l \in S : Cardinality({ m \in S : <<m, l>> \in before }) < n }

LEMMA FrontIs ==
  ASSUME NEW S, IsFiniteSet(S), NEW before, NEW n \in Nat, n >= 1,
         \A l \in S : <<l, l>> \notin before,
         \A l, m \in S : l = m \/ <<l, m>> \in before \/ <<m, l>> \in before,
         \A k, l, m \in S : <<k, l>> \in before /\ <<l, m>> \in before => <<k, m>> \in before
  PROVE  /\ Front(S, before, n) \subseteq S
         /\ S # {} => Front(S, before, n) # {}
         /\ \A l \in S : l \notin Front(S, before, n) =>
              /\ Cardinality({ m \in S : <<m, l>> \in before }) >= n
              /\ Cardinality(S) > n
              /\ \A m \in Front(S, before, n) : <<m, l>> \in before
<1> DEFINE earlier(l) == { m \in S : <<m, l>> \in before }
           rank(l) == Cardinality(earlier(l))
<1>1. \A l \in S : earlier(l) \in SUBSET S /\ l \in S /\ l \notin earlier(l)
  OBVIOUS
<1>2. \A l, m \in S : m \in earlier(l) => earlier(m) \in SUBSET earlier(l) /\ m \notin earlier(m)
  OBVIOUS
<1>3. \A l, m \in S : m \in earlier(l) \/ m = l \/ l \in earlier(m)
  OBVIOUS
<1>4. \A l, m \in S : m \in earlier(l) <=> <<m, l>> \in before
  OBVIOUS
<1>5. \A l \in S : l \in Front(S, before, n) <=> rank(l) < n
  BY DEF Front
<1> HIDE DEF earlier
<1>6. Cardinality(S) \in Nat /\ \A l \in S : /\ IsFiniteSet(earlier(l)) /\ rank(l) \in Nat
                                            /\ rank(l) < Cardinality(S)
  <2>1. Cardinality(S) \in Nat
    BY FS_CardinalityType
  <2>2. ASSUME NEW l \in S
        PROVE  IsFiniteSet(earlier(l)) /\ rank(l) \in Nat /\ rank(l) < Cardinality(S)
    <3>1. /\ IsFiniteSet(earlier(l)) /\ rank(l) <= Cardinality(S)
          /\ rank(l) = Cardinality(S) => earlier(l) = S
      BY <1>1, FS_Subset
    <3>2. rank(l) \in Nat
      BY <3>1, FS_CardinalityType
    <3>3. earlier(l) # S
      BY <1>1
    <3> QED BY <2>1, <3>1, <3>2, <3>3
  <2> QED BY <2>1, <2>2
<1>7. \A l, m \in S : m \in earlier(l) => rank(m) < rank(l)
  <2> SUFFICES ASSUME NEW l \in S, NEW m \in S, m \in earlier(l) PROVE rank(m) < rank(l)
    OBVIOUS
  <2>1. earlier(m) \in SUBSET earlier(l) /\ m \notin earlier(m)
    BY <1>2
  <2>2. /\ rank(m) <= rank(l)
        /\ rank(m) = rank(l) => earlier(m) = earlier(l)
    BY <2>1, <1>6, FS_Subset
  <2>3. rank(m) \in Nat /\ rank(l) \in Nat
    BY <1>6
  <2> QED BY <2>1, <2>2, <2>3
<1> HIDE DEF rank
<1>8. S # {} => Front(S, before, n) # {}
  <2> SUFFICES ASSUME S # {} PROVE Front(S, before, n) # {}
    OBVIOUS
  <2> DEFINE ranks == { rank(l) : l \in S }
  <2>1. ranks \subseteq Nat /\ ranks # {}
    BY <1>6
  <2>2. PICK r \in ranks : \A s \in ranks : r <= s
    <3> HIDE DEF ranks
    <3> QED BY <2>1, LeastNatural
  <2>3. PICK l \in S : r = rank(l)
    OBVIOUS
  <2>4. \A m \in S : rank(l) <= rank(m)
    BY <2>2, <2>3
  <2>5. \A m \in S : m \notin earlier(l)
    BY <2>4, <1>6, <1>7
  <2>6. earlier(l) = {}
    BY <2>5, <1>1
  <2>7. rank(l) = 0
    BY <2>6, FS_EmptySet DEF rank
  <2> QED BY <2>7, <1>5
<1>9. ASSUME NEW l \in S, l \notin Front(S, before, n)
      PROVE  /\ rank(l) >= n /\ Cardinality(S) > n
             /\ \A m \in Front(S, before, n) : <<m, l>> \in before
  <2>1. rank(l) >= n
    BY <1>5, <1>6, <1>9
  <2>2. Cardinality(S) > n
    BY <2>1, <1>6
  <2>3. ASSUME NEW m \in Front(S, before, n) PROVE m \in S /\ m \in earlier(l)
    <3>1. m \in S /\ rank(m) < n
      BY <1>5 DEF Front
    <3>2. m # l /\ l \notin earlier(m)
      BY <2>1, <3>1, <1>6, <1>7
    <3> QED BY <3>1, <3>2, <1>3
  <2> QED BY <2>1, <2>2, <2>3, <1>4
<1>10. Front(S, before, n) \subseteq S
  BY DEF Front
<1> QED BY <1>8, <1>9, <1>10 DEF rank, earlier

LEMMA RecordedIs ==
  ASSUME RangesTyped
  PROVE  /\ IsFiniteSet(Recorded) /\ Recorded \subseteq Scrobble
         /\ \A l \in Recorded : l \in Nat /\ heard[l] \in Dates /\ heard[l] \in 0..MaxTime
<1>1. heard \in [Scrobble -> Dates \cup {Never}]
  BY DEF RangesTyped
<1>2. Recorded \subseteq Scrobble /\ \A l \in Recorded : heard[l] # Never
  BY DEF Recorded
<1>3. IsFiniteSet(Recorded)
  <2>1. IsFiniteSet(Scrobble)
    BY NumbersAre, FS_Interval DEF Scrobble
  <2> QED BY <2>1, <1>2, FS_Subset
<1>4. \A l \in Recorded : l \in Nat
  BY <1>2, NumbersAre DEF Scrobble
<1>5. \A l \in Recorded : heard[l] \in Dates
  BY <1>1, <1>2
<1> QED BY <1>2, <1>3, <1>4, <1>5, NumbersAre

(* A page of the oldest: nothing is lost of as many listens as fit on it,   *)
(* and what is not on it is not older than what is.                         *)
LEMMA OldestPageIs ==
  ASSUME RangesTyped, NEW S \in SUBSET Recorded
  PROVE  /\ OldestPage(S) \subseteq S
         /\ S # {} => OldestPage(S) # {}
         /\ \A l \in S : l \notin OldestPage(S) =>
              /\ Cardinality(S) > PageSize
              /\ \A m \in OldestPage(S) : heard[m] <= heard[l] /\ m # l
<1> DEFINE before == { lm \in Recorded \X Recorded : Older(lm[1], lm[2]) }
<1>1. \A l, m \in S : <<l, m>> \in before <=> Older(l, m)
  OBVIOUS
<1>2. OldestPage(S) = Front(S, before, PageSize)
  BY <1>1 DEF OldestPage, Front
<1>3. \A l \in S : l \in Nat /\ heard[l] \in Nat
  BY RecordedIs, NumbersAre
<1>4. /\ \A l \in S : ~Older(l, l)
      /\ \A l, m \in S : l = m \/ Older(l, m) \/ Older(m, l)
      /\ \A k, l, m \in S : Older(k, l) /\ Older(l, m) => Older(k, m)
      /\ \A l, m \in S : Older(m, l) => heard[m] <= heard[l] /\ m # l
  BY <1>3 DEF Older
<1>5. IsFiniteSet(S) /\ PageSize \in Nat /\ PageSize >= 1
  BY RecordedIs, NumbersAre, FS_Subset
<1> HIDE DEF before
<1>6. /\ Front(S, before, PageSize) \subseteq S
      /\ S # {} => Front(S, before, PageSize) # {}
      /\ \A l \in S : l \notin Front(S, before, PageSize) =>
           /\ Cardinality(S) > PageSize
           /\ \A m \in Front(S, before, PageSize) : <<m, l>> \in before
  BY <1>1, <1>4, <1>5, FrontIs
<1> QED BY <1>1, <1>2, <1>4, <1>6

(* And of the newest.                                                       *)
LEMMA NewestPageIs ==
  ASSUME RangesTyped, NEW S \in SUBSET Recorded
  PROVE  /\ NewestPage(S) \subseteq S
         /\ S # {} => NewestPage(S) # {}
         /\ \A l \in S : l \notin NewestPage(S) =>
              /\ Cardinality(S) > PageSize
              /\ Cardinality({ m \in S : Older(l, m) }) >= PageSize
              /\ \A m \in NewestPage(S) : heard[l] <= heard[m] /\ m # l
<1> DEFINE before == { lm \in Recorded \X Recorded : Older(lm[2], lm[1]) }
<1>1. \A l, m \in S : <<m, l>> \in before <=> Older(l, m)
  OBVIOUS
<1>2. NewestPage(S) = Front(S, before, PageSize)
  BY <1>1 DEF NewestPage, Newer, Front
<1>3. \A l \in S : l \in Nat /\ heard[l] \in Nat
  BY RecordedIs, NumbersAre
<1>4. /\ \A l \in S : ~Older(l, l)
      /\ \A l, m \in S : l = m \/ Older(l, m) \/ Older(m, l)
      /\ \A k, l, m \in S : Older(k, l) /\ Older(l, m) => Older(k, m)
      /\ \A l, m \in S : Older(l, m) => heard[l] <= heard[m] /\ m # l
  BY <1>3 DEF Older
<1>5. IsFiniteSet(S) /\ PageSize \in Nat /\ PageSize >= 1
  BY RecordedIs, NumbersAre, FS_Subset
<1>6. \A l \in S : { m \in S : <<m, l>> \in before } = { m \in S : Older(l, m) }
  BY <1>1
<1> HIDE DEF before
<1>7. /\ Front(S, before, PageSize) \subseteq S
      /\ S # {} => Front(S, before, PageSize) # {}
      /\ \A l \in S : l \notin Front(S, before, PageSize) =>
           /\ Cardinality({ m \in S : <<m, l>> \in before }) >= PageSize
           /\ Cardinality(S) > PageSize
           /\ \A m \in Front(S, before, PageSize) : <<m, l>> \in before
  BY <1>1, <1>4, <1>5, FrontIs
<1>8. ASSUME NEW l \in S, l \notin NewestPage(S)
      PROVE  /\ Cardinality(S) > PageSize
             /\ Cardinality({ m \in S : Older(l, m) }) >= PageSize
             /\ \A m \in NewestPage(S) : m \in S /\ Older(l, m)
  <2>1. l \notin Front(S, before, PageSize)
    BY <1>2, <1>8
  <2>2. \A m \in Front(S, before, PageSize) : m \in S /\ <<m, l>> \in before
    BY <1>7, <2>1
  <2>3. Cardinality({ m \in S : Older(l, m) }) >= PageSize
    BY <1>6, <1>7, <2>1
  <2> QED BY <1>1, <1>2, <1>7, <2>1, <2>2, <2>3
<1>9. \A l \in S : l \notin NewestPage(S) => \A m \in NewestPage(S) : heard[l] <= heard[m] /\ m # l
  BY <1>4, <1>8
<1> QED BY <1>2, <1>7, <1>8, <1>9

LEMMA ServingIs ==
  ASSUME RangesTyped, NEW p \in Play, Serving(p) # {}
  PROVE  /\ Min(Serving(p)) \in DOMAIN ranges /\ ranges[Min(Serving(p))] \in TimeRange
         /\ Serves(p, ranges[Min(Serving(p))])
<1>1. ranges \in Seq(TimeRange)
  BY DEF RangesTyped
<1>2. Serving(p) \subseteq DOMAIN ranges /\ Serving(p) \subseteq Nat
  BY <1>1 DEF Serving
<1>3. Min(Serving(p)) \in Serving(p)
  BY <1>2, MinOfNaturals
<1> QED BY <1>1, <1>2, <1>3 DEF Serving

LEMMA OwnRangeIs ==
  ASSUME RangesTyped, NEW p \in Play
  PROVE  /\ date[p] \in Int /\ now \in Int
         /\ OwnRange(p) \in TimeRange /\ OwnRange(p).cursor = 1
         /\ OwnRange(p).from = date[p] - Padding
         /\ OwnRange(p).to = Least(date[p] + Padding, now - StaleAfter)
<1>1. now \in 0..MaxTime /\ date[p] \in Dates \cup {Never}
  BY DEF RangesTyped
<1>2. \A d \in Dates \cup {Never} : d \in Int
  BY NumbersAre
<1>3. \A t \in 0..MaxTime : t \in Int
  BY NumbersAre
<1>4. date[p] \in Int /\ now \in Int
  BY <1>1, <1>2, <1>3
<1>5. date[p] - Padding \in Int /\ Least(date[p] + Padding, now - StaleAfter) \in Int
  BY <1>4, NumbersAre DEF Least
<1> QED BY <1>4, <1>5, NewRangeIs DEF OwnRange

LEMMA WidenedIs ==
  ASSUME RangesTyped, NEW r \in TimeRange
  PROVE  /\ Widened(r) \in TimeRange
         /\ \/ Widened(r) = r
            \/ /\ Widened(r).cursor = 1 /\ Widened(r).from = r.from - Padding
               /\ Widened(r).to = Least(now, r.to + 1)
<1>1. r.from \in Int /\ r.to \in Int /\ now \in Int
  BY RangesAre
<1>2. r.from - Padding \in Int /\ Least(now, r.to + 1) \in Int
  BY <1>1, NumbersAre DEF Least
<1> QED BY <1>2, NewRangeIs DEF Widened

LEMMA FoundRangeIs ==
  ASSUME RangesTyped, NEW p \in Play
  PROVE  FoundRange(p) \in TimeRange /\ Widened(FoundRange(p)) \in TimeRange
<1>1. FoundRange(p) \in TimeRange
  BY OwnRangeIs, ServingIs DEF FoundRange
<1> QED BY <1>1, WidenedIs

(* What is asked for is numbered.                                           *)
LEMMA CursorAfterIs ==
  ASSUME RangesTyped, NEW a \in Activity
  PROVE  /\ CursorAfter(a) \in Nat /\ answer[a].page \in Nat /\ hold[a].cursor \in Nat
         /\ \/ CursorAfter(a) = answer[a].page \/ CursorAfter(a) = hold[a].cursor
            \/ HasMore(a) /\ CursorAfter(a) = answer[a].page + 1
            \/ HasMore(a) /\ CursorAfter(a) = hold[a].cursor + 1
<1>1. answer[a] \in Request /\ hold[a] \in TimeRange
  BY DEF RangesTyped
<1>2. answer[a].page \in Nat /\ hold[a].cursor \in Nat
  BY <1>1 DEF Request, TimeRange
<1> QED BY <1>2 DEF CursorAfter

LEMMA WritesCursorTyped ==
  ASSUME RangesTyped, NEW a \in Activity, WritesCursor(a)
  PROVE  ranges' \in Seq(TimeRange) /\ hold' \in [Activity -> TimeRange]
<1> DEFINE written(r) == IF kind = "koito" /\ Same(r, hold[a])
                         THEN [r EXCEPT !.cursor = CursorAfter(a)] ELSE r
<1>1. \A r \in TimeRange : written(r) \in TimeRange
  <2>1. CursorAfter(a) \in Nat
    BY CursorAfterIs
  <2> QED BY <2>1 DEF TimeRange
<1>2. /\ ranges' = [i \in DOMAIN ranges |-> written(ranges[i])]
      /\ hold' = [b \in Activity |-> written(hold[b])]
  BY DEF WritesCursor
<1> HIDE DEF written
<1>3. Len(ranges) \in Nat /\ DOMAIN ranges = 1..Len(ranges) /\ \A i \in DOMAIN ranges : ranges[i] \in TimeRange
  BY RangesAre
<1>4. ranges' \in [1..Len(ranges) -> TimeRange]
  BY <1>1, <1>2, <1>3
<1>5. ranges' \in Seq(TimeRange)
  BY <1>3, <1>4
<1>6. \A b \in Activity : hold[b] \in TimeRange
  BY DEF RangesTyped
<1> QED BY <1>1, <1>2, <1>5, <1>6

LEMMA RecordedAre ==
  ASSUME RangesTyped
  PROVE  \A S \in SUBSET Recorded : IsFiniteSet(S) /\ Cardinality(S) \in Nat /\ S \in SUBSET Scrobble
  BY RecordedIs, FS_Subset, FS_CardinalityType

LEMMA PageTyped ==
  ASSUME RangesTyped, NEW a \in Activity
  PROVE  Page(a) \in SUBSET Scrobble
<1>1. \A S \in SUBSET Recorded, n \in Nat :
        OldestPage(S) \subseteq S /\ NewestPage(S) \subseteq S /\ NthPage(S, n) \subseteq S
  BY DEF OldestPage, NewestPage, NthPage
<1>2. \A from, to : Within(from, to) \in SUBSET Recorded
  BY DEF Within
<1>3. MalojaDay(hold[a]) \in SUBSET Recorded
  BY DEF MalojaDay
<1>4. kind \in {"listenbrainz", "lastfm", "koito", "maloja"} /\ answer[a].page \in Nat
  BY NumbersAre, CursorAfterIs DEF RangesTyped
<1>5. Page(a) \in SUBSET Recorded
  BY <1>1, <1>2, <1>3, <1>4 DEF Page
<1> QED BY <1>5, RecordedIs

(* The next of ListenBrainz' requests starts after the newest of the page.  *)
LEMMA AfterIs ==
  ASSUME RangesTyped, NEW start \in Int, NEW to \in Int,
         Cardinality(Within(start, to)) >= PageSize
  PROVE  /\ After(start, to) \in Int /\ start < After(start, to)
         /\ \E m \in OldestPage(Within(start, to)) :
              After(start, to) = heard[m] + 1
<1> DEFINE all == Within(start, to)
           times == { heard[l] : l \in OldestPage(all) }
<1>1. all \in SUBSET Recorded /\ \A l \in all : start <= heard[l]
  BY DEF Within
<1>2. all # {}
  BY NumbersAre, FS_EmptySet
<1>3. OldestPage(all) \subseteq all /\ OldestPage(all) # {}
  <2> HIDE DEF all
  <2> QED BY <1>1, <1>2, OldestPageIs
<1>4. times \in SUBSET (0..MaxTime) /\ times # {}
  BY <1>1, <1>3, RecordedIs
<1>5. After(start, to) = Max(times) + 1
  BY DEF After
<1>6. Max(times) \in times
  <2> HIDE DEF times
  <2> QED BY <1>4, NumbersAre, MaxOfNaturals
<1>7. PICK m \in OldestPage(all) : Max(times) = heard[m]
  BY <1>6
<1> HIDE DEF times, all
<1>8. heard[m] \in 0..MaxTime /\ start <= heard[m]
  BY <1>1, <1>3, <1>7, RecordedIs
<1>9. heard[m] \in Int /\ start <= heard[m]
  BY <1>8, NumbersAre
<1>10. After(start, to) = heard[m] + 1
  BY <1>5, <1>7
<1> QED BY <1>7, <1>9, <1>10 DEF all

-----------------------------------------------------------------------------
(* Every step keeps the types. *)

LEMMA RangesTypedInit == HistoryInit => RangesTyped
<1> SUFFICES ASSUME HistoryInit PROVE RangesTyped
  OBVIOUS
<1>1. 0 \in 0..MaxTime /\ <<>> \in Seq(TimeRange) /\ 1 \in Play /\ 0 \in 0..Kept
  BY NumbersAre
<1>2. NoRange \in TimeRange /\ NoAnswer \in Request
  BY DEF NoRange, NoAnswer, TimeRange, Request
<1> QED BY <1>1, <1>2 DEF HistoryInit, RangesTyped, OneEach, NoPreload

LEMMA TickTyped ==
  ASSUME RangesTyped, Tick
  PROVE  RangesTyped'
<1>1. /\ now < MaxTime /\ now' = now + 1
      /\ age' = [l \in Scrobble |-> IF l \in Recorded THEN Least(age[l] + 1, Kept) ELSE 0]
      /\ cache' = { [c EXCEPT !.left = @ - 1] : c \in { c \in cache : c.left > 1 } }
      /\ UNCHANGED <<kind, heard, date, queue, ranges, task, read, current, hold, due, answer, preload>>
  BY DEF Tick, queues, activities, held
<1>2. now' \in 0..MaxTime
  BY <1>1, NumbersAre DEF RangesTyped
<1>3. age' \in [Scrobble -> 0..Kept]
  <2>1. \A l \in Scrobble : Least(age[l] + 1, Kept) \in 0..Kept /\ 0 \in 0..Kept
    <3> SUFFICES ASSUME NEW l \in Scrobble PROVE Least(age[l] + 1, Kept) \in 0..Kept /\ 0 \in 0..Kept
      OBVIOUS
    <3>1. age[l] \in 0..Kept
      BY DEF RangesTyped
    <3> QED BY <3>1, NumbersAre DEF Least
  <2> QED BY <1>1, <2>1
<1>4. \A c \in Entry : c.left > 1 => /\ [c EXCEPT !.left = @ - 1] \in Entry
                                    /\ [c EXCEPT !.left = @ - 1].key = c.key
  <2> SUFFICES ASSUME NEW c \in Entry, c.left > 1
               PROVE  /\ [c EXCEPT !.left = @ - 1] \in Entry
                      /\ [c EXCEPT !.left = @ - 1].key = c.key
    OBVIOUS
  <2>1. c.left \in Nat \ {0}
    BY DEF Entry
  <2>2. c.left - 1 \in Nat \ {0}
    BY <2>1
  <2> QED BY <2>2 DEF Entry
<1>5. cache \subseteq Entry /\ OneEach
  BY DEF RangesTyped
<1> DEFINE later(c) == [c EXCEPT !.left = @ - 1]
<1>6. cache' = { later(c) : c \in { c \in cache : c.left > 1 } }
  BY <1>1
<1>7. \A c \in Entry : c.left > 1 => later(c) \in Entry /\ later(c).key = c.key
  BY <1>4
<1> HIDE DEF later
<1>8. cache' \subseteq Entry
  BY <1>5, <1>6, <1>7
<1>9. ASSUME NEW c \in cache', NEW d \in cache', c.key = d.key PROVE c = d
  <2>1. PICK x \in cache : x.left > 1 /\ c = later(x)
    BY <1>6
  <2>2. PICK y \in cache : y.left > 1 /\ d = later(y)
    BY <1>6
  <2>3. x.key = y.key
    BY <1>5, <1>7, <1>9, <2>1, <2>2
  <2> QED BY <1>5, <2>1, <2>2, <2>3 DEF OneEach
<1>10. OneEach'
  BY <1>9 DEF OneEach
<1> QED BY <1>1, <1>2, <1>3, <1>8, <1>10 DEF RangesTyped

LEMMA LearnTyped ==
  ASSUME RangesTyped, NEW l \in Scrobble, Learn(l)
  PROVE  RangesTyped'
<1>1. UNCHANGED <<kind, now, age, date, queue, ranges, cache, task, read, current, hold, due, answer, preload>>
  BY DEF Learn, queues, activities, held
<1>2. PICK d \in Dates : heard' = [heard EXCEPT ![l] = d]
  BY DEF Learn
<1>3. heard' \in [Scrobble -> Dates \cup {Never}]
  BY <1>2 DEF RangesTyped
<1> QED BY <1>1, <1>3 DEF RangesTyped, OneEach

(* An answer is remembered in the place of the one of its key.              *)
LEMMA RememberedTyped ==
  ASSUME RangesTyped, NEW entry \in Entry, Remembered(entry)
  PROVE  cache' \subseteq Entry /\ OneEach'
  BY DEF Remembered, OneEach, RangesTyped

(* What a preload brings: a page of listens, and the range they are of.     *)
LEMMA PreloadRangeIs ==
  ASSUME RangesTyped, Recorded # {}
  PROVE  /\ NewestPage(Recorded) \in SUBSET Scrobble
         /\ Min({ heard[l] : l \in NewestPage(Recorded) }) \in Int
         /\ \E m \in NewestPage(Recorded) :
              Min({ heard[l] : l \in NewestPage(Recorded) }) = heard[m]
         /\ \A m \in NewestPage(Recorded) :
              Min({ heard[l] : l \in NewestPage(Recorded) }) <= heard[m]
<1> DEFINE newest == NewestPage(Recorded)
           dates == { heard[l] : l \in newest }
<1>1. newest \in SUBSET Recorded /\ newest # {}
  BY NewestPageIs
<1>2. \A l \in Recorded : l \in Scrobble /\ heard[l] \in Nat
  BY RecordedIs, NumbersAre
<1> HIDE DEF newest
<1>3. dates \subseteq Nat /\ dates # {}
  BY <1>1, <1>2
<1>4. Min(dates) \in dates /\ \A x \in dates : Min(dates) <= x
  <2> HIDE DEF dates
  <2> QED BY <1>3, MinOfNaturals
<1>5. Min(dates) \in Nat
  BY <1>3, <1>4
<1>6. \E m \in newest : Min(dates) = heard[m]
  BY <1>4
<1>7. \A m \in newest : Min(dates) <= heard[m]
  BY <1>4
<1>8. newest \in SUBSET Scrobble
  BY <1>1, <1>2
<1> HIDE DEF dates
<1>9. Min(dates) \in Int
  BY <1>5
<1> QED BY <1>6, <1>7, <1>8, <1>9 DEF newest, dates

LEMMA PreloadTyped ==
  ASSUME RangesTyped, PreloadAsks \/ PreloadAnswered \/ PreloadFails \/ PreloadPushes
  PROVE  RangesTyped'
<1> DEFINE Stages == [stage : {"no", "asks", "sets"}, knew : SUBSET Scrobble, from : Int, to : Int]
<1>1. UNCHANGED <<kind, now, heard, age, date, queue, task, read, current, hold, due, answer>>
  BY DEF PreloadAsks, PreloadAnswered, PreloadFails, PreloadPushes, upstream, queues, activities, held
<1>2. NoPreload \in Stages
  BY DEF NoPreload
<1>3. CASE PreloadAsks
  <2>1. preload' = [NoPreload EXCEPT !.stage = "asks", !.knew = Recorded] /\ UNCHANGED <<ranges, cache>>
    BY <1>3 DEF PreloadAsks
  <2>2. preload' \in Stages
    <3>1. preload' = [stage |-> "asks", knew |-> Recorded, from |-> 0, to |-> 0]
      BY <2>1 DEF NoPreload
    <3>2. Recorded \in SUBSET Scrobble
      BY RecordedIs
    <3> QED BY <3>1, <3>2
  <2> HIDE DEF Stages
  <2> QED BY <1>1, <2>1, <2>2 DEF RangesTyped, OneEach, Stages
<1>4. CASE PreloadAnswered
  <2> DEFINE newest == NewestPage(Recorded)
             from == Min({ heard[l] : l \in newest })
             entry == [key |-> <<from, now>>, listens |-> newest, error |-> FALSE,
                       left |-> PreloadFor, late |-> Recorded \ preload.knew, whole |-> TRUE]
  <2>1. /\ Remembered(entry) /\ UNCHANGED ranges /\ Recorded # {}
        /\ preload' = [NoPreload EXCEPT !.stage = "sets", !.from = from, !.to = now]
    BY <1>4 DEF PreloadAnswered
  <2>2. newest \in SUBSET Scrobble /\ from \in Int /\ now \in Int
    BY <2>1, PreloadRangeIs, RangesAre
  <2> HIDE DEF newest, from
  <2>3. PreloadFor \in Nat \ {0} /\ Recorded \ preload.knew \in SUBSET Scrobble
    BY NumbersAre, RecordedIs
  <2>4. entry \in Entry
    BY <2>2, <2>3 DEF Entry
  <2>5. preload' \in Stages
    BY <2>1, <2>2 DEF NoPreload
  <2> HIDE DEF Stages, entry
  <2>6. cache' \subseteq Entry /\ OneEach'
    BY <2>1, <2>4, RememberedTyped
  <2> QED BY <1>1, <2>1, <2>5, <2>6 DEF RangesTyped, Stages
<1>5. CASE PreloadFails
  BY <1>1, <1>2, <1>5 DEF PreloadFails, RangesTyped, OneEach
<1>6. CASE PreloadPushes
  <2>1. /\ preload' = NoPreload /\ UNCHANGED cache
        /\ ranges' = Append(ranges, NewRange(preload.from, preload.to))
    BY <1>6 DEF PreloadPushes
  <2>2. NewRange(preload.from, preload.to) \in TimeRange
    BY NewRangeIs DEF RangesTyped
  <2>3. ranges' \in Seq(TimeRange)
    BY <2>1, <2>2 DEF RangesTyped
  <2> QED BY <1>1, <1>2, <2>1, <2>3 DEF RangesTyped, OneEach
<1> QED BY <1>3, <1>4, <1>5, <1>6

LEMMA EnqueueTyped ==
  ASSUME RangesTyped, NEW p \in Play, Enqueue(p)
  PROVE  RangesTyped'
<1>1. /\ queue[p] = "new"
      /\ UNCHANGED <<kind, now, heard, age, ranges, cache, task, read, current, hold, due, answer, preload>>
  BY DEF Enqueue, upstream, activities, held
<1>2. PICK d \in Dates : date' = [date EXCEPT ![p] = d]
  BY DEF Enqueue
<1>3. PICK q \in {"loop", "dead"} : queue' = [queue EXCEPT ![p] = q]
  BY DEF Enqueue
<1>4. /\ date' \in [Play -> Dates \cup {Never}]
      /\ queue' \in [Play -> {"new", "loop", "dead", "done"}]
      /\ \A o \in Play : queue'[o] \in {"loop", "dead"} => date'[o] \in Dates
      /\ \A o \in Play : queue[o] # "new" => queue'[o] = queue[o]
  BY <1>1, <1>2, <1>3 DEF RangesTyped
<1>5. \A a \in Activity : task[a] # "idle" => queue'[current[a]] = a
  <2>1. \A a \in Activity : task[a] # "idle" => queue[current[a]] = a /\ a # "new" /\ current[a] \in Play
    BY DEF RangesTyped, Activity
  <2> QED BY <2>1, <1>4
<1> QED BY <1>1, <1>4, <1>5 DEF RangesTyped, OneEach

LEMMA TakeTyped ==
  ASSUME RangesTyped, NEW a \in Activity, NEW p \in Play, Take(a, p)
  PROVE  RangesTyped'
<1>1. /\ queue[p] = a /\ task' = [task EXCEPT ![a] = "reads"]
      /\ current' = [current EXCEPT ![a] = p]
      /\ read' = [read EXCEPT ![a] = { date[o] : o \in Oldest("loop") \cup Oldest("dead") }]
      /\ UNCHANGED <<kind, now, heard, age, date, queue, ranges, cache, hold, due, answer, preload>>
  BY DEF Take, upstream, queues
<1>2. { date[o] : o \in Oldest("loop") \cup Oldest("dead") } \in SUBSET Dates
  <2>1. \A q \in {"loop", "dead"} : \A o \in Oldest(q) : o \in Play /\ queue[o] = q
    BY DEF Oldest
  <2>2. \A o \in Play : queue[o] \in {"loop", "dead"} => date[o] \in Dates
    BY DEF RangesTyped
  <2>3. \A o \in Oldest("loop") \cup Oldest("dead") : date[o] \in Dates
    BY <2>1, <2>2
  <2> QED BY <2>3
<1>3. /\ task' \in [Activity -> {"idle"} \cup Busy]
      /\ current' \in [Activity -> Play] /\ read' \in [Activity -> SUBSET Dates]
  BY <1>1, <1>2 DEF RangesTyped, Busy
<1>4. \A b \in Activity : task'[b] # "idle" => queue[current'[b]] = b
  BY <1>1 DEF RangesTyped
<1> QED BY <1>1, <1>3, <1>4 DEF RangesTyped, OneEach

LEMMA RegroupTyped ==
  ASSUME RangesTyped, NEW a \in Activity, Regroup(a)
  PROVE  RangesTyped'
<1>1. /\ task[a] = "reads" /\ task' = [task EXCEPT ![a] = "grouped"]
      /\ ranges' = GroupedRanges(read[a]) /\ read' = [read EXCEPT ![a] = {}]
      /\ UNCHANGED <<kind, now, heard, age, date, queue, cache, current, hold, due, answer, preload>>
  BY DEF Regroup, upstream, queues, held
<1>2. ranges' \in Seq(TimeRange)
  <2>1. read[a] \in SUBSET Dates
    BY DEF RangesTyped
  <2> QED BY <1>1, <2>1, GroupedRangesAre
<1>3. /\ task' \in [Activity -> {"idle"} \cup Busy]
      /\ read' \in [Activity -> SUBSET Dates]
      /\ \A b \in Activity : task'[b] # "idle" => task[b] # "idle"
  BY <1>1 DEF RangesTyped, Busy
<1> QED BY <1>1, <1>2, <1>3 DEF RangesTyped, OneEach

LEMMA FindTyped ==
  ASSUME RangesTyped, NEW a \in Activity, Find(a)
  PROVE  RangesTyped'
<1> DEFINE p == current[a]
           found == FoundRange(p)
           range == Widened(found)
           kept == [i \in DOMAIN ranges |-> IF Same(ranges[i], found) THEN range ELSE ranges[i]]
<1>1. /\ task[a] = "grouped" /\ task' = [task EXCEPT ![a] = "looks"]
      /\ hold' = [hold EXCEPT ![a] = range]
      /\ due' = [due EXCEPT ![a] = { l \in Scrobble : age[l] = Kept }]
      /\ ranges' = Append(ranges, range) \/ ranges' = kept
      /\ UNCHANGED <<kind, now, heard, age, date, queue, cache, current, read, answer, preload>>
  BY DEF Find, upstream, queues
<1>2. p \in Play
  BY DEF RangesTyped
<1>3. range \in TimeRange
  BY <1>2, FoundRangeIs
<1> HIDE DEF range
<1>4. ranges' \in Seq(TimeRange)
  <2>1. ranges \in Seq(TimeRange)
    BY DEF RangesTyped
  <2>2. Append(ranges, range) \in Seq(TimeRange)
    BY <2>1, <1>3
  <2>3. Len(ranges) \in Nat /\ DOMAIN ranges = 1..Len(ranges) /\ \A i \in DOMAIN ranges : ranges[i] \in TimeRange
    BY RangesAre
  <2>4. kept \in [1..Len(ranges) -> TimeRange]
    BY <2>3, <1>3
  <2> HIDE DEF kept
  <2>5. kept \in Seq(TimeRange)
    BY <2>3, <2>4
  <2> QED BY <1>1, <2>2, <2>5
<1>5. /\ task' \in [Activity -> {"idle"} \cup Busy]
      /\ hold' \in [Activity -> TimeRange] /\ due' \in [Activity -> SUBSET Scrobble]
      /\ \A b \in Activity : task'[b] # "idle" => task[b] # "idle"
  BY <1>1, <1>3 DEF RangesTyped, Busy
<1> QED BY <1>1, <1>4, <1>5 DEF RangesTyped, OneEach

LEMMA SettlesTyped ==
  ASSUME RangesTyped, NEW a \in Activity, task[a] # "idle", Settles(a),
         cache' \subseteq Entry, OneEach'
  PROVE  RangesTyped'
<1> DEFINE p == current[a]
<1>1. /\ task' = [task EXCEPT ![a] = "idle"] /\ current' = [current EXCEPT ![a] = 1]
      /\ answer' = [answer EXCEPT ![a] = NoAnswer] /\ hold' = [hold EXCEPT ![a] = NoRange]
      /\ due' = [due EXCEPT ![a] = {}]
      /\ \/ queue' = [queue EXCEPT ![p] = "dead"] /\ date' = date
         \/ queue' = [queue EXCEPT ![p] = "done"] /\ date' = [date EXCEPT ![p] = Never]
      /\ UNCHANGED <<kind, now, heard, age, ranges, read, preload>>
  BY DEF Settles, upstream
<1>2. /\ p \in Play /\ queue[p] = a /\ date[p] \in Dates
      /\ \A b \in Activity : b # a /\ task[b] # "idle" => current[b] # p
  BY DEF RangesTyped, Activity
<1>3. NoRange \in TimeRange /\ NoAnswer \in Request
  BY DEF NoRange, NoAnswer, TimeRange, Request
<1>4. /\ queue' \in [Play -> {"new", "loop", "dead", "done"}]
      /\ date' \in [Play -> Dates \cup {Never}]
      /\ \A q \in Play : queue'[q] \in {"loop", "dead"} => date'[q] \in Dates
      /\ \A q \in Play : q # p => queue'[q] = queue[q]
  <2> HIDE DEF p
  <2>1. /\ queue \in [Play -> {"new", "loop", "dead", "done"}]
        /\ date \in [Play -> Dates \cup {Never}]
        /\ \A q \in Play : queue[q] \in {"loop", "dead"} => date[q] \in Dates
    BY DEF RangesTyped
  <2>2. CASE queue' = [queue EXCEPT ![p] = "dead"] /\ date' = date
    BY <1>2, <2>1, <2>2
  <2>3. CASE queue' = [queue EXCEPT ![p] = "done"] /\ date' = [date EXCEPT ![p] = Never]
    BY <1>2, <2>1, <2>3
  <2> QED BY <1>1, <2>2, <2>3
<1>5. /\ task' \in [Activity -> {"idle"} \cup Busy]
      /\ current' \in [Activity -> Play]
      /\ \A b \in Activity : task'[b] # "idle" => queue'[current'[b]] = b
  <2>1. /\ task \in [Activity -> {"idle"} \cup Busy]
        /\ current \in [Activity -> Play] /\ 1 \in Play
        /\ \A b \in Activity : task[b] # "idle" => queue[current[b]] = b
    BY NumbersAre DEF RangesTyped
  <2>2. task' \in [Activity -> {"idle"} \cup Busy] /\ current' \in [Activity -> Play]
    BY <1>1, <2>1
  <2>3. \A b \in Activity : task'[b] # "idle" => b # a /\ task[b] # "idle" /\ current'[b] = current[b]
    BY <1>1, <2>1
  <2> HIDE DEF p
  <2> QED BY <1>2, <1>4, <2>1, <2>2, <2>3
<1>6. /\ hold' \in [Activity -> TimeRange] /\ answer' \in [Activity -> Request]
      /\ due' \in [Activity -> SUBSET Scrobble]
  BY <1>1, <1>3 DEF RangesTyped
<1> QED BY <1>1, <1>4, <1>5, <1>6 DEF RangesTyped

(* What an activity compares with.                                          *)
Brought(listens, late, whole) ==
  [NoAnswer EXCEPT !.listens = listens, !.late = late, !.whole = whole]

LEMMA BroughtIs ==
  ASSUME NEW listens \in SUBSET Scrobble, NEW late \in SUBSET Scrobble, NEW whole \in BOOLEAN
  PROVE  /\ Brought(listens, late, whole) \in Request
         /\ Brought(listens, late, whole).listens = listens
         /\ Brought(listens, late, whole).late = late
         /\ Brought(listens, late, whole).whole = whole
<1> DEFINE old == NoAnswer
<1>1. old \in Request
  BY DEF NoAnswer, Request
<1>2. Brought(listens, late, whole) = [old EXCEPT !.listens = listens, !.late = late, !.whole = whole]
  BY DEF Brought
<1> HIDE DEF old
<1> QED BY <1>1, <1>2 DEF Request

LEMMA LookUpTyped ==
  ASSUME RangesTyped, NEW a \in Activity, LookUp(a) \/ AskForPage(a)
  PROVE  RangesTyped'
<1>1. /\ task[a] = "looks"
      /\ task' = [task EXCEPT ![a] = "compares"] \/ task' = [task EXCEPT ![a] = "asks"]
      /\ UNCHANGED <<kind, now, heard, age, date, queue, ranges, cache, current, read, hold, due, preload>>
  BY DEF LookUp, AskForPage, upstream, queues
<1>2. \E r \in Request : answer' = [answer EXCEPT ![a] = r]
  <2>1. ASSUME LookUp(a) PROVE \E r \in Request : answer' = [answer EXCEPT ![a] = r]
    <3>1. PICK c \in cache : answer' = [answer EXCEPT ![a] = Brought(c.listens, c.late, c.whole)]
      BY <2>1 DEF LookUp, Cached, Brought
    <3>2. c \in Entry
      BY DEF RangesTyped
    <3>3. Brought(c.listens, c.late, c.whole) \in Request
      <4>1. c.listens \in SUBSET Scrobble /\ c.late \in SUBSET Scrobble /\ c.whole \in BOOLEAN
        BY <3>2 DEF Entry
      <4> QED BY <4>1, BroughtIs
    <3> QED BY <3>1, <3>3
  <2>2. ASSUME AskForPage(a) PROVE \E r \in Request : answer' = [answer EXCEPT ![a] = r]
    <3>1. hold[a] \in TimeRange /\ hold[a].from \in Int /\ hold[a].cursor \in Nat
      BY DEF RangesTyped, TimeRange
    <3>2. [NoAnswer EXCEPT !.knew = Recorded, !.start = hold[a].from, !.page = hold[a].cursor,
             !.whole = hold[a].cursor = 1] \in Request
      BY <3>1, RecordedIs DEF NoAnswer, Request
    <3> QED BY <2>2, <3>2 DEF AskForPage
  <2> QED BY <2>1, <2>2
<1>3. /\ task' \in [Activity -> {"idle"} \cup Busy] /\ answer' \in [Activity -> Request]
      /\ \A b \in Activity : task'[b] # "idle" => task[b] # "idle"
  BY <1>1, <1>2 DEF RangesTyped, Busy
<1> QED BY <1>1, <1>3 DEF RangesTyped, OneEach

(* What a page that is followed by another leaves of the request.           *)
NextRequest(a) ==
  LET old == answer[a]
      next == IF kind = "koito" THEN CursorAfter(a) ELSE old.page + 1
  IN [old EXCEPT !.listens = @ \cup Page(a), !.page = next, !.initial = FALSE,
        !.start = IF kind = "listenbrainz" THEN After(@, hold[a].to) ELSE @,
        !.whole = @ /\ next = old.page + 1]

LEMMA NextRequestIs ==
  ASSUME RangesTyped, NEW a \in Activity, HasMore(a)
  PROVE  /\ NextRequest(a) \in Request
         /\ NextRequest(a).listens = answer[a].listens \cup Page(a)
         /\ NextRequest(a).page = IF kind = "koito" THEN CursorAfter(a) ELSE answer[a].page + 1
         /\ ~NextRequest(a).initial
         /\ NextRequest(a).start = IF kind = "listenbrainz" THEN After(answer[a].start, hold[a].to)
                                   ELSE answer[a].start
         /\ NextRequest(a).knew = answer[a].knew /\ NextRequest(a).late = answer[a].late
         /\ NextRequest(a).whole <=> answer[a].whole /\ NextRequest(a).page = answer[a].page + 1
<1> DEFINE old == answer[a]
           next == IF kind = "koito" THEN CursorAfter(a) ELSE old.page + 1
           start == IF kind = "listenbrainz" THEN After(old.start, hold[a].to) ELSE old.start
           whole == old.whole /\ next = old.page + 1
<1>1. old \in Request /\ old.page \in Nat /\ old.start \in Int /\ old.listens \in SUBSET Scrobble
      /\ hold[a] \in TimeRange /\ hold[a].to \in Int
  BY DEF RangesTyped, Request, TimeRange
<1>2. next \in Nat
  BY <1>1, CursorAfterIs
<1>3. start \in Int
  <2>1. CASE kind = "listenbrainz"
    <3>1. Cardinality(Within(old.start, hold[a].to)) >= PageSize
      BY <2>1 DEF HasMore
    <3> QED BY <1>1, <2>1, <3>1, AfterIs
  <2> QED BY <1>1, <2>1
<1>4. old.listens \cup Page(a) \in SUBSET Scrobble
  BY <1>1, PageTyped
<1>5. NextRequest(a) = [old EXCEPT !.listens = old.listens \cup Page(a), !.page = next, !.initial = FALSE,
                          !.start = start, !.whole = whole]
  BY DEF NextRequest
<1>6. whole \in BOOLEAN
  OBVIOUS
<1> HIDE DEF next, start, whole, old
<1>7. /\ NextRequest(a) \in Request
      /\ NextRequest(a).listens = old.listens \cup Page(a)
      /\ NextRequest(a).page = next /\ NextRequest(a).initial = FALSE
      /\ NextRequest(a).start = start /\ NextRequest(a).whole = whole
      /\ NextRequest(a).knew = old.knew /\ NextRequest(a).late = old.late
  BY <1>1, <1>2, <1>3, <1>4, <1>5, <1>6 DEF Request
<1> QED BY <1>7 DEF next, start, whole, old

LEMMA AnsweredTyped ==
  ASSUME RangesTyped, NEW a \in Activity, Answered(a)
  PROVE  RangesTyped'
<1>1. /\ WritesCursor(a) /\ HasMore(a)
      /\ UNCHANGED <<kind, now, heard, age, date, queue, cache, task, current, read, due, preload>>
  BY DEF Answered, upstream, queues
<1>2. answer' = [answer EXCEPT ![a] = NextRequest(a)]
  BY DEF Answered, NextRequest
<1>3. ranges' \in Seq(TimeRange) /\ hold' \in [Activity -> TimeRange]
  BY <1>1, WritesCursorTyped
<1>4. answer' \in [Activity -> Request]
  BY <1>1, <1>2, NextRequestIs DEF RangesTyped
<1> QED BY <1>1, <1>3, <1>4 DEF RangesTyped, OneEach

(* And what the last page makes of it, and of the cache.                     *)
LastAnswer(a) ==
  [NoAnswer EXCEPT !.listens = answer[a].listens \cup Page(a),
     !.late = Recorded \ answer[a].knew, !.whole = answer[a].whole]

LastEntry(a) ==
  [key |-> Key(hold[a]), listens |-> answer[a].listens \cup Page(a), error |-> FALSE,
   left |-> StaleAfter, late |-> Recorded \ answer[a].knew, whole |-> answer[a].whole]

LEMMA LastIs ==
  ASSUME RangesTyped, NEW a \in Activity
  PROVE  /\ LastAnswer(a) \in Request /\ LastEntry(a) \in Entry
         /\ LastAnswer(a).listens = answer[a].listens \cup Page(a)
         /\ LastAnswer(a).late = Recorded \ answer[a].knew
         /\ LastAnswer(a).whole = answer[a].whole
<1>1. /\ answer[a].listens \in SUBSET Scrobble /\ answer[a].whole \in BOOLEAN
      /\ hold[a].from \in Int /\ hold[a].to \in Int
  <2>1. answer[a] \in Request /\ hold[a] \in TimeRange
    BY DEF RangesTyped
  <2> QED BY <2>1 DEF Request, TimeRange
<1>2. answer[a].listens \cup Page(a) \in SUBSET Scrobble /\ Recorded \ answer[a].knew \in SUBSET Scrobble
  BY <1>1, PageTyped, RecordedIs
<1>3. Key(hold[a]) \in Int \X Int /\ StaleAfter \in Nat \ {0}
  BY <1>1, NumbersAre DEF Key
<1>4. LastEntry(a) \in Entry
  BY <1>1, <1>2, <1>3 DEF LastEntry, Entry
<1> DEFINE listens == answer[a].listens \cup Page(a)
           late == Recorded \ answer[a].knew
           whole == answer[a].whole
<1>5. LastAnswer(a) = Brought(listens, late, whole)
  BY DEF LastAnswer, Brought
<1>6. listens \in SUBSET Scrobble /\ late \in SUBSET Scrobble /\ whole \in BOOLEAN
  BY <1>1, <1>2
<1> HIDE DEF listens, late, whole
<1>7. /\ LastAnswer(a) \in Request /\ LastAnswer(a).listens = listens
      /\ LastAnswer(a).late = late /\ LastAnswer(a).whole = whole
  BY <1>5, <1>6, BroughtIs
<1> QED BY <1>4, <1>7 DEF listens, late, whole

LEMMA AnsweredLastTyped ==
  ASSUME RangesTyped, NEW a \in Activity, AnsweredLast(a)
  PROVE  RangesTyped'
<1>1. /\ WritesCursor(a) /\ task[a] = "asks" /\ task' = [task EXCEPT ![a] = "compares"]
      /\ UNCHANGED <<kind, now, heard, age, date, queue, current, read, due, preload>>
  BY DEF AnsweredLast, upstream, queues
<1>2. answer' = [answer EXCEPT ![a] = LastAnswer(a)] /\ Remembered(LastEntry(a))
  BY DEF AnsweredLast, LastAnswer, LastEntry
<1>3. ranges' \in Seq(TimeRange) /\ hold' \in [Activity -> TimeRange]
  BY <1>1, WritesCursorTyped
<1>4. answer' \in [Activity -> Request] /\ cache' \subseteq Entry /\ OneEach'
  BY <1>2, LastIs, RememberedTyped DEF RangesTyped
<1>5. /\ task' \in [Activity -> {"idle"} \cup Busy]
      /\ \A b \in Activity : task'[b] # "idle" => task[b] # "idle"
  BY <1>1 DEF RangesTyped, Busy
<1> QED BY <1>1, <1>3, <1>4, <1>5 DEF RangesTyped

LEMMA FailureTyped ==
  ASSUME RangesTyped, NEW a \in Activity
  PROVE  [key |-> Key(hold[a]), listens |-> {}, error |-> TRUE,
          left |-> ErrorFor, late |-> {}, whole |-> TRUE] \in Entry
<1>1. hold[a].from \in Int /\ hold[a].to \in Int
  <2>1. hold[a] \in TimeRange
    BY DEF RangesTyped
  <2> QED BY <2>1 DEF TimeRange
<1> QED BY <1>1, NumbersAre DEF Key, Entry

LEMMA EndsTyped ==
  ASSUME RangesTyped, NEW a \in Activity, LookUpFails(a) \/ AskFails(a) \/ Compare(a)
  PROVE  RangesTyped'
<1> DEFINE entry == [key |-> Key(hold[a]), listens |-> {}, error |-> TRUE,
                     left |-> ErrorFor, late |-> {}, whole |-> TRUE]
<1>1. task[a] # "idle" /\ Settles(a) /\ (UNCHANGED cache \/ Remembered(entry))
  BY DEF LookUpFails, AskFails, Compare
<1>2. entry \in Entry
  BY FailureTyped
<1> HIDE DEF entry
<1>3. cache' \subseteq Entry /\ OneEach'
  <2>1. CASE UNCHANGED cache
    BY <2>1 DEF RangesTyped, OneEach
  <2>2. CASE Remembered(entry)
    BY <1>2, <2>2, RememberedTyped
  <2> QED BY <1>1, <2>1, <2>2
<1> QED BY <1>1, <1>3, SettlesTyped

LEMMA RangesTypedStep == RangesTyped /\ [HistoryNext]_historyVars => RangesTyped'
<1> SUFFICES ASSUME RangesTyped, [HistoryNext]_historyVars PROVE RangesTyped'
  OBVIOUS
<1>1. CASE Tick  BY <1>1, TickTyped
<1>2. ASSUME NEW l \in Scrobble, Learn(l) PROVE RangesTyped'
  BY <1>2, LearnTyped
<1>3. CASE PreloadAsks \/ PreloadAnswered \/ PreloadFails \/ PreloadPushes
  BY <1>3, PreloadTyped
<1>4. ASSUME NEW p \in Play, Enqueue(p) PROVE RangesTyped'
  BY <1>4, EnqueueTyped
<1>5. ASSUME NEW a \in Activity, NEW p \in Play, Take(a, p) PROVE RangesTyped'
  BY <1>5, TakeTyped
<1>6. ASSUME NEW a \in Activity, Regroup(a) PROVE RangesTyped'
  BY <1>6, RegroupTyped
<1>7. ASSUME NEW a \in Activity, Find(a) PROVE RangesTyped'
  BY <1>7, FindTyped
<1>8. ASSUME NEW a \in Activity, LookUp(a) \/ AskForPage(a) PROVE RangesTyped'
  BY <1>8, LookUpTyped
<1>9. ASSUME NEW a \in Activity, Answered(a) PROVE RangesTyped'
  BY <1>9, AnsweredTyped
<1>10. ASSUME NEW a \in Activity, AnsweredLast(a) PROVE RangesTyped'
  BY <1>10, AnsweredLastTyped
<1>11. ASSUME NEW a \in Activity, LookUpFails(a) \/ AskFails(a) \/ Compare(a) PROVE RangesTyped'
  BY <1>11, EndsTyped
<1>12. CASE UNCHANGED historyVars
  BY <1>12 DEF historyVars, upstream, queues, activities, held, RangesTyped, OneEach
<1> QED BY <1>1, <1>2, <1>3, <1>4, <1>5, <1>6, <1>7, <1>8, <1>9, <1>10, <1>11, <1>12 DEF HistoryNext

(* The range of a Play is there when its activity has regrouped, or an older *)
(* one is kept that ends with the Play or a little before it: for any dates, *)
(* paddings and durations, any number of Plays, and whatever the other      *)
(* activity or an initialisation did with the ranges since the dates were   *)
(* read (handleQueuedScrobbleRanges and getSOTScrobblesForPlay).            *)
THEOREM RangesAlwaysHandled == HistorySpec => RangesAreHandled
<1> DEFINE AllHandled ==
             \A a \in Activity :
               LET p == current[a]
               IN task[a] = "reads" /\ task'[a] = "grouped" /\ date[p] \in read[a]
                  => \/ Serving(p)' # {}
                     \/ \E i \in DOMAIN ranges : ranges[i].to \in (date[p] - StaleAfter)..date[p]
<1>1. RangesTyped /\ [HistoryNext]_historyVars => [AllHandled]_task
  <2> SUFFICES ASSUME RangesTyped, [HistoryNext]_historyVars, NEW a \in Activity,
                      task[a] = "reads", task'[a] = "grouped", date[current[a]] \in read[a]
               PROVE  \/ Serving(current[a])' # {}
                      \/ \E i \in DOMAIN ranges :
                           ranges[i].to \in (date[current[a]] - StaleAfter)..date[current[a]]
    OBVIOUS
  <2>1. Regroup(a)
    <3>1. task \in [Activity -> {"idle"} \cup Busy]
      BY DEF RangesTyped
    <3>2. task' # task
      OBVIOUS
    <3>3. UNCHANGED task => FALSE
      BY <3>2
    <3>4. /\ ~Tick /\ ~(\E l \in Scrobble : Learn(l)) /\ ~(\E p \in Play : Enqueue(p))
          /\ ~PreloadAsks /\ ~PreloadAnswered /\ ~PreloadFails /\ ~PreloadPushes
          /\ ~(\E b \in Activity : Answered(b)) /\ ~UNCHANGED historyVars
      BY <3>3 DEF Tick, Learn, Enqueue, PreloadAsks, PreloadAnswered, PreloadFails, PreloadPushes,
                  Answered, historyVars, activities
    <3>5. \A b \in Activity : Settles(b) => task' = [task EXCEPT ![b] = "idle"]
      BY DEF Settles
    <3>6. \A b \in Activity : ~(\E p \in Play : Take(b, p)) /\ ~Find(b) /\ ~LookUp(b) /\ ~AskForPage(b)
                              /\ ~AnsweredLast(b)
      BY <3>1 DEF Take, Find, LookUp, AskForPage, AnsweredLast
    <3>7. \A b \in Activity : ~LookUpFails(b) /\ ~AskFails(b) /\ ~Compare(b)
      BY <3>1, <3>5 DEF LookUpFails, AskFails, Compare
    <3>8. \E b \in Activity : Regroup(b)
      BY <3>4, <3>6, <3>7 DEF HistoryNext
    <3>9. \A b \in Activity : Regroup(b) => task' = [task EXCEPT ![b] = "grouped"]
      BY DEF Regroup
    <3> QED BY <3>1, <3>8, <3>9
  <2> DEFINE p == current[a]
             D == read[a]
             d == date[p]
  <2>2. /\ ranges' = GroupedRanges(D) /\ now' = now /\ date' = date /\ current' = current
    BY <2>1 DEF Regroup, queues, held
  <2>3. D \in SUBSET Dates /\ d \in D
    BY DEF RangesTyped
  <2>4. \/ \E k \in DOMAIN ranges' :
             LET r == ranges'[k]
             IN r.from <= d /\ r.to > Least(now - StaleAfter, d)
        \/ \E i \in DOMAIN ranges : ranges[i].to \in (d - StaleAfter)..d
    BY <2>2, <2>3, GroupedRangesAre
  <2>5. Serving(p)' = { k \in DOMAIN ranges' : /\ ranges'[k].from <= d
                                               /\ ranges'[k].to > Least(now - StaleAfter, d) }
    BY <2>2 DEF Serving, Serves, Least
  <2> HIDE DEF p, D, d
  <2>6. Serving(p)' # {} \/ \E i \in DOMAIN ranges : ranges[i].to \in (d - StaleAfter)..d
    BY <2>4, <2>5
  <2> QED BY <2>6 DEF p, d
<1> QED BY <1>1, RangesTypedInit, RangesTypedStep, PTL DEF HistorySpec, RangesAreHandled

-----------------------------------------------------------------------------
(* What an answer has of the listens of its time. *)

(* More listens than a page has.                                            *)
Many(from, to) == Cardinality(Within(from, to)) > PageSize

(* What is known to be missed although all the pages were asked for.        *)
Misses(from, to, l) ==
  \/ LostToPages(from, to, TRUE, l)
  \/ kind = "maloja" /\ Day(heard[l]) # Day(from)

(* A later page is gone on with only where there are more.                  *)
Paged(r) == r.cursor >= 1 /\ (r.cursor > 1 => kind = "koito" /\ Many(r.from, r.to))

(* An answer that has left pages out is Koito's, of many.                   *)
Skips(whole, from, to) == ~whole => kind = "koito" /\ Many(from, to)

(* An answer that is remembered has all of its time, but what it misses and *)
(* what was not known for as long as it is remembered when it is forgotten. *)
Remembers(c) ==
  /\ Skips(c.whole, c.key[1], c.key[2])
  /\ ~c.error =>
       /\ c.left <= Kept
       /\ c.whole => \A l \in Within(c.key[1], c.key[2]) \ c.late :
                       \/ l \in c.listens \/ Misses(c.key[1], c.key[2], l)
                       \/ age[l] + c.left <= Kept

(* What the pages still to come have.                                       *)
Ahead(r, req, l) ==
  /\ kind = "listenbrainz" => req.start <= heard[l]
  /\ kind = "koito" => Newer(Within(r.from, r.to), l) >= (req.page - 1) * PageSize

(* An activity that looks for the listens of a Play, *)
Looks(a) == \A l \in due[a] :
  /\ l \in Recorded /\ age[l] = Kept
  /\ heard[l] = date[current[a]] => l \in Within(hold[a].from, hold[a].to)

(* asks for them, *)
Asks(r, req) ==
  /\ Skips(req.whole, r.from, r.to) /\ r.from <= req.start /\ req.page >= 1
  /\ req.knew \subseteq Recorded
  /\ kind = "koito" /\ req.page > 1 => Many(r.from, r.to)
  /\ req.whole => \A l \in Within(r.from, r.to) \cap req.knew :
                    l \in req.listens \/ Misses(r.from, r.to, l) \/ Ahead(r, req, l)

(* and compares with them.                                                  *)
Compares(r, req, old) ==
  /\ Skips(req.whole, r.from, r.to)
  /\ req.whole => \A l \in Within(r.from, r.to) \cap (old \ req.late) :
                    l \in req.listens \/ Misses(r.from, r.to, l)

Sound(a) ==
  /\ task[a] \in {"looks", "asks", "compares"} => Looks(a)
  /\ task[a] = "asks" => Asks(hold[a], answer[a])
  /\ task[a] = "compares" => Compares(hold[a], answer[a], due[a])

Ages == \A l \in Scrobble :
  /\ heard[l] = Never => age[l] = 0
  /\ heard[l] # Never => heard[l] + age[l] <= now

AllPaged ==
  (\A i \in DOMAIN ranges : Paged(ranges[i])) /\ (\A a \in Activity : Paged(hold[a]))

HistoryInv ==
  /\ RangesTyped /\ Ages /\ AllPaged
  /\ \A c \in cache : Remembers(c)
  /\ \A a \in Activity : Sound(a)

-----------------------------------------------------------------------------
(* The steps that neither let time pass nor let a service know of a listen. *)

Quiet == UNCHANGED <<kind, heard, age, now>>

LEMMA HeardKeeps ==
  ASSUME UNCHANGED <<kind, heard>>
  PROVE  /\ Recorded' = Recorded
         /\ \A from, to : Within(from, to)' = Within(from, to)
         /\ \A from, to, l : Misses(from, to, l)' <=> Misses(from, to, l)
         /\ \A whole, from, to : Skips(whole, from, to)' <=> Skips(whole, from, to)
         /\ \A r : Paged(r)' <=> Paged(r)
         /\ \A r, req : Asks(r, req)' <=> Asks(r, req)
         /\ \A r, req, old : Compares(r, req, old)' <=> Compares(r, req, old)
<1>1. kind' = kind /\ heard' = heard
  OBVIOUS
<1>2. Recorded' = Recorded
  BY <1>1 DEF Recorded
<1>3. \A from, to : Within(from, to)' = Within(from, to)
  BY <1>1, <1>2 DEF Within
<1>4. \A from, to : Many(from, to)' <=> Many(from, to)
  BY <1>3 DEF Many
<1>5. \A from, to, l : Misses(from, to, l)' <=> Misses(from, to, l)
  BY <1>1, <1>2, <1>3 DEF Misses, LostToPages
<1>6. \A from, to, l : Newer(Within(from, to), l)' = Newer(Within(from, to), l)
  BY <1>1, <1>3 DEF Newer, Older
<1>7. \A r, req, l : Ahead(r, req, l)' <=> Ahead(r, req, l)
  BY <1>1, <1>6 DEF Ahead
<1>8. \A whole, from, to : Skips(whole, from, to)' <=> Skips(whole, from, to)
  BY <1>1, <1>4 DEF Skips
<1>9. \A r : Paged(r)' <=> Paged(r)
  BY <1>1, <1>4 DEF Paged
<1>10. \A r, req : Asks(r, req)' <=> Asks(r, req)
  BY <1>1, <1>2, <1>3, <1>4, <1>5, <1>7, <1>8 DEF Asks
<1>11. \A r, req, old : Compares(r, req, old)' <=> Compares(r, req, old)
  BY <1>3, <1>5, <1>8 DEF Compares
<1> QED BY <1>2, <1>3, <1>5, <1>8, <1>9, <1>10, <1>11

LEMMA QuietKeeps ==
  ASSUME Quiet
  PROVE  /\ Recorded' = Recorded
         /\ \A r : Paged(r)' <=> Paged(r)
         /\ \A c : Remembers(c)' <=> Remembers(c)
         /\ \A r, req : Asks(r, req)' <=> Asks(r, req)
         /\ \A r, req, old : Compares(r, req, old)' <=> Compares(r, req, old)
<1>1. UNCHANGED <<kind, heard>> /\ age' = age
  BY DEF Quiet
<1>2. \A c : Remembers(c)' <=> Remembers(c)
  BY <1>1, HeardKeeps DEF Remembers
<1> QED BY <1>1, <1>2, HeardKeeps

(* What is said of a range is said of its times.                            *)
LEMMA TimesMatter ==
  ASSUME NEW r, NEW s, r.from = s.from, r.to = s.to
  PROVE  /\ \A req : Asks(r, req) <=> Asks(s, req)
         /\ \A req, old : Compares(r, req, old) <=> Compares(s, req, old)
<1>1. \A req, l : Ahead(r, req, l) <=> Ahead(s, req, l)
  BY DEF Ahead
<1>2. \A req : Asks(r, req) <=> Asks(s, req)
  BY <1>1 DEF Asks
<1>3. \A req, old : Compares(r, req, old) <=> Compares(s, req, old)
  BY DEF Compares
<1> QED BY <1>2, <1>3

(* An activity is none the worse for such a step of another.                *)
SameActivity(b) ==
  /\ task'[b] = task[b]
  /\ task[b] \in {"looks", "asks", "compares"} =>
       /\ answer'[b] = answer[b] /\ due'[b] = due[b]
       /\ hold'[b].from = hold[b].from /\ hold'[b].to = hold[b].to
       /\ current'[b] = current[b] /\ date'[current[b]] = date[current[b]]

LEMMA LooksStays ==
  ASSUME Quiet, NEW b \in Activity, Looks(b), due'[b] = due[b],
         hold'[b].from = hold[b].from, hold'[b].to = hold[b].to,
         date'[current'[b]] = date[current[b]]
  PROVE  Looks(b)'
<1>1. kind' = kind /\ heard' = heard /\ age' = age /\ Recorded' = Recorded
  BY QuietKeeps DEF Quiet
<1>2. Within(hold[b].from, hold[b].to)' = Within(hold[b].from, hold[b].to)
  BY <1>1 DEF Within
<1> QED BY <1>1, <1>2 DEF Looks

LEMMA SoundStays ==
  ASSUME Quiet, NEW b \in Activity, Sound(b), SameActivity(b)
  PROVE  Sound(b)'
<1>1. task'[b] = task[b]
  BY DEF SameActivity
<1>2. ASSUME task[b] \in {"looks", "asks", "compares"}
      PROVE  /\ answer'[b] = answer[b] /\ due'[b] = due[b] /\ Looks(b)'
             /\ hold'[b].from = hold[b].from /\ hold'[b].to = hold[b].to
  BY <1>2, LooksStays DEF SameActivity, Sound
<1>3. ASSUME task[b] = "asks" PROVE Asks(hold[b], answer[b])'
  <2>1. PICK r, s, req : r = hold[b] /\ s = hold'[b] /\ req = answer[b]
    OBVIOUS
  <2>2. Asks(r, req)
    BY <1>3, <2>1 DEF Sound
  <2>3. Asks(s, req)
    BY <1>2, <1>3, <2>1, <2>2, TimesMatter
  <2>4. Asks(s, req)'
    BY <2>3, QuietKeeps
  <2> QED BY <1>2, <1>3, <2>1, <2>4
<1>4. ASSUME task[b] = "compares" PROVE Compares(hold[b], answer[b], due[b])'
  <2>1. PICK r, s, req, old : r = hold[b] /\ s = hold'[b] /\ req = answer[b] /\ old = due[b]
    OBVIOUS
  <2>2. Compares(r, req, old)
    BY <1>4, <2>1 DEF Sound
  <2>3. Compares(s, req, old)
    BY <1>2, <1>4, <2>1, <2>2, TimesMatter
  <2>4. Compares(s, req, old)'
    BY <2>3, QuietKeeps
  <2> QED BY <1>2, <1>4, <2>1, <2>4
<1> QED BY <1>1, <1>2, <1>3, <1>4 DEF Sound

(* A step that is quiet, and leaves the ranges paged, keeps the rest too.   *)
LEMMA QuietInv ==
  ASSUME HistoryInv, RangesTyped', Quiet,
         \A c \in cache' \ cache : Remembers(c)',
         \A i \in DOMAIN ranges' : Paged(ranges'[i]),
         \A b \in Activity : Paged(hold'[b]),
         \A b \in Activity : SameActivity(b) \/ Sound(b)'
  PROVE  HistoryInv'
<1>1. Ages'
  BY DEF HistoryInv, Ages, Quiet
<1>2. AllPaged'
  <2>1. ASSUME NEW i \in DOMAIN ranges' PROVE Paged(ranges[i])'
    <3>1. PICK r : r = ranges'[i]
      OBVIOUS
    <3> QED BY <3>1, QuietKeeps
  <2>2. ASSUME NEW b \in Activity PROVE Paged(hold[b])'
    <3>1. PICK r : r = hold'[b]
      OBVIOUS
    <3> QED BY <3>1, QuietKeeps
  <2> QED BY <2>1, <2>2 DEF AllPaged
<1>3. \A c \in cache' : Remembers(c)'
  BY QuietKeeps DEF HistoryInv
<1>4. \A b \in Activity : Sound(b)'
  BY SoundStays DEF HistoryInv
<1> QED BY <1>1, <1>2, <1>3, <1>4 DEF HistoryInv

LEMMA NewIsPaged ==
  ASSUME RangesTyped, NEW from \in Int, NEW to \in Int
  PROVE  Paged(NewRange(from, to))
<1>1. NewRange(from, to).cursor = 1 /\ 1 >= 1 /\ ~(1 > 1)
  BY NewRangeIs
<1> QED BY <1>1 DEF Paged

LEMMA EnqueueKeeps ==
  ASSUME HistoryInv, RangesTyped', NEW p \in Play, Enqueue(p)
  PROVE  HistoryInv'
<1>1. /\ Quiet /\ queue[p] = "new" /\ \E d \in Dates : date' = [date EXCEPT ![p] = d]
      /\ UNCHANGED <<ranges, cache, task, current, hold, due, answer>>
  BY DEF Enqueue, Quiet, upstream, activities, held
<1>2. \A b \in Activity : SameActivity(b)
  <2>1. \A b \in Activity : task[b] # "idle" => current[b] \in Play /\ current[b] # p
    BY <1>1 DEF HistoryInv, RangesTyped, Activity
  <2>2. \A o \in Play : o # p => date'[o] = date[o]
    BY <1>1 DEF HistoryInv, RangesTyped
  <2> QED BY <1>1, <2>1, <2>2 DEF SameActivity
<1> QED BY <1>1, <1>2, QuietInv DEF HistoryInv, AllPaged

LEMMA TakeKeeps ==
  ASSUME HistoryInv, RangesTyped', NEW a \in Activity, NEW p \in Play, Take(a, p)
  PROVE  HistoryInv'
<1>1. /\ Quiet /\ task[a] = "idle" /\ task' = [task EXCEPT ![a] = "reads"]
      /\ current' = [current EXCEPT ![a] = p]
      /\ UNCHANGED <<date, ranges, cache, hold, due, answer>>
  BY DEF Take, Quiet, upstream, queues
<1>2. task'[a] = "reads"
  BY <1>1 DEF HistoryInv, RangesTyped
<1>3. Sound(a)'
  BY <1>2 DEF Sound
<1>4. \A b \in Activity : b # a => SameActivity(b)
  BY <1>1 DEF HistoryInv, RangesTyped, SameActivity
<1> QED BY <1>1, <1>3, <1>4, QuietInv DEF HistoryInv, AllPaged

LEMMA RegroupKeeps ==
  ASSUME HistoryInv, RangesTyped', NEW a \in Activity, Regroup(a)
  PROVE  HistoryInv'
<1>1. /\ Quiet /\ task[a] = "reads" /\ task' = [task EXCEPT ![a] = "grouped"]
      /\ ranges' = GroupedRanges(read[a])
      /\ UNCHANGED <<date, cache, current, hold, due, answer>>
  BY DEF Regroup, Quiet, upstream, queues, held
<1>2. \A i \in DOMAIN ranges' : Paged(ranges'[i])
  <2>1. read[a] \in SUBSET Dates /\ RangesTyped
    BY DEF HistoryInv, RangesTyped
  <2>2. \A i \in DOMAIN ranges' : \/ ranges'[i].cursor = 1
                                  \/ \E j \in DOMAIN ranges : ranges'[i] = ranges[j]
    BY <1>1, <2>1, GroupedRangesAre
  <2>3. \A r : r.cursor = 1 => Paged(r)
    BY DEF Paged
  <2> QED BY <2>2, <2>3 DEF HistoryInv, AllPaged
<1>3. task'[a] = "grouped"
  BY <1>1 DEF HistoryInv, RangesTyped
<1>4. Sound(a)'
  BY <1>3 DEF Sound
<1>5. \A b \in Activity : b # a => SameActivity(b)
  BY <1>1 DEF HistoryInv, RangesTyped, SameActivity
<1> QED BY <1>1, <1>2, <1>4, <1>5, QuietInv DEF HistoryInv, AllPaged

(* The range of a Play has what was heard at its time and is known for long. *)
LEMMA FoundServes ==
  ASSUME HistoryInv, NEW p \in Play, NEW l \in Recorded, heard[l] = date[p], age[l] = Kept
  PROVE  /\ Widened(FoundRange(p)).from <= heard[l]
         /\ heard[l] <= Widened(FoundRange(p)).to
<1> DEFINE d == date[p]
           found == FoundRange(p)
           range == Widened(found)
<1> USE DEF HistoryInv
<1>1. d \in Int /\ now \in Int /\ d + StaleAfter <= now
  <2>1. d \in Int /\ now \in Int
    BY OwnRangeIs
  <2>2. d + Kept <= now
    <3>1. l \in Scrobble /\ heard[l] # Never
      BY DEF Recorded
    <3> QED BY <3>1 DEF Ages
  <2> QED BY <2>1, <2>2, NumbersAre
<1>2. found \in TimeRange /\ found.from <= d /\ d <= found.to
  <2>1. CASE Serving(p) # {}
    <3>1. found \in TimeRange /\ Serves(p, found)
      BY <2>1, ServingIs DEF FoundRange
    <3>2. found.from \in Int /\ found.to \in Int
      BY <3>1 DEF TimeRange
    <3> DEFINE t == found.to
    <3>3. found.from <= d /\ t > Least(now - StaleAfter, d)
      BY <3>1 DEF Serves
    <3>4. t \in Int
      BY <3>2
    <3> HIDE DEF t, d, found
    <3>5. d <= t
      BY <1>1, <3>3, <3>4, NumbersAre DEF Least
    <3> QED BY <3>1, <3>3, <3>5 DEF t
  <2>2. CASE Serving(p) = {}
    <3>1. found = OwnRange(p)
      BY <2>2 DEF FoundRange
    <3>2. found \in TimeRange /\ found.from = d - Padding /\ found.to = Least(d + Padding, now - StaleAfter)
      BY <3>1, OwnRangeIs
    <3> HIDE DEF found, d
    <3>3. d - Padding <= d /\ d <= Least(d + Padding, now - StaleAfter)
      BY <1>1, NumbersAre DEF Least
    <3> QED BY <3>2, <3>3
  <2> QED BY <2>1, <2>2
<1> HIDE DEF found
<1>3. found.from \in Int /\ found.to \in Int
  BY <1>2 DEF TimeRange
<1>4. range = found \/ (range.from = found.from - Padding /\ range.to = Least(now, found.to + 1))
  BY <1>2, WidenedIs
<1> HIDE DEF range
<1>5. range.from <= d /\ d <= range.to
  <2> DEFINE f == found.from
             t == found.to
  <2>1. f \in Int /\ t \in Int /\ f <= d /\ d <= t
    BY <1>2, <1>3
  <2>2. \/ range.from = f - Padding /\ range.to = Least(now, t + 1)
        \/ range.from = f /\ range.to = t
    BY <1>4
  <2> HIDE DEF f, t, d
  <2>3. f - Padding <= d /\ d <= Least(now, t + 1)
    BY <1>1, <2>1, NumbersAre DEF Least
  <2> QED BY <2>1, <2>2, <2>3
<1> QED BY <1>5 DEF range, found

LEMMA FoundIsPaged ==
  ASSUME HistoryInv, NEW p \in Play
  PROVE  Paged(Widened(FoundRange(p)))
<1> USE DEF HistoryInv
<1>1. FoundRange(p) \in TimeRange
  BY FoundRangeIs
<1>2. Paged(FoundRange(p))
  <2>1. CASE Serving(p) # {}
    BY <2>1, ServingIs DEF FoundRange, AllPaged
  <2>2. CASE Serving(p) = {}
    <3>1. FoundRange(p).cursor = 1 /\ 1 >= 1 /\ ~(1 > 1)
      BY <2>2, OwnRangeIs DEF FoundRange
    <3> QED BY <3>1 DEF Paged
  <2> QED BY <2>1, <2>2
<1>3. \A r : r.cursor = 1 => Paged(r)
  BY DEF Paged
<1> QED BY <1>1, <1>2, <1>3, WidenedIs

LEMMA FindKeeps ==
  ASSUME HistoryInv, RangesTyped', NEW a \in Activity, Find(a)
  PROVE  HistoryInv'
<1> DEFINE p == current[a]
           range == Widened(FoundRange(p))
           kept == [i \in DOMAIN ranges |-> IF Same(ranges[i], FoundRange(p)) THEN range ELSE ranges[i]]
<1>1. /\ Quiet /\ task[a] = "grouped" /\ task' = [task EXCEPT ![a] = "looks"]
      /\ hold' = [hold EXCEPT ![a] = range]
      /\ due' = [due EXCEPT ![a] = { l \in Scrobble : age[l] = Kept }]
      /\ ranges' = Append(ranges, range) \/ ranges' = kept
      /\ UNCHANGED <<date, cache, current, answer>>
  BY DEF Find, Quiet, upstream, queues
<1>2. p \in Play
  BY DEF HistoryInv, RangesTyped
<1>3. Paged(range) /\ range \in TimeRange
  BY <1>2, FoundIsPaged, FoundRangeIs DEF HistoryInv
<1>4. \A l \in Recorded : age[l] = Kept /\ heard[l] = date[p] => range.from <= heard[l] /\ heard[l] <= range.to
  BY <1>2, FoundServes
<1> HIDE DEF range
<1>5. \A i \in DOMAIN ranges' : Paged(ranges'[i])
  <2>1. \A i \in DOMAIN ranges : Paged(ranges[i])
    BY DEF HistoryInv, AllPaged
  <2>2. CASE ranges' = kept
    BY <1>3, <2>1, <2>2
  <2>3. CASE ranges' = Append(ranges, range)
    <3>1. ranges \in Seq(TimeRange)
      BY DEF HistoryInv, RangesTyped
    <3>2. /\ DOMAIN ranges' = 1..(Len(ranges) + 1) /\ ranges'[Len(ranges) + 1] = range
          /\ \A i \in 1..Len(ranges) : ranges'[i] = ranges[i]
          /\ Len(ranges) \in Nat /\ DOMAIN ranges = 1..Len(ranges)
      BY <1>3, <2>3, <3>1
    <3> QED BY <1>3, <2>1, <3>2
  <2> QED BY <1>1, <2>2, <2>3
<1>6. hold'[a] = range /\ task'[a] = "looks" /\ \A b \in Activity : b # a => hold'[b] = hold[b]
  BY <1>1 DEF HistoryInv, RangesTyped
<1>7. \A b \in Activity : Paged(hold'[b])
  BY <1>3, <1>6 DEF HistoryInv, AllPaged
<1>8. \A b \in Activity : b # a => SameActivity(b)
  BY <1>1 DEF HistoryInv, RangesTyped, SameActivity
<1>9. Sound(a)'
  <2>1. \A l \in due'[a] : l \in Scrobble /\ age[l] = Kept
    BY <1>1 DEF HistoryInv, RangesTyped
  <2>2. \A l \in due'[a] : l \in Recorded
    <3>1. \A l \in Scrobble : heard[l] = Never => age[l] = 0
      BY DEF HistoryInv, Ages
    <3> QED BY <2>1, <3>1, NumbersAre DEF Recorded
  <2>3. Recorded' = Recorded /\ heard' = heard /\ age' = age
    BY <1>1, QuietKeeps DEF Quiet
  <2>4. Looks(a)'
    BY <1>1, <1>4, <1>6, <2>1, <2>2, <2>3 DEF Looks, Within
  <2> QED BY <1>6, <2>4 DEF Sound
<1> QED BY <1>1, <1>5, <1>7, <1>8, <1>9, QuietInv

LEMMA SettlesKeeps ==
  ASSUME HistoryInv, RangesTyped', NEW a \in Activity, task[a] # "idle", Settles(a),
         \A c \in cache' \ cache : Remembers(c)'
  PROVE  HistoryInv'
<1> DEFINE p == current[a]
<1>1. /\ Quiet /\ task' = [task EXCEPT ![a] = "idle"] /\ current' = [current EXCEPT ![a] = 1]
      /\ due' = [due EXCEPT ![a] = {}] /\ answer' = [answer EXCEPT ![a] = NoAnswer]
      /\ hold' = [hold EXCEPT ![a] = NoRange]
      /\ date' = date \/ date' = [date EXCEPT ![p] = Never]
      /\ UNCHANGED ranges
  BY DEF Settles, Quiet, upstream
<1>2. /\ p \in Play
      /\ \A b \in Activity : b # a /\ task[b] # "idle" => current[b] # p /\ current[b] \in Play
  BY DEF HistoryInv, RangesTyped, Activity
<1>3. \A o \in Play : o # p => date'[o] = date[o]
  BY <1>1 DEF HistoryInv, RangesTyped
<1>4. \A b \in Activity : b # a => SameActivity(b)
  BY <1>1, <1>2, <1>3 DEF HistoryInv, RangesTyped, SameActivity
<1>5. task'[a] = "idle" /\ hold'[a] = NoRange /\ \A b \in Activity : b # a => hold'[b] = hold[b]
  BY <1>1 DEF HistoryInv, RangesTyped
<1>6. Sound(a)'
  BY <1>5 DEF Sound
<1>7. Paged(NoRange)
  BY DEF Paged, NoRange
<1>8. \A b \in Activity : Paged(hold'[b])
  BY <1>5, <1>7 DEF HistoryInv, AllPaged
<1> QED BY <1>1, <1>4, <1>6, <1>8, QuietInv DEF HistoryInv, AllPaged

LEMMA EndsKeep ==
  ASSUME HistoryInv, RangesTyped', NEW a \in Activity, LookUpFails(a) \/ AskFails(a) \/ Compare(a)
  PROVE  HistoryInv'
<1> DEFINE entry == [key |-> Key(hold[a]), listens |-> {}, error |-> TRUE,
                     left |-> ErrorFor, late |-> {}, whole |-> TRUE]
<1>1. task[a] # "idle" /\ Settles(a) /\ (UNCHANGED cache \/ Remembered(entry))
  BY DEF LookUpFails, AskFails, Compare
<1>2. PICK c : c = entry
  OBVIOUS
<1>3. c.error = TRUE /\ c.whole = TRUE
  BY <1>2
<1> HIDE DEF entry
<1>4. Remembers(c)'
  BY <1>3 DEF Remembers, Skips
<1>5. \A d \in cache' \ cache : d = c
  BY <1>1, <1>2 DEF Remembered
<1> QED BY <1>1, <1>4, <1>5, SettlesKeeps

LEMMA WithinAre ==
  ASSUME RangesTyped, NEW from, NEW to
  PROVE  /\ Within(from, to) \in SUBSET Recorded /\ IsFiniteSet(Within(from, to))
         /\ Cardinality(Within(from, to)) \in Nat
         /\ \A l \in Within(from, to) : l \in Recorded /\ from <= heard[l] /\ heard[l] <= to /\ heard[l] \in Int
<1>1. Within(from, to) \in SUBSET Recorded /\ \A l \in Within(from, to) : from <= heard[l] /\ heard[l] <= to
  BY DEF Within
<1>2. \A l \in Recorded : heard[l] \in Int
  BY RecordedIs, NumbersAre
<1> QED BY <1>1, <1>2, RecordedAre

LEMMA NewerIs ==
  ASSUME RangesTyped, NEW S \in SUBSET Recorded, NEW l \in S
  PROVE  Newer(S, l) \in Nat /\ Newer(S, l) < Cardinality(S)
<1> DEFINE newer == { m \in S : Older(l, m) }
<1>1. l \in Int /\ heard[l] \in Int
  BY RecordedIs, NumbersAre
<1>2. l \notin newer /\ newer \in SUBSET S
  BY <1>1 DEF Older
<1>3. Newer(S, l) = Cardinality(newer)
  BY DEF Newer
<1> HIDE DEF newer
<1>4. /\ IsFiniteSet(S) /\ Cardinality(S) \in Nat /\ Cardinality(newer) \in Nat
      /\ Cardinality(newer) <= Cardinality(S) /\ Cardinality(newer) # Cardinality(S)
  BY <1>2, RecordedAre, FS_Subset
<1> QED BY <1>3, <1>4

(* The listens that are preloaded are all from the time of the oldest of     *)
(* them, but for others of that second.                                      *)
LEMMA PreloadIsWhole ==
  ASSUME RangesTyped, NEW to, \A l \in Recorded : heard[l] <= to, NEW l \in Recorded,
         NEW m \in NewestPage(Recorded), \A k \in NewestPage(Recorded) : heard[m] <= heard[k],
         heard[m] <= heard[l], l \notin NewestPage(Recorded)
  PROVE  Misses(heard[m], to, l)
<1> DEFINE newer == { k \in Recorded : Older(l, k) }
           all == Within(heard[m], to)
<1>1. \A k \in Recorded : heard[k] \in Int /\ k \in Int
  BY RecordedIs, NumbersAre
<1>2. /\ m \in Recorded /\ Cardinality(newer) >= PageSize
      /\ heard[l] <= heard[m] /\ m # l
  BY NewestPageIs
<1>3. heard[m] = heard[l]
  BY <1>1, <1>2
<1>4. IsFiniteSet(all) /\ IsFiniteSet(newer) /\ Cardinality(all) \in Nat /\ Cardinality(newer) \in Nat
  BY RecordedIs, FS_Subset, FS_CardinalityType DEF Within
<1>5. newer \subseteq all /\ l \in all /\ l \notin newer
  <2>1. \A k \in newer : k \in Recorded /\ heard[l] <= heard[k] /\ k # l
    BY <1>1 DEF Older
  <2>2. \A k \in newer : heard[m] <= heard[k]
    BY <1>3, <2>1
  <2>3. \A k \in newer : k \in all
    BY <2>1, <2>2 DEF Within
  <2>4. l \in all
    BY <1>3 DEF Within
  <2> QED BY <2>1, <2>3, <2>4
<1> HIDE DEF newer, all
<1>6. Cardinality(newer) <= Cardinality(all) /\ Cardinality(newer) # Cardinality(all)
  BY <1>4, <1>5, FS_Subset
<1>7. Cardinality(all) > PageSize
  BY <1>2, <1>4, <1>6, NumbersAre
<1> QED BY <1>2, <1>3, <1>7 DEF Misses, LostToPages, all

LEMMA PreloadKeeps ==
  ASSUME HistoryInv, RangesTyped', PreloadAsks \/ PreloadAnswered \/ PreloadFails \/ PreloadPushes
  PROVE  HistoryInv'
<1>1. Quiet /\ UNCHANGED <<date, task, current, hold, due, answer>>
  BY DEF PreloadAsks, PreloadAnswered, PreloadFails, PreloadPushes, Quiet, upstream, queues, activities, held
<1>2. \A b \in Activity : SameActivity(b)
  BY <1>1 DEF SameActivity
<1>3. \A b \in Activity : Paged(hold'[b])
  BY <1>1 DEF HistoryInv, AllPaged
<1>4. CASE PreloadAsks \/ PreloadFails
  <2>1. UNCHANGED <<ranges, cache>>
    BY <1>4 DEF PreloadAsks, PreloadFails
  <2> QED BY <1>1, <1>2, <1>3, <2>1, QuietInv DEF HistoryInv, AllPaged
<1>5. CASE PreloadPushes
  <2> DEFINE range == NewRange(preload.from, preload.to)
  <2>1. UNCHANGED cache /\ ranges' = Append(ranges, range)
    BY <1>5 DEF PreloadPushes
  <2>2. range \in TimeRange /\ Paged(range)
    BY NewRangeIs, NewIsPaged DEF HistoryInv, RangesTyped
  <2> HIDE DEF range
  <2>3. /\ DOMAIN ranges' = 1..(Len(ranges) + 1) /\ ranges'[Len(ranges) + 1] = range
        /\ \A i \in 1..Len(ranges) : ranges'[i] = ranges[i]
        /\ Len(ranges) \in Nat /\ DOMAIN ranges = 1..Len(ranges)
    <3>1. ranges \in Seq(TimeRange)
      BY DEF HistoryInv, RangesTyped
    <3> QED BY <2>1, <2>2, <3>1
  <2>4. \A i \in DOMAIN ranges' : Paged(ranges'[i])
    BY <2>2, <2>3 DEF HistoryInv, AllPaged
  <2> QED BY <1>1, <1>2, <1>3, <2>1, <2>4, QuietInv
<1>6. CASE PreloadAnswered
  <2> DEFINE newest == NewestPage(Recorded)
             from == Min({ heard[l] : l \in newest })
             late == Recorded \ preload.knew
             entry == [key |-> <<from, now>>, listens |-> newest, error |-> FALSE,
                       left |-> PreloadFor, late |-> late, whole |-> TRUE]
  <2>1. Remembered(entry) /\ UNCHANGED ranges /\ Recorded # {}
    BY <1>6 DEF PreloadAnswered
  <2>2. RangesTyped /\ Ages
    BY DEF HistoryInv
  <2>3. \A l \in Recorded : heard[l] <= now
    <3> SUFFICES ASSUME NEW l \in Recorded PROVE heard[l] <= now
      OBVIOUS
    <3>1. l \in Scrobble /\ heard[l] # Never /\ heard[l] \in Int
      BY <2>2, RecordedIs, NumbersAre DEF Recorded
    <3>2. age[l] \in 0..Kept /\ now \in Int
      BY <2>2, <3>1, NumbersAre DEF RangesTyped
    <3>3. heard[l] + age[l] <= now
      BY <2>2, <3>1 DEF Ages
    <3> QED BY <3>1, <3>2, <3>3, NumbersAre
  <2>4. PICK m \in newest : from = heard[m] /\ \A k \in newest : from <= heard[k]
    BY <2>1, <2>2, PreloadRangeIs
  <2> HIDE DEF from
  <2>5. \A l \in Within(from, now) : l \in newest \/ Misses(from, now, l)
    <3> SUFFICES ASSUME NEW l \in Within(from, now), l \notin newest PROVE Misses(from, now, l)
      OBVIOUS
    <3>1. l \in Recorded /\ heard[m] <= heard[l]
      BY <2>4 DEF Within
    <3> QED BY <2>2, <2>3, <2>4, <3>1, PreloadIsWhole
  <2>6. PICK c : c = entry
    OBVIOUS
  <2>7. /\ c.key[1] = from /\ c.key[2] = now /\ c.listens = newest /\ c.left = PreloadFor
        /\ c.whole = TRUE /\ c.error = FALSE
    BY <2>6
  <2>8. \A d \in cache' \ cache : d = c
    BY <2>1, <2>6 DEF Remembered
  <2> HIDE DEF entry, newest, late
  <2>9. Remembers(c)
    BY <2>5, <2>7, NumbersAre DEF Remembers, Skips
  <2>10. Remembers(c)'
    BY <1>1, <2>9, QuietKeeps
  <2> QED BY <1>1, <1>2, <1>3, <2>1, <2>8, <2>10, QuietInv DEF HistoryInv, AllPaged
<1> QED BY <1>4, <1>5, <1>6

LEMMA LookUpKeeps ==
  ASSUME HistoryInv, RangesTyped', NEW a \in Activity, LookUp(a)
  PROVE  HistoryInv'
<1>1. /\ Quiet /\ task[a] = "looks" /\ task' = [task EXCEPT ![a] = "compares"]
      /\ UNCHANGED <<date, ranges, cache, current, hold, due>>
  BY DEF LookUp, Quiet, upstream, queues
<1>2. PICK c \in cache : /\ c.key = Key(hold[a]) /\ ~c.error
                         /\ answer' = [answer EXCEPT ![a] = Brought(c.listens, c.late, c.whole)]
  BY DEF LookUp, Cached, Brought
<1>3. /\ task'[a] = "compares" /\ answer'[a] = Brought(c.listens, c.late, c.whole)
      /\ \A b \in Activity : b # a => task'[b] = task[b] /\ answer'[b] = answer[b]
  BY <1>1, <1>2 DEF HistoryInv, RangesTyped
<1>4. /\ c.listens \in SUBSET Scrobble /\ c.late \in SUBSET Scrobble /\ c.whole \in BOOLEAN
      /\ c.left \in Nat \ {0}
  BY DEF HistoryInv, RangesTyped, Entry
<1>5. PICK r, req, old : r = hold[a] /\ req = answer'[a] /\ old = due[a]
  OBVIOUS
<1>6. req.listens = c.listens /\ req.late = c.late /\ req.whole = c.whole
  BY <1>3, <1>4, <1>5, BroughtIs
<1>7. c.key[1] = r.from /\ c.key[2] = r.to
  BY <1>2, <1>5 DEF Key
<1>8. Looks(a)
  BY <1>1 DEF HistoryInv, Sound
<1>9. Compares(r, req, old)
  <2>1. Remembers(c)
    BY DEF HistoryInv
  <2>2. Skips(req.whole, r.from, r.to)
    BY <1>6, <1>7, <2>1 DEF Remembers
  <2>3. ASSUME req.whole, NEW l \in Within(r.from, r.to) \cap (old \ req.late)
        PROVE  l \in req.listens \/ Misses(r.from, r.to, l)
    <3>1. \/ l \in c.listens \/ Misses(r.from, r.to, l)
          \/ age[l] + c.left <= Kept
      BY <1>2, <1>6, <1>7, <2>1, <2>3 DEF Remembers
    <3>2. age[l] = Kept
      BY <1>5, <1>8, <2>3 DEF Looks
    <3>3. ~(age[l] + c.left <= Kept)
      BY <1>4, <3>2, NumbersAre
    <3> QED BY <1>6, <3>1, <3>3
  <2> QED BY <2>2, <2>3 DEF Compares
<1>10. Sound(a)'
  <2>1. Compares(r, req, old)'
    BY <1>1, <1>9, QuietKeeps
  <2>2. Looks(a)'
    BY <1>1, <1>8, LooksStays
  <2>3. r = hold'[a] /\ req = answer'[a] /\ old = due'[a]
    BY <1>1, <1>5
  <2> QED BY <1>3, <2>1, <2>2, <2>3 DEF Sound
<1>11. \A b \in Activity : b # a => SameActivity(b)
  BY <1>1, <1>3 DEF SameActivity
<1> QED BY <1>1, <1>10, <1>11, QuietInv DEF HistoryInv, AllPaged

(* What a request starts with.                                              *)
Asked(r) ==
  [NoAnswer EXCEPT !.knew = Recorded, !.start = r.from, !.page = r.cursor, !.whole = r.cursor = 1]

LEMMA AskedIs ==
  ASSUME RangesTyped, NEW r \in TimeRange
  PROVE  /\ Asked(r).knew = Recorded /\ Asked(r).start = r.from /\ Asked(r).page = r.cursor
         /\ Asked(r).whole <=> r.cursor = 1
<1> DEFINE old == NoAnswer
           whole == r.cursor = 1
<1>1. old \in Request /\ whole \in BOOLEAN /\ Recorded \in SUBSET Scrobble
  BY RecordedIs DEF NoAnswer, Request
<1>2. Asked(r) = [old EXCEPT !.knew = Recorded, !.start = r.from, !.page = r.cursor, !.whole = whole]
  BY DEF Asked
<1> HIDE DEF old, whole
<1>3. /\ Asked(r).knew = Recorded /\ Asked(r).start = r.from /\ Asked(r).page = r.cursor
      /\ Asked(r).whole = whole
  BY <1>1, <1>2 DEF Request
<1> QED BY <1>3 DEF whole

LEMMA AskKeeps ==
  ASSUME HistoryInv, RangesTyped', NEW a \in Activity, AskForPage(a)
  PROVE  HistoryInv'
<1>1. /\ Quiet /\ task[a] = "looks" /\ task' = [task EXCEPT ![a] = "asks"]
      /\ answer' = [answer EXCEPT ![a] = Asked(hold[a])]
      /\ UNCHANGED <<date, ranges, cache, current, hold, due>>
  BY DEF AskForPage, Asked, Quiet, upstream, queues
<1>2. /\ task'[a] = "asks" /\ answer'[a] = Asked(hold[a])
      /\ \A b \in Activity : b # a => task'[b] = task[b] /\ answer'[b] = answer[b]
  BY <1>1 DEF HistoryInv, RangesTyped
<1>3. PICK r, req : r = hold[a] /\ req = answer'[a]
  OBVIOUS
<1>4. RangesTyped /\ Paged(r) /\ r \in TimeRange /\ r.from \in Int /\ r.cursor \in Nat
  BY <1>3 DEF HistoryInv, AllPaged, RangesTyped, TimeRange
<1>5. req.knew = Recorded /\ req.start = r.from /\ req.page = r.cursor /\ (req.whole <=> r.cursor = 1)
  BY <1>2, <1>3, <1>4, AskedIs
<1>6. Asks(r, req)
  <2>1. r.cursor >= 1 /\ (r.cursor # 1 => kind = "koito" /\ Many(r.from, r.to))
    BY <1>4 DEF Paged
  <2>2. Skips(req.whole, r.from, r.to)
    BY <1>5, <2>1 DEF Skips
  <2>3. ASSUME req.whole, NEW l \in Within(r.from, r.to) PROVE Ahead(r, req, l)
    <3>1. req.start <= heard[l]
      BY <1>5 DEF Within
    <3>2. (req.page - 1) * PageSize = 0
      BY <1>5, <2>3, NumbersAre
    <3>3. Newer(Within(r.from, r.to), l) \in Nat
      BY <1>4, WithinAre, NewerIs
    <3> QED BY <3>1, <3>2, <3>3 DEF Ahead
  <2>4. r.from <= req.start
    BY <1>4, <1>5
  <2> QED BY <1>5, <2>1, <2>2, <2>3, <2>4 DEF Asks
<1>7. Sound(a)'
  <2>1. Asks(r, req)'
    BY <1>1, <1>6, QuietKeeps
  <2>2. Looks(a)
    BY <1>1 DEF HistoryInv, Sound
  <2>3. Looks(a)'
    BY <1>1, <2>2, LooksStays
  <2>4. r = hold'[a] /\ req = answer'[a]
    BY <1>1, <1>3
  <2> QED BY <1>2, <2>1, <2>3, <2>4 DEF Sound
<1>8. \A b \in Activity : b # a => SameActivity(b)
  BY <1>1, <1>2 DEF SameActivity
<1> QED BY <1>1, <1>7, <1>8, QuietInv DEF HistoryInv, AllPaged

-----------------------------------------------------------------------------
(* A page is answered. *)

LEMMA KoitoHasMany ==
  ASSUME RangesTyped, NEW a \in Activity, kind = "koito", HasMore(a), answer[a].page >= 1
  PROVE  Many(hold[a].from, hold[a].to)
<1> DEFINE n == Cardinality(Within(hold[a].from, hold[a].to))
           page == answer[a].page
<1>1. n \in Nat /\ page \in Nat /\ page >= 1
  BY WithinAre, CursorAfterIs
<1>2. n > page * PageSize
  BY DEF HasMore
<1> HIDE DEF n, page
<1>3. page * PageSize >= PageSize
  BY <1>1, NumbersAre
<1>4. page * PageSize \in Int
  BY <1>1, NumbersAre
<1>5. n > PageSize
  BY <1>1, <1>2, <1>3, <1>4, NumbersAre
<1> QED BY <1>5 DEF Many, n

(* The page that Koito goes on with.                                        *)
LEMMA CursorIsPaged ==
  ASSUME HistoryInv, NEW a \in Activity, kind = "koito", task[a] = "asks"
  PROVE  CursorAfter(a) >= 1 /\ (CursorAfter(a) > 1 => Many(hold[a].from, hold[a].to))
<1>1. /\ CursorAfter(a) \in Nat /\ answer[a].page \in Nat /\ hold[a].cursor \in Nat
      /\ \/ CursorAfter(a) = answer[a].page \/ CursorAfter(a) = hold[a].cursor
         \/ HasMore(a) /\ CursorAfter(a) = answer[a].page + 1
         \/ HasMore(a) /\ CursorAfter(a) = hold[a].cursor + 1
  BY CursorAfterIs DEF HistoryInv
<1>2. /\ answer[a].page >= 1
      /\ answer[a].page > 1 => Many(hold[a].from, hold[a].to)
  BY DEF HistoryInv, Sound, Asks
<1>3. /\ hold[a].cursor >= 1
      /\ hold[a].cursor > 1 => Many(hold[a].from, hold[a].to)
  BY DEF HistoryInv, AllPaged, Paged
<1>4. HasMore(a) => Many(hold[a].from, hold[a].to)
  BY <1>2, KoitoHasMany DEF HistoryInv
<1> DEFINE c == CursorAfter(a)
           p == answer[a].page
           h == hold[a].cursor
<1> HIDE DEF c, p, h
<1>5. /\ c \in Nat /\ p \in Nat /\ h \in Nat /\ p >= 1 /\ h >= 1
      /\ \/ c = p \/ c = h
         \/ HasMore(a) /\ c = p + 1
         \/ HasMore(a) /\ c = h + 1
  BY <1>1, <1>2, <1>3 DEF c, p, h
<1>6. c >= 1 /\ (HasMore(a) \/ c = p \/ c = h)
  BY <1>5
<1> QED BY <1>2, <1>3, <1>4, <1>6 DEF c, p, h

LEMMA WritesKeep ==
  ASSUME HistoryInv, NEW a \in Activity, task[a] = "asks", WritesCursor(a)
  PROVE  /\ \A i \in DOMAIN ranges' : Paged(ranges'[i])
         /\ \A b \in Activity : /\ Paged(hold'[b])
                                /\ hold'[b].from = hold[b].from /\ hold'[b].to = hold[b].to
<1> DEFINE written(r) == IF kind = "koito" /\ Same(r, hold[a])
                         THEN [r EXCEPT !.cursor = CursorAfter(a)] ELSE r
<1>1. ASSUME NEW r \in TimeRange, Paged(r)
      PROVE  Paged(written(r)) /\ written(r).from = r.from /\ written(r).to = r.to
  <2>1. CASE kind = "koito" /\ Same(r, hold[a])
    <3> DEFINE s == [r EXCEPT !.cursor = CursorAfter(a)]
    <3>1. s.from = r.from /\ s.to = r.to /\ s.cursor = CursorAfter(a)
      BY DEF TimeRange
    <3>2. written(r) = s
      BY <2>1
    <3>3. r.from = hold[a].from /\ r.to = hold[a].to
      BY <2>1 DEF Same
    <3> HIDE DEF s, written
    <3>4. Paged(s)
      BY <2>1, <3>1, <3>3, CursorIsPaged DEF Paged
    <3> QED BY <3>1, <3>2, <3>4
  <2>2. CASE ~(kind = "koito" /\ Same(r, hold[a]))
    BY <1>1, <2>2
  <2> QED BY <2>1, <2>2
<1>2. /\ ranges' = [i \in DOMAIN ranges |-> written(ranges[i])]
      /\ hold' = [b \in Activity |-> written(hold[b])]
  BY DEF WritesCursor
<1>3. /\ \A i \in DOMAIN ranges : ranges[i] \in TimeRange /\ Paged(ranges[i])
      /\ \A b \in Activity : hold[b] \in TimeRange /\ Paged(hold[b])
  <2>1. \A i \in DOMAIN ranges : ranges[i] \in TimeRange
    BY RangesAre DEF HistoryInv
  <2> QED BY <2>1 DEF HistoryInv, AllPaged, RangesTyped
<1> HIDE DEF written
<1> QED BY <1>1, <1>2, <1>3

(* What an answer leaves to the pages after it, or loses: for ListenBrainz, *)
LEMMA OldestLeaves ==
  ASSUME RangesTyped, NEW a \in Activity, kind = "listenbrainz", Asks(hold[a], answer[a]),
         NEW l \in Within(hold[a].from, hold[a].to), answer[a].start <= heard[l]
  PROVE  \/ l \in Page(a)
         \/ Misses(hold[a].from, hold[a].to, l)
         \/ HasMore(a) /\ After(answer[a].start, hold[a].to) <= heard[l]
<1> DEFINE from == hold[a].from
           to == hold[a].to
           start == answer[a].start
           S == Within(start, to)
<1>1. from \in Int /\ to \in Int /\ start \in Int /\ from <= start
  BY DEF RangesTyped, Request, TimeRange, Asks
<1>2. l \in Recorded /\ heard[l] \in Int /\ heard[l] <= to
  BY WithinAre
<1>3. /\ S \in SUBSET Recorded /\ Cardinality(S) \in Nat /\ IsFiniteSet(S) /\ l \in S
  BY <1>2, WithinAre DEF Within
<1>4. Page(a) = OldestPage(S)
  BY DEF Page
<1>5. HasMore(a) <=> Cardinality(S) >= PageSize
  BY DEF HasMore
<1> HIDE DEF from, to, start
<1>6. CASE l \notin OldestPage(S)
  <2>1. /\ Cardinality(S) > PageSize
        /\ \A m \in OldestPage(S) : heard[m] <= heard[l] /\ m # l /\ m \in S
    <3> HIDE DEF S
    <3> QED BY <1>3, <1>6, OldestPageIs
  <2>2. Cardinality(S) >= PageSize
    BY <1>3, <2>1, NumbersAre
  <2>3. PICK m \in OldestPage(S) : After(start, to) = heard[m] + 1
    BY <1>1, <2>2, AfterIs
  <2>4. m \in Recorded /\ heard[m] \in Int /\ heard[m] <= heard[l] /\ m # l
    BY <2>1, WithinAre
  <2>5. CASE heard[m] = heard[l]
    <3>1. S \subseteq Within(from, to)
      <4> SUFFICES ASSUME NEW k \in S PROVE k \in Within(from, to)
        OBVIOUS
      <4>1. k \in Recorded /\ heard[k] \in Int /\ start <= heard[k] /\ heard[k] <= to
        BY WithinAre
      <4> HIDE DEF S
      <4>2. from <= heard[k]
        <5> DEFINE h == heard[k]
        <5>1. h \in Int /\ start <= h
          BY <4>1
        <5> HIDE DEF h
        <5>2. from <= h
          BY <1>1, <5>1
        <5> QED BY <5>2 DEF h
      <4> QED BY <4>1, <4>2 DEF Within
    <3>2. Cardinality(S) <= Cardinality(Within(from, to)) /\ Cardinality(Within(from, to)) \in Nat
      <4>1. IsFiniteSet(Within(from, to)) /\ Cardinality(Within(from, to)) \in Nat
        BY WithinAre
      <4> QED BY <3>1, <4>1, FS_Subset
    <3> DEFINE n == Cardinality(S)
               k == Cardinality(Within(from, to))
    <3>3. n \in Nat /\ k \in Nat /\ n <= k /\ n > PageSize
      BY <1>3, <2>1, <3>2
    <3> HIDE DEF n, k, S
    <3>4. k > PageSize
      BY <3>3, NumbersAre
    <3>5. Misses(from, to, l)
      BY <2>4, <2>5, <3>4 DEF k, Misses, LostToPages
    <3> QED BY <3>5 DEF from, to
  <2>6. CASE heard[m] # heard[l]
    <3> DEFINE x == heard[m]
               y == heard[l]
    <3>1. x \in Int /\ y \in Int /\ x <= y /\ x # y
      BY <1>2, <2>4, <2>6
    <3> HIDE DEF x, y
    <3>2. x + 1 <= y
      BY <3>1
    <3>3. After(start, to) <= heard[l]
      BY <2>3, <3>2 DEF x, y
    <3> QED BY <1>5, <2>2, <3>3 DEF start, to
  <2> QED BY <2>5, <2>6
<1> QED BY <1>4, <1>6

(* and for Koito.                                                           *)
LEMMA NthLeaves ==
  ASSUME RangesTyped, NEW a \in Activity, kind = "koito", answer[a].page >= 1,
         NEW l \in Within(hold[a].from, hold[a].to),
         Newer(Within(hold[a].from, hold[a].to), l) >= (answer[a].page - 1) * PageSize
  PROVE  \/ l \in Page(a)
         \/ /\ HasMore(a)
            /\ Newer(Within(hold[a].from, hold[a].to), l) >= answer[a].page * PageSize
<1> DEFINE S == Within(hold[a].from, hold[a].to)
           n == Newer(S, l)
           c == Cardinality(S)
           page == answer[a].page
           x == page * PageSize
<1>1. S \in SUBSET Recorded /\ c \in Nat /\ l \in S
  BY WithinAre
<1>2. n \in Nat /\ n < c
  <2> HIDE DEF S
  <2> QED BY <1>1, NewerIs
<1>3. page \in Nat /\ x \in Int
  BY CursorAfterIs, NumbersAre
<1>4. HasMore(a) <=> c > x
  BY DEF HasMore
<1>5. l \in Page(a) <=> (page - 1) * PageSize <= n /\ n < x
  BY DEF Page, NthPage
<1>6. (page - 1) * PageSize <= n
  <2> DEFINE y == (page - 1) * PageSize
  <2>1. y \in Int /\ n >= y
    BY <1>3, NumbersAre
  <2> HIDE DEF y, n
  <2>2. y <= n
    BY <1>2, <2>1
  <2> QED BY <2>2 DEF y
<1> HIDE DEF n, c, x, page
<1>7. n < x \/ (c > x /\ n >= x)
  BY <1>1, <1>2, <1>3
<1> QED BY <1>4, <1>5, <1>6, <1>7 DEF n, x, page, S

(* All that was known when the first page was asked for is in what has been *)
(* brought so far, is missed, or is still to come.                          *)
LEMMA PageLeaves ==
  ASSUME RangesTyped, NEW a \in Activity, Asks(hold[a], answer[a]), answer[a].whole,
         NEW l \in Within(hold[a].from, hold[a].to) \cap answer[a].knew
  PROVE  \/ l \in answer[a].listens \cup Page(a) \/ Misses(hold[a].from, hold[a].to, l)
         \/ HasMore(a) /\ kind = "maloja"
         \/ HasMore(a) /\ kind = "listenbrainz" /\ After(answer[a].start, hold[a].to) <= heard[l]
         \/ /\ HasMore(a) /\ kind = "koito"
            /\ Newer(Within(hold[a].from, hold[a].to), l) >= answer[a].page * PageSize
<1>1. l \in answer[a].listens \/ Misses(hold[a].from, hold[a].to, l) \/ Ahead(hold[a], answer[a], l)
  BY DEF Asks
<1>2. kind \in {"listenbrainz", "lastfm", "koito", "maloja"}
  BY NumbersAre DEF RangesTyped
<1>3. CASE Ahead(hold[a], answer[a], l) /\ kind = "listenbrainz"
  BY <1>3, OldestLeaves DEF Ahead
<1>4. CASE Ahead(hold[a], answer[a], l) /\ kind = "koito"
  <2>1. answer[a].page >= 1
    BY DEF Asks
  <2> QED BY <1>4, <2>1, NthLeaves DEF Ahead
<1>5. CASE kind = "lastfm"
  <2> DEFINE S == Within(hold[a].from, hold[a].to)
  <2>1. Page(a) = NewestPage(S) /\ S \in SUBSET Recorded /\ l \in S
    BY <1>5, WithinAre DEF Page
  <2>2. l \in NewestPage(S) \/ Cardinality(S) > PageSize
    <3> HIDE DEF S
    <3> QED BY <2>1, NewestPageIs
  <2> QED BY <1>5, <2>1, <2>2 DEF Misses, LostToPages
<1>6. CASE kind = "maloja"
  <2>1. Page(a) = MalojaDay(hold[a]) /\ l \in Recorded
    BY <1>6, WithinAre DEF Page
  <2> QED BY <1>6, <2>1 DEF MalojaDay, Misses
<1> QED BY <1>1, <1>2, <1>3, <1>4, <1>5, <1>6

LEMMA AnsweredKeeps ==
  ASSUME HistoryInv, RangesTyped', NEW a \in Activity, Answered(a)
  PROVE  HistoryInv'
<1>1. /\ Quiet /\ task[a] = "asks" /\ HasMore(a) /\ kind # "maloja" /\ WritesCursor(a)
      /\ answer' = [answer EXCEPT ![a] = NextRequest(a)]
      /\ UNCHANGED <<date, cache, task, current, due>>
  BY DEF Answered, NextRequest, Quiet, upstream, queues
<1>2. RangesTyped
  BY DEF HistoryInv
<1>3. answer'[a] = NextRequest(a) /\ \A b \in Activity : b # a => answer'[b] = answer[b]
  BY <1>1, <1>2 DEF RangesTyped
<1>4. Asks(hold[a], answer[a]) /\ Looks(a)
  BY <1>1 DEF HistoryInv, Sound
<1>5. /\ \A i \in DOMAIN ranges' : Paged(ranges'[i])
      /\ \A b \in Activity : /\ Paged(hold'[b])
                             /\ hold'[b].from = hold[b].from /\ hold'[b].to = hold[b].to
  BY <1>1, WritesKeep
<1>6. PICK r, req, old : r = hold[a] /\ req = answer'[a] /\ old = answer[a]
  OBVIOUS
<1>7. /\ req.listens = old.listens \cup Page(a)
      /\ req.page = IF kind = "koito" THEN CursorAfter(a) ELSE old.page + 1
      /\ req.start = IF kind = "listenbrainz" THEN After(old.start, r.to) ELSE old.start
      /\ req.knew = old.knew /\ (req.whole <=> old.whole /\ req.page = old.page + 1)
  BY <1>1, <1>2, <1>3, <1>6, NextRequestIs
<1>8. old.page \in Nat /\ old.page >= 1 /\ old.start \in Int /\ r.from \in Int /\ r.to \in Int /\ r.from <= old.start
  BY <1>2, <1>4, <1>6 DEF RangesTyped, Request, TimeRange, Asks
<1>9. kind = "koito" => Many(r.from, r.to)
  BY <1>1, <1>2, <1>6, <1>8, KoitoHasMany
<1>10. Asks(r, req)
  <2>1. Skips(req.whole, r.from, r.to)
    BY <1>4, <1>6, <1>7, <1>9 DEF Skips, Asks
  <2>2. r.from <= req.start
    <3>1. CASE kind = "listenbrainz"
      <4>1. Cardinality(Within(old.start, r.to)) >= PageSize
        BY <1>1, <1>6, <3>1 DEF HasMore
      <4>2. After(old.start, r.to) \in Int /\ old.start < After(old.start, r.to)
        BY <1>2, <1>8, <4>1, AfterIs
      <4>3. req.start = After(old.start, r.to)
        BY <1>7, <3>1
      <4> DEFINE s == old.start
                 t == After(old.start, r.to)
                 f == r.from
      <4>4. s \in Int /\ t \in Int /\ f \in Int /\ s < t /\ f <= s
        BY <1>8, <4>2
      <4> HIDE DEF s, t, f
      <4>5. f <= t
        BY <4>4
      <4> QED BY <4>3, <4>5 DEF f, t
    <3> QED BY <1>7, <1>8, <3>1
  <2>3. req.page >= 1
    <3>1. CursorAfter(a) >= 1 \/ kind # "koito"
      BY <1>1, CursorIsPaged
    <3> QED BY <1>7, <1>8, <3>1
  <2>4. req.knew \subseteq Recorded
    BY <1>4, <1>6, <1>7 DEF Asks
  <2>5. ASSUME req.whole, NEW l \in Within(r.from, r.to) \cap req.knew
        PROVE  l \in req.listens \/ Misses(r.from, r.to, l) \/ Ahead(r, req, l)
    <3>1. old.whole /\ req.page = old.page + 1 /\ l \in old.knew
      BY <1>7, <2>5
    <3>2. \/ l \in req.listens \/ Misses(r.from, r.to, l)
          \/ kind = "listenbrainz" /\ After(old.start, r.to) <= heard[l]
          \/ kind = "koito" /\ Newer(Within(r.from, r.to), l) >= old.page * PageSize
      BY <1>1, <1>2, <1>4, <1>6, <1>7, <2>5, <3>1, PageLeaves
    <3>3. req.page - 1 = old.page
      BY <1>8, <3>1
    <3> QED BY <1>7, <3>2, <3>3 DEF Ahead
  <2> QED BY <1>9, <2>1, <2>2, <2>3, <2>4, <2>5 DEF Asks
<1>11. Sound(a)'
  <2>1. PICK s : s = hold'[a]
    OBVIOUS
  <2>2. s.from = r.from /\ s.to = r.to
    BY <1>5, <1>6, <2>1
  <2>3. Asks(s, req)
    BY <1>10, <2>2, TimesMatter
  <2>4. Asks(s, req)'
    BY <1>1, <2>3, QuietKeeps
  <2>5. Looks(a)'
    BY <1>1, <1>4, <1>5, LooksStays
  <2>6. task'[a] = "asks"
    BY <1>1
  <2> QED BY <1>6, <2>1, <2>4, <2>5, <2>6 DEF Sound
<1>12. \A b \in Activity : b # a => SameActivity(b)
  BY <1>1, <1>3, <1>5 DEF SameActivity
<1> QED BY <1>1, <1>5, <1>11, <1>12, QuietInv

LEMMA AnsweredLastKeeps ==
  ASSUME HistoryInv, RangesTyped', NEW a \in Activity, AnsweredLast(a)
  PROVE  HistoryInv'
<1>1. /\ Quiet /\ task[a] = "asks" /\ ~HasMore(a) /\ WritesCursor(a)
      /\ task' = [task EXCEPT ![a] = "compares"]
      /\ answer' = [answer EXCEPT ![a] = LastAnswer(a)] /\ Remembered(LastEntry(a))
      /\ UNCHANGED <<date, current, due>>
  BY DEF AnsweredLast, LastAnswer, LastEntry, Quiet, upstream, queues
<1>2. RangesTyped
  BY DEF HistoryInv
<1>3. /\ task'[a] = "compares" /\ answer'[a] = LastAnswer(a)
      /\ \A b \in Activity : b # a => task'[b] = task[b] /\ answer'[b] = answer[b]
  BY <1>1, <1>2 DEF RangesTyped
<1>4. Asks(hold[a], answer[a]) /\ Looks(a)
  BY <1>1 DEF HistoryInv, Sound
<1>5. /\ \A i \in DOMAIN ranges' : Paged(ranges'[i])
      /\ \A b \in Activity : /\ Paged(hold'[b])
                             /\ hold'[b].from = hold[b].from /\ hold'[b].to = hold[b].to
  BY <1>1, WritesKeep
<1>6. PICK r, req, old, c, known : /\ r = hold[a] /\ req = answer'[a] /\ old = answer[a]
                                   /\ c = LastEntry(a) /\ known = due[a]
  OBVIOUS
<1>7. /\ req.listens = old.listens \cup Page(a) /\ req.late = Recorded \ old.knew
      /\ req.whole = old.whole
  BY <1>2, <1>3, <1>6, LastIs
<1>8. /\ c.key[1] = r.from /\ c.key[2] = r.to /\ c.listens = old.listens \cup Page(a)
      /\ c.left = StaleAfter /\ c.late = Recorded \ old.knew /\ c.whole = old.whole
  BY <1>6 DEF LastEntry, Key
<1>9. Skips(old.whole, r.from, r.to)
  BY <1>4, <1>6 DEF Asks
<1>10. ASSUME old.whole, NEW l \in Within(r.from, r.to), l \in old.knew
       PROVE  l \in old.listens \cup Page(a) \/ Misses(r.from, r.to, l)
  BY <1>1, <1>2, <1>4, <1>6, <1>10, PageLeaves
<1>11. \A l \in Within(r.from, r.to) : l \in Recorded
  BY DEF Within
<1>12. Remembers(c)
  <2>1. Skips(c.whole, c.key[1], c.key[2]) /\ c.left <= Kept
    BY <1>8, <1>9, NumbersAre
  <2>2. ASSUME c.whole, NEW l \in Within(c.key[1], c.key[2]) \ c.late
        PROVE  l \in c.listens \/ Misses(c.key[1], c.key[2], l)
    <3>1. old.whole /\ l \in Within(r.from, r.to) /\ l \notin Recorded \ old.knew
      BY <1>8, <2>2
    <3>2. l \in old.knew
      BY <1>11, <3>1
    <3> QED BY <1>8, <1>10, <3>1, <3>2
  <2> QED BY <2>1, <2>2 DEF Remembers
<1>13. Compares(r, req, known)
  <2>1. ASSUME req.whole, NEW l \in Within(r.from, r.to) \cap (known \ req.late)
        PROVE  l \in req.listens \/ Misses(r.from, r.to, l)
    <3>1. old.whole /\ l \in old.knew
      BY <1>7, <1>11, <2>1
    <3> QED BY <1>7, <1>10, <2>1, <3>1
  <2> QED BY <1>7, <1>9, <2>1 DEF Compares
<1>14. Sound(a)'
  <2>1. PICK s : s = hold'[a]
    OBVIOUS
  <2>2. s.from = r.from /\ s.to = r.to
    BY <1>5, <1>6, <2>1
  <2>3. Compares(s, req, known)
    BY <1>13, <2>2, TimesMatter
  <2>4. Compares(s, req, known)'
    BY <1>1, <2>3, QuietKeeps
  <2>5. Looks(a)'
    BY <1>1, <1>4, <1>5, LooksStays
  <2>6. known = due'[a]
    BY <1>1, <1>6
  <2> QED BY <1>3, <1>6, <2>1, <2>4, <2>5, <2>6 DEF Sound
<1>15. \A b \in Activity : b # a => SameActivity(b)
  BY <1>1, <1>3, <1>5 DEF SameActivity
<1>16. \A d \in cache' \ cache : Remembers(d)'
  <2>1. Remembers(c)'
    BY <1>1, <1>12, QuietKeeps
  <2>2. \A d \in cache' \ cache : d = c
    BY <1>1, <1>6 DEF Remembered
  <2> QED BY <2>1, <2>2
<1> QED BY <1>1, <1>5, <1>14, <1>15, <1>16, QuietInv

-----------------------------------------------------------------------------
(* Time passes, and the service comes to know of a listen. *)

LEMMA TickKeeps ==
  ASSUME HistoryInv, RangesTyped', Tick
  PROVE  HistoryInv'
<1> DEFINE later(c) == [c EXCEPT !.left = @ - 1]
<1>1. /\ UNCHANGED <<kind, heard>> /\ now' = now + 1
      /\ age' = [l \in Scrobble |-> IF l \in Recorded THEN Least(age[l] + 1, Kept) ELSE 0]
      /\ cache' = { later(c) : c \in { c \in cache : c.left > 1 } }
      /\ UNCHANGED <<date, ranges, task, current, hold, due, answer>>
  BY DEF Tick, queues, activities, held
<1>2. RangesTyped /\ Ages
  BY DEF HistoryInv
<1>3. \A l \in Scrobble : age[l] \in Nat /\ age[l] <= Kept
  <2>1. \A l \in Scrobble : age[l] \in 0..Kept
    BY <1>2 DEF RangesTyped
  <2> QED BY <2>1, NumbersAre
<1>4. \A l \in Recorded : /\ l \in Scrobble /\ age'[l] \in Int /\ age'[l] <= age[l] + 1
                          /\ age[l] = Kept => age'[l] = Kept
  <2> SUFFICES ASSUME NEW l \in Recorded
               PROVE  /\ l \in Scrobble /\ age'[l] \in Int /\ age'[l] <= age[l] + 1
                      /\ age[l] = Kept => age'[l] = Kept
    OBVIOUS
  <2>1. l \in Scrobble
    BY DEF Recorded
  <2>2. age'[l] = Least(age[l] + 1, Kept)
    BY <1>1, <2>1
  <2> DEFINE x == age[l]
  <2>3. x \in Nat /\ x <= Kept
    BY <1>3, <2>1
  <2> HIDE DEF x
  <2>4. Least(x + 1, Kept) \in Int /\ Least(x + 1, Kept) <= x + 1 /\ (x = Kept => Least(x + 1, Kept) = Kept)
    BY <2>3, NumbersAre DEF Least
  <2> QED BY <2>1, <2>2, <2>4 DEF x
<1>5. Ages'
  <2> SUFFICES ASSUME NEW l \in Scrobble
               PROVE  /\ heard[l] = Never => age'[l] = 0
                      /\ heard[l] # Never => heard[l] + age'[l] <= now + 1
    BY <1>1 DEF Ages
  <2>1. heard[l] = Never => age'[l] = 0
    BY <1>1 DEF Recorded
  <2>2. ASSUME heard[l] # Never PROVE heard[l] + age'[l] <= now + 1
    <3>1. l \in Recorded
      BY <2>2 DEF Recorded
    <3>2. heard[l] + age[l] <= now
      BY <1>2, <2>2 DEF Ages
    <3> DEFINE h == heard[l]
               x == age[l]
               y == age'[l]
    <3>3. h \in Int /\ now \in Int /\ x \in Int /\ y \in Int /\ y <= x + 1 /\ h + x <= now
      BY <1>2, <1>3, <1>4, <3>1, <3>2, RecordedIs, RangesAre, NumbersAre
    <3> HIDE DEF h, x, y
    <3>4. h + y <= now + 1
      BY <3>3
    <3> QED BY <3>4 DEF h, y
  <2> QED BY <2>1, <2>2
<1>6. AllPaged'
  <2>1. ASSUME NEW i \in DOMAIN ranges PROVE Paged(ranges[i])'
    <3>1. PICK r : r = ranges[i]
      OBVIOUS
    <3>2. Paged(r)'
      BY <1>1, <3>1, HeardKeeps DEF HistoryInv, AllPaged
    <3> QED BY <1>1, <3>1, <3>2
  <2>2. ASSUME NEW b \in Activity PROVE Paged(hold[b])'
    <3>1. PICK r : r = hold[b]
      OBVIOUS
    <3>2. Paged(r)'
      BY <1>1, <3>1, HeardKeeps DEF HistoryInv, AllPaged
    <3> QED BY <1>1, <3>1, <3>2
  <2> QED BY <1>1, <2>1, <2>2 DEF AllPaged
<1>7. ASSUME NEW d \in cache' PROVE Remembers(d)'
  <2>1. PICK c \in cache : c.left > 1 /\ d = later(c)
    BY <1>1, <1>7
  <2>2. c \in Entry
    BY <1>2 DEF RangesTyped
  <2>3. /\ d.key = c.key /\ d.listens = c.listens /\ d.error = c.error /\ d.late = c.late
        /\ d.whole = c.whole /\ d.left = c.left - 1 /\ c.left \in Nat
    BY <2>1, <2>2 DEF Entry
  <2> HIDE DEF later
  <2>4. Remembers(c)
    BY DEF HistoryInv
  <2>5. Skips(d.whole, d.key[1], d.key[2])'
    <3>1. Skips(d.whole, d.key[1], d.key[2])
      BY <2>3, <2>4 DEF Remembers
    <3> QED BY <1>1, <3>1, HeardKeeps
  <2>6. ASSUME ~d.error PROVE d.left <= Kept
    <3>1. c.left <= Kept
      BY <2>3, <2>4, <2>6 DEF Remembers
    <3> DEFINE x == c.left
    <3>2. x \in Nat /\ x <= Kept /\ d.left = x - 1
      BY <2>3, <3>1
    <3> HIDE DEF x
    <3> QED BY <3>2, NumbersAre
  <2>7. ASSUME ~d.error, d.whole, NEW l \in Within(d.key[1], d.key[2]) \ d.late
        PROVE  \/ l \in d.listens \/ Misses(d.key[1], d.key[2], l)
               \/ age'[l] + d.left <= Kept
    <3>1. \/ l \in d.listens \/ Misses(d.key[1], d.key[2], l)
          \/ age[l] + c.left <= Kept
      BY <2>3, <2>4, <2>7 DEF Remembers
    <3>2. ASSUME age[l] + c.left <= Kept PROVE age'[l] + d.left <= Kept
      <4> DEFINE x == age[l]
                 y == age'[l]
                 z == c.left
      <4>1. l \in Recorded
        BY DEF Within
      <4>2. x \in Int /\ y \in Int /\ y <= x + 1 /\ z \in Int /\ d.left = z - 1 /\ x + z <= Kept
        BY <1>3, <1>4, <2>3, <3>2, <4>1
      <4> HIDE DEF x, y, z
      <4>3. y + (z - 1) <= Kept
        BY <4>2, NumbersAre
      <4> QED BY <4>2, <4>3 DEF y
    <3> QED BY <3>1, <3>2
  <2>8. /\ Within(d.key[1], d.key[2])' = Within(d.key[1], d.key[2])
        /\ \A l : Misses(d.key[1], d.key[2], l)' <=> Misses(d.key[1], d.key[2], l)
    BY <1>1, HeardKeeps
  <2> QED BY <2>5, <2>6, <2>7, <2>8 DEF Remembers
<1>8. ASSUME NEW b \in Activity PROVE Sound(b)'
  <2>1. Sound(b) /\ task'[b] = task[b]
    BY <1>1 DEF HistoryInv
  <2>2. PICK r, req, old : r = hold[b] /\ req = answer[b] /\ old = due[b]
    OBVIOUS
  <2>3. (Asks(r, req)' <=> Asks(r, req)) /\ (Compares(r, req, old)' <=> Compares(r, req, old))
    BY <1>1, HeardKeeps
  <2>4. ASSUME Looks(b) PROVE Looks(b)'
    <3>1. Recorded' = Recorded /\ Within(r.from, r.to)' = Within(r.from, r.to)
      BY <1>1, HeardKeeps
    <3> QED BY <1>1, <1>4, <2>2, <2>4, <3>1 DEF Looks
  <2> QED BY <1>1, <2>1, <2>2, <2>3, <2>4 DEF Sound
<1> QED BY <1>5, <1>6, <1>7, <1>8 DEF HistoryInv

(* What the service knows it goes on to know, and what is lost stays lost.   *)
Known == kind' = kind /\ Recorded \subseteq Recorded' /\ \A l \in Recorded : heard'[l] = heard[l]

LEMMA KnownGrows ==
  ASSUME RangesTyped, RangesTyped', Known, NEW from, NEW to
  PROVE  /\ Within(from, to) \subseteq Within(from, to)'
         /\ \A l \in Recorded : l \in Within(from, to)' => l \in Within(from, to)
         /\ Many(from, to) => Many(from, to)'
         /\ \A l \in Recorded : Misses(from, to, l) => Misses(from, to, l)'
         /\ \A whole : Skips(whole, from, to) => Skips(whole, from, to)'
         /\ \A l \in Recorded : /\ Newer(Within(from, to), l)' \in Nat
                               /\ Newer(Within(from, to), l)' >= Newer(Within(from, to), l)
<1>1. Within(from, to) \subseteq Within(from, to)'
  BY DEF Within, Known
<1>2. \A l \in Recorded : l \in Within(from, to)' => l \in Within(from, to)
  BY DEF Within, Known
<1>3. /\ IsFiniteSet(Within(from, to)) /\ IsFiniteSet(Within(from, to)')
      /\ Within(from, to) \subseteq Scrobble /\ Within(from, to)' \subseteq Scrobble
  <2>1. Within(from, to) \subseteq Scrobble /\ Within(from, to)' \subseteq Scrobble
    BY DEF Within, Recorded
  <2>2. IsFiniteSet(Scrobble)
    BY NumbersAre, FS_Interval DEF Scrobble
  <2> QED BY <2>1, <2>2, FS_Subset
<1>4. ASSUME Many(from, to) PROVE Many(from, to)'
  <2> DEFINE n == Cardinality(Within(from, to))
             k == Cardinality(Within(from, to)')
  <2>1. n \in Nat /\ k \in Nat /\ n <= k /\ n > PageSize
    BY <1>1, <1>3, <1>4, FS_Subset, FS_CardinalityType DEF Many
  <2>2. Cardinality(Within(from, to))' = k
    OBVIOUS
  <2> HIDE DEF n, k
  <2>3. k > PageSize
    BY <2>1, NumbersAre
  <2> QED BY <2>2, <2>3 DEF Many
<1>5. ASSUME NEW l \in Recorded, Misses(from, to, l) PROVE Misses(from, to, l)'
  <2>1. CASE LostToPages(from, to, TRUE, l)
    <3>1. Many(from, to)'
      BY <1>4, <2>1 DEF LostToPages, Many
    <3>2. \/ kind' = "lastfm"
          \/ \E m \in Recorded' \ {l} : heard'[m] = heard'[l]
      BY <2>1 DEF LostToPages, Known
    <3> QED BY <3>1, <3>2 DEF Misses, LostToPages, Many
  <2>2. CASE kind = "maloja" /\ Day(heard[l]) # Day(from)
    <3>1. heard'[l] = heard[l] /\ kind' = kind
      BY DEF Known
    <3> QED BY <2>2, <3>1 DEF Misses, Day
  <2> QED BY <1>5, <2>1, <2>2 DEF Misses
<1>6. \A whole : Skips(whole, from, to) => Skips(whole, from, to)'
  BY <1>4 DEF Skips, Known
<1>7. ASSUME NEW l \in Recorded
      PROVE  /\ Newer(Within(from, to), l)' \in Nat
             /\ Newer(Within(from, to), l)' >= Newer(Within(from, to), l)
  <2> DEFINE S == { m \in Within(from, to) : Older(l, m) }
             T == { m \in Within(from, to)' : Older(l, m)' }
  <2>1. S \subseteq T
    <3>1. \A m \in Within(from, to) : m \in Recorded
      BY DEF Within
    <3>2. \A m \in Within(from, to) : Older(l, m) => Older(l, m)'
      BY <3>1 DEF Older, Known
    <3> QED BY <1>1, <3>2
  <2>2. Newer(Within(from, to), l) = Cardinality(S) /\ Newer(Within(from, to), l)' = Cardinality(T)
    BY DEF Newer
  <2>3. S \subseteq Within(from, to) /\ T \subseteq Within(from, to)'
    OBVIOUS
  <2> HIDE DEF S, T
  <2>4. IsFiniteSet(S) /\ IsFiniteSet(T)
    BY <1>3, <2>3, FS_Subset
  <2>5. Cardinality(S) <= Cardinality(T)
    BY <2>1, <2>4, FS_Subset
  <2>6. Cardinality(S) \in Nat /\ Cardinality(T) \in Nat
    BY <2>4, FS_CardinalityType
  <2> QED BY <2>2, <2>5, <2>6
<1> QED BY <1>1, <1>2, <1>4, <1>5, <1>6, <1>7

LEMMA LearnKeeps ==
  ASSUME HistoryInv, RangesTyped', NEW k \in Scrobble, Learn(k)
  PROVE  HistoryInv'
<1>1. /\ heard[k] = Never /\ \E d \in Dates : d <= now /\ heard' = [heard EXCEPT ![k] = d]
      /\ UNCHANGED <<kind, now, age, date, ranges, cache, task, current, hold, due, answer>>
  BY DEF Learn, queues, activities, held
<1>2. RangesTyped /\ Ages
  BY DEF HistoryInv
<1>3. PICK d \in Dates : d <= now /\ heard' = [heard EXCEPT ![k] = d]
  BY <1>1
<1>4. /\ d \in Int /\ d # Never /\ now \in Int
      /\ heard'[k] = d /\ \A l \in Scrobble : l # k => heard'[l] = heard[l]
  BY <1>2, <1>3, NumbersAre, RangesAre DEF RangesTyped
<1>5. age[k] = 0
  BY <1>1, <1>2 DEF Ages
<1>6. Known /\ Recorded' = Recorded \cup {k}
  BY <1>1, <1>4 DEF Known, Recorded
<1>7. Ages'
  <2>1. d + 0 <= now
    BY <1>3, <1>4
  <2> QED BY <1>1, <1>2, <1>4, <1>5, <2>1 DEF Ages
<1>8. \A r : Paged(r) => Paged(r)'
  BY <1>2, <1>6, KnownGrows DEF Paged, Known
<1>9. AllPaged'
  <2>1. ASSUME NEW i \in DOMAIN ranges PROVE Paged(ranges[i])'
    <3>1. PICK r : r = ranges[i]
      OBVIOUS
    <3>2. Paged(r)'
      BY <1>8, <3>1 DEF HistoryInv, AllPaged
    <3> QED BY <1>1, <3>1, <3>2
  <2>2. ASSUME NEW b \in Activity PROVE Paged(hold[b])'
    <3>1. PICK r : r = hold[b]
      OBVIOUS
    <3>2. Paged(r)'
      BY <1>8, <3>1 DEF HistoryInv, AllPaged
    <3> QED BY <1>1, <3>1, <3>2
  <2> QED BY <1>1, <2>1, <2>2 DEF AllPaged
<1>10. ASSUME NEW c \in cache PROVE Remembers(c)'
  <2> DEFINE from == c.key[1]
             to == c.key[2]
  <2>1. Remembers(c) /\ c.left \in Nat
    BY <1>2 DEF HistoryInv, RangesTyped, Entry
  <2>2. Skips(c.whole, from, to)'
    BY <1>2, <1>6, <2>1, KnownGrows DEF Remembers
  <2>3. ASSUME ~c.error, c.whole, NEW l \in Within(from, to)' \ c.late
        PROVE  \/ l \in c.listens \/ Misses(from, to, l)'
               \/ age'[l] + c.left <= Kept
    <3>1. CASE l \in Recorded
      <4>1. l \in Within(from, to)
        BY <1>2, <1>6, <2>3, <3>1, KnownGrows
      <4>2. l \in c.listens \/ Misses(from, to, l) \/ age[l] + c.left <= Kept
        BY <2>1, <2>3, <4>1 DEF Remembers
      <4> QED BY <1>1, <1>2, <1>6, <3>1, <4>2, KnownGrows
    <3>2. CASE l \notin Recorded
      <4>1. l = k
        <5>1. l \in Recorded'
          BY <2>3 DEF Within
        <5> QED BY <1>6, <3>2, <5>1
      <4>2. c.left <= Kept
        BY <2>1, <2>3 DEF Remembers
      <4>3. 0 + c.left <= Kept
        BY <2>1, <4>2
      <4> QED BY <1>1, <1>5, <4>1, <4>3
    <3> QED BY <3>1, <3>2
  <2> QED BY <2>1, <2>2, <2>3 DEF Remembers
<1>11. ASSUME NEW b \in Activity PROVE Sound(b)'
  <2>1. Sound(b) /\ task'[b] = task[b]
    BY <1>1 DEF HistoryInv
  <2>2. PICK r, req, old : r = hold[b] /\ req = answer[b] /\ old = due[b]
    OBVIOUS
  <2>3. r = hold'[b] /\ req = answer'[b] /\ old = due'[b]
    BY <1>1, <2>2
  <2>4. ASSUME Looks(b) PROVE Looks(b)'
    <3>1. /\ Recorded \subseteq Recorded' /\ Within(r.from, r.to) \subseteq Within(r.from, r.to)'
          /\ \A l \in Recorded : heard'[l] = heard[l]
      BY <1>2, <1>6, KnownGrows DEF Known
    <3> QED BY <1>1, <2>2, <2>4, <3>1 DEF Looks
  <2>5. ASSUME Asks(r, req) PROVE Asks(r, req)'
    <3>1. /\ Skips(req.whole, r.from, r.to)' /\ r.from <= req.start /\ req.page >= 1
          /\ req.knew \subseteq Recorded
          /\ kind' = "koito" /\ req.page > 1 => Many(r.from, r.to)'
      BY <1>2, <1>6, <2>5, KnownGrows DEF Asks, Known
    <3>2. ASSUME req.whole, NEW l \in Within(r.from, r.to)' \cap req.knew
          PROVE  l \in req.listens \/ Misses(r.from, r.to, l)' \/ Ahead(r, req, l)'
      <4>1. l \in Recorded /\ l \in Within(r.from, r.to)
        BY <1>2, <1>6, <3>1, <3>2, KnownGrows
      <4>2. l \in req.listens \/ Misses(r.from, r.to, l) \/ Ahead(r, req, l)
        BY <2>5, <3>2, <4>1 DEF Asks
      <4>3. Ahead(r, req, l) => Ahead(r, req, l)'
        <5> DEFINE n == Newer(Within(r.from, r.to), l)
                   m == Newer(Within(r.from, r.to), l)'
                   x == (req.page - 1) * PageSize
        <5>1. n \in Nat /\ m \in Nat /\ m >= n
          BY <1>2, <1>6, <4>1, KnownGrows, WithinAre, NewerIs
        <5>2. x \in Int
          <6>1. req.page \in Nat
            BY <1>2, <2>2 DEF RangesTyped, Request
          <6> QED BY <6>1, NumbersAre
        <5> HIDE DEF n, m, x
        <5>3. n >= x => m >= x
          BY <5>1, <5>2
        <5>4. heard'[l] = heard[l] /\ kind' = kind
          BY <1>6, <4>1 DEF Known
        <5> QED BY <5>3, <5>4 DEF Ahead, n, m, x
      <4> QED BY <1>2, <1>6, <4>1, <4>2, <4>3, KnownGrows
    <3>3. req.knew \subseteq Recorded'
      BY <1>6, <3>1
    <3> QED BY <3>1, <3>2, <3>3 DEF Asks
  <2>6. ASSUME Looks(b), Compares(r, req, old) PROVE Compares(r, req, old)'
    <3>1. Skips(req.whole, r.from, r.to)'
      BY <1>2, <1>6, <2>6, KnownGrows DEF Compares
    <3>2. ASSUME req.whole, NEW l \in Within(r.from, r.to)' \cap (old \ req.late)
          PROVE  l \in req.listens \/ Misses(r.from, r.to, l)'
      <4>1. l \in Recorded
        BY <2>2, <2>6, <3>2 DEF Looks
      <4>2. l \in Within(r.from, r.to)
        BY <1>2, <1>6, <3>2, <4>1, KnownGrows
      <4>3. l \in req.listens \/ Misses(r.from, r.to, l)
        BY <2>6, <3>2, <4>2 DEF Compares
      <4> QED BY <1>2, <1>6, <4>1, <4>3, KnownGrows
    <3> QED BY <3>1, <3>2 DEF Compares
  <2> QED BY <2>1, <2>2, <2>3, <2>4, <2>5, <2>6 DEF Sound
<1> QED BY <1>1, <1>7, <1>9, <1>10, <1>11 DEF HistoryInv

LEMMA HistoryInvInit == HistoryInit => HistoryInv
<1> SUFFICES ASSUME HistoryInit PROVE HistoryInv
  OBVIOUS
<1>1. RangesTyped
  BY RangesTypedInit
<1>2. ranges = <<>> /\ cache = {} /\ heard = [l \in Scrobble |-> Never] /\ age = [l \in Scrobble |-> 0]
  BY DEF HistoryInit
<1>3. \A a \in Activity : task[a] = "idle" /\ hold[a] = NoRange
  BY DEF HistoryInit
<1>4. Ages
  BY <1>2 DEF Ages
<1>5. AllPaged
  BY <1>2, <1>3 DEF AllPaged, Paged, NoRange
<1> QED BY <1>1, <1>2, <1>3, <1>4, <1>5 DEF HistoryInv, Sound

LEMMA HistoryInvStep == HistoryInv /\ [HistoryNext]_historyVars => HistoryInv'
<1> SUFFICES ASSUME HistoryInv, [HistoryNext]_historyVars PROVE HistoryInv'
  OBVIOUS
<1>0. RangesTyped'
  BY RangesTypedStep DEF HistoryInv
<1>1. CASE Tick  BY <1>0, <1>1, TickKeeps
<1>2. ASSUME NEW l \in Scrobble, Learn(l) PROVE HistoryInv'
  BY <1>0, <1>2, LearnKeeps
<1>3. CASE PreloadAsks \/ PreloadAnswered \/ PreloadFails \/ PreloadPushes
  BY <1>0, <1>3, PreloadKeeps
<1>4. ASSUME NEW p \in Play, Enqueue(p) PROVE HistoryInv'
  BY <1>0, <1>4, EnqueueKeeps
<1>5. ASSUME NEW a \in Activity, NEW p \in Play, Take(a, p) PROVE HistoryInv'
  BY <1>0, <1>5, TakeKeeps
<1>6. ASSUME NEW a \in Activity, Regroup(a) PROVE HistoryInv'
  BY <1>0, <1>6, RegroupKeeps
<1>7. ASSUME NEW a \in Activity, Find(a) PROVE HistoryInv'
  BY <1>0, <1>7, FindKeeps
<1>8. ASSUME NEW a \in Activity, LookUp(a) PROVE HistoryInv'
  BY <1>0, <1>8, LookUpKeeps
<1>9. ASSUME NEW a \in Activity, AskForPage(a) PROVE HistoryInv'
  BY <1>0, <1>9, AskKeeps
<1>10. ASSUME NEW a \in Activity, Answered(a) PROVE HistoryInv'
  BY <1>0, <1>10, AnsweredKeeps
<1>11. ASSUME NEW a \in Activity, AnsweredLast(a) PROVE HistoryInv'
  BY <1>0, <1>11, AnsweredLastKeeps
<1>12. ASSUME NEW a \in Activity, LookUpFails(a) \/ AskFails(a) \/ Compare(a) PROVE HistoryInv'
  BY <1>0, <1>12, EndsKeep
<1>13. CASE UNCHANGED historyVars
  <2>1. Quiet /\ UNCHANGED <<date, ranges, cache, task, current, hold, due, answer>>
    BY <1>13 DEF historyVars, Quiet, upstream, queues, activities, held
  <2>2. \A b \in Activity : SameActivity(b)
    BY <2>1 DEF SameActivity
  <2> QED BY <1>0, <2>1, <2>2, QuietInv DEF HistoryInv, AllPaged
<1> QED BY <1>1, <1>2, <1>3, <1>4, <1>5, <1>6, <1>7, <1>8, <1>9, <1>10, <1>11, <1>12, <1>13
         DEF HistoryNext

(* A Play is compared with every listen at its own time that the service    *)
(* knew for as long as answers are remembered when the Play's range was     *)
(* found, whatever the loop, the dead run and initialisations did with the  *)
(* ranges, their cursors and the cache between and during the pages of its  *)
(* request (existingScrobble, getScrobblesForTimeRange and the services'    *)
(* own paging); but for a listen the service came to know while it was      *)
(* answering, for what LostToPages names and for another day with Maloja.   *)
(* It holds for any number of Plays and listens, any page size, padding and *)
(* durations, and any number of initialisations.                            *)
THEOREM NothingKnownIsEverMissed == HistorySpec => []NothingKnownIsMissed
<1>1. HistoryInv => NothingKnownIsMissed
  <2> SUFFICES ASSUME HistoryInv PROVE NothingKnownIsMissed
    OBVIOUS
  <2>1. HistoryTypeOK
    <3>1. RangesTyped
      BY DEF HistoryInv
    <3>2. \A c \in cache : c.listens \subseteq Scrobble /\ c.left \in Nat \ {0}
      BY <3>1 DEF RangesTyped, Entry
    <3>3. \A a \in Activity : answer[a].listens \subseteq Scrobble
      BY <3>1 DEF RangesTyped, Request
    <3> QED BY <3>1, <3>2, <3>3 DEF RangesTyped, OneEach, Busy, HistoryTypeOK
  <2>2. ASSUME NEW a \in Activity, NEW l \in Scrobble, task[a] = "compares",
               heard[l] = date[current[a]], l \in due[a] \ answer[a].late
        PROVE  \/ l \in answer[a].listens
               \/ LostToPages(hold[a].from, hold[a].to, answer[a].whole, l)
               \/ kind = "maloja" /\ Day(heard[l]) # Day(hold[a].from)
    <3>1. Looks(a) /\ Compares(hold[a], answer[a], due[a])
      BY <2>2 DEF HistoryInv, Sound
    <3>2. l \in Within(hold[a].from, hold[a].to)
      BY <2>2, <3>1 DEF Looks
    <3>3. CASE answer[a].whole
      <4>1. l \in answer[a].listens \/ Misses(hold[a].from, hold[a].to, l)
        BY <2>2, <3>1, <3>2, <3>3 DEF Compares
      <4>2. LostToPages(hold[a].from, hold[a].to, TRUE, l)
              => LostToPages(hold[a].from, hold[a].to, answer[a].whole, l)
        BY DEF LostToPages
      <4> QED BY <4>1, <4>2 DEF Misses
    <3>4. CASE ~answer[a].whole
      BY <3>1, <3>4 DEF Compares, Skips, Many, LostToPages
    <3> QED BY <3>3, <3>4
  <2> QED BY <2>1, <2>2 DEF NothingKnownIsMissed
<1> QED BY <1>1, HistoryInvInit, HistoryInvStep, PTL DEF HistorySpec
=============================================================================
