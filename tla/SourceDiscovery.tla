-------------------------- MODULE SourceDiscovery --------------------------
(***************************************************************************)
(* From what a service reports as listened to what every Client has queued. *)
(*                                                                         *)
(* A polling Source compares what its service reports with the Plays it    *)
(* discovered lately, stores the new ones and hands them to the Clients,   *)
(* one Client after the other.  The backlog of the service is processed at *)
(* the same time as the first poll, over the same list of recent Plays,    *)
(* and everything is stored over one database connection, with a           *)
(* hand-made transaction that awaits between its statements.               *)
(***************************************************************************)
EXTENDS Integers, FiniteSets

CONSTANTS
  Listens,           \* what is listened to, numbered by time of play
  Clients,           \* the Clients are 1..Clients, in configured order
  Batch,             \* bound: hand-overs to the Clients under way at once
  Faults,            \* which of the events below may happen
  MaxInterventions   \* bound: how many of them happen

None == "none"
NotCached == {0}   \* no list of recent Plays in memory
FaultKinds == {"abort", "insertFails", "crash", "mute", "expire"}
Discoverer == {"poll", "backlog"}
Listen     == 1..Listens
Client     == 1..Clients
PlayState  == {"discovered", "discarded"}
Activity   == Discoverer \cup Batch

ASSUME DiscoveryAssumption ==
  /\ Listens \in Nat \ {0} /\ Clients \in Nat \ {0}
  /\ Batch # {} /\ IsFiniteSet(Batch)
  /\ Batch \cap (Discoverer \cup {None}) = {}
  /\ Faults \subseteq FaultKinds
  /\ MaxInterventions \in Nat

VARIABLES
  heard,       \* the history of the service
  monitoring,  \* is the Source monitored?
  db,          \* the tables
  txn,         \* whose transaction is open, and the tables when it began
  cache,       \* the list of recent Plays in memory, or NotCached
  act,         \* where each discovery and each hand-over is
  aborted,     \* the signal of the polling activity
  backlogged,  \* has this polling activity processed its backlog?
  happened,    \* history: the kinds of intervention so far
  overlapped,  \* history: have two discoveries ever run at the same time?
  crashes,     \* history: how often the process died
  interventions

history == <<happened, overlapped, crashes, interventions>>
polls   == <<aborted, backlogged>>
vars    == <<heard, monitoring, db, txn, cache, act, polls, history>>

\* a Play of the Source becomes "discovered" or "discarded"; a Client has a
\* Play of its own for it and a row of its queue
Tables ==
  [row:    [PlayState -> [Listen -> Nat]],
   play:   [Client -> [Listen -> Nat]],
   queued: [Client -> [Listen -> Nat]]]

Stage == {"idle", "next", "caching", "comparing", "begin",
          "inserting", "recording", "forwarding"}
Idle  == [at |-> "idle", todo |-> {}, cur |-> 0, list |-> {},
          shares |-> FALSE, state |-> "discovered", found |-> {}, client |-> 1]

TypeOK ==
  /\ heard \subseteq Listen
  /\ monitoring \in BOOLEAN
  /\ db \in Tables
  /\ txn \in [by: Activity \cup {None}, before: Tables]
  /\ cache \in (SUBSET Listen) \cup {NotCached}
  /\ act \in [Activity -> [at: Stage, todo: SUBSET Listen, cur: {0} \cup Listen,
                           list: SUBSET Listen, shares: BOOLEAN,
                           state: PlayState, found: SUBSET Listen, client: Client]]
  /\ aborted \in BOOLEAN /\ backlogged \in BOOLEAN
  /\ happened \subseteq FaultKinds /\ overlapped \in BOOLEAN
  /\ crashes \in 0..MaxInterventions /\ interventions \in 0..MaxInterventions

NoRows    == [l \in Listen |-> 0]
NoTables  == [row    |-> [s \in PlayState |-> NoRows],
              play   |-> [c \in Client |-> NoRows],
              queued |-> [c \in Client |-> NoRows]]
NoTxn     == [by |-> None, before |-> NoTables]

Init ==
  /\ heard = {}
  /\ monitoring = TRUE
  /\ db = NoTables
  /\ txn = NoTxn
  /\ cache = NotCached
  /\ act = [a \in Activity |-> Idle]
  /\ aborted = FALSE /\ backlogged = FALSE
  /\ happened = {} /\ overlapped = FALSE
  /\ crashes = 0 /\ interventions = 0

-----------------------------------------------------------------------------
\* What the steps are made of.

Stored(tables) ==
  {l \in Listen : \E s \in PlayState : tables.row[s][l] > 0}

\* what activity a inserts when it begins its transaction
WithInsert(a) ==
  IF a \in Discoverer
  THEN [db EXCEPT !.row[act[a].state][act[a].cur] = @ + 1]
  ELSE [db EXCEPT !.play[act[a].client][act[a].cur] = @ + 1]

\* whoever waited for a transaction looks again when it has ended
MayBegin(a) == txn = NoTxn

\* the cache keeps a copy of what it is given, and nobody holds that yet
Unshared(acts) == [a \in Activity |-> [acts[a] EXCEPT !.shares = FALSE]]

\* whoever compares against the very list that was in the cache may or may not
\* have passed the place where l is pushed
Pushed(acts, l, seen) ==
  Unshared([a \in Activity |->
    IF acts[a].shares /\ acts[a].cur = l /\ a \in seen
    THEN [acts[a] EXCEPT !.list = {l}] ELSE acts[a]])

ForgottenNow(l) == cache               \* mutant: the list is left as it is
Remembered(l) == cache \cup {l}

Active(d) == act[d].at # "idle"

Happens(kind) ==
  /\ kind \in Faults
  /\ interventions < MaxInterventions
  /\ interventions' = interventions + 1
  /\ happened' = happened \cup {kind}

-----------------------------------------------------------------------------
\* The service, and one pass of a discovery.

Listened(l) ==
  /\ l = Cardinality(heard) + 1
  /\ heard' = heard \cup {l}
  /\ UNCHANGED <<monitoring, db, txn, cache, act, polls, history>>

\* the loop of doPolling fetches again and again, processBacklog once
Fetch(d) ==
  /\ ~Active(d) /\ ~aborted /\ heard # {}
  /\ d = "backlog" => ~backlogged
  /\ backlogged' = (backlogged \/ d = "backlog")
  /\ act' = [act EXCEPT ![d] = [Idle EXCEPT !.at = "next", !.todo = heard]]
  /\ overlapped' = (overlapped \/ \E e \in Discoverer \ {d} : Active(e))
  /\ UNCHANGED <<heard, monitoring, db, txn, cache, aborted,
                 happened, crashes, interventions>>

\* services answer with the latest first; of the list that is read, only
\* whether it has this Play matters to the comparison
Latest(d) == {l \in act[d].todo : \A k \in act[d].todo : k <= l}

\* existingDiscovered: the recent Plays are in memory ...
ReadCached(d) ==
  /\ act[d].at = "next" /\ ~aborted
  /\ cache # NotCached
  /\ \E l \in Latest(d) :
       act' = [act EXCEPT ![d].at = "comparing", ![d].cur = l,
                          ![d].list = cache \cap {l}, ![d].shares = l \notin cache]
  /\ UNCHANGED <<heard, monitoring, db, txn, cache, polls, history>>

\* ... or are read from the database, and put in memory after an await
ReadStored(d) ==
  /\ act[d].at = "next" /\ ~aborted
  /\ cache = NotCached
  /\ \E l \in Latest(d) :
       act' = [act EXCEPT ![d].at = "caching", ![d].cur = l, ![d].list = Stored(db)]
  /\ UNCHANGED <<heard, monitoring, db, txn, cache, polls, history>>

PutInCache(d) ==
  /\ act[d].at = "caching"
  /\ cache' = act[d].list
  /\ act' = Unshared([act EXCEPT ![d].at = "comparing",
                                  ![d].list = @ \cap {act[d].cur}])
  /\ UNCHANGED <<heard, monitoring, db, txn, polls, history>>

NextPlay(d) ==
  [act[d] EXCEPT !.at = "next", !.todo = @ \ {act[d].cur}, !.cur = 0,
                 !.list = {}, !.shares = FALSE, !.state = "discovered"]

Known(d) ==
  /\ act[d].at = "comparing" /\ act[d].cur \in act[d].list
  /\ act' = [act EXCEPT ![d] = NextPlay(d)]
  /\ UNCHANGED <<heard, monitoring, db, txn, cache, polls, history>>

New(d) ==
  /\ act[d].at = "comparing" /\ act[d].cur \notin act[d].list
  /\ ~aborted
  /\ act' = [act EXCEPT ![d].at = "begin", ![d].list = {}, ![d].shares = FALSE,
              ![d].state = IF monitoring THEN "discovered" ELSE "discarded"]
  /\ UNCHANGED <<heard, monitoring, db, txn, cache, polls, history>>

\* throwIfAborted: what this pass has found is dropped with it
Stop(d) ==
  /\ aborted
  /\ \/ act[d].at \in {"next", "forwarding"}
     \/ act[d].at = "comparing" /\ act[d].cur \notin act[d].list
  /\ act' = [act EXCEPT ![d] = Idle]
  /\ UNCHANGED <<heard, monitoring, db, txn, cache, polls, history>>

JoinsAlways(d) == TRUE                 \* mutant: discarded ones too
\* only a Play that was stored as discovered is handed on
Joins(d) == act[d].state = "discovered"

\* addPlayToDB after createPlays: the list in memory follows, if there is one
Push(d) ==
  /\ act[d].at = "recording" /\ d \in Discoverer
  /\ LET l     == act[d].cur
         after == [act EXCEPT ![d] = [NextPlay(d) EXCEPT
                     !.found = IF Joins(d) THEN @ \cup {l} ELSE @]]
     IN \/ /\ cache = NotCached
           /\ act' = after
           /\ UNCHANGED cache
        \/ /\ cache # NotCached
           /\ cache' = Remembered(l)
           /\ \E seen \in SUBSET (Discoverer \ {d}) : act' = Pushed(after, l, seen)
  /\ UNCHANGED <<heard, monitoring, db, txn, polls, history>>

\* the new Plays are handed over without waiting for what becomes of them
Forward(d) ==
  /\ act[d].at = "next" /\ act[d].todo = {} /\ ~aborted
  /\ \/ /\ act[d].found = {}
        /\ act' = [act EXCEPT ![d] = Idle]
     \/ \E b \in Batch :
          /\ act[d].found # {} /\ ~Active(b)
          /\ act' = [act EXCEPT ![d] = Idle,
                       ![b] = [Idle EXCEPT !.at = "next", !.todo = act[d].found,
                                           !.found = act[d].found]]
  /\ UNCHANGED <<heard, monitoring, db, txn, cache, polls, history>>

-----------------------------------------------------------------------------
\* ScrobbleClients: each Client in turn, and for each the Plays in turn.

\* mutant: one Client too many
ClientBeyond(b, l) ==
  LET rest == act[b].todo \ {l}
      goOn == [act[b] EXCEPT !.at = "next", !.cur = 0, !.todo = rest] IN
  IF rest # {} THEN goOn
  ELSE IF act[b].client <= Clients
  THEN [goOn EXCEPT !.todo = act[b].found, !.client = @ + 1] ELSE Idle
AfterPlay(b, l) ==
  LET rest == act[b].todo \ {l}
      goOn == [act[b] EXCEPT !.at = "next", !.cur = 0, !.todo = rest] IN
  IF rest # {} THEN goOn
  ELSE IF act[b].client < Clients
  THEN [goOn EXCEPT !.todo = act[b].found, !.client = @ + 1] ELSE Idle

QueuedAnywhere(c, l) ==                \* mutant: in the queue of any Client
  \E other \in Client : db.queued[other][l] > 0
\* queueScrobble: a Play that is in the queue is not added again
AlreadyQueued(c, l) == db.queued[c][l] > 0

Check(b) ==
  /\ act[b].at = "next"
  /\ \E l \in act[b].todo :
       /\ \A k \in act[b].todo : l <= k
       /\ act' = [act EXCEPT ![b] = IF AlreadyQueued(act[b].client, l)
                                   THEN AfterPlay(b, l)
                                   ELSE [act[b] EXCEPT !.at = "begin", !.cur = l]]
  /\ UNCHANGED <<heard, monitoring, db, txn, cache, polls, history>>

WithQueueRow(c, l) == [db EXCEPT !.queued[c][l] = @ + 1]

\* a statement of its own, which an open transaction of anybody takes in
AddToQueue(b) ==
  /\ act[b].at = "recording"
  /\ db' = WithQueueRow(act[b].client, act[b].cur)
  /\ act' = [act EXCEPT ![b] = AfterPlay(b, act[b].cur)]
  /\ UNCHANGED <<heard, monitoring, txn, cache, polls, history>>

-----------------------------------------------------------------------------
\* runTransaction around the two inserts of createPlays, for both.

Begin(a) ==
  /\ act[a].at = "begin" /\ MayBegin(a)
  /\ txn' = [by |-> a, before |-> db]
  /\ db' = WithInsert(a)
  /\ act' = [act EXCEPT ![a].at = "inserting"]
  /\ UNCHANGED <<heard, monitoring, cache, polls, history>>

Commit(a) ==
  /\ act[a].at = "inserting"
  /\ txn' = NoTxn
  /\ act' = [act EXCEPT ![a].at = "recording"]
  /\ UNCHANGED <<heard, monitoring, db, cache, polls, history>>

RolledBack == IF txn = NoTxn THEN db ELSE txn.before

\* everything but the tables and the service is gone
ProcessDies ==
  /\ db' = RolledBack
  /\ txn' = NoTxn /\ cache' = NotCached
  /\ act' = [a \in Activity |-> Idle]
  /\ aborted' = FALSE /\ backlogged' = FALSE
  /\ crashes' = crashes + 1

\* an insert fails in the discovery: the poll is retried until its retries are
\* used up, a failed backlog ends the polling too
DiscoveryFails(d) ==
  /\ act[d].at = "inserting" /\ Happens("insertFails")
  /\ db' = RolledBack
  /\ txn' = NoTxn
  /\ act' = [act EXCEPT ![d] = Idle]
  /\ aborted' \in (IF d = "backlog" THEN {TRUE} ELSE {aborted, TRUE})
  /\ UNCHANGED <<heard, monitoring, cache, backlogged, overlapped, crashes>>

\* nobody handles what the event's listener throws: the process ends
HandOverFails(b) ==
  /\ act[b].at = "inserting" /\ Happens("insertFails")
  /\ ProcessDies
  /\ UNCHANGED <<heard, monitoring, overlapped>>

-----------------------------------------------------------------------------
\* What else may happen.

\* the polling is stopped ...
Abort ==
  /\ ~aborted /\ Happens("abort")
  /\ aborted' = TRUE
  /\ UNCHANGED <<heard, monitoring, db, txn, cache, act, backlogged,
                 overlapped, crashes>>

\* ... and started again when its discoveries have ended
PollAgain ==
  /\ aborted /\ \A d \in Discoverer : ~Active(d)
  /\ aborted' = FALSE /\ backlogged' = FALSE
  /\ UNCHANGED <<heard, monitoring, db, txn, cache, act, history>>

Crash ==
  /\ Happens("crash")
  /\ ProcessDies
  /\ UNCHANGED <<heard, monitoring, overlapped>>

\* the user switches the monitoring of the Source
SwitchMonitoring ==
  /\ Happens("mute")
  /\ monitoring' = ~monitoring
  /\ UNCHANGED <<heard, db, txn, cache, act, polls, overlapped, crashes>>

\* the list in memory lives for two minutes
Expire ==
  /\ cache # NotCached /\ Happens("expire")
  /\ cache' = NotCached
  /\ act' = Unshared(act)
  /\ UNCHANGED <<heard, monitoring, db, txn, polls, overlapped, crashes>>

Discover(d) ==
  \/ Fetch(d) \/ PutInCache(d) \/ Known(d) \/ New(d) \/ Push(d)
  \/ ReadCached(d) \/ ReadStored(d) \/ Forward(d) \/ Stop(d)

HandOver(b) == Check(b) \/ AddToQueue(b)

Transact(a) == Begin(a) \/ Commit(a)

Next ==
  \/ \E l \in Listen : Listened(l)
  \/ \E d \in Discoverer : Discover(d) \/ DiscoveryFails(d)
  \/ \E b \in Batch : HandOver(b) \/ HandOverFails(b)
  \/ \E a \in Activity : Transact(a)
  \/ Abort \/ PollAgain \/ Crash \/ SwitchMonitoring \/ Expire

Spec == Init /\ [][Next]_vars

\* every started activity goes on; nothing is owed by the service or the user,
\* nor the next polling after a stop
Fairness ==
  /\ \A d \in Discoverer : WF_vars(Discover(d) \/ Transact(d))
  /\ \A b \in Batch : WF_vars(HandOver(b) \/ Transact(b))

FairSpec == Spec /\ Fairness

-----------------------------------------------------------------------------
\* What must be true of it.

\* a Client has taken the Play over
Reached(c, l) == db.queued[c][l] > 0

\* a hand-over will still bring the Play to the Client
OnItsWay(c, l) ==
  \/ \E d \in Discoverer :
       \/ l \in act[d].found
       \/ /\ act[d].at \in {"inserting", "recording"}
          /\ act[d].cur = l /\ act[d].state = "discovered"
  \/ \E b \in Batch :
       /\ act[b].client <= c /\ l \in act[b].found
       /\ act[b].client = c => l \in act[b].todo

\* A Play that is stored as discovered reaches every Client.  The Source never
\* discovers it again, so a Play that only a dropped pass or a dropped
\* hand-over knew of is lost: that takes a stop of the polling, a failed insert
\* or the end of the process.  The expiry of the list in memory, the backlog
\* running beside the poll and a change of the monitoring lose nothing
\* (discover, scrobble, ScrobbleClients.scrobble).
DiscoveredIsForwarded ==
  (\E l \in Listen, c \in Client :
      db.row["discovered"][l] > 0 /\ ~Reached(c, l) /\ ~OnItsWay(c, l))
    => happened \cap {"abort", "insertFails", "crash"} # {}

\* What is handed over is stored, and was not discarded: no rollback, no crash
\* and no race undoes the row of a Play that a Client is about to get or got
\* (addPlayToDB returns before the Play joins the new ones).
ForwardedIsStored ==
  \A l \in Listen :
    (\E c \in Client : Reached(c, l)) \/ (\E a \in Activity : l \in act[a].found)
      => db.row["discovered"][l] > 0

\* A Play is stored once, however often it is reported and whatever is dropped
\* on the way, unless two discoveries ever ran at the same time (discover).
DiscoveredOnce ==
  ~overlapped =>
    \A l \in Listen : db.row["discovered"][l] + db.row["discarded"][l] <= 1

\* Between the steps of a discovery the list in memory and the tables name the
\* same Plays.  Only two discoveries at the same time can make them disagree
\* (getRecentlyDiscoveredPlays, addPlayToDB).
CacheAgrees ==
  ~overlapped /\ cache # NotCached
  /\ (\A d \in Discoverer : act[d].at \notin {"inserting", "recording"})
    => cache = Stored(db)

\* Without overlapping discoveries every Play is stored once, and known to be;
\* at any time the state is of its type, a hand-over never past the last Client.
DiscoveriesAreSound == TypeOK /\ DiscoveredOnce /\ CacheAgrees

\* A Client's Play without a row of its queue is found by nobody.  The end of
\* the process leaves one for each hand-over under way at most, and nothing
\* else but the rollback of somebody else's transaction does (queueScrobble).
OrphansAreFew ==
  LET Beside(c, l) == Cardinality({b \in Batch :
                        /\ act[b].at \in {"inserting", "recording"}
                        /\ act[b].client = c /\ act[b].cur = l})
      Orphaned == {p \in Client \X Listen :
                     db.play[p[1]][p[2]] > db.queued[p[1]][p[2]]
                                             + Beside(p[1], p[2])}
  IN "insertFails" \notin happened =>
       Cardinality(Orphaned) <= crashes * Cardinality(Batch)

\* What is discovered is handed over, nothing else is, and it is queued.
HandOversAreSound == DiscoveredIsForwarded /\ ForwardedIsStored /\ OrphansAreFew

\* Whatever is listened to reaches every Client in the end, unless something
\* interfered: the waits for the transaction and the two discoveries do not
\* keep each other from it (runTransaction, discover).
HeardReachesAll ==
  heard = Listen ~> \/ \A l \in Listen, c \in Client : Reached(c, l)
                    \/ happened \ {"expire"} # {}
=============================================================================
