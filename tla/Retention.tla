------------------------------ MODULE Retention ------------------------------
(***************************************************************************)
(* What becomes of the Plays in the database.                              *)
(*                                                                         *)
(* A Source's Play is the parent of those the Clients have of it.  Every   *)
(* hour a task deletes old Plays and compacts (drops the debug data of)    *)
(* others, for all Clients at the same time and then for all Sources, each *)
(* with the policy of its own options.  It is not told whose Plays to look *)
(* at, so each component treats the Plays of all of them.                  *)
(*                                                                         *)
(* Clients settle and retry their Plays meanwhile, and a retry waits.  The *)
(* statements of the task follow each other without a wait.                *)
(***************************************************************************)
EXTENDS Integers, FiniteSets, FiniteSetsExt

CONSTANTS
  Owner,      \* the Clients
  Policies,   \* options: for each component what is deleted and compacted when
  Lifetime    \* bound: when time ends

Origin    == "source"
Component == Owner \cup {Origin}
Kind      == {"failed", "completed", "duped"}     \* retentionPlayTypes
Off       == -1                                   \* compactAfter: false

Policy == [delete : [Kind -> Nat], compact : [Kind -> Nat \cup {Off}],
           properties : SUBSET {"input", "transform"}]

ASSUME RetentionAssumption ==
  /\ Origin \notin Owner /\ IsFiniteSet(Owner) /\ Owner # {} /\ Lifetime \in Nat
  /\ Policies \subseteq [Component -> Policy]

VARIABLES
  policy,    \* the policies of the components
  hour,      \* the time
  stored,    \* the Play of each component, deleted ones included
  retried,   \* the Clients whose dead run holds their Play
  cleaning,  \* of a component: "no", "delete" or "compact", what it does next
  swept,     \* has the task run in this hour?
  settled    \* ghost: when a Client last had an answer about its Play

retentionVars == <<policy, hour, stored, retried, cleaning, swept, settled>>

State == {"discovered", "queued", "scrobbled", "failed", "duped"}

RetentionTypeOK ==
  /\ policy \in Policies /\ hour \in 0..Lifetime
  /\ stored \in [Component -> [state : State, seen : 0..Lifetime, updated : 0..Lifetime,
                              compacted : SUBSET {"input", "transform"},
                              deleted : 0..Lifetime \cup {Off}]]
  /\ retried \subseteq Owner /\ swept \in BOOLEAN
  /\ cleaning \in [Component -> {"no", "delete", "compact"}]
  /\ settled \in [Owner -> 0..Lifetime]

There(p) == stored[p].deleted = Off
Sweeping == \E x \in Component : cleaning[x] # "no"

(* The Source discovers a Play and every Client queues its own. *)
RetentionInit ==
  /\ policy \in Policies /\ hour = 0
  /\ stored = [p \in Component |->
                 [state |-> IF p = Origin THEN "discovered" ELSE "queued", seen |-> 0,
                  updated |-> 0, compacted |-> {}, deleted |-> Off]]
  /\ retried = {} /\ cleaning = [x \in Component |-> "no"] /\ swept = TRUE
  /\ settled = [c \in Owner |-> 0]

-----------------------------------------------------------------------------
(* The task. *)

(* The state a kind of Play has with a component. *)
StateOf(x, k) ==
  IF k # "completed" THEN k ELSE IF x = Origin THEN "discovered" ELSE "scrobbled"

(* Due for deletion, by the last update; and for compaction, by the time   *)
(* it was seen at.                                                         *)
OldEnough(x, p) ==
  \E k \in Kind : /\ stored[p].state = StateOf(x, k)
                  /\ hour - stored[p].updated >= policy[x].delete[k]

SeenLongAgo(x, p) ==
  \E k \in Kind : /\ stored[p].state = StateOf(x, k)
                  /\ policy[x].compact[k] # Off
                  /\ hour - stored[p].seen >= policy[x].compact[k]

Ignored(p, gone) == TRUE               \* mutant: the children do not matter
(* No Play of a Client came of it, or these are gone. *)
Childless(p, gone) == p = Origin => \A c \in Owner : ~There(c) \/ c \in gone

(* findPurgablePlayIds: what is deleted, the failed Plays first, and what is *)
(* compacted.                                                               *)
Expired(x) ==
  LET failed == { c \in Owner : There(c) /\ stored[c].state = "failed" /\ OldEnough(x, c) }
  IN { p \in Component : There(p) /\ Childless(p, failed) /\ OldEnough(x, p) }

Compactable(x) ==
  { p \in Component :
      /\ There(p) /\ Childless(p, {}) /\ policy[x].properties # {}
      /\ stored[p].compacted # policy[x].properties
      /\ SeenLongAgo(x, p) }

StartsSweep ==
  /\ ~swept /\ ~Sweeping
  /\ cleaning' = [x \in Component |-> IF x = Origin THEN "no" ELSE "delete"]
  /\ swept' = TRUE
  /\ UNCHANGED <<policy, hour, stored, retried, settled>>

DeleteExpired(x) ==
  /\ cleaning[x] = "delete"
  /\ stored' = [p \in Component |->
                  IF p \in Expired(x) THEN [stored[p] EXCEPT !.deleted = hour] ELSE stored[p]]
  /\ cleaning' = [cleaning EXCEPT ![x] = "compact"]
  /\ UNCHANGED <<policy, hour, retried, swept, settled>>

(* Every update of a row sets its time. *)
CompactedPlay(p, x) ==
  [stored[p] EXCEPT !.compacted = policy[x].properties, !.updated = hour]

(* The Sources follow when all Clients are done. *)
Compact(x) ==
  /\ cleaning[x] = "compact"
  /\ stored' = [p \in Component |->
                  IF p \in Compactable(x) THEN CompactedPlay(p, x) ELSE stored[p]]
  /\ LET next == [cleaning EXCEPT ![x] = "no"]
     IN cleaning' = IF x # Origin /\ \A c \in Owner : next[c] = "no"
                    THEN [next EXCEPT ![Origin] = "delete"] ELSE next
  /\ UNCHANGED <<policy, hour, retried, swept, settled>>

-----------------------------------------------------------------------------
(* The Clients. *)

WithState(c, state) == [stored EXCEPT ![c].state = state, ![c].updated = hour]

(* The loop ends with the Play in one of three ways. *)
LoopSettles(c, state) ==
  /\ ~Sweeping /\ There(c) /\ stored[c].state = "queued"
  /\ stored' = WithState(c, state) /\ settled' = [settled EXCEPT ![c] = hour]
  /\ UNCHANGED <<policy, hour, retried, cleaning, swept>>

TakesDead(c) ==
  /\ ~Sweeping /\ There(c) /\ stored[c].state = "failed" /\ c \notin retried
  /\ retried' = retried \cup {c}
  /\ UNCHANGED <<policy, hour, stored, cleaning, swept, settled>>

(* A retry whose Play was deleted meanwhile updates nothing.  One whose    *)
(* history request fails updates its queue row only.                       *)
Rejected(c) == WithState(c, "failed")

RetryEnds(c, outcome) ==
  /\ ~Sweeping /\ c \in retried
  /\ retried' = retried \ {c}
  /\ stored' = IF ~There(c) \/ outcome = "noHistory" THEN stored
               ELSE IF outcome = "rejected" THEN Rejected(c)
               ELSE WithState(c, outcome)
  /\ settled' = IF There(c) /\ outcome # "noHistory" THEN [settled EXCEPT ![c] = hour] ELSE settled
  /\ UNCHANGED <<policy, hour, cleaning, swept>>

HourPasses ==
  /\ swept /\ ~Sweeping /\ hour < Lifetime
  /\ hour' = hour + 1 /\ swept' = FALSE
  /\ UNCHANGED <<policy, stored, retried, cleaning, settled>>

RetentionNext ==
  \/ StartsSweep \/ HourPasses
  \/ \E x \in Component : DeleteExpired(x) \/ Compact(x)
  \/ \E c \in Owner : \/ TakesDead(c)
                      \/ \E s \in {"scrobbled", "failed", "duped"} : LoopSettles(c, s)
                      \/ \E o \in {"scrobbled", "duped", "rejected", "noHistory"} :
                           RetryEnds(c, o)

RetentionSpec == RetentionInit /\ [][RetentionNext]_retentionVars

-----------------------------------------------------------------------------
(* The shortest of what any component's policy says of a kind of Play: an   *)
(* other component's is as good as the Client's own.                       *)
DeletedAfter(k) ==
  LET of == IF k = "completed" THEN Owner ELSE Component
  IN Min({ policy[x].delete[k] : x \in of })

KindOf(p) == IF stored[p].state \in {"scrobbled", "discovered"} THEN "completed" ELSE stored[p].state

(* A Play that waits to be scrobbled is kept for as long as it takes; any   *)
(* other, one that is retried included, for as long as the policies say     *)
(* after the last time its Client had an answer about it; and the Source's *)
(* Play is kept while a Client has one that came of it.  (Retries that fail *)
(* before they come to an answer do not keep a Play.)                      *)
KeptWhileNeeded ==
  /\ \A c \in Owner : ~There(c) =>
       /\ stored[c].state # "queued"
       /\ stored[c].deleted - settled[c] >= DeletedAfter(KindOf(c))
  /\ (\E c \in Owner : There(c)) => There(Origin)

(* When a settled Play was compacted at the latest, if the task ran then.   *)
CompactedBy(k) ==
  LET compacts == { policy[x].compact[k] : x \in Component } \ {Off}
  IN IF compacts = {} THEN 0 ELSE Max(compacts)

(* The last time a settled Play is updated.                                 *)
LastUpdate(c) == Max({settled[c] + 1, CompactedBy(KindOf(c))})

(* A Play that is settled is gone in time, however the policies differ: but *)
(* compacting it counts as an update, which puts the time off once, until  *)
(* the first run of the task that compacts it.                             *)
(* Components that compact different properties compact each other's Plays *)
(* again every hour, and no Play is ever deleted.                          *)
Alike == \A x, y \in Component : policy[x].properties = policy[y].properties

GoneInTime ==
  Alike /\ swept /\ ~Sweeping =>
    \A c \in Owner : There(c) /\ stored[c].state # "queued" =>
      hour < LastUpdate(c) + DeletedAfter(KindOf(c))

RetentionIsSound == RetentionTypeOK /\ KeptWhileNeeded /\ GoneInTime
=============================================================================
