------------------------------ MODULE MCIngress ------------------------------
(***************************************************************************)
(* What happens to a Play before it is discovered, before it is submitted, *)
(* and in the end: a Source finds it in a list, its data are transformed,  *)
(* and it is compacted and deleted.                                        *)
(* They share nothing but the Play, so a behaviour is one of one of them.  *)
(***************************************************************************)
EXTENDS SnapshotSource, TransformPipeline, Retention

VARIABLE part

MCStart == {<<1, 2, 3>>, <<>>}

(* A replacement the user wrote, which may depend on what the lookup found, *)
UserStages ==
  { [name |-> "a", kind |-> "user", needs |-> needs, onSuccess |-> "continue",
     onFailure |-> "stop", onSkip |-> skip, partial |-> FALSE] :
      needs \in {{}, {"b"}}, skip \in Flow }

(* and a lookup, which may fail. *)
Lookups ==
  { [name |-> "b", kind |-> "lookup", needs |-> {}, onSuccess |-> success,
     onFailure |-> failure, onSkip |-> "continue", partial |-> partial] :
      success \in Flow, failure \in Flow, partial \in BOOLEAN }

(* One hook has both stages, in either order; another shares one of them. *)
MCConfig ==
  UNION { { [h1 |-> <<a, b>>, h2 |-> <<a>>],
            [h1 |-> <<b, a>>, h2 |-> <<a>>],
            [h1 |-> <<a, b>>, h2 |-> <<b>>] } : a \in UserStages, b \in Lookups }

(* The defaults, and components that differ in one option. *)
MCSame(n) == [k \in Kind |-> n]
MCDefault == [delete |-> MCSame(3), compact |-> MCSame(1), properties |-> {"input", "transform"}]
MCOther(x, options) == [y \in Component |-> IF y = x THEN options ELSE MCDefault]
MCPolicies ==
  { MCOther("c1", MCDefault),
    MCOther("c1", [MCDefault EXCEPT !.delete["failed"] = 1]),
    MCOther("c1", [MCDefault EXCEPT !.compact = MCSame(Off)]),
    MCOther("c2", [MCDefault EXCEPT !.properties = {"input"}]),
    MCOther(Origin, [MCDefault EXCEPT !.delete = MCSame(2)]) }

(* The parts that are not looked at stay as they begin in some way. *)
Init ==
  /\ SnapshotInit /\ TransformInit /\ RetentionInit
  /\ part \in {"snapshots", "transforms", "retention"}
  /\ part # "snapshots" => service = "ytmusic" /\ history = <<>> /\ ~discovered
  /\ part # "transforms" => hooks = CHOOSE config \in Config : TRUE
  /\ part # "retention" => policy = MCOther("c1", MCDefault)

Next ==
  \/ part = "snapshots" /\ SnapshotNext /\ UNCHANGED <<transformVars, retentionVars>>
  \/ part = "transforms" /\ TransformNext /\ UNCHANGED <<snapshotVars, retentionVars>>
  \/ part = "retention" /\ RetentionNext /\ UNCHANGED <<snapshotVars, transformVars>>

(* Each part is typed. *)
TypeOK ==
  /\ part = "snapshots" => SnapshotTypeOK
  /\ part = "transforms" => TransformTypeOK

Spec == Init /\ [][Next /\ UNCHANGED part]_<<snapshotVars, transformVars, retentionVars, part>>
=============================================================================
