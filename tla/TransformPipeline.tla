-------------------------- MODULE TransformPipeline --------------------------
(***************************************************************************)
(* How a component transforms a Play, and what it remembers of it.         *)
(*                                                                         *)
(* A hook is a list of stages, each of which may replace data of the Play, *)
(* be skipped, or fail, and says whether to go on or to stop then.  Two    *)
(* caches save work: one has what a stage's service answered for given     *)
(* data, for seconds, the other the steps a hook made of a Play, for       *)
(* minutes.  They are shared by all components and hooks.                  *)
(*                                                                         *)
(* All transformations are of Plays of one content.  What stages do to it  *)
(* is the set of the stages whose result it has.                           *)
(***************************************************************************)
EXTENDS Naturals, FiniteSets, SequencesExt

CONSTANTS
  Hook,       \* the hooks of all components
  Name,       \* names of stages
  Config,     \* possible configurations: the stages of each hook
  MaxRuns     \* bound: transformations

Flow == {"continue", "stop"}

(* A stage has a name, is a `user` stage or a lookup, and needs the results *)
(* of the stages in needs for its `when` to hold.                          *)
StageConfig == [name : Name, kind : {"user", "lookup"}, needs : SUBSET Name,
                onSuccess : Flow, onFailure : Flow, onSkip : Flow, partial : BOOLEAN]

(* The answer of a stage is remembered under a hash of all its options, so *)
(* a name stands for all of them.                                          *)
ASSUME TransformAssumption ==
  /\ MaxRuns \in Nat
  /\ Config \subseteq [Hook -> Seq(StageConfig) \ {<<>>}]
  /\ \A c \in Config, g, h \in Hook : \A i \in DOMAIN c[g], j \in DOMAIN c[h] :
       c[g][i].name = c[h][j].name => c[g][i] = c[h][j]

VARIABLES
  hooks,      \* the configuration
  answers,    \* cache of stages: what is known for a stage and content
  remembered, \* cache of steps, of each hook
  kept,       \* the lifecycle of the Play that waits to be tried again
  run,        \* the transformation under way
  runs,       \* how many more the bound allows
  result,     \* what the last transformation returned
  made        \* ghost: of each hook, what its stages did when they last ran

transformVars == <<hooks, answers, remembered, kept, run, runs, result, made>>

Content == SUBSET Name

Outcome == {"ok", "skip", "prereq", "error"}

(* A step of the lifecycle.  known is flowKnownState. *)
NoStep == [stop |-> FALSE, error |-> FALSE, known |-> "no", partial |-> FALSE, patch |-> {}]

Idle == [hook |-> "none", waiting |-> FALSE, data |-> {}, steps |-> <<>>,
         outcomes |-> <<>>, clean |-> TRUE, over |-> FALSE]

TransformInit ==
  /\ hooks \in Config
  /\ answers = [key \in Name \X Content |-> "none"]
  /\ remembered = [h \in Hook |-> <<>>]
  /\ kept = [h \in Hook |-> <<>>]
  /\ run = Idle /\ runs = MaxRuns
  /\ result = [data |-> {}, hook |-> "none", cached |-> FALSE]
  /\ made = [h \in Hook |-> [outcomes |-> <<>>, clean |-> TRUE]]

-----------------------------------------------------------------------------
(* Steps made before are put on the Play again, unless the last of them is *)
(* an error that was not skipped over and keeps no part.                   *)
Replayed(steps) ==
  LET end == Last(steps)
  IN IF end.error /\ end.known # "skip" /\ ~end.partial THEN {}
     ELSE UNION { steps[i].patch : i \in DOMAIN steps }

Replay(h) ==
  /\ remembered[h] # <<>>
  /\ result' = [data |-> Replayed(remembered[h]), hook |-> h, cached |-> TRUE]
  /\ UNCHANGED <<run, made>>

Generate(h, waiting) ==
  /\ remembered[h] = <<>>
  /\ run' = [Idle EXCEPT !.hook = h, !.waiting = waiting, !.clean = ~waiting]
  /\ UNCHANGED <<result, made>>

(* transformPlay of a Play that is new, or of the one that waits. *)
Transform(h, waiting) ==
  /\ run = Idle /\ runs > 0 /\ (waiting => kept[h] # <<>>)
  /\ runs' = runs - 1
  /\ Replay(h) \/ Generate(h, waiting)
  /\ UNCHANGED <<hooks, answers, remembered, kept>>

-----------------------------------------------------------------------------
(* One stage.  Its answer is looked up before `when` is tested.  A stage   *)
(* that is skipped, and one whose answer is not good enough, remembers the *)
(* Play itself as its answer: the next time a lookup replaces data by what *)
(* it already is, and a `user` stage, which needs no answer, replaces it   *)
(* as if it were not to be skipped.                                        *)

Stage == hooks[run.hook][Len(run.steps) + 1]
Known(s) == answers[<<s.name, run.data>>]

(* What the step has if the Play already has one of this stage. *)
OldStep ==
  LET i == Len(run.steps) + 1
      old == kept[run.hook]
  IN IF run.waiting /\ i \in DOMAIN old THEN old[i] ELSE NoStep

Succeeds(s, data) ==
  [OldStep EXCEPT !.stop = (s.onSuccess = "stop"),
                  !.patch = IF data = run.data THEN @ ELSE data \ run.data]

GoesWrong(s, outcome) ==
  IF outcome = "skip"
  THEN [OldStep EXCEPT !.stop = (s.onSkip = "stop"), !.error = TRUE, !.known = "skip"]
  ELSE [OldStep EXCEPT !.stop = (s.onFailure = "stop"), !.error = TRUE,
                       !.known = IF outcome = "prereq" THEN "prereq" ELSE @,
                       !.partial = @ \/ (s.onFailure = "stop" /\ s.partial)]

Steps(step, data, outcome, own) ==
  run' = [run EXCEPT !.steps = Append(@, step), !.data = data,
                     !.outcomes = Append(@, outcome), !.clean = @ /\ own,
                     !.over = step.stop \/ Len(run.steps) + 1 = Len(hooks[run.hook])]

Remembers(s, answer) == answers' = [answers EXCEPT ![<<s.name, run.data>>] = answer]

Running == run # Idle /\ ~run.over

(* The stage's answer is in the cache. *)
StageHit ==
  /\ Running /\ Known(Stage) # "none"
  /\ LET s == Stage
         data == IF Known(s) = "play" /\ s.kind = "lookup" THEN run.data
                 ELSE run.data \cup {s.name}
     IN Steps(Succeeds(s, data), data, "ok", Known(s) # "play")
  /\ UNCHANGED answers

(* Mutant: `when` is not tested. *)
WhenIgnored(s) == TRUE

WhenMet(s) == s.needs \subseteq run.data

(* It is not.  Only a lookup may find nothing or fail. *)
StageRuns(outcome) ==
  LET s == Stage
  IN /\ Running /\ Known(s) = "none"
     /\ outcome \in IF ~WhenMet(s) THEN {"skip"}
                    ELSE IF s.kind = "user" THEN {"ok"} ELSE Outcome
     /\ IF outcome = "ok"
        THEN Steps(Succeeds(s, run.data \cup {s.name}), run.data \cup {s.name}, "ok", TRUE)
        ELSE Steps(GoesWrong(s, outcome), run.data, outcome, TRUE)
     /\ IF outcome \in {"skip", "prereq"} THEN Remembers(s, "play")
        ELSE IF outcome = "ok" /\ s.kind = "lookup" THEN Remembers(s, "answer")
        ELSE UNCHANGED answers

RunStage ==
  /\ StageHit \/ \E outcome \in Outcome : StageRuns(outcome)
  /\ UNCHANGED <<hooks, remembered, kept, runs, result, made>>

(* The last stage decides whether the steps may be remembered. *)
CacheOk(steps) == ~Last(steps).error \/ Last(steps).known # "no"

(* A Play whose transformation fails is returned as it was, with the steps. *)
(* When it cannot be scrobbled after that it waits with them.              *)
Finish ==
  LET end == Last(run.steps)
      reverted == end.stop /\ end.error /\ end.known # "skip" /\ ~end.partial
  IN /\ run.over
     /\ result' = [data |-> IF reverted THEN {} ELSE run.data, hook |-> run.hook, cached |-> FALSE]
     /\ remembered' = IF CacheOk(run.steps) THEN [remembered EXCEPT ![run.hook] = run.steps] ELSE remembered
     /\ kept' \in {kept} \cup IF reverted THEN {[kept EXCEPT ![run.hook] = run.steps]} ELSE {}
     /\ made' = [made EXCEPT ![run.hook] = [outcomes |-> run.outcomes, clean |-> run.clean]]
     /\ run' = Idle
     /\ UNCHANGED <<hooks, answers, runs>>

-----------------------------------------------------------------------------
(* Time passes, or the cache is cleared. *)
AnswersExpire ==
  /\ answers' = [key \in DOMAIN answers |-> "none"] /\ answers' # answers
  /\ UNCHANGED <<hooks, remembered, kept, run, runs, result, made>>

StepsExpire(h) ==
  /\ remembered[h] # <<>>
  /\ remembered' = [remembered EXCEPT ![h] = <<>>]
  /\ UNCHANGED <<hooks, answers, kept, run, runs, result, made>>

TransformNext ==
  \/ \E h \in Hook, waiting \in BOOLEAN : Transform(h, waiting)
  \/ RunStage
  \/ Finish
  \/ AnswersExpire
  \/ \E h \in Hook : StepsExpire(h)

TransformSpec == TransformInit /\ [][TransformNext]_transformVars

-----------------------------------------------------------------------------
TransformTypeOK ==
  /\ answers \in [Name \X Content -> {"none", "answer", "play"}]
  /\ run.data \in Content /\ result.data \in Content /\ runs \in 0..MaxRuns
  /\ \A h \in Hook : Len(remembered[h]) <= Len(hooks[h])

(* What the documentation says the stages of a hook make of a Play: every  *)
(* result there is, or nothing when the last of them failed, stops then,   *)
(* and is not set to keep what was done so far.                            *)
Fails(s, outcome) == outcome \in {"prereq", "error"} /\ s.onFailure = "stop" /\ ~s.partial

AsConfigured(stages, outcomes) ==
  LET n == Len(outcomes)
  IN IF Fails(stages[n], outcomes[n]) THEN {}
     ELSE { stages[i].name : i \in { j \in 1..n : outcomes[j] = "ok" } }

(* A Play that is transformed for the first time gets what the stages ask  *)
(* for, and so do the Plays that get the same steps from the cache, unless *)
(* the last stage found nothing and was to continue then: the cache takes  *)
(* that for a failure of all.                                              *)
TransformsAsConfigured ==
  LET h == result.hook
      end == Last(made[h].outcomes)
  IN h # "none" /\ made[h].clean =>
       \/ result.data = AsConfigured(hooks[h], made[h].outcomes)
       \/ result.cached /\ end = "prereq" /\ hooks[h][Len(made[h].outcomes)].onFailure = "continue"

(* No Play has the result of a stage whose `when` it does not meet, unless *)
(* a stage's answer was the Play itself.                                   *)
WhenIsHonoured ==
  LET h == result.hook
  IN h # "none" /\ made[h].clean =>
       \A i \in DOMAIN hooks[h] :
         hooks[h][i].name \in result.data => hooks[h][i].needs \subseteq result.data

(* A failure that has no known reason, such as an outage of the service,   *)
(* that ends a transformation is not remembered: the next one asks again.  *)
(* One of an earlier stage that is to continue may be.                     *)
OutagesAreNotRemembered ==
  \A h \in Hook : remembered[h] # <<>> /\ made[h].clean => Last(made[h].outcomes) # "error"

(* A hook does what its configuration says, on the first transformation,   *)
(* unless a cached answer was the Play itself: of a stage that was skipped *)
(* (its `when` is not asked again) or that found nothing.                  *)
TransformsAreSound == TransformsAsConfigured /\ WhenIsHonoured /\ OutagesAreNotRemembered
=============================================================================
