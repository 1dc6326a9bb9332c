---------------------- MODULE ScrobbleQueueRefinement ----------------------
(* ScrobbleQueue implements ScrobblePromise: a Play's stage is read off its  *)
(* rows, and the service has taken it as often as it accepted a submission.  *)
EXTENDS ScrobbleQueue

\* the stages a Play's own state tells
Told == [absent |-> "none", scrobbled |-> "delivered", duped |-> "skipped"]

StageOf(p) == IF play[p] \in DOMAIN Told  THEN Told[play[p]]
              ELSE IF ingress[p] = "queued" THEN "waiting"
              ELSE IF HasRow(p, Unresolved) THEN "parked"
              ELSE "dropped"

Stages == [p \in Play |-> StageOf(p)]

Promise == INSTANCE ScrobblePromise WITH stage <- Stages, taken <- sent

(* The two queues, the loop and the retries keep the Client's promise: every *)
(* step is a step of the promise or invisible to it.  In particular a Play   *)
(* is handed from one queue to the other without being in neither, its       *)
(* outcome is final, and it is submitted once, and only while it is pending. *)
KeepsPromise == Promise!Spec
=============================================================================
