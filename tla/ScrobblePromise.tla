--------------------------- MODULE ScrobblePromise ---------------------------
(***************************************************************************)
(* What a Client promises of every Play it takes from a Source, with no    *)
(* queue in sight: the Play waits, may be parked after a failure, and ends *)
(* delivered, skipped as a dupe, or dropped; the service takes it at most  *)
(* once, and it is delivered only after the service took it.               *)
(***************************************************************************)
CONSTANT Play

VARIABLES stage, taken

Stage == {"none", "waiting", "parked", "delivered", "skipped", "dropped"}

Init == /\ stage = [p \in Play |-> "none"]
        /\ taken = [p \in Play |-> 0]

Move(p, from, to) == /\ stage[p] \in from
                     /\ stage' = [stage EXCEPT ![p] = to]
                     /\ UNCHANGED taken

Pending == {"waiting", "parked"}

Take(p)    == Move(p, {"none"}, "waiting")
Park(p)    == Move(p, {"waiting"}, "parked")
Skip(p)    == Move(p, Pending, "skipped")
Drop(p)    == Move(p, Pending, "dropped")
Deliver(p) == taken[p] = 1 /\ Move(p, Pending, "delivered")

\* the service takes the submission of a Play that is still pending
Submit(p)  == /\ stage[p] \in Pending
              /\ taken[p] = 0
              /\ taken' = [taken EXCEPT ![p] = 1]
              /\ UNCHANGED stage

Next == \E p \in Play : \/ Take(p) \/ Park(p) \/ Skip(p) \/ Drop(p)
                        \/ Deliver(p) \/ Submit(p)

Spec == Init /\ [][Next]_<<stage, taken>>
=============================================================================
