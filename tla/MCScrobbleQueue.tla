--------------------------- MODULE MCScrobbleQueue ---------------------------
(* Small instances of ScrobbleQueue for TLC. *)
EXTENDS ScrobbleQueueRefinement

NoRepeats == {}
OneRepeat == {<<"l1", "l2">>}    \* l2 is l1's track, played again right after

(* Bound: a Play that a crash left in both queues may be found a dupe again  *)
(* and again; each time deadLetterLength falls by one.                       *)
CountIsNotFarBelow == deadLetterLength >= -1
=============================================================================
