------------------------------ MODULE MCClient ------------------------------
EXTENDS NowPlaying

(* A Source that is told, and one that is polled and has two players. *)
MCDevice == {<<1, 1>>, <<2, 1>>, <<2, 2>>}

Busy(told, first, second) ==
  [d \in MCDevice |-> CASE d = <<1, 1>> -> told
                        [] d = <<2, 1>> -> first
                        [] OTHER -> second]

(* One track is so short that it may be repeated before the minimum is over. *)
MCMaxThreshold == [t \in Tune |-> IF t = CHOOSE short \in Tune : TRUE THEN 0 ELSE 1]

(* No priority list, or one that names the second Source only. *)
MCSetup ==
  { [priority |-> <<>>,  changes |-> Busy(2, 1, 0)],
    [priority |-> <<>>,  changes |-> Busy(0, 3, 0)],
    [priority |-> <<2>>, changes |-> Busy(1, 1, 1)] }
=============================================================================
