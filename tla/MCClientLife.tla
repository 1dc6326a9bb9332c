---------------------------- MODULE MCClientLife ----------------------------
(***************************************************************************)
(* What a Client does beside its queues: who starts and stops its loop,    *)
(* which of its service's history it compares with, and how it keeps that  *)
(* history itself when the service cannot be searched.  Each is triggered  *)
(* by what the others take as given, so a behaviour is one of one of them. *)
(***************************************************************************)
EXTENDS ScrobbleLoop, HistoricalStore, HistoryRanges

VARIABLE part

(* Two Plays of one listen, and a second listen to a recording whose id is *)
(* that of the first.                                                      *)
MCListenOf == [p1 |-> "a1", p2 |-> "a1", p3 |-> "a2"]
MCIdOf == [p1 |-> -1, p2 |-> NoId, p3 |-> -1]

(* The parts that are not looked at stay as they begin in some way.  It is *)
(* with Koito that two activities disturb each other's requests.           *)
LifeInit ==
  /\ Init /\ StoreInit /\ HistoryInit
  /\ part \in {"loop", "store", "history"}
  /\ part # "store" => adds
  /\ part # "history" => kind = "koito"
  /\ takes = IF kind = "koito" THEN MaxCompares ELSE 1

LifeNext ==
  \/ part = "loop" /\ Next /\ UNCHANGED <<storeVars, historyVars>>
  \/ part = "store" /\ StoreNext /\ UNCHANGED <<vars, historyVars>>
  \/ part = "history" /\ HistoryNext /\ UNCHANGED <<vars, storeVars>>

LifeSpec == LifeInit /\ [][LifeNext /\ UNCHANGED part]_<<vars, storeVars, historyVars, part>>
=============================================================================
