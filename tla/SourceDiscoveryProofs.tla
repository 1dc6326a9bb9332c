----------------------- MODULE SourceDiscoveryProofs -----------------------
(* What holds of the discovery of Plays and of their hand-over, for every    *)
(* number of listens, Clients and hand-overs at a time and every set of      *)
(* faults.                                                                   *)
EXTENDS SourceDiscovery, TLAPS, FiniteSetTheorems

-----------------------------------------------------------------------------
(* What each step makes of the activities *)

Acting == [at: Stage, todo: SUBSET Listen, cur: {0} \cup Listen,
           list: SUBSET Listen, shares: BOOLEAN,
           state: PlayState, found: SUBSET Listen, client: Client]

\* an activity that does nothing has found nothing; one that is at a Play has
\* one; and a hand-over is at one of those it was given
Working == {"caching", "comparing", "begin", "inserting", "recording"}

ActInv ==
  /\ \A a \in Activity : ~Active(a) => act[a].found = {}
  /\ \A a \in Activity : act[a].at \in Working => act[a].cur \in Listen
  /\ \A b \in Batch :
       /\ act[b].at \in {"idle", "next", "begin", "inserting", "recording"}
       /\ act[b].todo \subseteq act[b].found
       /\ Active(b) => act[b].todo # {}
       /\ act[b].at \in {"begin", "inserting", "recording"} => act[b].cur \in act[b].todo

\* the others are left alone ...
Alone(a) == \A e \in Activity \ {a} : act'[e] = act[e]

\* ... but for what they compare with
Alike(e) ==
  /\ act'[e].at = act[e].at /\ act'[e].todo = act[e].todo /\ act'[e].cur = act[e].cur
  /\ act'[e].state = act[e].state /\ act'[e].found = act[e].found
  /\ act'[e].client = act[e].client

\* activity a keeps what it has found and is about to do
Keeps(a) ==
  /\ act'[a].found = act[a].found /\ act'[a].client = act[a].client

LEMMA Kinds ==
  /\ Discoverer \subseteq Activity /\ Batch \subseteq Activity
  /\ \A d \in Discoverer : d \notin Batch
  /\ None \notin Activity
BY DiscoveryAssumption DEF Activity, Discoverer, None

LEMMA Numbers ==
  /\ Client \subseteq Nat /\ Listen \subseteq Nat /\ 0 \notin Listen
  /\ 1 \in Client /\ Clients \in Client
  /\ \A c \in Client : c < Clients => c + 1 \in Client
BY DiscoveryAssumption DEF Client, Listen

LEMMA IdleIs == Idle \in Acting
BY Numbers DEF Idle, Acting, Stage, PlayState

LEMMA ActIs ==
  ASSUME TypeOK
  PROVE  act \in [Activity -> Acting]
BY DEF TypeOK, Acting

LEMMA FetchIs ==
  ASSUME TypeOK, NEW d \in Discoverer, Fetch(d)
  PROVE  /\ act' \in [Activity -> Acting] /\ Alone(d) /\ act[d].at = "idle"
         /\ act'[d].at = "next" /\ act'[d].found = {} /\ act'[d].todo = heard
<1>1. act' = [act EXCEPT ![d] = [Idle EXCEPT !.at = "next", !.todo = heard]]
  BY DEF Fetch
<1>2. [Idle EXCEPT !.at = "next", !.todo = heard] \in Acting
  BY IdleIs DEF Acting, Stage, TypeOK
<1>3. [Idle EXCEPT !.at = "next", !.todo = heard].at = "next"
      /\ [Idle EXCEPT !.at = "next", !.todo = heard].found = {}
      /\ [Idle EXCEPT !.at = "next", !.todo = heard].todo = heard
  BY DEF Idle
<1>4. QED
  BY <1>1, <1>2, <1>3, ActIs, Kinds DEF Alone, Fetch, Active

LEMMA ReadIs ==
  ASSUME TypeOK, NEW d \in Discoverer, ReadCached(d) \/ ReadStored(d)
  PROVE  /\ act' \in [Activity -> Acting] /\ Alone(d) /\ act[d].at = "next"
         /\ Keeps(d) /\ act'[d].cur \in Listen
         /\ \/ /\ cache # NotCached /\ act'[d].at = "comparing"
               /\ act'[d].list = cache \cap {act'[d].cur}
            \/ /\ cache = NotCached /\ act'[d].at = "caching"
               /\ act'[d].list = Stored(db)
<1>1. act[d] \in Acting /\ d \in Activity /\ act \in [Activity -> Acting]
  BY ActIs, Kinds
<1>2. CASE ReadCached(d)
  <2>1. PICK l \in Latest(d) :
          act' = [act EXCEPT ![d].at = "comparing", ![d].cur = l,
                             ![d].list = cache \cap {l}, ![d].shares = l \notin cache]
    BY <1>2 DEF ReadCached
  <2> DEFINE r == [act[d] EXCEPT !.at = "comparing", !.cur = l,
                             !.list = cache \cap {l}, !.shares = l \notin cache]
  <2>2. act' = [act EXCEPT ![d] = r]
    BY <1>1, <2>1
  <2>3. l \in Listen
    BY <1>1 DEF Latest, Acting
  <2>4. /\ r \in Acting /\ r.at = "comparing" /\ r.cur = l /\ r.list = cache \cap {l}
        /\ r.found = act[d].found /\ r.client = act[d].client
    BY <1>1, <2>3 DEF Acting, Stage
  <2>5. QED
    BY <1>1, <1>2, <2>2, <2>3, <2>4 DEF ReadCached, Alone, Keeps
<1>3. CASE ReadStored(d)
  <2>1. PICK l \in Latest(d) :
          act' = [act EXCEPT ![d].at = "caching", ![d].cur = l, ![d].list = Stored(db)]
    BY <1>3 DEF ReadStored
  <2> DEFINE r == [act[d] EXCEPT !.at = "caching", !.cur = l, !.list = Stored(db)]
  <2>2. act' = [act EXCEPT ![d] = r]
    BY <1>1, <2>1
  <2>3. l \in Listen
    BY <1>1 DEF Latest, Acting
  <2>4. /\ r \in Acting /\ r.at = "caching" /\ r.cur = l /\ r.list = Stored(db)
        /\ r.found = act[d].found /\ r.client = act[d].client
    BY <1>1, <2>3 DEF Acting, Stage, Stored
  <2>5. QED
    BY <1>1, <1>3, <2>2, <2>3, <2>4 DEF ReadStored, Alone, Keeps
<1>4. QED
  BY <1>2, <1>3

\* the others, but for what they compare with
AlikeAll(a) == \A e \in Activity \ {a} : Alike(e)

LEMMA UnsharedIs ==
  ASSUME NEW acts \in [Activity -> Acting]
  PROVE  /\ Unshared(acts) \in [Activity -> Acting]
         /\ \A e \in Activity :
              /\ Unshared(acts)[e].at = acts[e].at /\ Unshared(acts)[e].todo = acts[e].todo
              /\ Unshared(acts)[e].cur = acts[e].cur /\ Unshared(acts)[e].list = acts[e].list
              /\ Unshared(acts)[e].state = acts[e].state
              /\ Unshared(acts)[e].found = acts[e].found
              /\ Unshared(acts)[e].client = acts[e].client
<1>1. Unshared(acts) = [a \in Activity |-> [acts[a] EXCEPT !.shares = FALSE]]
  BY DEF Unshared
<1>2. ASSUME NEW e \in Activity
      PROVE  /\ [acts[e] EXCEPT !.shares = FALSE] \in Acting
             /\ [acts[e] EXCEPT !.shares = FALSE].at = acts[e].at
             /\ [acts[e] EXCEPT !.shares = FALSE].todo = acts[e].todo
             /\ [acts[e] EXCEPT !.shares = FALSE].cur = acts[e].cur
             /\ [acts[e] EXCEPT !.shares = FALSE].list = acts[e].list
             /\ [acts[e] EXCEPT !.shares = FALSE].state = acts[e].state
             /\ [acts[e] EXCEPT !.shares = FALSE].found = acts[e].found
             /\ [acts[e] EXCEPT !.shares = FALSE].client = acts[e].client
  <2>1. acts[e] \in Acting
    OBVIOUS
  <2>2. QED
    BY <2>1 DEF Acting
<1>3. QED
  BY <1>1, <1>2

LEMMA PutInCacheIs ==
  ASSUME TypeOK, NEW d \in Discoverer, PutInCache(d)
  PROVE  /\ act' \in [Activity -> Acting] /\ AlikeAll(d) /\ act[d].at = "caching"
         /\ Keeps(d) /\ act'[d].at = "comparing" /\ act'[d].cur = act[d].cur
         /\ act'[d].list = act[d].list \cap {act[d].cur} /\ cache' = act[d].list
         /\ cache' \subseteq Listen
<1> DEFINE r == [act[d] EXCEPT !.at = "comparing", !.list = @ \cap {act[d].cur}]
           acts == [act EXCEPT ![d] = r]
<1>1. act[d] \in Acting /\ d \in Activity /\ act \in [Activity -> Acting]
  BY ActIs, Kinds
<1>2. act' = Unshared(acts)
  BY <1>1 DEF PutInCache
<1>3. /\ r \in Acting /\ r.at = "comparing" /\ r.cur = act[d].cur
      /\ r.list = act[d].list \cap {act[d].cur}
      /\ r.found = act[d].found /\ r.client = act[d].client
  BY <1>1 DEF Acting, Stage
<1> HIDE DEF r
<1>4. acts \in [Activity -> Acting] /\ acts[d] = r /\ \A e \in Activity \ {d} : acts[e] = act[e]
  BY <1>1, <1>3
<1> HIDE DEF acts
<1>5. act[d].list \subseteq Listen
  BY <1>1 DEF Acting
<1>6. act[d].at = "caching" /\ cache' = act[d].list
  BY DEF PutInCache
<1>7. act'[d].at = r.at /\ act'[d].cur = r.cur /\ act'[d].list = r.list
      /\ act'[d].found = r.found /\ act'[d].client = r.client
  BY <1>1, <1>2, <1>4, UnsharedIs
<1>8. act' \in [Activity -> Acting] /\ AlikeAll(d)
  BY <1>2, <1>4, UnsharedIs DEF AlikeAll, Alike
<1>9. QED
  BY <1>3, <1>5, <1>6, <1>7, <1>8 DEF Keeps

LEMMA NextPlayIs ==
  ASSUME TypeOK, NEW d \in Discoverer
  PROVE  /\ NextPlay(d) \in Acting /\ NextPlay(d).at = "next"
         /\ NextPlay(d).found = act[d].found /\ NextPlay(d).client = act[d].client
<1>1. act[d] \in Acting
  BY ActIs, Kinds
<1>2. QED
  BY <1>1 DEF NextPlay, Acting, Stage, PlayState

LEMMA KnownIs ==
  ASSUME TypeOK, NEW d \in Discoverer, Known(d)
  PROVE  /\ act' \in [Activity -> Acting] /\ Alone(d) /\ act[d].at = "comparing"
         /\ Keeps(d) /\ act'[d].at = "next"
BY ActIs, Kinds, NextPlayIs DEF Known, Alone, Keeps

LEMMA NewIs ==
  ASSUME TypeOK, NEW d \in Discoverer, New(d)
  PROVE  /\ act' \in [Activity -> Acting] /\ Alone(d) /\ act[d].at = "comparing"
         /\ act[d].cur \notin act[d].list
         /\ Keeps(d) /\ act'[d].at = "begin" /\ act'[d].cur = act[d].cur
<1> DEFINE r == [act[d] EXCEPT !.at = "begin", !.list = {}, !.shares = FALSE,
                   !.state = IF monitoring THEN "discovered" ELSE "discarded"]
<1>1. act[d] \in Acting /\ d \in Activity /\ act \in [Activity -> Acting]
  BY ActIs, Kinds
<1>2. act' = [act EXCEPT ![d] = r]
  BY <1>1 DEF New
<1>3. /\ r \in Acting /\ r.at = "begin" /\ r.cur = act[d].cur
      /\ r.found = act[d].found /\ r.client = act[d].client
  BY <1>1 DEF Acting, Stage, PlayState
<1> HIDE DEF r
<1>4. act[d].at = "comparing" /\ act[d].cur \notin act[d].list
  BY DEF New
<1>5. QED
  BY <1>1, <1>2, <1>3, <1>4 DEF Alone, Keeps

LEMMA StopIs ==
  ASSUME TypeOK, NEW d \in Discoverer, Stop(d)
  PROVE  /\ act' \in [Activity -> Acting] /\ Alone(d) /\ aborted
         /\ act[d].at \in {"next", "comparing", "forwarding"} /\ act'[d] = Idle
BY ActIs, Kinds, IdleIs DEF Stop, Alone

LEMMA PushIs ==
  ASSUME TypeOK, ActInv, NEW d \in Discoverer, Push(d)
  PROVE  /\ act' \in [Activity -> Acting] /\ AlikeAll(d) /\ act[d].at = "recording"
         /\ act'[d].at = "next" /\ act'[d].client = act[d].client
         /\ act'[d].found = IF Joins(d) THEN act[d].found \cup {act[d].cur} ELSE act[d].found
         /\ cache' = IF cache = NotCached THEN cache ELSE cache \cup {act[d].cur}
<1> DEFINE l == act[d].cur
           r == [NextPlay(d) EXCEPT !.found = IF Joins(d) THEN @ \cup {l} ELSE @]
           after == [act EXCEPT ![d] = r]
<1>1. act[d] \in Acting /\ d \in Activity /\ act \in [Activity -> Acting]
  BY ActIs, Kinds
<1>2. \/ /\ cache = NotCached /\ act' = after /\ cache' = cache
      \/ /\ cache # NotCached /\ cache' = cache \cup {l}
         /\ \E seen \in SUBSET (Discoverer \ {d}) : act' = Pushed(after, l, seen)
  BY <1>1 DEF Push, Remembered
<1>3. l \in Listen
  BY <1>1 DEF Push, ActInv, Working
<1>4. /\ r \in Acting /\ r.at = "next" /\ r.client = act[d].client
      /\ r.found = IF Joins(d) THEN act[d].found \cup {l} ELSE act[d].found
  BY <1>1, <1>3, NextPlayIs DEF Acting
<1> HIDE DEF r, l
<1>5. after \in [Activity -> Acting] /\ after[d] = r
      /\ \A e \in Activity \ {d} : after[e] = act[e]
  BY <1>1, <1>4
<1> HIDE DEF after
<1>6. ASSUME NEW seen \in SUBSET (Discoverer \ {d}), act' = Pushed(after, l, seen)
      PROVE  act' \in [Activity -> Acting] /\ AlikeAll(d) /\ act'[d].at = r.at
             /\ act'[d].client = r.client /\ act'[d].found = r.found
  <2> DEFINE some == [a \in Activity |->
                        IF after[a].shares /\ after[a].cur = l /\ a \in seen
                        THEN [after[a] EXCEPT !.list = {l}] ELSE after[a]]
  <2>1. ASSUME NEW e \in Activity
        PROVE  /\ some[e] \in Acting
               /\ some[e].at = after[e].at /\ some[e].todo = after[e].todo
               /\ some[e].cur = after[e].cur /\ some[e].state = after[e].state
               /\ some[e].found = after[e].found /\ some[e].client = after[e].client
    <3>1. after[e] \in Acting
      BY <1>5
    <3>2. /\ [after[e] EXCEPT !.list = {l}] \in Acting
          /\ [after[e] EXCEPT !.list = {l}].at = after[e].at
          /\ [after[e] EXCEPT !.list = {l}].todo = after[e].todo
          /\ [after[e] EXCEPT !.list = {l}].cur = after[e].cur
          /\ [after[e] EXCEPT !.list = {l}].state = after[e].state
          /\ [after[e] EXCEPT !.list = {l}].found = after[e].found
          /\ [after[e] EXCEPT !.list = {l}].client = after[e].client
      BY <1>3, <3>1 DEF Acting
    <3>3. some[e] = after[e] \/ some[e] = [after[e] EXCEPT !.list = {l}]
      OBVIOUS
    <3>4. QED
      BY <3>1, <3>2, <3>3
  <2>2. act' = Unshared(some)
    BY <1>6 DEF Pushed
  <2>3. some \in [Activity -> Acting]
    BY <2>1
  <2> HIDE DEF some
  <2>4. QED
    BY <1>1, <1>5, <2>1, <2>2, <2>3, UnsharedIs DEF AlikeAll, Alike
<1>7. act' = after => act' \in [Activity -> Acting] /\ AlikeAll(d) /\ act'[d] = r
  BY <1>5 DEF AlikeAll, Alike
<1>8. QED
  BY <1>2, <1>4, <1>6, <1>7 DEF Push, l

LEMMA ForwardIs ==
  ASSUME TypeOK, NEW d \in Discoverer, Forward(d)
  PROVE  /\ act' \in [Activity -> Acting] /\ act[d].at = "next" /\ act'[d] = Idle
         /\ \/ act[d].found = {} /\ Alone(d)
            \/ \E b \in Batch :
                 /\ act[d].found # {} /\ ~Active(b)
                 /\ \A e \in Activity \ {d, b} : act'[e] = act[e]
                 /\ act'[b].at = "next" /\ act'[b].client = 1
                 /\ act'[b].todo = act[d].found /\ act'[b].found = act[d].found
<1>1. act[d] \in Acting /\ d \in Activity /\ act \in [Activity -> Acting]
  BY ActIs, Kinds
<1>2. CASE act[d].found = {} /\ act' = [act EXCEPT ![d] = Idle]
  BY <1>1, <1>2, IdleIs DEF Forward, Alone
<1>3. ASSUME NEW b \in Batch, act[d].found # {}, ~Active(b),
             act' = [act EXCEPT ![d] = Idle,
                       ![b] = [Idle EXCEPT !.at = "next", !.todo = act[d].found,
                                           !.found = act[d].found]]
      PROVE  /\ act' \in [Activity -> Acting] /\ act'[d] = Idle
             /\ \A e \in Activity \ {d, b} : act'[e] = act[e]
             /\ act'[b].at = "next" /\ act'[b].client = 1
             /\ act'[b].todo = act[d].found /\ act'[b].found = act[d].found
  <2> DEFINE r == [Idle EXCEPT !.at = "next", !.todo = act[d].found, !.found = act[d].found]
  <2>1. /\ r \in Acting /\ r.at = "next" /\ r.client = 1
        /\ r.todo = act[d].found /\ r.found = act[d].found
    BY <1>1, Numbers DEF Idle, Acting, Stage, PlayState
  <2>2. act' = [[act EXCEPT ![d] = Idle] EXCEPT ![b] = r]
    BY <1>3
  <2> HIDE DEF r
  <2>3. QED
    BY <1>1, <2>1, <2>2, IdleIs, Kinds
<1>4. QED
  BY <1>2, <1>3 DEF Forward

(* The hand-over b is through with Play l for a Client.                      *)
Advances(b, l) ==
  \/ /\ act[b].todo \ {l} # {} /\ act'[b].at = "next"
     /\ act'[b].todo = act[b].todo \ {l}
     /\ act'[b].found = act[b].found /\ act'[b].client = act[b].client
  \/ /\ act[b].todo \ {l} = {} /\ act[b].client < Clients /\ act'[b].at = "next"
     /\ act'[b].todo = act[b].found
     /\ act'[b].found = act[b].found /\ act'[b].client = act[b].client + 1
  \/ /\ act[b].todo \ {l} = {} /\ act[b].client = Clients /\ act'[b] = Idle

LEMMA AdvancesBy ==
  ASSUME TypeOK, NEW b \in Batch, NEW l, act' = [act EXCEPT ![b] = AfterPlay(b, l)]
  PROVE  act' \in [Activity -> Acting] /\ Alone(b) /\ Advances(b, l)
<1> DEFINE rest == act[b].todo \ {l}
           goOn == [act[b] EXCEPT !.at = "next", !.cur = 0, !.todo = rest]
           more == [goOn EXCEPT !.todo = act[b].found, !.client = @ + 1]
<1>1. act[b] \in Acting /\ b \in Activity /\ act \in [Activity -> Acting]
  BY ActIs, Kinds
<1>2. /\ goOn \in Acting /\ goOn.at = "next" /\ goOn.todo = rest
      /\ goOn.found = act[b].found /\ goOn.client = act[b].client
  BY <1>1 DEF Acting, Stage
<1>3. /\ act[b].found \subseteq Listen /\ act[b].client \in Client
      /\ act[b].client \in Nat /\ Clients \in Nat
      /\ act[b].client < Clients => act[b].client + 1 \in Client
      /\ act[b].client <= Clients
  BY <1>1, Numbers, DiscoveryAssumption DEF Acting, Client
<1>4. AfterPlay(b, l) = IF rest # {} THEN goOn
                        ELSE IF act[b].client < Clients THEN more ELSE Idle
  BY DEF AfterPlay
<1> HIDE DEF goOn
<1>5. act[b].client < Clients =>
        /\ more \in Acting /\ more.at = "next" /\ more.todo = act[b].found
        /\ more.found = act[b].found /\ more.client = act[b].client + 1
  BY <1>2, <1>3 DEF Acting
<1> HIDE DEF more
<1>6. Alone(b) /\ act'[b] = AfterPlay(b, l)
  BY <1>1 DEF Alone
<1>7. CASE rest # {}
  BY <1>1, <1>2, <1>4, <1>6, <1>7 DEF Advances
<1>8. CASE rest = {} /\ act[b].client < Clients
  BY <1>1, <1>4, <1>5, <1>6, <1>8 DEF Advances
<1>9. CASE rest = {} /\ ~(act[b].client < Clients)
  <2>1. act'[b] = Idle /\ act[b].client = Clients
    BY <1>3, <1>4, <1>6, <1>9
  <2>2. QED
    BY <1>1, <1>4, <1>6, <1>9, <2>1, IdleIs DEF Advances
<1>10. QED
  BY <1>7, <1>8, <1>9

LEMMA CheckIs ==
  ASSUME TypeOK, NEW b \in Batch, Check(b)
  PROVE  /\ act' \in [Activity -> Acting] /\ Alone(b) /\ act[b].at = "next"
         /\ \E l \in act[b].todo :
              \/ AlreadyQueued(act[b].client, l) /\ Advances(b, l)
              \/ /\ act'[b].at = "begin" /\ act'[b].cur = l /\ act'[b].todo = act[b].todo
                 /\ Keeps(b)
<1>1. act[b] \in Acting /\ b \in Activity /\ act \in [Activity -> Acting]
  BY ActIs, Kinds
<1>2. PICK l \in act[b].todo :
         act' = [act EXCEPT ![b] = IF AlreadyQueued(act[b].client, l)
                                   THEN AfterPlay(b, l)
                                   ELSE [act[b] EXCEPT !.at = "begin", !.cur = l]]
  BY DEF Check
<1>3. CASE AlreadyQueued(act[b].client, l)
  BY <1>2, <1>3, AdvancesBy DEF Check
<1>4. CASE ~AlreadyQueued(act[b].client, l)
  <2> DEFINE r == [act[b] EXCEPT !.at = "begin", !.cur = l]
  <2>1. /\ r \in Acting /\ r.at = "begin" /\ r.cur = l /\ r.todo = act[b].todo
        /\ r.found = act[b].found /\ r.client = act[b].client
    BY <1>1, <1>2 DEF Acting, Stage
  <2>2. act' = [act EXCEPT ![b] = r]
    BY <1>2, <1>4
  <2> HIDE DEF r
  <2>3. QED
    BY <1>1, <1>2, <2>1, <2>2 DEF Check, Alone, Keeps
<1>5. QED
  BY <1>3, <1>4

LEMMA AddToQueueIs ==
  ASSUME TypeOK, NEW b \in Batch, AddToQueue(b)
  PROVE  /\ act' \in [Activity -> Acting] /\ Alone(b) /\ act[b].at = "recording"
         /\ Advances(b, act[b].cur)
BY AdvancesBy DEF AddToQueue

(* Activity a goes from one stage of its transaction to the next.            *)
Turns(a, from, to) ==
  /\ act[a].at = from /\ act'[a].at = to
  /\ act'[a].todo = act[a].todo /\ act'[a].cur = act[a].cur
  /\ act'[a].state = act[a].state /\ Keeps(a)

LEMMA TransactIs ==
  ASSUME TypeOK, NEW a \in Activity
  PROVE  /\ Begin(a) => /\ act' \in [Activity -> Acting] /\ Alone(a)
                        /\ Turns(a, "begin", "inserting")
         /\ Commit(a) => /\ act' \in [Activity -> Acting] /\ Alone(a)
                         /\ Turns(a, "inserting", "recording")
<1>1. act[a] \in Acting /\ act \in [Activity -> Acting]
  BY ActIs
<1>2. ASSUME NEW to \in Stage, act' = [act EXCEPT ![a].at = to]
      PROVE  /\ act' \in [Activity -> Acting] /\ Alone(a) /\ act'[a].at = to
             /\ act'[a].todo = act[a].todo /\ act'[a].cur = act[a].cur
             /\ act'[a].state = act[a].state /\ Keeps(a)
  <2> DEFINE r == [act[a] EXCEPT !.at = to]
  <2>1. /\ r \in Acting /\ r.at = to /\ r.todo = act[a].todo /\ r.cur = act[a].cur
        /\ r.state = act[a].state /\ r.found = act[a].found /\ r.client = act[a].client
    BY <1>1 DEF Acting
  <2>2. act' = [act EXCEPT ![a] = r]
    BY <1>1, <1>2
  <2> HIDE DEF r
  <2>3. QED
    BY <1>1, <2>1, <2>2 DEF Alone, Keeps
<1>3. "inserting" \in Stage /\ "recording" \in Stage
  BY DEF Stage
<1>4. QED
  BY <1>2, <1>3 DEF Begin, Commit, Turns

LEMMA FailsIs ==
  ASSUME TypeOK, NEW d \in Discoverer, DiscoveryFails(d)
  PROVE  /\ act' \in [Activity -> Acting] /\ Alone(d) /\ act[d].at = "inserting"
         /\ act'[d] = Idle
BY ActIs, Kinds, IdleIs DEF DiscoveryFails, Alone

LEMMA DiesIs ==
  ASSUME ProcessDies
  PROVE  act' \in [Activity -> Acting] /\ \A a \in Activity : act'[a] = Idle
BY IdleIs DEF ProcessDies
-----------------------------------------------------------------------------
(* The activities are of their type and shape *)

LEMMA IdleShape ==
  Idle.at = "idle" /\ Idle.found = {} /\ Idle.todo = {} /\ Idle.at \notin Working
BY DEF Idle, Working

LEMMA AloneIsAlike ==
  ASSUME NEW a, Alone(a)
  PROVE  AlikeAll(a)
BY DEF Alone, AlikeAll, Alike

(* A step of a discovery, and one of a hand-over, keep the shape.            *)
LEMMA DiscovererKeepsShape ==
  ASSUME TypeOK, ActInv, NEW d \in Discoverer, AlikeAll(d),
         act'[d].at = "idle" => act'[d].found = {},
         act'[d].at \in Working => act'[d].cur \in Listen
  PROVE  ActInv'
BY Kinds DEF ActInv, AlikeAll, Alike, Active

LEMMA HandOverKeepsShape ==
  ASSUME TypeOK, ActInv, NEW b \in Batch, AlikeAll(b),
         \/ act'[b] = Idle
         \/ /\ act'[b].at = "next" /\ act'[b].todo # {}
            /\ act'[b].todo \subseteq act'[b].found
         \/ /\ act'[b].at \in {"begin", "inserting", "recording"}
            /\ act'[b].todo \subseteq act'[b].found
            /\ act'[b].cur \in act'[b].todo /\ act'[b].cur \in Listen
  PROVE  ActInv'
BY Kinds, IdleShape DEF ActInv, AlikeAll, Alike, Active, Working

LEMMA AdvancesKeepsShape ==
  ASSUME TypeOK, ActInv, NEW b \in Batch, NEW l, Alone(b), Advances(b, l),
         act[b].at # "idle"
  PROVE  ActInv'
<1>1. act[b].todo \subseteq act[b].found /\ act[b].todo # {}
  BY DEF ActInv, Active
<1>2. AlikeAll(b)
  BY AloneIsAlike
<1>3. \/ act'[b] = Idle
      \/ /\ act'[b].at = "next" /\ act'[b].todo # {}
         /\ act'[b].todo \subseteq act'[b].found
  BY <1>1 DEF Advances
<1>4. QED
  BY <1>2, <1>3, HandOverKeepsShape

LEMMA ActStep ==
  ASSUME TypeOK, ActInv, Next
  PROVE  act' \in [Activity -> Acting] /\ ActInv'
<1> DEFINE Goal == act' \in [Activity -> Acting] /\ ActInv'
<1>1. ASSUME NEW d \in Discoverer, Fetch(d)
      PROVE  Goal
  BY <1>1, FetchIs, AloneIsAlike, DiscovererKeepsShape DEF Working
<1>2. ASSUME NEW d \in Discoverer, ReadCached(d) \/ ReadStored(d)
      PROVE  Goal
  BY <1>2, ReadIs, AloneIsAlike, DiscovererKeepsShape
<1>3. ASSUME NEW d \in Discoverer, PutInCache(d)
      PROVE  Goal
  <2>1. act[d].cur \in Listen
    BY <1>3, PutInCacheIs, Kinds DEF ActInv, Working
  <2>2. QED
    BY <1>3, <2>1, PutInCacheIs, DiscovererKeepsShape
<1>4. ASSUME NEW d \in Discoverer, Known(d)
      PROVE  Goal
  BY <1>4, KnownIs, AloneIsAlike, DiscovererKeepsShape DEF Working
<1>5. ASSUME NEW d \in Discoverer, New(d)
      PROVE  Goal
  <2>1. act[d].cur \in Listen
    BY <1>5, NewIs, Kinds DEF ActInv, Working
  <2>2. QED
    BY <1>5, <2>1, NewIs, AloneIsAlike, DiscovererKeepsShape
<1>6. ASSUME NEW d \in Discoverer, Stop(d)
      PROVE  Goal
  BY <1>6, StopIs, AloneIsAlike, IdleShape, DiscovererKeepsShape
<1>7. ASSUME NEW d \in Discoverer, Push(d)
      PROVE  Goal
  BY <1>7, PushIs, DiscovererKeepsShape DEF Working
<1>8. ASSUME NEW d \in Discoverer, Forward(d)
      PROVE  Goal
  <2>1. CASE Alone(d)
    BY <1>8, <2>1, ForwardIs, AloneIsAlike, IdleShape, DiscovererKeepsShape
  <2>2. ASSUME NEW b \in Batch, act[d].found # {},
               \A e \in Activity \ {d, b} : act'[e] = act[e],
               act'[b].at = "next", act'[b].todo = act[d].found,
               act'[b].found = act[d].found
        PROVE  Goal
    <3>1. act' \in [Activity -> Acting] /\ act'[d] = Idle
      BY <1>8, ForwardIs
    <3>2. ActInv'
      BY <2>2, <3>1, Kinds, IdleShape DEF ActInv, Active, Working
    <3>3. QED
      BY <3>1, <3>2
  <2>3. QED
    BY <1>8, <2>1, <2>2, ForwardIs
<1>9. ASSUME NEW b \in Batch, Check(b)
      PROVE  Goal
  <2>1. PICK l \in act[b].todo :
          \/ AlreadyQueued(act[b].client, l) /\ Advances(b, l)
          \/ /\ act'[b].at = "begin" /\ act'[b].cur = l /\ act'[b].todo = act[b].todo
             /\ Keeps(b)
    BY <1>9, CheckIs
  <2>2. act' \in [Activity -> Acting] /\ Alone(b) /\ act[b].at = "next"
    BY <1>9, CheckIs
  <2>3. CASE Advances(b, l)
    BY <2>2, <2>3, AdvancesKeepsShape
  <2>4. CASE act'[b].at = "begin" /\ act'[b].cur = l /\ act'[b].todo = act[b].todo
             /\ Keeps(b)
    <3>1. act[b].todo \subseteq act[b].found /\ act[b].todo \subseteq Listen
      BY ActIs, Kinds DEF ActInv, Acting
    <3>2. QED
      BY <2>2, <2>4, <3>1, AloneIsAlike, HandOverKeepsShape DEF Keeps
  <2>5. QED
    BY <2>1, <2>3, <2>4
<1>10. ASSUME NEW b \in Batch, AddToQueue(b)
       PROVE  Goal
  BY <1>10, AddToQueueIs, AdvancesKeepsShape
<1>11. ASSUME NEW a \in Activity, Transact(a)
       PROVE  Goal
  <2>1. PICK from \in {"begin", "inserting"}, to \in {"inserting", "recording"} :
          Turns(a, from, to) /\ act' \in [Activity -> Acting] /\ Alone(a)
    BY <1>11, TransactIs DEF Transact
  <2>2. act[a].cur \in Listen /\ act'[a].at # "idle"
    BY <2>1 DEF ActInv, Working, Turns
  <2>3. CASE a \in Discoverer
    BY <2>1, <2>2, <2>3, AloneIsAlike, DiscovererKeepsShape DEF Turns
  <2>4. CASE a \in Batch
    <3>1. act[a].todo \subseteq act[a].found /\ act[a].cur \in act[a].todo
      BY <2>1, <2>4 DEF ActInv, Turns
    <3>2. QED
      BY <2>1, <2>2, <2>4, <3>1, AloneIsAlike, HandOverKeepsShape DEF Turns, Keeps
  <2>5. QED
    BY <2>3, <2>4 DEF Activity
<1>12. ASSUME NEW d \in Discoverer, DiscoveryFails(d)
       PROVE  Goal
  BY <1>12, FailsIs, AloneIsAlike, IdleShape, DiscovererKeepsShape
<1>13. CASE ProcessDies
  BY <1>13, DiesIs, IdleShape, Kinds DEF ActInv, Active
<1>14. ASSUME UNCHANGED act
       PROVE  Goal
  BY <1>14, ActIs DEF ActInv, Active
<1>15. CASE Expire
  <2>1. /\ act' \in [Activity -> Acting]
        /\ \A e \in Activity : Alike(e)
    BY <1>15, ActIs, UnsharedIs DEF Expire, Alike
  <2>2. QED
    BY <2>1, Kinds DEF ActInv, Active, Alike
<1>16. CASE (\E l \in Listen : Listened(l)) \/ Abort \/ PollAgain \/ SwitchMonitoring
  BY <1>14, <1>16 DEF Listened, Abort, PollAgain, SwitchMonitoring
<1>17. QED
  BY <1>1, <1>2, <1>3, <1>4, <1>5, <1>6, <1>7, <1>8, <1>9, <1>10, <1>11, <1>12, <1>13,
     <1>15, <1>16 DEF Next, Discover, HandOver, HandOverFails, Crash
-----------------------------------------------------------------------------
(* The tables and the transaction *)

\* whoever inserts has the transaction, and a hand-over that has it leaves the
\* Plays of the Source alone
TxnInv ==
  /\ txn.by = None => txn = NoTxn
  /\ \A a \in Activity : act[a].at = "inserting" <=> txn.by = a
  /\ txn.by \in Batch => db.row = txn.before.row

LEMMA NoTablesAre == NoTables \in Tables /\ NoTxn.by = None /\ NoTxn.before = NoTables
BY DEF NoTables, Tables, NoRows, NoTxn

LEMMA DbIs ==
  ASSUME TypeOK
  PROVE  /\ db \in Tables /\ txn.before \in Tables /\ txn.by \in Activity \cup {None}
         /\ \A t \in Tables : \A s \in PlayState, l \in Listen : t.row[s][l] \in Nat
         /\ \A t \in Tables : \A c \in Client, l \in Listen :
              t.play[c][l] \in Nat /\ t.queued[c][l] \in Nat
<1>1. db \in Tables /\ txn \in [by: Activity \cup {None}, before: Tables]
  BY DEF TypeOK
<1>2. ASSUME NEW t \in Tables
      PROVE  /\ \A s \in PlayState, l \in Listen : t.row[s][l] \in Nat
             /\ \A c \in Client, l \in Listen : t.play[c][l] \in Nat /\ t.queued[c][l] \in Nat
  BY DEF Tables
<1>3. QED
  BY <1>1, <1>2

LEMMA DiscoveryInserts ==
  ASSUME TypeOK, ActInv, NEW d \in Discoverer, act[d].at = "begin"
  PROVE  /\ WithInsert(d) \in Tables
         /\ WithInsert(d).play = db.play /\ WithInsert(d).queued = db.queued
         /\ \A s \in PlayState, l \in Listen :
              WithInsert(d).row[s][l] =
                IF s = act[d].state /\ l = act[d].cur THEN db.row[s][l] + 1 ELSE db.row[s][l]
<1> DEFINE s == act[d].state
           l == act[d].cur
           rows == [db.row EXCEPT ![s] = [db.row[s] EXCEPT ![l] = @ + 1]]
<1>1. act[d] \in Acting /\ l \in Listen
  BY ActIs, Kinds DEF ActInv, Working
<1>2. s \in PlayState
  BY <1>1 DEF Acting
<1>3. db \in Tables /\ db.row \in [PlayState -> [Listen -> Nat]]
  BY DbIs DEF Tables
<1>4. WithInsert(d) = [db EXCEPT !.row = rows]
  BY DEF WithInsert
<1> HIDE DEF s, l
<1>5. [db.row[s] EXCEPT ![l] = @ + 1] \in [Listen -> Nat]
  BY <1>1, <1>2, <1>3
<1>6. rows \in [PlayState -> [Listen -> Nat]]
  BY <1>2, <1>3, <1>5
<1>7. \A s2 \in PlayState, l2 \in Listen :
        rows[s2][l2] = IF s2 = s /\ l2 = l THEN db.row[s2][l2] + 1 ELSE db.row[s2][l2]
  BY <1>1, <1>2, <1>3
<1> HIDE DEF rows
<1>8. /\ [db EXCEPT !.row = rows] \in Tables /\ [db EXCEPT !.row = rows].row = rows
      /\ [db EXCEPT !.row = rows].play = db.play /\ [db EXCEPT !.row = rows].queued = db.queued
  BY <1>3, <1>6 DEF Tables
<1>9. QED
  BY <1>4, <1>7, <1>8 DEF s, l

LEMMA HandOverInserts ==
  ASSUME TypeOK, ActInv, NEW b \in Batch, act[b].at = "begin"
  PROVE  /\ WithInsert(b) \in Tables
         /\ WithInsert(b).row = db.row /\ WithInsert(b).queued = db.queued
         /\ \A c \in Client, l \in Listen :
              WithInsert(b).play[c][l] =
                IF c = act[b].client /\ l = act[b].cur THEN db.play[c][l] + 1
                                                       ELSE db.play[c][l]
<1> DEFINE c == act[b].client
           l == act[b].cur
           plays == [db.play EXCEPT ![c] = [db.play[c] EXCEPT ![l] = @ + 1]]
<1>1. act[b] \in Acting /\ l \in Listen
  BY ActIs, Kinds DEF ActInv, Working
<1>2. c \in Client
  BY <1>1 DEF Acting
<1>3. db \in Tables /\ db.play \in [Client -> [Listen -> Nat]]
  BY DbIs DEF Tables
<1>4. WithInsert(b) = [db EXCEPT !.play = plays]
  BY Kinds DEF WithInsert
<1> HIDE DEF c, l
<1>5. [db.play[c] EXCEPT ![l] = @ + 1] \in [Listen -> Nat]
  BY <1>1, <1>2, <1>3
<1>6. plays \in [Client -> [Listen -> Nat]]
  BY <1>2, <1>3, <1>5
<1>7. \A c2 \in Client, l2 \in Listen :
        plays[c2][l2] = IF c2 = c /\ l2 = l THEN db.play[c2][l2] + 1 ELSE db.play[c2][l2]
  BY <1>1, <1>2, <1>3
<1> HIDE DEF plays
<1>8. /\ [db EXCEPT !.play = plays] \in Tables /\ [db EXCEPT !.play = plays].play = plays
      /\ [db EXCEPT !.play = plays].row = db.row
      /\ [db EXCEPT !.play = plays].queued = db.queued
  BY <1>3, <1>6 DEF Tables
<1>9. QED
  BY <1>4, <1>7, <1>8 DEF c, l

LEMMA QueueRowIs ==
  ASSUME TypeOK, ActInv, NEW b \in Batch, AddToQueue(b)
  PROVE  /\ db' \in Tables /\ db'.row = db.row /\ db'.play = db.play
         /\ act[b].client \in Client /\ act[b].cur \in Listen
         /\ \A c \in Client, l \in Listen :
              db'.queued[c][l] =
                IF c = act[b].client /\ l = act[b].cur THEN db.queued[c][l] + 1
                                                       ELSE db.queued[c][l]
<1> DEFINE c == act[b].client
           l == act[b].cur
           queue == [db.queued EXCEPT ![c] = [db.queued[c] EXCEPT ![l] = @ + 1]]
<1>1. act[b] \in Acting /\ l \in Listen
  BY ActIs, Kinds DEF ActInv, Working, AddToQueue
<1>2. c \in Client
  BY <1>1 DEF Acting
<1>3. db \in Tables /\ db.queued \in [Client -> [Listen -> Nat]]
  BY DbIs DEF Tables
<1>4. db' = [db EXCEPT !.queued = queue]
  BY DEF AddToQueue, WithQueueRow
<1> HIDE DEF c, l
<1>5. [db.queued[c] EXCEPT ![l] = @ + 1] \in [Listen -> Nat]
  BY <1>1, <1>2, <1>3
<1>6. queue \in [Client -> [Listen -> Nat]]
  BY <1>2, <1>3, <1>5
<1>7. \A c2 \in Client, l2 \in Listen :
        queue[c2][l2] = IF c2 = c /\ l2 = l THEN db.queued[c2][l2] + 1
                                            ELSE db.queued[c2][l2]
  BY <1>1, <1>2, <1>3
<1> HIDE DEF queue
<1>8. /\ [db EXCEPT !.queued = queue] \in Tables /\ [db EXCEPT !.queued = queue].queued = queue
      /\ [db EXCEPT !.queued = queue].row = db.row
      /\ [db EXCEPT !.queued = queue].play = db.play
  BY <1>3, <1>6 DEF Tables
<1>9. QED
  BY <1>1, <1>2, <1>4, <1>7, <1>8 DEF c, l

(* A step that neither begins nor ends a transaction.                        *)
Calm ==
  /\ txn' = txn
  /\ db' = db \/ \E b \in Batch : AddToQueue(b)
  /\ \A a \in Activity : act'[a].at = "inserting" <=> act[a].at = "inserting"

LEMMA CalmBy ==
  ASSUME TypeOK, NEW a \in Activity, AlikeAll(a), txn' = txn,
         act'[a].at # "inserting", act[a].at # "inserting",
         db' = db \/ \E b \in Batch : AddToQueue(b)
  PROVE  Calm
BY DEF Calm, AlikeAll, Alike

LEMMA StepKinds ==
  ASSUME TypeOK, ActInv, Next
  PROVE  \/ Calm
         \/ \E a \in Activity : Begin(a) \/ Commit(a)
         \/ \E d \in Discoverer : DiscoveryFails(d)
         \/ ProcessDies
<1> USE Kinds
<1>1. ASSUME NEW d \in Discoverer, Fetch(d) \/ ReadCached(d) \/ ReadStored(d) \/ Known(d)
      PROVE  Calm
  <2>1. txn' = txn /\ db' = db
    BY <1>1 DEF Fetch, ReadCached, ReadStored, Known
  <2>2. act[d].at # "inserting" /\ act'[d].at # "inserting" /\ Alone(d)
    BY <1>1, FetchIs, ReadIs, KnownIs
  <2>3. QED
    BY <2>1, <2>2, AloneIsAlike, CalmBy
<1>2. ASSUME NEW d \in Discoverer, PutInCache(d) \/ Push(d)
      PROVE  Calm
  <2>1. txn' = txn /\ db' = db
    BY <1>2 DEF PutInCache, Push
  <2>2. act[d].at # "inserting" /\ act'[d].at # "inserting" /\ AlikeAll(d)
    BY <1>2, PutInCacheIs, PushIs
  <2>3. QED
    BY <2>1, <2>2, CalmBy
<1>3. ASSUME NEW d \in Discoverer, New(d) \/ Stop(d)
      PROVE  Calm
  <2>1. txn' = txn /\ db' = db
    BY <1>3 DEF New, Stop
  <2>2. act[d].at # "inserting" /\ act'[d].at # "inserting" /\ Alone(d)
    BY <1>3, NewIs, StopIs, IdleShape
  <2>3. QED
    BY <2>1, <2>2, AloneIsAlike, CalmBy
<1>4. ASSUME NEW d \in Discoverer, Forward(d)
      PROVE  Calm
  <2>1. txn' = txn /\ db' = db
    BY <1>4 DEF Forward
  <2>2. QED
    BY <1>4, <2>1, ForwardIs, IdleShape DEF Calm, Active, Alone
<1>5. ASSUME NEW b \in Batch, Check(b) \/ AddToQueue(b)
      PROVE  Calm
  <2>1. txn' = txn /\ (db' = db \/ AddToQueue(b))
    BY <1>5 DEF Check, AddToQueue
  <2>2. act[b].at # "inserting" /\ act'[b].at # "inserting" /\ Alone(b)
    BY <1>5, CheckIs, AddToQueueIs, IdleShape DEF Advances
  <2>3. QED
    BY <2>1, <2>2, AloneIsAlike, CalmBy
<1>6. CASE Expire
  <2>1. \A a \in Activity : act'[a].at = act[a].at
    BY <1>6, ActIs, UnsharedIs DEF Expire
  <2>2. QED
    BY <1>6, <2>1 DEF Expire, Calm
<1>7. CASE (\E l \in Listen : Listened(l)) \/ Abort \/ PollAgain \/ SwitchMonitoring
  BY <1>7 DEF Listened, Abort, PollAgain, SwitchMonitoring, Calm
<1>8. QED
  BY <1>1, <1>2, <1>3, <1>4, <1>5, <1>6, <1>7
     DEF Next, Discover, HandOver, HandOverFails, Crash, Transact

LEMMA DbStep ==
  ASSUME TypeOK, ActInv, TxnInv, Next
  PROVE  db' \in Tables /\ txn' \in [by: Activity \cup {None}, before: Tables] /\ TxnInv'
<1> DEFINE Goal == /\ db' \in Tables
                   /\ txn' \in [by: Activity \cup {None}, before: Tables] /\ TxnInv'
<1>1. db \in Tables /\ txn \in [by: Activity \cup {None}, before: Tables]
  BY DEF TypeOK
<1>2. RolledBack \in Tables
  BY <1>1 DEF RolledBack
<1>3. CASE Calm
  <2>1. db' \in Tables /\ db'.row = db.row
    BY <1>1, <1>3, QueueRowIs DEF Calm
  <2>2. QED
    BY <1>1, <1>3, <2>1 DEF Calm, TxnInv
<1>4. ASSUME NEW a \in Activity, Begin(a)
      PROVE  Goal
  <2>1. /\ db' = WithInsert(a) /\ txn' = [by |-> a, before |-> db] /\ txn = NoTxn
        /\ act[a].at = "begin"
    BY <1>4 DEF Begin, MayBegin
  <2>2. db' \in Tables /\ (a \in Batch => db'.row = db.row)
    BY <2>1, DiscoveryInserts, HandOverInserts DEF Activity
  <2>3. act'[a].at = "inserting" /\ Alone(a)
    BY <1>4, TransactIs DEF Turns
  <2>4. \A e \in Activity : act[e].at # "inserting"
    BY <2>1, Kinds, NoTablesAre DEF TxnInv
  <2>5. txn'.by = a /\ txn'.before = db /\ a # None
    BY <2>1, Kinds
  <2>6. TxnInv'
    BY <2>2, <2>3, <2>4, <2>5 DEF TxnInv, Alone
  <2>7. QED
    BY <1>1, <2>1, <2>2, <2>6
<1>5. ASSUME txn' = NoTxn, db' \in Tables, \A a \in Activity : act'[a].at # "inserting"
      PROVE  Goal
  <2>1. TxnInv'
    BY <1>5, Kinds, NoTablesAre DEF TxnInv
  <2>2. NoTxn \in [by: Activity \cup {None}, before: Tables]
    BY NoTablesAre DEF NoTxn
  <2>3. QED
    BY <1>5, <2>1, <2>2
<1>6. ASSUME NEW a \in Activity, Commit(a)
      PROVE  Goal
  <2>1. txn' = NoTxn /\ db' = db
    BY <1>6 DEF Commit
  <2>2. act[a].at = "inserting" /\ act'[a].at = "recording" /\ Alone(a)
    BY <1>6, TransactIs DEF Turns
  <2>3. \A e \in Activity : act'[e].at # "inserting"
    BY <2>2 DEF TxnInv, Alone
  <2>4. QED
    BY <1>1, <1>5, <2>1, <2>3
<1>7. ASSUME NEW d \in Discoverer, DiscoveryFails(d)
      PROVE  Goal
  <2>1. txn' = NoTxn /\ db' = RolledBack
    BY <1>7 DEF DiscoveryFails
  <2>2. act[d].at = "inserting" /\ act'[d] = Idle /\ Alone(d)
    BY <1>7, FailsIs
  <2>3. \A e \in Activity : act'[e].at # "inserting"
    BY <2>2, Kinds, IdleShape DEF TxnInv, Alone
  <2>4. QED
    BY <1>2, <1>5, <2>1, <2>3
<1>8. CASE ProcessDies
  <2>1. txn' = NoTxn /\ db' = RolledBack
    BY <1>8 DEF ProcessDies
  <2>2. \A e \in Activity : act'[e].at # "inserting"
    BY <1>8, DiesIs, IdleShape
  <2>3. QED
    BY <1>2, <1>5, <2>1, <2>2
<1>9. QED
  BY <1>3, <1>4, <1>6, <1>7, <1>8, StepKinds
-----------------------------------------------------------------------------
(* The rest of the state *)

\* the kinds of intervention after which a Play may be lost
Lossy == {"abort", "insertFails", "crash"}

CountInv == crashes <= interventions /\ (aborted => happened \cap Lossy # {})

WorldOK ==
  /\ heard \subseteq Listen /\ monitoring \in BOOLEAN
  /\ cache \in (SUBSET Listen) \cup {NotCached}
  /\ aborted \in BOOLEAN /\ backlogged \in BOOLEAN
  /\ happened \subseteq FaultKinds /\ overlapped \in BOOLEAN
  /\ crashes \in 0..MaxInterventions /\ interventions \in 0..MaxInterventions

LEMMA HappensIs ==
  ASSUME TypeOK, NEW kind, Happens(kind)
  PROVE  /\ interventions' \in 0..MaxInterventions /\ interventions' = interventions + 1
         /\ happened' = happened \cup {kind} /\ happened' \subseteq FaultKinds
         /\ interventions \in Nat /\ crashes \in Nat /\ MaxInterventions \in Nat
BY DiscoveryAssumption DEF TypeOK, Happens

LEMMA WorldStep ==
  ASSUME TypeOK, ActInv, CountInv, Next
  PROVE  WorldOK' /\ CountInv'
<1> DEFINE Goal == WorldOK' /\ CountInv'
<1>1. WorldOK
  BY DEF TypeOK, WorldOK
<1> USE <1>1 DEF WorldOK, CountInv, polls, history
<1>2. ASSUME UNCHANGED <<heard, monitoring, cache, polls, history>>
      PROVE  Goal
  BY <1>2
<1>3. ASSUME NEW l \in Listen, Listened(l)
      PROVE  Goal
  BY <1>3 DEF Listened
<1>4. ASSUME NEW d \in Discoverer, Fetch(d)
      PROVE  Goal
  <2>1. backlogged' = (backlogged \/ d = "backlog")
        /\ overlapped' = (overlapped \/ \E e \in Discoverer \ {d} : Active(e))
    BY <1>4 DEF Fetch
  <2>2. backlogged' \in BOOLEAN /\ overlapped' \in BOOLEAN
    BY <2>1, Zenon
  <2>3. UNCHANGED <<heard, monitoring, cache, aborted, happened, crashes, interventions>>
    BY <1>4 DEF Fetch
  <2>4. QED
    BY <2>2, <2>3
<1>5. ASSUME NEW d \in Discoverer, PutInCache(d)
      PROVE  Goal
  <2>1. cache' \subseteq Listen
    BY <1>5, PutInCacheIs
  <2>2. UNCHANGED <<heard, monitoring, polls, history>>
    BY <1>5 DEF PutInCache
  <2>3. QED
    BY <2>1, <2>2
<1>6. ASSUME NEW d \in Discoverer, Push(d)
      PROVE  Goal
  <2>1. act[d].cur \in Listen
    BY <1>6, PushIs, Kinds DEF ActInv, Working
  <2>2. cache' = cache \/ (cache # NotCached /\ cache' = cache \cup {act[d].cur})
    BY <1>6, PushIs
  <2>3. UNCHANGED <<heard, monitoring, polls, history>>
    BY <1>6 DEF Push
  <2>4. QED
    BY <2>1, <2>2, <2>3
<1>7. ASSUME NEW d \in Discoverer, DiscoveryFails(d)
      PROVE  Goal
  <2>1. Happens("insertFails") /\ aborted' \in BOOLEAN
        /\ UNCHANGED <<heard, monitoring, cache, backlogged, overlapped, crashes>>
    BY <1>7 DEF DiscoveryFails
  <2>2. happened' \cap Lossy # {} /\ crashes' <= interventions'
    BY <2>1, HappensIs DEF Lossy
  <2>3. QED
    BY <2>1, <2>2, HappensIs
<1>8. ASSUME NEW kind \in {"insertFails", "crash"}, Happens(kind), ProcessDies,
             UNCHANGED <<heard, monitoring, overlapped>>
      PROVE  Goal
  <2>1. cache' = NotCached /\ aborted' = FALSE /\ backlogged' = FALSE
        /\ crashes' = crashes + 1
    BY <1>8 DEF ProcessDies
  <2>2. crashes' <= interventions' /\ crashes' \in 0..MaxInterventions
    BY <1>8, <2>1, HappensIs
  <2>3. cache' \in (SUBSET Listen) \cup {NotCached}
    BY <2>1, Zenon
  <2>4. interventions' \in 0..MaxInterventions /\ happened' \subseteq FaultKinds
    BY <1>8, HappensIs
  <2>5. QED
    BY <1>8, <2>1, <2>2, <2>3, <2>4
<1>9. CASE Abort
  <2>1. Happens("abort") /\ aborted' = TRUE
        /\ UNCHANGED <<heard, monitoring, cache, backlogged, overlapped, crashes>>
    BY <1>9 DEF Abort
  <2>2. happened' \cap Lossy # {} /\ crashes' <= interventions'
    BY <2>1, HappensIs DEF Lossy
  <2>3. QED
    BY <2>1, <2>2, HappensIs
<1>10. CASE PollAgain
  BY <1>10 DEF PollAgain
<1>11. CASE SwitchMonitoring
  <2>1. Happens("mute") /\ monitoring' = ~monitoring
        /\ UNCHANGED <<heard, cache, aborted, backlogged, overlapped, crashes>>
    BY <1>11 DEF SwitchMonitoring
  <2>2. monitoring' \in BOOLEAN
    BY <2>1, Zenon
  <2>3. crashes' <= interventions' /\ (aborted' => happened' \cap Lossy # {})
    BY <2>1, HappensIs
  <2>4. QED
    BY <2>1, <2>2, <2>3, HappensIs
<1>12. CASE Expire
  <2>1. Happens("expire") /\ cache' = NotCached
        /\ UNCHANGED <<heard, monitoring, aborted, backlogged, overlapped, crashes>>
    BY <1>12 DEF Expire
  <2>2. crashes' <= interventions' /\ (aborted' => happened' \cap Lossy # {})
    BY <2>1, HappensIs
  <2>3. cache' \in (SUBSET Listen) \cup {NotCached}
    BY <2>1, Zenon
  <2>4. interventions' \in 0..MaxInterventions /\ happened' \subseteq FaultKinds
    BY <2>1, HappensIs
  <2>5. QED
    BY <2>1, <2>2, <2>3, <2>4
<1>13. ASSUME NEW d \in Discoverer,
              \/ ReadCached(d) \/ ReadStored(d) \/ Known(d) \/ New(d) \/ Stop(d) \/ Forward(d)
       PROVE  Goal
  BY <1>2, <1>13 DEF ReadCached, ReadStored, Known, New, Stop, Forward
<1>14. ASSUME NEW b \in Batch, HandOver(b)
       PROVE  Goal
  BY <1>2, <1>14 DEF HandOver, Check, AddToQueue
<1>15. ASSUME NEW a \in Activity, Transact(a)
       PROVE  Goal
  BY <1>2, <1>15 DEF Transact, Begin, Commit
<1>16. QED
  BY <1>3, <1>4, <1>5, <1>6, <1>7, <1>8, <1>9, <1>10, <1>11, <1>12, <1>13, <1>14, <1>15
     DEF Next, Discover, HandOverFails, Crash

Shaped == TypeOK /\ ActInv /\ TxnInv /\ CountInv

LEMMA ShapedStep ==
  ASSUME Shaped, Next
  PROVE  Shaped'
<1>1. WorldOK' /\ CountInv' /\ ActInv' /\ TxnInv'
  BY WorldStep, ActStep, DbStep DEF Shaped
<1>2. act' \in [Activity -> Acting] /\ db' \in Tables
      /\ txn' \in [by: Activity \cup {None}, before: Tables]
  BY ActStep, DbStep DEF Shaped
<1>3. TypeOK'
  BY <1>1, <1>2 DEF TypeOK, WorldOK, Acting
<1>4. QED
  BY <1>1, <1>3 DEF Shaped

LEMMA ShapedStays ==
  ASSUME UNCHANGED vars
  PROVE  /\ UNCHANGED <<heard, monitoring, db, txn, cache, act, aborted, backlogged, happened,
                       overlapped, crashes, interventions>>
         /\ Shaped => Shaped'
<1>1. UNCHANGED <<heard, monitoring, db, txn, cache, act, aborted, backlogged, happened,
                  overlapped, crashes, interventions>>
  BY DEF vars, polls, history
<1>2. TypeOK => TypeOK'
  BY <1>1 DEF TypeOK
<1>3. ActInv => ActInv'
  BY <1>1 DEF ActInv, Active
<1>4. (TxnInv => TxnInv') /\ (CountInv => CountInv')
  BY <1>1 DEF TxnInv, CountInv
<1>5. QED
  BY <1>1, <1>2, <1>3, <1>4 DEF Shaped

LEMMA ShapedInit == Init => Shaped
<1>1. ASSUME Init
      PROVE  TypeOK
  <2>1. db \in Tables /\ txn \in [by: Activity \cup {None}, before: Tables]
    BY <1>1, NoTablesAre DEF Init, NoTxn
  <2>2. act \in [Activity -> Acting]
    BY <1>1, IdleIs DEF Init
  <2>3. cache \in (SUBSET Listen) \cup {NotCached}
    BY <1>1, Zenon DEF Init
  <2>4. 0 \in 0..MaxInterventions
    BY DiscoveryAssumption
  <2>5. QED
    BY <1>1, <2>1, <2>2, <2>3, <2>4 DEF Init, TypeOK, Acting
<1>2. ASSUME Init
      PROVE  ActInv /\ TxnInv /\ CountInv
  BY <1>2, IdleShape, Kinds, NoTablesAre
     DEF Init, ActInv, TxnInv, CountInv, Active
<1>3. QED
  BY <1>1, <1>2 DEF Shaped
-----------------------------------------------------------------------------
(* One discovery at a time stores a Play once *)

Once(t) == \A l \in Listen : t.row["discovered"][l] + t.row["discarded"][l] <= 1

\* what discovery d knows, and what it is about to store
Knows(d) ==
  /\ act[d].at = "caching" => act[d].list = Stored(db)
  /\ act[d].at = "comparing" => (act[d].cur \in act[d].list <=> act[d].cur \in Stored(db))
  /\ act[d].at = "begin" => act[d].cur \notin Stored(db)
  /\ act[d].at = "inserting" =>
       /\ Stored(db) = Stored(txn.before) \cup {act[d].cur}
       /\ cache # NotCached => cache = Stored(txn.before)
  /\ act[d].at = "recording" =>
       (cache # NotCached => cache \cup {act[d].cur} = Stored(db))

Agrees ==
  cache # NotCached /\ (\A d \in Discoverer : act[d].at \notin {"inserting", "recording"})
    => cache = Stored(db)

Sole ==
  /\ \A d, e \in Discoverer : Active(d) /\ Active(e) => d = e
  /\ \A d \in Discoverer : Knows(d)
  /\ Once(db) /\ Once(txn.before)
  /\ Agrees

LEMMA StoredIs ==
  ASSUME NEW t, NEW u, t.row = u.row
  PROVE  Stored(t) = Stored(u) /\ (Once(t) <=> Once(u))
BY DEF Stored, Once

(* A step of the only discovery: what the others know is nothing.            *)
LEMMA SoleBy ==
  ASSUME NEW d \in Discoverer, AlikeAll(d), \A e \in Discoverer \ {d} : ~Active(e),
         Knows(d)', Once(db)', Once(txn.before)', Agrees'
  PROVE  Sole'
<1>1. \A e \in Discoverer \ {d} : act'[e].at = "idle"
  BY Kinds DEF AlikeAll, Alike, Active
<1>2. \A e \in Discoverer \ {d} : Knows(e)'
  BY <1>1 DEF Knows
<1>3. QED
  BY <1>1, <1>2 DEF Sole, Active

(* The rows that a discovery inserts are the first of their Play.            *)
LEMMA FirstInsert ==
  ASSUME TypeOK, ActInv, NEW d \in Discoverer, act[d].at = "begin", Once(db),
         act[d].cur \notin Stored(db)
  PROVE  /\ Stored(WithInsert(d)) = Stored(db) \cup {act[d].cur}
         /\ Once(WithInsert(d))
<1> DEFINE new == WithInsert(d)
           l == act[d].cur
<1>1. /\ \A s \in PlayState, k \in Listen :
           new.row[s][k] = IF s = act[d].state /\ k = l THEN db.row[s][k] + 1 ELSE db.row[s][k]
      /\ \A s \in PlayState, k \in Listen : db.row[s][k] \in Nat
  BY DiscoveryInserts, DbIs
<1>2. l \in Listen /\ act[d].state \in PlayState
  BY ActIs, Kinds DEF ActInv, Working, Acting
<1>3. db.row["discovered"][l] = 0 /\ db.row["discarded"][l] = 0
  <2>1. \A s \in PlayState : ~(db.row[s][l] > 0)
    BY <1>2 DEF Stored
  <2>2. QED
    BY <1>1, <1>2, <2>1 DEF PlayState
<1> HIDE DEF new, l
<1>4. Stored(new) = Stored(db) \cup {l}
  <2>1. \A k \in Listen \ {l}, s \in PlayState : new.row[s][k] = db.row[s][k]
    BY <1>1
  <2>2. new.row[act[d].state][l] > 0
    BY <1>1, <1>2
  <2>3. QED
    BY <1>2, <2>1, <2>2 DEF Stored
<1>5. Once(new)
  <2>1. ASSUME NEW k \in Listen \ {l}
        PROVE  new.row["discovered"][k] + new.row["discarded"][k] <= 1
    BY <1>1 DEF PlayState, Once
  <2>2. new.row["discovered"][l] + new.row["discarded"][l] <= 1
    BY <1>1, <1>2, <1>3 DEF PlayState
  <2>3. QED
    BY <2>1, <2>2 DEF Once
<1>6. QED
  BY <1>4, <1>5 DEF new, l

LEMMA NothingStored == Once(NoTables)
BY DEF Once, NoTables, PlayState, NoRows

(* The steps of a discovery outside a transaction.                           *)
LEMMA DiscoverKeepsSole ==
  ASSUME Shaped, Sole, NEW d \in Discoverer, Discover(d), ~overlapped'
  PROVE  Sole'
<1>1. TypeOK /\ ActInv
  BY DEF Shaped
<1>2. UNCHANGED <<db, txn>>
  BY DEF Discover, Fetch, PutInCache, Known, New, Push, ReadCached, ReadStored, Forward, Stop
<1>3. Once(db)' /\ Once(txn.before)' /\ Stored(db)' = Stored(db)
      /\ Stored(txn.before)' = Stored(txn.before)
  BY <1>2 DEF Sole, Once, Stored
<1>4. Active(d) => \A e \in Discoverer \ {d} : ~Active(e)
  BY DEF Sole
<1>5. Knows(d) /\ Agrees
  BY DEF Sole
<1>6. ASSUME \A e \in Discoverer \ {d} : ~Active(e), act[d].at \notin {"inserting", "recording"}
      PROVE  cache # NotCached => cache = Stored(db)
  BY <1>5, <1>6 DEF Agrees, Active
<1>7. ASSUME \A e \in Discoverer \ {d} : ~Active(e), AlikeAll(d), Knows(d)',
             cache' # NotCached => cache' = Stored(db)
      PROVE  Sole'
  <2>1. Agrees'
    BY <1>3, <1>7 DEF Agrees
  <2>2. QED
    BY <1>3, <1>7, <2>1, SoleBy
<1>8. CASE Fetch(d)
  <2>1. overlapped' = (overlapped \/ \E e \in Discoverer \ {d} : Active(e)) /\ cache' = cache
    BY <1>8 DEF Fetch
  <2>2. \A e \in Discoverer \ {d} : ~Active(e)
    BY <2>1
  <2>3. Alone(d) /\ act[d].at = "idle" /\ act'[d].at = "next"
    BY <1>1, <1>8, FetchIs
  <2>4. QED
    BY <1>6, <1>7, <2>1, <2>2, <2>3, AloneIsAlike DEF Knows
<1>9. CASE ReadCached(d) \/ ReadStored(d)
  <2>1. /\ Alone(d) /\ act[d].at = "next"
        /\ \/ /\ cache # NotCached /\ act'[d].at = "comparing"
              /\ act'[d].list = cache \cap {act'[d].cur}
           \/ /\ cache = NotCached /\ act'[d].at = "caching"
              /\ act'[d].list = Stored(db)
    BY <1>1, <1>9, ReadIs
  <2>2. cache' = cache /\ \A e \in Discoverer \ {d} : ~Active(e)
    BY <1>4, <1>9, <2>1 DEF ReadCached, ReadStored, Active
  <2>3. cache # NotCached => cache = Stored(db)
    BY <1>6, <2>1, <2>2
  <2>4. Knows(d)'
    BY <1>3, <2>1, <2>3 DEF Knows
  <2>5. QED
    BY <1>7, <2>1, <2>2, <2>3, <2>4, AloneIsAlike
<1>10. CASE PutInCache(d)
  <2>1. /\ AlikeAll(d) /\ act[d].at = "caching" /\ act'[d].at = "comparing"
        /\ act'[d].cur = act[d].cur /\ act'[d].list = act[d].list \cap {act[d].cur}
        /\ cache' = act[d].list
    BY <1>1, <1>10, PutInCacheIs
  <2>2. cache' = Stored(db)
    BY <1>5, <2>1 DEF Knows
  <2>3. Knows(d)'
    BY <1>3, <2>1, <2>2 DEF Knows
  <2>4. QED
    BY <1>4, <1>7, <2>1, <2>2, <2>3 DEF Active
<1>11. CASE Known(d)
  <2>1. Alone(d) /\ act[d].at = "comparing" /\ act'[d].at = "next" /\ cache' = cache
    BY <1>1, <1>11, KnownIs DEF Known
  <2>2. QED
    BY <1>4, <1>6, <1>7, <2>1, AloneIsAlike DEF Knows, Active
<1>12. CASE New(d)
  <2>1. /\ Alone(d) /\ act[d].at = "comparing" /\ act[d].cur \notin act[d].list
        /\ act'[d].at = "begin" /\ act'[d].cur = act[d].cur /\ cache' = cache
    BY <1>1, <1>12, NewIs DEF New
  <2>2. Knows(d)'
    BY <1>3, <1>5, <2>1 DEF Knows
  <2>3. QED
    BY <1>4, <1>6, <1>7, <2>1, <2>2, AloneIsAlike DEF Active
<1>13. CASE Stop(d)
  <2>1. Alone(d) /\ act[d].at \in {"next", "comparing", "forwarding"} /\ act'[d].at = "idle"
        /\ cache' = cache
    BY <1>1, <1>13, StopIs, IdleShape DEF Stop
  <2>2. QED
    BY <1>4, <1>6, <1>7, <2>1, AloneIsAlike DEF Knows, Active
<1>14. CASE Push(d)
  <2>1. /\ AlikeAll(d) /\ act[d].at = "recording" /\ act'[d].at = "next"
        /\ cache' = IF cache = NotCached THEN cache ELSE cache \cup {act[d].cur}
    BY <1>1, <1>14, PushIs
  <2>2. cache' # NotCached => cache' = Stored(db)
    BY <1>5, <2>1 DEF Knows
  <2>3. QED
    BY <1>4, <1>7, <2>1, <2>2 DEF Knows, Active
<1>15. CASE Forward(d)
  <2>1. /\ act[d].at = "next" /\ act'[d].at = "idle" /\ cache' = cache
        /\ \A e \in Discoverer \ {d} : act'[e] = act[e]
    BY <1>1, <1>15, ForwardIs, IdleShape, Kinds DEF Forward, Alone
  <2>2. \A e \in Discoverer : act'[e].at = "idle"
    BY <1>4, <2>1 DEF Active
  <2>3. cache # NotCached => cache = Stored(db)
    BY <1>4, <1>6, <2>1 DEF Active
  <2>4. QED
    BY <1>3, <2>1, <2>2, <2>3 DEF Sole, Knows, Agrees, Active
<1>16. QED
  BY <1>8, <1>9, <1>10, <1>11, <1>12, <1>13, <1>14, <1>15 DEF Discover

(* A step of anybody else, who leaves the Plays of the Source as they are.   *)
LEMMA OthersKeepSole ==
  ASSUME Sole,
         \A e \in Discoverer : /\ act'[e].at = act[e].at /\ act'[e].cur = act[e].cur
                               /\ act'[e].list = act[e].list,
         cache' = cache \/ cache' = NotCached,
         db'.row = db.row, Once(txn.before)',
         \/ Stored(txn.before)' = Stored(txn.before)
         \/ \A e \in Discoverer : act[e].at # "inserting"
  PROVE  Sole'
<1>1. Stored(db)' = Stored(db) /\ Once(db)'
  BY StoredIs DEF Sole
<1>2. ASSUME NEW e \in Discoverer
      PROVE  Knows(e)'
  BY <1>1 DEF Sole, Knows
<1>3. Agrees'
  BY <1>1 DEF Sole, Agrees
<1>4. QED
  BY <1>1, <1>2, <1>3 DEF Sole, Active

LEMMA SoleStep ==
  ASSUME Shaped, Sole, Next, ~overlapped'
  PROVE  Sole'
<1>1. TypeOK /\ ActInv /\ TxnInv
  BY DEF Shaped
<1> USE Kinds
<1>2. ASSUME NEW d \in Discoverer, Begin(d)
      PROVE  Sole'
  <2>1. /\ act[d].at = "begin" /\ act'[d].at = "inserting" /\ act'[d].cur = act[d].cur
        /\ Alone(d)
    BY <1>1, <1>2, TransactIs DEF Turns
  <2>2. txn' = [by |-> d, before |-> db] /\ db' = WithInsert(d) /\ cache' = cache
    BY <1>2 DEF Begin
  <2>3. Active(d) /\ \A e \in Discoverer \ {d} : ~Active(e)
    BY <2>1 DEF Sole, Active
  <2>4. cache # NotCached => cache = Stored(db)
    BY <2>1, <2>3 DEF Sole, Agrees, Active
  <2>5. Stored(db') = Stored(db) \cup {act[d].cur} /\ Once(db')
    BY <1>1, <2>1, <2>2, FirstInsert DEF Sole, Knows
  <2>6. txn'.before = db
    BY <2>2
  <2>7. Stored(txn'.before) = Stored(db) /\ Once(txn'.before)
    BY <2>6, StoredIs DEF Sole
  <2>8. Knows(d)' /\ Agrees'
    BY <2>1, <2>2, <2>4, <2>5, <2>7 DEF Knows, Agrees
  <2>9. QED
    BY <2>1, <2>3, <2>5, <2>7, <2>8, AloneIsAlike, SoleBy
<1>3. ASSUME NEW d \in Discoverer, Commit(d)
      PROVE  Sole'
  <2>1. /\ act[d].at = "inserting" /\ act'[d].at = "recording" /\ act'[d].cur = act[d].cur
        /\ Alone(d)
    BY <1>1, <1>3, TransactIs DEF Turns
  <2>2. txn' = NoTxn /\ db' = db /\ cache' = cache
    BY <1>3 DEF Commit
  <2>3. \A e \in Discoverer \ {d} : ~Active(e)
    BY <2>1 DEF Sole, Active
  <2>4. Once(db)' /\ Once(txn.before)' /\ Stored(db)' = Stored(db)
    BY <2>2, StoredIs, NoTablesAre, NothingStored DEF Sole
  <2>5. Knows(d)' /\ Agrees'
    BY <2>1, <2>2, <2>4 DEF Sole, Knows, Agrees
  <2>6. QED
    BY <2>1, <2>3, <2>4, <2>5, AloneIsAlike, SoleBy
<1>4. ASSUME NEW d \in Discoverer, DiscoveryFails(d)
      PROVE  Sole'
  <2>1. act[d].at = "inserting" /\ act'[d].at = "idle" /\ Alone(d)
    BY <1>1, <1>4, FailsIs, IdleShape
  <2>2. txn' = NoTxn /\ db' = RolledBack /\ cache' = cache
    BY <1>4 DEF DiscoveryFails
  <2>3. \A e \in Discoverer \ {d} : ~Active(e)
    BY <2>1 DEF Sole, Active
  <2>4. txn # NoTxn
    BY <1>1, <2>1, NoTablesAre DEF TxnInv
  <2>5. db' = txn.before
    BY <2>2, <2>4 DEF RolledBack
  <2>6. Once(db)' /\ Once(txn.before)' /\ Stored(db)' = Stored(txn.before)
    BY <2>2, <2>5, StoredIs, NoTablesAre, NothingStored DEF Sole
  <2>7. Knows(d)' /\ Agrees'
    BY <2>1, <2>2, <2>6 DEF Sole, Knows, Agrees
  <2>8. QED
    BY <2>1, <2>3, <2>6, <2>7, AloneIsAlike, SoleBy
<1>5. CASE ProcessDies
  <2>1. txn' = NoTxn /\ db' = RolledBack /\ cache' = NotCached
    BY <1>5 DEF ProcessDies
  <2>2. \A e \in Discoverer : act'[e].at = "idle"
    BY <1>5, DiesIs, IdleShape
  <2>3. Once(db)' /\ Once(txn.before)'
    BY <2>1, StoredIs, NoTablesAre, NothingStored DEF Sole, RolledBack
  <2>4. QED
    BY <2>1, <2>2, <2>3 DEF Sole, Knows, Agrees, Active
<1>6. ASSUME NEW b \in Batch, Begin(b)
      PROVE  Sole'
  <2>1. act[b].at = "begin" /\ Alone(b)
    BY <1>1, <1>6, TransactIs DEF Turns
  <2>2. /\ txn' = [by |-> b, before |-> db] /\ db' = WithInsert(b) /\ cache' = cache
        /\ txn = NoTxn
    BY <1>6 DEF Begin, MayBegin
  <2>3. db'.row = db.row
    BY <1>1, <2>1, <2>2, HandOverInserts
  <2>4. txn'.before = db
    BY <2>2
  <2>5. Once(txn.before)'
    BY <2>4, StoredIs DEF Sole
  <2>6. \A e \in Discoverer : act[e].at # "inserting"
    BY <1>1, <2>2, NoTablesAre DEF TxnInv
  <2>7. QED
    BY <2>1, <2>2, <2>3, <2>5, <2>6, OthersKeepSole DEF Alone
<1>7. ASSUME NEW b \in Batch, Commit(b)
      PROVE  Sole'
  <2>1. act[b].at = "inserting" /\ Alone(b)
    BY <1>1, <1>7, TransactIs DEF Turns
  <2>2. txn' = NoTxn /\ db' = db /\ cache' = cache
    BY <1>7 DEF Commit
  <2>3. Once(txn.before)'
    BY <2>2, NoTablesAre, NothingStored
  <2>4. \A e \in Discoverer : act[e].at # "inserting"
    BY <1>1, <2>1 DEF TxnInv
  <2>5. QED
    BY <2>1, <2>2, <2>3, <2>4, OthersKeepSole DEF Alone
<1>8. ASSUME txn' = txn, db'.row = db.row, cache' = cache \/ cache' = NotCached,
             \A e \in Discoverer : /\ act'[e].at = act[e].at /\ act'[e].cur = act[e].cur
                                   /\ act'[e].list = act[e].list
      PROVE  Sole'
  <2>1. Once(txn.before)' /\ Stored(txn.before)' = Stored(txn.before)
    BY <1>8, StoredIs DEF Sole
  <2>2. QED
    BY <1>8, <2>1, OthersKeepSole
<1>9. ASSUME NEW b \in Batch, HandOver(b)
      PROVE  Sole'
  <2>1. Alone(b) /\ txn' = txn /\ cache' = cache
    BY <1>1, <1>9, CheckIs, AddToQueueIs DEF HandOver, Check, AddToQueue
  <2>2. db'.row = db.row
    BY <1>1, <1>9, QueueRowIs DEF HandOver, Check
  <2>3. QED
    BY <1>8, <2>1, <2>2 DEF Alone
<1>10. CASE Expire
  <2>1. txn' = txn /\ db' = db /\ cache' = NotCached /\ act' = Unshared(act)
    BY <1>10 DEF Expire
  <2>2. QED
    BY <1>1, <1>8, <2>1, ActIs, UnsharedIs
<1>11. CASE (\E l \in Listen : Listened(l)) \/ Abort \/ PollAgain \/ SwitchMonitoring
  BY <1>8, <1>11 DEF Listened, Abort, PollAgain, SwitchMonitoring
<1>12. QED
  <2>1. ASSUME NEW a \in Activity, Transact(a)
        PROVE  Sole'
    BY <1>2, <1>3, <1>6, <1>7, <2>1 DEF Transact, Activity
  <2>2. ASSUME NEW d \in Discoverer, Discover(d)
        PROVE  Sole'
    BY <2>2, DiscoverKeepsSole
  <2>3. QED
    BY <1>4, <1>5, <1>9, <1>10, <1>11, <2>1, <2>2 DEF Next, HandOverFails, Crash

\* what has overlapped has
LEMMA OverlapStays ==
  ASSUME Next, overlapped
  PROVE  overlapped'
BY DEF Next, Discover, Fetch, PutInCache, Known, New, Push, ReadCached, ReadStored, Forward,
       Stop, HandOver, Check, AddToQueue, Transact, Begin, Commit, DiscoveryFails,
       HandOverFails, Abort, PollAgain, Crash, SwitchMonitoring, Expire, Listened, history

DiscoveryInv == Shaped /\ (~overlapped => Sole)

LEMMA DiscoveryInvStep ==
  ASSUME DiscoveryInv, [Next]_vars
  PROVE  DiscoveryInv'
<1>1. CASE UNCHANGED vars
  <2>1. UNCHANGED <<db, txn, cache, act, overlapped>> /\ (Shaped => Shaped')
    BY <1>1, ShapedStays
  <2>2. Sole => Sole'
    BY <2>1 DEF Sole, Knows, Agrees, Active, Once, Stored
  <2>3. QED
    BY <2>1, <2>2 DEF DiscoveryInv
<1>2. CASE Next
  BY <1>2, ShapedStep, SoleStep, OverlapStays DEF DiscoveryInv
<1>3. QED
  BY <1>1, <1>2

LEMMA DiscoveryInvInit == Init => DiscoveryInv
<1>1. ASSUME Init
      PROVE  Sole
  <2>1. (\A d \in Discoverer : act[d].at = "idle") /\ cache = NotCached
    BY <1>1, Kinds, IdleShape DEF Init
  <2>2. Once(db) /\ Once(txn.before)
    BY <1>1, NothingStored, NoTablesAre DEF Init
  <2>3. QED
    BY <2>1, <2>2 DEF Sole, Knows, Agrees, Active
<1>2. QED
  BY <1>1, ShapedInit DEF DiscoveryInv

\* Without two discoveries at the same time every Play is stored once, and the
\* list in memory names what is stored; the state is always of its type.  It
\* holds with any number of hand-overs beside, any faults and any timing of
\* the expiry of the list: a discovery never stores what it compared too early
\* with, however the transactions of the others interleave
\* (discover, addPlayToDB, getRecentlyDiscoveredPlays).
THEOREM DiscoveriesAlwaysSound == Spec => []DiscoveriesAreSound
<1>1. DiscoveryInv => DiscoveriesAreSound
  <2>1. Agrees <=> (cache # NotCached
          /\ (\A d \in Discoverer : act[d].at \notin {"inserting", "recording"})
              => cache = Stored(db))
    BY DEF Agrees
  <2>2. QED
    BY <2>1 DEF DiscoveryInv, Shaped, Sole, Once, DiscoveriesAreSound, DiscoveredOnce,
                CacheAgrees
<1>2. Spec => []DiscoveryInv
  BY DiscoveryInvInit, DiscoveryInvStep, PTL DEF Spec
<1>3. QED
  BY <1>1, <1>2, PTL
-----------------------------------------------------------------------------
(* What is handed over is stored *)

\* all a step of discovery d may make of what has been found
HandsOver(d, b) ==
  /\ ~Active(b) /\ act'[d] = Idle
  /\ \A e \in Activity \ {d, b} : act'[e] = act[e]
  /\ act'[b].at = "next" /\ act'[b].client = 1
  /\ act'[b].todo = act[d].found /\ act'[b].found = act[d].found

Finds(d) ==
  \/ /\ AlikeAll(d) /\ act[d].at = "recording"
     /\ act'[d].found = IF Joins(d) THEN act[d].found \cup {act[d].cur} ELSE act[d].found
  \/ AlikeAll(d) /\ act[d].at # "recording" /\ act'[d].found = act[d].found
  \/ AlikeAll(d) /\ act[d].at # "recording" /\ act'[d].found = {} /\ aborted
  \/ act[d].at # "recording" /\ \E b \in Batch : HandsOver(d, b)

LEMMA DiscoverIs ==
  ASSUME TypeOK, ActInv, NEW d \in Discoverer, Discover(d)
  PROVE  /\ UNCHANGED <<db, txn, happened, crashes>>
         /\ act[d].at # "inserting" /\ act'[d].at \notin {"inserting", "recording"}
         /\ Finds(d)
<1>1. UNCHANGED <<db, txn, happened, crashes>>
  BY DEF Discover, Fetch, PutInCache, Known, New, Push, ReadCached, ReadStored, Forward,
         Stop, history
<1> DEFINE Goal == /\ act[d].at # "inserting" /\ act'[d].at \notin {"inserting", "recording"}
                   /\ Finds(d)
<1> SUFFICES Goal
  BY <1>1
<1>2. CASE Fetch(d)
  <2>1. act[d].found = {}
    BY <1>2, Kinds DEF Fetch, ActInv
  <2>2. QED
    BY <1>2, <2>1, FetchIs, AloneIsAlike DEF Finds
<1>3. CASE ReadCached(d) \/ ReadStored(d)
  BY <1>3, ReadIs, AloneIsAlike DEF Finds, Keeps
<1>4. CASE PutInCache(d)
  BY <1>4, PutInCacheIs DEF Finds, Keeps
<1>5. CASE Known(d) \/ New(d)
  BY <1>5, KnownIs, NewIs, AloneIsAlike DEF Finds, Keeps
<1>6. CASE Stop(d)
  BY <1>6, StopIs, AloneIsAlike, IdleShape DEF Finds
<1>7. CASE Push(d)
  BY <1>7, PushIs DEF Finds
<1>8. CASE Forward(d)
  <2>1. act[d].at = "next" /\ act'[d].at = "idle" /\ act'[d].found = {} /\ act'[d] = Idle
    BY <1>8, ForwardIs, IdleShape
  <2>2. CASE act[d].found = {} /\ Alone(d)
    BY <2>1, <2>2, AloneIsAlike DEF Finds
  <2>3. ASSUME NEW b \in Batch, HandsOver(d, b)
        PROVE  Goal
    BY <2>1, <2>3 DEF Finds
  <2>4. QED
    BY <1>8, <2>2, <2>3, ForwardIs DEF HandsOver
<1>9. QED
  BY <1>2, <1>3, <1>4, <1>5, <1>6, <1>7, <1>8 DEF Discover

\* the Plays whose row nothing may undo: those somebody holds, and those a
\* Client has or would have again after a rollback
Found(a) ==
  act[a].found \cup
  {l \in Listen : /\ a \in Discoverer /\ act[a].at = "recording"
                  /\ act[a].state = "discovered" /\ l = act[a].cur}
Queued(t) == {l \in Listen : \E c \in Client : t.queued[c][l] > 0}
Wanted == (UNION {Found(a) : a \in Activity}) \cup Queued(db) \cup Queued(txn.before)

Rows(t) == {l \in Listen : t.row["discovered"][l] > 0}

ForwardInv ==
  /\ Wanted \subseteq Rows(db)
  /\ txn.by # None => Wanted \subseteq Rows(txn.before)
  /\ \A d \in Discoverer : act[d].at = "inserting" /\ act[d].state = "discovered"
                             => act[d].cur \in Rows(db)

LEMMA RowsAre ==
  ASSUME NEW t, NEW u
  PROVE  /\ t.row = u.row => Rows(t) = Rows(u)
         /\ t.queued = u.queued => Queued(t) = Queued(u)
BY DEF Rows, Queued

LEMMA DiscoverWants ==
  ASSUME TypeOK, ActInv, NEW d \in Discoverer, Discover(d)
  PROVE  Wanted' \subseteq Wanted
<1>1. /\ UNCHANGED <<db, txn>> /\ act'[d].at \notin {"inserting", "recording"}
      /\ Finds(d)
  BY DiscoverIs
<1>2. Queued(db)' = Queued(db) /\ Queued(txn.before)' = Queued(txn.before)
  BY <1>1 DEF Queued
<1>3. act[d].found \subseteq Found(d) /\ d \in Activity
  BY Kinds DEF Found
<1>4. CASE \E b \in Batch : HandsOver(d, b)
  <2>1. PICK b \in Batch : HandsOver(d, b)
    BY <1>4
  <2>2. ASSUME NEW a \in Activity
        PROVE  Found(a)' \subseteq Wanted
    <3>1. CASE a = b
      <4>1. act'[b].found = act[d].found /\ b \notin Discoverer
        BY <2>1, Kinds DEF HandsOver
      <4>2. Found(b)' = act'[b].found
        BY <4>1 DEF Found
      <4>3. Found(d) \subseteq Wanted
        BY <1>3 DEF Wanted
      <4>4. QED
        BY <1>3, <3>1, <4>1, <4>2, <4>3
    <3>2. CASE a = d
      BY <2>1, <3>2, IdleShape DEF HandsOver, Found
    <3>3. CASE a \notin {b, d}
      <4>1. act'[a] = act[a]
        BY <2>1, <3>3 DEF HandsOver
      <4>2. Found(a)' = Found(a)
        BY <4>1 DEF Found
      <4>3. QED
        BY <4>2 DEF Wanted
    <3>4. QED
      BY <3>1, <3>2, <3>3
  <2>3. QED
    BY <1>2, <2>2 DEF Wanted
<1>5. CASE AlikeAll(d) /\ act[d].at = "recording"
           /\ act'[d].found = IF Joins(d) THEN act[d].found \cup {act[d].cur} ELSE act[d].found
  <2>1. act[d].cur \in Listen
    BY <1>3, <1>5 DEF ActInv, Working
  <2>2. act'[d].found \subseteq Found(d)
    BY <1>3, <1>5, <2>1 DEF Found, Joins
  <2>3. Found(d)' \subseteq Found(d)
    BY <1>1, <2>2 DEF Found
  <2>4. \A a \in Activity \ {d} : Found(a)' \subseteq Found(a)
    BY <1>5 DEF AlikeAll, Alike, Found
  <2>5. QED
    BY <1>2, <2>3, <2>4 DEF Wanted
<1>6. CASE AlikeAll(d) /\ act'[d].found \subseteq act[d].found
  <2>1. \A a \in Activity : Found(a)' \subseteq Found(a)
    BY <1>1, <1>6 DEF AlikeAll, Alike, Found
  <2>2. QED
    BY <1>2, <2>1 DEF Wanted
<1>7. QED
  BY <1>1, <1>4, <1>5, <1>6 DEF Finds

(* The parts of what is wanted.                                              *)
LEMMA WantedIs ==
  /\ \A a \in Activity : Found(a) \subseteq Wanted
  /\ Queued(db) \subseteq Wanted /\ Queued(txn.before) \subseteq Wanted
BY DEF Wanted

LEMMA WantedBy ==
  ASSUME NEW S, \A a \in Activity : Found(a)' \subseteq S,
         Queued(db)' \subseteq S, Queued(txn.before)' \subseteq S
  PROVE  Wanted' \subseteq S
BY DEF Wanted

LEMMA OthersFound ==
  ASSUME NEW a \in Activity, Alone(a)
  PROVE  \A e \in Activity \ {a} : Found(e)' = Found(e)
BY DEF Alone, Found

LEMMA HandOverIs ==
  ASSUME TypeOK, ActInv, NEW b \in Batch, HandOver(b)
  PROVE  /\ UNCHANGED <<txn, happened, crashes, aborted>> /\ Alone(b)
         /\ act'[b].found \subseteq act[b].found
         /\ \/ AddToQueue(b) /\ act[b].at = "recording"
            \/ db' = db /\ Check(b) /\ act[b].at = "next"
         /\ act'[b].at \notin {"inserting", "recording"}
<1>1. UNCHANGED <<txn, happened, crashes, aborted>>
  BY DEF HandOver, Check, AddToQueue, history, polls
<1>2. CASE AddToQueue(b)
  <2>1. Alone(b) /\ act[b].at = "recording" /\ Advances(b, act[b].cur)
    BY <1>2, AddToQueueIs
  <2>2. act'[b].found \subseteq act[b].found /\ act'[b].at \notin {"inserting", "recording"}
    BY <2>1, IdleShape DEF Advances
  <2>3. QED
    BY <1>1, <1>2, <2>1, <2>2
<1>3. CASE Check(b)
  <2>1. /\ Alone(b) /\ act[b].at = "next"
        /\ \E l \in act[b].todo :
             \/ AlreadyQueued(act[b].client, l) /\ Advances(b, l)
             \/ /\ act'[b].at = "begin" /\ act'[b].cur = l /\ act'[b].todo = act[b].todo
                /\ Keeps(b)
    BY <1>3, CheckIs
  <2>2. act'[b].found \subseteq act[b].found /\ act'[b].at \notin {"inserting", "recording"}
    BY <2>1, IdleShape DEF Advances, Keeps
  <2>3. db' = db
    BY <1>3 DEF Check
  <2>4. QED
    BY <1>1, <1>3, <2>1, <2>2, <2>3
<1>4. QED
  BY <1>2, <1>3 DEF HandOver

LEMMA ForwardStep ==
  ASSUME TypeOK, ActInv, TxnInv, ForwardInv, Next
  PROVE  ForwardInv'
<1> USE Kinds
<1>1. \A a \in Activity : act[a].at # "inserting" \/ txn.by = a
  BY DEF TxnInv
<1>2. ASSUME Wanted' \subseteq Wanted, txn' = txn, Rows(db)' = Rows(db),
             \A d \in Discoverer : act'[d].at = "inserting" =>
               act[d].at = "inserting" /\ act'[d].cur = act[d].cur
               /\ act'[d].state = act[d].state
      PROVE  ForwardInv'
  <2>1. Rows(txn.before)' = Rows(txn.before)
    BY <1>2 DEF Rows
  <2>2. QED
    BY <1>2, <2>1 DEF ForwardInv
<1>3. ASSUME NEW d \in Discoverer, Discover(d)
      PROVE  ForwardInv'
  <2>1. Wanted' \subseteq Wanted
    BY <1>3, DiscoverWants
  <2>2. /\ UNCHANGED <<db, txn>> /\ act'[d].at \notin {"inserting", "recording"} /\ Finds(d)
    BY <1>3, DiscoverIs
  <2>3. Rows(db)' = Rows(db)
    BY <2>2 DEF Rows
  <2>4. ASSUME NEW e \in Discoverer, act'[e].at = "inserting"
        PROVE  act[e].at = "inserting" /\ act'[e].cur = act[e].cur /\ act'[e].state = act[e].state
    BY <2>2, <2>4 DEF Finds, HandsOver, AlikeAll, Alike
  <2>5. QED
    BY <1>2, <2>1, <2>2, <2>3, <2>4
<1>4. ASSUME NEW b \in Batch, HandOver(b)
      PROVE  ForwardInv'
  <2>1. /\ txn' = txn /\ Alone(b) /\ act'[b].found \subseteq act[b].found
        /\ (AddToQueue(b) /\ act[b].at = "recording") \/ db' = db
    BY <1>4, HandOverIs
  <2>2. Found(b)' \subseteq Found(b) /\ act[b].found \subseteq Found(b)
    BY <2>1 DEF Found
  <2>3. \A a \in Activity : Found(a)' \subseteq Wanted
    BY <2>1, <2>2, OthersFound, WantedIs
  <2>4. Queued(db)' \subseteq Wanted /\ db'.row = db.row
    <3>1. CASE db' = db
      BY <3>1, RowsAre, WantedIs
    <3>2. CASE AddToQueue(b) /\ act[b].at = "recording"
      <4>1. act[b].cur \in act[b].found
        BY <3>2 DEF ActInv
      <4>2. Queued(db)' \subseteq Queued(db) \cup {act[b].cur}
        BY <3>2, QueueRowIs DEF Queued
      <4>3. db'.row = db.row
        BY <3>2, QueueRowIs
      <4>4. QED
        BY <2>2, <4>1, <4>2, <4>3, WantedIs
    <3>3. QED
      BY <2>1, <3>1, <3>2
  <2>5. Queued(txn.before)' = Queued(txn.before)
    BY <2>1 DEF Queued
  <2>6. Wanted' \subseteq Wanted
    BY <2>3, <2>4, <2>5, WantedIs, WantedBy
  <2>7. Rows(db)' = Rows(db)
    BY <2>4, RowsAre
  <2>8. QED
    BY <1>2, <2>1, <2>6, <2>7 DEF Alone
<1>5. ASSUME NEW a \in Activity, Begin(a)
      PROVE  ForwardInv'
  <2>1. /\ txn' = [by |-> a, before |-> db] /\ db' = WithInsert(a) /\ txn = NoTxn
        /\ act[a].at = "begin"
    BY <1>5 DEF Begin, MayBegin
  <2>2. Turns(a, "begin", "inserting") /\ Alone(a)
    BY <1>5, TransactIs
  <2>3. txn'.before = db
    BY <2>1
  <2>4. db'.queued = db.queued
    BY <2>1, DiscoveryInserts, HandOverInserts DEF Activity
  <2>5. Queued(db)' = Queued(db) /\ Queued(txn.before)' = Queued(db)
    BY <2>3, <2>4, RowsAre
  <2>6. Found(a)' \subseteq Found(a)
    BY <2>2 DEF Turns, Keeps, Found
  <2>7. Wanted' \subseteq Wanted
    BY <2>2, <2>5, <2>6, OthersFound, WantedIs, WantedBy
  <2>8. Rows(db) \subseteq Rows(db)' /\ (a \in Discoverer /\ act[a].state = "discovered"
                                           => act[a].cur \in Rows(db)')
    <3>1. CASE a \in Batch
      BY <2>1, <3>1, HandOverInserts, RowsAre
    <3>2. CASE a \in Discoverer
      <4>1. /\ \A s \in PlayState, l \in Listen :
                 db'.row[s][l] = IF s = act[a].state /\ l = act[a].cur
                                 THEN db.row[s][l] + 1 ELSE db.row[s][l]
            /\ \A s \in PlayState, l \in Listen : db.row[s][l] \in Nat
        BY <2>1, <3>2, DiscoveryInserts, DbIs
      <4>2. act[a].cur \in Listen /\ "discovered" \in PlayState
        BY <2>1 DEF ActInv, Working, PlayState
      <4>3. QED
        BY <4>1, <4>2 DEF Rows
    <3>3. QED
      BY <3>1, <3>2 DEF Activity
  <2>9. Rows(txn.before)' = Rows(db)
    BY <2>3, RowsAre
  <2>10. ASSUME NEW d \in Discoverer, act'[d].at = "inserting", act'[d].state = "discovered"
         PROVE  act'[d].cur \in Rows(db)'
    <3>1. d = a
      BY <2>1, <2>2, <2>10, <1>1, NoTablesAre DEF Alone
    <3>2. QED
      BY <2>2, <2>8, <2>10, <3>1 DEF Turns
  <2>11. QED
    BY <2>7, <2>8, <2>9, <2>10 DEF ForwardInv
<1>6. ASSUME NEW a \in Activity, Commit(a)
      PROVE  ForwardInv'
  <2>1. txn' = NoTxn /\ db' = db
    BY <1>6 DEF Commit
  <2>2. Turns(a, "inserting", "recording") /\ Alone(a)
    BY <1>6, TransactIs
  <2>3. Queued(db)' = Queued(db) /\ Rows(db)' = Rows(db) /\ Queued(txn.before)' = {}
    <3>1. txn'.before = NoTables
      BY <2>1, NoTablesAre
    <3>2. Queued(NoTables) = {}
      BY DEF Queued, NoTables, NoRows
    <3>3. QED
      BY <2>1, <3>1, <3>2, RowsAre
  <2>4. \A e \in Activity \ {a} : Found(e)' = Found(e)
    BY <2>2, OthersFound
  <2>5. Found(a)' \subseteq Rows(db)
    <3>1. Found(a)' \subseteq act[a].found \cup
            {l \in Listen : a \in Discoverer /\ act[a].state = "discovered" /\ l = act[a].cur}
      BY <2>2 DEF Found, Turns, Keeps
    <3>2. a \in Discoverer /\ act[a].state = "discovered" => act[a].cur \in Rows(db)
      BY <2>2 DEF ForwardInv, Turns
    <3>3. act[a].found \subseteq Wanted
      BY WantedIs DEF Found
    <3>4. QED
      BY <3>1, <3>2, <3>3 DEF ForwardInv
  <2>6. Wanted' \subseteq Rows(db)
    BY <2>3, <2>4, <2>5, WantedIs, WantedBy DEF ForwardInv
  <2>7. \A d \in Discoverer : act'[d].at # "inserting"
    BY <1>1, <2>2 DEF Alone, Turns
  <2>8. txn'.by = None
    BY <2>1, NoTablesAre
  <2>9. QED
    BY <2>3, <2>6, <2>7, <2>8 DEF ForwardInv
<1>7. ASSUME db' = RolledBack, txn' = NoTxn, \A a \in Activity : Found(a)' \subseteq Found(a),
             \A d \in Discoverer : act'[d].at # "inserting"
      PROVE  ForwardInv'
  <2>1. txn'.by = None /\ txn'.before = NoTables
    BY <1>7, NoTablesAre
  <2>2. Queued(NoTables) = {}
    BY DEF Queued, NoTables, NoRows
  <2>3. Queued(db)' \subseteq Wanted /\ Wanted \subseteq Rows(db)'
    <3>1. CASE txn = NoTxn
      <4>1. db' = db
        BY <1>7, <3>1 DEF RolledBack
      <4>2. QED
        BY <4>1, RowsAre, WantedIs DEF ForwardInv
    <3>2. CASE txn # NoTxn
      <4>1. db' = txn.before /\ txn.by # None
        BY <1>7, <3>2 DEF RolledBack, TxnInv
      <4>2. QED
        BY <4>1, RowsAre, WantedIs DEF ForwardInv
    <3>3. QED
      BY <3>1, <3>2
  <2>4. Queued(txn.before)' = {}
    BY <2>1, <2>2, RowsAre
  <2>5. Wanted' \subseteq Wanted
    BY <1>7, <2>3, <2>4, WantedIs, WantedBy
  <2>6. QED
    BY <1>7, <2>1, <2>3, <2>5 DEF ForwardInv
<1>8. ASSUME NEW d \in Discoverer, DiscoveryFails(d)
      PROVE  ForwardInv'
  <2>1. act[d].at = "inserting" /\ act'[d] = Idle /\ Alone(d)
    BY <1>8, FailsIs
  <2>2. db' = RolledBack /\ txn' = NoTxn
    BY <1>8 DEF DiscoveryFails
  <2>3. Found(d)' = {}
    BY <2>1, IdleShape DEF Found
  <2>4. \A e \in Discoverer : act'[e].at # "inserting"
    BY <1>1, <2>1, IdleShape DEF Alone
  <2>5. QED
    BY <1>7, <2>1, <2>2, <2>3, <2>4, OthersFound
<1>9. CASE ProcessDies
  <2>1. db' = RolledBack /\ txn' = NoTxn
    BY <1>9 DEF ProcessDies
  <2>2. \A a \in Activity : act'[a].at = "idle" /\ act'[a].found = {}
    BY <1>9, DiesIs, IdleShape
  <2>3. \A a \in Activity : Found(a)' = {}
    BY <2>2 DEF Found
  <2>4. QED
    BY <1>7, <2>1, <2>2, <2>3
<1>10. ASSUME txn' = txn, db' = db, \A a \in Activity : Alike(a)
       PROVE  ForwardInv'
  <2>1. \A a \in Activity : Found(a)' = Found(a)
    BY <1>10 DEF Found, Alike
  <2>2. Queued(db)' = Queued(db) /\ Rows(db)' = Rows(db) /\ Queued(txn.before)' = Queued(txn.before)
    BY <1>10, RowsAre
  <2>3. Wanted' \subseteq Wanted
    BY <2>1, <2>2, WantedIs, WantedBy
  <2>4. QED
    BY <1>2, <1>10, <2>2, <2>3 DEF Alike
<1>11. CASE Expire
  BY <1>10, <1>11, ActIs, UnsharedIs DEF Expire, Alike
<1>12. CASE (\E l \in Listen : Listened(l)) \/ Abort \/ PollAgain \/ SwitchMonitoring
  BY <1>10, <1>12 DEF Listened, Abort, PollAgain, SwitchMonitoring, Alike
<1>13. QED
  BY <1>3, <1>4, <1>5, <1>6, <1>8, <1>9, <1>11, <1>12 DEF Next, HandOverFails, Crash, Transact
-----------------------------------------------------------------------------
(* What is discovered is forwarded *)

\* discovery d has Play l, and hand-over b will bring it to Client c
HeldBy(d, l) ==
  \/ l \in act[d].found
  \/ /\ act[d].at \in {"inserting", "recording"}
     /\ act[d].cur = l /\ act[d].state = "discovered"
Brings(b, c, l) ==
  /\ act[b].client <= c /\ l \in act[b].found
  /\ act[b].client = c => l \in act[b].todo

Arrives(c, l) ==
  \/ Reached(c, l)
  \/ \E d \in Discoverer : HeldBy(d, l)
  \/ \E b \in Batch : Brings(b, c, l)

ArriveInv ==
  happened \cap Lossy = {} => \A l \in Rows(db), c \in Client : Arrives(c, l)

LEMMA AlikeArrives ==
  ASSUME NEW c, NEW l, NEW a, Alike(a)
  PROVE  /\ HeldBy(a, l) => HeldBy(a, l)'
         /\ Brings(a, c, l) => Brings(a, c, l)'
BY DEF Alike, HeldBy, Brings

LEMMA SameArrives ==
  ASSUME NEW c, NEW l, NEW a, act'[a] = act[a]
  PROVE  /\ HeldBy(a, l) => HeldBy(a, l)'
         /\ Brings(a, c, l) => Brings(a, c, l)'
BY AlikeArrives DEF Alike

LEMMA DiscoverArrives ==
  ASSUME TypeOK, ActInv, ~aborted, NEW d \in Discoverer, Discover(d),
         NEW c \in Client, NEW l \in Listen, Arrives(c, l)
  PROVE  Arrives(c, l)'
<1>1. UNCHANGED <<db, txn>> /\ act[d].at # "inserting" /\ Finds(d)
  BY DiscoverIs
<1>2. CASE Reached(c, l)
  BY <1>1, <1>2 DEF Reached, Arrives
<1> USE Kinds
<1>3. ASSUME NEW b \in Batch, HandsOver(d, b), act[d].at # "recording"
      PROVE  Arrives(c, l)'
  <2>1. \A e \in Activity \ {d, b} : act'[e] = act[e]
    BY <1>3 DEF HandsOver
  <2>2. ASSUME NEW e \in Discoverer, e # d, HeldBy(e, l)
        PROVE  Arrives(c, l)'
    BY <2>1, <2>2, SameArrives DEF Arrives
  <2>3. ASSUME NEW e \in Batch, Brings(e, c, l)
        PROVE  Arrives(c, l)'
    <3>1. e # b
      BY <1>3, <2>3 DEF ActInv, HandsOver, Brings
    <3>2. act'[e] = act[e]
      BY <2>1, <3>1
    <3>3. QED
      BY <2>3, <3>2, SameArrives DEF Arrives
  <2>4. CASE HeldBy(d, l)
    <3>1. l \in act[d].found /\ 1 <= c
      BY <1>1, <1>3, <2>4 DEF HeldBy, Client
    <3>2. Brings(b, c, l)'
      BY <1>3, <3>1 DEF HandsOver, Brings
    <3>3. QED
      BY <3>2 DEF Arrives
  <2>5. QED
    BY <1>2, <2>2, <2>3, <2>4 DEF Arrives
<1>4. CASE AlikeAll(d) /\ (HeldBy(d, l) => HeldBy(d, l)')
  <2>1. ASSUME NEW e \in Discoverer, HeldBy(e, l)
        PROVE  HeldBy(e, l)'
    BY <1>4, <2>1, AlikeArrives DEF AlikeAll
  <2>2. ASSUME NEW b \in Batch, Brings(b, c, l)
        PROVE  Brings(b, c, l)'
    BY <1>4, <2>2, AlikeArrives DEF AlikeAll
  <2>3. QED
    BY <1>2, <2>1, <2>2 DEF Arrives
<1>5. HeldBy(d, l) /\ act[d].at # "recording" => l \in act[d].found
  BY <1>1 DEF HeldBy
<1>6. CASE AlikeAll(d) /\ act[d].at = "recording"
           /\ act'[d].found = IF Joins(d) THEN act[d].found \cup {act[d].cur} ELSE act[d].found
  BY <1>4, <1>6 DEF HeldBy, Joins
<1>7. CASE AlikeAll(d) /\ act[d].at # "recording" /\ act'[d].found = act[d].found
  BY <1>4, <1>5, <1>7 DEF HeldBy
<1>8. QED
  BY <1>1, <1>3, <1>6, <1>7 DEF Finds

(* The hand-over b leaves Play m behind at its Client, which has it.         *)
LEMMA AdvancesBrings ==
  ASSUME TypeOK, ActInv, NEW b \in Batch, NEW m, Advances(b, m),
         NEW c \in Client, NEW l \in Listen, Brings(b, c, l),
         act[b].client # c \/ l # m
  PROVE  Brings(b, c, l)'
<1>1. act[b].client \in Client /\ act[b].todo \subseteq act[b].found
  BY ActIs, Kinds DEF Acting, ActInv
<1>2. /\ act[b].client \in Int /\ c \in Int /\ c <= Clients /\ Clients \in Int
      /\ act[b].client <= Clients
  BY <1>1, DiscoveryAssumption DEF Client
<1>3. act[b].client <= c /\ l \in act[b].found /\ (act[b].client = c => l \in act[b].todo)
  BY DEF Brings
<1>4. act[b].client = c => l \in act[b].todo \ {m}
  BY <1>3
<1>5. CASE act[b].todo \ {m} # {} /\ act'[b].todo = act[b].todo \ {m}
           /\ act'[b].found = act[b].found /\ act'[b].client = act[b].client
  BY <1>3, <1>4, <1>5 DEF Brings
<1>6. CASE act[b].todo \ {m} = {} /\ act'[b].todo = act[b].found
           /\ act'[b].found = act[b].found /\ act'[b].client = act[b].client + 1
  BY <1>2, <1>3, <1>4, <1>6 DEF Brings
<1>7. CASE act[b].todo \ {m} = {} /\ act[b].client = Clients
  BY <1>2, <1>3, <1>4, <1>7
<1>8. QED
  BY <1>5, <1>6, <1>7 DEF Advances

LEMMA HandOverArrives ==
  ASSUME TypeOK, ActInv, NEW b \in Batch, HandOver(b),
         NEW c \in Client, NEW l \in Listen, Arrives(c, l)
  PROVE  Arrives(c, l)'
<1> USE Kinds
<1>1. /\ Alone(b)
      /\ \/ AddToQueue(b) /\ act[b].at = "recording"
         \/ db' = db /\ Check(b) /\ act[b].at = "next"
  BY HandOverIs
<1>2. \A k \in Client, m \in Listen : db'.queued[k][m] \in Nat /\ db'.queued[k][m] >= db.queued[k][m]
  <2>1. \A k \in Client, m \in Listen : db.queued[k][m] \in Nat
    BY DbIs
  <2>2. CASE db' = db
    BY <2>1, <2>2
  <2>3. CASE AddToQueue(b)
    BY <2>1, <2>3, QueueRowIs
  <2>4. QED
    BY <1>1, <2>2, <2>3
<1>3. \A k \in Client, m \in Listen : db.queued[k][m] \in Nat
  BY DbIs
<1>4. Reached(c, l) => Reached(c, l)'
  BY <1>2, <1>3 DEF Reached
<1>5. ASSUME NEW a \in Activity \ {b}
      PROVE  (HeldBy(a, l) => HeldBy(a, l)') /\ (Brings(a, c, l) => Brings(a, c, l)')
  BY <1>1, SameArrives DEF Alone
<1>6. ASSUME Brings(b, c, l)
      PROVE  Reached(c, l)' \/ Brings(b, c, l)'
  <2>1. CASE AddToQueue(b)
    <3>1. Advances(b, act[b].cur)
      BY <2>1, AddToQueueIs
    <3>2. CASE act[b].client = c /\ act[b].cur = l
      BY <1>3, <2>1, <3>2, QueueRowIs DEF Reached
    <3>3. QED
      BY <1>6, <3>1, <3>2, AdvancesBrings
  <2>2. CASE Check(b)
    <3>1. PICK m \in act[b].todo :
             \/ AlreadyQueued(act[b].client, m) /\ Advances(b, m)
             \/ act'[b].todo = act[b].todo /\ Keeps(b)
      BY <2>2, CheckIs
    <3>2. CASE AlreadyQueued(act[b].client, m) /\ Advances(b, m)
      <4>1. CASE act[b].client = c /\ m = l
        BY <1>4, <3>2, <4>1 DEF AlreadyQueued, Reached
      <4>2. QED
        BY <1>6, <3>2, <4>1, AdvancesBrings
    <3>3. CASE act'[b].todo = act[b].todo /\ Keeps(b)
      BY <1>6, <3>3 DEF Brings, Keeps
    <3>4. QED
      BY <3>1, <3>2, <3>3
  <2>3. QED
    BY <1>1, <2>1, <2>2
<1>7. QED
  BY <1>4, <1>5, <1>6 DEF Arrives

LEMMA ArriveStep ==
  ASSUME Shaped, ArriveInv, Next
  PROVE  ArriveInv'
<1> USE Kinds
<1>1. TypeOK /\ ActInv /\ TxnInv /\ CountInv
  BY DEF Shaped
<1>2. SUFFICES ASSUME happened' \cap Lossy = {}, NEW l \in Rows(db)', NEW c \in Client
               PROVE  Arrives(c, l)'
  BY DEF ArriveInv
<1>3. l \in Listen
  BY DEF Rows
<1>4. happened \subseteq happened'
  BY DEF Next, Discover, Fetch, PutInCache, Known, New, Push, ReadCached, ReadStored, Forward,
         Stop, HandOver, Check, AddToQueue, Transact, Begin, Commit, DiscoveryFails,
         HandOverFails, Abort, PollAgain, Crash, SwitchMonitoring, Expire, Listened, history,
         Happens
<1>5. happened \cap Lossy = {} /\ ~aborted
  BY <1>1, <1>2, <1>4 DEF CountInv
<1>6. l \in Rows(db) => Arrives(c, l)
  BY <1>5 DEF ArriveInv
<1>7. ASSUME NEW kind \in Lossy, Happens(kind)
      PROVE  FALSE
  BY <1>2, <1>7 DEF Happens
<1>8. ASSUME db' = db, \A a \in Activity : Alike(a)
      PROVE  Arrives(c, l)'
  <2>1. Arrives(c, l)
    BY <1>6, <1>8, RowsAre
  <2>2. Reached(c, l) => Reached(c, l)'
    BY <1>8 DEF Reached
  <2>3. QED
    BY <1>8, <2>1, <2>2, AlikeArrives DEF Arrives
<1>9. ASSUME NEW d \in Discoverer, Discover(d)
      PROVE  Arrives(c, l)'
  <2>1. db' = db
    BY <1>1, <1>9, DiscoverIs
  <2>2. QED
    BY <1>1, <1>3, <1>5, <1>6, <1>9, <2>1, RowsAre, DiscoverArrives
<1>10. ASSUME NEW b \in Batch, HandOver(b)
       PROVE  Arrives(c, l)'
  <2>1. db'.row = db.row
    BY <1>1, <1>10, HandOverIs, QueueRowIs
  <2>2. QED
    BY <1>1, <1>3, <1>6, <1>10, <2>1, RowsAre, HandOverArrives
<1>11. ASSUME NEW a \in Activity, Transact(a)
       PROVE  Arrives(c, l)'
  <2>1. PICK from \in {"begin", "inserting"}, to \in {"inserting", "recording"} :
          Turns(a, from, to) /\ Alone(a)
    BY <1>1, <1>11, TransactIs DEF Transact
  <2>2. db'.queued = db.queued
    BY <1>1, <1>11, DiscoveryInserts, HandOverInserts DEF Transact, Begin, Commit, Activity
  <2>3. CASE Arrives(c, l)
    <3>1. Reached(c, l) => Reached(c, l)'
      BY <2>2 DEF Reached
    <3>2. \A e \in Activity \ {a} : /\ HeldBy(e, l) => HeldBy(e, l)'
                                    /\ Brings(e, c, l) => Brings(e, c, l)'
      BY <2>1, SameArrives DEF Alone
    <3>3. /\ HeldBy(a, l) => HeldBy(a, l)'
          /\ Brings(a, c, l) => Brings(a, c, l)'
      BY <2>1 DEF Turns, Keeps, HeldBy, Brings
    <3>4. QED
      BY <2>3, <3>1, <3>2, <3>3 DEF Arrives
  <2>4. CASE l \notin Rows(db)
    <3>1. a \in Discoverer /\ Begin(a)
      BY <1>1, <1>11, <2>4, HandOverInserts, RowsAre DEF Transact, Begin, Commit, Activity
    <3>2. db' = WithInsert(a) /\ act[a].at = "begin"
      BY <3>1 DEF Begin
    <3>3. \A s \in PlayState, k \in Listen :
            db'.row[s][k] = IF s = act[a].state /\ k = act[a].cur
                            THEN db.row[s][k] + 1 ELSE db.row[s][k]
      BY <1>1, <3>1, <3>2, DiscoveryInserts
    <3>4. l = act[a].cur /\ act[a].state = "discovered"
      BY <1>3, <2>4, <3>3 DEF Rows, PlayState
    <3>5. HeldBy(a, l)'
      BY <2>1, <3>4 DEF HeldBy, Turns
    <3>6. QED
      BY <3>1, <3>5 DEF Arrives
  <2>5. QED
    BY <1>6, <2>3, <2>4
<1>12. CASE Expire
  BY <1>1, <1>8, <1>12, ActIs, UnsharedIs DEF Expire, Alike
<1>13. CASE (\E k \in Listen : Listened(k)) \/ PollAgain \/ SwitchMonitoring
  BY <1>8, <1>13 DEF Listened, PollAgain, SwitchMonitoring, Alike
<1>14. QED
  BY <1>7, <1>9, <1>10, <1>11, <1>12, <1>13
     DEF Next, HandOverFails, DiscoveryFails, Crash, Abort, Lossy
-----------------------------------------------------------------------------
(* Few Plays of a Client are without a row of its queue *)

Pair == Client \X Listen

\* the hand-overs that will bring the row of the queue, or take back the Play
BesideSet(c, l) == {b \in Batch : /\ act[b].at \in {"inserting", "recording"}
                                  /\ act[b].client = c /\ act[b].cur = l}
Orphans == {p \in Pair : db.play[p[1]][p[2]] > db.queued[p[1]][p[2]]
                                               + Cardinality(BesideSet(p[1], p[2]))}
Short(t) == {p \in Pair : t.play[p[1]][p[2]] > t.queued[p[1]][p[2]]}

\* the rows before an open transaction are short of those of the hand-overs
\* under way when it began, at most
OrphanInv ==
  "insertFails" \notin happened =>
    /\ Cardinality(Orphans) <= crashes * Cardinality(Batch)
    /\ txn.by # None => Cardinality(Short(txn.before)) <= (crashes + 1) * Cardinality(Batch)

LEMMA Finite ==
  /\ IsFiniteSet(Pair) /\ \A S \in SUBSET Pair : IsFiniteSet(S) /\ Cardinality(S) \in Nat
  /\ Cardinality(Batch) \in Nat
  /\ \A S \in SUBSET Batch : IsFiniteSet(S) /\ Cardinality(S) \in Nat
<1>1. IsFiniteSet(Client) /\ IsFiniteSet(Listen)
  BY DiscoveryAssumption, FS_Interval DEF Client, Listen
<1>2. IsFiniteSet(Pair)
  BY <1>1, FS_Product DEF Pair
<1>3. IsFiniteSet(Batch)
  BY DiscoveryAssumption
<1>4. QED
  BY <1>2, <1>3, FS_Subset, FS_CardinalityType

LEMMA BesideSize == \A c, l : BesideSet(c, l) \subseteq Batch /\ Cardinality(BesideSet(c, l)) \in Nat
BY Finite DEF BesideSet

LEMMA OneMore ==
  ASSUME NEW n \in Nat, NEW size \in Nat
  PROVE  (n + 1) * size = n * size + size /\ n * size \in Nat
OBVIOUS

(* Whoever is short is an orphan, or one of the hand-overs is beside it.     *)
LEMMA ShortIsFew ==
  ASSUME TypeOK
  PROVE  Cardinality(Short(db)) <= Cardinality(Orphans) + Cardinality(Batch)
<1> DEFINE f == [b \in Batch |-> <<act[b].client, act[b].cur>>]
           T == {p \in Pair : \E b \in Batch : f[b] = p}
           U == {b \in Batch : f[b] \in Pair}
           g == [b \in U |-> f[b]]
<1>1. Cardinality(T) <= Cardinality(Batch) /\ IsFiniteSet(T)
  <2>1. g \in Surjection(U, T)
    BY DEF Surjection
  <2>2. IsFiniteSet(U) /\ Cardinality(U) <= Cardinality(Batch)
    BY DiscoveryAssumption, FS_Subset
  <2>3. Cardinality(T) <= Cardinality(U) /\ IsFiniteSet(T)
    <3> HIDE DEF g, U, T
    <3>1. QED
      BY <2>1, <2>2, FS_Surjection
  <2>4. Cardinality(T) \in Nat /\ Cardinality(U) \in Nat
    BY Finite
  <2>5. QED
    BY <2>2, <2>3, <2>4, Finite
<1>2. Orphans \subseteq Pair /\ IsFiniteSet(Orphans)
  BY Finite DEF Orphans
<1>3. Short(db) \subseteq Orphans \cup T
  <2>1. SUFFICES ASSUME NEW p \in Short(db), p \notin Orphans
                 PROVE  p \in T
    OBVIOUS
  <2>2. p \in Pair /\ p = <<p[1], p[2]>> /\ p[1] \in Client /\ p[2] \in Listen
    BY DEF Short, Pair
  <2>3. db.play[p[1]][p[2]] \in Nat /\ db.queued[p[1]][p[2]] \in Nat
        /\ Cardinality(BesideSet(p[1], p[2])) \in Nat
    BY <2>2, DbIs, BesideSize
  <2>4. Cardinality(BesideSet(p[1], p[2])) # 0
    BY <2>1, <2>2, <2>3 DEF Short, Orphans
  <2>5. BesideSet(p[1], p[2]) # {}
    BY <2>4, FS_EmptySet
  <2>6. PICK b \in Batch : act[b].client = p[1] /\ act[b].cur = p[2]
    BY <2>5 DEF BesideSet
  <2>7. f[b] = p
    BY <2>2, <2>6
  <2>8. QED
    BY <2>2, <2>7
<1>4. T \subseteq Pair
  OBVIOUS
<1> HIDE DEF T
<1>5. Cardinality(Short(db)) <= Cardinality(Orphans \cup T) /\ IsFiniteSet(Orphans \cup T)
  BY <1>1, <1>2, <1>3, FS_Union, FS_Subset
<1>6. Cardinality(Orphans \cup T) = Cardinality(Orphans) + Cardinality(T) - Cardinality(Orphans \cap T)
  BY <1>1, <1>2, FS_Union
<1>7. /\ Cardinality(Orphans) \in Nat /\ Cardinality(T) \in Nat
      /\ Cardinality(Orphans \cap T) \in Nat /\ Cardinality(Orphans \cup T) \in Nat
      /\ Cardinality(Short(db)) \in Nat
  BY <1>2, <1>4, Finite DEF Short
<1>8. QED
  BY <1>1, <1>5, <1>6, <1>7, Finite

(* A step that adds a Play adds a hand-over beside it, and one that ends a   *)
(* hand-over adds the row.                                                   *)
Balanced(c, l) ==
  db'.play[c][l] + db.queued[c][l] + Cardinality(BesideSet(c, l))
    = db.play[c][l] + db'.queued[c][l] + Cardinality(BesideSet(c, l)')

LEMMA BalancedOrphans ==
  ASSUME TypeOK, db' \in Tables, \A c \in Client, l \in Listen : Balanced(c, l)
  PROVE  Orphans' = Orphans
<1>1. ASSUME NEW c \in Client, NEW l \in Listen
      PROVE  db'.play[c][l] > db'.queued[c][l] + Cardinality(BesideSet(c, l)')
             <=> db.play[c][l] > db.queued[c][l] + Cardinality(BesideSet(c, l))
  <2>1. /\ db.play[c][l] \in Nat /\ db.queued[c][l] \in Nat
        /\ db'.play[c][l] \in Nat /\ db'.queued[c][l] \in Nat
    BY DbIs
  <2>2. Cardinality(BesideSet(c, l)) \in Nat /\ Cardinality(BesideSet(c, l)') \in Nat
    BY Finite DEF BesideSet
  <2>3. Balanced(c, l)
    OBVIOUS
  <2>4. QED
    BY <2>1, <2>2, <2>3 DEF Balanced
<1>2. \A p \in Pair : p[1] \in Client /\ p[2] \in Listen
  BY DEF Pair
<1>3. QED
  BY <1>1, <1>2 DEF Orphans

\* hand-over b is beside the same Play as before
Steady(b) ==
  /\ act'[b].at \in {"inserting", "recording"} <=> act[b].at \in {"inserting", "recording"}
  /\ act[b].at \in {"inserting", "recording"} =>
       act'[b].client = act[b].client /\ act'[b].cur = act[b].cur

LEMMA SteadyOrphans ==
  ASSUME TypeOK, \A b \in Batch : Steady(b), db' \in Tables,
         db'.play = db.play, db'.queued = db.queued
  PROVE  Orphans' = Orphans
<1>1. \A c, l : BesideSet(c, l)' = BesideSet(c, l)
  BY DEF BesideSet, Steady
<1>2. \A c \in Client, l \in Listen :
        Cardinality(BesideSet(c, l)') = Cardinality(BesideSet(c, l))
  BY <1>1
<1>3. QED
  BY <1>2, BalancedOrphans DEF Balanced

LEMMA AlikeSteady ==
  ASSUME NEW b, Alike(b)
  PROVE  Steady(b)
BY DEF Alike, Steady

(* A hand-over begins beside its Play.                                       *)
LEMMA BeginBeside ==
  ASSUME Shaped, Shaped', NEW b \in Batch, Begin(b)
  PROVE  Orphans' = Orphans
<1>1. TypeOK /\ ActInv /\ db' \in Tables
  BY DEF Shaped, TypeOK
<1>2. act[b].at = "begin" /\ db' = WithInsert(b)
  BY DEF Begin
<1>3. Turns(b, "begin", "inserting") /\ Alone(b)
  BY <1>1, Kinds, TransactIs
<1>4. /\ db'.queued = db.queued
      /\ \A c \in Client, l \in Listen :
           db'.play[c][l] = IF c = act[b].client /\ l = act[b].cur THEN db.play[c][l] + 1
                                                                  ELSE db.play[c][l]
  BY <1>1, <1>2, HandOverInserts
<1>5. ASSUME NEW c \in Client, NEW l \in Listen
      PROVE  Balanced(c, l)
  <2>1. /\ db.play[c][l] \in Nat /\ db.queued[c][l] \in Nat
        /\ BesideSet(c, l) \in SUBSET Batch /\ IsFiniteSet(BesideSet(c, l))
        /\ Cardinality(BesideSet(c, l)) \in Nat
    BY <1>1, DbIs, Finite DEF BesideSet
  <2>2. CASE c = act[b].client /\ l = act[b].cur
    <3>1. BesideSet(c, l)' = BesideSet(c, l) \cup {b}
      BY <1>3, <2>2, Kinds DEF BesideSet, Turns, Keeps, Alone
    <3>2. b \notin BesideSet(c, l)
      BY <1>2 DEF BesideSet
    <3>3. Cardinality(BesideSet(c, l) \cup {b}) = Cardinality(BesideSet(c, l)) + 1
      BY <2>1, <3>2, FS_AddElement
    <3>4. Cardinality(BesideSet(c, l)') = Cardinality(BesideSet(c, l)) + 1
      BY <3>1, <3>3
    <3>5. db'.play[c][l] = db.play[c][l] + 1 /\ db'.queued[c][l] = db.queued[c][l]
      BY <1>4, <2>2
    <3>6. (db.play[c][l] + 1) + db.queued[c][l] + Cardinality(BesideSet(c, l))
            = db.play[c][l] + db.queued[c][l] + (Cardinality(BesideSet(c, l)) + 1)
      BY <2>1
    <3>7. QED
      BY <3>4, <3>5, <3>6 DEF Balanced
  <2>3. CASE ~(c = act[b].client /\ l = act[b].cur)
    <3>1. BesideSet(c, l)' = BesideSet(c, l)
      BY <1>3, <2>3, Kinds DEF BesideSet, Turns, Keeps, Alone
    <3>2. Cardinality(BesideSet(c, l)') = Cardinality(BesideSet(c, l))
      BY <3>1
    <3>3. db'.play[c][l] = db.play[c][l] /\ db'.queued[c][l] = db.queued[c][l]
      BY <1>4, <2>3
    <3>4. QED
      BY <3>2, <3>3 DEF Balanced
  <2>4. QED
    BY <2>2, <2>3
<1>6. QED
  BY <1>1, <1>5, BalancedOrphans

(* ... and leaves with the row.                                              *)
LEMMA QueueBeside ==
  ASSUME Shaped, NEW b \in Batch, AddToQueue(b)
  PROVE  Orphans' = Orphans
<1>1. TypeOK /\ ActInv
  BY DEF Shaped
<1>2. /\ db' \in Tables /\ db'.play = db.play
      /\ \A c \in Client, l \in Listen :
           db'.queued[c][l] = IF c = act[b].client /\ l = act[b].cur THEN db.queued[c][l] + 1
                                                                    ELSE db.queued[c][l]
  BY <1>1, QueueRowIs
<1>3. act[b].at = "recording" /\ act'[b].at \notin {"inserting", "recording"} /\ Alone(b)
  <2>1. act[b].at = "recording" /\ Alone(b) /\ Advances(b, act[b].cur)
    BY <1>1, AddToQueueIs
  <2>2. QED
    BY <2>1, IdleShape DEF Advances
<1>4. ASSUME NEW c \in Client, NEW l \in Listen
      PROVE  Balanced(c, l)
  <2>1. /\ db.play[c][l] \in Nat /\ db.queued[c][l] \in Nat
        /\ BesideSet(c, l) \in SUBSET Batch /\ IsFiniteSet(BesideSet(c, l))
        /\ Cardinality(BesideSet(c, l)) \in Nat
    BY <1>1, DbIs, Finite DEF BesideSet
  <2>2. CASE c = act[b].client /\ l = act[b].cur
    <3>1. BesideSet(c, l)' = BesideSet(c, l) \ {b}
      BY <1>3, <2>2, Kinds DEF BesideSet, Alone
    <3>2. b \in BesideSet(c, l)
      BY <1>3, <2>2 DEF BesideSet
    <3>3. Cardinality(BesideSet(c, l) \ {b}) = Cardinality(BesideSet(c, l)) - 1
      BY <2>1, <3>2, FS_RemoveElement
    <3>4. Cardinality(BesideSet(c, l)') = Cardinality(BesideSet(c, l)) - 1
      BY <3>1, <3>3
    <3>5. db'.play[c][l] = db.play[c][l] /\ db'.queued[c][l] = db.queued[c][l] + 1
      BY <1>2, <2>2
    <3>6. QED
      BY <2>1, <3>4, <3>5 DEF Balanced
  <2>3. CASE ~(c = act[b].client /\ l = act[b].cur)
    <3>1. BesideSet(c, l)' = BesideSet(c, l)
      BY <1>3, <2>3, Kinds DEF BesideSet, Alone
    <3>2. Cardinality(BesideSet(c, l)') = Cardinality(BesideSet(c, l))
      BY <3>1
    <3>3. db'.play[c][l] = db.play[c][l] /\ db'.queued[c][l] = db.queued[c][l]
      BY <1>2, <2>3
    <3>4. QED
      BY <3>2, <3>3 DEF Balanced
  <2>4. QED
    BY <2>2, <2>3
<1>5. QED
  BY <1>1, <1>2, <1>4, BalancedOrphans

(* The end of the process: what was short stays so.                          *)
LEMMA CrashOrphans ==
  ASSUME Shaped, OrphanInv, ProcessDies, "insertFails" \notin happened
  PROVE  Cardinality(Orphans') <= crashes' * Cardinality(Batch)
<1>1. TypeOK /\ TxnInv
  BY DEF Shaped
<1>2. crashes \in Nat /\ crashes' = crashes + 1 /\ Cardinality(Batch) \in Nat
  BY <1>1, Finite DEF TypeOK, ProcessDies
<1>3. Orphans' \subseteq Short(db')
  <2>1. \A b \in Batch : act'[b].at = "idle"
    BY DiesIs, IdleShape, Kinds
  <2>2. \A c, l : BesideSet(c, l)' = {}
    BY <2>1 DEF BesideSet
  <2>3. \A c, l : Cardinality(BesideSet(c, l)') = 0
    BY <2>2, FS_EmptySet
  <2>4. \A p \in Pair : db'.queued[p[1]][p[2]] \in Nat
    <3>1. RolledBack \in Tables /\ db' = RolledBack
      BY <1>1 DEF TypeOK, RolledBack, ProcessDies
    <3>2. QED
      BY <1>1, <3>1, DbIs DEF Pair
  <2>5. QED
    BY <2>3, <2>4 DEF Orphans, Short
<1>4. Cardinality(Short(db')) <= (crashes + 1) * Cardinality(Batch)
  <2>1. CASE txn = NoTxn
    <3>1. Short(db') = Short(db)
      BY <2>1 DEF ProcessDies, RolledBack
    <3>2. Cardinality(Short(db)) <= Cardinality(Orphans) + Cardinality(Batch)
      BY <1>1, ShortIsFew
    <3>3. Cardinality(Orphans) \in Nat /\ Cardinality(Short(db)) \in Nat
      BY Finite DEF Orphans, Short
    <3>4. Cardinality(Orphans) <= crashes * Cardinality(Batch)
      BY DEF OrphanInv
    <3>5. /\ (crashes + 1) * Cardinality(Batch) = crashes * Cardinality(Batch) + Cardinality(Batch)
          /\ crashes * Cardinality(Batch) \in Nat
      BY <1>2, OneMore
    <3> DEFINE few == crashes * Cardinality(Batch)
    <3> HIDE DEF few
    <3>6. Cardinality(Short(db)) <= few + Cardinality(Batch)
      BY <1>2, <3>2, <3>3, <3>4, <3>5 DEF few
    <3>7. QED
      BY <3>1, <3>5, <3>6 DEF few
  <2>2. CASE txn # NoTxn
    <3>1. db' = txn.before /\ txn.by # None
      BY <1>1, <2>2 DEF ProcessDies, RolledBack, TxnInv
    <3>2. Cardinality(Short(txn.before)) <= (crashes + 1) * Cardinality(Batch)
      BY <3>1 DEF OrphanInv
    <3>3. QED
      BY <3>1, <3>2
  <2>3. QED
    BY <2>1, <2>2
<1>5. Cardinality(Orphans') <= Cardinality(Short(db'))
  <2>1. IsFiniteSet(Short(db'))
    BY Finite DEF Short
  <2>2. QED
    BY <1>3, <2>1, FS_Subset
<1>6. Cardinality(Orphans') \in Nat /\ Cardinality(Short(db')) \in Nat
  BY Finite DEF Orphans, Short
<1>7. (crashes + 1) * Cardinality(Batch) \in Int
  BY <1>2, OneMore
<1>8. QED
  BY <1>2, <1>4, <1>5, <1>6, <1>7

LEMMA OrphanStep ==
  ASSUME Shaped, OrphanInv, Next
  PROVE  OrphanInv'
<1>1. TypeOK /\ ActInv /\ TxnInv /\ Shaped' /\ db' \in Tables
  <2>1. Shaped'
    BY ShapedStep
  <2>2. QED
    BY <2>1 DEF Shaped, TypeOK
<1> USE Kinds
<1>2. happened \subseteq happened'
  BY DEF Next, Discover, Fetch, PutInCache, Known, New, Push, ReadCached, ReadStored, Forward,
         Stop, HandOver, Check, AddToQueue, Transact, Begin, Commit, DiscoveryFails,
         HandOverFails, Abort, PollAgain, Crash, SwitchMonitoring, Expire, Listened, history,
         Happens
<1>3. ASSUME Orphans' = Orphans, crashes' = crashes, txn' = txn
      PROVE  OrphanInv'
  <2>1. Short(txn'.before) = Short(txn.before)
    BY <1>3
  <2>2. QED
    BY <1>2, <1>3, <2>1 DEF OrphanInv
<1>4. ASSUME NEW d \in Discoverer, Discover(d)
      PROVE  OrphanInv'
  <2>1. UNCHANGED <<db, txn, crashes>> /\ Finds(d)
    BY <1>1, <1>4, DiscoverIs
  <2>2. ASSUME NEW b \in Batch
        PROVE  Steady(b)
    <3>1. CASE AlikeAll(d)
      BY <3>1, AlikeSteady DEF AlikeAll
    <3>2. ASSUME NEW k \in Batch, HandsOver(d, k)
          PROVE  Steady(b)
      BY <3>2 DEF HandsOver, Steady, Active
    <3>3. QED
      BY <2>1, <3>1, <3>2 DEF Finds
  <2>3. Orphans' = Orphans
    BY <1>1, <2>1, <2>2, SteadyOrphans
  <2>4. QED
    BY <1>3, <2>1, <2>3
<1>5. ASSUME NEW b \in Batch, HandOver(b)
      PROVE  OrphanInv'
  <2>1. /\ UNCHANGED <<txn, crashes>> /\ Alone(b)
        /\ AddToQueue(b) \/ (db' = db /\ act[b].at = "next")
        /\ act'[b].at \notin {"inserting", "recording"}
    BY <1>1, <1>5, HandOverIs
  <2>2. CASE db' = db /\ act[b].at = "next"
    <3>1. \A k \in Batch : Steady(k)
      BY <2>1, <2>2 DEF Alone, Steady
    <3>2. QED
      BY <1>1, <1>3, <2>1, <2>2, <3>1, SteadyOrphans
  <2>3. QED
    BY <1>3, <2>1, <2>2, QueueBeside
<1>6. ASSUME NEW a \in Activity, Begin(a)
      PROVE  OrphanInv'
  <2>1. txn' = [by |-> a, before |-> db] /\ crashes' = crashes /\ db' = WithInsert(a)
        /\ act[a].at = "begin"
    BY <1>6 DEF Begin, history
  <2>2. Orphans' = Orphans
    <3>1. CASE a \in Batch
      BY <1>1, <1>6, <3>1, BeginBeside
    <3>2. CASE a \in Discoverer
      <4>1. db'.play = db.play /\ db'.queued = db.queued
        BY <1>1, <2>1, <3>2, DiscoveryInserts
      <4>2. \A b \in Batch : Steady(b)
        BY <1>1, <1>6, <3>2, TransactIs DEF Alone, Steady
      <4>3. QED
        BY <1>1, <4>1, <4>2, SteadyOrphans
    <3>3. QED
      BY <3>1, <3>2 DEF Activity
  <2>3. Short(txn'.before) = Short(db)
    BY <2>1
  <2>4. /\ Cardinality(Short(db)) <= Cardinality(Orphans) + Cardinality(Batch)
        /\ Cardinality(Orphans) \in Nat /\ Cardinality(Short(db)) \in Nat
        /\ Cardinality(Batch) \in Nat
    BY <1>1, ShortIsFew, Finite DEF Orphans, Short
  <2> DEFINE few == crashes * Cardinality(Batch)
             more == (crashes + 1) * Cardinality(Batch)
  <2>5. more = few + Cardinality(Batch) /\ few \in Nat
    BY <1>1, <2>4, OneMore DEF TypeOK
  <2>6. "insertFails" \notin happened => Cardinality(Orphans) <= few
    BY DEF OrphanInv
  <2> HIDE DEF few, more
  <2>7. "insertFails" \notin happened => Cardinality(Short(db)) <= more
    BY <2>4, <2>5, <2>6
  <2>8. QED
    BY <1>2, <2>1, <2>2, <2>3, <2>6, <2>7 DEF OrphanInv, few, more
<1>7. ASSUME NEW a \in Activity, Commit(a)
      PROVE  OrphanInv'
  <2>1. txn' = NoTxn /\ crashes' = crashes /\ db' = db
    BY <1>7 DEF Commit, history
  <2>2. Turns(a, "inserting", "recording") /\ Alone(a)
    BY <1>1, <1>7, TransactIs
  <2>3. \A b \in Batch : Steady(b)
    BY <2>2 DEF Turns, Keeps, Alone, Steady
  <2>4. Orphans' = Orphans
    BY <1>1, <2>1, <2>3, SteadyOrphans
  <2>5. txn'.by = None
    BY <2>1, NoTablesAre
  <2>6. QED
    BY <1>2, <2>1, <2>4, <2>5 DEF OrphanInv
<1>8. ASSUME Happens("insertFails")
      PROVE  OrphanInv'
  BY <1>8 DEF Happens, OrphanInv
<1>9. CASE ProcessDies
  <2>1. txn'.by = None
    BY <1>9, NoTablesAre DEF ProcessDies
  <2>2. "insertFails" \notin happened' => Cardinality(Orphans') <= crashes' * Cardinality(Batch)
    BY <1>2, <1>9, CrashOrphans
  <2>3. QED
    BY <2>1, <2>2 DEF OrphanInv
<1>10. ASSUME UNCHANGED <<db, txn, crashes>>, \A a \in Activity : Alike(a)
       PROVE  OrphanInv'
  <2>1. \A b \in Batch : Steady(b)
    BY <1>10, AlikeSteady
  <2>2. QED
    BY <1>1, <1>3, <1>10, <2>1, SteadyOrphans
<1>11. CASE Expire
  BY <1>1, <1>10, <1>11, ActIs, UnsharedIs DEF Expire, Alike
<1>12. CASE (\E l \in Listen : Listened(l)) \/ Abort \/ PollAgain \/ SwitchMonitoring
  BY <1>10, <1>12 DEF Listened, Abort, PollAgain, SwitchMonitoring, Alike, history
<1>13. QED
  BY <1>4, <1>5, <1>6, <1>7, <1>8, <1>9, <1>11, <1>12
     DEF Next, HandOverFails, DiscoveryFails, Crash, Transact
-----------------------------------------------------------------------------

HandOverInv == Shaped /\ ForwardInv /\ ArriveInv /\ OrphanInv

LEMMA HandOverInvInit == Init => HandOverInv
<1> SUFFICES ASSUME Init
             PROVE  HandOverInv
  OBVIOUS
<1>1. db = NoTables /\ txn.by = None /\ txn.before = NoTables /\ crashes = 0
      /\ \A a \in Activity : act[a].at = "idle" /\ act[a].found = {}
  BY NoTablesAre, IdleShape DEF Init
<1>2. Rows(NoTables) = {} /\ Queued(NoTables) = {}
  BY DEF Rows, Queued, NoTables, NoRows, PlayState
<1>3. Rows(db) = {} /\ Queued(db) = {} /\ Queued(txn.before) = {}
  BY <1>1, <1>2
<1>4. \A a \in Activity : Found(a) = {}
  BY <1>1 DEF Found
<1>5. ForwardInv
  BY <1>1, <1>3, <1>4, Kinds DEF ForwardInv, Wanted
<1>6. ArriveInv
  BY <1>3 DEF ArriveInv
<1>7. Orphans = {}
  <2>1. \A p \in Pair : db.play[p[1]][p[2]] = 0 /\ db.queued[p[1]][p[2]] = 0
    BY <1>1 DEF NoTables, NoRows, Pair
  <2>2. \A p \in Pair : Cardinality(BesideSet(p[1], p[2])) \in Nat
    BY BesideSize
  <2>3. QED
    BY <2>1, <2>2 DEF Orphans
<1>8. OrphanInv
  <2>1. Cardinality(Orphans) = 0 /\ crashes * Cardinality(Batch) \in Nat
    BY <1>1, <1>7, FS_EmptySet, Finite, OneMore
  <2>2. QED
    BY <1>1, <2>1 DEF OrphanInv
<1>9. QED
  BY <1>5, <1>6, <1>8, ShapedInit DEF HandOverInv

LEMMA HandOverInvStep ==
  ASSUME HandOverInv, [Next]_vars
  PROVE  HandOverInv'
<1>1. CASE UNCHANGED vars
  <2>1. UNCHANGED <<db, txn, act, happened, crashes>>
    BY <1>1, ShapedStays
  <2>2. Shaped => Shaped'
    BY <1>1, ShapedStays
  <2>3. ForwardInv => ForwardInv'
    <3>1. \A a \in Activity : Found(a)' = Found(a)
      BY <2>1 DEF Found
    <3>2. /\ Queued(db)' = Queued(db) /\ Queued(txn.before)' = Queued(txn.before)
          /\ Rows(db)' = Rows(db) /\ Rows(txn.before)' = Rows(txn.before)
      BY <2>1 DEF Queued, Rows
    <3>3. Wanted' \subseteq Wanted
      BY <3>1, <3>2, WantedIs, WantedBy
    <3>4. QED
      BY <2>1, <3>2, <3>3 DEF ForwardInv
  <2>4. ArriveInv => ArriveInv'
    BY <2>1 DEF ArriveInv, Arrives, Reached, HeldBy, Brings, Rows
  <2>5. OrphanInv => OrphanInv'
    BY <2>1 DEF OrphanInv, Orphans, Short, BesideSet
  <2>6. QED
    BY <2>2, <2>3, <2>4, <2>5 DEF HandOverInv
<1>2. CASE Next
  BY <1>2, ShapedStep, ForwardStep, ArriveStep, OrphanStep DEF HandOverInv, Shaped
<1>3. QED
  BY <1>1, <1>2

\* A Play that is stored as discovered reaches every Client, unless the polling
\* was stopped, an insert failed or the process ended; nothing else reaches
\* one, for its row outlives every rollback and crash; and the end of the
\* process leaves no more Plays without a row of the queue than there were
\* hand-overs under way (discover, scrobble, ScrobbleClients.scrobble,
\* queueScrobble).
THEOREM HandOversAlwaysSound == Spec => []HandOversAreSound
<1>1. ASSUME HandOverInv
      PROVE  DiscoveredIsForwarded
  <2>1. SUFFICES ASSUME NEW l \in Listen, NEW c \in Client, db.row["discovered"][l] > 0,
                        ~Reached(c, l), ~OnItsWay(c, l)
                 PROVE  happened \cap Lossy # {}
    BY DEF DiscoveredIsForwarded, Lossy
  <2>2. l \in Rows(db)
    BY <2>1 DEF Rows
  <2>3. ~Arrives(c, l)
    BY <2>1 DEF Arrives, OnItsWay, HeldBy, Brings
  <2>4. QED
    BY <1>1, <2>2, <2>3 DEF HandOverInv, ArriveInv
<1>2. ASSUME HandOverInv
      PROVE  ForwardedIsStored
  <2>1. SUFFICES ASSUME NEW l \in Listen,
                        (\E c \in Client : Reached(c, l)) \/ (\E a \in Activity : l \in act[a].found)
                 PROVE  db.row["discovered"][l] > 0
    BY DEF ForwardedIsStored
  <2>2. CASE \E c \in Client : Reached(c, l)
    <3>1. l \in Queued(db)
      BY <2>2 DEF Queued, Reached
    <3>2. QED
      BY <1>2, <3>1, WantedIs DEF HandOverInv, ForwardInv, Rows
  <2>3. ASSUME NEW a \in Activity, l \in act[a].found
        PROVE  db.row["discovered"][l] > 0
    <3>1. l \in Found(a)
      BY <2>3 DEF Found
    <3>2. QED
      BY <1>2, <3>1, WantedIs DEF HandOverInv, ForwardInv, Rows
  <2>4. QED
    BY <2>1, <2>2, <2>3
<1>3. ASSUME HandOverInv
      PROVE  OrphansAreFew
  BY <1>3 DEF HandOverInv, OrphanInv, Orphans, Pair, BesideSet, OrphansAreFew
<1>4. HandOverInv => HandOversAreSound
  BY <1>1, <1>2, <1>3 DEF HandOversAreSound
<1>5. Spec => []HandOverInv
  BY HandOverInvInit, HandOverInvStep, PTL DEF Spec
<1>6. QED
  BY <1>4, <1>5, PTL
=============================================================================
