--------------------------- MODULE SnapshotSource ---------------------------
(***************************************************************************)
(* Finding listens by comparing lists that carry no dates.                 *)
(*                                                                         *)
(* YouTube Music and Apple Music answer with the tracks listened to last,  *)
(* newest first, without saying when.  Their Sources keep the list of the  *)
(* answer before and call a track listened to when it was put, or moved,   *)
(* on top of it.  A change they cannot explain so makes them start over    *)
(* from the new list; an answer may also be out of date, and the current   *)
(* one that follows must not report again what it seems to add.            *)
(*                                                                         *)
(* Two tracks are the same when everything but date and bookkeeping is     *)
(* (defaultListTransformers), so a track is a value of Track.              *)
(***************************************************************************)
EXTENDS Integers, FiniteSets, SequencesExt

CONSTANTS
  Track,        \* the tracks
  Untimed,      \* those whose duration the service does not give
  Start,        \* what the history may be before the Source is first polled
  Limit,        \* entries of an answer that are looked at
  Kept,         \* changed lists that are remembered
  MaxPast,      \* bound: how many changes an answer may be behind
  MaxEvents     \* bound: listens, entries removed, answers out of date, stops

ASSUME SnapshotAssumption ==
  /\ Untimed \subseteq Track /\ Start \subseteq Seq(Track)
  /\ Limit \in Nat /\ Limit > 2 /\ Kept \in Nat \ {0} /\ {MaxPast, MaxEvents} \subseteq Nat

(* The entries of a list that are among some, in their order: the k-th of  *)
(* them is at the index up to which there are k.                           *)
IndexOf(P, k) == CHOOSE i \in P : Cardinality({ j \in P : j <= i }) = k

Selected(s, some) ==
  LET P == { i \in DOMAIN s : s[i] \in some }
  IN [k \in 1..Cardinality(P) |-> s[IndexOf(P, k)]]

-----------------------------------------------------------------------------
(* The comparison of two lists.  getListDiff pairs the k-th occurrence of  *)
(* a track in one list with its k-th occurrence in the other.              *)

Occurrence(s, i) == Cardinality({ j \in 1..i : s[j] = s[i] })

Paired(prev, next, i) ==
  { j \in DOMAIN prev : /\ prev[j] = next[i]
                        /\ Occurrence(prev, j) = Occurrence(next, i) }

Shift(prev, next, i) == i - CHOOSE j \in Paired(prev, next, i) : TRUE

Status(prev, next, i) ==
  IF Paired(prev, next, i) = {} THEN "added"
  ELSE IF i \in Paired(prev, next, i) THEN "equal" ELSE "moved"

Deleted(prev, next, i) ==
  i \in DOMAIN prev /\ \A j \in DOMAIN next : i \notin Paired(prev, next, j)

(* What is at an index of the new list, seen from both lists at once. *)
IndexState(prev, next, i) ==
  IF Deleted(prev, next, i) /\ Status(prev, next, i) = "added"
  THEN "replaced"
  ELSE Status(prev, next, i)

(* No change, or one of another kind: nothing that was listened to. *)
Unexplained == [type |-> "none", plays |-> <<>>]

(* Mutant: the others are expected to shift towards the top. *)
BumpShiftsUp(prev, next, i) == Shift(prev, next, i) \in {-1, 0}

(* The same entries, one of them moved to an end: the others shift by at  *)
(* most one, and do not start to shift again once they stopped.           *)
BumpShifts(prev, next, i) ==
  /\ Shift(prev, next, i) \in {-1, 0, 1}
  /\ i > 2 => IF Status(prev, next, 1) = "moved"
              THEN ~(Status(prev, next, i - 1) = "equal" /\ Status(prev, next, i) = "moved")
              ELSE ~(Status(prev, next, i - 1) = "moved" /\ Status(prev, next, i) = "equal")

PlaysAreBumpedOnly(prev, next) ==
  LET n == Len(next)
      bumped == /\ prev # next /\ Len(prev) = n
                /\ \A i \in 1..n : Status(prev, next, i) # "added"
                /\ \A i \in 2..(n - 1) : BumpShifts(prev, next, i)
  IN IF ~bumped THEN Unexplained
     ELSE IF Status(prev, next, 1) = "moved"
     THEN [type |-> "prepend", plays |-> <<next[1]>>]
     ELSE IF Status(prev, next, n) = "moved"
     THEN [type |-> "append", plays |-> <<next[n]>>]
     ELSE Unexplained

(* Mutant: every new entry needs new neighbours on both sides. *)
AddedLoosely(prev, next, i) ==
  /\ Status(prev, next, i) = "added" /\ i \in 2..(Len(next) - 1)
  /\ ~(/\ IndexState(prev, next, i - 1) = "added"
       /\ IndexState(prev, next, i + 1) = "added")

(* New entries in one run at an end, whatever became of the others. *)
AddedApart(prev, next, i) ==
  LET added(j) == IndexState(prev, next, j) = "added"
  IN /\ Status(prev, next, i) = "added" /\ i \in 2..(Len(next) - 1)
     /\ \/ ~added(i + 1) /\ ~(Status(prev, next, 1) = "added" /\ added(i - 1))
        \/ Status(prev, next, 1) = "added" /\ ~added(i - 1)

PlaysAreAddedOnly(prev, next) ==
  LET n == Len(next)
      new == Selected([i \in 1..n |-> i], { i \in 1..n : Status(prev, next, i) = "added" })
      apart == \E i \in 1..n : \/ IndexState(prev, next, i) = "replaced"
                               \/ AddedApart(prev, next, i)
  IN IF prev = next \/ new = <<>> \/ apart \/ {1, n} \cap ToSet(new) = {}
     THEN Unexplained
     ELSE [type  |-> IF n > 1 /\ n \in ToSet(new) THEN "append" ELSE "prepend",
           plays |-> [i \in DOMAIN new |-> next[new[i]]]]

-----------------------------------------------------------------------------
VARIABLES
  service,    \* which of the two Sources
  history,    \* the service: what was listened to, newest first
  past,       \* the service: what history was before, newest first
  mode,       \* of the Source: idle, hydrated or polling
  seen,       \* recentlyPlayed, the list of the answer before
  recent,     \* recentChangedHistoryResponses
  discovered, \* transientDiscovered is not empty: any Source discovered a Play
  found,      \* what the last answer reported, oldest first
  left,       \* how many more events the bound allows
  since,      \* ghost: the listens since the last current answer
  removed,    \* ghost: an entry was removed since the last answer
  behind      \* ghost: whether the last answer was out of date: "no", "yes",
              \* or "lost" when more happened than that additions were undone

world == <<service, history, past>>
source == <<mode, seen, recent, discovered, found>>
ghosts == <<since, removed, behind>>
snapshotVars == <<world, source, left, ghosts>>

Window(list) == SubSeq(list, 1, IF Len(list) < Limit THEN Len(list) ELSE Limit)

SnapshotInit ==
  /\ service \in {"ytmusic", "applemusic"}
  /\ history \in Start /\ past = <<>>
  /\ service = "applemusic" => IsInjective(history)
  /\ mode = "idle" /\ seen = <<>> /\ recent = <<>> /\ found = <<>>
  /\ discovered \in BOOLEAN
  /\ left = MaxEvents
  /\ since = <<>> /\ removed = FALSE /\ behind = "no"

-----------------------------------------------------------------------------
(* The service. *)

Becomes(list) ==
  /\ history' = list
  /\ past' = SubSeq(<<history>> \o past, 1, IF Len(past) < MaxPast THEN Len(past) + 1 ELSE MaxPast)

(* A track is listened to.  Its earlier entry is moved to the top; YouTube *)
(* Music sometimes leaves it and makes another.                            *)
Listen(t) ==
  LET others == Selected(history, Track \ {t})
  IN /\ mode # "idle" /\ left > 0
     /\ \/ Becomes(<<t>> \o others)
        \/ service = "ytmusic" /\ t \in ToSet(history) /\ Becomes(<<t>> \o history)
     /\ left' = left - 1
     /\ since' = Append(since, t)
     /\ behind' = IF behind = "no" THEN "no" ELSE "lost"
     /\ UNCHANGED <<service, source, removed>>

(* An entry is taken out of the history. *)
RemoveEntry ==
  /\ mode # "idle" /\ left > 0
  /\ \E i \in DOMAIN history : Becomes(RemoveAt(history, i))
  /\ left' = left - 1
  /\ removed' = TRUE
  /\ UNCHANGED <<service, source, since, behind>>

-----------------------------------------------------------------------------
(* What an answer adds to the list before. *)

(* Mutant: the oldest of the remembered lists is looked at, not each. *)
RevertedOldest(plays) == recent # <<>> /\ plays = recent[Len(recent)]

Reverted(plays) == \E i \in DOMAIN recent : recent[i] = plays

(* Additions are not believed when the very same list was the result of a *)
(* change not long ago.                                                   *)
Added(diff, plays) ==
  IF diff.type # "prepend" \/ Reverted(plays) THEN <<>> ELSE Reverse(diff.plays)

(* Apple Music: the top is unchanged and something is new just below it,  *)
(* so the top was listened to again after it.                             *)
TopRebound(plays) ==
  /\ service = "applemusic" /\ seen # <<>> /\ plays # <<>>
  /\ Head(seen) = Head(plays) /\ Tail(seen) # Tail(plays)

Explained(prev, next) ==
  LET bump == PlaysAreBumpedOnly(prev, next)
  IN IF bump.type # "none" THEN bump ELSE PlaysAreAddedOnly(prev, next)

Bumped(prev, next) == PlaysAreBumpedOnly(prev, next).type = "prepend"

IncomingHistory(plays) ==
  LET tail == Explained(Tail(seen), Tail(plays))
      diff == Explained(seen, plays)
  IN IF seen = plays THEN <<>>
     ELSE IF TopRebound(plays) /\ tail.type = "prepend"
     THEN IF ~Bumped(Tail(seen), Tail(plays)) /\ Reverted(plays) THEN <<>>
          ELSE Append(Reverse(tail.plays), plays[1])
     ELSE IF Bumped(seen, plays) THEN diff.plays
     ELSE Added(diff, plays)

(* YouTube Music: of several the newest is kept, and the others only if    *)
(* there was time to listen to them since the last discovery.  The handler *)
(* keeps the event and not the Play, so the date it compares with is       *)
(* undefined and no time ever passed: once anything is discovered only     *)
(* tracks without a duration are kept.                                     *)
Plausible(plays) ==
  IF service = "ytmusic" /\ Len(plays) > 1 /\ discovered
  THEN Append(Selected(Front(plays), Untimed), Last(plays))
  ELSE plays

(* Mutant: one list more than there is room for is remembered. *)
ResetLonger(plays, result) ==
  /\ seen' = plays
  /\ recent' = IF result = <<>> THEN recent ELSE <<plays>> \o recent

(* The answer becomes the list to compare with, and is remembered when it *)
(* reported something.                                                    *)
Reset(plays, result) ==
  /\ seen' = plays
  /\ recent' = IF result = <<>> THEN recent
               ELSE SubSeq(<<plays>> \o recent, 1,
                           IF Len(recent) < Kept THEN Len(recent) + 1 ELSE Kept)

-----------------------------------------------------------------------------
(* Polling.  An answer is the current history, or what it was before. *)

Answers == {history} \cup ToSet(past)

Answer(list, aborted) ==
  LET event == list # history \/ aborted
  IN /\ event => left > 0
     /\ left' = IF event THEN left - 1 ELSE left
     /\ removed' = FALSE

(* onPollPostAuthCheck: the first list is a reference.  It is stored, and  *)
(* so discovered, but reported to nobody.  Storing may fail.               *)
Hydrate ==
  /\ mode = "idle"
  /\ \E list \in Answers, stored \in BOOLEAN :
       LET plays == Window(list)
           stores == plays # <<>> /\ (service = "ytmusic" => ~discovered)
       IN /\ Answer(list, FALSE)
          /\ Reset(plays, plays)
          /\ behind' = IF list = history THEN "no" ELSE "lost"
          /\ \/ stored /\ discovered' = (discovered \/ stores)
             \/ ~stored /\ stores /\ discovered' \in {discovered, TRUE}
          /\ mode' = IF stored THEN "hydrated" ELSE "idle"
  /\ found' = <<>>
  /\ since' = <<>>
  /\ UNCHANGED world

(* doPolling sets the flag that getRecentlyPlayed reads. *)
StartPolling ==
  /\ mode = "hydrated"
  /\ mode' = "polling"
  /\ UNCHANGED <<world, seen, recent, discovered, found, left, ghosts>>

(* Ghost: the answer lacks what the one before added and reported, and not *)
(* everything that was in it.                                              *)
Undoes(list) ==
  /\ IsSuffix(list, history) /\ Len(history) < Len(list) + Limit /\ ~removed
  /\ ~(ToSet(seen) \subseteq ToSet(Window(list)))
  /\ recent # <<>> /\ seen = recent[1] /\ since = <<>>

(* getRecentlyPlayed while polling.  The signal is looked at once it has   *)
(* returned: a Source that was stopped meanwhile throws away what the      *)
(* answer reported, and has its list all the same.                         *)
Poll(list, aborted) ==
  LET plays == Window(list)
      result == Plausible(IncomingHistory(plays))
  IN /\ mode = "polling"
     /\ Answer(list, aborted)
     /\ Reset(plays, result)
     /\ found' = IF aborted THEN <<>> ELSE result
     /\ mode' = IF aborted THEN "idle" ELSE "polling"
     /\ discovered' \in {discovered, discovered \/ found' # <<>>}
     /\ since' = IF list = history THEN <<>> ELSE since
     /\ behind' = IF list = history THEN "no"
                  ELSE IF behind = "no" /\ Undoes(list) THEN "yes" ELSE "lost"
     /\ UNCHANGED world

SnapshotNext ==
  \/ \E t \in Track : Listen(t)
  \/ RemoveEntry
  \/ Hydrate
  \/ StartPolling
  \/ \E list \in Answers, aborted \in BOOLEAN : Poll(list, aborted)

SnapshotSpec == SnapshotInit /\ [][SnapshotNext]_snapshotVars

-----------------------------------------------------------------------------
SnapshotTypeOK ==
  /\ service \in {"ytmusic", "applemusic"} /\ mode \in {"idle", "hydrated", "polling"}
  /\ {history, seen, found, since} \subseteq Seq(Track) /\ Len(seen) <= Limit
  /\ past \in Seq(Seq(Track)) /\ Len(past) <= MaxPast
  /\ recent \in Seq(Seq(Track)) /\ Len(recent) <= Kept
  /\ {discovered, removed} \subseteq BOOLEAN /\ behind \in {"no", "yes", "lost"}
  /\ left \in 0..MaxEvents

(* Some of s, in its order. *)
PartOf(r, s) ==
  \E place \in [DOMAIN r -> DOMAIN s] :
    /\ \A i, j \in DOMAIN r : i < j => place[i] < place[j]
    /\ \A i \in DOMAIN r : r[i] = s[place[i]]

(* Whatever was listened to, and in whatever order the list has it, what   *)
(* an answer reports was listened to since the last current answer, in     *)
(* that order, and not reported yet: a shifted or a dropped entry is never *)
(* taken for a listen, nothing from before polling started is, and an      *)
(* answer out of date that lacks what the one before added makes the       *)
(* current one that follows report nothing again.                          *)
ReportsAreListens ==
  [][mode = "polling" /\ ~removed /\ "lost" \notin {behind, behind'} => PartOf(found', since)]_<<seen, found>>

(* Two current answers of a Source that polls, and listens in between whose *)
(* list is not one of those remembered.                                    *)
Plain(listened) ==
  /\ mode = "polling" /\ mode' = "polling" /\ {behind, behind'} = {"no"} /\ ~removed
  /\ since = listened /\ since' = <<>> /\ ~Reverted(seen')

(* Tracks that are new to the list, and that may push others out of it,    *)
(* are all reported.  YouTube Music leaves out those before the newest that *)
(* there was no time for; the newest is never left out.                    *)
NewTracksAreFound ==
  [][LET few == Len(seen) + Len(since) <= Limit \/ 2 * Len(since) <= Limit
     IN /\ Plain(since) /\ since # <<>> /\ seen # <<>> /\ few
        /\ seen' = Window(Reverse(since) \o seen)
        /\ IsInjective(since) /\ ToSet(since) \cap ToSet(seen) = {}
        => /\ found' # <<>> /\ Last(found') = Last(since)
           /\ service = "applemusic" \/ ~discovered => found' = since]_<<seen, found>>

(* A track that is listened to again, wherever in the list it was, is      *)
(* found, and with Apple Music so are both when the track on top is        *)
(* listened to again after another one.                                    *)
HeardAgain(t) ==
  LET others == Selected(seen, Track \ {t})
  IN /\ Plain(<<t>>) /\ t \in ToSet(seen)
     /\ seen' = <<t>> \o others /\ seen' # seen /\ Len(seen') = Len(seen)

HeardAround(t) ==
  /\ seen # <<>> /\ service = "applemusic" /\ t # seen[1]
  /\ Plain(<<t, seen[1]>>) /\ seen' # seen

RepeatsAreFound ==
  [][\A t \in Track : HeardAgain(t) \/ HeardAround(t) => found' = since]_<<seen, found>>
=============================================================================
