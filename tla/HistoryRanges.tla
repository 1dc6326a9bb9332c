--------------------------- MODULE HistoryRanges ---------------------------
(***************************************************************************)
(* The history a queued Play is compared with.                             *)
(*                                                                         *)
(* Before a Client submits a Play it looks for it among the listens its    *)
(* service has around the Play's date.  The dates of all that is queued    *)
(* are grouped to ranges, so that many Plays are served by one request; a  *)
(* range is kept as long as it covers a group, and the listens of a range  *)
(* are remembered for a while.  The loop and the dead run both do so, with *)
(* the one list of ranges, and whatever initialises the Client adds to it. *)
(*                                                                         *)
(* A request is paged, and each service's api is paged in its own way.     *)
(* What one activity waits for - the cache, every page of the service - is *)
(* a step of its own here: the others go on meanwhile, with the same range *)
(* objects.  An answer is made up when it comes.                           *)
(***************************************************************************)
EXTENDS Integers, Sequences, FiniteSetsExt

CONSTANTS
  Scrobbles,     \* how many listens the service may come to know
  Plays,         \* how many Plays are queued, in the order they are seen in
  Dates,         \* when they are listened to
  Kinds,         \* the services
  GroupDuration, \* groupDuration: Plays closer than this are one group
  Consolidate,   \* consolidateDuration: and groups that span less are one
  Padding,       \* newPadding: what a range reaches over its group
  StaleAfter,    \* refreshStaleAfter: how long an answer is remembered,
  PreloadFor,    \* how long that of a preload is,
  ErrorFor,      \* and how long a failure is
  QueryLimit,    \* how many Plays of a queue are grouped
  PageSize,      \* how many listens a page has
  DayLength,     \* how long a day is
  MaxCompares,   \* bound: how often a Play is taken or the Client initialised
  MaxTime        \* bound: when time ends

ASSUME HistoryAssumption ==
  /\ {Scrobbles, Plays, QueryLimit, PageSize, DayLength} \subseteq Nat \ {0}
  /\ {MaxCompares, MaxTime} \subseteq Nat
  /\ {StaleAfter, PreloadFor, ErrorFor} \subseteq Nat \ {0}
  /\ {Padding, GroupDuration, Consolidate} \subseteq Nat \ {0}
  /\ Dates \subseteq 0..MaxTime
  /\ Kinds \subseteq {"listenbrainz", "lastfm", "koito", "maloja"}

Scrobble == 1..Scrobbles
Play == 1..Plays
Activity == {"loop", "dead"}
Never == -1

(* A range of time, and the page a request for it goes on with.  It is an  *)
(* object: two of the same times are told apart by `copy`.                 *)
TimeRange == [from : Int, to : Int, copy : Nat, cursor : Nat]

NoRange == [from |-> 0, to |-> 0, copy |-> 0, cursor |-> 1]

(* What a request has brought so far, and how the next page is asked for.   *)
(* Ghosts: what the service knew when it was asked, what it came to know   *)
(* until the last page was answered, and whether the pages asked for were  *)
(* the first, the second and so on.                                        *)
NoAnswer == [listens |-> {}, start |-> 0, page |-> 1, initial |-> TRUE,
             knew |-> {}, late |-> {}, whole |-> TRUE]

NoPreload == [stage |-> "no", knew |-> {}, from |-> 0, to |-> 0]

(* How long an answer is remembered, whoever asked for it. *)
Kept == IF StaleAfter < PreloadFor THEN PreloadFor ELSE StaleAfter

VARIABLES
  kind,     \* the service of the Client
  now,      \* the time
  date,     \* of a Play: its date, or Never when it is not queued
  queue,    \* of a Play: "new", the queue it waits in, or "done"
  heard,    \* the service: the date of a listen, or Never before it is known
  age,      \* the service: for how long a listen is known
  ranges,   \* scrobbleSOTRanges
  cache,    \* cacheClientScrobbles: [key, listens, error, left, late, whole]
  task,     \* of an activity: "idle", "reads", "grouped", "looks", "asks" or "compares"
  current,  \* of an activity: the Play it processes
  read,     \* of an activity: the dates it has read to group them
  hold,     \* of an activity: the range of its Play, once found,
  due,      \* and ghost: the listens known for as long as answers are kept,
  answer,   \* of an activity: what it was answered
  takes,    \* how many more Plays and initialisations the bound allows
  preload   \* of postInitialize: "no", "asks" or "sets", and its range

upstream == <<heard, age>>
queues == <<date, queue>>
held == <<current, hold, due, answer>>
activities == <<task, read, held, takes>>
historyVars == <<kind, now, upstream, queues, ranges, cache, activities, preload>>

HistoryInit ==
  /\ kind \in Kinds /\ now = 0
  /\ date = [p \in Play |-> Never] /\ queue = [p \in Play |-> "new"]
  /\ heard = [l \in Scrobble |-> Never] /\ age = [l \in Scrobble |-> 0]
  /\ ranges = <<>> /\ cache = {}
  /\ task = [a \in Activity |-> "idle"]
  /\ current = [a \in Activity |-> 1] /\ read = [a \in Activity |-> {}]
  /\ hold = [a \in Activity |-> NoRange] /\ due = [a \in Activity |-> {}]
  /\ answer = [a \in Activity |-> NoAnswer]
  /\ takes \in 0..MaxCompares
  /\ preload = NoPreload

-----------------------------------------------------------------------------
(* What the service answers. *)

Least(a, b) == IF a < b THEN a ELSE b

Recorded == { l \in Scrobble : heard[l] # Never }

Within(from, to) == { l \in Recorded : from <= heard[l] /\ heard[l] <= to }

Older(l, m) == heard[l] < heard[m] \/ (heard[l] = heard[m] /\ l < m)

(* The pages of some listens, the newest first and the oldest first. *)
Newer(S, l) == Cardinality({ m \in S : Older(l, m) })
NewestPage(S) == { l \in S : Newer(S, l) < PageSize }
NthPage(S, n) ==
  { l \in S : (n - 1) * PageSize <= Newer(S, l) /\ Newer(S, l) < n * PageSize }
OldestPage(S) == { l \in S : Cardinality({ m \in S : Older(m, l) }) < PageSize }

(* ListenBrainz: no pages, the next request starts after the newest listen *)
(* of the answer before when that is as long as a page.  It takes the      *)
(* answers to begin with the oldest.                                       *)
After(start, to) == Max({ heard[l] : l \in OldestPage(Within(start, to)) }) + 1

Day(t) == (t + DayLength) \div DayLength

(* Maloja: whole days, and both ends of them are the day of `from`. *)
MalojaDay(range) == { l \in Recorded : Day(heard[l]) = Day(range.from) }

(* What an activity is answered.  last.fm says there are no more pages      *)
(* after the first; Maloja is not asked for another.                       *)
Page(a) ==
  LET range == hold[a]
  IN CASE kind = "listenbrainz" -> OldestPage(Within(answer[a].start, range.to))
       [] kind = "lastfm" -> NewestPage(Within(range.from, range.to))
       [] kind = "koito" -> NthPage(Within(range.from, range.to), answer[a].page)
       [] kind = "maloja" -> MalojaDay(range)

HasMore(a) ==
  LET range == hold[a]
  IN \/ kind = "listenbrainz" /\ Cardinality(Within(answer[a].start, range.to)) >= PageSize
     \/ /\ kind = "koito"
        /\ Cardinality(Within(range.from, range.to)) > answer[a].page * PageSize
     \/ kind = "maloja" /\ Cardinality(MalojaDay(range)) > PageSize

(* The range's cursor once Koito has answered: the page that the first      *)
(* answer says it is, or what the range has by now; and the one after it.  *)
CursorAfter(a) ==
  LET n == IF answer[a].initial THEN answer[a].page ELSE hold[a].cursor
  IN IF HasMore(a) THEN n + 1 ELSE n

-----------------------------------------------------------------------------
(* groupPlaysToTimeRanges. *)

(* The dates that open a group. *)
Opening(D) == { d \in D : \A e \in D : e < d => d - e > GroupDuration }

(* What belongs to an opening date, when these are the opening dates. *)
Opened(D, opening, o) ==
  { d \in D : o <= d /\ \A n \in opening : ~(o < n /\ n <= d) }

(* Groups are taken together, oldest first, while they span little: one is *)
(* kept apart when it ends no less than that after those before it start.  *)
Consolidated(D) ==
  LET opening == Opening(D)
  IN CHOOSE apart \in SUBSET opening :
       \A o \in opening :
         o \in apart <=>
           \A c \in apart : c < o => Max(Opened(D, opening, o)) - c >= Consolidate

Same(r, s) == r.from = s.from /\ r.to = s.to /\ r.copy = s.copy

Live == { ranges[i] : i \in DOMAIN ranges } \cup { hold[a] : a \in Activity }

NewRange(from, to) ==
  [from |-> from, to |-> to, cursor |-> 1,
   copy |-> Max({0} \cup { r.copy : r \in { s \in Live : s.from = from /\ s.to = to } }) + 1]

(* Mutant: a range is kept whatever the group's newest date. *)
CoversOldest(range, oldest, newest) == range.from <= oldest

(* A range there already is covers the group; its end may be a little      *)
(* early when the newest Play is so new that no history could have it yet. *)
Covers(range, oldest, newest) ==
  /\ range.from <= oldest
  /\ range.to >= IF now - newest < StaleAfter THEN newest - StaleAfter ELSE newest

RangeOfGroup(oldest, newest) ==
  LET existing == { i \in DOMAIN ranges : Covers(ranges[i], oldest, newest) }
  IN IF existing # {} THEN ranges[Min(existing)]
     ELSE NewRange(oldest - Padding, Least(newest + Padding, now))

(* Dates in their order: up to the k-th there are k of them. *)
InOrder(S) ==
  [k \in 1..Cardinality(S) |-> CHOOSE d \in S : Cardinality({ e \in S : e <= d }) = k]

GroupedRanges(D) ==
  LET groups == InOrder(Consolidated(D))
      newest(o) == Max(Opened(D, Consolidated(D), o))
  IN [i \in DOMAIN groups |-> RangeOfGroup(groups[i], newest(groups[i]))]

-----------------------------------------------------------------------------
(* getSOTScrobblesForPlay. *)

(* Mutant: the end of the range is not looked at. *)
ServesAnyEnd(p, range) == range.from <= date[p]

Serves(p, range) ==
  range.from <= date[p] /\ range.to > Least(now - StaleAfter, date[p])

Serving(p) == { i \in DOMAIN ranges : Serves(p, ranges[i]) }

(* None was found, though "should have been handled before this". *)
OwnRange(p) ==
  NewRange(date[p] - Padding, Least(date[p] + Padding, now - StaleAfter))

FoundRange(p) ==
  IF Serving(p) # {} THEN ranges[Min(Serving(p))] ELSE OwnRange(p)

(* An api does not want the same time twice. *)
Widened(range) ==
  IF range.from # range.to THEN range
  ELSE NewRange(range.from - Padding, Least(now, range.to + 1))

Key(range) == <<range.from, range.to>>

Cached(range) == { c \in cache : c.key = Key(range) }

Remembered(entry) == cache' = { c \in cache : c.key # entry.key } \cup {entry}

-----------------------------------------------------------------------------
(* Actions. *)

(* Time passes, and what is remembered expires. *)
Tick ==
  /\ now < MaxTime
  /\ now' = now + 1
  /\ age' = [l \in Scrobble |-> IF l \in Recorded THEN Least(age[l] + 1, Kept) ELSE 0]
  /\ cache' = { [c EXCEPT !.left = @ - 1] : c \in { c \in cache : c.left > 1 } }
  /\ UNCHANGED <<kind, heard, queues, ranges, activities, preload>>

(* The service comes to know of a listen, from whoever scrobbled it. *)
Learn(l) ==
  /\ heard[l] = Never /\ \A m \in Scrobble : m < l => heard[m] # Never
  /\ \E d \in Dates : d <= now /\ heard' = [heard EXCEPT ![l] = d]
  /\ UNCHANGED <<kind, now, age, queues, ranges, cache, activities, preload>>

(* postInitialize, whenever the Client is initialised and whatever it does: *)
(* the newest listens are asked for, remembered, and get a range.          *)
PreloadAsks ==
  /\ preload.stage = "no" /\ takes > 0 /\ takes' = takes - 1
  /\ preload' = [NoPreload EXCEPT !.stage = "asks", !.knew = Recorded]
  /\ UNCHANGED <<kind, now, upstream, queues, ranges, cache, task, read, held>>

PreloadAnswered ==
  LET newest == NewestPage(Recorded)
      from == Min({ heard[l] : l \in newest })
  IN /\ preload.stage = "asks" /\ Recorded # {}
     /\ Remembered([key |-> <<from, now>>, listens |-> newest, error |-> FALSE,
                    left |-> PreloadFor, late |-> Recorded \ preload.knew, whole |-> TRUE])
     /\ preload' = [NoPreload EXCEPT !.stage = "sets", !.from = from, !.to = now]
     /\ UNCHANGED <<kind, now, upstream, queues, ranges, activities>>

(* There are none, or no answer. *)
PreloadFails ==
  /\ preload.stage = "asks" /\ preload' = NoPreload
  /\ UNCHANGED <<kind, now, upstream, queues, ranges, cache, activities>>

PreloadPushes ==
  /\ preload.stage = "sets" /\ preload' = NoPreload
  /\ ranges' = Append(ranges, NewRange(preload.from, preload.to))
  /\ UNCHANGED <<kind, now, upstream, queues, cache, activities>>

(* A Play is queued, or fails and waits in the other queue. *)
Enqueue(p) ==
  /\ queue[p] = "new" /\ \A o \in Play : o < p => queue[o] # "new"
  /\ \E d \in Dates : d <= now /\ date' = [date EXCEPT ![p] = d]
  /\ \E q \in {"loop", "dead"} : queue' = [queue EXCEPT ![p] = q]
  /\ UNCHANGED <<kind, now, upstream, ranges, cache, activities, preload>>

(* An activity takes a Play of its queue and reads what is queued: the     *)
(* oldest few of each queue.                                               *)
Oldest(q) ==
  { p \in Play : /\ queue[p] = q
                 /\ Cardinality({ o \in Play : queue[o] = q /\ o < p }) < QueryLimit }

Take(a, p) ==
  /\ task[a] = "idle" /\ queue[p] = a
  /\ takes > 0 /\ takes' = takes - 1
  /\ task' = [task EXCEPT ![a] = "reads"]
  /\ current' = [current EXCEPT ![a] = p]
  /\ read' = [read EXCEPT ![a] = { date[o] : o \in Oldest("loop") \cup Oldest("dead") }]
  /\ UNCHANGED <<kind, now, upstream, queues, ranges, cache, hold, due, answer, preload>>

(* handleQueuedScrobbleRanges: the ranges become those of what was read. *)
Regroup(a) ==
  /\ task[a] = "reads"
  /\ task' = [task EXCEPT ![a] = "grouped"]
  /\ ranges' = GroupedRanges(read[a])
  /\ read' = [read EXCEPT ![a] = {}]
  /\ UNCHANGED <<kind, now, upstream, queues, cache, held, takes, preload>>

(* The range of the Play is found, or made. *)
Find(a) ==
  LET p == current[a]
      range == Widened(FoundRange(p))
  IN /\ task[a] = "grouped"
     /\ task' = [task EXCEPT ![a] = "looks"]
     /\ hold' = [hold EXCEPT ![a] = range]
     /\ due' = [due EXCEPT ![a] = { l \in Scrobble : age[l] = Kept }]
     /\ ranges' = IF Serving(p) = {} THEN Append(ranges, range)
                  ELSE [i \in DOMAIN ranges |->
                          IF Same(ranges[i], FoundRange(p)) THEN range ELSE ranges[i]]
     /\ UNCHANGED <<kind, now, upstream, queues, cache, current, read, answer, takes, preload>>

(* The Play has been compared and submitted or not, or that has failed: it *)
(* stays in the dead queue or moves there, or is done.                     *)
Settles(a) ==
  LET p == current[a]
  IN /\ task' = [task EXCEPT ![a] = "idle"] /\ current' = [current EXCEPT ![a] = 1]
     /\ due' = [due EXCEPT ![a] = {}] /\ answer' = [answer EXCEPT ![a] = NoAnswer]
     /\ hold' = [hold EXCEPT ![a] = NoRange]
     /\ \/ queue' = [queue EXCEPT ![p] = "dead"] /\ date' = date
        \/ queue' = [queue EXCEPT ![p] = "done"] /\ date' = [date EXCEPT ![p] = Never]
     /\ UNCHANGED <<kind, now, upstream, ranges, read, takes, preload>>

(* What is remembered of the range is looked up: listens, *)
LookUp(a) ==
  /\ task[a] = "looks"
  /\ \E c \in Cached(hold[a]) :
       /\ ~c.error
       /\ answer' = [answer EXCEPT ![a] = [NoAnswer EXCEPT !.listens = c.listens,
                        !.late = c.late, !.whole = c.whole]]
  /\ task' = [task EXCEPT ![a] = "compares"]
  /\ UNCHANGED <<kind, now, upstream, queues, ranges, cache, current, read, hold, due, takes,
                 preload>>

(* a failure, *)
LookUpFails(a) ==
  /\ task[a] = "looks" /\ \E c \in Cached(hold[a]) : c.error
  /\ Settles(a) /\ UNCHANGED cache

(* or nothing: the service is asked, with the cursor the range has. *)
AskForPage(a) ==
  /\ task[a] = "looks" /\ Cached(hold[a]) = {}
  /\ task' = [task EXCEPT ![a] = "asks"]
  /\ answer' = [answer EXCEPT ![a] = [NoAnswer EXCEPT !.knew = Recorded, !.start = hold[a].from,
                   !.page = hold[a].cursor, !.whole = hold[a].cursor = 1]]
  /\ UNCHANGED <<kind, now, upstream, queues, ranges, cache, current, read, hold, due, takes,
                 preload>>

(* Koito's answer carries its page, which is written to the range itself: *)
(* whoever else has this range goes on from there.                        *)
WritesCursor(a) ==
  LET written(r) == IF kind = "koito" /\ Same(r, hold[a])
                    THEN [r EXCEPT !.cursor = CursorAfter(a)] ELSE r
  IN /\ ranges' = [i \in DOMAIN ranges |-> written(ranges[i])]
     /\ hold' = [b \in Activity |-> written(hold[b])]

(* A page that is followed by another is answered, and that is asked for. *)
Answered(a) ==
  LET old == answer[a]
      next == IF kind = "koito" THEN CursorAfter(a) ELSE old.page + 1
  IN /\ task[a] = "asks" /\ HasMore(a) /\ kind # "maloja"
     /\ WritesCursor(a)
     /\ answer' = [answer EXCEPT ![a] =
                     [old EXCEPT !.listens = @ \cup Page(a), !.page = next, !.initial = FALSE,
                        !.start = IF kind = "listenbrainz" THEN After(@, hold[a].to) ELSE @,
                        !.whole = @ /\ next = old.page + 1]]
     /\ UNCHANGED <<kind, now, upstream, queues, cache, task, current, read, due, takes,
                    preload>>

(* The last one is, and the listens are remembered. *)
AnsweredLast(a) ==
  LET old == answer[a]
      listens == old.listens \cup Page(a)
  IN /\ task[a] = "asks" /\ ~HasMore(a)
     /\ task' = [task EXCEPT ![a] = "compares"]
     /\ WritesCursor(a)
     /\ answer' = [answer EXCEPT ![a] = [NoAnswer EXCEPT !.listens = listens,
                      !.late = Recorded \ old.knew, !.whole = old.whole]]
     /\ Remembered([key |-> Key(hold[a]), listens |-> listens, error |-> FALSE,
                    left |-> StaleAfter, late |-> Recorded \ old.knew, whole |-> old.whole])
     /\ UNCHANGED <<kind, now, upstream, queues, current, read, due, takes, preload>>

(* A page is not answered, or Maloja's has another after it, for which it *)
(* has no cursor: the failure is remembered.                              *)
AskFails(a) ==
  /\ task[a] = "asks" /\ Settles(a)
  /\ Remembered([key |-> Key(hold[a]), listens |-> {}, error |-> TRUE,
                 left |-> ErrorFor, late |-> {}, whole |-> TRUE])

(* The Play is compared with what was answered. *)
Compare(a) ==
  /\ task[a] = "compares"
  /\ Settles(a) /\ UNCHANGED cache

HistoryNext ==
  \/ Tick
  \/ \E l \in Scrobble : Learn(l)
  \/ PreloadAsks \/ PreloadAnswered \/ PreloadFails \/ PreloadPushes
  \/ \E p \in Play : Enqueue(p)
  \/ \E a \in Activity, p \in Play : Take(a, p)
  \/ \E a \in Activity :
       \/ Regroup(a) \/ Find(a) \/ LookUp(a) \/ LookUpFails(a) \/ AskForPage(a)
       \/ Answered(a) \/ AnsweredLast(a) \/ AskFails(a) \/ Compare(a)

HistorySpec == HistoryInit /\ [][HistoryNext]_historyVars

-----------------------------------------------------------------------------
HistoryTypeOK ==
  /\ kind \in Kinds /\ now \in 0..MaxTime
  /\ \A p \in Play : date[p] \in Dates \cup {Never} /\ queue[p] \in {"new", "loop", "dead", "done"}
  /\ \A l \in Scrobble : heard[l] \in Dates \cup {Never} /\ age[l] \in 0..Kept
  /\ ranges \in Seq(TimeRange) /\ hold \in [Activity -> TimeRange]
  /\ \A c \in cache : c.listens \subseteq Scrobble /\ c.left \in Nat \ {0}
  /\ \A c, d \in cache : c.key = d.key => c = d
  /\ \A a \in Activity :
       /\ task[a] \in {"idle", "reads", "grouped", "looks", "asks", "compares"}
       /\ read[a] \subseteq Dates /\ answer[a].listens \subseteq Scrobble

(* What the pages of a service are known to lose of a time with more than  *)
(* one: all but the newest page; what another activity, writing the same   *)
(* cursor, has this one skip; or the listens of the second a page ends     *)
(* with.                                                                   *)
LostToPages(from, to, whole, l) ==
  /\ Cardinality(Within(from, to)) > PageSize
  /\ \/ kind = "lastfm"
     \/ kind = "koito" /\ ~whole
     \/ \E m \in Recorded \ {l} : heard[m] = heard[l]

(* A Play is compared with every listen at the very time of the Play that  *)
(* its service knew for as long as answers are remembered when the Play's  *)
(* range was found: whatever was grouped with the Play, whichever ranges   *)
(* were kept, whatever was remembered, and whoever regrouped or used them  *)
(* or initialised the Client meanwhile.  Except for what the service came  *)
(* to know while it was answering, for what is lost to pages, and for a    *)
(* Play on another day than the range starts on with Maloja.               *)
(* The ranges and answers kept are of their type, one answer for a key.    *)
NothingKnownIsMissed ==
  HistoryTypeOK /\ \A a \in Activity, l \in Scrobble :
    /\ task[a] = "compares" /\ heard[l] = date[current[a]]
    /\ l \in due[a] \ answer[a].late
    => \/ l \in answer[a].listens
       \/ LostToPages(hold[a].from, hold[a].to, answer[a].whole, l)
       \/ kind = "maloja" /\ Day(heard[l]) # Day(hold[a].from)

(* "Should have been handled before this": a Play that was read has a range *)
(* once its activity has regrouped, unless an older one is kept that ends  *)
(* with the Play or up to StaleAfter before it.                            *)
RangesAreHandled ==
  [][\A a \in Activity :
       LET p == current[a]
       IN task[a] = "reads" /\ task'[a] = "grouped" /\ date[p] \in read[a]
          => \/ Serving(p)' # {}
             \/ \E i \in DOMAIN ranges : ranges[i].to \in (date[p] - StaleAfter)..date[p]]_task
=============================================================================
