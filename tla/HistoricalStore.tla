-------------------------- MODULE HistoricalStore --------------------------
(***************************************************************************)
(* A Client that keeps its service's history itself.                       *)
(*                                                                         *)
(* teal.fm and Rocksky are lists of records that cannot be searched by     *)
(* date.  Their Clients import all records once, pull the recent ones      *)
(* whenever they are initialised, and compare Plays with what they stored. *)
(* teal.fm's Client also stores what it scrobbles, under the id that the   *)
(* Play has from its Source; an import or a pull stores under the record's *)
(* key.  The table has an id once, whichever Client stored it.             *)
(*                                                                         *)
(* The loop takes the new Plays and the dead run those that failed, each   *)
(* one Play at a time; nothing keeps the two from doing so together.       *)
(***************************************************************************)
EXTENDS Integers, FiniteSets, Sequences

CONSTANTS
  Track,       \* the Plays the Client gets
  ListenOf,    \* of a Play: the listen it is about
  IdOf,        \* of a Play: the id its Source gave it (a negative number), or NoId
  BatchSize,   \* how many records are stored at once
  Recent,      \* how many records a pull asks for
  MaxRecords,  \* bound: records of the account
  MaxEvents    \* bound: failures, crashes, records from elsewhere, ids of others

NoId == 0

ASSUME StoreAssumption ==
  /\ {BatchSize, Recent} \subseteq Nat \ {0} /\ {MaxRecords, MaxEvents} \subseteq Nat
  /\ Track # {} /\ DOMAIN ListenOf = Track
  /\ IdOf \in [Track -> { n \in Int : n <= NoId }]

(* Who scrobbles. *)
Worker == {"loop", "dead"}

VARIABLES
  adds,      \* addScrobbleToHistorical
  records,   \* the account: [listen, own], by their keys, oldest first
  rows,      \* plays_historical: the Client's [uid, listen]
  foreign,   \* and the ids other Clients have there
  imports,   \* the last historicalImport: none, open, success or failed
  synced,
  stage,     \* of an import: "no", "fetch", "check" or "store"
  car,       \* of an import: the records that were fetched
  todo,      \* of an import: those not looked at
  batch,     \* of an import: those to store
  raced,     \* ghost: a pull stored something during the import, or it met a fault
  pull,      \* of postInitialize: "no", "import", "ask" or "store"
  unseen,    \* of postInitialize: the records to store
  play,      \* of a Play: "new", "failed", "stopped", "scrobbled" or "duped"
  step,      \* of a worker: "no", "compare", "submit" or "store"
  playObj,   \* of a worker: its Play
  looked,    \* of a worker: whether the listen was in the table
  settling,  \* of a worker: Plays that are submitted and not yet marked so
  excused,   \* ghost: Plays that have a record though they are not marked so,
             \* and those compared while one of the same listen was between
             \* its comparison and its mark
  events     \* how many more events the bound allows

importVars == <<imports, synced, stage, car, todo, batch, raced>>
pullVars == <<pull, unseen>>
scrobbleVars == <<play, step, playObj, looked, settling, excused>>
storeVars == <<adds, records, rows, foreign, importVars, pullVars, scrobbleVars, events>>

AnyPlay == CHOOSE p \in Track : TRUE

StoreInit ==
  /\ adds \in BOOLEAN
  /\ records = <<>> /\ rows = {} /\ foreign = {}
  /\ imports = "none" /\ synced = FALSE /\ stage = "no" /\ raced = FALSE
  /\ car = {} /\ todo = {} /\ batch = {}
  /\ pull = "no" /\ unseen = {}
  /\ play = [p \in Track |-> "new"] /\ excused = {}
  /\ step = [w \in Worker |-> "no"] /\ playObj = [w \in Worker |-> AnyPlay]
  /\ looked = [w \in Worker |-> FALSE] /\ settling = [w \in Worker |-> {}]
  /\ events = MaxEvents

Keys == DOMAIN records

Event == events > 0 /\ events' = events - 1

-----------------------------------------------------------------------------
(* The table. *)

HasByUid(uid) == \E row \in rows : row.uid = uid

(* The unique index spans all Clients; rows without id it leaves alone. *)
Taken(uid) == uid # NoId /\ (HasByUid(uid) \/ uid \in foreign)

(* createHistoricalPlays: all at once, and when that fails one by one up to *)
(* the first that cannot be stored.                                         *)
Storable(S) == { r \in S : \A t \in S : Taken(t) => r < t }

Stores(S) == rows' = rows \cup { [uid |-> r, listen |-> records[r].listen] : r \in Storable(S) }

(* Another Client stores a Play of the same Source. *)
OtherStores(p) ==
  /\ Event /\ IdOf[p] # NoId /\ ~Taken(IdOf[p])
  /\ foreign' = foreign \cup {IdOf[p]}
  /\ UNCHANGED <<adds, records, rows, importVars, pullVars, scrobbleVars>>

-----------------------------------------------------------------------------
(* The import. *)

StartsImport ==
  /\ stage = "no" /\ stage' = "fetch"
  /\ imports' = "open" /\ raced' = FALSE

(* POST /api/client/historical; refused while an import runs. *)
RequestImport ==
  /\ StartsImport
  /\ UNCHANGED <<adds, records, rows, foreign, synced, car, todo, batch, pullVars,
                 scrobbleVars, events>>

(* Its end, which a pull may wait for: only a failed one is followed by it. *)
EndsImport(success) ==
  /\ stage' = "no" /\ synced' = success
  /\ car' = {} /\ todo' = {} /\ batch' = {}
  /\ imports' = IF success THEN "success" ELSE "failed"
  /\ pull' = IF pull # "import" THEN pull ELSE IF success THEN "no" ELSE "ask"

Fetch ==
  /\ stage = "fetch" /\ stage' = "check"
  /\ car' = Keys /\ todo' = Keys
  /\ UNCHANGED <<adds, records, rows, foreign, imports, synced, batch, raced, pullVars,
                 scrobbleVars, events>>

(* Mutant: what is stored already is not looked up. *)
AnyRecord(r) == TRUE

(* A record that is not stored is put into the batch. *)
ToStore(r) == ~HasByUid(r)

Check ==
  /\ stage = "check"
  /\ \E r \in todo :
       /\ \A s \in todo : r <= s
       /\ todo' = todo \ {r}
       /\ batch' = batch \cup { s \in {r} : ToStore(s) }
  /\ stage' = IF Cardinality(batch') = BatchSize THEN "store" ELSE "check"
  /\ UNCHANGED <<adds, records, rows, foreign, imports, synced, car, raced, pullVars,
                 scrobbleVars, events>>

(* Mutant: a batch that is not full is left when the records are through. *)
LeavesRest == TRUE

NothingLeft == batch = {}

(* The records are through. *)
CheckedAll ==
  /\ stage = "check" /\ todo = {}
  /\ \/ NothingLeft /\ EndsImport(TRUE)
     \/ ~NothingLeft /\ stage' = "store" /\ UNCHANGED <<imports, synced, pull, car, todo, batch>>
  /\ UNCHANGED <<adds, records, rows, foreign, raced, unseen, scrobbleVars, events>>

(* A batch is stored; if a part of it cannot be, the import has failed. *)
StoreBatch ==
  /\ stage = "store"
  /\ Stores(batch)
  /\ \/ /\ Storable(batch) = batch
        /\ stage' = "check" /\ batch' = {}
        /\ UNCHANGED <<imports, synced, pull, car, todo>>
     \/ Storable(batch) # batch /\ EndsImport(FALSE)
  /\ UNCHANGED <<adds, records, foreign, raced, unseen, scrobbleVars, events>>

(* The archive is not answered, or a record cannot be read. *)
ImportFails ==
  /\ stage \in {"fetch", "check"} /\ Event
  /\ EndsImport(FALSE) /\ raced' = TRUE
  /\ UNCHANGED <<adds, records, rows, foreign, unseen, scrobbleVars>>

-----------------------------------------------------------------------------
(* postInitialize, in the background: an import unless there was one, else *)
(* the recent records.  An import that runs already makes it give up.      *)
PostInitialize ==
  /\ pull = "no"
  /\ \/ synced /\ pull' = "ask" /\ UNCHANGED <<stage, imports, raced>>
     \/ ~synced /\ StartsImport /\ pull' = "import"
  /\ UNCHANGED <<adds, records, rows, foreign, synced, car, todo, batch, unseen, scrobbleVars,
                 events>>

(* syncRecentHistoricalScrobbles: the recent records that are not stored. *)
Ask ==
  /\ pull = "ask"
  /\ unseen' = { r \in Keys : Len(records) - r < Recent /\ ~HasByUid(r) }
  /\ pull' = IF unseen' = {} THEN "no" ELSE "store"
  /\ UNCHANGED <<adds, records, rows, foreign, importVars, scrobbleVars, events>>

StoreRecent ==
  /\ pull = "store" /\ pull' = "no"
  /\ Stores(unseen) /\ unseen' = {}
  /\ raced' = (raced \/ stage # "no")
  /\ UNCHANGED <<adds, records, foreign, imports, synced, stage, car, todo, batch,
                 scrobbleVars, events>>

-----------------------------------------------------------------------------
(* Scrobbling. *)

Records(p, own) ==
  /\ Len(records) < MaxRecords
  /\ records' = Append(records, [listen |-> ListenOf[p], own |-> own])

(* Some app puts a record into the account. *)
Elsewhere(p) ==
  /\ Event /\ Records(p, FALSE)
  /\ UNCHANGED <<adds, rows, foreign, importVars, pullVars, scrobbleVars>>

InTable(p) == \E row \in rows : row.listen = ListenOf[p]

Submitted(p) == \E q \in Track : play[q] = "scrobbled" /\ ListenOf[q] = ListenOf[p]

(* The loop takes a new Play when the last one is marked; the dead run one *)
(* that failed, and does not wait for the mark of the one before.  First   *)
(* (getSOTScrobblesForPlay) it reads what the table has of the listen.     *)
LookUpTable(w, p) ==
  /\ step[w] = "no" /\ step' = [step EXCEPT ![w] = "compare"]
  /\ \/ w = "loop" /\ play[p] = "new" /\ settling[w] = {}
     \/ w = "dead" /\ play[p] = "failed" /\ p \notin settling[w]
  /\ playObj' = [playObj EXCEPT ![w] = p]
  /\ looked' = [looked EXCEPT ![w] = InTable(p)]
  /\ UNCHANGED <<adds, records, rows, foreign, importVars, pullVars, play, settling, excused,
                 events>>

(* Mutant: what the Client scrobbled itself is only looked for in the table. *)
FoundStored(w) == looked[w]

(* What was stored is compared with, and what is marked as scrobbled now. *)
Found(w) == looked[w] \/ Submitted(playObj[w])

(* Ghost: the Play of another worker is of the same listen and found nothing *)
(* either, or one is not yet marked.                                       *)
Meanwhile(w) ==
  \E v \in Worker :
    \/ v # w /\ step[v] \in {"submit", "store"} /\ ListenOf[playObj[v]] = ListenOf[playObj[w]]
    \/ \E p \in settling[v] : ListenOf[p] = ListenOf[playObj[w]]

Frees(w) ==
  /\ step' = [step EXCEPT ![w] = "no"] /\ playObj' = [playObj EXCEPT ![w] = AnyPlay]
  /\ looked' = [looked EXCEPT ![w] = FALSE]

(* A Play is a duplicate, or is to be submitted. *)
CompareStored(w) ==
  /\ step[w] = "compare"
  /\ \/ /\ Found(w) /\ Frees(w)
        /\ play' = [play EXCEPT ![playObj[w]] = "duped"] /\ excused' = excused
     \/ /\ ~Found(w) /\ step' = [step EXCEPT ![w] = "submit"]
        /\ excused' = excused \cup { p \in {playObj[w]} : Meanwhile(w) }
        /\ UNCHANGED <<play, playObj, looked>>
  /\ UNCHANGED <<adds, records, rows, foreign, importVars, pullVars, settling, events>>

Fails(w) ==
  /\ Frees(w) /\ play' = [play EXCEPT ![playObj[w]] = "failed"] /\ settling' = settling

(* The Play is scrobbled; it is marked in a while. *)
Submits(w) ==
  /\ Frees(w) /\ settling' = [settling EXCEPT ![w] = @ \cup {playObj[w]}] /\ play' = play

PutScrobble(p) == rows' = rows \cup {[uid |-> IdOf[p], listen |-> ListenOf[p]]}

(* Mutant: the Play is stored first, and submitted then. *)
StoredFirst(w) == IF Taken(IdOf[playObj[w]]) THEN UNCHANGED rows ELSE PutScrobble(playObj[w])

StoredBefore(w) == UNCHANGED rows

(* The record is created. *)
SubmitRecord(w) ==
  /\ step[w] = "submit"
  /\ StoredBefore(w)
  /\ Records(playObj[w], TRUE)
  /\ \/ adds /\ step' = [step EXCEPT ![w] = "store"] /\ UNCHANGED <<play, playObj, looked, settling>>
     \/ ~adds /\ Submits(w)
  /\ UNCHANGED <<adds, foreign, importVars, pullVars, excused, events>>

(* It is refused, or created without an answer. *)
SubmitFails(w, created) ==
  /\ step[w] = "submit" /\ Event
  /\ StoredBefore(w)
  /\ \/ created /\ Records(playObj[w], TRUE) /\ excused' = excused \cup {playObj[w]}
     \/ ~created /\ UNCHANGED <<records, excused>>
  /\ Fails(w)
  /\ UNCHANGED <<adds, foreign, importVars, pullVars>>

(* What was scrobbled is stored.  When its id is taken this throws, and the *)
(* Play has failed though its record was created.                           *)
StoreScrobble(w) ==
  LET p == playObj[w]
  IN /\ step[w] = "store"
     /\ \/ ~Taken(IdOf[p]) /\ PutScrobble(p) /\ Submits(w) /\ excused' = excused
        \/ Taken(IdOf[p]) /\ Fails(w) /\ rows' = rows /\ excused' = excused \cup {p}
     /\ UNCHANGED <<adds, records, foreign, importVars, pullVars, events>>

(* A Play that was scrobbled is marked so, *)
Mark(w, p) ==
  /\ p \in settling[w] /\ settling' = [settling EXCEPT ![w] = @ \ {p}]
  /\ play' = [play EXCEPT ![p] = "scrobbled"]
  /\ UNCHANGED <<adds, records, rows, foreign, importVars, pullVars, step, playObj, looked,
                 excused, events>>

(* or as failed, as the loop was told to stop meanwhile. *)
MarkStopped(p) ==
  /\ Event
  /\ p \in settling["loop"] /\ settling' = [settling EXCEPT !["loop"] = @ \ {p}]
  /\ play' = [play EXCEPT ![p] = "stopped"] /\ excused' = excused \cup {p}
  /\ UNCHANGED <<adds, records, rows, foreign, importVars, pullVars, step, playObj, looked>>

(* The process dies.  The migrations tell whether the last import was good. *)
Crash ==
  /\ Event
  /\ stage' = "no" /\ car' = {} /\ todo' = {} /\ batch' = {} /\ raced' = FALSE
  /\ synced' = (imports = "success")
  /\ pull' = "no" /\ unseen' = {}
  /\ step' = [w \in Worker |-> "no"] /\ playObj' = [w \in Worker |-> AnyPlay]
  /\ looked' = [w \in Worker |-> FALSE] /\ settling' = [w \in Worker |-> {}]
  /\ excused' = excused \cup { playObj[w] : w \in { v \in Worker : step[v] = "store" } }
                \cup UNION { settling[w] : w \in Worker }
  /\ UNCHANGED <<adds, records, rows, foreign, imports, play>>

StoreNext ==
  \/ RequestImport \/ Fetch \/ Check \/ CheckedAll \/ StoreBatch \/ ImportFails
  \/ PostInitialize \/ Ask \/ StoreRecent
  \/ \E w \in Worker :
       \/ CompareStored(w) \/ SubmitRecord(w) \/ StoreScrobble(w)
       \/ \E created \in BOOLEAN : SubmitFails(w, created)
       \/ \E p \in Track : LookUpTable(w, p) \/ Mark(w, p)
  \/ \E p \in Track : Elsewhere(p) \/ OtherStores(p) \/ MarkStopped(p)
  \/ Crash

StoreSpec == StoreInit /\ [][StoreNext]_storeVars

-----------------------------------------------------------------------------
StoreTypeOK ==
  /\ imports \in {"none", "open", "success", "failed"}
  /\ stage \in {"no", "fetch", "check", "store"} /\ batch \subseteq car /\ todo \subseteq car
  /\ pull \in {"no", "import", "ask", "store"} /\ unseen \subseteq Keys
  /\ step \in [Worker -> {"no", "compare", "submit", "store"}]
  /\ playObj \in [Worker -> Track] /\ settling \in [Worker -> SUBSET Track]
  /\ \A row, other \in rows : row.uid = other.uid /\ row.uid # NoId => row = other

IsRecorded(listen) == \E r \in Keys : records[r].listen = listen

(* What the Client compares Plays with is true of its account: every row   *)
(* has a record, whatever was imported, pulled and scrobbled at a time, and *)
(* so has a Play that is settled as scrobbled or as a duplicate.           *)
StoreIsTrue ==
  /\ \A row \in rows : IsRecorded(row.listen)
  /\ \A p \in Track : play[p] \in {"scrobbled", "duped"} => IsRecorded(ListenOf[p])

(* The Client makes one record of a listen, from however many Plays and in *)
(* how many attempts, whatever the loop and the dead run compared and      *)
(* submitted meanwhile.  Except when a Play of the listen has a record and *)
(* is not marked so: no answer, a crash or a stop in between, or an id that *)
(* another row has; or when one was compared between another's comparison  *)
(* and its mark, which nothing keeps the two workers from.                 *)
RecordedOnce ==
  \A p \in Track :
    \/ \A r, s \in Keys :
         /\ records[r].own /\ records[s].own
         /\ records[r].listen = ListenOf[p] /\ records[s].listen = ListenOf[p]
         => r = s
    \/ \E q \in excused : ListenOf[q] = ListenOf[p]

RecordsAreSound == StoreTypeOK /\ StoreIsTrue /\ RecordedOnce

(* An import that succeeds has stored every record it fetched, and one that *)
(* fails met a fault, or a pull stored records it was about to store.       *)
ImportsAreComplete ==
  [][stage # "no" /\ stage' = "no" /\ imports' # "open"
     => IF synced' THEN \A r \in car : HasByUid(r)' ELSE raced']_stage
=============================================================================
