# Verification of multi-scrobbler

multi-scrobbler listens to *Sources* (players, scrobbling services, webhooks) and submits ("scrobbles")
what was played to *Clients* (Last.fm, Maloja, ListenBrainz, ...). These modules state, model-check and
prove what its core promises: that what was listened to is noticed, once; that it reaches every Client,
once, whatever fails in between; and that what is being played is shown. Source paths below are relative
to `src/src/backend/`.

## Inventory

| Component | State | Operations | Hard behaviour | Modules |
|---|---|---|---|---|
| Client queues, `scrobblers/AbstractScrobbleClient.ts`, `repositories/PlayRepository.ts`, `QueueRepository.ts` | rows of `plays` and `play_queue_states`, counters, cached history | `queueScrobble`, `doProcessing`, `processQueueCurrentScrobble`, `processDeadLetterQueue`, `processDeadLetterScrobble`, `removeDeadLetterScrobble(s)` | three asynchronous activities over the same rows; lost replies; aborts; crashes | `ScrobbleQueue`, `ScrobblePromise` |
| Client lifecycle, same file | `scrobbling`, abort controllers, scheduler jobs | `initScrobbleMonitoring`, `startScrobbling`, `tryStopScrobbling`, `heartbeatTask`, `initTasks` | restart racing a stop; tasks that must fire for ever | `ScrobbleLoop` |
| Now Playing, same file and `ScrobbleClients.ts` | `nowPlayingQueue`, last update | `queuePlayingNow`, `processingPlayingNow` | updates queued during an await | `NowPlaying` |
| History of a Client, same file, `utils/ListenFetchUtils.ts`, API clients | `scrobbleSOTRanges`, `cacheClientScrobbles` | `updateScrobbleSOTRanges`, `getSOTScrobblesForPlay`, `groupPlaysToTimeRanges`, paging | two activities over one list of ranges; boundaries; pages | `HistoryRanges` |
| History kept by a Client, `AbstractHistoricalScrobbleClient.ts`, `TealfmScrobbler.ts`, `RockskyScrobbler.ts` | `plays_historical`, `job_imports` | import, pull, store of a scrobble | import racing a pull, crash, an id stored twice | `HistoricalStore` |
| Initialisation, `common/AbstractInitializable.ts`; Discord, `scrobblers/DiscordScrobbler.ts`, `vendor/discord/` | `buildOK`, `databaseOK`, `connectionOK`, `authed`, controller; socket, session, heartbeat | `initialize` and its stages; `connect`, `handleReconnect`, gateway messages | concurrent initialisations; a socket that dies, is refused or goes silent | `DiscordClient` |
| Discovery and fan-out, `sources/AbstractSource.ts`, `scrobblers/ScrobbleClients.ts`, `drizzleUtils.ts` | recent Plays in memory, rows, the transaction | `discover`, `scrobble`, `addPlayToDB`, `queueScrobble`, `runTransaction` | backlog racing polling; statements of others inside a transaction | `SourceDiscovery` |
| Polling, `sources/AbstractSource.ts` | `polling`, `pollRetries`, abort controller | `poll`, `startPolling`, `doPolling`, `processBacklog`, `tryStopPolling`, heartbeat | two polls past one check; a stop nobody acknowledges | `SourcePolling` |
| Players, `sources/MemorySource.ts`, `PlayerState/` | players, listen ranges | `processRecentPlays`, `update`, `cleanupPlayer`, `getPlayedObject` | stale and orphaned players, cleanup racing updates | `PlayerTracking` |
| Sources without dates, `sources/YTMusicSource.ts`, `AppleMusicSource.ts`, `utils/PlayComparisonUtils.ts` | lists seen | list comparison | answers out of date, entries shifted, removed, repeated | `SnapshotSource` |
| Transforms, `common/AbstractComponent.ts`, `transforms/` | rules, caches | `transformPlay`, stages | failure of a stage, caches shared by hooks | `TransformPipeline` |
| Retention, `tasks/retentionCleanup.ts`, `repositories/PlayRepository.ts` | `plays`: state, last update, what was compacted; options of each component | hourly purge and compaction | a purge while a retry waits; policies that differ | `Retention` |
| REST API, registries, notifiers, other Sources and Clients, dashboard | see `PROJECT.json` | | mostly I/O, parsing, data | none |

A Source finds out what was listened to (`SnapshotSource`, `PlayerTracking`, or an answer with dates), its
polling (`SourcePolling`) discovers what is new and hands it to every Client in turn (`SourceDiscovery`,
with `TransformPipeline` on the way), whose `queueScrobble` is the environment of `ScrobbleQueue`. The
Client's loop (`ScrobbleLoop`) and its dead run compare with the history (`HistoryRanges` and
`HistoricalStore`) and call the service; a task purges what is settled (`Retention`); the heartbeat initialises the Client (`DiscordClient` for the most
involved). Players also tell Clients what is playing (`NowPlaying`). The REST API calls into all of these.
Everything runs on one JavaScript thread, so activities interleave only where they wait.

## Modules

| Module | What it is |
|---|---|
| `ScrobblePromise` | abstract: what a Client promises of each Play, with no queue in sight |
| `ScrobbleQueue` | the queues of one Client: the component, its properties, and the faulty variants the properties are tested against |
| `ScrobbleQueueRefinement` | the mapping under which `ScrobbleQueue` implements `ScrobblePromise` |
| `ScrobbleQueueProofs` | the theorems about `ScrobbleQueue`, and about how a Play passes from one queue to the other |
| `ScrobblePromiseProofs` | that no Play is lost unaccounted for or submitted twice, and that the queues implement `ScrobblePromise`; that counters and retries are right |
| `ScrobbleLoop` | who starts, stops and restarts the loop of one Client: heartbeat, REST API, initialisation, dropped connections, the scheduled dead task |
| `HistoryRanges` | which history a queued Play is compared with, for four kinds of service |
| `HistoricalStore` | a Client that keeps its service's history itself |
| `ClientLifeProofs` | the theorems about `ScrobbleLoop`, `HistoricalStore` and `HistoryRanges` |
| `NowPlaying` | what a Client shows as being played |
| `DiscordClient` | the stages of an initialisation, and a Client that must stay connected |
| `PresenceProofs` | the theorems about `NowPlaying` and `DiscordClient` |
| `SourceDiscovery`, `SourceDiscoveryProofs` | from what a service reports to a row in the queue of every Client, and the theorems about it |
| `SourcePolling`, `SourcePollingProofs` | who starts and stops the polling of one Source, and the theorem about it |
| `PlayerTracking`, `PlayerTrackingProofs` | what a Source that is told what a device plays takes for listened to, and the theorems about it |
| `SnapshotSource` | what a Source finds in lists that carry no dates |
| `TransformPipeline` | what a hook makes of a Play, and what its caches remember |
| `Retention` | which Plays are deleted and compacted, and when |
| `IngressProofs` | the theorems about `SnapshotSource`, `TransformPipeline` and `Retention` |
| `MCScrobbleQueue`, `MCClient`, `MCClientLife`, `MCIngress` | the instances TLC checks |

`MCClientLife` and `MCIngress` put modules that share no state next to each other: a variable `part` says
which of them a behaviour is about, and the others stay as they began. It says nothing about their
composition; it only lets one run check them.

### ScrobbleQueue and the code

| Model | Code |
|---|---|
| `play`, `listen` | `plays.state` and what the row's Play is; row ids are in the order of `seenAt`, by which `getQueueNext` sorts |
| `ingress`, `ingressError`, `dead` | the `play_queue_states` rows of the two queues: at most one ingress row, a sequence of dead rows with their `retries` |
| `history`, `sent` | the service: what its history shows, how often it accepted each row |
| `queuedLength`, `deadLetterLength`, `deadLetterQueued`, `scrobbleRetries` | the fields of the same names |
| `cache` | `cacheClientScrobbles`, which lives in memory |
| `aborted`, `monitoring`, `ready` | the loop's abort signal, `monitoringActivity`, `isReady()` |
| `pc`, `cur`, `seen`, `rows` | where each of the three activities waits, the Play it holds, the history it compares with, and the dead rows as they were when it read them |
| `limit` | the `retries` argument of the run under way |

*Grain.* `node:sqlite` is synchronous: the code between two waits for the network or a timer runs without
interruption and is one action. A step of the loop waits for the history (`fetch`), for the transforms
before and after the comparison (`compare`, `submit`), and for the answer to the submission, which the
service may already have accepted (`accepted`). What can split an action is the death of the process: the
`Torn` actions stop between two statements and reboot, for each pair of statements whose order matters.

*Data.* A Play is a row id, and what was listened to is a member of `Listen`. `existingScrobble` and
`checkExisting` score titles, artists and dates; what the queues tell apart is a Play of the same listen, a
Play of the same track at another time that is so close that `getTemporallyClosePlays` returns it although
its date is no acceptable match (`Repeats`: the recorded one is the track's replay, right after the listen that
is compared; the other way round the earlier one is not found), and anything else. The
time ranges of the history requests are abstracted: the cached answer may be used while it exists, and it
may also have expired or belong to another range, so a new request is always possible.

*Environment.* `Faults` chooses what may happen: a submission rejected (`reject`) or refused with an error
that is not upstream's (`showstop`), an answer lost after the service accepted (`lostReply`), a failing
history request (`history`), the API's stop (`abort`), monitoring switched off (`monitor`), a client that is
not ready (`unready`), a retry or a removal of one Play or all (`retryApi`, `forceRun`, `removeApi`), and the
death of the process (`crash`).

*Left out here.* The API retries one Play at a time and only Plays the dashboard lists as dead. A second
loop, which `POST /api/client/init` can start while the first one backs off, is the subject of
`ScrobbleLoop`. A dead run or API retry that loses the client's readiness after it has taken its Play
goes on, as in the code.

### ScrobbleLoop and the code

`ScrobbleQueue` takes its one loop as given; `ScrobbleLoop` is about what surrounds it and keeps of the loop
only where it is.

| Model | Code |
|---|---|
| `loop`, `aborted` | the calls of `startScrobbling` that have not ended (running, in the sleep before the next attempt, or in a notification before they end), and those whose signal is aborted |
| `scrobbling`, `abortController`, `scrobbleRetries` | the fields; an abort controller is named by its loop |
| `ready`, `initController` | `isReady()`; whose `initialize()` is under way |
| `at` | where the heartbeat and each request wait: in the ten polls of `tryStopScrobbling` (`stopping`), in `initialize()` before they look at the loop (`preparing`, `prepared`) or as part of `initScrobbleMonitoring` (`initializing`, `initialized`) |
| `deadTask` | the job `dead`: waiting for its interval, executing, or executing a promise that never settles |
| `Restart`, `RestartGoesOn`, `RestartGivesUp` | `POST /api/client/init`, before, after and in spite of the stop |
| `Reauthenticate`, `Disconnected` | the Last.fm callback of `server/auth.ts`; the `stopped` listener of `DiscordScrobbler` |

*Grain.* As above: code between two waits is one action. `initialize()` is two steps, the stages and what
runs after them (`postInitialize`, during which the attempt still excludes others). A restart that finds
`scrobbling` set and no abort controller answers 500 and changes nothing, so it is no action.

*Assumptions.* The client can authenticate unattended (the heartbeat does nothing for others). The scheduler
is external: it runs the heartbeat at once and then at its interval, and starts no job that it believes is
still executing, which is its default. A loop that ends because its client is not usable or not
authenticated waits for a notification first (`ending`).

### SourceDiscovery and the code

| Model | Code |
|---|---|
| `heard`, `Fetch` | what the service reports, read by the poll and by the backlog |
| `cache`, `db` | `getRecentlyDiscoveredPlays` (memory, else the table), the rows of Source and Clients |
| `act` | the two discoveries and each hand-over: the Play it is at, the list it compares with, what it found |
| `Known`, `New`, `Push`, `Stop` | one turn of `discover`: the comparison, `addPlayToDB`, the abort between Plays |
| `Forward`, `Check`, `AddToQueue` | `scrobble` and `ScrobbleClients.scrobble`: the Clients in order: whether the Play is queued there already, and `queueScrobble` with its two statements |
| `txn`, `Begin`, `Commit`, `DiscoveryFails` | `runTransaction`: BEGIN, COMMIT and ROLLBACK over the one connection; a statement of another activity made in between is rolled back as well |

A Play is its date. `overlapped`, `happened` and `crashes` record what the properties must excuse.

### SourcePolling and the code

| Model | Code |
|---|---|
| `CallPoll`, `Start` | `poll()`: the guard on `polling`, the awaits on initialisation and on two hooks, and only then the flag |
| `loop`, `EnterLoop`, `Fetched`, `FetchFails`, `Slept`, `BackoffEnds` | `startPolling` and `doPolling`, with `pollRetries` |
| `backlog` | `processBacklog`, which runs beside the loop |
| `Ended`, `crashed` | the `finally` and the `catch` of `poll`, which reads a field that another call may have cleared |
| `at` | the heartbeat, `POST /api/source/init` and the callback of an authentication |

The flag is set several awaits after its check. `raced` records whether a second call passed the check in
that time; without it the Source has one activity and a stop reaches it, with it neither is true.

### PlayerTracking and the code

| Model | Code |
|---|---|
| `setup` | which kind of player it is: reports with a position, in real time (`RealtimePlayer`), without one, or a Source that is told (`nowPlaying`); whether reports carry status and time |
| `player` | `AbstractPlayerState` and `ListenRange`: play, statuses, the current range and what the closed ones add up to |
| `Update` | `update`, `setCurrentPlay`, `isSessionStillPlaying`, `isSessionRepeat` |
| `Poll`, `Ingress` | `processRecentPlays` called by the poll, or by the device |
| `CleanupPlayer`, `CleanupDecided`, `ScheduledCleanup` | `cleanupPlayer`: what it hands over, and the deletion after an await; the scheduled one drops what it returns (`MemorySource.ts:71`) |
| `device`, `Listener`, `Seek` | what really happens |

Time is in ticks. `lost` records why a session that was worth discovering was not; `heard`, `parts`, `seeks`
and `contact` in `player` are what really happened, which the properties compare with what it believes.

### NowPlaying, DiscordClient and the code

`queue` is `nowPlayingQueue`, `task` the task `processingPlayingNow`, which chooses a Source by priority or
name (`ChosenSource`), asks whether to update (`ShouldUpdate`: thresholds, status, a changed Play; the maximum interval is a
Play's own, a second more than it lasts, and may be less than the minimum), waits
for the platform's permission and for the call, and then *replaces* the queue by what it copied
(`Dropped`). Players report through a transform, so updates may arrive in another order (`inflight`).

In `DiscordClient` `client` is what `AbstractInitializable` keeps (a flag per stage, `authed`,
`authFailure`, the attempt under way), `gate` the fields of the gateway client and `conn` the socket, which a
library opens and reopens, and the gateway behind it. `MessageHandled` is the handler of gateway messages
(hello, ready, resumed, invalid session, reconnect, heartbeat acknowledgement), `ReconnectGoesOn` and
`ReconnectGivesUp` `handleReconnect`, `StageSkipped` to `AuthTested` the stages. A reconnect waits ten seconds for its socket
to close; if it is open again by then, or still closing (`CloseTakesTooLong`), the code throws, which is only logged, and the Client
may look ready over nothing (`stranded`).

### SnapshotSource, TransformPipeline and the code

`SnapshotSource` has the comparisons as operators over two sequences (`PlaysAreBumpedOnly`,
`PlaysAreAddedOnly`, `Paired` for `getListDiff`) and the Source's use of them (`IncomingHistory`, `Reset`,
`Reverted`). The service's `history` gets listens and loses entries; an answer may be one of the `past`.

`TransformPipeline` runs one transformation at a time, a stage per action (`StageHit` from the cache of answers,
`StageRuns` with every outcome), and ends in `Finish`, which fills the cache of steps. What stages do to
a Play is the set of stages whose result it has; the data they compare are left out.

### Retention and the code

`stored` has the row of one listen for its Source and each Client, with its state, its last update
(`$onUpdate`), when it was seen and what was compacted. `StartsSweep`, `DeleteExpired` and `Compact` are
`retentionTask` and `retentionCleanup`, Clients first; `Expired` and `Compactable` what `findPurgablePlayIds`
returns. It gets no `componentId`, so each component treats the Plays of all. `LoopSettles`, `TakesDead` and
`RetryEnds` are the steps of `ScrobbleQueue` that update a row, and a retry may hold its Play while it is
deleted. The task's statements do not wait, so nothing else happens while it runs; `settled` is when a Client
last had an answer about its Play.

### HistoryRanges, HistoricalStore and the code

In `HistoryRanges` a range is an object, as in the code: its ends, the `cursor` its next request starts with, and a
`copy` that tells two of the same ends apart. `hold` is the range an activity has taken, and the list `ranges` may have the
same one.

| Model | Code |
|---|---|
| `Take`, `Regroup`, `GroupedRanges` | the read of both queues, an await, and `updateScrobbleSOTRanges` with `groupPlaysToTimeRanges`: an old range that covers a group is kept |
| `Find`, `FoundRange`, `OwnRange`, `Widened` | the range `getSOTScrobblesForPlay` finds or makes, and adds to the list |
| `LookUp`, `LookUpFails` | the lookup of the cache, which has what was fetched or a failure, for `ErrorFor` |
| `AskForPage`, `Answered`, `AnsweredLast`, `AskFails` | the request, one step per page |
| `WritesCursor` | what `ListenFetchUtils.ts:113` does with the range of a request: Koito's page is written into it, also for the other activity that holds it |
| `Compare` | the comparison and whatever comes of the Play |
| `PreloadAsks`, `PreloadAnswered`, `PreloadFails`, `PreloadPushes` | `postInitialize`, at every initialisation, whatever ranges exist and whoever uses them: the newest listens go into the cache and, an await later, their range into the list |

Between any two of these steps the other activity, an initialisation, the service and time may go on. How each
service is paged is `Page`, `HasMore` and `After`: Last.fm answers its newest page and says there is no other (it compares an
undefined page), Koito goes on from the range's cursor, Maloja has one day, the one the range begins, and
ListenBrainz asks again from after the newest listen of a full answer. A page is a set of listens, and `Consolidated` is chosen by what the
code's `reduce` makes true of it, so that both can be reasoned about without recursion. `age` and `due` are ghosts for what
the service knew, and for how long; `knew`, `late` and `whole` of an answer tell what it can have: the code has none of
them, and no action reads them. Simplifications: an answer is made up when it arrives, the preload asks for a single page, and
reading the queues is one step with taking the Play.

In `HistoricalStore` `Fetch`, `Check` and `StoreBatch` are an import, `PostInitialize`, `Ask` and
`StoreRecent` the pull. Scrobbling has two workers, the loop and the dead run, each with a Play of its own: `LookUpTable` reads
the table, `CompareStored` compares with that and with what is marked as scrobbled by now, `SubmitRecord` and `SubmitFails`
are the request, `StoreScrobble` the row of a Client with `addScrobbleToHistorical`, and `Mark` and `MarkStopped` the update of the Play,
which the dead run does not wait for. A crash may come anywhere; `foreign` are ids that another Client has in the
table, whose unique index does not know Clients. `excused` are the Plays whose listen may get a second record: those that have one and are
not marked so, and those compared between another worker's comparison of the same listen and its mark.

## Runs

| Run | Shows |
|---|---|
| `QueueSafe` | under all faults but crashes, with a replayed track: `TypeOK`; every success the dashboard shows is real (`SuccessIsReal`); a row is in one queue at a time and has at most one dead row (`OneQueueAtATime`); only removals, switched-off monitoring, aborts and the comparison that throws lose a Play (`LossesAreKnown`) |
| `QueueOnce` | without crashes, lost replies, API retries of one Play and removals: `NoResubmission`, `CountersAgree`, and `KeepsPromise`, the refinement |
| `QueueLive` | `QueuedIsProcessed`, `DeadIsRetried` under fairness, `RetriesBounded` |
| `QueueLosesRepeat` | `NothingLost` fails without any failure: a listen that is queued after the replay of its track was scrobbled (it comes from a backlog, another Source, or was discovered late) is compared with that replay, which throws, and it is neither scrobbled nor kept. In the order of listening nothing throws |
| `LoopControl` | under failing Plays, failing initialisations, restarts, re-authentications and lost connections: `TypeOK`; the flag is set only while a loop runs and the abort controller is that of a live loop (`FieldsAreCurrent`); attempts to initialise exclude each other (`OneInitialization`); a client that is not ready and has no loop gets one (`IdleIsRestarted`, under fairness) |
| `ClientLife` | with restarts and failing initialisations the running loop can be stopped (`RunningIsStoppable`); a Play is compared with every listen its service knew at its time, while two activities and initialisations use the same ranges, but for what pages lose and what the service learns while it answers (`NothingKnownIsMissed`), and has a range once its activity regrouped (`RangesAreHandled`); a stored history is true, and a listen gets one record unless one was not marked or two workers compared it together (`RecordsAreSound`); an import that succeeds is complete (`ImportsAreComplete`) |
| `Discovery` | what is stored as discovered reaches every Client, what is handed over is stored, and a crash leaves few Plays without queue row (`HandOversAreSound`); a Play is stored once and known to be (`DiscoveriesAreSound`); what is heard reaches all Clients (`HeardReachesAll`, under fairness) |
| `Polling` | flag, controller and activities agree unless two calls raced (`PollingIsKnown`); the Source keeps polling (`KeepsPolling`, under fairness) |
| `Players` | what counts as listened to was listened to (`ListenedIsReal`); no long session is forgotten with its player (`SessionsAreKept`); a silent player goes in time (`PlayersAreSound`); only a dead player is removed, and it does not come back by itself (`RemovedIsDead`) |
| `NowPlaying` | the last update always has a track (`NowPlayingIsSound`); calls keep their distance: the minimum interval for something else, the Play's own maximum for the same again (`CallsAreSpaced`); what plays is shown in the end (`PlayingIsShown`); what an ingress Source tells once is shown or dropped for a known reason (`ToldIsSettled`) |
| `Discord` | a Client that says it is ready has an identified connection or is getting one (`ReadyIsReal`); it recovers from whatever happens (`Recovers`, under fairness) |
| `Ingress` | `TypeOK`; a hook does what it is configured to (`TransformsAreSound`); what a list comparison reports was listened to, in order, once (`ReportsAreListens`); new tracks and repeated ones are found (`NewTracksAreFound`, `RepeatsAreFound`); a Play is kept while it is needed and gone in time (`RetentionIsSound`) |

### Bounds

- Queues: two rows of one or two listens are enough for every pair of activities to hold different rows, the
  same listen in two rows, and a row and its replay; `DeadLetterRetries` 0 or 1 and `ForcedRetries` 1 make
  every counter pass its limit; `RetryCap` saturates the counter above both limits; `MaxInterventions` bounds
  users, switches and crashes; `sent` saturates at 2; in `QueueLive` `CountIsNotFarBelow` cuts off a counter
  that is decremented for ever.
- Loop: two loops, one or two requests at a time, one retry (so that both a retry and giving up happen) and up
  to five interventions: enough for a restart that overlaps a re-authentication while an initialisation fails
  and the connection is lost.
- History: two listens, two Plays, dates 0 and 2 and groups of what is within 1 (the same group, or not), a page of
  one listen (so that there are two pages), days of two ticks, time up to 3 (an answer may expire). With Koito two Plays are taken or
  initialisations begun, so that two activities page through one range, or one uses what the other cached; with the other services, whose
  requests leave the range as it was, one. The proofs cover any number with each.
- Stored history: three Plays, two of one listen and two with one id, two workers, batches of two, a pull of one record,
  two records (a second one of a listen, or one pulled before), one event.
- Discovery: two listens (one may be known when the other is new), two Clients (one before the other), one
  hand-over at a time, one intervention.
- Polling: two activities, one request beside the heartbeat, one retry, three interventions: a race, a stop
  and a failure.
- Players: tracks of three ticks, nine ticks (a whole track, staleness, death and a return), two tracks, three
  gestures of the listener, every kind of player and of report.
- Now Playing: three players of two Sources, one told and one polled; a minimum of 1, and a maximum of 0
  for one track (shorter than the minimum) and 1 for the other; one mishap.
- Discord: two overlapping reconnects beside the initialisation, two attempts of the library, three faults,
  one request.
- Snapshots: five tracks, one without a duration, lists of four, three remembered, answers up to two
  changes out of date, four events. Transforms: two hooks, two stages in every configuration, three
  transformations (a first one, one from each cache, a retry). Retention: one listen, a Source and two Clients,
  six hours, and five combinations of policies: the same for all, and one that deletes failed Plays sooner, never
  compacts, compacts less, or deletes a Source's Plays sooner.

`CHECK_DEADLOCK` is on in the runs of the queues: the dead task can always fire. It is off in the others.
A Client of `ScrobbleLoop` can really stop, ready, with no loop and its dead task pending for ever, and so
can a Source of `SourcePolling` (locked, or the process ended) and a Discord Client that gave up. In the
others the environment is bounded: listens, ticks, gestures, Plays or changes run out.

### Fairness

Node resumes every activity whose timer or request is over, and requests end: that is all that is assumed.
No fault ever has to happen or to stop happening but by its bound, and nothing is assumed of users.

- `ScrobbleQueue`: weak fairness of the loop, of the run and of an API retry, and of `RunTick`, since the scheduler
  fires the dead task every 20 minutes. `QueueLive` keeps the client ready, because a dead task that fires while
  it is not never settles (`AbstractScrobbleClient.ts:283`). Starting a stopped loop is not fair: nothing
  does it for a ready client.
- `ScrobbleLoop`: whatever waits goes on; the scheduler fires the heartbeat and the dead task.
- `SourceDiscovery`: each discovery and each hand-over goes on, through its transactions. Nothing is owed by
  the service; a Play is only expected once it was listened to.
- `SourcePolling`: the heartbeat, the awaits of calls, loop and backlog, and the ten looks of a stop.
- `NowPlaying`: polled players report, transforms and calls end, the task runs at its interval, and a Client that
  is not ready becomes ready.
- `DiscordClient`: the heartbeat, stages, the library's attempts, the gateway's answers, messages and
  timers.

The other modules state only safety.

### What the checks showed

One disagreement with the documentation is a run of its own (`QueueLosesRepeat`, `findings` in
`PROJECT.json`). The others are what the passing runs must leave out or excuse; each is a fault, a ghost variable or a
disjunct of a property, and the ones that bite are among the hazards:

- Queues: an aborted loop loses the Play it holds (`AbstractScrobbleClient.ts:1237`); one whose comparison
  throws starves the dead Plays behind it (`:1326`); the loop and the dead run can submit a listen twice
  (`:1526`), which `duplicates.mdx:161` rules out; removing a dead Play while a run holds it decrements a counter twice,
  until the next run counts the rows; a lost answer makes the retry submit again, because it compares with
  the history cached before; a crash between the creation of a Play and of its queue row loses the Play.
- Loop: a restart during the back-off starts a second loop (`:1063`); a dead task that fires before the
  client is ready never settles and never fires again (`:283`, against `clients.mdx:43`); overlapping
  starts leave a loop that nobody can stop.
- History: "Should have been handled before this" (`:834`) is untrue when a kept range ends with the Play or
  up to `refreshStaleAfter` before it; the pair of conditions at `:1801` is always true, against its comment; the
  paging of Last.fm compares an undefined page (`LastfmApiClient.ts:356`), so only the newest page is seen;
  Maloja's `until` is computed from `from` (`MalojaApiClient.ts:201`), and a day of more than a page throws;
  ListenBrainz is taken to answer oldest first (`ListenFetchUtils.ts:95`); of two activities that page through one range of
  Koito each skips what the other asked for, because its page is written into the range (`ListenFetchUtils.ts:113`).
- Stored history: the loop and the dead run make two records of one listen when they compare it together (`AbstractScrobbleClient.ts:1326`
  and `:1526`); a scrobble whose id is taken throws after its record was made, and each retry makes another
  record (`AbstractHistoricalScrobbleClient.ts:197`, `schema.ts:102`: the index does not know Clients); an import
  fails over an id a pull stored meanwhile (`:159`); nobody aborts `importAbortController`; the request of an import while one
  runs throws past its handler (`api.ts:755`).
- Now Playing: a short track is reported again after less than the minimum interval, since its maximum is less
  (`AbstractScrobbleClient.ts:1756`, `:1876`).
- Polling: two calls of `poll` may both pass its check (`AbstractSource.ts:502`), and then a stop may not
  reach one of them; the end of one activity resets the flag under the other; or the `catch` throws.
- Snapshots: the handler of `YTMusicSource.ts:155` keeps the event, not its Play, and those of other Sources
  too; so the date of the last discovery that the comment at `:600` relies on is undefined.
- Transforms: a cached answer of a stage is used before its `when` is tested (`AbstractTransformer.ts:65`), where
  `transforms.mdx:456` says that the stage is skipped; a last stage that finds nothing and continues is cached as a failure of all,
  while an outage of a stage before it, with `onFailure` continue, is remembered as an answer (`AbstractComponent.ts:327`).
- Retention: no component is told which Plays are its own (`AbstractComponent.ts:232`), so the shortest policy of
  any of them applies to all; a compaction counts as an update and puts the deletion off, where
  `configuration.mdx:732` has Plays deleted after the time given; components that compact different properties
  compact each other's Plays every hour, and none is ever deleted; a retry that never comes to an answer does
  not keep its Play; and Plays a Source discarded are never purged, though `configuration.mdx:718` names them.
- Chromecast, met while reading and not modelled: `whitelistApps` and `blacklistApps` consult the lists of devices,
  `x.playerId === x.playerId` compares a player with itself, and `removeApplications` disposes of a
  controller that is undefined.

All faults together with crashes are not run on two rows of a queue, since the dead rows of a row torn again
and again grow without bound; the proofs cover them.

## Proofs

`ScrobbleQueueProofs` proves, from `QueueAssumption` alone (options are natural numbers, `Faults` any set of
the fault kinds, any number of rows and listens):

- `TypeCorrect`: `Spec => []TypeOK`. `TypeOK` is not inductive: that the Play an activity reads exists, that
  the snapshot of its dead rows is not empty, and that the loop backs off only below `MaxRequestRetries` are
  needed before the next step is typed. `Holding` states the three, and `TypeInv == TypeOK /\ Holding` is
  shown to be inductive (`TypeInit`, `TypeStep`), one lemma per activity.
- `SuccessIsRealAlways`: `Spec => []SuccessIsReal`, with every fault and crash at once, a combination TLC does
  not reach. A success is written one wait after its cause, so the invariant must carry the cause across
  the wait: `Evidence` says that an activity with an answer has submitted its Play, that no history in
  memory or in the cache shows a listen the service lacks, and that what was submitted is there; `Fresh`
  says that nothing refers to a row before it exists, whose listen is still to be chosen.
  `RealInv == TypeInv /\ Evidence /\ Fresh /\ SuccessIsReal` is inductive (`RealInit`, `RealStep`): a step that
  submits nothing and creates no row keeps it by `QuietStep`, the other two kinds by `AcceptedReal` and
  `NewPlayReal`.

The same module proves, for every set of faults without `crash` (a dead row torn from its ingress row
is a counterexample with it):

- `OneQueueAlways`: `Spec => []OneQueueAtATime`, and `LoopAndRetriesApart`: the loop and a retry never hold
  the same Play. Which row an activity holds decides what it may do to it, so the invariant `Handover` says
  that the loop holds a queued Play and a retry one with a dead row (`Held`); a step either keeps the rows
  (`KeptHandover`), takes a Play out of the ingress queue (`TakenOut`) or hands it over (`HandedOver`). That
  no dead row exists before its Play is `Fresh`, from `RealInv`.

`ScrobblePromiseProofs` reduces each step of the queues, by `StepKinds`, to one of a dozen ways in which it may change
the rows of one Play and who holds it (`Creates`, `GivesUp`, `Finishes`, `Parks`, `Resolves`, ...), and takes
its three theorems from there:

- `LossesAlwaysKnown`: `Spec => []LossesAreKnown` for every set of faults without `crash`. `LossInv` accounts for every Play at
  once: it is settled, in a queue, held by the loop, or its loss has been recorded with its cause.
- `SubmittedOnce`: `Spec => []NoResubmission` without `crash`, `lostReply` and `retryApi` (each gives a counterexample).
  `Once` says that a Play that still may be submitted has not been accepted, and that an accepted one is waited
  for by exactly the activity that holds it; that loop and run are `Apart` is from `LoopAndRetriesApart`.
- `PromiseKept`: `Spec => KeepsPromise` without `crash`, `lostReply`, `retryApi` and `removeApi`. The stage of a Play is read off its rows, so
  the mapped step depends on invariants: `Life` ties the state of a Play to the queue it is in, and the run's
  snapshot to the rows; `StageIs` then names the stage, and `PromiseStep` maps each kind of step.

and two properties of numbers:

- `CountersRight`: `Spec => []CountersAgree`, under the same hypothesis. The counters are compared with sets of Plays
  (`PlaysCounted`: with one dead row per Play, from `OneQueueAlways`, rows and Plays can be counted alike), which a step
  changes by one element.
- `RetriesEnd`: `Spec => []RetriesBounded` without `forceRun` and `retryApi`, crashes included. `RetryInv`: the run read its row when it was
  within the limit, and nobody but the run adds to its retries while it holds it.

`SourcePollingProofs`: `PollingAlwaysKnown`, `Spec => []PollingIsKnown`, from `PollingAssumption` alone. Next to the type, which needs
that the failures counted by several loops stay within their sum (`Counted`), the heart is `Unraced`: as long as
no two calls passed the check of `poll` together, at most one call or activity is between the check and the
end, and the controller in the field is that activity's.

`ClientLifeProofs`, about `HistoricalStore` and from `StoreAssumption`:

- `RecordsAlwaysSound`: `StoreSpec => []RecordsAreSound`, for any number of Plays and two workers, with the excuses the property names.
  `RecordInv` says where a Play is while a worker has it (`Working`), that what a worker found, stored or is about to mark is in the account
  (`WorkIsTrue`), that each record of the Client's own is accounted for by a Play that is done or excused (`OwnAccounted`), and the heart of it:
  a Play that is about to be submitted is the only one of its listen, or is excused (`Unrivalled`).
- `ImportsAlwaysComplete`: `StoreSpec => ImportsAreComplete`, an action property. `ImportInv`: what was fetched is stored,
  in the batch, or still to come, and a pull that came between is recorded by `raced`.

`SourceDiscoveryProofs`, from `DiscoveryAssumption`. One lemma per action says what it makes of the activities; `Shaped`
(types, the shape of an activity at each stage, whose transaction is open, that only an intervention aborts) is inductive.
On it rest:

- `DiscoveriesAlwaysSound`: `Spec => []DiscoveriesAreSound`. `Sole`: until two discoveries overlap there is one, and each stage
  of it knows something about the list, the rows, and the rows before the open transaction: e.g. that the Play it
  is about to insert has no row, which it found out several awaits ago.
- `HandOversAlwaysSound`: `Spec => []HandOversAreSound`, with all faults. `ForwardInv`: the Plays somebody holds or a Client has are stored now, *and*
  in the tables to which an open transaction would be rolled back; `ArriveInv`: unless something was
  lost, a discovered Play is with its discovery, in the rest of a hand-over, or queued; `OrphanInv`: each
  crash adds at most as many orphans as hand-overs were between their two statements, which must hold of the tables
  before the open transaction too, for those a crash brings back.

`ClientLifeProofs`, about `ScrobbleLoop` and from `LoopAssumption` (any number of loops and requests):

- `LoopsAreTyped`, `FieldsAlwaysCurrent` and `OneInitializationAlways`, under every fault. `StepChanges` reduces
  the steps to the few ways in which one may change the loops (`LoopChange`) and the tasks (`TaskChange`);
  `LoopsStep` and `TasksStep` show that these keep `LoopInv` and `TaskInv`. The type of `scrobbleRetries` needs
  `RetryBudget`: the counter is shared, and every loop that backs off will still add one to it.
- `RunningStaysStoppable`: `Spec => []RunningIsStoppable`, if no loop fails, no connection is lost, nobody
  re-authenticates and there is one request at a time (`OneRestarter`). Without any of these it is false. The
  invariant is `Controlled`: a request initialises only after it has stopped the loop, and the heartbeat, whose
  client is ready when it has initialised it, starts the loop in the same step in which it sees the flag.

`ClientLifeProofs`, about `HistoryRanges` and from `HistoryAssumption` (any dates, durations, page size and services):

- `RangesAlwaysHandled`: `HistorySpec => RangesAreHandled`, an action property. Its invariant is the type, and that an
  activity works on a Play of its queue (`RangesTyped`). What is to be shown is about grouping: every date belongs to an
  opening date, a group to one that was kept apart, and the range of a group reaches from its first date to its last.
  `Consolidated` is the one set that fulfils its equation; that there is one (`ApartExists`) would be an induction
  over dates, and is a least counterexample instead: a smallest date up to which there is no such set.
- `NothingKnownIsEverMissed`: `HistorySpec => []NothingKnownIsMissed`, the type of the module included. The property speaks of
  the moment of a comparison, and nothing in it is inductive: a remembered answer may be of any earlier time, and a request in several pages
  is answered while others write its cursor. `HistoryInv` is the types (`RangesTyped`: one answer for a key), what an age says of a
  date (`Ages`), that a range goes on with a later page only when it has more than one (`AllPaged`), that an answer
  that is remembered has every listen of its time that was known long enough (`Remembers`), and for each activity what it knows where it is
  (`Sound`): the listens that are due are in the range it holds (`Looks`), each of those known when it asked has come, is
  lost, or is on a page still to come (`Asks`, `Ahead`), and after the last page none is left (`Compares`). The age of a listen and the rest
  of an answer's life tell who was first. Every step that neither lets time pass nor teaches the service anything leaves what it does not touch as
  sound as it was (`QuietInv`, `QuietKeeps`); `KnownGrows` shows that a loss is not undone by new listens, and `PageLeaves` for each
  service that its page brings what was next.
  A failed proof corrected the property: it excused Koito's pages by the cursor of the *range*. A range that is dropped
  and made anew with the same ends starts with page 1 again, while the answer remembered under its key
  (`AbstractScrobbleClient.ts:821`) was asked from a later page. The excuse is now of the answer: whether its pages were asked for in
  order (`whole`).

`PresenceProofs`:

- `ReadyAlwaysReal`: `DiscordSpec => []ReadyIsReal`, from `DiscordAssumption` (any number of reconnects, attempts,
  faults and requests). Who is ready is known from flags that several activities write between their awaits, and
  from messages that may outlive the connection they were sent on. `DiscordInv` is the type and: only an open socket
  carries anything (`CarriesWhenOpen`); a welcome under way means that the gateway has accepted the Client
  (`WelcomeIsMeant`), and a gateway client that takes itself for ready has been accepted, or a reconnect is about to
  clean up (`ReadyIsAccepted`); only a reconnect closes a socket, and waits for it or has left the Client stranded (`CloserWaits`); nobody is
  authenticated before the gateway client was built (`BuiltFirst`); and when a socket is closed, a flag tells so or
  somebody is at work on it (`ClosedIsKnown`).
- `NowPlayingAlwaysSound`, `CallsAlwaysSpaced`: `NowSpec => []NowPlayingIsSound` and the action property
  `CallsAreSpaced`, from `NowAssumption` (any players and priorities, a maximum interval for each Play, which may be less than the
  minimum). `NowInv`: what is queued and what the
  task works on names a track (`ReportedHasTrack`, `AskedHasTrack`), and what the task decided from the thresholds before
  it awaited the permission is still true when it makes the call (`DecisionStands`).

`PlayerTrackingProofs`, from `PlayerAssumption` (any tracks, durations, thresholds and drift):

- `ListenedAlwaysReal`, `SessionsAlwaysKept`, `PlayersAlwaysSound` (invariants) and `RemovedAlwaysDead` (an action
  property). What counts as listened to is a budget: what was heard, and what each range and each seek is forgiven.
  That it is not exceeded is not inductive, since the current range still grows; `PlayerIsFit` says that the
  budget covers all the range can come to with the next report, for each kind of player. Beside it `PlayerInv`
  bounds the silence of a player whose Source polls (`SilenceIsShort`), says that a player the Source has looked after is
  recent or about to be removed (`ServedIsRecent`), and that a cleanup that waits has attempted to hand the
  session over, and kills only the dead (`CleanupIsKnown`).
  Failed proofs corrected the model: a seek is forgiven `2 * AllowedDrift + LongestSilence`, where less was stated and
  the instance was too small to tell; a Source whose answers carry no status never reports a stopped player; and the
  cleanup that finds a player dead forgets its session in the same step.

`IngressProofs`:

- `ReportsWhatWasHeard`, `NewTracksAreReported` and `RepeatsAreReported`, the action properties of `SnapshotSource`, from
  `SnapshotAssumption`: any tracks, histories and bounds, any number of remembered lists, and more than two entries of an
  answer looked at (both Sources look at twenty). The comparison pairs occurrences, so what it makes of two lists is shown
  first: additions it believes are a prefix of the new list without entries of the old (`AddedOnTop`), and a bump keeps the
  tracks there were (`BumpedKeepsTracks`); the other way round, new tracks on top and an entry moved there are found
  (`FoundOnTop`, `FoundMoved`). An induction over sequences, which the library's theorems do not give, is done with a
  shortest counterexample (`OnAllSequences`). The invariant is `CurrentContinues`, that the history is the one whose window
  was seen, with tracks heard since on top of it and some of the entries below taken out (`Accounts`), and
  `UndoneIsKnown`, that after an answer which undid the one before the next current one is remembered.
  The proof corrected the model: `Undoes` admitted an answer so old that the current one has no entry of it left, and one
  after an entry was removed. The code then reports what it had reported already, but only answers three changes out of date
  show it (`Limit = 3`, four tracks, five events), and the run has two. `Undoes` now excludes both.
- `IngressAlwaysTyped`: `Spec => []TypeOK` of `MCIngress`, from the invariants of its parts.
- `TransformsAlwaysSound` and `TransformsAlwaysTyped`, about `TransformPipeline` and from `TransformAssumption`: any hooks, stages and
  needs. A stage's answers are remembered under a hash of its configuration (`AbstractTransformer.ts:65`), so stages of
  one name are one stage. `TransformInv`: an answer is remembered only of data that had what its stage needs
  (`AnswersAreMet`), and the steps a hook makes of a new Play tell of the outcomes its stages had
  (`RunFollows`), so that those it remembers (`RememberedFollows`) are worth replaying.
  It speaks of transformations that used no answer of a skipped stage, and of an error of the last stage only.
- `RetentionAlwaysSound`: `RetentionSpec => []RetentionIsSound`, from `RetentionAssumption`: any finite number of Clients, all
  policies. The components take turns (`TurnsTaken`), so each has deleted and compacted in an hour, or will. For each of
  them `DeletedWhenDue` bounds the time of its last run by what a Play still there may have lasted; this rests on
  `UpdatesEnd`, that no update comes later than the last there may be, and this on `CompactedWhenDue`: a Play that was due
  for a component's last run has been compacted, and where all compact alike it is not compacted again. That the
  finite set of times has a greatest is shown by a smallest counterexample (`GreatestNatural`). `GoneInTime` was made
  stronger on the way: it used to excuse Plays that a retry holds, which the proof does not need.

Only model-checked:

- all liveness properties (`QueuedIsProcessed`, `HeardReachesAll`, `Recovers`, ...), with the `ENABLED` conditions of
  their fairness, which TLAPS does not prove.

## Plan

1. Done: `ScrobblePromise`, `ScrobbleQueue`, `ScrobbleQueueRefinement`, `ScrobbleLoop`, and their first theorems.
2. Done: the Source side (`SourceDiscovery`, `SourcePolling`, `PlayerTracking`, `SnapshotSource`), the pipeline
   between (`TransformPipeline`), and what a Client does beside its queues (`NowPlaying`, `DiscordClient`,
   `HistoryRanges`, `HistoricalStore`).
3. Done: a theorem for every invariant and action property that a passing run checks, and the refinement of
   `ScrobblePromise`.
4. Composition: one Source, fan-out and two Clients, each an instance of `ScrobblePromise`.
5. Several players of one Source, with the hand-over of a session.

## Not modelled

- Scores of matches, parsing, formatting, and the requests and payloads of every concrete service. What the
  control tells apart is kept: same listen, replay, different; answered, rejected, failed, no answer.
- The MusicBrainz transformer: it compares candidates by score and is a stage of `TransformPipeline` otherwise.
- `ChromecastSource`: discovery of devices and their applications over mDNS; its players are those of
  `PlayerTracking`.
- Parsing of the configuration, registries of Sources and Clients, migrations, notifiers (calls whose failures are
  ignored), the dashboard, and REST handlers that only answer queries.
- The stores behind the caches; an entry may expire at any time in every model that reads one.

`components` in `PROJECT.json` has each part with its status and the reason.
