# Formal models of Hey

Hey is a HarmonyOS VPN client: an ArkTS application with an Xray and a sing-box core behind a native
bridge. This directory holds TLA+ modules of the parts of it that keep state and run concurrently, the
TLC configurations that check them, and proofs that hold for every size of the parameters.

Contents: 1 the system, 2 the modules, 3 the runs, 4 the proofs, 5 bounds, 6 fairness,
7 disagreements found, 8 what is left out, 9 the plan.

`ets/` below is short for `src/entry/src/main/ets/`.

## 1. The system

The application lives in two processes. The main process has the pages, the controllers and the stores.
The extension process has `HeyVpnAbility`, the native bridge and the cores; the main process loads the bridge
and `libxray.so` as well, for a proxy without VPN, for pings and for conversions. They talk through Wants (one
way, start and stop), through the diagnostic log file (the extension appends, the main process polls)
and through one preferences flag (`NetSceneStopFlag`). Each process runs its ArkTS on one thread: code
interleaves at every `await`, at timers and at native threads. There are no locks between them, only flags. The threads
of the task pool call the bridge too; there one mutex guards the environment, and nothing guards the loader.

| Component | State | Operations | Hard behaviour | What makes it correct |
|---|---|---|---|---|
| Native bridge (`napi_init.cpp`, `tun2socks_adapter/main.go`, `libsingbox/main.go`) | globals: cores running, data plane running and which, the adapter's stack, the hev thread | start and stop of each core and of each data plane | stops hand over to detached threads; hev runs on a thread a later start joins; starts succeed when something runs already | an engine that runs can be stopped; nothing waits for ever |
| VPN extension (`ets/vpn/HeyVpnAbility.ets`) | one instance: its connection, its core, flags of a cleanup and a poll | onCreate, onRequest, onDestroy, startVpn, cleanup, poll of the network | start, stop command, poll and destruction interleave at the awaits; the process may end | each start is answered; no data plane over a dead core; no disconnect on a network the user stayed on and that was read right |
| Connection pipelines (`ets/services/ConnectionController.ets`, `ets/features/runtime/RuntimeController.ets`, `ets/pages/Index.ets`, `ets/services/NetworkSceneManager.ets`) | status of the controller, its mirror, the page's status and lock | connect, disconnect, switch of a node, disconnect by the scene manager, reconciliation | answers are polled for with deadlines; the scene manager does not take the page's lock; Wants cannot be taken back | a live tunnel can be stopped; what is shown is what runs; the page comes back |
| Subscription store (`ets/storage/SubscriptionStore.ets`, `ets/core/SubscriptionSelection.ets`, `ets/core/SubscriptionGroups.ets`) | a profile in the preferences: groups of nodes, the browsed group, the current node | 16 operations, each load, change, save, load | no lock around load and save; reads and writes that fail silently; profiles of older versions and backups | selections exist; ids are stable; nothing is lost that an operation is not about |
| Subscription updates (`ets/features/subscriptions/SubscriptionsController.ets`, `ets/work/SubscriptionUpdateWorkAbility.ets`, the list operations of `ets/pages/Index.ets`) | what a call read before a fetch; what the page shows | update of one group, of all, of those due | a network fetch between reading and writing; the work of the system runs beside the pages | an update keeps the current node and touches its own group |
| Loading and calling libxray (`napi_init.cpp` in the main process) | environment, mutex, handle and function pointers, configuration files | first load, pings on worker threads, start and stop of a proxy, optional functions | unlocked stores of the loader; a Go runtime that starts beside the caller; files of concurrent pings | no null call; no setenv beside a Go runtime and no core without assets, unless an optional function came first; a ping measures its own node |
| Subscription schedule (`ets/services/SubscriptionBackgroundScheduler.ets`) | works registered with the system and their record | sync, cancel | syncs overlap | a registered work is recorded |
| Subscription fetch (`ets/services/SubscriptionManager.ets`) | none | fetch with proxy fallback and redirects, parsers | retries | bounded number of requests |
| Delay tests (`Index.runRealDelayBatch`, `ets/services/DelayTester.ets`, the measurement of `RuntimeController`) | pending results, the next index, a flag; session of a measurement | slots that measure, flush; measure a connection | slots share the list; a store whose failures are silent; a session ends before its measurement | rows and preferences agree in the end but for what a failure lost; a row shows its own node; a session shows no other's delay |
| Traffic totals (`Index.accumulateTraffic`, `ets/storage/TrafficTotalsStore.ets`, `RuntimeController.refresh`) | lifetime and last session counters; statistics of the controller | record to the log, refresh, accumulate each second, write each ten | kills, sessions that restart at zero, refreshes that overlap, a log that is rotated | no byte twice; a total that is read back goes on where it was |
| Notification, control card (`ets/services/SpeedNotificationManager.ets`, `ets/services/ControlCardManager.ets`) | what is published, card ids | sync, publish, cancel, register, unregister, refresh | calls of a timer and of several cards overlap; a refused cancel, a failed read or write of the ids goes unnoticed | what is shown in the end is the state, but for a refused cancel and a lost id |
| Settings, profile, assets, backup | one store each | load, save whole | drafts of two pages; a restore of four stores that fails in the middle | nothing is reverted |
| Converters (Xray and sing-box configurations, share links, subscription formats, forms) | none | text to text | many formats | outside this project so far |

The files and lines behind each definition are in `PROJECT.json` under `map`; the hazards, each at the
line where it bites and with the properties aimed at it, are under `hazards`.

## 2. The modules

    NativeBridge ── VpnExtension ── VpnExtensionPromise ── MCVpnExtension
                         │                 │ implements
                  VpnExtensionProofs   VpnSession ── Connection ── MCConnection
                         │                               │
                  VpnPromiseProofs                ConnectionProofs

    XrayLibrary ── MCXrayLibrary                SubscriptionProfile ── Subscriptions ── MCSubscriptions
        │    │ implements                                                   │
        │  PingService ── DelayTests ── MCDelayTests                SubscriptionProofs
        │                     │
    XrayLibraryProofs   DelayTestProofs

    TrafficTotals ── MCTrafficTotals            RuntimeSurfaces ─┬─ SpeedNotification ─┬─ MCRuntimeSurfaces
        │                                                        └─ ControlCards ──────┤
    TrafficProofs                                                                      └─ SurfacesProofs

**NativeBridge** has no variables: the globals of the bridge are a record `b` of set `Bridge`, and each
exported call is an operator from `b` to `b`. `StopTun2Socks` clears the flags and leaves the engine to a
detached thread (`stopping`, then `swapped`, the two steps of the Go adapter). `hev` is the loop of the
hev thread that still runs; `HevJoinBlocks` says that a `StartHevTun` would wait for a loop nobody told to
quit.

**VpnExtension** is the ability on top of the bridge. Everything between two awaits is one action:
`startVpn` is suspended at the settings or at `create` (field `starting`), `pollNetScene` at the settings,
at the network or at the mark (field `poll`), `cleanup` at the destruction of the connection
(`cleaningUp`). An instance calls `create` once, so the descriptor names the instance, and the set of
instances is `Fd`. Instances follow each other, each in a new process or, with `ReuseProcess`, in one
process that keeps the globals. `log` holds the messages the main process looks for. A poll reads the network of the
moment or, because `NetworkProbe.ets` swallows its failures, a network without a name or none at all (`NoNet`), which
is never trusted and looks like a change. `roamed` and `misread` are history: since the last `onCreate` the network
has changed, or a poll has read it so.

**VpnSession** is the abstract specification: which configuration the data plane carries, what the log
says, when the flag is set. It knows nothing of the bridge. **VpnExtensionPromise** is the refinement
mapping: `tunRunning` and the running core give `carried`, `starting` and `cleaningUp` the rest. The
point of it is that Connection can be checked against VpnSession, which is small, instead of against
the extension with its bridge.

**Connection** EXTENDS VpnSession with the main process. `op[c]` says where the pipeline of the page or
of the scene manager is suspended; `ctl` is ConnectionController, `mirror` RuntimeController.status,
`page` Index.status. `wants` are the Wants the system has not handed over; `since` is the length of the log
when the request was made, for the time stamp the code compares (events of the same millisecond are
the only difference). `gaveUp` is history: a deadline passed while the answer to a start or a stop could still come, or a
stop was refused; the controller then shows ERROR and the extension goes on by itself. `Prompts` lets the question about the core stay open on the page. The error that
`applyDiagnosticError` shows on the page is left out: an event of level error is followed in the same
turn by one of level info, so the newest event that a refresh finds is never of that level.

**SubscriptionProfile** has the pure part of the store: `Normalize`, which every load and every save goes
through, the choice of the selection an update keeps (`RetainedNodeId`, five levels of likeness), and
what each operation makes of the profile it loaded. A node is an id and a content; an id is a sequence,
so that the suffix of a repeated id can be told from the id. A content stands for the outbound, and
`Identity` gives the texts it is recognised by.

**Subscriptions** has the calls. A call loads its copy, saves what the operation makes of the copy, and
loads again; an update fetches in between and carries what it read before. `view` is what the page was
last given, `stored` the preferences. `Overlap` says when other calls may run: never, while one waits for
the network, or at every await. With `Faults` a read may answer with an empty profile (the `catch` of
`load`) and a write may be ignored (the `catch` of `save`). The final load of an operation and the reload of
the page that follows are one step. The case of `update` that is given node links instead of an address
is the update of the model with an answer at once.

**XrayLibrary** is `libxray.so` in the main process. A thread of `Thread` is the ArkTS thread or a worker of the
task pool; `call[t]` says where its call is. `PrepareXrayAssetDir` takes the mutex, `Setenv` gives it back.
`LoadXrayCore` reads the pointers and each of `StoreInvoke`, `StoreFree` and `StoreHandle` is one store, because
no lock is held and other threads read between them. The first `Dlopen` starts the Go runtime with the
environment of that moment; it becomes ready on its own thread. `Optional` are the functions that are looked up
when first called (`TestXrayConfig`, `GetFreePorts`, `QueryStats`, `ConvertShareLinksToXrayJson`; versions, geo files
and the other conversion take the same path), `Exported` what the library has: the current core exports
`CGoInvoke` and `CGoFree`. Any of them may be the first call that loads; `go.opener` is history, the function whose call
opened the library, and `go.asset` says whether the environment it copied named the asset directory. Two threads that store
the same pointer store the same value, so a store is a set union. In TLA+ each read and write is
whole; what a data race may do beyond that (the pointers are not atomic) is not modelled.

**PingService** is the abstract specification of a ping, for the module on top of it: a configuration is
written to the file of a port, read by the core some time later, and the call returns. XrayLibrary
implements it (`ImplementsPingService`), by proof for every number of threads.

**DelayTests** EXTENDS PingService with both users of pings: the batch of the list (`batch.slot` says where each loop
waits, `batch.saving` what it took out of the pending results, `batch.loaded` the profile its save loaded before, which is empty when the read failed) and the
delay of the current connection (`runtime`; `startedAt` is the number of the session). Instead of a number of
milliseconds a row shows which configuration was measured: that is all the properties tell apart. A task
waits in `tasks`, runs on a thread and leaves its result in `answers` until the ArkTS thread resumes its caller. A write
that fails is ignored by the store: `batch.lost` (history) has the nodes whose results it took with it; a node that a save of
an empty profile removed is stored as "absent". The delay of the connection may be asked for while
`RuntimeController.stop` is waiting, because its mirror stays RUNNING; such a test leaves its flag set until the next
start, which `MeasuringEnds` allows for a connection that is no longer running.

**TrafficTotals** follows one counter from the data plane through the log, `RuntimeController.stats` and the page to
the preferences. `past` is a history variable: the bytes of the sessions before the counter began at zero, which the
code does not know. `refresh[r]` is one call of `RuntimeController.refresh`: it sets the counters of its own process
first (always zero, because the extension has the tunnel), then reads the log unless another call does. What the
controller knows of the connection need not be what the tunnel does, so a refresh may load the setting of the core first whether
the tunnel is up or not.
`undisturbed` is true until empty statistics replace a counter of the page or a load of the totals fails (the page then
counts from zero); the code avoids neither (section 7), and what holds as long as neither has happened is the subject of
the proofs.

**RuntimeSurfaces** declares what the two modules on it share, the status of the connection and the count of its changes.

**SpeedNotification** has the notification. `calls` are the calls of the notification service, which serves or refuses each
and answers them in their order; `heard` says whether the process that made a call still lives when it is answered.
`SpeedNotificationManager.cancel` takes every error for a notification that is not there: `missed` (history) says
that a notification is there because the system refused the last cancel.

**ControlCards** has the cards. `sync[k]` is one call of `ControlCardManager.sync` and `call[c]` one of the ability of the
cards, which runs in a process of its own; nobody waits for either, so they overlap wherever `ControlCardStore` waits for the
preferences. A read that fails answers no ids, or the state of a new card; a write that fails is ignored. `lost`
(history) has the cards whose id was written over by a list read before it came in, or dropped by such a failure.
Both processes are taken to see one store.

The modules whose name begins with MC give TLC its small sets. Operators whose comment begins with
"Mutant:" are wrong variants of the definition that follows them; nothing uses them, and each run finds
its properties violated when one of them takes the place of the right one (`mutants` in `PROJECT.json`).

## 3. The runs

| Run | Question | Properties | States |
|---|---|---|---|
| `vpn` | two instances, two networks, one trusted; every interleaving of starts, stop commands, polls, readings that fail, threads and process death | `TypeOK`; `CoreUnderTun`: no data plane over a core that is gone; `EnginesReachable`: every engine that runs can be told to stop; `HevJoinNeverBlocks`; `StartReported`: each start is answered in the log; `ReportedDownIsDown`; `KeepsPromiseFairly`: the extension implements VpnSession with its fairness; `NoDisconnectInPlace`: an automatic disconnect is marked only after the network changed or was misread | 473 000 |
| `conn_safety` | two sessions, two configurations, both pipelines, process death, deadlines that pass or not | `TypeOK`; `Stoppable`: when a tunnel is up the controller knows, or the tunnel is on its way down; `ShownConfigCarried`: what is shown as running is what is carried (both until `gaveUp`); `NoStartWhileStopping` | 3 851 000 |
| `conn_live` | an extension and a system that may be late, silent or dead | `PageUsable`: the page comes back to where it takes input, by its deadlines alone | 480 000 |
| `subs_any` | a page and the background work, every await, failing storage, a backup of an old version | `TypeOK`, with distinct group ids; `LoadedConsistent`: a load finds every selection among what there is; `LoadKeepsNodeIds`: a load renames no stored node | 201 000 |
| `subs_seq` | any four calls one after the other | `UpdateKeepsCurrentNode`: an update keeps a current node that is still delivered or not in its group; `BrowsingKeepsNode`: browsing a group leaves the current node alone; `OnlyNamedNodesRemoved`: an operation removes no other nodes than its own | 143 000 |
| `xray_calls` | two workers that ping, the ArkTS thread that starts, stops, tests and asks; the library is not loaded yet, and any of them may open it | `LibraryTypeOK`; `NoNullCall`; `ImplementsPingService`; `NoSetenvAfterPreparedLoad` and `PreparedCoreFindsAssets`: unless an optional function opened the library before the directory was prepared, the environment stays as it is beside a Go runtime, and each core finds the directory | 1 961 000 |
| `delay_tests` | batches with two slots, sessions and measurements of them, two threads, a store that may fail; two acts | `TypeOK`; `RowsShowOwnNode`; `RowsStored`: after a batch the preferences hold what the rows show, but for the nodes and results a failure lost; `DelayOfSession`; `BatchEnds`; `MeasuringEnds`: no running connection is being tested for ever | 596 000 |
| `traffic` | three bytes, three acts among sessions, ends of the page or the process, clears and rotations; two refreshes | `TrafficTypeOK`; `NoByteTwice` and `SessionResumes` while `undisturbed`; `TotalsCatchUp`: once the log page is left the page agrees with the log again and again | 781 000 |
| `surfaces` | three calls of the notification service, served or refused; two cards, two syncs and two calls of the ability at once, a store that may fail; three acts | `NoteTypeOK`; `NotificationKnown`: a notification that is there is one this process would cancel, or will hear of; `NotificationFollows`: a status that lasts is in the end what it follows (both but for a refused cancel); `CardsTypeOK`; `CardsListed`: the id of a card that is there is listed or on its way; `CardsFollow`: a status that lasts is in the end what each card shows (both but for the lost ids) | 291 000 |
| `conn_flag`, `xray_setenv`, `traffic_twice` | see section 7 | one property each, violated | |

Deadlock is checked in every run but two. In `conn_safety` and `conn_flag` the bound `MaxAsks` ends a behaviour in which
nobody asks for anything any more.

## 4. The proofs

All proofs are checked by TLAPS to the last step, for every value of the constants. An invariant is called
inductive when it follows from itself over every step; the properties seldom are, and what has to be added says why they hold.

`VpnExtensionProofs`
- `ExtInvariant`: `ExtInv == TypeOK /\ HevTracked(bridge)` is invariant. `HevJoinNeverBlocks` alone is not
  inductive: that a start does not block depends on `tunRunning` and the engine telling truly what runs.
  `HevTracked` adds it: a hev loop runs only while the flag is up and names hev. The lemmas go along the code:
  the start calls keep it, and a cleanup leaves no loop because it stops the engine before the cores
  clear the flag (`StopNativeKeeps`; the mutant `StopNativeCoresFirst` swaps the order).
- `ExtensionTypes` (`TypeOK`) and `HevJoinSafe` (`HevJoinNeverBlocks`) follow, for any number of
  instances and for both values of `ReuseProcess`; the runs check `ReuseProcess = FALSE` only.
- `AloneInvariant`, under `~ReuseProcess`: the process exists for one instance (`Alone`); the bridge is in one of the
  stages a start and a stop go through (`PlaneStage`), its engine points at the only stack there is, and no data plane
  is up without a core (`PlaneInv`); an instance that is starting has a bridge nobody has used, and one that has ended
  has left nothing (`Placed`).
- `CoreUnderDataPlane` (`CoreUnderTun`), `RunningEnginesReachable` (`EnginesReachable`) and `ChangeBeforeDisconnect`
  (`NoDisconnectInPlace`) follow. The condition is needed for the first two: in a process that served an instance before, a
  failed `SingboxStop` leaves its flag up, so that a later start has no core under its data plane; a second gvisor
  stack that is started while a detached thread is about to stop the first is the one that is stopped.
  And a poll of an old instance may still run, with a signature that is stale. `NetSeen` carries the last: until the network
  has changed or been misread, every signature an instance holds is the network's. That a reading which fails counts as a change is the
  code's (section 7), so the theorem has both.

`VpnPromiseProofs`
- `ImplementsSession`, under `~ReuseProcess`: the extension on its bridge implements VpnSession, step by step. The mapping
  needs `AloneInv` (which of the instances the one data plane belongs to) and `PollInv` (an instance reports an automatic
  disconnect once, after it has reported its start). What is proved of Connection over VpnSession is therefore about the
  extension. The fairness of VpnSession (`KeepsPromiseFairly`) is checked by TLC only.

`ConnectionProofs`
- `ConnectionTypes` (`TypeOK`).
- `LockInvariant` and `StopNotOvertaken` (`NoStartWhileStopping`), under `~Prompts`. The scene manager does not take the
  page's lock, and the controller accepts a start while it stops; that neither happens depends on what each pipeline has
  written to the controller, the mirror and the page where it waits. `LockInv` says this for each pair of places.
- `StopInvariant`, `UpIsStoppable` (`Stoppable`) and `ShownIsCarried` (`ShownConfigCarried`), under `~Prompts`, for
  behaviours in which any deadline may pass at any time. All three speak of the states before `gaveUp`: before the controller has
  given up on an answer that could still come, or on a stop. A deadline that passes when no answer can come any more (the
  process has ended, the Want met an instance that ignores it) does not end them. `StopInv` has a part about the extension
  (`ExtensionInv`: one instance is hosted and carries the data plane,
  one that is starting or cleaning up carries nothing) and one about the main process (`MainInv`: a Want on its way belongs
  to the pipeline that waits for its answer, a start under way in the extension is the one the page waits for, an answer
  in the log after the request is the answer to it, what runs is known).
- What lies beyond is in section 7: once `gaveUp`, TLC reaches states where neither `Stoppable` nor
  `ShownConfigCarried` would hold, and with `Prompts = TRUE` it violates `NoStartWhileStopping` and `Stoppable`.

`SubscriptionProofs`
- `StoreIsSettled`: a stored profile without groups has no address and no nodes. `LoadedConsistent` is not
  inductive: a consistent profile with no groups and an address would be loaded as a legacy group,
  whose selection is taken over unresolved. `NormalizeSettles` shows that `Normalize` never returns such a
  profile, and `StoredIsNormalized` that each step leaves the store alone or writes a result of `Normalize`.
- `LoadedIsConsistent` (`LoadedConsistent`): then a load resolves each selection (`SettledLoadsConsistent`).
  Nothing is assumed of the network, of the backups or of the overlap of the calls.
- `LoadsKeepNodeIds` (`LoadKeepsNodeIds`). `UniqueIds` shows that one normalization makes the ids of a list distinct, and
  `GoodNormalized` that a second one leaves such a list alone. `DataInv` says that every list the program holds, in the
  store, in the view, in a copy or in what a batch remembers, is of one of these kinds; `EditedIsAny` goes through
  the operations. Every overlap and every fault is included. A manual node whose id is drawn once more, or a hash that ends like a suffix,
  would break it: `SourceAssumption` excludes both (section 5).
- `TypesWhileFresh` and `SubscriptionTypes` (`TypeOK`, with the distinct group ids): `GroupsInv` says that the groups of the store, of the view, of each
  copy and of each batch have distinct ids; a drawn id is in none of the copies that are about to be saved
  (`FreshIdFree`). The first theorem is about behaviours in which there is always an id left to draw, the second has
  finitely many calls and infinitely many ids, where this is so (`FreshThere`).
- `BrowsingKeepsTheNode` (`BrowsingKeepsNode`), for `Overlap # "any"`: then the copy of a call is what is stored
  or, after a read that failed, empty (`CopyInv`), the current node is one of the stored ones (`CurrentThere`), and a
  load keeps both (`LoadKeepsCurrent`). With `Overlap = "any"` the copy may be older than the current node
  (section 7).

`XrayLibraryProofs`
- `LibraryTypes` (`LibraryTypeOK`).
- `NoNullCalls` (`NoNullCall`): a thread that is past the loader has seen both entry points stored, and a pointer is never taken
  back. `PointersInv` says for each place of a call which pointers it relies on.
- `NoLateSetenv` (`NoSetenvAfterPreparedLoad`) and `CoresFindAssets` (`PreparedCoreFindsAssets`), whoever opens the library.
  `LoaderInv` relates the mutex, the environment and the runtime: whoever is between the mutex and the setenv holds the
  mutex, and nobody has passed `PrepareXrayAssetDir` unless the environment is set or a library is open; so if a library is open at a setenv, or without
  the directory at a call, an optional function opened it, which takes no lock and prepares nothing. Both cases occur: the
  run `xray_setenv`, and `CoreFindsAssets` in section 7.
- `PingsAreServed` (`ImplementsPingService`): the initial states map to those of PingService, and each action of the
  loader maps to a stutter or to one step of a ping, under `PingsInv`, which says what a call in each place knows.

`DelayTestProofs`
- `MeasuringInvariant`: `TypeInv /\ OwnInv`. `OwnInv` says that a slot has one task, in the queue, on a thread or
  answered (`OneTask`), and waits for it (`HeldBySlot`), that slots are busy in a batch only and end it in order
  (`SlotsOfBatch`), that the file a ping of a slot has written still holds its configuration when the ping reads it
  (`OwnFile`), and so every answer and every row is of its own node (`OwnAnswer`, `OwnRows`).
- `DelayTestTypes` (`TypeOK`) and `OwnNodeShown` (`RowsShowOwnNode`) follow.
- `DelayIsOfSession` (`DelayOfSession`) with `SessionInv`: while a connection starts no delay is known.
- `BatchStored` (`RowsStored`), whichever reads and writes of the store fail, for `EachNodeOnce`, that the list of the batch names no node twice. Within a group it does not
  (`LoadsKeepNodeIds`); two groups of one address that are shown together do have nodes of one id, and the theorem is not about them.
  `SaveInv` says that one save is
  under way at a time, so what it loaded is still what is stored (`OneSave`); that no node is measured twice; that an entry that waits to be
  saved is what its row shows (`EntriesShown`); and that each row is still to be measured, waits, is stored, or was lost by a read or a write that failed (`NoneForgotten`).

`TrafficProofs`
- `TrafficTypes` (`TrafficTypeOK`).
- `EveryByteOnce` (`NoByteTwice`) and `SessionsResume` (`SessionResumes`), while `undisturbed`, for any number of bytes, acts, refreshes and pending
  saves. Neither is inductive. What is, is that every sample under way (in the log, in the controller, in a
  refresh) is of a session and not ahead of its counter (`SamplesInv`), and that the totals of the page, of each pending
  save and of the preferences lie within their session (`TotalsInv`): what was carried before its counter
  began is at least the total less the last counter.

`SurfacesProofs`
- `NotificationTypes` (`NoteTypeOK`) and `CardsTypes` (`CardsTypeOK`), for any number of calls, cards and syncs. The second needs
  `CallsOfForms`: a call that is under way is about a card, and a card that is being removed is gone.
- `NotificationIsKnown` (`NotificationKnown`): `NoteInv` says that the calls are served in their order (`ServedFirst`), that those
  of a process that has ended come first (`UnheardFirst`) and that while one of them is there this process has heard of no
  cancel (`UnheardMayShow`); so a notification that is there is known to the manager, or its publish is still to be
  heard of and no later cancel was served, or the system refused the last one (`StaysKnown`).
- `CardsAreListed` (`CardsListed`), for any number of overlapping calls: a call that adds leaves its id in the list, a call that
  removes writes back what it read less its own card, and what came in between is what `lost` marks.

Assumptions the proofs cite: `NoneAssumption` of NativeBridge and `LibraryAssumption` (the "none" values, files and functions are
distinct), `TaskAssumption`, `DelayAssumption`, `PortAssumption` and `RowAssumption`, and `SourceAssumption` (section 5). The
others the modules declare say that bounds are numbers and switches Booleans. TLC evaluates each of them in the runs of its module.

About data: facts that need induction over a number (how a filter lists the positions it keeps, that ids stay distinct along a list)
are proved from the least counterexample, with the well-foundedness of the order of the naturals (`LeastThere`, `LargestThere`). The
model uses `Kept`, a filter by positions, because the recursion inside `SelectSeq` could not be reasoned about.

Only model-checked: everything under liveness and `ENABLED`, which the prover does not handle (`StartReported`,
`ReportedDownIsDown`, `KeepsPromiseFairly`, `PageUsable`, `BatchEnds`, `MeasuringEnds`, `TotalsCatchUp`, `NotificationFollows`,
`CardsFollow`), and two action properties of Subscriptions, `UpdateKeepsCurrentNode` and `OnlyNamedNodesRemoved`, which are
within its reach and in the plan.

## 5. Bounds, and why they are enough

- `Fd`, two instances: the interesting pair is one that is ending and the one that follows it. The
  extension is destroyed before the system creates another.
- `MaxLog` 2: an instance reports at most a start and a cleanup that matter to it; the guards count events.
- `Net` of two, one trusted: leaving home, coming home, and readings that miss either. The run has one configuration; with two
  configurations and one network the properties hold as well (161 000 states).
- `Session` {1, 2}, `Config` of two, `MaxAsks` 2: a Wants count of two gives connect and disconnect, a
  connect beside a stop of the scene manager and two connects; a switch takes two as well. Late delivery
  needs two sessions and two configurations.
- Subscriptions: two addresses; contents c1 and c3 are one server under two names, so that retained
  selections go through the levels; one list of the network repeats an id; a local group with a manual
  node; an old profile with a dangling selection. Four calls in a row in `subs_seq` (add, update, select,
  update is the longest story the properties need), two that overlap at every await in `subs_any`.
- `FreshGroup`: `{g1}` in `subs_seq`, so that each address has one group. Section 7 says what happens
  otherwise.
- `conn_live` has one session and one configuration: the page waits for deadlines, whatever is carried.
- XrayLibrary: two workers and the ArkTS thread are three threads in the loader at once, and each store has an owner
  and two readers. Two ports and two configurations, so that a shared file shows. Two optional functions, one that the library
  exports and one that it lacks; all four in `xray_setenv`. The proofs lift all of these.
- DelayTests: two slots over two nodes and two threads; `FlushAt` 1, so that each result asks for a save and two
  of them meet. `MaxActs` 2 gives two batches, a batch beside a measured session, a batch with two failures of the store,
  two sessions, or a session and a test that is asked for during its stop: a measurement that is left over needs two.
- TrafficTotals: three bytes are a session with a byte, one that counts again from zero and one that passes the last
  counter; three acts are a session, a kill and a session. The proofs lift all of these.
- SpeedNotification: three calls are a publish, the cancel that meets it and one of the next process. ControlCards: two cards
  whose calls meet at each other's waits, two syncs that overlap them. Three acts are off, a refusal and a restart; two cards
  placed and a failure; or a card, a change of the status and a restart. The two specifications share nothing but the status, so in
  `surfaces` a behaviour is about one of them (`about` in MCRuntimeSurfaces).
- Node ids (`SourceAssumption`): a source delivers hashes, `node-` and hexadecimal digits, and no hash is another
  one with the suffix of a repeated id; a profile of earlier runs or a backup holds such lists, or lists that were
  numbered when they were stored; and the id of a manual node, made from time and a random number, repeats none of
  them. Hashes that collide are repeated ids, which are modelled.
- Delay tests (`PortAssumption`): slot w pings through port 18100 + w and a measurement outside a batch through
  18085, which differ (`DelayTester.ets`). `RowAssumption` only keeps the configurations apart from the words a row
  may show in the model.

## 6. Fairness

- `vpn`: an awaited call of the system settles (`Continue`), and detached threads are scheduled. The
  poll, the network, requests and process death are not fair: nothing promises them. A tick of the poll
  finds the last poll finished, since the interval is five seconds.
- `conn_live`: the deadlines of the controller fire, the log can be read, `stopVpnExtensionAbility` settles,
  the refresh timer of the page ticks, the scene manager finishes what it began. The extension and the
  delivery of Wants are not fair at all: `PageUsable` is about the time-outs.
- `delay_tests`: the threads of the pool run, a ping ends by its timeout, saves return, the ArkTS thread resumes those whose
  result is there. Batches, starts and stops are not fair.
- `traffic`: the timer of the page ticks, and what a refresh waits for comes. Neither the tunnel nor the saves nor the
  log page are fair; `TotalsCatchUp` speaks of behaviours in which the log page is left in the end, because a
  page that reads the log without end may keep the flag from the timer's refresh at each of its ticks.
- `surfaces`: the timer ticks with its intervals passed, the system serves or refuses its calls and answers them, and a call that
  was begun goes on. Changes of the status, failures and restarts are not fair.

## 7. Disagreements between the code and what it says

Each is a run in which TLC finds the property violated. `PROJECT.json` quotes the lines.

- `conn_flag`: the flag of an automatic disconnect is cleared after a start was confirmed, which erases a
  mark made in between; the main process then shows a dead tunnel as running.
- `xray_setenv`: `TestXrayConfig`, `GetFreePorts` and the other optional functions open the library without the mutex. When one does
  between the check and the `setenv` of a worker that pings, the environment moves beside a Go runtime that is starting, which
  the comment in the same function says crashes it (napi_init.cpp:365-371). A proxy-only start is such a caller: it tests its
  configuration and asks for free ports before it starts Xray (ConnectionController.ets:220, 250).
- `traffic_twice`: a refresh gives the controller the counters of its own process, zero, and then waits for the log. A refresh that
  comes meanwhile is turned away by the flag and returns the zeros to the page, which takes them for a new session;
  the next sample counts the whole session again. The same follows from a snapshot, from a log
  that was cleared and from a read in the middle of a rotation.

Other instances of the same modules show more; they have no run of their own. The first three are stated in the modules, the
comments they follow beside them:

- `xray_setenv` with `CoreFindsAssets` violates it: a start without VPN tests its configuration, and may ask for free ports, before it
  starts Xray. Both look up their symbol in the library and so open it while the asset directory is not in the environment; the
  start that follows leaves the environment alone because a library is open. The comment above `PrepareXrayAssetDir` says that it
  must come before the first `dlopen`. A ping before would hide it.
- `vpn` with `NoDisconnectBeforeRoaming` violates it: a reading of the network that fails is answered as a network without a
  name, or as none (NetworkProbe.ets:53, 143), and the poll takes it for another network. The next good reading on the trusted network is a
  second change, and the VPN that the user opened there is disconnected although nobody moved. The comment at HeyVpnAbility.ets:188
  says that only a change of the network after the first poll does that.
- `delay_tests` with `LostRetried` violates it: results are taken out of the pending list before they are saved, and the store ignores a
  write that fails (SubscriptionStore.ets:464-471). The comment at Index.ets:1952 says that the next flush or the end tries
  again; the last save of the batch does not have them.

- `conn_safety` with `Stoppable` and `ShownConfigCarried` stated without `~gaveUp` violates both: a start that timed out is delivered late; the start of
  another node meets the instance it created and is ignored (HeyVpnAbility.ets:67); the first one's answer confirms the
  second (ConnectionController.ets:131). The page shows a node that the tunnel does not use.
- `delay_tests` with `MeasuringEnds` stated of the flag alone violates it: a test asked for while the tunnel is being stopped comes back to a
  connection that is gone and returns before it clears `connectionDelayTesting` (RuntimeController.ets:317); the next start does.
- `surfaces` with `NotificationKnown` stated without `~missed` violates it: a cancel that the system refused is taken for done
  (SpeedNotificationManager.ets:89), and the notification stays.
- `surfaces` with `CardsListed` stated without `lost` violates it: two cards are placed at once, both calls read the list before either has
  written it, and the second write has only its own id (ControlCardStore.ets:24-27). No sync updates the first card from then on.
- `subs_seq` with `WorkTask = {"w1"}`, `Overlap = "fetch"` and `MaxTasks = 2` violates `UpdateKeepsCurrentNode`: an update
  remembers the selection of its group from before the fetch (SubscriptionsController.ets:415); a node tapped
  during the fetch is replaced although it is still delivered.
- `subs_seq` with `InitialProfiles <- FromOne` and the property `RemovedGroupIsGone`: after the last group is removed, the mirror of
  its address and nodes at the top of the profile looks like a profile of before the groups
  (SubscriptionStore.ets:489), and the group is made again.
- `subs_seq` with `InitialProfiles <- FromLocal` and the property `LocalGroupNotUpdated`: a scanned address is handed to `update`
  without a group (Scanner.ets:439); while the local group is browsed, the manual nodes are replaced. The
  guard against it (SubscriptionsController.ets:59) looks at the id it was given.
- `delay_tests` with `MaxActs = 3` has two measurements of connections at the same time: they share the default port and
  its file, so the delay of one session may be measured on the node of the other, although
  `DelayOfSession` holds: the result is attributed to the session that asked. And a failed ping of a core that is
  unavailable is replaced by a direct request, which a row shows as a delay (DelayTester.ets:206).

- `conn_safety` with `Prompts = TRUE` violates `NoStartWhileStopping` and `Stoppable`: the question about the
  core stays open while the connection comes up by other means, and its answer starts while the scene
  manager stops. The controller accepts a start in STOPPING.
- `subs_seq` with two page tasks and `Overlap = "any"` violates `BrowsingKeepsNode`: of two overlapping calls the later save
  writes back the current node of before.
- `subs_seq` with `FreshGroup = {g1, g2}` violates `UpdateKeepsCurrentNode`: two groups of one address have the
  same node ids, and after the first is removed an update of the other replaces the current node by the
  one that group remembered.

## 8. What is left out

- Of the bridge: how `libheytun2socks.so`, `libhevsocks5tun.so` and `libsingbox.so` are loaded (whether a call
  succeeds is an input of NativeBridge), `ValidateConfig`, `SetTunFd`, and what a call that changes no state returns.
- Of the log: the limit of the events that are read, and under Connection its rotation.
- Of the delay tests: the loop of TCP handshakes, which saves each batch before the next, and the sorting and removing that may
  follow a batch. The store catches the failures of its reads and writes, so no save of delays throws; what a failure
  takes with it is in the model (`batch.lost`, "absent") and in section 7.
- Of the notification and the cards: texts and speeds; that the two processes may see different copies of the preferences.
- Of the connection: `reconnectWithProfile` and the decisions of `RuntimeReconnect.ets`, which no page calls;
  lookups of the outbound domain before a start, which cannot fail it.
- Of the subscriptions: delays, times, filters and intervals (which groups are due is a free choice of the
  model), the flags with which one page keeps its own updates apart (updates come from several pages),
  `ProfileStore`, and four operations that no page reaches (`saveActiveGroupNodes`, `dedupeActiveGroupNodes`,
  `removeInvalidNodes`, `clearActiveGroupNodes`). The background work and the pages are taken to see one
  store.
- Parsers, configuration builders, layout, translations and build scripts: conversions without state.

## 9. Plan

In this order; the first five are done.

1. Extension and bridge: `NativeBridge`, `VpnExtension`, abstract `VpnSession`, refinement, proofs.
2. `Connection` on top of `VpnSession`.
3. `SubscriptionProfile`, `Subscriptions`, proofs.
4. `XrayLibrary`, `PingService`, `DelayTests` on top of it, proofs.
5. `TrafficTotals`, `SpeedNotification` and `ControlCards` with proofs.
6. `SubscriptionSchedule` composed with `Subscriptions`: works the system runs although their group is gone.
7. `SubscriptionFetch`: fallback and redirects.
8. `SettingsStores`: drafts, language, backup of four stores.
9. `ConfigBuild`: the builders of `XrayConfig.ets` and `SingboxConfig.ets` as pure operators from settings and
   nodes to inbounds, outbounds, rules and DNS: every tag that a rule, a detour or a chain names is built, in
   each run mode and for each node, and the two cores are given the same routing decisions.
10. `LinkImport`: the parsers of `ShareLinkParser.ets` and `SubscriptionManager.ets` by what they accept, as
   the source of the nodes that `Subscriptions` receives.
11. A lossy log under `Connection`.

Theorems, in this order:

1. `OnlyNamedNodesRemoved` for calls one at a time and no faults. What it needs besides `DataInv`, `GroupsInv` and
   `CopyInv`: between calls the page shows what is stored, and an update that was started for a group finds this
   group in the copy it loads after the fetch.
2. `UpdateKeepsCurrentNode` from the same, with the lemma that `RetainedNodeId` returns an id that is still
   delivered.
3. The modules of items 6 to 11 with their invariants as they are written.
