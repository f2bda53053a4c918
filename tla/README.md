# Cradle: TLA+ models and proofs

Cradle is a desktop, web and mobile application around a local server
(`src/apps/server`) that runs coding agents. Its core is the chat runtime
(`src/apps/server/src/modules/chat-runtime`, called *CR* below): a session is an
event log with projected tables, at most one run of the session streams at any
time, and a durable queue feeds the next one. Runs are started by users, by the
queue, by goal continuations and by the provider itself; they are ended by their
own turn, by a cancel, by recovery and by a restart. These handlers are
asynchronous TypeScript functions that interleave at every `await`, which is
where tests reach least and where this project aims.

Around that core it models five services with hazards of their own: the outgoing
queue and the link hub of `relayd` (the Go relay that connects remote controllers
with nodes), session awaits, background jobs, and the way a page follows a
session's log.

## Inventory

| Component | State | Operations | What makes it correct |
|---|---|---|---|
| Event log (`es/decide`, `aggregate`, `projectors`, `commands`, `event-store`, `session-actor`) | `session_events`, projected `backend_runs`, `messages`, `chat_session_queue_items`; a promise chain per session | decide + append + project in one transaction; recovery's undecided append; replay | decisions from the tables equal decisions from replay; a run has one start and one terminal fact; message, item and run tell the same outcome |
| Recovery (`es/recovery`) | the tables and checkpoints | finalise interrupted runs at start-up, recover a failed terminal commit, abort a projected streaming run | every run gets exactly one terminal fact |
| Queue (`queue/drain`, `queue/api`) | queue rows; `drainingSessionIds`, `requestedDrainSessionIds`, microtasks | enqueue, cancel, reorder; the drain loop: recover, pick, claim, create, release or fail | no wake-up is lost; a claim always has a holder; a settled item stays settled |
| Run registry and creation (`run-registry`, `run/run-coordinator`) | pending, active and maintenance claims | `createRun` up to the executor's start | the registry follows the rows; admission is single flight |
| Completion (`run/turn-completion`, `run/terminal-finalizer`, `run/active-run-release`) | per run: settled, released, handed off | fence, commit, recover, release, notify, hand off once | the fence is never stale; a durable terminal precedes release and handoff |
| Synthetic turns (`run/provider-synthetic-turn`) | an inbox per provider turn | wait for the parent, start, register, complete | never two concurrent top-level runs |
| Cancel (`lifecycle/cancel`) | flags on the pending claim and on the run | three cases: registered, being set up, only streaming rows | a cancelled item stays cancelled |
| Rollback (`lifecycle/rollback`) | the maintenance claim | claim, check, provider call, transcript commit, release | nothing else runs meanwhile |
| Checkpoints (`stream/active-run-stream`, `checkpoint-store`) | `run_stream_checkpoints` | fenced upsert; deleted with the terminal fact | no checkpoint outlives its run |
| Event tail (`es/event-tail`, `sync-gateway`, the page's `session-sync-engine`) | subscribers with a backlog, the page's cursor | publish, replay, live hand-over, end, reconnect, snapshot | no event is skipped unnoticed; the page catches up |
| Session awaits (`session-await`) | await rows; deliveries under way; the poller; the queue of scripts | register, cancel, trigger, retry, expire, poll, run a script | one wake-up per await and per CI result; no script is forgotten |
| Background jobs (`background-job`) | job rows; calls suspended in an adapter or a projector | enqueue, reconcile, project, cancel | the owner is told of one outcome, and is told in the end |
| relayd's hub (`relay/fabric_hub.go`, `directory/server.go`; the server's `relay-transport/node-connector.ts`) | node sockets, links, controllers, presence; work after the unlock; the node's sessions | connect, open, attach, revoke, drop, remove, forward | a link has a node and one controller; whoever lost its link is closed; presence has an owner |
| relayd's queue (`relay/scheduler.go`) | control queue, a lane per stream, round-robin order, four counters, two wake-up tokens | enqueue, wait, take, write, close | FIFO per stream; control is never blocked by bulk data; no wake-up is lost |
| Approvals, user input (`pending-*`) | pending request maps | ask, answer, withdraw | answered once *(not modelled)* |
| Providers, clients, git, issues, Chronicle | adapters, UI, other processes | | outside this project; `PROJECT.json` gives the reason for each |

Interactions: every writer of a session goes through `runSessionActorTask`, which
runs its task at once when the chain is empty and otherwise chains it behind the
earlier ones, with what the caller read before. The registry is synchronous
memory that admission reads *before* the commit; the commit decides again from
the tables. The drain is woken by enqueue, by completion's handoff, by
`createRun`'s catch block, by rollback's `finally` and at start-up. Synthetic
turns skip the pending claim and the maintenance claim altogether.

A triggered await ends in an item of the session's queue (`SessionAwait` delivers
where `ChatSession` has `Enqueue`). The commits of the session's actor are what
`SessionTail` publishes. A frame the hub forwards enters the scheduler of the
other end's connection; when that refuses it for good, the forwarding loop ends,
which is the hub's `NodeForwards`.

## Modules

* `SessionFacts` - the pure core: tables, verdicts (`es/decide.ts`), projections
  (`es/projectors.ts`). A run names its assistant message too, since each run
  owns exactly one. No recursion, so that it can be proved about.
* `SessionLog` - the event log and its writers. It holds the tables *and* the
  replayed aggregate, counts start and terminal facts per run, and has the
  actor's chain: element 1 is the task that ran last and whose entry is still in
  the map, the others wait with the arguments read by their callers. One action
  per caller, plus `Advance` (the chain moves on) and `CrashAndRecover`. The drain
  keeps the item it claimed (`held`) until it lets go of it, so it may still fail it
  after its run has started, as `createQueuedRun` and the renumbering behind it may
  throw then; `overruled` is a history variable with the items this happened to. What a
  batch makes of a state (`EvolveAll`, `ProjectAll`) are recursive functions.
* `ChatSession` - every handler of one session at the grain of its awaits, over
  the tables of `SessionFacts` (a commit is one step, which `SessionLog`
  justifies). Each handler is a record with a `pc`; see the table below.
* `SingleFlight` - what the session promises: one run at a time, a run lives
  once, an item is served by at most one run. `ChatSession` implements it under
  the mapping `streaming <- ActiveRun(tables)`, `outcome <- tables.run`,
  `servedBy <- startedRunId`.
* `PeerScheduler` - the outgoing queue of one relayd connection: critical
  sections, channel operations and socket writes of its senders, its writer and
  whoever closes it. `StreamFifo` is what it promises a receiver; the scheduler
  implements it with one order domain per stream (frames without a stream id are
  ordered within their priority), under `pending <- PendingOf`, `taken <- the
  frame the writer took last`.
* `FabricHub` - the hub: each method is its critical section, followed by the
  work it does after its unlock, which is a task of its own and interleaves.
* `SessionAwait`, `BackgroundJobs`, `SessionTail` - one per service.
* `MCSessionLog`, `MCChatSession` - symmetry sets for TLC. `MCServices` - the five
  services for one run (see below).
* TLAPS proofs: `SessionFactsProofs` (the projections), `SessionLogProofs` (the
  log), `ChatSessionProofs`, `QueueItemProofs` and `RegistryProofs` (the session's
  handlers, each on top of the one before), `RelaydProofs` (hub and queue),
  `ServicesProofs` (awaits, jobs, tail), `RecursionProofs` (induction).

| `ChatSession` | code |
|---|---|
| `tables` | projected rows, the only state that survives a crash |
| `registry` | `RunRegistry`: `activeRunIdsBySession`, `activeRuns`, `pendingRunSessions`, `sessionMaintenance` |
| `creator` | `createRun` up to registration; one at a time, since `claimPendingRun` holds the session |
| `preparing` | `createRun` after registration: resolving history and provider input |
| `turn[r]` | `executeRun` and `completeActiveTurn`: open, settling (fence read), recovering, durable, released, done; abandoned (preparation failed), lost (completion and recovery failed) |
| `drain` | `drainSessionQueue`, the request flag, queued microtasks; "renumbering" is `normalizeSessionQueuePositions` behind a started run (with the item still in hand) or a failed item |
| `synth` | one synthetic turn: waiting for its parent, starting, committed |
| `rollback` | `rollbackTurns`: provider call, then commit |
| `spent` | bounds only |

| the services | code |
|---|---|
| `PeerScheduler`: `control`, `lanes`, `streamOrder`, `nextStream`, `queued` | the fields of `peerScheduler` under `s.mu` |
| `signal`, `space` | the tokens of its two buffered channels |
| `sender[s]` | a caller of `enqueueWait`: idle, waiting for space, woken, gone |
| `writer`, `conn` | `writeLoop`; the three steps of `fabricConn.close` |
| `FabricHub`: `nodes`, `links` | the maps of `FabricHub` under `h.mu` |
| `nodeConn[c]` | `nodeWebSocket` and `HandleNode`: accepted, marked online, serving, failing (serve returned an error), leaving (dropped, not yet offline), done |
| `ctrlConn[k]` | `HandleController` |
| `tasks` | closings and notices after an unlock; the part of a removal after the rows are gone |
| `inbox`, `sessions` | frames on their way to a node, and what `node-connector.ts` keeps per link |
| `SessionAwait`: `awaitRow` | `session_awaits`; history field `rekeyed`: a retry replaced the row's payload; `woken` counts the items of each |
| `sends`, `poller`, `inFlight` | suspended calls of `enqueueResume`, `runOnce`, `runJob` |
| `BackgroundJobs`: `call[c]` | the poller or a request, suspended in an adapter or a projector, with the row it read |
| `shown` | what the owner's projector was called with |
| `SessionTail`: `tail` | the subscriber of one page, and what is on the wire |
| `parked` | the reader's pull found the stream's queue empty; what comes later stays pending |
| `page` | the engine's cursor, the versions it was told of, a refetch that is due |

### Abstractions

* Queue positions: the drain takes any pending item. What the renumbering writes is
  left out (`DrainRenumbers` changes no row: it re-pends rows that it reads as pending
  in its own task); that it fails is modelled.
* Native input (`queue/drain.ts:84-120`), item updates and the cancel of a
  provider target's queues: left out of `ChatSession`; the last is in
  `SessionLog` and has the effect of `CancelItem`.
* Asking a provider to stop changes nothing: its turn may end at any time with
  any outcome, which includes the answer to the request.
* `RequestArrives`: between the `RunStarted` commit and the registration of the
  run there are only promise continuations, so no request lands there; other
  handlers' continuations do.
* `completeTerminalPersistedActiveRunForSession` (the stale-fence path of cancel
  and status) is no action: `FenceNeverStale` says it never finds anything.
* `CrashAndRestart` is a crash or a shutdown, together with the recovery and the
  queue resume of the next start. A shutdown first aborts what is registered and
  not being completed (`InterruptedOutcomes`); the steps between that abort and
  the end of the process are left out.
* A goal continuation is a handoff without a drain wake-up, then a `createRun`.
* Enqueue's commit and its wake-up are one step, as are startup recovery's
  commits: nothing is served before they end.
* Only one synthetic turn at a time is in the inbox's admission phase. A turn's
  chunks are left out.
* The start of a run's diagnostic snapshot is part of its registration, although
  it may throw half-way (`run/run-coordinator.ts:356`, listed as a hazard).
  `SessionLog` has the effect on the item, which the drain then fails.
* Storage cleanup (`session-storage.ts:35-66`), the other holder of the maintenance
  slot, is not modelled: it deletes the session's rows, which the models never do. Its
  release schedules no drain, unlike rollback's `finally`, so `QueueIsWatched` says
  nothing of an item that arrives during a cleanup and survives it.
* `PeerScheduler`: a frame is its sender, number, stream, priority and size. An
  idle writer's second look at an empty lane is left out (`NothingToTake`).
* `FabricHub`: ids are used once; certificates, grants, fabrics and frames'
  contents are left out. A notice may be lost (one second of backpressure).
  The 15-minute timer of a link is a revocation.
* `SessionAwait`: what a check finds is a choice; the limit of three concurrent
  triggers (`MAX_CONCURRENT_TRIGGERS`) is left out, so deliveries of a cycle may
  all be under way; which timers are due is a choice, and a script that is not due
  is one of a later cycle. The cap on the rows a
  cycle looks at (`MAX_CHECKS_PER_SOURCE`, 100) is a constant per source
  (`MaxInlineChecks`, `MaxScriptChecks`), so that a small instance can exceed one of
  them; `Position` is the order of the lists. A request may bring a payload with any
  key, to a trigger or to a retry. Payloads that do not parse are left out.
* `BackgroundJobs`: the limit of 100 rows per cycle is left out; progress and
  errors are not kept, although an observation that only changes them is written.
* `SessionTail`: one page and one session. An event is its version. A crash of the
  server is a lost connection, since the log is durable. A reader parks or does not
  (`ReaderParks`): pulling again is not assumed of it, and what comes for a parked
  reader is never delivered. The stall watchdog of a stream that is read is not
  modelled, as a frame that is pulled leaves at once.

## Runs

Deadlock is not checked: the system rests when the
bounded requests are spent, sockets and ids are used up, and nothing is left to do.

| Run | Bounds | Question and answer |
|---|---|---|
| `session_log` | 2 runs, 2 items, chain 2, 1 crash | Do rows, log, messages, items and checkpoints agree, with stale callers in the chain and a drain that may fail an item late? Yes, if no reorder waits; the failed item is the exception. (793,447 states) |
| `session_core` | 3 runs, 1 item, 1 user turn, 1 synthetic, 1 cancel, 1 rollback | Do registry, drain and rows agree in every interleaving, is it `SingleFlight`? Yes. (860,080 states) |
| `session_crash` | 2 runs, 2 items, 1 cancel, rollback, crash, fault, failing renumbering | Is a claim recovered, pending work watched, rollback exclusive? Yes, without synthetic turns. (1,879,772 states) |
| `session_faults` | 3 runs, 1 item, 2 faults, failing preparations and renumberings | Which runs may be left streaming? Only abandoned and lost ones; single flight holds. (964,559 states) |
| `session_live` | 3 runs, 1 item, synthetic turn, fairness | Does the queue drain, does every run end? Yes. (220,369 states) |
| `services` | see below, fairness | Do the five services keep their eleven invariants, implement `StreamFifo` and make progress? Yes. (182,045 states) |
| `session_log_stale_reorder` | as `session_log`, reorders may wait | *Violated.* A reorder behind a claim or a cancel re-pends the row; the log does not. |
| `stranded_claim` | 1 crash, fairness | *Violated.* A claim without a run is not resumed at start-up. |
| `failed_preparation` | fairness | *Violated.* `createRun` rejects after admission and the run never ends. |
| `synthetic_in_maintenance` | 1 synthetic, 1 rollback | *Violated.* A synthetic turn starts inside a rollback. |
| `cancelled_item` | 1 cancel | *Violated.* A cancelled item becomes failed. |
| `links_are_independent` | 1 node socket, 2 links | *Violated.* A frame of a closed link ends its node's socket. |

Why these are enough: the hazards need at most a run that is ending, one that is
starting and one that intrudes (three runs), one claim in flight and at most one
other item, and one fault of each kind at any point. Two wake-ups (`MaxWakeups`)
are one consumed by a drain and one arriving during it; further ones saturate,
which is what a set of microtasks that each return at once does. In
`session_log` the chain of two is the shortest in which a caller's reading is
overtaken, and two runs and two items are enough for a fact to concern the wrong
one. Symmetry
is used in safety runs only.

`services` checks five modules that share no state. Variable `subject` chooses one
of them in `Init`; only its steps are taken, and the others stay in their initial
states, in which none of their fair actions is enabled (nothing is pending, no
goroutine runs, no page is open), so that the fairness of all five can be
assumed at once. Their liveness properties are written as `[]<>P` and `<>[]P`,
which say the same as "leads to" here and are checked one component at a time.
Bounds:

* scheduler: two senders, one stream and frames without one, both priorities, a
  queue of two frames of which one may be data, three frames. That is one frame
  being written, a full queue and a sender that waits: refusal, waiting, wake-up
  by the wrong sender and a close at any point occur.
* hub: two sockets of one node (a reconnect), a second node that owns the link
  and may be removed, one link, two controller sockets, one frame on its way.
* awaits: two awaits at a time, of a timer and a check, two checks that may match
  one result, or two scripts with one slot, of which a cycle looks at the first one
  only (the other starves while the first is pending); three deliveries; two
  evaluation errors are final; a crash. Poller, job and request overlap.
* jobs: one job (jobs share nothing but the poller), two requests next to the
  poller, three requests in all, a crash.
* tail: four events, a replay limit of two, a backlog of one, one event above the
  gateway's limit, one lost connection, both transports. Replays that are too
  long, a backlog that overflows, a version overtaken by a direct commit and an
  event thrown away with the stream of a parked reader occur.

### Fairness

`FairSpec` assumes weak fairness of each handler that has begun (`createRun`,
each run's preparation and turn, the drain, the synthetic inbox, rollback): the
event loop runs every ready continuation. For a turn that includes that the
provider ends it, an assumption about the provider, not about this code. Nothing
is assumed of requests, faults or crashes.

The services, likewise: goroutines, promise callbacks and timers go on once they
can. In particular a write of relayd's socket ends or times out, a closed
socket makes its reader return, checks and adapters return, and a page reconnects
and refetches without end (its retry timers have no limit). A page reads what it
pulls: `PageReads` is fair only while its reader is not parked, and a parked reader is
not assumed to wake up. Then it is the interval of the stall watchdog that is fair
(`StallReaped`): after 30 s with something pending, an event or a keep-alive comment,
it discards the backlog and closes the stream, which the page notices as an error.
Without `StallReaped`, `TailCatchesUp` is violated. `BackgroundJobs` uses
strong fairness twice: the poller comes to every outstanding job although
requests may have settled it meanwhile, and a projector that is called again and
again succeeds once, which is an assumption about the owners. No frame, request,
dial or disconnect is fair.

### Findings

The six violations are disagreements between the code and its own text; each is
quoted in `PROJECT.json`. The two with lasting effects are `failed_preparation`
(the session stays busy until the server stops: a cancel only asks a registered
run's provider) and `stranded_claim` (the
item waits for the next wake-up of its session). `FenceNeverStale` and the
session cancel's first case also show that the stale-fence branch is a guard
that no modelled interleaving reaches.

`links_are_independent`: relayd answers a node's frame for a link that is gone, or
has no controller at the moment, by ending the node's socket and all of its links;
plan 076 says that closing one link must not do that. A node cannot avoid it: the
frame may be on its way when the link is closed.

Some properties say where they stop, and the exceptions are what the code does.
`ItemTellsOutcome` excepts an item that the drain failed although its run had started
(`overruled`): an error of `createQueuedRun` after the commit, or of the renumbering
behind it (`queue/drain.ts:144`, inside the `try`), fails the item of a run that may
stream or be settled. `OneWakePerResult` excepts rows whose payload a retry replaced
(`session-await/service.ts:390`): neither is the new key looked up nor the old one
remembered, and one CI result can wake a session twice. `ScriptsAreChecked` says
nothing of a script while as many older ones as the cap are pending
(`session-await/poller.ts:129`): it is never looked at and may starve. `NothingSkipped` excepts versions whose publication a direct commit
overtook. `TailCatchesUp` also excepts a subscription that the gateway ended,
which the page renews only with its socket. `OnlineIsOwned` is one direction:
a late handler may mark a connected node offline.

## Proofs

Every safety property that a passing run checks is a theorem as well; it then
holds for every value of the constants.
`PROJECT.json` lists the theorems with the property each one states.

### Assumptions

`NoRun` and `NoItem` are no ids (`NullsAssumption`); the bounds are naturals
(`BoundsAssumption`); the services have an assumption each, on distinct nulls and
bounds, and on `Position`, an injective numbering of the awaits (`SchedulerAssumption`, `FabricHubAssumption`, `SessionAwaitAssumption`,
`BackgroundJobsAssumption`, `SessionTailAssumption`). `SessionLogAssumption` adds
that there are finitely many items, since a commit lists the facts of all orphaned
claims; `FabricHubAssumption` that there are finitely many links, since removing a
node loops over its links; `SessionAwaitAssumption` that there are finitely many
awaits, since a poll sends for a set of them. Each of these is a table or a map of
the program. Sets are otherwise any sets, infinite ones too.

Some theorems assume more, and say so. Each of these is a choice among the
behaviours the model has, and without it the property is false, by a run or by a
counterexample that TLC gives at once:

| Assumed | Theorems | Why |
|---|---|---|
| `~StaleReorders` | `DecisionsMatchReplayAlways`, `ItemTellsOutcomeAlways` | a reorder that waits in the chain re-pends the row but not the log: run `session_log_stale_reorder` |
| `~PreparationFails`, `~RenumberingFails` | `ItemFollowsRunAlways`, `ServedItemIsFinalAlways` | the drain fails an item whose run still streams or has ended, and a shutdown aborts a run that still streams: the failed item becomes cancelled |
| `~PreparationFails`, `MaxFaults <= 1` | `StreamingRunIsOwnedAlways`, `QueueIsWatchedAlways` | a run is left streaming by a failed preparation, or by two faults in a row (completion, then its repair) |
| `MaxCrashes = 0`, `MaxFaults = 0` | `ClaimHasHolderAlways` | a claim that was in flight is not resumed after a crash: run `stranded_claim` |
| `MaxSynths = 0` | `MaintenanceExclusiveAlways` | synthetic turns do not look at the maintenance claim: run `synthetic_in_maintenance` |

`OrphansAreKnownAlways` and `QueueIsWatchedOrStranded` say, without any such
assumption, what remains: a streaming run that nobody answers for is one of those
two kinds, and a queue that nobody watches is behind one of them.

### The tables and the log

`SessionFactsProofs`: what each projection does to the set of streaming runs and
to the binding of items - started, ended or untouched. `OneStreaming` and
`UnclaimedUnbound` (a pending or absent item has no run) are kept by all.

`SessionLogProofs` needs two invariants, since runs are safe from stale tasks in
the chain and items are not.

* `RunInv`, for all six writers and whatever waits: the replayed active run is
  the tables' (`ActiveRun`), the facts counted for a run, its message and its
  checkpoint follow its row (`FactsTell`). A task about a run that is gone is
  refused by the decision, so nothing is needed of what waits, except that a start
  in the chain is the only one for its run, whose row is still absent (`StartsOK`).
  This gives `TypeOKAlways`, `OneLifePerRunAlways`, `MessageTellsOutcomeAlways` and
  `CheckpointsAreLiveAlways`.
* `ItemInv`: the projections of items overwrite, so that a task that was right
  when its caller read the rows may be wrong when it runs. `ItemsChainOK` says which
  tasks may wait and that they stay right: an enqueue's item is absent, a finish
  names the item its run is bound to, the drain has one task in the chain and it is
  about the item it holds, and no reorder waits. Each task that runs must keep
  every other waiting task ready. A waiting failure is ready whatever became of the
  item: `overruled` remembers when it overwrites a bound one. This gives `DecisionsMatchReplayAlways` (what a
  command decides from is what a replay gives) and `ItemTellsOutcomeAlways`.

A batch's effect is a fold over its facts. Lemmas `EvolveSteps` and `ProjectSteps`
unfold it to one step per fact, and what a commit does to the runs and to the items
is then a lemma about each kind of batch.

### The session's handlers

`ChatSessionProofs`, for `Spec` (every fault, crash and budget):

* `TypeCorrect`: `Spec => []TypeOK`.
* `AtMostOneStreams`: at most one run streams.
* `ImplementsSingleFlight`: `Spec => SingleFlightSpec`, the refinement that
  `session_core` and `session_faults` check on small instances.

The inductive invariant `IInv` is `TypeOK`, the tables' part and four links
between what a handler holds and the rows: `DrainLink` (the drain's item, unbound
while it may be released), `CreatorLink` (the item `createRun` serves is the
drain's, and bound once committed), `TurnLink` (a turn's item is bound to its
run) and `SynthLink`. They are needed because the projections overwrite: a
release of a bound item would unbind it, and a terminal fact with somebody
else's item would rebind it. `SingleFlight` excludes both, and neither projection
has a guard of its own. Lemma `Rows` has one step per action and reduces each to
*started*, *ended* or *untouched*; `TypesKept` and the `...LinkKept` lemmas keep
the invariant; `StepFlight` maps the three cases to `Start`, `Finish` and a
stutter.

`QueueItemProofs`:

* `OnlyDrainClaimsAlways`. `ClaimLink` says more than the property: while the drain
  picks and until it claims there is no orphan at all, so that its claim makes the
  first. Only `DrainClaims` makes an orphan (`NoNewOrphans`).
* `ItemFollowsRunAlways`, with crashes and storage faults, which `session_core`
  does not have. The projections overwrite either row without a look at the other,
  so `ItemInv` says why they agree: a run has one item at most (`OneItemPerRun`),
  whoever may settle it knows which (`TurnServes`, `CreatorServes`, `SynthServes`),
  and the drain fails items that no run serves (`FailsUnbound`). The last is what a
  failing preparation or a failing renumbering breaks.
* `ServedItemIsFinalAlways`, the action property: the same invariant leaves no
  handler a step that changes the item of a run that ended.
* `ClaimHasHolderAlways`: the drain parts with its item only after giving it back,
  failing it, or having it bound, and it knows which from its own `run` field
  (`HolderInv`).

`RegistryProofs`: the live registry against the rows. `RegInv` has the three
places a registry entry may come from and the holder of each (`SlotsAreHeld`), and
`Ownership`: a run whose turn is not settled streams and has the index
(`LiveRunStreams`), a committed run that is not registered yet streams and has no
turn (`UnregisteredRunStreams`). It gives

* `FenceNeverStaleAlways` and `OrphansAreKnownAlways`, for every fault and crash;
* `StreamingRunIsOwnedAlways`, with `NobodyStranded`: completion reaches its repair
  only after a fault, so one fault cannot lose a run;
* `QueueIsWatchedOrStranded` and `QueueIsWatchedAlways`. `WatchInv` counts every
  handler that will look at the queue before it rests: the drain or a wake-up of
  it, `createRun`, a committed synthetic turn, rollback, or a turn that has not
  handed off;
* `MaintenanceExclusiveAlways`, with `MaintInv`: from its claim to its release
  nothing streams and `createRun` is idle.

### The services

`RelaydProofs`, for any nodes, links, sockets, streams, senders, budgets:

* The hub: `LinksHaveNodesAlways`, `OneControllerAlways`, `OnlineIsOwnedAlways`. The
  invariant `HubInv` adds to the types that a registered socket is its node's
  (`Registered`; otherwise `DropNode` would take away the wrong links) and that a
  serving controller's link exists (`Attached`; otherwise a link could be opened
  under it). Nothing is needed of the queues, so no order or loss of notices can
  break the three.
* `LanesScheduledAlways`: the round-robin order names exactly the lanes that hold
  frames, each once. It needs nothing of the counters, the tokens or the writer's
  place, so neither a wrong count nor a lost wake-up can strand a lane.
* `CountersMatchAlways` and `BulkNeverBlocksAlways`. All four counters count a set, of
  frames or of the bytes of frames, so `CountedInv` says why adding and removing a frame are adding and removing an
  element: a frame is in one place once (`OnePlace`), among the queue, the senders
  and the writer, and has a number below the next (`Numbered`). `CountersInv` adds
  that data stays within its own budget, from which the room for control follows.
* `SchedTypesCorrect` and `HubTypesCorrect`: every variable keeps its type. The
  counters are naturals because they are cardinalities (`CountsAreNumbers`), although
  the code subtracts from them. For the hub, what a critical section leaves to be
  done after its unlock, for any number of links in any order, is a list of effects
  on links and sockets that exist (`RoundsAreWork`).
* `StreamsStayOrderedAlways`, the refinement of `StreamFifo`. The invariant is only
  that control without a stream id never enters the data lane of such frames
  (`NothingUrgentUnclassified`). Each step is an `Accept`, a `Take`, a `Discard` or
  a stutter of the FIFO; a take is the head of its order domain because what a
  control frame overtakes is not of its stream.

`ServicesProofs`:

* `WakeUpsAlways` and `OneWakeAlways`. The invariant `AwaitInv` counts for each
  await what was delivered and what is under way (`Account`): a row that may still
  trigger has neither. That is not inductive alone. A failed delivery puts a row
  back to where it may trigger again, which is safe only because what failed was
  the row's one delivery; a notice of a failure belongs to a failed row
  (`NoticesAreOfFailures`), so losing it leaves no triggered row behind; and a
  result's key stays with the one row that was marked with it, unless a retry brought
  another (`KeysAreReported`), which is what turns one wake-up per row into one per
  result.
* `AwaitTypesCorrect`. `AwaitTypeOK` states that a row still asked for has fewer
  errors than `MaxEvaluationErrors`, and that no more scripts are checked at a time
  than `HeavyConcurrency`, which pumping the queue keeps because it takes no more
  than there is room for.
* `JobTypesCorrect` and `OneOutcomeAlways`. `JobInv` says what the owner has been
  told in terms of the row (`Told`) and what a suspended call may still tell it
  (`CallTold`): a call that waits in `adapter.cancel` holds "cancelled", and the
  row's guard keeps every other outcome away meanwhile.
* `NothingSkippedAlways`. The cursor moves when the page reads, so `TailInv` is about
  the wire: of the frames that would carry the cursor past a version, the first is
  that version or a snapshot (`Sound`), and a live subscription has been offered,
  or need not be offered, every version below the next (`Reach`). `OfferAllFits`
  carries both through a replay of any length.
* `TailTypesCorrect`. `TailBounds` says what the transport allows (`Carried`): an SSE
  stream holds `StreamLimit` events at most and only such a stream ends with its
  backlog, only the gateway drops a subscription. `OfferAllCarries` is its induction
  over a replay.
* `ServicesTypesCorrect`: `ServicesSpec => []ServicesTypeOK`. A behaviour of the
  composition is a behaviour of each service (`EachServiceRuns`), since a step of one
  leaves the variables of the others alone; so this theorem and every other theorem of
  a service hold of the composed specification that the run `services` checks.

### Recursion

The prover cannot instantiate the library's induction theorems, whose hypotheses
are operators. `RecursionProofs` proves induction over a set instead of a predicate
(`SetInduction`, `BoundedInduction`), from the library's theorem on well-founded
relations, and that a function with given steps exists (`RecursionExists`). A
recursive function of the models (`EvolveAll`, `ProjectAll`, `OfferAll`,
`FramesOf`, `RemovalRounds`) is a choice among the functions with its equation; once one exists,
the equation holds, and induction over the batch, the backlog or the queue does
the rest.

### Only model-checked

Liveness, which TLAPS does not handle: `QueueDrains`, `RunsEnd` and the six progress
properties of `services`; and what the six runs that expect a violation show.

## Not modelled

`PROJECT.json` lists every component with what is left out of it. The largest
parts have no state of their own that a model could say something about:
generated API clients and protocol types, the user interfaces, provider adapters
(a provider's turn ends in any way here), git and file-system effects, CRUD
modules. Pending approvals and user input, native input of the drain, stream
credit inside a fabric session, relayd's directory (enrolment, grants, events) and
the download centre are candidates with state; they are left for later.

## Plan

1. *(done)* `SessionFacts`, `SessionLog`, `ChatSession`, `SingleFlight`, their
   runs, the refinement proof.
2. *(done)* `PeerScheduler` with `StreamFifo`, `FabricHub`, `SessionAwait`,
   `BackgroundJobs`, `SessionTail`; the first proofs of the scheduler, the hub, the
   awaits, the jobs and the queue's items.
3. *(done)* The proofs of the log, of the registry, of the queue's watchers and of
   maintenance, of the tail, of the scheduler's counters and order, of the types of
   every service and of their composition.
4. Native input in the drain; the snapshot start inside registration.
5. Pending approvals and user input (answered once, withdrawn when the run ends).
6. Message externalisation and queue positions as pure operators against a
   reference definition.
