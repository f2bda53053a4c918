---------------------------- MODULE ChatSession -----------------------------
(***************************************************************************)
(* One chat session of the server: every handler that starts, serves, ends *)
(* or cancels its runs, interleaved at their awaits.                       *)
(*                                                                         *)
(*   creator    createRun, for a user turn, a goal continuation or a       *)
(*              queued item                        (run/run-coordinator.ts) *)
(*   turn       the life of a registered run: executeRun and the completion *)
(*              barrier            (run/turn-executor.ts, turn-completion.ts) *)
(*   drain      the durable queue's drain loop             (queue/drain.ts) *)
(*   synth      the provider's synthetic turns (run/provider-synthetic-turn.ts) *)
(*   rollback   rollbackTurns                       (lifecycle/rollback.ts) *)
(*   and the requests: enqueue, cancel, status; a crash with its restart.  *)
(*                                                                         *)
(* Rows change only through the projections of SessionFacts; SessionLog    *)
(* shows that these are what the event log replays to. Queue positions are *)
(* abstracted: the drain takes any pending item. Asking a provider to stop *)
(* changes nothing here: its turn may end at any time, in any way.         *)
(***************************************************************************)
EXTENDS SessionFacts, Naturals, FiniteSets

CONSTANTS MaxUserTurns,   \* bound: createRun calls other than the drain's
          MaxSynths,      \* bound: synthetic deliveries
          MaxCancels,     \* bound: session and item cancels
          MaxRollbacks,   \* bound: rollbacks
          MaxCrashes,     \* bound: crashes
          MaxFaults,      \* bound: storage faults
          MaxWakeups,     \* bound: drain microtasks queued at once
          PreparationFails, \* BOOLEAN: createRun may fail after registering
          RenumberingFails  \* BOOLEAN: a fault may hit the drain's renumbering
                            \* of the queue behind a run it has just started

ASSUME BoundsAssumption ==
    /\ {MaxUserTurns, MaxSynths, MaxCancels, MaxRollbacks,
        MaxCrashes, MaxFaults, MaxWakeups} \subseteq Nat
    /\ MaxWakeups > 0
    /\ {PreparationFails, RenumberingFails} \subseteq BOOLEAN

VARIABLES tables,    \* projected rows: the durable state
          registry,  \* RunRegistry: the live view of the session
          creator,   \* createRun, up to the registration of its run
          preparing, \* runs whose createRun still resolves the provider's input
          turn,      \* per run: where its execution and completion are
          drain,     \* the drain loop, its queued wakeups and its request flag
          synth,     \* the synthetic-turn inbox
          rollback,  \* rollbackTurns
          spent      \* bound counters

vars == <<tables, registry, creator, preparing, turn, drain, synth, rollback, spent>>

-----------------------------------------------------------------------------
(* Types and initial values *)

NoPending == [held |-> FALSE, cancelled |-> FALSE, item |-> NoItem]
Pendings  == [held : BOOLEAN, cancelled : BOOLEAN, item : Items \cup {NoItem}]

Registries == [index   : Runs \cup {NoRun},   \* activeRunIdsBySession
               active  : SUBSET Runs,         \* activeRuns
               pending : Pendings,            \* pendingRunSessions
               maint   : BOOLEAN]             \* sessionMaintenance

Creators == [pc   : {"idle", "validating", "cancelling", "starting", "committed"},
             run  : Runs \cup {NoRun},
             item : Items \cup {NoItem}]

Turns == [pc      : {"none", "open", "settling", "recovering", "durable",
                     "released", "done", "abandoned", "lost"},
          outcome : RunStatus,
          item    : Items \cup {NoItem},
          kind    : {"executed", "synthetic"}]

Drains == [pc        : {"idle", "recovering", "picking", "claiming", "creating",
                        "awaiting", "releasing", "failing", "renumbering", "leaving"},
           item      : Items \cup {NoItem},
           run       : Runs \cup {NoRun},
           requested : BOOLEAN,           \* requestedDrainSessionIds
           wakeups   : 0..MaxWakeups]     \* microtasks not yet run

Synths == [pc     : {"idle", "waiting", "starting", "committed"},
           parent : Runs \cup {NoRun},
           run    : Runs \cup {NoRun}]

Rollbacks == [pc : {"idle", "provider", "committing"}, turns : SUBSET Runs]

Idle(p)      == p.pc = "idle"
EmptyRegistry == [index |-> NoRun, active |-> {}, pending |-> NoPending, maint |-> FALSE]
IdleCreator  == [pc |-> "idle", run |-> NoRun, item |-> NoItem]
OpenTurnForgetsItem(i, kind) ==
    [pc |-> "open", outcome |-> "absent", item |-> NoItem, kind |-> kind]
OpenTurn(i, kind) == [pc |-> "open", outcome |-> "absent", item |-> i, kind |-> kind]
NoTurn       == [OpenTurn(NoItem, "executed") EXCEPT !.pc = "none"]
IdleDrain    == [pc |-> "idle", item |-> NoItem, run |-> NoRun,
                 requested |-> FALSE, wakeups |-> 0]
IdleSynth    == [pc |-> "idle", parent |-> NoRun, run |-> NoRun]
IdleRollback == [pc |-> "idle", turns |-> {}]

-----------------------------------------------------------------------------
(* Helpers *)

(* queueDrainDeps.hasActiveOrPendingRun *)
Busy == registry.index # NoRun \/ registry.pending.held \/ registry.maint

(* scheduleSessionQueueDrain: a running drain only notes the request.      *)
Scheduled(d) ==
    IF d.pc # "idle" THEN [d EXCEPT !.requested = TRUE]
    ELSE [d EXCEPT !.requested = TRUE,
                   !.wakeups = IF @ < MaxWakeups THEN @ + 1 ELSE @]

DrainAt(d, pc)  == [d EXCEPT !.pc = pc]
DrainFree(d, pc) == [d EXCEPT !.pc = pc, !.item = NoItem, !.run = NoRun]

AfterErrorForgetsRelease(code) == IF code = "failed" THEN "failing" ELSE "leaving"

(* What the drain does with the error createQueuedRun throws to it.        *)
AfterError(code) == CASE code = "chat_run_cancelled"   -> "leaving"
                      [] code = "chat_run_in_progress" -> "releasing"
                      [] OTHER                         -> "failing"

(* Recovery and session cancel end a streaming row from outside its turn.  *)
SettleStreaming(t, st) ==
    LET r == ActiveRun(t)
    IN  IF r = NoRun THEN t ELSE ProjectSettled(t, r, st, ItemOf(t, r))

Spend(budget, max) == spent[budget] < max
                      /\ spent' = [spent EXCEPT ![budget] = @ + 1]

Budgets == {"user", "synth", "cancel", "rollback", "crash", "fault"}

-----------------------------------------------------------------------------
(* Requests. Between startRun's commit and the registration of its run     *)
(* only promise continuations run; a request is an event of its own.       *)

RequestArrives == creator.pc # "committed" /\ synth.pc # "committed"

(* enqueueSessionQueueItem: commit, then schedule the drain.               *)
Enqueue(i) ==
    /\ RequestArrives
    /\ tables.item[i].status = "absent"
    /\ tables' = ProjectEnqueued(tables, i)
    /\ drain' = Scheduled(drain)
    /\ UNCHANGED <<registry, creator, preparing, turn, synth, rollback, spent>>

(* cancelSessionQueueItem: the row was pending when the request read it    *)
(* and may have been claimed by the time its commit runs.                  *)
CancelItem(i) ==
    /\ RequestArrives
    /\ Startable(tables.item[i])
    /\ Spend("cancel", MaxCancels)
    /\ tables' = ProjectCancelled(tables, i)
    /\ UNCHANGED <<registry, creator, preparing, turn, drain, synth, rollback>>

CancelsRegistered == TRUE
NobodyRegistered  == registry.index = NoRun

(* cancelSession with no registered run: mark the run being set up and     *)
(* cancel its item, or else abort the rows still streaming. With a         *)
(* registered run it asks the provider to stop; it would also complete a   *)
(* run whose row somebody else has settled, but FenceNeverStale says that  *)
(* there is none.                                                          *)
CancelSession ==
    /\ RequestArrives
    /\ NobodyRegistered
    /\ Spend("cancel", MaxCancels)
    /\ LET p == registry.pending IN
       IF p.held
       THEN /\ registry' = [registry EXCEPT !.pending.cancelled = TRUE]
            /\ tables' = IF p.item = NoItem THEN tables
                         ELSE ProjectCancelled(tables, p.item)
       ELSE /\ tables' = SettleStreaming(tables, "aborted")
            /\ UNCHANGED registry
    /\ UNCHANGED <<creator, preparing, turn, drain, synth, rollback>>

-----------------------------------------------------------------------------
(* createRun *)

ClaimPendingIgnoresMaintenance == registry.index = NoRun /\ ~registry.pending.held
CanClaimPending                == ~Busy   \* RunRegistry.claimPendingRun

BeginCreate(i) ==
    /\ Idle(creator)
    /\ registry' = [registry EXCEPT !.pending =
                        [held |-> TRUE, cancelled |-> FALSE, item |-> i]]
    /\ creator' = [pc |-> "validating", run |-> NoRun, item |-> i]

(* A user turn, or a goal continuation. A refused claim changes nothing.   *)
CreateUserRun ==
    /\ RequestArrives
    /\ CanClaimPending
    /\ BeginCreate(NoItem)
    /\ Spend("user", MaxUserTurns)
    /\ UNCHANGED <<tables, preparing, turn, drain, synth, rollback>>

(* The catch block of createRun, and the drain receiving its error.        *)
RejectCreate(code) ==
    /\ LET cancelledClaim == /\ creator.item # NoItem
                             /\ registry.pending.cancelled
                             /\ code = "chat_run_cancelled"
           woken == IF cancelledClaim THEN drain ELSE Scheduled(drain)
       IN  drain' = IF creator.item = NoItem THEN woken
                    ELSE DrainAt(woken, AfterError(code))
    /\ registry' = [registry EXCEPT !.pending = NoPending]
    /\ creator' = IdleCreator

(* Provider target unavailable, runtime session not resolved, a fault.     *)
CreateFails ==
    /\ creator.pc \in {"validating", "starting"}
    /\ RejectCreate("failed")
    /\ UNCHANGED <<tables, preparing, turn, synth, rollback, spent>>

(* Everything is resolved; the cancelled flag is read here, and only here. *)
CreateChecksCancelled ==
    /\ creator.pc = "validating"
    /\ creator' = [creator EXCEPT !.pc =
                       IF registry.pending.cancelled THEN "cancelling" ELSE "starting"]
    /\ UNCHANGED <<tables, registry, preparing, turn, drain, synth, rollback, spent>>

CreateCancelled ==
    /\ creator.pc = "cancelling"
    /\ tables' = IF creator.item = NoItem THEN tables
                 ELSE ProjectCancelled(tables, creator.item)
    /\ RejectCreate("chat_run_cancelled")
    /\ UNCHANGED <<preparing, turn, synth, rollback, spent>>

(* startRun's commit, decided from the tables it finds.                    *)
CreateCommits(r) ==
    /\ creator.pc = "starting"
    /\ tables.run[r] = "absent"
    /\ StartVerdict(DecisionState(tables), creator.item) = "ok"
    /\ tables' = ProjectRunStarted(tables, r, creator.item)
    /\ creator' = [creator EXCEPT !.pc = "committed", !.run = r]
    /\ UNCHANGED <<registry, preparing, turn, drain, synth, rollback, spent>>

CreateRefused ==
    /\ creator.pc = "starting"
    /\ LET verdict == StartVerdict(DecisionState(tables), creator.item) IN
       /\ verdict # "ok"
       /\ RejectCreate(IF verdict = "run_already_active"
                       THEN "chat_run_in_progress" ELSE verdict)
    /\ UNCHANGED <<tables, preparing, turn, synth, rollback, spent>>

Registered(r) == [registry EXCEPT !.active = @ \cup {r}, !.index = r]

CreateRegisters ==
    /\ creator.pc = "committed"
    /\ LET r == creator.run IN
       /\ registry' = [Registered(r) EXCEPT !.pending = NoPending]
       /\ preparing' = preparing \cup {r}
       /\ turn' = [turn EXCEPT ![r] = OpenTurn(creator.item, "executed")]
       /\ drain' = IF creator.item = NoItem THEN drain
                   ELSE [drain EXCEPT !.run = r]
    /\ creator' = IdleCreator
    /\ UNCHANGED <<tables, synth, rollback, spent>>

(* The history and attachments are resolved; executeRun begins and         *)
(* createRun returns, to the drain if the run serves an item. The drain    *)
(* still has that item in its hands while it renumbers the queue.          *)
Prepared(r) ==
    /\ r \in preparing
    /\ preparing' = preparing \ {r}
    /\ drain' = IF drain.run = r THEN [drain EXCEPT !.pc = "renumbering", !.run = NoRun]
                ELSE drain
    /\ UNCHANGED <<tables, registry, creator, turn, synth, rollback, spent>>

(* Resolving them failed: createRun's catch block runs, but the registered *)
(* run stays behind without anything executing it.                         *)
PreparationFailed(r) ==
    /\ PreparationFails
    /\ r \in preparing
    /\ preparing' = preparing \ {r}
    /\ turn' = [turn EXCEPT ![r].pc = IF @ = "open" THEN "abandoned" ELSE @]
    /\ registry' = [registry EXCEPT !.pending = NoPending]
    /\ drain' = LET woken == Scheduled(drain)
                IN  IF drain.run = r THEN DrainAt(woken, "failing") ELSE woken
    /\ UNCHANGED <<tables, creator, synth, rollback, spent>>

-----------------------------------------------------------------------------
(* The completion barrier (completeActiveTurn) of a registered run.        *)

(* The provider's turn ends and the run's write fence is read.             *)
TurnEnds(r, st) ==
    /\ turn[r].pc = "open" /\ r \notin preparing
    /\ turn' = [turn EXCEPT ![r] =
                   IF tables.run[r] = "streaming"
                   THEN [@ EXCEPT !.pc = "settling", !.outcome = st]
                   ELSE [@ EXCEPT !.pc = "durable"]]
    /\ UNCHANGED <<tables, registry, creator, preparing, drain, synth, rollback, spent>>

(* persistTerminalMessageSnapshot, decided from the tables it finds.       *)
TurnSettles(r) ==
    /\ turn[r].pc = "settling"
    /\ IF TerminalVerdict(DecisionState(tables), r) = "ok"
       THEN /\ tables' = ProjectSettled(tables, r, turn[r].outcome, turn[r].item)
            /\ turn' = [turn EXCEPT ![r].pc = "durable"]
       ELSE /\ turn' = [turn EXCEPT ![r].pc = "recovering"]
            /\ UNCHANGED tables
    /\ UNCHANGED <<registry, creator, preparing, drain, synth, rollback, spent>>

TurnFault(r) ==
    /\ turn[r].pc = "settling"
    /\ Spend("fault", MaxFaults)
    /\ turn' = [turn EXCEPT ![r].pc = "recovering"]
    /\ UNCHANGED <<tables, registry, creator, preparing, drain, synth, rollback>>

(* recoverTerminalPersistenceFailure: recover the whole session.           *)
TurnRecovers(r) ==
    /\ turn[r].pc = "recovering"
    /\ tables' = SettleStreaming(tables, "failed")
    /\ turn' = [turn EXCEPT ![r].pc = "durable"]
    /\ UNCHANGED <<registry, creator, preparing, drain, synth, rollback, spent>>

ReleasedUnguarded(r) == [registry EXCEPT !.active = @ \ {r}, !.index = NoRun]
Released(r) == [registry EXCEPT !.active = @ \ {r},
                                !.index = IF @ = r THEN NoRun ELSE @]

(* Recovery failed too: the claim is released, and nothing is handed off.  *)
TurnLost(r) ==
    /\ turn[r].pc = "recovering"
    /\ Spend("fault", MaxFaults)
    /\ registry' = Released(r)
    /\ turn' = [turn EXCEPT ![r].pc = "lost"]
    /\ UNCHANGED <<tables, creator, preparing, drain, synth, rollback>>

(* Release, then notify the subscribers.                                   *)
TurnReleases(r) ==
    /\ turn[r].pc = "durable"
    /\ registry' = Released(r)
    /\ turn' = [turn EXCEPT ![r].pc = "released"]
    /\ UNCHANGED <<tables, creator, preparing, drain, synth, rollback, spent>>

GoalIgnoresQueue(t)  == TRUE
GoalMayFollow(t)     == Pending(t) = {}   \* shouldScheduleRuntimeGoalContinuation

(* After the best-effort bookkeeping, hand off once: to the queue, or, if  *)
(* nothing is pending, to a goal continuation (a later CreateUserRun).     *)
TurnHandsOff(r) ==
    /\ turn[r].pc = "released"
    /\ turn' = [turn EXCEPT ![r].pc = "done"]
    /\ \/ drain' = Scheduled(drain)
       \/ GoalMayFollow(tables) /\ UNCHANGED drain
    /\ UNCHANGED <<tables, registry, creator, preparing, synth, rollback, spent>>

-----------------------------------------------------------------------------
(* The queue drain *)

DrainWakes ==
    /\ drain.wakeups > 0
    /\ drain' = LET d == [drain EXCEPT !.wakeups = @ - 1]
                IN  IF ~Idle(d) THEN [d EXCEPT !.requested = TRUE]
                    ELSE IF Busy THEN d
                    ELSE [d EXCEPT !.pc = "recovering", !.requested = FALSE]
    /\ UNCHANGED <<tables, registry, creator, preparing, turn, synth, rollback, spent>>

DrainRecovers ==
    /\ drain.pc = "recovering"
    /\ tables' = ReleaseOrphans(tables)
    /\ drain' = DrainAt(drain, "picking")
    /\ UNCHANGED <<registry, creator, preparing, turn, synth, rollback, spent>>

DrainPicks ==
    /\ drain.pc = "picking"
    /\ IF Busy \/ Pending(tables) = {}
       THEN drain' = DrainFree(drain, "leaving")
       ELSE \E i \in Pending(tables) :
               drain' = [drain EXCEPT !.pc = "claiming", !.item = i]
    /\ UNCHANGED <<tables, registry, creator, preparing, turn, synth, rollback, spent>>

(* claimQueueItem: the pending row was listed before the commit.           *)
DrainClaims ==
    /\ drain.pc = "claiming"
    /\ IF ClaimVerdict(DecisionState(tables), drain.item) = "ok"
       THEN /\ tables' = ProjectClaimed(tables, drain.item)
            /\ drain' = DrainAt(drain, "creating")
       ELSE /\ drain' = DrainFree(drain, "picking")
            /\ UNCHANGED tables
    /\ UNCHANGED <<registry, creator, preparing, turn, synth, rollback, spent>>

(* createQueuedRun: a refused claim throws before createRun's try block.   *)
DrainCreates ==
    /\ drain.pc = "creating"
    /\ IF CanClaimPending
       THEN BeginCreate(drain.item) /\ drain' = DrainAt(drain, "awaiting")
       ELSE /\ drain' = DrainAt(drain, "releasing")
            /\ UNCHANGED <<registry, creator>>
    /\ UNCHANGED <<tables, preparing, turn, synth, rollback, spent>>

DrainReleases ==
    /\ drain.pc = "releasing"
    /\ tables' = ProjectReleased(tables, drain.item)
    /\ drain' = DrainFree(drain, "leaving")
    /\ UNCHANGED <<registry, creator, preparing, turn, synth, rollback, spent>>

DrainFails ==
    /\ drain.pc = "failing"
    /\ tables' = ProjectFailed(tables, drain.item)
    /\ drain' = DrainFree(drain, "renumbering")
    /\ UNCHANGED <<registry, creator, preparing, turn, synth, rollback, spent>>

(* normalizeSessionQueuePositions: having started a run the drain is done; *)
(* having failed an item it looks for the next.                            *)
DrainRenumbers ==
    /\ drain.pc = "renumbering"
    /\ drain' = DrainFree(drain, IF drain.item = NoItem THEN "picking" ELSE "leaving")
    /\ UNCHANGED <<tables, registry, creator, preparing, turn, synth, rollback, spent>>

(* A commit of the drain's own throws: it leaves through its finally block. *)
DrainFault ==
    /\ \/ drain.pc \in {"recovering", "claiming", "releasing", "failing"}
       \/ drain.pc = "renumbering" /\ drain.item = NoItem
    /\ Spend("fault", MaxFaults)
    /\ drain' = DrainFree(drain, "leaving")
    /\ UNCHANGED <<tables, registry, creator, preparing, turn, synth, rollback>>

(* But the renumbering behind a run the drain has started is inside the    *)
(* try of createQueuedRun: its catch fails the item of that run.           *)
RenumberingFault ==
    /\ RenumberingFails
    /\ drain.pc = "renumbering" /\ drain.item # NoItem
    /\ Spend("fault", MaxFaults)
    /\ drain' = DrainAt(drain, "failing")
    /\ UNCHANGED <<tables, registry, creator, preparing, turn, synth, rollback>>

LeaveReschedules(d) == d.requested \/ (~Busy /\ Pending(tables) # {})

DrainLeaves ==
    /\ drain.pc = "leaving"
    /\ drain' = LET left == [DrainFree(drain, "idle") EXCEPT !.requested = FALSE]
                IN  IF LeaveReschedules(drain) THEN Scheduled(left) ELSE left
    /\ UNCHANGED <<tables, registry, creator, preparing, turn, synth, rollback, spent>>

-----------------------------------------------------------------------------
(* Synthetic turns: neither the pending slot nor maintenance is consulted. *)

Notified(r) == turn[r].pc \in {"released", "done"}

SynthArrives(p) ==
    /\ Idle(synth)
    /\ turn[p].pc \notin {"none", "abandoned"} /\ turn[p].kind = "executed"
    /\ p \notin preparing
    /\ Spend("synth", MaxSynths)
    /\ synth' = [pc |-> IF tables.run[p] = "streaming" THEN "waiting" ELSE "starting",
                 parent |-> p, run |-> NoRun]
    /\ UNCHANGED <<tables, registry, creator, preparing, turn, drain, rollback>>

(* waitForRunCompletion resolves on the parent's terminal notification.    *)
SynthParentEnded ==
    /\ synth.pc = "waiting"
    /\ Notified(synth.parent)
    /\ synth' = [synth EXCEPT !.pc = "starting"]
    /\ UNCHANGED <<tables, registry, creator, preparing, turn, drain, rollback, spent>>

SynthCommits(r) ==
    /\ synth.pc = "starting"
    /\ tables.run[r] = "absent"
    /\ StartVerdict(DecisionState(tables), NoItem) = "ok"
    /\ tables' = ProjectRunStarted(tables, r, NoItem)
    /\ synth' = [synth EXCEPT !.pc = "committed", !.run = r]
    /\ UNCHANGED <<registry, creator, preparing, turn, drain, rollback, spent>>

(* The delivery rejects; the provider's next event tries again.            *)
SynthRefused ==
    /\ synth.pc = "starting"
    /\ StartVerdict(DecisionState(tables), NoItem) # "ok"
    /\ synth' = IdleSynth
    /\ UNCHANGED <<tables, registry, creator, preparing, turn, drain, rollback, spent>>

SynthRegisters ==
    /\ synth.pc = "committed"
    /\ registry' = Registered(synth.run)
    /\ turn' = [turn EXCEPT ![synth.run] = OpenTurn(NoItem, "synthetic")]
    /\ synth' = IdleSynth
    /\ UNCHANGED <<tables, creator, preparing, drain, rollback, spent>>

-----------------------------------------------------------------------------
(* rollbackTurns *)

RollbackEnds ==
    /\ registry' = [registry EXCEPT !.maint = FALSE]
    /\ drain' = Scheduled(drain)
    /\ rollback' = IdleRollback

(* Claim the session; refuse queued work and a streaming tail. The tail    *)
(* ends in the latest run, so it streams whenever some message does.       *)
RollbackBegins(S) ==
    /\ RequestArrives
    /\ Idle(rollback) /\ ~Busy
    /\ S # {} /\ \A r \in S : tables.msg[r] \in Settled
    /\ \A i \in Items : tables.item[i].status \notin {"pending", "running"}
    /\ \A r \in Runs : tables.msg[r] # "streaming"
    /\ Spend("rollback", MaxRollbacks)
    /\ registry' = [registry EXCEPT !.maint = TRUE]
    /\ rollback' = [pc |-> "provider", turns |-> S]
    /\ UNCHANGED <<tables, creator, preparing, turn, drain, synth>>

RollbackProviderDone ==
    /\ rollback.pc = "provider"
    /\ rollback' = [rollback EXCEPT !.pc = "committing"]
    /\ UNCHANGED <<tables, registry, creator, preparing, turn, drain, synth, spent>>

RollbackProviderFails ==
    /\ rollback.pc = "provider"
    /\ RollbackEnds
    /\ UNCHANGED <<tables, creator, preparing, turn, synth, spent>>

(* commitLastTurnRolledBack: the provider has rolled back whether or not   *)
(* the transcript may.                                                     *)
RollbackCommits ==
    /\ rollback.pc = "committing"
    /\ tables' = IF RollbackVerdict(DecisionState(tables)) = "ok"
                 THEN ProjectRolledBack(tables, rollback.turns) ELSE tables
    /\ RollbackEnds
    /\ UNCHANGED <<creator, preparing, turn, synth, spent>>

-----------------------------------------------------------------------------
(* A crash loses everything but the rows. Before the server listens,       *)
(* recovery ends the runs still streaming; then the sessions with pending  *)
(* items are scheduled (resumePersistedSessionQueues). A shutdown first    *)
(* aborts what is registered and not being completed yet (abortAllRuns).   *)

ResumesNothing(t)     == {}
ResumableQueues(t)    == Pending(t)

AbortedAtShutdown   == {r \in registry.active : turn[r].pc \in {"open", "abandoned"}}
InterruptedOutcomes == {"failed"} \cup {"aborted" : r \in AbortedAtShutdown}

CrashAndRestart ==
    /\ Spend("crash", MaxCrashes)
    /\ \E st \in InterruptedOutcomes : tables' = SettleStreaming(tables, st)
    /\ drain' = IF ResumableQueues(tables') # {} THEN Scheduled(IdleDrain) ELSE IdleDrain
    /\ registry' = EmptyRegistry
    /\ creator' = IdleCreator
    /\ preparing' = {}
    /\ turn' = [r \in Runs |-> NoTurn]
    /\ synth' = IdleSynth
    /\ rollback' = IdleRollback

-----------------------------------------------------------------------------
Init ==
    /\ tables = EmptyTables
    /\ registry = EmptyRegistry
    /\ creator = IdleCreator
    /\ preparing = {}
    /\ turn = [r \in Runs |-> NoTurn]
    /\ drain = IdleDrain
    /\ synth = IdleSynth
    /\ rollback = IdleRollback
    /\ spent = [b \in Budgets |-> 0]

Requests == \/ \E i \in Items : Enqueue(i) \/ CancelItem(i)
            \/ CancelSession
            \/ CreateUserRun
            \/ \E S \in SUBSET Runs : RollbackBegins(S)

CreatorSteps == \/ CreateFails \/ CreateChecksCancelled \/ CreateCancelled
                \/ CreateRefused \/ CreateRegisters
                \/ \E r \in Runs : CreateCommits(r)

PrepareSteps(r) == Prepared(r) \/ PreparationFailed(r)

TurnSteps(r) == \/ \E st \in Settled : TurnEnds(r, st)
                \/ TurnSettles(r) \/ TurnRecovers(r)
                \/ TurnReleases(r) \/ TurnHandsOff(r)

DrainSteps == DrainWakes \/ DrainRecovers \/ DrainPicks \/ DrainClaims
              \/ DrainCreates \/ DrainReleases \/ DrainFails \/ DrainRenumbers \/ DrainLeaves

SynthSteps == SynthParentEnded \/ SynthRefused \/ SynthRegisters
              \/ \E r \in Runs : SynthCommits(r)

RollbackSteps == RollbackProviderDone \/ RollbackProviderFails \/ RollbackCommits

Faults == DrainFault \/ RenumberingFault \/ CrashAndRestart
          \/ \E r \in Runs : TurnFault(r) \/ TurnLost(r)

Next ==
    \/ Requests
    \/ CreatorSteps
    \/ \E r \in Runs : PrepareSteps(r) \/ TurnSteps(r) \/ SynthArrives(r)
    \/ DrainSteps
    \/ SynthSteps
    \/ RollbackSteps
    \/ Faults

Spec == Init /\ [][Next]_vars

(* Every handler that has begun keeps going, and a provider ends the turn  *)
(* it executes; nobody is obliged to send a request, and nothing to fail.  *)
Fairness ==
    /\ WF_vars(CreatorSteps)
    /\ \A r \in Runs : WF_vars(PrepareSteps(r)) /\ WF_vars(TurnSteps(r))
    /\ WF_vars(DrainSteps)
    /\ WF_vars(SynthSteps)
    /\ WF_vars(RollbackSteps)

FairSpec == Spec /\ Fairness

-----------------------------------------------------------------------------
TypeOK ==
    /\ tables \in Tables
    /\ registry \in Registries
    /\ creator \in Creators
    /\ preparing \subseteq Runs
    /\ turn \in [Runs -> Turns]
    /\ drain \in Drains
    /\ synth \in Synths
    /\ rollback \in Rollbacks
    /\ spent \in [Budgets -> Nat]

(* The live view follows the durable rows: a streaming run is one that     *)
(* createRun or the synthetic inbox is about to register, or the session's *)
(* index names it and its turn has not settled.  Every admission check     *)
(* (claimPendingRun, the drain, rollback) relies on that index.            *)
StreamingRunIsOwned ==
    \A r \in Streaming(tables) :
        \/ creator.pc = "committed" /\ creator.run = r
        \/ synth.pc = "committed" /\ synth.run = r
        \/ /\ registry.index = r /\ r \in registry.active
           /\ turn[r].pc \in {"open", "settling", "recovering"}

(* A claimed item that no run serves yet is in the drain's hands, so it is *)
(* started, given back, failed or cancelled, never forgotten.              *)
ClaimHasHolder ==
    \A i \in OrphanClaims(tables) :
        /\ drain.item = i
        /\ drain.pc \in {"creating", "awaiting", "releasing", "failing"}

(* Pending work is never left with nobody to look at it: a wakeup is       *)
(* queued, the drain runs, or something that schedules it when it ends is  *)
(* still going on.                                                         *)
QueueIsWatched ==
    Pending(tables) # {} =>
        \/ drain.pc # "idle" \/ drain.wakeups > 0
        \/ creator.pc # "idle" \/ synth.pc = "committed" \/ rollback.pc # "idle"
        \/ \E r \in Runs : turn[r].pc \in {"open", "settling", "recovering",
                                           "durable", "released"}

(* An item and the run that serves it tell the same story, except where a  *)
(* preparation, or the renumbering behind a started run, has failed.       *)
ItemFollowsRun ==
    \A i \in Items : LET it == tables.item[i] IN
        it.run # NoRun =>
            \/ tables.run[it.run] = "streaming" /\ it.status = "running"
            \/ /\ tables.run[it.run] \in Settled
               /\ it.status = QueueTerminalStatus(tables.run[it.run])

(* Nobody but its own turn settles a registered run: when completion reads *)
(* the write fence and commits an await later, and whenever a cancel or a  *)
(* status request looks for a stale registration, the row still streams.   *)
FenceNeverStale ==
    \A r \in registry.active :
        turn[r].pc \in {"open", "settling", "abandoned"} => tables.run[r] = "streaming"

(* Once a drain has recovered, the only claim without a run is its own: a  *)
(* claim that a crash or a fault left behind is pending again.             *)
OnlyDrainClaims ==
    drain.pc \in {"picking", "claiming", "creating", "awaiting", "releasing",
                  "failing", "renumbering"}
        => OrphanClaims(tables) \subseteq {drain.item}

(* With storage faults and failing preparations, a streaming run that no   *)
(* handler will end is one whose preparation failed, and then it keeps the *)
(* session, or whose completion and recovery both failed.                  *)
OrphansAreKnown ==
    \A r \in Streaming(tables) :
        \/ creator.pc = "committed" /\ creator.run = r
        \/ synth.pc = "committed" /\ synth.run = r
        \/ registry.index = r /\ r \in registry.active
           /\ turn[r].pc \in {"open", "settling", "recovering", "abandoned"}
        \/ turn[r].pc = "lost"

(* While a rollback holds the session no run is set up or streaming, so    *)
(* the transcript the provider was told to roll back is the one that is    *)
(* rolled back.                                                            *)
MaintenanceExclusive ==
    rollback.pc # "idle" => /\ registry.maint
                            /\ Idle(creator)
                            /\ Streaming(tables) = {}

(* Nothing changes an item once the run that served it has settled it,     *)
(* with the same two exceptions.                                           *)
ServedItemIsFinal ==
    [][\A i \in Items : LET it == tables.item[i] IN
          it.run # NoRun /\ it.status \in ItemSettled => tables'.item[i] = it]_vars

(* A cancelled item stays cancelled.                                       *)
CancelledIsFinal ==
    [][\A i \in Items : tables.item[i].status = "cancelled"
                        => tables'.item[i].status = "cancelled"]_vars

(* A queued item is eventually served to its end, failed or cancelled, and *)
(* so is one the drain has claimed.                                        *)
QueueDrains ==
    \A i \in Items : tables.item[i].status \in {"pending", "running"}
                     ~> tables.item[i].status \in ItemSettled

(* Every run that starts streaming ends.                                   *)
RunsEnd == \A r \in Runs : tables.run[r] = "streaming" ~> tables.run[r] \in Settled

Flight == INSTANCE SingleFlight
              WITH Outcomes  <- Settled,
                   streaming <- ActiveRun(tables),
                   outcome   <- tables.run,
                   servedBy  <- [i \in Items |-> tables.item[i].run]

SingleFlightSpec == Flight!Spec
=============================================================================
