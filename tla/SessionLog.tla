----------------------------- MODULE SessionLog -----------------------------
(***************************************************************************)
(* One chat session's event log and its writers.                           *)
(*                                                                         *)
(* es/session-actor.ts serialises the commits of a session in a promise    *)
(* chain: on an idle session a task runs inside the call that submits it,  *)
(* otherwise it waits behind the tasks already chained, with the arguments *)
(* its caller read before submitting.  es/commands.ts decides each commit  *)
(* from the projected tables, never by replay; recovery and rebuild do     *)
(* replay.  The module keeps both views, the tables (tables) and the       *)
(* replayed aggregate (replay), so that their agreement can be checked.    *)
(*                                                                         *)
(* The log itself is represented by its replay and, per run, by how many   *)
(* RunStarted and terminal facts it holds.                                 *)
(***************************************************************************)
EXTENDS SessionFacts, Naturals, Sequences, SequencesExt, FiniteSets

CONSTANTS MaxChain,      \* bound: tasks chained behind the one that ran last
          MaxCrashes,    \* bound: process crashes
          StaleReorders  \* BOOLEAN: a reorder may wait behind other commits

ASSUME SessionLogAssumption ==
    /\ MaxChain \in Nat /\ MaxCrashes \in Nat /\ StaleReorders \in BOOLEAN
    /\ IsFiniteSet(Items)

VARIABLES tables,       \* projected rows
          replay,       \* evolveChatSessionState folded over the log
          facts,        \* per run: how many start and terminal facts the log has
          checkpoints,  \* runs with a run_stream_checkpoints row
          chain,        \* the session actor's promise chain
          held,         \* claimed item that the queue drain has not let go of
          overruled,    \* history: items the drain failed although their run had started
          crashes       \* bound counter

vars == <<tables, replay, facts, checkpoints, chain, held, overruled, crashes>>

-----------------------------------------------------------------------------
(* Facts *)

ItemFact(type, i)       == [type |-> type, run |-> NoRun, item |-> i,
                            status |-> "", turns |-> {}]
RunStarted(r, i)        == [type |-> "RunStarted", run |-> r, item |-> i,
                            status |-> "", turns |-> {}]
MessageCompleted(r, st) == [type |-> "AssistantMessageCompleted", run |-> r,
                            item |-> NoItem, status |-> st, turns |-> {}]
RunTerminal(r, st, i)   == [type |-> "RunTerminal", run |-> r, item |-> i,
                            status |-> st, turns |-> {}]
TurnsRolledBack(S)      == [type |-> "LastTurnRolledBack", run |-> NoRun,
                            item |-> NoItem, status |-> "", turns |-> S]

Project(t, e) ==
    CASE e.type = "RunStarted"                -> ProjectRunStarted(t, e.run, e.item)
      [] e.type = "AssistantMessageCompleted" -> ProjectMessageCompleted(t, e.run, e.status)
      [] e.type = "RunTerminal"               -> ProjectRunTerminal(t, e.run, e.status, e.item)
      [] e.type = "QueueItemEnqueued"         -> ProjectEnqueued(t, e.item)
      [] e.type = "QueueItemClaimed"          -> ProjectClaimed(t, e.item)
      [] e.type = "QueueItemReleased"         -> ProjectReleased(t, e.item)
      [] e.type = "QueueItemFailed"           -> ProjectFailed(t, e.item)
      [] e.type = "QueueItemReordered"        -> ProjectReordered(t, e.item)
      [] e.type = "QueueItemCancelled"        -> ProjectCancelled(t, e.item)
      [] e.type = "LastTurnRolledBack"        -> ProjectRolledBack(t, e.turns)

(* The replayed aggregate.  Its active run and queue items are what a      *)
(* command may depend on; message status serves recovery.                  *)
EmptyReplay == [active |-> NoRun,
                item   |-> [i \in Items |-> [status |-> "absent", run |-> NoRun]]]

Evolve(s, e) ==
    CASE e.type = "RunStarted" ->
            [s EXCEPT !.active = e.run,
                      !.item   = [i \in Items |->
                          IF i = e.item THEN [status |-> "running", run |-> e.run]
                                        ELSE @[i]]]
      [] e.type = "RunTerminal" ->
            [s EXCEPT !.active = IF @ = e.run THEN NoRun ELSE @,
                      !.item   = [i \in Items |->
                          IF i = e.item
                          THEN [status |-> QueueTerminalStatus(e.status), run |-> e.run]
                          ELSE @[i]]]
      [] e.type \in {"QueueItemEnqueued", "QueueItemReleased"} ->
            [s EXCEPT !.item[e.item] = [status |-> "pending", run |-> NoRun]]
      [] e.type = "QueueItemClaimed" ->
            [s EXCEPT !.item[e.item] = [status |-> "running", run |-> NoRun]]
      [] e.type = "QueueItemFailed" ->
            [s EXCEPT !.item[e.item].status = "failed"]
      [] e.type = "QueueItemCancelled" ->
            [s EXCEPT !.item[e.item].status = "cancelled"]
      [] e.type = "LastTurnRolledBack" ->
            [s EXCEPT !.active = IF @ \in e.turns THEN NoRun ELSE @]
      [] OTHER -> s

Verdict(s, e) ==
    CASE e.type = "RunStarted"         -> StartVerdict(s, e.item)
      [] e.type = "RunTerminal"        -> TerminalVerdict(s, e.run)
      [] e.type = "QueueItemClaimed"   -> ClaimVerdict(s, e.item)
      [] e.type = "LastTurnRolledBack" -> RollbackVerdict(s)
      [] OTHER                         -> "ok"

(* What a sequence of facts makes of a replayed state, and of the tables.  *)
EvolveAll(s, es) ==
    LET upTo[k \in 0 .. Len(es)] == IF k = 0 THEN s ELSE Evolve(upTo[k - 1], es[k])
    IN  upTo[Len(es)]

ProjectAll(t, es) ==
    LET upTo[k \in 0 .. Len(es)] == IF k = 0 THEN t ELSE Project(upTo[k - 1], es[k])
    IN  upTo[Len(es)]

(* decideChatSessionEvents: the whole batch or nothing.  Each fact is      *)
(* decided from the state that the facts before it leave.                  *)
DecideAll(s, es) ==
    \A k \in DOMAIN es : Verdict(EvolveAll(s, SubSeq(es, 1, k - 1)), es[k]) = "ok"

-----------------------------------------------------------------------------
(* One append transaction: store the facts, project them, and delete the   *)
(* checkpoint of the run it ends.                                          *)

CountFacts(f, es) ==
    [r \in Runs |->
        [started |-> f[r].started
             + Cardinality({k \in DOMAIN es : es[k].type = "RunStarted" /\ es[k].run = r}),
         ended   |-> f[r].ended
             + Cardinality({k \in DOMAIN es : es[k].type = "RunTerminal" /\ es[k].run = r})]]

AppendFacts(es) ==
    /\ tables' = ProjectAll(tables, es)
    /\ replay' = EvolveAll(replay, es)
    /\ facts'  = CountFacts(facts, es)
    /\ checkpoints' = checkpoints \ {es[k].run : k \in {j \in DOMAIN es :
                                                       es[j].type = "RunTerminal"}}

NoAppend == UNCHANGED <<tables, replay, facts, checkpoints>>

(* appendDecidedSessionEvents                                              *)
Admitted(es)      == DecideAll(DecisionState(tables), es)
CommitDecided(es) == IF Admitted(es) THEN AppendFacts(es) ELSE NoAppend

SettleFactsNoMessage(r, st, i) == <<RunTerminal(r, st, i)>>
SettleFacts(r, st, i) == <<MessageCompleted(r, st), RunTerminal(r, st, i)>>

(* ItemFacts: one fact per item of a set, in the order of the table.       *)
ItemFacts(type, S) == LET order == SetToSeq(S)
                      IN  [k \in DOMAIN order |-> ItemFact(type, order[k])]

-----------------------------------------------------------------------------
(* Tasks: what a caller hands to runSessionActorTask.                      *)

Ran == [kind |-> "ran", run |-> NoRun, item |-> NoItem, status |-> "", set |-> {}]

Task(kind)              == [Ran EXCEPT !.kind = kind]
ItemTask(kind, i)       == [Ran EXCEPT !.kind = kind, !.item = i]
StartTask(r, i)         == [Ran EXCEPT !.kind = "start", !.run = r, !.item = i]
FinishTask(r, st, i)    == [Ran EXCEPT !.kind = "finish", !.run = r,
                                       !.status = st, !.item = i]
AbortTask(r)            == [Ran EXCEPT !.kind = "abort", !.run = r]
RecoverTask(r)          == [Ran EXCEPT !.kind = "recover", !.run = r]
ReorderTask(S)          == [Ran EXCEPT !.kind = "reorder", !.set = S]
RollbackTask(S)         == [Ran EXCEPT !.kind = "rollback", !.set = S]

(* The facts a task commits, from the tables it finds when it runs.        *)
TaskFacts(t) ==
    CASE t.kind = "enqueue"  -> <<ItemFact("QueueItemEnqueued", t.item)>>
      [] t.kind = "claim"    -> IF tables.item[t.item].status = "pending"
                                THEN <<ItemFact("QueueItemClaimed", t.item)>> ELSE <<>>
      [] t.kind = "release"  -> <<ItemFact("QueueItemReleased", t.item)>>
      [] t.kind = "fail"     -> <<ItemFact("QueueItemFailed", t.item)>>
      [] t.kind = "cancel"   -> IF Startable(tables.item[t.item])
                                THEN <<ItemFact("QueueItemCancelled", t.item)>> ELSE <<>>
      [] t.kind = "orphans"  -> ItemFacts("QueueItemReleased", OrphanClaims(tables))
      [] t.kind = "reorder"  -> ItemFacts("QueueItemReordered", t.set)
      [] t.kind = "start"    -> <<RunStarted(t.run, t.item)>>
      [] t.kind = "finish"   -> SettleFacts(t.run, t.status, t.item)
      [] t.kind = "abort"    -> IF tables.run[t.run] = "streaming"
                                THEN SettleFacts(t.run, "aborted", ItemOf(tables, t.run))
                                ELSE <<>>
      [] t.kind = "recover"  -> IF tables.run[t.run] = "streaming"
                                THEN SettleFacts(t.run, "failed", ItemOf(tables, t.run))
                                ELSE <<>>
      [] t.kind = "rollback" -> <<TurnsRolledBack(t.set)>>

(* The drain keeps the item it claimed until it has released it, failed it *)
(* or let go of it: createQueuedRun may still reject after the start has   *)
(* committed (run/run-coordinator.ts 355-432).                             *)
HeldAfter(t) ==
    CASE t.kind = "claim" /\ tables.item[t.item].status = "pending" -> t.item
      [] t.kind \in {"release", "fail"}                             -> NoItem
      [] OTHER                                                      -> held

OverruledAfter(t) ==
    IF t.kind = "fail" /\ tables.item[t.item].run # NoRun
    THEN overruled \cup {t.item} ELSE overruled

(* Recovery appends without es/decide.ts (appendValidatedRecoverySession-   *)
(* Events); every other task is decided.                                   *)
Run(t) == /\ IF t.kind = "recover" THEN AppendFacts(TaskFacts(t))
             ELSE CommitDecided(TaskFacts(t))
          /\ held' = HeldAfter(t)
          /\ overruled' = OverruledAfter(t)

NothingRuns == NoAppend /\ UNCHANGED <<held, overruled>>

(* runSessionActorTask                                                     *)
Submit(t) ==
    /\ \/ chain = <<>> /\ Run(t) /\ chain' = <<Ran>>
       \/ /\ chain # <<>> /\ Len(chain) <= MaxChain
          /\ chain' = Append(chain, t)
          /\ NothingRuns
    /\ UNCHANGED crashes

(* The head has run: its entry leaves the map, or the next task runs.      *)
Advance ==
    /\ chain # <<>>
    /\ IF Len(chain) = 1
       THEN chain' = <<>> /\ NothingRuns
       ELSE Run(chain[2]) /\ chain' = Tail(chain)
    /\ UNCHANGED crashes

Queued(kinds) == \E k \in 2..Len(chain) : chain[k].kind \in kinds

-----------------------------------------------------------------------------
(* Callers: what each has read when it submits.                            *)

(* enqueueSessionQueueItem                                                 *)
Enqueue(i) ==
    /\ tables.item[i].status = "absent"
    /\ ~ \E k \in 2..Len(chain) : chain[k] = ItemTask("enqueue", i)
    /\ Submit(ItemTask("enqueue", i))

DrainIdle == ~Queued({"claim", "release", "fail", "orphans"})
             /\ ~ \E k \in 2..Len(chain) : chain[k].kind = "start" /\ chain[k].item # NoItem

(* drainSessionQueue: recover, then claim the pending row it listed.       *)
DrainRecover == DrainIdle /\ held = NoItem /\ OrphanClaims(tables) # {}
                /\ Submit(Task("orphans"))

DrainClaim(i) == DrainIdle /\ held = NoItem /\ i \in Pending(tables)
                 /\ Submit(ItemTask("claim", i))

(* createQueuedRun rejected.  A deferral comes before the start commits    *)
(* and releases the item.  Any other error fails it, also when its run has *)
(* started: so does a renumbering that throws after createQueuedRun.       *)
DrainReleases(i) == DrainIdle /\ held = i /\ tables.item[i].run = NoRun
                    /\ Submit(ItemTask("release", i))

DrainFails(i) == DrainIdle /\ held = i /\ Submit(ItemTask("fail", i))

(* createQueuedRun and the renumbering after it returned, or it found the  *)
(* turn cancelled.  The renumbering re-pends rows it reads as pending in   *)
(* its own task, so it changes nothing here.                               *)
DrainLetsGo ==
    /\ DrainIdle /\ held # NoItem
    /\ tables.item[held].run # NoRun \/ tables.item[held].status = "cancelled"
    /\ held' = NoItem
    /\ NoAppend /\ UNCHANGED <<chain, overruled, crashes>>

FreshRun(r) == tables.run[r] = "absent"
               /\ ~ \E k \in 2..Len(chain) : chain[k].kind = "start" /\ chain[k].run = r

(* startRun, from createRun for a user or queue turn, or from a provider's *)
(* synthetic turn (no queue item).                                         *)
StartRun(r, i) ==
    /\ FreshRun(r)
    /\ i # NoItem => DrainIdle /\ held = i /\ tables.item[i].run = NoRun
    /\ Submit(StartTask(r, i))

(* finalizeActiveRun: the write fence was still streaming.                 *)
FinishRun(r, st) ==
    /\ tables.run[r] = "streaming"
    /\ ~ \E k \in 2..Len(chain) : chain[k].kind = "finish" /\ chain[k].run = r
    /\ Submit(FinishTask(r, st, ItemOf(tables, r)))

(* abortProjectedStreamingRun, for a run nobody in this process owns.      *)
AbortProjected(r) == tables.run[r] = "streaming" /\ Submit(AbortTask(r))

(* recoverTerminalPersistenceFailure: a terminal commit that failed.       *)
RecoverRun(r) == tables.run[r] = "streaming" /\ Submit(RecoverTask(r))

(* cancelSessionQueueItem and createRun's cancelled branch.                *)
CancelItem(i) == Startable(tables.item[i]) /\ Submit(ItemTask("cancel", i))

(* cancelProviderTargetSessionQueuesInTransaction: one transaction of its  *)
(* own, outside the session actor.                                         *)
CancelProviderTarget(S) ==
    /\ S # {}
    /\ \A i \in S : /\ tables.item[i].status \in {"pending", "running"}
                    /\ tables.item[i].run = NoRun
    /\ CommitDecided(ItemFacts("QueueItemCancelled", S))
    /\ UNCHANGED <<chain, held, overruled, crashes>>

(* reorderSessionQueueItems: the ids were checked against the pending rows *)
(* before the positions are recorded.                                      *)
ReorderQueue ==
    /\ Pending(tables) # {}
    /\ StaleReorders \/ chain = <<>>
    /\ Submit(ReorderTask(Pending(tables)))

(* rollbackTurns: nothing queued, and a settled tail.                      *)
Rollback(r) ==
    /\ \A i \in Items : tables.item[i].status \notin {"pending", "running"}
    /\ tables.msg[r] \in Settled
    /\ Submit(RollbackTask({r}))

WriteCheckpointUnfenced(r) ==
    /\ tables.run[r] # "absent"
    /\ checkpoints' = checkpoints \cup {r}
    /\ UNCHANGED <<tables, replay, facts, chain, held, overruled, crashes>>

(* persistStreamingMessageSnapshot: fence and upsert in one step.          *)
WriteCheckpoint(r) ==
    /\ tables.run[r] = "streaming"
    /\ checkpoints' = checkpoints \cup {r}
    /\ UNCHANGED <<tables, replay, facts, chain, held, overruled, crashes>>

(* A crash loses the chain and the drain; startup recovery finalizes every *)
(* run still streaming, bypassing es/decide.ts, before the server listens. *)
CrashAndRecover ==
    /\ crashes < MaxCrashes
    /\ crashes' = crashes + 1
    /\ chain' = <<>>
    /\ held' = NoItem
    /\ UNCHANGED overruled
    /\ IF Streaming(tables) = {} THEN NoAppend
       ELSE LET r == ActiveRun(tables)
            IN  AppendFacts(SettleFacts(r, "failed", ItemOf(tables, r)))

-----------------------------------------------------------------------------
Init ==
    /\ tables = EmptyTables
    /\ replay = EmptyReplay
    /\ facts = [r \in Runs |-> [started |-> 0, ended |-> 0]]
    /\ checkpoints = {}
    /\ chain = <<>>
    /\ held = NoItem
    /\ overruled = {}
    /\ crashes = 0

Next ==
    \/ Advance
    \/ \E i \in Items : Enqueue(i) \/ DrainClaim(i) \/ CancelItem(i)
                      \/ DrainReleases(i) \/ DrainFails(i)
    \/ DrainRecover \/ DrainLetsGo
    \/ \E r \in Runs, i \in Items \cup {NoItem} : StartRun(r, i)
    \/ \E r \in Runs, st \in Settled : FinishRun(r, st)
    \/ \E r \in Runs : AbortProjected(r) \/ RecoverRun(r) \/ Rollback(r)
                      \/ WriteCheckpoint(r)
    \/ \E S \in SUBSET Items : CancelProviderTarget(S)
    \/ ReorderQueue
    \/ CrashAndRecover

Spec == Init /\ [][Next]_vars

-----------------------------------------------------------------------------
Replays   == [active : Runs \cup {NoRun}, item : [Items -> QueueItem]]
FactCount == [Runs -> [started : Nat, ended : Nat]]

ItemKinds == {"enqueue", "claim", "release", "fail", "cancel"}
RunKinds  == {"start", "finish", "abort", "recover"}
SetKinds  == {"orphans", "reorder", "rollback"}

Shape == [kind : {"ran"} \cup ItemKinds \cup RunKinds \cup SetKinds,
          run : Runs \cup {NoRun}, item : Items \cup {NoItem},
          status : Settled \cup {""}, set : SUBSET (Items \cup Runs)]

TypeOK ==
    /\ tables \in Tables /\ replay \in Replays /\ facts \in FactCount
    /\ checkpoints \subseteq Runs
    /\ held \in Items \cup {NoItem} /\ overruled \subseteq Items
    /\ crashes \in 0..MaxCrashes
    /\ Len(chain) <= MaxChain + 1
    /\ \A k \in 1..Len(chain) :
          /\ chain[k] \in Shape
          /\ chain[k].kind \in ItemKinds => chain[k].item \in Items
          /\ chain[k].kind \in RunKinds  => chain[k].run \in Runs

(* A command decides from the tables; replaying the log would give it the  *)
(* same active run and the same queue items (es/commands.ts:126-131).      *)
DecisionsMatchReplay == DecisionState(tables) = replay

(* The log never holds a second start or a second terminal fact for a run, *)
(* never a terminal without a start, and never two runs open at once,      *)
(* whichever of the finisher, a session cancel or recovery ends the run.   *)
OneLifePerRun ==
    /\ \A r \in Runs : facts[r].ended <= facts[r].started /\ facts[r].started <= 1
    /\ Cardinality({r \in Runs : facts[r].ended < facts[r].started}) <= 1

(* A settled run's message tells the same outcome as its run row, unless a *)
(* rollback removed it: the two are projected from different facts.        *)
MessageTellsOutcome ==
    \A r \in Runs : tables.run[r] \in Settled => tables.msg[r] \in {tables.run[r], "absent"}

(* A late snapshot never survives, or follows, the run's terminal fact:    *)
(* what is left in run_stream_checkpoints can always be promoted.          *)
CheckpointsAreLive == \A r \in checkpoints : tables.run[r] = "streaming"

(* An item bound to a run shows how that run stands, whatever release,     *)
(* cancel or reorder is still chained when the run starts or ends.  The    *)
(* one exception is an item that the drain itself failed although its run  *)
(* had started, because the turn's preparation threw after the commit.     *)
ItemTellsOutcome ==
    \A i \in Items : LET it == tables.item[i] IN
        it.run # NoRun /\ ~ (i \in overruled /\ it.status = "failed") =>
            /\ tables.run[it.run] \in Settled =>
                  it.status = QueueTerminalStatus(tables.run[it.run])
            /\ tables.run[it.run] = "streaming" => it.status = "running"
=============================================================================
