------------------------- MODULE ChatSessionProofs --------------------------
(***************************************************************************)
(* ChatSession is well typed and implements SingleFlight, for every set of *)
(* runs and items and every bound: with faults, crashes, cancels and       *)
(* synthetic turns in any number and any order.                            *)
(***************************************************************************)
EXTENDS ChatSession, SessionFactsProofs

(* What each handler has in its hands is what the tables say it is.        *)
DrainLink ==
    /\ drain.pc \in {"claiming", "creating", "awaiting", "releasing", "failing"}
          => drain.item \in Items
    /\ drain.pc \in {"creating", "releasing"} => tables.item[drain.item].run = NoRun
    /\ drain.run # NoRun => drain.pc \in {"awaiting", "failing"}

CreatorLink ==
    /\ creator.pc = "idle" => creator.item = NoItem
    /\ creator.item # NoItem => /\ drain.pc = "awaiting"
                                /\ drain.item = creator.item
                                /\ drain.run = NoRun
    /\ creator.pc # "committed" /\ creator.item # NoItem
          => tables.item[creator.item].run = NoRun
    /\ creator.pc = "committed" => creator.run \in Runs
    /\ creator.pc = "committed" /\ creator.item # NoItem
          => tables.item[creator.item].run = creator.run

TurnLink ==
    \A r \in Runs :
        /\ turn[r].item # NoItem => tables.item[turn[r].item].run = r
        /\ turn[r].pc = "settling" => turn[r].outcome \in Settled

SynthLink == synth.pc = "committed" => synth.run \in Runs

IInv == /\ TypeOK
        /\ TablesOK(tables)
        /\ DrainLink
        /\ CreatorLink
        /\ TurnLink
        /\ SynthLink

-----------------------------------------------------------------------------
(* Helpers of ChatSession. *)

LEMMA ScheduledFacts ==
    ASSUME NEW d \in Drains
    PROVE  /\ Scheduled(d) \in Drains
           /\ Scheduled(d).pc = d.pc
           /\ Scheduled(d).item = d.item
           /\ Scheduled(d).run = d.run
<1>1. MaxWakeups \in Nat
  BY BoundsAssumption
<1>2. CASE d.pc # "idle"
  BY <1>2 DEF Scheduled, Drains
<1>3. CASE d.pc = "idle"
  <2> DEFINE w == IF d.wakeups < MaxWakeups THEN d.wakeups + 1 ELSE d.wakeups
  <2>1. w \in 0..MaxWakeups
    BY <1>1 DEF Drains
  <2>2. Scheduled(d) = [d EXCEPT !.requested = TRUE, !.wakeups = w]
    BY <1>3 DEF Scheduled, Drains
  <2> HIDE DEF w
  <2>3. QED
    BY <2>1, <2>2 DEF Drains
<1>4. QED
  BY <1>2, <1>3

(* Ending the streaming run from outside its turn settles it or, with none *)
(* streaming, changes nothing.                                             *)
LEMMA SettleStreamingFacts ==
    ASSUME NEW t, TablesOK(t), NEW st \in Settled
    PROVE  LET u == SettleStreaming(t, st) IN
           /\ TablesOK(u)
           /\ \A j \in Items : u.item[j].run = t.item[j].run
           /\ \/ u = t
              \/ /\ ActiveRun(t) \in Runs
                 /\ u.run = [t.run EXCEPT ![ActiveRun(t)] = st]
<1> DEFINE r == ActiveRun(t)
<1>1. t \in Tables
  BY DEF TablesOK
<1>2. CASE r = NoRun
  BY <1>2 DEF SettleStreaming
<1>3. CASE r # NoRun
  <2>1. r \in Runs /\ t.run[r] = "streaming"
    BY <1>1, <1>3, ActiveRunFacts
  <2>2. /\ ItemOf(t, r) \in Items \cup {NoItem}
        /\ ItemOf(t, r) # NoItem => t.item[ItemOf(t, r)].run = r
    BY <1>1, <2>1, ItemOfFacts
  <2>3. SettleStreaming(t, st) = ProjectSettled(t, r, st, ItemOf(t, r))
    BY <1>3 DEF SettleStreaming
  <2>4. QED
    BY <2>1, <2>2, <2>3, SettledFacts
<1>4. QED
  BY <1>2, <1>3

-----------------------------------------------------------------------------
(* What a step does to the rows: a run starts, a run ends, or neither; and *)
(* only createRun binds an item.                                           *)

Starts(r, i) ==
    /\ \A q \in Runs : tables.run[q] # "streaming"
    /\ tables.run[r] = "absent"
    /\ tables'.run = [tables.run EXCEPT ![r] = "streaming"]
    /\ i # NoItem => tables.item[i].run = NoRun
    /\ \A j \in Items : tables'.item[j].run = IF j = i THEN r ELSE tables.item[j].run

Ends(r, st) ==
    /\ tables.run[r] = "streaming"
    /\ tables'.run = [tables.run EXCEPT ![r] = st]
    /\ \A j \in Items : tables'.item[j].run = tables.item[j].run

RowsStep ==
    /\ TablesOK(tables')
    /\ \/ SameFlight(tables, tables')
       \/ \E r \in Runs, i \in Items \cup {NoItem} :
             Starts(r, i) /\ (i # NoItem => i = creator.item /\ CreateCommits(r))
       \/ \E r \in Runs, st \in Settled : Ends(r, st)

LEMMA RowsUnchanged == ASSUME TablesOK(tables), UNCHANGED tables
                       PROVE  RowsStep
BY DEF RowsStep, SameFlight

LEMMA RowsSettled ==
    ASSUME TablesOK(tables), NEW st \in Settled, tables' = SettleStreaming(tables, st)
    PROVE  RowsStep
<1> DEFINE r == ActiveRun(tables)
<1>1. /\ TablesOK(tables')
      /\ \A j \in Items : tables'.item[j].run = tables.item[j].run
      /\ tables' = tables \/ (r \in Runs /\ tables'.run = [tables.run EXCEPT ![r] = st])
  BY SettleStreamingFacts
<1>2. CASE tables' = tables
  BY <1>1, <1>2 DEF RowsStep, SameFlight
<1>3. CASE r \in Runs /\ tables'.run = [tables.run EXCEPT ![r] = st]
  <2>1. tables.run[r] = "streaming"
    BY <1>3, ActiveRunFacts, NullsAssumption DEF TablesOK
  <2>2. Ends(r, st)
    BY <1>1, <1>3, <2>1 DEF Ends
  <2>3. QED
    BY <1>1, <1>3, <2>2 DEF RowsStep
<1>4. QED
  BY <1>1, <1>2, <1>3

(* startRun's commit, by createRun or by the synthetic inbox.              *)
LEMMA RowsStarted ==
    ASSUME TablesOK(tables), NEW r \in Runs, NEW i \in Items \cup {NoItem},
           tables.run[r] = "absent",
           StartVerdict(DecisionState(tables), i) = "ok",
           tables' = ProjectRunStarted(tables, r, i)
    PROVE  TablesOK(tables') /\ Starts(r, i)
<1>1. ActiveRun(tables) = NoRun
  BY DEF StartVerdict, DecisionState
<1>2. \A q \in Runs : tables.run[q] # "streaming"
  BY <1>1, ActiveRunFacts DEF TablesOK
<1>3. i # NoItem => tables.item[i].run = NoRun
  BY DEF StartVerdict, DecisionState, Startable, TablesOK, UnclaimedUnbound
<1>4. QED
  BY <1>2, <1>3, StartedFacts DEF Starts

LEMMA Rows == ASSUME IInv, Next PROVE RowsStep
<1> USE DEF IInv
<1>1. ASSUME NEW i \in Items, Enqueue(i) PROVE RowsStep
  <2>1. tables' = SetItem(tables, i, "pending", NoRun) /\ tables.item[i].run = NoRun
    BY <1>1 DEF Enqueue, ProjectEnqueued, TablesOK, UnclaimedUnbound
  <2>2. QED
    BY <2>1, WaitingFacts DEF RowsStep
<1>2. ASSUME NEW i \in Items, CancelItem(i) PROVE RowsStep
  BY <1>2, CancelledFacts DEF CancelItem, RowsStep
<1>3. ASSUME CancelSession PROVE RowsStep
  <2>1. CASE registry.pending.held
    <3>1. registry.pending.item \in Items \cup {NoItem}
      BY DEF TypeOK, Registries, Pendings
    <3>2. CASE registry.pending.item = NoItem
      BY <1>3, <2>1, <3>2, RowsUnchanged DEF CancelSession
    <3>3. CASE registry.pending.item \in Items
      BY <1>3, <2>1, <3>3, CancelledFacts, NullsAssumption DEF CancelSession, RowsStep
    <3>4. QED
      BY <3>1, <3>2, <3>3
  <2>2. CASE ~registry.pending.held
    <3>1. tables' = SettleStreaming(tables, "aborted") /\ "aborted" \in Settled
      BY <1>3, <2>2 DEF CancelSession, Settled
    <3>2. QED
      BY <3>1, RowsSettled
  <2>3. QED
    BY <2>1, <2>2
<1>4. ASSUME \/ CreateUserRun \/ CreateFails \/ CreateChecksCancelled
             \/ CreateRefused \/ CreateRegisters
      PROVE  RowsStep
  BY <1>4, RowsUnchanged DEF CreateUserRun, CreateFails, CreateChecksCancelled,
                             CreateRefused, CreateRegisters
<1>5. ASSUME CreateCancelled PROVE RowsStep
  <2>1. creator.item \in Items \cup {NoItem}
    BY DEF TypeOK, Creators
  <2>2. CASE creator.item = NoItem
    BY <1>5, <2>2, RowsUnchanged DEF CreateCancelled
  <2>3. CASE creator.item \in Items
    BY <1>5, <2>3, CancelledFacts, NullsAssumption DEF CreateCancelled, RowsStep
  <2>4. QED
    BY <2>1, <2>2, <2>3
<1>6. ASSUME NEW r \in Runs, CreateCommits(r) PROVE RowsStep
  <2>1. creator.item \in Items \cup {NoItem}
    BY DEF TypeOK, Creators
  <2>2. QED
    BY <1>6, <2>1, RowsStarted DEF CreateCommits, RowsStep
<1>7. ASSUME NEW r \in Runs,
             \/ Prepared(r) \/ PreparationFailed(r) \/ TurnFault(r) \/ TurnLost(r)
             \/ TurnReleases(r) \/ TurnHandsOff(r) \/ SynthArrives(r)
      PROVE  RowsStep
  BY <1>7, RowsUnchanged DEF Prepared, PreparationFailed, TurnFault, TurnLost,
                             TurnReleases, TurnHandsOff, SynthArrives
<1>8. ASSUME NEW r \in Runs, NEW st \in Settled, TurnEnds(r, st) PROVE RowsStep
  BY <1>8, RowsUnchanged DEF TurnEnds
<1>9. ASSUME NEW r \in Runs, TurnSettles(r) PROVE RowsStep
  <2>1. CASE TerminalVerdict(DecisionState(tables), r) = "ok"
    <3>1. tables' = ProjectSettled(tables, r, turn[r].outcome, turn[r].item)
      BY <1>9, <2>1 DEF TurnSettles
    <3>2. ActiveRun(tables) = r
      BY <2>1 DEF TerminalVerdict, DecisionState
    <3>3. tables.run[r] = "streaming"
      BY <3>2, ActiveRunFacts, NullsAssumption DEF TablesOK
    <3>4. turn[r].item \in Items \cup {NoItem}
      BY DEF TypeOK, Turns
    <3>5. turn[r].outcome \in Settled /\ (turn[r].item # NoItem
                                          => tables.item[turn[r].item].run = r)
      BY <1>9 DEF TurnLink, TurnSettles
    <3>6. TablesOK(tables') /\ Ends(r, turn[r].outcome)
      BY <3>1, <3>3, <3>4, <3>5, SettledFacts DEF Ends
    <3>7. QED
      BY <3>5, <3>6 DEF RowsStep
  <2>2. CASE TerminalVerdict(DecisionState(tables), r) # "ok"
    BY <1>9, <2>2, RowsUnchanged DEF TurnSettles
  <2>3. QED
    BY <2>1, <2>2
<1>10. ASSUME NEW r \in Runs, TurnRecovers(r) PROVE RowsStep
  <2>1. tables' = SettleStreaming(tables, "failed") /\ "failed" \in Settled
    BY <1>10 DEF TurnRecovers, Settled
  <2>2. QED
    BY <2>1, RowsSettled
<1>11. ASSUME \/ DrainWakes \/ DrainPicks \/ DrainCreates \/ DrainLeaves
              \/ DrainRenumbers \/ DrainFault \/ RenumberingFault
       PROVE  RowsStep
  BY <1>11, RowsUnchanged DEF DrainWakes, DrainPicks, DrainCreates, DrainLeaves,
                              DrainRenumbers, DrainFault, RenumberingFault
<1>12. ASSUME DrainRecovers PROVE RowsStep
  BY <1>12, OrphansFacts DEF DrainRecovers, RowsStep
<1>13. ASSUME DrainClaims PROVE RowsStep
  <2>1. drain.item \in Items /\ "running" \in ItemStatus \ {"absent", "pending"}
    BY <1>13 DEF DrainClaims, DrainLink, ItemStatus
  <2>2. CASE ClaimVerdict(DecisionState(tables), drain.item) = "ok"
    BY <1>13, <2>1, <2>2, StatusFacts DEF DrainClaims, ProjectClaimed, RowsStep
  <2>3. CASE ClaimVerdict(DecisionState(tables), drain.item) # "ok"
    BY <1>13, <2>3, RowsUnchanged DEF DrainClaims
  <2>4. QED
    BY <2>2, <2>3
<1>14. ASSUME DrainReleases PROVE RowsStep
  <2>1. drain.item \in Items /\ tables.item[drain.item].run = NoRun
    BY <1>14 DEF DrainReleases, DrainLink
  <2>2. tables' = SetItem(tables, drain.item, "pending", NoRun)
    BY <1>14 DEF DrainReleases, ProjectReleased
  <2>3. QED
    BY <2>1, <2>2, WaitingFacts DEF RowsStep
<1>15. ASSUME DrainFails PROVE RowsStep
  <2>1. drain.item \in Items /\ "failed" \in ItemStatus \ {"absent", "pending"}
    BY <1>15 DEF DrainFails, DrainLink, ItemStatus
  <2>2. QED
    BY <1>15, <2>1, StatusFacts DEF DrainFails, ProjectFailed, RowsStep
<1>16. ASSUME SynthParentEnded \/ SynthRefused \/ SynthRegisters PROVE RowsStep
  BY <1>16, RowsUnchanged DEF SynthParentEnded, SynthRefused, SynthRegisters
<1>17. ASSUME NEW r \in Runs, SynthCommits(r) PROVE RowsStep
  BY <1>17, RowsStarted DEF SynthCommits, RowsStep
<1>18. ASSUME \/ \E S \in SUBSET Runs : RollbackBegins(S)
              \/ RollbackProviderDone \/ RollbackProviderFails
       PROVE  RowsStep
  BY <1>18, RowsUnchanged DEF RollbackBegins, RollbackProviderDone, RollbackProviderFails
<1>19. ASSUME RollbackCommits PROVE RowsStep
  <2>1. rollback.turns \in SUBSET Runs
    BY DEF TypeOK, Rollbacks
  <2>2. CASE RollbackVerdict(DecisionState(tables)) = "ok"
    BY <1>19, <2>1, <2>2, RolledBackFacts DEF RollbackCommits, RowsStep
  <2>3. CASE RollbackVerdict(DecisionState(tables)) # "ok"
    BY <1>19, <2>3, RowsUnchanged DEF RollbackCommits
  <2>4. QED
    BY <2>2, <2>3
<1>20. ASSUME CrashAndRestart PROVE RowsStep
  <2>1. PICK st \in Settled : tables' = SettleStreaming(tables, st)
    BY <1>20 DEF CrashAndRestart, InterruptedOutcomes, Settled
  <2>2. QED
    BY <2>1, RowsSettled
<1>21. QED
  BY <1>1, <1>2, <1>3, <1>4, <1>5, <1>6, <1>7, <1>8, <1>9, <1>10, <1>11, <1>12,
     <1>13, <1>14, <1>15, <1>16, <1>17, <1>18, <1>19, <1>20
     DEF Next, Requests, CreatorSteps, PrepareSteps, TurnSteps, DrainSteps,
         SynthSteps, RollbackSteps, Faults

(* An item keeps its run; only createRun gives it one.                     *)
LEMMA Bindings ==
    ASSUME IInv, Next, NEW j \in Items
    PROVE  /\ tables.item[j].run # NoRun => tables'.item[j].run = tables.item[j].run
           /\ (~ \E r \in Runs : CreateCommits(r))
                 => tables'.item[j].run = tables.item[j].run
<1>1. RowsStep
  BY Rows
<1>2. CASE SameFlight(tables, tables')
  BY <1>2 DEF SameFlight
<1>3. ASSUME NEW r \in Runs, NEW i \in Items \cup {NoItem}, Starts(r, i),
             i # NoItem => i = creator.item /\ CreateCommits(r)
      PROVE  /\ tables.item[j].run # NoRun => tables'.item[j].run = tables.item[j].run
             /\ (~ \E q \in Runs : CreateCommits(q))
                   => tables'.item[j].run = tables.item[j].run
  BY <1>3, NullsAssumption DEF Starts
<1>4. ASSUME NEW r \in Runs, NEW st \in Settled, Ends(r, st)
      PROVE  tables'.item[j].run = tables.item[j].run
  BY <1>4 DEF Ends
<1>5. QED
  BY <1>1, <1>2, <1>3, <1>4 DEF RowsStep

-----------------------------------------------------------------------------
(* Types. *)

LEMMA SpendType ==
    ASSUME spent \in [Budgets -> Nat], NEW b \in Budgets, NEW max, Spend(b, max)
    PROVE  spent' \in [Budgets -> Nat]
BY DEF Spend

LEMMA RegistryTypes ==
    ASSUME registry \in Registries, NEW r \in Runs
    PROVE  /\ Registered(r) \in Registries
           /\ [Registered(r) EXCEPT !.pending = NoPending] \in Registries
           /\ Released(r) \in Registries
           /\ [registry EXCEPT !.pending = NoPending] \in Registries
           /\ \A b \in BOOLEAN : [registry EXCEPT !.maint = b] \in Registries
           /\ [registry EXCEPT !.pending.cancelled = TRUE] \in Registries
BY DEF Registries, Pendings, Registered, Released, NoPending

LEMMA DrainTypes ==
    ASSUME NEW d \in Drains, NEW pc \in {"idle", "recovering", "picking", "claiming",
               "creating", "awaiting", "releasing", "failing", "renumbering", "leaving"}
    PROVE  DrainAt(d, pc) \in Drains /\ DrainFree(d, pc) \in Drains
BY DEF DrainAt, DrainFree, Drains

LEMMA TurnTypes ==
    ASSUME turn \in [Runs -> Turns], NEW r \in Runs,
           NEW pc \in {"none", "open", "settling", "recovering", "durable",
                       "released", "done", "abandoned", "lost"}
    PROVE  [turn EXCEPT ![r].pc = pc] \in [Runs -> Turns]
BY DEF Turns

LEMMA InitialTypes ==
    /\ EmptyRegistry \in Registries
    /\ IdleCreator \in Creators
    /\ NoTurn \in Turns
    /\ IdleDrain \in Drains
    /\ IdleSynth \in Synths
    /\ IdleRollback \in Rollbacks
<1>1. EmptyRegistry \in Registries
  BY DEF EmptyRegistry, Registries, Pendings, NoPending
<1>2. IdleCreator \in Creators
  BY DEF IdleCreator, Creators
<1>3. NoTurn \in Turns
  BY DEF NoTurn, OpenTurn, Turns, RunStatus
<1>4. IdleDrain \in Drains
  BY BoundsAssumption DEF IdleDrain, Drains
<1>5. IdleSynth \in Synths /\ IdleRollback \in Rollbacks
  BY DEF IdleSynth, Synths, IdleRollback, Rollbacks
<1>6. QED
  BY <1>1, <1>2, <1>3, <1>4, <1>5

LEMMA TypesKept == ASSUME IInv, Next PROVE TypeOK'
<1> USE DEF IInv, TypeOK
<1>0. tables' \in Tables
  BY Rows DEF RowsStep, TablesOK
<1>s. Scheduled(drain) \in Drains
  BY ScheduledFacts
<1>b. \A b \in {"user", "synth", "cancel", "rollback", "crash", "fault"} : b \in Budgets
  BY DEF Budgets
<1>1. ASSUME NEW i \in Items, Enqueue(i) PROVE TypeOK'
  BY <1>0, <1>s, <1>1 DEF Enqueue
<1>2. ASSUME NEW i \in Items, CancelItem(i) PROVE TypeOK'
  BY <1>0, <1>b, <1>2, SpendType DEF CancelItem
<1>3. ASSUME CancelSession PROVE TypeOK'
  <2>1. registry' \in Registries
    <3>1. registry' \in {registry, [registry EXCEPT !.pending.cancelled = TRUE]}
      BY <1>3 DEF CancelSession
    <3>2. [registry EXCEPT !.pending.cancelled = TRUE] \in Registries
      BY DEF Registries, Pendings
    <3>3. QED
      BY <3>1, <3>2
  <2>2. QED
    BY <1>0, <1>b, <1>3, <2>1, SpendType DEF CancelSession
<1>4. ASSUME NEW i \in Items \cup {NoItem}, BeginCreate(i)
      PROVE  registry' \in Registries /\ creator' \in Creators
  BY <1>4 DEF BeginCreate, Registries, Pendings, Creators
<1>5. ASSUME CreateUserRun PROVE TypeOK'
  BY <1>0, <1>b, <1>4, <1>5, SpendType DEF CreateUserRun
<1>6. ASSUME NEW code, RejectCreate(code)
      PROVE  drain' \in Drains /\ registry' \in Registries /\ creator' \in Creators
  <2>1. AfterError(code) \in {"leaving", "releasing", "failing"}
    BY DEF AfterError
  <2>2. drain' \in Drains
    BY <1>6, <1>s, <2>1, DrainTypes DEF RejectCreate
  <2>3. QED
    BY <1>6, <2>2, InitialTypes, RegistryTypes DEF RejectCreate, Registries, NoPending, Pendings
<1>7. ASSUME CreateFails \/ CreateCancelled \/ CreateRefused PROVE TypeOK'
  <2>1. PICK code : RejectCreate(code)
    BY <1>7 DEF CreateFails, CreateCancelled, CreateRefused
  <2>2. QED
    BY <1>0, <1>6, <1>7, <2>1 DEF CreateFails, CreateCancelled, CreateRefused
<1>8. ASSUME CreateChecksCancelled PROVE TypeOK'
  BY <1>0, <1>8 DEF CreateChecksCancelled, Creators
<1>9. ASSUME NEW r \in Runs, CreateCommits(r) PROVE TypeOK'
  BY <1>0, <1>9 DEF CreateCommits, Creators
<1>10. ASSUME CreateRegisters PROVE TypeOK'
  <2>1. creator.run \in Runs /\ creator.item \in Items \cup {NoItem}
    BY <1>10 DEF CreateRegisters, CreatorLink, Creators
  <2>2. registry' \in Registries /\ preparing' \subseteq Runs /\ creator' \in Creators
    BY <1>10, <2>1, RegistryTypes, InitialTypes DEF CreateRegisters
  <2>3. turn' \in [Runs -> Turns]
    BY <1>10, <2>1 DEF CreateRegisters, OpenTurn, Turns, RunStatus
  <2>4. drain' \in Drains
    BY <1>10, <2>1 DEF CreateRegisters, Drains
  <2>5. QED
    BY <1>0, <1>10, <2>2, <2>3, <2>4 DEF CreateRegisters
<1>11. ASSUME NEW r \in Runs, Prepared(r) PROVE TypeOK'
  <2>1. [drain EXCEPT !.pc = "renumbering", !.run = NoRun] \in Drains
    BY DEF Drains
  <2>2. drain' \in Drains
    BY <1>11, <2>1 DEF Prepared
  <2>3. QED
    BY <1>0, <1>11, <2>2 DEF Prepared
<1>12. ASSUME NEW r \in Runs, PreparationFailed(r) PROVE TypeOK'
  <2>1. turn' \in [Runs -> Turns]
    BY <1>12 DEF PreparationFailed, Turns
  <2>2. drain' \in Drains
    BY <1>12, <1>s, DrainTypes DEF PreparationFailed
  <2>3. QED
    BY <1>0, <1>12, <2>1, <2>2, RegistryTypes DEF PreparationFailed
<1>13. ASSUME NEW r \in Runs, NEW st \in Settled, TurnEnds(r, st) PROVE TypeOK'
  <2>1. turn' \in [Runs -> Turns]
    BY <1>13 DEF TurnEnds, Turns, RunStatus
  <2>2. QED
    BY <1>0, <1>13, <2>1 DEF TurnEnds
<1>14. ASSUME NEW r \in Runs, TurnSettles(r) \/ TurnRecovers(r) PROVE TypeOK'
  <2>1. turn' \in [Runs -> Turns]
    BY <1>14 DEF TurnSettles, TurnRecovers, Turns
  <2>2. QED
    BY <1>0, <1>14, <2>1 DEF TurnSettles, TurnRecovers
<1>15. ASSUME NEW r \in Runs, TurnFault(r) \/ TurnLost(r) \/ TurnReleases(r) PROVE TypeOK'
  <2>1. turn' \in [Runs -> Turns]
    BY <1>15 DEF TurnFault, TurnLost, TurnReleases, Turns
  <2>2. registry' \in Registries
    BY <1>15, RegistryTypes DEF TurnFault, TurnLost, TurnReleases
  <2>3. spent' \in [Budgets -> Nat]
    BY <1>b, <1>15, SpendType DEF TurnFault, TurnLost, TurnReleases
  <2>4. QED
    BY <1>0, <1>15, <2>1, <2>2, <2>3 DEF TurnFault, TurnLost, TurnReleases
<1>16. ASSUME NEW r \in Runs, TurnHandsOff(r) PROVE TypeOK'
  BY <1>0, <1>s, <1>16, TurnTypes DEF TurnHandsOff
<1>17. ASSUME DrainWakes PROVE TypeOK'
  <2> DEFINE d == [drain EXCEPT !.wakeups = @ - 1]
  <2>1. d \in Drains
    BY <1>17, BoundsAssumption DEF DrainWakes, Drains
  <2>2. /\ [d EXCEPT !.requested = TRUE] \in Drains
        /\ [d EXCEPT !.pc = "recovering", !.requested = FALSE] \in Drains
    <3> HIDE DEF d
    <3>1. QED
      BY <2>1 DEF Drains
  <2>3. drain' \in Drains
    BY <1>17, <2>1, <2>2 DEF DrainWakes
  <2>4. QED
    BY <1>0, <1>17, <2>3 DEF DrainWakes
<1>18. ASSUME \/ DrainRecovers \/ DrainClaims \/ DrainReleases
              \/ DrainFails \/ DrainRenumbers
       PROVE  TypeOK'
  BY <1>0, <1>18, DrainTypes DEF DrainRecovers, DrainClaims, DrainReleases, DrainFails,
                                 DrainRenumbers
<1>19. ASSUME DrainPicks PROVE TypeOK'
  <2>1. drain' \in Drains
    <3>1. CASE Busy \/ Pending(tables) = {}
      BY <1>19, <3>1, DrainTypes DEF DrainPicks
    <3>2. CASE ~(Busy \/ Pending(tables) = {})
      <4>1. PICK i \in Items : drain' = [drain EXCEPT !.pc = "claiming", !.item = i]
        BY <1>19, <3>2 DEF DrainPicks, Pending
      <4>2. QED
        BY <4>1 DEF Drains
    <3>3. QED
      BY <3>1, <3>2
  <2>2. QED
    BY <1>0, <1>19, <2>1 DEF DrainPicks
<1>20. ASSUME DrainCreates PROVE TypeOK'
  <2>1. drain.item \in Items \cup {NoItem}
    BY DEF Drains
  <2>2. registry' \in Registries /\ creator' \in Creators
    BY <1>4, <1>20, <2>1 DEF DrainCreates
  <2>3. QED
    BY <1>0, <1>20, <2>2, DrainTypes DEF DrainCreates
<1>21. ASSUME DrainFault \/ RenumberingFault PROVE TypeOK'
  BY <1>0, <1>b, <1>21, DrainTypes, SpendType DEF DrainFault, RenumberingFault
<1>22. ASSUME DrainLeaves PROVE TypeOK'
  <2> DEFINE left == [DrainFree(drain, "idle") EXCEPT !.requested = FALSE]
  <2>1. left \in Drains
    BY DEF DrainFree, Drains
  <2> HIDE DEF left
  <2>2. drain' \in Drains
    BY <1>22, <2>1, ScheduledFacts DEF DrainLeaves, left
  <2>3. QED
    BY <1>0, <1>22, <2>2 DEF DrainLeaves
<1>23. ASSUME NEW r \in Runs, SynthArrives(r) PROVE TypeOK'
  BY <1>0, <1>b, <1>23, SpendType DEF SynthArrives, Synths
<1>24. ASSUME SynthParentEnded \/ SynthRefused \/ \E r \in Runs : SynthCommits(r)
       PROVE  TypeOK'
  BY <1>0, <1>24, InitialTypes DEF SynthParentEnded, SynthRefused, SynthCommits, Synths
<1>25. ASSUME SynthRegisters PROVE TypeOK'
  <2>1. synth.run \in Runs
    BY <1>25 DEF SynthRegisters, SynthLink
  <2>2. turn' \in [Runs -> Turns]
    BY <1>25, <2>1 DEF SynthRegisters, OpenTurn, Turns, RunStatus
  <2>3. QED
    BY <1>0, <1>25, <2>1, <2>2, RegistryTypes, InitialTypes DEF SynthRegisters
<1>26. ASSUME NEW S \in SUBSET Runs, RollbackBegins(S) PROVE TypeOK'
  BY <1>0, <1>b, <1>26, SpendType, RegistryTypes DEF RollbackBegins, Rollbacks
<1>27. ASSUME RollbackProviderDone PROVE TypeOK'
  BY <1>0, <1>27 DEF RollbackProviderDone, Rollbacks
<1>28. ASSUME RollbackProviderFails \/ RollbackCommits PROVE TypeOK'
  <2>1. registry' \in Registries
    BY <1>28 DEF RollbackProviderFails, RollbackCommits, RollbackEnds, Registries
  <2>2. QED
    BY <1>0, <1>s, <1>28, <2>1, InitialTypes
       DEF RollbackProviderFails, RollbackCommits, RollbackEnds
<1>29. ASSUME CrashAndRestart PROVE TypeOK'
  <2>1. drain' \in Drains
    BY <1>29, InitialTypes, ScheduledFacts DEF CrashAndRestart
  <2>2. spent' \in [Budgets -> Nat]
    BY <1>b, <1>29, SpendType DEF CrashAndRestart
  <2>3. QED
    BY <1>0, <1>29, <2>1, <2>2, InitialTypes DEF CrashAndRestart
<1>30. QED
  BY <1>1, <1>2, <1>3, <1>5, <1>7, <1>8, <1>9, <1>10, <1>11, <1>12, <1>13, <1>14,
     <1>15, <1>16, <1>17, <1>18, <1>19, <1>20, <1>21, <1>22, <1>23, <1>24, <1>25,
     <1>26, <1>27, <1>28, <1>29
     DEF Next, Requests, CreatorSteps, PrepareSteps, TurnSteps, DrainSteps,
         SynthSteps, RollbackSteps, Faults

-----------------------------------------------------------------------------
(* What the handlers hold. *)

SameItems == \A j \in Items : tables'.item[j].run = tables.item[j].run

(* The drain's item.                                                       *)
LEMMA DrainLinkKept == ASSUME IInv, Next PROVE DrainLink'
<1> USE DEF IInv
<1>s. /\ Scheduled(drain).pc = drain.pc
      /\ Scheduled(drain).item = drain.item
      /\ Scheduled(drain).run = drain.run
  BY ScheduledFacts DEF TypeOK
<1>t. drain \in Drains
  BY DEF TypeOK
<1>1. ASSUME NEW r \in Runs, CreateCommits(r) PROVE DrainLink'
  <2>1. drain' = drain
    BY <1>1 DEF CreateCommits
  <2>2. CASE creator.item = NoItem
    <3>1. tables' = ProjectRunStarted(tables, r, NoItem)
      BY <1>1, <2>2 DEF CreateCommits
    <3>2. TablesOK(tables') /\ Starts(r, NoItem)
      BY <1>1, <2>2, <3>1, RowsStarted DEF CreateCommits
    <3>3. SameItems
      BY <3>2, NullsAssumption DEF Starts, SameItems
    <3>4. QED
      BY <2>1, <3>3 DEF DrainLink, SameItems
  <2>3. CASE creator.item # NoItem
    BY <2>1, <2>3 DEF DrainLink, CreatorLink
  <2>4. QED
    BY <2>2, <2>3
<1>2. CASE ~ \E r \in Runs : CreateCommits(r)
  <2>1. SameItems
    BY <1>2, Bindings DEF SameItems
  <2>2. CASE drain' = drain
    BY <2>1, <2>2 DEF DrainLink, SameItems
  <2>3. CASE drain' = Scheduled(drain)
    BY <1>s, <2>1, <2>3 DEF DrainLink, SameItems
  <2>4. CASE drain'.pc \in {"idle", "recovering", "picking", "renumbering", "leaving"}
             /\ drain'.run = NoRun
    BY <2>4 DEF DrainLink
  <2>5. ASSUME NEW code, RejectCreate(code), creator.pc # "committed" PROVE DrainLink'
    <3> DEFINE woken == IF creator.item # NoItem /\ registry.pending.cancelled
                           /\ code = "chat_run_cancelled" THEN drain ELSE Scheduled(drain)
    <3>1. /\ woken.pc = drain.pc /\ woken.item = drain.item /\ woken.run = drain.run
          /\ woken \in Drains
      BY <1>s, <1>t, ScheduledFacts
    <3>2. drain' = IF creator.item = NoItem THEN woken ELSE DrainAt(woken, AfterError(code))
      BY <2>5 DEF RejectCreate
    <3>3. AfterError(code) \in {"leaving", "releasing", "failing"}
      BY DEF AfterError
    <3> HIDE DEF woken
    <3>4. CASE creator.item = NoItem
      BY <2>1, <3>1, <3>2, <3>4 DEF DrainLink, SameItems
    <3>5. CASE creator.item # NoItem
      <4>1. /\ drain'.pc = AfterError(code)
            /\ drain'.item = drain.item
            /\ drain'.run = drain.run
        BY <3>1, <3>2, <3>5 DEF DrainAt, Drains
      <4>2. /\ drain.item \in Items /\ drain.item = creator.item
            /\ drain.run = NoRun /\ tables.item[drain.item].run = NoRun
        BY <2>5, <3>5 DEF DrainLink, CreatorLink
      <4>3. QED
        BY <2>1, <3>3, <4>1, <4>2 DEF DrainLink, SameItems
    <3>6. QED
      BY <3>4, <3>5
  <2>6. ASSUME CreateFails \/ CreateCancelled \/ CreateRefused PROVE DrainLink'
    <3>1. PICK code : RejectCreate(code)
      BY <2>6 DEF CreateFails, CreateCancelled, CreateRefused
    <3>2. creator.pc # "committed"
      BY <2>6 DEF CreateFails, CreateCancelled, CreateRefused
    <3>3. QED
      BY <2>5, <3>1, <3>2
  <2>7. ASSUME CreateRegisters PROVE DrainLink'
    <3>1. CASE creator.item = NoItem
      BY <2>2, <2>7, <3>1 DEF CreateRegisters
    <3>2. CASE creator.item # NoItem
      <4>1. drain' = [drain EXCEPT !.run = creator.run]
        BY <2>7, <3>2 DEF CreateRegisters
      <4>2. drain'.pc = "awaiting" /\ drain'.item = drain.item
        BY <1>t, <3>2, <4>1 DEF Drains, CreatorLink
      <4>3. QED
        BY <3>2, <4>2 DEF DrainLink, CreatorLink
    <3>3. QED
      BY <3>1, <3>2
  <2>8. ASSUME NEW r \in Runs, Prepared(r) PROVE DrainLink'
    <3>1. drain' = drain \/ (drain'.pc = "renumbering" /\ drain'.run = NoRun)
      BY <1>t, <2>8 DEF Prepared, Drains
    <3>2. QED
      BY <2>2, <2>4, <3>1
  <2>9. ASSUME NEW r \in Runs, PreparationFailed(r) PROVE DrainLink'
    <3>1. CASE drain.run # r
      BY <2>3, <2>9, <3>1 DEF PreparationFailed
    <3>2. CASE drain.run = r
      <4>1. drain' = DrainAt(Scheduled(drain), "failing") /\ Scheduled(drain) \in Drains
        BY <1>t, <2>9, <3>2, ScheduledFacts DEF PreparationFailed
      <4>2. drain'.pc = "failing" /\ drain'.item = drain.item
        BY <1>s, <4>1 DEF DrainAt, Drains
      <4>3. drain.item \in Items
        BY <3>2, NullsAssumption DEF DrainLink
      <4>4. QED
        BY <4>2, <4>3 DEF DrainLink
    <3>3. QED
      BY <3>1, <3>2
  <2>10. ASSUME DrainWakes PROVE DrainLink'
    <3>1. /\ drain'.item = drain.item /\ drain'.run = drain.run
          /\ drain'.pc = drain.pc \/ (drain.pc = "idle" /\ drain'.pc = "recovering")
      BY <1>t, <2>10 DEF DrainWakes, Drains, Idle
    <3>2. QED
      BY <2>1, <3>1 DEF DrainLink, SameItems
  <2>11. ASSUME DrainRecovers PROVE DrainLink'
    BY <1>t, <2>4, <2>11 DEF DrainRecovers, DrainAt, Drains, DrainLink
  <2>12. ASSUME DrainPicks PROVE DrainLink'
    <3>1. CASE Busy \/ Pending(tables) = {}
      BY <1>t, <2>4, <2>12, <3>1 DEF DrainPicks, DrainFree, Drains
    <3>2. CASE ~(Busy \/ Pending(tables) = {})
      <4>1. PICK i \in Items : drain' = [drain EXCEPT !.pc = "claiming", !.item = i]
        BY <2>12, <3>2 DEF DrainPicks, Pending
      <4>2. drain'.pc = "claiming" /\ drain'.item = i /\ drain'.run = NoRun
        BY <1>t, <2>12, <4>1 DEF DrainPicks, DrainLink, Drains
      <4>3. QED
        BY <4>2 DEF DrainLink
    <3>3. QED
      BY <3>1, <3>2
  <2>13. ASSUME DrainClaims PROVE DrainLink'
    <3>1. drain.item \in Items /\ drain.run = NoRun
      BY <2>13 DEF DrainClaims, DrainLink
    <3>2. CASE ClaimVerdict(DecisionState(tables), drain.item) = "ok"
      <4>1. tables.item[drain.item].run = NoRun
        BY <3>1, <3>2 DEF ClaimVerdict, DecisionState, TablesOK, UnclaimedUnbound
      <4>2. drain'.pc = "creating" /\ drain'.item = drain.item /\ drain'.run = drain.run
        BY <1>t, <2>13, <3>2 DEF DrainClaims, DrainAt, Drains
      <4>3. QED
        BY <2>1, <3>1, <4>1, <4>2 DEF DrainLink, SameItems
    <3>3. CASE ClaimVerdict(DecisionState(tables), drain.item) # "ok"
      BY <1>t, <2>4, <2>13, <3>3 DEF DrainClaims, DrainFree, Drains
    <3>4. QED
      BY <3>2, <3>3
  <2>14. ASSUME DrainCreates PROVE DrainLink'
    <3>1. /\ drain'.pc \in {"awaiting", "releasing"}
          /\ drain'.item = drain.item /\ drain'.run = drain.run
      BY <1>t, <2>14 DEF DrainCreates, DrainAt, Drains
    <3>2. drain.pc = "creating"
      BY <2>14 DEF DrainCreates
    <3>3. QED
      BY <2>1, <3>1, <3>2 DEF DrainLink, SameItems
  <2>15. ASSUME \/ DrainReleases \/ DrainFails \/ DrainRenumbers
                \/ DrainFault \/ RenumberingFault \/ DrainLeaves
         PROVE  DrainLink'
    <3>1. CASE DrainLeaves
      <4> DEFINE left == [DrainFree(drain, "idle") EXCEPT !.requested = FALSE]
      <4>1. left \in Drains /\ left.pc = "idle" /\ left.run = NoRun
        BY <1>t DEF DrainFree, Drains
      <4>2. drain' = left \/ drain' = Scheduled(left)
        BY <3>1 DEF DrainLeaves
      <4> HIDE DEF left
      <4>3. drain'.pc = "idle" /\ drain'.run = NoRun
        BY <4>1, <4>2, ScheduledFacts
      <4>4. QED
        BY <2>4, <4>3
    <3>2. CASE DrainReleases \/ DrainFails \/ DrainRenumbers \/ DrainFault
      BY <1>t, <2>4, <3>2 DEF DrainReleases, DrainFails, DrainRenumbers, DrainFault,
                              DrainFree, Drains
    <3>3. CASE RenumberingFault
      <4>1. drain.item \in Items /\ drain.run = NoRun
        BY <1>t, <3>3 DEF RenumberingFault, DrainLink, Drains
      <4>2. drain'.pc = "failing" /\ drain'.item = drain.item /\ drain'.run = NoRun
        BY <1>t, <3>3, <4>1 DEF RenumberingFault, DrainAt, Drains
      <4>3. QED
        BY <4>1, <4>2 DEF DrainLink
    <3>4. QED
      BY <2>15, <3>1, <3>2, <3>3
  <2>16. ASSUME CrashAndRestart PROVE DrainLink'
    <3>1. IdleDrain \in Drains /\ IdleDrain.pc = "idle" /\ IdleDrain.run = NoRun
      BY InitialTypes DEF IdleDrain
    <3>2. drain'.pc = "idle" /\ drain'.run = NoRun
      BY <2>16, <3>1, ScheduledFacts DEF CrashAndRestart
    <3>3. QED
      BY <2>4, <3>2
  <2>17. ASSUME NEW r \in Runs, TurnHandsOff(r) PROVE DrainLink'
    BY <2>2, <2>3, <2>17 DEF TurnHandsOff
  <2>18. ASSUME \/ \E i \in Items : Enqueue(i)
                \/ RollbackProviderFails \/ RollbackCommits
         PROVE  DrainLink'
    BY <2>3, <2>18 DEF Enqueue, RollbackProviderFails, RollbackCommits, RollbackEnds
  <2>19. ASSUME \/ \E i \in Items : CancelItem(i)
                \/ CancelSession \/ CreateUserRun \/ CreateChecksCancelled
                \/ \E S \in SUBSET Runs : RollbackBegins(S)
                \/ SynthSteps \/ RollbackProviderDone
                \/ \E r \in Runs : \/ TurnSettles(r) \/ TurnRecovers(r) \/ TurnReleases(r)
                                   \/ TurnFault(r) \/ TurnLost(r) \/ SynthArrives(r)
                                   \/ \E st \in Settled : TurnEnds(r, st)
         PROVE  DrainLink'
    BY <2>2, <2>19
       DEF CancelItem, CancelSession, CreateUserRun, CreateChecksCancelled,
           RollbackBegins, SynthSteps, SynthParentEnded, SynthRefused, SynthRegisters,
           SynthCommits, RollbackProviderDone, TurnSettles, TurnRecovers, TurnReleases,
           TurnFault, TurnLost, SynthArrives, TurnEnds
  <2>20. QED
    BY <1>2, <2>6, <2>7, <2>8, <2>9, <2>10, <2>11, <2>12, <2>13, <2>14, <2>15, <2>16,
       <2>17, <2>18, <2>19
       DEF Next, Requests, CreatorSteps, PrepareSteps, TurnSteps, DrainSteps,
           RollbackSteps, Faults
<1>3. QED
  BY <1>1, <1>2

(* createRun's run and item.  Only the drain gives it an item, and waits.  *)
LEMMA CreatorLinkKept == ASSUME IInv, Next PROVE CreatorLink'
<1> USE DEF IInv
<1>t. creator \in Creators /\ drain \in Drains
  BY DEF TypeOK
<1>1. ASSUME NEW r \in Runs, CreateCommits(r) PROVE CreatorLink'
  <2>1. /\ creator'.pc = "committed" /\ creator'.run = r
        /\ creator'.item = creator.item /\ drain' = drain
    BY <1>1, <1>t DEF CreateCommits, Creators
  <2>2. creator.item \in Items \cup {NoItem}
    BY <1>t DEF Creators
  <2>3. Starts(r, creator.item)
    BY <1>1, <2>2, RowsStarted DEF CreateCommits
  <2>4. creator.item # NoItem => tables'.item[creator.item].run = r
    BY <2>2, <2>3 DEF Starts
  <2>5. QED
    BY <2>1, <2>4 DEF CreatorLink
<1>2. CASE ~ \E r \in Runs : CreateCommits(r)
  <2>1. SameItems
    BY <1>2, Bindings DEF SameItems
  <2>2. CASE /\ creator' = creator
             /\ drain' = drain \/ creator.item = NoItem
    <3>1. creator.item \in Items \cup {NoItem}
      BY <1>t DEF Creators
    <3>2. QED
      BY <2>1, <2>2, <3>1 DEF CreatorLink, SameItems
  <2>3. CASE creator' = IdleCreator
    BY <2>3 DEF CreatorLink, IdleCreator
  <2>4. ASSUME creator' = creator, drain' = Scheduled(drain) PROVE CreatorLink'
    <3>1. /\ drain'.pc = drain.pc /\ drain'.item = drain.item /\ drain'.run = drain.run
      BY <1>t, <2>4, ScheduledFacts
    <3>2. creator.item \in Items \cup {NoItem}
      BY <1>t DEF Creators
    <3>3. QED
      BY <2>1, <2>4, <3>1, <3>2 DEF CreatorLink, SameItems
  <2>5. ASSUME CreateUserRun PROVE CreatorLink'
    BY <2>5 DEF CreateUserRun, BeginCreate, CreatorLink
  <2>6. ASSUME DrainCreates PROVE CreatorLink'
    <3>1. /\ drain.pc = "creating" /\ drain.item \in Items /\ drain.run = NoRun
          /\ tables.item[drain.item].run = NoRun
      BY <2>6 DEF DrainCreates, DrainLink
    <3>2. CASE CanClaimPending
      <4>1. /\ creator' = [pc |-> "validating", run |-> NoRun, item |-> drain.item]
            /\ drain' = DrainAt(drain, "awaiting")
        BY <2>6, <3>2 DEF DrainCreates, BeginCreate
      <4>2. /\ drain'.pc = "awaiting" /\ drain'.item = drain.item /\ drain'.run = NoRun
        BY <1>t, <3>1, <4>1 DEF DrainAt, Drains
      <4>3. QED
        BY <2>1, <3>1, <4>1, <4>2 DEF CreatorLink, SameItems
    <3>3. CASE ~CanClaimPending
      BY <2>2, <2>6, <3>1, <3>3 DEF DrainCreates, CreatorLink
    <3>4. QED
      BY <3>2, <3>3
  <2>7. ASSUME CreateChecksCancelled PROVE CreatorLink'
    <3>1. /\ creator.pc = "validating" /\ creator'.pc \in {"cancelling", "starting"}
          /\ creator'.run = creator.run /\ creator'.item = creator.item /\ drain' = drain
      BY <1>t, <2>7 DEF CreateChecksCancelled, Creators
    <3>2. creator.item \in Items \cup {NoItem}
      BY <1>t DEF Creators
    <3>3. QED
      BY <2>1, <3>1, <3>2 DEF CreatorLink, SameItems
  <2>8. ASSUME \/ CreateFails \/ CreateCancelled \/ CreateRefused \/ CreateRegisters
               \/ CrashAndRestart
        PROVE  CreatorLink'
    BY <2>3, <2>8 DEF CreateFails, CreateCancelled, CreateRefused, RejectCreate,
                      CreateRegisters, CrashAndRestart
  <2>9. ASSUME NEW r \in Runs, Prepared(r) \/ PreparationFailed(r) PROVE CreatorLink'
    <3>1. CASE drain.run = r
      BY <2>2, <2>9, <3>1, NullsAssumption DEF Prepared, PreparationFailed, CreatorLink
    <3>2. CASE drain.run # r
      BY <2>2, <2>4, <2>9, <3>2 DEF Prepared, PreparationFailed
    <3>3. QED
      BY <3>1, <3>2
  <2>10. ASSUME NEW r \in Runs, TurnHandsOff(r) PROVE CreatorLink'
    BY <2>2, <2>4, <2>10 DEF TurnHandsOff
  <2>11. ASSUME DrainWakes PROVE CreatorLink'
    <3>1. CASE creator.item = NoItem
      BY <2>2, <2>11, <3>1 DEF DrainWakes
    <3>2. CASE creator.item # NoItem
      <4>1. /\ drain'.item = drain.item /\ drain'.run = drain.run /\ drain'.pc = drain.pc
        BY <1>t, <2>11, <3>2 DEF DrainWakes, Drains, Idle, CreatorLink
      <4>2. creator' = creator /\ creator.item \in Items
        BY <1>t, <2>11, <3>2 DEF DrainWakes, Creators
      <4>3. QED
        BY <2>1, <4>1, <4>2 DEF CreatorLink, SameItems
    <3>3. QED
      BY <3>1, <3>2
  <2>12. ASSUME \/ DrainRecovers \/ DrainPicks \/ DrainClaims \/ DrainReleases
                \/ DrainFails \/ DrainRenumbers \/ DrainLeaves \/ DrainFault
                \/ RenumberingFault
         PROVE  CreatorLink'
    <3>1. drain.pc # "awaiting"
      BY <2>12 DEF DrainRecovers, DrainPicks, DrainClaims, DrainReleases, DrainFails,
                   DrainRenumbers, DrainLeaves, DrainFault, RenumberingFault
    <3>2. creator.item = NoItem
      BY <3>1 DEF CreatorLink
    <3>3. creator' = creator
      BY <2>12 DEF DrainRecovers, DrainPicks, DrainClaims, DrainReleases, DrainFails,
                   DrainRenumbers, DrainLeaves, DrainFault, RenumberingFault
    <3>4. QED
      BY <2>2, <3>2, <3>3
  <2>13. ASSUME \/ \E i \in Items : Enqueue(i)
                \/ RollbackProviderFails \/ RollbackCommits
         PROVE  CreatorLink'
    BY <2>4, <2>13 DEF Enqueue, RollbackProviderFails, RollbackCommits, RollbackEnds
  <2>14. ASSUME \/ \E i \in Items : CancelItem(i)
                \/ CancelSession
                \/ \E S \in SUBSET Runs : RollbackBegins(S)
                \/ SynthSteps \/ RollbackProviderDone
                \/ \E r \in Runs : \/ TurnSettles(r) \/ TurnRecovers(r) \/ TurnReleases(r)
                                   \/ TurnFault(r) \/ TurnLost(r) \/ SynthArrives(r)
                                   \/ \E st \in Settled : TurnEnds(r, st)
         PROVE  CreatorLink'
    BY <2>2, <2>14
       DEF CancelItem, CancelSession, RollbackBegins, SynthSteps, SynthParentEnded,
           SynthRefused, SynthRegisters, SynthCommits, RollbackProviderDone, TurnSettles,
           TurnRecovers, TurnReleases, TurnFault, TurnLost, SynthArrives, TurnEnds
  <2>15. QED
    BY <1>2, <2>5, <2>6, <2>7, <2>8, <2>9, <2>10, <2>11, <2>12, <2>13, <2>14
       DEF Next, Requests, CreatorSteps, PrepareSteps, TurnSteps, DrainSteps,
           RollbackSteps, Faults
<1>3. QED
  BY <1>1, <1>2

(* A turn's item is bound to its run, and a turn about to settle knows how. *)
LEMMA TurnLinkKept == ASSUME IInv, Next PROVE TurnLink'
<1> USE DEF IInv
<1>t. turn \in [Runs -> Turns]
  BY DEF TypeOK
<1>b. \A j \in Items, q \in Runs : tables.item[j].run = q => tables'.item[j].run = q
  BY Bindings, NullsAssumption
<1>1. ASSUME \A q \in Runs : /\ turn'[q].item = turn[q].item
                             /\ turn'[q].pc = "settling" => turn'[q].outcome \in Settled
      PROVE  TurnLink'
  <2>1. \A q \in Runs : turn[q].item \in Items \cup {NoItem}
    BY <1>t DEF Turns
  <2>2. QED
    BY <1>1, <1>b, <2>1 DEF TurnLink
<1>2. CASE turn' = turn
  BY <1>1, <1>2 DEF TurnLink
<1>3. ASSUME NEW r \in Runs, NEW pc \in {"recovering", "durable", "released", "done",
                                         "abandoned", "lost"},
             turn' = [turn EXCEPT ![r].pc = pc]
      PROVE  TurnLink'
  <2>1. \A q \in Runs : /\ turn'[q].item = turn[q].item
                        /\ turn'[q].outcome = turn[q].outcome
                        /\ turn'[q].pc = IF q = r THEN pc ELSE turn[q].pc
    BY <1>t, <1>3 DEF Turns
  <2>2. QED
    BY <1>1, <2>1 DEF TurnLink
<1>4. ASSUME CreateRegisters PROVE TurnLink'
  <2>1. /\ creator.run \in Runs
        /\ creator.item # NoItem => tables.item[creator.item].run = creator.run
    BY <1>4 DEF CreateRegisters, CreatorLink
  <2>2. creator.item \in Items \cup {NoItem}
    BY DEF TypeOK, Creators
  <2>3. \A q \in Runs : turn'[q] = IF q = creator.run THEN OpenTurn(creator.item, "executed")
                                   ELSE turn[q]
    BY <1>4, <1>t, <2>1 DEF CreateRegisters
  <2>4. \A q \in Runs : turn[q].item \in Items \cup {NoItem}
    BY <1>t DEF Turns
  <2>5. QED
    BY <1>b, <2>1, <2>2, <2>3, <2>4 DEF TurnLink, OpenTurn
<1>5. ASSUME SynthRegisters PROVE TurnLink'
  <2>1. synth.run \in Runs
    BY <1>5 DEF SynthRegisters, SynthLink
  <2>2. \A q \in Runs : turn'[q] = IF q = synth.run THEN OpenTurn(NoItem, "synthetic")
                                   ELSE turn[q]
    BY <1>5, <1>t, <2>1 DEF SynthRegisters
  <2>3. \A q \in Runs : turn[q].item \in Items \cup {NoItem}
    BY <1>t DEF Turns
  <2>4. QED
    BY <1>b, <2>2, <2>3 DEF TurnLink, OpenTurn
<1>6. ASSUME NEW r \in Runs, NEW st \in Settled, TurnEnds(r, st) PROVE TurnLink'
  <2>1. \A q \in Runs : /\ turn'[q].item = turn[q].item
                        /\ turn'[q].pc = "settling" => turn'[q].outcome \in Settled
    BY <1>6, <1>t DEF TurnEnds, Turns, TurnLink
  <2>2. QED
    BY <1>1, <2>1
<1>7. ASSUME NEW r \in Runs, PreparationFailed(r) PROVE TurnLink'
  <2>1. \A q \in Runs : /\ turn'[q].item = turn[q].item
                        /\ turn'[q].pc = "settling" => turn'[q].outcome \in Settled
    BY <1>7, <1>t DEF PreparationFailed, Turns, TurnLink
  <2>2. QED
    BY <1>1, <2>1
<1>8. ASSUME NEW r \in Runs,
             TurnSettles(r) \/ TurnRecovers(r) \/ TurnReleases(r) \/ TurnHandsOff(r)
                 \/ TurnFault(r) \/ TurnLost(r)
      PROVE  TurnLink'
  <2>1. PICK pc \in {"recovering", "durable", "released", "done", "lost"} :
            turn' = [turn EXCEPT ![r].pc = pc]
    BY <1>8 DEF TurnSettles, TurnRecovers, TurnReleases, TurnHandsOff, TurnFault, TurnLost
  <2>2. QED
    BY <1>3, <2>1
<1>9. ASSUME CrashAndRestart PROVE TurnLink'
  BY <1>9 DEF CrashAndRestart, TurnLink, NoTurn, OpenTurn
<1>10. ASSUME \/ Requests \/ CreateFails \/ CreateChecksCancelled \/ CreateCancelled
              \/ CreateRefused \/ RollbackSteps \/ DrainSteps
             \/ DrainFault \/ RenumberingFault
              \/ SynthParentEnded \/ SynthRefused
              \/ \E r \in Runs : \/ CreateCommits(r) \/ SynthCommits(r)
                                 \/ Prepared(r) \/ SynthArrives(r)
       PROVE  TurnLink'
  <2>1. turn' = turn
    BY <1>10 DEF Requests, Enqueue, CancelItem, CancelSession, CreateUserRun, RollbackBegins,
        CreateFails, CreateChecksCancelled, CreateCancelled, CreateRefused, RollbackSteps,
        RollbackProviderDone, RollbackProviderFails, RollbackCommits, DrainSteps, DrainWakes,
        DrainRecovers, DrainPicks, DrainClaims, DrainCreates, DrainReleases, DrainFails,
        DrainRenumbers, DrainLeaves, DrainFault, RenumberingFault, SynthParentEnded,
        SynthRefused, CreateCommits, SynthCommits,
        Prepared, SynthArrives
  <2>2. QED
    BY <1>2, <2>1
<1>11. QED
  BY <1>4, <1>5, <1>6, <1>7, <1>8, <1>9, <1>10
     DEF Next, CreatorSteps, PrepareSteps, TurnSteps, SynthSteps, Faults

LEMMA SynthLinkKept == ASSUME IInv, Next PROVE SynthLink'
<1> USE DEF IInv, SynthLink
<1>t. synth \in Synths
  BY DEF TypeOK
<1>1. ASSUME NEW r \in Runs, SynthCommits(r) PROVE SynthLink'
  BY <1>1, <1>t DEF SynthCommits, Synths
<1>2. ASSUME NEW r \in Runs, SynthArrives(r) PROVE SynthLink'
  BY <1>2, <1>t DEF SynthArrives, Synths
<1>3. ASSUME SynthParentEnded \/ SynthRefused \/ SynthRegisters \/ CrashAndRestart
      PROVE  SynthLink'
  BY <1>3, <1>t DEF SynthParentEnded, SynthRefused, SynthRegisters, CrashAndRestart,
                    IdleSynth, Synths
<1>4. ASSUME \/ Requests \/ CreatorSteps \/ RollbackSteps \/ DrainSteps
             \/ DrainFault \/ RenumberingFault
             \/ \E r \in Runs : PrepareSteps(r) \/ TurnSteps(r) \/ TurnFault(r) \/ TurnLost(r)
      PROVE  SynthLink'
  <2>1. synth' = synth
    BY <1>4 DEF Requests, Enqueue, CancelItem, CancelSession, CreateUserRun, RollbackBegins,
        CreatorSteps, CreateFails, CreateChecksCancelled, CreateCancelled, CreateRefused,
        CreateRegisters, CreateCommits, RollbackSteps, RollbackProviderDone,
        RollbackProviderFails, RollbackCommits, DrainSteps, DrainWakes, DrainRecovers,
        DrainPicks, DrainClaims, DrainCreates, DrainReleases, DrainFails,
        DrainRenumbers, DrainLeaves, DrainFault, RenumberingFault, PrepareSteps, Prepared,
        PreparationFailed, TurnSteps, TurnEnds,
        TurnSettles, TurnRecovers, TurnReleases, TurnHandsOff, TurnFault, TurnLost
  <2>2. QED
    BY <2>1
<1>5. QED
  BY <1>1, <1>2, <1>3, <1>4 DEF Next, SynthSteps, Faults

-----------------------------------------------------------------------------
LEMMA InitIInv == Init => IInv
<1> SUFFICES ASSUME Init PROVE IInv
  OBVIOUS
<1>1. TablesOK(tables)
  BY DEF Init, EmptyTables, TablesOK, Tables, QueueItem, RunStatus, ItemStatus,
         OneStreaming, UnclaimedUnbound
<1>2. TypeOK
  BY <1>1, InitialTypes DEF Init, TypeOK, TablesOK
<1>3. DrainLink /\ CreatorLink /\ SynthLink
  BY DEF Init, DrainLink, CreatorLink, SynthLink, IdleDrain, IdleCreator, IdleSynth
<1>4. TurnLink
  BY DEF Init, TurnLink, NoTurn, OpenTurn
<1>5. QED
  BY <1>1, <1>2, <1>3, <1>4 DEF IInv

LEMMA IInvKept == IInv /\ [Next]_vars => IInv'
<1> SUFFICES ASSUME IInv, [Next]_vars PROVE IInv'
  OBVIOUS
<1>1. CASE Next
  BY <1>1, Rows, TypesKept, DrainLinkKept, CreatorLinkKept, TurnLinkKept, SynthLinkKept
     DEF IInv, RowsStep
<1>2. CASE UNCHANGED vars
  BY <1>2 DEF vars, IInv, TypeOK, DrainLink, CreatorLink, TurnLink, SynthLink
<1>3. QED
  BY <1>1, <1>2

-----------------------------------------------------------------------------
(* Every reachable state is well typed: the handlers never mix up their    *)
(* runs and items, whatever the order of their steps.                      *)
THEOREM TypeCorrect == Spec => []TypeOK
<1>1. IInv => TypeOK
  BY DEF IInv
<1>2. QED
  BY InitIInv, IInvKept, <1>1, PTL DEF Spec

(* createRun, the synthetic inbox, cancel, recovery and a restart keep at  *)
(* most one run of the session streaming (decideStartRun's active-run      *)
(* check, from the tables its transaction reads).                          *)
THEOREM AtMostOneStreams == Spec => []OneStreaming(tables)
<1>1. IInv => OneStreaming(tables)
  BY DEF IInv, TablesOK
<1>2. QED
  BY InitIInv, IInvKept, <1>1, PTL DEF Spec

-----------------------------------------------------------------------------
(* The refinement. *)

LEMMA InitFlight == Init => Flight!Init
<1> SUFFICES ASSUME Init PROVE Flight!Init
  OBVIOUS
<1>1. tables \in Tables
  BY DEF Init, EmptyTables, Tables, QueueItem, RunStatus, ItemStatus
<1>2. tables.run = [r \in Runs |-> "absent"]
  BY DEF Init, EmptyTables
<1>3. ActiveRun(tables) = NoRun
  BY <1>1, <1>2, ActiveRunFacts
<1>4. [i \in Items |-> tables.item[i].run] = [i \in Items |-> NoRun]
  BY DEF Init, EmptyTables
<1>5. QED
  BY <1>2, <1>3, <1>4 DEF Flight!Init

LEMMA StepFlight == IInv /\ [Next]_vars => [Flight!Next]_(Flight!vars)
<1> SUFFICES ASSUME IInv, [Next]_vars PROVE [Flight!Next]_(Flight!vars)
  OBVIOUS
<1> DEFINE served  == [i \in Items |-> tables.item[i].run]
           served2 == [i \in Items |-> tables'.item[i].run]
<1>1. ASSUME Next PROVE Flight!Next \/ UNCHANGED Flight!vars
  <2>1. RowsStep
    BY <1>1, Rows
  <2>2. /\ tables \in Tables /\ OneStreaming(tables)
        /\ tables' \in Tables /\ OneStreaming(tables')
    BY <2>1 DEF RowsStep, IInv, TablesOK
  <2>3. CASE SameFlight(tables, tables')
    <3>1. ActiveRun(tables') = ActiveRun(tables)
      BY <2>3 DEF SameFlight, ActiveRun, Streaming
    <3>2. served2 = served
      BY <2>3 DEF SameFlight
    <3>3. QED
      BY <2>3, <3>1, <3>2 DEF SameFlight, Flight!vars
  <2>4. ASSUME NEW r \in Runs, NEW i \in Items \cup {NoItem}, Starts(r, i)
        PROVE  Flight!Next
    <3>1. ActiveRun(tables) = NoRun
      BY <2>2, <2>4, ActiveRunFacts DEF Starts
    <3>2. ActiveRun(tables') = r
      <4>1. tables'.run[r] = "streaming"
        BY <2>2, <2>4 DEF Starts, Tables
      <4>2. QED
        BY <2>2, <4>1, ActiveRunUnique
    <3>3. IF i = NoItem THEN served2 = served
          ELSE served[i] = NoRun /\ served2 = [served EXCEPT ![i] = r]
      BY <2>4, NullsAssumption DEF Starts
    <3>4. Flight!Start(r, i)
      BY <2>4, <3>1, <3>2, <3>3 DEF Starts, Flight!Start
    <3>5. QED
      BY <3>4 DEF Flight!Next
  <2>5. ASSUME NEW r \in Runs, NEW st \in Settled, Ends(r, st) PROVE Flight!Next
    <3>1. ActiveRun(tables) = r
      BY <2>2, <2>5, ActiveRunUnique DEF Ends
    <3>2. \A q \in Runs : tables'.run[q] # "streaming"
      BY <2>2, <2>5 DEF Ends, OneStreaming, Tables, Settled
    <3>3. ActiveRun(tables') = NoRun
      BY <2>2, <3>2, ActiveRunFacts
    <3>4. served2 = served
      BY <2>5 DEF Ends
    <3>5. Flight!Finish(r, st)
      BY <2>5, <3>1, <3>3, <3>4 DEF Ends, Flight!Finish
    <3>6. QED
      BY <3>5 DEF Flight!Next
  <2>6. QED
    BY <2>1, <2>3, <2>4, <2>5 DEF RowsStep
<1>2. CASE UNCHANGED vars
  BY <1>2 DEF vars, Flight!vars, ActiveRun, Streaming
<1>3. QED
  BY <1>1, <1>2

(* The session implements SingleFlight: one run at a time, a run lives     *)
(* once, and at most one run ever serves a queue item, although runs are   *)
(* started by three handlers and ended by five.                            *)
THEOREM ImplementsSingleFlight == Spec => SingleFlightSpec
<1>1. IInv /\ [Next]_vars => [Flight!Next]_(Flight!vars)
  BY StepFlight
<1>2. QED
  BY InitIInv, IInvKept, InitFlight, <1>1, PTL DEF Spec, SingleFlightSpec, Flight!Spec
=============================================================================
