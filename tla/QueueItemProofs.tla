-------------------------- MODULE QueueItemProofs ---------------------------
(***************************************************************************)
(* The items of the durable queue, for every set of runs and items and     *)
(* every bound: no claim is left behind by a drain that goes on, and an    *)
(* item and its run tell the same story.                                   *)
(***************************************************************************)
EXTENDS ChatSessionProofs

-----------------------------------------------------------------------------
(* Only the drain's own claim makes an orphan.                             *)

LEMMA OrphanFacts ==
    ASSUME NEW t, NEW i
    PROVE  i \in OrphanClaims(t) <=>
               i \in Items /\ t.item[i].status = "running" /\ t.item[i].run = NoRun
BY DEF OrphanClaims

LEMMA SettledItems ==
    ASSUME NEW t, TablesOK(t), NEW r \in Runs, NEW st \in Settled,
           NEW i \in Items \cup {NoItem}
    PROVE  \A j \in Items : ProjectSettled(t, r, st, i).item[j] =
               IF j = i THEN [status |-> QueueTerminalStatus(st), run |-> r] ELSE t.item[j]
<1> DEFINE m == ProjectMessageCompleted(t, r, st)
           c == [m EXCEPT !.run[r] = IF @ = "absent" THEN @ ELSE st]
<1>1. t \in Tables
  BY DEF TablesOK
<1>2. c.item = t.item /\ c \in Tables
  BY <1>1 DEF ProjectMessageCompleted, Tables, RunStatus
<1>3. ProjectSettled(t, r, st, i) =
        IF i = NoItem THEN c ELSE SetItem(c, i, QueueTerminalStatus(st), r)
  BY DEF ProjectSettled, ProjectRunTerminal
<1>4. QueueTerminalStatus(st) \in ItemSettled
  BY DEF Settled, ItemSettled, QueueTerminalStatus
<1> HIDE DEF c
<1>5. CASE i = NoItem
  BY <1>2, <1>3, <1>5, NullsAssumption
<1>6. CASE i \in Items
  BY <1>2, <1>3, <1>4, <1>6, SetItemType, NullsAssumption DEF ItemSettled, ItemStatus
<1>7. QED
  BY <1>5, <1>6

LEMMA SettledOrphans ==
    ASSUME NEW t, TablesOK(t), NEW r \in Runs, NEW st \in Settled,
           NEW i \in Items \cup {NoItem}
    PROVE  OrphanClaims(ProjectSettled(t, r, st, i)) \subseteq OrphanClaims(t)
<1> DEFINE u == ProjectSettled(t, r, st, i)
<1>1. \A j \in Items : u.item[j] =
          IF j = i THEN [status |-> QueueTerminalStatus(st), run |-> r] ELSE t.item[j]
  BY SettledItems
<1> HIDE DEF u
<1>2. ASSUME NEW j \in OrphanClaims(u) PROVE j \in OrphanClaims(t)
  <2>1. j \in Items /\ u.item[j].status = "running" /\ u.item[j].run = NoRun
    BY OrphanFacts
  <2>2. j # i
    BY <1>1, <2>1, NullsAssumption
  <2>3. QED
    BY <1>1, <2>1, <2>2, OrphanFacts
<1>3. QED
  BY <1>2 DEF u

LEMMA SettleStreamingOrphans ==
    ASSUME NEW t, TablesOK(t), NEW st \in Settled
    PROVE  OrphanClaims(SettleStreaming(t, st)) \subseteq OrphanClaims(t)
<1>1. t \in Tables
  BY DEF TablesOK
<1>2. CASE ActiveRun(t) = NoRun
  BY <1>2 DEF SettleStreaming
<1>3. CASE ActiveRun(t) # NoRun
  <2>1. ActiveRun(t) \in Runs
    BY <1>1, <1>3, ActiveRunFacts
  <2>2. ItemOf(t, ActiveRun(t)) \in Items \cup {NoItem}
    BY <1>1, <2>1, ItemOfFacts
  <2>3. QED
    BY <1>3, <2>1, <2>2, SettledOrphans DEF SettleStreaming
<1>4. QED
  BY <1>2, <1>3

LEMMA CancelledOrphans ==
    ASSUME NEW t, TablesOK(t), NEW i \in Items
    PROVE  OrphanClaims(ProjectCancelled(t, i)) \subseteq OrphanClaims(t)
BY DEF OrphanClaims, ProjectCancelled, TablesOK, Tables, QueueItem

LEMMA StartedOrphans ==
    ASSUME NEW t, TablesOK(t), NEW r \in Runs, NEW i \in Items \cup {NoItem}
    PROVE  OrphanClaims(ProjectRunStarted(t, r, i)) \subseteq OrphanClaims(t)
BY NullsAssumption DEF OrphanClaims, ProjectRunStarted, SetItem, TablesOK, Tables, QueueItem

LEMMA ItemOrphans ==
    ASSUME NEW t, TablesOK(t), NEW i \in Items
    PROVE  /\ OrphanClaims(SetItem(t, i, "pending", NoRun)) \subseteq OrphanClaims(t)
           /\ OrphanClaims(ProjectFailed(t, i)) \subseteq OrphanClaims(t) \ {i}
           /\ OrphanClaims(ProjectClaimed(t, i)) \subseteq OrphanClaims(t) \cup {i}
           /\ OrphanClaims(ReleaseOrphans(t)) = {}
<1>1. t \in Tables
  BY DEF TablesOK
<1>2. OrphanClaims(SetItem(t, i, "pending", NoRun)) \subseteq OrphanClaims(t)
  BY <1>1 DEF OrphanClaims, SetItem, Tables, QueueItem
<1>3. OrphanClaims(ProjectFailed(t, i)) \subseteq OrphanClaims(t) \ {i}
  BY <1>1 DEF OrphanClaims, ProjectFailed, Tables, QueueItem
<1>4. OrphanClaims(ProjectClaimed(t, i)) \subseteq OrphanClaims(t) \cup {i}
  BY <1>1 DEF OrphanClaims, ProjectClaimed, Tables, QueueItem
<1>5. OrphanClaims(ReleaseOrphans(t)) = {}
  BY <1>1 DEF OrphanClaims, ReleaseOrphans, Tables, QueueItem
<1>6. QED
  BY <1>2, <1>3, <1>4, <1>5

(* A step makes no orphan, except by claiming.                             *)
LEMMA NoNewOrphans ==
    ASSUME IInv, Next, ~DrainClaims
    PROVE  OrphanClaims(tables') \subseteq OrphanClaims(tables)
<1> USE DEF IInv
<1>0. OrphanClaims(tables) \subseteq OrphanClaims(tables)
  OBVIOUS
<1>1. ASSUME NEW i \in Items, Enqueue(i) PROVE OrphanClaims(tables') \subseteq OrphanClaims(tables)
  BY <1>1, ItemOrphans DEF Enqueue, ProjectEnqueued
<1>2. ASSUME NEW i \in Items, CancelItem(i)
      PROVE  OrphanClaims(tables') \subseteq OrphanClaims(tables)
  BY <1>2, CancelledOrphans DEF CancelItem
<1>3. ASSUME CancelSession PROVE OrphanClaims(tables') \subseteq OrphanClaims(tables)
  <2>1. registry.pending.item \in Items \cup {NoItem}
    BY DEF TypeOK, Registries, Pendings
  <2>2. "aborted" \in Settled
    BY DEF Settled
  <2>3. QED
    BY <1>3, <2>1, <2>2, CancelledOrphans, SettleStreamingOrphans DEF CancelSession
<1>4. ASSUME CreateCancelled PROVE OrphanClaims(tables') \subseteq OrphanClaims(tables)
  <2>1. creator.item \in Items \cup {NoItem}
    BY DEF TypeOK, Creators
  <2>2. QED
    BY <1>4, <2>1, CancelledOrphans DEF CreateCancelled
<1>5. ASSUME NEW r \in Runs, CreateCommits(r)
      PROVE  OrphanClaims(tables') \subseteq OrphanClaims(tables)
  <2>1. creator.item \in Items \cup {NoItem}
    BY DEF TypeOK, Creators
  <2>2. QED
    BY <1>5, <2>1, StartedOrphans DEF CreateCommits
<1>6. ASSUME NEW r \in Runs, SynthCommits(r)
      PROVE  OrphanClaims(tables') \subseteq OrphanClaims(tables)
  BY <1>6, StartedOrphans DEF SynthCommits
<1>7. ASSUME NEW r \in Runs, TurnSettles(r)
      PROVE  OrphanClaims(tables') \subseteq OrphanClaims(tables)
  <2>1. turn[r].item \in Items \cup {NoItem} /\ turn[r].outcome \in Settled
    BY <1>7 DEF TypeOK, Turns, TurnLink, TurnSettles
  <2>2. tables' = ProjectSettled(tables, r, turn[r].outcome, turn[r].item) \/ tables' = tables
    BY <1>7 DEF TurnSettles
  <2>3. QED
    BY <2>1, <2>2, SettledOrphans
<1>8. ASSUME (\E r \in Runs : TurnRecovers(r)) \/ CrashAndRestart
      PROVE  OrphanClaims(tables') \subseteq OrphanClaims(tables)
  <2>1. PICK st \in Settled : tables' = SettleStreaming(tables, st)
    BY <1>8 DEF TurnRecovers, CrashAndRestart, InterruptedOutcomes, Settled
  <2>2. QED
    BY <2>1, SettleStreamingOrphans
<1>9. ASSUME DrainRecovers PROVE OrphanClaims(tables') \subseteq OrphanClaims(tables)
  <2>1. CASE Items = {}
    BY <2>1 DEF OrphanClaims
  <2>2. CASE Items # {}
    BY <1>9, <2>2, ItemOrphans DEF DrainRecovers
  <2>3. QED
    BY <2>1, <2>2
<1>10. ASSUME DrainReleases \/ DrainFails
       PROVE  OrphanClaims(tables') \subseteq OrphanClaims(tables)
  <2>1. drain.item \in Items
    BY <1>10 DEF DrainLink, DrainReleases, DrainFails
  <2>2. QED
    BY <1>10, <2>1, ItemOrphans DEF DrainReleases, DrainFails, ProjectReleased
<1>11. ASSUME RollbackCommits PROVE OrphanClaims(tables') \subseteq OrphanClaims(tables)
  <2>1. tables' = ProjectRolledBack(tables, rollback.turns) \/ tables' = tables
    BY <1>11 DEF RollbackCommits
  <2>2. tables'.item = tables.item
    BY <2>1 DEF ProjectRolledBack, TypeOK, Tables
  <2>3. QED
    BY <2>2 DEF OrphanClaims
<1>12. ASSUME \/ CreateUserRun \/ (\E S \in SUBSET Runs : RollbackBegins(S))
              \/ CreateFails \/ CreateChecksCancelled \/ CreateRefused \/ CreateRegisters
              \/ (\E r \in Runs : \/ PrepareSteps(r) \/ SynthArrives(r)
                                  \/ (\E st \in Settled : TurnEnds(r, st))
                                  \/ TurnReleases(r) \/ TurnHandsOff(r)
                                  \/ TurnFault(r) \/ TurnLost(r))
              \/ DrainWakes \/ DrainPicks \/ DrainCreates \/ DrainLeaves
              \/ DrainRenumbers \/ DrainFault \/ RenumberingFault
              \/ SynthParentEnded \/ SynthRefused \/ SynthRegisters
              \/ RollbackProviderDone \/ RollbackProviderFails
       PROVE  OrphanClaims(tables') \subseteq OrphanClaims(tables)
  <2>1. tables' = tables
    BY <1>12 DEF CreateUserRun, RollbackBegins, CreateFails, CreateChecksCancelled,
        CreateRefused, CreateRegisters, PrepareSteps, Prepared, PreparationFailed,
        SynthArrives, TurnEnds, TurnReleases, TurnHandsOff, TurnFault, TurnLost, DrainWakes,
        DrainPicks, DrainCreates, DrainRenumbers, DrainLeaves, DrainFault, RenumberingFault,
        SynthParentEnded, SynthRefused, SynthRegisters, RollbackProviderDone,
        RollbackProviderFails
  <2>2. QED
    BY <2>1
<1>13. QED
  BY <1>1, <1>2, <1>3, <1>4, <1>5, <1>6, <1>7, <1>8, <1>9, <1>10, <1>11, <1>12
     DEF Next, Requests, CreatorSteps, TurnSteps, DrainSteps, SynthSteps, RollbackSteps, Faults

-----------------------------------------------------------------------------
(* Where the drain has recovered, the orphans are its own.                 *)

Carrying == {"creating", "awaiting", "releasing", "failing", "renumbering"}

ClaimLink ==
    /\ drain.pc \in {"picking", "claiming"} => OrphanClaims(tables) = {}
    /\ drain.pc \in Carrying => OrphanClaims(tables) \subseteq {drain.item}

(* Steps that leave the drain where it is, with the item it has, or free.  *)
LEMMA ClaimLinkStays ==
    ASSUME ClaimLink, OrphanClaims(tables') \subseteq OrphanClaims(tables),
           \/ drain'.pc = drain.pc /\ drain'.item = drain.item
           \/ drain'.pc \notin {"picking", "claiming"} \cup Carrying
           \/ drain.pc \in Carrying /\ drain'.pc \in Carrying /\ drain'.item = drain.item
    PROVE  ClaimLink'
BY DEF ClaimLink, Carrying

LEMMA ScheduledStays ==
    ASSUME drain \in Drains, drain' = Scheduled(drain)
    PROVE  drain'.pc = drain.pc /\ drain'.item = drain.item
BY ScheduledFacts

LEMMA ClaimLinkKept == ASSUME IInv, ClaimLink, Next PROVE ClaimLink'
<1> USE DEF IInv
<1>t. /\ drain \in Drains /\ creator \in Creators
      /\ Scheduled(drain) \in Drains
      /\ Scheduled(drain).pc = drain.pc /\ Scheduled(drain).item = drain.item
  BY ScheduledFacts DEF TypeOK
<1>1. ASSUME DrainClaims PROVE ClaimLink'
  <2>1. drain.item \in Items /\ OrphanClaims(tables) = {}
    BY <1>1 DEF DrainClaims, DrainLink, ClaimLink
  <2>2. CASE tables' = ProjectClaimed(tables, drain.item) /\ drain' = DrainAt(drain, "creating")
    <3>1. drain'.pc = "creating" /\ drain'.item = drain.item
      BY <1>t, <2>2 DEF DrainAt, Drains
    <3>2. OrphanClaims(tables') \subseteq {drain.item}
      BY <2>1, <2>2, ItemOrphans
    <3>3. QED
      BY <3>1, <3>2 DEF ClaimLink, Carrying
  <2>3. CASE tables' = tables /\ drain' = DrainFree(drain, "picking")
    BY <1>t, <2>1, <2>3 DEF DrainFree, Drains, ClaimLink, Carrying
  <2>4. QED
    BY <1>1, <2>2, <2>3 DEF DrainClaims
<1>2. CASE ~DrainClaims
  <2>1. OrphanClaims(tables') \subseteq OrphanClaims(tables)
    BY <1>2, NoNewOrphans
  <2>2. ASSUME drain'.pc = drain.pc, drain'.item = drain.item PROVE ClaimLink'
    BY <2>1, <2>2, ClaimLinkStays
  <2>3. ASSUME drain'.pc \in {"idle", "recovering", "leaving"} PROVE ClaimLink'
    BY <2>1, <2>3, ClaimLinkStays DEF Carrying
  <2>4. ASSUME drain.pc \in Carrying, drain'.pc \in Carrying, drain'.item = drain.item
        PROVE  ClaimLink'
    BY <2>1, <2>4, ClaimLinkStays
  <2>5. ASSUME drain' = drain PROVE ClaimLink'
    BY <2>2, <2>5
  <2>6. ASSUME drain' = Scheduled(drain) PROVE ClaimLink'
    BY <1>t, <2>2, <2>6
  <2>7. ASSUME NEW code, RejectCreate(code) PROVE ClaimLink'
    <3>1. PICK woken \in {drain, Scheduled(drain)} :
              drain' = IF creator.item = NoItem THEN woken
                       ELSE DrainAt(woken, AfterError(code))
      BY <2>7 DEF RejectCreate
    <3>2. woken \in Drains /\ woken.pc = drain.pc /\ woken.item = drain.item
      BY <1>t, <3>1
    <3>3. CASE creator.item = NoItem
      BY <2>2, <3>1, <3>2, <3>3
    <3>4. CASE creator.item # NoItem
      <4>1. drain.pc \in Carrying
        BY <3>4 DEF CreatorLink, Carrying
      <4>2. drain'.item = drain.item /\ drain'.pc = AfterError(code)
        BY <3>1, <3>2, <3>4 DEF DrainAt, Drains
      <4>3. AfterError(code) \in Carrying \cup {"leaving"}
        BY DEF AfterError, Carrying
      <4>4. QED
        BY <2>3, <2>4, <4>1, <4>2, <4>3
    <3>5. QED
      BY <3>3, <3>4
  <2>8. ASSUME CreateFails \/ CreateCancelled \/ CreateRefused PROVE ClaimLink'
    BY <2>7, <2>8 DEF CreateFails, CreateCancelled, CreateRefused
  <2>9. ASSUME CreateRegisters PROVE ClaimLink'
    BY <1>t, <2>2, <2>9 DEF CreateRegisters, Drains
  <2>10. ASSUME NEW r \in Runs, Prepared(r) PROVE ClaimLink'
    <3>1. CASE drain.run = r
      <4>1. drain.pc \in Carrying
        BY <3>1, NullsAssumption DEF DrainLink, Carrying
      <4>2. drain'.pc = "renumbering" /\ drain'.item = drain.item
        BY <1>t, <2>10, <3>1 DEF Prepared, Drains
      <4>3. QED
        BY <2>4, <4>1, <4>2 DEF Carrying
    <3>2. CASE drain.run # r
      BY <2>5, <2>10, <3>2 DEF Prepared
    <3>3. QED
      BY <3>1, <3>2
  <2>11. ASSUME NEW r \in Runs, PreparationFailed(r) PROVE ClaimLink'
    <3>1. CASE drain.run = r
      <4>1. drain.pc \in Carrying
        BY <3>1, NullsAssumption DEF DrainLink, Carrying
      <4>2. drain'.pc = "failing" /\ drain'.item = drain.item
        BY <1>t, <2>11, <3>1 DEF PreparationFailed, DrainAt, Drains
      <4>3. QED
        BY <2>4, <4>1, <4>2 DEF Carrying
    <3>2. CASE drain.run # r
      BY <2>6, <2>11, <3>2 DEF PreparationFailed
    <3>3. QED
      BY <3>1, <3>2
  <2>12. ASSUME DrainWakes PROVE ClaimLink'
    <3>1. /\ drain'.item = drain.item
          /\ drain'.pc = drain.pc \/ drain'.pc = "recovering"
      BY <1>t, <2>12 DEF DrainWakes, Drains
    <3>2. QED
      BY <2>2, <2>3, <3>1
  <2>13. ASSUME DrainRecovers PROVE ClaimLink'
    <3>1. drain'.pc = "picking"
      BY <1>t, <2>13 DEF DrainRecovers, DrainAt, Drains
    <3>2. OrphanClaims(tables') = {}
      BY <2>13 DEF DrainRecovers, ReleaseOrphans, OrphanClaims, TypeOK, Tables, QueueItem
    <3>3. QED
      BY <3>1, <3>2 DEF ClaimLink, Carrying
  <2>14. ASSUME DrainPicks PROVE ClaimLink'
    <3>1. drain'.pc \in {"leaving", "claiming"}
      BY <1>t, <2>14 DEF DrainPicks, DrainFree, Drains
    <3>2. OrphanClaims(tables') = {}
      BY <2>1, <2>14 DEF DrainPicks, ClaimLink
    <3>3. QED
      BY <3>1, <3>2 DEF ClaimLink, Carrying
  <2>15. ASSUME DrainCreates PROVE ClaimLink'
    <3>1. drain.pc \in Carrying /\ drain'.pc \in Carrying /\ drain'.item = drain.item
      BY <1>t, <2>15 DEF DrainCreates, DrainAt, Drains, Carrying
    <3>2. QED
      BY <2>4, <3>1
  <2>16. ASSUME DrainFails PROVE ClaimLink'
    <3>1. drain'.pc = "renumbering" /\ drain.item \in Items
      BY <1>t, <2>16 DEF DrainFails, DrainFree, Drains, DrainLink
    <3>2. OrphanClaims(tables) \subseteq {drain.item}
      BY <2>16 DEF DrainFails, ClaimLink, Carrying
    <3>3. OrphanClaims(tables') \subseteq OrphanClaims(tables) \ {drain.item}
      BY <2>16, <3>1, ItemOrphans DEF DrainFails
    <3>4. QED
      BY <3>1, <3>2, <3>3 DEF ClaimLink, Carrying
  <2>16a. ASSUME DrainRenumbers PROVE ClaimLink'
    <3>1. CASE drain.item = NoItem
      <4>1. OrphanClaims(tables) = {}
        BY <2>16a, <3>1, NullsAssumption DEF DrainRenumbers, ClaimLink, Carrying,
                                             OrphanClaims
      <4>2. drain'.pc = "picking"
        BY <1>t, <2>16a, <3>1 DEF DrainRenumbers, DrainFree, Drains
      <4>3. QED
        BY <2>1, <4>1, <4>2 DEF ClaimLink, Carrying
    <3>2. CASE drain.item # NoItem
      BY <1>t, <2>3, <2>16a, <3>2 DEF DrainRenumbers, DrainFree, Drains
    <3>3. QED
      BY <3>1, <3>2
  <2>16b. ASSUME RenumberingFault PROVE ClaimLink'
    <3>1. drain.pc \in Carrying /\ drain'.pc \in Carrying /\ drain'.item = drain.item
      BY <1>t, <2>16b DEF RenumberingFault, DrainAt, Drains, Carrying
    <3>2. QED
      BY <2>4, <3>1
  <2>17. ASSUME DrainReleases \/ DrainFault \/ DrainLeaves \/ CrashAndRestart PROVE ClaimLink'
    <3>1. CASE DrainReleases \/ DrainFault
      BY <1>t, <2>3, <3>1 DEF DrainReleases, DrainFault, DrainFree, Drains
    <3>2. CASE DrainLeaves
      <4> DEFINE left == [DrainFree(drain, "idle") EXCEPT !.requested = FALSE]
      <4>1. left \in Drains /\ left.pc = "idle"
        BY <1>t DEF DrainFree, Drains
      <4>2. drain' \in {left, Scheduled(left)}
        BY <3>2 DEF DrainLeaves
      <4> HIDE DEF left
      <4>3. drain'.pc = "idle"
        BY <4>1, <4>2, ScheduledFacts
      <4>4. QED
        BY <2>3, <4>3
    <3>3. CASE CrashAndRestart
      <4>1. drain' \in {IdleDrain, Scheduled(IdleDrain)}
        BY <3>3 DEF CrashAndRestart
      <4>2. IdleDrain \in Drains /\ IdleDrain.pc = "idle"
        BY InitialTypes DEF IdleDrain
      <4>3. drain'.pc = "idle"
        BY <4>1, <4>2, ScheduledFacts
      <4>4. QED
        BY <2>3, <4>3
    <3>4. QED
      BY <2>17, <3>1, <3>2, <3>3
  <2>18. ASSUME \/ (\E i \in Items : Enqueue(i)) \/ RollbackProviderFails \/ RollbackCommits
         PROVE  ClaimLink'
    BY <2>6, <2>18 DEF Enqueue, RollbackProviderFails, RollbackCommits, RollbackEnds
  <2>19. ASSUME NEW r \in Runs, TurnHandsOff(r) PROVE ClaimLink'
    BY <2>5, <2>6, <2>19 DEF TurnHandsOff
  <2>20. ASSUME \/ (\E i \in Items : CancelItem(i)) \/ CancelSession \/ CreateUserRun
                \/ (\E S \in SUBSET Runs : RollbackBegins(S))
                \/ CreateChecksCancelled \/ SynthSteps \/ RollbackProviderDone
                \/ (\E r \in Runs : \/ CreateCommits(r)
                       \/ (\E st \in Settled : TurnEnds(r, st)) \/ TurnSettles(r)
                       \/ TurnRecovers(r) \/ TurnReleases(r)
                       \/ TurnFault(r) \/ TurnLost(r) \/ SynthArrives(r))
         PROVE  ClaimLink'
    <3>1. drain' = drain
      BY <2>20 DEF CancelItem, CancelSession, CreateUserRun, RollbackBegins,
          CreateChecksCancelled, SynthSteps, SynthParentEnded, SynthRefused, SynthRegisters,
          SynthCommits, RollbackProviderDone, CreateCommits, TurnEnds, TurnSettles,
          TurnRecovers, TurnReleases, TurnFault, TurnLost, SynthArrives
    <3>2. QED
      BY <2>5, <3>1
  <2>21. QED
    BY <1>2, <2>8, <2>9, <2>10, <2>11, <2>12, <2>13, <2>14, <2>15, <2>16,
       <2>16a, <2>16b, <2>17, <2>18, <2>19, <2>20
       DEF Next, Requests, CreatorSteps, PrepareSteps, TurnSteps, DrainSteps, RollbackSteps,
           Faults
<1>3. QED
  BY <1>1, <1>2

(* Once a drain has recovered, the only claim without a run is its own,    *)
(* whatever crashes, faults and cancels there are (queue/drain.ts 64-185,  *)
(* recoverOrphanedQueueItemClaims).                                        *)
THEOREM OnlyDrainClaimsAlways == Spec => []OnlyDrainClaims
<1>1. Init => ClaimLink
  BY DEF Init, IdleDrain, ClaimLink, Carrying
<1>2. IInv /\ ClaimLink /\ [Next]_vars => ClaimLink'
  <2>1. ASSUME IInv, ClaimLink, UNCHANGED vars PROVE ClaimLink'
    BY <2>1 DEF vars, ClaimLink
  <2>2. QED
    BY <2>1, ClaimLinkKept
<1>3. ClaimLink => OnlyDrainClaims
  BY DEF ClaimLink, Carrying, OnlyDrainClaims
<1>4. QED
  BY InitIInv, IInvKept, <1>1, <1>2, <1>3, PTL DEF Spec

-----------------------------------------------------------------------------
(* An item and its run. The statuses agree only because a run has one item *)
(* at most, a turn knows it, and the drain fails unbound items only; the   *)
(* last needs that a registered run is executed (~PreparationFails).       *)

Bound(i, r) == tables.item[i].run = r

OneItemPerRun ==
    \A i, j \in Items : Bound(i, tables.item[j].run) /\ ~Bound(i, NoRun) => i = j

Serves(r, i) ==
    tables.run[r] # "absent" /\ \A j \in Items : Bound(j, r) => j = i

TurnServes    == \A r \in Runs : turn[r].pc # "none" => Serves(r, turn[r].item)
CreatorServes == creator.pc = "committed" => Serves(creator.run, creator.item)
SynthServes   == synth.pc = "committed" => Serves(synth.run, NoItem)
FailsUnbound  == drain.pc = "failing" => Bound(drain.item, NoRun)

ItemInv == /\ ItemFollowsRun
           /\ OneItemPerRun
           /\ TurnServes
           /\ CreatorServes
           /\ SynthServes
           /\ FailsUnbound

(* A step moves unbound items, or starts a run with its item, or ends one  *)
(* with its item.                                                          *)
QueueMoves ==
    /\ tables'.run = tables.run
    /\ \A j \in Items : IF Bound(j, NoRun) THEN tables'.item[j].run = NoRun
                                           ELSE tables'.item[j] = tables.item[j]

StartsWith(r, i) ==
    /\ tables.run[r] = "absent"
    /\ tables'.run = [tables.run EXCEPT ![r] = "streaming"]
    /\ \A j \in Items : tables'.item[j] = IF j = i THEN [status |-> "running", run |-> r]
                                          ELSE tables.item[j]
    /\ i # NoItem => Bound(i, NoRun)

EndsWith(r, st) ==
    /\ tables.run[r] = "streaming"
    /\ tables'.run = [tables.run EXCEPT ![r] = st]
    /\ \A j \in Items : tables'.item[j] =
          IF Bound(j, r) THEN [status |-> QueueTerminalStatus(st), run |-> r]
                         ELSE tables.item[j]

ItemsStep ==
    \/ QueueMoves
    \/ \E r \in Runs, i \in Items \cup {NoItem} : StartsWith(r, i)
    \/ \E r \in Runs, st \in Settled : EndsWith(r, st)

LEMMA QueueMovesOf ==
    ASSUME IInv, NEW i \in Items, Bound(i, NoRun), NEW st \in ItemStatus,
           \/ tables' = SetItem(tables, i, st, NoRun)
           \/ tables' = [tables EXCEPT !.item[i].status = st]
    PROVE  QueueMoves
<1>1. tables \in Tables
  BY DEF IInv, TypeOK
<1>2. CASE tables' = SetItem(tables, i, st, NoRun)
  <2> DEFINE u == SetItem(tables, i, st, NoRun)
  <2>1. /\ u.run = tables.run
        /\ \A j \in Items : u.item[j] = IF j = i THEN [status |-> st, run |-> NoRun]
                                               ELSE tables.item[j]
    BY <1>1, SetItemType
  <2> HIDE DEF u
  <2>2. tables' = u
    BY <1>2 DEF u
  <2>3. QED
    BY <2>1, <2>2 DEF QueueMoves, Bound
<1>3. CASE tables' = [tables EXCEPT !.item[i].status = st]
  BY <1>1, <1>3 DEF QueueMoves, Bound, Tables, QueueItem
<1>4. QED
  BY <1>2, <1>3

LEMMA CancelMoves ==
    ASSUME IInv, NEW i \in Items, tables' = ProjectCancelled(tables, i)
    PROVE  QueueMoves
<1>1. CASE Startable(tables.item[i])
  <2>1. Bound(i, NoRun)
    BY <1>1 DEF Startable, Bound, IInv, TablesOK, UnclaimedUnbound
  <2>2. QED
    BY <1>1, <2>1, QueueMovesOf DEF ProjectCancelled, ItemStatus
<1>2. CASE ~Startable(tables.item[i])
  BY <1>2 DEF ProjectCancelled, QueueMoves, Bound
<1>3. QED
  BY <1>1, <1>2

LEMMA SettledEnds ==
    ASSUME IInv, OneItemPerRun, NEW r \in Runs, NEW st \in Settled, NEW i \in Items \cup {NoItem},
           tables.run[r] = "streaming",
           i # NoItem => Bound(i, r),
           i = NoItem => \A j \in Items : ~Bound(j, r),
           tables' = ProjectSettled(tables, r, st, i)
    PROVE  EndsWith(r, st)
<1>1. TablesOK(tables)
  BY DEF IInv
<1>2. \A j \in Items : tables'.item[j] =
          IF j = i THEN [status |-> QueueTerminalStatus(st), run |-> r] ELSE tables.item[j]
  BY <1>1, SettledItems
<1>3. tables'.run = [tables.run EXCEPT ![r] = st]
  BY <1>1, SettledFacts DEF Bound
<1>4. ASSUME NEW j \in Items PROVE Bound(j, r) <=> j = i
  <2>1. r # NoRun
    BY NullsAssumption
  <2>2. QED
    BY <2>1, NullsAssumption DEF Bound, OneItemPerRun
<1>5. QED
  BY <1>2, <1>3, <1>4 DEF EndsWith

LEMMA StreamingEnds ==
    ASSUME IInv, OneItemPerRun, NEW st \in Settled, tables' = SettleStreaming(tables, st)
    PROVE  ItemsStep
<1> DEFINE r == ActiveRun(tables)
<1>1. tables \in Tables
  BY DEF IInv, TypeOK
<1>2. CASE r = NoRun
  BY <1>2 DEF SettleStreaming, ItemsStep, QueueMoves, Bound
<1>3. CASE r # NoRun
  <2>1. r \in Runs /\ tables.run[r] = "streaming"
    BY <1>1, <1>3, ActiveRunFacts
  <2>2. /\ ItemOf(tables, r) \in Items \cup {NoItem}
        /\ ItemOf(tables, r) # NoItem => Bound(ItemOf(tables, r), r)
    BY <1>1, <2>1, ItemOfFacts DEF Bound
  <2>3. ItemOf(tables, r) = NoItem => \A j \in Items : ~Bound(j, r)
    BY NullsAssumption DEF ItemOf, Bound
  <2>4. tables' = ProjectSettled(tables, r, st, ItemOf(tables, r))
    BY <1>3 DEF SettleStreaming
  <2> HIDE DEF r
  <2>5. EndsWith(r, st)
    BY <2>1, <2>2, <2>3, <2>4, SettledEnds
  <2>6. QED
    BY <2>1, <2>5 DEF ItemsStep
<1>4. QED
  BY <1>2, <1>3

LEMMA StartedWith ==
    ASSUME IInv, NEW r \in Runs, NEW i \in Items \cup {NoItem},
           tables.run[r] = "absent",
           StartVerdict(DecisionState(tables), i) = "ok",
           tables' = ProjectRunStarted(tables, r, i)
    PROVE  StartsWith(r, i)
<1>1. tables \in Tables
  BY DEF IInv, TypeOK
<1>2. i # NoItem => Bound(i, NoRun)
  BY DEF StartVerdict, DecisionState, Startable, IInv, TablesOK, UnclaimedUnbound, Bound
<1>3. tables'.run = [tables.run EXCEPT ![r] = "streaming"]
  BY <1>1 DEF ProjectRunStarted, SetItem, Tables
<1>4. \A j \in Items : tables'.item[j] = IF j = i THEN [status |-> "running", run |-> r]
                                          ELSE tables.item[j]
  BY <1>1, NullsAssumption DEF ProjectRunStarted, SetItem, Tables
<1>5. QED
  BY <1>2, <1>3, <1>4 DEF StartsWith

(* What an action does to the items.                                       *)
LEMMA ItemRows == ASSUME ~PreparationFails, IInv, ItemInv, Next PROVE ItemsStep
<1>1. ASSUME NEW i \in Items, Enqueue(i) PROVE ItemsStep
  <2>1. Bound(i, NoRun)
    BY <1>1 DEF Enqueue, Bound, IInv, TablesOK, UnclaimedUnbound
  <2>2. QED
    BY <1>1, <2>1, QueueMovesOf DEF Enqueue, ProjectEnqueued, ItemStatus, ItemsStep
<1>2. ASSUME NEW i \in Items, CancelItem(i) PROVE ItemsStep
  BY <1>2, CancelMoves DEF CancelItem, ItemsStep
<1>3. ASSUME tables' = tables PROVE ItemsStep
  BY <1>3 DEF ItemsStep, QueueMoves, Bound
<1>4. ASSUME CancelSession PROVE ItemsStep
  <2>1. registry.pending.item \in Items \cup {NoItem} /\ "aborted" \in Settled
    BY DEF IInv, TypeOK, Registries, Pendings, Settled
  <2>2. \/ tables' = tables
        \/ registry.pending.item \in Items /\ tables' = ProjectCancelled(tables, registry.pending.item)
        \/ tables' = SettleStreaming(tables, "aborted")
    BY <1>4, <2>1 DEF CancelSession
  <2>3. QED
    BY <1>3, <2>1, <2>2, CancelMoves, StreamingEnds DEF ItemInv, ItemsStep
<1>5. ASSUME CreateCancelled PROVE ItemsStep
  <2>1. creator.item \in Items \cup {NoItem}
    BY DEF IInv, TypeOK, Creators
  <2>2. CASE creator.item = NoItem
    BY <1>3, <1>5, <2>2 DEF CreateCancelled
  <2>3. CASE creator.item \in Items
    BY <1>5, <2>3, CancelMoves, NullsAssumption DEF CreateCancelled, ItemsStep
  <2>4. QED
    BY <2>1, <2>2, <2>3
<1>6. ASSUME NEW r \in Runs, CreateCommits(r) PROVE ItemsStep
  <2>1. creator.item \in Items \cup {NoItem}
    BY DEF IInv, TypeOK, Creators
  <2>2. StartsWith(r, creator.item)
    BY <1>6, <2>1, StartedWith DEF CreateCommits
  <2>3. QED
    BY <2>1, <2>2 DEF ItemsStep
<1>7. ASSUME NEW r \in Runs, SynthCommits(r) PROVE ItemsStep
  BY <1>7, StartedWith DEF SynthCommits, ItemsStep
<1>8. ASSUME NEW r \in Runs, TurnSettles(r) PROVE ItemsStep
  <2>1. CASE TerminalVerdict(DecisionState(tables), r) # "ok"
    BY <1>3, <1>8, <2>1 DEF TurnSettles
  <2>2. CASE TerminalVerdict(DecisionState(tables), r) = "ok"
    <3>1. tables' = ProjectSettled(tables, r, turn[r].outcome, turn[r].item)
      BY <1>8, <2>2 DEF TurnSettles
    <3>2. tables.run[r] = "streaming"
      <4>1. ActiveRun(tables) = r
        BY <2>2 DEF TerminalVerdict, DecisionState
      <4>2. QED
        BY <4>1, ActiveRunFacts, NullsAssumption DEF IInv, TypeOK
    <3>3. /\ turn[r].item \in Items \cup {NoItem} /\ turn[r].outcome \in Settled
          /\ turn[r].item # NoItem => Bound(turn[r].item, r)
      BY <1>8 DEF IInv, TypeOK, Turns, TurnLink, TurnSettles, Bound
    <3>4. turn[r].item = NoItem => \A j \in Items : ~Bound(j, r)
      BY <1>8, NullsAssumption DEF TurnSettles, ItemInv, TurnServes, Serves
    <3>5. EndsWith(r, turn[r].outcome)
      BY <3>1, <3>2, <3>3, <3>4, SettledEnds DEF ItemInv
    <3>6. QED
      BY <3>3, <3>5 DEF ItemsStep
  <2>3. QED
    BY <2>1, <2>2
<1>9. ASSUME (\E r \in Runs : TurnRecovers(r)) \/ CrashAndRestart PROVE ItemsStep
  <2>1. PICK st \in Settled : tables' = SettleStreaming(tables, st)
    BY <1>9 DEF TurnRecovers, CrashAndRestart, InterruptedOutcomes, Settled
  <2>2. QED
    BY <2>1, StreamingEnds DEF ItemInv
<1>10. ASSUME DrainRecovers PROVE ItemsStep
  BY <1>10 DEF DrainRecovers, ReleaseOrphans, OrphanClaims, ItemsStep, QueueMoves, Bound,
               IInv, TypeOK, Tables
<1>11. ASSUME DrainClaims PROVE ItemsStep
  <2>1. drain.item \in Items
    BY <1>11 DEF IInv, DrainLink, DrainClaims
  <2>2. CASE tables' = tables
    BY <1>3, <2>2
  <2>3. CASE /\ tables.item[drain.item].status = "pending"
             /\ tables' = ProjectClaimed(tables, drain.item)
    <3>1. Bound(drain.item, NoRun)
      BY <2>1, <2>3 DEF Bound, IInv, TablesOK, UnclaimedUnbound
    <3>2. QED
      BY <2>1, <2>3, <3>1, QueueMovesOf DEF ProjectClaimed, ItemStatus, ItemsStep
  <2>4. QED
    BY <1>11, <2>2, <2>3 DEF DrainClaims, ClaimVerdict, DecisionState
<1>12. ASSUME DrainReleases PROVE ItemsStep
  <2>1. drain.item \in Items /\ Bound(drain.item, NoRun)
    BY <1>12 DEF IInv, DrainLink, DrainReleases, Bound
  <2>2. QED
    BY <1>12, <2>1, QueueMovesOf DEF DrainReleases, ProjectReleased, ItemStatus, ItemsStep
<1>13. ASSUME DrainFails PROVE ItemsStep
  <2>1. drain.item \in Items /\ Bound(drain.item, NoRun)
    BY <1>13 DEF IInv, DrainLink, DrainFails, ItemInv, FailsUnbound
  <2>2. QED
    BY <1>13, <2>1, QueueMovesOf DEF DrainFails, ProjectFailed, ItemStatus, ItemsStep
<1>14. ASSUME RollbackCommits PROVE ItemsStep
  <2>1. tables'.run = tables.run /\ tables'.item = tables.item
    BY <1>14 DEF RollbackCommits, ProjectRolledBack, IInv, TypeOK, Tables
  <2>2. QED
    BY <2>1 DEF ItemsStep, QueueMoves, Bound
<1>15. ASSUME \/ CreateUserRun \/ (\E S \in SUBSET Runs : RollbackBegins(S))
              \/ CreateFails \/ CreateChecksCancelled \/ CreateRefused \/ CreateRegisters
              \/ (\E r \in Runs : \/ PrepareSteps(r) \/ SynthArrives(r)
                                  \/ (\E st \in Settled : TurnEnds(r, st))
                                  \/ TurnReleases(r) \/ TurnHandsOff(r)
                                  \/ TurnFault(r) \/ TurnLost(r))
              \/ DrainWakes \/ DrainPicks \/ DrainCreates \/ DrainLeaves
              \/ DrainRenumbers \/ DrainFault \/ RenumberingFault
              \/ SynthParentEnded \/ SynthRefused \/ SynthRegisters
              \/ RollbackProviderDone \/ RollbackProviderFails
       PROVE  ItemsStep
  <2>1. tables' = tables
    BY <1>15 DEF CreateUserRun, RollbackBegins, CreateFails, CreateChecksCancelled,
        CreateRefused, CreateRegisters, PrepareSteps, Prepared, PreparationFailed,
        SynthArrives, TurnEnds, TurnReleases, TurnHandsOff, TurnFault, TurnLost, DrainWakes,
        DrainPicks, DrainCreates, DrainRenumbers, DrainLeaves, DrainFault, RenumberingFault,
        SynthParentEnded, SynthRefused, SynthRegisters, RollbackProviderDone,
        RollbackProviderFails
  <2>2. QED
    BY <1>3, <2>1
<1>16. QED
  BY <1>1, <1>2, <1>4, <1>5, <1>6, <1>7, <1>8, <1>9, <1>10, <1>11, <1>12, <1>13, <1>14, <1>15
     DEF Next, Requests, CreatorSteps, TurnSteps, DrainSteps, SynthSteps, RollbackSteps, Faults

(* The rows keep their part of the invariant, and whoever serves a run     *)
(* goes on serving it alone.                                               *)
LEMMA StoryKept ==
    ASSUME IInv, ItemFollowsRun, OneItemPerRun, ItemsStep, TablesOK(tables')
    PROVE  ItemFollowsRun' /\ OneItemPerRun'
<1>t. tables \in Tables /\ tables' \in Tables
  BY DEF IInv, TypeOK, TablesOK
<1>1. CASE QueueMoves
  <2>1. \A j \in Items : tables'.item[j].run = tables.item[j].run
    BY <1>1 DEF QueueMoves, Bound
  <2>2. \A j \in Items : tables.item[j].run # NoRun => tables'.item[j] = tables.item[j]
    BY <1>1 DEF QueueMoves, Bound
  <2>3. tables'.run = tables.run
    BY <1>1 DEF QueueMoves
  <2>4. ItemFollowsRun'
    BY <2>1, <2>2, <2>3 DEF ItemFollowsRun
  <2>5. OneItemPerRun'
    BY <2>1 DEF OneItemPerRun, Bound
  <2>6. QED
    BY <2>4, <2>5
<1>2. ASSUME NEW r \in Runs, NEW i \in Items \cup {NoItem}, StartsWith(r, i)
      PROVE  ItemFollowsRun' /\ OneItemPerRun'
  <2>1. \A j \in Items : ~Bound(j, r)
    BY <1>2, NullsAssumption DEF StartsWith, ItemFollowsRun, Bound, Settled
  <2>2. \A q \in Runs : tables'.run[q] = IF q = r THEN "streaming" ELSE tables.run[q]
    BY <1>2, <1>t DEF StartsWith, Tables
  <2>3. ASSUME NEW j \in Items
        PROVE  tables'.item[j] = IF j = i THEN [status |-> "running", run |-> r]
                                 ELSE tables.item[j]
    BY <1>2 DEF StartsWith
  <2>4. \A j \in Items : tables.item[j].run \in Runs \cup {NoRun}
    BY <1>t DEF Tables, QueueItem
  <2>5. ItemFollowsRun'
    BY <2>1, <2>2, <2>3, <2>4 DEF ItemFollowsRun, Bound
  <2>6. OneItemPerRun'
    BY <2>1, <2>3, NullsAssumption DEF OneItemPerRun, Bound
  <2>7. QED
    BY <2>5, <2>6
<1>3. ASSUME NEW r \in Runs, NEW st \in Settled, EndsWith(r, st)
      PROVE  ItemFollowsRun' /\ OneItemPerRun'
  <2>1. \A q \in Runs : tables'.run[q] = IF q = r THEN st ELSE tables.run[q]
    BY <1>3, <1>t DEF EndsWith, Tables
  <2>2. \A j \in Items : tables'.item[j] =
            IF tables.item[j].run = r THEN [status |-> QueueTerminalStatus(st), run |-> r]
            ELSE tables.item[j]
    BY <1>3 DEF EndsWith, Bound
  <2>3. \A j \in Items : tables.item[j].run \in Runs \cup {NoRun}
    BY <1>t DEF Tables, QueueItem
  <2>4. ItemFollowsRun'
    BY <2>1, <2>2, <2>3 DEF ItemFollowsRun
  <2>5. \A j \in Items : tables'.item[j].run = tables.item[j].run
    BY <2>2
  <2>6. OneItemPerRun'
    BY <2>5 DEF OneItemPerRun, Bound
  <2>7. QED
    BY <2>4, <2>6
<1>4. QED
  BY <1>1, <1>2, <1>3 DEF ItemsStep

LEMMA ServesKept ==
    ASSUME IInv, ItemsStep, TablesOK(tables'), NEW q \in Runs, NEW i, Serves(q, i)
    PROVE  Serves(q, i)'
<1>t. tables \in Tables
  BY DEF IInv, TypeOK
<1>1. CASE QueueMoves
  BY <1>1, NullsAssumption DEF QueueMoves, Serves, Bound
<1>2. ASSUME NEW r \in Runs, NEW k \in Items \cup {NoItem}, StartsWith(r, k)
      PROVE  Serves(q, i)'
  <2>1. r # q
    BY <1>2 DEF StartsWith, Serves
  <2>2. tables'.run[q] = tables.run[q]
    BY <1>2, <1>t, <2>1 DEF StartsWith, Tables
  <2>3. \A j \in Items : tables'.item[j].run = q => tables.item[j].run = q
    BY <1>2, <2>1 DEF StartsWith
  <2>4. QED
    BY <2>2, <2>3 DEF Serves, Bound
<1>3. ASSUME NEW r \in Runs, NEW st \in Settled, EndsWith(r, st) PROVE Serves(q, i)'
  <2>1. tables'.run[q] # "absent"
    BY <1>3, <1>t DEF EndsWith, Tables, Serves, Settled
  <2>2. \A j \in Items : tables'.item[j].run = tables.item[j].run
    BY <1>3 DEF EndsWith, Bound
  <2>3. QED
    BY <2>1, <2>2 DEF Serves, Bound
<1>4. QED
  BY <1>1, <1>2, <1>3 DEF ItemsStep

(* Who serves a run: createRun or the inbox, once it has committed, and    *)
(* then the turn they register.                                            *)
LEMMA CreatorServesKept ==
    ASSUME IInv, ItemInv, Next, ItemsStep, TablesOK(tables')
    PROVE  CreatorServes'
<1>t. creator \in Creators
  BY DEF IInv, TypeOK
<1>1. CASE creator' = creator
  <2>1. ASSUME creator.pc = "committed" PROVE Serves(creator.run, creator.item)'
    <3>1. creator.run \in Runs /\ Serves(creator.run, creator.item)
      BY <2>1 DEF IInv, CreatorLink, ItemInv, CreatorServes
    <3>2. PICK q, i : q = creator.run /\ i = creator.item
      OBVIOUS
    <3>3. Serves(q, i)'
      BY <3>1, <3>2, ServesKept
    <3>4. QED
      BY <1>1, <3>2, <3>3 DEF Serves, Bound
  <2>2. QED
    BY <1>1, <2>1 DEF CreatorServes
<1>2. ASSUME NEW r \in Runs, CreateCommits(r) PROVE CreatorServes'
  <2>1. creator.item \in Items \cup {NoItem}
    BY <1>t DEF Creators
  <2>2. StartsWith(r, creator.item)
    BY <1>2, <2>1, StartedWith DEF CreateCommits
  <2>3. \A j \in Items : ~Bound(j, r)
    BY <2>2, NullsAssumption DEF StartsWith, ItemInv, ItemFollowsRun, Bound, Settled
  <2>4. tables'.run[r] = "streaming"
    BY <2>2 DEF StartsWith, IInv, TypeOK, Tables
  <2>5. \A j \in Items : tables'.item[j].run = r => j = creator.item
    BY <2>2, <2>3 DEF StartsWith, Bound
  <2>6. creator'.run = r /\ creator'.item = creator.item
    BY <1>2, <1>t DEF CreateCommits, Creators
  <2>7. QED
    BY <2>4, <2>5, <2>6 DEF CreatorServes, Serves, Bound
<1>3. ASSUME creator'.pc # "committed" PROVE CreatorServes'
  BY <1>3 DEF CreatorServes
<1>4. ASSUME \/ CreateFails \/ CreateChecksCancelled \/ CreateCancelled \/ CreateRefused
             \/ CreateRegisters \/ CreateUserRun \/ DrainCreates \/ CrashAndRestart
      PROVE  CreatorServes'
  <2>1. creator'.pc # "committed" \/ creator' = creator
    BY <1>4, <1>t DEF CreateFails, CreateChecksCancelled, CreateCancelled, CreateRefused,
        RejectCreate, CreateRegisters, CreateUserRun, DrainCreates, BeginCreate,
        CrashAndRestart, IdleCreator, Creators
  <2>2. QED
    BY <1>1, <1>3, <2>1
<1>5. ASSUME \/ (\E i \in Items : Enqueue(i) \/ CancelItem(i)) \/ CancelSession
             \/ (\E S \in SUBSET Runs : RollbackBegins(S)) \/ RollbackSteps \/ SynthSteps
             \/ DrainWakes \/ DrainRecovers \/ DrainPicks \/ DrainClaims \/ DrainReleases
             \/ DrainFails \/ DrainRenumbers \/ DrainLeaves \/ DrainFault
             \/ RenumberingFault
             \/ (\E r \in Runs : \/ PrepareSteps(r) \/ TurnSteps(r) \/ SynthArrives(r)
                                 \/ TurnFault(r) \/ TurnLost(r))
      PROVE  CreatorServes'
  <2>1. creator' = creator
    BY <1>5 DEF Enqueue, CancelItem, CancelSession, RollbackBegins, RollbackSteps,
        RollbackProviderDone, RollbackProviderFails, RollbackCommits, SynthSteps,
        SynthParentEnded, SynthRefused, SynthRegisters, SynthCommits, DrainWakes,
        DrainRecovers, DrainPicks, DrainClaims, DrainReleases, DrainFails, DrainRenumbers,
        DrainLeaves,
        DrainFault, RenumberingFault, PrepareSteps, Prepared, PreparationFailed,
        TurnSteps, TurnEnds,
        TurnSettles, TurnRecovers, TurnReleases, TurnHandsOff, SynthArrives, TurnFault, TurnLost
  <2>2. QED
    BY <1>1, <2>1
<1>6. QED
  BY <1>2, <1>4, <1>5 DEF Next, Requests, CreatorSteps, DrainSteps, Faults

LEMMA SynthServesKept ==
    ASSUME IInv, ItemInv, Next, ItemsStep, TablesOK(tables')
    PROVE  SynthServes'
<1>t. synth \in Synths
  BY DEF IInv, TypeOK
<1>1. CASE synth' = synth
  <2>1. ASSUME synth.pc = "committed" PROVE Serves(synth.run, NoItem)'
    <3>1. synth.run \in Runs /\ Serves(synth.run, NoItem)
      BY <2>1 DEF IInv, SynthLink, ItemInv, SynthServes
    <3>2. PICK q : q = synth.run
      OBVIOUS
    <3>3. Serves(q, NoItem)'
      BY <3>1, <3>2, ServesKept
    <3>4. QED
      BY <1>1, <3>2, <3>3 DEF Serves, Bound
  <2>2. QED
    BY <1>1, <2>1 DEF SynthServes
<1>2. ASSUME NEW r \in Runs, SynthCommits(r) PROVE SynthServes'
  <2>1. StartsWith(r, NoItem)
    BY <1>2, StartedWith DEF SynthCommits
  <2>2. \A j \in Items : ~Bound(j, r)
    BY <2>1, NullsAssumption DEF StartsWith, ItemInv, ItemFollowsRun, Bound, Settled
  <2>3. tables'.run[r] = "streaming"
    BY <2>1 DEF StartsWith, IInv, TypeOK, Tables
  <2>4. \A j \in Items : tables'.item[j].run # r
    BY <2>1, <2>2, NullsAssumption DEF StartsWith, Bound
  <2>5. synth'.run = r
    BY <1>2, <1>t DEF SynthCommits, Synths
  <2>6. QED
    BY <2>3, <2>4, <2>5 DEF SynthServes, Serves, Bound
<1>3. ASSUME \/ SynthParentEnded \/ SynthRefused \/ SynthRegisters \/ CrashAndRestart
             \/ (\E r \in Runs : SynthArrives(r))
      PROVE  SynthServes'
  <2>1. synth'.pc # "committed"
    BY <1>3, <1>t DEF SynthParentEnded, SynthRefused, SynthRegisters, CrashAndRestart,
        SynthArrives, IdleSynth, Synths
  <2>2. QED
    BY <2>1 DEF SynthServes
<1>4. ASSUME \/ Requests \/ CreatorSteps \/ RollbackSteps \/ DrainSteps \/ DrainFault
             \/ RenumberingFault
             \/ (\E r \in Runs : PrepareSteps(r) \/ TurnSteps(r) \/ TurnFault(r) \/ TurnLost(r))
      PROVE  SynthServes'
  <2>1. synth' = synth
    BY <1>4 DEF Requests, Enqueue, CancelItem, CancelSession, CreateUserRun, RollbackBegins,
        CreatorSteps, CreateFails, CreateChecksCancelled, CreateCancelled, CreateRefused,
        CreateRegisters, CreateCommits, RollbackSteps, RollbackProviderDone,
        RollbackProviderFails, RollbackCommits, DrainSteps, DrainWakes, DrainRecovers,
        DrainPicks, DrainClaims, DrainCreates, DrainReleases, DrainFails, DrainRenumbers,
        DrainLeaves,
        DrainFault, RenumberingFault, PrepareSteps, Prepared, PreparationFailed,
        TurnSteps, TurnEnds,
        TurnSettles, TurnRecovers, TurnReleases, TurnHandsOff, TurnFault, TurnLost
  <2>2. QED
    BY <1>1, <2>1
<1>5. QED
  BY <1>2, <1>3, <1>4 DEF Next, SynthSteps, Faults

LEMMA TurnServesKept ==
    ASSUME ~PreparationFails, IInv, ItemInv, Next, ItemsStep, TablesOK(tables')
    PROVE  TurnServes'
<1>t. turn \in [Runs -> Turns]
  BY DEF IInv, TypeOK
<1>1. ASSUME NEW q \in Runs, NEW i, Serves(q, i), turn'[q].item = i
      PROVE  Serves(q, turn[q].item)'
  <2>1. Serves(q, i)'
    BY <1>1, ServesKept
  <2>2. QED
    BY <1>1, <2>1 DEF Serves, Bound
<1>2. ASSUME \A q \in Runs : turn'[q].pc # "none" =>
                  turn[q].pc # "none" /\ turn'[q].item = turn[q].item
      PROVE  TurnServes'
  <2>1. ASSUME NEW q \in Runs, turn'[q].pc # "none" PROVE Serves(q, turn[q].item)'
    <3>1. Serves(q, turn[q].item) /\ turn'[q].item = turn[q].item
      BY <1>2, <2>1 DEF ItemInv, TurnServes
    <3>2. QED
      BY <1>1, <3>1
  <2>2. QED
    BY <2>1 DEF TurnServes
<1>3. ASSUME NEW r \in Runs, NEW i, NEW kind, Serves(r, i),
             turn' = [turn EXCEPT ![r] = OpenTurn(i, kind)]
      PROVE  TurnServes'
  <2>1. ASSUME NEW q \in Runs, turn'[q].pc # "none" PROVE Serves(q, turn[q].item)'
    <3>1. CASE q = r
      BY <1>1, <1>3, <1>t, <3>1 DEF OpenTurn
    <3>2. CASE q # r
      BY <1>1, <1>3, <1>t, <2>1, <3>2 DEF ItemInv, TurnServes
    <3>3. QED
      BY <3>1, <3>2
  <2>2. QED
    BY <2>1 DEF TurnServes
<1>4. ASSUME CreateRegisters PROVE TurnServes'
  <2>1. creator.run \in Runs /\ Serves(creator.run, creator.item)
    BY <1>4 DEF CreateRegisters, IInv, CreatorLink, ItemInv, CreatorServes
  <2>2. QED
    BY <1>3, <1>4, <2>1 DEF CreateRegisters
<1>5. ASSUME SynthRegisters PROVE TurnServes'
  <2>1. synth.run \in Runs /\ Serves(synth.run, NoItem)
    BY <1>5 DEF SynthRegisters, IInv, SynthLink, ItemInv, SynthServes
  <2>2. QED
    BY <1>3, <1>5, <2>1 DEF SynthRegisters
<1>6. ASSUME NEW r \in Runs,
             \/ (\E st \in Settled : TurnEnds(r, st)) \/ TurnSettles(r) \/ TurnRecovers(r)
             \/ TurnReleases(r) \/ TurnHandsOff(r) \/ TurnFault(r) \/ TurnLost(r)
      PROVE  TurnServes'
  <2>1. turn[r].pc # "none"
    BY <1>6 DEF TurnEnds, TurnSettles, TurnRecovers, TurnReleases, TurnHandsOff, TurnFault,
                TurnLost
  <2>2. PICK u \in Turns : turn' = [turn EXCEPT ![r] = u] /\ u.item = turn[r].item
    <3>1. ASSUME NEW st \in Settled, TurnEnds(r, st) PROVE turn'[r].item = turn[r].item
      BY <1>t, <3>1 DEF TurnEnds, Turns
    <3>2. ASSUME TurnSettles(r) PROVE turn'[r].item = turn[r].item
      BY <1>t, <3>2 DEF TurnSettles, Turns
    <3>3. ASSUME \/ TurnRecovers(r) \/ TurnReleases(r) \/ TurnHandsOff(r) \/ TurnFault(r)
                 \/ TurnLost(r)
          PROVE  turn'[r].item = turn[r].item
      BY <1>t, <3>3 DEF TurnRecovers, TurnReleases, TurnHandsOff, TurnFault, TurnLost, Turns
    <3>4. turn'[r] \in Turns
      BY TypesKept DEF TypeOK
    <3>5. turn' = [turn EXCEPT ![r] = turn'[r]]
      BY <1>6, <1>t DEF TurnEnds, TurnSettles, TurnRecovers, TurnReleases, TurnHandsOff,
                        TurnFault, TurnLost
    <3>6. QED
      BY <1>6, <3>1, <3>2, <3>3, <3>4, <3>5
  <2>3. QED
    BY <1>2, <1>t, <2>1, <2>2
<1>7. ASSUME CrashAndRestart PROVE TurnServes'
  BY <1>2, <1>7 DEF CrashAndRestart, NoTurn, OpenTurn
<1>8. ASSUME \/ Requests \/ CreateFails \/ CreateChecksCancelled \/ CreateCancelled
             \/ CreateRefused \/ RollbackSteps \/ DrainSteps \/ DrainFault
             \/ RenumberingFault
             \/ SynthParentEnded \/ SynthRefused
             \/ (\E r \in Runs : CreateCommits(r) \/ SynthCommits(r)
                                 \/ PrepareSteps(r) \/ SynthArrives(r))
      PROVE  TurnServes'
  <2>1. turn' = turn
    BY <1>8 DEF Requests, Enqueue, CancelItem, CancelSession, CreateUserRun, RollbackBegins,
        CreateFails, CreateChecksCancelled, CreateCancelled, CreateRefused, RollbackSteps,
        RollbackProviderDone, RollbackProviderFails, RollbackCommits, DrainSteps, DrainWakes,
        DrainRecovers, DrainPicks, DrainClaims, DrainCreates, DrainReleases, DrainFails,
        DrainRenumbers,
        DrainLeaves, DrainFault, RenumberingFault, SynthParentEnded, SynthRefused,
        CreateCommits, SynthCommits,
        PrepareSteps, Prepared, PreparationFailed, SynthArrives
  <2>2. QED
    BY <1>2, <2>1
<1>9. QED
  BY <1>4, <1>5, <1>6, <1>7, <1>8 DEF Next, CreatorSteps, TurnSteps, SynthSteps, Faults

(* The drain fails items no run serves: createRun fails before it commits, *)
(* and binds nothing while the drain is elsewhere.                         *)
LEMMA FailsUnboundKept ==
    ASSUME ~PreparationFails, ~RenumberingFails, IInv, ItemInv, Next
    PROVE  FailsUnbound'
<1> USE DEF IInv
<1>t. /\ drain \in Drains /\ creator \in Creators
      /\ Scheduled(drain) \in Drains
      /\ Scheduled(drain).pc = drain.pc /\ Scheduled(drain).item = drain.item
  BY ScheduledFacts DEF TypeOK
<1>1. ASSUME NEW j \in Items, Bound(j, NoRun), ~ \E r \in Runs : CreateCommits(r)
      PROVE  Bound(j, NoRun)'
  BY <1>1, Bindings DEF Bound
<1>2. ASSUME drain.pc # "awaiting", NEW r \in Runs, CreateCommits(r), NEW j \in Items,
             Bound(j, NoRun)
      PROVE  Bound(j, NoRun)'
  <2>1. creator.item = NoItem
    BY <1>2 DEF CreatorLink
  <2>2. tables'.item = tables.item
    BY <1>2, <2>1 DEF CreateCommits, ProjectRunStarted, TypeOK, Tables
  <2>3. QED
    BY <1>2, <2>2 DEF Bound
<1>3. ASSUME drain'.pc = drain.pc, drain'.item = drain.item PROVE FailsUnbound'
  <2>1. ASSUME drain.pc = "failing" PROVE Bound(drain.item, NoRun)'
    <3>1. drain.item \in Items /\ Bound(drain.item, NoRun) /\ drain.pc # "awaiting"
      BY <2>1 DEF DrainLink, ItemInv, FailsUnbound
    <3>2. PICK j \in Items : j = drain.item
      BY <3>1
    <3>3. Bound(j, NoRun)'
      BY <1>1, <1>2, <3>1, <3>2
    <3>4. QED
      BY <1>3, <3>2, <3>3 DEF Bound
  <2>2. QED
    BY <1>3, <2>1 DEF FailsUnbound
<1>4. ASSUME drain'.pc # "failing" PROVE FailsUnbound'
  BY <1>4 DEF FailsUnbound
<1>5. ASSUME drain' \in {drain, Scheduled(drain)} PROVE FailsUnbound'
  BY <1>t, <1>3, <1>5
<1>6. ASSUME CreateFails \/ CreateCancelled \/ CreateRefused PROVE FailsUnbound'
  <2>1. PICK code : RejectCreate(code) /\ creator.pc # "committed"
    BY <1>6 DEF CreateFails, CreateCancelled, CreateRefused
  <2>2. CASE creator.item = NoItem
    BY <1>5, <2>1, <2>2 DEF RejectCreate
  <2>3. CASE creator.item # NoItem
    <3>1. /\ creator.item \in Items /\ drain.item = creator.item
          /\ Bound(creator.item, NoRun)
      BY <1>t, <2>1, <2>3 DEF CreatorLink, Creators, Bound
    <3>2. drain'.item = creator.item
      BY <1>t, <2>1, <2>3, <3>1 DEF RejectCreate, DrainAt, Drains
    <3>3. ~ \E r \in Runs : CreateCommits(r)
      <4>1. creator'.pc = "idle"
        BY <2>1 DEF RejectCreate, IdleCreator
      <4>2. QED
        BY <1>t, <4>1 DEF CreateCommits, Creators
    <3>4. PICK j \in Items : j = creator.item
      BY <3>1
    <3>5. Bound(j, NoRun)'
      BY <1>1, <3>1, <3>3, <3>4
    <3>6. QED
      BY <3>2, <3>4, <3>5 DEF FailsUnbound, Bound
  <2>4. QED
    BY <2>2, <2>3
<1>7. ASSUME CreateRegisters PROVE FailsUnbound'
  BY <1>3, <1>7, <1>t DEF CreateRegisters, Drains
<1>8. ASSUME NEW r \in Runs, PrepareSteps(r) PROVE FailsUnbound'
  <2>1. Prepared(r)
    BY <1>8 DEF PrepareSteps, PreparationFailed
  <2>2. drain' = drain \/ drain'.pc = "renumbering"
    BY <1>t, <2>1 DEF Prepared, Drains
  <2>3. QED
    BY <1>4, <1>5, <2>2
<1>9. ASSUME DrainWakes PROVE FailsUnbound'
  <2>1. drain'.item = drain.item /\ (drain'.pc = drain.pc \/ drain'.pc = "recovering")
    BY <1>9, <1>t DEF DrainWakes, Drains
  <2>2. QED
    BY <1>3, <1>4, <2>1
<1>10. ASSUME \/ DrainRecovers \/ DrainPicks \/ DrainClaims \/ DrainCreates \/ DrainReleases
              \/ DrainFails \/ DrainRenumbers \/ DrainFault
       PROVE  FailsUnbound'
  <2>1. drain'.pc # "failing"
    BY <1>10, <1>t DEF DrainRecovers, DrainPicks, DrainClaims, DrainCreates, DrainReleases,
        DrainFails, DrainRenumbers, DrainFault, DrainAt, DrainFree, Drains
  <2>2. QED
    BY <1>4, <2>1
<1>11. ASSUME DrainLeaves \/ CrashAndRestart PROVE FailsUnbound'
  <2>1. PICK d \in Drains : d.pc = "idle" /\ drain' \in {d, Scheduled(d)}
    <3>1. CASE DrainLeaves
      <4> DEFINE left == [DrainFree(drain, "idle") EXCEPT !.requested = FALSE]
      <4>1. left \in Drains /\ left.pc = "idle"
        BY <1>t DEF DrainFree, Drains
      <4>2. drain' \in {left, Scheduled(left)}
        BY <3>1 DEF DrainLeaves
      <4> HIDE DEF left
      <4>3. QED
        BY <4>1, <4>2
    <3>2. CASE CrashAndRestart
      BY <3>2, InitialTypes DEF CrashAndRestart, IdleDrain
    <3>3. QED
      BY <1>11, <3>1, <3>2
  <2>2. drain'.pc = "idle"
    BY <2>1, ScheduledFacts
  <2>3. QED
    BY <1>4, <2>2
<1>12. ASSUME \/ (\E i \in Items : Enqueue(i) \/ CancelItem(i)) \/ CancelSession
              \/ CreateUserRun \/ (\E S \in SUBSET Runs : RollbackBegins(S))
              \/ CreateChecksCancelled \/ SynthSteps \/ RollbackSteps
              \/ (\E r \in Runs : \/ CreateCommits(r) \/ TurnSteps(r)
                                  \/ TurnFault(r) \/ TurnLost(r) \/ SynthArrives(r))
       PROVE  FailsUnbound'
  <2>1. drain' \in {drain, Scheduled(drain)}
    BY <1>12 DEF Enqueue, CancelItem, CancelSession, CreateUserRun, RollbackBegins,
        CreateChecksCancelled, SynthSteps, SynthParentEnded, SynthRefused, SynthRegisters,
        SynthCommits, RollbackSteps, RollbackProviderDone, RollbackProviderFails,
        RollbackCommits, RollbackEnds, CreateCommits, TurnSteps, TurnEnds, TurnSettles,
        TurnRecovers, TurnReleases, TurnHandsOff, TurnFault, TurnLost, SynthArrives
  <2>2. QED
    BY <1>5, <2>1
<1>13. QED
  BY <1>6, <1>7, <1>8, <1>9, <1>10, <1>11, <1>12
     DEF Next, Requests, CreatorSteps, DrainSteps, Faults, RenumberingFault

LEMMA ItemStory ==
    ASSUME ~PreparationFails, ~RenumberingFails PROVE Spec => [](IInv /\ ItemInv)
<1>1. Init => ItemInv
  <2>1. ASSUME Init PROVE ItemInv
    BY <2>1, NullsAssumption
       DEF Init, EmptyTables, NoTurn, OpenTurn, IdleCreator, IdleSynth, IdleDrain, ItemInv,
           ItemFollowsRun, OneItemPerRun, TurnServes, CreatorServes, SynthServes,
           FailsUnbound, Bound
  <2>2. QED
    BY <2>1
<1>2. IInv /\ ItemInv /\ [Next]_vars => ItemInv'
  <2>1. ASSUME IInv, ItemInv, Next PROVE ItemInv'
    <3>1. ItemsStep /\ TablesOK(tables')
      BY <2>1, ItemRows, Rows DEF RowsStep
    <3>2. ItemFollowsRun' /\ OneItemPerRun'
      BY <2>1, <3>1, StoryKept DEF ItemInv
    <3>3. TurnServes' /\ CreatorServes' /\ SynthServes' /\ FailsUnbound'
      BY <2>1, <3>1, TurnServesKept, CreatorServesKept, SynthServesKept, FailsUnboundKept
    <3>4. QED
      BY <3>2, <3>3 DEF ItemInv
  <2>2. ASSUME ItemInv, UNCHANGED vars PROVE ItemInv'
    BY <2>2 DEF vars, ItemInv, ItemFollowsRun, OneItemPerRun, TurnServes, CreatorServes,
                SynthServes, FailsUnbound, Serves, Bound
  <2>3. QED
    BY <2>1, <2>2
<1>3. QED
  BY InitIInv, IInvKept, <1>1, <1>2, PTL DEF Spec

(* An item and the run that serves it tell the same story in every state,  *)
(* though cancel, recovery, the barrier and a restart end runs and items   *)
(* at once and no projection checks the other row (es/projectors.ts). It   *)
(* is false where createRun fails after its run is registered, or where    *)
(* the renumbering behind a started run fails: the drain's catch then      *)
(* fails the item of a run that streams or has ended (queue/drain.ts).     *)
(* Every other storage fault, and a crash at any point, is covered.        *)
THEOREM ItemFollowsRunAlways ==
    ASSUME ~PreparationFails, ~RenumberingFails PROVE Spec => []ItemFollowsRun
<1>1. ItemInv => ItemFollowsRun
  BY DEF ItemInv
<1>2. QED
  BY ItemStory, <1>1, PTL

(* Nothing changes an item once the run that served it has settled it: not *)
(* a late cancel, a drain that fails or releases what it holds, recovery   *)
(* or a restart, though all of them overwrite rows without looking at the  *)
(* run (es/projectors.ts, the projectQueueItem functions). The two faults  *)
(* that ItemFollowsRunAlways leaves out are left out here.                 *)
THEOREM ServedItemIsFinalAlways ==
    ASSUME ~PreparationFails, ~RenumberingFails PROVE Spec => ServedItemIsFinal
<1> DEFINE Keeps ==
        \A i \in Items : LET it == tables.item[i] IN
            it.run # NoRun /\ it.status \in ItemSettled => tables'.item[i] = it
<1>1. ASSUME IInv, ItemInv, Next PROVE Keeps
  <2>1. ItemsStep
    BY <1>1, ItemRows
  <2>2. ASSUME NEW i \in Items, tables.item[i].run # NoRun,
               tables.item[i].status \in ItemSettled
        PROVE  tables'.item[i] = tables.item[i]
    <3>1. CASE QueueMoves
      BY <2>2, <3>1 DEF QueueMoves, Bound
    <3>2. ASSUME NEW r \in Runs, NEW k \in Items \cup {NoItem}, StartsWith(r, k)
          PROVE  tables'.item[i] = tables.item[i]
      BY <2>2, <3>2, NullsAssumption DEF StartsWith, Bound
    <3>3. ASSUME NEW r \in Runs, NEW st \in Settled, EndsWith(r, st)
          PROVE  tables'.item[i] = tables.item[i]
      <4>1. ~Bound(i, r)
        BY <1>1, <2>2, <3>3 DEF EndsWith, ItemInv, ItemFollowsRun, Bound, ItemSettled, Settled
      <4>2. QED
        BY <3>3, <4>1 DEF EndsWith
    <3>4. QED
      BY <2>1, <3>1, <3>2, <3>3 DEF ItemsStep
  <2>3. QED
    BY <2>2
<1>2. IInv /\ ItemInv /\ [Next]_vars => [Keeps]_vars
  BY <1>1
<1>3. QED
  BY ItemStory, <1>2, PTL DEF Spec, ServedItemIsFinal

-----------------------------------------------------------------------------
(* A claim has a holder. The drain parts with the item it claimed only     *)
(* after giving it back, failing it, seeing it cancelled or having it      *)
(* bound; a crash or a fault of its own commits interrupts that.           *)

Holding == {"creating", "awaiting", "releasing", "failing"}

HolderInv ==
    /\ ClaimHasHolder
    /\ drain.run # NoRun => ~Bound(drain.item, NoRun)

LEMMA HolderKept ==
    ASSUME MaxCrashes = 0, MaxFaults = 0, IInv, HolderInv, Next
    PROVE  HolderInv'
<1>t. /\ drain \in Drains /\ creator \in Creators /\ TablesOK(tables)
      /\ Scheduled(drain) \in Drains /\ Scheduled(drain).pc = drain.pc
      /\ Scheduled(drain).item = drain.item /\ Scheduled(drain).run = drain.run
  BY ScheduledFacts DEF IInv, TypeOK
<1>h. /\ \A i \in OrphanClaims(tables) : drain.item = i /\ drain.pc \in Holding
      /\ drain.pc \notin Holding => OrphanClaims(tables) = {}
      /\ drain.run # NoRun => drain.pc \in Holding /\ drain.item \in Items
  BY DEF HolderInv, ClaimHasHolder, Holding, IInv, DrainLink
<1>f. /\ ~DrainFault /\ ~RenumberingFault /\ ~CrashAndRestart
      /\ \A r \in Runs : ~TurnFault(r) /\ ~TurnLost(r)
  BY DEF DrainFault, RenumberingFault, CrashAndRestart, TurnFault, TurnLost, Spend, IInv,
         TypeOK, Budgets
<1>1. ASSUME drain'.run = NoRun, OrphanClaims(tables') = {} PROVE HolderInv'
  BY <1>1 DEF HolderInv, ClaimHasHolder
<1>2. ASSUME OrphanClaims(tables') \subseteq OrphanClaims(tables), drain'.item = drain.item,
             drain'.run = drain.run,
             drain'.pc = drain.pc \/ drain'.pc \in Holding \/ drain.pc \notin Holding
      PROVE  HolderInv'
  <2>1. ClaimHasHolder'
    BY <1>2, <1>h DEF ClaimHasHolder, Holding
  <2>2. ASSUME drain.run # NoRun PROVE ~(Bound(drain.item, NoRun)')
    <3>1. drain.item \in Items /\ tables.item[drain.item].run # NoRun
      BY <1>h, <2>2 DEF HolderInv, Bound
    <3>2. tables'.item[drain.item].run # NoRun
      BY <3>1, Bindings
    <3>3. QED
      BY <1>2, <3>2 DEF Bound
  <2>3. QED
    BY <1>2, <2>1, <2>2 DEF HolderInv
<1>3. ASSUME drain' \in {drain, Scheduled(drain)}, ~DrainClaims PROVE HolderInv'
  BY <1>t, <1>2, <1>3, NoNewOrphans
<1>4. ASSUME DrainClaims PROVE HolderInv'
  <2>1. drain.item \in Items /\ OrphanClaims(tables) = {} /\ drain.run = NoRun
    BY <1>4, <1>h, <1>t DEF DrainClaims, IInv, DrainLink, Holding, Drains
  <2>2. CASE tables' = ProjectClaimed(tables, drain.item) /\ drain' = DrainAt(drain, "creating")
    <3>1. drain'.pc = "creating" /\ drain'.item = drain.item /\ drain'.run = NoRun
      BY <1>t, <2>1, <2>2 DEF DrainAt, Drains
    <3>2. OrphanClaims(tables') \subseteq {drain.item}
      BY <1>t, <2>1, <2>2, ItemOrphans
    <3>3. QED
      BY <3>1, <3>2 DEF HolderInv, ClaimHasHolder
  <2>3. CASE tables' = tables /\ drain' = DrainFree(drain, "picking")
    BY <1>1, <1>t, <2>1, <2>3 DEF DrainFree, Drains
  <2>4. QED
    BY <1>4, <2>2, <2>3 DEF DrainClaims
<1>5. ASSUME DrainReleases \/ DrainFails PROVE HolderInv'
  <2>1. drain.item \in Items /\ drain'.run = NoRun
    BY <1>5, <1>t DEF DrainReleases, DrainFails, DrainFree, IInv, DrainLink, Drains
  <2>2. OrphanClaims(tables') \subseteq OrphanClaims(tables) \ {drain.item}
    <3>1. CASE DrainFails
      BY <1>t, <2>1, <3>1, ItemOrphans DEF DrainFails
    <3>2. CASE DrainReleases
      <4>1. tables' = SetItem(tables, drain.item, "pending", NoRun)
        BY <3>2 DEF DrainReleases, ProjectReleased
      <4>2. tables'.item[drain.item].status = "pending"
        BY <1>t, <2>1, <4>1 DEF SetItem, TablesOK, Tables
      <4>3. drain.item \notin OrphanClaims(tables')
        BY <4>2 DEF OrphanClaims
      <4>4. QED
        BY <1>t, <2>1, <4>1, <4>3, ItemOrphans
    <3>3. QED
      BY <1>5, <3>1, <3>2
  <2>3. QED
    BY <1>1, <1>h, <2>1, <2>2
<1>5a. ASSUME DrainRenumbers PROVE HolderInv'
  <2>1. OrphanClaims(tables) = {} /\ drain.run = NoRun
    BY <1>5a, <1>h DEF DrainRenumbers, Holding
  <2>2. drain'.run = NoRun /\ tables' = tables
    BY <1>t, <1>5a DEF DrainRenumbers, DrainFree, Drains
  <2>3. QED
    BY <1>1, <2>1, <2>2
<1>6. ASSUME DrainRecovers \/ DrainPicks \/ DrainWakes \/ DrainLeaves PROVE HolderInv'
  <2>1. OrphanClaims(tables') \subseteq OrphanClaims(tables)
    BY <1>6, NoNewOrphans DEF DrainRecovers, DrainPicks, DrainWakes, DrainLeaves, DrainClaims
  <2>2. CASE DrainWakes
    <3>1. /\ drain'.item = drain.item /\ drain'.run = drain.run
          /\ drain'.pc = drain.pc \/ drain.pc = "idle"
      BY <1>t, <2>2 DEF DrainWakes, Idle, Drains
    <3>2. QED
      BY <1>2, <2>1, <3>1 DEF Holding
  <2>3. CASE DrainRecovers \/ DrainPicks \/ DrainLeaves
    <3>1. OrphanClaims(tables) = {} /\ drain.run = NoRun
      BY <1>h, <2>3 DEF DrainRecovers, DrainPicks, DrainLeaves, Holding
    <3>2. drain'.run = NoRun
      <4>1. CASE DrainRecovers \/ DrainPicks
        BY <1>t, <3>1, <4>1 DEF DrainRecovers, DrainPicks, DrainAt, DrainFree, Drains
      <4>2. CASE DrainLeaves
        <5> DEFINE left == [DrainFree(drain, "idle") EXCEPT !.requested = FALSE]
        <5>1. left \in Drains /\ left.run = NoRun
          BY <1>t DEF DrainFree, Drains
        <5>2. drain' \in {left, Scheduled(left)}
          BY <4>2 DEF DrainLeaves
        <5> HIDE DEF left
        <5>3. QED
          BY <5>1, <5>2, ScheduledFacts
      <4>3. QED
        BY <2>3, <4>1, <4>2
    <3>3. QED
      BY <1>1, <2>1, <3>1, <3>2
  <2>4. QED
    BY <1>6, <2>2, <2>3
<1>7. ASSUME DrainCreates PROVE HolderInv'
  <2>1. /\ drain'.item = drain.item /\ drain'.run = drain.run /\ drain'.pc \in Holding
    BY <1>7, <1>t DEF DrainCreates, DrainAt, Drains, Holding
  <2>2. OrphanClaims(tables') \subseteq OrphanClaims(tables)
    BY <1>7 DEF DrainCreates
  <2>3. QED
    BY <1>2, <2>1, <2>2
<1>8. ASSUME CreateFails \/ CreateCancelled \/ CreateRefused PROVE HolderInv'
  <2>0. /\ OrphanClaims(tables') \subseteq OrphanClaims(tables)
        /\ ~DrainClaims
    <3>1. ~DrainClaims
      <4>1. ASSUME DrainClaims PROVE FALSE
        BY <1>8, <4>1 DEF CreateFails, CreateCancelled, CreateRefused, RejectCreate,
            DrainClaims, IdleCreator
      <4>2. QED
        BY <4>1
    <3>2. QED
      BY <3>1, NoNewOrphans
  <2>1. CASE creator.item = NoItem
    <3>1. drain' \in {drain, Scheduled(drain)}
      BY <1>8, <2>1 DEF CreateFails, CreateCancelled, CreateRefused, RejectCreate
    <3>2. QED
      BY <1>3, <2>0, <3>1
  <2>2. CASE creator.item # NoItem
    <3>1. drain.pc = "awaiting" /\ drain.item = creator.item /\ drain.run = NoRun
      BY <2>2 DEF IInv, CreatorLink
    <3>2. ASSUME NEW code, RejectCreate(code)
          PROVE  drain'.item = drain.item /\ drain'.run = NoRun /\ drain'.pc = AfterError(code)
      <4>1. PICK woken \in {drain, Scheduled(drain)} : drain' = DrainAt(woken, AfterError(code))
        BY <2>2, <3>2 DEF RejectCreate
      <4>2. QED
        BY <1>t, <3>1, <4>1 DEF DrainAt, Drains
    <3>3. CASE CreateFails \/ CreateRefused
      <4>1. PICK code \in {"failed", "chat_run_in_progress", "queue_item_not_pending"} :
                RejectCreate(code)
        BY <3>3 DEF CreateFails, CreateRefused, StartVerdict
      <4>2. drain'.pc \in Holding
        BY <3>2, <4>1 DEF AfterError, Holding
      <4>3. QED
        BY <1>2, <2>0, <3>1, <3>2, <4>1, <4>2
    <3>4. CASE CreateCancelled
      <4>1. tables' = ProjectCancelled(tables, creator.item) /\ creator.item \in Items
        BY <1>t, <2>2, <3>4 DEF CreateCancelled, Creators
      <4>2. creator.item \notin OrphanClaims(tables')
        BY <1>t, <4>1 DEF ProjectCancelled, Startable, OrphanClaims, TablesOK, Tables, QueueItem
      <4>3. OrphanClaims(tables') = {}
        BY <1>h, <2>0, <3>1, <4>2
      <4>4. QED
        BY <1>1, <3>2, <3>4, <4>3 DEF CreateCancelled
    <3>5. QED
      BY <1>8, <3>3, <3>4
  <2>3. QED
    BY <2>1, <2>2
<1>9. ASSUME CreateRegisters PROVE HolderInv'
  <2>1. CASE creator.item = NoItem
    <3>1. drain' = drain /\ tables' = tables
      BY <1>9, <2>1 DEF CreateRegisters
    <3>2. QED
      BY <1>2, <3>1
  <2>2. CASE creator.item # NoItem
    <3>1. /\ drain.item = creator.item /\ creator.run \in Runs
          /\ tables.item[creator.item].run = creator.run
      BY <1>9, <2>2 DEF CreateRegisters, IInv, CreatorLink
    <3>2. drain'.pc = drain.pc /\ drain'.item = drain.item /\ tables' = tables
      BY <1>9, <1>t, <2>2 DEF CreateRegisters, Drains
    <3>3. ClaimHasHolder'
      BY <3>2 DEF HolderInv, ClaimHasHolder
    <3>4. ~(Bound(drain.item, NoRun)')
      BY <3>1, <3>2, NullsAssumption DEF Bound
    <3>5. QED
      BY <3>2, <3>3, <3>4 DEF HolderInv, Bound
  <2>3. QED
    BY <2>1, <2>2
<1>10. ASSUME NEW r \in Runs, PrepareSteps(r) PROVE HolderInv'
  <2>1. tables' = tables
    BY <1>10 DEF PrepareSteps, Prepared, PreparationFailed
  <2>2. CASE drain.run # r
    <3>1. drain' \in {drain, Scheduled(drain)}
      BY <1>10, <2>2 DEF PrepareSteps, Prepared, PreparationFailed
    <3>2. QED
      BY <1>2, <1>t, <2>1, <3>1
  <2>3. CASE drain.run = r
    <3>1. drain.run # NoRun /\ drain.item \notin OrphanClaims(tables)
      BY <2>3, NullsAssumption DEF HolderInv, Bound, OrphanClaims
    <3>2. OrphanClaims(tables') = {}
      BY <1>h, <2>1, <3>1
    <3>3. CASE Prepared(r)
      BY <1>1, <1>t, <2>3, <3>2, <3>3 DEF Prepared, Drains
    <3>4. CASE PreparationFailed(r)
      <4>1. /\ drain'.item = drain.item /\ drain'.run = drain.run /\ drain'.pc = "failing"
        BY <1>t, <2>3, <3>4 DEF PreparationFailed, DrainAt, Drains
      <4>2. QED
        BY <1>2, <2>1, <4>1 DEF Holding
    <3>5. QED
      BY <1>10, <3>3, <3>4 DEF PrepareSteps
  <2>4. QED
    BY <2>2, <2>3
<1>11. ASSUME \/ Requests \/ RollbackSteps \/ SynthSteps \/ CreateChecksCancelled
              \/ (\E r \in Runs : CreateCommits(r) \/ TurnSteps(r) \/ SynthArrives(r))
       PROVE  HolderInv'
  <2>1. drain' \in {drain, Scheduled(drain)}
    BY <1>11 DEF Requests, Enqueue, CancelItem, CancelSession, CreateUserRun, RollbackBegins,
        RollbackSteps, RollbackProviderDone, RollbackProviderFails, RollbackCommits,
        RollbackEnds, SynthSteps, SynthParentEnded, SynthRefused, SynthRegisters,
        SynthCommits, CreateChecksCancelled, CreateCommits, TurnSteps, TurnEnds, TurnSettles,
        TurnRecovers, TurnReleases, TurnHandsOff, SynthArrives
  <2>2. QED
    BY <1>3, <1>4, <2>1
<1>12. QED
  BY <1>f, <1>4, <1>5, <1>5a, <1>6, <1>7, <1>8, <1>9, <1>10, <1>11
     DEF Next, CreatorSteps, DrainSteps, Faults

(* Without crashes and storage faults a claimed item that no run serves    *)
(* yet is in the drain's hands, in every interleaving with cancels, user   *)
(* turns, synthetic turns and rollbacks and whether or not preparations    *)
(* fail: no error path of createQueuedRun forgets it (queue/drain.ts).     *)
(* OnlyDrainClaimsAlways says what is left of it after a crash or a fault. *)
THEOREM ClaimHasHolderAlways ==
    ASSUME MaxCrashes = 0, MaxFaults = 0 PROVE Spec => []ClaimHasHolder
<1>1. Init => HolderInv
  BY DEF Init, IdleDrain, EmptyTables, OrphanClaims, HolderInv, ClaimHasHolder
<1>2. IInv /\ HolderInv /\ [Next]_vars => HolderInv'
  <2>1. ASSUME HolderInv, UNCHANGED vars PROVE HolderInv'
    BY <2>1 DEF vars, HolderInv, ClaimHasHolder, Bound
  <2>2. QED
    BY <2>1, HolderKept
<1>3. HolderInv => ClaimHasHolder
  BY DEF HolderInv
<1>4. QED
  BY InitIInv, IInvKept, <1>1, <1>2, <1>3, PTL DEF Spec
=============================================================================
