--------------------------- MODULE RegistryProofs ----------------------------
(***************************************************************************)
(* The live registry against the durable rows, for every set of runs and   *)
(* items and every bound: which handler answers for a streaming run, what  *)
(* a registered run may assume of its row, who still looks at the queue    *)
(* and what a rollback excludes.                                           *)
(***************************************************************************)
EXTENDS QueueItemProofs

-----------------------------------------------------------------------------
(* The invariant. The registry is one index, one pending slot and one      *)
(* maintenance flag, each written by several handlers; it is right because *)
(* each part has one holder and the holder's program counter says which.   *)

Live == {"open", "settling", "recovering", "abandoned"}

(* A registered run whose turn has not settled streams, and has the index. *)
LiveRunStreams ==
    \A r \in Runs : turn[r].pc \in Live =>
        tables.run[r] = "streaming" /\ registry.index = r /\ r \in registry.active

(* A committed run that is not registered yet streams, and has no turn.    *)
UnregisteredRunStreams ==
    /\ creator.pc = "committed" =>
          tables.run[creator.run] = "streaming" /\ turn[creator.run].pc = "none"
    /\ synth.pc = "committed" =>
          tables.run[synth.run] = "streaming" /\ turn[synth.run].pc = "none"
    /\ creator.pc = "committed" => synth.pc # "committed"

AbsentHasNoTurn == \A r \in Runs : tables.run[r] = "absent" => turn[r].pc = "none"

IndexHasTurn ==
    \A r \in Runs : registry.index = r => turn[r].pc \in Live \cup {"durable"}

(* The pending slot is createRun's, the maintenance flag the rollback's,   *)
(* and no run is set up while another resolves the provider's input.       *)
SlotsAreHeld ==
    /\ registry.pending.held <=> creator.pc # "idle"
    /\ registry.maint <=> rollback.pc # "idle"
    /\ preparing # {} => creator.pc = "idle"
    /\ \A r \in preparing : turn[r].pc = "open"

MessageStreams == \A r \in Streaming(tables) : tables.msg[r] = "streaming"

Ownership == /\ LiveRunStreams
             /\ UnregisteredRunStreams
             /\ OrphansAreKnown
             /\ AbsentHasNoTurn
             /\ IndexHasTurn

RegInv == Ownership /\ SlotsAreHeld /\ MessageStreams

-----------------------------------------------------------------------------
LEMMA RegTypes ==
    ASSUME IInv
    PROVE  /\ tables \in Tables /\ OneStreaming(tables)
           /\ registry \in Registries /\ creator \in Creators /\ synth \in Synths
           /\ rollback \in Rollbacks /\ preparing \subseteq Runs
           /\ turn \in [Runs -> Turns]
           /\ creator.pc = "committed" => creator.run \in Runs
           /\ synth.pc = "committed" => synth.run \in Runs
BY DEF IInv, TypeOK, TablesOK, CreatorLink, SynthLink

LEMMA StreamingFacts ==
    ASSUME NEW t, NEW r
    PROVE  r \in Streaming(t) <=> r \in Runs /\ t.run[r] = "streaming"
BY DEF Streaming

(* A run that is being registered has no turn, so a live turn is another.  *)
LEMMA LiveFacts ==
    ASSUME IInv, RegInv, NEW r \in Runs, turn[r].pc \in Live
    PROVE  /\ ActiveRun(tables) = r
           /\ creator.pc # "committed" /\ synth.pc # "committed"
           /\ \A q \in Runs : turn[q].pc \in Live => q = r
<1>1. tables.run[r] = "streaming" /\ registry.index = r
  BY DEF RegInv, Ownership, LiveRunStreams
<1>2. ActiveRun(tables) = r
  BY <1>1, RegTypes, ActiveRunUnique
<1>3. \A q \in Runs : tables.run[q] = "streaming" => q = r
  BY <1>1, RegTypes DEF OneStreaming
<1>4. creator.pc # "committed" /\ synth.pc # "committed"
  BY <1>3, RegTypes DEF RegInv, Ownership, UnregisteredRunStreams, Live
<1>5. \A q \in Runs : turn[q].pc \in Live => q = r
  BY <1>3 DEF RegInv, Ownership, LiveRunStreams
<1>6. QED
  BY <1>2, <1>4, <1>5

(* Nobody streams once the streaming run is ended from outside its turn.   *)
LEMMA NobodyStreams ==
    ASSUME IInv, NEW st \in Settled, tables' = SettleStreaming(tables, st)
    PROVE  /\ Streaming(tables') = {}
           /\ \A q \in Runs : tables'.run[q] = "absent" => tables.run[q] = "absent"
<1>1. TablesOK(tables)
  BY DEF IInv
<1>2. \/ tables' = tables
      \/ /\ ActiveRun(tables) \in Runs
         /\ tables'.run = [tables.run EXCEPT ![ActiveRun(tables)] = st]
  BY <1>1, SettleStreamingFacts
<1>3. CASE ActiveRun(tables) = NoRun
  BY <1>2, <1>3, RegTypes, ActiveRunFacts, NullsAssumption DEF Streaming
<1>4. CASE ActiveRun(tables) # NoRun
  <2> DEFINE r == ActiveRun(tables)
  <2>1. r \in Runs /\ tables.run[r] = "streaming"
    BY <1>4, RegTypes, ActiveRunFacts
  <2>2. tables'.run = [tables.run EXCEPT ![r] = st]
    <3>1. tables' = ProjectSettled(tables, r, st, ItemOf(tables, r))
      BY <1>4 DEF SettleStreaming
    <3>2. /\ ItemOf(tables, r) \in Items \cup {NoItem}
          /\ ItemOf(tables, r) # NoItem => tables.item[ItemOf(tables, r)].run = r
      BY <2>1, RegTypes, ItemOfFacts
    <3>3. QED
      BY <1>1, <2>1, <3>1, <3>2, SettledFacts
  <2> HIDE DEF r
  <2>3. \A q \in Runs : tables'.run[q] = IF q = r THEN st ELSE tables.run[q]
    BY <2>1, <2>2, RegTypes DEF Tables
  <2>4. \A q \in Runs : tables.run[q] = "streaming" => q = r
    BY <2>1, RegTypes DEF OneStreaming
  <2>5. st # "streaming" /\ st # "absent"
    BY DEF Settled
  <2>6. QED
    BY <2>1, <2>3, <2>4, <2>5 DEF Streaming
<1>5. QED
  BY <1>3, <1>4

-----------------------------------------------------------------------------
(* Ownership, group by group.                                              *)

(* What a handler may change without touching any run.                     *)
SameOwners ==
    /\ tables'.run = tables.run
    /\ turn' = turn
    /\ registry'.index = registry.index /\ registry'.active = registry.active
    /\ creator'.pc = "committed" <=> creator.pc = "committed"
    /\ creator.pc = "committed" => creator'.run = creator.run
    /\ synth'.pc = "committed" <=> synth.pc = "committed"
    /\ synth.pc = "committed" => synth'.run = synth.run

LEMMA SameOwnersKeep == ASSUME RegInv, SameOwners PROVE Ownership'
<1> USE DEF RegInv, Ownership, SameOwners
<1>1. LiveRunStreams'
  BY DEF LiveRunStreams
<1>2. UnregisteredRunStreams'
  BY DEF UnregisteredRunStreams
<1>3. OrphansAreKnown'
  BY DEF OrphansAreKnown, Streaming
<1>4. AbsentHasNoTurn' /\ IndexHasTurn'
  BY DEF AbsentHasNoTurn, IndexHasTurn
<1>5. QED
  BY <1>1, <1>2, <1>3, <1>4

(* A run starts: createRun's commit or the synthetic inbox's.              *)
LEMMA StartKeepsOwners ==
    ASSUME IInv, RegInv, NEW r \in Runs, NEW i, Starts(r, i),
           turn' = turn, registry' = registry,
           \/ creator'.pc = "committed" /\ creator'.run = r /\ synth' = synth
           \/ synth'.pc = "committed" /\ synth'.run = r /\ creator' = creator
    PROVE  Ownership'
<1> USE DEF RegInv, Ownership
<1>1. \A q \in Runs : tables'.run[q] = IF q = r THEN "streaming" ELSE tables.run[q]
  BY RegTypes DEF Starts, Tables
<1>2. /\ \A q \in Runs : tables.run[q] # "streaming"
      /\ turn[r].pc = "none"
  BY DEF Starts, AbsentHasNoTurn
<1>3. \A q \in Runs : turn[q].pc \notin Live
  BY <1>2 DEF LiveRunStreams
<1>4. creator.pc # "committed" /\ synth.pc # "committed"
  BY <1>2, RegTypes DEF UnregisteredRunStreams
<1>5. LiveRunStreams'
  BY <1>3 DEF LiveRunStreams
<1>6. UnregisteredRunStreams'
  BY <1>1, <1>2, <1>4 DEF UnregisteredRunStreams
<1>7. OrphansAreKnown'
  BY <1>1, <1>2 DEF OrphansAreKnown, Streaming
<1>8. AbsentHasNoTurn' /\ IndexHasTurn'
  BY <1>1 DEF AbsentHasNoTurn, IndexHasTurn
<1>9. QED
  BY <1>5, <1>6, <1>7, <1>8

(* The committed run gets its turn and the index.                          *)
LEMMA RegisterKeepsOwners ==
    ASSUME IInv, RegInv, NEW r \in Runs, NEW u \in Turns, u.pc = "open",
           tables' = tables,
           turn' = [turn EXCEPT ![r] = u],
           registry'.index = r, registry'.active = registry.active \cup {r},
           \/ creator.pc = "committed" /\ creator.run = r /\ creator'.pc = "idle"
              /\ synth' = synth
           \/ synth.pc = "committed" /\ synth.run = r /\ synth'.pc = "idle"
              /\ creator' = creator
    PROVE  Ownership'
<1> USE DEF RegInv, Ownership
<1>1. \A q \in Runs : turn'[q] = IF q = r THEN u ELSE turn[q]
  BY RegTypes
<1>2. tables.run[r] = "streaming" /\ turn[r].pc = "none"
  BY DEF UnregisteredRunStreams
<1>3. \A q \in Runs : q # r => tables.run[q] # "streaming"
  BY <1>2, RegTypes DEF OneStreaming
<1>4. \A q \in Runs : turn[q].pc \notin Live
  BY <1>2, <1>3 DEF LiveRunStreams, Live
<1>5. creator'.pc # "committed" /\ synth'.pc # "committed"
  BY DEF UnregisteredRunStreams
<1>6. LiveRunStreams'
  BY <1>1, <1>2, <1>4 DEF LiveRunStreams
<1>7. UnregisteredRunStreams'
  BY <1>5 DEF UnregisteredRunStreams
<1>8. OrphansAreKnown'
  BY <1>1, <1>3 DEF OrphansAreKnown, Streaming
<1>9. AbsentHasNoTurn' /\ IndexHasTurn'
  BY <1>1, <1>2 DEF AbsentHasNoTurn, IndexHasTurn, Live
<1>10. QED
  BY <1>6, <1>7, <1>8, <1>9

(* A live turn goes on without its row changing, and may leave it behind.  *)
LEMMA LiveTurnMoves ==
    ASSUME IInv, RegInv, NEW r \in Runs, turn[r].pc \in Live,
           tables'.run = tables.run, creator' = creator, synth' = synth,
           \A q \in Runs \ {r} : turn'[q] = turn[q],
           \/ turn'[r].pc \in Live /\ registry'.index = registry.index
              /\ registry'.active = registry.active
           \/ turn'[r].pc = "lost" /\ registry'.index = NoRun
    PROVE  Ownership'
<1> USE DEF RegInv, Ownership
<1>1. /\ tables.run[r] = "streaming" /\ registry.index = r /\ r \in registry.active
      /\ creator.pc # "committed" /\ synth.pc # "committed"
      /\ \A q \in Runs : turn[q].pc \in Live => q = r
  BY LiveFacts DEF LiveRunStreams
<1>2. LiveRunStreams'
  BY <1>1 DEF LiveRunStreams, Live
<1>3. UnregisteredRunStreams'
  BY <1>1 DEF UnregisteredRunStreams
<1>4. \A q \in Runs : tables.run[q] = "streaming" => q = r
  BY <1>1, RegTypes DEF OneStreaming
<1>5. OrphansAreKnown'
  BY <1>1, <1>4 DEF OrphansAreKnown, Streaming, Live
<1>6. AbsentHasNoTurn'
  BY <1>1 DEF AbsentHasNoTurn
<1>7. IndexHasTurn'
  BY <1>1, NullsAssumption DEF IndexHasTurn
<1>8. QED
  BY <1>2, <1>3, <1>5, <1>6, <1>7

(* A live turn ends with its row, and is durable.                          *)
LEMMA LiveTurnEnds ==
    ASSUME IInv, RegInv, NEW r \in Runs, turn[r].pc \in Live,
           Streaming(tables') = {},
           \A q \in Runs : tables'.run[q] = "absent" => tables.run[q] = "absent",
           turn' = [turn EXCEPT ![r].pc = "durable"],
           registry' = registry, creator' = creator, synth' = synth
    PROVE  Ownership'
<1> USE DEF RegInv, Ownership
<1>0. \A q \in Runs : turn'[q].pc = IF q = r THEN "durable" ELSE turn[q].pc
  BY RegTypes DEF Turns
<1>1. /\ tables.run[r] = "streaming" /\ registry.index = r
      /\ creator.pc # "committed" /\ synth.pc # "committed"
      /\ \A q \in Runs : turn[q].pc \in Live => q = r
  BY LiveFacts DEF LiveRunStreams
<1>2. LiveRunStreams'
  BY <1>0, <1>1 DEF LiveRunStreams, Live
<1>3. UnregisteredRunStreams' /\ OrphansAreKnown'
  BY <1>1 DEF UnregisteredRunStreams, OrphansAreKnown
<1>4. AbsentHasNoTurn'
  BY <1>0, <1>1 DEF AbsentHasNoTurn
<1>5. IndexHasTurn'
  BY <1>0 DEF IndexHasTurn
<1>6. QED
  BY <1>2, <1>3, <1>4, <1>5

(* A settled turn goes on: it gives the index up before it hands off.      *)
LEMMA SettledTurnMoves ==
    ASSUME IInv, RegInv, NEW r \in Runs,
           tables' = tables, creator' = creator, synth' = synth,
           \/ turn[r].pc = "durable" /\ registry' = Released(r)
              /\ turn' = [turn EXCEPT ![r].pc = "released"]
           \/ turn[r].pc = "released" /\ registry' = registry
              /\ turn' = [turn EXCEPT ![r].pc = "done"]
    PROVE  Ownership'
<1> USE DEF RegInv, Ownership
<1>1. /\ turn'[r].pc \in {"released", "done"}
      /\ \A q \in Runs \ {r} : turn'[q] = turn[q]
      /\ turn[r].pc \in {"durable", "released"}
  BY RegTypes DEF Turns
<1>2. /\ registry'.index = IF registry.index = r THEN NoRun ELSE registry.index
      /\ \A q \in Runs \ {r} : q \in registry.active <=> q \in registry'.active
  <2>1. CASE registry' = Released(r)
    BY <2>1, RegTypes DEF Released, Registries
  <2>2. CASE registry' = registry /\ turn[r].pc = "released"
    BY <2>2 DEF IndexHasTurn, Live
  <2>3. QED
    BY <2>1, <2>2
<1>3. LiveRunStreams'
  BY <1>1, <1>2 DEF LiveRunStreams, Live
<1>4. UnregisteredRunStreams'
  <2>1. creator.pc = "committed" => creator.run # r
    BY <1>1 DEF UnregisteredRunStreams
  <2>2. synth.pc = "committed" => synth.run # r
    BY <1>1 DEF UnregisteredRunStreams
  <2>3. QED
    BY <1>1, <2>1, <2>2, RegTypes DEF UnregisteredRunStreams
<1>5. OrphansAreKnown'
  BY <1>1, <1>2 DEF OrphansAreKnown, Streaming, Live
<1>6. AbsentHasNoTurn'
  BY <1>1 DEF AbsentHasNoTurn
<1>7. IndexHasTurn'
  BY <1>1, <1>2, NullsAssumption DEF IndexHasTurn
<1>8. QED
  BY <1>3, <1>4, <1>5, <1>6, <1>7

LEMMA OwnershipKept == ASSUME IInv, RegInv, Next PROVE Ownership'
<1>t. /\ registry \in Registries /\ creator \in Creators /\ synth \in Synths
      /\ turn \in [Runs -> Turns] /\ tables \in Tables
      /\ creator.item \in Items \cup {NoItem}
  BY RegTypes DEF Creators
<1>1. ASSUME \/ (\E i \in Items : Enqueue(i) \/ CancelItem(i))
             \/ DrainRecovers \/ DrainClaims \/ DrainReleases \/ DrainFails
             \/ DrainRenumbers
             \/ RollbackCommits
      PROVE  Ownership'
  <2>1. tables'.run = tables.run
    BY <1>1, <1>t DEF Enqueue, ProjectEnqueued, SetItem, CancelItem, ProjectCancelled,
        DrainRecovers, ReleaseOrphans, DrainClaims, ProjectClaimed, DrainReleases,
        ProjectReleased, DrainFails, DrainRenumbers, ProjectFailed, RollbackCommits,
        ProjectRolledBack, Tables
  <2>2. /\ turn' = turn /\ creator' = creator /\ synth' = synth
        /\ registry'.index = registry.index /\ registry'.active = registry.active
    BY <1>1, <1>t DEF Enqueue, CancelItem, DrainRecovers, DrainClaims, DrainReleases,
        DrainFails, DrainRenumbers, RollbackCommits, RollbackEnds, Registries
  <2>3. QED
    BY <2>1, <2>2, SameOwnersKeep DEF SameOwners
<1>2. ASSUME CancelSession PROVE Ownership'
  <2>1. turn' = turn /\ creator' = creator /\ synth' = synth /\ registry.index = NoRun
    BY <1>2 DEF CancelSession, NobodyRegistered
  <2>2. CASE registry.pending.held
    <3>1. registry.pending.item \in Items \cup {NoItem}
      BY <1>t DEF Registries, Pendings
    <3>2. tables'.run = tables.run
      BY <1>2, <1>t, <2>2, <3>1 DEF CancelSession, ProjectCancelled, Tables
    <3>3. registry'.index = registry.index /\ registry'.active = registry.active
      BY <1>2, <1>t, <2>2 DEF CancelSession, Registries
    <3>4. QED
      BY <2>1, <3>2, <3>3, SameOwnersKeep DEF SameOwners
  <2>3. CASE ~registry.pending.held
    <3>1. tables' = SettleStreaming(tables, "aborted") /\ registry' = registry
      BY <1>2, <2>3 DEF CancelSession
    <3>2. /\ Streaming(tables') = {}
          /\ \A q \in Runs : tables'.run[q] = "absent" => tables.run[q] = "absent"
      BY <3>1, NobodyStreams DEF Settled
    <3>3. \A q \in Runs : turn[q].pc \notin Live
      BY <2>1, NullsAssumption DEF RegInv, Ownership, LiveRunStreams
    <3>4. creator'.pc # "committed" /\ synth'.pc # "committed"
      BY <1>2, <2>1 DEF CancelSession, RequestArrives
    <3>5. QED
      BY <2>1, <3>1, <3>2, <3>3, <3>4
         DEF RegInv, Ownership, LiveRunStreams, UnregisteredRunStreams, OrphansAreKnown,
             AbsentHasNoTurn, IndexHasTurn
  <2>4. QED
    BY <2>2, <2>3
<1>3. ASSUME \/ CreateUserRun \/ CreateFails \/ CreateChecksCancelled \/ CreateCancelled
             \/ CreateRefused \/ DrainCreates
      PROVE  Ownership'
  <2>1. tables'.run = tables.run
    BY <1>3, <1>t DEF CreateUserRun, CreateFails, CreateChecksCancelled, CreateCancelled,
        ProjectCancelled, CreateRefused, DrainCreates, Tables
  <2>2. turn' = turn /\ synth' = synth
    BY <1>3 DEF CreateUserRun, CreateFails, CreateChecksCancelled, CreateCancelled,
        CreateRefused, DrainCreates
  <2>3. registry'.index = registry.index /\ registry'.active = registry.active
    BY <1>3, <1>t DEF CreateUserRun, CreateFails, CreateChecksCancelled, CreateCancelled,
        CreateRefused, DrainCreates, BeginCreate, RejectCreate, Registries
  <2>4. (creator.pc # "committed" /\ creator'.pc # "committed") \/ creator' = creator
    BY <1>3, <1>t DEF CreateUserRun, CreateFails, CreateChecksCancelled, CreateCancelled,
        CreateRefused, DrainCreates, BeginCreate, RejectCreate, IdleCreator, Idle, Creators
  <2>5. QED
    BY <2>1, <2>2, <2>3, <2>4, SameOwnersKeep DEF SameOwners
<1>4. ASSUME NEW r \in Runs, CreateCommits(r) PROVE Ownership'
  <2>1. Starts(r, creator.item)
    BY <1>4, <1>t, RowsStarted DEF CreateCommits, IInv
  <2>2. creator'.pc = "committed" /\ creator'.run = r
    BY <1>4, <1>t DEF CreateCommits, Creators
  <2>3. QED
    BY <1>4, <2>1, <2>2, StartKeepsOwners DEF CreateCommits
<1>5. ASSUME NEW r \in Runs, SynthCommits(r) PROVE Ownership'
  <2>1. Starts(r, NoItem)
    BY <1>5, RowsStarted DEF SynthCommits, IInv
  <2>2. synth'.pc = "committed" /\ synth'.run = r
    BY <1>5, <1>t DEF SynthCommits, Synths
  <2>3. QED
    BY <1>5, <2>1, <2>2, StartKeepsOwners DEF SynthCommits
<1>6. ASSUME CreateRegisters PROVE Ownership'
  <2>1. PICK r \in Runs : r = creator.run
    BY <1>6, RegTypes DEF CreateRegisters
  <2>2. registry'.index = r /\ registry'.active = registry.active \cup {r}
    BY <1>6, <1>t, <2>1 DEF CreateRegisters, Registered, Registries
  <2>3. OpenTurn(creator.item, "executed") \in Turns
    BY <1>t DEF OpenTurn, Turns, RunStatus
  <2>4. QED
    BY <1>6, <2>1, <2>2, <2>3, RegisterKeepsOwners DEF CreateRegisters, OpenTurn, IdleCreator
<1>7. ASSUME SynthRegisters PROVE Ownership'
  <2>1. PICK r \in Runs : r = synth.run
    BY <1>7, RegTypes DEF SynthRegisters
  <2>2. registry'.index = r /\ registry'.active = registry.active \cup {r}
    BY <1>7, <1>t, <2>1 DEF SynthRegisters, Registered, Registries
  <2>3. OpenTurn(NoItem, "synthetic") \in Turns
    BY DEF OpenTurn, Turns, RunStatus
  <2>4. QED
    BY <1>7, <2>1, <2>2, <2>3, RegisterKeepsOwners DEF SynthRegisters, OpenTurn, IdleSynth
<1>8. ASSUME NEW r \in Runs, PreparationFailed(r) PROVE Ownership'
  <2>1. turn[r].pc = "open"
    BY <1>8 DEF PreparationFailed, RegInv, SlotsAreHeld
  <2>2. turn'[r].pc = "abandoned" /\ \A q \in Runs \ {r} : turn'[q] = turn[q]
    BY <1>8, <1>t, <2>1 DEF PreparationFailed, Turns
  <2>3. registry'.index = registry.index /\ registry'.active = registry.active
    BY <1>8, <1>t DEF PreparationFailed, Registries
  <2>4. QED
    BY <1>8, <2>1, <2>2, <2>3, LiveTurnMoves DEF PreparationFailed, Live
<1>9. ASSUME NEW r \in Runs, (\E st \in Settled : TurnEnds(r, st)) \/ TurnFault(r)
      PROVE  Ownership'
  <2>1. turn[r].pc \in {"open", "settling"} /\ tables.run[r] = "streaming"
    BY <1>9 DEF TurnEnds, TurnFault, RegInv, Ownership, LiveRunStreams, Live
  <2>2. turn'[r].pc \in {"settling", "recovering"} /\ \A q \in Runs \ {r} : turn'[q] = turn[q]
    BY <1>9, <1>t, <2>1 DEF TurnEnds, TurnFault, Turns
  <2>3. tables' = tables /\ registry' = registry /\ creator' = creator /\ synth' = synth
    BY <1>9 DEF TurnEnds, TurnFault
  <2>4. QED
    BY <2>1, <2>2, <2>3, LiveTurnMoves DEF Live
<1>10. ASSUME NEW r \in Runs, TurnSettles(r) PROVE Ownership'
  <2>1. turn[r].pc \in Live /\ turn[r].outcome \in Settled
        /\ turn[r].item \in Items \cup {NoItem}
        /\ (turn[r].item # NoItem => tables.item[turn[r].item].run = r)
    BY <1>10, <1>t DEF TurnSettles, IInv, TurnLink, Turns, Live
  <2>2. ActiveRun(tables) = r /\ tables.run[r] = "streaming"
    BY <2>1, LiveFacts DEF RegInv, Ownership, LiveRunStreams
  <2>3. /\ tables' = ProjectSettled(tables, r, turn[r].outcome, turn[r].item)
        /\ turn' = [turn EXCEPT ![r].pc = "durable"]
    BY <1>10, <2>2 DEF TurnSettles, TerminalVerdict, DecisionState
  <2>4. tables'.run = [tables.run EXCEPT ![r] = turn[r].outcome]
    BY <2>1, <2>2, <2>3, SettledFacts DEF IInv
  <2>5. \A q \in Runs : tables'.run[q] = IF q = r THEN turn[r].outcome ELSE tables.run[q]
    BY <1>t, <2>4 DEF Tables
  <2>6. \A q \in Runs : tables.run[q] = "streaming" => q = r
    BY <2>2, RegTypes DEF OneStreaming
  <2>7. /\ Streaming(tables') = {}
        /\ \A q \in Runs : tables'.run[q] = "absent" => tables.run[q] = "absent"
    BY <2>1, <2>5, <2>6 DEF Streaming, Settled
  <2>8. QED
    BY <1>10, <2>1, <2>3, <2>7, LiveTurnEnds DEF TurnSettles
<1>11. ASSUME NEW r \in Runs, TurnRecovers(r) PROVE Ownership'
  <2>1. turn[r].pc \in Live /\ tables' = SettleStreaming(tables, "failed")
    BY <1>11 DEF TurnRecovers, Live
  <2>2. /\ Streaming(tables') = {}
        /\ \A q \in Runs : tables'.run[q] = "absent" => tables.run[q] = "absent"
    BY <2>1, NobodyStreams DEF Settled
  <2>3. QED
    BY <1>11, <2>1, <2>2, LiveTurnEnds DEF TurnRecovers
<1>12. ASSUME NEW r \in Runs, TurnLost(r) PROVE Ownership'
  <2>1. turn[r].pc \in Live /\ registry.index = r
    BY <1>12 DEF TurnLost, Live, RegInv, Ownership, LiveRunStreams
  <2>2. turn'[r].pc = "lost" /\ \A q \in Runs \ {r} : turn'[q] = turn[q]
    BY <1>12, <1>t DEF TurnLost, Turns
  <2>3. registry'.index = NoRun
    BY <1>12, <1>t, <2>1 DEF TurnLost, Released, Registries
  <2>4. QED
    BY <1>12, <2>1, <2>2, <2>3, LiveTurnMoves DEF TurnLost
<1>13. ASSUME NEW r \in Runs, TurnReleases(r) \/ TurnHandsOff(r) PROVE Ownership'
  BY <1>13, SettledTurnMoves DEF TurnReleases, TurnHandsOff
<1>14. ASSUME CrashAndRestart PROVE Ownership'
  <2>1. PICK st \in Settled : tables' = SettleStreaming(tables, st)
    BY <1>14 DEF CrashAndRestart, InterruptedOutcomes, Settled
  <2>2. Streaming(tables') = {}
    BY <2>1, NobodyStreams
  <2>3. /\ \A q \in Runs : turn'[q].pc = "none"
        /\ creator'.pc = "idle" /\ synth'.pc = "idle" /\ registry'.index = NoRun
    BY <1>14 DEF CrashAndRestart, NoTurn, OpenTurn, IdleCreator, IdleSynth, EmptyRegistry
  <2>4. QED
    BY <2>2, <2>3, NullsAssumption
       DEF Ownership, LiveRunStreams, UnregisteredRunStreams, OrphansAreKnown,
           AbsentHasNoTurn, IndexHasTurn, Live
<1>15. ASSUME \/ (\E S \in SUBSET Runs : RollbackBegins(S))
              \/ RollbackProviderDone \/ RollbackProviderFails
              \/ (\E r \in Runs : Prepared(r) \/ SynthArrives(r))
              \/ SynthParentEnded \/ SynthRefused
              \/ DrainWakes \/ DrainPicks \/ DrainLeaves \/ DrainFault \/ RenumberingFault
       PROVE  Ownership'
  <2>1. tables' = tables /\ turn' = turn /\ creator' = creator
    BY <1>15 DEF RollbackBegins, RollbackProviderDone, RollbackProviderFails, Prepared,
        SynthArrives, SynthParentEnded, SynthRefused, DrainWakes, DrainPicks, DrainLeaves,
        DrainFault, RenumberingFault
  <2>2. registry'.index = registry.index /\ registry'.active = registry.active
    BY <1>15, <1>t DEF RollbackBegins, RollbackProviderDone, RollbackProviderFails,
        RollbackEnds, Prepared, SynthArrives, SynthParentEnded, SynthRefused, DrainWakes,
        DrainPicks, DrainLeaves, DrainFault, RenumberingFault, Registries
  <2>3. (synth.pc # "committed" /\ synth'.pc # "committed") \/ synth' = synth
    <3>1. ASSUME NEW r \in Runs, SynthArrives(r)
          PROVE  synth.pc # "committed" /\ synth'.pc # "committed"
      BY <1>t, <3>1 DEF SynthArrives, Idle, Synths
    <3>2. ASSUME SynthParentEnded \/ SynthRefused
          PROVE  synth.pc # "committed" /\ synth'.pc # "committed"
      BY <1>t, <3>2 DEF SynthParentEnded, SynthRefused, IdleSynth, Synths
    <3>3. QED
      BY <1>15, <3>1, <3>2 DEF RollbackBegins, RollbackProviderDone, RollbackProviderFails,
          Prepared, DrainWakes, DrainPicks, DrainLeaves, DrainFault, RenumberingFault
  <2>4. QED
    BY <2>1, <2>2, <2>3, SameOwnersKeep DEF SameOwners
<1>16. QED
  BY <1>1, <1>2, <1>3, <1>4, <1>5, <1>6, <1>7, <1>8, <1>9, <1>10, <1>11, <1>12, <1>13,
     <1>14, <1>15
     DEF Next, Requests, CreatorSteps, PrepareSteps, TurnSteps, DrainSteps, SynthSteps,
         RollbackSteps, Faults

-----------------------------------------------------------------------------
(* The slots of the registry, and the message of the streaming run.        *)

LEMMA NoPreparation ==
    ASSUME IInv, RegInv, registry.index = NoRun \/ creator.pc # "idle"
    PROVE  preparing = {}
BY RegTypes, NullsAssumption DEF RegInv, Ownership, LiveRunStreams, SlotsAreHeld, Live

LEMMA SlotsKept == ASSUME IInv, RegInv, Next PROVE SlotsAreHeld'
<1>t. /\ registry \in Registries /\ creator \in Creators /\ rollback \in Rollbacks
      /\ turn \in [Runs -> Turns] /\ preparing \subseteq Runs
  BY RegTypes
<1>i. /\ registry.pending.held <=> creator.pc # "idle"
      /\ registry.maint <=> rollback.pc # "idle"
      /\ preparing # {} => creator.pc = "idle"
      /\ \A r \in preparing : turn[r].pc = "open"
  BY DEF RegInv, SlotsAreHeld
<1>1. ASSUME creator'.pc = "idle" <=> creator.pc = "idle",
             rollback'.pc = "idle" <=> rollback.pc = "idle",
             registry'.pending.held = registry.pending.held,
             registry'.maint = registry.maint,
             preparing' \subseteq preparing,
             \A r \in preparing' : turn'[r].pc = turn[r].pc
      PROVE  SlotsAreHeld'
  BY <1>1, <1>i DEF SlotsAreHeld
<1>2. ASSUME \/ (\E i \in Items : Enqueue(i) \/ CancelItem(i)) \/ CancelSession
             \/ CreateChecksCancelled \/ RollbackProviderDone
             \/ DrainWakes \/ DrainRecovers \/ DrainPicks \/ DrainClaims \/ DrainReleases
             \/ DrainFails \/ DrainRenumbers \/ DrainLeaves \/ DrainFault
             \/ RenumberingFault
             \/ SynthParentEnded \/ SynthRefused
             \/ (\E r \in Runs : CreateCommits(r) \/ SynthCommits(r) \/ SynthArrives(r))
      PROVE  SlotsAreHeld'
  <2>1. preparing' = preparing /\ turn' = turn
    BY <1>2 DEF Enqueue, CancelItem, CancelSession, CreateChecksCancelled,
        RollbackProviderDone, DrainWakes, DrainRecovers, DrainPicks, DrainClaims,
        DrainReleases, DrainFails, DrainRenumbers, DrainLeaves, DrainFault,
        RenumberingFault, SynthParentEnded, SynthRefused,
        CreateCommits, SynthCommits, SynthArrives
  <2>2. registry'.pending.held = registry.pending.held /\ registry'.maint = registry.maint
    BY <1>2, <1>t DEF Enqueue, CancelItem, CancelSession, CreateChecksCancelled,
        RollbackProviderDone, DrainWakes, DrainRecovers, DrainPicks, DrainClaims,
        DrainReleases, DrainFails, DrainRenumbers, DrainLeaves, DrainFault,
        RenumberingFault, SynthParentEnded, SynthRefused,
        CreateCommits, SynthCommits, SynthArrives, Registries, Pendings
  <2>3. /\ creator'.pc = "idle" <=> creator.pc = "idle"
        /\ rollback'.pc = "idle" <=> rollback.pc = "idle"
    BY <1>2, <1>t DEF Enqueue, CancelItem, CancelSession, CreateChecksCancelled,
        RollbackProviderDone, DrainWakes, DrainRecovers, DrainPicks, DrainClaims,
        DrainReleases, DrainFails, DrainRenumbers, DrainLeaves, DrainFault,
        RenumberingFault, SynthParentEnded, SynthRefused,
        CreateCommits, SynthCommits, SynthArrives, Creators, Rollbacks
  <2>4. QED
    BY <1>1, <2>1, <2>2, <2>3
<1>3. ASSUME CreateUserRun \/ DrainCreates PROVE SlotsAreHeld'
  <2>1. preparing' = preparing /\ turn' = turn /\ rollback' = rollback
    BY <1>3 DEF CreateUserRun, DrainCreates
  <2>2. CASE CanClaimPending /\ \E i : BeginCreate(i)
    <3>1. preparing = {}
      BY <2>2, NoPreparation DEF CanClaimPending, Busy
    <3>2. creator'.pc # "idle" /\ registry'.pending.held /\ registry'.maint = registry.maint
      BY <1>t, <2>2 DEF BeginCreate, Registries
    <3>3. QED
      BY <1>i, <2>1, <3>1, <3>2 DEF SlotsAreHeld
  <2>3. CASE registry' = registry /\ creator' = creator
    BY <1>1, <2>1, <2>3
  <2>4. QED
    BY <1>3, <2>2, <2>3 DEF CreateUserRun, DrainCreates
<1>4. ASSUME CreateFails \/ CreateCancelled \/ CreateRefused PROVE SlotsAreHeld'
  <2>1. /\ preparing' = preparing /\ turn' = turn /\ rollback' = rollback
        /\ \E code : RejectCreate(code)
    BY <1>4 DEF CreateFails, CreateCancelled, CreateRefused
  <2>2. creator'.pc = "idle" /\ ~registry'.pending.held /\ registry'.maint = registry.maint
    BY <1>t, <2>1 DEF RejectCreate, IdleCreator, NoPending, Registries
  <2>3. QED
    BY <1>i, <2>1, <2>2 DEF SlotsAreHeld
<1>5. ASSUME CreateRegisters PROVE SlotsAreHeld'
  <2>1. preparing = {}
    BY <1>5, NoPreparation DEF CreateRegisters
  <2>2. creator'.pc = "idle" /\ ~registry'.pending.held /\ registry'.maint = registry.maint
    BY <1>5, <1>t DEF CreateRegisters, IdleCreator, NoPending, Registered, Registries
  <2>3. preparing' = {creator.run} /\ turn'[creator.run].pc = "open"
    BY <1>5, <1>t, <2>1, RegTypes DEF CreateRegisters, OpenTurn
  <2>4. rollback' = rollback
    BY <1>5 DEF CreateRegisters
  <2>5. QED
    BY <1>i, <2>2, <2>3, <2>4 DEF SlotsAreHeld
<1>6. ASSUME NEW r \in Runs, Prepared(r) \/ PreparationFailed(r) PROVE SlotsAreHeld'
  <2>1. /\ preparing' = preparing \ {r} /\ creator' = creator /\ rollback' = rollback
        /\ creator.pc = "idle"
    BY <1>6, <1>i DEF Prepared, PreparationFailed
  <2>2. \A q \in preparing' : turn'[q] = turn[q]
    BY <1>6, <1>t, <2>1 DEF Prepared, PreparationFailed
  <2>3. ~registry'.pending.held /\ registry'.maint = registry.maint
    BY <1>6, <1>i, <1>t, <2>1 DEF Prepared, PreparationFailed, NoPending, Registries
  <2>4. QED
    BY <1>i, <2>1, <2>2, <2>3 DEF SlotsAreHeld
<1>7. ASSUME NEW r \in Runs,
             \/ (\E st \in Settled : TurnEnds(r, st)) \/ TurnSettles(r) \/ TurnRecovers(r)
             \/ TurnReleases(r) \/ TurnHandsOff(r) \/ TurnFault(r) \/ TurnLost(r)
      PROVE  SlotsAreHeld'
  <2>1. r \notin preparing
    BY <1>7, <1>i DEF TurnEnds, TurnSettles, TurnRecovers, TurnReleases, TurnHandsOff,
        TurnFault, TurnLost
  <2>2. \A q \in Runs \ {r} : turn'[q] = turn[q]
    BY <1>7, <1>t DEF TurnEnds, TurnSettles, TurnRecovers, TurnReleases, TurnHandsOff,
        TurnFault, TurnLost
  <2>3. preparing' = preparing /\ creator' = creator /\ rollback' = rollback
    BY <1>7 DEF TurnEnds, TurnSettles, TurnRecovers, TurnReleases, TurnHandsOff,
        TurnFault, TurnLost
  <2>4. registry'.pending = registry.pending /\ registry'.maint = registry.maint
    BY <1>7, <1>t DEF TurnEnds, TurnSettles, TurnRecovers, TurnReleases, TurnHandsOff,
        TurnFault, TurnLost, Released, Registries
  <2>5. QED
    BY <1>1, <1>t, <2>1, <2>2, <2>3, <2>4
<1>8. ASSUME SynthRegisters PROVE SlotsAreHeld'
  <2>1. turn'[synth.run].pc = "open" /\ \A q \in Runs \ {synth.run} : turn'[q] = turn[q]
    BY <1>8, <1>t, RegTypes DEF SynthRegisters, OpenTurn
  <2>2. preparing' = preparing /\ creator' = creator /\ rollback' = rollback
    BY <1>8 DEF SynthRegisters
  <2>3. registry'.pending = registry.pending /\ registry'.maint = registry.maint
    BY <1>8, <1>t DEF SynthRegisters, Registered, Registries
  <2>4. QED
    BY <1>i, <1>t, <2>1, <2>2, <2>3 DEF SlotsAreHeld
<1>9. ASSUME NEW S \in SUBSET Runs, RollbackBegins(S) PROVE SlotsAreHeld'
  <2>1. preparing' = preparing /\ turn' = turn /\ creator' = creator /\ rollback'.pc # "idle"
    BY <1>9 DEF RollbackBegins
  <2>2. registry'.pending = registry.pending /\ registry'.maint
    BY <1>9, <1>t DEF RollbackBegins, Registries
  <2>3. QED
    BY <1>i, <2>1, <2>2 DEF SlotsAreHeld
<1>10. ASSUME RollbackProviderFails \/ RollbackCommits PROVE SlotsAreHeld'
  <2>1. preparing' = preparing /\ turn' = turn /\ creator' = creator /\ rollback'.pc = "idle"
    BY <1>10 DEF RollbackProviderFails, RollbackCommits, RollbackEnds, IdleRollback
  <2>2. registry'.pending = registry.pending /\ ~registry'.maint
    BY <1>10, <1>t DEF RollbackProviderFails, RollbackCommits, RollbackEnds, Registries
  <2>3. QED
    BY <1>i, <2>1, <2>2 DEF SlotsAreHeld
<1>11. ASSUME CrashAndRestart PROVE SlotsAreHeld'
  BY <1>11 DEF CrashAndRestart, EmptyRegistry, NoPending, IdleCreator, IdleRollback,
               SlotsAreHeld
<1>12. QED
  BY <1>2, <1>3, <1>4, <1>5, <1>6, <1>7, <1>8, <1>9, <1>10, <1>11
     DEF Next, Requests, CreatorSteps, PrepareSteps, TurnSteps, DrainSteps, SynthSteps,
         RollbackSteps, Faults

(* Settling ends run and message together, starting begins them together,  *)
(* and nothing is rolled back while a run streams.                         *)
LEMMA SettledMessages ==
    ASSUME NEW t, TablesOK(t), NEW r \in Runs, NEW st \in Settled,
           NEW i \in Items \cup {NoItem},
           \A q \in Streaming(t) : t.msg[q] = "streaming"
    PROVE  LET u == ProjectSettled(t, r, st, i) IN
           \A q \in Streaming(u) : u.msg[q] = "streaming"
<1> DEFINE m == ProjectMessageCompleted(t, r, st)
           c == [m EXCEPT !.run[r] = IF @ = "absent" THEN @ ELSE st]
           u == ProjectSettled(t, r, st, i)
<1>1. t \in Tables
  BY DEF TablesOK
<1>2. /\ m \in Tables /\ m.run = t.run /\ m.item = t.item
      /\ \A q \in Runs \ {r} : m.msg[q] = t.msg[q]
  BY <1>1 DEF ProjectMessageCompleted, Tables, RunStatus
<1>3. /\ c \in Tables /\ c.msg = m.msg
      /\ \A q \in Runs : c.run[q] = IF q # r THEN t.run[q]
                                    ELSE IF t.run[r] = "absent" THEN "absent" ELSE st
  <2> HIDE DEF m
  <2>1. QED
    BY <1>2 DEF Tables, RunStatus
<1>4. u = IF i = NoItem THEN c ELSE SetItem(c, i, QueueTerminalStatus(st), r)
  BY DEF ProjectSettled, ProjectRunTerminal
<1> HIDE DEF c, m, u
<1>6. u.run = c.run /\ u.msg = c.msg
  <2>1. CASE i = NoItem
    BY <1>4, <2>1
  <2>2. CASE i # NoItem
    BY <1>3, <1>4, <2>2 DEF SetItem, Tables
  <2>3. QED
    BY <2>1, <2>2
<1>7. st # "streaming"
  BY DEF Settled
<1>8. \A q \in Runs : u.run[q] = "streaming" => t.run[q] = "streaming" /\ q # r
  BY <1>3, <1>6, <1>7
<1>9. \A q \in Streaming(u) : u.msg[q] = "streaming"
  BY <1>2, <1>3, <1>6, <1>8 DEF Streaming
<1>10. QED
  BY <1>9 DEF u

LEMMA MessageKept == ASSUME IInv, RegInv, Next PROVE MessageStreams'
<1> USE DEF MessageStreams
<1>t. tables \in Tables /\ TablesOK(tables) /\ MessageStreams
  BY RegTypes DEF IInv, RegInv
<1>1. ASSUME \/ (\E i \in Items : Enqueue(i) \/ CancelItem(i)) \/ CreateCancelled
             \/ DrainRecovers \/ DrainClaims \/ DrainReleases \/ DrainFails
             \/ DrainRenumbers
      PROVE  MessageStreams'
  <2>1. tables'.run = tables.run /\ tables'.msg = tables.msg
    BY <1>1, <1>t DEF Enqueue, ProjectEnqueued, SetItem, CancelItem, CreateCancelled,
        ProjectCancelled, DrainRecovers, ReleaseOrphans, DrainClaims, ProjectClaimed,
        DrainReleases, ProjectReleased, DrainFails, DrainRenumbers, ProjectFailed, Tables
  <2>2. QED
    BY <1>t, <2>1 DEF Streaming
<1>2. ASSUME NEW st \in Settled, tables' = SettleStreaming(tables, st) PROVE MessageStreams'
  BY <1>2, NobodyStreams
<1>3. ASSUME CancelSession PROVE MessageStreams'
  <2>1. CASE registry.pending.held
    <3>1. tables'.run = tables.run /\ tables'.msg = tables.msg
      BY <1>3, <1>t, <2>1 DEF CancelSession, ProjectCancelled, Tables
    <3>2. QED
      BY <1>t, <3>1 DEF Streaming
  <2>2. CASE ~registry.pending.held
    BY <1>2, <1>3, <2>2 DEF CancelSession, Settled
  <2>3. QED
    BY <2>1, <2>2
<1>4. ASSUME NEW r \in Runs, NEW i \in Items \cup {NoItem}, tables' = ProjectRunStarted(tables, r, i)
      PROVE  MessageStreams'
  BY <1>4, <1>t DEF ProjectRunStarted, SetItem, Tables, Streaming
<1>5. ASSUME NEW r \in Runs, CreateCommits(r) \/ SynthCommits(r) PROVE MessageStreams'
  <2>1. creator.item \in Items \cup {NoItem}
    BY RegTypes DEF Creators
  <2>2. QED
    BY <1>4, <1>5, <2>1 DEF CreateCommits, SynthCommits
<1>6. ASSUME NEW r \in Runs, TurnSettles(r) PROVE MessageStreams'
  <2>1. turn[r].outcome \in Settled /\ turn[r].item \in Items \cup {NoItem}
    BY <1>6, RegTypes DEF TurnSettles, IInv, TurnLink, Turns
  <2>2. tables' = ProjectSettled(tables, r, turn[r].outcome, turn[r].item) \/ tables' = tables
    BY <1>6 DEF TurnSettles
  <2>3. QED
    BY <1>t, <2>1, <2>2, SettledMessages
<1>7. ASSUME (\E r \in Runs : TurnRecovers(r)) \/ CrashAndRestart PROVE MessageStreams'
  BY <1>2, <1>7 DEF TurnRecovers, CrashAndRestart, InterruptedOutcomes, Settled
<1>8. ASSUME RollbackCommits PROVE MessageStreams'
  <2>1. CASE RollbackVerdict(DecisionState(tables)) = "ok"
    <3>1. ActiveRun(tables) = NoRun
      BY <2>1 DEF RollbackVerdict, DecisionState
    <3>2. Streaming(tables') = {}
      BY <1>8, <1>t, <2>1, <3>1, ActiveRunFacts DEF RollbackCommits, ProjectRolledBack,
          Streaming, Tables
    <3>3. QED
      BY <3>2
  <2>2. CASE RollbackVerdict(DecisionState(tables)) # "ok"
    BY <1>8, <1>t, <2>2 DEF RollbackCommits
  <2>3. QED
    BY <2>1, <2>2
<1>9. ASSUME \/ CreateUserRun \/ (\E S \in SUBSET Runs : RollbackBegins(S))
             \/ CreateFails \/ CreateChecksCancelled \/ CreateRefused \/ CreateRegisters
             \/ (\E r \in Runs : \/ PrepareSteps(r) \/ SynthArrives(r)
                                 \/ (\E st \in Settled : TurnEnds(r, st))
                                 \/ TurnReleases(r) \/ TurnHandsOff(r)
                                 \/ TurnFault(r) \/ TurnLost(r))
             \/ DrainWakes \/ DrainPicks \/ DrainCreates \/ DrainLeaves \/ DrainFault
             \/ RenumberingFault
             \/ SynthParentEnded \/ SynthRefused \/ SynthRegisters
             \/ RollbackProviderDone \/ RollbackProviderFails
      PROVE  MessageStreams'
  <2>1. tables' = tables
    BY <1>9 DEF CreateUserRun, RollbackBegins, CreateFails, CreateChecksCancelled,
        CreateRefused, CreateRegisters, PrepareSteps, Prepared, PreparationFailed,
        SynthArrives, TurnEnds, TurnReleases, TurnHandsOff, TurnFault, TurnLost, DrainWakes,
        DrainPicks, DrainCreates, DrainLeaves, DrainFault, RenumberingFault,
        SynthParentEnded, SynthRefused,
        SynthRegisters, RollbackProviderDone, RollbackProviderFails
  <2>2. QED
    BY <1>t, <2>1
<1>10. QED
  BY <1>1, <1>3, <1>5, <1>6, <1>7, <1>8, <1>9
     DEF Next, Requests, CreatorSteps, TurnSteps, DrainSteps, SynthSteps, RollbackSteps, Faults

-----------------------------------------------------------------------------
LEMMA InitRegInv == Init => RegInv
<1> SUFFICES ASSUME Init PROVE RegInv
  OBVIOUS
<1>1. Streaming(tables) = {}
  BY DEF Init, EmptyTables, Streaming
<1>2. \A r \in Runs : turn[r].pc = "none"
  BY DEF Init, NoTurn, OpenTurn
<1>3. /\ creator.pc = "idle" /\ synth.pc = "idle" /\ rollback.pc = "idle" /\ preparing = {}
      /\ registry.index = NoRun /\ ~registry.pending.held /\ ~registry.maint
  BY DEF Init, IdleCreator, IdleSynth, IdleRollback, EmptyRegistry, NoPending
<1>4. QED
  BY <1>1, <1>2, <1>3, NullsAssumption
     DEF RegInv, Ownership, LiveRunStreams, UnregisteredRunStreams, OrphansAreKnown,
         AbsentHasNoTurn, IndexHasTurn, SlotsAreHeld, MessageStreams, Live

LEMMA RegInvKept == IInv /\ RegInv /\ [Next]_vars => RegInv'
<1>1. ASSUME IInv, RegInv, Next PROVE RegInv'
  BY <1>1, OwnershipKept, SlotsKept, MessageKept DEF RegInv
<1>2. ASSUME RegInv, UNCHANGED vars PROVE RegInv'
  <2>1. Ownership'
    BY <1>2, SameOwnersKeep DEF vars, SameOwners
  <2>2. SlotsAreHeld' /\ MessageStreams'
    BY <1>2 DEF vars, RegInv, SlotsAreHeld, MessageStreams, Streaming
  <2>3. QED
    BY <2>1, <2>2 DEF RegInv
<1>3. QED
  BY <1>1, <1>2

LEMMA Registry == Spec => [](IInv /\ RegInv)
BY InitIInv, IInvKept, InitRegInv, RegInvKept, PTL DEF Spec

(* With any storage faults, crashes and failing preparations, a streaming  *)
(* run that nobody will end is one whose preparation failed, and then it   *)
(* keeps the index, or one whose completion and recovery both failed       *)
(* (run-coordinator.ts createRun, turn-completion.ts completeActiveTurn).  *)
THEOREM OrphansAreKnownAlways == Spec => []OrphansAreKnown
<1>1. RegInv => OrphansAreKnown
  BY DEF RegInv, Ownership
<1>2. QED
  BY <1>1, Registry, PTL

(* Nobody but its own turn settles a registered run: what completion read  *)
(* at the write fence still holds when its commit runs, and cancelSession  *)
(* never finds a stale registration to complete (turn-completion.ts,       *)
(* run-coordinator.ts cancelSession).                                      *)
THEOREM FenceNeverStaleAlways == Spec => []FenceNeverStale
<1>1. IInv /\ RegInv => FenceNeverStale
  BY RegTypes DEF RegInv, Ownership, LiveRunStreams, Live, FenceNeverStale, Registries
<1>2. QED
  BY <1>1, Registry, PTL

-----------------------------------------------------------------------------
(* Completion reaches recovery only after a storage fault, and recovery    *)
(* fails only by another.                                                  *)

NobodyStranded ==
    \A r \in Runs : /\ turn[r].pc = "recovering" => spent["fault"] >= 1
                    /\ turn[r].pc \notin {"abandoned", "lost"}

LEMMA SpentGrows ==
    ASSUME IInv, Next
    PROVE  /\ spent["fault"] \in Nat /\ spent'["fault"] \in Nat
           /\ spent'["fault"] >= spent["fault"]
<1>1. spent \in [Budgets -> Nat] /\ "fault" \in Budgets
  BY DEF IInv, TypeOK, Budgets
<1>2. ASSUME NEW b \in Budgets, NEW max, Spend(b, max)
      PROVE  spent' \in [Budgets -> Nat] /\ spent'["fault"] >= spent["fault"]
  BY <1>1, <1>2 DEF Spend
<1>3. ASSUME spent' = spent
      PROVE  spent' \in [Budgets -> Nat] /\ spent'["fault"] >= spent["fault"]
  BY <1>1, <1>3
<1>4. ASSUME \/ (\E i \in Items : CancelItem(i)) \/ CancelSession \/ CreateUserRun
             \/ (\E S \in SUBSET Runs : RollbackBegins(S))
             \/ (\E r \in Runs : TurnFault(r) \/ TurnLost(r) \/ SynthArrives(r))
             \/ DrainFault \/ RenumberingFault \/ CrashAndRestart
      PROVE  \E b \in Budgets : \E max : Spend(b, max)
  BY <1>4 DEF CancelItem, CancelSession, CreateUserRun, RollbackBegins, TurnFault, TurnLost,
      SynthArrives, DrainFault, RenumberingFault, CrashAndRestart, Budgets
<1>5. ASSUME \/ (\E i \in Items : Enqueue(i)) \/ CreatorSteps \/ DrainSteps \/ SynthSteps
             \/ RollbackSteps \/ (\E r \in Runs : PrepareSteps(r) \/ TurnSteps(r))
      PROVE  spent' = spent
  BY <1>5 DEF Enqueue, CreatorSteps, CreateFails, CreateChecksCancelled, CreateCancelled,
      CreateRefused, CreateRegisters, CreateCommits, DrainSteps, DrainWakes, DrainRecovers,
      DrainPicks, DrainClaims, DrainCreates, DrainReleases, DrainFails, DrainRenumbers,
      DrainLeaves,
      SynthSteps, SynthParentEnded, SynthRefused, SynthRegisters, SynthCommits, RollbackSteps,
      RollbackProviderDone, RollbackProviderFails, RollbackCommits, PrepareSteps, Prepared,
      PreparationFailed, TurnSteps, TurnEnds, TurnSettles, TurnRecovers, TurnReleases,
      TurnHandsOff
<1>6. spent' \in [Budgets -> Nat] /\ spent'["fault"] >= spent["fault"]
  BY <1>2, <1>3, <1>4, <1>5 DEF Next, Requests, Faults
<1>7. QED
  BY <1>1, <1>6

LEMMA NobodyStrandedKept ==
    ASSUME ~PreparationFails, MaxFaults <= 1, IInv, RegInv, NobodyStranded, Next
    PROVE  NobodyStranded'
<1>t. turn \in [Runs -> Turns]
  BY RegTypes
<1>s. /\ spent["fault"] \in Nat /\ spent'["fault"] \in Nat
      /\ spent'["fault"] >= spent["fault"]
  BY SpentGrows
<1>m. MaxFaults \in Nat
  BY BoundsAssumption
<1>1. ASSUME NEW r \in Runs, \A q \in Runs \ {r} : turn'[q] = turn[q],
             turn'[r].pc \notin {"recovering", "abandoned", "lost"}
      PROVE  NobodyStranded'
  BY <1>1, <1>s DEF NobodyStranded
<1>2. ASSUME turn' = turn PROVE NobodyStranded'
  BY <1>2, <1>s DEF NobodyStranded
<1>3. ASSUME CreateRegisters \/ SynthRegisters PROVE NobodyStranded'
  <2>1. PICK r \in Runs : /\ \A q \in Runs \ {r} : turn'[q] = turn[q]
                          /\ turn'[r].pc = "open"
    BY <1>3, <1>t, RegTypes DEF CreateRegisters, SynthRegisters, OpenTurn
  <2>2. QED
    BY <1>1, <2>1
<1>4. ASSUME NEW r \in Runs,
             \/ (\E st \in Settled : TurnEnds(r, st)) \/ TurnRecovers(r)
             \/ TurnReleases(r) \/ TurnHandsOff(r)
      PROVE  NobodyStranded'
  <2>1. /\ \A q \in Runs \ {r} : turn'[q] = turn[q]
        /\ turn'[r].pc \in {"settling", "durable", "released", "done"}
    BY <1>4, <1>t DEF TurnEnds, TurnRecovers, TurnReleases, TurnHandsOff, Turns
  <2>2. QED
    BY <1>1, <2>1
<1>5. ASSUME NEW r \in Runs, TurnSettles(r) PROVE NobodyStranded'
  <2>1. TerminalVerdict(DecisionState(tables), r) = "ok"
    BY <1>5, LiveFacts DEF TurnSettles, Live, TerminalVerdict, DecisionState
  <2>2. \A q \in Runs \ {r} : turn'[q] = turn[q]
    BY <1>5, <1>t DEF TurnSettles
  <2>3. turn'[r].pc = "durable"
    BY <1>5, <1>t, <2>1 DEF TurnSettles, Turns
  <2>4. QED
    BY <1>1, <2>2, <2>3
<1>6. ASSUME NEW r \in Runs, TurnFault(r) PROVE NobodyStranded'
  <2>1. spent'["fault"] >= 1
    BY <1>6, <1>s DEF TurnFault, Spend, IInv, TypeOK, Budgets
  <2>2. /\ \A q \in Runs \ {r} : turn'[q] = turn[q]
        /\ turn'[r].pc = "recovering"
    BY <1>6, <1>t DEF TurnFault, Turns
  <2>3. QED
    BY <1>s, <2>1, <2>2 DEF NobodyStranded
<1>7. ASSUME NEW r \in Runs, TurnLost(r) PROVE FALSE
  <2>1. spent["fault"] >= 1 /\ spent["fault"] < MaxFaults
    BY <1>7 DEF TurnLost, Spend, NobodyStranded
  <2>2. QED
    BY <1>m, <1>s, <2>1
<1>8. ASSUME CrashAndRestart PROVE NobodyStranded'
  BY <1>8 DEF CrashAndRestart, NoTurn, OpenTurn, NobodyStranded
<1>9. ASSUME \/ Requests \/ CreateFails \/ CreateChecksCancelled \/ CreateCancelled
             \/ CreateRefused \/ RollbackSteps \/ DrainSteps \/ DrainFault
             \/ RenumberingFault
             \/ SynthParentEnded \/ SynthRefused
             \/ (\E r \in Runs : \/ CreateCommits(r) \/ SynthCommits(r)
                                 \/ PrepareSteps(r) \/ SynthArrives(r))
      PROVE  NobodyStranded'
  <2>1. turn' = turn
    BY <1>9 DEF Requests, Enqueue, CancelItem, CancelSession, CreateUserRun, RollbackBegins,
        CreateFails, CreateChecksCancelled, CreateCancelled, CreateRefused, RollbackSteps,
        RollbackProviderDone, RollbackProviderFails, RollbackCommits, DrainSteps, DrainWakes,
        DrainRecovers, DrainPicks, DrainClaims, DrainCreates, DrainReleases, DrainFails,
        DrainRenumbers,
        DrainLeaves, DrainFault, RenumberingFault, SynthParentEnded, SynthRefused,
        CreateCommits, SynthCommits,
        PrepareSteps, Prepared, PreparationFailed, SynthArrives
  <2>2. QED
    BY <1>2, <2>1
<1>10. QED
  BY <1>3, <1>4, <1>5, <1>6, <1>7, <1>8, <1>9
     DEF Next, CreatorSteps, TurnSteps, SynthSteps, Faults

LEMMA Stranding ==
    ASSUME ~PreparationFails, MaxFaults <= 1 PROVE Spec => []NobodyStranded
<1>1. Init => NobodyStranded
  BY DEF Init, NoTurn, OpenTurn, NobodyStranded
<1>2. IInv /\ RegInv /\ NobodyStranded /\ [Next]_vars => NobodyStranded'
  <2>1. ASSUME NobodyStranded, UNCHANGED vars PROVE NobodyStranded'
    BY <2>1 DEF vars, NobodyStranded
  <2>2. QED
    BY <2>1, NobodyStrandedKept
<1>3. QED
  BY Registry, <1>1, <1>2, PTL DEF Spec

(* If preparations succeed and at most one storage fault happens, whatever *)
(* cancels, crashes, rollbacks and synthetic turns there are, a streaming  *)
(* run is about to be registered or the index names it and its turn is     *)
(* still going to settle it: the admission checks of claimPendingRun, the  *)
(* drain and rollbackTurns, which look at the index, never pass beside a   *)
(* registered streaming run. A second fault may lose it (OrphansAreKnown). *)
THEOREM StreamingRunIsOwnedAlways ==
    ASSUME ~PreparationFails, MaxFaults <= 1 PROVE Spec => []StreamingRunIsOwned
<1>1. OrphansAreKnown /\ NobodyStranded => StreamingRunIsOwned
  BY DEF OrphansAreKnown, NobodyStranded, StreamingRunIsOwned, Streaming
<1>2. QED
  BY OrphansAreKnownAlways, Stranding, <1>1, PTL

-----------------------------------------------------------------------------
(* The queue is watched. Only these steps make work pending.               *)

LEMMA PendingFacts ==
    ASSUME NEW t, NEW i
    PROVE  i \in Pending(t) <=> i \in Items /\ t.item[i].status = "pending"
BY DEF Pending

LEMMA SettledPending ==
    ASSUME NEW t, TablesOK(t), NEW r \in Runs, NEW st \in Settled,
           NEW i \in Items \cup {NoItem}
    PROVE  Pending(ProjectSettled(t, r, st, i)) \subseteq Pending(t)
<1> DEFINE u == ProjectSettled(t, r, st, i)
<1>1. \A j \in Items : u.item[j] =
          IF j = i THEN [status |-> QueueTerminalStatus(st), run |-> r] ELSE t.item[j]
  BY SettledItems
<1>2. QueueTerminalStatus(st) # "pending"
  BY DEF QueueTerminalStatus
<1> HIDE DEF u
<1>3. ASSUME NEW j \in Pending(u) PROVE j \in Pending(t)
  <2>1. j \in Items /\ u.item[j].status = "pending"
    BY PendingFacts
  <2>2. j # i
    BY <1>1, <1>2, <2>1
  <2>3. QED
    BY <1>1, <2>1, <2>2, PendingFacts
<1>4. QED
  BY <1>3 DEF u

LEMMA SettleStreamingPending ==
    ASSUME NEW t, TablesOK(t), NEW st \in Settled
    PROVE  Pending(SettleStreaming(t, st)) \subseteq Pending(t)
<1>1. t \in Tables
  BY DEF TablesOK
<1>2. CASE ActiveRun(t) = NoRun
  BY <1>2 DEF SettleStreaming
<1>3. CASE ActiveRun(t) # NoRun
  <2>1. ActiveRun(t) \in Runs
    BY <1>1, <1>3, ActiveRunFacts
  <2>2. ItemOf(t, ActiveRun(t)) \in Items \cup {NoItem}
    BY <1>1, <2>1, ItemOfFacts
  <2>3. QED
    BY <1>3, <2>1, <2>2, SettledPending DEF SettleStreaming
<1>4. QED
  BY <1>2, <1>3

LEMMA NoNewPending ==
    ASSUME IInv, Next, \A i \in Items : ~Enqueue(i), ~DrainRecovers, ~DrainReleases
    PROVE  Pending(tables') \subseteq Pending(tables)
<1>t. tables \in Tables /\ TablesOK(tables)
  BY RegTypes DEF IInv
<1>1. ASSUME NEW i \in Items, tables' = ProjectCancelled(tables, i)
      PROVE  Pending(tables') \subseteq Pending(tables)
  BY <1>1, <1>t DEF ProjectCancelled, Pending, Tables, QueueItem
<1>2. ASSUME NEW st \in Settled, tables' = SettleStreaming(tables, st)
      PROVE  Pending(tables') \subseteq Pending(tables)
  BY <1>2, <1>t, SettleStreamingPending
<1>3. ASSUME CancelSession PROVE Pending(tables') \subseteq Pending(tables)
  <2>1. registry.pending.item \in Items \cup {NoItem}
    BY RegTypes DEF Registries, Pendings
  <2>2. QED
    BY <1>1, <1>2, <1>3, <2>1 DEF CancelSession, Settled
<1>4. ASSUME CreateCancelled PROVE Pending(tables') \subseteq Pending(tables)
  <2>1. creator.item \in Items \cup {NoItem}
    BY RegTypes DEF Creators
  <2>2. QED
    BY <1>1, <1>4, <2>1 DEF CreateCancelled
<1>5. ASSUME NEW r \in Runs, CreateCommits(r) \/ SynthCommits(r)
      PROVE  Pending(tables') \subseteq Pending(tables)
  <2>1. creator.item \in Items \cup {NoItem}
    BY RegTypes DEF Creators
  <2>2. PICK i \in Items \cup {NoItem} : tables' = ProjectRunStarted(tables, r, i)
    BY <1>5, <2>1 DEF CreateCommits, SynthCommits
  <2>3. QED
    BY <1>t, <2>2 DEF ProjectRunStarted, SetItem, Pending, Tables, QueueItem
<1>6. ASSUME NEW r \in Runs, TurnSettles(r) PROVE Pending(tables') \subseteq Pending(tables)
  <2>1. turn[r].outcome \in Settled /\ turn[r].item \in Items \cup {NoItem}
    BY <1>6, RegTypes DEF TurnSettles, IInv, TurnLink, Turns
  <2>2. tables' = ProjectSettled(tables, r, turn[r].outcome, turn[r].item) \/ tables' = tables
    BY <1>6 DEF TurnSettles
  <2>3. QED
    BY <1>t, <2>1, <2>2, SettledPending
<1>7. ASSUME (\E r \in Runs : TurnRecovers(r)) \/ CrashAndRestart
      PROVE  Pending(tables') \subseteq Pending(tables)
  BY <1>2, <1>7 DEF TurnRecovers, CrashAndRestart, InterruptedOutcomes, Settled
<1>8. ASSUME DrainClaims \/ DrainFails PROVE Pending(tables') \subseteq Pending(tables)
  <2>1. drain.item \in Items
    BY <1>8 DEF DrainClaims, DrainFails, IInv, DrainLink
  <2>2. \/ tables' = tables
        \/ \E st \in {"running", "failed"} : tables' = [tables EXCEPT !.item[drain.item].status = st]
    BY <1>8 DEF DrainClaims, DrainFails, ProjectClaimed, ProjectFailed
  <2>3. QED
    BY <1>t, <2>1, <2>2 DEF Pending, Tables, QueueItem
<1>9. ASSUME RollbackCommits PROVE Pending(tables') \subseteq Pending(tables)
  <2>1. tables'.item = tables.item
    BY <1>9, <1>t DEF RollbackCommits, ProjectRolledBack, Tables
  <2>2. QED
    BY <2>1 DEF Pending
<1>10. ASSUME \/ CreateUserRun \/ (\E S \in SUBSET Runs : RollbackBegins(S))
              \/ CreateFails \/ CreateChecksCancelled \/ CreateRefused \/ CreateRegisters
              \/ (\E r \in Runs : \/ PrepareSteps(r) \/ SynthArrives(r)
                                  \/ (\E st \in Settled : TurnEnds(r, st))
                                  \/ TurnReleases(r) \/ TurnHandsOff(r)
                                  \/ TurnFault(r) \/ TurnLost(r))
              \/ DrainWakes \/ DrainPicks \/ DrainCreates \/ DrainLeaves
              \/ DrainRenumbers \/ DrainFault \/ RenumberingFault
              \/ SynthParentEnded \/ SynthRefused \/ SynthRegisters
              \/ RollbackProviderDone \/ RollbackProviderFails
       PROVE  Pending(tables') \subseteq Pending(tables)
  <2>1. tables' = tables
    BY <1>10 DEF CreateUserRun, RollbackBegins, CreateFails, CreateChecksCancelled,
        CreateRefused, CreateRegisters, PrepareSteps, Prepared, PreparationFailed,
        SynthArrives, TurnEnds, TurnReleases, TurnHandsOff, TurnFault, TurnLost, DrainWakes,
        DrainPicks, DrainCreates, DrainRenumbers, DrainLeaves, DrainFault, RenumberingFault,
        SynthParentEnded, SynthRefused, SynthRegisters, RollbackProviderDone,
        RollbackProviderFails
  <2>2. QED
    BY <2>1
<1>11. ASSUME NEW i \in Items, CancelItem(i) PROVE Pending(tables') \subseteq Pending(tables)
  BY <1>1, <1>11 DEF CancelItem
<1>12. QED
  BY <1>3, <1>4, <1>5, <1>6, <1>7, <1>8, <1>9, <1>10, <1>11
     DEF Next, Requests, CreatorSteps, TurnSteps, DrainSteps, SynthSteps, RollbackSteps, Faults

-----------------------------------------------------------------------------
(* Somebody looks at the queue, or will: a turn that has neither handed    *)
(* off nor been forgotten counts, those stranded by failures too.          *)

DrainStirs(d) == d.pc # "idle" \/ d.wakeups > 0
TurnGoesOn    == \E r \in Runs : turn[r].pc \notin {"none", "done"}

Watched == \/ DrainStirs(drain)
           \/ creator.pc # "idle" \/ synth.pc = "committed" \/ rollback.pc # "idle"
           \/ TurnGoesOn

WatchInv == Pending(tables) # {} => Watched

LEMMA ScheduledStirs == ASSUME NEW d \in Drains PROVE DrainStirs(Scheduled(d))
<1>1. MaxWakeups \in Nat /\ MaxWakeups > 0
  BY BoundsAssumption
<1>2. CASE d.pc # "idle"
  BY <1>2, ScheduledFacts DEF DrainStirs
<1>3. CASE d.pc = "idle"
  <2> DEFINE w == IF d.wakeups < MaxWakeups THEN d.wakeups + 1 ELSE d.wakeups
  <2>1. w > 0
    BY <1>1 DEF Drains
  <2>2. Scheduled(d) = [d EXCEPT !.requested = TRUE, !.wakeups = w]
    BY <1>3 DEF Scheduled, Drains
  <2>3. Scheduled(d).wakeups = w
    BY <2>2 DEF Drains
  <2> HIDE DEF w
  <2>4. QED
    BY <2>1, <2>3 DEF DrainStirs
<1>4. QED
  BY <1>2, <1>3

(* While an admission check refuses, somebody will end the reason for it.  *)
LEMMA BusyWatches ==
    ASSUME IInv, RegInv, Busy
    PROVE  creator.pc # "idle" \/ rollback.pc # "idle" \/ TurnGoesOn
<1>1. CASE registry.index # NoRun
  <2>1. registry.index \in Runs
    BY <1>1, RegTypes DEF Registries
  <2>2. turn[registry.index].pc \notin {"none", "done"}
    BY <2>1 DEF RegInv, Ownership, IndexHasTurn, Live
  <2>3. QED
    BY <2>1, <2>2 DEF TurnGoesOn
<1>2. CASE registry.pending.held \/ registry.maint
  BY <1>2 DEF RegInv, SlotsAreHeld
<1>3. QED
  BY <1>1, <1>2 DEF Busy

LEMMA WatchKept == ASSUME IInv, RegInv, WatchInv, Next PROVE WatchInv'
<1>t. /\ drain \in Drains /\ turn \in [Runs -> Turns] /\ synth \in Synths
      /\ creator \in Creators
  BY RegTypes DEF IInv, TypeOK
<1>s. Scheduled(drain).pc = drain.pc /\ DrainStirs(Scheduled(drain))
  BY <1>t, ScheduledFacts, ScheduledStirs
<1>1. ASSUME DrainStirs(drain') PROVE WatchInv'
  BY <1>1 DEF WatchInv, Watched, DrainStirs
<1>2. ASSUME Pending(tables') \subseteq Pending(tables), Watched => Watched' PROVE WatchInv'
  BY <1>2 DEF WatchInv
<1>3. ASSUME NEW r \in Runs, turn'[r].pc \notin {"none", "done"} PROVE WatchInv'
  BY <1>3 DEF WatchInv, Watched, TurnGoesOn
<1>4. ASSUME \/ (\E i \in Items : Enqueue(i)) \/ RollbackProviderFails \/ RollbackCommits
      PROVE  WatchInv'
  BY <1>1, <1>4, <1>s DEF Enqueue, RollbackProviderFails, RollbackCommits, RollbackEnds
<1>5. ASSUME \/ DrainRecovers \/ DrainPicks \/ DrainClaims \/ DrainCreates \/ DrainReleases
             \/ DrainFails \/ DrainRenumbers \/ DrainFault \/ RenumberingFault
      PROVE  WatchInv'
  <2>1. drain'.pc # "idle"
    BY <1>5, <1>t DEF DrainRecovers, DrainPicks, DrainClaims, DrainCreates, DrainReleases,
        DrainFails, DrainRenumbers, DrainFault, RenumberingFault, DrainAt, DrainFree, Drains
  <2>2. QED
    BY <1>1, <2>1 DEF DrainStirs
<1>6. ASSUME DrainWakes PROVE WatchInv'
  <2>1. /\ tables' = tables /\ creator' = creator /\ rollback' = rollback /\ turn' = turn
        /\ synth' = synth
    BY <1>6 DEF DrainWakes
  <2>2. CASE drain.pc # "idle" \/ ~Busy
    <3>1. drain'.pc # "idle"
      BY <1>6, <1>t, <2>2 DEF DrainWakes, Idle, Drains
    <3>2. QED
      BY <1>1, <3>1 DEF DrainStirs
  <2>3. CASE Busy
    <3>1. creator.pc # "idle" \/ rollback.pc # "idle" \/ TurnGoesOn
      BY <2>3, BusyWatches
    <3>2. QED
      BY <1>2, <2>1, <3>1 DEF Watched, TurnGoesOn
  <2>4. QED
    BY <2>2, <2>3
<1>7. ASSUME DrainLeaves PROVE WatchInv'
  <2> DEFINE left == [DrainFree(drain, "idle") EXCEPT !.requested = FALSE]
  <2>1. /\ tables' = tables /\ creator' = creator /\ rollback' = rollback /\ turn' = turn
        /\ synth' = synth
    BY <1>7 DEF DrainLeaves
  <2>2. left \in Drains
    BY <1>t DEF DrainFree, Drains
  <2>3. CASE LeaveReschedules(drain)
    <3>1. drain' = Scheduled(left)
      BY <1>7, <2>3 DEF DrainLeaves
    <3> HIDE DEF left
    <3>2. QED
      BY <1>1, <2>2, <3>1, ScheduledStirs
  <2>4. CASE ~LeaveReschedules(drain) /\ Busy
    <3>1. creator.pc # "idle" \/ rollback.pc # "idle" \/ TurnGoesOn
      BY <2>4, BusyWatches
    <3>2. QED
      BY <1>2, <2>1, <3>1 DEF Watched, TurnGoesOn
  <2>5. CASE ~LeaveReschedules(drain) /\ ~Busy
    BY <2>1, <2>5 DEF LeaveReschedules, WatchInv
  <2>6. QED
    BY <2>3, <2>4, <2>5
<1>8. ASSUME CreateFails \/ CreateCancelled \/ CreateRefused PROVE WatchInv'
  <2>1. PICK code : RejectCreate(code)
    BY <1>8 DEF CreateFails, CreateCancelled, CreateRefused
  <2>2. CASE creator.item = NoItem
    BY <1>1, <1>s, <2>1, <2>2 DEF RejectCreate
  <2>3. CASE creator.item # NoItem
    <3>1. PICK woken \in Drains : drain' = DrainAt(woken, AfterError(code))
      BY <1>t, <2>1, <2>3, ScheduledFacts DEF RejectCreate
    <3>2. drain'.pc # "idle"
      BY <3>1 DEF DrainAt, AfterError, Drains
    <3>3. QED
      BY <1>1, <3>2 DEF DrainStirs
  <2>4. QED
    BY <2>2, <2>3
<1>9. ASSUME CreateRegisters \/ SynthRegisters PROVE WatchInv'
  <2>1. PICK r \in Runs : turn'[r].pc = "open"
    BY <1>9, <1>t, RegTypes DEF CreateRegisters, SynthRegisters, OpenTurn
  <2>2. QED
    BY <1>3, <2>1
<1>10. ASSUME NEW r \in Runs,
              \/ (\E st \in Settled : TurnEnds(r, st)) \/ TurnSettles(r) \/ TurnRecovers(r)
              \/ TurnReleases(r) \/ TurnFault(r) \/ TurnLost(r)
       PROVE  WatchInv'
  <2>1. ASSUME NEW st \in Settled, TurnEnds(r, st) PROVE turn'[r].pc \notin {"none", "done"}
    BY <1>t, <2>1 DEF TurnEnds, Turns
  <2>2. ASSUME TurnSettles(r) PROVE turn'[r].pc \notin {"none", "done"}
    BY <1>t, <2>2 DEF TurnSettles, Turns
  <2>3. ASSUME TurnRecovers(r) \/ TurnReleases(r) \/ TurnFault(r) \/ TurnLost(r)
        PROVE  turn'[r].pc \notin {"none", "done"}
    BY <1>t, <2>3 DEF TurnRecovers, TurnReleases, TurnFault, TurnLost, Turns
  <2>4. QED
    BY <1>3, <1>10, <2>1, <2>2, <2>3
<1>11. ASSUME NEW r \in Runs, TurnHandsOff(r) PROVE WatchInv'
  <2>1. drain' = Scheduled(drain) \/ (Pending(tables) = {} /\ tables' = tables)
    BY <1>11 DEF TurnHandsOff, GoalMayFollow
  <2>2. QED
    BY <1>1, <1>s, <2>1 DEF WatchInv
<1>12. ASSUME NEW r \in Runs, PreparationFailed(r) PROVE WatchInv'
  <2>1. r \in Runs /\ turn[r].pc = "open"
    BY <1>12 DEF PreparationFailed, RegInv, SlotsAreHeld
  <2>2. turn'[r].pc = "abandoned"
    BY <1>12, <1>t, <2>1 DEF PreparationFailed, Turns
  <2>3. QED
    BY <1>3, <2>2
<1>13. ASSUME CrashAndRestart PROVE WatchInv'
  <2>1. drain' = Scheduled(IdleDrain) \/ Pending(tables') = {}
    BY <1>13 DEF CrashAndRestart, ResumableQueues
  <2>2. DrainStirs(Scheduled(IdleDrain))
    BY InitialTypes, ScheduledStirs
  <2>3. QED
    BY <1>1, <2>1, <2>2 DEF WatchInv
<1>14. ASSUME \/ (\E i \in Items : CancelItem(i)) \/ CancelSession \/ CreateUserRun
              \/ (\E S \in SUBSET Runs : RollbackBegins(S))
              \/ CreateChecksCancelled \/ RollbackProviderDone
              \/ SynthParentEnded \/ SynthRefused
              \/ (\E r \in Runs : \/ CreateCommits(r) \/ SynthCommits(r)
                                  \/ Prepared(r) \/ SynthArrives(r))
       PROVE  WatchInv'
  <2>0. turn' = turn
    BY <1>14 DEF CancelItem, CancelSession, CreateUserRun, RollbackBegins,
        CreateChecksCancelled, RollbackProviderDone, SynthParentEnded, SynthRefused,
        CreateCommits, SynthCommits, Prepared, SynthArrives
  <2>1. rollback.pc # "idle" => rollback'.pc # "idle"
    <3>1. ASSUME RollbackProviderDone PROVE rollback'.pc # "idle"
      BY <3>1, RegTypes DEF RollbackProviderDone, Rollbacks
    <3>2. ASSUME NEW S \in SUBSET Runs, RollbackBegins(S) PROVE rollback'.pc # "idle"
      BY <3>2 DEF RollbackBegins
    <3>3. QED
      BY <1>14, <3>1, <3>2 DEF CancelItem, CancelSession, CreateUserRun,
          CreateChecksCancelled, SynthParentEnded, SynthRefused, CreateCommits, SynthCommits,
          Prepared, SynthArrives
  <2>c. creator.pc # "idle" => creator'.pc # "idle"
    <3>1. ASSUME CreateChecksCancelled \/ \E r \in Runs : CreateCommits(r)
          PROVE  creator'.pc # "idle"
      BY <1>t, <3>1 DEF CreateChecksCancelled, CreateCommits, Creators
    <3>2. ASSUME CreateUserRun PROVE creator'.pc # "idle"
      BY <3>2 DEF CreateUserRun, BeginCreate
    <3>3. QED
      BY <1>14, <3>1, <3>2 DEF CancelItem, CancelSession, RollbackBegins,
          RollbackProviderDone, SynthParentEnded, SynthRefused, SynthCommits, Prepared,
          SynthArrives
  <2>2. synth.pc = "committed" => synth'.pc = "committed"
    BY <1>14, <1>t DEF CancelItem, CancelSession, CreateUserRun, RollbackBegins,
        CreateChecksCancelled, RollbackProviderDone, SynthParentEnded, SynthRefused,
        CreateCommits, SynthCommits, Prepared, SynthArrives, Idle, Synths
  <2>3. drain' = drain \/ drain'.pc = "renumbering"
    BY <1>14, <1>t DEF CancelItem, CancelSession, CreateUserRun, RollbackBegins,
        CreateChecksCancelled, RollbackProviderDone, SynthParentEnded, SynthRefused,
        CreateCommits, SynthCommits, Prepared, SynthArrives, Drains
  <2>4. Watched => Watched'
    BY <2>0, <2>1, <2>c, <2>2, <2>3 DEF Watched, DrainStirs, TurnGoesOn
  <2>5. CASE (\E i \in Items : Enqueue(i)) \/ DrainRecovers \/ DrainReleases
    BY <1>4, <1>5, <2>5
  <2>6. CASE ~((\E i \in Items : Enqueue(i)) \/ DrainRecovers \/ DrainReleases)
    BY <1>2, <2>4, <2>6, NoNewPending
  <2>7. QED
    BY <2>5, <2>6
<1>15. QED
  BY <1>4, <1>5, <1>6, <1>7, <1>8, <1>9, <1>10, <1>11, <1>12, <1>13, <1>14
     DEF Next, Requests, CreatorSteps, PrepareSteps, TurnSteps, DrainSteps, SynthSteps,
         RollbackSteps, Faults

(* Pending work always has somebody who looks at it again, whatever cancel *)
(* requests, crashes, rollbacks, storage faults and failing preparations   *)
(* interleave, unless a run was stranded (queue/drain.ts                   *)
(* scheduleSessionQueueDrain and its callers).                             *)
THEOREM QueueIsWatchedOrStranded ==
    Spec => [](QueueIsWatched \/ \E r \in Runs : turn[r].pc \in {"abandoned", "lost"})
<1>1. Init => WatchInv
  BY DEF Init, EmptyTables, WatchInv, Pending
<1>2. IInv /\ RegInv /\ WatchInv /\ [Next]_vars => WatchInv'
  <2>1. ASSUME WatchInv, UNCHANGED vars PROVE WatchInv'
    BY <2>1 DEF vars, WatchInv, Watched, TurnGoesOn
  <2>2. QED
    BY <2>1, WatchKept
<1>3. IInv /\ WatchInv => QueueIsWatched \/ \E r \in Runs : turn[r].pc \in {"abandoned", "lost"}
  BY RegTypes DEF WatchInv, Watched, DrainStirs, TurnGoesOn, QueueIsWatched, Turns
<1>4. QED
  BY Registry, <1>1, <1>2, <1>3, PTL DEF Spec

(* With preparations that succeed and one storage fault at most, nothing   *)
(* is stranded: pending work is never left with nobody to look at it.      *)
THEOREM QueueIsWatchedAlways ==
    ASSUME ~PreparationFails, MaxFaults <= 1 PROVE Spec => []QueueIsWatched
<1>1. (QueueIsWatched \/ \E r \in Runs : turn[r].pc \in {"abandoned", "lost"})
          /\ NobodyStranded => QueueIsWatched
  BY DEF NobodyStranded
<1>2. QED
  BY QueueIsWatchedOrStranded, Stranding, <1>1, PTL

-----------------------------------------------------------------------------
(* Maintenance. Without synthetic turns a rollback has the session alone.  *)

MaintInv == /\ synth.pc = "idle"
            /\ rollback.pc # "idle" => creator.pc = "idle" /\ Streaming(tables) = {}

LEMMA NoNewStreaming ==
    ASSUME IInv, Next, creator.pc = "idle", synth.pc = "idle"
    PROVE  Streaming(tables') \subseteq Streaming(tables)
<1>t. tables \in Tables /\ TablesOK(tables)
  BY RegTypes DEF IInv
<1>1. ASSUME tables'.run = tables.run PROVE Streaming(tables') \subseteq Streaming(tables)
  BY <1>1 DEF Streaming
<1>2. ASSUME NEW st \in Settled, tables' = SettleStreaming(tables, st)
      PROVE  Streaming(tables') \subseteq Streaming(tables)
  BY <1>2, NobodyStreams
<1>3. ASSUME CancelSession PROVE Streaming(tables') \subseteq Streaming(tables)
  <2>1. CASE registry.pending.held
    <3>1. tables'.run = tables.run
      BY <1>3, <1>t, <2>1 DEF CancelSession, ProjectCancelled, Tables
    <3>2. QED
      BY <1>1, <3>1
  <2>2. CASE ~registry.pending.held
    BY <1>2, <1>3, <2>2 DEF CancelSession, Settled
  <2>3. QED
    BY <2>1, <2>2
<1>4. ASSUME NEW r \in Runs, TurnSettles(r) PROVE Streaming(tables') \subseteq Streaming(tables)
  <2>1. CASE TerminalVerdict(DecisionState(tables), r) = "ok"
    <3>1. /\ turn[r].outcome \in Settled /\ turn[r].item \in Items \cup {NoItem}
          /\ (turn[r].item # NoItem => tables.item[turn[r].item].run = r)
      BY <1>4, RegTypes DEF TurnSettles, IInv, TurnLink, Turns
    <3>2. tables.run[r] = "streaming"
      BY <1>t, <2>1, ActiveRunFacts, NullsAssumption DEF TerminalVerdict, DecisionState
    <3>3. tables'.run = [tables.run EXCEPT ![r] = turn[r].outcome]
      BY <1>4, <1>t, <2>1, <3>1, <3>2, SettledFacts DEF TurnSettles
    <3>4. QED
      BY <1>t, <3>1, <3>3 DEF Streaming, Settled, Tables
  <2>2. CASE TerminalVerdict(DecisionState(tables), r) # "ok"
    BY <1>1, <1>4, <2>2 DEF TurnSettles
  <2>3. QED
    BY <2>1, <2>2
<1>5. ASSUME (\E r \in Runs : TurnRecovers(r)) \/ CrashAndRestart
      PROVE  Streaming(tables') \subseteq Streaming(tables)
  BY <1>2, <1>5 DEF TurnRecovers, CrashAndRestart, InterruptedOutcomes, Settled
<1>6. ASSUME \/ (\E i \in Items : Enqueue(i) \/ CancelItem(i))
             \/ DrainRecovers \/ DrainClaims \/ DrainReleases \/ DrainFails
             \/ DrainRenumbers
             \/ RollbackCommits
      PROVE  Streaming(tables') \subseteq Streaming(tables)
  <2>1. tables'.run = tables.run
    BY <1>6, <1>t DEF Enqueue, ProjectEnqueued, SetItem, CancelItem, ProjectCancelled,
        DrainRecovers, ReleaseOrphans, DrainClaims, ProjectClaimed, DrainReleases,
        ProjectReleased, DrainFails, DrainRenumbers, ProjectFailed, RollbackCommits,
        ProjectRolledBack, Tables
  <2>2. QED
    BY <1>1, <2>1
<1>7. ASSUME \/ CreateUserRun \/ (\E S \in SUBSET Runs : RollbackBegins(S))
             \/ CreateFails \/ CreateChecksCancelled \/ CreateRefused \/ CreateRegisters
             \/ (\E r \in Runs : \/ PrepareSteps(r) \/ SynthArrives(r)
                                 \/ (\E st \in Settled : TurnEnds(r, st))
                                 \/ TurnReleases(r) \/ TurnHandsOff(r)
                                 \/ TurnFault(r) \/ TurnLost(r))
             \/ DrainWakes \/ DrainPicks \/ DrainCreates \/ DrainLeaves \/ DrainFault
             \/ RenumberingFault
             \/ SynthParentEnded \/ SynthRefused \/ SynthRegisters
             \/ RollbackProviderDone \/ RollbackProviderFails
      PROVE  Streaming(tables') \subseteq Streaming(tables)
  <2>1. tables' = tables
    BY <1>7 DEF CreateUserRun, RollbackBegins, CreateFails, CreateChecksCancelled,
        CreateRefused, CreateRegisters, PrepareSteps, Prepared, PreparationFailed,
        SynthArrives, TurnEnds, TurnReleases, TurnHandsOff, TurnFault, TurnLost, DrainWakes,
        DrainPicks, DrainCreates, DrainLeaves, DrainFault, RenumberingFault,
        SynthParentEnded, SynthRefused,
        SynthRegisters, RollbackProviderDone, RollbackProviderFails
  <2>2. QED
    BY <1>1, <2>1
<1>8. ASSUME \/ CreateCancelled
             \/ (\E r \in Runs : CreateCommits(r) \/ SynthCommits(r))
      PROVE  FALSE
  BY <1>8 DEF CreateCancelled, CreateCommits, SynthCommits
<1>9. QED
  BY <1>3, <1>4, <1>5, <1>6, <1>7, <1>8
     DEF Next, Requests, CreatorSteps, TurnSteps, DrainSteps, SynthSteps, RollbackSteps, Faults

LEMMA MaintKept ==
    ASSUME MaxSynths = 0, IInv, RegInv, MaintInv, Next PROVE MaintInv'
<1>s. \A r \in Runs : ~SynthArrives(r)
  BY DEF SynthArrives, Spend, IInv, TypeOK, Budgets
<1>1. synth'.pc = "idle"
  <2>1. ASSUME SynthSteps PROVE FALSE
    BY <2>1 DEF MaintInv, SynthSteps, SynthParentEnded, SynthRefused, SynthRegisters,
        SynthCommits
  <2>2. ASSUME \/ Requests \/ CreatorSteps \/ RollbackSteps \/ DrainSteps \/ Faults
               \/ (\E r \in Runs : PrepareSteps(r) \/ TurnSteps(r))
        PROVE  synth' = synth \/ synth' = IdleSynth
    BY <2>2 DEF Requests, Enqueue, CancelItem, CancelSession, CreateUserRun, RollbackBegins,
        CreatorSteps, CreateFails, CreateChecksCancelled, CreateCancelled, CreateRefused,
        CreateRegisters, CreateCommits, RollbackSteps, RollbackProviderDone,
        RollbackProviderFails, RollbackCommits, DrainSteps, DrainWakes, DrainRecovers,
        DrainPicks, DrainClaims, DrainCreates, DrainReleases, DrainFails, DrainRenumbers,
        DrainLeaves,
        Faults, DrainFault, RenumberingFault, CrashAndRestart, TurnFault, TurnLost,
        PrepareSteps, Prepared,
        PreparationFailed, TurnSteps, TurnEnds, TurnSettles, TurnRecovers, TurnReleases,
        TurnHandsOff
  <2>3. QED
    BY <1>s, <2>1, <2>2 DEF Next, MaintInv, IdleSynth
<1>2. ASSUME NEW S \in SUBSET Runs, RollbackBegins(S)
      PROVE  creator'.pc = "idle" /\ Streaming(tables') = {}
  <2>1. creator.pc = "idle" /\ creator' = creator /\ tables' = tables
    BY <1>2 DEF RollbackBegins, Busy, RegInv, SlotsAreHeld
  <2>2. Streaming(tables) = {}
    BY <1>2 DEF RollbackBegins, RegInv, MessageStreams, Streaming
  <2>3. QED
    BY <2>1, <2>2
<1>3. ASSUME rollback'.pc # "idle", \A S \in SUBSET Runs : ~RollbackBegins(S)
      PROVE  creator'.pc = "idle" /\ Streaming(tables') = {}
  <2>1. rollback.pc # "idle"
    <3>1. ASSUME RollbackSteps PROVE rollback.pc # "idle"
      BY <1>3, <3>1 DEF RollbackSteps, RollbackProviderDone, RollbackProviderFails,
          RollbackCommits
    <3>2. ASSUME CrashAndRestart PROVE FALSE
      BY <1>3, <3>2 DEF CrashAndRestart, IdleRollback
    <3>3. ASSUME \/ (\E i \in Items : Enqueue(i) \/ CancelItem(i)) \/ CancelSession
                 \/ CreateUserRun \/ CreatorSteps \/ DrainSteps \/ DrainFault
                 \/ RenumberingFault \/ SynthSteps
                 \/ (\E r \in Runs : \/ PrepareSteps(r) \/ TurnSteps(r)
                                     \/ TurnFault(r) \/ TurnLost(r))
          PROVE  rollback' = rollback
      BY <3>3 DEF Enqueue, CancelItem, CancelSession, CreateUserRun, CreatorSteps,
          CreateFails, CreateChecksCancelled, CreateCancelled, CreateRefused, CreateRegisters,
          CreateCommits, DrainSteps, DrainWakes, DrainRecovers, DrainPicks, DrainClaims,
          DrainCreates, DrainReleases, DrainFails, DrainRenumbers, DrainLeaves,
          DrainFault, RenumberingFault, SynthSteps,
          SynthParentEnded, SynthRefused, SynthRegisters, SynthCommits, PrepareSteps,
          Prepared, PreparationFailed, TurnSteps, TurnEnds, TurnSettles, TurnRecovers,
          TurnReleases, TurnHandsOff, TurnFault, TurnLost
    <3>4. QED
      BY <1>s, <1>3, <3>1, <3>2, <3>3 DEF Next, Requests, Faults
  <2>2. creator.pc = "idle" /\ Streaming(tables) = {} /\ ~CanClaimPending
    BY <2>1 DEF MaintInv, CanClaimPending, Busy, RegInv, SlotsAreHeld
  <2>3. Streaming(tables') = {}
    BY <2>2, NoNewStreaming DEF MaintInv
  <2>4. creator'.pc = "idle"
    <3>1. ASSUME CreatorSteps \/ CreateUserRun PROVE creator'.pc = "idle"
      BY <2>2, <3>1 DEF CreatorSteps, CreateFails, CreateChecksCancelled, CreateCancelled,
          CreateRefused, CreateRegisters, CreateCommits, RejectCreate, IdleCreator,
          CreateUserRun
    <3>2. ASSUME CrashAndRestart PROVE creator'.pc = "idle"
      BY <3>2 DEF CrashAndRestart, IdleCreator
    <3>3. ASSUME \/ (\E i \in Items : Enqueue(i) \/ CancelItem(i)) \/ CancelSession
                 \/ DrainSteps \/ DrainFault \/ RenumberingFault \/ SynthSteps
                 \/ RollbackSteps
                 \/ (\E r \in Runs : \/ PrepareSteps(r) \/ TurnSteps(r)
                                     \/ TurnFault(r) \/ TurnLost(r))
          PROVE  creator' = creator
      BY <2>2, <3>3 DEF Enqueue, CancelItem, CancelSession, DrainSteps, DrainWakes,
          DrainRecovers, DrainPicks, DrainClaims, DrainCreates, DrainReleases, DrainFails,
          DrainRenumbers,
          DrainLeaves, DrainFault, RenumberingFault, SynthSteps, SynthParentEnded,
          SynthRefused,
          SynthRegisters, SynthCommits, RollbackSteps, RollbackProviderDone,
          RollbackProviderFails, RollbackCommits, PrepareSteps, Prepared, PreparationFailed,
          TurnSteps, TurnEnds, TurnSettles, TurnRecovers, TurnReleases, TurnHandsOff,
          TurnFault, TurnLost
    <3>4. QED
      BY <1>s, <1>3, <2>2, <3>1, <3>2, <3>3 DEF Next, Requests, Faults
  <2>5. QED
    BY <2>2, <2>3, <2>4
<1>4. QED
  BY <1>1, <1>2, <1>3 DEF MaintInv

(* Where no provider sends synthetic turns, the transcript a provider was  *)
(* told to roll back is the one that is rolled back: from rollbackTurns'   *)
(* claim to its commit no run is set up or streaming, whatever cancels,    *)
(* crashes and faults there are (lifecycle/rollback.ts).                   *)
THEOREM MaintenanceExclusiveAlways ==
    ASSUME MaxSynths = 0 PROVE Spec => []MaintenanceExclusive
<1>1. Init => MaintInv
  BY DEF Init, IdleSynth, IdleRollback, MaintInv
<1>2. IInv /\ RegInv /\ MaintInv /\ [Next]_vars => MaintInv'
  <2>1. ASSUME MaintInv, UNCHANGED vars PROVE MaintInv'
    BY <2>1 DEF vars, MaintInv
  <2>2. QED
    BY <2>1, MaintKept
<1>3. RegInv /\ MaintInv => MaintenanceExclusive
  BY DEF RegInv, SlotsAreHeld, MaintInv, MaintenanceExclusive, Idle
<1>4. QED
  BY Registry, <1>1, <1>2, <1>3, PTL DEF Spec
=============================================================================
