--------------------------- MODULE SessionLogProofs ---------------------------
(***************************************************************************)
(* For any runs, items, chain and crashes: the rows, the log, the messages *)
(* and the checkpoints of a session agree, also when a task waits in the   *)
(* actor's chain with what its caller read earlier.                        *)
(*                                                                         *)
(* Two invariants.  RunInv is about runs: the tables and the replayed      *)
(* state agree on them, and the facts counted per run, its message and its *)
(* checkpoint follow its row.  It holds whatever waits in the chain, for   *)
(* tasks about a run that is no longer there append nothing; what it needs *)
(* of the chain is that a start that waits is its run's only start.        *)
(*                                                                         *)
(* ItemInv is about queue items, and needs the chain: a task that was      *)
(* ready when its caller submitted it must still be ready when it runs     *)
(* (ItemsChainOK).  A reorder that waits is not, hence ~StaleReorders.     *)
(***************************************************************************)
EXTENDS SessionLog, SessionFactsProofs, RecursionProofs, FiniteSetTheorems

-----------------------------------------------------------------------------
(* What a sequence of facts leaves: the function that EvolveAll and        *)
(* ProjectAll choose exists, so it has its equation.                       *)

Evolves(s, es) ==
    \E f : /\ EvolveAll(s, es) = f[Len(es)] /\ f[0] = s
          /\ \A k \in 1..Len(es) : f[k] = Evolve(f[k - 1], es[k])

Projects(s, es) ==
    \E f : /\ ProjectAll(s, es) = f[Len(es)] /\ f[0] = s
          /\ \A k \in 1..Len(es) : f[k] = Project(f[k - 1], es[k])

LEMMA EvolveSteps ==
    ASSUME NEW s, NEW es, Len(es) \in Nat PROVE Evolves(s, es)
<1> DEFINE n        == Len(es)
           UpTo(m, f) == f = [k \in 0..m |-> IF k = 0 THEN s ELSE Evolve(f[k - 1], es[k])]
           T        == {m \in Nat : \E f : UpTo(m, f)}
<1>1. 0 \in T
  <2> DEFINE f == [k \in 0..0 |-> s]
  <2>1. UpTo(0, f)
    OBVIOUS
  <2> QED BY <2>1
<1>2. ASSUME NEW m \in Nat, m \in T PROVE m + 1 \in T
  <2>1. PICK f : UpTo(m, f)
    BY <1>2
  <2> DEFINE g == [k \in 0..(m + 1) |-> IF k = m + 1 THEN Evolve(f[m], es[m + 1]) ELSE f[k]]
  <2>2. ASSUME NEW k \in 0..(m + 1)
        PROVE  g[k] = IF k = 0 THEN s ELSE Evolve(g[k - 1], es[k])
    <3>1. CASE k = m + 1
      <4>1. m \in 0..(m + 1) /\ m # m + 1 /\ k - 1 = m /\ k # 0
        BY <3>1
      <4> QED BY <3>1, <4>1
    <3>2. CASE k = 0
      <4>1. f[0] = s
        BY <2>1
      <4> QED BY <3>2, <4>1
    <3>3. CASE k # m + 1 /\ k # 0
      <4>1. k \in 0..m /\ k - 1 \in 0..(m + 1) /\ k - 1 # m + 1
        BY <3>3
      <4>2. f[k] = Evolve(f[k - 1], es[k])
        BY <2>1, <3>3, <4>1
      <4> QED BY <3>3, <4>1, <4>2
    <3> QED BY <3>1, <3>2, <3>3
  <2>3. UpTo(m + 1, g)
    <3> DEFINE h == [k \in 0..(m + 1) |-> IF k = 0 THEN s ELSE Evolve(g[k - 1], es[k])]
    <3>1. \A k \in 0..(m + 1) : g[k] = h[k]
      <4> HIDE DEF g
      <4> QED BY <2>2
    <3>2. g = [k \in 0..(m + 1) |-> g[k]] /\ h = [k \in 0..(m + 1) |-> h[k]]
      OBVIOUS
    <3>3. g = h
      <4> HIDE DEF g, h
      <4> QED BY <3>1, <3>2
    <3> QED BY <3>3
  <2> HIDE DEF UpTo, g
  <2> QED BY <2>3
<1>3. n \in T
  <2> HIDE DEF T
  <2>1. Nat \subseteq T
    BY <1>1, <1>2, SetInduction
  <2> QED BY <2>1
<1>4. PICK f : UpTo(n, f) /\ EvolveAll(s, es) = f[n]
  <2>1. PICK g : UpTo(n, g)
    BY <1>3
  <2>2. UpTo(n, CHOOSE f : UpTo(n, f))
    BY <2>1
  <2>3. EvolveAll(s, es) = (CHOOSE f : UpTo(n, f))[n]
    BY DEF EvolveAll
  <2> QED BY <2>2, <2>3
<1>5. f[0] = s /\ \A k \in 1..n : f[k] = Evolve(f[k - 1], es[k])
  <2>1. \A k \in 0..n : f[k] = IF k = 0 THEN s ELSE Evolve(f[k - 1], es[k])
    BY <1>4
  <2>2. 0 \in 0..n /\ \A k \in 1..n : k \in 0..n /\ k # 0
    OBVIOUS
  <2> HIDE DEF n, UpTo
  <2> QED BY <2>1, <2>2
<1> QED BY <1>4, <1>5 DEF Evolves

LEMMA ProjectSteps ==
    ASSUME NEW s, NEW es, Len(es) \in Nat PROVE Projects(s, es)
<1> DEFINE n        == Len(es)
           UpTo(m, f) == f = [k \in 0..m |-> IF k = 0 THEN s ELSE Project(f[k - 1], es[k])]
           T        == {m \in Nat : \E f : UpTo(m, f)}
<1>1. 0 \in T
  <2> DEFINE f == [k \in 0..0 |-> s]
  <2>1. UpTo(0, f)
    OBVIOUS
  <2> QED BY <2>1
<1>2. ASSUME NEW m \in Nat, m \in T PROVE m + 1 \in T
  <2>1. PICK f : UpTo(m, f)
    BY <1>2
  <2> DEFINE g == [k \in 0..(m + 1) |-> IF k = m + 1 THEN Project(f[m], es[m + 1]) ELSE f[k]]
  <2>2. ASSUME NEW k \in 0..(m + 1)
        PROVE  g[k] = IF k = 0 THEN s ELSE Project(g[k - 1], es[k])
    <3>1. CASE k = m + 1
      <4>1. m \in 0..(m + 1) /\ m # m + 1 /\ k - 1 = m /\ k # 0
        BY <3>1
      <4> QED BY <3>1, <4>1
    <3>2. CASE k = 0
      <4>1. f[0] = s
        BY <2>1
      <4> QED BY <3>2, <4>1
    <3>3. CASE k # m + 1 /\ k # 0
      <4>1. k \in 0..m /\ k - 1 \in 0..(m + 1) /\ k - 1 # m + 1
        BY <3>3
      <4>2. f[k] = Project(f[k - 1], es[k])
        BY <2>1, <3>3, <4>1
      <4> QED BY <3>3, <4>1, <4>2
    <3> QED BY <3>1, <3>2, <3>3
  <2>3. UpTo(m + 1, g)
    <3> DEFINE h == [k \in 0..(m + 1) |-> IF k = 0 THEN s ELSE Project(g[k - 1], es[k])]
    <3>1. \A k \in 0..(m + 1) : g[k] = h[k]
      <4> HIDE DEF g
      <4> QED BY <2>2
    <3>2. g = [k \in 0..(m + 1) |-> g[k]] /\ h = [k \in 0..(m + 1) |-> h[k]]
      OBVIOUS
    <3>3. g = h
      <4> HIDE DEF g, h
      <4> QED BY <3>1, <3>2
    <3> QED BY <3>3
  <2> HIDE DEF UpTo, g
  <2> QED BY <2>3
<1>3. n \in T
  <2> HIDE DEF T
  <2>1. Nat \subseteq T
    BY <1>1, <1>2, SetInduction
  <2> QED BY <2>1
<1>4. PICK f : UpTo(n, f) /\ ProjectAll(s, es) = f[n]
  <2>1. PICK g : UpTo(n, g)
    BY <1>3
  <2>2. UpTo(n, CHOOSE f : UpTo(n, f))
    BY <2>1
  <2>3. ProjectAll(s, es) = (CHOOSE f : UpTo(n, f))[n]
    BY DEF ProjectAll
  <2> QED BY <2>2, <2>3
<1>5. f[0] = s /\ \A k \in 1..n : f[k] = Project(f[k - 1], es[k])
  <2>1. \A k \in 0..n : f[k] = IF k = 0 THEN s ELSE Project(f[k - 1], es[k])
    BY <1>4
  <2>2. 0 \in 0..n /\ \A k \in 1..n : k \in 0..n /\ k # 0
    OBVIOUS
  <2> HIDE DEF n, UpTo
  <2> QED BY <2>1, <2>2
<1> QED BY <1>4, <1>5 DEF Projects

(* Both at once, over a set of pairs that every fact keeps.                *)
LEMMA AllKeep ==
    ASSUME NEW t, NEW s, NEW es, Len(es) \in Nat, NEW P, <<t, s>> \in P,
           \A k \in 1..Len(es) : \A q \in P : <<Project(q[1], es[k]), Evolve(q[2], es[k])>> \in P
    PROVE  <<ProjectAll(t, es), EvolveAll(s, es)>> \in P
<1>1. PICK f : /\ ProjectAll(t, es) = f[Len(es)] /\ f[0] = t
               /\ \A k \in 1..Len(es) : f[k] = Project(f[k - 1], es[k])
  BY ProjectSteps DEF Projects
<1>2. PICK g : /\ EvolveAll(s, es) = g[Len(es)] /\ g[0] = s
               /\ \A k \in 1..Len(es) : g[k] = Evolve(g[k - 1], es[k])
  BY EvolveSteps DEF Evolves
<1> DEFINE T == {k \in 0..Len(es) : <<f[k], g[k]>> \in P}
<1>3. 0 \in T
  BY <1>1, <1>2
<1>4. ASSUME NEW k \in 1..Len(es), k - 1 \in T PROVE k \in T
  <2>1. <<f[k - 1], g[k - 1]>> \in P /\ k \in 0..Len(es)
    BY <1>4
  <2>2. <<Project(f[k - 1], es[k]), Evolve(g[k - 1], es[k])>> \in P
    BY <2>1
  <2>3. <<f[k], g[k]>> \in P
    BY <1>1, <1>2, <2>2
  <2> QED BY <2>1, <2>3
<1>5. 0..Len(es) \subseteq T
  <2> HIDE DEF T
  <2> QED BY <1>3, <1>4, BoundedInduction
<1>6. Len(es) \in T
  <2> HIDE DEF T
  <2> QED BY <1>5
<1> QED BY <1>1, <1>2, <1>6

LEMMA NoFact == ASSUME NEW t PROVE ProjectAll(t, <<>>) = t /\ EvolveAll(t, <<>>) = t
<1>1. Len(<<>>) = 0 /\ 0 \in Nat
  OBVIOUS
<1>2. ProjectAll(t, <<>>) = t
  BY <1>1, ProjectSteps DEF Projects
<1>3. EvolveAll(t, <<>>) = t
  BY <1>1, EvolveSteps DEF Evolves
<1> QED BY <1>2, <1>3

LEMMA OneFact ==
    ASSUME NEW t, NEW e
    PROVE  ProjectAll(t, <<e>>) = Project(t, e) /\ EvolveAll(t, <<e>>) = Evolve(t, e)
<1>1. Len(<<e>>) = 1 /\ 1 \in 1..1 /\ 1 - 1 = 0 /\ <<e>>[1] = e /\ 1 \in Nat
  OBVIOUS
<1>2. ProjectAll(t, <<e>>) = Project(t, e)
  BY <1>1, ProjectSteps DEF Projects
<1>3. EvolveAll(t, <<e>>) = Evolve(t, e)
  BY <1>1, EvolveSteps DEF Evolves
<1> QED BY <1>2, <1>3

LEMMA TwoFacts ==
    ASSUME NEW t, NEW d, NEW e
    PROVE  /\ ProjectAll(t, <<d, e>>) = Project(Project(t, d), e)
           /\ EvolveAll(t, <<d, e>>) = Evolve(Evolve(t, d), e)
<1>1. /\ Len(<<d, e>>) = 2 /\ 1 \in 1..2 /\ 2 \in 1..2 /\ 1 - 1 = 0 /\ 2 - 1 = 1 /\ 2 \in Nat
      /\ <<d, e>>[1] = d /\ <<d, e>>[2] = e
  OBVIOUS
<1>2. ProjectAll(t, <<d, e>>) = Project(Project(t, d), e)
  BY <1>1, ProjectSteps DEF Projects
<1>3. EvolveAll(t, <<d, e>>) = Evolve(Evolve(t, d), e)
  BY <1>1, EvolveSteps DEF Evolves
<1> QED BY <1>2, <1>3

-----------------------------------------------------------------------------
(* Single facts                                                            *)

ItemFactTypes == {"QueueItemEnqueued", "QueueItemClaimed", "QueueItemReleased",
                  "QueueItemFailed", "QueueItemReordered", "QueueItemCancelled"}

(* What the fact of an item says of that item, in the table and in replay. *)
RowAfter(type, it) ==
    CASE type \in {"QueueItemEnqueued", "QueueItemReleased"} -> [status |-> "pending", run |-> NoRun]
      [] type = "QueueItemClaimed"   -> [status |-> "running", run |-> it.run]
      [] type = "QueueItemFailed"    -> [status |-> "failed", run |-> it.run]
      [] type = "QueueItemReordered" -> [status |-> "pending", run |-> it.run]
      [] type = "QueueItemCancelled" -> IF Startable(it)
                                        THEN [status |-> "cancelled", run |-> it.run] ELSE it

ReplayAfter(type, it) ==
    CASE type \in {"QueueItemEnqueued", "QueueItemReleased"} -> [status |-> "pending", run |-> NoRun]
      [] type = "QueueItemClaimed"   -> [status |-> "running", run |-> NoRun]
      [] type = "QueueItemFailed"    -> [status |-> "failed", run |-> it.run]
      [] type = "QueueItemReordered" -> it
      [] type = "QueueItemCancelled" -> [status |-> "cancelled", run |-> it.run]

LEMMA RowTypes ==
    ASSUME NEW type \in ItemFactTypes, NEW it \in QueueItem
    PROVE  RowAfter(type, it) \in QueueItem /\ ReplayAfter(type, it) \in QueueItem
BY DEF ItemFactTypes, QueueItem, ItemStatus, RowAfter, ReplayAfter

(* The tables with another row for one item.                               *)
WithRow(t, i, it, u) ==
    /\ u \in Tables /\ u.run = t.run /\ u.msg = t.msg
    /\ \A j \in Items : u.item[j] = IF j = i THEN it ELSE t.item[j]

LEMMA StatusSet ==
    ASSUME NEW t \in Tables, NEW i \in Items, NEW st \in ItemStatus
    PROVE  WithRow(t, i, [status |-> st, run |-> t.item[i].run], [t EXCEPT !.item[i].status = st])
BY DEF WithRow, Tables, QueueItem

LEMMA ItemFactProjects ==
    ASSUME NEW t \in Tables, NEW type \in ItemFactTypes, NEW i \in Items
    PROVE  WithRow(t, i, RowAfter(type, t.item[i]), Project(t, ItemFact(type, i)))
<1> DEFINE e == ItemFact(type, i)
<1>0. e.type = type /\ e.item = i
  BY DEF ItemFact
<1>1. {"pending", "running", "failed", "cancelled"} \subseteq ItemStatus /\ NoRun \in Runs \cup {NoRun}
  BY DEF ItemStatus
<1> HIDE DEF e
<1>2. CASE type \in {"QueueItemEnqueued", "QueueItemReleased"}
  <2>1. Project(t, e) = SetItem(t, i, "pending", NoRun)
    BY <1>0, <1>2 DEF Project, ProjectEnqueued, ProjectReleased
  <2>2. RowAfter(type, t.item[i]) = [status |-> "pending", run |-> NoRun]
    BY <1>2 DEF RowAfter
  <2> QED BY <1>1, <2>1, <2>2, SetItemType DEF WithRow, e
<1>3. CASE type = "QueueItemClaimed"
  <2>1. Project(t, e) = [t EXCEPT !.item[i].status = "running"]
    BY <1>0, <1>3 DEF Project, ProjectClaimed
  <2> QED BY <1>1, <1>3, <2>1, StatusSet DEF RowAfter, e
<1>4. CASE type = "QueueItemFailed"
  <2>1. Project(t, e) = [t EXCEPT !.item[i].status = "failed"]
    BY <1>0, <1>4 DEF Project, ProjectFailed
  <2> QED BY <1>1, <1>4, <2>1, StatusSet DEF RowAfter, e
<1>5. CASE type = "QueueItemReordered"
  <2>1. Project(t, e) = [t EXCEPT !.item[i].status = "pending"]
    BY <1>0, <1>5 DEF Project, ProjectReordered
  <2> QED BY <1>1, <1>5, <2>1, StatusSet DEF RowAfter, e
<1>6. CASE type = "QueueItemCancelled"
  <2>1. Project(t, e) = IF Startable(t.item[i]) THEN [t EXCEPT !.item[i].status = "cancelled"] ELSE t
    BY <1>0, <1>6 DEF Project, ProjectCancelled
  <2>2. WithRow(t, i, t.item[i], t)
    BY DEF WithRow
  <2> QED BY <1>1, <1>6, <2>1, <2>2, StatusSet DEF RowAfter, e
<1> QED BY <1>2, <1>3, <1>4, <1>5, <1>6 DEF ItemFactTypes, e

WithReplayed(s, i, it, u) ==
    /\ u \in Replays /\ u.active = s.active
    /\ \A j \in Items : u.item[j] = IF j = i THEN it ELSE s.item[j]

LEMMA ReplaySet ==
    ASSUME NEW s \in Replays, NEW i \in Items, NEW it \in QueueItem
    PROVE  WithReplayed(s, i, it, [s EXCEPT !.item[i] = it])
BY DEF WithReplayed, Replays

LEMMA ReplayStatusSet ==
    ASSUME NEW s \in Replays, NEW i \in Items, NEW st \in ItemStatus
    PROVE  WithReplayed(s, i, [status |-> st, run |-> s.item[i].run], [s EXCEPT !.item[i].status = st])
BY DEF WithReplayed, Replays, QueueItem

LEMMA ItemFactEvolves ==
    ASSUME NEW s \in Replays, NEW type \in ItemFactTypes, NEW i \in Items
    PROVE  WithReplayed(s, i, ReplayAfter(type, s.item[i]), Evolve(s, ItemFact(type, i)))
<1> DEFINE e == ItemFact(type, i)
<1>0. e.type = type /\ e.item = i
  BY DEF ItemFact
<1>1. /\ {"failed", "cancelled"} \subseteq ItemStatus
      /\ [status |-> "pending", run |-> NoRun] \in QueueItem
      /\ [status |-> "running", run |-> NoRun] \in QueueItem
  BY DEF ItemStatus, QueueItem
<1> HIDE DEF e
<1>2. CASE type \in {"QueueItemEnqueued", "QueueItemReleased"}
  <2>1. Evolve(s, e) = [s EXCEPT !.item[i] = [status |-> "pending", run |-> NoRun]]
    BY <1>0, <1>2 DEF Evolve
  <2> QED BY <1>1, <1>2, <2>1, ReplaySet DEF ReplayAfter, e
<1>3. CASE type = "QueueItemClaimed"
  <2>1. Evolve(s, e) = [s EXCEPT !.item[i] = [status |-> "running", run |-> NoRun]]
    BY <1>0, <1>3 DEF Evolve
  <2> QED BY <1>1, <1>3, <2>1, ReplaySet DEF ReplayAfter, e
<1>4. CASE type = "QueueItemFailed"
  <2>1. Evolve(s, e) = [s EXCEPT !.item[i].status = "failed"]
    BY <1>0, <1>4 DEF Evolve
  <2> QED BY <1>1, <1>4, <2>1, ReplayStatusSet DEF ReplayAfter, e
<1>5. CASE type = "QueueItemReordered"
  <2>1. Evolve(s, e) = s
    BY <1>0, <1>5 DEF Evolve
  <2> QED BY <1>5, <2>1 DEF ReplayAfter, WithReplayed, e
<1>6. CASE type = "QueueItemCancelled"
  <2>1. Evolve(s, e) = [s EXCEPT !.item[i].status = "cancelled"]
    BY <1>0, <1>6 DEF Evolve
  <2> QED BY <1>1, <1>6, <2>1, ReplayStatusSet DEF ReplayAfter, e
<1> QED BY <1>2, <1>3, <1>4, <1>5, <1>6 DEF ItemFactTypes, e

-----------------------------------------------------------------------------
(* Facts of items, any number of them                                      *)

ItemBatch(es, type, S) ==
    /\ Len(es) \in Nat /\ DOMAIN es = 1..Len(es)
    /\ \A k \in 1..Len(es) : \E i \in S : es[k] = ItemFact(type, i)

LEMMA SmallBatches ==
    ASSUME NEW type, NEW S, NEW i \in S
    PROVE  ItemBatch(<<>>, type, S) /\ ItemBatch(<<ItemFact(type, i)>>, type, S)
<1>1. Len(<<>>) = 0 /\ DOMAIN <<>> = 1..0
  OBVIOUS
<1>2. ItemBatch(<<>>, type, S)
  BY <1>1 DEF ItemBatch
<1>3. Len(<<ItemFact(type, i)>>) = 1 /\ DOMAIN <<ItemFact(type, i)>> = 1..1
      /\ <<ItemFact(type, i)>>[1] = ItemFact(type, i)
  OBVIOUS
<1>4. ItemBatch(<<ItemFact(type, i)>>, type, S)
  BY <1>3 DEF ItemBatch
<1> QED BY <1>2, <1>4

LEMMA SetBatch ==
    ASSUME NEW type, NEW S \in SUBSET Items PROVE ItemBatch(ItemFacts(type, S), type, S)
<1> DEFINE n     == Cardinality(S)
           order == SetToSeq(S)
           es    == [k \in DOMAIN order |-> ItemFact(type, order[k])]
<1>1. n \in Nat /\ ExistsBijection(1..n, S)
  BY SessionLogAssumption, FS_Subset, FS_CardinalityType
<1>2. order \in [1..n -> S]
  <2>1. PICK f \in [1..n -> S] : IsInjective(f)
    BY <1>1 DEF ExistsBijection, Bijection, Injection, IsInjective
  <2> QED BY <2>1 DEF SetToSeq
<1> HIDE DEF order, n
<1>3. DOMAIN es = 1..n /\ \A k \in 1..n : es[k] = ItemFact(type, order[k]) /\ order[k] \in S
  BY <1>2
<1>4. Len(es) = n
  <2> DEFINE Facts == {ItemFact(type, i) : i \in S}
  <2>1. es \in [1..n -> Facts]
    <3>1. es = [k \in 1..n |-> ItemFact(type, order[k])]
      BY <1>2
    <3> HIDE DEF es
    <3> QED BY <1>3, <3>1
  <2> HIDE DEF es, Facts
  <2>2. es \in Seq(Facts)
    BY <1>1, <2>1
  <2> QED BY <1>1, <1>3, <2>2
<1>5. ItemFacts(type, S) = es
  BY DEF ItemFacts, order
<1> HIDE DEF es
<1> QED BY <1>1, <1>3, <1>4, <1>5 DEF ItemBatch

LEMMA NeverCounted ==
    ASSUME facts \in FactCount, NEW es,
           \A k \in DOMAIN es : es[k].type \notin {"RunStarted", "RunTerminal"}
    PROVE  /\ CountFacts(facts, es) = facts
           /\ checkpoints \ {es[k].run : k \in {j \in DOMAIN es : es[j].type = "RunTerminal"}} = checkpoints
<1>1. \A k \in DOMAIN es : es[k].type # "RunStarted" /\ es[k].type # "RunTerminal"
  OBVIOUS
<1>2. ASSUME NEW r \in Runs
      PROVE  /\ {k \in DOMAIN es : es[k].type = "RunStarted" /\ es[k].run = r} = {}
             /\ {k \in DOMAIN es : es[k].type = "RunTerminal" /\ es[k].run = r} = {}
  BY <1>1
<1>3. Cardinality({}) = 0
  BY FS_EmptySet
<1>4. ASSUME NEW r \in Runs
      PROVE  [started |-> facts[r].started
                 + Cardinality({k \in DOMAIN es : es[k].type = "RunStarted" /\ es[k].run = r}),
              ended   |-> facts[r].ended
                 + Cardinality({k \in DOMAIN es : es[k].type = "RunTerminal" /\ es[k].run = r})]
             = facts[r]
  <2>1. /\ facts[r].started \in Nat /\ facts[r].ended \in Nat
        /\ facts[r] = [started |-> facts[r].started, ended |-> facts[r].ended]
    BY <1>4 DEF FactCount
  <2>2. facts[r].started + 0 = facts[r].started /\ facts[r].ended + 0 = facts[r].ended
    BY <2>1
  <2> QED BY <1>2, <1>3, <1>4, <2>1, <2>2
<1>5. CountFacts(facts, es) = [r \in Runs |-> facts[r]]
  BY <1>4 DEF CountFacts
<1>6. facts = [r \in Runs |-> facts[r]]
  BY DEF FactCount
<1>7. {j \in DOMAIN es : es[j].type = "RunTerminal"} = {}
  BY <1>1
<1> QED BY <1>5, <1>6, <1>7

LEMMA NothingCounted ==
    ASSUME NEW type \in ItemFactTypes, NEW S, NEW es, ItemBatch(es, type, S), facts \in FactCount
    PROVE  /\ CountFacts(facts, es) = facts
           /\ checkpoints \ {es[k].run : k \in {j \in DOMAIN es : es[j].type = "RunTerminal"}} = checkpoints
<1>1. \A k \in DOMAIN es : es[k].type \notin {"RunStarted", "RunTerminal"}
  <2> TAKE k \in DOMAIN es
  <2>1. PICK i \in S : es[k] = ItemFact(type, i)
    BY DEF ItemBatch
  <2>2. ItemFact(type, i).type = type
    BY DEF ItemFact
  <2>3. es[k].type = type
    BY <2>1, <2>2
  <2> QED BY <2>3 DEF ItemFactTypes
<1> QED BY <1>1, NeverCounted

(* Nobody starts, ends or is unsaid.                                       *)
SameRuns ==
    /\ tables' \in Tables /\ replay' \in Replays
    /\ tables'.run = tables.run /\ tables'.msg = tables.msg
    /\ replay'.active = replay.active
    /\ facts' = facts /\ checkpoints' = checkpoints

LogTypes ==
    /\ tables \in Tables /\ replay \in Replays
    /\ facts \in FactCount /\ checkpoints \subseteq Runs

LEMMA BatchKeepsRuns ==
    ASSUME LogTypes, NEW type \in ItemFactTypes, NEW S \in SUBSET Items, NEW es,
           ItemBatch(es, type, S), AppendFacts(es) \/ NoAppend
    PROVE  SameRuns
<1>1. CASE NoAppend
  BY <1>1 DEF NoAppend, SameRuns, LogTypes
<1>2. CASE AppendFacts(es)
  <2> DEFINE P == {q \in Tables \X Replays : /\ q[1].run = tables.run /\ q[1].msg = tables.msg
                                          /\ q[2].active = replay.active}
  <2>1. <<tables, replay>> \in P
    BY DEF LogTypes
  <2>2. ASSUME NEW k \in 1..Len(es), NEW q \in P
        PROVE  <<Project(q[1], es[k]), Evolve(q[2], es[k])>> \in P
    <3>1. PICK i \in Items : es[k] = ItemFact(type, i)
      BY DEF ItemBatch
    <3>2. WithRow(q[1], i, RowAfter(type, q[1].item[i]), Project(q[1], es[k]))
      BY <3>1, ItemFactProjects
    <3>3. WithReplayed(q[2], i, ReplayAfter(type, q[2].item[i]), Evolve(q[2], es[k]))
      BY <3>1, ItemFactEvolves
    <3>4. /\ Project(q[1], es[k]) \in Tables /\ Evolve(q[2], es[k]) \in Replays
          /\ Project(q[1], es[k]).run = tables.run /\ Project(q[1], es[k]).msg = tables.msg
          /\ Evolve(q[2], es[k]).active = replay.active
      BY <3>2, <3>3 DEF WithRow, WithReplayed
    <3> QED BY <3>4
  <2>3. <<ProjectAll(tables, es), EvolveAll(replay, es)>> \in P
    <3> HIDE DEF P
    <3>1. Len(es) \in Nat
      BY DEF ItemBatch
    <3> QED BY <2>1, <2>2, <3>1, AllKeep
  <2>4. tables' = ProjectAll(tables, es) /\ replay' = EvolveAll(replay, es)
    BY <1>2 DEF AppendFacts
  <2>5. /\ tables' \in Tables /\ replay' \in Replays
        /\ tables'.run = tables.run /\ tables'.msg = tables.msg
        /\ replay'.active = replay.active
    BY <2>3, <2>4
  <2>6. facts' = facts /\ checkpoints' = checkpoints
    BY <1>2, NothingCounted DEF AppendFacts, LogTypes
  <2> QED BY <2>5, <2>6 DEF SameRuns
<1> QED BY <1>1, <1>2

-----------------------------------------------------------------------------
(* Facts of runs                                                           *)

LEMMA CountedOnce ==
    ASSUME facts \in FactCount, NEW r \in Runs, NEW es, NEW p \in DOMAIN es, es[p].run = r,
           es[p].type \in {"RunStarted", "RunTerminal"},
           \A k \in DOMAIN es : k # p => es[k].type \notin {"RunStarted", "RunTerminal"}
    PROVE  /\ es[p].type = "RunStarted"
                => /\ CountFacts(facts, es) = [facts EXCEPT ![r].started = @ + 1]
                   /\ checkpoints \ {es[k].run : k \in {j \in DOMAIN es : es[j].type = "RunTerminal"}}
                        = checkpoints
           /\ es[p].type = "RunTerminal"
                => /\ CountFacts(facts, es) = [facts EXCEPT ![r].ended = @ + 1]
                   /\ checkpoints \ {es[k].run : k \in {j \in DOMAIN es : es[j].type = "RunTerminal"}}
                        = checkpoints \ {r}
<1> DEFINE At(type, x) == {k \in DOMAIN es : es[k].type = type /\ es[k].run = x}
<1>1. \A type \in {"RunStarted", "RunTerminal"}, x \in Runs :
        At(type, x) = IF type = es[p].type /\ x = r THEN {p} ELSE {}
  OBVIOUS
<1>2. Cardinality({}) = 0 /\ Cardinality({p}) = 1
  BY FS_EmptySet, FS_Singleton
<1>4. CountFacts(facts, es)
        = [x \in Runs |-> [started |-> facts[x].started + Cardinality(At("RunStarted", x)),
                           ended   |-> facts[x].ended + Cardinality(At("RunTerminal", x))]]
  BY DEF CountFacts
<1> HIDE DEF At
<1>5. ASSUME es[p].type = "RunStarted"
      PROVE  CountFacts(facts, es) = [facts EXCEPT ![r].started = @ + 1]
  <2>1. ASSUME NEW x \in Runs
        PROVE  [started |-> facts[x].started + Cardinality(At("RunStarted", x)),
                ended   |-> facts[x].ended + Cardinality(At("RunTerminal", x))]
               = IF x = r THEN [facts[x] EXCEPT !.started = @ + 1] ELSE facts[x]
    <3>1. /\ Cardinality(At("RunStarted", x)) = IF x = r THEN 1 ELSE 0
          /\ Cardinality(At("RunTerminal", x)) = 0
      BY <1>1, <1>2, <1>5
    <3>2. /\ facts[x].started \in Nat /\ facts[x].ended \in Nat
          /\ facts[x] = [started |-> facts[x].started, ended |-> facts[x].ended]
      BY <2>1 DEF FactCount
    <3>3. facts[x].started + 0 = facts[x].started /\ facts[x].ended + 0 = facts[x].ended
      BY <3>2
    <3> DEFINE a == Cardinality(At("RunStarted", x))
               b == Cardinality(At("RunTerminal", x))
    <3> HIDE DEF a, b
    <3>4. CASE x = r
      BY <3>1, <3>2, <3>3, <3>4 DEF a, b
    <3>5. CASE x # r
      BY <3>1, <3>2, <3>3, <3>5 DEF a, b
    <3> QED BY <3>4, <3>5
  <2>2. [facts EXCEPT ![r].started = @ + 1]
          = [x \in Runs |-> IF x = r THEN [facts[x] EXCEPT !.started = @ + 1] ELSE facts[x]]
    BY DEF FactCount
  <2> QED BY <1>4, <2>1, <2>2
<1>6. ASSUME es[p].type = "RunTerminal"
      PROVE  CountFacts(facts, es) = [facts EXCEPT ![r].ended = @ + 1]
  <2>1. ASSUME NEW x \in Runs
        PROVE  [started |-> facts[x].started + Cardinality(At("RunStarted", x)),
                ended   |-> facts[x].ended + Cardinality(At("RunTerminal", x))]
               = IF x = r THEN [facts[x] EXCEPT !.ended = @ + 1] ELSE facts[x]
    <3>1. /\ Cardinality(At("RunTerminal", x)) = IF x = r THEN 1 ELSE 0
          /\ Cardinality(At("RunStarted", x)) = 0
      BY <1>1, <1>2, <1>6
    <3>2. /\ facts[x].started \in Nat /\ facts[x].ended \in Nat
          /\ facts[x] = [started |-> facts[x].started, ended |-> facts[x].ended]
      BY <2>1 DEF FactCount
    <3>3. facts[x].started + 0 = facts[x].started /\ facts[x].ended + 0 = facts[x].ended
      BY <3>2
    <3> DEFINE a == Cardinality(At("RunStarted", x))
               b == Cardinality(At("RunTerminal", x))
    <3> HIDE DEF a, b
    <3>4. CASE x = r
      BY <3>1, <3>2, <3>3, <3>4 DEF a, b
    <3>5. CASE x # r
      BY <3>1, <3>2, <3>3, <3>5 DEF a, b
    <3> QED BY <3>4, <3>5
  <2>2. [facts EXCEPT ![r].ended = @ + 1]
          = [x \in Runs |-> IF x = r THEN [facts[x] EXCEPT !.ended = @ + 1] ELSE facts[x]]
    BY DEF FactCount
  <2> QED BY <1>4, <2>1, <2>2
<1>7. {j \in DOMAIN es : es[j].type = "RunTerminal"} = IF es[p].type = "RunTerminal" THEN {p} ELSE {}
  OBVIOUS
<1> QED BY <1>5, <1>6, <1>7

LEMMA AdmittedOne ==
    ASSUME NEW e, Admitted(<<e>>) PROVE Verdict(DecisionState(tables), e) = "ok"
<1>1. 1 \in DOMAIN <<e>> /\ <<e>>[1] = e /\ 1 - 1 = 0
  OBVIOUS
<1>2. SubSeq(<<e>>, 1, 0) = <<>>
  BY SubSeqEmpty
<1>3. EvolveAll(DecisionState(tables), <<>>) = DecisionState(tables)
  BY NoFact
<1> QED BY <1>1, <1>2, <1>3 DEF Admitted, DecideAll

LEMMA AdmittedTwo ==
    ASSUME NEW d, NEW e, Admitted(<<d, e>>)
    PROVE  Verdict(Evolve(DecisionState(tables), d), e) = "ok"
<1>1. 2 \in DOMAIN <<d, e>> /\ <<d, e>>[2] = e /\ 2 - 1 = 1
  OBVIOUS
<1>2. SubSeq(<<d, e>>, 1, 1) = <<d>>
  <2> DEFINE s == <<d, e>>
             u == SubSeq(s, 1, 1)
  <2>1. \A k \in 1..1 : s[k] \in {d} /\ s[1] = d
    OBVIOUS
  <2> HIDE DEF s
  <2>2. u \in Seq({d}) /\ Len(u) = 1 /\ u[1] = d
    BY <2>1, SubSeqProperties
  <2>3. <<d>> \in Seq({d}) /\ Len(<<d>>) = 1 /\ <<d>>[1] = d
    OBVIOUS
  <2> HIDE DEF u
  <2>4. u = <<d>>
    BY <2>2, <2>3, SeqEqual
  <2> QED BY <2>4 DEF u, s
<1>3. EvolveAll(DecisionState(tables), <<d>>) = Evolve(DecisionState(tables), d)
  BY OneFact
<1> QED BY <1>1, <1>2, <1>3 DEF Admitted, DecideAll

StartedItem(r)     == [status |-> "running", run |-> r]
SettledItem(st, r) == [status |-> QueueTerminalStatus(st), run |-> r]

Starts(r, i) ==
    /\ ActiveRun(tables) = NoRun /\ (i # NoItem => Startable(tables.item[i]))
    /\ tables' \in Tables /\ replay' \in Replays
    /\ tables'.run = [tables.run EXCEPT ![r] = "streaming"]
    /\ tables'.msg = [tables.msg EXCEPT ![r] = "streaming"]
    /\ \A j \in Items : tables'.item[j] = IF j = i THEN StartedItem(r) ELSE tables.item[j]
    /\ replay'.active = r
    /\ \A j \in Items : replay'.item[j] = IF j = i THEN StartedItem(r) ELSE replay.item[j]
    /\ facts' = [facts EXCEPT ![r].started = @ + 1] /\ checkpoints' = checkpoints

LEMMA StartCommits ==
    ASSUME LogTypes, NEW r \in Runs, NEW i \in Items \cup {NoItem},
           Admitted(<<RunStarted(r, i)>>), AppendFacts(<<RunStarted(r, i)>>)
    PROVE  Starts(r, i)
<1> DEFINE e  == RunStarted(r, i)
           es == <<e>>
<1>0. e.type = "RunStarted" /\ e.run = r /\ e.item = i
  BY DEF RunStarted
<1> HIDE DEF e
<1>1. Verdict(DecisionState(tables), e) = StartVerdict(DecisionState(tables), i)
  BY <1>0 DEF Verdict
<1>2. StartVerdict(DecisionState(tables), i) = "ok"
  BY <1>1, AdmittedOne DEF e
<1>3. ActiveRun(tables) = NoRun /\ (i # NoItem => Startable(tables.item[i]))
  BY <1>2 DEF StartVerdict, DecisionState
<1>4. tables' = ProjectRunStarted(tables, r, i) /\ replay' = Evolve(replay, e)
  <2>1. tables' = ProjectAll(tables, <<e>>) /\ replay' = EvolveAll(replay, <<e>>)
    BY DEF AppendFacts, e
  <2>2. Project(tables, e) = ProjectRunStarted(tables, r, i)
    BY <1>0 DEF Project
  <2> QED BY <2>1, <2>2, OneFact
<1> DEFINE o == [tables EXCEPT !.run[r] = "streaming", !.msg[r] = "streaming"]
<1>5. /\ o \in Tables /\ o.run = [tables.run EXCEPT ![r] = "streaming"]
      /\ o.msg = [tables.msg EXCEPT ![r] = "streaming"] /\ o.item = tables.item
  BY DEF LogTypes, Tables, RunStatus
<1>6. tables' = IF i = NoItem THEN o ELSE SetItem(o, i, "running", r)
  BY <1>4 DEF ProjectRunStarted
<1> HIDE DEF o
<1>7. /\ tables' \in Tables /\ tables'.run = o.run /\ tables'.msg = o.msg
      /\ \A j \in Items : tables'.item[j] = IF j = i THEN StartedItem(r) ELSE tables.item[j]
  <2>1. CASE i = NoItem
    BY <1>5, <1>6, <2>1, NullsAssumption
  <2>2. CASE i \in Items
    <3>1. tables' = SetItem(o, i, "running", r) /\ "running" \in ItemStatus
      BY <1>6, <2>2, NullsAssumption DEF ItemStatus
    <3> QED BY <1>5, <2>2, <3>1, SetItemType DEF StartedItem
  <2> QED BY <2>1, <2>2
<1>8. /\ replay' \in Replays /\ replay'.active = r
      /\ \A j \in Items : replay'.item[j] = IF j = i THEN StartedItem(r) ELSE replay.item[j]
  <2>1. Evolve(replay, e) = [replay EXCEPT !.active = r,
             !.item = [j \in Items |-> IF j = i THEN StartedItem(r) ELSE @[j]]]
    BY <1>0 DEF Evolve, StartedItem
  <2>2. StartedItem(r) \in QueueItem
    BY DEF StartedItem, QueueItem, ItemStatus
  <2> DEFINE items == [j \in Items |-> IF j = i THEN StartedItem(r) ELSE replay.item[j]]
  <2>3. Evolve(replay, e) = [replay EXCEPT !.active = r, !.item = items]
    BY <2>1
  <2>4. items \in [Items -> QueueItem]
    BY <2>2 DEF LogTypes, Replays
  <2>5. \A j \in Items : items[j] = IF j = i THEN StartedItem(r) ELSE replay.item[j]
    OBVIOUS
  <2> HIDE DEF items
  <2> QED BY <1>4, <2>3, <2>4, <2>5 DEF LogTypes, Replays
<1>9. facts' = [facts EXCEPT ![r].started = @ + 1] /\ checkpoints' = checkpoints
  <2>1. 1 \in DOMAIN es /\ es[1] = e /\ \A k \in DOMAIN es : k = 1
    OBVIOUS
  <2>2. facts' = CountFacts(facts, es)
        /\ checkpoints' = checkpoints \ {es[k].run : k \in {j \in DOMAIN es : es[j].type = "RunTerminal"}}
    BY DEF AppendFacts, e
  <2> HIDE DEF es
  <2> QED BY <1>0, <2>1, <2>2, CountedOnce DEF LogTypes
<1> QED BY <1>3, <1>5, <1>7, <1>8, <1>9 DEF Starts

SettlesRows(r, st, i) ==
    /\ tables' \in Tables /\ replay' \in Replays
    /\ tables'.run = [tables.run EXCEPT ![r] = st]
    /\ tables'.msg = [tables.msg EXCEPT ![r] = IF @ = "absent" THEN @ ELSE st]
    /\ \A j \in Items : tables'.item[j] = IF j = i THEN SettledItem(st, r) ELSE tables.item[j]
    /\ replay'.active = IF replay.active = r THEN NoRun ELSE replay.active
    /\ \A j \in Items : replay'.item[j] = IF j = i THEN SettledItem(st, r) ELSE replay.item[j]

Settles(r, st, i) ==
    /\ tables.run[r] = "streaming" /\ SettlesRows(r, st, i)
    /\ facts' = [facts EXCEPT ![r].ended = @ + 1] /\ checkpoints' = checkpoints \ {r}

LEMMA SettleRows ==
    ASSUME LogTypes, NEW r \in Runs, NEW st \in Settled, NEW i \in Items \cup {NoItem},
           tables.run[r] = "streaming",
           tables' = ProjectRunTerminal(ProjectMessageCompleted(tables, r, st), r, st, i),
           replay' = Evolve(replay, RunTerminal(r, st, i))
    PROVE  SettlesRows(r, st, i)
<1> DEFINE m == ProjectMessageCompleted(tables, r, st)
           c == [m EXCEPT !.run[r] = IF @ = "absent" THEN @ ELSE st]
           e == RunTerminal(r, st, i)
<1>1. /\ m \in Tables /\ m.run = tables.run /\ m.item = tables.item
      /\ m.msg = [tables.msg EXCEPT ![r] = IF @ = "absent" THEN @ ELSE st]
  BY DEF ProjectMessageCompleted, LogTypes, Tables, RunStatus
<1>2. /\ c \in Tables /\ c.run = [tables.run EXCEPT ![r] = st]
      /\ c.msg = m.msg /\ c.item = tables.item
  <2> HIDE DEF m
  <2> QED BY <1>1 DEF Tables, RunStatus
<1>3. tables' = IF i = NoItem THEN c ELSE SetItem(c, i, QueueTerminalStatus(st), r)
  BY DEF ProjectRunTerminal
<1>4. SettledItem(st, r) \in QueueItem /\ QueueTerminalStatus(st) \in ItemStatus
  BY DEF SettledItem, QueueItem, QueueTerminalStatus, ItemStatus
<1> HIDE DEF m, c
<1>5. /\ tables' \in Tables /\ tables'.run = c.run /\ tables'.msg = c.msg
      /\ \A j \in Items : tables'.item[j] = IF j = i THEN SettledItem(st, r) ELSE tables.item[j]
  <2>1. CASE i = NoItem
    BY <1>2, <1>3, <2>1, NullsAssumption
  <2>2. CASE i \in Items
    <3>1. tables' = SetItem(c, i, QueueTerminalStatus(st), r)
      BY <1>3, <2>2, NullsAssumption
    <3> QED BY <1>2, <1>4, <2>2, <3>1, SetItemType DEF SettledItem
  <2> QED BY <2>1, <2>2
<1>6. e.type = "RunTerminal" /\ e.run = r /\ e.item = i /\ e.status = st
  BY DEF RunTerminal
<1>7. /\ replay' \in Replays /\ replay'.active = IF replay.active = r THEN NoRun ELSE replay.active
      /\ \A j \in Items : replay'.item[j] = IF j = i THEN SettledItem(st, r) ELSE replay.item[j]
  <2> DEFINE items == [j \in Items |-> IF j = i THEN SettledItem(st, r) ELSE replay.item[j]]
             act   == IF replay.active = r THEN NoRun ELSE replay.active
  <2> HIDE DEF e
  <2>1. replay' = [replay EXCEPT !.active = act, !.item = items]
    BY <1>6 DEF Evolve, SettledItem, e
  <2>2. items \in [Items -> QueueItem] /\ act \in Runs \cup {NoRun}
    BY <1>4 DEF LogTypes, Replays
  <2>3. \A j \in Items : items[j] = IF j = i THEN SettledItem(st, r) ELSE replay.item[j]
    OBVIOUS
  <2> HIDE DEF items, act
  <2>4. replay' \in Replays /\ replay'.active = act /\ replay'.item = items
    BY <2>1, <2>2 DEF LogTypes, Replays
  <2> QED BY <2>3, <2>4 DEF act
<1> QED BY <1>1, <1>2, <1>5, <1>7 DEF SettlesRows

LEMMA SettleCommits ==
    ASSUME LogTypes, NEW r \in Runs, NEW st \in Settled, NEW i \in Items \cup {NoItem},
           tables.run[r] = "streaming", AppendFacts(SettleFacts(r, st, i))
    PROVE  Settles(r, st, i)
<1> DEFINE d  == MessageCompleted(r, st)
           e  == RunTerminal(r, st, i)
           es == <<d, e>>
<1>1. /\ d.type = "AssistantMessageCompleted" /\ d.run = r /\ d.status = st
      /\ e.type = "RunTerminal" /\ e.run = r /\ e.item = i /\ e.status = st
  BY DEF MessageCompleted, RunTerminal
<1> HIDE DEF d, e
<1>2. /\ tables' = ProjectAll(tables, <<d, e>>) /\ replay' = EvolveAll(replay, <<d, e>>)
      /\ facts' = CountFacts(facts, es)
      /\ checkpoints' = checkpoints \ {es[k].run : k \in {j \in DOMAIN es : es[j].type = "RunTerminal"}}
  BY DEF AppendFacts, SettleFacts, d, e
<1>3. tables' = Project(Project(tables, d), e) /\ replay' = Evolve(Evolve(replay, d), e)
  BY <1>2, TwoFacts
<1>4. /\ Project(tables, d) = ProjectMessageCompleted(tables, r, st)
      /\ \A t : Project(t, e) = ProjectRunTerminal(t, r, st, i)
      /\ Evolve(replay, d) = replay
  BY <1>1 DEF Project, Evolve
<1>5. SettlesRows(r, st, i)
  BY <1>3, <1>4, SettleRows DEF e
<1>6. facts' = [facts EXCEPT ![r].ended = @ + 1] /\ checkpoints' = checkpoints \ {r}
  <2>1. /\ 2 \in DOMAIN es /\ es[2] = e /\ es[1] = d
        /\ \A k \in DOMAIN es : k # 2 => k = 1
    OBVIOUS
  <2> HIDE DEF es
  <2>2. \A k \in DOMAIN es : k # 2 => es[k].type \notin {"RunStarted", "RunTerminal"}
    BY <1>1, <2>1
  <2> QED BY <1>1, <1>2, <2>1, <2>2, CountedOnce DEF LogTypes
<1> QED BY <1>5, <1>6 DEF Settles

LEMMA AdmittedSettle ==
    ASSUME LogTypes, NEW r \in Runs, NEW st, NEW i, Admitted(SettleFacts(r, st, i))
    PROVE  tables.run[r] = "streaming"
<1> DEFINE d == MessageCompleted(r, st)
           e == RunTerminal(r, st, i)
<1>1. d.type = "AssistantMessageCompleted" /\ e.type = "RunTerminal" /\ e.run = r
  BY DEF MessageCompleted, RunTerminal
<1>2. Admitted(<<d, e>>)
  BY DEF SettleFacts
<1> HIDE DEF d, e
<1>3. Verdict(Evolve(DecisionState(tables), d), e) = "ok"
  BY <1>2, AdmittedTwo
<1>4. Evolve(DecisionState(tables), d) = DecisionState(tables)
  BY <1>1 DEF Evolve
<1>5. Verdict(DecisionState(tables), e) = TerminalVerdict(DecisionState(tables), r)
  BY <1>1 DEF Verdict
<1>6. ActiveRun(tables) = r
  BY <1>3, <1>4, <1>5 DEF TerminalVerdict, DecisionState
<1> QED BY <1>6, ActiveRunFacts, NullsAssumption DEF LogTypes

Unsays(S) ==
    /\ ActiveRun(tables) = NoRun
    /\ tables' \in Tables /\ replay' \in Replays
    /\ tables'.run = tables.run /\ tables'.item = tables.item /\ replay'.item = replay.item
    /\ \A r \in Runs : tables'.msg[r] = IF r \in S THEN "absent" ELSE tables.msg[r]
    /\ replay'.active \in {replay.active, NoRun}
    /\ facts' = facts /\ checkpoints' = checkpoints

LEMMA RollbackCommits ==
    ASSUME LogTypes, NEW S \in SUBSET Runs,
           Admitted(<<TurnsRolledBack(S)>>), AppendFacts(<<TurnsRolledBack(S)>>)
    PROVE  Unsays(S)
<1> DEFINE e  == TurnsRolledBack(S)
           es == <<e>>
<1>0. e.type = "LastTurnRolledBack" /\ e.turns = S
  BY DEF TurnsRolledBack
<1> HIDE DEF e
<1>1. ActiveRun(tables) = NoRun
  <2>1. Verdict(DecisionState(tables), e) = "ok"
    BY AdmittedOne DEF e
  <2>2. Verdict(DecisionState(tables), e) = RollbackVerdict(DecisionState(tables))
    BY <1>0 DEF Verdict
  <2> QED BY <2>1, <2>2 DEF RollbackVerdict, DecisionState
<1>2. tables' = ProjectRolledBack(tables, S) /\ replay' = Evolve(replay, e)
  <2>1. tables' = ProjectAll(tables, <<e>>) /\ replay' = EvolveAll(replay, <<e>>)
    BY DEF AppendFacts, e
  <2>2. Project(tables, e) = ProjectRolledBack(tables, S)
    BY <1>0 DEF Project
  <2> QED BY <2>1, <2>2, OneFact
<1>3. /\ tables' \in Tables /\ tables'.run = tables.run /\ tables'.item = tables.item
      /\ \A r \in Runs : tables'.msg[r] = IF r \in S THEN "absent" ELSE tables.msg[r]
  BY <1>2 DEF ProjectRolledBack, LogTypes, Tables, RunStatus
<1>4. /\ replay' \in Replays /\ replay'.item = replay.item
      /\ replay'.active \in {replay.active, NoRun}
  BY <1>0, <1>2 DEF Evolve, LogTypes, Replays
<1>5. facts' = facts /\ checkpoints' = checkpoints
  <2>1. es[1] = e /\ \A k \in DOMAIN es : k = 1
    OBVIOUS
  <2>2. facts' = CountFacts(facts, es)
        /\ checkpoints' = checkpoints \ {es[k].run : k \in {j \in DOMAIN es : es[j].type = "RunTerminal"}}
    BY DEF AppendFacts, e
  <2> HIDE DEF es
  <2>3. \A k \in DOMAIN es : es[k].type \notin {"RunStarted", "RunTerminal"}
    BY <1>0, <2>1
  <2> QED BY <2>2, <2>3, NeverCounted DEF LogTypes
<1> QED BY <1>1, <1>3, <1>4, <1>5 DEF Unsays

-----------------------------------------------------------------------------
(* The runs: what each kind of commit keeps                                *)

(* What the log holds of a run is what its row says.                       *)
FactsTell ==
    \A r \in Runs :
        facts[r] = [started |-> IF tables.run[r] = "absent" THEN 0 ELSE 1,
                    ended   |-> IF tables.run[r] \in Settled THEN 1 ELSE 0]

RunsOK ==
    /\ LogTypes /\ OneStreaming(tables) /\ replay.active = ActiveRun(tables)
    /\ FactsTell /\ MessageTellsOutcome /\ CheckpointsAreLive

LEMMA SameActive ==
    ASSUME NEW t \in Tables, NEW u \in Tables, u.run = t.run PROVE ActiveRun(u) = ActiveRun(t)
BY DEF ActiveRun, Streaming

LEMMA SameRunsKeeps == ASSUME RunsOK, SameRuns PROVE RunsOK'
<1>1. LogTypes'
  BY DEF RunsOK, LogTypes, SameRuns
<1>2. replay'.active = ActiveRun(tables')
  BY SameActive DEF RunsOK, LogTypes, SameRuns
<1>3. OneStreaming(tables') /\ FactsTell' /\ MessageTellsOutcome' /\ CheckpointsAreLive'
  BY DEF RunsOK, SameRuns, OneStreaming, FactsTell, MessageTellsOutcome, CheckpointsAreLive
<1> QED BY <1>1, <1>2, <1>3 DEF RunsOK

LEMMA StartsKeeps ==
    ASSUME RunsOK, NEW r \in Runs, NEW i, tables.run[r] = "absent", Starts(r, i) PROVE RunsOK'
<1>0. tables \in Tables /\ tables' \in Tables /\ facts \in FactCount
  BY DEF RunsOK, LogTypes, Starts
<1>1. \A q \in Runs : tables'.run[q] = IF q = r THEN "streaming" ELSE tables.run[q]
  BY <1>0 DEF Starts, Tables
<1>2. \A q \in Runs : tables'.msg[q] = IF q = r THEN "streaming" ELSE tables.msg[q]
  BY <1>0 DEF Starts, Tables
<1>3. \A q \in Runs : tables.run[q] # "streaming"
  BY <1>0, ActiveRunFacts DEF Starts
<1>4. OneStreaming(tables')
  BY <1>1, <1>3 DEF OneStreaming
<1>5. replay'.active = ActiveRun(tables')
  BY <1>0, <1>1, <1>4, ActiveRunUnique DEF Starts
<1>6. facts[r] = [started |-> 0, ended |-> 0]
  BY DEF RunsOK, FactsTell, Settled
<1>7. facts' \in FactCount /\ facts'[r] = [started |-> 1, ended |-> 0]
      /\ \A q \in Runs : q # r => facts'[q] = facts[q]
  BY <1>0, <1>6 DEF Starts, FactCount
<1>8. FactsTell'
  BY <1>1, <1>7 DEF RunsOK, FactsTell, Settled
<1>9. LogTypes'
  BY <1>7 DEF RunsOK, LogTypes, Starts
<1>10. MessageTellsOutcome' /\ CheckpointsAreLive'
  BY <1>1, <1>2, <1>9 DEF RunsOK, MessageTellsOutcome, CheckpointsAreLive, Starts, Settled, LogTypes
<1> QED BY <1>4, <1>5, <1>8, <1>9, <1>10 DEF RunsOK

LEMMA SettlesKeeps ==
    ASSUME RunsOK, NEW r \in Runs, NEW st \in Settled, NEW i, Settles(r, st, i) PROVE RunsOK'
<1>0. tables \in Tables /\ tables' \in Tables /\ facts \in FactCount /\ checkpoints \subseteq Runs
  BY DEF RunsOK, LogTypes, Settles, SettlesRows
<1>1. \A q \in Runs : tables'.run[q] = IF q = r THEN st ELSE tables.run[q]
  BY <1>0 DEF Settles, SettlesRows, Tables
<1>2. \A q \in Runs : tables'.msg[q] = IF q = r /\ tables.msg[q] # "absent" THEN st ELSE tables.msg[q]
  BY <1>0 DEF Settles, SettlesRows, Tables
<1>3. \A q \in Runs : tables.run[q] = "streaming" => q = r
  BY DEF RunsOK, OneStreaming, Settles
<1>4. \A q \in Runs : tables'.run[q] # "streaming"
  BY <1>1, <1>3 DEF Settled
<1>5. OneStreaming(tables')
  BY <1>4 DEF OneStreaming
<1>6. replay'.active = ActiveRun(tables')
  <2>1. replay.active = r
    BY <1>0, ActiveRunUnique DEF RunsOK, Settles
  <2>2. replay'.active = NoRun
    BY <2>1 DEF Settles, SettlesRows
  <2>3. ActiveRun(tables') = NoRun
    BY <1>4 DEF ActiveRun, Streaming
  <2> QED BY <2>2, <2>3
<1>7. facts[r] = [started |-> 1, ended |-> 0]
  BY DEF RunsOK, FactsTell, Settled, Settles
<1>8. facts' \in FactCount /\ facts'[r] = [started |-> 1, ended |-> 1]
      /\ \A q \in Runs : q # r => facts'[q] = facts[q]
  BY <1>0, <1>7 DEF Settles, FactCount
<1>9. FactsTell'
  BY <1>1, <1>8 DEF RunsOK, FactsTell, Settled
<1>10. LogTypes'
  BY <1>0, <1>8 DEF LogTypes, Settles, SettlesRows
<1>11. MessageTellsOutcome'
  BY <1>1, <1>2 DEF RunsOK, MessageTellsOutcome, Settled
<1>12. CheckpointsAreLive'
  <2>1. checkpoints' = checkpoints \ {r}
    BY DEF Settles
  <2> QED BY <1>0, <1>1, <2>1 DEF RunsOK, CheckpointsAreLive
<1> QED BY <1>5, <1>6, <1>9, <1>10, <1>11, <1>12 DEF RunsOK

LEMMA UnsaysKeeps == ASSUME RunsOK, NEW S \in SUBSET Runs, Unsays(S) PROVE RunsOK'
<1>1. tables \in Tables /\ tables' \in Tables /\ tables'.run = tables.run
  BY DEF RunsOK, LogTypes, Unsays
<1>2. LogTypes'
  BY DEF RunsOK, LogTypes, Unsays
<1>3. replay'.active = ActiveRun(tables')
  BY <1>1, SameActive DEF RunsOK, Unsays
<1>4. OneStreaming(tables') /\ FactsTell' /\ MessageTellsOutcome' /\ CheckpointsAreLive'
  BY <1>1 DEF RunsOK, Unsays, OneStreaming, FactsTell, MessageTellsOutcome, CheckpointsAreLive
<1> QED BY <1>2, <1>3, <1>4 DEF RunsOK

-----------------------------------------------------------------------------
(* Tasks                                                                   *)

Tasks ==
    {t \in Shape :
        /\ t.kind \in ItemKinds  => t.item \in Items
        /\ t.kind \in RunKinds   => t.run \in Runs
        /\ t.kind = "finish"     => t.status \in Settled
        /\ t.kind = "reorder"    => t.set \subseteq Items
        /\ t.kind = "rollback"   => t.set \subseteq Runs
        /\ t.kind = "enqueue"    => t = ItemTask("enqueue", t.item)}

LEMMA RanShape == /\ Ran \in Shape /\ Ran.kind = "ran" /\ Ran.run = NoRun /\ Ran.item = NoItem
                  /\ Ran.status = "" /\ Ran.set = {}
BY DEF Ran, Shape

SameItems == tables'.item = tables.item /\ replay'.item = replay.item

LEMMA NothingAppended == ASSUME LogTypes, NoAppend PROVE SameRuns /\ SameItems
BY DEF NoAppend, SameRuns, SameItems, LogTypes

LEMMA EmptyBatch == ASSUME NEW type, NEW S PROVE ItemBatch(<<>>, type, S)
<1>1. Len(<<>>) = 0 /\ DOMAIN <<>> = 1..0
  OBVIOUS
<1> QED BY <1>1 DEF ItemBatch

(* The tasks about items commit facts about items, of one type.            *)
FactType(kind) ==
    CASE kind = "enqueue"              -> "QueueItemEnqueued"
      [] kind = "claim"                -> "QueueItemClaimed"
      [] kind \in {"release", "orphans"} -> "QueueItemReleased"
      [] kind = "fail"                 -> "QueueItemFailed"
      [] kind = "cancel"               -> "QueueItemCancelled"
      [] kind = "reorder"              -> "QueueItemReordered"

Touched(t) ==
    CASE t.kind \in {"enqueue", "release", "fail"} -> {t.item}
      [] t.kind = "claim"   -> {i \in {t.item} : tables.item[i].status = "pending"}
      [] t.kind = "cancel"  -> {i \in {t.item} : Startable(tables.item[i])}
      [] t.kind = "orphans" -> OrphanClaims(tables)
      [] t.kind = "reorder" -> t.set

BatchKinds == ItemKinds \cup {"orphans", "reorder"}

LEMMA ItemTasks ==
    ASSUME NEW t \in Tasks, t.kind \in BatchKinds
    PROVE  /\ FactType(t.kind) \in ItemFactTypes /\ Touched(t) \in SUBSET Items
           /\ ItemBatch(TaskFacts(t), FactType(t.kind), Touched(t))
<1>1. CASE t.kind \in {"enqueue", "release", "fail"}
  <2>1. /\ TaskFacts(t) = <<ItemFact(FactType(t.kind), t.item)>> /\ Touched(t) = {t.item}
        /\ t.item \in Items /\ FactType(t.kind) \in ItemFactTypes
    BY <1>1 DEF TaskFacts, FactType, Touched, Tasks, Shape, ItemKinds, ItemFactTypes
  <2>2. t.item \in {t.item}
    OBVIOUS
  <2> QED BY <2>1, <2>2, SmallBatches
<1>2. CASE t.kind = "claim"
  <2>1. t.item \in Items /\ FactType(t.kind) = "QueueItemClaimed"
        /\ Touched(t) = {i \in {t.item} : tables.item[i].status = "pending"}
    BY <1>2 DEF FactType, Touched, Tasks, Shape, ItemKinds
  <2>2. CASE tables.item[t.item].status = "pending"
    <3>1. TaskFacts(t) = <<ItemFact("QueueItemClaimed", t.item)>> /\ t.item \in Touched(t)
      BY <1>2, <2>1, <2>2 DEF TaskFacts
    <3> QED BY <2>1, <3>1, SmallBatches DEF ItemFactTypes
  <2>3. CASE tables.item[t.item].status # "pending"
    <3>1. TaskFacts(t) = <<>>
      BY <1>2, <2>3 DEF TaskFacts
    <3> QED BY <2>1, <3>1, EmptyBatch DEF ItemFactTypes
  <2> QED BY <2>2, <2>3
<1>3. CASE t.kind = "cancel"
  <2>1. t.item \in Items /\ FactType(t.kind) = "QueueItemCancelled"
        /\ Touched(t) = {i \in {t.item} : Startable(tables.item[i])}
    BY <1>3 DEF FactType, Touched, Tasks, Shape, ItemKinds
  <2>2. CASE Startable(tables.item[t.item])
    <3>1. TaskFacts(t) = <<ItemFact("QueueItemCancelled", t.item)>> /\ t.item \in Touched(t)
      BY <1>3, <2>1, <2>2 DEF TaskFacts
    <3> QED BY <2>1, <3>1, SmallBatches DEF ItemFactTypes
  <2>3. CASE ~Startable(tables.item[t.item])
    <3>1. TaskFacts(t) = <<>>
      BY <1>3, <2>3 DEF TaskFacts
    <3> QED BY <2>1, <3>1, EmptyBatch DEF ItemFactTypes
  <2> QED BY <2>2, <2>3
<1>4. CASE t.kind = "orphans"
  <2>1. /\ TaskFacts(t) = ItemFacts("QueueItemReleased", OrphanClaims(tables))
        /\ Touched(t) = OrphanClaims(tables) /\ FactType(t.kind) = "QueueItemReleased"
        /\ OrphanClaims(tables) \in SUBSET Items
    BY <1>4 DEF TaskFacts, FactType, Touched, OrphanClaims
  <2> QED BY <2>1, SetBatch DEF ItemFactTypes
<1>5. CASE t.kind = "reorder"
  <2>1. /\ TaskFacts(t) = ItemFacts("QueueItemReordered", t.set)
        /\ Touched(t) = t.set /\ FactType(t.kind) = "QueueItemReordered"
        /\ t.set \in SUBSET Items
    BY <1>5 DEF TaskFacts, FactType, Touched, Tasks, Shape
  <2> QED BY <2>1, SetBatch DEF ItemFactTypes
<1> QED BY <1>1, <1>2, <1>3, <1>4, <1>5 DEF BatchKinds, ItemKinds

(* The run a task ends, and the item it settles with it.                   *)
EndsRun(t) ==
    /\ t.kind \in {"finish", "abort", "recover"}
    /\ \E st \in Settled, i \in Items \cup {NoItem} :
          /\ Settles(t.run, st, i)
          /\ i = IF t.kind = "finish" THEN t.item ELSE ItemOf(tables, t.run)

LEMMA RunTasks ==
    ASSUME LogTypes, NEW t \in Tasks, t.kind # "ran", Run(t)
    PROVE  \/ SameRuns /\ (t.kind \in BatchKinds \/ SameItems)
           \/ t.kind = "start" /\ Admitted(TaskFacts(t)) /\ Starts(t.run, t.item)
           \/ EndsRun(t)
           \/ t.kind = "rollback" /\ Unsays(t.set)
<1>0. CASE NoAppend
  BY <1>0, NothingAppended
<1>1. CASE t.kind \in BatchKinds
  <2>1. AppendFacts(TaskFacts(t)) \/ NoAppend
    BY <1>1 DEF Run, CommitDecided
  <2> QED BY <1>1, <2>1, ItemTasks, BatchKeepsRuns
<1>2. CASE t.kind = "start" /\ ~NoAppend
  <2>1. t.run \in Runs /\ t.item \in Items \cup {NoItem} /\ TaskFacts(t) = <<RunStarted(t.run, t.item)>>
    BY <1>2 DEF Tasks, Shape, RunKinds, TaskFacts
  <2>2. Admitted(TaskFacts(t)) /\ AppendFacts(TaskFacts(t))
    BY <1>2 DEF Run, CommitDecided
  <2> QED BY <1>2, <2>1, <2>2, StartCommits
<1>3. CASE t.kind = "finish" /\ ~NoAppend
  <2>1. /\ t.run \in Runs /\ t.item \in Items \cup {NoItem} /\ t.status \in Settled
        /\ TaskFacts(t) = SettleFacts(t.run, t.status, t.item)
    BY <1>3 DEF Tasks, Shape, RunKinds, TaskFacts
  <2>2. Admitted(TaskFacts(t)) /\ AppendFacts(TaskFacts(t))
    BY <1>3 DEF Run, CommitDecided
  <2>3. Settles(t.run, t.status, t.item)
    BY <2>1, <2>2, AdmittedSettle, SettleCommits
  <2> QED BY <1>3, <2>1, <2>3 DEF EndsRun
<1>4. CASE t.kind \in {"abort", "recover"} /\ ~NoAppend
  <2>1. t.run \in Runs /\ ItemOf(tables, t.run) \in Items \cup {NoItem} /\ AppendFacts(TaskFacts(t))
    BY <1>4, ItemOfFacts DEF Tasks, Shape, RunKinds, Run, CommitDecided, LogTypes
  <2>2. CASE tables.run[t.run] = "streaming"
    <3>1. PICK st \in {"aborted", "failed"} : TaskFacts(t) = SettleFacts(t.run, st, ItemOf(tables, t.run))
      BY <1>4, <2>2 DEF TaskFacts
    <3>2. st \in Settled /\ AppendFacts(SettleFacts(t.run, st, ItemOf(tables, t.run)))
      BY <2>1, <3>1 DEF Settled
    <3>3. Settles(t.run, st, ItemOf(tables, t.run))
      BY <2>1, <2>2, <3>2, SettleCommits
    <3> QED BY <1>4, <2>1, <3>2, <3>3 DEF EndsRun
  <2>3. CASE tables.run[t.run] # "streaming"
    <3>1. TaskFacts(t) = <<>>
      BY <1>4, <2>3 DEF TaskFacts
    <3>2. SameItems
      BY <2>1, <3>1, NoFact DEF AppendFacts, SameItems
    <3> QED BY <2>1, <3>1, <3>2, EmptyBatch, BatchKeepsRuns DEF ItemFactTypes
  <2> QED BY <2>2, <2>3
<1>5. CASE t.kind = "rollback" /\ ~NoAppend
  <2>1. t.set \in SUBSET Runs /\ TaskFacts(t) = <<TurnsRolledBack(t.set)>>
    BY <1>5 DEF Tasks, Shape, TaskFacts
  <2>2. Admitted(TaskFacts(t)) /\ AppendFacts(TaskFacts(t))
    BY <1>5 DEF Run, CommitDecided
  <2> QED BY <1>5, <2>1, <2>2, RollbackCommits
<1> QED BY <1>0, <1>1, <1>2, <1>3, <1>4, <1>5 DEF Tasks, Shape, SetKinds, BatchKinds, ItemKinds, RunKinds

-----------------------------------------------------------------------------
(* The promise chain: a submitted task waits or runs, and so does the next *)
(* one when its predecessor settles.                                       *)

Waits(t)   == /\ chain # <<>> /\ Len(chain) <= MaxChain /\ chain' = Append(chain, t)
              /\ NothingRuns /\ UNCHANGED crashes
RunsNow(t) == chain = <<>> /\ Run(t) /\ chain' = <<Ran>> /\ UNCHANGED crashes
RunsNext   == Len(chain) > 1 /\ Run(chain[2]) /\ chain' = Tail(chain) /\ UNCHANGED crashes
Rests      == chain' = <<>> /\ NothingRuns /\ UNCHANGED crashes

Waiting == 2..Len(chain)

LEMMA SubmitSteps == ASSUME NEW t, Submit(t) PROVE Waits(t) \/ RunsNow(t)
BY DEF Submit, Waits, RunsNow

LEMMA AdvanceSteps == ASSUME chain \in Seq(Tasks), Advance PROVE Rests \/ RunsNext
<1>1. Len(chain) \in Nat /\ Len(chain) # 0
  BY DEF Advance
<1>2. \A n \in Nat : n # 0 /\ n # 1 => n > 1
  OBVIOUS
<1>3. CASE Len(chain) = 1
  BY <1>3 DEF Advance, Rests
<1>4. CASE Len(chain) # 1
  <2>1. Len(chain) > 1
    BY <1>1, <1>2, <1>4, Zenon
  <2> QED BY <1>4, <2>1 DEF Advance, RunsNext
<1> QED BY <1>3, <1>4

LEMMA LastInLine ==
    ASSUME chain \in Seq(Tasks), NEW t \in Tasks, Waits(t)
    PROVE  /\ chain' \in Seq(Tasks) /\ Len(chain') = Len(chain) + 1 /\ Len(chain) \in Nat
           /\ \A k \in 2..Len(chain') : chain'[k] = IF k \in Waiting THEN chain[k] ELSE t
           /\ \A k \in 2..Len(chain') : k \notin Waiting => k = Len(chain) + 1
BY DEF Waits, Waiting

LEMMA NextInLine ==
    ASSUME chain \in Seq(Tasks), RunsNext
    PROVE  /\ chain' \in Seq(Tasks) /\ Len(chain') = Len(chain) - 1 /\ Len(chain) \in Nat
           /\ 2 \in Waiting /\ chain[2] \in Tasks
           /\ \A k \in 2..Len(chain') : k + 1 \in Waiting /\ k + 1 # 2 /\ chain'[k] = chain[k + 1]
BY DEF RunsNext, Waiting

LEMMA FirstInLine ==
    ASSUME NEW t, RunsNow(t)
    PROVE  chain' \in Seq(Tasks) /\ Len(chain') = 1 /\ \A k : k \notin 2..Len(chain')
<1>1. Ran \in Tasks
  BY RanShape DEF Tasks, ItemKinds, RunKinds
<1>2. chain' = <<Ran>>
  BY DEF RunsNow
<1> QED BY <1>1, <1>2

-----------------------------------------------------------------------------
(* What each caller knows of the task it submits.                          *)

StartsTurn(t, i) == t.kind = "start" /\ i # NoItem /\ t.item = i
DrainTask(t)     == \/ t.kind \in {"claim", "release", "fail", "orphans"}
                    \/ t.kind = "start" /\ t.item # NoItem

Called(t) ==
    /\ t \in Tasks /\ t.kind # "ran"
    /\ t.kind = "start"   => FreshRun(t.run)
    /\ t.kind = "start" /\ t.item # NoItem => held = t.item
    /\ t.kind \in {"release", "fail"} => held = t.item
    /\ t.kind = "release" => tables.item[t.item].run = NoRun
    /\ DrainTask(t)       => DrainIdle
    /\ t.kind = "enqueue" => /\ tables.item[t.item].status = "absent"
                             /\ \A k \in Waiting : chain[k] # ItemTask("enqueue", t.item)
    /\ t.kind = "finish"  => tables.run[t.run] = "streaming" /\ t.item = ItemOf(tables, t.run)
    /\ t.kind = "reorder" => t.set = Pending(tables) /\ (StaleReorders \/ chain = <<>>)

LEMMA ItemTaskFields ==
    ASSUME NEW kind \in ItemKinds, NEW i \in Items
    PROVE  ItemTask(kind, i) \in Tasks /\ ItemTask(kind, i).kind = kind /\ ItemTask(kind, i).item = i
<1>1. ItemTask(kind, i) \in Shape /\ ItemTask(kind, i).kind = kind /\ ItemTask(kind, i).item = i
  BY RanShape DEF ItemTask, Shape
<1> QED BY <1>1 DEF Tasks, ItemKinds, RunKinds

LEMMA OrphansTask == Task("orphans") \in Tasks /\ Task("orphans").kind = "orphans"
<1>1. Task("orphans") \in Shape /\ Task("orphans").kind = "orphans"
  BY RanShape DEF Task, Shape, SetKinds
<1> QED BY <1>1 DEF Tasks, ItemKinds, RunKinds

LEMMA StartTaskFields ==
    ASSUME NEW r \in Runs, NEW i \in Items \cup {NoItem}
    PROVE  /\ StartTask(r, i) \in Tasks /\ StartTask(r, i).kind = "start"
           /\ StartTask(r, i).run = r /\ StartTask(r, i).item = i
<1>1. /\ StartTask(r, i) \in Shape /\ StartTask(r, i).kind = "start"
      /\ StartTask(r, i).run = r /\ StartTask(r, i).item = i
  BY RanShape DEF StartTask, Shape, RunKinds
<1> QED BY <1>1 DEF Tasks, ItemKinds, RunKinds

LEMMA FinishTaskFields ==
    ASSUME NEW r \in Runs, NEW st \in Settled, NEW i \in Items \cup {NoItem}
    PROVE  /\ FinishTask(r, st, i) \in Tasks /\ FinishTask(r, st, i).kind = "finish"
           /\ FinishTask(r, st, i).run = r /\ FinishTask(r, st, i).item = i
<1>1. /\ FinishTask(r, st, i) \in Shape /\ FinishTask(r, st, i).kind = "finish"
      /\ FinishTask(r, st, i).run = r /\ FinishTask(r, st, i).item = i
      /\ FinishTask(r, st, i).status = st
  BY RanShape DEF FinishTask, Shape, RunKinds
<1> QED BY <1>1 DEF Tasks, ItemKinds, RunKinds

LEMMA OtherTaskFields ==
    /\ \A r \in Runs : /\ AbortTask(r) \in Tasks /\ AbortTask(r).kind = "abort"
                       /\ RecoverTask(r) \in Tasks /\ RecoverTask(r).kind = "recover"
                       /\ RollbackTask({r}) \in Tasks /\ RollbackTask({r}).kind = "rollback"
    /\ \A S \in SUBSET Items : /\ ReorderTask(S) \in Tasks /\ ReorderTask(S).kind = "reorder"
                               /\ ReorderTask(S).set = S
<1>1. ASSUME NEW r \in Runs PROVE AbortTask(r) \in Tasks /\ AbortTask(r).kind = "abort"
  <2>1. AbortTask(r) \in Shape /\ AbortTask(r).kind = "abort" /\ AbortTask(r).run = r
    BY RanShape DEF AbortTask, Shape, RunKinds
  <2> QED BY <2>1 DEF Tasks, ItemKinds, RunKinds
<1>2. ASSUME NEW r \in Runs PROVE RecoverTask(r) \in Tasks /\ RecoverTask(r).kind = "recover"
  <2>1. RecoverTask(r) \in Shape /\ RecoverTask(r).kind = "recover" /\ RecoverTask(r).run = r
    BY RanShape DEF RecoverTask, Shape, RunKinds
  <2> QED BY <2>1 DEF Tasks, ItemKinds, RunKinds
<1>3. ASSUME NEW r \in Runs PROVE RollbackTask({r}) \in Tasks /\ RollbackTask({r}).kind = "rollback"
  <2>1. RollbackTask({r}) \in Shape /\ RollbackTask({r}).kind = "rollback" /\ RollbackTask({r}).set = {r}
    BY RanShape DEF RollbackTask, Shape, SetKinds
  <2> QED BY <2>1 DEF Tasks, ItemKinds, RunKinds
<1>4. ASSUME NEW S \in SUBSET Items
      PROVE  ReorderTask(S) \in Tasks /\ ReorderTask(S).kind = "reorder" /\ ReorderTask(S).set = S
  <2>1. ReorderTask(S) \in Shape /\ ReorderTask(S).kind = "reorder" /\ ReorderTask(S).set = S
    BY RanShape DEF ReorderTask, Shape, SetKinds
  <2> QED BY <2>1 DEF Tasks, ItemKinds, RunKinds
<1> QED BY <1>1, <1>2, <1>3, <1>4

LEMMA PlainTask ==
    ASSUME NEW t, t.kind \in {"cancel", "abort", "recover", "rollback"}, t \in Tasks PROVE Called(t)
BY DEF Called, DrainTask

Outside == \/ \E S \in SUBSET Items : CancelProviderTarget(S)
           \/ \E r \in Runs : WriteCheckpoint(r)
           \/ DrainLetsGo
           \/ CrashAndRecover

LEMMA Callers ==
    ASSUME tables \in Tables, Next PROVE Advance \/ Outside \/ \E t : Called(t) /\ Submit(t)
<1>1. ASSUME NEW i \in Items, Enqueue(i) PROVE \E t : Called(t) /\ Submit(t)
  <2>1. Called(ItemTask("enqueue", i))
    BY <1>1, ItemTaskFields DEF Enqueue, Called, DrainTask, Waiting, ItemKinds
  <2> QED BY <1>1, <2>1 DEF Enqueue
<1>2. ASSUME NEW i \in Items, DrainClaim(i) PROVE \E t : Called(t) /\ Submit(t)
  <2>1. Called(ItemTask("claim", i))
    BY <1>2, ItemTaskFields DEF DrainClaim, Called, ItemKinds
  <2> QED BY <1>2, <2>1 DEF DrainClaim
<1>3. ASSUME NEW i \in Items, CancelItem(i) PROVE \E t : Called(t) /\ Submit(t)
  <2>1. ItemTask("cancel", i) \in Tasks /\ ItemTask("cancel", i).kind = "cancel"
    BY ItemTaskFields DEF ItemKinds
  <2>2. Called(ItemTask("cancel", i))
    BY <2>1, PlainTask
  <2> QED BY <1>3, <2>2 DEF CancelItem
<1>4. ASSUME NEW i \in Items, DrainReleases(i) PROVE \E t : Called(t) /\ Submit(t)
  <2>1. Called(ItemTask("release", i))
    BY <1>4, ItemTaskFields DEF DrainReleases, Called, ItemKinds
  <2> QED BY <1>4, <2>1 DEF DrainReleases
<1>10. ASSUME NEW i \in Items, DrainFails(i) PROVE \E t : Called(t) /\ Submit(t)
  <2>1. Called(ItemTask("fail", i))
    BY <1>10, ItemTaskFields DEF DrainFails, Called, ItemKinds
  <2> QED BY <1>10, <2>1 DEF DrainFails
<1>5. ASSUME DrainRecover PROVE \E t : Called(t) /\ Submit(t)
  <2>1. Called(Task("orphans"))
    BY <1>5, OrphansTask DEF DrainRecover, Called
  <2> QED BY <1>5, <2>1 DEF DrainRecover
<1>6. ASSUME NEW r \in Runs, NEW i \in Items \cup {NoItem}, StartRun(r, i)
      PROVE  \E t : Called(t) /\ Submit(t)
  <2>1. Called(StartTask(r, i))
    BY <1>6, StartTaskFields DEF StartRun, Called, DrainTask
  <2> QED BY <1>6, <2>1 DEF StartRun
<1>7. ASSUME NEW r \in Runs, NEW st \in Settled, FinishRun(r, st) PROVE \E t : Called(t) /\ Submit(t)
  <2>1. ItemOf(tables, r) \in Items \cup {NoItem}
    BY ItemOfFacts
  <2>2. Called(FinishTask(r, st, ItemOf(tables, r)))
    BY <1>7, <2>1, FinishTaskFields DEF FinishRun, Called, DrainTask
  <2> QED BY <1>7, <2>2 DEF FinishRun
<1>8. ASSUME NEW r \in Runs, AbortProjected(r) \/ RecoverRun(r) \/ Rollback(r)
      PROVE  \E t : Called(t) /\ Submit(t)
  <2>1. Called(AbortTask(r)) /\ Called(RecoverTask(r)) /\ Called(RollbackTask({r}))
    BY OtherTaskFields, PlainTask
  <2> QED BY <1>8, <2>1 DEF AbortProjected, RecoverRun, Rollback
<1>9. ASSUME ReorderQueue PROVE \E t : Called(t) /\ Submit(t)
  <2>1. Called(ReorderTask(Pending(tables)))
    BY <1>9, OtherTaskFields DEF ReorderQueue, Called, DrainTask, Pending
  <2> QED BY <1>9, <2>1 DEF ReorderQueue
<1> QED BY <1>1, <1>2, <1>3, <1>4, <1>5, <1>6, <1>7, <1>8, <1>9, <1>10 DEF Next, Outside

-----------------------------------------------------------------------------
(* The runs' invariant: a start that still waits in the chain is the only  *)
(* one for its run, whose row does not exist yet.                          *)

StartIsFresh(t) == t.kind = "start" => tables.run[t.run] = "absent"
SameStart(t, u) == t.kind = "start" /\ u.kind = "start" /\ t.run = u.run

ChainOK == /\ chain \in Seq(Tasks) /\ Len(chain) <= MaxChain + 1
           /\ held \in Items \cup {NoItem} /\ overruled \subseteq Items /\ crashes \in 0..MaxCrashes

StartsOK == \A k \in Waiting :
               /\ chain[k].kind # "ran" /\ StartIsFresh(chain[k])
               /\ \A l \in Waiting : SameStart(chain[k], chain[l]) => l = k

RunInv == RunsOK /\ ChainOK /\ StartsOK

LEMMA RunKeeps ==
    ASSUME RunsOK, NEW t \in Tasks, t.kind # "ran", StartIsFresh(t), Run(t)
    PROVE  RunsOK' /\ \A u \in Tasks : StartIsFresh(u) /\ ~SameStart(t, u) => StartIsFresh(u)'
<1>0. /\ LogTypes /\ tables \in Tables /\ \A u \in Tasks : u.kind = "start" => u.run \in Runs
      /\ t.item \in Items \cup {NoItem}
  BY DEF RunsOK, LogTypes, Tasks, Shape, RunKinds
<1>1. CASE SameRuns
  BY <1>1, SameRunsKeeps DEF SameRuns, StartIsFresh
<1>2. CASE t.kind = "start" /\ Starts(t.run, t.item)
  <2>1. tables'.run = [tables.run EXCEPT ![t.run] = "streaming"]
    BY <1>2 DEF Starts
  <2>2. t.run \in Runs /\ tables.run[t.run] = "absent"
    BY <1>0, <1>2 DEF StartIsFresh
  <2>3. \A u \in Tasks : StartIsFresh(u) /\ ~SameStart(t, u) => StartIsFresh(u)'
    BY <1>0, <1>2, <2>1 DEF StartIsFresh, SameStart, Tables
  <2> QED BY <1>2, <2>2, <2>3, StartsKeeps
<1>3. CASE EndsRun(t)
  <2>1. PICK st \in Settled, i \in Items \cup {NoItem} : Settles(t.run, st, i)
    BY <1>3 DEF EndsRun
  <2>2. t.run \in Runs
    BY <1>3 DEF EndsRun, Tasks, RunKinds
  <2>3. tables.run[t.run] = "streaming" /\ tables'.run = [tables.run EXCEPT ![t.run] = st]
    BY <2>1 DEF Settles, SettlesRows
  <2>4. \A u \in Tasks : StartIsFresh(u) => StartIsFresh(u)'
    BY <1>0, <2>2, <2>3 DEF StartIsFresh, Tables
  <2> QED BY <2>1, <2>2, <2>4, SettlesKeeps
<1>4. CASE t.kind = "rollback" /\ Unsays(t.set)
  <2>1. t.set \in SUBSET Runs
    BY <1>4 DEF Tasks
  <2>2. \A u \in Tasks : StartIsFresh(u) => StartIsFresh(u)'
    BY <1>4 DEF Unsays, StartIsFresh
  <2> QED BY <1>4, <2>1, <2>2, UnsaysKeeps
<1> QED BY <1>0, <1>1, <1>2, <1>3, <1>4, RunTasks

(* What the drain holds and what it has overruled, in one step.            *)
DrainTypes == held \in Items \cup {NoItem} /\ overruled \subseteq Items

LEMMA HeldStays == ASSUME ChainOK, NEW t \in Tasks, Run(t) PROVE DrainTypes'
<1>1. held' \in Items \cup {NoItem}
  BY DEF ChainOK, Run, HeldAfter, Tasks, Shape
<1>2. overruled' \subseteq Items
  <2>1. t.kind = "fail" => t.item \in Items
    BY DEF Tasks, ItemKinds
  <2> QED BY <2>1 DEF ChainOK, Run, OverruledAfter
<1> QED BY <1>1, <1>2 DEF DrainTypes

LEMMA SetCommitKeepsRuns ==
    ASSUME LogTypes, NEW S \in SUBSET Items, CommitDecided(ItemFacts("QueueItemCancelled", S))
    PROVE  SameRuns
<1>1. AppendFacts(ItemFacts("QueueItemCancelled", S)) \/ NoAppend
  BY DEF CommitDecided
<1> QED BY <1>1, SetBatch, BatchKeepsRuns DEF ItemFactTypes

LEMMA EmptyChain ==
    ASSUME chain' = <<>>
    PROVE  StartsOK' /\ chain' \in Seq(Tasks) /\ (MaxChain \in Nat => Len(chain') <= MaxChain + 1)
<1>1. Len(<<>>) = 0 /\ <<>> \in Seq(Tasks) /\ (\A k : k \notin 2..0) /\ (MaxChain \in Nat => 0 <= MaxChain + 1)
  OBVIOUS
<1> QED BY <1>1 DEF StartsOK, Waiting

LEMMA RunInvInit == ASSUME Init PROVE RunInv
<1>1. tables = EmptyTables /\ replay = EmptyReplay
      /\ facts = [r \in Runs |-> [started |-> 0, ended |-> 0]] /\ checkpoints = {}
      /\ chain = <<>> /\ held = NoItem /\ overruled = {} /\ crashes = 0
  BY DEF Init
<1>2. tables \in Tables /\ \A r \in Runs : tables.run[r] = "absent"
  BY <1>1 DEF EmptyTables, Tables, RunStatus, QueueItem, ItemStatus
<1>3. replay \in Replays /\ replay.active = NoRun
  BY <1>1 DEF EmptyReplay, Replays, QueueItem, ItemStatus
<1>4. facts \in FactCount /\ FactsTell
  BY <1>1, <1>2 DEF FactCount, FactsTell, Settled
<1>5. ActiveRun(tables) = NoRun
  BY <1>2 DEF ActiveRun, Streaming
<1>6. OneStreaming(tables) /\ MessageTellsOutcome /\ CheckpointsAreLive
  BY <1>1, <1>2 DEF OneStreaming, MessageTellsOutcome, CheckpointsAreLive, Settled
<1>7. ChainOK /\ StartsOK
  <2>1. chain \in Seq(Tasks) /\ Len(chain) = 0
    BY <1>1
  <2>2. Len(chain) <= MaxChain + 1 /\ crashes \in 0..MaxCrashes /\ \A k : k \notin 2..0
    BY <1>1, <2>1, SessionLogAssumption
  <2> QED BY <1>1, <2>1, <2>2 DEF ChainOK, StartsOK, Waiting
<1> QED BY <1>1, <1>2, <1>3, <1>4, <1>5, <1>6, <1>7 DEF RunInv, RunsOK, LogTypes

LEMMA OutsideRuns ==
    ASSUME RunInv, Outside
    PROVE  /\ RunsOK' /\ crashes' \in 0..MaxCrashes
           /\ DrainTypes'
           /\ \/ tables'.run = tables.run /\ chain' = chain
              \/ chain' = <<>>
<1>0. LogTypes /\ tables \in Tables /\ crashes \in 0..MaxCrashes /\ DrainTypes
  BY DEF RunInv, RunsOK, LogTypes, ChainOK, DrainTypes
<1>1. ASSUME NEW S \in SUBSET Items, CancelProviderTarget(S)
      PROVE  RunsOK' /\ tables'.run = tables.run /\ UNCHANGED <<chain, held, overruled, crashes>>
  <2>1. SameRuns
    BY <1>0, <1>1, SetCommitKeepsRuns DEF CancelProviderTarget
  <2> QED BY <1>1, <2>1, SameRunsKeeps DEF RunInv, SameRuns, CancelProviderTarget
<1>2. ASSUME NEW r \in Runs, WriteCheckpoint(r)
      PROVE  RunsOK' /\ tables'.run = tables.run /\ UNCHANGED <<chain, held, overruled, crashes>>
  <2>1. /\ tables' = tables /\ replay' = replay /\ facts' = facts
        /\ checkpoints' = checkpoints \cup {r} /\ tables.run[r] = "streaming"
        /\ UNCHANGED <<chain, held, overruled, crashes>>
    BY <1>2 DEF WriteCheckpoint
  <2>2. LogTypes' /\ CheckpointsAreLive'
    BY <2>1 DEF RunInv, RunsOK, LogTypes, CheckpointsAreLive
  <2>3. OneStreaming(tables') /\ replay'.active = ActiveRun(tables') /\ FactsTell' /\ MessageTellsOutcome'
    BY <2>1 DEF RunInv, RunsOK, FactsTell, MessageTellsOutcome
  <2> QED BY <2>1, <2>2, <2>3 DEF RunsOK
<1>3. ASSUME CrashAndRecover
      PROVE  RunsOK' /\ crashes' \in 0..MaxCrashes /\ chain' = <<>> /\ DrainTypes'
  <2>1. crashes' \in 0..MaxCrashes /\ chain' = <<>> /\ DrainTypes'
    BY <1>0, <1>3, SessionLogAssumption DEF CrashAndRecover, DrainTypes
  <2>2. CASE Streaming(tables) = {}
    BY <1>0, <1>3, <2>1, <2>2, NothingAppended, SameRunsKeeps DEF CrashAndRecover, RunInv
  <2>3. CASE Streaming(tables) # {}
    <3> DEFINE r == ActiveRun(tables)
               i == ItemOf(tables, r)
    <3>1. AppendFacts(SettleFacts(r, "failed", i))
      BY <1>3, <2>3 DEF CrashAndRecover
    <3>2. r \in Runs /\ tables.run[r] = "streaming"
      BY <1>0, <2>3, ActiveRunFacts DEF Streaming
    <3>3. i \in Items \cup {NoItem} /\ "failed" \in Settled
      BY <1>0, <3>2, ItemOfFacts DEF Settled
    <3> HIDE DEF r, i
    <3>4. Settles(r, "failed", i)
      BY <1>0, <3>1, <3>2, <3>3, SettleCommits
    <3> QED BY <2>1, <3>2, <3>3, <3>4, SettlesKeeps DEF RunInv
  <2> QED BY <2>2, <2>3, <2>1
<1>4. ASSUME DrainLetsGo
      PROVE  RunsOK' /\ DrainTypes' /\ tables'.run = tables.run /\ UNCHANGED <<chain, crashes>>
  <2>1. SameRuns /\ held' = NoItem /\ UNCHANGED <<chain, overruled, crashes>>
    BY <1>0, <1>4, NothingAppended DEF DrainLetsGo
  <2> QED BY <1>0, <2>1, SameRunsKeeps DEF RunInv, SameRuns, DrainTypes
<1> QED BY <1>0, <1>1, <1>2, <1>3, <1>4 DEF Outside, DrainTypes

LEMMA RunInvNext == ASSUME RunInv, [Next]_vars PROVE RunInv'
<1>0. /\ RunsOK /\ LogTypes /\ tables \in Tables /\ ChainOK /\ StartsOK
      /\ chain \in Seq(Tasks) /\ MaxChain \in Nat
  BY SessionLogAssumption DEF RunInv, RunsOK, LogTypes, ChainOK
<1>1. ASSUME NEW t, Called(t), Waits(t) PROVE RunInv'
  <2>1. t \in Tasks /\ t.kind # "ran" /\ (t.kind = "start" => FreshRun(t.run))
    BY <1>1 DEF Called
  <2>2. SameRuns /\ tables' = tables /\ UNCHANGED <<held, overruled, crashes>>
    BY <1>0, <1>1, NothingAppended DEF Waits, NothingRuns, NoAppend
  <2>3. RunsOK'
    BY <1>0, <2>2, SameRunsKeeps
  <2>4. ChainOK'
    BY <1>0, <1>1, <2>1, <2>2, LastInLine DEF ChainOK, Waits
  <2>5. StartsOK'
    <3>1. StartIsFresh(t) /\ \A k \in Waiting : ~SameStart(chain[k], t) /\ ~SameStart(t, chain[k])
      BY <2>1 DEF StartIsFresh, SameStart, FreshRun, Waiting
    <3> SUFFICES ASSUME NEW k \in 2..Len(chain')
                 PROVE  /\ chain'[k].kind # "ran" /\ StartIsFresh(chain'[k])
                        /\ \A l \in 2..Len(chain') : SameStart(chain'[k], chain'[l]) => l = k
      BY <2>2 DEF StartsOK, StartIsFresh, SameStart, Waiting
    <3> QED BY <1>0, <1>1, <2>1, <3>1, LastInLine DEF StartsOK
  <2> QED BY <2>3, <2>4, <2>5 DEF RunInv
<1>2. ASSUME NEW t, Called(t), RunsNow(t) PROVE RunInv'
  <2>1. t \in Tasks /\ t.kind # "ran" /\ StartIsFresh(t) /\ Run(t) /\ crashes' = crashes
    BY <1>2 DEF Called, StartIsFresh, FreshRun, RunsNow
  <2>2. RunsOK' /\ DrainTypes'
    BY <1>0, <2>1, RunKeeps, HeldStays
  <2>3. chain' \in Seq(Tasks) /\ Len(chain') = 1 /\ \A k : k \notin 2..Len(chain')
    BY <1>2, FirstInLine
  <2>4. ChainOK'
    BY <1>0, <2>1, <2>2, <2>3 DEF ChainOK, DrainTypes
  <2>5. StartsOK'
    BY <2>3 DEF StartsOK, Waiting
  <2> QED BY <2>2, <2>4, <2>5 DEF RunInv
<1>3. ASSUME RunsNext PROVE RunInv'
  <2> DEFINE t == chain[2]
  <2>1. t \in Tasks /\ t.kind # "ran" /\ StartIsFresh(t) /\ Run(t) /\ crashes' = crashes
    BY <1>0, <1>3, NextInLine DEF StartsOK, RunsNext
  <2>2. \A k \in Waiting : k # 2 => chain[k] \in Tasks /\ StartIsFresh(chain[k]) /\ ~SameStart(t, chain[k])
    BY <1>0, <1>3, NextInLine DEF StartsOK, Waiting
  <2> HIDE DEF t
  <2>3. RunsOK' /\ DrainTypes'
        /\ \A u \in Tasks : StartIsFresh(u) /\ ~SameStart(t, u) => StartIsFresh(u)'
    BY <1>0, <2>1, RunKeeps, HeldStays
  <2>4. ChainOK'
    BY <1>0, <1>3, <2>1, <2>3, NextInLine DEF ChainOK, DrainTypes
  <2>5. StartsOK'
    <3>1. \A k \in 2..Len(chain') : k + 1 \in Waiting /\ k + 1 # 2 /\ chain'[k] = chain[k + 1]
      BY <1>0, <1>3, NextInLine
    <3>2. \A u \in Tasks : StartIsFresh(u) /\ ~SameStart(t, u) /\ u.kind = "start"
                            => tables'.run[u.run] = "absent"
      BY <2>3 DEF StartIsFresh
    <3> SUFFICES ASSUME NEW k \in 2..Len(chain')
                 PROVE  /\ chain'[k].kind # "ran"
                        /\ chain'[k].kind = "start" => tables'.run[chain'[k].run] = "absent"
                        /\ \A l \in 2..Len(chain') : SameStart(chain'[k], chain'[l]) => l = k
      BY DEF StartsOK, StartIsFresh, SameStart, Waiting
    <3>3. k + 1 \in Waiting /\ k + 1 # 2 /\ chain'[k] = chain[k + 1]
      BY <3>1
    <3>4. chain'[k].kind # "ran"
      BY <1>0, <3>3 DEF StartsOK
    <3>5. chain'[k].kind = "start" => tables'.run[chain'[k].run] = "absent"
      BY <2>2, <3>2, <3>3
    <3>6. ASSUME NEW l \in 2..Len(chain'), SameStart(chain'[k], chain'[l]) PROVE l = k
      <4>1. l + 1 \in Waiting /\ chain'[l] = chain[l + 1]
        BY <3>1
      <4>2. l + 1 = k + 1
        BY <1>0, <3>3, <3>6, <4>1 DEF StartsOK
      <4> QED BY <4>2
    <3> QED BY <3>4, <3>5, <3>6
  <2> QED BY <2>3, <2>4, <2>5 DEF RunInv
<1>4. CASE Rests
  <2>1. SameRuns /\ chain' = <<>> /\ UNCHANGED <<held, overruled, crashes>>
    BY <1>0, <1>4, NothingAppended DEF Rests, NothingRuns
  <2>2. RunsOK'
    BY <1>0, <2>1, SameRunsKeeps
  <2> QED BY <1>0, <2>1, <2>2, EmptyChain DEF RunInv, ChainOK
<1>5. CASE Outside
  <2>1. /\ RunsOK' /\ crashes' \in 0..MaxCrashes /\ DrainTypes'
        /\ \/ tables'.run = tables.run /\ chain' = chain
           \/ chain' = <<>>
    BY <1>5, OutsideRuns
  <2>2. CASE tables'.run = tables.run /\ chain' = chain
    BY <1>0, <2>1, <2>2 DEF RunInv, ChainOK, DrainTypes, StartsOK, StartIsFresh, SameStart, Waiting
  <2>3. CASE chain' = <<>>
    BY <1>0, <2>1, <2>3, EmptyChain DEF RunInv, ChainOK, DrainTypes
  <2> QED BY <2>1, <2>2, <2>3
<1>6. CASE UNCHANGED vars
  BY <1>6 DEF vars, RunInv, RunsOK, LogTypes, FactsTell, MessageTellsOutcome, CheckpointsAreLive,
              ChainOK, StartsOK, StartIsFresh, SameStart, Waiting
<1> QED BY <1>0, <1>1, <1>2, <1>3, <1>4, <1>5, <1>6, Callers, SubmitSteps, AdvanceSteps

-----------------------------------------------------------------------------
(* The run theorems                                                        *)

LEMMA RunInvAlways == Spec => []RunInv
<1>1. Init => RunInv
  BY RunInvInit
<1>2. RunInv /\ [Next]_vars => RunInv'
  BY RunInvNext
<1> QED BY <1>1, <1>2, PTL DEF Spec

(* The rows, the replayed state and the counts of facts keep their types,  *)
(* a task that waits in the promise chain names the item or the run that   *)
(* its kind is about, and the chain keeps its bound                        *)
(* (es/session-actor.ts 5-28, es/projectors.ts 53-194).                    *)
THEOREM TypeOKAlways == Spec => []TypeOK
<1>1. ASSUME RunInv PROVE TypeOK
  <2>1. /\ tables \in Tables /\ replay \in Replays /\ facts \in FactCount
        /\ checkpoints \subseteq Runs /\ held \in Items \cup {NoItem} /\ overruled \subseteq Items
        /\ crashes \in 0..MaxCrashes /\ Len(chain) <= MaxChain + 1 /\ chain \in Seq(Tasks)
    BY <1>1 DEF RunInv, RunsOK, LogTypes, ChainOK
  <2>2. ASSUME NEW k \in 1..Len(chain)
        PROVE  /\ chain[k] \in Shape
               /\ chain[k].kind \in ItemKinds => chain[k].item \in Items
               /\ chain[k].kind \in RunKinds  => chain[k].run \in Runs
    <3>1. chain[k] \in Tasks
      BY <2>1
    <3> QED BY <3>1 DEF Tasks
  <2> QED BY <2>1, <2>2 DEF TypeOK
<1> QED BY <1>1, RunInvAlways, PTL

(* A run starts once and ends at most once in the log, after it started,   *)
(* and no two runs are open at once: whatever of the finisher, the cancel, *)
(* the repair of a failed commit and the startup recovery gets to end it   *)
(* (es/decide.ts 89-148, es/recovery.ts 294-346).                          *)
THEOREM OneLifePerRunAlways == Spec => []OneLifePerRun
<1>1. ASSUME RunInv PROVE OneLifePerRun
  <2> DEFINE Open == {r \in Runs : facts[r].ended < facts[r].started}
  <2>1. \A r \in Runs : /\ facts[r].started \in {0, 1} /\ facts[r].ended \in {0, 1}
                        /\ facts[r].ended = 1 => facts[r].started = 1
                        /\ facts[r].ended < facts[r].started => tables.run[r] = "streaming"
    <3> TAKE r \in Runs
    <3>1. tables.run[r] \in RunStatus /\ FactsTell
      BY <1>1 DEF RunInv, RunsOK, LogTypes, Tables
    <3> DEFINE a == IF tables.run[r] = "absent" THEN 0 ELSE 1
               b == IF tables.run[r] \in Settled THEN 1 ELSE 0
    <3>2. facts[r] = [started |-> a, ended |-> b]
      BY <3>1 DEF FactsTell
    <3>3. tables.run[r] = "absent" => a = 0 /\ b = 0
      BY DEF Settled
    <3>4. tables.run[r] # "absent" => a = 1 /\ b \in {0, 1}
      OBVIOUS
    <3>5. tables.run[r] \in Settled => b = 1
      OBVIOUS
    <3> HIDE DEF a, b
    <3>6. facts[r].started = a /\ facts[r].ended = b
      BY <3>2
    <3>7. b # 1 /\ a = 1 => tables.run[r] = "streaming"
      BY <3>1, <3>3, <3>5 DEF RunStatus, Settled
    <3> QED BY <3>3, <3>4, <3>6, <3>7
  <2>2. \A r \in Runs : facts[r].ended <= facts[r].started /\ facts[r].started <= 1
    <3>1. \A a, b \in {0, 1} : (b = 1 => a = 1) => b <= a /\ a <= 1
      OBVIOUS
    <3> QED BY <2>1, <3>1
  <2>3. Open = {} \/ \E r \in Runs : Open = {r}
    <3>1. \A r, q \in Open : r = q
      BY <1>1, <2>1 DEF RunInv, RunsOK, OneStreaming
    <3> QED BY <3>1
  <2>4. Cardinality(Open) <= 1
    <3>1. Cardinality({}) = 0 /\ \A r : Cardinality({r}) = 1
      BY FS_EmptySet, FS_Singleton
    <3> HIDE DEF Open
    <3>2. Cardinality(Open) = 0 \/ Cardinality(Open) = 1
      BY <2>3, <3>1
    <3> QED BY <3>2
  <2> QED BY <2>2, <2>4 DEF OneLifePerRun
<1> QED BY <1>1, RunInvAlways, PTL

(* The outcome a settled run's message shows is the outcome of its row:    *)
(* both facts are of one batch (run/terminal-finalizer.ts 137-219).        *)
THEOREM MessageTellsOutcomeAlways == Spec => []MessageTellsOutcome
<1>1. RunInv => MessageTellsOutcome
  BY DEF RunInv, RunsOK
<1> QED BY <1>1, RunInvAlways, PTL

(* No streaming checkpoint outlives its run, although the chunks of a turn *)
(* and its terminal fact are written by different tasks                    *)
(* (stream/checkpoint-store.ts, es/projectors.ts 53-194).                  *)
THEOREM CheckpointsAreLiveAlways == Spec => []CheckpointsAreLive
<1>1. RunInv => CheckpointsAreLive
  BY DEF RunInv, RunsOK
<1> QED BY <1>1, RunInvAlways, PTL

-----------------------------------------------------------------------------
(* The items: what a batch of facts does to rows                           *)

(* A fact that says the same of the row and of the replayed item, however  *)
(* often it is said, and leaves the row to its run, if it has one.         *)
Movable(type, it) ==
    /\ it.run # NoRun => RowAfter(type, it).status = "failed"
    /\ RowAfter(type, it).run = it.run /\ RowAfter(type, it).status # "absent"
    /\ ReplayAfter(type, it) = RowAfter(type, it)
    /\ RowAfter(type, RowAfter(type, it)) = RowAfter(type, it)
    /\ ReplayAfter(type, RowAfter(type, it)) = RowAfter(type, it)

LEMMA Movables ==
    ASSUME NEW it \in QueueItem
    PROVE  /\ Movable("QueueItemFailed", it)
           /\ it.run = NoRun =>
                /\ \A type \in {"QueueItemEnqueued", "QueueItemReleased"} : Movable(type, it)
                /\ Startable(it) => Movable("QueueItemCancelled", it)
                /\ it.status = "pending" => Movable("QueueItemClaimed", it) /\ Movable("QueueItemReordered", it)
<1>1. it.run = NoRun => \A type \in {"QueueItemEnqueued", "QueueItemReleased"} : Movable(type, it)
  BY DEF Movable, RowAfter, ReplayAfter
<1>2. Movable("QueueItemFailed", it)
  BY DEF Movable, RowAfter, ReplayAfter
<1>3. ASSUME it.run = NoRun, Startable(it) PROVE Movable("QueueItemCancelled", it)
  <2> DEFINE w == [status |-> "cancelled", run |-> it.run]
  <2>1. w.run = NoRun /\ w.status = "cancelled" /\ [status |-> "cancelled", run |-> w.run] = w /\ ~Startable(w)
    BY <1>3 DEF Startable
  <2>2. RowAfter("QueueItemCancelled", it) = w /\ ReplayAfter("QueueItemCancelled", it) = w
    BY <1>3 DEF RowAfter, ReplayAfter
  <2> HIDE DEF w
  <2>3. RowAfter("QueueItemCancelled", w) = w /\ ReplayAfter("QueueItemCancelled", w) = w
    BY <2>1 DEF RowAfter, ReplayAfter
  <2> QED BY <1>3, <2>1, <2>2, <2>3 DEF Movable
<1>4. ASSUME it.run = NoRun, it.status = "pending" PROVE Movable("QueueItemClaimed", it) /\ Movable("QueueItemReordered", it)
  <2>1. Movable("QueueItemClaimed", it)
    BY <1>4 DEF Movable, RowAfter, ReplayAfter
  <2>2. [status |-> "pending", run |-> it.run] = it
    BY <1>4 DEF QueueItem
  <2>3. Movable("QueueItemReordered", it)
    BY <1>4, <2>2 DEF Movable, RowAfter, ReplayAfter
  <2> QED BY <2>1, <2>3
<1> QED BY <1>1, <1>2, <1>3, <1>4

(* Only items of a set changed, and those that are bound to a run are now  *)
(* failed.                                                                 *)
MovesOnly(S) ==
    /\ replay'.item = tables'.item
    /\ \A j \in Items : \/ tables'.item[j] = tables.item[j]
                        \/ /\ j \in S /\ tables'.item[j].run = tables.item[j].run
                           /\ tables'.item[j].status # "absent"
                           /\ tables.item[j].run # NoRun => tables'.item[j].status = "failed"

LEMMA BatchMoves ==
    ASSUME LogTypes, replay.item = tables.item, NEW type \in ItemFactTypes, NEW S \in SUBSET Items,
           NEW es, ItemBatch(es, type, S), AppendFacts(es), \A i \in S : Movable(type, tables.item[i])
    PROVE  MovesOnly(S)
<1> DEFINE P == {q \in Tables \X Replays :
                   /\ q[2].item = q[1].item
                   /\ \A j \in Items : \/ q[1].item[j] = tables.item[j]
                                       \/ j \in S /\ q[1].item[j] = RowAfter(type, tables.item[j])}
<1>1. <<tables, replay>> \in P
  BY DEF LogTypes
<1>2. ASSUME NEW k \in 1..Len(es), NEW q \in P
      PROVE  <<Project(q[1], es[k]), Evolve(q[2], es[k])>> \in P
  <2>1. PICK i \in S : es[k] = ItemFact(type, i)
    BY DEF ItemBatch
  <2> DEFINE t == Project(q[1], es[k])
             s == Evolve(q[2], es[k])
  <2>2. i \in Items /\ q[1] \in Tables /\ q[2] \in Replays /\ q[2].item = q[1].item
    OBVIOUS
  <2>3. WithRow(q[1], i, RowAfter(type, q[1].item[i]), t)
    BY <2>1, <2>2, ItemFactProjects
  <2>4. WithReplayed(q[2], i, ReplayAfter(type, q[2].item[i]), s)
    BY <2>1, <2>2, ItemFactEvolves
  <2>5. /\ RowAfter(type, q[1].item[i]) = RowAfter(type, tables.item[i])
        /\ ReplayAfter(type, q[1].item[i]) = RowAfter(type, tables.item[i])
    <3>1. q[1].item[i] = tables.item[i] \/ q[1].item[i] = RowAfter(type, tables.item[i])
      BY <2>2
    <3> QED BY <3>1 DEF Movable
  <2>6. \A j \in Items : \/ q[1].item[j] = tables.item[j]
                         \/ j \in S /\ q[1].item[j] = RowAfter(type, tables.item[j])
    OBVIOUS
  <2> HIDE DEF t, s
  <2>7. /\ t \in Tables /\ s \in Replays
        /\ \A j \in Items : t.item[j] = IF j = i THEN RowAfter(type, tables.item[i]) ELSE q[1].item[j]
        /\ \A j \in Items : s.item[j] = IF j = i THEN RowAfter(type, tables.item[i]) ELSE q[1].item[j]
    BY <2>2, <2>3, <2>4, <2>5 DEF WithRow, WithReplayed
  <2>8. s.item = t.item
    BY <2>7 DEF Tables, Replays
  <2>9. \A j \in Items : \/ t.item[j] = tables.item[j]
                         \/ j \in S /\ t.item[j] = RowAfter(type, tables.item[j])
    BY <2>6, <2>7
  <2> QED BY <2>7, <2>8, <2>9 DEF t, s
<1>3. <<ProjectAll(tables, es), EvolveAll(replay, es)>> \in P
  <2> HIDE DEF P
  <2>1. Len(es) \in Nat
    BY DEF ItemBatch
  <2> QED BY <1>1, <1>2, <2>1, AllKeep
<1>4. tables' = ProjectAll(tables, es) /\ replay' = EvolveAll(replay, es)
  BY DEF AppendFacts
<1>5. /\ replay'.item = tables'.item
      /\ \A j \in Items : \/ tables'.item[j] = tables.item[j]
                          \/ j \in S /\ tables'.item[j] = RowAfter(type, tables.item[j])
  BY <1>3, <1>4
<1> QED BY <1>5 DEF MovesOnly, Movable

-----------------------------------------------------------------------------
(* The items' invariant                                                    *)

Binds(r, i) == IF i = NoItem THEN \A j \in Items : tables.item[j].run # r
               ELSE tables.item[i].run = r

ItemsOK ==
    /\ replay.item = tables.item /\ UnclaimedUnbound(tables) /\ ItemTellsOutcome
    /\ \A i \in Items : tables.item[i].run # NoRun => tables.run[tables.item[i].run] # "absent"
    /\ \A i, j \in Items : tables.item[i].run # NoRun /\ tables.item[i].run = tables.item[j].run
                           => i = j

HeldOK == held # NoItem => tables.item[held].status # "absent"

(* What a step may overrule: the items that the drain fails.               *)
Overrules(S) == overruled \subseteq overruled' /\ \A j \in S : tables.item[j].run # NoRun => j \in overruled'

LEMMA ItemOfBinds ==
    ASSUME tables \in Tables, NEW r \in Runs PROVE Binds(r, ItemOf(tables, r))
<1>1. CASE \E i \in Items : tables.item[i].run = r
  <2>1. /\ ItemOf(tables, r) = CHOOSE i \in Items : tables.item[i].run = r
        /\ ItemOf(tables, r) \in Items /\ tables.item[ItemOf(tables, r)].run = r
    BY <1>1 DEF ItemOf
  <2> QED BY <2>1, NullsAssumption DEF Binds
<1>2. CASE ~ \E i \in Items : tables.item[i].run = r
  <2>1. ItemOf(tables, r) = NoItem
    BY <1>2 DEF ItemOf
  <2> QED BY <1>2, <2>1 DEF Binds
<1> QED BY <1>1, <1>2

LEMMA MovesKeeps ==
    ASSUME RunsOK, ItemsOK, NEW S, MovesOnly(S), Overrules(S), tables' \in Tables, tables'.run = tables.run
    PROVE  ItemsOK'
<1>1. \A j \in Items : \/ tables'.item[j] = tables.item[j]
                       \/ tables'.item[j].run = NoRun
                       \/ /\ tables'.item[j].run = tables.item[j].run /\ j \in overruled'
                          /\ tables'.item[j].status = "failed"
  BY DEF MovesOnly, Overrules
<1>2. replay'.item = tables'.item
  BY DEF MovesOnly
<1>3. UnclaimedUnbound(tables')
  BY <1>1 DEF ItemsOK, UnclaimedUnbound
<1>4. ItemTellsOutcome'
  BY <1>1 DEF ItemsOK, ItemTellsOutcome, Overrules
<1>5. \A i \in Items : tables'.item[i].run # NoRun => tables'.run[tables'.item[i].run] # "absent"
  BY <1>1 DEF ItemsOK
<1>6. \A i, j \in Items : tables'.item[i].run # NoRun /\ tables'.item[i].run = tables'.item[j].run => i = j
  <2>1. \A j \in Items : tables'.item[j].run # NoRun => tables'.item[j].run = tables.item[j].run
    BY <1>1
  <2> QED BY <2>1 DEF ItemsOK
<1> QED BY <1>2, <1>3, <1>4, <1>5, <1>6 DEF ItemsOK

LEMMA StartableUnbound ==
    ASSUME ItemsOK, NEW i \in Items, Startable(tables.item[i])
    PROVE  tables.item[i].run = NoRun /\ tables.item[i].status \in {"pending", "running"}
BY DEF ItemsOK, UnclaimedUnbound, Startable

LEMMA StartsItems ==
    ASSUME LogTypes, ItemsOK, NEW r \in Runs, NEW i \in Items \cup {NoItem}, Starts(r, i)
    PROVE  /\ replay'.item = tables'.item
           /\ \A j \in Items : j # i => tables'.item[j] = tables.item[j]
           /\ i # NoItem => /\ i \in Items /\ tables'.item[i].run = r /\ tables'.item[i].status = "running"
                            /\ tables.item[i].run = NoRun /\ tables.item[i].status # "absent"
           /\ \A q \in Runs : tables'.run[q] = IF q = r THEN "streaming" ELSE tables.run[q]
<1>1. replay'.item = tables'.item
  BY DEF Starts, LogTypes, Tables, Replays, ItemsOK
<1>2. \A j \in Items : j # i => tables'.item[j] = tables.item[j]
  BY DEF Starts
<1>3. ASSUME i # NoItem
      PROVE  /\ i \in Items /\ tables'.item[i].run = r /\ tables'.item[i].status = "running"
             /\ tables.item[i].run = NoRun /\ tables.item[i].status # "absent"
  <2>1. i \in Items /\ Startable(tables.item[i]) /\ tables'.item[i] = StartedItem(r)
    BY <1>3 DEF Starts
  <2> QED BY <2>1, StartableUnbound DEF StartedItem
<1>4. \A q \in Runs : tables'.run[q] = IF q = r THEN "streaming" ELSE tables.run[q]
  BY DEF Starts, LogTypes, Tables
<1> QED BY <1>1, <1>2, <1>3, <1>4

LEMMA StartsKeepsItems ==
    ASSUME LogTypes, ItemsOK, NEW r \in Runs, NEW i \in Items \cup {NoItem},
           tables.run[r] = "absent", Starts(r, i), overruled \subseteq overruled'
    PROVE  ItemsOK'
<1>1. /\ replay'.item = tables'.item
      /\ \A j \in Items : j # i => tables'.item[j] = tables.item[j]
      /\ i # NoItem => /\ i \in Items /\ tables'.item[i].run = r /\ tables'.item[i].status = "running"
                       /\ tables.item[i].run = NoRun /\ tables.item[i].status # "absent"
      /\ \A q \in Runs : tables'.run[q] = IF q = r THEN "streaming" ELSE tables.run[q]
  BY StartsItems
<1>2. \A j \in Items : tables.item[j].run # r
  BY NullsAssumption DEF ItemsOK
<1>3. \A j \in Items : tables.item[j].run # NoRun => tables.item[j].run \in Runs
  BY DEF LogTypes, Tables, QueueItem
<1>4. \A j \in Items : \/ tables'.item[j] = tables.item[j]
                       \/ j = i /\ tables'.item[j].run = r /\ tables'.item[j].status = "running"
  BY <1>1, NullsAssumption
<1>5. UnclaimedUnbound(tables')
  BY <1>4 DEF ItemsOK, UnclaimedUnbound
<1>6. ItemTellsOutcome'
  BY <1>1, <1>2, <1>3, <1>4 DEF ItemsOK, ItemTellsOutcome, Settled
<1>7. \A j \in Items : tables'.item[j].run # NoRun => tables'.run[tables'.item[j].run] # "absent"
  BY <1>1, <1>3, <1>4 DEF ItemsOK
<1>8. \A k, j \in Items : tables'.item[k].run # NoRun /\ tables'.item[k].run = tables'.item[j].run => k = j
  BY <1>2, <1>4 DEF ItemsOK
<1> QED BY <1>1, <1>5, <1>6, <1>7, <1>8 DEF ItemsOK

LEMMA SettlesItems ==
    ASSUME LogTypes, ItemsOK, NEW r \in Runs, NEW st \in Settled, NEW i \in Items \cup {NoItem},
           Settles(r, st, i), Binds(r, i)
    PROVE  /\ replay'.item = tables'.item
           /\ \A j \in Items : tables'.item[j].run = tables.item[j].run
           /\ \A j \in Items : tables.item[j].run # r => tables'.item[j] = tables.item[j]
           /\ \A j \in Items : tables.item[j].run = r => tables'.item[j].status = QueueTerminalStatus(st)
           /\ \A q \in Runs : tables'.run[q] = IF q = r THEN st ELSE tables.run[q]
<1>1. replay'.item = tables'.item
  BY DEF Settles, SettlesRows, LogTypes, Tables, Replays, ItemsOK
<1>2. \A j \in Items : tables'.item[j] = IF j = i THEN SettledItem(st, r) ELSE tables.item[j]
  BY DEF Settles, SettlesRows
<1>3. \A j \in Items : j = i <=> tables.item[j].run = r
  <2>1. CASE i = NoItem
    BY <2>1, NullsAssumption DEF Binds
  <2>2. CASE i \in Items
    BY <2>2, NullsAssumption DEF Binds, ItemsOK
  <2> QED BY <2>1, <2>2
<1>4. SettledItem(st, r).run = r /\ SettledItem(st, r).status = QueueTerminalStatus(st)
  BY DEF SettledItem
<1>5. \A q \in Runs : tables'.run[q] = IF q = r THEN st ELSE tables.run[q]
  BY DEF Settles, SettlesRows, LogTypes, Tables
<1>6. ASSUME NEW j \in Items
      PROVE  /\ tables'.item[j].run = tables.item[j].run
             /\ tables.item[j].run # r => tables'.item[j] = tables.item[j]
             /\ tables.item[j].run = r => tables'.item[j].status = QueueTerminalStatus(st)
  <2>1. CASE j = i
    <3>1. tables'.item[j] = SettledItem(st, r) /\ tables.item[j].run = r
      BY <1>2, <1>3, <2>1
    <3> QED BY <1>4, <3>1
  <2>2. CASE j # i
    <3>1. tables'.item[j] = tables.item[j] /\ tables.item[j].run # r
      BY <1>2, <1>3, <2>2
    <3> QED BY <3>1
  <2> QED BY <2>1, <2>2
<1> QED BY <1>1, <1>5, <1>6

LEMMA SettlesKeepsItems ==
    ASSUME LogTypes, ItemsOK, NEW r \in Runs, NEW st \in Settled, NEW i \in Items \cup {NoItem},
           Settles(r, st, i), Binds(r, i), overruled \subseteq overruled'
    PROVE  ItemsOK'
<1>1. /\ replay'.item = tables'.item
      /\ \A j \in Items : tables'.item[j].run = tables.item[j].run
      /\ \A j \in Items : tables.item[j].run # r => tables'.item[j] = tables.item[j]
      /\ \A j \in Items : tables.item[j].run = r => tables'.item[j].status = QueueTerminalStatus(st)
      /\ \A q \in Runs : tables'.run[q] = IF q = r THEN st ELSE tables.run[q]
  BY SettlesItems
<1>2. QueueTerminalStatus(st) \notin {"absent", "pending"} /\ st \notin {"absent", "streaming"}
  BY DEF QueueTerminalStatus, Settled
<1>3. \A j \in Items : tables.item[j].run # NoRun => tables.item[j].run \in Runs
  BY DEF LogTypes, Tables, QueueItem
<1>4. UnclaimedUnbound(tables')
  BY <1>1, <1>2 DEF ItemsOK, UnclaimedUnbound
<1>5. ItemTellsOutcome'
  BY <1>1, <1>2, <1>3 DEF ItemsOK, ItemTellsOutcome
<1>6. \A j \in Items : tables'.item[j].run # NoRun => tables'.run[tables'.item[j].run] # "absent"
  BY <1>1, <1>2, <1>3 DEF ItemsOK
<1>7. \A k, j \in Items : tables'.item[k].run # NoRun /\ tables'.item[k].run = tables'.item[j].run => k = j
  BY <1>1 DEF ItemsOK
<1> QED BY <1>1, <1>4, <1>5, <1>6, <1>7 DEF ItemsOK

LEMMA SameItemsKeeps ==
    ASSUME ItemsOK, tables'.run = tables.run, tables'.item = tables.item, replay'.item = replay.item,
           overruled \subseteq overruled'
    PROVE  ItemsOK'
BY DEF ItemsOK, UnclaimedUnbound, ItemTellsOutcome

-----------------------------------------------------------------------------
(* What stays true of a task while it waits, and which two tasks never     *)
(* wait together.                                                          *)

NeedsHeld(t) == t.kind \in {"release", "fail"} \/ (t.kind = "start" /\ t.item # NoItem)

RowsReady(t) ==
    /\ t.kind = "enqueue" => tables.item[t.item].status = "absent"
    /\ t.kind = "release" => tables.item[t.item].run = NoRun
    /\ t.kind = "finish"  => tables.run[t.run] # "absent" /\ Binds(t.run, t.item)

ItemReady(t) == /\ NeedsHeld(t) => held = t.item
                /\ RowsReady(t)
                /\ t.kind = "reorder" => t.set \subseteq Pending(tables)

ItemClash(t, u) == \/ DrainTask(t) /\ DrainTask(u)
                   \/ t.kind = "enqueue" /\ u.kind = "enqueue" /\ t.item = u.item

LEMMA TaskTypes ==
    ASSUME NEW t \in Tasks
    PROVE  /\ t.item \in Items \cup {NoItem}
           /\ t.kind \in ItemKinds => t.item \in Items
           /\ t.kind \in RunKinds => t.run \in Runs
BY DEF Tasks, Shape

LEMMA TouchedMoves ==
    ASSUME LogTypes, ItemsOK, HeldOK, NEW t \in Tasks, t.kind \in BatchKinds, ItemReady(t)
    PROVE  \A j \in Touched(t) : /\ Movable(FactType(t.kind), tables.item[j])
                                 /\ tables.item[j].status = "absent" => t.kind = "enqueue" /\ t.item = j
                                 /\ t.kind # "fail" => tables.item[j].run = NoRun
<1>1. ASSUME NEW j \in Items PROVE tables.item[j] \in QueueItem
  BY DEF LogTypes, Tables
<1>2. CASE t.kind = "enqueue"
  <2>1. t.item \in Items /\ Touched(t) = {t.item} /\ FactType(t.kind) = "QueueItemEnqueued"
    BY <1>2, TaskTypes DEF ItemKinds, Touched, FactType
  <2>2. tables.item[t.item].run = NoRun
    BY <1>2, <2>1 DEF ItemReady, RowsReady, ItemsOK, UnclaimedUnbound
  <2> QED BY <1>1, <1>2, <2>1, <2>2, Movables
<1>3. CASE t.kind \in {"release", "fail"}
  <2>1. /\ t.item \in Items /\ Touched(t) = {t.item}
        /\ FactType(t.kind) \in {"QueueItemReleased", "QueueItemFailed"}
    BY <1>3, TaskTypes DEF ItemKinds, Touched, FactType
  <2>2. tables.item[t.item].status # "absent" /\ (t.kind = "release" => tables.item[t.item].run = NoRun)
    BY <1>3, <2>1, NullsAssumption DEF ItemReady, NeedsHeld, RowsReady, HeldOK
  <2>3. CASE t.kind = "release"
    BY <1>1, <2>1, <2>2, <2>3, Movables DEF FactType
  <2>4. CASE t.kind = "fail"
    BY <1>1, <2>1, <2>2, <2>4, Movables DEF FactType
  <2> QED BY <1>3, <2>3, <2>4
<1>4. CASE t.kind = "claim"
  <2>1. /\ t.item \in Items /\ FactType(t.kind) = "QueueItemClaimed"
        /\ \A j \in Touched(t) : j \in Items /\ tables.item[j].status = "pending"
    BY <1>4, TaskTypes DEF ItemKinds, Touched, FactType
  <2>2. \A j \in Touched(t) : tables.item[j].run = NoRun
    BY <2>1 DEF ItemsOK, UnclaimedUnbound
  <2> QED BY <1>1, <2>1, <2>2, Movables
<1>5. CASE t.kind = "cancel"
  <2>1. /\ t.item \in Items /\ FactType(t.kind) = "QueueItemCancelled"
        /\ \A j \in Touched(t) : j \in Items /\ Startable(tables.item[j])
    BY <1>5, TaskTypes DEF ItemKinds, Touched, FactType
  <2>2. \A j \in Touched(t) : tables.item[j].run = NoRun /\ tables.item[j].status # "absent"
    BY <2>1, StartableUnbound
  <2> QED BY <1>1, <2>1, <2>2, Movables
<1>6. CASE t.kind = "orphans"
  <2>1. /\ FactType(t.kind) = "QueueItemReleased"
        /\ \A j \in Touched(t) : /\ j \in Items /\ tables.item[j].run = NoRun
                                 /\ tables.item[j].status = "running"
    BY <1>6 DEF Touched, FactType, OrphanClaims
  <2> QED BY <1>1, <2>1, Movables
<1>7. CASE t.kind = "reorder"
  <2>1. /\ FactType(t.kind) = "QueueItemReordered"
        /\ \A j \in Touched(t) : j \in Items /\ tables.item[j].status = "pending"
    BY <1>7 DEF Touched, FactType, ItemReady, Pending
  <2>2. \A j \in Touched(t) : tables.item[j].run = NoRun
    BY <2>1 DEF ItemsOK, UnclaimedUnbound
  <2> QED BY <1>1, <2>1, <2>2, Movables
<1> QED BY <1>2, <1>3, <1>4, <1>5, <1>6, <1>7 DEF BatchKinds, ItemKinds

(* Who waits is not disturbed by items that move but stay with their run.  *)
LEMMA MovesKeepReady ==
    ASSUME LogTypes, ItemsOK, NEW S, MovesOnly(S), tables'.run = tables.run, NEW u \in Tasks, RowsReady(u),
           \A j \in S : tables.item[j].status = "absent" => ~(u.kind = "enqueue" /\ u.item = j)
    PROVE  RowsReady(u)'
<1>1. ASSUME u.kind = "enqueue" PROVE tables'.item[u.item].status = "absent"
  <2>1. u.item \in Items /\ tables.item[u.item].status = "absent"
    BY <1>1, TaskTypes DEF RowsReady, ItemKinds
  <2> QED BY <1>1, <2>1 DEF MovesOnly
<1>2. ASSUME u.kind = "finish" PROVE tables'.run[u.run] # "absent" /\ Binds(u.run, u.item)'
  <2>1. /\ u.run \in Runs /\ u.item \in Items \cup {NoItem}
        /\ tables.run[u.run] # "absent" /\ Binds(u.run, u.item)
    BY <1>2, TaskTypes DEF RowsReady, RunKinds
  <2>2. \A j \in Items : /\ tables.item[j].run = u.run => tables'.item[j].run = u.run
                         /\ tables'.item[j].run = u.run => tables.item[j].run = u.run
    BY <2>1, NullsAssumption DEF MovesOnly
  <2> QED BY <2>1, <2>2 DEF Binds
<1>3. ASSUME u.kind = "release" PROVE tables'.item[u.item].run = NoRun
  <2>1. u.item \in Items /\ tables.item[u.item].run = NoRun
    BY <1>3, TaskTypes DEF RowsReady, ItemKinds
  <2> QED BY <2>1 DEF MovesOnly
<1> QED BY <1>1, <1>2, <1>3 DEF RowsReady

LEMMA StartsKeepReady ==
    ASSUME LogTypes, ItemsOK, NEW r \in Runs, NEW i \in Items \cup {NoItem},
           tables.run[r] = "absent", Starts(r, i), NEW u \in Tasks, RowsReady(u),
           i # NoItem => u.kind # "release"
    PROVE  RowsReady(u)'
<1>0. /\ \A j \in Items : j # i => tables'.item[j] = tables.item[j]
      /\ i # NoItem => /\ i \in Items /\ tables'.item[i].run = r
                       /\ tables.item[i].run = NoRun /\ tables.item[i].status # "absent"
      /\ \A q \in Runs : tables'.run[q] = IF q = r THEN "streaming" ELSE tables.run[q]
  BY StartsItems
<1>1. ASSUME u.kind = "enqueue" PROVE tables'.item[u.item].status = "absent"
  <2>1. u.item \in Items /\ tables.item[u.item].status = "absent"
    BY <1>1, TaskTypes DEF RowsReady, ItemKinds
  <2> QED BY <1>0, <2>1, NullsAssumption
<1>2. ASSUME u.kind = "finish" PROVE tables'.run[u.run] # "absent" /\ Binds(u.run, u.item)'
  <2>1. /\ u.run \in Runs /\ u.item \in Items \cup {NoItem}
        /\ tables.run[u.run] # "absent" /\ Binds(u.run, u.item)
    BY <1>2, TaskTypes DEF RowsReady, RunKinds
  <2>2. u.run # r /\ u.run # NoRun
    BY <2>1, NullsAssumption
  <2>3. \A j \in Items : tables.item[j].run = u.run <=> tables'.item[j].run = u.run
    BY <1>0, <2>2, NullsAssumption
  <2> QED BY <1>0, <2>1, <2>3 DEF Binds
<1>3. ASSUME u.kind = "release" PROVE tables'.item[u.item].run = NoRun
  <2>1. u.item \in Items /\ tables.item[u.item].run = NoRun /\ i = NoItem
    BY <1>3, TaskTypes DEF RowsReady, ItemKinds
  <2> QED BY <1>0, <2>1, NullsAssumption
<1> QED BY <1>1, <1>2, <1>3 DEF RowsReady

LEMMA SettlesKeepReady ==
    ASSUME LogTypes, ItemsOK, NEW r \in Runs, NEW st \in Settled, NEW i \in Items \cup {NoItem},
           Settles(r, st, i), Binds(r, i), NEW u \in Tasks, RowsReady(u)
    PROVE  RowsReady(u)'
<1>0. /\ \A j \in Items : tables'.item[j].run = tables.item[j].run
      /\ \A j \in Items : tables.item[j].run # r => tables'.item[j] = tables.item[j]
      /\ \A q \in Runs : tables'.run[q] = IF q = r THEN st ELSE tables.run[q]
  BY SettlesItems
<1>1. ASSUME u.kind = "enqueue" PROVE tables'.item[u.item].status = "absent"
  <2>1. u.item \in Items /\ tables.item[u.item].status = "absent"
    BY <1>1, TaskTypes DEF RowsReady, ItemKinds
  <2>2. tables.item[u.item].run # r
    BY <2>1, NullsAssumption DEF ItemsOK, UnclaimedUnbound
  <2> QED BY <1>0, <2>1, <2>2
<1>2. ASSUME u.kind = "finish" PROVE tables'.run[u.run] # "absent" /\ Binds(u.run, u.item)'
  <2>1. /\ u.run \in Runs /\ u.item \in Items \cup {NoItem}
        /\ tables.run[u.run] # "absent" /\ Binds(u.run, u.item)
    BY <1>2, TaskTypes DEF RowsReady, RunKinds
  <2> QED BY <1>0, <2>1 DEF Binds, Settled
<1>3. ASSUME u.kind = "release" PROVE tables'.item[u.item].run = NoRun
  <2>1. u.item \in Items /\ tables.item[u.item].run = NoRun
    BY <1>3, TaskTypes DEF RowsReady, ItemKinds
  <2> QED BY <1>0, <2>1
<1> QED BY <1>1, <1>2, <1>3 DEF RowsReady

HeldFrom(t) ==
    \/ held' = NoItem
    \/ held' = t.item /\ t.kind = "claim" /\ t.item \in Items /\ tables.item[t.item].status = "pending"
    \/ held' = held

LEMMA HeldByTask ==
    ASSUME NEW t \in Tasks, Run(t) PROVE (~DrainTask(t) => held' = held) /\ HeldFrom(t)
<1>1. held' = HeldAfter(t)
  BY DEF Run
<1>2. ASSUME ~DrainTask(t) PROVE held' = held
  BY <1>1, <1>2 DEF HeldAfter, DrainTask
<1>3. CASE t.kind = "claim" /\ tables.item[t.item].status = "pending"
  <2>1. held' = t.item /\ t.item \in Items
    BY <1>1, <1>3, TaskTypes DEF HeldAfter, ItemKinds
  <2> QED BY <1>2, <1>3, <2>1 DEF HeldFrom
<1>4. CASE ~ (t.kind = "claim" /\ tables.item[t.item].status = "pending")
  BY <1>1, <1>2, <1>4 DEF HeldAfter, HeldFrom
<1> QED BY <1>3, <1>4

(* What is overruled stays so, and the drain's failure overrules the run   *)
(* of its item.                                                            *)
LEMMA OverruledByTask ==
    ASSUME NEW t \in Tasks, Run(t)
    PROVE  /\ overruled \subseteq overruled'
           /\ t.kind = "fail" /\ tables.item[t.item].run # NoRun => t.item \in overruled'
BY DEF Run, OverruledAfter

(* A row that exists stays.                                                *)
Spared(j) == tables.item[j].status # "absent" => tables'.item[j].status # "absent"

LEMMA HeldKeeps ==
    ASSUME ItemsOK, HeldOK, ChainOK, NEW t \in Tasks, Run(t), \A j \in Items : Spared(j)
    PROVE  HeldOK'
<1>1. held \in Items \cup {NoItem}
  BY DEF ChainOK
<1>2. CASE held' = NoItem
  BY <1>2 DEF HeldOK
<1>3. CASE held' = t.item /\ t.item \in Items /\ tables.item[t.item].status = "pending"
  <2>1. Spared(t.item)
    BY <1>3
  <2> QED BY <1>3, <2>1 DEF HeldOK, Spared
<1>4. CASE held' = held /\ held' # NoItem
  <2>1. held \in Items /\ held # NoItem /\ Spared(held)
    BY <1>1, <1>4
  <2> QED BY <1>4, <2>1 DEF HeldOK, Spared
<1> QED BY <1>2, <1>3, <1>4, HeldByTask DEF HeldFrom

LEMMA ItemKeeps ==
    ASSUME RunsOK, ItemsOK, HeldOK, ChainOK, NEW t \in Tasks, t.kind # "ran",
           StartIsFresh(t), ItemReady(t), Run(t)
    PROVE  /\ ItemsOK' /\ HeldOK'
           /\ \A u \in Tasks : RowsReady(u) /\ ~ItemClash(t, u) => RowsReady(u)'
<1>0. LogTypes /\ tables \in Tables /\ overruled \subseteq overruled'
  BY OverruledByTask DEF RunsOK, LogTypes
<1> SUFFICES /\ ItemsOK' /\ \A j \in Items : Spared(j)
             /\ \A u \in Tasks : RowsReady(u) /\ ~ItemClash(t, u) => RowsReady(u)'
  BY HeldKeeps
<1>1. CASE SameRuns /\ SameItems
  <2>1. tables'.run = tables.run /\ tables'.item = tables.item /\ replay'.item = replay.item
    BY <1>1 DEF SameRuns, SameItems
  <2> QED BY <1>0, <2>1, SameItemsKeeps DEF Spared, RowsReady, Binds
<1>2. CASE SameRuns /\ t.kind \in BatchKinds /\ ~NoAppend
  <2>1. AppendFacts(TaskFacts(t))
    BY <1>2 DEF Run, CommitDecided
  <2>2. /\ FactType(t.kind) \in ItemFactTypes /\ Touched(t) \in SUBSET Items
        /\ ItemBatch(TaskFacts(t), FactType(t.kind), Touched(t))
    BY <1>2, ItemTasks
  <2>3. \A j \in Touched(t) : /\ Movable(FactType(t.kind), tables.item[j])
                              /\ tables.item[j].status = "absent" => t.kind = "enqueue" /\ t.item = j
                              /\ t.kind # "fail" => tables.item[j].run = NoRun
    BY <1>0, <1>2, TouchedMoves
  <2>4. MovesOnly(Touched(t)) /\ tables' \in Tables /\ tables'.run = tables.run
    BY <1>0, <1>2, <2>1, <2>2, <2>3, BatchMoves DEF ItemsOK, SameRuns
  <2>8. Overrules(Touched(t))
    <3>1. t.kind = "fail" => Touched(t) = {t.item}
      BY DEF Touched
    <3> QED BY <1>0, <2>3, <3>1, OverruledByTask DEF Overrules
  <2>5. ItemsOK'
    BY <2>4, <2>8, MovesKeeps
  <2>6. \A j \in Items : Spared(j)
    BY <2>4 DEF MovesOnly, Spared
  <2>7. ASSUME NEW u \in Tasks, RowsReady(u), ~ItemClash(t, u) PROVE RowsReady(u)'
    <3>1. \A j \in Touched(t) : tables.item[j].status = "absent" => ~(u.kind = "enqueue" /\ u.item = j)
      BY <2>3, <2>7 DEF ItemClash
    <3> QED BY <1>0, <2>4, <2>7, <3>1, MovesKeepReady
  <2> QED BY <2>5, <2>6, <2>7
<1>3. CASE t.kind = "start" /\ Admitted(TaskFacts(t)) /\ Starts(t.run, t.item)
  <2>1. t.run \in Runs /\ t.item \in Items \cup {NoItem} /\ tables.run[t.run] = "absent"
    BY <1>3, TaskTypes DEF RunKinds, StartIsFresh
  <2>2. ItemsOK'
    BY <1>0, <1>3, <2>1, StartsKeepsItems
  <2>3. ASSUME NEW u \in Tasks, RowsReady(u), ~ItemClash(t, u) PROVE RowsReady(u)'
    <3>1. t.item # NoItem => u.kind # "release"
      BY <1>3, <2>3 DEF ItemClash, DrainTask
    <3> QED BY <1>0, <1>3, <2>1, <2>3, <3>1, StartsKeepReady
  <2>4. \A j \in Items : Spared(j)
    <3>1. /\ \A j \in Items : j # t.item => tables'.item[j] = tables.item[j]
          /\ t.item # NoItem => tables'.item[t.item].status = "running"
      BY <1>0, <1>3, <2>1, StartsItems
    <3> QED BY <3>1, NullsAssumption DEF Spared
  <2> QED BY <2>2, <2>3, <2>4
<1>4. CASE EndsRun(t)
  <2>1. PICK st \in Settled, i \in Items \cup {NoItem} :
          Settles(t.run, st, i) /\ i = IF t.kind = "finish" THEN t.item ELSE ItemOf(tables, t.run)
    BY <1>4 DEF EndsRun
  <2>2. t.run \in Runs /\ Binds(t.run, i)
    BY <1>0, <1>4, <2>1, TaskTypes, ItemOfBinds DEF EndsRun, RunKinds, ItemReady, RowsReady
  <2>3. ItemsOK' /\ \A u \in Tasks : RowsReady(u) => RowsReady(u)'
    BY <1>0, <2>1, <2>2, SettlesKeepsItems, SettlesKeepReady
  <2>4. \A j \in Items : /\ tables.item[j].run # t.run => tables'.item[j] = tables.item[j]
                         /\ tables.item[j].run = t.run => tables'.item[j].status = QueueTerminalStatus(st)
    BY <1>0, <2>1, <2>2, SettlesItems
  <2>5. QueueTerminalStatus(st) # "absent"
    BY DEF QueueTerminalStatus, Settled
  <2> QED BY <2>3, <2>4, <2>5 DEF Spared
<1>5. CASE t.kind = "rollback" /\ Unsays(t.set)
  <2>1. tables'.run = tables.run /\ tables'.item = tables.item /\ replay'.item = replay.item
    BY <1>5 DEF Unsays
  <2> QED BY <1>0, <2>1, SameItemsKeeps DEF Spared, RowsReady, Binds
<1>6. CASE NoAppend
  BY <1>0, <1>1, <1>6, NothingAppended
<1> QED BY <1>0, <1>1, <1>2, <1>3, <1>4, <1>5, <1>6, RunTasks

ReadyAfter(u) ==
    /\ NeedsHeld(u) => held' = u.item
    /\ u.kind = "enqueue" => tables'.item[u.item].status = "absent"
    /\ u.kind = "release" => tables'.item[u.item].run = NoRun
    /\ u.kind = "finish"  => /\ tables'.run[u.run] # "absent"
                             /\ IF u.item = NoItem THEN \A j \in Items : tables'.item[j].run # u.run
                                ELSE tables'.item[u.item].run = u.run

LEMMA ReadyStays ==
    ASSUME NEW u \in Tasks, RowsReady(u)', NeedsHeld(u) => held' = u.item PROVE ReadyAfter(u)
BY DEF ReadyAfter, RowsReady, Binds

ItemsChainOK == \A k \in Waiting :
                   /\ chain[k].kind # "reorder" /\ ItemReady(chain[k])
                   /\ \A l \in Waiting : ItemClash(chain[k], chain[l]) => l = k

ItemInv == ItemsOK /\ HeldOK /\ ItemsChainOK

LEMMA ChainAfter ==
    ASSUME \A k \in 2..Len(chain') :
              /\ chain'[k].kind # "reorder" /\ ReadyAfter(chain'[k])
              /\ \A l \in 2..Len(chain') : ItemClash(chain'[k], chain'[l]) => l = k
    PROVE  ItemsChainOK'
BY DEF ItemsChainOK, Waiting, ItemReady, RowsReady, ReadyAfter, Binds, ItemClash, NeedsHeld, DrainTask

LEMMA NobodyWaits == ASSUME chain' = <<>> PROVE ItemsChainOK'
<1>1. Len(<<>>) = 0 /\ \A k : k \notin 2..0
  OBVIOUS
<1> QED BY <1>1 DEF ItemsChainOK, Waiting

LEMMA ItemRunStep ==
    ASSUME RunsOK, ItemsOK, HeldOK, ChainOK, NEW t \in Tasks, t.kind # "ran",
           StartIsFresh(t), ItemReady(t), Run(t)
    PROVE  /\ ItemsOK' /\ HeldOK'
           /\ \A u \in Tasks : ItemReady(u) /\ ~ItemClash(t, u) => ReadyAfter(u)
<1>1. /\ ItemsOK' /\ HeldOK'
      /\ \A u \in Tasks : RowsReady(u) /\ ~ItemClash(t, u) => RowsReady(u)'
  BY ItemKeeps
<1>2. ASSUME NEW u \in Tasks, ItemReady(u), ~ItemClash(t, u) PROVE ReadyAfter(u)
  <2>1. RowsReady(u)'
    BY <1>1, <1>2 DEF ItemReady
  <2>2. ASSUME NeedsHeld(u) PROVE held' = u.item
    <3>1. DrainTask(u) /\ held = u.item
      BY <1>2, <2>2 DEF NeedsHeld, DrainTask, ItemReady
    <3>2. ~DrainTask(t)
      BY <1>2, <3>1 DEF ItemClash
    <3> QED BY <3>1, <3>2, HeldByTask
  <2> QED BY <2>1, <2>2, ReadyStays
<1> QED BY <1>1, <1>2

LEMMA CalledReady == ASSUME tables \in Tables, NEW t, Called(t) PROVE ItemReady(t)
<1>1. t \in Tasks /\ (NeedsHeld(t) => held = t.item)
  BY DEF Called, NeedsHeld
<1>2. /\ t.kind = "enqueue" => tables.item[t.item].status = "absent"
      /\ t.kind = "release" => tables.item[t.item].run = NoRun
  BY DEF Called
<1>3. ASSUME t.kind = "finish" PROVE tables.run[t.run] # "absent" /\ Binds(t.run, t.item)
  <2>1. t.run \in Runs /\ tables.run[t.run] = "streaming" /\ t.item = ItemOf(tables, t.run)
    BY <1>1, <1>3, TaskTypes DEF Called, RunKinds
  <2> QED BY <2>1, ItemOfBinds
<1>4. t.kind = "reorder" => t.set \subseteq Pending(tables)
  BY DEF Called
<1> QED BY <1>1, <1>2, <1>3, <1>4 DEF ItemReady, RowsReady

LEMMA CalledAlone ==
    ASSUME ChainOK, NEW t, Called(t), NEW k \in Waiting
    PROVE  ~ItemClash(t, chain[k]) /\ ~ItemClash(chain[k], t)
<1>1. chain[k] \in Tasks
  BY DEF ChainOK, Waiting
<1>2. DrainTask(t) => ~DrainTask(chain[k])
  BY DEF Called, DrainIdle, Queued, DrainTask, Waiting
<1>3. t.kind = "enqueue" /\ chain[k].kind = "enqueue" => t.item # chain[k].item
  <2>1. chain[k].kind = "enqueue" => chain[k] = ItemTask("enqueue", chain[k].item)
    BY <1>1 DEF Tasks
  <2> QED BY <2>1 DEF Called
<1> QED BY <1>2, <1>3 DEF ItemClash

LEMMA ItemInvInit == ASSUME Init PROVE ItemInv
<1>1. tables = EmptyTables /\ replay = EmptyReplay /\ chain = <<>> /\ held = NoItem
  BY DEF Init
<1>2. replay.item = tables.item /\ \A i \in Items : tables.item[i].run = NoRun
  BY <1>1 DEF EmptyTables, EmptyReplay
<1>3. ItemsOK
  BY <1>2 DEF ItemsOK, UnclaimedUnbound, ItemTellsOutcome
<1>4. Len(chain) = 0 /\ \A k : k \notin 2..0
  BY <1>1
<1> QED BY <1>1, <1>3, <1>4 DEF ItemInv, HeldOK, ItemsChainOK, Waiting

LEMMA OutsideItems ==
    ASSUME RunInv, ItemInv, Outside
    PROVE  /\ ItemsOK' /\ HeldOK'
           /\ \/ chain' = <<>>
              \/ chain' = chain /\ \A k \in Waiting : ReadyAfter(chain[k])
<1>0. /\ RunsOK /\ LogTypes /\ tables \in Tables /\ ItemsOK /\ HeldOK /\ ChainOK
      /\ \A k \in Waiting : chain[k] \in Tasks /\ ItemReady(chain[k])
  BY DEF RunInv, RunsOK, LogTypes, ItemInv, ItemsChainOK, ChainOK, Waiting
<1>1. ASSUME NEW S \in SUBSET Items, CancelProviderTarget(S)
      PROVE  ItemsOK' /\ HeldOK' /\ chain' = chain /\ \A u \in Tasks : ItemReady(u) => ReadyAfter(u)
  <2> DEFINE es == ItemFacts("QueueItemCancelled", S)
  <2>1. /\ \A j \in S : tables.item[j].run = NoRun /\ tables.item[j].status \in {"pending", "running"}
        /\ CommitDecided(es) /\ chain' = chain /\ held' = held /\ overruled' = overruled
    BY <1>1 DEF CancelProviderTarget
  <2>2. SameRuns
    BY <1>0, <2>1, SetCommitKeepsRuns
  <2>3. \A j \in S : Movable("QueueItemCancelled", tables.item[j])
    <3> TAKE j \in S
    <3>1. tables.item[j] \in QueueItem
      BY <1>0 DEF Tables
    <3> QED BY <2>1, <3>1, Movables DEF Startable
  <2>4. MovesOnly(S)
    <3>1. CASE NoAppend
      BY <1>0, <3>1 DEF NoAppend, MovesOnly, ItemsOK
    <3>2. CASE AppendFacts(es)
      <4>1. "QueueItemCancelled" \in ItemFactTypes /\ ItemBatch(es, "QueueItemCancelled", S)
        BY SetBatch DEF ItemFactTypes
      <4> HIDE DEF es
      <4> QED BY <1>0, <2>3, <3>2, <4>1, BatchMoves DEF ItemsOK
    <3> QED BY <2>1, <3>1, <3>2 DEF CommitDecided
  <2>5. ItemsOK'
    BY <1>0, <2>1, <2>2, <2>4, MovesKeeps DEF SameRuns, Overrules
  <2>6. HeldOK'
    BY <1>0, <2>1, <2>4 DEF HeldOK, MovesOnly, ChainOK
  <2>7. ASSUME NEW u \in Tasks, ItemReady(u) PROVE ReadyAfter(u)
    <3>1. \A j \in S : tables.item[j].status # "absent"
      BY <2>1
    <3>2. RowsReady(u)'
      BY <1>0, <2>2, <2>4, <2>7, <3>1, MovesKeepReady DEF SameRuns, ItemReady
    <3> QED BY <2>1, <2>7, <3>2, ReadyStays DEF ItemReady
  <2> QED BY <2>1, <2>5, <2>6, <2>7
<1>2. ASSUME NEW r \in Runs, WriteCheckpoint(r)
      PROVE  ItemsOK' /\ HeldOK' /\ chain' = chain /\ \A u \in Tasks : ItemReady(u) => ReadyAfter(u)
  <2>1. UNCHANGED <<tables, replay, chain, held, overruled>>
    BY <1>2 DEF WriteCheckpoint
  <2>2. ItemsOK' /\ HeldOK'
    BY <1>0, <2>1, SameItemsKeeps DEF HeldOK
  <2>3. \A u \in Tasks : ItemReady(u) => ReadyAfter(u)
    BY <2>1 DEF ItemReady, RowsReady, Binds, ReadyAfter
  <2> QED BY <2>1, <2>2, <2>3
<1>3. ASSUME CrashAndRecover PROVE ItemsOK' /\ HeldOK' /\ chain' = <<>>
  <2>1. chain' = <<>> /\ held' = NoItem /\ overruled' = overruled
    BY <1>3 DEF CrashAndRecover
  <2>2. HeldOK'
    BY <2>1 DEF HeldOK
  <2>3. CASE Streaming(tables) = {}
    <3>1. SameRuns /\ SameItems
      BY <1>0, <1>3, <2>3, NothingAppended DEF CrashAndRecover
    <3> QED BY <1>0, <2>1, <2>2, <3>1, SameItemsKeeps DEF SameRuns, SameItems
  <2>4. CASE Streaming(tables) # {}
    <3> DEFINE r == ActiveRun(tables)
               i == ItemOf(tables, r)
    <3>1. AppendFacts(SettleFacts(r, "failed", i))
      BY <1>3, <2>4 DEF CrashAndRecover
    <3>2. r \in Runs /\ tables.run[r] = "streaming"
      BY <1>0, <2>4, ActiveRunFacts DEF Streaming
    <3>3. i \in Items \cup {NoItem} /\ "failed" \in Settled /\ Binds(r, i)
      BY <1>0, <3>2, ItemOfFacts, ItemOfBinds DEF Settled
    <3> HIDE DEF r, i
    <3>4. Settles(r, "failed", i)
      BY <1>0, <3>1, <3>2, <3>3, SettleCommits
    <3> QED BY <1>0, <2>1, <2>2, <3>2, <3>3, <3>4, SettlesKeepsItems
  <2> QED BY <2>3, <2>4
<1>4. ASSUME DrainLetsGo
      PROVE  ItemsOK' /\ HeldOK' /\ chain' = chain /\ \A k \in Waiting : ReadyAfter(chain[k])
  <2>1. /\ UNCHANGED <<tables, replay, chain, overruled>> /\ held' = NoItem /\ DrainIdle
    BY <1>4 DEF DrainLetsGo, NoAppend
  <2>2. ItemsOK' /\ HeldOK'
    BY <1>0, <2>1, SameItemsKeeps DEF HeldOK
  <2>3. ASSUME NEW k \in Waiting PROVE ReadyAfter(chain[k])
    <3>1. ~NeedsHeld(chain[k])
      BY <2>1 DEF DrainIdle, Queued, NeedsHeld, Waiting
    <3> QED BY <1>0, <2>1, <2>3, <3>1 DEF ItemReady, RowsReady, Binds, ReadyAfter
  <2> QED BY <2>1, <2>2, <2>3
<1> QED BY <1>0, <1>1, <1>2, <1>3, <1>4 DEF Outside

LEMMA ItemInvNext == ASSUME ~StaleReorders, RunInv, ItemInv, [Next]_vars PROVE ItemInv'
<1>0. /\ RunsOK /\ LogTypes /\ tables \in Tables /\ ChainOK /\ StartsOK /\ chain \in Seq(Tasks)
      /\ ItemsOK /\ HeldOK /\ ItemsChainOK
  BY DEF RunInv, RunsOK, LogTypes, ChainOK, ItemInv
<1>1. ASSUME NEW t, Called(t), Waits(t) PROVE ItemInv'
  <2>1. t \in Tasks /\ t.kind # "reorder" /\ ItemReady(t)
    BY <1>0, <1>1, CalledReady DEF Called, Waits
  <2>2. UNCHANGED <<tables, replay, held, overruled>>
    BY <1>1 DEF Waits, NothingRuns, NoAppend
  <2>3. ItemsOK' /\ HeldOK'
    BY <1>0, <2>2, SameItemsKeeps DEF HeldOK
  <2>4. \A u \in Tasks : ItemReady(u) => ReadyAfter(u)
    BY <2>2 DEF ItemReady, RowsReady, Binds, ReadyAfter
  <2>5. /\ \A k \in 2..Len(chain') : chain'[k] = IF k \in Waiting THEN chain[k] ELSE t
        /\ \A k \in 2..Len(chain') : k \notin Waiting => k = Len(chain) + 1
        /\ \A k \in Waiting : chain[k] \in Tasks
    BY <1>0, <1>1, <2>1, LastInLine DEF Waiting
  <2>6. \A k \in Waiting : ~ItemClash(t, chain[k]) /\ ~ItemClash(chain[k], t)
    BY <1>0, <1>1, CalledAlone
  <2>7. ASSUME NEW k \in 2..Len(chain')
        PROVE  /\ chain'[k].kind # "reorder" /\ ReadyAfter(chain'[k])
               /\ \A l \in 2..Len(chain') : ItemClash(chain'[k], chain'[l]) => l = k
    <3>1. CASE k \in Waiting
      <4>1. chain'[k] = chain[k] /\ chain[k].kind # "reorder" /\ ItemReady(chain[k]) /\ chain[k] \in Tasks
        BY <1>0, <2>5, <3>1 DEF ItemsChainOK
      <4>2. ReadyAfter(chain'[k])
        BY <2>4, <4>1
      <4>3. \A l \in 2..Len(chain') : ItemClash(chain'[k], chain'[l]) => l = k
        BY <1>0, <2>5, <2>6, <3>1, <4>1 DEF ItemsChainOK
      <4> QED BY <4>1, <4>2, <4>3
    <3>2. CASE k \notin Waiting
      <4>1. chain'[k] = t /\ k = Len(chain) + 1
        BY <2>5, <3>2
      <4>2. \A l \in 2..Len(chain') : ItemClash(chain'[k], chain'[l]) => l = k
        BY <2>5, <2>6, <4>1
      <4> QED BY <2>1, <2>4, <4>1, <4>2
    <3> QED BY <3>1, <3>2
  <2>8. ItemsChainOK'
    BY <2>7, ChainAfter
  <2> QED BY <2>3, <2>8 DEF ItemInv
<1>2. ASSUME NEW t, Called(t), RunsNow(t) PROVE ItemInv'
  <2>1. t \in Tasks /\ t.kind # "ran" /\ StartIsFresh(t) /\ ItemReady(t) /\ Run(t)
    BY <1>0, <1>2, CalledReady DEF Called, StartIsFresh, FreshRun, RunsNow
  <2>2. ItemsOK' /\ HeldOK'
    BY <1>0, <2>1, ItemRunStep
  <2>3. \A k : k \notin 2..Len(chain')
    BY <1>2, FirstInLine
  <2> QED BY <2>2, <2>3, ChainAfter DEF ItemInv
<1>3. ASSUME RunsNext PROVE ItemInv'
  <2> DEFINE t == chain[2]
  <2>1. /\ 2 \in Waiting /\ t \in Tasks /\ Run(t)
        /\ \A k \in 2..Len(chain') : k + 1 \in Waiting /\ k + 1 # 2 /\ chain'[k] = chain[k + 1]
        /\ \A k \in Waiting : chain[k] \in Tasks
    BY <1>0, <1>3, NextInLine DEF RunsNext, Waiting
  <2>2. t.kind # "ran" /\ StartIsFresh(t) /\ ItemReady(t)
    BY <1>0, <2>1 DEF StartsOK, ItemsChainOK
  <2>3. \A k \in Waiting : k # 2 => ItemReady(chain[k]) /\ ~ItemClash(t, chain[k])
    BY <1>0, <2>1 DEF ItemsChainOK
  <2> HIDE DEF t
  <2>4. ItemsOK' /\ HeldOK' /\ \A u \in Tasks : ItemReady(u) /\ ~ItemClash(t, u) => ReadyAfter(u)
    BY <1>0, <2>1, <2>2, ItemRunStep
  <2>5. ASSUME NEW k \in 2..Len(chain')
        PROVE  /\ chain'[k].kind # "reorder" /\ ReadyAfter(chain'[k])
               /\ \A l \in 2..Len(chain') : ItemClash(chain'[k], chain'[l]) => l = k
    <3>1. k + 1 \in Waiting /\ k + 1 # 2 /\ chain'[k] = chain[k + 1] /\ chain[k + 1] \in Tasks
      BY <2>1
    <3>2. chain[k + 1].kind # "reorder" /\ ReadyAfter(chain[k + 1])
      BY <1>0, <2>3, <2>4, <3>1 DEF ItemsChainOK
    <3>3. ASSUME NEW l \in 2..Len(chain'), ItemClash(chain'[k], chain'[l]) PROVE l = k
      <4>1. l + 1 \in Waiting /\ chain'[l] = chain[l + 1]
        BY <2>1
      <4>2. l + 1 = k + 1
        BY <1>0, <3>1, <3>3, <4>1 DEF ItemsChainOK
      <4> QED BY <4>2
    <3> QED BY <3>1, <3>2, <3>3
  <2>6. ItemsChainOK'
    BY <2>5, ChainAfter
  <2> QED BY <2>4, <2>6 DEF ItemInv
<1>4. CASE Rests
  <2>1. UNCHANGED <<tables, replay, held, overruled>> /\ chain' = <<>>
    BY <1>4 DEF Rests, NothingRuns, NoAppend
  <2>2. ItemsOK' /\ HeldOK'
    BY <1>0, <2>1, SameItemsKeeps DEF HeldOK
  <2> QED BY <2>1, <2>2, NobodyWaits DEF ItemInv
<1>5. CASE Outside
  <2>1. /\ ItemsOK' /\ HeldOK'
        /\ \/ chain' = <<>>
           \/ chain' = chain /\ \A k \in Waiting : ReadyAfter(chain[k])
    BY <1>5, OutsideItems
  <2>2. CASE chain' = <<>>
    BY <2>1, <2>2, NobodyWaits DEF ItemInv
  <2>3. CASE chain' = chain /\ \A k \in Waiting : ReadyAfter(chain[k])
    <3>1. ItemsChainOK'
      BY <1>0, <2>3, ChainAfter DEF ItemsChainOK, Waiting
    <3> QED BY <2>1, <3>1 DEF ItemInv
  <2> QED BY <2>1, <2>2, <2>3
<1>6. CASE UNCHANGED vars
  BY <1>6 DEF vars, ItemInv, ItemsOK, ItemTellsOutcome, HeldOK, ItemsChainOK, Waiting, ItemReady,
              RowsReady, Binds
<1> QED BY <1>0, <1>1, <1>2, <1>3, <1>4, <1>5, <1>6, Callers, SubmitSteps, AdvanceSteps

LEMMA ItemInvAlways == ASSUME ~StaleReorders PROVE Spec => [](RunInv /\ ItemInv)
<1>1. Init => RunInv /\ ItemInv
  BY RunInvInit, ItemInvInit
<1>2. RunInv /\ ItemInv /\ [Next]_vars => (RunInv /\ ItemInv)'
  BY RunInvNext, ItemInvNext
<1> QED BY <1>1, <1>2, PTL DEF Spec

(* What a command decides from, read off the tables, is what replaying the *)
(* log gives: as long as no reorder waits behind another commit            *)
(* (es/commands.ts 94-124, es/aggregate.ts 58-186).                        *)
THEOREM DecisionsMatchReplayAlways == ASSUME ~StaleReorders PROVE Spec => []DecisionsMatchReplay
<1>1. ASSUME RunInv, ItemInv PROVE DecisionsMatchReplay
  <2>1. replay \in Replays /\ replay.active = ActiveRun(tables) /\ replay.item = tables.item
    BY <1>1 DEF RunInv, RunsOK, LogTypes, ItemInv, ItemsOK
  <2>2. replay = [active |-> replay.active, item |-> replay.item]
    BY <2>1 DEF Replays
  <2> QED BY <2>1, <2>2 DEF DecisionsMatchReplay, DecisionState
<1> QED BY <1>1, ItemInvAlways, PTL

(* An item bound to a run shows that run's outcome, whatever was chained   *)
(* for the item when the run ended, but for an item that the drain failed  *)
(* after its run had started (es/projectors.ts 53-194,                     *)
(* queue/drain.ts 122-168).                                                *)
THEOREM ItemTellsOutcomeAlways == ASSUME ~StaleReorders PROVE Spec => []ItemTellsOutcome
<1>1. ItemInv => ItemTellsOutcome
  BY DEF ItemInv, ItemsOK
<1> QED BY <1>1, ItemInvAlways, PTL
=============================================================================
