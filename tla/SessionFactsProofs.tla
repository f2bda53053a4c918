------------------------- MODULE SessionFactsProofs -------------------------
(***************************************************************************)
(* What the projections of SessionFacts do to the runs in flight and to    *)
(* the binding of items to runs, for every set of runs and items.          *)
(***************************************************************************)
EXTENDS SessionFacts, TLAPS

(* At most one run streams.                                                *)
OneStreaming(t) == \A r, s \in Runs : t.run[r] = "streaming" /\ t.run[s] = "streaming"
                                      => r = s

(* An item that has not been claimed yet is bound to no run.               *)
UnclaimedUnbound(t) == \A i \in Items : t.item[i].status \in {"absent", "pending"}
                                        => t.item[i].run = NoRun

TablesOK(t) == t \in Tables /\ OneStreaming(t) /\ UnclaimedUnbound(t)

(* Nothing started, nothing ended, nothing was bound or unbound.           *)
SameFlight(t, u) == /\ u.run = t.run
                    /\ \A i \in Items : u.item[i].run = t.item[i].run

-----------------------------------------------------------------------------
(* ActiveRun picks the run that streams, and NoRun only if none does.      *)
LEMMA ActiveRunFacts ==
    ASSUME NEW t \in Tables
    PROVE  /\ ActiveRun(t) \in Runs \cup {NoRun}
           /\ ActiveRun(t) = NoRun => \A r \in Runs : t.run[r] # "streaming"
           /\ ActiveRun(t) # NoRun => /\ ActiveRun(t) \in Runs
                                      /\ t.run[ActiveRun(t)] = "streaming"
<1>1. CASE Streaming(t) = {}
  BY <1>1 DEF ActiveRun, Streaming
<1>2. CASE Streaming(t) # {}
  <2>1. \E r \in Runs : t.run[r] = "streaming"
    BY <1>2 DEF Streaming
  <2>2. ActiveRun(t) \in Runs /\ t.run[ActiveRun(t)] = "streaming"
    BY <1>2, <2>1 DEF ActiveRun
  <2>3. QED
    BY <2>2, NullsAssumption
<1>3. QED
  BY <1>1, <1>2

(* If only r streams, ActiveRun is r.                                      *)
LEMMA ActiveRunUnique ==
    ASSUME NEW t \in Tables, OneStreaming(t),
           NEW r \in Runs, t.run[r] = "streaming"
    PROVE  ActiveRun(t) = r
BY ActiveRunFacts DEF OneStreaming

(* ItemOf names an item bound to the run, or none.                         *)
LEMMA ItemOfFacts ==
    ASSUME NEW t \in Tables, NEW r \in Runs
    PROVE  /\ ItemOf(t, r) \in Items \cup {NoItem}
           /\ ItemOf(t, r) # NoItem => t.item[ItemOf(t, r)].run = r
BY DEF ItemOf

-----------------------------------------------------------------------------
(* Queue facts bind nothing and end nothing.                               *)

LEMMA SetItemType ==
    ASSUME NEW t \in Tables, NEW i \in Items, NEW st \in ItemStatus,
           NEW r \in Runs \cup {NoRun}
    PROVE  /\ SetItem(t, i, st, r) \in Tables
           /\ SetItem(t, i, st, r).run = t.run
           /\ SetItem(t, i, st, r).msg = t.msg
           /\ \A j \in Items : SetItem(t, i, st, r).item[j] =
                  IF j = i THEN [status |-> st, run |-> r] ELSE t.item[j]
BY DEF SetItem, Tables, QueueItem

(* Enqueueing and releasing: an unbound item waits.                        *)
LEMMA WaitingFacts ==
    ASSUME NEW t, TablesOK(t), NEW i \in Items, t.item[i].run = NoRun
    PROVE  /\ TablesOK(SetItem(t, i, "pending", NoRun))
           /\ SameFlight(t, SetItem(t, i, "pending", NoRun))
<1> DEFINE u == SetItem(t, i, "pending", NoRun)
<1>1. t \in Tables /\ "pending" \in ItemStatus
  BY DEF TablesOK, ItemStatus
<1>2. /\ u \in Tables /\ u.run = t.run
      /\ \A j \in Items : u.item[j] = IF j = i THEN [status |-> "pending", run |-> NoRun]
                                    ELSE t.item[j]
  BY <1>1, SetItemType
<1> HIDE DEF u
<1>3. SameFlight(t, u)
  BY <1>2 DEF SameFlight
<1>4. OneStreaming(u) /\ UnclaimedUnbound(u)
  BY <1>2 DEF TablesOK, OneStreaming, UnclaimedUnbound
<1>5. QED
  BY <1>2, <1>3, <1>4 DEF u, TablesOK

(* Claiming, failing and cancelling change one item's status.              *)
LEMMA StatusFacts ==
    ASSUME NEW t, TablesOK(t), NEW i \in Items,
           NEW st \in ItemStatus \ {"absent", "pending"}
    PROVE  /\ TablesOK([t EXCEPT !.item[i].status = st])
           /\ SameFlight(t, [t EXCEPT !.item[i].status = st])
BY DEF TablesOK, SameFlight, OneStreaming, UnclaimedUnbound, Tables, QueueItem

LEMMA CancelledFacts ==
    ASSUME NEW t, TablesOK(t), NEW i \in Items
    PROVE  TablesOK(ProjectCancelled(t, i)) /\ SameFlight(t, ProjectCancelled(t, i))
<1>1. CASE Startable(t.item[i])
  BY <1>1, StatusFacts DEF ProjectCancelled, ItemStatus
<1>2. CASE ~Startable(t.item[i])
  BY <1>2 DEF ProjectCancelled, SameFlight
<1>3. QED
  BY <1>1, <1>2

LEMMA OrphansFacts ==
    ASSUME NEW t, TablesOK(t)
    PROVE  TablesOK(ReleaseOrphans(t)) /\ SameFlight(t, ReleaseOrphans(t))
BY DEF ReleaseOrphans, OrphanClaims, TablesOK, SameFlight, OneStreaming,
       UnclaimedUnbound, Tables, QueueItem, ItemStatus

LEMMA RolledBackFacts ==
    ASSUME NEW t, TablesOK(t), NEW S \in SUBSET Runs
    PROVE  TablesOK(ProjectRolledBack(t, S)) /\ SameFlight(t, ProjectRolledBack(t, S))
BY DEF ProjectRolledBack, TablesOK, SameFlight, OneStreaming, UnclaimedUnbound,
       Tables, RunStatus

-----------------------------------------------------------------------------
(* Starting: with nobody streaming, one more run streams and at most one   *)
(* unbound item becomes bound, to it.                                      *)
LEMMA StartedFacts ==
    ASSUME NEW t, TablesOK(t), NEW r \in Runs, NEW i \in Items \cup {NoItem},
           \A s \in Runs : t.run[s] # "streaming"
    PROVE  LET u == ProjectRunStarted(t, r, i) IN
           /\ TablesOK(u)
           /\ u.run = [t.run EXCEPT ![r] = "streaming"]
           /\ \A j \in Items : u.item[j].run = IF j = i THEN r ELSE t.item[j].run
<1> DEFINE o == [t EXCEPT !.run[r] = "streaming", !.msg[r] = "streaming"]
<1>1. /\ o \in Tables
      /\ o.run = [t.run EXCEPT ![r] = "streaming"]
      /\ o.item = t.item
  BY DEF TablesOK, Tables, RunStatus
<1>2. OneStreaming(o) /\ UnclaimedUnbound(o)
  BY <1>1 DEF TablesOK, OneStreaming, UnclaimedUnbound, Tables
<1>3. CASE i = NoItem
  BY <1>1, <1>2, <1>3, NullsAssumption DEF ProjectRunStarted, TablesOK
<1>4. CASE i \in Items
  <2>1. ProjectRunStarted(t, r, i) = SetItem(o, i, "running", r)
    BY <1>4, NullsAssumption DEF ProjectRunStarted
  <2> HIDE DEF o
  <2> DEFINE u == ProjectRunStarted(t, r, i)
  <2>2. /\ u \in Tables /\ u.run = o.run
        /\ \A j \in Items : u.item[j] = IF j = i THEN [status |-> "running", run |-> r]
                                      ELSE o.item[j]
    BY <1>1, <1>4, <2>1, SetItemType DEF ItemStatus
  <2> HIDE DEF u
  <2>3. OneStreaming(u) /\ UnclaimedUnbound(u)
    BY <1>2, <2>2 DEF OneStreaming, UnclaimedUnbound
  <2>4. \A j \in Items : u.item[j].run = IF j = i THEN r ELSE t.item[j].run
    BY <1>1, <2>2
  <2>5. QED
    BY <1>1, <2>2, <2>3, <2>4 DEF u, TablesOK
<1>5. QED
  BY <1>3, <1>4

(* Settling: the streaming run ends, its item stays bound to it.           *)
LEMMA SettledFacts ==
    ASSUME NEW t, TablesOK(t), NEW r \in Runs, NEW st \in Settled,
           NEW i \in Items \cup {NoItem},
           t.run[r] = "streaming", i # NoItem => t.item[i].run = r
    PROVE  LET u == ProjectSettled(t, r, st, i) IN
           /\ TablesOK(u)
           /\ u.run = [t.run EXCEPT ![r] = st]
           /\ \A j \in Items : u.item[j].run = t.item[j].run
<1> DEFINE m == ProjectMessageCompleted(t, r, st)
           c == [m EXCEPT !.run[r] = IF @ = "absent" THEN @ ELSE st]
<1>1. m \in Tables /\ m.run = t.run /\ m.item = t.item
  BY DEF ProjectMessageCompleted, TablesOK, Tables, RunStatus
<1>2. c \in Tables /\ c.run = [t.run EXCEPT ![r] = st] /\ c.item = t.item
  <2> HIDE DEF m
  <2>1. QED
    BY <1>1 DEF Tables, RunStatus
<1> HIDE DEF c
<1>3. OneStreaming(c) /\ UnclaimedUnbound(c)
  BY <1>2 DEF TablesOK, OneStreaming, UnclaimedUnbound, Tables, Settled
<1>4. QueueTerminalStatus(st) \in ItemStatus \ {"absent", "pending"}
  BY DEF QueueTerminalStatus, ItemStatus
<1>5. CASE i = NoItem
  <2>1. ProjectSettled(t, r, st, i) = c
    BY <1>5 DEF ProjectSettled, ProjectRunTerminal, c
  <2>2. QED
    BY <1>2, <1>3, <2>1 DEF TablesOK
<1>6. CASE i \in Items
  <2>1. ProjectSettled(t, r, st, i) = SetItem(c, i, QueueTerminalStatus(st), r)
    BY <1>6, NullsAssumption DEF ProjectSettled, ProjectRunTerminal, c
  <2> DEFINE u == ProjectSettled(t, r, st, i)
             qs == QueueTerminalStatus(st)
  <2>2. /\ u \in Tables /\ u.run = c.run
        /\ \A j \in Items : u.item[j] = IF j = i THEN [status |-> qs, run |-> r]
                                      ELSE c.item[j]
    BY <1>2, <1>4, <1>6, <2>1, SetItemType
  <2>3. t.item[i].run = r
    BY <1>6, NullsAssumption
  <2> HIDE DEF u, qs
  <2>4. OneStreaming(u) /\ UnclaimedUnbound(u)
    BY <1>3, <1>4, <2>2 DEF OneStreaming, UnclaimedUnbound, qs
  <2>5. \A j \in Items : u.item[j].run = t.item[j].run
    BY <1>2, <2>2, <2>3
  <2>6. QED
    BY <1>2, <2>2, <2>4, <2>5 DEF u, TablesOK
<1>7. QED
  BY <1>5, <1>6
=============================================================================
