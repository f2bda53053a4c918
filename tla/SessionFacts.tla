---------------------------- MODULE SessionFacts ----------------------------
(***************************************************************************)
(* The pure core of a chat session: the facts of its event log, what       *)
(* es/decide.ts admits, what es/projectors.ts writes to the tables and     *)
(* what es/aggregate.ts rebuilds by replay.                                *)
(*                                                                         *)
(* Every run owns exactly one assistant message, so a run names both. User *)
(* messages, titles and interaction facts touch none of the state below    *)
(* and are left out.                                                       *)
(***************************************************************************)

CONSTANTS Runs,    \* ids of runs (and of their assistant messages)
          Items,   \* ids of durable queue items
          NoRun,   \* the null startedRunId / activeRun
          NoItem   \* the null queueItemId

ASSUME NullsAssumption == NoRun \notin Runs /\ NoItem \notin Items

Settled       == {"complete", "failed", "aborted"}
RunStatus     == {"absent", "streaming"} \cup Settled
ItemStatus    == {"absent", "pending", "running",
                  "completed", "failed", "cancelled"}
ItemSettled   == {"completed", "failed", "cancelled"}
QueueItem     == [status : ItemStatus, run : Runs \cup {NoRun}]

(* The projected tables: backend_runs, messages, chat_session_queue_items. *)
Tables        == [run  : [Runs -> RunStatus],
                  msg  : [Runs -> RunStatus],
                  item : [Items -> QueueItem]]

EmptyTables   == [run  |-> [r \in Runs |-> "absent"],
                  msg  |-> [r \in Runs |-> "absent"],
                  item |-> [i \in Items |-> [status |-> "absent", run |-> NoRun]]]

StartableAnyRunning(it) == it.status \in {"pending", "running"}

(* Waiting for a run and not bound to one: the condition decideStartRun,   *)
(* cancelQueuedSessionItem and projectQueueItemCancelled all test.         *)
Startable(it) == \/ it.status = "pending"
                 \/ it.status = "running" /\ it.run = NoRun

QueueTerminalStatusUnmapped(st) == st
QueueTerminalStatus(st) == CASE st = "complete" -> "completed"
                             [] st = "aborted"  -> "cancelled"
                             [] OTHER           -> "failed"

Streaming(t)   == {r \in Runs : t.run[r] = "streaming"}
Pending(t)     == {i \in Items : t.item[i].status = "pending"}
OrphanClaims(t) == {i \in Items : t.item[i].status = "running"
                                  /\ t.item[i].run = NoRun}

(* readRunQueueItemId: the row whose startedRunId is the run.              *)
ItemOf(t, r)   == IF \E i \in Items : t.item[i].run = r
                  THEN CHOOSE i \in Items : t.item[i].run = r
                  ELSE NoItem

-----------------------------------------------------------------------------
(* What a command decides from (readSessionDecisionState).                 *)

ActiveRun(t) == IF Streaming(t) = {} THEN NoRun
                ELSE CHOOSE r \in Runs : t.run[r] = "streaming"

DecisionState(t) == [active |-> ActiveRun(t), item |-> t.item]

StartVerdictItemOnly(s, i) ==
    IF i # NoItem /\ ~Startable(s.item[i]) THEN "queue_item_not_pending" ELSE "ok"

(* decideStartRun; the error codes are those of es/decide.ts.              *)
StartVerdict(s, i) ==
    IF s.active # NoRun THEN "run_already_active"
    ELSE IF i # NoItem /\ ~Startable(s.item[i]) THEN "queue_item_not_pending"
    ELSE "ok"

TerminalVerdictAny(s, r) == "ok"
TerminalVerdict(s, r) == IF s.active = r THEN "ok" ELSE "run_not_active"

ClaimVerdict(s, i) == IF s.item[i].status = "pending" THEN "ok"
                      ELSE "queue_item_not_pending"

RollbackVerdict(s) == IF s.active = NoRun THEN "ok" ELSE "rollback_run_active"

-----------------------------------------------------------------------------
(* Projections, one per fact.                                              *)

SetItem(t, i, st, r) == [t EXCEPT !.item[i] = [status |-> st, run |-> r]]

ProjectRunStarted(t, r, i) ==
    LET opened == [t EXCEPT !.run[r] = "streaming", !.msg[r] = "streaming"]
    IN  IF i = NoItem THEN opened ELSE SetItem(opened, i, "running", r)

(* An update: it never brings back a message a rollback deleted.           *)
ProjectMessageCompleted(t, r, st) ==
    IF t.msg[r] = "absent" THEN t ELSE [t EXCEPT !.msg[r] = st]

(* The run row and the queue row are overwritten unconditionally; the      *)
(* message is not touched.                                                 *)
ProjectRunTerminal(t, r, st, i) ==
    LET closed == [t EXCEPT !.run[r] = IF @ = "absent" THEN @ ELSE st]
    IN  IF i = NoItem THEN closed
        ELSE SetItem(closed, i, QueueTerminalStatus(st), r)

ProjectEnqueued(t, i)  == SetItem(t, i, "pending", NoRun)
ProjectClaimed(t, i)   == [t EXCEPT !.item[i].status = "running"]
ProjectReleasedStatusKept(t, i) == [t EXCEPT !.item[i].run = NoRun]
ProjectReleased(t, i)  == SetItem(t, i, "pending", NoRun)
ProjectFailed(t, i)    == [t EXCEPT !.item[i].status = "failed"]
ProjectReordered(t, i) == [t EXCEPT !.item[i].status = "pending"]
ProjectCancelled(t, i) == IF Startable(t.item[i])
                          THEN [t EXCEPT !.item[i].status = "cancelled"]
                          ELSE t

ProjectRolledBack(t, S) ==
    [t EXCEPT !.msg = [r \in Runs |-> IF r \in S THEN "absent" ELSE @[r]]]

ProjectSettledMessageOnly(t, r, st, i) == ProjectMessageCompleted(t, r, st)

(* AssistantMessageCompleted and the terminal fact always commit together. *)
ProjectSettled(t, r, st, i) ==
    ProjectRunTerminal(ProjectMessageCompleted(t, r, st), r, st, i)

ReleaseOrphansSkipped(t) == t

(* recoverOrphanedQueueItemClaims: one QueueItemReleased per orphan.       *)
ReleaseOrphans(t) ==
    [t EXCEPT !.item = [i \in Items |-> IF i \in OrphanClaims(t)
                                        THEN [status |-> "pending", run |-> NoRun]
                                        ELSE @[i]]]
=============================================================================
