--------------------------- MODULE BackgroundJobs ---------------------------
(***************************************************************************)
(* Durable background jobs: background-job/service.ts with poller.ts.      *)
(* The poller and requests run reconcileOne on a job, requests cancel it;  *)
(* each call is suspended while the source adapter or the owner's          *)
(* projector works, and goes on with the row it read before.               *)
(***************************************************************************)
EXTENDS Naturals, FiniteSets

CONSTANTS Jobs, Requests,      \* job ids; requests served at a time
          NoJob,
          PollerCall,          \* the call of the poller, runs one at a time
          MaxRequests,         \* bound: requests that are made
          MaxJobCrashes        \* bound

Calls == Requests \cup {PollerCall}

ASSUME BackgroundJobsAssumption ==
    /\ NoJob \notin Jobs /\ PollerCall \notin Requests
    /\ MaxRequests \in Nat /\ MaxJobCrashes \in Nat

Active   == {"pending", "running"}
Terminal == {"succeeded", "failed", "cancelled"}

VARIABLES jobRow,       \* background_jobs: status, and whether projectedAt is set
          source,       \* what the source of truth says of the job
          call,         \* per call: where it is suspended and the row it read
          shown,        \* per job: statuses the owner's projector was called with
          requested,
          jobCrashes

jobVars == <<jobRow, source, call, shown, requested, jobCrashes>>

Returned == [pc |-> "idle", job |-> NoJob, seen |-> "none"]

JobInit ==
    /\ jobRow = [j \in Jobs |-> [status |-> "absent", projected |-> FALSE]]
    /\ source = [j \in Jobs |-> "running"]
    /\ call = [c \in Calls |-> Returned]
    /\ shown = [j \in Jobs |-> {}]
    /\ requested = 0 /\ jobCrashes = 0

EnqueueJob(j) ==
    /\ jobRow[j].status = "absent"
    /\ \E status \in Active : jobRow' = [jobRow EXCEPT ![j].status = status]
    /\ UNCHANGED <<source, call, shown, requested, jobCrashes>>

(* The source finishes by itself.                                          *)
SourceEnds(j) ==
    /\ source[j] = "running" /\ jobRow[j].status # "absent"
    /\ \E end \in {"succeeded", "failed"} : source' = [source EXCEPT ![j] = end]
    /\ UNCHANGED <<jobRow, call, shown, requested, jobCrashes>>

-----------------------------------------------------------------------------
(* projectTerminal: the projector is called with the row at hand           *)

Suspend(c, pc, j, seen) == call' = [call EXCEPT ![c] = [pc |-> pc, job |-> j, seen |-> seen]]
Return(c)               == call' = [call EXCEPT ![c] = Returned]

ProjectTerminal(c, j, row) ==
    IF row.status \in Terminal /\ ~row.projected
    THEN /\ Suspend(c, "projecting", j, row.status)
         /\ shown' = [shown EXCEPT ![j] = @ \cup {row.status}]
    ELSE /\ Return(c)
         /\ UNCHANGED shown

(* The projector may correct the outcome.  Only the first result is kept.  *)
Projected(c) ==
    LET j == call[c].job
    IN  /\ call[c].pc = "projecting"
        /\ \E status \in {call[c].seen, "failed"} :
             jobRow' = IF jobRow[j].projected THEN jobRow
                       ELSE [jobRow EXCEPT ![j] = [status |-> status, projected |-> TRUE]]
        /\ Return(c)
        /\ UNCHANGED <<source, shown, requested, jobCrashes>>

ProjectionFails(c) ==
    /\ call[c].pc = "projecting"
    /\ Return(c)
    /\ UNCHANGED <<jobRow, source, shown, requested, jobCrashes>>

-----------------------------------------------------------------------------
(* reconcileOne                                                            *)

Reconcile(c, j) ==
    /\ call[c].pc = "idle" /\ jobRow[j].status # "absent"
    /\ IF jobRow[j].status \in Active
       THEN /\ Suspend(c, "reading", j, jobRow[j].status)
            /\ UNCHANGED shown
       ELSE ProjectTerminal(c, j, jobRow[j])
    /\ UNCHANGED <<jobRow, source, jobCrashes>>

(* Mutated form: a late observation overwrites what was settled meanwhile. *)
WritesAnyway(j) == TRUE

MayObserve(j) == jobRow[j].status \in Active

(* writeSourceObservation.  An observation equal to the row that was read  *)
(* writes nothing and goes on with that row, which is active.  One that    *)
(* only reports progress is written like any other.                        *)
SourceRead(c) ==
    LET j   == call[c].job
        row == IF MayObserve(j) THEN [status |-> source[j], projected |-> FALSE]
               ELSE jobRow[j]
    IN  /\ call[c].pc = "reading"
        /\ \/ /\ source[j] = call[c].seen
              /\ Return(c)
              /\ UNCHANGED <<jobRow, shown>>
           \/ /\ jobRow' = [jobRow EXCEPT ![j] = row]
              /\ ProjectTerminal(c, j, row)
        /\ UNCHANGED <<source, requested, jobCrashes>>

(* Only the error of the poll is noted on the row.                         *)
SourceReadFails(c) ==
    /\ call[c].pc = "reading"
    /\ Return(c)
    /\ UNCHANGED <<jobRow, source, shown, requested, jobCrashes>>

(* Mutated form: only jobs still active are picked up.                     *)
OnlyActive(j) == jobRow[j].status \in Active

Outstanding(j) ==
    \/ jobRow[j].status \in Active
    \/ jobRow[j].status \in Terminal /\ ~jobRow[j].projected

(* One turn of the poller's loop.  The rows of a cycle are all outstanding *)
(* ones, so that which of them comes next is not kept.                     *)
PollJob(j) ==
    /\ Outstanding(j)
    /\ Reconcile(PollerCall, j)
    /\ UNCHANGED requested

RequestJob(c, j) ==
    /\ requested < MaxRequests
    /\ requested' = requested + 1
    /\ Reconcile(c, j)

-----------------------------------------------------------------------------
(* cancel                                                                  *)

CancelJob(c, j) ==
    /\ requested < MaxRequests /\ requested' = requested + 1
    /\ call[c].pc = "idle" /\ jobRow[j].status # "absent"
    /\ IF jobRow[j].status \in Active
       THEN /\ jobRow' = [jobRow EXCEPT ![j] = [status |-> "cancelled", projected |-> FALSE]]
            /\ Suspend(c, "cancelling", j, "cancelled")
            /\ UNCHANGED shown
       ELSE /\ ProjectTerminal(c, j, jobRow[j])
            /\ UNCHANGED jobRow
    /\ UNCHANGED <<source, jobCrashes>>

(* adapter.cancel succeeded: the row read before it is projected.          *)
SourceCancelled(c) ==
    LET j == call[c].job
    IN  /\ call[c].pc = "cancelling"
        /\ source' = IF source[j] = "running" THEN [source EXCEPT ![j] = "cancelled"] ELSE source
        /\ ProjectTerminal(c, j, [status |-> call[c].seen, projected |-> FALSE])
        /\ UNCHANGED <<jobRow, requested, jobCrashes>>

(* It failed: the error is noted and the row is read again.                *)
SourceCancelFails(c) ==
    /\ call[c].pc = "cancelling"
    /\ ProjectTerminal(c, call[c].job, jobRow[call[c].job])
    /\ UNCHANGED <<jobRow, source, requested, jobCrashes>>

CrashJobs ==
    /\ jobCrashes < MaxJobCrashes
    /\ jobCrashes' = jobCrashes + 1
    /\ call' = [c \in Calls |-> Returned]
    /\ UNCHANGED <<jobRow, source, shown, requested>>

JobNext ==
    \/ \E j \in Jobs : EnqueueJob(j) \/ SourceEnds(j) \/ PollJob(j)
    \/ \E c \in Requests, j \in Jobs : RequestJob(c, j) \/ CancelJob(c, j)
    \/ \E c \in Calls : \/ Projected(c) \/ ProjectionFails(c)
                        \/ SourceRead(c) \/ SourceReadFails(c)
                        \/ SourceCancelled(c) \/ SourceCancelFails(c)
    \/ CrashJobs

(* The poller comes to every job, and adapters return.  A projector that   *)
(* is called again and again succeeds once.                                *)
JobFairness ==
    /\ \A j \in Jobs : SF_jobVars(PollJob(j)) /\ SF_jobVars(call[PollerCall].job = j /\ Projected(PollerCall))
    /\ \A c \in Calls :
         WF_jobVars(\/ SourceRead(c) \/ SourceReadFails(c)
                    \/ SourceCancelled(c) \/ SourceCancelFails(c)
                    \/ Projected(c) \/ ProjectionFails(c))

JobSpec == JobInit /\ [][JobNext]_jobVars /\ JobFairness

-----------------------------------------------------------------------------
(* Every variable has its type.                                            *)
JobTypeOK ==
    /\ jobRow \in [Jobs -> [status : {"absent"} \cup Active \cup Terminal, projected : BOOLEAN]]
    /\ source \in [Jobs -> {"running"} \cup Terminal]
    /\ call \in [Calls -> [pc : {"idle", "reading", "cancelling", "projecting"},
                           job : Jobs \cup {NoJob},
                           seen : {"none"} \cup Active \cup Terminal]]
    /\ shown \in [Jobs -> SUBSET Terminal]
    /\ requested \in 0..MaxRequests /\ jobCrashes \in 0..MaxJobCrashes

(* The owner of a job is told of one outcome only, however often its       *)
(* projector is called and however polls, requests and a cancel overlap    *)
(* ("once cancellation or another terminal state is persisted, late source *)
(* completion cannot overwrite it", background-job/README.md; service.ts   *)
(* 236-250, 275-301, 383-421).                                             *)
OwnersSeeOneOutcome == \A j \in Jobs : Cardinality(shown[j]) <= 1

(* A settled job is projected in the end, after failures and crashes.      *)
OutcomesAreProjected ==
    \A j \in Jobs : []<>(jobRow[j].status \in Terminal => jobRow[j].projected)
=============================================================================
