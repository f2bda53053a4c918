---------------------------- MODULE SessionAwait ----------------------------
(***************************************************************************)
(* Session awaits: a chat session registers a condition, a poller watches  *)
(* it, and the session is woken by one item in its queue.                  *)
(*   - session-await/service.ts: the rows and their guarded updates;       *)
(*   - session-await/poller.ts: one cycle is expiry, timers, the inline    *)
(*     sources, and the enqueueing of the queued source (javascript);      *)
(*   - session-await/heavy-check-queue.ts: the jobs of the queued source.  *)
(*                                                                         *)
(* Synchronous code is one action.  The awaits are the check of a source   *)
(* and enqueueSessionQueueItem, which ends in an item or in an error.      *)
(***************************************************************************)
EXTENDS Naturals, Sequences, SequencesExt, FiniteSets

CONSTANTS Timers, Inline, Scripts,   \* await ids by source: timer, github-ci, javascript
          ResultKeys, NoKey,         \* resultKey of a CI match
          MaxEvaluationErrors,       \* MAX_CONSECUTIVE_TRACKED_EVALUATION_ERRORS
          HeavyConcurrency,
          MaxInlineChecks,           \* MAX_CHECKS_PER_SOURCE, one number in the code:
          MaxScriptChecks,           \* here for either source by itself
          Position,                  \* of an await in every list: createdAt, then id
          MaxSends,                  \* bound: resume deliveries that are started
          MaxCrashes                 \* bound

Awaits == Timers \cup Inline \cup Scripts

ASSUME SessionAwaitAssumption ==
    /\ Timers \cap Inline = {} /\ Timers \cap Scripts = {} /\ Inline \cap Scripts = {}
    /\ NoKey \notin ResultKeys /\ IsFiniteSet(Awaits)
    /\ MaxEvaluationErrors \in Nat \ {0} /\ HeavyConcurrency \in Nat \ {0}
    /\ MaxInlineChecks \in Nat \ {0} /\ MaxScriptChecks \in Nat \ {0}
    /\ Position \in [Awaits -> Nat]
    /\ \A a, b \in Awaits : Position[a] = Position[b] => a = b
    /\ MaxSends \in Nat /\ MaxCrashes \in Nat

VARIABLES awaitRow,     \* session_awaits: status, failureKind, error count, resultKey;
                        \* and (history) whether a retry replaced the resultKey
          sends,        \* enqueueResume calls under way: [await, kind, by]
          woken,        \* per await: items it put into the session's queue
          lostWakes,    \* awaits whose delivery died with the process
          poller,       \* runOnce: where it is suspended, and the rows it checks
          heavyQueue,   \* queue, and queuedIds with it
          inFlight,     \* inFlightIds: per running job its suspension point
          started,      \* deliveries started so far
          awaitCrashes

awaitVars == <<awaitRow, sends, woken, lostWakes, poller, heavyQueue, inFlight,
               started, awaitCrashes>>

NotRegistered == [status |-> "absent", failure |-> "none", errors |-> 0, key |-> NoKey,
                  rekeyed |-> FALSE]

(* Rows of earlier awaits may be there; only a cancelled one is kept, as   *)
(* all that are final are alike.                                           *)
EarlierRow == [NotRegistered EXCEPT !.status = "cancelled"]

At(pc, rows) == [pc |-> pc, rows |-> rows]

AwaitInit ==
    /\ awaitRow \in [Awaits -> {NotRegistered, EarlierRow}]
    /\ sends = {}
    /\ woken = [a \in Awaits |-> 0]
    /\ lostWakes = {}
    /\ poller = At("idle", {})
    /\ heavyQueue = <<>>
    /\ inFlight = [a \in Scripts |-> "no"]
    /\ started = 0 /\ awaitCrashes = 0

Pending(a)  == awaitRow[a].status = "pending"
SendingBy(b) == {s \in sends : s.by = b}

(* What a cycle looks at of a source: the first of its pending rows.  The  *)
(* cut is made before anything is asked of the rows.  createdAt counts     *)
(* seconds, so awaits may be registered in another order than listed.      *)
Listed(S, limit) ==
    {a \in S : /\ Pending(a)
               /\ Cardinality({b \in S : Pending(b) /\ Position[b] < Position[a]}) < limit}

-----------------------------------------------------------------------------
(* trigger, markFailed and the other updates: what one call does to the    *)
(* row, and the delivery it starts                                         *)

Send(a, kind, by) == [await |-> a, kind |-> kind, by |-> by]

(* Mutated form: a match whose delivery failed does not count as reported. *)
ReportedOnce(key) == \E b \in Inline : awaitRow[b].status = "triggered" /\ awaitRow[b].key = key

AlreadyReported(key) ==
    \E b \in Inline :
      /\ awaitRow[b].key = key
      /\ \/ awaitRow[b].status = "triggered"
         \/ awaitRow[b].status = "failed" /\ awaitRow[b].failure = "delivery"

(* Mutated form: the row is marked when the delivery is over.              *)
MarkedLater(row, key) == [row EXCEPT !.key = key]

Marked(row, key) == [row EXCEPT !.status = "triggered", !.failure = "none", !.key = key]

MayTrigger(a, key) == Pending(a) /\ (key # NoKey => ~AlreadyReported(key))

SourceFailed(row) == [row EXCEPT !.status = "failed", !.failure = "source"]

(* recordTrackedEvaluationFailure                                          *)
LastError(row) == row.errors + 1 >= MaxEvaluationErrors
EvaluationFailed(row) ==
    IF LastError(row) THEN [SourceFailed(row) EXCEPT !.errors = @ + 1]
    ELSE [row EXCEPT !.errors = @ + 1]

Starts(S) ==
    /\ started + Cardinality(S) <= MaxSends
    /\ started' = started + Cardinality(S)
    /\ sends' = sends \cup S

-----------------------------------------------------------------------------
(* Requests                                                                *)

Register(a) ==
    /\ awaitRow[a].status = "absent"
    /\ awaitRow' = [awaitRow EXCEPT ![a].status = "pending"]
    /\ UNCHANGED <<sends, woken, lostWakes, poller, heavyQueue, inFlight, started, awaitCrashes>>

CancelAwait(a) ==
    /\ Pending(a)
    /\ awaitRow' = [awaitRow EXCEPT ![a].status = "cancelled"]
    /\ UNCHANGED <<sends, woken, lostWakes, poller, heavyQueue, inFlight, started, awaitCrashes>>

(* Only the keys of CI awaits are ever compared.                           *)
KeysFor(a) == IF a \in Inline THEN ResultKeys \cup {NoKey} ELSE {NoKey}

TriggerByRequest(a) ==
    /\ \E key \in KeysFor(a) :
         /\ MayTrigger(a, key)
         /\ awaitRow' = [awaitRow EXCEPT ![a] = Marked(@, key)]
    /\ Starts({Send(a, "result", "request")})
    /\ UNCHANGED <<woken, lostWakes, poller, heavyQueue, inFlight, awaitCrashes>>

(* The request may bring a payload in the place of the row's; nobody asks  *)
(* whether its key was reported.                                           *)
Rekeyed(row, key) == [Marked(row, key) EXCEPT !.rekeyed = @ \/ key # row.key]

RetryDelivery(a) ==
    /\ awaitRow[a].status = "failed" /\ awaitRow[a].failure = "delivery"
    /\ \E key \in KeysFor(a) : awaitRow' = [awaitRow EXCEPT ![a] = Rekeyed(@, key)]
    /\ Starts({Send(a, "result", "request")})
    /\ UNCHANGED <<woken, lostWakes, poller, heavyQueue, inFlight, awaitCrashes>>

-----------------------------------------------------------------------------
(* enqueueResume returns                                                   *)

Delivered(s) ==
    /\ sends' = sends \ {s}
    /\ woken' = [woken EXCEPT ![s.await] = @ + 1]
    /\ UNCHANGED <<awaitRow, lostWakes, poller, heavyQueue, inFlight, started, awaitCrashes>>

(* markDeliveryFailed sets the row whatever its status is; the error of a  *)
(* failure notice only becomes part of the row's text.                     *)
DeliveryFailed(s) ==
    /\ sends' = sends \ {s}
    /\ awaitRow' = IF s.kind = "failure" THEN awaitRow
                   ELSE [awaitRow EXCEPT ![s.await].status = "failed",
                                         ![s.await].failure = "delivery"]
    /\ UNCHANGED <<woken, lostWakes, poller, heavyQueue, inFlight, started, awaitCrashes>>

-----------------------------------------------------------------------------
(* runOnce.  The interval, requestRun and its rerun flag all come to: the  *)
(* poller may start whenever it is idle.  A cycle without a pending row    *)
(* does nothing.                                                           *)

PollStart ==
    /\ poller.pc = "idle"
    /\ \E a \in Awaits : Pending(a)
    /\ \E past \in SUBSET Awaits, due \in SUBSET Timers :
         LET open == {a \in Awaits : Pending(a)}
             fire == (due \cap open) \ past
         IN  /\ awaitRow' = [a \in Awaits |->
                  IF a \in past \cap open THEN [awaitRow[a] EXCEPT !.status = "expired"]
                  ELSE IF a \in fire THEN Marked(awaitRow[a], NoKey)
                  ELSE awaitRow[a]]
             /\ past \subseteq open /\ due \subseteq open
             /\ Starts({Send(a, "result", "poller") : a \in fire})
    /\ poller' = At("timers", {})
    /\ UNCHANGED <<woken, lostWakes, heavyQueue, inFlight, awaitCrashes>>

PollInline ==
    /\ poller.pc = "timers" /\ SendingBy("poller") = {}
    /\ poller' = At("checking", Listed(Inline, MaxInlineChecks))
    /\ UNCHANGED <<awaitRow, sends, woken, lostWakes, heavyQueue, inFlight, started, awaitCrashes>>

(* applyCheckResults for the rows that were listed when the check began.   *)
(* A permanent error or a match without a text is a failure.               *)
(* The loop runs through: the triggers mark their rows one after the other *)
(* and then wait for their deliveries.                                     *)
Outcomes == {"match", "failure", "none"}

(* Of the matches with one key the first marks its row, and wins.          *)
First(S) == CHOOSE a \in S : TRUE

PollResults ==
    /\ poller.pc = "checking"
    /\ \E outcome \in [poller.rows -> Outcomes],
          key \in [poller.rows -> ResultKeys \cup {NoKey}] :
         LET matched == {a \in poller.rows : outcome[a] = "match" /\ MayTrigger(a, key[a])}
             failed  == {a \in poller.rows : outcome[a] = "failure" /\ Pending(a)}
             fire    == {a \in matched : key[a] = NoKey
                                           \/ a = First({b \in matched : key[b] = key[a]})}
         IN  /\ \A a \in poller.rows : key[a] # NoKey => outcome[a] = "match"
             /\ awaitRow' = [a \in Awaits |->
                  IF a \in fire THEN Marked(awaitRow[a], key[a])
                  ELSE IF a \in failed THEN SourceFailed(awaitRow[a])
                  ELSE awaitRow[a]]
             /\ Starts({Send(a, "result", "poller") : a \in fire})
    /\ poller' = At("delivering", {})
    /\ UNCHANGED <<woken, lostWakes, heavyQueue, inFlight, awaitCrashes>>

(* enqueueHeavyChecks and pump.  A script that is not due yet is one of a  *)
(* later cycle.                                                            *)
Flying(flight) == {a \in Scripts : flight[a] # "no"}

Pumped(queue, flight) ==
    LET free == HeavyConcurrency - Cardinality(Flying(flight))
        n    == IF Len(queue) < free THEN Len(queue) ELSE free
    IN  /\ heavyQueue' = SubSeq(queue, n + 1, Len(queue))
        /\ inFlight' = [a \in Scripts |->
                          IF \E i \in 1..n : queue[i] = a THEN "checking" ELSE flight[a]]

(* The rows of S in the order of a list.                                   *)
InOrder(S) ==
    {rows \in [1..Cardinality(S) -> S] :
       \A i, j \in 1..Cardinality(S) : i < j => Position[rows[i]] < Position[rows[j]]}

PollScripts ==
    /\ poller.pc = "delivering" /\ SendingBy("poller") = {}
    /\ \E rows \in InOrder({a \in Listed(Scripts, MaxScriptChecks) : inFlight[a] = "no"}
                            \ Range(heavyQueue)) :
         Pumped(heavyQueue \o rows, inFlight)
    /\ poller' = At("idle", {})
    /\ UNCHANGED <<awaitRow, sends, woken, lostWakes, started, awaitCrashes>>

-----------------------------------------------------------------------------
(* runJob: the result is applied to the row as it is now                   *)

JobGoesOn(a) == inFlight' = [inFlight EXCEPT ![a] = "delivering"]

JobResult(a) ==
    /\ inFlight[a] = "checking"
    /\ JobGoesOn(a)
    /\ \/ /\ MayTrigger(a, NoKey)
          /\ awaitRow' = [awaitRow EXCEPT ![a] = Marked(@, NoKey)]
          /\ Starts({Send(a, "result", "job")})
       \/ /\ Pending(a)
          /\ awaitRow' = [awaitRow EXCEPT ![a] = SourceFailed(@)]
          /\ Starts({Send(a, "failure", "job")})
       \/ /\ Pending(a)
          /\ awaitRow' = [awaitRow EXCEPT ![a] = EvaluationFailed(@)]
          /\ Starts(IF LastError(awaitRow[a]) THEN {Send(a, "failure", "job")} ELSE {})
       \/ /\ awaitRow' = IF Pending(a) THEN [awaitRow EXCEPT ![a].errors = 0] ELSE awaitRow
          /\ UNCHANGED <<sends, started>>
    /\ UNCHANGED <<woken, lostWakes, poller, heavyQueue, awaitCrashes>>

(* Mutated form: the id of a job stays in flight when its await is over.   *)
StaysInFlight(a) == IF Pending(a) THEN [inFlight EXCEPT ![a] = "no"] ELSE inFlight

WithoutJob(a) == [inFlight EXCEPT ![a] = "no"]

JobDone(a) ==
    /\ inFlight[a] = "delivering"
    /\ \A s \in SendingBy("job") : s.await # a
    /\ Pumped(heavyQueue, WithoutJob(a))
    /\ UNCHANGED <<awaitRow, sends, woken, lostWakes, poller, started, awaitCrashes>>

-----------------------------------------------------------------------------
(* The process dies and starts again: only the rows and the session's      *)
(* queue are left.                                                         *)
CrashAwaits ==
    /\ awaitCrashes < MaxCrashes
    /\ awaitCrashes' = awaitCrashes + 1
    /\ lostWakes' = lostWakes \cup {s.await : s \in sends}
    /\ sends' = {} /\ poller' = At("idle", {}) /\ heavyQueue' = <<>>
    /\ inFlight' = [a \in Scripts |-> "no"]
    /\ UNCHANGED <<awaitRow, woken, started>>

AwaitNext ==
    \/ \E a \in Awaits : \/ Register(a) \/ CancelAwait(a)
                         \/ TriggerByRequest(a) \/ RetryDelivery(a)
    \/ \E s \in sends : Delivered(s) \/ DeliveryFailed(s)
    \/ PollStart \/ PollInline \/ PollResults \/ PollScripts
    \/ \E a \in Scripts : JobResult(a) \/ JobDone(a)
    \/ CrashAwaits

(* The interval fires, and checks and enqueues return.  No request and no  *)
(* particular result is fair.                                              *)
AwaitFairness ==
    /\ WF_awaitVars(PollStart \/ PollInline \/ PollResults \/ PollScripts)
    /\ WF_awaitVars(\E s \in sends : Delivered(s) \/ DeliveryFailed(s))
    /\ \A a \in Scripts : WF_awaitVars(JobResult(a) \/ JobDone(a))

AwaitSpec == AwaitInit /\ [][AwaitNext]_awaitVars /\ AwaitFairness

-----------------------------------------------------------------------------
(* Every variable has its type.                                            *)
AwaitTypeOK ==
    /\ awaitRow \in [Awaits -> [status : {"absent", "pending", "triggered", "expired",
                                          "cancelled", "failed"},
                                failure : {"none", "source", "delivery"},
                                errors : 0..MaxEvaluationErrors,
                                key : ResultKeys \cup {NoKey},
                                rekeyed : BOOLEAN]]
    /\ \A a \in Awaits : awaitRow[a].status \in {"absent", "pending"}
                         => awaitRow[a].errors < MaxEvaluationErrors
    /\ sends \subseteq [await : Awaits, kind : {"result", "failure"},
                        by : {"poller", "job", "request"}]
    /\ woken \in [Awaits -> Nat]
    /\ lostWakes \subseteq Awaits
    /\ poller \in [pc : {"idle", "timers", "checking", "delivering"}, rows : SUBSET Inline]
    /\ heavyQueue \in Seq(Scripts)
    /\ inFlight \in [Scripts -> {"no", "checking", "delivering"}]
    /\ Cardinality(Flying(inFlight)) <= HeavyConcurrency
    /\ started \in 0..MaxSends /\ awaitCrashes \in 0..MaxCrashes

SendsOf(a) == {s \in sends : s.await = a}

(* The wake-up of an await is delivered once at most, whichever of the     *)
(* poller, a job and a request gets to it: a triggered await has put one   *)
(* item into the queue, or is putting it there, or lost it with the        *)
(* process ("Mark as triggered before dispatching resume to guarantee      *)
(* idempotency", service.ts:332); one that can still trigger has done      *)
(* none of that.                                                           *)
WakeUpsAreAccounted ==
    \A a \in Awaits :
      /\ woken[a] + Cardinality(SendsOf(a)) <= 1
      /\ awaitRow[a].status = "triggered"
           => woken[a] + Cardinality(SendsOf(a)) = 1 \/ a \in lostWakes
      /\ (awaitRow[a].status \in {"pending", "expired", "cancelled"}
          \/ awaitRow[a].failure = "delivery")
           => woken[a] = 0 /\ SendsOf(a) = {}

(* One CI result wakes the session once, though several awaits match it    *)
(* and whatever becomes of the deliveries (service.ts:317-328), but for a  *)
(* retry that replaced an await's payload: its key is not looked up, and   *)
(* the one it replaces is forgotten (service.ts:390-400).                  *)
OneWakePerResult ==
    \A a, b \in {c \in Inline : ~awaitRow[c].rekeyed} :
      a # b /\ awaitRow[a].key = awaitRow[b].key /\ awaitRow[a].key # NoKey
        => woken[a] + woken[b] <= 1

(* The queue of heavy checks loses nobody it is offered: a pending script  *)
(* among the first MaxScriptChecks is checked again, though its earlier    *)
(* checks overlapped with cancels, triggers and deliveries that failed     *)
(* (heavy-check-queue.ts:136-173).  Nothing is said of a script while that *)
(* many older ones are pending: it may starve (poller.ts:129).             *)
ScriptsAreChecked ==
    \A a \in Scripts :
      []<>(inFlight[a] = "checking" \/ a \notin Listed(Scripts, MaxScriptChecks))
=============================================================================
