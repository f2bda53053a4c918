----------------------------- MODULE MCServices -----------------------------
(***************************************************************************)
(* The five services checked together.  They share no state: a behaviour   *)
(* chooses one of them in Init and explores it to the end, the others stay *)
(* as they start, where none of their fair actions is enabled.             *)
(***************************************************************************)
EXTENDS PeerScheduler, FabricHub, SessionAwait, BackgroundJobs, SessionTail

CONSTANTS t1, c1, c2, j1, j2     \* awaits: a timer, two checks, two scripts

VARIABLE subject

(* Control and data frames of every stream; stream 0 has only control.     *)
SchedTraffic == (Streams \X BOOLEAN) \cup {<<NoStream, TRUE>>}

AwaitPosition == t1 :> 1 @@ c1 :> 2 @@ c2 :> 3 @@ j1 :> 4 @@ j2 :> 5

(* The awaits of a behaviour: two kinds that meet in the poller, two CI    *)
(* checks of which a cycle looks at both, two scripts of which it looks at *)
(* one.                                                                    *)
AwaitScenarios == {{t1, c1}, {c1, c2}, {j1, j2}}

ServicesInit ==
    /\ subject \in {"scheduler", "hub", "await", "jobs", "tail"}
    /\ SchedInit /\ HubInit /\ AwaitInit /\ JobInit /\ TailInit
    /\ IF subject = "await"
       THEN {a \in Awaits : awaitRow[a].status = "absent"} \in AwaitScenarios
       ELSE \A a \in Awaits : awaitRow[a].status = "absent"
    /\ subject # "tail" => transport = "sse"

SchedulerStep ==
    /\ subject = "scheduler" /\ SchedNext
    /\ UNCHANGED <<subject, hubVars, awaitVars, jobVars, tailVars>>

HubStep ==
    /\ subject = "hub" /\ HubNext
    /\ UNCHANGED <<subject, schedVars, awaitVars, jobVars, tailVars>>

AwaitStep ==
    /\ subject = "await" /\ AwaitNext
    /\ UNCHANGED <<subject, schedVars, hubVars, jobVars, tailVars>>

JobStep ==
    /\ subject = "jobs" /\ JobNext
    /\ UNCHANGED <<subject, schedVars, hubVars, awaitVars, tailVars>>

TailStep ==
    /\ subject = "tail" /\ TailNext
    /\ UNCHANGED <<subject, schedVars, hubVars, awaitVars, jobVars>>

ServicesNext == SchedulerStep \/ HubStep \/ AwaitStep \/ JobStep \/ TailStep

servicesVars == <<subject, schedVars, hubVars, awaitVars, jobVars, tailVars>>

ServicesSpec ==
    /\ ServicesInit /\ [][ServicesNext]_servicesVars
    /\ SchedFairness /\ HubFairness /\ AwaitFairness /\ JobFairness /\ TailFairness

(* Every variable of the five services stays in its range.                 *)
ServicesTypeOK ==
    SchedTypeOK /\ HubTypeOK /\ AwaitTypeOK /\ JobTypeOK /\ TailTypeOK
=============================================================================
