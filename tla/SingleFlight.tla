---------------------------- MODULE SingleFlight ----------------------------
(***************************************************************************)
(* What a chat session promises about its top-level runs, whoever starts   *)
(* or ends them: one run at a time, a run lives once, and a durable queue  *)
(* item is served by at most one run (the README's "single-active-run      *)
(* aggregate invariant").                                                  *)
(***************************************************************************)
CONSTANTS Runs, Items, NoRun, NoItem, Outcomes

VARIABLES streaming,  \* the run in flight, or NoRun
          outcome,    \* per run: "absent", "streaming", or how it ended
          servedBy    \* per item: the run that took it, or NoRun

vars == <<streaming, outcome, servedBy>>

Init ==
    /\ streaming = NoRun
    /\ outcome = [r \in Runs |-> "absent"]
    /\ servedBy = [i \in Items |-> NoRun]

Start(r, i) ==
    /\ streaming = NoRun
    /\ outcome[r] = "absent"
    /\ streaming' = r
    /\ outcome' = [outcome EXCEPT ![r] = "streaming"]
    /\ IF i = NoItem THEN UNCHANGED servedBy
       ELSE servedBy[i] = NoRun /\ servedBy' = [servedBy EXCEPT ![i] = r]

Finish(r, st) ==
    /\ streaming = r
    /\ streaming' = NoRun
    /\ outcome' = [outcome EXCEPT ![r] = st]
    /\ UNCHANGED servedBy

Next == \E r \in Runs :
           \/ \E i \in Items \cup {NoItem} : Start(r, i)
           \/ \E st \in Outcomes : Finish(r, st)

Spec == Init /\ [][Next]_vars
=============================================================================
