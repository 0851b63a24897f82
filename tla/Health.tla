------------------------------- MODULE Health -------------------------------
(***************************************************************************)
(* The health record that AutoPilot keeps of an upstream (src/autopilot.rs,*)
(* UpstreamMetrics).  Every exchange of a query and every probe ends with  *)
(* a call of record_probe, on relaxed atomics, so that two calls interleave*)
(* at each access; Availability has what is_available reads.               *)
(*                                                                         *)
(* Latencies, scores and histories only order a ranking: left out.  Of the *)
(* instant at which the upstream turned unhealthy, what counts is whether  *)
(* there is one and whether the cooldown has passed since.                 *)
(***************************************************************************)
EXTENDS Naturals, Availability

CONSTANTS
    Threshold,   \* failure_threshold_for_label
    MaxFailures  \* bounds the count of failures: at it, no further one is recorded

VARIABLE failures  \* consecutive_failures

healthVars == <<healthy, failures, lastUnhealthy, record>>

Steps == {"reset", "load", "store", "count", "swap", "note"}

\* Type invariant.
HealthTypeOK ==
    /\ healthy \in BOOLEAN
    /\ failures \in 0 .. MaxFailures
    /\ lastUnhealthy \in {"never", "recent", "past"}
    /\ record \in [Recorders -> SUBSET Steps]

Init ==
    /\ healthy = TRUE
    /\ failures = 0
    /\ lastUnhealthy = "never"
    /\ record = [r \in Recorders |-> {}]

-----------------------------------------------------------------------------
(* record_probe.                                                           *)

\* An exchange or a probe has succeeded, or failed.
Begin(r) ==
    /\ record[r] = {}
    /\ \E todo \in {{"reset", "load"}, {"count"}} : record' = [record EXCEPT ![r] = todo]
    /\ UNCHANGED <<healthy, failures, lastUnhealthy>>

Does(r, step, then) ==
    /\ step \in record[r]
    /\ record' = [record EXCEPT ![r] = (@ \ {step}) \cup then]

\* A success resets the count, and marks the upstream healthy if it reads that it is
\* not; nothing orders the accesses to the two.
Reset(r) ==
    /\ Does(r, "reset", {})
    /\ failures' = 0
    /\ UNCHANGED <<healthy, lastUnhealthy>>

Load(r) ==
    /\ Does(r, "load", IF healthy THEN {} ELSE {"store"})
    /\ UNCHANGED <<healthy, failures, lastUnhealthy>>

Store(r) ==
    /\ Does(r, "store", {})
    /\ healthy' = TRUE
    /\ UNCHANGED <<failures, lastUnhealthy>>

Count(r) ==
    /\ failures < MaxFailures
    /\ failures' = failures + 1
    /\ Does(r, "count", IF failures' >= Threshold THEN {"swap"} ELSE {})
    /\ UNCHANGED <<healthy, lastUnhealthy>>

\* Mutant of Swap: only the failure that reaches the threshold is to note the time.
SwapAtThreshold(r) ==
    /\ Does(r, "swap", IF healthy /\ failures = Threshold THEN {"note"} ELSE {})
    /\ healthy' = FALSE
    /\ UNCHANGED <<failures, lastUnhealthy>>

\* At the threshold the upstream is marked unhealthy; whoever changes the flag is to
\* note the time, in a step of its own.
Swap(r) ==
    /\ Does(r, "swap", IF healthy THEN {"note"} ELSE {})
    /\ healthy' = FALSE
    /\ UNCHANGED <<failures, lastUnhealthy>>

\* The time at which the call began.
Note(r) ==
    /\ Does(r, "note", {})
    /\ lastUnhealthy' = "recent"
    /\ UNCHANGED <<healthy, failures>>

Record(r) ==
    \/ Begin(r) \/ Reset(r) \/ Load(r) \/ Store(r)
    \/ Count(r) \/ Swap(r) \/ Note(r)

-----------------------------------------------------------------------------
\* The cooldown passes.
Pass ==
    /\ lastUnhealthy = "recent"
    /\ lastUnhealthy' = "past"
    /\ UNCHANGED <<healthy, failures, record>>

Next == Pass \/ \E r \in Recorders : Record(r)

Spec == Init /\ [][Next]_healthVars
=============================================================================
