------------------------------ MODULE Fallback ------------------------------
(***************************************************************************)
(* One query in FallbackPlugin::handle_fallback (src/plugins/fallback.rs): *)
(* two plugins, each run on a clone of the query's context under a timeout *)
(* of 5 seconds, a threshold, and the select! loops that poll the two runs *)
(* and the timer.                                                          *)
(*                                                                         *)
(* The runs end and the timer fires while the handler is suspended; when   *)
(* it is polled, select! starts at a random branch, so that any branch     *)
(* that is enabled and can complete may be the one that is taken.  A       *)
(* branch whose future has completed before panics when it is polled.      *)
(***************************************************************************)
EXTENDS Naturals

Roles == {"primary", "secondary"}
Kinds == {"forward", "other"}

\* How a run ends: an upstream's answer; the SERVFAIL that a forward plugin sets
\* as its response when no upstream answered; or no response (an error, none
\* set, or 5 seconds over).
OutcomesOf(kind) ==
    {"answer", "nothing"} \cup IF kind = "forward" THEN {"servfail"} ELSE {}

Outcomes == {"answer", "servfail", "nothing"}

\* ctx_has_response
Succeeds(outcome) == outcome # "nothing"

VARIABLES
    standby,    \* always_standby
    kind,       \* [Roles -> Kinds]: what plugin plays the role
    run,        \* [Roles -> "idle", "running" or how the run ended]
    polled,     \* the roles whose future has completed
    elapsed,    \* the timer of the threshold has fired
    cached,     \* secondary_cached: "empty" (None), "failed" (Some(None)), "held"
    allow,      \* allow_secondary
    pc,         \* where handle_fallback is
    result      \* whose context was applied, or "error", or "none" as yet

vars == <<standby, kind, run, polled, elapsed, cached, allow, pc, result>>

\* "first": the primary or the timer.   "alone": the secondary after a failure.
\* "both": the two.                     "standby": the loop of always_standby.
Selects == {"first", "alone", "both", "standby"}

\* Type invariant: only a forward plugin makes up SERVFAIL, and only a run that
\* has ended was polled to its end.
TypeOK ==
    /\ standby \in BOOLEAN
    /\ kind \in [Roles -> Kinds]
    /\ run \in [Roles -> {"idle", "running"} \cup Outcomes]
    /\ \A r \in Roles : run[r] \in {"idle", "running"} \cup OutcomesOf(kind[r])
    /\ polled \in SUBSET Roles
    /\ \A r \in polled : run[r] \in Outcomes
    /\ elapsed \in BOOLEAN
    /\ cached \in {"empty", "failed", "held"}
    /\ allow \in BOOLEAN
    /\ pc \in Selects \cup {"done", "panicked"}
    /\ result \in Roles \cup {"error", "none"}

-----------------------------------------------------------------------------

Init ==
    /\ standby \in BOOLEAN
    /\ kind \in [Roles -> Kinds]
    /\ run = [r \in Roles |-> IF r = "primary" \/ standby THEN "running" ELSE "idle"]
    /\ polled = {}
    /\ elapsed = FALSE
    /\ cached = "empty"
    /\ allow = FALSE
    /\ pc = IF standby THEN "standby" ELSE "first"
    /\ result = "none"

\* Mutant of Finish: any plugin turns its failure into a response.
FinishAnyhow(r) ==
    /\ pc \in Selects
    /\ run[r] = "running"
    /\ \E outcome \in Outcomes : run' = [run EXCEPT ![r] = outcome]
    /\ UNCHANGED <<standby, kind, polled, elapsed, cached, allow, pc, result>>

\* The plugin's handle returns, or its 5 seconds are over.
Finish(r) ==
    /\ pc \in Selects
    /\ run[r] = "running"
    /\ \E outcome \in OutcomesOf(kind[r]) : run' = [run EXCEPT ![r] = outcome]
    /\ UNCHANGED <<standby, kind, polled, elapsed, cached, allow, pc, result>>

\* tokio::time::sleep(threshold)
Elapse ==
    /\ pc \in Selects
    /\ ~elapsed
    /\ elapsed' = TRUE
    /\ UNCHANGED <<standby, kind, run, polled, cached, allow, pc, result>>

-----------------------------------------------------------------------------
(* Steps shared by the polls.                                              *)

Ready(r) == run[r] \in Outcomes /\ r \notin polled

StartSecondary == run' = [run EXCEPT !["secondary"] = "running"]

\* apply_ctx and return Ok, or return Err("Both upstreams failed").
Return(r) == pc' = "done" /\ result' = r
GoOn(where) == pc' = where /\ UNCHANGED result

-----------------------------------------------------------------------------
(* always_standby = false.                                                 *)

FirstPrimary ==
    /\ pc = "first" /\ Ready("primary")
    /\ polled' = polled \cup {"primary"}
    /\ \/ Succeeds(run["primary"]) /\ Return("primary") /\ UNCHANGED run
       \/ ~Succeeds(run["primary"]) /\ StartSecondary /\ GoOn("alone")
    /\ UNCHANGED <<standby, kind, elapsed, cached, allow>>

\* Mutant of FirstDelay: the secondary does not wait for the timer.
FirstAtOnce ==
    /\ pc = "first"
    /\ StartSecondary
    /\ GoOn("both")
    /\ UNCHANGED <<standby, kind, polled, elapsed, cached, allow>>

FirstDelay ==
    /\ pc = "first" /\ elapsed
    /\ StartSecondary
    /\ GoOn("both")
    /\ UNCHANGED <<standby, kind, polled, elapsed, cached, allow>>

\* Mutant of Alone: a failure is not looked at.
AloneForSuccess ==
    /\ pc = "alone" /\ Ready("secondary") /\ Succeeds(run["secondary"])
    /\ polled' = polled \cup {"secondary"}
    /\ Return("secondary")
    /\ UNCHANGED <<standby, kind, run, elapsed, cached, allow>>

Alone ==
    /\ pc = "alone" /\ Ready("secondary")
    /\ polled' = polled \cup {"secondary"}
    /\ Return(IF Succeeds(run["secondary"]) THEN "secondary" ELSE "error")
    /\ UNCHANGED <<standby, kind, run, elapsed, cached, allow>>

\* Mutant of Both: the loop ends with the first run that fails.
BothImpatient(r) ==
    /\ pc = "both" /\ Ready(r)
    /\ polled' = polled \cup {r}
    /\ Return(IF Succeeds(run[r]) THEN r ELSE "error")
    /\ UNCHANGED <<standby, kind, run, elapsed, cached, allow>>

Both(r) ==
    /\ pc = "both" /\ Ready(r)
    /\ polled' = polled \cup {r}
    /\ \/ Succeeds(run[r]) /\ Return(r)
       \/ ~Succeeds(run[r]) /\ polled' = Roles /\ Return("error")
       \/ ~Succeeds(run[r]) /\ polled' # Roles /\ GoOn("both")
    /\ UNCHANGED <<standby, kind, run, elapsed, cached, allow>>

-----------------------------------------------------------------------------
(* always_standby = true.                                                  *)

\* The bottom of the loop: secondary_done is read off secondary_cached.
NextRound ==
    IF "primary" \in polled' /\ cached' # "empty" /\ allow'
    THEN Return("error")
    ELSE GoOn("standby")

\* Mutant of TakeCached: what was held is forgotten, as a failure is.
ForgetCached == cached' = "empty" /\ NextRound

\* secondary_cached.take(): what was held is applied; a failure is forgotten.
TakeCached ==
    /\ cached' = "empty"
    /\ IF cached = "held" THEN Return("secondary") ELSE NextRound

StandbyPrimary ==
    /\ pc = "standby" /\ Ready("primary")
    /\ polled' = polled \cup {"primary"}
    /\ \/ Succeeds(run["primary"]) /\ Return("primary") /\ UNCHANGED <<cached, allow>>
       \/ ~Succeeds(run["primary"]) /\ allow' = TRUE /\ TakeCached
    /\ UNCHANGED <<standby, kind, run, elapsed>>

\* Mutant of StandbySecondary: the secondary is used as soon as it answers.
StandbyAtOnce ==
    /\ pc = "standby" /\ cached = "empty" /\ Ready("secondary")
    /\ polled' = polled \cup {"secondary"}
    /\ UNCHANGED <<standby, kind, run, elapsed, allow>>
    /\ \/ Succeeds(run["secondary"]) /\ Return("secondary") /\ UNCHANGED cached
       \/ ~Succeeds(run["secondary"]) /\ cached' = "failed" /\ NextRound

StandbySecondary ==
    /\ pc = "standby" /\ cached = "empty" /\ Ready("secondary")
    /\ polled' = polled \cup {"secondary"}
    /\ UNCHANGED <<standby, kind, run, elapsed, allow>>
    /\ \/ Succeeds(run["secondary"]) /\ allow /\ Return("secondary") /\ UNCHANGED cached
       \/ Succeeds(run["secondary"]) /\ ~allow /\ cached' = "held" /\ NextRound
       \/ /\ ~Succeeds(run["secondary"])
          /\ cached' = IF allow THEN "empty" ELSE "failed"
          /\ NextRound

\* The branch is enabled by secondary_cached.is_none() alone, which a forgotten
\* failure makes true again: the future that has completed is polled.
StandbyPanics ==
    /\ pc = "standby" /\ cached = "empty" /\ "secondary" \in polled
    /\ pc' = "panicked"
    /\ UNCHANGED <<standby, kind, run, polled, elapsed, cached, allow, result>>

StandbyDelay ==
    /\ pc = "standby" /\ elapsed /\ ~allow
    /\ allow' = TRUE
    /\ UNCHANGED polled
    /\ TakeCached
    /\ UNCHANGED <<standby, kind, run, elapsed>>

-----------------------------------------------------------------------------

Poll ==
    \/ FirstPrimary
    \/ FirstDelay
    \/ Alone
    \/ \E r \in Roles : Both(r)
    \/ StandbyPrimary
    \/ StandbySecondary
    \/ StandbyPanics
    \/ StandbyDelay

Next ==
    \/ \E r \in Roles : Finish(r)
    \/ Elapse
    \/ Poll

\* Timers fire, and timeout() ends what does not end by itself; a task that can
\* go on is polled.
Fairness ==
    /\ \A r \in Roles : WF_vars(Finish(r))
    /\ WF_vars(Elapse)
    /\ WF_vars(Poll)

Spec == Init /\ [][Next]_vars
FairSpec == Spec /\ Fairness

-----------------------------------------------------------------------------
(* Safety.                                                                 *)

Failed(r) == run[r] = "nothing"

\* "Both upstreams failed" is said only when both were run and neither has a
\* response: a success that comes late, or in the other order, is never lost.
ErrorMeansBothFailed == result = "error" => \A r \in Roles : Failed(r)

\* "Secondary starts after threshold or when primary fails", and in standby it is
\* "only used on failure/timeout": never is its response applied before.
SecondaryIsSecond ==
    result = "secondary" => Succeeds(run["secondary"]) /\ (elapsed \/ Failed("primary"))

\* Without always_standby the second upstream is not even asked before that.
SecondaryOnDemand ==
    ~standby /\ run["secondary"] # "idle" => elapsed \/ Failed("primary")

\* The handler panics only in standby, after its secondary failed: with another
\* setting, or with a secondary that responds, a query never ends so.
PanicNeedsFailedSecondary ==
    pc = "panicked" => standby /\ Failed("secondary")

\* Where the handler is tells what has ended, and how.
Progress ==
    /\ pc \in Selects => result = "none"
    /\ pc \in {"first", "alone", "both"} => ~standby
    /\ pc = "first" => polled = {} /\ run["secondary"] = "idle"
    /\ pc = "alone" => polled = {"primary"} /\ Failed("primary")
    /\ pc = "both" => elapsed /\ \A r \in polled : Failed(r)

\* In standby, what the loop remembers of the runs.  A failure that allow_secondary
\* has let it forget leaves a completed future behind an enabled branch.
Remembered ==
    pc = "standby" =>
        /\ standby
        /\ "primary" \in polled => Failed("primary")
        /\ allow => elapsed \/ Failed("primary")
        /\ cached = "held" => Succeeds(run["secondary"]) /\ "secondary" \in polled
        /\ cached # "held" /\ "secondary" \in polled => Failed("secondary")
        /\ allow => cached = "empty"

\* The inductive invariant.
IInv ==
    /\ TypeOK
    /\ Progress
    /\ Remembered
    /\ ErrorMeansBothFailed
    /\ SecondaryIsSecond
    /\ SecondaryOnDemand
    /\ PanicNeedsFailedSecondary

-----------------------------------------------------------------------------
(* What the comments say and the code does not do.                         *)

\* "When always_standby=true, secondary runs immediately but only used on
\* failure/timeout", and the loop's own way out is "Both upstreams failed": the
\* failure of a secondary ends no query by a panic.
HandlerSurvives == pc # "panicked"

\* "FallbackPlugin provides automatic failover from primary to secondary
\* upstream": a response of the primary that ends the query is an answer, not the
\* SERVFAIL its forward plugin sets after its upstreams failed.
FailsOver == result = "primary" => run["primary"] = "answer"

-----------------------------------------------------------------------------
(* Liveness.                                                               *)

\* Every query ends: with a response, with the error, or with the panic.
QueryEnds == <>(pc \notin Selects)
=============================================================================
