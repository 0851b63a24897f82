----------------------------- MODULE MCLearning -----------------------------
(***************************************************************************)
(* Four components that share no state, checked side by side: in each      *)
(* behaviour one of them moves, and the others stay as they are built.     *)
(***************************************************************************)
EXTENDS SmartForward, Recommendation, Availability

CONSTANTS
    Callers, Batch, MaxReports,                        \* Learning
    Threshold, MaxFailures,                            \* Health
    Handlers, MaxQueries, Window, Lag, EndOfTime, None \* RateLimit

VARIABLES
    part,
    updates, buffer, draining, applier, snapshot,
    failures,
    time, limits, asked, sweeping, admitted

learnVars == <<memory, updates, buffer, draining, applier, snapshot, reported>>
healthVars == <<healthy, failures, lastUnhealthy, record>>
limitVars == <<time, limits, asked, sweeping, admitted>>
allVars == <<vars, part, learnVars, healthVars, limitVars>>

ASSUME LearningAssumption ==
    Needed \in Nat \ {0} /\ Batch \in Nat \ {0} /\ MaxReports \in Nat

ASSUME HealthAssumption == MaxFailures \in Nat

ASSUME LimiterAssumption ==
    MaxQueries \in Nat \ {0} /\ Window \in Nat /\ Lag \in Nat /\ EndOfTime \in Nat

Memory == INSTANCE Learning WITH channel <- updates, file <- snapshot
Metrics == INSTANCE Health
Limiter == INSTANCE RateLimit

AllInit ==
    /\ part \in {"routing", "learning", "health", "limits"}
    /\ Init
    /\ guarded \/ prefer => part = "routing"
    /\ Memory!Init /\ Metrics!Init /\ Limiter!Init

RoutingMoves ==
    /\ part = "routing" /\ Next
    /\ UNCHANGED <<part, learnVars, healthVars, limitVars>>

LearningMoves ==
    /\ part = "learning" /\ Memory!Next
    /\ UNCHANGED <<vars, part, healthVars, limitVars>>

HealthMoves ==
    /\ part = "health" /\ Metrics!Next
    /\ UNCHANGED <<vars, part, learnVars, limitVars>>

LimitsMove ==
    /\ part = "limits" /\ Limiter!Next
    /\ UNCHANGED <<vars, part, learnVars, healthVars>>

AllNext == RoutingMoves \/ LearningMoves \/ HealthMoves \/ LimitsMove

AllSpec == AllInit /\ [][AllNext]_allVars

-----------------------------------------------------------------------------
\* The type invariants of the four (smart_forward.rs, autopilot.rs, ratelimit.rs).
PartsTypeOK ==
    /\ SmartForwardTypeOK
    /\ Memory!LearningTypeOK
    /\ Metrics!HealthTypeOK
    /\ Limiter!RateLimitTypeOK

\* RateLimit: at most two windows' worth of queries in the length of one.
LimitHolds == Limiter!LimitHolds
=============================================================================
