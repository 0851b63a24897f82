--------------------------- MODULE FallbackProofs ---------------------------
(***************************************************************************)
(* Proofs about Fallback: what its query may end with, for each setting of *)
(* always_standby and every kind of plugin in either role.                 *)
(***************************************************************************)
EXTENDS Fallback, TLAPS

\* A query starts with nothing decided.
LEMMA InvInit == Init => IInv
BY DEF Init, IInv, TypeOK, Progress, Remembered, ErrorMeansBothFailed, SecondaryIsSecond,
       SecondaryOnDemand, PanicNeedsFailedSecondary, Roles, Kinds, Outcomes, OutcomesOf,
       Selects, Succeeds, Failed

\* A run ends, or the timer fires, while the handler waits.
LEMMA InvWait ==
    ASSUME IInv, (\E r \in Roles : Finish(r)) \/ Elapse
    PROVE  IInv'
<1> USE DEF IInv, Roles, Selects, Outcomes, OutcomesOf, Succeeds, Failed
<1>1. ASSUME NEW r \in Roles, Finish(r) PROVE IInv'
  <2>1. PICK outcome \in OutcomesOf(kind[r]) : run' = [run EXCEPT ![r] = outcome]
    BY <1>1 DEF Finish
  <2>2. run[r] = "running" /\ pc \in Selects
        /\ UNCHANGED <<standby, kind, polled, elapsed, cached, allow, pc, result>>
    BY <1>1 DEF Finish
  <2>3. r \notin polled
    BY <2>2 DEF TypeOK
  <2>4. TypeOK'
    BY <2>1, <2>2, <2>3 DEF TypeOK, Kinds
  <2>5. \A s \in Roles \ {r} : run'[s] = run[s]
    BY <2>1 DEF TypeOK
  <2>6. Progress'
    BY <2>1, <2>2, <2>3, <2>5 DEF Progress, TypeOK
  <2>7. Remembered'
    BY <2>2, <2>3, <2>5 DEF Remembered
  <2>8. (ErrorMeansBothFailed /\ SecondaryIsSecond /\ PanicNeedsFailedSecondary)'
    BY <2>2 DEF Progress, ErrorMeansBothFailed, SecondaryIsSecond, PanicNeedsFailedSecondary
  <2>9. SecondaryOnDemand'
    BY <2>2, <2>5 DEF SecondaryOnDemand
  <2> QED
    BY <2>4, <2>6, <2>7, <2>8, <2>9
<1>2. CASE Elapse
  BY <1>2 DEF Elapse, TypeOK, Progress, Remembered, ErrorMeansBothFailed, SecondaryIsSecond,
              SecondaryOnDemand, PanicNeedsFailedSecondary
<1> QED
  BY <1>1, <1>2

\* The polls without always_standby.
LEMMA InvSelect ==
    ASSUME IInv, FirstPrimary \/ FirstDelay \/ Alone \/ (\E r \in Roles : Both(r))
    PROVE  IInv'
<1> USE DEF IInv, Roles, Selects, Outcomes, OutcomesOf, Succeeds, Failed, Ready, TypeOK,
            Progress, Remembered, ErrorMeansBothFailed, SecondaryIsSecond,
            SecondaryOnDemand, PanicNeedsFailedSecondary, StartSecondary, Return, GoOn
<1>1. CASE FirstPrimary
  BY <1>1 DEF FirstPrimary
<1>2. CASE FirstDelay
  BY <1>2 DEF FirstDelay
<1>3. CASE Alone
  BY <1>3 DEF Alone
<1>4. ASSUME NEW r \in Roles, Both(r) PROVE IInv'
  BY <1>4 DEF Both
<1> QED
  BY <1>1, <1>2, <1>3, <1>4

\* The polls of always_standby.
LEMMA InvStandby ==
    ASSUME IInv, StandbyPrimary \/ StandbySecondary \/ StandbyPanics \/ StandbyDelay
    PROVE  IInv'
<1> USE DEF IInv, Roles, Selects, Outcomes, OutcomesOf, Succeeds, Failed, Ready, TypeOK,
            Progress, Remembered, ErrorMeansBothFailed, SecondaryIsSecond,
            SecondaryOnDemand, PanicNeedsFailedSecondary, Return, GoOn, NextRound, TakeCached
<1>1. CASE StandbyPrimary
  BY <1>1 DEF StandbyPrimary
<1>2. CASE StandbySecondary
  BY <1>2 DEF StandbySecondary
<1>3. CASE StandbyPanics
  BY <1>3 DEF StandbyPanics
<1>4. CASE StandbyDelay
  BY <1>4 DEF StandbyDelay
<1> QED
  BY <1>1, <1>2, <1>3, <1>4

\* The inductive invariant holds throughout.
LEMMA InvHolds == Spec => []IInv
<1>1. IInv /\ [Next]_vars => IInv'
  <2> SUFFICES ASSUME IInv, [Next]_vars PROVE IInv'
    OBVIOUS
  <2>1. CASE UNCHANGED vars
    BY <2>1 DEF vars, IInv, TypeOK, Progress, Remembered, ErrorMeansBothFailed,
                SecondaryIsSecond, SecondaryOnDemand, PanicNeedsFailedSecondary, Failed
  <2>2. CASE Next
    BY <2>2, InvWait, InvSelect, InvStandby DEF Next, Poll
  <2> QED
    BY <2>1, <2>2
<1> QED
  BY <1>1, InvInit, PTL DEF Spec

\* Every variable keeps its shape, and only a forward plugin makes up SERVFAIL.
THEOREM TypeCorrect == Spec => []TypeOK
BY InvHolds, PTL DEF IInv

\* "Both upstreams failed" is never said of a query that one of them answered.
THEOREM ErrorsAreTrue == Spec => []ErrorMeansBothFailed
BY InvHolds, PTL DEF IInv

\* The secondary's response is applied only after the primary failed or the
\* threshold passed, in standby too.
THEOREM SecondaryComesSecond == Spec => []SecondaryIsSecond
BY InvHolds, PTL DEF IInv

\* Without standby the secondary is not asked before that.
THEOREM SecondaryIsOnDemand == Spec => []SecondaryOnDemand
BY InvHolds, PTL DEF IInv

\* A panic takes always_standby and a secondary that failed.
THEOREM PanicsOnlyInStandby == Spec => []PanicNeedsFailedSecondary
BY InvHolds, PTL DEF IInv
=============================================================================
