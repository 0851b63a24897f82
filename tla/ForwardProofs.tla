--------------------------- MODULE ForwardProofs ---------------------------
(***************************************************************************)
(* What Forward promises, for any number of queries, upstreams and         *)
(* permits.  A step is a step of one query, whose part of the invariant is *)
(* Local; to another query it does at most one thing, to hand it a permit  *)
(* (Untouched).                                                            *)
(***************************************************************************)
EXTENDS Forward, FiniteSetTheorems, TLAPS

Local(q) ==
    /\ strategy = "order" => stage[q] \notin {"memory", "single", "race"}
    /\ stage[q] \in {"new", "waiting", "granted", "refused"} => Fresh(q)
    /\ stage[q] \in Inline => AwaitsOne(q)
    /\ stage[q] = "race" => AwaitsRace(q)
    /\ stage[q] = "answered" => IsBest(q)
    /\ stage[q] = "failed" => AllFailed(q)
    /\ \A s \in Slots :
          /\ blamed[q][s] =
                IF ex[q][s] = "error" \/ (ex[q][s] = "timeout" /\ s \in seen[q]) THEN 1 ELSE 0
          /\ ex[q][s] = "running" => stage[q] \in Holding \cup {"dropped"}

\* What a step of query q does to the others.
Untouched(q) ==
    /\ strategy' = strategy
    /\ \A r \in Queries \ {q} :
          /\ <<at[r], ex[r], seen[r], best[r], blamed[r]>>'
                = <<at[r], ex[r], seen[r], best[r], blamed[r]>>
          /\ stage'[r] = stage[r] \/ (stage[r] = "waiting" /\ stage'[r] = "granted")

LEMMA InvariantIsLocal ==
    IInv <=> TypeOK /\ PermitsConserved /\ \A q \in Queries : Local(q)
BY DEF IInv, Progress, BestWins, FailsOnlyAtLast, BlameIsTrue, StraysAreDropped, Local

-----------------------------------------------------------------------------
(* The permits.                                                            *)

\* A query leaves with its permit, which is passed on or freed.
LEMMA LeaveKeepsPermits ==
    ASSUME TypeOK, PermitsConserved,
           NEW q \in Queries, stage[q] \in Holding,
           NEW end \in Ended, Leave(q, end)
    PROVE  /\ PermitsConserved'
           /\ free' \in 0 .. Permits
           /\ stage'[q] = end
           /\ stage' \in [Queries -> {"new", "waiting"} \cup Holding \cup Ended]
           /\ \A r \in Queries \ {q} :
                 stage'[r] = stage[r] \/ (stage[r] = "waiting" /\ stage'[r] = "granted")
<1> USE DEF TypeOK, PermitsConserved, Holders, Waiting, Holding, Ended, Inline
<1>1. IsFiniteSet(Holders) /\ Cardinality(Holders) \in Nat
  BY QueriesAssumption, FS_Subset, FS_CardinalityType
<1>2. IsFiniteSet(Holders \ {q}) /\ Cardinality(Holders \ {q}) = Cardinality(Holders) - 1
  BY <1>1, FS_RemoveElement
<1>3. Permits \in Nat /\ free \in Nat
  BY SizesAssumption
<1>4. CASE Waiting = {} /\ free' = free + 1 /\ stage' = [stage EXCEPT ![q] = end]
  <2>1. Holders' = Holders \ {q}
    BY <1>4
  <2>2. Waiting' = {}
    BY <1>4
  <2>3. free' + Cardinality(Holders') = Permits /\ free' \in 0 .. Permits
    <3>1. Cardinality(Holders') = Cardinality(Holders) - 1 /\ Cardinality(Holders') \in Nat
      BY <1>2, <2>1, FS_CardinalityType
    <3> QED  BY <1>1, <1>3, <1>4, <3>1
  <2> QED  BY <1>4, <2>2, <2>3
<1>5. ASSUME NEW p \in Waiting,
             stage' = [stage EXCEPT ![q] = end, ![p] = "granted"],
             UNCHANGED free
      PROVE  /\ PermitsConserved'
             /\ free' \in 0 .. Permits
             /\ stage'[q] = end
             /\ stage' \in [Queries -> {"new", "waiting"} \cup Holding \cup Ended]
             /\ \A r \in Queries \ {q} :
                   stage'[r] = stage[r] \/ (stage[r] = "waiting" /\ stage'[r] = "granted")
  <2>1. p \in Queries /\ p # q /\ p \notin Holders
    BY <1>5
  <2>2. Holders' = (Holders \ {q}) \cup {p}
    BY <1>5, <2>1
  <2>3. Cardinality(Holders') = Cardinality(Holders)
    <3>1. Cardinality((Holders \ {q}) \cup {p}) = Cardinality(Holders \ {q}) + 1
      <4> HIDE DEF Holders
      <4> QED  BY <1>2, <2>1, FS_AddElement
    <3> HIDE DEF Holders
    <3> QED  BY <1>1, <1>2, <2>2, <3>1
  <2>4. ~(free > 0)
    BY <1>5
  <2> QED  BY <1>5, <2>1, <2>3, <2>4
<1> QED  BY <1>4, <1>5 DEF Leave

LEMMA GoOnKeepsPermits ==
    ASSUME TypeOK, PermitsConserved,
           NEW q \in Queries, stage[q] \in Holding,
           NEW where \in Holding, GoOn(q, where)
    PROVE  /\ PermitsConserved'
           /\ free' \in 0 .. Permits
           /\ stage'[q] = where
           /\ stage' \in [Queries -> {"new", "waiting"} \cup Holding \cup Ended]
           /\ \A r \in Queries \ {q} : stage'[r] = stage[r]
<1>1. Holders' = Holders /\ Waiting' = Waiting
  BY DEF TypeOK, GoOn, Holders, Waiting, Holding, Inline
<1> QED  BY <1>1 DEF TypeOK, GoOn, PermitsConserved

-----------------------------------------------------------------------------
(* What a step does to its own query.                                      *)

StepOf(q) == TypeOK' /\ PermitsConserved' /\ Local(q)' /\ Untouched(q)

\* The handler's own variables after a step of q, e being what ex[q] was when it
\* decided how to go on: no response so far, and the failures are on record.
Fits(q, e) ==
    /\ strategy' = strategy
    /\ seen' \in [Queries -> SUBSET Slots]
    /\ best' \in [Queries -> Slots]
    /\ backup' \in [Queries -> BOOLEAN]
    /\ blamed' \in [Queries -> [Slots -> Nat]]
    /\ \A r \in Queries \ {q} :
          seen'[r] = seen[r] /\ best'[r] = best[r] /\ blamed'[r] = blamed[r]
    /\ e \in [Slots -> Failures \cup {"none"}]
    /\ best'[q] = Memory
    /\ \A s \in Slots : s \in seen'[q] => e[s] \in Failures
    /\ \A s \in Slots :
          blamed'[q][s] =
              IF e[s] = "error" \/ (e[s] = "timeout" /\ s \in seen'[q]) THEN 1 ELSE 0

WellStarted(q, S, e) ==
    /\ ex' \in [Queries -> [Slots -> {"none", "running", "aborted"} \cup Outcomes]]
    /\ \A r \in Queries : \A s \in seen'[r] : ex'[r][s] \in Outcomes
    /\ \A s \in Slots : ex'[q][s] = IF s \in S THEN "running" ELSE e[s]
    /\ \A r \in Queries \ {q} : ex'[r] = ex[r]

LEMMA StartTypes ==
    ASSUME TypeOK, NEW q \in Queries, NEW S \in SUBSET Slots, NEW e, Fits(q, e),
           \A s \in S : e[s] = "none",
           Starts(q, S, e)
    PROVE  WellStarted(q, S, e)
<1> USE DEF TypeOK, Starts, Started, Outcomes, Failures, Responses
<1>1. \A s \in Slots : Started(e, S)[s] \in {"none", "running", "aborted"} \cup Outcomes
  BY DEF Fits
<1>2. Started(e, S) \in [Slots -> {"none", "running", "aborted"} \cup Outcomes]
  BY <1>1
<1>3. ex'[q] = Started(e, S) /\ \A r \in Queries \ {q} : ex'[r] = ex[r]
  OBVIOUS
<1>4. \A s \in seen'[q] : ex'[q][s] \in Outcomes
  BY <1>3 DEF Fits
<1>5. \A r \in Queries \ {q} : \A s \in seen'[r] : ex'[r][s] \in Outcomes
  BY <1>3 DEF Fits
<1> QED  BY <1>1, <1>2, <1>3, <1>4, <1>5 DEF WellStarted

\* The handler gives up.
LEMMA FailStep ==
    ASSUME TypeOK, PermitsConserved, NEW q \in Queries, stage[q] \in Holding,
           NEW e, Fits(q, e), Leave(q, "failed"),
           strategy = "order" => \A u \in Upstreams : e[u] # "none",
           ex' = [ex EXCEPT ![q] = e], at' = at
    PROVE  StepOf(q)
<1>1. e = Started(e, {})
  BY DEF Fits, Started
<1>2. ex' = [ex EXCEPT ![q] = Started(e, {})]
  BY <1>1
<1>3. /\ ex' \in [Queries -> [Slots -> {"none", "running", "aborted"} \cup Outcomes]]
      /\ \A r \in Queries : \A s \in seen'[r] : ex'[r][s] \in Outcomes
      /\ \A s \in Slots : ex'[q][s] = e[s]
      /\ \A r \in Queries \ {q} : ex'[r] = ex[r]
  <2> DEFINE S == {}
  <2>1. S \in SUBSET Slots /\ \A s \in S : e[s] = "none"
    OBVIOUS
  <2>2. \A s \in Slots : s \notin S
    OBVIOUS
  <2>3. Starts(q, S, e)
    BY <1>2 DEF Starts
  <2> HIDE DEF S
  <2>4. WellStarted(q, S, e)
    BY <2>1, <2>3, StartTypes
  <2> QED  BY <2>2, <2>4 DEF WellStarted
<1>4. /\ PermitsConserved'
      /\ free' \in 0 .. Permits
      /\ stage'[q] = "failed"
      /\ stage' \in [Queries -> {"new", "waiting"} \cup Holding \cup Ended]
      /\ \A r \in Queries \ {q} :
            stage'[r] = stage[r] \/ (stage[r] = "waiting" /\ stage'[r] = "granted")
  BY LeaveKeepsPermits DEF Ended
<1>5. TypeOK'
  BY <1>3, <1>4 DEF TypeOK, Fits
<1>6. Local(q)'
  <2>1. AllFailed(q)'
    BY <1>3 DEF AllFailed, Fits, Upstreams, Slots
  <2>2. \A s \in Slots : ex'[q][s] # "running"
    BY <1>3 DEF Fits, Failures
  <2>3. \A s \in Slots :
            blamed'[q][s] =
                IF ex'[q][s] = "error" \/ (ex'[q][s] = "timeout" /\ s \in seen'[q])
                THEN 1 ELSE 0
    BY <1>3 DEF Fits
  <2> QED  BY <1>4, <2>1, <2>2, <2>3 DEF Local, Inline, Fits
<1> QED  BY <1>3, <1>4, <1>5, <1>6 DEF StepOf, Untouched, Fits

\* The handler awaits one more exchange, with upstream or slot t.
LEMMA OneMoreStep ==
    ASSUME TypeOK, PermitsConserved, NEW q \in Queries, stage[q] \in Holding,
           NEW e, Fits(q, e), NEW where \in Inline, GoOn(q, where),
           NEW t \in Slots, e[t] = "none",
           strategy = "order" => where = "order",
           where = "memory" => t = Memory /\ \A u \in Upstreams : e[u] = "none",
           where = "order" => {u \in Upstreams \ {t} : e[u] = "none"} = Later(t),
           Starts(q, {t}, e), at' = [at EXCEPT ![q] = t]
    PROVE  StepOf(q)
<1>1. /\ ex' \in [Queries -> [Slots -> {"none", "running", "aborted"} \cup Outcomes]]
      /\ \A r \in Queries : \A s \in seen'[r] : ex'[r][s] \in Outcomes
      /\ \A s \in Slots : ex'[q][s] = IF s = t THEN "running" ELSE e[s]
      /\ \A r \in Queries \ {q} : ex'[r] = ex[r]
  <2> DEFINE S == {t}
  <2>1. S \in SUBSET Slots /\ \A s \in S : e[s] = "none"
    OBVIOUS
  <2>2. \A s \in Slots : s \in S <=> s = t
    OBVIOUS
  <2>3. Starts(q, S, e)
    OBVIOUS
  <2> HIDE DEF S
  <2>4. WellStarted(q, S, e)
    BY <2>1, <2>3, StartTypes
  <2> QED  BY <2>2, <2>4 DEF WellStarted
<1>2. /\ PermitsConserved'
      /\ free' \in 0 .. Permits
      /\ stage'[q] = where
      /\ stage' \in [Queries -> {"new", "waiting"} \cup Holding \cup Ended]
      /\ \A r \in Queries \ {q} : stage'[r] = stage[r]
  BY GoOnKeepsPermits DEF Holding
<1>3. at'[q] = t /\ at' \in [Queries -> Slots] /\ \A r \in Queries \ {q} : at'[r] = at[r]
  BY DEF TypeOK
<1>4. TypeOK'
  BY <1>1, <1>2, <1>3 DEF TypeOK, Fits
<1>5. AwaitsOne(q)'
  <2>1. Upstreams \subseteq Slots /\ Memory \notin Upstreams
    BY DEF Upstreams, Slots, Memory
  <2>2. ex'[q][t] = "running" /\ \A s \in Slots \ {t} : ex'[q][s] = e[s]
    BY <1>1
  <2>3. \A s \in Slots \ {t} : ex'[q][s] \in Failures \cup {"none"}
    BY <2>2 DEF Fits
  <2>4. where = "memory" => \A u \in Upstreams : u # t /\ ex'[q][u] = "none"
    BY <2>1, <2>2
  <2>5. where = "order" => {u \in Upstreams : ex'[q][u] = "none"} = Later(t)
    BY <2>1, <2>2
  <2> QED  BY <1>2, <1>3, <2>2, <2>3, <2>4, <2>5 DEF AwaitsOne, Fits
<1>6. Local(q)'
  <2>1. \A s \in Slots :
            blamed'[q][s] =
                IF ex'[q][s] = "error" \/ (ex'[q][s] = "timeout" /\ s \in seen'[q])
                THEN 1 ELSE 0
    <3>1. ASSUME NEW s \in Slots
          PROVE  (IF ex'[q][s] = "error" \/ (ex'[q][s] = "timeout" /\ s \in seen'[q])
                  THEN 1 ELSE 0)
                 = IF e[s] = "error" \/ (e[s] = "timeout" /\ s \in seen'[q])
                   THEN 1 ELSE 0
      <4>1. CASE s = t
        BY <1>1, <4>1
      <4>2. CASE s # t
        BY <1>1, <4>2
      <4> QED  BY <4>1, <4>2
    <3> QED  BY <3>1 DEF Fits
  <2> QED  BY <1>2, <1>5, <2>1 DEF Local, Inline, Holding, Fits
<1> QED  BY <1>1, <1>2, <1>3, <1>4, <1>6 DEF StepOf, Untouched, Fits

\* The handler starts a race.
LEMMA RaceStep ==
    ASSUME TypeOK, PermitsConserved, NEW q \in Queries, stage[q] \in Holding,
           NEW e, Fits(q, e), strategy # "order",
           NEW S \in SUBSET Upstreams, \A u \in Upstreams : e[u] = "none",
           RaceAll(q, S, e)
    PROVE  StepOf(q)
<1>1. /\ ex' \in [Queries -> [Slots -> {"none", "running", "aborted"} \cup Outcomes]]
      /\ \A r \in Queries : \A s \in seen'[r] : ex'[r][s] \in Outcomes
      /\ \A s \in Slots : ex'[q][s] = IF s \in S THEN "running" ELSE e[s]
      /\ \A r \in Queries \ {q} : ex'[r] = ex[r]
  <2>1. S \in SUBSET Slots /\ \A s \in S : e[s] = "none"
    BY DEF Slots
  <2>2. Starts(q, S, e)
    BY DEF RaceAll
  <2>3. WellStarted(q, S, e)
    BY <2>1, <2>2, StartTypes
  <2> QED  BY <2>3 DEF WellStarted
<1>2. /\ PermitsConserved'
      /\ free' \in 0 .. Permits
      /\ stage'[q] = "race"
      /\ stage' \in [Queries -> {"new", "waiting"} \cup Holding \cup Ended]
      /\ \A r \in Queries \ {q} : stage'[r] = stage[r]
  BY GoOnKeepsPermits DEF Holding, RaceAll
<1>3. TypeOK'
  BY <1>1, <1>2 DEF TypeOK, Fits, RaceAll
<1>4. AwaitsRace(q)'
  <2>1. Memory \in Slots /\ Memory \notin S
    BY DEF Slots, Memory, Upstreams
  <2>2. \A s \in Slots : ex'[q][s] # "aborted"
    BY <1>1 DEF Fits, Failures
  <2>3. ex'[q][Memory] \in Failures \cup {"none"}
    BY <1>1, <2>1 DEF Fits
  <2>4. \A u \in seen'[q] : ex'[q][u] \in Failures
    BY <1>1 DEF Fits, Outcomes, Responses, Failures
  <2> QED  BY <2>2, <2>3, <2>4 DEF AwaitsRace, Fits
<1>5. Local(q)'
  BY <1>1, <1>2, <1>4 DEF Local, Inline, Holding, Fits, Failures
<1> QED  BY <1>1, <1>2, <1>3, <1>5 DEF StepOf, Untouched, Fits, RaceAll

\* "order" goes on after slot s.
LEMMA OrderStep ==
    ASSUME TypeOK, PermitsConserved, NEW q \in Queries, stage[q] \in Holding,
           NEW e, Fits(q, e), NEW s \in Slots,
           {u \in Upstreams : e[u] = "none"} = Later(s),
           OrderOn(q, s, e)
    PROVE  StepOf(q)
<1> USE SizesAssumption DEF Slots, Upstreams, Memory
<1>1. CASE /\ s < Count
           /\ GoOn(q, "order")
           /\ at' = [at EXCEPT ![q] = s + 1]
           /\ Starts(q, {s + 1}, e)
  <2> DEFINE t == s + 1
  <2>1. t \in Upstreams /\ t \in Slots
    BY <1>1
  <2>2. Later(s) = Later(t) \cup {t} /\ t \notin Later(t)
    BY <1>1 DEF Later
  <2>3. {u \in Upstreams \ {t} : e[u] = "none"} = Later(t) /\ e[t] = "none"
    <3> HIDE DEF t
    <3> QED  BY <2>1, <2>2 DEF Later
  <2>4. GoOn(q, "order") /\ at' = [at EXCEPT ![q] = t] /\ Starts(q, {t}, e)
    BY <1>1
  <2> HIDE DEF t
  <2> QED  BY <2>1, <2>3, <2>4, OneMoreStep DEF Inline
<1>2. CASE s = Count /\ Leave(q, "failed") /\ ex' = [ex EXCEPT ![q] = e] /\ UNCHANGED at
  <2>1. Later(s) = {}
    BY <1>2 DEF Later
  <2>2. \A u \in Upstreams : e[u] # "none"
    BY <2>1
  <2> QED  BY <1>2, <2>2, FailStep
<1> QED  BY <1>1, <1>2 DEF OrderOn

\* execute_smart has made its choice.
LEMMA ChooseStep ==
    ASSUME TypeOK, PermitsConserved, NEW q \in Queries, stage[q] \in Holding,
           NEW e, Fits(q, e), strategy # "order",
           \A u \in Upstreams : e[u] = "none",
           Choose(q, e)
    PROVE  StepOf(q)
<1>1. PICK picked \in SUBSET Upstreams :
         \/ picked = {} /\ Leave(q, "failed") /\ ex' = [ex EXCEPT ![q] = e] /\ UNCHANGED at
         \/ \E u \in picked :
               /\ GoOn(q, "single")
               /\ at' = [at EXCEPT ![q] = u]
               /\ Starts(q, {u}, e)
         \/ RaceAll(q, picked, e)
  BY DEF Choose
<1>2. CASE Leave(q, "failed") /\ ex' = [ex EXCEPT ![q] = e] /\ UNCHANGED at
  BY <1>2, FailStep
<1>3. ASSUME NEW u \in picked,
             GoOn(q, "single"), at' = [at EXCEPT ![q] = u], Starts(q, {u}, e)
      PROVE  StepOf(q)
  <2>1. u \in Slots /\ u \in Upstreams /\ e[u] = "none"
    BY DEF Slots
  <2> QED  BY <1>3, <2>1, OneMoreStep DEF Inline
<1>4. CASE RaceAll(q, picked, e)
  BY <1>4, RaceStep
<1> QED  BY <1>1, <1>2, <1>3, <1>4

\* A query that has just got its permit has asked and heard nothing.
LEMMA BeginStep ==
    ASSUME TypeOK, PermitsConserved, NEW q \in Queries, Local(q), Begin(q)
    PROVE  StepOf(q)
<1> DEFINE e == ex[q]
<1>1. stage[q] \in Holding /\ Fresh(q) /\ Memory \in Slots /\ Upstreams \subseteq Slots
  BY DEF Begin, Local, Holding, Slots
<1>2. \A s \in Slots : e[s] = "none"
  BY <1>1 DEF Fresh
<1>3. Fits(q, e)
  <2>1. e \in [Slots -> Failures \cup {"none"}]
    BY <1>2 DEF TypeOK
  <2>2. \A s \in Slots : s \notin seen[q]
    BY <1>2 DEF TypeOK, Outcomes, Responses, Failures
  <2>3. \A s \in Slots : blamed[q][s] = 0
    BY <1>2 DEF Local
  <2>4. backup' \in [Queries -> BOOLEAN]
    BY DEF Begin, BeginOrder, BeginRace, BeginSmart, Choose, TypeOK
  <2>5. UNCHANGED <<strategy, seen, best, blamed>>
    BY DEF Begin
  <2> QED  BY <1>1, <1>2, <2>1, <2>2, <2>3, <2>4, <2>5 DEF Fits, Fresh, TypeOK
<1>4. CASE BeginOrder(q)
  <2>1. {u \in Upstreams : e[u] = "none"} = Later(0)
    BY <1>1, <1>2, SizesAssumption DEF Later, Upstreams
  <2>2. OrderOn(q, 0, e) /\ 0 \in Slots
    BY <1>1, <1>4 DEF BeginOrder, Memory
  <2> HIDE DEF e
  <2> QED  BY <1>1, <1>2, <1>3, <2>1, <2>2, OrderStep
<1>5. CASE BeginRace(q)
  <2>1. PICK S \in SUBSET Upstreams : RaceAll(q, S, e)
    BY <1>5 DEF BeginRace
  <2>2. strategy # "order" /\ \A u \in Upstreams : e[u] = "none"
    BY <1>1, <1>2, <1>5 DEF BeginRace
  <2> HIDE DEF e
  <2> QED  BY <1>1, <1>3, <2>1, <2>2, RaceStep
<1>6. CASE BeginSmart(q)
  <2>1. strategy # "order" /\ \A u \in Upstreams : e[u] = "none"
    BY <1>1, <1>2, <1>6 DEF BeginSmart
  <2>2. CASE Leave(q, "failed") /\ UNCHANGED <<at, ex, backup>>
    <3>1. ex' = [ex EXCEPT ![q] = e]
      BY <2>2 DEF TypeOK
    <3> HIDE DEF e
    <3> QED  BY <1>1, <1>3, <2>1, <2>2, <3>1, FailStep
  <2>3. CASE /\ GoOn(q, "memory")
             /\ at' = [at EXCEPT ![q] = Memory]
             /\ Starts(q, {Memory}, e)
    <3>1. e[Memory] = "none"
      BY <1>1, <1>2
    <3> HIDE DEF e
    <3> QED  BY <1>1, <1>3, <2>1, <2>3, <3>1, OneMoreStep DEF Inline
  <2>4. CASE Choose(q, e)
    <3> HIDE DEF e
    <3> QED  BY <1>1, <1>3, <2>1, <2>4, ChooseStep
  <2> QED  BY <1>6, <2>2, <2>3, <2>4 DEF BeginSmart
<1> QED  BY <1>4, <1>5, <1>6 DEF Begin

\* The exchange that the handler awaits has failed: it is on record, and the others
\* are as they were.
LEMMA InlineFails ==
    ASSUME TypeOK, PermitsConserved, NEW q \in Queries, Local(q),
           stage[q] \in Inline, NEW failure \in Failures,
           NEW e, e = [ex[q] EXCEPT ![at[q]] = failure],
           strategy' = strategy, best' = best, backup' \in [Queries -> BOOLEAN],
           seen' = [seen EXCEPT ![q] = @ \cup {at[q]}],
           Blame(q, at[q]),
           AfterFailure(q, e)
    PROVE  StepOf(q)
<1>1. /\ stage[q] \in Holding /\ at[q] \in Slots /\ AwaitsOne(q)
      /\ Upstreams \subseteq Slots /\ Memory \in Slots /\ Memory \notin Upstreams
  BY DEF Holding, Local, TypeOK, Slots, Upstreams, Memory
<1>2. /\ e[at[q]] = failure
      /\ \A s \in Slots \ {at[q]} : e[s] = ex[q][s] /\ e[s] \in Failures \cup {"none"}
  BY <1>1 DEF AwaitsOne, TypeOK
<1>3. Fits(q, e)
  <2>1. e \in [Slots -> Failures \cup {"none"}]
    <3>1. DOMAIN e = Slots /\ e = [s \in Slots |-> e[s]]
      BY DEF TypeOK
    <3>2. \A s \in Slots : e[s] \in Failures \cup {"none"}
      BY <1>2
    <3> QED  BY <3>1, <3>2
  <2>2. \A s \in Slots : s \in seen'[q] => e[s] \in Failures
    <3>1. \A s \in seen[q] : ex[q][s] # "none"
      BY DEF TypeOK, Outcomes, Responses, Failures
    <3> QED  BY <1>2, <3>1 DEF TypeOK
  <2>3. ASSUME NEW s \in Slots
        PROVE  blamed'[q][s] =
                   IF e[s] = "error" \/ (e[s] = "timeout" /\ s \in seen'[q]) THEN 1 ELSE 0
    <3>1. CASE s = at[q]
      <4>1. blamed[q][s] = 0
        BY <1>1, <3>1 DEF Local, AwaitsOne
      <4>2. blamed'[q][s] = 1
        BY <4>1, <3>1 DEF Blame, TypeOK
      <4>3. s \in seen'[q]
        BY <3>1 DEF TypeOK
      <4> QED  BY <1>2, <3>1, <4>2, <4>3 DEF Failures
    <3>2. CASE s # at[q]
      <4>1. blamed'[q][s] = blamed[q][s]
        BY <3>2 DEF Blame, TypeOK
      <4>2. s \in seen'[q] <=> s \in seen[q]
        BY <3>2 DEF TypeOK
      <4> QED  BY <1>2, <3>2, <4>1, <4>2 DEF Local
    <3> QED  BY <3>1, <3>2
  <2>4. blamed' \in [Queries -> [Slots -> Nat]]
    BY <1>1 DEF Blame, TypeOK
  <2>5. seen' \in [Queries -> SUBSET Slots] /\ best' \in [Queries -> Slots] /\ best'[q] = Memory
    BY <1>1 DEF TypeOK, AwaitsOne
  <2>6. \A r \in Queries \ {q} :
            seen'[r] = seen[r] /\ best'[r] = best[r] /\ blamed'[r] = blamed[r]
    BY DEF Blame, TypeOK
  <2> HIDE DEF Blame
  <2> QED  BY <2>1, <2>2, <2>3, <2>4, <2>5, <2>6 DEF Fits
<1>4. CASE stage[q] = "order" /\ OrderOn(q, at[q], e)
  <2>1. {u \in Upstreams : ex[q][u] = "none"} = Later(at[q])
    BY <1>1, <1>4 DEF AwaitsOne
  <2>2. \A u \in Upstreams : e[u] = "none" <=> ex[q][u] = "none"
    BY <1>1, <1>2 DEF AwaitsOne, Failures
  <2>3. {u \in Upstreams : e[u] = "none"} = Later(at[q])
    BY <2>1, <2>2
  <2> QED  BY <1>1, <1>3, <1>4, <2>3, OrderStep
<1>5. CASE stage[q] = "memory" /\ Choose(q, e)
  <2>1. \A u \in Upstreams : e[u] = "none"
    BY <1>1, <1>2, <1>5 DEF AwaitsOne
  <2>2. strategy # "order"
    BY <1>5 DEF Local
  <2> QED  BY <1>1, <1>3, <1>5, <2>1, <2>2, ChooseStep
<1>6. CASE /\ stage[q] = "single"
           /\ Leave(q, "failed")
           /\ ex' = [ex EXCEPT ![q] = e]
           /\ UNCHANGED at
  <2>1. strategy # "order"
    BY <1>6 DEF Local
  <2> QED  BY <1>1, <1>3, <1>6, <2>1, FailStep
<1> QED  BY <1>4, <1>5, <1>6 DEF AfterFailure

LEMMA InlineStep ==
    ASSUME TypeOK, PermitsConserved, NEW q \in Queries, Local(q), InlineEnds(q)
    PROVE  StepOf(q)
<1>1. /\ stage[q] \in Inline /\ stage[q] \in Holding /\ at[q] \in Slots
      /\ AwaitsOne(q) /\ strategy' = strategy
      /\ seen' = [seen EXCEPT ![q] = @ \cup {at[q]}]
  BY DEF InlineEnds, Holding, Local, TypeOK
<1>2. ASSUME NEW failure \in Failures,
             AfterFailure(q, [ex[q] EXCEPT ![at[q]] = failure]),
             Blame(q, at[q]), UNCHANGED best
      PROVE  StepOf(q)
  <2>1. backup' \in [Queries -> BOOLEAN]
    BY <1>2 DEF AfterFailure, Choose, TypeOK
  <2> QED  BY <1>1, <1>2, <2>1, InlineFails
<1>3. ASSUME NEW response \in Responses,
             ex' = [ex EXCEPT ![q][at[q]] = response],
             best' = [best EXCEPT ![q] = at[q]],
             Leave(q, "answered"),
             UNCHANGED <<at, backup, blamed>>
      PROVE  StepOf(q)
  <2>1. /\ PermitsConserved'
        /\ free' \in 0 .. Permits
        /\ stage'[q] = "answered"
        /\ stage' \in [Queries -> {"new", "waiting"} \cup Holding \cup Ended]
        /\ \A r \in Queries \ {q} :
              stage'[r] = stage[r] \/ (stage[r] = "waiting" /\ stage'[r] = "granted")
    BY <1>1, <1>3, LeaveKeepsPermits DEF Ended
  <2>2. /\ ex'[q][at[q]] = response
        /\ \A s \in Slots \ {at[q]} :
              ex'[q][s] = ex[q][s] /\ ex'[q][s] \in Failures \cup {"none"}
        /\ \A r \in Queries \ {q} : ex'[r] = ex[r]
    BY <1>1, <1>3 DEF TypeOK, AwaitsOne
  <2>3. /\ \A s \in Slots : s \in seen'[q] <=> s \in seen[q] \/ s = at[q]
        /\ seen' \in [Queries -> SUBSET Slots]
        /\ \A r \in Queries \ {q} : seen'[r] = seen[r]
    BY <1>1 DEF TypeOK
  <2>4. ex' \in [Queries -> [Slots -> {"none", "running", "aborted"} \cup Outcomes]]
    BY <1>1, <1>3 DEF TypeOK, Outcomes
  <2>5. \A r \in Queries : \A s \in seen'[r] : ex'[r][s] \in Outcomes
    <3>1. \A s \in seen'[q] : ex'[q][s] \in Outcomes
      BY <2>2, <2>3 DEF TypeOK, Outcomes
    <3>2. \A r \in Queries \ {q} : \A s \in seen'[r] : ex'[r][s] \in Outcomes
      BY <2>2, <2>3 DEF TypeOK
    <3> QED  BY <3>1, <3>2
  <2>6. best' \in [Queries -> Slots] /\ best'[q] = at[q] /\ at'[q] = at[q]
    BY <1>1, <1>3 DEF TypeOK
  <2>7. TypeOK'
    BY <1>1, <1>3, <2>1, <2>3, <2>4, <2>5, <2>6 DEF TypeOK
  <2>8. IsBest(q)'
    BY <2>2, <2>6 DEF IsBest, AsGood, Outcomes, Responses, Failures
  <2>9. \A s \in Slots :
            /\ ex'[q][s] # "running"
            /\ blamed'[q][s] =
                  IF ex'[q][s] = "error" \/ (ex'[q][s] = "timeout" /\ s \in seen'[q])
                  THEN 1 ELSE 0
    <3>1. blamed[q][at[q]] = 0
      BY <1>1 DEF Local, AwaitsOne
    <3>2. \A s \in Slots \ {at[q]} :
              blamed[q][s] =
                  IF ex'[q][s] = "error" \/ (ex'[q][s] = "timeout" /\ s \in seen'[q])
                  THEN 1 ELSE 0
      BY <2>2, <2>3 DEF Local
    <3> QED  BY <1>3, <2>2, <3>1, <3>2 DEF Responses, Failures
  <2>10. Local(q)'
    BY <2>1, <2>8, <2>9 DEF Local, Inline
  <2> QED  BY <1>1, <1>3, <2>1, <2>2, <2>3, <2>7, <2>10 DEF StepOf, Untouched, TypeOK
<1> QED  BY <1>2, <1>3 DEF InlineEnds

-----------------------------------------------------------------------------

LEMMA AskStep ==
    ASSUME TypeOK, PermitsConserved, NEW q \in Queries, Local(q), Ask(q)
    PROVE  StepOf(q)
<1> USE DEF TypeOK, PermitsConserved, Holders, Waiting, Holding, Ended, Inline
<1>1. IsFiniteSet(Holders) /\ Cardinality(Holders) \in Nat /\ free \in Nat /\ q \notin Holders
  BY QueriesAssumption, FS_Subset, FS_CardinalityType, SizesAssumption DEF Ask
<1>2. CASE stage' = [stage EXCEPT ![q] = "refused"] /\ UNCHANGED free
  <2>1. Holders' = Holders /\ Waiting' = Waiting
    BY <1>2 DEF Ask
  <2> QED  BY <1>2, <2>1 DEF Ask, StepOf, Untouched, Local, Fresh
<1>3. CASE free > 0 /\ free' = free - 1 /\ stage' = [stage EXCEPT ![q] = "granted"]
  <2>1. Holders' = Holders \cup {q} /\ Waiting' = Waiting
    BY <1>3 DEF Ask
  <2>2. Cardinality(Holders \cup {q}) = Cardinality(Holders) + 1
    <3> HIDE DEF Holders
    <3> QED  BY <1>1, FS_AddElement
  <2>3. free' + Cardinality(Holders') = Permits /\ free' \in 0 .. Permits
    <3> HIDE DEF Holders
    <3> QED  BY <1>1, <1>3, <2>1, <2>2, SizesAssumption
  <2> QED  BY <1>3, <2>1, <2>3 DEF Ask, StepOf, Untouched, Local, Fresh
<1>4. CASE free = 0 /\ stage' = [stage EXCEPT ![q] = "waiting"] /\ UNCHANGED free
  <2>1. Holders' = Holders
    BY <1>4 DEF Ask
  <2>2. PermitsConserved'
    <3> HIDE DEF Holders, Waiting
    <3> QED  BY <1>4, <2>1
  <2>3. TypeOK' /\ Local(q)' /\ Untouched(q)
    <3> HIDE DEF Holders, Waiting, PermitsConserved
    <3> QED  BY <1>4 DEF Ask, Untouched, Local, Fresh
  <2> QED  BY <2>2, <2>3 DEF StepOf
<1> QED  BY <1>2, <1>3, <1>4 DEF Ask

\* A task ends; its handler has taken no note of it yet.
LEMMA TaskStep ==
    ASSUME TypeOK, PermitsConserved, NEW q \in Queries, NEW s \in Slots, Local(q), TaskEnds(q, s)
    PROVE  StepOf(q)
<1>1. PICK outcome \in Outcomes :
          /\ ex' = [ex EXCEPT ![q][s] = outcome]
          /\ IF outcome = "error" THEN Blame(q, s) ELSE UNCHANGED blamed
  BY DEF TaskEnds
<1>2. /\ ex[q][s] = "running" /\ ~(stage[q] \in Inline /\ s = at[q])
      /\ UNCHANGED <<strategy, free, stage, at, seen, best, backup>>
  BY DEF TaskEnds, Spawned
<1>3. /\ ex'[q][s] = outcome
      /\ \A t \in Slots \ {s} : ex'[q][t] = ex[q][t]
      /\ \A r \in Queries \ {q} : ex'[r] = ex[r]
      /\ ex' \in [Queries -> [Slots -> {"none", "running", "aborted"} \cup Outcomes]]
  BY <1>1 DEF TypeOK
<1>4. s \notin seen[q] /\ blamed[q][s] = 0
  BY <1>2 DEF TypeOK, Local, Outcomes, Responses, Failures
<1>5. /\ blamed'[q][s] = IF outcome = "error" THEN 1 ELSE 0
      /\ \A t \in Slots \ {s} : blamed'[q][t] = blamed[q][t]
      /\ \A r \in Queries \ {q} : blamed'[r] = blamed[r]
      /\ blamed' \in [Queries -> [Slots -> Nat]]
  <2>1. CASE outcome = "error"
    <3>1. blamed' = [blamed EXCEPT ![q][s] = @ + 1]
      BY <1>1, <2>1 DEF Blame
    <3>2. blamed \in [Queries -> [Slots -> Nat]]
      BY DEF TypeOK
    <3>3. blamed' \in [Queries -> [Slots -> Nat]]
      BY <3>1, <3>2
    <3>4. blamed'[q][s] = 1
      BY <1>4, <3>1, <3>2
    <3>5. /\ \A t \in Slots \ {s} : blamed'[q][t] = blamed[q][t]
          /\ \A r \in Queries \ {q} : blamed'[r] = blamed[r]
      BY <3>1, <3>2
    <3> QED  BY <2>1, <3>3, <3>4, <3>5
  <2>2. CASE outcome # "error"
    BY <1>1, <1>4, <2>2 DEF TypeOK
  <2> QED  BY <2>1, <2>2
<1>6. TypeOK'
  <2>1. \A r \in Queries : \A t \in seen[r] : ex'[r][t] \in Outcomes
    BY <1>3, <1>4 DEF TypeOK
  <2> QED  BY <1>2, <1>3, <1>5, <2>1 DEF TypeOK
<1>7. PermitsConserved'
  BY <1>2 DEF PermitsConserved, Holders, Waiting
<1>8. Local(q)'
  <2>1. stage[q] \in {"race", "dropped"}
    <3>1. stage[q] \in Holding \cup {"dropped"}
      BY <1>2 DEF Local
    <3>2. stage[q] # "granted"
      BY <1>2 DEF Local, Fresh
    <3>3. stage[q] \notin Inline
      BY <1>2 DEF Local, AwaitsOne, Failures
    <3> QED  BY <3>1, <3>2, <3>3 DEF Holding
  <2>2. stage[q] = "race" => AwaitsRace(q)'
    <3>1. CASE stage[q] = "race"
      <4>1. AwaitsRace(q) /\ s # Memory /\ \A t \in seen[q] : t \in Slots
        BY <1>2, <3>1 DEF Local, AwaitsRace, Failures, TypeOK
      <4>2. Memory \in Slots /\ ex'[q][Memory] = ex[q][Memory]
        BY <1>3, <4>1 DEF Slots
      <4>3. \A t \in seen[q] : ex'[q][t] = ex[q][t]
        BY <1>3, <1>4, <4>1
      <4>4. \A t \in Slots : ex'[q][t] # "aborted"
        BY <1>3, <4>1 DEF AwaitsRace, Outcomes, Responses, Failures
      <4> QED  BY <1>2, <4>1, <4>2, <4>3, <4>4 DEF AwaitsRace
    <3> QED  BY <3>1
  <2>3. \A t \in Slots :
            /\ blamed'[q][t] =
                  IF ex'[q][t] = "error" \/ (ex'[q][t] = "timeout" /\ t \in seen[q])
                  THEN 1 ELSE 0
            /\ ex'[q][t] = "running" => stage[q] \in Holding \cup {"dropped"}
    BY <1>3, <1>4, <1>5, <2>1 DEF Local, Holding
  <2> QED  BY <1>2, <2>1, <2>2, <2>3 DEF Local, Inline
<1> QED  BY <1>2, <1>3, <1>5, <1>6, <1>7, <1>8 DEF StepOf, Untouched

LEMMA RaceOverStep ==
    ASSUME TypeOK, PermitsConserved, NEW q \in Queries, Local(q), RaceOver(q)
    PROVE  StepOf(q)
<1> DEFINE end == IF best[q] = Memory THEN "failed" ELSE "answered"
<1>1. /\ stage[q] = "race" /\ stage[q] \in Holding /\ AwaitsRace(q) /\ strategy # "order"
      /\ \A s \in Upstreams : ex[q][s] = "none" \/ s \in seen[q]
      /\ UNCHANGED <<strategy, at, ex, seen, best, backup, blamed>>
  BY DEF RaceOver, Local, Holding
<1>2. /\ PermitsConserved'
      /\ free' \in 0 .. Permits
      /\ stage'[q] = end
      /\ stage' \in [Queries -> {"new", "waiting"} \cup Holding \cup Ended]
      /\ \A r \in Queries \ {q} :
            stage'[r] = stage[r] \/ (stage[r] = "waiting" /\ stage'[r] = "granted")
  <2>1. Leave(q, end) /\ end \in Ended
    BY DEF RaceOver, Ended
  <2> HIDE DEF end
  <2> QED  BY <1>1, <2>1, LeaveKeepsPermits
<1>3. TypeOK'
  BY <1>1, <1>2 DEF TypeOK
<1>4. \A s \in Slots : ex[q][s] \in Outcomes \cup {"none"}
  BY <1>1 DEF AwaitsRace, TypeOK, Slots, Outcomes
<1>5. best[q] = Memory => AllFailed(q)
  BY <1>1 DEF AwaitsRace, AllFailed, Slots
<1>6. best[q] # Memory => IsBest(q)
  <2>1. CASE best[q] # Memory
    <3>1. /\ ex[q][best[q]] \in {"definitive", "other"}
          /\ \A u \in seen[q] :
                ex[q][u] \in Failures \/ AsGood(ex[q][best[q]], ex[q][u])
      BY <1>1, <2>1 DEF AwaitsRace
    <3>2. \A s \in Slots : ex[q][s] \in Failures => AsGood(ex[q][best[q]], ex[q][s])
      BY <3>1 DEF AsGood, Failures
    <3>3. \A s \in Slots : ex[q][s] = "none" \/ ex[q][s] \in Failures \/ s \in seen[q]
      BY <1>1 DEF AwaitsRace, Slots
    <3>4. \A s \in Slots : ex[q][s] = "none" \/ AsGood(ex[q][best[q]], ex[q][s])
      BY <3>1, <3>2, <3>3
    <3> QED  BY <1>4, <3>1, <3>4 DEF IsBest, Responses
  <2> QED  BY <2>1
<1>7. Local(q)'
  <2>1. \A s \in Slots : ex[q][s] # "running"
    BY <1>4 DEF Outcomes, Responses, Failures
  <2>2. (best[q] = Memory => AllFailed(q)') /\ (best[q] # Memory => IsBest(q)')
    BY <1>1, <1>5, <1>6 DEF AllFailed, IsBest
  <2> QED  BY <1>1, <1>2, <2>1, <2>2 DEF Local, Inline
<1> QED  BY <1>1, <1>2, <1>3, <1>7 DEF StepOf, Untouched

\* What the handler awaited is dropped with it, what it spawned goes on.
LEMMA DropStep ==
    ASSUME TypeOK, PermitsConserved, NEW q \in Queries, Local(q), Drop(q)
    PROVE  StepOf(q)
<1>1. UNCHANGED <<strategy, seen, backup, blamed>>
  BY DEF Drop
<1>2. /\ PermitsConserved'
      /\ free' \in 0 .. Permits
      /\ stage'[q] = "dropped"
      /\ stage' \in [Queries -> {"new", "waiting"} \cup Holding \cup Ended]
      /\ \A r \in Queries \ {q} :
            stage'[r] = stage[r] \/ (stage[r] = "waiting" /\ stage'[r] = "granted")
  <2>1. CASE /\ stage[q] = "waiting"
             /\ stage' = [stage EXCEPT ![q] = "dropped"]
             /\ UNCHANGED free
    <3>1. Holders' = Holders /\ Waiting' \subseteq Waiting
      BY <2>1 DEF TypeOK, Holders, Waiting, Holding, Inline
    <3> QED  BY <2>1, <3>1 DEF TypeOK, PermitsConserved, Ended
  <2>2. CASE stage[q] \in Holding /\ Leave(q, "dropped")
    BY <2>2, LeaveKeepsPermits DEF Ended
  <2> QED  BY <2>1, <2>2 DEF Drop
<1>3. /\ \A s \in Slots :
            ex'[q][s] = IF stage[q] \in Inline /\ s = at[q] THEN "aborted" ELSE ex[q][s]
      /\ \A r \in Queries \ {q} :
            ex'[r] = ex[r] /\ at'[r] = at[r] /\ best'[r] = best[r]
      /\ ex' \in [Queries -> [Slots -> {"none", "running", "aborted"} \cup Outcomes]]
      /\ at' \in [Queries -> Slots] /\ best' \in [Queries -> Slots]
  BY DEF Drop, Dropped, TypeOK, Slots
<1>4. \A s \in Slots : ex'[q][s] = ex[q][s] \/ (ex[q][s] = "running" /\ ex'[q][s] = "aborted")
  BY <1>3 DEF Local, AwaitsOne
<1>5. TypeOK'
  <2>1. \A s \in seen[q] : ex'[q][s] \in Outcomes
    BY <1>4 DEF TypeOK, Outcomes, Responses, Failures
  <2>2. \A r \in Queries : \A s \in seen[r] : ex'[r][s] \in Outcomes
    BY <1>3, <2>1 DEF TypeOK
  <2> QED  BY <1>1, <1>2, <1>3, <2>2 DEF TypeOK
<1>6. Local(q)'
  <2>1. \A s \in Slots :
            blamed[q][s] =
                IF ex'[q][s] = "error" \/ (ex'[q][s] = "timeout" /\ s \in seen[q])
                THEN 1 ELSE 0
    BY <1>4 DEF Local
  <2> QED  BY <1>1, <1>2, <2>1 DEF Local, Inline
<1> QED  BY <1>1, <1>2, <1>3, <1>5, <1>6 DEF StepOf, Untouched

-----------------------------------------------------------------------------
(* The loop of a race takes the outcome of s.                              *)

\* What it does in any case: s is seen, and a timeout goes on record.
LEMMA PollNotes ==
    ASSUME TypeOK, NEW q \in Queries, NEW s \in Slots, Local(q), Poll(q, s)
    PROVE  /\ stage[q] = "race" /\ AwaitsRace(q) /\ s \in Upstreams \ seen[q]
           /\ ex[q][s] \in Outcomes /\ strategy # "order"
           /\ UNCHANGED <<strategy, at, backup>>
           /\ \A t \in Slots : t \in seen'[q] <=> t \in seen[q] \/ t = s
           /\ seen' \in [Queries -> SUBSET Slots]
           /\ blamed' \in [Queries -> [Slots -> Nat]]
           /\ \A r \in Queries \ {q} : seen'[r] = seen[r] /\ blamed'[r] = blamed[r]
           /\ \A t \in Slots :
                 blamed'[q][t] =
                     IF ex[q][t] = "error" \/ (ex[q][t] = "timeout" /\ t \in seen'[q])
                     THEN 1 ELSE 0
<1>1. /\ stage[q] = "race" /\ AwaitsRace(q) /\ s \in Upstreams \ seen[q]
      /\ ex[q][s] \in Outcomes /\ strategy # "order"
      /\ UNCHANGED <<strategy, at, backup>>
  BY DEF Poll, Local
<1>2. /\ \A t \in Slots : t \in seen'[q] <=> t \in seen[q] \/ t = s
      /\ seen' \in [Queries -> SUBSET Slots]
      /\ \A r \in Queries \ {q} : seen'[r] = seen[r]
  BY DEF Poll, TypeOK
<1>3. RecordPolled(q, s)
  BY DEF Poll
<1>4. /\ blamed' \in [Queries -> [Slots -> Nat]]
      /\ \A r \in Queries \ {q} : blamed'[r] = blamed[r]
      /\ \A t \in Slots \ {s} : blamed'[q][t] = blamed[q][t]
      /\ blamed'[q][s] = IF ex[q][s] = "timeout" THEN blamed[q][s] + 1 ELSE blamed[q][s]
  <2>1. CASE ex[q][s] = "timeout"
    BY <1>3, <2>1 DEF RecordPolled, Blame, TypeOK
  <2>2. CASE ex[q][s] # "timeout"
    BY <1>3, <2>2 DEF RecordPolled, TypeOK
  <2> QED  BY <2>1, <2>2
<1>5. blamed[q][s] = IF ex[q][s] = "error" THEN 1 ELSE 0
  BY <1>1 DEF Local
<1>6. ASSUME NEW t \in Slots
      PROVE  blamed'[q][t] =
                 IF ex[q][t] = "error" \/ (ex[q][t] = "timeout" /\ t \in seen'[q])
                 THEN 1 ELSE 0
  <2>1. CASE t = s
    BY <1>2, <1>4, <1>5, <2>1
  <2>2. CASE t # s
    BY <1>2, <1>4, <2>2 DEF Local
  <2> QED  BY <2>1, <2>2
<1> QED  BY <1>1, <1>2, <1>4, <1>6

LEMMA PollStep ==
    ASSUME TypeOK, PermitsConserved, NEW q \in Queries, NEW s \in Slots, Local(q), Poll(q, s)
    PROVE  StepOf(q)
<1>1. /\ stage[q] = "race" /\ stage[q] \in Holding /\ AwaitsRace(q)
      /\ s \in Upstreams \ seen[q] /\ s # Memory
      /\ ex[q][s] \in Outcomes /\ strategy # "order"
      /\ UNCHANGED <<strategy, at, backup>>
  BY PollNotes DEF Holding, Upstreams, Memory
<1>2. /\ \A t \in Slots : t \in seen'[q] <=> t \in seen[q] \/ t = s
      /\ seen' \in [Queries -> SUBSET Slots]
      /\ blamed' \in [Queries -> [Slots -> Nat]]
      /\ \A r \in Queries \ {q} : seen'[r] = seen[r] /\ blamed'[r] = blamed[r]
      /\ \A t \in Slots :
            blamed'[q][t] =
                IF ex[q][t] = "error" \/ (ex[q][t] = "timeout" /\ t \in seen'[q])
                THEN 1 ELSE 0
  BY PollNotes
<1>3. \A r \in Queries : \A t \in seen'[r] : ex[r][t] \in Outcomes
  <2>1. \A t \in seen'[q] : ex[q][t] \in Outcomes
    BY <1>1, <1>2 DEF TypeOK
  <2> QED  BY <1>2, <2>1 DEF TypeOK
<1>4. CASE /\ ex[q][s] = "address"
           /\ best' = [best EXCEPT ![q] = s]
           /\ ex' = [ex EXCEPT ![q] = Stopped(ex[q])]
           /\ Leave(q, "answered")
  <2>1. /\ PermitsConserved'
        /\ free' \in 0 .. Permits
        /\ stage'[q] = "answered"
        /\ stage' \in [Queries -> {"new", "waiting"} \cup Holding \cup Ended]
        /\ \A r \in Queries \ {q} :
              stage'[r] = stage[r] \/ (stage[r] = "waiting" /\ stage'[r] = "granted")
    BY <1>1, <1>4, LeaveKeepsPermits DEF Ended
  <2>2. /\ \A t \in Slots :
              ex'[q][t] = IF ex[q][t] = "running" THEN "aborted" ELSE ex[q][t]
        /\ \A r \in Queries \ {q} : ex'[r] = ex[r] /\ best'[r] = best[r]
        /\ ex' \in [Queries -> [Slots -> {"none", "running", "aborted"} \cup Outcomes]]
        /\ best' \in [Queries -> Slots] /\ best'[q] = s
    BY <1>4 DEF TypeOK, Stopped
  <2>3. \A r \in Queries : \A t \in seen'[r] : ex'[r][t] \in Outcomes
    <3>1. \A t \in seen'[q] : ex'[q][t] \in Outcomes
      BY <1>2, <1>3, <2>2 DEF Outcomes, Responses, Failures
    <3> QED  BY <1>3, <2>2, <3>1
  <2>4. TypeOK'
    BY <1>1, <1>2, <2>1, <2>2, <2>3 DEF TypeOK
  <2>5. IsBest(q)'
    BY <1>4, <2>2 DEF IsBest, Responses
  <2>6. \A t \in Slots :
            /\ ex'[q][t] # "running"
            /\ blamed'[q][t] =
                  IF ex'[q][t] = "error" \/ (ex'[q][t] = "timeout" /\ t \in seen'[q])
                  THEN 1 ELSE 0
    BY <1>2, <2>2
  <2>7. Local(q)'
    BY <2>1, <2>5, <2>6 DEF Local, Inline
  <2> QED  BY <1>1, <1>2, <2>1, <2>2, <2>4, <2>7 DEF StepOf, Untouched
<1>5. ASSUME UNCHANGED <<free, stage, ex>>,
             best' \in [Queries -> Slots],
             \A r \in Queries \ {q} : best'[r] = best[r],
             AwaitsRace(q)'
      PROVE  StepOf(q)
  <2>1. PermitsConserved'
    BY <1>5 DEF PermitsConserved, Holders, Waiting
  <2>2. TypeOK'
    BY <1>1, <1>2, <1>3, <1>5 DEF TypeOK
  <2>3. Local(q)'
    BY <1>1, <1>2, <1>5 DEF Local, Inline, Holding
  <2> QED  BY <1>1, <1>2, <1>5, <2>1, <2>2, <2>3 DEF StepOf, Untouched
<1>6. \A t \in seen'[q] : t \in Slots /\ (t \in seen[q] \/ t = s)
  BY <1>2
<1>7. CASE /\ ex[q][s] \in Responses \ {"address"} /\ Better(q, ex[q][s])
           /\ best' = [best EXCEPT ![q] = s]
           /\ UNCHANGED <<free, stage, ex>>
  <2>1. best'[q] = s /\ s \in seen'[q] /\ best' \in [Queries -> Slots]
    BY <1>2, <1>7 DEF TypeOK
  <2>2. \A t \in seen'[q] : ex[q][t] \in Failures \/ AsGood(ex[q][s], ex[q][t])
    BY <1>1, <1>6, <1>7 DEF AwaitsRace, AsGood, Better, Responses, Failures
  <2>3. AwaitsRace(q)'
    BY <1>1, <1>7, <2>1, <2>2 DEF AwaitsRace, Responses
  <2> QED  BY <1>5, <1>7, <2>1, <2>3
<1>8. CASE /\ ex[q][s] \in Failures \/ (ex[q][s] # "address" /\ ~Better(q, ex[q][s]))
           /\ UNCHANGED <<free, stage, ex, best>>
  <2>1. ex[q][s] \in Failures \/ (best[q] # Memory /\ AsGood(ex[q][best[q]], ex[q][s]))
    BY <1>1, <1>8 DEF Better, AwaitsRace, AsGood, Outcomes, Responses, Failures
  <2>2. best[q] # Memory => best[q] \in seen'[q]
    BY <1>1, <1>2 DEF AwaitsRace, TypeOK
  <2>3. AwaitsRace(q)'
    BY <1>1, <1>6, <1>8, <2>1, <2>2 DEF AwaitsRace
  <2> QED  BY <1>5, <1>8, <2>3 DEF TypeOK
<1> QED  BY <1>4, <1>7, <1>8 DEF Poll

-----------------------------------------------------------------------------
(* The invariant.                                                          *)

LEMMA InitHolds == ASSUME Init PROVE IInv
<1>1. TypeOK
  BY SizesAssumption DEF Init, TypeOK, Slots
<1>2. PermitsConserved
  <2>1. Holders = {} /\ Waiting = {}
    BY DEF Init, Holders, Waiting, Holding, Inline
  <2> QED  BY <2>1, FS_EmptySet, SizesAssumption DEF Init, PermitsConserved
<1>3. \A q \in Queries : Local(q)
  BY DEF Init, Local, Fresh, Inline
<1> QED  BY <1>1, <1>2, <1>3, InvariantIsLocal

\* The part of the invariant of a query that another query's step leaves alone, or
\* gives a permit.
LEMMA UntouchedStaysLocal ==
    ASSUME NEW q \in Queries, NEW r \in Queries \ {q}, Untouched(q), Local(r)
    PROVE  Local(r)'
<1>1. /\ strategy' = strategy /\ at'[r] = at[r] /\ ex'[r] = ex[r] /\ seen'[r] = seen[r]
      /\ best'[r] = best[r] /\ blamed'[r] = blamed[r]
      /\ stage'[r] = stage[r] \/ (stage[r] = "waiting" /\ stage'[r] = "granted")
  BY DEF Untouched
<1>2. CASE stage'[r] = stage[r]
  BY <1>1, <1>2 DEF Local, Fresh, AwaitsOne, AwaitsRace, IsBest, AllFailed
<1>3. CASE stage[r] = "waiting" /\ stage'[r] = "granted"
  BY <1>1, <1>3 DEF Local, Fresh, Inline, Holding
<1> QED  BY <1>1, <1>2, <1>3

LEMMA NextKeepsInvariant == ASSUME IInv, [Next]_vars PROVE IInv'
<1>1. TypeOK /\ PermitsConserved /\ \A q \in Queries : Local(q)
  BY InvariantIsLocal
<1>2. ASSUME NEW q \in Queries, StepOf(q)
      PROVE  IInv'
  <2>1. \A r \in Queries : Local(r)'
    BY <1>1, <1>2, UntouchedStaysLocal DEF StepOf
  <2> QED  BY <1>2, <2>1 DEF StepOf, IInv, Progress, BestWins, FailsOnlyAtLast,
                             BlameIsTrue, StraysAreDropped, Local
<1>3. ASSUME NEW q \in Queries,
             \/ Ask(q) \/ Begin(q) \/ InlineEnds(q) \/ RaceOver(q) \/ Drop(q)
             \/ \E s \in Slots : TaskEnds(q, s) \/ Poll(q, s)
      PROVE  StepOf(q)
  BY <1>1, <1>3, AskStep, BeginStep, InlineStep, RaceOverStep, DropStep, TaskStep, PollStep
<1>4. CASE Next
  BY <1>2, <1>3, <1>4 DEF Next
<1>5. CASE UNCHANGED vars
  BY <1>5 DEF vars, IInv, TypeOK, PermitsConserved, Holders, Waiting, Progress, Fresh,
              AwaitsOne, AwaitsRace, BestWins, IsBest, FailsOnlyAtLast, AllFailed,
              BlameIsTrue, StraysAreDropped
<1> QED  BY <1>4, <1>5

LEMMA Invariance == Spec => []IInv
<1>1. Init => IInv
  BY InitHolds
<1>2. IInv /\ [Next]_vars => IInv'
  BY NextKeepsInvariant
<1> QED  BY <1>1, <1>2, PTL DEF Spec

\* Types, and that outcomes are taken of exchanges that have ended.
THEOREM TypeCorrect == Spec => []TypeOK
BY Invariance, PTL DEF IInv

\* acquire() and the drop of the permit: whatever becomes of a handler, answered,
\* failed, dropped while it waits or while it runs, its permit comes back, and goes
\* to a query that waits.
THEOREM PermitsAreConserved == Spec => []PermitsConserved
BY Invariance, PTL DEF IInv

\* response_has_ip, best_definitive and best_other: of what the upstreams of a race
\* answer, nothing better than what is returned was there or under way.
THEOREM BestIsReturned == Spec => []BestWins
BY Invariance, PTL DEF IInv

\* A handler that makes up SERVFAIL has lost no response.
THEOREM FailuresAreTrue == Spec => []FailsOnlyAtLast
BY Invariance, PTL DEF IInv

\* record_failure is called once for an exchange that failed, by the task or by the
\* handler, and for no other.
THEOREM BlameIsJust == Spec => []BlameIsTrue
BY Invariance, PTL DEF IInv

\* abort_all leaves nothing behind: only a dropped handler does.
THEOREM OnlyDroppedStray == Spec => []StraysAreDropped
BY Invariance, PTL DEF IInv
-----------------------------------------------------------------------------
(* Every step goes on.                                                     *)

\* The handler of q goes on from e to one of the stages: an exchange it has not
\* begun may be begun, and nothing else.
MovesOn(q, e, stages) ==
    /\ stage'[q] \in stages
    /\ \A s \in Slots : ex'[q][s] = e[s] \/ (e[s] = "none" /\ ex'[q][s] = "running")

LEMMA LeaveMoves ==
    ASSUME TypeOK, PermitsConserved, NEW q \in Queries, stage[q] \in Holding,
           NEW e, NEW end \in Ended, Leave(q, end), ex' = [ex EXCEPT ![q] = e]
    PROVE  MovesOn(q, e, Ended)
BY LeaveKeepsPermits DEF MovesOn, TypeOK

LEMMA StartMoves ==
    ASSUME TypeOK, PermitsConserved, NEW q \in Queries, stage[q] \in Holding,
           NEW e, NEW where \in Holding, GoOn(q, where),
           NEW S \in SUBSET Slots, \A s \in S : e[s] = "none", Starts(q, S, e)
    PROVE  MovesOn(q, e, {where})
<1>1. stage'[q] = where
  BY GoOnKeepsPermits
<1>2. \A s \in Slots : ex'[q][s] = IF s \in S THEN "running" ELSE e[s]
  BY DEF Starts, Started, TypeOK
<1> QED  BY <1>1, <1>2 DEF MovesOn

LEMMA OrderMoves ==
    ASSUME TypeOK, PermitsConserved, NEW q \in Queries, stage[q] \in Holding,
           NEW e, NEW s \in Slots, \A u \in Later(s) : e[u] = "none",
           OrderOn(q, s, e)
    PROVE  MovesOn(q, e, {"order"} \cup Ended)
<1>1. CASE s < Count /\ GoOn(q, "order") /\ Starts(q, {s + 1}, e)
  <2>1. s + 1 \in Later(s) /\ {s + 1} \subseteq Slots
    BY <1>1, SizesAssumption DEF Later, Slots, Upstreams, Memory
  <2> QED  BY <1>1, <2>1, StartMoves DEF MovesOn, Holding, Inline
<1>2. CASE Leave(q, "failed") /\ ex' = [ex EXCEPT ![q] = e]
  <2>1. MovesOn(q, e, Ended)
    BY <1>2, LeaveMoves DEF Ended
  <2> QED  BY <2>1 DEF MovesOn
<1> QED  BY <1>1, <1>2 DEF OrderOn

LEMMA ChooseMoves ==
    ASSUME TypeOK, PermitsConserved, NEW q \in Queries, stage[q] \in Holding,
           NEW e, \A u \in Upstreams : e[u] = "none",
           Choose(q, e)
    PROVE  MovesOn(q, e, {"single", "race"} \cup Ended)
<1>1. PICK picked \in SUBSET Upstreams :
          \/ Leave(q, "failed") /\ ex' = [ex EXCEPT ![q] = e]
          \/ \E u \in picked : GoOn(q, "single") /\ Starts(q, {u}, e)
          \/ RaceAll(q, picked, e)
  BY DEF Choose
<1>2. CASE Leave(q, "failed") /\ ex' = [ex EXCEPT ![q] = e]
  <2>1. MovesOn(q, e, Ended)
    BY <1>2, LeaveMoves DEF Ended
  <2> QED  BY <2>1 DEF MovesOn
<1>3. CASE \E u \in picked : GoOn(q, "single") /\ Starts(q, {u}, e)
  <2>1. PICK u \in Upstreams : GoOn(q, "single") /\ Starts(q, {u}, e)
    BY <1>3
  <2> QED  BY <2>1, StartMoves DEF MovesOn, Holding, Inline, Slots
<1>4. CASE RaceAll(q, picked, e)
  BY <1>4, StartMoves DEF RaceAll, MovesOn, Holding, Slots
<1> QED  BY <1>1, <1>2, <1>3, <1>4

LEMMA BeginGoes ==
    ASSUME TypeOK, PermitsConserved, NEW q \in Queries, Local(q), Begin(q)
    PROVE  NeverBack(q) /\ GoesOn(q)
<1> DEFINE e == ex[q]
<1>1. stage[q] = "granted" /\ stage[q] \in Holding
  BY DEF Begin, Holding
<1>2. /\ \A s \in Slots : e[s] = "none"
      /\ Memory \in Slots /\ Upstreams \subseteq Slots /\ \A s : Later(s) \subseteq Slots
  BY <1>1 DEF Local, Fresh, Slots, Later
<1>3. MovesOn(q, e, {"order", "race", "memory", "single"} \cup Ended)
  <2>1. CASE OrderOn(q, 0, e)
    <3> HIDE DEF e
    <3> QED  BY <1>1, <1>2, <2>1, OrderMoves DEF MovesOn, Memory
  <2>2. CASE \E S \in SUBSET {u \in Upstreams : u <= RaceWidth} : RaceAll(q, S, e)
    <3>1. PICK S \in SUBSET Slots : GoOn(q, "race") /\ Starts(q, S, e)
      BY <1>2, <2>2 DEF RaceAll
    <3> HIDE DEF e
    <3> QED  BY <1>1, <1>2, <3>1, StartMoves DEF MovesOn, Holding
  <2>3. CASE Leave(q, "failed") /\ UNCHANGED ex
    <3>1. ex' = [ex EXCEPT ![q] = e]
      BY <2>3 DEF TypeOK
    <3>2. MovesOn(q, e, Ended)
      <4> HIDE DEF e
      <4> QED  BY <1>1, <2>3, <3>1, LeaveMoves DEF Ended
    <3> QED  BY <3>2 DEF MovesOn
  <2>4. CASE GoOn(q, "memory") /\ Starts(q, {Memory}, e)
    <3> HIDE DEF e
    <3> QED  BY <1>1, <1>2, <2>4, StartMoves DEF MovesOn, Holding, Inline
  <2>5. CASE Choose(q, e)
    <3> HIDE DEF e
    <3> QED  BY <1>1, <1>2, <2>5, ChooseMoves DEF MovesOn
  <2> QED  BY <2>1, <2>2, <2>3, <2>4, <2>5 DEF Begin, BeginOrder, BeginRace, BeginSmart
<1>4. Onto(stage[q], stage'[q]) /\ stage'[q] # stage[q]
  BY <1>1, <1>3 DEF MovesOn, Onto, Ended
<1>5. seen' = seen
  BY DEF Begin
<1> QED  BY <1>3, <1>4, <1>5 DEF MovesOn, NeverBack, GoesOn

LEMMA InlineGoes ==
    ASSUME TypeOK, PermitsConserved, NEW q \in Queries, Local(q), InlineEnds(q)
    PROVE  NeverBack(q) /\ GoesOn(q)
<1>1. /\ stage[q] \in Inline /\ stage[q] \in Holding /\ at[q] \in Slots
      /\ AwaitsOne(q) /\ ex[q][at[q]] = "running"
      /\ seen[q] \subseteq seen'[q]
  BY DEF InlineEnds, Holding, Local, AwaitsOne, TypeOK
<1>2. ASSUME NEW outcome \in Outcomes,
             NEW e, e = [ex[q] EXCEPT ![at[q]] = outcome],
             MovesOn(q, e, {s \in Ended \cup Inline \cup {"race"} : Onto(stage[q], s)})
      PROVE  NeverBack(q) /\ GoesOn(q)
  <2>1. e[at[q]] = outcome /\ \A s \in Slots \ {at[q]} : e[s] = ex[q][s]
    BY <1>1, <1>2 DEF TypeOK
  <2>2. outcome \notin {"none", "running"}
    BY <1>2 DEF Outcomes, Responses, Failures
  <2>3. ex'[q][at[q]] = outcome
    BY <1>1, <1>2, <2>1, <2>2 DEF MovesOn
  <2>4. \A s \in Slots \ {at[q]} :
            ex'[q][s] = ex[q][s] \/ (ex[q][s] = "none" /\ ex'[q][s] = "running")
    BY <1>2, <2>1 DEF MovesOn
  <2>5. NeverBack(q)
    BY <1>1, <1>2, <2>3, <2>4 DEF MovesOn, NeverBack
  <2>6. ex'[q] # ex[q]
    BY <1>1, <2>2, <2>3
  <2> QED  BY <2>5, <2>6 DEF GoesOn
<1>3. ASSUME NEW response \in Responses,
             ex' = [ex EXCEPT ![q][at[q]] = response], Leave(q, "answered")
      PROVE  NeverBack(q) /\ GoesOn(q)
  <2> DEFINE e == [ex[q] EXCEPT ![at[q]] = response]
  <2>1. ex' = [ex EXCEPT ![q] = e]
    BY <1>3
  <2>2. MovesOn(q, e, Ended)
    <3> HIDE DEF e
    <3> QED  BY <1>1, <1>3, <2>1, LeaveMoves DEF Ended
  <2>3. \A s \in Ended : Onto(stage[q], s)
    BY <1>1 DEF Onto, Inline
  <2>4. MovesOn(q, e, {s \in Ended \cup Inline \cup {"race"} : Onto(stage[q], s)})
    BY <2>2, <2>3 DEF MovesOn
  <2> QED  BY <1>2, <2>4 DEF Outcomes
<1>4. ASSUME NEW failure \in Failures,
             AfterFailure(q, [ex[q] EXCEPT ![at[q]] = failure])
      PROVE  NeverBack(q) /\ GoesOn(q)
  <2> DEFINE e == [ex[q] EXCEPT ![at[q]] = failure]
  <2>1. /\ \A s \in Slots \ {at[q]} : e[s] = ex[q][s]
        /\ Upstreams \subseteq Slots /\ \A s : Later(s) \subseteq Upstreams
    BY <1>1 DEF TypeOK, Slots, Later
  <2>2. CASE stage[q] = "order" /\ OrderOn(q, at[q], e)
    <3>1. \A u \in Later(at[q]) : ex[q][u] = "none"
      BY <1>1, <2>2 DEF AwaitsOne
    <3>2. \A u \in Later(at[q]) : e[u] = "none"
      BY <1>1, <2>1, <3>1
    <3>3. MovesOn(q, e, {"order"} \cup Ended)
      <4> HIDE DEF e
      <4> QED  BY <1>1, <2>2, <3>2, OrderMoves
    <3>4. MovesOn(q, e, {s \in Ended \cup Inline \cup {"race"} : Onto(stage[q], s)})
      BY <2>2, <3>3 DEF MovesOn, Onto, Inline
    <3> QED  BY <1>2, <3>4 DEF Outcomes
  <2>3. CASE stage[q] = "memory" /\ Choose(q, e)
    <3>1. \A u \in Upstreams : e[u] = "none"
      BY <1>1, <2>1, <2>3 DEF AwaitsOne
    <3>2. MovesOn(q, e, {"single", "race"} \cup Ended)
      <4> HIDE DEF e
      <4> QED  BY <1>1, <2>3, <3>1, ChooseMoves
    <3>3. MovesOn(q, e, {s \in Ended \cup Inline \cup {"race"} : Onto(stage[q], s)})
      BY <2>3, <3>2 DEF MovesOn, Onto, Inline
    <3> QED  BY <1>2, <3>3 DEF Outcomes
  <2>4. CASE stage[q] = "single" /\ Leave(q, "failed") /\ ex' = [ex EXCEPT ![q] = e]
    <3>1. MovesOn(q, e, Ended)
      <4> HIDE DEF e
      <4> QED  BY <1>1, <2>4, LeaveMoves DEF Ended
    <3>2. MovesOn(q, e, {s \in Ended \cup Inline \cup {"race"} : Onto(stage[q], s)})
      BY <2>4, <3>1 DEF MovesOn, Onto
    <3> QED  BY <1>2, <3>2 DEF Outcomes
  <2> QED  BY <1>4, <2>2, <2>3, <2>4 DEF AfterFailure
<1> QED  BY <1>3, <1>4 DEF InlineEnds

LEMMA AskGoes ==
    ASSUME TypeOK, NEW q \in Queries, Ask(q)
    PROVE  NeverBack(q) /\ GoesOn(q)
BY DEF TypeOK, Ask, NeverBack, GoesOn, Onto

LEMMA TaskGoes ==
    ASSUME TypeOK, NEW q \in Queries, NEW s \in Slots, TaskEnds(q, s)
    PROVE  NeverBack(q) /\ GoesOn(q)
<1>1. PICK outcome \in Outcomes : ex' = [ex EXCEPT ![q][s] = outcome]
  BY DEF TaskEnds
<1>2. ex[q][s] = "running" /\ UNCHANGED <<stage, seen>>
  BY DEF TaskEnds, Spawned
<1>3. ex'[q][s] = outcome /\ \A t \in Slots \ {s} : ex'[q][t] = ex[q][t]
  BY <1>1 DEF TypeOK
<1>4. outcome # "running"
  BY DEF Outcomes, Responses, Failures
<1>5. Onto(stage[q], stage[q])
  BY DEF TypeOK, Onto, Holding, Inline
<1> QED  BY <1>2, <1>3, <1>4, <1>5 DEF NeverBack, GoesOn

LEMMA RaceOverGoes ==
    ASSUME TypeOK, PermitsConserved, NEW q \in Queries, RaceOver(q)
    PROVE  NeverBack(q) /\ GoesOn(q)
<1>1. stage[q] = "race" /\ stage[q] \in Holding /\ UNCHANGED <<ex, seen>>
  BY DEF RaceOver, Holding
<1>2. stage'[q] \in {"failed", "answered"}
  <2>1. PICK end \in {"failed", "answered"} : Leave(q, end)
    BY DEF RaceOver
  <2> QED  BY <1>1, <2>1, LeaveKeepsPermits DEF Ended
<1> QED  BY <1>1, <1>2 DEF NeverBack, GoesOn, Onto, Ended

LEMMA PollGoes ==
    ASSUME TypeOK, PermitsConserved, NEW q \in Queries, NEW s \in Slots, Local(q), Poll(q, s)
    PROVE  NeverBack(q) /\ GoesOn(q)
<1>1. stage[q] = "race" /\ stage[q] \in Holding /\ s \notin seen[q] /\ s \in seen'[q]
  BY PollNotes DEF Holding
<1>2. seen[q] \subseteq seen'[q]
  BY DEF Poll, TypeOK
<1>3. CASE ex' = [ex EXCEPT ![q] = Stopped(ex[q])] /\ Leave(q, "answered")
  <2>1. stage'[q] = "answered"
    BY <1>1, <1>3, LeaveKeepsPermits DEF Ended
  <2>2. \A t \in Slots : ex'[q][t] = IF ex[q][t] = "running" THEN "aborted" ELSE ex[q][t]
    BY <1>3 DEF TypeOK, Stopped
  <2> QED  BY <1>1, <1>2, <2>1, <2>2 DEF NeverBack, GoesOn, Onto, Ended
<1>4. CASE UNCHANGED <<stage, ex>>
  BY <1>1, <1>2, <1>4 DEF NeverBack, GoesOn, Onto
<1> QED  BY <1>3, <1>4 DEF Poll

LEMMA DropGoes ==
    ASSUME TypeOK, PermitsConserved, NEW q \in Queries, Local(q), Drop(q)
    PROVE  NeverBack(q) /\ GoesOn(q)
<1>1. stage[q] \in Holding \cup {"waiting"} /\ stage'[q] = "dropped" /\ seen' = seen
  <2>1. CASE stage[q] = "waiting" /\ stage' = [stage EXCEPT ![q] = "dropped"]
    BY <2>1 DEF Drop, TypeOK
  <2>2. CASE stage[q] \in Holding /\ Leave(q, "dropped")
    BY <2>2, LeaveKeepsPermits DEF Drop, Ended
  <2> QED  BY <2>1, <2>2 DEF Drop
<1>2. \A s \in Slots :
          ex'[q][s] = IF stage[q] \in Inline /\ s = at[q] THEN "aborted" ELSE ex[q][s]
  BY DEF Drop, Dropped, TypeOK
<1>3. \A s \in Slots : ex'[q][s] = ex[q][s] \/ (ex[q][s] = "running" /\ ex'[q][s] = "aborted")
  BY <1>2 DEF Local, AwaitsOne
<1>4. Onto(stage[q], stage'[q]) /\ stage'[q] # stage[q]
  BY <1>1 DEF Onto, Holding, Inline, Ended
<1> QED  BY <1>1, <1>3, <1>4 DEF NeverBack, GoesOn

\* A step of q takes it further, and at most gives another query a permit.
LEMMA NextGoesOn == ASSUME IInv, Next PROVE Onward
<1>1. TypeOK /\ PermitsConserved /\ \A q \in Queries : Local(q)
  BY InvariantIsLocal
<1>2. PICK q \in Queries :
          \/ Ask(q) \/ Begin(q) \/ InlineEnds(q) \/ RaceOver(q) \/ Drop(q)
          \/ \E s \in Slots : TaskEnds(q, s) \/ Poll(q, s)
  BY DEF Next
<1>3. NeverBack(q) /\ GoesOn(q)
  BY <1>1, <1>2, AskGoes, BeginGoes, InlineGoes, RaceOverGoes, DropGoes, TaskGoes, PollGoes
<1>4. Untouched(q)
  BY <1>1, <1>2, AskStep, BeginStep, InlineStep, RaceOverStep, DropStep, TaskStep, PollStep
     DEF StepOf
<1>5. ASSUME NEW r \in Queries \ {q}
      PROVE  NeverBack(r)
  <2>1. /\ ex'[r] = ex[r] /\ seen'[r] = seen[r]
        /\ stage'[r] = stage[r] \/ (stage[r] = "waiting" /\ stage'[r] = "granted")
    BY <1>4 DEF Untouched
  <2>2. Onto(stage[r], stage'[r])
    BY <1>1, <2>1 DEF TypeOK, Onto, Holding, Inline
  <2> QED  BY <2>1, <2>2 DEF NeverBack
<1> QED  BY <1>3, <1>5 DEF Onward

\* handle and its strategies never start an upstream over for the same query, never
\* change an outcome and never hear one twice, and no step is without effect: a query
\* has as many steps as its stages and its exchanges allow, whatever the answers.
THEOREM QueriesGoOn == Spec => AlwaysOnward
<1>1. IInv /\ [Next]_vars => [Onward]_vars
  BY NextGoesOn
<1> QED  BY <1>1, Invariance, PTL DEF Spec, AlwaysOnward
=============================================================================
