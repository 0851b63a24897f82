-------------------------- MODULE AutoPilotProofs ---------------------------
(***************************************************************************)
(* What AutoPilot's memory of a domain and its health records promise      *)
(* (src/autopilot.rs), for every number of upstreams, callers, queue       *)
(* places, recorders and failures.                                         *)
(*                                                                         *)
(* A success counted for an upstream is paid for by one that was reported: *)
(* reported results are in the channel, in the batch, in the hands of an   *)
(* applier, counted in the memory, or lost, and never in two places.  The  *)
(* file counts no more than was reported either, which is what a restart   *)
(* relies on.                                                              *)
(***************************************************************************)
EXTENDS Learning, Availability, FiniteSetTheorems, SequenceTheorems, TLAPS

CONSTANTS Threshold, MaxFailures
VARIABLE failures

Metrics == INSTANCE Health

-----------------------------------------------------------------------------
(* What was reported of u for k and is still to be applied.                *)

\* The update x is for the memory k of u; a client's update is for the global one, too.
Match(x, k, u) == x.upstream = u /\ (x.key = k \/ k = "global")
Matching(s, k, u) == {i \in 1 .. Len(s) : Match(s[i], k, u)}

\* An applier in state v will still count a result of u in k.
Holding(v, k, u) == v.upstream = u /\ (v.at = k \/ (k = "global" /\ v.at # "idle"))
Holders(f, k, u) == {a \in Appliers : Holding(f[a], k, u)}

One(p) == IF p THEN 1 ELSE 0

Pending(k, u) ==
    Cardinality(Matching(channel, k, u)) + Cardinality(Matching(buffer, k, u))
        + Cardinality(Holders(applier, k, u))

Has(m, k, u) == IF m[k].best = u THEN m[k].count ELSE 0

\* A count of one at most.
LEMMA OneIsNat == \A p \in BOOLEAN : One(p) \in Nat
  BY DEF One

WeakMemories == [Keys -> [best : Upstreams \cup {"none"}, count : Nat]]
Tasks == [at : Keys \cup {"insert", "idle"}, upstream : Upstreams \cup {"none"}]

Typed ==
    /\ memory \in WeakMemories
    /\ file \in WeakMemories
    /\ channel \in Seq(Updates)
    /\ buffer \in Seq(Updates)
    /\ applier \in [Appliers -> Tasks]
    /\ reported \in [Keys -> [Upstreams -> Nat]]

Paid ==
    \A k \in Keys, u \in Upstreams :
       /\ Has(memory, k, u) + Pending(k, u) <= reported[k][u]
       /\ Has(file, k, u) <= reported[k][u]

\* A draining learner has something to drain: Drain's Head is defined.
LInv == Typed /\ (draining => buffer # <<>>) /\ Paid

-----------------------------------------------------------------------------
(* Counting in sequences and among appliers.                               *)

\* The matching places of a sequence are finitely many.
LEMMA MatchingIsFinite ==
    ASSUME NEW s \in Seq(Updates), NEW k, NEW u
    PROVE  IsFiniteSet(Matching(s, k, u)) /\ Cardinality(Matching(s, k, u)) \in Nat
<1>1. Len(s) \in Nat
  OBVIOUS
<1>2. IsFiniteSet(1 .. Len(s))
  BY <1>1, FS_Interval
<1>3. Matching(s, k, u) \subseteq 1 .. Len(s)
  BY DEF Matching
<1>4. IsFiniteSet(Matching(s, k, u))
  BY <1>2, <1>3, FS_Subset
<1> QED  BY <1>4, FS_CardinalityType

\* The empty sequence matches nowhere.
LEMMA MatchingOfEmpty ==
    ASSUME NEW k, NEW u
    PROVE  Cardinality(Matching(<<>>, k, u)) = 0
<1>1. Matching(<<>>, k, u) = {}
  BY DEF Matching
<1> QED  BY <1>1, FS_EmptySet

\* An update that is appended is counted once, if it matches.
LEMMA MatchingOfAppend ==
    ASSUME NEW s \in Seq(Updates), NEW x \in Updates, NEW k, NEW u
    PROVE  Cardinality(Matching(Append(s, x), k, u))
             = Cardinality(Matching(s, k, u)) + One(Match(x, k, u))
<1> DEFINE t == Append(s, x)
           n == Len(s) + 1
<1>1. Len(s) \in Nat /\ Len(t) = n /\ t[n] = x /\ \A i \in 1 .. Len(s) : t[i] = s[i]
  OBVIOUS
<1>2. n \notin Matching(s, k, u)
  BY <1>1 DEF Matching
<1>3. CASE Match(x, k, u)
  <2>1. Matching(t, k, u) = Matching(s, k, u) \cup {n}
    BY <1>1, <1>3 DEF Matching
  <2> QED  BY <2>1, <1>2, <1>3, MatchingIsFinite, FS_AddElement DEF One
<1>4. CASE ~Match(x, k, u)
  <2>1. Matching(t, k, u) = Matching(s, k, u)
    BY <1>1, <1>4 DEF Matching
  <2> QED  BY <2>1, <1>4, MatchingIsFinite DEF One
<1> QED  BY <1>3, <1>4

\* The head of a sequence is counted once, if it matches, and the tail for the rest.
LEMMA MatchingOfTail ==
    ASSUME NEW s \in Seq(Updates), s # <<>>, NEW k, NEW u
    PROVE  Cardinality(Matching(s, k, u))
             = Cardinality(Matching(Tail(s), k, u)) + One(Match(Head(s), k, u))
<1> DEFINE t == Tail(s)
           T == Matching(t, k, u)
           U == {j \in Matching(s, k, u) : j # 1}
           f == [i \in T |-> i + 1]
<1>1. /\ t \in Seq(Updates) /\ Len(s) \in Nat /\ Len(s) >= 1
      /\ Len(t) = Len(s) - 1 /\ Head(s) = s[1]
      /\ \A i \in 1 .. Len(t) : t[i] = s[i + 1]
  OBVIOUS
<1>2. IsFiniteSet(T) /\ Cardinality(T) \in Nat
  BY <1>1, MatchingIsFinite
<1>3. f \in Bijection(T, U)
  <2>1. \A i \in T : i \in 1 .. Len(t) /\ i + 1 \in U
    BY <1>1 DEF Matching
  <2>2. \A j \in U : j - 1 \in T /\ f[j - 1] = j
    BY <1>1 DEF Matching
  <2>3. \A i, j \in T : f[i] = f[j] => i = j
    BY <2>1
  <2>4. f \in [T -> U]
    BY <2>1
  <2> QED  BY <2>2, <2>3, <2>4 DEF Bijection, Injection, Surjection, IsInjective
<1>4. IsFiniteSet(U) /\ Cardinality(U) = Cardinality(T)
  <2> HIDE DEF T, U, f
  <2>1. ExistsBijection(T, U)
    BY <1>3 DEF ExistsBijection
  <2> QED  BY <1>2, <2>1, FS_Bijection
<1>5. CASE Match(Head(s), k, u)
  <2>1. Matching(s, k, u) = U \cup {1}
    BY <1>1, <1>5 DEF Matching
  <2>2. 1 \notin U
    OBVIOUS
  <2> QED  BY <2>1, <2>2, <1>2, <1>4, <1>5, FS_AddElement DEF One
<1>6. CASE ~Match(Head(s), k, u)
  <2>1. Matching(s, k, u) = U
    BY <1>1, <1>6 DEF Matching
  <2> HIDE DEF U
  <2> QED  BY <2>1, <1>2, <1>4, <1>6 DEF One
<1> QED  BY <1>5, <1>6

\* The holders are finitely many.
LEMMA HoldersAreFinite ==
    ASSUME IsFiniteSet(Callers), NEW f, NEW k, NEW u
    PROVE  IsFiniteSet(Holders(f, k, u)) /\ Cardinality(Holders(f, k, u)) \in Nat
<1>1. IsFiniteSet(Appliers)
  BY FS_AddElement DEF Appliers
<1>2. Holders(f, k, u) \subseteq Appliers
  BY DEF Holders
<1> QED  BY <1>1, <1>2, FS_Subset, FS_CardinalityType

\* Nobody idle holds anything.
LEMMA HoldersOfIdle ==
    ASSUME NEW k \in Keys, NEW u
    PROVE  Cardinality(Holders([a \in Appliers |-> Idle], k, u)) = 0
<1>1. Holders([a \in Appliers |-> Idle], k, u) = {}
  BY DEF Holders, Holding, Idle, Keys
<1> QED  BY <1>1, FS_EmptySet

\* An applier that changes state gives up what it held and takes what it now holds.
LEMMA HoldersOfExcept ==
    ASSUME IsFiniteSet(Callers), NEW f \in [Appliers -> Tasks], NEW a \in Appliers,
           NEW v \in Tasks, NEW k \in Keys, NEW u
    PROVE  Cardinality(Holders([f EXCEPT ![a] = v], k, u)) + One(Holding(f[a], k, u))
             = Cardinality(Holders(f, k, u)) + One(Holding(v, k, u))
<1> DEFINE g == [f EXCEPT ![a] = v]
           Rest == {b \in Appliers : b # a /\ Holding(f[b], k, u)}
<1>1. /\ Holders(f, k, u) = IF Holding(f[a], k, u) THEN Rest \cup {a} ELSE Rest
      /\ Holders(g, k, u) = IF Holding(v, k, u) THEN Rest \cup {a} ELSE Rest
  BY DEF Holders
<1>2. IsFiniteSet(Rest) /\ Cardinality(Rest) \in Nat
  <2>1. Rest \subseteq Holders(f, k, u)
    BY DEF Holders
  <2> QED  BY <2>1, HoldersAreFinite, FS_Subset, FS_CardinalityType
<1>3. Cardinality(Rest \cup {a}) = Cardinality(Rest) + 1
  <2>1. a \notin Rest
    OBVIOUS
  <2> QED  BY <1>2, <2>1, FS_AddElement
<1> QED
  <2> HIDE DEF Rest, g
  <2>1. Cardinality(Holders(g, k, u)) = Cardinality(Rest) + One(Holding(v, k, u))
    BY <1>1, <1>2, <1>3 DEF One
  <2>2. Cardinality(Holders(f, k, u)) = Cardinality(Rest) + One(Holding(f[a], k, u))
    BY <1>1, <1>2, <1>3 DEF One
  <2>3. One(Holding(v, k, u)) \in Nat /\ One(Holding(f[a], k, u)) \in Nat
    BY DEF One
  <2> QED  BY <2>1, <2>2, <2>3, <1>2 DEF g

-----------------------------------------------------------------------------
(* The parts of a state that count.                                        *)

\* All three counts of Pending are numbers, and what a memory has of an upstream is.
LEMMA CountsAreNat ==
    ASSUME IsFiniteSet(Callers), Typed, NEW k \in Keys, NEW u \in Upstreams
    PROVE  /\ Cardinality(Matching(channel, k, u)) \in Nat
           /\ Cardinality(Matching(buffer, k, u)) \in Nat
           /\ Cardinality(Holders(applier, k, u)) \in Nat
           /\ Has(memory, k, u) \in Nat
           /\ Has(file, k, u) \in Nat
           /\ reported[k][u] \in Nat
<1>1. memory[k].count \in Nat /\ file[k].count \in Nat
  BY DEF Typed, WeakMemories
<1>2. Has(memory, k, u) \in Nat /\ Has(file, k, u) \in Nat
  BY <1>1 DEF Has
<1>3. reported[k][u] \in Nat
  BY DEF Typed
<1> QED  BY <1>2, <1>3, MatchingIsFinite, HoldersAreFinite DEF Typed

\* A success adds at most one to the best upstream's count, and nothing to another's.
LEMMA UpdateCountsOne ==
    ASSUME NEW m \in [best : Upstreams \cup {"none"}, count : Nat], NEW w \in Upstreams \cup {"none"},
           NEW faster \in BOOLEAN, NEW n, n = Update(m, w, faster) \/ n = First(w)
    PROVE  /\ n \in [best : Upstreams \cup {"none"}, count : Nat]
           /\ n.best = w => n.count <= (IF m.best = w THEN m.count ELSE 0) + 1
           /\ n.best # w => n = m
<1>1. Counted(m.count) \in Nat /\ Counted(m.count) <= m.count + 1
  BY DEF Counted
<1>2. CASE n = First(w)
  BY <1>2 DEF First
<1>3. CASE m.best = w /\ n = [m EXCEPT !.count = Counted(@)]
  BY <1>1, <1>3
<1>4. CASE m.best # w /\ n = m
  BY <1>4
<1> QED  BY <1>2, <1>3, <1>4 DEF Update

\* A memory whose entry is updated for w.
LEMMA HasOfExcept ==
    ASSUME NEW m \in WeakMemories, NEW key \in Keys,
           NEW w \in Upstreams \cup {"none"}, NEW faster \in BOOLEAN,
           NEW n, n = Update(m[key], w, faster) \/ n = First(w),
           NEW k \in Keys, NEW u \in Upstreams
    PROVE  /\ [m EXCEPT ![key] = n] \in WeakMemories
           /\ Has([m EXCEPT ![key] = n], k, u) <= Has(m, k, u) + One(k = key /\ u = w)
<1>1. m[key] \in [best : Upstreams \cup {"none"}, count : Nat] /\ m[k].count \in Nat
  BY DEF WeakMemories
<1>2. /\ n \in [best : Upstreams \cup {"none"}, count : Nat]
      /\ n.best = w => n.count <= (IF m[key].best = w THEN m[key].count ELSE 0) + 1
      /\ n.best # w => n = m[key]
  BY <1>1, UpdateCountsOne
<1>3. [m EXCEPT ![key] = n] \in WeakMemories
  BY <1>2 DEF WeakMemories
<1>4. CASE k # key
  <2>1. [m EXCEPT ![key] = n][k] = m[k]
    BY <1>4
  <2> QED  BY <1>1, <1>3, <1>4, <2>1 DEF Has, One
<1>5. CASE k = key /\ n.best = w /\ u = w
  BY <1>1, <1>2, <1>5 DEF Has, One, WeakMemories
<1>6. CASE k = key /\ n.best = w /\ u # w
  BY <1>1, <1>2, <1>6 DEF Has, One, WeakMemories
<1>7. CASE k = key /\ n.best # w
  BY <1>1, <1>2, <1>7 DEF Has, One, WeakMemories
<1> QED  BY <1>3, <1>4, <1>5, <1>6, <1>7

-----------------------------------------------------------------------------
(* The steps.                                                              *)

\* A reported result is pending once more, wherever it goes.
LEMMA ReportKeeps ==
    ASSUME IsFiniteSet(Callers), LInv, NEW c \in Callers, NEW key \in Keys,
           NEW w \in Upstreams, Report(c, key, w)
    PROVE  LInv'
<1> DEFINE x == [key |-> key, upstream |-> w]
           v == [at |-> key, upstream |-> w]
<1> USE DEF LInv
<1>1. x \in Updates /\ v \in Tasks /\ c \in Appliers /\ Idle \in Tasks
  BY DEF Updates, Tasks, Appliers, Idle
<1>2. reported' = [k \in Keys |->
          IF k = key \/ k = "global" THEN [reported[k] EXCEPT ![w] = @ + 1] ELSE reported[k]]
  BY DEF Report
<1>3. /\ reported' \in [Keys -> [Upstreams -> Nat]]
      /\ \A k \in Keys, u \in Upstreams :
            reported'[k][u] = reported[k][u] + One(Match(x, k, u))
  BY <1>2 DEF Typed, One, Match
<1>4. Typed'
  <2>1. channel' \in Seq(Updates)
    <3>1. channel \in Seq(Updates)
      BY DEF Typed
    <3>2. channel' = channel \/ channel' = Append(channel, x)
      BY DEF Report
    <3> HIDE DEF x
    <3> QED  BY <1>1, <3>1, <3>2
  <2>2. applier' \in [Appliers -> Tasks]
    BY <1>1 DEF Typed, Report
  <2> QED  BY <1>3, <2>1, <2>2 DEF Typed, Report
<1>5. (draining => buffer # <<>>)'
  BY DEF Report
<1>6. ASSUME NEW k \in Keys, NEW u \in Upstreams
      PROVE  /\ Has(memory, k, u)' + Pending(k, u)' <= reported[k][u]'
             /\ Has(file, k, u)' <= reported[k][u]'
  <2>0. /\ Cardinality(Matching(channel, k, u)) \in Nat
        /\ Cardinality(Matching(buffer, k, u)) \in Nat
        /\ Cardinality(Holders(applier, k, u)) \in Nat
        /\ Has(memory, k, u) \in Nat /\ Has(file, k, u) \in Nat /\ reported[k][u] \in Nat
    BY CountsAreNat
  <2>1. Has(memory, k, u)' = Has(memory, k, u) /\ Has(file, k, u)' = Has(file, k, u)
        /\ Cardinality(Matching(buffer, k, u))' = Cardinality(Matching(buffer, k, u))
    BY DEF Report, Has
  <2>2. Pending(k, u)' = Pending(k, u) + One(Match(x, k, u))
    <3>1. CASE channel' = Append(channel, x) /\ UNCHANGED applier
      <4>1. Cardinality(Matching(channel, k, u))'
              = Cardinality(Matching(channel, k, u)) + One(Match(x, k, u))
        BY <1>1, <3>1, MatchingOfAppend DEF Typed
      <4>2. Cardinality(Holders(applier, k, u))' = Cardinality(Holders(applier, k, u))
        BY <3>1
      <4>3. One(Match(x, k, u)) \in Nat
        BY OneIsNat DEF Match
      <4> QED  BY <2>0, <2>1, <4>1, <4>2, <4>3 DEF Pending
    <3>2. CASE applier' = [applier EXCEPT ![c] = v] /\ UNCHANGED channel
      <4>1. Cardinality(Holders([applier EXCEPT ![c] = v], k, u)) + One(Holding(applier[c], k, u))
              = Cardinality(Holders(applier, k, u)) + One(Holding(v, k, u))
        <5>1. applier \in [Appliers -> Tasks]
          BY DEF Typed
        <5> HIDE DEF v, x, LInv
        <5>2. v \in Tasks /\ c \in Appliers
          BY <1>1
        <5>3. IsFiniteSet(Callers)
          OBVIOUS
        <5> QED  BY ONLY <5>1, <5>2, <5>3, HoldersOfExcept
      <4>2. One(Holding(applier[c], k, u)) = 0
        BY DEF Report, Holding, Idle, One, Keys
      <4>3. One(Holding(v, k, u)) = One(Match(x, k, u))
        BY DEF Holding, Match, One, Keys
      <4>4. Cardinality(Holders(applier, k, u))' \in Nat /\ One(Match(x, k, u)) \in Nat
        BY HoldersAreFinite, OneIsNat DEF Match
      <4>5. Cardinality(Matching(channel, k, u))' = Cardinality(Matching(channel, k, u))
        BY <3>2
      <4>6. Cardinality(Holders(applier, k, u))' = Cardinality(Holders([applier EXCEPT ![c] = v], k, u))
        BY <3>2
      <4> QED  BY <2>0, <2>1, <4>1, <4>2, <4>3, <4>4, <4>5, <4>6 DEF Pending
    <3> QED  BY <3>1, <3>2 DEF Report
  <2>3. One(Match(x, k, u)) \in Nat
    BY OneIsNat DEF Match
  <2>5. Pending(k, u) \in Nat
    BY <2>0 DEF Pending
  <2>4. Has(memory, k, u) + Pending(k, u) <= reported[k][u] /\ Has(file, k, u) <= reported[k][u]
    BY DEF Paid
  <2>6. reported'[k][u] = reported[k][u] + One(Match(x, k, u))
    BY <1>3
  <2> HIDE DEF x, LInv
  <2> QED  BY <2>0, <2>1, <2>2, <2>3, <2>4, <2>5, <2>6
<1> QED  BY <1>4, <1>5, <1>6 DEF Paid

\* The learner moves an update from the channel to its batch.
LEMMA ReceiveKeeps ==
    ASSUME IsFiniteSet(Callers), LInv, Receive
    PROVE  LInv'
<1> USE DEF LInv
<1>1. /\ Head(channel) \in Updates /\ Tail(channel) \in Seq(Updates)
      /\ channel \in Seq(Updates) /\ channel # <<>>
  BY DEF Typed, Receive
<1>2. Typed'
  BY <1>1 DEF Typed, Receive
<1>3. (draining => buffer # <<>>)'
  BY <1>1 DEF Typed, Receive
<1>4. ASSUME NEW k \in Keys, NEW u \in Upstreams
      PROVE  Pending(k, u)' = Pending(k, u)
  <2>0. /\ Cardinality(Matching(channel, k, u)) \in Nat
        /\ Cardinality(Matching(buffer, k, u)) \in Nat
        /\ Cardinality(Holders(applier, k, u)) \in Nat
        /\ Has(memory, k, u) \in Nat /\ Has(file, k, u) \in Nat /\ reported[k][u] \in Nat
    BY CountsAreNat
  <2>1. Cardinality(Matching(channel, k, u))
          = Cardinality(Matching(Tail(channel), k, u)) + One(Match(Head(channel), k, u))
    BY <1>1, MatchingOfTail
  <2>2. Cardinality(Matching(Append(buffer, Head(channel)), k, u))
          = Cardinality(Matching(buffer, k, u)) + One(Match(Head(channel), k, u))
    BY <1>1, MatchingOfAppend DEF Typed
  <2>3. /\ Cardinality(Matching(channel, k, u))' = Cardinality(Matching(Tail(channel), k, u))
        /\ Cardinality(Matching(buffer, k, u))'
              = Cardinality(Matching(Append(buffer, Head(channel)), k, u))
        /\ Cardinality(Holders(applier, k, u))' = Cardinality(Holders(applier, k, u))
    BY DEF Receive
  <2>4. Cardinality(Matching(Tail(channel), k, u)) \in Nat /\ One(Match(Head(channel), k, u)) \in Nat
    BY <1>1, MatchingIsFinite, OneIsNat DEF Match
  <2> QED  BY <2>1, <2>2, <2>3, <2>4, <2>0 DEF Pending
<1>5. Paid'
  BY <1>4 DEF Paid, Receive, Has
<1> QED  BY <1>2, <1>3, <1>5

\* The learner takes the next update of its batch.
LEMMA DrainKeeps ==
    ASSUME IsFiniteSet(Callers), LInv, Drain
    PROVE  LInv'
<1> DEFINE v == [at |-> Head(buffer).key, upstream |-> Head(buffer).upstream]
<1> USE DEF LInv
<1>1. /\ Head(buffer) \in Updates /\ Tail(buffer) \in Seq(Updates)
      /\ buffer \in Seq(Updates) /\ buffer # <<>>
  BY DEF Typed, Drain
<1>2. v \in Tasks /\ Learner \in Appliers
  BY <1>1 DEF Updates, Tasks, Appliers
<1>3. Typed' /\ (draining => buffer # <<>>)'
  <2>1. applier' = [applier EXCEPT ![Learner] = v] /\ buffer' = Tail(buffer)
    BY DEF Drain
  <2>2. applier' \in [Appliers -> Tasks]
    BY <1>2, <2>1 DEF Typed
  <2> QED  BY <1>1, <2>1, <2>2 DEF Typed, Drain
<1>4. ASSUME NEW k \in Keys, NEW u \in Upstreams
      PROVE  Pending(k, u)' = Pending(k, u)
  <2>0. /\ Cardinality(Matching(channel, k, u)) \in Nat
        /\ Cardinality(Matching(buffer, k, u)) \in Nat
        /\ Cardinality(Holders(applier, k, u)) \in Nat
        /\ Has(memory, k, u) \in Nat /\ Has(file, k, u) \in Nat /\ reported[k][u] \in Nat
    BY CountsAreNat
  <2>1. Cardinality(Matching(buffer, k, u))
          = Cardinality(Matching(Tail(buffer), k, u)) + One(Match(Head(buffer), k, u))
    BY <1>1, MatchingOfTail
  <2>2. Cardinality(Holders([applier EXCEPT ![Learner] = v], k, u)) + One(Holding(applier[Learner], k, u))
          = Cardinality(Holders(applier, k, u)) + One(Holding(v, k, u))
    BY <1>2, HoldersOfExcept DEF Typed
  <2>3. One(Holding(applier[Learner], k, u)) = 0
    BY DEF Drain, Holding, Idle, One, Keys
  <2>4. One(Holding(v, k, u)) = One(Match(Head(buffer), k, u))
    BY <1>1 DEF Holding, Match, One, Keys, Updates
  <2>5. /\ Cardinality(Matching(buffer, k, u))' = Cardinality(Matching(Tail(buffer), k, u))
        /\ Cardinality(Holders(applier, k, u))'
              = Cardinality(Holders([applier EXCEPT ![Learner] = v], k, u))
        /\ Cardinality(Matching(channel, k, u))' = Cardinality(Matching(channel, k, u))
    BY DEF Drain
  <2>6. /\ Cardinality(Matching(Tail(buffer), k, u)) \in Nat
        /\ Cardinality(Holders([applier EXCEPT ![Learner] = v], k, u)) \in Nat
        /\ One(Match(Head(buffer), k, u)) \in Nat
    BY <1>1, MatchingIsFinite, HoldersAreFinite, OneIsNat DEF Match
  <2> QED  BY <2>1, <2>2, <2>3, <2>4, <2>5, <2>6, <2>0 DEF Pending
<1>5. Paid'
  BY <1>4 DEF Paid, Drain, Has
<1> QED  BY <1>3, <1>5

\* An applier goes from what it holds to v.
LEMMA ApplierMoves ==
    ASSUME IsFiniteSet(Callers), Typed, UNCHANGED queueVars, NEW a \in Appliers,
           NEW v \in Tasks, applier' = [applier EXCEPT ![a] = v],
           NEW k \in Keys, NEW u \in Upstreams
    PROVE  /\ applier' \in [Appliers -> Tasks]
           /\ Pending(k, u) \in Nat /\ Pending(k, u)' \in Nat
           /\ Pending(k, u)' + One(Holding(applier[a], k, u))
                 = Pending(k, u) + One(Holding(v, k, u))
<1>1. applier \in [Appliers -> Tasks]
  BY DEF Typed
<1>2. Cardinality(Holders([applier EXCEPT ![a] = v], k, u)) + One(Holding(applier[a], k, u))
        = Cardinality(Holders(applier, k, u)) + One(Holding(v, k, u))
  BY <1>1, HoldersOfExcept
<1>3. /\ Cardinality(Holders(applier, k, u))'
            = Cardinality(Holders([applier EXCEPT ![a] = v], k, u))
      /\ Cardinality(Matching(channel, k, u))' = Cardinality(Matching(channel, k, u))
      /\ Cardinality(Matching(buffer, k, u))' = Cardinality(Matching(buffer, k, u))
  BY DEF queueVars
<1>4. /\ Cardinality(Holders([applier EXCEPT ![a] = v], k, u)) \in Nat
      /\ One(Holding(applier[a], k, u)) \in Nat /\ One(Holding(v, k, u)) \in Nat
  BY HoldersAreFinite, OneIsNat DEF Holding
<1>5. /\ Cardinality(Matching(channel, k, u)) \in Nat
      /\ Cardinality(Matching(buffer, k, u)) \in Nat
      /\ Cardinality(Holders(applier, k, u)) \in Nat
  BY CountsAreNat
<1>6. applier' \in [Appliers -> Tasks]
  BY <1>1
<1> QED  BY <1>2, <1>3, <1>4, <1>5, <1>6 DEF Pending

\* An applier that counts a result of w in key, of those it holds, and may keep others.
LEMMA ApplierCounts ==
    ASSUME IsFiniteSet(Callers), LInv, NEW a \in Appliers, NEW v \in Tasks,
           NEW key \in Keys, NEW faster \in BOOLEAN, NEW n,
           n = Update(memory[key], applier[a].upstream, faster)
              \/ n = First(applier[a].upstream),
           \A k \in Keys, u \in Upstreams :
              One(k = key /\ u = applier[a].upstream) + One(Holding(v, k, u))
                <= One(Holding(applier[a], k, u)),
           memory' = [memory EXCEPT ![key] = n], applier' = [applier EXCEPT ![a] = v],
           UNCHANGED <<queueVars, file, reported>>
    PROVE  LInv'
<1> DEFINE w == applier[a].upstream
<1>1. /\ w \in Upstreams \cup {"none"} /\ memory \in WeakMemories
      /\ applier \in [Appliers -> Tasks]
  BY DEF LInv, Typed, Tasks
<1>2. memory' \in WeakMemories /\ applier' \in [Appliers -> Tasks]
  <2>1. applier' \in [Appliers -> Tasks]
    BY <1>1
  <2>2. [memory EXCEPT ![key] = n] \in WeakMemories
    <3>1. n \in [best : Upstreams \cup {"none"}, count : Nat]
      <4>1. memory[key] \in [best : Upstreams \cup {"none"}, count : Nat]
        BY <1>1 DEF WeakMemories
      <4> QED  BY <1>1, <4>1, UpdateCountsOne
    <3> QED  BY <1>1, <3>1 DEF WeakMemories
  <2> QED  BY <2>1, <2>2
<1>3. Typed' /\ (draining => buffer # <<>>)'
  BY <1>2 DEF LInv, Typed, queueVars
<1>4. ASSUME NEW k \in Keys, NEW u \in Upstreams
      PROVE  /\ Has(memory, k, u)' + Pending(k, u)' <= reported[k][u]'
             /\ Has(file, k, u)' <= reported[k][u]'
  <2>1. Has(memory, k, u)' <= Has(memory, k, u) + One(k = key /\ u = w)
    <3>1. Has([memory EXCEPT ![key] = n], k, u) <= Has(memory, k, u) + One(k = key /\ u = w)
      <4>1. n = Update(memory[key], w, faster) \/ n = First(w)
        OBVIOUS
      <4> HIDE DEF w
      <4> QED  BY ONLY <1>1, <4>1, HasOfExcept, k \in Keys, u \in Upstreams,
                 key \in Keys, faster \in BOOLEAN
    <3> QED  BY <3>1 DEF Has
  <2>2. /\ Pending(k, u) \in Nat /\ Pending(k, u)' \in Nat
        /\ Pending(k, u)' + One(Holding(applier[a], k, u))
              = Pending(k, u) + One(Holding(v, k, u))
    BY ApplierMoves DEF LInv
  <2>3. /\ One(k = key /\ u = w) \in Nat
        /\ One(Holding(v, k, u)) \in Nat /\ One(Holding(applier[a], k, u)) \in Nat
    BY OneIsNat DEF Holding
  <2>4. One(k = key /\ u = w) + One(Holding(v, k, u)) <= One(Holding(applier[a], k, u))
    OBVIOUS
  <2>5. Has(memory, k, u) \in Nat /\ Has(memory, k, u)' \in Nat /\ reported[k][u] \in Nat
    <3>1. memory'[k].count \in Nat
      BY <1>2 DEF WeakMemories
    <3> QED  BY <3>1, CountsAreNat DEF LInv, Has
  <2>6. Has(memory, k, u) + Pending(k, u) <= reported[k][u]
    BY DEF LInv, Paid
  <2>7. reported[k][u]' = reported[k][u]
    OBVIOUS
  <2>8. Has(file, k, u)' <= reported[k][u]'
    BY DEF LInv, Paid, Has
  <2> HIDE DEF w
  <2> QED  BY ONLY <2>1, <2>2, <2>3, <2>4, <2>5, <2>6, <2>7, <2>8
<1> QED  BY <1>3, <1>4 DEF LInv, Paid

\* A client's result is counted for its subnet; the applier keeps it for everyone.
LEMMA ApplyClientKeeps ==
    ASSUME IsFiniteSet(Callers), LInv, NEW a \in Appliers, ApplyClient(a)
    PROVE  LInv'
<1> DEFINE w == applier[a].upstream
           v == [applier[a] EXCEPT !.at = "global"]
<1>1. applier[a] \in Tasks /\ applier \in [Appliers -> Tasks] /\ applier[a].at = "client"
  BY DEF LInv, Typed, ApplyClient
<1>2. v \in Tasks /\ v.at = "global" /\ v.upstream = w
  BY <1>1 DEF Tasks, Keys
<1>3. PICK faster \in BOOLEAN :
         memory' = [memory EXCEPT !["client"] =
            IF @ = Nothing THEN First(w) ELSE Update(@, w, faster)]
  BY DEF ApplyClient
<1>4. applier' = [applier EXCEPT ![a] = v]
  BY <1>1 DEF ApplyClient
<1>5. ASSUME NEW k \in Keys, NEW u \in Upstreams
      PROVE  One(k = "client" /\ u = w) + One(Holding(v, k, u)) <= One(Holding(applier[a], k, u))
  BY <1>1, <1>2 DEF One, Holding, Keys
<1>6. PICK n : /\ n = Update(memory["client"], w, faster) \/ n = First(w)
               /\ memory' = [memory EXCEPT !["client"] = n]
  BY <1>3
<1>7. "client" \in Keys /\ UNCHANGED <<queueVars, file, reported>>
  BY DEF Keys, ApplyClient
<1> HIDE DEF v
<1> QED  BY <1>2, <1>4, <1>5, <1>6, <1>7, ApplierCounts

\* A result is counted for everyone, or its applier is about to insert it.
LEMMA ApplyGlobalKeeps ==
    ASSUME IsFiniteSet(Callers), LInv, NEW a \in Appliers, ApplyGlobal(a)
    PROVE  LInv'
<1> DEFINE w == applier[a].upstream
           v == [applier[a] EXCEPT !.at = "insert"]
<1>1. applier[a] \in Tasks /\ applier \in [Appliers -> Tasks] /\ applier[a].at = "global"
  BY DEF LInv, Typed, ApplyGlobal
<1>2. "global" \in Keys /\ UNCHANGED <<queueVars, file, reported>> /\ Idle \in Tasks
  BY DEF Keys, ApplyGlobal, Idle, Tasks
<1>3. CASE applier' = [applier EXCEPT ![a].at = "insert"] /\ UNCHANGED memory
  <2>1. v \in Tasks /\ v.at = "insert" /\ v.upstream = w
    BY <1>1 DEF Tasks, Keys
  <2>2. applier' = [applier EXCEPT ![a] = v]
    BY <1>1, <1>3
  <2>3. ASSUME NEW k \in Keys, NEW u \in Upstreams
        PROVE  One(Holding(v, k, u)) = One(Holding(applier[a], k, u))
    BY <1>1, <2>1 DEF One, Holding, Keys
  <2> HIDE DEF v
  <2>4. ASSUME NEW k \in Keys, NEW u \in Upstreams
        PROVE  Pending(k, u)' = Pending(k, u)
    <3>1. /\ Pending(k, u) \in Nat /\ Pending(k, u)' \in Nat
          /\ Pending(k, u)' + One(Holding(applier[a], k, u))
                = Pending(k, u) + One(Holding(v, k, u))
      BY <1>2, <2>1, <2>2, ApplierMoves DEF LInv
    <3>2. One(Holding(v, k, u)) \in Nat
      BY OneIsNat DEF Holding
    <3> QED  BY <2>3, <3>1, <3>2
  <2>5. Typed' /\ (draining => buffer # <<>>)'
    BY <1>1, <1>2, <1>3, <2>1, <2>2 DEF LInv, Typed, queueVars
  <2>6. Paid'
    BY <1>2, <1>3, <2>4 DEF LInv, Paid, Has
  <2> QED  BY <2>5, <2>6 DEF LInv
<1>4. CASE /\ \E faster \in BOOLEAN :
                 memory' = [memory EXCEPT !["global"] = Update(@, w, faster)]
           /\ applier' = [applier EXCEPT ![a] = Idle]
  <2>1. PICK faster \in BOOLEAN :
           memory' = [memory EXCEPT !["global"] = Update(memory["global"], w, faster)]
    BY <1>4
  <2>2. ASSUME NEW k \in Keys, NEW u \in Upstreams
        PROVE  One(k = "global" /\ u = w) + One(Holding(Idle, k, u))
                 <= One(Holding(applier[a], k, u))
    BY <1>1 DEF One, Holding, Keys, Idle
  <2> QED  BY <1>2, <1>4, <2>1, <2>2, ApplierCounts
<1> QED  BY <1>3, <1>4 DEF ApplyGlobal

\* The applier that found no entry inserts one, whatever is there by now.
LEMMA InsertKeeps ==
    ASSUME IsFiniteSet(Callers), LInv, NEW a \in Appliers, Insert(a)
    PROVE  LInv'
<1> DEFINE w == applier[a].upstream
<1>1. applier[a] \in Tasks /\ applier[a].at = "insert"
  BY DEF LInv, Typed, Insert
<1>2. /\ "global" \in Keys /\ UNCHANGED <<queueVars, file, reported>> /\ Idle \in Tasks
      /\ applier' = [applier EXCEPT ![a] = Idle]
      /\ memory' = [memory EXCEPT !["global"] = First(w)]
  BY DEF Keys, Insert, Idle, Tasks
<1>3. ASSUME NEW k \in Keys, NEW u \in Upstreams
      PROVE  One(k = "global" /\ u = w) + One(Holding(Idle, k, u))
               <= One(Holding(applier[a], k, u))
  BY <1>1 DEF One, Holding, Keys, Idle
<1>4. TRUE \in BOOLEAN
  OBVIOUS
<1> QED  BY <1>2, <1>3, <1>4, ApplierCounts

\* What is forgotten counts for less.
LEMMA ForgetKeeps ==
    ASSUME IsFiniteSet(Callers), LInv, NEW key \in Keys, Forget(key)
    PROVE  LInv'
<1>1. Typed' /\ (draining => buffer # <<>>)'
  BY DEF LInv, Typed, Forget, queueVars, WeakMemories, Nothing
<1>2. ASSUME NEW k \in Keys, NEW u \in Upstreams
      PROVE  Has(memory, k, u)' <= Has(memory, k, u) /\ Has(memory, k, u)' \in Nat
  <2>1. Has(memory, k, u) \in Nat /\ memory \in WeakMemories
    BY CountsAreNat DEF LInv, Typed
  <2>2. CASE k = key
    BY <2>1, <2>2 DEF Has, Forget, Nothing, WeakMemories
  <2>3. CASE k # key
    BY <2>1, <2>3 DEF Has, Forget, WeakMemories
  <2> QED  BY <2>2, <2>3
<1>3. ASSUME NEW k \in Keys, NEW u \in Upstreams
      PROVE  Pending(k, u)' = Pending(k, u) /\ Pending(k, u) \in Nat
  BY CountsAreNat DEF LInv, Forget, queueVars, Pending
<1>4. ASSUME NEW k \in Keys, NEW u \in Upstreams
      PROVE  Has(memory, k, u)' + Pending(k, u)' <= reported[k][u]'
  <2>1. Has(memory, k, u) + Pending(k, u) <= reported[k][u] /\ reported[k][u]' = reported[k][u]
    BY DEF LInv, Paid, Forget
  <2> QED  BY <1>2, <1>3, <2>1, CountsAreNat DEF LInv
<1>5. Paid'
  BY <1>4 DEF LInv, Paid, Forget, Has
<1> QED  BY <1>1, <1>5 DEF LInv

\* The file holds what the memory held, or nothing that can be read.
LEMMA SaveKeeps ==
    ASSUME IsFiniteSet(Callers), LInv, Save
    PROVE  LInv'
<1>1. Typed' /\ (draining => buffer # <<>>)'
  BY DEF LInv, Typed, Save, queueVars, WeakMemories, NoMemory, Nothing
<1>2. ASSUME NEW k \in Keys, NEW u \in Upstreams
      PROVE  /\ Has(memory, k, u)' + Pending(k, u)' <= reported[k][u]'
             /\ Has(file, k, u)' <= reported[k][u]'
  <2>1. Has(memory, k, u)' = Has(memory, k, u) /\ Pending(k, u)' = Pending(k, u)
        /\ reported[k][u]' = reported[k][u]
    BY DEF Save, queueVars, Pending, Has
  <2>2. Has(memory, k, u) + Pending(k, u) <= reported[k][u]
    BY DEF LInv, Paid
  <2>3. Pending(k, u) \in Nat /\ Has(memory, k, u) \in Nat /\ reported[k][u] \in Nat
    BY CountsAreNat DEF LInv, Pending
  <2>4. Has(file, k, u)' = Has(memory, k, u) \/ Has(file, k, u)' = 0
    BY DEF Save, Has, NoMemory, Nothing
  <2> QED  BY <2>1, <2>2, <2>3, <2>4
<1> QED  BY <1>1, <1>2 DEF LInv, Paid

\* A new process counts what the file does, and nothing is pending.
LEMMA RestartKeeps ==
    ASSUME IsFiniteSet(Callers), LInv, Restart
    PROVE  LInv'
<1>1. /\ applier' = [a \in Appliers |-> Idle] /\ applier' \in [Appliers -> Tasks]
      /\ channel' = <<>> /\ buffer' = <<>> /\ <<>> \in Seq(Updates)
  BY DEF Restart, Tasks, Idle
<1>2. Typed' /\ (draining => buffer # <<>>)'
  BY <1>1 DEF LInv, Typed, Restart
<1>3. ASSUME NEW k \in Keys, NEW u \in Upstreams
      PROVE  Pending(k, u)' = 0
  BY <1>1, MatchingOfEmpty, HoldersOfIdle DEF Pending
<1>4. ASSUME NEW k \in Keys, NEW u \in Upstreams
      PROVE  /\ Has(memory, k, u)' + Pending(k, u)' <= reported[k][u]'
             /\ Has(file, k, u)' <= reported[k][u]'
  <2>1. Has(memory, k, u)' = Has(file, k, u) /\ Has(file, k, u)' = Has(file, k, u)
        /\ reported[k][u]' = reported[k][u]
    BY DEF Restart, Has
  <2>2. Has(file, k, u) <= reported[k][u] /\ Has(file, k, u) \in Nat
    BY CountsAreNat DEF LInv, Paid
  <2> QED  BY <1>3, <2>1, <2>2
<1> QED  BY <1>2, <1>4 DEF LInv, Paid

-----------------------------------------------------------------------------
(* The memory.                                                             *)

\* Nothing is reported, and nothing counted.
LEMMA LInit ==
    ASSUME IsFiniteSet(Callers), Init
    PROVE  LInv
<1>1. Typed
  BY DEF Init, Typed, WeakMemories, NoMemory, Nothing, Idle, Tasks
<1>2. ASSUME NEW k \in Keys, NEW u \in Upstreams
      PROVE  Has(memory, k, u) = 0 /\ Has(file, k, u) = 0 /\ reported[k][u] = 0
  BY DEF Init, Has, NoMemory, Nothing
<1>3. ASSUME NEW k \in Keys, NEW u \in Upstreams
      PROVE  Pending(k, u) = 0
  BY MatchingOfEmpty, HoldersOfIdle DEF Init, Pending
<1> QED  BY <1>1, <1>2, <1>3 DEF Init, LInv, Paid

\* Every step keeps what is counted paid for.
LEMMA LStep ==
    ASSUME IsFiniteSet(Callers), LInv, [Next]_learningVars
    PROVE  LInv'
<1>1. ASSUME NEW c \in Callers, NEW k \in Keys, NEW u \in Upstreams, Report(c, k, u)
      PROVE  LInv'
  BY <1>1, ReportKeeps
<1>2. CASE Receive
  BY <1>2, ReceiveKeeps
<1>3. CASE Tick
  BY <1>3 DEF Tick, LInv, Typed, Paid, Pending, Has
<1>4. CASE Drain
  BY <1>4, DrainKeeps
<1>5. ASSUME NEW a \in Appliers, ApplyClient(a) \/ ApplyGlobal(a) \/ Insert(a)
      PROVE  LInv'
  BY <1>5, ApplyClientKeeps, ApplyGlobalKeeps, InsertKeeps
<1>6. ASSUME NEW k \in Keys, Forget(k)
      PROVE  LInv'
  BY <1>6, ForgetKeeps
<1>7. CASE Save
  BY <1>7, SaveKeeps
<1>8. CASE Restart
  BY <1>8, RestartKeeps
<1>9. CASE UNCHANGED learningVars
  BY <1>9 DEF learningVars, queueVars, LInv, Typed, Paid, Pending, Has
<1> QED  BY <1>1, <1>2, <1>3, <1>4, <1>5, <1>6, <1>7, <1>8, <1>9 DEF Next

\* What the memory recommends it counted Needed successes of.
LEMMA PaidIsEarned ==
    ASSUME IsFiniteSet(Callers), Needed \in Nat, LInv
    PROVE  ConfidenceEarned
<1> SUFFICES ASSUME NEW k \in Keys, NEW u \in Upstreams, Recommends(k, u)
             PROVE  reported[k][u] >= Needed
  BY DEF ConfidenceEarned
<1>1. Has(memory, k, u) >= Needed
  BY DEF Recommends, Has
<1>2. Has(memory, k, u) + Pending(k, u) <= reported[k][u]
  BY DEF LInv, Paid
<1>3. Has(memory, k, u) \in Nat /\ Pending(k, u) \in Nat /\ reported[k][u] \in Nat
  BY CountsAreNat DEF LInv, Pending
<1> QED  BY <1>1, <1>2, <1>3

\* An upstream is recommended for a domain, or to a subnet, only after Needed results
\* of its own were reported there (get_domain_best_upstream).
THEOREM ConfidenceIsEarned ==
    ASSUME IsFiniteSet(Callers), Needed \in Nat
    PROVE  Spec => []ConfidenceEarned
<1>1. Init => LInv
  BY LInit
<1>2. LInv /\ [Next]_learningVars => LInv'
  BY LStep
<1>3. LInv => ConfidenceEarned
  BY PaidIsEarned
<1> QED  BY <1>1, <1>2, <1>3, PTL DEF Spec

-----------------------------------------------------------------------------
(* The health record.                                                      *)

HInv ==
    /\ record \in [Recorders -> SUBSET Metrics!Steps]
    /\ ~healthy /\ lastUnhealthy = "never" => \E r \in Recorders : "note" \in record[r]

\* Only noting the time takes "note" off the list of what a recorder has yet to do.
LEMMA NoteStays ==
    ASSUME HInv, NEW r \in Recorders, NEW step \in Metrics!Steps,
           NEW then \in SUBSET Metrics!Steps, Metrics!Does(r, step, then), step # "note"
    PROVE  /\ record' \in [Recorders -> SUBSET Metrics!Steps]
           /\ \A q \in Recorders : "note" \in record[q] => "note" \in record'[q]
           /\ then \subseteq record'[r]
  BY DEF HInv, Metrics!Does

\* Every access of record_probe keeps a time, or somebody to write it.
LEMMA HStep ==
    ASSUME HInv, [Metrics!Next]_(Metrics!healthVars)
    PROVE  HInv'
<1> USE DEF HInv
<1>1. CASE Metrics!Pass
  BY <1>1 DEF Metrics!Pass
<1>2. ASSUME NEW r \in Recorders, Metrics!Begin(r)
      PROVE  HInv'
  <2>1. record' \in [Recorders -> SUBSET Metrics!Steps]
    BY <1>2 DEF Metrics!Begin, Metrics!Steps
  <2>2. \A q \in Recorders : "note" \in record[q] => "note" \in record'[q]
    BY <1>2 DEF Metrics!Begin
  <2> QED  BY <1>2, <2>1, <2>2 DEF Metrics!Begin
<1>3. ASSUME NEW r \in Recorders, Metrics!Reset(r) \/ Metrics!Load(r) \/ Metrics!Count(r)
      PROVE  HInv'
  <2>1. PICK step \in {"reset", "load", "count"}, then \in SUBSET Metrics!Steps :
           Metrics!Does(r, step, then)
    BY <1>3 DEF Metrics!Reset, Metrics!Load, Metrics!Count, Metrics!Steps
  <2>2. UNCHANGED <<healthy, lastUnhealthy>>
    BY <1>3 DEF Metrics!Reset, Metrics!Load, Metrics!Count
  <2>3. step \in Metrics!Steps /\ step # "note"
    BY DEF Metrics!Steps
  <2> QED  BY <2>1, <2>2, <2>3, NoteStays
<1>4. ASSUME NEW r \in Recorders, Metrics!Store(r)
      PROVE  HInv'
  BY <1>4, NoteStays DEF Metrics!Store, Metrics!Steps
<1>5. ASSUME NEW r \in Recorders, Metrics!Swap(r)
      PROVE  HInv'
  <2>1. CASE healthy
    BY <1>5, <2>1, NoteStays DEF Metrics!Swap, Metrics!Steps
  <2>2. CASE ~healthy
    BY <1>5, <2>2, NoteStays DEF Metrics!Swap, Metrics!Steps
  <2> QED  BY <2>1, <2>2
<1>6. ASSUME NEW r \in Recorders, Metrics!Note(r)
      PROVE  HInv'
  BY <1>6 DEF Metrics!Note, Metrics!Does, Metrics!Steps
<1>7. CASE UNCHANGED Metrics!healthVars
  BY <1>7 DEF Metrics!healthVars
<1> QED
  BY <1>1, <1>2, <1>3, <1>4, <1>5, <1>6, <1>7 DEF Metrics!Next, Metrics!Record

\* An upstream marked unhealthy has a time from which its cooldown counts, or a recorder
\* is about to note one (record_probe, is_available).
THEOREM NobodyIsShutOut == Metrics!Spec => []NotShutOut
<1>1. Metrics!Init => HInv
  BY DEF Metrics!Init, HInv
<1>2. HInv /\ [Metrics!Next]_(Metrics!healthVars) => HInv'
  BY HStep
<1>3. HInv => NotShutOut
  BY DEF HInv, NotShutOut, Available
<1> QED  BY <1>1, <1>2, <1>3, PTL DEF Metrics!Spec
=============================================================================
