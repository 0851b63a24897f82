--------------------------- MODULE DnsCacheProofs ---------------------------
(***************************************************************************)
(* Proofs about DnsCache, for every set of keys, clients and responses and *)
(* every setting of the cache.                                             *)
(***************************************************************************)
EXTENDS DnsCache, TLAPS, WellFoundedInduction, SequenceTheorems

\* The three history variables are only ever left alone together.
USE DEF history

\* calculate_ttl finds a smallest TTL: a non-empty set of naturals has one.
LEMMA SmallestTtl ==
    ASSUME NEW S, S \subseteq Nat, S # {}
    PROVE  \E t \in S : \A u \in S : t <= u
<1>1. \E t \in S : \A u \in S : ~ (<<u, t>> \in OpToRel(<, Nat))
  BY NatLessThanWellFounded, WFMin
<1>2. \A t, u \in Nat : ~ (<<u, t>> \in OpToRel(<, Nat)) => t <= u
  BY DEF OpToRel
<1> QED
  BY <1>1, <1>2

\* What Lowest chooses is a member.
LEMMA LowestIsOne ==
    ASSUME NEW S, S \subseteq Nat, S # {}
    PROVE  Lowest(S) \in S
BY SmallestTtl DEF Lowest

\* The TTL of an entry is a number of seconds, whoever builds it.
LEMMA TtlType ==
    ASSUME NEW resp \in Responses
    PROVE  CalculateTtl(resp) \in Nat /\ ShadowTtl(resp) \in Nat
<1>1. resp \subseteq Nat /\ MaxTtl \in Nat /\ MinTtl \in Nat /\ UnansweredTtl \in Nat
  BY TtlAssumption
<1>2. Lowest(resp \cup {MaxTtl}) \in Nat
  BY <1>1, LowestIsOne
<1>3. CalculateTtl(resp) \in Nat
  BY <1>1, <1>2 DEF CalculateTtl
<1>4. ShadowTtl(resp) \in Nat
  BY <1>1, LowestIsOne DEF ShadowTtl
<1> QED
  BY <1>3, <1>4

-----------------------------------------------------------------------------
(* Type correctness.                                                       *)

\* What is built is an entry.
LEMMA NewEntryType ==
    ASSUME TypeOK, NEW resp \in Responses, NEW ttl \in Nat
    PROVE  NewEntry(resp, ttl) \in Entry
BY DEF NewEntry, Entry, TypeOK

\* The history stays a history.
LEMMA NoteType ==
    ASSUME TypeOK, NEW k \in Keys, NEW resp \in Responses, Note(k, resp)
    PROVE  learned' \in [Keys -> [Responses -> Nat \cup {Never}]]
<1>1. [learned[k] EXCEPT ![resp] = now] \in [Responses -> Nat \cup {Never}]
  BY DEF TypeOK
<1> QED
  BY <1>1 DEF Note, TypeOK

\* A query before its response, and one whose response is to be written back.
LEMMA StageType ==
    ASSUME TypeOK, NEW c \in Clients, Stage(c) # "idle"
    PROVE  /\ client[c] \in Query
           /\ client[c].key \in Keys
           /\ Stage(c) = client[c].pc
           /\ Stage(c) \in Undecided => client[c] \in
                [pc : Undecided, key : Keys, resp : {None}, from : {"nowhere"}]
           /\ Stage(c) = "hook" => client[c] \in
                [pc : {"hook"}, key : Keys, resp : Responses, from : {"upstream"}]
           /\ Stage(c) = "insert" => client[c] \in
                [pc : {"insert"}, key : Keys, entry : Entry]
<1>1. client[c] \in Query /\ Stage(c) = client[c].pc
  BY DEF Stage, TypeOK
<1> QED
  BY <1>1 DEF Query, Undecided

\* A query that moves on without a response stays a query.
LEMMA MoveType ==
    ASSUME TypeOK, NEW c \in Clients, Stage(c) \in Undecided,
           NEW pc \in Undecided, Move(c, pc)
    PROVE  client' \in [Clients -> Query \cup {None}]
<1>1. client[c] \in [pc : Undecided, key : Keys, resp : {None}, from : {"nowhere"}]
  BY StageType DEF Undecided
<1>2. [client[c] EXCEPT !.pc = pc] \in Query
  BY <1>1 DEF Query
<1> QED
  BY <1>2 DEF Move, TypeOK

\* A refresh that is running has a key, and one that is about to insert an entry.
LEMMA AwaitsType ==
    ASSUME TypeOK, NEW r \in Refreshers, Awaits(r) # "nothing"
    PROVE  /\ task[r] \in Task
           /\ task[r].key \in Keys
           /\ Awaits(r) = task[r].pc
           /\ Awaits(r) = "insert" => task[r].entry \in Entry
           /\ Awaits(r) # "insert" => task[r] \in
                [pc : Backends, key : Keys]
<1>1. task[r] \in Task /\ Awaits(r) = task[r].pc
  BY DEF Awaits, TypeOK
<1> QED
  BY <1>1 DEF Task, Backends

\* What is about to be inserted is an entry, under a key.
LEMMA BuiltType ==
    ASSUME TypeOK
    PROVE  Built \in SUBSET (Keys \X Entry)
<1>1. \A c \in Clients : Stage(c) = "insert" =>
        client[c].key \in Keys /\ client[c].entry \in Entry
  BY StageType
<1>2. \A r \in Refreshers : Awaits(r) = "insert" =>
        task[r].key \in Keys /\ task[r].entry \in Entry
  BY AwaitsType
<1> QED
  BY <1>1, <1>2 DEF Built

\* The server starts with every variable in shape.
LEMMA TypeInit == Init => TypeOK
<1> SUFFICES ASSUME Init PROVE TypeOK
  OBVIOUS
<1>1. learned \in [Keys -> [Responses -> Nat \cup {Never}]]
  BY DEF Init
<1>2. unread \in Seq(Record) /\ disk \in Seq(Record)
  BY DEF Init
<1>3. /\ cache \in [Keys -> Entry \cup {None}]
      /\ client \in [Clients -> Query \cup {None}]
      /\ task \in [Refreshers -> Task \cup {None}]
  BY DEF Init
<1>4. /\ now \in Nat /\ saving \in BOOLEAN /\ unsaved \in SUBSET Keys /\ purgedAt \in Nat
      /\ underway \in SUBSET (Keys \X Entry)
  BY DEF Init
<1> QED
  BY <1>1, <1>2, <1>3, <1>4 DEF TypeOK

\* Lookups, misses, plugin results and the write-back keep the shape.
LEMMA TypeQuery ==
    ASSUME TypeOK, NEW c \in Clients, QueryStep(c)
    PROVE  TypeOK'
<1>1. CASE Miss(c)
  BY <1>1, MoveType DEF Miss, Undecided, TypeOK
<1>2. CASE Hit(c)
  <2>1. client[c].key \in Keys
    BY <1>2, StageType DEF Hit
  <2>2. cache[client[c].key] \in Entry
    BY <1>2, <2>1 DEF Hit, TypeOK
  <2>3. [pc |-> "answered", key |-> client[c].key, resp |-> cache[client[c].key].resp,
         from |-> "cache"] \in Query
    BY <2>1, <2>2 DEF Query, Entry
  <2>4. client' \in [Clients -> Query \cup {None}]
    BY <1>2, <2>3 DEF Hit, TypeOK
  <2>5. task' \in [Refreshers -> Task \cup {None}]
    <3>1. CASE UNCHANGED task
      BY <3>1 DEF TypeOK
    <3>2. CASE SpawnRefresh(client[c].key)
      <4>1. [pc |-> IF HasRecursive THEN "recursive" ELSE "forward",
             key |-> client[c].key] \in Task
        BY <2>1 DEF Task, Backends
      <4> QED
        BY <3>2, <4>1 DEF SpawnRefresh, TypeOK
    <3> QED
      BY <1>2, <3>1, <3>2 DEF Hit
  <2> QED
    BY <1>2, <2>4, <2>5 DEF Hit, TypeOK
<1>3. CASE FindTooOld(c)
  BY <1>3, MoveType DEF FindTooOld, Undecided, TypeOK
<1>4. CASE Invalidate(c)
  BY <1>4, MoveType, StageType DEF Invalidate, Undecided, TypeOK
<1>5. CASE \E resp \in Responses : Resolve(c, resp)
  <2>1. PICK resp \in Responses : Resolve(c, resp)
    BY <1>5
  <2>2. client[c].key \in Keys
    BY <2>1, StageType DEF Resolve
  <2>3. [pc |-> "hook", key |-> client[c].key, resp |-> resp, from |-> "upstream"] \in Query
    BY <2>2 DEF Query
  <2> QED
    BY <2>1, <2>3 DEF Resolve, TypeOK
<1>6. CASE ResolveFails(c)
  BY <1>6, MoveType DEF ResolveFails, Undecided, TypeOK
<1>7. CASE BuildEntry(c)
  <2> DEFINE q == client[c]
             e == NewEntry(q.resp, CalculateTtl(q.resp))
  <2>1. q.key \in Keys /\ q.resp \in Responses
    BY <1>7, StageType DEF BuildEntry
  <2>2. e \in Entry
    BY <2>1, TtlType, NewEntryType
  <2>3. [pc |-> "insert", key |-> q.key, entry |-> e] \in Query
    BY <2>1, <2>2 DEF Query
  <2>4. client' \in [Clients -> Query \cup {None}]
    BY <1>7, <2>3 DEF BuildEntry, TypeOK
  <2>5. learned' \in [Keys -> [Responses -> Nat \cup {Never}]]
    BY <1>7, <2>1, NoteType DEF BuildEntry
  <2> QED
    BY <1>7, <2>4, <2>5 DEF BuildEntry, TypeOK
<1>8. CASE InsertEntry(c)
  <2> DEFINE q == client[c]
  <2>1. q.key \in Keys /\ q.entry \in Entry
    BY <1>8, StageType DEF InsertEntry
  <2>2. [pc |-> "answered", key |-> q.key, resp |-> q.entry.resp, from |-> "upstream"] \in Query
    BY <2>1 DEF Query, Entry
  <2>3. client' \in [Clients -> Query \cup {None}]
    BY <1>8, <2>2 DEF InsertEntry, TypeOK
  <2>4. cache' \in [Keys -> Entry \cup {None}]
    BY <1>8, <2>1 DEF InsertEntry, Insert, TypeOK
  <2> QED
    BY <1>8, <2>3, <2>4 DEF InsertEntry, TypeOK
<1>9. CASE LeaveUncached(c)
  <2>1. client[c] \in [pc : {"hook"}, key : Keys, resp : Responses, from : {"upstream"}]
    BY <1>9, StageType DEF LeaveUncached
  <2>2. [client[c] EXCEPT !.pc = "answered"] \in Query
    BY <2>1 DEF Query
  <2>3. client' \in [Clients -> Query \cup {None}]
    BY <1>9, <2>2 DEF LeaveUncached, Move, TypeOK
  <2> QED
    BY <1>9, <2>3 DEF LeaveUncached, TypeOK
<1> QED
  BY <1>1, <1>2, <1>3, <1>4, <1>5, <1>6, <1>7, <1>8, <1>9 DEF QueryStep

\* The answers and failures of refreshes keep the shape.
LEMMA TypeRefresh ==
    ASSUME TypeOK, NEW r \in Refreshers, RefreshStep(r)
    PROVE  TypeOK'
<1>1. CASE \E resp \in Responses : RefreshAnswers(r, resp)
  <2>1. PICK resp \in Responses : RefreshAnswers(r, resp)
    BY <1>1
  <2> DEFINE ttl == IF Awaits(r) = "shadow" THEN ShadowTtl(resp) ELSE CalculateTtl(resp)
  <2>2. task[r].key \in Keys
    BY <2>1, AwaitsType DEF RefreshAnswers, Backends
  <2>3. NewEntry(resp, ttl) \in Entry
    BY TtlType, NewEntryType
  <2>4. [pc |-> "insert", key |-> task[r].key, entry |-> NewEntry(resp, ttl)] \in Task
    BY <2>2, <2>3 DEF Task, Backends
  <2>5. task' \in [Refreshers -> Task \cup {None}]
    BY <2>1, <2>4 DEF RefreshAnswers, TypeOK
  <2>6. learned' \in [Keys -> [Responses -> Nat \cup {Never}]]
    BY <2>1, <2>2, NoteType DEF RefreshAnswers
  <2> QED
    BY <2>1, <2>5, <2>6 DEF RefreshAnswers, TypeOK
<1>2. CASE RefreshInserts(r)
  <2>1. task[r].key \in Keys /\ task[r].entry \in Entry
    BY <1>2, AwaitsType DEF RefreshInserts
  <2> QED
    BY <1>2, <2>1 DEF RefreshInserts, Insert, TypeOK
<1>3. CASE RecursiveFails(r)
  <2>1. task[r] \in [pc : Backends, key : Keys]
    BY <1>3, AwaitsType DEF RecursiveFails
  <2>2. [task[r] EXCEPT !.pc = "forward"] \in Task
    BY <2>1 DEF Task, Backends
  <2> QED
    BY <1>3, <2>2 DEF RecursiveFails, TypeOK
<1>4. CASE RefreshGivesUp(r)
  BY <1>4 DEF RefreshGivesUp, TypeOK
<1> QED
  BY <1>1, <1>2, <1>3, <1>4 DEF RefreshStep

\* Saving and loading keep the shape.
LEMMA TypeFile ==
    ASSUME TypeOK, SaveStart \/ SaveStep \/ LoadStep
    PROVE  TypeOK'
<1>1. CASE SaveStart
  BY <1>1 DEF SaveStart, TypeOK
<1>2. ASSUME NEW k \in Keys, SaveVisit(k)
      PROVE  TypeOK'
  <2>1. cache[k] # None => [key |-> k, entry |-> cache[k]] \in Record
    BY DEF TypeOK, Record
  <2>2. \A rec \in Record : Append(disk, rec) \in Seq(Record)
    BY DEF TypeOK
  <2>3. disk' \in Seq(Record)
    BY <1>2, <2>1, <2>2 DEF SaveVisit, TypeOK
  <2> QED
    BY <1>2, <2>3 DEF SaveVisit, TypeOK
<1>3. CASE SaveEnd
  BY <1>3 DEF SaveEnd, TypeOK
<1>4. CASE LoadNext
  <2>1. Head(unread) \in Record /\ Tail(unread) \in Seq(Record)
    BY <1>4 DEF LoadNext, TypeOK
  <2>2. Head(unread).key \in Keys /\ Head(unread).entry \in Entry
    BY <2>1 DEF Record
  <2>3. cache' \in [Keys -> Entry \cup {None}]
    BY <1>4, <2>2 DEF LoadNext, TypeOK
  <2> QED
    BY <1>4, <2>1, <2>3 DEF LoadNext, TypeOK
<1>5. CASE LoadCutShort
  BY <1>5 DEF LoadCutShort, TypeOK
<1> QED
  BY <1>1, <1>2, <1>3, <1>4, <1>5 DEF SaveStep, LoadStep

\* Arrivals, purges, evictions, restarts and the clock keep the shape.
LEMMA TypeOther ==
    ASSUME TypeOK
    PROVE  /\ Purge \/ Restart \/ Tick => TypeOK'
           /\ \A c \in Clients, k \in Keys : Arrive(c, k) => TypeOK'
           /\ \A k \in Keys : SpawnShadow(k) \/ Evict(k) => TypeOK'
<1>1. ASSUME Purge PROVE TypeOK'
  BY <1>1, BuiltType DEF Purge, RememberPurge, TypeOK
<1>2. ASSUME Restart PROVE TypeOK'
  BY <1>2 DEF Restart, TypeOK
<1>3. ASSUME Tick PROVE TypeOK'
  BY <1>3 DEF Tick, TypeOK
<1>4. ASSUME NEW c \in Clients, NEW k \in Keys, Arrive(c, k)
      PROVE  TypeOK'
  <2>1. [pc |-> "lookup", key |-> k, resp |-> None, from |-> "nowhere"] \in Query
    BY DEF Query, Undecided
  <2> QED
    BY <1>4, <2>1 DEF Arrive, TypeOK
<1>5. ASSUME NEW k \in Keys, Evict(k) PROVE TypeOK'
  BY <1>5 DEF Evict, TypeOK
<1>6. ASSUME NEW k \in Keys, SpawnShadow(k) PROVE TypeOK'
  <2>1. [pc |-> "shadow", key |-> k] \in Task
    BY <1>6 DEF SpawnShadow, Task, Backends
  <2> QED
    BY <1>6, <2>1 DEF SpawnShadow, TypeOK
<1> QED
  BY <1>1, <1>2, <1>3, <1>4, <1>5, <1>6

\* Every step keeps the shape.
LEMMA TypeNext == TypeOK /\ [Next]_vars => TypeOK'
<1> SUFFICES ASSUME TypeOK, [Next]_vars PROVE TypeOK'
  OBVIOUS
<1>1. CASE UNCHANGED vars
  BY <1>1 DEF vars, TypeOK
<1>2. CASE Next
  BY <1>2, TypeQuery, TypeRefresh, TypeFile, TypeOther DEF Next
<1> QED
  BY <1>1, <1>2

\* Every variable keeps its shape: entries, queries, tasks and the records of
\* the file, whatever queries, refreshes, load, saves and restarts do.
THEOREM TypeCorrect == Spec => []TypeOK
<1>1. Init => TypeOK
  BY TypeInit
<1>2. TypeOK /\ [Next]_vars => TypeOK'
  BY TypeNext
<1> QED
  BY <1>1, <1>2, PTL DEF Spec

-----------------------------------------------------------------------------
(* The inductive invariant.  Steps are sorted by what they do to the places *)
(* where entries live: nothing, dropping some, building one, inserting one, *)
(* or moving entries between the cache and the file.                        *)

\* The history and the clock are integers, so that they can be compared.
LEMMA HistoryType ==
    ASSUME TypeOK
    PROVE  now \in Int /\ \A k \in Keys, resp \in Responses : learned[k][resp] \in Int
BY DEF TypeOK, Never

\* The fields of an entry.
LEMMA EntryType ==
    ASSUME NEW e \in Entry
    PROVE  e.resp \in Responses /\ e.timestamp \in Nat /\ e.ttl \in Nat
BY DEF Entry

\* The fields of the records on disk and of those still to be restored.
LEMMA FileType ==
    ASSUME TypeOK
    PROVE  /\ \A i \in 1 .. Len(disk) : disk[i].key \in Keys /\ disk[i].entry \in Entry
           /\ \A i \in 1 .. Len(unread) : unread[i].key \in Keys /\ unread[i].entry \in Entry
<1>1. /\ \A i \in 1 .. Len(disk) : disk[i] \in Record
      /\ \A i \in 1 .. Len(unread) : unread[i] \in Record
  BY DEF TypeOK
<1> QED
  BY <1>1 DEF Record

\* What is about to be inserted depends on the queries and on the tasks alone.
LEMMA BuiltUnchanged ==
    ASSUME UNCHANGED <<client, task>>
    PROVE  Built' = Built
BY DEF Built, Stage, Awaits

\* A query that moves puts no more than its own entry into Built, and that when it
\* comes to insert.
LEMMA BuiltByQuery ==
    ASSUME TypeOK, NEW c \in Clients, NEW q \in Query,
           client' = [client EXCEPT ![c] = q], UNCHANGED task
    PROVE  /\ Built' \subseteq Built \cup {<<q.key, q.entry>>}
           /\ q.pc # "insert" => Built' \subseteq Built
<1>1. q # None
  BY NoneAssumption
<1>2. /\ client'[c] = q
      /\ \A d \in Clients \ {c} : client'[d] = client[d]
  BY DEF TypeOK
<1>3. /\ Stage(c)' = q.pc
      /\ \A d \in Clients \ {c} : Stage(d)' = Stage(d)
  BY <1>1, <1>2 DEF Stage
<1>4. \A r \in Refreshers : Awaits(r)' = Awaits(r)
  BY DEF Awaits
<1>5. ASSUME NEW p \in Built'
      PROVE  p \in Built \/ (q.pc = "insert" /\ p = <<q.key, q.entry>>)
  <2>1. CASE \E d \in Clients : Stage(d)' = "insert" /\ p = <<client'[d].key, client'[d].entry>>
    BY <1>2, <1>3, <2>1 DEF Built
  <2>2. CASE \E r \in Refreshers : Awaits(r)' = "insert" /\ p = <<task[r].key, task[r].entry>>
    BY <1>4, <2>2 DEF Built
  <2> QED
    BY <1>5, <2>1, <2>2 DEF Built
<1> QED
  BY <1>5

\* The same of a refresh task.
LEMMA BuiltByRefresh ==
    ASSUME TypeOK, NEW r \in Refreshers, NEW t \in Task \cup {None},
           task' = [task EXCEPT ![r] = t], UNCHANGED client
    PROVE  /\ Built' \subseteq Built \cup {<<t.key, t.entry>>}
           /\ t = None \/ t.pc # "insert" => Built' \subseteq Built
<1>1. /\ task'[r] = t
      /\ \A u \in Refreshers \ {r} : task'[u] = task[u]
  BY DEF TypeOK
<1>2. /\ Awaits(r)' = IF t = None THEN "nothing" ELSE t.pc
      /\ \A u \in Refreshers \ {r} : Awaits(u)' = Awaits(u)
  BY <1>1 DEF Awaits
<1>3. \A c \in Clients : Stage(c)' = Stage(c)
  BY DEF Stage
<1>4. ASSUME NEW p \in Built'
      PROVE  p \in Built \/ (t # None /\ t.pc = "insert" /\ p = <<t.key, t.entry>>)
  <2>1. CASE \E c \in Clients : Stage(c)' = "insert" /\ p = <<client[c].key, client[c].entry>>
    BY <1>3, <2>1 DEF Built
  <2>2. CASE \E u \in Refreshers : Awaits(u)' = "insert" /\ p = <<task'[u].key, task'[u].entry>>
    BY <1>1, <1>2, <2>2 DEF Built
  <2> QED
    BY <1>4, <2>1, <2>2 DEF Built
<1> QED
  BY <1>4

\* Queries under way, failing refreshes and the clock touch no entry.
LEMMA QuietStep ==
    ASSUME IInv, TypeOK', now <= now', Built' \subseteq Built,
           UNCHANGED <<cache, disk, unread, history>>
    PROVE  IInv'
<1>1. HistoryInOrder'
  <2>1. now \in Int /\ now' \in Int /\ purgedAt \in Int
    BY DEF IInv, TypeOK
  <2> QED
    BY <2>1, HistoryType DEF IInv, HistoryInOrder
<1>2. EntriesGenuine' /\ PurgeIsFinal' /\ LatecomersKnown'
  BY DEF IInv, EntriesGenuine, Genuine, PurgeIsFinal, LatecomersKnown
<1> QED
  BY <1>1, <1>2 DEF IInv

\* An invalidation, an eviction and the start of a save take entries away.
LEMMA DropStep ==
    ASSUME IInv, TypeOK',
           \A k \in Keys : cache'[k] \in {cache[k], None},
           Built' \subseteq Built,
           disk' \in {disk, <<>>},
           unread' \in {unread, <<>>},
           UNCHANGED <<now, history>>
    PROVE  IInv'
<1>1. HistoryInOrder' /\ PurgeIsFinal' /\ LatecomersKnown'
  BY DEF IInv, HistoryInOrder, PurgeIsFinal, LatecomersKnown
<1>2. \A k \in Keys : cache'[k] # None => Genuine(k, cache[k])' /\ cache'[k] = cache[k]
  BY DEF IInv, EntriesGenuine, Genuine
<1>3. /\ \A p \in Built' : Genuine(p[1], p[2])'
      /\ \A i \in 1 .. Len(disk') : Genuine(disk[i].key, disk[i].entry)'
      /\ \A i \in 1 .. Len(unread') : Genuine(unread[i].key, unread[i].entry)'
  BY DEF IInv, EntriesGenuine, Genuine
<1> QED
  BY <1>1, <1>2, <1>3 DEF IInv, EntriesGenuine

\* An entry is built: it is genuine and as young as can be, and what was genuine
\* remains so because the history only moves forward.
LEMMA BuildStep ==
    ASSUME IInv, TypeOK', NEW k \in Keys, NEW resp \in Responses, NEW ttl \in Ttls(resp),
           Note(k, resp), Built' \subseteq Built \cup {<<k, NewEntry(resp, ttl)>>},
           UNCHANGED <<now, cache, disk, unread, purgedAt, underway>>
    PROVE  IInv'
<1> USE DEF IInv
<1>1. learned' = [learned EXCEPT ![k][resp] = now]
  BY DEF Note
<1>2. \A j \in Keys, r \in Responses : learned[j][r] <= learned'[j][r] /\ learned'[j][r] <= now
  BY <1>1, HistoryType DEF TypeOK, HistoryInOrder
<1>3. \A j \in Keys, e \in Entry : Genuine(j, e) => Genuine(j, e)'
  <2> SUFFICES ASSUME NEW j \in Keys, NEW e \in Entry, Genuine(j, e)
               PROVE  e.timestamp <= learned'[j][e.resp]
    BY DEF Genuine
  <2>1. /\ e.resp \in Responses
        /\ e.timestamp \in Int
        /\ learned[j][e.resp] \in Int
        /\ learned'[j][e.resp] \in Int
    BY EntryType, HistoryType DEF TypeOK, Never
  <2> QED
    BY <1>2, <2>1 DEF Genuine
<1>4. Genuine(k, NewEntry(resp, ttl))'
  BY <1>1 DEF Genuine, NewEntry, TypeOK
<1>5. HistoryInOrder' /\ PurgeIsFinal'
  BY <1>2 DEF HistoryInOrder, PurgeIsFinal
<1>6. LatecomersKnown'
  <2>1. ~ (NewEntry(resp, ttl).timestamp < purgedAt)
    BY DEF NewEntry, HistoryInOrder, TypeOK
  <2> QED
    BY <2>1 DEF LatecomersKnown
<1>7. \A j \in Keys : cache'[j] # None => Genuine(j, cache[j])'
  BY <1>3 DEF EntriesGenuine, TypeOK
<1>8. \A p \in Built' : Genuine(p[1], p[2])'
  <2>1. \A p \in Built : p[1] \in Keys /\ p[2] \in Entry /\ Genuine(p[1], p[2])
    BY BuiltType DEF EntriesGenuine
  <2>2. NewEntry(resp, ttl) = NewEntry(resp, ttl)'
    BY DEF NewEntry
  <2>3. ASSUME NEW p \in Built'
        PROVE  Genuine(p[1], p[2])'
    <3>1. CASE p \in Built
      BY <1>3, <2>1, <3>1
    <3>2. CASE p = <<k, NewEntry(resp, ttl)>>
      BY <1>4, <2>2, <3>2
    <3> QED
      BY <2>3, <3>1, <3>2
  <2> QED
    BY <2>3
<1>9. /\ \A i \in 1 .. Len(disk') : Genuine(disk[i].key, disk[i].entry)'
      /\ \A i \in 1 .. Len(unread') : Genuine(unread[i].key, unread[i].entry)'
  BY <1>3, FileType DEF EntriesGenuine
<1> QED
  BY <1>5, <1>6, <1>7, <1>8, <1>9 DEF EntriesGenuine

\* An entry is inserted: it was built, and is as genuine and as late as it was.
LEMMA InsertStep ==
    ASSUME IInv, TypeOK', NEW k \in Keys, NEW e \in Entry, <<k, e>> \in Built,
           Insert(k, e), Built' \subseteq Built,
           UNCHANGED <<now, disk, unread, history>>
    PROVE  IInv'
<1> USE DEF IInv
<1>1. /\ cache'[k] = e
      /\ \A j \in Keys \ {k} : cache'[j] = cache[j]
  BY DEF Insert, TypeOK
<1>2. HistoryInOrder' /\ LatecomersKnown'
  BY DEF HistoryInOrder, LatecomersKnown
<1>3. PurgeIsFinal'
  <2>1. e.timestamp < purgedAt => <<k, e>> \in underway
    BY DEF LatecomersKnown
  <2> QED
    BY <1>1, <2>1 DEF PurgeIsFinal
<1>4. \A j \in Keys : cache'[j] # None => Genuine(j, cache'[j])
  BY <1>1 DEF EntriesGenuine
<1> QED
  BY <1>2, <1>3, <1>4 DEF EntriesGenuine, Genuine

\* What the iteration of a save writes is what the cache holds.
LEMMA SaveVisitStep ==
    ASSUME IInv, TypeOK', NEW k \in Keys, SaveVisit(k)
    PROVE  IInv'
<1> USE DEF IInv
<1>1. Built' = Built
  BY BuiltUnchanged DEF SaveVisit
<1>2. HistoryInOrder' /\ PurgeIsFinal' /\ LatecomersKnown'
  BY <1>1 DEF SaveVisit, HistoryInOrder, PurgeIsFinal, LatecomersKnown
<1>3. CASE cache[k] = None
  BY <1>1, <1>3, QuietStep DEF SaveVisit, TypeOK
<1>4. CASE cache[k] # None
  <2> DEFINE rec == [key |-> k, entry |-> cache[k]]
  <2>1. /\ disk \in Seq(Record)
        /\ disk' = Append(disk, rec)
        /\ Genuine(rec.key, rec.entry)
    BY <1>4 DEF SaveVisit, EntriesGenuine, TypeOK
  <2>2. \A i \in 1 .. Len(disk') : \/ i \in 1 .. Len(disk) /\ disk'[i] = disk[i]
                                   \/ disk'[i] = rec
    BY <2>1
  <2>3. \A i \in 1 .. Len(disk') : Genuine(disk'[i].key, disk'[i].entry)
    BY <2>1, <2>2 DEF EntriesGenuine
  <2> QED
    BY <1>1, <1>2, <2>3 DEF SaveVisit, EntriesGenuine, Genuine
<1> QED
  BY <1>3, <1>4

\* The loader restores a genuine record as it is; nothing has been purged yet.
LEMMA LoadNextStep ==
    ASSUME IInv, TypeOK', LoadNext
    PROVE  IInv'
<1> USE DEF IInv
<1> DEFINE rec == Head(unread)
<1>1. /\ unread \in Seq(Record)
      /\ unread # <<>>
      /\ unread' = Tail(unread)
      /\ Built' = Built
  BY BuiltUnchanged DEF LoadNext, TypeOK
<1>2. /\ Genuine(rec.key, rec.entry)
      /\ rec \in Record
      /\ \A i \in 1 .. Len(unread') : i + 1 \in 1 .. Len(unread) /\ unread'[i] = unread[i + 1]
  BY <1>1 DEF EntriesGenuine
<1>3. \A k \in Keys : \/ cache'[k] = cache[k]
                      \/ k = rec.key /\ cache'[k] = rec.entry
  BY <1>2 DEF LoadNext, TypeOK, Record
<1>4. HistoryInOrder' /\ LatecomersKnown'
  BY <1>1 DEF LoadNext, HistoryInOrder, LatecomersKnown
<1>5. PurgeIsFinal'
  <2>1. purgedAt' = 0
    BY <1>1 DEF LoadNext, HistoryInOrder
  <2> QED
    BY <2>1, EntryType DEF PurgeIsFinal, TypeOK
<1>6. \A k \in Keys : cache'[k] # None => Genuine(k, cache'[k])
  BY <1>2, <1>3 DEF EntriesGenuine
<1>7. \A i \in 1 .. Len(unread') : Genuine(unread'[i].key, unread'[i].entry)
  BY <1>2 DEF EntriesGenuine
<1> QED
  BY <1>1, <1>4, <1>6, <1>5, <1>7 DEF LoadNext, EntriesGenuine, Genuine

\* A new process starts from what the file holds.
LEMMA RestartStep ==
    ASSUME IInv, TypeOK', Restart
    PROVE  IInv'
<1>1. Built' = {}
  BY DEF Restart, Built, Stage, Awaits
<1> QED
  BY <1>1 DEF IInv, Restart, HistoryInOrder, EntriesGenuine, Genuine, PurgeIsFinal,
              LatecomersKnown, TypeOK

\* The cache is empty after a purge, which is remembered if the load is over, and
\* with it what is about to be inserted and older.
LEMMA PurgeStep ==
    ASSUME IInv, TypeOK', Purge
    PROVE  IInv'
<1> USE DEF IInv
<1>1. Built' = Built
  BY BuiltUnchanged DEF Purge
<1>2. HistoryInOrder' /\ EntriesGenuine' /\ PurgeIsFinal'
  BY <1>1 DEF Purge, RememberPurge, HistoryInOrder, EntriesGenuine, Genuine, PurgeIsFinal, TypeOK
<1>3. LatecomersKnown'
  BY <1>1 DEF Purge, RememberPurge, LatecomersKnown
<1> QED
  BY <1>2, <1>3

\* The steps of a query keep the invariant: the write-back builds an entry and
\* inserts it.
LEMMA QueryInv ==
    ASSUME IInv, TypeOK', NEW c \in Clients, QueryStep(c)
    PROVE  IInv'
<1> USE DEF IInv
<1>1. now <= now
  BY DEF TypeOK
<1>2. CASE Miss(c) \/ FindTooOld(c) \/ Invalidate(c) \/ ResolveFails(c) \/ LeaveUncached(c)
  <2>1. PICK pc \in {"expired", "miss", "dropped", "answered"} : Move(c, pc)
    BY <1>2 DEF Miss, FindTooOld, Invalidate, ResolveFails, LeaveUncached
  <2> DEFINE q == [client[c] EXCEPT !.pc = pc]
  <2>2. q \in Query /\ q.pc # "insert"
    <3>1. CASE LeaveUncached(c)
      <4>1. client[c] \in [pc : {"hook"}, key : Keys, resp : Responses, from : {"upstream"}]
        BY <3>1, StageType DEF LeaveUncached
      <4>2. pc = "answered"
        BY <2>1, <3>1, <4>1 DEF LeaveUncached, Move, TypeOK
      <4> QED
        BY <4>1, <4>2 DEF Query
    <3>2. CASE ~LeaveUncached(c)
      <4>1. /\ client[c] \in [pc : Undecided, key : Keys, resp : {None}, from : {"nowhere"}]
            /\ \E u \in Undecided : Move(c, u)
        BY <1>2, <3>2, StageType DEF Miss, FindTooOld, Invalidate, ResolveFails, Undecided
      <4>2. pc \in Undecided
        BY <2>1, <4>1 DEF Move, TypeOK
      <4> QED
        BY <4>1, <4>2 DEF Query, Undecided
    <3> QED
      BY <3>1, <3>2
  <2>3. Built' \subseteq Built
    BY <1>2, <2>1, <2>2, BuiltByQuery
       DEF Miss, FindTooOld, Invalidate, ResolveFails, LeaveUncached, Move
  <2>4. CASE Invalidate(c)
    BY <2>3, <2>4, DropStep DEF Invalidate, TypeOK
  <2> QED
    BY <1>1, <1>2, <2>3, <2>4, QuietStep DEF Miss, FindTooOld, ResolveFails, LeaveUncached
<1>3. CASE Hit(c)
  <2>1. Built' \subseteq Built
    <3> DEFINE k == client[c].key
               q == [pc |-> "answered", key |-> k, resp |-> cache[k].resp, from |-> "cache"]
               t == [pc |-> IF HasRecursive THEN "recursive" ELSE "forward", key |-> k]
    <3>1. k \in Keys /\ cache[k] \in Entry
      BY <1>3, StageType DEF Hit, TypeOK
    <3>2. q \in Query /\ q # None
      BY <3>1, NoneAssumption DEF Query, Entry
    <3>3. \A d \in Clients : Stage(d)' = "insert" =>
            Stage(d) = "insert" /\ client'[d] = client[d]
      BY <1>3, <3>2 DEF Hit, Stage, TypeOK
    <3>4. t # None
      BY <3>1, NoneAssumption DEF Task, Backends
    <3>5. \A r \in Refreshers : Awaits(r)' = "insert" =>
            Awaits(r) = "insert" /\ task'[r] = task[r]
      <4>1. CASE UNCHANGED task
        BY <4>1 DEF Awaits
      <4>2. ASSUME NEW s \in Refreshers, task' = [task EXCEPT ![s] = t],
                   NEW r \in Refreshers, Awaits(r)' = "insert"
            PROVE  Awaits(r) = "insert" /\ task'[r] = task[r]
        <5>1. t.pc # "insert"
          OBVIOUS
        <5> HIDE DEF t
        <5> QED
          BY <3>4, <4>2, <5>1 DEF Awaits, TypeOK
      <4> QED
        BY <1>3, <4>1, <4>2 DEF Hit, SpawnRefresh
    <3> QED
      BY <3>3, <3>5 DEF Built
  <2> QED
    BY <1>1, <1>3, <2>1, QuietStep DEF Hit
<1>4. CASE \E resp \in Responses : Resolve(c, resp)
  <2>1. PICK resp \in Responses : Resolve(c, resp)
    BY <1>4
  <2> DEFINE q == [pc |-> "hook", key |-> client[c].key, resp |-> resp, from |-> "upstream"]
  <2>2. q \in Query /\ q.pc # "insert"
    BY <2>1, StageType DEF Resolve, Query
  <2>3. Built' \subseteq Built
    BY <2>1, <2>2, BuiltByQuery DEF Resolve
  <2> QED
    BY <1>1, <2>1, <2>3, QuietStep DEF Resolve
<1>5. CASE BuildEntry(c)
  <2> DEFINE k == client[c].key
             resp == client[c].resp
             ttl == CalculateTtl(resp)
             q == [pc |-> "insert", key |-> k, entry |-> NewEntry(resp, ttl)]
  <2>1. k \in Keys /\ resp \in Responses
    BY <1>5, StageType DEF BuildEntry
  <2>2. q \in Query /\ ttl \in Ttls(resp)
    BY <2>1, TtlType, NewEntryType DEF Query, Ttls
  <2>3. Built' \subseteq Built \cup {<<k, NewEntry(resp, ttl)>>}
    BY <1>5, <2>2, BuiltByQuery DEF BuildEntry
  <2> QED
    BY <1>5, <2>1, <2>2, <2>3, BuildStep DEF BuildEntry
<1>6. CASE InsertEntry(c)
  <2> DEFINE k == client[c].key
             e == client[c].entry
             q == [pc |-> "answered", key |-> k, resp |-> e.resp, from |-> "upstream"]
  <2>1. k \in Keys /\ e \in Entry
    BY <1>6, StageType DEF InsertEntry
  <2>2. q \in Query /\ q.pc # "insert"
    BY <2>1 DEF Query, Entry
  <2>3. Built' \subseteq Built
    BY <1>6, <2>2, BuiltByQuery DEF InsertEntry
  <2>4. <<k, e>> \in Built
    BY <1>6 DEF InsertEntry, Built
  <2> QED
    BY <1>6, <2>1, <2>3, <2>4, InsertStep DEF InsertEntry
<1> QED
  BY <1>2, <1>3, <1>4, <1>5, <1>6 DEF QueryStep

\* The steps of a refresh keep the invariant: its answer is dated when it comes,
\* and inserted later.
LEMMA RefreshInv ==
    ASSUME IInv, TypeOK', NEW r \in Refreshers, RefreshStep(r)
    PROVE  IInv'
<1> USE DEF IInv
<1>1. now <= now
  BY DEF TypeOK
<1>2. CASE RefreshGivesUp(r)
  <2>1. Built' \subseteq Built
    BY <1>2, BuiltByRefresh DEF RefreshGivesUp
  <2> QED
    BY <1>1, <1>2, <2>1, QuietStep DEF RefreshGivesUp
<1>3. CASE RecursiveFails(r)
  <2> DEFINE t == IF HasForwarder THEN [task[r] EXCEPT !.pc = "forward"] ELSE None
  <2>1. task[r] \in [pc : Backends, key : Keys]
    BY <1>3, AwaitsType DEF RecursiveFails
  <2>2. t \in Task \cup {None} /\ (t = None \/ t.pc # "insert")
    BY <2>1 DEF Task, Backends
  <2>3. task' = [task EXCEPT ![r] = t]
    BY <1>3 DEF RecursiveFails
  <2>4. Built' \subseteq Built
    BY <1>3, <2>2, <2>3, BuiltByRefresh DEF RecursiveFails
  <2> QED
    BY <1>1, <1>3, <2>4, QuietStep DEF RecursiveFails
<1>4. ASSUME NEW resp \in Responses, RefreshAnswers(r, resp)
      PROVE  IInv'
  <2> DEFINE k == task[r].key
             ttl == IF Awaits(r) = "shadow" THEN ShadowTtl(resp) ELSE CalculateTtl(resp)
             t == [pc |-> "insert", key |-> k, entry |-> NewEntry(resp, ttl)]
  <2>1. k \in Keys
    BY <1>4, AwaitsType DEF RefreshAnswers, Backends
  <2>2. t \in Task
    BY <2>1, TtlType, NewEntryType DEF Task, Backends
  <2>3. Built' \subseteq Built \cup {<<k, NewEntry(resp, ttl)>>}
    <3>1. task' = [task EXCEPT ![r] = t] /\ UNCHANGED client
      BY <1>4 DEF RefreshAnswers
    <3> HIDE DEF t
    <3>2. Built' \subseteq Built \cup {<<t.key, t.entry>>}
      BY <2>2, <3>1, BuiltByRefresh
    <3> QED
      BY <3>2 DEF t
  <2>4. ttl \in Ttls(resp)
    BY <1>4, AwaitsType DEF RefreshAnswers, Backends, Ttls
  <2> QED
    BY <1>4, <2>1, <2>3, <2>4, BuildStep DEF RefreshAnswers
<1>5. CASE RefreshInserts(r)
  <2>1. task[r].key \in Keys /\ task[r].entry \in Entry
    BY <1>5, AwaitsType DEF RefreshInserts
  <2>2. Built' \subseteq Built
    BY <1>5, BuiltByRefresh DEF RefreshInserts
  <2>3. <<task[r].key, task[r].entry>> \in Built
    BY <1>5 DEF RefreshInserts, Built
  <2> QED
    BY <1>5, <2>1, <2>2, <2>3, InsertStep DEF RefreshInserts
<1> QED
  BY <1>2, <1>3, <1>4, <1>5 DEF RefreshStep

\* Saving and loading keep the invariant: entries are moved, never changed.
LEMMA FileInv ==
    ASSUME IInv, TypeOK', SaveStart \/ SaveStep \/ LoadStep
    PROVE  IInv'
<1> USE DEF IInv
<1>1. Built' = Built
  BY BuiltUnchanged
     DEF SaveStart, SaveStep, SaveVisit, SaveEnd, LoadStep, LoadNext, LoadCutShort
<1>2. CASE SaveStart
  BY <1>1, <1>2, DropStep DEF SaveStart
<1>3. ASSUME NEW k \in Keys, SaveVisit(k)
      PROVE  IInv'
  BY <1>3, SaveVisitStep
<1>4. CASE SaveEnd
  BY <1>1, <1>4, QuietStep DEF SaveEnd, TypeOK
<1>5. CASE LoadNext
  BY <1>5, LoadNextStep
<1>6. CASE LoadCutShort
  BY <1>1, <1>6, DropStep DEF LoadCutShort
<1> QED
  BY <1>2, <1>3, <1>4, <1>5, <1>6 DEF SaveStep, LoadStep

\* Every step keeps the invariant.
LEMMA InvNext == IInv /\ [Next]_vars => IInv'
<1> SUFFICES ASSUME IInv, [Next]_vars PROVE IInv'
  OBVIOUS
<1>1. TypeOK'
  BY TypeNext DEF IInv
<1>2. now <= now
  BY DEF IInv, TypeOK
<1>3. CASE UNCHANGED vars
  BY <1>1, <1>2, <1>3, BuiltUnchanged, QuietStep DEF vars
<1>4. CASE Tick
  BY <1>1, <1>4, BuiltUnchanged, QuietStep DEF Tick, IInv, TypeOK
<1>5. ASSUME NEW k \in Keys, Evict(k) PROVE IInv'
  BY <1>1, <1>5, BuiltUnchanged, DropStep DEF Evict, IInv, TypeOK
<1>6. ASSUME NEW c \in Clients, NEW k \in Keys, Arrive(c, k) PROVE IInv'
  <2> DEFINE q == [pc |-> "lookup", key |-> k, resp |-> None, from |-> "nowhere"]
  <2>1. q \in Query /\ q.pc # "insert"
    BY DEF Query, Undecided
  <2>2. Built' \subseteq Built
    BY <1>6, <2>1, BuiltByQuery DEF Arrive, IInv
  <2> QED
    BY <1>1, <1>2, <1>6, <2>2, QuietStep DEF Arrive
<1>7. ASSUME NEW k \in Keys, SpawnShadow(k) PROVE IInv'
  <2> DEFINE t == [pc |-> "shadow", key |-> k]
  <2>1. t \in Task /\ t.pc # "insert"
    BY <1>7 DEF SpawnShadow, Task, Backends
  <2>2. Built' \subseteq Built
    BY <1>7, <2>1, BuiltByRefresh DEF SpawnShadow, IInv
  <2> QED
    BY <1>1, <1>2, <1>7, <2>2, QuietStep DEF SpawnShadow
<1> QED
  BY <1>1, <1>3, <1>4, <1>5, <1>6, <1>7, QueryInv, RefreshInv, FileInv, PurgeStep, RestartStep
     DEF Next

\* The invariant holds of an empty cache.
LEMMA InvInit == Init => IInv
<1> SUFFICES ASSUME Init PROVE IInv
  OBVIOUS
<1>1. Built = {}
  BY DEF Init, Built, Stage, Awaits
<1> QED
  BY <1>1, TypeInit
     DEF Init, IInv, HistoryInOrder, EntriesGenuine, PurgeIsFinal, LatecomersKnown, Never

\* The inductive invariant holds throughout.
LEMMA InvHolds == Spec => []IInv
BY InvInit, InvNext, PTL DEF Spec

\* Whatever the cache, the file or the loader holds for a key, and whatever is
\* about to be inserted for it, is a response that arrived for that key, not before
\* its timestamp, and that expires when the code that built the entry says.
THEOREM EntriesAreGenuine == Spec => []EntriesGenuine
<1>1. IInv => EntriesGenuine
  BY DEF IInv
<1> QED
  BY <1>1, InvHolds, PTL

\* What was in the cache at a purge does not come back: an entry that is older than
\* the purge was built and not inserted when it happened.
THEOREM PurgeStaysFinal == Spec => []PurgeIsFinal
<1>1. IInv => PurgeIsFinal
  BY DEF IInv
<1> QED
  BY <1>1, InvHolds, PTL

-----------------------------------------------------------------------------
(* The cache implements the contract.                                      *)

\* A step that moves one query changes what that client sees only.
LEMMA SeenAfterMove ==
    ASSUME NEW c \in Clients, NEW q, client' = [client EXCEPT ![c] = q],
           client \in [Clients -> Query \cup {None}]
    PROVE  Asking' = [Asking EXCEPT ![c] = Seen(c)']
BY DEF Asking, Seen, Stage

\* Steps that move no query change nothing that a client sees.
LEMMA SeenUnchanged ==
    ASSUME UNCHANGED client
    PROVE  UNCHANGED Asking
BY DEF Asking, Seen, Stage

\* A query before its end is one the client is waiting for.
LEMMA SeenAsking ==
    ASSUME NEW c \in Clients, Stage(c) \in {"lookup", "expired", "miss", "hook", "insert"}
    PROVE  /\ Seen(c) = [st |-> "asking", key |-> client[c].key]
           /\ Asking[c] = Seen(c)
BY DEF Asking, Seen

\* An entry that a query is served is young enough: its response was learned
\* less than KeepFor seconds ago.
LEMMA ServedIsYoung ==
    ASSUME IInv, NEW c \in Clients, Hit(c)
    PROVE  LET k == client[c].key
               resp == cache[k].resp
           IN  /\ k \in Keys /\ resp \in Responses
               /\ learned[k][resp] # Never
               /\ now - learned[k][resp] < KeepFor[resp]
<1> DEFINE k == client[c].key
           e == cache[k]
<1>1. k \in Keys /\ e \in Entry /\ Genuine(k, e)
  BY StageType DEF Hit, IInv, TypeOK, EntriesGenuine
<1>2. /\ e.resp \in Responses /\ e.timestamp \in Int /\ e.timestamp >= 0
      /\ e.ttl \in Int /\ e.ttl \in Ttls(e.resp)
      /\ learned[k][e.resp] \in Int
      /\ e.timestamp <= learned[k][e.resp]
      /\ learned[k][e.resp] <= now
      /\ now \in Int
  BY <1>1, EntryType, HistoryType DEF Genuine, IInv, HistoryInOrder
<1>3. Elapsed(e) = now - e.timestamp
  BY <1>2 DEF Elapsed
<1>4. ServeStaleTtl \in Nat
  BY TtlAssumption, SwitchAssumption DEF ServeStaleTtl
<1>5. LongestTtl(e.resp) \in Int /\ e.ttl <= LongestTtl(e.resp)
  BY <1>2, TtlType DEF LongestTtl, Ttls
<1>6. e.ttl + (IF FakeIpProtection THEN 0 ELSE ServeStaleTtl) <= KeepFor[e.resp]
  BY <1>2, <1>4, <1>5 DEF KeepFor
<1>7. Elapsed(e) < e.ttl + IF FakeIpProtection THEN 0 ELSE ServeStaleTtl
  <2>1. CASE IsStale(e)
    BY <1>2, <1>3, <2>1 DEF Hit, CanServeStale
  <2>2. CASE ~IsStale(e)
    BY <1>2, <1>3, <1>4, <2>2 DEF IsStale, Remaining
  <2> QED
    BY <2>1, <2>2
<1>8. KeepFor[e.resp] \in Int
  BY <1>2, <1>4, <1>5 DEF KeepFor
<1> QED
  BY <1>1, <1>2, <1>3, <1>4, <1>6, <1>7, <1>8 DEF Never

\* A query that goes on without an end in sight is seen as before.
LEMMA KeepsAsking ==
    ASSUME TypeOK, NEW c \in Clients,
           Stage(c) \in {"lookup", "expired", "miss", "hook"},
           NEW q \in Query, client' = [client EXCEPT ![c] = q],
           q.pc \in {"lookup", "expired", "miss", "hook", "insert"},
           q.key = client[c].key
    PROVE  UNCHANGED Asking
<1>1. client'[c] = q /\ q # None
  BY NoneAssumption DEF TypeOK
<1>2. Stage(c)' = q.pc
  BY <1>1 DEF Stage
<1>3. Seen(c)' = Seen(c)
  BY <1>1, <1>2, SeenAsking DEF Seen
<1> QED
  BY <1>3, SeenAfterMove DEF Asking, TypeOK

\* Every step of a query is a step of the contract, or none that a client can see.
LEMMA QueryImplements ==
    ASSUME IInv, NEW c \in Clients, QueryStep(c)
    PROVE  Contract!Next \/ UNCHANGED Contract!vars
<1> USE DEF IInv
<1> DEFINE k == client[c].key
<1>1. CASE Miss(c) \/ FindTooOld(c) \/ Invalidate(c)
  <2>1. PICK pc \in {"expired", "miss"} : Move(c, pc) /\ Stage(c) \in {"lookup", "expired"}
    BY <1>1 DEF Miss, FindTooOld, Invalidate
  <2>2. /\ [client[c] EXCEPT !.pc = pc] \in Query
        /\ [client[c] EXCEPT !.pc = pc].pc = pc
        /\ [client[c] EXCEPT !.pc = pc].key = k
    BY <2>1, StageType DEF Query, Undecided
  <2>3. client' = [client EXCEPT ![c] = [client[c] EXCEPT !.pc = pc]]
    BY <2>1 DEF Move
  <2>4. UNCHANGED Asking
    BY <2>1, <2>2, <2>3, KeepsAsking
  <2> QED
    BY <1>1, <2>4 DEF Miss, FindTooOld, Invalidate, Contract!vars
<1>2. ASSUME NEW resp \in Responses, Resolve(c, resp)
      PROVE  UNCHANGED Contract!vars
  <2> DEFINE q == [pc |-> "hook", key |-> k, resp |-> resp, from |-> "upstream"]
  <2>1. q \in Query /\ q.key = k
    BY <1>2, StageType DEF Resolve, Query
  <2>2. UNCHANGED Asking
    BY <1>2, <2>1, KeepsAsking DEF Resolve
  <2> QED
    BY <1>2, <2>2 DEF Resolve, Contract!vars
<1>3. CASE Hit(c)
  <2> DEFINE resp == cache[k].resp
             q == [pc |-> "answered", key |-> k, resp |-> resp, from |-> "cache"]
  <2>1. /\ k \in Keys /\ resp \in Responses
        /\ learned[k][resp] # Never
        /\ now - learned[k][resp] < KeepFor[resp]
    BY <1>3, ServedIsYoung
  <2>2. q \in Query /\ q # None
    BY <2>1, NoneAssumption DEF Query
  <2>3. client' = [client EXCEPT ![c] = q]
    BY <1>3 DEF Hit
  <2>4. Seen(c)' = Contract!Kept(k, resp)
    BY <2>2, <2>3 DEF Seen, Stage, Contract!Kept, TypeOK
  <2>5. Asking' = [Asking EXCEPT ![c] = Contract!Kept(k, resp)]
    BY <2>3, <2>4, SeenAfterMove DEF TypeOK
  <2>6. Asking[c] = [st |-> "asking", key |-> k]
    BY <1>3, SeenAsking DEF Hit
  <2>7. Contract!AnswerKept(c, resp)
    BY <1>3, <2>1, <2>5, <2>6 DEF Hit, Contract!AnswerKept, Contract!Never, Never
  <2> QED
    BY <2>1, <2>7 DEF Contract!Next
<1>4. CASE ResolveFails(c)
  <2> DEFINE q == [client[c] EXCEPT !.pc = "dropped"]
  <2>1. q \in Query /\ q # None /\ q.pc = "dropped" /\ q.key = k
    BY <1>4, StageType, NoneAssumption DEF ResolveFails, Query, Undecided
  <2>2. client' = [client EXCEPT ![c] = q]
    BY <1>4 DEF ResolveFails, Move
  <2>3. Seen(c)' = Contract!Dropped(k)
    BY <2>1, <2>2 DEF Seen, Stage, Contract!Dropped, TypeOK
  <2>4. Asking' = [Asking EXCEPT ![c] = Contract!Dropped(k)]
    BY <2>2, <2>3, SeenAfterMove DEF TypeOK
  <2>5. Asking[c] = [st |-> "asking", key |-> k]
    BY <1>4, SeenAsking DEF ResolveFails
  <2>6. Contract!GiveUp(c)
    BY <1>4, <2>4, <2>5 DEF ResolveFails, Contract!GiveUp
  <2> QED
    BY <2>6 DEF Contract!Next
<1>5. CASE BuildEntry(c)
  <2> DEFINE resp == client[c].resp
             q == [pc |-> "insert", key |-> k, entry |-> NewEntry(resp, CalculateTtl(resp))]
  <2>1. resp \in Responses /\ k \in Keys
    BY <1>5, StageType DEF BuildEntry
  <2>2. q \in Query
    BY <2>1, TtlType, NewEntryType DEF Query
  <2>3. client' = [client EXCEPT ![c] = q]
    BY <1>5 DEF BuildEntry
  <2>4. UNCHANGED Asking
    BY <1>5, <2>2, <2>3, KeepsAsking DEF BuildEntry
  <2>5. Contract!Learn(k, resp)
    BY <1>5, <2>4 DEF BuildEntry, Note, Contract!Learn
  <2> QED
    BY <2>1, <2>5 DEF Contract!Next
<1>6. ASSUME NEW resp \in Responses,
             client' = [client EXCEPT ![c] =
               [pc |-> "answered", key |-> k, resp |-> resp, from |-> "upstream"]],
             Stage(c) \in {"hook", "insert"}, UNCHANGED <<now, learned>>
      PROVE  Contract!Next
  <2> DEFINE q == [pc |-> "answered", key |-> k, resp |-> resp, from |-> "upstream"]
  <2>1. q \in Query /\ q # None
    BY <1>6, StageType, NoneAssumption DEF Query
  <2>2. Seen(c)' = Contract!Fetched(k, resp)
    BY <1>6, <2>1 DEF Seen, Stage, Contract!Fetched, TypeOK
  <2>3. Asking' = [Asking EXCEPT ![c] = Contract!Fetched(k, resp)]
    BY <1>6, <2>2, SeenAfterMove DEF TypeOK
  <2>4. Asking[c] = [st |-> "asking", key |-> k]
    BY <1>6, SeenAsking
  <2>5. Contract!AnswerFetched(c, resp)
    BY <1>6, <2>3, <2>4 DEF Contract!AnswerFetched
  <2> QED
    BY <2>5 DEF Contract!Next
<1>7. CASE InsertEntry(c)
  <2>1. client[c].entry \in Entry
    BY <1>7, StageType DEF InsertEntry
  <2>2. client[c].entry.resp \in Responses
    BY <2>1, EntryType
  <2> QED
    BY <1>6, <1>7, <2>2 DEF InsertEntry
<1>8. CASE LeaveUncached(c)
  <2> DEFINE resp == client[c].resp
  <2>1. client[c] \in [pc : {"hook"}, key : Keys, resp : Responses, from : {"upstream"}]
    BY <1>8, StageType DEF LeaveUncached
  <2>2. [client[c] EXCEPT !.pc = "answered"] =
          [pc |-> "answered", key |-> k, resp |-> resp, from |-> "upstream"]
    BY <2>1
  <2>3. resp \in Responses
    BY <2>1
  <2> QED
    BY <1>6, <1>8, <2>2, <2>3 DEF LeaveUncached, Move
<1> QED
  BY <1>1, <1>2, <1>3, <1>4, <1>5, <1>7, <1>8 DEF QueryStep

\* A refresh that answers is the contract learning of a response.
LEMMA RefreshImplements ==
    ASSUME IInv, NEW r \in Refreshers, RefreshStep(r)
    PROVE  Contract!Next \/ UNCHANGED Contract!vars
<1> USE DEF IInv
<1>1. UNCHANGED <<now, client>>
  BY DEF RefreshStep, RefreshAnswers, RefreshInserts, RecursiveFails, RefreshGivesUp
<1>2. UNCHANGED Asking
  BY <1>1, SeenUnchanged
<1>3. ASSUME NEW resp \in Responses, RefreshAnswers(r, resp)
      PROVE  Contract!Next
  <2>1. task[r].key \in Keys
    BY <1>3, AwaitsType, NoneAssumption DEF RefreshAnswers, Awaits, Backends
  <2>2. Contract!Learn(task[r].key, resp)
    BY <1>1, <1>2, <1>3 DEF RefreshAnswers, Note, Contract!Learn
  <2> QED
    BY <2>1, <2>2 DEF Contract!Next
<1>4. CASE RefreshInserts(r) \/ RecursiveFails(r) \/ RefreshGivesUp(r)
  BY <1>1, <1>2, <1>4 DEF RefreshInserts, RecursiveFails, RefreshGivesUp, Contract!vars
<1> QED
  BY <1>3, <1>4 DEF RefreshStep

\* A query that arrives is one that the contract lets ask.
LEMMA ArriveImplements ==
    ASSUME TypeOK, NEW c \in Clients, NEW k \in Keys, Arrive(c, k)
    PROVE  Contract!Next
<1> DEFINE q == [pc |-> "lookup", key |-> k, resp |-> None, from |-> "nowhere"]
<1>1. q \in Query /\ q # None
  BY NoneAssumption DEF Query, Undecided
<1>2. client' = [client EXCEPT ![c] = q]
  BY DEF Arrive
<1>3. Seen(c)' = Contract!Asking(k)
  BY <1>1, <1>2 DEF Seen, Stage, Contract!Asking, TypeOK
<1>4. Asking' = [Asking EXCEPT ![c] = Contract!Asking(k)]
  BY <1>2, <1>3, SeenAfterMove DEF TypeOK
<1>5. Asking[c].st # "asking"
  BY DEF Arrive, Asking, Seen
<1>6. Contract!Ask(c, k)
  BY <1>4, <1>5 DEF Arrive, Contract!Ask
<1> QED
  BY <1>6 DEF Contract!Next

\* Every step maps to a step of the contract or to a stutter.
LEMMA NextImplements == IInv /\ [Next]_vars => [Contract!Next]_(Contract!vars)
<1> SUFFICES ASSUME IInv, [Next]_vars
             PROVE  Contract!Next \/ UNCHANGED Contract!vars
  OBVIOUS
<1> USE DEF IInv
<1>1. CASE UNCHANGED <<now, learned, client>>
  BY <1>1, SeenUnchanged DEF Contract!vars
<1>2. CASE Tick
  <2>1. Contract!Elapse
    BY <1>2, SeenUnchanged DEF Tick, Contract!Elapse
  <2> QED
    BY <2>1 DEF Contract!Next
<1>3. CASE Restart
  <2>1. Asking' = [c \in Clients |-> Contract!Quiet]
    BY <1>3 DEF Restart, Asking, Seen, Stage, Contract!Quiet
  <2>2. Contract!Stop
    BY <1>3, <2>1 DEF Restart, Contract!Stop
  <2> QED
    BY <2>2 DEF Contract!Next
<1>4. ASSUME NEW c \in Clients, NEW k \in Keys, Arrive(c, k)
      PROVE  Contract!Next
  BY <1>4, ArriveImplements
<1>5. ASSUME \/ SaveStart \/ SaveStep \/ LoadStep \/ Purge
             \/ \E k \in Keys : SpawnShadow(k) \/ Evict(k)
             \/ UNCHANGED vars
      PROVE  UNCHANGED <<now, learned, client>>
  BY <1>5 DEF SaveStart, SaveStep, SaveVisit, SaveEnd, LoadStep, LoadNext, LoadCutShort,
              Purge, SpawnShadow, Evict, vars
<1> QED
  BY <1>1, <1>2, <1>3, <1>4, <1>5, QueryImplements, RefreshImplements DEF Next

\* Initial states map to initial states.
LEMMA InitImplements == Init => Contract!Init
BY DEF Init, Asking, Seen, Stage, Contract!Init, Contract!Quiet, Contract!Never, Never

\* The clients of the cache see what CacheContract allows: a response handed out
\* from the cache was learned for the key asked, less than its TTL and the stale
\* window (with FakeIP protection: less than its TTL) ago, across refreshes, the
\* file and restarts.
THEOREM CacheKeepsContract == Spec => ImplementsContract
<1>1. Init => Contract!Init
  BY InitImplements
<1>2. IInv /\ [Next]_vars => [Contract!Next]_(Contract!vars)
  BY NextImplements
<1> QED
  BY <1>1, <1>2, InvHolds, PTL DEF Spec, ImplementsContract, Contract!Spec
=============================================================================
