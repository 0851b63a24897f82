--------------------------- MODULE HotReloadProofs ---------------------------
(***************************************************************************)
(* Proofs about HotReload, for every number of workers, every capacity of  *)
(* the broadcast channel and either build profile.                         *)
(***************************************************************************)
EXTENDS HotReload, SequenceTheorems, TLAPS

\* What a receiver is given stays within its channel, and comes last there,
\* whether or not something older had to go.
LEMMA DeliverLast ==
    ASSUME NEW box \in Seq(Configs), Len(box) <= Capacity, NEW config \in Configs
    PROVE  /\ Deliver(box, config) \in Seq(Configs)
           /\ Len(Deliver(box, config)) <= Capacity
           /\ Deliver(box, config) # <<>>
           /\ Last(Deliver(box, config)) = config
<1>1. CASE Len(box) < Capacity
  BY <1>1, CapacityAssumption DEF Deliver, Last
<1>2. CASE Len(box) = Capacity
  <2>1. box # <<>>
    BY <1>2, CapacityAssumption
  <2>2. Tail(box) \in Seq(Configs) /\ Len(Tail(box)) = Capacity - 1
    BY <1>2, <2>1, CapacityAssumption
  <2> QED
    BY <1>2, <2>2, CapacityAssumption DEF Deliver, Last
<1> QED
  BY <1>1, <1>2, CapacityAssumption

\* Taking the head leaves the last one the last one, unless it was the head.
LEMMA TailLast ==
    ASSUME NEW box \in Seq(Configs), box # <<>>
    PROVE  /\ Head(box) \in Configs
           /\ Tail(box) \in Seq(Configs)
           /\ Len(Tail(box)) <= Len(box)
           /\ Tail(box) = <<>> => Last(box) = Head(box)
           /\ Tail(box) # <<>> => Last(Tail(box)) = Last(box)
<1>1. Len(box) \in Nat /\ Head(box) = box[1] /\ Head(box) \in Configs
  OBVIOUS
<1>2. Len(box) > 0
  BY EmptySeq
<1>3. /\ Tail(box) \in Seq(Configs)
      /\ Len(Tail(box)) = Len(box) - 1
      /\ \A i \in 1 .. Len(box) - 1 : Tail(box)[i] = box[i + 1]
  BY <1>2
<1>4. ASSUME Tail(box) = <<>> PROVE Last(box) = Head(box)
  <2>1. Len(box) - 1 = Len(<<>>)
    BY <1>3, <1>4
  <2>2. Len(box) = 1
    BY <1>1, <2>1, EmptySeq
  <2> QED
    BY <1>1, <2>2 DEF Last
<1>5. ASSUME Tail(box) # <<>> PROVE Last(Tail(box)) = Last(box)
  <2>1. Len(Tail(box)) > 0
    BY <1>3, <1>5, EmptySeq
  <2>2. Len(Tail(box)) \in 1 .. Len(box) - 1
    BY <1>1, <1>3, <2>1
  <2> QED
    BY <1>1, <1>3, <2>2 DEF Last
<1> QED
  BY <1>1, <1>3, <1>4, <1>5

\* The instance starts with one configuration everywhere.
LEMMA InvInit == Init => IInv
<1> SUFFICES ASSUME Init PROVE IInv
  OBVIOUS
<1>1. \A w \in Workers : mailbox[w] = <<>> /\ worker[w] = main
  BY DEF Init
<1>2. TypeOK
  BY <1>1, CapacityAssumption DEF Init, TypeOK, Contents
<1>3. NoUpdateLost
  BY <1>1 DEF Init, NoUpdateLost, Newest, Latest, Serving
<1> QED
  BY <1>2, <1>3 DEF IInv

\* Steps of the watcher and of the directory touch no registry.
LEMMA InvWatcher ==
    ASSUME IInv, Change \/ ChangeOther \/ WatcherStep
    PROVE  IInv'
<1>1. UNCHANGED <<mainVars, workerVars>>
  BY DEF WatcherStep, Change, ChangeOther, WatchStarts, WatchFails, TakeEvent, OnReload
<1>2. /\ file' \in Contents
      /\ alive' \in BOOLEAN
      /\ watcher' \in {"starting", "watching", "noticed", "over"}
      /\ event' \in {"empty", "ours", "other"}
  BY ProfileAssumption
     DEF IInv, TypeOK, WatcherStep, Change, ChangeOther, Notify, WatchStarts, WatchFails,
         TakeEvent, OnReload
<1>3. TypeOK'
  BY <1>1, <1>2 DEF IInv, TypeOK, mainVars, workerVars
<1>4. NoUpdateLost'
  BY <1>1 DEF IInv, NoUpdateLost, Newest, Latest, Serving, mainVars, workerVars
<1> QED
  BY <1>3, <1>4 DEF IInv

\* The main loop publishes a configuration before it runs it, and runs no other.
LEMMA InvLoop ==
    ASSUME IInv, LoopStep
    PROVE  IInv'
<1> USE DEF IInv
<1>1. CASE Hash
  <2>1. TypeOK'
    BY <1>1 DEF Hash, TypeOK, watcherVars, workerVars
  <2>2. NoUpdateLost'
    BY <1>1 DEF Hash, NoUpdateLost, Newest, Latest, Serving, workerVars
  <2> QED
    BY <2>1, <2>2
<1>2. CASE Load
  <2>1. TypeOK'
    BY <1>2 DEF Load, TypeOK, Contents, watcherVars, workerVars
  <2>2. NoUpdateLost'
    BY <1>2 DEF Load, NoUpdateLost, Newest, Latest, Serving, workerVars
  <2> QED
    BY <2>1, <2>2
<1>3. CASE Publish
  <2>1. loaded \in Configs /\ loop' = "rebuild"
        /\ UNCHANGED <<file, alive, watcher, event, newHash, lastHash, loaded, main, worker>>
    BY <1>3 DEF Publish, TypeOK, watcherVars
  <2>2. \A w \in Workers :
          /\ mailbox'[w] \in Seq(Configs)
          /\ Len(mailbox'[w]) <= Capacity
          /\ w \in Serving => mailbox'[w] # <<>> /\ Last(mailbox'[w]) = loaded
    BY <1>3, <2>1, DeliverLast DEF Publish, TypeOK
  <2>3. mailbox' \in [Workers -> Seq(Configs)]
    BY <1>3, <2>2 DEF Publish
  <2>4. TypeOK'
    BY <2>1, <2>2, <2>3 DEF TypeOK
  <2>5. NoUpdateLost'
    BY <2>1, <2>2 DEF NoUpdateLost, Newest, Latest, Serving
  <2> QED
    BY <2>4, <2>5
<1>4. CASE Apply
  <2>1. loop = "rebuild" /\ loaded \in Configs /\ main' = loaded /\ loop' = "select"
        /\ newHash' = None /\ loaded' = None
        /\ UNCHANGED <<file, alive, watcher, event, worker, mailbox>>
    BY <1>4 DEF Apply, TypeOK, watcherVars, workerVars
  <2>2. lastHash' \in Contents
    BY <1>4 DEF Apply, TypeOK
  <2>3. TypeOK'
    BY <2>1, <2>2 DEF TypeOK, Contents
  <2>4. NoUpdateLost'
    BY <2>1 DEF NoUpdateLost, Newest, Latest, Serving
  <2> QED
    BY <2>3, <2>4
<1> QED
  BY <1>1, <1>2, <1>3, <1>4 DEF LoopStep

\* A worker moves on to the next configuration, or ends.
LEMMA InvWorker ==
    ASSUME IInv, NEW w \in Workers, Receive(w) \/ ServerEnds(w)
    PROVE  IInv'
<1> USE DEF IInv
<1>1. UNCHANGED <<file, alive, watcher, event, loop, newHash, lastHash, loaded, main>>
  BY DEF Receive, ServerEnds, watcherVars, mainVars
<1>2. \A v \in Workers \ {w} : worker'[v] = worker[v] /\ mailbox'[v] = mailbox[v]
  BY DEF Receive, ServerEnds, TypeOK
<1>3. CASE Receive(w)
  <2>1. /\ w \in Serving
        /\ worker'[w] = Head(mailbox[w]) /\ mailbox'[w] = Tail(mailbox[w])
        /\ mailbox[w] # <<>> /\ mailbox[w] \in Seq(Configs)
    BY <1>3 DEF Receive, TypeOK
  <2>2. worker'[w] \in Configs /\ mailbox'[w] \in Seq(Configs)
        /\ Len(mailbox'[w]) <= Len(mailbox[w])
    BY <2>1, TailLast
  <2>3. Len(mailbox'[w]) <= Capacity
    BY <2>1, <2>2, CapacityAssumption DEF TypeOK
  <2>4. worker' \in [Workers -> Configs \cup {None}] /\ mailbox' \in [Workers -> Seq(Configs)]
    BY <1>3, <2>1, <2>2 DEF Receive, TypeOK
  <2>5. TypeOK'
    BY <1>1, <1>2, <2>3, <2>4 DEF TypeOK
  <2>6. Newest(w)' = Newest(w)
    BY <2>1, TailLast DEF Newest
  <2>7. NoUpdateLost'
    BY <1>1, <1>2, <2>1, <2>6 DEF NoUpdateLost, Newest, Latest, Serving
  <2> QED
    BY <2>5, <2>7
<1>4. CASE ServerEnds(w)
  <2>1. worker'[w] = None /\ mailbox'[w] = <<>>
    BY <1>4 DEF ServerEnds, TypeOK
  <2>2. worker' \in [Workers -> Configs \cup {None}] /\ mailbox' \in [Workers -> Seq(Configs)]
    BY <1>4 DEF ServerEnds, TypeOK
  <2>3. \A v \in Workers : Len(mailbox'[v]) <= Capacity
    BY <1>2, <2>1, CapacityAssumption DEF TypeOK
  <2>4. TypeOK'
    BY <1>1, <2>2, <2>3 DEF TypeOK
  <2>5. NoUpdateLost'
    BY <1>1, <1>2, <2>1 DEF NoUpdateLost, Newest, Latest, Serving
  <2> QED
    BY <2>4, <2>5
<1> QED
  BY <1>3, <1>4

\* The inductive invariant holds throughout.
LEMMA InvHolds == Spec => []IInv
<1>1. IInv /\ [Next]_vars => IInv'
  <2> SUFFICES ASSUME IInv, [Next]_vars PROVE IInv'
    OBVIOUS
  <2>1. CASE UNCHANGED vars
    BY <2>1 DEF vars, mainVars, workerVars, watcherVars, IInv, TypeOK, NoUpdateLost, Newest,
                Latest, Serving
  <2>2. CASE Next
    BY <2>2, InvWatcher, InvLoop, InvWorker DEF Next
  <2> QED
    BY <2>1, <2>2
<1> QED
  BY <1>1, InvInit, PTL DEF Spec

\* What is served or under way loads, and no channel holds more than its capacity.
THEOREM TypeCorrect == Spec => []TypeOK
BY InvHolds, PTL DEF IInv

\* Every worker ends up with what the main loop published last, however full its
\* channel has been.
THEOREM WorkersMissNothing == Spec => []NoUpdateLost
BY InvHolds, PTL DEF IInv
=============================================================================
