------------------------ MODULE LearningPartsProofs ------------------------
(***************************************************************************)
(* Proofs about the four components of MCLearning, for every value of its  *)
(* constants: which queries SmartForward may send to the FakeIP upstream   *)
(* and when its two stores of classes agree; how many queries the rate     *)
(* limiter lets through; and the types of all four.  What AutoPilot's      *)
(* memory and its health records promise is in AutoPilotProofs.            *)
(***************************************************************************)
EXTENDS MCLearning, FiniteSets, SequenceTheorems, Integers, TLAPS

\* Before there is evidence nothing anywhere says that the domain is foreign.
NothingForeign ==
    ~evidence =>
        /\ class # "global" /\ persisted # "global" /\ file # "global"
        /\ \A i \in 1 .. Len(channel) : channel[i] = "cn"
        /\ \A w \in Writers : writer[w].class # "global"
        /\ reports["fakeip"] = 0
        /\ pc \in {"remembered", "cached"} => told = "local"
        /\ pc \notin {"fallback", "last", "faked"}

\* A writer is at rest, or has an update to apply.
WritersSound ==
    \A w \in Writers :
        \/ writer[w] = Idle
        \/ writer[w].todo \in {Steps, {"classify"}} /\ writer[w].class \in Classes

\* The learner alone writes, persist_data first.
InTurn ==
    ~overtaken =>
        /\ writer["overflow"] = Idle
        /\ IF writer["learner"].todo = {"classify"}
           THEN persisted \in {"none", writer["learner"].class}
           ELSE class # "none" /\ persisted # "none" => class = persisted

\* The inductive invariant of split routing.
IInv ==
    SmartForwardTypeOK /\ DomesticNeverFaked /\ NothingForeign /\ WritersSound /\ InTurn

\* A process that has just started knows nothing.
LEMMA InvInit == Init => IInv
<1> SUFFICES ASSUME Init PROVE IInv
  OBVIOUS
<1> USE DEF Init, Idle, Writers
<1>1. SmartForwardTypeOK
  <2>1. writer \in [Writers -> [class : Entry, todo : SUBSET Steps]]
    BY DEF Entry, Classes, Steps
  <2>2. channel \in Seq(Classes) /\ Len(channel) <= Capacity
    BY CapacityAssumption
  <2>3. reports \in [Targets -> 0 .. Confidence]
    BY ConfidenceAssumption
  <2>4. "none" \in Entry /\ "local" \in Targets /\ 0 \in 0 .. 1
    BY DEF Entry, Targets
  <2> HIDE DEF Idle, Writers
  <2> QED
    BY <2>1, <2>2, <2>3, <2>4 DEF SmartForwardTypeOK
<1>2. DomesticNeverFaked /\ NothingForeign
  BY DEF DomesticNeverFaked, NothingForeign, Targets
<1>3. WritersSound /\ InTurn
  BY DEF WritersSound, InTurn
<1> QED
  BY <1>1, <1>2, <1>3 DEF IInv

-----------------------------------------------------------------------------
(* What the parts of an action keep.                                       *)

\* record_learning: what is learned waits in the channel, or has a task of its own.
LEMMA LearnKeeps ==
    ASSUME SmartForwardTypeOK, WritersSound, InTurn,
           NEW v \in Classes, Learn(v)
    PROVE  /\ channel' \in Seq(Classes) /\ Len(channel') <= Capacity
           /\ writer' \in [Writers -> [class : Entry, todo : SUBSET Steps]]
           /\ overtaken' \in BOOLEAN
           /\ UNCHANGED <<class, persisted>>
           /\ WritersSound' /\ InTurn'
           /\ \A i \in 1 .. Len(channel') :
                 channel'[i] = v \/ (i \in 1 .. Len(channel) /\ channel'[i] = channel[i])
           /\ \A w \in Writers : writer'[w].class \in {v, writer[w].class}
<1> USE CapacityAssumption
<1>1. CASE Len(channel) < Capacity /\ channel' = Append(channel, v)
           /\ UNCHANGED <<class, persisted, writer, overtaken>>
  BY <1>1 DEF SmartForwardTypeOK, WritersSound, InTurn
<1>2. CASE /\ Len(channel) = Capacity /\ writer["overflow"] = Idle
           /\ writer' = [writer EXCEPT !["overflow"] = [class |-> v, todo |-> Steps]]
           /\ overtaken' = TRUE
           /\ UNCHANGED <<class, persisted, channel>>
  BY <1>2 DEF SmartForwardTypeOK, WritersSound, InTurn, Writers, Entry, Classes, Steps, Idle
<1> QED
  BY <1>1, <1>2 DEF Learn

\* The same of learning nothing.
LEMMA LearnNothingKeeps ==
    ASSUME SmartForwardTypeOK, WritersSound, InTurn, LearnNothing
    PROVE  WritersSound' /\ InTurn'
BY DEF LearnNothing, storeVars, WritersSound, InTurn

\* Reports are counted for their target alone.
LEMMA ReportKeeps ==
    ASSUME SmartForwardTypeOK, NEW t \in Targets, Report(t)
    PROVE  /\ reports' \in [Targets -> 0 .. Confidence]
           /\ \A u \in Targets \ {t} : reports'[u] = reports[u]
BY ConfidenceAssumption DEF SmartForwardTypeOK, Report, Targets

-----------------------------------------------------------------------------
(* Steps of a query.                                                       *)

\* What a query does before it has an answer.
LEMMA InvAsk ==
    ASSUME IInv, Arrive \/ AskMemory \/ AskCache \/ Remove
    PROVE  IInv'
<1> USE ConfidenceAssumption DEF IInv, At, Told, Goes, configVars, fileVars, storeVars,
        historyVars, SmartForwardTypeOK, DomesticNeverFaked, NothingForeign, WritersSound,
        InTurn, Targets, Entry, Classes
<1>1. CASE Arrive
  BY <1>1 DEF Arrive
<1>2. CASE AskMemory
  <2>1. UNCHANGED <<storeVars, reports, historyVars, configVars, fileVars>>
    BY <1>2 DEF AskMemory
  <2>2. \/ pc' = "cache" /\ told' = "local"
        \/ pc' = "remembered" /\ told' \in Targets /\ reports[told'] >= Confidence
    BY <1>2 DEF AskMemory
  <2>3. kept' = FALSE
    BY <1>2 DEF AskMemory
  <2>4. told' \in Targets /\ (~evidence => told' = "local")
    BY <2>2
  <2>5. SmartForwardTypeOK'
    BY <2>1, <2>2, <2>3, <2>4
  <2> QED
    BY <2>1, <2>2, <2>4, <2>5
<1>3. CASE AskCache
  <2>1. UNCHANGED <<storeVars, reports, historyVars, configVars, fileVars>>
    BY <1>3 DEF AskCache
  <2>2. \/ pc' = "remove" /\ told' = "local"
        \/ /\ pc' = "cached"
           /\ class # "none" /\ told' = IF class = "cn" THEN "local" ELSE "fakeip"
    BY <1>3 DEF AskCache
  <2>3. kept' = FALSE
    BY <1>3 DEF AskCache
  <2>4. told' \in Targets /\ (~evidence => told' = "local")
    BY <2>2
  <2>5. SmartForwardTypeOK'
    BY <2>1, <2>2, <2>3, <2>4
  <2> QED
    BY <2>1, <2>2, <2>4, <2>5
<1>4. CASE Remove
  BY <1>4 DEF Remove
<1> QED
  BY <1>1, <1>2, <1>3, <1>4

\* The exchange of a shortcut.
LEMMA InvShortcut == ASSUME IInv, Shortcut PROVE IInv'
<1> USE DEF IInv
<1>1. CASE /\ Ends(IF Route(told) = "local" THEN "answered" ELSE "faked")
           /\ Report(Route(told))
           /\ IF pc = "remembered" \/ Route(told) # told
              THEN Learn(IF Route(told) = "local" THEN "cn" ELSE "global")
              ELSE LearnNothing
  <2>1. Route(told) \in Targets /\ (guarded => Route(told) = "local")
        /\ (told = "local" => Route(told) = "local")
    BY DEF SmartForwardTypeOK, Route, Targets
  <2>2. pc \in {"remembered", "cached"}
    BY DEF Shortcut
  <2>3. reports' \in [Targets -> 0 .. Confidence]
        /\ \A u \in Targets \ {Route(told)} : reports'[u] = reports[u]
    BY <1>1, <2>1, ReportKeeps
  <2>4. pc' = IF Route(told) = "local" THEN "answered" ELSE "faked"
    BY <1>1 DEF Ends, Goes, Told, At
  <2>5. told' = "local" /\ kept' = FALSE /\ evidence' = evidence
        /\ UNCHANGED <<guarded, prefer, file, saved>>
    BY <1>1 DEF Ends, Goes, Told, At, configVars, fileVars
  <2> DEFINE v == IF Route(told) = "local" THEN "cn" ELSE "global"
  <2>6. CASE Learn(v)
    <3>1. v \in Classes
      BY DEF Classes
    <3> HIDE DEF v
    <3>2. /\ channel' \in Seq(Classes) /\ Len(channel') <= Capacity
          /\ writer' \in [Writers -> [class : Entry, todo : SUBSET Steps]]
          /\ overtaken' \in BOOLEAN
          /\ UNCHANGED <<class, persisted>>
          /\ WritersSound' /\ InTurn'
          /\ \A i \in 1 .. Len(channel') :
                channel'[i] = v \/ (i \in 1 .. Len(channel) /\ channel'[i] = channel[i])
          /\ \A w \in Writers : writer'[w].class \in {v, writer[w].class}
      BY <2>6, <3>1, LearnKeeps
    <3>3. SmartForwardTypeOK'
      BY <2>3, <2>4, <2>5, <3>2 DEF SmartForwardTypeOK, Targets
    <3>4. NothingForeign'
      <4> SUFFICES ASSUME ~evidence PROVE NothingForeign'
        BY <2>5 DEF NothingForeign
      <4>1. Route(told) = "local"
        BY <2>1, <2>2 DEF NothingForeign
      <4>2. v = "cn"
        BY <4>1 DEF v
      <4>3. reports'["fakeip"] = 0
        BY <2>3, <4>1 DEF NothingForeign, Targets
      <4> QED
        BY <2>4, <2>5, <3>2, <4>1, <4>2, <4>3 DEF NothingForeign
    <3> QED
      BY <2>1, <2>4, <2>5, <3>2, <3>3, <3>4 DEF DomesticNeverFaked
  <2>7. CASE LearnNothing
    <3>1. WritersSound' /\ InTurn'
      BY <2>7, LearnNothingKeeps
    <3>2. UNCHANGED <<class, persisted, channel, writer, overtaken>>
      BY <2>7 DEF LearnNothing, storeVars
    <3>3. SmartForwardTypeOK'
      BY <2>3, <2>4, <2>5, <3>2 DEF SmartForwardTypeOK, Targets
    <3>4. NothingForeign'
      <4> SUFFICES ASSUME ~evidence PROVE NothingForeign'
        BY <2>5 DEF NothingForeign
      <4>1. Route(told) = "local"
        BY <2>1, <2>2 DEF NothingForeign
      <4>2. reports'["fakeip"] = 0
        BY <2>3, <4>1 DEF NothingForeign, Targets
      <4> QED
        BY <2>4, <2>5, <3>2, <4>1, <4>2 DEF NothingForeign
    <3> QED
      BY <2>1, <2>4, <2>5, <3>1, <3>3, <3>4 DEF DomesticNeverFaked
  <2> QED
    BY <1>1, <2>6, <2>7
<1>2. CASE /\ Goes(IF pc = "remembered" THEN "cache" ELSE "probe")
           /\ LearnNothing
           /\ UNCHANGED <<reports, evidence>>
  BY <1>2, LearnNothingKeeps
     DEF Goes, Told, At, configVars, fileVars, LearnNothing, storeVars,
         SmartForwardTypeOK, DomesticNeverFaked, NothingForeign, Targets
<1> QED
  BY <1>1, <1>2 DEF Shortcut

-----------------------------------------------------------------------------
(* The probe.                                                              *)

\* An answer of the local upstream or of its fallback.
LEMMA InvClassify ==
    ASSUME IInv, pc \in {"probe", "fallback"},
           NEW outcome \in Answers, NEW t \in {"local", "fallback"}, Classify(outcome, t)
    PROVE  IInv'
<1> USE DEF IInv
<1>1. evidence' \in BOOLEAN /\ (~evidence' => ~evidence /\ outcome = "domestic")
  BY DEF Classify, SmartForwardTypeOK
<1>2. CASE Verdict(outcome) = "local"
  <2>1. /\ Learn("cn")
        /\ pc' = "answered" /\ told' = "local" /\ kept' = FALSE
        /\ UNCHANGED <<guarded, prefer, file, saved>>
        /\ Report("local") \/ UNCHANGED reports
    BY <1>2 DEF Classify, Goes, Told, At, configVars, fileVars
  <2>2. reports' \in [Targets -> 0 .. Confidence] /\ reports'["fakeip"] = reports["fakeip"]
    BY <2>1, ReportKeeps DEF SmartForwardTypeOK, Targets
  <2>3. /\ channel' \in Seq(Classes) /\ Len(channel') <= Capacity
        /\ writer' \in [Writers -> [class : Entry, todo : SUBSET Steps]]
        /\ overtaken' \in BOOLEAN
        /\ UNCHANGED <<class, persisted>>
        /\ WritersSound' /\ InTurn'
        /\ \A i \in 1 .. Len(channel') :
              channel'[i] = "cn" \/ (i \in 1 .. Len(channel) /\ channel'[i] = channel[i])
        /\ \A w \in Writers : writer'[w].class \in {"cn", writer[w].class}
    BY <2>1, LearnKeeps DEF Classes
  <2>4. SmartForwardTypeOK'
    BY <1>1, <2>1, <2>2, <2>3 DEF SmartForwardTypeOK, Targets
  <2>5. NothingForeign'
    BY <1>1, <2>1, <2>2, <2>3 DEF NothingForeign
  <2> QED
    BY <2>1, <2>3, <2>4, <2>5 DEF DomesticNeverFaked
<1>3. CASE Verdict(outcome) # "local"
  <2>1. /\ evidence' = TRUE
        /\ pc' = "last" /\ told' = "local" /\ kept' = TRUE
        /\ UNCHANGED <<guarded, prefer, file, saved, reports>>
        /\ Learn("global") \/ LearnNothing
    BY <1>3 DEF Classify, Verdict, At, configVars, fileVars
  <2>2. CASE Learn("global")
    <3>1. /\ channel' \in Seq(Classes) /\ Len(channel') <= Capacity
          /\ writer' \in [Writers -> [class : Entry, todo : SUBSET Steps]]
          /\ overtaken' \in BOOLEAN
          /\ UNCHANGED <<class, persisted>>
          /\ WritersSound' /\ InTurn'
      BY <2>2, LearnKeeps DEF Classes
    <3> QED
      BY <2>1, <3>1 DEF SmartForwardTypeOK, DomesticNeverFaked, NothingForeign, Targets
  <2>3. CASE LearnNothing
    BY <2>1, <2>3, LearnNothingKeeps
       DEF LearnNothing, storeVars, SmartForwardTypeOK, DomesticNeverFaked, NothingForeign,
           Targets
  <2> QED
    BY <2>1, <2>2, <2>3
<1> QED
  BY <1>2, <1>3

\* The probe, its fallback, and what is left to do after them.
LEMMA InvProbe == ASSUME IInv, Probe \/ ProbeFallback \/ Last PROVE IInv'
<1> USE DEF Goes, Told, At, configVars, fileVars, LearnNothing, storeVars, Ends
<1>1. CASE Probe
  <2>1. ASSUME NEW outcome \in Answers, Classify(outcome, "local") PROVE IInv'
    BY <1>1, <2>1, InvClassify DEF Probe
  <2>2. CASE Goes("fallback") /\ evidence' = TRUE /\ LearnNothing /\ UNCHANGED reports
    BY <2>2, LearnNothingKeeps
       DEF IInv, SmartForwardTypeOK, DomesticNeverFaked, NothingForeign, Targets
  <2> QED
    BY <1>1, <2>1, <2>2 DEF Probe
<1>2. CASE ProbeFallback
  <2>1. ASSUME NEW outcome \in Answers, Classify(outcome, "fallback") PROVE IInv'
    BY <1>2, <2>1, InvClassify DEF ProbeFallback
  <2>2. CASE Goes("last") /\ LearnNothing /\ UNCHANGED <<reports, evidence>>
    BY <1>2, <2>2, LearnNothingKeeps
       DEF ProbeFallback, IInv, SmartForwardTypeOK, DomesticNeverFaked, NothingForeign,
           Targets
  <2> QED
    BY <1>2, <2>1, <2>2 DEF ProbeFallback
<1>3. CASE Last
  <2>1. evidence /\ evidence' = evidence
    BY <1>3 DEF Last, IInv, NothingForeign, SmartForwardTypeOK
  <2>2. reports' \in [Targets -> 0 .. Confidence]
    BY <1>3, ReportKeeps DEF Last, IInv, SmartForwardTypeOK, Targets
  <2>3. WritersSound' /\ InTurn'
    BY <1>3, LearnNothingKeeps DEF Last, IInv
  <2>4. SmartForwardTypeOK'
    BY <1>3, <2>1, <2>2 DEF Last, IInv, SmartForwardTypeOK, Targets
  <2>5. DomesticNeverFaked'
    BY <1>3 DEF Last, DomesticNeverFaked
  <2> QED
    BY <2>1, <2>3, <2>4, <2>5 DEF IInv, NothingForeign
<1> QED
  BY <1>1, <1>2, <1>3

-----------------------------------------------------------------------------
(* Steps of the learner and of the file.                                   *)

\* A step that only moves what is learned and written, and leaves the rest alone.
LEMMA WriteKeepsRest ==
    ASSUME IInv, UNCHANGED <<configVars, queryVars, fileVars, reports, historyVars>>,
           class' \in Entry, persisted' \in Entry,
           channel' \in Seq(Classes), Len(channel') <= Capacity,
           writer' \in [Writers -> [class : Entry, todo : SUBSET Steps]],
           ~evidence => /\ class' # "global" /\ persisted' # "global"
                        /\ \A i \in 1 .. Len(channel') : channel'[i] = "cn"
                        /\ \A w \in Writers : writer'[w].class # "global",
           WritersSound', InTurn'
    PROVE  IInv'
BY DEF IInv, configVars, queryVars, fileVars, historyVars, SmartForwardTypeOK,
       DomesticNeverFaked, NothingForeign

\* An update is taken from the channel and applied in two steps.
LEMMA InvWrite == ASSUME IInv, Write PROVE IInv'
<1> USE CapacityAssumption
<1>1. UNCHANGED <<configVars, queryVars, fileVars, reports, historyVars>>
  BY DEF Write
<1>2. /\ SmartForwardTypeOK /\ NothingForeign /\ WritersSound /\ InTurn
      /\ overtaken' = overtaken
  BY <1>1 DEF IInv, historyVars
<1>3. CASE Take
  <2>1. channel # <<>> /\ Len(channel) > 0
    BY <1>2, <1>3 DEF Take, SmartForwardTypeOK
  <2>2. /\ channel' \in Seq(Classes) /\ Len(channel') = Len(channel) - 1
        /\ \A i \in 1 .. Len(channel') : channel'[i] = channel[i + 1]
        /\ channel[1] \in Classes
    BY <1>2, <1>3, <2>1 DEF Take, SmartForwardTypeOK
  <2>3. writer' = [writer EXCEPT !["learner"] = [class |-> channel[1], todo |-> Steps]]
        /\ writer["learner"] = Idle
    BY <1>3, <2>1 DEF Take
  <2>4. UNCHANGED <<class, persisted>>
    BY <1>3 DEF Take
  <2>5. writer' \in [Writers -> [class : Entry, todo : SUBSET Steps]]
    BY <1>2, <2>2, <2>3 DEF SmartForwardTypeOK, Entry, Writers
  <2>6. WritersSound'
    BY <1>2, <2>2, <2>3 DEF WritersSound, SmartForwardTypeOK, Writers
  <2>7. InTurn'
    <3>1. /\ writer'["overflow"] = writer["overflow"]
          /\ writer'["learner"].todo = Steps
          /\ writer["learner"].todo = {}
      BY <1>2, <2>3 DEF SmartForwardTypeOK, Writers, Idle
    <3>2. Steps # {"classify"} /\ {} # {"classify"}
      BY DEF Steps
    <3> QED
      BY <1>2, <2>4, <3>1, <3>2 DEF InTurn
  <2>8. ~evidence => /\ class' # "global" /\ persisted' # "global"
                     /\ \A i \in 1 .. Len(channel') : channel'[i] = "cn"
                     /\ \A w \in Writers : writer'[w].class # "global"
    <3> SUFFICES ASSUME ~evidence
                 PROVE  /\ \A i \in 1 .. Len(channel') : channel'[i] = "cn"
                        /\ \A w \in Writers : writer'[w].class # "global"
      BY <1>2, <2>4 DEF NothingForeign
    <3>1. \A i \in 1 .. Len(channel) : channel[i] = "cn"
      BY <1>2 DEF NothingForeign
    <3>2. Len(channel) \in Nat /\ 1 \in 1 .. Len(channel)
      BY <1>2, <2>1 DEF SmartForwardTypeOK
    <3>3. \A i \in 1 .. Len(channel') : i + 1 \in 1 .. Len(channel)
      BY <2>2, <3>2
    <3>4. \A w \in Writers : writer'[w].class # "global"
      BY <1>2, <2>3, <3>1, <3>2 DEF NothingForeign, SmartForwardTypeOK, Writers
    <3> QED
      BY <2>2, <3>1, <3>3, <3>4
  <2>9. class' \in Entry /\ persisted' \in Entry /\ Len(channel') <= Capacity
    BY <1>2, <2>1, <2>2, <2>4 DEF SmartForwardTypeOK
  <2> QED
    BY <1>1, <2>2, <2>5, <2>6, <2>7, <2>8, <2>9, WriteKeepsRest
<1>4. ASSUME NEW w \in Writers, Persist(w) PROVE IInv'
  <2>1. /\ writer[w].todo = Steps /\ writer[w].class \in Classes
        /\ writer' = [writer EXCEPT ![w].todo = {"classify"}]
        /\ persisted' = writer[w].class
        /\ UNCHANGED <<class, channel>>
    BY <1>2, <1>4 DEF Persist, WritersSound, Idle, Steps
  <2>2. /\ writer' \in [Writers -> [class : Entry, todo : SUBSET Steps]]
        /\ \A v \in Writers : writer'[v].class = writer[v].class
    BY <1>2, <2>1 DEF SmartForwardTypeOK, Steps
  <2>3. WritersSound'
    BY <1>2, <2>1, <2>2 DEF WritersSound, SmartForwardTypeOK, Steps
  <2>4. InTurn'
    <3> SUFFICES ASSUME ~overtaken PROVE InTurn'
      BY <1>2 DEF InTurn
    <3>1. Steps # {}
      BY DEF Steps
    <3>2. w = "learner"
      BY <1>2, <2>1, <3>1 DEF InTurn, Writers, Idle
    <3>3. /\ writer'["overflow"] = writer["overflow"]
          /\ writer'["learner"].todo = {"classify"}
          /\ writer'["learner"].class = writer["learner"].class
      BY <1>2, <2>1, <3>2 DEF SmartForwardTypeOK, Writers
    <3> QED
      BY <1>2, <2>1, <3>2, <3>3 DEF InTurn
  <2> QED
    BY <1>1, <1>2, <2>1, <2>2, <2>3, <2>4, WriteKeepsRest
       DEF SmartForwardTypeOK, NothingForeign, Entry
<1>5. ASSUME NEW w \in Writers, SetClass(w) PROVE IInv'
  <2>1. /\ writer[w].todo = {"classify"} /\ writer[w].class \in Classes
        /\ writer' = [writer EXCEPT ![w] = Idle]
        /\ class' = writer[w].class
        /\ UNCHANGED <<persisted, channel>>
    BY <1>2, <1>5 DEF SetClass, WritersSound, Idle
  <2>2. /\ writer' \in [Writers -> [class : Entry, todo : SUBSET Steps]]
        /\ \A v \in Writers : writer'[v].class \in {"none", writer[v].class}
    BY <1>2, <2>1 DEF SmartForwardTypeOK, Steps, Idle, Entry
  <2>3. WritersSound'
    BY <1>2, <2>1 DEF WritersSound, SmartForwardTypeOK
  <2>4. InTurn'
    <3> SUFFICES ASSUME ~overtaken PROVE InTurn'
      BY <1>2 DEF InTurn
    <3>1. {"classify"} # {}
      OBVIOUS
    <3>2. w = "learner"
      BY <1>2, <2>1, <3>1 DEF InTurn, Writers, Idle
    <3>3. /\ writer'["overflow"] = writer["overflow"]
          /\ writer'["learner"].todo = {}
      BY <1>2, <2>1, <3>2 DEF SmartForwardTypeOK, Writers, Idle
    <3> QED
      BY <1>2, <2>1, <3>1, <3>2, <3>3 DEF InTurn
  <2> QED
    BY <1>1, <1>2, <2>1, <2>2, <2>3, <2>4, WriteKeepsRest
       DEF SmartForwardTypeOK, NothingForeign, Entry
<1> QED
  BY <1>3, <1>4, <1>5 DEF Write

\* What the file and a new process keep.
LEMMA InvFile == ASSUME IInv, Save \/ Trim \/ Restart PROVE IInv'
<1> USE DEF IInv, configVars, queryVars, storeVars, fileVars, historyVars
<1>1. CASE Save
  BY <1>1 DEF Save, Size, SmartForwardTypeOK, DomesticNeverFaked, NothingForeign,
              WritersSound, InTurn
<1>2. CASE Trim
  BY <1>2 DEF Trim, SmartForwardTypeOK, DomesticNeverFaked, NothingForeign,
              WritersSound, InTurn, Entry
<1>3. CASE Restart
  <2>1. class' \in Entry /\ persisted' = class' /\ class' \in {"none", file}
    BY <1>3 DEF Restart, SmartForwardTypeOK, Entry
  <2>2. /\ channel' = <<>> /\ writer' = [w \in Writers |-> Idle] /\ overtaken' = FALSE
        /\ pc' = "idle" /\ told' = "local" /\ kept' = FALSE /\ saved' = 0
        /\ UNCHANGED <<guarded, prefer, file, reports, evidence>>
    BY <1>3 DEF Restart
  <2>3. writer' \in [Writers -> [class : Entry, todo : SUBSET Steps]]
    BY <2>2 DEF Idle, Entry, Steps
  <2>4. channel' \in Seq(Classes) /\ Len(channel') = 0 /\ 0 <= Capacity
    BY <2>2, CapacityAssumption
  <2>5. SmartForwardTypeOK'
    <3>1. "local" \in Targets /\ 0 \in 0 .. 1
      BY DEF Targets
    <3> QED
      BY <2>1, <2>2, <2>3, <2>4, <3>1 DEF SmartForwardTypeOK
  <2>6. NothingForeign'
    BY <2>1, <2>2, <2>4 DEF NothingForeign, Idle
  <2>7. WritersSound' /\ InTurn'
    BY <2>1, <2>2 DEF WritersSound, InTurn, Writers, Idle
  <2> QED
    BY <2>2, <2>5, <2>6, <2>7 DEF DomesticNeverFaked
<1> QED
  BY <1>1, <1>2, <1>3

-----------------------------------------------------------------------------
\* The inductive invariant holds throughout.
LEMMA InvHolds == Spec => []IInv
<1>1. IInv /\ [Next]_vars => IInv'
  <2> SUFFICES ASSUME IInv, [Next]_vars PROVE IInv'
    OBVIOUS
  <2>1. CASE UNCHANGED vars
    BY <2>1 DEF vars, configVars, queryVars, storeVars, fileVars, historyVars, IInv,
                SmartForwardTypeOK, DomesticNeverFaked, NothingForeign, WritersSound, InTurn
  <2>2. CASE Query
    BY <2>2, InvAsk, InvShortcut, InvProbe DEF Query
  <2>3. CASE Write \/ Save \/ Trim \/ Restart
    BY <2>3, InvWrite, InvFile
  <2> QED
    BY <2>1, <2>2, <2>3 DEF Next
<1> QED
  BY <1>1, InvInit, PTL DEF Spec

\* Types, for any capacity of the channel (smart_forward.rs:269).
THEOREM TypeCorrect == Spec => []SmartForwardTypeOK
BY InvHolds, PTL DEF IInv

\* A guarded domain never goes to the FakeIP upstream (smart_forward.rs:811, 902, 1222).
THEOREM DomesticStaysLocal == Spec => []DomesticNeverFaked
BY InvHolds, PTL DEF IInv

\* No domain goes there unless a probe gave reason to (smart_forward.rs:1117-1139).
THEOREM FakedForAReason == Spec => []FakedOnEvidence
<1>1. IInv => FakedOnEvidence
  BY DEF IInv, NothingForeign, FakedOnEvidence
<1> QED
  BY <1>1, InvHolds, PTL

\* The two stores agree at rest (smart_forward.rs:279-287).
THEOREM StoresAgree == Spec => []ClassesAgree
<1>1. IInv => ClassesAgree
  BY DEF IInv, InTurn, ClassesAgree, AtRest, Writers, Idle
<1> QED
  BY <1>1, InvHolds, PTL

-----------------------------------------------------------------------------
(* RateLimit: what the window of the moment, and the one before, let through. *)

\* What the window of an entry has let through.
Spent(entry) == IF entry.count <= MaxQueries THEN entry.count ELSE MaxQueries

\* A reading of the clock is no older than Lag when it is used.
Recent(reading) == reading # None => reading <= time /\ time <= reading + Lag

\* What was admitted last was admitted by the window there is, and before that by the one
\* that it replaced; where there is none, by one that had ended by now.
Windows ==
    IF limits = Limiter!NoEntry
    THEN \A t \in 0 .. time :
            time < t + Window => Limiter!AdmittedSince(t) <= MaxQueries
    ELSE /\ limits.count > 0 /\ limits.start <= time
         /\ \A t \in 0 .. time :
               /\ limits.start + Lag < t + Window =>
                     Limiter!AdmittedSince(t) <= Spent(limits) + MaxQueries
               /\ limits.start + Lag < t =>
                     Limiter!AdmittedSince(t) <= Spent(limits)

\* The inductive invariant of the limiter.
LimiterInv ==
    /\ Limiter!RateLimitTypeOK
    /\ \A h \in Handlers : Recent(asked[h])
    /\ Recent(sweeping)
    /\ Windows

\* At first nothing has been admitted.
LEMMA LimiterInit == ASSUME Limiter!Init PROVE LimiterInv
<1> USE LimiterAssumption DEF Limiter!Init, Limiter!Times, Limiter!NoEntry
<1>1. Limiter!RateLimitTypeOK
  BY DEF Limiter!RateLimitTypeOK
<1>2. Windows
  BY DEF Windows, Limiter!AdmittedSince
<1> QED
  BY <1>1, <1>2 DEF LimiterInv, Recent

\* How many were admitted since t is a number.
LEMMA AdmittedIsNat ==
    ASSUME Limiter!RateLimitTypeOK, NEW t \in 0 .. time
    PROVE  Limiter!AdmittedSince(t) \in Int
  BY LimiterAssumption DEF Limiter!RateLimitTypeOK, Limiter!AdmittedSince, Limiter!Times

\* Time passes: nothing has been admitted at the new time.
LEMMA LimiterTick == ASSUME LimiterInv, Limiter!Tick PROVE LimiterInv'
<1> USE LimiterAssumption DEF Limiter!Tick, Limiter!Times
<1>1. Limiter!RateLimitTypeOK /\ Limiter!RateLimitTypeOK'
  BY DEF LimiterInv, Limiter!RateLimitTypeOK
<1>2. \A r : r \in {asked[h] : h \in Handlers} \cup {sweeping} /\ r # None =>
         r \in Nat /\ time < r + Lag
  BY <1>1 DEF Limiter!RateLimitTypeOK
<1>3. \A h \in Handlers : Recent(asked[h])'
  <2> SUFFICES ASSUME NEW h \in Handlers PROVE Recent(asked[h])'
    OBVIOUS
  <2>1. asked[h] # None => asked[h] \in Nat /\ time < asked[h] + Lag /\ asked[h] <= time
    BY <1>2 DEF LimiterInv, Recent
  <2> QED
    BY <1>1, <2>1 DEF Recent, Limiter!RateLimitTypeOK
<1>4. Recent(sweeping)'
  <2>1. sweeping # None => sweeping \in Nat /\ time < sweeping + Lag /\ sweeping <= time
    BY <1>2 DEF LimiterInv, Recent
  <2> QED
    BY <1>1, <2>1 DEF Recent, Limiter!RateLimitTypeOK
<1>5. \A t \in 0 .. time' :
         Limiter!AdmittedSince(t)' = IF t = time' THEN 0 ELSE Limiter!AdmittedSince(t)
  <2> SUFFICES ASSUME NEW t \in 0 .. time'
               PROVE  Limiter!AdmittedSince(t)' =
                        IF t = time' THEN 0 ELSE Limiter!AdmittedSince(t)
    OBVIOUS
  <2>1. time \in Nat /\ time' = time + 1 /\ t \in Nat /\ t <= time + 1
    BY <1>1 DEF Limiter!RateLimitTypeOK
  <2>2. /\ admitted'[time + 1] = admitted[time] /\ admitted[time] \in Nat
        /\ \A s \in 0 .. time : admitted'[s] = admitted[s] /\ admitted[s] \in Nat
    BY <1>1 DEF Limiter!RateLimitTypeOK
  <2>3. CASE t = 0
    BY <2>1, <2>2, <2>3 DEF Limiter!AdmittedSince
  <2>4. CASE t # 0
    <3>1. t - 1 \in 0 .. time
      BY <2>1, <2>4
    <3>2. admitted'[t - 1] = admitted[t - 1] /\ admitted[t - 1] \in Nat
      BY <3>1, <2>2
    <3>3. t = time + 1 => t - 1 = time
      BY <2>1
    <3> QED
      BY <2>1, <2>2, <2>4, <3>2, <3>3 DEF Limiter!AdmittedSince
  <2> QED
    BY <2>3, <2>4
<1>6. Windows'
  <2> time \in Nat /\ time' = time + 1 /\ limits' = limits
    BY <1>1 DEF Limiter!RateLimitTypeOK
  <2>1. limits \in [count : 0 .. MaxQueries + 1, start : Nat]
    BY <1>1 DEF Limiter!RateLimitTypeOK
  <2>2. Spent(limits) \in Nat /\ Spent(limits)' = Spent(limits)
    BY <2>1 DEF Spent
  <2>3. Windows
    BY DEF LimiterInv
  <2> QED
    BY <1>5, <2>1, <2>2, <2>3 DEF Windows
<1> QED
  BY <1>1, <1>3, <1>4, <1>6 DEF LimiterInv

\* A query or the cleanup reads the clock.
LEMMA LimiterReads ==
    ASSUME LimiterInv,
           Limiter!Sweep \/ \E h \in Handlers : Limiter!Ask(h)
    PROVE  LimiterInv'
<1> USE LimiterAssumption DEF LimiterInv, Limiter!Sweep, Limiter!Ask
<1>1. Limiter!RateLimitTypeOK /\ Limiter!RateLimitTypeOK'
  BY DEF Limiter!RateLimitTypeOK
<1>2. time \in Nat /\ time' = time /\ time <= time + Lag
  BY <1>1 DEF Limiter!RateLimitTypeOK, Limiter!Times
<1>3. (\A h \in Handlers : Recent(asked[h])') /\ Recent(sweeping)'
  <2>1. \A h \in Handlers : asked'[h] = asked[h] \/ asked'[h] = time
    BY <1>1 DEF Limiter!RateLimitTypeOK
  <2>2. sweeping' = sweeping \/ sweeping' = time
    OBVIOUS
  <2> QED
    BY <1>2, <2>1, <2>2 DEF Recent
<1>4. Windows'
  BY DEF Windows, Spent, Limiter!AdmittedSince
<1> QED
  BY <1>1, <1>3, <1>4

\* An entry that the cleanup removes has been full of time.
LEMMA LimiterRetain ==
    ASSUME Lag < Window, LimiterInv, Limiter!Retain PROVE LimiterInv'
<1> USE LimiterAssumption DEF LimiterInv, Limiter!Retain, Limiter!Times
<1>1. Limiter!RateLimitTypeOK /\ Limiter!RateLimitTypeOK'
  BY DEF Limiter!RateLimitTypeOK, Limiter!NoEntry
<1>2. (\A h \in Handlers : Recent(asked[h])') /\ Recent(sweeping)'
  BY DEF Recent
<1>3. Windows'
  <2>1. CASE limits' = limits
    BY <2>1 DEF Windows, Spent, Limiter!AdmittedSince
  <2>2. CASE limits' # limits
    <3>1. /\ limits # Limiter!NoEntry /\ limits' = Limiter!NoEntry
          /\ sweeping \in Nat /\ limits \in [count : Nat, start : Nat] /\ time \in Nat
      BY <1>1, <2>2 DEF Limiter!RateLimitTypeOK
    <3>2. limits.start + 2 * Window <= sweeping /\ sweeping <= time
      BY <2>2, <3>1 DEF Limiter!IsOld, Limiter!Since, Recent
    <3>3. Spent(limits) <= MaxQueries /\ Spent(limits) \in Nat
      BY <3>1 DEF Spent
    <3>4. \A t \in 0 .. time : time < t + Window => Limiter!AdmittedSince(t) <= MaxQueries
      <4> SUFFICES ASSUME NEW t \in 0 .. time, time < t + Window
                   PROVE  Limiter!AdmittedSince(t) <= MaxQueries
        OBVIOUS
      <4>1. limits.start + Lag < t
        BY <3>1, <3>2
      <4> QED
        BY <3>1, <3>3, <4>1, AdmittedIsNat DEF Windows
    <3> QED
      BY <3>1, <3>4 DEF Windows, Limiter!AdmittedSince
  <2> QED
    BY <2>1, <2>2
<1> QED
  BY <1>1, <1>2, <1>3

\* A query is counted in its window, or starts one.
LEMMA LimiterCounts ==
    ASSUME Lag < Window, LimiterInv,
           NEW h \in Handlers, Limiter!ShouldLimit(h)
    PROVE  LimiterInv'
<1> USE LimiterAssumption
<1> DEFINE fresh == limits = Limiter!NoEntry \/ Limiter!Since(asked[h], limits.start) >= Window
           refused == limits'.count > 1 /\ limits'.count > MaxQueries
           counted == IF limits.count <= MaxQueries THEN limits.count + 1 ELSE limits.count
<1>1. Limiter!RateLimitTypeOK /\ Windows
  BY DEF LimiterInv
<1>2. time \in Nat /\ time \in 0 .. EndOfTime /\ admitted \in [0 .. EndOfTime -> Nat]
  BY <1>1 DEF Limiter!RateLimitTypeOK, Limiter!Times
<1>3. limits.count \in 0 .. MaxQueries + 1 /\ limits.start \in 0 .. EndOfTime
  BY <1>1 DEF Limiter!RateLimitTypeOK, Limiter!Times
<1>4. asked[h] \in 0 .. EndOfTime /\ asked[h] <= time /\ time <= asked[h] + Lag
  BY <1>1 DEF LimiterInv, Limiter!ShouldLimit, Recent, Limiter!RateLimitTypeOK, Limiter!Times
<1>5. limits' = IF fresh THEN [count |-> 1, start |-> asked[h]]
                ELSE [count |-> counted, start |-> limits.start]
  <2>1. limits = [count |-> limits.count, start |-> limits.start]
    BY <1>1 DEF Limiter!RateLimitTypeOK
  <2> QED
    BY <2>1 DEF Limiter!ShouldLimit, Limiter!Counted
<1>6. /\ asked' = [asked EXCEPT ![h] = None]
      /\ admitted' = IF refused THEN admitted ELSE [admitted EXCEPT ![time] = @ + 1]
      /\ time' = time /\ sweeping' = sweeping
  BY DEF Limiter!ShouldLimit
<1> HIDE DEF fresh, refused, counted
<1>7. counted \in 0 .. MaxQueries + 1 /\ counted >= limits.count
  BY <1>3 DEF counted
<1>9. Limiter!RateLimitTypeOK'
  <2>1. limits' \in [count : 0 .. MaxQueries + 1, start : 0 .. EndOfTime]
    BY <1>3, <1>4, <1>5, <1>7
  <2>2. admitted' \in [0 .. EndOfTime -> Nat]
    BY <1>2, <1>6
  <2> QED
    BY <1>1, <1>6, <2>1, <2>2 DEF Limiter!RateLimitTypeOK, Limiter!Times
<1>10. (\A g \in Handlers : Recent(asked[g])') /\ Recent(sweeping)'
  <2>1. \A g \in Handlers : asked'[g] = asked[g] \/ asked'[g] = None
    BY <1>1, <1>6 DEF Limiter!RateLimitTypeOK
  <2> QED
    BY <1>6, <2>1 DEF LimiterInv, Recent
<1>11. \A t \in 0 .. time : /\ Limiter!AdmittedSince(t) \in Int
                            /\ Limiter!AdmittedSince(t)' =
                                   Limiter!AdmittedSince(t) + (IF refused THEN 0 ELSE 1)
  <2> SUFFICES ASSUME NEW t \in 0 .. time
               PROVE  /\ Limiter!AdmittedSince(t) \in Int
                      /\ Limiter!AdmittedSince(t)' =
                             Limiter!AdmittedSince(t) + (IF refused THEN 0 ELSE 1)
    OBVIOUS
  <2>1. /\ admitted[time] \in Nat /\ admitted'[time] \in Nat
        /\ admitted'[time] = admitted[time] + (IF refused THEN 0 ELSE 1)
    BY <1>2, <1>6
  <2>2. CASE t = 0
    BY <1>6, <2>1, <2>2 DEF Limiter!AdmittedSince
  <2>3. CASE t # 0
    <3>1. admitted[t - 1] \in Nat /\ admitted'[t - 1] = admitted[t - 1]
      BY <1>2, <1>6, <2>3
    <3> QED
      BY <1>6, <2>1, <2>3, <3>1 DEF Limiter!AdmittedSince
  <2> QED
    BY <2>2, <2>3
<1>12. Spent(limits) \in Nat /\ Spent(limits) <= MaxQueries
  BY <1>3 DEF Spent
<1>13. CASE fresh
  <2>1. limits'.count = 1 /\ limits'.start = asked[h] /\ ~refused
    BY <1>5, <1>13 DEF refused
  <2>2. limits' # Limiter!NoEntry /\ Spent(limits)' = 1
    BY <2>1 DEF Spent, Limiter!NoEntry
  <2>3. \A t \in 0 .. time :
          asked[h] + Lag < t + Window => Limiter!AdmittedSince(t) <= MaxQueries
    <3>1. CASE limits = Limiter!NoEntry
      BY <1>1, <1>2, <1>4, <3>1 DEF Windows
    <3>2. CASE limits # Limiter!NoEntry
      <4>1. limits.start + Window <= asked[h]
        BY <1>3, <1>4, <1>13, <3>2 DEF fresh, Limiter!Since
      <4>2. \A t \in 0 .. time :
               asked[h] + Lag < t + Window => t \in Nat /\ limits.start + Lag < t
        BY <1>2, <1>3, <1>4, <4>1
      <4>3. \A t \in 0 .. time :
               limits.start + Lag < t => Limiter!AdmittedSince(t) <= Spent(limits)
        BY <1>1, <3>2 DEF Windows
      <4> QED
        BY <1>11, <1>12, <4>2, <4>3
    <3> QED
      BY <3>1, <3>2
  <2> QED
    <3>1. \A t \in 0 .. time :
             /\ limits'.start + Lag < t + Window =>
                    Limiter!AdmittedSince(t)' <= Spent(limits)' + MaxQueries
             /\ limits'.start + Lag < t => Limiter!AdmittedSince(t)' <= Spent(limits)'
      <4> SUFFICES ASSUME NEW t \in 0 .. time
                   PROVE  /\ asked[h] + Lag < t + Window =>
                                Limiter!AdmittedSince(t)' <= 1 + MaxQueries
                          /\ asked[h] + Lag < t => Limiter!AdmittedSince(t)' <= 1
        BY <2>1, <2>2
      <4>1. ~(asked[h] + Lag < t)
        BY <1>2, <1>4
      <4> QED
        BY <1>11, <2>1, <2>3, <4>1
    <3> QED
      BY <1>4, <1>6, <1>9, <1>10, <2>1, <2>2, <3>1 DEF LimiterInv, Windows
<1>14. CASE ~fresh
  <2>1. limits # Limiter!NoEntry /\ limits.count > 0 /\ limits.start <= time
    BY <1>1, <1>14 DEF fresh, Windows
  <2>2. limits'.count = counted /\ limits'.start = limits.start
    BY <1>5, <1>14
  <2>3. limits' # Limiter!NoEntry /\ limits'.count > 0
    BY <1>3, <1>7, <2>1, <2>2 DEF Limiter!NoEntry
  <2>4. Spent(limits)' = Spent(limits) + (IF refused THEN 0 ELSE 1)
    BY <1>3, <2>1, <2>2 DEF Spent, refused, counted
  <2>5. \A t \in 0 .. time :
           /\ limits.start + Lag < t + Window =>
                  Limiter!AdmittedSince(t)' <= Spent(limits)' + MaxQueries
           /\ limits.start + Lag < t => Limiter!AdmittedSince(t)' <= Spent(limits)'
    BY <1>1, <1>11, <1>12, <2>1, <2>4 DEF Windows
  <2> QED
    BY <1>6, <1>9, <1>10, <2>1, <2>2, <2>3, <2>5 DEF LimiterInv, Windows
<1> QED
  BY <1>13, <1>14

\* Every step of the limiter keeps its invariant.
LEMMA LimiterStep ==
    ASSUME Lag < Window, LimiterInv, [Limiter!Next]_(Limiter!limitVars)
    PROVE  LimiterInv'
<1>1. CASE UNCHANGED Limiter!limitVars
  BY <1>1 DEF Limiter!limitVars, LimiterInv, Limiter!RateLimitTypeOK, Recent, Windows,
              Spent, Limiter!AdmittedSince
<1> QED
  BY <1>1, LimiterTick, LimiterReads, LimiterRetain, LimiterCounts DEF Limiter!Next

\* Whoever asks, and however late the readings of the clock are, no more than two windows'
\* worth of queries pass within the length of a window (should_limit, the cleanup).
THEOREM LimitIsKept == Limiter!Spec => []LimitHolds
<1> USE LimiterAssumption
<1>1. LimiterInv => LimitHolds
  <2> SUFFICES ASSUME LimiterInv, NEW t \in 0 .. time, time + Lag < t + Window
               PROVE  Limiter!AdmittedSince(t) <= 2 * MaxQueries
    BY DEF LimitHolds, Limiter!LimitHolds
  <2>1. /\ Limiter!AdmittedSince(t) \in Int
        /\ limits \in [count : 0 .. MaxQueries + 1, start : 0 .. EndOfTime] /\ time \in Nat
    BY AdmittedIsNat DEF LimiterInv, Limiter!RateLimitTypeOK, Limiter!Times
  <2>2. Spent(limits) \in Nat /\ Spent(limits) <= MaxQueries
    BY <2>1 DEF Spent
  <2> QED
    BY <2>1, <2>2 DEF LimiterInv, Windows
<1>2. CASE Lag < Window
  <2>1. Limiter!Init => LimiterInv
    BY LimiterInit
  <2>2. LimiterInv /\ [Limiter!Next]_(Limiter!limitVars) => LimiterInv'
    BY <1>2, LimiterStep
  <2> QED
    BY <1>1, <2>1, <2>2, PTL DEF Limiter!Spec
<1>3. CASE ~(Lag < Window)
  <2>1. Limiter!Init => time \in Nat
    BY DEF Limiter!Init
  <2>2. time \in Nat /\ [Limiter!Next]_(Limiter!limitVars) => (time \in Nat)'
    BY DEF Limiter!Next, Limiter!Tick, Limiter!Ask, Limiter!ShouldLimit, Limiter!Sweep,
           Limiter!Retain, Limiter!limitVars
  <2>3. time \in Nat => LimitHolds
    BY <1>3 DEF LimitHolds, Limiter!LimitHolds
  <2> QED
    BY <2>1, <2>2, <2>3, PTL DEF Limiter!Spec
<1> QED
  BY <1>2, <1>3

-----------------------------------------------------------------------------
(* Types of the other components, and of all four together.                *)

\* The learner's batch has room while it is not drained, and something in it while it is;
\* no more was reported for the subnet than for everyone.
MemoryInv ==
    /\ Memory!LearningTypeOK
    /\ IF draining THEN buffer # <<>> ELSE Len(buffer) < Batch
    /\ \A u \in Upstreams : reported["client"][u] <= reported["global"][u]

\* What a worker does while it is not idle.
Working == [at : Keys \cup {"insert"}, upstream : Upstreams]

\* No result has come.
LEMMA MemoryInit == ASSUME Memory!Init PROVE MemoryInv
<1> USE CapacityAssumption, LearningAssumption DEF Keys, Memory!Keys, Memory!Init
<1>1. updates \in Seq(Memory!Updates) /\ buffer \in Seq(Memory!Updates)
      /\ Len(updates) = 0 /\ Len(buffer) = 0
  OBVIOUS
<1>2. memory \in [Keys -> Memory!Memories] /\ snapshot \in [Keys -> Memory!Memories]
  BY DEF Memory!NoMemory, Memory!Memories, Memory!Nothing
<1>3. applier \in [Memory!Appliers -> [at : Keys \cup {"insert"}, upstream : Upstreams]
                                         \cup {Memory!Idle}]
  OBVIOUS
<1>4. /\ reported \in [Keys -> [Upstreams -> 0 .. MaxReports]]
      /\ \A u \in Upstreams : reported["client"][u] <= reported["global"][u]
  OBVIOUS
<1>5. ~draining /\ draining \in BOOLEAN
  OBVIOUS
<1> HIDE DEF Memory!Init
<1> QED
  BY <1>1, <1>2, <1>3, <1>4, <1>5 DEF MemoryInv, Memory!LearningTypeOK

\* A result is queued, or kept by its reporter.
LEMMA MemoryReport ==
    ASSUME MemoryInv, NEW c \in Callers, NEW key \in Keys,
           NEW u \in Upstreams, Memory!Report(c, key, u)
    PROVE  MemoryInv'
<1> USE CapacityAssumption, LearningAssumption DEF Keys, Memory!Keys
<1>1. Memory!LearningTypeOK
  BY DEF MemoryInv
<1>2. [key |-> key, upstream |-> u] \in Memory!Updates
  BY DEF Memory!Updates
<1>3. updates' \in Seq(Memory!Updates) /\ Len(updates') <= Capacity
  <2>1. updates \in Seq(Memory!Updates) /\ Len(updates) <= Capacity
    BY <1>1 DEF Memory!LearningTypeOK
  <2>2. \/ updates' = updates
        \/ /\ updates' = Append(updates, [key |-> key, upstream |-> u])
           /\ Len(updates) < Capacity
    BY DEF Memory!Report
  <2> QED
    BY <1>2, <2>1, <2>2
<1>4. applier' \in [Memory!Appliers -> Working \cup {Memory!Idle}]
  <2>1. applier \in [Memory!Appliers -> Working \cup {Memory!Idle}]
    BY <1>1 DEF Memory!LearningTypeOK, Working
  <2>2. [at |-> key, upstream |-> u] \in Working
    BY DEF Working
  <2>3. \/ applier' = applier
        \/ applier' = [applier EXCEPT ![c] = [at |-> key, upstream |-> u]]
    BY DEF Memory!Report
  <2> QED
    BY <2>1, <2>2, <2>3
<1>5. /\ reported' \in [Keys -> [Upstreams -> 0 .. MaxReports]]
      /\ \A v \in Upstreams : reported'["client"][v] <= reported'["global"][v]
  <2>1. /\ reported \in [Keys -> [Upstreams -> 0 .. MaxReports]]
        /\ \A v \in Upstreams : reported["client"][v] <= reported["global"][v]
        /\ reported["global"][u] < MaxReports
    BY <1>1 DEF MemoryInv, Memory!LearningTypeOK, Memory!Report
  <2>2. reported' = [k \in Keys |->
            IF k = key \/ k = "global" THEN [reported[k] EXCEPT ![u] = @ + 1]
            ELSE reported[k]]
    BY DEF Memory!Report
  <2>3. reported["client"][u] < MaxReports
    BY <2>1 DEF Keys
  <2> QED
    BY <2>1, <2>2, <2>3 DEF Keys
<1> QED
  BY <1>1, <1>3, <1>4, <1>5 DEF MemoryInv, Memory!LearningTypeOK, Memory!Report, Working

\* The learner takes from the channel, or from its batch.
LEMMA MemoryLearner ==
    ASSUME MemoryInv,
           Memory!Receive \/ Memory!Tick \/ Memory!Drain
    PROVE  MemoryInv'
<1> USE CapacityAssumption, LearningAssumption DEF Keys, Memory!Keys
<1>1. /\ updates \in Seq(Memory!Updates) /\ Len(updates) <= Capacity
      /\ buffer \in Seq(Memory!Updates) /\ Len(buffer) <= Batch
      /\ IF draining THEN buffer # <<>> ELSE Len(buffer) < Batch
  BY DEF MemoryInv, Memory!LearningTypeOK
<1>2. CASE Memory!Receive
  <2>1. Head(updates) \in Memory!Updates /\ Tail(updates) \in Seq(Memory!Updates)
        /\ Len(Tail(updates)) <= Capacity
    BY <1>1, <1>2 DEF Memory!Receive
  <2>2. /\ Append(buffer, Head(updates)) \in Seq(Memory!Updates)
        /\ Len(Append(buffer, Head(updates))) = Len(buffer) + 1
        /\ Append(buffer, Head(updates)) # <<>>
    BY <1>1, <2>1
  <2>3. draining' \in BOOLEAN /\ draining' = (Len(buffer') >= Batch)
    BY <1>2 DEF Memory!Receive
  <2>4. IF draining' THEN buffer' # <<>> ELSE Len(buffer') < Batch
    <3>1. buffer' = Append(buffer, Head(updates)) /\ Len(buffer') \in Nat
      BY <1>1, <1>2, <2>2 DEF Memory!Receive
    <3>2. CASE Len(buffer') >= Batch
      BY <2>2, <2>3, <3>1, <3>2
    <3>3. CASE ~(Len(buffer') >= Batch)
      BY <2>3, <3>1, <3>3
    <3> QED
      BY <3>2, <3>3
  <2>5. Len(buffer') <= Batch /\ buffer' \in Seq(Memory!Updates)
    BY <1>1, <1>2, <2>2 DEF Memory!Receive
  <2>6. Len(updates') <= Capacity /\ updates' \in Seq(Memory!Updates)
    BY <1>2, <2>1 DEF Memory!Receive
  <2>7. UNCHANGED <<memory, applier, snapshot, reported>>
    BY <1>2 DEF Memory!Receive
  <2> QED
    BY <2>3, <2>4, <2>5, <2>6, <2>7 DEF MemoryInv, Memory!LearningTypeOK
<1>3. CASE Memory!Tick
  BY <1>1, <1>3 DEF MemoryInv, Memory!LearningTypeOK, Memory!Tick
<1>4. CASE Memory!Drain
  <2>1. /\ Head(buffer) \in Memory!Updates /\ Tail(buffer) \in Seq(Memory!Updates)
        /\ Len(Tail(buffer)) < Batch /\ draining
    BY <1>1, <1>4 DEF Memory!Drain
  <2>2. [at |-> Head(buffer).key, upstream |-> Head(buffer).upstream] \in Working
    BY <2>1 DEF Memory!Updates, Working
  <2>3. applier' \in [Memory!Appliers -> Working \cup {Memory!Idle}]
    BY <1>4, <2>2 DEF MemoryInv, Memory!LearningTypeOK, Memory!Drain, Memory!Appliers, Working
  <2>4. draining' \in BOOLEAN /\ draining' = (buffer' # <<>>) /\ buffer' = Tail(buffer)
    BY <1>4 DEF Memory!Drain
  <2>5. IF draining' THEN buffer' # <<>> ELSE Len(buffer') < Batch
    BY <2>1, <2>4
  <2>6. UNCHANGED <<memory, updates, snapshot, reported>>
    BY <1>4 DEF Memory!Drain
  <2> QED
    BY <2>1, <2>3, <2>4, <2>5, <2>6 DEF MemoryInv, Memory!LearningTypeOK, Working
<1> QED
  BY <1>2, <1>3, <1>4

\* An update is applied.
LEMMA MemoryApply ==
    ASSUME MemoryInv, NEW a \in Memory!Appliers,
           Memory!ApplyClient(a) \/ Memory!ApplyGlobal(a) \/ Memory!Insert(a)
    PROVE  MemoryInv'
<1> USE LearningAssumption DEF Keys, Memory!Keys
<1> DEFINE Real == [best : Upstreams, count : 1 .. Needed]
<1>1. /\ memory \in [Keys -> Real \cup {Memory!Nothing}]
      /\ applier \in [Memory!Appliers -> Working \cup {Memory!Idle}]
  BY DEF MemoryInv, Memory!LearningTypeOK, Memory!Memories, Working
<1>2. applier[a] \in Working
  BY <1>1 DEF Memory!ApplyClient, Memory!ApplyGlobal, Memory!Insert, Memory!Idle
<1>3. applier[a].upstream \in Upstreams /\ Memory!First(applier[a].upstream) \in Real
  BY <1>2 DEF Working, Memory!First
<1>4. ASSUME NEW m \in Real, NEW u \in Upstreams, NEW faster \in BOOLEAN
      PROVE  Memory!Update(m, u, faster) \in Real
  <2>1. m.count \in 1 .. Needed /\ Memory!Counted(m.count) \in 1 .. Needed
    BY DEF Memory!Counted
  <2> QED
    BY <2>1 DEF Memory!Update, Memory!First
<1>5. memory' \in [Keys -> Real \cup {Memory!Nothing}]
  <2>1. CASE Memory!ApplyClient(a)
    <3>1. memory["client"] \in Real \cup {Memory!Nothing}
      BY <1>1
    <3>2. PICK faster \in BOOLEAN : memory' = [memory EXCEPT !["client"] =
             IF @ = Memory!Nothing THEN Memory!First(applier[a].upstream)
             ELSE Memory!Update(@, applier[a].upstream, faster)]
      BY <2>1 DEF Memory!ApplyClient
    <3> QED
      BY <1>1, <1>3, <1>4, <3>1, <3>2
  <2>2. CASE Memory!ApplyGlobal(a)
    <3>1. CASE memory' = memory
      BY <1>1, <3>1
    <3>2. CASE memory' # memory
      <4>1. PICK faster \in BOOLEAN : memory' = [memory EXCEPT !["global"] =
               Memory!Update(@, applier[a].upstream, faster)]
        BY <2>2, <3>2 DEF Memory!ApplyGlobal
      <4>2. memory["global"] \in Real
        BY <1>1, <2>2, <3>2 DEF Memory!ApplyGlobal
      <4> QED
        BY <1>1, <1>3, <1>4, <4>1, <4>2
    <3> QED
      BY <3>1, <3>2
  <2>3. CASE Memory!Insert(a)
    BY <1>1, <1>3, <2>3 DEF Memory!Insert, Keys
  <2> QED
    BY <2>1, <2>2, <2>3
<1>6. applier' \in [Memory!Appliers -> Working \cup {Memory!Idle}]
  <2>1. [applier[a] EXCEPT !.at = "global"] \in Working
        /\ [applier[a] EXCEPT !.at = "insert"] \in Working
    BY <1>2 DEF Working, Keys
  <2> QED
    BY <1>1, <2>1 DEF Memory!ApplyClient, Memory!ApplyGlobal, Memory!Insert
<1>7. UNCHANGED <<updates, buffer, draining, snapshot, reported>>
  BY DEF Memory!ApplyClient, Memory!ApplyGlobal, Memory!Insert, Memory!queueVars
<1> QED
  BY <1>5, <1>6, <1>7 DEF MemoryInv, Memory!LearningTypeOK, Memory!Memories, Working

\* Every step of the learner keeps its invariant.
LEMMA MemoryStep ==
    ASSUME MemoryInv, [Memory!Next]_(Memory!learningVars)
    PROVE  MemoryInv'
<1> USE CapacityAssumption, LearningAssumption DEF Keys, Memory!Keys
<1>1. CASE UNCHANGED Memory!learningVars
  BY <1>1 DEF Memory!learningVars, Memory!queueVars, MemoryInv, Memory!LearningTypeOK
<1>2. ASSUME NEW k \in Keys, Memory!Forget(k) PROVE MemoryInv'
  BY <1>2 DEF Memory!Forget, MemoryInv, Memory!LearningTypeOK, Memory!Memories, Memory!queueVars
<1>3. CASE Memory!Save
  BY <1>3 DEF Memory!Save, MemoryInv, Memory!LearningTypeOK, Memory!Memories, Memory!NoMemory,
              Memory!queueVars
<1>4. CASE Memory!Restart
  <2>1. <<>> \in Seq(Memory!Updates) /\ Len(<<>>) = 0
    OBVIOUS
  <2>2. Memory!LearningTypeOK /\ \A u \in Upstreams : reported["client"][u] <= reported["global"][u]
    BY DEF MemoryInv
  <2>3. updates' = <<>> /\ buffer' = <<>> /\ draining' = FALSE /\ reported' = reported
    BY <1>4 DEF Memory!Restart
  <2>4. /\ memory' \in [Keys -> Memory!Memories] /\ snapshot' \in [Keys -> Memory!Memories]
        /\ applier' \in [Memory!Appliers -> [at : Keys \cup {"insert"}, upstream : Upstreams]
                                            \cup {Memory!Idle}]
    BY <1>4, <2>2 DEF Memory!Restart, Memory!LearningTypeOK
  <2> QED
    <3>1. /\ updates' \in Seq(Memory!Updates) /\ Len(updates') <= Capacity
          /\ buffer' \in Seq(Memory!Updates) /\ Len(buffer') <= Batch /\ Len(buffer') < Batch
      BY <2>1, <2>3
    <3>2. ~draining' /\ draining' \in BOOLEAN
      BY <2>3
    <3>3. /\ reported' \in [Keys -> [Upstreams -> 0 .. MaxReports]]
          /\ \A u \in Upstreams : reported'["client"][u] <= reported'["global"][u]
      BY <2>2, <2>3 DEF Memory!LearningTypeOK
    <3> QED
      BY <2>4, <3>1, <3>2, <3>3 DEF MemoryInv, Memory!LearningTypeOK
<1> QED
  BY <1>1, <1>2, <1>3, <1>4, MemoryReport, MemoryLearner, MemoryApply DEF Memory!Next

\* The types of the learner hold throughout.
LEMMA MemoryTypes == Memory!Spec => []Memory!LearningTypeOK
<1>1. MemoryInv => Memory!LearningTypeOK
  BY DEF MemoryInv
<1> QED
  BY <1>1, MemoryInit, MemoryStep, PTL DEF Memory!Spec

\* The types of the health record hold throughout.
LEMMA HealthTypes == Metrics!Spec => []Metrics!HealthTypeOK
<1> USE HealthAssumption
<1>1. Metrics!Init => Metrics!HealthTypeOK
  BY DEF Metrics!Init, Metrics!HealthTypeOK
<1>2. Metrics!HealthTypeOK /\ [Metrics!Next]_(Metrics!healthVars) => Metrics!HealthTypeOK'
  <2> SUFFICES ASSUME Metrics!HealthTypeOK, [Metrics!Next]_(Metrics!healthVars)
               PROVE  Metrics!HealthTypeOK'
    OBVIOUS
  <2>1. CASE UNCHANGED Metrics!healthVars \/ Metrics!Pass
    BY <2>1 DEF Metrics!healthVars, Metrics!Pass, Metrics!HealthTypeOK
  <2>2. ASSUME NEW r \in Recorders, Metrics!Record(r) PROVE Metrics!HealthTypeOK'
    <3>1. record' \in [Recorders -> SUBSET Metrics!Steps]
      BY <2>2 DEF Metrics!Record, Metrics!HealthTypeOK, Metrics!Steps, Metrics!Does,
          Metrics!Begin, Metrics!Reset, Metrics!Load, Metrics!Store, Metrics!Count,
          Metrics!Swap, Metrics!Note
    <3>2. healthy \in BOOLEAN /\ healthy' \in {healthy, TRUE, FALSE}
      BY <2>2 DEF Metrics!Record, Metrics!HealthTypeOK,
          Metrics!Begin, Metrics!Reset, Metrics!Load, Metrics!Store, Metrics!Count,
          Metrics!Swap, Metrics!Note
    <3>3. healthy' \in BOOLEAN
      BY <3>2
    <3> QED
      BY <2>2, <3>1, <3>3 DEF Metrics!Record, Metrics!HealthTypeOK,
          Metrics!Begin, Metrics!Reset, Metrics!Load, Metrics!Store, Metrics!Count,
          Metrics!Swap, Metrics!Note
  <2> QED
    BY <2>1, <2>2 DEF Metrics!Next
<1> QED
  BY <1>1, <1>2, PTL DEF Metrics!Spec

\* The types of the limiter hold throughout.
LEMMA LimiterTypes == Limiter!Spec => []Limiter!RateLimitTypeOK
<1> USE LimiterAssumption DEF Limiter!RateLimitTypeOK, Limiter!Times
<1>1. Limiter!Init => Limiter!RateLimitTypeOK
  BY DEF Limiter!Init, Limiter!NoEntry
<1>2. Limiter!RateLimitTypeOK /\ [Limiter!Next]_(Limiter!limitVars) =>
          Limiter!RateLimitTypeOK'
  <2> SUFFICES ASSUME Limiter!RateLimitTypeOK, [Limiter!Next]_(Limiter!limitVars)
               PROVE  Limiter!RateLimitTypeOK'
    OBVIOUS
  <2>1. CASE UNCHANGED Limiter!limitVars
    BY <2>1 DEF Limiter!limitVars
  <2>2. CASE Limiter!Tick \/ Limiter!Sweep
    <3>1. CASE Limiter!Tick
      <4>1. admitted[time] \in Nat /\ time' \in 0 .. EndOfTime
        BY <3>1 DEF Limiter!Tick
      <4>2. admitted' \in [0 .. EndOfTime -> Nat]
        BY <3>1, <4>1 DEF Limiter!Tick
      <4> QED
        BY <3>1, <4>1, <4>2 DEF Limiter!Tick
    <3>2. CASE Limiter!Sweep
      BY <3>2 DEF Limiter!Sweep
    <3> QED
      BY <2>2, <3>1, <3>2
  <2>3. CASE Limiter!Retain
    BY <2>3 DEF Limiter!Retain, Limiter!NoEntry
  <2>4. ASSUME NEW h \in Handlers, Limiter!Ask(h) PROVE Limiter!RateLimitTypeOK'
    BY <2>4 DEF Limiter!Ask
  <2>5. ASSUME NEW h \in Handlers, Limiter!ShouldLimit(h) PROVE Limiter!RateLimitTypeOK'
    <3>1. asked[h] \in 0 .. EndOfTime /\ limits.count \in 0 .. MaxQueries + 1
      BY <2>5 DEF Limiter!ShouldLimit
    <3>2. (IF limits.count <= MaxQueries THEN limits.count + 1 ELSE limits.count)
              \in 0 .. MaxQueries + 1
      BY <3>1
    <3>3. limits' \in [count : 0 .. MaxQueries + 1, start : 0 .. EndOfTime]
      BY <2>5, <3>1, <3>2 DEF Limiter!ShouldLimit, Limiter!Counted
    <3>4. admitted' \in [0 .. EndOfTime -> Nat]
      BY <2>5 DEF Limiter!ShouldLimit
    <3> QED
      BY <2>5, <3>3, <3>4 DEF Limiter!ShouldLimit
  <2> QED
    BY <2>1, <2>2, <2>3, <2>4, <2>5 DEF Limiter!Next
<1> QED
  BY <1>1, <1>2, PTL DEF Limiter!Spec

\* In each behaviour of the whole, each of the four behaves as it does alone.
LEMMA EachByItself ==
    AllSpec => Spec /\ Memory!Spec /\ Metrics!Spec /\ Limiter!Spec
<1>1. AllInit => Init /\ Memory!Init /\ Metrics!Init /\ Limiter!Init
  BY DEF AllInit
<1>2. [AllNext]_allVars =>
          /\ [Next]_vars /\ [Memory!Next]_(Memory!learningVars)
          /\ [Metrics!Next]_(Metrics!healthVars) /\ [Limiter!Next]_(Limiter!limitVars)
  BY DEF AllNext, RoutingMoves, LearningMoves, HealthMoves, LimitsMove, allVars, learnVars,
         healthVars, limitVars, Memory!learningVars, Memory!queueVars, Metrics!healthVars,
         Limiter!limitVars
<1> QED
  BY <1>1, <1>2, PTL DEF AllSpec, Spec, Memory!Spec, Metrics!Spec, Limiter!Spec

\* Every state of the four is one their types allow, for any capacity, queue, batch and
\* bounds, whichever of them moves (smart_forward.rs, autopilot.rs, ratelimit.rs).
THEOREM PartsAreTyped == AllSpec => []PartsTypeOK
BY EachByItself, TypeCorrect, MemoryTypes, HealthTypes, LimiterTypes, PTL DEF PartsTypeOK

\* The argument about AutoPilot is made in AutoPilotProofs, of its modules by themselves;
\* here it is brought to the instances.
AutoPilotLaws == INSTANCE AutoPilotProofs WITH channel <- updates, file <- snapshot

\* The memory's instance starts like the module of those proofs, and has the same steps.
LEMMA SameLearning ==
    /\ Memory!Init <=> AutoPilotLaws!Init
    /\ [Memory!Next]_(Memory!learningVars)
          <=> [AutoPilotLaws!Next]_(AutoPilotLaws!learningVars)
<1>1. Memory!Init <=> AutoPilotLaws!Init
  BY Zenon DEF Memory!Init, AutoPilotLaws!Init, Memory!NoMemory, AutoPilotLaws!NoMemory,
       Memory!Nothing, AutoPilotLaws!Nothing, Memory!Keys, AutoPilotLaws!Keys,
       Memory!Appliers, AutoPilotLaws!Appliers, Memory!Learner, AutoPilotLaws!Learner,
       Memory!Idle, AutoPilotLaws!Idle
<1>2. [Memory!Next]_(Memory!learningVars)
          <=> [AutoPilotLaws!Next]_(AutoPilotLaws!learningVars)
  BY Zenon DEF Memory!Next, AutoPilotLaws!Next, Memory!Report, AutoPilotLaws!Report,
       Memory!Receive, AutoPilotLaws!Receive, Memory!Tick, AutoPilotLaws!Tick,
       Memory!Drain, AutoPilotLaws!Drain, Memory!ApplyClient, AutoPilotLaws!ApplyClient,
       Memory!ApplyGlobal, AutoPilotLaws!ApplyGlobal, Memory!Insert, AutoPilotLaws!Insert,
       Memory!Forget, AutoPilotLaws!Forget, Memory!Save, AutoPilotLaws!Save,
       Memory!Restart, AutoPilotLaws!Restart, Memory!Update, AutoPilotLaws!Update,
       Memory!First, AutoPilotLaws!First, Memory!Counted, AutoPilotLaws!Counted,
       Memory!learningVars, AutoPilotLaws!learningVars,
       Memory!queueVars, AutoPilotLaws!queueVars, Memory!NoMemory, AutoPilotLaws!NoMemory,
       Memory!Nothing, AutoPilotLaws!Nothing, Memory!Keys, AutoPilotLaws!Keys,
       Memory!Appliers, AutoPilotLaws!Appliers, Memory!Learner, AutoPilotLaws!Learner,
       Memory!Idle, AutoPilotLaws!Idle
<1> QED
  BY <1>1, <1>2

\* So does the health record's.
LEMMA SameHealth ==
    /\ Metrics!Init <=> AutoPilotLaws!Metrics!Init
    /\ [Metrics!Next]_(Metrics!healthVars)
          <=> [AutoPilotLaws!Metrics!Next]_(AutoPilotLaws!Metrics!healthVars)
  BY Zenon DEF Metrics!Init, AutoPilotLaws!Metrics!Init,
       Metrics!Next, AutoPilotLaws!Metrics!Next, Metrics!Pass, AutoPilotLaws!Metrics!Pass,
       Metrics!Record, AutoPilotLaws!Metrics!Record, Metrics!Begin,
       AutoPilotLaws!Metrics!Begin, Metrics!Reset, AutoPilotLaws!Metrics!Reset,
       Metrics!Load, AutoPilotLaws!Metrics!Load, Metrics!Store,
       AutoPilotLaws!Metrics!Store, Metrics!Count, AutoPilotLaws!Metrics!Count,
       Metrics!Swap, AutoPilotLaws!Metrics!Swap, Metrics!Note, AutoPilotLaws!Metrics!Note,
       Metrics!Does, AutoPilotLaws!Metrics!Does, Metrics!healthVars,
       AutoPilotLaws!Metrics!healthVars

\* In the whole, as Learning.cfg checks it, the invariants of its parts hold together
\* (smart_forward.rs:811-1222, autopilot.rs:455, 2052-2090, ratelimit.rs:29-90).
THEOREM LearningPartsAreSafe ==
    ASSUME IsFiniteSet(Callers)
    PROVE  AllSpec => [](/\ DomesticNeverFaked /\ FakedOnEvidence /\ ClassesAgree
                         /\ ConfidenceEarned /\ NotShutOut /\ LimitHolds)
<1>1. AllSpec => []DomesticNeverFaked /\ []FakedOnEvidence /\ []ClassesAgree
  BY EachByItself, DomesticStaysLocal, FakedForAReason, StoresAgree, PTL
<1>2. AllSpec => []ConfidenceEarned
  <2>1. AutoPilotLaws!Spec => []AutoPilotLaws!ConfidenceEarned
    <3>1. Needed \in Nat
      BY LearningAssumption
    <3>2. AutoPilotLaws!IsFiniteSet(Callers)
      BY DEF IsFiniteSet, AutoPilotLaws!IsFiniteSet
    <3> QED
      BY <3>1, <3>2, AutoPilotLaws!ConfidenceIsEarned
  <2>2. AutoPilotLaws!ConfidenceEarned => ConfidenceEarned
    BY DEF AutoPilotLaws!ConfidenceEarned, ConfidenceEarned, AutoPilotLaws!Recommends,
           Recommends, AutoPilotLaws!Keys, Keys
  <2> QED
    BY <2>1, <2>2, SameLearning, EachByItself, PTL DEF Memory!Spec, AutoPilotLaws!Spec
<1>3. AllSpec => []NotShutOut
  <2>1. AutoPilotLaws!Metrics!Spec => []AutoPilotLaws!NotShutOut
    BY AutoPilotLaws!NobodyIsShutOut
  <2>2. AutoPilotLaws!NotShutOut => NotShutOut
    BY DEF AutoPilotLaws!NotShutOut, NotShutOut, AutoPilotLaws!Available, Available
  <2> QED
    BY <2>1, <2>2, SameHealth, EachByItself, PTL DEF Metrics!Spec, AutoPilotLaws!Metrics!Spec
<1>4. AllSpec => []LimitHolds
  BY EachByItself, LimitIsKept, PTL
<1> QED
  BY <1>1, <1>2, <1>3, <1>4, PTL
=============================================================================
