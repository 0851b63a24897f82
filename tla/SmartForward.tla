---------------------------- MODULE SmartForward ----------------------------
(***************************************************************************)
(* SmartForwardPlugin (src/plugins/smart_forward.rs): the queries for one  *)
(* domain are routed to the local upstream or to the FakeIP upstream, by   *)
(* AutoPilot's memory, by the class learned for the domain, or by a probe  *)
(* of the local upstream.  What is learned goes through a channel to the   *)
(* learner, or past it when the channel is full, into the class caches,    *)
(* and from there to a file.                                               *)
(*                                                                         *)
(* AutoPilot's memory is what Learning promises of it: it recommends a     *)
(* target only after Confidence reports of that target.  The second level  *)
(* of the class cache (learning_cache) is left out: it is asked for the    *)
(* name with its final dot and filled with names without one.              *)
(***************************************************************************)
EXTENDS Naturals, Sequences

CONSTANTS
    Capacity,    \* of the learning channel, 4096 in the code
    Confidence   \* DOMAIN_MEMORY_CONFIDENCE

ASSUME CapacityAssumption == Capacity \in Nat
ASSUME ConfidenceAssumption == Confidence \in Nat \ {0}

Targets == {"local", "fakeip"}

\* is_cn, of a domain.
Classes == {"cn", "global"}
Entry == Classes \cup {"none"}

\* Where a response's addresses are, or that there is none, or no response.
Answers == {"domestic", "foreign", "noip"}
Outcomes == Answers \cup {"failed"}

\* The learner, and the task that record_learning spawns when the channel is full.
Writers == {"learner", "overflow"}
Steps == {"persist", "classify"}

VARIABLES
    guarded,    \* avoid_fakeip_on_domestic, and the domain has a domestic suffix
    prefer,     \* prefer_local_on_miss
    pc,         \* where the query is
    told,       \* the target that the memory or the class names
    kept,       \* whether there is a local_resp_for_fallback; only a guarded domain uses it
    class,      \* domain_cache
    persisted,  \* persist_data
    channel,    \* learning_tx
    writer,     \* [Writers -> the update it applies]
    file,       \* learning_cache_file: Entry, or "broken" while it is written
    saved,      \* last_count of the persistence task
    reports,    \* [Targets -> results reported to AutoPilot], up to Confidence
    evidence,   \* history: a probe has failed or found no domestic address
    overtaken   \* history: an update has gone past the channel

configVars == <<guarded, prefer>>
queryVars == <<pc, told, kept>>
storeVars == <<class, persisted, channel, writer>>
fileVars == <<file, saved>>
historyVars == <<evidence, overtaken>>
vars == <<configVars, queryVars, storeVars, fileVars, reports, historyVars>>

Idle == [class |-> "none", todo |-> {}]

\* Type invariant.
SmartForwardTypeOK ==
    /\ guarded \in BOOLEAN /\ prefer \in BOOLEAN
    /\ pc \in {"idle", "memory", "remembered", "cache", "cached", "remove", "probe",
               "fallback", "last", "answered", "faked", "servfail"}
    /\ told \in Targets
    /\ kept \in BOOLEAN
    /\ class \in Entry /\ persisted \in Entry
    /\ channel \in Seq(Classes) /\ Len(channel) <= Capacity
    /\ writer \in [Writers -> [class : Entry, todo : SUBSET Steps]]
    /\ file \in Entry \cup {"broken"}
    /\ saved \in 0 .. 1
    /\ reports \in [Targets -> 0 .. Confidence]
    /\ evidence \in BOOLEAN /\ overtaken \in BOOLEAN

Init ==
    /\ guarded \in BOOLEAN /\ prefer \in BOOLEAN
    /\ pc = "idle" /\ told = "local" /\ kept = FALSE
    /\ class = "none" /\ persisted = "none"
    /\ channel = <<>>
    /\ writer = [w \in Writers |-> Idle]
    /\ file = "none" /\ saved = 0
    /\ reports = [t \in Targets |-> 0]
    /\ evidence = FALSE /\ overtaken = FALSE

-----------------------------------------------------------------------------
(* What a query leaves behind.                                             *)

\* record_learning: the channel, or a task of its own when that is full.  (One such
\* task at a time: with another under way, the update waits for it in the model.)
Learn(verdict) ==
    \/ /\ Len(channel) < Capacity
       /\ channel' = Append(channel, verdict)
       /\ UNCHANGED <<class, persisted, writer, overtaken>>
    \/ /\ Len(channel) = Capacity
       /\ writer["overflow"] = Idle
       /\ writer' = [writer EXCEPT !["overflow"] = [class |-> verdict, todo |-> Steps]]
       /\ overtaken' = TRUE
       /\ UNCHANGED <<class, persisted, channel>>

LearnNothing == UNCHANGED <<storeVars, overtaken>>

\* record_domain_result_for_client: slow results are not reported.
Report(target) ==
    \/ UNCHANGED reports
    \/ reports' = [reports EXCEPT ![target] = IF @ < Confidence THEN @ + 1 ELSE @]

At(where, target, k) ==
    pc' = where /\ told' = target /\ kept' = k /\ UNCHANGED <<configVars, fileVars>>
Told(where, target) == At(where, target, FALSE)
Goes(where) == Told(where, "local")
Ends(how) == Goes(how) /\ UNCHANGED evidence

-----------------------------------------------------------------------------
(* The shortcuts: AutoPilot's memory, and the class that was learned.      *)

Arrive ==
    /\ pc \in {"idle", "answered", "faked", "servfail"}
    /\ Goes("memory")
    /\ UNCHANGED <<storeVars, reports, historyVars>>

\* Mutant of Route: the memory is believed.
RouteAsTold(target) == target

\* A domestic domain does not go to the FakeIP upstream.
Route(target) == IF guarded THEN "local" ELSE target

AskMemory ==
    /\ pc = "memory"
    /\ \/ Goes("cache")
       \/ \E t \in Targets : reports[t] >= Confidence /\ Told("remembered", t)
    /\ UNCHANGED <<storeVars, reports, historyVars>>

\* Mutant of AskCache: a domain without an entry is taken for foreign.
AskCacheOrForeign ==
    /\ pc = "cache"
    /\ Told("cached", IF class = "cn" THEN "local" ELSE "fakeip")
    /\ UNCHANGED <<storeVars, reports, historyVars>>

\* get_domain_cache: an entry, or none that is still good.  Then whatever is under the name
\* by the next step is removed, also a class learned in between.
AskCache ==
    /\ pc = "cache"
    /\ \/ class # "none" /\ Told("cached", IF class = "cn" THEN "local" ELSE "fakeip")
       \/ Goes("remove")
    /\ UNCHANGED <<storeVars, reports, historyVars>>

Remove ==
    /\ pc = "remove"
    /\ class' = "none"
    /\ Goes("probe")
    /\ UNCHANGED <<persisted, channel, writer, reports, historyVars>>

\* The exchange that a shortcut leads to.  What came from memory is learned again, and
\* so is that a domain is domestic although it was held for foreign.
Shortcut ==
    /\ pc \in {"remembered", "cached"}
    /\ \/ /\ Ends(IF Route(told) = "local" THEN "answered" ELSE "faked")
          /\ Report(Route(told))
          /\ IF pc = "remembered" \/ Route(told) # told
             THEN Learn(IF Route(told) = "local" THEN "cn" ELSE "global")
             ELSE LearnNothing
       \/ /\ Goes(IF pc = "remembered" THEN "cache" ELSE "probe")
          /\ LearnNothing
          /\ UNCHANGED <<reports, evidence>>

-----------------------------------------------------------------------------
(* The probe.                                                              *)

\* classify_response, and what the plugin makes of it.
Verdict(outcome) ==
    IF outcome = "domestic" \/ (outcome = "foreign" /\ prefer) THEN "local" ELSE "open"

\* The answer of the local upstream or of its fallback.
Classify(outcome, target) ==
    /\ outcome \in Answers
    /\ evidence' = (evidence \/ outcome # "domestic")
    /\ \/ /\ Verdict(outcome) = "local"
          /\ Learn("cn")
          /\ Goes("answered")
          /\ IF target = "local" THEN Report("local") ELSE UNCHANGED reports
       \/ /\ Verdict(outcome) # "local"
          /\ IF outcome = "foreign" THEN Learn("global") ELSE LearnNothing
          /\ At("last", "local", TRUE)
          /\ UNCHANGED reports

Probe ==
    /\ pc = "probe"
    /\ \/ \E outcome \in Answers : Classify(outcome, "local")
       \/ /\ Goes("fallback")
          /\ evidence' = TRUE
          /\ LearnNothing
          /\ UNCHANGED reports

\* local_fallback; where none is configured, this is one that fails.
ProbeFallback ==
    /\ pc = "fallback"
    /\ \/ \E outcome \in Answers : Classify(outcome, "fallback")
       \/ /\ Goes("last")
          /\ LearnNothing
          /\ UNCHANGED <<reports, evidence>>

\* A domestic domain gets what the probe brought, or SERVFAIL; others go to FakeIP.
Last ==
    /\ pc = "last"
    /\ \/ guarded /\ Ends(IF kept THEN "answered" ELSE "servfail") /\ UNCHANGED reports
       \/ /\ ~guarded
          /\ \/ Ends("faked") /\ Report("fakeip")
             \/ Ends("servfail") /\ UNCHANGED reports
    /\ LearnNothing

Query ==
    \/ Arrive \/ AskMemory \/ AskCache \/ Remove \/ Shortcut
    \/ Probe \/ ProbeFallback \/ Last

-----------------------------------------------------------------------------
(* The learner, and the file.                                              *)

Take ==
    /\ writer["learner"] = Idle
    /\ channel # <<>>
    /\ writer' = [writer EXCEPT !["learner"] = [class |-> Head(channel), todo |-> Steps]]
    /\ channel' = Tail(channel)
    /\ UNCHANGED <<class, persisted>>

\* persist_data first, then domain_cache.
Persist(w) ==
    /\ writer[w].todo = Steps
    /\ writer' = [writer EXCEPT ![w].todo = {"classify"}]
    /\ persisted' = writer[w].class
    /\ UNCHANGED <<class, channel>>

\* Mutant of SetClass: a class that is there is kept.
SetClassOnce(w) ==
    /\ writer[w].todo = {"classify"}
    /\ writer' = [writer EXCEPT ![w] = Idle]
    /\ class' = IF class = "none" THEN writer[w].class ELSE class
    /\ UNCHANGED <<persisted, channel>>

SetClass(w) ==
    /\ writer[w].todo = {"classify"}
    /\ writer' = [writer EXCEPT ![w] = Idle]
    /\ class' = writer[w].class
    /\ UNCHANGED <<persisted, channel>>

Write ==
    /\ Take \/ \E w \in Writers : Persist(w) \/ SetClass(w)
    /\ UNCHANGED <<configVars, queryVars, fileVars, reports, historyVars>>

Size == IF persisted = "none" THEN 0 ELSE 1

\* The persistence task saves when there is more than it saw last time, and takes note
\* of the number whether or not the file was written.
Save ==
    /\ Size > saved
    /\ saved' = Size
    /\ file' \in {file, "broken", persisted}
    /\ UNCHANGED <<configVars, queryVars, storeVars, reports, historyVars>>

\* trim_persist_data, on behalf of other domains.
Trim ==
    /\ persisted' = "none"
    /\ UNCHANGED <<configVars, queryVars, fileVars, class, channel, writer, reports, historyVars>>

\* A new process loads the file, up to its limit of entries; a file that does not
\* parse is left alone.
Restart ==
    /\ pc' = "idle" /\ told' = "local" /\ kept' = FALSE
    /\ channel' = <<>>
    /\ writer' = [w \in Writers |-> Idle]
    /\ class' \in {"none"} \cup (IF file = "broken" THEN {} ELSE {file})
    /\ persisted' = class'
    /\ saved' = 0
    /\ overtaken' = FALSE
    /\ UNCHANGED <<configVars, file, reports, evidence>>

Next == Query \/ Write \/ Save \/ Trim \/ Restart

Spec == Init /\ [][Next]_vars

-----------------------------------------------------------------------------
(* avoid_fakeip_on_domestic: a domain with a domestic suffix is never      *)
(* answered by the FakeIP upstream (smart_forward.rs:811, 902, 1222),      *)
(* whatever AutoPilot remembers of it, whatever was learned, loaded from   *)
(* the file or overwritten by a late update, and whatever fails.           *)
DomesticNeverFaked == guarded => pc # "faked"

(* No domain is answered by the FakeIP upstream unless a probe has failed  *)
(* for it or brought no domestic address (smart_forward.rs:1117-1139): the *)
(* shortcuts that lead there, the file and the memory of earlier processes *)
(* included, go back to such a probe.                                      *)
FakedOnEvidence == pc = "faked" => evidence

AtRest == channel = <<>> /\ \A w \in Writers : writer[w] = Idle

(* domain_cache and persist_data are written by two tasks, in two steps    *)
(* (smart_forward.rs:279-287, 497-505): once the updates have been applied *)
(* and none has overtaken those in the channel, a domain that is in both   *)
(* has the same class in both, so that a restart does not change it.       *)
ClassesAgree ==
    AtRest /\ ~overtaken /\ class # "none" /\ persisted # "none" => class = persisted
=============================================================================
