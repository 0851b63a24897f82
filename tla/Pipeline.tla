------------------------------ MODULE Pipeline ------------------------------
(***************************************************************************)
(* A query on its way through the plugins of a sequence                    *)
(* (src/core/context.rs, src/plugins/sequence.rs, mod.rs and the plugins), *)
(* from the packet to the reply and what the caches keep of it             *)
(* (src/server.rs, process_request).                                       *)
(*                                                                         *)
(* Programs maps each program to its plugins: a function from names to     *)
(* records whose field kind says what the plugin is.  The entry is "main". *)
(* A sequence has steps, each with its conditions and the name it executes;*)
(* a fallback has a primary and a secondary; the other fields are the      *)
(* plugin's settings.  Queries run one after the other: a context belongs  *)
(* to one query, and what queries share is the caches.                     *)
(***************************************************************************)
EXTENDS Naturals, Sequences, Lists

CONSTANTS
    Programs,   \* the programs a configuration may hold
    Questions,  \* what clients ask: a name and a type
    Addresses,  \* the record types that carry an address
    MaxTtl,     \* bound: the largest TTL
    MaxQueries, \* bound: how many queries come
    None

VARIABLES
    program,  \* the program in use
    query,    \* the question under way
    ctx,      \* its context
    frames,   \* the sequences and fallbacks entered and not yet left
    status,   \* "idle", "go", or what the last plugin returned: "ok", "err"
    store,    \* what each cache keeps for each question
    written,  \* the caches the last query's hooks have written
    sent,     \* the last reply
    left      \* queries that may still come

pipelineVars == <<program, query, ctx, frames, status, store, written, sent, left>>

Replies == [by : {"block", "local", "server", "servfail"},
            records : SUBSET Addresses, ttl : 0 .. MaxTtl]
Plugin == Programs[program]
PluginNames == DOMAIN Plugin
Caches == {n \in PluginNames : Plugin[n].kind = "cache"}
Top == frames[Len(frames)]

\* Programs are wired as plugin_factory wires them (see Registry): what a sequence or a
\* fallback calls exists.  A black hole has addresses only.
ProgramsWired ==
    \A g \in DOMAIN Programs :
        /\ "main" \in DOMAIN Programs[g]
        /\ \A n \in DOMAIN Programs[g] :
              LET p == Programs[g][n] IN
              /\ p.kind = "sequence" =>
                    /\ Len(p.steps) \in Nat
                    /\ \A i \in 1 .. Len(p.steps) : p.steps[i].exec \in DOMAIN Programs[g]
              /\ p.kind = "fallback" =>
                    {p.primary, p.secondary} \subseteq DOMAIN Programs[g]
              /\ p.kind = "reject" => p.records \subseteq Addresses

\* A reply with no answers: a block, a refusal, a failure.
Empty(by) == [by |-> by, records |-> {}, ttl |-> 0]

-----------------------------------------------------------------------------
(* The context. *)

FreshContext ==
    [response |-> None, raw |-> None, tags |-> {}, ecs |-> FALSE, abort |-> FALSE,
     hooks |-> {}]

\* Mutant of SetRawResponse: the parsed form is kept beside the raw one.
SetRawKeeping(c, reply, stop) ==
    [c EXCEPT !.raw = reply, !.abort = @ \/ stop]

\* set_response and set_raw_response: one form replaces the other.
SetResponse(c, reply, stop) ==
    [c EXCEPT !.response = reply, !.raw = None, !.abort = @ \/ stop]

SetRawResponse(c, reply, stop) ==
    [c EXCEPT !.raw = reply, !.response = None, !.abort = @ \/ stop]

AddTag(c, tag) == [c EXCEPT !.tags = @ \cup {tag}]

HasResponse(c) == c.response # None \/ c.raw # None

\* response_bytes: the raw form goes first.
ResponseBytes(c) == IF c.raw # None THEN c.raw ELSE c.response

RecordsOf(reply) == IF reply = None THEN {} ELSE reply.records

\* The address records a context carries, in either form.
Answers(c) == RecordsOf(c.response) \cup RecordsOf(c.raw)

-----------------------------------------------------------------------------
(* The plugins.  Each maps a context to the contexts it may leave behind.  *)

\* RejectPlugin: an empty reply, or the address of a black hole if the type fits.
Reject(p, c) ==
    {SetResponse(c, [by |-> "block", records |-> p.records \cap {query.type},
                     ttl |-> IF query.type \in p.records THEN MaxTtl ELSE 0], TRUE)}

\* HostsPlugin: only address queries for a name it has a record of that type for.
HostsAnswer(p, c) ==
    IF query.type \in HostRecords(p.list, query.name) \cap Addresses
    THEN {SetResponse(c, [by |-> "local", records |-> {query.type}, ttl |-> MaxTtl], TRUE)}
    ELSE {c}

\* AdBlockPlugin: the block is put into the context, and the sequence goes on.
AdBlock(p, c) ==
    IF c.response = None /\ Blocks(p.list, query.name)
    THEN {[c EXCEPT !.response = Empty("block")]} ELSE {c}

\* Ipv6FilterPlugin: an empty reply to AAAA; the other modes only delay.
Ipv6Filter(p, c) ==
    IF c.response = None /\ p.mode = "disable_ipv6" /\ query.type = "AAAA"
    THEN {[c EXCEPT !.response = Empty("block")]} ELSE {c}

\* DGAPlugin: a name whose longest label looks random.
Dga(p, c) ==
    IF query.name \in p.random /\ ~p.dry_run
    THEN {SetResponse(c, Empty("block"), TRUE)} ELSE {c}

\* RateLimitPlugin: whether this client is over its limit is RateLimit's matter.
Limit(c) == {c, SetResponse(c, Empty("block"), TRUE)}

\* MatcherPlugin and GeoSitePlugin: a tag for a name that is listed.
Tagged(c, matched, p) == IF matched /\ p.mark # None THEN AddTag(c, p.mark) ELSE c

\* GeoIpPlugin: the client's address, or one in a parsed response, may be of the country;
\* without the database nothing is.
GeoIp(p, c) ==
    {IF matched # p.invert THEN AddTag(c, p.tag) ELSE c :
        matched \in IF p.mode = "client" \/ RecordsOf(c.response) # {} THEN BOOLEAN
                    ELSE {FALSE}}

\* IpMatcherPlugin: an address of a parsed response may be in the list.
IpMatcher(p, c) ==
    {c} \cup (IF RecordsOf(c.response) # {} THEN {Tagged(c, TRUE, p)} ELSE {})

\* EcsPlugin: the subnet goes into the parsed request; the bytes that are forwarded are
\* those the client sent.
InjectEcs(p, c) == {c} \cup (IF p.auto \/ p.force THEN {[c EXCEPT !.ecs = TRUE]} ELSE {})

\* TtlPlugin: the TTL of the answers of a parsed response.
Clamp(p, t) ==
    LET raised == IF p.min # None /\ t < p.min THEN p.min ELSE t
    IN  IF p.fixed # None THEN p.fixed
        ELSE IF p.max # None /\ raised > p.max THEN p.max ELSE raised

SetTtl(p, c) ==
    IF RecordsOf(c.response) = {} THEN {c}
    ELSE {[c EXCEPT !.response.ttl = Clamp(p, @)]}

\* Dns64Plugin: AAAA made of the A records of a parsed response.
Dns64(p, c) ==
    IF /\ query.type = "AAAA" /\ "A" \in RecordsOf(c.response)
       /\ p.only_if_no_aaaa => "AAAA" \notin RecordsOf(c.response)
    THEN {[c EXCEPT !.response.records = {"AAAA"}]} ELSE {c}

\* What a server may answer a question with: no record, or records of some type.
FromServers == {r \in Replies : r.by = "server" /\ (r.records = {} => r.ttl = 0)}

\* ForwardPlugin and SmartForwardPlugin: an answer, or SERVFAIL; a banned client is refused.
Forwarded(c) ==
    {SetResponse(c, r, TRUE) : r \in FromServers \cup {Empty("servfail"), Empty("block")}}

\* SmartResolvePlugin: what was gathered and probed, or, when nothing was, what one server
\* answers; it hands the query on untouched when none does.
SmartResolve(c) == {c} \cup {SetResponse(c, r, TRUE) : r \in FromServers}

\* CachePlugin::handle: a hit in its raw form, or parsed if the bytes do not read; what is
\* absent or has expired is to be written back.
Lookup(name, c) ==
    LET kept == store[name][query]
    IN  {[c EXCEPT !.hooks = @ \cup {name}]} \cup
        IF kept = None THEN {}
        ELSE {SetRawResponse(c, kept, TRUE), SetResponse(c, kept, TRUE)}

\* AnyPlugin::handle: what plugin name does to c.  FakeIpPlugin, DnssecPlugin and
\* QueryLogPlugin leave the context alone.
Handled(name, c) ==
    LET p == Plugin[name]
    IN  CASE p.kind = "cache" -> Lookup(name, c)
          [] p.kind \in {"forward", "smart_forward", "aliapi"} -> Forwarded(c)
          [] p.kind = "smart_resolve" -> SmartResolve(c)
          [] p.kind = "reject" -> Reject(p, c)
          [] p.kind = "hosts" -> HostsAnswer(p, c)
          [] p.kind = "adblock" -> AdBlock(p, c)
          [] p.kind = "ipv6_filter" -> Ipv6Filter(p, c)
          [] p.kind = "dga" -> Dga(p, c)
          [] p.kind = "ratelimit" -> Limit(c)
          [] p.kind = "matcher" -> {Tagged(c, MatcherMatches(p.list, query.name), p)}
          [] p.kind = "geosite" -> {Tagged(c, GeoSiteMatches(p.list, query.name), p)}
          [] p.kind = "geoip" -> GeoIp(p, c)
          [] p.kind = "ip_matcher" -> IpMatcher(p, c)
          [] p.kind = "ecs" -> InjectEcs(p, c)
          [] p.kind = "ttl" -> SetTtl(p, c)
          [] p.kind = "dns64" -> Dns64(p, c)
          [] OTHER -> {c}

\* AliApiPlugin alone fails its caller: when the server cannot be reached.
MayFail(name) == Plugin[name].kind = "aliapi"

-----------------------------------------------------------------------------
(* Sequences and fallbacks. *)

\* check_match: every condition holds.  Of qname patterns, names has the names whose text
\* ends with one.  A list that is not a matcher's, and the client's address, never hold.
Holds(cond) ==
    CASE cond.on = "qname" -> query.name \in cond.names
      [] cond.on = "qtype" -> query.type \in cond.types
      [] cond.on = "tag" -> (cond.tag \in ctx.tags) # cond.invert
      [] cond.on = "matcher" ->
            /\ cond.of \in PluginNames /\ Plugin[cond.of].kind = "matcher"
            /\ MatcherMatches(Plugin[cond.of].list, query.name)
      [] OTHER -> FALSE

IsSequence(f) == Plugin[f.at].kind = "sequence"
Steps(f) == Plugin[f.at].steps
AtStep(f) == IsSequence(f) /\ f.next <= Len(Steps(f))

\* A frame: the plugin entered, the next step of a sequence, and what a fallback keeps:
\* the context it was called with and the branches it has not seen the end of.
Frame(name) ==
    [at |-> name, next |-> 1, saved |-> ctx,
     branches |-> IF Plugin[name].kind = "fallback"
                  THEN {Plugin[name].primary, Plugin[name].secondary} ELSE {}]

\* Calling a plugin: a sequence or a fallback is entered, any other runs in one step.
Call(name, stack) ==
    IF Plugin[name].kind \in {"sequence", "fallback"}
    THEN /\ frames' = Append(stack, Frame(name))
         /\ status' = "go" /\ ctx' = ctx
    ELSE /\ frames' = stack
         /\ \/ status' = "ok" /\ ctx' \in Handled(name, ctx)
            \/ MayFail(name) /\ status' = "err" /\ ctx' = ctx

Unchanged == UNCHANGED <<program, query, store, written, sent, left>>

\* A packet arrives, and the entry is called.
Accept ==
    /\ status = "idle" /\ left > 0
    /\ left' = left - 1
    /\ query' \in Questions
    /\ ctx' = FreshContext
    /\ frames' = <<[at |-> "main", next |-> 1, saved |-> FreshContext, branches |-> {}]>>
    /\ status' = "go"
    /\ written' = {}
    /\ sent' = None
    /\ UNCHANGED <<program, store>>

\* Sequence::handle at a step: its conditions do not hold, or it is executed.
Advanced(n) == [frames EXCEPT ![Len(frames)].next = n]

Skip ==
    /\ status = "go" /\ AtStep(Top)
    /\ \E cond \in Steps(Top)[Top.next].conditions : ~Holds(cond)
    /\ frames' = Advanced(Top.next + 1)
    /\ UNCHANGED <<ctx, status>> /\ Unchanged

Execute ==
    /\ status = "go" /\ AtStep(Top)
    /\ \A cond \in Steps(Top)[Top.next].conditions : Holds(cond)
    /\ Call(Steps(Top)[Top.next].exec, frames)
    /\ Unchanged

\* The step returns: the sequence goes on, or breaks off when the context says so.
Continue ==
    /\ status = "ok" /\ frames # <<>> /\ IsSequence(Top)
    /\ frames' = Advanced(IF ctx.abort THEN Len(Steps(Top)) + 1 ELSE Top.next + 1)
    /\ status' = "go"
    /\ UNCHANGED ctx /\ Unchanged

Left == SubSeq(frames, 1, Len(frames) - 1)

\* The end of a sequence, and the ? that passes an error on.
Leave ==
    /\ frames # <<>> /\ IsSequence(Top)
    /\ \/ status = "go" /\ ~AtStep(Top) /\ status' = "ok"
       \/ status = "err" /\ status' = "err"
    /\ frames' = Left
    /\ UNCHANGED ctx /\ Unchanged

\* handle_fallback: a branch runs on a copy of the context.  Fallback has how the two
\* race; they share nothing here, so one ends after the other.
Branch ==
    /\ status = "go" /\ ~IsSequence(Top)
    /\ \E b \in Top.branches :
          Call(b, [frames EXCEPT ![Len(frames)].branches = @ \ {b}])
    /\ Unchanged

\* A branch that left a response is applied; after one that did not, the other's turn
\* comes, and then an error.
Settle ==
    /\ status \in {"ok", "err"} /\ frames # <<>> /\ ~IsSequence(Top)
    /\ \/ /\ status = "ok" /\ HasResponse(ctx)
          /\ frames' = Left
          /\ UNCHANGED <<status, ctx>>
       \/ /\ ~(status = "ok" /\ HasResponse(ctx))
          /\ ctx' = Top.saved
          /\ IF Top.branches # {} THEN status' = "go" /\ UNCHANGED frames
             ELSE status' = "err" /\ frames' = Left
    /\ Unchanged

\* The 5 s of a branch run out, wherever in it the query is.
TimeOut ==
    /\ status # "idle"
    /\ \E i \in DOMAIN frames :
          /\ ~IsSequence(frames[i]) /\ (i < Len(frames) \/ status = "ok")
          /\ frames' = SubSeq(frames, 1, i)
    /\ status' = "err"
    /\ UNCHANGED ctx /\ Unchanged

\* process_request: the hooks, then the reply.  A response that is too big or may not be
\* cached is left out; a raw one is none to them.
Finish ==
    /\ status = "ok" /\ frames = <<>>
    /\ IF ctx.response # None THEN written' \in SUBSET ctx.hooks ELSE written' = {}
    /\ store' = [n \in DOMAIN store |->
                    IF n \in written' THEN [store[n] EXCEPT ![query] = ctx.response]
                    ELSE store[n]]
    /\ sent' = ResponseBytes(ctx)
    /\ status' = "idle"
    /\ UNCHANGED <<program, query, ctx, frames, left>>

\* An error: no hooks, and no reply.
Abandon ==
    /\ status = "err" /\ frames = <<>>
    /\ status' = "idle"
    /\ UNCHANGED <<ctx, frames>> /\ Unchanged

Init ==
    /\ program \in DOMAIN Programs
    /\ query \in Questions
    /\ ctx = FreshContext
    /\ frames = <<>> /\ status = "idle"
    /\ store = [n \in Caches |-> [q \in Questions |-> None]]
    /\ written = {} /\ sent = None
    /\ left = MaxQueries

Next ==
    Accept \/ Skip \/ Execute \/ Continue \/ Leave \/ Branch \/ Settle \/ TimeOut
    \/ Finish \/ Abandon

Spec == Init /\ [][Next]_pipelineVars

-----------------------------------------------------------------------------
\* Type invariant.
PipelineTypeOK ==
    /\ program \in DOMAIN Programs /\ query \in Questions
    /\ ctx.response \in Replies \cup {None} /\ ctx.raw \in Replies \cup {None}
    /\ ctx.abort \in BOOLEAN /\ ctx.ecs \in BOOLEAN
    /\ ctx.hooks \subseteq Caches
    /\ \A i \in DOMAIN frames : frames[i].at \in PluginNames
    /\ status \in {"idle", "go", "ok", "err"}
    /\ DOMAIN store = Caches
    /\ \A n \in DOMAIN store : store[n] \in [Questions -> Replies \cup {None}]
    /\ written \subseteq Caches
    /\ sent \in Replies \cup {None}
    /\ left \in 0 .. MaxQueries

\* What a cache writes back for a query is what the client is sent for it, whichever
\* plugin answered, in whichever branch, and in whichever form.
CachedIsSent ==
    status = "idle" => \A n \in written : store[n][query] = sent

\* No plugin ever runs on a context that carries an address: whoever puts one there ends
\* every sequence the query is in.  It is why TtlApplied fails in every program, and why a
\* dns64, an ip_matcher or a geoip of the response never finds anything either.
AnswersEndTheChain ==
    status = "go" /\ Answers(ctx) # {} => ~AtStep(Top) /\ IsSequence(Top)

\* What ttl.rs says of its plugin, that it modifies the TTL of responses: when the last
\* step of the entry is one, no reply with records leaves with another TTL than it sets.
TtlApplied ==
    LET last == Plugin["main"].steps[Len(Plugin["main"].steps)] IN
    /\ status = "idle" /\ sent # None /\ sent.records # {}
    /\ last.conditions = {} /\ Plugin[last.exec].kind = "ttl"
    => sent.ttl = Clamp(Plugin[last.exec], sent.ttl)
=============================================================================
