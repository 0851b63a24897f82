------------------------------ MODULE Resolver ------------------------------
(***************************************************************************)
(* RecursiveBackend::lookup (src/plugins/recursive_backend.rs): a name is  *)
(* looked up by a trusted resolver, by asking name servers from the root   *)
(* down, or in mode "hybrid" by either.                                    *)
(*                                                                         *)
(* The iterative lookup calls itself for the target of a CNAME and for the *)
(* addresses of name servers that come without: its activations are a      *)
(* stack of frames.  What a server sends is any of what the code tells     *)
(* apart; every exchange has its timeout (src/plugins/                     *)
(* recursive_backend.rs:271-310) and ends in one of them.                  *)
(***************************************************************************)
EXTENDS Naturals, Sequences, SequencesExt

CONSTANTS
    Names,
    MaxDepth,   \* MAX_DEPTH, 15 in the code
    MaxCnames,  \* MAX_CNAME_DEPTH, 8 in the code
    MaxTry,     \* name servers asked on one level, 6 in the code
    MaxNs       \* bound: name servers of one referral

VARIABLES
    mode,      \* of the backend
    domestic,  \* what is_domestic_domain says of the name
    stack,     \* the activations of lookup_iterative_internal
    visited,   \* the names and types looked up so far
    outcome    \* of the lookup: "none" before it starts, "open" while it goes on

lookupVars == <<mode, domestic, stack, visited, outcome>>

Keys == Names \X {"A", "AAAA"}
Steps == Names \X {"A", "AAAA", "trusted"}
Results == {"answer", "negative", "error"}

\* key is looked up; servers are left to ask on this level; pending is what is left of
\* resolve_ns_ips_iterative, and found says that it has an address.
Frames ==
    [key : Keys, depth : 1 .. MaxDepth, cnames : 1 .. MaxCnames, servers : 1 .. MaxTry,
     resolving : BOOLEAN, pending : Seq(Steps), found : BOOLEAN]

\* Type invariant.  No two frames look up the same.
ResolverTypeOK ==
    /\ mode \in {"trusted", "iterative", "hybrid"}
    /\ domestic \in BOOLEAN
    /\ stack \in Seq(Frames)
    /\ visited \subseteq Keys
    /\ \A i \in DOMAIN stack : stack[i].key \in visited
    /\ \A i, j \in DOMAIN stack : i # j => stack[i].key # stack[j].key
    /\ outcome \in {"none", "open", "asked"} \cup Results

Init ==
    /\ mode \in {"trusted", "iterative", "hybrid"}
    /\ domestic \in BOOLEAN
    /\ stack = <<>>
    /\ visited = {}
    /\ outcome = "none"

-----------------------------------------------------------------------------
Top == Last(stack)
Replaced(frame) == Append(Front(stack), frame)

Frame(key, depth, cnames) ==
    [key |-> key, depth |-> depth, cnames |-> cnames, servers |-> MaxTry,
     resolving |-> FALSE, pending |-> <<>>, found |-> FALSE]

\* The guards a call starts with.
Refused(key, depth, cnames) == depth = 0 \/ cnames = 0 \/ key \in visited

\* The result of the lookup: an iterative one that fails is left to the trusted resolver
\* in mode "hybrid".
Finished(result) ==
    IF result = "error" /\ mode = "hybrid" THEN "asked" ELSE result

\* The topmost call returns: to the lookup itself, or to the call that resolves a name
\* server.
Return(result) ==
    IF Len(stack) = 1
    THEN stack' = <<>> /\ outcome' = Finished(result)
    ELSE /\ stack' = LET caller == Last(Front(stack)) IN
              Append(Front(Front(stack)),
                     [caller EXCEPT !.found = @ \/ result = "answer"])
         /\ UNCHANGED outcome

\* The next server of the level is asked, or the call fails for want of one.
NextServer ==
    IF Top.servers = 1
    THEN Return("error")
    ELSE /\ stack' = Replaced([Top EXCEPT !.servers = @ - 1, !.resolving = FALSE])
         /\ UNCHANGED outcome

\* Mutant of NextLevel: a referral is followed however deep it is.
NextLevelAnyDepth ==
    \E n \in 1 .. MaxTry :
        /\ stack' = Replaced([Top EXCEPT !.servers = n, !.resolving = FALSE])
        /\ UNCHANGED outcome

\* The servers of a referral are asked in turn, one level down.
NextLevel ==
    IF Top.depth = 1
    THEN Return("error")
    ELSE \E n \in 1 .. MaxTry :
            /\ stack' = Replaced([Top EXCEPT !.depth = @ - 1, !.servers = n,
                                             !.resolving = FALSE])
            /\ UNCHANGED outcome

-----------------------------------------------------------------------------
\* Domestic names go to the trusted resolver in mode "hybrid".
Start ==
    /\ outcome = "none"
    /\ IF mode = "trusted" \/ (mode = "hybrid" /\ domestic)
       THEN outcome' = "asked" /\ UNCHANGED <<stack, visited>>
       ELSE /\ outcome' = "open"
            /\ \E key \in Keys :
                  /\ stack' = <<Frame(key, MaxDepth, MaxCnames)>>
                  /\ visited' = {key}
    /\ UNCHANGED <<mode, domestic>>

\* The trusted resolver reports a name without records as an error.
Trusted ==
    /\ outcome = "asked"
    /\ outcome' \in {"answer", "error"}
    /\ UNCHANGED <<mode, domestic, stack, visited>>

Asking == outcome = "open" /\ ~Top.resolving

\* NXDOMAIN, no data, or records of the type asked for.
Answer ==
    /\ Asking
    /\ Return("answer") \/ Return("negative")
    /\ UNCHANGED <<mode, domestic, visited>>

\* No reply, or one that leads nowhere.
Useless ==
    /\ Asking
    /\ NextServer
    /\ UNCHANGED <<mode, domestic, visited>>

\* The result of the call for the target is that of this one.
Cname ==
    /\ Asking
    /\ \E target \in Names :
          LET key == <<target, Top.key[2]>> IN
          IF Refused(key, Top.depth - 1, Top.cnames - 1)
          THEN Return("error") /\ UNCHANGED visited
          ELSE /\ stack' = Replaced(Frame(key, Top.depth - 1, Top.cnames - 1))
               /\ visited' = visited \cup {key}
               /\ UNCHANGED outcome
    /\ UNCHANGED <<mode, domestic>>

\* A referral with addresses.
Glue ==
    /\ Asking
    /\ NextLevel
    /\ UNCHANGED <<mode, domestic, visited>>

\* How the addresses of name servers are looked up: A, AAAA and the trusted resolver, for
\* one server after the other.
Lookups(servers, n) ==
    [i \in 1 .. 3 * n |->
        <<servers[(i + 2) \div 3],
          CASE i % 3 = 1 -> "A" [] i % 3 = 2 -> "AAAA" [] i % 3 = 0 -> "trusted">>]

\* A referral without.
Unglued ==
    /\ Asking
    /\ \E n \in 1 .. MaxNs : \E servers \in [1 .. n -> Names] :
          stack' = Replaced([Top EXCEPT !.resolving = TRUE, !.found = FALSE,
                                        !.pending = Lookups(servers, n)])
    /\ UNCHANGED <<mode, domestic, visited, outcome>>

\* The next step of resolve_ns_ips_iterative: a call, unless its guards refuse it, or the
\* trusted resolver, unless there is an address or no such resolver.
Resolve ==
    /\ outcome = "open" /\ Top.resolving /\ Top.pending # <<>>
    /\ LET step == Head(Top.pending)
           rest == [Top EXCEPT !.pending = Tail(@)] IN
       IF step[2] = "trusted"
       THEN /\ \E known \in IF Top.found \/ mode = "iterative" THEN {FALSE} ELSE BOOLEAN :
                  stack' = Replaced([rest EXCEPT !.found = @ \/ known])
            /\ UNCHANGED visited
       ELSE IF Refused(step, Top.depth - 1, Top.cnames)
       THEN stack' = Replaced(rest) /\ UNCHANGED visited
       ELSE /\ stack' = Append(Replaced(rest), Frame(step, Top.depth - 1, Top.cnames))
            /\ visited' = visited \cup {step}
    /\ UNCHANGED <<mode, domestic, outcome>>

Resolved ==
    /\ outcome = "open" /\ Top.resolving /\ Top.pending = <<>>
    /\ IF Top.found THEN NextLevel ELSE NextServer
    /\ UNCHANGED <<mode, domestic, visited>>

Next ==
    \/ Start \/ Trusted \/ Answer \/ Useless \/ Cname
    \/ Glue \/ Unglued \/ Resolve \/ Resolved

\* Every exchange ends, in one of these: it has a timeout.
Progress == WF_lookupVars(Next)

Spec == Init /\ [][Next]_lookupVars /\ Progress

-----------------------------------------------------------------------------
(* Whatever the servers answer, with CNAMEs and name servers that point at *)
(* each other, a lookup comes to an end (recursive_backend.rs:410-420, 427,*)
(* 455, 484, 491): the depth bounds referrals and calls, and a name is     *)
(* looked up once.                                                         *)
LookupEnds == outcome # "none" ~> outcome \in Results

\* A call comes closer to its end: one level down, one server less to ask, the addresses of
\* a referral's servers to be looked up, or one of these looked up.
Lower(new, old) ==
    \/ new.depth < old.depth
    \/ /\ new.depth = old.depth
       /\ \/ new.servers < old.servers
          \/ /\ new.servers = old.servers
             /\ \/ new.resolving /\ ~old.resolving
                \/ new.resolving = old.resolving /\ Len(new.pending) < Len(old.pending)

\* The lookup is over, or has one more name and type behind it, or one call less under way,
\* or the topmost call is closer to its end.
Closer ==
    \/ outcome = "none" /\ outcome' \in {"open", "asked"}
    \/ outcome = "open" /\ outcome' \in {"asked"} \cup Results
    \/ outcome = "asked" /\ outcome' \in Results
    \/ /\ outcome = "open" /\ outcome' = "open"
       /\ \/ visited \subseteq visited' /\ visited' # visited
          \/ visited' = visited /\ Len(stack') < Len(stack)
          \/ visited' = visited /\ Len(stack') = Len(stack) /\ Lower(Top', Top)

(* Why LookupEnds holds (recursive_backend.rs:410-420, 427, 455, 484):     *)
(* every step brings the lookup closer to its end, in an order without     *)
(* infinite descent, as there are finitely many names and types.           *)
AlwaysCloser == [][Closer]_lookupVars
=============================================================================
