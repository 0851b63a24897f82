--------------------------- MODULE Recommendation ---------------------------
(***************************************************************************)
(* What a reader of AutoPilot's memory of a domain is told                 *)
(* (src/autopilot.rs, get_domain_best_upstream), and what it may rely on.  *)
(* Learning has how the memory comes about.                                *)
(***************************************************************************)
EXTENDS Naturals

CONSTANTS
    Upstreams,  \* labels
    Needed      \* DOMAIN_MEMORY_CONFIDENCE

VARIABLES
    memory,   \* DOMAIN_MEMORY ("global") and CLIENT_DOMAIN_MEMORY ("client")
    reported  \* history: results of an upstream reported for a key

Keys == {"client", "global"}

\* get_domain_best_upstream: what the memory recommends.
Recommends(key, u) == memory[key].best = u /\ memory[key].count >= Needed

(* An upstream is recommended for a domain (autopilot.rs:2065-2090, 2196)  *)
(* only after as many results of its own as confidence takes were reported *)
(* for that domain, by that subnet where the memory is the subnet's: no    *)
(* update is counted twice, or for another upstream, by the channel, by the*)
(* batches, by those who apply theirs past the channel (2052), by readers  *)
(* that remove an expired entry after another has taken its place, by the  *)
(* file or by a restart.                                                   *)
ConfidenceEarned ==
    \A k \in Keys, u \in Upstreams : Recommends(k, u) => reported[k][u] >= Needed
=============================================================================
