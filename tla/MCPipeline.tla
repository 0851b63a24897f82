----------------------------- MODULE MCPipeline -----------------------------
(***************************************************************************)
(* A configuration whose answers are to be modified on their way out: a    *)
(* cache, a forwarder, and behind them a ttl step, as sequence_doq of      *)
(* config.example.yaml has a dnssec step behind its forwarder.             *)
(***************************************************************************)
EXTENDS Pipeline

TtlProgram ==
    [main |-> [kind |-> "sequence",
               steps |-> <<[conditions |-> {}, exec |-> "cache"],
                           [conditions |-> {}, exec |-> "upstream"],
                           [conditions |-> {}, exec |-> "clamp"]>>],
     cache |-> [kind |-> "cache"],
     upstream |-> [kind |-> "forward"],
     clamp |-> [kind |-> "ttl", fixed |-> None, min |-> 1, max |-> None]]

TtlPrograms == [ttl |-> TtlProgram]
TtlQuestions == {[name |-> <<"cn">>, type |-> "A"], [name |-> <<"lan">>, type |-> "AAAA"]}
=============================================================================
