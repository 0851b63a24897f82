------------------------------- MODULE Lists -------------------------------
(***************************************************************************)
(* The lists of names the plugins match a query against.  A name is the    *)
(* sequence of its labels; a list is the set of the lines of its files,    *)
(* each with the form it is written in and the labels it names, and every  *)
(* plugin reads the forms its own way (src/plugins/matcher.rs, geosite.rs, *)
(* adblock.rs, hosts.rs).                                                  *)
(***************************************************************************)
EXTENDS Naturals, Sequences

\* A rule holds for a name: the name itself, a domain above it, or a word in it.
EndsWith(name, labels) ==
    /\ Len(labels) <= Len(name)
    /\ SubSeq(name, Len(name) - Len(labels) + 1, Len(name)) = labels

RuleHolds(rule, name) ==
    \/ rule.kind = "exact" /\ name = rule.of
    \/ rule.kind = "suffix" /\ EndsWith(name, rule.of)
    \/ rule.kind = "keyword" /\ \E i \in DOMAIN name : name[i] = rule.of[1]

\* MatcherPlugin::load_file and parse_rule: a regular expression or an unknown prefix is
\* no rule, and a leading dot makes a suffix of what is not a keyword.
MatcherKind(form) ==
    CASE form \in {"plain", "domain", "full"} -> "exact"
      [] form \in {"suffix", "dotted"} -> "suffix"
      [] form = "keyword" -> "keyword"
      [] OTHER -> "none"

MatcherMatches(list, name) ==
    \E line \in list : RuleHolds([kind |-> MatcherKind(line.form), of |-> line.of], name)

\* DomainSet: whatever the file calls it, a rule is a suffix, or a word when it is plain
\* in the binary file.
GeoSiteMatches(list, name) ==
    \E line \in list :
        RuleHolds([kind |-> IF line.form = "keyword" THEN "keyword" ELSE "suffix",
                   of |-> line.of], name)

\* RuleSet: ||name^ is a suffix and @@ an exception; comments and cosmetic rules are
\* skipped, and any other line is a name in full.
AdBlockKind(form) ==
    CASE form \in {"suffix", "allowed"} -> "suffix"
      [] form = "comment" -> "none"
      [] OTHER -> "exact"

RuleSetMatches(list, name) ==
    \E line \in list : RuleHolds([kind |-> AdBlockKind(line.form), of |-> line.of], name)

Blocks(list, name) ==
    /\ ~RuleSetMatches({line \in list : line.form = "allowed"}, name)
    /\ RuleSetMatches({line \in list : line.form # "allowed"}, name)

\* HostsPlugin: the address families a file gives the name, which is written in full.
HostRecords(list, name) == {line.type : line \in {l \in list : l.of = name}}
=============================================================================
