------------------------------- MODULE MCRuleSet -------------------------------
(* Instances of RuleSet for TLC: two kinds of packets, a list of at most     *)
(* three rules, so that an edit can come before, at and behind the rule      *)
(* that decides.                                                            *)
EXTENDS RuleSet

CONSTANTS web1, web2, main, p1, p2

WebSymmetry == Permutations({web1, web2})

Says(action, matches) == [action |-> action, matches |-> matches]

BothKinds == {Says("allow", {p1}), Says("deny", {p1, p2})}
FreshInstall == <<Says("allow", {p2}), Says("reject", {p1})>>

Contents == BothKinds \cup {Says("other", {p2}), Says("deny", {})}
===============================================================================
