----------------------------- MODULE MCDashboard -----------------------------
(* Instances of Dashboard for TLC: two tabs, the first account and one that *)
(* was added by hand, a password of six characters and two of five.         *)
EXTENDS Dashboard, TLC

CONSTANTS tab1, tab2, main, none, admin, guest, default, secret, short, t1, t2, t3, t4, k1, k2

Lengths == default :> 5 @@ short :> 5 @@ secret :> 6

Files ==
    {Users!NoUsers,
     admin :> [password |-> default, isDefault |-> TRUE]
        @@ guest :> [password |-> short, isDefault |-> FALSE]}

Symmetry ==
    Permutations({tab1, tab2}) \cup Permutations({t1, t2, t3, t4}) \cup Permutations({k1, k2})
===============================================================================
