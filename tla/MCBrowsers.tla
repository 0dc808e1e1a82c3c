----------------------------- MODULE MCBrowsers -----------------------------
(* An instance of Browsers for TLC, symmetric as those of Sessions.          *)
EXTENDS Browsers, FiniteSets, Integers, TLC

Symmetry == Permutations(Request) \cup Permutations(Device) \cup Permutations(User)

UseOps == OpKinds \ {"register"}
TabOps == {"login", "refresh", "profile", "logout"}

\* Up to three requests of any kind; four that tabs of one browser, whose user
\* has an account, may send by themselves.
Sent == {r \in Request : pc[r] # "unsent"}
Few  == \/ Cardinality(Sent) <= 3
        \/ /\ \A r \in Sent : req[r].op \in TabOps
           /\ \E u \in User, d \in Device : /\ \A r \in Sent : KeyOf(r) = <<u, d>>
                                            /\ \A v \in User \ {u} : account[v] = "absent"
=============================================================================
