----------------------------- MODULE MCSessions -----------------------------
(* Small instances of Sessions for TLC.  Requests, devices and users are     *)
(* only compared for equality, so permuting each set is a symmetry.  The     *)
(* number of requests bounds every behaviour: when all are answered nothing  *)
(* is left to do.                                                            *)
EXTENDS Sessions, FiniteSets, Integers, TLC

Symmetry == Permutations(Request) \cup Permutations(Device) \cup Permutations(User)

AllOps == OpKinds

\* The operations a client repeats by itself, without its user asking.
LiveOps == {"register", "login", "refresh", "profile", "logout"}

\* Up to three requests may be about two accounts, four about one.
Sent == {r \in Request : pc[r] # "unsent"}
Few  == \/ Cardinality(Sent) <= 3
        \/ \E u \in User : /\ \A v \in User \ {u} : account[v] = "absent"
                           /\ \A r \in Request : req[r].user \in {u, None}
=============================================================================
