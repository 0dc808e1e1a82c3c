----------------------------- MODULE MCReports ------------------------------
(* An instance of Reports for TLC: three operations, two of them on one day, *)
(* one with an amount below zero; bob is in one of two groups.               *)
EXTENDS Reports, TLC

CONSTANTS alice, bob, home, trip, o1, o2, o3

MCMember == home :> {alice, bob} @@ trip :> {alice}
MCAmount == o1 :> 5 @@ o2 :> 2 @@ o3 :> -3
MCAt     == o1 :> 4 @@ o2 :> 3 @@ o3 :> 2
Dates    == {None, 3}
Symmetry == Permutations(Category) \cup Permutations(GroupCategory)
=============================================================================
