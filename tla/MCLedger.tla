------------------------------ MODULE MCLedger ------------------------------
(***************************************************************************)
(* Instances of Ledger for TLC.  alice and bob each have a category; alice *)
(* founded home, which bob joined, each has linked the category to the     *)
(* group category of its type, and alice has an operation.                 *)
(***************************************************************************)
EXTENDS Ledger, TLC

CONSTANTS alice, bob, home, trip, c1, c2, c3, k1, k2, k3, o1, Food, food

MCLower == [n \in Name |-> IF n = Food /\ food \in Name THEN food ELSE n]

\* The rows of a table that has an id for each member of ids.
Table(ids, rows) == [x \in ids |-> IF x \in DOMAIN rows THEN rows[x] ELSE None]

Shared ==
    {[category  |-> Table(Category, c1 :> [user |-> alice, name |-> Food, type |-> "EXPENSE"] @@
                                    c2 :> [user |-> bob, name |-> Food, type |-> "INCOME"]),
      gcat      |-> Table(GroupCategory, k1 :> [group |-> home, name |-> Food, type |-> "EXPENSE"]
                                      @@ k2 :> [group |-> home, name |-> Food, type |-> "INCOME"]),
      link      |-> Table(GroupCategory \X User, <<k1, alice>> :> c1 @@ <<k2, bob>> :> c2),
      operation |-> Table(Old, o1 :> [user |-> alice, cat |-> c1, type |-> "EXPENSE"]),
      creator   |-> Table(Group, home :> alice),
      members   |-> [g \in Group |-> IF g = home THEN {alice, bob} ELSE {}]]}

\* The operations that draw, write and undo links and references.
LinkOps == {"connect", "deleteCategory", "updateCategory", "deleteGroupCategory",
            "updateGroupCategory", "updateOperation"}

\* Ids that no table of Start uses are interchangeable.
Unnamed(ids, table) == {x \in ids : \A s \in Start : s[table][x] = None}
Symmetry == Permutations(Request) \cup Permutations(Unnamed(Category, "category"))
                \cup Permutations(Unnamed(GroupCategory, "gcat"))
=============================================================================
