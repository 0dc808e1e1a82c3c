------------------------------- MODULE Books --------------------------------
(***************************************************************************)
(* What the tables of a household's books promise, whatever handler writes *)
(* them: personal categories, the categories of groups, the links a member *)
(* draws between the two (PersonalCategoryMap), and operations.  A step is *)
(* one committed statement or transaction.  The steps are only as strong   *)
(* as the schema (unique indexes, foreign keys, cascades) and the where    *)
(* clauses of the repositories; Ledger shows that the handlers, with their *)
(* stale checks, take no other step.                                       *)
(***************************************************************************)
EXTENDS FiniteSets, Functions

CONSTANTS
    User,           \* accounts
    Group,          \* group ids
    Category,       \* ids of personal categories
    GroupCategory,  \* ids of group categories
    Operation,      \* ids of operations
    Name,           \* category names
    None            \* no row

Type == {"EXPENSE", "INCOME"}

PersonalRow  == [user : User, name : Name, type : Type]
SharedRow    == [group : Group, name : Name, type : Type]
OperationRow == [user : User, cat : Category, type : Type]

ASSUME NoRowAssumption ==
    None \notin Category \cup PersonalRow \cup SharedRow \cup OperationRow

VARIABLES
    category,   \* category[c]: the Category row with id c, or None
    gcat,       \* gcat[k]: the GroupCategory row with id k, or None
    link,       \* link[<<k, u>>]: the category u links to k, or None; the map row
                \* is unique by (groupCategoryId, userId)
    operation   \* operation[o]: the Operation row with id o, or None

books == <<category, gcat, link, operation>>

TypeOK ==
    /\ category \in [Category -> PersonalRow \cup {None}]
    /\ gcat \in [GroupCategory -> SharedRow \cup {None}]
    /\ link \in [GroupCategory \X User -> Category \cup {None}]
    /\ operation \in [Operation -> OperationRow \cup {None}]

\* category.userId, which no statement writes after the insert.
Owns(u, c) == category[c] # None /\ category[c].user = u

\* The rows a member's link, a category or an operation refers to exist and
\* belong to the same account ...
LinksAgree ==
    \A k \in GroupCategory, u \in User :
        link[<<k, u>>] # None => gcat[k] # None /\ Owns(u, link[<<k, u>>])
OperationsAgree ==
    \A o \in Operation : operation[o] # None => Owns(operation[o].user, operation[o].cat)

\* ... and no operation reaches a group's statistics through two of the
\* group's categories: unique (groupId, categoryId, userId).
CountedOnce ==
    \A k, j \in GroupCategory, u \in User :
        (/\ link[<<k, u>>] # None /\ link[<<k, u>>] = link[<<j, u>>]
         /\ gcat[k] # None /\ gcat[j] # None /\ gcat[k].group = gcat[j].group) => k = j

\* unique (name, userId, categoryType) and (name, groupId, categoryType).
Unique(table) ==
    \A x, y \in DOMAIN table : table[x] # None /\ table[x] = table[y] => x = y

RowsAgree == LinksAgree /\ OperationsAgree /\ CountedOnce /\ Unique(category) /\ Unique(gcat)

Init == TypeOK /\ RowsAgree
-----------------------------------------------------------------------------
SetCategory(c, row) ==
    /\ category[c] # None => category[c].user = row.user
    /\ category' = [category EXCEPT ![c] = row]
    /\ Unique(category')
    /\ UNCHANGED <<gcat, link, operation>>

\* A category with operations stays; its links go with it.
DropCategory(c) ==
    /\ \A o \in Operation : operation[o] # None => operation[o].cat # c
    /\ category' = [category EXCEPT ![c] = None]
    /\ link' = [i \in DOMAIN link |-> IF link[i] = c THEN None ELSE link[i]]
    /\ UNCHANGED <<gcat, operation>>

SetGroupCategory(k, row) ==
    /\ gcat[k] # None => gcat[k].group = row.group
    /\ gcat' = [gcat EXCEPT ![k] = row]
    /\ Unique(gcat')
    /\ UNCHANGED <<category, link, operation>>

\* One group category, or all of a group: their links go with them.
DropGroupCategories(K) ==
    /\ gcat' = [k \in GroupCategory |-> IF k \in K THEN None ELSE gcat[k]]
    /\ link' = [i \in DOMAIN link |-> IF i[1] \in K THEN None ELSE link[i]]
    /\ UNCHANGED <<category, operation>>

\* The first categories of a group, each linked to a category of the founder's.
FoundCategories(u, g, new, f) ==
    /\ f \in Injection(new, {c \in Category : Owns(u, c)})
    /\ \A k \in new : gcat[k] = None
    /\ gcat' \in [GroupCategory -> SharedRow \cup {None}]
    /\ \A k \in GroupCategory : IF k \in new THEN gcat'[k] # None /\ gcat'[k].group = g
                                             ELSE gcat'[k] = gcat[k]
    /\ Unique(gcat')
    /\ link' = [i \in DOMAIN link |-> IF i[1] \notin new THEN link[i]
                                      ELSE IF i[2] = u THEN f[i[1]] ELSE None]
    /\ CountedOnce'
    /\ UNCHANGED <<category, operation>>

\* A member redraws, or loses, links in one group.
Relink(u, g) ==
    /\ link' \in [GroupCategory \X User -> Category \cup {None}]
    /\ \A k \in GroupCategory, v \in User :
           link'[<<k, v>>] # link[<<k, v>>] => v = u /\ gcat[k] # None /\ gcat[k].group = g
    /\ UNCHANGED <<category, gcat, operation>>
    /\ LinksAgree' /\ CountedOnce'

\* Mutant of SetOperation: any category will do.
SetAnyOperation(o, row) ==
    /\ category[row.cat] # None
    /\ operation' = [operation EXCEPT ![o] = row]
    /\ UNCHANGED <<category, gcat, link>>

SetOperation(o, row) ==
    /\ Owns(row.user, row.cat)
    /\ operation[o] # None => operation[o].user = row.user
    /\ operation' = [operation EXCEPT ![o] = row]
    /\ UNCHANGED <<category, gcat, link>>

DropOperation(o) ==
    /\ operation' = [operation EXCEPT ![o] = None]
    /\ UNCHANGED <<category, gcat, link>>

Next ==
    \/ \E c \in Category : DropCategory(c) \/ \E row \in PersonalRow : SetCategory(c, row)
    \/ \E k \in GroupCategory, row \in SharedRow : SetGroupCategory(k, row)
    \/ \E K \in SUBSET GroupCategory : DropGroupCategories(K)
    \/ \E u \in User, g \in Group :
           \/ Relink(u, g)
           \/ \E new \in SUBSET GroupCategory : \E f \in [new -> Category] :
                  FoundCategories(u, g, new, f)
    \/ \E o \in Operation : DropOperation(o)
                           \/ \E row \in OperationRow : SetOperation(o, row)

Spec == Init /\ [][Next]_books
=============================================================================
