---------------------------- MODULE BooksProofs -----------------------------
(***************************************************************************)
(* The tables of Books agree with each other in every reachable state, for *)
(* any accounts, groups, categories and operations.  Types and agreement   *)
(* are inductive together: an update of a row keeps its owner, and a row   *)
(* that nothing refers to, because it did not exist, may become anything.  *)
(***************************************************************************)
EXTENDS Books, TLAPS

Consistent == TypeOK /\ RowsAgree

LEMMA RowsAreNotNone ==
    /\ \A row \in PersonalRow : row # None
    /\ \A row \in SharedRow : row # None
    /\ \A row \in OperationRow : row # None
    /\ \A c \in Category : c # None
BY NoRowAssumption

LEMMA SetCategoryKeeps ==
    ASSUME Consistent, NEW c \in Category, NEW row \in PersonalRow, SetCategory(c, row)
    PROVE  Consistent'
<1> USE DEF Consistent
<1>1. row # None
    BY RowsAreNotNone
<1>2. TypeOK'
    BY DEF TypeOK, SetCategory
<1>3. \A u \in User, d \in Category : Owns(u, d) => Owns(u, d)'
    BY <1>1 DEF TypeOK, SetCategory, Owns
<1>4. LinksAgree' /\ OperationsAgree'
  <2>1. \A k \in GroupCategory, u \in User : link[<<k, u>>] \in Category \cup {None}
    BY DEF TypeOK
  <2>2. LinksAgree'
    BY <1>3, <2>1 DEF SetCategory, RowsAgree, LinksAgree
  <2>3. \A o \in Operation : operation[o] # None =>
            operation[o].user \in User /\ operation[o].cat \in Category
    BY DEF TypeOK, OperationRow
  <2>4. OperationsAgree'
    BY <1>3, <2>3 DEF SetCategory, RowsAgree, OperationsAgree
  <2> QED
    BY <2>2, <2>4
<1>5. CountedOnce' /\ Unique(category)' /\ Unique(gcat)'
    BY DEF SetCategory, RowsAgree, CountedOnce, Unique
<1> QED
    BY <1>2, <1>4, <1>5 DEF RowsAgree

LEMMA DropCategoryKeeps ==
    ASSUME Consistent, NEW c \in Category, DropCategory(c)
    PROVE  Consistent'
<1> USE DEF Consistent
<1>1. TypeOK'
    BY DEF TypeOK, DropCategory
<1>2. \A u \in User, d \in Category \ {c} : Owns(u, d) => Owns(u, d)'
    BY DEF TypeOK, DropCategory, Owns
<1>3. \A k \in GroupCategory, u \in User :
          link'[<<k, u>>] # None => link'[<<k, u>>] = link[<<k, u>>] /\ link[<<k, u>>] \in Category \ {c}
    BY DEF TypeOK, DropCategory
<1>4. LinksAgree'
    BY <1>2, <1>3 DEF DropCategory, RowsAgree, LinksAgree
<1>5. \A o \in Operation : operation[o] # None =>
          operation[o].user \in User /\ operation[o].cat \in Category \ {c}
    BY DEF TypeOK, OperationRow, DropCategory
<1>6. OperationsAgree'
    BY <1>2, <1>5 DEF DropCategory, RowsAgree, OperationsAgree
<1>7. CountedOnce'
    BY <1>3 DEF DropCategory, RowsAgree, CountedOnce
<1>8. Unique(category)' /\ Unique(gcat)'
    BY DEF TypeOK, DropCategory, RowsAgree, Unique
<1> QED
    BY <1>1, <1>4, <1>6, <1>7, <1>8 DEF RowsAgree

LEMMA SetGroupCategoryKeeps ==
    ASSUME Consistent, NEW k \in GroupCategory, NEW row \in SharedRow, SetGroupCategory(k, row)
    PROVE  Consistent'
<1> USE DEF Consistent
<1>1. row # None
    BY RowsAreNotNone
<1>2. TypeOK'
    BY DEF TypeOK, SetGroupCategory
<1>3. \A j \in GroupCategory : gcat[j] # None =>
          gcat'[j] # None /\ gcat'[j].group = gcat[j].group
    BY <1>1 DEF TypeOK, SetGroupCategory
<1>4. LinksAgree' /\ OperationsAgree'
    BY <1>3 DEF SetGroupCategory, RowsAgree, LinksAgree, OperationsAgree, Owns
<1>5. CountedOnce'
    BY <1>3 DEF SetGroupCategory, RowsAgree, LinksAgree, CountedOnce
<1>6. Unique(category)' /\ Unique(gcat)'
    BY DEF SetGroupCategory, RowsAgree, Unique
<1> QED
    BY <1>2, <1>4, <1>5, <1>6 DEF RowsAgree

LEMMA DropGroupCategoriesKeeps ==
    ASSUME Consistent, NEW K \in SUBSET GroupCategory, DropGroupCategories(K)
    PROVE  Consistent'
<1> USE DEF Consistent
<1>1. TypeOK'
    BY DEF TypeOK, DropGroupCategories
<1>2. \A k \in GroupCategory, u \in User :
          link'[<<k, u>>] # None => k \notin K /\ link'[<<k, u>>] = link[<<k, u>>]
    BY DEF TypeOK, DropGroupCategories
<1>3. \A k \in GroupCategory : k \notin K => gcat'[k] = gcat[k]
    BY DEF DropGroupCategories
<1>4. LinksAgree' /\ OperationsAgree'
    BY <1>2, <1>3 DEF DropGroupCategories, RowsAgree, LinksAgree, OperationsAgree, Owns
<1>5. CountedOnce'
    BY <1>2, <1>3 DEF RowsAgree, CountedOnce
<1>6. Unique(category)' /\ Unique(gcat)'
    BY DEF TypeOK, DropGroupCategories, RowsAgree, Unique
<1> QED
    BY <1>1, <1>4, <1>5, <1>6 DEF RowsAgree

LEMMA FoundCategoriesKeeps ==
    ASSUME Consistent, NEW u \in User, NEW g \in Group, NEW new \in SUBSET GroupCategory,
           NEW f \in [new -> Category], FoundCategories(u, g, new, f)
    PROVE  Consistent'
<1> USE DEF Consistent
<1>1. TypeOK'
    BY DEF TypeOK, FoundCategories
<1>2. \A k \in new : Owns(u, f[k]) /\ gcat'[k] # None
    BY DEF FoundCategories, Injection
<1>3. \A k \in GroupCategory, v \in User : link'[<<k, v>>] # None =>
          IF k \in new THEN v = u /\ link'[<<k, v>>] = f[k] ELSE link'[<<k, v>>] = link[<<k, v>>]
    BY DEF TypeOK, FoundCategories
<1>4. \A k \in GroupCategory : k \notin new => gcat'[k] = gcat[k]
    BY DEF FoundCategories
<1>5. LinksAgree'
    BY <1>2, <1>3, <1>4 DEF FoundCategories, RowsAgree, LinksAgree, Owns
<1>6. OperationsAgree'
    BY DEF FoundCategories, RowsAgree, OperationsAgree, Owns
<1>7. CountedOnce' /\ Unique(category)' /\ Unique(gcat)'
    BY DEF FoundCategories, RowsAgree, Unique
<1> QED
    BY <1>1, <1>5, <1>6, <1>7 DEF RowsAgree

LEMMA RelinkKeeps ==
    ASSUME Consistent, NEW u \in User, NEW g \in Group, Relink(u, g)
    PROVE  Consistent'
BY DEF Consistent, TypeOK, Relink, RowsAgree, OperationsAgree, Owns, Unique

LEMMA SetOperationKeeps ==
    ASSUME Consistent, NEW o \in Operation, NEW row \in OperationRow, SetOperation(o, row)
    PROVE  Consistent'
<1> USE DEF Consistent
<1>1. TypeOK'
    BY DEF TypeOK, SetOperation
<1>2. OperationsAgree'
    BY DEF TypeOK, SetOperation, RowsAgree, OperationsAgree, Owns
<1> QED
    BY <1>1, <1>2 DEF SetOperation, RowsAgree, LinksAgree, CountedOnce, Unique, Owns

LEMMA DropOperationKeeps ==
    ASSUME Consistent, NEW o \in Operation, DropOperation(o)
    PROVE  Consistent'
<1> USE DEF Consistent
<1>1. TypeOK'
    BY DEF TypeOK, DropOperation
<1>2. OperationsAgree'
    BY DEF TypeOK, DropOperation, RowsAgree, OperationsAgree, Owns
<1> QED
    BY <1>1, <1>2 DEF DropOperation, RowsAgree, LinksAgree, CountedOnce, Unique, Owns

LEMMA NextKeeps == ASSUME Consistent, [Next]_books PROVE Consistent'
<1>1. CASE UNCHANGED books
    BY <1>1 DEF books, Consistent, TypeOK, RowsAgree, LinksAgree, OperationsAgree, CountedOnce,
                Unique, Owns
<1>2. CASE Next
    BY <1>2, SetCategoryKeeps, DropCategoryKeeps, SetGroupCategoryKeeps, DropGroupCategoriesKeeps,
       FoundCategoriesKeeps, RelinkKeeps, SetOperationKeeps, DropOperationKeeps DEF Next
<1> QED
    BY <1>1, <1>2

(* In every reachable state of the tables the rows are well typed and agree:
   whatever the handlers write, in whatever order, no link or operation
   refers to a missing row or to a row of another account, and no operation
   counts twice in a group. *)
THEOREM ConsistentAlways == Spec => []Consistent
<1>1. Init => Consistent
    BY DEF Init, Consistent
<1>2. Consistent /\ [Next]_books => Consistent'
    BY NextKeeps
<1> QED
    BY <1>1, <1>2, PTL DEF Spec

(* Links, categories and operations refer to existing rows of one account,
   and nothing is counted twice in a group, in every reachable state. *)
THEOREM RowsAgreeAlways == Spec => []RowsAgree
<1>1. Consistent => RowsAgree
    BY DEF Consistent
<1> QED
    BY <1>1, ConsistentAlways, PTL
=============================================================================
