---------------------------- MODULE LedgerProofs ----------------------------
(***************************************************************************)
(* Theorems about Ledger, for every set of accounts, groups, categories    *)
(* and requests, and every state of the tables to start from: Ledger       *)
(* implements Books, and the properties that its runs check.               *)
(***************************************************************************)
EXTENDS Ledger, FiniteSetTheorems, TLAPS

\* The row c is, if it is there, u's: an id is given to a row once, and a row
\* keeps its owner, so what a handler checked holds of every later state.
Mine(u, c)  == c \in Category \ unused /\ (category[c] # None => category[c].user = u)
Ours(g, k)  == k \in GroupCategory \ unused /\ (gcat[k] # None => gcat[k].group = g)
OwnOp(u, o) == /\ o \in Operation /\ (operation[o] # None => operation[o].user = u)
               /\ o \in Request => pc[o] = "done"

WriteOps == {"createOperation", "updateOperation"}
GroupOps == {"createGroup", "renameGroup", "removeGroup", "addGroupCategory", "updateGroupCategory",
             "deleteGroupCategory", "connect", "kick"}
NameOps  == {"createCategory", "updateCategory", "addGroupCategory", "updateGroupCategory"}

\* What connect was asked to link, and what createGroup read, to be copied.
ToOK(u, g, to) == /\ \A k \in DOMAIN to : Ours(g, k)
                  /\ \A k \in Linked(to) : Mine(u, to[k])
                  /\ \A k, j \in Linked(to) : to[k] = to[j] => k = j
PlanOK(u, p)   == \A c \in DOMAIN p : /\ Mine(u, c) /\ p[c].user = u
                                      /\ \A d \in DOMAIN p : p[c] = p[d] => c = d

\* What a request knows, whatever became of the rows it checked.
Shape(r) ==
    LET a == req[r]
    IN  /\ pc[r] = "unsent" => a.op = None
        /\ pc[r] \in {"create_read", "create_init"} => a.op = "createGroup"
        /\ pc[r] = "write" => a.op \in OpKinds \ {"createGroup", "deleteOperation"}
        /\ a.op # None => a.user \in User
        /\ a.op \in NameOps => a.name \in Name
        /\ a.op \in NameOps \cup WriteOps => a.type \in B!Type
        /\ a.op \in {"updateCategory", "deleteCategory"} => Mine(a.user, a.id)
        /\ a.op \in WriteOps => Mine(a.user, a.cat)
        /\ a.op = "updateOperation" => OwnOp(a.user, a.id)
        /\ a.op \in GroupOps => a.group \in Group \ unused
        /\ a.op \in {"updateGroupCategory", "deleteGroupCategory"} => Ours(a.group, a.id)
        /\ a.op = "kick" => a.member \in User
        /\ a.op = "connect" => ToOK(a.user, a.group, a.to)
        /\ pc[r] = "create_init" => PlanOK(a.user, plan[r])

ShapeOK   == \A r \in Request : Shape(r)
BeforeOK  == \A r \in Request : \A q \in before[r] : Answered(q)
HistoryOK ==
    /\ \A o \in Request : operation[o] # None => pc[o] = "done"
    /\ \A o \in Operation : opBy[o] # None => pc[opBy[o]] = "done"
    /\ \A i \in GroupCategory \X User : linkBy[i] # None => pc[linkBy[i]] = "done"

Basic == TypeOK /\ B!RowsAgree /\ ShapeOK /\ BeforeOK /\ HistoryOK

\* A request that has yet to write checked that types agree: if they do not, the
\* category was retyped since.
TypesChecked == \A r \in Request :
    /\ pc[r] = "write" /\ req[r].op \in WriteOps =>
           LET c == req[r].cat
           IN  category[c] # None /\ category[c].type # req[r].type
                   => Retyped(c, r, category[c].type)
    /\ pc[r] = "write" /\ req[r].op = "connect" =>
           \A k \in Linked(req[r].to) :
               LET c == req[r].to[k]
               IN  category[c] # None /\ gcat[k] # None /\ category[c].type # gcat[k].type
                       => Retyped(c, r, category[c].type) \/ Retyped(k, r, gcat[k].type)
    /\ pc[r] = "create_init" =>
           \A c \in DOMAIN plan[r] :
               category[c] # None /\ category[c].type # plan[r][c].type
                   => Retyped(c, r, category[c].type)

\* Nothing stands in the way of r ...
Meets(r) == \E q \in Request : Overlap(q, r)
Clear(r) ==
    LET a == req[r]
    IN  /\ a.op \in WriteOps => category[a.cat] # None
        /\ a.op \in {"createGroup", "renameGroup", "removeGroup"} => creator[a.group] # None
        /\ a.op = "createGroup" => \A k \in GroupCategory : ~Shares(k, a.group)
        /\ pc[r] = "create_init" => \A c \in DOMAIN plan[r] : category[c] # None
        /\ a.op = "deleteGroupCategory" => gcat[a.id] # None
        /\ a.op = "connect" =>
               \A k \in Linked(a.to) : gcat[k] # None /\ category[a.to[k]] # None

\* ... unless another request ran meanwhile.
RunsClear == \A r \in Request : pc[r] \in Running => Meets(r) \/ Clear(r)

\* What was copied for r is still there: each category read has one of its own.
Filled == \A r \in Request :
    pc[r] = "done" /\ req[r].op = "createGroup" /\ creator[req[r].group] # None
        => \/ Injection(DOMAIN plan[r], CategoriesOf(req[r].group)) # {}
           \/ \E q \in Request : pc[q] = "done" /\ req[q].op = "deleteGroupCategory"
                                /\ req[q].group = req[r].group
-----------------------------------------------------------------------------
\* BooksProofs speaks of the same tables.
BP == INSTANCE BooksProofs

BooksStep == [B!Next]_(B!books)

LEMMA SameRows ==
    BP!PersonalRow = B!PersonalRow /\ BP!SharedRow = B!SharedRow /\ BP!OperationRow = B!OperationRow
BY DEF BP!PersonalRow, B!PersonalRow, BP!SharedRow, B!SharedRow, BP!OperationRow, B!OperationRow,
       BP!Type, B!Type

LEMMA SameTables ==
    /\ BP!Consistent <=> B!TypeOK /\ B!RowsAgree
    /\ BP!Consistent' <=> B!TypeOK' /\ B!RowsAgree'
BY SameRows DEF BP!Consistent, BP!TypeOK, B!TypeOK, BP!RowsAgree, B!RowsAgree, BP!LinksAgree,
    B!LinksAgree, BP!OperationsAgree, B!OperationsAgree, BP!CountedOnce, B!CountedOnce, BP!Unique,
    B!Unique, BP!Owns, B!Owns

LEMMA SamePersonalSteps ==
    ASSUME NEW x, NEW y
    PROVE  /\ BP!SetCategory(x, y) <=> B!SetCategory(x, y)
           /\ BP!DropCategory(x) <=> B!DropCategory(x)
           /\ BP!SetOperation(x, y) <=> B!SetOperation(x, y)
           /\ BP!DropOperation(x) <=> B!DropOperation(x)
BY DEF BP!SetCategory, B!SetCategory, BP!DropCategory, B!DropCategory, BP!SetOperation,
    B!SetOperation, BP!DropOperation, B!DropOperation, BP!Unique, B!Unique, BP!Owns, B!Owns

LEMMA SameGroupSteps ==
    ASSUME NEW x, NEW y
    PROVE  /\ BP!SetGroupCategory(x, y) <=> B!SetGroupCategory(x, y)
           /\ BP!DropGroupCategories(x) <=> B!DropGroupCategories(x)
           /\ BP!Relink(x, y) <=> B!Relink(x, y)
<1>1. BP!Relink(x, y) <=> B!Relink(x, y)
    BY DEF BP!Relink, B!Relink, BP!LinksAgree, B!LinksAgree, BP!CountedOnce, B!CountedOnce,
           BP!Owns, B!Owns
<1> QED
    BY <1>1 DEF BP!SetGroupCategory, B!SetGroupCategory, BP!DropGroupCategories,
        B!DropGroupCategories, BP!Unique, B!Unique

LEMMA SameFoundation ==
    ASSUME NEW u, NEW g, NEW new, NEW f
    PROVE  BP!FoundCategories(u, g, new, f) <=> B!FoundCategories(u, g, new, f)
<1>1. BP!CountedOnce' <=> B!CountedOnce'
    BY DEF BP!CountedOnce, B!CountedOnce
<1>2. BP!Unique(gcat') <=> B!Unique(gcat')
    BY DEF BP!Unique, B!Unique
<1>3. \A c : BP!Owns(u, c) <=> B!Owns(u, c)
    BY DEF BP!Owns, B!Owns
<1>4. BP!Injection(new, {c \in Category : BP!Owns(u, c)})
          = B!Injection(new, {c \in Category : B!Owns(u, c)})
    BY <1>3 DEF BP!Injection, B!Injection, BP!IsInjective, B!IsInjective
<1> QED
    BY <1>1, <1>2, <1>4, SameRows DEF BP!FoundCategories, B!FoundCategories

LEMMA BooksKeep ==
    ASSUME B!TypeOK, B!RowsAgree, BooksStep
    PROVE  B!TypeOK' /\ B!RowsAgree'
<1>1. None \notin Category \cup BP!PersonalRow \cup BP!SharedRow \cup BP!OperationRow
    BY SameRows, NoneAssumption, RowAssumption
<1>2. BP!Next <=> B!Next
    BY SamePersonalSteps, SameGroupSteps, SameFoundation, SameRows DEF BP!Next, B!Next
<1>3. [BP!Next]_(BP!books)
    BY <1>2 DEF BooksStep, BP!books, B!books
<1>4. BP!Consistent'
    BY <1>1, <1>3, SameTables, BP!NextKeeps
<1> QED
    BY <1>4, SameTables
-----------------------------------------------------------------------------
\* A step of r, as the requests see it: r arrives at its handler, or goes on.
RequestsTyped ==
    /\ req \in [Request -> Call]
    /\ pc \in [Request -> {"unsent"} \cup Running \cup Outcome]
    /\ plan \in [Request -> UNION {[C -> B!PersonalRow] : C \in SUBSET Category}]
    /\ before \in [Request -> SUBSET Request]
Moves(r) == \A q \in Request \ {r} :
    pc'[q] = pc[q] /\ req'[q] = req[q] /\ plan'[q] = plan[q] /\ before'[q] = before[q]
Arrives(r) ==
    /\ pc[r] = "unsent" /\ pc'[r] \in {"write", "create_read", "done", "rejected"}
    /\ before'[r] = {q \in Request : Answered(q)} /\ plan'[r] = plan[r]
Continues(r) ==
    /\ pc[r] \in Running /\ pc'[r] \in Outcome \cup {"create_init"}
    /\ req'[r] = req[r] /\ before'[r] = before[r]

\* What it does to the rows: an id is given once, an owner stays.
HistoryTyped == /\ opBy \in [Operation -> Request \cup {None}]
                /\ linkBy \in [GroupCategory \X User -> Request \cup {None}]
TablesTyped  == GroupsOK /\ UnusedOK /\ HistoryTyped

Commits(r) == pc[r] \in {"write", "create_init"} /\ pc'[r] = "done"
Owners(r) ==
    /\ unused' \subseteq unused
    /\ \A c \in Category \ unused :
           category'[c] # None => category[c] # None /\ category'[c].user = category[c].user
    /\ \A k \in GroupCategory \ unused :
           gcat'[k] # None => gcat[k] # None /\ gcat'[k].group = gcat[k].group
    /\ \A g \in Group \ unused : creator'[g] # None => creator'[g] = creator[g]
    /\ \A o \in Operation : operation'[o] # None =>
           \/ operation[o] # None /\ operation'[o].user = operation[o].user
           \/ o = r /\ Commits(r)
    /\ \A o \in Operation : opBy'[o] # opBy[o] => opBy'[o] = r /\ Commits(r)
    /\ \A i \in GroupCategory \X User : linkBy'[i] # linkBy[i] => linkBy'[i] = r /\ Commits(r)

\* What it does to types: those of a category change by an update, and what is
\* written, or linked, has the type that the request was sent with, or read.
Draws(r, i) ==
    \/ /\ req[r].op = "connect" /\ pc[r] = "write" /\ gcat' = gcat
       /\ i[1] \in Linked(req[r].to) /\ link'[i] = req[r].to[i[1]]
    \/ /\ pc[r] = "create_init" /\ link'[i] \in DOMAIN plan[r]
       /\ gcat'[i[1]].type = plan[r][link'[i]].type
Types(r) ==
    /\ \A c \in Category \ unused :
           category'[c] # None /\ category'[c].type # category[c].type
               => /\ Commits(r) /\ req[r].op = "updateCategory" /\ req[r].id = c
                  /\ category'[c].type = req[r].type
    /\ \A k \in GroupCategory \ unused :
           gcat'[k] # None /\ gcat'[k].type # gcat[k].type
               => /\ Commits(r) /\ req[r].op = "updateGroupCategory" /\ req[r].id = k
                  /\ gcat'[k].type = req[r].type
    /\ \A o \in Operation : operation'[o] # None =>
           \/ operation'[o] = operation[o] /\ opBy'[o] = opBy[o]
           \/ /\ Commits(r) /\ pc[r] = "write" /\ req[r].op \in WriteOps /\ opBy'[o] = r
              /\ operation'[o].cat = req[r].cat /\ operation'[o].type = req[r].type
              /\ category' = category /\ category[req[r].cat] # None
    /\ \A i \in GroupCategory \X User : link'[i] # None =>
           \/ link'[i] = link[i] /\ linkBy'[i] = linkBy[i]
           \/ /\ Commits(r) /\ Draws(r, i) /\ linkBy'[i] = r
              /\ category' = category /\ category[link'[i]] # None /\ gcat'[i[1]] # None

\* What it takes away.
Takes(r) ==
    \A k \in GroupCategory : gcat[k] # None /\ gcat'[k] = None =>
        \/ Commits(r) /\ req[r].op = "deleteGroupCategory" /\ req[r].id = k
        \/ creator'[gcat[k].group] = None

Does(r) == /\ RequestsTyped' /\ Moves(r) /\ (Arrives(r) \/ Continues(r))
           /\ BooksStep /\ TablesTyped' /\ Owners(r) /\ Types(r) /\ Takes(r)

\* Request r is sent with a call, and goes on to next.
Sent(r, call, next) ==
    /\ pc[r] = "unsent"
    /\ req' = [req EXCEPT ![r] = call]
    /\ pc' = [pc EXCEPT ![r] = next]
    /\ before' = [before EXCEPT ![r] = {q \in Request : Answered(q)}]
    /\ UNCHANGED plan

LEMMA TypeOKParts == TypeOK <=> B!TypeOK /\ TablesTyped /\ RequestsTyped
BY DEF TypeOK, TablesTyped, HistoryTyped, RequestsTyped

LEMMA TypeOKPartsNext == TypeOK' <=> B!TypeOK' /\ TablesTyped' /\ RequestsTyped'
BY DEF TypeOK, TablesTyped, HistoryTyped, RequestsTyped

LEMMA SentFlows ==
    ASSUME RequestsTyped, NEW r \in Request, NEW call \in Call,
           NEW next \in {"write", "create_read", "done", "rejected"}, Sent(r, call, next)
    PROVE  RequestsTyped' /\ Moves(r) /\ Arrives(r) /\ req'[r] = call /\ pc'[r] = next
<1> USE DEF Sent, RequestsTyped
<1>1. RequestsTyped'
    BY DEF Running, Outcome
<1> QED
    BY <1>1 DEF Moves, Arrives

LEMMA StepFlows ==
    ASSUME RequestsTyped, NEW r \in Request, NEW op, NEW from \in Running,
           NEW next \in Outcome \cup {"create_init"}, Step(r, op, from, next),
           plan' \in [Request -> UNION {[C -> B!PersonalRow] : C \in SUBSET Category}],
           \A q \in Request \ {r} : plan'[q] = plan[q]
    PROVE  /\ RequestsTyped' /\ Moves(r) /\ Continues(r)
           /\ pc[r] = from /\ pc'[r] = next /\ req[r].op = op /\ req' = req
<1> USE DEF Step, RequestsTyped
<1>1. RequestsTyped'
    BY DEF Running, Outcome
<1> QED
    BY <1>1 DEF Moves, Continues

LEMMA WritesFlows ==
    ASSUME RequestsTyped, NEW r \in Request, NEW op, Writes(r, op)
    PROVE  /\ RequestsTyped' /\ Moves(r) /\ Continues(r) /\ Commits(r)
           /\ pc[r] = "write" /\ pc'[r] = "done" /\ req[r].op = op /\ req' = req
<1>1. Step(r, op, "write", "done") /\ plan' = plan
    BY DEF Writes
<1>2. "write" \in Running /\ "done" \in Outcome \cup {"create_init"}
    BY DEF Running, Outcome
<1> QED
    BY <1>1, <1>2, StepFlows DEF RequestsTyped, Commits

LEMMA RefusedFlows ==
    ASSUME RequestsTyped, NEW r \in Request, NEW op, NEW outcome \in Outcome,
           Refused(r, op, outcome)
    PROVE  /\ RequestsTyped' /\ Moves(r) /\ Continues(r)
           /\ pc[r] = "write" /\ pc'[r] = outcome /\ req[r].op = op /\ req' = req
<1>1. Step(r, op, "write", outcome) /\ plan' = plan
    BY DEF Refused
<1>2. "write" \in Running
    BY DEF Running
<1> QED
    BY <1>1, <1>2, StepFlows DEF RequestsTyped

LEMMA RowsAreNotNone ==
    /\ \A row \in B!PersonalRow \cup B!SharedRow \cup B!OperationRow : row # None
    /\ \A x \in User \cup Group \cup Category \cup GroupCategory \cup Name \cup Request \cup OpKinds :
           x # None
BY NoneAssumption, RowAssumption

\* A step that leaves the tables alone does nothing to them.
LEMMA TablesStay ==
    ASSUME TypeOK, NEW r \in Request, UNCHANGED tables
    PROVE  BooksStep /\ TablesTyped' /\ Owners(r) /\ Types(r) /\ Takes(r)
<1>1. TablesTyped'
    BY TypeOKParts DEF tables, TablesTyped, GroupsOK, UnusedOK, HistoryTyped
<1>2. BooksStep
    BY DEF tables, BooksStep, B!books
<1>3. /\ category' = category /\ gcat' = gcat /\ link' = link /\ operation' = operation
      /\ creator' = creator /\ unused' = unused /\ opBy' = opBy /\ linkBy' = linkBy
    BY DEF tables
<1>4. Owners(r) /\ Takes(r)
    BY ONLY <1>3 DEF Owners, Takes
<1>5. Types(r)
    BY ONLY <1>3 DEF Types
<1> QED
    BY <1>1, <1>2, <1>4, <1>5
-----------------------------------------------------------------------------
LEMMA RefusedDoes ==
    ASSUME Basic, NEW r \in Request, NEW op, NEW outcome \in Outcome, Refused(r, op, outcome)
    PROVE  Does(r)
<1>1. TypeOK /\ RequestsTyped /\ UNCHANGED tables
    BY TypeOKParts DEF Basic, Refused
<1> QED
    BY <1>1, TablesStay, RefusedFlows DEF Does

LEMMA NamedIsRow ==
    ASSUME NEW u \in User, NEW n \in Name, NEW t \in B!Type
    PROVE  Named(u, n, t) \in B!PersonalRow /\ Named(u, n, t).user = u /\ Named(u, n, t).type = t
BY LowerAssumption DEF Named, B!PersonalRow

\* A table stays unique when a row that no other id holds is written to it.
LEMMA SetUnique ==
    ASSUME NEW S, NEW table, DOMAIN table = S, NEW x \in S, NEW row,
           B!Unique(table), ~Held(table, row, x)
    PROVE  B!Unique([table EXCEPT ![x] = row])
BY DEF B!Unique, Held

LEMMA NewUnique ==
    ASSUME NEW S, None \notin S, NEW table, DOMAIN table = S, NEW x \in S, NEW row,
           B!Unique(table), ~Held(table, row, None)
    PROVE  B!Unique([table EXCEPT ![x] = row])
BY DEF B!Unique, Held

LEMMA CreateCategoryWriteDoes ==
    ASSUME Basic, NEW r \in Request, CreateCategoryWrite(r)
    PROVE  Does(r)
<1> DEFINE row == Named(req[r].user, req[r].name, req[r].type)
<1>1. CASE Refused(r, "createCategory", "conflict")
    BY <1>1, RefusedDoes DEF Outcome
<1>2. CASE ~Refused(r, "createCategory", "conflict")
  <2>1. PICK c \in Category \cap unused :
            /\ Writes(r, "createCategory") /\ ~Held(category, row, None)
            /\ category' = [category EXCEPT ![c] = row] /\ unused' = unused \ {c}
            /\ UNCHANGED <<gcat, link, operation, creator, members, opBy, linkBy>>
      BY <1>2 DEF CreateCategoryWrite
  <2>2. /\ RequestsTyped' /\ Moves(r) /\ Continues(r) /\ Commits(r)
        /\ pc[r] = "write" /\ req[r].op = "createCategory" /\ req' = req
      BY <2>1, WritesFlows, TypeOKParts DEF Basic
  <2>3. row \in B!PersonalRow
    <3>1. req[r].user \in User /\ req[r].name \in Name /\ req[r].type \in B!Type
        BY <2>2, RowsAreNotNone DEF Basic, ShapeOK, Shape, NameOps, OpKinds
    <3> QED
        BY <3>1, NamedIsRow
  <2>4. B!TypeOK /\ TablesTyped /\ category[c] = None /\ row # None
      BY <2>1, <2>3, TypeOKParts, RowsAreNotNone DEF Basic, TablesTyped, UnusedOK
  <2> HIDE DEF row
  <2>5. B!SetCategory(c, row)
    <3>1. B!Unique([category EXCEPT ![c] = row])
        BY <2>1, <2>4, NewUnique, NoneAssumption DEF Basic, B!TypeOK, B!RowsAgree
    <3> QED
        BY <2>1, <2>4, <3>1 DEF B!SetCategory
  <2>6. BooksStep
      BY <2>3, <2>5 DEF BooksStep, B!Next
  <2>7. TablesTyped'
    <3>1. c \notin GroupCategory \cup Group
        BY IdsAssumption
    <3>2. GroupsOK' /\ HistoryTyped'
        BY <2>1, <2>4 DEF TablesTyped, GroupsOK, HistoryTyped
    <3>3. UnusedOK'
        BY <2>1, <2>4 DEF TablesTyped, UnusedOK, B!TypeOK
    <3> QED
        BY <3>2, <3>3 DEF TablesTyped
  <2>8. Owners(r) /\ Types(r) /\ Takes(r)
    <3>1. \A d \in Category \ unused : category'[d] = category[d]
        BY <2>1, <2>4 DEF B!TypeOK
    <3>2. Owners(r) /\ Takes(r)
        BY <2>1, <3>1 DEF Owners, Takes
    <3>3. Types(r)
        BY <2>1, <3>1 DEF Types
    <3> QED
        BY <3>2, <3>3
  <2> QED
      BY ONLY <2>2, <2>6, <2>7, <2>8 DEF Does
<1> QED
    BY <1>1, <1>2

LEMMA UpdateCategoryWriteDoes ==
    ASSUME Basic, NEW r \in Request, UpdateCategoryWrite(r)
    PROVE  Does(r)
<1> DEFINE c == req[r].id
           row == Named(req[r].user, req[r].name, req[r].type)
<1>1. CASE Refused(r, "updateCategory", "conflict") \/ Refused(r, "updateCategory", "rejected")
    BY <1>1, RefusedDoes DEF Outcome
<1>2. CASE /\ Writes(r, "updateCategory") /\ category[c] # None /\ ~Held(category, row, c)
           /\ category' = [category EXCEPT ![c] = row]
           /\ UNCHANGED <<gcat, link, operation, creator, members, unused, opBy, linkBy>>
  <2>2. /\ RequestsTyped' /\ Moves(r) /\ Continues(r) /\ Commits(r)
        /\ pc[r] = "write" /\ req[r].op = "updateCategory" /\ req' = req
      BY <1>2, WritesFlows, TypeOKParts DEF Basic
  <2>3. /\ row \in B!PersonalRow /\ row.user = req[r].user /\ Mine(req[r].user, c)
        /\ row.type = req[r].type
    <3>1. /\ req[r].user \in User /\ req[r].name \in Name /\ req[r].type \in B!Type
          /\ Mine(req[r].user, c)
        BY <2>2, RowsAreNotNone DEF Basic, ShapeOK, Shape, NameOps, OpKinds
    <3> QED
        BY <3>1, NamedIsRow DEF Named
  <2>4. B!TypeOK /\ TablesTyped /\ row # None
      BY <2>3, TypeOKParts, RowsAreNotNone DEF Basic
  <2> HIDE DEF c, row
  <2>5. B!SetCategory(c, row)
    <3>1. B!Unique([category EXCEPT ![c] = row])
        BY <1>2, <2>3, <2>4, SetUnique DEF Basic, B!TypeOK, B!RowsAgree, Mine
    <3> QED
        BY <1>2, <2>3, <3>1 DEF B!SetCategory, Mine
  <2>6. BooksStep
      BY <2>3, <2>5 DEF BooksStep, B!Next, Mine
  <2>7. TablesTyped'
      BY <1>2, <2>3, <2>4 DEF TablesTyped, GroupsOK, UnusedOK, HistoryTyped, B!TypeOK, Mine
  <2>8. Owners(r) /\ Types(r) /\ Takes(r)
    <3>1. /\ \A d \in Category : category'[d] # category[d] => d = c
          /\ category'[c] = row
        BY <1>2, <2>3, <2>4 DEF B!TypeOK, Mine
    <3>2. Owners(r) /\ Takes(r)
        BY <1>2, <2>3, <3>1 DEF Owners, Takes, Mine
    <3>3. Types(r)
        BY <1>2, <2>2, <2>3, <3>1 DEF Types, c
    <3> QED
        BY <3>2, <3>3
  <2> QED
      BY ONLY <2>2, <2>6, <2>7, <2>8 DEF Does
<1> QED
    BY <1>1, <1>2 DEF UpdateCategoryWrite

\* Links go, and no other link is touched.
Unlinks == /\ link' \in [GroupCategory \X User -> Category \cup {None}]
           /\ \A i \in GroupCategory \X User : link'[i] # None => link'[i] = link[i]

LEMMA UnlinkedUnlinks ==
    ASSUME B!TypeOK, NEW I, link' = Unlinked(I)
    PROVE  Unlinks
BY DEF B!TypeOK, Unlinked, Unlinks

LEMMA DeleteCategoryWriteDoes ==
    ASSUME Basic, NEW r \in Request, DeleteCategoryWrite(r)
    PROVE  Does(r)
<1> DEFINE c == req[r].id
<1>1. CASE Refused(r, "deleteCategory", "failed")
    BY <1>1, RefusedDoes DEF Outcome
<1>2. CASE /\ Writes(r, "deleteCategory") /\ category[c] # None /\ ~InUse(c)
           /\ category' = [category EXCEPT ![c] = None]
           /\ link' = Unlinked(LinksTo({c}))
           /\ UNCHANGED <<gcat, operation, creator, members, unused, opBy, linkBy>>
  <2>2. /\ RequestsTyped' /\ Moves(r) /\ Continues(r) /\ Commits(r)
        /\ pc[r] = "write" /\ req[r].op = "deleteCategory" /\ req' = req
      BY <1>2, WritesFlows, TypeOKParts DEF Basic
  <2>3. c \in Category \ unused
      BY <2>2, RowsAreNotNone DEF Basic, ShapeOK, Shape, Mine
  <2>4. B!TypeOK /\ TablesTyped
      BY TypeOKParts DEF Basic
  <2> HIDE DEF c
  <2>5. B!DropCategory(c)
      BY <1>2 DEF B!DropCategory, InUse, Unlinked, LinksTo
  <2>6. BooksStep
      BY <2>3, <2>5 DEF BooksStep, B!Next
  <2>7. TablesTyped'
      BY <1>2, <2>3, <2>4 DEF TablesTyped, GroupsOK, UnusedOK, HistoryTyped, B!TypeOK
  <2>8. Owners(r) /\ Types(r) /\ Takes(r)
    <3>1. \A d \in Category : category'[d] # None => category'[d] = category[d]
        BY <1>2, <2>3, <2>4 DEF B!TypeOK
    <3>2. Owners(r) /\ Takes(r)
        BY <1>2, <3>1 DEF Owners, Takes
    <3>3. Unlinks
        BY <1>2, <2>4, UnlinkedUnlinks
    <3>4. Types(r)
        BY <1>2, <3>1, <3>3 DEF Types, Unlinks
    <3> QED
        BY <3>2, <3>4
  <2> QED
      BY ONLY <2>2, <2>6, <2>7, <2>8 DEF Does
<1> QED
    BY <1>1, <1>2 DEF DeleteCategoryWrite

LEMMA WriteOperationDoes ==
    ASSUME Basic, NEW r \in Request, WriteOperation(r)
    PROVE  Does(r)
<1> PICK op \in WriteOps :
        LET o == IF op = "createOperation" THEN r ELSE req[r].id
            there == op = "createOperation" \/ operation[o] # None
        IN  \/ /\ Writes(r, op)
               /\ there /\ category[req[r].cat] # None
               /\ operation' = [operation EXCEPT ![o] =
                     [user |-> req[r].user, cat |-> req[r].cat, type |-> req[r].type]]
               /\ opBy' = [opBy EXCEPT ![o] = r]
               /\ UNCHANGED <<category, gcat, link, creator, members, unused, linkBy>>
            \/ Refused(r, op, "rejected") \/ Refused(r, op, "failed")
    BY DEF WriteOperation, WriteOps
<1> DEFINE o == IF op = "createOperation" THEN r ELSE req[r].id
           row == [user |-> req[r].user, cat |-> req[r].cat, type |-> req[r].type]
<1>1. CASE Refused(r, op, "rejected") \/ Refused(r, op, "failed")
    BY <1>1, RefusedDoes DEF Outcome
<1>2. CASE /\ Writes(r, op) /\ category[req[r].cat] # None
           /\ op = "createOperation" \/ operation[o] # None
           /\ operation' = [operation EXCEPT ![o] = row]
           /\ opBy' = [opBy EXCEPT ![o] = r]
           /\ UNCHANGED <<category, gcat, link, creator, members, unused, linkBy>>
  <2>2. /\ RequestsTyped' /\ Moves(r) /\ Continues(r) /\ Commits(r)
        /\ pc[r] = "write" /\ req[r].op = op /\ req' = req
      BY <1>2, WritesFlows, TypeOKParts DEF Basic
  <2>3. /\ req[r].user \in User /\ req[r].type \in B!Type /\ Mine(req[r].user, req[r].cat)
        /\ op = "updateOperation" => OwnOp(req[r].user, req[r].id)
      BY <2>2, RowsAreNotNone DEF Basic, ShapeOK, Shape, WriteOps, OpKinds
  <2>4. B!TypeOK /\ TablesTyped /\ row \in B!OperationRow /\ row # None
    <3>1. row \in B!OperationRow
        BY <2>3 DEF B!OperationRow, Mine
    <3> QED
        BY <3>1, TypeOKParts, RowsAreNotNone DEF Basic
  <2>5. o \in Operation /\ (operation[o] # None => operation[o].user = req[r].user)
    <3>1. operation[r] = None
        BY <2>2 DEF Basic, HistoryOK
    <3> QED
        BY <2>3, <3>1 DEF OwnOp, WriteOps, Operation
  <2>6. row.user = req[r].user /\ row.cat = req[r].cat /\ row.type = req[r].type
      OBVIOUS
  <2> HIDE DEF o, row
  <2>7. BooksStep
    <3>1. B!SetOperation(o, row)
        BY <1>2, <2>3, <2>5, <2>6 DEF B!SetOperation, B!Owns, Mine
    <3> QED
        BY <2>4, <2>5, <3>1 DEF BooksStep, B!Next
  <2>8. TablesTyped'
      BY <1>2, <2>4 DEF TablesTyped, GroupsOK, UnusedOK, HistoryTyped
  <2>9. Owners(r) /\ Types(r) /\ Takes(r)
    <3>1. /\ \A x \in Operation : x # o => operation'[x] = operation[x] /\ opBy'[x] = opBy[x]
          /\ operation'[o] = row /\ opBy'[o] = r
        BY <1>2, <2>4, <2>5 DEF B!TypeOK, TablesTyped, HistoryTyped
    <3>2. operation[o] = None => o = r
        BY <1>2 DEF WriteOps, o
    <3>3. Owners(r)
        BY <1>2, <2>2, <2>5, <2>6, <3>1, <3>2 DEF Owners
    <3>4. Takes(r)
        BY <1>2 DEF Takes
    <3>5. Types(r)
        BY <1>2, <2>2, <2>6, <3>1 DEF Types
    <3> QED
        BY <3>3, <3>4, <3>5
  <2> QED
      BY ONLY <2>2, <2>7, <2>8, <2>9 DEF Does
<1> QED
    BY <1>1, <1>2

LEMMA NoPairs == [k \in {} |-> None] \in Payload
<1>1. [k \in {} |-> None] \in [{} -> Category \cup {None}]
    OBVIOUS
<1> QED
    BY <1>1 DEF Payload

LEMMA DeleteOperationDoes ==
    ASSUME Basic, NEW r \in Request, pc[r] = "unsent", NEW u \in User, NEW o \in Operation,
           OwnOperation(u, o), DeleteOperation(r, u, o)
    PROVE  /\ Does(r) /\ Arrives(r) /\ pc'[r] = "done"
           /\ req'[r].op = "deleteOperation" /\ req'[r].user = u
<1> DEFINE call == [Blank EXCEPT !.op = "deleteOperation", !.user = u, !.id = o]
<1>1. /\ Sent(r, call, "done")
      /\ operation' = [operation EXCEPT ![o] = None]
      /\ UNCHANGED <<category, gcat, link, creator, members, unused, opBy, linkBy>>
    BY DEF DeleteOperation, Check, Ask, Sent
<1>2. call \in Call /\ call.op = "deleteOperation" /\ call.user = u
    BY NoPairs DEF Blank, Call, OpKinds
<1> HIDE DEF call
<1>3. RequestsTyped' /\ Moves(r) /\ Arrives(r) /\ req'[r] = call /\ pc'[r] = "done"
    BY <1>1, <1>2, SentFlows, TypeOKParts DEF Basic
<1>4. B!TypeOK /\ TablesTyped
    BY TypeOKParts DEF Basic
<1>5. BooksStep
    BY <1>1 DEF BooksStep, B!Next, B!DropOperation
<1>6. TablesTyped'
    BY <1>1, <1>4 DEF TablesTyped, GroupsOK, UnusedOK, HistoryTyped
<1>7. Owners(r) /\ Types(r) /\ Takes(r)
  <2>1. \A x \in Operation : operation'[x] # None => operation'[x] = operation[x]
      BY <1>1, <1>4 DEF B!TypeOK
  <2> QED
      BY <1>1, <2>1 DEF Owners, Types, Takes
<1> QED
    BY <1>2, <1>3, <1>5, <1>6, <1>7 DEF Does

LEMMA CreateGroupDoes ==
    ASSUME Basic, NEW r \in Request, pc[r] = "unsent", NEW u \in User, CreateGroup(r, u)
    PROVE  \E g \in Group \cap unused :
               /\ Does(r) /\ pc'[r] = "create_read" /\ g \notin unused' /\ creator'[g] = u
               /\ req'[r] = [Blank EXCEPT !.op = "createGroup", !.user = u, !.group = g]
               /\ gcat' = gcat
<1> PICK g \in Group \cap unused :
        /\ Ask(r, [Blank EXCEPT !.op = "createGroup", !.user = u, !.group = g], TRUE, "create_read")
        /\ creator' = [creator EXCEPT ![g] = u]
        /\ members' = [members EXCEPT ![g] = {u}]
        /\ unused' = unused \ {g}
        /\ UNCHANGED <<category, gcat, link, operation, opBy, linkBy>>
    BY DEF CreateGroup
<1> DEFINE call == [Blank EXCEPT !.op = "createGroup", !.user = u, !.group = g]
<1>1. Sent(r, call, "create_read")
    BY DEF Ask, Sent
<1>2. call \in Call
    BY NoPairs DEF Blank, Call, OpKinds
<1> HIDE DEF call
<1>3. RequestsTyped' /\ Moves(r) /\ Arrives(r) /\ req'[r] = call /\ pc'[r] = "create_read"
    BY <1>1, <1>2, SentFlows, TypeOKParts DEF Basic
<1>4. B!TypeOK /\ TablesTyped /\ u # None
    BY TypeOKParts, RowsAreNotNone DEF Basic
<1>5. BooksStep
    BY DEF BooksStep, B!books
<1>6. TablesTyped'
  <2>1. g \notin Category \cup GroupCategory
      BY IdsAssumption
  <2>2. GroupsOK' /\ HistoryTyped'
      BY <1>4 DEF TablesTyped, GroupsOK, HistoryTyped, B!TypeOK, B!SharedRow
  <2>3. UnusedOK'
      BY <1>4 DEF TablesTyped, UnusedOK, GroupsOK
  <2> QED
      BY <2>2, <2>3 DEF TablesTyped
<1>7. \A h \in Group : h # g => creator'[h] = creator[h]
    BY <1>4 DEF TablesTyped, GroupsOK
<1>8. Owners(r) /\ Types(r) /\ Takes(r)
    BY <1>7 DEF Owners, Types, Takes
<1>9. creator'[g] = u
    BY <1>4 DEF TablesTyped, GroupsOK
<1> QED
    BY <1>3, <1>5, <1>6, <1>8, <1>9 DEF Does, call

LEMMA CreateGroupReadDoes ==
    ASSUME Basic, NEW r \in Request, CreateGroupRead(r)
    PROVE  /\ Does(r) /\ pc[r] = "create_read" /\ pc'[r] = "create_init" /\ UNCHANGED tables
           /\ req[r].op = "createGroup"
           /\ DOMAIN plan'[r] = {d \in Category : B!Owns(req[r].user, d)}
           /\ \A c \in DOMAIN plan'[r] : plan'[r][c] = category[c]
<1> DEFINE C == {d \in Category : B!Owns(req[r].user, d)}
           p == [c \in C |-> category[c]]
<1>1. RequestsTyped /\ B!TypeOK
    BY TypeOKParts DEF Basic
<1>2. /\ Step(r, "createGroup", "create_read", "create_init")
      /\ plan' = [plan EXCEPT ![r] = p] /\ UNCHANGED tables
    BY DEF CreateGroupRead
<1>3. p \in [C -> B!PersonalRow] /\ C \in SUBSET Category
    BY <1>1 DEF B!TypeOK, B!Owns
<1> HIDE DEF C, p
<1>4. /\ plan' \in [Request -> UNION {[S -> B!PersonalRow] : S \in SUBSET Category}]
      /\ \A q \in Request \ {r} : plan'[q] = plan[q]
      /\ plan'[r] = p
  <2>1. p \in UNION {[S -> B!PersonalRow] : S \in SUBSET Category}
      BY <1>3
  <2> QED
      BY <1>1, <1>2, <2>1 DEF RequestsTyped
<1>5. /\ RequestsTyped' /\ Moves(r) /\ Continues(r)
      /\ pc[r] = "create_read" /\ pc'[r] = "create_init" /\ req[r].op = "createGroup"
    BY <1>1, <1>2, <1>4, StepFlows DEF Running
<1>6. Does(r)
    BY <1>2, <1>5, TablesStay DEF Does, Basic
<1>7. DOMAIN plan'[r] = C /\ \A c \in C : plan'[r][c] = category[c]
    BY <1>4 DEF p
<1> QED
    BY <1>2, <1>5, <1>6, <1>7 DEF C

LEMMA InverseOfInjection ==
    ASSUME NEW C, NEW T, NEW f \in Injection(C, T), NEW new, new = {f[c] : c \in C}
    PROVE  /\ Inverse(f, C, new) \in [new -> C] /\ new \subseteq T
           /\ \A c \in C : Inverse(f, C, new)[f[c]] = c
           /\ \A k, j \in new : Inverse(f, C, new)[k] = Inverse(f, C, new)[j] => k = j
<1>1. f \in [C -> T] /\ \A c, d \in C : f[c] = f[d] => c = d
    BY DEF Injection, IsInjective
<1>2. \A k \in new : /\ Inverse(f, C, new)[k] \in C
                     /\ f[Inverse(f, C, new)[k]] = k
  <2> TAKE k \in new
  <2>1. PICK c \in C : f[c] = k
      OBVIOUS
  <2>2. k \in Range(f)
      BY <1>1, <2>1 DEF Range
  <2>3. Inverse(f, C, new)[k] = CHOOSE s \in C : k \in Range(f) => f[s] = k
      BY DEF Inverse
  <2> QED
      BY <2>1, <2>2, <2>3
<1>3. Inverse(f, C, new) \in [new -> C]
    BY <1>2 DEF Inverse
<1> QED
    BY <1>1, <1>2, <1>3

\* The copies that createGroup makes of the categories it read.
Copy(r, c) == [group |-> req[r].group, name |-> plan[r][c].name, type |-> plan[r][c].type]
Fits(r) ==
    /\ creator[req[r].group] # None
    /\ \A c \in DOMAIN plan[r] :
           /\ category[c] # None /\ ~Held(gcat, Copy(r, c), None)
           /\ \A k \in GroupCategory : Shares(k, req[r].group) => link[<<k, req[r].user>>] # c
Founds(r, new, of) ==
    /\ new \subseteq GroupCategory \cap unused /\ of \in [new -> DOMAIN plan[r]]
    /\ \A c \in DOMAIN plan[r] : \E k \in new : of[k] = c
    /\ \A k, j \in new : of[k] = of[j] => k = j
    /\ gcat' = [k \in GroupCategory |-> IF k \in new THEN Copy(r, of[k]) ELSE gcat[k]]
    /\ LET mine == {i \in DOMAIN link : i[1] \in new /\ i[2] = req[r].user}
       IN  /\ link' = [i \in DOMAIN link |-> IF i \in mine THEN of[i[1]] ELSE link[i]]
           /\ linkBy' = [i \in DOMAIN link |-> IF i \in mine THEN r ELSE linkBy[i]]
    /\ unused' = unused \ new
    /\ UNCHANGED <<category, operation, creator, members, opBy, plan>>

LEMMA InitCases ==
    ASSUME Basic, NEW r \in Request, CreateGroupInit(r)
    PROVE  /\ req[r].op = "createGroup" /\ pc[r] = "create_init"
           /\ \/ /\ Step(r, "createGroup", "create_init", "done") /\ Fits(r)
                 /\ \E new \in SUBSET GroupCategory : \E of : Founds(r, new, of)
              \/ /\ Step(r, "createGroup", "create_init", "failed") /\ ~Fits(r)
                 /\ UNCHANGED <<tables, plan>>
<1> DEFINE u == req[r].user
           g == req[r].group
           C == DOMAIN plan[r]
           copy(c) == [group |-> g, name |-> plan[r][c].name, type |-> plan[r][c].type]
           fits == /\ creator[g] # None
                   /\ \A c \in C :
                          /\ category[c] # None /\ ~Held(gcat, copy(c), None)
                          /\ \A k \in GroupCategory : Shares(k, g) => link[<<k, u>>] # c
<1>1. fits <=> Fits(r)
    BY DEF Fits, Copy
<1>2. CASE ~fits
    BY <1>1, <1>2 DEF CreateGroupInit, InitOutcome, Step
<1>3. CASE fits
  <2>1. PICK f \in Injection(C, GroupCategory \cap unused) :
           LET new == {f[c] : c \in C}
               of == Inverse(f, C, new)
               mine == {i \in DOMAIN link : i[1] \in new /\ i[2] = u}
           IN  /\ gcat' = [k \in GroupCategory |-> IF k \in new THEN copy(of[k]) ELSE gcat[k]]
               /\ link' = [i \in DOMAIN link |-> IF i \in mine THEN of[i[1]] ELSE link[i]]
               /\ linkBy' = [i \in DOMAIN link |-> IF i \in mine THEN r ELSE linkBy[i]]
               /\ unused' = unused \ new
      BY <1>3 DEF CreateGroupInit
  <2> DEFINE new == {f[c] : c \in C}
             of == Inverse(f, C, new)
  <2>2. /\ of \in [new -> C] /\ new \subseteq GroupCategory \cap unused
        /\ \A c \in C : of[f[c]] = c
        /\ \A k, j \in new : of[k] = of[j] => k = j
    <3>1. new = {f[c] : c \in C} /\ f \in Injection(C, GroupCategory \cap unused)
        OBVIOUS
    <3> HIDE DEF C, new
    <3> QED
        BY <3>1, InverseOfInjection
  <2>3. \A c \in C : \E k \in new : of[k] = c
      BY <2>2
  <2>4. UNCHANGED <<category, operation, creator, members, opBy, plan>>
      BY <1>3 DEF CreateGroupInit
  <2>5. Step(r, "createGroup", "create_init", "done")
      BY <1>3 DEF CreateGroupInit, InitOutcome
  <2> HIDE DEF of
  <2>6. Founds(r, new, of)
      BY <2>1, <2>2, <2>3, <2>4 DEF Founds, Copy, of
  <2> QED
      BY <1>1, <1>3, <2>2, <2>5, <2>6 DEF Step
<1> QED
    BY <1>2, <1>3

\* What that makes of the tables, row by row.
Founded(r, new, of) ==
    LET u == req[r].user
        g == req[r].group
    IN  /\ u \in User /\ g \in Group \ unused /\ creator[g] # None
        /\ \A k \in new : /\ k \in unused /\ gcat[k] = None
                          /\ of[k] \in DOMAIN plan[r]
                          /\ gcat'[k] = Copy(r, of[k]) /\ gcat'[k] \in B!SharedRow
                          /\ gcat'[k] # None /\ gcat'[k].group = g
                          /\ gcat'[k].type = plan[r][of[k]].type
        /\ \A k \in GroupCategory \ new : gcat'[k] = gcat[k]
        /\ \A c \in DOMAIN plan[r] : /\ c \in Category /\ B!Owns(u, c)
                                     /\ plan[r][c] \in B!PersonalRow
                                     /\ plan[r][c].user = u
        /\ \A c, d \in DOMAIN plan[r] : plan[r][c] = plan[r][d] => c = d
        /\ \A k \in GroupCategory, v \in User : link'[<<k, v>>] =
               IF k \notin new THEN link[<<k, v>>] ELSE IF v = u THEN of[k] ELSE None
        /\ \A k \in GroupCategory, v \in User : linkBy'[<<k, v>>] =
               IF k \in new /\ v = u THEN r ELSE linkBy[<<k, v>>]

LEMMA FoundsRows ==
    ASSUME Basic, NEW r \in Request, req[r].op = "createGroup", pc[r] = "create_init", Fits(r),
           NEW new \in SUBSET GroupCategory, NEW of, Founds(r, new, of)
    PROVE  Founded(r, new, of)
<1> DEFINE u == req[r].user
           g == req[r].group
<1>1. B!TypeOK /\ UnusedOK /\ RequestsTyped /\ HistoryTyped /\ B!RowsAgree
    BY TypeOKParts DEF Basic, TablesTyped
<1>2. u \in User /\ g \in Group \ unused /\ PlanOK(u, plan[r])
    BY RowsAreNotNone DEF Basic, ShapeOK, Shape, GroupOps, OpKinds
<1>3. PICK S \in SUBSET Category : plan[r] \in [S -> B!PersonalRow]
    BY <1>1 DEF RequestsTyped
<1> HIDE DEF u, g
<1>4. /\ \A c \in DOMAIN plan[r] : /\ c \in Category /\ B!Owns(u, c)
                                   /\ plan[r][c] \in B!PersonalRow /\ plan[r][c].user = u
      /\ \A c, d \in DOMAIN plan[r] : plan[r][c] = plan[r][d] => c = d
      /\ creator[g] # None
    BY <1>2, <1>3 DEF PlanOK, Mine, B!Owns, Fits, g
<1>5. \A k \in new : k \in unused /\ gcat[k] = None /\ of[k] \in DOMAIN plan[r]
    BY <1>1 DEF Founds, UnusedOK
<1>6. /\ \A k \in new : gcat'[k] = Copy(r, of[k])
      /\ \A k \in GroupCategory \ new : gcat'[k] = gcat[k]
    BY DEF Founds
<1>7. \A c \in DOMAIN plan[r] : /\ Copy(r, c) \in B!SharedRow /\ Copy(r, c).group = g
                                /\ Copy(r, c).type = plan[r][c].type
    BY <1>2, <1>4 DEF Copy, B!SharedRow, B!PersonalRow, g
<1>8. \A k \in new : /\ gcat'[k] \in B!SharedRow /\ gcat'[k] # None /\ gcat'[k].group = g
                     /\ gcat'[k].type = plan[r][of[k]].type
    BY <1>5, <1>6, <1>7, RowsAreNotNone
<1>9. DOMAIN link = GroupCategory \X User
    BY <1>1 DEF B!TypeOK
<1>10. \A k \in new, v \in User : link[<<k, v>>] = None
    BY <1>1, <1>5 DEF B!RowsAgree, B!LinksAgree
<1>11. \A k \in GroupCategory, v \in User : /\ <<k, v>> \in GroupCategory \X User
                                            /\ <<k, v>>[1] = k /\ <<k, v>>[2] = v
    OBVIOUS
<1>12. \A k \in GroupCategory, v \in User :
           /\ link'[<<k, v>>] = IF k \in new /\ v = u THEN of[k] ELSE link[<<k, v>>]
           /\ linkBy'[<<k, v>>] = IF k \in new /\ v = u THEN r ELSE linkBy[<<k, v>>]
    BY <1>9, <1>11 DEF Founds, u
<1> QED
    BY <1>2, <1>4, <1>5, <1>6, <1>8, <1>10, <1>12 DEF Founded, u, g

LEMMA FoundsIsFounding ==
    ASSUME Basic, NEW r \in Request, req[r].op = "createGroup", pc[r] = "create_init", Fits(r),
           NEW new \in SUBSET GroupCategory, NEW of, Founds(r, new, of)
    PROVE  of \in [new -> Category] /\ B!FoundCategories(req[r].user, req[r].group, new, of)
<1> DEFINE u == req[r].user
           g == req[r].group
<1>1. B!TypeOK /\ B!RowsAgree
    BY TypeOKParts DEF Basic
<1>2. /\ \A k \in new : /\ gcat[k] = None /\ of[k] \in DOMAIN plan[r]
                        /\ gcat'[k] = Copy(r, of[k]) /\ gcat'[k] \in B!SharedRow
                        /\ gcat'[k] # None /\ gcat'[k].group = g
      /\ \A k \in GroupCategory \ new : gcat'[k] = gcat[k]
      /\ \A c \in DOMAIN plan[r] : /\ c \in Category /\ B!Owns(u, c)
                                   /\ plan[r][c] \in B!PersonalRow /\ plan[r][c].user = u
      /\ \A c, d \in DOMAIN plan[r] : plan[r][c] = plan[r][d] => c = d
      /\ \A k \in GroupCategory, v \in User : link'[<<k, v>>] =
             IF k \notin new THEN link[<<k, v>>] ELSE IF v = u THEN of[k] ELSE None
  <2>1. Founded(r, new, of)
      BY FoundsRows
  <2> QED
      BY <2>1 DEF Founded
<1>3. of \in [new -> DOMAIN plan[r]] /\ \A k, j \in new : of[k] = of[j] => k = j
    BY DEF Founds
<1>4. \A c \in DOMAIN plan[r] :
          /\ ~Held(gcat, Copy(r, c), None)
          /\ \A k \in GroupCategory : Shares(k, g) => link[<<k, u>>] # c
    BY DEF Fits
<1> HIDE DEF u, g
<1>5. of \in B!Injection(new, {c \in Category : B!Owns(u, c)}) /\ of \in [new -> Category]
    BY <1>2, <1>3 DEF B!Injection, B!IsInjective
<1>6. gcat' \in [GroupCategory -> B!SharedRow \cup {None}]
  <2>1. gcat' = [k \in GroupCategory |-> gcat'[k]]
      BY DEF Founds
  <2>2. \A k \in GroupCategory : gcat'[k] \in B!SharedRow \cup {None}
      BY <1>1, <1>2 DEF B!TypeOK
  <2> QED
      BY <2>1, <2>2
<1>7. B!Unique(gcat')
  <2>1. \A k, j \in new : gcat'[k] = gcat'[j] => k = j
    <3>1. \A c, d \in DOMAIN plan[r] : Copy(r, c) = Copy(r, d) => plan[r][c] = plan[r][d]
        BY <1>2 DEF Copy, B!PersonalRow
    <3> QED
        BY <1>2, <1>3, <3>1
  <2>2. \A k \in new, j \in GroupCategory \ new : gcat'[k] # gcat'[j]
    <3>1. \A j \in GroupCategory : j # None /\ j \in DOMAIN gcat
        BY <1>1, RowsAreNotNone DEF B!TypeOK
    <3> QED
        BY <1>2, <1>4, <3>1 DEF Held
  <2>3. \A k, j \in GroupCategory \ new : gcat'[k] # None /\ gcat'[k] = gcat'[j] => k = j
      BY <1>1, <1>2 DEF B!TypeOK, B!RowsAgree, B!Unique
  <2>4. DOMAIN gcat' = GroupCategory
      BY <1>6
  <2> QED
      BY <2>1, <2>2, <2>3, <2>4 DEF B!Unique
<1>8. B!CountedOnce'
  <2> SUFFICES ASSUME NEW k \in GroupCategory, NEW j \in GroupCategory, NEW v \in User,
                      link'[<<k, v>>] # None, link'[<<k, v>>] = link'[<<j, v>>],
                      gcat'[k] # None, gcat'[j] # None, gcat'[k].group = gcat'[j].group
               PROVE  k = j
      BY DEF B!CountedOnce
  <2>1. CASE k \in new /\ j \in new
      BY <1>2, <1>3, <2>1
  <2>2. CASE k \notin new /\ j \notin new
      BY <1>1, <1>2, <2>2 DEF B!RowsAgree, B!CountedOnce
  <2>3. CASE k \in new /\ j \notin new
    <3>1. v = u /\ of[k] = link[<<j, u>>] /\ Shares(j, g)
        BY <1>2, <2>3 DEF Shares
    <3> QED
        BY <1>2, <1>4, <2>3, <3>1
  <2>4. CASE k \notin new /\ j \in new
    <3>1. v = u /\ of[j] = link[<<k, u>>] /\ Shares(k, g)
        BY <1>2, <2>4 DEF Shares
    <3> QED
        BY <1>2, <1>4, <2>4, <3>1
  <2> QED
      BY <2>1, <2>2, <2>3, <2>4
<1>9. link' = [i \in DOMAIN link |-> IF i[1] \notin new THEN link[i]
                                     ELSE IF i[2] = u THEN of[i[1]] ELSE None]
  <2>1. DOMAIN link = GroupCategory \X User /\ link' = [i \in DOMAIN link |-> link'[i]]
      BY <1>1 DEF Founds, B!TypeOK
  <2>2. \A i \in DOMAIN link : link'[i] =
            IF i[1] \notin new THEN link[i] ELSE IF i[2] = u THEN of[i[1]] ELSE None
      BY <1>2, <2>1
  <2> QED
      BY <2>1, <2>2
<1>10. /\ \A k \in new : gcat[k] = None
       /\ \A k \in GroupCategory : IF k \in new THEN gcat'[k] # None /\ gcat'[k].group = g
                                                ELSE gcat'[k] = gcat[k]
       /\ UNCHANGED <<category, operation>>
    BY <1>2 DEF Founds
<1>11. B!FoundCategories(u, g, new, of)
    BY ONLY <1>5, <1>6, <1>7, <1>8, <1>9, <1>10 DEF B!FoundCategories
<1> QED
    BY <1>5, <1>11 DEF u, g

LEMMA CreateGroupInitDoes ==
    ASSUME Basic, NEW r \in Request, CreateGroupInit(r)
    PROVE  /\ Does(r) /\ req[r].op = "createGroup"
           /\ \/ pc'[r] = "failed" /\ ~Fits(r)
              \/ /\ pc'[r] = "done" /\ plan' = plan
                 /\ Injection(DOMAIN plan[r], CategoriesOf(req[r].group)') # {}
<1>1. req[r].op = "createGroup" /\ pc[r] = "create_init" /\ RequestsTyped /\ HistoryTyped
    BY InitCases, TypeOKParts DEF Basic, TablesTyped
<1>2. CASE /\ Step(r, "createGroup", "create_init", "failed") /\ ~Fits(r)
           /\ UNCHANGED <<tables, plan>>
  <2>1. RequestsTyped' /\ Moves(r) /\ Continues(r) /\ pc'[r] = "failed"
      BY <1>1, <1>2, StepFlows DEF Running, Outcome, RequestsTyped
  <2> QED
      BY <1>1, <1>2, <2>1, TablesStay DEF Does, Basic
<1>3. CASE /\ Step(r, "createGroup", "create_init", "done") /\ Fits(r)
           /\ \E new \in SUBSET GroupCategory : \E of : Founds(r, new, of)
  <2>1. PICK new \in SUBSET GroupCategory : \E of : Founds(r, new, of)
      BY <1>3
  <2>2. PICK of : Founds(r, new, of)
      BY <2>1
  <2>3. plan' = plan /\ unused' = unused \ new
        /\ UNCHANGED <<category, operation, creator, members, opBy>>
      BY <2>2 DEF Founds
  <2>4. RequestsTyped' /\ Moves(r) /\ Continues(r) /\ pc'[r] = "done" /\ Commits(r)
      BY <1>1, <1>3, <2>3, StepFlows DEF Running, Outcome, RequestsTyped, Commits
  <2> DEFINE u == req[r].user
             g == req[r].group
  <2>5. /\ u \in User /\ g \in Group \ unused /\ creator[g] # None
        /\ \A k \in new : /\ k \in unused /\ gcat[k] = None /\ of[k] \in DOMAIN plan[r]
                          /\ gcat'[k] # None /\ gcat'[k].group = g
                          /\ gcat'[k].type = plan[r][of[k]].type
        /\ \A k \in GroupCategory \ new : gcat'[k] = gcat[k]
        /\ \A c \in DOMAIN plan[r] : B!Owns(u, c)
        /\ \A k \in GroupCategory, v \in User : link'[<<k, v>>] =
               IF k \notin new THEN link[<<k, v>>] ELSE IF v = u THEN of[k] ELSE None
        /\ \A k \in GroupCategory, v \in User : linkBy'[<<k, v>>] =
               IF k \in new /\ v = u THEN r ELSE linkBy[<<k, v>>]
    <3>1. Founded(r, new, of)
        BY <1>1, <1>3, <2>2, FoundsRows
    <3> QED
        BY <3>1 DEF Founded
  <2>6. BooksStep
    <3>1. of \in [new -> Category] /\ B!FoundCategories(u, g, new, of)
        BY <1>1, <1>3, <2>2, FoundsIsFounding
    <3>2. u \in User /\ g \in Group
        BY <2>5
    <3> QED
        BY <3>1, <3>2 DEF BooksStep, B!Next
  <2>7. TablesTyped'
    <3>1. B!TypeOK /\ TablesTyped /\ \A k \in new : k \notin Category \cup Group
        BY TypeOKParts, IdsAssumption DEF Basic
    <3>2. GroupsOK'
        BY <2>3, <2>5, <3>1 DEF TablesTyped, GroupsOK
    <3>3. UnusedOK'
        BY <2>3, <2>5, <3>1 DEF TablesTyped, UnusedOK
    <3>4. HistoryTyped'
      <4>1. \A i \in GroupCategory \X User : linkBy'[i] \in Request \cup {None}
          BY <2>5, <1>1 DEF HistoryTyped
      <4>2. linkBy' = [i \in GroupCategory \X User |-> linkBy'[i]]
          BY <2>2, <3>1 DEF Founds, B!TypeOK
      <4> QED
          BY <1>1, <2>3, <4>1, <4>2 DEF HistoryTyped
    <3> QED
        BY <3>2, <3>3, <3>4 DEF TablesTyped
  <2>8. Owners(r)
      BY <2>3, <2>4, <2>5 DEF Owners
  <2>9. Takes(r)
      BY <2>5 DEF Takes
  <2>10. Types(r)
    <3>1. \A k \in GroupCategory, v \in User : link'[<<k, v>>] # None =>
             \/ link'[<<k, v>>] = link[<<k, v>>] /\ linkBy'[<<k, v>>] = linkBy[<<k, v>>]
             \/ /\ Draws(r, <<k, v>>) /\ linkBy'[<<k, v>>] = r
                /\ category[link'[<<k, v>>]] # None /\ gcat'[k] # None
      <4> TAKE k \in GroupCategory, v \in User
      <4>1. <<k, v>>[1] = k
          OBVIOUS
      <4>2. CASE k \in new /\ v = u
          BY <1>1, <2>5, <4>1, <4>2 DEF Draws, B!Owns
      <4>3. CASE ~(k \in new /\ v = u)
          BY <2>5, <4>3
      <4> QED
          BY <4>2, <4>3
    <3>2. \A i \in GroupCategory \X User : \E k \in GroupCategory, v \in User : i = <<k, v>>
        OBVIOUS
    <3> QED
        BY <2>3, <2>4, <2>5, <3>1, <3>2 DEF Types
  <2>11. Injection(DOMAIN plan[r], CategoriesOf(g)') # {}
    <3> DEFINE h == [c \in DOMAIN plan[r] |-> CHOOSE k \in new : of[k] = c]
    <3>1. \A c \in DOMAIN plan[r] : h[c] \in new /\ of[h[c]] = c
        BY <2>2 DEF Founds
    <3>2. new \subseteq CategoriesOf(g)'
        BY <2>4, <2>5 DEF CategoriesOf, Shares, Continues
    <3> HIDE DEF h
    <3>3. h \in [DOMAIN plan[r] -> CategoriesOf(g)']
        BY <3>1, <3>2 DEF h
    <3> QED
        BY <3>1, <3>3 DEF Injection, IsInjective
  <2> QED
      BY <1>1, <2>3, <2>4, <2>6, <2>7, <2>8, <2>9, <2>10, <2>11 DEF Does
<1> QED
    BY <1>2, <1>3, InitCases

LEMMA RenameGroupWriteDoes ==
    ASSUME Basic, NEW r \in Request, RenameGroupWrite(r)
    PROVE  Does(r)
<1>1. CASE Refused(r, "renameGroup", "failed")
    BY <1>1, RefusedDoes DEF Outcome
<1>2. CASE Writes(r, "renameGroup") /\ UNCHANGED tables
    BY <1>2, WritesFlows, TablesStay, TypeOKParts DEF Does, Basic
<1> QED
    BY <1>1, <1>2 DEF RenameGroupWrite

LEMMA AddGroupCategoryWriteDoes ==
    ASSUME Basic, NEW r \in Request, AddGroupCategoryWrite(r)
    PROVE  Does(r)
<1> DEFINE row == [group |-> req[r].group, name |-> req[r].name, type |-> req[r].type]
<1>1. CASE Refused(r, "addGroupCategory", "failed")
    BY <1>1, RefusedDoes DEF Outcome
<1>2. CASE ~Refused(r, "addGroupCategory", "failed")
  <2>1. PICK k \in GroupCategory \cap unused :
            /\ Writes(r, "addGroupCategory") /\ creator[req[r].group] # None
            /\ ~Held(gcat, row, None)
            /\ gcat' = [gcat EXCEPT ![k] = row] /\ unused' = unused \ {k}
            /\ UNCHANGED <<category, link, operation, creator, members, opBy, linkBy>>
      BY <1>2 DEF AddGroupCategoryWrite
  <2>2. /\ RequestsTyped' /\ Moves(r) /\ Continues(r) /\ Commits(r)
        /\ pc[r] = "write" /\ req[r].op = "addGroupCategory" /\ req' = req
      BY <2>1, WritesFlows, TypeOKParts DEF Basic
  <2>3. row \in B!SharedRow
    <3>1. req[r].group \in Group /\ req[r].name \in Name /\ req[r].type \in B!Type
        BY <2>2, RowsAreNotNone DEF Basic, ShapeOK, Shape, NameOps, GroupOps, OpKinds
    <3> QED
        BY <3>1 DEF B!SharedRow
  <2>4. B!TypeOK /\ TablesTyped /\ gcat[k] = None /\ row # None /\ row.group = req[r].group
      BY <2>1, <2>3, TypeOKParts, RowsAreNotNone DEF Basic, TablesTyped, UnusedOK
  <2> HIDE DEF row
  <2>5. B!SetGroupCategory(k, row)
    <3>1. B!Unique([gcat EXCEPT ![k] = row])
        BY <2>1, <2>4, NewUnique, NoneAssumption DEF Basic, B!TypeOK, B!RowsAgree
    <3> QED
        BY <2>1, <2>4, <3>1 DEF B!SetGroupCategory
  <2>6. BooksStep
      BY <2>3, <2>5 DEF BooksStep, B!Next
  <2>7. TablesTyped'
    <3>1. k \notin Category \cup Group
        BY IdsAssumption
    <3>2. GroupsOK' /\ HistoryTyped'
        BY <2>1, <2>4 DEF TablesTyped, GroupsOK, HistoryTyped, B!TypeOK
    <3>3. UnusedOK'
        BY <2>1, <2>4, <3>1 DEF TablesTyped, UnusedOK, B!TypeOK
    <3> QED
        BY <3>2, <3>3 DEF TablesTyped
  <2>8. Owners(r) /\ Types(r) /\ Takes(r)
    <3>1. \A j \in GroupCategory : j # k => gcat'[j] = gcat[j]
        BY <2>1 DEF B!TypeOK
    <3>2. Owners(r)
        BY <2>1, <3>1 DEF Owners
    <3>3. Types(r)
        BY <2>1, <3>1 DEF Types
    <3>4. Takes(r)
        BY <2>4, <3>1 DEF Takes
    <3> QED
        BY <3>2, <3>3, <3>4
  <2> QED
      BY ONLY <2>2, <2>6, <2>7, <2>8 DEF Does
<1> QED
    BY <1>1, <1>2

LEMMA UpdateGroupCategoryWriteDoes ==
    ASSUME Basic, NEW r \in Request, UpdateGroupCategoryWrite(r)
    PROVE  Does(r)
<1> DEFINE k == req[r].id
           row == [group |-> req[r].group, name |-> req[r].name, type |-> req[r].type]
<1>1. CASE Refused(r, "updateGroupCategory", "failed")
    BY <1>1, RefusedDoes DEF Outcome
<1>2. CASE /\ Writes(r, "updateGroupCategory") /\ gcat[k] # None /\ ~Held(gcat, row, k)
           /\ gcat' = [gcat EXCEPT ![k] = row]
           /\ UNCHANGED <<category, link, operation, creator, members, unused, opBy, linkBy>>
  <2>2. /\ RequestsTyped' /\ Moves(r) /\ Continues(r) /\ Commits(r)
        /\ pc[r] = "write" /\ req[r].op = "updateGroupCategory" /\ req' = req
      BY <1>2, WritesFlows, TypeOKParts DEF Basic
  <2>3. /\ row \in B!SharedRow /\ row.group = req[r].group /\ row.type = req[r].type
        /\ Ours(req[r].group, k)
    <3>1. /\ req[r].group \in Group /\ req[r].name \in Name /\ req[r].type \in B!Type
          /\ Ours(req[r].group, k)
        BY <2>2, RowsAreNotNone DEF Basic, ShapeOK, Shape, NameOps, GroupOps, OpKinds
    <3> QED
        BY <3>1 DEF B!SharedRow
  <2>4. B!TypeOK /\ TablesTyped /\ row # None
      BY <2>3, TypeOKParts, RowsAreNotNone DEF Basic
  <2> HIDE DEF k, row
  <2>5. B!SetGroupCategory(k, row)
    <3>1. B!Unique([gcat EXCEPT ![k] = row])
        BY <1>2, <2>3, <2>4, SetUnique DEF Basic, B!TypeOK, B!RowsAgree, Ours
    <3> QED
        BY <1>2, <2>3, <3>1 DEF B!SetGroupCategory, Ours
  <2>6. BooksStep
      BY <2>3, <2>5 DEF BooksStep, B!Next, Ours
  <2>7. TablesTyped'
      BY <1>2, <2>3, <2>4 DEF TablesTyped, GroupsOK, UnusedOK, HistoryTyped, B!TypeOK, Ours
  <2>8. Owners(r) /\ Types(r) /\ Takes(r)
    <3>1. /\ \A j \in GroupCategory : gcat'[j] # gcat[j] => j = k
          /\ gcat'[k] = row
        BY <1>2, <2>3, <2>4 DEF B!TypeOK, Ours
    <3>2. Owners(r)
        BY <1>2, <2>3, <3>1 DEF Owners, Ours
    <3>3. Takes(r)
        BY <1>2, <2>3, <2>4, <3>1 DEF Takes
    <3>4. Types(r)
        BY <1>2, <2>2, <2>3, <3>1 DEF Types, k
    <3> QED
        BY <3>2, <3>3, <3>4
  <2> QED
      BY ONLY <2>2, <2>6, <2>7, <2>8 DEF Does
<1> QED
    BY <1>1, <1>2 DEF UpdateGroupCategoryWrite

LEMMA DropRows ==
    ASSUME Basic, NEW K \in SUBSET GroupCategory, Drop(K)
    PROVE  /\ BooksStep /\ Unlinks
           /\ \A k \in GroupCategory : gcat'[k] = IF k \in K THEN None ELSE gcat[k]
           /\ UNCHANGED <<category, operation, unused, opBy, linkBy>>
<1>1. B!TypeOK
    BY TypeOKParts DEF Basic
<1>2. B!DropGroupCategories(K)
    BY DEF Drop, Unlinked, B!DropGroupCategories
<1>3. BooksStep
    BY <1>2 DEF BooksStep, B!Next
<1>4. Unlinks
    BY <1>1, UnlinkedUnlinks DEF Drop
<1> QED
    BY <1>3, <1>4 DEF Drop

LEMMA DeleteGroupCategoryWriteDoes ==
    ASSUME Basic, NEW r \in Request, DeleteGroupCategoryWrite(r)
    PROVE  Does(r)
<1> DEFINE k == req[r].id
<1>1. CASE Refused(r, "deleteGroupCategory", "failed")
    BY <1>1, RefusedDoes DEF Outcome
<1>2. CASE /\ Writes(r, "deleteGroupCategory") /\ Drop({k}) /\ UNCHANGED <<creator, members>>
  <2>1. /\ RequestsTyped' /\ Moves(r) /\ Continues(r) /\ Commits(r)
        /\ pc[r] = "write" /\ req[r].op = "deleteGroupCategory" /\ req' = req
      BY <1>2, WritesFlows, TypeOKParts DEF Basic
  <2>2. k \in GroupCategory \ unused
      BY <2>1, RowsAreNotNone DEF Basic, ShapeOK, Shape, Ours
  <2> HIDE DEF k
  <2>3. /\ BooksStep /\ Unlinks
        /\ \A j \in GroupCategory : gcat'[j] = IF j \in {k} THEN None ELSE gcat[j]
        /\ UNCHANGED <<category, operation, unused, opBy, linkBy>>
      BY <1>2, <2>2, DropRows
  <2>4. TablesTyped'
      BY <1>2, <2>3, TypeOKParts DEF Basic, TablesTyped, GroupsOK, UnusedOK, HistoryTyped
  <2>5. Owners(r) /\ Takes(r)
    <3>1. Owners(r)
        BY <1>2, <2>3 DEF Owners
    <3>2. Takes(r)
        BY <2>1, <2>3 DEF Takes, k
    <3> QED
        BY <3>1, <3>2
  <2>6. Types(r)
      BY <2>3 DEF Types, Unlinks
  <2> QED
      BY ONLY <2>1, <2>3, <2>4, <2>5, <2>6 DEF Does
<1> QED
    BY <1>1, <1>2 DEF DeleteGroupCategoryWrite

LEMMA RemoveGroupWriteDoes ==
    ASSUME Basic, NEW r \in Request, RemoveGroupWrite(r)
    PROVE  Does(r)
<1> DEFINE g == req[r].group
<1>1. CASE Refused(r, "removeGroup", "failed")
    BY <1>1, RefusedDoes DEF Outcome
<1>2. CASE /\ Writes(r, "removeGroup") /\ Drop(CategoriesOf(g))
           /\ creator' = [creator EXCEPT ![g] = None]
           /\ members' = [members EXCEPT ![g] = {}]
  <2>1. /\ RequestsTyped' /\ Moves(r) /\ Continues(r) /\ Commits(r)
        /\ pc[r] = "write" /\ req[r].op = "removeGroup" /\ req' = req
      BY <1>2, WritesFlows, TypeOKParts DEF Basic
  <2>2. g \in Group \ unused /\ B!TypeOK /\ TablesTyped
      BY <2>1, RowsAreNotNone, TypeOKParts DEF Basic, ShapeOK, Shape, GroupOps
  <2> HIDE DEF g
  <2>3. /\ BooksStep /\ Unlinks
        /\ \A j \in GroupCategory : gcat'[j] = IF j \in CategoriesOf(g) THEN None ELSE gcat[j]
        /\ UNCHANGED <<category, operation, unused, opBy, linkBy>>
    <3>1. CategoriesOf(g) \in SUBSET GroupCategory
        BY DEF CategoriesOf
    <3> QED
        BY <1>2, <3>1, DropRows
  <2>4. /\ \A h \in Group : creator'[h] = IF h = g THEN None ELSE creator[h]
        /\ \A h \in Group : members'[h] = IF h = g THEN {} ELSE members[h]
        /\ creator' \in [Group -> User \cup {None}] /\ members' \in [Group -> SUBSET User]
      BY <1>2, <2>2 DEF TablesTyped, GroupsOK
  <2>5. \A k \in GroupCategory : gcat'[k] # None => gcat'[k] = gcat[k] /\ gcat[k].group # g
      BY <2>3 DEF CategoriesOf, Shares
  <2>6. TablesTyped'
    <3>1. GroupsOK'
        BY <2>2, <2>4, <2>5 DEF TablesTyped, GroupsOK, B!TypeOK, B!SharedRow
    <3>2. UnusedOK' /\ HistoryTyped'
        BY <2>2, <2>3, <2>4, <2>5 DEF TablesTyped, UnusedOK, HistoryTyped
    <3> QED
        BY <3>1, <3>2 DEF TablesTyped
  <2>7. Owners(r)
      BY <2>3, <2>4, <2>5 DEF Owners
  <2>8. Takes(r)
      BY <2>2, <2>3, <2>4 DEF Takes, CategoriesOf, Shares
  <2>9. Types(r)
      BY <2>3, <2>5 DEF Types, Unlinks
  <2> QED
      BY ONLY <2>1, <2>3, <2>6, <2>7, <2>8, <2>9 DEF Does
<1> QED
    BY <1>1, <1>2 DEF RemoveGroupWrite

LEMMA KickWriteDoes ==
    ASSUME Basic, NEW r \in Request, KickWrite(r)
    PROVE  Does(r) /\ req[r].op = "kick"
<1> DEFINE g == req[r].group
           v == req[r].member
<1>1. /\ Writes(r, "kick")
      /\ link' = Unlinked({i \in DOMAIN link : i[2] = v /\ Shares(i[1], g)})
      /\ members' = [members EXCEPT ![g] = @ \ {v}]
      /\ UNCHANGED <<category, gcat, operation, creator, unused, opBy, linkBy>>
    BY DEF KickWrite
<1>2. /\ RequestsTyped' /\ Moves(r) /\ Continues(r) /\ Commits(r)
      /\ pc[r] = "write" /\ req[r].op = "kick" /\ req' = req
    BY <1>1, WritesFlows, TypeOKParts DEF Basic
<1>3. g \in Group /\ v \in User /\ B!TypeOK /\ TablesTyped
    BY <1>2, RowsAreNotNone, TypeOKParts DEF Basic, ShapeOK, Shape, GroupOps
<1> HIDE DEF g, v
<1>4. Unlinks
    BY <1>1, <1>3, UnlinkedUnlinks
<1>5. BooksStep
  <2>1. \A k \in GroupCategory, w \in User :
            link'[<<k, w>>] # link[<<k, w>>] => w = v /\ gcat[k] # None /\ gcat[k].group = g
    <3>1. \A i \in GroupCategory \X User : link'[i] =
              IF i \in {x \in DOMAIN link : x[2] = v /\ Shares(x[1], g)} THEN None ELSE link[i]
        BY <1>1, <1>3 DEF Unlinked, B!TypeOK
    <3> QED
        BY <3>1 DEF Shares
  <2>2. B!LinksAgree' /\ B!CountedOnce'
    <3>1. \A k \in GroupCategory, w \in User :
              link'[<<k, w>>] # None => link'[<<k, w>>] = link[<<k, w>>]
        BY <1>4 DEF Unlinks
    <3>2. B!LinksAgree'
        BY <1>1, <3>1 DEF Basic, B!RowsAgree, B!LinksAgree, B!Owns
    <3>3. B!CountedOnce'
        BY <1>1, <3>1 DEF Basic, B!RowsAgree, B!CountedOnce
    <3> QED
        BY <3>2, <3>3
  <2>3. B!Relink(v, g)
      BY <1>1, <1>4, <2>1, <2>2 DEF B!Relink, Unlinks
  <2> QED
      BY <1>3, <2>3 DEF BooksStep, B!Next
<1>6. TablesTyped'
    BY <1>1, <1>3 DEF TablesTyped, GroupsOK, UnusedOK, HistoryTyped
<1>7. Owners(r) /\ Takes(r)
    BY <1>1 DEF Owners, Takes
<1>8. Types(r)
    BY <1>1, <1>4 DEF Types, Unlinks
<1> QED
    BY <1>2, <1>5, <1>6, <1>7, <1>8 DEF Does

\* The links that connect writes, and whether the rows it checked are there.
NextLinks(r) ==
    LET drawn == {i \in DOMAIN link : i[2] = req[r].user /\ i[1] \in Linked(req[r].to)}
    IN  [i \in DOMAIN link |-> IF i \in drawn THEN req[r].to[i[1]] ELSE Unlinked(Cut(r))[i]]
RowsThere(r) ==
    \A k \in Linked(req[r].to) : gcat[k] # None /\ category[req[r].to[k]] # None

\* Link by link.
Redraws(r, new) ==
    LET u == req[r].user
        g == req[r].group
        to == req[r].to
    IN  /\ new \in [GroupCategory \X User -> Category \cup {None}]
        /\ \A k \in Linked(to) : new[<<k, u>>] = to[k]
        /\ \A k \in GroupCategory, v \in User :
               \/ k \in Linked(to) /\ v = u
               \/ /\ new[<<k, v>>] # None => new[<<k, v>>] = link[<<k, v>>]
                  /\ new[<<k, v>>] # link[<<k, v>>] => v = u /\ Shares(k, g)
        /\ \A j \in GroupCategory, k \in Linked(to) :
               Shares(j, g) /\ new[<<j, u>>] = to[k] => j = k

LEMMA ConnectShape ==
    ASSUME Basic, NEW r \in Request, req[r].op = "connect"
    PROVE  /\ req[r].user \in User /\ req[r].group \in Group
           /\ DOMAIN req[r].to \subseteq GroupCategory
           /\ \A k \in Linked(req[r].to) : /\ req[r].to[k] \in Category /\ req[r].to[k] # None
                                           /\ k \in GroupCategory
           /\ ToOK(req[r].user, req[r].group, req[r].to)
<1>1. /\ req[r].user \in User /\ req[r].group \in Group
      /\ ToOK(req[r].user, req[r].group, req[r].to)
    BY RowsAreNotNone DEF Basic, ShapeOK, Shape, GroupOps, OpKinds
<1>2. /\ \A k \in DOMAIN req[r].to : k \in GroupCategory
      /\ \A k \in Linked(req[r].to) : req[r].to[k] \in Category
    BY <1>1 DEF ToOK, Ours, Mine
<1> QED
    BY <1>1, <1>2 DEF Linked

LEMMA ConnectRedraws ==
    ASSUME Basic, NEW r \in Request, req[r].op = "connect"
    PROVE  Redraws(r, NextLinks(r))
<1> DEFINE u == req[r].user
           g == req[r].group
           to == req[r].to
           L == Linked(to)
           new == NextLinks(r)
           cut == {i \in DOMAIN link :
                      /\ i[2] = u
                      /\ \/ i[1] \in DOMAIN to \ L
                         \/ Shares(i[1], g) /\ link[i] # None /\ \E k \in L : to[k] = link[i]}
<1>1. /\ B!TypeOK /\ B!RowsAgree
      /\ DOMAIN link = GroupCategory \X User /\ \A i \in DOMAIN link : link[i] \in Category \cup {None}
    BY TypeOKParts DEF Basic, B!TypeOK
<1>2. /\ u \in User /\ DOMAIN to \subseteq GroupCategory
      /\ \A k \in L : to[k] \in Category /\ to[k] # None /\ k \in GroupCategory
      /\ \A k \in DOMAIN to : Ours(g, k)
      /\ \A k, j \in L : to[k] = to[j] => k = j
    BY ConnectShape DEF ToOK
<1>3. cut = Cut(r)
    BY DEF Cut
<1>4. new = [i \in DOMAIN link |-> IF i[2] = u /\ i[1] \in L THEN to[i[1]]
                                   ELSE IF i \in cut THEN None ELSE link[i]]
    BY <1>3 DEF NextLinks, Unlinked
<1> HIDE DEF u, g, to, L, new, cut
<1>5. \A k \in GroupCategory, v \in User : new[<<k, v>>] =
          IF v = u /\ k \in L THEN to[k] ELSE IF <<k, v>> \in cut THEN None ELSE link[<<k, v>>]
    BY <1>1, <1>4
<1>6. \A k \in GroupCategory, v \in User : <<k, v>> \in cut <=>
          /\ v = u
          /\ \/ k \in DOMAIN to \ L
             \/ Shares(k, g) /\ link[<<k, v>>] # None /\ \E j \in L : to[j] = link[<<k, v>>]
    BY <1>1 DEF cut
<1>7. new \in [GroupCategory \X User -> Category \cup {None}]
  <2>1. \A i \in GroupCategory \X User : new[i] \in Category \cup {None}
      BY <1>1, <1>2, <1>4
  <2> QED
      BY <1>1, <1>4, <2>1
<1>8. \A k \in L : new[<<k, u>>] = to[k]
    BY <1>2, <1>5
<1>9. ASSUME NEW k \in GroupCategory, NEW v \in User, ~(k \in L /\ v = u)
      PROVE  /\ new[<<k, v>>] # None => new[<<k, v>>] = link[<<k, v>>]
             /\ new[<<k, v>>] # link[<<k, v>>] => v = u /\ Shares(k, g)
  <2>1. new[<<k, v>>] = IF <<k, v>> \in cut THEN None ELSE link[<<k, v>>]
      BY <1>5, <1>9
  <2>2. link[<<k, v>>] # None => gcat[k] # None
      BY <1>1 DEF B!RowsAgree, B!LinksAgree
  <2>3. k \in DOMAIN to /\ gcat[k] # None => Shares(k, g)
      BY <1>2 DEF Ours, Shares
  <2> QED
      BY <1>6, <2>1, <2>2, <2>3
<1>10. ASSUME NEW j \in GroupCategory, NEW k \in L, Shares(j, g), new[<<j, u>>] = to[k]
       PROVE  j = k
  <2>1. CASE j \in L
      BY <1>2, <1>8, <1>10, <2>1
  <2>2. CASE j \notin L
    <3>1. new[<<j, u>>] # None /\ new[<<j, u>>] = link[<<j, u>>] /\ <<j, u>> \notin cut
        BY <1>2, <1>5, <1>10, <2>2
    <3> QED
        BY <1>2, <1>6, <1>10, <3>1
  <2> QED
      BY <2>1, <2>2
<1>11. \A k \in GroupCategory, v \in User :
           \/ k \in L /\ v = u
           \/ /\ new[<<k, v>>] # None => new[<<k, v>>] = link[<<k, v>>]
              /\ new[<<k, v>>] # link[<<k, v>>] => v = u /\ Shares(k, g)
    BY <1>9
<1> QED
    BY <1>7, <1>8, <1>10, <1>11 DEF Redraws, u, g, to, L, new

LEMMA ConnectRelinks ==
    ASSUME Basic, NEW r \in Request, req[r].op = "connect", RowsThere(r),
           Redraws(r, link'), UNCHANGED <<category, gcat, operation>>
    PROVE  B!Relink(req[r].user, req[r].group)
<1> DEFINE u == req[r].user
           g == req[r].group
           to == req[r].to
           L == Linked(to)
<1>1. B!RowsAgree
    BY DEF Basic
<1>2. /\ \A k \in L : /\ to[k] \in Category /\ to[k] # None /\ k \in GroupCategory
                      /\ Shares(k, g) /\ B!Owns(u, to[k])
      /\ u \in User
  <2>1. \A k \in L : Ours(g, k) /\ Mine(u, to[k])
      BY ConnectShape DEF ToOK, Linked
  <2> QED
      BY <2>1, ConnectShape DEF RowsThere, Ours, Mine, Shares, B!Owns
<1>3. /\ link' \in [GroupCategory \X User -> Category \cup {None}]
      /\ \A k \in L : link'[<<k, u>>] = to[k]
      /\ \A k \in GroupCategory, v \in User :
             \/ k \in L /\ v = u
             \/ /\ link'[<<k, v>>] # None => link'[<<k, v>>] = link[<<k, v>>]
                /\ link'[<<k, v>>] # link[<<k, v>>] => v = u /\ Shares(k, g)
      /\ \A j \in GroupCategory, k \in L : Shares(j, g) /\ link'[<<j, u>>] = to[k] => j = k
    BY DEF Redraws
<1> HIDE DEF u, g, to, L
<1>4. \A k \in GroupCategory, v \in User :
          link'[<<k, v>>] # link[<<k, v>>] => v = u /\ gcat[k] # None /\ gcat[k].group = g
    BY <1>2, <1>3 DEF Shares
<1>5. B!LinksAgree'
    BY <1>1, <1>2, <1>3 DEF B!RowsAgree, B!LinksAgree, B!Owns, Shares
<1>6. B!CountedOnce'
  <2> SUFFICES ASSUME NEW k \in GroupCategory, NEW j \in GroupCategory, NEW v \in User,
                      link'[<<k, v>>] # None, link'[<<k, v>>] = link'[<<j, v>>],
                      gcat[k] # None, gcat[j] # None, gcat[k].group = gcat[j].group
               PROVE  k = j
      BY DEF B!CountedOnce
  <2>1. CASE k \in L /\ v = u
      BY <1>2, <1>3, <2>1 DEF Shares
  <2>2. CASE j \in L /\ v = u
      BY <1>2, <1>3, <2>2 DEF Shares
  <2>3. CASE ~(k \in L /\ v = u) /\ ~(j \in L /\ v = u)
      BY <1>1, <1>3, <2>3 DEF B!RowsAgree, B!CountedOnce
  <2> QED
      BY <2>1, <2>2, <2>3
<1> QED
    BY <1>3, <1>4, <1>5, <1>6 DEF B!Relink, u, g

LEMMA ConnectWriteDoes ==
    ASSUME Basic, NEW r \in Request, ConnectWrite(r)
    PROVE  /\ Does(r) /\ req[r].op = "connect" /\ pc[r] = "write"
           /\ pc'[r] = "failed" => ~RowsThere(r)
<1> DEFINE u == req[r].user
           g == req[r].group
           to == req[r].to
           drawn == {i \in DOMAIN link : i[2] = u /\ i[1] \in Linked(to)}
<1>1. req[r].op = "connect"
    BY DEF ConnectWrite, Writes, Refused, Step
<1>2. Redraws(r, NextLinks(r))
    BY <1>1, ConnectRedraws
<1>3. ASSUME NEW k \in Linked(to), NEW j \in GroupCategory,
             Shares(j, g), NextLinks(r)[<<j, u>>] = to[k]
      PROVE  j = k
    BY <1>2, <1>3 DEF Redraws
<1>4. CASE Refused(r, "connect", "failed") /\ ~RowsThere(r)
    BY <1>1, <1>4, RefusedDoes, RefusedFlows, TypeOKParts DEF Basic, Outcome
<1>5. CASE /\ Writes(r, "connect") /\ RowsThere(r) /\ link' = NextLinks(r)
           /\ linkBy' = [i \in DOMAIN link |-> IF i \in drawn THEN r ELSE linkBy[i]]
           /\ UNCHANGED <<category, gcat, operation, creator, members, unused, opBy>>
  <2>1. /\ RequestsTyped' /\ Moves(r) /\ Continues(r) /\ Commits(r)
        /\ pc[r] = "write" /\ pc'[r] = "done" /\ req' = req
      BY <1>5, WritesFlows, TypeOKParts DEF Basic
  <2>2. BooksStep
    <3>1. B!Relink(u, g)
        BY <1>1, <1>2, <1>5, ConnectRelinks
    <3>2. u \in User /\ g \in Group
        BY <1>1, ConnectShape
    <3> QED
        BY <3>1, <3>2 DEF BooksStep, B!Next
  <2>3. B!TypeOK /\ TablesTyped
      BY TypeOKParts DEF Basic
  <2>4. /\ linkBy' = [i \in GroupCategory \X User |-> linkBy'[i]]
        /\ \A i \in GroupCategory \X User : linkBy'[i] =
               IF i[2] = u /\ i[1] \in Linked(to) THEN r ELSE linkBy[i]
      BY <1>5, <2>3 DEF B!TypeOK
  <2>5. TablesTyped'
    <3>1. \A i \in GroupCategory \X User : linkBy'[i] \in Request \cup {None}
        BY <2>3, <2>4 DEF TablesTyped, HistoryTyped
    <3>2. HistoryTyped'
        BY <1>5, <2>3, <2>4, <3>1 DEF TablesTyped, HistoryTyped
    <3> QED
        BY <1>5, <2>3, <3>2 DEF TablesTyped, GroupsOK, UnusedOK
  <2>6. Owners(r) /\ Takes(r)
      BY <1>5, <2>1, <2>4 DEF Owners, Takes
  <2>7. Types(r)
    <3>1. \A k \in GroupCategory, v \in User : link'[<<k, v>>] # None =>
             \/ link'[<<k, v>>] = link[<<k, v>>] /\ linkBy'[<<k, v>>] = linkBy[<<k, v>>]
             \/ /\ Draws(r, <<k, v>>) /\ linkBy'[<<k, v>>] = r
                /\ category[link'[<<k, v>>]] # None /\ gcat'[k] # None
      <4> TAKE k \in GroupCategory, v \in User
      <4>1. <<k, v>> \in GroupCategory \X User /\ <<k, v>>[1] = k /\ <<k, v>>[2] = v
          OBVIOUS
      <4>2. CASE v = u /\ k \in Linked(to)
        <5>1. link'[<<k, v>>] = to[k] /\ linkBy'[<<k, v>>] = r
            BY <1>2, <1>5, <2>4, <4>1, <4>2 DEF Redraws
        <5> QED
            BY <1>1, <1>5, <2>1, <4>1, <4>2, <5>1 DEF Draws, RowsThere
      <4>3. CASE ~(v = u /\ k \in Linked(to))
          BY <1>2, <1>5, <2>4, <4>1, <4>3 DEF Redraws
      <4> QED
          BY <4>2, <4>3
    <3>2. \A i \in GroupCategory \X User : \E k \in GroupCategory, v \in User : i = <<k, v>>
        OBVIOUS
    <3> QED
        BY <1>5, <2>1, <3>1, <3>2 DEF Types
  <2> QED
      BY <1>1, <2>1, <2>2, <2>5, <2>6, <2>7 DEF Does
<1> QED
  <2> DEFINE fits == /\ \A k \in Linked(to) : gcat[k] # None /\ category[to[k]] # None
                     /\ \A k \in Linked(to), j \in GroupCategory :
                            Shares(j, g) /\ NextLinks(r)[<<j, u>>] = to[k] => j = k
  <2>1. fits <=> RowsThere(r)
      BY <1>3 DEF RowsThere
  <2>2. \/ /\ Writes(r, "connect") /\ fits /\ link' = NextLinks(r)
           /\ linkBy' = [i \in DOMAIN link |-> IF i \in drawn THEN r ELSE linkBy[i]]
           /\ UNCHANGED <<category, gcat, operation, creator, members, unused, opBy>>
        \/ Refused(r, "connect", "failed") /\ ~fits
      BY DEF ConnectWrite, NextLinks
  <2> QED
      BY <1>4, <1>5, <2>1, <2>2
-----------------------------------------------------------------------------
\* What a request that passed its checks has seen to be so.
Knows(a) ==
    /\ a.op \in OpKinds \ {"createGroup", "deleteOperation"} /\ a.user \in User
    /\ a.op \in NameOps => a.name \in Name
    /\ a.op \in NameOps \cup WriteOps => a.type \in B!Type
    /\ a.op \in {"updateCategory", "deleteCategory"} => a.id \in Category /\ B!Owns(a.user, a.id)
    /\ a.op \in WriteOps => a.cat \in Category /\ Usable(a.user, a.cat, a.type)
    /\ a.op = "updateOperation" => a.id \in Operation /\ OwnOperation(a.user, a.id)
    /\ a.op \in GroupOps => a.group \in Group /\ Sees(a.user, a.group)
    /\ a.op \in {"updateGroupCategory", "deleteGroupCategory"} =>
           a.id \in GroupCategory /\ Shares(a.id, a.group)
    /\ a.op = "kick" => a.member \in User
    /\ a.op = "connect" =>
           /\ \A k \in DOMAIN a.to : k \in GroupCategory /\ Shares(k, a.group)
           /\ \A k \in Linked(a.to) : a.to[k] \in Category /\ B!Owns(a.user, a.to[k])
           /\ \A k, j \in Linked(a.to) : a.to[k] = a.to[j] => k = j
           /\ Matching(a.to)

Checks(r, call) ==
    /\ UNCHANGED tables
    /\ \/ Sent(r, Blank, "rejected")
       \/ Sent(r, call, "write") /\ Knows(call)

\* The types that a request compared are the same.
Matched(r) ==
    /\ req[r].op \in WriteOps => category[req[r].cat].type = req[r].type
    /\ req[r].op = "connect" =>
           \A k \in Linked(req[r].to) : category[req[r].to[k]].type = gcat[k].type

\* How a request arrives: refused, about to write, or done with its only statement.
Arrival(r) ==
    /\ Arrives(r) /\ Does(r) /\ Shape(r)'
    /\ pc'[r] # "rejected" => req'[r].op # None
    /\ pc'[r] \in Running => Clear(r)'
    /\ pc'[r] = "write" => Matched(r)'
    /\ pc'[r] = "done" => req'[r].op = "deleteOperation"

LEMMA BlankIsCall == Blank \in Call /\ Blank.op = None
BY NoPairs DEF Blank, Call

LEMMA OpsAreNotNone == \A x \in OpKinds : x # None
BY RowsAreNotNone

LEMMA KnowsEnough ==
    ASSUME Basic, NEW r \in Request, pc[r] = "unsent", NEW call, UNCHANGED tables, Knows(call),
           req'[r] = call, pc'[r] = "write", Moves(r)
    PROVE  Shape(r)' /\ Clear(r)' /\ Matched(r)'
<1>1. B!TypeOK /\ UnusedOK /\ GroupsOK
    BY TypeOKParts DEF Basic, TablesTyped
<1>2. /\ \A u, c : c \in Category /\ B!Owns(u, c) => Mine(u, c) /\ category[c] # None
      /\ \A k, g : k \in GroupCategory /\ Shares(k, g) => Ours(g, k) /\ gcat[k] # None
      /\ \A u, g : g \in Group /\ Sees(u, g) => g \notin unused /\ creator[g] # None
    BY <1>1 DEF UnusedOK, B!Owns, Shares, Sees, Mine, Ours
<1>3. \A u, o : o \in Operation /\ OwnOperation(u, o) => OwnOp(u, o) /\ (o \in Request => o # r)
    BY DEF Basic, HistoryOK, OwnOperation, OwnOp
<1>4. /\ \A u, c : Mine(u, c) => c \in Category \ unused' /\ (category'[c] # None => category'[c].user = u)
      /\ \A g, k : Ours(g, k) => k \in GroupCategory \ unused' /\ (gcat'[k] # None => gcat'[k].group = g)
      /\ category' = category /\ gcat' = gcat /\ creator' = creator /\ unused' = unused
      /\ operation' = operation
    BY DEF tables, Mine, Ours
<1>5. \A u, o : o \in Operation /\ OwnOperation(u, o) =>
          /\ operation'[o] # None => operation'[o].user = u
          /\ o \in Request => pc'[o] = "done"
    BY <1>3, <1>4 DEF Moves, OwnOp
<1>6. Shape(r)'
  <2>1. call.op \in WriteOps => Mine(call.user, call.cat) /\ category[call.cat].type = call.type
      BY <1>2 DEF Knows, Usable
  <2>2. call.op = "connect" =>
            /\ \A k \in DOMAIN call.to : Ours(call.group, k)
            /\ \A k \in Linked(call.to) : Mine(call.user, call.to[k])
      BY <1>2 DEF Knows
  <2>3. /\ call.op \in {"updateCategory", "deleteCategory"} => Mine(call.user, call.id)
        /\ call.op \in {"updateGroupCategory", "deleteGroupCategory"} => Ours(call.group, call.id)
        /\ call.op \in GroupOps => call.group \in Group \ unused
      BY <1>2 DEF Knows
  <2> QED
      BY <1>4, <1>5, <2>1, <2>2, <2>3, OpsAreNotNone DEF Shape, Knows, Mine, Ours, OwnOp, ToOK, Linked
<1>7. Clear(r)'
    BY <1>2, <1>4 DEF Clear, Knows, Usable, Shares, GroupOps, Linked
<1>8. Matched(r)'
    BY <1>4 DEF Matched, Knows, Usable, Matching, Linked
<1> QED
    BY <1>6, <1>7, <1>8

LEMMA ChecksArrive ==
    ASSUME Basic, NEW r \in Request, pc[r] = "unsent", NEW call \in Call, Checks(r, call)
    PROVE  Arrival(r)
<1>1. UNCHANGED tables /\ RequestsTyped
    BY TypeOKParts DEF Checks, Basic
<1>2. BooksStep /\ TablesTyped' /\ Owners(r) /\ Types(r) /\ Takes(r)
    BY <1>1, TablesStay DEF Basic
<1>3. CASE Sent(r, Blank, "rejected")
  <2>1. RequestsTyped' /\ Moves(r) /\ Arrives(r) /\ req'[r] = Blank /\ pc'[r] = "rejected"
      BY <1>1, <1>3, BlankIsCall, SentFlows
  <2>2. Shape(r)'
      BY <2>1, BlankIsCall, OpsAreNotNone DEF Shape, OpKinds, NameOps, WriteOps, GroupOps
  <2> QED
      BY <1>2, <2>1, <2>2 DEF Arrival, Does, Running
<1>4. CASE Sent(r, call, "write") /\ Knows(call)
  <2>1. RequestsTyped' /\ Moves(r) /\ Arrives(r) /\ req'[r] = call /\ pc'[r] = "write"
      BY <1>1, <1>4, SentFlows
  <2>2. Shape(r)' /\ Clear(r)' /\ Matched(r)'
      BY <1>1, <1>4, <2>1, KnowsEnough
  <2>3. req'[r].op # None
      BY <1>4, <2>1, OpsAreNotNone DEF Knows
  <2> QED
      BY <1>2, <2>1, <2>2, <2>3 DEF Arrival, Does
<1> QED
    BY <1>3, <1>4 DEF Checks

LEMMA PersonalRequestArrives ==
    ASSUME Basic, NEW r \in Request, pc[r] = "unsent", NEW u \in User, PersonalRequest(r, u)
    PROVE  Arrival(r)
<1> USE DEF Check, Ask, Checks, Sent
<1>1. ASSUME NEW n \in Name, NEW t \in B!Type, CreateCategory(r, u, n, t)
      PROVE  Arrival(r)
  <2> DEFINE call == [Blank EXCEPT !.op = "createCategory", !.user = u, !.name = n, !.type = t]
  <2>1. call \in Call /\ Knows(call)
      BY NoPairs DEF Blank, Call, OpKinds, Knows, NameOps, WriteOps, GroupOps
  <2>2. Checks(r, call)
      BY <1>1, <2>1 DEF CreateCategory
  <2> QED
      BY <2>1, <2>2, ChecksArrive
<1>2. ASSUME NEW c \in Category, NEW n \in Name, NEW t \in B!Type, UpdateCategory(r, u, c, n, t)
      PROVE  Arrival(r)
  <2> DEFINE call == [Blank EXCEPT !.op = "updateCategory", !.user = u, !.id = c, !.name = n,
                                   !.type = t]
  <2>1. call \in Call /\ (B!Owns(u, c) => Knows(call))
      BY NoPairs DEF Blank, Call, OpKinds, Knows, NameOps, WriteOps, GroupOps
  <2>2. Checks(r, call)
      BY <1>2, <2>1 DEF UpdateCategory
  <2> QED
      BY <2>1, <2>2, ChecksArrive
<1>3. ASSUME NEW c \in Category, DeleteCategory(r, u, c)
      PROVE  Arrival(r)
  <2> DEFINE call == [Blank EXCEPT !.op = "deleteCategory", !.user = u, !.id = c]
  <2>1. call \in Call /\ (B!Owns(u, c) => Knows(call))
      BY NoPairs DEF Blank, Call, OpKinds, Knows, NameOps, WriteOps, GroupOps
  <2>2. Checks(r, call)
      BY <1>3, <2>1 DEF DeleteCategory
  <2> QED
      BY <2>1, <2>2, ChecksArrive
<1>4. ASSUME NEW c \in Category, NEW t \in B!Type, CreateOperation(r, u, c, t)
      PROVE  Arrival(r)
  <2> DEFINE call == [Blank EXCEPT !.op = "createOperation", !.user = u, !.cat = c, !.type = t]
  <2>1. call \in Call /\ (Usable(u, c, t) => Knows(call))
      BY NoPairs DEF Blank, Call, OpKinds, Knows, NameOps, WriteOps, GroupOps
  <2>2. Checks(r, call)
      BY <1>4, <2>1 DEF CreateOperation
  <2> QED
      BY <2>1, <2>2, ChecksArrive
<1>5. ASSUME NEW c \in Category, NEW t \in B!Type, NEW o \in Operation,
             UpdateOperation(r, u, o, c, t)
      PROVE  Arrival(r)
  <2> DEFINE call == [Blank EXCEPT !.op = "updateOperation", !.user = u, !.id = o, !.cat = c,
                                   !.type = t]
  <2>1. call \in Call /\ (OwnOperation(u, o) /\ Usable(u, c, t) => Knows(call))
      BY NoPairs DEF Blank, Call, OpKinds, Knows, NameOps, WriteOps, GroupOps
  <2>2. Checks(r, call)
      BY <1>5, <2>1 DEF UpdateOperation
  <2> QED
      BY <2>1, <2>2, ChecksArrive
<1>6. ASSUME NEW o \in Operation, DeleteOperation(r, u, o)
      PROVE  Arrival(r)
  <2> DEFINE call == [Blank EXCEPT !.op = "deleteOperation", !.user = u, !.id = o]
  <2>1. CASE OwnOperation(u, o)
    <3>1. /\ Does(r) /\ Arrives(r) /\ pc'[r] = "done"
          /\ req'[r].op = "deleteOperation" /\ req'[r].user = u
        BY <1>6, <2>1, DeleteOperationDoes
    <3>2. "deleteOperation" # None
        BY OpsAreNotNone DEF OpKinds
    <3>3. Shape(r)'
        BY <3>1, <3>2 DEF Shape, NameOps, WriteOps, GroupOps
    <3> QED
        BY <3>1, <3>2, <3>3 DEF Arrival, Running
  <2>2. CASE ~OwnOperation(u, o)
    <3>1. call \in Call
        BY NoPairs DEF Blank, Call, OpKinds
    <3>2. Checks(r, call)
        BY <1>6, <2>2 DEF DeleteOperation
    <3> QED
        BY <3>1, <3>2, ChecksArrive
  <2> QED
      BY <2>1, <2>2
<1> QED
    BY <1>1, <1>2, <1>3, <1>4, <1>5, <1>6 DEF PersonalRequest

LEMMA CreateGroupArrives ==
    ASSUME Basic, NEW r \in Request, pc[r] = "unsent", NEW u \in User, CreateGroup(r, u)
    PROVE  Arrival(r)
<1> PICK g \in Group \cap unused :
        /\ Does(r) /\ pc'[r] = "create_read" /\ g \notin unused' /\ creator'[g] = u
        /\ req'[r] = [Blank EXCEPT !.op = "createGroup", !.user = u, !.group = g]
        /\ gcat' = gcat
    BY CreateGroupDoes
<1>1. /\ req'[r].op = "createGroup" /\ req'[r].user = u /\ req'[r].group = g
      /\ u # None /\ "createGroup" # None
    BY OpsAreNotNone, RowsAreNotNone DEF Blank, OpKinds
<1>2. Arrives(r)
    BY DEF Does, Continues, Running
<1>3. Shape(r)'
    BY <1>1 DEF Shape, NameOps, WriteOps, GroupOps
<1>4. \A k \in GroupCategory : gcat[k] # None => gcat[k].group # g
    BY TypeOKParts DEF Basic, TablesTyped, GroupsOK, UnusedOK
<1>5. Clear(r)'
    BY <1>1, <1>4 DEF Clear, WriteOps, Shares
<1> QED
    BY <1>1, <1>2, <1>3, <1>5 DEF Arrival

LEMMA GroupRequestArrives ==
    ASSUME Basic, NEW r \in Request, pc[r] = "unsent", NEW u \in User, NEW g \in Group,
           GroupRequest(r, u, g)
    PROVE  Arrival(r)
<1> USE DEF Check, Ask, Checks, Sent
<1>1. CASE RenameGroup(r, u, g)
  <2> DEFINE call == [Blank EXCEPT !.op = "renameGroup", !.user = u, !.group = g]
  <2>1. call \in Call /\ (Manages(u, g) => Knows(call))
      BY NoPairs DEF Blank, Call, OpKinds, Knows, NameOps, WriteOps, GroupOps, Manages
  <2>2. Checks(r, call)
      BY <1>1, <2>1 DEF RenameGroup
  <2> QED
      BY <2>1, <2>2, ChecksArrive
<1>2. CASE RemoveGroup(r, u, g)
  <2> DEFINE call == [Blank EXCEPT !.op = "removeGroup", !.user = u, !.group = g]
  <2>1. call \in Call /\ (Manages(u, g) => Knows(call))
      BY NoPairs DEF Blank, Call, OpKinds, Knows, NameOps, WriteOps, GroupOps, Manages
  <2>2. Checks(r, call)
      BY <1>2, <2>1 DEF RemoveGroup
  <2> QED
      BY <2>1, <2>2, ChecksArrive
<1>3. ASSUME NEW n \in Name, NEW t \in B!Type, AddGroupCategory(r, u, g, n, t)
      PROVE  Arrival(r)
  <2> DEFINE call == [Blank EXCEPT !.op = "addGroupCategory", !.user = u, !.group = g, !.name = n,
                                   !.type = t]
  <2>1. call \in Call /\ (Manages(u, g) => Knows(call))
      BY NoPairs DEF Blank, Call, OpKinds, Knows, NameOps, WriteOps, GroupOps, Manages
  <2>2. Checks(r, call)
      BY <1>3, <2>1 DEF AddGroupCategory
  <2> QED
      BY <2>1, <2>2, ChecksArrive
<1>4. ASSUME NEW n \in Name, NEW t \in B!Type, NEW k \in GroupCategory,
             UpdateGroupCategory(r, u, g, k, n, t)
      PROVE  Arrival(r)
  <2> DEFINE call == [Blank EXCEPT !.op = "updateGroupCategory", !.user = u, !.group = g, !.id = k,
                                   !.name = n, !.type = t]
  <2>1. call \in Call /\ (Manages(u, g) /\ Shares(k, g) => Knows(call))
      BY NoPairs DEF Blank, Call, OpKinds, Knows, NameOps, WriteOps, GroupOps, Manages
  <2>2. Checks(r, call)
      BY <1>4, <2>1 DEF UpdateGroupCategory
  <2> QED
      BY <2>1, <2>2, ChecksArrive
<1>5. ASSUME NEW k \in GroupCategory, DeleteGroupCategory(r, u, g, k)
      PROVE  Arrival(r)
  <2> DEFINE call == [Blank EXCEPT !.op = "deleteGroupCategory", !.user = u, !.group = g, !.id = k]
  <2>1. call \in Call /\ (Manages(u, g) /\ Shares(k, g) => Knows(call))
      BY NoPairs DEF Blank, Call, OpKinds, Knows, NameOps, WriteOps, GroupOps, Manages
  <2>2. Checks(r, call)
      BY <1>5, <2>1 DEF DeleteGroupCategory
  <2> QED
      BY <2>1, <2>2, ChecksArrive
<1>6. ASSUME NEW v \in User, Kick(r, u, g, v)
      PROVE  Arrival(r)
  <2> DEFINE call == [Blank EXCEPT !.op = "kick", !.user = u, !.group = g, !.member = v]
  <2>1. call \in Call /\ (Manages(u, g) => Knows(call))
      BY NoPairs DEF Blank, Call, OpKinds, Knows, NameOps, WriteOps, GroupOps, Manages
  <2>2. Checks(r, call)
      BY <1>6, <2>1 DEF Kick
  <2> QED
      BY <2>1, <2>2, ChecksArrive
<1>7. ASSUME NEW K \in SUBSET GroupCategory, NEW to \in [K -> Category \cup {None}],
             Connect(r, u, g, to)
      PROVE  Arrival(r)
  <2> DEFINE call == [Blank EXCEPT !.op = "connect", !.user = u, !.group = g, !.to = to]
             ok == /\ Sees(u, g)
                   /\ \A k, j \in Linked(to) : to[k] = to[j] => k = j
                   /\ \A k \in DOMAIN to : Shares(k, g)
                   /\ \A k \in Linked(to) : B!Owns(u, to[k])
                   /\ Matching(to)
  <2>1. to \in Payload
      BY DEF Payload
  <2>2. call \in Call /\ call.op = "connect" /\ call.user = u /\ call.group = g /\ call.to = to
      BY <2>1 DEF Blank, Call, OpKinds
  <2>3. /\ \A k \in DOMAIN to : k \in GroupCategory
        /\ \A k \in Linked(to) : to[k] \in Category
      BY DEF Linked
  <2>4. ASSUME ok PROVE Knows(call)
    <3> HIDE DEF call
    <3> QED
        BY <2>2, <2>3, <2>4 DEF Knows, OpKinds, NameOps, WriteOps, GroupOps
  <2>5. Checks(r, call)
      BY <1>7, <2>4 DEF Connect
  <2> QED
      BY <2>2, <2>5, ChecksArrive
<1> QED
    BY <1>1, <1>2, <1>3, <1>4, <1>5, <1>6, <1>7 DEF GroupRequest

\* How a request goes on; when it fails, what it had checked is no longer so.
Progress(r) ==
    /\ Continues(r) /\ Does(r)
    /\ IF pc'[r] = "create_init"
       THEN /\ pc[r] = "create_read" /\ req[r].op = "createGroup" /\ UNCHANGED tables
            /\ DOMAIN plan'[r] = {d \in Category : B!Owns(req[r].user, d)}
            /\ \A c \in DOMAIN plan'[r] : plan'[r][c] = category[c]
       ELSE plan'[r] = plan[r]
    /\ pc'[r] = "failed" /\ req[r].op \notin Unchecked => ~Clear(r)
    /\ pc'[r] = "done" /\ req[r].op = "createGroup" =>
           Injection(DOMAIN plan[r], CategoriesOf(req[r].group)') # {}

LEMMA StepOutcome ==
    ASSUME Basic, NEW r \in Request, NEW op, NEW from, NEW next, Step(r, op, from, next)
    PROVE  pc[r] = from /\ pc'[r] = next /\ req[r].op = op /\ req' = req
BY TypeOKParts DEF Basic, RequestsTyped, Step

LEMMA MisfitIsNotClear ==
    ASSUME Basic, NEW r \in Request, req[r].op = "createGroup", pc[r] = "create_init", ~Fits(r)
    PROVE  ~Clear(r)
<1> DEFINE u == req[r].user
           g == req[r].group
<1>1. RequestsTyped /\ B!TypeOK /\ g \in Group
    BY TypeOKParts, OpsAreNotNone DEF Basic, ShapeOK, Shape, GroupOps
<1>2. PICK S \in SUBSET Category : plan[r] \in [S -> B!PersonalRow]
    BY <1>1 DEF RequestsTyped
<1>3. \A c \in DOMAIN plan[r] : /\ Copy(r, c) \in B!SharedRow /\ Copy(r, c).group = g
                                /\ Copy(r, c) # None
  <2>1. \A c \in DOMAIN plan[r] : Copy(r, c) \in B!SharedRow /\ Copy(r, c).group = g
      BY <1>1, <1>2 DEF Copy, B!SharedRow, B!PersonalRow
  <2> QED
      BY <2>1, RowsAreNotNone
<1>4. CASE creator[g] = None
    BY <1>4 DEF Clear
<1>5. ASSUME NEW c \in DOMAIN plan[r], category[c] = None
      PROVE  ~Clear(r)
    BY <1>5 DEF Clear
<1>6. ASSUME NEW c \in DOMAIN plan[r], Held(gcat, Copy(r, c), None)
      PROVE  ~Clear(r)
  <2>1. \E k \in GroupCategory : gcat[k] = Copy(r, c)
      BY <1>1, <1>6 DEF Held, B!TypeOK
  <2> QED
      BY <1>3, <2>1 DEF Clear, Shares
<1>7. ASSUME NEW k \in GroupCategory, Shares(k, g)
      PROVE  ~Clear(r)
    BY <1>7 DEF Clear
<1> QED
    BY <1>4, <1>5, <1>6, <1>7 DEF Fits

LEMMA AbortProgresses ==
    ASSUME Basic, NEW r \in Request, Abort(r)
    PROVE  Progress(r)
<1>1. RequestsTyped /\ UNCHANGED tables
    BY TypeOKParts DEF Basic, Abort
<1>2. RequestsTyped' /\ Moves(r) /\ Continues(r) /\ plan'[r] = plan[r] /\ pc'[r] = "aborted"
    BY <1>1 DEF Abort, RequestsTyped, Moves, Continues, Outcome
<1>3. Does(r)
    BY <1>1, <1>2, TablesStay DEF Does, Basic
<1> QED
    BY <1>2, <1>3 DEF Progress

LEMMA WriteProgresses ==
    ASSUME Basic, NEW r \in Request,
           \/ CreateCategoryWrite(r) \/ UpdateCategoryWrite(r) \/ DeleteCategoryWrite(r)
           \/ WriteOperation(r) \/ RenameGroupWrite(r) \/ AddGroupCategoryWrite(r)
           \/ UpdateGroupCategoryWrite(r) \/ DeleteGroupCategoryWrite(r) \/ RemoveGroupWrite(r)
           \/ KickWrite(r) \/ ConnectWrite(r)
    PROVE  Progress(r)
<1>1. Does(r)
    BY CreateCategoryWriteDoes, UpdateCategoryWriteDoes, DeleteCategoryWriteDoes, WriteOperationDoes,
       RenameGroupWriteDoes, AddGroupCategoryWriteDoes, UpdateGroupCategoryWriteDoes,
       DeleteGroupCategoryWriteDoes, RemoveGroupWriteDoes, KickWriteDoes, ConnectWriteDoes
<1>2. PICK what, next : Step(r, what, "write", next) /\ plan' = plan /\ next \in Outcome
    BY DEF CreateCategoryWrite, UpdateCategoryWrite, DeleteCategoryWrite, WriteOperation,
           RenameGroupWrite, AddGroupCategoryWrite, UpdateGroupCategoryWrite,
           DeleteGroupCategoryWrite, RemoveGroupWrite, KickWrite, ConnectWrite, Writes, Refused,
           Outcome
<1>3. pc[r] = "write" /\ pc'[r] \in Outcome /\ plan'[r] = plan[r]
    BY <1>2, StepOutcome
<1>4. Continues(r)
    BY <1>1, <1>3 DEF Does, Arrives
<1>5. req[r].op # "createGroup"
    BY <1>3 DEF Basic, ShapeOK, Shape
<1>6. pc'[r] = "failed" /\ req[r].op \notin Unchecked => ~Clear(r)
  <2> SUFFICES ASSUME pc'[r] = "failed", req[r].op \notin Unchecked PROVE ~Clear(r)
      OBVIOUS
  <2>1. \A op : ~Writes(r, op)
      BY StepOutcome DEF Writes
  <2>2. \A op, outcome : Refused(r, op, outcome) => req[r].op = op /\ outcome = "failed"
      BY StepOutcome DEF Refused
  <2>3. ~CreateCategoryWrite(r) /\ ~UpdateCategoryWrite(r) /\ ~KickWrite(r)
      BY <2>1, <2>2 DEF CreateCategoryWrite, UpdateCategoryWrite, KickWrite
  <2>4. ~DeleteCategoryWrite(r) /\ ~AddGroupCategoryWrite(r) /\ ~UpdateGroupCategoryWrite(r)
      BY <2>1, <2>2 DEF DeleteCategoryWrite, AddGroupCategoryWrite, UpdateGroupCategoryWrite,
         Unchecked
  <2>5. CASE WriteOperation(r)
      BY <2>1, <2>2, <2>5 DEF WriteOperation, Clear, WriteOps
  <2>6. CASE RenameGroupWrite(r) \/ RemoveGroupWrite(r) \/ DeleteGroupCategoryWrite(r)
      BY <2>1, <2>2, <2>6 DEF RenameGroupWrite, RemoveGroupWrite, DeleteGroupCategoryWrite, Clear
  <2>7. CASE ConnectWrite(r)
      BY <2>7, ConnectWriteDoes DEF Clear, RowsThere
  <2> QED
      BY <2>3, <2>4, <2>5, <2>6, <2>7
<1> QED
    BY <1>1, <1>3, <1>4, <1>5, <1>6 DEF Progress, Outcome

LEMMA CreateGroupProgresses ==
    ASSUME Basic, NEW r \in Request, CreateGroupRead(r) \/ CreateGroupInit(r)
    PROVE  Progress(r)
<1>1. CASE CreateGroupRead(r)
  <2>1. /\ Does(r) /\ pc[r] = "create_read" /\ pc'[r] = "create_init" /\ UNCHANGED tables
        /\ req[r].op = "createGroup"
        /\ DOMAIN plan'[r] = {d \in Category : B!Owns(req[r].user, d)}
        /\ \A c \in DOMAIN plan'[r] : plan'[r][c] = category[c]
      BY <1>1, CreateGroupReadDoes
  <2>2. Continues(r)
      BY <2>1 DEF Does, Arrives
  <2> QED
      BY <2>1, <2>2 DEF Progress
<1>2. CASE CreateGroupInit(r)
  <2>1. /\ Does(r) /\ req[r].op = "createGroup"
        /\ \/ pc'[r] = "failed" /\ ~Fits(r)
           \/ /\ pc'[r] = "done" /\ plan' = plan
              /\ Injection(DOMAIN plan[r], CategoriesOf(req[r].group)') # {}
      BY <1>2, CreateGroupInitDoes
  <2>2. pc[r] = "create_init" /\ plan' = plan
      BY <1>2, InitCases DEF Founds
  <2>3. Continues(r)
      BY <2>1, <2>2 DEF Does, Arrives
  <2>4. ~Fits(r) => ~Clear(r)
      BY <2>1, <2>2, MisfitIsNotClear
  <2> QED
      BY <2>1, <2>2, <2>3, <2>4 DEF Progress
<1> QED
    BY <1>1, <1>2

\* Every step is the arrival, or the progress, of one request.
LEMMA StepCases ==
    ASSUME Basic, Next
    PROVE  \E r \in Request : Arrival(r) \/ Progress(r)
<1> PICK r \in Request :
        \/ /\ pc[r] = "unsent"
           /\ \E u \in User : \/ PersonalRequest(r, u) \/ CreateGroup(r, u)
                              \/ \E g \in Group : GroupRequest(r, u, g)
        \/ Continue(r)
    BY DEF Next
<1>1. CASE /\ pc[r] = "unsent"
           /\ \E u \in User : \/ PersonalRequest(r, u) \/ CreateGroup(r, u)
                              \/ \E g \in Group : GroupRequest(r, u, g)
    BY <1>1, PersonalRequestArrives, CreateGroupArrives, GroupRequestArrives
<1>2. CASE Continue(r)
    BY <1>2, WriteProgresses, CreateGroupProgresses, AbortProgresses DEF Continue
<1> QED
    BY <1>1, <1>2
-----------------------------------------------------------------------------
\* What stays true of a row, or of a request, whatever is done.
LEMMA RowsStay ==
    ASSUME Basic, NEW r \in Request, Does(r)
    PROVE  /\ \A u, c : Mine(u, c) =>
                  c \in Category \ unused' /\ (category'[c] # None => category'[c].user = u)
           /\ \A g, k : Ours(g, k) =>
                  k \in GroupCategory \ unused' /\ (gcat'[k] # None => gcat'[k].group = g)
           /\ \A u, o : OwnOp(u, o) =>
                  /\ o \in Operation /\ (operation'[o] # None => operation'[o].user = u)
                  /\ o \in Request => pc'[o] = "done"
           /\ \A g : g \in Group \ unused => g \in Group \ unused'
           /\ \A q \in Request : pc[q] = "done" => q # r /\ pc'[q] = "done"
<1>1. Owners(r) /\ Moves(r) /\ (Arrives(r) \/ Continues(r))
    BY DEF Does
<1>2. \A q \in Request : pc[q] = "done" => q # r /\ pc'[q] = "done"
    BY <1>1 DEF Moves, Arrives, Continues, Running
<1>3. \A u, c : Mine(u, c) =>
          c \in Category \ unused' /\ (category'[c] # None => category'[c].user = u)
    BY <1>1 DEF Mine, Owners
<1>4. \A g, k : Ours(g, k) =>
          k \in GroupCategory \ unused' /\ (gcat'[k] # None => gcat'[k].group = g)
    BY <1>1 DEF Ours, Owners
<1>5. \A u, o : OwnOp(u, o) =>
          /\ o \in Operation /\ (operation'[o] # None => operation'[o].user = u)
          /\ o \in Request => pc'[o] = "done"
    BY <1>1, <1>2 DEF OwnOp, Owners
<1>6. \A g : g \in Group \ unused => g \in Group \ unused'
    BY <1>1 DEF Owners
<1> QED
    BY <1>2, <1>3, <1>4, <1>5, <1>6

LEMMA ShapeStays ==
    ASSUME Basic, NEW r \in Request, Does(r), NEW q \in Request, Shape(q), req'[q] = req[q],
           pc'[q] = pc[q] \/ pc'[q] \in Outcome \cup {"create_init"},
           pc'[q] = "create_init" =>
               /\ req[q].op = "createGroup"
               /\ \/ pc[q] = "create_init" /\ plan'[q] = plan[q]
                  \/ PlanOK(req[q].user, plan'[q])
    PROVE  Shape(q)'
<1>1. /\ \A u, c : Mine(u, c) =>
             c \in Category \ unused' /\ (category'[c] # None => category'[c].user = u)
      /\ \A g, k : Ours(g, k) =>
             k \in GroupCategory \ unused' /\ (gcat'[k] # None => gcat'[k].group = g)
      /\ \A u, o : OwnOp(u, o) =>
             /\ o \in Operation /\ (operation'[o] # None => operation'[o].user = u)
             /\ o \in Request => pc'[o] = "done"
      /\ \A g : g \in Group \ unused => g \in Group \ unused'
    BY RowsStay
<1> DEFINE a == req[q]
<1>2. /\ pc'[q] = "unsent" => a.op = None
      /\ pc'[q] \in {"create_read", "create_init"} => a.op = "createGroup"
      /\ pc'[q] = "write" => a.op \in OpKinds \ {"createGroup", "deleteOperation"}
    BY DEF Shape, Outcome
<1>3. /\ a.op # None => a.user \in User
      /\ a.op \in NameOps => a.name \in Name
      /\ a.op \in NameOps \cup WriteOps => a.type \in B!Type
      /\ a.op = "kick" => a.member \in User
    BY DEF Shape
<1>4. /\ a.op \in {"updateCategory", "deleteCategory"} => Mine(a.user, a.id)
      /\ a.op \in WriteOps => Mine(a.user, a.cat)
      /\ a.op = "updateOperation" => OwnOp(a.user, a.id)
      /\ a.op \in GroupOps => a.group \in Group \ unused
      /\ a.op \in {"updateGroupCategory", "deleteGroupCategory"} => Ours(a.group, a.id)
      /\ a.op = "connect" => ToOK(a.user, a.group, a.to)
      /\ pc'[q] = "create_init" => PlanOK(a.user, plan'[q])
    BY DEF Shape
<1> HIDE DEF a
<1>5. a.op = "connect" =>
          /\ \A k \in DOMAIN a.to : /\ k \in GroupCategory \ unused'
                                    /\ gcat'[k] # None => gcat'[k].group = a.group
          /\ \A k \in Linked(a.to) : /\ a.to[k] \in Category \ unused'
                                     /\ category'[a.to[k]] # None => category'[a.to[k]].user = a.user
          /\ \A k, j \in Linked(a.to) : a.to[k] = a.to[j] => k = j
    BY <1>1, <1>4 DEF ToOK
<1>6. pc'[q] = "create_init" =>
          \A c \in DOMAIN plan'[q] :
              /\ c \in Category \ unused' /\ (category'[c] # None => category'[c].user = a.user)
              /\ plan'[q][c].user = a.user
              /\ \A d \in DOMAIN plan'[q] : plan'[q][c] = plan'[q][d] => c = d
    BY <1>1, <1>4 DEF PlanOK
<1>7. /\ a.op \in {"updateCategory", "deleteCategory"} =>
             /\ a.id \in Category \ unused'
             /\ category'[a.id] # None => category'[a.id].user = a.user
      /\ a.op \in WriteOps =>
             /\ a.cat \in Category \ unused'
             /\ category'[a.cat] # None => category'[a.cat].user = a.user
      /\ a.op = "updateOperation" =>
             /\ a.id \in Operation /\ (operation'[a.id] # None => operation'[a.id].user = a.user)
             /\ a.id \in Request => pc'[a.id] = "done"
      /\ a.op \in GroupOps => a.group \in Group \ unused'
      /\ a.op \in {"updateGroupCategory", "deleteGroupCategory"} =>
             /\ a.id \in GroupCategory \ unused'
             /\ gcat'[a.id] # None => gcat'[a.id].group = a.group
    BY <1>1, <1>4
<1>8. req'[q] = a
    BY DEF a
<1> QED
    BY ONLY <1>2, <1>3, <1>5, <1>6, <1>7, <1>8 DEF Shape, Mine, Ours, OwnOp, ToOK, PlanOK, Linked

LEMMA ReadIsPlan ==
    ASSUME Basic, NEW r \in Request, Progress(r), pc'[r] = "create_init"
    PROVE  PlanOK(req[r].user, plan'[r])
<1>1. /\ DOMAIN plan'[r] = {d \in Category : B!Owns(req[r].user, d)}
      /\ \A c \in DOMAIN plan'[r] : plan'[r][c] = category[c]
    BY DEF Progress
<1>2. B!TypeOK /\ UnusedOK /\ B!RowsAgree
    BY TypeOKParts DEF Basic, TablesTyped
<1>3. \A c \in DOMAIN plan'[r] : Mine(req[r].user, c) /\ plan'[r][c].user = req[r].user
    BY <1>1, <1>2 DEF UnusedOK, Mine, B!Owns
<1>4. \A c, d \in DOMAIN plan'[r] : plan'[r][c] = plan'[r][d] => c = d
    BY <1>1, <1>2 DEF B!RowsAgree, B!Unique, B!TypeOK, B!Owns
<1> QED
    BY <1>3, <1>4 DEF PlanOK

LEMMA BasicStays ==
    ASSUME Basic, NEW r \in Request, Arrival(r) \/ Progress(r)
    PROVE  Basic'
<1>1. Does(r)
    BY DEF Arrival, Progress
<1>2. B!TypeOK' /\ B!RowsAgree'
    BY <1>1, BooksKeep, TypeOKParts DEF Basic, Does
<1>3. TypeOK'
    BY <1>1, <1>2, TypeOKPartsNext DEF Does
<1>4. \A q \in Request : pc[q] = "done" => q # r /\ pc'[q] = "done"
    BY <1>1, RowsStay
<1>5. ASSUME NEW q \in Request PROVE Shape(q)'
  <2>1. Shape(q)
      BY DEF Basic, ShapeOK
  <2>2. CASE q # r
    <3>1. req'[q] = req[q] /\ pc'[q] = pc[q] /\ plan'[q] = plan[q]
        BY <1>1, <2>2 DEF Does, Moves
    <3>2. pc[q] = "create_init" => req[q].op = "createGroup"
        BY <2>1 DEF Shape
    <3> QED
        BY <1>1, <2>1, <3>1, <3>2, ShapeStays
  <2>3. CASE q = r /\ Arrival(r)
      BY <2>3 DEF Arrival
  <2>4. CASE q = r /\ Progress(r)
    <3>1. req'[r] = req[r] /\ pc'[r] \in Outcome \cup {"create_init"}
        BY <2>4 DEF Progress, Continues
    <3>2. pc'[r] = "create_init" => req[r].op = "createGroup" /\ PlanOK(req[r].user, plan'[r])
        BY <2>4, ReadIsPlan DEF Progress
    <3> QED
        BY <1>1, <2>1, <2>4, <3>1, <3>2, ShapeStays
  <2> QED
      BY <2>2, <2>3, <2>4
<1>6. BeforeOK'
  <2>1. \A q \in Request : Answered(q) => q # r /\ Answered(q)'
      BY <1>1 DEF Does, Moves, Arrives, Continues, Answered, Running, Outcome
  <2>2. \A q \in Request : \A p \in before'[q] : p \in Request /\ Answered(p)
    <3>1. \A q \in Request : before[q] \subseteq Request
        BY TypeOKParts DEF Basic, RequestsTyped
    <3> QED
        BY <1>1, <3>1 DEF Does, Moves, Arrives, Continues, Basic, BeforeOK
  <2> QED
      BY <2>1, <2>2 DEF BeforeOK
<1>7. HistoryOK'
  <2>1. Owners(r) /\ HistoryTyped /\ HistoryTyped'
      BY <1>1, TypeOKParts DEF Does, Basic, TablesTyped
  <2>2. \A o \in Request : o \in Operation
      BY DEF Operation
  <2> QED
      BY <1>4, <2>1, <2>2 DEF HistoryOK, Basic, Owners, Commits, HistoryTyped
<1> QED
    BY <1>2, <1>3, <1>5, <1>6, <1>7 DEF Basic, ShapeOK

LEMMA BasicInit == Init => Basic
<1> SUFFICES ASSUME Init PROVE Basic
    OBVIOUS
<1>1. PICK s \in Start : operation = [o \in Operation |-> IF o \in Old THEN s.operation[o] ELSE None]
    BY DEF Init
<1>2. B!TypeOK /\ B!RowsAgree /\ GroupsOK
    BY DEF Init, B!Init
<1>3. UnusedOK
    BY <1>2, IdsAssumption DEF Init, UnusedOK
<1>4. RequestsTyped /\ HistoryTyped
  <2>1. [c \in {} |-> None] \in [{} -> B!PersonalRow]
      OBVIOUS
  <2>2. [c \in {} |-> None] \in UNION {[C -> B!PersonalRow] : C \in SUBSET Category}
      BY <2>1
  <2>3. plan \in [Request -> UNION {[C -> B!PersonalRow] : C \in SUBSET Category}]
      BY <2>2 DEF Init
  <2> QED
      BY <2>3, BlankIsCall DEF Init, RequestsTyped, HistoryTyped
<1>5. TypeOK
    BY <1>2, <1>3, <1>4, TypeOKParts DEF TablesTyped
<1>6. \A r \in Request : req[r].op = None /\ pc[r] = "unsent" /\ before[r] = {}
    BY BlankIsCall DEF Init
<1>7. \A r \in Request : Shape(r)
    BY <1>6, OpsAreNotNone DEF Shape, OpKinds, NameOps, WriteOps, GroupOps
<1>8. HistoryOK
  <2>1. \A o \in Request : operation[o] = None
      BY <1>1, OldAssumption DEF Operation
  <2> QED
      BY <2>1 DEF Init, HistoryOK
<1> QED
    BY <1>2, <1>5, <1>6, <1>7, <1>8 DEF Basic, ShapeOK, BeforeOK

LEMMA BasicStutters == Basic /\ UNCHANGED vars => Basic'
<1> SUFFICES ASSUME Basic, UNCHANGED vars PROVE Basic'
    OBVIOUS
<1> USE DEF vars, tables
<1>1. TypeOK'
    BY DEF Basic, TypeOK, B!TypeOK, GroupsOK, UnusedOK
<1>2. B!RowsAgree'
    BY BooksKeep, TypeOKParts DEF Basic, BooksStep, B!books
<1>3. ShapeOK'
    BY DEF Basic, ShapeOK, Shape, Mine, Ours, OwnOp, ToOK, PlanOK, Linked
<1>4. BeforeOK' /\ HistoryOK'
    BY DEF Basic, BeforeOK, HistoryOK, Answered
<1> QED
    BY <1>1, <1>2, <1>3, <1>4 DEF Basic

LEMMA BasicNext == Basic /\ [Next]_vars => Basic'
BY StepCases, BasicStays, BasicStutters

LEMMA BasicAlways == Spec => []Basic
BY BasicInit, BasicNext, PTL DEF Spec

(* Rows, requests and histories have their types in every reachable state; a
   group that is gone has left no members and no categories; an id not yet
   given has no row. *)
THEOREM TypeCorrect == Spec => []TypeOK
<1>1. Basic => TypeOK
    BY DEF Basic
<1> QED
    BY <1>1, BasicAlways, PTL

(* No link or operation refers to a missing row or to one of another account,
   and no category of a member counts twice in a group, however the handlers
   of CategoryService, OperationService and UserGroupService interleave. *)
THEOREM RowsAgreeAlways == Spec => []B!RowsAgree
<1>1. Basic => B!RowsAgree
    BY DEF Basic
<1> QED
    BY <1>1, BasicAlways, PTL

(* The handlers write the tables only as Books allows: what a request checked
   and another request has changed since is caught by a where clause, a
   foreign key or a unique index. *)
THEOREM ImplementsBooks == Spec => BooksSpec
<1>1. Init => B!Init
    BY DEF Init
<1>2. Basic /\ [Next]_vars => [B!Next]_(B!books)
  <2> SUFFICES ASSUME Basic, [Next]_vars PROVE [B!Next]_(B!books)
      OBVIOUS
  <2>1. CASE Next
      BY <2>1, StepCases DEF Arrival, Progress, Does, BooksStep
  <2>2. CASE UNCHANGED vars
      BY <2>2 DEF vars, tables, B!books
  <2> QED
      BY <2>1, <2>2
<1> QED
    BY <1>1, <1>2, BasicAlways, PTL DEF Spec, BooksSpec, B!Spec
-----------------------------------------------------------------------------
\* Whoever runs while another request takes a step has met it, for good.
LEMMA OthersMeet ==
    ASSUME Basic, NEW r \in Request, Does(r), NEW q \in Request, q # r, pc[q] \in Running
    PROVE  Meets(q)'
<1>1. Moves(r) /\ (Arrives(r) \/ Continues(r))
    BY DEF Does
<1>2. ~Answered(r) /\ ~Answered(q) /\ pc'[r] # "unsent"
    BY <1>1 DEF Arrives, Continues, Answered, Running, Outcome
<1>3. r \notin before'[q]
    BY <1>1, <1>2 DEF Moves, Basic, BeforeOK
<1>4. q \notin before'[r]
    BY <1>1, <1>2 DEF Arrives, Continues, Basic, BeforeOK
<1> QED
    BY <1>2, <1>3, <1>4 DEF Meets, Overlap

LEMMA MetStays ==
    ASSUME Basic, NEW r \in Request, Does(r), NEW q \in Request, pc[q] # "unsent", Meets(q)
    PROVE  Meets(q)'
<1>1. PICK p \in Request : Overlap(p, q)
    BY DEF Meets
<1>2. \A x \in Request : pc[x] # "unsent" => pc'[x] # "unsent" /\ before'[x] = before[x]
    BY DEF Does, Moves, Arrives, Continues, Running, Outcome
<1> QED
    BY <1>1, <1>2 DEF Overlap, Meets

Overlapping == RunsClear /\ FailsByOverlap

LEMMA OverlappingStays ==
    ASSUME Basic, Overlapping, NEW r \in Request, Arrival(r) \/ Progress(r)
    PROVE  Overlapping'
<1>1. Does(r) /\ Moves(r)
    BY DEF Arrival, Progress, Does
<1>2. ASSUME NEW q \in Request
      PROVE  /\ pc'[q] \in Running => (Meets(q) \/ Clear(q))'
             /\ pc'[q] = "failed" /\ req'[q].op \notin Unchecked => Meets(q)'
  <2>1. CASE q # r
    <3>1. pc'[q] = pc[q] /\ req'[q] = req[q]
        BY <1>1, <2>1 DEF Moves
    <3>2. pc[q] \in Running => Meets(q)'
        BY <1>1, <2>1, OthersMeet
    <3>3. pc[q] = "failed" /\ req[q].op \notin Unchecked => Meets(q)'
      <4>1. pc[q] = "failed" /\ req[q].op \notin Unchecked => Meets(q)
          BY DEF Overlapping, FailsByOverlap, Meets
      <4> QED
          BY <1>1, <4>1, MetStays
    <3> QED
        BY <3>1, <3>2, <3>3
  <2>2. CASE q = r /\ Arrival(r)
      BY <2>2 DEF Arrival, Arrives, Running
  <2>3. CASE q = r /\ Progress(r)
    <3>1. pc[r] \in Running /\ req'[r] = req[r] /\ pc'[r] \in Outcome \cup {"create_init"}
        BY <2>3 DEF Progress, Continues
    <3>2. Meets(r) => Meets(r)'
        BY <1>1, <3>1, MetStays DEF Running
    <3>3. Meets(r) \/ Clear(r)
        BY <3>1 DEF Overlapping, RunsClear
    <3>4. pc'[r] = "create_init" /\ Clear(r) => Clear(r)'
      <4> SUFFICES ASSUME pc'[r] = "create_init", Clear(r) PROVE Clear(r)'
          OBVIOUS
      <4>1. /\ req[r].op = "createGroup" /\ category' = category /\ gcat' = gcat
            /\ creator' = creator
            /\ \A c \in DOMAIN plan'[r] : category[c] # None
          BY <2>3 DEF Progress, tables, B!Owns
      <4> QED
          BY <3>1, <4>1 DEF Clear, Shares, WriteOps
    <3>5. pc'[r] = "failed" /\ req[r].op \notin Unchecked => ~Clear(r)
        BY <2>3 DEF Progress
    <3> QED
        BY <2>3, <3>1, <3>2, <3>3, <3>4, <3>5 DEF Running, Outcome
  <2> QED
      BY <2>1, <2>2, <2>3
<1> QED
    BY <1>2 DEF Overlapping, RunsClear, FailsByOverlap, Meets

LEMMA OverlappingStutters == Overlapping /\ UNCHANGED vars => Overlapping'
BY DEF vars, tables, Overlapping, RunsClear, FailsByOverlap, Meets, Overlap, Clear, Shares, Linked

(* A request that passed its checks, and answers with a 500, ran at the same
   time as another one: alone, every foreign key and unique index it meets
   was checked (deleteCategory and the names of group categories aside). *)
THEOREM FailsByOverlapAlways == Spec => []FailsByOverlap
<1>1. Init => Overlapping
    BY DEF Init, Overlapping, RunsClear, FailsByOverlap, Running
<1>2. Basic /\ Overlapping /\ [Next]_vars => Overlapping'
    BY StepCases, OverlappingStays, OverlappingStutters
<1>3. Overlapping => FailsByOverlap
    BY DEF Overlapping
<1> QED
    BY <1>1, <1>2, <1>3, BasicAlways, PTL DEF Spec
-----------------------------------------------------------------------------
LEMMA FilledStays ==
    ASSUME Basic, Filled, NEW r \in Request, Arrival(r) \/ Progress(r)
    PROVE  Filled'
<1>1. Does(r) /\ Moves(r) /\ Owners(r) /\ Takes(r)
    BY DEF Arrival, Progress, Does
<1> SUFFICES ASSUME NEW q \in Request, pc'[q] = "done", req'[q].op = "createGroup",
                    creator'[req'[q].group] # None
             PROVE  \/ Injection(DOMAIN plan'[q], CategoriesOf(req[q].group)') # {}
                    \/ \E p \in Request : pc'[p] = "done" /\ req'[p].op = "deleteGroupCategory"
                                         /\ req'[p].group = req'[q].group
    BY DEF Filled
<1>2. CASE q = r /\ Arrival(r)
    BY <1>2 DEF Arrival
<1>3. CASE q = r /\ Progress(r)
    BY <1>3 DEF Progress, Continues
<1>4. CASE q # r
  <2> DEFINE g == req[q].group
  <2>1. pc[q] = "done" /\ req'[q] = req[q] /\ plan'[q] = plan[q] /\ req[q].op = "createGroup"
      BY <1>1, <1>4 DEF Moves
  <2>2. g \in Group \ unused /\ creator[g] # None
    <3>1. g \in Group \ unused
        BY <2>1 DEF Basic, ShapeOK, Shape, GroupOps
    <3> QED
        BY <1>1, <2>1, <3>1 DEF Owners
  <2>3. ASSUME NEW p \in Request, pc[p] = "done", req[p].op = "deleteGroupCategory",
               req[p].group = g
        PROVE  pc'[p] = "done" /\ req'[p] = req[p]
      BY <1>1, <2>3, RowsStay DEF Moves
  <2>4. ASSUME Injection(DOMAIN plan[q], CategoriesOf(g)) # {}
        PROVE  \/ Injection(DOMAIN plan[q], CategoriesOf(g)') # {}
               \/ \E p \in Request : pc'[p] = "done" /\ req'[p].op = "deleteGroupCategory"
                                    /\ req'[p].group = g
    <3>1. PICK f : f \in Injection(DOMAIN plan[q], CategoriesOf(g))
        BY <2>4
    <3>2. CASE \A k \in CategoriesOf(g) : gcat'[k] # None
      <4>1. \A k \in CategoriesOf(g) : k \in GroupCategory \ unused /\ gcat[k] # None /\ gcat[k].group = g
          BY TypeOKParts DEF Basic, TablesTyped, UnusedOK, CategoriesOf, Shares
      <4>2. \A k \in CategoriesOf(g) : k \in GroupCategory /\ gcat'[k] # None /\ gcat'[k].group = g
          BY <1>1, <3>2, <4>1 DEF Owners
      <4>3. CategoriesOf(g) \subseteq CategoriesOf(g)'
          BY <2>1, <4>2 DEF CategoriesOf, Shares
      <4>4. f \in Injection(DOMAIN plan[q], CategoriesOf(g)')
          BY <3>1, <4>3 DEF Injection
      <4> QED
          BY <4>4
    <3>3. ASSUME NEW k \in CategoriesOf(g), gcat'[k] = None
          PROVE  \E p \in Request : pc'[p] = "done" /\ req'[p].op = "deleteGroupCategory"
                                   /\ req'[p].group = g
      <4>1. k \in GroupCategory /\ gcat[k] # None /\ gcat[k].group = g
          BY DEF CategoriesOf, Shares
      <4>2. creator'[g] # None
          BY <2>1
      <4>3. Commits(r) /\ req[r].op = "deleteGroupCategory" /\ req[r].id = k
          BY <1>1, <3>3, <4>1, <4>2 DEF Takes
      <4>4. req[r].group = g
          BY <4>1, <4>3 DEF Basic, ShapeOK, Shape, Ours
      <4>5. req'[r] = req[r]
          BY <1>1, <4>3 DEF Does, Arrives, Continues, Commits
      <4> QED
          BY <4>3, <4>4, <4>5 DEF Commits
    <3> QED
        BY <3>2, <3>3
  <2> QED
      BY <2>1, <2>2, <2>3, <2>4 DEF Filled
<1> QED
    BY <1>2, <1>3, <1>4

(* A founder who was told that the group was created finds in it a category
   for each one that createGroup had read, unless one was deleted since: the
   copies and the links are made in one transaction, which the answer awaits. *)
THEOREM CreatedGroupIsFilledAlways == Spec => []CreatedGroupIsFilled
<1>1. Init => Filled
    BY DEF Init, Filled
<1>2. Basic /\ Filled /\ [Next]_vars => Filled'
  <2> SUFFICES ASSUME Basic, Filled, [Next]_vars PROVE Filled'
      OBVIOUS
  <2>1. CASE UNCHANGED vars
      BY <2>1 DEF vars, tables, Filled, CategoriesOf, Shares
  <2>2. CASE Next
      BY <2>2, StepCases, FilledStays
  <2> QED
      BY <2>1, <2>2
<1>3. Filled => CreatedGroupIsFilled
  <2>1. ASSUME NEW g, NEW S, Injection(S, CategoriesOf(g)) # {}
        PROVE  Cardinality({k \in GroupCategory : Shares(k, g)}) >= Cardinality(S)
    <3>1. PICK f : f \in Injection(S, CategoriesOf(g))
        BY <2>1
    <3>2. IsFiniteSet(CategoriesOf(g))
        BY FiniteAssumption, FS_Subset DEF CategoriesOf
    <3>3. IsFiniteSet(S) /\ Cardinality(S) <= Cardinality(CategoriesOf(g))
        BY <3>1, <3>2, FS_Injection
    <3>4. Cardinality(S) \in Nat /\ Cardinality(CategoriesOf(g)) \in Nat
        BY <3>2, <3>3, FS_CardinalityType
    <3> QED
        BY <3>3, <3>4 DEF CategoriesOf
  <2> QED
      BY <2>1 DEF Filled, CreatedGroupIsFilled
<1> QED
    BY <1>1, <1>2, <1>3, BasicAlways, PTL DEF Spec
-----------------------------------------------------------------------------
\* p is no request, or one that was sent.
WasSent(p) == p = None \/ (p \in Request /\ pc[p] # "unsent")

\* Retyped, after the step.
RetypedNext(x, p, t) == \E q \in Request :
    /\ pc'[q] = "done" /\ req'[q].op \in {"updateCategory", "updateGroupCategory"}
    /\ req'[q].id = x /\ req'[q].type = t /\ (p = None \/ q \notin before'[p])

\* A category that was retyped stays so ...
LEMMA RetypedStays ==
    ASSUME Basic, NEW r \in Request, Does(r), NEW x, NEW p, NEW t, WasSent(p),
           Retyped(x, p, t)
    PROVE  RetypedNext(x, p, t)
<1>1. PICK q \in Request :
          /\ pc[q] = "done" /\ req[q].op \in {"updateCategory", "updateGroupCategory"}
          /\ req[q].id = x /\ req[q].type = t /\ (p = None \/ q \notin before[p])
    BY DEF Retyped
<1>2. Moves(r) /\ pc'[q] = "done" /\ q # r
    BY <1>1, RowsStay DEF Does
<1>3. req'[q] = req[q]
    BY <1>2 DEF Moves
<1>4. p # None => before'[p] = before[p]
    BY DEF WasSent, Does, Moves, Arrives, Continues
<1>5. p = None \/ q \notin before'[p]
    BY <1>1, <1>4
<1> QED
    BY <1>1, <1>2, <1>3, <1>5 DEF RetypedNext

\* ... and is retyped by a step that changes its type.
LEMMA RetypedNow ==
    ASSUME Basic, NEW r \in Request, Does(r), NEW x, NEW p, WasSent(p), Commits(r),
           req[r].op \in {"updateCategory", "updateGroupCategory"}, req[r].id = x
    PROVE  RetypedNext(x, p, req[r].type)
<1>1. pc'[r] = "done" /\ req'[r] = req[r] /\ ~Answered(r)
    BY DEF Does, Commits, Arrives, Continues, Answered, Outcome
<1>2. p # None => before'[p] = before[p]
    BY DEF WasSent, Does, Moves, Arrives, Continues
<1>3. p # None => r \notin before'[p]
    BY <1>1, <1>2 DEF WasSent, Basic, BeforeOK
<1> QED
    BY <1>1, <1>3 DEF RetypedNext

\* So a category's type is what it was, or the category is retyped.
LEMMA TypeStays ==
    ASSUME Basic, NEW r \in Request, Does(r), NEW c \in Category \ unused, category'[c] # None,
           NEW p, WasSent(p)
    PROVE  /\ category[c] # None
           /\ \/ category'[c].type = category[c].type
              \/ RetypedNext(c, p, category'[c].type)
<1>1. category[c] # None
    BY DEF Does, Owners
<1>2. CASE category'[c].type # category[c].type
  <2>1. /\ Commits(r) /\ req[r].op = "updateCategory" /\ req[r].id = c
        /\ category'[c].type = req[r].type
      BY <1>2 DEF Does, Types
  <2> QED
      BY <1>1, <2>1, RetypedNow
<1> QED
    BY <1>1, <1>2

LEMMA SharedTypeStays ==
    ASSUME Basic, NEW r \in Request, Does(r), NEW k \in GroupCategory \ unused, gcat'[k] # None,
           NEW p, WasSent(p)
    PROVE  /\ gcat[k] # None
           /\ \/ gcat'[k].type = gcat[k].type
              \/ RetypedNext(k, p, gcat'[k].type)
<1>1. gcat[k] # None
    BY DEF Does, Owners
<1>2. CASE gcat'[k].type # gcat[k].type
  <2>1. /\ Commits(r) /\ req[r].op = "updateGroupCategory" /\ req[r].id = k
        /\ gcat'[k].type = req[r].type
      BY <1>2 DEF Does, Types
  <2> QED
      BY <1>1, <2>1, RetypedNow
<1> QED
    BY <1>1, <1>2

Typed == TypesChecked /\ TypesDifferByRetype

\* A request that has yet to write, while another one takes a step.
LEMMA OthersTypesStay ==
    ASSUME Basic, Typed, NEW r \in Request, Does(r), NEW q \in Request, q # r
    PROVE  /\ pc'[q] = "write" /\ req'[q].op \in WriteOps =>
                  LET c == req'[q].cat
                  IN  category'[c] # None /\ category'[c].type # req'[q].type
                          => RetypedNext(c, q, category'[c].type)
           /\ pc'[q] = "write" /\ req'[q].op = "connect" =>
                  \A k \in Linked(req'[q].to) :
                      LET c == req'[q].to[k]
                      IN  category'[c] # None /\ gcat'[k] # None /\ category'[c].type # gcat'[k].type
                              => \/ RetypedNext(c, q, category'[c].type)
                                 \/ RetypedNext(k, q, gcat'[k].type)
           /\ pc'[q] = "create_init" =>
                  \A c \in DOMAIN plan'[q] :
                      category'[c] # None /\ category'[c].type # plan'[q][c].type
                          => RetypedNext(c, q, category'[c].type)
<1>1. pc'[q] = pc[q] /\ req'[q] = req[q] /\ plan'[q] = plan[q] /\ Shape(q) /\ TypesChecked
    BY DEF Does, Moves, Basic, ShapeOK, Typed
<1>2. pc[q] # "unsent" => \A x, t : Retyped(x, q, t) => RetypedNext(x, q, t)
    BY RetypedStays DEF WasSent
<1>3. pc[q] # "unsent" => \A c \in Category \ unused : category'[c] # None =>
          /\ category[c] # None
          /\ category'[c].type = category[c].type \/ RetypedNext(c, q, category'[c].type)
    BY TypeStays DEF WasSent
<1>4. pc[q] # "unsent" => \A k \in GroupCategory \ unused : gcat'[k] # None =>
          /\ gcat[k] # None
          /\ gcat'[k].type = gcat[k].type \/ RetypedNext(k, q, gcat'[k].type)
    BY SharedTypeStays DEF WasSent
<1>5. ASSUME pc[q] = "write", req[q].op \in WriteOps, category'[req[q].cat] # None,
             category'[req[q].cat].type # req[q].type
      PROVE  RetypedNext(req[q].cat, q, category'[req[q].cat].type)
  <2>1. req[q].cat \in Category \ unused
      BY <1>1, <1>5 DEF Shape, Mine
  <2> QED
      BY <1>1, <1>2, <1>3, <1>5, <2>1 DEF TypesChecked
<1>6. ASSUME pc[q] = "write", req[q].op = "connect", NEW k \in Linked(req[q].to),
             category'[req[q].to[k]] # None, gcat'[k] # None,
             category'[req[q].to[k]].type # gcat'[k].type
      PROVE  \/ RetypedNext(req[q].to[k], q, category'[req[q].to[k]].type)
             \/ RetypedNext(k, q, gcat'[k].type)
  <2>1. req[q].to[k] \in Category \ unused /\ k \in GroupCategory \ unused
      BY <1>1, <1>6 DEF Shape, ToOK, Mine, Ours, Linked
  <2>2. category[req[q].to[k]] # None /\ gcat[k] # None
        /\ category[req[q].to[k]].type # gcat[k].type
            => \/ Retyped(req[q].to[k], q, category[req[q].to[k]].type)
               \/ Retyped(k, q, gcat[k].type)
      BY <1>1, <1>6 DEF TypesChecked
  <2> QED
      BY <1>2, <1>3, <1>4, <1>6, <2>1, <2>2
<1>7. ASSUME pc[q] = "create_init", NEW c \in DOMAIN plan[q], category'[c] # None,
             category'[c].type # plan[q][c].type
      PROVE  RetypedNext(c, q, category'[c].type)
  <2>1. c \in Category \ unused
      BY <1>1, <1>7 DEF Shape, PlanOK, Mine
  <2> QED
      BY <1>1, <1>2, <1>3, <1>7, <2>1 DEF TypesChecked
<1> QED
    BY <1>1, <1>5, <1>6, <1>7

LEMMA TypesCheckedStays ==
    ASSUME Basic, Typed, NEW r \in Request, Arrival(r) \/ Progress(r)
    PROVE  TypesChecked'
<1>1. Does(r)
    BY DEF Arrival, Progress
<1>2. CASE Arrival(r)
  <2>1. pc'[r] # "create_init" /\ (pc'[r] = "write" => Matched(r)')
      BY <1>2 DEF Arrival, Arrives
  <2> QED
      BY <1>1, <2>1, OthersTypesStay DEF TypesChecked, Matched, Linked, Retyped, RetypedNext
<1>3. CASE Progress(r)
  <2>1. pc'[r] # "write"
      BY <1>3 DEF Progress, Continues, Outcome
  <2>2. pc'[r] = "create_init" => \A c \in DOMAIN plan'[r] : category'[c].type = plan'[r][c].type
      BY <1>3 DEF Progress, tables
  <2> QED
      BY <1>1, <2>1, <2>2, OthersTypesStay DEF TypesChecked, Linked, Retyped, RetypedNext
<1> QED
    BY <1>2, <1>3

LEMMA OperationTypesStay ==
    ASSUME Basic, Typed, NEW r \in Request, Does(r), Basic', NEW o \in Operation,
           operation'[o] # None, category'[operation'[o].cat].type # operation'[o].type
    PROVE  RetypedNext(operation'[o].cat, opBy'[o], category'[operation'[o].cat].type)
<1>1. operation'[o].cat \in Category /\ category'[operation'[o].cat] # None
    BY TypeOKPartsNext DEF Basic, B!TypeOK, B!OperationRow, B!RowsAgree, B!OperationsAgree, B!Owns
<1>2. \/ operation'[o] = operation[o] /\ opBy'[o] = opBy[o]
      \/ /\ Commits(r) /\ pc[r] = "write" /\ req[r].op \in WriteOps /\ opBy'[o] = r
         /\ operation'[o].cat = req[r].cat /\ operation'[o].type = req[r].type
         /\ category' = category /\ category[req[r].cat] # None
    BY DEF Does, Types
<1> DEFINE c == operation'[o].cat
<1>3. CASE operation'[o] = operation[o] /\ opBy'[o] = opBy[o]
  <2> DEFINE p == opBy[o]
  <2>1. c = operation[o].cat /\ operation[o] # None /\ c \in Category \ unused
    <3>1. category[c] # None
        BY <1>3 DEF Basic, B!RowsAgree, B!OperationsAgree, B!Owns
    <3> QED
        BY <1>1, <1>3, <3>1, TypeOKParts DEF Basic, TablesTyped, UnusedOK
  <2>2. WasSent(p)
      BY TypeOKParts DEF WasSent, Basic, TablesTyped, HistoryTyped, HistoryOK
  <2>3. category[c].type # operation[o].type => Retyped(c, p, category[c].type)
      BY <2>1 DEF Typed, TypesDifferByRetype
  <2> HIDE DEF c, p
  <2>4. category'[c].type = category[c].type \/ RetypedNext(c, p, category'[c].type)
      BY <1>1, <2>1, <2>2, TypeStays DEF c
  <2>5. Retyped(c, p, category[c].type) => RetypedNext(c, p, category[c].type)
      BY <2>2, RetypedStays
  <2>6. RetypedNext(c, p, category'[c].type)
      BY <1>3, <2>3, <2>4, <2>5 DEF c
  <2> QED
      BY <1>3, <2>6 DEF c, p
<1>4. CASE /\ Commits(r) /\ pc[r] = "write" /\ req[r].op \in WriteOps /\ opBy'[o] = r
           /\ c = req[r].cat /\ operation'[o].type = req[r].type
           /\ category' = category /\ category[req[r].cat] # None
  <2>1. Retyped(req[r].cat, r, category[req[r].cat].type)
      BY <1>4 DEF Typed, TypesChecked
  <2>2. RetypedNext(req[r].cat, r, category[req[r].cat].type)
      BY <1>4, <2>1, RetypedStays DEF WasSent
  <2> QED
      BY <1>4, <2>2
<1> QED
    BY <1>2, <1>3, <1>4

LEMMA LinkTypesStay ==
    ASSUME Basic, Typed, NEW r \in Request, Does(r), Basic', NEW k \in GroupCategory, NEW u \in User,
           link'[<<k, u>>] # None,
           category'[link'[<<k, u>>]].type # gcat'[k].type
    PROVE  \/ RetypedNext(link'[<<k, u>>], linkBy'[<<k, u>>], category'[link'[<<k, u>>]].type)
           \/ RetypedNext(k, linkBy'[<<k, u>>], gcat'[k].type)
<1> DEFINE i == <<k, u>>
           c == link'[i]
<1>1. i \in GroupCategory \X User /\ i[1] = k
    OBVIOUS
<1>2. c \in Category /\ category'[c] # None /\ gcat'[k] # None
    BY TypeOKPartsNext DEF Basic, B!TypeOK, B!RowsAgree, B!LinksAgree, B!Owns
<1> HIDE DEF i
<1>3. \/ link'[i] = link[i] /\ linkBy'[i] = linkBy[i]
      \/ /\ Commits(r) /\ Draws(r, i) /\ linkBy'[i] = r
         /\ category' = category /\ category[link'[i]] # None /\ gcat'[i[1]] # None
    BY <1>1 DEF Does, Types, i
<1>4. CASE link'[i] = link[i] /\ linkBy'[i] = linkBy[i]
  <2> DEFINE p == linkBy[i]
  <2>1. c \in Category \ unused /\ k \in GroupCategory \ unused
    <3>1. category[c] # None /\ gcat[k] # None
        BY <1>4 DEF Basic, B!RowsAgree, B!LinksAgree, B!Owns, i
    <3> QED
        BY <1>2, <3>1, TypeOKParts DEF Basic, TablesTyped, UnusedOK
  <2>2. WasSent(p)
      BY <1>1, TypeOKParts DEF WasSent, Basic, TablesTyped, HistoryTyped, HistoryOK
  <2>3. category[c].type # gcat[k].type
          => Retyped(c, p, category[c].type) \/ Retyped(k, p, gcat[k].type)
      BY <1>4 DEF Typed, TypesDifferByRetype, i
  <2> HIDE DEF c, p
  <2>4. category'[c].type = category[c].type \/ RetypedNext(c, p, category'[c].type)
      BY <1>2, <2>1, <2>2, TypeStays
  <2>5. gcat'[k].type = gcat[k].type \/ RetypedNext(k, p, gcat'[k].type)
      BY <1>2, <2>1, <2>2, SharedTypeStays
  <2>6. /\ Retyped(c, p, category[c].type) => RetypedNext(c, p, category[c].type)
        /\ Retyped(k, p, gcat[k].type) => RetypedNext(k, p, gcat[k].type)
      BY <2>2, RetypedStays
  <2>7. category'[c].type # gcat'[k].type
      BY DEF c, i
  <2>8. RetypedNext(c, p, category'[c].type) \/ RetypedNext(k, p, gcat'[k].type)
      BY <2>3, <2>4, <2>5, <2>6, <2>7
  <2> QED
      BY <1>4, <2>8 DEF c, p, i
<1>5. CASE /\ Commits(r) /\ Draws(r, i) /\ linkBy'[i] = r
           /\ category' = category /\ category[c] # None /\ gcat'[k] # None
  <2>1. TypesChecked /\ WasSent(r)
      BY <1>5 DEF Typed, WasSent, Commits
  <2>2. category[c].type # gcat'[k].type
      BY <1>5 DEF i
  <2> HIDE DEF c
  <2>3. Retyped(c, r, category[c].type) \/ Retyped(k, r, gcat'[k].type)
    <3>1. CASE /\ req[r].op = "connect" /\ pc[r] = "write" /\ gcat' = gcat
               /\ k \in Linked(req[r].to) /\ c = req[r].to[k]
        BY <1>5, <2>1, <2>2, <3>1 DEF TypesChecked
    <3>2. CASE /\ pc[r] = "create_init" /\ c \in DOMAIN plan[r]
               /\ gcat'[k].type = plan[r][c].type
        BY <1>5, <2>1, <2>2, <3>2 DEF TypesChecked
    <3> QED
        BY <1>1, <1>5, <3>1, <3>2 DEF Draws, c
  <2>4. RetypedNext(c, r, category[c].type) \/ RetypedNext(k, r, gcat'[k].type)
      BY <2>1, <2>3, RetypedStays
  <2> QED
      BY <1>5, <2>4 DEF c, i
<1> QED
    BY <1>1, <1>3, <1>4, <1>5

LEMMA TypedStays ==
    ASSUME Basic, Typed, NEW r \in Request, Arrival(r) \/ Progress(r)
    PROVE  Typed'
<1>1. Does(r) /\ Basic'
    BY BasicStays DEF Arrival, Progress
<1>2. TypesChecked'
    BY TypesCheckedStays
<1>3. \A o \in Operation :
          operation'[o] # None /\ category'[operation'[o].cat].type # operation'[o].type
              => RetypedNext(operation'[o].cat, opBy'[o], category'[operation'[o].cat].type)
    BY <1>1, OperationTypesStay
<1>4. \A k \in GroupCategory, u \in User :
          LET i == <<k, u>>
          IN  link'[i] # None /\ category'[link'[i]].type # gcat'[k].type
                  => \/ RetypedNext(link'[i], linkBy'[i], category'[link'[i]].type)
                     \/ RetypedNext(k, linkBy'[i], gcat'[k].type)
    BY <1>1, LinkTypesStay
<1>5. TypesDifferByRetype'
    BY <1>3, <1>4 DEF TypesDifferByRetype, Retyped, RetypedNext
<1> QED
    BY <1>2, <1>5 DEF Typed

(* An operation, or a link, whose type is not that of its category was
   overtaken by a change of the category's type (updateCategory and
   updateGroupCategory leave what refers to the category alone), made after, or at the
   same time as, the request that wrote it: a request that writes has
   compared the types, and what it compared differs only if retyped since. *)
THEOREM TypesDifferByRetypeAlways == Spec => []TypesDifferByRetype
<1>1. Init => Typed
  <2> SUFFICES ASSUME Init PROVE Typed
      OBVIOUS
  <2>1. TypesChecked
      BY DEF Init, TypesChecked
  <2>2. TypesDifferByRetype
      BY DEF Init, TypesAgree, TypesDifferByRetype
  <2> QED
      BY <2>1, <2>2 DEF Typed
<1>2. Basic /\ Typed /\ [Next]_vars => Typed'
  <2> SUFFICES ASSUME Basic, Typed, [Next]_vars PROVE Typed'
      OBVIOUS
  <2>1. CASE UNCHANGED vars
    <3>1. TypesChecked'
        BY <2>1 DEF vars, tables, Typed, TypesChecked, Retyped, Linked
    <3>2. TypesDifferByRetype'
        BY <2>1 DEF vars, tables, Typed, TypesDifferByRetype, Retyped
    <3> QED
        BY <3>1, <3>2 DEF Typed
  <2>2. CASE Next
      BY <2>2, StepCases, TypedStays
  <2> QED
      BY <2>1, <2>2
<1>3. Typed => TypesDifferByRetype
    BY DEF Typed
<1> QED
    BY <1>1, <1>2, <1>3, BasicAlways, PTL DEF Spec
=============================================================================
