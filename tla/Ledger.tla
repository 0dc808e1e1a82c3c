------------------------------- MODULE Ledger -------------------------------
(***************************************************************************)
(* The handlers that write a household's books: CategoryService,           *)
(* OperationService and the category side of UserGroupService, one action  *)
(* per database statement or transaction.  What a handler checked may be   *)
(* stale when it writes.  Ledger implements Books.                         *)
(*                                                                         *)
(* A request r runs one handler once; the operation it inserts is named r. *)
(* Other rows take a never used id.  Accounts are neither created nor      *)
(* deleted here and nobody joins a group: see Credentials and Membership.  *)
(* Colours, icons, comments, amounts and dates are left out, and so is the *)
(* name of a group, which no handler reads.  A connect payload names each  *)
(* group category once.  Deadlocks and write conflicts between database    *)
(* transactions are not modelled.                                          *)
(***************************************************************************)
EXTENDS FiniteSets, Functions

CONSTANTS
    User, Group, Category, GroupCategory, Name, None,  \* as in Books
    Request,    \* the requests ever sent, and the operations they insert
    Old,        \* the operations that exist at first
    Lower,      \* Lower[n]: n.toLowerCase()
    Start,      \* the tables the model may start from
    Ops         \* the operations clients use

OpKinds == {"createCategory", "updateCategory", "deleteCategory", "createOperation",
            "updateOperation", "deleteOperation", "createGroup", "renameGroup", "removeGroup",
            "addGroupCategory", "updateGroupCategory", "deleteGroupCategory", "connect", "kick"}

ASSUME OpsAssumption   == Ops \subseteq OpKinds
ASSUME OldAssumption   == Old \cap Request = {}
ASSUME IdsAssumption   == /\ Category \cap GroupCategory = {} /\ Category \cap Group = {}
                          /\ GroupCategory \cap Group = {}
ASSUME FiniteAssumption == IsFiniteSet(GroupCategory)
ASSUME NoneAssumption  == None \notin User \cup Group \cup Category \cup GroupCategory \cup Name
                                     \cup Request \cup Old \cup OpKinds \cup {"EXPENSE", "INCOME"}
ASSUME LowerAssumption == Lower \in [Name -> Name] /\ \A n \in Name : Lower[Lower[n]] = Lower[n]

VARIABLES
    category, gcat, link, operation,  \* the tables of Books
    creator,    \* creator[g]: creatorId of the group with id g, or None
    members,    \* members[g]: the users with a UserRelationGroupUser row
    unused,     \* the ids not yet given to a row
    req,        \* req[r]: what request r asks for
    pc,         \* pc[r]: the statement request r runs next, or its outcome
    plan,       \* plan[r]: the categories createGroup read, with their rows
    before,     \* history: requests answered when r was sent
    opBy,       \* history: opBy[o], the request that last wrote operation o
    linkBy      \* history: linkBy[<<k, u>>], the request that drew the link, or None

Operation == Old \cup Request

B == INSTANCE Books

ASSUME RowAssumption == None \notin B!PersonalRow \cup B!SharedRow \cup B!OperationRow

tables  == <<category, gcat, link, operation, creator, members, unused, opBy, linkBy>>
vars    == <<tables, req, pc, plan, before>>

Payload == UNION {[K -> Category \cup {None}] : K \in SUBSET GroupCategory}
Blank == [op |-> None, user |-> None, group |-> None, id |-> None, cat |-> None,
          name |-> None, type |-> None, member |-> None, to |-> [k \in {} |-> None]]
Call  == [op : OpKinds \cup {None}, user : User \cup {None}, group : Group \cup {None},
          id : Category \cup GroupCategory \cup Operation \cup {None}, cat : Category \cup {None},
          name : Name \cup {None}, type : B!Type \cup {None}, member : User \cup {None},
          to : Payload]
Running == {"write", "create_read", "create_init"}
Outcome == {"done", "rejected", "conflict", "failed", "aborted"}

\* A group that is gone has left nothing behind ...
GroupsOK ==
    /\ creator \in [Group -> User \cup {None}]
    /\ members \in [Group -> SUBSET User]
    /\ \A k \in GroupCategory : gcat[k] # None => creator[gcat[k].group] # None
    /\ \A g \in Group : creator[g] = None => members[g] = {}

\* ... and a row had its id from the unused ones.
UnusedOK ==
    /\ unused \subseteq Category \cup GroupCategory \cup Group
    /\ \A k \in GroupCategory \cap unused : gcat[k] = None
    /\ \A c \in Category \cap unused : category[c] = None
    /\ \A g \in Group \cap unused : creator[g] = None

TypeOK ==
    /\ B!TypeOK /\ GroupsOK /\ UnusedOK
    /\ req \in [Request -> Call]
    /\ pc \in [Request -> {"unsent"} \cup Running \cup Outcome]
    /\ plan \in [Request -> UNION {[C -> B!PersonalRow] : C \in SUBSET Category}]
    /\ before \in [Request -> SUBSET Request]
    /\ opBy \in [Operation -> Request \cup {None}]
    /\ linkBy \in [GroupCategory \X User -> Request \cup {None}]

\* Operations and links have the type of their category, as when first written.
TypesAgree ==
    /\ \A o \in Operation :
           operation[o] # None => category[operation[o].cat].type = operation[o].type
    /\ \A k \in GroupCategory, u \in User :
           link[<<k, u>>] # None => category[link[<<k, u>>]].type = gcat[k].type

Init ==
    /\ \E s \in Start :
           /\ category = s.category /\ gcat = s.gcat /\ link = s.link
           /\ creator = s.creator /\ members = s.members
           /\ operation = [o \in Operation |-> IF o \in Old THEN s.operation[o] ELSE None]
    /\ B!Init /\ GroupsOK /\ TypesAgree
    /\ unused = {c \in Category : category[c] = None} \cup {g \in Group : creator[g] = None}
                    \cup {k \in GroupCategory : gcat[k] = None}
    /\ req = [r \in Request |-> Blank]
    /\ pc = [r \in Request |-> "unsent"]
    /\ plan = [r \in Request |-> [c \in {} |-> None]]
    /\ before = [r \in Request |-> {}]
    /\ opBy = [o \in Operation |-> None]
    /\ linkBy = [i \in GroupCategory \X User |-> None]

Answered(r) == pc[r] \in Outcome
Sees(u, g)  == creator[g] # None /\ u \in members[g]
Manages(u, g) == Sees(u, g) /\ creator[g] = u
Shares(k, g)  == gcat[k] # None /\ gcat[k].group = g
-----------------------------------------------------------------------------
\* Request r, unsent so far, reaches its handler, which checks ok and goes on to
\* next; what a refused request asked for is forgotten.
Ask(r, call, ok, next) ==
    /\ call.op \in Ops
    /\ req' = [req EXCEPT ![r] = IF ok THEN call ELSE Blank]
    /\ pc' = [pc EXCEPT ![r] = IF ok THEN next ELSE "rejected"]
    /\ before' = [before EXCEPT ![r] = {q \in Request : Answered(q)}]
    /\ UNCHANGED plan

\* The handler checks, then writes.
Check(r, call, ok) == Ask(r, call, ok, "write") /\ UNCHANGED tables

\* Request r, which runs op, is at `from` and goes on to next.
Step(r, op, from, next) ==
    /\ req[r].op = op /\ pc[r] = from
    /\ pc' = [pc EXCEPT ![r] = next]
    /\ UNCHANGED <<req, before>>

\* The last statement of r, run for good, or refused with nothing written.
Writes(r, op)  == Step(r, op, "write", "done") /\ UNCHANGED plan
Refused(r, op, outcome) == Step(r, op, "write", outcome) /\ UNCHANGED <<tables, plan>>
-----------------------------------------------------------------------------
\* createCategory: no row of the user's has this name, in lower case, and type ...
Named(u, n, t) == [user |-> u, name |-> Lower[n], type |-> t]

Held(table, row, x) == \E y \in DOMAIN table : y # x /\ table[y] = row

CreateCategory(r, u, n, t) ==
    Check(r, [Blank EXCEPT !.op = "createCategory", !.user = u, !.name = n, !.type = t],
          ~Held(category, Named(u, n, t), None))

\* ... and then the insert, whose unique index has the last word.
CreateCategoryWrite(r) ==
    LET row == Named(req[r].user, req[r].name, req[r].type)
    IN  \/ /\ Writes(r, "createCategory") /\ ~Held(category, row, None)
           /\ \E c \in Category \cap unused :
                  category' = [category EXCEPT ![c] = row] /\ unused' = unused \ {c}
           /\ UNCHANGED <<gcat, link, operation, creator, members, opBy, linkBy>>
        \/ Refused(r, "createCategory", "conflict") /\ Held(category, row, None)

\* updateCategory: name and type may change, whatever refers to the category ...
UpdateCategory(r, u, c, n, t) ==
    Check(r, [Blank EXCEPT !.op = "updateCategory", !.user = u, !.id = c, !.name = n, !.type = t],
          B!Owns(u, c) /\ ~Held(category, Named(u, n, t), c))

\* ... updateMany writes nothing when the category is gone (404).
UpdateCategoryWrite(r) ==
    LET c == req[r].id
        row == Named(req[r].user, req[r].name, req[r].type)
    IN  \/ /\ Writes(r, "updateCategory")
           /\ category[c] # None /\ ~Held(category, row, c)
           /\ category' = [category EXCEPT ![c] = row]
           /\ UNCHANGED <<gcat, link, operation, creator, members, unused, opBy, linkBy>>
        \/ Refused(r, "updateCategory", "conflict") /\ category[c] # None /\ Held(category, row, c)
        \/ Refused(r, "updateCategory", "rejected") /\ category[c] = None

\* deleteCategory: the maps go with it (onDelete: Cascade), the operations do
\* not, and make the delete fail with a 500, as a category gone does.
LinksTo(C) == {i \in DOMAIN link : link[i] \in C}
Unlinked(I) == [i \in DOMAIN link |-> IF i \in I THEN None ELSE link[i]]

\* Mutant of InUse: no foreign key from operations.
NeverInUse(c) == FALSE

InUse(c) == \E o \in Operation : operation[o] # None /\ operation[o].cat = c

DeleteCategory(r, u, c) ==
    Check(r, [Blank EXCEPT !.op = "deleteCategory", !.user = u, !.id = c], B!Owns(u, c))

DeleteCategoryWrite(r) ==
    LET c == req[r].id
    IN  \/ /\ Writes(r, "deleteCategory")
           /\ category[c] # None /\ ~InUse(c)
           /\ category' = [category EXCEPT ![c] = None]
           /\ link' = Unlinked(LinksTo({c}))
           /\ UNCHANGED <<gcat, operation, creator, members, unused, opBy, linkBy>>
        \/ Refused(r, "deleteCategory", "failed") /\ (category[c] = None \/ InUse(c))
-----------------------------------------------------------------------------
\* requireCategoryForUser and assertOperationTypeMatchesCategory.
Usable(u, c, t) == B!Owns(u, c) /\ category[c].type = t

CreateOperation(r, u, c, t) ==
    Check(r, [Blank EXCEPT !.op = "createOperation", !.user = u, !.cat = c, !.type = t],
          Usable(u, c, t))

OwnOperation(u, o) == operation[o] # None /\ operation[o].user = u

\* updateOperation also looks the operation up; the row's owner cannot change,
\* and the write looks again.
UpdateOperation(r, u, o, c, t) ==
    Check(r, [Blank EXCEPT !.op = "updateOperation", !.user = u, !.id = o, !.cat = c, !.type = t],
          OwnOperation(u, o) /\ Usable(u, c, t))

\* The insert, or the update of a row still there, of a category still there.
WriteOperation(r) ==
    \E op \in {"createOperation", "updateOperation"} :
        LET o == IF op = "createOperation" THEN r ELSE req[r].id
            there == op = "createOperation" \/ operation[o] # None
        IN  \/ /\ Writes(r, op)
               /\ there /\ category[req[r].cat] # None
               /\ operation' = [operation EXCEPT ![o] =
                     [user |-> req[r].user, cat |-> req[r].cat, type |-> req[r].type]]
               /\ opBy' = [opBy EXCEPT ![o] = r]
               /\ UNCHANGED <<category, gcat, link, creator, members, unused, linkBy>>
            \/ Refused(r, op, "rejected") /\ ~there
            \/ Refused(r, op, "failed") /\ there /\ category[req[r].cat] = None

\* deleteOperation: one transaction.
DeleteOperation(r, u, o) ==
    LET call == [Blank EXCEPT !.op = "deleteOperation", !.user = u, !.id = o]
    IN  \/ /\ OwnOperation(u, o)
           /\ Ask(r, call, TRUE, "done")
           /\ operation' = [operation EXCEPT ![o] = None]
           /\ UNCHANGED <<category, gcat, link, creator, members, unused, opBy, linkBy>>
        \/ Check(r, call, FALSE) /\ ~OwnOperation(u, o)
-----------------------------------------------------------------------------
\* create: the group with its first member, who can use it at once ...
CreateGroup(r, u) ==
    \E g \in Group \cap unused :
        /\ Ask(r, [Blank EXCEPT !.op = "createGroup", !.user = u, !.group = g], TRUE, "create_read")
        /\ creator' = [creator EXCEPT ![g] = u]
        /\ members' = [members EXCEPT ![g] = {u}]
        /\ unused' = unused \ {g}
        /\ UNCHANGED <<category, gcat, link, operation, opBy, linkBy>>

\* ... then the founder's categories are read ...
CreateGroupRead(r) ==
    /\ Step(r, "createGroup", "create_read", "create_init")
    /\ plan' = [plan EXCEPT ![r] =
                   [c \in {d \in Category : B!Owns(req[r].user, d)} |-> category[c]]]
    /\ UNCHANGED tables

\* Mutant of InitOutcome: the handler answers without waiting for the transaction.
InitIgnored(fits) == "done"

\* ... and in one transaction each is copied into the group and linked.  A
\* category or the group gone, a name already taken in the group or a category
\* already linked in it makes the whole fail; the group stays.
InitOutcome(fits) == IF fits THEN "done" ELSE "failed"

CreateGroupInit(r) ==
    LET u == req[r].user
        g == req[r].group
        C == DOMAIN plan[r]
        copy(c) == [group |-> g, name |-> plan[r][c].name, type |-> plan[r][c].type]
        fits == /\ creator[g] # None
                /\ \A c \in C : /\ category[c] # None /\ ~Held(gcat, copy(c), None)
                                /\ \A k \in GroupCategory : Shares(k, g) => link[<<k, u>>] # c
    IN  /\ Step(r, "createGroup", "create_init", InitOutcome(fits))
        /\ \/ /\ fits
              /\ \E f \in Injection(C, GroupCategory \cap unused) :
                     LET new == {f[c] : c \in C}
                         of == Inverse(f, C, new)
                         mine == {i \in DOMAIN link : i[1] \in new /\ i[2] = u}
                     IN  /\ gcat' = [k \in GroupCategory |->
                                        IF k \in new THEN copy(of[k]) ELSE gcat[k]]
                         /\ link' = [i \in DOMAIN link |-> IF i \in mine THEN of[i[1]] ELSE link[i]]
                         /\ linkBy' = [i \in DOMAIN link |-> IF i \in mine THEN r ELSE linkBy[i]]
                         /\ unused' = unused \ new
              /\ UNCHANGED <<category, operation, creator, members, opBy, plan>>
           \/ ~fits /\ UNCHANGED <<tables, plan>>
-----------------------------------------------------------------------------
\* update: renames a group; only whether it can matters here.
RenameGroup(r, u, g) ==
    Check(r, [Blank EXCEPT !.op = "renameGroup", !.user = u, !.group = g], Manages(u, g))

RenameGroupWrite(r) ==
    \/ Writes(r, "renameGroup") /\ creator[req[r].group] # None /\ UNCHANGED tables
    \/ Refused(r, "renameGroup", "failed") /\ creator[req[r].group] = None

\* createGroupCategory: the name is taken as typed.  Nothing turns a violation
\* of the unique index into a 409.
AddGroupCategory(r, u, g, n, t) ==
    Check(r, [Blank EXCEPT !.op = "addGroupCategory", !.user = u, !.group = g, !.name = n,
                           !.type = t], Manages(u, g))

AddGroupCategoryWrite(r) ==
    LET row == [group |-> req[r].group, name |-> req[r].name, type |-> req[r].type]
        fits == creator[req[r].group] # None /\ ~Held(gcat, row, None)
    IN  \/ /\ Writes(r, "addGroupCategory") /\ fits
           /\ \E k \in GroupCategory \cap unused :
                  gcat' = [gcat EXCEPT ![k] = row] /\ unused' = unused \ {k}
           /\ UNCHANGED <<category, link, operation, creator, members, opBy, linkBy>>
        \/ Refused(r, "addGroupCategory", "failed") /\ ~fits

\* updateGroupCategory: the caller manages the group, then the category is of
\* this group (it stays so); the links drawn under its former type stay.
UpdateGroupCategory(r, u, g, k, n, t) ==
    Check(r, [Blank EXCEPT !.op = "updateGroupCategory", !.user = u, !.group = g, !.id = k,
                           !.name = n, !.type = t], Manages(u, g) /\ Shares(k, g))

UpdateGroupCategoryWrite(r) ==
    LET k == req[r].id
        row == [group |-> req[r].group, name |-> req[r].name, type |-> req[r].type]
        fits == gcat[k] # None /\ ~Held(gcat, row, k)
    IN  \/ /\ Writes(r, "updateGroupCategory") /\ fits
           /\ gcat' = [gcat EXCEPT ![k] = row]
           /\ UNCHANGED <<category, link, operation, creator, members, unused, opBy, linkBy>>
        \/ Refused(r, "updateGroupCategory", "failed") /\ ~fits

\* Rows of group categories go, and the links to them (onDelete: Cascade).
Drop(K) == /\ gcat' = [k \in GroupCategory |-> IF k \in K THEN None ELSE gcat[k]]
           /\ link' = Unlinked({i \in DOMAIN link : i[1] \in K})
           /\ UNCHANGED <<category, operation, unused, opBy, linkBy>>

DeleteGroupCategory(r, u, g, k) ==
    Check(r, [Blank EXCEPT !.op = "deleteGroupCategory", !.user = u, !.group = g, !.id = k],
          Manages(u, g) /\ Shares(k, g))

DeleteGroupCategoryWrite(r) ==
    LET k == req[r].id
    IN  \/ /\ Writes(r, "deleteGroupCategory") /\ gcat[k] # None
           /\ Drop({k})
           /\ UNCHANGED <<creator, members>>
        \/ Refused(r, "deleteGroupCategory", "failed") /\ gcat[k] = None

\* Mutant of CategoriesOf: the group's categories are left behind.
CategoriesKept(g) == {}

\* remove: the group, its members, categories and links.
CategoriesOf(g) == {k \in GroupCategory : Shares(k, g)}

RemoveGroup(r, u, g) ==
    Check(r, [Blank EXCEPT !.op = "removeGroup", !.user = u, !.group = g], Manages(u, g))

RemoveGroupWrite(r) ==
    LET g == req[r].group
    IN  \/ /\ Writes(r, "removeGroup") /\ creator[g] # None
           /\ Drop(CategoriesOf(g))
           /\ creator' = [creator EXCEPT ![g] = None]
           /\ members' = [members EXCEPT ![g] = {}]
        \/ Refused(r, "removeGroup", "failed") /\ creator[g] = None

\* removeMember: the member's links in the group and the membership, in one
\* transaction of deleteMany.
Kick(r, u, g, v) ==
    Check(r, [Blank EXCEPT !.op = "kick", !.user = u, !.group = g, !.member = v],
          Manages(u, g) /\ v # u)

KickWrite(r) ==
    LET g == req[r].group
        v == req[r].member
    IN  /\ Writes(r, "kick")
        /\ link' = Unlinked({i \in DOMAIN link : i[2] = v /\ Shares(i[1], g)})
        /\ members' = [members EXCEPT ![g] = @ \ {v}]
        /\ UNCHANGED <<category, gcat, operation, creator, unused, opBy, linkBy>>
-----------------------------------------------------------------------------
\* connectGroupCategoriesToPersonalCategories: to[k] is the caller's category
\* for the group category k, None to disconnect.  No category twice, and every
\* pair of rows read exists, is the group's or the caller's, of one type ...
Linked(to) == {k \in DOMAIN to : to[k] # None}

\* Mutant of Matching: the types are not compared.
MatchingAny(to) == TRUE

Matching(to) == \A k \in Linked(to) : category[to[k]].type = gcat[k].type

Connect(r, u, g, to) ==
    Check(r, [Blank EXCEPT !.op = "connect", !.user = u, !.group = g, !.to = to],
          /\ Sees(u, g)
          /\ \A k, j \in Linked(to) : to[k] = to[j] => k = j
          /\ \A k \in DOMAIN to : Shares(k, g)
          /\ \A k \in Linked(to) : B!Owns(u, to[k])
          /\ Matching(to))

\* Mutant of Cut: the former links of the categories in the payload are kept.
CutDisconnected(r) == {i \in DOMAIN link : i[2] = req[r].user /\ i[1] \in DOMAIN req[r].to
                                           /\ req[r].to[i[1]] = None}

\* ... and then one transaction: the links to be cut are deleted, with those of
\* the categories in the payload, and the others are upserted.
Cut(r) == LET a == req[r]
          IN  {i \in DOMAIN link : /\ i[2] = a.user
                                   /\ \/ i[1] \in DOMAIN a.to \ Linked(a.to)
                                      \/ Shares(i[1], a.group) /\ link[i] # None
                                         /\ \E k \in Linked(a.to) : a.to[k] = link[i]}

ConnectWrite(r) ==
    LET to == req[r].to
        u == req[r].user
        drawn == {i \in DOMAIN link : i[2] = u /\ i[1] \in Linked(to)}
        next == [i \in DOMAIN link |-> IF i \in drawn THEN to[i[1]] ELSE Unlinked(Cut(r))[i]]
        fits == /\ \A k \in Linked(to) : gcat[k] # None /\ category[to[k]] # None
                /\ \A k \in Linked(to), j \in GroupCategory :
                       Shares(j, req[r].group) /\ next[<<j, u>>] = to[k] => j = k
    IN  \/ /\ Writes(r, "connect") /\ fits
           /\ link' = next
           /\ linkBy' = [i \in DOMAIN link |-> IF i \in drawn THEN r ELSE linkBy[i]]
           /\ UNCHANGED <<category, gcat, operation, creator, members, unused, opBy>>
        \/ Refused(r, "connect", "failed") /\ ~fits
-----------------------------------------------------------------------------
\* The process stops, or loses the database, between two statements of r.
Abort(r) == /\ pc[r] \in Running
            /\ pc' = [pc EXCEPT ![r] = "aborted"]
            /\ UNCHANGED <<tables, req, plan, before>>

PersonalRequest(r, u) ==
    \/ \E n \in Name, t \in B!Type : CreateCategory(r, u, n, t)
    \/ \E c \in Category :
           \/ \E n \in Name, t \in B!Type : UpdateCategory(r, u, c, n, t)
           \/ DeleteCategory(r, u, c)
           \/ \E t \in B!Type : \/ CreateOperation(r, u, c, t)
                               \/ \E o \in Operation : UpdateOperation(r, u, o, c, t)
    \/ \E o \in Operation : DeleteOperation(r, u, o)

GroupRequest(r, u, g) ==
    \/ RenameGroup(r, u, g)
    \/ RemoveGroup(r, u, g)
    \/ \E n \in Name, t \in B!Type :
           \/ AddGroupCategory(r, u, g, n, t)
           \/ \E k \in GroupCategory : UpdateGroupCategory(r, u, g, k, n, t)
    \/ \E k \in GroupCategory : DeleteGroupCategory(r, u, g, k)
    \/ \E v \in User : Kick(r, u, g, v)
    \/ \E K \in SUBSET GroupCategory : \E to \in [K -> Category \cup {None}] : Connect(r, u, g, to)

Continue(r) ==
    \/ CreateCategoryWrite(r) \/ UpdateCategoryWrite(r) \/ DeleteCategoryWrite(r)
    \/ WriteOperation(r) \/ CreateGroupRead(r) \/ CreateGroupInit(r) \/ RenameGroupWrite(r)
    \/ AddGroupCategoryWrite(r) \/ UpdateGroupCategoryWrite(r) \/ DeleteGroupCategoryWrite(r)
    \/ RemoveGroupWrite(r) \/ KickWrite(r) \/ ConnectWrite(r) \/ Abort(r)

Next == \E r \in Request :
    \/ /\ pc[r] = "unsent"
       /\ \E u \in User : \/ PersonalRequest(r, u)
                          \/ CreateGroup(r, u)
                          \/ \E g \in Group : GroupRequest(r, u, g)
    \/ Continue(r)

Spec == Init /\ [][Next]_vars
-----------------------------------------------------------------------------
\* Ledger implements Books: whatever the requests interleave, operations and
\* links refer to live rows of their own account, no category of a member is
\* linked twice in a group, and rows are written only as Books allows.
BooksSpec == B!Spec

\* q and r ran at the same time.
Overlap(q, r) == q # r /\ pc[q] # "unsent" /\ q \notin before[r] /\ r \notin before[q]

\* A done request, not before r, that gave x the type t.
Retyped(x, r, t) == \E q \in Request :
    /\ pc[q] = "done" /\ req[q].op \in {"updateCategory", "updateGroupCategory"}
    /\ req[q].id = x /\ req[q].type = t /\ (r = None \/ q \notin before[r])

\* assertOperationTypeMatchesCategory, the check of connect, the copies made by
\* create: an operation, or a link, whose type is not that of its category was
\* overtaken by the change that gave the category its type, made after, or at
\* the same time as, the request that last wrote it.
TypesDifferByRetype ==
    /\ \A o \in Operation :
          LET c == operation[o].cat
          IN  operation[o] # None /\ category[c].type # operation[o].type
                  => Retyped(c, opBy[o], category[c].type)
    /\ \A k \in GroupCategory, u \in User :
          LET c == link[<<k, u>>]
              p == linkBy[<<k, u>>]
          IN  c # None /\ category[c].type # gcat[k].type
                  => Retyped(c, p, category[c].type) \/ Retyped(k, p, gcat[k].type)

\* A request that passed its checks fails with a 500 only if another request
\* ran at the same time; the two kinds that lack a check for what the schema
\* refuses (a category in use, a name taken in the group) are left out.
Unchecked == {"deleteCategory", "addGroupCategory", "updateGroupCategory"}
FailsByOverlap == \A r \in Request :
    pc[r] = "failed" /\ req[r].op \notin Unchecked => \E q \in Request : Overlap(q, r)

\* A founder who was told that the group was created has a category in the
\* group for each one that was read, unless one was deleted since.
CreatedGroupIsFilled == \A r \in Request :
    pc[r] = "done" /\ req[r].op = "createGroup" /\ creator[req[r].group] # None
        => \/ Cardinality({k \in GroupCategory : Shares(k, req[r].group)})
                >= Cardinality(DOMAIN plan[r])
           \/ \E q \in Request : pc[q] = "done" /\ req[q].op = "deleteGroupCategory"
                                /\ req[q].group = req[r].group
=============================================================================
