------------------------------ MODULE Reports -------------------------------
(***************************************************************************)
(* What the readers of the books show: the statistics and the lists of     *)
(* operations of an account and of a group, as pure operators on the       *)
(* tables of Books, which the properties below compare with each other in  *)
(* every state the tables can reach.                                       *)
(*                                                                         *)
(* An amount is an integer (nothing refuses one below zero), a date an     *)
(* instant; both stay with the operation's id.  A filter that a query      *)
(* leaves out is None.  Names, colours and comments are left out, and so   *)
(* is the order of categories by their sum.  A percentage is rounded down. *)
(***************************************************************************)
EXTENDS Books, Integers, Sequences, SequencesExt, FiniteSetsExt

CONSTANTS
    Member,     \* Member[g]: the users with a UserRelationGroupUser row in g
    Amount,     \* Amount[o]: operation.value
    At,         \* At[o]: operation.operationDate
    DayLength,  \* instants in a day of the server
    Date        \* the dates queries ask for, with None

ASSUME MemberAssumption == Member \in [Group -> SUBSET User]
ASSUME AmountAssumption == Amount \in [Operation -> Int] /\ At \in [Operation -> Nat]
\* Tables hold finitely many rows.
ASSUME FiniteAssumption ==
    IsFiniteSet(User) /\ IsFiniteSet(Category) /\ IsFiniteSet(Operation)

\* A filter that is left out is no value of it.
ASSUME FilterAssumption == None \notin User \cup GroupCategory \cup Type

ASSUME DateAssumption   == Date \subseteq Nat \cup {None} /\ DayLength \in Nat \ {0}

Empty ==
    /\ category = [c \in Category |-> None] /\ gcat = [k \in GroupCategory |-> None]
    /\ link = [i \in GroupCategory \X User |-> None] /\ operation = [o \in Operation |-> None]

ReportsSpec == Empty /\ [][Next]_books
-----------------------------------------------------------------------------
Total(S) == SumFunctionOnSet(Amount, S)
Share(part, whole) == IF whole > 0 THEN (part * 100) \div whole ELSE 0
Statistic(sums) ==
    LET whole == SumFunction(sums)
    IN  [totalSum |-> whole,
         rows |-> [x \in DOMAIN sums |-> [sum |-> sums[x], share |-> Share(sums[x], whole)]]]

\* Operations dated from `from` to `to`, of type t, of the category c.
Within(from, to) == {o \in Operation : /\ operation[o] # None
                                       /\ from = None \/ At[o] >= from
                                       /\ to = None \/ At[o] <= to}
OfType(t) == {o \in Operation : operation[o] # None /\ (t = None \/ operation[o].type = t)}
InCategory(c) == {o \in Operation : operation[o] # None /\ operation[o].cat = c}

\* Mutant of Positive: every amount counts.
AnyAmount == Operation

\* getStatCategories: the categories of type t, with what their operations of
\* type t sum up to; only positive amounts count.
Positive == {o \in Operation : Amount[o] > 0}

Chosen(c, t, from, to) == InCategory(c) \cap OfType(t) \cap Within(from, to) \cap Positive

PersonalStat(u, t, from, to) ==
    LET mine == {c \in Category : Owns(u, c) /\ (t = None \/ category[c].type = t)}
        sums == [c \in mine |-> Total(Chosen(c, t, from, to))]
    IN  Statistic(Restrict(sums, {c \in mine : sums[c] > 0}))

\* getOperations of the operation service.
OwnOperations(u, t, from, to, c) ==
    {o \in OfType(t) \cap Within(from, to) :
        operation[o].user = u /\ (c = None \/ operation[o].cat = c)}

\* orderBy operationDate desc: any such order of the operations S ...
Ordered(S) == {q \in SetToSeqs(S) : \A i, j \in DOMAIN q : i < j => At[q[i]] >= At[q[j]]}

\* Mutant of Day: the time stays in the key.
Moment(o) == At[o]

\* ... split into the days of the server, in the order they are met.
Day(o) == At[o] \div DayLength

ByDate(q) ==
    LET add(days, o) ==
            IF \E i \in DOMAIN days : days[i].date = Day(o)
            THEN [i \in DOMAIN days |-> IF days[i].date = Day(o)
                     THEN [days[i] EXCEPT !.operations = Append(@, o)] ELSE days[i]]
            ELSE Append(days, [date |-> Day(o), operations |-> <<o>>])
    IN  FoldLeft(add, <<>>, q)
-----------------------------------------------------------------------------
\* Mutant of Joined: operations of any type.
JoinedAnyType(k, from, to) ==
    {p \in Within(from, to) \X User : link[<<k, p[2]>>] = operation[p[1]].cat}

\* getUserGroupStat: each category of the group joined with its links and with
\* the operations of the linked categories that have the type of the group's
\* category; sums of zero or less are left out (HAVING, and again the service).
Joined(k, from, to) ==
    {p \in Within(from, to) \X User : /\ link[<<k, p[2]>>] = operation[p[1]].cat
                                      /\ operation[p[1]].type = gcat[k].type}

Shared(g, t) == {k \in GroupCategory : gcat[k] # None /\ gcat[k].group = g
                                       /\ (t = None \/ gcat[k].type = t)}

GroupStat(g, t, from, to) ==
    LET joins(k) == [p \in Joined(k, from, to) |-> Amount[p[1]]]
        sums == [k \in Shared(g, t) |-> SumFunction(joins(k))]
    IN  Statistic(Restrict(sums, {k \in Shared(g, t) : sums[k] > 0}))

\* Categories that somebody linked to one of the group categories K.
LinkedTo(K) == {link[<<k, u>>] : k \in K, u \in User} \ {None}

\* getUserGroupOperations, by default of every category of the group.
GroupOperations(g, t, from, to, k) ==
    {o \in OfType(t) \cap Within(from, to) :
        /\ operation[o].cat \in LinkedTo(Shared(g, None))
        /\ k = None \/ operation[o].cat \in LinkedTo({k})}

\* ... shown to members of the group, others get a 404.
GroupPage(u, g, t, from, to, k) ==
    IF u \in Member[g] THEN GroupOperations(g, t, from, to, k) ELSE {}

\* Mutant of GroupsOf: every group.
GroupsAtAll(u) == Group

\* getOperationById: one's own, or findOperationByIdVisibleToGroupMember.
GroupsOf(u) == {g \in Group : u \in Member[g]}

VisibleInGroups(u, o) ==
    operation[o].cat \in LinkedTo(UNION {Shared(g, None) : g \in GroupsOf(u)})

Visible(u, o) == operation[o] # None /\ (operation[o].user = u \/ VisibleInGroups(u, o))
-----------------------------------------------------------------------------
\* The statistic and the list of a group, two queries over different tables,
\* agree: the list filtered by a group category and its type sums up to that
\* category's row, and the statistic hides a category only for want of a sum.
StatMatchesList ==
    \A g \in Group, from, to \in Date : \A k \in Shared(g, None) :
        LET t == gcat[k].type
            rows == GroupStat(g, t, from, to).rows
            listed == Total(GroupOperations(g, t, from, to, k))
        IN  IF k \in DOMAIN rows THEN rows[k].sum = listed ELSE listed <= 0

\* The group's row is the sum of what its members see in their own lists under
\* the categories they linked: nothing is counted twice or for another account.
GroupSumsItsMembers ==
    \A g \in Group, from, to \in Date : \A k \in Shared(g, None) :
        LET linked == {u \in User : link[<<k, u>>] # None}
            own == [u \in linked |->
                       Total(OwnOperations(u, gcat[k].type, from, to, link[<<k, u>>]))]
            rows == GroupStat(g, None, from, to).rows
        IN  k \in DOMAIN rows => rows[k].sum = SumFunction(own)

\* An account's statistic and its list of one type differ exactly by the
\* amounts not above zero and by operations whose category changed its type.
StatGap ==
    \A u \in User, t \in Type, from, to \in Date :
        LET listed == OwnOperations(u, t, from, to, None)
        IN  Total(listed) = PersonalStat(u, t, from, to).totalSum
              + Total({o \in listed : Amount[o] <= 0 \/ category[operation[o].cat].type # t})

\* A list by days shows each of its operations once, under its day, and each
\* day once, the latest first, whatever the order within an instant.
DaysPartition ==
    \A u \in User, t \in Type \cup {None} :
        \A S \in {OwnOperations(u, t, None, None, None)}
                    \cup {GroupPage(u, g, t, None, None, None) : g \in Group} :
            \A q \in Ordered(S) :
                LET days == ByDate(q)
                IN  /\ \A i, j \in DOMAIN days : i < j => days[i].date > days[j].date
                    /\ \A i \in DOMAIN days :
                           /\ IsInjective(days[i].operations)
                           /\ Range(days[i].operations) =
                                {o \in S : At[o] \div DayLength = days[i].date}
                    /\ UNION {Range(days[i].operations) : i \in DOMAIN days} = S

\* "Same visibility rules as getUserGroupOperations": somebody else's operation
\* can be read by its id exactly when some list of one's groups shows it.
SameVisibility ==
    \A u \in User, o \in Operation :
        Visible(u, o) /\ operation[o].user # u <=>
            /\ operation[o] # None /\ operation[o].user # u
            /\ \E g \in Group : o \in GroupPage(u, g, None, None, None, None)
=============================================================================
