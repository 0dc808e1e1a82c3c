----------------------------- MODULE Membership -----------------------------
(***************************************************************************)
(* Groups, their members, invitations, and the members' shared categories: *)
(* the handlers of UserGroupService and UserService that write             *)
(* UserRelationGroup, UserRelationGroupUser and Invitation, together with  *)
(* AuthService.deleteAccount, which hands groups over.  One action per     *)
(* database statement or transaction (two for the transaction that reads   *)
(* before it writes); what a handler checked may be stale when it writes.  *)
(*                                                                         *)
(* A request r runs one handler once.  The invitation that request q wrote *)
(* for recipient v is named <<q, v>>.  PersonalCategoryMap is kept as the  *)
(* set of users with a map in the group.  Requests refused for what they   *)
(* contain are not sent.  The access JWT is not looked up, so an account   *)
(* deleted meanwhile may still send requests.                              *)
(***************************************************************************)
CONSTANTS
    User,       \* accounts, all existing at first
    Group,      \* group ids
    Request,    \* the requests ever sent
    None,       \* no group, no invitation, no answer
    Ops         \* the operations clients use

OpKinds == {"create", "invite", "respond", "kick", "remove", "connect", "deleteAccount"}

ASSUME OpsAssumption  == Ops \subseteq OpKinds
ASSUME NoneAssumption == None \notin User \cup Group \cup Request

VARIABLES
    account,    \* account[u] \in {"live", "gone"}: the User row
    group,      \* group[g] \in {"absent", "live", "gone"}: the UserRelationGroup row
    creator,    \* creator[g]: its creatorId, or None
    members,    \* members[g]: the users with a UserRelationGroupUser row
    maps,       \* maps[g]: the users with a PersonalCategoryMap row in g
    status,     \* status[<<q, v>>]: the Invitation row, or "none"
    req,        \* req[r]: what request r asks for
    pc,         \* pc[r]: the statement request r runs next, or its outcome
    plan,       \* plan[r]: groups of the account r deletes -> new creator, or None
    before      \* history: requests answered when r was sent

tables == <<account, group, creator, members, maps, status>>
vars == <<tables, req, pc, plan, before>>

Answers == {"ACCEPTED", "DECLINED", "CANCELLED"}
Call    == [op : OpKinds \cup {None}, user : User \cup {None}, group : Group \cup {None},
            to : SUBSET User, inv : Request \cup {None}, answer : Answers \cup {None}]
Running == {"create_maps", "invite_write", "respond_join", "respond_write", "kick_write",
            "remove_write", "connect_write", "delete_tx", "delete_commit"}
Outcome == {"done", "rejected", "conflict", "failed", "aborted"}
-----------------------------------------------------------------------------
TypeOK ==
    /\ account \in [User -> {"live", "gone"}]
    /\ group \in [Group -> {"absent", "live", "gone"}]
    /\ creator \in [Group -> User \cup {None}]
    /\ members \in [Group -> SUBSET User]
    /\ maps \in [Group -> SUBSET User]
    /\ status \in [Request \X User -> {"none", "PENDING"} \cup Answers]
    /\ req \in [Request -> Call]
    /\ pc \in [Request -> {"unsent"} \cup Running \cup Outcome]
    /\ plan \in [Request -> UNION {[mine -> User \cup {None}] : mine \in SUBSET Group}]
    /\ before \in [Request -> SUBSET Request]
    /\ \A g \in Group : group[g] = "live" <=> creator[g] # None

Answered(r) == pc[r] \in Outcome

\* getUserGroupById: the group, if the user is one of its members.
Sees(u, g)    == group[g] = "live" /\ u \in members[g]
Manages(u, g) == Sees(u, g) /\ creator[g] = u

\* Groups that exist already were founded and joined before the model starts,
\* by invitations since deleted with the account of the founder.
Init ==
    /\ account = [u \in User |-> "live"]
    /\ group \in [Group -> {"absent", "live"}]
    /\ creator \in [Group -> User \cup {None}]
    /\ members \in [Group -> SUBSET User]
    /\ \A g \in Group : IF group[g] = "live" THEN creator[g] \in members[g]
                                            ELSE creator[g] = None /\ members[g] = {}
    /\ maps \in [Group -> SUBSET User]
    /\ \A g \in Group : maps[g] \subseteq members[g]
    /\ status = [i \in Request \X User |-> "none"]
    /\ req = [r \in Request |-> [op |-> None, user |-> None, group |-> None, to |-> {},
                                 inv |-> None, answer |-> None]]
    /\ pc = [r \in Request |-> "unsent"]
    /\ plan = [r \in Request |-> [g \in {} |-> None]]
    /\ before = [r \in Request |-> {}]
-----------------------------------------------------------------------------
\* Request r reaches its handler and ends its first statement at `next`.
Send(r, op, u, g, to, inv, answer, next) ==
    /\ op \in Ops
    /\ pc[r] = "unsent"
    /\ req' = [req EXCEPT ![r] = [op |-> op, user |-> u, group |-> g, to |-> to,
                                  inv |-> inv, answer |-> answer]]
    /\ pc' = [pc EXCEPT ![r] = next]
    /\ before' = [before EXCEPT ![r] = {q \in Request : Answered(q)}]
    /\ UNCHANGED plan

Goto(r, from, next) == /\ pc[r] = from
                       /\ pc' = [pc EXCEPT ![r] = next]
                       /\ UNCHANGED <<req, plan, before>>

\* The statement of r meets a missing row or foreign key: a 500, nothing written.
Fails(r, from) == Goto(r, from, "failed") /\ UNCHANGED tables

InvitationsTo(g) == {i \in Request \X User : status[i] # "none" /\ req[i[1]].group = g}
-----------------------------------------------------------------------------
\* create: the group and its first member in one nested write ...
Create(r, u, g) ==
    \/ /\ account[u] = "live" /\ group[g] = "absent"
       /\ Send(r, "create", u, g, {}, None, None, "create_maps")
       /\ group' = [group EXCEPT ![g] = "live"]
       /\ creator' = [creator EXCEPT ![g] = u]
       /\ members' = [members EXCEPT ![g] = {u}]
       /\ UNCHANGED <<account, maps, status>>
    \/ /\ account[u] # "live" /\ group[g] = "absent"
       /\ Send(r, "create", u, g, {}, None, None, "failed")
       /\ UNCHANGED tables

\* ... then its categories, each mapped to one of the founder's own, which
\* may be none, in a transaction.
CreateMaps(r) ==
    LET g == req[r].group
    IN  \/ /\ Goto(r, "create_maps", "done")
           /\ group[g] = "live" /\ account[req[r].user] = "live"
           /\ maps' = [maps EXCEPT ![g] = @ \cup {req[r].user}]
           /\ UNCHANGED <<account, group, creator, members, status>>
        \/ /\ Goto(r, "create_maps", "done")
           /\ UNCHANGED tables
        \/ /\ Fails(r, "create_maps")
           /\ group[g] # "live" \/ account[req[r].user] # "live"

\* inviteToGroupByName: the recipients exist, the sender is the creator and a
\* member, and is not among the recipients ...
Invite(r, u, g, to) ==
    /\ to # {} /\ u \notin to
    /\ Send(r, "invite", u, g, to, None, None,
            IF Manages(u, g) /\ \A v \in to : account[v] = "live"
            THEN "invite_write" ELSE "rejected")
    /\ UNCHANGED tables

\* ... then one insert, which a PENDING invitation of any recipient to the
\* group (a partial unique index) or a missing row makes fail as a whole.
Unanswered(v, g) == \E q \in Request : status[<<q, v>>] = "PENDING" /\ req[q].group = g

InviteWrite(r) ==
    LET g == req[r].group
        exist == group[g] = "live" /\ \A v \in req[r].to \cup {req[r].user} : account[v] = "live"
    IN  \/ /\ Goto(r, "invite_write", "done")
           /\ exist
           /\ \A v \in req[r].to : ~Unanswered(v, g)
           /\ status' = [i \in Request \X User |->
                           IF i[1] = r /\ i[2] \in req[r].to THEN "PENDING" ELSE status[i]]
           /\ UNCHANGED <<account, group, creator, members, maps>>
        \/ /\ Goto(r, "invite_write", "conflict")
           /\ exist
           /\ \E v \in req[r].to : Unanswered(v, g)
           /\ UNCHANGED tables
        \/ /\ Fails(r, "invite_write")
           /\ ~exist

\* Mutant of Allowed: a recipient may change their mind about a refusal.
AllowedLate(old, role, new) ==
    \/ old = "PENDING" /\ role = "sender" /\ new = "CANCELLED"
    \/ old \in {"PENDING", "DECLINED"} /\ role = "recipient" /\ new \in {"ACCEPTED", "DECLINED"}
    \/ old = "ACCEPTED" /\ role = "sender" /\ new = "CANCELLED"

\* validTransitions: what the sender and the recipient may answer.
Allowed(old, role, new) ==
    \/ old = "PENDING" /\ role = "sender" /\ new = "CANCELLED"
    \/ old = "PENDING" /\ role = "recipient" /\ new \in {"ACCEPTED", "DECLINED"}
    \/ old = "ACCEPTED" /\ role = "sender" /\ new = "CANCELLED"

\* Mutants of Respond: everybody but the sender counts as the recipient; the
\* answer is written without joining the group.
RespondAnyone(r, u, q, v, answer) ==
    LET role == IF u = req[q].user THEN "sender" ELSE "recipient"
        ok   == /\ status[<<q, v>>] # "none"
                /\ Allowed(status[<<q, v>>], role, answer)
    IN  /\ req[q].op = "invite" /\ pc[q] = "done" /\ v \in req[q].to
        /\ Send(r, "respond", u, req[q].group, {v}, q, answer,
                IF ~ok THEN "rejected"
                ELSE IF answer = "ACCEPTED" THEN "respond_join" ELSE "respond_write")
        /\ UNCHANGED tables

RespondOnly(r, u, q, v, answer) ==
    LET role == IF u = v THEN "recipient" ELSE "sender"
        ok   == /\ status[<<q, v>>] # "none"
                /\ u \in {v, req[q].user}
                /\ Allowed(status[<<q, v>>], role, answer)
    IN  /\ req[q].op = "invite" /\ pc[q] = "done" /\ v \in req[q].to
        /\ Send(r, "respond", u, req[q].group, {v}, q, answer,
                IF ~ok THEN "rejected" ELSE "respond_write")
        /\ UNCHANGED tables

\* updateInvitation: reads invitation <<q, v>> and checks the transition ...
Respond(r, u, q, v, answer) ==
    LET role == IF u = v THEN "recipient" ELSE "sender"
        ok   == /\ status[<<q, v>>] # "none"
                /\ u \in {v, req[q].user}
                /\ Allowed(status[<<q, v>>], role, answer)
    IN  /\ req[q].op = "invite" /\ pc[q] = "done" /\ v \in req[q].to
        /\ Send(r, "respond", u, req[q].group, {v}, q, answer,
                IF ~ok THEN "rejected"
                ELSE IF answer = "ACCEPTED" THEN "respond_join" ELSE "respond_write")
        /\ UNCHANGED tables

\* ... addToGroup, which fails for a member on the unique membership ...
RespondJoin(r) ==
    LET g == req[r].group
        u == req[r].user
        exist == group[g] = "live" /\ account[u] = "live"
    IN  \/ /\ Goto(r, "respond_join", "respond_write")
           /\ exist /\ u \notin members[g]
           /\ members' = [members EXCEPT ![g] = @ \cup {u}]
           /\ UNCHANGED <<account, group, creator, maps, status>>
        \/ /\ Goto(r, "respond_join", "conflict")
           /\ exist /\ u \in members[g]
           /\ UNCHANGED tables
        \/ /\ Fails(r, "respond_join")
           /\ ~exist

\* ... and writes the answer, whatever the status is by now.
RespondWrite(r) ==
    \E v \in User :
        /\ pc[r] = "respond_write"
        /\ req[r].to = {v}
        /\ LET i == <<req[r].inv, v>>
           IN  \/ /\ Goto(r, "respond_write", "done")
                  /\ status[i] # "none"
                  /\ status' = [status EXCEPT ![i] = req[r].answer]
                  /\ UNCHANGED <<account, group, creator, members, maps>>
               \/ /\ Fails(r, "respond_write")
                  /\ status[i] = "none"

\* Mutant of Kick: the creator may be removed.
KickAnyone(r, u, g, v) ==
    /\ Send(r, "kick", u, g, {v}, None, None,
            IF Manages(u, g) THEN "kick_write" ELSE "rejected")
    /\ UNCHANGED tables

\* removeMember: the requester is the creator and a member, the member is not
\* the creator ...
Kick(r, u, g, v) ==
    /\ Send(r, "kick", u, g, {v}, None, None,
            IF Manages(u, g) /\ v # creator[g] THEN "kick_write" ELSE "rejected")
    /\ UNCHANGED tables

\* Mutant of KickWrite: the maps stay.
KickKeepsMaps(r) ==
    /\ Goto(r, "kick_write", "done")
    /\ members' = [members EXCEPT ![req[r].group] = @ \ req[r].to]
    /\ UNCHANGED <<account, group, creator, maps, status>>

\* ... then the member's maps and membership go in one transaction.
KickWrite(r) ==
    /\ Goto(r, "kick_write", "done")
    /\ maps' = [maps EXCEPT ![req[r].group] = @ \ req[r].to]
    /\ members' = [members EXCEPT ![req[r].group] = @ \ req[r].to]
    /\ UNCHANGED <<account, group, creator, status>>

\* remove: the requester is the creator and a member ...
Remove(r, u, g) ==
    /\ Send(r, "remove", u, g, {}, None, None,
            IF Manages(u, g) THEN "remove_write" ELSE "rejected")
    /\ UNCHANGED tables

\* ... then the group goes, with its members, invitations and maps.
RemoveWrite(r) ==
    LET g == req[r].group
    IN  \/ /\ Goto(r, "remove_write", "done")
           /\ group[g] = "live"
           /\ group' = [group EXCEPT ![g] = "gone"]
           /\ maps' = [maps EXCEPT ![g] = {}]
           /\ members' = [members EXCEPT ![g] = {}]
           /\ creator' = [creator EXCEPT ![g] = None]
           /\ status' = [i \in Request \X User |->
                           IF i \in InvitationsTo(g) THEN "none" ELSE status[i]]
           /\ UNCHANGED account
        \/ /\ Fails(r, "remove_write")
           /\ group[g] # "live"

\* connectGroupCategoriesToPersonalCategories: the caller is a member ...
Connect(r, u, g) ==
    /\ Send(r, "connect", u, g, {}, None, None,
            IF Sees(u, g) THEN "connect_write" ELSE "rejected")
    /\ UNCHANGED tables

\* ... then a transaction that leaves the caller with maps in the group, or
\* disconnects what the caller had there.
ConnectWrite(r) ==
    LET g == req[r].group
    IN  \/ /\ Goto(r, "connect_write", "done")
           /\ group[g] = "live" /\ account[req[r].user] = "live"
           /\ maps' = [maps EXCEPT ![g] = @ \cup {req[r].user}]
           /\ UNCHANGED <<account, group, creator, members, status>>
        \/ /\ Goto(r, "connect_write", "done")
           /\ maps' = [maps EXCEPT ![g] = @ \ {req[r].user}]
           /\ UNCHANGED <<account, group, creator, members, status>>
        \/ /\ Fails(r, "connect_write")
           /\ group[g] # "live" \/ account[req[r].user] # "live"

\* deleteAccount: the account is read and its password checked ...
DeleteAccount(r, u) ==
    /\ Send(r, "deleteAccount", u, None, {}, None, None,
            IF account[u] = "live" THEN "delete_tx" ELSE "rejected")
    /\ UNCHANGED tables

\* Mutant of DeletePlan: every group is deleted with its creator.
PlanWithoutHeirs(r) ==
    LET mine == {g \in Group : creator[g] = req[r].user}
    IN  /\ pc[r] = "delete_tx"
        /\ pc' = [pc EXCEPT ![r] = "delete_commit"]
        /\ plan' = [plan EXCEPT ![r] = [g \in mine |-> None]]
        /\ UNCHANGED <<tables, req, before>>

\* ... then a transaction deletes the account's maps, invitations and
\* memberships and finds the groups it created, each with one of the members
\* left, if any ...
DeletePlan(r) ==
    LET u    == req[r].user
        mine == {g \in Group : creator[g] = u}
    IN  /\ pc[r] = "delete_tx"
        /\ pc' = [pc EXCEPT ![r] = "delete_commit"]
        /\ \E heir \in [mine -> User \cup {None}] :
              /\ \A g \in mine : IF members[g] \ {u} = {} THEN heir[g] = None
                                                     ELSE heir[g] \in members[g] \ {u}
              /\ plan' = [plan EXCEPT ![r] = heir]
        /\ UNCHANGED <<tables, req, before>>

\* Mutants of DeleteCommit: a group keeps the account as its creator when there
\* is nobody to hand it to; the invitations of the account stay.
DeleteKeepsGroups(r) ==
    LET u == req[r].user
    IN  /\ Goto(r, "delete_commit", "done")
        /\ account[u] = "live"
        /\ account' = [account EXCEPT ![u] = "gone"]
        /\ creator' = [g \in Group |-> IF g \in DOMAIN plan[r] THEN plan[r][g] ELSE creator[g]]
        /\ members' = [g \in Group |-> members[g] \ {u}]
        /\ maps' = [g \in Group |-> maps[g] \ {u}]
        /\ UNCHANGED <<group, status>>

DeleteKeepsInvitations(r) ==
    LET u    == req[r].user
        mine == DOMAIN plan[r]
    IN  /\ Goto(r, "delete_commit", "done")
        /\ account[u] = "live"
        /\ \A g \in mine : group[g] = "live" /\ plan[r][g] # None
        /\ account' = [account EXCEPT ![u] = "gone"]
        /\ creator' = [g \in Group |-> IF g \in mine THEN plan[r][g] ELSE creator[g]]
        /\ members' = [g \in Group |-> members[g] \ {u}]
        /\ maps' = [g \in Group |-> maps[g] \ {u}]
        /\ UNCHANGED <<group, status>>

\* ... and hands each group it found to the member found with it, or deletes it,
\* and deletes the account.  Rows others committed in between are met by the
\* foreign keys: a group created meanwhile, a new creator whose account is gone
\* or a group that is gone fails the whole.  (A membership or an invitation of
\* the account committed in between fails it too; here it goes with the rest,
\* as if it had been written before the transaction.)
DeleteCommit(r) ==
    LET u    == req[r].user
        mine == DOMAIN plan[r]
        last == {g \in mine : plan[r][g] = None}
        ok   == /\ account[u] = "live"
                /\ \A g \in mine : group[g] = "live"
                /\ \A g \in mine \ last : account[plan[r][g]] = "live"
                /\ \A g \in Group : creator[g] = u => g \in mine
    IN  \/ /\ Goto(r, "delete_commit", "done")
           /\ ok
           /\ account' = [account EXCEPT ![u] = "gone"]
           /\ creator' = [g \in Group |-> IF g \in mine THEN plan[r][g] ELSE creator[g]]
           /\ group' = [g \in Group |-> IF g \in last THEN "gone" ELSE group[g]]
           /\ members' = [g \in Group |-> IF g \in last THEN {} ELSE members[g] \ {u}]
           /\ maps' = [g \in Group |-> IF g \in last THEN {} ELSE maps[g] \ {u}]
           /\ status' = [i \in Request \X User |->
                IF \/ i[2] = u \/ req[i[1]].user = u
                   \/ \E g \in last : i \in InvitationsTo(g)
                THEN "none" ELSE status[i]]
        \/ /\ Fails(r, "delete_commit")
           /\ ~ok

\* The handler stops between two statements.
Abort(r) ==
    /\ pc[r] \in Running
    /\ Goto(r, pc[r], "aborted")
    /\ UNCHANGED tables
-----------------------------------------------------------------------------
\* Each asks again for an unsent request; asking here saves TLC the trying.
Arrive(r) ==
    pc[r] = "unsent" /\ \E u \in User :
        \/ \E g \in Group : \/ Create(r, u, g) \/ Remove(r, u, g) \/ Connect(r, u, g)
                            \/ \E to \in SUBSET User : Invite(r, u, g, to)
                            \/ \E v \in User : Kick(r, u, g, v)
        \/ \E q \in Request, v \in User, answer \in Answers : Respond(r, u, q, v, answer)
        \/ DeleteAccount(r, u)

Continue(r) ==
    \/ CreateMaps(r) \/ InviteWrite(r) \/ RespondJoin(r) \/ RespondWrite(r)
    \/ KickWrite(r) \/ RemoveWrite(r) \/ ConnectWrite(r)
    \/ DeletePlan(r) \/ DeleteCommit(r)

Next == \E r \in Request : Arrive(r) \/ Continue(r) \/ Abort(r)

Spec == Init /\ [][Next]_vars
-----------------------------------------------------------------------------
\* q and r were in progress at the same time.
Overlap(q, r) == q # r /\ pc[q] # "unsent" /\ q \notin before[r] /\ r \notin before[q]

Did(r, op) == req[r].op = op /\ pc[r] = "done"

\* No row refers to one that is gone: what was checked before a group or an
\* account was deleted is not written after it.
ReferencesHold ==
    /\ \A g \in Group : group[g] # "live" => members[g] = {} /\ maps[g] = {}
    /\ \A g \in Group, u \in User :
          account[u] = "gone" => u \notin members[g] \cup maps[g] /\ creator[g] # u
    /\ \A q \in Request, v \in User : status[<<q, v>>] # "none" =>
          group[req[q].group] = "live" /\ account[v] = "live" /\ account[req[q].user] = "live"

\* A live group has its creator among its members, unless a removal decided by
\* the former creator ran after that creator's account handed the group over to
\* the very member being removed: nothing else may leave a group whose creator
\* cannot see it (getUserGroupById), and which nobody can manage or delete.
CreatorLostByOverlap ==
    \A g \in Group : group[g] = "live" /\ creator[g] \notin members[g] =>
        \E q, d \in Request :
            /\ Did(q, "kick") /\ req[q].group = g /\ creator[g] \in req[q].to
            /\ Did(d, "deleteAccount") /\ req[d].user = req[q].user
            /\ Overlap(q, d)

\* The shared categories of someone who is not a member (any more) were
\* connected by a request in progress while the membership was removed.
StrayMapsByOverlap ==
    \A g \in Group, u \in User : u \in maps[g] \ members[g] =>
        \E c, q \in Request :
            /\ req[c].op \in {"connect", "create"} /\ pc[c] = "done"
            /\ req[c].user = u /\ req[c].group = g
            /\ Did(q, "kick") /\ req[q].group = g /\ u \in req[q].to
            /\ Overlap(c, q)

\* An accepted invitation has made its recipient a member, who is one still
\* unless removed by a request that was not answered before the acceptance was
\* sent: joining comes before the answer is written, and the answer of a join
\* that fails is not written.
AcceptedHaveJoined ==
    \A q \in Request, v \in User :
        status[<<q, v>>] = "ACCEPTED" /\ v \notin members[req[q].group] =>
            \E r, k \in Request :
                /\ Did(r, "respond") /\ req[r].inv = q /\ req[r].to = {v}
                /\ req[r].answer = "ACCEPTED"
                /\ Did(k, "kick") /\ req[k].group = req[q].group /\ v \in req[k].to
                /\ k \notin before[r]

\* Two answers given to an invitation one after the other are the acceptance and
\* the sender's cancellation of it, unless a third request answered the
\* invitation at the same time as the first: a decline or cancellation is final.
AnswersFollowTable ==
    \A q, r \in Request :
        /\ Did(q, "respond") /\ Did(r, "respond") /\ q \in before[r]
        /\ req[q].inv = req[r].inv /\ req[q].to = req[r].to
        => \/ req[q].answer = "ACCEPTED" /\ req[r].answer = "CANCELLED"
           \/ \E p \in Request : /\ Did(p, "respond") /\ Overlap(p, q)
                                 /\ req[p].inv = req[q].inv
                                 /\ req[p].to = req[q].to

\* No recipient has two unanswered invitations to one group.
OneUnanswered ==
    \A i, j \in Request \X User :
        /\ status[i] = "PENDING" /\ status[j] = "PENDING"
        /\ i[2] = j[2] /\ req[i[1]].group = req[j[1]].group
        => i = j

\* Whoever joins an existing group was invited to it by an earlier request that
\* stored an invitation naming them.
JoinNeedsInvitation ==
    [][\A g \in Group : group[g] = "live" =>
         \A u \in members'[g] \ members[g] :
            \E q \in Request : Did(q, "invite") /\ req[q].group = g /\ u \in req[q].to]_vars

\* A group goes only because somebody who managed it when asking removed it, or
\* with the account of its creator: and then every other member joined by
\* accepting an invitation while that account was being deleted.
GroupsOutliveCreators ==
    [][\A g \in Group : group[g] = "live" /\ group'[g] = "gone" =>
         \/ \E r \in Request : Did(r, "remove")' /\ ~Did(r, "remove") /\ req[r].group = g
         \/ \E d \in Request :
              /\ Did(d, "deleteAccount")' /\ ~Did(d, "deleteAccount")
              /\ creator[g] = req[d].user
              /\ \A v \in members[g] \ {creator[g]} :
                   \E j \in Request : /\ req[j].op = "respond" /\ req[j].answer = "ACCEPTED"
                                      /\ req[j].user = v /\ req[j].group = g
                                      /\ Overlap(j, d)]_vars
-----------------------------------------------------------------------------
\* For a violation run: "Cannot remove the group creator".
CreatorIsMember == \A g \in Group : group[g] = "live" => creator[g] \in members[g]
=============================================================================
