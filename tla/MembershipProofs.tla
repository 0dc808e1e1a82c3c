-------------------------- MODULE MembershipProofs --------------------------
(***************************************************************************)
(* Theorems about Membership, for every set of accounts, groups and        *)
(* requests.  Every step of a request has one of the effects named below;  *)
(* the invariants are proved of the effects, not of the seventeen actions. *)
(***************************************************************************)
EXTENDS Membership, TLAPS

Sent(r) == pc[r] # "unsent"

\* What a request is once sent: the operation whose statements it runs, and
\* the account, group and invitation it acts on.
Shape(r) ==
    /\ req[r].op \in OpKinds
    /\ req[r].user \in User
    /\ req[r].op # "deleteAccount" => req[r].group \in Group
    /\ pc[r] = "create_maps" => req[r].op = "create"
    /\ pc[r] = "invite_write" => req[r].op = "invite"
    /\ pc[r] \in {"respond_join", "respond_write"} => req[r].op = "respond"
    /\ pc[r] = "respond_join" => req[r].answer = "ACCEPTED"
    /\ pc[r] = "kick_write" => req[r].op = "kick"
    /\ pc[r] = "remove_write" => req[r].op = "remove"
    /\ pc[r] = "connect_write" => req[r].op = "connect"
    /\ pc[r] \in {"delete_tx", "delete_commit"} => req[r].op = "deleteAccount"
    /\ req[r].op = "respond" =>
          /\ req[r].inv \in Request /\ Did(req[r].inv, "invite")
          /\ req[r].group = req[req[r].inv].group
          /\ req[r].answer \in Answers
          /\ \E v \in req[req[r].inv].to : req[r].to = {v}
          /\ req[r].answer = "ACCEPTED" /\ pc[r] # "rejected" => req[r].to = {req[r].user}

ShapeOK == \A r \in Request : Sent(r) => Shape(r)

\* The history of a request names only answered requests, and an invitation
\* was written by a request to invite that succeeded.
BeforeOK  == \A r \in Request : \A q \in before[r] : Answered(q)
WrittenOK == \A q \in Request, v \in User : status[<<q, v>>] # "none" => Did(q, "invite")

Basic == TypeOK /\ ShapeOK /\ BeforeOK /\ WrittenOK
-----------------------------------------------------------------------------
\* The effects of one step of request r.

\* Only r moves; it keeps what it was sent with, and an answer is final.
Moves(r) ==
    /\ ~Answered(r)
    /\ Sent(r)'
    /\ \A q \in Request \ {r} : /\ pc'[q] = pc[q] /\ req'[q] = req[q]
                                /\ before'[q] = before[q] /\ plan'[q] = plan[q]
    /\ IF Sent(r) THEN req'[r] = req[r] /\ before'[r] = before[r]
                  ELSE before'[r] = {q \in Request : Answered(q)}

\* The tables stay; or r founds a group; adds its account's maps; drops them;
\* writes invitations; joins; writes an answer; removes a member; removes a
\* group; deletes its account.
Founds(r) ==
    LET g == req'[r].group  u == req'[r].user
    IN  /\ pc[r] = "unsent" /\ pc'[r] = "create_maps"
        /\ g \in Group /\ u \in User /\ account[u] = "live" /\ group[g] = "absent"
        /\ group' = [group EXCEPT ![g] = "live"]
        /\ creator' = [creator EXCEPT ![g] = u]
        /\ members' = [members EXCEPT ![g] = {u}]
        /\ UNCHANGED <<account, maps, status>>

Maps(r) ==
    LET g == req[r].group  u == req[r].user
    IN  /\ pc[r] \in {"create_maps", "connect_write"} /\ pc'[r] = "done"
        /\ group[g] = "live" /\ account[u] = "live"
        /\ maps' = [maps EXCEPT ![g] = @ \cup {u}]
        /\ UNCHANGED <<account, group, creator, members, status>>

Drops(r) ==
    /\ pc[r] = "connect_write" /\ pc'[r] = "done"
    /\ maps' = [maps EXCEPT ![req[r].group] = @ \ {req[r].user}]
    /\ UNCHANGED <<account, group, creator, members, status>>

Writes(r) ==
    LET g == req[r].group
    IN  /\ pc[r] = "invite_write" /\ pc'[r] = "done"
        /\ group[g] = "live"
        /\ \A v \in req[r].to \cup {req[r].user} : account[v] = "live"
        /\ \A v \in req[r].to : ~Unanswered(v, g)
        /\ status' = [i \in Request \X User |->
                        IF i[1] = r /\ i[2] \in req[r].to THEN "PENDING" ELSE status[i]]
        /\ UNCHANGED <<account, group, creator, members, maps>>

Joins(r) ==
    LET g == req[r].group  u == req[r].user
    IN  /\ pc[r] = "respond_join" /\ pc'[r] = "respond_write"
        /\ group[g] = "live" /\ account[u] = "live"
        /\ members' = [members EXCEPT ![g] = @ \cup {u}]
        /\ UNCHANGED <<account, group, creator, maps, status>>

Settles(r) ==
    \E v \in User :
        /\ pc[r] = "respond_write" /\ pc'[r] = "done"
        /\ req[r].to = {v} /\ status[<<req[r].inv, v>>] # "none"
        /\ status' = [status EXCEPT ![<<req[r].inv, v>>] = req[r].answer]
        /\ UNCHANGED <<account, group, creator, members, maps>>

Kicks(r) ==
    /\ pc[r] = "kick_write" /\ pc'[r] = "done"
    /\ maps' = [maps EXCEPT ![req[r].group] = @ \ req[r].to]
    /\ members' = [members EXCEPT ![req[r].group] = @ \ req[r].to]
    /\ UNCHANGED <<account, group, creator, status>>

Removes(r) ==
    LET g == req[r].group
    IN  /\ pc[r] = "remove_write" /\ pc'[r] = "done"
        /\ group' = [group EXCEPT ![g] = "gone"]
        /\ maps' = [maps EXCEPT ![g] = {}]
        /\ members' = [members EXCEPT ![g] = {}]
        /\ creator' = [creator EXCEPT ![g] = None]
        /\ status' = [i \in Request \X User |->
                        IF i \in InvitationsTo(g) THEN "none" ELSE status[i]]
        /\ UNCHANGED account

Deletes(r) ==
    LET u    == req[r].user
        mine == DOMAIN plan[r]
        last == {g \in mine : plan[r][g] = None}
    IN  /\ pc[r] = "delete_commit" /\ pc'[r] = "done"
        /\ account[u] = "live"
        /\ \A g \in mine : group[g] = "live"
        /\ \A g \in mine \ last : account[plan[r][g]] = "live"
        /\ \A g \in Group : creator[g] = u => g \in mine
        /\ account' = [account EXCEPT ![u] = "gone"]
        /\ creator' = [g \in Group |-> IF g \in mine THEN plan[r][g] ELSE creator[g]]
        /\ group' = [g \in Group |-> IF g \in last THEN "gone" ELSE group[g]]
        /\ members' = [g \in Group |-> IF g \in last THEN {} ELSE members[g] \ {u}]
        /\ maps' = [g \in Group |-> IF g \in last THEN {} ELSE maps[g] \ {u}]
        /\ status' = [i \in Request \X User |->
             IF \/ i[2] = u \/ req[i[1]].user = u
                \/ \E g \in last : i \in InvitationsTo(g)
             THEN "none" ELSE status[i]]

Effect(r) == \/ UNCHANGED tables \/ Founds(r) \/ Maps(r) \/ Drops(r) \/ Writes(r)
             \/ Joins(r) \/ Settles(r) \/ Kicks(r) \/ Removes(r) \/ Deletes(r)

\* What r had read when it reached a statement that relies on it.
Checked(r) ==
    LET g == req'[r].group  u == req'[r].user
    IN  /\ pc[r] = "unsent" /\ pc'[r] = "kick_write" =>
              Manages(u, g) /\ creator[g] \notin req'[r].to
        /\ pc[r] = "unsent" /\ pc'[r] = "connect_write" => Sees(u, g)
        /\ pc'[r] \in {"create_maps", "kick_write", "connect_write", "delete_commit"} =>
              pc[r] = (IF pc'[r] = "delete_commit" THEN "delete_tx" ELSE "unsent")
        /\ req'[r].op = "respond" /\ req'[r].answer = "ACCEPTED"
           /\ pc'[r] \in {"respond_write", "done"} => pc[r] \in {"respond_join", "respond_write"}
        /\ pc'[r] \in {"respond_join", "respond_write"} => pc[r] \in {"unsent", "respond_join"}
        /\ pc'[r] = "create_maps" => Founds(r)
        /\ pc[r] = "unsent" /\ pc'[r] \in {"respond_join", "respond_write"} =>
              \E v \in User : /\ req'[r].to = {v}
                             /\ \/ status[<<req'[r].inv, v>>] = "PENDING"
                                \/ /\ status[<<req'[r].inv, v>>] = "ACCEPTED"
                                   /\ req'[r].answer = "CANCELLED"
        /\ pc[r] = "respond_join" /\ pc'[r] = "respond_write" => Joins(r)
        /\ pc'[r] = "done" => pc[r] \in Running
        /\ pc'[r] = "done" /\ req'[r].op = "respond" => Settles(r)
        /\ pc'[r] = "done" /\ req'[r].op = "kick" => Kicks(r)
        /\ pc'[r] = "done" /\ req'[r].op = "deleteAccount" => Deletes(r)

\* Only the statement that reads the groups of an account changes a plan.
Plans(r) ==
    LET mine == {g \in Group : creator[g] = req[r].user}
    IN  \/ plan' = plan /\ pc'[r] # "delete_commit"
        \/ /\ pc[r] = "delete_tx" /\ pc'[r] = "delete_commit"
           /\ UNCHANGED tables
           /\ plan'[r] \in [mine -> User \cup {None}]
           /\ \A g \in mine : IF members[g] \ {req[r].user} = {} THEN plan'[r][g] = None
                              ELSE plan'[r][g] \in members[g] \ {req[r].user}
-----------------------------------------------------------------------------
\* The next statement of a request keeps the tables typed.
LEMMA TypeInit == Init => Basic
<1> SUFFICES ASSUME Init PROVE Basic
  OBVIOUS
<1> USE DEF Init
<1>1. plan \in [Request -> UNION {[mine -> User \cup {None}] : mine \in SUBSET Group}]
  <2>1. [g \in {} |-> None] \in [{} -> User \cup {None}]
    OBVIOUS
  <2>2. [g \in {} |-> None] \in UNION {[mine -> User \cup {None}] : mine \in SUBSET Group}
    BY <2>1
  <2>3. QED
    BY <2>2
<1>2. \A g \in Group : group[g] = "live" <=> creator[g] # None
  BY NoneAssumption
<1>3. req \in [Request -> Call]
  BY DEF Call
<1>4. QED
  BY <1>1, <1>2, <1>3 DEF Basic, TypeOK, ShapeOK, BeforeOK, WrittenOK, Sent

\* Every step of r is described by the operators above.
LEMMA StepEffects ==
  ASSUME TypeOK, ShapeOK, NEW r \in Request, Arrive(r) \/ Continue(r) \/ Abort(r)
  PROVE  Moves(r) /\ Effect(r) /\ Checked(r) /\ Plans(r)
<1> DEFINE Goal == Moves(r) /\ Effect(r) /\ Checked(r) /\ Plans(r)
<1> USE DEF TypeOK, Moves, Effect, Checked, Plans, Sent, Answered, Running, Outcome, tables
<1>1. ASSUME Arrive(r) PROVE Goal
  <2> USE DEF Send
  <2>1. ASSUME NEW u \in User, NEW g \in Group, Create(r, u, g) PROVE Goal
    BY <2>1 DEF Create, Founds
  <2>2. ASSUME NEW u \in User, NEW g \in Group, Remove(r, u, g) PROVE Goal
    BY <2>2 DEF Remove
  <2>3. ASSUME NEW u \in User, NEW g \in Group, Connect(r, u, g) PROVE Goal
    BY <2>3 DEF Connect
  <2>4. ASSUME NEW u \in User, NEW g \in Group, NEW to \in SUBSET User, 
               Invite(r, u, g, to)
        PROVE  Goal
    BY <2>4 DEF Invite
  <2>5. ASSUME NEW u \in User, NEW g \in Group, NEW v \in User, Kick(r, u, g, v) PROVE Goal
    BY <2>5 DEF Kick, Manages
  <2>6. ASSUME NEW u \in User, NEW q \in Request, NEW v \in User, NEW answer \in Answers, 
               Respond(r, u, q, v, answer)
        PROVE  Goal
    BY <2>6 DEF Respond, Allowed
  <2>7. ASSUME NEW u \in User, DeleteAccount(r, u) PROVE Goal
    BY <2>7 DEF DeleteAccount
  <2>8. QED
    BY ONLY <1>1, <2>1, <2>2, <2>3, <2>4, <2>5, <2>6, <2>7 DEF Arrive
<1>2. ASSUME Continue(r) PROVE Goal
  <2> USE DEF Goto, Fails, ShapeOK, Shape
  <2>1. CASE CreateMaps(r)
    BY <2>1 DEF CreateMaps, Maps
  <2>2. CASE InviteWrite(r)
    BY <2>2 DEF InviteWrite, Writes
  <2>3. CASE RespondJoin(r)
    BY <2>3 DEF RespondJoin, Joins
  <2>4. CASE RespondWrite(r)
    <3>1. PICK v \in User :
            LET i == <<req[r].inv, v>>
            IN  /\ pc[r] = "respond_write" /\ req[r].to = {v}
                /\ UNCHANGED <<account, group, creator, members, maps, req, plan, before>>
                /\ \/ /\ status[i] # "none" /\ pc' = [pc EXCEPT ![r] = "done"]
                      /\ status' = [status EXCEPT ![i] = req[r].answer]
                   \/ /\ pc' = [pc EXCEPT ![r] = "failed"] /\ UNCHANGED status
      BY <2>4 DEF RespondWrite
    <3>2. \/ pc'[r] = "done" /\ Settles(r)
          \/ pc'[r] = "failed" /\ UNCHANGED tables
      BY <3>1 DEF Settles
    <3>3. Moves(r) /\ Plans(r)
      BY <3>1
    <3>4. pc[r] = "respond_write" /\ req[r].op = "respond" /\ req'[r] = req[r]
      BY <3>1
    <3>5. Checked(r)
      BY <3>2, <3>4
    <3>6. QED
      BY <3>2, <3>3, <3>5
  <2>5. CASE KickWrite(r)
    BY <2>5 DEF KickWrite, Kicks
  <2>6. CASE RemoveWrite(r)
    BY <2>6 DEF RemoveWrite, Removes
  <2>7. CASE ConnectWrite(r)
    BY <2>7 DEF ConnectWrite, Maps, Drops
  <2>8. CASE DeletePlan(r)
    BY <2>8 DEF DeletePlan
  <2>9. CASE DeleteCommit(r)
    <3>1. \/ Goto(r, "delete_commit", "done") /\ Deletes(r)
          \/ Fails(r, "delete_commit")
      <4>1. pc' = [pc EXCEPT ![r] = "done"] => pc'[r] = "done"
        OBVIOUS
      <4>2. QED
        BY ONLY <2>9, <4>1 DEF DeleteCommit, Deletes, Goto
    <3>2. CASE Goto(r, "delete_commit", "done") /\ Deletes(r)
      <4>1. pc[r] = "delete_commit" /\ req[r].op = "deleteAccount"
        BY <3>2
      <4>2. Moves(r) /\ Plans(r)
        BY <3>2
      <4>3. Checked(r)
        BY <3>2, <4>1
      <4>4. QED
        BY <3>2, <4>2, <4>3
    <3>3. CASE Fails(r, "delete_commit")
      BY <3>3
    <3>4. QED
      BY ONLY <3>1, <3>2, <3>3
  <2>10. QED
    BY ONLY <1>2, <2>1, <2>2, <2>3, <2>4, <2>5, <2>6, <2>7, <2>8, <2>9 DEF Continue
<1>3. ASSUME Abort(r) PROVE Goal
  BY <1>3 DEF Abort, Goto, Running
<1>4. QED
  BY <1>1, <1>2, <1>3
-----------------------------------------------------------------------------
\* The step of r leaves it with the shape of its operation, and typed.
LEMMA StepShape ==
  ASSUME TypeOK, ShapeOK, NEW r \in Request, Arrive(r) \/ Continue(r) \/ Abort(r)
  PROVE  /\ Shape(r)'
         /\ req' \in [Request -> Call]
         /\ pc' \in [Request -> {"unsent"} \cup Running \cup Outcome]
         /\ plan' \in [Request -> UNION {[mine -> User \cup {None}] : mine \in SUBSET Group}]
         /\ before' \in [Request -> SUBSET Request]
<1> DEFINE Heirs == UNION {[mine -> User \cup {None}] : mine \in SUBSET Group}
           Places == {"unsent"} \cup Running \cup Outcome
           Goal == /\ Shape(r)' /\ req' \in [Request -> Call]
                   /\ pc' \in [Request -> Places]
                   /\ plan' \in [Request -> Heirs] /\ before' \in [Request -> SUBSET Request]
<1>0. /\ req \in [Request -> Call] /\ pc \in [Request -> Places]
      /\ plan \in [Request -> Heirs] /\ before \in [Request -> SUBSET Request]
  BY DEF TypeOK
<1> HIDE DEF Heirs
<1>1. ASSUME Arrive(r) PROVE Goal
  <2> USE <1>0 DEF Send, Call, Shape, Answers, OpKinds, Running, Outcome
  <2>1. ASSUME NEW u \in User, NEW g \in Group, Create(r, u, g) PROVE Goal
    <3>1. PICK next \in {"create_maps", "failed"} :
             Send(r, "create", u, g, {}, None, None, next)
      BY <2>1 DEF Create
    <3>2. QED
      BY <3>1
  <2>2. ASSUME NEW u \in User, NEW g \in Group, Remove(r, u, g) PROVE Goal
    BY <2>2 DEF Remove
  <2>3. ASSUME NEW u \in User, NEW g \in Group, Connect(r, u, g) PROVE Goal
    BY <2>3 DEF Connect
  <2>4. ASSUME NEW u \in User, NEW g \in Group, NEW to \in SUBSET User, 
               Invite(r, u, g, to)
        PROVE  Goal
    BY <2>4 DEF Invite
  <2>5. ASSUME NEW u \in User, NEW g \in Group, NEW v \in User, Kick(r, u, g, v) PROVE Goal
    BY <2>5 DEF Kick
  <2>6. ASSUME NEW u \in User, NEW q \in Request, NEW v \in User, NEW answer \in Answers, 
               Respond(r, u, q, v, answer)
        PROVE  Goal
    BY <2>6, NoneAssumption DEF Respond, ShapeOK, Sent, Did, Allowed
  <2>7. ASSUME NEW u \in User, DeleteAccount(r, u) PROVE Goal
    BY <2>7 DEF DeleteAccount
  <2>8. QED
    BY ONLY <1>1, <2>1, <2>2, <2>3, <2>4, <2>5, <2>6, <2>7 DEF Arrive
<1>2. ASSUME Continue(r) PROVE Goal
  <2> USE <1>0 DEF Goto, Fails, ShapeOK, Shape, Sent, Did, Running, Outcome
  <2>1. CASE CreateMaps(r)
    BY <2>1 DEF CreateMaps
  <2>2. CASE InviteWrite(r)
    BY <2>2 DEF InviteWrite
  <2>3. CASE RespondJoin(r)
    BY <2>3 DEF RespondJoin
  <2>4. CASE RespondWrite(r)
    BY <2>4 DEF RespondWrite
  <2>5. CASE KickWrite(r)
    BY <2>5 DEF KickWrite
  <2>6. CASE RemoveWrite(r)
    BY <2>6 DEF RemoveWrite
  <2>7. CASE ConnectWrite(r)
    BY <2>7 DEF ConnectWrite
  <2>8. CASE DeletePlan(r)
    <3> DEFINE mine == {g \in Group : creator[g] = req[r].user}
    <3>1. PICK heir \in [mine -> User \cup {None}] : plan' = [plan EXCEPT ![r] = heir]
      BY <2>8 DEF DeletePlan
    <3>2. \A m \in SUBSET Group : \A h \in [m -> User \cup {None}] : h \in Heirs
      BY DEF Heirs
    <3>3. plan' \in [Request -> Heirs]
      <4>1. mine \in SUBSET Group
        OBVIOUS
      <4> HIDE DEF mine
      <4>2. heir \in Heirs
        BY ONLY <3>1, <3>2, <4>1
      <4>3. QED
        BY ONLY <1>0, <3>1, <4>2
    <3>4. /\ pc[r] = "delete_tx" /\ pc' = [pc EXCEPT ![r] = "delete_commit"]
          /\ req' = req /\ before' = before
      BY ONLY <2>8 DEF DeletePlan, tables
    <3>5. Shape(r)'
      BY <3>4
    <3>6. QED
      BY <1>0, <3>3, <3>4, <3>5
  <2>9. CASE DeleteCommit(r)
    BY <2>9 DEF DeleteCommit
  <2>10. QED
    BY ONLY <1>2, <2>1, <2>2, <2>3, <2>4, <2>5, <2>6, <2>7, <2>8, <2>9 DEF Continue
<1>3. ASSUME Abort(r) PROVE Goal
  BY <1>0, <1>3 DEF Abort, Goto, Running, Outcome, ShapeOK, Shape, Sent, Did
<1>4. QED
  BY <1>1, <1>2, <1>3 DEF Heirs
-----------------------------------------------------------------------------
\* A step is a step of one request, and what earlier requests are, did and
\* overlapped with stays.
Step(r) == r \in Request /\ Shape(r)' /\ Moves(r) /\ Effect(r) /\ Checked(r) /\ Plans(r)

Keeps ==
    /\ \A q \in Request : Answered(q) => pc'[q] = pc[q] /\ plan'[q] = plan[q]
    /\ \A q \in Request : Sent(q) => Sent(q)' /\ req'[q] = req[q] /\ before'[q] = before[q]
    /\ \A q, d \in Request : Overlap(q, d) /\ Sent(d) => Overlap(q, d)'
    /\ \A q \in Request, op \in OpKinds : Did(q, op) => Did(q, op)'

\* The entries of a plan are groups, and accounts or None.
LEMMA PlanEntries ==
  ASSUME TypeOK, NEW r \in Request
  PROVE  /\ DOMAIN plan[r] \in SUBSET Group
         /\ \A g \in DOMAIN plan[r] : plan[r][g] \in User \cup {None}
<1>1. PICK mine \in SUBSET Group : plan[r] \in [mine -> User \cup {None}]
  BY DEF TypeOK
<1>2. QED
  BY <1>1

\* Every step keeps the tables typed and the requests shaped, and is one of r.
LEMMA BasicStep ==
  ASSUME Basic, Next
  PROVE  Basic' /\ Keeps /\ \E r \in Request : Step(r)
<1>1. PICK r \in Request : Arrive(r) \/ Continue(r) \/ Abort(r)
  BY DEF Next
<1>2. Step(r)
  BY <1>1, StepEffects, StepShape DEF Basic, Step
<1>3. /\ req' \in [Request -> Call]
      /\ pc' \in [Request -> {"unsent"} \cup Running \cup Outcome]
      /\ plan' \in [Request -> UNION {[mine -> User \cup {None}] : mine \in SUBSET Group}]
      /\ before' \in [Request -> SUBSET Request]
  BY <1>1, StepShape DEF Basic
<1>4. \A q \in Request \ {r} : /\ pc'[q] = pc[q] /\ req'[q] = req[q]
                                /\ before'[q] = before[q] /\ plan'[q] = plan[q]
  BY <1>2 DEF Step, Moves
<1>5. ~Answered(r) /\ pc'[r] # "unsent"
  BY <1>2 DEF Step, Moves, Sent
<1>6. IF pc[r] # "unsent" THEN req'[r] = req[r] /\ before'[r] = before[r]
      ELSE before'[r] = {q \in Request : Answered(q)}
  BY <1>2 DEF Step, Moves, Sent
<1>7. Keeps
  BY <1>4, <1>5, <1>6 DEF Keeps, Sent, Overlap, Did, Answered, Outcome
<1>8. ShapeOK'
  <2>1. Shape(r)'
    BY <1>2 DEF Step
  <2>2. ASSUME NEW q \in Request \ {r}, Sent(q)' PROVE Shape(q)'
    <3>1. Shape(q) /\ pc'[q] = pc[q] /\ req'[q] = req[q]
      BY <1>4, <2>2 DEF Sent, Basic, ShapeOK
    <3>2. ASSUME req[q].op = "respond"
          PROVE  Did(req[q].inv, "invite")' /\ req'[req[q].inv] = req[req[q].inv]
      BY <1>4, <1>5, <3>1, <3>2 DEF Shape, Did, Answered, Outcome
    <3>3. QED
      BY <3>1, <3>2 DEF Shape
  <2>3. QED
    BY <2>1, <2>2 DEF ShapeOK
<1>9. BeforeOK'
  BY <1>4, <1>5, <1>6 DEF Basic, BeforeOK, Answered, Outcome, TypeOK
<1>10. /\ pc[r] \in {"create_maps", "connect_write", "respond_join", "kick_write", "remove_write"}
             => req[r].group \in Group /\ req[r].user \in User
       /\ req[r].to \in SUBSET User
       /\ pc[r] = "respond_write" => req[r].inv \in Request /\ req[r].answer \in Answers
  BY DEF Basic, ShapeOK, Sent, Shape, TypeOK, Call
<1>11. /\ account' \in [User -> {"live", "gone"}]
       /\ group' \in [Group -> {"absent", "live", "gone"}]
       /\ creator' \in [Group -> User \cup {None}]
       /\ members' \in [Group -> SUBSET User]
       /\ maps' \in [Group -> SUBSET User]
       /\ \A g \in Group : group'[g] = "live" <=> creator'[g] # None
  <2> DEFINE Tables == /\ account' \in [User -> {"live", "gone"}]
                       /\ group' \in [Group -> {"absent", "live", "gone"}]
                       /\ creator' \in [Group -> User \cup {None}]
                       /\ members' \in [Group -> SUBSET User]
                       /\ maps' \in [Group -> SUBSET User]
                       /\ \A g \in Group : group'[g] = "live" <=> creator'[g] # None
  <2>1. /\ account \in [User -> {"live", "gone"}]
        /\ group \in [Group -> {"absent", "live", "gone"}]
        /\ creator \in [Group -> User \cup {None}]
        /\ members \in [Group -> SUBSET User]
        /\ maps \in [Group -> SUBSET User]
        /\ \A g \in Group : group[g] = "live" <=> creator[g] # None
    BY DEF Basic, TypeOK
  <2>2. CASE UNCHANGED <<account, group, creator, members, maps>>
    BY ONLY <2>1, <2>2
  <2>3. CASE Founds(r)
    BY ONLY <2>1, <2>3, NoneAssumption DEF Founds
  <2>4. CASE Maps(r) \/ Drops(r)
    BY ONLY <2>1, <1>10, <2>4 DEF Maps, Drops
  <2>5. CASE Joins(r)
    BY ONLY <2>1, <1>10, <2>5 DEF Joins
  <2>6. CASE Kicks(r)
    BY ONLY <2>1, <1>10, <2>6 DEF Kicks
  <2>7. CASE Removes(r)
    BY ONLY <2>1, <1>10, <2>7 DEF Removes
  <2>8. CASE Deletes(r)
    <3>1. /\ DOMAIN plan[r] \in SUBSET Group
          /\ \A g \in DOMAIN plan[r] : plan[r][g] \in User \cup {None}
      BY PlanEntries DEF Basic
    <3>2. QED
      BY ONLY <2>1, <2>8, <3>1 DEF Deletes
  <2>9. QED
    BY <1>2, <2>2, <2>3, <2>4, <2>5, <2>6, <2>7, <2>8 DEF Step, Effect, tables, Writes, Settles
<1>12. status' \in [Request \X User -> {"none", "PENDING"} \cup Answers] /\ WrittenOK'
  <2>1. status \in [Request \X User -> {"none", "PENDING"} \cup Answers]
    BY DEF Basic, TypeOK
  <2>2. \A q \in Request, v \in User : status[<<q, v>>] # "none" =>
           req'[q].op = "invite" /\ pc'[q] = "done"
    BY <1>4, <1>5 DEF Basic, WrittenOK, Did, Answered, Outcome
  <2>3. CASE status' = status
    BY ONLY <2>1, <2>2, <2>3 DEF WrittenOK, Did
  <2>4. CASE Writes(r)
    <3>1. pc'[r] = "done" /\ req'[r].op = "invite"
      BY <1>6, <2>4 DEF Writes, Basic, ShapeOK, Sent, Shape
    <3>2. QED
      BY ONLY <2>1, <2>2, <3>1, <2>4 DEF Writes, WrittenOK, Did
  <2>5. CASE Settles(r)
    BY ONLY <2>1, <2>2, <1>10, <2>5 DEF Settles, WrittenOK, Did
  <2>6. CASE Removes(r)
    BY ONLY <2>1, <2>2, <2>6 DEF Removes, WrittenOK, Did
  <2>7. CASE Deletes(r)
    BY ONLY <2>1, <2>2, <2>7 DEF Deletes, WrittenOK, Did
  <2>8. QED
    BY <1>2, <2>3, <2>4, <2>5, <2>6, <2>7
       DEF Step, Effect, tables, Founds, Maps, Drops, Joins, Kicks
<1>13. QED
  BY <1>2, <1>3, <1>7, <1>8, <1>9, <1>11, <1>12 DEF Basic, TypeOK
-----------------------------------------------------------------------------
(* What the properties rest on. *)

\* Groups and accounts that are gone stay so; an existing group changes its
\* creator only with a deleted account; a member of an existing group whose
\* account exists leaves it only by being removed.
LEMMA TablesAge ==
  ASSUME Basic, NEW r \in Request, Step(r)
  PROVE  /\ \A u \in User : account'[u] = "live" => account[u] = "live"
         /\ \A g \in Group : group[g] # "absent" =>
              /\ group'[g] # "absent"
              /\ group'[g] = "live" =>
                   /\ group[g] = "live"
                   /\ \/ creator'[g] = creator[g]
                      \/ Deletes(r) /\ g \in DOMAIN plan[r] /\ creator'[g] = plan[r][g]
                   /\ \A u \in members[g] \ members'[g] :
                         \/ Kicks(r) /\ req[r].group = g /\ u \in req[r].to
                         \/ u \in User /\ account'[u] = "gone"
<1> DEFINE Goal == /\ \A u \in User : account'[u] = "live" => account[u] = "live"
                   /\ \A g \in Group : group[g] # "absent" =>
                        /\ group'[g] # "absent"
                        /\ group'[g] = "live" =>
                             /\ group[g] = "live"
                             /\ \/ creator'[g] = creator[g]
                                \/ Deletes(r) /\ g \in DOMAIN plan[r] /\ creator'[g] = plan[r][g]
                             /\ \A u \in members[g] \ members'[g] :
                                   \/ Kicks(r) /\ req[r].group = g /\ u \in req[r].to
                                   \/ u \in User /\ account'[u] = "gone"
<1>1. /\ account \in [User -> {"live", "gone"}]
      /\ group \in [Group -> {"absent", "live", "gone"}]
      /\ creator \in [Group -> User \cup {None}]
      /\ members \in [Group -> SUBSET User]
  BY DEF Basic, TypeOK
<1>2. CASE UNCHANGED <<account, group, creator, members>>
  BY ONLY <1>1, <1>2
<1>3. CASE Founds(r)
  BY ONLY <1>1, <1>3 DEF Founds
<1>4. CASE Joins(r)
  BY ONLY <1>1, <1>4 DEF Joins
<1>5. CASE Kicks(r)
  <2>1. UNCHANGED <<account, group, creator>>
    BY ONLY <1>5 DEF Kicks
  <2>2. \A g \in Group : \A u \in members[g] \ members'[g] : req[r].group = g /\ u \in req[r].to
    BY ONLY <1>1, <1>5 DEF Kicks
  <2>3. QED
    BY ONLY <1>1, <1>5, <2>1, <2>2
<1>6. CASE Removes(r)
  BY ONLY <1>1, <1>6 DEF Removes
<1>7. CASE Deletes(r)
  <2>1. /\ account' = [account EXCEPT ![req[r].user] = "gone"]
        /\ creator' = [g \in Group |-> IF g \in DOMAIN plan[r] THEN plan[r][g] ELSE creator[g]]
        /\ \A g \in Group : group'[g] = "live" => members'[g] = members[g] \ {req[r].user}
        /\ \A g \in Group : group'[g] \in {group[g], "gone"}
    BY ONLY <1>1, <1>7, NoneAssumption DEF Deletes
  <2>2. QED
    BY ONLY <1>1, <1>7, <2>1
<1>8. QED
  BY <1>2, <1>3, <1>4, <1>5, <1>6, <1>7
     DEF Step, Effect, tables, Maps, Drops, Writes, Settles

\* A deletion that found its groups: none of them is handed to the account
\* itself, and while the account exists it is the creator of those that exist.
PlanOK ==
    \A d \in Request : pc[d] = "delete_commit" =>
        \A g \in DOMAIN plan[d] :
            /\ plan[d][g] # req[d].user /\ group[g] # "absent"
            /\ group[g] = "live" /\ account[req[d].user] = "live" => creator[g] = req[d].user

\* Steps keep the references between rows.
LEMMA PlanStep ==
  ASSUME Basic, Keeps, PlanOK, NEW r \in Request, Step(r)
  PROVE  PlanOK'
<1> SUFFICES ASSUME NEW d \in Request, pc'[d] = "delete_commit", NEW g \in DOMAIN plan'[d]
             PROVE  /\ plan'[d][g] # req'[d].user /\ group'[g] # "absent"
                    /\ group'[g] = "live" /\ account'[req'[d].user] = "live"
                          => creator'[g] = req'[d].user
  BY DEF PlanOK
<1>1. CASE d = r
  <2>1. pc[r] = "delete_tx" /\ req'[r] = req[r]
    BY <1>1 DEF Step, Checked, Moves, Sent
  <2> DEFINE mine == {h \in Group : creator[h] = req[r].user}
  <2>2. /\ UNCHANGED tables /\ plan'[r] \in [mine -> User \cup {None}]
        /\ \A h \in mine : IF members[h] \ {req[r].user} = {} THEN plan'[r][h] = None
                           ELSE plan'[r][h] \in members[h] \ {req[r].user}
    BY <1>1 DEF Step, Plans
  <2>3. g \in Group /\ creator[g] = req[r].user
    BY <1>1, <2>2
  <2>4. req[r].user \in User
    BY <2>1 DEF Basic, ShapeOK, Sent, Shape
  <2>5. QED
    BY <1>1, <2>1, <2>2, <2>3, <2>4, NoneAssumption DEF tables, Basic, TypeOK
<1>2. CASE d # r
  <2>1. /\ pc[d] = "delete_commit" /\ req'[d] = req[d] /\ plan'[d] = plan[d]
    BY <1>2 DEF Step, Moves
  <2>2. /\ plan[d][g] # req[d].user /\ group[g] # "absent"
        /\ group[g] = "live" /\ account[req[d].user] = "live" => creator[g] = req[d].user
    BY <2>1 DEF PlanOK
  <2>3. g \in Group /\ req[d].user \in User
    BY <2>1, PlanEntries DEF Basic, ShapeOK, Sent, Shape
  <2>4. /\ group'[g] # "absent"
        /\ group'[g] = "live" /\ account'[req[d].user] = "live" =>
             /\ group[g] = "live" /\ account[req[d].user] = "live"
             /\ (creator'[g] = creator[g] \/ (Deletes(r) /\ g \in DOMAIN plan[r]))
    BY <2>2, <2>3, TablesAge
  <2>5. ASSUME Deletes(r), g \in DOMAIN plan[r], creator[g] = req[d].user
        PROVE  account'[req[d].user] # "live"
    <3>1. /\ account[req[r].user] = "live" /\ group[g] = "live"
          /\ account' = [account EXCEPT ![req[r].user] = "gone"]
      BY <2>5 DEF Deletes
    <3>2. creator[g] = req[r].user
      BY <2>5, <3>1 DEF PlanOK, Deletes
    <3>3. QED
      BY <2>5, <3>1, <3>2 DEF Basic, TypeOK
  <2>6. QED
    BY <2>1, <2>2, <2>4, <2>5
<1>3. QED
  BY <1>1, <1>2
-----------------------------------------------------------------------------
\* Steps keep the references between rows.
LEMMA ReferencesStep ==
  ASSUME Basic, Basic', Keeps, PlanOK, ReferencesHold, NEW r \in Request, Step(r)
  PROVE  ReferencesHold'
<1> DEFINE Rows == \A g \in Group : group'[g] # "live" => members'[g] = {} /\ maps'[g] = {}
           Users == \A g \in Group, u \in User : account'[u] = "gone" =>
                       u \notin members'[g] \cup maps'[g] /\ creator'[g] # u
           Invites == \A q \in Request, v \in User : status'[<<q, v>>] # "none" =>
              group'[req[q].group] = "live" /\ account'[v] = "live" /\ account'[req[q].user] = "live"
<1>1. /\ account \in [User -> {"live", "gone"}]
      /\ group \in [Group -> {"absent", "live", "gone"}]
      /\ creator \in [Group -> User \cup {None}]
      /\ members \in [Group -> SUBSET User]
      /\ maps \in [Group -> SUBSET User]
      /\ status \in [Request \X User -> {"none", "PENDING"} \cup Answers]
  BY DEF Basic, TypeOK
<1>2. /\ \A g \in Group : group[g] # "live" => members[g] = {} /\ maps[g] = {}
      /\ \A g \in Group, u \in User :
            account[u] = "gone" => u \notin members[g] \cup maps[g] /\ creator[g] # u
      /\ \A q \in Request, v \in User : status[<<q, v>>] # "none" =>
            /\ group[req[q].group] = "live" /\ account[v] = "live" /\ account[req[q].user] = "live"
            /\ req[q].group \in Group /\ req[q].user \in User
  BY DEF Basic, WrittenOK, Did, ShapeOK, Sent, Shape, ReferencesHold
<1>3. \A q \in Request, v \in User : status'[<<q, v>>] # "none" => req'[q] = req[q]
  <2>1. ASSUME NEW q \in Request, pc'[q] = "done" PROVE req'[q] = req[q]
    <3>1. CASE q # r
      BY <3>1 DEF Step, Moves
    <3>2. CASE q = r
      <4>1. pc[r] \in Running
        BY <2>1, <3>2 DEF Step, Checked
      <4>2. QED
        BY <3>2, <4>1 DEF Step, Moves, Sent, Running
    <3>3. QED
      BY <3>1, <3>2
  <2>2. QED
    BY <2>1 DEF Basic, WrittenOK, Did
<1>4. Rows /\ Users /\ Invites
  <2>1. CASE UNCHANGED tables
    BY ONLY <1>1, <1>2, <2>1 DEF tables
  <2>2. CASE Founds(r)
    BY ONLY <1>1, <1>2, <2>2 DEF Founds
  <2>3. CASE Maps(r) \/ Drops(r)
    BY ONLY <1>1, <1>2, <2>3 DEF Maps, Drops
  <2>4. CASE Writes(r)
    BY ONLY <1>1, <1>2, <2>4 DEF Writes
  <2>5. CASE Joins(r)
    BY ONLY <1>1, <1>2, <2>5 DEF Joins
  <2>6. CASE Settles(r)
    BY ONLY <1>1, <1>2, <2>6 DEF Settles
  <2>7. CASE Kicks(r)
    BY ONLY <1>1, <1>2, <2>7 DEF Kicks
  <2>8. CASE Removes(r)
    BY ONLY <1>1, <1>2, <2>8, NoneAssumption DEF Removes, InvitationsTo
  <2>9. CASE Deletes(r)
    <3> DEFINE last == {g \in DOMAIN plan[r] : plan[r][g] = None}
    <3>1. \A g \in DOMAIN plan[r] : g \in Group /\ plan[r][g] # req[r].user
                                  /\ (plan[r][g] # None => plan[r][g] \in User)
      BY <2>9, PlanEntries DEF Deletes, PlanOK, Basic
    <3>2. req[r].user \in User
      BY <2>9 DEF Deletes, Basic, ShapeOK, Sent, Shape
    <3>3. Rows
      BY ONLY <1>1, <1>2, <2>9 DEF Deletes
    <3>4. ASSUME NEW g \in Group, NEW u \in User, account'[u] = "gone"
          PROVE  u \notin members'[g] \cup maps'[g] /\ creator'[g] # u
      <4>1. /\ u = req[r].user \/ account[u] = "gone"
            /\ members'[g] \subseteq members[g] \ {req[r].user}
            /\ maps'[g] \subseteq maps[g] \ {req[r].user}
        BY ONLY <1>1, <2>9, <3>2, <3>4 DEF Deletes
      <4>2. CASE g \in DOMAIN plan[r]
        <5>1. /\ creator'[g] = plan[r][g] /\ plan[r][g] # req[r].user
              /\ plan[r][g] # None => account[plan[r][g]] = "live"
          BY ONLY <2>9, <3>1, <4>2 DEF Deletes
        <5>2. QED
          BY ONLY <1>2, <4>1, <5>1, NoneAssumption
      <4>3. CASE g \notin DOMAIN plan[r]
        <5>1. creator'[g] = creator[g] /\ creator[g] # req[r].user
          BY ONLY <2>9, <4>3 DEF Deletes
        <5>2. QED
          BY ONLY <1>2, <4>1, <5>1
      <4>4. QED
        BY <4>2, <4>3
    <3>5. Invites
      <4>0. SUFFICES ASSUME NEW q \in Request, NEW v \in User, status'[<<q, v>>] # "none"
                   PROVE  /\ group'[req[q].group] = "live" /\ account'[v] = "live"
                          /\ account'[req[q].user] = "live"
        OBVIOUS
      <4>1. /\ status[<<q, v>>] # "none" /\ v # req[r].user /\ req[q].user # req[r].user
            /\ \A g \in last : <<q, v>> \notin InvitationsTo(g)
        BY ONLY <2>9, <4>0 DEF Deletes
      <4>2. req[q].group \notin last
        BY ONLY <4>1 DEF InvitationsTo
      <4>3. QED
        BY ONLY <1>1, <1>2, <2>9, <4>0, <4>1, <4>2 DEF Deletes
    <3>6. QED
      BY <3>3, <3>4, <3>5
  <2>10. QED
    BY <2>1, <2>2, <2>3, <2>4, <2>5, <2>6, <2>7, <2>8, <2>9 DEF Step, Effect
<1>5. QED
  BY <1>3, <1>4 DEF ReferencesHold
-----------------------------------------------------------------------------
\* What a request of one step did earlier, the others could not have seen
\* before they were sent: nobody has an unanswered request in its history.
LEMMA InProgressOverlap ==
  ASSUME Basic, NEW q \in Request, NEW d \in Request, q # d,
         Sent(q), Sent(d), ~Answered(q), ~Answered(d)
  PROVE  Overlap(q, d)
BY DEF Basic, BeforeOK, Overlap, Sent

\* The insert of an invitation meets the unanswered ones of its recipients.
LEMMA UnansweredStep ==
  ASSUME Basic, Basic', Keeps, OneUnanswered, NEW r \in Request, Step(r)
  PROVE  OneUnanswered'
<1>1. \A q \in Request, v \in User : status[<<q, v>>] # "none" => req'[q] = req[q]
  BY DEF Basic, WrittenOK, Did, Keeps, Sent
<1>2. \A i \in Request \X User : status[i] # "none" => req'[i[1]] = req[i[1]]
  BY <1>1
<1>3. /\ status \in [Request \X User -> {"none", "PENDING"} \cup Answers]
      /\ \A i, j \in Request \X User :
           /\ status[i] = "PENDING" /\ status[j] = "PENDING"
           /\ i[2] = j[2] /\ req[i[1]].group = req[j[1]].group
           => i = j
  BY DEF Basic, TypeOK, OneUnanswered
<1>4. CASE \A i \in Request \X User : status'[i] = "PENDING" => status[i] = "PENDING"
  BY <1>2, <1>3, <1>4 DEF OneUnanswered
<1>5. CASE Writes(r)
  <2>1. \A i \in Request \X User : status'[i] = "PENDING" =>
           \/ status[i] = "PENDING"
           \/ i = <<r, i[2]>> /\ i[2] \in req[r].to
    BY <1>3, <1>5 DEF Writes
  <2>2. req'[r] = req[r]
    BY <1>5 DEF Writes, Step, Moves, Sent
  <2>3. \A i \in Request \X User : status[i] = "PENDING" =>
           i[2] \notin req[r].to \/ req[i[1]].group # req[r].group
    <3> SUFFICES ASSUME NEW q \in Request, NEW v \in User, status[<<q, v>>] = "PENDING",
                        v \in req[r].to
                 PROVE  req[q].group # req[r].group
      OBVIOUS
    <3>1. ~Unanswered(v, req[r].group)
      BY <1>5 DEF Writes
    <3>2. QED
      BY <3>1 DEF Unanswered
  <2>4. QED
    BY <1>2, <1>3, <2>1, <2>2, <2>3 DEF OneUnanswered
<1>6. CASE status' = status \/ Settles(r) \/ Removes(r) \/ Deletes(r)
  <2>1. CASE Settles(r)
    <3>1. req[r].answer \in Answers
      BY <2>1 DEF Settles, Basic, ShapeOK, Sent, Shape
    <3>2. QED
      BY <1>3, <1>4, <2>1, <3>1 DEF Settles, Answers
  <2>2. CASE Removes(r)
    BY <1>3, <1>4, <2>2 DEF Removes
  <2>3. CASE Deletes(r)
    BY <1>3, <1>4, <2>3 DEF Deletes
  <2>4. QED
    BY <1>4, <1>6, <2>1, <2>2, <2>3
<1>7. QED
  BY <1>5, <1>6 DEF Step, Effect, tables, Founds, Maps, Drops, Joins, Kicks
-----------------------------------------------------------------------------
\* v left group g by a removal that was not answered when r was sent.
RemovedDuring(v, g, r) ==
    \E k \in Request : Did(k, "kick") /\ req[k].group = g /\ v \in req[k].to /\ k \notin before[r]

\* Who accepts has joined before the answer is written, or before it was.
Accepting(r) == pc[r] = "respond_write" /\ req[r].answer = "ACCEPTED"
AcceptedBy(q, v, r) == Did(r, "respond") /\ req[r].inv = q /\ req[r].to = {v} /\ req[r].answer = "ACCEPTED"

AcceptingOK ==
    \A r \in Request : Accepting(r) =>
        LET g == req[r].group  u == req[r].user
        IN  /\ group[g] # "absent"
            /\ group[g] = "live" /\ account[u] = "live" /\ u \notin members[g] =>
                  RemovedDuring(u, g, r)

AcceptedOK ==
    \A q \in Request, v \in User : status[<<q, v>>] = "ACCEPTED" =>
        \E r \in Request : /\ AcceptedBy(q, v, r)
                           /\ v \notin members[req[q].group] => RemovedDuring(v, req[q].group, r)

\* A member leaves by a removal that overlaps what is in progress.
LEMMA LeavesRemoved ==
  ASSUME Basic, Basic', Keeps, ReferencesHold, NEW r \in Request, Step(r), NEW g \in Group, NEW u \in User,
         NEW q \in Request, Sent(q), group'[g] = "live", account'[u] = "live",
         \/ u \in members[g] /\ u \notin members'[g]
         \/ u \notin members[g] /\ RemovedDuring(u, g, q)
  PROVE  RemovedDuring(u, g, q)'
<1>1. before'[q] = before[q]
  BY DEF Keeps
<1>2. CASE RemovedDuring(u, g, q)
  <2>1. PICK k \in Request : Did(k, "kick") /\ req[k].group = g /\ u \in req[k].to /\ k \notin before[q]
    BY <1>2 DEF RemovedDuring
  <2>2. Did(k, "kick")' /\ req'[k] = req[k]
    BY <2>1 DEF Keeps, Did, Sent, OpKinds
  <2>3. QED
    BY <1>1, <2>1, <2>2 DEF RemovedDuring
<1>3. CASE u \in members[g] /\ u \notin members'[g]
  <2>1. group[g] # "absent"
    BY <1>3 DEF ReferencesHold
  <2>2. Kicks(r) /\ req[r].group = g /\ u \in req[r].to
    BY <1>3, <2>1, TablesAge
  <2>3. Did(r, "kick")' /\ req'[r] = req[r]
    BY <2>2 DEF Kicks, Step, Moves, Sent, Did, Basic, ShapeOK, Shape
  <2>4. r \notin before[q]
    BY <2>2 DEF Kicks, Basic, BeforeOK, Answered, Outcome
  <2>5. QED
    BY <1>1, <2>2, <2>3, <2>4 DEF RemovedDuring
<1>4. QED
  BY <1>2, <1>3

\* Steps keep what an acceptance rests on.
LEMMA AcceptedStep ==
  ASSUME Basic, Basic', Keeps, ReferencesHold, ReferencesHold', AcceptingOK, AcceptedOK,
         NEW r \in Request, Step(r)
  PROVE  AcceptingOK' /\ AcceptedOK'
<1>1. ASSUME NEW x \in Request, Accepting(x)', NEW g, NEW u, g = req'[x].group, u = req'[x].user
      PROVE  /\ group'[g] # "absent"
             /\ group'[g] = "live" /\ account'[u] = "live" /\ u \notin members'[g]
                => RemovedDuring(u, g, x)'
  <2>1. Sent(x) /\ req'[x] = req[x] /\ req[x].op = "respond"
    <3>1. req'[x].op = "respond"
      BY <1>1 DEF Basic, ShapeOK, Sent, Shape, Accepting
    <3>2. Sent(x)
      BY <1>1, <3>1 DEF Step, Checked, Moves, Accepting, Sent
    <3>3. QED
      BY <3>1, <3>2 DEF Keeps
  <2>2. g \in Group /\ u \in User
    BY <1>1, <2>1 DEF Basic, ShapeOK, Shape
  <2>3. Accepting(x) \/ Joins(x)
    BY <1>1, <2>1 DEF Step, Checked, Moves, Accepting
  <2>4. CASE Joins(x)
    BY <1>1, <2>1, <2>2, <2>4 DEF Joins, Basic, TypeOK
  <2>5. CASE Accepting(x)
    <3>1. /\ group[g] # "absent"
          /\ group[g] = "live" /\ account[u] = "live" /\ u \notin members[g] =>
                RemovedDuring(u, g, x)
      BY <1>1, <2>1, <2>5 DEF AcceptingOK
    <3>2. group'[g] # "absent" /\ (group'[g] = "live" => group[g] = "live")
          /\ (account'[u] = "live" => account[u] = "live")
      BY <2>2, <3>1, TablesAge
    <3>3. ASSUME group'[g] = "live", account'[u] = "live", u \notin members'[g]
          PROVE  RemovedDuring(u, g, x)'
      BY <2>1, <2>2, <3>1, <3>2, <3>3, LeavesRemoved
    <3>4. QED
      BY <3>2, <3>3
  <2>6. QED
    BY <2>3, <2>4, <2>5
<1>2. ASSUME NEW q \in Request, NEW v \in User, status'[<<q, v>>] = "ACCEPTED",
             NEW g, g = req'[q].group
      PROVE  \E x \in Request : /\ AcceptedBy(q, v, x)'
                                /\ v \notin members'[g] => RemovedDuring(v, g, x)'
  <2>1. group'[g] = "live" /\ account'[v] = "live"
    BY <1>2 DEF ReferencesHold
  <2>types. status \in [Request \X User -> {"none", "PENDING"} \cup Answers]
    BY DEF Basic, TypeOK
  <2>settled. status[<<q, v>>] = "ACCEPTED" \/ Settles(r)
    <3>1. CASE status' = status
      BY <1>2, <3>1
    <3>2. CASE Writes(r)
      BY ONLY <1>2, <2>types, <3>2 DEF Writes
    <3>3. CASE Removes(r)
      BY ONLY <1>2, <2>types, <3>3 DEF Removes
    <3>4. CASE Deletes(r)
      BY ONLY <1>2, <2>types, <3>4 DEF Deletes
    <3>5. QED
      BY <3>1, <3>2, <3>3, <3>4 DEF Step, Effect, tables, Founds, Maps, Drops, Joins, Kicks
  <2>2. status[<<q, v>>] # "none"
    BY <1>2, <2>types, <2>settled DEF Settles
  <2>3. req'[q] = req[q] /\ g \in Group
    BY <1>2, <2>2 DEF Basic, WrittenOK, Did, Keeps, Sent, ShapeOK, Shape
  <2>4. CASE status[<<q, v>>] = "ACCEPTED"
    <3>1. PICK x \in Request : AcceptedBy(q, v, x) /\ (v \notin members[g] => RemovedDuring(v, g, x))
      BY <1>2, <2>3, <2>4 DEF AcceptedOK
    <3>2. AcceptedBy(q, v, x)' /\ Sent(x)
      BY <3>1 DEF AcceptedBy, Did, Keeps, Sent, OpKinds
    <3>3. ASSUME v \notin members'[g] PROVE RemovedDuring(v, g, x)'
      BY <2>1, <2>3, <3>1, <3>2, <3>3, LeavesRemoved
    <3>4. QED
      BY <3>2, <3>3
  <2>5. CASE status[<<q, v>>] # "ACCEPTED"
    <3>1. Settles(r)
      BY <2>5, <2>settled
    <3>2. PICK w \in User : /\ req[r].to = {w}
                            /\ status' = [status EXCEPT ![<<req[r].inv, w>>] = req[r].answer]
      BY <3>1 DEF Settles
    <3>3. q = req[r].inv /\ v = w /\ req[r].answer = "ACCEPTED"
      BY <1>2, <2>5, <3>2 DEF Basic, TypeOK
    <3>4. /\ pc[r] = "respond_write" /\ pc'[r] = "done" /\ req'[r] = req[r] /\ before'[r] = before[r]
          /\ UNCHANGED <<account, group, members>>
      BY <3>1 DEF Settles, Step, Moves, Sent
    <3>5. /\ req[r].op = "respond" /\ req[r].user = v /\ req[r].group = g
          /\ v \notin members[g] => RemovedDuring(v, g, r)
      BY <1>2, <2>1, <2>3, <3>2, <3>3, <3>4
         DEF Basic, ShapeOK, Sent, Shape, AcceptingOK, Accepting
    <3>6. AcceptedBy(q, v, r)'
      BY <3>2, <3>3, <3>4, <3>5 DEF AcceptedBy, Did
    <3>7. ASSUME v \notin members'[g] PROVE RemovedDuring(v, g, r)'
      BY <2>1, <2>3, <3>4, <3>5, <3>7, LeavesRemoved DEF Sent
    <3>8. QED
      BY <3>6, <3>7
  <2>6. QED
    BY <2>4, <2>5
<1>3. AcceptingOK'
  BY <1>1 DEF AcceptingOK, RemovedDuring
<1>4. AcceptedOK'
  <2> SUFFICES ASSUME NEW q \in Request, NEW v \in User, status'[<<q, v>>] = "ACCEPTED"
               PROVE  \E x \in Request :
                         /\ AcceptedBy(q, v, x)'
                         /\ v \notin members'[req'[q].group] =>
                              \E k \in Request : /\ Did(k, "kick")' /\ req'[k].group = req'[q].group
                                                 /\ v \in req'[k].to /\ k \notin before'[x]
    BY DEF AcceptedOK, RemovedDuring
  <2>1. PICK x \in Request : /\ AcceptedBy(q, v, x)'
                             /\ v \notin members'[req'[q].group] =>
                                  \E k \in Request : /\ Did(k, "kick")' /\ req'[k].group = req'[q].group
                                                     /\ v \in req'[k].to /\ k \notin before'[x]
    BY <1>2 DEF RemovedDuring
  <2>2. QED
    BY <2>1
<1>5. QED
  BY <1>3, <1>4
-----------------------------------------------------------------------------
\* u was removed from group g by a request that overlaps c.
RemovedWhile(u, g, c) ==
    \E q \in Request : Did(q, "kick") /\ req[q].group = g /\ u \in req[q].to /\ Overlap(c, q)

\* Who connects categories is a member, or has been removed meanwhile.
Connecting(c) == pc[c] \in {"connect_write", "create_maps"}

ConnectingOK ==
    \A c \in Request : Connecting(c) =>
        LET g == req[c].group  u == req[c].user
        IN  /\ group[g] # "absent"
            /\ group[g] = "live" /\ account[u] = "live" /\ u \notin members[g] =>
                  RemovedWhile(u, g, c)

\* Steps keep what happened while a request was in progress.
LEMMA RemovedWhileStays ==
  ASSUME Keeps, NEW u, NEW g, NEW c \in Request, RemovedWhile(u, g, c)
  PROVE  RemovedWhile(u, g, c)'
<1>1. PICK q \in Request : Did(q, "kick") /\ req[q].group = g /\ u \in req[q].to /\ Overlap(c, q)
  BY DEF RemovedWhile
<1>2. Did(q, "kick")' /\ req'[q] = req[q] /\ Overlap(c, q)'
  BY <1>1 DEF Keeps, Did, Sent, OpKinds
<1>3. QED
  BY <1>1, <1>2 DEF RemovedWhile

\* A member leaves by a removal that overlaps what is in progress.
LEMMA RemovedWhileStarts ==
  ASSUME Basic, Basic', Keeps, ReferencesHold, NEW r \in Request, Step(r),
         NEW g \in Group, NEW u \in User, group'[g] = "live", account'[u] = "live",
         u \in members[g], u \notin members'[g],
         NEW c \in Request, c # r, Sent(c), ~Answered(c)
  PROVE  /\ Kicks(r) /\ req[r].group = g /\ u \in req[r].to
         /\ Did(r, "kick")' /\ req'[r] = req[r] /\ Overlap(c, r)'
<1>1. group[g] # "absent"
  BY DEF ReferencesHold
<1>2. Kicks(r) /\ req[r].group = g /\ u \in req[r].to
  BY <1>1, TablesAge
<1>3. Did(r, "kick")' /\ req'[r] = req[r]
  BY <1>2 DEF Kicks, Step, Moves, Sent, Did, Basic, ShapeOK, Shape
<1>4. Sent(r) /\ ~Answered(r)
  BY <1>2 DEF Kicks, Sent, Answered, Outcome
<1>5. Overlap(c, r)'
  BY <1>4, InProgressOverlap DEF Keeps
<1>6. QED
  BY <1>2, <1>3, <1>5

\* Steps keep what a category map of someone who is not a member rests on.
LEMMA StrayStep ==
  ASSUME Basic, Basic', Keeps, ReferencesHold, ReferencesHold', ConnectingOK, StrayMapsByOverlap,
         NEW r \in Request, Step(r)
  PROVE  ConnectingOK' /\ StrayMapsByOverlap'
<1>1. ASSUME NEW c \in Request, Connecting(c)', NEW g, NEW u, g = req'[c].group, u = req'[c].user
      PROVE  /\ group'[g] # "absent"
             /\ group'[g] = "live" /\ account'[u] = "live" /\ u \notin members'[g]
                => RemovedWhile(u, g, c)'
  <2>1. g \in Group /\ u \in User
    BY <1>1 DEF Basic, ShapeOK, Shape, Sent, Connecting
  <2>2. CASE c # r
    <3>1. Connecting(c) /\ req'[c] = req[c] /\ Sent(c) /\ ~Answered(c)
      BY <1>1, <2>2 DEF Step, Moves, Connecting, Sent, Answered, Outcome
    <3>2. /\ group[g] # "absent"
          /\ group[g] = "live" /\ account[u] = "live" /\ u \notin members[g] =>
                RemovedWhile(u, g, c)
      BY <1>1, <3>1 DEF ConnectingOK
    <3>3. group'[g] # "absent" /\ (group'[g] = "live" => group[g] = "live")
          /\ (account'[u] = "live" => account[u] = "live")
      BY <2>1, <3>2, TablesAge
    <3>4. ASSUME group'[g] = "live", account'[u] = "live", u \notin members'[g]
          PROVE  RemovedWhile(u, g, c)'
      <4>1. CASE u \in members[g]
        BY <2>1, <2>2, <3>1, <3>4, <4>1, RemovedWhileStarts DEF RemovedWhile
      <4>2. CASE u \notin members[g]
        BY <3>2, <3>3, <3>4, <4>2, RemovedWhileStays
      <4>3. QED
        BY <4>1, <4>2
    <3>5. QED
      BY <3>3, <3>4
  <2>3. CASE c = r /\ pc'[r] = "create_maps"
    BY <1>1, <2>1, <2>3 DEF Step, Checked, Founds, Basic, TypeOK
  <2>4. CASE c = r /\ pc'[r] = "connect_write"
    <3>1. pc[r] = "unsent" /\ Sees(u, g)
      BY <1>1, <2>4 DEF Step, Checked
    <3>2. UNCHANGED tables
      BY <2>4, <3>1 DEF Step, Effect, Founds, Maps, Drops, Writes, Joins, Settles, Kicks,
                        Removes, Deletes
    <3>3. QED
      BY <3>1, <3>2 DEF Sees, tables
  <2>5. QED
    BY <1>1, <2>2, <2>3, <2>4 DEF Connecting
<1>2. ASSUME NEW g \in Group, NEW u \in User, u \in maps'[g], u \notin members'[g]
      PROVE  \E c, q \in Request :
                /\ (req[c].op \in {"connect", "create"} /\ pc[c] = "done")'
                /\ (req[c].user = u /\ req[c].group = g)'
                /\ (Did(q, "kick") /\ req[q].group = g /\ u \in req[q].to)'
                /\ Overlap(c, q)'
  <2>1. group'[g] = "live" /\ account'[u] = "live"
    BY <1>2 DEF ReferencesHold, Basic, TypeOK
  <2>2. CASE u \in maps[g] /\ u \notin members[g]
    <3>1. PICK c \in Request, q \in Request :
            /\ req[c].op \in {"connect", "create"} /\ pc[c] = "done"
            /\ req[c].user = u /\ req[c].group = g
            /\ Did(q, "kick") /\ req[q].group = g /\ u \in req[q].to
            /\ Overlap(c, q)
      BY <2>2 DEF StrayMapsByOverlap
    <3>2. pc'[c] = pc[c] /\ req'[c] = req[c]
      BY <3>1 DEF Keeps, Sent, Answered, Outcome
    <3>3. Did(q, "kick")' /\ req'[q] = req[q] /\ Overlap(c, q)'
      BY <3>1 DEF Keeps, Did, Sent, OpKinds
    <3>4. QED
      BY <3>1, <3>2, <3>3
  <2>3. CASE u \in maps[g] /\ u \in members[g]
    <3>1. group[g] # "absent"
      BY <2>3 DEF ReferencesHold
    <3>2. Kicks(r) /\ req[r].group = g /\ u \in req[r].to
      BY <1>2, <2>1, <2>3, <3>1, TablesAge
    <3>3. QED
      BY <1>2, <3>2 DEF Kicks, Basic, TypeOK
  <2>4. CASE u \notin maps[g]
    <3>1. Maps(r) /\ req[r].group = g /\ req[r].user = u
      <4>1. maps \in [Group -> SUBSET User]
        BY DEF Basic, TypeOK
      <4>2. CASE maps' = maps
        BY <1>2, <2>4, <4>2
      <4>3. CASE Maps(r)
        BY ONLY <1>2, <2>4, <4>1, <4>3 DEF Maps
      <4>4. CASE Drops(r)
        BY ONLY <1>2, <2>4, <4>1, <4>4 DEF Drops
      <4>5. CASE Kicks(r)
        BY ONLY <1>2, <2>4, <4>1, <4>5 DEF Kicks
      <4>6. CASE Removes(r)
        BY ONLY <1>2, <2>4, <4>1, <4>6 DEF Removes
      <4>7. CASE Deletes(r)
        BY ONLY <1>2, <2>4, <4>1, <4>7 DEF Deletes
      <4>8. QED
        BY <4>2, <4>3, <4>4, <4>5, <4>6, <4>7 DEF Step, Effect, tables, Founds, Writes, Joins, Settles
    <3>2. u \notin members[g] /\ req'[r] = req[r] /\ group[g] = "live" /\ account[u] = "live"
      BY <1>2, <3>1 DEF Maps, Step, Moves, Sent
    <3>3. RemovedWhile(u, g, r)'
      BY <3>1, <3>2, RemovedWhileStays DEF ConnectingOK, Connecting, Maps
    <3>4. req'[r].op \in {"connect", "create"} /\ pc'[r] = "done"
      BY <3>1, <3>2 DEF Maps, Basic, ShapeOK, Sent, Shape
    <3>5. QED
      BY <3>1, <3>2, <3>3, <3>4 DEF RemovedWhile
  <2>5. QED
    BY <2>2, <2>3, <2>4
<1>3. ConnectingOK'
  BY <1>1 DEF ConnectingOK, RemovedWhile
<1>4. StrayMapsByOverlap'
  BY <1>2 DEF StrayMapsByOverlap
<1>5. QED
  BY <1>3, <1>4
-----------------------------------------------------------------------------
\* The account of u was deleted by a request that overlaps q.
DeletedWhile(u, q) ==
    \E d \in Request : Did(d, "deleteAccount") /\ req[d].user = u /\ Overlap(q, d)

\* A removal in progress was asked for by the creator, who is not the member
\* removed, and still is the creator unless the account was deleted meanwhile.
KickingOK ==
    \A q \in Request : pc[q] = "kick_write" =>
        LET g == req[q].group  u == req[q].user
        IN  /\ u \notin req[q].to /\ group[g] # "absent"
            /\ group[g] = "live" /\ creator[g] # u => DeletedWhile(u, q)

\* The heir found by a deletion in progress is a member, unless removed since.
HeirOK ==
    \A d \in Request : pc[d] = "delete_commit" =>
        \A g \in DOMAIN plan[d] :
            LET h == plan[d][g]  u == req[d].user
            IN  /\ h # None /\ group[g] = "live" /\ account[h] = "live" /\ account[u] = "live"
                /\ h \notin members[g]
                => \E q \in Request :
                      /\ Did(q, "kick") /\ req[q].group = g /\ h \in req[q].to
                      /\ \/ req[q].user = u /\ Overlap(q, d)
                         \/ DeletedWhile(req[q].user, q)

\* Steps keep what happened while a request was in progress.
LEMMA DeletedWhileStays ==
  ASSUME Keeps, NEW u, NEW q \in Request, DeletedWhile(u, q)
  PROVE  DeletedWhile(u, q)'
<1>1. PICK d \in Request : Did(d, "deleteAccount") /\ req[d].user = u /\ Overlap(q, d)
  BY DEF DeletedWhile
<1>2. Did(d, "deleteAccount")' /\ req'[d] = req[d] /\ Overlap(q, d)'
  BY <1>1 DEF Keeps, Did, Sent, OpKinds
<1>3. QED
  BY <1>1, <1>2 DEF DeletedWhile

\* A group gets another creator from the deletion of its creator's account,
\* which overlaps whatever is in progress.
LEMMA CreatorChanges ==
  ASSUME Basic, Keeps, PlanOK, NEW r \in Request, Step(r), Deletes(r),
         NEW g \in DOMAIN plan[r]
  PROVE  /\ group[g] = "live" /\ creator[g] = req[r].user
         /\ Did(r, "deleteAccount")' /\ req'[r] = req[r]
         /\ \A q \in Request \ {r} : Sent(q) /\ ~Answered(q) => Overlap(q, r)'
<1>1. group[g] = "live" /\ creator[g] = req[r].user
  BY DEF Deletes, PlanOK
<1>2. Did(r, "deleteAccount")' /\ req'[r] = req[r]
  BY DEF Deletes, Step, Moves, Sent, Did, Basic, ShapeOK, Shape
<1>3. Sent(r) /\ ~Answered(r)
  BY DEF Deletes, Sent, Answered, Outcome
<1>4. QED
  BY <1>1, <1>2, <1>3, InProgressOverlap DEF Keeps

\* Steps keep what a removal in progress rests on.
LEMMA KickingStep ==
  ASSUME Basic, Basic', Keeps, PlanOK, KickingOK, NEW r \in Request, Step(r)
  PROVE  KickingOK'
<1>1. ASSUME NEW q \in Request, pc'[q] = "kick_write", NEW g, NEW u,
             g = req'[q].group, u = req'[q].user
      PROVE  /\ u \notin req'[q].to /\ group'[g] # "absent"
             /\ group'[g] = "live" /\ creator'[g] # u => DeletedWhile(u, q)'
  <2>1. g \in Group /\ u \in User
    BY <1>1 DEF Basic, ShapeOK, Shape, Sent
  <2>2. CASE q = r
    <3>1. pc[r] = "unsent" /\ Manages(u, g) /\ creator[g] \notin req'[r].to
      BY <1>1, <2>2 DEF Step, Checked
    <3>2. UNCHANGED tables
      BY <1>1, <2>2, <3>1 DEF Step, Effect, Founds, Maps, Drops, Writes, Joins, Settles, Kicks,
                        Removes, Deletes
    <3>3. QED
      BY <2>2, <3>1, <3>2 DEF Manages, Sees, tables
  <2>3. CASE q # r
    <3>1. pc[q] = "kick_write" /\ req'[q] = req[q] /\ Sent(q) /\ ~Answered(q)
      BY <1>1, <2>3 DEF Step, Moves, Sent, Answered, Outcome
    <3>2. /\ u \notin req[q].to /\ group[g] # "absent"
          /\ group[g] = "live" /\ creator[g] # u => DeletedWhile(u, q)
      BY <1>1, <3>1 DEF KickingOK
    <3>3. ASSUME group'[g] = "live", creator'[g] # u PROVE DeletedWhile(u, q)'
      <4>1. /\ group[g] = "live"
            /\ creator'[g] = creator[g] \/ (Deletes(r) /\ g \in DOMAIN plan[r])
        BY <2>1, <3>2, <3>3, TablesAge
      <4>2. CASE creator[g] # u
        BY <3>2, <4>1, <4>2, DeletedWhileStays
      <4>3. CASE creator[g] = u
        <5>1. Deletes(r) /\ g \in DOMAIN plan[r]
          BY <3>3, <4>1, <4>3
        <5>2. QED
          BY <2>3, <3>1, <4>3, <5>1, CreatorChanges DEF DeletedWhile
      <4>4. QED
        BY <4>2, <4>3
    <3>4. QED
      BY <2>1, <3>1, <3>2, <3>3, TablesAge
  <2>4. QED
    BY <2>2, <2>3
<1>2. QED
  BY <1>1 DEF KickingOK, DeletedWhile

\* Steps keep what a deletion in progress rests on.
LEMMA HeirStep ==
  ASSUME Basic, Basic', Keeps, PlanOK, ReferencesHold, KickingOK, HeirOK,
         NEW r \in Request, Step(r)
  PROVE  HeirOK'
<1>1. ASSUME NEW d \in Request, pc'[d] = "delete_commit", NEW g \in DOMAIN plan'[d],
             NEW h, NEW u, h = plan'[d][g], u = req'[d].user, h # None, group'[g] = "live",
             account'[h] = "live", account'[u] = "live", h \notin members'[g]
      PROVE  \E q \in Request :
                /\ (Did(q, "kick") /\ req[q].group = g /\ h \in req[q].to)'
                /\ \/ (req[q].user = u /\ Overlap(q, d))'
                   \/ \E e \in Request : (/\ Did(e, "deleteAccount") /\ req[e].user = req[q].user
                                          /\ Overlap(q, e))'
  <2>1. u \in User
    BY <1>1 DEF Basic, ShapeOK, Shape, Sent
  <2>2. CASE d = r
    <3> DEFINE mine == {x \in Group : creator[x] = req[r].user}
    <3>1. /\ UNCHANGED tables /\ plan'[r] \in [mine -> User \cup {None}]
          /\ \A x \in mine : IF members[x] \ {req[r].user} = {} THEN plan'[r][x] = None
                             ELSE plan'[r][x] \in members[x] \ {req[r].user}
      BY <1>1, <2>2 DEF Step, Plans
    <3>2. h \in members[g]
      BY <1>1, <2>2, <3>1
    <3>3. QED
      BY <1>1, <3>1, <3>2 DEF tables
  <2>3. CASE d # r
    <3>1. /\ pc[d] = "delete_commit" /\ req'[d] = req[d] /\ plan'[d] = plan[d]
          /\ Sent(d) /\ ~Answered(d)
      BY <1>1, <2>3 DEF Step, Moves, Sent, Answered, Outcome
    <3>2. g \in Group /\ h \in User
      BY <1>1, <3>1, PlanEntries DEF Basic
    <3>3. group[g] # "absent"
      BY <1>1, <3>1 DEF PlanOK
    <3>4. group[g] = "live" /\ account[h] = "live" /\ account[u] = "live"
      BY <1>1, <2>1, <3>2, <3>3, TablesAge
    <3>5. CASE h \notin members[g]
      <4>1. PICK q \in Request :
              /\ Did(q, "kick") /\ req[q].group = g /\ h \in req[q].to
              /\ \/ req[q].user = u /\ Overlap(q, d)
                 \/ DeletedWhile(req[q].user, q)
        BY <1>1, <3>1, <3>4, <3>5 DEF HeirOK
      <4>2. Did(q, "kick")' /\ req'[q] = req[q]
        BY <4>1 DEF Keeps, Did, Sent, OpKinds
      <4>3. CASE Overlap(q, d)  /\ req[q].user = u
        BY <3>1, <4>1, <4>2, <4>3 DEF Keeps
      <4>4. CASE DeletedWhile(req[q].user, q)
        <5>1. PICK e \in Request : /\ Did(e, "deleteAccount") /\ req[e].user = req[q].user
                                   /\ Overlap(q, e)
          BY <4>4 DEF DeletedWhile
        <5>2. Did(e, "deleteAccount")' /\ req'[e] = req[e] /\ Overlap(q, e)'
          BY <5>1 DEF Keeps, Did, Sent, OpKinds
        <5>3. QED
          BY <4>1, <4>2, <5>1, <5>2
      <4>5. QED
        BY <4>1, <4>3, <4>4
    <3>6. CASE h \in members[g]
      <4>1. /\ Kicks(r) /\ req[r].group = g /\ h \in req[r].to
            /\ Did(r, "kick")' /\ req'[r] = req[r]
        BY <1>1, <2>1, <2>3, <3>1, <3>2, <3>6, RemovedWhileStarts
      <4>2. Overlap(r, d)'
        BY <2>3, <3>1, <4>1, InProgressOverlap DEF Keeps, Kicks, Sent, Answered, Outcome
      <4>3. creator[g] = u
        BY <1>1, <3>1, <3>4 DEF PlanOK
      <4>4. req[r].user = u \/ DeletedWhile(req[r].user, r)
        BY <3>4, <4>1, <4>3 DEF KickingOK, Kicks
      <4>5. CASE req[r].user = u
        BY <4>1, <4>2, <4>5
      <4>6. CASE DeletedWhile(req[r].user, r)
        <5>1. PICK e \in Request : /\ Did(e, "deleteAccount") /\ req[e].user = req[r].user
                                   /\ Overlap(r, e)
          BY <4>6 DEF DeletedWhile
        <5>2. Did(e, "deleteAccount")' /\ req'[e] = req[e] /\ Overlap(r, e)'
          BY <5>1 DEF Keeps, Did, Sent, OpKinds
        <5>3. QED
          BY <4>1, <5>1, <5>2
      <4>7. QED
        BY <4>4, <4>5, <4>6
    <3>7. QED
      BY <3>5, <3>6
  <2>4. QED
    BY <2>2, <2>3
<1>2. QED
  BY <1>1 DEF HeirOK, DeletedWhile
-----------------------------------------------------------------------------
\* Steps keep what a group whose creator is not a member rests on.
LEMMA CreatorStep ==
  ASSUME Basic, Basic', Keeps, PlanOK, ReferencesHold, ReferencesHold', KickingOK, HeirOK,
         CreatorLostByOverlap, NEW r \in Request, Step(r)
  PROVE  CreatorLostByOverlap'
<1>1. ASSUME NEW g \in Group, group'[g] = "live", NEW h, h = creator'[g], h \notin members'[g]
      PROVE  \E q, d \in Request :
                /\ (Did(q, "kick") /\ req[q].group = g /\ h \in req[q].to)'
                /\ (Did(d, "deleteAccount") /\ req[d].user = req[q].user /\ Overlap(q, d))'
  <2>1. h \in User
    BY <1>1 DEF Basic, TypeOK
  <2>2. account'[h] = "live"
    BY <1>1, <2>1 DEF ReferencesHold, Basic, TypeOK
  <2>3. group[g] # "absent"
    <3>1. ASSUME group[g] = "absent" PROVE Founds(r)
      <4>1. /\ group \in [Group -> {"absent", "live", "gone"}]
            /\ group' # group
        BY <1>1, <3>1 DEF Basic, TypeOK
      <4>2. CASE Removes(r)
        BY ONLY <1>1, <3>1, <4>1, <4>2 DEF Removes
      <4>3. CASE Deletes(r)
        BY ONLY <1>1, <3>1, <4>1, <4>3 DEF Deletes
      <4>4. QED
        BY <4>1, <4>2, <4>3 DEF Step, Effect, tables, Maps, Drops, Writes, Joins, Settles, Kicks
    <3>2. CASE Founds(r)
      BY <1>1, <3>2 DEF Founds, Basic, TypeOK
    <3>3. QED
      BY <3>1, <3>2
  <2>4. /\ group[g] = "live" /\ account[h] = "live"
        /\ \/ creator'[g] = creator[g]
           \/ Deletes(r) /\ g \in DOMAIN plan[r] /\ creator'[g] = plan[r][g]
    BY <1>1, <2>1, <2>2, <2>3, TablesAge
  <2>5. CASE h = creator[g] /\ h \notin members[g]
    <3>1. PICK q \in Request, d \in Request :
            /\ Did(q, "kick") /\ req[q].group = g /\ h \in req[q].to
            /\ Did(d, "deleteAccount") /\ req[d].user = req[q].user
            /\ Overlap(q, d)
      BY <2>4, <2>5 DEF CreatorLostByOverlap
    <3>2. /\ Did(q, "kick")' /\ req'[q] = req[q]
          /\ Did(d, "deleteAccount")' /\ req'[d] = req[d] /\ Overlap(q, d)'
      BY <3>1 DEF Keeps, Did, Sent, OpKinds
    <3>3. QED
      BY <3>1, <3>2
  <2>6. CASE h = creator[g] /\ h \in members[g]
    <3>1. Kicks(r) /\ req[r].group = g /\ h \in req[r].to
      BY <1>1, <2>2, <2>3, <2>6, TablesAge
    <3>2. Did(r, "kick")' /\ req'[r] = req[r]
      BY <3>1 DEF Kicks, Step, Moves, Sent, Did, Basic, ShapeOK, Shape
    <3>3. DeletedWhile(req[r].user, r)
      BY <2>4, <2>6, <3>1 DEF KickingOK, Kicks
    <3>4. PICK d \in Request : /\ Did(d, "deleteAccount") /\ req[d].user = req[r].user
                               /\ Overlap(r, d)
      BY <3>3 DEF DeletedWhile
    <3>5. Did(d, "deleteAccount")' /\ req'[d] = req[d] /\ Overlap(r, d)'
      BY <3>4 DEF Keeps, Did, Sent, OpKinds
    <3>6. QED
      BY <3>1, <3>2, <3>4, <3>5
  <2>7. CASE Deletes(r) /\ g \in DOMAIN plan[r] /\ h = plan[r][g]
    <3>1. /\ pc[r] = "delete_commit" /\ account[req[r].user] = "live"
          /\ h # req[r].user /\ Did(r, "deleteAccount")' /\ req'[r] = req[r]
      BY <2>7, CreatorChanges DEF Deletes, PlanOK
    <3>2. h # None
      BY <2>1, NoneAssumption
    <3>3. h \notin members[g]
      BY <1>1, <2>7, <3>1, <3>2 DEF Deletes
    <3>4. PICK q \in Request :
            /\ Did(q, "kick") /\ req[q].group = g /\ h \in req[q].to
            /\ \/ req[q].user = req[r].user /\ Overlap(q, r)
               \/ DeletedWhile(req[q].user, q)
      BY <2>4, <2>7, <3>1, <3>2, <3>3 DEF HeirOK
    <3>5. Did(q, "kick")' /\ req'[q] = req[q]
      BY <3>4 DEF Keeps, Did, Sent, OpKinds
    <3>6. CASE req[q].user = req[r].user /\ Overlap(q, r)
      <4>1. Overlap(q, r)'
        BY <3>1, <3>6 DEF Keeps, Sent
      <4>2. QED
        BY <3>1, <3>4, <3>5, <3>6, <4>1
    <3>7. CASE DeletedWhile(req[q].user, q)
      <4>1. PICK d \in Request : /\ Did(d, "deleteAccount") /\ req[d].user = req[q].user
                                 /\ Overlap(q, d)
        BY <3>7 DEF DeletedWhile
      <4>2. Did(d, "deleteAccount")' /\ req'[d] = req[d] /\ Overlap(q, d)'
        BY <4>1 DEF Keeps, Did, Sent, OpKinds
      <4>3. QED
        BY <3>4, <3>5, <4>1, <4>2
    <3>8. QED
      BY <3>4, <3>6, <3>7
  <2>8. QED
    BY <1>1, <2>4, <2>5, <2>6, <2>7
<1>2. QED
  BY <1>1 DEF CreatorLostByOverlap
-----------------------------------------------------------------------------
\* v joined group g by an acceptance that overlaps d.
JoinedWhile(v, g, d) ==
    \E j \in Request : /\ req[j].op = "respond" /\ req[j].answer = "ACCEPTED"
                       /\ req[j].user = v /\ req[j].group = g
                       /\ Overlap(j, d)

\* The members of a group a deletion found without heir joined since.
LatecomersOK ==
    \A d \in Request : pc[d] = "delete_commit" =>
        \A g \in DOMAIN plan[d] : plan[d][g] = None =>
            \A v \in members[g] \ {req[d].user} : JoinedWhile(v, g, d)

\* Steps keep what a deletion without heir rests on.
LEMMA LatecomersStep ==
  ASSUME Basic, Basic', Keeps, PlanOK, ReferencesHold, LatecomersOK, NEW r \in Request, Step(r)
  PROVE  LatecomersOK'
<1>1. ASSUME NEW d \in Request, pc'[d] = "delete_commit", NEW g \in DOMAIN plan'[d],
             plan'[d][g] = None, NEW v, v \in members'[g], v # req'[d].user
      PROVE  JoinedWhile(v, g, d)'
  <2>1. CASE d = r
    <3> DEFINE mine == {x \in Group : creator[x] = req[r].user}
    <3>1. /\ UNCHANGED tables /\ plan'[r] \in [mine -> User \cup {None}]
          /\ \A x \in mine : IF members[x] \ {req[r].user} = {} THEN plan'[r][x] = None
                             ELSE plan'[r][x] \in members[x] \ {req[r].user}
      BY <1>1, <2>1 DEF Step, Plans
    <3>2. req'[r] = req[r] /\ g \in Group
      BY <1>1, <2>1, <3>1 DEF Step, Checked, Moves, Sent
    <3>3. members[g] \ {req[r].user} # {} /\ members[g] \subseteq User
      BY <1>1, <2>1, <3>1, <3>2 DEF tables, Basic, TypeOK
    <3>4. QED
      BY <1>1, <2>1, <3>1, <3>3, NoneAssumption
  <2>2. CASE d # r
    <3>1. /\ pc[d] = "delete_commit" /\ req'[d] = req[d] /\ plan'[d] = plan[d]
          /\ Sent(d) /\ ~Answered(d)
      BY <1>1, <2>2 DEF Step, Moves, Sent, Answered, Outcome
    <3>2. g \in Group /\ group[g] # "absent"
      BY <1>1, <3>1, PlanEntries DEF Basic, PlanOK
    <3>3. CASE v \in members[g]
      <4>1. PICK j \in Request : /\ req[j].op = "respond" /\ req[j].answer = "ACCEPTED"
                                 /\ req[j].user = v /\ req[j].group = g
                                 /\ Overlap(j, d)
        BY <1>1, <3>1, <3>3 DEF LatecomersOK, JoinedWhile
      <4>2. req'[j] = req[j] /\ Overlap(j, d)'
        BY <3>1, <4>1 DEF Keeps, Overlap, Sent
      <4>3. QED
        BY <4>1, <4>2 DEF JoinedWhile
    <3>4. CASE v \notin members[g]
      <4>1. Joins(r) /\ req[r].group = g /\ req[r].user = v
        <5>1. members \in [Group -> SUBSET User]
          BY DEF Basic, TypeOK
        <5>2. CASE members' = members
          BY <1>1, <3>4, <5>2
        <5>3. CASE Founds(r)
          BY <1>1, <3>2, <3>4, <5>1, <5>3 DEF Founds
        <5>4. CASE Joins(r)
          BY ONLY <1>1, <3>4, <5>1, <5>4 DEF Joins
        <5>5. CASE Kicks(r)
          BY ONLY <1>1, <3>4, <5>1, <5>5 DEF Kicks
        <5>6. CASE Removes(r)
          BY ONLY <1>1, <3>2, <3>4, <5>1, <5>6 DEF Removes
        <5>7. CASE Deletes(r)
          BY ONLY <1>1, <3>2, <3>4, <5>1, <5>7 DEF Deletes
        <5>8. QED
          BY <5>2, <5>3, <5>4, <5>5, <5>6, <5>7 DEF Step, Effect, tables, Maps, Drops, Writes, Settles
      <4>2. req[r].op = "respond" /\ req[r].answer = "ACCEPTED" /\ req'[r] = req[r]
        BY <4>1 DEF Joins, Basic, ShapeOK, Sent, Shape, Step, Moves
      <4>3. Overlap(r, d)'
        BY <2>2, <3>1, <4>1, InProgressOverlap DEF Keeps, Joins, Sent, Answered, Outcome
      <4>4. QED
        BY <4>1, <4>2, <4>3 DEF JoinedWhile
    <3>5. QED
      BY <3>3, <3>4
  <2>3. QED
    BY <2>1, <2>2
<1>2. QED
  BY <1>1 DEF LatecomersOK, JoinedWhile
-----------------------------------------------------------------------------
\* q and r answer one invitation.
SameInvitation(q, r) == req[q].inv = req[r].inv /\ req[q].to = req[r].to

\* An answer given while no other was being given stays, or is the acceptance
\* that is cancelled; who answers later has seen that.
OverlappedAnswer(q) ==
    \E p \in Request : Did(p, "respond") /\ SameInvitation(p, q) /\ Overlap(p, q)

AnswerKept(q, v) ==
    /\ \/ status[<<req[q].inv, v>>] \in {"none", req[q].answer}
       \/ req[q].answer = "ACCEPTED" /\ status[<<req[q].inv, v>>] = "CANCELLED"
    /\ \A r \in Request :
          /\ req[r].op = "respond" /\ q \in before[r] /\ SameInvitation(q, r)
          /\ pc[r] \in {"respond_join", "respond_write", "done"}
          => req[q].answer = "ACCEPTED" /\ req[r].answer = "CANCELLED"

AnsweredOK ==
    \A q \in Request, v \in User :
        Did(q, "respond") /\ req[q].to = {v} => OverlappedAnswer(q) \/ AnswerKept(q, v)

\* Steps keep what the answers to an invitation rest on.
LEMMA AnsweredStep ==
  ASSUME Basic, Basic', Keeps, AnsweredOK, NEW r \in Request, Step(r)
  PROVE  AnsweredOK'
<1>types. status \in [Request \X User -> {"none", "PENDING"} \cup Answers]
  BY DEF Basic, TypeOK
<1>1. ASSUME NEW q \in Request, NEW v \in User, Did(q, "respond")', req'[q].to = {v}, 
             NEW i, i = req'[q].inv,
             ~OverlappedAnswer(q)'
      PROVE  /\ \/ status'[<<i, v>>] \in {"none", req'[q].answer}
                \/ req'[q].answer = "ACCEPTED" /\ status'[<<i, v>>] = "CANCELLED"
             /\ \A x \in Request :
                   /\ req'[x].op = "respond" /\ q \in before'[x] /\ SameInvitation(q, x)'
                   /\ pc'[x] \in {"respond_join", "respond_write", "done"}
                   => req'[q].answer = "ACCEPTED" /\ req'[x].answer = "CANCELLED"
  <2>1. i \in Request /\ req'[q].answer \in Answers /\ Did(i, "invite")'
    BY <1>1 DEF Basic, ShapeOK, Sent, Shape, Did
  <2>2. CASE q = r
    <3>1. Settles(r) /\ req'[r] = req[r] /\ ~Answered(r)
      BY <1>1, <2>2 DEF Step, Checked, Did, Moves, Settles, Sent
    <3>2. status' = [status EXCEPT ![<<i, v>>] = req'[r].answer]
      BY <1>1, <2>2, <3>1 DEF Settles
    <3>3. \A x \in Request : q \notin before'[x]
      BY <2>2, <3>1 DEF Keeps, Basic, BeforeOK, Settles, Step, Moves, Sent
    <3>4. QED
      BY <1>types, <2>1, <2>2, <3>2, <3>3
  <2>3. CASE q # r
    <3>1. Did(q, "respond") /\ req'[q] = req[q] /\ before'[q] = before[q]
      BY <1>1, <2>3 DEF Step, Moves, Did
    <3>2. ~OverlappedAnswer(q)
      BY <1>1, <3>1 DEF OverlappedAnswer, Keeps, Did, Sent, OpKinds, SameInvitation
    <3>3. /\ \/ status[<<i, v>>] \in {"none", req[q].answer}
             \/ req[q].answer = "ACCEPTED" /\ status[<<i, v>>] = "CANCELLED"
          /\ \A x \in Request :
                 /\ req[x].op = "respond" /\ q \in before[x] /\ SameInvitation(q, x)
                 /\ pc[x] \in {"respond_join", "respond_write", "done"}
                 => req[q].answer = "ACCEPTED" /\ req[x].answer = "CANCELLED"
      BY <1>1, <3>1, <3>2 DEF AnsweredOK, AnswerKept
    <3>4. \/ status'[<<i, v>>] \in {"none", req[q].answer}
          \/ req[q].answer = "ACCEPTED" /\ status'[<<i, v>>] = "CANCELLED"
      <4>1. CASE status'[<<i, v>>] \in {status[<<i, v>>], "none"}
        BY <3>3, <4>1
      <4>2. CASE Settles(r)
        <5>1. req'[r] = req[r] /\ Did(r, "respond")' /\ Sent(r) /\ ~Answered(r) /\ req[r].op = "respond"
          BY <4>2 DEF Settles, Step, Moves, Sent, Did, Basic, ShapeOK, Shape
        <5>2. CASE req[r].inv = i /\ req[r].to = {v}
          <6>1. SameInvitation(r, q) /\ SameInvitation(q, r)
            BY <1>1, <3>1, <5>2 DEF SameInvitation
          <6>2. ~Overlap(r, q)
            BY <1>1, <3>1, <5>1, <6>1 DEF OverlappedAnswer, Keeps, Did, Sent, SameInvitation
          <6>3. q \in before[r]
            BY <2>3, <5>1, <6>2 DEF Overlap, Sent, Basic, BeforeOK
          <6>4. req[q].answer = "ACCEPTED" /\ req[r].answer = "CANCELLED"
            BY <3>3, <4>2, <5>1, <6>1, <6>3 DEF Settles
          <6>5. QED
            BY <1>types, <2>1, <4>2, <5>2, <6>4 DEF Settles
        <5>3. CASE ~(req[r].inv = i /\ req[r].to = {v})
          BY <1>types, <2>1, <3>3, <4>2, <5>3 DEF Settles
        <5>4. QED
          BY <5>2, <5>3
      <4>3. CASE Writes(r)
        <5>1. i # r
          <6>1. req'[r] = req[r] /\ Sent(r) /\ ~Answered(r)
            BY <4>3 DEF Writes, Step, Moves, Sent
          <6>2. Did(req[q].inv, "invite")
            BY <3>1 DEF Basic, ShapeOK, Shape, Sent, Did
          <6>3. QED
            BY <1>1, <3>1, <6>1, <6>2 DEF Did, Answered, Outcome
        <5>2. status'[<<i, v>>] = status[<<i, v>>]
          BY <1>types, <2>1, <4>3, <5>1 DEF Writes
        <5>3. QED
          BY <3>3, <5>2
      <4>4. CASE Removes(r)
        BY <2>1, <4>1, <4>4 DEF Removes
      <4>5. CASE Deletes(r)
        BY <2>1, <4>1, <4>5 DEF Deletes
      <4>6. QED
        BY <4>1, <4>2, <4>3, <4>4, <4>5 DEF Step, Effect, tables, Founds, Maps, Drops, Joins, Kicks
    <3>5. ASSUME NEW x \in Request, req'[x].op = "respond", q \in before'[x], SameInvitation(q, x)',
                 pc'[x] \in {"respond_join", "respond_write", "done"}
          PROVE  req'[q].answer = "ACCEPTED" /\ req'[x].answer = "CANCELLED"
      <4>1. CASE x = r /\ pc[r] = "unsent"
        <5>1. pc'[r] # "done"
          BY <4>1 DEF Step, Checked, Running
        <5>2. PICK w \in User :
                /\ req'[r].to = {w}
                /\ \/ status[<<req'[r].inv, w>>] = "PENDING"
                   \/ /\ status[<<req'[r].inv, w>>] = "ACCEPTED"
                      /\ req'[r].answer = "CANCELLED"
          BY <3>5, <4>1, <5>1 DEF Step, Checked
        <5>3. w = v /\ req'[r].inv = i
          BY <1>1, <3>5, <4>1, <5>2 DEF SameInvitation
        <5>4. QED
          BY <2>1, <3>1, <3>3, <4>1, <5>2, <5>3 DEF Answers
      <4>2. CASE x # r \/ pc[r] # "unsent"
        <5>1. /\ req'[x] = req[x] /\ before'[x] = before[x]
              /\ pc[x] \in {"respond_join", "respond_write", "done"}
          <6>1. CASE x # r
            BY <3>5, <6>1 DEF Step, Moves
          <6>2. CASE x = r /\ pc[r] # "unsent"
            BY <3>5, <6>2 DEF Step, Moves, Sent, Checked, Settles
          <6>3. QED
            BY <4>2, <6>1, <6>2
        <5>2. SameInvitation(q, x)
          BY <3>1, <3>5, <5>1 DEF SameInvitation
        <5>3. QED
          BY <3>1, <3>3, <3>5, <5>1, <5>2
      <4>3. QED
        BY <4>1, <4>2
    <3>6. QED
      BY <3>1, <3>4, <3>5
  <2>4. QED
    BY <2>2, <2>3
<1>2. ASSUME NEW q \in Request, NEW v \in User, Did(q, "respond")', req'[q].to = {v}
      PROVE  OverlappedAnswer(q)' \/ AnswerKept(q, v)'
  BY <1>1, <1>2 DEF AnswerKept
<1>3. QED
  BY <1>2 DEF AnsweredOK
-----------------------------------------------------------------------------
\* Everything the properties rest on: an inductive invariant.
IInv ==
    /\ Basic /\ PlanOK /\ ReferencesHold /\ OneUnanswered
    /\ AcceptingOK /\ AcceptedOK
    /\ ConnectingOK /\ StrayMapsByOverlap
    /\ KickingOK /\ HeirOK /\ CreatorLostByOverlap
    /\ LatecomersOK /\ AnsweredOK

\* No request has been sent at first, and the groups have their creators.
LEMMA InvInit == Init => IInv
<1> SUFFICES ASSUME Init PROVE IInv
  OBVIOUS
<1>1. /\ \A r \in Request : pc[r] = "unsent"
      /\ \A q \in Request, v \in User : status[<<q, v>>] = "none"
      /\ \A i \in Request \X User : status[i] = "none"
      /\ \A u \in User : account[u] = "live"
      /\ maps \in [Group -> SUBSET User] /\ members \in [Group -> SUBSET User]
      /\ \A g \in Group : maps[g] \subseteq members[g]
      /\ \A g \in Group : IF group[g] = "live" THEN creator[g] \in members[g]
                                              ELSE creator[g] = None /\ members[g] = {}
  BY DEF Init
<1>2. Basic
  BY TypeInit
<1>3. PlanOK /\ KickingOK /\ HeirOK /\ LatecomersOK /\ AcceptingOK /\ ConnectingOK
  BY <1>1 DEF PlanOK, KickingOK, HeirOK, LatecomersOK, AcceptingOK, Accepting, ConnectingOK, Connecting
<1>4. OneUnanswered /\ AcceptedOK /\ AnsweredOK
  BY <1>1 DEF OneUnanswered, AcceptedOK, AnsweredOK, Did
<1>5. StrayMapsByOverlap /\ CreatorLostByOverlap
  BY <1>1 DEF StrayMapsByOverlap, CreatorLostByOverlap
<1>6. ReferencesHold
  <2>1. \A g \in Group : group[g] # "live" => members[g] = {} /\ maps[g] = {}
    BY <1>1
  <2>2. QED
    BY <1>1, <2>1 DEF ReferencesHold
<1>7. QED
  BY <1>2, <1>3, <1>4, <1>5, <1>6 DEF IInv

\* Every step keeps the invariant.
LEMMA InvStep == IInv /\ [Next]_vars => IInv'
<1> SUFFICES ASSUME IInv, [Next]_vars PROVE IInv'
  OBVIOUS
<1>1. CASE Next
  <2>1. Basic' /\ Keeps
    BY <1>1, BasicStep DEF IInv
  <2>2. PICK r \in Request : Step(r)
    BY <1>1, BasicStep DEF IInv
  <2>3. PlanOK'
    BY <2>1, <2>2, PlanStep DEF IInv
  <2>4. ReferencesHold'
    BY <2>1, <2>2, ReferencesStep DEF IInv
  <2>5. OneUnanswered'
    BY <2>1, <2>2, UnansweredStep DEF IInv
  <2>6. AcceptingOK' /\ AcceptedOK'
    BY <2>1, <2>2, <2>4, AcceptedStep DEF IInv
  <2>7. ConnectingOK' /\ StrayMapsByOverlap'
    BY <2>1, <2>2, <2>4, StrayStep DEF IInv
  <2>8. KickingOK'
    BY <2>1, <2>2, KickingStep DEF IInv
  <2>9. HeirOK'
    BY <2>1, <2>2, HeirStep DEF IInv
  <2>10. CreatorLostByOverlap'
    BY <2>1, <2>2, <2>4, CreatorStep DEF IInv
  <2>11. LatecomersOK'
    BY <2>1, <2>2, LatecomersStep DEF IInv
  <2>12. AnsweredOK'
    BY <2>1, <2>2, AnsweredStep DEF IInv
  <2>13. QED
    BY <2>1, <2>3, <2>4, <2>5, <2>6, <2>7, <2>8, <2>9, <2>10, <2>11, <2>12 DEF IInv
<1>2. CASE UNCHANGED vars
  <2> USE <1>2 DEF vars, tables
  <2>1. Basic'
    BY DEF IInv, Basic, TypeOK, ShapeOK, BeforeOK, WrittenOK, Sent, Shape, Did, Answered
  <2>2. PlanOK' /\ ReferencesHold' /\ OneUnanswered'
    BY DEF IInv, PlanOK, ReferencesHold, OneUnanswered
  <2>3. AcceptingOK' /\ AcceptedOK'
    BY DEF IInv, AcceptingOK, Accepting, AcceptedOK, AcceptedBy, RemovedDuring, Did
  <2>4. ConnectingOK' /\ StrayMapsByOverlap'
    BY DEF IInv, ConnectingOK, Connecting, RemovedWhile, StrayMapsByOverlap, Did, Overlap
  <2>5. KickingOK' /\ HeirOK'
    BY DEF IInv, KickingOK, HeirOK, DeletedWhile, Did, Overlap
  <2>6. CreatorLostByOverlap' /\ LatecomersOK'
    BY DEF IInv, CreatorLostByOverlap, LatecomersOK, JoinedWhile, Did, Overlap
  <2>7. AnsweredOK'
    <3>1. AnsweredOK /\ req' = req /\ pc' = pc /\ before' = before /\ status' = status
      BY DEF IInv
    <3>2. ASSUME NEW q \in Request, NEW v \in User
          PROVE  /\ OverlappedAnswer(q)' = OverlappedAnswer(q)
                 /\ AnswerKept(q, v)' = AnswerKept(q, v)
                 /\ Did(q, "respond")' = Did(q, "respond")
      BY ONLY <3>1 DEF OverlappedAnswer, AnswerKept, SameInvitation, Did, Overlap
    <3>3. QED
      BY ONLY <3>1, <3>2 DEF AnsweredOK
  <2>8. QED
    BY <2>1, <2>2, <2>3, <2>4, <2>5, <2>6, <2>7 DEF IInv
<1>3. QED
  BY <1>1, <1>2

\* The invariant holds in every reachable state.
THEOREM InvAlways == Spec => []IInv
<1>1. QED
  BY InvInit, InvStep, PTL DEF Spec
-----------------------------------------------------------------------------
\* Every variable keeps the type of the row, request or history it stands for.
THEOREM TypesHold == Spec => []TypeOK
<1>1. IInv => TypeOK
  BY DEF IInv, Basic
<1>2. QED
  BY <1>1, InvAlways, PTL

\* No row refers to a group or an account that is gone, in whatever order the
\* requests that check and the requests that delete run.
THEOREM ReferencesAlways == Spec => []ReferencesHold
<1>1. IInv => ReferencesHold
  BY DEF IInv
<1>2. QED
  BY <1>1, InvAlways, PTL

\* No recipient has two unanswered invitations to one group.
THEOREM AtMostOneUnanswered == Spec => []OneUnanswered
<1>1. IInv => OneUnanswered
  BY DEF IInv
<1>2. QED
  BY <1>1, InvAlways, PTL

\* A group loses its creator only to a removal in progress while the account of
\* the creator who asked for it was deleted.
THEOREM CreatorLostOnlyByOverlap == Spec => []CreatorLostByOverlap
<1>1. IInv => CreatorLostByOverlap
  BY DEF IInv
<1>2. QED
  BY <1>1, InvAlways, PTL

\* Category maps of someone who is not a member were written by a request in
\* progress while the member was removed.
THEOREM StrayMapsOnlyByOverlap == Spec => []StrayMapsByOverlap
<1>1. IInv => StrayMapsByOverlap
  BY DEF IInv
<1>2. QED
  BY <1>1, InvAlways, PTL

\* An accepted invitation has made its recipient a member, until removed.
THEOREM AcceptedJoined == Spec => []AcceptedHaveJoined
<1>1. IInv => AcceptedHaveJoined
  BY DEF IInv, AcceptedOK, AcceptedBy, RemovedDuring, AcceptedHaveJoined
<1>2. QED
  BY <1>1, InvAlways, PTL

\* Answers given one after the other are an acceptance and its cancellation,
\* unless a third was given at the same time as the first.
THEOREM AnswersFollow == Spec => []AnswersFollowTable
<1>1. ASSUME IInv, NEW q \in Request, NEW r \in Request,
             Did(q, "respond"), Did(r, "respond"), q \in before[r],
             req[q].inv = req[r].inv, req[q].to = req[r].to
      PROVE  \/ req[q].answer = "ACCEPTED" /\ req[r].answer = "CANCELLED"
             \/ \E p \in Request : /\ Did(p, "respond") /\ Overlap(p, q)
                                   /\ req[p].inv = req[q].inv
                                   /\ req[p].to = req[q].to
  <2>1. PICK v \in User : req[q].to = {v}
    BY <1>1 DEF IInv, Basic, ShapeOK, Shape, Sent, Did, TypeOK, Call
  <2>2. AnsweredOK /\ SameInvitation(q, r)
    BY <1>1 DEF IInv, SameInvitation
  <2>3. QED
    BY <1>1, <2>1, <2>2 DEF AnsweredOK, OverlappedAnswer, AnswerKept, SameInvitation, Did
<1>2. IInv => AnswersFollowTable
  BY <1>1 DEF AnswersFollowTable
<1>3. QED
  BY <1>2, InvAlways, PTL

\* Whoever joins an existing group was invited to it by an earlier request.
THEOREM NobodyJoinsUninvited == Spec => JoinNeedsInvitation
<1> DEFINE Invited == \A g \in Group : group[g] = "live" =>
             \A u \in members'[g] \ members[g] :
                \E q \in Request : Did(q, "invite") /\ req[q].group = g /\ u \in req[q].to
<1>1. IInv /\ [Next]_vars => [Invited]_vars
  <2> SUFFICES ASSUME IInv, Next, NEW g \in Group, group[g] = "live",
                      NEW u \in members'[g], u \notin members[g]
               PROVE  \E q \in Request : Did(q, "invite") /\ req[q].group = g /\ u \in req[q].to
    OBVIOUS
  <2>1. PICK r \in Request : Step(r)
    BY BasicStep DEF IInv
  <2>2. Joins(r) /\ req[r].group = g /\ req[r].user = u
    <3>1. members \in [Group -> SUBSET User]
      BY DEF IInv, Basic, TypeOK
    <3>2. CASE members' = members
      BY <3>2
    <3>3. CASE Founds(r)
      BY <3>1, <3>3 DEF Founds
    <3>4. CASE Joins(r)
      BY <3>1, <3>4 DEF Joins
    <3>5. CASE Kicks(r)
      BY <3>1, <3>5 DEF Kicks
    <3>6. CASE Removes(r)
      BY <3>1, <3>6 DEF Removes
    <3>7. CASE Deletes(r)
      BY <3>1, <3>7 DEF Deletes
    <3>8. QED
      BY <2>1, <3>2, <3>3, <3>4, <3>5, <3>6, <3>7
         DEF Step, Effect, tables, Maps, Drops, Writes, Settles
  <2>3. /\ req[r].inv \in Request /\ Did(req[r].inv, "invite") /\ req[req[r].inv].group = g
        /\ u \in req[req[r].inv].to
    BY <2>2 DEF Joins, IInv, Basic, ShapeOK, Sent, Shape
  <2>4. QED
    BY <2>3
<1>2. QED
  BY <1>1, InvAlways, PTL DEF Spec, JoinNeedsInvitation

\* A group goes by a removal, or with the account of its creator when every
\* other member joined while that account was being deleted.
THEOREM GroupsOutlive == Spec => GroupsOutliveCreators
<1> DEFINE Excused == \A g \in Group : group[g] = "live" /\ group'[g] = "gone" =>
         \/ \E r \in Request : Did(r, "remove")' /\ ~Did(r, "remove") /\ req[r].group = g
         \/ \E d \in Request :
              /\ Did(d, "deleteAccount")' /\ ~Did(d, "deleteAccount")
              /\ creator[g] = req[d].user
              /\ \A v \in members[g] \ {creator[g]} :
                   \E j \in Request : /\ req[j].op = "respond" /\ req[j].answer = "ACCEPTED"
                                      /\ req[j].user = v /\ req[j].group = g
                                      /\ Overlap(j, d)
<1>1. IInv /\ [Next]_vars => [Excused]_vars
  <2> SUFFICES ASSUME IInv, Next, NEW g \in Group, group[g] = "live", group'[g] = "gone"
               PROVE  \/ \E r \in Request : Did(r, "remove")' /\ ~Did(r, "remove") /\ req[r].group = g
                      \/ \E d \in Request :
                            /\ Did(d, "deleteAccount")' /\ ~Did(d, "deleteAccount")
                            /\ creator[g] = req[d].user
                            /\ \A v \in members[g] \ {creator[g]} :
                                 \E j \in Request :
                                    /\ req[j].op = "respond" /\ req[j].answer = "ACCEPTED"
                                    /\ req[j].user = v /\ req[j].group = g
                                    /\ Overlap(j, d)
    OBVIOUS
  <2>1. PICK r \in Request : Step(r)
    BY BasicStep DEF IInv
  <2>2. CASE Removes(r)
    <3>1. req[r].group = g
      BY <2>2 DEF Removes, IInv, Basic, TypeOK
    <3>2. Did(r, "remove")' /\ ~Did(r, "remove")
      BY <2>1, <2>2 DEF Removes, Step, Moves, Sent, Did, IInv, Basic, ShapeOK, Shape
    <3>3. QED
      BY <3>1, <3>2
  <2>3. CASE Deletes(r)
    <3>1. g \in DOMAIN plan[r] /\ plan[r][g] = None /\ pc[r] = "delete_commit"
      BY <2>3 DEF Deletes
    <3>2. creator[g] = req[r].user /\ Did(r, "deleteAccount")'
      BY <2>1, <2>3, <3>1, CreatorChanges, BasicStep DEF IInv
    <3>3. \A v \in members[g] \ {creator[g]} : JoinedWhile(v, g, r)
      BY <3>1, <3>2 DEF IInv, LatecomersOK
    <3>4. QED
      BY <3>1, <3>2, <3>3 DEF JoinedWhile, Did
  <2>4. QED
    <3>1. group' # group
      OBVIOUS
    <3>2. ~Founds(r)
      BY DEF Founds, IInv, Basic, TypeOK
    <3>3. QED
      BY <2>1, <2>2, <2>3, <3>1, <3>2
         DEF Step, Effect, tables, Maps, Drops, Writes, Joins, Settles, Kicks
<1>2. QED
  BY <1>1, InvAlways, PTL DEF Spec, GroupsOutliveCreators
=============================================================================
