------------------------------ MODULE Sessions ------------------------------
(***************************************************************************)
(* Device sessions: the RefreshToken table and the AuthService handlers    *)
(* that write it, one action per database statement, so that concurrent    *)
(* requests interleave wherever the code awaits.                           *)
(*                                                                         *)
(* A request r runs one handler once.  The refresh JWT it mints carries a  *)
(* random jti, and the row it writes a random id, so both are named by r   *)
(* itself: slot[<<u, d>>] = r says that the row of device d of account u   *)
(* stores the hash of the token request r minted.  Requests refused for    *)
(* what they contain (a wrong password, an expired JWT, the caller's own   *)
(* device as the one to revoke) touch nothing and are not sent.            *)
(***************************************************************************)
EXTENDS FiniteSets

CONSTANTS
    User,       \* rows the User table may come to hold
    Device,     \* device identifiers chosen by the clients
    Request,    \* the requests ever sent; each is served once
    None,       \* no row, no token, no device
    Ops         \* the operations clients use

Minting == {"register", "login", "refresh", "profile"}
OpKinds == Minting \cup {"logout", "revoke", "reset", "deleteAccount"}

ASSUME OpsAssumption  == Ops \subseteq OpKinds
ASSUME NoneAssumption == None \notin User \cup Device \cup Request

VARIABLES
    account,    \* account[u] \in {"absent", "live", "gone"}: the User row
    slot,       \* slot[<<u, d>>]: token in the (userId, deviceId) row, or None
    req,        \* req[r]: operation, account, device, token shown
    pc,         \* pc[r]: the statement request r runs next, or its outcome
    before,     \* history: requests answered when r was sent
    owed        \* history: devices given a session nothing has ended since

vars == <<account, slot, req, pc, before, owed>>

Key     == User \X Device
Call    == [op : OpKinds \cup {None}, user : User \cup {None},
            device : Device \cup {None}, shown : Request \cup {None}]
Running == {"login_find", "login_delete", "refresh_delete", "refresh_revoke",
            "profile_update", "profile_delete", "save", "reset_purge", "delete_tx"}
Answer  == {"done", "lost", "rejected", "revoked", "conflict", "aborted"}
-----------------------------------------------------------------------------
TypeOK == /\ account \in [User -> {"absent", "live", "gone"}]
          /\ slot \in [Key -> Request \cup {None}]
          /\ req \in [Request -> Call]
          /\ pc \in [Request -> {"unsent"} \cup Running \cup Answer]
          /\ before \in [Request -> SUBSET Request]
          /\ owed \subseteq Key

Answered(r) == pc[r] \in Answer
KeyOf(r)    == <<req[r].user, req[r].device>>

\* Mutants of Minted: a JWT without jti, equal to the one it replaces when both
\* are signed within a second; a token made of its payload alone.
MintedAgain(r) == IF req[r].op = "refresh" THEN req[r].shown ELSE r
MintedFromPayload(r) == KeyOf(r)

\* The token request r stores: a JWT with a random jti, never seen before.
Minted(r)   == r

\* r stored its token: the handler returned ("done") or its reply was lost.
Saved(r)    == req[r].op \in Minting /\ pc[r] \in {"done", "lost"}

\* The client of request t received its cookies and may show them.
Holds(t)    == req[t].op \in Minting /\ pc[t] = "done"

Init == /\ account \in [User -> {"absent", "live"}]
        /\ slot = [k \in Key |-> None]
        /\ req = [r \in Request |->
                    [op |-> None, user |-> None, device |-> None, shown |-> None]]
        /\ pc = [r \in Request |-> "unsent"]
        /\ before = [r \in Request |-> {}]
        /\ owed = {}
-----------------------------------------------------------------------------
\* Request r reaches its handler and ends its first statement at `next`.
Send(r, op, u, d, t, next) ==
    /\ op \in Ops
    /\ pc[r] = "unsent"
    /\ req' = [req EXCEPT ![r] = [op |-> op, user |-> u, device |-> d, shown |-> t]]
    /\ pc' = [pc EXCEPT ![r] = next]
    /\ before' = [before EXCEPT ![r] = {q \in Request : Answered(q)}]

\* Request r goes from one statement of its handler to the next.
Goto(r, from, next) == /\ pc[r] = from
                       /\ pc' = [pc EXCEPT ![r] = next]
                       /\ UNCHANGED <<req, before>>

\* refreshToken.deleteMany: the rows of K go.
DeleteRows(K) == slot' = [k \in Key |-> IF k \in K THEN None ELSE slot[k]]

\* The rows of K go for good: their devices are owed no session any more.
EndSessions(K) == DeleteRows(K) /\ owed' = owed \ K

\* Mutant of KeysOf: deleteMany without its userId filter.
EveryKey(u) == Key
KeysOf(u) == {u} \X Device
-----------------------------------------------------------------------------
\* registration: user.create.  A name or address in use is a 409, found by the
\* two checks or by the unique constraint.
Register(r, u, d) ==
    \/ /\ account[u] = "absent"
       /\ Send(r, "register", u, d, None, "save")
       /\ account' = [account EXCEPT ![u] = "live"]
       /\ UNCHANGED <<slot, owed>>
    \/ /\ account[u] # "absent"
       /\ Send(r, "register", u, d, None, "rejected")
       /\ UNCHANGED <<account, slot, owed>>

\* login: validateUser reads the account.
Login(r, u, d) ==
    /\ Send(r, "login", u, d, None,
            IF account[u] = "live" THEN "login_find" ELSE "rejected")
    /\ UNCHANGED <<account, slot, owed>>

\* Mutant of LoginFind: login counts on an empty slot.
LoginKeepsRow(r) ==
    /\ Goto(r, "login_find", "save")
    /\ UNCHANGED <<account, slot, owed>>

\* login: findRefreshToken; a row found is this device's, and is deleted next.
LoginFind(r) ==
    /\ Goto(r, "login_find", IF slot[KeyOf(r)] = None THEN "save" ELSE "login_delete")
    /\ UNCHANGED <<account, slot, owed>>

LoginDelete(r) ==
    /\ Goto(r, "login_delete", "save")
    /\ DeleteRows({KeyOf(r)})
    /\ UNCHANGED <<account, owed>>

\* Mutant of Refresh: no check that the row exists.
RefreshWithoutRow(r, t) ==
    /\ Holds(t)
    /\ Send(r, "refresh", req[t].user, req[t].device, t,
            IF slot[KeyOf(t)] \in {None, t} THEN "refresh_delete" ELSE "refresh_revoke")
    /\ UNCHANGED <<account, slot, owed>>

\* refresh: findRefreshToken and the comparison with the row it read.
Refresh(r, t) ==
    /\ Holds(t)
    /\ Send(r, "refresh", req[t].user, req[t].device, t,
            IF slot[KeyOf(t)] = None THEN "rejected"
            ELSE IF slot[KeyOf(t)] = t THEN "refresh_delete" ELSE "refresh_revoke")
    /\ UNCHANGED <<account, slot, owed>>

\* refresh: deleteRefreshTokenById.  A row that is gone already is no error,
\* and a row written since has another id.
RefreshDelete(r) ==
    /\ Goto(r, "refresh_delete", "save")
    /\ DeleteRows({k \in Key : slot[k] = req[r].shown})
    /\ UNCHANGED <<account, owed>>

\* refresh: the token shown is not the stored one; the device's session ends.
RefreshRevoke(r) ==
    /\ Goto(r, "refresh_revoke", "revoked")
    /\ EndSessions({KeyOf(r)})
    /\ UNCHANGED account

\* updateProfile: authorised by the access JWT alone.  The new name is free
\* when it is looked up, and may be taken when it is written.
Profile(r, t) ==
    /\ Holds(t)
    /\ Send(r, "profile", req[t].user, req[t].device, t, "profile_update")
    /\ UNCHANGED <<account, slot, owed>>

\* Mutant of ProfileUpdate: the row is deleted before the name is written.
ProfileDeleteFirst(r) ==
    /\ \/ Goto(r, "profile_update", "profile_delete") /\ account[req[r].user] = "live"
       \/ Goto(r, "profile_update", "rejected")
    /\ DeleteRows({KeyOf(r)})
    /\ UNCHANGED <<account, owed>>

ProfileUpdate(r) ==
    /\ \/ Goto(r, "profile_update", "profile_delete") /\ account[req[r].user] = "live"
       \/ Goto(r, "profile_update", "rejected")
    /\ UNCHANGED <<account, slot, owed>>

ProfileDelete(r) ==
    /\ Goto(r, "profile_delete", "save")
    /\ DeleteRows({KeyOf(r)})
    /\ UNCHANGED <<account, owed>>

\* Mutant of Save: no foreign key, a row for an account deleted meanwhile.
SaveWithoutOwner(r) ==
    \/ /\ \E answer \in {"done", "lost"} : Goto(r, "save", answer)
       /\ slot[KeyOf(r)] = None
       /\ slot' = [slot EXCEPT ![KeyOf(r)] = Minted(r)]
       /\ owed' = owed \cup {KeyOf(r)}
       /\ UNCHANGED account
    \/ /\ Goto(r, "save", "conflict")
       /\ slot[KeyOf(r)] # None
       /\ UNCHANGED <<account, slot, owed>>

\* createTokens and saveRefreshToken: the insert meets UNIQUE (userId, deviceId)
\* and the foreign key to User.  The reply may be lost on its way.
Save(r) ==
    \/ /\ \E answer \in {"done", "lost"} : Goto(r, "save", answer)
       /\ account[req[r].user] = "live" /\ slot[KeyOf(r)] = None
       /\ slot' = [slot EXCEPT ![KeyOf(r)] = Minted(r)]
       /\ owed' = owed \cup {KeyOf(r)}
       /\ UNCHANGED account
    \/ /\ Goto(r, "save", "rejected")
       /\ account[req[r].user] # "live"
       /\ UNCHANGED <<account, slot, owed>>
    \/ /\ Goto(r, "save", "conflict")
       /\ account[req[r].user] = "live" /\ slot[KeyOf(r)] # None
       /\ UNCHANGED <<account, slot, owed>>

\* logout: one deleteMany for the caller's device.
Logout(r, t) ==
    /\ Holds(t)
    /\ Send(r, "logout", req[t].user, req[t].device, t, "done")
    /\ EndSessions({KeyOf(t)})
    /\ UNCHANGED account

\* revokeSession: one deleteMany for another device of the caller's account;
\* no row deleted is a 404.
Revoke(r, t, d) ==
    LET k == <<req[t].user, d>>
    IN  /\ Holds(t)
        /\ d # req[t].device
        /\ Send(r, "revoke", req[t].user, d, t, IF slot[k] = None THEN "rejected" ELSE "done")
        /\ EndSessions({k})
        /\ UNCHANGED account

\* resetPassword: findValidToken, then (user.update and deleteToken, which
\* touch no session and may fail like any statement, see Abort) deleteMany.
Reset(r, u) ==
    /\ account[u] = "live"
    /\ Send(r, "reset", u, None, None, "reset_purge")
    /\ UNCHANGED <<account, slot, owed>>

ResetPurge(r) ==
    /\ Goto(r, "reset_purge", "done")
    /\ EndSessions(KeysOf(req[r].user))
    /\ UNCHANGED account

\* deleteAccount: the password check, then one transaction.
DeleteAccount(r, t) ==
    /\ Holds(t)
    /\ Send(r, "deleteAccount", req[t].user, None, t,
            IF account[req[t].user] = "live" THEN "delete_tx" ELSE "rejected")
    /\ UNCHANGED <<account, slot, owed>>

DeleteCommit(r) ==
    \/ /\ Goto(r, "delete_tx", "done")
       /\ account[req[r].user] = "live"
       /\ account' = [account EXCEPT ![req[r].user] = "gone"]
       /\ EndSessions(KeysOf(req[r].user))
    \/ /\ Goto(r, "delete_tx", "rejected")
       /\ account[req[r].user] # "live"
       /\ UNCHANGED <<account, slot, owed>>

\* The handler stops between two statements: a statement fails, the process is
\* killed.  A device whose row it had deleted to replace it is left without one.
Abort(r) ==
    /\ pc[r] \in Running
    /\ Goto(r, pc[r], "aborted")
    /\ owed' = IF pc[r] = "save" THEN owed \ {KeyOf(r)} ELSE owed
    /\ UNCHANGED <<account, slot>>
-----------------------------------------------------------------------------
\* Each asks again for an unsent request; asking here saves TLC the trying.
Arrive(r) ==
    /\ pc[r] = "unsent"
    /\ \/ \E u \in User, d \in Device : Register(r, u, d) \/ Login(r, u, d)
       \/ \E t \in Request : \/ Refresh(r, t) \/ Profile(r, t) \/ Logout(r, t)
                             \/ DeleteAccount(r, t)
                             \/ \E d \in Device : Revoke(r, t, d)
       \/ \E u \in User : Reset(r, u)

Continue(r) ==
    \/ LoginFind(r) \/ LoginDelete(r)
    \/ RefreshDelete(r) \/ RefreshRevoke(r)
    \/ ProfileUpdate(r) \/ ProfileDelete(r)
    \/ Save(r) \/ ResetPurge(r) \/ DeleteCommit(r)

Next == \E r \in Request : Arrive(r) \/ Continue(r) \/ Abort(r)

Spec == Init /\ [][Next]_vars

\* A statement sent to the database is answered or fails: no handler stops for
\* good at an await.  Nothing makes a client send a request.
FairSpec == Spec /\ \A r \in Request : WF_vars(Continue(r) \/ Abort(r))
-----------------------------------------------------------------------------
\* The handlers that have deleted the device's row and not yet stored theirs.
Replacing(k) == {r \in Request : pc[r] = "save" /\ KeyOf(r) = k}

\* Request q ended the sessions of key k: logout, revocation, replay detected,
\* password reset, account deletion.
Ended(q, k) ==
    \/ req[q].op \in {"logout", "revoke"} /\ pc[q] = "done" /\ KeyOf(q) = k
    \/ req[q].op = "refresh" /\ pc[q] = "revoked" /\ KeyOf(q) = k
    \/ req[q].op \in {"reset", "deleteAccount"} /\ pc[q] = "done" /\ req[q].user = k[1]

\* q and r were in progress at the same time.
Overlap(q, r) == q # r /\ pc[q] # "unsent" /\ q \notin before[r] /\ r \notin before[q]

\* No request loses a device its session: a device given one that nothing has
\* ended since has its row, or a handler is about to write it.  About the
\* delete-then-create of login, refresh and updateProfile, whose unique
\* conflicts fail one handler and never both.
SessionNotLost == \A k \in owed : slot[k] # None \/ Replacing(k) # {}

\* The insert of a request sent while no other request for its device was in
\* progress never meets the unique constraint, whatever was left behind by
\* requests that failed half-way: a retry gets its session.
ConflictNeedsOverlap ==
    \A r \in Request : pc[r] = "conflict" =>
        \E q \in Request : Saved(q) /\ KeyOf(q) = KeyOf(r) /\ Overlap(q, r)

\* A refresh sent after a session was ended does not succeed with a token
\* received before the session was ended: logout, revocation, replay
\* detection, reset and deletion cannot be undone by an old refresh token.
NoRefreshAcrossEnd ==
    \A q, r \in Request :
        /\ req[r].op = "refresh" /\ Saved(r)
        /\ q \in before[r] /\ Ended(q, KeyOf(r))
        => req[r].shown \notin before[q]

\* A token is not rotated again by a refresh sent after a rotation of it was
\* answered (the e2e test 'rejects reused refresh token', for any two requests
\* that do not overlap).
NoReplayAfterRotation ==
    \A q, r \in Request :
        /\ req[q].op = "refresh" /\ Saved(q) /\ q \in before[r]
        /\ req[r].op = "refresh" /\ Saved(r)
        => req[q].shown # req[r].shown

\* Every row belongs to an account that exists, and was stored by the request
\* its token is named after: the insert and the transaction of deleteAccount
\* may come in any order.
RowsHaveOwners ==
    \A k \in Key : slot[k] # None =>
        account[k[1]] = "live" /\ Saved(slot[k]) /\ KeyOf(slot[k]) = k

\* A device left without its row by a handler that is replacing it gets a row
\* again, unless its session is ended or the handler fails.
GapCloses ==
    \A k \in Key : (k \in owed /\ slot[k] = None) ~> (slot[k] # None \/ k \notin owed)

\* The table promise of SessionSlots.
Table == INSTANCE SessionSlots
            WITH Token <- Request, used <- {r \in Request : Saved(r)}
TableSpec == Table!Spec
=============================================================================
