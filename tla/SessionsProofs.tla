--------------------------- MODULE SessionsProofs ---------------------------
(***************************************************************************)
(* Theorems about Sessions, for every set of accounts, devices and         *)
(* requests.                                                               *)
(***************************************************************************)
EXTENDS Sessions, TLAPS

-----------------------------------------------------------------------------
\* What a request is once sent: the account and device it acts on, and the
\* operation whose statements it runs.
Shape(r) ==
    /\ req[r].op \in OpKinds
    /\ req[r].user \in User
    /\ req[r].op \in Minting \cup {"logout", "revoke"} => req[r].device \in Device
    /\ req[r].op = "refresh" =>
          /\ req[r].shown \in Request
          /\ pc[req[r].shown] = "done" /\ req[req[r].shown].op \in Minting
          /\ KeyOf(req[r].shown) = KeyOf(r)
    /\ pc[r] \in {"login_find", "login_delete"} => req[r].op = "login"
    /\ pc[r] \in {"refresh_delete", "refresh_revoke", "revoked"} => req[r].op = "refresh"
    /\ pc[r] \in {"profile_update", "profile_delete"} => req[r].op = "profile"
    /\ pc[r] \in {"save", "lost", "conflict"} => req[r].op \in Minting
    /\ pc[r] = "reset_purge" => req[r].op = "reset"
    /\ pc[r] = "delete_tx" => req[r].op = "deleteAccount"

ShapeOK == \A r \in Request : pc[r] # "unsent" => Shape(r)

\* A request's history names only requests that were answered; so none that is
\* unsent or still running.
BeforeOK == \A r \in Request : \A q \in before[r] : Answered(q)

LEMMA TypeInit == Init => TypeOK
BY DEF Init, TypeOK, Call

\* A request keeps the type of everything it writes.
LEMMA TypeStep == ASSUME TypeOK, ShapeOK, [Next]_vars PROVE TypeOK'
<1> USE DEF TypeOK, Key
<1>1. CASE UNCHANGED vars
  BY <1>1 DEF vars
<1>2. ASSUME NEW r \in Request, Arrive(r) PROVE TypeOK'
  <2>1. ASSUME NEW u \in User, NEW d \in Device, Register(r, u, d) PROVE TypeOK'
    <3>1. /\ account' \in [User -> {"absent", "live", "gone"}]
          /\ slot' = slot /\ owed' = owed
      BY <2>1 DEF Register
    <3>2. req' \in [Request -> Call] /\ before' \in [Request -> SUBSET Request]
      BY <2>1 DEF Register, Send, Call, OpKinds, Minting
    <3>3. pc' \in [Request -> {"unsent"} \cup Running \cup Answer]
      BY <2>1 DEF Register, Send, Answer, Running
    <3>4. QED
      BY <3>1, <3>2, <3>3
  <2>2. ASSUME NEW u \in User, NEW d \in Device, Login(r, u, d) PROVE TypeOK'
    BY <2>2 DEF Login, Send, Call, OpKinds, Minting, Answer, Running
  <2>3. ASSUME NEW t \in Request, Refresh(r, t) PROVE TypeOK'
    BY <2>3 DEF Refresh, Send, Call, OpKinds, Minting, Answer, Running
  <2>4. ASSUME NEW t \in Request, Profile(r, t) PROVE TypeOK'
    BY <2>4 DEF Profile, Send, Call, OpKinds, Minting, Answer, Running
  <2>5. ASSUME NEW t \in Request, Logout(r, t) PROVE TypeOK'
    BY <2>5 DEF Logout, Send, Call, OpKinds, Minting, Answer, Running, EndSessions, DeleteRows
  <2>6. ASSUME NEW t \in Request, DeleteAccount(r, t) PROVE TypeOK'
    BY <2>6 DEF DeleteAccount, Send, Call, OpKinds, Minting, Answer, Running
  <2>7. ASSUME NEW t \in Request, NEW d \in Device, Revoke(r, t, d) PROVE TypeOK'
    BY <2>7 DEF Revoke, Send, Call, OpKinds, Minting, Answer, Running, EndSessions, DeleteRows
  <2>8. ASSUME NEW u \in User, Reset(r, u) PROVE TypeOK'
    BY <2>8 DEF Reset, Send, Call, OpKinds, Minting, Answer, Running
  <2>9. QED
    BY <1>2, <2>1, <2>2, <2>3, <2>4, <2>5, <2>6, <2>7, <2>8 DEF Arrive
<1>3. ASSUME NEW r \in Request, Continue(r) PROVE TypeOK'
  <2> USE DEF Goto, Answer, Running
  <2>1. CASE LoginFind(r)
    BY <2>1 DEF LoginFind
  <2>2. CASE LoginDelete(r)
    BY <2>2 DEF LoginDelete, DeleteRows
  <2>3. CASE RefreshDelete(r)
    BY <2>3 DEF RefreshDelete, DeleteRows
  <2>4. CASE RefreshRevoke(r)
    BY <2>4 DEF RefreshRevoke, EndSessions, DeleteRows
  <2>5. CASE ProfileUpdate(r)
    BY <2>5 DEF ProfileUpdate
  <2>6. CASE ProfileDelete(r)
    BY <2>6 DEF ProfileDelete, DeleteRows
  <2>7. CASE Save(r)
    <3>1. pc[r] = "save" /\ KeyOf(r) \in Key
      BY <2>7 DEF Save, ShapeOK, Shape, KeyOf
    <3>2. QED
      BY <2>7, <3>1 DEF Save, Minted
  <2>8. CASE ResetPurge(r)
    BY <2>8 DEF ResetPurge, EndSessions, DeleteRows
  <2>9. CASE DeleteCommit(r)
    <3>1. /\ account' \in [User -> {"absent", "live", "gone"}]
          /\ slot' \in [Key -> Request \cup {None}]
          /\ owed' \subseteq Key
      BY <2>9 DEF DeleteCommit, EndSessions, DeleteRows
    <3>2. req' = req /\ before' = before /\ pc' \in [Request -> {"unsent"} \cup Running \cup Answer]
      BY <2>9 DEF DeleteCommit
    <3>3. QED
      BY <3>1, <3>2
  <2>10. QED
    BY <1>3, <2>1, <2>2, <2>3, <2>4, <2>5, <2>6, <2>7, <2>8, <2>9 DEF Continue
<1>4. ASSUME NEW r \in Request, Abort(r) PROVE TypeOK'
  BY <1>4 DEF Abort, Goto, Answer
<1>5. QED
  BY <1>1, <1>2, <1>3, <1>4 DEF Next
-----------------------------------------------------------------------------
\* The effects of one step of request r, whichever it is.

\* Only r moves; it keeps what it was sent with, and an answer is final.
Moves(r) ==
    /\ ~Answered(r)
    /\ pc'[r] # "unsent"
    /\ \A q \in Request \ {r} :
          pc'[q] = pc[q] /\ req'[q] = req[q] /\ before'[q] = before[q]
    /\ IF pc[r] = "unsent" THEN before'[r] = {q \in Request : Answered(q)}
                           ELSE req'[r] = req[r] /\ before'[r] = before[r]

\* r stores its row.
Opens(r) ==
    /\ pc[r] = "save" /\ pc'[r] \in {"done", "lost"}
    /\ slot[KeyOf(r)] = None
    /\ slot' = [slot EXCEPT ![KeyOf(r)] = r]

\* r stores nothing, and may delete rows.
Shrinks(r) ==
    /\ ~Saved(r)'
    /\ \A k \in Key : slot'[k] \in {slot[k], None}

\* A request that ends the sessions of a key leaves its row empty.
Ends(r) == \A k \in Key : Ended(r, k)' => slot'[k] = None

\* A refresh passes its comparison by reading the token it shows, and reaches
\* the insert no other way.
Compares(r) ==
    /\ pc'[r] = "refresh_delete" =>
          pc[r] = "unsent" /\ slot' = slot /\ slot[KeyOf(r)'] = req'[r].shown
    /\ req'[r].op = "refresh" /\ pc'[r] \in {"save", "done", "lost"} =>
          pc[r] \in {"refresh_delete", "save"}

Effects(r) == Shape(r)' /\ Moves(r) /\ (Opens(r) \/ Shrinks(r)) /\ Ends(r) /\ Compares(r)

LEMMA StepEffects ==
  ASSUME TypeOK, ShapeOK, NEW r \in Request, Arrive(r) \/ Continue(r) \/ Abort(r)
  PROVE  Effects(r)
<1> USE DEF TypeOK, Key, Effects, Shape, Moves, Opens, Shrinks, Ends, Compares, Ended,
            KeyOf, Answered, Saved
<1>1. ASSUME Arrive(r) PROVE Effects(r)
  <2> USE DEF Send, OpKinds, Minting, Answer
  <2>1. ASSUME NEW u \in User, NEW d \in Device, Register(r, u, d) PROVE Effects(r)
    BY <2>1 DEF Register
  <2>2. ASSUME NEW u \in User, NEW d \in Device, Login(r, u, d) PROVE Effects(r)
    BY <2>2 DEF Login
  <2>3. ASSUME NEW t \in Request, Refresh(r, t) PROVE Effects(r)
    BY <2>3 DEF Refresh, Holds, ShapeOK
  <2>4. ASSUME NEW t \in Request, Profile(r, t) PROVE Effects(r)
    BY <2>4 DEF Profile, Holds, ShapeOK
  <2>5. ASSUME NEW t \in Request, Logout(r, t) PROVE Effects(r)
    BY <2>5 DEF Logout, Holds, ShapeOK, EndSessions, DeleteRows
  <2>6. ASSUME NEW t \in Request, DeleteAccount(r, t) PROVE Effects(r)
    BY <2>6 DEF DeleteAccount, Holds, ShapeOK
  <2>7. ASSUME NEW t \in Request, NEW d \in Device, Revoke(r, t, d) PROVE Effects(r)
    BY <2>7 DEF Revoke, Holds, ShapeOK, EndSessions, DeleteRows
  <2>8. ASSUME NEW u \in User, Reset(r, u) PROVE Effects(r)
    BY <2>8 DEF Reset
  <2>9. QED
    BY <1>1, <2>1, <2>2, <2>3, <2>4, <2>5, <2>6, <2>7, <2>8 DEF Arrive
<1>2. ASSUME Continue(r) PROVE Effects(r)
  <2> USE DEF Goto, Answer, ShapeOK
  <2>1. CASE LoginFind(r)
    BY <2>1 DEF LoginFind, Minting
  <2>2. CASE LoginDelete(r)
    BY <2>2 DEF LoginDelete, DeleteRows, Minting
  <2>3. CASE RefreshDelete(r)
    BY <2>3 DEF RefreshDelete, DeleteRows, Minting
  <2>4. CASE RefreshRevoke(r)
    BY <2>4 DEF RefreshRevoke, EndSessions, DeleteRows
  <2>5. CASE ProfileUpdate(r)
    BY <2>5 DEF ProfileUpdate
  <2>6. CASE ProfileDelete(r)
    BY <2>6 DEF ProfileDelete, DeleteRows, Minting
  <2>7. CASE Save(r)
    BY <2>7 DEF Save, Minted, Minting
  <2>8. CASE ResetPurge(r)
    BY <2>8 DEF ResetPurge, EndSessions, DeleteRows, KeysOf, Minting
  <2>9. CASE DeleteCommit(r)
    BY <2>9 DEF DeleteCommit, EndSessions, DeleteRows, KeysOf, Minting
  <2>10. QED
    BY <1>2, <2>1, <2>2, <2>3, <2>4, <2>5, <2>6, <2>7, <2>8, <2>9 DEF Continue
<1>3. ASSUME Abort(r) PROVE Effects(r)
  BY <1>3 DEF Abort, Goto, Answer, Running, ShapeOK
<1>4. QED
  BY <1>1, <1>2, <1>3
-----------------------------------------------------------------------------
Basic == TypeOK /\ ShapeOK /\ BeforeOK

LEMMA BasicInit == Init => Basic
BY TypeInit DEF Init, Basic, ShapeOK, BeforeOK

LEMMA BasicStep == Basic /\ [Next]_vars => Basic'
<1> SUFFICES ASSUME Basic, [Next]_vars PROVE Basic'
  OBVIOUS
<1> USE DEF Basic
<1>1. TypeOK'
  BY TypeStep
<1>2. CASE UNCHANGED vars
  BY <1>1, <1>2 DEF vars, ShapeOK, Shape, KeyOf, BeforeOK, Answered
<1>3. CASE Next
  <2>1. PICK r \in Request : Arrive(r) \/ Continue(r) \/ Abort(r)
    BY <1>3 DEF Next
  <2>2. Effects(r)
    BY <2>1, StepEffects
  <2>3. ShapeOK'
    <3> SUFFICES ASSUME NEW q \in Request, pc'[q] # "unsent" PROVE Shape(q)'
      BY DEF ShapeOK
    <3>1. CASE q = r
      BY <3>1, <2>2 DEF Effects
    <3>2. CASE q # r
      BY <3>2, <2>2 DEF Effects, Moves, ShapeOK, Shape, KeyOf, Answered, Answer, TypeOK
    <3>3. QED
      BY <3>1, <3>2
  <2>4. BeforeOK'
    BY <2>2 DEF Effects, Moves, BeforeOK, Answered, Answer, TypeOK
  <2>5. QED
    BY <1>1, <2>3, <2>4
<1>4. QED
  BY <1>2, <1>3

\* Every request keeps the type of the tables, and of its own progress.
THEOREM TypeCorrect == Spec => []TypeOK
<1>1. Basic => TypeOK
  BY DEF Basic
<1>2. QED
  BY BasicInit, BasicStep, <1>1, PTL DEF Spec
-----------------------------------------------------------------------------
\* Rows and the accounts they belong to.
LEMMA OwnersInit == Init => RowsHaveOwners
BY DEF Init, RowsHaveOwners, Key

\* The row a step deletes or stores is the only one that changes, and an
\* account goes away with all of its rows.
LEMMA OwnersStep == Basic /\ RowsHaveOwners /\ [Next]_vars => RowsHaveOwners'
<1> SUFFICES ASSUME Basic, RowsHaveOwners, [Next]_vars PROVE RowsHaveOwners'
  OBVIOUS
<1> USE DEF Basic
<1>1. CASE UNCHANGED vars
  BY <1>1 DEF vars, RowsHaveOwners, Saved, KeyOf
<1>2. CASE Next
  <2>1. PICK r \in Request : Arrive(r) \/ Continue(r) \/ Abort(r)
    BY <1>2 DEF Next
  <2>2. Effects(r)
    BY <2>1, StepEffects
  <2>3. \A t \in Request : Saved(t) => Saved(t)' /\ KeyOf(t)' = KeyOf(t)
    BY <2>2 DEF Effects, Moves, Saved, KeyOf, Answered, Answer
  <2>4. CASE Opens(r) /\ account[req[r].user] = "live" /\ account' = account
    <3>1. Saved(r)' /\ KeyOf(r)' = KeyOf(r)
      BY <2>2, <2>4 DEF Effects, Moves, Opens, Saved, KeyOf, ShapeOK, Shape
    <3>2. slot[KeyOf(r)] = None /\ slot' = [slot EXCEPT ![KeyOf(r)] = r]
      BY <2>4 DEF Opens
    <3>3. QED
      BY <2>3, <2>4, <3>1, <3>2 DEF RowsHaveOwners, KeyOf, TypeOK, Key
  <2>5. CASE Shrinks(r) /\ \A u \in User : account[u] = "live" =>
                \/ account'[u] = "live"
                \/ \A d \in Device : slot'[<<u, d>>] = None
    BY <2>3, <2>5 DEF Shrinks, RowsHaveOwners, TypeOK, Key
  <2>6. \/ /\ Opens(r) /\ account[req[r].user] = "live" /\ account' = account
        \/ /\ Shrinks(r)
           /\ \A u \in User : account[u] = "live" =>
                \/ account'[u] = "live"
                \/ \A d \in Device : slot'[<<u, d>>] = None
    <3>1. CASE Arrive(r)
      <4>1. Shrinks(r)
        BY <3>1, <2>2 DEF Effects, Opens, Arrive, Register, Login, Refresh, Profile, Logout,
            DeleteAccount, Revoke, Reset, Send
      <4>2. \A u \in User : account[u] = "live" => account'[u] = "live"
        BY <3>1 DEF Arrive, Register, Login, Refresh, Profile, Logout,
            DeleteAccount, Revoke, Reset, EndSessions, TypeOK
      <4>3. QED
        BY <4>1, <4>2
    <3>2. CASE Continue(r) /\ ~DeleteCommit(r) /\ ~Save(r)
      <4>1. account' = account
        BY <3>2 DEF Continue, LoginFind, LoginDelete, RefreshDelete, RefreshRevoke,
            ProfileUpdate, ProfileDelete, ResetPurge
      <4>2. ~Opens(r)
        BY <3>2 DEF Opens, Continue, LoginFind, LoginDelete, RefreshDelete, RefreshRevoke,
            ProfileUpdate, ProfileDelete, ResetPurge, Goto
      <4>3. QED
        BY <2>2, <4>1, <4>2 DEF Effects
    <3>3. CASE Save(r)
      BY <2>2, <3>3 DEF Effects, Save, Opens, Shrinks, Goto, TypeOK
    <3>4. CASE DeleteCommit(r)
      <4>1. Shrinks(r)
        BY <2>2, <3>4 DEF Effects, DeleteCommit, Opens, Goto
      <4>2. \A u \in User : account[u] = "live" =>
                \/ account'[u] = "live"
                \/ \A d \in Device : slot'[<<u, d>>] = None
        BY <3>4 DEF DeleteCommit, EndSessions, DeleteRows, KeysOf, TypeOK, Key
      <4>3. QED
        BY <4>1, <4>2
    <3>5. CASE Abort(r)
      BY <2>2, <3>5 DEF Effects, Abort, Opens, Goto, Running
    <3>6. QED
      BY <2>1, <3>1, <3>2, <3>3, <3>4, <3>5
  <2>7. QED
    BY <2>4, <2>5, <2>6
<1>3. QED
  BY <1>1, <1>2

\* No row outlives its account, however the insert of a login or refresh and
\* the transaction of deleteAccount interleave.
THEOREM OwnersAlways == Spec => []RowsHaveOwners
<1>1. Init => Basic /\ RowsHaveOwners
  BY BasicInit, OwnersInit
<1>2. (Basic /\ RowsHaveOwners) /\ [Next]_vars => (Basic /\ RowsHaveOwners)'
  BY BasicStep, OwnersStep
<1>3. QED
  BY <1>1, <1>2, PTL DEF Spec
-----------------------------------------------------------------------------
\* Sessions that were ended.

\* A session stored before the request that ended its key was sent is gone.
EndedRowsGone ==
    \A q \in Request, k \in Key :
        slot[k] # None /\ Ended(q, k) => slot[k] \notin before[q]

\* So a refresh that passed its comparison does not show such a token.
ComparedIsCurrent ==
    \A q, r \in Request :
        /\ req[r].op = "refresh"
        /\ pc[r] \in {"refresh_delete", "save", "done", "lost"}
        /\ q \in before[r] /\ Ended(q, KeyOf(r))
        => req[r].shown \notin before[q]

EndInv == Basic /\ RowsHaveOwners /\ EndedRowsGone /\ ComparedIsCurrent

LEMMA EndInit == Init => EndInv
BY BasicInit, OwnersInit DEF Init, EndInv, EndedRowsGone, ComparedIsCurrent, Key

LEMMA EndStep == EndInv /\ [Next]_vars => EndInv'
<1> SUFFICES ASSUME EndInv, [Next]_vars PROVE EndInv'
  OBVIOUS
<1> USE DEF EndInv
<1>0. Basic' /\ RowsHaveOwners'
  BY BasicStep, OwnersStep
<1>1. CASE UNCHANGED vars
  BY <1>0, <1>1 DEF vars, EndedRowsGone, ComparedIsCurrent, Ended, KeyOf
<1>2. CASE Next
  <2> USE DEF Basic
  <2>1. PICK r \in Request : Arrive(r) \/ Continue(r) \/ Abort(r)
    BY <1>2 DEF Next
  <2>2. Effects(r)
    BY <2>1, StepEffects
  <2>3. \A q \in Request \ {r} : /\ before'[q] = before[q] /\ KeyOf(q)' = KeyOf(q)
                                /\ \A k \in Key : Ended(q, k)' <=> Ended(q, k)
    BY <2>2 DEF Effects, Moves, Ended, KeyOf
  <2>4. \A q \in Request \ {r} : r \notin before[q]
    BY <2>2 DEF Effects, Moves, BeforeOK
  <2>5. EndedRowsGone'
    <3> SUFFICES ASSUME NEW q \in Request, NEW k \in Key, slot'[k] # None, Ended(q, k)'
                 PROVE  slot'[k] \notin before'[q]
      BY DEF EndedRowsGone, Key
    <3>1. q # r
      BY <2>2 DEF Effects, Ends
    <3>2. CASE Opens(r)
      BY <2>3, <2>4, <3>1, <3>2 DEF Opens, EndedRowsGone, TypeOK
    <3>3. CASE Shrinks(r)
      BY <2>3, <3>1, <3>3 DEF Shrinks, EndedRowsGone
    <3>4. QED
      BY <2>2, <3>2, <3>3 DEF Effects
  <2>6. ComparedIsCurrent'
    <3> SUFFICES ASSUME NEW q \in Request, NEW p \in Request,
                        req'[p].op = "refresh",
                        pc'[p] \in {"refresh_delete", "save", "done", "lost"},
                        q \in before'[p], Ended(q, KeyOf(p))'
                 PROVE  req'[p].shown \notin before'[q]
      BY DEF ComparedIsCurrent
    <3>1. KeyOf(p)' \in Key
      BY <1>0 DEF ShapeOK, Shape, KeyOf, Key, Minting, TypeOK
    <3>2. q # r
      BY <2>2 DEF Effects, Moves, BeforeOK, Answered, Answer, TypeOK
    <3>3. CASE p # r
      <4>1. pc[p] = pc'[p] /\ req[p] = req'[p] /\ before[p] = before'[p]
        BY <2>2, <3>3 DEF Effects, Moves
      <4>2. Ended(q, KeyOf(p))
        BY <2>2, <3>2, <4>1 DEF Effects, Moves, Ended, KeyOf
      <4>3. QED
        BY <2>3, <3>2, <4>1, <4>2 DEF ComparedIsCurrent
    <3>4. CASE p = r /\ pc'[r] = "refresh_delete"
      <4>1. slot[KeyOf(r)'] = req'[r].shown /\ slot' = slot
        BY <2>2, <3>4 DEF Effects, Compares
      <4>2. req'[r].shown # None
        BY <1>0, <3>4, NoneAssumption DEF ShapeOK, Shape
      <4>3. QED
        BY <2>3, <2>5, <3>1, <3>2, <3>4, <4>1, <4>2 DEF EndedRowsGone
    <3>5. CASE p = r /\ pc'[r] # "refresh_delete"
      <4>1. pc[r] \in {"refresh_delete", "save"} /\ req'[r] = req[r] /\ before'[r] = before[r]
        BY <2>2, <3>5 DEF Effects, Compares, Moves
      <4>2. Ended(q, KeyOf(r))
        BY <2>2, <3>2, <3>5, <4>1 DEF Effects, Moves, Ended, KeyOf
      <4>3. QED
        BY <2>3, <3>2, <3>5, <4>1, <4>2 DEF ComparedIsCurrent
    <3>6. QED
      BY <3>3, <3>4, <3>5
  <2>7. QED
    BY <1>0, <2>5, <2>6
<1>3. QED
  BY <1>1, <1>2

\* No refresh undoes a logout, revocation, reset or account deletion answered
\* before it was sent.
THEOREM RefreshNeverCrossesEnd == Spec => []NoRefreshAcrossEnd
<1>1. EndInv => NoRefreshAcrossEnd
  BY DEF EndInv, ComparedIsCurrent, NoRefreshAcrossEnd, Saved
<1>2. QED
  BY EndInit, EndStep, <1>1, PTL DEF Spec
-----------------------------------------------------------------------------
\* Tokens that were rotated.

\* The token a rotation shows is out of the table from its delete on.
RotatedGone ==
    \A r \in Request :
        req[r].op = "refresh" /\ pc[r] \in {"save", "done", "lost"}
        => slot[KeyOf(r)] # req[r].shown

\* So no later refresh passes its comparison with it.
ComparedIsNew ==
    \A q, r \in Request :
        /\ req[q].op = "refresh" /\ Saved(q) /\ q \in before[r]
        /\ req[r].op = "refresh" /\ pc[r] \in {"refresh_delete", "save", "done", "lost"}
        => req[q].shown # req[r].shown

ReplayInv == Basic /\ RowsHaveOwners /\ RotatedGone /\ ComparedIsNew

LEMMA ReplayInit == Init => ReplayInv
BY BasicInit, OwnersInit DEF Init, ReplayInv, RotatedGone, ComparedIsNew

LEMMA ReplayStep == ReplayInv /\ [Next]_vars => ReplayInv'
<1> SUFFICES ASSUME ReplayInv, [Next]_vars PROVE ReplayInv'
  OBVIOUS
<1> USE DEF ReplayInv
<1>0. Basic' /\ RowsHaveOwners'
  BY BasicStep, OwnersStep
<1>1. CASE UNCHANGED vars
  BY <1>0, <1>1 DEF vars, RotatedGone, ComparedIsNew, Saved, KeyOf
<1>2. CASE Next
  <2> USE DEF Basic
  <2>1. PICK r \in Request : Arrive(r) \/ Continue(r) \/ Abort(r)
    BY <1>2 DEF Next
  <2>2. Effects(r)
    BY <2>1, StepEffects
  <2>3. RotatedGone'
    <3> SUFFICES ASSUME NEW q \in Request, req'[q].op = "refresh",
                        pc'[q] \in {"save", "done", "lost"}
                 PROVE  slot'[KeyOf(q)'] # req'[q].shown
      BY DEF RotatedGone
    <3>1. /\ req'[q].shown \in Request /\ KeyOf(q)' \in Key
          /\ pc'[req'[q].shown] = "done"
      BY <1>0 DEF ShapeOK, Shape, KeyOf, Key, Minting
    <3>2. CASE q # r \/ pc[r] = "save"
      <4>0. req'[q] = req[q] /\ pc[q] \in {"save", "done", "lost"}
        BY <2>2, <3>2 DEF Effects, Moves
      <4>1. /\ req'[q] = req[q] /\ slot[KeyOf(q)] # req[q].shown /\ KeyOf(q)' = KeyOf(q)
            /\ pc[req[q].shown] = "done"
        BY <4>0 DEF RotatedGone, KeyOf, ShapeOK, Shape
      <4>2. req[q].shown # r
        BY <2>2, <4>1 DEF Effects, Moves, Answered, Answer
      <4>3. QED
        BY <2>2, <3>1, <4>1, <4>2, NoneAssumption DEF Effects, Opens, Shrinks, TypeOK
    <3>3. CASE q = r /\ pc[r] # "save"
      <4>1. pc[r] = "refresh_delete" /\ pc'[r] = "save"
        BY <2>2, <3>3 DEF Effects, Compares, Shrinks, Opens, Saved, Minting
      <4>2. RefreshDelete(r)
        BY <2>1, <4>1 DEF Arrive, Register, Login, Refresh, Profile, Logout, DeleteAccount,
           Revoke, Reset, Send, Continue, LoginFind, LoginDelete, RefreshRevoke,
           ProfileUpdate, ProfileDelete, Save, ResetPurge, DeleteCommit, Abort, Goto, TypeOK
      <4>3. \A k \in Key : slot'[k] # req[r].shown
        BY <3>1, <3>3, <4>2, NoneAssumption DEF RefreshDelete, DeleteRows, Goto
      <4>4. QED
        BY <3>1, <3>3, <4>2, <4>3 DEF RefreshDelete, Goto
    <3>4. QED
      BY <3>2, <3>3
  <2>4. ComparedIsNew'
    <3> SUFFICES ASSUME NEW q \in Request, NEW p \in Request,
                        req'[q].op = "refresh", Saved(q)', q \in before'[p],
                        req'[p].op = "refresh",
                        pc'[p] \in {"refresh_delete", "save", "done", "lost"}
                 PROVE  req'[q].shown # req'[p].shown
      BY DEF ComparedIsNew
    <3>1. q # r
      BY <2>2 DEF Effects, Moves, BeforeOK, Answered, Answer, TypeOK
    <3>2. req'[q] = req[q] /\ Saved(q)
      BY <2>2, <3>1 DEF Effects, Moves, Saved
    <3>3. CASE p # r \/ pc[r] # "unsent"
      BY <2>2, <3>1, <3>2, <3>3 DEF Effects, Moves, Compares, ComparedIsNew
    <3>4. CASE p = r /\ pc[r] = "unsent"
      <4>1. slot' = slot /\ slot[KeyOf(r)'] = req'[r].shown
        BY <2>2, <3>4 DEF Effects, Compares
      <4>2. slot'[KeyOf(q)'] # req'[q].shown
        BY <2>3 DEF RotatedGone, Saved
      <4>3. CASE req'[q].shown = req'[r].shown
        <5>1. pc'[q] # "unsent" /\ pc'[r] # "unsent"
          BY <3>4 DEF Saved
        <5>2. Shape(q)' /\ Shape(r)'
          BY <1>0, <5>1 DEF ShapeOK
        <5>3. KeyOf(q)' = KeyOf(r)'
          BY <3>4, <4>3, <5>2 DEF Shape, KeyOf
        <5>4. QED
          BY <3>4, <4>1, <4>2, <4>3, <5>3
      <4>4. QED
        BY <3>4, <4>3
    <3>5. QED
      BY <3>3, <3>4
  <2>5. QED
    BY <1>0, <2>3, <2>4
<1>3. QED
  BY <1>1, <1>2

\* A token is rotated by at most one of any requests sent one after another.
THEOREM ReplayIsRefused == Spec => []NoReplayAfterRotation
<1>1. ReplayInv => NoReplayAfterRotation
  BY DEF ReplayInv, ComparedIsNew, NoReplayAfterRotation, Saved
<1>2. QED
  BY ReplayInit, ReplayStep, <1>1, PTL DEF Spec
-----------------------------------------------------------------------------
\* Sessions that are owed.

\* Only a live account is owed sessions.
OwedLive == \A k \in owed : account[k[1]] = "live"

\* What a step of r does to a device that is still owed a session after it:
\* a row goes only to be replaced by r, and r does not give up a replacement
\* while the slot is empty.
Keeps(r) ==
    \A k \in owed' :
        /\ account'[k[1]] = "live"
        /\ k \notin owed => slot'[k] # None
        /\ slot[k] # None /\ slot'[k] = None => pc'[r] = "save" /\ KeyOf(r)' = k
        /\ pc[r] = "save" /\ KeyOf(r) = k /\ slot[k] = None => slot'[k] # None

LEMMA KeepEffects ==
  ASSUME Basic, RowsHaveOwners, OwedLive, NEW r \in Request,
         Arrive(r) \/ Continue(r) \/ Abort(r)
  PROVE  Keeps(r)
<1> USE NoneAssumption DEF Basic, TypeOK, Keeps, OwedLive, Key, KeyOf
<1>1. ASSUME Arrive(r) PROVE Keeps(r)
  <2>1. pc[r] = "unsent" /\ owed' \subseteq owed /\ \A k \in owed' : slot'[k] = slot[k]
    <3> USE DEF Send
    <3>1. ASSUME NEW t \in Request, Logout(r, t)
          PROVE  pc[r] = "unsent" /\ owed' \subseteq owed /\ \A k \in owed' : slot'[k] = slot[k]
      BY <3>1 DEF Logout, EndSessions, DeleteRows
    <3>2. ASSUME NEW t \in Request, NEW d \in Device, Revoke(r, t, d)
          PROVE  pc[r] = "unsent" /\ owed' \subseteq owed /\ \A k \in owed' : slot'[k] = slot[k]
      BY <3>2 DEF Revoke, EndSessions, DeleteRows
    <3>3. QED
      BY <1>1, <3>1, <3>2 DEF Arrive, Register, Login, Refresh, Profile, DeleteAccount, Reset
  <2>2. \A u \in User : account[u] = "live" => account'[u] = "live"
    BY <1>1 DEF Arrive, Register, Login, Refresh, Profile, Logout, DeleteAccount, Revoke,
        Reset, EndSessions
  <2>3. QED
    BY <2>1, <2>2
<1>2. ASSUME Continue(r) PROVE Keeps(r)
  <2> USE DEF Goto
  <2>1. CASE LoginFind(r)
    BY <2>1 DEF LoginFind
  <2>2. CASE LoginDelete(r)
    BY <2>2 DEF LoginDelete, DeleteRows
  <2>3. CASE RefreshDelete(r)
    <3>1. req[r].shown \in Request /\ KeyOf(req[r].shown) = KeyOf(r)
      BY <2>3 DEF RefreshDelete, ShapeOK, Shape
    <3>2. \A k \in Key : slot[k] = req[r].shown => k = KeyOf(r)
      BY <3>1 DEF RowsHaveOwners
    <3>3. QED
      BY <2>3, <3>2 DEF RefreshDelete, DeleteRows
  <2>4. CASE RefreshRevoke(r)
    BY <2>4 DEF RefreshRevoke, EndSessions, DeleteRows
  <2>5. CASE ProfileUpdate(r)
    BY <2>5 DEF ProfileUpdate
  <2>6. CASE ProfileDelete(r)
    BY <2>6 DEF ProfileDelete, DeleteRows
  <2>7. CASE Save(r)
    <3>1. pc[r] = "save" /\ KeyOf(r) \in Key
      BY <2>7 DEF Save, ShapeOK, Shape
    <3>2. QED
      BY <2>7, <3>1 DEF Save, Minted
  <2>8. CASE ResetPurge(r)
    BY <2>8 DEF ResetPurge, EndSessions, DeleteRows
  <2>9. CASE DeleteCommit(r)
    BY <2>9 DEF DeleteCommit, EndSessions, DeleteRows, KeysOf
  <2>10. QED
    BY <1>2, <2>1, <2>2, <2>3, <2>4, <2>5, <2>6, <2>7, <2>8, <2>9 DEF Continue
<1>3. ASSUME Abort(r) PROVE Keeps(r)
  BY <1>3 DEF Abort, Goto
<1>4. QED
  BY <1>1, <1>2, <1>3

OwedInv == Basic /\ RowsHaveOwners /\ OwedLive /\ SessionNotLost

LEMMA OwedInit == Init => OwedInv
BY BasicInit, OwnersInit DEF Init, OwedInv, OwedLive, SessionNotLost

LEMMA OwedStep == OwedInv /\ [Next]_vars => OwedInv'
<1> SUFFICES ASSUME OwedInv, [Next]_vars PROVE OwedInv'
  OBVIOUS
<1> USE DEF OwedInv
<1>0. Basic' /\ RowsHaveOwners'
  BY BasicStep, OwnersStep
<1>1. CASE UNCHANGED vars
  BY <1>0, <1>1 DEF vars, OwedLive, SessionNotLost, Replacing, KeyOf
<1>2. CASE Next
  <2>1. PICK r \in Request : Arrive(r) \/ Continue(r) \/ Abort(r)
    BY <1>2 DEF Next
  <2>2. Effects(r) /\ Keeps(r)
    BY <2>1, StepEffects, KeepEffects DEF Basic
  <2>3. OwedLive'
    BY <2>2 DEF Keeps, OwedLive
  <2>4. SessionNotLost'
    <3> SUFFICES ASSUME NEW k \in owed', slot'[k] = None
                 PROVE  \E q \in Request : pc'[q] = "save" /\ KeyOf(q)' = k
      BY DEF SessionNotLost, Replacing
    <3>1. CASE k \in owed /\ slot[k] = None
      <4>1. PICK q \in Request : pc[q] = "save" /\ KeyOf(q) = k
        BY <3>1 DEF SessionNotLost, Replacing
      <4>2. q # r
        BY <2>2, <3>1, <4>1 DEF Keeps
      <4>3. pc'[q] = "save" /\ KeyOf(q)' = k
        BY <2>2, <4>1, <4>2 DEF Effects, Moves, KeyOf
      <4>4. QED
        BY <4>3
    <3>2. CASE k \in owed /\ slot[k] # None
      BY <2>2, <3>2 DEF Keeps
    <3>3. CASE k \notin owed
      BY <2>2, <3>3 DEF Keeps
    <3>4. QED
      BY <3>1, <3>2, <3>3
  <2>5. QED
    BY <1>0, <2>3, <2>4
<1>3. QED
  BY <1>1, <1>2

\* Whatever requests compete for a device, its session survives them until
\* something ends it or a handler fails while it replaces the row.
THEOREM SessionNeverLost == Spec => []SessionNotLost
<1>1. OwedInv => SessionNotLost
  BY DEF OwedInv
<1>2. QED
  BY OwedInit, OwedStep, <1>1, PTL DEF Spec
-----------------------------------------------------------------------------
\* Conflicts at the insert.

\* The row that a handler may find in its way was stored by a request that was
\* not yet answered when the handler was sent.
Contended ==
    \A r \in Request :
        LET t == slot[KeyOf(r)]
        IN  /\ pc[r] = "save" /\ t # None => t \notin before[r]
            /\ pc[r] = "refresh_delete" /\ t \notin {None, req[r].shown} => t \notin before[r]

\* The statement of ConflictNeedsOverlap for one request.
Overlapped(r) == \E q \in Request : Saved(q) /\ KeyOf(q) = KeyOf(r) /\ Overlap(q, r)

\* What a step of r does to the row in its own way.
Clears(r) ==
    /\ pc'[r] = "save" /\ slot'[KeyOf(r)'] # None =>
          /\ pc[r] = "refresh_delete"
          /\ slot'[KeyOf(r)] = slot[KeyOf(r)] /\ slot[KeyOf(r)] # req[r].shown
    /\ pc'[r] = "conflict" => pc[r] = "save" /\ slot[KeyOf(r)] # None

LEMMA ClearEffects ==
  ASSUME Basic, RowsHaveOwners, NEW r \in Request, Arrive(r) \/ Continue(r) \/ Abort(r)
  PROVE  Clears(r)
<1> USE DEF Basic, TypeOK, Clears, Key, KeyOf
<1>1. ASSUME Arrive(r) PROVE Clears(r)
  <2> USE DEF Send
  <2>1. ASSUME NEW u \in User, NEW d \in Device, Register(r, u, d) PROVE Clears(r)
    BY <2>1 DEF Register, RowsHaveOwners
  <2>2. ASSUME NEW u \in User, NEW d \in Device, Login(r, u, d) PROVE Clears(r)
    BY <2>2 DEF Login
  <2>3. ASSUME NEW t \in Request, Refresh(r, t) PROVE Clears(r)
    BY <2>3 DEF Refresh
  <2>4. ASSUME NEW t \in Request, \/ Profile(r, t) \/ Logout(r, t) \/ DeleteAccount(r, t)
                                 \/ \E d \in Device : Revoke(r, t, d)
        PROVE  Clears(r)
    <3>1. CASE Profile(r, t)
      BY <3>1 DEF Profile
    <3>2. CASE Logout(r, t)
      BY <3>2 DEF Logout
    <3>3. CASE DeleteAccount(r, t)
      BY <3>3 DEF DeleteAccount
    <3>4. ASSUME NEW d \in Device, Revoke(r, t, d) PROVE Clears(r)
      BY <3>4 DEF Revoke
    <3>5. QED
      BY <2>4, <3>1, <3>2, <3>3, <3>4
  <2>5. ASSUME NEW u \in User, Reset(r, u) PROVE Clears(r)
    BY <2>5 DEF Reset
  <2>6. QED
    BY <1>1, <2>1, <2>2, <2>3, <2>4, <2>5 DEF Arrive
<1>2. ASSUME Continue(r) PROVE Clears(r)
  <2>1. KeyOf(r) \in Key \/ pc[r] \in {"reset_purge", "delete_tx"}
    BY <1>2 DEF Continue, LoginFind, LoginDelete, RefreshDelete, RefreshRevoke, ProfileUpdate,
       ProfileDelete, Save, ResetPurge, DeleteCommit, Goto, ShapeOK, Shape, Minting
  <2>2. QED
    BY <1>2, <2>1 DEF Continue, LoginFind, LoginDelete, RefreshDelete, RefreshRevoke,
       ProfileUpdate, ProfileDelete, Save, ResetPurge, DeleteCommit, Goto, DeleteRows
<1>3. ASSUME Abort(r) PROVE Clears(r)
  BY <1>3 DEF Abort, Goto
<1>4. QED
  BY <1>1, <1>2, <1>3

ConflictInv == Basic /\ RowsHaveOwners /\ Contended /\ ConflictNeedsOverlap

LEMMA ConflictInit == Init => ConflictInv
BY BasicInit, OwnersInit DEF Init, ConflictInv, Contended, ConflictNeedsOverlap

LEMMA ConflictStep == ConflictInv /\ [Next]_vars => ConflictInv'
<1> SUFFICES ASSUME ConflictInv, [Next]_vars PROVE ConflictInv'
  OBVIOUS
<1> USE DEF ConflictInv
<1>0. Basic' /\ RowsHaveOwners'
  BY BasicStep, OwnersStep
<1>1. CASE UNCHANGED vars
  BY <1>0, <1>1 DEF vars, Contended, ConflictNeedsOverlap, Overlap, Saved, KeyOf
<1>2. CASE Next
  <2> USE DEF Basic
  <2>1. PICK r \in Request : Arrive(r) \/ Continue(r) \/ Abort(r)
    BY <1>2 DEF Next
  <2>2. Effects(r) /\ Clears(r)
    BY <2>1, StepEffects, ClearEffects
  <2>3. \A q \in Request \ {r} : /\ before'[q] = before[q] /\ KeyOf(q)' = KeyOf(q)
                                /\ pc'[q] = pc[q] /\ req'[q] = req[q] /\ r \notin before[q]
    BY <2>2 DEF Effects, Moves, KeyOf, BeforeOK
  <2>4. Contended'
    <3> SUFFICES ASSUME NEW p \in Request, NEW t \in Request,
                        slot'[KeyOf(p)'] = t, t # None,
                        \/ pc'[p] = "save"
                        \/ pc'[p] = "refresh_delete" /\ t # req'[p].shown
                 PROVE  t \notin before'[p]
      <4>1. \A p \in Request : pc'[p] \in {"save", "refresh_delete"} => KeyOf(p)' \in Key
        BY <1>0 DEF ShapeOK, Shape, KeyOf, Key, Minting
      <4>2. QED
        BY <1>0, <4>1 DEF Contended, TypeOK
    <3>0. KeyOf(p)' \in Key
      BY <1>0 DEF ShapeOK, Shape, KeyOf, Key, Minting
    <3>1. CASE p # r /\ t = r
      BY <2>3, <3>1
    <3>2. CASE p # r /\ t # r
      <4>1. slot[KeyOf(p)] = t
        BY <2>2, <2>3, <3>0, <3>2 DEF Effects, Opens, Shrinks, TypeOK
      <4>2. QED
        BY <2>3, <3>2, <4>1 DEF Contended
    <3>3. CASE p = r /\ pc'[r] = "save"
      <4>1. /\ pc[r] = "refresh_delete" /\ slot[KeyOf(r)] = slot'[KeyOf(r)]
            /\ slot[KeyOf(r)] # req[r].shown
        BY <2>2, <3>3 DEF Clears
      <4>2. req'[r] = req[r] /\ before'[r] = before[r] /\ KeyOf(r)' = KeyOf(r)
        BY <2>2, <4>1 DEF Effects, Moves, KeyOf
      <4>3. QED
        BY <3>3, <4>1, <4>2 DEF Contended
    <3>4. CASE p = r /\ pc'[r] = "refresh_delete"
      BY <2>2, <3>4 DEF Effects, Compares
    <3>5. QED
      BY <3>1, <3>2, <3>3, <3>4
  <2>5. \A q \in Request : pc[q] = "conflict" => Overlapped(q)'
    <3> SUFFICES ASSUME NEW q \in Request, pc[q] = "conflict" PROVE Overlapped(q)'
      OBVIOUS
    <3>1. PICK w \in Request : Saved(w) /\ KeyOf(w) = KeyOf(q) /\ Overlap(w, q)
      BY DEF ConflictNeedsOverlap
    <3>2. q # r /\ w # r
      BY <2>2, <3>1 DEF Effects, Moves, Answered, Answer, Saved
    <3>3. Saved(w)' /\ KeyOf(w)' = KeyOf(q)' /\ Overlap(w, q)'
      BY <2>3, <3>1, <3>2 DEF Saved, Overlap
    <3>4. QED
      BY <3>3 DEF Overlapped
  <2>6. pc'[r] = "conflict" => Overlapped(r)'
    <3> SUFFICES ASSUME pc'[r] = "conflict" PROVE Overlapped(r)'
      OBVIOUS
    <3>1. pc[r] = "save" /\ slot[KeyOf(r)] # None
      BY <2>2 DEF Clears
    <3>2. KeyOf(r) \in Key
      BY <3>1 DEF ShapeOK, Shape, KeyOf, Key, Minting
    <3>3. PICK w \in Request : /\ Saved(w) /\ KeyOf(w) = KeyOf(r)
                              /\ w \notin before[r]
      BY <3>1, <3>2 DEF RowsHaveOwners, Contended, TypeOK
    <3>4. w # r /\ r \notin before[w]
      BY <2>3, <3>1, <3>3 DEF Saved
    <3>5. /\ Saved(w)' /\ KeyOf(w)' = KeyOf(r)' /\ pc'[w] # "unsent"
          /\ w \notin before'[r] /\ r \notin before'[w]
      BY <2>2, <2>3, <3>1, <3>3, <3>4 DEF Effects, Moves, Saved, KeyOf
    <3>6. QED
      BY <3>3, <3>4, <3>5 DEF Overlapped, Overlap
  <2>7. ConflictNeedsOverlap'
    BY <2>3, <2>5, <2>6 DEF ConflictNeedsOverlap, Overlapped
  <2>8. QED
    BY <1>0, <2>4, <2>7
<1>3. QED
  BY <1>1, <1>2

\* A request with no competitor never fails on the unique constraint.
THEOREM LoneRequestNeverConflicts == Spec => []ConflictNeedsOverlap
<1>1. ConflictInv => ConflictNeedsOverlap
  BY DEF ConflictInv
<1>2. QED
  BY ConflictInit, ConflictStep, <1>1, PTL DEF Spec
-----------------------------------------------------------------------------
\* The abstract specification.

LEMMA TableInit == Init => Table!Init
BY DEF Init, Table!Init, Table!Key, Key, Saved

LEMMA TableStep == Basic /\ RowsHaveOwners /\ [Next]_vars => [Table!Next]_(Table!vars)
<1> SUFFICES ASSUME Basic, RowsHaveOwners, [Next]_vars PROVE [Table!Next]_(Table!vars)
  OBVIOUS
<1> DEFINE used == {q \in Request : Saved(q)}
<1> USE NoneAssumption DEF Basic, TypeOK, Key, Table!Key
<1>1. CASE UNCHANGED vars
  BY <1>1 DEF vars, Table!vars, Saved
<1>2. CASE Next
  <2>1. PICK r \in Request : Arrive(r) \/ Continue(r) \/ Abort(r)
    BY <1>2 DEF Next
  <2>2. Effects(r)
    BY <2>1, StepEffects
  <2>3. ASSUME Opens(r) PROVE Table!Next
    <3>1. KeyOf(r) \in Key /\ req[r].op \in Minting /\ ~Saved(r)
      BY <2>3 DEF Opens, ShapeOK, Shape, KeyOf, Saved
    <3>2. used' = used \cup {r}
      BY <2>2, <2>3, <3>1 DEF Effects, Moves, Opens, Saved
    <3>3. Table!Open(KeyOf(r), r)
      BY <2>3, <3>1, <3>2 DEF Opens, Table!Open
    <3>4. QED
      BY <3>1, <3>3 DEF Table!Next
  <2>4. Shrinks(r) => used' = used
    BY <2>2 DEF Effects, Moves, Shrinks, Saved, Shape, ShapeOK, Answered, Answer
  <2>5. ASSUME Shrinks(r) PROVE \/ slot' = slot
                                \/ \E k \in Key : slot' = [slot EXCEPT ![k] = None]
                                \/ \E u \in User : slot' = [k \in Key |->
                                      IF k[1] = u THEN None ELSE slot[k]]
    <3> DEFINE Closes == \/ slot' = slot
                         \/ \E k \in Key : slot' = [slot EXCEPT ![k] = None]
                         \/ \E u \in User : slot' = [k \in Key |->
                               IF k[1] = u THEN None ELSE slot[k]]
    <3>1. ASSUME NEW k, DeleteRows({k}) PROVE Closes
      <4>1. CASE k \in Key
        <5>1. slot' = [slot EXCEPT ![k] = None]
          BY <3>1 DEF DeleteRows
        <5>2. QED
          BY <4>1, <5>1
      <4>2. CASE k \notin Key
        <5>1. slot' = slot
          BY <3>1, <4>2 DEF DeleteRows
        <5>2. QED
          BY <5>1
      <4>3. QED
        BY <4>1, <4>2
    <3>2. ASSUME NEW u \in User, DeleteRows(KeysOf(u)) PROVE Closes
      <4>1. slot' = [k \in Key |-> IF k[1] = u THEN None ELSE slot[k]]
        BY <3>2 DEF DeleteRows, KeysOf
      <4>2. QED
        BY <4>1
    <3>3. CASE Arrive(r)
      <4>1. \/ slot' = slot
            \/ \E t \in Request : DeleteRows({KeyOf(t)})
            \/ \E t \in Request, d \in Device : DeleteRows({<<req[t].user, d>>})
        BY <3>3 DEF Arrive, Register, Login, Refresh, Profile, Logout, DeleteAccount, Revoke,
           Reset, EndSessions
      <4>2. QED
        BY <3>1, <4>1
    <3>4. CASE RefreshDelete(r)
      <4>1. req[r].shown \in Request /\ KeyOf(req[r].shown) = KeyOf(r)
        BY <3>4 DEF RefreshDelete, Goto, ShapeOK, Shape
      <4>2. \A k \in Key : slot[k] = req[r].shown => k = KeyOf(r)
        BY <4>1 DEF RowsHaveOwners
      <4>3. slot' = slot \/ DeleteRows({KeyOf(r)})
        BY <3>4, <4>2 DEF RefreshDelete, DeleteRows
      <4>4. QED
        BY <3>1, <4>3
    <3>5. CASE LoginDelete(r) \/ RefreshRevoke(r) \/ ProfileDelete(r)
      BY <3>1, <3>5 DEF LoginDelete, RefreshRevoke, ProfileDelete, EndSessions
    <3>6. CASE LoginFind(r) \/ ProfileUpdate(r) \/ Abort(r)
      BY <3>6 DEF LoginFind, ProfileUpdate, Abort
    <3>7. CASE Save(r)
      <4>1. ~Saved(r)'
        BY <2>5 DEF Shrinks
      <4>2. req[r].op \in Minting
        BY <3>7 DEF Save, Goto, ShapeOK, Shape
      <4>3. slot' = slot
        BY <3>7, <4>1, <4>2 DEF Save, Goto, Saved
      <4>4. QED
        BY <4>3
    <3>8. CASE ResetPurge(r) \/ DeleteCommit(r)
      <4>1. slot' = slot \/ DeleteRows(KeysOf(req[r].user))
        BY <3>8 DEF ResetPurge, DeleteCommit, EndSessions
      <4>2. req[r].user \in User
        BY <3>8 DEF ResetPurge, DeleteCommit, Goto, ShapeOK, Shape
      <4>3. QED
        BY <3>2, <4>1, <4>2
    <3>9. QED
      BY <2>1, <3>3, <3>4, <3>5, <3>6, <3>7, <3>8 DEF Continue
  <2>6. QED
    BY <2>2, <2>3, <2>4, <2>5 DEF Effects, Table!Next, Table!Close, Table!CloseAll, Table!vars
<1>3. QED
  BY <1>1, <1>2

\* The handlers implement the session table: fresh tokens in empty slots, and
\* sessions that end alone or with their account.
THEOREM ImplementsTable == Spec => TableSpec
<1>1. Init => Basic /\ RowsHaveOwners
  BY BasicInit, OwnersInit
<1>2. (Basic /\ RowsHaveOwners) /\ [Next]_vars => (Basic /\ RowsHaveOwners)'
  BY BasicStep, OwnersStep
<1>3. QED
  BY <1>1, <1>2, TableInit, TableStep, PTL DEF Spec, TableSpec, Table!Spec
=============================================================================
