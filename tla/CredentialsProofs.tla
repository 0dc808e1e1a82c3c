-------------------------- MODULE CredentialsProofs --------------------------
(***************************************************************************)
(* Theorems about Credentials, for every set of addresses and requests and *)
(* every set of accounts registered at first.                              *)
(***************************************************************************)
EXTENDS Credentials, TLAPS

UseOps  == {"verify", "reset", "confirm"}
MailOps == {"register", "resend", "forgot", "requestChange"}

\* Where a request that inserts a link has yet to do so.
Early == {"unsent", "insert", "categories", "clear", "create"}

\* What a request is once it passed its checks, and by where it is.
Shape(r) ==
    /\ req[r].op = None => req[r] = Blank /\ pc[r] \in {"unsent"} \cup Outcome
    /\ req[r].op # None => pc[r] # "unsent" /\ req[r].user \in Account
    /\ req[r].op = "register" => req[r].user = r
    /\ req[r].op \in MailOps => req[r].email \in Email
    /\ IF req[r].op \in UseOps
       THEN LET t == req[r].token
            IN  /\ t \in Request /\ pc[t] \notin Early /\ mailed[t] = req[t].email
                /\ req[t].op \in MailOps /\ Kind(req[t].op) = Kind(req[r].op)
                /\ req[t].user = req[r].user /\ req[t].email = req[r].email
       ELSE req[r].token = None
    /\ pc[r] \in {"insert", "categories"} => req[r].op = "register"
    /\ pc[r] \in {"clear", "create"} => req[r].op \in MailOps
    /\ pc[r] = "save" => req[r].op \in {"register", "login"}
    /\ pc[r] = "write" => req[r].op \in UseOps \cup {"changePassword", "deleteAccount"}
    /\ pc[r] \in {"drop", "drop_expired"} => req[r].op \in UseOps
    /\ pc[r] = "purge" => req[r].op = "reset"

\* A link was mailed to the address its request had, and belongs to an account.
LinkShape(t) == token[t] # "none" =>
    pc[t] \notin Early /\ req[t].op \in MailOps /\ mailed[t] = req[t].email

ShapeOK  == \A r \in Request : Shape(r) /\ LinkShape(r)
BeforeOK == \A r \in Request : \A q \in before[r] : Answered(q)
Basic    == TypeOK /\ ShapeOK /\ BeforeOK
-----------------------------------------------------------------------------
LEMMA RowIsNotNone == /\ \A row \in UserRow : row # None
                      /\ \A x \in Email \cup Request \cup OpKinds : x # None
BY NoneAssumption

LEMMA BlankIsCall == Blank \in Call /\ Blank.op = None /\ Blank.token = None
BY DEF Blank, Call

\* What Init says when the registrations answered before are given addresses f.
FirstRows(f) ==
    /\ \A u, v \in First : f[u] = f[v] => u = v
    /\ user = [r \in Request |-> IF r \in First
                  THEN [q \in First |-> [email |-> f[q], pw |-> q, verified |-> FALSE]][r]
                  ELSE None]
    /\ stocked = First
    /\ token = [r \in Request |-> IF r \in First THEN [q \in First |-> "fresh"][r] ELSE "none"]
    /\ mailed = [r \in Request |-> IF r \in First THEN f[r] ELSE None]
    /\ session = [r \in Request |-> IF r \in First THEN [q \in First |-> q][r] ELSE None]
    /\ req = [r \in Request |-> IF r \in First
                 THEN [q \in First |-> Registration(q, f[q], FALSE)][r] ELSE Blank]
    /\ pc = [r \in Request |-> IF r \in First THEN [q \in First |-> "done"][r] ELSE "unsent"]
    /\ before = [r \in Request |-> {}]

LEMMA InitRows == Init => \E f \in [First -> Email] : FirstRows(f)
BY DEF Init, FirstRows

LEMMA BasicInit == Init => Basic
<1> SUFFICES ASSUME Init PROVE Basic
    OBVIOUS
<1> PICK f \in [First -> Email] : FirstRows(f)
    BY InitRows
<1> USE DEF FirstRows
<1>1. \A r \in First : /\ Registration(r, f[r], FALSE) \in Call
                       /\ Registration(r, f[r], FALSE).op = "register"
                       /\ Registration(r, f[r], FALSE).user = r
                       /\ Registration(r, f[r], FALSE).email = f[r]
                       /\ Registration(r, f[r], FALSE).token = None
    BY FirstAssumption DEF Registration, Blank, Call, OpKinds, Account
<1>2. TypeOK
  <2>0. \A r \in First : [email |-> f[r], pw |-> r, verified |-> FALSE] \in UserRow
      BY FirstAssumption DEF UserRow, Account, Password
  <2>1. /\ user \in [Account -> UserRow \cup {None}] /\ stocked \subseteq Account
        /\ token \in [Request -> {"none", "fresh", "expired"}]
        /\ mailed \in [Request -> Email \cup {None}]
        /\ session \in [Request -> Account \cup {None}]
    <3>1. user \in [Account -> UserRow \cup {None}]
      <4>1. \A r \in Request : user[r] \in UserRow \cup {None}
          BY <2>0
      <4>2. user = [r \in Request |-> user[r]]
          OBVIOUS
      <4> QED
          BY <4>1, <4>2 DEF Account
    <3>2. stocked \subseteq Account /\ token \in [Request -> {"none", "fresh", "expired"}]
        BY FirstAssumption DEF Account
    <3>3. mailed \in [Request -> Email \cup {None}]
        OBVIOUS
    <3>4. session \in [Request -> Account \cup {None}]
        BY FirstAssumption DEF Account
    <3> QED
        BY <3>1, <3>2, <3>3, <3>4
  <2>2. /\ req \in [Request -> Call] /\ before \in [Request -> SUBSET Request]
        /\ pc \in [Request -> {"unsent"} \cup Running \cup Outcome]
    <3>1. \A r \in Request : req[r] \in Call
        BY <1>1, BlankIsCall
    <3>2. req = [r \in Request |-> req[r]]
        OBVIOUS
    <3>3. req \in [Request -> Call]
        BY <3>1, <3>2
    <3> QED
        BY <3>3 DEF Outcome
  <2>3. \A u \in Account : user[u] # None => u \in First /\ user[u].email = f[u]
      BY DEF Account
  <2>4. \A u \in First : user[u] # None
      BY RowIsNotNone, FirstAssumption DEF UserRow, Account, Password
  <2>5. \A r \in Request : token[r] # "none" => user[req[r].user] # None
      BY <1>1, <2>4
  <2>6. \A r \in Request : session[r] # None => user[session[r]] # None
      BY <2>4
  <2>7. \A u, v \in Account :
            user[u] # None /\ user[v] # None /\ user[u].email = user[v].email => u = v
      BY <2>3
  <2> QED
      BY ONLY <2>1, <2>2, <2>5, <2>6, <2>7 DEF TypeOK
<1>3. ASSUME NEW r \in Request PROVE Shape(r) /\ LinkShape(r)
  <2>1. "register" # None
      BY RowIsNotNone DEF OpKinds
  <2>2. CASE r \in First
    <3>1. /\ req[r].op = "register" /\ req[r].user = r /\ req[r].email = f[r]
          /\ req[r].token = None /\ pc[r] = "done" /\ mailed[r] = f[r]
        BY <1>1, <2>2
    <3> QED
        BY <2>1, <3>1 DEF Shape, LinkShape, Early, UseOps, MailOps, Account
  <2>3. CASE r \notin First
    <3>1. req[r] = Blank /\ pc[r] = "unsent" /\ token[r] = "none"
        BY <2>3
    <3>2. Blank.op \notin UseOps \cup MailOps \cup {"register"}
        BY BlankIsCall, RowIsNotNone DEF UseOps, MailOps, OpKinds
    <3> QED
        BY <3>1, <3>2, BlankIsCall DEF Shape, LinkShape, MailOps
  <2> QED
      BY <2>2, <2>3
<1> QED
    BY <1>2, <1>3 DEF Basic, ShapeOK, BeforeOK
-----------------------------------------------------------------------------
\* The effects of one step of request r.

\* Only r moves; it keeps what it was sent with, and an outcome is final.
Moves(r) ==
    /\ ~Answered(r)
    /\ pc' = [pc EXCEPT ![r] = pc'[r]] /\ pc'[r] \in Running \cup Outcome
    /\ pc[r] \notin Early => pc'[r] \notin Early
    /\ IF pc[r] = "unsent"
       THEN /\ req' = [req EXCEPT ![r] = req'[r]]
            /\ before' = [before EXCEPT ![r] = {q \in Request : Answered(q)}]
       ELSE req' = req /\ before' = before

\* What r asks for, and what it found, when it passes its checks.
Admits(r) ==
    LET call == req'[r]
        u == call.user
    IN  \/ call = Blank /\ pc'[r] \in Outcome \ {"failed"}
        \/ /\ call.op = "register" /\ pc'[r] = "insert"
           /\ u = r /\ call.email \in Email /\ call.token = None
        \/ /\ u \in Account /\ Exists(u)
           /\ \/ call.op = "login" /\ pc'[r] = "save" /\ call.token = None
              \/ /\ call.op \in {"resend", "forgot", "requestChange"} /\ pc'[r] = "clear"
                 /\ call.email \in Email /\ call.token = None
                 /\ call.op = "resend" => HasEmail(u, call.email) /\ ~user[u].verified
              \/ /\ call.op \in {"changePassword", "deleteAccount"} /\ pc'[r] = "write"
                 /\ call.token = None
              \/ /\ call.op \in UseOps /\ pc'[r] \in {"write", "drop_expired"}
                 /\ LET t == call.token
                    IN  /\ t \in Request /\ token[t] # "none"
                        /\ Kind(req[t].op) = Kind(call.op)
                        /\ req[t].user = u /\ req[t].email = call.email

LEMMA CallTypes ==
    ASSUME NEW op \in OpKinds, NEW u \in Account \cup {None}, NEW a \in Email \cup {None},
           NEW t \in Request \cup {None}
    PROVE  /\ [Blank EXCEPT !.op = op] \in Call
           /\ [Blank EXCEPT !.op = op, !.user = u] \in Call
           /\ [Blank EXCEPT !.op = op, !.user = u, !.email = a] \in Call
           /\ [Blank EXCEPT !.op = op, !.user = u, !.token = t, !.email = a] \in Call
BY DEF Blank, Call

LEMMA AskEffects ==
    ASSUME TypeOK, NEW r \in Request, pc[r] = "unsent", NEW call \in Call,
           NEW next \in Running \cup Outcome, Ask(r, call, next)
    PROVE  /\ Moves(r) /\ UNCHANGED tables /\ req' \in [Request -> Call]
           /\ pc'[r] = next
           /\ req'[r] = IF next \in Running THEN call ELSE Blank
BY BlankIsCall DEF Ask, Moves, TypeOK, Answered, Outcome, Early, Running

LEMMA ArriveEffects ==
    ASSUME TypeOK, ShapeOK, NEW r \in Request, Arrive(r)
    PROVE  /\ Moves(r) /\ UNCHANGED tables /\ req' \in [Request -> Call]
           /\ pc[r] = "unsent" /\ Admits(r)
<1> DEFINE Goal == Moves(r) /\ UNCHANGED tables /\ req' \in [Request -> Call] /\ Admits(r)
<1>1. pc[r] = "unsent"
    BY DEF Arrive
<1>2. ASSUME NEW a \in Email, NEW group \in BOOLEAN, Register(r, a, group) PROVE Goal
  <2> DEFINE call == Registration(r, a, group)
             next == IF Taken(a) THEN "conflict" ELSE "insert"
  <2>1. call \in Call /\ call.op = "register" /\ call.user = r /\ call.email = a /\ call.token = None
      BY DEF Registration, Blank, Call, OpKinds, Account
  <2>2. Ask(r, call, next) /\ next \in Running \cup Outcome
      BY <1>2 DEF Register, Running, Outcome
  <2> HIDE DEF call, next
  <2>3. /\ Moves(r) /\ UNCHANGED tables /\ req' \in [Request -> Call]
        /\ pc'[r] = next /\ req'[r] = IF next \in Running THEN call ELSE Blank
      BY <1>1, <2>1, <2>2, AskEffects
  <2> QED
      BY <2>1, <2>3 DEF Admits, next, Running, Outcome
<1>3. ASSUME NEW op \in {"login", "resend", "forgot"}, NEW a \in Email,
             NEW fits \in SUBSET Account,
             NEW next \in {"save", "clear"}, NEW otherwise \in {"rejected", "done"},
             AskAt(r, op, a, fits, next, otherwise),
             op = "login" <=> next = "save",
             op = "resend" => \A u \in fits : ~user[u].verified
      PROVE  Goal
  <2>0. op \in OpKinds
      BY DEF OpKinds
  <2>1. ASSUME NEW u \in fits, HasEmail(u, a),
               Ask(r, [Blank EXCEPT !.op = op, !.user = u, !.email = a], next)
        PROVE  Goal
    <3> DEFINE call == [Blank EXCEPT !.op = op, !.user = u, !.email = a]
    <3>1. call \in Call /\ call.op = op /\ call.user = u /\ call.email = a /\ call.token = None
        BY <2>0, CallTypes DEF Blank
    <3>2. Ask(r, call, next) /\ next \in Running
        BY <2>1 DEF Running
    <3> HIDE DEF call
    <3>3. /\ Moves(r) /\ UNCHANGED tables /\ req' \in [Request -> Call]
          /\ pc'[r] = next /\ req'[r] = call
        BY <1>1, <3>1, <3>2, AskEffects
    <3> QED
        BY <1>3, <2>1, <3>1, <3>3 DEF Admits, HasEmail, UseOps
  <2>2. ASSUME Ask(r, [Blank EXCEPT !.op = op], otherwise) PROVE Goal
    <3>1. [Blank EXCEPT !.op = op] \in Call /\ otherwise \in Outcome /\ otherwise \notin Running
        BY <2>0, CallTypes DEF Outcome, Running
    <3>2. /\ Moves(r) /\ UNCHANGED tables /\ req' \in [Request -> Call]
          /\ pc'[r] = otherwise /\ req'[r] = Blank
        BY <1>1, <2>2, <3>1, AskEffects
    <3> QED
        BY <3>1, <3>2 DEF Admits
  <2> QED
      BY <1>3, <2>1, <2>2 DEF AskAt
<1>4. ASSUME NEW a \in Email, NEW p \in Password, Login(r, a, p) PROVE Goal
    BY <1>3, <1>4 DEF Login
<1>5. ASSUME NEW a \in Email, Resend(r, a) PROVE Goal
    BY <1>3, <1>5 DEF Resend
<1>6. ASSUME NEW a \in Email, Forgot(r, a) PROVE Goal
    BY <1>3, <1>6 DEF Forgot
<1>7. ASSUME NEW a \in Email, NEW u \in Account, RequestChange(r, u, a) PROVE Goal
  <2> DEFINE call == [Blank EXCEPT !.op = "requestChange", !.user = u, !.email = a]
             next == IF Taken(a) THEN "conflict" ELSE IF Exists(u) THEN "clear" ELSE "rejected"
  <2>1. call \in Call /\ call.op = "requestChange" /\ call.user = u /\ call.email = a
        /\ call.token = None
      BY CallTypes DEF Blank, OpKinds
  <2>2. Ask(r, call, next) /\ next \in Running \cup Outcome
      BY <1>7 DEF RequestChange, Running, Outcome
  <2> HIDE DEF call, next
  <2>3. /\ Moves(r) /\ UNCHANGED tables /\ req' \in [Request -> Call]
        /\ pc'[r] = next /\ req'[r] = IF next \in Running THEN call ELSE Blank
      BY <1>1, <2>1, <2>2, AskEffects
  <2> QED
      BY <2>1, <2>3 DEF Admits, next, Running, Outcome
<1>8. ASSUME NEW op \in {"changePassword", "deleteAccount"}, NEW u \in Account, NEW p \in Password,
             Ask(r, [Blank EXCEPT !.op = op, !.user = u],
                 IF Exists(u) /\ user[u].pw = p THEN "write" ELSE "rejected")
      PROVE  Goal
  <2> DEFINE call == [Blank EXCEPT !.op = op, !.user = u]
             next == IF Exists(u) /\ user[u].pw = p THEN "write" ELSE "rejected"
  <2>1. call \in Call /\ call.op = op /\ call.user = u /\ call.token = None
      BY CallTypes DEF Blank, OpKinds
  <2>2. Ask(r, call, next) /\ next \in Running \cup Outcome
      BY <1>8 DEF Running, Outcome
  <2> HIDE DEF call, next
  <2>3. /\ Moves(r) /\ UNCHANGED tables /\ req' \in [Request -> Call]
        /\ pc'[r] = next /\ req'[r] = IF next \in Running THEN call ELSE Blank
      BY <1>1, <2>1, <2>2, AskEffects
  <2> QED
      BY <2>1, <2>3 DEF Admits, next, Running, Outcome
<1>9. ASSUME NEW t \in Request, NEW op \in UseOps, UseLink(r, op, t) PROVE Goal
  <2> DEFINE call == [Blank EXCEPT !.op = op, !.user = req[t].user, !.token = t,
                                   !.email = req[t].email]
             next == IF ~Known(t, op) THEN "rejected"
                     ELSE IF token[t] = "expired" THEN "drop_expired"
                     ELSE IF op = "confirm" /\ Taken(req[t].email) THEN "conflict" ELSE "write"
  <2>0. op \in OpKinds /\ req[t].user \in Account \cup {None} /\ req[t].email \in Email \cup {None}
      BY DEF OpKinds, UseOps, TypeOK, Call
  <2>1. call \in Call /\ call.op = op /\ call.user = req[t].user /\ call.token = t
        /\ call.email = req[t].email
      BY <2>0, CallTypes DEF Blank
  <2>2. Ask(r, call, next) /\ next \in Running \cup Outcome
      BY <1>9 DEF UseLink, Running, Outcome
  <2>3. next \in Running => /\ next \in {"write", "drop_expired"} /\ Known(t, op)
      BY DEF Running
  <2>4. next \notin Running => next \in Outcome \ {"failed"}
      BY DEF Running, Outcome
  <2> HIDE DEF call, next
  <2>5. /\ Moves(r) /\ UNCHANGED tables /\ req' \in [Request -> Call]
        /\ pc'[r] = next /\ req'[r] = IF next \in Running THEN call ELSE Blank
      BY <1>1, <2>1, <2>2, AskEffects
  <2>6. Known(t, op) => /\ token[t] # "none" /\ Kind(req[t].op) = Kind(op)
                        /\ req[t].user \in Account /\ Exists(req[t].user)
      BY RowIsNotNone DEF Known, ShapeOK, Shape, LinkShape, TypeOK, Exists, MailOps, OpKinds
  <2> QED
      BY <2>1, <2>3, <2>4, <2>5, <2>6 DEF Admits
<1> QED
    BY <1>1, <1>2, <1>4, <1>5, <1>6, <1>7, <1>8, <1>9
    DEF Arrive, ChangePassword, DeleteAccount, UseOps

\* Where a request may go on to, by what it asks for.
Flows(r) ==
    /\ pc[r] \in Running /\ req' = req /\ before' = before
    /\ pc'[r] \notin {"insert", "write", "drop_expired"}
    /\ pc'[r] = "categories" => pc[r] = "insert"
    /\ pc'[r] = "clear" => pc[r] = "categories"
    /\ pc'[r] = "create" => pc[r] = "clear"
    /\ pc'[r] = "save" => pc[r] = "create" /\ req[r].op = "register"
    /\ pc'[r] = "drop" => pc[r] = "write" /\ req[r].op \in UseOps
    /\ pc'[r] = "purge" => pc[r] = "drop" /\ req[r].op = "reset"
    /\ pc'[r] = "done" => \/ pc[r] \in {"save", "purge"}
                          \/ pc[r] = "create" /\ req[r].op # "register"
                          \/ pc[r] = "drop" /\ req[r].op # "reset"
                          \/ pc[r] = "write" /\ req[r].op \in {"changePassword", "deleteAccount"}

LEMMA StepMoves ==
    ASSUME TypeOK, NEW r \in Request, NEW from, NEW next, Step(r, from, next),
           from \in Running, next \in Running \cup Outcome,
           from \notin Early => next \notin Early
    PROVE  Moves(r) /\ pc[r] = from /\ pc'[r] = next /\ req' = req /\ before' = before
BY DEF Step, Moves, TypeOK, Answered, Running, Outcome

LEMMA ContinueMoves ==
    ASSUME TypeOK, ShapeOK, NEW r \in Request, Continue(r)
    PROVE  Moves(r) /\ Flows(r)
<1>1. \/ RegisterInsert(r) \/ RegisterCategories(r) \/ SaveSession(r) \/ ClearTokens(r)
      \/ CreateToken(r) \/ DropExpired(r) \/ UseWrite(r) \/ DropToken(r) \/ PurgeSessions(r)
      \/ ChangeWrite(r) \/ DeleteWrite(r) \/ Abort(r)
    BY DEF Continue
<1> USE StepMoves DEF Stop, Running, Outcome, Early, Flows
<1>2. CASE RegisterInsert(r)
    BY <1>2 DEF RegisterInsert
<1>3. CASE RegisterCategories(r)
    BY <1>3 DEF RegisterCategories, AfterCategories
<1>4. CASE SaveSession(r)
    BY <1>4 DEF SaveSession
<1>5. CASE ClearTokens(r)
    BY <1>5 DEF ClearTokens
<1>6. CASE CreateToken(r)
    BY <1>6 DEF CreateToken
<1>7. CASE DropExpired(r)
    BY <1>7 DEF DropExpired
<1>8. CASE UseWrite(r)
    BY <1>8 DEF UseWrite, UseOps
<1>9. CASE DropToken(r)
    BY <1>9 DEF DropToken
<1>10. CASE PurgeSessions(r)
    BY <1>10 DEF PurgeSessions
<1>11. CASE ChangeWrite(r)
    BY <1>11 DEF ChangeWrite
<1>12. CASE DeleteWrite(r)
    BY <1>12 DEF DeleteWrite
<1>13. CASE Abort(r)
    BY <1>13 DEF Abort
<1> QED
    BY ONLY <1>1, <1>2, <1>3, <1>4, <1>5, <1>6, <1>7, <1>8, <1>9, <1>10, <1>11, <1>12, <1>13

\* The account of u after a step of request r.
Inserts(r, u) == /\ u = r /\ pc[r] = "insert" /\ pc'[r] = "categories" /\ ~Taken(req[r].email)
                 /\ user'[u] = [email |-> req[r].email, pw |-> r, verified |-> FALSE]
Deletes(r, u) == /\ req[r].op = "deleteAccount" /\ pc[r] = "write" /\ pc'[r] = "done"
                 /\ u = req[r].user /\ Exists(u) /\ user'[u] = None /\ u \notin stocked'
                 /\ \A q \in Request : /\ req[q].user = u => token'[q] = "none"
                                       /\ session'[q] # u
Repasses(r, u) == /\ pc[r] = "write" /\ u = req[r].user /\ Exists(u)
                  /\ user'[u] = [user[u] EXCEPT !.pw = r]
Verifies(r, u) == /\ req[r].op = "verify" /\ pc[r] = "write" /\ u = req[r].user /\ Exists(u)
                  /\ user'[u] = [user[u] EXCEPT !.verified = TRUE]
Readdresses(r, u) == /\ req[r].op = "confirm" /\ pc[r] = "write" /\ u = req[r].user /\ Exists(u)
                     /\ \A v \in Account \ {u} : ~HasEmail(v, req[r].email)
                     /\ user'[u] = [user[u] EXCEPT !.email = req[r].email, !.verified = TRUE]

UserEffects(r) ==
    /\ user' = [u \in Account |-> user'[u]]
    /\ \A u \in Account : \/ user'[u] = user[u]
                          \/ Inserts(r, u) \/ Deletes(r, u) \/ Repasses(r, u)
                          \/ Verifies(r, u) \/ Readdresses(r, u)

\* The links and the sessions after it: r adds its own, others end or stay.
Mails(r) == /\ pc[r] = "create" /\ pc'[r] \in {"save", "done"} /\ Exists(req[r].user)
            /\ token'[r] = "fresh" /\ mailed'[r] = req[r].email

TokenEffects(r) ==
    /\ token' = [t \in Request |-> token'[t]] /\ mailed' = [t \in Request |-> mailed'[t]]
    /\ \A t \in Request : \/ t = r /\ Mails(r) /\ user' = user
                          \/ token'[t] \in {token[t], "none"} /\ mailed'[t] = mailed[t]

Saves(r) == /\ pc[r] = "save" /\ pc'[r] = "done" /\ Exists(req[r].user)
            /\ session'[r] = req[r].user

SessionEffects(r) ==
    /\ session' = [q \in Request |-> session'[q]]
    /\ \A q \in Request : \/ q = r /\ Saves(r) /\ user' = user
                          \/ session'[q] \in {session[q], None}

StockEffects(r) ==
    /\ stocked' \subseteq stocked \cup {r}
    /\ \A u \in stocked \ stocked' : Deletes(r, u)
    /\ pc'[r] = "clear" => r \in stocked'

Effects(r) == UserEffects(r) /\ TokenEffects(r) /\ SessionEffects(r) /\ StockEffects(r)

LEMMA StepFacts ==
    ASSUME TypeOK, NEW r \in Request, NEW from, NEW next, Step(r, from, next)
    PROVE  pc[r] = from /\ pc'[r] = next
BY DEF Step, TypeOK

LEMMA NoEffects ==
    ASSUME TypeOK, NEW r \in Request, UNCHANGED tables, pc'[r] # "clear"
    PROVE  Effects(r)
BY DEF tables, Effects, UserEffects, TokenEffects, SessionEffects, StockEffects, TypeOK

\* What a statement does to its own table, when it leaves the others alone.
LEMMA SetUserEffects ==
    ASSUME TypeOK, NEW r \in Request, NEW u \in Account, NEW row, SetUser(u, row),
           pc'[r] # "clear",
           user'[u] = row => Inserts(r, u) \/ Repasses(r, u) \/ Verifies(r, u) \/ Readdresses(r, u)
    PROVE  Effects(r)
<1>1. user' = [user EXCEPT ![u] = row] /\ UNCHANGED <<stocked, token, mailed, session>>
    BY DEF SetUser
<1>2. UserEffects(r)
    BY <1>1 DEF UserEffects, TypeOK
<1> QED
    BY <1>1, <1>2 DEF Effects, TokenEffects, SessionEffects, StockEffects, TypeOK

LEMMA ContinueEffects ==
    ASSUME TypeOK, ShapeOK, NEW r \in Request, Continue(r)
    PROVE  Effects(r)
<1>1. \/ RegisterInsert(r) \/ RegisterCategories(r) \/ SaveSession(r) \/ ClearTokens(r)
      \/ CreateToken(r) \/ DropExpired(r) \/ UseWrite(r) \/ DropToken(r) \/ PurgeSessions(r)
      \/ ChangeWrite(r) \/ DeleteWrite(r) \/ Abort(r)
    BY DEF Continue
<1>2. ASSUME NEW from, NEW outcome, Stop(r, from, outcome), outcome # "clear" PROVE Effects(r)
    BY <1>2, StepFacts, NoEffects DEF Stop
<1> USE DEF Account
<1>3. CASE RegisterInsert(r)
  <2>1. CASE /\ Step(r, "insert", "categories") /\ ~Taken(req[r].email)
             /\ SetUser(r, [email |-> req[r].email, pw |-> r, verified |-> FALSE])
    <3>1. pc[r] = "insert" /\ pc'[r] = "categories"
        BY <2>1, StepFacts
    <3> QED
        BY <2>1, <3>1, SetUserEffects DEF Inserts
  <2> QED
      BY <1>2, <1>3, <2>1 DEF RegisterInsert
<1>4. CASE RegisterCategories(r)
  <2> DEFINE ok == ~req[r].group /\ Exists(r)
  <2>1. /\ pc'[r] = AfterCategories(ok) /\ UNCHANGED <<user, token, mailed, session>>
        /\ stocked' = IF ok THEN stocked \cup {r} ELSE stocked
      BY <1>4, StepFacts DEF RegisterCategories
  <2>2. pc'[r] = "clear" => ok
      BY <2>1 DEF AfterCategories
  <2> QED
      BY <2>1, <2>2 DEF Effects, UserEffects, TokenEffects, SessionEffects, StockEffects, TypeOK
<1>5. CASE SaveSession(r)
  <2>1. CASE /\ Step(r, "save", "done") /\ Exists(req[r].user)
             /\ session' = [session EXCEPT ![r] = req[r].user]
             /\ UNCHANGED <<user, stocked, token, mailed>>
    <3>1. pc[r] = "save" /\ pc'[r] = "done"
        BY <2>1, StepFacts
    <3> QED
        BY <2>1, <3>1
        DEF Effects, UserEffects, TokenEffects, SessionEffects, StockEffects, TypeOK, Saves
  <2> QED
      BY <1>2, <1>5, <2>1 DEF SaveSession
<1>6. CASE ClearTokens(r)
  <2>1. /\ pc'[r] = "create" /\ UNCHANGED <<user, stocked, mailed, session>>
        /\ token' = [q \in Request |-> IF q \in Older(r) THEN "none" ELSE token[q]]
      BY <1>6, StepFacts DEF ClearTokens
  <2> QED
      BY <2>1 DEF Effects, UserEffects, TokenEffects, SessionEffects, StockEffects, TypeOK
<1>7. CASE CreateToken(r)
  <2>1. CASE /\ Step(r, "create", IF req[r].op = "register" THEN "save" ELSE "done")
             /\ Exists(req[r].user)
             /\ token' = [token EXCEPT ![r] = "fresh"]
             /\ mailed' = [mailed EXCEPT ![r] = Recipient(r)]
             /\ UNCHANGED <<user, stocked, session>>
    <3>1. pc[r] = "create" /\ pc'[r] \in {"save", "done"}
        BY <2>1, StepFacts
    <3> QED
        BY <2>1, <3>1 DEF Effects, UserEffects, TokenEffects, SessionEffects, StockEffects, TypeOK,
                          Mails, Recipient
  <2> QED
      BY <1>2, <1>7, <2>1 DEF CreateToken
<1>8. ASSUME NEW t \in Request, UNCHANGED <<user, stocked, mailed, session>>, pc'[r] # "clear",
             token' = [token EXCEPT ![t] = "none"]
      PROVE  Effects(r)
    BY <1>8 DEF Effects, UserEffects, TokenEffects, SessionEffects, StockEffects, TypeOK
<1>9. CASE DropExpired(r)
  <2>1. pc[r] = "drop_expired" => req[r].token \in Request
      BY DEF ShapeOK, Shape
  <2> QED
      BY <1>2, <1>8, <1>9, <2>1, StepFacts DEF DropExpired
<1>10. CASE UseWrite(r)
  <2> DEFINE u == req[r].user
             op == req[r].op
             a == req[r].email
             row == CASE op = "verify" -> [user[u] EXCEPT !.verified = TRUE]
                      [] op = "reset" -> [user[u] EXCEPT !.pw = r]
                      [] op = "confirm" -> [user[u] EXCEPT !.email = a, !.verified = TRUE]
  <2>1. CASE /\ Step(r, "write", "drop") /\ Exists(u)
             /\ ~ (op = "confirm" /\ \E v \in Account \ {u} : HasEmail(v, a))
             /\ SetUser(u, row)
    <3>1. pc[r] = "write" /\ pc'[r] = "drop"
        BY <2>1, StepFacts
    <3>2. u \in Account /\ op \in {"verify", "reset", "confirm"}
        BY <1>10, <3>1, RowIsNotNone DEF UseWrite, ShapeOK, Shape, OpKinds
    <3>3. user'[u] = row => Repasses(r, u) \/ Verifies(r, u) \/ Readdresses(r, u)
        BY <2>1, <3>1, <3>2 DEF Repasses, Verifies, Readdresses
    <3> HIDE DEF row
    <3> QED
        BY <2>1, <3>1, <3>2, <3>3, SetUserEffects
  <2> QED
      BY <1>2, <1>10, <2>1 DEF UseWrite
<1>11. CASE DropToken(r)
  <2>1. pc[r] = "drop" => req[r].token \in Request
      BY DEF ShapeOK, Shape
  <2> QED
      BY <1>2, <1>8, <1>11, <2>1, StepFacts DEF DropToken
<1>12. CASE PurgeSessions(r)
  <2>1. /\ pc'[r] = "done" /\ UNCHANGED <<user, stocked, token, mailed>>
        /\ session' = [q \in Request |-> IF q \in Ended(r) THEN None ELSE session[q]]
      BY <1>12, StepFacts DEF PurgeSessions
  <2> QED
      BY <2>1 DEF Effects, UserEffects, TokenEffects, SessionEffects, StockEffects, TypeOK
<1>13. CASE ChangeWrite(r)
  <2> DEFINE u == req[r].user
  <2>1. CASE Step(r, "write", "done") /\ Exists(u) /\ SetUser(u, [user[u] EXCEPT !.pw = r])
    <3>1. pc[r] = "write" /\ pc'[r] = "done" /\ req[r].op = "changePassword"
        BY <1>13, <2>1, StepFacts DEF ChangeWrite
    <3>2. u \in Account
        BY <3>1, RowIsNotNone DEF ShapeOK, Shape, OpKinds
    <3> QED
        BY <2>1, <3>1, <3>2, SetUserEffects DEF Repasses
  <2> QED
      BY <1>2, <1>13, <2>1 DEF ChangeWrite
<1>14. CASE DeleteWrite(r)
  <2> DEFINE u == req[r].user
  <2>1. CASE /\ Step(r, "write", "done") /\ Exists(u)
             /\ user' = [user EXCEPT ![u] = None]
             /\ stocked' = stocked \ {u}
             /\ token' = [q \in Request |-> IF req[q].user = u THEN "none" ELSE token[q]]
             /\ session' = [q \in Request |-> IF q \in Ended(r) THEN None ELSE session[q]]
             /\ UNCHANGED mailed
    <3>1. pc[r] = "write" /\ pc'[r] = "done" /\ req[r].op = "deleteAccount"
        BY <1>14, <2>1, StepFacts DEF DeleteWrite
    <3>2. u \in Account
        BY <3>1, RowIsNotNone DEF ShapeOK, Shape, OpKinds
    <3>3. None # u
        BY <3>2, RowIsNotNone
    <3>4. Deletes(r, u)
        BY <2>1, <3>1, <3>2, <3>3 DEF Deletes, Ended, TypeOK
    <3> QED
        BY <2>1, <3>1, <3>2, <3>4
        DEF Effects, UserEffects, TokenEffects, SessionEffects, StockEffects, TypeOK
  <2> QED
      BY <1>2, <1>14, <2>1 DEF DeleteWrite
<1>15. CASE Abort(r)
    BY <1>2, <1>15 DEF Abort
<1> QED
    BY ONLY <1>1, <1>3, <1>4, <1>5, <1>6, <1>7, <1>9, <1>10, <1>11, <1>12, <1>13, <1>14, <1>15

\* What r's own progress means: a statement that went well has had its effect,
\* and one that failed met an account or a link that was gone, or a group id.
Progress(r) ==
    /\ pc'[r] = "categories" => Inserts(r, r)
    /\ pc'[r] = "create" => \A q \in Older(r) : token'[q] = "none"
    /\ pc'[r] = "drop" => token' = token
    /\ pc[r] = "drop" /\ pc'[r] \in {"purge", "done"}
          => token[req[r].token] # "none" /\ token'[req[r].token] = "none"
    /\ pc[r] = "purge" /\ pc'[r] = "done" => \A q \in Request : session'[q] # req[r].user
    /\ pc'[r] = "failed" =>
          \/ req[r].group
          \/ pc[r] # "insert" /\ ~Exists(req[r].user)
          \/ pc[r] \in {"drop_expired", "drop"} /\ token[req[r].token] = "none"

LEMMA ContinueProgress ==
    ASSUME TypeOK, ShapeOK, NEW r \in Request, Continue(r)
    PROVE  Progress(r)
<1>1. \/ RegisterInsert(r) \/ RegisterCategories(r) \/ SaveSession(r) \/ ClearTokens(r)
      \/ CreateToken(r) \/ DropExpired(r) \/ UseWrite(r) \/ DropToken(r) \/ PurgeSessions(r)
      \/ ChangeWrite(r) \/ DeleteWrite(r) \/ Abort(r)
    BY DEF Continue
<1> USE StepFacts DEF Stop, Progress
<1>2. CASE RegisterInsert(r)
  <2>1. CASE /\ Step(r, "insert", "categories") /\ ~Taken(req[r].email)
             /\ SetUser(r, [email |-> req[r].email, pw |-> r, verified |-> FALSE])
    <3>1. pc[r] = "insert" /\ pc'[r] = "categories"
        BY <2>1
    <3>2. Inserts(r, r)
        BY <2>1, <3>1 DEF Inserts, SetUser, TypeOK, Account
    <3> QED
        BY <3>1, <3>2
  <2>2. CASE Stop(r, "insert", "conflict")
      BY <2>2
  <2> QED
      BY <1>2, <2>1, <2>2 DEF RegisterInsert
<1>3. CASE RegisterCategories(r)
  <2> DEFINE ok == ~req[r].group /\ Exists(r)
  <2>1. pc[r] = "categories" /\ pc'[r] = IF ok THEN "clear" ELSE "failed"
      BY <1>3 DEF RegisterCategories, AfterCategories
  <2>2. req[r].user = r
      BY <2>1 DEF ShapeOK, Shape
  <2>3. CASE ok
      BY <2>1, <2>3
  <2>4. CASE ~ok
    <3>1. req[r].group \/ ~Exists(req[r].user)
        BY <2>2, <2>4
    <3>2. pc[r] = "categories" /\ pc'[r] = "failed"
        BY <2>1, <2>4
    <3> QED
        BY ONLY <3>1, <3>2 DEF Progress
  <2> QED
      BY <2>3, <2>4
<1>4. CASE SaveSession(r)
    BY <1>4 DEF SaveSession
<1>5. CASE ClearTokens(r)
    BY <1>5 DEF ClearTokens, Older
<1>6. CASE CreateToken(r)
    BY <1>6 DEF CreateToken
<1>7. CASE DropExpired(r)
    BY <1>7 DEF DropExpired
<1>8. CASE UseWrite(r)
  <2>1. pc[r] = "write" /\ pc'[r] \in {"drop", "conflict", "failed"}
      BY <1>8 DEF UseWrite
  <2>2. pc'[r] = "drop" => token' = token
      BY <1>8 DEF UseWrite, SetUser
  <2>3. pc'[r] = "failed" => ~Exists(req[r].user)
      BY <1>8 DEF UseWrite
  <2> QED
      BY <2>1, <2>2, <2>3
<1>9. CASE DropToken(r)
  <2>1. pc[r] = "drop" => req[r].token \in Request
      BY DEF ShapeOK, Shape
  <2>2. CASE /\ Step(r, "drop", IF req[r].op = "reset" THEN "purge" ELSE "done")
             /\ CanDrop(req[r].token)
             /\ token' = [token EXCEPT ![req[r].token] = "none"]
    <3>1. pc[r] = "drop" /\ pc'[r] \in {"purge", "done"}
        BY <2>2
    <3>2. token[req[r].token] # "none" /\ token'[req[r].token] = "none"
        BY <2>1, <2>2, <3>1 DEF CanDrop, TypeOK
    <3> QED
        BY <3>1, <3>2
  <2>3. CASE Stop(r, "drop", "failed") /\ ~CanDrop(req[r].token)
      BY <2>3 DEF CanDrop
  <2> QED
      BY <1>9, <2>2, <2>3 DEF DropToken
<1>10. CASE PurgeSessions(r)
  <2>1. pc[r] = "purge" => req[r].user # None
      BY RowIsNotNone DEF ShapeOK, Shape, OpKinds, Account
  <2> QED
      BY <1>10, <2>1 DEF PurgeSessions, Ended
<1>11. CASE ChangeWrite(r)
    BY <1>11 DEF ChangeWrite
<1>12. CASE DeleteWrite(r)
    BY <1>12 DEF DeleteWrite
<1>13. CASE Abort(r)
    BY <1>13 DEF Abort, Running
<1> QED
    BY ONLY <1>1, <1>2, <1>3, <1>4, <1>5, <1>6, <1>7, <1>8, <1>9, <1>10, <1>11, <1>12, <1>13

\* Every step is one of these.
Arrives(r)   == /\ Moves(r) /\ UNCHANGED tables /\ req' \in [Request -> Call]
                /\ pc[r] = "unsent" /\ Admits(r)
Continues(r) == Moves(r) /\ Flows(r) /\ Effects(r) /\ Progress(r)

LEMMA StepCases ==
    ASSUME Basic, [Next]_vars
    PROVE  \/ UNCHANGED vars
           \/ \E r \in Request : Arrives(r) \/ Continues(r)
           \/ \E t \in Request : Expire(t)
<1>1. \A r \in Request : Arrive(r) => Arrives(r)
    BY ArriveEffects DEF Basic, Arrives
<1>2. \A r \in Request : Continue(r) => Continues(r)
    BY ContinueMoves, ContinueEffects, ContinueProgress DEF Basic, Continues
<1> QED
    BY <1>1, <1>2 DEF Next

\* The row of an account after a step of r that it survives.
LEMMA RowAfter ==
    ASSUME TypeOK, ShapeOK, NEW r \in Request, Continues(r), NEW u \in Account, user'[u] # None
    PROVE  /\ user'[u] \in UserRow
           /\ \/ Exists(u) /\ user'[u].email = user[u].email
              \/ /\ u = (IF pc[r] = "insert" THEN r ELSE req[r].user)
                 /\ user'[u].email = req[r].email
                 /\ \A v \in Account \ {u} : ~HasEmail(v, req[r].email)
<1>1. \/ user'[u] = user[u]
      \/ Inserts(r, u) \/ Deletes(r, u) \/ Repasses(r, u) \/ Verifies(r, u) \/ Readdresses(r, u)
    BY DEF Continues, Effects, UserEffects
<1>2. user[u] \in UserRow \cup {None}
    BY DEF TypeOK
<1>3. CASE user'[u] = user[u]
    BY <1>2, <1>3 DEF Exists
<1>4. CASE Inserts(r, u)
  <2>1. req[r].email \in Email
      BY <1>4, RowIsNotNone DEF Inserts, ShapeOK, Shape, MailOps
  <2> QED
      BY <1>4, <2>1 DEF Inserts, UserRow, Password, Taken
<1>5. CASE Deletes(r, u)
    BY <1>5 DEF Deletes
<1>6. CASE Repasses(r, u)
    BY <1>2, <1>6 DEF Repasses, Exists, UserRow, Password
<1>7. CASE Verifies(r, u)
    BY <1>2, <1>7 DEF Verifies, Exists, UserRow
<1>8. CASE Readdresses(r, u)
  <2>1. req[r].email \in Email
      BY <1>8 DEF Readdresses, ShapeOK, Shape, UseOps, MailOps
  <2> QED
      BY <1>2, <1>8, <2>1 DEF Readdresses, Exists, UserRow
<1> QED
    BY <1>1, <1>3, <1>4, <1>5, <1>6, <1>7, <1>8

\* Only a deletion ends an account.
LEMMA AccountStays ==
    ASSUME TypeOK, ShapeOK, NEW r \in Request, Continues(r), NEW u \in Account, Exists(u),
           ~Deletes(r, u)
    PROVE  user'[u] # None
<1>1. user[u] \in UserRow
    BY DEF TypeOK, Exists
<1>2. CASE user'[u] = user[u]
    BY <1>2 DEF Exists
<1>3. CASE Inserts(r, u)
  <2>1. req[r].email \in Email
      BY <1>3, RowIsNotNone DEF Inserts, ShapeOK, Shape, MailOps
  <2> QED
      BY <1>3, <2>1, RowIsNotNone DEF Inserts, UserRow, Password
<1>4. CASE Repasses(r, u)
    BY <1>1, <1>4, RowIsNotNone DEF Repasses, UserRow, Password
<1>5. CASE Verifies(r, u)
    BY <1>1, <1>5, RowIsNotNone DEF Verifies, UserRow
<1>6. CASE Readdresses(r, u)
  <2>1. req[r].email \in Email
      BY <1>6 DEF Readdresses, ShapeOK, Shape, UseOps, MailOps
  <2> QED
      BY <1>1, <1>6, <2>1, RowIsNotNone DEF Readdresses, UserRow
<1> QED
    BY <1>2, <1>3, <1>4, <1>5, <1>6 DEF Continues, Effects, UserEffects

LEMMA TypeStep == ASSUME Basic, [Next]_vars PROVE TypeOK'
<1> USE DEF Basic
<1>1. CASE UNCHANGED vars
    BY <1>1 DEF vars, tables, TypeOK
<1>2. ASSUME NEW t \in Request, Expire(t) PROVE TypeOK'
    BY <1>2 DEF Expire, TypeOK
<1>3. ASSUME NEW r \in Request, Arrives(r) PROVE TypeOK'
  <2>1. /\ pc' \in [Request -> {"unsent"} \cup Running \cup Outcome]
        /\ before' \in [Request -> SUBSET Request]
      BY <1>3 DEF Arrives, Moves, TypeOK
  <2>2. \A t \in Request : token[t] # "none" => req'[t] = req[t]
      BY <1>3 DEF Arrives, Moves, ShapeOK, LinkShape, Early, TypeOK
  <2> QED
      BY <1>3, <2>1, <2>2 DEF Arrives, tables, TypeOK
<1>4. ASSUME NEW r \in Request, Continues(r) PROVE TypeOK'
  <2>1. /\ pc' \in [Request -> {"unsent"} \cup Running \cup Outcome]
        /\ before' \in [Request -> SUBSET Request] /\ req' \in [Request -> Call]
        /\ req' = req
      BY <1>4 DEF Continues, Moves, Flows, TypeOK
  <2>2. user' \in [Account -> UserRow \cup {None}]
      BY <1>4, RowAfter DEF Continues, Effects, UserEffects
  <2>3. \A u, v \in Account :
            user'[u] # None /\ user'[v] # None /\ user'[u].email = user'[v].email => u = v
    <3> SUFFICES ASSUME NEW u \in Account, NEW v \in Account, u # v, user'[u] # None,
                        user'[v] # None, user'[u].email = user'[v].email
                 PROVE  FALSE
        OBVIOUS
    <3>1. Exists(u) /\ Exists(v) => user[u].email # user[v].email
        BY DEF TypeOK, Exists
    <3> QED
        BY <1>4, <3>1, RowAfter DEF HasEmail
  <2>4. stocked' \subseteq Account
      BY <1>4 DEF Continues, Effects, StockEffects, TypeOK, Account
  <2>5. \A t \in Request : token'[t] \in {"none", "fresh", "expired"}
      BY <1>4 DEF Continues, Effects, TokenEffects, Mails, TypeOK
  <2>6. \A t \in Request : mailed'[t] \in Email \cup {None}
      BY <1>4, RowIsNotNone DEF Continues, Effects, TokenEffects, Mails, TypeOK, ShapeOK, Shape, MailOps
  <2>7. pc[r] \in {"save", "create"} => req[r].user \in Account
      BY RowIsNotNone DEF ShapeOK, Shape, OpKinds, MailOps
  <2>8. \A q \in Request : session'[q] \in Account \cup {None}
      BY <1>4, <2>7 DEF Continues, Effects, SessionEffects, Saves, TypeOK
  <2>9. \A u \in Account : user[u] # None /\ user'[u] = None => Deletes(r, u)
      BY <1>4, AccountStays DEF Exists
  <2>10. \A t \in Request : token'[t] # "none" => user'[req[t].user] # None
    <3> SUFFICES ASSUME NEW t \in Request, token'[t] # "none" PROVE user'[req[t].user] # None
        OBVIOUS
    <3>1. CASE t = r /\ Mails(r) /\ user' = user
        BY <3>1 DEF Mails, Exists
    <3>2. CASE token'[t] \in {token[t], "none"}
      <4>1. token[t] # "none" /\ req[t].op \in MailOps
          BY <3>2 DEF ShapeOK, LinkShape
      <4>2. req[t].user \in Account /\ user[req[t].user] # None
          BY <4>1, RowIsNotNone DEF ShapeOK, Shape, OpKinds, MailOps, TypeOK
      <4> QED
          BY <2>9, <4>2 DEF Deletes
    <3> QED
        BY <1>4, <3>1, <3>2 DEF Continues, Effects, TokenEffects
  <2>11. \A q \in Request : session'[q] # None => user'[session'[q]] # None
    <3> SUFFICES ASSUME NEW q \in Request, session'[q] # None PROVE user'[session'[q]] # None
        OBVIOUS
    <3>1. CASE q = r /\ Saves(r) /\ user' = user
        BY <3>1 DEF Saves, Exists
    <3>2. CASE session'[q] \in {session[q], None}
      <4>1. session[q] \in Account /\ user[session[q]] # None /\ session'[q] = session[q]
          BY <3>2 DEF TypeOK
      <4> QED
          BY <2>9, <4>1 DEF Deletes
    <3> QED
        BY <1>4, <3>1, <3>2 DEF Continues, Effects, SessionEffects
  <2>12. /\ token' \in [Request -> {"none", "fresh", "expired"}]
         /\ mailed' \in [Request -> Email \cup {None}]
         /\ session' \in [Request -> Account \cup {None}]
      BY <1>4, <2>5, <2>6, <2>8 DEF Continues, Effects, TokenEffects, SessionEffects
  <2> QED
      BY ONLY <2>1, <2>2, <2>3, <2>4, <2>10, <2>11, <2>12 DEF TypeOK
<1> QED
    BY <1>1, <1>2, <1>3, <1>4, StepCases

\* A request that was sent keeps what it asks for, and one that may have
\* inserted its link stays past that.
LEMMA SentKeeps ==
    ASSUME TypeOK, NEW r \in Request, Moves(r), NEW t \in Request, pc[t] # "unsent"
    PROVE  /\ req'[t] = req[t] /\ before'[t] = before[t] /\ pc'[t] # "unsent"
           /\ pc[t] \notin Early => pc'[t] \notin Early
           /\ Answered(t) => pc'[t] = pc[t]
BY DEF Moves, TypeOK, Early, Running, Outcome

LEMMA ShapeStep == ASSUME Basic, [Next]_vars PROVE ShapeOK'
<1> USE DEF Basic
<1>1. CASE UNCHANGED vars
    BY <1>1 DEF vars, tables, ShapeOK, Shape, LinkShape, Answered, Exists
<1>2. ASSUME NEW t \in Request, Expire(t) PROVE ShapeOK'
  <2>1. /\ UNCHANGED <<user, stocked, mailed, session, req, pc, before>>
        /\ \A q \in Request : token'[q] # "none" => token[q] # "none"
      BY <1>2 DEF Expire, TypeOK
  <2> QED
      BY <2>1 DEF ShapeOK, Shape, LinkShape
<1>3. ASSUME NEW r \in Request, Moves(r), Arrives(r) \/ Continues(r), NEW t \in Request,
             pc[t] \notin Early, req[t].op \in MailOps, mailed[t] = req[t].email
      PROVE  /\ pc'[t] \notin Early /\ req'[t] = req[t] /\ mailed'[t] = mailed[t]
  <2>1. pc[t] # "unsent"
      BY <1>3 DEF Early
  <2>2. pc'[t] \notin Early /\ req'[t] = req[t]
      BY <1>3, <2>1, SentKeeps
  <2>3. mailed'[t] = mailed[t]
    <3>1. CASE Arrives(r)
        BY <3>1 DEF Arrives, tables
    <3>2. CASE Continues(r)
        BY <1>3, <3>2 DEF Continues, Effects, TokenEffects, Mails, Early
    <3> QED
        BY <1>3, <3>1, <3>2
  <2> QED
      BY <2>2, <2>3
<1>4. ASSUME NEW r \in Request, Moves(r), Arrives(r) \/ Continues(r), NEW q \in Request, q # r
      PROVE  Shape(q)'
  <2>1. pc'[q] = pc[q] /\ req'[q] = req[q]
      BY <1>4 DEF Moves, TypeOK
  <2>2. Shape(q)
      BY DEF ShapeOK
  <2>3. req[q].op \in UseOps =>
            LET t == req[q].token
            IN  pc'[t] \notin Early /\ req'[t] = req[t] /\ mailed'[t] = mailed[t]
      BY <1>3, <1>4, <2>2 DEF Shape
  <2> QED
      BY <2>1, <2>2, <2>3 DEF Shape
<1>5. ASSUME NEW r \in Request, Arrives(r) PROVE ShapeOK'
  <2>1. Moves(r)
      BY <1>5 DEF Arrives
  <2>2. Shape(r)'
    <3>1. CASE req'[r] = Blank /\ pc'[r] \in Outcome \ {"failed"}
      <4>1. Blank.op \notin UseOps \cup MailOps \cup {"register"}
          BY BlankIsCall, RowIsNotNone DEF UseOps, MailOps, OpKinds
      <4> QED
          BY <3>1, <4>1, BlankIsCall DEF Shape, Outcome
    <3>2. CASE /\ req'[r].op \notin UseOps \cup {None} /\ req'[r].user \in Account
               /\ req'[r].token = None
        BY <1>5, <3>2, BlankIsCall DEF Arrives, Admits, Shape, UseOps, MailOps, Outcome
    <3>3. CASE /\ req'[r].op \in UseOps /\ req'[r].op # None /\ req'[r].user \in Account
               /\ pc'[r] \in {"write", "drop_expired"}
      <4> DEFINE t == req'[r].token
      <4>1. /\ t \in Request /\ token[t] # "none" /\ Kind(req[t].op) = Kind(req'[r].op)
            /\ req[t].user = req'[r].user /\ req[t].email = req'[r].email
          BY <1>5, <3>3, BlankIsCall DEF Arrives, Admits, UseOps
      <4>2. pc[t] \notin Early /\ req[t].op \in MailOps /\ mailed[t] = req[t].email
          BY <4>1 DEF ShapeOK, LinkShape
      <4>3. pc'[t] \notin Early /\ req'[t] = req[t] /\ mailed'[t] = mailed[t]
          BY <1>3, <1>5, <2>1, <4>1, <4>2
      <4> QED
          BY <3>3, <4>1, <4>2, <4>3 DEF Shape, UseOps, MailOps
    <3>4. \/ req'[r] = Blank /\ pc'[r] \in Outcome \ {"failed"}
          \/ /\ req'[r].op \notin UseOps \cup {None} /\ req'[r].user \in Account
             /\ req'[r].token = None
          \/ /\ req'[r].op \in UseOps /\ req'[r].op # None /\ req'[r].user \in Account
             /\ pc'[r] \in {"write", "drop_expired"}
        BY <1>5, RowIsNotNone DEF Arrives, Admits, UseOps, OpKinds, Account
    <3> QED
        BY <3>1, <3>2, <3>3, <3>4
  <2>3. ASSUME NEW t \in Request PROVE LinkShape(t)'
      BY <1>3, <1>5, <2>1 DEF Arrives, tables, ShapeOK, LinkShape
  <2> QED
      BY <1>4, <1>5, <2>1, <2>2, <2>3 DEF ShapeOK
<1>6. ASSUME NEW r \in Request, Continues(r) PROVE ShapeOK'
  <2>1. Moves(r) /\ Flows(r) /\ req' = req
      BY <1>6 DEF Continues, Flows
  <2>2. Shape(r)'
    <3>1. pc[r] \notin {"unsent"} \cup Outcome /\ pc'[r] # "unsent" /\ Shape(r)
        BY <2>1 DEF Flows, Running, Outcome, Moves, ShapeOK
    <3>2. req[r].op \in UseOps =>
              LET t == req[r].token
              IN  pc'[t] \notin Early /\ mailed'[t] = mailed[t]
        BY <1>3, <1>6, <2>1, <3>1 DEF Shape
    <3>3. /\ pc'[r] \in {"insert", "categories"} => req[r].op = "register"
          /\ pc'[r] \in {"clear", "create"} => req[r].op \in MailOps
          /\ pc'[r] = "save" => req[r].op \in {"register", "login"}
          /\ pc'[r] = "write" => req[r].op \in UseOps \cup {"changePassword", "deleteAccount"}
          /\ pc'[r] \in {"drop", "drop_expired"} => req[r].op \in UseOps
          /\ pc'[r] = "purge" => req[r].op = "reset"
        BY <2>1, <3>1 DEF Flows, Shape, MailOps
    <3> QED
        BY <2>1, <3>1, <3>2, <3>3 DEF Shape
  <2>3. ASSUME NEW t \in Request PROVE LinkShape(t)'
    <3>1. CASE t = r /\ Mails(r)
        BY <2>1, <3>1 DEF Mails, LinkShape, Early, ShapeOK, Shape
    <3>2. CASE token'[t] \in {token[t], "none"}
        BY <1>3, <1>6, <2>1, <3>2 DEF ShapeOK, LinkShape
    <3> QED
        BY <1>6, <3>1, <3>2 DEF Continues, Effects, TokenEffects
  <2> QED
      BY <1>4, <1>6, <2>1, <2>2, <2>3 DEF ShapeOK
<1> QED
    BY <1>1, <1>2, <1>5, <1>6, StepCases

LEMMA BeforeStep == ASSUME Basic, [Next]_vars PROVE BeforeOK'
<1> USE DEF Basic, BeforeOK
<1>1. CASE UNCHANGED vars
    BY <1>1 DEF vars, Answered
<1>2. ASSUME NEW t \in Request, Expire(t) PROVE BeforeOK'
    BY <1>2 DEF Expire, Answered
<1>3. ASSUME NEW r \in Request, Moves(r) PROVE BeforeOK'
    BY <1>3 DEF Moves, Answered, TypeOK
<1> QED
    BY <1>1, <1>2, <1>3, StepCases DEF Arrives, Continues

LEMMA BasicAlways == Spec => []Basic
<1>1. Basic /\ [Next]_vars => Basic'
    BY TypeStep, ShapeStep, BeforeStep DEF Basic
<1> QED
    BY BasicInit, <1>1, PTL DEF Spec

\* Tables and requests keep their types, an address belongs to one account, and
\* links and sessions to accounts that exist.
THEOREM TypeCorrect == Spec => []TypeOK
BY BasicAlways, PTL DEF Basic
-----------------------------------------------------------------------------
\* An account belongs to a registration that inserted it, and has its categories
\* once that registration went past them.
Registered == \A u \in Account : Exists(u) =>
    /\ req[u].op = "register" /\ pc[u] \notin {"unsent", "insert"}
    /\ pc[u] \in {"clear", "create", "save", "done"} => u \in stocked

LEMMA AccountsBefore ==
    ASSUME Basic, NEW r \in Request, Continues(r), NEW u \in Account, user'[u] # None
    PROVE  Exists(u) \/ Inserts(r, u)
BY DEF Continues, Effects, UserEffects, Exists, Deletes, Repasses, Verifies, Readdresses

LEMMA RegisteredStep == ASSUME Basic, Registered, [Next]_vars PROVE Registered'
<1> USE DEF Basic
<1>1. CASE UNCHANGED vars
    BY <1>1 DEF vars, tables, Registered, Exists
<1>2. ASSUME NEW t \in Request, Expire(t) PROVE Registered'
    BY <1>2 DEF Expire, Registered, Exists
<1>3. ASSUME NEW r \in Request, Arrives(r) PROVE Registered'
  <2>1. \A u \in Account : Exists(u) => u # r /\ pc'[u] = pc[u] /\ req'[u] = req[u]
      BY <1>3 DEF Arrives, Moves, Registered, TypeOK, Account
  <2> QED
      BY <1>3, <2>1 DEF Arrives, tables, Registered, Exists
<1>4. ASSUME NEW r \in Request, Continues(r) PROVE Registered'
  <2> SUFFICES ASSUME NEW u \in Account, user'[u] # None
               PROVE  /\ req'[u].op = "register" /\ pc'[u] \notin {"unsent", "insert"}
                      /\ pc'[u] \in {"clear", "create", "save", "done"} => u \in stocked'
      BY DEF Registered, Exists
  <2>1. req' = req /\ u \in Request
      BY <1>4 DEF Continues, Flows, Account
  <2>2. CASE Inserts(r, u)
      BY <2>1, <2>2 DEF Inserts, ShapeOK, Shape
  <2>3. CASE Exists(u)
    <3>1. u \in stocked => u \in stocked'
        BY <1>4 DEF Continues, Effects, StockEffects, Deletes
    <3>2. CASE u = r
      <4>1. pc'[u] \in {"create", "save", "done"} => pc[u] \in {"clear", "create", "save"}
          BY <1>4, <2>3, <3>2 DEF Continues, Flows, Registered, ShapeOK, Shape, UseOps
      <4> QED
          BY <1>4, <2>1, <2>3, <3>1, <3>2, <4>1
          DEF Continues, Moves, Flows, Effects, StockEffects, Registered, Running, Outcome
    <3>3. CASE u # r
        BY <1>4, <2>1, <2>3, <3>1, <3>3 DEF Continues, Moves, TypeOK, Registered
    <3> QED
        BY <3>2, <3>3
  <2> QED
      BY <1>4, <2>2, <2>3, AccountsBefore
<1> QED
    BY <1>1, <1>2, <1>3, <1>4, StepCases

\* What is true of the accounts registered at first.
LEMMA FirstFacts ==
    ASSUME Init
    PROVE  /\ stocked = First
           /\ \A r \in First : /\ ~user[r].verified /\ user[r].email = req[r].email
                               /\ req[r].op = "register" /\ pc[r] = "done" /\ token[r] # "none"
           /\ \A r \in Request \ First : user[r] = None /\ req[r] = Blank /\ pc[r] = "unsent"
                                         /\ token[r] = "none" /\ session[r] = None
           /\ \A r \in Request : before[r] = {} /\ req[r].token = None /\ req[r].op # "reset"
<1> PICK f \in [First -> Email] : FirstRows(f)
    BY InitRows
<1>1. ASSUME NEW r \in First
      PROVE  /\ user[r] = [email |-> f[r], pw |-> r, verified |-> FALSE] /\ token[r] = "fresh"
             /\ req[r] = Registration(r, f[r], FALSE) /\ pc[r] = "done" /\ before[r] = {}
    BY FirstAssumption DEF FirstRows, Account
<1>2. ASSUME NEW r \in Request \ First
      PROVE  /\ user[r] = None /\ req[r] = Blank /\ pc[r] = "unsent"
             /\ token[r] = "none" /\ session[r] = None /\ before[r] = {}
    BY DEF FirstRows
<1>3. ASSUME NEW r \in First
      PROVE  /\ req[r].op = "register" /\ req[r].email = f[r] /\ req[r].token = None
             /\ ~user[r].verified /\ user[r].email = f[r]
  <2>1. req[r] = [op |-> "register", user |-> r, email |-> f[r], token |-> None, group |-> FALSE]
      BY <1>1 DEF Registration, Blank
  <2>2. user[r] = [email |-> f[r], pw |-> r, verified |-> FALSE]
      BY <1>1
  <2>3. ~user[r].verified
      BY ONLY <2>2
  <2>4. user[r].email = f[r]
      BY ONLY <2>2
  <2> QED
      BY <2>1, <2>3, <2>4
<1>4. Blank.token = None /\ Blank.op # "reset"
    BY BlankIsCall, RowIsNotNone DEF OpKinds
<1>5. stocked = First
    BY DEF FirstRows
<1>6. \A r \in Request : before[r] = {} /\ req[r].token = None /\ req[r].op # "reset"
    BY <1>1, <1>2, <1>3, <1>4
<1>7. \A r \in First : /\ ~user[r].verified /\ user[r].email = req[r].email
                       /\ req[r].op = "register" /\ pc[r] = "done" /\ token[r] # "none"
    BY <1>1, <1>3
<1>8. \A r \in Request \ First : /\ user[r] = None /\ req[r] = Blank /\ pc[r] = "unsent"
                                 /\ token[r] = "none" /\ session[r] = None
    BY <1>2
<1> QED
    BY ONLY <1>5, <1>6, <1>7, <1>8

LEMMA RegisteredAlways == Spec => []Registered
<1>1. Init => Registered
    BY FirstFacts DEF Registered, Exists, Account
<1>2. Basic /\ Registered /\ [Next]_vars => Registered'
    BY RegisteredStep
<1> QED
    BY BasicAlways, <1>1, <1>2, PTL DEF Spec

\* register: an account that lacks its default categories belongs to a
\* registration that failed, was cut off, or still runs.
THEOREM IncompleteByFaultAlways == Spec => []IncompleteByFault
<1>1. Registered => IncompleteByFault
    BY DEF Registered, IncompleteByFault
<1> QED
    BY RegisteredAlways, <1>1, PTL
-----------------------------------------------------------------------------
\* A link whose row a request deleted with success is gone for good, and no
\* other request deleted it.
Spent(r) == pc[r] \in {"purge", "done"} /\ req[r].token # None

SpentOnce == \A r \in Request : Spent(r) =>
    /\ token[req[r].token] = "none"
    /\ \A q \in Request : Spent(q) /\ req[q].token = req[r].token => q = r

\* The link of a request that uses one was inserted long ago.
LEMMA UsedLink ==
    ASSUME ShapeOK, NEW r \in Request, req[r].token # None
    PROVE  /\ req[r].op \in UseOps /\ req[r].token \in Request /\ pc[req[r].token] \notin Early
           /\ pc[r] # "unsent"
BY RowIsNotNone DEF ShapeOK, Shape, UseOps, OpKinds

LEMMA GoneStaysGone ==
    ASSUME Basic, [Next]_vars, NEW t \in Request, pc[t] \notin Early, token[t] = "none"
    PROVE  token'[t] = "none"
<1>1. CASE UNCHANGED vars
    BY <1>1 DEF vars, tables
<1>2. ASSUME NEW x \in Request, Expire(x) PROVE token'[t] = "none"
    BY <1>2 DEF Expire, Basic, TypeOK
<1>3. ASSUME NEW r \in Request, Arrives(r) PROVE token'[t] = "none"
    BY <1>3 DEF Arrives, tables
<1>4. ASSUME NEW r \in Request, Continues(r) PROVE token'[t] = "none"
    BY <1>4 DEF Continues, Effects, TokenEffects, Mails, Early
<1> QED
    BY <1>1, <1>2, <1>3, <1>4, StepCases

LEMMA SpentStep == ASSUME Basic, SpentOnce, [Next]_vars PROVE SpentOnce'
<1> USE DEF Basic
<1>1. CASE UNCHANGED vars
    BY <1>1 DEF vars, tables, SpentOnce, Spent
<1>2. ASSUME NEW r \in Request, Spent(r), req'[r] = req[r] PROVE token'[req'[r].token] = "none"
    BY <1>2, UsedLink, GoneStaysGone DEF Spent, SpentOnce
<1>3. ASSUME NEW t \in Request, Expire(t) PROVE SpentOnce'
  <2>1. req' = req /\ pc' = pc
      BY <1>3 DEF Expire
  <2> QED
      BY <1>2, <2>1 DEF SpentOnce, Spent
<1>4. ASSUME NEW r \in Request, Arrives(r) PROVE SpentOnce'
  <2>1. \A q \in Request : Spent(q)' => Spent(q) /\ req'[q] = req[q]
    <3>1. ~Spent(r)'
        BY <1>4, BlankIsCall DEF Arrives, Admits, Spent
    <3> QED
        BY <1>4, <3>1 DEF Arrives, Moves, Spent, TypeOK
  <2> QED
      BY <1>2, <2>1 DEF SpentOnce
<1>5. ASSUME NEW r \in Request, Continues(r) PROVE SpentOnce'
  <2>1. req' = req /\ Moves(r)
      BY <1>5 DEF Continues, Flows
  <2>2. \A q \in Request : Spent(q)' /\ ~Spent(q) => q = r
      BY <2>1 DEF Moves, Spent, TypeOK
  <2>3. Spent(r)' /\ ~Spent(r) =>
            token[req[r].token] # "none" /\ token'[req[r].token] = "none"
    <3> SUFFICES ASSUME pc'[r] \in {"purge", "done"}, req[r].token # None, ~Spent(r)
                 PROVE  token[req[r].token] # "none" /\ token'[req[r].token] = "none"
        BY <2>1 DEF Spent
    <3>1. req[r].op \in UseOps /\ Shape(r)
        BY UsedLink DEF ShapeOK
    <3>2. pc[r] \notin {"purge", "done"}
        BY DEF Spent
    <3>3. pc[r] = "drop"
        BY <1>5, <3>1, <3>2 DEF Continues, Flows, Shape, UseOps, MailOps
    <3> QED
        BY <1>5, <3>3 DEF Continues, Progress
  <2> QED
      BY <1>2, <2>1, <2>2, <2>3 DEF SpentOnce, Spent
<1> QED
    BY <1>1, <1>3, <1>4, <1>5, StepCases

\* deleteToken: of the requests that use one link, at most one succeeds.
THEOREM TokenSucceedsOnceAlways == Spec => []TokenSucceedsOnce
<1>1. Init => SpentOnce
    BY FirstFacts DEF SpentOnce, Spent
<1>2. Basic /\ SpentOnce /\ [Next]_vars => SpentOnce'
    BY SpentStep
<1>3. SpentOnce => TokenSucceedsOnce
    BY DEF SpentOnce, Spent, TokenSucceedsOnce
<1> QED
    BY BasicAlways, <1>1, <1>2, <1>3, PTL DEF Spec
-----------------------------------------------------------------------------
\* Nothing is left of a session that ended: a request that was answered opens
\* none any more.
LEMMA EndedStaysEnded ==
    ASSUME Basic, [Next]_vars, NEW q \in Request, Answered(q)
    PROVE  session'[q] \in {session[q], None}
<1>1. CASE UNCHANGED vars
    BY <1>1 DEF vars, tables
<1>2. ASSUME NEW x \in Request, Expire(x) PROVE session' = session
    BY <1>2 DEF Expire
<1>3. ASSUME NEW r \in Request, Arrives(r) PROVE session' = session
    BY <1>3 DEF Arrives, tables
<1>4. ASSUME NEW r \in Request, Continues(r) PROVE session'[q] \in {session[q], None}
    BY <1>4 DEF Continues, Effects, SessionEffects, Saves, Answered, Outcome
<1> QED
    BY <1>1, <1>2, <1>3, <1>4, StepCases

LEMMA ResetStep == ASSUME Basic, ResetEndsSessions, [Next]_vars PROVE ResetEndsSessions'
<1> USE DEF Basic
<1>1. ASSUME NEW r \in Request, pc[r] = "done", req[r].op = "reset",
             req'[r] = req[r], before'[r] = before[r]
      PROVE  \A q \in before'[r] : session'[q] # req'[r].user
  <2>1. \A q \in before[r] : q \in Request /\ Answered(q) /\ session[q] # req[r].user
      BY <1>1 DEF ResetEndsSessions, BeforeOK, TypeOK
  <2>2. req[r].user # None
      BY <1>1, RowIsNotNone DEF ShapeOK, Shape, OpKinds, Account
  <2> QED
      BY <1>1, <2>1, <2>2, EndedStaysEnded
<1>2. CASE UNCHANGED vars
    BY <1>2 DEF vars, tables, ResetEndsSessions
<1>3. ASSUME NEW t \in Request, Expire(t) PROVE ResetEndsSessions'
    BY <1>1, <1>3 DEF Expire, ResetEndsSessions
<1>4. ASSUME NEW r \in Request, Arrives(r) PROVE ResetEndsSessions'
  <2>1. pc'[r] # "done" \/ req'[r].op # "reset"
      BY <1>4, BlankIsCall, RowIsNotNone DEF Arrives, Admits, OpKinds
  <2>2. \A q \in Request \ {r} : pc'[q] = pc[q] /\ req'[q] = req[q] /\ before'[q] = before[q]
      BY <1>4 DEF Arrives, Moves, TypeOK
  <2> QED
      BY <1>1, <2>1, <2>2 DEF ResetEndsSessions
<1>5. ASSUME NEW r \in Request, Continues(r) PROVE ResetEndsSessions'
  <2>1. req' = req /\ before' = before /\ pc[r] \in Running
      BY <1>5 DEF Continues, Flows
  <2>2. \A q \in Request \ {r} : pc'[q] = pc[q]
      BY <1>5 DEF Continues, Moves, TypeOK
  <2>3. pc'[r] = "done" /\ req[r].op = "reset" => \A q \in Request : session'[q] # req[r].user
    <3>1. Shape(r)
        BY DEF ShapeOK
    <3>2. pc'[r] = "done" /\ req[r].op = "reset" => pc[r] = "purge"
        BY <1>5, <3>1 DEF Continues, Flows, Shape, MailOps
    <3> QED
        BY <1>5, <3>2 DEF Continues, Progress
  <2>4. before[r] \subseteq Request
      BY DEF TypeOK
  <2> QED
      BY <1>1, <2>1, <2>2, <2>3, <2>4 DEF ResetEndsSessions
<1> QED
    BY <1>2, <1>3, <1>4, <1>5, StepCases

\* resetPassword: a reset that succeeds has ended every session that was opened
\* before it was sent.
THEOREM ResetEndsSessionsAlways == Spec => []ResetEndsSessions
<1>1. Init => ResetEndsSessions
    BY FirstFacts DEF ResetEndsSessions
<1>2. Basic /\ ResetEndsSessions /\ [Next]_vars => ResetEndsSessions'
    BY ResetStep
<1> QED
    BY BasicAlways, <1>1, <1>2, PTL DEF Spec
-----------------------------------------------------------------------------
\* A request that is about to insert a link, or did, has deleted those that
\* requests answered before it had inserted.
Cleared == \A r \in Request :
    pc[r] = "create" \/ token[r] # "none" =>
        \A q \in before[r] : SameKind(q, r) => token[q] = "none"

LEMMA AnsweredLink ==
    ASSUME Basic, [Next]_vars, NEW q \in Request, Answered(q), token[q] = "none"
    PROVE  token'[q] = "none"
<1>1. CASE UNCHANGED vars
    BY <1>1 DEF vars, tables
<1>2. ASSUME NEW x \in Request, Expire(x) PROVE token'[q] = "none"
    BY <1>2 DEF Expire, Basic, TypeOK
<1>3. ASSUME NEW r \in Request, Arrives(r) PROVE token'[q] = "none"
    BY <1>3 DEF Arrives, tables
<1>4. ASSUME NEW r \in Request, Continues(r) PROVE token'[q] = "none"
    BY <1>4 DEF Continues, Effects, TokenEffects, Mails, Answered, Outcome
<1> QED
    BY <1>1, <1>2, <1>3, <1>4, StepCases

LEMMA ClearedStep == ASSUME Basic, Cleared, [Next]_vars PROVE Cleared'
<1> USE DEF Basic
<1>1. ASSUME NEW r \in Request, pc[r] = "create" \/ token[r] # "none",
             before'[r] = before[r],
             \A q \in Request : pc[q] # "unsent" => req'[q] = req[q]
      PROVE  \A q \in before'[r] : SameKind(q, r)' => token'[q] = "none"
  <2>1. \A q \in before[r] : q \in Request /\ Answered(q) /\ pc[q] # "unsent"
      BY DEF BeforeOK, TypeOK, Answered, Outcome
  <2>2. pc[r] # "unsent"
      BY <1>1 DEF ShapeOK, LinkShape, Early
  <2> QED
      BY <1>1, <2>1, <2>2, AnsweredLink DEF Cleared, SameKind
<1>2. CASE UNCHANGED vars
    BY <1>2 DEF vars, tables, Cleared, SameKind
<1>3. ASSUME NEW t \in Request, Expire(t) PROVE Cleared'
  <2>1. UNCHANGED <<req, pc, before>> /\ \A r \in Request : token'[r] # "none" => token[r] # "none"
      BY <1>3 DEF Expire, TypeOK
  <2> QED
      BY <1>1, <2>1 DEF Cleared
<1>4. ASSUME NEW r \in Request, Arrives(r) PROVE Cleared'
  <2>1. pc'[r] # "create" /\ token'[r] = "none"
      BY <1>4, RowIsNotNone DEF Arrives, Admits, tables, ShapeOK, LinkShape, Early, Outcome
  <2>2. token' = token /\ \A q \in Request \ {r} :
            pc'[q] = pc[q] /\ req'[q] = req[q] /\ before'[q] = before[q]
      BY <1>4 DEF Arrives, tables, Moves, TypeOK
  <2>3. \A q \in Request : pc[q] # "unsent" => req'[q] = req[q]
      BY <1>4, <2>2 DEF Arrives
  <2> QED
      BY <1>1, <2>1, <2>2, <2>3 DEF Cleared
<1>5. ASSUME NEW r \in Request, Continues(r) PROVE Cleared'
  <2>1. req' = req /\ before' = before
      BY <1>5 DEF Continues, Flows
  <2>2. \A q \in Request \ {r} : pc'[q] = pc[q] /\ (token'[q] # "none" => token[q] # "none")
      BY <1>5 DEF Continues, Moves, Effects, TokenEffects, TypeOK
  <2>3. token'[r] # "none" => pc[r] = "create" \/ token[r] # "none"
      BY <1>5 DEF Continues, Effects, TokenEffects, Mails
  <2>4. pc'[r] = "create" => \A q \in before[r] : SameKind(q, r) => token'[q] = "none"
      BY <1>5 DEF Continues, Progress, Older, SameKind, TypeOK
  <2>5. ASSUME NEW q \in Request, pc'[q] = "create" \/ token'[q] # "none"
        PROVE  \A p \in before'[q] : SameKind(p, q)' => token'[p] = "none"
    <3>1. CASE pc[q] = "create" \/ token[q] # "none"
        BY <1>1, <2>1, <3>1
    <3>2. CASE q = r /\ pc'[r] = "create"
        BY <2>1, <2>4, <3>2 DEF SameKind
    <3> QED
        BY <2>2, <2>3, <2>5, <3>1, <3>2
  <2> QED
      BY <2>5 DEF Cleared
<1> QED
    BY <1>2, <1>3, <1>4, <1>5, StepCases

\* createToken: two links of one account and one kind were requested at the same
\* time.
THEOREM TwoTokensByOverlapAlways == Spec => []TwoTokensByOverlap
<1>1. Init => Cleared
    BY FirstFacts DEF Cleared
<1>2. Basic /\ Cleared /\ [Next]_vars => Cleared'
    BY ClearedStep
<1>3. Basic /\ Cleared => TwoTokensByOverlap
  <2> SUFFICES ASSUME Basic, Cleared, NEW q \in Request, NEW r \in Request, q # r,
                      token[q] # "none", token[r] # "none", SameKind(q, r)
               PROVE  Overlap(q, r)
      BY DEF TwoTokensByOverlap
  <2>1. pc[q] # "unsent"
      BY DEF Basic, ShapeOK, LinkShape, Early
  <2>2. q \notin before[r] /\ r \notin before[q]
      BY DEF Cleared, SameKind
  <2> QED
      BY <2>1, <2>2 DEF Overlap
<1> QED
    BY BasicAlways, <1>1, <1>2, <1>3, PTL DEF Spec
-----------------------------------------------------------------------------
\* An account that is not verified still has the address it was registered
\* under; so a link that may verify it was mailed there.
Unproven == \A u \in Account :
    Exists(u) /\ ~user[u].verified => user[u].email = req[u].email

ResentThere == \A t \in Request : req[t].op = "resend" =>
    pc[req[t].user] # "unsent" /\ req[t].email = req[req[t].user].email

Proven(u, a) == \E r \in Request :
    req[r].op \in {"verify", "confirm"} /\ req[r].user = u /\ mailed[req[r].token] = a

ProvenNext(u, a) == \E r \in Request :
    req'[r].op \in {"verify", "confirm"} /\ req'[r].user = u /\ mailed'[req'[r].token] = a

Addressed == Registered /\ Unproven /\ ResentThere /\ VerifiedEmailWasProven

\* What a link proves stays proven.
LEMMA ProvenStays ==
    ASSUME Basic, NEW r \in Request, Moves(r), Arrives(r) \/ Continues(r), NEW u, NEW a, Proven(u, a)
    PROVE  ProvenNext(u, a)
<1>1. PICK q \in Request : /\ req[q].op \in {"verify", "confirm"} /\ req[q].user = u
                           /\ mailed[req[q].token] = a
    BY DEF Proven
<1>2. /\ pc[q] # "unsent" /\ req[q].token \in Request /\ pc[req[q].token] \notin Early
    BY <1>1, RowIsNotNone DEF Basic, ShapeOK, Shape, UseOps, OpKinds
<1>3. req'[q] = req[q]
    BY <1>2, SentKeeps DEF Basic
<1>4. mailed'[req[q].token] = mailed[req[q].token]
    BY <1>2 DEF Arrives, tables, Continues, Effects, TokenEffects, Mails, Early
<1> QED
    BY <1>1, <1>3, <1>4 DEF ProvenNext

LEMMA AddressedStep == ASSUME Basic, Addressed, [Next]_vars PROVE Addressed'
<1> USE DEF Basic, Addressed
<1>1. CASE UNCHANGED vars
    BY <1>1, RegisteredStep
    DEF vars, tables, Unproven, ResentThere, VerifiedEmailWasProven, Exists
<1>2. ASSUME NEW t \in Request, Expire(t) PROVE Addressed'
    BY <1>2, RegisteredStep DEF Expire, Unproven, ResentThere, VerifiedEmailWasProven, Exists
<1>3. ASSUME NEW r \in Request, Arrives(r) PROVE Addressed'
  <2>1. Moves(r) /\ UNCHANGED tables /\ pc[r] = "unsent"
      BY <1>3 DEF Arrives
  <2>2. \A q \in Request : pc[q] # "unsent" => req'[q] = req[q] /\ pc'[q] # "unsent"
      BY <2>1, SentKeeps
  <2>3. \A u \in Account : Exists(u) => req'[u] = req[u] /\ pc[u] # "unsent"
      BY <2>2 DEF Registered, Account
  <2>4. Unproven'
      BY <2>1, <2>3 DEF tables, Unproven, Exists
  <2>5. ResentThere'
    <3> SUFFICES ASSUME NEW t \in Request, req'[t].op = "resend"
                 PROVE  /\ pc'[req'[t].user] # "unsent"
                        /\ req'[t].email = req'[req'[t].user].email
        BY DEF ResentThere
    <3>1. CASE t = r
      <4>1. LET u == req'[r].user
            IN  u \in Account /\ HasEmail(u, req'[r].email) /\ ~user[u].verified
          BY <1>3, <3>1, BlankIsCall, RowIsNotNone DEF Arrives, Admits, UseOps, OpKinds
      <4> QED
          BY <2>2, <2>3, <3>1, <4>1 DEF HasEmail, Unproven, Account
    <3>2. CASE t # r
      <4>1. req'[t] = req[t] /\ req[t].op = "resend"
          BY <2>1, <3>2 DEF Moves, TypeOK
      <4>2. req[t].user \in Request
          BY <4>1, RowIsNotNone DEF ShapeOK, Shape, OpKinds, Account
      <4> QED
          BY <2>2, <4>1, <4>2 DEF ResentThere
    <3> QED
        BY <3>1, <3>2
  <2>6. VerifiedEmailWasProven'
    <3>1. \A u \in Account : Exists(u) /\ user[u].verified => ProvenNext(u, user[u].email)
        BY <1>3, <2>1, ProvenStays DEF VerifiedEmailWasProven, Proven
    <3> QED
        BY <2>1, <3>1 DEF tables, VerifiedEmailWasProven, ProvenNext, Exists
  <2> QED
      BY <2>4, <2>5, <2>6, RegisteredStep
<1>4. ASSUME NEW r \in Request, Continues(r) PROVE Addressed'
  <2>1. Moves(r) /\ req' = req
      BY <1>4 DEF Continues, Flows
  <2>2. ResentThere'
    <3>1. \A t \in Request : req[t].op = "resend" => req[t].user \in Request
        BY RowIsNotNone DEF ShapeOK, Shape, OpKinds, Account
    <3> QED
        BY <2>1, <3>1, SentKeeps DEF ResentThere
  <2>3. ASSUME NEW u \in Account, user'[u] # None
        PROVE  /\ user'[u].verified => ProvenNext(u, user'[u].email)
               /\ ~user'[u].verified => user'[u].email = req[u].email
    <3>1. user[u] \in UserRow \cup {None}
        BY DEF TypeOK
    <3>2. Exists(u) => /\ user[u].verified => ProvenNext(u, user[u].email)
                       /\ ~user[u].verified => user[u].email = req[u].email
        BY <1>4, <2>1, ProvenStays DEF Unproven, VerifiedEmailWasProven, Proven
    <3>3. CASE user'[u] = user[u]
        BY <2>3, <3>2, <3>3 DEF Exists
    <3>4. CASE Inserts(r, u)
        BY <3>4 DEF Inserts
    <3>5. CASE Deletes(r, u)
        BY <2>3, <3>5 DEF Deletes
    <3>6. CASE Repasses(r, u)
      <4>1. Exists(u) /\ user'[u].email = user[u].email /\ user'[u].verified = user[u].verified
          BY <3>1, <3>6 DEF Repasses, Exists, UserRow
      <4> QED
          BY <3>2, <4>1
    <3>7. ASSUME req[r].op \in {"verify", "confirm"}, u = req[r].user, NEW a,
                 mailed[req[r].token] = a
          PROVE  ProvenNext(u, a)
      <4>1. Proven(u, a)
          BY <3>7 DEF Proven
      <4> QED
          BY <1>4, <2>1, <4>1, ProvenStays
    <3>8. CASE Verifies(r, u)
      <4>1. /\ Exists(u) /\ user'[u].email = user[u].email /\ user'[u].verified
            /\ req[r].op = "verify" /\ u = req[r].user
          BY <3>1, <3>8 DEF Verifies, Exists, UserRow
      <4>2. CASE user[u].verified
          BY <3>2, <4>1, <4>2
      <4>3. CASE ~user[u].verified
        <5> DEFINE t == req[r].token
        <5>1. /\ t \in Request /\ mailed[t] = req[t].email /\ req[t].op \in MailOps
              /\ Kind(req[t].op) = Kind("verify") /\ req[t].user = u
            BY <4>1 DEF ShapeOK, Shape, UseOps
        <5>2. req[t].op \in {"register", "resend"}
            BY <5>1 DEF Kind, MailOps
        <5>3. req[t].email = req[u].email
            BY <5>1, <5>2 DEF ShapeOK, Shape, ResentThere
        <5>4. user[u].email = req[u].email
            BY <4>1, <4>3 DEF Unproven
        <5> QED
            BY <3>7, <4>1, <5>1, <5>3, <5>4
      <4> QED
          BY <4>2, <4>3
    <3>9. CASE Readdresses(r, u)
      <4>1. /\ user'[u].email = req[r].email /\ user'[u].verified
            /\ req[r].op = "confirm" /\ u = req[r].user
          BY <3>1, <3>9 DEF Readdresses, Exists, UserRow
      <4>2. mailed[req[r].token] = req[r].email
          BY <4>1 DEF ShapeOK, Shape, UseOps
      <4> QED
          BY <3>7, <4>1, <4>2
    <3> QED
        BY <1>4, <3>3, <3>4, <3>5, <3>6, <3>8, <3>9 DEF Continues, Effects, UserEffects
  <2>4. Unproven' /\ VerifiedEmailWasProven'
      BY <2>1, <2>3 DEF Unproven, VerifiedEmailWasProven, ProvenNext, Exists
  <2> QED
      BY <2>2, <2>4, RegisteredStep
<1> QED
    BY <1>1, <1>2, <1>3, <1>4, StepCases

\* verifyEmail, confirmEmailChange: the address of an account that counts as
\* verified is one that a link was mailed to, and that link was used.
THEOREM VerifiedEmailWasProvenAlways == Spec => []VerifiedEmailWasProven
<1>1. Init => Addressed
  <2> SUFFICES ASSUME Init PROVE Addressed
      OBVIOUS
  <2>1. \A u \in Account : Exists(u) => u \in First
      BY FirstFacts DEF Exists, Account
  <2>2. Registered /\ Unproven /\ VerifiedEmailWasProven
      BY <2>1, FirstFacts DEF Registered, Unproven, VerifiedEmailWasProven, Exists
  <2>3. ResentThere
      BY FirstFacts, BlankIsCall, RowIsNotNone DEF ResentThere, OpKinds
  <2> QED
      BY <2>2, <2>3 DEF Addressed
<1>2. Basic /\ Addressed /\ [Next]_vars => Addressed'
    BY AddressedStep
<1> QED
    BY BasicAlways, <1>1, <1>2, PTL DEF Spec, Addressed
-----------------------------------------------------------------------------
\* Another request ran at the same time as r.
Met(r) == \E q \in Request : Overlap(q, r)

\* A running request that finds its account, or the link it uses, gone met the
\* request that deleted it.
FaultsMeet == \A r \in Request :
    /\ pc[r] \in Running \ {"insert"} /\ ~Exists(req[r].user) => Met(r)
    /\ pc[r] \in {"drop_expired", "write", "drop"} /\ req[r].op \in UseOps
          /\ token[req[r].token] = "none" => Met(r)
    /\ pc[r] = "failed" => req[r].group \/ Met(r)

LEMMA MetStays ==
    ASSUME Basic, NEW r \in Request, pc[r] # "unsent", Met(r),
           NEW q \in Request, Moves(q)
    PROVE  Met(r)'
BY SentKeeps DEF Basic, Met, Overlap

LEMMA RunningMeet ==
    ASSUME Basic, NEW r \in Request, pc[r] \in Running, NEW q \in Request, q # r, Moves(q),
           pc[q] \in Running
    PROVE  Met(r)'
<1>1. ~Answered(r) /\ ~Answered(q) /\ pc[r] # "unsent" /\ pc[q] # "unsent"
    BY DEF Answered, Running, Outcome
<1>2. q \notin before[r] /\ r \notin before[q]
    BY <1>1 DEF Basic, BeforeOK
<1>3. before'[r] = before[r] /\ before'[q] = before[q] /\ pc'[q] # "unsent"
    BY <1>1, SentKeeps DEF Basic
<1> QED
    BY <1>2, <1>3 DEF Met, Overlap

LEMMA FaultsStep == ASSUME Basic, FaultsMeet, [Next]_vars PROVE FaultsMeet'
<1> USE DEF Basic
<1>1. CASE UNCHANGED vars
    BY <1>1 DEF vars, tables, FaultsMeet, Met, Overlap, Exists
<1>2. ASSUME NEW t \in Request, Expire(t) PROVE FaultsMeet'
    BY <1>2 DEF Expire, FaultsMeet, Met, Overlap, Exists, TypeOK, ShapeOK, Shape
<1>3. ASSUME NEW r \in Request, Arrives(r) PROVE FaultsMeet'
  <2>1. Moves(r) /\ UNCHANGED tables
      BY <1>3 DEF Arrives
  <2>2. \A q \in Request \ {r} : pc'[q] = pc[q] /\ req'[q] = req[q]
      BY <2>1 DEF Moves, TypeOK
  <2>3. /\ pc'[r] \in Running \ {"insert"} => Exists(req'[r].user)
        /\ pc'[r] # "failed"
        /\ pc'[r] \in {"drop_expired", "write", "drop"} /\ req'[r].op \in UseOps
              => token[req'[r].token] # "none"
      BY <1>3 DEF Arrives, Admits, Running, Outcome, UseOps
  <2>4. \A q \in Request \ {r} : pc[q] # "unsent" /\ Met(q) => Met(q)'
      BY <2>1, MetStays
  <2> QED
      BY <2>1, <2>2, <2>3, <2>4 DEF FaultsMeet, tables, Exists, Running
<1>4. ASSUME NEW r \in Request, Continues(r) PROVE FaultsMeet'
  <2>1. Moves(r) /\ req' = req /\ pc[r] \in Running
      BY <1>4 DEF Continues, Flows
  <2>2. \A q \in Request : pc[q] # "unsent" /\ Met(q) => Met(q)'
      BY <2>1, MetStays
  <2>3. \A q \in Request \ {r} : pc[q] \in Running => Met(q)'
      BY <2>1, RunningMeet
  <2>4. ASSUME NEW q \in Request \ {r}
        PROVE  /\ pc'[q] \in Running \ {"insert"} /\ ~Exists(req[q].user)' => Met(q)'
               /\ pc'[q] \in {"drop_expired", "write", "drop"} => Met(q)'
               /\ pc'[q] = "failed" => req[q].group \/ Met(q)'
    <3>1. pc'[q] = pc[q]
        BY <2>1 DEF Moves, TypeOK
    <3> QED
        BY <2>2, <2>3, <3>1 DEF FaultsMeet, Running
  <2>5. pc[r] # "unsent"
      BY <2>1 DEF Running
  <2>6. pc'[r] \in Running \ {"insert"} /\ ~Exists(req[r].user)' => Met(r)'
    <3> SUFFICES ASSUME pc'[r] \in Running \ {"insert"}, user'[req[r].user] = None
                 PROVE  Met(r)'
        BY <2>1 DEF Exists
    <3>1. req[r].user \in Account
        BY <2>1 DEF ShapeOK, Shape, Running, Outcome
    <3>2. CASE pc[r] = "insert"
      <4>1. Inserts(r, r) /\ req[r].user = r /\ req[r].email \in Email
          BY <1>4, <3>2, <2>1 DEF Continues, Flows, Progress, ShapeOK, Shape, MailOps, Running
      <4> QED
          BY <4>1, RowIsNotNone DEF Inserts, UserRow, Password
    <3>3. CASE pc[r] # "insert" /\ ~Exists(req[r].user)
        BY <2>1, <2>2, <2>5, <3>3 DEF FaultsMeet
    <3>4. CASE Exists(req[r].user)
      <4>1. Deletes(r, req[r].user)
          BY <1>4, <3>1, <3>4, AccountStays
      <4> QED
          BY <4>1 DEF Deletes, Running
    <3> QED
        BY <3>2, <3>3, <3>4
  <2>7. pc'[r] \in {"drop_expired", "write", "drop"} /\ token'[req[r].token] = "none" => Met(r)'
      BY <1>4, <2>2, <2>5 DEF Continues, Flows, Progress, FaultsMeet
  <2>8. pc'[r] = "failed" => req[r].group \/ Met(r)'
    <3>1. pc[r] \in {"drop_expired", "drop"} => req[r].op \in UseOps
        BY DEF ShapeOK, Shape
    <3> QED
        BY <1>4, <2>1, <2>2, <2>5, <3>1 DEF Continues, Progress, FaultsMeet
  <2> QED
      BY <2>1, <2>4, <2>6, <2>7, <2>8 DEF FaultsMeet
<1> QED
    BY <1>1, <1>2, <1>3, <1>4, StepCases

\* No handler fails with a 500 by itself, but for a registration with a group id.
THEOREM FailsByOverlapAlways == Spec => []FailsByOverlap
<1>1. Init => FaultsMeet
    BY FirstFacts DEF FaultsMeet, Running
<1>2. Basic /\ FaultsMeet /\ [Next]_vars => FaultsMeet'
    BY FaultsStep
<1>3. FaultsMeet => FailsByOverlap
    BY DEF FaultsMeet, FailsByOverlap, Met
<1> QED
    BY BasicAlways, <1>1, <1>2, <1>3, PTL DEF Spec
=============================================================================
