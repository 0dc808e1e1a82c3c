---------------------------- MODULE Credentials -----------------------------
(***************************************************************************)
(* Accounts, passwords and e-mailed links: the handlers of AuthService and *)
(* UserService that write User and EmailToken, and EmailTokenService, one  *)
(* action per database statement; what a handler read may be stale when it *)
(* writes.  Mail is sent without being awaited, and may be read whenever.  *)
(*                                                                         *)
(* A request r runs one handler once.  What it inserts is named r: its     *)
(* account, its link, its session; and r is the password it sets.  A       *)
(* session here is one row of RefreshToken of a device of its own; module  *)
(* Sessions has the life of these rows.  Names of accounts, which are      *)
(* unique and checked as addresses are, are left out.                      *)
(***************************************************************************)
CONSTANTS
    Email,      \* addresses
    Request,    \* the requests ever sent
    First,      \* those of them, registrations, answered before the behaviour begins
    None,       \* no row, no address
    Ops         \* the operations clients use

Kinds   == {"VERIFY_EMAIL", "RESET_PASSWORD", "CHANGE_EMAIL"}
OpKinds == {"register", "login", "verify", "resend", "forgot", "reset", "changePassword",
            "requestChange", "confirm", "deleteAccount"}

ASSUME OpsAssumption  == Ops \subseteq OpKinds
ASSUME FirstAssumption == First \subseteq Request

Account  == Request   \* each named as its registration
Password == Request   \* each named as the request that sets it
UserRow  == [email : Email, pw : Password, verified : BOOLEAN]

ASSUME NoneAssumption == None \notin Email \cup Request \cup UserRow \cup OpKinds

VARIABLES
    user,       \* user[u]: the User row of account u, or None
    stocked,    \* the accounts whose default categories were created
    token,      \* token[r]: the EmailToken row request r inserted, or "none"
    mailed,     \* mailed[r]: the address that token was mailed to, or None
    session,    \* session[r]: the account of the session r opened, or None
    req,        \* req[r]: what request r asks for, and the account it is about
    pc,         \* pc[r]: the statement request r runs next, or its outcome
    before      \* history: requests answered when r was sent

tables == <<user, stocked, token, mailed, session>>
vars   == <<tables, req, pc, before>>

Blank   == [op |-> None, user |-> None, email |-> None, token |-> None, group |-> FALSE]
Call    == [op : OpKinds \cup {None}, user : Account \cup {None}, email : Email \cup {None},
            token : Request \cup {None}, group : BOOLEAN]
Running == {"insert", "categories", "clear", "create", "save", "write", "drop", "drop_expired",
            "purge"}
Outcome == {"done", "rejected", "conflict", "failed", "aborted"}

TypeOK ==
    /\ user \in [Account -> UserRow \cup {None}]
    /\ stocked \subseteq Account
    /\ token \in [Request -> {"none", "fresh", "expired"}]
    /\ mailed \in [Request -> Email \cup {None}]
    /\ session \in [Request -> Account \cup {None}]
    /\ req \in [Request -> Call]
    /\ pc \in [Request -> {"unsent"} \cup Running \cup Outcome]
    /\ before \in [Request -> SUBSET Request]
    /\ \A u, v \in Account :
          user[u] # None /\ user[v] # None /\ user[u].email = user[v].email => u = v
    /\ \A r \in Request : token[r] # "none" => user[req[r].user] # None
    /\ \A r \in Request : session[r] # None => user[session[r]] # None

Registration(r, a, group) ==
    [Blank EXCEPT !.op = "register", !.user = r, !.email = a, !.group = group]

Init ==
    \E f \in [First -> Email] :
        LET By(there, none) == [r \in Request |-> IF r \in First THEN there[r] ELSE none]
        IN  /\ \A u, v \in First : f[u] = f[v] => u = v
            /\ user = By([r \in First |-> [email |-> f[r], pw |-> r, verified |-> FALSE]], None)
            /\ stocked = First
            /\ token = By([r \in First |-> "fresh"], "none")
            /\ mailed = By(f, None)
            /\ session = By([r \in First |-> r], None)
            /\ req = By([r \in First |-> Registration(r, f[r], FALSE)], Blank)
            /\ pc = By([r \in First |-> "done"], "unsent")
            /\ before = [r \in Request |-> {}]

Exists(u)     == user[u] # None
HasEmail(u, a) == Exists(u) /\ user[u].email = a
Taken(a)      == \E u \in Account : HasEmail(u, a)
Answered(r)   == pc[r] \in Outcome
-----------------------------------------------------------------------------
\* Request r, unsent so far, reaches its handler, which checks and goes on to
\* next; what a refused request asked for is forgotten.
Ask(r, call, next) ==
    /\ call.op \in Ops
    /\ req' = [req EXCEPT ![r] = IF next \in Running THEN call ELSE Blank]
    /\ pc' = [pc EXCEPT ![r] = next]
    /\ before' = [before EXCEPT ![r] = {q \in Request : Answered(q)}]
    /\ UNCHANGED tables

Step(r, from, next) == /\ pc[r] = from
                       /\ pc' = [pc EXCEPT ![r] = next]
                       /\ UNCHANGED <<req, before>>
Stop(r, from, outcome) == Step(r, from, outcome) /\ UNCHANGED tables

SetUser(u, row) == user' = [user EXCEPT ![u] = row] /\ UNCHANGED <<stocked, token, mailed, session>>
-----------------------------------------------------------------------------
\* registration: the address is free ...
Register(r, a, group) ==
    Ask(r, Registration(r, a, group),
        IF Taken(a) THEN "conflict" ELSE "insert")

\* ... the account (the unique index has the last word) ...
RegisterInsert(r) ==
    \/ /\ Step(r, "insert", "categories") /\ ~Taken(req[r].email)
       /\ SetUser(r, [email |-> req[r].email, pw |-> r, verified |-> FALSE])
    \/ Stop(r, "insert", "conflict") /\ Taken(req[r].email)

\* Mutant of AfterCategories: registration does not wait for the categories.
AfterCategoriesAnyway(ok) == "clear"

\* ... its default categories, which a group id in the request spoils, since
\* categories have no such field ...
AfterCategories(ok) == IF ok THEN "clear" ELSE "failed"

RegisterCategories(r) ==
    LET ok == ~req[r].group /\ Exists(r)
    IN  /\ Step(r, "categories", AfterCategories(ok))
        /\ stocked' = IF ok THEN stocked \cup {r} ELSE stocked
        /\ UNCHANGED <<user, token, mailed, session>>

\* ... then a verification link, and a session.
SaveSession(r) ==
    \/ /\ Step(r, "save", "done") /\ Exists(req[r].user)
       /\ session' = [session EXCEPT ![r] = req[r].user]
       /\ UNCHANGED <<user, stocked, token, mailed>>
    \/ Stop(r, "save", "failed") /\ ~Exists(req[r].user)

\* Login and the requests for mail look the account up by its address, and go on
\* to next when there is one and it is among fits.
AskAt(r, op, a, fits, next, otherwise) ==
    \/ \E u \in fits : /\ HasEmail(u, a)
                      /\ Ask(r, [Blank EXCEPT !.op = op, !.user = u, !.email = a], next)
    \/ /\ \A u \in fits : ~HasEmail(u, a)
       /\ Ask(r, [Blank EXCEPT !.op = op], otherwise)

\* login: the password matches.
Login(r, a, p) ==
    AskAt(r, "login", a, {u \in Account : Exists(u) /\ user[u].pw = p}, "save", "rejected")
-----------------------------------------------------------------------------
\* resendVerification and forgotPassword answer alike for every address.
Resend(r, a) ==
    AskAt(r, "resend", a, {u \in Account : Exists(u) /\ ~user[u].verified}, "clear", "done")

Forgot(r, a) == AskAt(r, "forgot", a, Account, "clear", "done")

RequestChange(r, u, a) ==
    Ask(r, [Blank EXCEPT !.op = "requestChange", !.user = u, !.email = a],
        IF Taken(a) THEN "conflict" ELSE IF Exists(u) THEN "clear" ELSE "rejected")

\* createToken deletes the account's links of this kind ...
Kind(op) == CASE op \in {"register", "resend", "verify"} -> "VERIFY_EMAIL"
              [] op \in {"forgot", "reset"} -> "RESET_PASSWORD"
              [] OTHER -> "CHANGE_EMAIL"

\* Mutant of Older: nothing is deleted.
OlderKept(r) == {}

Older(r) == {q \in Request : req[q].user = req[r].user /\ Kind(req[q].op) = Kind(req[r].op)}

ClearTokens(r) ==
    /\ Step(r, "clear", "create")
    /\ token' = [q \in Request |-> IF q \in Older(r) THEN "none" ELSE token[q]]
    /\ UNCHANGED <<user, stocked, mailed, session>>

\* Mutant of Recipient: the address of the account.
RecipientOnFile(r) == user[req[r].user].email

\* ... and inserts one, which is mailed to the address the handler read or was
\* given; for a change of address, the new one.
Recipient(r) == req[r].email

CreateToken(r) ==
    \/ /\ Step(r, "create", IF req[r].op = "register" THEN "save" ELSE "done")
       /\ Exists(req[r].user)
       /\ token' = [token EXCEPT ![r] = "fresh"]
       /\ mailed' = [mailed EXCEPT ![r] = Recipient(r)]
       /\ UNCHANGED <<user, stocked, session>>
    \/ Stop(r, "create", "failed") /\ ~Exists(req[r].user)

\* 24 hours have passed, or one.
Expire(t) == /\ token[t] = "fresh"
             /\ token' = [token EXCEPT ![t] = "expired"]
             /\ UNCHANGED <<user, stocked, mailed, session, req, pc, before>>
-----------------------------------------------------------------------------
\* Mutant of Known: the link proves itself, the row is not looked up.
KnownBySignature(t, op) == mailed[t] # None /\ Kind(req[t].op) = Kind(op)

\* findValidToken: a link t of the right kind, not expired ...
Known(t, op) == token[t] # "none" /\ Kind(req[t].op) = Kind(op)

\* verifyEmail, resetPassword, confirmEmailChange; the last also refuses an
\* address in use.  The account and the new address are those of the link.
UseLink(r, op, t) ==
    LET call == [Blank EXCEPT !.op = op, !.user = req[t].user, !.token = t, !.email = req[t].email]
    IN  Ask(r, call, IF ~Known(t, op) THEN "rejected"
                     ELSE IF token[t] = "expired" THEN "drop_expired"
                     ELSE IF op = "confirm" /\ Taken(req[t].email) THEN "conflict" ELSE "write")

\* An expired link is deleted, and refused.
DropExpired(r) ==
    \/ /\ Step(r, "drop_expired", "rejected") /\ token[req[r].token] # "none"
       /\ token' = [token EXCEPT ![req[r].token] = "none"]
       /\ UNCHANGED <<user, stocked, mailed, session>>
    \/ Stop(r, "drop_expired", "failed") /\ token[req[r].token] = "none"

\* ... its effect on the account ...
UseWrite(r) ==
    LET u == req[r].user
        op == req[r].op
        a == req[r].email
        clash == op = "confirm" /\ \E v \in Account \ {u} : HasEmail(v, a)
    IN  /\ op \in {"verify", "reset", "confirm"}
        /\ \/ /\ Step(r, "write", "drop") /\ Exists(u) /\ ~clash
              /\ SetUser(u, CASE op = "verify" -> [user[u] EXCEPT !.verified = TRUE]
                              [] op = "reset" -> [user[u] EXCEPT !.pw = r]
                              [] op = "confirm" -> [user[u] EXCEPT !.email = a, !.verified = TRUE])
           \/ Stop(r, "write", "conflict") /\ Exists(u) /\ clash
           \/ Stop(r, "write", "failed") /\ ~Exists(u)

\* Mutant of CanDrop: deleteMany, which does not mind.
CanAlwaysDrop(t) == TRUE

\* ... the link is deleted, unless another request was faster, which is a 500 ...
CanDrop(t) == token[t] # "none"

DropToken(r) ==
    \/ /\ Step(r, "drop", IF req[r].op = "reset" THEN "purge" ELSE "done")
       /\ CanDrop(req[r].token)
       /\ token' = [token EXCEPT ![req[r].token] = "none"]
       /\ UNCHANGED <<user, stocked, mailed, session>>
    \/ Stop(r, "drop", "failed") /\ ~CanDrop(req[r].token)

\* Mutant of Ended: they go on.
EndedNone(r) == {}

\* ... and a reset ends the account's sessions, as deleteAccount does.
Ended(r) == {q \in Request : session[q] = req[r].user}

PurgeSessions(r) ==
    /\ Step(r, "purge", "done")
    /\ session' = [q \in Request |-> IF q \in Ended(r) THEN None ELSE session[q]]
    /\ UNCHANGED <<user, stocked, token, mailed>>
-----------------------------------------------------------------------------
\* changePassword: the current one matches, then the new one is stored.
ChangePassword(r, u, p) ==
    Ask(r, [Blank EXCEPT !.op = "changePassword", !.user = u],
        IF Exists(u) /\ user[u].pw = p THEN "write" ELSE "rejected")

ChangeWrite(r) ==
    LET u == req[r].user
    IN  /\ req[r].op = "changePassword"
        /\ \/ Step(r, "write", "done") /\ Exists(u) /\ SetUser(u, [user[u] EXCEPT !.pw = r])
           \/ Stop(r, "write", "failed") /\ ~Exists(u)

\* deleteAccount: the password matches, then the transaction.
DeleteAccount(r, u, p) ==
    Ask(r, [Blank EXCEPT !.op = "deleteAccount", !.user = u],
        IF Exists(u) /\ user[u].pw = p THEN "write" ELSE "rejected")

DeleteWrite(r) ==
    LET u == req[r].user
    IN  /\ req[r].op = "deleteAccount"
        /\ \/ /\ Step(r, "write", "done") /\ Exists(u)
              /\ user' = [user EXCEPT ![u] = None]
              /\ stocked' = stocked \ {u}
              /\ token' = [q \in Request |-> IF req[q].user = u THEN "none" ELSE token[q]]
              /\ session' = [q \in Request |-> IF q \in Ended(r) THEN None ELSE session[q]]
              /\ UNCHANGED mailed
           \/ Stop(r, "write", "failed") /\ ~Exists(u)
-----------------------------------------------------------------------------
\* The process stops, or loses the database, between two statements of r.
Abort(r) == \E from \in Running : Stop(r, from, "aborted")

Arrive(r) ==
    /\ pc[r] = "unsent"
    /\ \/ \E a \in Email : \/ \E group \in BOOLEAN : Register(r, a, group)
                           \/ \E p \in Password : Login(r, a, p)
                           \/ Resend(r, a) \/ Forgot(r, a)
                           \/ \E u \in Account : RequestChange(r, u, a)
       \/ \E u \in Account, p \in Password : ChangePassword(r, u, p) \/ DeleteAccount(r, u, p)
       \/ \E t \in Request, op \in {"verify", "reset", "confirm"} : UseLink(r, op, t)

Continue(r) ==
    \/ RegisterInsert(r) \/ RegisterCategories(r) \/ SaveSession(r) \/ ClearTokens(r)
    \/ CreateToken(r) \/ DropExpired(r) \/ UseWrite(r) \/ DropToken(r) \/ PurgeSessions(r)
    \/ ChangeWrite(r) \/ DeleteWrite(r) \/ Abort(r)

Next == \/ \E r \in Request : Arrive(r) \/ Continue(r)
        \/ \E t \in Request : Expire(t)

Spec == Init /\ [][Next]_vars
-----------------------------------------------------------------------------
\* q and r ran at the same time.
Overlap(q, r) == q # r /\ pc[q] # "unsent" /\ q \notin before[r] /\ r \notin before[q]

\* deleteToken: a link may take effect twice, but only one request that used
\* it succeeds.
TokenSucceedsOnce == \A q, r \in Request :
    pc[q] = "done" /\ pc[r] = "done" /\ req[q].token # None /\ req[q].token = req[r].token => q = r

SameKind(q, r) == req[q].user = req[r].user /\ Kind(req[q].op) = Kind(req[r].op)

\* createToken: an account has two links of one kind only if the requests that
\* made them ran at the same time.
TwoTokensByOverlap == \A q, r \in Request :
    q # r /\ token[q] # "none" /\ token[r] # "none" /\ SameKind(q, r) => Overlap(q, r)

\* An account counts as verified only under an address that a link was mailed
\* to and used, through any mix of verifications and changes of address.
VerifiedEmailWasProven == \A u \in Account :
    Exists(u) /\ user[u].verified => \E r \in Request :
        /\ req[r].op \in {"verify", "confirm"} /\ req[r].user = u
        /\ mailed[req[r].token] = user[u].email

\* resetPassword: a reset that answers well has ended the session of every login
\* answered before it was sent, whatever runs with it.
ResetEndsSessions == \A r \in Request :
    pc[r] = "done" /\ req[r].op = "reset" => \A q \in before[r] : session[q] # req[r].user

\* registration: an account without its default categories belongs to a
\* registration that was told so (500), was cut off, or still runs.
IncompleteByFault == \A u \in Account :
    Exists(u) /\ u \notin stocked => pc[u] # "done"

\* A request fails with a 500 only if another one ran at the same time, or if
\* it is a registration with a group id.
FailsByOverlap == \A r \in Request :
    pc[r] = "failed" => req[r].group \/ \E q \in Request : Overlap(q, r)

\* For a violation run: the "user group id" of a registration is optional, so
\* one that has it and meets no other request succeeds as well.
RegistrationTakesGroup == \A r \in Request :
    req[r].op = "register" /\ pc[r] = "failed" => \E q \in Request : Overlap(q, r)
=============================================================================
