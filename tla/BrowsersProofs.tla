--------------------------- MODULE BrowsersProofs ---------------------------
(***************************************************************************)
(* Theorems about Browsers, for every set of accounts, browsers and        *)
(* requests.  A step of Browsers is a step of Sessions or leaves its state *)
(* alone, so what SessionsProofs establishes of every step is used here.   *)
(***************************************************************************)
EXTENDS Browsers, SessionsProofs

-----------------------------------------------------------------------------
BrowserTypeOK == /\ jar \in [Device -> Request \cup {None}]
                 /\ received \subseteq Request
                 /\ seen \in [Request -> SUBSET Request]

\* Answers are received after they are given; an answer received before r was
\* sent had been given before r was sent.
SeenOK == /\ \A q \in received : Answered(q) /\ pc[q] # "lost"
          /\ \A r \in Request : seen[r] \subseteq received /\ seen[r] \subseteq before[r]

\* A request comes from the browser whose device it names, and shows a token
\* that this browser had received.
Origin(r) == /\ req[r].op # "reset" => Client(r) \in Device
             /\ req[r].op \in Minting => req[r].device = Client(r)
             /\ req[r].op \notin {"register", "login", "reset"} => req[r].shown \in seen[r]
             /\ req[r].op = "reset" => req[r].shown = None

OriginOK == \A r \in Request : pc[r] # "unsent" => Origin(r)

\* Cookies are those of an answer this browser received.
JarOK == \A d \in Device : jar[d] # None =>
            jar[d] \in received /\ Holds(jar[d]) /\ Client(jar[d]) = d

Shared == Basic /\ RowsHaveOwners /\ BrowserTypeOK /\ SeenOK /\ OriginOK /\ JarOK

LEMMA SharedInit == BrowsersInit => Shared
BY BasicInit, OwnersInit
   DEF BrowsersInit, Shared, BrowserTypeOK, SeenOK, OriginOK, JarOK, Init
-----------------------------------------------------------------------------
\* The effects of a step on what was sent already, and on what was received.
Keeping == /\ received \subseteq received'
           /\ \A q \in Request : pc[q] # "unsent" =>
                 /\ pc'[q] # "unsent" /\ (Answered(q) => pc'[q] = pc[q])
                 /\ req'[q] = req[q] /\ before'[q] = before[q] /\ seen'[q] = seen[q]

\* What a request is sent with: the cookies of one browser, or none.
Starts(r) ==
    /\ pc[r] = "unsent"
    /\ jar' = jar /\ received' = received /\ seen' = [seen EXCEPT ![r] = received]
    /\ req'[r].op # "reset" => \E d \in Device :
          /\ req'[r].op \in Minting => req'[r].device = d
          /\ \/ req'[r].op \in {"register", "login"} /\ req'[r].device = d
             \/ /\ req'[r].op \notin {"register", "login"}
                /\ jar[d] # None /\ req'[r].shown = jar[d]
    /\ req'[r].op = "reset" => req'[r].shown = None
    /\ pc'[r] # "revoked"
    /\ pc'[r] = "refresh_revoke" =>
          /\ req'[r].op = "refresh" /\ slot' = slot
          /\ slot[KeyOf(req'[r].shown)] \notin {None, req'[r].shown}

\* The cookies of a browser are of a request of its device.
LEMMA CookiesAre ==
  ASSUME Shared, NEW d \in Device, jar[d] # None
  PROVE  jar[d] \in Request /\ pc[jar[d]] = "done" /\ req[jar[d]].op \in Minting
         /\ req[jar[d]].device = d
BY DEF Shared, BrowserTypeOK, JarOK, Holds, OriginOK, Origin

LEMMA AskStarts ==
  ASSUME Shared, NEW r \in Request, Ask(r)
  PROVE  Arrive(r) /\ Starts(r)
<1> USE DEF Starts, Send, Minting
<1>1. /\ pc[r] = "unsent" /\ jar' = jar /\ received' = received
      /\ seen' = [seen EXCEPT ![r] = received]
  BY DEF Ask
<1>t. pc \in [Request -> {"unsent"} \cup Running \cup Answer] /\ req \in [Request -> Call]
  BY DEF Shared, Basic, TypeOK
<1>2. ASSUME NEW d \in Device, WithCookies(r, jar[d]) PROVE Arrive(r) /\ Starts(r)
  <2> DEFINE t == jar[d]
  <2>1. /\ t \in Request /\ t # None /\ pc[t] = "done" /\ req[t].op \in Minting
        /\ req[t].device = d
    BY <1>2, CookiesAre DEF WithCookies
  <2>n. t = jar[d]
    OBVIOUS
  <2>w. \/ Refresh(r, t) \/ Profile(r, t) \/ Logout(r, t) \/ DeleteAccount(r, t)
        \/ \E e \in Device : Revoke(r, t, e)
    BY <1>2 DEF WithCookies
  <2>a. Arrive(r)
    BY <1>1, <2>1, <2>w DEF Arrive
  <2> HIDE DEF t
  <2>2. CASE Refresh(r, t)
    BY <1>1, <1>t, <2>1, <2>2, <2>a, <2>n DEF Refresh, KeyOf
  <2>3. CASE Profile(r, t)
    BY <1>1, <1>t, <2>1, <2>3, <2>a, <2>n DEF Profile
  <2>4. CASE Logout(r, t)
    BY <1>1, <1>t, <2>1, <2>4, <2>a, <2>n DEF Logout
  <2>5. CASE DeleteAccount(r, t)
    BY <1>1, <1>t, <2>1, <2>5, <2>a, <2>n DEF DeleteAccount
  <2>6. ASSUME NEW e \in Device, Revoke(r, t, e) PROVE Arrive(r) /\ Starts(r)
    BY <1>1, <1>t, <2>1, <2>6, <2>a, <2>n DEF Revoke
  <2>7. QED
    BY <2>w, <2>2, <2>3, <2>4, <2>5, <2>6
<1>3. ASSUME NEW u \in User, NEW d \in Device, Register(r, u, d) \/ Login(r, u, d)
      PROVE  Arrive(r) /\ Starts(r)
  <2>1. Arrive(r)
    BY <1>1, <1>3 DEF Arrive
  <2>2. CASE Register(r, u, d)
    BY <1>1, <1>t, <2>1, <2>2 DEF Register
  <2>3. CASE Login(r, u, d)
    BY <1>1, <1>t, <2>1, <2>3 DEF Login
  <2>4. QED
    BY <1>3, <2>2, <2>3
<1>4. ASSUME NEW u \in User, Reset(r, u) PROVE Arrive(r) /\ Starts(r)
  <2>1. Arrive(r)
    BY <1>1, <1>4 DEF Arrive
  <2>2. QED
    BY <1>1, <1>t, <1>4, <2>1 DEF Reset
<1>5. QED
  BY <1>2, <1>3, <1>4 DEF Ask

\* A session is revoked by the refresh that found another token in its row.
LEMMA ServeKeeps ==
  ASSUME Shared, NEW r \in Request, Continue(r) \/ Abort(r)
  PROVE  /\ pc[r] # "unsent" /\ pc'[r] # "refresh_revoke"
         /\ pc'[r] = "revoked" => pc[r] = "refresh_revoke"
<1>1. pc \in [Request -> {"unsent"} \cup Running \cup Answer]
  BY DEF Shared, Basic, TypeOK
<1>2. \A from, next : Goto(r, from, next) => pc[r] = from /\ pc'[r] = next
  BY <1>1 DEF Goto
<1>3. CASE Abort(r)
  BY <1>2, <1>3 DEF Abort, Running
<1>4. CASE Continue(r)
  BY <1>2, <1>4 DEF Continue, LoginFind, LoginDelete, RefreshDelete, RefreshRevoke,
     ProfileUpdate, ProfileDelete, Save, ResetPurge, DeleteCommit
<1>5. QED
  BY <1>3, <1>4
-----------------------------------------------------------------------------
\* Every step is one of Sessions, and keeps what is settled.
LEMMA StepKeeps ==
  ASSUME Shared, [BrowsersNext]_browserVars
  PROVE  [Next]_vars /\ Keeping
<1> USE DEF Keeping
<1>t. /\ received \subseteq Request /\ seen \in [Request -> SUBSET Request]
      /\ TypeOK /\ ShapeOK
  BY DEF Shared, BrowserTypeOK, Basic
<1>1. CASE UNCHANGED browserVars
  BY <1>1 DEF browserVars, vars, Answered
<1>2. ASSUME NEW r \in Request, Ask(r) PROVE [Next]_vars /\ Keeping
  <2>1. Arrive(r) /\ Starts(r)
    BY <1>2, AskStarts
  <2>2. Effects(r)
    BY <1>t, <2>1, StepEffects
  <2>3. Keeping
    BY <1>t, <2>1, <2>2 DEF Starts, Effects, Moves
  <2>4. QED
    BY <2>1, <2>3 DEF Next
<1>3. ASSUME NEW r \in Request, Serve(r) PROVE [Next]_vars /\ Keeping
  <2>1. Continue(r) \/ Abort(r)
    BY <1>3 DEF Serve
  <2>2. Effects(r) /\ pc[r] # "unsent"
    BY <1>t, <2>1, StepEffects, ServeKeeps
  <2>3. Keeping
    BY <1>t, <1>3, <2>2 DEF Serve, Effects, Moves
  <2>4. QED
    BY <2>1, <2>3 DEF Next
<1>4. ASSUME NEW r \in Request, Receive(r) PROVE [Next]_vars /\ Keeping
  BY <1>4 DEF Receive, vars, Answered
<1>5. QED
  BY <1>1, <1>2, <1>3, <1>4 DEF BrowsersNext

\* The browser that sent a request stays what it was.
LEMMA ClientStays ==
  ASSUME Shared, Keeping, NEW q \in Request, pc[q] # "unsent"
  PROVE  Client(q)' = Client(q)
<1>1. req'[q] = req[q] /\ Origin(q) /\ req[q].shown \in Request \cup {None}
  BY DEF Keeping, Shared, OriginOK, Basic, TypeOK, Call
<1>2. CASE req[q].op \in {"register", "login", "reset"}
  BY <1>1, <1>2 DEF Origin, Client
<1>3. CASE req[q].op \notin {"register", "login", "reset"}
  <2>1. req[q].shown \in Request /\ pc[req[q].shown] # "unsent"
    BY <1>1, <1>3 DEF Origin, Shared, BrowserTypeOK, SeenOK, Answered, Answer
  <2>2. req'[req[q].shown] = req[req[q].shown]
    BY <2>1 DEF Keeping
  <2>3. QED
    BY <1>1, <2>1, <2>2 DEF Client
<1>4. QED
  BY <1>2, <1>3

LEMMA OriginStays ==
  ASSUME Shared, Keeping, NEW q \in Request, pc[q] # "unsent"
  PROVE  Origin(q)'
<1>1. Origin(q) /\ req'[q] = req[q] /\ seen'[q] = seen[q]
  BY DEF Shared, OriginOK, Keeping
<1>2. Client(q)' = Client(q)
  BY ClientStays
<1>3. QED
  BY <1>1, <1>2 DEF Origin

\* Asking: the request comes from the browser whose cookies it shows.
LEMMA OriginStarts ==
  ASSUME Shared, Keeping, NEW r \in Request, Starts(r), Shape(r)'
  PROVE  Origin(r)'
<1>0. /\ pc[r] = "unsent" /\ seen' = [seen EXCEPT ![r] = received]
      /\ seen \in [Request -> SUBSET Request]
  BY DEF Starts, Shared, BrowserTypeOK
<1>1. CASE req'[r].op = "reset"
  BY <1>1 DEF Starts, Origin, Minting
<1>2. ASSUME NEW d \in Device,
             req'[r].op \in Minting => req'[r].device = d,
             req'[r].op # "reset",
             \/ req'[r].op \in {"register", "login"} /\ req'[r].device = d
             \/ /\ req'[r].op \notin {"register", "login"}
                /\ jar[d] # None /\ req'[r].shown = jar[d]
      PROVE  Origin(r)'
  <2>1. CASE req'[r].op \in {"register", "login"}
    BY <1>2, <2>1 DEF Origin, Client
  <2>2. CASE req'[r].op \notin {"register", "login"}
    <3>1. jar[d] \in Request /\ pc[jar[d]] = "done" /\ req[jar[d]].device = d
      BY <1>2, <2>2, CookiesAre
    <3>2. req'[jar[d]] = req[jar[d]] /\ jar[d] \in received /\ jar[d] # None
      BY <1>2, <2>2, <3>1 DEF Keeping, Shared, JarOK
    <3>3. Client(r)' = d
      BY <1>2, <2>2, <3>1, <3>2 DEF Client
    <3>4. QED
      BY <1>0, <1>2, <2>2, <3>2, <3>3 DEF Origin
  <2>3. QED
    BY <2>1, <2>2
<1>3. QED
  BY <1>1, <1>2 DEF Starts

\* What the browsers know agrees with what the server did, at every moment.
LEMMA SharedStep == Shared /\ [BrowsersNext]_browserVars => Shared'
<1> SUFFICES ASSUME Shared, [BrowsersNext]_browserVars PROVE Shared'
  OBVIOUS
<1>1. [Next]_vars /\ Keeping
  BY StepKeeps
<1>2. Basic' /\ RowsHaveOwners'
  BY <1>1, BasicStep, OwnersStep DEF Shared
<1>t. /\ received \subseteq Request /\ seen \in [Request -> SUBSET Request]
      /\ jar \in [Device -> Request \cup {None}]
      /\ TypeOK /\ ShapeOK /\ BeforeOK /\ SeenOK /\ JarOK
  BY DEF Shared, BrowserTypeOK, Basic
\* Cookies that do not change are good for what they were.
<1>3. ASSUME NEW d \in Device, jar'[d] = jar[d], jar[d] # None
      PROVE  (jar[d] \in received /\ Holds(jar[d]) /\ Client(jar[d]) = d)'
  <2>1. jar[d] \in received /\ Holds(jar[d]) /\ Client(jar[d]) = d /\ jar[d] \in Request
    BY <1>3, <1>t DEF JarOK
  <2>2. Answered(jar[d]) /\ pc[jar[d]] # "unsent"
    BY <2>1, <1>t DEF SeenOK, Answered, Answer
  <2>3. (Client(jar[d]) = d)'
    BY <1>1, <1>3, <2>1, <2>2, ClientStays DEF Client
  <2>4. QED
    BY <1>1, <1>3, <2>1, <2>2, <2>3 DEF Keeping, Holds
<1>4. CASE UNCHANGED browserVars
  BY <1>2, <1>4 DEF Shared, browserVars, vars, BrowserTypeOK, SeenOK, OriginOK, Origin, JarOK,
     Client, Holds, Answered
<1>5. ASSUME NEW r \in Request, Ask(r) PROVE Shared'
  <2>1. Arrive(r) /\ Starts(r)
    BY <1>5, AskStarts
  <2>2. Effects(r) /\ Shape(r)'
    BY <1>t, <2>1, StepEffects DEF Effects
  <2>3. BrowserTypeOK'
    BY <1>t, <2>1 DEF Starts, BrowserTypeOK
  <2>4. SeenOK'
    BY <1>t, <1>1, <2>1, <2>2 DEF Starts, SeenOK, Effects, Moves, Answered, Answer, Keeping
  <2>5. OriginOK'
    BY <1>1, <2>1, <2>2, OriginStays, OriginStarts DEF OriginOK, Effects, Moves
  <2>6. JarOK'
    BY <1>3, <2>1 DEF Starts, JarOK
  <2>7. QED
    BY <1>2, <2>3, <2>4, <2>5, <2>6 DEF Shared
<1>6. ASSUME NEW r \in Request, Serve(r) PROVE Shared'
  <2>1. Continue(r) \/ Abort(r)
    BY <1>6 DEF Serve
  <2>2. Effects(r) /\ pc[r] # "unsent" /\ UNCHANGED <<jar, received, seen>>
    BY <1>t, <1>6, <2>1, StepEffects, ServeKeeps DEF Serve
  <2>3. BrowserTypeOK'
    BY <1>t, <2>2 DEF BrowserTypeOK
  <2>4. SeenOK'
    BY <1>t, <2>2 DEF SeenOK, Effects, Moves, Answered, Answer
  <2>5. OriginOK'
    BY <1>1, <2>2, OriginStays DEF OriginOK, Effects, Moves
  <2>6. JarOK'
    BY <1>3, <2>2 DEF JarOK
  <2>7. QED
    BY <1>2, <2>3, <2>4, <2>5, <2>6 DEF Shared
<1>7. ASSUME NEW r \in Request, Receive(r) PROVE Shared'
  <2>1. /\ Answered(r) /\ pc[r] # "lost" /\ received' = received \cup {r}
        /\ UNCHANGED <<vars, seen>>
        /\ jar' = [d \in Device |-> IF d = Client(r) /\ SetsCookies(r) THEN r
                                    ELSE IF d = Client(r) /\ ClearsCookies(r) THEN None
                                    ELSE jar[d]]
    BY <1>7 DEF Receive
  <2>2. BrowserTypeOK'
    BY <1>t, <2>1 DEF BrowserTypeOK
  <2>3. SeenOK'
    BY <1>t, <2>1 DEF SeenOK, vars, Answered
  <2>4. OriginOK'
    BY <1>1, <2>1, OriginStays DEF OriginOK, vars
  <2>5. JarOK'
    <3> SUFFICES ASSUME NEW d \in Device, jar'[d] # None
                 PROVE  (jar[d] \in received /\ Holds(jar[d]) /\ Client(jar[d]) = d)'
      BY DEF JarOK
    <3>1. CASE d = Client(r) /\ SetsCookies(r)
      BY <2>1, <3>1 DEF SetsCookies, Holds, vars, Client
    <3>2. CASE ~(d = Client(r) /\ SetsCookies(r))
      BY <1>3, <2>1, <3>2
    <3>3. QED
      BY <3>1, <3>2
  <2>6. QED
    BY <1>2, <2>2, <2>3, <2>4, <2>5 DEF Shared
<1>8. QED
  BY <1>4, <1>5, <1>6, <1>7 DEF BrowsersNext

\* The server does not notice the browsers: what they and it do together is a
\* behaviour of the handlers, of which everything in SessionsProofs holds.
THEOREM ImplementsSessions == BrowsersSpec => Spec
<1>1. BrowsersInit => Init
  BY DEF BrowsersInit
<1>2. Shared /\ [BrowsersNext]_browserVars => [Next]_vars
  BY StepKeeps
<1>3. QED
  BY SharedInit, SharedStep, <1>1, <1>2, PTL DEF BrowsersSpec, Spec
-----------------------------------------------------------------------------
\* Cookies that were received.

\* Cookies were set by a request sent no earlier than any answer that has
\* changed those of this browser: an old answer never brings them back.
LatestCookies ==
    \A q \in received : (SetsCookies(q) \/ ClearsCookies(q)) =>
        LET t == jar[Client(q)] IN t \notin {None, q} => t \notin seen[q]

CookieInv == Shared /\ LatestCookies

LEMMA CookieInit == BrowsersInit => CookieInv
BY SharedInit DEF BrowsersInit, CookieInv, LatestCookies

\* An answer that changes cookies is that of a request with a browser.
LEMMA CookiesHaveClient ==
  ASSUME Shared, NEW q \in Request, SetsCookies(q) \/ ClearsCookies(q)
  PROVE  Client(q) \in Device /\ pc[q] # "unsent"
BY DEF Shared, SetsCookies, ClearsCookies, Minting, OriginOK, Origin

LEMMA CookieStep == CookieInv /\ [BrowsersNext]_browserVars => CookieInv'
<1> SUFFICES ASSUME CookieInv, [BrowsersNext]_browserVars PROVE CookieInv'
  OBVIOUS
<1>0. Shared /\ LatestCookies /\ Shared'
  BY SharedStep DEF CookieInv
<1>1. Keeping
  BY <1>0, StepKeeps
<1>t. /\ received \subseteq Request /\ jar \in [Device -> Request \cup {None}]
      /\ \A q \in Request : seen[q] \subseteq received
  BY <1>0 DEF Shared, BrowserTypeOK, SeenOK
\* An answer received before changes cookies as it did.
<1>2. ASSUME NEW q \in received, (SetsCookies(q) \/ ClearsCookies(q))'
      PROVE  /\ SetsCookies(q) \/ ClearsCookies(q)
             /\ Client(q) \in Device /\ Client(q)' = Client(q) /\ seen'[q] = seen[q]
  <2>1. q \in Request /\ Answered(q) /\ pc[q] # "unsent"
    BY <1>0, <1>t DEF Shared, SeenOK, Answered, Answer
  <2>2. pc'[q] = pc[q] /\ req'[q] = req[q] /\ seen'[q] = seen[q]
    BY <1>1, <2>1 DEF Keeping
  <2>3. SetsCookies(q) \/ ClearsCookies(q)
    BY <1>2, <2>2 DEF SetsCookies, ClearsCookies
  <2>4. QED
    BY <1>0, <1>1, <2>1, <2>2, <2>3, ClientStays, CookiesHaveClient
<1>3. CASE jar' = jar /\ received' = received
  <2>1. LatestCookies'
    BY <1>0, <1>2, <1>3 DEF LatestCookies
  <2>2. QED
    BY <1>0, <2>1 DEF CookieInv
<1>4. ASSUME NEW r \in Request, Receive(r) PROVE CookieInv'
  <2>1. /\ r \notin received /\ received' = received \cup {r} /\ seen' = seen
        /\ UNCHANGED vars
        /\ jar' = [d \in Device |-> IF d = Client(r) /\ SetsCookies(r) THEN r
                                    ELSE IF d = Client(r) /\ ClearsCookies(r) THEN None
                                    ELSE jar[d]]
    BY <1>4 DEF Receive
  <2>2. Client(r)' = Client(r) /\ SetsCookies(r)' = SetsCookies(r)
        /\ ClearsCookies(r)' = ClearsCookies(r)
    BY <2>1 DEF Client, SetsCookies, ClearsCookies, vars
  <2>3. ASSUME NEW q \in received', (SetsCookies(q) \/ ClearsCookies(q))',
               jar'[Client(q)'] \notin {None, q}
        PROVE  jar'[Client(q)'] \notin seen'[q]
    <3>1. CASE q = r
      <4>1. Client(r) \in Device
        BY <1>0, <2>2, <2>3, <3>1, CookiesHaveClient
      <4>2. jar'[Client(r)] \in {r, None}
        BY <2>1, <2>2, <2>3, <3>1, <4>1
      <4>3. QED
        BY <2>2, <2>3, <3>1, <4>2
    <3>2. CASE q # r
      <4>1. /\ q \in received /\ (SetsCookies(q) \/ ClearsCookies(q))
            /\ Client(q) \in Device /\ Client(q)' = Client(q)
        BY <1>2, <2>1, <2>3, <3>2
      <4>2. jar'[Client(q)] \in {r, None, jar[Client(q)]}
        BY <2>1, <4>1
      <4>3. r \notin seen[q]
        BY <1>t, <2>1, <4>1
      <4>4. jar[Client(q)] \notin {None, q} => jar[Client(q)] \notin seen[q]
        BY <1>0, <1>2, <2>1, <2>3, <3>2 DEF LatestCookies
      <4>5. QED
        BY <2>1, <2>3, <4>1, <4>2, <4>3, <4>4
    <3>3. QED
      BY <3>1, <3>2
  <2>4. LatestCookies'
    BY <2>3 DEF LatestCookies
  <2>5. QED
    BY <1>0, <2>4 DEF CookieInv
<1>5. CASE UNCHANGED browserVars
  BY <1>3, <1>5 DEF browserVars
<1>6. ASSUME NEW r \in Request, Ask(r) \/ Serve(r) PROVE CookieInv'
  BY <1>3, <1>6 DEF Ask, Serve
<1>7. QED
  BY <1>4, <1>5, <1>6 DEF BrowsersNext

\* After the answer of a logout or of an account's deletion, cookies come only
\* from requests sent later, or that crossed it.
THEOREM GoneAfterLogoutAlways == BrowsersSpec => []GoneAfterLogout
<1>1. CookieInv => GoneAfterLogout
  <2> SUFFICES ASSUME CookieInv,
                      NEW q \in received, req[q].op \in {"logout", "deleteAccount"},
                      pc[q] = "done", jar[Client(q)] # None, q \notin seen[jar[Client(q)]]
               PROVE  Crossed(Client(q), q, jar[Client(q)])
    BY DEF GoneAfterLogout
  <2> DEFINE t == jar[Client(q)]
  <2>1. Shared /\ ClearsCookies(q)
    BY DEF CookieInv, ClearsCookies
  <2>2. Client(q) \in Device /\ pc[q] # "unsent" /\ q \in Request
    BY <2>1, CookiesHaveClient DEF Shared, BrowserTypeOK
  <2>3. Holds(t) /\ Client(t) = Client(q)
    BY <2>1, <2>2 DEF Shared, JarOK
  <2>4. t # q /\ pc[t] # "unsent"
    BY <2>3 DEF Holds, Minting
  <2>5. t \notin seen[q]
    BY <2>1, <2>4 DEF CookieInv, LatestCookies
  <2>6. QED
    BY <2>2, <2>3, <2>4, <2>5 DEF Crossed
<1>2. QED
  BY CookieInit, CookieStep, <1>1, PTL DEF BrowsersSpec
-----------------------------------------------------------------------------
\* A browser that asks one thing at a time.

\* A row that took the place of one stored by t was stored by a request that
\* had not been answered when t was sent.
LatestRow ==
    \A t \in Request :
        Saved(t) /\ slot[KeyOf(t)] \notin {None, t} => slot[KeyOf(t)] \notin before[t]

LEMMA RowStep == Basic /\ LatestRow /\ [Next]_vars => LatestRow'
<1> SUFFICES ASSUME Basic, LatestRow, [Next]_vars PROVE LatestRow'
  OBVIOUS
<1>t. TypeOK /\ ShapeOK /\ BeforeOK
  BY DEF Basic
<1>1. CASE UNCHANGED vars
  BY <1>1 DEF LatestRow, vars, Saved, KeyOf
<1>2. CASE Next
  <2>1. PICK r \in Request : Arrive(r) \/ Continue(r) \/ Abort(r)
    BY <1>2 DEF Next
  <2>2. Effects(r)
    BY <1>t, <2>1, StepEffects
  <2> SUFFICES ASSUME NEW t \in Request, Saved(t)', slot'[KeyOf(t)'] \notin {None, t}
               PROVE  slot'[KeyOf(t)'] \notin before'[t]
    BY DEF LatestRow
  <2>3. CASE t = r
    <3>1. Opens(r) /\ req'[r] = req[r] /\ KeyOf(r) \in Key
      BY <1>t, <2>2, <2>3 DEF Effects, Shrinks, Opens, Moves, ShapeOK, Shape, KeyOf, Key
    <3>2. slot'[KeyOf(r)'] = r
      BY <1>t, <3>1 DEF Opens, KeyOf, TypeOK
    <3>3. QED
      BY <2>3, <3>2
  <2>4. CASE t # r
    <3>1. pc'[t] = pc[t] /\ req'[t] = req[t] /\ before'[t] = before[t]
      BY <2>2, <2>4 DEF Effects, Moves
    <3>2. Saved(t) /\ KeyOf(t)' = KeyOf(t)
      BY <3>1 DEF Saved, KeyOf
    <3>3. KeyOf(t) \in Key
      BY <1>t, <3>2 DEF Saved, ShapeOK, Shape, KeyOf, Key
    <3>4. slot'[KeyOf(t)] \in {slot[KeyOf(t)], None, r}
      BY <1>t, <2>2, <3>3 DEF Effects, Opens, Shrinks, TypeOK
    <3>5. r \notin before[t]
      BY <1>t, <2>2 DEF Effects, Moves, BeforeOK
    <3>6. QED
      BY <3>1, <3>2, <3>4, <3>5 DEF LatestRow
  <2>5. QED
    BY <2>3, <2>4
<1>3. QED
  BY <1>1, <1>2

\* A token taken for a stolen one was shown by a browser with two requests on
\* their way at once.
Alarmed ==
    \A r \in Request : pc[r] \in {"refresh_revoke", "revoked"} => ~OneAtATime(Client(r))

AloneInv == CookieInv /\ LatestRow /\ Alarmed

LEMMA AloneInit == BrowsersInit => AloneInv
BY CookieInit DEF BrowsersInit, AloneInv, LatestRow, Alarmed, Init, Saved

\* The row of the cookies' session was stored for this browser.
LEMMA RowIsClients ==
  ASSUME Shared, NEW d \in Device, jar[d] # None, slot[KeyOf(jar[d])] # None
  PROVE  LET s == slot[KeyOf(jar[d])]
         IN  s \in Request /\ Saved(s) /\ Client(s) = d /\ pc[s] # "unsent"
<1> DEFINE t == jar[d]
           s == slot[KeyOf(t)]
<1>1. /\ t \in Request /\ req[t].op \in Minting /\ req[t].device = d
      /\ KeyOf(t) \in Key
  BY CookiesAre DEF Shared, Basic, ShapeOK, Shape, KeyOf, Key
<1>2. s \in Request /\ Saved(s) /\ KeyOf(s) = KeyOf(t)
  BY <1>1 DEF Shared, Basic, TypeOK, RowsHaveOwners
<1>3. pc[s] # "unsent" /\ req[s].op \in Minting /\ req[s].device = d
  BY <1>1, <1>2 DEF Saved, KeyOf
<1>4. QED
  BY <1>2, <1>3 DEF Shared, OriginOK, Origin

\* Cookies whose row holds another token, stored by an answer that this browser
\* has received: one of the two requests crossed the other.
LEMMA OtherRowCrossed ==
  ASSUME CookieInv, LatestRow, NEW d \in Device, jar[d] # None,
         slot[KeyOf(jar[d])] \in received, slot[KeyOf(jar[d])] # jar[d]
  PROVE  Crossed(d, slot[KeyOf(jar[d])], jar[d])
<1> DEFINE t == jar[d]
           s == slot[KeyOf(t)]
<1>0. Shared /\ LatestCookies /\ s # None
  BY NoneAssumption DEF CookieInv, Shared, BrowserTypeOK
<1>1. t \in Request /\ Holds(t) /\ Client(t) = d /\ pc[t] # "unsent"
  BY <1>0, CookiesAre DEF Shared, JarOK, Holds
<1>2. s \in Request /\ Saved(s) /\ Client(s) = d /\ pc[s] # "unsent"
  BY <1>0, RowIsClients
<1>3. pc[s] = "done" /\ req[s].op \in Minting
  BY <1>0, <1>2 DEF Saved, Shared, SeenOK
<1>4. s \notin before[t]
  BY <1>0, <1>1, <1>2 DEF LatestRow, Saved, Holds
<1>5. s \notin seen[t]
  BY <1>0, <1>1, <1>4 DEF Shared, SeenOK
<1>6. t \notin seen[s]
  BY <1>0, <1>1, <1>2, <1>3 DEF LatestCookies, SetsCookies
<1>7. QED
  BY <1>1, <1>2, <1>5, <1>6 DEF Crossed

\* Two requests that crossed did so for ever.
LEMMA CrossedStays ==
  ASSUME Shared, Keeping, NEW d, NEW q \in Request, NEW r \in Request, Crossed(d, q, r)
  PROVE  Crossed(d, q, r)'
<1>1. Client(q)' = Client(q) /\ Client(r)' = Client(r)
  BY ClientStays DEF Crossed
<1>2. QED
  BY <1>1 DEF Crossed, Keeping

LEMMA NotAloneStays ==
  ASSUME Shared, Keeping, NEW r \in Request, pc[r] # "unsent", ~OneAtATime(Client(r))
  PROVE  ~OneAtATime(Client(r))'
<1>1. PICK p \in Request, q \in Request : Crossed(Client(r), p, q)
  BY DEF OneAtATime
<1>2. Client(r)' = Client(r)
  BY ClientStays
<1>4. Client(p) = Client(r) /\ Client(q) = Client(r) /\ pc[p] # "unsent" /\ pc[q] # "unsent"
  BY <1>1 DEF Crossed
<1>5. Client(p)' = Client(r)' /\ Client(q)' = Client(r)'
  BY <1>2, <1>4, ClientStays
<1>6. Crossed(Client(r), p, q)'
  BY <1>1, <1>5 DEF Crossed, Keeping
<1>7. QED
  BY <1>6 DEF OneAtATime

LEMMA AloneStep == AloneInv /\ [BrowsersNext]_browserVars => AloneInv'
<1> SUFFICES ASSUME AloneInv, [BrowsersNext]_browserVars PROVE AloneInv'
  OBVIOUS
<1>0. CookieInv /\ Shared /\ Basic /\ LatestRow /\ Alarmed
  BY DEF AloneInv, CookieInv, Shared
<1>1. Keeping /\ CookieInv' /\ LatestRow'
  BY <1>0, StepKeeps, CookieStep, RowStep
\* A request that had been alarmed before, or is at a statement of its own.
<1>2. ASSUME NEW r \in Request, pc[r] \in {"refresh_revoke", "revoked"}
      PROVE  ~OneAtATime(Client(r))'
  BY <1>0, <1>1, <1>2, NotAloneStays DEF Alarmed
<1>3. CASE pc' = pc
  BY <1>1, <1>2, <1>3 DEF AloneInv, Alarmed
\* A refresh that shows a token whose row holds another one.
<1>4. ASSUME NEW r \in Request, Ask(r) PROVE AloneInv'
  <2>1. Arrive(r) /\ Starts(r)
    BY <1>0, <1>4, AskStarts
  <2>2. Effects(r)
    BY <1>0, <2>1, StepEffects DEF Basic
  <2>3. ASSUME pc'[r] = "refresh_revoke" PROVE ~OneAtATime(Client(r))'
    <3>1. PICK d \in Device : jar[d] # None /\ req'[r].shown = jar[d]
      BY <2>1, <2>3 DEF Starts
    <3>2. /\ req'[r].op = "refresh" /\ pc[r] = "unsent"
          /\ slot[KeyOf(jar[d])] \notin {None, jar[d]}
      BY <2>1, <2>3, <3>1 DEF Starts
    <3>3. PICK t \in Request : t = jar[d] /\ req[t].device = d /\ pc[t] # "unsent"
      BY <1>0, <3>1, CookiesAre
    <3>4. PICK s \in Request : s = slot[KeyOf(jar[d])] /\ Client(s) = d /\ pc[s] # "unsent"
      BY <1>0, <3>1, <3>2, RowIsClients
    <3>5. Client(r)' = d
      <4>1. req'[t] = req[t] /\ t # None
        BY <1>1, <3>1, <3>3 DEF Keeping
      <4>2. QED
        BY <3>1, <3>2, <3>3, <4>1 DEF Client, Minting
    <3>6. CASE s \in received
      <4>1. Crossed(d, s, t)
        BY <1>0, <3>1, <3>2, <3>3, <3>4, <3>6, OtherRowCrossed
      <4>2. Crossed(d, s, t)'
        BY <1>0, <1>1, <4>1, CrossedStays
      <4>3. QED
        BY <3>5, <4>2 DEF OneAtATime, Crossed
    <3>7. CASE s \notin received
      <4>1. s # r /\ Client(s)' = d /\ pc'[s] # "unsent" /\ pc'[r] # "unsent"
        BY <1>0, <1>1, <2>3, <3>2, <3>4, ClientStays DEF Keeping
      <4>2. s \notin seen'[r]
        BY <1>0, <2>1, <3>7 DEF Starts, Shared, BrowserTypeOK
      <4>3. r \notin seen'[s]
        BY <1>0, <1>1, <3>2, <3>4 DEF Keeping, Shared, SeenOK, Answered, Answer
      <4>4. QED
        BY <3>4, <3>5, <4>1, <4>2, <4>3 DEF OneAtATime, Crossed
    <3>8. QED
      BY <3>6, <3>7
  <2>4. Alarmed'
    BY <1>2, <2>1, <2>2, <2>3 DEF Alarmed, Starts, Effects, Moves
  <2>5. QED
    BY <1>1, <2>4 DEF AloneInv
<1>5. ASSUME NEW r \in Request, Serve(r) PROVE AloneInv'
  <2>1. Continue(r) \/ Abort(r)
    BY <1>5 DEF Serve
  <2>2. Effects(r)
    BY <1>0, <2>1, StepEffects DEF Basic
  <2>3. Alarmed'
    BY <1>0, <1>2, <2>1, <2>2, ServeKeeps DEF Alarmed, Effects, Moves
  <2>4. QED
    BY <1>1, <2>3 DEF AloneInv
<1>6. ASSUME NEW r \in Request, Receive(r) PROVE AloneInv'
  BY <1>3, <1>6 DEF Receive, vars
<1>7. CASE UNCHANGED browserVars
  BY <1>3, <1>7 DEF browserVars, vars
<1>8. QED
  BY <1>4, <1>5, <1>6, <1>7 DEF BrowsersNext

\* A browser that sends a request only when its others are answered to it is
\* never taken for a thief.
THEOREM NoFalseAlarmAlways == BrowsersSpec => []NoFalseAlarm
<1>1. AloneInv => NoFalseAlarm
  BY DEF AloneInv, Alarmed, NoFalseAlarm
<1>2. QED
  BY AloneInit, AloneStep, <1>1, PTL DEF BrowsersSpec

\* Such a browser can refresh whenever it waits for nothing: a session it is
\* owed is stored under the cookies it has.
THEOREM CookiesRefreshAlways == BrowsersSpec => []CookiesRefresh
<1> DEFINE Both == AloneInv /\ OwedInv
<1>1. BrowsersInit => Both
  BY AloneInit, OwedInit DEF BrowsersInit
<1>2. Both /\ [BrowsersNext]_browserVars => Both'
  BY AloneStep, OwedStep, StepKeeps DEF AloneInv, CookieInv
<1>3. Both => CookiesRefresh
  <2> SUFFICES ASSUME Both, NEW d \in Device, jar[d] # None, OneAtATime(d), ~Waiting(d),
                      KeyOf(jar[d]) \in owed, slot[KeyOf(jar[d])] # jar[d]
               PROVE  FALSE
    BY DEF CookiesRefresh
  <2> DEFINE k == KeyOf(jar[d])
  <2>1. CookieInv /\ Shared /\ LatestRow /\ SessionNotLost
    BY DEF AloneInv, CookieInv, OwedInv
  <2>2. jar[d] \in Request /\ req[jar[d]].device = d
    BY <2>1, CookiesAre
  <2>3. CASE slot[k] = None
    <3>1. PICK r \in Request : pc[r] = "save" /\ KeyOf(r) = k
      BY <2>1, <2>3 DEF SessionNotLost, Replacing
    <3>2. req[r].op \in Minting /\ req[r].device = d
      BY <2>1, <2>2, <3>1 DEF Shared, Basic, ShapeOK, Shape, KeyOf
    <3>3. Client(r) = d
      BY <2>1, <3>1, <3>2 DEF Shared, OriginOK, Origin
    <3>4. r \notin received
      BY <2>1, <3>1 DEF Shared, SeenOK, Answered, Answer
    <3>5. QED
      BY <3>1, <3>3, <3>4 DEF Waiting
  <2>4. CASE slot[k] # None
    <3>1. slot[k] \in Request /\ Client(slot[k]) = d /\ pc[slot[k]] # "unsent"
      BY <2>1, <2>4, RowIsClients
    <3>2. slot[k] \in received
      BY <3>1 DEF Waiting
    <3>3. Crossed(d, slot[k], jar[d])
      BY <2>1, <3>2, OtherRowCrossed
    <3>4. QED
      BY <2>2, <3>1, <3>3 DEF OneAtATime
  <2>5. QED
    BY <2>3, <2>4
<1>4. QED
  BY <1>1, <1>2, <1>3, PTL DEF BrowsersSpec
=============================================================================
