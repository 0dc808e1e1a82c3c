------------------------------ MODULE Browsers ------------------------------
(***************************************************************************)
(* Sessions composed with the browsers that use them.  The controller      *)
(* keeps the two JWTs of a session in cookies, which all tabs of a browser *)
(* share: a request shows the cookies of the moment it is sent, and every  *)
(* answer overwrites or clears them at the moment it is received, in any   *)
(* order.  A browser is one device; both cookies are set and cleared       *)
(* together.                                                               *)
(***************************************************************************)
EXTENDS Sessions

VARIABLES
    jar,        \* jar[d]: the request whose tokens browser d holds, or None
    received,   \* the requests whose answers were received
    seen        \* history: seen[r], the answers received when r was sent

browserVars == <<vars, jar, received, seen>>

\* The browser that sent r; a reset is sent from anywhere.
Client(r) == IF req[r].op \in {"register", "login"} THEN req[r].device
             ELSE IF req[r].shown = None THEN None ELSE req[req[r].shown].device

BrowsersInit == /\ Init
                /\ jar = [d \in Device |-> None]
                /\ received = {}
                /\ seen = [r \in Request |-> {}]
-----------------------------------------------------------------------------
\* The guards take the tokens out of the cookies the browser has now.
WithCookies(r, t) ==
    /\ t # None
    /\ \/ Refresh(r, t) \/ Profile(r, t) \/ Logout(r, t) \/ DeleteAccount(r, t)
       \/ \E d \in Device : Revoke(r, t, d)

Ask(r) ==
    /\ pc[r] = "unsent"
    /\ \/ \E d \in Device : \/ WithCookies(r, jar[d])
                            \/ \E u \in User : Register(r, u, d) \/ Login(r, u, d)
       \/ \E u \in User : Reset(r, u)
    /\ seen' = [seen EXCEPT ![r] = received]
    /\ UNCHANGED <<jar, received>>

Serve(r) == (Continue(r) \/ Abort(r)) /\ UNCHANGED <<jar, received, seen>>

\* Mutant of SetsCookies: updateProfile forgets them.
ProfileForgets(r) == req[r].op \in Minting \ {"profile"} /\ pc[r] = "done"

\* registration, login, refresh and updateProfile set the cookies when the
\* service returns; an exception leaves them alone, even a 401.
SetsCookies(r) == req[r].op \in Minting /\ pc[r] = "done"

\* Mutant of ClearsCookies: nobody does.
ClearsNothing(r) == FALSE

\* logout and deleteAccount clear them; revokeSession ends another device's
\* session, and its cookies stay.
ClearsCookies(r) == req[r].op \in {"logout", "deleteAccount"} /\ pc[r] = "done"

Receive(r) ==
    /\ Answered(r) /\ pc[r] # "lost" /\ r \notin received
    /\ received' = received \cup {r}
    /\ jar' = [d \in Device |-> IF d = Client(r) /\ SetsCookies(r) THEN r
                                ELSE IF d = Client(r) /\ ClearsCookies(r) THEN None ELSE jar[d]]
    /\ UNCHANGED <<vars, seen>>

BrowsersNext == \E r \in Request : Ask(r) \/ Serve(r) \/ Receive(r)

BrowsersSpec == BrowsersInit /\ [][BrowsersNext]_browserVars
-----------------------------------------------------------------------------
\* Neither of q and r, sent by browser d, had been answered to it when the
\* other was sent: two tabs, or a reply that was lost.
Crossed(d, q, r) == /\ q # r /\ Client(q) = d /\ Client(r) = d
                    /\ pc[q] # "unsent" /\ pc[r] # "unsent"
                    /\ q \notin seen[r] /\ r \notin seen[q]
OneAtATime(d) == \A q, r \in Request : ~Crossed(d, q, r)
Waiting(d) == \E r \in Request \ received : Client(r) = d /\ pc[r] # "unsent"

\* refresh ends the session of a device that shows an old token.  A browser that
\* waits for each answer, and gets it, never shows one, however often its
\* requests fail, change accounts or are interrupted by other devices.
NoFalseAlarm == \A r \in Request : pc[r] = "revoked" => ~OneAtATime(Client(r))

\* Such a browser, when it waits for nothing and its session was not ended, holds
\* the very token stored for it: it can refresh.
CookiesRefresh == \A d \in Device :
    jar[d] # None /\ OneAtATime(d) /\ ~Waiting(d) /\ KeyOf(jar[d]) \in owed
        => slot[KeyOf(jar[d])] = jar[d]

\* logout, deleteAccount: cookies found in a browser after it received the answer
\* come from a request sent later, or from one that crossed it.
GoneAfterLogout == \A q \in received :
    req[q].op \in {"logout", "deleteAccount"} /\ pc[q] = "done" =>
        LET t == jar[Client(q)]
        IN  t # None => q \in seen[t] \/ Crossed(Client(q), q, t)
=============================================================================
