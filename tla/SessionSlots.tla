---------------------------- MODULE SessionSlots ----------------------------
(***************************************************************************)
(* What the RefreshToken table promises to its users, with no request      *)
(* handler in sight: a device of an account holds at most one session, a   *)
(* session is opened in an empty slot under a token never used before, and *)
(* it ends alone (logout, revocation, rotation) or together with every     *)
(* session of its account (password reset, account deletion).  No step     *)
(* touches the sessions of two accounts, and none swaps one token for      *)
(* another in place.  Sessions.tla is shown to implement this module.      *)
(***************************************************************************)
CONSTANTS User, Device, Token, None   \* None: not a token

VARIABLES
    slot,   \* slot[<<u, d>>]: token of the session device d of u holds, or None
    used    \* tokens that have ever been stored

vars == <<slot, used>>

Key == User \X Device

TypeOK == /\ slot \in [Key -> Token \cup {None}]
          /\ used \subseteq Token

Init == /\ slot = [k \in Key |-> None]
        /\ used = {}

\* A session is opened in an empty slot, under a fresh token.
Open(k, t) == /\ slot[k] = None
              /\ t \notin used
              /\ slot' = [slot EXCEPT ![k] = t]
              /\ used' = used \cup {t}

\* One session ends.
Close(k) == /\ slot' = [slot EXCEPT ![k] = None]
            /\ UNCHANGED used

\* Every session of an account ends in one step.
CloseAll(u) == /\ slot' = [k \in Key |-> IF k[1] = u THEN None ELSE slot[k]]
               /\ UNCHANGED used

Next == \/ \E k \in Key : Close(k) \/ \E t \in Token : Open(k, t)
        \/ \E u \in User : CloseAll(u)

Spec == Init /\ [][Next]_vars
=============================================================================
