--------------------------- MODULE MCCredentials ----------------------------
(* An instance of Credentials for TLC: an account was registered, holds the  *)
(* session and has the verification link of its registration.  Requests and  *)
(* addresses are only compared for equality.                                 *)
EXTENDS Credentials, TLC

Symmetry == Permutations(Request \ First) \cup Permutations(Email)
=============================================================================
