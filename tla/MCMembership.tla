---------------------------- MODULE MCMembership ----------------------------
(* A small instance of Membership for TLC.  The sets are only compared for   *)
(* equality, so permuting each is a symmetry; the number of requests bounds  *)
(* every behaviour.                                                          *)
EXTENDS Membership, FiniteSets, Integers, TLC

Symmetry == Permutations(Request) \cup Permutations(User) \cup Permutations(Group)

\* Operations that meet on the same rows: behaviours that mix more are cut.
InviteOps == {"invite", "respond", "kick"}
JoinOps   == {"invite", "respond", "remove", "deleteAccount"}
ManageOps == {"create", "kick", "connect", "deleteAccount"}

Used  == {req[r].op : r \in Request} \ {None}
Mixed == Used \subseteq InviteOps \/ Used \subseteq JoinOps \/ Used \subseteq ManageOps
=============================================================================
