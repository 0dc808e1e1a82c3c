------------------------------ MODULE MCBackup ------------------------------
(* An instance of Backup for TLC.                                            *)
EXTENDS Backup, TLC

Symmetry == Permutations(Run) \cup Permutations(Stamp)

\* Two runs with everything else; the last only while the database and every
\* dump of it are as at first and no file was verified.
Mixed == \/ \E r \in Run : pc[r] = "unstarted"
         \/ /\ db.has = "migrated" /\ db.from = None /\ verified = {}
            /\ \A r \in Run : snapshot[r] = "migrated"
=============================================================================
