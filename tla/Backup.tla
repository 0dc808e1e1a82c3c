------------------------------- MODULE Backup -------------------------------
(***************************************************************************)
(* The scripts that dump the database, watch the age of the dumps, verify  *)
(* and restore them.  Runs of backup-db.sh, by cron or by hand, may        *)
(* overlap.  Each names its file by the local time in seconds: two runs of *)
(* one second, or of the hour that comes twice when the clock is set back, *)
(* write to the same file.  Time is in ticks, Day of them to a day; a run  *)
(* is assumed to end within a day, and counts as dumping for as long as    *)
(* its pipeline writes.  Rows written meanwhile are left out: a run dumps  *)
(* what there is when it begins, so a later run dumps all an earlier one   *)
(* did unless the database was lost between them.  Settings or a container *)
(* that are missing end a script before it does anything.                  *)
(***************************************************************************)
EXTENDS Integers, FiniteSets

CONSTANTS
    Run,        \* runs of backup-db.sh
    Stamp,      \* local times, which are the names of the files
    None,       \* no file, no run, no name
    Day,        \* ticks in a day
    Repeat,     \* ticks after which a local time may come again
    KeepDays,   \* find -mtime +7
    MaxAge,     \* BACKUP_MAX_AGE_HOURS, in ticks
    MaxTime     \* bound of the clock

ASSUME ClockAssumption ==
    Day \in Nat \ {0} /\ {Repeat, KeepDays, MaxAge, MaxTime} \subseteq Nat

\* How far a dump goes, in the order pg_dump writes it: to the end; over all
\* rows of the application's tables and the first of _prisma_migrations, the
\* last table; less.  Or the file is below the least size, or its gzip damaged.
FilePart == {"whole", "rows", "part", "short", "torn"}
AllRows  == {"whole", "rows"}

\* by: the runs that have written to the file; last: the one that did so last.
File == [part : FilePart, time : Nat, by : SUBSET Run, last : Run]

\* A database with rows in _prisma_migrations; with tables only; with nothing.
Holding == {"migrated", "bare", "empty"}

ASSUME NoneAssumption == None \notin Run \cup Stamp \cup File

VARIABLES
    now,        \* the clock
    db,         \* db.has: what the database holds; history: db.from, the file
                \* it was restored from, or None if that was not verified, and
                \* db.all, whether that one had all rows of the application
    file,       \* file[n]: the file named n, or None
    pc,         \* pc[r]: where run r is, or how it ended
    began,      \* began[r]: when it began
    stamp,      \* stamp[r]: the name it gave its file
    snapshot,   \* snapshot[r]: what the database held then
    verified    \* history: the names verify-backup-restore.sh found good

vars == <<now, db, file, pc, began, stamp, snapshot, verified>>

Running == {"dumping", "checking", "rotating"}

Init ==
    /\ now = 0
    /\ db = [has |-> "migrated", from |-> None, all |-> TRUE]
    /\ file = [n \in Stamp |-> None]
    /\ pc = [r \in Run |-> "unstarted"]
    /\ began = [r \in Run |-> 0]
    /\ stamp = [r \in Run |-> None]
    /\ snapshot = [r \in Run |-> "empty"]
    /\ verified = {}

Present == {n \in Stamp : file[n] # None}
Writers(n) == IF n \in Present THEN file[n].by ELSE {}
WellFormed(n) == file[n].part # "torn"   \* gzip -t
LongEnough(n) == file[n].part # "short"
Goto(r, from, next) == pc[r] = from /\ pc' = [pc EXCEPT ![r] = next]

Written(r, n, part) == [file EXCEPT ![n] =
    [part |-> part, time |-> now, by |-> Writers(n) \cup {r}, last |-> r]]

\* What a run writes is lost when its file was deleted, even if another run has
\* since made a file of that name.
Write(r, part) ==
    file' = IF r \in Writers(stamp[r]) THEN Written(r, stamp[r], part) ELSE file
-----------------------------------------------------------------------------
Tick == /\ now < MaxTime /\ \A r \in Run : pc[r] \in Running => now - began[r] < Day - 1
        /\ now' = now + 1
        /\ UNCHANGED <<db, file, pc, began, stamp, snapshot, verified>>

\* The database is lost, or its volume is created anew.
Wipe == /\ db.has # "empty"
        /\ db' = [has |-> "empty", from |-> None, all |-> TRUE]
        /\ UNCHANGED <<now, file, pc, began, stamp, snapshot, verified>>

\* docker compose up runs prisma migrate deploy, which leaves a row even where
\* the tables are there already and it fails.
Migrate == /\ db.has # "migrated"
           /\ db' = [db EXCEPT !.has = "migrated"]
           /\ UNCHANGED <<now, file, pc, began, stamp, snapshot, verified>>

\* The shell opens the file, cutting one of that name to nothing, and pg_dump
\* takes its snapshot.
Start(r) ==
    /\ Goto(r, "unstarted", "dumping")
    /\ \E n \in Stamp :
        /\ \A q \in Run : stamp[q] = n => now - began[q] <= Repeat
        /\ stamp' = [stamp EXCEPT ![r] = n]
        /\ file' = Written(r, n, "torn")
    /\ began' = [began EXCEPT ![r] = now]
    /\ snapshot' = [snapshot EXCEPT ![r] = db.has]
    /\ UNCHANGED <<now, db, verified>>

\* gzip writes a block, over what another run wrote to the file.
WriteBlock(r) ==
    /\ pc[r] = "dumping"
    /\ Write(r, "torn")
    /\ UNCHANGED <<now, db, pc, began, stamp, snapshot, verified>>

\* pg_dump and gzip end well; what reached the disk may be less than they wrote.
Dump(r) ==
    /\ Goto(r, "dumping", "checking")
    /\ \E part \in {"whole", "torn", "short"} : Write(r, part)
    /\ UNCHANGED <<now, db, began, stamp, snapshot, verified>>

\* Mutant of AfterFailure: no pipefail, the script goes on to check the file.
AfterFailureGoOn == "checking"

\* pg_dump, or the way to it, fails: gzip closes a well formed file all the
\* same, and pipefail ends the script before the lines that delete a bad file.
AfterFailure == "failed"

DumpFails(r) ==
    /\ Goto(r, "dumping", AfterFailure)
    /\ \E part \in FilePart : Write(r, part)
    /\ UNCHANGED <<now, db, began, stamp, snapshot, verified>>

\* The script, or the host, is stopped.
Killed(r) ==
    /\ \E from \in Running : Goto(r, from, "failed")
    /\ UNCHANGED <<now, db, file, began, stamp, snapshot, verified>>

\* gzip -t and the least size, of the file that has the name now; it is deleted
\* if it fails either.
Sound(n) == n \in Present /\ WellFormed(n) /\ LongEnough(n)

Check(r) ==
    /\ \/ /\ Goto(r, "checking", "rotating")
          /\ Sound(stamp[r])
          /\ UNCHANGED file
       \/ /\ Goto(r, "checking", "failed")
          /\ ~ Sound(stamp[r])
          /\ file' = [file EXCEPT ![stamp[r]] = None]
    /\ UNCHANGED <<now, db, began, stamp, snapshot, verified>>

\* find -mtime +7 -delete: files more than KeepDays whole days old.
Old(n) == n \in Present /\ (now - file[n].time) \div Day > KeepDays

Rotate(r) ==
    /\ Goto(r, "rotating", "done")
    /\ file' = [n \in Stamp |-> IF Old(n) THEN None ELSE file[n]]
    /\ UNCHANGED <<now, db, began, stamp, snapshot, verified>>
-----------------------------------------------------------------------------
Newest(n) == n \in Present /\ \A m \in Present : file[m].time <= file[n].time

\* check-backup-freshness.sh: the newest file is young and well formed.
Young(n) == now - file[n].time <= MaxAge

\* Mutant of FreshnessOk: no gzip -t.
FreshByAge(n) == Newest(n) /\ Young(n)

FreshnessOk(n) == Newest(n) /\ Young(n) /\ WellFormed(n)

\* What psql -v ON_ERROR_STOP=1 may leave in an empty database: of a cut file
\* what comes before the cut, without an error when no row is cut in two.
Restored(n) ==
    LET held == snapshot[file[n].last]
        part == file[n].part
    IN  CASE held = "empty" \/ part = "short" -> {"empty"}
          [] held # "empty" /\ part \in AllRows -> {held}
          [] held # "empty" /\ part = "part"    -> {"empty", "bare"}
          [] held # "empty" /\ part = "torn"    -> {"empty", "bare", held}

\* Mutant of MigrationsCounted: the rows are not counted.
NotCounted(n) == TRUE

\* At least one row of _prisma_migrations, of the tables pg_dump writes in the
\* order of their names the last.
MigrationsCounted(n) == Restored(n) = {"migrated"}

\* verify-backup-restore.sh on a given file, in a database of its own.
Verify(n) ==
    /\ n \in Present /\ WellFormed(n) /\ MigrationsCounted(n)
    /\ verified' = verified \cup {n}
    /\ UNCHANGED <<now, db, file, pc, began, stamp, snapshot>>

\* restore-db.sh: over tables, the first CREATE fails and nothing is changed.
Restore(n) ==
    /\ n \in Present /\ db.has = "empty"
    /\ \E has \in Restored(n) :
           db' = [has  |-> has,
                  from |-> IF n \in verified THEN n ELSE None,
                  all  |-> n \in verified => file[n].part \in AllRows]
    /\ UNCHANGED <<now, file, pc, began, stamp, snapshot, verified>>

Next ==
    \/ Tick \/ Wipe \/ Migrate
    \/ \E r \in Run : \/ Start(r) \/ WriteBlock(r) \/ Dump(r) \/ DumpFails(r)
                      \/ Killed(r) \/ Check(r) \/ Rotate(r)
    \/ \E n \in Stamp : Verify(n) \/ Restore(n)

Spec == Init /\ [][Next]_vars
-----------------------------------------------------------------------------
\* Two runs named their files by one local time.
Shared(n) == \E p, q \in Run : p # q /\ stamp[p] = n /\ stamp[q] = n

\* A run that said "Done" leaves its dump, or a complete dump by a run that did
\* not begin before it: rotation by age deletes the last good dump behind no
\* failed one, however runs fail, are killed or overlap.  Only a run that took
\* the name of one begun since, or of that run itself, can take it away.
DoneIsKept == \A r \in Run : pc[r] = "done" =>
    \/ \E n \in Present : file[n].part = "whole" /\ began[file[n].last] >= began[r]
    \/ \E n \in Stamp, p \in Run : Shared(n) /\ stamp[p] = n /\ began[p] >= began[r]

\* The freshness check is fooled by nothing but a file that a run wrote to which
\* ended with an error or has yet to check it.
FooledByFailureOnly == \A n \in Stamp : FreshnessOk(n) =>
    \/ file[n].part = "whole"
    \/ \E r \in file[n].by : pc[r] \in {"failed", "checking"}

\* A database restored from a file that was verified got every row of the
\* application's tables that the dumped one had, though perhaps not all of
\* _prisma_migrations, nor the indexes and keys that follow: no run writes to a
\* file that was verified, unless two runs took its name.
VerifiedHoldsRows == db.from \in Stamp => db.all \/ Shared(db.from)

\* For a violation run: "a failed dump is deleted" once the script has ended.
FailedDumpDeleted == \A r \in Run :
    pc[r] = "failed" /\ stamp[r] \in Present => file[stamp[r]].part = "whole"
=============================================================================
