---------------------------- MODULE BackupProofs ----------------------------
(***************************************************************************)
(* Theorems about Backup, for every set of runs and of names, length of a  *)
(* day, age at which files are deleted and behaviour of the clock.         *)
(***************************************************************************)
EXTENDS Backup, TLAPS

TypeOK ==
    /\ now \in Nat
    /\ db \in [has : Holding, from : Stamp \cup {None}, all : BOOLEAN]
    /\ file \in [Stamp -> File \cup {None}]
    /\ pc \in [Run -> {"unstarted"} \cup Running \cup {"done", "failed"}]
    /\ began \in [Run -> Nat]
    /\ stamp \in [Run -> Stamp \cup {None}]
    /\ snapshot \in [Run -> Holding]
    /\ verified \subseteq Stamp

\* A run gets the name of its file when it starts.
StampsOK == \A r \in Run : pc[r] # "unstarted" <=> stamp[r] \in Stamp

\* Whoever has written to a file bears its name, and began before it was written.
WritersOK == \A n \in Present :
    /\ file[n].last \in file[n].by /\ file[n].time <= now
    /\ \A r \in file[n].by : stamp[r] = n /\ began[r] <= file[n].time

\* A run under way is less than a day old, and there is a file of its name unless
\* another run of that name deleted it.
RunsOK == \A r \in Run : pc[r] \in Running =>
    /\ began[r] <= now /\ now - began[r] < Day
    /\ stamp[r] \in Present \/ Shared(stamp[r])

NamesOK == StampsOK /\ WritersOK /\ RunsOK

\* What a file can hold, by where the runs are that wrote to it: one that all
\* of them found sound is whole.
SomeAt(n, places) == \E r \in file[n].by : pc[r] \in places

PartsOK == \A n \in Present :
    /\ pc[file[n].last] = "dumping" => file[n].part = "torn"
    /\ file[n].part \in {"rows", "part"} => SomeAt(n, {"failed"})
    /\ file[n].part = "short" => SomeAt(n, {"failed", "checking"})
    /\ file[n].part = "torn" => SomeAt(n, {"failed", "checking", "dumping"})

\* A file that was verified would be found good again, unless two runs took its
\* name.
VerifiedOK ==
    /\ \A n \in verified :
        /\ \E r \in Run : stamp[r] = n
        /\ Shared(n) \/ (n \in Present => WellFormed(n) /\ MigrationsCounted(n))
    /\ VerifiedHoldsRows

Safe == TypeOK /\ NamesOK /\ PartsOK /\ VerifiedOK /\ DoneIsKept
-----------------------------------------------------------------------------
LEMMA NoneIsNothing == None \notin Run /\ None \notin Stamp /\ \A f \in File : f # None
BY NoneAssumption

\* find -mtime: a file less than a day old is not deleted, whatever is kept.
LEMMA YoungIsKept ==
    ASSUME NEW age \in Int, age < Day PROVE ~ (age \div Day > KeepDays)
<1>1. Day \in Int /\ Day > 0 /\ KeepDays \in Int /\ KeepDays >= 0
    BY ClockAssumption
<1> DEFINE q == age \div Day
<1>2. q \in Int /\ Day * q <= age
    BY <1>1
<1>3. SUFFICES ASSUME q >= 1 PROVE FALSE
    BY <1>1, <1>2
<1>4. Day * q >= Day
    BY <1>1, <1>2, <1>3
<1> QED
    BY <1>1, <1>2, <1>4

LEMMA InitSafe == Init => Safe
<1> SUFFICES ASSUME Init PROVE Safe
    OBVIOUS
<1>1. TypeOK
    BY DEF Init, TypeOK, Holding, Running
<1>2. Present = {}
    BY DEF Init, Present
<1>3. NamesOK /\ PartsOK /\ VerifiedOK /\ DoneIsKept
    BY <1>2, NoneIsNothing
    DEF Init, NamesOK, StampsOK, WritersOK, RunsOK, PartsOK, VerifiedOK, VerifiedHoldsRows,
        DoneIsKept, Running
<1> QED
    BY <1>1, <1>3 DEF Safe
-----------------------------------------------------------------------------
\* What a run can have written, by where it is then.
Fits(place, part) == \/ place = "dumping" /\ part = "torn"
                     \/ place = "checking" /\ part \in {"whole", "torn", "short"}
                     \/ place = "failed"

\* Every step of a run that writes, seen from the files.
LEMMA Writing ==
    ASSUME TypeOK, NamesOK, NEW x \in Run,
           Start(x) \/ WriteBlock(x) \/ Dump(x) \/ DumpFails(x)
    PROVE  /\ now' = now /\ db' = db /\ verified' = verified
           /\ pc[x] \in {"unstarted", "dumping"}
           /\ pc'[x] \in {"dumping", "checking", "failed"}
           /\ \A r \in Run \ {x} : pc'[r] = pc[r]
           /\ \E n \in Stamp :
               /\ stamp'[x] = n
               /\ \/ /\ x \notin Writers(n) /\ file' = file /\ pc[x] = "dumping"
                  \/ \E part \in FilePart : file' = Written(x, n, part) /\ Fits(pc'[x], part)
<1> USE DEF Goto, FilePart
<1>1. pc \in [Run -> {"unstarted"} \cup Running \cup {"done", "failed"}]
    BY DEF TypeOK
<1>2. CASE Start(x)
  <2>1. PICK n \in Stamp : stamp' = [stamp EXCEPT ![x] = n] /\ file' = Written(x, n, "torn")
      BY <1>2 DEF Start
  <2>2. stamp'[x] = n
      BY <2>1 DEF TypeOK
  <2> QED
      BY <1>1, <1>2, <2>1, <2>2 DEF Start, Fits
<1>3. ASSUME pc[x] = "dumping", stamp' = stamp, NEW part \in FilePart, Write(x, part),
             Fits(pc'[x], part)
      PROVE  \E n \in Stamp :
               /\ stamp'[x] = n
               /\ \/ x \notin Writers(n) /\ file' = file /\ pc[x] = "dumping"
                  \/ \E p \in FilePart : file' = Written(x, n, p) /\ Fits(pc'[x], p)
  <2>1. stamp[x] \in Stamp
      BY <1>3 DEF NamesOK, StampsOK
  <2> QED
      BY <1>3, <2>1 DEF Write
<1>4. CASE WriteBlock(x)
  <2>1. Write(x, "torn") /\ pc[x] = "dumping" /\ stamp' = stamp /\ Fits(pc'[x], "torn")
      BY <1>4 DEF WriteBlock, Fits
  <2> QED
      BY <1>1, <1>3, <1>4, <2>1 DEF WriteBlock
<1>5. CASE Dump(x)
  <2>1. PICK part \in {"whole", "torn", "short"} : Write(x, part)
      BY <1>5 DEF Dump
  <2>2. pc[x] = "dumping" /\ stamp' = stamp /\ Fits(pc'[x], part)
      BY <1>1, <1>5 DEF Dump, Fits
  <2> QED
      BY <1>1, <1>3, <1>5, <2>1, <2>2 DEF Dump
<1>6. CASE DumpFails(x)
  <2>1. PICK part \in FilePart : Write(x, part)
      BY <1>6 DEF DumpFails
  <2>2. pc[x] = "dumping" /\ stamp' = stamp /\ Fits(pc'[x], part)
      BY <1>1, <1>6 DEF DumpFails, Fits, AfterFailure
  <2> QED
      BY <1>1, <1>3, <1>6, <2>1, <2>2 DEF DumpFails, AfterFailure
<1> QED
    BY <1>2, <1>4, <1>5, <1>6

\* What a started run was given stays.
LEMMA StartsOnce ==
    ASSUME TypeOK, NamesOK, [Next]_vars, NEW r \in Run, stamp[r] \in Stamp
    PROVE  stamp'[r] = stamp[r] /\ began'[r] = began[r] /\ snapshot'[r] = snapshot[r]
<1>1. pc[r] # "unstarted"
    BY DEF NamesOK, StampsOK
<1>2. ASSUME NEW x \in Run, Start(x)
      PROVE  stamp'[r] = stamp[r] /\ began'[r] = began[r] /\ snapshot'[r] = snapshot[r]
    BY <1>1, <1>2 DEF Start, Goto, TypeOK
<1>3. CASE ~ \E x \in Run : Start(x)
    BY <1>3 DEF Next, vars, Tick, Wipe, Migrate, WriteBlock, Dump, DumpFails, Killed, Check,
                Rotate, Verify, Restore
<1> QED
    BY <1>2, <1>3

LEMMA SharedStays ==
    ASSUME TypeOK, NamesOK, [Next]_vars, NEW n \in Stamp, Shared(n) PROVE Shared(n)'
<1>1. PICK p, q \in Run : p # q /\ stamp[p] = n /\ stamp[q] = n
    BY DEF Shared
<1>2. stamp'[p] = n /\ stamp'[q] = n
    BY <1>1, StartsOnce
<1> QED
    BY <1>1, <1>2 DEF Shared
-----------------------------------------------------------------------------
LEMMA TypeStep == ASSUME TypeOK, NamesOK, [Next]_vars PROVE TypeOK'
<1>1. CASE Tick
    BY <1>1 DEF TypeOK, Tick
<1>2. CASE Wipe \/ Migrate
  <2>1. db' \in [has : Holding, from : Stamp \cup {None}, all : BOOLEAN]
    <3>1. CASE Wipe
        BY <3>1 DEF Wipe, Holding
    <3>2. CASE Migrate
        BY <3>2 DEF TypeOK, Migrate, Holding
    <3> QED
        BY <1>2, <3>1, <3>2
  <2> QED
      BY <1>2, <2>1 DEF TypeOK, Wipe, Migrate
<1>3. ASSUME NEW x \in Run, Start(x) \/ WriteBlock(x) \/ Dump(x) \/ DumpFails(x) PROVE TypeOK'
  <2>1. /\ now' \in Nat /\ verified' \subseteq Stamp
        /\ db' \in [has : Holding, from : Stamp \cup {None}, all : BOOLEAN]
      BY <1>3, Writing DEF TypeOK
  <2>2. file' \in [Stamp -> File \cup {None}]
    <3>1. ASSUME NEW n \in Stamp, NEW part \in FilePart, file' = Written(x, n, part)
          PROVE  file' \in [Stamp -> File \cup {None}]
      <4>1. Writers(n) \in SUBSET Run
          BY DEF TypeOK, Writers, Present, File
      <4> QED
          BY <3>1, <4>1 DEF TypeOK, Written, File
    <3> QED
        BY <1>3, <3>1, Writing DEF TypeOK
  <2>3. pc' \in [Run -> {"unstarted"} \cup Running \cup {"done", "failed"}]
      BY <1>3 DEF TypeOK, Start, WriteBlock, Dump, DumpFails, Goto, AfterFailure, Running
  <2>4. /\ began' \in [Run -> Nat] /\ stamp' \in [Run -> Stamp \cup {None}]
        /\ snapshot' \in [Run -> Holding]
      BY <1>3 DEF TypeOK, Start, WriteBlock, Dump, DumpFails
  <2> QED
      BY <2>1, <2>2, <2>3, <2>4 DEF TypeOK
<1>4. ASSUME NEW x \in Run, Killed(x) \/ Check(x) \/ Rotate(x) PROVE TypeOK'
    BY <1>4 DEF TypeOK, Killed, Check, Rotate, Goto, Running
<1>5. ASSUME NEW n \in Stamp, Verify(n) PROVE TypeOK'
    BY <1>5 DEF TypeOK, Verify, Present
<1>6. ASSUME NEW n \in Stamp, Restore(n) PROVE TypeOK'
  <2>1. snapshot[file[n].last] \in Holding
      BY <1>6 DEF TypeOK, Restore, Present, File
  <2>2. file[n].part \in FilePart
      BY <1>6 DEF TypeOK, Restore, Present, File
  <2>3. \A has \in Restored(n) : has \in Holding
      BY <2>1, <2>2 DEF Restored, Holding, AllRows, FilePart
  <2> QED
      BY <1>6, <2>3 DEF TypeOK, Restore
<1>7. CASE UNCHANGED vars
    BY <1>7 DEF TypeOK, vars
<1> QED
    BY <1>1, <1>2, <1>3, <1>4, <1>5, <1>6, <1>7 DEF Next

\* A run under way is one of two of its name, or the last that wrote to its file.
LEMMA LoneRunWrote ==
    ASSUME TypeOK, NamesOK, NEW r \in Run, stamp[r] \in Present, ~ Shared(stamp[r])
    PROVE  file[stamp[r]].last = r /\ file[stamp[r]].by = {r}
<1>1. file[stamp[r]] \in File
    BY DEF TypeOK, Present
<1>2. \A q \in file[stamp[r]].by : q = r
    BY <1>1 DEF NamesOK, WritersOK, Present, Shared, File
<1>3. file[stamp[r]].last \in file[stamp[r]].by
    BY DEF NamesOK, WritersOK
<1> QED
    BY <1>2, <1>3

\* The rotation leaves alone what a run that has not ended wrote to.
LEMMA OldIsOlder ==
    ASSUME TypeOK, NamesOK, NEW n \in Stamp, Old(n), NEW r \in file[n].by,
           NEW p \in Run, pc[p] \in Running
    PROVE  began[r] < began[p]
<1>1. n \in Present /\ file[n] \in File
    BY DEF Old, Present, TypeOK
<1>2. r \in Run /\ began[r] <= file[n].time
    BY <1>1 DEF NamesOK, WritersOK, File
<1>3. now - began[p] < Day
    BY DEF NamesOK, RunsOK
<1>4. /\ Day \in Nat /\ now \in Nat /\ began[r] \in Nat /\ began[p] \in Nat
      /\ file[n].time \in Nat
    BY <1>1, <1>2, ClockAssumption DEF TypeOK, File
<1>5. now - file[n].time >= Day
    BY <1>4, YoungIsKept DEF Old
<1> QED
    BY <1>2, <1>3, <1>4, <1>5

\* What can become of the file of a name.
LEMMA FileStep ==
    ASSUME TypeOK, NamesOK, [Next]_vars, NEW n \in Stamp
    PROVE  \/ file'[n] = file[n]
           \/ \E x \in Run :
                /\ stamp'[x] = n /\ pc[x] \in {"unstarted", "dumping"} /\ now' = now
                /\ file'[n] \in File /\ file'[n].last = x /\ file'[n].time = now
                /\ file'[n].by = Writers(n) \cup {x} /\ Fits(pc'[x], file'[n].part)
           \/ /\ file'[n] = None /\ ~ Sound(n)
              /\ \E x \in Run : stamp[x] = n /\ pc[x] = "checking" /\ pc'[x] = "failed"
           \/ file'[n] = None /\ Old(n) /\ \E x \in Run : Rotate(x)
<1>1. ASSUME NEW x \in Run, Start(x) \/ WriteBlock(x) \/ Dump(x) \/ DumpFails(x),
             file'[n] # file[n]
      PROVE  /\ stamp'[x] = n /\ pc[x] \in {"unstarted", "dumping"} /\ now' = now
             /\ file'[n] \in File /\ file'[n].last = x /\ file'[n].time = now
             /\ file'[n].by = Writers(n) \cup {x} /\ Fits(pc'[x], file'[n].part)
  <2>1. PICK part \in FilePart, m \in Stamp :
          stamp'[x] = m /\ file' = Written(x, m, part) /\ Fits(pc'[x], part)
      BY <1>1, Writing
  <2>2. n = m
      BY <1>1, <2>1 DEF Written, TypeOK
  <2>3. file'[n] = [part |-> part, time |-> now, by |-> Writers(n) \cup {x}, last |-> x]
      BY <2>1, <2>2 DEF Written, TypeOK
  <2>4. Writers(n) \subseteq Run /\ now \in Nat
      BY DEF TypeOK, Writers, Present, File
  <2>5. file'[n] \in File
      BY <2>3, <2>4 DEF File
  <2>6. pc[x] \in {"unstarted", "dumping"} /\ now' = now
      BY <1>1, Writing
  <2> QED
      BY <2>1, <2>2, <2>3, <2>5, <2>6
<1>2. ASSUME NEW x \in Run, Check(x), file'[n] # file[n]
      PROVE  /\ file'[n] = None /\ ~ Sound(n)
             /\ stamp[x] = n /\ pc[x] = "checking" /\ pc'[x] = "failed"
    BY <1>2 DEF Check, Goto, TypeOK
<1>3. ASSUME NEW x \in Run, Rotate(x), file'[n] # file[n]
      PROVE  file'[n] = None /\ Old(n)
    BY <1>3 DEF Rotate
<1>4. CASE file' = file
    BY <1>4
<1> QED
    BY <1>1, <1>2, <1>3, <1>4
    DEF Next, vars, Tick, Wipe, Migrate, Killed, Verify, Restore

LEMMA StampsStep == ASSUME TypeOK, NamesOK, [Next]_vars PROVE StampsOK'
<1>1. ASSUME NEW x \in Run, Start(x) \/ WriteBlock(x) \/ Dump(x) \/ DumpFails(x)
      PROVE  StampsOK'
  <2>1. /\ stamp'[x] \in Stamp /\ pc'[x] # "unstarted"
        /\ \A r \in Run \ {x} : pc'[r] = pc[r]
      BY <1>1, Writing
  <2>2. \A r \in Run \ {x} : stamp'[r] = stamp[r]
      BY <1>1 DEF Start, WriteBlock, Dump, DumpFails, TypeOK
  <2> QED
      BY <2>1, <2>2 DEF StampsOK, NamesOK
<1>2. ASSUME NEW x \in Run, Killed(x) \/ Check(x) \/ Rotate(x) PROVE StampsOK'
    BY <1>2 DEF Killed, Check, Rotate, Goto, Running, StampsOK, NamesOK, TypeOK
<1>3. CASE pc' = pc /\ stamp' = stamp
    BY <1>3 DEF StampsOK, NamesOK
<1> QED
    BY <1>1, <1>2, <1>3 DEF Next, vars, Tick, Wipe, Migrate, Verify, Restore

\* The clock, and when a run begins.
LEMMA TimeStep ==
    ASSUME TypeOK, NamesOK, [Next]_vars
    PROVE  /\ now' = now \/ Tick
           /\ \A r \in Run : began'[r] = began[r] \/ (Start(r) /\ began'[r] = now)
           /\ \A r \in Run : pc'[r] \in Running => pc[r] \in Running \/ Start(r)
<1>1. ASSUME NEW x \in Run, Start(x)
      PROVE  /\ now' = now /\ began'[x] = now
             /\ \A r \in Run \ {x} : began'[r] = began[r] /\ pc'[r] = pc[r]
    BY <1>1 DEF Start, Goto, TypeOK
<1>2. ASSUME NEW x \in Run,
             WriteBlock(x) \/ Dump(x) \/ DumpFails(x) \/ Killed(x) \/ Check(x) \/ Rotate(x)
      PROVE  /\ now' = now /\ began' = began /\ pc[x] \in Running
             /\ \A r \in Run \ {x} : pc'[r] = pc[r]
    BY <1>2 DEF WriteBlock, Dump, DumpFails, Killed, Check, Rotate, Goto, Running, TypeOK
<1>3. ASSUME \/ Tick \/ Wipe \/ Migrate \/ UNCHANGED vars
             \/ \E n \in Stamp : Verify(n) \/ Restore(n)
      PROVE  (now' = now \/ Tick) /\ began' = began /\ pc' = pc
    BY <1>3 DEF Tick, Wipe, Migrate, Verify, Restore, vars
<1> QED
    BY <1>1, <1>2, <1>3 DEF Next

LEMMA WritersStep == ASSUME TypeOK, NamesOK, [Next]_vars PROVE WritersOK'
<1> SUFFICES ASSUME NEW n \in Stamp, file'[n] # None
             PROVE  /\ file'[n].last \in file'[n].by /\ file'[n].time <= now'
                    /\ \A r \in file'[n].by : stamp'[r] = n /\ began'[r] <= file'[n].time
    BY DEF WritersOK, Present
<1>1. now \in Nat /\ now' \in Nat /\ now <= now' /\ \A r \in Run : began[r] \in Nat
    BY TimeStep DEF Tick, TypeOK
<1>2. ASSUME n \in Present
      PROVE  /\ file[n].last \in file[n].by /\ file[n].time <= now /\ file[n].time \in Nat
             /\ \A r \in file[n].by : /\ r \in Run /\ stamp'[r] = n /\ stamp[r] = n
                                      /\ began'[r] = began[r] /\ began[r] <= file[n].time
  <2>1. file[n] \in File
      BY <1>2 DEF TypeOK, Present
  <2>2. ASSUME NEW r \in file[n].by PROVE r \in Run /\ stamp[r] = n
      BY <1>2, <2>1 DEF NamesOK, WritersOK, File
  <2> QED
      BY <1>2, <2>1, <2>2, StartsOnce DEF NamesOK, WritersOK, File
<1>3. CASE file'[n] = file[n]
  <2>1. n \in Present
      BY <1>3 DEF Present
  <2> QED
      BY <1>1, <1>2, <1>3, <2>1
<1>4. ASSUME NEW x \in Run, stamp'[x] = n, pc[x] \in {"unstarted", "dumping"}, now' = now,
             file'[n].last = x, file'[n].time = now, file'[n].by = Writers(n) \cup {x}
      PROVE  /\ file'[n].last \in file'[n].by /\ file'[n].time <= now'
             /\ \A r \in file'[n].by : stamp'[r] = n /\ began'[r] <= file'[n].time
  <2>1. began'[x] <= now
    <3>1. CASE began'[x] = now
        BY <1>1, <3>1
    <3>2. CASE began'[x] = began[x] /\ pc[x] = "dumping"
        BY <3>2 DEF NamesOK, RunsOK, Running
    <3>3. CASE pc[x] = "unstarted"
      <4>1. stamp[x] \notin Stamp
          BY <3>3 DEF NamesOK, StampsOK
      <4>2. stamp' # stamp
          BY <1>4, <4>1
      <4>3. PICK y \in Run : Start(y)
          BY <4>2 DEF Next, vars, Tick, Wipe, Migrate, WriteBlock, Dump, DumpFails, Killed,
                      Check, Rotate, Verify, Restore
      <4>4. y = x
          BY <1>4, <4>1, <4>3 DEF Start, TypeOK
      <4> QED
          BY <1>1, <4>3, <4>4 DEF Start, TypeOK
    <3> QED
        BY <1>4, <3>1, <3>2, <3>3, TimeStep
  <2>2. \A r \in Writers(n) : stamp'[r] = n /\ began'[r] <= now
      BY <1>1, <1>2 DEF Writers, Present
  <2> QED
      BY <1>1, <1>4, <2>1, <2>2
<1> QED
    BY <1>3, <1>4, FileStep

LEMMA RunsStep == ASSUME TypeOK, NamesOK, [Next]_vars PROVE RunsOK'
<1> SUFFICES ASSUME NEW r \in Run, pc'[r] \in Running
             PROVE  /\ began'[r] <= now' /\ now' - began'[r] < Day
                    /\ stamp'[r] \in Present' \/ Shared(stamp[r])'
    BY DEF RunsOK
<1>0. now \in Nat /\ began[r] \in Nat /\ Day \in Nat /\ Day > 0
    BY ClockAssumption DEF TypeOK
<1>1. CASE Start(r)
  <2>1. PICK n \in Stamp : stamp' = [stamp EXCEPT ![r] = n] /\ file' = Written(r, n, "torn")
      BY <1>1 DEF Start
  <2>2. stamp'[r] = n
      BY <2>1 DEF TypeOK
  <2>3. file'[n] = [part |-> "torn", time |-> now, by |-> Writers(n) \cup {r}, last |-> r]
      BY <2>1 DEF Written, TypeOK
  <2>4. Writers(n) \subseteq Run
      BY DEF TypeOK, Writers, Present, File
  <2>5. file'[n] \in File
      BY <1>0, <2>3, <2>4 DEF File, FilePart
  <2>6. began'[r] = now /\ now' = now
      BY <1>1 DEF Start, TypeOK
  <2> QED
      BY <1>0, <2>2, <2>5, <2>6, NoneIsNothing DEF Present
<1>2. CASE pc[r] \in Running
  <2>1. /\ began[r] <= now /\ now - began[r] < Day /\ stamp[r] \in Stamp
        /\ stamp[r] \in Present \/ Shared(stamp[r])
      BY <1>2 DEF NamesOK, RunsOK, StampsOK, Running
  <2>2. stamp'[r] = stamp[r] /\ began'[r] = began[r]
      BY <2>1, StartsOnce
  <2>3. now' = now \/ (now' = now + 1 /\ now - began[r] < Day - 1)
      BY <1>2, TimeStep DEF Tick
  <2>4. CASE Shared(stamp[r])
    <3>1. PICK n \in Stamp : n = stamp[r]
        BY <2>1
    <3>2. Shared(n)'
        BY <2>4, <3>1, SharedStays
    <3>3. Shared(stamp[r])'
        BY <2>2, <3>1, <3>2 DEF Shared
    <3> QED
        BY <1>0, <2>1, <2>2, <2>3, <3>3
  <2>5. CASE ~ Shared(stamp[r])
    <3>1. PICK n \in Stamp : n = stamp[r]
        BY <2>1
    <3>2. n \in Present /\ file[n].by = {r}
        BY <2>1, <2>5, <3>1, LoneRunWrote
    <3>3. ~ Old(n)
        BY <1>0, <1>2, <3>2, OldIsOlder
    <3>4. ~ \E x \in Run : stamp[x] = n /\ pc[x] = "checking" /\ pc'[x] = "failed"
        BY <2>5, <3>1 DEF Shared, Running
    <3>5. file'[n] = file[n] \/ file'[n] \in File
        BY <3>3, <3>4, FileStep
    <3>6. n \in Present'
        BY <3>2, <3>5, NoneIsNothing DEF Present
    <3> QED
        BY <1>0, <2>1, <2>2, <2>3, <3>1, <3>6
  <2> QED
      BY <2>4, <2>5
<1> QED
    BY <1>1, <1>2, TimeStep

LEMMA NamesStep == ASSUME TypeOK, NamesOK, [Next]_vars PROVE NamesOK'
BY StampsStep, WritersStep, RunsStep DEF NamesOK
-----------------------------------------------------------------------------
\* Where a run can go from.
LEMMA RunMoves ==
    ASSUME TypeOK, [Next]_vars, NEW r \in Run
    PROVE  /\ pc[r] = "failed" => pc'[r] = "failed"
           /\ pc[r] = "checking" => pc'[r] \in {"checking", "failed"} \/ Sound(stamp[r])
           /\ pc[r] = "dumping" => pc'[r] \in {"dumping", "checking", "failed"}
           /\ pc'[r] = "dumping" => pc[r] \in {"unstarted", "dumping"}
           /\ pc'[r] = "done" => pc[r] = "done" \/ Rotate(r)
<1>1. ASSUME NEW x \in Run, Start(x) \/ WriteBlock(x) \/ Dump(x) \/ DumpFails(x)
      PROVE  \/ pc'[r] = pc[r]
             \/ pc[r] = "unstarted" /\ pc'[r] = "dumping"
             \/ pc[r] = "dumping" /\ pc'[r] \in {"checking", "failed"}
    BY <1>1 DEF Start, WriteBlock, Dump, DumpFails, Goto, AfterFailure, TypeOK
<1>2. ASSUME NEW x \in Run, Killed(x) \/ Check(x) \/ Rotate(x)
      PROVE  \/ pc'[r] = pc[r]
             \/ pc[r] \in Running /\ pc'[r] = "failed"
             \/ pc[r] = "checking" /\ Sound(stamp[r]) /\ pc'[r] = "rotating"
             \/ pc[r] = "rotating" /\ Rotate(r) /\ pc'[r] = "done"
    BY <1>2 DEF Killed, Check, Rotate, Goto, TypeOK
<1>3. ASSUME \/ Tick \/ Wipe \/ Migrate \/ UNCHANGED vars
             \/ \E n \in Stamp : Verify(n) \/ Restore(n)
      PROVE  pc' = pc
    BY <1>3 DEF Tick, Wipe, Migrate, Verify, Restore, vars
<1> QED
    BY <1>1, <1>2, <1>3 DEF Next, Running

LEMMA PartsStep == ASSUME TypeOK, NamesOK, PartsOK, [Next]_vars PROVE PartsOK'
<1> SUFFICES ASSUME NEW n \in Stamp, file'[n] # None
             PROVE  /\ pc'[file'[n].last] = "dumping" => file'[n].part = "torn"
                    /\ file'[n].part \in {"rows", "part"} => SomeAt(n, {"failed"})'
                    /\ file'[n].part = "short" => SomeAt(n, {"failed", "checking"})'
                    /\ file'[n].part = "torn" => SomeAt(n, {"failed", "checking", "dumping"})'
    BY DEF PartsOK, Present
<1>1. CASE file'[n] = file[n]
  <2>1. n \in Present /\ file[n] \in File
      BY <1>1 DEF Present, TypeOK
  <2>2. ASSUME NEW r \in file[n].by PROVE r \in Run /\ stamp[r] = n /\ pc[r] # "unstarted"
      BY <2>1 DEF NamesOK, WritersOK, StampsOK, File
  <2>3. pc'[file[n].last] = "dumping" => file[n].part = "torn"
    <3>1. file[n].last \in Run /\ pc[file[n].last] # "unstarted"
        BY <2>1, <2>2 DEF NamesOK, WritersOK
    <3> QED
        BY <2>1, <3>1, RunMoves DEF PartsOK
  <2>4. file[n].part \in {"rows", "part"} => SomeAt(n, {"failed"})'
      BY <1>1, <2>1, <2>2, RunMoves DEF PartsOK, SomeAt
  <2>5. ASSUME file[n].part \in {"short", "torn"}, NEW r \in file[n].by, pc[r] = "checking"
        PROVE  pc'[r] \in {"checking", "failed"}
      BY <2>2, <2>5, RunMoves DEF Sound, WellFormed, LongEnough
  <2>6. file[n].part = "short" => SomeAt(n, {"failed", "checking"})'
    <3> SUFFICES ASSUME file[n].part = "short"
                 PROVE  \E r \in file'[n].by : pc'[r] \in {"failed", "checking"}
        BY DEF SomeAt
    <3>1. PICK r \in file[n].by : pc[r] \in {"failed", "checking"}
        BY <2>1 DEF PartsOK, SomeAt
    <3> QED
        BY <1>1, <2>2, <2>5, <3>1, RunMoves
  <2>7. file[n].part = "torn" => SomeAt(n, {"failed", "checking", "dumping"})'
    <3> SUFFICES ASSUME file[n].part = "torn"
                 PROVE  \E r \in file'[n].by : pc'[r] \in {"failed", "checking", "dumping"}
        BY DEF SomeAt
    <3>1. PICK r \in file[n].by : pc[r] \in {"failed", "checking", "dumping"}
        BY <2>1 DEF PartsOK, SomeAt
    <3> QED
        BY <1>1, <2>2, <2>5, <3>1, RunMoves
  <2> QED
      BY <1>1, <2>3, <2>4, <2>6, <2>7
<1>2. ASSUME NEW x \in Run, file'[n].last = x, file'[n].by = Writers(n) \cup {x},
             Fits(pc'[x], file'[n].part)
      PROVE  /\ pc'[file'[n].last] = "dumping" => file'[n].part = "torn"
             /\ file'[n].part \in {"rows", "part"} => SomeAt(n, {"failed"})'
             /\ file'[n].part = "short" => SomeAt(n, {"failed", "checking"})'
             /\ file'[n].part = "torn" => SomeAt(n, {"failed", "checking", "dumping"})'
    BY <1>2 DEF Fits, SomeAt
<1> QED
    BY <1>1, <1>2, FileStep
-----------------------------------------------------------------------------
LEMMA CountedHasRows ==
    ASSUME TypeOK, NEW n \in Present, MigrationsCounted(n) PROVE file[n].part \in AllRows
<1>1. file[n] \in File
    BY DEF TypeOK, Present
<1>2. file[n].part \in FilePart /\ snapshot[file[n].last] \in Holding
    BY <1>1 DEF TypeOK, File
<1> QED
    BY <1>2 DEF MigrationsCounted, Restored, FilePart, AllRows, Holding

LEMMA VerifiedStep ==
    ASSUME TypeOK, NamesOK, PartsOK, VerifiedOK, [Next]_vars PROVE VerifiedOK'
<1>1. ASSUME NEW n \in verified, ~ Shared(n)'
      PROVE  /\ \E r \in Run : stamp'[r] = n
             /\ n \in Present' => WellFormed(n)' /\ MigrationsCounted(n)'
  <2>1. PICK r \in Run : stamp[r] = n
      BY DEF VerifiedOK
  <2>2. n \in Stamp /\ stamp'[r] = n /\ ~ Shared(n)
      BY <1>1, <2>1, StartsOnce, SharedStays DEF TypeOK
  <2>3. n \in Present => /\ WellFormed(n) /\ MigrationsCounted(n)
                         /\ file[n].last = r /\ snapshot'[r] = snapshot[r]
      BY <2>1, <2>2, LoneRunWrote, StartsOnce DEF VerifiedOK
  <2>4. CASE file'[n] = file[n]
      BY <2>2, <2>3, <2>4 DEF Present, WellFormed, MigrationsCounted, Restored
  <2>5. CASE file'[n] = None
      BY <2>1, <2>2, <2>5 DEF Present
  <2>6. ASSUME NEW x \in Run, stamp'[x] = n, pc[x] \in {"unstarted", "dumping"} PROVE FALSE
    <3>1. x = r
        BY <1>1, <2>2, <2>6 DEF Shared
    <3>2. pc[r] = "dumping"
        BY <2>1, <2>2, <2>6, <3>1 DEF NamesOK, StampsOK
    <3>3. n \in Present
        BY <2>1, <2>2, <3>2 DEF NamesOK, RunsOK, Running
    <3> QED
        BY <2>3, <3>2, <3>3 DEF PartsOK, WellFormed
  <2> QED
      BY <2>2, <2>4, <2>5, <2>6, FileStep
<1>2. ASSUME NEW n \in verified', n \notin verified
      PROVE  /\ \E r \in Run : stamp'[r] = n
             /\ n \in Present' => WellFormed(n)' /\ MigrationsCounted(n)'
  <2>1. PICK m \in Stamp : Verify(m)
      BY <1>2 DEF Next, vars, Tick, Wipe, Migrate, Start, WriteBlock, Dump, DumpFails, Killed,
                  Check, Rotate, Restore
  <2>2. /\ m = n /\ n \in Present /\ WellFormed(n) /\ MigrationsCounted(n)
        /\ file' = file /\ stamp' = stamp /\ snapshot' = snapshot
      BY <1>2, <2>1 DEF Verify
  <2>3. file[n].last \in Run /\ stamp[file[n].last] = n
      BY <2>2 DEF TypeOK, Present, File, NamesOK, WritersOK
  <2> QED
      BY <2>2, <2>3 DEF WellFormed, MigrationsCounted, Restored
<1>3. ASSUME NEW n \in verified PROVE \E r \in Run : stamp'[r] = n
  <2>1. PICK r \in Run : stamp[r] = n
      BY DEF VerifiedOK
  <2> QED
      BY <2>1, StartsOnce DEF TypeOK
<1>4. VerifiedHoldsRows'
  <2> SUFFICES ASSUME NEW n \in Stamp, db'.from = n PROVE db'.all \/ Shared(n)'
      BY DEF VerifiedHoldsRows, Shared
  <2>1. ASSUME NEW m \in Stamp, Restore(m) PROVE db'.all \/ Shared(n)'
    <3>1. PICK has \in Restored(m) :
            db' = [has |-> has, from |-> IF m \in verified THEN m ELSE None,
                   all |-> m \in verified => file[m].part \in AllRows]
        BY <2>1 DEF Restore
    <3>2. m = n /\ n \in verified /\ n \in Present
        BY <2>1, <3>1, NoneIsNothing DEF Restore
    <3>3. Shared(n) \/ file[n].part \in AllRows
        BY <3>2, CountedHasRows DEF VerifiedOK
    <3> QED
        BY <3>1, <3>2, <3>3, SharedStays
  <2>2. CASE Wipe
      BY <2>2, NoneIsNothing DEF Wipe
  <2>3. CASE Migrate \/ db' = db
    <3>1. db'.from = db.from /\ db'.all = db.all
        BY <2>3 DEF Migrate, TypeOK
    <3> QED
        BY <3>1, SharedStays DEF VerifiedOK, VerifiedHoldsRows
  <2> QED
      BY <2>1, <2>2, <2>3
      DEF Next, vars, Tick, Start, WriteBlock, Dump, DumpFails, Killed, Check, Rotate, Verify
<1> QED
    BY <1>1, <1>2, <1>3, <1>4 DEF VerifiedOK
-----------------------------------------------------------------------------
Kept(r) == \E n \in Present : file[n].part = "whole" /\ began[file[n].last] >= began[r]
Taken(r) == \E n \in Stamp, p \in Run : Shared(n) /\ stamp[p] = n /\ began[p] >= began[r]

LEMMA TakenStays ==
    ASSUME TypeOK, NamesOK, [Next]_vars, NEW r \in Run, stamp[r] \in Stamp, Taken(r)
    PROVE  Taken(r)'
<1>1. PICK n \in Stamp, p \in Run : Shared(n) /\ stamp[p] = n /\ began[p] >= began[r]
    BY DEF Taken
<1>2. Shared(n)' /\ stamp'[p] = n /\ began'[p] = began[p] /\ began'[r] = began[r]
    BY <1>1, SharedStays, StartsOnce
<1> QED
    BY <1>1, <1>2 DEF Taken

\* The run that rotates keeps its own dump, which is whole and less than a day
\* old: it takes the place of the dumps it deletes.
LEMMA RotationKeeps ==
    ASSUME TypeOK, NamesOK, PartsOK, NEW p \in Run, Rotate(p), NEW r \in Run,
           began[p] >= began[r]
    PROVE  (Kept(r) \/ Taken(r))'
<1>1. /\ pc[p] = "rotating" /\ began' = began /\ stamp' = stamp
      /\ \A n \in Stamp : file'[n] = IF Old(n) THEN None ELSE file[n]
    BY DEF Rotate, Goto
<1>2. PICK n \in Stamp : stamp[p] = n
    BY <1>1 DEF NamesOK, StampsOK
<1>3. CASE Shared(n)
    BY <1>1, <1>2, <1>3 DEF Taken, Shared
<1>4. CASE ~ Shared(n)
  <2>1. n \in Present /\ file[n].last = p /\ file[n].by = {p}
      BY <1>1, <1>2, <1>4, LoneRunWrote DEF NamesOK, RunsOK, Running
  <2>2. file[n].part \in FilePart
      BY <2>1 DEF TypeOK, Present, File
  <2>3. file[n].part = "whole"
      BY <1>1, <2>1, <2>2 DEF PartsOK, SomeAt, FilePart
  <2>4. began[p] \in Nat
      BY DEF TypeOK
  <2>5. ~ Old(n)
      BY <1>1, <2>1, <2>4, OldIsOlder DEF Running
  <2> QED
      BY <1>1, <2>1, <2>3, <2>5 DEF Kept, Present
<1> QED
    BY <1>3, <1>4

LEMMA DoneStep ==
    ASSUME TypeOK, NamesOK, PartsOK, DoneIsKept, [Next]_vars PROVE DoneIsKept'
<1> SUFFICES ASSUME NEW r \in Run, pc'[r] = "done" PROVE (Kept(r) \/ Taken(r))'
    BY DEF DoneIsKept, Kept, Taken
<1>0. \A q \in Run : began[q] \in Nat
    BY DEF TypeOK
<1>1. CASE Rotate(r)
    BY <1>0, <1>1, RotationKeeps
<1>2. CASE pc[r] = "done"
  <2>1. stamp[r] \in Stamp
      BY <1>2 DEF NamesOK, StampsOK
  <2>2. CASE Taken(r)
      BY <2>1, <2>2, TakenStays
  <2>3. CASE Kept(r)
    <3>1. PICK n \in Present : file[n].part = "whole" /\ began[file[n].last] >= began[r]
        BY <2>3 DEF Kept
    <3>2. PICK x \in Run : x = file[n].last /\ x \in file[n].by /\ stamp[x] = n
        BY <3>1 DEF TypeOK, Present, File, NamesOK, WritersOK
    <3>3. n \in Stamp /\ stamp'[x] = n /\ began'[x] = began[x] /\ began'[r] = began[r]
        BY <2>1, <3>1, <3>2, StartsOnce DEF Present
    <3>4. CASE file'[n] = file[n]
        BY <3>1, <3>2, <3>3, <3>4 DEF Kept, Present
    <3>5. ASSUME NEW y \in Run, stamp'[y] = n, pc[y] \in {"unstarted", "dumping"}
          PROVE  Taken(r)'
      <4>1. y # x
        <5>1. ASSUME y = x PROVE FALSE
          <6>1. pc[x] = "dumping"
              BY <3>2, <3>3, <3>5, <5>1 DEF NamesOK, StampsOK
          <6> QED
              BY <3>1, <3>2, <6>1 DEF PartsOK
        <5> QED
            BY <5>1
      <4>2. Shared(n)'
          BY <3>3, <3>5, <4>1 DEF Shared
      <4> QED
          BY <3>1, <3>2, <3>3, <4>2 DEF Taken
    <3>6. Sound(n)
        BY <3>1 DEF Sound, WellFormed, LongEnough
    <3>7. ASSUME Old(n), NEW p \in Run, Rotate(p) PROVE (Kept(r) \/ Taken(r))'
      <4>1. pc[p] \in Running
          BY <3>7 DEF Rotate, Goto, Running
      <4>2. began[x] < began[p]
          BY <3>2, <3>3, <3>7, <4>1, OldIsOlder
      <4> QED
          BY <1>0, <3>1, <3>2, <3>7, <4>2, RotationKeeps
    <3> QED
        BY <3>3, <3>4, <3>5, <3>6, <3>7, FileStep
  <2> QED
      BY <1>2, <2>2, <2>3 DEF DoneIsKept, Kept, Taken
<1> QED
    BY <1>1, <1>2, RunMoves
-----------------------------------------------------------------------------
LEMMA SafeAlways == Spec => []Safe
<1>1. Safe /\ [Next]_vars => Safe'
    BY TypeStep, NamesStep, PartsStep, VerifiedStep, DoneStep DEF Safe
<1> QED
    BY InitSafe, <1>1, PTL DEF Spec

\* backup-db.sh, the rotation by age: a run that said "Done" leaves its dump or
\* a complete dump by a run that did not begin before it, until two runs take
\* one name.
THEOREM DoneIsKeptAlways == Spec => []DoneIsKept
BY SafeAlways, PTL DEF Safe

\* check-backup-freshness.sh: a file it finds good and fresh is a complete dump,
\* unless a run that wrote to it failed or has yet to check it.
THEOREM FooledByFailureOnlyAlways == Spec => []FooledByFailureOnly
<1>1. Safe => FooledByFailureOnly
  <2> SUFFICES ASSUME Safe, NEW n \in Stamp, FreshnessOk(n)
               PROVE  \/ file[n].part = "whole"
                      \/ \E r \in file[n].by : pc[r] \in {"failed", "checking"}
      BY DEF FooledByFailureOnly
  <2>1. n \in Present /\ file[n].part # "torn" /\ file[n].part \in FilePart
      BY DEF FreshnessOk, Newest, WellFormed, Safe, TypeOK, Present, File
  <2> QED
      BY <2>1 DEF Safe, PartsOK, SomeAt, FilePart
<1> QED
    BY SafeAlways, <1>1, PTL

\* verify-backup-restore.sh and restore-db.sh: a database restored from a file
\* that was verified got every row of the application's tables in the dumped
\* one, unless two runs took the name of that file.
THEOREM VerifiedHoldsRowsAlways == Spec => []VerifiedHoldsRows
BY SafeAlways, PTL DEF Safe, VerifiedOK
=============================================================================
