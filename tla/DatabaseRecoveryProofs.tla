------------------------ MODULE DatabaseRecoveryProofs -------------------------
(***************************************************************************)
(* Proofs about DatabaseRecovery: for any number of processes, writes and  *)
(* files, opening the database finds what was last acknowledged, but for   *)
(* the accounting and the restored file that PromiseKept excepts.          *)
(***************************************************************************)
EXTENDS DatabaseRecovery, TLAPS

-------------------------------------------------------------------------------
(* Types.                                                                  *)

LEMMA FoundTyped == TypeOK => Found \in Image
<1> SUFFICES ASSUME TypeOK PROVE Found \in Image
  OBVIOUS
<1>1. target.image \in Image
  BY DEF TypeOK, File
<1>2. ASSUME log.frames # {} PROVE (CHOOSE f \in log.frames : TRUE).image \in Db
  <2>1. (CHOOSE f \in log.frames : TRUE) \in log.frames
    BY <1>2
  <2>2. log.frames \subseteq Frames
    BY DEF TypeOK, Log
  <2> QED
    BY <2>1, <2>2 DEF Frames
<1>3. Stored(target, log) \in Image
  BY <1>1, <1>2 DEF Stored, Image
<1> QED
  BY <1>3 DEF Found, Finding, Image

LEMMA FileTyped ==
  ASSUME TypeOK
  PROVE  /\ target.gen \in 0..MaxFiles /\ target.image \in Image /\ target.wal \in BOOLEAN
         /\ \A x \in Image : [target EXCEPT !.image = x] \in File
         /\ Opened \in File /\ [Opened EXCEPT !.wal = TRUE] \in File
<1>1. /\ target.gen \in 0..MaxFiles /\ target.image \in Image /\ target.wal \in BOOLEAN
      /\ \A x \in Image : [target EXCEPT !.image = x] \in File
      /\ [target EXCEPT !.image = Found, !.wal = FALSE] \in File
  BY FoundTyped DEF TypeOK, File
<1>2. Opened \in File
  BY <1>1 DEF Opened, TypeOK
<1>3. [Opened EXCEPT !.wal = TRUE] \in File
  BY <1>2 DEF File
<1> QED
  BY <1>1, <1>2, <1>3

LEMMA LogTyped ==
  ASSUME TypeOK
  PROVE  /\ NoLog \in Log /\ Attached(log) \in Log /\ Attached(NoLog) \in Log
         /\ [NoLog EXCEPT !.wal = TRUE] \in Log
         /\ OpenedLog \in Log /\ Attached(OpenedLog) \in Log
         /\ \A x \in Db : [log EXCEPT !.frames = {[of |-> target.gen, image |-> x]}] \in Log
<1>1. NoLog \in Log /\ Attached(NoLog) \in Log /\ [NoLog EXCEPT !.wal = TRUE] \in Log
  BY DEF NoLog, Log, Attached
<1>2. log \in Log
  BY DEF TypeOK
<1>3. Attached(log) \in Log /\ OpenedLog \in Log
  BY <1>1, <1>2 DEF Log, Attached, OpenedLog
<1>5. Attached(OpenedLog) \in Log
  BY <1>3 DEF Log, Attached
<1>4. ASSUME NEW x \in Db
      PROVE  [log EXCEPT !.frames = {[of |-> target.gen, image |-> x]}] \in Log
  <2>1. {[of |-> target.gen, image |-> x]} \subseteq Frames
    BY FileTyped DEF Frames
  <2> QED
    BY <1>2, <2>1 DEF Log
<1> QED
  BY <1>1, <1>3, <1>4, <1>5

LEMMA EarlierTyped ==
  TypeOK => Earlier \in [file: File, log: Log, journal: Journals, promised: Image,
                        mixed: BOOLEAN]
BY DEF TypeOK, Earlier

LEMMA DetachTyped ==
  ASSUME TypeOK, NEW p \in Procs, NEW x \in Image, NEW l \in Log, Detach(p, x, l)
  PROVE  target' \in File /\ log' \in Log
BY FileTyped, LogTyped DEF Detach, TypeOK

LEMMA MigratedTyped ==
  ASSUME NEW x \in Db, NEW v
  PROVE  /\ Migrated(x, v) \in Db /\ Migrated(x, v).version = Current
         /\ Migrated(x, v).id = x.id /\ Migrated(x, v).writes = x.writes
         /\ Migrated(x, v).reset =
              IF v < Rebuild THEN x.reset \cup (x.writes \cap Evidence) ELSE x.reset
<1> DEFINE gone == IF v < Rebuild THEN x.reset \cup (x.writes \cap Evidence) ELSE x.reset
<1>1. gone \in SUBSET Evidence
  BY DEF Db
<1>2. Migrated(x, v) = [x EXCEPT !.version = Current, !.reset = gone]
  BY DEF Migrated
<1> HIDE DEF gone
<1>3. Current \in 1..Newest
  BY VersionAssumption
<1> DEFINE y == [x EXCEPT !.version = Current, !.reset = gone]
<1>4. y \in Db
  BY <1>1, <1>3 DEF Db
<1>5. y.version = Current /\ y.id = x.id /\ y.writes = x.writes /\ y.reset = gone
  BY DEF Db
<1> QED
  BY <1>2, <1>4, <1>5 DEF gone

\* Who read the current version has nothing to migrate.
LEMMA MigratedSame ==
  ASSUME NEW x \in Db, x.version = Current
  PROVE  Migrated(x, Current) = x
<1>1. ~(Current < Rebuild)
  BY RebuildAssumption, VersionAssumption
<1>2. Migrated(x, Current) = [x EXCEPT !.version = x.version, !.reset = x.reset]
  BY <1>1 DEF Migrated
<1> QED
  BY <1>2 DEF Db

LEMMA FreshTyped ==
  ASSUME NEW i \in Instances
  PROVE  [id |-> i, version |-> Current, writes |-> {}, reset |-> {}] \in Db
BY VersionAssumption DEF Db

LEMMA DueTyped == TypeOK => Due \in SUBSET Evidence
BY DEF TypeOK, Due, Db

LEMMA PromiseTyped ==
  ASSUME NEW x \in Db, NEW gone \in SUBSET Evidence
  PROVE  /\ [x EXCEPT !.reset = gone] \in Db /\ [x EXCEPT !.reset = gone].reset = gone
         /\ [x EXCEPT !.reset = gone].id = x.id
         /\ [x EXCEPT !.reset = gone].version = x.version
         /\ [x EXCEPT !.reset = gone].writes = x.writes
BY DEF Db

LEMMA DownTyped ==
  /\ Down \in Proc
  /\ \A g \in 0..MaxFiles, v \in 0..Current :
       [Down EXCEPT !.step = "starting", !.on = g, !.seen = v] \in Proc
  /\ \A g \in 0..MaxFiles : [Down EXCEPT !.step = "starting", !.on = g] \in Proc
  /\ \A i \in Instances : [Down EXCEPT !.step = "up", !.source = {i}] \in Proc
<1>1. /\ 0 \in 0..MaxFiles /\ 0 \in 0..Current
      /\ {"down", "starting", "up"} \subseteq Steps
  BY VersionAssumption, BoundAssumption DEF Steps
<1>2. Down \in Proc
  BY <1>1 DEF Down, Proc
<1>3. \A g \in 0..MaxFiles, v \in 0..Current :
        [Down EXCEPT !.step = "starting", !.on = g, !.seen = v] \in Proc
  BY <1>1, <1>2 DEF Proc
<1>4. \A g \in 0..MaxFiles : [Down EXCEPT !.step = "starting", !.on = g] \in Proc
  BY <1>1, <1>2 DEF Proc
<1>5. \A i \in Instances : [Down EXCEPT !.step = "up", !.source = {i}] \in Proc
  BY <1>1, <1>2 DEF Proc
<1> QED
  BY <1>2, <1>3, <1>4, <1>5

LEMMA InitTyped == Init => TypeOK
<1> SUFFICES ASSUME Init PROVE TypeOK
  OBVIOUS
<1>1. NoLog \in Log /\ Down \in Proc /\ Idle \in Restore
  BY DownTyped DEF NoLog, Log, Idle, Restore, Image
<1>2. PICK x \in {Missing} \cup [id: Instances, version: 1..Newest, writes: {{}}, reset: {{}}] :
        target = [gen |-> 0, image |-> x, wal |-> x # Missing] /\ promised = x
  BY DEF Init
<1>3. x \in Image /\ target \in File
  BY <1>2, BoundAssumption DEF Image, Db, File
<1>4. PICK y \in {Missing} \cup [id: Instances, version: 1..Newest, writes: {Writes}, reset: {{}}] :
        archive = [image |-> y, wal |-> TRUE, due |-> y]
  BY DEF Init
<1>5. archive \in Backup
  BY <1>4 DEF Image, Db, Backup
<1>6. "none" \in Journals
  BY DEF Journals
<1> QED
  BY <1>1, <1>2, <1>3, <1>5, <1>6 DEF Init, TypeOK

LEMMA ProcTyped ==
  ASSUME TypeOK, NEW p \in Procs, NEW r \in Proc, Becomes(p, r)
  PROVE  proc' \in [Procs -> Proc]
BY DEF TypeOK, Becomes

LEMMA NoJournal == "none" \in Journals /\ "none" \notin Strays
BY DEF Journals, Strays

LEMMA StartTyped ==
  ASSUME TypeOK, NEW p \in Procs,
         Create(p) \/ Start(p) \/ RefuseNewer(p) \/ RefuseTorn(p) \/ StartCommand(p)
  PROVE  TypeOK'
<1>1. CASE Create(p)
  <2>1. /\ target.gen + 1 \in 0..MaxFiles
        /\ target' = [gen |-> target.gen + 1, image |-> Blank, wal |-> FALSE]
    BY <1>1, FileTyped, BoundAssumption DEF Create
  <2>2. target' \in File /\ promised' \in Image
    BY <1>1, <2>1 DEF Create, File, Image
  <2>3. proc' \in [Procs -> Proc]
    BY <1>1, <2>1, ProcTyped, DownTyped DEF Create
  <2> QED
    BY <1>1, <2>2, <2>3, EarlierTyped, NoJournal DEF Create, TypeOK
<1>2. CASE Start(p)
  <2>1. PICK v \in 0..Current :
          Becomes(p, [Down EXCEPT !.step = "starting", !.on = target.gen, !.seen = v])
    BY <1>2 DEF Start
  <2>2. proc' \in [Procs -> Proc]
    BY <2>1, FileTyped, DownTyped, ProcTyped
  <2>3. target' \in File /\ log' \in Log
    BY <1>2, FileTyped, LogTyped DEF Start
  <2> QED
    BY <1>2, <2>2, <2>3, NoJournal DEF Start, TypeOK
<1>3. CASE RefuseNewer(p)
  <2>1. target' \in File /\ log' \in Log
    BY <1>3, FoundTyped, DetachTyped DEF RefuseNewer, TypeOK
  <2> QED
    BY <1>3, <2>1, NoJournal DEF RefuseNewer, TypeOK
<1>7. CASE RefuseTorn(p)
  BY <1>7, FileTyped, LogTyped, NoJournal DEF RefuseTorn, TypeOK
<1>4. CASE Migrate(p)
  <2>1. PICK i \in Instances :
          LET new == IF Found = Blank
                     THEN [id |-> i, version |-> Current, writes |-> {}, reset |-> {}]
                     ELSE Migrated(Found, proc[p].seen)
              ran == proc[p].seen < Current
              l   == IF ran
                     THEN [log EXCEPT !.frames = {[of |-> target.gen, image |-> new]}]
                     ELSE log
          IN /\ Detach(p, new, l)
             /\ promised' = [new EXCEPT !.reset = Due]
             /\ pending' = IF ran THEN {} ELSE pending
             /\ Becomes(p, [Down EXCEPT !.step = "up", !.source = {new.id}])
    BY <1>4 DEF Migrate
  <2> DEFINE new == IF Found = Blank
                    THEN [id |-> i, version |-> Current, writes |-> {}, reset |-> {}]
                    ELSE Migrated(Found, proc[p].seen)
             ran == proc[p].seen < Current
             l   == IF ran
                    THEN [log EXCEPT !.frames = {[of |-> target.gen, image |-> new]}]
                    ELSE log
  <2>2. new \in Db
    BY <1>4, FreshTyped, MigratedTyped DEF Migrate
  <2>3. l \in Log
    BY <2>2, LogTyped DEF TypeOK
  <2>4. /\ Detach(p, new, l)
        /\ promised' = [new EXCEPT !.reset = Due]
        /\ pending' = IF ran THEN {} ELSE pending
        /\ Becomes(p, [Down EXCEPT !.step = "up", !.source = {new.id}])
    BY <2>1
  <2> HIDE DEF new, l
  <2>5. target' \in File /\ log' \in Log /\ promised' \in Image
    BY <2>2, <2>3, <2>4, DetachTyped, DueTyped, PromiseTyped DEF Image
  <2>6. proc' \in [Procs -> Proc]
    BY <2>2, <2>4, DownTyped, ProcTyped DEF Db
  <2> QED
    BY <1>4, <2>4, <2>5, <2>6, NoJournal DEF Migrate, TypeOK
<1>5. CASE MigrateReplaced(p)
  <2>1. proc' \in [Procs -> Proc]
    BY <1>5, DownTyped, ProcTyped DEF MigrateReplaced
  <2> QED
    BY <1>5, <2>1, NoJournal DEF MigrateReplaced, TypeOK
<1>6. CASE RefuseMigration(p)
  <2>1. proc' \in [Procs -> Proc]
    BY <1>6, DownTyped, ProcTyped DEF RefuseMigration
  <2>2. target' \in File /\ log' \in Log
    BY <1>6, FoundTyped, DetachTyped DEF RefuseMigration, TypeOK
  <2> QED
    BY <1>6, <2>1, <2>2, NoJournal DEF RefuseMigration, TypeOK
<1> QED
  BY <1>1, <1>2, <1>3, <1>4, <1>5, <1>6, <1>7 DEF StartCommand

LEMMA ServeTyped ==
  ASSUME TypeOK, NEW p \in Procs, Serve(p)
  PROVE  TypeOK'
<1>1. proc[p] \in Proc
  BY DEF TypeOK
<1>2. CASE Open(p)
  <2>1. [proc[p] EXCEPT !.step = "open", !.on = target.gen] \in Proc
    BY <1>1, FileTyped DEF Proc, Steps
  <2> QED
    BY <1>2, <2>1, ProcTyped, FileTyped, LogTyped, NoJournal DEF Open, TypeOK
<1>3. ASSUME NEW x \in Writes, Commit(p, x) PROVE TypeOK'
  <2> DEFINE new == [Found EXCEPT !.writes = @ \cup {x}]
  <2>1. new \in Db
    BY <1>3 DEF Commit, Db
  <2>2. /\ log' = [log EXCEPT !.frames = {[of |-> target.gen, image |-> new]}]
        /\ promised' = [new EXCEPT !.reset = Due \cup ({x} \cap AtRisk)]
    BY <1>3 DEF Commit
  <2> HIDE DEF new
  <2>3. Due \cup ({x} \cap AtRisk) \in SUBSET Evidence
    BY DueTyped DEF AtRisk
  <2>4. log' \in Log /\ promised' \in Image
    BY <2>1, <2>2, <2>3, LogTyped, PromiseTyped DEF Image
  <2> QED
    BY <1>3, <2>4 DEF Commit, TypeOK
<1>4. CASE Close(p)
  <2>0. 0 \in 0..MaxFiles /\ "up" \in Steps
    BY BoundAssumption DEF Steps
  <2>1. [proc[p] EXCEPT !.step = "up", !.on = 0] \in Proc
    BY <1>1, <2>0 DEF Proc
  <2>2. target' \in File /\ log' \in Log
    BY <1>4, FoundTyped, DetachTyped DEF Close, TypeOK
  <2> QED
    BY <1>4, <2>1, <2>2, ProcTyped DEF Close, TypeOK
<1>5. CASE Stop(p)
  BY <1>5, DownTyped, ProcTyped DEF Stop, files, TypeOK
<1> QED
  BY <1>2, <1>3, <1>4, <1>5 DEF Serve

LEMMA BackupTyped ==
  ASSUME TypeOK, NEW p \in Procs, Copy(p) \/ BackupCommand(p)
  PROVE  TypeOK'
<1>1. proc[p] \in Proc /\ archive \in Backup
  BY DEF TypeOK
<1>2. CASE Copy(p)
  <2> DEFINE b == [image |-> Found, wal |-> target.wal, due |-> promised]
  <2>1. b \in Backup
    BY FoundTyped, FileTyped DEF Backup, TypeOK
  <2>2. Becomes(p, [proc[p] EXCEPT !.step = "copied", !.copy = {b}])
    BY <1>2 DEF Copy
  <2> HIDE DEF b
  <2>3. [proc[p] EXCEPT !.step = "copied", !.copy = {b}] \in Proc
    BY <1>1, <2>1 DEF Proc, Steps
  <2>4. target' \in File /\ log' \in Log
    BY <1>2, FoundTyped, DetachTyped DEF Copy, TypeOK
  <2> QED
    BY <1>2, <2>2, <2>3, <2>4, ProcTyped, NoJournal DEF Copy, TypeOK
<1>3. CASE Publish(p)
  <2>1. [proc[p] EXCEPT !.step = "published", !.copy = {}] \in Proc
    BY <1>1 DEF Proc, Steps
  <2>2. archive' \in Backup
    BY <1>1, <1>3 DEF Publish, Proc
  <2> QED
    BY <1>1, <1>3, <2>1, <2>2, ProcTyped DEF Publish, files, TypeOK
<1>4. CASE SyncOutput(p)
  BY <1>4, DownTyped, ProcTyped DEF SyncOutput, files, TypeOK
<1>5. CASE FailBackup(p)
  BY <1>5, DownTyped, ProcTyped DEF FailBackup, files, TypeOK
<1> QED
  BY <1>2, <1>3, <1>4, <1>5 DEF BackupCommand

LEMMA JournalsTyped ==
  ASSUME TypeOK, NEW ps
  PROVE  LeftJournals(ps) \subseteq Journals
BY DEF TypeOK, LeftJournals, Journals

LEMMA IdleTyped == Idle \in Restore
BY DEF Idle, Restore, Image

LEMMA RestoreTyped ==
  ASSUME TypeOK,
         \/ \E expect \in SUBSET Instances, allow \in BOOLEAN : RestoreProbe(expect, allow)
         \/ RestoreCommand \/ KillRestore
  PROVE  TypeOK'
<1>1. restore \in Restore /\ archive \in Backup
  BY DEF TypeOK
<1>2. ASSUME NEW expect \in SUBSET Instances, NEW allow \in BOOLEAN,
             RestoreProbe(expect, allow)
      PROVE  TypeOK'
  <2> DEFINE r == [step |-> "probed", image |-> archive.image, wal |-> archive.wal, met |-> Met]
  <2>1. r \in Restore
    BY <1>1, FileTyped DEF Restore, Backup, Met
  <2>2. restore' \in {r, Idle}
    BY <1>2 DEF RestoreProbe, RestoreIs
  <2> HIDE DEF r
  <2>3. log' \in Log
    BY <1>2, LogTyped DEF RestoreProbe, ProbeLeaves, TypeOK
  <2> QED
    BY <1>2, <2>1, <2>2, <2>3, IdleTyped DEF RestoreProbe, TypeOK
<1>3. CASE RestoreExtract \/ RestoreRecheck
  <2>1. restore' \in Restore
    BY <1>1, <1>3 DEF RestoreExtract, RestoreRecheck, RestoreIs, Restore
  <2> QED
    BY <1>3, <2>1 DEF RestoreExtract, RestoreRecheck, files, TypeOK
<1>4. CASE RestoreRefuse \/ KillRestore
  BY <1>4, IdleTyped DEF RestoreRefuse, KillRestore, RestoreIs, files, TypeOK
<1>5. CASE RestoreReplace
  <2>1. restore' \in Restore
    BY <1>1, <1>5 DEF RestoreReplace, RestoreIs, Restore
  <2>2. target.gen + 1 \in 0..MaxFiles
    BY <1>5, FileTyped, BoundAssumption DEF RestoreReplace
  <2>3. restore.image \in Image /\ restore.wal \in BOOLEAN
    BY <1>1 DEF Restore
  <2>4. target' \in File /\ promised' \in Image
    BY <1>5, <2>2, <2>3 DEF RestoreReplace, File
  <2>5. journal' \in Journals
    <3>1. "foreign" \in Journals
      BY DEF Journals
    <3> QED
      BY <1>5, <3>1, JournalsTyped DEF RestoreReplace
  <2> QED
    BY <1>5, <2>1, <2>4, <2>5, EarlierTyped DEF RestoreReplace, TypeOK
<1>6. CASE RestoreUnlink
  <2>1. restore' \in Restore
    BY <1>1, <1>6 DEF RestoreUnlink, RestoreIs, Restore
  <2> QED
    BY <1>6, <2>1, LogTyped DEF RestoreUnlink, TypeOK
<1>7. CASE RestoreSync
  BY <1>7, IdleTyped DEF RestoreSync, RestoreIs, TypeOK
<1> QED
  BY <1>2, <1>3, <1>4, <1>5, <1>6, <1>7 DEF RestoreCommand

LEMMA FaultTyped ==
  ASSUME TypeOK, (\E p \in Procs : Kill(p)) \/ Flush \/ PowerFailure
  PROVE  TypeOK'
<1>1. ASSUME NEW p \in Procs, Kill(p) PROVE TypeOK'
  <2>1. proc' \in [Procs -> Proc]
    BY <1>1, DownTyped, ProcTyped DEF Kill
  <2>2. journal' \in Journals
    BY <1>1, JournalsTyped DEF Kill
  <2> QED
    BY <1>1, <2>1, <2>2 DEF Kill, TypeOK
<1>2. CASE Flush
  BY <1>2 DEF Flush, TypeOK
<1>3. CASE PowerFailure
  <2>1. PICK e \in pending \cup {Earlier} :
          /\ target' = e.file /\ promised' = e.promised /\ mixed' = e.mixed
          /\ log' \in {log, e.log}
          /\ journal' \in IF e = Earlier THEN LeftJournals(Procs) ELSE {e.journal}
    BY <1>3 DEF PowerFailure
  <2>2. e \in [file: File, log: Log, journal: Journals, promised: Image, mixed: BOOLEAN]
    BY EarlierTyped DEF TypeOK
  <2>3. target' \in File /\ promised' \in Image /\ log' \in Log /\ mixed' \in BOOLEAN
    BY <2>1, <2>2 DEF TypeOK
  <2>4. journal' \in Journals
    BY <2>1, <2>2, JournalsTyped
  <2>5. proc' \in [Procs -> Proc] /\ restore' \in Restore
    BY <1>3, DownTyped, IdleTyped DEF PowerFailure, RestoreIs
  <2>6. archive' \in Backup /\ shelf' \subseteq Backup /\ pending' = {}
    BY <1>3 DEF PowerFailure, TypeOK
  <2> QED
    BY <2>3, <2>4, <2>5, <2>6 DEF TypeOK
<1> QED
  BY <1>1, <1>2, <1>3

LEMMA NextTyped == TypeOK /\ [Next]_vars => TypeOK'
<1> SUFFICES ASSUME TypeOK, [Next]_vars PROVE TypeOK'
  OBVIOUS
<1>1. ASSUME NEW p \in Procs, Process(p) PROVE TypeOK'
  BY <1>1, StartTyped, ServeTyped, BackupTyped, FaultTyped DEF Process
<1>2. CASE UNCHANGED vars
  BY <1>2 DEF vars, TypeOK
<1> QED
  BY <1>1, <1>2, RestoreTyped, FaultTyped DEF Next

\* The files, the processes and the command keep their shapes.
THEOREM Typing == Spec => []TypeOK
<1> QED
  BY InitTyped, NextTyped, PTL DEF Spec

-------------------------------------------------------------------------------
(***************************************************************************)
(* The inductive invariant.  A log that holds something is held by a       *)
(* shared-memory file, belongs to the file that has the name, and leaves   *)
(* no rename unsynced; whoever is connected in WAL mode holds the log; so  *)
(* a restore that has found no shared-memory file has nobody to cut off    *)
(* and nothing to lose but to a journal it does not look for.  A process   *)
(* that would rebuild the evidence read an old version, and such a         *)
(* database has no writes of requests; those that came since are due       *)
(* without their accounting.                                               *)
(***************************************************************************)
UsableImage(x) == x \in Db /\ x.version = Current

Lost(x, m) == m /\ x \in {Blank, Torn}

Old(x) == x \in Db /\ x.version # Current => x.writes = {}

\* What a file holds apart from any journal.
Bare(t, l) == IF t.image = Missing THEN Missing ELSE Stored(t, l)

\* A restored file beside another's journal is intact until it is opened.
Aside(t, l, j, due, m) ==
  m /\ j \in Strays =>
    \/ Bare(t, l) \in {Blank, Torn}
    \/ Held(Bare(t, l), due) /\ UsableImage(Bare(t, l))

FileKept(t, l, j, due, m) ==
  /\ Held(Finding(t, l, j), due) \/ Lost(Finding(t, l, j), m)
  /\ Old(Finding(t, l, j))
  /\ Aside(t, l, j, due, m)

LogInv ==
  /\ target.wal => target.image # Missing
  /\ log.frames # {} => log.shm /\ target.wal /\ pending = {}
  /\ \A f \in log.frames : f.of = target.gen

PendInv ==
  \A e \in pending :
    /\ e.log.frames = {}
    /\ e.file.wal => e.file.image # Missing
    /\ FileKept(e.file, e.log, e.journal, e.promised, e.mixed)

FileInv ==
  /\ LogInv
  /\ PendInv
  /\ FileKept(target, log, journal, promised, mixed)

Attachment(p) ==
  /\ proc[p].on <= target.gen
  /\ proc[p].on = target.gen /\ target.wal => log.shm /\ journal \notin Strays
  /\ proc[p].on = target.gen /\ mixed /\ journal \in Strays =>
       Bare(target, log) \in {Blank, Torn}
  /\ proc[p].step = "open" => proc[p].on = target.gen /\ target.wal
  /\ restore.step \in {"replaced", "unlinked"} => proc[p].on # target.gen

ConnInv == \A p \in Procs : Connected(p) => Attachment(p)

RestInv ==
  /\ Replacing => ~log.shm
  /\ restore.step # "idle" => restore.image \in Db
  /\ restore.step \notin {"idle", "probed"} => restore.image.version = Current

Waiting(p) ==
  /\ Usable \/ Spoilt \/ (target.image # Missing /\ proc[p].on = target.gen)
  /\ proc[p].on = target.gen /\ proc[p].seen = Current => Usable

ServeInv ==
  \A p \in Procs :
    /\ proc[p].step \in {"up", "open"} => Usable \/ Spoilt
    /\ proc[p].step = "starting" => Waiting(p)

RiskInv == Found \in Db => Found.writes \cap AtRisk \subseteq Due

Complete(b) == Held(b.image, b.due)

CopyInv ==
  /\ \A b \in shelf \cup {archive} : Complete(b)
  /\ \A p \in Procs : \A b \in proc[p].copy : Complete(b)

ProcInv == ConnInv /\ ServeInv /\ RiskInv /\ RestInv /\ CopyInv

Inv == TypeOK /\ FileInv /\ ProcInv

-------------------------------------------------------------------------------
(* What opening the database finds.                                        *)

Served(x, m) == UsableImage(x) \/ Lost(x, m)

LEMMA StateNow ==
  /\ Found = Finding(target, log, journal) /\ Found' = Finding(target', log', journal')
  /\ Usable <=> UsableImage(Found)
  /\ Usable' <=> UsableImage(Found')
  /\ Spoilt <=> Lost(Found, mixed)
  /\ Spoilt' <=> Lost(Found', mixed')
BY DEF Found, Usable, UsableImage, Spoilt, Lost

LEMMA InvParts ==
  ASSUME Inv
  PROVE  /\ TypeOK /\ LogInv /\ PendInv /\ FileKept(target, log, journal, promised, mixed)
         /\ ConnInv /\ ServeInv /\ RiskInv /\ RestInv /\ CopyInv
         /\ target \in File /\ log \in Log /\ restore \in Restore
         /\ proc \in [Procs -> Proc] /\ target.gen \in Nat
BY FileTyped DEF Inv, FileInv, ProcInv, TypeOK

LEMMA FindingNone ==
  ASSUME NEW t, NEW l, NEW j, l.frames = {}, j \notin Strays
  PROVE  Finding(t, l, j) = t.image /\ Bare(t, l) = t.image
BY DEF Finding, Stored, Strays, Bare

LEMMA FindingOne ==
  ASSUME NEW t, NEW l, NEW j, NEW x, t.image # Missing, j \notin Strays,
         l.frames = {[of |-> t.gen, image |-> x]}
  PROVE  Finding(t, l, j) = x /\ Bare(t, l) = x
<1> DEFINE f == [of |-> t.gen, image |-> x]
<1>1. f.of = t.gen /\ f.image = x
  OBVIOUS
<1>2. l.frames = {f}
  OBVIOUS
<1> HIDE DEF f
<1>3. l.frames # {} /\ (\A g \in l.frames : g.of = t.gen)
  BY <1>1, <1>2
<1>4. (CHOOSE g \in l.frames : TRUE) = f
  BY <1>2
<1>5. Stored(t, l) = x
  BY <1>1, <1>3, <1>4 DEF Stored
<1> QED
  BY <1>5 DEF Finding, Strays, Bare

LEMMA FindingSame ==
  ASSUME NEW t, NEW l, NEW u, NEW k, NEW j,
         u.image = t.image, u.gen = t.gen, k.frames = l.frames
  PROVE  Finding(u, k, j) = Finding(t, l, j) /\ Bare(u, k) = Bare(t, l)
BY DEF Finding, Stored, Bare

\* Without a stray journal a file is what it holds.
LEMMA FindingBare ==
  ASSUME NEW t, NEW l, NEW j, j \notin Strays
  PROVE  Finding(t, l, j) = Bare(t, l)
BY DEF Finding, Strays, Bare

LEMMA FindingStray ==
  ASSUME NEW t, NEW l, NEW j, j \in Strays, t.image # Missing
  PROVE  Finding(t, l, j) = IF j = "blank" THEN Blank ELSE Torn
BY DEF Finding, Strays

LEMMA KeptSame ==
  ASSUME NEW t, NEW l, NEW u, NEW k, NEW j, NEW due, NEW m,
         u.image = t.image, u.gen = t.gen, k.frames = l.frames,
         FileKept(t, l, j, due, m)
  PROVE  FileKept(u, k, j, due, m)
<1>1. Finding(u, k, j) = Finding(t, l, j) /\ Bare(u, k) = Bare(t, l)
  BY FindingSame
<1> QED
  BY <1>1 DEF FileKept, Aside

\* A file without a stray journal is kept when it holds what is due.
LEMMA KeptClean ==
  ASSUME NEW t, NEW l, NEW j, NEW due, NEW m, NEW x, j \notin Strays,
         Finding(t, l, j) = x, Held(x, due) \/ Lost(x, m), Old(x)
  PROVE  FileKept(t, l, j, due, m)
BY DEF FileKept, Aside

LEMMA NoBlankDb ==
  /\ Missing \notin Db \cup {Blank, Torn} /\ Blank \notin Db /\ Torn \notin Db
  /\ Blank # Torn /\ Missing # Blank
BY ImageAssumption

LEMMA HeldSelf == ASSUME NEW x \in Image PROVE Held(x, x)
BY DEF Held

LEMMA HeldNot ==
  ASSUME NEW x, NEW due, Held(x, due), x \notin Db
  PROVE  due = x
BY DEF Held

\* A database that is found is the one that is promised.
LEMMA HeldDb ==
  ASSUME Inv, Found \in Db
  PROVE  /\ promised \in Db /\ Held(Found, promised)
         /\ promised.id = Found.id /\ promised.version = Found.version
         /\ promised.writes = Found.writes
         /\ Due = promised.reset /\ Found.reset \subseteq Due
         /\ journal \notin Strays
<1>1. Held(Found, promised)
  BY InvParts, StateNow, NoBlankDb DEF FileKept, Lost
<1>2. promised \in Db
  BY <1>1 DEF Held
<1>3. journal \notin Strays
  BY StateNow, NoBlankDb, FindingStray DEF Finding
<1> QED
  BY <1>1, <1>2, <1>3 DEF Held, Due

LEMMA FoundMissing ==
  ASSUME Inv
  PROVE  Found = Missing <=> target.image = Missing
<1>1. LogInv /\ TypeOK /\ Found = Finding(target, log, journal)
  BY InvParts, StateNow
<1>2. CASE journal \in Strays
  BY <1>1, <1>2, FindingStray, NoBlankDb DEF Finding
<1>3. CASE log.frames = {} /\ journal \notin Strays
  BY <1>1, <1>3, FindingNone
<1>4. CASE log.frames # {} /\ journal \notin Strays
  <2>1. (CHOOSE f \in log.frames : TRUE) \in Frames
    BY <1>1, <1>4 DEF TypeOK, Log
  <2>2. (CHOOSE f \in log.frames : TRUE).image \in Db
    BY <2>1 DEF Frames
  <2>3. Stored(target, log) \in Db
    BY <1>1, <1>4, <2>2 DEF Stored, LogInv
  <2> QED
    BY <1>1, <1>4, <2>3, NoBlankDb DEF Finding, Strays
<1> QED
  BY <1>2, <1>3, <1>4

LEMMA FoundThere ==
  ASSUME Inv, Found \in Db \cup {Blank, Torn}
  PROVE  Found # Missing /\ target.image # Missing
BY FoundMissing, NoBlankDb

LEMMA ServedThere ==
  ASSUME Inv, Usable \/ Spoilt
  PROVE  Found \in Db \cup {Blank, Torn}
BY DEF Usable, Spoilt

LEMMA OpenClean ==
  ASSUME Inv, NEW p \in Procs, Connected(p), proc[p].on = target.gen, target.wal
  PROVE  log.shm /\ journal \notin Strays
BY InvParts DEF ConnInv, Attachment

\* Who is at risk of meaning to rebuild the evidence.
LEMMA FewerAtRisk ==
  ASSUME NEW p, target'.gen = target.gen,
         \A q \in Procs : proc'[q].step = "starting" =>
           \/ proc'[q] = proc[q]
           \/ proc'[q].seen >= Rebuild /\ proc'[q].seen \in Nat
  PROVE  AtRisk' \subseteq AtRisk
BY RebuildAssumption, VersionAssumption DEF AtRisk

-------------------------------------------------------------------------------
(* Steps that leave the file and the log alone.                            *)

LEMMA LeaveKeeps ==
  ASSUME Inv, NEW p \in Procs, NEW r \in Proc,
         r.step \notin {"starting", "open"}, Becomes(p, r),
         UNCHANGED <<target, log, pending, promised, mixed>>, restore' = restore,
         journal' \in Strays =>
           journal' = journal \/ (Bare(target, log) = Blank /\ ~target.wal),
         FileKept(target, log, journal', promised, mixed),
         Usable => Usable', Usable \/ Spoilt => Usable' \/ Spoilt',
         r.step = "up" => Usable' \/ Spoilt',
         Found' \in Db => Found'.writes \cap AtRisk \subseteq Due,
         \A b \in r.copy : Complete(b),
         \A b \in shelf' \cup {archive'} : Complete(b)
  PROVE  FileInv' /\ ProcInv'
<1>1. /\ TypeOK /\ LogInv /\ PendInv /\ ConnInv /\ ServeInv /\ RestInv /\ CopyInv
      /\ target' = target /\ log' = log
  BY InvParts
<1>2. FileInv'
  BY <1>1 DEF FileInv, LogInv, PendInv
<1>3. \A q \in Procs : proc'[q] = IF q = p THEN r ELSE proc[q]
  BY <1>1 DEF Becomes, TypeOK
<1>4. ASSUME NEW q \in Procs, Connected(q)' PROVE Attachment(q)'
  <2>1. q # p /\ proc'[q] = proc[q]
    BY <1>3, <1>4 DEF Connected
  <2>2. Attachment(q)
    BY <1>1, <1>4, <2>1 DEF ConnInv, Connected
  <2> QED
    BY <1>1, <2>1, <2>2 DEF Attachment
<1>5. ServeInv'
  BY <1>1, <1>3 DEF ServeInv, Waiting
<1>6. RiskInv'
  <2>1. AtRisk' \subseteq AtRisk
    BY <1>1, <1>3, FewerAtRisk
  <2>2. Due' = Due
    BY DEF Due
  <2> QED
    BY <2>1, <2>2 DEF RiskInv
<1>7. RestInv'
  BY <1>1 DEF RestInv, Replacing
<1>8. CopyInv'
  BY <1>1, <1>3 DEF CopyInv
<1> QED
  BY <1>2, <1>4, <1>5, <1>6, <1>7, <1>8 DEF ProcInv, ConnInv

\* The step changes none of the files.
LEMMA QuietKeeps ==
  ASSUME Inv, NEW p \in Procs, NEW r \in Proc,
         r.step \notin {"starting", "open"}, Becomes(p, r),
         UNCHANGED files, restore' = restore,
         r.step = "up" => Usable \/ Spoilt,
         \A b \in r.copy : Complete(b),
         \A b \in shelf' \cup {archive'} : Complete(b)
  PROVE  FileInv' /\ ProcInv'
<1>1. UNCHANGED <<target, log, pending, promised, mixed>> /\ journal' = journal
  BY DEF files
<1>2. Found' = Found /\ (Usable' <=> Usable) /\ (Spoilt' <=> Spoilt)
  BY <1>1, StateNow
<1>3. FileKept(target, log, journal', promised, mixed)
  BY <1>1, InvParts
<1>4. Found' \in Db => Found'.writes \cap AtRisk \subseteq Due
  BY <1>2, InvParts DEF RiskInv
<1> QED
  BY <1>1, <1>2, <1>3, <1>4, LeaveKeeps

\* What the last connection leaves, or one of several: opening finds x.
LEMMA DetachFiles ==
  ASSUME Inv, NEW p \in Procs, NEW x, NEW l, Detach(p, x, l), target.image # Missing,
         x # Missing, pending' \subseteq pending,
         journal' \notin Strays \/ (journal' = journal /\ x = Found),
         Held(x, promised') \/ Lost(x, mixed'), Old(x),
         \/ l = log /\ x = Found
         \/ /\ l = [log EXCEPT !.frames = {[of |-> target.gen, image |-> x]}]
            /\ pending' = {}
  PROVE  /\ FileInv' /\ Found' = x /\ Bare(target', log') = x
         /\ target'.image # Missing
         /\ target'.gen = target.gen /\ target'.wal = target.wal
         /\ log'.shm => log.shm
         /\ ~Alone(p) => log'.shm = log.shm
<1>1. /\ TypeOK /\ LogInv /\ PendInv /\ ConnInv
      /\ target \in File /\ log \in Log
      /\ Found = Finding(target, log, journal) /\ Found' = Finding(target', log', journal')
  BY InvParts, StateNow
<1>2. PendInv'
  BY <1>1 DEF PendInv
<1>3. /\ [target EXCEPT !.image = x].image = x
      /\ [target EXCEPT !.image = x].gen = target.gen
      /\ [target EXCEPT !.image = x].wal = target.wal
  BY <1>1 DEF File
<1> DEFINE Good == /\ LogInv' /\ Bare(target', log') = x /\ target'.image # Missing
                   /\ target'.gen = target.gen /\ target'.wal = target.wal
                   /\ log'.shm => log.shm
                   /\ ~Alone(p) => log'.shm = log.shm
<1>4. Good
  <2>1. CASE Alone(p)
    <3>1. target' = [target EXCEPT !.image = x] /\ log' = NoLog
      BY <2>1 DEF Detach
    <3>2. log'.frames = {} /\ log'.shm = FALSE
      BY <3>1 DEF NoLog
    <3>3. Bare(target', log') = x
      BY <1>3, <3>1, <3>2, FindingNone, NoJournal
    <3> QED
      BY <1>3, <2>1, <3>1, <3>2, <3>3 DEF LogInv
  <2>2. CASE ~Alone(p) /\ ~target.wal
    <3>1. target' = [target EXCEPT !.image = x] /\ log' = log
      BY <2>2 DEF Detach
    <3>2. log.frames = {}
      BY <1>1, <2>2 DEF LogInv
    <3>3. Bare(target', log') = x
      BY <1>3, <3>1, <3>2, FindingNone, NoJournal
    <3> QED
      BY <1>1, <1>3, <3>1, <3>2, <3>3 DEF LogInv
  <2>3. CASE ~Alone(p) /\ target.wal
    <3>1. target' = target /\ log' = l
      BY <2>3 DEF Detach
    <3>2. log.shm /\ journal \notin Strays
      BY <2>3, OpenClean DEF Alone
    <3>3. CASE l = log /\ x = Found
      <4>1. Bare(target', log') = x
        BY <1>1, <3>1, <3>2, <3>3, FindingBare
      <4> QED
        BY <1>1, <3>1, <3>3, <4>1 DEF LogInv
    <3>4. CASE /\ l = [log EXCEPT !.frames = {[of |-> target.gen, image |-> x]}]
               /\ pending' = {}
      <4>1. l.shm = log.shm /\ l.frames = {[of |-> target.gen, image |-> x]}
        BY <1>1, <3>4 DEF Log
      <4>2. Bare(target', log') = x
        BY <3>1, <4>1, FindingOne, NoJournal
      <4>3. \A f \in l.frames : f.of = target.gen
        BY <4>1
      <4>4. LogInv'
        BY <1>1, <2>3, <3>1, <3>2, <3>4, <4>1, <4>3 DEF LogInv
      <4> QED
        BY <3>1, <4>1, <4>2, <4>4
    <3> QED
      BY <3>3, <3>4
  <2> QED
    BY <2>1, <2>2, <2>3
<1>5. Found' = x
  <2>1. CASE journal' \notin Strays
    BY <1>1, <1>4, <2>1, FindingBare
  <2>2. CASE journal' \in Strays
    BY <1>1, <1>4, <2>2, FindingStray
  <2> QED
    BY <2>1, <2>2
<1>6. FileKept(target', log', journal', promised', mixed')
  <2>1. CASE journal' \notin Strays
    BY <1>1, <1>5, <2>1, KeptClean
  <2>2. CASE journal' \in Strays
    <3>1. x \in {Blank, Torn}
      BY <1>1, <1>5, <1>4, <2>2, FindingStray
    <3> QED
      BY <1>1, <1>4, <1>5, <3>1 DEF FileKept, Aside
  <2> QED
    BY <2>1, <2>2
<1> QED
  BY <1>2, <1>4, <1>5, <1>6 DEF FileInv

LEMMA DetachKeeps ==
  ASSUME Inv, NEW p \in Procs, NEW x, NEW l, Detach(p, x, l), target.image # Missing,
         x # Missing, pending' \subseteq pending,
         journal' \notin Strays \/ (journal' = journal /\ x = Found),
         Held(x, promised') \/ Lost(x, mixed'), Old(x),
         \/ l = log /\ x = Found
         \/ /\ l = [log EXCEPT !.frames = {[of |-> target.gen, image |-> x]}]
            /\ pending' = {},
         x \in Db => x.writes \cap AtRisk \subseteq Due',
         NEW r \in Proc, r.step \notin {"starting", "open"}, Becomes(p, r),
         Usable => UsableImage(x), Spoilt => Served(x, mixed'),
         r.step = "up" => Served(x, mixed'),
         \A b \in r.copy : Complete(b),
         UNCHANGED <<archive, shelf, restore>>
  PROVE  FileInv' /\ ProcInv'
<1>1. /\ TypeOK /\ ConnInv /\ ServeInv /\ RestInv /\ CopyInv
  BY InvParts
<1>2. /\ FileInv' /\ Found' = x /\ Bare(target', log') = x /\ target'.image # Missing
      /\ target'.gen = target.gen /\ target'.wal = target.wal
      /\ log'.shm => log.shm
      /\ ~Alone(p) => log'.shm = log.shm
  BY DetachFiles
<1>3. \A q \in Procs : proc'[q] = IF q = p THEN r ELSE proc[q]
  BY <1>1 DEF Becomes, TypeOK
<1>4. ASSUME NEW q \in Procs, Connected(q)' PROVE Attachment(q)'
  <2>1. q # p /\ proc'[q] = proc[q] /\ Connected(q) /\ Attachment(q)
    BY <1>1, <1>3, <1>4 DEF Connected, ConnInv
  <2>2. proc[q].on = target.gen => ~Alone(p)
    BY <2>1 DEF Alone
  <2>3. journal' \in Strays => journal' = journal /\ x \in {Blank, Torn}
    <3>1. journal' \in Strays => journal' = journal /\ x = Found
      OBVIOUS
    <3> QED
      BY <3>1, StateNow, FindingStray
  <2> QED
    BY <1>2, <2>1, <2>2, <2>3 DEF Attachment
<1>5. (Usable' <=> UsableImage(x)) /\ (Spoilt' <=> Lost(x, mixed'))
  BY <1>2, StateNow
<1>6. ServeInv'
  BY <1>1, <1>2, <1>3, <1>5 DEF ServeInv, Waiting, Served
<1>7. RiskInv'
  <2>1. AtRisk' \subseteq AtRisk
    BY <1>2, <1>3, FewerAtRisk
  <2> QED
    BY <1>2, <2>1 DEF RiskInv
<1>8. RestInv'
  BY <1>1, <1>2 DEF RestInv, Replacing
<1>9. CopyInv'
  BY <1>1, <1>3 DEF CopyInv
<1> QED
  BY <1>2, <1>4, <1>6, <1>7, <1>8, <1>9 DEF ProcInv, ConnInv

-------------------------------------------------------------------------------
(* The steps of a process.                                                 *)

LEMMA CreateKeeps ==
  ASSUME Inv, NEW p \in Procs, Create(p)
  PROVE  FileInv' /\ ProcInv'
<1>1. /\ TypeOK /\ LogInv /\ PendInv /\ ConnInv /\ ServeInv /\ RestInv /\ CopyInv
      /\ FileKept(target, log, journal, promised, mixed)
      /\ target.gen \in Nat /\ target.wal \in BOOLEAN
  BY InvParts, FileTyped
<1>2. target.image = Missing /\ ~target.wal /\ log.frames = {} /\ Found = Missing
  BY <1>1, FoundMissing DEF Create, LogInv
<1>3. ~Usable /\ ~Spoilt /\ \A q \in Procs : ~Connected(q)
  <2>1. ~Usable /\ ~Spoilt
    BY <1>2, NoBlankDb DEF Usable, Spoilt
  <2> QED
    BY <1>1, <1>2, <2>1 DEF ServeInv, Waiting, Connected
<1>4. /\ target'.image = Blank /\ target'.gen = target.gen + 1 /\ ~target'.wal
      /\ log' = log /\ journal' = "none" /\ promised' = Blank /\ mixed' = FALSE
      /\ pending' = pending \cup {Earlier} /\ restore' = restore
      /\ archive' = archive /\ shelf' = shelf
  BY DEF Create
<1>5. Found' = Blank
  BY <1>2, <1>4, StateNow, FindingNone, NoJournal
<1>6. FileKept(target', log', journal', promised', mixed')
  BY <1>4, <1>5, StateNow, KeptClean, HeldSelf, NoBlankDb, NoJournal DEF Image, Old
<1>7. LogInv'
  BY <1>2, <1>4 DEF LogInv
<1>8. PendInv'
  <2>1. /\ Earlier.file = target /\ Earlier.log = log /\ Earlier.journal = journal
        /\ Earlier.promised = promised /\ Earlier.mixed = mixed
    BY DEF Earlier
  <2> HIDE DEF Earlier
  <2> QED
    BY <1>1, <1>2, <1>4, <2>1 DEF PendInv
<1> DEFINE r == [Down EXCEPT !.step = "starting", !.on = target.gen + 1]
<1>9. r.step = "starting" /\ r.on = target'.gen /\ r.copy = {} /\ r.seen = 0
  BY <1>4 DEF Down
<1>10. Becomes(p, r)
  BY DEF Create
<1> HIDE DEF r
<1>11. \A q \in Procs : proc'[q] = IF q = p THEN r ELSE proc[q]
  BY <1>1, <1>10 DEF Becomes, TypeOK
<1>12. ServeInv' /\ RiskInv'
  BY <1>1, <1>3, <1>4, <1>5, <1>9, <1>11, NoBlankDb, VersionAssumption
     DEF ServeInv, Waiting, Connected, RiskInv
<1>13. RestInv'
  BY <1>1, <1>4 DEF RestInv, Replacing
<1>14. ~Replacing
  BY DEF Create
<1>15. ConnInv'
  <2>1. ASSUME NEW q \in Procs, Connected(q)' PROVE q = p
    BY <1>3, <1>11, <2>1 DEF Connected
  <2>2. Attachment(p)'
    BY <1>1, <1>4, <1>9, <1>11, <1>14 DEF Attachment, Replacing
  <2> QED
    BY <2>1, <2>2 DEF ConnInv
<1>16. CopyInv'
  BY <1>1, <1>4, <1>9, <1>11 DEF CopyInv
<1> QED
  BY <1>6, <1>7, <1>8, <1>12, <1>13, <1>15, <1>16 DEF FileInv, ProcInv

\* Opening rolls a journal back, and finds what it would have found.
LEMMA OpenedIs ==
  ASSUME Inv, target.image # Missing
  PROVE  /\ Opened.gen = target.gen /\ Opened.image # Missing
         /\ Opened.wal => target.wal /\ journal \notin Strays
         /\ journal \notin Strays => Opened = target /\ OpenedLog = log
         /\ OpenedLog.shm = log.shm
         /\ OpenedLog.frames # {} => OpenedLog = log /\ journal \notin Strays
         /\ \A t, l : /\ t.image = Opened.image /\ t.gen = Opened.gen
                      /\ l.frames = OpenedLog.frames
                      => Finding(t, l, "none") = Found
<1>1. target \in File /\ log \in Log /\ Found # Missing
  BY InvParts, FoundMissing
<1>2. CASE journal \in Strays
  <2>1. Opened = [target EXCEPT !.image = Found, !.wal = FALSE]
        /\ OpenedLog = [NoLog EXCEPT !.shm = log.shm]
    BY <1>2 DEF Opened, OpenedLog
  <2>2. Opened.gen = target.gen /\ Opened.image = Found /\ ~Opened.wal
    BY <1>1, <2>1 DEF File
  <2>3. OpenedLog.shm = log.shm /\ OpenedLog.frames = {}
    BY <2>1 DEF NoLog
  <2> QED
    BY <1>1, <1>2, <2>2, <2>3, FindingNone, NoJournal
<1>3. CASE journal \notin Strays
  <2>1. Opened = target /\ OpenedLog = log
    BY <1>3 DEF Opened, OpenedLog
  <2>2. \A t, l : t.image = target.image /\ t.gen = target.gen /\ l.frames = log.frames
                  => Finding(t, l, "none") = Found
    BY <1>3, FindingSame, FindingBare, NoJournal, StateNow
  <2> QED
    BY <1>3, <2>1, <2>2
<1> QED
  BY <1>2, <1>3

\* A connection is opened: opening finds afterwards what it found.
LEMMA ConnectKeeps ==
  ASSUME Inv, NEW p \in Procs, NEW r \in Proc, Becomes(p, r), ~Replacing,
         target.image # Missing,
         r.step \in {"starting", "open"}, r.on = target.gen, r.copy \subseteq proc[p].copy,
         r.step = "open" => (Usable \/ Spoilt) /\ target'.wal,
         r.step = "starting" => /\ r.seen = Current => Usable
                                /\ r.seen >= Rebuild \/ Found = Blank \/ Found.writes = {},
         r.seen \in Nat,
         target'.gen = target.gen, target'.image = Opened.image,
         journal \notin Strays /\ target.wal => target'.wal,
         log'.frames = OpenedLog.frames, log.shm => log'.shm, target'.wal => log'.shm,
         UNCHANGED <<pending, promised, mixed, archive, shelf, restore>>, journal' = "none"
  PROVE  FileInv' /\ ProcInv'
<1>1. /\ TypeOK /\ LogInv /\ PendInv /\ ConnInv /\ ServeInv /\ RiskInv /\ RestInv /\ CopyInv
      /\ FileKept(target, log, journal, promised, mixed) /\ target.gen \in Nat
  BY InvParts
<1>2. Found' = Found
  BY OpenedIs, StateNow
<1>3. (Usable' <=> Usable) /\ (Spoilt' <=> Spoilt)
  BY <1>2, StateNow
<1>4. FileKept(target', log', journal', promised', mixed')
  BY <1>1, <1>2, StateNow, KeptClean, NoJournal DEF FileKept
<1>5. LogInv'
  BY <1>1, OpenedIs DEF LogInv
<1>6. FileInv'
  BY <1>1, <1>4, <1>5 DEF FileInv, PendInv
<1>7. \A q \in Procs : proc'[q] = IF q = p THEN r ELSE proc[q]
  BY <1>1 DEF Becomes, TypeOK
<1>8. ASSUME NEW q \in Procs, Connected(q)' PROVE Attachment(q)'
  <2>1. CASE q = p
    BY <1>1, <1>7, <2>1, NoJournal DEF Attachment, Replacing
  <2>2. CASE q # p
    <3>1. Attachment(q)
      BY <1>1, <1>7, <1>8, <2>2 DEF ConnInv, Connected
    <3> QED
      BY <1>7, <2>2, <3>1, NoJournal DEF Attachment
  <2> QED
    BY <2>1, <2>2
<1>9. ServeInv'
  BY <1>1, <1>3, <1>7, OpenedIs DEF ServeInv, Waiting
<1>10. RiskInv'
  <2>1. Due' = Due
    BY DEF Due
  <2>2. CASE r.step = "starting" /\ r.seen < Rebuild
    BY <1>2, <2>2, NoBlankDb, RebuildAssumption DEF RiskInv
  <2>3. CASE r.step = "open" \/ r.seen >= Rebuild
    <3>1. AtRisk' \subseteq AtRisk
      BY <1>7, <2>3, FewerAtRisk
    <3> QED
      BY <1>1, <1>2, <2>1, <3>1 DEF RiskInv
  <2> QED
    BY <2>2, <2>3, RebuildAssumption
<1>11. RestInv'
  BY <1>1 DEF RestInv, Replacing
<1>12. CopyInv'
  BY <1>1, <1>7 DEF CopyInv
<1> QED
  BY <1>6, <1>8, <1>9, <1>10, <1>11, <1>12 DEF ProcInv, ConnInv

LEMMA AttachedIs ==
  ASSUME NEW l \in Log
  PROVE  Attached(l).shm /\ Attached(l).frames = l.frames
BY DEF Attached, Log

LEMMA StartKeeps ==
  ASSUME Inv, NEW p \in Procs, Start(p)
  PROVE  FileInv' /\ ProcInv'
<1>1. /\ TypeOK /\ log \in Log /\ target.gen \in 0..MaxFiles /\ OpenedLog \in Log
      /\ Old(Found)
  BY InvParts, FileTyped, LogTyped, StateNow DEF FileKept
<1>2. PICK v \in 0..Current :
        /\ v = IF Found = Blank THEN 0 ELSE Found.version
        /\ Becomes(p, [Down EXCEPT !.step = "starting", !.on = target.gen, !.seen = v])
  BY DEF Start
<1> DEFINE r == [Down EXCEPT !.step = "starting", !.on = target.gen, !.seen = v]
<1>3. /\ r \in Proc /\ Becomes(p, r)
      /\ r.step = "starting" /\ r.on = target.gen /\ r.copy = {} /\ r.seen = v
  BY <1>1, <1>2, DownTyped DEF Down
<1> HIDE DEF r
<1>4. /\ target' = Opened /\ log' = IF Opened.wal THEN Attached(OpenedLog) ELSE OpenedLog
      /\ Found \in Db \cup {Blank}
  BY DEF Start
<1>5. target.image # Missing
  BY <1>4, FoundThere
<1>6. /\ target'.gen = target.gen /\ target'.image = Opened.image
      /\ journal \notin Strays /\ target.wal => target'.wal
  BY <1>4, <1>5, OpenedIs
<1>7. log'.frames = OpenedLog.frames /\ (log.shm => log'.shm) /\ (target'.wal => log'.shm)
  BY <1>1, <1>4, <1>5, OpenedIs, AttachedIs
<1>8. v \in Nat /\ (v = Current => Usable) /\ (v >= Rebuild \/ Found = Blank \/ Found.writes = {})
  BY <1>1, <1>2, <1>4, VersionAssumption, RebuildAssumption DEF Usable, Old
<1>9. /\ UNCHANGED <<pending, promised, mixed, archive, shelf, restore>> /\ journal' = "none"
      /\ ~Replacing
  BY DEF Start
<1> QED
  BY <1>3, <1>5, <1>6, <1>7, <1>8, <1>9, ConnectKeeps

\* A file SQLite cannot make sense of stays one.
LEMMA TornKeeps ==
  ASSUME Inv, NEW p \in Procs, RefuseTorn(p)
  PROVE  FileInv' /\ ProcInv'
<1>1. /\ TypeOK /\ LogInv /\ PendInv /\ ConnInv /\ ServeInv /\ RestInv /\ CopyInv
      /\ FileKept(target, log, journal, promised, mixed)
  BY InvParts
<1>2. /\ Found = Torn /\ target' = Opened /\ log' = OpenedLog /\ journal' = "none"
      /\ UNCHANGED <<pending, archive, shelf, proc, restore, promised, mixed>>
  BY DEF RefuseTorn
<1>3. target.image # Missing
  BY <1>2, FoundThere
<1>4. Found' = Found
  BY <1>2, <1>3, OpenedIs, StateNow
<1>5. (Usable' <=> Usable) /\ (Spoilt' <=> Spoilt)
  BY <1>2, <1>4, StateNow
<1>6. FileKept(target', log', journal', promised', mixed')
  BY <1>1, <1>2, <1>4, StateNow, KeptClean, NoJournal DEF FileKept
<1>7. LogInv'
  BY <1>1, <1>2, <1>3, OpenedIs DEF LogInv
<1>8. FileInv'
  BY <1>1, <1>2, <1>6, <1>7 DEF FileInv, PendInv
<1>9. ASSUME NEW q \in Procs, Connected(q)' PROVE Attachment(q)'
  <2>1. Attachment(q)
    BY <1>1, <1>2, <1>9 DEF ConnInv, Connected
  <2> QED
    BY <1>2, <1>3, <2>1, OpenedIs, NoJournal DEF Attachment
<1>10. ServeInv'
  BY <1>1, <1>2, <1>3, <1>5, OpenedIs DEF ServeInv, Waiting
<1>11. RiskInv' /\ RestInv' /\ CopyInv'
  BY <1>1, <1>2, <1>3, <1>4, OpenedIs, NoBlankDb DEF RiskInv, RestInv, Replacing, CopyInv
<1> QED
  BY <1>8, <1>9, <1>10, <1>11 DEF ProcInv, ConnInv

LEMMA MigrateKeeps ==
  ASSUME Inv, NEW p \in Procs, Migrate(p)
  PROVE  FileInv' /\ ProcInv'
<1>1. PICK i \in Instances :
        LET new == IF Found = Blank
                   THEN [id |-> i, version |-> Current, writes |-> {}, reset |-> {}]
                   ELSE Migrated(Found, proc[p].seen)
            ran == proc[p].seen < Current
            l   == IF ran
                   THEN [log EXCEPT !.frames = {[of |-> target.gen, image |-> new]}]
                   ELSE log
        IN /\ Detach(p, new, l)
           /\ promised' = [new EXCEPT !.reset = Due]
           /\ pending' = IF ran THEN {} ELSE pending
           /\ Becomes(p, [Down EXCEPT !.step = "up", !.source = {new.id}])
  BY DEF Migrate
<1> DEFINE new == IF Found = Blank
                  THEN [id |-> i, version |-> Current, writes |-> {}, reset |-> {}]
                  ELSE Migrated(Found, proc[p].seen)
           ran == proc[p].seen < Current
           l   == IF ran
                  THEN [log EXCEPT !.frames = {[of |-> target.gen, image |-> new]}]
                  ELSE log
           r   == [Down EXCEPT !.step = "up", !.source = {new.id}]
<1>2. /\ TypeOK /\ ServeInv /\ RiskInv /\ proc[p] \in Proc /\ proc[p].seen \in 0..Current
      /\ proc[p].step = "starting" /\ proc[p].on = target.gen
      /\ Found \in Db \/ (Found = Blank /\ proc[p].seen = 0)
  BY InvParts DEF Migrate, Proc
<1>3. UsableImage(new)
  BY <1>2, FreshTyped, MigratedTyped DEF UsableImage
<1>4. Detach(p, new, l) /\ promised' = [new EXCEPT !.reset = Due] /\ Becomes(p, r)
  BY <1>1
<1>5. \/ l = log /\ new = Found /\ pending' = pending
      \/ l = [log EXCEPT !.frames = {[of |-> target.gen, image |-> new]}] /\ pending' = {}
  <2>1. CASE ran
    BY <1>1, <2>1
  <2>2. CASE ~ran
    <3>1. proc[p].seen = Current /\ Found \in Db
      BY <1>2, <2>2, VersionAssumption
    <3>2. Found.version = Current
      BY <1>2, <3>1 DEF ServeInv, Waiting, Usable
    <3> QED
      BY <1>1, <2>2, <3>1, <3>2, MigratedSame, NoBlankDb
  <2> QED
    BY <2>1, <2>2
<1>6. new.reset \subseteq Due /\ new.writes \cap AtRisk \subseteq Due
  <2>1. CASE Found = Blank
    BY <2>1
  <2>2. CASE Found \in Db
    <3>1. Found.reset \subseteq Due /\ Found.writes \cap AtRisk \subseteq Due
      BY <1>2, <2>2, HeldDb DEF RiskInv
    <3>2. proc[p].seen < Rebuild => AtRisk = Evidence
      BY <1>2 DEF AtRisk
    <3>3. new = Migrated(Found, proc[p].seen)
      BY <2>2, NoBlankDb
    <3> QED
      BY <2>2, <3>1, <3>2, <3>3, MigratedTyped
  <2> QED
    BY <1>2, <2>1, <2>2
<1>7. r \in Proc /\ r.step = "up" /\ r.copy = {}
  <2>1. new.id \in Instances
    BY <1>3 DEF UsableImage, Db
  <2> HIDE DEF new
  <2> QED
    BY <2>1, DownTyped DEF Down
<1> HIDE DEF new, l, r
<1>8. /\ promised' \in Db /\ promised'.reset = Due /\ Held(new, promised')
  <2>1. promised' \in Db /\ promised'.reset = Due /\ promised'.id = new.id
        /\ promised'.version = new.version /\ promised'.writes = new.writes
    BY <1>2, <1>3, <1>4, DueTyped, PromiseTyped DEF UsableImage
  <2> QED
    BY <1>3, <1>6, <2>1 DEF Held, UsableImage
<1>9. Due' = Due
  BY <1>8 DEF Due
<1>10. new # Missing /\ target.image # Missing
  BY <1>2, <1>3, FoundThere, NoBlankDb DEF UsableImage
<1>11. UNCHANGED <<archive, shelf, restore>> /\ journal' \notin Strays
  BY NoJournal DEF Migrate
<1>12. pending' \subseteq pending /\ Old(new) /\ Served(new, mixed')
  BY <1>3, <1>5 DEF Old, UsableImage, Served
<1>13. Held(new, promised') \/ Lost(new, mixed')
  BY <1>8
<1> QED
  BY <1>3, <1>4, <1>5, <1>6, <1>7, <1>9, <1>10, <1>11, <1>12, <1>13, DetachKeeps

LEMMA DownIs == Down.step = "down" /\ Down.copy = {}
BY DEF Down

\* A connection that wrote nothing closes.
LEMMA CloseKeeps ==
  ASSUME Inv, NEW p \in Procs, Detach(p, Found, log), target.image # Missing,
         journal' \in {journal, "none"},
         UNCHANGED <<pending, promised, mixed, archive, shelf, restore>>,
         NEW r \in Proc, r.step \notin {"starting", "open"}, Becomes(p, r),
         r.step = "up" => Usable \/ Spoilt,
         \A b \in r.copy : Complete(b)
  PROVE  FileInv' /\ ProcInv'
<1>1. /\ FileKept(target, log, journal, promised, mixed) /\ RiskInv
      /\ Found = Finding(target, log, journal)
      /\ (Usable <=> UsableImage(Found)) /\ (Spoilt <=> Lost(Found, mixed))
  BY InvParts, StateNow
<1>2. Held(Found, promised') \/ Lost(Found, mixed')
  BY <1>1 DEF FileKept
<1>3. Old(Found) /\ Found # Missing
  BY <1>1, FoundMissing DEF FileKept
<1>4. Found \in Db => Found.writes \cap AtRisk \subseteq Due'
  BY <1>1 DEF RiskInv, Due
<1>5. journal' \notin Strays \/ (journal' = journal /\ Found = Found)
  BY NoJournal
<1>6. (Usable => UsableImage(Found)) /\ (Spoilt => Served(Found, mixed'))
      /\ (r.step = "up" => Served(Found, mixed'))
  BY <1>1 DEF Served
<1>7. pending' \subseteq pending
  OBVIOUS
<1> QED
  BY <1>2, <1>3, <1>4, <1>5, <1>6, <1>7, DetachKeeps

LEMMA EndKeeps ==
  ASSUME Inv, NEW p \in Procs, RefuseNewer(p) \/ RefuseMigration(p) \/ Close(p) \/ Copy(p)
  PROVE  FileInv' /\ ProcInv'
<1>1. /\ TypeOK /\ CopyInv /\ ConnInv /\ ServeInv /\ LogInv /\ proc[p] \in Proc
  BY InvParts
<1>2. CASE RefuseNewer(p)
  <2>1. Becomes(p, Down)
    BY <1>1, <1>2 DEF RefuseNewer, Becomes, TypeOK
  <2>2. Detach(p, Found, log) /\ target.image # Missing /\ journal' \in {journal, "none"}
        /\ UNCHANGED <<pending, promised, mixed, archive, shelf, restore>>
    BY <1>2, FoundThere DEF RefuseNewer
  <2> QED
    BY <2>1, <2>2, DownIs, DownTyped, CloseKeeps
<1>3. CASE RefuseMigration(p)
  <2>1. target.image # Missing
    BY <1>1, <1>3, ServedThere, FoundThere DEF RefuseMigration, ServeInv, Waiting
  <2>2. Detach(p, Found, log) /\ Becomes(p, Down) /\ journal' \in {journal, "none"}
        /\ UNCHANGED <<pending, promised, mixed, archive, shelf, restore>>
    BY <1>3 DEF RefuseMigration
  <2> QED
    BY <2>1, <2>2, DownIs, DownTyped, CloseKeeps
<1>4. CASE Close(p)
  <2> DEFINE r == [proc[p] EXCEPT !.step = "up", !.on = 0]
  <2>1. "up" \in Steps /\ 0 \in 0..MaxFiles
    BY BoundAssumption DEF Steps
  <2>2. r \in Proc /\ r.step = "up" /\ r.copy = proc[p].copy
    BY <1>1, <2>1 DEF Proc
  <2>3. Usable \/ Spoilt
    BY <1>1, <1>4 DEF Close, ServeInv
  <2>4. target.image # Missing
    BY <2>3, ServedThere, FoundThere
  <2>5. Detach(p, Found, log) /\ Becomes(p, r) /\ journal' \in {journal, "none"}
        /\ UNCHANGED <<pending, promised, mixed, archive, shelf, restore>>
    BY <1>4 DEF Close
  <2>6. \A b \in r.copy : Complete(b)
    BY <1>1, <2>2 DEF CopyInv
  <2> HIDE DEF r
  <2> QED
    BY <2>2, <2>3, <2>4, <2>5, <2>6, CloseKeeps
<1>5. CASE Copy(p)
  <2> DEFINE b == [image |-> Found, wal |-> target.wal, due |-> promised]
             r == [proc[p] EXCEPT !.step = "copied", !.copy = {b}]
  <2>1. Found \in Db
    BY <1>5 DEF Copy, Usable
  <2>2. b \in Backup /\ Complete(b)
    BY <1>1, <2>1, HeldDb, FoundTyped, FileTyped DEF Backup, Complete, TypeOK
  <2>3. Becomes(p, r)
    BY <1>5 DEF Copy
  <2> HIDE DEF b
  <2>4. r \in Proc /\ r.step = "copied" /\ r.copy = {b}
    BY <1>1, <2>2 DEF Proc, Steps
  <2> HIDE DEF r
  <2>5. target.image # Missing
    BY <2>1, FoundThere
  <2>6. Detach(p, Found, log) /\ journal' \in {journal, "none"}
        /\ UNCHANGED <<pending, promised, mixed, archive, shelf, restore>>
    BY <1>5 DEF Copy
  <2>7. \A c \in r.copy : Complete(c)
    BY <2>2, <2>4
  <2> QED
    BY <2>3, <2>4, <2>5, <2>6, <2>7, CloseKeeps
<1> QED
  BY <1>2, <1>3, <1>4, <1>5

LEMMA OpenKeeps ==
  ASSUME Inv, NEW p \in Procs, Open(p)
  PROVE  FileInv' /\ ProcInv'
<1>1. /\ TypeOK /\ ServeInv /\ proc[p] \in Proc /\ OpenedLog \in Log
      /\ log \in Log /\ target \in File /\ target.gen \in 0..MaxFiles /\ Opened \in File
  BY InvParts, FileTyped, LogTyped
<1> DEFINE r == [proc[p] EXCEPT !.step = "open", !.on = target.gen]
<1>2. r \in Proc /\ r.step = "open" /\ r.on = target.gen /\ r.copy = proc[p].copy
  BY <1>1 DEF Proc, Steps
<1>3. /\ Becomes(p, r) /\ ~Replacing /\ Found \in Db \cup {Blank} /\ journal' = "none"
      /\ target' = [Opened EXCEPT !.wal = TRUE] /\ log' = Attached(OpenedLog)
      /\ UNCHANGED <<pending, promised, mixed, archive, shelf, restore>>
  BY DEF Open
<1> HIDE DEF r
<1>4. target.image # Missing
  BY <1>3, FoundThere
<1>5. target'.gen = target.gen /\ target'.image = Opened.image /\ target'.wal
  BY <1>1, <1>3, <1>4, OpenedIs DEF File
<1>6. log'.frames = OpenedLog.frames /\ log'.shm
  BY <1>1, <1>3, AttachedIs
<1>7. Usable \/ Spoilt
  BY <1>1 DEF Open, ServeInv
<1>8. r.seen \in Nat
  BY <1>2, VersionAssumption DEF Proc
<1> QED
  BY <1>2, <1>3, <1>4, <1>5, <1>6, <1>7, <1>8, ConnectKeeps

LEMMA CommitKeeps ==
  ASSUME Inv, NEW p \in Procs, NEW x \in Writes, Commit(p, x)
  PROVE  FileInv' /\ ProcInv'
<1>1. /\ TypeOK /\ LogInv /\ ServeInv /\ RiskInv /\ ConnInv /\ RestInv /\ CopyInv
      /\ log \in Log /\ Found \in Db
  BY InvParts DEF Commit
<1> DEFINE new == [Found EXCEPT !.writes = @ \cup {x}]
           gone == Due \cup ({x} \cap AtRisk)
<1>2. /\ new \in Db /\ new.version = Found.version /\ new.id = Found.id
      /\ new.reset = Found.reset /\ new.writes = Found.writes \cup {x}
  BY <1>1 DEF Db
<1>3. /\ log' = [log EXCEPT !.frames = {[of |-> target.gen, image |-> new]}]
      /\ promised' = [new EXCEPT !.reset = gone]
  BY DEF Commit
<1>4. /\ target' = target /\ journal' = journal /\ mixed' = FALSE /\ pending' = {}
      /\ UNCHANGED <<archive, shelf, proc, restore>>
  BY DEF Commit
<1>5. gone \in SUBSET Evidence
  BY <1>1, DueTyped DEF AtRisk
<1> HIDE DEF new, gone
<1>6. /\ promised' \in Db /\ promised'.reset = gone /\ promised'.id = new.id
      /\ promised'.version = new.version /\ promised'.writes = new.writes
  BY <1>2, <1>3, <1>5, PromiseTyped
<1>7. Held(new, promised') /\ Due' = gone
  <2>1. Found.reset \subseteq gone
    BY <1>1, HeldDb DEF gone
  <2> QED
    BY <1>2, <1>6, <2>1 DEF Held, Due
<1>8. log'.shm = log.shm /\ log'.frames = {[of |-> target.gen, image |-> new]}
  BY <1>1, <1>3 DEF Log
<1>9. log.shm /\ target.wal /\ target.image # Missing /\ journal \notin Strays
  BY <1>1, FoundThere, OpenClean DEF Commit, ConnInv, Attachment, Connected
<1>10. Found' = new
  BY <1>4, <1>8, <1>9, StateNow, FindingOne
<1>11. Usable
  BY <1>1, NoBlankDb DEF Commit, ServeInv, Spoilt
<1>12. Usable' /\ UsableImage(new)
  BY <1>2, <1>10, <1>11, StateNow DEF UsableImage
<1>13. FileKept(target', log', journal', promised', mixed')
  BY <1>4, <1>7, <1>9, <1>10, <1>12, StateNow, KeptClean DEF Old, UsableImage
<1>14. \A f \in log'.frames : f.of = target.gen
  BY <1>8
<1>15. FileInv'
  BY <1>1, <1>4, <1>8, <1>9, <1>13, <1>14 DEF FileInv, PendInv, LogInv
<1>16. ServeInv'
  BY <1>1, <1>4, <1>12 DEF ServeInv, Waiting
<1>17. ConnInv'
  <2> SUFFICES ASSUME NEW q \in Procs, Connected(q)' PROVE Attachment(q)'
    BY DEF ConnInv
  <2>1. Attachment(q)
    BY <1>1, <1>4 DEF ConnInv, Connected
  <2> QED
    BY <1>4, <1>8, <2>1 DEF Attachment
<1>18. RiskInv'
  <2>1. AtRisk' = AtRisk
    BY <1>4 DEF AtRisk
  <2> QED
    BY <1>1, <1>2, <1>7, <1>10, <2>1 DEF RiskInv, gone
<1>19. RestInv'
  BY <1>1, <1>4, <1>8 DEF RestInv, Replacing
<1>20. CopyInv'
  BY <1>1, <1>4 DEF CopyInv
<1> QED
  BY <1>15, <1>16, <1>17, <1>18, <1>19, <1>20 DEF ProcInv

\* A process whose file was replaced ends its start.  Its journal goes with it,
\* and the restored file beside which it lay is intact.
LEMMA MigrateReplacedKeeps ==
  ASSUME Inv, NEW p \in Procs, MigrateReplaced(p)
  PROVE  FileInv' /\ ProcInv'
<1>1. /\ TypeOK /\ LogInv /\ ConnInv /\ ServeInv /\ RiskInv /\ CopyInv
      /\ FileKept(target, log, journal, promised, mixed)
  BY InvParts
<1>2. Usable \/ Spoilt
  BY <1>1 DEF MigrateReplaced, ServeInv, Waiting
<1>3. /\ UNCHANGED <<target, log, pending, promised, mixed>> /\ restore' = restore
      /\ UNCHANGED <<archive, shelf>>
      /\ journal' = journal \/ (mixed /\ journal' = "none")
  BY DEF MigrateReplaced
<1>4. PICK r \in {Down} \cup {[Down EXCEPT !.step = "up", !.source = {i}] : i \in Instances} :
        Becomes(p, r)
  BY DEF MigrateReplaced
<1>5. r \in Proc /\ r.step \notin {"starting", "open"} /\ r.copy = {}
  <2>1. CASE r = Down
    BY <2>1, DownIs, DownTyped
  <2>2. ASSUME NEW i \in Instances, r = [Down EXCEPT !.step = "up", !.source = {i}]
        PROVE  r \in Proc /\ r.step = "up" /\ r.copy = {}
    BY <2>2, DownTyped DEF Down
  <2> QED
    BY <1>4, <2>1, <2>2
<1>6. \A b \in shelf' \cup {archive'} : Complete(b)
  BY <1>1, <1>3 DEF CopyInv
<1>7. CASE journal' = journal
  <2>1. UNCHANGED files
    BY <1>3, <1>7 DEF files
  <2> QED
    BY <1>2, <1>3, <1>4, <1>5, <1>6, <2>1, QuietKeeps
<1>8. CASE mixed /\ journal' = "none" /\ journal \notin Strays
  <2>1. Found' = Found /\ (Usable' <=> Usable) /\ (Spoilt' <=> Spoilt)
    BY <1>3, <1>8, StateNow, FindingBare, NoJournal
  <2>2. FileKept(target, log, journal', promised, mixed)
    BY <1>1, <1>3, <1>8, <2>1, StateNow, KeptClean, NoJournal DEF FileKept
  <2>3. Found' \in Db => Found'.writes \cap AtRisk \subseteq Due
    BY <1>1, <2>1 DEF RiskInv
  <2> QED
    BY <1>2, <1>3, <1>4, <1>5, <1>6, <1>8, <2>1, <2>2, <2>3, NoJournal, LeaveKeeps
<1>9. CASE mixed /\ journal' = "none" /\ journal \in Strays
  <2>1. Found' = Bare(target, log)
    BY <1>3, <1>9, StateNow, FindingBare, NoJournal
  <2>2. \/ Found' \in {Blank, Torn}
        \/ Held(Found', promised) /\ UsableImage(Found')
    BY <1>1, <1>9, <2>1 DEF FileKept, Aside
  <2>3. ~Usable
    BY <1>2, <1>9, NoBlankDb, FoundThere, ServedThere, HeldDb DEF Usable
  <2>4. Usable' \/ Spoilt'
    BY <1>3, <1>9, <2>2, StateNow DEF Lost
  <2>5. FileKept(target, log, journal', promised, mixed)
    BY <1>3, <1>9, <2>1, <2>2, KeptClean, FindingBare, NoJournal, NoBlankDb
       DEF Lost, Old, UsableImage
  <2>6. Found' \in Db => AtRisk = {}
    <3> SUFFICES ASSUME Found' \in Db,
                        NEW q \in Procs, proc[q].step = "starting", proc[q].on = target.gen
                 PROVE  FALSE
      BY DEF AtRisk
    <3>1. Attachment(q)
      BY <1>1 DEF ConnInv, Connected
    <3> QED
      BY <1>9, <2>1, <3>1, NoBlankDb DEF Attachment
  <2> QED
    BY <1>3, <1>4, <1>5, <1>6, <1>9, <2>3, <2>4, <2>5, <2>6, NoJournal, LeaveKeeps
<1> QED
  BY <1>3, <1>7, <1>8, <1>9

\* A process moves on or ends without a connection.
LEMMA StopKeeps ==
  ASSUME Inv, NEW p \in Procs, Stop(p) \/ BackupCommand(p)
  PROVE  FileInv' /\ ProcInv'
<1>1. /\ TypeOK /\ ServeInv /\ CopyInv /\ proc[p] \in Proc
  BY InvParts
<1>2. \A b \in shelf \cup {archive} : Complete(b)
  BY <1>1 DEF CopyInv
<1>3. CASE Stop(p) \/ FailBackup(p)
  <2>1. UNCHANGED <<files, archive, shelf, restore>> /\ Becomes(p, Down)
    BY <1>3 DEF Stop, FailBackup
  <2> QED
    BY <1>2, <2>1, DownIs, DownTyped, QuietKeeps
<1>4. CASE SyncOutput(p)
  <2>1. UNCHANGED <<files, archive, restore>> /\ shelf' = {} /\ Becomes(p, Down)
    BY <1>4 DEF SyncOutput
  <2> QED
    BY <1>2, <2>1, DownIs, DownTyped, QuietKeeps
<1>5. CASE Publish(p)
  <2> DEFINE r == [proc[p] EXCEPT !.step = "published", !.copy = {}]
  <2>1. r \in Proc /\ r.step = "published" /\ r.copy = {}
    BY <1>1 DEF Proc, Steps
  <2>2. UNCHANGED <<files, restore>> /\ Becomes(p, r)
    BY <1>5 DEF Publish
  <2>3. archive' \in proc[p].copy /\ shelf' = shelf \cup {archive}
    BY <1>5 DEF Publish
  <2>4. \A b \in shelf' \cup {archive'} : Complete(b)
    BY <1>1, <1>2, <2>3 DEF CopyInv
  <2> HIDE DEF r
  <2> QED
    BY <2>1, <2>2, <2>4, QuietKeeps
<1> QED
  BY <1>3, <1>4, <1>5 DEF BackupCommand

-------------------------------------------------------------------------------
(* The steps of a restore.                                                 *)

\* The command goes on or ends; no file of the database changes.
LEMMA CommandKeeps ==
  ASSUME Inv, RestoreExtract \/ RestoreRecheck \/ RestoreRefuse \/ KillRestore
  PROVE  FileInv' /\ ProcInv'
<1>1. /\ TypeOK /\ LogInv /\ PendInv /\ ConnInv /\ ServeInv /\ RiskInv /\ CopyInv /\ RestInv
      /\ restore \in Restore /\ FileKept(target, log, journal, promised, mixed)
      /\ UNCHANGED <<files, archive, shelf, proc>>
  BY InvParts DEF RestoreExtract, RestoreRecheck, RestoreRefuse, KillRestore
<1>2. /\ target' = target /\ log' = log /\ journal' = journal /\ pending' = pending
      /\ promised' = promised /\ mixed' = mixed
  BY <1>1 DEF files
<1>3. Found' = Found /\ (Usable' <=> Usable) /\ (Spoilt' <=> Spoilt)
  BY <1>2, StateNow
<1>4. FileInv'
  BY <1>1, <1>2 DEF FileInv, LogInv, PendInv
<1>5. ServeInv' /\ CopyInv' /\ RiskInv'
  BY <1>1, <1>2, <1>3 DEF ServeInv, Waiting, CopyInv, RiskInv, AtRisk, Due
<1>6. restore'.step \notin {"replaced", "unlinked"}
  BY <1>1 DEF RestoreExtract, RestoreRecheck, RestoreRefuse, KillRestore, RestoreIs,
              Idle, Restore
<1>7. ConnInv'
  BY <1>1, <1>2, <1>6 DEF ConnInv, Attachment, Connected
<1>8. RestInv'
  <2>1. CASE RestoreExtract
    <3>1. restore'.step = "extracted" /\ restore'.image = restore.image
      BY <1>1, <2>1 DEF RestoreExtract, RestoreIs, Restore
    <3> QED
      BY <1>1, <2>1, <3>1 DEF RestoreExtract, Extractable, RestInv, Replacing
  <2>2. CASE RestoreRecheck
    <3>1. restore'.step = "checked" /\ restore'.image = restore.image
      BY <1>1, <2>2 DEF RestoreRecheck, RestoreIs, Restore
    <3> QED
      BY <1>1, <1>2, <2>2, <3>1 DEF RestoreRecheck, Unchanged, RestInv, Replacing
  <2>3. CASE RestoreRefuse \/ KillRestore
    BY <2>3 DEF RestoreRefuse, KillRestore, RestoreIs, Idle, RestInv, Replacing
  <2> QED
    BY <2>1, <2>2, <2>3
<1> QED
  BY <1>4, <1>5, <1>7, <1>8 DEF ProcInv

\* The log changes, but not what it holds, and nobody new is connected.
LEMMA EmptyLogKeeps ==
  ASSUME Inv, log.frames = {}, log'.frames = {}, log' = log \/ target.wal \/ ~log.shm,
         target.wal /\ log.shm => log'.shm, pending' \subseteq pending,
         UNCHANGED <<target, journal, promised, mixed, archive, shelf, proc>>,
         restore'.step \in {"replaced", "unlinked"} =>
           restore.step \in {"replaced", "unlinked"},
         RestInv'
  PROVE  FileInv' /\ ProcInv'
<1>1. /\ TypeOK /\ LogInv /\ PendInv /\ ConnInv /\ ServeInv /\ RiskInv /\ CopyInv
      /\ FileKept(target, log, journal, promised, mixed)
  BY InvParts
<1>2. Found' = Found /\ Bare(target', log') = Bare(target, log)
  BY StateNow, FindingSame
<1>3. (Usable' <=> Usable) /\ (Spoilt' <=> Spoilt)
  BY <1>2, StateNow
<1>4. FileKept(target', log', journal', promised', mixed')
  BY <1>1, KeptSame
<1>5. FileInv'
  BY <1>1, <1>4 DEF FileInv, LogInv, PendInv
<1>6. ConnInv'
  <2> SUFFICES ASSUME NEW q \in Procs, Connected(q)' PROVE Attachment(q)'
    BY DEF ConnInv
  <2>1. Attachment(q)
    BY <1>1 DEF ConnInv, Connected
  <2> QED
    BY <1>2, <2>1 DEF Attachment
<1>7. ServeInv' /\ RiskInv' /\ CopyInv'
  BY <1>1, <1>2, <1>3 DEF ServeInv, Waiting, RiskInv, AtRisk, Due, CopyInv
<1> QED
  BY <1>5, <1>6, <1>7 DEF ProcInv

LEMMA ProbeKeeps ==
  ASSUME Inv, NEW expect \in SUBSET Instances, NEW allow \in BOOLEAN,
         RestoreProbe(expect, allow)
  PROVE  FileInv' /\ ProcInv'
<1>1. /\ LogInv /\ log \in Log
  BY InvParts
<1>2. /\ archive.image \in Db /\ ~log.shm /\ log.frames = {}
      /\ UNCHANGED <<target, journal, pending, archive, shelf, proc, promised, mixed>>
  BY <1>1 DEF RestoreProbe, LogInv
<1>3. log'.frames = {}
  <2>1. \A l \in ProbeLeaves : l.frames = {}
    <3>1. NoLog \in Log /\ NoLog.frames = {}
      BY DEF NoLog, Log
    <3>2. Attached(NoLog).frames = {} /\ [NoLog EXCEPT !.wal = TRUE].frames = {}
      BY <3>1 DEF Attached, Log
    <3> QED
      BY <3>1, <3>2 DEF ProbeLeaves
  <2>2. log' \in ProbeLeaves \/ log' = log
    BY DEF RestoreProbe
  <2> QED
    BY <1>2, <2>1, <2>2
<1>4. restore'.step \in {"idle", "probed"} /\ (restore'.step # "idle" => restore'.image \in Db)
  BY <1>2 DEF RestoreProbe, RestoreIs, Idle
<1>5. RestInv'
  BY <1>4 DEF RestInv, Replacing
<1> QED
  BY <1>2, <1>3, <1>4, <1>5, EmptyLogKeeps

LEMMA UnlinkKeeps ==
  ASSUME Inv, RestoreUnlink \/ RestoreSync
  PROVE  FileInv' /\ ProcInv'
<1>1. /\ LogInv /\ RestInv /\ restore \in Restore
  BY InvParts
<1>2. ~log.shm /\ log.frames = {} /\ restore.step \in {"replaced", "unlinked"}
  BY <1>1 DEF RestoreUnlink, RestoreSync, RestInv, Replacing, LogInv
<1>3. /\ UNCHANGED <<target, journal, promised, mixed, archive, shelf, proc>>
      /\ pending' \subseteq pending /\ log' \in {log, NoLog}
  BY DEF RestoreUnlink, RestoreSync
<1>4. ~log'.shm /\ log'.frames = {}
  BY <1>2, <1>3 DEF NoLog
<1>5. /\ restore'.step \in {"unlinked", "idle"}
      /\ restore'.step = "unlinked" => restore'.image = restore.image
  BY <1>1 DEF RestoreUnlink, RestoreSync, RestoreIs, Idle, Restore
<1>6. RestInv'
  BY <1>1, <1>2, <1>4, <1>5 DEF RestInv, Replacing
<1> QED
  BY <1>2, <1>3, <1>4, <1>5, <1>6, EmptyLogKeeps

\* A journal left by a start leaves what opening finds as it is.
LEMMA LeftIs ==
  ASSUME Inv, NEW ps \in SUBSET Procs, NEW j \in LeftJournals(ps)
  PROVE  /\ Finding(target, log, j) = Found
         /\ j \in Strays => j = journal \/ (Bare(target, log) = Blank /\ ~target.wal)
         /\ FileKept(target, log, j, promised, mixed)
<1>1. /\ LogInv /\ FileKept(target, log, journal, promised, mixed)
      /\ Found = Finding(target, log, journal) /\ target.wal \in BOOLEAN
  BY InvParts, StateNow DEF File
<1>2. CASE j = journal
  BY <1>1, <1>2
<1>3. CASE j # journal /\ Found = Blank
  <2>1. j = "blank" /\ ~target.wal /\ j \in Strays
    BY <1>3, NoBlankDb DEF LeftJournals, Unfinished, Strays
  <2>2. target.image # Missing
    BY <1>3, FoundThere
  <2>3. journal \notin Strays
    BY <1>1, <1>3, <2>1, <2>2, FindingStray, NoBlankDb DEF Strays
  <2>4. Bare(target, log) = Blank
    BY <1>1, <1>3, <2>3, FindingBare
  <2>5. Finding(target, log, j) = Found
    BY <1>3, <2>1, <2>2, FindingStray
  <2> QED
    BY <1>1, <2>1, <2>4, <2>5 DEF FileKept, Aside
<1>4. CASE j # journal /\ Found # Blank
  <2>1. j = "own" /\ Found \in Db /\ j \notin Strays
    BY <1>4 DEF LeftJournals, Strays
  <2>2. Finding(target, log, j) = Found
    BY <1>1, <2>1, HeldDb, FindingBare
  <2>3. FileKept(target, log, j, promised, mixed)
    BY <1>1, <2>1, <2>2, KeptClean DEF FileKept
  <2> QED
    BY <2>1, <2>2, <2>3
<1> QED
  BY <1>2, <1>3, <1>4

LEMMA ReplaceKeeps ==
  ASSUME Inv, RestoreReplace
  PROVE  FileInv' /\ ProcInv'
<1>1. /\ TypeOK /\ LogInv /\ PendInv /\ ConnInv /\ ServeInv /\ CopyInv /\ RestInv
      /\ FileKept(target, log, journal, promised, mixed)
      /\ restore \in Restore /\ target.gen \in Nat /\ proc \in [Procs -> Proc]
  BY InvParts
<1>2. ~log.shm /\ log.frames = {} /\ UsableImage(restore.image)
  BY <1>1 DEF RestoreReplace, RestInv, Replacing, LogInv, UsableImage
<1>3. /\ target'.gen = target.gen + 1 /\ target'.image = restore.image
      /\ log' = log /\ promised' = restore.image /\ mixed' = (journal' # "none")
      /\ pending' = pending \cup {Earlier} /\ UNCHANGED <<archive, shelf, proc>>
  BY DEF RestoreReplace
<1>4. restore'.step = "replaced" /\ restore'.image = restore.image
  BY <1>1 DEF RestoreReplace, RestoreIs, Restore
<1>5. target'.image # Missing /\ Held(restore.image, restore.image) /\ Old(restore.image)
  BY <1>2, <1>3, NoBlankDb, HeldSelf DEF UsableImage, Old, Image
<1>6. Bare(target', log') = restore.image
  BY <1>2, <1>3, FindingNone, NoJournal
<1>7. Found' = restore.image \/ Lost(Found', mixed')
  <2>1. CASE journal' \in Strays
    BY <1>3, <1>5, <2>1, StateNow, FindingStray, NoJournal DEF Lost
  <2>2. CASE journal' \notin Strays
    BY <1>6, <2>2, StateNow, FindingBare
  <2> QED
    BY <2>1, <2>2
<1>8. Usable' \/ Spoilt'
  BY <1>2, <1>7, StateNow
<1>9. FileKept(target', log', journal', promised', mixed')
  BY <1>2, <1>3, <1>5, <1>6, <1>7, StateNow, NoBlankDb DEF FileKept, Aside, Lost, Old
<1>10. PendInv'
  <2>1. /\ Earlier.file = target /\ Earlier.log = log /\ Earlier.journal = journal
        /\ Earlier.promised = promised /\ Earlier.mixed = mixed
    BY DEF Earlier
  <2> HIDE DEF Earlier
  <2> QED
    BY <1>1, <1>2, <1>3, <2>1 DEF PendInv, LogInv
<1>11. FileInv'
  BY <1>2, <1>3, <1>5, <1>9, <1>10 DEF FileInv, LogInv
<1>12. \A q \in Procs : proc[q].on \in Nat
  BY <1>1 DEF Proc
<1>13. ConnInv'
  <2> SUFFICES ASSUME NEW q \in Procs, Connected(q)' PROVE Attachment(q)'
    BY DEF ConnInv
  <2>1. Attachment(q)
    BY <1>1, <1>3 DEF ConnInv, Connected
  <2>2. proc[q].step # "open"
    BY <1>2, <2>1 DEF Attachment
  <2> QED
    BY <1>1, <1>3, <1>12, <2>1, <2>2 DEF Attachment
<1>14. \A q \in Procs : Connected(q) => proc[q].on <= target.gen
  BY <1>1 DEF ConnInv, Attachment
<1>15. ServeInv' /\ CopyInv'
  BY <1>1, <1>3, <1>8, <1>12, <1>14 DEF ServeInv, Waiting, CopyInv, Connected
<1>16. RiskInv'
  <2>1. AtRisk' = {}
    BY <1>1, <1>3, <1>12, <1>14 DEF AtRisk, Connected
  <2> QED
    BY <2>1 DEF RiskInv
<1>17. RestInv'
  BY <1>2, <1>3, <1>4 DEF RestInv, Replacing, UsableImage
<1> QED
  BY <1>11, <1>13, <1>15, <1>16, <1>17 DEF ProcInv

-------------------------------------------------------------------------------
(* Faults.                                                                 *)

LEMMA KillKeeps ==
  ASSUME Inv, NEW p \in Procs, Kill(p)
  PROVE  FileInv' /\ ProcInv'
<1>1. /\ UNCHANGED <<target, log, pending, promised, mixed>> /\ restore' = restore
      /\ UNCHANGED <<archive, shelf>> /\ Becomes(p, Down)
      /\ journal' \in LeftJournals({p})
  BY DEF Kill
<1>2. /\ Found' = Found
      /\ journal' \in Strays =>
           journal' = journal \/ (Bare(target, log) = Blank /\ ~target.wal)
      /\ FileKept(target, log, journal', promised, mixed)
  BY <1>1, LeftIs, StateNow
<1>3. (Usable' <=> Usable) /\ (Spoilt' <=> Spoilt)
  BY <1>1, <1>2, StateNow
<1>4. Found' \in Db => Found'.writes \cap AtRisk \subseteq Due
  BY <1>2, InvParts DEF RiskInv
<1>5. \A b \in shelf' \cup {archive'} : Complete(b)
  BY <1>1, InvParts DEF CopyInv
<1> QED
  BY <1>1, <1>2, <1>3, <1>4, <1>5, DownIs, DownTyped, LeaveKeeps

LEMMA FlushKeeps ==
  ASSUME Inv, Flush
  PROVE  FileInv' /\ ProcInv'
<1>1. /\ TypeOK /\ LogInv /\ PendInv /\ ConnInv /\ ServeInv /\ RiskInv /\ CopyInv /\ RestInv
      /\ FileKept(target, log, journal, promised, mixed)
  BY InvParts
<1>2. /\ UNCHANGED <<target, log, journal, archive, proc, restore, promised, mixed>>
      /\ pending' = {} /\ shelf' = {}
  BY DEF Flush
<1>3. Found' = Found /\ (Usable' <=> Usable) /\ (Spoilt' <=> Spoilt)
  BY <1>2, StateNow
<1>4. FileInv'
  BY <1>1, <1>2 DEF FileInv, LogInv, PendInv
<1>5. ConnInv' /\ RestInv' /\ CopyInv'
  BY <1>1, <1>2 DEF ConnInv, Connected, Attachment, RestInv, Replacing, CopyInv
<1>6. ServeInv' /\ RiskInv'
  BY <1>1, <1>2, <1>3 DEF ServeInv, Waiting, RiskInv, AtRisk, Due
<1> QED
  BY <1>4, <1>5, <1>6 DEF ProcInv

LEMMA PowerKeeps ==
  ASSUME Inv, PowerFailure
  PROVE  FileInv' /\ ProcInv'
<1>1. /\ TypeOK /\ LogInv /\ PendInv /\ CopyInv
  BY InvParts
<1>2. PICK e \in pending \cup {Earlier} :
        /\ target' = e.file /\ promised' = e.promised /\ mixed' = e.mixed
        /\ log' \in {log, e.log}
        /\ journal' \in IF e = Earlier THEN LeftJournals(Procs) ELSE {e.journal}
  BY DEF PowerFailure
<1>3. /\ pending' = {} /\ shelf' = {} /\ restore' = Idle
      /\ archive' \in shelf \cup {archive} /\ proc' = [p \in Procs |-> Down]
  BY DEF PowerFailure, RestoreIs
<1>4. LogInv' /\ FileKept(target', log', journal', promised', mixed')
  <2>1. CASE e # Earlier
    <3>1. /\ e \in pending /\ log'.frames = {} /\ e.log.frames = {} /\ journal' = e.journal
          /\ FileKept(e.file, e.log, e.journal, e.promised, e.mixed)
          /\ e.file.wal => e.file.image # Missing
      BY <1>1, <1>2, <2>1 DEF LogInv, PendInv
    <3>2. FileKept(target', log', journal', promised', mixed')
      BY <1>2, <3>1, KeptSame
    <3> QED
      BY <1>2, <3>1, <3>2 DEF LogInv
  <2>2. CASE e = Earlier
    <3>1. target' = target /\ log' = log /\ promised' = promised /\ mixed' = mixed
      BY <1>2, <2>2 DEF Earlier
    <3>2. journal' \in LeftJournals(Procs)
      BY <1>2, <2>2
    <3> QED
      BY <1>1, <1>3, <3>1, <3>2, LeftIs DEF LogInv
  <2> QED
    BY <2>1, <2>2
<1>5. FileInv'
  BY <1>3, <1>4 DEF FileInv, PendInv
<1>6. \A q \in Procs : proc'[q].step = "down" /\ proc'[q].copy = {}
  BY <1>3, DownIs
<1>7. ConnInv' /\ ServeInv' /\ CopyInv'
  BY <1>1, <1>3, <1>6 DEF ConnInv, Connected, ServeInv, CopyInv
<1>8. RiskInv'
  BY <1>6 DEF RiskInv, AtRisk
<1>9. RestInv'
  BY <1>3 DEF RestInv, Replacing, Idle
<1> QED
  BY <1>5, <1>7, <1>8, <1>9 DEF ProcInv

-------------------------------------------------------------------------------
(* The invariant holds, and the properties follow.                         *)

LEMMA InitInv == Init => Inv
<1> SUFFICES ASSUME Init PROVE Inv
  OBVIOUS
<1>1. TypeOK
  BY InitTyped
<1>2. PICK x \in {Missing} \cup
                 [id: Instances, version: 1..Newest, writes: {{}}, reset: {{}}] :
        target = [gen |-> 0, image |-> x, wal |-> x # Missing] /\ promised = x
  BY DEF Init
<1>3. log.frames = {} /\ journal = "none" /\ pending = {} /\ mixed = FALSE
  BY DEF Init, NoLog
<1>4. Found = x
  BY <1>2, <1>3, StateNow, FindingNone, NoJournal
<1>5. Held(x, x) /\ Old(x)
  BY <1>1, <1>2, HeldSelf, NoBlankDb DEF Old, TypeOK
<1>6. FileKept(target, log, journal, promised, mixed)
  BY <1>2, <1>3, <1>4, <1>5, StateNow, KeptClean, NoJournal
<1>7. FileInv
  BY <1>2, <1>3, <1>6 DEF FileInv, LogInv, PendInv
<1>8. \A q \in Procs : proc[q].step = "down" /\ proc[q].copy = {}
  BY DownIs DEF Init
<1>9. \A b \in shelf \cup {archive} : Complete(b)
  <2>1. PICK y \in {Missing} \cup
                   [id: Instances, version: 1..Newest, writes: {Writes}, reset: {{}}] :
          archive = [image |-> y, wal |-> TRUE, due |-> y]
    BY DEF Init
  <2>2. y \in Image
    BY <1>1, <2>1 DEF TypeOK, Backup
  <2> QED
    BY <2>1, <2>2, HeldSelf DEF Init, Complete
<1>10. ConnInv /\ ServeInv /\ CopyInv /\ RiskInv
  BY <1>8, <1>9 DEF ConnInv, Connected, ServeInv, CopyInv, RiskInv, AtRisk
<1>11. RestInv
  BY DEF Init, RestInv, Replacing, Idle
<1> QED
  BY <1>1, <1>7, <1>10, <1>11 DEF Inv, ProcInv

LEMMA NextInv ==
  ASSUME Inv, [Next]_vars
  PROVE  Inv'
<1>1. TypeOK'
  BY NextTyped, InvParts
<1> SUFFICES FileInv' /\ ProcInv'
  BY <1>1 DEF Inv
<1>2. ASSUME NEW p \in Procs, Process(p) PROVE FileInv' /\ ProcInv'
  BY <1>2, CreateKeeps, StartKeeps, TornKeeps, MigrateKeeps, MigrateReplacedKeeps, EndKeeps,
     StopKeeps, OpenKeeps, CommitKeeps, KillKeeps DEF Process, StartCommand, Serve
<1>3. ASSUME NEW expect \in SUBSET Instances, NEW allow \in BOOLEAN,
             RestoreProbe(expect, allow)
      PROVE  FileInv' /\ ProcInv'
  BY <1>3, ProbeKeeps
<1>4. CASE RestoreCommand \/ KillRestore
  BY <1>4, CommandKeeps, ReplaceKeeps, UnlinkKeeps DEF RestoreCommand
<1>5. CASE UNCHANGED vars
  <2>1. /\ UNCHANGED <<target, log, journal, pending, promised, mixed>>
        /\ UNCHANGED <<archive, shelf, proc, restore>>
    BY <1>5 DEF vars
  <2>2. Found' = Found /\ (Usable' <=> Usable) /\ (Spoilt' <=> Spoilt)
    BY <2>1, StateNow
  <2>3. FileInv'
    BY <2>1, InvParts DEF FileInv, LogInv, PendInv
  <2>4. ConnInv' /\ RestInv' /\ CopyInv'
    BY <2>1, InvParts DEF ConnInv, Connected, Attachment, RestInv, Replacing, CopyInv
  <2>5. ServeInv' /\ RiskInv'
    BY <2>1, <2>2, InvParts DEF ServeInv, Waiting, RiskInv, AtRisk, Due
  <2> QED
    BY <2>3, <2>4, <2>5 DEF ProcInv
<1>6. CASE Flush \/ PowerFailure
  BY <1>6, FlushKeeps, PowerKeeps
<1> QED
  BY <1>2, <1>3, <1>4, <1>5, <1>6 DEF Next

LEMMA Invariance == Spec => []Inv
<1>1. Inv /\ [Next]_vars => Inv'
  BY NextInv
<1> QED
  BY <1>1, InitInv, PTL DEF Spec

-------------------------------------------------------------------------------
\* Opening the database finds what was last acknowledged, whoever was killed and
\* whatever a power failure undid; but for the accounting of evidence that was
\* committed beside a stale migration, and for a restored file that another
\* file's journal has spoilt.
THEOREM Kept == Spec => []PromiseKept
<1>1. Inv => PromiseKept
  BY InvParts, StateNow DEF FileKept, PromiseKept
<1> QED
  BY <1>1, Invariance, PTL

\* A restore never takes the file from under a request.
THEOREM NotCutOff == Spec => []NoneIsCutOff
<1>1. Inv => NoneIsCutOff
  BY DEF Inv, ProcInv, ConnInv, Attachment, Connected, NoneIsCutOff
<1> QED
  BY <1>1, Invariance, PTL

\* A backup holds everything that was committed when it was taken.
THEOREM CompleteBackups == Spec => []BackupIsComplete
<1>1. Inv => BackupIsComplete
  BY DEF Inv, ProcInv, CopyInv, Complete, BackupIsComplete
<1> QED
  BY <1>1, Invariance, PTL

\* No process serves a database of another schema than its own, unless it is the
\* restored file that another file's journal has spoilt.
THEOREM CurrentSchema == Spec => []ServesCurrentSchema
<1>1. Inv => ServesCurrentSchema
  BY DEF Inv, ProcInv, ServeInv, ServesCurrentSchema
<1> QED
  BY <1>1, Invariance, PTL

===============================================================================
