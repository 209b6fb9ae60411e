--------------------------- MODULE DatabaseRecovery ----------------------------
(***************************************************************************)
(* The database file and the commands that work on it while processes      *)
(* come, go and die: migration at start, online backup, restore.           *)
(*                                                                         *)
(* A process migrates the database before it serves (initialize_database): *)
(* it reads the version, takes the exclusive lock, and runs the migrations *)
(* from the version it read, which may be stale by then.  It opens a       *)
(* connection for each request (SQLiteDocumentStore._connect) and writes   *)
(* in WAL mode: what is committed lies in the log beside the file until    *)
(* the last connection closes.  A backup is a snapshot published by  *)
(* renaming; a restore checks the target, probes it, unpacks and verifies  *)
(* the backup, checks the target again, renames over it, removes the log   *)
(* and syncs the directory.  Any process may be killed between two steps,  *)
(* and a power failure may also undo renames not yet synced.               *)
(*                                                                         *)
(* SQLite and the file system are external: a commit is atomic and         *)
(* durable, and syncing a new log also syncs the directory.                *)
(***************************************************************************)
EXTENDS Naturals

CONSTANTS
  Procs,      \* processes that open the database: serve, mcp, db commands
  Writes,     \* what requests write
  Instances,  \* values of instance_id
  Current,    \* CURRENT_SCHEMA_VERSION
  Rebuild,    \* version whose migration rebuilds synthesis_proposal_evidence
  Evidence,   \* the writes that record a proposal in that table
  Newest,     \* newest schema version a database may have been left at
  Missing,    \* no file under the name
  Blank,      \* a file without tables
  Torn,       \* a file SQLite cannot make sense of
  MaxFiles    \* bound of the model on the files that ever had the name

ASSUME VersionAssumption ==
  Current \in Nat \ {0} /\ Newest \in Nat /\ Current <= Newest
ASSUME RebuildAssumption == Rebuild \in 1..Current /\ Evidence \subseteq Writes
ASSUME BoundAssumption == MaxFiles \in Nat

\* reset: the writes whose accounting a second run of the migrations has lost.
Db == [id: Instances, version: 1..Newest, writes: SUBSET Writes,
       reset: SUBSET Evidence]
Image == Db \cup {Missing, Blank, Torn}

ASSUME ImageAssumption ==
  /\ Missing \notin Db /\ Blank \notin Db /\ Torn \notin Db
  /\ Missing # Blank /\ Missing # Torn /\ Blank # Torn

VARIABLES
  target,    \* the file under the database's name
  log,       \* the -wal and -shm files beside it
  journal,   \* the hot -journal beside it
  pending,   \* what the name may still lead to after a power failure
  archive,   \* the backup under the output's name
  shelf,     \* backups that name may still lead to after a power failure
  proc,      \* what each process is at
  restore,   \* the restore command
  promised,  \* history: what was last acknowledged, or put in place
  mixed      \* history: it was put beside the journal of the file before

files == <<target, log, journal, pending, promised, mixed>>
vars == <<target, log, journal, pending, archive, shelf, proc, restore, promised, mixed>>

-------------------------------------------------------------------------------
(* Files.                                                                  *)

\* gen tells a file from the one that had the name before; wal is its mode.
File == [gen: 0..MaxFiles, image: Image, wal: BOOLEAN]

Frames == [of: 0..MaxFiles, image: Db]
Log == [shm: BOOLEAN, wal: BOOLEAN, frames: SUBSET Frames]

NoLog == [shm |-> FALSE, wal |-> FALSE, frames |-> {}]

Attached(l) == [l EXCEPT !.shm = TRUE, !.wal = TRUE]

\* A journal that truncates the file, one of this file, one of another file.
Journals == {"none", "blank", "own", "foreign"}

Strays == {"blank", "foreign"}

\* What a file holds with its log, which is replayed on whatever has the name.
Stored(t, l) ==
  IF l.frames = {} THEN t.image
  ELSE IF \A f \in l.frames : f.of = t.gen
       THEN (CHOOSE f \in l.frames : TRUE).image
       ELSE Torn

\* What opening it finds: a hot journal is rolled back first.  The journal of a
\* transaction that began the database truncates it, one of this file takes it
\* back to what it held, and one of another file makes nonsense of it.
Finding(t, l, j) ==
  CASE t.image = Missing -> Missing
    [] t.image # Missing /\ j = "blank" -> Blank
    [] t.image # Missing /\ j = "foreign" -> Torn
    [] OTHER -> Stored(t, l)

Found == Finding(target, log, journal)

\* The file and the log as opening leaves them.
Opened ==
  IF journal \in Strays THEN [target EXCEPT !.image = Found, !.wal = FALSE] ELSE target

OpenedLog == IF journal \in Strays THEN [NoLog EXCEPT !.shm = log.shm] ELSE log

Usable == Found \in Db /\ Found.version = Current

\* A read-only connection cannot roll a journal back, and fails.
Readable == Usable /\ journal = "none"

\* The name as it may come back when a rename over it is lost.
Earlier ==
  [file |-> target, log |-> log, journal |-> journal, promised |-> promised,
   mixed |-> mixed]

Backup == [image: Image, wal: BOOLEAN, due: Image]

-------------------------------------------------------------------------------
(* Processes.                                                              *)

Steps == {"down", "starting", "up", "open", "copied", "published"}

Proc == [step: Steps, on: 0..MaxFiles, seen: 0..Current, source: SUBSET Instances,
         copy: SUBSET Backup]

Down == [step |-> "down", on |-> 0, seen |-> 0, source |-> {}, copy |-> {}]

\* initialize_database or store.save holds a connection.
Connected(p) == proc[p].step \in {"starting", "open"}

Alone(p) == \A q \in Procs \ {p} : ~(Connected(q) /\ proc[q].on = target.gen)

\* The restore renames and cleans up.  The documentation has every process
\* stopped before a restore begins; the model only has none open the database
\* from the second check on.
Replacing == restore.step \in {"checked", "replaced", "unlinked"}

Idle == [step |-> "idle", image |-> Missing, wal |-> FALSE, met |-> {}]

Restore == [step: {"idle", "probed", "extracted", "checked", "replaced", "unlinked"},
            image: Image, wal: BOOLEAN, met: SUBSET (0..MaxFiles)]

Init ==
  /\ \E x \in {Missing} \cup
             [id: Instances, version: 1..Newest, writes: {{}}, reset: {{}}] :
       /\ target = [gen |-> 0, image |-> x, wal |-> x # Missing]
       /\ promised = x
  /\ log = NoLog
  /\ journal = "none"
  /\ mixed = FALSE
  /\ pending = {}
  /\ \E y \in {Missing} \cup
             [id: Instances, version: 1..Newest, writes: {Writes}, reset: {{}}] :
       archive = [image |-> y, wal |-> TRUE, due |-> y]
  /\ shelf = {}
  /\ proc = [p \in Procs |-> Down]
  /\ restore = Idle

Becomes(p, r) == proc' = [proc EXCEPT ![p] = r]

\* The last connection to close moves the log into the file and removes it.
\* "left" is what the connections found or left behind.
Detach(p, left, l) ==
  IF Alone(p)
  THEN target' = [target EXCEPT !.image = left] /\ log' = NoLog
  ELSE IF target.wal
       THEN target' = target /\ log' = l
       ELSE target' = [target EXCEPT !.image = left] /\ log' = log

\* sqlite3.connect creates the file.
Create(p) ==
  /\ proc[p] = Down /\ ~Replacing
  /\ target.image = Missing /\ target.gen < MaxFiles
  /\ target' = [gen |-> target.gen + 1, image |-> Blank, wal |-> FALSE]
  /\ journal' = "none"
  /\ promised' = Blank /\ mixed' = FALSE
  /\ pending' = pending \cup {Earlier}
  /\ Becomes(p, [Down EXCEPT !.step = "starting", !.on = target.gen + 1])
  /\ UNCHANGED <<log, archive, shelf, restore>>

\* The version is read before the exclusive transaction begins.
Start(p) ==
  /\ proc[p] = Down /\ ~Replacing
  /\ Found \in Db \cup {Blank}
  /\ \E v \in 0..Current :
       /\ v = IF Found = Blank THEN 0 ELSE Found.version
       /\ Becomes(p, [Down EXCEPT !.step = "starting", !.on = target.gen, !.seen = v])
  /\ target' = Opened
  /\ log' = IF Opened.wal THEN Attached(OpenedLog) ELSE OpenedLog
  /\ journal' = "none"
  /\ UNCHANGED <<pending, archive, shelf, restore, promised, mixed>>

\* A database newer than the program is opened, refused and closed.
RefuseNewer(p) ==
  /\ proc[p] = Down /\ ~Replacing
  /\ Found \in Db /\ Found.version > Current
  /\ Detach(p, Found, log)
  /\ journal' = "none"
  /\ UNCHANGED <<pending, archive, shelf, proc, restore, promised, mixed>>

\* So is a file that SQLite cannot make sense of.
RefuseTorn(p) ==
  /\ proc[p].step \in {"down", "up"} /\ ~Replacing
  /\ Found = Torn
  /\ target' = Opened /\ log' = OpenedLog /\ journal' = "none"
  /\ UNCHANGED <<pending, archive, shelf, proc, restore, promised, mixed>>

\* What the migrations after version "seen" make of a database.  The one that
\* rebuilds synthesis_proposal_evidence carries the rows across by a fixed list
\* of columns, and says of each that its operations were evaluated.
Migrated(x, seen) ==
  [x EXCEPT !.version = Current,
            !.reset = IF seen < Rebuild THEN @ \cup (x.writes \cap Evidence) ELSE @]

\* The writes whose accounting may be gone from what was promised.
Due == IF promised \in Db THEN promised.reset ELSE {}

\* All migrations from the version read at the start, in one transaction, then
\* close; on a database nobody else has migrated meanwhile or on one that
\* others have migrated and written to since.
Migrate(p) ==
  /\ proc[p].step = "starting" /\ proc[p].on = target.gen
  /\ Found \in Db \/ (Found = Blank /\ proc[p].seen = 0)
  /\ \E i \in Instances :
       LET new == IF Found = Blank
                  THEN [id |-> i, version |-> Current, writes |-> {}, reset |-> {}]
                  ELSE Migrated(Found, proc[p].seen)
           ran == proc[p].seen < Current
           l   == IF ran THEN [log EXCEPT !.frames = {[of |-> target.gen, image |-> new]}]
                  ELSE log
       IN /\ Detach(p, new, l)
          /\ promised' = [new EXCEPT !.reset = Due]
          /\ pending' = IF ran THEN {} ELSE pending
          /\ Becomes(p, [Down EXCEPT !.step = "up", !.source = {new.id}])
  /\ journal' = "none" /\ mixed' = FALSE
  /\ UNCHANGED <<archive, shelf, restore>>

\* The file was replaced under a connection that had no log yet.  Ending its
\* transaction removes its journal, which lies beside the new file.
MigrateReplaced(p) ==
  /\ proc[p].step = "starting" /\ proc[p].on # target.gen
  /\ journal' \in IF mixed THEN {journal, "none"} ELSE {journal}
  /\ \/ \E i \in Instances : Becomes(p, [Down EXCEPT !.step = "up", !.source = {i}])
     \/ Becomes(p, Down)
  /\ UNCHANGED <<target, log, pending, archive, shelf, restore, promised, mixed>>

\* Mutant of RefuseMigration: every migration is committed on its own.
RefuseMigrationHalfway(p) ==
  /\ proc[p].step = "starting" /\ proc[p].on = target.gen
  /\ proc[p].seen < Current
  /\ Found \in Db
  /\ Detach(p, [Found EXCEPT !.version = proc[p].seen + 1],
            [log EXCEPT !.frames = {[of |-> target.gen,
               image |-> [Found EXCEPT !.version = proc[p].seen + 1]]}])
  /\ promised' = [Found EXCEPT !.version = proc[p].seen + 1]
  /\ Becomes(p, Down)
  /\ UNCHANGED <<journal, pending, archive, shelf, restore, mixed>>

\* The lock is not free for 30 seconds, or a migration finds data it cannot
\* carry over, also when it runs a second time because the version was stale:
\* rolled back, and the start fails.
RefuseMigration(p) ==
  /\ proc[p].step = "starting" /\ proc[p].on = target.gen
  /\ Detach(p, Found, log)
  /\ Becomes(p, Down)
  /\ journal' \in {journal, "none"}
  /\ UNCHANGED <<pending, archive, shelf, restore, promised, mixed>>

\* A database without tables is opened as well, and every query on it fails.
Open(p) ==
  /\ proc[p].step = "up" /\ ~Replacing
  /\ Found \in Db \cup {Blank}
  /\ target' = [Opened EXCEPT !.wal = TRUE]
  /\ log' = Attached(OpenedLog)
  /\ journal' = "none"
  /\ Becomes(p, [proc[p] EXCEPT !.step = "open", !.on = target.gen])
  /\ UNCHANGED <<pending, archive, shelf, restore, promised, mixed>>

\* What is committed while somebody means to rebuild the table, because the
\* version it read came before, is promised without its accounting.
AtRisk ==
  IF \E q \in Procs : /\ proc[q].step = "starting" /\ proc[q].on = target.gen
                      /\ proc[q].seen < Rebuild
  THEN Evidence ELSE {}

\* COMMIT of one request, and its answer.
Commit(p, x) ==
  /\ proc[p].step = "open" /\ proc[p].on = target.gen
  /\ Found \in Db /\ x \notin Found.writes
  /\ LET new == [Found EXCEPT !.writes = @ \cup {x}] IN
       /\ log' = [log EXCEPT !.frames = {[of |-> target.gen, image |-> new]}]
       /\ promised' = [new EXCEPT !.reset = Due \cup ({x} \cap AtRisk)]
  /\ pending' = {}
  /\ mixed' = FALSE
  /\ UNCHANGED <<target, journal, archive, shelf, proc, restore>>

Close(p) ==
  /\ proc[p].step = "open" /\ proc[p].on = target.gen
  /\ Detach(p, Found, log)
  /\ Becomes(p, [proc[p] EXCEPT !.step = "up", !.on = 0])
  /\ UNCHANGED <<journal, pending, archive, shelf, restore, promised, mixed>>

Stop(p) ==
  /\ proc[p].step = "up"
  /\ Becomes(p, Down)
  /\ UNCHANGED <<files, archive, shelf, restore>>

-------------------------------------------------------------------------------
(* Backup: create_backup after its initialize_database.                    *)

\* Mutant of Copy: the file is copied without its log.
CopyFile(p) ==
  /\ proc[p].step = "up" /\ ~Replacing
  /\ Usable /\ Found.id \in proc[p].source
  /\ Detach(p, Found, log)
  /\ Becomes(p, [proc[p] EXCEPT !.step = "copied",
       !.copy = {[image |-> target.image, wal |-> target.wal, due |-> promised]}])
  /\ UNCHANGED <<journal, pending, archive, shelf, restore, promised, mixed>>

\* One snapshot of everything committed, verified: the current schema, and the
\* instance seen at the start.
Copy(p) ==
  /\ proc[p].step = "up" /\ ~Replacing
  /\ Usable /\ Found.id \in proc[p].source
  /\ Detach(p, Found, log)
  /\ Becomes(p, [proc[p] EXCEPT !.step = "copied",
       !.copy = {[image |-> Found, wal |-> target.wal, due |-> promised]}])
  /\ journal' = "none"
  /\ UNCHANGED <<pending, archive, shelf, restore, promised, mixed>>

\* Packed, synced and inspected under a temporary name, then renamed.
Publish(p) ==
  /\ proc[p].step = "copied"
  /\ archive' \in proc[p].copy
  /\ shelf' = shelf \cup {archive}
  /\ Becomes(p, [proc[p] EXCEPT !.step = "published", !.copy = {}])
  /\ UNCHANGED <<files, restore>>

SyncOutput(p) ==
  /\ proc[p].step = "published"
  /\ shelf' = {}
  /\ Becomes(p, Down)
  /\ UNCHANGED <<files, archive, restore>>

\* os.replace fails.
FailBackup(p) ==
  /\ proc[p].step = "copied"
  /\ Becomes(p, Down)
  /\ UNCHANGED <<files, archive, shelf, restore>>

-------------------------------------------------------------------------------
(* Restore: restore_backup as the command line calls it.                   *)

RestoreIs(r) == restore' = r

\* A readable target of another instance needs the override and its
\* confirmation; a target whose instance cannot be read needs the confirmation.
Confirmed(id, expect, allow) ==
  IF Readable
  THEN IF Found.id = id THEN expect \subseteq {id} ELSE allow /\ expect = {id}
  ELSE expect = {id}

\* Reading the target's identity over a read-only connection may leave an empty
\* log and, in some builds of SQLite, the shared-memory file behind.
ProbeLeaves == {NoLog, [NoLog EXCEPT !.wal = TRUE], Attached(NoLog)}

\* Mutant of Met: a number no file has stands for no file.
MetSentinel == {IF target.image = Missing THEN MaxFiles + 1 ELSE target.gen}

\* original_target_identity
Met == IF target.image = Missing THEN {} ELSE {target.gen}

\* The backup is inspected, the target must have no log, its identity is read
\* and has to be confirmed.
RestoreProbe(expect, allow) ==
  /\ restore = Idle
  /\ target.gen < MaxFiles
  /\ archive.image \in Db /\ archive.image.version <= Current
  /\ ~log.shm /\ ~log.wal
  /\ log' \in IF target.wal THEN ProbeLeaves ELSE {log}
  /\ RestoreIs(IF Confirmed(archive.image.id, expect, allow)
               THEN [step |-> "probed", image |-> archive.image,
                     wal |-> archive.wal, met |-> Met]
               ELSE Idle)
  /\ UNCHANGED <<target, journal, pending, archive, shelf, proc, promised, mixed>>

\* The bytes unpacked must be those inspected, of the current schema.
Extractable ==
  /\ archive.image = restore.image /\ archive.wal = restore.wal
  /\ restore.image.version = Current

RestoreExtract ==
  /\ restore.step = "probed"
  /\ Extractable
  /\ RestoreIs([restore EXCEPT !.step = "extracted"])
  /\ UNCHANGED <<files, archive, shelf, proc>>

\* The file met at first is still there, or there is still none.
SameTarget == restore.met = Met

\* Mutant of Unchanged: a shared-memory file is tolerated, as an empty log is.
UnchangedToleratingShm == SameTarget /\ (log.wal => log.frames = {})

\* Nobody came while the backup was verified; an empty log is tolerated.
Unchanged == SameTarget /\ ~log.shm /\ (log.wal => log.frames = {})

RestoreRecheck ==
  /\ restore.step = "extracted"
  /\ Unchanged
  /\ RestoreIs([restore EXCEPT !.step = "checked"])
  /\ UNCHANGED <<files, archive, shelf, proc>>

\* The candidate is removed; so it is when os.replace fails.
RestoreRefuse ==
  /\ \/ restore.step = "probed" /\ ~Extractable
     \/ restore.step = "extracted" /\ ~Unchanged
     \/ restore.step = "checked"
  /\ RestoreIs(Idle)
  /\ UNCHANGED <<files, archive, shelf, proc>>

\* A first start dies, or is at its commit, while the journal it has written
\* lies beside the file.
Unfinished(p) ==
  /\ proc[p].step = "starting" /\ proc[p].on = target.gen
  /\ proc[p].seen < Current /\ ~target.wal

LeftJournals(ps) ==
  {journal} \cup
    IF \E p \in ps : Unfinished(p)
    THEN CASE Found = Blank -> {"blank"}
           [] Found \in Db -> {"own"}
           [] OTHER -> {}
    ELSE {}

\* A journal is the new file's now, whichever file it was written for.
RestoreReplace ==
  /\ restore.step = "checked" /\ target.gen < MaxFiles
  /\ journal' \in {IF j = "own" THEN "foreign" ELSE j : j \in LeftJournals(Procs)}
  /\ mixed' = (journal' # "none")
  /\ pending' = pending \cup {Earlier}
  /\ target' = [gen |-> target.gen + 1, image |-> restore.image, wal |-> restore.wal]
  /\ promised' = restore.image
  /\ RestoreIs([restore EXCEPT !.step = "replaced"])
  /\ UNCHANGED <<log, archive, shelf, proc>>

\* A sidecar that cannot be removed is left where it is.
RestoreUnlink ==
  /\ restore.step = "replaced"
  /\ log' \in {log, NoLog}
  /\ RestoreIs([restore EXCEPT !.step = "unlinked"])
  /\ UNCHANGED <<target, journal, pending, archive, shelf, proc, promised, mixed>>

\* Mutant of RestoreSync: success is reported before the directory is synced.
RestoreUnsynced ==
  /\ restore.step = "unlinked"
  /\ pending' = {[e EXCEPT !.promised = promised, !.mixed = mixed] : e \in pending}
  /\ RestoreIs(Idle)
  /\ UNCHANGED <<target, log, journal, archive, shelf, proc, promised, mixed>>

RestoreSync ==
  /\ restore.step = "unlinked"
  /\ pending' = {}
  /\ RestoreIs(Idle)
  /\ UNCHANGED <<target, log, journal, archive, shelf, proc, promised, mixed>>

-------------------------------------------------------------------------------
(* Faults.                                                                 *)

\* A process that dies removes nothing: its log stays beside the file.
Kill(p) ==
  /\ proc[p] # Down
  /\ journal' \in LeftJournals({p})
  /\ Becomes(p, Down)
  /\ UNCHANGED <<target, log, pending, archive, shelf, restore, promised, mixed>>

KillRestore ==
  /\ restore # Idle
  /\ RestoreIs(Idle)
  /\ UNCHANGED <<files, archive, shelf, proc>>

\* The system writes its directories back by itself.
Flush ==
  /\ pending # {} \/ shelf # {}
  /\ pending' = {} /\ shelf' = {}
  /\ UNCHANGED <<target, log, journal, archive, proc, restore, promised, mixed>>

\* Everything stops.  Each rename not yet synced is there or is not, and so is
\* each removal of a log; with a rename that is lost the journal beside the
\* older file is its own again.
PowerFailure ==
  /\ \E e \in pending \cup {Earlier} :
       /\ target' = e.file
       /\ promised' = e.promised /\ mixed' = e.mixed
       /\ log' \in {log, e.log}
       /\ journal' \in IF e = Earlier THEN LeftJournals(Procs) ELSE {e.journal}
  /\ archive' \in shelf \cup {archive}
  /\ proc' = [p \in Procs |-> Down]
  /\ RestoreIs(Idle)
  /\ pending' = {} /\ shelf' = {}

-------------------------------------------------------------------------------
StartCommand(p) == Migrate(p) \/ MigrateReplaced(p) \/ RefuseMigration(p)

BackupCommand(p) == Publish(p) \/ SyncOutput(p) \/ FailBackup(p)

RestoreCommand ==
  \/ RestoreExtract
  \/ RestoreRecheck
  \/ RestoreRefuse
  \/ RestoreReplace
  \/ RestoreUnlink
  \/ RestoreSync

Serve(p) ==
  \/ Open(p)
  \/ \E x \in Writes : Commit(p, x)
  \/ Close(p)
  \/ Stop(p)

Process(p) ==
  \/ Create(p)
  \/ Start(p)
  \/ RefuseNewer(p)
  \/ RefuseTorn(p)
  \/ StartCommand(p)
  \/ Serve(p)
  \/ Copy(p)
  \/ BackupCommand(p)
  \/ Kill(p)

Next ==
  \/ \E p \in Procs : Process(p)
  \/ \E expect \in SUBSET Instances, allow \in BOOLEAN : RestoreProbe(expect, allow)
  \/ RestoreCommand
  \/ KillRestore
  \/ Flush
  \/ PowerFailure

Spec == Init /\ [][Next]_vars

-------------------------------------------------------------------------------
(* Types.  The files, the processes and the command have these shapes.     *)
TypeOK ==
  /\ target \in File
  /\ log \in Log
  /\ journal \in Journals
  /\ pending \subseteq [file: File, log: Log, journal: Journals, promised: Image,
                       mixed: BOOLEAN]
  /\ archive \in Backup
  /\ shelf \subseteq Backup
  /\ proc \in [Procs -> Proc]
  /\ restore \in Restore
  /\ promised \in Image
  /\ mixed \in BOOLEAN

\* A database is the one that is due, with no accounting lost but what may be.
Held(x, due) ==
  IF due \in Db
  THEN /\ x \in Db
       /\ x.id = due.id /\ x.version = due.version /\ x.writes = due.writes
       /\ x.reset \subseteq due.reset
  ELSE x = due

\* A restore has put its file beside another file's journal, which it does not
\* look for, and opening the file loses it.
Spoilt == mixed /\ Found \in {Blank, Torn}

(***************************************************************************)
(* Opening the database finds what was last acknowledged: every committed  *)
(* write, the migrated schema, or the backup just restored and nothing     *)
(* else of it, whoever was killed and whatever a power failure undid       *)
(* (docs/sqlite-backup-restore.md: the replacement is atomic, and a        *)
(* leftover log means that the service has not stopped).  There are two    *)
(* exceptions and no others: evidence committed while another process      *)
(* still migrates from a version before Rebuild may lose its accounting,   *)
(* and a restore done beside a start that was killed, or is, in its commit *)
(* may lose its file.                                                      *)
(***************************************************************************)
PromiseKept == Held(Found, promised) \/ Spoilt

(***************************************************************************)
(* A restore never takes the file from under a request: what an open       *)
(* connection still commits goes to the file that has the name             *)
(* (_reject_restore_target, _reject_new_restore_sidecars).                 *)
(***************************************************************************)
NoneIsCutOff ==
  \A p \in Procs : proc[p].step = "open" => proc[p].on = target.gen

(***************************************************************************)
(* A backup holds everything that was committed when it was taken, also    *)
(* what lay only in the log of a running service, and a power failure      *)
(* leaves this one or the one before it.                                   *)
(***************************************************************************)
BackupIsComplete == Held(archive.image, archive.due)

(***************************************************************************)
(* No process serves a database of another schema than its own, although   *)
(* the version it decided on at its start was read outside the exclusive   *)
(* transaction and others may migrate, fail to migrate or restore since;   *)
(* but for the restored file that another file's journal has spoilt.       *)
(***************************************************************************)
ServesCurrentSchema ==
  \A p \in Procs : proc[p].step \in {"up", "open"} => Usable \/ Spoilt

===============================================================================
