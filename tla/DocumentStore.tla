---------------------------- MODULE DocumentStore -----------------------------
(***************************************************************************)
(* The document kernel: DocumentService over SQLiteDocumentStore.          *)
(*                                                                         *)
(* Request handlers run in a thread pool.  A handler that changes a        *)
(* drawing reads the row (store.get), computes the next row in memory and  *)
(* writes it with a compare-and-set on the revision it read (store.save);  *)
(* only each read and each write is a transaction.  A worker is one such   *)
(* handler, and its work record is what it holds between the two.          *)
(*                                                                         *)
(* A drawing stands for everything a revision overwrites (elements,        *)
(* layers, name, folder), so two versions are told apart, never looked     *)
(* into.  A row keeps the revision, the drawing and both undo stacks.      *)
(***************************************************************************)
EXTENDS Naturals, Sequences

CONSTANTS
  Docs,          \* document ids
  Workers,       \* request handlers in flight
  Drawings,      \* what a revision may look like
  Blank,         \* the drawing of a document just created
  HistoryLimit,  \* DocumentService.history_limit
  MaxRevision,   \* bound of the model on revision numbers
  MaxLives       \* bound of the model on how often an id is given to a row

ASSUME BlankAssumption == Blank \in Drawings
ASSUME LimitAssumption == HistoryLimit \in Nat \ {0}
ASSUME BoundAssumption == MaxRevision \in Nat
ASSUME LivesAssumption == MaxLives \in Nat \ {0}

VARIABLES
  documents,  \* table documents: a Row, or NoRow
  history,    \* table document_history: the revisions recorded, in order
  specs,      \* table m7_semantic_specs: it has no foreign key to documents
  work,       \* what each worker holds between its read and its write
  life        \* how often each id was given to a row: the life it is in

vars == <<documents, history, specs, work, life>>

-------------------------------------------------------------------------------
(* Rows.                                                                   *)

Row == [live: {TRUE}, rev: Nat, drawing: Drawings,
        undo: Seq(Drawings), redo: Seq(Drawings)]

NoRow == [live |-> FALSE]

RowAt(r, x, undo, redo) ==
  [live |-> TRUE, rev |-> r, drawing |-> x, undo |-> undo, redo |-> redo]

NewRow(r, x, undo) == RowAt(r, x, undo, <<>>)

\* stack[-history_limit:]
Capped(s) ==
  IF Len(s) <= HistoryLimit THEN s
  ELSE SubSeq(s, Len(s) - HistoryLimit + 1, Len(s))

Top(s) == s[Len(s)]
Popped(s) == SubSeq(s, 1, Len(s) - 1)

\* Mutant of Edited: a whole row is pushed.
EditedPushingRow(row, x) ==
  RowAt(row.rev + 1, x, Capped(Append(row.undo, row)), <<>>)

\* The row a transaction, a rename or a folder move stages.
Edited(row, x) ==
  RowAt(row.rev + 1, x, Capped(Append(row.undo, row.drawing)), <<>>)

\* Mutant of Undone: the undone version cannot be redone.
UndoneForGood(row) ==
  RowAt(row.rev + 1, Top(row.undo), Popped(row.undo), row.redo)

Undone(row) ==
  RowAt(row.rev + 1, Top(row.undo),
        Popped(row.undo), Capped(Append(row.redo, row.drawing)))

Redone(row) ==
  RowAt(row.rev + 1, Top(row.redo),
        Capped(Append(row.undo, row.drawing)), Popped(row.redo))

-------------------------------------------------------------------------------
(* Work.  A job also keeps the life of the document in which its request   *)
(* first read it, which the code does not know of.                         *)

Writes == {"edit", "undo", "redo", "text"}

Work == [op: Writes \cup {"check"}, doc: Docs, base: Row, to: Drawings, life: Nat]

Idle == [op |-> "idle"]

\* The row a worker is about to write.
Staged(job) ==
  CASE job.op = "undo" -> Undone(job.base)
    [] job.op = "redo" -> Redone(job.base)
    [] OTHER           -> Edited(job.base, job.to)

\* The life is again not the code's: the one the source was written in.
SpecRow == [doc: Docs, rev: Nat, draws: Drawings, life: Nat]

SpecsOf(d) == {s \in specs : s.doc = d}

\* latest_semantic_spec: the newest row of the document, whatever its revision.
LatestSpec(d) == {s \in SpecsOf(d) : \A t \in SpecsOf(d) : t.rev <= s.rev}

-------------------------------------------------------------------------------
Init ==
  /\ documents = [d \in Docs |-> NoRow]
  /\ history = [d \in Docs |-> <<>>]
  /\ specs = {}
  /\ work = [w \in Workers |-> Idle]
  /\ life = [d \in Docs |-> 0]

\* A row appears together with its first history entry.
Insert(d, row) ==
  /\ documents' = [documents EXCEPT ![d] = row]
  /\ history' = [history EXCEPT ![d] = <<row.rev>>]
  /\ life' = [life EXCEPT ![d] = @ + 1]
  /\ UNCHANGED <<specs, work>>

\* Fresh ids are UUIDs: no id is drawn twice.
CreateDocument(d) ==
  /\ life[d] = 0
  /\ Insert(d, NewRow(0, Blank, <<>>))

\* CAD import: one revision, one history entry, one undo snapshot.
CreateDocumentWithOperations(d, x) ==
  /\ life[d] = 0
  /\ MaxRevision >= 1
  /\ Insert(d, NewRow(1, x, <<Blank>>))

\* The payload keeps its revision, and keeps its id unless a row has it now:
\* an exported document comes back under its id once it is deleted.
ImportDocument(d, r, x) ==
  /\ ~documents[d].live
  /\ life[d] < MaxLives
  /\ Insert(d, NewRow(r, x, <<>>))

\* History goes with the row (ON DELETE CASCADE); semantic specs stay.
DeleteDocument(d) ==
  /\ documents[d].live
  /\ documents' = [documents EXCEPT ![d] = NoRow]
  /\ history' = [history EXCEPT ![d] = <<>>]
  /\ UNCHANGED <<specs, work, life>>

-------------------------------------------------------------------------------
(* Reading and staging.  expected_revision, when the caller sends one, is  *)
(* compared with the row just read; a mismatch ends the request.           *)

Take(w, job) ==
  /\ work[w] = Idle
  /\ work' = [work EXCEPT ![w] = job]
  /\ UNCHANGED <<documents, history, specs, life>>

Readable(d) == documents[d].live /\ documents[d].rev < MaxRevision

Job(op, d, x) ==
  [op |-> op, doc |-> d, base |-> documents[d], to |-> x, life |-> life[d]]

StageTransaction(w, d, x) ==
  /\ Readable(d)
  /\ Take(w, Job("edit", d, x))

\* Renaming to the name it has is answered without a write.
StageRename(w, d, x) ==
  /\ Readable(d)
  /\ x # documents[d].drawing
  /\ Take(w, Job("edit", d, x))

StageUndo(w, d) ==
  /\ Readable(d)
  /\ documents[d].undo # <<>>
  /\ Take(w, Job("undo", d, documents[d].drawing))

StageRedo(w, d) ==
  /\ Readable(d)
  /\ documents[d].redo # <<>>
  /\ Take(w, Job("redo", d, documents[d].drawing))

\* Drawing from a sentence: the target must hold nothing.
CheckEmptyTarget(w, d, x) ==
  /\ Readable(d)
  /\ documents[d].drawing = Blank
  /\ Take(w, Job("check", d, x))

\* Editing by a sentence: the newest source must be of the revision the
\* document is at, and the drawing must be exactly what that source draws.
CheckReplaceableTarget(w, d, x) ==
  /\ Readable(d)
  /\ \E s \in LatestSpec(d) :
       s.rev = documents[d].rev /\ s.draws = documents[d].drawing
  /\ Take(w, Job("check", d, x))

\* The job of a second read, of a request that began with job.
TextJob(job) == [Job("text", job.doc, job.to) EXCEPT !.life = job.life]

\* Mutant of StageText: the second read is not compared with the first.
StageTextUnchecked(w) ==
  LET job == work[w] IN
  /\ job.op = "check"
  /\ documents[job.doc].live
  /\ work' = [work EXCEPT ![w] = TextJob(job)]
  /\ UNCHANGED <<documents, history, specs, life>>

\* Both then call apply_transaction, which reads the row again and compares
\* it with the revision checked.
StageText(w) ==
  LET job == work[w] IN
  /\ job.op = "check"
  /\ documents[job.doc].live
  /\ documents[job.doc].rev = job.base.rev
  /\ work' = [work EXCEPT ![w] = TextJob(job)]
  /\ UNCHANGED <<documents, history, specs, life>>

RefuseText(w) ==
  LET job == work[w] IN
  /\ job.op = "check"
  /\ documents[job.doc].live => documents[job.doc].rev # job.base.rev
  /\ work' = [work EXCEPT ![w] = Idle]
  /\ UNCHANGED <<documents, history, specs, life>>

-------------------------------------------------------------------------------
(* store.save: one transaction, all of it or nothing.                      *)

\* Mutant of CompareAndSet: UPDATE ... WHERE id = ? only.
BlindSet(job) == documents[job.doc].live

CompareAndSet(job) ==
  documents[job.doc].live /\ documents[job.doc].rev = job.base.rev

\* PRIMARY KEY (document_id, revision) of m7_semantic_specs.
SpecFree(job) ==
  job.op = "text" =>
    \A s \in specs : s.doc = job.doc => s.rev # job.base.rev + 1

Saves(job) == CompareAndSet(job) /\ SpecFree(job)

SpecsWritten(job) ==
  IF job.op = "text"
  THEN {[doc |-> job.doc, rev |-> job.base.rev + 1, draws |-> job.to,
         life |-> life[job.doc]]}
  ELSE {}

Save(w) ==
  LET job == work[w] IN
  /\ job.op \in Writes
  /\ Saves(job)
  /\ documents' = [documents EXCEPT ![job.doc] = Staged(job)]
  /\ history' = [history EXCEPT ![job.doc] = Append(@, job.base.rev + 1)]
  /\ specs' = specs \cup SpecsWritten(job)
  /\ work' = [work EXCEPT ![w] = Idle]
  /\ UNCHANGED life

\* Mutant of Conflict: the semantic source was written by a transaction of its
\* own, before the compare-and-set failed.
ConflictKeepingSource(w) ==
  /\ work[w].op \in Writes
  /\ ~Saves(work[w])
  /\ work' = [work EXCEPT ![w] = Idle]
  /\ specs' = specs \cup SpecsWritten(work[w])
  /\ UNCHANGED <<documents, history, life>>

\* StoreRevisionConflictError, or the IntegrityError of the spec's key.
Conflict(w) ==
  /\ work[w].op \in Writes
  /\ ~Saves(work[w])
  /\ work' = [work EXCEPT ![w] = Idle]
  /\ UNCHANGED <<documents, history, specs, life>>

-------------------------------------------------------------------------------
Lifecycle(d) ==
  \/ CreateDocument(d)
  \/ \E x \in Drawings : CreateDocumentWithOperations(d, x)
  \/ \E r \in 0..MaxRevision, x \in Drawings : ImportDocument(d, r, x)
  \/ DeleteDocument(d)

Handle(w) ==
  \/ \E d \in Docs, x \in Drawings :
       \/ StageTransaction(w, d, x)
       \/ StageRename(w, d, x)
       \/ CheckEmptyTarget(w, d, x)
       \/ CheckReplaceableTarget(w, d, x)
  \/ \E d \in Docs : StageUndo(w, d) \/ StageRedo(w, d)
  \/ StageText(w)
  \/ RefuseText(w)
  \/ Save(w)
  \/ Conflict(w)

Next == (\E d \in Docs : Lifecycle(d)) \/ (\E w \in Workers : Handle(w))

Spec == Init /\ [][Next]_vars

-------------------------------------------------------------------------------
(* Types.  Every table and every work record has the shape the schema and  *)
(* the handlers give it.                                                   *)
TypeOK ==
  /\ documents \in [Docs -> Row \cup {NoRow}]
  /\ history \in [Docs -> Seq(Nat)]
  /\ specs \subseteq SpecRow
  /\ work \in [Workers -> Work \cup {Idle}]
  /\ life \in [Docs -> Nat]

StacksFit(row) == Len(row.undo) + Len(row.redo) <= HistoryLimit

(***************************************************************************)
(* No undo or redo ever drops a version: together the two stacks fit in    *)
(* history_limit, so the cap that undo and redo apply to the stack they    *)
(* push (service.py, undo and redo) never cuts anything.                   *)
(***************************************************************************)
StacksShareTheLimit == \A d \in Docs : documents[d].live => StacksFit(documents[d])

\* A history that ends at revision r and skips none.
RunsTo(h, r) ==
  /\ Len(h) > 0
  /\ Top(h) = r
  /\ \A i \in 2..Len(h) : h[i] = h[i - 1] + 1

(***************************************************************************)
(* Every revision of a document is in its history, once and in order, and  *)
(* the newest entry is the revision the row is at: the history row is      *)
(* written in the transaction of the revision (store.save).                *)
(***************************************************************************)
HistoryNamesEveryRevision ==
  \A d \in Docs :
    documents[d].live => RunsTo(history[d], documents[d].rev)

(***************************************************************************)
(* No lost update: the write a worker is about to make replaces exactly    *)
(* the row the worker computed it from (README, "document revision"        *)
(* optimistic concurrency), unless the document was deleted and came back  *)
(* under its id since the request read it: the compare-and-set of          *)
(* store.save is on the id and the revision, and both may be those of      *)
(* another row then.                                                       *)
(***************************************************************************)
NoLostUpdate ==
  \A w \in Workers :
    LET job == work[w] IN
    job.op \in Writes /\ CompareAndSet(job) /\ job.life = life[job.doc]
      => documents[job.doc] = job.base

(***************************************************************************)
(* The semantic source and the drawing never disagree: no source is of a   *)
(* revision the document has not reached, and a source of the current      *)
(* revision draws the current drawing (store.save's companion write).  A   *)
(* source outlives its document, so this is about those written since the  *)
(* row was inserted, whenever the request that wrote them began and        *)
(* whatever older sources were in its way.                                 *)
(***************************************************************************)
SourceAgreesWithDrawing ==
  \A s \in specs : documents[s.doc].live /\ s.life = life[s.doc] =>
    /\ s.rev <= documents[s.doc].rev
    /\ s.rev = documents[s.doc].rev => s.draws = documents[s.doc].drawing

\* The row a handler read held nothing, or what a source on record draws.
Own(job) ==
  \/ job.base.drawing = Blank
  \/ \E s \in specs :
       s.doc = job.doc /\ s.rev = job.base.rev /\ s.draws = job.base.drawing

(***************************************************************************)
(* A sentence never destroys work it did not decide: what a staged text    *)
(* write would replace is an empty sheet or the very drawing its source    *)
(* produced, whatever happened between the check and the second read       *)
(* (require_empty_target, require_replaceable_target), short of the        *)
(* document being deleted and coming back at the revision checked.         *)
(***************************************************************************)
TextReplacesOnlyItsOwn ==
  \A w \in Workers :
    LET job == work[w] IN
    job.op = "text" /\ job.life = life[job.doc] => Own(job)

-------------------------------------------------------------------------------
(* Implementation of VersionedDrawing: the undo stack, the drawing and the *)
(* redo stack from its top down are one timeline.                          *)
Flipped(s) == [i \in 1..Len(s) |-> s[Len(s) + 1 - i]]

Timeline(row) ==
  [rev |-> row.rev, at |-> Len(row.undo) + 1,
   versions |-> row.undo \o <<row.drawing>> \o Flipped(row.redo)]

NoTimeline == [rev |-> 0, at |-> 0, versions |-> <<>>]

Cells == [d \in Docs |-> IF documents[d].live THEN Timeline(documents[d]) ELSE NoTimeline]

\* What is still held of a document in an earlier life of its id.
Held == {work[w] : w \in {v \in Workers : work[v] # Idle}}

Ghosts ==
  [d \in Docs |-> {Timeline(job.base) : job \in {j \in Held : j.doc = d /\ j.life # life[d]}}]

Promise == INSTANCE VersionedDrawing WITH
  cell <- Cells, ghosts <- Ghosts, Revisions <- 0..MaxRevision

(***************************************************************************)
(* Read, stage and compare-and-set are together one atomic step on the     *)
(* timeline: concurrent handlers are linearized, and the two stacks behave *)
(* as one timeline with a position.  Deleted and imported again under its  *)
(* id, a document may be overtaken by a request that read it before, and   *)
(* then only by what that request makes of what it read.                   *)
(***************************************************************************)
Linearized == Promise!Spec

===============================================================================
