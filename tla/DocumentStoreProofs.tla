------------------------- MODULE DocumentStoreProofs --------------------------
(***************************************************************************)
(* Proofs about DocumentStore, for any number of documents, handlers,      *)
(* drawings and revisions.                                                 *)
(***************************************************************************)
EXTENDS DocumentStore, SequenceTheorems, TLAPS

-------------------------------------------------------------------------------
(* The stack operators.                                                    *)

\* stack[-history_limit:] keeps a stack a stack, and within the limit.
LEMMA CappedStack ==
  ASSUME NEW s \in Seq(Drawings)
  PROVE  /\ Capped(s) \in Seq(Drawings)
         /\ Len(Capped(s)) <= HistoryLimit
         /\ Len(Capped(s)) <= Len(s)
<1> DEFINE k == Len(s) - HistoryLimit + 1
<1>1. Len(s) \in Nat /\ HistoryLimit \in Nat /\ HistoryLimit >= 1
  BY LimitAssumption
<1>2. CASE Len(s) <= HistoryLimit
  BY <1>1, <1>2 DEF Capped
<1>3. CASE ~(Len(s) <= HistoryLimit)
  <2>1. /\ k \in 1..Len(s) /\ Len(s) - k + 1 = HistoryLimit
        /\ Capped(s) = SubSeq(s, k, Len(s))
    BY <1>1, <1>3 DEF Capped
  <2>2. \A i \in k..Len(s) : s[i] \in Drawings
    BY <1>1, <2>1
  <2>3. SubSeq(s, k, Len(s)) \in Seq(Drawings) /\ Len(SubSeq(s, k, Len(s))) = HistoryLimit
    BY <1>1, <2>1, <2>2, SubSeqProperties
  <2> QED
    BY <1>1, <1>3, <2>1, <2>3
<1> QED
  BY <1>2, <1>3

\* Taking the top off a stack.
LEMMA PoppedStack ==
  ASSUME NEW s \in Seq(Drawings), s # <<>>
  PROVE  /\ Top(s) \in Drawings
         /\ Popped(s) \in Seq(Drawings)
         /\ Len(Popped(s)) = Len(s) - 1
<1>1. Len(s) \in Nat /\ Len(s) > 0 /\ \A i \in 1..Len(s) : s[i] \in Drawings
  BY EmptySeq
<1> DEFINE n == Len(s) - 1
<1>2. n \in Int /\ 1 \in Int /\ n >= 0 /\ \A i \in 1..n : s[i] \in Drawings
  BY <1>1
<1>3. /\ SubSeq(s, 1, n) \in Seq(Drawings)
      /\ Len(SubSeq(s, 1, n)) = IF 1 <= n THEN n - 1 + 1 ELSE 0
  BY <1>2, SubSeqProperties
<1>4. n \in Nat
  BY <1>1
<1>5. Len(SubSeq(s, 1, n)) = n
  <2> HIDE DEF n
  <2>1. CASE n = 0
    BY <1>3, <2>1
  <2>2. CASE n >= 1
    BY <1>3, <1>4, <2>2
  <2> QED
    BY <1>4, <2>1, <2>2
<1> QED
  BY <1>1, <1>3, <1>5 DEF Top, Popped

\* Pushing on a stack, then capping it.
LEMMA PushedStack ==
  ASSUME NEW s \in Seq(Drawings), NEW x \in Drawings
  PROVE  /\ Capped(Append(s, x)) \in Seq(Drawings)
         /\ Len(Capped(Append(s, x))) \in Nat
         /\ Len(Capped(Append(s, x))) <= HistoryLimit
         /\ Len(Capped(Append(s, x))) <= Len(s) + 1
<1>1. Append(s, x) \in Seq(Drawings) /\ Len(Append(s, x)) = Len(s) + 1
  OBVIOUS
<1>2. /\ Capped(Append(s, x)) \in Seq(Drawings)
      /\ Len(Capped(Append(s, x))) <= HistoryLimit
      /\ Len(Capped(Append(s, x))) <= Len(Append(s, x))
  BY <1>1, CappedStack
<1> QED
  BY <1>1, <1>2

\* What each write stages is a row one revision on, and within the limit.
LEMMA EditedRow ==
  ASSUME NEW row \in Row, NEW x \in Drawings
  PROVE  /\ Edited(row, x) \in Row
         /\ Edited(row, x).rev = row.rev + 1
         /\ Edited(row, x).drawing = x
         /\ StacksFit(Edited(row, x))
<1> DEFINE pushed == Capped(Append(row.undo, row.drawing))
<1>1. /\ row.undo \in Seq(Drawings) /\ row.drawing \in Drawings
      /\ row.rev \in Nat /\ row.live = TRUE
  BY DEF Row
<1>2. pushed \in Seq(Drawings) /\ Len(pushed) \in Nat /\ Len(pushed) <= HistoryLimit
  BY <1>1, PushedStack
<1>3. <<>> \in Seq(Drawings) /\ Len(<<>>) = 0
  OBVIOUS
<1> HIDE DEF pushed
<1>4. Edited(row, x) = RowAt(row.rev + 1, x, pushed, <<>>)
  BY DEF Edited, pushed
<1>5. Edited(row, x) \in Row
  BY <1>1, <1>2, <1>3, <1>4 DEF Row, RowAt
<1>6. StacksFit(Edited(row, x))
  BY <1>2, <1>3, <1>4, LimitAssumption DEF StacksFit, RowAt
<1> QED
  BY <1>4, <1>5, <1>6 DEF RowAt

LEMMA UndoneRow ==
  ASSUME NEW row \in Row, row.undo # <<>>
  PROVE  /\ Undone(row) \in Row
         /\ Undone(row).rev = row.rev + 1
         /\ StacksFit(row) => StacksFit(Undone(row))
<1> DEFINE pushed == Capped(Append(row.redo, row.drawing))
<1>1. /\ row.undo \in Seq(Drawings) /\ row.redo \in Seq(Drawings)
      /\ row.drawing \in Drawings /\ row.rev \in Nat /\ row.live = TRUE
  BY DEF Row
<1>2. /\ pushed \in Seq(Drawings) /\ Len(pushed) \in Nat
      /\ Len(pushed) <= Len(row.redo) + 1
  BY <1>1, PushedStack
<1>3. /\ Top(row.undo) \in Drawings
      /\ Popped(row.undo) \in Seq(Drawings)
      /\ Len(Popped(row.undo)) = Len(row.undo) - 1
  BY <1>1, PoppedStack
<1>4. Len(row.undo) \in Nat /\ Len(row.redo) \in Nat
  BY <1>1
<1> HIDE DEF pushed
<1>5. Undone(row) = RowAt(row.rev + 1, Top(row.undo), Popped(row.undo), pushed)
  BY DEF Undone, pushed
<1>6. Undone(row) \in Row
  BY <1>1, <1>2, <1>3, <1>5 DEF Row, RowAt
<1>7. ASSUME StacksFit(row) PROVE StacksFit(Undone(row))
  <2> DEFINE a == Len(row.undo)
             b == Len(row.redo)
             p == Len(Popped(row.undo))
             q == Len(pushed)
  <2>1. /\ a \in Nat /\ b \in Nat /\ q \in Nat /\ HistoryLimit \in Nat
        /\ p = a - 1 /\ q <= b + 1
    BY <1>2, <1>3, <1>4, LimitAssumption
  <2>2. a + b <= HistoryLimit
    BY <1>7 DEF StacksFit
  <2>3. Undone(row).undo = Popped(row.undo) /\ Undone(row).redo = pushed
    BY <1>5 DEF RowAt
  <2>4. StacksFit(Undone(row)) <=> p + q <= HistoryLimit
    BY <2>3 DEF StacksFit
  <2> HIDE DEF a, b, p, q
  <2> QED
    BY <2>1, <2>2, <2>4
<1> QED
  BY <1>5, <1>6, <1>7 DEF RowAt

LEMMA RedoneRow ==
  ASSUME NEW row \in Row, row.redo # <<>>
  PROVE  /\ Redone(row) \in Row
         /\ Redone(row).rev = row.rev + 1
         /\ StacksFit(row) => StacksFit(Redone(row))
<1> DEFINE pushed == Capped(Append(row.undo, row.drawing))
<1>1. /\ row.redo \in Seq(Drawings) /\ row.undo \in Seq(Drawings)
      /\ row.drawing \in Drawings /\ row.rev \in Nat /\ row.live = TRUE
  BY DEF Row
<1>2. /\ pushed \in Seq(Drawings) /\ Len(pushed) \in Nat
      /\ Len(pushed) <= Len(row.undo) + 1
  BY <1>1, PushedStack
<1>3. /\ Top(row.redo) \in Drawings
      /\ Popped(row.redo) \in Seq(Drawings)
      /\ Len(Popped(row.redo)) = Len(row.redo) - 1
  BY <1>1, PoppedStack
<1>4. Len(row.undo) \in Nat /\ Len(row.redo) \in Nat
  BY <1>1
<1> HIDE DEF pushed
<1>5. Redone(row) = RowAt(row.rev + 1, Top(row.redo), pushed, Popped(row.redo))
  BY DEF Redone, pushed
<1>6. Redone(row) \in Row
  BY <1>1, <1>2, <1>3, <1>5 DEF Row, RowAt
<1>7. ASSUME StacksFit(row) PROVE StacksFit(Redone(row))
  <2> DEFINE a == Len(row.redo)
             b == Len(row.undo)
             p == Len(Popped(row.redo))
             q == Len(pushed)
  <2>1. /\ a \in Nat /\ b \in Nat /\ q \in Nat /\ HistoryLimit \in Nat
        /\ p = a - 1 /\ q <= b + 1
    BY <1>2, <1>3, <1>4, LimitAssumption
  <2>2. b + a <= HistoryLimit
    BY <1>7 DEF StacksFit
  <2>3. Redone(row).redo = Popped(row.redo) /\ Redone(row).undo = pushed
    BY <1>5 DEF RowAt
  <2>4. StacksFit(Redone(row)) <=> q + p <= HistoryLimit
    BY <2>3 DEF StacksFit
  <2> HIDE DEF a, b, p, q
  <2> QED
    BY <2>1, <2>2, <2>4
<1> QED
  BY <1>5, <1>6, <1>7 DEF RowAt

\* A handler that stages an undo or a redo has seen something to take.
HasTop(job) ==
  /\ job.op = "undo" => job.base.undo # <<>>
  /\ job.op = "redo" => job.base.redo # <<>>

LEMMA StagedRow ==
  ASSUME NEW job \in Work, HasTop(job)
  PROVE  /\ Staged(job) \in Row
         /\ Staged(job).rev = job.base.rev + 1
         /\ StacksFit(job.base) => StacksFit(Staged(job))
         /\ job.op = "text" => Staged(job).drawing = job.to
<1>1. job.base \in Row /\ job.to \in Drawings
  BY DEF Work
<1>2. CASE job.op = "undo"
  <2>1. Staged(job) = Undone(job.base)
    BY <1>2 DEF Staged
  <2> QED
    BY <1>1, <1>2, <2>1, UndoneRow DEF HasTop
<1>3. CASE job.op = "redo"
  <2>1. Staged(job) = Redone(job.base)
    BY <1>3 DEF Staged
  <2> QED
    BY <1>1, <1>3, <2>1, RedoneRow DEF HasTop
<1>4. CASE job.op \notin {"undo", "redo"}
  <2>1. Staged(job) = Edited(job.base, job.to)
    BY <1>4 DEF Staged
  <2> QED
    BY <1>1, <2>1, EditedRow
<1> QED
  BY <1>2, <1>3, <1>4

-------------------------------------------------------------------------------
(* Types.                                                                  *)

\* TypeOK is inductive once undo and redo are known to have a version to take;
\* a row that is there was given its id.
Typed ==
  /\ TypeOK
  /\ \A w \in Workers : HasTop(work[w])
  /\ \A d \in Docs : documents[d].live => life[d] > 0

LEMMA LiveRow ==
  ASSUME Typed, NEW d \in Docs, documents[d].live
  PROVE  documents[d] \in Row
BY DEF Typed, TypeOK, NoRow

LEMMA BusyWork ==
  ASSUME Typed, NEW w \in Workers, work[w].op # "idle"
  PROVE  work[w] \in Work /\ work[w].base \in Row /\ HasTop(work[w])
BY DEF Typed, TypeOK, Idle, Work

LEMMA InitTyped == Init => Typed
<1> SUFFICES ASSUME Init PROVE Typed
  OBVIOUS
<1>1. <<>> \in Seq(Nat)
  OBVIOUS
<1>2. Idle.op = "idle" /\ NoRow.live = FALSE
  BY DEF Idle, NoRow
<1> QED
  BY <1>1, <1>2 DEF Init, Typed, TypeOK, HasTop

\* What a handler takes away is well formed.
LEMMA TakeTyped ==
  ASSUME Typed, NEW w \in Workers, NEW job \in Work, HasTop(job), Take(w, job)
  PROVE  Typed'
BY DEF Typed, TypeOK, Take

\* A row that appears is well formed, and so is its history.
LEMMA InsertTyped ==
  ASSUME Typed, NEW d \in Docs, NEW row \in Row, Insert(d, row)
  PROVE  Typed'
<1>1. row.rev \in Nat /\ <<row.rev>> \in Seq(Nat)
  BY DEF Row
<1>2. life' \in [Docs -> Nat] /\ life'[d] = life[d] + 1 /\ life'[d] > 0
      /\ \A e \in Docs : e # d => life'[e] = life[e]
  BY DEF Typed, TypeOK, Insert
<1> QED
  BY <1>1, <1>2 DEF Typed, TypeOK, Insert

LEMMA JobTyped ==
  ASSUME Typed, NEW d \in Docs, documents[d].live, NEW x \in Drawings,
         NEW op \in Writes \cup {"check"}
  PROVE  Job(op, d, x) \in Work
<1>1. documents[d] \in Row /\ life[d] \in Nat
  BY LiveRow DEF Typed, TypeOK
<1> QED
  BY <1>1 DEF Job, Work

\* The second read of a text request changes the operation and the row.
LEMMA SecondRead ==
  ASSUME Typed, NEW job \in Work, documents[job.doc].live
  PROVE  /\ TextJob(job) \in Work
         /\ TextJob(job).op = "text" /\ TextJob(job).base = documents[job.doc]
         /\ TextJob(job).doc = job.doc /\ TextJob(job).life = job.life
<1>1. documents[job.doc] \in Row
  BY LiveRow DEF Work
<1> QED
  BY <1>1 DEF TextJob, Job, Work, Writes

LEMMA NextTyped == Typed /\ [Next]_vars => Typed'
<1> SUFFICES ASSUME Typed, [Next]_vars PROVE Typed'
  OBVIOUS
<1>1. CASE UNCHANGED vars
  BY <1>1 DEF Typed, TypeOK, HasTop, vars
<1>2. ASSUME NEW d \in Docs, Lifecycle(d) PROVE Typed'
  <2>1. <<>> \in Seq(Drawings) /\ <<Blank>> \in Seq(Drawings) /\ Blank \in Drawings
    BY BlankAssumption
  <2>2. CASE CreateDocument(d)
    <3>1. NewRow(0, Blank, <<>>) \in Row
      BY <2>1 DEF NewRow, RowAt, Row
    <3> QED
      BY <2>2, <3>1, InsertTyped DEF CreateDocument
  <2>3. ASSUME NEW x \in Drawings, CreateDocumentWithOperations(d, x) PROVE Typed'
    <3>1. NewRow(1, x, <<Blank>>) \in Row
      BY <2>1 DEF NewRow, RowAt, Row
    <3> QED
      BY <2>3, <3>1, InsertTyped DEF CreateDocumentWithOperations
  <2>4. ASSUME NEW r \in 0..MaxRevision, NEW x \in Drawings, ImportDocument(d, r, x)
        PROVE  Typed'
    <3>1. r \in Nat
      BY BoundAssumption
    <3>2. NewRow(r, x, <<>>) \in Row
      BY <2>1, <3>1 DEF NewRow, RowAt, Row
    <3> QED
      BY <2>4, <3>2, InsertTyped DEF ImportDocument
  <2>5. CASE DeleteDocument(d)
    <3>1. <<>> \in Seq(Nat) /\ NoRow.live = FALSE
      BY DEF NoRow
    <3> QED
      BY <2>5, <3>1 DEF DeleteDocument, Typed, TypeOK, HasTop
  <2> QED
    BY <1>2, <2>2, <2>3, <2>4, <2>5 DEF Lifecycle
<1>3. ASSUME NEW w \in Workers, Handle(w) PROVE Typed'
  <2> DEFINE job == work[w]
  <2>1. ASSUME NEW d \in Docs, NEW x \in Drawings,
               \/ StageTransaction(w, d, x)
               \/ StageRename(w, d, x)
               \/ CheckEmptyTarget(w, d, x)
               \/ CheckReplaceableTarget(w, d, x)
        PROVE  Typed'
    <3>1. PICK op \in {"edit", "check"} : documents[d].live /\ Take(w, Job(op, d, x))
      BY <2>1 DEF StageTransaction, StageRename, CheckEmptyTarget,
                  CheckReplaceableTarget, Readable
    <3>2. Job(op, d, x) \in Work
      BY <3>1, JobTyped DEF Writes
    <3>3. HasTop(Job(op, d, x))
      BY DEF HasTop, Job
    <3> QED
      BY <3>1, <3>2, <3>3, TakeTyped
  <2>2. ASSUME NEW d \in Docs, StageUndo(w, d) PROVE Typed'
    <3>1. documents[d].live /\ documents[d].drawing \in Drawings
      BY <2>2, LiveRow DEF StageUndo, Readable, Row
    <3>2. Job("undo", d, documents[d].drawing) \in Work
      BY <3>1, JobTyped DEF Writes
    <3>3. HasTop(Job("undo", d, documents[d].drawing))
      BY <2>2 DEF StageUndo, HasTop, Job
    <3> QED
      BY <2>2, <3>2, <3>3, TakeTyped DEF StageUndo
  <2>3. ASSUME NEW d \in Docs, StageRedo(w, d) PROVE Typed'
    <3>1. documents[d].live /\ documents[d].drawing \in Drawings
      BY <2>3, LiveRow DEF StageRedo, Readable, Row
    <3>2. Job("redo", d, documents[d].drawing) \in Work
      BY <3>1, JobTyped DEF Writes
    <3>3. HasTop(Job("redo", d, documents[d].drawing))
      BY <2>3 DEF StageRedo, HasTop, Job
    <3> QED
      BY <2>3, <3>2, <3>3, TakeTyped DEF StageRedo
  <2>5. CASE StageText(w)
    <3>1. job \in Work
      BY <2>5 DEF StageText, Typed, TypeOK, Idle
    <3>2. TextJob(job) \in Work /\ TextJob(job).op = "text"
      BY <2>5, <3>1, SecondRead DEF StageText
    <3>3. HasTop(TextJob(job))
      BY <3>2 DEF HasTop
    <3> QED
      BY <2>5, <3>2, <3>3 DEF StageText, Typed, TypeOK
  <2>6. CASE RefuseText(w) \/ Conflict(w)
    <3>1. HasTop(Idle)
      BY DEF HasTop, Idle
    <3> QED
      BY <2>6, <3>1 DEF RefuseText, Conflict, Typed, TypeOK
  <2>7. CASE Save(w)
    <3>1. job \in Work /\ job.doc \in Docs /\ job.base.rev \in Nat /\ job.to \in Drawings
      BY <2>7, BusyWork DEF Save, Work, Writes, Row
    <3>2. Staged(job) \in Row
      BY <3>1, StagedRow DEF Typed
    <3>3. documents' \in [Docs -> Row \cup {NoRow}]
      BY <2>7, <3>1, <3>2 DEF Save, Typed, TypeOK
    <3>4. history' \in [Docs -> Seq(Nat)]
      <4>1. history[job.doc] \in Seq(Nat) /\ job.base.rev + 1 \in Nat
        BY <3>1 DEF Typed, TypeOK
      <4>2. Append(history[job.doc], job.base.rev + 1) \in Seq(Nat)
        BY <4>1
      <4> QED
        BY <2>7, <3>1, <4>2 DEF Save, Typed, TypeOK
    <3>5. specs' \subseteq SpecRow
      <4>1. life[job.doc] \in Nat
        BY <3>1 DEF Typed, TypeOK
      <4>2. SpecsWritten(job) \subseteq SpecRow
        BY <3>1, <4>1 DEF SpecsWritten, SpecRow
      <4> QED
        BY <2>7, <4>2 DEF Save, Typed, TypeOK
    <3>6. HasTop(Idle)
      BY DEF HasTop, Idle
    <3>7. /\ work' \in [Workers -> Work \cup {Idle}]
          /\ \A v \in Workers : HasTop(work'[v])
          /\ life' \in [Docs -> Nat]
          /\ \A d \in Docs : documents'[d].live => life'[d] > 0
      BY <2>7, <3>1, <3>6 DEF Save, Saves, CompareAndSet, Typed, TypeOK
    <3> QED
      BY <3>3, <3>4, <3>5, <3>7 DEF Typed, TypeOK, HasTop
  <2> QED
    BY <1>3, <2>1, <2>2, <2>3, <2>5, <2>6, <2>7 DEF Handle
<1> QED
  BY <1>1, <1>2, <1>3 DEF Next

\* Every table and every work record keeps its shape.
THEOREM Typing == Spec => []TypeOK
<1>1. Typed => TypeOK
  BY DEF Typed
<1> QED
  BY InitTyped, NextTyped, <1>1, PTL DEF Spec

LEMMA AlwaysTyped == Spec => []Typed
BY InitTyped, NextTyped, PTL DEF Spec

-------------------------------------------------------------------------------
(* The kinds of step the invariants below tell apart.                      *)

Appearing(d) ==
  \E r \in Nat, x \in Drawings, undo \in Seq(Drawings) :
    /\ Insert(d, NewRow(r, x, undo))
    /\ Len(undo) <= HistoryLimit
    /\ ~documents[d].live

\* The job of a first read, and that of a second read, which belongs to the
\* check before it.
First(job) ==
  /\ job.op # "text"
  /\ job.life = life[job.doc]
  /\ job.op = "check" => Own(job)

Second(w, job) ==
  /\ job.op = "text" /\ work[w].op = "check"
  /\ job.doc = work[w].doc /\ job.life = work[w].life
  /\ job.base.rev = work[w].base.rev

Reading(w) ==
  \E job \in Work :
    /\ documents[job.doc].live /\ job.base = documents[job.doc] /\ HasTop(job)
    /\ First(job) \/ Second(w, job)
    /\ work' = [work EXCEPT ![w] = job]
    /\ UNCHANGED <<documents, history, specs, life>>

GivingUp(w) ==
  /\ work' = [work EXCEPT ![w] = Idle]
  /\ UNCHANGED <<documents, history, specs, life>>

LEMMA LifecycleKinds ==
  ASSUME Typed, NEW d \in Docs, Lifecycle(d)
  PROVE  Appearing(d) \/ DeleteDocument(d)
<1>1. /\ <<>> \in Seq(Drawings) /\ <<Blank>> \in Seq(Drawings) /\ Blank \in Drawings
      /\ Len(<<>>) = 0 /\ Len(<<Blank>>) = 1 /\ 0 <= HistoryLimit /\ 1 <= HistoryLimit
  BY BlankAssumption, LimitAssumption
<1>0. life[d] = 0 => ~documents[d].live
  BY DEF Typed
<1>2. CASE CreateDocument(d)
  BY <1>0, <1>1, <1>2 DEF CreateDocument, Appearing
<1>3. ASSUME NEW x \in Drawings, CreateDocumentWithOperations(d, x) PROVE Appearing(d)
  BY <1>0, <1>1, <1>3 DEF CreateDocumentWithOperations, Appearing
<1>4. ASSUME NEW r \in 0..MaxRevision, NEW x \in Drawings, ImportDocument(d, r, x)
      PROVE  Appearing(d)
  <2>1. r \in Nat
    BY BoundAssumption
  <2> QED
    BY <1>1, <1>4, <2>1 DEF ImportDocument, Appearing
<1> QED
  BY <1>2, <1>3, <1>4 DEF Lifecycle

\* A first read takes the row and the life the document is in.
LEMMA FirstRead ==
  ASSUME Typed, NEW w \in Workers, NEW d \in Docs, documents[d].live,
         NEW x \in Drawings, NEW op \in (Writes \ {"text"}) \cup {"check"},
         Take(w, Job(op, d, x)), HasTop(Job(op, d, x)),
         op = "check" => Own(Job(op, d, x))
  PROVE  Reading(w)
<1>1. PICK job \in Work : job = Job(op, d, x)
  BY JobTyped
<1>2. /\ job.op = op /\ job.doc = d /\ job.base = documents[d] /\ job.life = life[d]
  BY <1>1 DEF Job
<1>3. First(job)
  BY <1>1, <1>2 DEF First, Writes
<1> QED
  BY <1>1, <1>2, <1>3 DEF Take, Reading

LEMMA HandleKinds ==
  ASSUME Typed, NEW w \in Workers, Handle(w)
  PROVE  \/ Reading(w) \/ GivingUp(w) \/ Save(w)
<1>1. ASSUME NEW d \in Docs, NEW x \in Drawings,
             \/ StageTransaction(w, d, x)
             \/ StageRename(w, d, x)
             \/ CheckEmptyTarget(w, d, x)
             \/ CheckReplaceableTarget(w, d, x)
      PROVE  Reading(w)
  <2>1. HasTop(Job("edit", d, x)) /\ HasTop(Job("check", d, x))
    BY DEF HasTop, Job
  <2>2. "edit" \in Writes \ {"text"}
    BY DEF Writes
  <2>3. CASE StageTransaction(w, d, x) \/ StageRename(w, d, x)
    BY <2>1, <2>2, <2>3, FirstRead DEF StageTransaction, StageRename, Readable
  <2>4. CASE CheckEmptyTarget(w, d, x)
    <3>1. Own(Job("check", d, x))
      BY <2>4 DEF CheckEmptyTarget, Own, Job
    <3> QED
      BY <2>1, <2>4, <3>1, FirstRead DEF CheckEmptyTarget, Readable
  <2>5. CASE CheckReplaceableTarget(w, d, x)
    <3>1. Own(Job("check", d, x))
      BY <2>5 DEF CheckReplaceableTarget, LatestSpec, SpecsOf, Own, Job
    <3> QED
      BY <2>1, <2>5, <3>1, FirstRead DEF CheckReplaceableTarget, Readable
  <2> QED
    BY <1>1, <2>3, <2>4, <2>5
<1>2. ASSUME NEW d \in Docs, StageUndo(w, d) \/ StageRedo(w, d) PROVE Reading(w)
  <2>1. PICK op \in {"undo", "redo"} :
          /\ documents[d].live /\ Take(w, Job(op, d, documents[d].drawing))
          /\ HasTop(Job(op, d, documents[d].drawing))
    BY <1>2 DEF StageUndo, StageRedo, Readable, HasTop, Job
  <2>2. documents[d].drawing \in Drawings
    BY <2>1, LiveRow DEF Row
  <2>3. op \in Writes \ {"text"} /\ op # "check"
    BY DEF Writes
  <2> QED
    BY <2>1, <2>2, <2>3, FirstRead
<1>3. CASE StageText(w)
  <2>1. work[w] \in Work
    BY <1>3, BusyWork DEF StageText
  <2>2. PICK job \in Work :
          /\ job = TextJob(work[w]) /\ job.op = "text"
          /\ job.base = documents[work[w].doc]
          /\ job.doc = work[w].doc /\ job.life = work[w].life
    BY <1>3, <2>1, SecondRead DEF StageText
  <2>3. Second(w, job) /\ HasTop(job)
    BY <1>3, <2>2 DEF StageText, Second, HasTop
  <2> QED
    BY <1>3, <2>2, <2>3 DEF StageText, Reading
<1>4. CASE RefuseText(w) \/ Conflict(w)
  BY <1>4 DEF RefuseText, Conflict, GivingUp
<1> QED
  BY <1>1, <1>2, <1>3, <1>4 DEF Handle

LEMMA StepKinds ==
  ASSUME Typed, [Next]_vars
  PROVE  \/ UNCHANGED vars
         \/ \E d \in Docs : Appearing(d) \/ DeleteDocument(d)
         \/ \E w \in Workers : Reading(w) \/ GivingUp(w) \/ Save(w)
BY LifecycleKinds, HandleKinds DEF Next

-------------------------------------------------------------------------------
(* The undo stacks.                                                        *)

\* A handler's copy of the row fits because the row it was read from did.
StacksInv ==
  /\ StacksShareTheLimit
  /\ \A w \in Workers : work[w].op # "idle" => StacksFit(work[w].base)

LEMMA NextStacks == Typed /\ StacksInv /\ [Next]_vars => StacksInv'
<1> SUFFICES ASSUME Typed, StacksInv, [Next]_vars PROVE StacksInv'
  OBVIOUS
<1>0. Typed'
  BY NextTyped
<1>1. CASE UNCHANGED vars
  BY <1>1 DEF StacksInv, StacksShareTheLimit, vars
<1>2. ASSUME NEW d \in Docs, Appearing(d) PROVE StacksInv'
  <2>1. PICK r \in Nat, x \in Drawings, undo \in Seq(Drawings) :
           Insert(d, NewRow(r, x, undo)) /\ Len(undo) <= HistoryLimit
    BY <1>2 DEF Appearing
  <2>2. StacksFit(NewRow(r, x, undo))
    <3>1. Len(undo) \in Nat /\ Len(<<>>) = 0 /\ Len(undo) + 0 <= HistoryLimit
      BY <2>1, LimitAssumption
    <3> QED
      BY <3>1 DEF StacksFit, NewRow, RowAt
  <2> QED
    BY <2>1, <2>2 DEF Insert, StacksInv, StacksShareTheLimit, Typed, TypeOK
<1>3. ASSUME NEW d \in Docs, DeleteDocument(d) PROVE StacksInv'
  BY <1>3 DEF DeleteDocument, StacksInv, StacksShareTheLimit, Typed, TypeOK, NoRow
<1>4. ASSUME NEW w \in Workers, Reading(w) PROVE StacksInv'
  <2>1. PICK job \in Work :
           /\ documents[job.doc].live /\ job.base = documents[job.doc]
           /\ work' = [work EXCEPT ![w] = job]
           /\ UNCHANGED documents
    BY <1>4 DEF Reading
  <2>2. StacksFit(job.base)
    BY <2>1 DEF Work, StacksInv, StacksShareTheLimit
  <2> QED
    BY <2>1, <2>2 DEF StacksInv, StacksShareTheLimit, Typed, TypeOK
<1>5. ASSUME NEW w \in Workers, GivingUp(w) PROVE StacksInv'
  BY <1>5 DEF GivingUp, StacksInv, StacksShareTheLimit, Typed, TypeOK, Idle
<1>6. ASSUME NEW w \in Workers, Save(w) PROVE StacksInv'
  <2>1. work[w] \in Work /\ HasTop(work[w]) /\ StacksFit(work[w].base)
    BY <1>6, BusyWork DEF Save, Writes, StacksInv
  <2>2. StacksFit(Staged(work[w]))
    BY <2>1, StagedRow
  <2> QED
    BY <1>6, <2>1, <2>2 DEF Save, StacksInv, StacksShareTheLimit, Typed, TypeOK, Idle
<1> QED
  BY <1>1, <1>2, <1>3, <1>4, <1>5, <1>6, StepKinds

(***************************************************************************)
(* Whatever handlers interleave, and even when documents are deleted and   *)
(* come back, undo and redo never drop a version: the two stacks together  *)
(* stay within the limit the cap enforces on one of them.                  *)
(***************************************************************************)
THEOREM StacksShare == Spec => []StacksShareTheLimit
<1>1. Init => StacksInv
  BY DEF Init, StacksInv, StacksShareTheLimit, NoRow, Idle
<1>2. StacksInv => StacksShareTheLimit
  BY DEF StacksInv
<1> QED
  BY AlwaysTyped, NextStacks, <1>1, <1>2, PTL DEF Spec

-------------------------------------------------------------------------------
(* The history.                                                            *)

LEMMA RunStarts ==
  ASSUME NEW r \in Nat
  PROVE  RunsTo(<<r>>, r)
BY DEF RunsTo, Top

LEMMA RunGrows ==
  ASSUME NEW h \in Seq(Nat), NEW r \in Nat, RunsTo(h, r)
  PROVE  RunsTo(Append(h, r + 1), r + 1)
<1> DEFINE g == Append(h, r + 1)
           n == Len(h)
<1>1. n \in Nat /\ n > 0 /\ h[n] = r /\ \A i \in 2..n : h[i] = h[i - 1] + 1
  BY DEF RunsTo, Top
<1>2. Len(g) = n + 1 /\ g[n + 1] = r + 1 /\ \A i \in 1..n : g[i] = h[i]
  OBVIOUS
<1> HIDE DEF g, n
<1>3. ASSUME NEW i \in 2..(n + 1) PROVE g[i] = g[i - 1] + 1
  <2>1. CASE i = n + 1
    <3>1. i - 1 = n /\ n \in 1..n
      BY <1>1, <2>1
    <3> QED
      BY <1>1, <1>2, <2>1, <3>1
  <2>2. CASE i # n + 1
    <3>1. i \in 2..n /\ i \in 1..n /\ i - 1 \in 1..n
      BY <1>1, <2>2
    <3> QED
      BY <1>1, <1>2, <3>1
  <2> QED
    BY <2>1, <2>2
<1>4. RunsTo(g, r + 1)
  BY <1>1, <1>2, <1>3 DEF RunsTo, Top
<1> QED
  BY <1>4 DEF g

LEMMA NextHistory == Typed /\ HistoryNamesEveryRevision /\ [Next]_vars => HistoryNamesEveryRevision'
<1> SUFFICES ASSUME Typed, HistoryNamesEveryRevision, [Next]_vars PROVE HistoryNamesEveryRevision'
  OBVIOUS
<1>1. CASE UNCHANGED vars
  BY <1>1 DEF HistoryNamesEveryRevision, vars
<1>2. ASSUME NEW d \in Docs, Appearing(d) PROVE HistoryNamesEveryRevision'
  <2>1. PICK r \in Nat, x \in Drawings, undo \in Seq(Drawings) : Insert(d, NewRow(r, x, undo))
    BY <1>2 DEF Appearing
  <2>2. NewRow(r, x, undo).rev = r /\ RunsTo(<<r>>, r)
    BY RunStarts DEF NewRow, RowAt
  <2> QED
    BY <2>1, <2>2 DEF Insert, HistoryNamesEveryRevision, Typed, TypeOK
<1>3. ASSUME NEW d \in Docs, DeleteDocument(d) PROVE HistoryNamesEveryRevision'
  BY <1>3 DEF DeleteDocument, HistoryNamesEveryRevision, Typed, TypeOK, NoRow
<1>4. ASSUME NEW w \in Workers, Reading(w) PROVE HistoryNamesEveryRevision'
  BY <1>4 DEF Reading, HistoryNamesEveryRevision
<1>5. ASSUME NEW w \in Workers, GivingUp(w) PROVE HistoryNamesEveryRevision'
  BY <1>5 DEF GivingUp, HistoryNamesEveryRevision, Typed, TypeOK, Idle
<1>6. ASSUME NEW w \in Workers, Save(w) PROVE HistoryNamesEveryRevision'
  <2> DEFINE d == work[w].doc
             r == work[w].base.rev
  <2>1. /\ work[w] \in Work /\ HasTop(work[w]) /\ d \in Docs /\ r \in Nat
        /\ documents[d].live /\ documents[d].rev = r
    BY <1>6, BusyWork DEF Save, Saves, CompareAndSet, Writes, Work, Row
  <2>2. Staged(work[w]).rev = r + 1
    BY <2>1, StagedRow
  <2>3. RunsTo(Append(history[d], r + 1), r + 1)
    BY <2>1, RunGrows DEF HistoryNamesEveryRevision, Typed, TypeOK
  <2> QED
    BY <1>6, <2>1, <2>2, <2>3
    DEF Save, HistoryNamesEveryRevision, Typed, TypeOK, Idle
<1> QED
  BY <1>1, <1>2, <1>3, <1>4, <1>5, <1>6, StepKinds

(***************************************************************************)
(* Every revision of every document that has a history is in it, once and  *)
(* in order, whatever handlers, deletes and imports interleave.            *)
(***************************************************************************)
THEOREM HistoryIsComplete == Spec => []HistoryNamesEveryRevision
<1>1. Init => HistoryNamesEveryRevision
  BY DEF Init, HistoryNamesEveryRevision, NoRow, Idle
<1> QED
  BY AlwaysTyped, NextHistory, <1>1, PTL DEF Spec

-------------------------------------------------------------------------------
(* Optimistic concurrency, within one life of an id.                       *)

\* What a handler read in this life of the id is the row that is there, or an
\* older revision of it.
NotBehind(job) ==
  LET row == documents[job.doc] IN
  /\ job.life <= life[job.doc]
  /\ row.live /\ job.life = life[job.doc] =>
       /\ job.base.rev <= row.rev
       /\ job.base.rev = row.rev => row = job.base

Current == \A w \in Workers : work[w].op # "idle" => NotBehind(work[w])

LEMMA NextCurrent == Typed /\ Current /\ [Next]_vars => Current'
<1> SUFFICES ASSUME Typed, Current, [Next]_vars PROVE Current'
  OBVIOUS
<1>1. CASE UNCHANGED vars
  BY <1>1 DEF Current, NotBehind, vars
<1>2. ASSUME NEW d \in Docs, Appearing(d) PROVE Current'
  <2>1. PICK row : Insert(d, row)
    BY <1>2 DEF Appearing
  <2>2. /\ life' = [life EXCEPT ![d] = life[d] + 1] /\ life \in [Docs -> Nat]
        /\ UNCHANGED work
    BY <2>1 DEF Insert, Typed, TypeOK
  <2>3. ASSUME NEW w \in Workers, work[w].op # "idle" PROVE NotBehind(work[w])'
    <3>1. work[w].doc \in Docs /\ work[w].life \in Nat /\ NotBehind(work[w])
      BY <2>3, BusyWork DEF Current, Work
    <3>2. CASE work[w].doc = d
      <4>1. work[w].life <= life[d] /\ life'[d] = life[d] + 1 /\ life[d] \in Nat
        BY <2>2, <3>1, <3>2 DEF NotBehind
      <4>2. work[w].life <= life'[d] /\ work[w].life # life'[d]
        BY <3>1, <4>1
      <4> QED
        BY <2>2, <3>2, <4>2 DEF NotBehind
    <3>3. CASE work[w].doc # d
      BY <2>1, <2>2, <3>1, <3>3 DEF Insert, NotBehind, Typed, TypeOK
    <3> QED
      BY <3>2, <3>3
  <2> QED
    BY <2>2, <2>3 DEF Current
<1>3. ASSUME NEW d \in Docs, DeleteDocument(d) PROVE Current'
  <2>1. ASSUME NEW w \in Workers, work[w].op # "idle" PROVE NotBehind(work[w])'
    <3>1. work[w].doc \in Docs
      BY <2>1, BusyWork DEF Work
    <3> QED
      BY <1>3, <2>1, <3>1 DEF DeleteDocument, Current, NotBehind, Typed, TypeOK, NoRow
  <2> QED
    BY <1>3, <2>1 DEF DeleteDocument, Current
<1>4. ASSUME NEW w \in Workers, Reading(w) PROVE Current'
  <2>1. PICK job \in Work :
           /\ documents[job.doc].live /\ job.base = documents[job.doc]
           /\ First(job) \/ Second(w, job)
           /\ work' = [work EXCEPT ![w] = job]
           /\ UNCHANGED <<documents, life>>
    BY <1>4 DEF Reading
  <2>2. NotBehind(job)
    <3>1. job.base.rev \in Nat /\ life[job.doc] \in Nat
      BY DEF Work, Row, Typed, TypeOK
    <3>2. job.life <= life[job.doc]
      <4>1. CASE First(job)
        BY <3>1, <4>1 DEF First
      <4>2. CASE Second(w, job)
        BY <4>2 DEF Second, Current, NotBehind
      <4> QED
        BY <2>1, <4>1, <4>2
    <3> QED
      BY <2>1, <3>1, <3>2 DEF NotBehind
  <2>3. ASSUME NEW v \in Workers, work'[v].op # "idle" PROVE NotBehind(work[v])'
    <3>1. CASE v = w
      <4>1. work'[v] = job
        BY <2>1, <3>1 DEF Typed, TypeOK
      <4> QED
        BY <2>1, <2>2, <4>1 DEF NotBehind
    <3>2. CASE v # w
      <4>1. work'[v] = work[v]
        BY <2>1, <3>2 DEF Typed, TypeOK
      <4> QED
        BY <2>1, <2>3, <4>1 DEF Current, NotBehind
    <3> QED
      BY <3>1, <3>2
  <2> QED
    BY <2>3 DEF Current
<1>5. ASSUME NEW w \in Workers, GivingUp(w) PROVE Current'
  BY <1>5 DEF GivingUp, Current, NotBehind, Typed, TypeOK, Idle
<1>6. ASSUME NEW w \in Workers, Save(w) PROVE Current'
  <2> DEFINE d == work[w].doc
             r == work[w].base.rev
             row == Staged(work[w])
  <2>1. /\ work[w] \in Work /\ HasTop(work[w]) /\ d \in Docs /\ r \in Nat
        /\ documents[d].live /\ documents[d].rev = r
    BY <1>6, BusyWork DEF Save, Saves, CompareAndSet, Writes, Work, Row
  <2>2. row.rev = r + 1 /\ row \in Row
    BY <2>1, StagedRow
  <2>3. documents' = [documents EXCEPT ![d] = row] /\ UNCHANGED life
        /\ work' = [work EXCEPT ![w] = Idle]
    BY <1>6 DEF Save
  <2> HIDE DEF row
  <2>4. ASSUME NEW v \in Workers, v # w, work[v].op # "idle" PROVE NotBehind(work[v])'
    <3>1. /\ NotBehind(work[v]) /\ work'[v] = work[v]
          /\ work[v].doc \in Docs /\ work[v].base.rev \in Nat
      BY <2>3, <2>4, BusyWork DEF Current, Work, Row, Typed, TypeOK
    <3>2. CASE work[v].doc = d
      <4>1. work[v].life = life[d] => work[v].base.rev <= r
        BY <2>1, <3>1, <3>2 DEF NotBehind
      <4>2. documents'[d] = row
        BY <2>1, <2>3 DEF Typed, TypeOK
      <4>3. work[v].life = life[d] =>
              work[v].base.rev <= row.rev /\ work[v].base.rev # row.rev
        BY <2>1, <2>2, <3>1, <4>1
      <4> QED
        BY <2>3, <3>1, <3>2, <4>2, <4>3 DEF NotBehind
    <3>3. CASE work[v].doc # d
      BY <2>3, <3>1, <3>3 DEF NotBehind, Typed, TypeOK
    <3> QED
      BY <3>2, <3>3
  <2>5. ASSUME NEW v \in Workers, work'[v].op # "idle" PROVE NotBehind(work[v])'
    <3>1. v # w /\ work'[v] = work[v]
      BY <2>3, <2>5 DEF Typed, TypeOK, Idle
    <3> QED
      BY <2>4, <2>5, <3>1
  <2> QED
    BY <2>5 DEF Current
<1> QED
  BY <1>1, <1>2, <1>3, <1>4, <1>5, <1>6, StepKinds

LEMMA InitCurrent == Init => Current
BY DEF Init, Current, Idle

LEMMA AlwaysCurrent == Spec => []Current
BY AlwaysTyped, InitCurrent, NextCurrent, PTL DEF Spec

(***************************************************************************)
(* A write replaces exactly the row it was computed from, for any number   *)
(* of handlers: as long as the document read is the document there, the    *)
(* compare-and-set on the revision number is a compare-and-set on the      *)
(* drawing, its stacks and all.                                            *)
(***************************************************************************)
THEOREM NoUpdateIsLost == Spec => []NoLostUpdate
<1>1. Typed /\ Current => NoLostUpdate
  <2> SUFFICES ASSUME Typed, Current PROVE NoLostUpdate
    OBVIOUS
  <2>1. ASSUME NEW w \in Workers, work[w].op \in Writes
        PROVE  NotBehind(work[w])
    BY <2>1 DEF Current, Writes
  <2> QED
    BY <2>1 DEF NoLostUpdate, NotBehind, CompareAndSet, Writes
<1> QED
  BY AlwaysTyped, AlwaysCurrent, <1>1, PTL

-------------------------------------------------------------------------------
(* The semantic source beside the drawing.                                 *)

\* No source is of a life the id has not come to.
SourceInv ==
  /\ SourceAgreesWithDrawing
  /\ \A s \in specs : s.life <= life[s.doc]

LEMMA NextSource == Typed /\ SourceInv /\ [Next]_vars => SourceInv'
<1> SUFFICES ASSUME Typed, SourceInv, [Next]_vars PROVE SourceInv'
  OBVIOUS
<1>1. CASE UNCHANGED vars
  BY <1>1 DEF SourceInv, SourceAgreesWithDrawing, vars
<1>2. ASSUME NEW d \in Docs, Appearing(d) PROVE SourceInv'
  <2>1. PICK row : Insert(d, row)
    BY <1>2 DEF Appearing
  <2>2. /\ life' = [life EXCEPT ![d] = life[d] + 1] /\ life \in [Docs -> Nat]
        /\ UNCHANGED specs
    BY <2>1 DEF Insert, Typed, TypeOK
  <2>3. ASSUME NEW s \in specs, s.doc = d
        PROVE  s.life <= life'[s.doc] /\ s.life # life'[s.doc]
    <3>1. s.life \in Nat /\ s.life <= life[d] /\ life[d] \in Nat /\ life'[d] = life[d] + 1
      BY <2>2, <2>3 DEF SourceInv, Typed, TypeOK, SpecRow
    <3> QED
      BY <2>3, <3>1
  <2>4. ASSUME NEW s \in specs, s.doc # d
        PROVE  documents'[s.doc] = documents[s.doc] /\ life'[s.doc] = life[s.doc]
    BY <2>1, <2>2, <2>4 DEF Insert, Typed, TypeOK, SpecRow
  <2> QED
    BY <2>2, <2>3, <2>4 DEF SourceInv, SourceAgreesWithDrawing
<1>3. ASSUME NEW d \in Docs, DeleteDocument(d) PROVE SourceInv'
  BY <1>3 DEF DeleteDocument, SourceInv, SourceAgreesWithDrawing, Typed, TypeOK, SpecRow, NoRow
<1>4. ASSUME NEW w \in Workers, Reading(w) \/ GivingUp(w) PROVE SourceInv'
  BY <1>4 DEF Reading, GivingUp, SourceInv, SourceAgreesWithDrawing
<1>5. ASSUME NEW w \in Workers, Save(w) PROVE SourceInv'
  <2> DEFINE d == work[w].doc
             r == work[w].base.rev
             row == Staged(work[w])
             new == [doc |-> d, rev |-> r + 1, draws |-> work[w].to, life |-> life[d]]
  <2>1. /\ work[w] \in Work /\ HasTop(work[w]) /\ d \in Docs /\ r \in Nat
        /\ documents[d].live /\ documents[d].rev = r /\ life[d] \in Nat
    BY <1>5, BusyWork DEF Save, Saves, CompareAndSet, Writes, Work, Row, Typed, TypeOK
  <2>2. work[w].op = "text" => row.drawing = work[w].to
    BY <2>1, StagedRow
  <2>3. row.rev = r + 1
    BY <2>1, StagedRow
  <2>4. /\ documents' = [documents EXCEPT ![d] = row]
        /\ UNCHANGED life
        /\ \/ specs' = specs
           \/ work[w].op = "text" /\ specs' = specs \cup {new}
    BY <1>5 DEF Save, SpecsWritten
  <2>5. ASSUME NEW s \in specs
        PROVE  /\ s.life <= life'[s.doc]
               /\ documents'[s.doc].live /\ s.life = life'[s.doc] =>
                    /\ s.rev <= documents'[s.doc].rev
                    /\ s.rev = documents'[s.doc].rev =>
                         s.draws = documents'[s.doc].drawing
    <3>1. s.doc \in Docs /\ s.rev \in Nat /\ s.life <= life[s.doc]
      BY DEF SourceInv, Typed, TypeOK, SpecRow
    <3>2. CASE s.doc = d
      <4>1. s.life = life[d] => s.rev <= r
        BY <2>1, <3>2 DEF SourceInv, SourceAgreesWithDrawing
      <4>2. documents'[d] = row
        BY <2>1, <2>4 DEF Typed, TypeOK
      <4>3. s.life = life[d] => s.rev <= r + 1 /\ s.rev # r + 1
        BY <2>1, <3>1, <4>1
      <4> QED
        BY <2>3, <2>4, <3>1, <3>2, <4>2, <4>3
    <3>3. CASE s.doc # d
      <4>1. documents'[s.doc] = documents[s.doc]
        BY <2>4, <3>1, <3>3 DEF Typed, TypeOK
      <4> QED
        BY <2>4, <3>1, <4>1 DEF SourceInv, SourceAgreesWithDrawing
    <3> QED
      BY <3>2, <3>3
  <2>6. ASSUME work[w].op = "text"
        PROVE  new.rev = documents'[d].rev /\ new.draws = documents'[d].drawing
               /\ new.doc = d /\ new.life = life[d]
    BY <2>1, <2>2, <2>3, <2>4, <2>6 DEF Typed, TypeOK
  <2>7. r + 1 <= r + 1 /\ life[d] <= life[d]
    BY <2>1
  <2> HIDE DEF d, row
  <2> QED
    BY <2>3, <2>4, <2>5, <2>6, <2>7 DEF SourceInv, SourceAgreesWithDrawing
<1> QED
  BY <1>1, <1>2, <1>3, <1>4, <1>5, StepKinds

(***************************************************************************)
(* The semantic source never contradicts the drawing at its revision, in   *)
(* the life it was written in: source and drawing are committed by one     *)
(* transaction, every later write moves the revision past the source, and  *)
(* this needs no assumption on what the writes were computed from.         *)
(***************************************************************************)
THEOREM SourceAgrees == Spec => []SourceAgreesWithDrawing
<1>1. Init => SourceInv
  BY DEF Init, SourceInv, SourceAgreesWithDrawing
<1>2. SourceInv => SourceAgreesWithDrawing
  BY DEF SourceInv
<1> QED
  BY AlwaysTyped, NextSource, <1>1, <1>2, PTL DEF Spec

-------------------------------------------------------------------------------
(* Drawing and editing by a sentence.                                      *)

\* The check keeps its ground until the second read, since sources are never
\* removed and, within a life, a row at the same revision is the same row.
TextInv ==
  \A w \in Workers :
    LET job == work[w] IN
    /\ job.op = "check" => Own(job)
    /\ job.op = "text" /\ job.life = life[job.doc] => Own(job)

LEMMA NextText == Typed /\ Current /\ TextInv /\ [Next]_vars => TextInv'
<1> SUFFICES ASSUME Typed, Current, TextInv, [Next]_vars PROVE TextInv'
  OBVIOUS
<1>1. CASE UNCHANGED vars
  BY <1>1 DEF TextInv, Own, vars
<1>2. ASSUME NEW d \in Docs, Appearing(d) PROVE TextInv'
  <2>1. /\ life' = [life EXCEPT ![d] = life[d] + 1] /\ life \in [Docs -> Nat]
        /\ UNCHANGED <<work, specs>>
    BY <1>2 DEF Appearing, Insert, Typed, TypeOK
  <2>2. ASSUME NEW w \in Workers, work[w].op = "text", work[w].life = life'[work[w].doc]
        PROVE  work[w].life = life[work[w].doc]
    <3>1. work[w].doc \in Docs /\ work[w].life \in Nat /\ work[w].life <= life[work[w].doc]
      BY <2>2, BusyWork DEF Work, Current, NotBehind
    <3> QED
      BY <2>1, <2>2, <3>1
  <2> QED
    BY <2>1, <2>2 DEF TextInv, Own
<1>3. ASSUME NEW d \in Docs, DeleteDocument(d) PROVE TextInv'
  BY <1>3 DEF DeleteDocument, TextInv, Own
<1>4. ASSUME NEW w \in Workers, Reading(w) PROVE TextInv'
  <2>1. PICK job \in Work :
           /\ documents[job.doc].live /\ job.base = documents[job.doc]
           /\ First(job) \/ Second(w, job)
           /\ work' = [work EXCEPT ![w] = job]
           /\ UNCHANGED <<specs, life>>
    BY <1>4 DEF Reading
  <2>2. /\ job.op = "check" => Own(job)
        /\ job.op = "text" /\ job.life = life[job.doc] => Own(job)
    <3>1. CASE First(job)
      BY <3>1 DEF First
    <3>2. CASE Second(w, job)
      <4>1. Own(work[w]) /\ NotBehind(work[w]) /\ work[w].doc = job.doc
        BY <3>2 DEF Second, TextInv, Current
      <4>2. job.life = life[job.doc] => documents[job.doc] = work[w].base
        BY <2>1, <3>2, <4>1 DEF Second, NotBehind
      <4> QED
        BY <2>1, <3>2, <4>1, <4>2 DEF Second, Own
    <3> QED
      BY <2>1, <3>1, <3>2
  <2>3. ASSUME NEW v \in Workers
        PROVE  /\ work'[v].op = "check" => Own(work[v])'
               /\ work'[v].op = "text" /\ work'[v].life = life'[work'[v].doc] => Own(work[v])'
    <3>1. CASE v = w
      <4>1. work'[v] = job
        BY <2>1, <3>1 DEF Typed, TypeOK
      <4> QED
        BY <2>1, <2>2, <4>1 DEF Own
    <3>2. CASE v # w
      <4>1. work'[v] = work[v]
        BY <2>1, <3>2 DEF Typed, TypeOK
      <4> QED
        BY <2>1, <4>1 DEF TextInv, Own
    <3> QED
      BY <3>1, <3>2
  <2> QED
    BY <2>3 DEF TextInv
<1>5. ASSUME NEW w \in Workers, GivingUp(w) \/ Save(w) PROVE TextInv'
  <2>1. /\ work' = [work EXCEPT ![w] = Idle]
        /\ specs \subseteq specs' /\ UNCHANGED life
    BY <1>5 DEF GivingUp, Save
  <2>2. ASSUME NEW v \in Workers, work'[v].op \in {"check", "text"}
        PROVE  work'[v] = work[v] /\ (Own(work[v]) => Own(work[v])')
    <3>1. work'[v] = work[v]
      BY <2>1, <2>2 DEF Typed, TypeOK, Idle
    <3> QED
      BY <2>1, <3>1 DEF Own
  <2> QED
    BY <2>1, <2>2 DEF TextInv
<1> QED
  BY <1>1, <1>2, <1>3, <1>4, <1>5, StepKinds

(***************************************************************************)
(* A sentence only ever replaces an empty sheet or the drawing its source  *)
(* made, although it is checked on one read and written from another: only *)
(* a document that is deleted and comes back in between escapes the check. *)
(***************************************************************************)
THEOREM TextKeepsToItsOwn == Spec => []TextReplacesOnlyItsOwn
<1>1. Init => TextInv
  BY DEF Init, TextInv, Idle
<1>2. TextInv => TextReplacesOnlyItsOwn
  BY DEF TextInv, TextReplacesOnlyItsOwn
<1> QED
  BY AlwaysTyped, AlwaysCurrent, NextText, <1>1, <1>2, PTL DEF Spec

-------------------------------------------------------------------------------
(* The two stacks as one timeline.                                         *)

Line(undo, x, redo) == undo \o <<x>> \o Flipped(redo)

LEMMA FlippedStack ==
  ASSUME NEW s \in Seq(Drawings)
  PROVE  /\ Flipped(s) \in Seq(Drawings)
         /\ Len(Flipped(s)) = Len(s)
         /\ \A i \in 1..Len(s) : Flipped(s)[i] = s[Len(s) + 1 - i]
<1>1. Len(s) \in Nat /\ \A i \in 1..Len(s) : s[Len(s) + 1 - i] \in Drawings
  OBVIOUS
<1> QED
  BY <1>1 DEF Flipped

\* What is pushed last comes first.
LEMMA FlippedPush ==
  ASSUME NEW s \in Seq(Drawings), NEW y \in Drawings
  PROVE  Flipped(Append(s, y)) = <<y>> \o Flipped(s)
<1> DEFINE t == Append(s, y)
           left == Flipped(t)
           tail == Flipped(s)
           right == <<y>> \o tail
           n == Len(s)
<1>1. /\ n \in Nat /\ t \in Seq(Drawings) /\ Len(t) = n + 1 /\ t[n + 1] = y
      /\ \A i \in 1..n : t[i] = s[i]
  OBVIOUS
<1>2. /\ tail \in Seq(Drawings) /\ Len(tail) = n
      /\ \A i \in 1..n : tail[i] = s[n + 1 - i]
  BY FlippedStack
<1> HIDE DEF t
<1>3. /\ left \in Seq(Drawings) /\ Len(left) = n + 1
      /\ \A i \in 1..(n + 1) : left[i] = t[n + 2 - i]
  <2>1. /\ left \in Seq(Drawings) /\ Len(left) = Len(t)
        /\ \A i \in 1..Len(t) : left[i] = t[Len(t) + 1 - i]
    BY <1>1, FlippedStack
  <2> HIDE DEF left
  <2> QED
    BY <1>1, <2>1
<1>4. <<y>> \in Seq(Drawings) /\ Len(<<y>>) = 1 /\ <<y>>[1] = y
  OBVIOUS
<1> HIDE DEF tail, left, n
<1>5. /\ right \in Seq(Drawings) /\ Len(right) = 1 + n
      /\ \A i \in 1..(1 + n) : right[i] = IF i <= 1 THEN <<y>>[i] ELSE tail[i - 1]
  BY <1>2, <1>4, ConcatProperties
<1> HIDE DEF right
<1>6. ASSUME NEW i \in 1..(n + 1) PROVE left[i] = right[i]
  <2>1. CASE i = 1
    BY <1>1, <1>3, <1>4, <1>5, <2>1
  <2>2. CASE i # 1
    <3>1. /\ i \in 1..(1 + n) /\ ~(i <= 1) /\ i - 1 \in 1..n
          /\ n + 2 - i \in 1..n /\ n + 1 - (i - 1) = n + 2 - i
      BY <1>1, <2>2
    <3> QED
      BY <1>1, <1>2, <1>3, <1>5, <3>1
  <2> QED
    BY <2>1, <2>2
<1>7. Len(left) = Len(right)
  BY <1>1, <1>3, <1>5
<1>8. left = right
  BY <1>3, <1>5, <1>6, <1>7, SeqEqual
<1> QED
  BY <1>8 DEF left, right, t, tail

LEMMA FlippedEmpty == Flipped(<<>>) = <<>>
<1>1. <<>> \in Seq(Drawings) /\ Len(<<>>) = 0
  OBVIOUS
<1>2. Flipped(<<>>) \in Seq(Drawings) /\ Len(Flipped(<<>>)) = 0
  BY <1>1, FlippedStack
<1> QED
  BY <1>2, EmptySeq

\* The position on a timeline may be read one place further on, or back.
LEMMA OnePlace ==
  ASSUME NEW back \in Seq(Drawings), NEW x \in Drawings,
         NEW y \in Drawings, NEW ahead \in Seq(Drawings)
  PROVE  Line(Append(back, x), y, ahead) = Line(back, x, Append(ahead, y))
<1>1. PICK f \in Seq(Drawings) : f = Flipped(ahead)
  BY FlippedStack
<1>2. PICK a \in Seq(Drawings) : a = Append(back, x)
  BY AppendProperties
<1>3. <<y>> \in Seq(Drawings)
  OBVIOUS
<1>4. (a \o <<y>>) \o f = a \o (<<y>> \o f)
  BY <1>3, ConcatAssociative
<1>5. back \o <<x>> = a
  BY <1>2, AppendIsConcat
<1> QED
  BY <1>1, <1>2, <1>4, <1>5, FlippedPush DEF Line

\* A push that the cap does not touch.
LEMMA PushedWhole ==
  ASSUME NEW s \in Seq(Drawings), NEW x \in Drawings, Len(s) < HistoryLimit
  PROVE  Capped(Append(s, x)) = Append(s, x)
<1>1. Len(Append(s, x)) = Len(s) + 1 /\ Len(s) + 1 <= HistoryLimit
  BY LimitAssumption
<1> QED
  BY <1>1 DEF Capped

\* A stack is its top on the rest of it.
LEMMA TopOnRest ==
  ASSUME NEW s \in Seq(Drawings), s # <<>>
  PROVE  s = Append(Popped(s), Top(s))
<1>1. PICK t \in Seq(Drawings), x \in Drawings : s = Append(t, x)
  BY SequenceEmptyOrAppend
<1>2. Len(s) = Len(t) + 1 /\ s[Len(t) + 1] = x /\ Len(t) \in Nat
      /\ \A i \in 1..Len(t) : s[i] = t[i]
  BY <1>1
<1>3. Popped(s) = SubSeq(s, 1, Len(t)) /\ Top(s) = x
  BY <1>2 DEF Popped, Top
<1>4. s = t \o <<x>> /\ <<x>> \in Seq(Drawings)
  BY <1>1, AppendIsConcat
<1>5. SubSeq(s, 1, Len(t)) = t
  BY <1>4, SubSeqOfConcat1, SubSeqFull
<1> QED
  BY <1>1, <1>3, <1>5

\* Undo moves the position one place back.
LEMMA UndoneLine ==
  ASSUME NEW undo \in Seq(Drawings), NEW x \in Drawings, NEW redo \in Seq(Drawings),
         undo # <<>>, Len(undo) + Len(redo) <= HistoryLimit
  PROVE  Line(Popped(undo), Top(undo), Capped(Append(redo, x))) = Line(undo, x, redo)
<1>1. Len(redo) < HistoryLimit
  BY EmptySeq, LimitAssumption
<1>2. Popped(undo) \in Seq(Drawings) /\ Top(undo) \in Drawings
  BY PoppedStack
<1>3. Line(Append(Popped(undo), Top(undo)), x, redo) =
        Line(Popped(undo), Top(undo), Append(redo, x))
  BY <1>2, OnePlace
<1> QED
  BY <1>1, <1>3, PushedWhole, TopOnRest

\* Redo moves it one place on.
LEMMA RedoneLine ==
  ASSUME NEW undo \in Seq(Drawings), NEW x \in Drawings, NEW redo \in Seq(Drawings),
         redo # <<>>, Len(undo) + Len(redo) <= HistoryLimit
  PROVE  Line(Capped(Append(undo, x)), Top(redo), Popped(redo)) = Line(undo, x, redo)
<1>1. Len(undo) < HistoryLimit
  BY EmptySeq, LimitAssumption
<1>2. Popped(redo) \in Seq(Drawings) /\ Top(redo) \in Drawings
  BY PoppedStack
<1>3. Line(Append(undo, x), Top(redo), Popped(redo)) =
        Line(undo, x, Append(Popped(redo), Top(redo)))
  BY <1>2, OnePlace
<1> QED
  BY <1>1, <1>3, PushedWhole, TopOnRest

\* The timeline up to its position.
LEMMA UpToPosition ==
  ASSUME NEW undo \in Seq(Drawings), NEW x \in Drawings, NEW redo \in Seq(Drawings),
         NEW k \in 1..(Len(undo) + 1)
  PROVE  SubSeq(Line(undo, x, redo), k, Len(undo) + 1) =
           SubSeq(Append(undo, x), k, Len(undo) + 1)
<1>1. PICK f \in Seq(Drawings) : f = Flipped(redo)
  BY FlippedStack
<1>2. PICK a \in Seq(Drawings) : a = Append(undo, x)
  BY AppendProperties
<1>3. undo \o <<x>> = a
  BY <1>2, AppendIsConcat
<1>4. Len(a) = Len(undo) + 1 /\ Len(undo) \in Nat
  BY <1>2, AppendProperties
<1>5. k \in 1..Len(a) + 1 /\ Len(a) \in k-1..Len(a)
  BY <1>4
<1>6. SubSeq(a \o f, k, Len(a)) = SubSeq(a, k, Len(a))
  BY <1>5, SubSeqOfConcat1
<1> QED
  BY <1>1, <1>2, <1>3, <1>4, <1>6 DEF Line

\* An edit keeps the timeline up to its position, but for the oldest version
\* when there are more than the limit behind the next.
LEMMA EditedPast ==
  ASSUME NEW undo \in Seq(Drawings), NEW x \in Drawings, NEW redo \in Seq(Drawings),
         Len(undo) <= HistoryLimit
  PROVE  Capped(Append(undo, x)) =
           SubSeq(Line(undo, x, redo),
                  IF Len(undo) + 1 > HistoryLimit THEN 2 ELSE 1, Len(undo) + 1)
<1>1. PICK n \in Nat : n = Len(undo)
  OBVIOUS
<1>2. PICK a \in Seq(Drawings) : a = Append(undo, x) /\ Len(a) = n + 1
  BY <1>1, AppendProperties
<1>3. HistoryLimit \in Nat /\ HistoryLimit >= 1 /\ n <= HistoryLimit
  BY <1>1, LimitAssumption
<1>4. CASE n + 1 <= HistoryLimit
  <2>1. Capped(a) = a
    BY <1>2, <1>4 DEF Capped
  <2>2. a = SubSeq(a, 1, n + 1)
    BY <1>2, SubSeqFull
  <2>3. ~(n + 1 > HistoryLimit) /\ 1 \in 1..(n + 1)
    BY <1>3, <1>4
  <2> QED
    BY <1>1, <1>2, <2>1, <2>2, <2>3, UpToPosition
<1>5. CASE ~(n + 1 <= HistoryLimit)
  <2>1. n + 1 > HistoryLimit /\ 2 \in 1..(n + 1) /\ (n + 1) - HistoryLimit + 1 = 2
    BY <1>3, <1>5
  <2>2. Capped(a) = SubSeq(a, Len(a) - HistoryLimit + 1, Len(a))
    BY <1>2, <1>5 DEF Capped
  <2>3. Len(a) - HistoryLimit + 1 = 2
    BY <1>2, <2>1
  <2>4. Capped(a) = SubSeq(a, 2, n + 1)
    BY <1>2, <2>2, <2>3
  <2> QED
    BY <1>1, <1>2, <2>1, <2>4, UpToPosition
<1> QED
  BY <1>4, <1>5

\* A timeline with nothing in front of the position.
LEMMA LineEnds ==
  ASSUME NEW past \in Seq(Drawings), NEW x \in Drawings
  PROVE  Line(past, x, <<>>) = Append(past, x)
<1>1. past \o <<x>> \in Seq(Drawings)
  OBVIOUS
<1> QED
  BY <1>1, FlippedEmpty, ConcatEmptySeq, AppendIsConcat DEF Line

-------------------------------------------------------------------------------
(* The store implements VersionedDrawing.                                  *)

LEMMA CellsAreTimelines ==
  /\ Cells = [d \in Docs |-> Cells[d]]
  /\ Cells' = [d \in Docs |-> Cells'[d]]
BY DEF Cells

\* What a step does to one row, it does to one timeline.
LEMMA RowBecomes ==
  ASSUME Typed, NEW d \in Docs, NEW row \in Row,
         documents' = [documents EXCEPT ![d] = row]
  PROVE  Promise!Become(d, Timeline(row))
<1>1. row.live = TRUE
  BY DEF Row
<1>2. \A e \in Docs : documents'[e] = IF e = d THEN row ELSE documents[e]
  BY DEF Typed, TypeOK
<1>3. \A e \in Docs : Cells'[e] = IF e = d THEN Timeline(row) ELSE Cells[e]
  BY <1>1, <1>2 DEF Cells
<1>4. Cells' = [Cells EXCEPT ![d] = Timeline(row)]
  BY <1>3, CellsAreTimelines
<1> QED
  BY <1>4 DEF Promise!Become

LEMMA RowGoes ==
  ASSUME Typed, NEW d \in Docs, documents' = [documents EXCEPT ![d] = NoRow]
  PROVE  Promise!Become(d, Promise!Gone)
<1>1. NoRow.live = FALSE
  BY DEF NoRow
<1>2. \A e \in Docs : documents'[e] = IF e = d THEN NoRow ELSE documents[e]
  BY DEF Typed, TypeOK
<1>3. \A e \in Docs : Cells'[e] = IF e = d THEN NoTimeline ELSE Cells[e]
  BY <1>1, <1>2 DEF Cells
<1>4. Cells' = [Cells EXCEPT ![d] = NoTimeline]
  BY <1>3, CellsAreTimelines
<1> QED
  BY <1>4 DEF Promise!Become, Promise!Gone, NoTimeline

\* A drawing exists when its row is live, at the position behind its undo stack.
LEMMA WhatExists ==
  ASSUME Typed, NEW d \in Docs
  PROVE  /\ documents[d].live <=> Promise!Exists(d)
         /\ documents[d].live => Cells[d] = Timeline(documents[d])
<1>1. CASE documents[d].live
  <2>1. Cells[d] = Timeline(documents[d])
    BY <1>1 DEF Cells
  <2>2. Len(documents[d].undo) \in Nat
    BY <1>1, LiveRow DEF Row
  <2>3. Timeline(documents[d]).at = Len(documents[d].undo) + 1
    BY DEF Timeline
  <2> QED
    BY <1>1, <2>1, <2>2, <2>3 DEF Promise!Exists
<1>2. CASE ~documents[d].live
  <2>1. Cells[d].at = 0
    BY <1>2 DEF Cells, NoTimeline
  <2> QED
    BY <1>2, <2>1 DEF Promise!Exists
<1> QED
  BY <1>1, <1>2

\* A row that appears is a new drawing.
LEMMA CreationStep ==
  ASSUME Typed, NEW d \in Docs, ~documents[d].live,
         \/ CreateDocument(d)
         \/ \E x \in Drawings : CreateDocumentWithOperations(d, x)
         \/ \E r \in 0..MaxRevision, x \in Drawings : ImportDocument(d, r, x)
  PROVE  Promise!Create(d)
<1>1. ~Promise!Exists(d)
  BY WhatExists
<1>2. ASSUME NEW r \in 0..MaxRevision, NEW x \in Drawings, Insert(d, NewRow(r, x, <<>>))
      PROVE  Promise!Create(d)
  <2>1. <<>> \in Seq(Drawings) /\ <<x>> \in Seq(Drawings) /\ Len(<<>>) + 1 = 1
        /\ r \in Nat
    BY BoundAssumption
  <2>2. NewRow(r, x, <<>>) \in Row
    BY <2>1 DEF NewRow, RowAt, Row
  <2>3. <<>> \o <<x>> \o Flipped(<<>>) = <<x>>
    BY <2>1, FlippedEmpty, ConcatEmptySeq
  <2>4. Timeline(NewRow(r, x, <<>>)) = Promise!Cell(r, 1, <<x>>)
    BY <2>1, <2>3 DEF Timeline, NewRow, RowAt, Promise!Cell
  <2>5. Promise!Become(d, Promise!Cell(r, 1, <<x>>))
    BY <1>2, <2>2, <2>4, RowBecomes DEF Insert
  <2> QED
    BY <1>1, <2>5 DEF Promise!Create
<1>3. ASSUME NEW x \in Drawings, Insert(d, NewRow(1, x, <<Blank>>))
      PROVE  Promise!Create(d)
  <2>1. /\ <<>> \in Seq(Drawings) /\ <<x>> \in Seq(Drawings) /\ <<Blank>> \in Seq(Drawings)
        /\ <<Blank, x>> \in Seq(Drawings) /\ Len(<<Blank>>) + 1 = 2
    BY BlankAssumption
  <2>2. NewRow(1, x, <<Blank>>) \in Row
    BY <2>1 DEF NewRow, RowAt, Row
  <2>3. <<Blank>> \o <<x>> = <<Blank, x>>
    <3>1. PICK a \in Seq(Drawings) : a = <<Blank, x>> /\ Len(a) = 2 /\ a[1] = Blank /\ a[2] = x
      BY <2>1
    <3>2. PICK one \in Seq(Drawings) : one = <<Blank>> /\ Len(one) = 1 /\ one[1] = Blank
      BY <2>1
    <3>3. PICK b \in Seq(Drawings) : b = Append(one, x)
      BY AppendProperties
    <3>4. Len(b) = Len(one) + 1 /\ b[Len(one) + 1] = x
          /\ \A i \in 1..Len(one) : b[i] = one[i]
      BY <3>3, AppendProperties
    <3>5. b = <<Blank>> \o <<x>>
      BY <3>2, <3>3, AppendIsConcat
    <3>6. Len(b) = Len(a) /\ \A i \in 1..Len(b) : b[i] = a[i]
      BY <3>1, <3>2, <3>4
    <3> QED
      BY <3>1, <3>5, <3>6, SeqEqual
  <2>4. <<Blank>> \o <<x>> \o Flipped(<<>>) = <<Blank, x>>
    BY <2>1, <2>3, FlippedEmpty, ConcatEmptySeq
  <2>5. Timeline(NewRow(1, x, <<Blank>>)) = Promise!Cell(1, 2, <<Blank, x>>)
    BY <2>1, <2>4 DEF Timeline, NewRow, RowAt, Promise!Cell
  <2>6. Promise!Become(d, Promise!Cell(1, 2, <<Blank, x>>))
    BY <1>3, <2>2, <2>5, RowBecomes DEF Insert
  <2> QED
    BY <1>1, <2>6, BlankAssumption DEF Promise!Create
<1>4. CASE CreateDocument(d)
  BY <1>2, <1>4, BlankAssumption, BoundAssumption DEF CreateDocument
<1>5. ASSUME NEW x \in Drawings, CreateDocumentWithOperations(d, x) PROVE Promise!Create(d)
  BY <1>3, <1>5 DEF CreateDocumentWithOperations
<1>6. ASSUME NEW r \in 0..MaxRevision, NEW x \in Drawings, ImportDocument(d, r, x)
      PROVE  Promise!Create(d)
  BY <1>2, <1>6 DEF ImportDocument
<1> QED
  BY <1>4, <1>5, <1>6

\* What a handler stages is the step it was asked for, on the timeline it read.
LEMMA StepMade ==
  ASSUME Typed, StacksInv, NEW w \in Workers, Save(w)
  PROVE  LET d == work[w].doc
             c == Timeline(work[w].base)
         IN  Promise!EditOn(d, c) \/ Promise!UndoOn(d, c) \/ Promise!RedoOn(d, c)
<1>1. /\ work[w].op # "idle"
      /\ documents' = [documents EXCEPT ![work[w].doc] = Staged(work[w])]
  BY DEF Save, Writes
<1>2. work[w] \in Work /\ HasTop(work[w])
  BY <1>1, BusyWork
<1>3. PICK d \in Docs : d = work[w].doc
  BY <1>2 DEF Work
<1>4. PICK row \in Row : row = work[w].base
  BY <1>2 DEF Work
<1>5. PICK c : c = Timeline(row)
  OBVIOUS
<1> SUFFICES Promise!EditOn(d, c) \/ Promise!UndoOn(d, c) \/ Promise!RedoOn(d, c)
  BY <1>3, <1>4, <1>5
<1>6. StacksFit(row) /\ Staged(work[w]) \in Row
  BY <1>1, <1>2, <1>4, StagedRow DEF StacksInv
<1>7. Promise!Become(d, Timeline(Staged(work[w])))
  BY <1>1, <1>3, <1>6, RowBecomes
<1>8. /\ row.undo \in Seq(Drawings) /\ row.redo \in Seq(Drawings) /\ row.drawing \in Drawings
      /\ Len(row.undo) \in Nat /\ Len(row.redo) \in Nat /\ row.rev \in Nat
      /\ Len(row.undo) + Len(row.redo) <= HistoryLimit
  BY <1>6 DEF Row, StacksFit
<1>9. PICK n \in Nat, m \in Nat : n = Len(row.undo) /\ m = Len(row.redo)
  BY <1>8
<1>10. n <= HistoryLimit /\ (m > 0 => n < HistoryLimit)
  <2>1. n + m <= HistoryLimit
    BY <1>8, <1>9
  <2> HIDE <1>9
  <2> QED
    BY <2>1, LimitAssumption
<1>11. PICK line \in Seq(Drawings) :
        /\ line = Line(row.undo, row.drawing, row.redo)
        /\ Len(line) = Len(row.undo) + 1 + Len(row.redo)
        /\ Timeline(row) = Promise!Cell(row.rev, Len(row.undo) + 1, line)
  <2>1. PICK f \in Seq(Drawings) : f = Flipped(row.redo) /\ Len(f) = Len(row.redo)
    BY <1>8, FlippedStack
  <2>2. PICK a \in Seq(Drawings) : a = row.undo \o <<row.drawing>> /\ Len(a) = Len(row.undo) + 1
    <3>1. /\ Append(row.undo, row.drawing) \in Seq(Drawings)
          /\ Len(Append(row.undo, row.drawing)) = Len(row.undo) + 1
      BY <1>8, AppendProperties
    <3>2. Append(row.undo, row.drawing) = row.undo \o <<row.drawing>>
      BY <1>8, AppendIsConcat
    <3> QED
      BY <3>1, <3>2
  <2>3. a \o f \in Seq(Drawings) /\ Len(a \o f) = Len(a) + Len(f)
    BY ConcatProperties
  <2>4. a \o f = Line(row.undo, row.drawing, row.redo)
    BY <2>1, <2>2 DEF Line
  <2>5. Timeline(row) = Promise!Cell(row.rev, Len(row.undo) + 1, a \o f)
    BY <2>4 DEF Timeline, Line, Promise!Cell
  <2> QED
    BY <2>1, <2>2, <2>3, <2>4, <2>5
<1>12. /\ c.rev = row.rev /\ c.at = Len(row.undo) + 1 /\ c.versions = line
  BY <1>5, <1>11 DEF Promise!Cell
<1>13. CASE work[w].op = "undo"
  <2>1. row.undo # <<>> /\ Staged(work[w]) = Undone(row)
    BY <1>2, <1>4, <1>13 DEF HasTop, Staged
  <2>2. Len(row.undo) >= 1 /\ Len(Popped(row.undo)) = Len(row.undo) - 1
    BY <1>8, <2>1, EmptySeq, PoppedStack
  <2>3. Line(Popped(row.undo), Top(row.undo), Capped(Append(row.redo, row.drawing))) = line
    BY <1>8, <1>11, <2>1, UndoneLine
  <2>4. Timeline(Undone(row)) = Promise!Cell(row.rev + 1, Len(Popped(row.undo)) + 1, line)
    BY <2>3 DEF Timeline, Undone, RowAt, Line, Promise!Cell
  <2>5. Len(Popped(row.undo)) + 1 = c.at - 1 /\ c.at > 1
    BY <1>8, <1>12, <2>2
  <2>6. Promise!Become(d, Promise!Cell(c.rev + 1, c.at - 1, c.versions))
    BY <1>7, <1>12, <2>1, <2>4, <2>5
  <2> QED
    BY <2>5, <2>6 DEF Promise!UndoOn
<1>14. CASE work[w].op = "redo"
  <2>1. row.redo # <<>> /\ Staged(work[w]) = Redone(row)
    BY <1>2, <1>4, <1>14 DEF HasTop, Staged
  <2>2. m > 0 /\ n < HistoryLimit
    BY <1>10, <1>8, <1>9, <2>1, EmptySeq
  <2>3. Line(Capped(Append(row.undo, row.drawing)), Top(row.redo), Popped(row.redo)) = line
    BY <1>8, <1>11, <2>1, RedoneLine
  <2>4. Len(Capped(Append(row.undo, row.drawing))) = Len(row.undo) + 1
    BY <1>10, <1>8, <1>9, <2>2, PushedWhole, AppendProperties
  <2>5. Timeline(Redone(row)) =
          Promise!Cell(row.rev + 1, Len(Capped(Append(row.undo, row.drawing))) + 1, line)
    BY <2>3 DEF Timeline, Redone, RowAt, Line, Promise!Cell
  <2>6. c.at < Len(c.versions)
    <3>1. c.at = n + 1 /\ Len(c.versions) = n + 1 + m
      BY <1>11, <1>12, <1>9
    <3> QED
      BY <2>2, <3>1
  <2>7. Promise!Become(d, Promise!Cell(c.rev + 1, c.at + 1, c.versions))
    BY <1>7, <1>12, <2>1, <2>4, <2>5
  <2> QED
    BY <2>6, <2>7 DEF Promise!RedoOn
<1>15. CASE work[w].op \notin {"undo", "redo"}
  <2>1. PICK x \in Drawings : x = work[w].to /\ Staged(work[w]) = Edited(row, x)
    BY <1>2, <1>4, <1>15 DEF Staged, Work
  <2>2. PICK kept : kept = IF c.at > HistoryLimit THEN 2 ELSE 1
    OBVIOUS
  <2>3. Len(row.undo) <= HistoryLimit
    BY <1>10, <1>9
  <2>4. Capped(Append(row.undo, row.drawing)) = SubSeq(line, kept, c.at)
    <3>1. Capped(Append(row.undo, row.drawing)) =
            SubSeq(Line(row.undo, row.drawing, row.redo),
                   IF Len(row.undo) + 1 > HistoryLimit THEN 2 ELSE 1, Len(row.undo) + 1)
      BY <1>8, <2>3, EditedPast
    <3> QED
      BY <1>11, <1>12, <2>2, <3>1, Zenon
  <2>5. PICK past \in Seq(Drawings) :
          past = SubSeq(line, kept, c.at) /\ past = Capped(Append(row.undo, row.drawing))
    BY <1>8, <2>4, PushedStack
  <2>6. Line(past, x, <<>>) = Append(past, x)
    BY LineEnds
  <2>7. Timeline(Edited(row, x)) = Promise!Cell(row.rev + 1, Len(past) + 1, Append(past, x))
    BY <2>5, <2>6 DEF Timeline, Edited, RowAt, Line, Promise!Cell
  <2>8. Promise!Become(d, Promise!Cell(c.rev + 1, Len(past) + 1, Append(past, x)))
    BY <1>7, <1>12, <2>1, <2>7
  <2> QED
    BY <1>12, <2>2, <2>5, <2>8 DEF Promise!EditOn
<1> QED
  BY <1>13, <1>14, <1>15

\* A write is the step of the timeline that its handler was asked for, or, when
\* the handler read the document in an earlier life of its id, overtakes it.
LEMMA SaveStep ==
  ASSUME Typed, StacksInv, Current, NEW w \in Workers, Save(w)
  PROVE  LET d == work[w].doc IN
         d \in Docs /\ (Promise!Edit(d) \/ Promise!Undo(d) \/ Promise!Redo(d)
                        \/ Promise!Overtake(d))
<1>1. PICK job \in Work : job = work[w] /\ NotBehind(job) /\ CompareAndSet(job) /\ job # Idle
  <2>1. work[w].op # "idle" /\ CompareAndSet(work[w])
    BY DEF Save, Writes, Saves
  <2> QED
    BY <2>1, BusyWork DEF Current, Idle
<1>2. PICK d \in Docs : d = job.doc
  BY DEF Work
<1>3. PICK c : c = Timeline(job.base)
  OBVIOUS
<1>4. Promise!EditOn(d, c) \/ Promise!UndoOn(d, c) \/ Promise!RedoOn(d, c)
  BY <1>1, <1>2, <1>3, StepMade
<1>5. /\ documents[d].live /\ documents[d].rev = job.base.rev
      /\ Promise!Exists(d) /\ Cells[d] = Timeline(documents[d])
  BY <1>1, <1>2, WhatExists DEF CompareAndSet
<1>6. CASE job.life = life[d]
  <2>1. documents[d] = job.base
    BY <1>1, <1>2, <1>5, <1>6 DEF NotBehind, Work, Row
  <2>2. Cells[d] = c
    BY <1>3, <1>5, <2>1
  <2> QED
    BY <1>1, <1>2, <1>4, <1>5, <2>2 DEF Promise!Edit, Promise!Undo, Promise!Redo
<1>7. CASE job.life # life[d]
  <2>1. job \in Held
    BY <1>1 DEF Held
  <2>2. c \in Ghosts[d]
    BY <1>2, <1>3, <1>7, <2>1 DEF Ghosts
  <2>3. c.rev = Cells[d].rev
    BY <1>3, <1>5 DEF Timeline
  <2> QED
    BY <1>1, <1>2, <1>4, <1>5, <2>2, <2>3 DEF Promise!Overtake
<1> QED
  BY <1>6, <1>7

LEMMA NextLinearized ==
  Typed /\ StacksInv /\ Current /\ [Next]_vars => [Promise!Next]_Cells
<1> SUFFICES ASSUME Typed, StacksInv, Current, [Next]_vars PROVE Promise!Next \/ Cells' = Cells
  OBVIOUS
<1>1. CASE UNCHANGED documents
  BY <1>1 DEF Cells
<1>2. ASSUME NEW d \in Docs, Lifecycle(d) PROVE Promise!Next
  <2>1. CASE DeleteDocument(d)
    <3>1. Promise!Remove(d)
      BY <2>1, RowGoes, WhatExists DEF DeleteDocument, Promise!Remove
    <3> QED
      BY <3>1 DEF Promise!Next
  <2>2. CASE ~DeleteDocument(d)
    <3>1. ~documents[d].live
      BY <1>2, <2>2, LifecycleKinds DEF Appearing
    <3>2. Promise!Create(d)
      BY <1>2, <2>2, <3>1, CreationStep DEF Lifecycle
    <3> QED
      BY <3>2 DEF Promise!Next
  <2> QED
    BY <2>1, <2>2
<1>3. ASSUME NEW w \in Workers, Save(w) PROVE Promise!Next
  BY <1>3, SaveStep DEF Promise!Next
<1>4. ASSUME NEW w \in Workers, Handle(w) PROVE UNCHANGED documents \/ Save(w)
  BY <1>4, HandleKinds DEF Reading, GivingUp
<1> QED
  BY <1>1, <1>2, <1>3, <1>4 DEF Next, vars

(***************************************************************************)
(* The store is linearizable: for any number of handlers, every behaviour  *)
(* of reads, stagings and compare-and-sets is a behaviour of the timeline  *)
(* whose steps are atomic.  A read is no step of it; the write is.  When a *)
(* document comes back under its id, a request that read it before may     *)
(* still make its step, on what it read and at an equal revision only.     *)
(***************************************************************************)
THEOREM StoreIsLinearizable == Spec => Linearized
<1>1. Init => Promise!Init
  BY DEF Init, Promise!Init, Promise!Gone, Cells, NoRow, NoTimeline
<1>2. Init => StacksInv
  BY DEF Init, StacksInv, StacksShareTheLimit, NoRow, Idle
<1>3. Typed /\ StacksInv /\ Current /\ [Next]_vars => [Promise!Next]_Cells
  BY NextLinearized
<1> QED
  BY AlwaysTyped, AlwaysCurrent, NextStacks, <1>1, <1>2, <1>3, PTL
  DEF Spec, Linearized, Promise!Spec

===============================================================================
