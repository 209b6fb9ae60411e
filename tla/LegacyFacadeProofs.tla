-------------------------- MODULE LegacyFacadeProofs ---------------------------
(***************************************************************************)
(* Proofs about LegacyFacade: the facade beside any number of documents.   *)
(***************************************************************************)
EXTENDS LegacyFacade, TLAPS

\* What the projection needs: tables are functions, and a worker that does not
\* serve the canvas serves another document.
Shaped ==
  /\ documents = [d \in Docs |-> documents[d]]
  /\ history = [d \in Docs |-> history[d]]
  /\ life = [d \in Docs |-> life[d]]
  /\ work = [w \in Workers |-> work[w]]
  /\ \A w \in Workers : work[w] # Idle =>
       /\ work[w].doc \in Docs \cup {Canvas}
       /\ work[w].op = "canvas" => work[w].doc = Canvas

LEMMA InitShaped == FacadeInit => Shaped
BY DEF FacadeInit, Shaped, Idle

\* The kernel's operators on rows are those of the instance.
LEMMA SameRows ==
  /\ Elsewhere!NoRow = NoRow /\ Elsewhere!Idle = Idle
  /\ Elsewhere!Writes = Writes
  /\ \A r, x, undo : Elsewhere!NewRow(r, x, undo) = NewRow(r, x, undo)
  /\ \A job : Elsewhere!Staged(job) = Staged(job)
BY DEF NoRow, Idle, Writes, NewRow, RowAt, Staged, Undone, Redone,
       Edited, Capped, Top, Popped,
       Elsewhere!NoRow, Elsewhere!Idle, Elsewhere!Writes, Elsewhere!NewRow,
       Elsewhere!RowAt, Elsewhere!Staged, Elsewhere!Undone,
       Elsewhere!Redone, Elsewhere!Edited, Elsewhere!Capped, Elsewhere!Top,
       Elsewhere!Popped

\* A change of one document is the same change elsewhere, or none if it is of
\* the canvas.
LEMMA RowsMove ==
  ASSUME Shaped, NEW d, NEW row, documents' = [documents EXCEPT ![d] = row]
  PROVE  /\ d \in Others => OtherRows' = [OtherRows EXCEPT ![d] = row]
         /\ d \notin Others => OtherRows' = OtherRows
BY DEF Shaped, OtherRows, Others

LEMMA HistoryMoves ==
  ASSUME Shaped, NEW d, NEW h, history' = [history EXCEPT ![d] = h]
  PROVE  /\ d \in Others => OtherHistory' = [OtherHistory EXCEPT ![d] = h]
         /\ d \notin Others => OtherHistory' = OtherHistory
BY DEF Shaped, OtherHistory, Others

LEMMA LivesMove ==
  ASSUME Shaped, NEW d, NEW n, life' = [life EXCEPT ![d] = n]
  PROVE  /\ d \in Others => OtherLives' = [OtherLives EXCEPT ![d] = n]
         /\ d \notin Others => OtherLives' = OtherLives
BY DEF Shaped, OtherLives, Others

\* The work of one handler changes: elsewhere it takes what it takes, unless
\* that is for the canvas.
LEMMA WorkMoves ==
  ASSUME Shaped, NEW w \in Workers, NEW job, work' = [work EXCEPT ![w] = job],
         job # Idle => job.doc \in Docs \cup {Canvas}
  PROVE  /\ job = Idle \/ job.doc # Canvas => OtherWork' = [OtherWork EXCEPT ![w] = job]
         /\ job # Idle /\ job.doc = Canvas => OtherWork' = [OtherWork EXCEPT ![w] = Idle]
BY DEF Shaped, OtherWork, OnCanvas, Idle

LEMMA StandStill ==
  /\ UNCHANGED documents => UNCHANGED OtherRows
  /\ UNCHANGED history => UNCHANGED OtherHistory
  /\ UNCHANGED specs => UNCHANGED OtherSpecs
  /\ UNCHANGED work => UNCHANGED OtherWork
  /\ UNCHANGED life => UNCHANGED OtherLives
BY DEF OtherRows, OtherHistory, OtherSpecs, OtherWork, OtherLives, OnCanvas

\* A document other than the canvas has its row and its sources.
LEMMA SeenElsewhere ==
  ASSUME NEW d \in Others
  PROVE  /\ OtherRows[d] = documents[d] /\ OtherHistory[d] = history[d]
         /\ Elsewhere!LatestSpec(d) = LatestSpec(d)
         /\ \A s \in specs : s.doc = d => s \in OtherSpecs
         /\ OtherLives[d] = life[d]
BY DEF OtherRows, OtherHistory, OtherSpecs, OtherLives, Others, LatestSpec, SpecsOf,
       Elsewhere!LatestSpec, Elsewhere!SpecsOf

-------------------------------------------------------------------------------
(* Rows that appear and go.                                                *)

LEMMA InsertElsewhere ==
  ASSUME Shaped, NEW d \in Docs, NEW row, Insert(d, row)
  PROVE  /\ d \in Others => Elsewhere!Insert(d, row)
         /\ d \notin Others => UNCHANGED Elsewhere!vars
<1>1. /\ documents' = [documents EXCEPT ![d] = row]
      /\ history' = [history EXCEPT ![d] = <<row.rev>>]
      /\ life' = [life EXCEPT ![d] = life[d] + 1]
      /\ UNCHANGED OtherSpecs /\ UNCHANGED OtherWork
  BY StandStill DEF Insert
<1>2. CASE d \in Others
  <2>1. OtherLives' = [OtherLives EXCEPT ![d] = OtherLives[d] + 1]
    BY <1>1, <1>2, LivesMove, SeenElsewhere
  <2> QED
    BY <1>1, <1>2, <2>1, RowsMove, HistoryMoves DEF Elsewhere!Insert
<1>3. CASE d \notin Others
  BY <1>1, <1>3, RowsMove, HistoryMoves, LivesMove DEF Elsewhere!vars
<1> QED
  BY <1>2, <1>3

LEMMA LifecycleElsewhere ==
  ASSUME Shaped, NEW d \in Docs, Lifecycle(d)
  PROVE  [Elsewhere!Next]_(Elsewhere!vars)
<1>1. CASE d \in Others
  <2>1. CreateDocument(d) => Elsewhere!CreateDocument(d)
    BY <1>1, InsertElsewhere, SeenElsewhere, SameRows
    DEF CreateDocument, Elsewhere!CreateDocument
  <2>2. ASSUME NEW x \in Drawings, CreateDocumentWithOperations(d, x)
        PROVE  Elsewhere!CreateDocumentWithOperations(d, x)
    BY <1>1, <2>2, InsertElsewhere, SeenElsewhere, SameRows
    DEF CreateDocumentWithOperations, Elsewhere!CreateDocumentWithOperations
  <2>3. ASSUME NEW r \in 0..MaxRevision, NEW x \in Drawings, ImportDocument(d, r, x)
        PROVE  Elsewhere!ImportDocument(d, r, x)
    BY <1>1, <2>3, InsertElsewhere, SeenElsewhere, SameRows
    DEF ImportDocument, Elsewhere!ImportDocument
  <2>4. DeleteDocument(d) => Elsewhere!DeleteDocument(d)
    BY <1>1, RowsMove, HistoryMoves, StandStill, SeenElsewhere, SameRows
    DEF DeleteDocument, Elsewhere!DeleteDocument
  <2>5. Elsewhere!Lifecycle(d)
    BY <2>1, <2>2, <2>3, <2>4 DEF Lifecycle, Elsewhere!Lifecycle
  <2> QED
    BY <1>1, <2>5 DEF Elsewhere!Next
<1>2. CASE d \notin Others
  <2>1. CASE DeleteDocument(d)
    BY <1>2, <2>1, RowsMove, HistoryMoves, StandStill DEF DeleteDocument, Elsewhere!vars
  <2>2. CASE ~DeleteDocument(d)
    <3>1. \E row : Insert(d, row)
      BY <2>2 DEF Lifecycle, CreateDocument, CreateDocumentWithOperations, ImportDocument
    <3> QED
      BY <1>2, <3>1, InsertElsewhere
  <2> QED
    BY <2>1, <2>2
<1> QED
  BY <1>1, <1>2

-------------------------------------------------------------------------------
(* What handlers do.                                                       *)

\* A handler that is busy elsewhere is the same one there.
LEMMA BusyElsewhere ==
  ASSUME Shaped, NEW w \in Workers
  PROVE  /\ work[w] = Idle => OtherWork[w] = Idle
         /\ work[w] # Idle /\ ~OnCanvas(w) => OtherWork[w] = work[w] /\ work[w].doc \in Others
         /\ OnCanvas(w) => OtherWork[w] = Idle /\ work[w].doc \notin Others
BY DEF Shaped, OtherWork, OnCanvas, Others

\* A handler that ends or is taken by the canvas is idle elsewhere.
LEMMA OthersIdle ==
  ASSUME Shaped, NEW w \in Workers, OtherWork[w] = Idle
  PROVE  [OtherWork EXCEPT ![w] = Idle] = OtherWork
BY DEF OtherWork

LEMMA TakeElsewhere ==
  ASSUME Shaped, NEW w \in Workers, NEW job, Take(w, job),
         job # Idle, job.doc \in Docs \cup {Canvas}
  PROVE  /\ job.doc # Canvas => Elsewhere!Take(w, job)
         /\ job.doc = Canvas => UNCHANGED Elsewhere!vars
<1>1. work[w] = Idle /\ work' = [work EXCEPT ![w] = job]
      /\ UNCHANGED <<documents, history, specs, life>>
  BY DEF Take
<1>2. UNCHANGED <<OtherRows, OtherHistory, OtherSpecs, OtherLives>>
  BY <1>1, StandStill
<1>3. OtherWork[w] = Idle
  BY <1>1, BusyElsewhere
<1>4. CASE job.doc # Canvas
  <2>1. OtherWork' = [OtherWork EXCEPT ![w] = job]
    BY <1>1, <1>4, WorkMoves
  <2> QED
    BY <1>2, <1>3, <1>4, <2>1, SameRows DEF Elsewhere!Take
<1>5. CASE job.doc = Canvas
  <2>1. OtherWork' = [OtherWork EXCEPT ![w] = Idle]
    BY <1>1, <1>5, WorkMoves
  <2> QED
    BY <1>2, <1>3, <1>5, <2>1, OthersIdle DEF Elsewhere!vars
<1> QED
  BY <1>4, <1>5

\* A row read elsewhere is read as it is.
LEMMA ReadElsewhere ==
  ASSUME NEW d \in Others
  PROVE  /\ Elsewhere!Readable(d) <=> Readable(d)
         /\ \A op, x : Elsewhere!Job(op, d, x) = Job(op, d, x)
BY SeenElsewhere DEF Readable, Job, Elsewhere!Readable, Elsewhere!Job

LEMMA JobTaken ==
  ASSUME NEW op \in Writes \cup {"check"}, NEW d, NEW x
  PROVE  Job(op, d, x) # Idle /\ Job(op, d, x).doc = d /\ Job(op, d, x).op = op
BY DEF Job, Idle, Writes

LEMMA TextTaken ==
  ASSUME Shaped, NEW w \in Workers, work[w].op = "check"
  PROVE  /\ TextJob(work[w]) # Idle /\ TextJob(work[w]).op = "text"
         /\ TextJob(work[w]).doc = work[w].doc
BY DEF TextJob, Job, Idle

\* Reading and staging, the first transaction of a handler.
Beginning(w) ==
  \/ \E d \in Docs, x \in Drawings :
       \/ StageTransaction(w, d, x)
       \/ StageRename(w, d, x)
       \/ CheckEmptyTarget(w, d, x)
       \/ CheckReplaceableTarget(w, d, x)
  \/ \E d \in Docs : StageUndo(w, d) \/ StageRedo(w, d)

LEMMA BeginningElsewhere ==
  ASSUME Shaped, NEW w \in Workers, Beginning(w)
  PROVE  [Elsewhere!Next]_(Elsewhere!vars)
<1>1. ASSUME NEW d \in Others, NEW op \in Writes \cup {"check"}, NEW x, Take(w, Job(op, d, x))
      PROVE  Elsewhere!Take(w, Job(op, d, x))
  <2>1. Job(op, d, x) # Idle /\ Job(op, d, x).doc = d
    BY JobTaken
  <2>2. d # Canvas /\ d \in Docs
    BY DEF Others
  <2> QED
    BY <1>1, <2>1, <2>2, TakeElsewhere
<1>2. ASSUME NEW d \in Others, NEW x \in Drawings
      PROVE  /\ StageTransaction(w, d, x) => Elsewhere!StageTransaction(w, d, x)
             /\ StageRename(w, d, x) => Elsewhere!StageRename(w, d, x)
             /\ CheckEmptyTarget(w, d, x) => Elsewhere!CheckEmptyTarget(w, d, x)
             /\ CheckReplaceableTarget(w, d, x) => Elsewhere!CheckReplaceableTarget(w, d, x)
  BY <1>1, ReadElsewhere, SeenElsewhere
  DEF Writes, StageTransaction, StageRename, CheckEmptyTarget, CheckReplaceableTarget,
      Elsewhere!StageTransaction, Elsewhere!StageRename, Elsewhere!CheckEmptyTarget,
      Elsewhere!CheckReplaceableTarget
<1>3. ASSUME NEW d \in Others
      PROVE  /\ StageUndo(w, d) => Elsewhere!StageUndo(w, d)
             /\ StageRedo(w, d) => Elsewhere!StageRedo(w, d)
  BY <1>1, ReadElsewhere, SeenElsewhere
  DEF Writes, StageUndo, StageRedo, Elsewhere!StageUndo, Elsewhere!StageRedo
<1>4. PICK d \in Docs :
        \/ \E x \in Drawings :
             \/ StageTransaction(w, d, x) \/ StageRename(w, d, x)
             \/ CheckEmptyTarget(w, d, x) \/ CheckReplaceableTarget(w, d, x)
        \/ StageUndo(w, d) \/ StageRedo(w, d)
  BY DEF Beginning
<1>5. CASE d \in Others
  <2>1. Elsewhere!Handle(w)
    BY <1>2, <1>3, <1>4, <1>5 DEF Elsewhere!Handle
  <2> QED
    BY <2>1 DEF Elsewhere!Next
<1>6. CASE d \notin Others
  <2>1. PICK op \in Writes \cup {"check"} : \E x : Take(w, Job(op, d, x))
    BY <1>4 DEF StageTransaction, StageRename, CheckEmptyTarget, CheckReplaceableTarget,
                StageUndo, StageRedo, Writes
  <2>2. d = Canvas
    BY <1>6 DEF Others
  <2> QED
    BY <2>1, <2>2, JobTaken, TakeElsewhere
<1> QED
  BY <1>5, <1>6

\* The later transactions of a handler, on the job it holds.
Carrying(w) == StageText(w) \/ RefuseText(w) \/ Save(w) \/ Conflict(w)

LEMMA CarryingIsBusy ==
  ASSUME NEW w \in Workers, Carrying(w)
  PROVE  work[w] # Idle
BY DEF Carrying, StageText, RefuseText, Save, Conflict, Idle, Writes

LEMMA CarryingOnCanvas ==
  ASSUME Shaped, NEW w \in Workers, Carrying(w), OnCanvas(w)
  PROVE  UNCHANGED Elsewhere!vars
<1>1. work[w].doc = Canvas /\ work[w].doc \notin Others /\ OtherWork[w] = Idle
  BY BusyElsewhere DEF OnCanvas
<1>2. /\ UNCHANGED OtherRows /\ UNCHANGED OtherHistory
      /\ UNCHANGED OtherSpecs /\ UNCHANGED OtherLives
  <2>1. CASE Save(w)
    <3>1. OtherSpecs' = OtherSpecs
      BY <1>1, <2>1 DEF Save, OtherSpecs, SpecsWritten
    <3> QED
      BY <1>1, <2>1, <3>1, RowsMove, HistoryMoves, StandStill DEF Save
  <2>2. CASE ~Save(w)
    BY <2>2, StandStill DEF Carrying, StageText, RefuseText, Conflict
  <2> QED
    BY <2>1, <2>2
<1>3. OtherWork' = OtherWork
  <2>1. CASE StageText(w)
    <3>2. PICK job : /\ work' = [work EXCEPT ![w] = job]
                     /\ job # Idle /\ job.doc = Canvas
      BY <1>1, <2>1, TextTaken DEF StageText
    <3>3. OtherWork' = [OtherWork EXCEPT ![w] = Idle]
      BY <3>2, WorkMoves
    <3> QED
      BY <1>1, <3>3, OthersIdle
  <2>2. CASE ~StageText(w)
    <3>1. work' = [work EXCEPT ![w] = Idle]
      BY <2>2 DEF Carrying, RefuseText, Save, Conflict
    <3> QED
      BY <1>1, <3>1, WorkMoves, OthersIdle
  <2> QED
    BY <2>1, <2>2
<1> QED
  BY <1>2, <1>3 DEF Elsewhere!vars

\* The job of another document is carried on as the kernel does.
LEMMA CarryingElsewhere ==
  ASSUME Shaped, NEW w \in Workers, Carrying(w), ~OnCanvas(w)
  PROVE  Elsewhere!Handle(w)
<1>1. PICK job : job = work[w]
  OBVIOUS
<1>2. /\ job # Idle /\ job.doc \in Others /\ job.doc # Canvas
      /\ OtherWork[w] = job
  BY <1>1, CarryingIsBusy, BusyElsewhere DEF Others
<1>3. PICK d \in Others : d = job.doc
  BY <1>2
<1>4. /\ Elsewhere!Saves(job) <=> Saves(job)
      /\ OtherRows[d] = documents[d]
  BY <1>3, SeenElsewhere
  DEF Saves, CompareAndSet, SpecFree, Elsewhere!Saves, Elsewhere!CompareAndSet,
      Elsewhere!SpecFree, OtherSpecs
<1>5. work' = [work EXCEPT ![w] = Idle] => OtherWork' = [OtherWork EXCEPT ![w] = Idle]
  BY WorkMoves
<1>6. StageText(w) => Elsewhere!StageText(w)
  <2> SUFFICES ASSUME StageText(w) PROVE Elsewhere!StageText(w)
    OBVIOUS
  <2>1. PICK next : next = TextJob(job) /\ next # Idle /\ next.doc = d
    BY <1>1, <1>3, TextTaken DEF StageText
  <2>2. work' = [work EXCEPT ![w] = next]
    BY <1>1, <1>3, <2>1 DEF StageText
  <2>3. d # Canvas /\ d \in Docs
    BY DEF Others
  <2>4. OtherWork' = [OtherWork EXCEPT ![w] = next]
    BY <2>1, <2>2, <2>3, WorkMoves
  <2>5. UNCHANGED <<OtherRows, OtherHistory, OtherSpecs, OtherLives>>
    BY StandStill DEF StageText
  <2>6. next = Elsewhere!TextJob(job)
    BY <1>3, <1>4, <2>1 DEF TextJob, Job, Elsewhere!TextJob, Elsewhere!Job
  <2> QED
    BY <1>1, <1>2, <1>3, <1>4, <2>4, <2>5, <2>6 DEF StageText, Elsewhere!StageText
<1>7. RefuseText(w) => Elsewhere!RefuseText(w)
  BY <1>1, <1>2, <1>3, <1>4, <1>5, StandStill, SameRows DEF RefuseText, Elsewhere!RefuseText
<1>8. Save(w) => Elsewhere!Save(w)
  <2> SUFFICES ASSUME Save(w) PROVE Elsewhere!Save(w)
    OBVIOUS
  <2>1. /\ job.op \in Writes /\ Saves(job)
        /\ documents' = [documents EXCEPT ![d] = Staged(job)]
        /\ history' = [history EXCEPT ![d] = Append(history[d], job.base.rev + 1)]
        /\ specs' = specs \cup SpecsWritten(job)
        /\ work' = [work EXCEPT ![w] = Idle] /\ UNCHANGED life
    BY <1>1, <1>3 DEF Save, Shaped, Others
  <2>2. OtherSpecs' = OtherSpecs \cup SpecsWritten(job)
    BY <1>2, <2>1 DEF OtherSpecs, SpecsWritten
  <2>5. Elsewhere!SpecsWritten(job) = SpecsWritten(job)
    BY <1>2, SeenElsewhere DEF SpecsWritten, Elsewhere!SpecsWritten
  <2>3. OtherRows' = [OtherRows EXCEPT ![d] = Staged(job)]
    BY <2>1, RowsMove
  <2>4. OtherHistory' = [OtherHistory EXCEPT ![d] = Append(OtherHistory[d], job.base.rev + 1)]
    BY <2>1, HistoryMoves, SeenElsewhere
  <2> QED
    BY <1>2, <1>3, <1>4, <1>5, <2>1, <2>2, <2>3, <2>4, <2>5, StandStill, SameRows
    DEF Elsewhere!Save, OtherHistory
<1>9. Conflict(w) => Elsewhere!Conflict(w)
  BY <1>1, <1>2, <1>4, <1>5, StandStill, SameRows DEF Conflict, Elsewhere!Conflict
<1> QED
  BY <1>6, <1>7, <1>8, <1>9 DEF Carrying, Elsewhere!Handle

-------------------------------------------------------------------------------
(* The facade's own steps, and all of them.                                *)

LEMMA CanvasElsewhere ==
  ASSUME Shaped, NEW w \in Workers, MissCanvas(w) \/ SaveCanvas(w)
  PROVE  UNCHANGED Elsewhere!vars
<1>1. CASE MissCanvas(w)
  <2>1. PICK job : Take(w, job) /\ job # Idle /\ job.doc = Canvas
    BY <1>1 DEF MissCanvas, Idle
  <2> QED
    BY <2>1, TakeElsewhere
<1>2. CASE SaveCanvas(w)
  <2>1. work[w] # Idle /\ work[w].doc = Canvas
    BY <1>2 DEF SaveCanvas, Shaped, Idle
  <2>2. OtherWork[w] = Idle
    BY <2>1, BusyElsewhere DEF OnCanvas
  <2>3. OtherWork' = OtherWork
    BY <1>2, <2>2, WorkMoves, OthersIdle DEF SaveCanvas
  <2>4. OtherRows' = OtherRows
    BY <1>2, RowsMove DEF SaveCanvas, Others
  <2> QED
    BY <1>2, <2>3, <2>4, StandStill DEF SaveCanvas, Elsewhere!vars
<1> QED
  BY <1>1, <1>2

LEMMA NextElsewhere ==
  Shaped /\ [FacadeNext]_vars => [Elsewhere!Next]_(Elsewhere!vars)
<1> SUFFICES ASSUME Shaped, [FacadeNext]_vars PROVE [Elsewhere!Next]_(Elsewhere!vars)
  OBVIOUS
<1>1. CASE UNCHANGED vars
  BY <1>1, StandStill DEF vars, Elsewhere!vars
<1>2. ASSUME NEW w \in Workers, Handle(w) PROVE [Elsewhere!Next]_(Elsewhere!vars)
  <2>1. Beginning(w) \/ Carrying(w)
    BY <1>2 DEF Handle, Beginning, Carrying
  <2>2. CASE Carrying(w) /\ ~OnCanvas(w)
    BY <2>2, CarryingElsewhere DEF Elsewhere!Next
  <2> QED
    BY <2>1, <2>2, BeginningElsewhere, CarryingOnCanvas
<1> QED
  BY <1>1, <1>2, LifecycleElsewhere, CanvasElsewhere DEF FacadeNext, Next

LEMMA NextShaped == Shaped /\ [FacadeNext]_vars => Shaped'
<1> SUFFICES ASSUME Shaped, [FacadeNext]_vars PROVE Shaped'
  OBVIOUS
<1>1. CASE UNCHANGED vars
  BY <1>1 DEF Shaped, vars
<1>2. ASSUME NEW d \in Docs, Lifecycle(d) PROVE Shaped'
  <2>1. CASE DeleteDocument(d)
    BY <2>1 DEF DeleteDocument, Shaped
  <2>2. CASE ~DeleteDocument(d)
    <3>1. \E row : Insert(d, row)
      BY <1>2, <2>2 DEF Lifecycle, CreateDocument, CreateDocumentWithOperations, ImportDocument
    <3> QED
      BY <3>1 DEF Insert, Shaped
  <2> QED
    BY <2>1, <2>2
<1>3. ASSUME NEW w \in Workers, NEW job, work' = [work EXCEPT ![w] = job],
             \/ job = Idle
             \/ job.doc \in Docs \cup {Canvas} /\ (job.op = "canvas" => job.doc = Canvas),
             UNCHANGED life,
             \/ UNCHANGED <<documents, history>>
             \/ \E d, row, h : /\ documents' = [documents EXCEPT ![d] = row]
                               /\ history' = [history EXCEPT ![d] = h] \/ UNCHANGED history
      PROVE  Shaped'
  BY <1>3 DEF Shaped
<1>4. ASSUME NEW w \in Workers, Handle(w) PROVE Shaped'
  <2>1. CASE Beginning(w)
    <3>1. PICK d \in Docs, op \in Writes \cup {"check"} : \E x : Take(w, Job(op, d, x))
      BY <2>1
      DEF Beginning, StageTransaction, StageRename, CheckEmptyTarget, CheckReplaceableTarget,
          StageUndo, StageRedo, Writes
    <3>2. PICK x : Take(w, Job(op, d, x))
      BY <3>1
    <3>3. Job(op, d, x).doc = d /\ Job(op, d, x).op # "canvas"
      BY JobTaken DEF Writes
    <3> QED
      BY <1>3, <3>2, <3>3 DEF Take
  <2>2. CASE StageText(w)
    <3>1. PICK job : /\ job = TextJob(work[w])
                     /\ work' = [work EXCEPT ![w] = job]
                     /\ UNCHANGED <<documents, history, life>>
      BY <2>2 DEF StageText
    <3>2. work[w] # Idle
      BY <2>2 DEF StageText, Idle
    <3>3. job.doc = work[w].doc /\ job.op # "canvas"
      BY <2>2, <3>1, TextTaken DEF StageText
    <3>4. work[w].doc \in Docs \cup {Canvas}
      BY <3>2 DEF Shaped
    <3> QED
      BY <1>3, <3>1, <3>3, <3>4
  <2>3. CASE RefuseText(w) \/ Conflict(w)
    BY <1>3, <2>3 DEF RefuseText, Conflict
  <2>4. CASE Save(w)
    <3>1. /\ work' = [work EXCEPT ![w] = Idle] /\ UNCHANGED life
          /\ \E d, row, h : /\ documents' = [documents EXCEPT ![d] = row]
                            /\ history' = [history EXCEPT ![d] = h]
      BY <2>4 DEF Save
    <3> QED
      BY <1>3, <3>1
  <2> QED
    BY <1>4, <2>1, <2>2, <2>3, <2>4 DEF Handle, Beginning
<1>5. ASSUME NEW w \in Workers, MissCanvas(w) PROVE Shaped'
  BY <1>3, <1>5 DEF MissCanvas, Take
<1>6. ASSUME NEW w \in Workers, SaveCanvas(w) PROVE Shaped'
  BY <1>3, <1>6 DEF SaveCanvas
<1> QED
  BY <1>1, <1>2, <1>4, <1>5, <1>6 DEF FacadeNext, Next

(***************************************************************************)
(* UnnoticedElsewhere: for every document but its own, the facade is not   *)
(* there.                                                                  *)
(***************************************************************************)
THEOREM Unnoticed == FacadeSpec => UnnoticedElsewhere
<1>1. FacadeInit => Elsewhere!Init
  BY SameRows
  DEF FacadeInit, Elsewhere!Init, OtherRows, OtherHistory, OtherSpecs, OtherWork, OtherLives,
      OnCanvas, Others
<1> QED
  BY <1>1, InitShaped, NextShaped, NextElsewhere, PTL
  DEF FacadeSpec, UnnoticedElsewhere, Elsewhere!Spec

===============================================================================
