--------------------------- MODULE EditorSyncProofs ---------------------------
(* Proofs about EditorSync, for any number of calls, documents and writes. *)
EXTENDS EditorSync, TLAPS

-------------------------------------------------------------------------------
(* Types.                                                                  *)

LEMMA NotADocument == NoDoc \notin Docs
BY DocAssumption

LEMMA Shapes ==
  /\ NoCopy \in Copy
  /\ NoList \in [Docs -> Revision]
  /\ Waiting \in Answer
  /\ Idle \in Call
  /\ [Idle EXCEPT !.op = "done"] \in Call
  /\ \A d \in Docs : \A r \in Nat : At(d, r) \in Copy
  /\ \A c \in Copy : Good(c) \in Answer
  /\ \A l \in [Docs -> Revision] : Listed(l) \in Answer
  /\ \A k \in {"conflict", "error"} : Refused(k) \in Answer
<1>1. NoCopy \in Copy /\ NoList \in [Docs -> Revision]
  BY DEF NoCopy, Copy, NoList, Revision
<1>2. Waiting \in Answer
  BY <1>1 DEF Waiting, Answer
<1>3. Idle \in Call
  BY <1>1, <1>2 DEF Idle, Call, Requests
<1>4. [Idle EXCEPT !.op = "done"] \in Call
  BY <1>3 DEF Call
<1>5. \A d \in Docs : \A r \in Nat : At(d, r) \in Copy
  BY DEF At, Copy
<1>6. \A c \in Copy : Good(c) \in Answer
  BY <1>2 DEF Good, Answer
<1>7. \A l \in [Docs -> Revision] : Listed(l) \in Answer
  BY <1>2 DEF Listed, Answer
<1>8. \A k \in {"conflict", "error"} : Refused(k) \in Answer
  BY <1>2 DEF Refused, Answer
<1> QED BY <1>1, <1>2, <1>3, <1>4, <1>5, <1>6, <1>7, <1>8

\* What is true of the copies and calls of a page, taken from one typed state.
LEMMA Parts ==
  ASSUME TypeOK, NEW t \in Calls
  PROVE  /\ call[t] \in Call /\ call[t].doc \in Docs \cup {NoDoc}
         /\ call[t].at \in Copy /\ call[t].got \in Copy /\ call[t].ans \in Answer
         /\ call[t].ans.copy \in Copy /\ call[t].ans.list \in [Docs -> Revision]
         /\ call[t].dg \in Nat /\ call[t].mg \in Nat /\ call[t].flag \in BOOLEAN
         /\ view.doc \in Docs \cup {NoDoc} /\ view.rev \in Nat
<1>1. call[t] \in Call
  BY DEF TypeOK
<1> QED BY <1>1 DEF Call, Answer, TypeOK, Copy

\* Each way a call goes on keeps the calls' shape.
LEMMA Goings ==
  ASSUME TypeOK, NEW t \in Calls
  PROVE  /\ \A c \in Call : Become(t, c) => call' \in [Calls -> Call]
         /\ \A k \in Requests : Await(t, k) \/ Hold(t, k) => call' \in [Calls -> Call]
         /\ End(t) => call' \in [Calls -> Call]
         /\ \A a \in Answer : Answered(t, a) => call' \in [Calls -> Call]
<1>1. call \in [Calls -> Call] /\ call[t] \in Call
  BY DEF TypeOK
<1>2. \A c \in Call : Become(t, c) => call' \in [Calls -> Call]
  BY <1>1 DEF Become
<1>3. \A k \in Requests : [call[t] EXCEPT !.ask = k, !.ans = Waiting] \in Call
  BY <1>1, Shapes DEF Call
<1>4. \A k \in Requests :
        [call[t] EXCEPT !.ask = k, !.ans = Waiting, !.got = call[t].ans.copy] \in Call
  BY <1>1, Shapes, Parts DEF Call
<1>5. \A a \in Answer : [call[t] EXCEPT !.ans = a] \in Call
  BY <1>1 DEF Call
<1>6. \A a \in Answer : Answered(t, a) => call' \in [Calls -> Call]
  BY <1>1, <1>5 DEF Answered
<1> QED BY <1>2, <1>3, <1>4, <1>6, Shapes DEF Await, Hold, End

LEMMA Beginnings ==
  ASSUME TypeOK, dGen' \in Nat, mGen' \in Nat,
         NEW op \in {"load", "create", "import", "cad", "open", "delete", "move", "edit",
                     "step", "check", "refresh", "grid", "rename", "draw", "plan", "auto",
                     "drag"},
         NEW k \in Requests, NEW d \in Docs \cup {NoDoc}
  PROVE  Begin(op, k, d) \in Call
BY Shapes DEF Begin, Call, TypeOK

LEMMA Uis ==
  ASSUME TypeOK, NEW t \in Calls, NEW s \in {"settled", "checking", "attention"}
  PROVE  /\ Sync(s) => ui' \in Ui
         /\ Loaded(s) => ui' \in Ui
         /\ Mutated(s) => ui' \in Ui
         /\ Loading => ui' \in Ui
         /\ Mutating => ui' \in Ui
         /\ Return(t, s) => ui' \in Ui
         /\ Settle(t, s) => ui' \in Ui
BY DEF TypeOK, Ui, Sync, Loaded, Mutated, Loading, Mutating, Return, Settle

LEMMA Amendments ==
  ASSUME NEW c \in Call
  PROVE  /\ \A b \in BOOLEAN : [c EXCEPT !.flag = b] \in Call
         /\ \A x \in Copy : [c EXCEPT !.at = x] \in Call
         /\ \A d \in Docs : [c EXCEPT !.ask = "get", !.ans = Waiting, !.doc = d] \in Call
BY Shapes DEF Call, Requests

LEMMA Refreshing ==
  ASSUME TypeOK, NEW t \in Calls, dGen' \in Nat, mGen' \in Nat, NEW b \in BOOLEAN,
         BeginRefresh(t, b)
  PROVE  call' \in [Calls -> Call] /\ ui' \in Ui
<1>1. view.doc \in Docs \cup {NoDoc} /\ "get" \in Requests
  BY Parts DEF Requests
<1>2. Begin("refresh", "get", view.doc) \in Call
  BY <1>1, Beginnings
<1>3. [Begin("refresh", "get", view.doc) EXCEPT !.flag = b] \in Call
  BY <1>2, Amendments
<1> QED BY <1>3, Goings, Uis DEF BeginRefresh

LEMMA Opening ==
  ASSUME TypeOK, NEW t \in Calls, NEW d \in Docs \cup {NoDoc}, BeginOpen(t, d)
  PROVE  call' \in [Calls -> Call] /\ ui' \in Ui /\ view' \in Copy
         /\ dGen' \in Nat /\ mGen' \in Nat
<1>1. dGen' \in Nat /\ mGen' \in Nat
  BY DEF BeginOpen, NextDocument, TypeOK
<1>2. Begin("open", "get", d) \in Call
  BY <1>1, Beginnings DEF Requests
<1>3. ui' \in Ui
  BY DEF BeginOpen, TypeOK, Ui
<1>4. view' \in Copy /\ Become(t, Begin("open", "get", d))
  BY DEF BeginOpen, TypeOK
<1> QED BY <1>1, <1>2, <1>3, <1>4, Goings

\* What a step of the page leaves typed.
PageTyped ==
  /\ view' \in Copy /\ ui' \in Ui /\ dGen' \in Nat /\ mGen' \in Nat
  /\ call' \in [Calls -> Call]

LEMMA OpenTyped ==
  ASSUME TypeOK, NEW t \in Calls, OpenSteps(t)
  PROVE  PageTyped
<1> USE TypeOK DEF PageTyped
<1>1. view \in Copy /\ ui \in Ui /\ dGen \in Nat /\ mGen \in Nat /\ call \in [Calls -> Call]
  BY DEF TypeOK
<1>2. CASE Open(t)
  BY <1>1, <1>2, Opening DEF Open
<1>3. CASE OpenRead(t)
  BY <1>1, <1>3, Shapes, Parts, Goings, Beginnings, Uis
  DEF OpenRead, SameGens, Drop, Requests
<1>4. CASE OpenListed(t)
  BY <1>1, <1>4, Shapes, Parts, Goings, Beginnings, Uis
  DEF OpenListed, SameGens, Drop, Requests
<1>5. CASE OpenFailed(t)
  BY <1>1, <1>5, Shapes, Parts, Goings, Beginnings, Uis
  DEF OpenFailed, SameGens, Drop, Requests
<1> QED BY <1>2, <1>3, <1>4, <1>5 DEF OpenSteps

LEMMA CreateTyped ==
  ASSUME TypeOK, NEW t \in Calls, CreateSteps(t)
  PROVE  PageTyped
<1> USE TypeOK DEF PageTyped
<1>1. view \in Copy /\ ui \in Ui /\ dGen \in Nat /\ mGen \in Nat /\ call \in [Calls -> Call]
  BY DEF TypeOK
<1>2. CASE Load(t)
  BY <1>1, <1>2, Shapes, Parts, Goings, Beginnings, Uis
  DEF Load, SameGens, Drop, Requests
<1>3. CASE LoadChosen(t)
  <2>1. CASE Await(t, "create")
    BY <1>1, <1>3, <2>1, Goings DEF LoadChosen, SameGens, Requests
  <2>2. ASSUME NEW d \in Docs, Become(t, [call[t] EXCEPT !.ask = "get", !.ans = Waiting, !.doc = d])
        PROVE  PageTyped
    BY <1>1, <1>3, <2>2, Goings, Amendments, Parts DEF LoadChosen, SameGens
  <2> QED BY <1>3, <2>1, <2>2 DEF LoadChosen
<1>4. CASE LoadRead(t)
  BY <1>1, <1>4, Shapes, Parts, Goings, Beginnings, Uis
  DEF LoadRead, SameGens, Drop, Requests
<1>5. CASE Create(t)
  BY <1>1, <1>5, Shapes, Parts, Goings, Beginnings, Uis
  DEF Create, SameGens, Drop, Requests
<1>6. CASE Import(t)
  <2>1. dGen' \in Nat /\ mGen' \in Nat /\ view' \in Copy
    BY <1>1, <1>6 DEF Import, SameGens
  <2>2. ui' \in Ui
    BY <1>1, <1>6 DEF Import, Ui
  <2>3. PICK op \in {"import", "cad"} : Become(t, Begin(op, "create", NoDoc))
    BY <1>6 DEF Import
  <2>4. Begin(op, "create", NoDoc) \in Call
    BY <2>1, Beginnings DEF Requests
  <2> QED BY <2>1, <2>2, <2>3, <2>4, Goings
<1>7. CASE Created(t)
  BY <1>1, <1>7, Shapes, Parts, Goings, Beginnings, Uis
  DEF Created, SameGens, Drop, Requests
<1>8. CASE CreatedListed(t)
  <2>1. Settle(t, "settled") /\ view' \in Copy
    BY <1>1, <1>8, Parts DEF CreatedListed
  <2>2. ui' \in Ui
    BY <2>1, Uis
  <2> QED BY <1>1, <2>1, <2>2, Goings DEF Settle, SameGens
<1>9. CASE CreateFailed(t)
  <2>1. Settle(t, "attention") /\ view' \in Copy
    BY <1>1, <1>9, Parts DEF CreateFailed
  <2>2. ui' \in Ui
    BY <2>1, Uis
  <2> QED BY <1>1, <2>1, <2>2, Goings DEF Settle, SameGens
<1>10. CASE CadListed(t)
  <2>1. call[t].got.doc \in Docs \cup {NoDoc}
    BY Parts DEF Copy
  <2> QED BY <1>10, <2>1, Opening DEF CadListed
<1>11. CASE CadFailed(t)
  <2>1. ui' \in Ui
    BY <1>1, <1>11 DEF CadFailed, Ui
  <2> QED BY <1>1, <1>11, <2>1, Goings DEF CadFailed, SameGens
<1> QED BY <1>2, <1>3, <1>4, <1>5, <1>6, <1>7, <1>8, <1>9, <1>10, <1>11 DEF CreateSteps

LEMMA TreeTyped ==
  ASSUME TypeOK, NEW t \in Calls, TreeSteps(t)
  PROVE  PageTyped
<1> USE TypeOK DEF PageTyped
<1>1. view \in Copy /\ ui \in Ui /\ dGen \in Nat /\ mGen \in Nat /\ call \in [Calls -> Call]
  BY DEF TypeOK
<1>2. CASE Delete(t)
  BY <1>1, <1>2, Shapes, Parts, Goings, Beginnings, Uis
  DEF Delete, SameGens, Drop, NextDocument, Requests
<1>3. CASE Deleted(t)
  BY <1>1, <1>3, Shapes, Parts, Goings, Beginnings, Uis
  DEF Deleted, SameGens, Drop, Kept, Requests
<1>4. CASE DeletedListed(t)
  <2>1. CASE Drop(t)
    BY <1>1, <1>4, <2>1, Goings DEF DeletedListed, SameGens, Drop
  <2>2. CASE view' \in {NoCopy, Kept(t)} /\ Loaded("settled") /\ End(t)
    BY <1>1, <1>4, <2>2, Shapes, Parts, Goings, Uis DEF DeletedListed, SameGens, Kept
  <2>3. ASSUME NEW d \in Docs, UNCHANGED <<view, ui>>,
               Become(t, [call[t] EXCEPT !.ask = "get", !.ans = Waiting, !.doc = d])
        PROVE  PageTyped
    BY <1>1, <1>4, <2>3, Goings, Amendments, Parts DEF DeletedListed, SameGens
  <2> QED BY <1>4, <2>1, <2>2, <2>3 DEF DeletedListed
<1>5. CASE DeletedOpened(t)
  BY <1>1, <1>5, Shapes, Parts, Goings, Beginnings, Uis
  DEF DeletedOpened, SameGens, Drop, Requests
<1>6. CASE DeleteFailed(t)
  BY <1>1, <1>6, Shapes, Parts, Goings, Beginnings, Uis
  DEF DeleteFailed, SameGens, Drop, Requests
<1>7. CASE Move(t)
  <2>1. dGen' \in Nat /\ mGen' \in Nat /\ view' \in Copy /\ ui' \in Ui
    BY <1>1, <1>7 DEF Move, SameGens
  <2>2. PICK d \in Docs : \E r \in 0..server[d] :
          Become(t, [Begin("move", "commit", d) EXCEPT !.at = At(d, r)])
    BY <1>7 DEF Move
  <2>3. PICK r \in 0..server[d] :
          Become(t, [Begin("move", "commit", d) EXCEPT !.at = At(d, r)])
    BY <2>2
  <2>4. Begin("move", "commit", d) \in Call /\ At(d, r) \in Copy
    BY <2>1, Beginnings, Shapes DEF Requests
  <2> QED BY <2>1, <2>3, <2>4, Amendments, Goings
<1>8. CASE Moved(t)
  BY <1>1, <1>8, Shapes, Parts, Goings, Beginnings, Uis
  DEF Moved, SameGens, Drop, Requests
<1>9. CASE MovedListed(t)
  BY <1>1, <1>9, Shapes, Parts, Goings, Beginnings, Uis
  DEF MovedListed, SameGens, Drop, Requests
<1>10. CASE MoveFailed(t)
  BY <1>1, <1>10, Shapes, Parts, Goings, Beginnings, Uis
  DEF MoveFailed, SameGens, Drop, Requests
<1> QED BY <1>2, <1>3, <1>4, <1>5, <1>6, <1>7, <1>8, <1>9, <1>10 DEF TreeSteps

LEMMA EditTyped ==
  ASSUME TypeOK, NEW t \in Calls, EditSteps(t)
  PROVE  PageTyped
<1> USE TypeOK DEF PageTyped
<1>1. view \in Copy /\ ui \in Ui /\ dGen \in Nat /\ mGen \in Nat /\ call \in [Calls -> Call]
  BY DEF TypeOK
<1>2. CASE Edit(t)
  BY <1>1, <1>2, Shapes, Parts, Goings, Beginnings, Uis
  DEF Edit, SameGens, Drop, NextMutation, Shown, Requests
<1>3. CASE Edited(t)
  BY <1>1, <1>3, Shapes, Parts, Goings, Beginnings, Uis
  DEF Edited, SameGens, Drop, Requests
<1>4. CASE EditListed(t)
  BY <1>1, <1>4, Shapes, Parts, Goings, Beginnings, Uis
  DEF EditListed, SameGens, Drop, Apply, Requests
<1>5. CASE Stepped(t)
  BY <1>1, <1>5, Shapes, Parts, Goings, Beginnings, Uis
  DEF Stepped, SameGens, Drop, Apply, Requests
<1>6. CASE EditFailed(t)
  BY <1>1, <1>6, Shapes, Parts, Goings, Beginnings, Uis
  DEF EditFailed, SameGens, Drop, Requests
<1>7. CASE EditReloaded(t)
  BY <1>1, <1>7, Shapes, Parts, Goings, Beginnings, Uis
  DEF EditReloaded, SameGens, Drop, Requests
<1>8. CASE StepFailed(t)
  BY <1>1, <1>8, Shapes, Parts, Goings, Beginnings, Uis
  DEF StepFailed, SameGens, Drop, Requests
<1> QED BY <1>2, <1>3, <1>4, <1>5, <1>6, <1>7, <1>8 DEF EditSteps

LEMMA PollTyped ==
  ASSUME TypeOK, NEW t \in Calls, PollSteps(t)
  PROVE  PageTyped
<1> USE TypeOK DEF PageTyped
<1>1. view \in Copy /\ ui \in Ui /\ dGen \in Nat /\ mGen \in Nat /\ call \in [Calls -> Call]
  BY DEF TypeOK
<1>2. CASE Checked(t)
  <2>1. CASE BeginRefresh(t, FALSE)
    BY <1>1, <1>2, <2>1, Refreshing DEF Checked, SameGens
  <2>2. CASE (Sync("settled") \/ Sync("attention")) /\ End(t)
    BY <1>1, <1>2, <2>2, Uis, Goings DEF Checked, SameGens
  <2> QED BY <1>2, <2>1, <2>2 DEF Checked
<1>3. CASE CheckFailed(t)
  BY <1>1, <1>3, Shapes, Parts, Goings, Beginnings, Uis
  DEF CheckFailed, SameGens, Drop, Requests
<1>4. CASE Refreshed(t)
  <2>1. ui.sync \in {"settled", "checking", "attention"}
    BY <1>1 DEF Ui
  <2>2. ASSUME NEW s \in {"settled", "checking", "attention"}, Return(t, s)
        PROVE  ui' \in Ui /\ call' \in [Calls -> Call]
    BY <2>2, Uis, Goings DEF Return
  <2> QED BY <1>1, <1>4, <2>1, <2>2, Parts, Goings DEF Refreshed, SameGens, Requests
<1>5. CASE RefreshListed(t)
  <2>1. ui.sync \in {"settled", "checking", "attention"}
    BY <1>1 DEF Ui
  <2>2. ASSUME NEW s \in {"settled", "checking", "attention"}, Return(t, s)
        PROVE  ui' \in Ui /\ call' \in [Calls -> Call]
    BY <2>2, Uis, Goings DEF Return
  <2> QED BY <1>1, <1>5, <2>1, <2>2, Parts, Goings DEF RefreshListed, SameGens, Requests
<1>6. CASE RefreshFailed(t)
  <2>1. ui.sync \in {"settled", "checking", "attention"}
    BY <1>1 DEF Ui
  <2>2. ASSUME NEW s \in {"settled", "checking", "attention"}, Return(t, s)
        PROVE  ui' \in Ui /\ call' \in [Calls -> Call]
    BY <2>2, Uis, Goings DEF Return
  <2> QED BY <1>1, <1>6, <2>1, <2>2, Parts, Goings DEF RefreshFailed, SameGens, Requests
<1> QED BY <1>2, <1>3, <1>4, <1>5, <1>6 DEF PollSteps

LEMMA PanelTyped ==
  ASSUME TypeOK, NEW t \in Calls, PanelSteps(t)
  PROVE  PageTyped
<1> USE TypeOK DEF PageTyped
<1>1. view \in Copy /\ ui \in Ui /\ dGen \in Nat /\ mGen \in Nat /\ call \in [Calls -> Call]
  BY DEF TypeOK
<1>2. CASE Grid(t)
  BY <1>1, <1>2, Shapes, Parts, Goings, Beginnings, Uis
  DEF Grid, SameGens, Drop, Requests
<1>3. CASE Gridded(t)
  BY <1>1, <1>3, Shapes, Parts, Goings, Beginnings, Uis
  DEF Gridded, SameGens, Drop, Requests
<1>4. CASE GridFailed(t)
  <2>1. CASE BeginRefresh(t, TRUE)
    BY <1>1, <1>4, <2>1, Refreshing DEF GridFailed, SameGens
  <2>2. ui.sync \in {"settled", "checking", "attention"}
    BY <1>1 DEF Ui
  <2>3. ASSUME NEW s \in {"settled", "checking", "attention"}, Mutated(s), End(t)
        PROVE  PageTyped
    BY <1>1, <1>4, <2>3, Uis, Goings DEF GridFailed, SameGens
  <2> QED BY <1>4, <2>1, <2>2, <2>3 DEF GridFailed
<1>5. CASE Commit(t)
  BY <1>1, <1>5, Shapes, Parts, Goings, Beginnings, Uis
  DEF Commit, SameGens, Drop, Requests
<1>6. CASE Renamed(t)
  <2>1. CASE Drop(t)
    BY <1>1, <1>6, <2>1, Goings DEF Renamed, SameGens, Drop
  <2>2. CASE ~Drop(t)
    <3>1. view' \in Copy /\ Sync("checking") /\ dGen' \in Nat /\ mGen' \in Nat
      BY <1>1, <1>6, <2>2, Parts DEF Renamed, SameGens
    <3>2. Begin("refresh", "get", view.doc) \in Call
      BY <3>1, Parts, Beginnings DEF Requests
    <3>3. [Begin("refresh", "get", view.doc) EXCEPT !.at = call[t].ans.copy] \in Call
      BY <3>2, Parts, Amendments
    <3> QED BY <3>1, <3>3, <1>6, <2>2, Goings, Uis DEF Renamed
  <2> QED BY <2>1, <2>2
<1>7. CASE Planned(t)
  BY <1>1, <1>7, Shapes, Parts, Goings, Beginnings, Uis
  DEF Planned, SameGens, Drop, Requests
<1>8. CASE Drawn(t)
  BY <1>1, <1>8, Shapes, Parts, Goings, Beginnings, Uis
  DEF Drawn, SameGens, Drop, Requests
<1>9. CASE DrawnRead(t)
  BY <1>1, <1>9, Shapes, Parts, Goings, Beginnings, Uis
  DEF DrawnRead, SameGens, Drop, Requests
<1>10. CASE PlanListed(t)
  BY <1>1, <1>10, Shapes, Parts, Goings, Beginnings, Uis
  DEF PlanListed, SameGens, Drop, Requests
<1>11. CASE AutoListed(t)
  BY <1>1, <1>11, Shapes, Parts, Goings, Beginnings, Uis
  DEF AutoListed, SameGens, Drop, Requests
<1>12. CASE PanelFailed(t)
  BY <1>1, <1>12, Shapes, Parts, Goings, Beginnings, Uis
  DEF PanelFailed, SameGens, Drop, Requests
<1>13. CASE Drag(t)
  BY <1>1, <1>13, Shapes, Parts, Goings, Beginnings, Uis
  DEF Drag, SameGens, Drop, Requests
<1>14. CASE DragEnd(t)
  BY <1>1, <1>14, Shapes, Parts, Goings, Beginnings, Uis
  DEF DragEnd, SameGens, Drop, Requests
<1> QED BY <1>2, <1>3, <1>4, <1>5, <1>6, <1>7, <1>8, <1>9, <1>10, <1>11, <1>12, <1>13, <1>14 DEF PanelSteps

-------------------------------------------------------------------------------
(* What the copies and the calls of a page are at, beyond their types.     *)

\* The server has, or had, what the page holds.
Known(c) == c.doc = NoDoc \/ server[c.doc] = Gone \/ c.rev <= server[c.doc]

\* Calls that are about a document name one, and an edit holds the copy that it
\* began on and, once saved, the next one.
Sound(c) ==
  /\ c.op \in {"none", "done"} => c.ask = "none"
  /\ c.op \in {"load", "create", "import", "cad"} =>
       c.ask \in {"list", "create"} \/ (c.op = "load" /\ c.ask = "get" /\ c.doc \in Docs)
  /\ c.op \notin {"none", "done", "load", "create", "import", "cad"} => c.doc \in Docs
  /\ c.op = "cad" =>
       /\ c.ask = "create" /\ c.ans.kind = "ok" => c.ans.copy.doc \in Docs
       /\ c.ask = "list" => c.got.doc \in Docs
  /\ c.op \in {"edit", "step", "rename"} => c.at.doc = c.doc
  /\ c.op = "step" => c.ask = "commit"
  /\ c.op = "edit" => c.ask \in {"commit", "list", "get"}
  /\ c.op \in {"edit", "step"} /\ c.ask = "commit" /\ c.ans.kind = "ok" =>
       c.ans.copy = At(c.at.doc, c.at.rev + 1)
  /\ c.op = "edit" /\ c.ask = "list" => c.got = At(c.at.doc, c.at.rev + 1)

Fits(c) ==
  Sound(c) /\ Known(c.at) /\ Known(c.got) /\ Known(c.ans.copy) /\ c.dg <= dGen

\* The inductive invariant.
IInv == TypeOK /\ Known(view) /\ \A t \in Calls : Fits(call[t])

\* The fields of a call after each of the ways it goes on.
LEMMA Fields ==
  ASSUME TypeOK, NEW t \in Calls
  PROVE  /\ \A c : Become(t, c) => call'[t] = c
         /\ \A k \in Requests : Await(t, k) \/ Hold(t, k) =>
              /\ call'[t].op = call[t].op /\ call'[t].ask = k /\ call'[t].ans = Waiting
              /\ call'[t].doc = call[t].doc /\ call'[t].at = call[t].at
              /\ call'[t].dg = call[t].dg
              /\ Await(t, k) => call'[t].got = call[t].got
              /\ Hold(t, k) => call'[t].got = call[t].ans.copy
         /\ End(t) => call'[t] = Idle \/ call'[t] = [Idle EXCEPT !.op = "done"]
         /\ \A a \in Answer : Answered(t, a) => call'[t] = [call[t] EXCEPT !.ans = a]
<1>1. \A c : Become(t, c) => call'[t] = c
  BY DEF Become, TypeOK
<1>2. \A a \in Answer : Answered(t, a) => call'[t] = [call[t] EXCEPT !.ans = a]
  BY DEF Answered, TypeOK
<1>3. End(t) => call'[t] = Idle \/ call'[t] = [Idle EXCEPT !.op = "done"]
  BY <1>1 DEF End
<1>4. call[t] \in Call
  BY DEF TypeOK
<1>5. ASSUME NEW k \in Requests, Await(t, k)
      PROVE  /\ call'[t].op = call[t].op /\ call'[t].ask = k /\ call'[t].ans = Waiting
             /\ call'[t].doc = call[t].doc /\ call'[t].at = call[t].at
             /\ call'[t].dg = call[t].dg /\ call'[t].got = call[t].got
  <2>1. call'[t] = [call[t] EXCEPT !.ask = k, !.ans = Waiting]
    BY <1>1, <1>5 DEF Await
  <2> QED BY <1>4, <2>1 DEF Call
<1>6. ASSUME NEW k \in Requests, Hold(t, k)
      PROVE  /\ call'[t].op = call[t].op /\ call'[t].ask = k /\ call'[t].ans = Waiting
             /\ call'[t].doc = call[t].doc /\ call'[t].at = call[t].at
             /\ call'[t].dg = call[t].dg /\ call'[t].got = call[t].ans.copy
  <2>1. call'[t] = [call[t] EXCEPT !.ask = k, !.ans = Waiting, !.got = call[t].ans.copy]
    BY <1>1, <1>6 DEF Hold
  <2> QED BY <1>4, <2>1 DEF Call
<1> QED BY <1>1, <1>2, <1>3, <1>5, <1>6

\* A step of one call leaves the others alone.
Alone(t) == \A u \in Calls \ {t} : call'[u] = call[u]

LEMMA AloneLemma ==
  ASSUME TypeOK, NEW t \in Calls
  PROVE  /\ \A c : Become(t, c) => Alone(t)
         /\ \A k : Await(t, k) \/ Hold(t, k) => Alone(t)
         /\ End(t) => Alone(t)
         /\ \A a : Answered(t, a) => Alone(t)
<1>1. \A c : Become(t, c) => Alone(t)
  BY DEF Become, TypeOK, Alone
<1>2. \A a : Answered(t, a) => Alone(t)
  BY DEF Answered, TypeOK, Alone
<1> QED BY <1>1, <1>2 DEF Await, Hold, End

\* What a step of the page leaves: the other calls as they were, its own fitting.
CallFits(t) == dGen' \in Nat /\ dGen' >= dGen /\ Fits(call[t])' /\ Alone(t)

LEMMA Ended ==
  ASSUME IInv, NEW t \in Calls, End(t), SameGens
  PROVE  CallFits(t)
<1>1. TypeOK /\ dGen \in Nat /\ dGen' = dGen
  BY DEF IInv, TypeOK, SameGens
<1>2. call'[t] = Idle \/ call'[t] = [Idle EXCEPT !.op = "done"]
  BY <1>1, Fields
<1>3. Fits(call[t])'
  BY <1>1, <1>2 DEF Fits, Sound, Known, Idle, NoCopy, Waiting
<1> QED BY <1>1, <1>3, AloneLemma DEF CallFits

LEMMA WentOn ==
  ASSUME IInv, NEW t \in Calls, NEW k \in Requests, Await(t, k) \/ Hold(t, k), server' = server,
         SameGens, call[t].op \notin {"none", "done", "step", "cad", "edit"},
         call[t].op \in {"load", "create", "import"} => k \in {"list", "create"}
  PROVE  CallFits(t)
<1>1. TypeOK /\ Fits(call[t]) /\ dGen \in Nat /\ dGen' = dGen /\ call[t].dg \in Nat
  BY Parts DEF IInv, TypeOK, SameGens
<1>2. /\ call'[t].op = call[t].op /\ call'[t].ask = k /\ call'[t].ans = Waiting
      /\ call'[t].doc = call[t].doc /\ call'[t].at = call[t].at /\ call'[t].dg = call[t].dg
      /\ call'[t].got \in {call[t].got, call[t].ans.copy}
  BY <1>1, Fields
<1>3. Known(call[t].at)' /\ Known(call[t].got)' /\ Known(call[t].ans.copy)'
  BY <1>1, <1>2 DEF Fits, Known, Waiting, NoCopy
<1>4. Sound(call[t])'
  BY <1>1, <1>2 DEF Fits, Sound, Waiting
<1> QED BY <1>1, <1>2, <1>3, <1>4, AloneLemma DEF Fits, CallFits

\* The document a call has chosen to read.
LEMMA Chose ==
  ASSUME IInv, NEW t \in Calls, NEW d \in Docs, server' = server, SameGens,
         call[t].op \in {"load", "delete"},
         Become(t, [call[t] EXCEPT !.ask = "get", !.ans = Waiting, !.doc = d])
  PROVE  CallFits(t)
<1>1. TypeOK /\ Fits(call[t]) /\ dGen \in Nat /\ dGen' = dGen
  BY DEF IInv, TypeOK, SameGens
<1>2. /\ call'[t].op = call[t].op /\ call'[t].ask = "get" /\ call'[t].ans = Waiting
      /\ call'[t].doc = d /\ call'[t].at = call[t].at /\ call'[t].dg = call[t].dg
      /\ call'[t].got = call[t].got
  <2>1. call'[t] = [call[t] EXCEPT !.ask = "get", !.ans = Waiting, !.doc = d]
    BY <1>1, Fields
  <2> QED BY <1>1, <2>1, Parts DEF Call
<1>3. Known(call[t].at)' /\ Known(call[t].got)' /\ Known(call[t].ans.copy)'
  BY <1>1, <1>2 DEF Fits, Known, Waiting, NoCopy
<1>4. Sound(call[t])'
  BY <1>1, <1>2 DEF Fits, Sound, Waiting
<1> QED BY <1>1, <1>2, <1>3, <1>4, AloneLemma DEF Fits, CallFits

\* A call that begins, on the copy shown or on another that the server had.
LEMMA Started ==
  ASSUME IInv, NEW t \in Calls, NEW c, Become(t, c), server' = server, SameGens \/ NextDocument \/ NextMutation,
         Known(c.at), c.got = NoCopy, c.ans = Waiting, c.dg = dGen', Sound(c)
  PROVE  CallFits(t)
<1>1. TypeOK /\ dGen \in Nat /\ dGen' \in Nat /\ dGen' >= dGen
  BY DEF IInv, TypeOK, SameGens, NextDocument, NextMutation
<1>2. call'[t] = c
  BY <1>1, Fields
<1>3. Known(call[t].at)' /\ Known(call[t].got)' /\ Known(call[t].ans.copy)'
  BY <1>2 DEF Known, NoCopy, Waiting
<1>4. Sound(call[t])'
  BY <1>2 DEF Sound
<1> QED BY <1>1, <1>2, <1>3, <1>4, AloneLemma DEF Fits, CallFits

LEMMA Begun ==
  ASSUME NEW op, NEW k, NEW d
  PROVE  /\ Begin(op, k, d).op = op /\ Begin(op, k, d).ask = k /\ Begin(op, k, d).doc = d
         /\ Begin(op, k, d).at = view /\ Begin(op, k, d).got = NoCopy
         /\ Begin(op, k, d).ans = Waiting /\ Begin(op, k, d).dg = dGen'
BY DEF Begin, Idle

LEMMA StartedHere ==
  ASSUME IInv, NEW t \in Calls, NEW op, NEW k, NEW d, Become(t, Begin(op, k, d)),
         server' = server, SameGens \/ NextDocument \/ NextMutation, Sound(Begin(op, k, d))
  PROVE  CallFits(t)
<1>1. Known(view)
  BY DEF IInv
<1> QED BY <1>1, Begun, Started

LEMMA RefreshBegun ==
  ASSUME IInv, NEW t \in Calls, NEW b, BeginRefresh(t, b), server' = server, SameGens,
         view.doc \in Docs
  PROVE  CallFits(t)
<1> DEFINE c == Begin("refresh", "get", view.doc)
           e == [c EXCEPT !.flag = b]
<1>1. Become(t, e) /\ Known(view)
  BY DEF BeginRefresh, IInv
<1>2. e.at = view /\ e.got = NoCopy /\ e.ans = Waiting /\ e.dg = dGen'
  BY DEF Begin, Idle
<1>3. Sound(e)
  BY DEF Begin, Idle, Sound, Waiting
<1> HIDE DEF e
<1> QED BY <1>1, <1>2, <1>3, Started

PageFits(t) == Known(view)' /\ CallFits(t)

LEMMA OpenFits ==
  ASSUME IInv, NEW t \in Calls, OpenSteps(t), server' = server
  PROVE  PageFits(t)
<1> USE IInv
<1>1. TypeOK /\ Fits(call[t]) /\ Known(view) /\ dGen \in Nat /\ view \in Copy
  BY DEF IInv, TypeOK
<1>2. CASE Open(t)
  <2>1. PICK d \in Docs : BeginOpen(t, d)
    BY <1>2 DEF Open
  <2>2. Sound(Begin("open", "get", d))
    BY DEF Begin, Idle, Sound, Waiting
  <2>3. CallFits(t)
    BY <2>1, <2>2, StartedHere DEF BeginOpen
  <2> QED BY <1>1, <2>1, <2>3 DEF PageFits, BeginOpen, Known
<1>3. CASE OpenRead(t)
  <2>1. Known(view)'
    BY <1>1, <1>3 DEF OpenRead, Drop, Fits, Known
  <2>2. CallFits(t)
    BY <1>3, Ended, WentOn DEF OpenRead, Drop, Ok, Bad, Requests
  <2> QED BY <2>1, <2>2 DEF PageFits
<1>4. CASE OpenListed(t)
  <2>1. Known(view)'
    BY <1>1, <1>4 DEF OpenListed, Drop, Fits, Known
  <2>2. CallFits(t)
    BY <1>4, Ended, WentOn DEF OpenListed, Drop, Ok, Bad, Requests
  <2> QED BY <2>1, <2>2 DEF PageFits
<1>5. CASE OpenFailed(t)
  <2>1. Known(view)'
    BY <1>1, <1>5 DEF OpenFailed, Drop, Fits, Known
  <2>2. CallFits(t)
    BY <1>5, Ended, WentOn DEF OpenFailed, Drop, Ok, Bad, Requests
  <2> QED BY <2>1, <2>2 DEF PageFits
<1> QED BY <1>2, <1>3, <1>4, <1>5 DEF OpenSteps

LEMMA CreateFits ==
  ASSUME IInv, NEW t \in Calls, CreateSteps(t), server' = server
  PROVE  PageFits(t)
<1> USE IInv
<1>1. TypeOK /\ Fits(call[t]) /\ Known(view) /\ dGen \in Nat /\ view \in Copy
  BY DEF IInv, TypeOK
<1>2. CASE Load(t)
  <2>1. Sound(Begin("load", "list", NoDoc))
    BY DEF Begin, Idle, Sound, Waiting
  <2>2. CallFits(t)
    BY <1>2, <2>1, StartedHere DEF Load
  <2> QED BY <1>1, <1>2, <2>2 DEF PageFits, Load, Known
<1>3. CASE LoadChosen(t)
  <2>1. Known(view)' /\ SameGens /\ call[t].op = "load"
    BY <1>1, <1>3 DEF LoadChosen, Ok, Known
  <2>2. CASE Await(t, "create")
    <3>1. "create" \in Requests
      BY DEF Requests
    <3> QED BY <2>1, <2>2, <3>1, WentOn DEF PageFits
  <2>3. ASSUME NEW d \in Docs, Become(t, [call[t] EXCEPT !.ask = "get", !.ans = Waiting, !.doc = d])
        PROVE  PageFits(t)
    BY <2>1, <2>3, Chose DEF PageFits
  <2> QED BY <1>3, <2>2, <2>3 DEF LoadChosen
<1>4. CASE LoadRead(t)
  <2>1. Known(view)'
    BY <1>1, <1>4 DEF LoadRead, Drop, Fits, Known
  <2>2. CallFits(t)
    BY <1>4, Ended, WentOn DEF LoadRead, Drop, Ok, Bad, Requests
  <2> QED BY <2>1, <2>2 DEF PageFits
<1>5. CASE Create(t)
  <2>1. Sound(Begin("create", "create", NoDoc))
    BY DEF Begin, Idle, Sound, Waiting
  <2>2. CallFits(t)
    BY <1>5, <2>1, StartedHere DEF Create
  <2> QED BY <1>1, <1>5, <2>2 DEF PageFits, Create, Known
<1>6. CASE Import(t)
  <2>1. PICK op \in {"import", "cad"} : Become(t, Begin(op, "create", NoDoc))
    BY <1>6 DEF Import
  <2>2. Sound(Begin(op, "create", NoDoc))
    BY DEF Begin, Idle, Sound, Waiting
  <2>3. CallFits(t)
    BY <1>6, <2>1, <2>2, StartedHere DEF Import
  <2> QED BY <1>1, <1>6, <2>3 DEF PageFits, Import, Known
<1>7. CASE Created(t)
  <2>1. Hold(t, "list") /\ SameGens /\ "list" \in Requests
    BY <1>7 DEF Created, Requests
  <2>2. CASE call[t].op \in {"create", "import"}
    BY <1>1, <1>7, <2>1, <2>2, WentOn DEF Created, PageFits, Known
  <2>3. CASE call[t].op = "cad"
    <3>1. call[t].ask = "create" /\ call[t].ans.kind = "ok" /\ dGen' = dGen
      BY <1>7, <2>3 DEF Created, Ok, SameGens
    <3>2. /\ call'[t].op = "cad" /\ call'[t].ask = "list" /\ call'[t].ans = Waiting
          /\ call'[t].got = call[t].ans.copy /\ call'[t].at = call[t].at
          /\ call'[t].dg = call[t].dg
      BY <1>1, <2>1, <2>3, Fields
    <3>3. call[t].ans.copy.doc \in Docs
      BY <1>1, <2>3, <3>1 DEF Fits, Sound
    <3>4. Sound(call[t])'
      BY <3>2, <3>3 DEF Sound, Waiting
    <3>5. Known(call[t].at)' /\ Known(call[t].got)' /\ Known(call[t].ans.copy)'
      BY <1>1, <3>2 DEF Fits, Known, Waiting, NoCopy
    <3>6. Fits(call[t])'
      BY <1>1, <3>1, <3>2, <3>4, <3>5 DEF Fits
    <3>7. Known(view)'
      BY <1>1, <1>7 DEF Created, Known
    <3> QED BY <1>1, <2>1, <3>1, <3>6, <3>7, AloneLemma DEF PageFits, CallFits
  <2> QED BY <1>7, <2>2, <2>3 DEF Created, Ok
<1>8. CASE CreatedListed(t)
  <2>1. Known(view)'
    BY <1>1, <1>8 DEF CreatedListed, Drop, Settle, Fits, Known
  <2>2. CallFits(t)
    BY <1>8, Ended, WentOn DEF CreatedListed, Drop, Ok, Bad, Requests, Settle
  <2> QED BY <2>1, <2>2 DEF PageFits
<1>9. CASE CreateFailed(t)
  <2>1. Known(view)'
    BY <1>1, <1>9 DEF CreateFailed, Drop, Settle, Fits, Known
  <2>2. CallFits(t)
    BY <1>9, Ended, WentOn DEF CreateFailed, Drop, Ok, Bad, Requests, Settle
  <2> QED BY <2>1, <2>2 DEF PageFits
<1>10. CASE CadListed(t)
  <2>1. call[t].got.doc \in Docs
    BY <1>1, <1>10 DEF CadListed, Ok, Fits, Sound
  <2>2. Sound(Begin("open", "get", call[t].got.doc))
    BY <2>1 DEF Begin, Idle, Sound, Waiting
  <2>3. CallFits(t)
    BY <1>10, <2>2, StartedHere DEF CadListed, BeginOpen
  <2> QED BY <1>1, <1>10, <2>3 DEF PageFits, CadListed, BeginOpen, Known
<1>11. CASE CadFailed(t)
  <2>1. Known(view)'
    BY <1>1, <1>11 DEF CadFailed, Drop, Fits, Known
  <2>2. CallFits(t)
    BY <1>11, Ended, WentOn DEF CadFailed, Drop, Ok, Bad, Requests
  <2> QED BY <2>1, <2>2 DEF PageFits
<1> QED BY <1>2, <1>3, <1>4, <1>5, <1>6, <1>7, <1>8, <1>9, <1>10, <1>11 DEF CreateSteps

LEMMA TreeFits ==
  ASSUME IInv, NEW t \in Calls, TreeSteps(t), server' = server
  PROVE  PageFits(t)
<1> USE IInv
<1>1. TypeOK /\ Fits(call[t]) /\ Known(view) /\ dGen \in Nat /\ view \in Copy
  BY DEF IInv, TypeOK
<1>2. CASE Delete(t)
  <2>1. PICK d \in Docs : Become(t, Begin("delete", "delete", d))
    BY <1>2 DEF Delete
  <2>2. Sound(Begin("delete", "delete", d))
    BY DEF Begin, Idle, Sound, Waiting
  <2>3. CallFits(t)
    BY <1>2, <2>1, <2>2, StartedHere DEF Delete
  <2> QED BY <1>1, <1>2, <2>3 DEF PageFits, Delete, Known
<1>3. CASE Deleted(t)
  <2>1. Known(view)'
    BY <1>1, <1>3 DEF Deleted, Drop, Kept, NoCopy, Fits, Known
  <2>2. CallFits(t)
    BY <1>3, Ended, WentOn DEF Deleted, Drop, Ok, Bad, Requests
  <2> QED BY <2>1, <2>2 DEF PageFits
<1>4. CASE DeletedListed(t)
  <2>1. SameGens /\ call[t].op = "delete"
    BY <1>4 DEF DeletedListed, Ok
  <2>2. Known(view)'
    <3>1. view' \in {view, NoCopy, Kept(t)}
      BY <1>4 DEF DeletedListed, Drop
    <3>2. Known(NoCopy) /\ Known(Kept(t))
      BY <1>1 DEF Kept, Known, NoCopy, Fits
    <3> QED BY <1>1, <3>1, <3>2 DEF Known
  <2>3. CASE End(t)
    BY <2>1, <2>2, <2>3, Ended DEF PageFits
  <2>4. ASSUME NEW d \in Docs, Become(t, [call[t] EXCEPT !.ask = "get", !.ans = Waiting, !.doc = d])
        PROVE  PageFits(t)
    BY <2>1, <2>2, <2>4, Chose DEF PageFits
  <2> QED BY <1>4, <2>3, <2>4 DEF DeletedListed, Drop
<1>5. CASE DeletedOpened(t)
  <2>1. Known(view)'
    BY <1>1, <1>5 DEF DeletedOpened, Drop, Fits, Known
  <2>2. CallFits(t)
    BY <1>5, Ended, WentOn DEF DeletedOpened, Drop, Ok, Bad, Requests
  <2> QED BY <2>1, <2>2 DEF PageFits
<1>6. CASE DeleteFailed(t)
  <2>1. Known(view)'
    BY <1>1, <1>6 DEF DeleteFailed, Drop, Fits, Known
  <2>2. CallFits(t)
    BY <1>6, Ended, WentOn DEF DeleteFailed, Drop, Ok, Bad, Requests
  <2> QED BY <2>1, <2>2 DEF PageFits
<1>7. CASE Move(t)
  <2>1. PICK d \in Docs : \E r \in 0..server[d] :
          Become(t, [Begin("move", "commit", d) EXCEPT !.at = At(d, r)])
    BY <1>7 DEF Move
  <2>2. PICK r \in 0..server[d] : Become(t, [Begin("move", "commit", d) EXCEPT !.at = At(d, r)])
    BY <2>1
  <2> DEFINE c == [Begin("move", "commit", d) EXCEPT !.at = At(d, r)]
  <2>3. c.at = At(d, r) /\ c.got = NoCopy /\ c.ans = Waiting /\ c.dg = dGen'
    BY DEF Begin, Idle
  <2>4. Sound(c)
    BY DEF Begin, Idle, Sound, Waiting
  <2>5. Known(c.at)
    BY <2>3 DEF Known, At
  <2>6. Become(t, c) /\ SameGens /\ Known(view)'
    BY <1>1, <1>7, <2>2 DEF Move, Known
  <2> HIDE DEF c
  <2> QED BY <2>3, <2>4, <2>5, <2>6, Started DEF PageFits
<1>8. CASE Moved(t)
  <2>1. Known(view)'
    BY <1>1, <1>8 DEF Moved, Drop, Fits, Known
  <2>2. CallFits(t)
    BY <1>8, Ended, WentOn DEF Moved, Drop, Ok, Bad, Requests
  <2> QED BY <2>1, <2>2 DEF PageFits
<1>9. CASE MovedListed(t)
  <2>1. Known(view)'
    BY <1>1, <1>9 DEF MovedListed, Drop, Fits, Known
  <2>2. CallFits(t)
    BY <1>9, Ended, WentOn DEF MovedListed, Drop, Ok, Bad, Requests
  <2> QED BY <2>1, <2>2 DEF PageFits
<1>10. CASE MoveFailed(t)
  <2>1. Known(view)'
    BY <1>1, <1>10 DEF MoveFailed, Drop, Fits, Known
  <2>2. CallFits(t)
    BY <1>10, Ended, WentOn DEF MoveFailed, Drop, Ok, Bad, Requests
  <2> QED BY <2>1, <2>2 DEF PageFits
<1> QED BY <1>2, <1>3, <1>4, <1>5, <1>6, <1>7, <1>8, <1>9, <1>10 DEF TreeSteps

LEMMA EditFits ==
  ASSUME IInv, NEW t \in Calls, EditSteps(t), server' = server
  PROVE  PageFits(t)
<1> USE IInv
<1>1. TypeOK /\ Fits(call[t]) /\ Known(view) /\ dGen \in Nat /\ view \in Copy
  BY DEF IInv, TypeOK
<1>2. CASE Edit(t)
  <2>1. PICK op \in {"edit", "step"} : Become(t, Begin(op, "commit", view.doc))
    BY <1>2 DEF Edit
  <2>2. view.doc \in Docs
    BY <1>1, <1>2 DEF Edit, Shown, Copy
  <2>3. Sound(Begin(op, "commit", view.doc))
    BY <2>2 DEF Begin, Idle, Sound, Waiting
  <2>4. CallFits(t)
    BY <1>2, <2>1, <2>3, StartedHere DEF Edit
  <2> QED BY <1>1, <1>2, <2>4 DEF PageFits, Edit, Known
<1>3. CASE Edited(t)
  <2>1. /\ Hold(t, "list") /\ "list" \in Requests /\ call[t].op = "edit" /\ dGen' = dGen
        /\ call[t].ask = "commit" /\ call[t].ans.kind = "ok"
    BY <1>3 DEF Edited, Ok, SameGens, Requests
  <2>2. /\ call'[t].op = "edit" /\ call'[t].ask = "list" /\ call'[t].ans = Waiting
        /\ call'[t].got = call[t].ans.copy /\ call'[t].at = call[t].at
        /\ call'[t].doc = call[t].doc /\ call'[t].dg = call[t].dg
    BY <1>1, <2>1, Fields
  <2>3. Sound(call[t])'
    BY <1>1, <2>1, <2>2 DEF Fits, Sound, Waiting
  <2>4. Known(call[t].at)' /\ Known(call[t].got)' /\ Known(call[t].ans.copy)'
    BY <1>1, <2>2 DEF Fits, Known, Waiting, NoCopy
  <2>5. Fits(call[t])'
    BY <1>1, <2>1, <2>2, <2>3, <2>4 DEF Fits
  <2>6. Known(view)'
    BY <1>1, <1>3 DEF Edited, Known
  <2> QED BY <1>1, <2>1, <2>5, <2>6, AloneLemma DEF PageFits, CallFits
<1>4. CASE EditListed(t)
  <2>1. Known(view)'
    BY <1>1, <1>4 DEF EditListed, Drop, Apply, Fits, Known
  <2>2. CallFits(t)
    BY <1>4, Ended, WentOn DEF EditListed, Drop, Ok, Bad, Requests, Apply
  <2> QED BY <2>1, <2>2 DEF PageFits
<1>5. CASE Stepped(t)
  <2>1. Known(view)'
    BY <1>1, <1>5 DEF Stepped, Drop, Apply, Fits, Known
  <2>2. CallFits(t)
    BY <1>5, Ended, WentOn DEF Stepped, Drop, Ok, Bad, Requests, Apply
  <2> QED BY <2>1, <2>2 DEF PageFits
<1>6. CASE EditFailed(t)
  <2>1. SameGens /\ Known(view)' /\ dGen' = dGen /\ call[t].op = "edit"
    BY <1>1, <1>6 DEF EditFailed, Bad, Drop, Known, SameGens
  <2>2. CASE Await(t, "get")
    <3>1. /\ call'[t].op = "edit" /\ call'[t].ask = "get" /\ call'[t].ans = Waiting
          /\ call'[t].got = call[t].got /\ call'[t].at = call[t].at
          /\ call'[t].doc = call[t].doc /\ call'[t].dg = call[t].dg
      BY <1>1, <2>1, <2>2, Fields DEF Requests
    <3>2. Sound(call[t])'
      BY <1>1, <2>1, <3>1 DEF Fits, Sound, Waiting
    <3>3. Known(call[t].at)' /\ Known(call[t].got)' /\ Known(call[t].ans.copy)'
      BY <1>1, <3>1 DEF Fits, Known, Waiting, NoCopy
    <3>4. Fits(call[t])'
      BY <1>1, <2>1, <3>1, <3>2, <3>3 DEF Fits
    <3> QED BY <1>1, <2>1, <2>2, <3>4, AloneLemma DEF PageFits, CallFits
  <2>3. CASE End(t)
    BY <2>1, <2>3, Ended DEF PageFits
  <2> QED BY <1>6, <2>2, <2>3 DEF EditFailed, Drop
<1>7. CASE EditReloaded(t)
  <2>1. Known(view)'
    BY <1>1, <1>7 DEF EditReloaded, Drop, Fits, Known
  <2>2. CallFits(t)
    BY <1>7, Ended, WentOn DEF EditReloaded, Drop, Ok, Bad, Requests
  <2> QED BY <2>1, <2>2 DEF PageFits
<1>8. CASE StepFailed(t)
  <2>1. Known(view)'
    BY <1>1, <1>8 DEF StepFailed, Drop, Fits, Known
  <2>2. CallFits(t)
    BY <1>8, Ended, WentOn DEF StepFailed, Drop, Ok, Bad, Requests
  <2> QED BY <2>1, <2>2 DEF PageFits
<1> QED BY <1>2, <1>3, <1>4, <1>5, <1>6, <1>7, <1>8 DEF EditSteps

LEMMA CheckFits ==
  ASSUME IInv, NEW t \in Calls, PollSteps(t), server' = server
  PROVE  PageFits(t)
<1> USE IInv
<1>1. TypeOK /\ Fits(call[t]) /\ Known(view) /\ dGen \in Nat /\ view \in Copy
  BY DEF IInv, TypeOK
<1>2. CASE Checked(t)
  <2>1. SameGens /\ Known(view)'
    BY <1>1, <1>2 DEF Checked, Known
  <2>2. CASE BeginRefresh(t, FALSE) /\ view.doc = call[t].doc
    <3>1. call[t].doc \in Docs
      BY <1>1, <1>2 DEF Checked, Ok, Fits, Sound
    <3> QED BY <2>1, <2>2, <3>1, RefreshBegun DEF PageFits
  <2>3. CASE End(t)
    BY <2>1, <2>3, Ended DEF PageFits
  <2> QED BY <1>2, <2>2, <2>3 DEF Checked
<1>3. CASE CheckFailed(t)
  <2>1. Known(view)'
    BY <1>1, <1>3 DEF CheckFailed, Drop, Fits, Known
  <2>2. CallFits(t)
    BY <1>3, Ended, WentOn DEF CheckFailed, Drop, Ok, Bad, Requests
  <2> QED BY <2>1, <2>2 DEF PageFits
<1>4. CASE Refreshed(t)
  <2>1. Known(view)'
    BY <1>1, <1>4 DEF Refreshed, Drop, Fits, Known
  <2>2. CallFits(t)
    BY <1>4, Ended, WentOn DEF Refreshed, Drop, Ok, Bad, Requests, Return
  <2> QED BY <2>1, <2>2 DEF PageFits
<1>5. CASE RefreshListed(t)
  <2>1. Known(view)'
    BY <1>1, <1>5 DEF RefreshListed, Drop, Fits, Known
  <2>2. CallFits(t)
    BY <1>5, Ended, WentOn DEF RefreshListed, Drop, Ok, Bad, Requests, Return
  <2> QED BY <2>1, <2>2 DEF PageFits
<1>6. CASE RefreshFailed(t)
  <2>1. Known(view)'
    BY <1>1, <1>6 DEF RefreshFailed, Drop, Fits, Known
  <2>2. CallFits(t)
    BY <1>6, Ended, WentOn DEF RefreshFailed, Drop, Ok, Bad, Requests, Return
  <2> QED BY <2>1, <2>2 DEF PageFits
<1> QED BY <1>2, <1>3, <1>4, <1>5, <1>6 DEF PollSteps

LEMMA PanelFits ==
  ASSUME IInv, NEW t \in Calls, PanelSteps(t), server' = server
  PROVE  PageFits(t)
<1> USE IInv
<1>1. TypeOK /\ Fits(call[t]) /\ Known(view) /\ dGen \in Nat /\ view \in Copy
  BY DEF IInv, TypeOK
<1>2. CASE Grid(t)
  <2>1. view.doc \in Docs
    BY <1>1, <1>2 DEF Grid, Shown, Copy
  <2>2. Sound(Begin("grid", "project", view.doc))
    BY <2>1 DEF Begin, Idle, Sound, Waiting
  <2>3. CallFits(t)
    BY <1>2, <2>2, StartedHere DEF Grid
  <2> QED BY <1>1, <1>2, <2>3 DEF PageFits, Grid, Known
<1>3. CASE Gridded(t)
  <2>1. Known(view)'
    BY <1>1, <1>3 DEF Gridded, Drop, Fits, Known
  <2>2. CallFits(t)
    BY <1>3, Ended, WentOn DEF Gridded, Drop, Ok, Bad, Requests
  <2> QED BY <2>1, <2>2 DEF PageFits
<1>4. CASE GridFailed(t)
  <2>1. SameGens /\ Known(view)'
    BY <1>1, <1>4 DEF GridFailed, Known
  <2>2. CASE BeginRefresh(t, TRUE) /\ Shown
    <3>1. view.doc \in Docs
      BY <1>1, <2>2 DEF Shown, Copy
    <3> QED BY <2>1, <2>2, <3>1, RefreshBegun DEF PageFits
  <2>3. CASE End(t)
    BY <2>1, <2>3, Ended DEF PageFits
  <2> QED BY <1>4, <2>2, <2>3 DEF GridFailed
<1>5. CASE Commit(t)
  <2>1. view.doc \in Docs
    BY <1>1, <1>5 DEF Commit, Shown, Copy
  <2>2. \A op \in {"rename", "plan", "auto"} : Sound(Begin(op, "commit", view.doc))
    BY <2>1 DEF Begin, Idle, Sound, Waiting
  <2>3. Sound(Begin("draw", "write", view.doc))
    BY <2>1 DEF Begin, Idle, Sound, Waiting
  <2>4. CallFits(t)
    BY <1>5, <2>2, <2>3, StartedHere DEF Commit
  <2> QED BY <1>1, <1>5, <2>4 DEF PageFits, Commit, Known
<1>6. CASE Renamed(t)
  <2>1. SameGens /\ Known(view)'
    BY <1>1, <1>6 DEF Renamed, Drop, Known, Fits
  <2>2. CASE End(t)
    BY <2>1, <2>2, Ended DEF PageFits
  <2> DEFINE c == [Begin("refresh", "get", view.doc) EXCEPT !.at = call[t].ans.copy]
  <2>3. CASE Become(t, c) /\ view = call[t].at
    <3>1. view.doc \in Docs
      BY <1>1, <1>6, <2>3 DEF Renamed, Ok, Fits, Sound
    <3>2. c.at = call[t].ans.copy /\ c.got = NoCopy /\ c.ans = Waiting /\ c.dg = dGen'
      BY DEF Begin, Idle
    <3>3. Sound(c)
      BY <3>1 DEF Begin, Idle, Sound, Waiting
    <3>4. Known(c.at)
      BY <1>1, <3>2 DEF Fits
    <3> HIDE DEF c
    <3> QED BY <2>1, <2>3, <3>2, <3>3, <3>4, Started DEF PageFits
  <2> QED BY <1>6, <2>2, <2>3 DEF Renamed, Drop
<1>7. CASE Planned(t)
  <2>1. Known(view)'
    BY <1>1, <1>7 DEF Planned, Drop, Fits, Known
  <2>2. CallFits(t)
    BY <1>7, Ended, WentOn DEF Planned, Drop, Ok, Bad, Requests
  <2> QED BY <2>1, <2>2 DEF PageFits
<1>8. CASE Drawn(t)
  <2>1. Known(view)'
    BY <1>1, <1>8 DEF Drawn, Drop, Fits, Known
  <2>2. CallFits(t)
    BY <1>8, Ended, WentOn DEF Drawn, Drop, Ok, Bad, Requests
  <2> QED BY <2>1, <2>2 DEF PageFits
<1>9. CASE DrawnRead(t)
  <2>1. Known(view)'
    BY <1>1, <1>9 DEF DrawnRead, Drop, Fits, Known
  <2>2. CallFits(t)
    BY <1>9, Ended, WentOn DEF DrawnRead, Drop, Ok, Bad, Requests
  <2> QED BY <2>1, <2>2 DEF PageFits
<1>10. CASE PlanListed(t)
  <2>1. Known(view)'
    BY <1>1, <1>10 DEF PlanListed, Drop, Fits, Known
  <2>2. CallFits(t)
    BY <1>10, Ended, WentOn DEF PlanListed, Drop, Ok, Bad, Requests
  <2> QED BY <2>1, <2>2 DEF PageFits
<1>11. CASE AutoListed(t)
  <2>1. Known(view)'
    BY <1>1, <1>11 DEF AutoListed, Drop, NoCopy, Fits, Known
  <2>2. CallFits(t)
    BY <1>11, Ended, WentOn DEF AutoListed, Drop, Ok, Bad, Requests
  <2> QED BY <2>1, <2>2 DEF PageFits
<1>12. CASE PanelFailed(t)
  <2>1. Known(view)'
    BY <1>1, <1>12 DEF PanelFailed, Drop, Fits, Known
  <2>2. CallFits(t)
    BY <1>12, Ended, WentOn DEF PanelFailed, Drop, Ok, Bad, Requests
  <2> QED BY <2>1, <2>2 DEF PageFits
<1>13. CASE Drag(t)
  <2>1. view.doc \in Docs
    BY <1>1, <1>13 DEF Drag, Shown, Copy
  <2>2. Sound(Begin("drag", "release", view.doc))
    BY <2>1 DEF Begin, Idle, Sound, Waiting
  <2>3. CallFits(t)
    BY <1>13, <2>2, StartedHere DEF Drag
  <2> QED BY <1>1, <1>13, <2>3 DEF PageFits, Drag, Known
<1>14. CASE DragEnd(t)
  <2>1. Known(view)'
    BY <1>1, <1>14 DEF DragEnd, Drop, Fits, Known
  <2>2. CallFits(t)
    BY <1>14, Ended, WentOn DEF DragEnd, Drop, Ok, Bad, Requests
  <2> QED BY <2>1, <2>2 DEF PageFits
<1> QED BY <1>2, <1>3, <1>4, <1>5, <1>6, <1>7, <1>8, <1>9, <1>10, <1>11, <1>12, <1>13, <1>14 DEF PanelSteps

LEMMA PollFits ==
  ASSUME IInv, NEW t \in Calls, Check(t) \/ Refresh(t), server' = server
  PROVE  PageFits(t) /\ PageTyped
<1>1. TypeOK /\ Known(view) /\ view \in Copy /\ ui \in Ui /\ dGen \in Nat /\ mGen \in Nat
  BY DEF IInv, TypeOK
<1>2. SameGens /\ view' = view /\ view.doc \in Docs
  BY <1>1 DEF Check, Refresh, Shown, Copy
<1>3. Known(view)' /\ dGen' \in Nat /\ mGen' \in Nat /\ view' \in Copy
  BY <1>1, <1>2 DEF Known, SameGens
<1>4. CASE Check(t)
  <2> DEFINE c == [Begin("check", "status", view.doc) EXCEPT !.flag = ~Dragging]
  <2>1. Become(t, c) /\ Sync("checking")
    BY <1>4 DEF Check
  <2>2. c.at = view /\ c.got = NoCopy /\ c.ans = Waiting /\ c.dg = dGen'
    BY DEF Begin, Idle
  <2>3. Sound(c)
    BY <1>2 DEF Begin, Idle, Sound, Waiting
  <2>4. c \in Call
    <3>1. Begin("check", "status", view.doc) \in Call
      BY <1>1, <1>2, <1>3, Beginnings DEF Requests
    <3>2. (~Dragging) \in BOOLEAN
      BY DEF Dragging
    <3> QED BY <3>1, <3>2, Amendments
  <2> HIDE DEF c
  <2>5. CallFits(t)
    BY <1>1, <1>2, <2>1, <2>2, <2>3, Started
  <2>6. call' \in [Calls -> Call] /\ ui' \in Ui
    BY <1>1, <2>1, <2>4, Goings, Uis
  <2> QED BY <1>3, <2>5, <2>6 DEF PageFits, PageTyped
<1>5. CASE Refresh(t)
  <2>1. BeginRefresh(t, FALSE)
    BY <1>5 DEF Refresh
  <2>2. CallFits(t)
    BY <1>2, <2>1, RefreshBegun
  <2>3. call' \in [Calls -> Call] /\ ui' \in Ui
    BY <1>1, <1>3, <2>1, Refreshing
  <2> QED BY <1>3, <2>2, <2>3 DEF PageFits, PageTyped
<1> QED BY <1>4, <1>5

\* A step of the page keeps the invariant.
LEMMA PageStep ==
  ASSUME IInv, NEW t \in Calls, PageFits(t), PageTyped, UNCHANGED outside
  PROVE  IInv'
<1>1. TypeOK'
  BY DEF IInv, TypeOK, PageTyped, outside
<1>2. Fits(call[t])' /\ Known(view)'
  BY DEF PageFits, CallFits
<1>3. ASSUME NEW u \in Calls, u # t
      PROVE  Fits(call[u])'
  <2>1. Fits(call[u]) /\ call'[u] = call[u] /\ server' = server
    BY <1>3 DEF IInv, PageFits, CallFits, Alone, outside
  <2>2. Sound(call[u])' /\ Known(call[u].at)' /\ Known(call[u].got)' /\ Known(call[u].ans.copy)'
    BY <2>1 DEF Fits, Sound, Known
  <2>3. call[u].dg \in Nat /\ dGen \in Nat /\ dGen' \in Nat /\ dGen' >= dGen
    BY Parts DEF IInv, TypeOK, PageFits, CallFits
  <2> QED BY <2>1, <2>2, <2>3 DEF Fits
<1> QED BY <1>1, <1>2, <1>3 DEF IInv

LEMMA ContinueStep ==
  ASSUME IInv, NEW t \in Calls, Continue(t)
  PROVE  PageFits(t) /\ PageTyped /\ UNCHANGED outside
<1>1. TypeOK /\ UNCHANGED outside /\ server' = server
  BY DEF IInv, Continue, outside
<1>2. CASE OpenSteps(t)
  BY <1>1, <1>2, OpenFits, OpenTyped
<1>3. CASE CreateSteps(t)
  BY <1>1, <1>3, CreateFits, CreateTyped
<1>4. CASE TreeSteps(t)
  BY <1>1, <1>4, TreeFits, TreeTyped
<1>5. CASE EditSteps(t)
  BY <1>1, <1>5, EditFits, EditTyped
<1>6. CASE PollSteps(t)
  BY <1>1, <1>6, CheckFits, PollTyped
<1>7. CASE PanelSteps(t)
  BY <1>1, <1>7, PanelFits, PanelTyped
<1> QED BY <1>2, <1>3, <1>4, <1>5, <1>6, <1>7 DEF Continue

-------------------------------------------------------------------------------
(* The server and everybody else.                                          *)

\* What is gone stays gone, and no revision of the others is taken back.
Grows ==
  /\ server' \in [Docs -> Revision]
  /\ \A d \in Docs : server'[d] = Gone \/ (server[d] # Gone /\ server[d] <= server'[d])

LEMMA StillKnown ==
  ASSUME TypeOK, Grows, NEW c \in Copy, Known(c)
  PROVE  c.doc = NoDoc \/ server'[c.doc] = Gone \/ c.rev <= server'[c.doc]
<1>1. CASE c.doc = NoDoc
  BY <1>1
<1>2. CASE c.doc \in Docs
  <2>1. server[c.doc] \in Int /\ server'[c.doc] \in Int /\ c.rev \in Int
    BY <1>2 DEF Grows, TypeOK, Revision, Unborn, Gone, Copy
  <2>2. server[c.doc] = Gone \/ c.rev <= server[c.doc]
    BY <1>2, NotADocument DEF Known
  <2>3. server'[c.doc] = Gone \/ (server[c.doc] # Gone /\ server[c.doc] <= server'[c.doc])
    BY <1>2 DEF Grows
  <2> QED BY <2>1, <2>2, <2>3
<1> QED BY <1>1, <1>2 DEF Copy

\* What an answer must be, to fit the call it is for.
Fitting(t, a) ==
  /\ a \in Answer
  /\ a.copy.doc = NoDoc \/ server'[a.copy.doc] = Gone \/ a.copy.rev <= server'[a.copy.doc]
  /\ a.kind = "ok" /\ call[t].op = "cad" /\ call[t].ask = "create" => a.copy.doc \in Docs
  /\ a.kind = "ok" /\ call[t].op \in {"edit", "step"} /\ call[t].ask = "commit" =>
       a.copy = At(call[t].at.doc, call[t].at.rev + 1)

LEMMA AnswerParts ==
  /\ \A c \in Copy : Good(c).kind = "ok" /\ Good(c).copy = c
  /\ \A l : Listed(l).kind = "ok" /\ Listed(l).copy = NoCopy
  /\ \A k : Refused(k).kind = k /\ Refused(k).copy = NoCopy
  /\ NoCopy.doc = NoDoc
BY DEF Good, Listed, Refused, Waiting, NoCopy

LEMMA RefusalFits ==
  ASSUME NEW t \in Calls, NEW k \in {"conflict", "error"}
  PROVE  Fitting(t, Refused(k))
<1>1. Refused(k) \in Answer /\ Refused(k).kind # "ok" /\ Refused(k).copy.doc = NoDoc
  BY Shapes, AnswerParts
<1> QED BY <1>1 DEF Fitting

LEMMA MissedFits ==
  ASSUME NEW t \in Calls, NEW d
  PROVE  Fitting(t, Missed(d))
BY RefusalFits DEF Missed

\* A request about a document names one.
LEMMA Target ==
  ASSUME IInv, NEW t \in Calls, call[t].ask \in {"commit", "write", "get", "status", "project", "delete"}
  PROVE  call[t].doc \in Docs
BY DEF IInv, Fits, Sound

\* An answer keeps the invariant.
LEMMA AnswerStep ==
  ASSUME IInv, NEW t \in Calls, NEW a, Answered(t, a), Fitting(t, a), Grows, UNCHANGED page,
         faults' \in Nat
  PROVE  IInv'
<1>1. TypeOK /\ a \in Answer /\ view' = view /\ dGen' = dGen
  BY DEF IInv, Fitting, page
<1>2. TypeOK'
  <2>1. call' \in [Calls -> Call]
    BY <1>1, Goings
  <2> QED BY <1>1, <2>1 DEF TypeOK, Grows, page
<1>3. Known(view)'
  <2>1. view \in Copy /\ Known(view)
    BY DEF IInv, TypeOK
  <2> QED BY <1>1, <2>1, StillKnown DEF Known
<1>4. ASSUME NEW u \in Calls
      PROVE  Fits(call[u])'
  <2>1. Fits(call[u]) /\ call[u].at \in Copy /\ call[u].got \in Copy /\ call[u].ans.copy \in Copy
    BY <1>1, Parts DEF IInv
  <2>2. CASE u # t
    <3>1. call'[u] = call[u]
      BY <1>1, <2>2, AloneLemma DEF Alone
    <3>2. Known(call[u].at)' /\ Known(call[u].got)' /\ Known(call[u].ans.copy)'
      BY <1>1, <2>1, <3>1, StillKnown DEF Fits, Known
    <3> QED BY <1>1, <2>1, <3>1, <3>2 DEF Fits, Sound
  <2>3. CASE u = t
    <3>1. call'[t] = [call[t] EXCEPT !.ans = a] /\ call[t] \in Call
      BY <1>1, Fields, Parts
    <3>2. /\ call'[t].op = call[t].op /\ call'[t].ask = call[t].ask /\ call'[t].ans = a
          /\ call'[t].doc = call[t].doc /\ call'[t].at = call[t].at
          /\ call'[t].got = call[t].got /\ call'[t].dg = call[t].dg
      BY <3>1 DEF Call
    <3>3. Known(call[t].at)' /\ Known(call[t].got)'
      BY <1>1, <2>1, <2>3, <3>2, StillKnown DEF Fits, Known
    <3>4. Known(call[t].ans.copy)'
      BY <3>2 DEF Fitting, Known
    <3>5. Sound(call[t])'
      BY <2>1, <2>3, <3>2 DEF Fits, Sound, Fitting
    <3> QED BY <1>1, <2>1, <2>3, <3>2, <3>3, <3>4, <3>5 DEF Fits
  <2> QED BY <2>2, <2>3
<1> QED BY <1>2, <1>3, <1>4 DEF IInv

\* What one of the server's steps leaves.
Answers(t) ==
  /\ Grows /\ UNCHANGED page /\ faults' \in Nat
  /\ \E a \in Answer : Answered(t, a) /\ Fitting(t, a)

LEMMA Unmoved ==
  ASSUME TypeOK, server' = server
  PROVE  Grows
<1>1. server \in [Docs -> Revision]
  BY DEF TypeOK
<1>2. \A d \in Docs : server[d] \in Int
  BY <1>1 DEF Revision, Unborn, Gone
<1> QED BY <1>1, <1>2 DEF Grows

LEMMA Moves ==
  ASSUME TypeOK, NEW d \in Docs, NEW r \in Nat \cup {Gone}, server' = [server EXCEPT ![d] = r],
         r = Gone \/ server[d] = Unborn \/ (Exists(d) /\ r >= server[d])
  PROVE  Grows /\ server'[d] = r
<1>1. server \in [Docs -> Revision] /\ r \in Revision /\ r \in Int
  BY DEF TypeOK, Revision, Gone
<1>2. server' \in [Docs -> Revision] /\ server'[d] = r
  BY <1>1
<1>3. ASSUME NEW e \in Docs
      PROVE  server'[e] = Gone \/ (server[e] # Gone /\ server[e] <= server'[e])
  <2>1. server[e] \in Int
    BY <1>1 DEF Revision, Unborn, Gone
  <2>2. CASE e = d
    BY <1>1, <1>2, <2>1, <2>2 DEF Exists, Unborn, Gone
  <2>3. CASE e # d
    BY <1>1, <2>1, <2>3
  <2> QED BY <2>2, <2>3
<1> QED BY <1>2, <1>3 DEF Grows

LEMMA OneMore ==
  ASSUME TypeOK, NEW d \in Docs, server[d] \in Nat, server' = [server EXCEPT ![d] = server[d] + 1]
  PROVE  Grows /\ server'[d] = server[d] + 1
<1> DEFINE r == server[d] + 1
<1>1. r \in Nat \cup {Gone} /\ server' = [server EXCEPT ![d] = r]
  OBVIOUS
<1>2. Exists(d) /\ r >= server[d]
  BY DEF Exists
<1> HIDE DEF r
<1>3. Grows /\ server'[d] = r
  BY <1>1, <1>2, Moves
<1> QED BY <1>3 DEF r

LEMMA ServeAnswers ==
  ASSUME IInv, NEW t \in Calls, Serve(t)
  PROVE  Answers(t)
<1>1. TypeOK /\ faults \in Nat /\ call[t].at.rev \in Nat /\ Fits(call[t])
  BY Parts DEF IInv, TypeOK, Copy
<1>2. \A k \in {"conflict", "error"} : Refused(k) \in Answer /\ Fitting(t, Refused(k))
  BY Shapes, RefusalFits
<1>3. \A d : Missed(d) \in Answer /\ Fitting(t, Missed(d))
  BY <1>2 DEF Missed
<1>4. CASE ServeCommit(t)
  <2>1. call[t].doc \in Docs /\ call[t].ask = "commit"
    BY <1>4, Target DEF ServeCommit, Asks
  <2> DEFINE d == call[t].doc
             r == call[t].at.rev
  <2>2. CASE server[d] = r
    <3>1. server' = [server EXCEPT ![d] = r + 1] /\ Answered(t, Good(At(d, r + 1)))
      BY <1>4, <2>2 DEF ServeCommit
    <3>2. Grows /\ server'[d] = r + 1
      BY <1>1, <2>1, <2>2, <3>1, OneMore
    <3>3. At(d, r + 1) \in Copy /\ At(d, r + 1).doc = d /\ At(d, r + 1).rev = r + 1
      BY <1>1, <2>1 DEF At, Copy
    <3>4. Good(At(d, r + 1)) \in Answer /\ Good(At(d, r + 1)).copy = At(d, r + 1)
      BY <3>3, Shapes, AnswerParts
    <3>5. call[t].op \in {"edit", "step"} => call[t].at.doc = d
      BY <1>1 DEF Fits, Sound
    <3>6. r + 1 <= server'[d]
      BY <1>1, <3>2
    <3>7. Fitting(t, Good(At(d, r + 1)))
      BY <2>1, <3>3, <3>4, <3>5, <3>6 DEF Fitting
    <3> QED BY <1>1, <1>4, <3>1, <3>2, <3>4, <3>7 DEF Answers, ServeCommit
  <2>3. CASE server[d] # r
    <3>1. server' = server /\ Answered(t, Missed(d))
      BY <1>4, <2>3 DEF ServeCommit
    <3> QED BY <1>1, <1>3, <1>4, <3>1, Unmoved DEF Answers, ServeCommit
  <2> QED BY <2>2, <2>3
<1>5. CASE ServeWrite(t)
  <2>1. call[t].doc \in Docs /\ call[t].ask = "write"
    BY <1>5, Target DEF ServeWrite, Asks
  <2> DEFINE d == call[t].doc
             r == server[d]
  <2>2. CASE Exists(d)
    <3>1. r \in Nat
      BY <1>1, <2>1, <2>2 DEF TypeOK, Revision, Unborn, Gone, Exists
    <3>2. server' = [server EXCEPT ![d] = r + 1] /\ Answered(t, Good(At(d, r + 1)))
      BY <1>5, <2>2 DEF ServeWrite
    <3>3. Grows /\ server'[d] = r + 1
      BY <1>1, <2>1, <3>1, <3>2, OneMore
    <3>4. At(d, r + 1) \in Copy /\ At(d, r + 1).doc = d /\ At(d, r + 1).rev = r + 1
      BY <3>1, <2>1 DEF At, Copy
    <3>5. Good(At(d, r + 1)) \in Answer /\ Good(At(d, r + 1)).copy = At(d, r + 1)
      BY <3>4, Shapes, AnswerParts
    <3>6. r + 1 <= server'[d]
      BY <3>1, <3>3
    <3>7. Fitting(t, Good(At(d, r + 1)))
      BY <2>1, <3>4, <3>5, <3>6 DEF Fitting
    <3> QED BY <1>1, <1>5, <3>2, <3>3, <3>5, <3>7 DEF Answers, ServeWrite
  <2>3. CASE ~Exists(d)
    <3>1. server' = server /\ Answered(t, Missed(d))
      BY <1>5, <2>3 DEF ServeWrite
    <3> QED BY <1>1, <1>3, <1>5, <3>1, Unmoved DEF Answers, ServeWrite
  <2> QED BY <2>2, <2>3
<1>6. ASSUME NEW d \in Docs, Exists(d), server' = server, call[t].ask \notin {"commit", "create"}
      PROVE  Good(At(d, server[d])) \in Answer /\ Fitting(t, Good(At(d, server[d])))
  <2>1. server[d] \in Nat
    BY <1>1, <1>6 DEF TypeOK, Revision, Unborn, Gone, Exists
  <2>2. /\ At(d, server[d]) \in Copy /\ At(d, server[d]).doc = d
        /\ At(d, server[d]).rev = server[d]
    BY <2>1 DEF At, Copy
  <2>3. Good(At(d, server[d])) \in Answer /\ Good(At(d, server[d])).copy = At(d, server[d])
    BY <2>2, Shapes, AnswerParts
  <2> QED BY <1>6, <2>1, <2>2, <2>3 DEF Fitting
<1>7. CASE ServeRead(t)
  <2>1. call[t].doc \in Docs /\ call[t].ask \in {"get", "status"}
    BY <1>7, Target DEF ServeRead, Asks
  <2>2. Grows /\ server' = server
    BY <1>1, <1>7, Unmoved DEF ServeRead, outside
  <2> QED BY <1>1, <1>3, <1>6, <1>7, <2>1, <2>2 DEF Answers, ServeRead, outside
<1>8. CASE ServeProject(t)
  <2>1. call[t].doc \in Docs /\ call[t].ask = "project"
    BY <1>8, Target DEF ServeProject, Asks
  <2>2. Grows /\ server' = server
    BY <1>1, <1>8, Unmoved DEF ServeProject, outside
  <2>3. server[call[t].doc] = call[t].at.rev => Exists(call[t].doc)
    BY <1>1 DEF Exists
  <2> QED BY <1>1, <1>3, <1>6, <1>8, <2>1, <2>2, <2>3 DEF Answers, ServeProject, outside
<1>9. CASE ServeList(t)
  <2>1. Grows /\ server' = server
    BY <1>1, <1>9, Unmoved DEF ServeList, outside
  <2>2. \A l \in [Docs -> Revision] : Listed(l) \in Answer /\ Fitting(t, Listed(l))
    <3>1. call[t].ask = "list"
      BY <1>9 DEF ServeList, Asks
    <3> QED BY <3>1, Shapes, AnswerParts DEF Fitting
  <2>3. server \in [Docs -> Revision] /\ NoList \in [Docs -> Revision]
    BY <1>1, Shapes DEF TypeOK
  <2> QED BY <1>1, <1>9, <2>1, <2>2, <2>3 DEF Answers, ServeList, outside
<1>10. CASE ServeCreate(t)
  <2>1. call[t].ask = "create"
    BY <1>10 DEF ServeCreate, Asks
  <2>2. ASSUME NEW d \in Docs, server[d] = Unborn, server' = [server EXCEPT ![d] = 0],
               Answered(t, Good(At(d, 0)))
        PROVE  Answers(t)
    <3>1. Grows /\ server'[d] = 0
      BY <1>1, <2>2, Moves
    <3>2. At(d, 0) \in Copy /\ At(d, 0).doc = d /\ At(d, 0).rev = 0
      BY DEF At, Copy
    <3>3. Good(At(d, 0)) \in Answer /\ Good(At(d, 0)).copy = At(d, 0)
      BY <3>2, Shapes, AnswerParts
    <3>4. Fitting(t, Good(At(d, 0)))
      BY <2>1, <3>1, <3>2, <3>3 DEF Fitting
    <3> QED BY <1>1, <1>10, <2>2, <3>1, <3>3, <3>4 DEF Answers, ServeCreate
  <2>3. CASE server' = server /\ Answered(t, Refused("error"))
    BY <1>1, <1>2, <1>10, <2>3, Unmoved DEF Answers, ServeCreate
  <2> QED BY <1>10, <2>2, <2>3 DEF ServeCreate
<1>11. CASE ServeDelete(t)
  <2>1. call[t].doc \in Docs /\ call[t].ask = "delete"
    BY <1>11, Target DEF ServeDelete, Asks
  <2>2. CASE server' = [server EXCEPT ![call[t].doc] = Gone] /\ Answered(t, Good(NoCopy))
    <3>1. Grows
      BY <1>1, <2>1, <2>2, Moves
    <3>2. Good(NoCopy) \in Answer /\ Good(NoCopy).copy = NoCopy
      BY Shapes, AnswerParts
    <3>3. Fitting(t, Good(NoCopy))
      BY <2>1, <3>2, AnswerParts DEF Fitting
    <3> QED BY <1>1, <1>11, <2>2, <3>1, <3>2, <3>3 DEF Answers, ServeDelete
  <2>3. CASE server' = server /\ Answered(t, Missed(call[t].doc))
    BY <1>1, <1>3, <1>11, <2>3, Unmoved DEF Answers, ServeDelete
  <2> QED BY <1>11, <2>2, <2>3 DEF ServeDelete
<1> QED BY <1>4, <1>5, <1>7, <1>8, <1>9, <1>10, <1>11 DEF Serve

LEMMA FailAnswers ==
  ASSUME IInv, NEW t \in Calls, Fail(t)
  PROVE  Answers(t)
<1>1. TypeOK /\ server' = server /\ faults' \in Nat
  BY DEF IInv, TypeOK, Fail
<1>2. Refused("error") \in Answer /\ Fitting(t, Refused("error"))
  BY Shapes, RefusalFits
<1> QED BY <1>1, <1>2, Unmoved DEF Answers, Fail

LEMMA OthersStep ==
  ASSUME IInv, OtherWrites
  PROVE  IInv'
<1>1. TypeOK
  BY DEF IInv
<1>2. PICK d \in Docs : Exists(d) /\ server' = [server EXCEPT ![d] = @ + 1]
  BY DEF OtherWrites
<1>3. server[d] \in Nat
  BY <1>1, <1>2 DEF TypeOK, Revision, Unborn, Gone, Exists
<1>4. Grows
  BY <1>1, <1>2, <1>3, OneMore
<1>5. UNCHANGED <<page, call, faults>> /\ view' = view /\ call' = call /\ dGen' = dGen
  BY DEF OtherWrites, page
<1>6. TypeOK'
  BY <1>1, <1>4, <1>5 DEF TypeOK, Grows, page
<1>7. Known(view)'
  BY <1>1, <1>4, <1>5, StillKnown DEF Known, IInv, TypeOK
<1>8. ASSUME NEW t \in Calls
      PROVE  Fits(call[t])'
  <2>1. Fits(call[t]) /\ call[t].at \in Copy /\ call[t].got \in Copy /\ call[t].ans.copy \in Copy
    BY <1>1, Parts DEF IInv
  <2>2. Known(call[t].at)' /\ Known(call[t].got)' /\ Known(call[t].ans.copy)'
    BY <1>1, <1>4, <1>5, <2>1, StillKnown DEF Fits, Known
  <2> QED BY <1>5, <2>1, <2>2 DEF Fits, Sound
<1> QED BY <1>6, <1>7, <1>8 DEF IInv

-------------------------------------------------------------------------------
(* The invariant, and what follows from it.                                *)

LEMMA Start ==
  ASSUME Init
  PROVE  IInv
<1>1. TypeOK
  <2>1. view \in Copy /\ server \in [Docs -> Revision]
    BY DEF Init, At, Copy, Revision, Unborn
  <2>2. call \in [Calls -> Call]
    BY Shapes DEF Init
  <2> QED BY <2>1, <2>2 DEF Init, TypeOK, Ui
<1>2. Known(view)
  BY DEF Init, Known, At, Exists
<1>3. \A t \in Calls : call[t] = Idle
  BY DEF Init
<1>4. Fits(Idle)
  BY DEF Fits, Sound, Known, Idle, NoCopy, Waiting, Init
<1> QED BY <1>1, <1>2, <1>3, <1>4 DEF IInv

LEMMA Step ==
  ASSUME IInv, [Next]_vars
  PROVE  IInv'
<1>1. ASSUME NEW t \in Calls, Answers(t)
      PROVE  IInv'
  BY <1>1, AnswerStep DEF Answers
<1>2. ASSUME NEW t \in Calls, Continue(t)
      PROVE  IInv'
  BY <1>2, ContinueStep, PageStep
<1>3. ASSUME NEW p \in Pollers, Poll(p)
      PROVE  IInv'
  <2>1. p \in Calls /\ UNCHANGED outside /\ server' = server /\ (Check(p) \/ Refresh(p))
    BY <1>3 DEF Calls, Poll, outside
  <2> QED BY <2>1, PollFits, PageStep
<1>4. CASE UNCHANGED vars
  BY <1>4 DEF IInv, TypeOK, Known, Fits, Sound, vars
<1> QED BY <1>1, <1>2, <1>3, <1>4, ServeAnswers, FailAnswers, OthersStep DEF Next

THEOREM Invariant == Spec => []IInv
<1>1. Init => IInv
  BY Start
<1>2. IInv /\ [Next]_vars => IInv'
  BY Step
<1> QED BY <1>1, <1>2, PTL DEF Spec

\* The store and the calls in flight keep their types, in every order of answers.
THEOREM Typing == Spec => []TypeOK
<1>1. IInv => TypeOK
  BY DEF IInv
<1> QED BY <1>1, Invariant, PTL

\* No page shows what was not saved: answers are all that is ever shown, and the
\* server takes no revision back (store.ts, whatever overtakes what).
THEOREM NothingUnsaved == Spec => []NeverAhead
<1>1. IInv => NeverAhead
  BY DEF IInv, Known, NeverAhead, Shown
<1> QED BY <1>1, Invariant, PTL

\* Which calls each group of continuations is of.
LEMMA Actors ==
  ASSUME NEW t \in Calls
  PROVE  /\ OpenSteps(t) => call[t].op \in {"none", "open"}
         /\ CreateSteps(t) => call[t].op \in {"none", "load", "create", "import", "cad"}
         /\ TreeSteps(t) => call[t].op \in {"none", "delete", "move"}
         /\ EditSteps(t) => call[t].op \in {"none", "edit", "step"}
         /\ PollSteps(t) => call[t].op \in {"check", "refresh"}
         /\ PanelSteps(t) => call[t].op \in {"none", "grid", "rename", "draw", "plan", "auto", "drag"}
<1>1. Idle.op = "none"
  BY DEF Idle
<1>2. OpenSteps(t) => call[t].op \in {"none", "open"}
  BY <1>1 DEF OpenSteps, Open, OpenRead, OpenListed, OpenFailed, May, Ok, Bad
<1>3. CreateSteps(t) => call[t].op \in {"none", "load", "create", "import", "cad"}
  BY <1>1 DEF CreateSteps, Load, LoadChosen, LoadRead, Create, Import, Created, CreatedListed,
              CreateFailed, CadListed, CadFailed, May, Ok, Bad
<1>4. TreeSteps(t) => call[t].op \in {"none", "delete", "move"}
  BY <1>1 DEF TreeSteps, Delete, Deleted, DeletedListed, DeletedOpened, DeleteFailed, Move,
              Moved, MovedListed, MoveFailed, May, Ok, Bad
<1>5. EditSteps(t) => call[t].op \in {"none", "edit", "step"}
  BY <1>1 DEF EditSteps, Edit, Edited, EditListed, Stepped, EditFailed, EditReloaded,
              StepFailed, May, Ok, Bad
<1>6. PollSteps(t) => call[t].op \in {"check", "refresh"}
  BY DEF PollSteps, Checked, CheckFailed, Refreshed, RefreshListed, RefreshFailed, Ok, Bad
<1>7. PanelSteps(t) => call[t].op \in {"none", "grid", "rename", "draw", "plan", "auto", "drag"}
  BY <1>1 DEF PanelSteps, Grid, Gridded, GridFailed, Commit, Renamed, Planned, Drawn, DrawnRead,
              PlanListed, AutoListed, PanelFailed, Drag, DragEnd, May, Ok, Bad
<1> QED BY <1>2, <1>3, <1>4, <1>5, <1>6, <1>7

\* A call in flight moves together with the page only by its own continuation.
LEMMA Mover ==
  ASSUME IInv, [Next]_vars, NEW t \in Calls, call'[t] # call[t], view' # view
  PROVE  Continue(t)
<1>1. TypeOK
  BY DEF IInv
<1>2. ASSUME NEW u \in Calls, Serve(u) \/ Fail(u)
      PROVE  FALSE
  <2>1. view' = view
    BY <1>2 DEF Serve, Fail, ServeCommit, ServeWrite, ServeRead, ServeProject, ServeList,
                ServeCreate, ServeDelete, page
  <2> QED BY <2>1
<1>3. ASSUME NEW u \in Calls, Continue(u)
      PROVE  Continue(t)
  <2>1. Alone(u)
    BY <1>3, ContinueStep DEF PageFits, CallFits
  <2>2. u = t
    BY <2>1 DEF Alone
  <2> QED BY <1>3, <2>2
<1>4. ASSUME NEW p \in Pollers, Poll(p)
      PROVE  FALSE
  BY <1>4 DEF Poll, Check, Refresh
<1>5. ~OtherWrites /\ vars' # vars
  BY DEF OtherWrites, page, vars
<1> QED BY <1>2, <1>3, <1>4, <1>5 DEF Next

LEMMA EditStep ==
  ASSUME IInv, [Next]_vars, NEW t \in Users, call'[t] # call[t], view' # view,
         \/ call[t].op = "edit" /\ call[t].ask \in {"commit", "list"}
         \/ call[t].op = "step"
  PROVE  view'.doc = view.doc /\ view'.rev = view.rev + 1
<1>1. t \in Calls /\ TypeOK
  BY DEF Calls, IInv
<1>2. Continue(t) /\ Fits(call[t])
  BY <1>1, Mover DEF IInv
<1>3. EditSteps(t)
  BY <1>1, <1>2, Actors DEF Continue
<1>4. EditListed(t) \/ Stepped(t)
  BY <1>1, <1>3 DEF EditSteps, Edit, Edited, EditFailed, EditReloaded, StepFailed, Drop, May, Idle, Ok, Bad
<1>5. ASSUME NEW c, Apply(t, c), c = At(call[t].at.doc, call[t].at.rev + 1)
      PROVE  view'.doc = view.doc /\ view'.rev = view.rev + 1
  <2>1. view = call[t].at /\ view' = c
    BY <1>5 DEF Apply, CanApply, AtOrigin, Drop
  <2> QED BY <1>5, <2>1 DEF At
<1>6. CASE EditListed(t)
  BY <1>2, <1>5, <1>6 DEF EditListed, Ok, Fits, Sound
<1>7. CASE Stepped(t)
  BY <1>2, <1>5, <1>7 DEF Stepped, Ok, Fits, Sound
<1> QED BY <1>4, <1>6, <1>7

\* The answer to an edit, an undo or a redo moves what is shown by that edit alone,
\* whichever other calls are in flight (mutationResponseCanApply).
THEOREM EditsAreTheirOwn == Spec => EditsShowThemselves
<1>1. IInv /\ [Next]_vars =>
        [\A t \in Users :
           /\ \/ call[t].op = "edit" /\ call[t].ask \in {"commit", "list"}
              \/ call[t].op = "step"
           /\ call'[t] # call[t] /\ view' # view
           => view'.doc = view.doc /\ view'.rev = view.rev + 1]_vars
  BY EditStep
<1> QED BY <1>1, Invariant, PTL DEF Spec, EditsShowThemselves

LEMMA OpenStep ==
  ASSUME IInv, [Next]_vars, NEW t \in Calls, NEW u \in Users, call'[t] # call[t],
         call[t].op \in {"open", "refresh"}, view'.doc # view.doc
  PROVE  call[u].dg <= call[t].dg
<1>1. TypeOK /\ view' # view /\ Fits(call[u]) /\ u \in Calls
  BY DEF Calls, IInv
<1>2. Continue(t)
  BY <1>1, Mover
<1>3. OpenSteps(t) \/ PollSteps(t)
  BY <1>2, Actors DEF Continue
<1>4. Fresh(t)
  BY <1>1, <1>3 DEF OpenSteps, Open, OpenRead, OpenListed, OpenFailed, Drop, May, Idle, BeginOpen,
     PollSteps, Checked, CheckFailed, Refreshed, RefreshListed, RefreshFailed, StillHere
<1> QED BY <1>1, <1>4 DEF Fits, Fresh

\* An open or a refresh that changes the document shown is of the newest request for
\* one (requestGeneration).
THEOREM NewestRequest == Spec => NewestOpenWins
<1>1. IInv /\ [Next]_vars =>
        [\A t \in Calls, u \in Users :
           /\ call[t].op \in {"open", "refresh"} /\ call[u].op \in {"open", "delete"}
           /\ call'[t] # call[t] /\ view'.doc # view.doc
           => call[u].dg <= call[t].dg]_vars
  BY OpenStep
<1> QED BY <1>1, Invariant, PTL DEF Spec, NewestOpenWins

-------------------------------------------------------------------------------
(* Guarded calls go forward.                                               *)

\* What a guarded call was answered, or holds while it reads the list, is of the
\* document it began on, and not older than the copy it began on.
Forward(c) ==
  c.op \in Guarded =>
    /\ c.at.doc = c.doc
    /\ c.ask \in {"commit", "get"} /\ c.ans.kind = "ok" =>
         c.ans.copy.doc = c.at.doc /\ c.ans.copy.rev >= c.at.rev
    /\ c.ask = "list" => c.got.doc = c.at.doc /\ c.got.rev >= c.at.rev

AllForward == \A t \in Calls : Forward(call[t])

LEMMA UnguardedForward ==
  ASSUME NEW c, c.op \notin Guarded
  PROVE  Forward(c)
BY DEF Forward

\* The calls of the other groups stay unguarded.
LEMMA Unguarded ==
  ASSUME IInv, NEW t \in Calls,
         OpenSteps(t) \/ CreateSteps(t) \/ TreeSteps(t) \/ PollSteps(t)
  PROVE  call'[t].op \notin Guarded
<1>1. TypeOK
  BY DEF IInv
<1>2. call[t].op \notin Guarded
  BY Actors DEF Guarded
<1>3. End(t) => call'[t].op \notin Guarded
  BY <1>1, Fields DEF Guarded, Idle
<1>4. \A k \in Requests : Await(t, k) \/ Hold(t, k) => call'[t].op \notin Guarded
  BY <1>1, <1>2, Fields
<1>5. \A op, k, d : Become(t, Begin(op, k, d)) => call'[t].op = op
  BY <1>1, Fields, Begun
<1>6. \A b : BeginRefresh(t, b) => call'[t].op \notin Guarded
  <2>1. \A b : [Begin("refresh", "get", view.doc) EXCEPT !.flag = b].op = "refresh"
    BY DEF Begin, Idle
  <2> QED BY <1>1, <2>1, Fields DEF BeginRefresh, Guarded
<1>7. \A d : BeginOpen(t, d) => call'[t].op \notin Guarded
  BY <1>5 DEF BeginOpen, Guarded
<1>8. \A d \in Docs :
        Become(t, [call[t] EXCEPT !.ask = "get", !.ans = Waiting, !.doc = d])
          => call'[t].op \notin Guarded
  <2>1. \A d \in Docs : [call[t] EXCEPT !.ask = "get", !.ans = Waiting, !.doc = d].op = call[t].op
    BY <1>1, Parts DEF Call
  <2> QED BY <1>1, <1>2, <2>1, Fields
<1>9. CASE OpenSteps(t)
  BY <1>3, <1>4, <1>7, <1>9
  DEF OpenSteps, Open, OpenRead, OpenListed, OpenFailed, Drop, Requests
<1>10. CASE CreateSteps(t)
  <2>1. CASE Load(t) \/ Create(t) \/ Import(t)
    BY <1>5, <2>1 DEF Load, Create, Import, Guarded
  <2>2. CASE LoadChosen(t)
    BY <1>4, <1>8, <2>2 DEF LoadChosen, Requests
  <2>3. CASE LoadRead(t) \/ Created(t)
    BY <1>4, <2>3 DEF LoadRead, Created, Requests
  <2>4. CASE CreatedListed(t) \/ CreateFailed(t) \/ CadFailed(t)
    BY <1>3, <2>4 DEF CreatedListed, CreateFailed, CadFailed, Settle
  <2>5. CASE CadListed(t)
    BY <1>7, <2>5 DEF CadListed
  <2> QED BY <1>10, <2>1, <2>2, <2>3, <2>4, <2>5 DEF CreateSteps
<1>11. CASE TreeSteps(t)
  <2>1. CASE Delete(t)
    BY <1>5, <2>1 DEF Delete, Guarded
  <2>2. CASE Move(t)
    <3>1. PICK d, x : Become(t, [Begin("move", "commit", d) EXCEPT !.at = x])
      BY <2>2 DEF Move
    <3>2. [Begin("move", "commit", d) EXCEPT !.at = x].op = "move"
      BY DEF Begin, Idle
    <3>3. call'[t] = [Begin("move", "commit", d) EXCEPT !.at = x]
      BY <1>1, <3>1, Fields
    <3> QED BY <3>2, <3>3 DEF Guarded
  <2>3. CASE Deleted(t) \/ Moved(t)
    BY <1>3, <1>4, <2>3 DEF Deleted, Moved, Requests
  <2>4. CASE DeletedListed(t)
    BY <1>3, <1>8, <2>4 DEF DeletedListed, Drop
  <2>5. CASE DeletedOpened(t) \/ DeleteFailed(t) \/ MovedListed(t) \/ MoveFailed(t)
    BY <1>3, <2>5 DEF DeletedOpened, DeleteFailed, MovedListed, MoveFailed, Drop
  <2> QED BY <1>11, <2>1, <2>2, <2>3, <2>4, <2>5 DEF TreeSteps
<1>12. CASE PollSteps(t)
  BY <1>3, <1>4, <1>6, <1>12
  DEF PollSteps, Checked, CheckFailed, Refreshed, RefreshListed, RefreshFailed, Return, Requests
<1> QED BY <1>9, <1>10, <1>11, <1>12

\* An edit begins on the copy shown and goes on with what it was answered.
LEMMA EditForward ==
  ASSUME IInv, NEW t \in Calls, Forward(call[t]), EditSteps(t)
  PROVE  Forward(call[t])'
<1>1. TypeOK
  BY DEF IInv
<1>2. CASE Edit(t)
  <2>1. PICK op : call'[t] = Begin(op, "commit", view.doc)
    BY <1>1, <1>2, Fields DEF Edit
  <2> QED BY <2>1, Begun DEF Forward, Waiting
<1>3. CASE Edited(t)
  <2>1. /\ call[t].op = "edit" /\ call[t].ask = "commit" /\ call[t].ans.kind = "ok"
        /\ Hold(t, "list") /\ "list" \in Requests
    BY <1>3 DEF Edited, Ok, Requests
  <2> QED BY <1>1, <2>1, Fields DEF Forward, Guarded
<1>4. CASE EditFailed(t) /\ Await(t, "get")
  <2>1. /\ call'[t].op = call[t].op /\ call'[t].ask = "get" /\ call'[t].ans.kind = "none"
        /\ call'[t].at = call[t].at /\ call'[t].doc = call[t].doc
    BY <1>1, <1>4, Fields DEF Requests, Waiting
  <2> QED BY <2>1 DEF Forward
<1>5. CASE End(t)
  BY <1>1, <1>5, Fields, UnguardedForward DEF Guarded, Idle, Forward
<1> QED BY <1>2, <1>3, <1>4, <1>5
        DEF EditSteps, EditListed, Stepped, EditFailed, EditReloaded, StepFailed, Apply, Drop

\* So do a rename and a plan; the other panels' calls are not guarded.
LEMMA PanelForward ==
  ASSUME IInv, NEW t \in Calls, Forward(call[t]), PanelSteps(t)
  PROVE  Forward(call[t])'
<1>1. TypeOK
  BY DEF IInv
<1>2. End(t) => Forward(call[t])'
  BY <1>1, Fields DEF Guarded, Idle, Forward
<1>3. ASSUME NEW op, NEW k, NEW d, Become(t, Begin(op, k, d)), op \notin Guarded
      PROVE  Forward(call[t])'
  BY <1>1, <1>3, Fields, Begun DEF Forward
<1>4. ASSUME NEW k \in Requests, Await(t, k) \/ Hold(t, k), call[t].op \notin Guarded
      PROVE  Forward(call[t])'
  BY <1>1, <1>4, Fields DEF Forward
<1>5. ASSUME NEW c, Become(t, c), c.op = "refresh" PROVE Forward(call[t])'
  BY <1>1, <1>5, Fields DEF Forward, Guarded
<1>6. CASE Grid(t) \/ Drag(t)
  BY <1>3, <1>6 DEF Grid, Drag, Guarded
<1>7. CASE GridFailed(t)
  <2>1. \A b : BeginRefresh(t, b) => Forward(call[t])'
    <3>1. \A b : [Begin("refresh", "get", view.doc) EXCEPT !.flag = b].op = "refresh"
      BY DEF Begin, Idle
    <3> QED BY <1>5, <3>1 DEF BeginRefresh
  <2> QED BY <1>2, <1>7, <2>1 DEF GridFailed
<1>8. CASE Commit(t)
  <2>1. PICK op, k : call'[t] = Begin(op, k, view.doc) /\ (op \in Guarded => k = "commit")
    BY <1>1, <1>8, Fields DEF Commit, Guarded
  <2> QED BY <2>1, Begun DEF Forward, Waiting
<1>9. CASE Renamed(t)
  <2>1. [Begin("refresh", "get", view.doc) EXCEPT !.at = call[t].ans.copy].op = "refresh"
    BY DEF Begin, Idle
  <2> QED BY <1>2, <1>5, <1>9, <2>1 DEF Renamed, Drop
<1>10. CASE Planned(t) \/ Drawn(t)
  <2>1. call[t].op \notin Guarded
    BY <1>10 DEF Planned, Drawn, Ok, Guarded
  <2> QED BY <1>2, <1>4, <1>10, <2>1 DEF Planned, Drawn, Requests
<1>11. CASE DrawnRead(t)
  <2>1. Hold(t, "list") /\ "list" \in Requests
    BY <1>11 DEF DrawnRead, Requests
  <2>2. CASE call[t].op \notin Guarded
    BY <1>4, <2>1, <2>2
  <2>3. CASE call[t].op \in Guarded
    <3>1. call[t].ask = "commit" /\ call[t].ans.kind = "ok"
      BY <1>11, <2>3 DEF DrawnRead, Ok, Guarded
    <3> QED BY <1>1, <2>1, <3>1, Fields DEF Forward
  <2> QED BY <2>2, <2>3
<1>12. CASE End(t)
  BY <1>2, <1>12
<1> QED BY <1>6, <1>7, <1>8, <1>9, <1>10, <1>11, <1>12
        DEF PanelSteps, Gridded, PlanListed, AutoListed, PanelFailed, DragEnd, Drop

\* What the server answers a guarded call is not older than its copy: it was at
\* that copy, and takes nothing back.
LEMMA AnswerForward ==
  ASSUME IInv, NEW t \in Calls, Forward(call[t]), Serve(t) \/ Fail(t)
  PROVE  Forward(call[t])'
<1>1. TypeOK /\ Fits(call[t]) /\ call[t] \in Call /\ call[t].at \in Copy
  BY Parts DEF IInv
<1>2. PICK a \in Answer : call'[t] = [call[t] EXCEPT !.ans = a] /\ Answered(t, a)
  BY <1>1, ServeAnswers, FailAnswers, Fields DEF Answers
<1>3. /\ call'[t].op = call[t].op /\ call'[t].ask = call[t].ask /\ call'[t].ans = a
      /\ call'[t].doc = call[t].doc /\ call'[t].at = call[t].at /\ call'[t].got = call[t].got
  BY <1>1, <1>2 DEF Call
<1>4. ASSUME call[t].op \in Guarded, call[t].ask \in {"commit", "get"}, a.kind = "ok"
      PROVE  a.copy.doc = call[t].at.doc /\ a.copy.rev >= call[t].at.rev
  <2> DEFINE d == call[t].doc
             r == call[t].at.rev
  <2>1. d = call[t].at.doc /\ d \in Docs /\ r \in Nat
    BY <1>1, <1>4, Target DEF Forward, Copy
  <2>2. \A b : Answered(t, b) => a = b
    <3>1. ASSUME NEW b, Answered(t, b) PROVE a = b
      <4>1. call'[t] = [call[t] EXCEPT !.ans = b]
        BY <1>1, <3>1 DEF Answered, TypeOK
      <4>2. call'[t].ans = b
        BY <1>1, <4>1 DEF Call
      <4> QED BY <1>3, <4>2
    <3> QED BY <3>1
  <2>3. \A k \in {"conflict", "error"} : ~Answered(t, Refused(k))
    BY <1>4, <2>2, AnswerParts
  <2>4. ~Answered(t, Missed(d))
    BY <2>3 DEF Missed
  <2>5. CASE ServeCommit(t)
    <3>1. a = Good(At(d, r + 1))
      BY <2>2, <2>4, <2>5 DEF ServeCommit
    <3>2. At(d, r + 1) \in Copy /\ At(d, r + 1).doc = d /\ At(d, r + 1).rev = r + 1
      BY <2>1 DEF At, Copy
    <3> QED BY <2>1, <3>1, <3>2, AnswerParts
  <2>6. CASE ServeRead(t)
    <3>1. Exists(d) /\ a = Good(At(d, server[d]))
      BY <2>2, <2>4, <2>6 DEF ServeRead
    <3>2. server[d] \in Nat /\ server[d] # Gone
      BY <1>1, <2>1, <3>1 DEF TypeOK, Revision, Unborn, Gone, Exists
    <3>3. r <= server[d]
      BY <1>1, <2>1, <3>2, NotADocument DEF Fits, Known
    <3>4. /\ At(d, server[d]) \in Copy /\ At(d, server[d]).doc = d
          /\ At(d, server[d]).rev = server[d]
      BY <2>1, <3>2 DEF At, Copy
    <3> QED BY <2>1, <3>1, <3>2, <3>3, <3>4, AnswerParts
  <2>7. ServeCommit(t) \/ ServeRead(t)
    BY <1>4, <2>3 DEF Serve, Fail, ServeWrite, ServeProject, ServeList, ServeCreate,
                      ServeDelete, Asks
  <2> QED BY <2>5, <2>6, <2>7
<1> QED BY <1>1, <1>3, <1>4 DEF Forward

\* A check or a refresh, which the poller and the badge begin, is not guarded.
LEMMA PollForward ==
  ASSUME IInv, NEW p \in Calls, Check(p) \/ Refresh(p)
  PROVE  Forward(call[p])' /\ Alone(p)
<1>1. TypeOK
  BY DEF IInv
<1>2. PICK c : Become(p, c) /\ c.op \in {"check", "refresh"}
  <2>1. CASE Check(p)
    <3>1. Become(p, [Begin("check", "status", view.doc) EXCEPT !.flag = ~Dragging])
      BY <2>1 DEF Check
    <3>2. [Begin("check", "status", view.doc) EXCEPT !.flag = ~Dragging].op = "check"
      BY DEF Begin, Idle
    <3> QED BY <3>1, <3>2
  <2>2. CASE Refresh(p)
    <3>1. Become(p, [Begin("refresh", "get", view.doc) EXCEPT !.flag = FALSE])
      BY <2>2 DEF Refresh, BeginRefresh
    <3>2. [Begin("refresh", "get", view.doc) EXCEPT !.flag = FALSE].op = "refresh"
      BY DEF Begin, Idle
    <3> QED BY <3>1, <3>2
  <2> QED BY <2>1, <2>2
<1>3. call'[p] = c
  BY <1>1, <1>2, Fields
<1> QED BY <1>1, <1>2, <1>3, AloneLemma DEF Forward, Guarded

\* Whichever call goes on, every guarded one keeps what it is going to show.
LEMMA StepForward ==
  ASSUME IInv, AllForward, [Next]_vars
  PROVE  AllForward'
<1>1. TypeOK
  BY DEF IInv
<1>2. ASSUME NEW t \in Calls, Alone(t), Forward(call[t])'
      PROVE  AllForward'
  BY <1>2 DEF Alone, AllForward, Forward
<1>3. ASSUME NEW t \in Calls, Serve(t) \/ Fail(t)
      PROVE  AllForward'
  <2>1. Alone(t)
    <3>1. PICK a : Answered(t, a)
      BY <1>3, ServeAnswers, FailAnswers DEF Answers
    <3> QED BY <1>1, <3>1, AloneLemma
  <2> QED BY <1>2, <1>3, <2>1, AnswerForward DEF AllForward
<1>4. ASSUME NEW t \in Calls, Continue(t)
      PROVE  AllForward'
  <2>1. Alone(t)
    BY <1>4, ContinueStep DEF PageFits, CallFits
  <2>2. CASE EditSteps(t) \/ PanelSteps(t)
    BY <1>2, <2>1, <2>2, EditForward, PanelForward DEF AllForward
  <2>3. CASE OpenSteps(t) \/ CreateSteps(t) \/ TreeSteps(t) \/ PollSteps(t)
    <3>1. call'[t].op \notin Guarded
      BY <2>3, Unguarded
    <3>2. Forward(call[t])'
      BY <3>1 DEF Forward
    <3> QED BY <1>2, <2>1, <3>2
  <2> QED BY <1>4, <2>2, <2>3 DEF Continue
<1>5. ASSUME NEW p \in Pollers, Poll(p)
      PROVE  AllForward'
  BY <1>2, <1>5, PollForward DEF Poll, Calls
<1>6. CASE call' = call
  BY <1>6 DEF AllForward, Forward
<1> QED BY <1>3, <1>4, <1>5, <1>6 DEF Next, OtherWrites, vars

\* What a guarded call puts on the page was checked against the copy it began on.
LEMMA GuardedStep ==
  ASSUME IInv, AllForward, [Next]_vars, NEW t \in Users, call[t].op \in Guarded,
         call'[t] # call[t], view' # view
  PROVE  \/ view'.doc = view.doc /\ view'.rev > view.rev
         \/ call[t].op = "auto" /\ view' = NoCopy
<1>1. t \in Calls /\ TypeOK /\ TypeOK'
  BY Step DEF Calls, IInv
<1>2. Continue(t) /\ Forward(call[t])
  BY <1>1, Mover DEF AllForward
<1>3. EditSteps(t) \/ PanelSteps(t)
  BY <1>1, <1>2, Actors DEF Continue, Guarded
<1>4. SUFFICES ASSUME ~(call[t].op = "auto" /\ view' = NoCopy)
               PROVE  view'.doc = view.doc /\ view'.rev >= view.rev
  <2>1. view.rev \in Nat /\ view'.rev \in Nat
    BY <1>1 DEF TypeOK, Copy
  <2>2. view'.doc = view.doc /\ view'.rev = view.rev => view' = view
    BY <1>1 DEF TypeOK, Copy
  <2> QED BY <1>4, <2>1, <2>2
<1>5. CASE EditListed(t) \/ Stepped(t)
  <2>1. PICK c : Apply(t, c)
    BY <1>5 DEF EditListed, Stepped
  <2>2. CanApply(t, c) /\ view' = c
    BY <2>1 DEF Apply, Drop
  <2> QED BY <2>2 DEF CanApply, AtOrigin
<1>6. CASE EditReloaded(t)
  <2>1. /\ view = call[t].at /\ view' = call[t].ans.copy
        /\ call[t].ask = "get" /\ call[t].ans.kind = "ok"
    BY <1>6 DEF EditReloaded, AtOrigin, Drop
  <2> QED BY <1>2, <2>1 DEF Forward
<1>7. CASE Renamed(t)
  <2>1. /\ view = call[t].at /\ view' = call[t].ans.copy
        /\ call[t].ask = "commit" /\ call[t].ans.kind = "ok"
    BY <1>7 DEF Renamed, Drop, Ok
  <2> QED BY <1>2, <2>1 DEF Forward
<1>8. CASE AutoListed(t)
  <2>1. call[t].op = "auto" /\ call[t].ask = "list"
    BY <1>8 DEF AutoListed, Ok
  <2>2. view = call[t].at /\ view' = call[t].got
    BY <1>4, <1>8, <2>1 DEF AutoListed
  <2> QED BY <1>2, <2>1, <2>2 DEF Forward
<1>9. EditListed(t) \/ Stepped(t) \/ EditReloaded(t) \/ Renamed(t) \/ AutoListed(t)
  <2>1. CASE EditSteps(t)
    BY <2>1 DEF EditSteps, Edit, Edited, EditFailed, StepFailed, Drop
  <2>2. CASE PanelSteps(t)
    BY <2>2 DEF PanelSteps, Grid, Gridded, GridFailed, Commit, Planned, Drawn, DrawnRead,
                PlanListed, PanelFailed, Drag, DragEnd, Drop, Ok, Bad, Guarded
  <2> QED BY <1>3, <2>1, <2>2
<1> QED BY <1>5, <1>6, <1>7, <1>8, <1>9

\* An edit, undo, redo, rename or automatic plan never takes the page back a revision
\* or to another document, whatever the other calls and clients do in between, and
\* whether it shows its answer or what it read after a refusal.
THEOREM EditsAdvance == Spec => EditsGoForward
<1>1. Init => AllForward
  BY DEF Init, AllForward, Forward, Idle, Guarded
<1>2. IInv /\ AllForward /\ [Next]_vars => AllForward'
  BY StepForward
<1>3. IInv /\ AllForward /\ [Next]_vars =>
        [\A t \in Users :
           call[t].op \in Guarded /\ call'[t] # call[t] /\ view' # view
           => \/ view'.doc = view.doc /\ view'.rev > view.rev
              \/ call[t].op = "auto" /\ view' = NoCopy]_vars
  BY GuardedStep
<1> QED BY <1>1, <1>2, <1>3, Invariant, PTL DEF Spec, EditsGoForward

===============================================================================
