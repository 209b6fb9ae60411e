------------------------------ MODULE EditorSync ------------------------------
(***************************************************************************)
(* The browser's copy of a drawing and the requests it has in flight       *)
(* (frontend/src/store.ts, and the panels that write to that store).       *)
(*                                                                         *)
(* Code of the page runs alone up to an "await": a call is a sequence of   *)
(* continuations, each run when its request has been answered.  Between    *)
(* two of them other calls run, and other clients write.  An open or a     *)
(* delete takes a new document generation, an edit a new mutation          *)
(* generation; a continuation that finds them changed drops its answer.    *)
(* A poller asks for the revision every 1.5 s unless the page is busy.     *)
(*                                                                         *)
(* A drawing is its document and revision; what the server does with a     *)
(* revision is DocumentStore.  List entries, selections and messages are   *)
(* left out, and of the sync states only what the code decides on is kept: *)
(* "checking" stops the poller, "attention" makes the badge a button.      *)
(***************************************************************************)
EXTENDS Integers

CONSTANTS
  Users,      \* calls the user makes, one each
  Pollers,    \* runs of the poller, or of the badge, that may overlap
  Docs,       \* document ids
  NoDoc,      \* no document is open
  Ops,        \* what the user does in this instance
  Busy,       \* revision from which other clients no longer write (bound)
  MaxFaults   \* bound of the model on requests that fail

ASSUME CallAssumption == Users \cap Pollers = {}
ASSUME DocAssumption == NoDoc \notin Docs
ASSUME BoundAssumption == Busy \in Nat /\ MaxFaults \in Nat

VARIABLES
  server,  \* the revision of each document, Unborn or Gone
  view,    \* the copy on the canvas: state.document
  ui,      \* loading, importing, isMutating, syncState
  dGen,    \* documentRequestGeneration
  mGen,    \* mutationRequestGeneration
  call,    \* the calls in flight
  faults   \* requests that failed

page == <<view, ui, dGen, mGen>>
outside == <<server, faults>>
vars == <<server, view, ui, dGen, mGen, call, faults>>

Calls == Users \cup Pollers

Unborn == -2
Gone == -1
Revision == Nat \cup {Unborn, Gone}
Exists(d) == server[d] >= 0

Copy == [doc: Docs \cup {NoDoc}, rev: Nat]
NoCopy == [doc |-> NoDoc, rev |-> 0]
At(d, r) == [doc |-> d, rev |-> r]

Ui == [loading: BOOLEAN, importing: BOOLEAN, mutating: BOOLEAN,
       sync: {"settled", "checking", "attention"}]

\* An answer: what a document is at, or which documents are listed at what.
NoList == [d \in Docs |-> Unborn]
Answer == [kind: {"none", "ok", "conflict", "error"}, copy: Copy,
           list: [Docs -> Revision]]
Waiting == [kind |-> "none", copy |-> NoCopy, list |-> NoList]
Good(c) == [Waiting EXCEPT !.kind = "ok", !.copy = c]
Listed(l) == [Waiting EXCEPT !.kind = "ok", !.list = l]
Refused(kind) == [Waiting EXCEPT !.kind = kind]

(* op is the function that runs, ask the request it awaits, doc the one it *)
(* is about, at the copy it began on, got a result it holds across another *)
(* await; flag is applyChanges of a check, and of a refresh whether the    *)
(* caller clears isMutating when it returns.                               *)
Requests == {"none", "commit", "write", "get", "status", "list", "project",
             "create", "delete", "release"}
Call == [op: {"none", "done", "load", "create", "import", "cad", "open", "delete",
              "move", "edit", "step", "check", "refresh", "grid", "rename",
              "draw", "plan", "auto", "drag"},
         ask: Requests, doc: Docs \cup {NoDoc}, at: Copy, got: Copy, ans: Answer,
         dg: Nat, mg: Nat, flag: BOOLEAN]

Idle == [op |-> "none", ask |-> "none", doc |-> NoDoc, at |-> NoCopy, got |-> NoCopy,
         ans |-> Waiting, dg |-> 0, mg |-> 0, flag |-> FALSE]

Init ==
  /\ server \in [Docs -> {0, Unborn}]
  /\ \E d \in Docs : Exists(d) /\ view = At(d, 0)
  /\ ui = [loading |-> FALSE, importing |-> FALSE, mutating |-> FALSE, sync |-> "settled"]
  /\ dGen = 0 /\ mGen = 0
  /\ call = [t \in Calls |-> Idle]
  /\ faults = 0

-------------------------------------------------------------------------------
(* The server answers.                                                     *)

Answered(t, a) == call' = [call EXCEPT ![t].ans = a]
Asks(t, ask) == call[t].ask = ask /\ call[t].ans = Waiting

Missed(d) == Refused(IF Exists(d) THEN "conflict" ELSE "error")

\* A guarded write (_require_current_document, store.save): transact, undo, redo,
\* rename, move, apply of a plan.
ServeCommit(t) ==
  /\ Asks(t, "commit")
  /\ LET d == call[t].doc r == call[t].at.rev IN
       IF server[d] = r
       THEN server' = [server EXCEPT ![d] = r + 1] /\ Answered(t, Good(At(d, r + 1)))
       ELSE server' = server /\ Answered(t, Missed(d))
  /\ UNCHANGED <<page, faults>>

\* Drawing by a sentence reads its own revision.
ServeWrite(t) ==
  /\ Asks(t, "write")
  /\ LET d == call[t].doc IN
       IF Exists(d)
       THEN server' = [server EXCEPT ![d] = @ + 1] /\ Answered(t, Good(At(d, server[d] + 1)))
       ELSE server' = server /\ Answered(t, Missed(d))
  /\ UNCHANGED <<page, faults>>

ServeRead(t) ==
  /\ Asks(t, "get") \/ Asks(t, "status")
  /\ LET d == call[t].doc IN
       Answered(t, IF Exists(d) THEN Good(At(d, server[d])) ELSE Missed(d))
  /\ UNCHANGED <<page, outside>>

\* canvas-grid returns a projection of the revision it was asked for.
ServeProject(t) ==
  /\ Asks(t, "project")
  /\ LET d == call[t].doc IN
       Answered(t, IF server[d] = call[t].at.rev THEN Good(At(d, server[d])) ELSE Missed(d))
  /\ UNCHANGED <<page, outside>>

\* The list matters to those who choose a document from it.
ServeList(t) ==
  /\ Asks(t, "list")
  /\ Answered(t, Listed(IF call[t].op \in {"load", "delete", "auto"} THEN server ELSE NoList))
  /\ UNCHANGED <<page, outside>>

\* A fresh id; the model runs out of ids where the server does not.
ServeCreate(t) ==
  /\ Asks(t, "create")
  /\ \/ \E d \in Docs :
          /\ server[d] = Unborn
          /\ server' = [server EXCEPT ![d] = 0]
          /\ Answered(t, Good(At(d, 0)))
     \/ /\ \A d \in Docs : server[d] # Unborn
        /\ server' = server /\ Answered(t, Refused("error"))
  /\ UNCHANGED <<page, faults>>

\* The revision a delete expects comes from the list, which may be out of date.
ServeDelete(t) ==
  /\ Asks(t, "delete")
  /\ LET d == call[t].doc IN
       \/ /\ Exists(d)
          /\ server' = [server EXCEPT ![d] = Gone]
          /\ Answered(t, Good(NoCopy))
       \/ server' = server /\ Answered(t, Missed(d))
  /\ UNCHANGED <<page, faults>>

Serve(t) ==
  \/ ServeCommit(t) \/ ServeWrite(t) \/ ServeRead(t) \/ ServeProject(t)
  \/ ServeList(t) \/ ServeCreate(t) \/ ServeDelete(t)

\* The request is refused for another reason, or lost, or its answer is.
Fail(t) ==
  /\ faults < MaxFaults /\ call[t].ask \notin {"none", "release"}
  /\ call[t].ans.kind \in {"none", "ok"}
  /\ Answered(t, Refused("error"))
  /\ faults' = faults + 1
  /\ UNCHANGED <<page, server>>

\* MCP, REST and other browsers.
OtherWrites ==
  /\ \E d \in Docs : Exists(d) /\ server[d] < Busy /\ server' = [server EXCEPT ![d] = @ + 1]
  /\ UNCHANGED <<page, call, faults>>

-------------------------------------------------------------------------------
(* Calls of the page.                                                      *)

Shown == view.doc # NoDoc
Fresh(t) == call[t].dg = dGen

\* Mutant of AtOrigin: the revision is not compared.
AtOriginDocument(t) == Fresh(t) /\ call[t].mg = mGen /\ view.doc = call[t].at.doc

\* mutationOriginCanApply, mutationResponseCanApply
AtOrigin(t) == Fresh(t) /\ call[t].mg = mGen /\ view = call[t].at

CanApply(t, c) == AtOrigin(t) /\ c.doc = call[t].at.doc /\ c.rev >= call[t].at.rev

May(t, op) == t \in Users /\ op \in Ops /\ call[t] = Idle
\* The document tree is disabled while one of these is set or a plan is applied by
\* hand; stopping an automatic run enables it, whatever it has in flight.
TreeEnabled ==
  ~ui.loading /\ ~ui.importing /\ ~ui.mutating /\ \A t \in Users : call[t].op # "plan"

Become(t, c) == call' = [call EXCEPT ![t] = c]
Begin(op, ask, d) ==
  [Idle EXCEPT !.op = op, !.ask = ask, !.doc = d, !.at = view, !.dg = dGen', !.mg = mGen']
Await(t, ask) == Become(t, [call[t] EXCEPT !.ask = ask, !.ans = Waiting])
Hold(t, ask) ==
  Become(t, [call[t] EXCEPT !.ask = ask, !.ans = Waiting, !.got = call[t].ans.copy])
End(t) == Become(t, IF t \in Pollers THEN Idle ELSE [Idle EXCEPT !.op = "done"])

Ok(t, op, ask) == call[t].op = op /\ call[t].ask = ask /\ call[t].ans.kind = "ok"
Bad(t, op) == call[t].op = op /\ call[t].ans.kind \in {"conflict", "error"}

Sync(s) == ui' = [ui EXCEPT !.sync = s]
Loaded(s) == ui' = [ui EXCEPT !.loading = FALSE, !.sync = s]
Mutated(s) == ui' = [ui EXCEPT !.mutating = FALSE, !.sync = s]
Loading == ui' = [ui EXCEPT !.loading = TRUE, !.sync = "checking"]
Mutating == ui' = [ui EXCEPT !.mutating = TRUE, !.sync = "checking"]

SameGens == UNCHANGED <<dGen, mGen>>
NextDocument == dGen' = dGen + 1 /\ mGen' = mGen + 1
NextMutation == dGen' = dGen /\ mGen' = mGen + 1

\* A superseded continuation ends and leaves the page alone.
Drop(t) == End(t) /\ UNCHANGED <<view, ui>>

(* openDocument.                                                           *)

BeginOpen(t, d) ==
  /\ NextDocument
  /\ ui' = [ui EXCEPT !.loading = TRUE, !.importing = IF call[t].op = "cad" THEN FALSE ELSE @,
                      !.mutating = FALSE, !.sync = "checking"]
  /\ Become(t, Begin("open", "get", d))
  /\ view' = view

Open(t) == May(t, "open") /\ \E d \in Docs : server[d] # Unborn /\ BeginOpen(t, d)

\* A document that is not in the list has the list read again.
OpenRead(t) ==
  /\ Ok(t, "open", "get")
  /\ \/ ~Fresh(t) /\ Drop(t)
     \/ Fresh(t) /\ Hold(t, "list") /\ UNCHANGED <<view, ui>>
     \/ Fresh(t) /\ view' = call[t].ans.copy /\ Loaded("settled") /\ End(t)
  /\ SameGens

\* Mutant of OpenListed: the generation is not compared again.
OpenListedUnguarded(t) ==
  /\ Ok(t, "open", "list")
  /\ view' = call[t].got /\ Loaded("settled") /\ End(t) /\ SameGens

OpenListed(t) ==
  /\ Ok(t, "open", "list")
  /\ IF Fresh(t) THEN view' = call[t].got /\ Loaded("settled") /\ End(t) ELSE Drop(t)
  /\ SameGens

OpenFailed(t) ==
  /\ Bad(t, "open")
  /\ IF Fresh(t) THEN view' = view /\ Loaded("attention") /\ End(t) ELSE Drop(t)
  /\ SameGens

OpenSteps(t) == Open(t) \/ OpenRead(t) \/ OpenListed(t) \/ OpenFailed(t)

(* loadWorkspace, createDocument, the two imports of JSON, importCadDrawing. *)

Load(t) ==
  /\ May(t, "load") /\ Loading /\ SameGens /\ view' = view
  /\ Become(t, Begin("load", "list", NoDoc))

LoadChosen(t) ==
  /\ Ok(t, "load", "list") /\ call[t].got = NoCopy
  /\ LET found == {d \in Docs : call[t].ans.list[d] >= 0} IN
       \/ found = {} /\ Await(t, "create")
       \/ \E d \in found : Become(t, [call[t] EXCEPT !.ask = "get", !.ans = Waiting, !.doc = d])
  /\ SameGens /\ UNCHANGED <<view, ui>>

LoadRead(t) ==
  /\ Ok(t, "load", "get") \/ Ok(t, "load", "create")
  /\ Hold(t, "list") /\ SameGens /\ UNCHANGED <<view, ui>>

Create(t) ==
  /\ May(t, "create") /\ ~ui.loading /\ Loading /\ SameGens /\ view' = view
  /\ Become(t, Begin("create", "create", NoDoc))

Import(t) ==
  /\ SameGens /\ view' = view
  /\ \E op \in {"import", "cad"} : May(t, op) /\ Become(t, Begin(op, "create", NoDoc))
  /\ ui' = [ui EXCEPT !.importing = TRUE, !.sync = "checking"]

Created(t) ==
  /\ \E op \in {"create", "import", "cad"} : Ok(t, op, "create")
  /\ Hold(t, "list") /\ SameGens /\ UNCHANGED <<view, ui>>

\* None of these looks at what is shown by now.
Settle(t, s) ==
  /\ ui' = [ui EXCEPT !.sync = s,
                      !.loading = IF call[t].op = "import" THEN @ ELSE FALSE,
                      !.importing = IF call[t].op = "import" THEN FALSE ELSE @]
  /\ End(t) /\ SameGens

CreatedListed(t) ==
  /\ \E op \in {"load", "create", "import"} : Ok(t, op, "list")
  /\ call[t].got # NoCopy
  /\ view' = call[t].got /\ Settle(t, "settled")

CreateFailed(t) ==
  /\ \E op \in {"load", "create", "import"} : Bad(t, op)
  /\ view' = view /\ Settle(t, "attention")

CadListed(t) == Ok(t, "cad", "list") /\ BeginOpen(t, call[t].got.doc)

\* The list is read outside the try: nothing is reset when that fails.
CadFailed(t) ==
  /\ Bad(t, "cad")
  /\ ui' = IF call[t].ask = "create"
           THEN [ui EXCEPT !.importing = FALSE, !.sync = "attention"] ELSE ui
  /\ view' = view /\ End(t) /\ SameGens

CreateSteps(t) ==
  \/ Load(t) \/ LoadChosen(t) \/ LoadRead(t) \/ Create(t) \/ Import(t) \/ Created(t)
  \/ CreatedListed(t) \/ CreateFailed(t) \/ CadListed(t) \/ CadFailed(t)

(* deleteDocument, moveDocumentToFolder.                                   *)

Delete(t) ==
  /\ May(t, "delete") /\ TreeEnabled /\ NextDocument /\ view' = view /\ Loading
  /\ \E d \in Docs : server[d] # Unborn /\ Become(t, Begin("delete", "delete", d))

\* What the delete began on stays, if it is not what was deleted.
Kept(t) == IF call[t].at.doc = call[t].doc THEN NoCopy ELSE call[t].at

Deleted(t) ==
  /\ Ok(t, "delete", "delete")
  /\ IF Fresh(t)
     THEN view' = Kept(t) /\ Sync("checking") /\ Await(t, "list")
     ELSE view' = (IF view.doc = call[t].doc THEN NoCopy ELSE view) /\ ui' = ui /\ End(t)
  /\ SameGens

DeletedListed(t) ==
  /\ Ok(t, "delete", "list")
  /\ LET left == {d \in Docs : call[t].ans.list[d] >= 0} IN
       \/ ~Fresh(t) /\ Drop(t)
       \/ /\ Fresh(t) /\ (Kept(t).doc \in left \/ left = {})
          /\ view' = (IF left = {} THEN NoCopy ELSE Kept(t))
          /\ Loaded("settled") /\ End(t)
       \/ /\ Fresh(t) /\ Kept(t).doc \notin left
          /\ \E d \in left : Become(t, [call[t] EXCEPT !.ask = "get", !.ans = Waiting, !.doc = d])
          /\ UNCHANGED <<view, ui>>
  /\ SameGens

DeletedOpened(t) ==
  /\ Ok(t, "delete", "get")
  /\ IF Fresh(t) THEN view' = call[t].ans.copy /\ Loaded("settled") /\ End(t) ELSE Drop(t)
  /\ SameGens

\* Mutant of DeleteFailed: a failed refresh of the list keeps the page loading.
DeleteFailedLoading(t) ==
  /\ Bad(t, "delete")
  /\ IF Fresh(t)
     THEN view' = view /\ (IF call[t].ask = "delete" THEN Loaded("attention") ELSE Sync("attention"))
          /\ End(t)
     ELSE Drop(t)
  /\ SameGens

DeleteFailed(t) ==
  /\ Bad(t, "delete")
  /\ IF Fresh(t) THEN view' = view /\ Loaded("attention") /\ End(t) ELSE Drop(t)
  /\ SameGens

\* The revision comes from the list: any the server had.
Move(t) ==
  /\ May(t, "move") /\ TreeEnabled /\ SameGens /\ UNCHANGED <<view, ui>>
  /\ \E d \in Docs : \E r \in 0..server[d] :
       Become(t, [Begin("move", "commit", d) EXCEPT !.at = At(d, r)])

Moved(t) == Ok(t, "move", "commit") /\ Hold(t, "list") /\ SameGens /\ UNCHANGED <<view, ui>>

MovedListed(t) ==
  /\ Ok(t, "move", "list") /\ End(t) /\ SameGens /\ ui' = ui
  /\ view' = IF view.doc = call[t].doc THEN call[t].got ELSE view

MoveFailed(t) == Bad(t, "move") /\ Drop(t) /\ SameGens

TreeSteps(t) ==
  \/ Delete(t) \/ Deleted(t) \/ DeletedListed(t) \/ DeletedOpened(t) \/ DeleteFailed(t)
  \/ Move(t) \/ Moved(t) \/ MovedListed(t) \/ MoveFailed(t)

(* transact; undo and redo.                                                *)

Edit(t) ==
  /\ Shown /\ NextMutation /\ Mutating /\ view' = view
  /\ \E op \in {"edit", "step"} : May(t, op) /\ Become(t, Begin(op, "commit", view.doc))

Apply(t, c) ==
  IF CanApply(t, c) THEN view' = c /\ Mutated("settled") /\ End(t) ELSE Drop(t)

Edited(t) == Ok(t, "edit", "commit") /\ Hold(t, "list") /\ SameGens /\ UNCHANGED <<view, ui>>

EditListed(t) == Ok(t, "edit", "list") /\ Apply(t, call[t].got) /\ SameGens

Stepped(t) == Ok(t, "step", "commit") /\ Apply(t, call[t].ans.copy) /\ SameGens

\* A refused edit shows the server's copy, an undo or redo only the error.
EditFailed(t) ==
  /\ Bad(t, "edit") /\ call[t].ask # "get" /\ SameGens
  /\ IF AtOrigin(t) THEN Await(t, "get") /\ UNCHANGED <<view, ui>> ELSE Drop(t)

EditReloaded(t) ==
  /\ Bad(t, "edit") \/ Ok(t, "edit", "get")
  /\ call[t].ask = "get" /\ SameGens
  /\ IF ~AtOrigin(t)
     THEN Drop(t)
     ELSE LET got == call[t].ans.kind = "ok" IN
          /\ view' = (IF got THEN call[t].ans.copy ELSE view)
          /\ Mutated(IF got THEN "settled" ELSE "attention") /\ End(t)

StepFailed(t) ==
  /\ Bad(t, "step") /\ SameGens
  /\ IF AtOrigin(t) THEN view' = view /\ Mutated("attention") /\ End(t) ELSE Drop(t)

EditSteps(t) ==
  \/ Edit(t) \/ Edited(t) \/ EditListed(t) \/ Stepped(t) \/ EditFailed(t)
  \/ EditReloaded(t) \/ StepFailed(t)

(* checkForExternalUpdates, refreshDocument.                               *)

Dragging == \E t \in Users : call[t].op = "drag"

Check(p) ==
  /\ p \in Pollers /\ call[p] = Idle
  /\ Shown /\ ~ui.loading /\ ~ui.mutating /\ ui.sync # "checking"
  /\ SameGens /\ view' = view /\ Sync("checking")
  /\ Become(p, [Begin("check", "status", view.doc) EXCEPT !.flag = ~Dragging])

BeginRefresh(t, unlock) ==
  /\ Become(t, [Begin("refresh", "get", view.doc) EXCEPT !.flag = unlock])
  /\ Sync("checking")

Checked(p) ==
  /\ SameGens
  /\ Ok(p, "check", "status")
  /\ \/ view.doc # call[p].doc /\ Sync("settled") /\ End(p)
     \/ view.doc = call[p].doc /\ call[p].ans.copy.rev <= view.rev /\ Sync("settled") /\ End(p)
     \/ /\ view.doc = call[p].doc /\ call[p].ans.copy.rev > view.rev
        /\ IF call[p].flag THEN BeginRefresh(p, FALSE) ELSE Sync("attention") /\ End(p)
  /\ view' = view

\* Mutant of CheckFailed: a failed check has a sync state of its own.
CheckFailedOffline(p) ==
  Bad(p, "check") /\ Sync("offline") /\ End(p) /\ SameGens /\ view' = view

CheckFailed(p) == Bad(p, "check") /\ Sync("attention") /\ End(p) /\ SameGens /\ view' = view

\* The badge.
Refresh(p) ==
  /\ p \in Pollers /\ call[p] = Idle /\ Shown /\ ui.sync = "attention"
  /\ SameGens /\ view' = view /\ BeginRefresh(p, FALSE)

StillHere(t) == Fresh(t) /\ view.doc = call[t].doc

Return(t, s) ==
  /\ ui' = [ui EXCEPT !.sync = s, !.mutating = IF call[t].flag THEN FALSE ELSE @]
  /\ End(t)

Refreshed(t) ==
  /\ Ok(t, "refresh", "get") /\ SameGens /\ view' = view
  /\ IF StillHere(t) THEN Hold(t, "list") /\ ui' = ui ELSE Return(t, ui.sync)

RefreshListed(t) ==
  /\ Ok(t, "refresh", "list") /\ SameGens
  /\ IF StillHere(t)
     THEN view' = call[t].got /\ Return(t, "settled")
     ELSE view' = view /\ Return(t, ui.sync)

\* Mutant of RefreshFailed: the sync state is left as it is.
RefreshFailedSilent(t) ==
  /\ Bad(t, "refresh") /\ SameGens /\ view' = view /\ Return(t, ui.sync)

RefreshFailed(t) ==
  /\ Bad(t, "refresh") /\ SameGens /\ view' = view
  /\ Return(t, IF StillHere(t) THEN "attention" ELSE ui.sync)

PollSteps(t) ==
  \/ Checked(t) \/ CheckFailed(t) \/ Refreshed(t) \/ RefreshListed(t) \/ RefreshFailed(t)

(* The fine grid, a rename, drawing by a sentence, an agent's plan applied *)
(* by hand or automatically: panels that write to the store.               *)

Grid(t) ==
  /\ May(t, "grid") /\ Shown /\ ~ui.mutating /\ Mutating /\ SameGens /\ view' = view
  /\ Become(t, Begin("grid", "project", view.doc))

\* Whatever is shown by now is replaced.
Gridded(t) ==
  /\ Ok(t, "grid", "project") /\ view' = call[t].ans.copy
  /\ Mutated("settled") /\ End(t) /\ SameGens

GridFailed(t) ==
  /\ Bad(t, "grid") /\ SameGens /\ view' = view
  /\ IF call[t].ans.kind = "conflict" /\ Shown
     THEN BeginRefresh(t, TRUE)
     ELSE Mutated(IF call[t].ans.kind = "conflict" THEN ui.sync ELSE "attention") /\ End(t)

Commit(t) ==
  /\ Shown /\ SameGens /\ UNCHANGED <<view, ui>>
  /\ \/ \E op \in {"rename", "plan", "auto"} : May(t, op) /\ Become(t, Begin(op, "commit", view.doc))
     \/ May(t, "draw") /\ Become(t, Begin("draw", "write", view.doc))

Renamed(t) ==
  /\ Ok(t, "rename", "commit") /\ SameGens
  /\ IF view = call[t].at
     THEN /\ view' = call[t].ans.copy /\ Sync("checking")
          /\ Become(t, [Begin("refresh", "get", view.doc) EXCEPT !.at = call[t].ans.copy])
     ELSE Drop(t)

\* Checked before the list is awaited, not after.
Planned(t) ==
  /\ Ok(t, "plan", "commit") /\ SameGens /\ UNCHANGED <<view, ui>>
  /\ IF view = call[t].at THEN Hold(t, "list") ELSE End(t)

Drawn(t) ==
  /\ Ok(t, "draw", "write") /\ SameGens /\ UNCHANGED <<view, ui>>
  /\ IF view.doc = call[t].doc THEN Await(t, "get") ELSE End(t)

DrawnRead(t) ==
  /\ Ok(t, "draw", "get") \/ Ok(t, "auto", "commit")
  /\ Hold(t, "list") /\ SameGens /\ UNCHANGED <<view, ui>>

PlanListed(t) ==
  /\ Ok(t, "plan", "list") \/ Ok(t, "draw", "list")
  /\ view' = call[t].got /\ Sync("settled") /\ End(t) /\ SameGens

\* automaticAgentApplyResponseError
AutoListed(t) ==
  /\ Ok(t, "auto", "list") /\ SameGens /\ End(t)
  /\ LET listed == call[t].ans.list[call[t].doc] IN
       IF view = call[t].at /\ listed >= 0 /\ listed <= call[t].got.rev
       THEN view' = call[t].got /\ Sync("settled")
       ELSE IF listed < 0 /\ view.doc = call[t].doc
            THEN view' = NoCopy /\ Sync("settled")
            ELSE UNCHANGED <<view, ui>>

PanelFailed(t) ==
  /\ \E op \in {"rename", "plan", "draw", "auto"} : Bad(t, op)
  /\ Drop(t) /\ SameGens

\* The pointer is down on the canvas.
Drag(t) ==
  /\ May(t, "drag") /\ ~Dragging /\ Shown /\ SameGens /\ UNCHANGED <<view, ui>>
  /\ Become(t, Begin("drag", "release", view.doc))

DragEnd(t) == call[t].op = "drag" /\ Drop(t) /\ SameGens

PanelSteps(t) ==
  \/ Grid(t) \/ Gridded(t) \/ GridFailed(t) \/ Commit(t) \/ Renamed(t) \/ Planned(t)
  \/ Drawn(t) \/ DrawnRead(t) \/ PlanListed(t) \/ AutoListed(t) \/ PanelFailed(t)
  \/ Drag(t) \/ DragEnd(t)

-------------------------------------------------------------------------------
Poll(p) == (Check(p) \/ Refresh(p)) /\ UNCHANGED outside

Continue(t) ==
  /\ \/ OpenSteps(t) \/ CreateSteps(t) \/ TreeSteps(t) \/ EditSteps(t) \/ PollSteps(t)
     \/ PanelSteps(t)
  /\ UNCHANGED outside

Next ==
  \/ \E t \in Calls : Serve(t) \/ Fail(t) \/ Continue(t)
  \/ \E p \in Pollers : Poll(p)
  \/ OtherWrites

Spec == Init /\ [][Next]_vars

\* Requests are answered, continuations run and the timer fires; nothing makes the
\* user, or anybody else, do something.
Pending(t) == call[t].ask # "none"
FairSpec ==
  /\ Spec
  /\ \A t \in Calls : WF_vars(Serve(t)) /\ WF_vars(Pending(t) /\ Continue(t))
  /\ \A p \in Pollers : WF_vars(Check(p) /\ UNCHANGED outside)

-------------------------------------------------------------------------------
(* Properties.                                                             *)

\* The store keeps its shape, and every call its own.
TypeOK ==
  /\ server \in [Docs -> Revision]
  /\ view \in Copy
  /\ ui \in Ui
  /\ dGen \in Nat /\ mGen \in Nat /\ faults \in Nat
  /\ call \in [Calls -> Call]

\* Nothing is shown that was not saved: no page is ahead of the server (store.ts
\* replaces the copy by answers only, in whatever order they come).
NeverAhead == Shown => server[view.doc] = Gone \/ view.rev <= server[view.doc]

\* The answer to an edit, an undo or a redo moves the copy by exactly that edit:
\* no write of another client is skipped or taken back unseen
\* (mutationResponseCanApply).
EditsShowThemselves ==
  [][\A t \in Users :
       /\ \/ call[t].op = "edit" /\ call[t].ask \in {"commit", "list"}
          \/ call[t].op = "step"
       /\ call'[t] # call[t] /\ view' # view
       => view'.doc = view.doc /\ view'.rev = view.rev + 1]_vars

\* An edit, undo, redo or rename, and a plan applied automatically, never takes
\* the copy back, nor to another document, also when it reads the document again
\* after a refusal.  A plan takes the copy off the page when its document is gone
\* (mutationOriginCanApply, automaticAgentApplyResponseError).
Guarded == {"edit", "step", "rename", "auto"}
EditsGoForward ==
  [][\A t \in Users :
       call[t].op \in Guarded /\ call'[t] # call[t] /\ view' # view
       => \/ view'.doc = view.doc /\ view'.rev > view.rev
          \/ call[t].op = "auto" /\ view' = NoCopy]_vars

\* An open or a refresh never shows its document over one that the user has
\* asked for since (requestGeneration in store.ts).
NewestOpenWins ==
  [][\A t \in Calls, u \in Users :
       /\ call[t].op \in {"open", "refresh"} /\ call[u].op \in {"open", "delete"}
       /\ call'[t] # call[t] /\ view'.doc # view.doc
       => call[u].dg <= call[t].dg]_vars

\* The page never stays "loading", whichever calls overtake each other: the last
\* of them resets it.
LoadingEnds == <>[]~ui.loading

Current == Shown /\ Exists(view.doc) => view.rev = server[view.doc]

\* What other clients commit gets onto the canvas, if no isMutating or importing is
\* left behind by a call that ended.
FollowsUnlessBusy == <>[](ui.mutating \/ ui.importing \/ Current)

\* docs/agent-integration.md:124: an open page reads a document again after another
\* client has committed a new revision.
FollowsTheServer == <>[]Current

===============================================================================
