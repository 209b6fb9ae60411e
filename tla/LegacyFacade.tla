----------------------------- MODULE LegacyFacade ------------------------------
(***************************************************************************)
(* The v1 compatibility facade over the document kernel.                   *)
(*                                                                         *)
(* The facade always works on one document, which it opens on first use:   *)
(* it reads, and when it finds none it saves a blank one without an        *)
(* expected revision.  Its edits, undo and redo are the kernel's.          *)
(***************************************************************************)
EXTENDS DocumentStore, TLC

CONSTANT Canvas  \* the facade's document id, "doc_legacy", one of Docs

\* The kernel never draws the facade's id: it counts as given from the start,
\* and the canvas is one document however often the facade opens it.
FacadeInit ==
  /\ documents = [d \in Docs |-> NoRow]
  /\ history = [d \in Docs |-> <<>>]
  /\ specs = {}
  /\ work = [w \in Workers |-> Idle]
  /\ life = [d \in Docs |-> IF d = Canvas THEN 1 ELSE 0]

BlankCanvas == NewRow(0, Blank, <<>>)

\* The facade looks for its document and finds none.
MissCanvas(w) ==
  /\ ~documents[Canvas].live
  /\ Take(w, [op |-> "canvas", doc |-> Canvas, base |-> BlankCanvas,
               to |-> Blank, life |-> life[Canvas]])

\* store.save without expected_revision: INSERT ... ON CONFLICT DO UPDATE, and
\* no history entry.
SaveCanvas(w) ==
  /\ work[w].op = "canvas"
  /\ documents' = [documents EXCEPT ![Canvas] = BlankCanvas]
  /\ work' = [work EXCEPT ![w] = Idle]
  /\ UNCHANGED <<history, specs, life>>

FacadeNext == Next \/ \E w \in Workers : MissCanvas(w) \/ SaveCanvas(w)

FacadeSpec == FacadeInit /\ [][FacadeNext]_vars

(***************************************************************************)
(* Opening the canvas never undoes work: when the facade writes its blank  *)
(* document there is nothing there to replace but one as blank and as new  *)
(* (README, "document revision" optimistic concurrency).                   *)
(***************************************************************************)
OpeningReplacesNothing ==
  \A w \in Workers :
    work[w].op = "canvas" /\ documents[Canvas].live
      => documents[Canvas] = BlankCanvas

-------------------------------------------------------------------------------
(* What there is of the kernel without the canvas: the other documents,    *)
(* their rows and what is held for them.  A worker that serves the canvas  *)
(* is idle there.                                                          *)
Others == Docs \ {Canvas}
OnCanvas(w) == work[w] # Idle /\ work[w].doc = Canvas

OtherRows == [d \in Others |-> documents[d]]
OtherHistory == [d \in Others |-> history[d]]
OtherSpecs == {s \in specs : s.doc # Canvas}
OtherWork == [w \in Workers |-> IF OnCanvas(w) THEN Idle ELSE work[w]]
OtherLives == [d \in Others |-> life[d]]

Elsewhere == INSTANCE DocumentStore WITH
  Docs <- Others, documents <- OtherRows, history <- OtherHistory,
  specs <- OtherSpecs, work <- OtherWork, life <- OtherLives

(***************************************************************************)
(* The facade is never noticed elsewhere: beside it, all other documents   *)
(* have a kernel to themselves, though they share its tables and handlers  *)
(* (store.save's INSERT ... ON CONFLICT names one id).                     *)
(***************************************************************************)
UnnoticedElsewhere == Elsewhere!Spec

Interchangeable ==
  Permutations(Workers) \cup Permutations(Drawings \ {Blank})

===============================================================================
