--------------------------- MODULE VersionedDrawing ---------------------------
(***************************************************************************)
(* What the document kernel promises its callers, without threads, stacks  *)
(* or compare-and-set: every drawing has one timeline of versions and a    *)
(* position in it, and each successful call is one atomic step on the      *)
(* timeline as it stands at that instant.                                  *)
(*                                                                         *)
(*   Edit    forgets the versions after the position and appends one;      *)
(*   Undo    moves the position one version back;                          *)
(*   Redo    moves it one version forward;                                 *)
(*                                                                         *)
(* and all three advance the revision number by exactly one.  Only Edit    *)
(* may forget a version, and it forgets at most the oldest one beyond      *)
(* HistoryLimit.                                                           *)
(*                                                                         *)
(* A drawing that is removed and created again has no memory of its past,  *)
(* but calls may: one that saw it then, and at the revision it is at now,  *)
(* makes its step on what it saw (Overtake).  DocumentStore implements     *)
(* this specification.                                                     *)
(***************************************************************************)
EXTENDS Naturals, Sequences

CONSTANTS
  Docs,          \* document ids
  Drawings,      \* what a version may look like
  Revisions,     \* the revision numbers a drawing may be created at
  HistoryLimit   \* how many versions behind the current one are kept

VARIABLES
  cell,   \* cell[d]: the timeline of document d, or Gone
  ghosts  \* ghosts[d]: the earlier timelines of d that calls in flight saw;
          \* an input, it changes as the callers please

Gone == [rev |-> 0, at |-> 0, versions |-> <<>>]

Exists(d) == cell[d].at # 0

\* A drawing at version n of its timeline.
Cell(r, n, vs) == [rev |-> r, at |-> n, versions |-> vs]

Init == cell = [d \in Docs |-> Gone]

Become(d, c) == cell' = [cell EXCEPT ![d] = c]

\* A new drawing has no past, or the empty sheet as its only past version.
Create(d) ==
  /\ ~Exists(d)
  /\ \E x \in Drawings :
       \/ \E r \in Revisions : Become(d, Cell(r, 1, <<x>>))
       \/ \E y \in Drawings : Become(d, Cell(1, 2, <<y, x>>))

\* The three steps as made on a timeline c of d.
EditOn(d, c) ==
  \E x \in Drawings :
    LET kept == IF c.at > HistoryLimit THEN 2 ELSE 1
        past == SubSeq(c.versions, kept, c.at)
    IN  Become(d, Cell(c.rev + 1, Len(past) + 1, Append(past, x)))

UndoOn(d, c) ==
  /\ c.at > 1
  /\ Become(d, Cell(c.rev + 1, c.at - 1, c.versions))

RedoOn(d, c) ==
  /\ c.at < Len(c.versions)
  /\ Become(d, Cell(c.rev + 1, c.at + 1, c.versions))

Edit(d) == Exists(d) /\ EditOn(d, cell[d])
Undo(d) == Exists(d) /\ UndoOn(d, cell[d])
Redo(d) == Exists(d) /\ RedoOn(d, cell[d])

Overtake(d) ==
  /\ Exists(d)
  /\ \E c \in ghosts[d] :
       /\ c.rev = cell[d].rev
       /\ EditOn(d, c) \/ UndoOn(d, c) \/ RedoOn(d, c)

Remove(d) == Exists(d) /\ Become(d, Gone)

Next == \E d \in Docs : Create(d) \/ Edit(d) \/ Undo(d) \/ Redo(d) \/ Overtake(d)
                   \/ Remove(d)

Spec == Init /\ [][Next]_cell

===============================================================================
