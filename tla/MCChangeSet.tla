------------------------------ MODULE MCChangeSet ------------------------------
(* Instances of ChangeSet for TLC: one cable document, its links to a drawing. *)
EXTENDS ChangeSet, TLC

FromCable == [l \in Links |-> "cable"]
ToDrawing == [l \in Links |-> "drawing"]

\* A change of both documents, and one that removes what the links refer to.
BothOrRemoval == {[mutates |-> {"cable", "drawing"}, removes |-> {}],
                  [mutates |-> {"drawing"}, removes |-> {"drawing"}]}

Interchangeable ==
  Permutations(Links) \cup Permutations(ChangeSets) \cup Permutations(Sessions)
    \cup Permutations(Calls) \cup Permutations(Workers)

===============================================================================
