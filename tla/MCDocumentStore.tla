--------------------------- MODULE MCDocumentStore ----------------------------
(* Instances of DocumentStore for TLC.  The workers are interchangeable, and so are *)
(* the drawings other than the blank one.                                        *)
EXTENDS DocumentStore, TLC

Interchangeable ==
  Permutations(Workers) \cup Permutations(Drawings \ {Blank})

===============================================================================
