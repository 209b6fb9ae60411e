----------------------------- MODULE MCEditorSync -----------------------------
(* Instances of EditorSync for TLC: calls and documents are interchangeable. *)
EXTENDS EditorSync, TLC

Interchangeable == Permutations(Users) \cup Permutations(Docs)

===============================================================================
