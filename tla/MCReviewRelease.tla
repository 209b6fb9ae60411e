---------------------------- MODULE MCReviewRelease ---------------------------
(* Instances of ReviewRelease for TLC: threads and requests are interchangeable. *)
EXTENDS ReviewRelease, TLC

Interchangeable == Permutations(Threads) \cup Permutations(Requests)

===============================================================================
