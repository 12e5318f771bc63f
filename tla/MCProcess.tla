----------------------------- MODULE MCProcess -----------------------------
(* Instances of the process runner for TLC: one call at a time with output *)
(* and background children, and two calls at once.                         *)
EXTENDS Process, TLC

(* Threads and pids are interchangeable. *)
Symmetry == Permutations(Threads) \cup Permutations(Pids)
=============================================================================
