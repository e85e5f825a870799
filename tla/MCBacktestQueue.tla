--------------------------- MODULE MCBacktestQueue ---------------------------
(* Small instances of BacktestQueue for TLC. *)
EXTENDS BacktestQueue, TLC

\* Jobs and request threads are interchangeable: both are used only as
\* elements of sets and function domains.
Interchangeable == Permutations(Job) \cup Permutations(Handler)
=============================================================================
