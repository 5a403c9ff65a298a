----------------------------- MODULE MCDispatch -----------------------------
(* Small instances of Dispatch for TLC. *)
EXTENDS Dispatch, TLC

\* Requests and workers are interchangeable when no handler is slow.
Symmetry == Permutations(Requests) \cup Permutations(Workers)

=============================================================================
