--------------------------- MODULE MC_Dispatcher ---------------------------
(* Model-checking definitions for Dispatcher.tla. *)
EXTENDS Dispatcher, TLC

\* Clients are interchangeable: which one connects first is already a
\* nondeterministic choice of the model.
ClientSymmetry == Permutations(Clients)

=============================================================================
