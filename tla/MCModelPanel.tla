---------------------------- MODULE MCModelPanel ----------------------------
(* Small instances of ModelPanel for TLC. *)
EXTENDS ModelPanel, TLC

\* Downloads are interchangeable, and so are models: sound for safety.
Symmetry == Permutations(Calls) \cup Permutations(Models)

=============================================================================
