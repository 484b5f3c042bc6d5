---------------------- MODULE MCDictationController ----------------------
(* Small instances of DictationController for TLC. *)
EXTENDS DictationController, TLC

\* Session identifiers are interchangeable: sound for safety.
SessionSymmetry == Permutations(Sessions)

=============================================================================
