-------------------------- MODULE MCSettingsPanel --------------------------
(* Small instances of SettingsPanel for TLC. *)
EXTENDS SettingsPanel, TLC

\* The other fields are interchangeable: sound for safety.
Symmetry == Permutations(Choices)

=============================================================================
