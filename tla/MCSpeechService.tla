--------------------------- MODULE MCSpeechService ---------------------------
(***************************************************************************)
(* Instances of SpeechService for TLC.                                     *)
(***************************************************************************)
EXTENDS SpeechService, TLC

\* Session identifiers are only compared for equality.
SessionSymmetry == Permutations(Sessions)

=============================================================================
