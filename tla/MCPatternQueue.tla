--------------------------- MODULE MCPatternQueue ---------------------------
(* Instances of PatternQueue for TLC.                                      *)
EXTENDS PatternQueue, TLC

\* Folder names, requests, recognised contents and keys are interchangeable.
Symmetry == Permutations(Jobs) \cup Permutations(Deleters)

=============================================================================
