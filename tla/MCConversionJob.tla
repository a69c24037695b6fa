-------------------------- MODULE MCConversionJob --------------------------
(* Instances of ConversionJob for TLC.                                     *)
EXTENDS ConversionJob, TLC

\* Posts and clients are interchangeable.
Symmetry == Permutations(Posts) \cup Permutations(Clients)

=============================================================================
