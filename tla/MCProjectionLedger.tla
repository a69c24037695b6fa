------------------------- MODULE MCProjectionLedger -------------------------
(* Instances of ProjectionLedger for TLC: everybody's uploads are the      *)
(* first account's, except those of Visitors.                              *)
EXTENDS ProjectionLedger, TLC

CONSTANTS Account, Visitor, Visitors

MCOwners == {Account, Visitor}
MCOwner == [u \in Uploads |-> IF u \in Visitors THEN Visitor ELSE Account]

\* For safety only.
Symmetry == Permutations(Uploads \ Visitors)

=============================================================================
