---------------------------- MODULE MCNextCreator ----------------------------
(* Instances of NextCreator for TLC. *)
EXTENDS NextCreator, TLC

CONSTANTS n1, n2, n3, n4   \* CVNs; n1 is in the genesis block

\* Nothing distinguishes the CVNs that are added later.
LaterCvns == Permutations({n2, n3})
=============================================================================
