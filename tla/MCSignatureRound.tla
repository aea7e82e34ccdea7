-------------------------- MODULE MCSignatureRound --------------------------
(* Instances of SignatureRound for TLC. *)
EXTENDS SignatureRound

Block(creator, added, members) ==
    [nCreatorId |-> creator, vMissingSignerIds |-> {}, added |-> added,
     mapCVNs |-> members]

(* A chain of three CVNs that was bootstrapped on time, block by block, by *)
(* the rules: each new CVN creates the block after the one that adds it.   *)
ThreeCvns ==
    <<Block(1, 1, {1}), Block(1, 2, {1, 2}), Block(2, 3, {1, 2, 3}),
      Block(3, NoCvn, {1, 2, 3})>>

\* The same chain before its third CVN.
TwoCvns ==
    <<Block(1, 1, {1}), Block(1, 2, {1, 2}), Block(2, NoCvn, {1, 2})>>
=============================================================================
