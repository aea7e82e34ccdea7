---------------------------- MODULE Cooperation -----------------------------
(***************************************************************************)
(* What proof-of-cooperation promises of every block (src/doc/             *)
(* on-proof-of-cooperation.md), without saying how it is reached: a block  *)
(* extends a chain when each of its cosigners has voted for exactly that   *)
(* extension, i.e. for the parent, the creator and the CVNs that are       *)
(* missing.                                                                *)
(***************************************************************************)
EXTENDS Sequences

CONSTANTS
    Voters,  \* the CVNs
    NoOne,   \* no CVN
    Root     \* the chain to begin with

VARIABLES
    votes,   \* the votes, never withdrawn: [voter, prev, creator, missing]
    chains   \* the chains that exist

Vote(n, prev, creator, missing) ==
    [voter |-> n, prev |-> prev, creator |-> creator, missing |-> missing]

\* A block that adds no CVN.
Block(creator, missing) ==
    [nCreatorId |-> creator, vMissingSignerIds |-> missing, added |-> NoOne,
     mapCVNs |-> Voters]

Init ==
    /\ votes = {}
    /\ chains = {Root}

\* A CVN votes; it may vote again and differently.
CastVote ==
    /\ \E n \in Voters, prev \in chains, creator \in Voters, missing \in SUBSET Voters :
          votes' = votes \cup {Vote(n, prev, creator, missing)}
    /\ UNCHANGED chains

\* A block by the creator, which all CVNs but the missing ones have voted for
\* and at least two of them.
Extend ==
    /\ \E prev \in chains, creator \in Voters, missing \in SUBSET Voters :
          /\ \E n, m \in Voters \ missing : n # m
          /\ \A n \in Voters \ missing : Vote(n, prev, creator, missing) \in votes
          /\ chains' = chains \cup {Append(prev, Block(creator, missing))}
    /\ UNCHANGED votes

Next == CastVote \/ Extend

Spec == Init /\ [][Next]_<<votes, chains>>
=============================================================================
