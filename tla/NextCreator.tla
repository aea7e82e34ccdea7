------------------------------ MODULE NextCreator ------------------------------
(***************************************************************************)
(* Who creates the next block: CheckNextBlockCreator and what it rests on  *)
(* (src/src/poc.cpp), together with the rules on the number of signatures  *)
(* that the block factory and CheckProofOfCooperation apply.               *)
(*                                                                         *)
(* One node watches one chain grow.  Every block is created in some grace  *)
(* period after the block spacing has passed (slot 0 is on time), by the   *)
(* CVN that the rules choose for that slot; some registered CVNs may not   *)
(* have signed; a block may add or remove a CVN.  A CVN that is seen to    *)
(* create two blocks on one parent is banned, in memory only.              *)
(***************************************************************************)
EXTENDS Integers, Sequences, FiniteSets, FiniteSetsExt

CONSTANTS
    Cvns,        \* CVN ids
    GenesisCvn,  \* GENESIS_NODE_ID
    NoCvn,       \* the id 0
    MinSuccessiveSignatures,     \* dynParams.nMinSuccessiveSignatures
    BlocksToScan,                \* POC_BLOCKS_TO_SCAN
    BlocksToConsiderForSigCheck, \* dynParams.nBlocksToConsiderForSigCheck
    PercentageOfSignaturesMean,  \* dynParams.nPercentageOfSignaturesMean
    MaxHeight,   \* bound on the height of the chain
    MaxSlot,     \* bound on the grace periods that pass without a block
    MaxMissing,  \* bound on the signatures that a block lacks
    AddAt,       \* the heights at which the admins may add a CVN,
    RemoveAt,    \*   or remove one
    MaxBans      \* bound on the CVNs that are banned at a time

ASSUME CreatorConstants ==
    /\ IsFiniteSet(Cvns)
    /\ GenesisCvn \in Cvns
    /\ NoCvn \notin Cvns
    /\ MinSuccessiveSignatures \in Nat \ {0}
    /\ BlocksToScan \in Nat \ {0}
    /\ BlocksToConsiderForSigCheck \in 1..100
    /\ PercentageOfSignaturesMean \in 33..100
    /\ {MaxHeight, MaxSlot, MaxMissing, MaxBans} \subseteq Nat

VARIABLES
    chain,   \* the active chain, genesis first: chain[h + 1] has height h
    banned   \* the keys of mapBannedCVNs

vars == <<chain, banned>>

\* What the rules read of a block: its creator, vMissingSignerIds, the CVN
\* its payload adds (nHeightAdded = its height) and mapCVNs once connected.
Block == [nCreatorId : Cvns, vMissingSignerIds : SUBSET Cvns,
          added : Cvns \cup {NoCvn}, mapCVNs : SUBSET Cvns]

GenesisBlock == [nCreatorId |-> GenesisCvn, vMissingSignerIds |-> {},
                 added |-> GenesisCvn, mapCVNs |-> {GenesisCvn}]

Height == Len(chain) - 1

mapCVNs == chain[Len(chain)].mapCVNs

\* The k-th block back from the tip, which is the first.
Back(k) == chain[Len(chain) + 1 - k]
-----------------------------------------------------------------------------
(* The scan of CheckNextBlockCreator: the creators of the last blocks in   *)
(* the order they are met (vCreatorCandidates), and how many of the first  *)
(* nMinSuccessiveSignatures of those blocks each registered CVN signed     *)
(* (mapLastSignatures).  Blocks of removed and banned CVNs are passed      *)
(* over; `left' is nMinSignatures.                                         *)

\* Mutant of Ignored: the blocks of banned CVNs are not passed over.
IgnoredRemoved(b) == b.nCreatorId \notin mapCVNs

Ignored(b) == b.nCreatorId \notin mapCVNs \/ b.nCreatorId \in banned

Seen(s, c) == \E i \in DOMAIN s : s[i] = c

ScanBlock(s, b) ==
    [cands |-> IF Seen(s.cands, b.nCreatorId) THEN s.cands
               ELSE Append(s.cands, b.nCreatorId),
     sigs  |-> IF s.left = 0 THEN s.sigs
               ELSE [c \in Cvns |->
                        IF c \in mapCVNs \ b.vMissingSignerIds
                        THEN s.sigs[c] + 1 ELSE s.sigs[c]],
     left  |-> IF s.left = 0 THEN 0 ELSE s.left - 1]

ScanDone(s) == Len(s.cands) = Cardinality(mapCVNs) /\ s.left = 0

Scan ==
    LET n == IF Len(chain) < BlocksToScan THEN Len(chain) ELSE BlocksToScan
        f[k \in 0..n] ==
            IF k = 0
            THEN [cands |-> << >>, sigs |-> [c \in Cvns |-> 0],
                  left |-> MinSuccessiveSignatures]
            ELSE LET s == f[k - 1]
                 IN  IF ScanDone(s) \/ Ignored(Back(k)) THEN s
                     ELSE ScanBlock(s, Back(k))
    IN  f[n]

\* The CVN that was added last, unless it has created a block since.
FindNewlyAddedCVN ==
    LET h == Max({i \in DOMAIN chain : chain[i].added # NoCvn})
        c == chain[h].added
    IN  IF \E i \in (h + 1)..Len(chain) : chain[i].nCreatorId = c THEN NoCvn ELSE c

\* The CVNs that sign but have not created a block within the scan.
DormantNodes(s) ==
    {c \in Cvns \ banned : /\ ~Seen(s.cands, c)
                           /\ s.sigs[c] >= MinSuccessiveSignatures}

LastCreated(c) ==
    Max({0} \cup {i \in DOMAIN chain : chain[i].nCreatorId = c})

\* Mutant of FindDormantNode: of several, the first that is met is taken.
FindDormantNodeNewest(s) ==
    LET nodes == DormantNodes(s)
    IN  IF Cardinality(nodes) = 1 THEN CHOOSE c \in nodes : TRUE
        ELSE IF nodes = {} \/ \E c \in nodes : LastCreated(c) = 0 THEN NoCvn
        ELSE CHOOSE c \in nodes :
                \A d \in nodes : LastCreated(c) >= LastCreated(d)

(* A single dormant node is taken at once.  Of several, the blocks of the  *)
(* chain are gone through backwards until the last of them is met: if one  *)
(* of them has never created a block there is no answer.                   *)
FindDormantNode(s) ==
    LET nodes == DormantNodes(s)
    IN  IF Cardinality(nodes) = 1 THEN CHOOSE c \in nodes : TRUE
        ELSE IF nodes = {} \/ \E c \in nodes : LastCreated(c) = 0 THEN NoCvn
        ELSE CHOOSE c \in nodes :
                \A d \in nodes : LastCreated(c) <= LastCreated(d)

\* nNextCreatorId before the candidates are gone through.
Favoured(s) ==
    IF FindNewlyAddedCVN # NoCvn THEN FindNewlyAddedCVN
    ELSE IF Len(s.cands) < Cardinality(mapCVNs) THEN FindDormantNode(s)
    ELSE NoCvn

\* Mutant of Candidates: the list is read from its beginning.
CandidatesForward(s) ==
    IF Favoured(s) = NoCvn THEN s.cands ELSE Append(s.cands, Favoured(s))

\* vCreatorCandidates from its end: the first has the highest time-weight.
Candidates(s) ==
    LET n == Len(s.cands)
        byWeight == [i \in 1..n |-> s.cands[n + 1 - i]]
    IN  IF Favoured(s) = NoCvn THEN byWeight ELSE <<Favoured(s)>> \o byWeight

\* Mutant of Choice: the requirement is never lowered.
ChoiceStrict(s, slot) ==
    LET cs == Candidates(s)
        tail == ((slot % Len(cs)) + 1)..Len(cs)
        able == {i \in tail : s.sigs[cs[i]] >= MinSuccessiveSignatures}
    IN  IF cs = << >> THEN NoCvn
        ELSE IF able = {} THEN Favoured(s)
        ELSE cs[Min(able)]

(* The candidate for the given number of grace periods (an offset into the *)
(* list).  From the offset on, the first candidate that signed the         *)
(* required number of blocks is chosen; if there is none the requirement   *)
(* is lowered by one, as long as it is not 0.                              *)
Choice(s, slot) ==
    LET cs == Candidates(s)
        tail == ((slot % Len(cs)) + 1)..Len(cs)
        most == Max({s.sigs[cs[i]] : i \in tail})
    IN  IF cs = << >> THEN NoCvn
        ELSE IF most = 0 THEN Favoured(s)
        ELSE cs[Min({i \in tail : s.sigs[cs[i]] = most})]

CheckNextBlockCreator(slot) == Choice(Scan, slot)
-----------------------------------------------------------------------------
(* The number of signatures of a block.                                    *)

GetNumChainSigs(h) ==
    IF h = 0 THEN Cardinality(chain[1].mapCVNs)
    ELSE Cardinality(chain[h].mapCVNs) - Cardinality(chain[h + 1].vMissingSignerIds)

HasEnoughSignatures(n) ==
    LET k == IF Len(chain) < BlocksToConsiderForSigCheck THEN Len(chain)
             ELSE BlocksToConsiderForSigCheck
        sum == MapThenSumSet(GetNumChainSigs, (Height - k + 1)..Height)
    IN  n * k * 100 > sum * PercentageOfSignaturesMean

\* Mutant of FactoryAccepts: no comparison with half of the previous block.
FactoryAcceptsAny(missing) ==
    LET n == Cardinality(mapCVNs) - Cardinality(missing)
    IN  /\ Cardinality(mapCVNs) # 1 => HasEnoughSignatures(n)
        /\ n > 0 /\ GetNumChainSigs(Height) > 0

\* The block factory: DetermineBestSignatureSet (unless there is only one
\* CVN) and the checks of CreateNewBlock.
FactoryAccepts(missing) ==
    LET n == Cardinality(mapCVNs) - Cardinality(missing)
        prev == GetNumChainSigs(Height)
    IN  /\ Cardinality(mapCVNs) # 1 => HasEnoughSignatures(n)
        /\ n > 0 /\ prev > 0
        /\ prev > 1 => prev < 2 * n

\* What CheckProofOfCooperation asks of the number of signatures.
EnoughForValidation(missing) ==
    LET n == Cardinality(mapCVNs) - Cardinality(missing)
        prev == GetNumChainSigs(Height)
    IN  /\ n > 0 /\ prev > 0
        /\ prev > n => HasEnoughSignatures(n)
-----------------------------------------------------------------------------
\* The CVN payload of the next block: none, or one CVN added or removed.
Payloads ==
    {[added |-> NoCvn, mapCVNs |-> mapCVNs]}
    \cup {[added |-> c, mapCVNs |-> mapCVNs \cup {c}] :
            c \in IF Height + 1 \in AddAt THEN Cvns \ mapCVNs ELSE {}}
    \cup {[added |-> NoCvn, mapCVNs |-> mapCVNs \ {c}] :
            c \in IF Height + 1 \in RemoveAt /\ Cardinality(mapCVNs) > 1
                  THEN mapCVNs ELSE {}}

\* A block by c is connected.
ConnectBlock(c, missing, payload) ==
    chain' = Append(chain, [nCreatorId |-> c, vMissingSignerIds |-> missing,
                            added |-> payload.added, mapCVNs |-> payload.mapCVNs])

\* Mutant of CreateBlock: "can not determine block creator" is ignored.
CreateBlockByAny(slot) ==
    /\ Height < MaxHeight
    /\ \E missing \in SUBSET mapCVNs, payload \in Payloads :
          /\ Cardinality(missing) <= MaxMissing
          /\ FactoryAccepts(missing)
          /\ EnoughForValidation(missing)
          /\ ConnectBlock(CheckNextBlockCreator(slot), missing, payload)
    /\ UNCHANGED banned

\* CreateNewBlock by the chosen CVN; the node checks the block (its creator
\* signature needs a registered CVN) and connects it.
CreateBlock(slot) ==
    LET c == CheckNextBlockCreator(slot)
    IN  /\ Height < MaxHeight
        /\ c \in mapCVNs
        /\ \E missing \in SUBSET mapCVNs, payload \in Payloads :
              /\ Cardinality(missing) <= MaxMissing
              /\ FactoryAccepts(missing)
              /\ EnoughForValidation(missing)
              /\ ConnectBlock(c, missing, payload)
        /\ UNCHANGED banned

\* CheckDuplicateBlock: a second block by c on a parent arrives.
Ban(c) ==
    /\ Cardinality(banned) < MaxBans
    /\ c \notin banned
    /\ \E i \in 2..Len(chain) : chain[i].nCreatorId = c
    /\ banned' = banned \cup {c}
    /\ UNCHANGED chain

\* mapBannedCVNs is not saved.
Restart ==
    /\ banned # {}
    /\ banned' = {}
    /\ UNCHANGED chain

Init ==
    /\ chain = <<GenesisBlock>>
    /\ banned = {}

Next ==
    \/ \E slot \in 0..MaxSlot : CreateBlock(slot)
    \/ \E c \in Cvns : Ban(c)
    \/ Restart

Spec == Init /\ [][Next]_vars
-----------------------------------------------------------------------------
(* Every block of the chain has a CVN as its creator, CVNs missing and     *)
(* registered: a block nobody is entitled to (CheckNextBlockCreator        *)
(* returns 0) never gets into it.                                          *)
TypeOK ==
    /\ chain \in Seq(Block)
    /\ chain # << >>
    /\ banned \subseteq Cvns

Slots == 0..MaxSlot

\* The CVNs that signed as many of the last blocks as is required.
Active(s) == {c \in mapCVNs \ banned : s.sigs[c] >= MinSuccessiveSignatures}

\* A CVN that has created no block and is not the one added last.
Starved(c) == LastCreated(c) = 0 /\ c # FindNewlyAddedCVN

\* No block of the chain removes a CVN.
NobodyRemoved ==
    \A i \in 2..Len(chain) : chain[i - 1].mapCVNs \subseteq chain[i].mapCVNs

(* Whatever slot a block is created in, CheckNextBlockCreator names a      *)
(* registered CVN that is not banned, or nobody: "ignore CVNs that were    *)
(* deactivated or banned" also holds for the CVN to bootstrap and for a    *)
(* dormant one, as long as no CVN is removed.                              *)
ChosenIsRegistered ==
    LET s == Scan
    IN  NobodyRemoved =>
           \A slot \in Slots : Choice(s, slot) \in (mapCVNs \ banned) \cup {NoCvn}

(* The scan of a limited number of blocks, the dormant nodes and the order *)
(* of the list together do what the rules say: on time, the creator is the *)
(* CVN "that created its last block the furthest in the past" of all that  *)
(* co-signed the required number of blocks - when none was just added and  *)
(* each has created a block.                                               *)
OldestActiveCreates ==
    LET s == Scan
        c == Choice(s, 0)
    IN  /\ FindNewlyAddedCVN = NoCvn
        /\ \A d \in mapCVNs : LastCreated(d) > 0
        /\ Active(s) # {}
        => /\ c \in Active(s)
           /\ \A d \in Active(s) : LastCreated(c) <= LastCreated(d)

(* The chain can always go on: with no CVN starved or banned, there is a   *)
(* grace period in which some registered CVN may create the next block,    *)
(* and the block passes the signature counts if every CVN signs it,        *)
(* whoever signed the blocks before ("to avoid the block chain become      *)
(* stalled").                                                              *)
NotStalled ==
    LET s == Scan
    IN  banned = {} /\ (\A c \in mapCVNs : ~Starved(c)) =>
           /\ \E slot \in Slots : Choice(s, slot) \in mapCVNs
           /\ FactoryAccepts({})

(* NotStalled as long as no CVN is removed: late blocks, missing           *)
(* signatures, CVNs that join and bans that end do not stop the chain.     *)
GrowingChainGoesOn == NobodyRemoved => NotStalled

(* If nodes that sign have not created a block within the scan, one of     *)
(* them creates the next block on time, the one with the oldest block: of  *)
(* "more than one dormant node. The node with the highest time-weight will *)
(* be chosen" - provided each of several has created a block once.         *)
DormantChosen ==
    LET s == Scan
        nodes == DormantNodes(s)
    IN  /\ FindNewlyAddedCVN = NoCvn
        /\ Len(s.cands) < Cardinality(mapCVNs)
        /\ nodes # {}
        /\ Cardinality(nodes) > 1 => \A c \in nodes : LastCreated(c) > 0
        => /\ Choice(s, 0) \in nodes
           /\ \A c \in nodes : LastCreated(Choice(s, 0)) <= LastCreated(c)

(* The factory's rules on the number of signatures imply the validators':  *)
(* a CVN never builds a block that CheckProofOfCooperation turns down for  *)
(* its signatures - although it does not look at the mean when there is    *)
(* one CVN left, and validators look at it only after a decrease.          *)
FactoryBlocksAccepted ==
    \A missing \in SUBSET mapCVNs :
        FactoryAccepts(missing) => EnoughForValidation(missing)
=============================================================================
