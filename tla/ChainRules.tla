------------------------------ MODULE ChainRules ------------------------------
(***************************************************************************)
(* The chain state of a node together with the selection of creators: the  *)
(* rules of NextCreator decide on the blocks of ChainState.                *)
(***************************************************************************)
EXTENDS ChainState

CONSTANTS
    GenesisCvn,               \* GENESIS_NODE_ID
    NoCvn,                    \* the id 0
    BlocksToScan,             \* POC_BLOCKS_TO_SCAN
    MinSuccessiveSignatures,  \* dynParams.nMinSuccessiveSignatures
    MaxSlot                   \* bound on the grace periods without a block

\* The rules of NextCreator for the chain p.
Rules(p) ==
    INSTANCE NextCreator
    WITH chain <- p,
         banned <- {}, PercentageOfSignaturesMean <- 33,
         MaxHeight <- 0, MaxMissing <- 0, AddAt <- {}, RemoveAt <- {}, MaxBans <- 0

\* CheckNextBlockCreator for a block after p: creators and signers are read
\* from the chain p, the registered CVNs are the node's.
CreatorsAfter(p, cvns) ==
    LET chain == [[i \in DOMAIN p |-> BlockOf[p[i]]] EXCEPT ![Len(p)].mapCVNs = cvns]
    IN  [slot \in 0..MaxSlot |-> Rules(chain)!CheckNextBlockCreator(slot)]
=============================================================================
