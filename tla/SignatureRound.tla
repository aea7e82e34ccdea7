--------------------------- MODULE SignatureRound ---------------------------
(***************************************************************************)
(* The time between two blocks: the CVNs sign who is to create the next    *)
(* block, collect one another's partial signatures, retry without those    *)
(* that stay silent, and the CVN whose turn it is combines a complete set  *)
(* into a block.                                                           *)
(*                                                                         *)
(* Every CVN is a node with its own PoC thread (POCThread and its state    *)
(* handlers, src/src/poc.cpp), its own CSignatureHolder, its own active    *)
(* chain and its own clock; the block factory is src/src/blockfactory.cpp. *)
(* Messages are delivered in any order, late or not at all.  Who creates   *)
(* the next block, and how many signatures are enough, is NextCreator's.   *)
(***************************************************************************)
EXTENDS Integers, Sequences, FiniteSets, FiniteSetsExt

CONSTANTS
    Cvns,        \* the ids of the CVNs, which are numbers
    GenesisCvn,  \* GENESIS_NODE_ID
    NoCvn,       \* the id 0
    MinSuccessiveSignatures,     \* dynParams
    BlocksToScan,
    BlocksToConsiderForSigCheck,
    PercentageOfSignaturesMean,
    RetryNewSigSetInterval,
    Start,       \* the chain that all nodes begin with
    MaxLength,   \* bound on the length of a chain: a node whose chain has
                 \*   this length begins no further round
    MaxSlot,     \* bound on the grace periods that pass without a block
    MaxSkew,     \* bound on the difference of two clocks
    MaxRetries,  \* bound on the smaller sets a thread tries in a slot
    MaxCrashes,  \* bounds on the crashes, the restarts
    MaxRestarts,
    MaxLost,     \*   and the messages that are lost
    MaxLate      \* bound on the signatures that are late at any one time

Members == Start[Len(Start)].mapCVNs

\* The rules of NextCreator for the chain p.
Rules(p) ==
    INSTANCE NextCreator
    WITH chain <- p, banned <- {}, MaxHeight <- 0, MaxMissing <- 0,
         AddAt <- {}, RemoveAt <- {}, MaxBans <- 0

ASSUME RoundConstants ==
    /\ Cvns \subseteq Nat \ {0}
    /\ IsFiniteSet(Cvns)
    /\ Members \subseteq Cvns
    /\ Cardinality(Members) > 1
    /\ RetryNewSigSetInterval \in 2..600

VARIABLES
    tip,     \* the active chain of each node
    index,   \* the blocks that exist, each known by the chain it ends, with
             \*   what the rules say of that chain
    holder,  \* sigHolder.sigs of each node, as a set of signatures
    net,     \* the signatures on their way: pairs of receiver and signature
    thread,  \* the POCStateHolder of each node's PoC thread
    pools,   \* the keys of each node's mapNoncePool
    time,    \* the clock of each node, counted from the time of its tip
    up,      \* the nodes that are running
    faults,  \* how many crashes, restarts and losses there were
    signed   \* all that was ever signed; no code reads it

vars == <<tip, index, holder, net, thread, pools, time, up, faults, signed>>

(* A clock that shows -1 has not reached the block spacing; from then on   *)
(* it counts the grace periods.                                            *)
Slot(n) == IF time[n] < 0 THEN 0 ELSE time[n]

\* nChainWork: the signatures of all blocks (GetBlockProof).
ChainWork(p) ==
    LET Proof(h) == Rules(p)!GetNumChainSigs(h)
    IN  MapThenSumSet(Proof, 0..(Len(p) - 1))

\* What CheckNextBlockCreator, HasEnoughSignatures and the checks of a block
\* with some signatures missing say of the chain p.
IndexEntry(p) ==
    [creators |-> [slot \in 0..MaxSlot |-> Rules(p)!CheckNextBlockCreator(slot)],
     enough   |-> {k \in 0..Cardinality(Members) : Rules(p)!HasEnoughSignatures(k)},
     accepted |-> {missing \in SUBSET Members :
                      /\ Rules(p)!FactoryAccepts(missing)
                      /\ Rules(p)!EnoughForValidation(missing)},
     work     |-> ChainWork(p)]

blocks == DOMAIN index

CheckNextBlockCreator(p, slot) == index[p].creators[slot]

HasEnoughSignatures(p, k) == k \in index[p].enough
-----------------------------------------------------------------------------
(* Partial signatures.  The nonces of a signature are the signer's and     *)
(* those it summed up; the signature's Rx identifies them.  Every pool has *)
(* one nonce per height.                                                   *)

\* The CVNs whose nonces CreateSumPublicNoncesOthers adds up.
Others(n, missing) == (Members \ missing) \ {n}

Rx(height, signers) == [height |-> height, signers |-> signers]

\* What is signed.  UpdateHashWithMissingIDs adds the sum of the missing ids,
\* if there are any.
SumOfIds(missing) == IF missing = {} THEN -1 ELSE SumSet(missing)

HashToSign(prev, creator, missing) == <<prev, creator, SumOfIds(missing)>>

\* One more id changes the sum, as ids are positive.
ASSUME IdsArePositive ==
    \A missing \in SUBSET Members : \A c \in Members \ missing :
        SumOfIds(missing \cup {c}) # SumOfIds(missing)

\* CreateSumPublicNoncesOthers does not fail.
NoncesAvailable(n, signer, missing) ==
    /\ Others(signer, missing) # {}
    /\ Others(signer, missing) \subseteq pools[n]

CvnVerifyPartialSignature(n, sig) ==
    /\ NoncesAvailable(n, sig.nSignerId, sig.vMissingSignerIds)
    /\ sig.rx = Rx(Len(tip[n]),
                   Others(sig.nSignerId, sig.vMissingSignerIds) \cup {sig.nSignerId})

\* Mutant of CvnSignPartial: the CVNs that stayed silent are not listed.
CvnSignPartialUnlisted(n, creator, missing) ==
    [rx |-> Rx(Len(tip[n]), Others(n, missing) \cup {n}),
     nSignerId |-> n,
     hashPrevBlock |-> thread[n].pindexPrev,
     nCreatorId |-> creator,
     vMissingSignerIds |-> Members \ pools[n],
     fValidated |-> FALSE]

\* CvnSignPartial, as SendCVNSignature calls it.
CvnSignPartial(n, creator, missing) ==
    [rx |-> Rx(Len(tip[n]), Others(n, missing) \cup {n}),
     nSignerId |-> n,
     hashPrevBlock |-> thread[n].pindexPrev,
     nCreatorId |-> creator,
     vMissingSignerIds |-> missing,
     fValidated |-> FALSE]

\* What the signer agrees to.
VoteOf(sig) ==
    [voter |-> sig.nSignerId, prev |-> sig.hashPrevBlock,
     creator |-> sig.nCreatorId, missing |-> sig.vMissingSignerIds]
-----------------------------------------------------------------------------
(* CSignatureHolder.  Of two signatures by one signer with the same Rx the *)
(* later one is kept.                                                      *)

AddSig(h, sig) ==
    {e \in h : e.rx # sig.rx \/ e.nSignerId # sig.nSignerId} \cup {sig}

AddCvnSignature(n, sig) ==
    AddSig(holder[n], [sig EXCEPT !.fValidated = CvnVerifyPartialSignature(n, sig)])

Rxs(h) == {e.rx : e \in h}

SigSet(h, rx) == {e \in h : e.rx = rx}

Signers(s) == {e.nSignerId : e \in s}

First(s) == CHOOSE e \in s : \A f \in s : e.nSignerId <= f.nSignerId

\* Mutant of Complete: missing signers are not taken into account.
CompleteOnlyIfAll(s) == Cardinality(Members) = Cardinality(s)

Complete(s) ==
    Cardinality(Members) - Cardinality(First(s).vMissingSignerIds) = Cardinality(s)

HasCompleteSigSets(h) == \E rx \in Rxs(h) : Complete(SigSet(h, rx))

HasSigSetsToContributeTo(n, h) ==
    {First(SigSet(h, rx)).vMissingSignerIds : rx \in
        {r \in Rxs(h) : /\ ~Complete(SigSet(h, r))
                        /\ n \notin Signers(SigSet(h, r))}}

GetAllMissing(n, h) ==
    UNION {pools[n] \ Signers(SigSet(h, rx)) : rx \in
        {r \in thread[n].commonRxs \cap Rxs(h) : ~Complete(SigSet(h, r))}}

\* Mutant of Clear: signatures for another creator are kept.
ClearNothing(h, creator) == h

Clear(h, creator) == {e \in h : e.nCreatorId = creator}
-----------------------------------------------------------------------------
(* The block factory.                                                      *)

\* The sets DetermineBestSignatureSet remembers.
WorkingSets(n) ==
    LET h == holder[n]
    IN  {rx \in Rxs(h) :
            LET s == SigSet(h, rx)
            IN  /\ Cardinality(s) + Cardinality(First(s).vMissingSignerIds)
                      >= Cardinality(Members)
                /\ HasEnoughSignatures(tip[n], Cardinality(s))
                /\ Cardinality(s) >= 2
                /\ \A e \in s : /\ e.fValidated \/ CvnVerifyPartialSignature(n, e)
                                /\ e.hashPrevBlock = tip[n]
                                /\ e.nCreatorId = n}

DetermineBestSignatureSet(n) ==
    LET sets == {SigSet(holder[n], rx) : rx \in WorkingSets(n)}
    IN  {s \in sets : \A t \in sets : Cardinality(t) <= Cardinality(s)}

\* CvnVerifyChainSignature, for the combination of the signatures in s.
CvnVerifyChainSignature(p, creator, missing, s) ==
    \A e \in s :
        /\ e.rx.signers = Members \ missing
        /\ HashToSign(e.hashPrevBlock, e.nCreatorId, e.vMissingSignerIds)
              = HashToSign(p, creator, missing)

\* CreateNewBlock succeeds with s: its own checks and TestBlockValidity.
BlockIsValid(n, s) ==
    LET missing == Members \ Signers(s)
    IN  /\ missing \in index[tip[n]].accepted
        /\ CheckNextBlockCreator(tip[n], Slot(n)) = n
        /\ CvnVerifyChainSignature(tip[n], n, missing, s)

\* The sets of which CreateBlock makes a block.
ValidSets(n) == {s \in DetermineBestSignatureSet(n) : BlockIsValid(n, s)}

\* Of several sets that are best, the order of their Rx picks one.
MayFail(n) ==
    \/ DetermineBestSignatureSet(n) = {}
    \/ DetermineBestSignatureSet(n) # ValidSets(n)

\* Mutant of NewBlock: it lists the CVNs without a pool.
NewBlockByPools(n, s) ==
    [nCreatorId |-> n, vMissingSignerIds |-> Members \ pools[n],
     added |-> NoCvn, mapCVNs |-> Members]

NewBlock(n, s) ==
    [nCreatorId |-> n, vMissingSignerIds |-> Members \ Signers(s),
     added |-> NoCvn, mapCVNs |-> Members]
-----------------------------------------------------------------------------
(* The active chain.                                                       *)

\* What ConnectTip does to the signature holder, after a block by the creator
\* and with the creators of the next block.
ConnectTip(h, creators, creator) ==
    IF creators[0] = creator THEN {} ELSE Clear(h, creators[0])

\* All blocks of p from length k on are connected.
ConnectChain(h, p, k) ==
    {e \in h : \A i \in k..Len(p) :
        e \in ConnectTip(h, index[SubSeq(p, 1, i)].creators, p[i].nCreatorId)}

\* The length at which p leaves q.
ForkLength(p, q) ==
    Max({i \in 1..Min({Len(p), Len(q)}) : SubSeq(p, 1, i) = SubSeq(q, 1, i)}) + 1

\* Two clocks that count from the same block.
ClockAgrees(n, p, t) ==
    \A m \in up \ {n} :
        tip[m] = p => t - time[m] \in (-MaxSkew)..MaxSkew

\* The chains of other running nodes that have more work.
BetterChains(n) ==
    {p \in blocks : /\ index[p].work > index[tip[n]].work
                    /\ \E m \in up : \E i \in 1..Len(tip[m]) : p = SubSeq(tip[m], 1, i)}

\* A better chain arrives at n and is activated (ActivateBestChain).
ReceiveBlock(n, p) ==
    /\ n \in up
    /\ p \in BetterChains(n)
    /\ tip' = [tip EXCEPT ![n] = p]
    /\ holder' = [holder EXCEPT ![n] =
                     ConnectChain(holder[n], p, ForkLength(p, tip[n]))]
    /\ \E t \in -1..MaxSlot :
          ClockAgrees(n, p, t) /\ time' = [time EXCEPT ![n] = t]
    /\ UNCHANGED <<index, net, thread, pools, up, faults, signed>>
-----------------------------------------------------------------------------
(* The PoC thread.  Each pass of its loop takes two steps: the head reads  *)
(* the tip and the creator, then the handler of the state runs.            *)

Waiting == {"WAITING_FOR_SIGNATURES", "WAITING_FOR_SIGNATURES_OVERDUE"}

PocStates ==
    {"INIT", "WAITING_FOR_BLOCK_PROPAGATION", "CREATE_SIGNATURE",
     "WAITING_FOR_BLOCK", "WAITING_FOR_NEW_TIP", "COMPLETE_SIGNATURE_SETS",
     "CREATE_SIGNATURE_OVERDUE"} \cup Waiting

\* nSleep after a smaller set was tried.  It is unsigned: 2^30 stands for
\* its 2^32 values.
RetrySleep == (RetryNewSigSetInterval - 5) % 2^30

\* Sleeping longer than any interval is meant to last, a thread does not
\* run again in a behaviour of this model.
Awake(n) == thread[n].nSleep <= 600

\* A thread that starts: its first pass follows at once, so that the head
\* finds the tip and the creator that POCThread has just read.
NewThread(p, next) ==
    [pc |-> "handler", state |-> "INIT",
     nNextCreator |-> next, nLastCreator |-> next,
     pindexPrev |-> p, pindexLastTip |-> p,
     commonRxs |-> {}, nSleep |-> 0, todo |-> {}, retries |-> 0]

\* POCStateHolder::Reset, for what the head has just read.
Reset(s, state) ==
    [s EXCEPT !.state = state, !.nLastCreator = s.nNextCreator,
              !.pindexLastTip = s.pindexPrev, !.commonRxs = {},
              !.retries = 0]

LoopHead(n) ==
    LET next == CheckNextBlockCreator(tip[n], Slot(n))
        s == [thread[n] EXCEPT !.pindexPrev = tip[n], !.nNextCreator = next,
                               !.nSleep = 0, !.pc = "handler"]
        newTip == s.pindexLastTip # s.pindexPrev
        timeout == s.nLastCreator # s.nNextCreator
    IN  /\ n \in up /\ Awake(n)
        /\ thread[n].pc = "head"
        /\ Len(tip[n]) < MaxLength
        /\ next # NoCvn
        /\ thread' = [thread EXCEPT ![n] =
               IF newTip THEN Reset(s, "WAITING_FOR_BLOCK_PROPAGATION")
               ELSE IF timeout THEN Reset(s, "CREATE_SIGNATURE_OVERDUE")
               ELSE s]
        /\ holder' = [holder EXCEPT ![n] =
               IF newTip \/ timeout THEN Clear(holder[n], next) ELSE holder[n]]
        /\ UNCHANGED <<tip, index, net, pools, time, up, faults, signed>>

\* The handler of one of the given states runs next.
Handles(n, states) ==
    /\ n \in up /\ Awake(n)
    /\ thread[n].pc = "handler"
    /\ thread[n].state \in states

Handled(n, state) == [thread[n] EXCEPT !.pc = "head", !.state = state]

SetThread(n, s) == thread' = [thread EXCEPT ![n] = s]

\* SendCVNSignature returns true; it determines the creator anew.
CanSign(n, missing) ==
    /\ CheckNextBlockCreator(thread[n].pindexPrev, Slot(n)) # NoCvn
    /\ NoncesAvailable(n, n, missing)

\* SendCVNSignature signs, adds the signature to the node's own holder and
\* relays it; the thread is left like s, with the signature's Rx.
SendCVNSignature(n, missing, s) ==
    LET creator == CheckNextBlockCreator(thread[n].pindexPrev, Slot(n))
        sig == CvnSignPartial(n, creator, missing)
    IN  /\ holder' = [holder EXCEPT ![n] = AddCvnSignature(n, sig)]
        /\ net' = net \cup {<<m, sig>> : m \in up \ {n}}
        /\ signed' = signed \cup {VoteOf(sig)}
        /\ SetThread(n, [s EXCEPT !.commonRxs = @ \cup {sig.rx}])

FindSignerIDsWithMissingNonces(n) == Members \ pools[n]

\* Mutant of handleInit: it creates no nonce pool.
handleInitWithoutPool(n) ==
    /\ Handles(n, {"INIT"})
    /\ SetThread(n, Handled(n, IF Slot(n) > 0 THEN "CREATE_SIGNATURE_OVERDUE"
                               ELSE "WAITING_FOR_BLOCK_PROPAGATION"))
    /\ UNCHANGED <<tip, index, holder, net, pools, time, up, faults, signed>>

handleInit(n) ==
    /\ Handles(n, {"INIT"})
    /\ pools' = [pools EXCEPT ![n] = @ \cup {n}]
    /\ SetThread(n, Handled(n, IF Slot(n) > 0 THEN "CREATE_SIGNATURE_OVERDUE"
                               ELSE "WAITING_FOR_BLOCK_PROPAGATION"))
    /\ UNCHANGED <<tip, index, holder, net, time, up, faults, signed>>

handleWaitingForBlockPropagation(n) ==
    /\ Handles(n, {"WAITING_FOR_BLOCK_PROPAGATION"})
    /\ \A m \in up : BetterChains(m) = {}
    /\ pools' = [pools EXCEPT ![n] = @ \cup {n}]
    /\ SetThread(n, Handled(n, "CREATE_SIGNATURE"))
    /\ UNCHANGED <<tip, index, holder, net, time, up, faults, signed>>

handleCreateSignature(n) ==
    LET missing == FindSignerIDsWithMissingNonces(n)
        next == IF thread[n].state = "CREATE_SIGNATURE"
                THEN "WAITING_FOR_SIGNATURES" ELSE "WAITING_FOR_SIGNATURES_OVERDUE"
    IN  /\ Handles(n, {"CREATE_SIGNATURE", "CREATE_SIGNATURE_OVERDUE"})
        /\ IF thread[n].commonRxs = {} /\ CanSign(n, missing)
           THEN SendCVNSignature(n, missing, Handled(n, next))
           ELSE /\ SetThread(n, Handled(n, thread[n].state))
                /\ UNCHANGED <<holder, net, signed>>
        /\ UNCHANGED <<tip, index, pools, time, up, faults>>

\* handleCompleteSignatureSets looks for the sets to contribute to, and
\* then goes through them.
handleCompleteSignatureSets(n) ==
    /\ Handles(n, {"COMPLETE_SIGNATURE_SETS"})
    /\ SetThread(n, [thread[n] EXCEPT !.pc = "contribute",
                         !.todo = HasSigSetsToContributeTo(n, holder[n])])
    /\ UNCHANGED <<tip, index, holder, net, pools, time, up, faults, signed>>

NoncePoolsAvailable(n, missing) == Members \ missing \subseteq pools[n]

ContributeTo(n, missing) ==
    LET s == [thread[n] EXCEPT !.todo = @ \ {missing}]
    IN  /\ n \in up
        /\ thread[n].pc = "contribute"
        /\ missing \in thread[n].todo
        /\ IF NoncePoolsAvailable(n, missing) /\ CanSign(n, missing)
           THEN SendCVNSignature(n, missing, s)
           ELSE SetThread(n, s) /\ UNCHANGED <<holder, net, signed>>
        /\ UNCHANGED <<tip, index, pools, time, up, faults>>

Contributed(n) ==
    /\ n \in up
    /\ thread[n].pc = "contribute"
    /\ thread[n].todo = {}
    /\ SetThread(n, Handled(n, "WAITING_FOR_SIGNATURES"))
    /\ UNCHANGED <<tip, index, holder, net, pools, time, up, faults, signed>>

\* Neither a new tip nor a new creator, and the state's handler would leave
\* everything as it is.
ThreadQuiet(n) ==
    LET s == thread[n]
    IN  \/ ~Awake(n)
        \/ s.pc = "head" /\ Len(tip[n]) = MaxLength
        \/ /\ s.pindexLastTip = tip[n]
           /\ s.nLastCreator = CheckNextBlockCreator(tip[n], Slot(n))
           /\ \/ s.state = "WAITING_FOR_NEW_TIP"
              \/ s.state \in Waiting /\ ~HasCompleteSigSets(holder[n])
              \/ /\ s.state = "WAITING_FOR_BLOCK"
                 /\ s.nLastCreator = n /\ time[n] >= 0 => MayFail(n)

\* Nothing but a few late signatures is on its way and no thread has anything to do before the next
\* retry or the next grace period.
Quiet ==
    /\ Cardinality(net) <= MaxLate
    /\ \A n \in up : /\ BetterChains(n) = {}
                     /\ UNION {pools[m] : m \in up} \subseteq pools[n]
                     /\ ThreadQuiet(n)

\* handleWaitingForSignatures: there is a complete set.
SignaturesComplete(n) ==
    /\ Handles(n, Waiting)
    /\ HasCompleteSigSets(holder[n])
    /\ SetThread(n, Handled(n, "WAITING_FOR_BLOCK"))
    /\ UNCHANGED <<tip, index, holder, net, pools, time, up, faults, signed>>

\* There is none, and the time of the next retry has not come.
SignaturesOutstanding(n) ==
    /\ Handles(n, Waiting)
    /\ ~HasCompleteSigSets(holder[n])
    /\ SetThread(n, Handled(n, thread[n].state))
    /\ UNCHANGED <<tip, index, holder, net, pools, time, up, faults, signed>>

\* There is none, and it is time to try without the CVNs that are missing.
RetryWithSmallerSet(n) ==
    LET silent == GetAllMissing(n, holder[n])
        missing == silent \cup FindSignerIDsWithMissingNonces(n)
        s == [Handled(n, "COMPLETE_SIGNATURE_SETS") EXCEPT
                 !.nSleep = RetrySleep, !.retries = @ + 1]
    IN  /\ Handles(n, Waiting)
        /\ ~HasCompleteSigSets(holder[n])
        /\ thread[n].retries < MaxRetries
        /\ Quiet
        /\ IF /\ silent # {}
              /\ HasEnoughSignatures(thread[n].pindexPrev,
                     Cardinality(Members) - Cardinality(missing))
              /\ CanSign(n, missing)
           THEN SendCVNSignature(n, missing, s)
           ELSE SetThread(n, s) /\ UNCHANGED <<holder, net, signed>>
        /\ UNCHANGED <<tip, index, pools, time, up, faults>>

MyTurn(n) == thread[n].nNextCreator = n /\ time[n] >= 0

\* handleWaitingForBlock: CreateBlock succeeds.  What the thread does then,
ThreadCreatesBlock(n) ==
    /\ Handles(n, {"WAITING_FOR_BLOCK"})
    /\ MyTurn(n)
    /\ Len(tip[n]) < MaxLength
    /\ ValidSets(n) # {}
    /\ SetThread(n, Handled(n, "WAITING_FOR_NEW_TIP"))

\* Mutant of CreateBlock: the block does not get into the index.
CreateBlockUnindexed(n) ==
    /\ ThreadCreatesBlock(n)
    /\ \E s \in ValidSets(n) : tip' = [tip EXCEPT ![n] = Append(@, NewBlock(n, s))]
    /\ holder' = [holder EXCEPT ![n] = {}]
    /\ time' = [time EXCEPT ![n] = -1]
    /\ UNCHANGED <<index, net, pools, up, faults, signed>>

\* and all of it.  handleWaitingForNewTip does nothing and has no turn: the
\* head finds the new tip first.
CreateBlock(n) ==
    /\ ThreadCreatesBlock(n)
    /\ \E s \in ValidSets(n) :
          LET p == Append(tip[n], NewBlock(n, s))
              entry == IndexEntry(p)
          IN  /\ tip' = [tip EXCEPT ![n] = p]
              /\ index' = [q \in blocks \cup {p} |->
                               IF q = p THEN entry ELSE index[q]]
              /\ holder' = [holder EXCEPT ![n] =
                               ConnectTip(holder[n], entry.creators, n)]
    /\ time' = [time EXCEPT ![n] = -1]
    /\ UNCHANGED <<net, pools, up, faults, signed>>

\* It is not this node's turn, or CreateBlock fails.
NoBlock(n) ==
    /\ Handles(n, {"WAITING_FOR_BLOCK"})
    /\ MyTurn(n) => MayFail(n)
    /\ SetThread(n, Handled(n, "WAITING_FOR_BLOCK"))
    /\ UNCHANGED <<tip, index, holder, net, pools, time, up, faults, signed>>
-----------------------------------------------------------------------------
(* The network, the clocks and the faults.                                 *)

\* A signature arrives (NetMsgType::SIG); one for another tip is ignored.
ReceiveSig(n, sig) ==
    /\ <<n, sig>> \in net
    /\ net' = net \ {<<n, sig>>}
    /\ holder' = [holder EXCEPT ![n] =
           IF sig.hashPrevBlock = tip[n] THEN AddCvnSignature(n, sig) ELSE @]
    /\ UNCHANGED <<tip, index, thread, pools, time, up, faults, signed>>

Lose(m) ==
    /\ faults.lost < MaxLost
    /\ m \in net
    /\ net' = net \ {m}
    /\ faults' = [faults EXCEPT !.lost = @ + 1]
    /\ UNCHANGED <<tip, index, holder, thread, pools, time, up, signed>>

\* The nonce pool of c arrives at n.
ReceivePool(n, c) ==
    /\ n \in up
    /\ c \notin pools[n]
    /\ \E m \in up \ {n} : c \in pools[m]
    /\ pools' = [pools EXCEPT ![n] = @ \cup {c}]
    /\ UNCHANGED <<tip, index, holder, net, thread, time, up, faults, signed>>

\* Time goes on, for all nodes at once or, when their clocks may differ, for
\* one of them.
Ticking == IF MaxSkew = 0 THEN {up} ELSE {{n} : n \in up}

Tick(ns) ==
    /\ \A n \in ns : /\ time[n] < MaxSlot
                     /\ ns = up \/ ClockAgrees(n, tip[n], time[n] + 1)
    /\ time' = [n \in Members |-> IF n \in ns THEN time[n] + 1 ELSE time[n]]
    /\ \A n \in up : thread[n].state \in Waiting /\ Awake(n)
                        => thread[n].retries = MaxRetries
    /\ Quiet
    /\ UNCHANGED <<tip, index, holder, net, thread, pools, up, faults, signed>>

\* A crash: the chain is on disk, all else is lost.
Crash(n) ==
    /\ faults.crashes < MaxCrashes
    /\ n \in up
    /\ up' = up \ {n}
    /\ faults' = [faults EXCEPT !.crashes = @ + 1]
    /\ holder' = [holder EXCEPT ![n] = {}]
    /\ pools' = [pools EXCEPT ![n] = {}]
    /\ net' = {m \in net : m[1] # n}
    /\ UNCHANGED <<tip, index, thread, time, signed>>

\* The signatures that AdvertiseNoncesAndSigs offers to a new peer.
Advertised(m) ==
    {[e EXCEPT !.fValidated = FALSE] : e \in
        {e \in holder[m] : /\ e.hashPrevBlock = tip[m]
                           /\ e.nCreatorId = CheckNextBlockCreator(tip[m], Slot(m))}}

Restart(n) ==
    /\ faults.restarts < MaxRestarts
    /\ n \in Members \ up
    /\ up' = up \cup {n}
    /\ faults' = [faults EXCEPT !.restarts = @ + 1]
    /\ \E t \in -1..MaxSlot :
          /\ ClockAgrees(n, tip[n], t)
          /\ time' = [time EXCEPT ![n] = t]
          /\ SetThread(n, NewThread(tip[n],
                 CheckNextBlockCreator(tip[n], IF t < 0 THEN 0 ELSE t)))
    /\ net' = net \cup {<<n, sig>> : sig \in UNION {Advertised(m) : m \in up}}
    /\ UNCHANGED <<tip, index, holder, pools, signed>>
-----------------------------------------------------------------------------
\* The blocks of Start were created by the CVNs whose turn it was.
StartFollowsRules ==
    \A i \in 2..Len(Start) :
        Rules(SubSeq(Start, 1, i - 1))!CheckNextBlockCreator(0) = Start[i].nCreatorId

Init ==
    /\ StartFollowsRules
    /\ tip = [n \in Members |-> Start]
    /\ index = [p \in {Start} |-> IndexEntry(Start)]
    /\ holder = [n \in Members |-> {}]
    /\ net = {}
    /\ pools = [n \in Members |-> Members]
    /\ time = [n \in Members |-> -1]
    /\ thread = [n \in Members |-> NewThread(Start, CheckNextBlockCreator(Start, 0))]
    /\ up = Members
    /\ faults = [crashes |-> 0, restarts |-> 0, lost |-> 0]
    /\ signed = {}

ThreadWithoutBlock(n) ==
    \/ LoopHead(n)
    \/ handleInit(n)
    \/ handleWaitingForBlockPropagation(n)
    \/ handleCreateSignature(n)
    \/ handleCompleteSignatureSets(n)
    \/ \E missing \in thread[n].todo : ContributeTo(n, missing)
    \/ Contributed(n)
    \/ SignaturesComplete(n)
    \/ SignaturesOutstanding(n)
    \/ RetryWithSmallerSet(n)
    \/ NoBlock(n)

Thread(n) == ThreadWithoutBlock(n) \/ CreateBlock(n)

Deliver(n) ==
    \/ \E m \in net : m[1] = n /\ ReceiveSig(n, m[2])
    \/ \E p \in blocks : ReceiveBlock(n, p)
    \/ \E c \in Members : ReceivePool(n, c)

Clock == \E ns \in Ticking : Tick(ns)

Fault ==
    \/ \E m \in net : Lose(m)
    \/ \E n \in Members : Crash(n) \/ Restart(n)

Next ==
    \/ \E n \in Members : Thread(n) \/ Deliver(n)
    \/ Clock
    \/ Fault

Spec == Init /\ [][Next]_vars

(* The thread's loop runs every second and messages between running nodes  *)
(* arrive.  A retry comes due again and again while a thread waits, in a   *)
(* second in which its loop runs: hence strong fairness.                   *)
Fairness ==
    /\ \A n \in Members :
          /\ WF_thread(ThreadWithoutBlock(n) \/ ThreadCreatesBlock(n))
          /\ SF_vars(RetryWithSmallerSet(n))
          /\ WF_vars(Deliver(n))
    /\ WF_vars(Clock)

FairSpec == Spec /\ Fairness

\* In addition, nodes that crash are started again.
RecoverySpec == FairSpec /\ WF_vars(\E n \in Members : Restart(n))
-----------------------------------------------------------------------------
ThreadFields ==
    {"pc", "state", "nNextCreator", "nLastCreator", "pindexPrev",
     "pindexLastTip", "commonRxs", "nSleep", "todo", "retries"}

SigFields ==
    {"rx", "nSignerId", "hashPrevBlock", "nCreatorId", "vMissingSignerIds",
     "fValidated"}

(* What a node holds is of the right kind: tips and the blocks a thread    *)
(* has read exist, and the sets of ids that handleCompleteSignatureSets    *)
(* works through, and those of the known pools, name CVNs.                 *)
TypeOK ==
    /\ tip \in [Members -> blocks]
    /\ pools \in [Members -> SUBSET Members]
    /\ up \subseteq Members
    /\ DOMAIN holder = Members
    /\ \A n \in Members : \A e \in holder[n] : DOMAIN e = SigFields
    /\ \A m \in net : m[1] \in Members /\ DOMAIN m[2] = SigFields
    /\ DOMAIN thread = Members
    /\ \A n \in Members :
          /\ DOMAIN thread[n] = ThreadFields
          /\ thread[n].state \in PocStates
          /\ thread[n].pindexPrev \in blocks
          /\ thread[n].pindexLastTip \in blocks
          /\ thread[n].todo \subseteq SUBSET Members

\* A signature that its signer made for a set of at least two, and whose Rx
\* is that of the set.
Genuine(sig) ==
    /\ sig.nSignerId \in Members
    /\ sig.hashPrevBlock \in blocks
    /\ sig.vMissingSignerIds \subseteq Members
    /\ Others(sig.nSignerId, sig.vMissingSignerIds) # {}
    /\ sig.rx.signers =
          Others(sig.nSignerId, sig.vMissingSignerIds) \cup {sig.nSignerId}
    /\ VoteOf(sig) \in signed

(* Every signature in a holder (sigHolder) or on its way, after any number *)
(* of retries with smaller sets, replacements (AddSig), new tips, crashes  *)
(* and offers to a node that comes back (AdvertiseNoncesAndSigs), is one   *)
(* that its signer made, and its Rx is the sum of the nonces of the signer *)
(* and of all CVNs that it does not list as missing.                       *)
SignaturesGenuine ==
    /\ \A n \in Members : \A e \in holder[n] : Genuine(e)
    /\ \A m \in net : Genuine(m[2])

Coop ==
    INSTANCE Cooperation
    WITH Voters <- Members, NoOne <- NoCvn, Root <- Start,
         votes <- {v \in signed : v.creator \in Members}, chains <- blocks

(* The round implements Cooperation: every block that CreateBlock makes is *)
(* one that at least two CVNs, and all CVNs but those the block lists as   *)
(* missing, signed for this parent, this creator and these missing CVNs.   *)
(* The signatures the code combines were collected over several slots and  *)
(* retries, and some of them were made for other sets.                     *)
ImplementsCooperation == Coop!Spec

(* Every round ends in a block that all running nodes adopt: whatever is   *)
(* lost and whoever crashes, the retries without the silent CVNs           *)
(* (handleWaitingForSignatures) and the change of creator when a grace     *)
(* period is over (POCThread) get the others to the next block.            *)
EveryRoundEnds ==
    <>[](\A n, m \in up : tip[n] = tip[m] /\ Len(tip[n]) = MaxLength)

Usable(s, p, creator) ==
    \A e \in s : /\ e.hashPrevBlock = p
                 /\ e.nCreatorId = creator
                 /\ e.vMissingSignerIds = Members \ Signers(s)

(* A thread stops collecting signatures (WAITING_FOR_BLOCK) only when its  *)
(* holder has a set that a block by the present creator can be made of;    *)
(* HasCompleteSigSets itself only counts.  A set left over from an earlier *)
(* block or creator would make all CVNs wait for a block that cannot come. *)
(* It holds while clocks agree and no signature is late.                   *)
CompleteSetIsUsable ==
    \A n \in up :
        LET s == thread[n]
            creator == CheckNextBlockCreator(tip[n], Slot(n))
        IN  /\ s.state = "WAITING_FOR_BLOCK"
            /\ s.pindexLastTip = tip[n]
            /\ s.nLastCreator = creator
            => \E rx \in Rxs(holder[n]) : Usable(SigSet(holder[n], rx), tip[n], creator)

(* The signature that CvnSignBlock combines from the set the factory found *)
(* best (DetermineBestSignatureSet) verifies: "The block creator validates *)
(* and combines all the received partial signatures into one 64 byte       *)
(* EC-Schnorr signature which is verifiable against the signed hash and    *)
(* the sum of all public keys of the participating CVNs"                   *)
(* (doc/on-proof-of-cooperation.md).  It does not hold: a CVN contributes  *)
(* even to sets that list it as missing (HasSigSetsToContributeTo), and    *)
(* that signature replaces its good one in the larger set.                 *)
BestSetVerifies ==
    \A n \in up : \A s \in DetermineBestSignatureSet(n) :
        CvnVerifyChainSignature(tip[n], n, Members \ Signers(s), s)
=============================================================================
