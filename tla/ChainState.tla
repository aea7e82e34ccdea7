------------------------------ MODULE ChainState ------------------------------
(***************************************************************************)
(* What a node knows of the block chain and keeps over a restart: the      *)
(* block index, the active chain, and the CVNs and parameters that the     *)
(* proof-of-cooperation reads (src/src/main.cpp, src/src/poc.cpp).         *)
(*                                                                         *)
(* One node receives headers and blocks of a block tree in any order that  *)
(* the protocol allows, switches to the chain with the most work, writes   *)
(* its state to disk now and then, crashes and is started again.  All      *)
(* blocks of the tree were made by the rules.  A block is known by the     *)
(* chain that it ends, a sequence of hashes.                               *)
(***************************************************************************)
EXTENDS Integers, Sequences, FiniteSets, FiniteSetsExt

CONSTANTS
    Cvns,        \* CVN ids
    NextCreators(_, _),  \* who may create the block after a chain, by the
                         \*   grace periods that passed (ChainRules)
    BlocksToConsiderForSigCheck, \* dynParams.nBlocksToConsiderForSigCheck
    BlockOf,       \* what a block with a given hash contains
    Start,         \* the chain that the node begins with
    Tree,          \* the blocks on top of Start, as chains
    HeadersFirst,  \* those whose header may come without the block
    Address,       \* where the entry of a block is in memory
    MaxCrashes,    \* bounds on the crashes
    MaxWrites      \*   and on the writes to disk

VARIABLES
    index,       \* mapBlockIndex, from Start on
    candidates,  \* setBlockIndexCandidates
    active,      \* chainActive
    data,        \* mapCVNs, mapCVNInfoCache and dynParams
    work,        \* where ActivateBestChain is
    disk,        \* the block index and the best block of the coin database
    faults,      \* how many crashes and writes there were
    creators     \* what the rules say of the chains, which never changes

vars == <<index, candidates, active, data, work, disk, faults, creators>>

Last(p) == p[Len(p)]

Front(p) == SubSeq(p, 1, Len(p) - 1)

IsPrefix(p, q) == Len(p) <= Len(q) /\ SubSeq(q, 1, Len(p)) = p

Height(p) == Len(p) - 1

(* The block that ends p: nCreatorId, the grace periods that had passed    *)
(* (slot), vMissingSignerIds, the payloads that it has (nVersion's flags), *)
(* and what follows from the chain with it: the CVN that it adds, mapCVNs  *)
(* and nPercentageOfSignaturesMean (mean).                                 *)
Tip(p) == BlockOf[Last(p)]

HasPayload(p) == Tip(p).payload # {}

Blocks == Tree \cup {Start}

(* The tree has finitely many blocks, all above Start.  The genesis block  *)
(* has the first CVNs and parameters; a block without such a payload       *)
(* leaves them as they were.  Entries have different addresses.            *)
ASSUME ChainConstants ==
    /\ IsFiniteSet(Cvns) /\ IsFiniteSet(Tree) /\ BlocksToConsiderForSigCheck \in Nat
    /\ Blocks \subseteq Seq(DOMAIN BlockOf)
    /\ Start # << >> /\ \A p \in Tree : Len(p) > Len(Start)
    /\ {"cvns", "params"} \subseteq BlockOf[Start[1]].payload
    /\ \A h \in DOMAIN BlockOf : /\ BlockOf[h].mapCVNs \subseteq Cvns
                                 /\ BlockOf[h].vMissingSignerIds \subseteq Cvns
    /\ \A p \in Blocks : \A i \in 2..Len(p) :
          LET a == BlockOf[p[i - 1]]
              b == BlockOf[p[i]]
          IN  /\ "cvns" \notin b.payload => b.mapCVNs = a.mapCVNs
              /\ "params" \notin b.payload => b.mean = a.mean
    /\ \A p \in Blocks : Address[Last(p)] \in Int
    /\ \A p, q \in Blocks : Address[Last(p)] = Address[Last(q)] => p = q
-----------------------------------------------------------------------------
(* mapCVNs, mapCVNInfoCache and dynParams                                  *)

(* UpdateCvnInfo and UpdateChainParameters.  An entry of the cache has the *)
(* sum of the public keys and the number of CVNs: both stand for the set.  *)
(* Of the parameters only nPercentageOfSignaturesMean changes.             *)
Update(s, p) ==
    LET b == Tip(p)
        h == Height(p)
    IN  [mapCVNs |-> IF "cvns" \in b.payload THEN b.mapCVNs ELSE s.mapCVNs,
         cache   |-> IF "cvns" \in b.payload
                      THEN [k \in DOMAIN s.cache \cup {h} |->
                               IF k = h THEN b.mapCVNs ELSE s.cache[k]]
                      ELSE s.cache,
         mean    |-> IF "params" \in b.payload THEN b.mean ELSE s.mean]

\* What the blocks of the chain p say.
DataOf(p) ==
    LET cvns == {i \in DOMAIN p : "cvns" \in BlockOf[p[i]].payload}
    IN  [mapCVNs |-> Tip(p).mapCVNs,
         cache   |-> [h \in {i - 1 : i \in cvns} |-> BlockOf[p[h + 1]].mapCVNs],
         mean    |-> Tip(p).mean]

\* The latest block of the chain p with the given payload, as a chain.
MostRecent(p, kind) ==
    SubSeq(p, 1, Max({i \in DOMAIN p : kind \in BlockOf[p[i]].payload}))

GetCvnInfoCache(s, h) ==
    IF h = 0 THEN s.cache[0]
    ELSE s.cache[Max({k \in DOMAIN s.cache : k < h})]

GetNumChainSigs(s, h, missing) ==
    Cardinality(GetCvnInfoCache(s, h)) - Cardinality(missing)
-----------------------------------------------------------------------------
(* Validation                                                              *)

CheckNextBlockCreator(s, p, slot) == creators[<<p, s.mapCVNs>>][slot]

HasEnoughSignatures(s, p, n) ==
    LET k == IF Len(p) < BlocksToConsiderForSigCheck THEN Len(p)
             ELSE BlocksToConsiderForSigCheck
        sum == SumFunction([h \in (Height(p) - k + 1)..Height(p) |->
                               GetNumChainSigs(s, h, BlockOf[p[h + 1]].vMissingSignerIds)])
    IN  n * k * 100 > sum * s.mean

(* The signature of the block was made by the CVNs of its own branch but   *)
(* the missing ones.  It is compared with the sum of the keys in the cache *)
(* if none is missing, and with the keys in mapCVNs otherwise.             *)
CvnVerifyChainSignature(s, p) ==
    LET b == Tip(p)
        signers == Tip(Front(p)).mapCVNs \ b.vMissingSignerIds
    IN  IF Cardinality(s.mapCVNs) = 1 THEN signers = {b.nCreatorId}
        ELSE IF b.vMissingSignerIds = {}
        THEN signers = GetCvnInfoCache(s, Height(p))
        ELSE signers = s.mapCVNs \ b.vMissingSignerIds

\* The block is turned down if its parent is not known, and let pass if the
\* parent was never connected.
CheckProofOfCooperation(s, idx, p) ==
    LET b == Tip(p)
        q == Front(p)
        n == GetNumChainSigs(s, Height(p), b.vMissingSignerIds)
        prev == GetNumChainSigs(s, Height(q), Tip(q).vMissingSignerIds)
    IN  /\ q \in DOMAIN idx
        /\ idx[q].scripts =>
              /\ b.nCreatorId \in s.mapCVNs
              /\ CvnVerifyChainSignature(s, p)
              /\ b.nCreatorId = CheckNextBlockCreator(s, q, b.slot)
              /\ n # 0 /\ prev # 0
              /\ prev > n => HasEnoughSignatures(s, q, n)

(* Every block of the tree was made by the rules: a node that has just the *)
(* data of its parent's chain finds it good.                               *)
MadeByRules ==
    \A p \in Tree :
        LET q == Front(p)
        IN  /\ q \in Blocks
            /\ CheckProofOfCooperation(DataOf(q), [c \in {q} |-> [scripts |-> TRUE]], p)
-----------------------------------------------------------------------------
(* The block index                                                         *)

(* An entry: BLOCK_HAVE_DATA, BLOCK_VALID_SCRIPTS, nChainWork (counted     *)
(* from Start) and nSequenceId.                                            *)
Entry(d, v, w, n) == [have |-> d, scripts |-> v, nChainWork |-> w, nSequenceId |-> n]

\* All blocks up to p are there: nChainTx is not 0.
Linked(idx, p) ==
    \A i \in Len(Start)..Len(p) :
        SubSeq(p, 1, i) \in DOMAIN idx /\ idx[SubSeq(p, 1, i)].have

\* CBlockIndexWorkComparator: p comes before q.
Worse(idx, p, q) ==
    LET a == idx[p]
        b == idx[q]
    IN  \/ a.nChainWork < b.nChainWork
        \/ /\ a.nChainWork = b.nChainWork
           /\ \/ a.nSequenceId > b.nSequenceId
              \/ a.nSequenceId = b.nSequenceId /\ Address[Last(p)] > Address[Last(q)]

FindMostWorkChain ==
    CHOOSE p \in candidates : \A q \in candidates \ {p} : Worse(index, q, p)


\* AddToBlockIndex for a block with the given missing signers.
AddToBlockIndex(p, missing) ==
    IF p \in DOMAIN index THEN index
    ELSE [q \in DOMAIN index \cup {p} |->
             IF q # p THEN index[q]
             ELSE Entry(FALSE, FALSE,
                        index[Front(p)].nChainWork
                          + GetNumChainSigs(data, Height(p), missing), 0)]


\* The blocks that ReceivedBlockTransactions links once it has p.
NowLinked(idx, p) ==
    {q \in DOMAIN idx : IsPrefix(p, q) /\ Linked(idx, q)}

\* Parents first, nBlockSequenceId going up from 1 after a start.
Numbered(idx, new) ==
    LET last == Max({idx[q].nSequenceId : q \in DOMAIN idx})
        Earlier(q) == {r \in new : \/ Len(r) < Len(q)
                                   \/ Len(r) = Len(q) /\ Address[Last(r)] <= Address[Last(q)]}
    IN  [q \in DOMAIN idx |->
            IF q \in new
            THEN [idx[q] EXCEPT !.nSequenceId = last + Cardinality(Earlier(q))]
            ELSE idx[q]]
-----------------------------------------------------------------------------
(* Messages                                                                *)

Idle == [pc |-> "idle", target |-> Start, pblock |-> Start, oldWork |-> 0]

\* HEADERS: the missing signers of the block are not in its header.
ReceiveHeader(p) ==
    /\ work.pc = "idle"
    /\ p \in HeadersFirst \ DOMAIN index
    /\ Front(p) \in DOMAIN index
    /\ index' = AddToBlockIndex(p, {})
    /\ UNCHANGED <<candidates, active, data, work, disk, faults, creators>>

(* BLOCK: ProcessNewBlock up to the call of ActivateBestChain.  A block    *)
(* that fails CheckBlock is dropped and may be received again.             *)
ReceiveBlock(p) ==
    /\ work.pc = "idle"
    /\ p \in DOMAIN index => ~index[p].have
    /\ CheckProofOfCooperation(data, index, p)
    /\ LET idx == [AddToBlockIndex(p, Tip(p).vMissingSignerIds) EXCEPT ![p].have = TRUE]
           new == NowLinked(idx, p)
       IN  /\ index' = Numbered(idx, new)
           /\ candidates' = candidates \cup {q \in new : ~Worse(index', q, active)}
    /\ work' = [Idle EXCEPT !.pc = "find", !.pblock = p]
    /\ UNCHANGED <<active, data, disk, faults, creators>>
-----------------------------------------------------------------------------
(* ActivateBestChain                                                       *)

\* The head of the loop, and the beginning of ActivateBestChainStep.
FindBest ==
    /\ work.pc = "find"
    /\ work' = IF FindMostWorkChain = active THEN Idle
               ELSE [work EXCEPT !.pc = "step", !.target = FindMostWorkChain,
                                 !.oldWork = index[active].nChainWork]
    /\ UNCHANGED <<index, candidates, active, data, disk, faults, creators>>

DisconnectTip ==
    /\ work.pc = "step"
    /\ ~IsPrefix(active, work.target)
    /\ active' = Front(active)
    /\ UNCHANGED <<index, candidates, data, work, disk, faults, creators>>

\* The next block towards the target.
ToConnect == SubSeq(work.target, 1, Len(active) + 1)

\* The block that was just received is not read from disk and checked again.
CheckedAgain ==
    \/ ToConnect = work.pblock /\ work.target = work.pblock
    \/ CheckProofOfCooperation(data, index, ToConnect)

\* ConnectTip succeeds, and the step goes on until the node has more work
\* than before.
ConnectTip ==
    /\ work.pc = "step"
    /\ IsPrefix(active, work.target) /\ active # work.target
    /\ CheckedAgain
    /\ active' = ToConnect
    /\ index' = [index EXCEPT ![ToConnect].scripts = TRUE]
    /\ data' = Update(data, ToConnect)
    /\ candidates' = {p \in candidates : ~Worse(index, p, ToConnect)}
    /\ work' = IF ToConnect = work.target THEN Idle
               ELSE IF index[ToConnect].nChainWork > work.oldWork
               THEN [work EXCEPT !.pc = "find"]
               ELSE work
    /\ UNCHANGED <<disk, faults, creators>>

(* ConnectTip fails with "poc-failed", for which CorruptionPossible holds: *)
(* the block is not marked, and the loop goes on.                          *)
FailToConnect ==
    /\ work.pc = "step"
    /\ IsPrefix(active, work.target) /\ active # work.target
    /\ ~CheckedAgain
    /\ work' = [work EXCEPT !.pc = "find"]
    /\ UNCHANGED <<index, candidates, active, data, disk, faults, creators>>
-----------------------------------------------------------------------------
(* Disk, crash and start                                                   *)

\* Mutant of FlushStateToDisk: the coin database is written without the index.
FlushStateToDiskCoins(full) ==
    /\ work.pc \in IF full THEN {"idle", "find", "step"} ELSE {"idle", "find"}
    /\ faults.writes < MaxWrites
    /\ disk' = IF full THEN [disk EXCEPT !.tip = active] ELSE [disk EXCEPT !.index = index]
    /\ disk' # disk
    /\ faults' = [faults EXCEPT !.writes = @ + 1]
    /\ UNCHANGED <<index, candidates, active, data, work, creators>>

\* Only the block index is written, or the coin database after it: within a
\* step only if the cache of coins is full, when both are.
FlushStateToDisk(full) ==
    /\ work.pc \in IF full THEN {"idle", "find", "step"} ELSE {"idle", "find"}
    /\ faults.writes < MaxWrites
    /\ disk' = [index |-> index, tip |-> IF full THEN active ELSE disk.tip]
    /\ disk' # disk
    /\ faults' = [faults EXCEPT !.writes = @ + 1]
    /\ UNCHANGED <<index, candidates, active, data, work, creators>>

StartIndex == [p \in {Start} |-> Entry(TRUE, TRUE, 0, 0)]

Crash ==
    /\ work.pc \in {"idle", "find", "step"}
    /\ faults.crashes < MaxCrashes
    /\ faults' = [faults EXCEPT !.crashes = @ + 1]
    /\ work' = [Idle EXCEPT !.pc = "down"]
    /\ index' = StartIndex
    /\ candidates' = {}
    /\ active' = Start
    /\ data' = DataOf(Start)
    /\ UNCHANGED <<disk, creators>>

\* The loop of LoadBlockIndexDB reads every block with CVNs; of two at one
\* height the entry of the second stays in the cache.
Readable(idx) == \A p \in DOMAIN idx : "cvns" \in Tip(p).payload => idx[p].have

LoadedCache(idx) ==
    LET with(h) == {p \in DOMAIN idx : Height(p) = h /\ "cvns" \in Tip(p).payload}
        heights == {Height(p) : p \in DOMAIN idx}
        last(h) == CHOOSE p \in with(h) : \A q \in with(h) : Address[Last(q)] <= Address[Last(p)]
        old == DataOf(Start).cache
    IN  [h \in DOMAIN old \cup {k \in heights : with(k) # {}} |->
            IF with(h) # {} THEN Tip(last(h)).mapCVNs ELSE old[h]]

\* The signature counts of an entry: the missing signers were saved if the
\* block was there.
SavedMissing(idx, p) == IF idx[p].have THEN Tip(p).vMissingSignerIds ELSE {}

\* nChainWork of the block p: that of its parent and its own signatures.
LoadedWork(idx, s, p) ==
    LET w[i \in 0..(Len(p) - Len(Start))] ==
           IF i = 0 THEN 0
           ELSE LET q == SubSeq(p, 1, Len(Start) + i)
                IN  w[i - 1] + GetNumChainSigs(s, Height(q), SavedMissing(idx, q))
    IN  w[Len(p) - Len(Start)]

LoadedIndex(idx, s) ==
    [p \in DOMAIN idx |-> Entry(idx[p].have, idx[p].scripts, LoadedWork(idx, s, p), 0)]

\* Mutant of Recalled: VerifyDB does not go back.
RecalledTip(tip, p) == {tip}

\* The prefixes of the tip that SetMostRecentCVNData is called for before
\* VerifyDB, on its way down, checks the block p.
Recalled(tip, p) ==
    {tip} \cup {Front(SubSeq(tip, 1, i)) :
                  i \in {k \in Len(p)..Len(tip) : k > 1 /\ BlockOf[tip[k]].payload # {}}}

\* Mutant of SetMostRecentCVNData: the parameters are left alone.
SetMostRecentCvnsOnly(s, tip, prefixes) ==
    LET lowest == CHOOSE q \in prefixes : \A r \in prefixes : Len(q) <= Len(r)
        heights == {Height(MostRecent(q, "cvns")) : q \in prefixes}
    IN  [mapCVNs |-> Tip(MostRecent(lowest, "cvns")).mapCVNs,
         cache   |-> [h \in DOMAIN s.cache \cup heights |->
                        IF h \in heights THEN BlockOf[tip[h + 1]].mapCVNs ELSE s.cache[h]],
         mean    |-> s.mean]

(* SetMostRecentCVNData, called for the given prefixes of the tip, the     *)
(* longest first: each call writes the latest CVNs of the prefix to the    *)
(* cache, the last one decides on mapCVNs and the parameters.              *)
SetMostRecentCVNData(s, tip, prefixes) ==
    LET lowest == CHOOSE q \in prefixes : \A r \in prefixes : Len(q) <= Len(r)
        heights == {Height(MostRecent(q, "cvns")) : q \in prefixes}
    IN  [mapCVNs |-> Tip(MostRecent(lowest, "cvns")).mapCVNs,
         cache   |-> [h \in DOMAIN s.cache \cup heights |->
                        IF h \in heights THEN BlockOf[tip[h + 1]].mapCVNs ELSE s.cache[h]],
         mean    |-> Tip(MostRecent(lowest, "params")).mean]

\* VerifyDB checks every block with the data that its parent had.
VerifyDB(s, idx, tip) ==
    \A i \in (Len(Start) + 1)..Len(tip) :
        LET p == SubSeq(tip, 1, i)
        IN  \E t \in {SetMostRecentCVNData(s, tip, Recalled(tip, p))} :
               CheckProofOfCooperation(t, idx, p)

LoadedData(d) == [DataOf(Start) EXCEPT !.cache = LoadedCache(d.index)]

\* The data after VerifyDB, which ends with a call for the tip.
VerifiedData(d) ==
    LET s == SetMostRecentCVNData(LoadedData(d), d.tip, Recalled(d.tip, Start))
    IN  SetMostRecentCVNData(s, d.tip, {d.tip})

\* LoadBlockIndex and VerifyDB succeed.
LoadsFrom(d) ==
    /\ Readable(d.index)
    /\ \E s \in {LoadedData(d)} : VerifyDB(s, d.index, d.tip)

\* The start succeeds; ActivateBestChain is not called.
Restart ==
    /\ work.pc = "down"
    /\ LoadsFrom(disk)
    /\ index' = LoadedIndex(disk.index, LoadedData(disk))
    /\ data' = VerifiedData(disk)
    /\ candidates' = {p \in DOMAIN index' :
                         Linked(index', p) /\ ~Worse(index', p, disk.tip)}
    /\ active' = disk.tip
    /\ work' = Idle
    /\ UNCHANGED <<disk, faults, creators>>
-----------------------------------------------------------------------------
Init ==
    /\ creators = [x \in {Front(p) : p \in Tree} \X {Tip(p).mapCVNs : p \in Blocks} |->
                      NextCreators(x[1], x[2])]
    /\ MadeByRules
    /\ index = StartIndex
    /\ candidates = {Start}
    /\ active = Start
    /\ data = DataOf(Start)
    /\ work = Idle
    /\ disk = [index |-> StartIndex, tip |-> Start]
    /\ faults = [crashes |-> 0, writes |-> 0]

Activate == FindBest \/ DisconnectTip \/ ConnectTip \/ FailToConnect

Next ==
    \/ \E p \in Tree : ReceiveHeader(p) \/ ReceiveBlock(p)
    \/ Activate
    \/ \E full \in BOOLEAN : FlushStateToDisk(full)
    \/ Crash
    \/ Restart

(* Peers go on offering a block until the node has it, ActivateBestChain   *)
(* runs on, and a node that is down is started.                            *)
Fairness ==
    /\ \A p \in Tree : WF_vars(ReceiveBlock(p))
    /\ WF_vars(Activate)
    /\ WF_vars(Restart)

Spec == Init /\ [][Next]_vars /\ Fairness
-----------------------------------------------------------------------------
(* Properties                                                              *)

(* What the node works with exists: the active chain and the entries of    *)
(* mapBlockIndex are blocks of the tree, the candidates have entries, and  *)
(* the best block of the coin database is in the block index on disk,      *)
(* since FlushStateToDisk never writes the one without the other.          *)
TypeOK ==
    /\ DOMAIN index \subseteq Blocks
    /\ candidates \subseteq DOMAIN index
    /\ active \in Blocks
    /\ data.mapCVNs \subseteq Cvns
    /\ work.pc \in {"idle", "find", "step", "down"}
    /\ disk.tip \in DOMAIN disk.index

Running == work.pc # "down"

(* "CVN information is stored in the blockchain": the registered CVNs, the *)
(* parameters and the cached sums of keys are those of the active chain at *)
(* every height, whichever blocks came first, were replaced, or were read  *)
(* again after a crash - as long as every block with a payload that the    *)
(* node has is on its chain, or ahead of it and not yet connected.         *)
DataOfActiveChain ==
    /\ Running
    /\ \A p \in DOMAIN index :
          HasPayload(p) /\ index[p].have =>
             \/ IsPrefix(p, active)
             \/ IsPrefix(active, p) /\ ~index[p].scripts
    => /\ data.mapCVNs = Tip(active).mapCVNs
       /\ data.mean = Tip(active).mean
       /\ \A h \in 1..Len(active) : GetCvnInfoCache(data, h) = BlockOf[active[h]].mapCVNs

\* No block on disk has a payload that the chain on disk lacks.
PayloadsOnDiskChain ==
    \A p \in DOMAIN disk.index : HasPayload(p) => IsPrefix(p, disk.tip)

(* Whenever the node dies, it can be started from what is on disk: the     *)
(* chain of the coin database is in the block index with all its blocks,   *)
(* and VerifyDB, going back through the changes of CVNs and parameters,    *)
(* finds every block good.                                                 *)
StartsFromDisk ==
    PayloadsOnDiskChain => Linked(disk.index, disk.tip) /\ LoadsFrom(disk)

\* The signatures of the blocks of a chain above Start.
Signatures(p) ==
    LET Sigs(i) == Cardinality(BlockOf[p[i - 1]].mapCVNs) - Cardinality(BlockOf[p[i]].vMissingSignerIds)
    IN  MapThenSumSet(Sigs, (Len(Start) + 1)..Len(p))

\* A block was received and put into its place since the node was started.
BlockSinceStart == \E p \in DOMAIN index : index[p].nSequenceId > 0


(* ActivateBestChain comes to an end, "either failure or an activated best *)
(* chain".                                                                 *)
ActivationEnds == work.pc \in {"find", "step"} ~> work.pc \in {"idle", "down"}

\* A block with a payload that was connected stays on the chain, and a start
\* finds all such blocks on the chain of the coin database.
PayloadsStay ==
    /\ ~Running => PayloadsOnDiskChain
    /\ \A p \in DOMAIN index :
          HasPayload(p) /\ index[p].scripts => IsPrefix(p, active)

OnBestChain ==
    /\ work.pc = "idle"
    /\ \A p \in Tree : Signatures(p) <= Signatures(active)

=============================================================================
