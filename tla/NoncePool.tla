------------------------------ MODULE NoncePool ------------------------------
(***************************************************************************)
(* The nonce pools of FairCoin2's proof-of-cooperation (src/src/poc.cpp).  *)
(*                                                                         *)
(* A CVN pre-computes a pool of nonce pairs rooted at a block: the pair    *)
(* with offset k is meant for the chain tip k blocks above the root.  It   *)
(* keeps the private halves (vNoncePrivate), relays the public halves and  *)
(* stores both in pool.dat.  Every node keeps the newest pool of each CVN  *)
(* in mapNoncePool and parks a pool whose root it does not know in         *)
(* mapNoncePoolCheckLater.                                                 *)
(*                                                                         *)
(* Each node has three sources of steps that interleave: block connection  *)
(* and message handling (under cs_main), and, if it is a CVN, its PoC      *)
(* thread, which reads the tip WITHOUT cs_main at the top of its loop and  *)
(* goes on using that value while the tip may move.  A CVN may crash, or   *)
(* shut down, and start again from pool.dat.  Pools are delivered in any   *)
(* order, any number of times, or never.                                   *)
(***************************************************************************)
EXTENDS Integers, Sequences

CONSTANTS
    Cvns,         \* CVN ids that are registered at some time
    Nodes,        \* nodes that run; those in Cvns run a PoC thread
    Blocks,       \* the block tree: every block that is ever connected,
    Height,       \*   its height (nHeight),
    Chain,        \*   its ancestors by height (pprev),
    CvnBlocks,    \*   the blocks with a CVN payload (HasCvnInfo)
    Payload,      \*   and the CVN set each of them installs
    Genesis,
    OldPools,     \* pools that CVNs outside Nodes have relayed before
    NoCvn, NoBlock, Nil, NoFile,
    PoolSize,     \* -poolsizenonces
    Keep,         \* -poolkeepnonces
    MaxPoolSize,  \* MAX_NONCE_POOL_SIZE
    MaxLag,       \* blocks that may arrive during one PoC-thread iteration
    MaxTime,      \* bound on the adjusted time at which a pool is created
    DeviceFails,  \* whether creating a nonce pair or signing may fail
    QuickShutdown \* whether a node may be shut down while its own pool is
                  \* the empty entry that handleInit left

Parent(b) == Chain[b][Height[b] - 1]

OnChain(a, b) == Height[a] <= Height[b] /\ Chain[b][Height[a]] = a

ASSUME PoolConstants ==
    /\ PoolSize \in Nat \ {0}
    /\ MaxPoolSize \in Nat
    /\ PoolSize <= MaxPoolSize
    /\ Keep \in Nat
    /\ Keep < PoolSize
    /\ MaxLag \in Nat
    /\ MaxTime \in Nat \ {0}
    /\ DeviceFails \in BOOLEAN
    /\ QuickShutdown \in BOOLEAN

ASSUME TreeConstants ==
    /\ Genesis \in Blocks
    /\ Height \in [Blocks -> Nat]
    /\ Height[Genesis] = 0
    /\ \A b \in Blocks : /\ Chain[b] \in [0..Height[b] -> Blocks]
                         /\ Chain[b][Height[b]] = b
                         /\ \A h \in 0..Height[b] :
                               /\ Height[Chain[b][h]] = h
                               /\ \A g \in 0..h :
                                     Chain[Chain[b][h]][g] = Chain[b][g]
    /\ Genesis \in CvnBlocks
    /\ CvnBlocks \subseteq Blocks
    /\ Payload \in [CvnBlocks -> SUBSET Cvns]

ASSUME NullConstants ==
    /\ NoCvn \notin Cvns
    /\ NoBlock \notin Blocks

VARIABLES
    tip,      \* chainActive.Tip() of each node
    cvns,     \* mapCVNs: the registered CVN ids
    pools,    \* mapNoncePool
    later,    \* mapNoncePoolCheckLater
    relay,    \* mapRelayNonces: the pools a node has accepted and can serve
    net,      \* every pool that was ever relayed
    priv,     \* vNoncePrivate of a CVN
    disk,     \* its pool.dat
    inited,   \* fNoncePoolInitialsed
    state,    \* POCStateHolder::state of its PoC thread
    pc,       \* where its PoC thread is in the loop
    prev,     \* POCStateHolder::pindexPrev
    last,     \* POCStateHolder::pindexLastTip
    pending,  \* the local `pool' of CreateNewNoncePool
    clock,    \* its adjusted time
    used      \* history: the <<private nonce, block height>> pairs signed with

vars == <<tip, cvns, pools, later, relay, net, priv, disk, inited,
          state, pc, prev, last, pending, clock, used>>

Owners == Nodes \cap Cvns
-----------------------------------------------------------------------------
(* CNoncePool.  A nonce pair is named by the time it was created and the   *)
(* height it was created for, so both halves of a pair have one name.  The *)
(* message signature is the nonce vector it was computed over.             *)

Nonces == [time : 0..MaxTime, height : Nat]

Pool == [nCvnId : Cvns \cup {NoCvn}, hashRootBlock : Blocks \cup {NoBlock},
         vPublicNonces : Seq(Nonces), nCreationTime : 0..MaxTime,
         msgSig : Seq(Nonces), nHeightAdded : Nat]

ASSUME OldPoolConstants ==
    /\ OldPools \subseteq Pool
    /\ \A p \in OldPools : p.nCvnId \in Cvns \ Nodes /\ p.nHeightAdded = 0
    /\ \A p, q \in OldPools :
          p.nCvnId = q.nCvnId /\ p.nCreationTime = q.nCreationTime => p = q

ASSUME NilConstants == Nil \notin Pool

\* A default-constructed pool: what mapNoncePool[id] inserts for a new key.
EmptyPool == [nCvnId |-> NoCvn, hashRootBlock |-> NoBlock,
              vPublicNonces |-> << >>, nCreationTime |-> 0,
              msgSig |-> << >>, nHeightAdded |-> 0]

\* What is sent or saved: nHeightAdded is "memory only".
Serialized(p) == [p EXCEPT !.nHeightAdded = 0]

\* CvnVerifySignature of the pool message against the registered key.
SigValid(p, reg) == p.nCvnId \in reg /\ p.msgSig = p.vPublicNonces

\* The distance of the pool's root from b, or -1 when the root is not among
\* the last vPublicNonces.size() blocks of b's chain.
GetPoolAge(p, b) ==
    LET r == p.hashRootBlock
    IN  IF r \in Blocks /\ OnChain(r, b) /\ Height[b] - Height[r] < Len(p.vPublicNonces)
        THEN Height[b] - Height[r]
        ELSE -1

\* "received pool with old time stamp" or "already have this"
Stale(p, held) == held # Nil /\ p.nCreationTime <= held.nCreationTime

SizeOk(p) == Len(p.vPublicNonces) \in 1..MaxPoolSize

(* AddNoncePool, for the map entry `held' of the pool's CVN: its result,   *)
(* the entry it leaves in mapNoncePool, and the one in                     *)
(* mapNoncePoolCheckLater.                                                 *)
AddNoncePool(p, held, reg) ==
    SigValid(p, reg) /\ (Stale(p, held) \/ SizeOk(p))

\* Mutants of PoolEntry: the difference swapped; the age forgotten.
PoolEntrySwapped(p, held, reg, b) ==
    IF SigValid(p, reg) /\ ~Stale(p, held) /\ SizeOk(p) /\ GetPoolAge(p, b) >= 0
    THEN [p EXCEPT !.nHeightAdded = GetPoolAge(p, b) - Height[b]]
    ELSE held

PoolEntryAtTip(p, held, reg, b) ==
    IF SigValid(p, reg) /\ ~Stale(p, held) /\ SizeOk(p) /\ GetPoolAge(p, b) >= 0
    THEN [p EXCEPT !.nHeightAdded = Height[b]]
    ELSE held

PoolEntry(p, held, reg, b) ==
    IF SigValid(p, reg) /\ ~Stale(p, held) /\ SizeOk(p) /\ GetPoolAge(p, b) >= 0
    THEN [p EXCEPT !.nHeightAdded = Height[b] - GetPoolAge(p, b)]
    ELSE held

LaterEntry(p, held, old, reg, b) ==
    IF SigValid(p, reg) /\ ~Stale(p, held) /\ SizeOk(p) /\ GetPoolAge(p, b) < 0
    THEN p
    ELSE old

\* Mutant of Expire: the pools of removed CVNs stay.
ExpireByAge(held, reg, b) ==
    IF held # Nil /\ GetPoolAge(held, b) < 0 THEN Nil ELSE held

(* CheckNoncePools(b) on a node whose active tip is t: drop the pools of   *)
(* removed CVNs and the expired ones (an age of -1 is a huge unsigned      *)
(* number), then reconsider the parked pools that are rooted at b.         *)
Expire(held, reg, b) ==
    IF held # Nil /\ (held.nCvnId \notin reg \/ GetPoolAge(held, b) < 0)
    THEN Nil
    ELSE held

Reconsidered(p, b) == p # Nil /\ p.hashRootBlock = b

CheckedPools(mp, ml, reg, b, t) ==
    [c \in Cvns |->
        IF Reconsidered(ml[c], b) /\ ml[c].nCvnId \in reg
        THEN PoolEntry(ml[c], Expire(mp[c], reg, b), reg, t)
        ELSE Expire(mp[c], reg, b)]

CheckedLater(ml, b) ==
    [c \in Cvns |-> IF Reconsidered(ml[c], b) THEN Nil ELSE ml[c]]

\* SaveNoncesPool on a node with entry `held' for itself.
SaveNoncesPool(n, held, pr) ==
    disk' = IF held # Nil /\ inited[n]
            THEN [disk EXCEPT ![n] = [pool |-> Serialized(held), private |-> pr]]
            ELSE disk

RelayNoncePool(n, p) ==
    /\ net' = net \cup {Serialized(p)}
    /\ relay' = [relay EXCEPT ![n] = @ \cup {Serialized(p)}]
-----------------------------------------------------------------------------
(* Blocks and messages (any node).                                         *)

InIteration(n) == n \in Owners /\ pc[n] # "top"

(* ConnectTip, preceded by the DisconnectTip calls of a reorganisation     *)
(* when b does not extend the tip.  mapCVNs follows the CVN payload of the *)
(* connected block; disconnecting a block restores nothing.                *)
ConnectTip(n, b) ==
    LET reg == IF b \in CvnBlocks THEN Payload[b] ELSE cvns[n]
    IN  /\ b # Genesis
        /\ OnChain(Parent(b), tip[n])
        /\ ~OnChain(b, tip[n])
        /\ InIteration(n) =>
              OnChain(prev[n], b) /\ Height[b] - Height[prev[n]] <= MaxLag
        /\ tip' = [tip EXCEPT ![n] = b]
        /\ cvns' = [cvns EXCEPT ![n] = reg]
        /\ pools' = [pools EXCEPT ![n] = CheckedPools(@, later[n], reg, b, b)]
        /\ later' = [later EXCEPT ![n] = CheckedLater(@, b)]
        /\ UNCHANGED <<relay, net, priv, disk, inited, state, pc, prev, last,
                       pending, clock, used>>

(* The NONCEPOOL message handler; a pool in mapRelayNonces is not          *)
(* processed again (AlreadyHave).                                          *)
ReceiveNoncePool(n, p) ==
    /\ p \notin relay[n]
    /\ p.nCvnId \in Cvns
    /\ LET c == p.nCvnId
           held == pools[n][c]
       IN  /\ AddNoncePool(p, held, cvns[n])
           /\ pools' = [pools EXCEPT ![n][c] = PoolEntry(p, held, cvns[n], tip[n])]
           /\ later' = [later EXCEPT ![n][c] =
                            LaterEntry(p, held, @, cvns[n], tip[n])]
    /\ relay' = [relay EXCEPT ![n] = @ \cup {p}]
    /\ UNCHANGED <<tip, cvns, net, priv, disk, inited, state, pc, prev, last,
                   pending, clock, used>>
-----------------------------------------------------------------------------
(* The PoC thread of a CVN.  CREATE_SIGNATURE stands for every state in    *)
(* which the thread has handled its tip and may sign.                      *)

States == {"NOT_STARTED", "INIT", "WAITING_FOR_BLOCK_PROPAGATION",
           "CREATE_SIGNATURE", "CREATE_SIGNATURE_OVERDUE",
           "WAITING_FOR_CVN_DATA"}

\* RunPOCThread: the state holder is built from the tip and the first
\* iteration reads it again at once.
StartThread(n) ==
    /\ state[n] = "NOT_STARTED"
    /\ state' = [state EXCEPT ![n] = "INIT"]
    /\ pc' = [pc EXCEPT ![n] = "run"]
    /\ prev' = [prev EXCEPT ![n] = tip[n]]
    /\ last' = [last EXCEPT ![n] = tip[n]]
    /\ UNCHANGED <<tip, cvns, pools, later, relay, net, priv, disk, inited,
                   pending, clock, used>>

(* The top of the loop: read the tip; on a new tip reset to                *)
(* WAITING_FOR_BLOCK_PROPAGATION, else a block spacing timeout may reset   *)
(* to CREATE_SIGNATURE_OVERDUE.                                            *)
LoopTop(n) ==
    /\ pc[n] = "top"
    /\ state[n] # "NOT_STARTED"
    /\ pc' = [pc EXCEPT ![n] = "run"]
    /\ prev' = [prev EXCEPT ![n] = tip[n]]
    /\ \/ /\ state[n] # "WAITING_FOR_CVN_DATA"
          /\ tip[n] # last[n]
          /\ last' = [last EXCEPT ![n] = tip[n]]
          /\ state' = [state EXCEPT ![n] = "WAITING_FOR_BLOCK_PROPAGATION"]
       \/ /\ state[n] # "WAITING_FOR_CVN_DATA"
          /\ tip[n] = last[n]
          /\ state' = [state EXCEPT ![n] = "CREATE_SIGNATURE_OVERDUE"]
          /\ UNCHANGED last
       \/ /\ state[n] = "WAITING_FOR_CVN_DATA" \/ tip[n] = last[n]
          /\ UNCHANGED <<state, last>>
    /\ UNCHANGED <<tip, cvns, pools, later, relay, net, priv, disk, inited,
                   pending, clock, used>>

(* CreateNewNoncePool, first part (CreateNoncePoolFile and the signature): *)
(* the unused nonces of the own pool are recycled - its entry in           *)
(* mapNoncePool and vNoncePrivate lose the used ones in place - and fresh  *)
(* ones fill the pool up.                                                  *)
Recycles(n, own, pr) ==
    /\ own # Nil
    /\ GetPoolAge(own, tip[n]) > 0
    /\ Len(pr) = Len(own.vPublicNonces)

\* Mutant of Unused: one nonce too few is dropped.
UnusedOffByOne(own, b, s) == SubSeq(s, GetPoolAge(own, b), Len(s))

Unused(own, b, s) == SubSeq(s, GetPoolAge(own, b) + 1, Len(s))

RecycledEntry(n, own, pr) ==
    IF Recycles(n, own, pr)
    THEN [own EXCEPT !.vPublicNonces = Unused(own, tip[n], @)]
    ELSE own

RecycledPublic(n, own, pr) ==
    IF Recycles(n, own, pr) THEN Unused(own, tip[n], own.vPublicNonces) ELSE << >>

\* Mutant of RecycledPrivate: the private halves are not dropped.
RecycledAllPrivate(n, own, pr) == IF Recycles(n, own, pr) THEN pr ELSE << >>

RecycledPrivate(n, own, pr) ==
    IF Recycles(n, own, pr) THEN Unused(own, tip[n], pr) ELSE << >>

FreshNonces(n, used0, total) ==
    [i \in 1..(total - used0) |->
        [time |-> clock[n], height |-> Height[prev[n]] + used0 + i - 1]]

NewPool(n, own, pr) ==
    LET rec == RecycledPublic(n, own, pr)
        nonces == rec \o FreshNonces(n, Len(rec), PoolSize)
    IN  [nCvnId |-> n, hashRootBlock |-> prev[n], vPublicNonces |-> nonces,
         nCreationTime |-> clock[n], msgSig |-> nonces, nHeightAdded |-> 0]

NewPrivate(n, own, pr) ==
    LET rec == RecycledPrivate(n, own, pr)
    IN  rec \o FreshNonces(n, Len(rec), PoolSize)

\* The device or the key fails after k fresh nonces were made: there is no
\* pool, but the used nonces are gone.
FailNewPool(n, own, pr) ==
    LET rec == RecycledPrivate(n, own, pr)
    IN  /\ DeviceFails
        /\ clock[n] < MaxTime
        /\ clock' = [clock EXCEPT ![n] = @ + 1]
        /\ \E k \in 0..(PoolSize - Len(rec)) :
              priv' = [priv EXCEPT ![n] = rec \o FreshNonces(n, Len(rec), Len(rec) + k)]

(* handleInit for a registered CVN, under cs_main: use pool.dat if it can  *)
(* be read, belongs to this CVN, has as many private as public nonces and  *)
(* AddNoncePool accepts it - which it also does when it only parks the     *)
(* pool; mapNoncePool[id] then makes an empty entry, and relays that.      *)
FileReadable(n) == disk[n] # NoFile /\ disk[n].pool.nCvnId = n

FileUsable(n) ==
    /\ FileReadable(n)
    /\ Len(disk[n].private) = Len(disk[n].pool.vPublicNonces)
    /\ AddNoncePool(disk[n].pool, Nil, cvns[n])

UseSavedPool(n) ==
    LET p == disk[n].pool
        e == PoolEntry(p, Nil, cvns[n], tip[n])
        own == IF e = Nil THEN EmptyPool ELSE e
    IN  /\ FileUsable(n)
        /\ priv' = [priv EXCEPT ![n] = disk[n].private]
        /\ pools' = [pools EXCEPT ![n][n] = own]
        /\ later' = [later EXCEPT ![n][n] =
                         LaterEntry(p, Nil, @, cvns[n], tip[n])]
        /\ RelayNoncePool(n, own)
        /\ UNCHANGED <<disk, clock>>

\* What a failed SetUpNoncePool leaves in vNoncePrivate and in mapNoncePool.
PrivateAfterSetUp(n) ==
    IF disk[n] = NoFile THEN priv[n]
    ELSE IF FileReadable(n) /\ Len(disk[n].private) # Len(disk[n].pool.vPublicNonces)
         THEN << >>
         ELSE disk[n].private

OwnAfterSetUp(n) ==
    IF FileReadable(n) /\ Len(disk[n].private) = Len(disk[n].pool.vPublicNonces)
    THEN Nil
    ELSE pools[n][n]

CreateInitialPool(n) ==
    LET own == OwnAfterSetUp(n)
        pr  == PrivateAfterSetUp(n)
        p   == NewPool(n, own, pr)
        held == RecycledEntry(n, own, pr)
        kept == PoolEntry(p, held, cvns[n], tip[n])
    IN  /\ ~FileUsable(n)
        /\ clock[n] < MaxTime
        /\ clock' = [clock EXCEPT ![n] = @ + 1]
        /\ priv' = [priv EXCEPT ![n] = NewPrivate(n, own, pr)]
        /\ pools' = [pools EXCEPT ![n][n] = kept]
        /\ later' = [later EXCEPT ![n][n] =
                         LaterEntry(p, held, @, cvns[n], tip[n])]
        /\ IF AddNoncePool(p, held, cvns[n])
           THEN /\ SaveNoncesPool(n, kept, NewPrivate(n, own, pr))
                /\ RelayNoncePool(n, p)
           ELSE UNCHANGED <<disk, net, relay>>

FailInitialPool(n) ==
    LET own == OwnAfterSetUp(n)
        pr  == PrivateAfterSetUp(n)
    IN  /\ ~FileUsable(n)
        /\ FailNewPool(n, own, pr)
        /\ pools' = [pools EXCEPT ![n][n] = RecycledEntry(n, own, pr)]
        /\ UNCHANGED <<later, relay, net, disk>>

HandleInit(n) ==
    /\ pc[n] = "run"
    /\ state[n] = "INIT"
    /\ pc' = [pc EXCEPT ![n] = "top"]
    /\ \/ /\ n \in cvns[n]
          /\ UseSavedPool(n) \/ CreateInitialPool(n) \/ FailInitialPool(n)
          /\ inited' = [inited EXCEPT ![n] = TRUE]
          /\ \E s \in {"CREATE_SIGNATURE_OVERDUE", "WAITING_FOR_BLOCK_PROPAGATION"} :
                state' = [state EXCEPT ![n] = s]
       \/ /\ n \notin cvns[n]
          /\ state' = [state EXCEPT ![n] = "WAITING_FOR_CVN_DATA"]
          /\ UNCHANGED <<pools, later, relay, net, priv, disk, inited, clock>>
    /\ UNCHANGED <<tip, cvns, prev, last, pending, used>>

(* CreateNewNoncePool from a handler that does not hold cs_main: the pool  *)
(* is made here, and added by FinishNewPool in a later step.               *)
StartNewPool(n) ==
    LET own == pools[n][n]
    IN  /\ clock[n] < MaxTime
        /\ pending' = [pending EXCEPT ![n] = NewPool(n, own, priv[n])]
        /\ priv' = [priv EXCEPT ![n] = NewPrivate(n, own, priv[n])]
        /\ pools' = [pools EXCEPT ![n][n] = RecycledEntry(n, own, priv[n])]
        /\ clock' = [clock EXCEPT ![n] = @ + 1]
        /\ pc' = [pc EXCEPT ![n] = "add"]

\* Mutant of NeedsNewPool: a pool is replaced only when it has no nonce left.
NeedsNewPoolLate(n) ==
    LET own == pools[n][n]
    IN  own # Nil => GetPoolAge(own, prev[n]) >= Len(own.vPublicNonces)

\* nPoolAge is unsigned: an age of -1 wraps, and adding Keep > 0 wraps back.
NeedsNewPool(n) ==
    LET own == pools[n][n]
        age == GetPoolAge(own, prev[n])
    IN  own # Nil => \/ age + Keep >= Len(own.vPublicNonces)
                     \/ age < 0 /\ Keep = 0

\* mapNoncePool when the new pool, if one was needed, could not be made.
TrimmedPools(n) ==
    IF NeedsNewPool(n)
    THEN [pools[n] EXCEPT ![n] = RecycledEntry(n, pools[n][n], priv[n])]
    ELSE pools[n]

(* handleWaitingForBlockPropagation.                                       *)
HandleBlockPropagation(n) ==
    /\ pc[n] = "run"
    /\ state[n] = "WAITING_FOR_BLOCK_PROPAGATION"
    /\ \/ /\ n \notin cvns[n]
          /\ state' = [state EXCEPT ![n] = "WAITING_FOR_CVN_DATA"]
          /\ pc' = [pc EXCEPT ![n] = "top"]
          /\ UNCHANGED <<pools, later, priv, clock, pending>>
       \/ /\ n \in cvns[n]
          /\ NeedsNewPool(n)
          /\ StartNewPool(n)
          /\ UNCHANGED <<later, state>>
       \/ /\ n \in cvns[n]
          /\ NeedsNewPool(n) => FailNewPool(n, pools[n][n], priv[n])
          /\ ~NeedsNewPool(n) => UNCHANGED <<priv, clock>>
          /\ pools' = [pools EXCEPT ![n] =
                 CheckedPools(TrimmedPools(n), later[n], cvns[n], prev[n], tip[n])]
          /\ later' = [later EXCEPT ![n] = CheckedLater(@, prev[n])]
          /\ state' = [state EXCEPT ![n] = "CREATE_SIGNATURE"]
          /\ pc' = [pc EXCEPT ![n] = "top"]
          /\ UNCHANGED pending
    /\ UNCHANGED <<tip, cvns, relay, net, disk, inited, prev, last, used>>

(* handleWaitingForCvnData.                                                *)
HandleCvnData(n) ==
    /\ pc[n] = "run"
    /\ state[n] = "WAITING_FOR_CVN_DATA"
    /\ \/ /\ n \notin cvns[n]
          /\ pc' = [pc EXCEPT ![n] = "top"]
          /\ UNCHANGED <<pools, priv, clock, pending, state, inited>>
       \/ /\ n \in cvns[n]
          /\ StartNewPool(n)
          /\ UNCHANGED <<state, inited>>
       \/ /\ n \in cvns[n]
          /\ FailNewPool(n, pools[n][n], priv[n])
          /\ pools' = [pools EXCEPT ![n][n] = RecycledEntry(n, pools[n][n], priv[n])]
          /\ state' = [state EXCEPT ![n] = "WAITING_FOR_BLOCK_PROPAGATION"]
          /\ inited' = [inited EXCEPT ![n] = TRUE]
          /\ pc' = [pc EXCEPT ![n] = "top"]
          /\ UNCHANGED pending
    /\ UNCHANGED <<tip, cvns, later, relay, net, disk, prev, last, used>>

(* The rest of CreateNewNoncePool, under cs_main, and of the handler that  *)
(* called it.                                                              *)
FinishNewPool(n) ==
    LET p == pending[n]
        own == pools[n][n]
        kept == PoolEntry(p, own, cvns[n], tip[n])
        mp == [pools[n] EXCEPT ![n] = kept]
        ml == [later[n] EXCEPT ![n] = LaterEntry(p, own, @, cvns[n], tip[n])]
    IN  /\ pc[n] = "add"
        /\ IF AddNoncePool(p, own, cvns[n])
           THEN /\ SaveNoncesPool(n, kept, priv[n])
                /\ RelayNoncePool(n, p)
           ELSE UNCHANGED <<disk, net, relay>>
        /\ \/ /\ state[n] = "WAITING_FOR_BLOCK_PROPAGATION"
              /\ pools' = [pools EXCEPT ![n] = CheckedPools(mp, ml, cvns[n], prev[n], tip[n])]
              /\ later' = [later EXCEPT ![n] = CheckedLater(ml, prev[n])]
              /\ state' = [state EXCEPT ![n] = "CREATE_SIGNATURE"]
              /\ UNCHANGED inited
           \/ /\ state[n] = "WAITING_FOR_CVN_DATA"
              /\ pools' = [pools EXCEPT ![n] = mp]
              /\ later' = [later EXCEPT ![n] = ml]
              /\ state' = [state EXCEPT ![n] = "WAITING_FOR_BLOCK_PROPAGATION"]
              /\ inited' = [inited EXCEPT ![n] = TRUE]
        /\ pc' = [pc EXCEPT ![n] = "top"]
        /\ pending' = [pending EXCEPT ![n] = Nil]
        /\ UNCHANGED <<tip, cvns, priv, prev, last, clock, used>>

(* CvnSignPartial.  A lone CVN signs without nonces.  Otherwise at least   *)
(* one other CVN must have a public nonce for the active tip (those        *)
(* without a pool are listed as missing), and the private nonce is the one *)
(* at the offset of the ACTIVE tip in the own pool, while the block signed *)
(* on is the thread's.  The index is not checked: out of range anything    *)
(* may be read, which is not recorded.                                     *)
PublicOffset(p, b) == Height[b] - p.nHeightAdded

HasPublicNonce(p, b) ==
    p # Nil /\ PublicOffset(p, b) \in 0..(Len(p.vPublicNonces) - 1)

OthersHaveNonces(n) ==
    \E c \in cvns[n] \ {n} : HasPublicNonce(pools[n][c], tip[n])

SignOffset(n) ==
    PublicOffset(IF pools[n][n] = Nil THEN EmptyPool ELSE pools[n][n], tip[n])

SignsWithNonce(n) == n \in cvns[n] /\ OthersHaveNonces(n)

Sign(n) ==
    /\ pc[n] = "run"
    /\ state[n] \in {"CREATE_SIGNATURE", "CREATE_SIGNATURE_OVERDUE"}
    /\ pc' = [pc EXCEPT ![n] = "top"]
    /\ \/ /\ ~SignsWithNonce(n)
          /\ UNCHANGED <<pools, used>>
       \/ /\ SignsWithNonce(n)
          /\ pools' = [pools EXCEPT ![n][n] = IF @ = Nil THEN EmptyPool ELSE @]
          /\ used' = IF SignOffset(n) \in 0..(Len(priv[n]) - 1)
                     THEN [used EXCEPT ![n] = @ \cup
                             {<<priv[n][SignOffset(n) + 1], Height[prev[n]]>>}]
                     ELSE used
    /\ UNCHANGED <<tip, cvns, later, relay, net, priv, disk, inited, state,
                   prev, last, pending, clock>>

(* The process dies and comes back with what is on disk.                   *)
Restart(n) ==
    /\ pools' = [pools EXCEPT ![n] = [c \in Cvns |-> Nil]]
    /\ later' = [later EXCEPT ![n] = [c \in Cvns |-> Nil]]
    /\ relay' = [relay EXCEPT ![n] = {}]
    /\ priv' = [priv EXCEPT ![n] = << >>]
    /\ inited' = [inited EXCEPT ![n] = FALSE]
    /\ state' = [state EXCEPT ![n] = "NOT_STARTED"]
    /\ pc' = [pc EXCEPT ![n] = "top"]
    /\ pending' = [pending EXCEPT ![n] = Nil]
    /\ prev' = [prev EXCEPT ![n] = Genesis]
    /\ last' = [last EXCEPT ![n] = Genesis]
    /\ UNCHANGED <<tip, cvns, net, clock, used>>

Crash(n) == Restart(n) /\ UNCHANGED disk

\* Shutdown: the PoC thread is interrupted in its sleep, then StopNode saves.
Shutdown(n) ==
    /\ pc[n] = "top"
    /\ QuickShutdown \/ pools[n][n] # EmptyPool
    /\ SaveNoncesPool(n, pools[n][n], priv[n])
    /\ Restart(n)

\* setgenerate: the PoC thread is stopped, the process goes on.
StopThread(n) ==
    /\ pc[n] = "top"
    /\ state[n] # "NOT_STARTED"
    /\ state' = [state EXCEPT ![n] = "NOT_STARTED"]
    /\ prev' = [prev EXCEPT ![n] = Genesis]
    /\ last' = [last EXCEPT ![n] = Genesis]
    /\ UNCHANGED <<tip, cvns, pools, later, relay, net, priv, disk, inited,
                   pc, pending, clock, used>>
-----------------------------------------------------------------------------
Init ==
    /\ tip = [n \in Nodes |-> Genesis]
    /\ cvns = [n \in Nodes |-> Payload[Genesis]]
    /\ pools = [n \in Nodes |-> [c \in Cvns |-> Nil]]
    /\ later = [n \in Nodes |-> [c \in Cvns |-> Nil]]
    /\ relay = [n \in Nodes |-> {}]
    /\ net = OldPools
    /\ priv = [n \in Owners |-> << >>]
    /\ disk = [n \in Owners |-> NoFile]
    /\ inited = [n \in Owners |-> FALSE]
    /\ state = [n \in Owners |-> "NOT_STARTED"]
    /\ pc = [n \in Owners |-> "top"]
    /\ prev = [n \in Owners |-> Genesis]
    /\ last = [n \in Owners |-> Genesis]
    /\ pending = [n \in Owners |-> Nil]
    /\ clock = [n \in Owners |-> 1]
    /\ used = [n \in Owners |-> {}]

NodeStep(n) ==
    \/ \E b \in Blocks : ConnectTip(n, b)
    \/ \E p \in net : ReceiveNoncePool(n, p)

ThreadStep(n) ==
    \/ StartThread(n)
    \/ LoopTop(n)
    \/ HandleInit(n)
    \/ HandleBlockPropagation(n)
    \/ HandleCvnData(n)
    \/ FinishNewPool(n)
    \/ Sign(n)

ProcessStep(n) == Crash(n) \/ Shutdown(n) \/ StopThread(n)

Next ==
    \/ \E n \in Nodes : NodeStep(n)
    \/ \E n \in Owners : ThreadStep(n) \/ ProcessStep(n)

Spec == Init /\ [][Next]_vars
-----------------------------------------------------------------------------
(* Pools in memory, parked, on disk and on the network are well formed,    *)
(* the thread of a node works on blocks that exist, and when it is to add  *)
(* the pool that CreateNewNoncePool made, there is one.                    *)
TypeOK ==
    /\ tip \in [Nodes -> Blocks]
    /\ cvns \in [Nodes -> SUBSET Cvns]
    /\ pools \in [Nodes -> [Cvns -> Pool \cup {Nil}]]
    /\ later \in [Nodes -> [Cvns -> Pool \cup {Nil}]]
    /\ relay \in [Nodes -> SUBSET Pool]
    /\ net \in SUBSET Pool
    /\ priv \in [Owners -> Seq(Nonces)]
    /\ disk \in [Owners -> [pool : Pool, private : Seq(Nonces)] \cup {NoFile}]
    /\ inited \in [Owners -> BOOLEAN]
    /\ state \in [Owners -> States]
    /\ pc \in [Owners -> {"top", "run", "add"}]
    /\ prev \in [Owners -> Blocks]
    /\ last \in [Owners -> Blocks]
    /\ pending \in [Owners -> Pool \cup {Nil}]
    /\ clock \in [Owners -> 0..MaxTime]
    /\ used \in [Owners -> SUBSET (Nonces \X Nat)]
    /\ \A n \in Owners : pc[n] = "add" => pending[n] \in Pool

\* A pool entry made by AddNoncePool, as opposed to an empty one.
Real(p) == p # Nil /\ p # EmptyPool

\* The thread has set up its pool and is not in the middle of replacing it.
Settled(n) == state[n] \notin {"NOT_STARTED", "INIT"} /\ pc[n] # "add"

(* Every node that holds a pool of another CVN holds exactly what that CVN *)
(* relayed, counts offsets from the height of the pool's root, and no CVN  *)
(* ever relays two different pools with one creation time.  So two nodes   *)
(* that hold pools of a CVN with equal creation times read the same public *)
(* nonce at every height - whatever was lost, duplicated, reordered,       *)
(* parked and reconsidered, and whatever chain each of them is on.         *)
PeersAgree ==
    /\ \A m \in Nodes, c \in Cvns :
          m # c /\ pools[m][c] # Nil =>
             /\ pools[m][c].nHeightAdded = Height[pools[m][c].hashRootBlock]
             /\ pools[m][c].nCvnId = c
             /\ Serialized(pools[m][c]) \in net
    /\ \A p, q \in net :
          p.nCvnId = q.nCvnId /\ p.nCreationTime = q.nCreationTime => p = q

(* A node that holds a pool of another CVN can read that CVN's public      *)
(* nonce for the active tip, and the CVN is registered.  The code relies   *)
(* on it: a CVN is listed as missing only when it has NO pool, while       *)
(* CreateSumPublicNoncesOthers silently skips one whose pool has no nonce. *)
HeldPoolsUsable ==
    \A m \in Nodes, c \in Cvns :
        m # c /\ pools[m][c] # Nil =>
            c \in cvns[m] /\ HasPublicNonce(pools[m][c], tip[m])

(* A CVN's private nonces are the halves of the public nonces of its own   *)
(* pool, one by one, whenever its thread is between two operations: after  *)
(* recycling, expiry, a crash or a restart from pool.dat, and although its *)
(* own pools also come back to it from the network.                        *)
OwnPaired ==
    \A n \in Owners :
        Settled(n) /\ Real(pools[n][n]) => priv[n] = pools[n][n].vPublicNonces

(* A CVN that has handled its tip finds a private nonce at the offset it   *)
(* computes, also when up to Keep blocks arrive before it signs            *)
(* (vNoncePrivate is indexed without a check).                             *)
SignIndexInRange ==
    \A n \in Owners :
        pc[n] = "run" /\ state[n] = "CREATE_SIGNATURE" /\ SignsWithNonce(n)
        => SignOffset(n) \in 0..(Len(priv[n]) - 1)

(* "one nonce is used up per block height" (doc/on-proof-of-cooperation):  *)
(* no private nonce serves for blocks at two heights, across pool changes  *)
(* and restarts.                                                           *)
NonceUsedAtOneHeight ==
    \A n \in Owners : \A u, v \in used[n] : u[1] = v[1] => u[2] = v[2]
=============================================================================
