--------------------------- MODULE NoncePoolProofs ---------------------------
(* Proofs about the nonce pools, for every block tree, every set of CVNs and *)
(* nodes, every pool size and every bound.                                   *)
EXTENDS NoncePool, TLAPS

\* The entry of a map: a pool or nothing.
Entry == Pool \cup {Nil}
-----------------------------------------------------------------------------
(* Sequences. *)

\* The length of a sequence and its elements.
LEMMA LenIs ==
    ASSUME NEW S, NEW s \in Seq(S)
    PROVE  Len(s) \in Nat /\ DOMAIN s = 1..Len(s) /\ \A i \in 1..Len(s) : s[i] \in S
    BY SMT, Z3

\* The length of two sequences in a row and their elements.
LEMMA ConcatIs ==
    ASSUME NEW S, NEW s \in Seq(S), NEW t \in Seq(S)
    PROVE  /\ s \o t \in Seq(S)
           /\ Len(s \o t) = Len(s) + Len(t)
           /\ \A i \in 1..(Len(s) + Len(t)) :
                 (s \o t)[i] = IF i <= Len(s) THEN s[i] ELSE t[i - Len(s)]
    BY SMT, Z3
-----------------------------------------------------------------------------
(* Types of the operators. *)

\* Serializing a pool gives a pool.
LEMMA SerializedType ==
    ASSUME NEW p \in Pool
    PROVE  /\ Serialized(p) \in Pool
           /\ Serialized(p).nHeightAdded = 0
           /\ Serialized(p).nCvnId = p.nCvnId
           /\ Serialized(p).nCreationTime = p.nCreationTime
           /\ Serialized(p).vPublicNonces = p.vPublicNonces
           /\ Serialized(p).msgSig = p.msgSig
           /\ Serialized(p).hashRootBlock = p.hashRootBlock
BY Zenon DEF Serialized, Pool

\* The empty pool is a pool.
LEMMA EmptyPoolType == EmptyPool \in Pool
<1>1. << >> \in Seq(Nonces)
  BY SMT, Z3
<1>2. 0 \in 0..MaxTime
  BY PoolConstants, SMT, Z3
<1> QED BY <1>1, <1>2, Zenon DEF EmptyPool, Pool

\* The heights of the block tree.
LEMMA Heights ==
    /\ Genesis \in Blocks /\ Genesis \in CvnBlocks /\ CvnBlocks \subseteq Blocks
    /\ Height[Genesis] = 0
    /\ \A b \in Blocks : Height[b] \in Nat
BY TreeConstants, Zenon

\* The age of a pool is -1 or an offset into it, the distance from its root.
LEMMA AgeRange ==
    ASSUME NEW p \in Pool, NEW b \in Blocks
    PROVE  /\ GetPoolAge(p, b) \in Int
           /\ GetPoolAge(p, b) >= 0 =>
                 /\ p.hashRootBlock \in Blocks
                 /\ OnChain(p.hashRootBlock, b)
                 /\ GetPoolAge(p, b) = Height[b] - Height[p.hashRootBlock]
                 /\ GetPoolAge(p, b) < Len(p.vPublicNonces)
<1>1. Height[b] \in Nat /\ \A r \in Blocks : Height[r] \in Nat
  BY TreeConstants, Zenon
<1> QED BY <1>1, SMT, Z3 DEF GetPoolAge, Pool

\* AddNoncePool leaves the entry as it was, or puts the pool there with the
\* height of its root.
LEMMA PoolEntryCases ==
    ASSUME NEW p \in Pool, NEW held, NEW reg, NEW b \in Blocks
    PROVE  \/ PoolEntry(p, held, reg, b) = held
           \/ /\ PoolEntry(p, held, reg, b) \in Pool
              /\ PoolEntry(p, held, reg, b) =
                    [p EXCEPT !.nHeightAdded = Height[p.hashRootBlock]]
              /\ SigValid(p, reg)
              /\ ~Stale(p, held)
              /\ SizeOk(p)
              /\ GetPoolAge(p, b) >= 0
<1> SUFFICES ASSUME SigValid(p, reg), ~Stale(p, held), SizeOk(p), GetPoolAge(p, b) >= 0
             PROVE  /\ PoolEntry(p, held, reg, b) \in Pool
                    /\ PoolEntry(p, held, reg, b) =
                          [p EXCEPT !.nHeightAdded = Height[p.hashRootBlock]]
  BY Zenon DEF PoolEntry
<1>1. Height[b] - GetPoolAge(p, b) = Height[p.hashRootBlock]
  BY AgeRange, Heights, SMT, Z3
<1>2. Height[p.hashRootBlock] \in Nat
  BY AgeRange, TreeConstants, Zenon
<1> QED BY <1>1, <1>2, Zenon DEF PoolEntry, Pool

\* The maps keep their type under AddNoncePool and CheckNoncePools.
LEMMA EntryTypes ==
    ASSUME NEW p \in Pool, NEW held \in Entry, NEW old \in Entry,
           NEW reg, NEW b \in Blocks
    PROVE  /\ PoolEntry(p, held, reg, b) \in Entry
           /\ LaterEntry(p, held, old, reg, b) \in Entry
           /\ Expire(held, reg, b) \in Entry
<1>1. PoolEntry(p, held, reg, b) \in Entry
  BY PoolEntryCases, Zenon DEF Entry
<1>2. LaterEntry(p, held, old, reg, b) \in Entry
  BY Zenon DEF LaterEntry, Entry
<1>3. Expire(held, reg, b) \in Entry
  BY Zenon DEF Expire, Entry
<1> QED BY <1>1, <1>2, <1>3, Zenon

\* CheckNoncePools returns maps.
LEMMA CheckedTypes ==
    ASSUME NEW mp \in [Cvns -> Entry], NEW ml \in [Cvns -> Entry],
           NEW reg, NEW b \in Blocks, NEW t \in Blocks
    PROVE  /\ CheckedPools(mp, ml, reg, b, t) \in [Cvns -> Entry]
           /\ CheckedLater(ml, b) \in [Cvns -> Entry]
<1>1. ASSUME NEW c \in Cvns
      PROVE  (IF Reconsidered(ml[c], b) /\ ml[c].nCvnId \in reg
              THEN PoolEntry(ml[c], Expire(mp[c], reg, b), reg, t)
              ELSE Expire(mp[c], reg, b)) \in Entry
  <2>1. Expire(mp[c], reg, b) \in Entry
    BY Zenon DEF Expire, Entry
  <2>2. Reconsidered(ml[c], b) => ml[c] \in Pool
    BY Zenon DEF Reconsidered, Entry
  <2>3. Reconsidered(ml[c], b) => PoolEntry(ml[c], Expire(mp[c], reg, b), reg, t) \in Entry
    BY <2>1, <2>2, EntryTypes, Zenon
  <2> QED BY <2>1, <2>3, Zenon
<1>2. CheckedPools(mp, ml, reg, b, t) \in [Cvns -> Entry]
  BY <1>1, Zenon DEF CheckedPools
<1>3. CheckedLater(ml, b) \in [Cvns -> Entry]
  BY Zenon DEF CheckedLater, Entry
<1> QED BY <1>2, <1>3, Zenon

\* Dropping the used nonces leaves a shorter sequence.
LEMMA UnusedType ==
    ASSUME NEW own \in Pool, NEW b \in Blocks, NEW s \in Seq(Nonces),
           Len(s) = Len(own.vPublicNonces), GetPoolAge(own, b) > 0
    PROVE  /\ Unused(own, b, s) \in Seq(Nonces)
           /\ Len(Unused(own, b, s)) = Len(s) - GetPoolAge(own, b)
           /\ Len(Unused(own, b, s)) < Len(s)
           /\ \A i \in 1..(Len(s) - GetPoolAge(own, b)) :
                 Unused(own, b, s)[i] = s[i + GetPoolAge(own, b)]
<1>1. GetPoolAge(own, b) \in 1..(Len(s) - 1)
  BY AgeRange, LenIs, SMT, Z3
<1>2. Len(s) \in Nat
  BY LenIs, Zenon
<1> DEFINE k == GetPoolAge(own, b)
<1>3. k + 1 \in 1..(Len(s) + 1) /\ Len(s) \in k..Len(s)
  BY <1>1, <1>2, SMT, Z3
<1>4. /\ SubSeq(s, k + 1, Len(s)) \in Seq(Nonces)
      /\ Len(SubSeq(s, k + 1, Len(s))) = Len(s) - k
      /\ \A i \in 1..(Len(s) - k) : SubSeq(s, k + 1, Len(s))[i] = s[i + k]
  <2> HIDE DEF k
  <2>1. k \in Nat /\ k + 1 \in Nat /\ Len(s) >= k + 1 /\ k >= 1
    BY <1>1, <1>2, SMT, Z3 DEF k
  <2>2. \A i \in (k + 1)..Len(s) : s[i] \in Nonces
    BY <2>1, <1>2, LenIs, SMT, Z3
  <2>3. SubSeq(s, k + 1, Len(s)) = [i \in 1..(Len(s) - k) |-> s[i + k]]
    BY <2>1, <1>2, SMTT(30)
  <2>4. SubSeq(s, k + 1, Len(s)) \in Seq(Nonces)
    BY <2>1, <1>2, SMT, Z3
  <2>5. Len(SubSeq(s, k + 1, Len(s))) = Len(s) - k
    BY <2>1, <1>2, SMT, Z3
  <2> QED BY Zenon, <2>3, <2>4, <2>5
<1>5. Unused(own, b, s) = SubSeq(s, k + 1, Len(s))
  BY Zenon DEF Unused
<1>6. Len(s) - k < Len(s)
  <2> HIDE DEF k
  <2>1. k \in 1..(Len(s) - 1)
    BY <1>1, Zenon DEF k
  <2> QED BY <1>2, <2>1, SMT, Z3
<1> QED BY <1>4, <1>5, <1>6, Zenon

\* Fresh nonces are a sequence of nonces.
LEMMA FreshType ==
    ASSUME TypeOK, NEW n \in Owners, NEW u \in Nat, NEW k \in Int
    PROVE  /\ FreshNonces(n, u, k) \in Seq(Nonces)
           /\ u <= k => Len(FreshNonces(n, u, k)) = k - u
<1>1. clock[n] \in 0..MaxTime /\ Height[prev[n]] \in Nat
  BY TreeConstants, Zenon DEF TypeOK
<1>2. ASSUME NEW i \in 1..(k - u)
      PROVE  [time |-> clock[n], height |-> Height[prev[n]] + u + i - 1] \in Nonces
  BY <1>1, SMT, Z3 DEF Nonces
<1>3. CASE k - u \in Nat
  BY <1>2, <1>3, SMT, Z3 DEF FreshNonces
<1>4. CASE k - u < 0
  <2>1. 1..(k - u) = {} /\ 1..0 = {}
    BY <1>4, SMT, Z3
  <2>2. FreshNonces(n, u, k) = [i \in 1..0 |-> [time |-> clock[n], height |-> Height[prev[n]] + u + i - 1]]
    BY <2>1, Zenon DEF FreshNonces
  <2>3. FreshNonces(n, u, k) \in Seq(Nonces)
    BY <2>1, <2>2, SMT, Z3
  <2> QED BY <1>4, <2>3, SMT, Z3
<1> QED BY <1>3, <1>4, SMT, Z3

\* The pieces of CreateNewNoncePool.
LEMMA NewPoolType ==
    ASSUME TypeOK, NEW n \in Owners, NEW own \in Entry, NEW pr \in Seq(Nonces)
    PROVE  /\ RecycledEntry(n, own, pr) \in Entry
           /\ RecycledPublic(n, own, pr) \in Seq(Nonces)
           /\ RecycledPrivate(n, own, pr) \in Seq(Nonces)
           /\ NewPool(n, own, pr) \in Pool
           /\ NewPrivate(n, own, pr) \in Seq(Nonces)
<1>1. tip[n] \in Blocks /\ prev[n] \in Blocks /\ clock[n] \in 0..MaxTime /\ n \in Cvns
  BY Zenon DEF TypeOK, Owners
<1>4. /\ RecycledEntry(n, own, pr) \in Entry
      /\ RecycledPublic(n, own, pr) \in Seq(Nonces)
      /\ RecycledPrivate(n, own, pr) \in Seq(Nonces)
  <2>1. CASE Recycles(n, own, pr)
    <3>1. own \in Pool /\ own.vPublicNonces \in Seq(Nonces)
      BY <2>1, Zenon DEF Recycles, Entry, Pool
    <3>2. /\ Unused(own, tip[n], own.vPublicNonces) \in Seq(Nonces)
          /\ Unused(own, tip[n], pr) \in Seq(Nonces)
      BY <1>1, <2>1, <3>1, UnusedType, Zenon DEF Recycles
    <3>3. RecycledEntry(n, own, pr) \in Entry
      BY Zenon, <2>1, <3>1, <3>2 DEF RecycledEntry, Entry, Pool
    <3> QED BY <2>1, <3>2, <3>3, Zenon DEF RecycledPublic, RecycledPrivate
  <2>2. CASE ~Recycles(n, own, pr)
    BY <2>2, SMT, Z3 DEF RecycledEntry, RecycledPublic, RecycledPrivate
  <2> QED BY <2>1, <2>2, Zenon
<1>5. Len(RecycledPublic(n, own, pr)) \in Nat /\ Len(RecycledPrivate(n, own, pr)) \in Nat
  BY <1>4, LenIs, Zenon
<1>6. /\ FreshNonces(n, Len(RecycledPublic(n, own, pr)), PoolSize) \in Seq(Nonces)
      /\ FreshNonces(n, Len(RecycledPrivate(n, own, pr)), PoolSize) \in Seq(Nonces)
  <2>1. PoolSize \in Int
    BY PoolConstants, SMT, Z3
  <2> QED BY Zenon, <1>5, <2>1, FreshType
<1>7. NewPrivate(n, own, pr) \in Seq(Nonces)
  BY <1>4, <1>6, ConcatIs, Zenon DEF NewPrivate
<1>8. RecycledPublic(n, own, pr) \o FreshNonces(n, Len(RecycledPublic(n, own, pr)), PoolSize)
         \in Seq(Nonces)
  BY <1>4, <1>6, ConcatIs, Zenon
<1>9. NewPool(n, own, pr) \in Pool
  BY <1>1, <1>8, Zenon DEF NewPool, Pool
<1> QED BY <1>4, <1>7, <1>9, Zenon
-----------------------------------------------------------------------------
(* Type correctness. *)

\* Saving and relaying a pool keep the types.
LEMMA SaveRelayType ==
    ASSUME TypeOK, NEW n \in Owners, NEW held \in Entry, NEW pr \in Seq(Nonces),
           NEW p \in Pool
    PROVE  /\ SaveNoncesPool(n, held, pr) =>
                 disk' \in [Owners -> [pool : Pool, private : Seq(Nonces)] \cup {NoFile}]
           /\ RelayNoncePool(n, p) =>
                 net' \in SUBSET Pool /\ relay' \in [Nodes -> SUBSET Pool]
<1>1. ASSUME SaveNoncesPool(n, held, pr)
      PROVE  disk' \in [Owners -> [pool : Pool, private : Seq(Nonces)] \cup {NoFile}]
  <2>1. CASE held # Nil /\ inited[n]
    <3>1. [pool |-> Serialized(held), private |-> pr] \in [pool : Pool, private : Seq(Nonces)]
      BY <2>1, SerializedType, Zenon DEF Entry
    <3> QED BY <1>1, <2>1, <3>1, Zenon DEF SaveNoncesPool, TypeOK
  <2>2. CASE ~(held # Nil /\ inited[n])
    BY <1>1, <2>2, Zenon DEF SaveNoncesPool, TypeOK
  <2> QED BY <2>1, <2>2, Zenon
<1>2. ASSUME RelayNoncePool(n, p)
      PROVE  net' \in SUBSET Pool /\ relay' \in [Nodes -> SUBSET Pool]
  <2>1. Serialized(p) \in Pool
    BY SerializedType, Zenon
  <2> QED BY Zenon, <1>2, <2>1 DEF RelayNoncePool, TypeOK
<1> QED BY <1>1, <1>2, Zenon

\* Updating one entry of one node's map keeps its type.
LEMMA UpdateType ==
    ASSUME NEW f \in [Nodes -> [Cvns -> Entry]], NEW n \in Nodes, NEW c \in Cvns,
           NEW e \in Entry
    PROVE  [f EXCEPT ![n][c] = e] \in [Nodes -> [Cvns -> Entry]]
BY Zenon

\* A device failure keeps the types.
LEMMA FailType ==
    ASSUME TypeOK, NEW n \in Owners, NEW own \in Entry, NEW pr \in Seq(Nonces),
           FailNewPool(n, own, pr)
    PROVE  priv' \in [Owners -> Seq(Nonces)] /\ clock' \in [Owners -> 0..MaxTime]
<1> DEFINE rec == RecycledPrivate(n, own, pr)
<1>1. rec \in Seq(Nonces) /\ Len(rec) \in Nat
  BY NewPoolType, LenIs, Zenon
<1>2. PICK k \in 0..(PoolSize - Len(rec)) :
         priv' = [priv EXCEPT ![n] = rec \o FreshNonces(n, Len(rec), Len(rec) + k)]
  BY Zenon DEF FailNewPool
<1>3. Len(rec) + k \in Int
  BY <1>1, SMT, Z3
<1>4. FreshNonces(n, Len(rec), Len(rec) + k) \in Seq(Nonces)
  <2> HIDE DEF rec
  <2> QED BY <1>1, <1>3, FreshType, Zenon
<1>5. rec \o FreshNonces(n, Len(rec), Len(rec) + k) \in Seq(Nonces)
  BY <1>1, <1>4, ConcatIs, Zenon
<1>6. priv' \in [Owners -> Seq(Nonces)]
  BY <1>2, <1>5, Zenon DEF TypeOK
<1>7. clock' \in [Owners -> 0..MaxTime]
  <2>1. clock[n] \in 0..MaxTime /\ MaxTime \in Nat
    BY PoolConstants, Zenon DEF TypeOK
  <2>2. clock[n] + 1 \in 0..MaxTime
    BY <2>1, SMT, Z3 DEF FailNewPool
  <2> QED BY <2>2, Zenon DEF FailNewPool, TypeOK
<1> QED BY <1>6, <1>7, Zenon

\* The initial maps, file and thread state.
LEMMA TypeInit == Init => TypeOK
<1> SUFFICES ASSUME Init PROVE TypeOK
  BY Zenon
<1>1. 1 \in 0..MaxTime
  BY PoolConstants, SMT, Z3
<1>2. Payload[Genesis] \in SUBSET Cvns /\ Genesis \in Blocks
  BY TreeConstants, Zenon
<1>3. << >> \in Seq(Nonces)
  BY SMT, Z3
<1> QED BY <1>1, <1>2, <1>3, OldPoolConstants, Zenon DEF Init, TypeOK, States

\* What the type invariant says of the maps of one node.
LEMMA TypeFacts ==
    ASSUME TypeOK
    PROVE  /\ \A n \in Nodes : /\ tip[n] \in Blocks
                               /\ pools[n] \in [Cvns -> Entry]
                               /\ later[n] \in [Cvns -> Entry]
           /\ \A n \in Owners : priv[n] \in Seq(Nonces) /\ prev[n] \in Blocks
           /\ pools \in [Nodes -> [Cvns -> Entry]]
           /\ later \in [Nodes -> [Cvns -> Entry]]
BY Zenon DEF TypeOK, Entry, Owners

\* Times are natural numbers.
LEMMA TimeFacts ==
    ASSUME TypeOK
    PROVE  /\ \A n \in Owners : clock[n] \in Nat
           /\ \A p \in net : p \in Pool /\ p.nCreationTime \in Nat
<1>1. \A p \in Pool : p.nCreationTime \in Nat
  BY SMT, Z3 DEF Pool
<1>2. net \subseteq Pool
  BY Zenon DEF TypeOK
<1>3. \A n \in Owners : clock[n] \in Nat
  BY SMT, Z3 DEF TypeOK
<1> QED BY <1>1, <1>2, <1>3, Zenon

\* A new tip: the maps that CheckNoncePools returns.
LEMMA ConnectTipType ==
    ASSUME TypeOK, NEW n \in Nodes, NEW b \in Blocks, ConnectTip(n, b)
    PROVE  TypeOK'
<1> USE DEF Owners
<1> DEFINE reg == IF b \in CvnBlocks THEN Payload[b] ELSE cvns[n]
<1>1. reg \in SUBSET Cvns
  <2>1. cvns[n] \in SUBSET Cvns
    BY Zenon DEF TypeOK
  <2>2. b \in CvnBlocks => Payload[b] \in SUBSET Cvns
    BY TreeConstants, Zenon
  <2> QED BY <2>1, <2>2, Zenon
<1>2. /\ CheckedPools(pools[n], later[n], reg, b, b) \in [Cvns -> Entry]
      /\ CheckedLater(later[n], b) \in [Cvns -> Entry]
  BY Zenon, TypeFacts, CheckedTypes
<1>3. tip' \in [Nodes -> Blocks] /\ cvns' \in [Nodes -> SUBSET Cvns]
  BY <1>1, Zenon DEF ConnectTip, TypeOK
<1>4. pools' \in [Nodes -> [Cvns -> Entry]] /\ later' \in [Nodes -> [Cvns -> Entry]]
  BY TypeFacts, <1>2, Zenon DEF ConnectTip
<1> QED BY <1>3, <1>4, Zenon DEF ConnectTip, TypeOK, Entry

\* A pool from a peer.
LEMMA ReceiveNoncePoolType ==
    ASSUME TypeOK, NEW n \in Nodes, NEW p \in net, ReceiveNoncePool(n, p)
    PROVE  TypeOK'
<1> USE DEF Owners
<1>1. p \in Pool /\ p.nCvnId \in Cvns
  BY Zenon DEF TypeOK, ReceiveNoncePool
<1> DEFINE c == p.nCvnId
           held == pools[n][c]
<1>2. held \in Entry /\ later[n][c] \in Entry /\ tip[n] \in Blocks
  BY TypeFacts, <1>1, Zenon
<1>3. /\ PoolEntry(p, held, cvns[n], tip[n]) \in Entry
      /\ LaterEntry(p, held, later[n][c], cvns[n], tip[n]) \in Entry
  BY <1>1, <1>2, EntryTypes, Zenon
<1>4. pools' \in [Nodes -> [Cvns -> Entry]]
  BY TypeFacts, <1>1, <1>3, UpdateType, Zenon DEF ReceiveNoncePool
<1>5. later' \in [Nodes -> [Cvns -> Entry]]
  BY TypeFacts, <1>1, <1>3, UpdateType, Zenon DEF ReceiveNoncePool
<1>6. relay' \in [Nodes -> SUBSET Pool]
  BY <1>1, Zenon DEF ReceiveNoncePool, TypeOK
<1> QED BY <1>4, <1>5, <1>6, Zenon DEF ReceiveNoncePool, TypeOK, Entry

\* The thread starts.
LEMMA StartThreadType ==
    ASSUME TypeOK, NEW n \in Owners, StartThread(n)
    PROVE  TypeOK'
BY Zenon DEF Owners, StartThread, TypeOK, States

\* The top of the loop of POCThread.
LEMMA LoopTopType ==
    ASSUME TypeOK, NEW n \in Owners, LoopTop(n)
    PROVE  TypeOK'
<1> USE DEF Owners
<1>1. state' \in [Owners -> States] /\ last' \in [Owners -> Blocks]
  BY Zenon, TypeFacts DEF LoopTop, TypeOK, States
<1> QED BY TypeFacts, <1>1, Zenon DEF LoopTop, TypeOK

\* handleInit: the file is read, used, or replaced by a new pool.
LEMMA HandleInitType ==
    ASSUME TypeOK, NEW n \in Owners, HandleInit(n)
    PROVE  TypeOK'
<1> USE DEF Owners
<1>1. state' \in [Owners -> States] /\ pc' \in [Owners -> {"top", "run", "add"}]
      /\ inited' \in [Owners -> BOOLEAN]
  <2>1. /\ pc' = [pc EXCEPT ![n] = "top"]
        /\ inited' = [inited EXCEPT ![n] = TRUE] \/ inited' = inited
        /\ \E s \in States : state' = [state EXCEPT ![n] = s]
    BY Zenon DEF HandleInit, States
  <2>2. /\ pc \in [Owners -> {"top", "run", "add"}]
        /\ inited \in [Owners -> BOOLEAN]
        /\ state \in [Owners -> States]
    BY Zenon DEF TypeOK
  <2>3. inited' \in [Owners -> BOOLEAN]
    BY Zenon, <2>1, <2>2
  <2> QED BY <2>1, <2>2, <2>3, Zenon
<1>2. ASSUME disk[n] # NoFile
      PROVE  disk[n].pool \in Pool /\ disk[n].private \in Seq(Nonces)
  BY <1>2, Zenon DEF TypeOK
<1>3. PrivateAfterSetUp(n) \in Seq(Nonces) /\ OwnAfterSetUp(n) \in Entry
  <2>0. priv[n] \in Seq(Nonces) /\ << >> \in Seq(Nonces)
    BY TypeFacts, SMT, Z3
  <2>1. PrivateAfterSetUp(n) \in Seq(Nonces)
    <3>1. CASE disk[n] = NoFile
      BY <2>0, <3>1, Zenon DEF PrivateAfterSetUp
    <3>2. CASE disk[n] # NoFile
      BY <1>2, <2>0, <3>2, Zenon DEF PrivateAfterSetUp
    <3> QED BY <3>1, <3>2, Zenon
  <2>2. OwnAfterSetUp(n) \in Entry
    BY TypeFacts, Zenon DEF OwnAfterSetUp, Entry
  <2> QED BY <2>1, <2>2, Zenon
<1> DEFINE own == OwnAfterSetUp(n)
           pr == PrivateAfterSetUp(n)
           Rest == /\ pools' \in [Nodes -> [Cvns -> Entry]]
                   /\ later' \in [Nodes -> [Cvns -> Entry]]
                   /\ relay' \in [Nodes -> SUBSET Pool]
                   /\ net' \in SUBSET Pool
                   /\ priv' \in [Owners -> Seq(Nonces)]
                   /\ disk' \in [Owners -> [pool : Pool, private : Seq(Nonces)] \cup {NoFile}]
                   /\ clock' \in [Owners -> 0..MaxTime]
<1>4. ASSUME UseSavedPool(n)
      PROVE  Rest
  <2> DEFINE p == disk[n].pool
             e == PoolEntry(p, Nil, cvns[n], tip[n])
             mine == IF e = Nil THEN EmptyPool ELSE e
             l == LaterEntry(p, Nil, later[n][n], cvns[n], tip[n])
  <2>1. p \in Pool /\ disk[n].private \in Seq(Nonces)
    BY <1>2, <1>4, Zenon DEF UseSavedPool, FileUsable, FileReadable
  <2>2. Nil \in Entry /\ later[n][n] \in Entry
    BY TypeFacts, Zenon DEF Entry
  <2>3. e \in Entry /\ l \in Entry
    BY TypeFacts, <2>1, <2>2, EntryTypes, Zenon
  <2>4. mine \in Pool /\ mine \in Entry
    BY <2>3, EmptyPoolType, Zenon DEF Entry
  <2>5. pools' = [pools EXCEPT ![n][n] = mine] /\ later' = [later EXCEPT ![n][n] = l]
    BY TypeFacts, <1>4, Zenon DEF UseSavedPool
  <2> HIDE DEF mine, l
  <2>6. pools' \in [Nodes -> [Cvns -> Entry]] /\ later' \in [Nodes -> [Cvns -> Entry]]
    BY TypeFacts, <2>3, <2>4, <2>5, UpdateType, Zenon
  <2>7. net' \in SUBSET Pool /\ relay' \in [Nodes -> SUBSET Pool]
    <3>1. RelayNoncePool(n, mine)
      BY <1>4, Zenon DEF UseSavedPool, mine
    <3> QED BY <2>4, <3>1, SaveRelayType, TypeFacts, Zenon
  <2> QED BY <1>4, <2>1, <2>6, <2>7, Zenon DEF UseSavedPool, TypeOK
<1>5. ASSUME CreateInitialPool(n)
      PROVE  Rest
  <2> DEFINE p == NewPool(n, own, pr)
             held == RecycledEntry(n, own, pr)
             kept == PoolEntry(p, held, cvns[n], tip[n])
             l == LaterEntry(p, held, later[n][n], cvns[n], tip[n])
  <2>1. p \in Pool /\ held \in Entry /\ NewPrivate(n, own, pr) \in Seq(Nonces)
    BY <1>3, NewPoolType, Zenon
  <2>2. kept \in Entry /\ l \in Entry
    BY TypeFacts, <2>1, EntryTypes, Zenon
  <2>3. pools' = [pools EXCEPT ![n][n] = kept] /\ later' = [later EXCEPT ![n][n] = l]
    BY TypeFacts, <1>5, Zenon DEF CreateInitialPool
  <2>4. \/ SaveNoncesPool(n, kept, NewPrivate(n, own, pr)) /\ RelayNoncePool(n, p)
        \/ UNCHANGED <<disk, net, relay>>
    BY <1>5, Zenon DEF CreateInitialPool
  <2>5. priv' = [priv EXCEPT ![n] = NewPrivate(n, own, pr)]
    BY <1>5, Zenon DEF CreateInitialPool
  <2>6. clock[n] < MaxTime /\ clock' = [clock EXCEPT ![n] = @ + 1]
    BY <1>5, Zenon DEF CreateInitialPool
  <2> HIDE DEF kept, l, p
  <2>7. pools' \in [Nodes -> [Cvns -> Entry]] /\ later' \in [Nodes -> [Cvns -> Entry]]
    BY TypeFacts, <2>2, <2>3, UpdateType, Zenon
  <2>8. /\ disk' \in [Owners -> [pool : Pool, private : Seq(Nonces)] \cup {NoFile}]
        /\ net' \in SUBSET Pool /\ relay' \in [Nodes -> SUBSET Pool]
    BY Zenon, <2>1, <2>2, <2>4, SaveRelayType DEF TypeOK
  <2>9. clock' \in [Owners -> 0..MaxTime]
    BY <2>6, PoolConstants, SMT, Z3 DEF TypeOK
  <2>10. priv' \in [Owners -> Seq(Nonces)]
    BY <2>1, <2>5, Zenon DEF TypeOK
  <2> QED BY <2>7, <2>8, <2>9, <2>10, Zenon
<1>6. ASSUME FailInitialPool(n)
      PROVE  Rest
  <2>1. RecycledEntry(n, own, pr) \in Entry
    BY <1>3, NewPoolType, Zenon
  <2>2. pools' \in [Nodes -> [Cvns -> Entry]]
    BY TypeFacts, <1>6, <2>1, UpdateType, Zenon DEF FailInitialPool
  <2>3. priv' \in [Owners -> Seq(Nonces)] /\ clock' \in [Owners -> 0..MaxTime]
    BY Zenon, <1>3, <1>6, FailType DEF FailInitialPool
  <2> QED BY Zenon, TypeFacts, <1>6, <2>2, <2>3 DEF FailInitialPool, TypeOK
<1>7. ASSUME UNCHANGED <<pools, later, relay, net, priv, disk, inited, clock>>
      PROVE  Rest
  BY Zenon, TypeFacts, <1>7 DEF TypeOK
<1>8. Rest
  BY Zenon, <1>4, <1>5, <1>6, <1>7 DEF HandleInit
<1> QED BY Zenon, <1>1, <1>8 DEF HandleInit, TypeOK, Entry

\* CreateNewNoncePool: the new pool waits to be added.
LEMMA StartNewPoolType ==
    ASSUME TypeOK, NEW n \in Owners, StartNewPool(n)
    PROVE  /\ pending' \in [Owners -> Entry]
           /\ priv' \in [Owners -> Seq(Nonces)]
           /\ pools' \in [Nodes -> [Cvns -> Entry]]
           /\ clock' \in [Owners -> 0..MaxTime]
           /\ pc' \in [Owners -> {"top", "run", "add"}]
           /\ \A m \in Owners : pc'[m] = "add" => pending'[m] \in Pool
<1> USE DEF Owners
<1> DEFINE own == pools[n][n]
<1>1. own \in Entry /\ priv[n] \in Seq(Nonces)
  BY TypeFacts, Zenon
<1>2. /\ NewPool(n, own, priv[n]) \in Pool
      /\ RecycledEntry(n, own, priv[n]) \in Entry
      /\ NewPrivate(n, own, priv[n]) \in Seq(Nonces)
  BY <1>1, NewPoolType, Zenon
<1>3. pools' \in [Nodes -> [Cvns -> Entry]]
  BY TypeFacts, <1>2, UpdateType, Zenon DEF StartNewPool
<1>4. clock' \in [Owners -> 0..MaxTime]
  BY PoolConstants, SMT, Z3 DEF StartNewPool, TypeOK
<1>5. pending' \in [Owners -> Entry] /\ priv' \in [Owners -> Seq(Nonces)]
  BY <1>2, Zenon DEF StartNewPool, TypeOK, Entry
<1>6. pc' \in [Owners -> {"top", "run", "add"}]
  BY Zenon DEF StartNewPool, TypeOK
<1>7. \A m \in Owners : pc'[m] = "add" => pending'[m] \in Pool
  BY <1>2, Zenon DEF StartNewPool, TypeOK
<1> QED BY <1>3, <1>4, <1>5, <1>6, <1>7, Zenon

\* handleWaitingForBlockPropagation.
LEMMA HandleBlockPropagationType ==
    ASSUME TypeOK, NEW n \in Owners, HandleBlockPropagation(n)
    PROVE  TypeOK'
<1> USE DEF Owners
<1>1. state' \in [Owners -> States]
  <2>1. state' = state \/ \E s \in States : state' = [state EXCEPT ![n] = s]
    BY Zenon DEF HandleBlockPropagation, States
  <2> QED BY Zenon, <2>1 DEF TypeOK
<1> DEFINE Rest == /\ pools' \in [Nodes -> [Cvns -> Entry]]
                   /\ later' \in [Nodes -> [Cvns -> Entry]]
                   /\ priv' \in [Owners -> Seq(Nonces)]
                   /\ clock' \in [Owners -> 0..MaxTime]
                   /\ pending' \in [Owners -> Entry]
                   /\ pc' \in [Owners -> {"top", "run", "add"}]
                   /\ \A m \in Owners : pc'[m] = "add" => pending'[m] \in Pool
<1>2. ASSUME UNCHANGED <<pools, later, priv, clock, pending>>, pc' = [pc EXCEPT ![n] = "top"]
      PROVE  Rest
  BY Zenon, TypeFacts, <1>2 DEF TypeOK, Entry
<1>3. ASSUME StartNewPool(n), UNCHANGED <<later, state>>
      PROVE  Rest
  BY Zenon, TypeFacts, StartNewPoolType, <1>3
<1>4. ASSUME NeedsNewPool(n) => FailNewPool(n, pools[n][n], priv[n]),
             ~NeedsNewPool(n) => UNCHANGED <<priv, clock>>,
             pools' = [pools EXCEPT ![n] = CheckedPools(TrimmedPools(n), later[n], cvns[n], prev[n], tip[n])],
             later' = [later EXCEPT ![n] = CheckedLater(@, prev[n])],
             pc' = [pc EXCEPT ![n] = "top"],
             UNCHANGED pending
      PROVE  Rest
  <2>1. priv' \in [Owners -> Seq(Nonces)] /\ clock' \in [Owners -> 0..MaxTime]
    BY Zenon, TypeFacts, <1>4, FailType DEF TypeOK
  <2>2. TrimmedPools(n) \in [Cvns -> Entry]
    BY TypeFacts, NewPoolType, Zenon DEF TrimmedPools
  <2>3. /\ CheckedPools(TrimmedPools(n), later[n], cvns[n], prev[n], tip[n]) \in [Cvns -> Entry]
        /\ CheckedLater(later[n], prev[n]) \in [Cvns -> Entry]
    BY Zenon, TypeFacts, <2>2, CheckedTypes
  <2>4. pools' \in [Nodes -> [Cvns -> Entry]] /\ later' \in [Nodes -> [Cvns -> Entry]]
    BY Zenon, TypeFacts, <1>4, <2>3
  <2>5. /\ pending' \in [Owners -> Entry] /\ pc' \in [Owners -> {"top", "run", "add"}]
        /\ \A m \in Owners : pc'[m] = "add" => pending'[m] \in Pool
    BY <1>4, Zenon DEF TypeOK, Entry
  <2> QED BY <2>1, <2>4, <2>5, Zenon
<1>5. Rest
  BY Zenon, <1>2, <1>3, <1>4 DEF HandleBlockPropagation
<1> QED BY Zenon, <1>1, <1>5 DEF HandleBlockPropagation, TypeOK, Entry

\* handleWaitingForCvnData.
LEMMA HandleCvnDataType ==
    ASSUME TypeOK, NEW n \in Owners, HandleCvnData(n)
    PROVE  TypeOK'
<1> USE DEF Owners
<1>1. state' \in [Owners -> States] /\ inited' \in [Owners -> BOOLEAN]
  BY Zenon DEF HandleCvnData, TypeOK, States
<1> DEFINE Rest == /\ pools' \in [Nodes -> [Cvns -> Entry]]
                   /\ priv' \in [Owners -> Seq(Nonces)]
                   /\ clock' \in [Owners -> 0..MaxTime]
                   /\ pending' \in [Owners -> Entry]
                   /\ pc' \in [Owners -> {"top", "run", "add"}]
                   /\ \A m \in Owners : pc'[m] = "add" => pending'[m] \in Pool
<1>2. ASSUME FailNewPool(n, pools[n][n], priv[n]),
             pools' = [pools EXCEPT ![n][n] = RecycledEntry(n, pools[n][n], priv[n])],
             pc' = [pc EXCEPT ![n] = "top"],
             UNCHANGED pending
      PROVE  Rest
  <2>1. priv' \in [Owners -> Seq(Nonces)] /\ clock' \in [Owners -> 0..MaxTime]
    BY Zenon, TypeFacts, <1>2, FailType
  <2>2. pools[n][n] \in Entry /\ RecycledEntry(n, pools[n][n], priv[n]) \in Entry
    BY TypeFacts, NewPoolType, Zenon
  <2>3. pools' = [pools EXCEPT ![n][n] = RecycledEntry(n, pools[n][n], priv[n])]
    BY TypeFacts, <1>2, Zenon
  <2>4. pools' \in [Nodes -> [Cvns -> Entry]]
    BY TypeFacts, <2>2, <2>3, UpdateType, Zenon
  <2> QED BY <1>2, <2>1, <2>4, Zenon DEF TypeOK, Entry
<1>3. ASSUME UNCHANGED <<pools, priv, clock, pending>>, pc' = [pc EXCEPT ![n] = "top"]
      PROVE  Rest
  BY Zenon, TypeFacts, <1>3 DEF TypeOK, Entry
<1>4. Rest
  <2> HIDE DEF Rest
  <2> QED BY Zenon, StartNewPoolType, <1>2, <1>3 DEF HandleCvnData, Rest
<1> QED BY Zenon, <1>1, <1>4 DEF HandleCvnData, TypeOK, Entry

\* The new pool is added, saved and relayed.
LEMMA FinishNewPoolType ==
    ASSUME TypeOK, NEW n \in Owners, FinishNewPool(n)
    PROVE  TypeOK'
<1> USE DEF Owners
<1> DEFINE p == pending[n]
           own == pools[n][n]
           kept == PoolEntry(p, own, cvns[n], tip[n])
           mp == [pools[n] EXCEPT ![n] = kept]
           ml == [later[n] EXCEPT ![n] = LaterEntry(p, own, @, cvns[n], tip[n])]
<1>1. p \in Pool /\ own \in Entry /\ later[n][n] \in Entry /\ priv[n] \in Seq(Nonces)
  <2>1. pc[n] = "add"
    BY Zenon DEF FinishNewPool
  <2>2. p \in Pool
    BY <2>1, Zenon DEF TypeOK
  <2> QED BY TypeFacts, <2>2, Zenon
<1>2. kept \in Entry /\ LaterEntry(p, own, later[n][n], cvns[n], tip[n]) \in Entry
  BY TypeFacts, <1>1, EntryTypes, Zenon
<1>3. mp \in [Cvns -> Entry] /\ ml \in [Cvns -> Entry]
  BY TypeFacts, <1>2, Zenon
<1>4. /\ CheckedPools(mp, ml, cvns[n], prev[n], tip[n]) \in [Cvns -> Entry]
      /\ CheckedLater(ml, prev[n]) \in [Cvns -> Entry]
  <2> HIDE DEF mp, ml
  <2> QED BY Zenon, TypeFacts, <1>3, CheckedTypes
<1>5. /\ pools' \in [Nodes -> [Cvns -> Entry]]
      /\ later' \in [Nodes -> [Cvns -> Entry]]
      /\ state' \in [Owners -> States]
      /\ inited' \in [Owners -> BOOLEAN]
  <2>1. CASE /\ pools' = [pools EXCEPT ![n] = CheckedPools(mp, ml, cvns[n], prev[n], tip[n])]
             /\ later' = [later EXCEPT ![n] = CheckedLater(ml, prev[n])]
             /\ state' = [state EXCEPT ![n] = "CREATE_SIGNATURE"]
             /\ UNCHANGED inited
    <3> HIDE DEF mp, ml
    <3> QED BY Zenon, TypeFacts, <1>4, <2>1 DEF TypeOK, States
  <2>2. CASE /\ pools' = [pools EXCEPT ![n] = mp]
             /\ later' = [later EXCEPT ![n] = ml]
             /\ state' = [state EXCEPT ![n] = "WAITING_FOR_BLOCK_PROPAGATION"]
             /\ inited' = [inited EXCEPT ![n] = TRUE]
    <3> HIDE DEF mp, ml
    <3> QED BY Zenon, TypeFacts, <1>3, <2>2 DEF TypeOK, States
  <2> QED BY Zenon, <2>1, <2>2 DEF FinishNewPool
<1>6. /\ disk' \in [Owners -> [pool : Pool, private : Seq(Nonces)] \cup {NoFile}]
      /\ net' \in SUBSET Pool /\ relay' \in [Nodes -> SUBSET Pool]
  <2>1. \/ SaveNoncesPool(n, kept, priv[n]) /\ RelayNoncePool(n, p)
        \/ UNCHANGED <<disk, net, relay>>
    BY Zenon DEF FinishNewPool
  <2> HIDE DEF kept, p
  <2> QED BY Zenon, <1>1, <1>2, <2>1, SaveRelayType DEF TypeOK
<1>7. pc' \in [Owners -> {"top", "run", "add"}] /\ pending' \in [Owners -> Entry]
  BY Zenon DEF FinishNewPool, TypeOK, Entry
<1> QED BY Zenon, <1>5, <1>6, <1>7 DEF FinishNewPool, TypeOK, Entry

\* handleCreateSignature.
LEMMA SignType ==
    ASSUME TypeOK, NEW n \in Owners, Sign(n)
    PROVE  TypeOK'
<1> USE DEF Owners
<1>1. pools' \in [Nodes -> [Cvns -> Entry]]
  <2>1. CASE UNCHANGED pools
    BY TypeFacts, <2>1, Zenon
  <2>2. CASE pools' = [pools EXCEPT ![n][n] = IF @ = Nil THEN EmptyPool ELSE @]
    <3>1. (IF pools[n][n] = Nil THEN EmptyPool ELSE pools[n][n]) \in Entry
      BY TypeFacts, EmptyPoolType, Zenon DEF Entry
    <3> QED BY TypeFacts, <2>2, <3>1, UpdateType, Zenon
  <2> QED BY <2>1, <2>2, Zenon DEF Sign
<1>2. used' \in [Owners -> SUBSET (Nonces \X Nat)]
  <2>1. CASE used' = used
    BY <2>1, Zenon DEF TypeOK
  <2>2. CASE /\ SignOffset(n) \in 0..(Len(priv[n]) - 1)
             /\ used' = [used EXCEPT ![n] = @ \cup
                           {<<priv[n][SignOffset(n) + 1], Height[prev[n]]>>}]
    <3>1. SignOffset(n) + 1 \in 1..Len(priv[n])
      BY TypeFacts, <2>2, LenIs, SMT, Z3
    <3>2. priv[n][SignOffset(n) + 1] \in Nonces
      BY TypeFacts, <3>1, LenIs, Zenon
    <3>3. Height[prev[n]] \in Nat
      BY TypeFacts, TreeConstants, Zenon
    <3> QED BY <2>2, <3>2, <3>3, SMT, Z3 DEF TypeOK
  <2> QED BY <2>1, <2>2, Zenon DEF Sign
<1> QED BY Zenon, <1>1, <1>2 DEF Sign, TypeOK, Entry

\* The process comes up again with empty maps.
LEMMA RestartType ==
    ASSUME TypeOK, NEW n \in Owners, Restart(n),
           disk' \in [Owners -> [pool : Pool, private : Seq(Nonces)] \cup {NoFile}]
    PROVE  TypeOK'
<1> USE DEF Owners
<1>1. << >> \in Seq(Nonces) /\ Genesis \in Blocks
  BY Heights, SMT, Z3
<1>2. [c \in Cvns |-> Nil] \in [Cvns -> Entry]
  BY Zenon DEF Entry
<1>3. pools' \in [Nodes -> [Cvns -> Entry]] /\ later' \in [Nodes -> [Cvns -> Entry]]
  BY TypeFacts, <1>2, Zenon DEF Restart
<1> QED BY Zenon, <1>1, <1>3 DEF Restart, TypeOK, States, Entry

\* A crash.
LEMMA CrashType ==
    ASSUME TypeOK, NEW n \in Owners, Crash(n)
    PROVE  TypeOK'
BY Zenon, RestartType DEF Owners, Crash, TypeOK

\* A shutdown, which saves the pool.
LEMMA ShutdownType ==
    ASSUME TypeOK, NEW n \in Owners, Shutdown(n)
    PROVE  TypeOK'
<1> USE DEF Owners
<1>1. disk' \in [Owners -> [pool : Pool, private : Seq(Nonces)] \cup {NoFile}]
  <2>1. pools[n][n] \in Entry /\ priv[n] \in Seq(Nonces) /\ EmptyPool \in Pool
    BY TypeFacts, EmptyPoolType, Zenon
  <2> QED BY Zenon, <2>1, SaveRelayType DEF Shutdown
<1> QED BY RestartType, <1>1, Zenon DEF Shutdown

\* The thread stops.
LEMMA StopThreadType ==
    ASSUME TypeOK, NEW n \in Owners, StopThread(n)
    PROVE  TypeOK'
BY Zenon, TreeConstants DEF Owners, StopThread, TypeOK, States

\* Every action keeps the types.
LEMMA TypeNext == TypeOK /\ [Next]_vars => TypeOK'
<1> SUFFICES ASSUME TypeOK, [Next]_vars PROVE TypeOK'
  BY Zenon
<1>1. ASSUME NEW n \in Nodes, NodeStep(n)
      PROVE  TypeOK'
  BY <1>1, ConnectTipType, ReceiveNoncePoolType, Zenon DEF NodeStep
<1>2. ASSUME NEW n \in Owners, ThreadStep(n)
      PROVE  TypeOK'
  BY <1>2, StartThreadType, LoopTopType, HandleInitType, HandleBlockPropagationType,
     HandleCvnDataType, FinishNewPoolType, SignType, Zenon DEF ThreadStep
<1>3. ASSUME NEW n \in Owners, ProcessStep(n)
      PROVE  TypeOK'
  BY <1>3, CrashType, ShutdownType, StopThreadType, Zenon DEF ProcessStep
<1>4. CASE UNCHANGED vars
  BY Zenon, <1>4 DEF vars, TypeOK
<1> QED BY <1>1, <1>2, <1>3, <1>4, Zenon DEF Next

(* Every variable keeps its type, on every block tree and under every        *)
(* interleaving of blocks, messages, thread steps, failures and restarts.    *)
THEOREM TypeCorrect == Spec => []TypeOK
BY TypeInit, TypeNext, PTL DEF Spec
-----------------------------------------------------------------------------
(* The invariant behind PeersAgree and HeldPoolsUsable. *)

\* A pool of c that a node with tip b and CVN set reg may hold, when the pools
\* N have been relayed.
HeldOk(p, c, reg, b, N) ==
    /\ p.nCvnId = c
    /\ c \in reg
    /\ GetPoolAge(p, b) >= 0
    /\ p.nHeightAdded = Height[p.hashRootBlock]
    /\ Serialized(p) \in N

\* A CVN's own pool, in memory or on disk: it may have been trimmed in place
\* by a creation that failed, and then its signature no longer matches.
OwnOk(p, n, N) ==
    \/ p = EmptyPool
    \/ /\ p.nCvnId = n
       /\ Len(p.vPublicNonces) <= Len(p.msgSig)
       /\ p.vPublicNonces = p.msgSig => Serialized(p) \in N

\* A pool that is made and not yet relayed is newer than all relayed ones.
PendingOk(n) ==
    pc[n] = "add" =>
        /\ pending[n].nCvnId = n
        /\ pending[n].nHeightAdded = 0
        /\ pending[n].vPublicNonces = pending[n].msgSig
        /\ pending[n].nCreationTime < clock[n]
        /\ \A p \in net : p.nCvnId = n => p.nCreationTime < pending[n].nCreationTime

NetOk ==
    /\ \A p \in net : p.nHeightAdded = 0 /\ (p.nCvnId \in Cvns \/ p = EmptyPool)
    /\ \A p, q \in net :
          p.nCvnId = q.nCvnId /\ p.nCreationTime = q.nCreationTime => p = q
    /\ \A n \in Owners : \A p \in net : p.nCvnId = n => p.nCreationTime < clock[n]

HeldInv == \A m \in Nodes, c \in Cvns :
    m # c /\ pools[m][c] # Nil => HeldOk(pools[m][c], c, cvns[m], tip[m], net)

LaterInv == \A m \in Nodes, c \in Cvns :
    later[m][c] # Nil => later[m][c].nCvnId = c /\ later[m][c] \in net

OwnInv == \A n \in Owners : pools[n][n] # Nil => OwnOk(pools[n][n], n, net)

DiskInv == \A n \in Owners :
    disk[n] # NoFile => disk[n].pool.nHeightAdded = 0 /\ OwnOk(disk[n].pool, n, net)

PendingInv == \A n \in Owners : PendingOk(n)

(* The inductive invariant. *)
AgreeInv == HeldInv /\ LaterInv /\ OwnInv /\ DiskInv /\ PendingInv /\ NetOk
-----------------------------------------------------------------------------
\* The height at which a pool was added plays no role for its age.
LEMMA AgeOfAdded ==
    ASSUME NEW p \in Pool, NEW b \in Blocks, NEW h \in Nat
    PROVE  GetPoolAge([p EXCEPT !.nHeightAdded = h], b) = GetPoolAge(p, b)
BY Zenon DEF GetPoolAge, Pool

\* A relayed pool that AddNoncePool takes into the map is one a node may hold.
LEMMA AddedOk ==
    ASSUME NEW p \in Pool, NEW reg, NEW b \in Blocks, NEW N,
           p \in N, p.nHeightAdded = 0, SigValid(p, reg), GetPoolAge(p, b) >= 0
    PROVE  LET q == [p EXCEPT !.nHeightAdded = Height[p.hashRootBlock]]
           IN  /\ HeldOk(q, p.nCvnId, reg, b, N)
               /\ OwnOk(q, p.nCvnId, N)
<1> DEFINE q == [p EXCEPT !.nHeightAdded = Height[p.hashRootBlock]]
<1>1. Height[p.hashRootBlock] \in Nat
  BY AgeRange, TreeConstants, Zenon
<1>2. GetPoolAge(q, b) >= 0
  BY <1>1, AgeOfAdded, Zenon
<1>3. /\ q.nCvnId = p.nCvnId /\ q.vPublicNonces = p.vPublicNonces
      /\ q.msgSig = p.msgSig /\ q.hashRootBlock = p.hashRootBlock
      /\ q.nHeightAdded = Height[p.hashRootBlock]
  BY Zenon DEF Pool
<1>4. Serialized(q) = p
  BY Zenon, <1>1 DEF Serialized, Pool
<1>5. p.vPublicNonces = p.msgSig /\ p.nCvnId \in reg
  BY Zenon DEF SigValid
<1>6. Len(p.msgSig) \in Nat
  BY LenIs, Zenon DEF Pool
<1> HIDE DEF q
<1>7. HeldOk(q, p.nCvnId, reg, b, N)
  BY <1>2, <1>3, <1>4, <1>5, Zenon DEF HeldOk
<1>8. OwnOk(q, p.nCvnId, N)
  BY <1>3, <1>4, <1>5, <1>6, SMT, Z3 DEF OwnOk
<1> QED BY <1>7, <1>8, Zenon DEF q

\* CheckNoncePools leaves nothing, the entry as it was, or a parked pool that
\* AddNoncePool accepts at the active tip.
LEMMA CheckedCases ==
    ASSUME NEW mp \in [Cvns -> Entry], NEW ml \in [Cvns -> Entry],
           NEW reg, NEW b \in Blocks, NEW t \in Blocks, NEW c \in Cvns
    PROVE  \/ CheckedPools(mp, ml, reg, b, t)[c] = Nil
           \/ /\ CheckedPools(mp, ml, reg, b, t)[c] = mp[c]
              /\ mp[c] # Nil
              /\ mp[c].nCvnId \in reg
              /\ GetPoolAge(mp[c], b) >= 0
           \/ /\ ml[c] # Nil
              /\ ml[c] \in Pool
              /\ ml[c].hashRootBlock = b
              /\ CheckedPools(mp, ml, reg, b, t)[c] =
                    [ml[c] EXCEPT !.nHeightAdded = Height[ml[c].hashRootBlock]]
              /\ SigValid(ml[c], reg)
              /\ GetPoolAge(ml[c], t) >= 0
              /\ ~Stale(ml[c], Expire(mp[c], reg, b))
<1> DEFINE x == Expire(mp[c], reg, b)
<1>1. \/ x = Nil
      \/ x = mp[c] /\ mp[c] # Nil /\ mp[c].nCvnId \in reg /\ GetPoolAge(mp[c], b) >= 0
  <2>1. mp[c] # Nil => GetPoolAge(mp[c], b) \in Int
    BY AgeRange, Zenon DEF Entry
  <2> QED BY <2>1, SMT, Z3 DEF Expire
<1>2. CASE Reconsidered(ml[c], b) /\ ml[c].nCvnId \in reg
  <2>1. ml[c] \in Pool /\ ml[c] # Nil /\ ml[c].hashRootBlock = b
    BY <1>2, Zenon DEF Reconsidered, Entry
  <2>2. CheckedPools(mp, ml, reg, b, t)[c] = PoolEntry(ml[c], x, reg, t)
    BY <1>2, Zenon DEF CheckedPools
  <2> HIDE DEF x
  <2>3. \/ PoolEntry(ml[c], x, reg, t) = x
        \/ /\ PoolEntry(ml[c], x, reg, t) =
                 [ml[c] EXCEPT !.nHeightAdded = Height[ml[c].hashRootBlock]]
           /\ SigValid(ml[c], reg)
           /\ ~Stale(ml[c], x)
           /\ GetPoolAge(ml[c], t) >= 0
    BY <2>1, PoolEntryCases, Zenon
  <2> QED BY <1>1, <2>1, <2>2, <2>3, Zenon DEF x
<1>3. CASE ~(Reconsidered(ml[c], b) /\ ml[c].nCvnId \in reg)
  <2>1. CheckedPools(mp, ml, reg, b, t)[c] = x
    BY <1>3, Zenon DEF CheckedPools
  <2> QED BY <1>1, <2>1, Zenon
<1> QED BY <1>2, <1>3, Zenon

\* A pool trimmed in place is still the CVN's own, and no longer one that its
\* signature covers.
LEMMA TrimmedOk ==
    ASSUME TypeOK, NEW n \in Owners, NEW own \in Entry, NEW pr \in Seq(Nonces),
           NEW N, own # Nil => OwnOk(own, n, N)
    PROVE  RecycledEntry(n, own, pr) # Nil => OwnOk(RecycledEntry(n, own, pr), n, N)
<1>1. CASE ~Recycles(n, own, pr)
  BY <1>1, Zenon DEF RecycledEntry
<1>2. CASE Recycles(n, own, pr)
  <2>1. own \in Pool /\ GetPoolAge(own, tip[n]) > 0 /\ tip[n] \in Blocks
    BY <1>2, Zenon DEF Recycles, Entry, TypeOK, Owners
  <2>2. own # EmptyPool
    <3>1. GetPoolAge(EmptyPool, tip[n]) = -1
      BY NullConstants, Zenon DEF GetPoolAge, EmptyPool
    <3> QED BY <2>1, <3>1, SMT, Z3
  <2>3. own.nCvnId = n /\ Len(own.vPublicNonces) <= Len(own.msgSig)
    BY <2>1, <2>2, NilConstants, Zenon DEF OwnOk
  <2> DEFINE u == Unused(own, tip[n], own.vPublicNonces)
  <2>4. u \in Seq(Nonces) /\ Len(u) < Len(own.vPublicNonces)
    BY <2>1, UnusedType, Zenon DEF Pool
  <2>5. Len(u) < Len(own.msgSig) /\ Len(u) \in Nat /\ Len(own.msgSig) \in Nat
    <3>1. own.msgSig \in Seq(Nonces) /\ own.vPublicNonces \in Seq(Nonces)
      BY <2>1, Zenon DEF Pool
    <3> HIDE DEF u
    <3> QED BY <2>3, <2>4, <3>1, LenIs, SMT, Z3
  <2>6. RecycledEntry(n, own, pr) = [own EXCEPT !.vPublicNonces = u]
    BY <1>2, Zenon DEF RecycledEntry
  <2> HIDE DEF u
  <2>7. /\ RecycledEntry(n, own, pr).nCvnId = n
        /\ RecycledEntry(n, own, pr).vPublicNonces = u
        /\ RecycledEntry(n, own, pr).msgSig = own.msgSig
    BY <2>1, <2>3, <2>6, Zenon DEF Pool
  <2> QED BY <2>5, <2>7, SMT, Z3 DEF OwnOk
<1> QED BY <1>1, <1>2, Zenon

\* What is true of a held pool stays true when more pools are relayed.
LEMMA GrowNet ==
    ASSUME NEW N, NEW M, N \subseteq M, NEW p, NEW c, NEW reg, NEW b
    PROVE  /\ HeldOk(p, c, reg, b, N) => HeldOk(p, c, reg, b, M)
           /\ OwnOk(p, c, N) => OwnOk(p, c, M)
BY Zenon DEF HeldOk, OwnOk

\* The entry that AddNoncePool leaves.
LEMMA EntryOk ==
    ASSUME NEW p \in Pool, NEW held, NEW old, NEW reg, NEW b \in Blocks, NEW N,
           p \in N, p.nHeightAdded = 0
    PROVE  /\ \/ PoolEntry(p, held, reg, b) = held
              \/ /\ HeldOk(PoolEntry(p, held, reg, b), p.nCvnId, reg, b, N)
                 /\ OwnOk(PoolEntry(p, held, reg, b), p.nCvnId, N)
           /\ LaterEntry(p, held, old, reg, b) \in {p, old}
<1>1. LaterEntry(p, held, old, reg, b) \in {p, old}
  BY Zenon DEF LaterEntry
<1>2. CASE PoolEntry(p, held, reg, b) = held
  BY <1>1, <1>2, Zenon
<1>3. CASE PoolEntry(p, held, reg, b) # held
  <2>1. /\ PoolEntry(p, held, reg, b) = [p EXCEPT !.nHeightAdded = Height[p.hashRootBlock]]
        /\ SigValid(p, reg)
        /\ GetPoolAge(p, b) >= 0
    BY <1>3, PoolEntryCases, Zenon
  <2> QED BY <1>1, <2>1, AddedOk, SMT, Z3
<1> QED BY <1>2, <1>3, Zenon

\* The entries that CheckNoncePools leaves.
LEMMA CheckedOk ==
    ASSUME NEW mp \in [Cvns -> Entry], NEW ml \in [Cvns -> Entry],
           NEW reg, NEW b \in Blocks, NEW t \in Blocks, NEW c \in Cvns, NEW N,
           ml[c] # Nil => /\ ml[c].nCvnId = c
                          /\ ml[c] \in N
                          /\ ml[c].nHeightAdded = 0
    PROVE  /\ \/ CheckedPools(mp, ml, reg, b, t)[c] = Nil
              \/ /\ CheckedPools(mp, ml, reg, b, t)[c] = mp[c]
                 /\ mp[c] # Nil
                 /\ mp[c].nCvnId \in reg
                 /\ GetPoolAge(mp[c], b) >= 0
              \/ /\ HeldOk(CheckedPools(mp, ml, reg, b, t)[c], c, reg, t, N)
                 /\ OwnOk(CheckedPools(mp, ml, reg, b, t)[c], c, N)
           /\ CheckedLater(ml, b)[c] \in {Nil, ml[c]}
<1>1. CheckedLater(ml, b)[c] \in {Nil, ml[c]}
  BY Zenon DEF CheckedLater
<1>2. CASE /\ ml[c] # Nil
           /\ ml[c] \in Pool
           /\ CheckedPools(mp, ml, reg, b, t)[c] =
                 [ml[c] EXCEPT !.nHeightAdded = Height[ml[c].hashRootBlock]]
           /\ SigValid(ml[c], reg)
           /\ GetPoolAge(ml[c], t) >= 0
  <2>1. /\ HeldOk(CheckedPools(mp, ml, reg, b, t)[c], c, reg, t, N)
        /\ OwnOk(CheckedPools(mp, ml, reg, b, t)[c], c, N)
    BY <1>2, AddedOk, SMT, Z3
  <2> QED BY <1>1, <2>1, Zenon
<1> QED BY <1>1, <1>2, CheckedCases, SMT, SMTT(30)

\* Init: no maps, no file, and the pools the network starts with.
LEMMA AgreeInit == Init => AgreeInv
<1> SUFFICES ASSUME Init PROVE AgreeInv
  BY Zenon
<1>1. HeldInv /\ LaterInv /\ OwnInv
  BY Zenon DEF Init, HeldInv, LaterInv, OwnInv, Owners
<1>2. DiskInv /\ PendingInv
  BY Zenon DEF Init, DiskInv, PendingInv, PendingOk
<1>3. NetOk
  <2>1. net = OldPools
    BY Zenon DEF Init
  <2>2. \A n \in Owners, p \in OldPools : p.nCvnId # n
    BY OldPoolConstants, Zenon DEF Owners
  <2> QED BY <2>1, <2>2, OldPoolConstants, Zenon DEF NetOk
<1> QED BY <1>1, <1>2, <1>3, Zenon DEF AgreeInv

(* The steps of blocks and messages. *)

\* ConnectTip drops the pools that the new tip uses up and takes the ones it
\* makes valid.
LEMMA AgreeConnectTip ==
    ASSUME TypeOK, AgreeInv, NEW n \in Nodes, NEW b \in Blocks, ConnectTip(n, b)
    PROVE  AgreeInv'
<1> DEFINE reg == IF b \in CvnBlocks THEN Payload[b] ELSE cvns[n]
<1>1. pools[n] \in [Cvns -> Entry] /\ later[n] \in [Cvns -> Entry]
  BY Zenon DEF TypeOK, Entry
<1>2. ASSUME NEW c \in Cvns
      PROVE  /\ \/ pools'[n][c] = Nil
                \/ /\ pools'[n][c] = pools[n][c]
                   /\ pools[n][c].nCvnId \in reg
                   /\ GetPoolAge(pools[n][c], b) >= 0
                \/ /\ HeldOk(pools'[n][c], c, reg, b, net)
                   /\ OwnOk(pools'[n][c], c, net)
             /\ later'[n][c] \in {Nil, later[n][c]}
  <2>1. /\ pools'[n] = CheckedPools(pools[n], later[n], reg, b, b)
        /\ later'[n] = CheckedLater(later[n], b)
    BY Zenon DEF ConnectTip, TypeOK
  <2>2. later[n][c] # Nil => /\ later[n][c].nCvnId = c
                             /\ later[n][c] \in net
                             /\ later[n][c].nHeightAdded = 0
    BY Zenon DEF AgreeInv, LaterInv, NetOk
  <2> HIDE DEF reg
  <2> DEFINE e == CheckedPools(pools[n], later[n], reg, b, b)[c]
  <2>3. /\ \/ e = Nil
           \/ /\ e = pools[n][c]
              /\ pools[n][c] # Nil
              /\ pools[n][c].nCvnId \in reg
              /\ GetPoolAge(pools[n][c], b) >= 0
           \/ HeldOk(e, c, reg, b, net) /\ OwnOk(e, c, net)
        /\ CheckedLater(later[n], b)[c] \in {Nil, later[n][c]}
    BY Zenon, <1>1, <2>2, CheckedOk
  <2> QED BY <2>1, <2>3, Zenon
<1>3. /\ \A m \in Nodes : m # n => /\ pools'[m] = pools[m] /\ later'[m] = later[m]
                                   /\ tip'[m] = tip[m] /\ cvns'[m] = cvns[m]
      /\ tip'[n] = b /\ cvns'[n] = reg
      /\ UNCHANGED <<net, disk, pc, pending, clock>>
  BY Zenon DEF ConnectTip, TypeOK
<1> HIDE DEF reg
<1>4. HeldInv'
  <2>1. ASSUME NEW c \in Cvns, c # n, pools'[n][c] # Nil
        PROVE  HeldOk(pools'[n][c], c, reg, b, net)
    <3>1. CASE /\ pools'[n][c] = pools[n][c]
               /\ pools[n][c].nCvnId \in reg
               /\ GetPoolAge(pools[n][c], b) >= 0
      <4>1. HeldOk(pools[n][c], c, cvns[n], tip[n], net)
        BY <2>1, <3>1, Zenon DEF AgreeInv, HeldInv
      <4> QED BY <3>1, <4>1, Zenon DEF HeldOk
    <3> QED BY <1>2, <2>1, <3>1, Zenon
  <2> QED BY <1>3, <2>1, Zenon DEF AgreeInv, HeldInv
<1>5. LaterInv'
  <2>1. ASSUME NEW m \in Nodes, NEW c \in Cvns, later'[m][c] # Nil
        PROVE  later'[m][c].nCvnId = c /\ later'[m][c] \in net'
    <3>1. later'[m][c] = later[m][c]
      BY <1>2, <1>3, <2>1, Zenon
    <3> QED BY <1>3, <2>1, <3>1, Zenon DEF AgreeInv, LaterInv
  <2> QED BY <2>1, Zenon DEF LaterInv
<1>6. OwnInv'
  BY <1>2, <1>3, Zenon DEF AgreeInv, OwnInv, Owners
<1>7. DiskInv' /\ PendingInv' /\ NetOk'
  BY <1>3, Zenon DEF AgreeInv, DiskInv, PendingInv, PendingOk, NetOk
<1> QED BY <1>4, <1>5, <1>6, <1>7, Zenon DEF AgreeInv

\* NONCEPOOL: what AddNoncePool keeps was relayed.
LEMMA AgreeReceive ==
    ASSUME TypeOK, AgreeInv, NEW n \in Nodes, NEW p \in net, ReceiveNoncePool(n, p)
    PROVE  AgreeInv'
<1> DEFINE c == p.nCvnId
           e == PoolEntry(p, pools[n][c], cvns[n], tip[n])
           l == LaterEntry(p, pools[n][c], later[n][c], cvns[n], tip[n])
<1>1. p \in Pool /\ c \in Cvns /\ p.nHeightAdded = 0 /\ tip[n] \in Blocks
  BY Zenon DEF TypeOK, ReceiveNoncePool, AgreeInv, NetOk
<1>2. /\ \/ e = pools[n][c]
         \/ HeldOk(e, c, cvns[n], tip[n], net) /\ OwnOk(e, c, net)
      /\ l \in {p, later[n][c]}
  BY Zenon, <1>1, EntryOk
<1>3. /\ pools' = [pools EXCEPT ![n][c] = e]
      /\ later' = [later EXCEPT ![n][c] = l]
      /\ UNCHANGED <<tip, cvns, net, disk, pc, pending, clock>>
  BY <1>1, Zenon DEF ReceiveNoncePool, TypeOK
<1> HIDE DEF e, l
<1>4. \A m \in Nodes, d \in Cvns :
         /\ pools'[m][d] = IF m = n /\ d = c THEN e ELSE pools[m][d]
         /\ later'[m][d] = IF m = n /\ d = c THEN l ELSE later[m][d]
  BY <1>3, Zenon DEF TypeOK
<1>5. HeldInv'
  BY <1>2, <1>3, <1>4, SMT, Z3 DEF AgreeInv, HeldInv
<1>6. LaterInv'
  BY <1>2, <1>3, <1>4, SMT, Z3 DEF AgreeInv, LaterInv
<1>7. OwnInv'
  BY <1>2, <1>3, <1>4, SMT, Z3 DEF AgreeInv, OwnInv, Owners
<1>8. DiskInv' /\ PendingInv' /\ NetOk'
  BY <1>3, Zenon DEF AgreeInv, DiskInv, PendingInv, PendingOk, NetOk
<1> QED BY <1>5, <1>6, <1>7, <1>8, Zenon DEF AgreeInv
-----------------------------------------------------------------------------
(* The steps of a CVN. *)

\* Relaying the empty pool, a pool that was relayed before, or a new pool.
LEMMA RelayOk ==
    ASSUME TypeOK, NetOk, NEW n \in Owners, NEW p \in Pool,
           p.nHeightAdded = 0,
           \/ p = EmptyPool
           \/ p \in net
           \/ /\ p.nCvnId = n
              /\ p.nCreationTime < clock'[n]
              /\ \A q \in net : q.nCvnId = n => q.nCreationTime < p.nCreationTime,
           net' = net \cup {p},
           \A m \in Owners : clock'[m] \in Nat /\ clock[m] <= clock'[m]
    PROVE  NetOk'
<1>1. \A q \in net : /\ q \in Pool /\ q.nHeightAdded = 0
                     /\ q.nCvnId \in Cvns \/ q = EmptyPool
  BY TimeFacts, Zenon DEF NetOk
<1>2. EmptyPool.nCvnId = NoCvn /\ NoCvn \notin Cvns /\ n \in Cvns
  BY NullConstants, Zenon DEF EmptyPool, Owners
<1>3. \A q \in Pool : q.nCreationTime \in Nat
  BY SMT, Z3 DEF Pool
<1>4. \A q \in net' : q.nHeightAdded = 0 /\ (q.nCvnId \in Cvns \/ q = EmptyPool)
  BY <1>1, <1>2, Zenon
<1>5. \A q, r \in net' :
         q.nCvnId = r.nCvnId /\ q.nCreationTime = r.nCreationTime => q = r
  <2>1. ASSUME NEW q \in net, q.nCvnId = p.nCvnId, q.nCreationTime = p.nCreationTime
        PROVE  q = p
    BY <1>1, <1>2, <1>3, <2>1, SMT, Z3 DEF NetOk
  <2> QED BY <2>1, Zenon DEF NetOk
<1>6. \A m \in Owners : \A q \in net' : q.nCvnId = m => q.nCreationTime < clock'[m]
  <2>1. ASSUME NEW m \in Owners, NEW q \in net, q.nCvnId = m
        PROVE  q.nCreationTime < clock'[m]
    <3>1. q.nCreationTime < clock[m] /\ clock[m] \in Nat /\ q.nCreationTime \in Nat
      BY <2>1, TimeFacts, Zenon DEF NetOk
    <3> QED BY <3>1, SMT, Z3
  <2>2. ASSUME NEW m \in Owners, p.nCvnId = m, p \notin net
        PROVE  p.nCreationTime < clock'[m]
    BY <1>2, <2>2, Zenon DEF Owners
  <2> QED BY <2>1, <2>2, Zenon
<1> QED BY <1>4, <1>5, <1>6, Zenon DEF NetOk

\* Clocks that do not run backwards leave the relayed pools in the past.
LEMMA NetStays ==
    ASSUME TypeOK, NetOk, net' = net,
           \A m \in Owners : clock'[m] \in Nat /\ clock[m] <= clock'[m]
    PROVE  NetOk'
<1>1. ASSUME NEW m \in Owners, NEW q \in net, q.nCvnId = m
      PROVE  q.nCreationTime < clock'[m]
  <2>1. q.nCreationTime < clock[m] /\ clock[m] \in Nat /\ q.nCreationTime \in Nat
    BY <1>1, TimeFacts, Zenon DEF NetOk
  <2> QED BY <2>1, SMT, Z3
<1> QED BY <1>1, Zenon DEF NetOk

\* pool.dat holds the own pool.
LEMMA SerializedOwn ==
    ASSUME NEW p \in Pool, NEW n, NEW N, OwnOk(p, n, N)
    PROVE  Serialized(p).nHeightAdded = 0 /\ OwnOk(Serialized(p), n, N)
<1>1. Serialized(Serialized(p)) = Serialized(p)
  BY Zenon DEF Serialized, Pool
<1>2. p = EmptyPool => Serialized(p) = EmptyPool
  BY SMT, Z3 DEF Serialized, EmptyPool
<1> QED BY <1>1, <1>2, SerializedType, Zenon DEF OwnOk

\* SaveNoncesPool writes the own pool or leaves the file alone.
LEMMA SavedOk ==
    ASSUME TypeOK, DiskInv, NEW n \in Owners, NEW held \in Entry, NEW pr,
           SaveNoncesPool(n, held, pr), net \subseteq net',
           held # Nil => OwnOk(held, n, net')
    PROVE  DiskInv'
<1>1. \A m \in Owners : disk[m] # NoFile => OwnOk(disk[m].pool, m, net')
  BY Zenon DEF DiskInv, OwnOk
<1>2. CASE held # Nil /\ inited[n]
  <2>1. held \in Pool
    BY <1>2, Zenon DEF Entry
  <2>2. Serialized(held).nHeightAdded = 0 /\ OwnOk(Serialized(held), n, net')
    BY <1>2, <2>1, SerializedOwn, Zenon
  <2>3. disk' = [disk EXCEPT ![n] = [pool |-> Serialized(held), private |-> pr]]
    BY <1>2, Zenon DEF SaveNoncesPool
  <2>4. \A m \in Owners : disk'[m] = IF m = n
                                     THEN [pool |-> Serialized(held), private |-> pr]
                                     ELSE disk[m]
    BY <2>3, Zenon DEF TypeOK
  <2>5. disk'[n].pool = Serialized(held)
    BY <2>4, SMT, Z3
  <2> QED BY <1>1, <2>2, <2>4, <2>5, Zenon DEF DiskInv
<1>3. CASE ~(held # Nil /\ inited[n])
  BY <1>1, <1>3, Zenon DEF SaveNoncesPool, DiskInv
<1> QED BY <1>2, <1>3, Zenon

\* A step that changes a CVN's entries for itself.
LEMMA OwnStep ==
    ASSUME TypeOK, AgreeInv, NEW n \in Owners, NEW x, NEW y,
           pools' = [pools EXCEPT ![n][n] = x],
           later' = [later EXCEPT ![n][n] = y],
           UNCHANGED <<tip, cvns>>,
           net \subseteq net',
           x # Nil => OwnOk(x, n, net'),
           y # Nil => y.nCvnId = n /\ y \in net',
           NetOk', DiskInv', PendingInv'
    PROVE  AgreeInv'
<1>1. \A m \in Nodes, c \in Cvns :
         /\ pools'[m][c] = IF m = n /\ c = n THEN x ELSE pools[m][c]
         /\ later'[m][c] = IF m = n /\ c = n THEN y ELSE later[m][c]
  BY Zenon DEF TypeOK, Owners
<1>2. HeldInv'
  <2>1. ASSUME NEW m \in Nodes, NEW c \in Cvns, m # c, pools'[m][c] # Nil
        PROVE  HeldOk(pools'[m][c], c, cvns[m], tip[m], net')
    <3>1. pools'[m][c] = pools[m][c]
      BY <1>1, <2>1, SMT, Z3
    <3>2. HeldOk(pools[m][c], c, cvns[m], tip[m], net)
      BY <2>1, <3>1, Zenon DEF AgreeInv, HeldInv
    <3> QED BY <3>1, <3>2, Zenon DEF HeldOk
  <2> QED BY <2>1, Zenon DEF HeldInv
<1>3. LaterInv'
  BY <1>1, SMT, Z3 DEF AgreeInv, LaterInv
<1>4. OwnInv'
  <2>1. ASSUME NEW m \in Owners, m # n, pools'[m][m] # Nil
        PROVE  OwnOk(pools'[m][m], m, net')
    <3>1. pools'[m][m] = pools[m][m]
      BY <1>1, <2>1, SMT, Z3 DEF Owners
    <3>2. OwnOk(pools[m][m], m, net)
      BY <2>1, <3>1, Zenon DEF AgreeInv, OwnInv
    <3> QED BY <3>1, <3>2, Zenon DEF OwnOk
  <2>2. pools'[n][n] = x
    BY <1>1, Zenon DEF Owners
  <2> QED BY <2>1, <2>2, Zenon DEF OwnInv
<1> QED BY <1>2, <1>3, <1>4, Zenon DEF AgreeInv

\* A step in which the thread of a CVN calls CheckNoncePools on the maps mp
\* and ml.
ChecksPools(n, mp, ml) ==
    /\ pools' = [pools EXCEPT ![n] = CheckedPools(mp, ml, cvns[n], prev[n], tip[n])]
    /\ later' = [later EXCEPT ![n] = CheckedLater(ml, prev[n])]
    /\ UNCHANGED <<tip, cvns>>
    /\ net \subseteq net'
    /\ \A c \in Cvns \ {n} : mp[c] = pools[n][c]
    /\ mp[n] # Nil => OwnOk(mp[n], n, net')
    /\ \A c \in Cvns : ml[c] # Nil => ml[c].nCvnId = c /\ ml[c] \in net'

\* Such a step keeps the invariant.
LEMMA CheckStep ==
    ASSUME TypeOK, AgreeInv, NEW n \in Owners,
           NEW mp \in [Cvns -> Entry], NEW ml \in [Cvns -> Entry],
           ChecksPools(n, mp, ml),
           NetOk', DiskInv', PendingInv'
    PROVE  AgreeInv'
<1>8. /\ pools' = [pools EXCEPT ![n] = CheckedPools(mp, ml, cvns[n], prev[n], tip[n])]
      /\ later' = [later EXCEPT ![n] = CheckedLater(ml, prev[n])]
  BY Zenon DEF ChecksPools
<1>9. UNCHANGED <<tip, cvns>> /\ net \subseteq net'
  BY Zenon DEF ChecksPools
<1>10. /\ \A c \in Cvns \ {n} : mp[c] = pools[n][c]
       /\ mp[n] # Nil => OwnOk(mp[n], n, net')
       /\ \A c \in Cvns : ml[c] # Nil => ml[c].nCvnId = c /\ ml[c] \in net'
  BY Zenon DEF ChecksPools
<1>1. tip[n] \in Blocks /\ prev[n] \in Blocks /\ n \in Nodes /\ n \in Cvns
  BY Zenon DEF TypeOK, Owners
<1>2. ASSUME NEW c \in Cvns
      PROVE  /\ \/ pools'[n][c] = Nil
                \/ pools'[n][c] = mp[c]
                \/ /\ HeldOk(pools'[n][c], c, cvns[n], tip[n], net')
                   /\ OwnOk(pools'[n][c], c, net')
             /\ later'[n][c] \in {Nil, ml[c]}
  <2>1. /\ pools'[n] = CheckedPools(mp, ml, cvns[n], prev[n], tip[n])
        /\ later'[n] = CheckedLater(ml, prev[n])
    BY <1>1, <1>8, Zenon DEF TypeOK
  <2>2. ml[c] # Nil => ml[c].nCvnId = c /\ ml[c] \in net' /\ ml[c].nHeightAdded = 0
    BY <1>10, Zenon DEF NetOk
  <2> DEFINE e == CheckedPools(mp, ml, cvns[n], prev[n], tip[n])[c]
  <2>3. /\ \/ e = Nil
           \/ /\ e = mp[c]
              /\ mp[c] # Nil
              /\ mp[c].nCvnId \in cvns[n]
              /\ GetPoolAge(mp[c], prev[n]) >= 0
           \/ HeldOk(e, c, cvns[n], tip[n], net') /\ OwnOk(e, c, net')
        /\ CheckedLater(ml, prev[n])[c] \in {Nil, ml[c]}
    BY Zenon, <1>1, <2>2, CheckedOk
  <2> QED BY <2>1, <2>3, Zenon
<1>3. \A m \in Nodes : m # n => pools'[m] = pools[m] /\ later'[m] = later[m]
  BY <1>8, Zenon DEF TypeOK
<1>4. HeldInv'
  <2>1. ASSUME NEW m \in Nodes, NEW c \in Cvns, m # c, pools[m][c] # Nil
        PROVE  HeldOk(pools[m][c], c, cvns[m], tip[m], net')
    BY <1>9, <2>1, Zenon DEF AgreeInv, HeldInv, HeldOk
  <2>2. ASSUME NEW c \in Cvns, n # c, pools'[n][c] # Nil
        PROVE  HeldOk(pools'[n][c], c, cvns[n], tip[n], net')
    BY <1>1, <1>2, <1>10, <2>1, <2>2, Zenon
  <2> QED BY <1>3, <1>9, <2>1, <2>2, Zenon DEF HeldInv
<1>5. LaterInv'
  <2>1. ASSUME NEW m \in Nodes, m # n, NEW c \in Cvns, later'[m][c] # Nil
        PROVE  later'[m][c].nCvnId = c /\ later'[m][c] \in net'
    BY <1>3, <1>9, <2>1, Zenon DEF AgreeInv, LaterInv
  <2>2. ASSUME NEW c \in Cvns, later'[n][c] # Nil
        PROVE  later'[n][c].nCvnId = c /\ later'[n][c] \in net'
    <3>1. later'[n][c] = ml[c]
      BY <1>2, <2>2, Zenon
    <3> QED BY <1>10, <2>2, <3>1, Zenon
  <2> QED BY <2>1, <2>2, Zenon DEF LaterInv
<1>6. OwnInv'
  <2>1. ASSUME NEW m \in Owners, pools[m][m] # Nil
        PROVE  OwnOk(pools[m][m], m, net')
    BY <1>9, <2>1, Zenon DEF AgreeInv, OwnInv, OwnOk
  <2>2. pools'[n][n] # Nil => OwnOk(pools'[n][n], n, net')
    BY <1>1, <1>2, <1>10, Zenon
  <2> QED BY <1>3, <2>1, <2>2, Zenon DEF OwnInv, Owners
<1> QED BY <1>4, <1>5, <1>6, Zenon DEF AgreeInv

\* A handler that only goes back to the top of the loop.
LEMMA QuietStep ==
    ASSUME TypeOK, AgreeInv, NEW n \in Owners,
           pc' = [pc EXCEPT ![n] = "top"],
           UNCHANGED <<tip, cvns, pools, later, net, disk, clock, pending>>
    PROVE  AgreeInv'
<1>1. HeldInv' /\ LaterInv' /\ OwnInv' /\ DiskInv' /\ NetOk'
  BY Zenon DEF AgreeInv, HeldInv, LaterInv, OwnInv, DiskInv, NetOk
<1>2. \A m \in Owners : pc'[m] = "add" => pc[m] = "add"
  BY Zenon DEF TypeOK
<1>3. PendingInv'
  BY <1>2, Zenon DEF AgreeInv, PendingInv, PendingOk
<1> QED BY <1>1, <1>3, Zenon DEF AgreeInv

\* What CreateNewNoncePool makes.
LEMMA NewPoolFields ==
    ASSUME NEW n, NEW own, NEW pr
    PROVE  /\ NewPool(n, own, pr).nCvnId = n
           /\ NewPool(n, own, pr).hashRootBlock = prev[n]
           /\ NewPool(n, own, pr).nCreationTime = clock[n]
           /\ NewPool(n, own, pr).nHeightAdded = 0
           /\ NewPool(n, own, pr).vPublicNonces = NewPool(n, own, pr).msgSig
           /\ NewPool(n, own, pr).vPublicNonces =
                 RecycledPublic(n, own, pr)
                    \o FreshNonces(n, Len(RecycledPublic(n, own, pr)), PoolSize)
BY Zenon DEF NewPool

\* A pool that AddNoncePool refuses changes nothing.
LEMMA RefusedEntry ==
    ASSUME NEW p, NEW held, NEW old, NEW reg, NEW b, ~AddNoncePool(p, held, reg)
    PROVE  PoolEntry(p, held, reg, b) = held /\ LaterEntry(p, held, old, reg, b) = old
BY Zenon DEF AddNoncePool, PoolEntry, LaterEntry

\* The other CVNs' pending pools do not mind a pool of n or an empty one.
LEMMA OthersPending ==
    ASSUME TypeOK, PendingInv, NEW n \in Owners, NEW p,
           net' \subseteq net \cup {p}, p.nCvnId \in {n, NoCvn} \/ p \in net,
           \A m \in Owners \ {n} : /\ pc'[m] = pc[m] /\ pending'[m] = pending[m]
                                   /\ clock'[m] = clock[m],
           PendingOk(n)'
    PROVE  PendingInv'
<1>1. ASSUME NEW m \in Owners, m # n
      PROVE  PendingOk(m)'
  <2>1. m # NoCvn
    BY NullConstants, Zenon DEF Owners
  <2> QED BY <1>1, <2>1, SMT, Z3 DEF PendingInv, PendingOk
<1> QED BY <1>1, Zenon DEF PendingInv

\* The clock of a CVN advances by at most one creation.
LEMMA ClockGrows ==
    ASSUME TypeOK, NEW n \in Owners,
           clock' = clock \/ clock' = [clock EXCEPT ![n] = @ + 1]
    PROVE  /\ \A m \in Owners : clock'[m] \in Nat /\ clock[m] <= clock'[m]
           /\ \A m \in Owners \ {n} : clock'[m] = clock[m]
           /\ clock' # clock => clock[n] < clock'[n]
<1>1. \A m \in Owners : clock[m] \in Nat
  BY SMT, Z3 DEF TypeOK
<1>2. CASE clock' = clock
  BY <1>1, <1>2, SMT, Z3
<1>3. CASE clock' = [clock EXCEPT ![n] = @ + 1]
  <2>1. \A m \in Owners : clock'[m] = IF m = n THEN clock[n] + 1 ELSE clock[m]
    BY <1>3, Zenon DEF TypeOK
  <2> QED BY <1>1, <2>1, SMT, Z3
<1> QED BY <1>2, <1>3, Zenon
-----------------------------------------------------------------------------
(* The steps of the thread, and the theorems. *)

\* handleInit with a readable pool.dat.
LEMMA AgreeUseSaved ==
    ASSUME TypeOK, AgreeInv, NEW n \in Owners, UseSavedPool(n),
           pc' = [pc EXCEPT ![n] = "top"], UNCHANGED <<tip, cvns, pending>>
    PROVE  AgreeInv'
<1> DEFINE p == disk[n].pool
           e == PoolEntry(p, Nil, cvns[n], tip[n])
           x == IF e = Nil THEN EmptyPool ELSE e
           y == LaterEntry(p, Nil, later[n][n], cvns[n], tip[n])
<1>1. n \in Cvns /\ n \in Nodes /\ tip[n] \in Blocks /\ p \in Pool
  BY Zenon DEF TypeOK, Owners, UseSavedPool, FileUsable, FileReadable
<1>2. p \in net /\ p.nCvnId = n /\ p.nHeightAdded = 0
  <2>1. p.nCvnId = n /\ p.msgSig = p.vPublicNonces /\ disk[n] # NoFile
    BY Zenon DEF UseSavedPool, FileUsable, FileReadable, AddNoncePool, SigValid
  <2>2. p # EmptyPool
    BY <1>1, <2>1, NullConstants, SMTT(60) DEF EmptyPool
  <2>3. OwnOk(p, n, net) /\ p.nHeightAdded = 0
    BY <2>1, Zenon DEF AgreeInv, DiskInv
  <2>4. Serialized(p) \in net
    BY <2>1, <2>2, <2>3, Zenon DEF OwnOk
  <2>5. Serialized(p) = p
    BY <1>1, <2>3, Zenon DEF Serialized, Pool
  <2> QED BY <2>1, <2>3, <2>4, <2>5, Zenon
<1>3. /\ e = Nil \/ (OwnOk(e, n, net) /\ HeldOk(e, n, cvns[n], tip[n], net))
      /\ y \in {p, later[n][n]}
  <2> HIDE DEF p
  <2> QED BY Zenon, <1>1, <1>2, EntryOk
<1>4. e = Nil \/ e = [p EXCEPT !.nHeightAdded = Height[p.hashRootBlock]]
  BY <1>1, PoolEntryCases, SMT, Z3
<1>5. Serialized(x) = p \/ Serialized(x) = EmptyPool
  <2>1. Serialized(EmptyPool) = EmptyPool
    BY SMT, Z3 DEF Serialized, EmptyPool
  <2>2. e = [p EXCEPT !.nHeightAdded = Height[p.hashRootBlock]] => Serialized(e) = p
    BY Zenon, <1>1, <1>2 DEF Serialized, Pool
  <2> QED BY <1>4, <2>1, <2>2, Zenon
<1>6. /\ pools' = [pools EXCEPT ![n][n] = x]
      /\ later' = [later EXCEPT ![n][n] = y]
      /\ net' = net \cup {Serialized(x)}
      /\ UNCHANGED <<disk, clock>>
  BY <1>1, Zenon DEF UseSavedPool, RelayNoncePool, TypeOK
<1>7. x # Nil => OwnOk(x, n, net)
  BY <1>3, Zenon DEF OwnOk
<1> HIDE DEF x, y, e
<1>8. NetOk'
  <2>1. Serialized(x) \in Pool /\ Serialized(x).nHeightAdded = 0
    BY <1>1, <1>2, <1>5, EmptyPoolType, SMT, Z3 DEF EmptyPool
  <2>2. \A m \in Owners : clock'[m] \in Nat /\ clock[m] <= clock'[m]
    BY <1>6, ClockGrows, Zenon
  <2> QED BY <1>2, <1>5, <1>6, <2>1, <2>2, RelayOk, Zenon DEF AgreeInv
<1>9. DiskInv'
  BY <1>6, Zenon DEF AgreeInv, DiskInv, OwnOk
<1>10. PendingInv'
  <2>1. PendingOk(n)'
    BY Zenon DEF PendingOk, TypeOK
  <2>2. Serialized(x) \in net \/ Serialized(x).nCvnId = NoCvn
    BY <1>2, <1>5, SMT, Z3 DEF EmptyPool
  <2>3. \A m \in Owners \ {n} : /\ pc'[m] = pc[m] /\ pending'[m] = pending[m]
                                /\ clock'[m] = clock[m]
    BY <1>6, Zenon DEF TypeOK
  <2> QED BY <1>6, <2>1, <2>2, <2>3, OthersPending, Zenon DEF AgreeInv
<1>11. OwnOk(x, n, net) => OwnOk(x, n, net')
  BY <1>6, Zenon DEF OwnOk
<1>12. y # Nil => y.nCvnId = n /\ y \in net'
  BY <1>1, <1>2, <1>3, <1>6, SMT, Z3 DEF AgreeInv, LaterInv
<1> QED BY Zenon, <1>6, <1>7, <1>8, <1>9, <1>10, <1>11, <1>12, OwnStep

\* handleInit when the pool has to be made.
LEMMA AgreeCreateInitial ==
    ASSUME TypeOK, AgreeInv, NEW n \in Owners, CreateInitialPool(n),
           pc' = [pc EXCEPT ![n] = "top"], UNCHANGED <<tip, cvns, pending>>
    PROVE  AgreeInv'
<1> DEFINE own == OwnAfterSetUp(n)
           pr == PrivateAfterSetUp(n)
           p == NewPool(n, own, pr)
           held == RecycledEntry(n, own, pr)
           kept == PoolEntry(p, held, cvns[n], tip[n])
           y == LaterEntry(p, held, later[n][n], cvns[n], tip[n])
<1>1. n \in Cvns /\ n \in Nodes /\ tip[n] \in Blocks /\ own \in Entry /\ pr \in Seq(Nonces)
  <2>1. n \in Cvns /\ n \in Nodes /\ tip[n] \in Blocks
    BY Zenon DEF TypeOK, Owners
  <2>2. own \in Entry
    BY <2>1, SMT, Z3 DEF OwnAfterSetUp, Entry, TypeOK
  <2>3. pr \in Seq(Nonces)
    BY SMT, Z3 DEF PrivateAfterSetUp, TypeOK
  <2> QED BY <2>1, <2>2, <2>3, Zenon
<1>2. p \in Pool /\ held \in Entry
  BY <1>1, NewPoolType, Zenon
<1>3. held # Nil => OwnOk(held, n, net)
  <2>1. own # Nil => OwnOk(own, n, net)
    BY Zenon DEF OwnAfterSetUp, AgreeInv, OwnInv
  <2> QED BY <1>1, <2>1, TrimmedOk, Zenon
<1>4. /\ p.nCvnId = n /\ p.nCreationTime = clock[n] /\ p.nHeightAdded = 0
  <2> HIDE DEF own, pr
  <2> QED BY Zenon DEF NewPool
<1>5. /\ pools' = [pools EXCEPT ![n][n] = kept]
      /\ later' = [later EXCEPT ![n][n] = y]
      /\ clock' = [clock EXCEPT ![n] = @ + 1]
  BY <1>1, Zenon DEF CreateInitialPool, TypeOK
<1>6. IF AddNoncePool(p, held, cvns[n])
      THEN SaveNoncesPool(n, kept, NewPrivate(n, own, pr)) /\ RelayNoncePool(n, p)
      ELSE UNCHANGED <<disk, net, relay>>
  BY Zenon DEF CreateInitialPool
<1>7. Serialized(p) = p
  BY <1>2, <1>4, Zenon DEF Serialized, Pool
<1>8. /\ kept = held \/ OwnOk(kept, n, net \cup {p})
      /\ y \in {p, later[n][n]}
  <2>1. p \in net \cup {p}
    BY Zenon
  <2> HIDE DEF p, held
  <2> QED BY Zenon, <1>1, <1>2, <1>4, <2>1, EntryOk
<1>9. kept \in Entry
  BY <1>1, <1>2, EntryTypes, Zenon
<1>10. /\ \A m \in Owners : clock'[m] \in Nat /\ clock[m] <= clock'[m]
       /\ \A m \in Owners \ {n} : clock'[m] = clock[m]
       /\ clock[n] < clock'[n]
  <2>1. clock' # clock
    BY <1>5, SMT, Z3 DEF TypeOK
  <2> QED BY Zenon, <1>5, <2>1, ClockGrows
<1>11. ~AddNoncePool(p, held, cvns[n]) => kept = held /\ y = later[n][n]
  BY RefusedEntry, Zenon
<1> HIDE DEF own, pr, p, held, kept, y
<1>12. \A m \in Owners \ {n} : pc'[m] = pc[m] /\ pending'[m] = pending[m]
  BY Zenon DEF TypeOK
<1>13. PendingOk(n)'
  BY Zenon DEF PendingOk, TypeOK
<1>14. later[n][n] # Nil => later[n][n].nCvnId = n /\ later[n][n] \in net
  BY <1>1, Zenon DEF AgreeInv, LaterInv
<1>15. CASE AddNoncePool(p, held, cvns[n])
  <2>1. net' = net \cup {p} /\ SaveNoncesPool(n, kept, NewPrivate(n, own, pr))
    BY <1>6, <1>7, <1>15, Zenon DEF RelayNoncePool
  <2>2. NetOk'
    <3>1. \A q \in net : q.nCvnId = n => q.nCreationTime < p.nCreationTime
      BY <1>4, Zenon DEF AgreeInv, NetOk
    <3> QED BY <1>2, <1>4, <1>10, <2>1, <3>1, RelayOk, Zenon DEF AgreeInv
  <2>3. kept # Nil => OwnOk(kept, n, net')
    BY <1>3, <1>8, <2>1, Zenon DEF OwnOk
  <2>4. DiskInv'
    BY <1>9, <2>1, <2>3, SavedOk, Zenon DEF AgreeInv
  <2>5. PendingInv'
    BY <1>4, <1>10, <1>12, <1>13, <2>1, OthersPending, SMT, Z3 DEF AgreeInv
  <2>6. y # Nil => y.nCvnId = n /\ y \in net'
    BY <1>4, <1>8, <1>14, <2>1, Zenon
  <2> QED BY Zenon, <1>5, <2>1, <2>2, <2>3, <2>4, <2>5, <2>6, OwnStep
<1>16. CASE ~AddNoncePool(p, held, cvns[n])
  <2>1. UNCHANGED <<disk, net>> /\ kept = held /\ y = later[n][n]
    BY <1>6, <1>11, <1>16, Zenon
  <2>2. NetOk'
    BY <1>10, <2>1, NetStays, Zenon DEF AgreeInv
  <2>3. DiskInv'
    BY <2>1, Zenon DEF AgreeInv, DiskInv
  <2>4. PendingInv'
    BY <1>4, <1>10, <1>12, <1>13, <2>1, OthersPending, Zenon DEF AgreeInv
  <2> QED BY Zenon, <1>3, <1>5, <1>14, <2>1, <2>2, <2>3, <2>4, OwnStep
<1> QED BY <1>15, <1>16, Zenon

\* A device failure lets the clock run and trims the own pool at most.
LEMMA AgreeTrim ==
    ASSUME TypeOK, AgreeInv, NEW n \in Owners, NEW own \in Entry, NEW pr \in Seq(Nonces),
           own \in {Nil, pools[n][n]},
           clock' = [clock EXCEPT ![n] = @ + 1],
           UNCHANGED <<net, disk, pending>>, pc' = [pc EXCEPT ![n] = "top"]
    PROVE  /\ RecycledEntry(n, own, pr) # Nil => OwnOk(RecycledEntry(n, own, pr), n, net')
           /\ NetOk' /\ DiskInv' /\ PendingInv'
<1>1. own # Nil => OwnOk(own, n, net)
  BY Zenon DEF AgreeInv, OwnInv
<1>2. RecycledEntry(n, own, pr) # Nil => OwnOk(RecycledEntry(n, own, pr), n, net')
  BY <1>1, TrimmedOk, Zenon
<1>3. \A m \in Owners : clock[m] \in Nat /\ clock'[m] \in Nat /\ clock[m] <= clock'[m]
  BY SMT, Z3 DEF TypeOK
<1>5. NetOk'
  BY <1>3, NetStays, Zenon DEF AgreeInv
<1>6. DiskInv'
  BY Zenon DEF AgreeInv, DiskInv
<1>7. PendingInv'
  BY Zenon DEF AgreeInv, PendingInv, PendingOk, TypeOK
<1> QED BY <1>2, <1>5, <1>6, <1>7, Zenon

\* handleInit as a whole.
LEMMA AgreeHandleInit ==
    ASSUME TypeOK, AgreeInv, NEW n \in Owners, HandleInit(n)
    PROVE  AgreeInv'
<1>1. pc' = [pc EXCEPT ![n] = "top"] /\ UNCHANGED <<tip, cvns, pending>>
  BY Zenon DEF HandleInit
<1>2. CASE UseSavedPool(n)
  BY Zenon, <1>1, <1>2, AgreeUseSaved
<1>3. CASE CreateInitialPool(n)
  BY Zenon, <1>1, <1>3, AgreeCreateInitial
<1>4. CASE FailInitialPool(n)
  <2> DEFINE own == OwnAfterSetUp(n)
             pr == PrivateAfterSetUp(n)
             x == RecycledEntry(n, own, pr)
             y == later[n][n]
  <2>1. own \in Entry /\ own \in {Nil, pools[n][n]} /\ pr \in Seq(Nonces)
    <3>1. own \in Entry /\ own \in {Nil, pools[n][n]}
      BY SMT, Z3 DEF OwnAfterSetUp, Entry, TypeOK, Owners
    <3>2. pr \in Seq(Nonces)
      BY SMT, Z3 DEF PrivateAfterSetUp, TypeOK
    <3> QED BY <3>1, <3>2, Zenon
  <2>2. /\ clock' = [clock EXCEPT ![n] = @ + 1]
        /\ UNCHANGED <<net, disk, later>>
        /\ pools' = [pools EXCEPT ![n][n] = x]
    BY <1>4, Zenon DEF FailInitialPool, FailNewPool
  <2> HIDE DEF own, pr
  <2>3. /\ x # Nil => OwnOk(x, n, net')
        /\ NetOk' /\ DiskInv' /\ PendingInv'
    BY Zenon, <1>1, <2>1, <2>2, AgreeTrim
  <2>4. later' = [later EXCEPT ![n][n] = y]
    BY <2>2, Zenon DEF TypeOK, Owners
  <2>5. y # Nil => y.nCvnId = n /\ y \in net'
    BY <2>2, Zenon DEF AgreeInv, LaterInv, Owners
  <2> HIDE DEF x, y
  <2> QED BY Zenon, <1>1, <2>2, <2>3, <2>4, <2>5, OwnStep
<1>5. CASE n \notin cvns[n] /\ UNCHANGED <<pools, later, relay, net, priv, disk, inited, clock>>
  BY Zenon, <1>1, <1>5, QuietStep
<1> QED BY <1>2, <1>3, <1>4, <1>5, Zenon DEF HandleInit

\* A pool that is made is newer than every relayed one, and waits to be added.
LEMMA AgreeStartNew ==
    ASSUME TypeOK, AgreeInv, NEW n \in Owners, StartNewPool(n),
           UNCHANGED <<tip, cvns, later, net, disk>>
    PROVE  AgreeInv'
<1> DEFINE own == pools[n][n]
           x == RecycledEntry(n, own, priv[n])
           y == later[n][n]
<1>1. own \in Entry /\ priv[n] \in Seq(Nonces) /\ n \in Nodes /\ n \in Cvns
  BY SMT, Z3 DEF TypeOK, Entry, Owners
<1>2. x # Nil => OwnOk(x, n, net')
  <2>1. own # Nil => OwnOk(own, n, net)
    BY Zenon DEF AgreeInv, OwnInv
  <2> QED BY <1>1, <2>1, TrimmedOk, Zenon
<1>3. /\ pools' = [pools EXCEPT ![n][n] = x]
      /\ clock' = [clock EXCEPT ![n] = @ + 1]
      /\ pc' = [pc EXCEPT ![n] = "add"]
      /\ pending' = [pending EXCEPT ![n] = NewPool(n, own, priv[n])]
  BY Zenon DEF StartNewPool
<1>4. later' = [later EXCEPT ![n][n] = y] /\ (y # Nil => y.nCvnId = n /\ y \in net')
  BY <1>1, SMT, Z3 DEF TypeOK, AgreeInv, LaterInv
<1>5. /\ \A m \in Owners : clock'[m] \in Nat /\ clock[m] <= clock'[m]
      /\ \A m \in Owners \ {n} : clock'[m] = clock[m]
      /\ clock[n] < clock'[n]
  <2>1. clock' # clock
    BY <1>3, SMT, Z3 DEF TypeOK
  <2> QED BY Zenon, <1>3, <2>1, ClockGrows
<1>6. NetOk'
  BY <1>5, NetStays, Zenon DEF AgreeInv
<1>7. PendingOk(n)'
  <2>1. pending'[n] = NewPool(n, own, priv[n])
    BY <1>3, Zenon DEF TypeOK
  <2>2. \A q \in net : q.nCvnId = n => q.nCreationTime < clock[n]
    BY Zenon DEF AgreeInv, NetOk
  <2> DEFINE p == NewPool(n, own, priv[n])
  <2>3. /\ p.nCvnId = n /\ p.nHeightAdded = 0 /\ p.nCreationTime = clock[n]
        /\ p.vPublicNonces = p.msgSig
    BY NewPoolFields, SMT, Z3
  <2> HIDE DEF p, own
  <2> QED BY <1>5, <2>1, <2>2, <2>3, Zenon DEF PendingOk, p
<1>8. PendingInv'
  <2>1. ASSUME NEW m \in Owners, m # n
        PROVE  PendingOk(m)'
    <3>1. pc'[m] = pc[m] /\ pending'[m] = pending[m] /\ clock'[m] = clock[m]
      BY <1>3, <1>5, <2>1, Zenon DEF TypeOK
    <3> QED BY Zenon, <3>1 DEF AgreeInv, PendingInv, PendingOk
  <2> QED BY <1>7, <2>1, Zenon DEF PendingInv
<1>9. DiskInv'
  BY Zenon DEF AgreeInv, DiskInv
<1> HIDE DEF x, y
<1> QED BY Zenon, <1>2, <1>3, <1>4, <1>6, <1>8, <1>9, OwnStep

\* handleWaitingForBlockPropagation, up to the call of AddNoncePool.
LEMMA AgreeBlockPropagation ==
    ASSUME TypeOK, AgreeInv, NEW n \in Owners, HandleBlockPropagation(n)
    PROVE  AgreeInv'
<1>1. UNCHANGED <<tip, cvns, net, disk>>
  BY Zenon DEF HandleBlockPropagation
<1>2. CASE /\ n \notin cvns[n]
           /\ pc' = [pc EXCEPT ![n] = "top"]
           /\ UNCHANGED <<pools, later, priv, clock, pending>>
  BY Zenon, <1>1, <1>2, QuietStep
<1>3. CASE StartNewPool(n) /\ UNCHANGED <<later, state>>
  BY <1>1, <1>3, AgreeStartNew, Zenon
<1>4. CASE /\ NeedsNewPool(n) => FailNewPool(n, pools[n][n], priv[n])
           /\ ~NeedsNewPool(n) => UNCHANGED <<priv, clock>>
           /\ pools' = [pools EXCEPT ![n] =
                 CheckedPools(TrimmedPools(n), later[n], cvns[n], prev[n], tip[n])]
           /\ later' = [later EXCEPT ![n] = CheckedLater(@, prev[n])]
           /\ pc' = [pc EXCEPT ![n] = "top"]
           /\ UNCHANGED pending
  <2> DEFINE own == pools[n][n]
             x == RecycledEntry(n, own, priv[n])
             mp == TrimmedPools(n)
             ml == later[n]
  <2>1. /\ own \in Entry /\ priv[n] \in Seq(Nonces) /\ n \in Nodes /\ n \in Cvns
        /\ pools[n] \in [Cvns -> Entry] /\ ml \in [Cvns -> Entry]
    BY SMT, Z3 DEF TypeOK, Entry, Owners
  <2>2. x \in Entry
    BY <2>1, NewPoolType, Zenon
  <2>3. /\ mp \in [Cvns -> Entry]
        /\ \A c \in Cvns \ {n} : mp[c] = pools[n][c]
        /\ mp[n] = IF NeedsNewPool(n) THEN x ELSE own
    BY <2>1, <2>2, Zenon DEF TrimmedPools
  <2>4. NetOk' /\ DiskInv' /\ PendingInv' /\ (mp[n] # Nil => OwnOk(mp[n], n, net'))
    <3>1. CASE NeedsNewPool(n)
      <4>1. clock' = [clock EXCEPT ![n] = @ + 1]
        BY <1>4, <3>1, Zenon DEF FailNewPool
      <4>2. /\ x # Nil => OwnOk(x, n, net')
            /\ NetOk' /\ DiskInv' /\ PendingInv'
        BY Zenon, <1>1, <1>4, <2>1, <4>1, AgreeTrim
      <4> QED BY <2>3, <3>1, <4>2, Zenon
    <3>2. CASE ~NeedsNewPool(n)
      <4>1. NetOk' /\ DiskInv' /\ PendingInv'
        BY Zenon, <1>1, <1>4, <3>2 DEF AgreeInv, DiskInv, PendingInv, PendingOk, NetOk, TypeOK
      <4>2. own # Nil => OwnOk(own, n, net)
        BY Zenon DEF AgreeInv, OwnInv
      <4> QED BY <1>1, <2>3, <3>2, <4>1, <4>2, Zenon
    <3> QED BY <3>1, <3>2, Zenon
  <2>5. \A c \in Cvns : ml[c] # Nil => ml[c].nCvnId = c /\ ml[c] \in net'
    BY <1>1, <2>1, Zenon DEF AgreeInv, LaterInv
  <2>6. later' = [later EXCEPT ![n] = CheckedLater(ml, prev[n])]
    BY <1>4, <2>1, Zenon DEF TypeOK
  <2> HIDE DEF mp, ml
  <2>7. pools' = [pools EXCEPT ![n] = CheckedPools(mp, ml, cvns[n], prev[n], tip[n])]
    BY Zenon, <1>4 DEF mp, ml
  <2>8. ChecksPools(n, mp, ml)
    BY <1>1, <2>3, <2>4, <2>5, <2>6, <2>7, Zenon DEF ChecksPools
  <2> QED BY <2>1, <2>3, <2>4, <2>8, CheckStep, Zenon
<1> QED BY <1>2, <1>3, <1>4, Zenon DEF HandleBlockPropagation

\* handleWaitingForCvnData, up to the call of AddNoncePool.
LEMMA AgreeCvnData ==
    ASSUME TypeOK, AgreeInv, NEW n \in Owners, HandleCvnData(n)
    PROVE  AgreeInv'
<1>1. UNCHANGED <<tip, cvns, later, net, disk>>
  BY Zenon DEF HandleCvnData
<1>2. CASE /\ n \notin cvns[n]
           /\ pc' = [pc EXCEPT ![n] = "top"]
           /\ UNCHANGED <<pools, priv, clock, pending, state, inited>>
  BY Zenon, <1>1, <1>2, QuietStep
<1>3. CASE StartNewPool(n)
  BY <1>1, <1>3, AgreeStartNew, Zenon
<1>4. CASE /\ FailNewPool(n, pools[n][n], priv[n])
           /\ pools' = [pools EXCEPT ![n][n] = RecycledEntry(n, pools[n][n], priv[n])]
           /\ pc' = [pc EXCEPT ![n] = "top"]
           /\ UNCHANGED pending
  <2> DEFINE own == pools[n][n]
             x == RecycledEntry(n, own, priv[n])
             y == later[n][n]
  <2>1. own \in Entry /\ priv[n] \in Seq(Nonces) /\ n \in Nodes /\ n \in Cvns
    BY SMT, Z3 DEF TypeOK, Entry, Owners
  <2>2. clock' = [clock EXCEPT ![n] = @ + 1]
    BY <1>4, Zenon DEF FailNewPool
  <2>3. /\ x # Nil => OwnOk(x, n, net')
        /\ NetOk' /\ DiskInv' /\ PendingInv'
    BY Zenon, <1>1, <1>4, <2>1, <2>2, AgreeTrim
  <2>4. later' = [later EXCEPT ![n][n] = y] /\ (y # Nil => y.nCvnId = n /\ y \in net')
    BY <1>1, <2>1, Zenon DEF TypeOK, AgreeInv, LaterInv
  <2>5. pools' = [pools EXCEPT ![n][n] = x]
    BY <1>4, Zenon
  <2> HIDE DEF x, y
  <2> QED BY Zenon, <1>1, <2>3, <2>4, <2>5, OwnStep
<1> QED BY <1>2, <1>3, <1>4, Zenon DEF HandleCvnData

\* AddNoncePool, SaveNoncesPool and RelayNoncePool of the new pool.
LEMMA AgreeFinish ==
    ASSUME TypeOK, AgreeInv, NEW n \in Owners, FinishNewPool(n)
    PROVE  AgreeInv'
<1> DEFINE p == pending[n]
           own == pools[n][n]
           kept == PoolEntry(p, own, cvns[n], tip[n])
           y == LaterEntry(p, own, later[n][n], cvns[n], tip[n])
           mp == [pools[n] EXCEPT ![n] = kept]
           ml == [later[n] EXCEPT ![n] = y]
<1>1. /\ n \in Nodes /\ n \in Cvns /\ tip[n] \in Blocks
      /\ pools[n] \in [Cvns -> Entry] /\ later[n] \in [Cvns -> Entry]
      /\ own \in Entry /\ later[n][n] \in Entry
      /\ p \in Pool /\ pc[n] = "add"
  <2>1. n \in Nodes /\ n \in Cvns
    BY Zenon DEF Owners
  <2>2. pc[n] = "add"
    BY Zenon DEF FinishNewPool
  <2>3. p \in Pool
    BY <2>2, Zenon DEF TypeOK
  <2> QED BY <2>1, <2>2, <2>3, TypeFacts, Zenon
<1>2. /\ p.nCvnId = n /\ p.nHeightAdded = 0 /\ p.nCreationTime < clock[n]
      /\ \A q \in net : q.nCvnId = n => q.nCreationTime < p.nCreationTime
  BY <1>1, Zenon DEF AgreeInv, PendingInv, PendingOk
<1>3. /\ \A m \in Owners : clock'[m] = clock[m] /\ clock[m] \in Nat
      /\ \A m \in Owners \ {n} : pc'[m] = pc[m] /\ pending'[m] = pending[m]
      /\ PendingOk(n)'
      /\ UNCHANGED <<tip, cvns>>
  <2>1. /\ UNCHANGED <<clock, tip, cvns>>
        /\ pc' = [pc EXCEPT ![n] = "top"] /\ pending' = [pending EXCEPT ![n] = Nil]
    BY Zenon DEF FinishNewPool
  <2>2. /\ pc \in [Owners -> {"top", "run", "add"}]
        /\ pending \in [Owners -> Pool \cup {Nil}]
    BY Zenon DEF TypeOK
  <2>3. /\ pc'[n] = "top"
        /\ \A m \in Owners \ {n} : pc'[m] = pc[m] /\ pending'[m] = pending[m]
    BY <2>1, <2>2, Zenon
  <2>4. PendingOk(n)'
    BY <2>3, Zenon DEF PendingOk
  <2> QED BY <2>1, <2>3, <2>4, TimeFacts, Zenon
<1>4. Serialized(p) = p
  BY <1>1, <1>2, Zenon DEF Serialized, Pool
<1>5. own # Nil => OwnOk(own, n, net)
  BY Zenon DEF AgreeInv, OwnInv
<1>6. IF AddNoncePool(p, own, cvns[n])
      THEN SaveNoncesPool(n, kept, priv[n]) /\ RelayNoncePool(n, p)
      ELSE UNCHANGED <<disk, net, relay>>
  BY Zenon DEF FinishNewPool
<1>7. /\ kept = own \/ OwnOk(kept, n, net \cup {p})
      /\ y \in {p, later[n][n]}
      /\ kept \in Entry /\ y \in Entry
  <2>1. p \in net \cup {p}
    BY Zenon
  <2>2. kept \in Entry /\ y \in Entry
    BY <1>1, EntryTypes, Zenon
  <2> HIDE DEF p, own
  <2> QED BY <1>1, <1>2, <2>1, <2>2, EntryOk, Zenon
<1>8. ~AddNoncePool(p, own, cvns[n]) => kept = own /\ y = later[n][n]
  BY RefusedEntry, Zenon
<1>9. /\ net \subseteq net' /\ net' \subseteq net \cup {p}
      /\ AddNoncePool(p, own, cvns[n]) => p \in net'
      /\ NetOk'
      /\ kept # Nil => OwnOk(kept, n, net')
      /\ DiskInv'
  <2>1. CASE AddNoncePool(p, own, cvns[n])
    <3>1. net' = net \cup {p} /\ SaveNoncesPool(n, kept, priv[n])
      BY <1>4, <1>6, <2>1, Zenon DEF RelayNoncePool
    <3>2. NetOk'
      <4>1. \A m \in Owners : clock'[m] \in Nat /\ clock[m] <= clock'[m]
        BY <1>3, SMT, Z3
      <4>2. p.nCreationTime < clock'[n]
        BY <1>2, <1>3, Zenon
      <4> HIDE DEF p
      <4> QED BY <1>1, <1>2, <3>1, <4>1, <4>2, RelayOk, Zenon DEF AgreeInv
    <3>3. kept # Nil => OwnOk(kept, n, net')
      BY <1>5, <1>7, <3>1, Zenon DEF OwnOk
    <3>4. DiskInv'
      <4> HIDE DEF kept
      <4> QED BY <1>7, <3>1, <3>3, SavedOk, Zenon DEF AgreeInv
    <3> QED BY <3>1, <3>2, <3>3, <3>4, Zenon
  <2>2. CASE ~AddNoncePool(p, own, cvns[n])
    <3>1. UNCHANGED <<net, disk>> /\ kept = own
      BY <1>6, <1>8, <2>2, Zenon
    <3>2. NetOk' /\ DiskInv'
      BY <1>3, <3>1, Zenon DEF AgreeInv, NetOk, DiskInv
    <3> QED BY <1>5, <2>2, <3>1, <3>2, Zenon
  <2> QED BY <2>1, <2>2, Zenon
<1>14. \/ /\ pools' = [pools EXCEPT ![n] = CheckedPools(mp, ml, cvns[n], prev[n], tip[n])]
          /\ later' = [later EXCEPT ![n] = CheckedLater(ml, prev[n])]
       \/ /\ pools' = [pools EXCEPT ![n] = mp]
          /\ later' = [later EXCEPT ![n] = ml]
  BY Zenon DEF FinishNewPool
<1> HIDE DEF kept, y, own, p
<1>10. PendingInv'
  BY <1>2, <1>3, <1>9, OthersPending, Zenon DEF AgreeInv
<1>11. y # Nil => y.nCvnId = n /\ y \in net'
  <2>1. later[n][n] # Nil => later[n][n].nCvnId = n /\ later[n][n] \in net
    BY <1>1, Zenon DEF AgreeInv, LaterInv
  <2> QED BY <1>2, <1>7, <1>8, <1>9, <2>1, Zenon
<1>12. CASE /\ pools' = [pools EXCEPT ![n] = CheckedPools(mp, ml, cvns[n], prev[n], tip[n])]
            /\ later' = [later EXCEPT ![n] = CheckedLater(ml, prev[n])]
  <2>1. /\ mp \in [Cvns -> Entry] /\ ml \in [Cvns -> Entry]
        /\ \A c \in Cvns \ {n} : mp[c] = pools[n][c]
        /\ mp[n] = kept
        /\ \A c \in Cvns : ml[c] = IF c = n THEN y ELSE later[n][c]
    BY <1>1, <1>7, Zenon
  <2>2. \A c \in Cvns : ml[c] # Nil => ml[c].nCvnId = c /\ ml[c] \in net'
    BY <1>1, <1>9, <1>11, <2>1, Zenon DEF AgreeInv, LaterInv
  <2> HIDE DEF mp, ml
  <2>3. /\ pools' = [pools EXCEPT ![n] = CheckedPools(mp, ml, cvns[n], prev[n], tip[n])]
        /\ later' = [later EXCEPT ![n] = CheckedLater(ml, prev[n])]
    BY <1>12, Zenon DEF mp, ml
  <2>4. mp[n] # Nil => OwnOk(mp[n], n, net')
    BY <1>9, <2>1, Zenon
  <2>5. \A c \in Cvns \ {n} : mp[c] = pools[n][c]
    BY Zenon, <2>1
  <2>6. mp \in [Cvns -> Entry] /\ ml \in [Cvns -> Entry]
    BY <2>1, Zenon
  <2>7. UNCHANGED <<tip, cvns>> /\ net \subseteq net' /\ NetOk' /\ DiskInv'
    BY <1>3, <1>9, Zenon
  <2>8. ChecksPools(n, mp, ml)
    BY <2>2, <2>3, <2>4, <2>5, <2>7, Zenon DEF ChecksPools
  <2> QED BY <1>10, <2>6, <2>7, <2>8, CheckStep, Zenon
<1>13. CASE /\ pools' = [pools EXCEPT ![n] = mp]
            /\ later' = [later EXCEPT ![n] = ml]
  <2>1. /\ pools' = [pools EXCEPT ![n][n] = kept]
        /\ later' = [later EXCEPT ![n][n] = y]
    BY <1>1, <1>13, Zenon DEF TypeOK
  <2> QED BY Zenon, <1>3, <1>9, <1>10, <1>11, <2>1, OwnStep
<1> QED BY <1>12, <1>13, <1>14, Zenon

\* Signing creates an empty own entry at most.
LEMMA AgreeSign ==
    ASSUME TypeOK, AgreeInv, NEW n \in Owners, Sign(n)
    PROVE  AgreeInv'
<1>1. /\ pc' = [pc EXCEPT ![n] = "top"]
      /\ UNCHANGED <<tip, cvns, later, net, disk, pending, clock>>
  BY Zenon DEF Sign
<1>2. NetOk' /\ DiskInv' /\ PendingInv'
  BY <1>1, Zenon DEF AgreeInv, DiskInv, PendingInv, PendingOk, NetOk, TypeOK
<1>3. CASE UNCHANGED pools
  BY <1>1, <1>2, <1>3, Zenon DEF AgreeInv, HeldInv, LaterInv, OwnInv
<1>4. CASE pools' = [pools EXCEPT ![n][n] = IF @ = Nil THEN EmptyPool ELSE @]
  <2> DEFINE x == IF pools[n][n] = Nil THEN EmptyPool ELSE pools[n][n]
             y == later[n][n]
  <2>1. x # Nil => OwnOk(x, n, net')
    BY <1>1, Zenon DEF AgreeInv, OwnInv, OwnOk
  <2>2. /\ pools' = [pools EXCEPT ![n][n] = x]
        /\ later' = [later EXCEPT ![n][n] = y]
        /\ y # Nil => y.nCvnId = n /\ y \in net'
    BY <1>1, <1>4, SMT, Z3 DEF TypeOK, Owners, AgreeInv, LaterInv
  <2> HIDE DEF x, y
  <2> QED BY Zenon, <1>1, <1>2, <2>1, <2>2, OwnStep
<1> QED BY <1>3, <1>4, Zenon DEF Sign

\* A restart forgets the maps.
LEMMA AgreeRestart ==
    ASSUME TypeOK, AgreeInv, NEW n \in Owners, Restart(n), DiskInv'
    PROVE  AgreeInv'
<1>1. /\ \A c \in Cvns : pools'[n][c] = Nil /\ later'[n][c] = Nil
      /\ \A m \in Nodes \ {n} : pools'[m] = pools[m] /\ later'[m] = later[m]
      /\ UNCHANGED <<tip, cvns, net, clock>>
      /\ n \in Cvns /\ n \in Nodes
  BY Zenon DEF Restart, TypeOK, Owners
<1>2. /\ HeldInv' /\ LaterInv' /\ OwnInv'
  <2>1. HeldInv'
    <3>1. ASSUME NEW m \in Nodes, NEW c \in Cvns, m # c, pools'[m][c] # Nil
          PROVE  HeldOk(pools'[m][c], c, cvns[m], tip[m], net)
      <4>1. m # n /\ pools'[m] = pools[m]
        BY <1>1, <3>1, Zenon
      <4> QED BY <3>1, <4>1, Zenon DEF AgreeInv, HeldInv
    <3> QED BY <1>1, <3>1, Zenon DEF HeldInv
  <2>2. LaterInv'
    BY <1>1, SMT, Z3 DEF AgreeInv, LaterInv
  <2>3. OwnInv'
    BY <1>1, Zenon DEF AgreeInv, OwnInv, Owners
  <2> QED BY <2>1, <2>2, <2>3, Zenon
<1>3. NetOk'
  BY <1>1, Zenon DEF AgreeInv, NetOk
<1>4. PendingInv'
  <2>1. /\ pc'[n] = "top"
        /\ \A m \in Owners \ {n} : pc'[m] = pc[m] /\ pending'[m] = pending[m]
    BY Zenon DEF Restart, TypeOK
  <2> QED BY <1>1, <2>1, SMT, Z3 DEF AgreeInv, PendingInv, PendingOk
<1> QED BY <1>2, <1>3, <1>4, Zenon DEF AgreeInv

\* Every step keeps the invariant.
LEMMA AgreeNext == TypeOK /\ AgreeInv /\ [Next]_vars => AgreeInv'
<1> SUFFICES ASSUME TypeOK, AgreeInv, [Next]_vars PROVE AgreeInv'
  BY Zenon
<1>1. ASSUME NEW n \in Nodes, NodeStep(n)
      PROVE  AgreeInv'
  BY <1>1, AgreeConnectTip, AgreeReceive, Zenon DEF NodeStep
<1>2. ASSUME UNCHANGED <<tip, cvns, pools, later, net, disk, pending, clock>>,
             \A n \in Owners : pc'[n] = "add" => pc[n] = "add"
      PROVE  AgreeInv'
  BY <1>2, Zenon DEF AgreeInv, HeldInv, LaterInv, OwnInv, DiskInv, PendingInv, PendingOk, NetOk
<1>3. ASSUME NEW n \in Owners, StartThread(n) \/ LoopTop(n) \/ StopThread(n)
      PROVE  AgreeInv'
  <2>1. UNCHANGED <<tip, cvns, pools, later, net, disk, pending, clock>>
    BY <1>3, Zenon DEF StartThread, LoopTop, StopThread
  <2>2. \A m \in Owners : pc'[m] = "add" => pc[m] = "add"
    BY <1>3, Zenon DEF StartThread, LoopTop, StopThread, TypeOK
  <2> QED BY <1>2, <2>1, <2>2, Zenon
<1>4. ASSUME NEW n \in Owners, Crash(n)
      PROVE  AgreeInv'
  <2>1. DiskInv'
    BY <1>4, Zenon DEF Crash, Restart, AgreeInv, DiskInv
  <2> QED BY <1>4, <2>1, AgreeRestart, Zenon DEF Crash
<1>5. ASSUME NEW n \in Owners, Shutdown(n)
      PROVE  AgreeInv'
  <2>1. Restart(n) /\ net' = net /\ SaveNoncesPool(n, pools[n][n], priv[n])
    BY <1>5, Zenon DEF Shutdown, Restart
  <2>2. pools[n][n] \in Entry /\ (pools[n][n] # Nil => OwnOk(pools[n][n], n, net'))
    BY <2>1, SMT, Z3 DEF TypeOK, Entry, Owners, AgreeInv, OwnInv
  <2>3. DiskInv'
    BY <2>1, <2>2, SavedOk, Zenon DEF AgreeInv
  <2> QED BY <2>1, <2>3, AgreeRestart, Zenon
<1>6. CASE UNCHANGED vars
  BY <1>2, <1>6, Zenon DEF vars
<1>7. ASSUME NEW n \in Owners, ThreadStep(n)
      PROVE  AgreeInv'
  BY <1>3, <1>7, AgreeHandleInit, AgreeBlockPropagation, AgreeCvnData, AgreeFinish, AgreeSign, Zenon
  DEF ThreadStep
<1>8. ASSUME NEW n \in Owners, ProcessStep(n)
      PROVE  AgreeInv'
  BY <1>3, <1>4, <1>5, <1>8, Zenon DEF ProcessStep
<1> QED BY <1>1, <1>6, <1>7, <1>8, Zenon DEF Next

(* The inductive invariant holds: a held pool was relayed, a relayed pool is *)
(* identified by its CVN and creation time, and a pool that is made and not   *)
(* yet relayed is newer than all relayed ones.                                *)
THEOREM AgreeCorrect == Spec => []AgreeInv
BY AgreeInit, AgreeNext, TypeCorrect, PTL DEF Spec

(* Every pool a node holds of another CVN is what that CVN relayed, read from *)
(* the height of its root, and CVNs never reuse a creation time: proved for   *)
(* every block tree, number of nodes, pool size, lag and failure pattern.     *)
THEOREM Agreement == Spec => []PeersAgree
<1>1. TypeOK /\ AgreeInv => PeersAgree
  BY Zenon DEF AgreeInv, HeldInv, HeldOk, NetOk, PeersAgree
<1> QED BY <1>1, TypeCorrect, AgreeCorrect, PTL

(* A pool a node holds of another CVN has a public nonce for the active tip,  *)
(* and its CVN is registered.                                                 *)
THEOREM Usable == Spec => []HeldPoolsUsable
<1>1. TypeOK /\ AgreeInv => HeldPoolsUsable
  <2> SUFFICES ASSUME TypeOK, AgreeInv, NEW m \in Nodes, NEW c \in Cvns,
                      m # c, pools[m][c] # Nil
               PROVE  c \in cvns[m] /\ HasPublicNonce(pools[m][c], tip[m])
    BY Zenon DEF HeldPoolsUsable
  <2> DEFINE p == pools[m][c]
  <2>1. HeldOk(p, c, cvns[m], tip[m], net) /\ p \in Pool /\ tip[m] \in Blocks
    BY SMT, Z3 DEF AgreeInv, HeldInv, TypeOK
  <2> HIDE DEF p
  <2>2. /\ GetPoolAge(p, tip[m]) >= 0 /\ GetPoolAge(p, tip[m]) \in Int
        /\ GetPoolAge(p, tip[m]) < Len(p.vPublicNonces)
        /\ GetPoolAge(p, tip[m]) = Height[tip[m]] - Height[p.hashRootBlock]
        /\ p.nHeightAdded = Height[p.hashRootBlock]
    BY <2>1, AgeRange, Zenon DEF HeldOk
  <2>3. Len(p.vPublicNonces) \in Nat
    BY <2>1, LenIs, Zenon DEF Pool
  <2>4. PublicOffset(p, tip[m]) \in 0..(Len(p.vPublicNonces) - 1)
    BY <2>2, <2>3, SMT, Z3 DEF PublicOffset
  <2> QED BY <2>1, <2>4, Zenon DEF HeldOk, HasPublicNonce, p
<1> QED BY <1>1, TypeCorrect, AgreeCorrect, PTL
=============================================================================
