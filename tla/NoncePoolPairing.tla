--------------------------- MODULE NoncePoolPairing ---------------------------
(* A CVN and its own pool: what stays true of the pool, its private nonces   *)
(* and pool.dat, and the steps up to the set-up of the thread that keep it.  *)
EXTENDS NoncePoolProofs

\* No reorganisation: of two blocks one is an ancestor of the other.
OneChain == \A a, b \in Blocks : OnChain(a, b) \/ OnChain(b, a)

\* A node's CVN may be added to the network, and is not removed from it.
StaysRegistered ==
    \A a, b \in CvnBlocks :
        Height[a] <= Height[b] => Payload[a] \cap Nodes \subseteq Payload[b]

OwnConditions ==
    /\ OneChain
    /\ StaysRegistered
    /\ ~DeviceFails
    /\ ~QuickShutdown
    /\ MaxLag < PoolSize

\* The pools that a CVN has relayed.
Mine(n) == {p \in net : p.nCvnId = n}

\* The chain that ends at b has p's root.
Rooted(p, b) == p.hashRootBlock \in Blocks /\ Height[p.hashRootBlock] <= Height[b]

\* No nonce of p, a pool as it was made, is left for b.
Over(p, b) == Height[b] - Height[p.hashRootBlock] >= PoolSize

Newest(p, n) == \A q \in Mine(n) : q.nCreationTime <= p.nCreationTime

\* What n relays is whole, starts at a block that n's thread has handled, and
\* a later pool does not start at an earlier block.
MadeOk(n) ==
    /\ \A p \in Mine(n) :
          /\ Rooted(p, tip[n])
          /\ pc[n] # "top" => Rooted(p, prev[n])
          /\ Len(p.vPublicNonces) = PoolSize
          /\ p.msgSig = p.vPublicNonces
          /\ p.nCreationTime > 0
    /\ \A p, q \in Mine(n) :
          p.nCreationTime <= q.nCreationTime =>
             Height[p.hashRootBlock] <= Height[q.hashRootBlock]

\* The own pool is the last one relayed, in use, and paired.
Current(p, n) ==
    /\ Serialized(p) \in Mine(n)
    /\ p.nHeightAdded = Height[p.hashRootBlock]
    /\ priv[n] = p.vPublicNonces
    /\ ~Over(p, tip[n])
    /\ Newest(p, n)

\* All pools of n are used up, so none of them can come back to it.
NoneLeft(n) ==
    /\ \A q \in Mine(n) : Over(q, tip[n])
    /\ Len(priv[n]) <= Height[tip[n]]

HeldPair(n) ==
    inited[n] /\ pc[n] # "add" =>
        IF Real(pools[n][n]) THEN Current(pools[n][n], n) ELSE NoneLeft(n)

\* A pool that waits to be added is paired and replaces what is held by then.
AddPair(n) ==
    pc[n] = "add" =>
        /\ n \in cvns[n]
        /\ state[n] \in {"WAITING_FOR_BLOCK_PROPAGATION", "WAITING_FOR_CVN_DATA"}
        /\ pending[n].vPublicNonces = priv[n]
        /\ Len(priv[n]) = PoolSize
        /\ pending[n].hashRootBlock = prev[n]
        /\ pending[n].nCreationTime > 0
        /\ pools[n][n] # Nil => pools[n][n].nCreationTime < pending[n].nCreationTime

\* A parked pool of n itself is used up.
LaterOver(n) == later[n][n] # Nil => Over(later[n][n], tip[n])

\* pool.dat holds the last pool relayed, paired.
DiskPair(n) ==
    disk[n] # NoFile =>
        /\ disk[n].pool \in Mine(n)
        /\ disk[n].private = disk[n].pool.vPublicNonces
        /\ Newest(disk[n].pool, n)

\* n has never had a pool.
NeverMade(n) ==
    ~inited[n] /\ disk[n] = NoFile /\ Mine(n) = {} /\ pools[n][n] = Nil

ThreadPair(n) ==
    /\ clock[n] > 0
    /\ pools[n][n] # Nil => pools[n][n].nCreationTime < clock[n]
    /\ ~inited[n] /\ pc[n] # "add" => priv[n] = << >>
    /\ state[n] = "INIT" => pc[n] = "run"
    /\ state[n] \notin {"NOT_STARTED", "INIT", "WAITING_FOR_CVN_DATA"} => inited[n]
    /\ state[n] = "WAITING_FOR_CVN_DATA" => NeverMade(n)
    /\ n \notin cvns[n] => NeverMade(n) /\ pc[n] # "add"
    /\ pc[n] # "top" => /\ Height[prev[n]] <= Height[tip[n]]
                        /\ Height[tip[n]] - Height[prev[n]] <= MaxLag
    /\ \E a \in CvnBlocks : Height[a] <= Height[tip[n]] /\ cvns[n] = Payload[a]

PairOk(n) ==
    MadeOk(n) /\ HeldPair(n) /\ AddPair(n) /\ LaterOver(n) /\ DiskPair(n) /\ ThreadPair(n)

(* The inductive invariant behind OwnPaired. *)
PairInv == \A n \in Owners : PairOk(n)

\* A CVN that has handled its tip has a pool for that tip and Keep blocks more.
SignOk(n) ==
    /\ Height[last[n]] <= Height[tip[n]]
    /\ pc[n] # "top" /\ state[n] # "WAITING_FOR_CVN_DATA" => prev[n] = last[n]
    /\ state[n] = "CREATE_SIGNATURE" /\ Height[tip[n]] - Height[last[n]] <= Keep =>
          /\ Real(pools[n][n])
          /\ Height[last[n]] - Height[pools[n][n].hashRootBlock] + Keep < PoolSize

(* What SignIndexInRange needs on top of PairInv. *)
SignInv == \A n \in Owners : SignOk(n)

\* The nonce at offset k from height h was made for the height h + k.
Aligned(s, h) == \A i \in 1..Len(s) : s[i].height = h + i - 1

UsedOk(n) ==
    /\ \A p \in Mine(n) : Aligned(p.vPublicNonces, Height[p.hashRootBlock])
    /\ pc[n] = "add" => Aligned(priv[n], Height[prev[n]])
    /\ \A u \in used[n] : u[1].height = u[2]

(* What NonceUsedAtOneHeight needs on top of PairInv. *)
UsedInv == \A n \in Owners : UsedOk(n)
-----------------------------------------------------------------------------
(* Blocks and ages on one chain. *)

\* Heights order the blocks of one chain.
LEMMA ChainOrder ==
    ASSUME OneChain, NEW a \in Blocks, NEW b \in Blocks
    PROVE  /\ OnChain(a, b) <=> Height[a] <= Height[b]
           /\ Height[a] \in Nat
<1>1. Height[a] \in Nat /\ Height[b] \in Nat
  BY TreeConstants, Zenon
<1>2. ASSUME Height[a] <= Height[b], OnChain(b, a)
      PROVE  OnChain(a, b)
  <2>1. Height[a] = Height[b] /\ Chain[a][Height[b]] = b
    BY <1>1, <1>2, SMT, Z3 DEF OnChain
  <2>2. Chain[a][Height[a]] = a
    BY TreeConstants, Zenon
  <2>3. a = b
    BY <2>1, <2>2, Zenon
  <2> QED BY <1>2, <2>3, Zenon
<1> QED BY <1>1, <1>2, Zenon DEF OneChain, OnChain

\* A block that is connected is above the tip.
LEMMA ConnectAbove ==
    ASSUME OneChain, TypeOK, NEW n \in Nodes, NEW b \in Blocks, ConnectTip(n, b)
    PROVE  Height[tip[n]] < Height[b] /\ Height[tip[n]] \in Nat /\ Height[b] \in Nat
<1>1. tip[n] \in Blocks /\ ~OnChain(b, tip[n])
  BY Zenon DEF TypeOK, ConnectTip
<1> QED BY <1>1, ChainOrder, SMT, Z3

\* The age of a whole pool whose root is on the chain.
LEMMA WholeAge ==
    ASSUME OneChain, NEW p \in Pool, NEW b \in Blocks, Rooted(p, b),
           Len(p.vPublicNonces) = PoolSize
    PROVE  /\ GetPoolAge(p, b) < 0 <=> Over(p, b)
           /\ ~Over(p, b) => GetPoolAge(p, b) = Height[b] - Height[p.hashRootBlock]
           /\ Height[b] - Height[p.hashRootBlock] \in Nat
           /\ GetPoolAge(p, b) \in Int
<1>1. OnChain(p.hashRootBlock, b) /\ Height[b] \in Nat /\ Height[p.hashRootBlock] \in Nat
  BY ChainOrder, Zenon DEF Rooted
<1>2. Height[b] - Height[p.hashRootBlock] \in Nat /\ PoolSize \in Nat
  BY <1>1, PoolConstants, SMT, Z3 DEF Rooted
<1> QED BY <1>1, <1>2, SMT, Z3 DEF GetPoolAge, Over, Rooted

\* A parked pool that is used up, or stale, does not replace the entry.
LEMMA CheckedIsExpire ==
    ASSUME NEW mp, NEW ml, NEW reg, NEW b, NEW t, NEW c \in Cvns,
           ml[c] # Nil => \/ ~(GetPoolAge(ml[c], t) >= 0)
                          \/ Stale(ml[c], Expire(mp[c], reg, b))
    PROVE  /\ CheckedPools(mp, ml, reg, b, t)[c] = Expire(mp[c], reg, b)
           /\ CheckedLater(ml, b)[c] \in {Nil, ml[c]}
<1>1. CheckedLater(ml, b)[c] \in {Nil, ml[c]}
  BY Zenon DEF CheckedLater
<1>2. Reconsidered(ml[c], b) =>
         PoolEntry(ml[c], Expire(mp[c], reg, b), reg, t) = Expire(mp[c], reg, b)
  BY Zenon DEF Reconsidered, PoolEntry
<1> QED BY <1>1, <1>2, Zenon DEF CheckedPools

\* The pool that CreateNewNoncePool makes is paired when the recycled one was.
LEMMA NewPaired ==
    ASSUME TypeOK, NEW n \in Owners, NEW own \in Entry, NEW pr \in Seq(Nonces),
           Recycles(n, own, pr) => pr = own.vPublicNonces /\ Len(pr) = PoolSize
    PROVE  /\ NewPrivate(n, own, pr) = NewPool(n, own, pr).vPublicNonces
           /\ Len(NewPrivate(n, own, pr)) = PoolSize
           /\ RecycledEntry(n, own, pr) # Nil =>
                 /\ own # Nil
                 /\ RecycledEntry(n, own, pr).nCreationTime = own.nCreationTime
<1> DEFINE rec == RecycledPrivate(n, own, pr)
           fresh == FreshNonces(n, Len(rec), PoolSize)
<1>1. RecycledPublic(n, own, pr) = rec
  BY Zenon DEF RecycledPublic, RecycledPrivate
<1>2. NewPrivate(n, own, pr) = rec \o fresh
      /\ NewPool(n, own, pr).vPublicNonces = rec \o fresh
  BY <1>1, Zenon DEF NewPrivate, NewPool
<1>3. PoolSize \in Nat /\ Len(rec) \in Nat /\ rec \in Seq(Nonces)
  BY PoolConstants, NewPoolType, LenIs, Zenon
<1>4. Len(rec) <= PoolSize
  <2>1. CASE Recycles(n, own, pr)
    <3>1. own \in Pool /\ tip[n] \in Blocks /\ GetPoolAge(own, tip[n]) > 0
      BY <2>1, SMT, Z3 DEF Recycles, Entry, TypeOK, Owners
    <3>2. Len(Unused(own, tip[n], pr)) < Len(pr)
      BY <2>1, <3>1, UnusedType, Zenon
    <3> QED BY <1>3, <2>1, <3>2, SMT, Z3 DEF RecycledPrivate
  <2>2. CASE ~Recycles(n, own, pr)
    BY <1>3, <2>2, SMT, Z3 DEF RecycledPrivate
  <2> QED BY <2>1, <2>2, Zenon
<1> HIDE DEF rec
<1>5. fresh \in Seq(Nonces) /\ Len(fresh) = PoolSize - Len(rec)
  BY <1>3, <1>4, FreshType, SMT, Z3
<1> HIDE DEF fresh
<1>6. Len(rec \o fresh) = PoolSize
  <2>1. Len(rec \o fresh) = Len(rec) + Len(fresh)
    BY Zenon, <1>3, <1>5, ConcatIs
  <2> QED BY <1>3, <1>5, <2>1, SMT, Z3
<1>7. RecycledEntry(n, own, pr) # Nil =>
         /\ own # Nil
         /\ RecycledEntry(n, own, pr).nCreationTime = own.nCreationTime
  BY Zenon DEF RecycledEntry, Recycles, Entry, Pool
<1> QED BY <1>2, <1>6, <1>7, Zenon

\* The state of a CVN, its types, and the pools it has relayed.
LEMMA OwnFacts ==
    ASSUME TypeOK, AgreeInv, NEW n \in Owners
    PROVE  /\ n \in Nodes /\ n \in Cvns /\ n # NoCvn
           /\ tip[n] \in Blocks /\ prev[n] \in Blocks /\ last[n] \in Blocks
           /\ Height[tip[n]] \in Nat /\ Height[prev[n]] \in Nat /\ Height[last[n]] \in Nat
           /\ pools[n][n] \in Entry /\ later[n][n] \in Entry
           /\ priv[n] \in Seq(Nonces) /\ clock[n] \in Nat /\ cvns[n] \subseteq Cvns
           /\ \A p \in Mine(n) : /\ p \in Pool /\ p.nCvnId = n /\ p.nHeightAdded = 0
                                 /\ p.nCreationTime \in Nat
                                 /\ p.nCreationTime < clock[n]
                                 /\ p # EmptyPool
           /\ later[n][n] # Nil => later[n][n] \in Mine(n)
           /\ PoolSize \in Nat /\ Keep \in Nat /\ MaxLag \in Nat /\ PoolSize > 0
<1>1. n \in Nodes /\ n \in Cvns /\ n # NoCvn
  BY NullConstants, Zenon DEF Owners
<1>2. /\ tip[n] \in Blocks /\ prev[n] \in Blocks /\ last[n] \in Blocks
      /\ priv[n] \in Seq(Nonces) /\ clock[n] \in Nat /\ cvns[n] \subseteq Cvns
      /\ pools[n][n] \in Entry /\ later[n][n] \in Entry
  BY <1>1, PoolConstants, SMT, Z3 DEF TypeOK, Entry
<1>3. Height[tip[n]] \in Nat /\ Height[prev[n]] \in Nat /\ Height[last[n]] \in Nat
  BY <1>2, TreeConstants, Zenon
<1>4. ASSUME NEW p \in Mine(n)
      PROVE  /\ p \in Pool /\ p.nCvnId = n /\ p.nHeightAdded = 0
             /\ p.nCreationTime \in Nat
             /\ p.nCreationTime < clock[n]
             /\ p # EmptyPool
  <2>1. p \in net /\ p \in Pool /\ p.nCvnId = n
    BY Zenon DEF Mine, TypeOK
  <2>2. p.nCreationTime \in Nat
    BY <2>1, PoolConstants, SMT, Z3 DEF Pool
  <2>3. p # EmptyPool
    BY <1>1, <2>1, SMT, Z3 DEF EmptyPool
  <2> QED BY <2>1, <2>2, <2>3, Zenon DEF AgreeInv, NetOk
<1>5. later[n][n] # Nil => later[n][n] \in Mine(n)
  BY <1>1, Zenon DEF AgreeInv, LaterInv, Mine
<1> QED BY <1>1, <1>2, <1>3, <1>4, <1>5, PoolConstants, SMT, Z3

\* The genesis block is a block with a CVN payload.
LEMMA GenesisFacts ==
    Genesis \in CvnBlocks /\ Height[Genesis] <= Height[Genesis]
BY Heights, SMT, Z3

\* A clock that has gone on is ahead.
LEMMA NextIsGreater ==
    ASSUME NEW c \in Nat, NEW d, d = c + 1
    PROVE  d \in Nat /\ c < d
BY SMT, Z3

\* What pool.dat holds.
LEMMA FileFields ==
    ASSUME NEW p, NEW s, NEW d, d = [pool |-> p, private |-> s]
    PROVE  d.pool = p /\ d.private = s
BY Zenon

\* The numbers among them.
LEMMA OwnHeights ==
    ASSUME TypeOK, NEW n \in Owners
    PROVE  /\ Height[tip[n]] \in Nat /\ Height[prev[n]] \in Nat /\ Height[last[n]] \in Nat
           /\ PoolSize \in Nat /\ Keep \in Nat /\ MaxLag \in Nat /\ PoolSize > 0
<1>1. tip[n] \in Blocks /\ prev[n] \in Blocks /\ last[n] \in Blocks
  BY Zenon DEF TypeOK, Owners
<1> QED BY <1>1, PoolConstants, Heights, SMT, Z3

\* An iteration that begins at the active tip does not lag behind it.
LEMMA NoLag ==
    ASSUME TypeOK, NEW n \in Owners
    PROVE  /\ Height[tip[n]] <= Height[tip[n]]
           /\ Height[tip[n]] - Height[tip[n]] <= MaxLag
<1>1. Height[tip[n]] \in Nat /\ MaxLag \in Nat
  BY OwnHeights, Zenon
<1> QED BY <1>1, SMT, Z3

\* A pool of the configured size is within the size that AddNoncePool accepts.
LEMMA FullSize ==
    ASSUME NEW p, Len(p.vPublicNonces) = PoolSize
    PROVE  SizeOk(p)
BY PoolConstants, SMT, Z3 DEF SizeOk

\* The pools that a CVN has relayed have ages that follow from the heights.
LEMMA MineAge ==
    ASSUME OwnConditions, TypeOK, AgreeInv, NEW n \in Owners, MadeOk(n),
           NEW p \in Mine(n), NEW b \in Blocks, Height[tip[n]] <= Height[b]
    PROVE  /\ GetPoolAge(p, b) < 0 <=> Over(p, b)
           /\ GetPoolAge(p, b) >= 0 <=> ~Over(p, b)
           /\ Over(p, tip[n]) => Over(p, b)
           /\ \A q \in Mine(n) : q.nCreationTime <= p.nCreationTime /\ Over(p, b) => Over(q, b)
<1>1. p \in Pool /\ Rooted(p, tip[n]) /\ Len(p.vPublicNonces) = PoolSize /\ tip[n] \in Blocks
  BY OwnFacts, Zenon DEF MadeOk
<1>2. Height[b] \in Nat /\ \A q \in Mine(n) : Height[q.hashRootBlock] \in Nat
  BY TreeConstants, Zenon DEF MadeOk, Rooted
<1>3. Height[tip[n]] \in Nat /\ PoolSize \in Nat
  BY OwnFacts, Zenon
<1>4. Rooted(p, b)
  BY <1>1, <1>2, <1>3, SMT, Z3 DEF Rooted
<1>5. (GetPoolAge(p, b) < 0 <=> Over(p, b)) /\ GetPoolAge(p, b) \in Int
  BY <1>1, <1>4, WholeAge, Zenon DEF OwnConditions
<1>6. Over(p, tip[n]) => Over(p, b)
  BY <1>2, <1>3, SMT, Z3 DEF Over
<1>7. \A q \in Mine(n) : q.nCreationTime <= p.nCreationTime /\ Over(p, b) => Over(q, b)
  BY <1>2, <1>3, SMT, Z3 DEF Over, MadeOk
<1> QED BY <1>5, <1>6, <1>7, SMT, Z3

\* A pool in the map with the height of its root is the relayed one.
LEMMA AddedFields ==
    ASSUME NEW p \in Pool, p.nHeightAdded = 0, NEW h \in Nat, p.nCvnId \in Cvns
    PROVE  LET e == [p EXCEPT !.nHeightAdded = h]
           IN  /\ e \in Pool /\ Real(e) /\ Serialized(e) = p
               /\ e.nCvnId = p.nCvnId /\ e.hashRootBlock = p.hashRootBlock
               /\ e.vPublicNonces = p.vPublicNonces /\ e.msgSig = p.msgSig
               /\ e.nCreationTime = p.nCreationTime /\ e.nHeightAdded = h
<1> DEFINE e == [p EXCEPT !.nHeightAdded = h]
<1>1. /\ e \in Pool
      /\ e.nCvnId = p.nCvnId /\ e.hashRootBlock = p.hashRootBlock
      /\ e.vPublicNonces = p.vPublicNonces /\ e.msgSig = p.msgSig
      /\ e.nCreationTime = p.nCreationTime /\ e.nHeightAdded = h
  BY Zenon DEF Pool
<1>2. Serialized(e) = p
  BY Zenon DEF Serialized, Pool
<1>3. Real(e)
  <2> HIDE DEF e
  <2> QED BY <1>1, NilConstants, NullConstants, SMT, Z3 DEF Real, EmptyPool
<1> QED BY <1>1, <1>2, <1>3, Zenon

\* AddNoncePool takes the new pool although blocks have arrived since.
LEMMA NewEntry ==
    ASSUME OwnConditions, TypeOK, AgreeInv, NEW n \in Owners, NEW p \in Pool,
           NEW held \in Entry,
           p.nCvnId = n, n \in cvns[n], p.msgSig = p.vPublicNonces,
           Len(p.vPublicNonces) = PoolSize, p.hashRootBlock = prev[n],
           Height[prev[n]] <= Height[tip[n]], Height[tip[n]] - Height[prev[n]] <= MaxLag,
           held # Nil => held.nCreationTime < p.nCreationTime,
           NEW e, e = [p EXCEPT !.nHeightAdded = Height[prev[n]]]
    PROVE  /\ AddNoncePool(p, held, cvns[n])
           /\ PoolEntry(p, held, cvns[n], tip[n]) = e
           /\ LaterEntry(p, held, later[n][n], cvns[n], tip[n]) = later[n][n]
<1>1. SigValid(p, cvns[n])
  BY Zenon DEF SigValid
<1>2. ~Stale(p, held)
  <2>1. held # Nil => held.nCreationTime \in Int /\ p.nCreationTime \in Int
    BY PoolConstants, SMT, Z3 DEF Entry, Pool
  <2> QED BY <2>1, SMT, Z3 DEF Stale
<1>3. SizeOk(p)
  BY PoolConstants, SMT, Z3 DEF SizeOk
<1>4. Rooted(p, tip[n]) /\ tip[n] \in Blocks /\ ~Over(p, tip[n])
  BY OwnFacts, SMT, Z3 DEF Rooted, Over, OwnConditions
<1>5. GetPoolAge(p, tip[n]) = Height[tip[n]] - Height[prev[n]] /\ GetPoolAge(p, tip[n]) \in Nat
  BY <1>4, WholeAge, Zenon DEF OwnConditions
<1>6. Height[tip[n]] - GetPoolAge(p, tip[n]) = Height[prev[n]]
  BY <1>5, OwnHeights, SMT, Z3
<1>7. PoolEntry(p, held, cvns[n], tip[n]) = e
  BY <1>1, <1>2, <1>3, <1>5, <1>6, SMT, Z3 DEF PoolEntry
<1>8. LaterEntry(p, held, later[n][n], cvns[n], tip[n]) = later[n][n]
  BY <1>5, SMT, Z3 DEF LaterEntry
<1> QED BY <1>1, <1>3, <1>7, <1>8, Zenon DEF AddNoncePool

\* The state of a CVN that has just added, relayed and maybe saved a new pool.
LEMMA NewMade ==
    ASSUME OwnConditions, TypeOK, AgreeInv, NEW n \in Owners, PairOk(n), NEW p \in Pool,
           p.nCvnId = n, n \in cvns[n], p.nHeightAdded = 0, p.msgSig = p.vPublicNonces,
           Len(p.vPublicNonces) = PoolSize, p.nCreationTime > 0, p.hashRootBlock = prev[n],
           \A q \in Mine(n) : q.nCreationTime < p.nCreationTime,
           pc[n] # "top", pc'[n] = "top", inited'[n],
           state'[n] \notin {"INIT", "WAITING_FOR_CVN_DATA"},
           net' = net \cup {p}, tip'[n] = tip[n], cvns'[n] = cvns[n],
           NEW e, e = [p EXCEPT !.nHeightAdded = Height[prev[n]]], pools'[n][n] = e,
           later'[n][n] \in {Nil, later[n][n]},
           priv'[n] = p.vPublicNonces,
           disk'[n] = NoFile \/ disk'[n] = [pool |-> p, private |-> p.vPublicNonces],
           p.nCreationTime < clock'[n], clock'[n] \in Nat
    PROVE  PairOk(n)'
<1>1. Mine(n)' = Mine(n) \cup {p}
  BY Zenon DEF Mine
<1>2. /\ Height[prev[n]] <= Height[tip[n]] /\ Height[tip[n]] - Height[prev[n]] <= MaxLag
      /\ Height[prev[n]] \in Nat /\ Height[tip[n]] \in Nat /\ prev[n] \in Blocks
      /\ MaxLag < PoolSize /\ MaxLag \in Nat /\ PoolSize \in Nat /\ n \in Cvns
  BY OwnFacts, Zenon DEF PairOk, ThreadPair, OwnConditions
<1>3. /\ \A q \in Mine(n) : q.nCreationTime \in Nat /\ q \in Pool
      /\ p.nCreationTime \in Nat
  BY OwnFacts, PoolConstants, SMT, Z3 DEF Pool
<1>4. /\ Real(e) /\ Serialized(e) = p
      /\ e.hashRootBlock = prev[n] /\ e.vPublicNonces = p.vPublicNonces
      /\ e.nCreationTime = p.nCreationTime /\ e.nHeightAdded = Height[prev[n]]
  BY <1>2, AddedFields, SMT, Z3
<1>6. MadeOk(n)'
  <2>1. ASSUME NEW q \in Mine(n)'
        PROVE  /\ Rooted(q, tip'[n])
               /\ Len(q.vPublicNonces) = PoolSize
               /\ q.msgSig = q.vPublicNonces
               /\ q.nCreationTime > 0
    BY <1>1, <1>2, Zenon DEF PairOk, MadeOk, Rooted
  <2>2. ASSUME NEW q \in Mine(n)', NEW r \in Mine(n)', q.nCreationTime <= r.nCreationTime
        PROVE  Height[q.hashRootBlock] <= Height[r.hashRootBlock]
    <3>1. CASE q \in Mine(n) /\ r \in Mine(n)
      BY <2>2, <3>1, Zenon DEF PairOk, MadeOk
    <3>2. CASE q \in Mine(n) /\ r = p
      BY <3>2, Zenon DEF PairOk, MadeOk, Rooted
    <3>3. CASE q = p /\ r \in Mine(n)
      BY <1>3, <2>2, <3>3, SMT, Z3
    <3>4. CASE q = p /\ r = p
      BY <1>2, <3>4, SMT, Z3
    <3> QED BY <1>1, <3>1, <3>2, <3>3, <3>4, Zenon
  <2> QED BY <2>1, <2>2, Zenon DEF MadeOk
<1>7. Newest(p, n)' /\ Newest(e, n)'
  BY <1>1, <1>3, <1>4, SMT, Z3 DEF Newest
<1>8. HeldPair(n)'
  <2>1. ~Over(e, tip'[n])
    BY <1>2, <1>4, SMT, Z3 DEF Over
  <2>2. Current(e, n)'
    BY <1>1, <1>4, <1>7, <2>1, SMT, Z3 DEF Current
  <2> QED BY <1>4, <2>2, SMT, Z3 DEF HeldPair
<1>9. AddPair(n)' /\ LaterOver(n)'
  BY Zenon DEF AddPair, LaterOver, PairOk
<1>10. DiskPair(n)'
  BY <1>1, <1>7, SMT, Z3 DEF DiskPair
<1>11. ThreadPair(n)'
  BY <1>3, <1>4, SMT, Z3 DEF ThreadPair, PairOk
<1> QED BY <1>6, <1>8, <1>9, <1>10, <1>11, Zenon DEF PairOk
-----------------------------------------------------------------------------
(* The steps of the blocks, the messages and the other nodes. *)

\* A step that leaves the state of m and its relayed pools alone.
SameView(m) ==
    /\ tip'[m] = tip[m] /\ cvns'[m] = cvns[m]
    /\ pools'[m][m] = pools[m][m] /\ later'[m][m] = later[m][m]
    /\ priv'[m] = priv[m] /\ disk'[m] = disk[m] /\ inited'[m] = inited[m]
    /\ state'[m] = state[m] /\ pc'[m] = pc[m] /\ prev'[m] = prev[m] /\ last'[m] = last[m]
    /\ pending'[m] = pending[m] /\ clock'[m] = clock[m] /\ used'[m] = used[m]
    /\ Mine(m)' = Mine(m)

\* Such a step keeps what is said of m.
LEMMA FramePair ==
    ASSUME NEW m \in Owners, SameView(m)
    PROVE  /\ PairOk(m) => PairOk(m)'
           /\ SignOk(m) => SignOk(m)'
           /\ UsedOk(m) => UsedOk(m)'
<1>1. MadeOk(m) => MadeOk(m)'
  BY Zenon DEF SameView, MadeOk
<1>2. HeldPair(m) => HeldPair(m)'
  BY Zenon DEF SameView, HeldPair, Current, NoneLeft, Newest
<1>3. (AddPair(m) => AddPair(m)') /\ (LaterOver(m) => LaterOver(m)')
  BY Zenon DEF SameView, AddPair, LaterOver
<1>4. DiskPair(m) => DiskPair(m)'
  BY Zenon DEF SameView, DiskPair, Newest
<1>5. ThreadPair(m) => ThreadPair(m)'
  BY Zenon DEF SameView, ThreadPair, NeverMade
<1>6. SignOk(m) => SignOk(m)'
  BY Zenon DEF SameView, SignOk
<1>7. UsedOk(m) => UsedOk(m)'
  BY Zenon DEF SameView, UsedOk
<1> QED BY <1>1, <1>2, <1>3, <1>4, <1>5, <1>6, <1>7, Zenon DEF PairOk

\* A new tip above the old one.
LEMMA PairConnectTip ==
    ASSUME OwnConditions, TypeOK, AgreeInv, NEW n \in Owners, PairOk(n), SignOk(n),
           NEW b \in Blocks, ConnectTip(n, b)
    PROVE  PairOk(n)' /\ SignOk(n)'
<1> DEFINE reg == IF b \in CvnBlocks THEN Payload[b] ELSE cvns[n]
           own == pools[n][n]
<1> USE DEF PairOk
<1>1. /\ tip'[n] = b /\ cvns'[n] = reg /\ net' = net
      /\ pools'[n] = CheckedPools(pools[n], later[n], reg, b, b)
      /\ later'[n] = CheckedLater(later[n], b)
      /\ UNCHANGED <<priv, disk, inited, state, pc, prev, last, pending, clock>>
  <2>1. /\ tip' = [tip EXCEPT ![n] = b] /\ cvns' = [cvns EXCEPT ![n] = reg]
        /\ pools' = [pools EXCEPT ![n] = CheckedPools(pools[n], later[n], reg, b, b)]
        /\ later' = [later EXCEPT ![n] = CheckedLater(later[n], b)]
        /\ UNCHANGED <<net, priv, disk, inited, state, pc, prev, last, pending, clock>>
    BY Zenon DEF ConnectTip
  <2>2. /\ n \in DOMAIN tip /\ n \in DOMAIN cvns
        /\ n \in DOMAIN pools /\ n \in DOMAIN later
    BY OwnFacts, Zenon DEF TypeOK
  <2> HIDE DEF reg
  <2> QED BY <2>1, <2>2, Zenon
<1>2. Mine(n)' = Mine(n)
  BY <1>1, Zenon DEF Mine
<1>3. /\ Height[tip[n]] < Height[b] /\ Height[tip[n]] \in Nat /\ Height[b] \in Nat
      /\ Height[tip[n]] <= Height[b]
  BY OwnFacts, ConnectAbove, SMT, Z3 DEF OwnConditions
<1>4. n \in cvns[n] => n \in reg
  <2>1. PICK a \in CvnBlocks : Height[a] <= Height[tip[n]] /\ cvns[n] = Payload[a]
    BY Zenon DEF ThreadPair
  <2>2. ASSUME b \in CvnBlocks
        PROVE  Payload[a] \cap Nodes \subseteq Payload[b]
    <3>1. Height[a] \in Nat
      BY <2>1, <1>3, TreeConstants, Zenon
    <3> QED BY <1>3, <2>1, <2>2, <3>1, SMT, Z3 DEF OwnConditions, StaysRegistered
  <2> QED BY <2>1, <2>2, OwnFacts, Zenon
<1>5. \E a \in CvnBlocks : Height[a] <= Height[b] /\ reg = Payload[a]
  <2>1. PICK a \in CvnBlocks : Height[a] <= Height[tip[n]] /\ cvns[n] = Payload[a]
    BY Zenon DEF ThreadPair
  <2>2. CASE b \in CvnBlocks
    BY <1>3, <2>2, SMT, Z3
  <2>3. CASE b \notin CvnBlocks
    <3>1. Height[a] <= Height[b]
      BY <1>3, <2>1, Heights, SMT, Z3
    <3> QED BY <2>1, <2>3, <3>1, Zenon
  <2> QED BY <2>2, <2>3, Zenon
<1>6. \A p \in Mine(n) : /\ GetPoolAge(p, b) < 0 <=> Over(p, b)
                         /\ GetPoolAge(p, b) >= 0 <=> ~Over(p, b)
                         /\ Over(p, tip[n]) => Over(p, b)
                         /\ \A q \in Mine(n) :
                               q.nCreationTime <= p.nCreationTime /\ Over(p, b) => Over(q, b)
  BY <1>3, MineAge, Zenon
<1>7. pools'[n][n] = Expire(own, reg, b) /\ later'[n][n] \in {Nil, later[n][n]}
  <2>0. n \in Cvns
    BY OwnFacts, Zenon
  <2>1. later[n][n] # Nil => ~(GetPoolAge(later[n][n], b) >= 0)
    BY <1>6, OwnFacts, Zenon DEF LaterOver
  <2> HIDE DEF reg
  <2>2. /\ CheckedPools(pools[n], later[n], reg, b, b)[n] = Expire(pools[n][n], reg, b)
        /\ CheckedLater(later[n], b)[n] \in {Nil, later[n][n]}
    BY <2>1, <2>0, CheckedIsExpire, SMT, Z3
  <2> QED BY <1>1, <2>2, Zenon
<1>8. pools'[n][n] \in {Nil, own}
  BY <1>7, Zenon DEF Expire
<1>9. reg \subseteq Cvns
  BY OwnFacts, TreeConstants, Zenon
<1> HIDE DEF reg
<1>10. MadeOk(n)'
  <2>1. ASSUME NEW p \in Mine(n)
        PROVE  Rooted(p, b)
    <3>1. Height[p.hashRootBlock] \in Nat
      BY TreeConstants, Zenon DEF MadeOk, Rooted
    <3> QED BY <1>3, <3>1, SMT, Z3 DEF MadeOk, Rooted
  <2> QED BY <1>1, <1>2, <2>1, Zenon DEF MadeOk
<1>11. ASSUME inited[n], pc[n] # "add", Real(own)
       PROVE  /\ Current(own, n)
              /\ ~Over(own, b) => pools'[n][n] = own
              /\ Over(own, b) => pools'[n][n] = Nil
              /\ Over(own, b) <=> Over(Serialized(own), b)
              /\ own.nCreationTime = Serialized(own).nCreationTime
  <2>1. Current(own, n) /\ own \in Pool
    BY <1>11, OwnFacts, Zenon DEF HeldPair, Real, Entry
  <2>2. /\ Serialized(own).hashRootBlock = own.hashRootBlock
        /\ Serialized(own).nCvnId = own.nCvnId
        /\ own.nCreationTime = Serialized(own).nCreationTime
    BY <2>1, SerializedType, Zenon
  <2>3. Over(own, b) <=> Over(Serialized(own), b)
    BY <2>2, Zenon DEF Over
  <2>4. own.nCvnId = n /\ n \in reg
    <3>1. own.nCvnId = n
      BY <2>1, <2>2, OwnFacts, Zenon DEF Current
    <3>2. n \in cvns[n]
      BY <1>11, Zenon DEF ThreadPair, NeverMade
    <3> QED BY <1>4, <3>1, <3>2, Zenon
  <2>5. GetPoolAge(own, b) = GetPoolAge(Serialized(own), b)
    <3>1. 0 \in Nat
      BY Zenon
    <3> QED BY <2>1, <3>1, AgeOfAdded, Zenon DEF Serialized
  <2>6. GetPoolAge(own, b) < 0 <=> Over(own, b)
    BY <1>6, <2>1, <2>3, <2>5, SMT, Z3 DEF Current
  <2> QED BY <1>7, <1>11, <2>1, <2>2, <2>3, <2>4, <2>6, Zenon DEF Expire, Real
<1>12. ASSUME inited[n], pc[n] # "add", ~Real(own)
       PROVE  pools'[n][n] = Nil
  <2>1. own = EmptyPool => own.nCvnId \notin reg
    BY <1>9, NullConstants, SMT, Z3 DEF EmptyPool
  <2> QED BY <1>7, <1>12, <2>1, Zenon DEF Expire, Real
<1>13. HeldPair(n)'
  <2> SUFFICES ASSUME inited[n], pc[n] # "add"
               PROVE  IF Real(pools'[n][n]) THEN Current(pools[n][n], n)' ELSE NoneLeft(n)'
    BY <1>1, Zenon DEF HeldPair
  <2>1. CASE Real(own) /\ ~Over(own, b)
    <3>1. Current(own, n) /\ pools'[n][n] = own
      BY <1>11, <2>1, Zenon
    <3>2. /\ Serialized(pools'[n][n]) \in Mine(n)'
          /\ pools'[n][n].nHeightAdded = Height[pools'[n][n].hashRootBlock]
          /\ priv'[n] = pools'[n][n].vPublicNonces
          /\ ~Over(pools'[n][n], tip'[n])
          /\ \A q \in Mine(n)' : q.nCreationTime <= pools'[n][n].nCreationTime
      BY <1>1, <1>2, <2>1, <3>1, SMT, Z3 DEF Current, Newest
    <3> QED BY <2>1, <3>1, <3>2, Zenon DEF Current, Newest
  <2>2. CASE Real(own) /\ Over(own, b)
    <3>1. Current(own, n) /\ pools'[n][n] = Nil /\ Over(Serialized(own), b)
          /\ own.nCreationTime = Serialized(own).nCreationTime
      BY <1>11, <2>2, Zenon
    <3>2. \A q \in Mine(n) : Over(q, b)
      BY <1>6, <3>1, Zenon DEF Current, Newest
    <3>3. Len(priv[n]) <= Height[b]
      <4>1. Serialized(own) \in Mine(n) /\ own \in Pool
        BY <2>2, <3>1, OwnFacts, Zenon DEF Current, Real, Entry
      <4>2. Len(priv[n]) = PoolSize
        BY <3>1, <4>1, SerializedType, SMT, Z3 DEF Current, MadeOk
      <4>3. Height[Serialized(own).hashRootBlock] \in Nat
        BY <4>1, TreeConstants, Zenon DEF MadeOk, Rooted
      <4>4. Over(Serialized(own), b)
        BY <3>1, Zenon
      <4> QED BY <1>3, <4>2, <4>3, <4>4, OwnHeights, SMT, Z3 DEF Over
    <3> QED BY <1>1, <1>2, <3>1, <3>2, <3>3, Zenon DEF NoneLeft, Real
  <2>3. CASE ~Real(own)
    <3>1. pools'[n][n] = Nil /\ NoneLeft(n)
      BY <1>12, <2>3, Zenon DEF HeldPair
    <3>2. Len(priv[n]) \in Nat
      BY OwnFacts, LenIs, Zenon
    <3> QED BY <1>1, <1>2, <1>3, <1>6, <3>1, <3>2, SMT, Z3 DEF NoneLeft, Real
  <2> QED BY <2>1, <2>2, <2>3, Zenon
<1>14. AddPair(n)'
  BY <1>1, <1>4, <1>8, Zenon DEF AddPair
<1>15. LaterOver(n)'
  BY <1>1, <1>6, <1>7, OwnFacts, Zenon DEF LaterOver
<1>16. DiskPair(n)'
  BY <1>1, <1>2, Zenon DEF DiskPair, Newest
<1>17. ThreadPair(n)'
  <2>1. NeverMade(n) => NeverMade(n)'
    BY <1>1, <1>2, <1>8, Zenon DEF NeverMade
  <2>2. pc[n] # "top" => /\ Height[prev[n]] <= Height[b]
                         /\ Height[b] - Height[prev[n]] <= MaxLag
    <3>1. InIteration(n) => Height[b] - Height[prev[n]] <= MaxLag
      BY Zenon DEF ConnectTip
    <3>2. pc[n] # "top" => Height[prev[n]] <= Height[tip[n]] /\ InIteration(n)
      BY Zenon DEF ThreadPair, InIteration
    <3> QED BY <1>3, <3>1, <3>2, OwnHeights, SMT, Z3
  <2> QED BY <1>1, <1>4, <1>5, <1>8, <2>1, <2>2, Zenon DEF ThreadPair
<1>18. SignOk(n)'
  <2>1. Height[last[n]] \in Nat /\ Keep \in Nat /\ PoolSize \in Nat
    BY OwnFacts, Zenon
  <2>2. ASSUME state[n] = "CREATE_SIGNATURE", Height[b] - Height[last[n]] <= Keep
        PROVE  /\ Real(pools'[n][n])
               /\ Height[last[n]] - Height[pools'[n][n].hashRootBlock] + Keep < PoolSize
    <3>1. /\ Real(own)
          /\ Height[last[n]] - Height[own.hashRootBlock] + Keep < PoolSize
      BY <1>3, <2>1, <2>2, SMT, Z3 DEF SignOk
    <3>2. inited[n] /\ pc[n] # "add"
      BY <2>2, Zenon DEF ThreadPair, AddPair
    <3>3. Height[own.hashRootBlock] \in Nat
      <4>1. Serialized(own) \in Mine(n) /\ own \in Pool
        BY <1>11, <3>1, <3>2, OwnFacts, Zenon DEF Current, Real, Entry
      <4> QED BY <4>1, TreeConstants, SerializedType, Zenon DEF MadeOk, Rooted
    <3>4. ~Over(own, b)
      BY <1>3, <2>1, <2>2, <3>1, <3>3, SMT, Z3 DEF Over
    <3> QED BY <1>11, <3>1, <3>2, <3>4, Zenon
  <2>3. Height[last[n]] <= Height[b]
    BY <1>3, <2>1, SMT, Z3 DEF SignOk
  <2> QED BY <1>1, <2>2, <2>3, Zenon DEF SignOk
<1> QED BY <1>10, <1>13, <1>14, <1>15, <1>16, <1>17, <1>18, Zenon

\* A pool from the network: the CVN's own pools come back too late, or used up.
LEMMA PairReceive ==
    ASSUME OwnConditions, TypeOK, AgreeInv, NEW n \in Owners, PairOk(n), SignOk(n),
           NEW p \in net, ReceiveNoncePool(n, p)
    PROVE  PairOk(n)' /\ SignOk(n)'
<1> USE DEF PairOk
<1> DEFINE c == p.nCvnId
           own == pools[n][n]
           e == PoolEntry(p, own, cvns[n], tip[n])
           l == LaterEntry(p, own, later[n][n], cvns[n], tip[n])
<1>1. /\ UNCHANGED <<tip, cvns, net, priv, disk, inited, state, pc, prev, last, pending,
                     clock, used>>
      /\ c \in Cvns
      /\ SigValid(p, cvns[n])
  BY Zenon DEF ReceiveNoncePool, AddNoncePool
<1>2. Mine(n)' = Mine(n)
  BY <1>1, Zenon DEF Mine
<1>3. CASE c # n
  <2>1. pools'[n][n] = pools[n][n] /\ later'[n][n] = later[n][n]
    <3>1. \E x, y : /\ pools' = [pools EXCEPT ![n][c] = x]
                    /\ later' = [later EXCEPT ![n][c] = y]
      BY Zenon DEF ReceiveNoncePool
    <3>2. /\ pools \in [Nodes -> [Cvns -> Entry]] /\ later \in [Nodes -> [Cvns -> Entry]]
          /\ n \in Nodes /\ n \in Cvns
      BY TypeFacts, OwnFacts, Zenon
    <3> HIDE DEF c
    <3> QED BY <1>3, <3>1, <3>2, SMT, Z3
  <2>2. SameView(n)
    BY <1>1, <1>2, <2>1, Zenon DEF SameView
  <2> QED BY <2>2, FramePair, Zenon
<1>4. CASE c = n
  <2>1. pools'[n][n] = e /\ later'[n][n] = l
    BY <1>4, OwnFacts, Zenon DEF ReceiveNoncePool, TypeOK
  <2>2. p \in Mine(n) /\ tip[n] \in Blocks /\ p \in Pool /\ n \in cvns[n]
        /\ Height[tip[n]] <= Height[tip[n]]
    <3>1. p \in Mine(n) /\ n \in cvns[n]
      BY <1>1, <1>4, Zenon DEF Mine, SigValid
    <3>2. Height[tip[n]] <= Height[tip[n]]
      BY OwnHeights, SMT, Z3
    <3> QED BY <3>1, <3>2, OwnFacts, Zenon
  <2>3. /\ GetPoolAge(p, tip[n]) < 0 <=> Over(p, tip[n])
        /\ GetPoolAge(p, tip[n]) >= 0 <=> ~Over(p, tip[n])
    BY <2>2, MineAge, Zenon
  <2>4. e = own \/ e = [p EXCEPT !.nHeightAdded = Height[p.hashRootBlock]]
    BY <2>2, PoolEntryCases, SMT, Z3
  <2>5. e # Nil => e = own \/ e.nCreationTime = p.nCreationTime
    BY <2>2, <2>4, Zenon DEF Pool
  <2>6. l = later[n][n] \/ (l = p /\ Over(p, tip[n]))
    BY <2>3, Zenon DEF LaterEntry
  <2>7. ASSUME inited[n], pc[n] # "add"
        PROVE  e = own
    <3>1. CASE Real(own)
      <4>1. Stale(p, own)
        BY <1>4, <2>2, <2>7, <3>1, Zenon DEF HeldPair, Current, Newest, Stale, Real
      <4> QED BY <4>1, Zenon DEF PoolEntry
    <3>2. CASE ~Real(own)
      <4>1. ~(GetPoolAge(p, tip[n]) >= 0)
        BY <2>2, <2>3, <2>7, <3>2, Zenon DEF HeldPair, NoneLeft
      <4> QED BY <4>1, Zenon DEF PoolEntry
    <3> QED BY <3>1, <3>2, Zenon
  <2> HIDE DEF e, l
  <2>8. MadeOk(n)'
    BY <1>1, <1>2, Zenon DEF MadeOk
  <2>9. HeldPair(n)'
    BY <1>1, <1>2, <2>1, <2>7, SMT, Z3 DEF HeldPair, Current, NoneLeft, Newest
  <2>10. AddPair(n)'
    <3>1. pc[n] = "add" => p.nCreationTime < pending[n].nCreationTime
      BY <1>4, <2>2, Zenon DEF AgreeInv, PendingInv, PendingOk
    <3> QED BY <1>1, <2>1, <2>5, <3>1, Zenon DEF AddPair
  <2>11. LaterOver(n)'
    BY <1>1, <2>1, <2>6, Zenon DEF LaterOver
  <2>12. DiskPair(n)'
    BY <1>1, <1>2, Zenon DEF DiskPair, Newest
  <2>13. ThreadPair(n)'
    <3>1. p.nCreationTime < clock[n] /\ Mine(n) # {}
      BY <2>2, OwnFacts, Zenon
    <3>2. ~NeverMade(n)
      BY <3>1, Zenon DEF NeverMade
    <3> QED BY <1>1, <2>1, <2>2, <2>5, <3>1, <3>2, Zenon DEF ThreadPair
  <2>14. SignOk(n)'
    <3>1. state[n] = "CREATE_SIGNATURE" => inited[n] /\ pc[n] # "add"
      BY Zenon DEF ThreadPair, AddPair
    <3> QED BY <1>1, <2>1, <2>7, <3>1, Zenon DEF SignOk
  <2> QED BY <2>8, <2>9, <2>10, <2>11, <2>12, <2>13, <2>14, Zenon
<1> QED BY <1>3, <1>4, Zenon
-----------------------------------------------------------------------------
(* The steps of the CVN's thread. *)

\* The own pool, the file and the relayed pools stay, the thread moves on.
SameStore(n) ==
    /\ tip'[n] = tip[n] /\ cvns'[n] = cvns[n]
    /\ pools'[n][n] = pools[n][n] /\ later'[n][n] \in {Nil, later[n][n]}
    /\ priv'[n] = priv[n] /\ disk'[n] = disk[n] /\ inited'[n] = inited[n]
    /\ pending'[n] = pending[n] /\ clock'[n] = clock[n]
    /\ Mine(n)' = Mine(n)

\* Such a step keeps what is said of the pools.
LEMMA FrameStore ==
    ASSUME TypeOK, AgreeInv, NEW n \in Owners, PairOk(n), SameStore(n),
           pc[n] # "add", pc'[n] # "add", pc'[n] # "top" => prev'[n] = tip[n],
           state'[n] = "INIT" => pc'[n] = "run",
           state'[n] \notin {"NOT_STARTED", "INIT", "WAITING_FOR_CVN_DATA"} => inited[n],
           state'[n] = "WAITING_FOR_CVN_DATA" => NeverMade(n)
    PROVE  PairOk(n)'
<1> USE DEF PairOk
<1>1. MadeOk(n)'
  BY Zenon DEF MadeOk, SameStore
<1>2. HeldPair(n)'
  BY Zenon DEF HeldPair, SameStore, Current, NoneLeft, Newest
<1>3. AddPair(n)' /\ LaterOver(n)'
  BY Zenon DEF AddPair, LaterOver, SameStore
<1>4. DiskPair(n)'
  BY Zenon DEF DiskPair, SameStore, Newest
<1>5. ThreadPair(n)'
  <2>1. NeverMade(n) => NeverMade(n)'
    BY Zenon DEF NeverMade, SameStore
  <2>2. pc'[n] # "top" => /\ Height[prev'[n]] <= Height[tip'[n]]
                          /\ Height[tip'[n]] - Height[prev'[n]] <= MaxLag
    BY NoLag, Zenon DEF SameStore
  <2>3. /\ clock'[n] > 0
        /\ pools'[n][n] # Nil => pools'[n][n].nCreationTime < clock'[n]
        /\ ~inited'[n] => priv'[n] = << >>
        /\ n \notin cvns'[n] => NeverMade(n)
        /\ \E a \in CvnBlocks : Height[a] <= Height[tip'[n]] /\ cvns'[n] = Payload[a]
    BY Zenon DEF ThreadPair, SameStore
  <2>4. inited'[n] = inited[n]
    BY Zenon DEF SameStore
  <2> QED BY <2>1, <2>2, <2>3, <2>4, Zenon DEF ThreadPair
<1> QED BY <1>1, <1>2, <1>3, <1>4, <1>5, Zenon

\* RunPOCThread, the top of its loop, and its end.
LEMMA PairLoop ==
    ASSUME OwnConditions, TypeOK, AgreeInv, NEW n \in Owners, PairOk(n), SignOk(n),
           StartThread(n) \/ LoopTop(n) \/ StopThread(n)
    PROVE  PairOk(n)' /\ SignOk(n)'
<1> USE DEF PairOk
<1>1. UNCHANGED <<tip, cvns, pools, later, net, priv, disk, inited, pending, clock>>
  BY Zenon DEF StartThread, LoopTop, StopThread
<1>2. SameStore(n)
  BY <1>1, Zenon DEF SameStore, Mine
<1>3. Height[tip[n]] <= Height[tip[n]] /\ Height[Genesis] <= Height[tip[n]]
  BY OwnHeights, Heights, SMT, Z3
<1>4. CASE StartThread(n)
  <2>1. /\ state[n] = "NOT_STARTED" /\ state'[n] = "INIT" /\ pc'[n] = "run"
        /\ prev'[n] = tip[n] /\ last'[n] = tip[n]
    BY <1>4, Zenon DEF StartThread, TypeOK
  <2>2. pc[n] # "add"
    BY <2>1, Zenon DEF AddPair
  <2>3. PairOk(n)'
    BY <1>2, <2>1, <2>2, FrameStore, Zenon
  <2> QED BY <1>1, <1>3, <2>1, <2>3, Zenon DEF SignOk
<1>5. CASE LoopTop(n)
  <2>0. /\ pc \in [Owners -> {"top", "run", "add"}] /\ state \in [Owners -> States]
        /\ prev \in [Owners -> Blocks] /\ last \in [Owners -> Blocks]
    BY Zenon DEF TypeOK
  <2>1. pc[n] = "top" /\ state[n] # "NOT_STARTED" /\ pc'[n] = "run" /\ prev'[n] = tip[n]
    BY <1>5, <2>0, SMT, Z3 DEF LoopTop
  <2>2. \/ /\ state[n] # "WAITING_FOR_CVN_DATA" /\ last'[n] = tip[n]
           /\ state'[n] = "WAITING_FOR_BLOCK_PROPAGATION"
        \/ /\ state[n] # "WAITING_FOR_CVN_DATA" /\ tip[n] = last[n]
           /\ state'[n] = "CREATE_SIGNATURE_OVERDUE" /\ last'[n] = last[n]
        \/ /\ state[n] = "WAITING_FOR_CVN_DATA" \/ tip[n] = last[n]
           /\ state'[n] = state[n] /\ last'[n] = last[n]
    BY <1>5, <2>0, SMT, Z3 DEF LoopTop
  <2>3. state[n] # "INIT"
    BY <2>1, Zenon DEF ThreadPair
  <2>4. PairOk(n)'
    BY <1>2, <2>1, <2>2, <2>3, FrameStore, Zenon DEF ThreadPair
  <2> QED BY <1>1, <1>3, <2>1, <2>2, <2>4, Zenon DEF SignOk
<1>6. CASE StopThread(n)
  <2>1. /\ pc[n] = "top" /\ pc'[n] = "top" /\ state'[n] = "NOT_STARTED"
        /\ last'[n] = Genesis
    BY <1>6, Zenon DEF StopThread, TypeOK
  <2>2. PairOk(n)'
    BY <1>2, <2>1, FrameStore, Zenon
  <2> QED BY <1>1, <1>3, <2>1, <2>2, Zenon DEF SignOk
<1> QED BY <1>4, <1>5, <1>6, Zenon

\* handleInit finds in pool.dat the last pool that was relayed.
LEMMA PairUseSaved ==
    ASSUME OwnConditions, TypeOK, AgreeInv, NEW n \in Owners, PairOk(n), SignOk(n),
           HandleInit(n), UseSavedPool(n), n \in cvns[n],
           inited' = [inited EXCEPT ![n] = TRUE],
           state'[n] \in {"CREATE_SIGNATURE_OVERDUE", "WAITING_FOR_BLOCK_PROPAGATION"}
    PROVE  PairOk(n)' /\ SignOk(n)' /\ Mine(n)' = Mine(n)
<1> USE DEF PairOk
<1> DEFINE p == disk[n].pool
           e == PoolEntry(p, Nil, cvns[n], tip[n])
           own == IF e = Nil THEN EmptyPool ELSE e
           l == LaterEntry(p, Nil, later[n][n], cvns[n], tip[n])
<1>1. /\ pc[n] = "run" /\ pc'[n] = "top"
      /\ UNCHANGED <<tip, cvns, prev, last, pending, disk, clock>>
      /\ inited'[n] = TRUE
  BY Zenon DEF HandleInit, UseSavedPool, TypeOK
<1>2. /\ priv'[n] = disk[n].private
      /\ pools'[n][n] = own
      /\ later'[n][n] = l
      /\ net' = net \cup {Serialized(own)}
      /\ AddNoncePool(p, Nil, cvns[n]) /\ disk[n] # NoFile
  BY OwnFacts, Zenon DEF UseSavedPool, RelayNoncePool, TypeOK, FileUsable, FileReadable
<1>3. /\ p \in Mine(n) /\ p \in Pool /\ disk[n].private = p.vPublicNonces /\ Newest(p, n)
      /\ p.nHeightAdded = 0 /\ p.nCvnId = n /\ p.nCreationTime < clock[n]
      /\ n \in Cvns /\ tip[n] \in Blocks /\ Height[tip[n]] <= Height[tip[n]]
  <2>1. p \in Mine(n) /\ disk[n].private = p.vPublicNonces /\ Newest(p, n)
    BY <1>2, Zenon DEF DiskPair
  <2>2. Height[tip[n]] <= Height[tip[n]]
    BY OwnHeights, SMT, Z3
  <2> HIDE DEF p
  <2> QED BY <2>1, <2>2, OwnFacts, Zenon
<1> HIDE DEF p
<1>4. /\ GetPoolAge(p, tip[n]) < 0 <=> Over(p, tip[n])
      /\ GetPoolAge(p, tip[n]) >= 0 <=> ~Over(p, tip[n])
      /\ \A q \in Mine(n) : q.nCreationTime <= p.nCreationTime /\ Over(p, tip[n])
                               => Over(q, tip[n])
  BY <1>3, MineAge, Zenon
<1>5. /\ ~Over(p, tip[n]) => e = [p EXCEPT !.nHeightAdded = Height[p.hashRootBlock]]
      /\ Over(p, tip[n]) => e = Nil
  <2>1. SigValid(p, cvns[n]) /\ ~Stale(p, Nil) /\ SizeOk(p)
    BY <1>2, Zenon DEF AddNoncePool, Stale
  <2>2. ~Over(p, tip[n]) => e # Nil
    <3>1. e = IF GetPoolAge(p, tip[n]) >= 0
              THEN [p EXCEPT !.nHeightAdded = Height[tip[n]] - GetPoolAge(p, tip[n])]
              ELSE Nil
      BY <2>1, Zenon DEF PoolEntry
    <3>2. GetPoolAge(p, tip[n]) >= 0 =>
             Height[tip[n]] - GetPoolAge(p, tip[n]) = Height[p.hashRootBlock]
             /\ Height[p.hashRootBlock] \in Nat
      <4>1. Height[tip[n]] \in Nat
        BY OwnFacts, Zenon
      <4>2. GetPoolAge(p, tip[n]) >= 0 =>
               /\ p.hashRootBlock \in Blocks
               /\ GetPoolAge(p, tip[n]) = Height[tip[n]] - Height[p.hashRootBlock]
        BY <1>3, AgeRange, Zenon
      <4> QED BY <4>1, <4>2, Heights, SMT, Z3
    <3>3. \A h \in Nat : [p EXCEPT !.nHeightAdded = h] \in Pool
      BY <1>3, Zenon DEF Pool
    <3> QED BY <1>4, <3>1, <3>2, <3>3, NilConstants, Zenon
  <2>3. Over(p, tip[n]) => e = Nil
    BY <1>4, Zenon DEF PoolEntry
  <2> QED BY <1>3, <2>2, <2>3, PoolEntryCases, SMT, Z3
<1>6. Height[p.hashRootBlock] \in Nat /\ Len(p.vPublicNonces) = PoolSize
  BY <1>3, TreeConstants, Zenon DEF MadeOk, Rooted
<1>7. ASSUME ~Over(p, tip[n])
      PROVE  /\ own = [p EXCEPT !.nHeightAdded = Height[p.hashRootBlock]]
             /\ Real(own) /\ Serialized(own) = p /\ own.hashRootBlock = p.hashRootBlock
             /\ own.vPublicNonces = p.vPublicNonces /\ own.nCreationTime = p.nCreationTime
             /\ own.nHeightAdded = Height[p.hashRootBlock]
  <2>1. e = [p EXCEPT !.nHeightAdded = Height[p.hashRootBlock]]
    BY <1>5, <1>7, Zenon
  <2>2. /\ Real(e) /\ Serialized(e) = p /\ e.hashRootBlock = p.hashRootBlock
        /\ e.vPublicNonces = p.vPublicNonces /\ e.nCreationTime = p.nCreationTime
        /\ e.nHeightAdded = Height[p.hashRootBlock]
    BY <1>3, <1>6, <2>1, AddedFields, SMT, Z3
  <2> HIDE DEF e
  <2>3. own = e
    BY <2>2, Zenon DEF Real
  <2> QED BY <2>1, <2>2, <2>3, Zenon
<1>8. Over(p, tip[n]) => own = EmptyPool
  BY <1>5, Zenon
<1>9. Serialized(EmptyPool) = EmptyPool /\ EmptyPool.nCvnId # n /\ EmptyPool.nCreationTime = 0
  BY OwnFacts, SMT, Z3 DEF Serialized, EmptyPool
<1>10. l = later[n][n] \/ (l = p /\ Over(p, tip[n]))
  BY <1>4, Zenon DEF LaterEntry
<1> HIDE DEF e, own, l
<1>11. Mine(n)' = Mine(n)
  <2>1. Serialized(own) \in net \/ Serialized(own).nCvnId # n
    BY <1>3, <1>7, <1>8, <1>9, Zenon DEF Mine
  <2> QED BY <1>2, <2>1, Zenon DEF Mine
<1>12. MadeOk(n)'
  BY <1>1, <1>11, Zenon DEF MadeOk
<1>13. HeldPair(n)'
  <2>1. CASE ~Over(p, tip[n])
    <3>1. Current(pools[n][n], n)'
      <4>1. Serialized(pools'[n][n]) \in Mine(n)' /\ priv'[n] = pools'[n][n].vPublicNonces
        BY <1>2, <1>3, <1>7, <1>11, <2>1, SMT, Z3
      <4>2. ~Over(pools'[n][n], tip'[n])
        BY <1>1, <1>2, <1>7, <2>1, Zenon DEF Over
      <4>3. pools'[n][n].nHeightAdded = Height[pools'[n][n].hashRootBlock]
        BY <1>2, <1>7, <2>1, Zenon
      <4>4. \A q \in Mine(n)' : q.nCreationTime <= pools'[n][n].nCreationTime
        BY <1>2, <1>3, <1>7, <1>11, <2>1, Zenon DEF Newest
      <4> QED BY <4>1, <4>2, <4>3, <4>4, SMT, Z3 DEF Current, Newest
    <3>2. Real(pools'[n][n])
      BY <1>2, <1>7, <2>1, Zenon
    <3> QED BY <3>1, <3>2, Zenon DEF HeldPair
  <2>2. CASE Over(p, tip[n])
    <3>1. ~Real(pools'[n][n])
      BY <1>2, <1>8, <2>2, Zenon DEF Real
    <3>2. \A q \in Mine(n) : Over(q, tip[n])
      BY <1>3, <1>4, <2>2, Zenon DEF Newest
    <3>3. Len(priv'[n]) <= Height[tip[n]]
      <4>1. Len(priv'[n]) = PoolSize
        BY <1>2, <1>3, <1>6, Zenon
      <4>2. Height[tip[n]] \in Nat /\ PoolSize \in Nat
        BY OwnFacts, Zenon
      <4> QED BY <1>6, <2>2, <4>1, <4>2, SMT, Z3 DEF Over
    <3>4. NoneLeft(n)'
      BY <1>1, <1>11, <3>2, <3>3, Zenon DEF NoneLeft
    <3> QED BY <3>1, <3>4, Zenon DEF HeldPair
  <2> QED BY <2>1, <2>2, Zenon
<1>14. AddPair(n)' /\ LaterOver(n)'
  BY <1>1, <1>2, <1>10, Zenon DEF AddPair, LaterOver
<1>15. DiskPair(n)'
  BY <1>1, <1>11, Zenon DEF DiskPair, Newest
<1>16. ThreadPair(n)'
  <2>1. pools'[n][n].nCreationTime < clock[n]
    BY <1>2, <1>3, <1>7, <1>8, <1>9, Zenon DEF ThreadPair
  <2> QED BY <1>1, <2>1, Zenon DEF ThreadPair
<1>17. SignOk(n)'
  BY <1>1, Zenon DEF SignOk
<1> QED BY <1>11, <1>12, <1>13, <1>14, <1>15, <1>16, <1>17, SMT, Z3

\* Only a pool in use is recycled.
LEMMA RecyclesCurrent ==
    ASSUME TypeOK, AgreeInv, NEW n \in Owners, PairOk(n), pc[n] # "add",
           Recycles(n, pools[n][n], priv[n])
    PROVE  /\ pools[n][n] \in Pool /\ GetPoolAge(pools[n][n], tip[n]) > 0
           /\ Current(pools[n][n], n)
           /\ Len(priv[n]) = PoolSize
<1> USE DEF PairOk
<1> DEFINE own == pools[n][n]
           pr == priv[n]
<1>1. own \in Entry /\ pr \in Seq(Nonces) /\ tip[n] \in Blocks
  BY OwnFacts, Zenon
<1>2. own \in Pool /\ GetPoolAge(own, tip[n]) > 0 /\ Len(pr) = Len(own.vPublicNonces)
  BY <1>1, Zenon DEF Recycles, Entry
<1>3. own.hashRootBlock \in Blocks /\ Len(own.vPublicNonces) > 0
  <2>1. GetPoolAge(own, tip[n]) \in Int /\ Len(own.vPublicNonces) \in Nat
    BY <1>1, <1>2, AgeRange, LenIs, Zenon DEF Pool
  <2> HIDE DEF own
  <2> QED BY <1>1, <1>2, <2>1, AgeRange, SMT, Z3
<1>4. Real(own)
  BY <1>2, <1>3, NilConstants, NullConstants, SMT, Z3 DEF Real, EmptyPool
<1>5. Len(<< >>) = 0
  BY Zenon
<1>6. inited[n]
  BY <1>2, <1>3, <1>5, SMT, Z3 DEF ThreadPair
<1>7. Current(own, n)
  BY <1>4, <1>6, Zenon DEF HeldPair
<1>8. Len(Serialized(own).vPublicNonces) = PoolSize
  BY <1>7, Zenon DEF Current, MadeOk
<1>9. Serialized(own).vPublicNonces = own.vPublicNonces
  BY <1>2, SerializedType, Zenon
<1> QED BY <1>2, <1>7, <1>8, <1>9, Zenon

\* What CreateNewNoncePool makes from the own pool and the private nonces.
LEMMA NewPoolOk ==
    ASSUME TypeOK, AgreeInv, NEW n \in Owners, PairOk(n), pc[n] # "add"
    PROVE  LET p == NewPool(n, pools[n][n], priv[n])
               held == RecycledEntry(n, pools[n][n], priv[n])
           IN  /\ p \in Pool /\ p.nCvnId = n /\ p.nHeightAdded = 0
               /\ p.msgSig = p.vPublicNonces /\ Len(p.vPublicNonces) = PoolSize
               /\ p.nCreationTime = clock[n] /\ p.hashRootBlock = prev[n]
               /\ NewPrivate(n, pools[n][n], priv[n]) = p.vPublicNonces
               /\ held \in Entry
               /\ held # Nil => held.nCreationTime < clock[n]
<1> DEFINE own == pools[n][n]
           pr == priv[n]
<1>1. own \in Entry /\ pr \in Seq(Nonces) /\ tip[n] \in Blocks
  BY OwnFacts, Zenon
<1>2. Recycles(n, own, pr) => pr = own.vPublicNonces /\ Len(pr) = PoolSize
  BY RecyclesCurrent, Zenon DEF Current
<1>3. own # Nil => own.nCreationTime < clock[n]
  BY Zenon DEF ThreadPair, PairOk
<1> HIDE DEF own, pr
<1>4. /\ NewPrivate(n, own, pr) = NewPool(n, own, pr).vPublicNonces
      /\ Len(NewPrivate(n, own, pr)) = PoolSize
      /\ RecycledEntry(n, own, pr) # Nil =>
            own # Nil /\ RecycledEntry(n, own, pr).nCreationTime = own.nCreationTime
  BY <1>1, <1>2, NewPaired, Zenon
<1>5. RecycledEntry(n, own, pr) \in Entry /\ NewPool(n, own, pr) \in Pool
  BY <1>1, NewPoolType, Zenon
<1>6. RecycledEntry(n, own, pr) # Nil => RecycledEntry(n, own, pr).nCreationTime < clock[n]
  BY <1>3, <1>4, Zenon
<1>7. /\ NewPool(n, own, pr).nCvnId = n /\ NewPool(n, own, pr).nHeightAdded = 0
      /\ NewPool(n, own, pr).nCreationTime = clock[n]
      /\ NewPool(n, own, pr).hashRootBlock = prev[n]
      /\ NewPool(n, own, pr).msgSig = NewPool(n, own, pr).vPublicNonces
  BY Zenon DEF NewPool
<1>8. Len(NewPool(n, own, pr).vPublicNonces) = PoolSize
  BY <1>4, Zenon
<1> QED BY <1>4, <1>5, <1>6, <1>7, <1>8, Zenon DEF own, pr

\* handleInit without a pool.dat makes the first pool.
LEMMA PairCreateInitial ==
    ASSUME OwnConditions, TypeOK, AgreeInv, NEW n \in Owners, PairOk(n), SignOk(n),
           HandleInit(n), CreateInitialPool(n), n \in cvns[n],
           inited' = [inited EXCEPT ![n] = TRUE],
           state'[n] \in {"CREATE_SIGNATURE_OVERDUE", "WAITING_FOR_BLOCK_PROPAGATION"}
    PROVE  /\ PairOk(n)' /\ SignOk(n)'
           /\ Mine(n)' = Mine(n) \cup {NewPool(n, pools[n][n], priv[n])}
<1> USE DEF PairOk
<1>1. /\ pc[n] = "run" /\ pc'[n] = "top" /\ state[n] = "INIT"
      /\ UNCHANGED <<tip, cvns, prev, last, pending>>
      /\ inited'[n] = TRUE
  BY Zenon DEF HandleInit, TypeOK
<1>2. disk[n] = NoFile
  <2> SUFFICES ASSUME disk[n] # NoFile
               PROVE  FileUsable(n)
    BY Zenon DEF CreateInitialPool
  <2>1. /\ disk[n].pool \in Mine(n) /\ disk[n].private = disk[n].pool.vPublicNonces
    BY Zenon DEF DiskPair
  <2>2. /\ disk[n].pool.nCvnId = n /\ disk[n].pool.msgSig = disk[n].pool.vPublicNonces
        /\ Len(disk[n].pool.vPublicNonces) = PoolSize
    BY <2>1, OwnFacts, Zenon DEF MadeOk
  <2>3. SizeOk(disk[n].pool)
    BY <2>2, FullSize, Zenon
  <2> QED BY <2>1, <2>2, <2>3, Zenon DEF FileUsable, FileReadable, AddNoncePool, SigValid
<1>3. OwnAfterSetUp(n) = pools[n][n] /\ PrivateAfterSetUp(n) = priv[n]
  BY <1>2, Zenon DEF OwnAfterSetUp, PrivateAfterSetUp, FileReadable
<1> DEFINE p == NewPool(n, pools[n][n], priv[n])
           held == RecycledEntry(n, pools[n][n], priv[n])
           e == [p EXCEPT !.nHeightAdded = Height[prev[n]]]
<1>4. /\ p \in Pool /\ p.nCvnId = n /\ p.nHeightAdded = 0
      /\ p.msgSig = p.vPublicNonces /\ Len(p.vPublicNonces) = PoolSize
      /\ p.nCreationTime = clock[n] /\ p.hashRootBlock = prev[n]
      /\ NewPrivate(n, pools[n][n], priv[n]) = p.vPublicNonces
      /\ held \in Entry
      /\ held # Nil => held.nCreationTime < clock[n]
  BY <1>1, NewPoolOk, Zenon
<1>5. /\ pools'[n][n] = PoolEntry(p, held, cvns[n], tip[n])
      /\ later'[n][n] = LaterEntry(p, held, later[n][n], cvns[n], tip[n])
      /\ priv'[n] = NewPrivate(n, pools[n][n], priv[n])
      /\ clock'[n] = clock[n] + 1
  BY <1>3, OwnFacts, Zenon DEF CreateInitialPool, TypeOK
<1>6. AddNoncePool(p, held, cvns[n]) =>
         /\ SaveNoncesPool(n, PoolEntry(p, held, cvns[n], tip[n]),
                           NewPrivate(n, pools[n][n], priv[n]))
         /\ RelayNoncePool(n, p)
  BY <1>3, Zenon DEF CreateInitialPool
<1> HIDE DEF p, held
<1>7. /\ Height[prev[n]] <= Height[tip[n]] /\ Height[tip[n]] - Height[prev[n]] <= MaxLag
      /\ clock[n] > 0 /\ clock[n] \in Nat
      /\ \A q \in Mine(n) : q.nCreationTime < clock[n]
  BY <1>1, OwnFacts, Zenon DEF ThreadPair
<1>8. /\ AddNoncePool(p, held, cvns[n])
      /\ PoolEntry(p, held, cvns[n], tip[n]) = e
      /\ LaterEntry(p, held, later[n][n], cvns[n], tip[n]) = later[n][n]
  <2>1. held # Nil => held.nCreationTime < p.nCreationTime
    BY <1>4, Zenon
  <2>2. e = [p EXCEPT !.nHeightAdded = Height[prev[n]]]
    BY Zenon
  <2>3. p \in Pool /\ held \in Entry /\ p.nCvnId = n /\ p.msgSig = p.vPublicNonces
        /\ Len(p.vPublicNonces) = PoolSize /\ p.hashRootBlock = prev[n]
    BY <1>4, Zenon
  <2>4. Height[prev[n]] <= Height[tip[n]] /\ Height[tip[n]] - Height[prev[n]] <= MaxLag
    BY <1>7, Zenon
  <2> HIDE DEF e, PairOk
  <2> QED BY <2>1, <2>2, <2>3, <2>4, NewEntry, SMT, Z3
<1>9. Serialized(p) = p /\ Serialized(e) = p
  <2>1. Height[prev[n]] \in Nat /\ n \in Cvns
    BY OwnFacts, Zenon
  <2>2. Serialized(e) = p
    BY <1>4, <2>1, AddedFields, Zenon
  <2> QED BY <1>4, <2>2, Zenon DEF Serialized, Pool
<1>10. net' = net \cup {p}
  BY <1>6, <1>8, <1>9, Zenon DEF RelayNoncePool
<1>11. disk'[n] = NoFile \/ disk'[n] = [pool |-> p, private |-> p.vPublicNonces]
  <2>1. SaveNoncesPool(n, e, p.vPublicNonces)
    BY <1>4, <1>6, <1>8, Zenon
  <2> HIDE DEF e
  <2> QED BY <1>2, <1>9, <2>1, Zenon DEF SaveNoncesPool, TypeOK
<1>12. clock'[n] \in Nat /\ p.nCreationTime < clock'[n]
  <2>1. clock'[n] = clock[n] + 1 /\ p.nCreationTime = clock[n] /\ clock[n] \in Nat
    BY <1>4, <1>5, <1>7, Zenon
  <2> QED BY <2>1, NextIsGreater, Zenon
<1>13. priv'[n] = p.vPublicNonces /\ pools'[n][n] = e /\ later'[n][n] = later[n][n]
       /\ tip'[n] = tip[n] /\ cvns'[n] = cvns[n] /\ p.nCreationTime > 0
       /\ \A q \in Mine(n) : q.nCreationTime < p.nCreationTime
  BY <1>1, <1>4, <1>5, <1>7, <1>8, Zenon
<1> HIDE DEF e
<1>14. e = [p EXCEPT !.nHeightAdded = Height[prev[n]]]
  BY Zenon DEF e
<1>15. PairOk(n)'
  BY <1>1, <1>4, <1>10, <1>11, <1>12, <1>13, <1>14, NewMade, SMT, Z3
<1>16. SignOk(n)'
  BY <1>1, Zenon DEF SignOk
<1>17. Mine(n)' = Mine(n) \cup {p}
  BY <1>4, <1>10, Zenon DEF Mine
<1> QED BY <1>15, <1>16, <1>17, Zenon DEF p

\* handleInit.
LEMMA PairHandleInit ==
    ASSUME OwnConditions, TypeOK, AgreeInv, NEW n \in Owners, PairOk(n), SignOk(n),
           HandleInit(n)
    PROVE  PairOk(n)' /\ SignOk(n)'
<1> USE DEF PairOk
<1>1. pc[n] = "run" /\ pc'[n] = "top" /\ UNCHANGED <<tip, cvns, prev, last, pending>>
  BY Zenon DEF HandleInit, TypeOK
<1>2. CASE n \in cvns[n]
  <2>1. /\ UseSavedPool(n) \/ CreateInitialPool(n) \/ FailInitialPool(n)
        /\ inited' = [inited EXCEPT ![n] = TRUE]
        /\ state'[n] \in {"CREATE_SIGNATURE_OVERDUE", "WAITING_FOR_BLOCK_PROPAGATION"}
    BY <1>2, SMT, Z3 DEF HandleInit, TypeOK
  <2>2. ~FailInitialPool(n)
    BY Zenon DEF FailInitialPool, FailNewPool, OwnConditions
  <2> QED BY <1>2, <2>1, <2>2, PairUseSaved, PairCreateInitial, Zenon
<1>3. CASE n \notin cvns[n]
  <2>1. /\ state'[n] = "WAITING_FOR_CVN_DATA"
        /\ UNCHANGED <<pools, later, net, priv, disk, inited, clock>>
    BY <1>3, SMT, Z3 DEF HandleInit, TypeOK
  <2>2. SameStore(n)
    BY <1>1, <2>1, Zenon DEF SameStore, Mine
  <2>3. NeverMade(n)
    BY <1>3, Zenon DEF ThreadPair
  <2>4. PairOk(n)'
    BY <1>1, <2>1, <2>2, <2>3, FrameStore, SMT, Z3
  <2>5. SignOk(n)'
    BY <1>1, <2>1, Zenon DEF SignOk
  <2> QED BY <2>4, <2>5, Zenon
<1> QED BY <1>2, <1>3, Zenon
=============================================================================
