----------------------------- MODULE NoncePoolOwn -----------------------------
(* A CVN and its own pool: the steps of the thread's loop, and the proofs of *)
(* OwnPaired, SignIndexInRange and NonceUsedAtOneHeight, under the           *)
(* conditions under which they hold.                                         *)
EXTENDS NoncePoolPairing

\* A new pool is made; it is added in a later step.
LEMMA PairStartNew ==
    ASSUME OwnConditions, TypeOK, AgreeInv, NEW n \in Owners, PairOk(n), SignOk(n),
           StartNewPool(n), pc[n] = "run", n \in cvns[n],
           state[n] \in {"WAITING_FOR_BLOCK_PROPAGATION", "WAITING_FOR_CVN_DATA"},
           UNCHANGED <<tip, cvns, later, net, disk, inited, prev, last, state>>
    PROVE  PairOk(n)' /\ SignOk(n)'
<1> USE DEF PairOk
<1> DEFINE p == NewPool(n, pools[n][n], priv[n])
           held == RecycledEntry(n, pools[n][n], priv[n])
<1>1. /\ p.nCvnId = n /\ Len(p.vPublicNonces) = PoolSize
      /\ p.nCreationTime = clock[n] /\ p.hashRootBlock = prev[n]
      /\ NewPrivate(n, pools[n][n], priv[n]) = p.vPublicNonces
      /\ held \in Entry
      /\ held # Nil => held.nCreationTime < clock[n]
  BY NewPoolOk, Zenon
<1>2. /\ pending'[n] = p /\ pools'[n][n] = held /\ clock'[n] = clock[n] + 1
      /\ priv'[n] = NewPrivate(n, pools[n][n], priv[n]) /\ pc'[n] = "add"
  BY OwnFacts, SMT, Z3 DEF StartNewPool, TypeOK
<1>3. pools[n][n] = Nil => held = Nil
  BY Zenon DEF RecycledEntry, Recycles
<1> HIDE DEF p, held
<1>4. Mine(n)' = Mine(n)
  BY Zenon DEF Mine
<1>5. clock[n] \in Nat /\ clock[n] > 0
  BY OwnFacts, Zenon DEF ThreadPair
<1>6. MadeOk(n)' /\ HeldPair(n)'
  BY <1>2, <1>4, Zenon DEF MadeOk, HeldPair
<1>7. AddPair(n)'
  BY <1>1, <1>2, <1>5, Zenon DEF AddPair
<1>8. LaterOver(n)' /\ DiskPair(n)'
  BY <1>4, Zenon DEF LaterOver, DiskPair, Newest
<1>9. ThreadPair(n)'
  <2>1. NeverMade(n) => NeverMade(n)'
    BY <1>2, <1>3, <1>4, Zenon DEF NeverMade
  <2>2. held # Nil => held.nCreationTime < clock'[n] /\ clock'[n] > 0
    <3>1. held # Nil => held.nCreationTime \in Int
      BY <1>1, PoolConstants, SMT, Z3 DEF Entry, Pool
    <3> QED BY <1>1, <1>2, <1>5, <3>1, SMT, Z3
  <2>3. clock'[n] > 0
    BY <1>2, <1>5, SMT, Z3
  <2> QED BY <1>2, <2>1, <2>2, <2>3, Zenon DEF ThreadPair
<1>10. SignOk(n)'
  BY Zenon DEF SignOk
<1> QED BY <1>6, <1>7, <1>8, <1>9, <1>10, Zenon

\* What equals a natural number is not negative.
LEMMA NotNegative ==
    ASSUME NEW x, NEW y, x = y, y \in Nat
    PROVE  x >= 0 /\ ~(x < 0)
BY SMT, Z3

\* The age of an own pool in use, at the block that the thread works on.
LEMMA CurrentAge ==
    ASSUME OwnConditions, TypeOK, AgreeInv, NEW n \in Owners, PairOk(n),
           Real(pools[n][n]), Current(pools[n][n], n), pc[n] # "top"
    PROVE  /\ GetPoolAge(pools[n][n], prev[n])
                = Height[prev[n]] - Height[pools[n][n].hashRootBlock]
           /\ GetPoolAge(pools[n][n], prev[n]) >= 0
           /\ ~(GetPoolAge(pools[n][n], prev[n]) < 0)
           /\ Len(pools[n][n].vPublicNonces) = PoolSize
           /\ pools[n][n].nCvnId = n
           /\ Height[pools[n][n].hashRootBlock] \in Nat
<1> DEFINE own == pools[n][n]
           p == Serialized(own)
<1>1. own \in Pool /\ p \in Mine(n) /\ ~Over(own, tip[n])
  BY OwnFacts, Zenon DEF Current, Real, Entry
<1>2. p \in Pool /\ p.nCvnId = n /\ Rooted(p, prev[n]) /\ Len(p.vPublicNonces) = PoolSize
  BY <1>1, OwnFacts, Zenon DEF PairOk, MadeOk
<1>3. /\ p.hashRootBlock = own.hashRootBlock /\ p.vPublicNonces = own.vPublicNonces
      /\ p.nCvnId = own.nCvnId
  BY <1>1, SerializedType, Zenon
<1>4. Rooted(own, prev[n]) /\ Len(own.vPublicNonces) = PoolSize /\ own.nCvnId = n
  BY <1>2, <1>3, Zenon DEF Rooted
<1>5. Height[own.hashRootBlock] \in Nat
  BY <1>4, Heights, Zenon DEF Rooted
<1>6. Height[prev[n]] <= Height[tip[n]] /\ prev[n] \in Blocks
      /\ Height[prev[n]] \in Nat /\ Height[tip[n]] \in Nat /\ PoolSize \in Nat
  BY OwnFacts, Zenon DEF PairOk, ThreadPair
<1> HIDE DEF own, p
<1>7. ~Over(own, prev[n])
  BY <1>1, <1>5, <1>6, SMT, Z3 DEF Over
<1>8. /\ GetPoolAge(own, prev[n]) = Height[prev[n]] - Height[own.hashRootBlock]
      /\ Height[prev[n]] - Height[own.hashRootBlock] \in Nat
  BY <1>1, <1>4, <1>6, <1>7, WholeAge, SMT, Z3 DEF OwnConditions
<1>9. GetPoolAge(own, prev[n]) >= 0 /\ ~(GetPoolAge(own, prev[n]) < 0)
  BY <1>8, NotNegative, Zenon
<1> QED BY <1>4, <1>5, <1>8, <1>9, Zenon DEF own

\* handleWaitingForBlockPropagation.
LEMMA PairBlockPropagation ==
    ASSUME OwnConditions, TypeOK, AgreeInv, NEW n \in Owners, PairOk(n), SignOk(n),
           HandleBlockPropagation(n)
    PROVE  PairOk(n)' /\ SignOk(n)'
<1> USE DEF PairOk
<1> DEFINE own == pools[n][n]
<1>1. /\ pc[n] = "run" /\ state[n] = "WAITING_FOR_BLOCK_PROPAGATION"
      /\ UNCHANGED <<tip, cvns, net, disk, inited, prev, last>>
  BY Zenon DEF HandleBlockPropagation
<1>2. inited[n] /\ n \in cvns[n]
  BY <1>1, Zenon DEF ThreadPair, NeverMade
<1>3. CASE NeedsNewPool(n) /\ StartNewPool(n) /\ UNCHANGED <<later, state>>
  BY <1>1, <1>2, <1>3, PairStartNew, Zenon
<1>4. CASE /\ NeedsNewPool(n) => FailNewPool(n, pools[n][n], priv[n])
           /\ ~NeedsNewPool(n) => UNCHANGED <<priv, clock>>
           /\ pools' = [pools EXCEPT ![n] =
                  CheckedPools(TrimmedPools(n), later[n], cvns[n], prev[n], tip[n])]
           /\ later' = [later EXCEPT ![n] = CheckedLater(@, prev[n])]
           /\ state' = [state EXCEPT ![n] = "CREATE_SIGNATURE"]
           /\ pc' = [pc EXCEPT ![n] = "top"]
           /\ UNCHANGED pending
  <2>1. ~NeedsNewPool(n) /\ UNCHANGED <<priv, clock, pending>>
    BY <1>4, Zenon DEF FailNewPool, OwnConditions
  <2>2. /\ pools'[n] = CheckedPools(pools[n], later[n], cvns[n], prev[n], tip[n])
        /\ later'[n] = CheckedLater(later[n], prev[n])
        /\ state'[n] = "CREATE_SIGNATURE" /\ pc'[n] = "top"
    BY <1>4, <2>1, OwnFacts, SMT, Z3 DEF TrimmedPools, TypeOK
  <2>3. /\ own # Nil
        /\ ~(GetPoolAge(own, prev[n]) + Keep >= Len(own.vPublicNonces))
        /\ ~(GetPoolAge(own, prev[n]) < 0 /\ Keep = 0)
    BY <2>1, Zenon DEF NeedsNewPool
  <2>4. own # EmptyPool
    <3> SUFFICES ASSUME own = EmptyPool
                 PROVE  FALSE
      BY Zenon
    <3>1. GetPoolAge(own, prev[n]) = -1 /\ own.vPublicNonces = << >>
      BY NullConstants, SMT, Z3 DEF GetPoolAge, EmptyPool
    <3>2. Keep \in Nat /\ Len(<< >>) = 0
      BY OwnFacts, Zenon
    <3> HIDE DEF own
    <3> QED BY <2>3, <3>1, <3>2, SMT, Z3
  <2>5. Real(own) /\ Current(own, n)
    <3>1. Real(own)
      BY <2>3, <2>4, Zenon DEF Real
    <3> QED BY <1>1, <1>2, <3>1, Zenon DEF HeldPair
  <2>6. /\ GetPoolAge(own, prev[n]) = Height[prev[n]] - Height[own.hashRootBlock]
        /\ GetPoolAge(own, prev[n]) >= 0
        /\ Len(own.vPublicNonces) = PoolSize /\ own.nCvnId = n
        /\ ~(GetPoolAge(own, prev[n]) < 0)
        /\ Height[own.hashRootBlock] \in Nat
    BY <1>1, <2>5, CurrentAge, Zenon
  <2>7. Expire(own, cvns[n], prev[n]) = own
    BY <1>2, <2>6, Zenon DEF Expire
  <2>8. pools'[n][n] = own /\ later'[n][n] \in {Nil, later[n][n]}
    <3>1. later[n][n] # Nil => ~(GetPoolAge(later[n][n], tip[n]) >= 0)
      <4>1. Height[tip[n]] <= Height[tip[n]] /\ tip[n] \in Blocks
        BY OwnFacts, SMT, Z3
      <4> QED BY <4>1, OwnFacts, MineAge, Zenon DEF LaterOver
    <3>2. n \in Cvns
      BY OwnFacts, Zenon
    <3>3. /\ CheckedPools(pools[n], later[n], cvns[n], prev[n], tip[n])[n]
                = Expire(pools[n][n], cvns[n], prev[n])
          /\ CheckedLater(later[n], prev[n])[n] \in {Nil, later[n][n]}
      BY <3>1, <3>2, CheckedIsExpire, SMT, Z3
    <3> QED BY <2>2, <2>7, <3>3, Zenon
  <2>9. SameStore(n)
    BY <1>1, <2>1, <2>8, Zenon DEF SameStore, Mine
  <2>10. PairOk(n)'
    BY <1>1, <1>2, <2>2, <2>9, FrameStore, Zenon
  <2>11. SignOk(n)'
    <3>1. prev[n] = last[n]
      BY <1>1, Zenon DEF SignOk
    <3>2. Height[last[n]] - Height[own.hashRootBlock] + Keep < PoolSize
      <4>1. /\ Height[last[n]] \in Nat /\ Height[own.hashRootBlock] \in Nat
            /\ Keep \in Nat /\ PoolSize \in Nat
        BY <2>6, OwnHeights, Zenon
      <4>2. ~(Height[last[n]] - Height[own.hashRootBlock] + Keep >= PoolSize)
        BY <2>3, <2>6, <3>1, Zenon
      <4> HIDE DEF own
      <4> QED BY <4>1, <4>2, SMT, Z3
    <3>3. /\ last'[n] = last[n] /\ tip'[n] = tip[n] /\ pc'[n] = "top"
          /\ pools'[n][n] = own
      BY <1>1, <2>2, <2>8, Zenon
    <3>4. Height[last[n]] <= Height[tip[n]]
      BY Zenon DEF SignOk
    <3> HIDE DEF own
    <3> QED BY <2>5, <3>2, <3>3, <3>4, Zenon DEF SignOk
  <2> QED BY <2>10, <2>11, Zenon
<1> QED BY <1>2, <1>3, <1>4, SMT, Z3 DEF HandleBlockPropagation

\* handleWaitingForCvnData.
LEMMA PairCvnData ==
    ASSUME OwnConditions, TypeOK, AgreeInv, NEW n \in Owners, PairOk(n), SignOk(n),
           HandleCvnData(n)
    PROVE  PairOk(n)' /\ SignOk(n)'
<1> USE DEF PairOk
<1>1. /\ pc[n] = "run" /\ state[n] = "WAITING_FOR_CVN_DATA"
      /\ UNCHANGED <<tip, cvns, later, net, disk, prev, last>>
  BY Zenon DEF HandleCvnData
<1>2. CASE /\ pc' = [pc EXCEPT ![n] = "top"]
           /\ UNCHANGED <<pools, priv, clock, pending, state, inited>>
  <2>1. SameStore(n) /\ pc'[n] = "top"
    BY <1>1, <1>2, SMT, Z3 DEF SameStore, Mine, TypeOK
  <2>2. NeverMade(n)
    BY <1>1, Zenon DEF ThreadPair
  <2>3. PairOk(n)'
    BY <1>1, <1>2, <2>1, <2>2, FrameStore, SMT, Z3
  <2>4. SignOk(n)'
    BY <1>1, <1>2, <2>1, Zenon DEF SignOk
  <2> QED BY <2>3, <2>4, Zenon
<1>3. CASE n \in cvns[n] /\ StartNewPool(n) /\ UNCHANGED <<state, inited>>
  BY <1>1, <1>3, PairStartNew, Zenon
<1>4. ~FailNewPool(n, pools[n][n], priv[n])
  BY Zenon DEF FailNewPool, OwnConditions
<1> QED BY <1>2, <1>3, <1>4, Zenon DEF HandleCvnData

\* The pool that was made is added, relayed and saved.
LEMMA PairFinish ==
    ASSUME OwnConditions, TypeOK, AgreeInv, NEW n \in Owners, PairOk(n), SignOk(n),
           FinishNewPool(n)
    PROVE  PairOk(n)' /\ SignOk(n)' /\ Mine(n)' = Mine(n) \cup {pending[n]}
<1> USE DEF PairOk
<1> DEFINE p == pending[n]
           own == pools[n][n]
           e == [p EXCEPT !.nHeightAdded = Height[prev[n]]]
           mp == [pools[n] EXCEPT ![n] = e]
           kept == PoolEntry(p, own, cvns[n], tip[n])
<1>1. /\ pc[n] = "add" /\ pc'[n] = "top"
      /\ UNCHANGED <<tip, cvns, priv, prev, last, clock>>
  <2>1. /\ pc[n] = "add" /\ pc' = [pc EXCEPT ![n] = "top"]
        /\ UNCHANGED <<tip, cvns, priv, prev, last, clock>>
    BY Zenon DEF FinishNewPool
  <2>2. n \in DOMAIN pc
    BY Zenon DEF TypeOK
  <2> QED BY <2>1, <2>2, Zenon
<1>2. /\ p \in Pool /\ p.nCvnId = n /\ p.nHeightAdded = 0 /\ p.msgSig = p.vPublicNonces
      /\ p.nCreationTime < clock[n]
      /\ \A q \in Mine(n) : q.nCreationTime < p.nCreationTime
  BY <1>1, SMT, Z3 DEF AgreeInv, PendingInv, PendingOk, TypeOK, Mine
<1>3. /\ n \in cvns[n] /\ p.vPublicNonces = priv[n] /\ Len(p.vPublicNonces) = PoolSize
      /\ p.hashRootBlock = prev[n] /\ p.nCreationTime > 0
      /\ own # Nil => own.nCreationTime < p.nCreationTime
  BY <1>1, Zenon DEF AddPair
<1>4. /\ Height[prev[n]] <= Height[tip[n]] /\ Height[tip[n]] - Height[prev[n]] <= MaxLag
      /\ Height[prev[n]] \in Nat /\ n \in Cvns /\ n \in Nodes /\ prev[n] \in Blocks
      /\ own \in Entry
  BY <1>1, OwnFacts, Zenon DEF ThreadPair
<1>5. /\ AddNoncePool(p, own, cvns[n]) /\ kept = e
      /\ LaterEntry(p, own, later[n][n], cvns[n], tip[n]) = later[n][n]
  <2>1. e = [p EXCEPT !.nHeightAdded = Height[prev[n]]]
    BY Zenon
  <2>2. /\ p \in Pool /\ own \in Entry /\ p.nCvnId = n /\ p.msgSig = p.vPublicNonces
        /\ Len(p.vPublicNonces) = PoolSize /\ p.hashRootBlock = prev[n] /\ n \in cvns[n]
        /\ own # Nil => own.nCreationTime < p.nCreationTime
    BY <1>2, <1>3, <1>4, Zenon
  <2>3. Height[prev[n]] <= Height[tip[n]] /\ Height[tip[n]] - Height[prev[n]] <= MaxLag
    BY <1>4, Zenon
  <2> HIDE DEF e, p, own, PairOk
  <2> QED BY <2>1, <2>2, <2>3, NewEntry, SMT, Z3 DEF kept
<1>6. SaveNoncesPool(n, kept, priv[n]) /\ RelayNoncePool(n, p)
  BY <1>5, Zenon DEF FinishNewPool
<1>7. /\ e \in Pool /\ Real(e) /\ Serialized(e) = p /\ Serialized(p) = p
      /\ e.nCvnId = n /\ e.hashRootBlock = prev[n] /\ e.vPublicNonces = p.vPublicNonces
  <2>1. /\ e \in Pool /\ Real(e) /\ Serialized(e) = p
        /\ e.nCvnId = n /\ e.hashRootBlock = prev[n] /\ e.vPublicNonces = p.vPublicNonces
    <3> HIDE DEF p
    <3> QED BY <1>2, <1>3, <1>4, AddedFields, SMT, Z3
  <2>2. Serialized(p) = p
    <3> HIDE DEF p
    <3> QED BY <1>2, Zenon DEF Serialized, Pool
  <2> QED BY <2>1, <2>2, Zenon
<1>8. net' = net \cup {p}
  BY <1>6, <1>7, SMT, Z3 DEF RelayNoncePool
<1>9. [later[n] EXCEPT ![n] = LaterEntry(p, own, @, cvns[n], tip[n])] = later[n]
  BY <1>4, <1>5, SMT, Z3 DEF TypeOK
<1>10. \/ /\ state[n] = "WAITING_FOR_BLOCK_PROPAGATION"
          /\ pools'[n] = CheckedPools(mp, later[n], cvns[n], prev[n], tip[n])
          /\ later'[n] = CheckedLater(later[n], prev[n])
          /\ state'[n] = "CREATE_SIGNATURE"
          /\ UNCHANGED inited
       \/ /\ state[n] = "WAITING_FOR_CVN_DATA"
          /\ pools'[n] = mp
          /\ later'[n] = later[n]
          /\ state'[n] = "WAITING_FOR_BLOCK_PROPAGATION"
          /\ inited'[n] = TRUE
  <2>1. \/ /\ state[n] = "WAITING_FOR_BLOCK_PROPAGATION"
           /\ pools' = [pools EXCEPT ![n] = CheckedPools(mp, later[n], cvns[n], prev[n], tip[n])]
           /\ later' = [later EXCEPT ![n] = CheckedLater(later[n], prev[n])]
           /\ state' = [state EXCEPT ![n] = "CREATE_SIGNATURE"]
           /\ UNCHANGED inited
        \/ /\ state[n] = "WAITING_FOR_CVN_DATA"
           /\ pools' = [pools EXCEPT ![n] = mp]
           /\ later' = [later EXCEPT ![n] = later[n]]
           /\ state' = [state EXCEPT ![n] = "WAITING_FOR_BLOCK_PROPAGATION"]
           /\ inited' = [inited EXCEPT ![n] = TRUE]
    <3>1. mp = [pools[n] EXCEPT ![n] = kept]
      BY <1>5, Zenon
    <3> HIDE DEF mp
    <3> QED BY Zenon, <1>9, <3>1 DEF FinishNewPool
  <2> HIDE DEF mp
  <2> QED BY <1>4, <2>1, SMT, Z3 DEF TypeOK
<1>11. mp[n] = e
  BY <1>4, SMT, Z3 DEF TypeOK
<1>12. disk'[n] = NoFile \/ disk'[n] = [pool |-> p, private |-> p.vPublicNonces]
  <2>1. SaveNoncesPool(n, e, p.vPublicNonces)
    BY <1>3, <1>5, <1>6, Zenon
  <2> HIDE DEF e, p
  <2>2. CASE inited[n]
    BY <1>7, <2>1, <2>2, SMT, Z3 DEF SaveNoncesPool, TypeOK, Real
  <2>3. CASE ~inited[n]
    <3>1. disk[n] = NoFile
      BY <1>1, <2>3, SMT, Z3 DEF AddPair, ThreadPair, NeverMade
    <3> QED BY <2>1, <2>3, <3>1, Zenon DEF SaveNoncesPool
  <2> QED BY <2>2, <2>3, Zenon
<1> HIDE DEF kept, mp, e, p
<1>13. pools'[n][n] = e /\ later'[n][n] \in {Nil, later[n][n]}
  <2>1. CASE state[n] = "WAITING_FOR_BLOCK_PROPAGATION"
    <3>1. later[n][n] # Nil => ~(GetPoolAge(later[n][n], tip[n]) >= 0)
      <4>1. Height[tip[n]] <= Height[tip[n]] /\ tip[n] \in Blocks
        BY OwnFacts, SMT, Z3
      <4> QED BY <4>1, OwnFacts, MineAge, Zenon DEF LaterOver
    <3>2. /\ CheckedPools(mp, later[n], cvns[n], prev[n], tip[n])[n]
                = Expire(mp[n], cvns[n], prev[n])
          /\ CheckedLater(later[n], prev[n])[n] \in {Nil, later[n][n]}
      BY <1>4, <3>1, CheckedIsExpire, SMT, Z3
    <3>3. Expire(e, cvns[n], prev[n]) = e
      <4>1. Rooted(e, prev[n]) /\ ~Over(e, prev[n])
        BY <1>4, <1>7, OwnFacts, SMT, Z3 DEF Rooted, Over
      <4>2. ~(GetPoolAge(e, prev[n]) < 0)
        BY <1>3, <1>4, <1>7, <4>1, WholeAge, Zenon DEF OwnConditions
      <4> QED BY <1>3, <1>7, <4>2, Zenon DEF Expire
    <3>4. /\ pools'[n] = CheckedPools(mp, later[n], cvns[n], prev[n], tip[n])
          /\ later'[n] = CheckedLater(later[n], prev[n])
      BY <1>10, <2>1, Zenon
    <3> QED BY <1>11, <3>2, <3>3, <3>4, Zenon
  <2>2. CASE state[n] = "WAITING_FOR_CVN_DATA"
    BY <1>10, <1>11, <2>2, Zenon
  <2> QED BY <1>10, <2>1, <2>2, Zenon
<1>14. inited'[n] /\ state'[n] \in {"CREATE_SIGNATURE", "WAITING_FOR_BLOCK_PROPAGATION"}
  BY <1>10, Zenon DEF ThreadPair
<1>15. clock'[n] \in Nat /\ p.nCreationTime < clock'[n]
  BY <1>1, <1>2, OwnFacts, Zenon
<1>16. e = [p EXCEPT !.nHeightAdded = Height[prev[n]]]
  BY Zenon DEF e
<1>17. PairOk(n)'
  BY <1>1, <1>2, <1>3, <1>8, <1>12, <1>13, <1>14, <1>15, <1>16, NewMade, SMT, Z3
<1>18. SignOk(n)'
  <2>1. state'[n] = "CREATE_SIGNATURE" => prev[n] = last[n]
    BY <1>1, <1>10, Zenon DEF SignOk
  <2>2. Height[prev[n]] - Height[prev[n]] + Keep < PoolSize
    BY <1>4, PoolConstants, SMT, Z3
  <2> QED BY <1>1, <1>7, <1>13, <2>1, <2>2, Zenon DEF SignOk
<1>19. Mine(n)' = Mine(n) \cup {p}
  BY <1>2, <1>8, Zenon DEF Mine
<1> QED BY <1>17, <1>18, <1>19, Zenon DEF p

\* CvnSignPartial leaves at most an empty entry behind.
LEMMA PairSign ==
    ASSUME OwnConditions, TypeOK, AgreeInv, NEW n \in Owners, PairOk(n), SignOk(n), Sign(n)
    PROVE  PairOk(n)' /\ SignOk(n)'
<1> USE DEF PairOk
<1>1. /\ pc[n] = "run" /\ pc'[n] = "top"
      /\ state[n] \in {"CREATE_SIGNATURE", "CREATE_SIGNATURE_OVERDUE"}
      /\ UNCHANGED <<tip, cvns, later, net, priv, disk, inited, state, prev, last,
                     pending, clock>>
  BY Zenon DEF Sign, TypeOK
<1>2. pools'[n][n] = pools[n][n] \/ (pools[n][n] = Nil /\ pools'[n][n] = EmptyPool)
  <2>1. n \in Nodes /\ n \in Cvns
    BY OwnFacts, Zenon
  <2> QED BY <2>1, SMT, Z3 DEF Sign, TypeOK
<1>3. Mine(n)' = Mine(n)
  BY <1>1, Zenon DEF Mine
<1>4. inited[n] /\ n \in cvns[n]
  BY <1>1, Zenon DEF ThreadPair, NeverMade
<1>5. MadeOk(n)'
  BY <1>1, <1>3, Zenon DEF MadeOk
<1>6. HeldPair(n)'
  <2>1. CASE pools'[n][n] = pools[n][n]
    BY <1>1, <1>3, <2>1, Zenon DEF HeldPair, Current, NoneLeft, Newest
  <2>2. CASE pools[n][n] = Nil /\ pools'[n][n] = EmptyPool
    BY <1>1, <1>3, <1>4, <2>2, Zenon DEF HeldPair, NoneLeft, Real
  <2> QED BY <1>2, <2>1, <2>2, Zenon
<1>7. AddPair(n)' /\ LaterOver(n)'
  BY <1>1, Zenon DEF AddPair, LaterOver
<1>8. DiskPair(n)'
  BY <1>1, <1>3, Zenon DEF DiskPair, Newest
<1>9. ThreadPair(n)'
  <2>1. pools'[n][n] # Nil => pools'[n][n].nCreationTime < clock[n]
    <3>1. EmptyPool.nCreationTime = 0
      BY Zenon DEF EmptyPool
    <3> QED BY <1>2, <3>1, Zenon DEF ThreadPair
  <2> QED BY <1>1, <1>4, <2>1, Zenon DEF ThreadPair
<1>10. SignOk(n)'
  BY <1>1, <1>2, SMT, Z3 DEF SignOk, Real
<1> QED BY <1>5, <1>6, <1>7, <1>8, <1>9, <1>10, SMT, Z3

\* A restart; a shutdown saves a pool that is paired.
LEMMA PairRestart ==
    ASSUME OwnConditions, TypeOK, AgreeInv, NEW n \in Owners, PairOk(n), SignOk(n),
           Crash(n) \/ Shutdown(n)
    PROVE  PairOk(n)' /\ SignOk(n)'
<1> USE DEF PairOk
<1>0. Restart(n)
  BY Zenon DEF Crash, Shutdown
<1>1. /\ pools'[n][n] = Nil /\ later'[n][n] = Nil /\ priv'[n] = << >> /\ inited'[n] = FALSE
      /\ state'[n] = "NOT_STARTED" /\ pc'[n] = "top" /\ last'[n] = Genesis
      /\ UNCHANGED <<tip, cvns, net, clock>>
  <2>1. n \in Nodes /\ n \in Cvns
    BY OwnFacts, Zenon
  <2>2. pools'[n][n] = Nil /\ later'[n][n] = Nil
    BY <1>0, <2>1, Zenon DEF Restart, TypeOK
  <2>3. /\ priv'[n] = << >> /\ inited'[n] = FALSE /\ state'[n] = "NOT_STARTED"
        /\ pc'[n] = "top" /\ last'[n] = Genesis
    BY <1>0, Zenon DEF Restart, TypeOK
  <2>4. UNCHANGED <<tip, cvns, net, clock>>
    BY <1>0, Zenon DEF Restart
  <2> QED BY <2>2, <2>3, <2>4, Zenon
<1>2. Mine(n)' = Mine(n)
  BY <1>1, Zenon DEF Mine
<1>3. \/ disk'[n] = disk[n]
      \/ /\ inited[n] /\ pc[n] = "top" /\ Real(pools[n][n])
         /\ disk'[n] = [pool |-> Serialized(pools[n][n]), private |-> priv[n]]
  <2>1. CASE Crash(n)
    BY <2>1, Zenon DEF Crash
  <2>2. CASE Shutdown(n)
    BY <2>2, Zenon DEF Shutdown, SaveNoncesPool, OwnConditions, Real, TypeOK
  <2> QED BY <2>1, <2>2, Zenon
<1>4. MadeOk(n)' /\ HeldPair(n)' /\ AddPair(n)' /\ LaterOver(n)'
  BY <1>1, <1>2, Zenon DEF MadeOk, HeldPair, AddPair, LaterOver
<1>5. DiskPair(n)'
  <2>1. CASE disk'[n] = disk[n]
    BY <1>2, <2>1, Zenon DEF DiskPair, Newest
  <2>2. CASE /\ inited[n] /\ pc[n] = "top" /\ Real(pools[n][n])
             /\ disk'[n] = [pool |-> Serialized(pools[n][n]), private |-> priv[n]]
    <3>1. Current(pools[n][n], n) /\ pools[n][n] \in Pool
      BY <2>2, OwnFacts, Zenon DEF HeldPair, Real, Entry
    <3>2. disk'[n].pool = Serialized(pools[n][n]) /\ disk'[n].private = priv[n]
      <4> DEFINE s == Serialized(pools[n][n])
      <4>1. disk'[n] = [pool |-> s, private |-> priv[n]]
        BY <2>2, Zenon
      <4> HIDE DEF s, PairOk
      <4>2. disk'[n].pool = s /\ disk'[n].private = priv[n]
        BY <4>1, FileFields, SMT, Z3
      <4> QED BY <4>2, Zenon DEF s
    <3>3. /\ Serialized(pools[n][n]).vPublicNonces = pools[n][n].vPublicNonces
          /\ Serialized(pools[n][n]).nCreationTime = pools[n][n].nCreationTime
      BY <3>1, SerializedType, Zenon
    <3> QED BY <1>2, <3>1, <3>2, <3>3, Zenon DEF DiskPair, Newest, Current
  <2> QED BY <1>3, <2>1, <2>2, Zenon
<1>6. ThreadPair(n)'
  <2>1. n \notin cvns[n] => NeverMade(n)'
    BY <1>1, <1>2, <1>3, Zenon DEF ThreadPair, NeverMade
  <2> QED BY <1>1, <2>1, Zenon DEF ThreadPair
<1>7. SignOk(n)'
  <2>1. Height[Genesis] <= Height[tip[n]]
    BY OwnFacts, Heights, SMT, Z3
  <2> QED BY <1>1, <2>1, Zenon DEF SignOk
<1> QED BY <1>4, <1>5, <1>6, <1>7, Zenon

-----------------------------------------------------------------------------
(* All steps. *)

\* A node adds only pools of its own, or the empty one, to the network.
LEMMA OthersMine ==
    ASSUME NEW n \in Nodes, NEW m \in Owners, m # n, NEW p, p.nCvnId \in {n, NoCvn},
           net' = net \/ net' = net \cup {p}
    PROVE  Mine(m)' = Mine(m)
BY NullConstants, Zenon DEF Mine, Owners

\* A pool that n makes is not seen in the state of a CVN that runs elsewhere.
LEMMA OthersStart ==
    ASSUME TypeOK, NEW n \in Owners, NEW m \in Owners, m # n, StartNewPool(n)
    PROVE  /\ pools'[m] = pools[m] /\ priv'[m] = priv[m] /\ clock'[m] = clock[m]
           /\ pending'[m] = pending[m] /\ pc'[m] = pc[m]
<1>1. /\ m \in DOMAIN pools /\ m \in DOMAIN priv /\ m \in DOMAIN clock
      /\ m \in DOMAIN pending /\ m \in DOMAIN pc
  BY Zenon DEF TypeOK, Owners
<1> QED BY <1>1, Zenon DEF StartNewPool

\* Neither is one that its device fails to make.
LEMMA OthersFail ==
    ASSUME TypeOK, NEW n \in Owners, NEW m \in Owners, m # n,
           NEW own, NEW pr, FailNewPool(n, own, pr)
    PROVE  priv'[m] = priv[m] /\ clock'[m] = clock[m]
<1>1. m \in DOMAIN priv /\ m \in DOMAIN clock
  BY Zenon DEF TypeOK, Owners
<1> QED BY <1>1, Zenon DEF FailNewPool

\* What a node does is not seen in the state of a CVN that runs elsewhere.
LEMMA OthersSame ==
    ASSUME TypeOK, AgreeInv, NEW n \in Nodes, NEW m \in Owners, m # n,
           \/ NodeStep(n)
           \/ n \in Owners /\ (ThreadStep(n) \/ ProcessStep(n))
    PROVE  SameView(m)
<1>0. /\ m \in Nodes /\ m \in Cvns
      /\ m \in DOMAIN pools /\ m \in DOMAIN later /\ m \in DOMAIN state
      /\ m \in DOMAIN pc /\ m \in DOMAIN inited
  BY Zenon DEF Owners, TypeOK
<1>1. CASE NodeStep(n)
  <2>1. net' = net
    <3>1. ASSUME NEW b \in Blocks, ConnectTip(n, b)
          PROVE  net' = net
      BY <3>1, Zenon DEF ConnectTip
    <3>2. ASSUME NEW p \in net, ReceiveNoncePool(n, p)
          PROVE  net' = net
      BY <3>2, Zenon DEF ReceiveNoncePool
    <3> QED BY <1>1, <3>1, <3>2, Zenon DEF NodeStep
  <2>2. /\ tip'[m] = tip[m] /\ cvns'[m] = cvns[m]
        /\ pools'[m] = pools[m] /\ later'[m] = later[m]
        /\ UNCHANGED <<priv, disk, inited, state, pc, prev, last, pending, clock, used>>
    BY <1>0, <1>1, Zenon DEF NodeStep, ConnectTip, ReceiveNoncePool, TypeOK
  <2> QED BY <2>1, <2>2, Zenon DEF SameView, Mine
<1>2. CASE n \in Owners /\ StartThread(n)
  BY <1>0, <1>2, Zenon DEF StartThread, SameView, Mine, TypeOK
<1>3. CASE n \in Owners /\ LoopTop(n)
  <2>1. UNCHANGED <<tip, cvns, pools, later, relay, net, priv, disk, inited,
                    pending, clock, used>>
    BY <1>3, SMT, Z3 DEF LoopTop
  <2>2. state'[m] = state[m] /\ pc'[m] = pc[m] /\ prev'[m] = prev[m] /\ last'[m] = last[m]
    <3>1. /\ state \in [Owners -> States] /\ pc \in [Owners -> {"top", "run", "add"}]
          /\ prev \in [Owners -> Blocks] /\ last \in [Owners -> Blocks]
      BY Zenon DEF TypeOK
    <3> QED BY <1>0, <1>3, <3>1, Zenon DEF LoopTop
  <2> QED BY <2>1, <2>2, Zenon DEF SameView, Mine
<1>4. CASE n \in Owners /\ HandleInit(n)
  <2>1. /\ UNCHANGED <<tip, cvns, prev, last, pending, used>>
        /\ pc'[m] = pc[m] /\ inited'[m] = inited[m] /\ state'[m] = state[m]
    BY <1>4, SMT, Z3 DEF HandleInit, TypeOK
  <2>2. CASE UseSavedPool(n)
    <3> DEFINE e == PoolEntry(disk[n].pool, Nil, cvns[n], tip[n])
               own == IF e = Nil THEN EmptyPool ELSE e
    <3>1. /\ pools'[m] = pools[m] /\ later'[m] = later[m] /\ priv'[m] = priv[m]
          /\ UNCHANGED <<disk, clock>>
      BY <1>0, <1>4, <2>2, Zenon DEF UseSavedPool, TypeOK
    <3>2. net' = net \cup {Serialized(own)}
      BY <2>2, Zenon DEF UseSavedPool, RelayNoncePool
    <3>3. own.nCvnId \in {n, NoCvn} /\ own \in Pool
      <4>1. disk[n].pool \in Pool /\ disk[n].pool.nCvnId = n /\ tip[n] \in Blocks
        <5>1. disk[n] # NoFile /\ disk[n].pool.nCvnId = n
          BY <2>2, Zenon DEF UseSavedPool, FileUsable, FileReadable
        <5>2. /\ disk[n] \in [pool : Pool, private : Seq(Nonces)] \cup {NoFile}
              /\ tip[n] \in Blocks
          BY <1>4, Zenon DEF TypeOK, Owners
        <5>3. disk[n] \in [pool : Pool, private : Seq(Nonces)]
          BY <5>1, <5>2, Zenon
        <5>4. disk[n].pool \in Pool
          BY <5>3, Zenon
        <5> QED BY <5>1, <5>2, <5>4, Zenon
      <4>2. \/ e = Nil
            \/ e \in Pool /\ e = [disk[n].pool EXCEPT !.nHeightAdded =
                                     Height[disk[n].pool.hashRootBlock]]
        BY <4>1, PoolEntryCases, SMT, Z3
      <4>3. e # Nil => e \in Pool /\ e.nCvnId = n
        BY <4>1, <4>2, Zenon DEF Pool
      <4>4. EmptyPool.nCvnId = NoCvn /\ EmptyPool \in Pool
        BY EmptyPoolType, Zenon DEF EmptyPool
      <4> HIDE DEF e
      <4> QED BY <4>3, <4>4, Zenon
    <3> HIDE DEF own
    <3>4. Mine(m)' = Mine(m)
      BY <3>2, <3>3, SerializedType, OthersMine, SMT, Z3
    <3> QED BY <2>1, <3>1, <3>4, SMT, Z3 DEF SameView
  <2>3. CASE CreateInitialPool(n)
    <3> DEFINE p == NewPool(n, OwnAfterSetUp(n), PrivateAfterSetUp(n))
    <3>1. /\ pools'[m] = pools[m] /\ later'[m] = later[m] /\ priv'[m] = priv[m]
          /\ clock'[m] = clock[m]
      BY <1>0, <1>4, <2>3, SMT, Z3 DEF CreateInitialPool, TypeOK
    <3>2. /\ disk'[m] = disk[m]
          /\ net' = net \/ net' = net \cup {Serialized(p)}
      BY <1>4, <2>3, Zenon DEF CreateInitialPool, SaveNoncesPool, RelayNoncePool, TypeOK
    <3>3. Serialized(p).nCvnId = n
      BY Zenon DEF Serialized, NewPool
    <3> HIDE DEF p
    <3>4. Mine(m)' = Mine(m)
      BY <3>2, <3>3, OthersMine, SMT, Z3
    <3> QED BY <2>1, <3>1, <3>2, <3>4, Zenon DEF SameView
  <2>4. CASE FailInitialPool(n)
    <3>1. /\ pools'[m] = pools[m] /\ UNCHANGED <<later, net, disk>>
          /\ clock'[m] = clock[m] /\ priv'[m] = priv[m]
      BY <1>0, <1>4, <2>4, Zenon DEF FailInitialPool, FailNewPool, TypeOK
    <3> QED BY <2>1, <3>1, Zenon DEF SameView, Mine
  <2>5. CASE UNCHANGED <<pools, later, relay, net, priv, disk, inited, clock>>
    BY <2>1, <2>5, Zenon DEF SameView, Mine
  <2>6. \/ UseSavedPool(n) \/ CreateInitialPool(n) \/ FailInitialPool(n)
        \/ UNCHANGED <<pools, later, relay, net, priv, disk, inited, clock>>
    BY <1>4, Zenon DEF HandleInit
  <2> QED BY <2>2, <2>3, <2>4, <2>5, <2>6, Zenon
<1>5. CASE n \in Owners /\ HandleBlockPropagation(n)
  <2>1. /\ UNCHANGED <<tip, cvns, net, disk, inited, prev, last, used>>
    BY <1>5, Zenon DEF HandleBlockPropagation
  <2>2. /\ pools'[m] = pools[m] /\ later'[m] = later[m] /\ priv'[m] = priv[m]
        /\ clock'[m] = clock[m] /\ pending'[m] = pending[m]
        /\ state'[m] = state[m] /\ pc'[m] = pc[m]
    <3>1. CASE StartNewPool(n) /\ UNCHANGED <<later, state>>
      BY <1>5, <3>1, OthersStart, Zenon
    <3>2. CASE /\ state' = [state EXCEPT ![n] = "WAITING_FOR_CVN_DATA"]
               /\ pc' = [pc EXCEPT ![n] = "top"]
               /\ UNCHANGED <<pools, later, priv, clock, pending>>
      BY <1>0, <3>2, Zenon
    <3>3. CASE /\ NeedsNewPool(n) => FailNewPool(n, pools[n][n], priv[n])
               /\ ~NeedsNewPool(n) => UNCHANGED <<priv, clock>>
               /\ pools' = [pools EXCEPT ![n] =
                      CheckedPools(TrimmedPools(n), later[n], cvns[n], prev[n], tip[n])]
               /\ later' = [later EXCEPT ![n] = CheckedLater(@, prev[n])]
               /\ state' = [state EXCEPT ![n] = "CREATE_SIGNATURE"]
               /\ pc' = [pc EXCEPT ![n] = "top"]
               /\ UNCHANGED pending
      <4>1. priv'[m] = priv[m] /\ clock'[m] = clock[m]
        BY <1>5, <3>3, OthersFail, Zenon
      <4> QED BY <1>0, <3>3, <4>1, Zenon
    <3> QED BY <1>5, <3>1, <3>2, <3>3, Zenon DEF HandleBlockPropagation
  <2> QED BY <2>1, <2>2, Zenon DEF SameView, Mine
<1>6. CASE n \in Owners /\ HandleCvnData(n)
  <2>1. UNCHANGED <<tip, cvns, later, net, disk, prev, last, used>>
    BY <1>6, Zenon DEF HandleCvnData
  <2>2. /\ pools'[m] = pools[m] /\ priv'[m] = priv[m] /\ inited'[m] = inited[m]
        /\ clock'[m] = clock[m] /\ pending'[m] = pending[m]
        /\ state'[m] = state[m] /\ pc'[m] = pc[m]
    <3>1. CASE StartNewPool(n) /\ UNCHANGED <<state, inited>>
      BY <1>6, <3>1, OthersStart, Zenon
    <3>2. CASE /\ pc' = [pc EXCEPT ![n] = "top"]
               /\ UNCHANGED <<pools, priv, clock, pending, state, inited>>
      BY <1>0, <3>2, Zenon
    <3>3. CASE /\ FailNewPool(n, pools[n][n], priv[n])
               /\ pools' = [pools EXCEPT ![n][n] = RecycledEntry(n, pools[n][n], priv[n])]
               /\ state' = [state EXCEPT ![n] = "WAITING_FOR_BLOCK_PROPAGATION"]
               /\ inited' = [inited EXCEPT ![n] = TRUE]
               /\ pc' = [pc EXCEPT ![n] = "top"]
               /\ UNCHANGED pending
      <4>1. priv'[m] = priv[m] /\ clock'[m] = clock[m]
        BY <1>6, <3>3, OthersFail, Zenon
      <4> QED BY <1>0, <3>3, <4>1, Zenon
    <3> QED BY <1>6, <3>1, <3>2, <3>3, Zenon DEF HandleCvnData
  <2> QED BY <2>1, <2>2, Zenon DEF SameView, Mine
<1>7. CASE n \in Owners /\ FinishNewPool(n)
  <2>1. /\ pc[n] = "add"
        /\ UNCHANGED <<tip, cvns, priv, prev, last, clock, used>>
    BY <1>7, Zenon DEF FinishNewPool
  <2>2. /\ pools'[m] = pools[m] /\ later'[m] = later[m] /\ inited'[m] = inited[m]
        /\ pending'[m] = pending[m] /\ state'[m] = state[m] /\ pc'[m] = pc[m]
    BY <1>0, <1>7, SMT, Z3 DEF FinishNewPool, TypeOK
  <2>3. /\ disk'[m] = disk[m]
        /\ net' = net \/ net' = net \cup {Serialized(pending[n])}
    BY <1>7, Zenon DEF FinishNewPool, SaveNoncesPool, RelayNoncePool, TypeOK
  <2>4. pending[n] \in Pool /\ pending[n].nCvnId = n
    BY <1>7, <2>1, Zenon DEF TypeOK, AgreeInv, PendingInv, PendingOk
  <2>5. Mine(m)' = Mine(m)
    BY <2>3, <2>4, SerializedType, OthersMine, SMT, Z3
  <2> QED BY <2>1, <2>2, <2>3, <2>5, Zenon DEF SameView
<1>8. CASE n \in Owners /\ Sign(n)
  <2>1. UNCHANGED <<tip, cvns, later, net, priv, disk, inited, state, prev, last,
                    pending, clock>>
    BY <1>8, Zenon DEF Sign
  <2>2. pools'[m] = pools[m] /\ pc'[m] = pc[m] /\ used'[m] = used[m]
    BY <1>0, <1>8, Zenon DEF Sign, TypeOK
  <2> QED BY <2>1, <2>2, Zenon DEF SameView, Mine
<1>9. CASE n \in Owners /\ (Crash(n) \/ Shutdown(n))
  <2>1. Restart(n)
    BY <1>9, Zenon DEF Crash, Shutdown
  <2>2. disk'[m] = disk[m]
    BY <1>9, Zenon DEF Crash, Shutdown, SaveNoncesPool, TypeOK
  <2>3. /\ UNCHANGED <<tip, cvns, net, clock, used>>
        /\ pools'[m] = pools[m] /\ later'[m] = later[m] /\ priv'[m] = priv[m]
        /\ inited'[m] = inited[m] /\ state'[m] = state[m] /\ pc'[m] = pc[m]
        /\ pending'[m] = pending[m] /\ prev'[m] = prev[m] /\ last'[m] = last[m]
    BY <1>0, <1>9, <2>1, SMT, Z3 DEF Restart, TypeOK
  <2> QED BY <2>2, <2>3, Zenon DEF SameView, Mine
<1>10. CASE n \in Owners /\ StopThread(n)
  BY <1>0, <1>10, Zenon DEF StopThread, SameView, Mine, TypeOK
<1> QED
  BY <1>1, <1>2, <1>3, <1>4, <1>5, <1>6, <1>7, <1>8, <1>9, <1>10, Zenon
  DEF ThreadStep, ProcessStep

\* No CVN has a pool at the start.
LEMMA PairInit == Init => PairInv /\ SignInv /\ UsedInv
<1> SUFFICES ASSUME Init, NEW n \in Owners
             PROVE  PairOk(n) /\ SignOk(n) /\ UsedOk(n)
  BY Zenon DEF PairInv, SignInv, UsedInv
<1>1. n \in Nodes /\ n \in Cvns
  BY Zenon DEF Owners
<1>2. Mine(n) = {}
  BY <1>1, OldPoolConstants, Zenon DEF Init, Mine
<1>3. /\ tip[n] = Genesis /\ cvns[n] = Payload[Genesis]
      /\ pools[n][n] = Nil /\ later[n][n] = Nil /\ priv[n] = << >> /\ disk[n] = NoFile
      /\ inited[n] = FALSE /\ state[n] = "NOT_STARTED" /\ pc[n] = "top"
      /\ last[n] = Genesis /\ clock[n] = 1 /\ used[n] = {}
  BY <1>1, Zenon DEF Init
<1>4. Genesis \in CvnBlocks /\ Height[Genesis] <= Height[Genesis]
  BY GenesisFacts, Zenon
<1>5. PairOk(n)
  <2>1. 1 > 0
    BY SMT, Z3
  <2>2. MadeOk(n) /\ HeldPair(n) /\ AddPair(n) /\ LaterOver(n) /\ DiskPair(n)
    BY <1>2, <1>3, Zenon DEF MadeOk, HeldPair, AddPair, LaterOver, DiskPair
  <2>3. ThreadPair(n)
    BY <1>2, <1>3, <1>4, <2>1, Zenon DEF ThreadPair, NeverMade
  <2> QED BY <2>2, <2>3, Zenon DEF PairOk
<1>6. SignOk(n) /\ UsedOk(n)
  BY <1>2, <1>3, <1>4, Zenon DEF SignOk, UsedOk
<1> QED BY <1>5, <1>6, Zenon

\* PairInv and SignInv are inductive.
LEMMA PairNext ==
    ASSUME OwnConditions, TypeOK, AgreeInv, PairInv, SignInv, [Next]_vars
    PROVE  PairInv' /\ SignInv'
<1>1. CASE UNCHANGED vars
  <2>1. \A n \in Owners : SameView(n)
    BY <1>1, Zenon DEF vars, SameView, Mine
  <2> QED BY <2>1, FramePair, Zenon DEF PairInv, SignInv
<1>2. ASSUME NEW n \in Nodes,
             \/ NodeStep(n)
             \/ n \in Owners /\ (ThreadStep(n) \/ ProcessStep(n)),
             NEW m \in Owners
      PROVE  PairOk(m)' /\ SignOk(m)'
  <2>1. PairOk(m) /\ SignOk(m)
    BY Zenon DEF PairInv, SignInv
  <2>2. CASE m # n
    BY <1>2, <2>1, <2>2, OthersSame, FramePair, Zenon
  <2>3. CASE m = n
    <3>1. CASE NodeStep(n)
      BY <2>1, <2>3, <3>1, PairConnectTip, PairReceive, SMT, Z3 DEF NodeStep
    <3>2. CASE ThreadStep(n)
      BY <2>1, <2>3, <3>2, PairLoop, PairHandleInit, PairBlockPropagation, PairCvnData,
         PairFinish, PairSign, SMT, Z3 DEF ThreadStep
    <3>3. CASE ProcessStep(n)
      BY <2>1, <2>3, <3>3, PairLoop, PairRestart, SMT, Z3 DEF ProcessStep
    <3> QED BY <1>2, <3>1, <3>2, <3>3, Zenon
  <2> QED BY <2>2, <2>3, Zenon
<1>3. CASE Next
  <2>1. \E n \in Nodes : \/ NodeStep(n)
                         \/ n \in Owners /\ (ThreadStep(n) \/ ProcessStep(n))
    BY <1>3, Zenon DEF Next, Owners
  <2> QED BY <1>2, <2>1, Zenon DEF PairInv, SignInv
<1> QED BY <1>1, <1>3, Zenon
-----------------------------------------------------------------------------
(* The heights that the nonces are for, when the tip stays during an         *)
(* iteration of the thread.                                                  *)

\* An iteration works on the active tip.
LEMMA SameHeight ==
    ASSUME MaxLag = 0, TypeOK, AgreeInv, NEW n \in Owners, PairOk(n), pc[n] # "top"
    PROVE  Height[prev[n]] = Height[tip[n]]
<1>1. Height[prev[n]] <= Height[tip[n]] /\ Height[tip[n]] - Height[prev[n]] <= MaxLag
  BY Zenon DEF PairOk, ThreadPair
<1>2. Height[tip[n]] \in Nat /\ Height[prev[n]] \in Nat
  BY OwnHeights, Zenon
<1> QED BY <1>1, <1>2, SMT, Z3

\* The nonces of the own pool, paired, are for the heights from its root on.
LEMMA CurrentAligned ==
    ASSUME TypeOK, AgreeInv, NEW n \in Owners, PairOk(n), UsedOk(n),
           pools[n][n] \in Pool, Current(pools[n][n], n)
    PROVE  /\ Aligned(priv[n], Height[pools[n][n].hashRootBlock])
           /\ pools[n][n].hashRootBlock \in Blocks
           /\ Height[pools[n][n].hashRootBlock] \in Nat
           /\ Height[pools[n][n].hashRootBlock] <= Height[tip[n]]
           /\ pools[n][n].nHeightAdded = Height[pools[n][n].hashRootBlock]
<1>1. Serialized(pools[n][n]) \in Mine(n)
  BY Zenon DEF Current
<1>2. /\ Serialized(pools[n][n]).hashRootBlock = pools[n][n].hashRootBlock
      /\ Serialized(pools[n][n]).vPublicNonces = priv[n]
  BY SerializedType, Zenon DEF Current
<1>3. Aligned(priv[n], Height[pools[n][n].hashRootBlock])
  BY <1>1, <1>2, Zenon DEF UsedOk
<1>4. Rooted(pools[n][n], tip[n])
  BY <1>1, <1>2, Zenon DEF PairOk, MadeOk, Rooted
<1> QED BY <1>3, <1>4, Heights, Zenon DEF Rooted, Current

\* A new pool, recycled nonces included, is made for the heights from prev on.
LEMMA NewAligned ==
    ASSUME MaxLag = 0, TypeOK, AgreeInv, NEW n \in Owners, PairOk(n), UsedOk(n),
           pc[n] = "run"
    PROVE  Aligned(NewPrivate(n, pools[n][n], priv[n]), Height[prev[n]])
<1> DEFINE own == pools[n][n]
           pr == priv[n]
           h == Height[prev[n]]
           rec == RecycledPrivate(n, own, pr)
           fresh == FreshNonces(n, Len(rec), PoolSize)
<1>1. /\ own \in Entry /\ pr \in Seq(Nonces) /\ tip[n] \in Blocks /\ PoolSize \in Nat
      /\ h \in Nat /\ Height[tip[n]] = h
  BY OwnFacts, SameHeight, Zenon
<1>2. rec \in Seq(Nonces) /\ Len(rec) \in Nat
  BY <1>1, NewPoolType, LenIs, Zenon
<1>3. Aligned(rec, h)
  <2>1. CASE Recycles(n, own, pr)
    <3>1. /\ own \in Pool /\ GetPoolAge(own, tip[n]) > 0 /\ Current(own, n)
          /\ Len(pr) = Len(own.vPublicNonces)
      BY <2>1, RecyclesCurrent, Zenon DEF Recycles
    <3>2. Aligned(pr, Height[own.hashRootBlock]) /\ Height[own.hashRootBlock] \in Nat
      BY <3>1, CurrentAligned, Zenon
    <3> DEFINE age == GetPoolAge(own, tip[n])
    <3>3. age \in Nat /\ age = h - Height[own.hashRootBlock] /\ Len(pr) \in Nat
      <4> HIDE DEF own, pr, h
      <4>1. Len(pr) \in Nat
        BY <1>1, LenIs, Zenon
      <4>2. age \in Int /\ age >= 0 =>
               age = Height[tip[n]] - Height[own.hashRootBlock]
        BY <1>1, <3>1, AgeRange, Zenon
      <4>3. age \in Int
        BY <1>1, <3>1, AgeRange, SMT, Z3
      <4> HIDE DEF age
      <4>4. age > 0
        BY <3>1, Zenon DEF age
      <4> QED BY <1>1, <4>1, <4>2, <4>3, <4>4, SMT, Z3
    <3>4. /\ Len(rec) = Len(pr) - age
          /\ \A i \in 1..(Len(pr) - age) : rec[i] = pr[i + age]
      <4>1. rec = Unused(own, tip[n], pr)
        BY <2>1, Zenon DEF RecycledPrivate
      <4> HIDE DEF rec, own, pr
      <4> QED BY <1>1, <3>1, <4>1, UnusedType, SMT, Z3
    <3> HIDE DEF rec, own, pr, age, h
    <3>5. ASSUME NEW i \in 1..Len(rec)
          PROVE  rec[i].height = h + i - 1
      <4> DEFINE r == Height[own.hashRootBlock]
      <4>1. r \in Nat /\ age \in Nat /\ age = h - r /\ h \in Nat /\ i \in Int
        BY <1>1, <1>2, <3>2, <3>3, SMT, Z3
      <4>2. Len(pr) \in Nat /\ Len(rec) = Len(pr) - age
        BY <3>3, <3>4, SMT, Z3
      <4>3. rec[i] = pr[i + age]
        BY <3>4, Zenon
      <4>4. Aligned(pr, r)
        BY <3>2, Zenon
      <4> HIDE DEF r
      <4>5. i + age \in 1..Len(pr)
        BY <4>1, <4>2, SMT, Z3
      <4>6. pr[i + age].height = r + (i + age) - 1
        BY <4>4, <4>5, Zenon DEF Aligned
      <4>7. r + (i + age) - 1 = h + i - 1
        BY <4>1, SMT, Z3
      <4>8. rec[i].height = r + (i + age) - 1
        BY <4>3, <4>6, Zenon
      <4> QED BY <4>7, <4>8, Zenon
    <3> QED BY <3>5, Zenon DEF Aligned
  <2>2. CASE ~Recycles(n, own, pr)
    <3>1. rec = << >>
      BY <2>2, Zenon DEF RecycledPrivate
    <3> HIDE DEF rec
    <3> QED BY <3>1, SMT, Z3 DEF Aligned
  <2> QED BY <2>1, <2>2, Zenon
<1>4. Len(rec) <= PoolSize
  <2>1. CASE Recycles(n, own, pr)
    <3>1. /\ own \in Pool /\ GetPoolAge(own, tip[n]) > 0 /\ Len(pr) = PoolSize
          /\ Len(pr) = Len(own.vPublicNonces)
      BY <2>1, RecyclesCurrent, Zenon DEF Recycles
    <3>2. Len(Unused(own, tip[n], pr)) < Len(pr)
      <4> HIDE DEF own, pr
      <4> QED BY <1>1, <3>1, UnusedType, SMT, Z3
    <3>3. rec = Unused(own, tip[n], pr)
      BY <2>1, Zenon DEF RecycledPrivate
    <3> HIDE DEF rec, own, pr
    <3> QED BY <1>1, <1>2, <3>1, <3>2, <3>3, SMT, Z3
  <2>2. CASE ~Recycles(n, own, pr)
    <3>1. rec = << >>
      BY <2>2, Zenon DEF RecycledPrivate
    <3> HIDE DEF rec
    <3> QED BY <1>1, <3>1, SMT, Z3
  <2> QED BY <2>1, <2>2, Zenon
<1> HIDE DEF rec, own, pr, h
<1>5. /\ fresh \in Seq(Nonces) /\ Len(fresh) = PoolSize - Len(rec)
      /\ \A j \in 1..(PoolSize - Len(rec)) : fresh[j].height = h + Len(rec) + j - 1
  <2>1. fresh \in Seq(Nonces) /\ Len(fresh) = PoolSize - Len(rec)
    <3>1. Len(rec) \in Nat /\ PoolSize \in Int
      BY <1>1, <1>2, SMT, Z3
    <3> QED BY <1>4, <3>1, FreshType, Zenon
  <2>2. \A j \in 1..(PoolSize - Len(rec)) : fresh[j].height = h + Len(rec) + j - 1
    BY Zenon DEF FreshNonces, h
  <2> QED BY <2>1, <2>2, Zenon
<1>6. NewPrivate(n, own, pr) = rec \o fresh
  BY Zenon DEF NewPrivate, rec
<1> HIDE DEF fresh
<1>7. /\ Len(rec \o fresh) = Len(rec) + Len(fresh)
      /\ \A i \in 1..(Len(rec) + Len(fresh)) :
            (rec \o fresh)[i] = IF i <= Len(rec) THEN rec[i] ELSE fresh[i - Len(rec)]
  BY Zenon, <1>2, <1>5, ConcatIs
<1>8. ASSUME NEW i \in 1..Len(rec \o fresh)
      PROVE  (rec \o fresh)[i].height = h + i - 1
  <2>1. i \in 1..(Len(rec) + Len(fresh))
    BY <1>7, Zenon
  <2>2. CASE i <= Len(rec)
    <3>1. (rec \o fresh)[i] = rec[i] /\ i \in 1..Len(rec)
      BY <1>2, <1>7, <2>1, <2>2, SMT, Z3
    <3> QED BY <1>3, <3>1, Zenon DEF Aligned
  <2>3. CASE ~(i <= Len(rec))
    <3>1. (rec \o fresh)[i] = fresh[i - Len(rec)]
          /\ i - Len(rec) \in 1..(PoolSize - Len(rec))
      BY <1>1, <1>2, <1>5, <1>7, <2>1, <2>3, SMT, Z3
    <3>2. fresh[i - Len(rec)].height = h + Len(rec) + (i - Len(rec)) - 1
      BY <1>5, <3>1, Zenon
    <3> QED BY <1>1, <1>2, <2>1, <3>1, <3>2, SMT, Z3
  <2> QED BY <2>2, <2>3, Zenon
<1>9. Aligned(rec \o fresh, h)
  BY <1>8, Zenon DEF Aligned
<1> QED BY <1>6, <1>9, Zenon DEF h, own, pr

\* A step that relays nothing new and signs nothing.
LEMMA FrameUsed ==
    ASSUME NEW n \in Owners, UsedOk(n), Mine(n)' = Mine(n), used'[n] = used[n],
           \/ pc'[n] # "add"
           \/ pc'[n] = pc[n] /\ priv'[n] = priv[n] /\ prev'[n] = prev[n]
    PROVE  UsedOk(n)'
BY Zenon DEF UsedOk

\* The nonce that CvnSignPartial takes is the one for the height it signs at.
LEMMA UsedSign ==
    ASSUME MaxLag = 0, TypeOK, AgreeInv, NEW n \in Owners, PairOk(n), UsedOk(n), Sign(n)
    PROVE  UsedOk(n)'
<1>1. /\ pc[n] = "run" /\ pc'[n] = "top" /\ UNCHANGED <<net, priv, prev>>
      /\ state[n] \in {"CREATE_SIGNATURE", "CREATE_SIGNATURE_OVERDUE"}
  BY Zenon DEF Sign, TypeOK
<1>2. Mine(n)' = Mine(n)
  BY <1>1, Zenon DEF Mine
<1>3. \/ used'[n] = used[n]
      \/ /\ SignOffset(n) \in 0..(Len(priv[n]) - 1)
         /\ used'[n] = used[n] \cup {<<priv[n][SignOffset(n) + 1], Height[prev[n]]>>}
  <2>1. n \in DOMAIN used
    BY Zenon DEF TypeOK
  <2> QED BY <2>1, Zenon DEF Sign
<1>4. ASSUME SignOffset(n) \in 0..(Len(priv[n]) - 1)
      PROVE  priv[n][SignOffset(n) + 1].height = Height[prev[n]]
  <2>1. inited[n] /\ Height[prev[n]] = Height[tip[n]] /\ Height[tip[n]] \in Nat
        /\ Len(priv[n]) \in Nat /\ pools[n][n] \in Entry
    BY <1>1, SameHeight, OwnFacts, LenIs, Zenon DEF PairOk, ThreadPair
  <2>2. CASE Real(pools[n][n])
    <3>1. Current(pools[n][n], n) /\ pools[n][n] \in Pool
      BY <1>1, <2>1, <2>2, Zenon DEF PairOk, HeldPair, Real, Entry
    <3> DEFINE r == Height[pools[n][n].hashRootBlock]
    <3>2. Aligned(priv[n], r) /\ r \in Nat /\ pools[n][n].nHeightAdded = r
      BY <3>1, CurrentAligned, Zenon
    <3>3. SignOffset(n) = Height[tip[n]] - r
      BY <2>2, <3>2, Zenon DEF SignOffset, PublicOffset, Real
    <3> HIDE DEF r
    <3>4. SignOffset(n) + 1 \in 1..Len(priv[n])
      BY <1>4, <2>1, SMT, Z3
    <3>5. priv[n][SignOffset(n) + 1].height = r + (SignOffset(n) + 1) - 1
      BY <3>2, <3>4, Zenon DEF Aligned
    <3> QED BY <2>1, <3>2, <3>3, <3>5, SMT, Z3
  <2>3. CASE ~Real(pools[n][n])
    <3>1. SignOffset(n) = Height[tip[n]]
      <4>1. EmptyPool.nHeightAdded = 0
        BY Zenon DEF EmptyPool
      <4> QED BY <2>1, <2>3, <4>1, SMT, Z3 DEF SignOffset, PublicOffset, Real
    <3>2. Len(priv[n]) <= Height[tip[n]]
      BY <1>1, <2>1, <2>3, Zenon DEF PairOk, HeldPair, NoneLeft
    <3> QED BY <1>4, <2>1, <3>1, <3>2, SMT, Z3
  <2> QED BY <2>2, <2>3, Zenon
<1>5. \A u \in used'[n] : u[1].height = u[2]
  <2>1. \A u \in used[n] : u[1].height = u[2]
    BY Zenon DEF UsedOk
  <2> HIDE DEF UsedOk
  <2> QED BY <1>3, <1>4, <2>1, SMT, Z3
<1> QED BY <1>1, <1>2, <1>5, SMT, Z3 DEF UsedOk

\* The other steps of a CVN.
LEMMA UsedStep ==
    ASSUME OwnConditions, MaxLag = 0, TypeOK, AgreeInv, NEW n \in Owners,
           PairOk(n), SignOk(n), UsedOk(n),
           NodeStep(n) \/ ThreadStep(n) \/ ProcessStep(n)
    PROVE  UsedOk(n)'
<1>1. CASE NodeStep(n)
  <2>1. UNCHANGED <<net, used, pc, priv, prev>>
    BY <1>1, Zenon DEF NodeStep, ConnectTip, ReceiveNoncePool
  <2> QED BY <2>1, FrameUsed, Zenon DEF Mine
<1>2. CASE StartThread(n) \/ LoopTop(n)
  <2>1. UNCHANGED <<net, used>> /\ pc'[n] = "run"
    BY <1>2, Zenon DEF StartThread, LoopTop, TypeOK
  <2> QED BY <2>1, FrameUsed, Zenon DEF Mine
<1>3. CASE HandleInit(n)
  <2>1. pc[n] = "run" /\ pc'[n] = "top" /\ UNCHANGED used
    BY <1>3, Zenon DEF HandleInit, TypeOK
  <2>2. CASE n \in cvns[n]
    <3>1. /\ UseSavedPool(n) \/ CreateInitialPool(n) \/ FailInitialPool(n)
          /\ inited' = [inited EXCEPT ![n] = TRUE]
          /\ state'[n] \in {"CREATE_SIGNATURE_OVERDUE", "WAITING_FOR_BLOCK_PROPAGATION"}
      BY <1>3, <2>2, SMT, Z3 DEF HandleInit, TypeOK
    <3>2. CASE UseSavedPool(n)
      BY <1>3, <2>1, <2>2, <3>1, <3>2, PairUseSaved, FrameUsed, Zenon
    <3>3. CASE CreateInitialPool(n)
      <4> DEFINE p == NewPool(n, pools[n][n], priv[n])
      <4>1. Mine(n)' = Mine(n) \cup {p}
        BY <1>3, <2>2, <3>1, <3>3, PairCreateInitial, Zenon
      <4>2. /\ p.hashRootBlock = prev[n]
            /\ NewPrivate(n, pools[n][n], priv[n]) = p.vPublicNonces
        BY <2>1, NewPoolOk, Zenon
      <4>3. Aligned(p.vPublicNonces, Height[p.hashRootBlock])
        BY <2>1, <4>2, NewAligned, Zenon
      <4> HIDE DEF p
      <4> QED BY <2>1, <4>1, <4>3, Zenon DEF UsedOk
    <3>4. ~FailInitialPool(n)
      BY Zenon DEF FailInitialPool, FailNewPool, OwnConditions
    <3> QED BY <3>1, <3>2, <3>3, <3>4, Zenon
  <2>3. CASE n \notin cvns[n]
    <3>1. net' = net
      BY <1>3, <2>3, Zenon DEF HandleInit
    <3> QED BY <2>1, <3>1, FrameUsed, Zenon DEF Mine
  <2> QED BY <2>2, <2>3, Zenon
<1>4. CASE HandleBlockPropagation(n) \/ HandleCvnData(n)
  <2>1. pc[n] = "run" /\ UNCHANGED <<net, used, prev>>
    BY <1>4, Zenon DEF HandleBlockPropagation, HandleCvnData
  <2>2. \/ pc'[n] = "top"
        \/ /\ pc'[n] = "add"
           /\ priv'[n] = NewPrivate(n, pools[n][n], priv[n])
    BY <1>4, Zenon DEF HandleBlockPropagation, HandleCvnData, StartNewPool, TypeOK
  <2>3. CASE pc'[n] = "top"
    BY <2>1, <2>3, FrameUsed, Zenon DEF Mine
  <2>4. CASE /\ pc'[n] = "add"
             /\ priv'[n] = NewPrivate(n, pools[n][n], priv[n])
    <3>1. Aligned(priv'[n], Height[prev'[n]])
      BY <2>1, <2>4, NewAligned, Zenon
    <3>2. Mine(n)' = Mine(n)
      BY <2>1, Zenon DEF Mine
    <3> QED BY <2>1, <3>1, <3>2, Zenon DEF UsedOk
  <2> QED BY <2>2, <2>3, <2>4, Zenon
<1>5. CASE FinishNewPool(n)
  <2>1. pc[n] = "add" /\ pc'[n] = "top" /\ UNCHANGED used
    BY <1>5, Zenon DEF FinishNewPool, TypeOK
  <2>2. Mine(n)' = Mine(n) \cup {pending[n]}
    BY <1>5, PairFinish, Zenon
  <2>3. Aligned(pending[n].vPublicNonces, Height[pending[n].hashRootBlock])
    BY <2>1, Zenon DEF PairOk, AddPair, UsedOk
  <2> QED BY <2>1, <2>2, <2>3, Zenon DEF UsedOk
<1>6. CASE Sign(n)
  BY <1>6, UsedSign, Zenon
<1>7. CASE ProcessStep(n)
  <2>1. UNCHANGED <<net, used>> /\ pc'[n] = "top"
    BY <1>7, Zenon DEF ProcessStep, Crash, Shutdown, Restart, StopThread, TypeOK
  <2> QED BY <2>1, FrameUsed, Zenon DEF Mine
<1> QED BY <1>1, <1>2, <1>3, <1>4, <1>5, <1>6, <1>7, Zenon DEF ThreadStep

\* UsedInv is inductive when the tip stays during an iteration.
LEMMA UsedNext ==
    ASSUME OwnConditions, MaxLag = 0, TypeOK, AgreeInv, PairInv, SignInv, UsedInv,
           [Next]_vars
    PROVE  UsedInv'
<1>1. CASE UNCHANGED vars
  <2>1. \A n \in Owners : SameView(n)
    BY <1>1, Zenon DEF vars, SameView, Mine
  <2> QED BY <2>1, FramePair, Zenon DEF UsedInv
<1>2. ASSUME NEW n \in Nodes,
             \/ NodeStep(n)
             \/ n \in Owners /\ (ThreadStep(n) \/ ProcessStep(n)),
             NEW m \in Owners
      PROVE  UsedOk(m)'
  <2>1. PairOk(m) /\ SignOk(m) /\ UsedOk(m)
    BY Zenon DEF PairInv, SignInv, UsedInv
  <2>2. CASE m # n
    BY <1>2, <2>1, <2>2, OthersSame, FramePair, SMT, Z3
  <2>3. CASE m = n
    BY <1>2, <2>1, <2>3, UsedStep, SMT, Z3
  <2> QED BY <2>2, <2>3, Zenon
<1>3. CASE Next
  <2>1. \E n \in Nodes : \/ NodeStep(n)
                         \/ n \in Owners /\ (ThreadStep(n) \/ ProcessStep(n))
    BY <1>3, Zenon DEF Next, Owners
  <2> QED BY <1>2, <2>1, Zenon DEF UsedInv
<1> QED BY <1>1, <1>3, Zenon
-----------------------------------------------------------------------------
\* The invariants hold in every reachable state.
THEOREM PairCorrect ==
    ASSUME OwnConditions
    PROVE  Spec => [](TypeOK /\ AgreeInv /\ PairInv /\ SignInv)
<1>1. Init => PairInv /\ SignInv
  BY PairInit, Zenon
<1>2. TypeOK /\ AgreeInv /\ PairInv /\ SignInv /\ [Next]_vars => PairInv' /\ SignInv'
  BY PairNext, Zenon
<1> QED BY <1>1, <1>2, TypeCorrect, AgreeCorrect, PTL DEF Spec

(* A CVN never signs with private nonces that are not the halves of the      *)
(* nonces it has relayed: with any number of nodes, blocks and pools, any    *)
(* delivery of the pools, crashes, clean shutdowns and stops of the thread   *)
(* at any point, vNoncePrivate matches the own entry of mapNoncePool         *)
(* whenever the thread is between two operations.                            *)
THEOREM PairedAlways ==
    ASSUME OwnConditions
    PROVE  Spec => []OwnPaired
<1>1. TypeOK /\ AgreeInv /\ PairInv => OwnPaired
  <2> SUFFICES ASSUME TypeOK, AgreeInv, PairInv, NEW n \in Owners,
                      Settled(n), Real(pools[n][n])
               PROVE  priv[n] = pools[n][n].vPublicNonces
    BY Zenon DEF OwnPaired
  <2>1. PairOk(n)
    BY Zenon DEF PairInv
  <2>2. inited[n] /\ pc[n] # "add"
    BY <2>1, Zenon DEF PairOk, ThreadPair, NeverMade, Settled, Real
  <2> QED BY <2>1, <2>2, Zenon DEF PairOk, HeldPair, Current
<1> QED BY <1>1, PairCorrect, PTL

(* vNoncePrivate[nPoolOffset] in CvnSignPartial stays inside the vector for  *)
(* a CVN that has handled its tip, if no more than -poolkeepnonces blocks    *)
(* arrive before it signs.                                                   *)
THEOREM IndexAlwaysInRange ==
    ASSUME OwnConditions, MaxLag <= Keep
    PROVE  Spec => []SignIndexInRange
<1>1. TypeOK /\ AgreeInv /\ PairInv /\ SignInv => SignIndexInRange
  <2> SUFFICES ASSUME TypeOK, AgreeInv, PairInv, SignInv, NEW n \in Owners,
                      pc[n] = "run", state[n] = "CREATE_SIGNATURE"
               PROVE  SignOffset(n) \in 0..(Len(priv[n]) - 1)
    BY Zenon DEF SignIndexInRange
  <2>1. PairOk(n) /\ SignOk(n)
    BY Zenon DEF PairInv, SignInv
  <2> DEFINE own == pools[n][n]
             p == Serialized(own)
  <2>2. Height[tip[n]] - Height[last[n]] <= Keep
    <3>1. prev[n] = last[n]
      BY <2>1, Zenon DEF SignOk
    <3>2. Height[tip[n]] - Height[prev[n]] <= MaxLag
      BY <2>1, Zenon DEF PairOk, ThreadPair
    <3>3. /\ Height[tip[n]] \in Nat /\ Height[prev[n]] \in Nat
          /\ MaxLag \in Nat /\ Keep \in Nat
      BY OwnFacts, Zenon
    <3> QED BY <3>1, <3>2, <3>3, SMT, Z3
  <2>3. Real(own) /\ own \in Pool /\ Current(own, n)
    BY <2>1, <2>2, OwnFacts, Zenon DEF SignOk, PairOk, ThreadPair, HeldPair, Real, Entry
  <2>4. p \in Mine(n) /\ p.hashRootBlock = own.hashRootBlock /\ p.vPublicNonces = priv[n]
    BY <2>3, SerializedType, Zenon DEF Current
  <2>5. Rooted(own, tip[n]) /\ Len(priv[n]) = PoolSize
    BY <2>1, <2>4, Zenon DEF PairOk, MadeOk, Rooted
  <2>6. SignOffset(n) = Height[tip[n]] - Height[own.hashRootBlock]
    <3>1. own # Nil /\ own.nHeightAdded = Height[own.hashRootBlock]
      BY <2>3, Zenon DEF Real, Current
    <3> QED BY <3>1, Zenon DEF SignOffset, PublicOffset
  <2>7. Height[own.hashRootBlock] \in Nat /\ Height[tip[n]] \in Nat /\ PoolSize \in Nat
    BY <2>5, OwnHeights, Heights, Zenon DEF Rooted
  <2>8. ~Over(own, tip[n])
    BY <2>3, Zenon DEF Current
  <2> HIDE DEF own, p
  <2> QED BY <2>5, <2>6, <2>7, <2>8, SMT, Z3 DEF Rooted, Over
<1> QED BY <1>1, PairCorrect, PTL

(* "One nonce is used up per block height": when no block arrives between    *)
(* the top of the thread's loop and the signature, no private nonce serves   *)
(* for two heights - across recycling, restarts from pool.dat and the        *)
(* signatures that are made again when a round is overdue.                   *)
THEOREM OneHeightPerNonce ==
    ASSUME OwnConditions, MaxLag = 0
    PROVE  Spec => []NonceUsedAtOneHeight
<1>1. Init => UsedInv
  BY PairInit, Zenon
<1>2. TypeOK /\ AgreeInv /\ PairInv /\ SignInv /\ UsedInv /\ [Next]_vars => UsedInv'
  BY UsedNext, Zenon
<1>3. UsedInv => NonceUsedAtOneHeight
  <2> SUFFICES ASSUME UsedInv, NEW n \in Owners, NEW u \in used[n], NEW v \in used[n],
                      u[1] = v[1]
               PROVE  u[2] = v[2]
    BY Zenon DEF NonceUsedAtOneHeight
  <2>1. u[1].height = u[2] /\ v[1].height = v[2]
    BY Zenon DEF UsedInv, UsedOk
  <2> QED BY <2>1, Zenon
<1> QED BY <1>1, <1>2, <1>3, PairCorrect, PTL DEF Spec
=============================================================================
