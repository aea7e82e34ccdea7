--------------------------- MODULE NextCreatorProofs ---------------------------
(***************************************************************************)
(* Proofs about NextCreator for every set of CVNs and every value of the   *)
(* dynamic chain parameters.                                               *)
(***************************************************************************)
EXTENDS NextCreator, NaturalInduction

\* The registered CVNs are CVN ids.
LEMMA RegisteredType ==
    ASSUME TypeOK PROVE mapCVNs \subseteq Cvns
<1>1. Len(chain) \in 1..Len(chain)
    BY SMT, Z3 DEF TypeOK
<1>2. chain[Len(chain)] \in Block
    BY <1>1, SMT, Z3 DEF TypeOK
<1>. QED
    BY <1>2, Zenon DEF mapCVNs, Block

\* A payload installs a set of CVN ids and names a CVN that it adds, or none.
LEMMA PayloadType ==
    ASSUME TypeOK, NEW payload \in Payloads
    PROVE  payload.added \in Cvns \cup {NoCvn} /\ payload.mapCVNs \in SUBSET Cvns
BY RegisteredType, SMT, Z3 DEF Payloads

\* Every step keeps the type invariant.
LEMMA TypeNext == TypeOK /\ [Next]_vars => TypeOK'
<1>. SUFFICES ASSUME TypeOK, [Next]_vars PROVE TypeOK'
    BY Zenon
<1>0. mapCVNs \subseteq Cvns
    BY RegisteredType, Zenon
<1>1. ASSUME NEW slot \in 0..MaxSlot, CreateBlock(slot) PROVE TypeOK'
  <2>. DEFINE c == CheckNextBlockCreator(slot)
  <2>1. c \in Cvns
      BY <1>0, <1>1, Zenon DEF CreateBlock
  <2>2. PICK missing \in SUBSET mapCVNs, payload \in Payloads :
            ConnectBlock(c, missing, payload)
      BY <1>1, Zenon DEF CreateBlock
  <2>. DEFINE blk == [nCreatorId |-> c, vMissingSignerIds |-> missing,
                      added |-> payload.added, mapCVNs |-> payload.mapCVNs]
  <2>3. blk \in Block
      BY <1>0, <2>1, PayloadType, Zenon DEF Block
  <2>4. chain' = Append(chain, blk) /\ banned' = banned
      BY <1>1, <2>2, Zenon DEF ConnectBlock, CreateBlock
  <2>. HIDE DEF blk
  <2>. QED
      BY <2>3, <2>4, SMT, Z3 DEF TypeOK
<1>2. ASSUME NEW c \in Cvns, Ban(c) PROVE TypeOK'
    BY <1>2, Zenon DEF Ban, TypeOK
<1>3. CASE Restart
    BY <1>3, Zenon DEF Restart, TypeOK
<1>4. CASE UNCHANGED vars
    BY <1>4, Zenon DEF vars, TypeOK
<1>. QED
    BY <1>1, <1>2, <1>3, <1>4, Zenon DEF Next

(* The chain is a non-empty sequence of well-formed blocks created by      *)
(* CVNs (CheckProofOfCooperation accepts no block without a creator).      *)
THEOREM CreatorTypeCorrect == Spec => []TypeOK
<1>1. Init => TypeOK
    BY CreatorConstants, SMT, Z3 DEF Init, GenesisBlock, TypeOK, Block
<1>. QED
    BY <1>1, TypeNext, PTL DEF Spec

\* The number of signatures of a block is an integer.
LEMMA NumChainSigsType ==
    ASSUME TypeOK
    PROVE  GetNumChainSigs(Height) \in Int
<1>1. Len(chain) \in Nat \ {0}
    BY SMT, Z3 DEF TypeOK
<1>2. \A i \in 1..Len(chain) : /\ Cardinality(chain[i].mapCVNs) \in Nat
                               /\ Cardinality(chain[i].vMissingSignerIds) \in Nat
  <2>. TAKE i \in 1..Len(chain)
  <2>0. chain[i] \in Block
      BY SMT, Z3 DEF TypeOK
  <2>1. chain[i].mapCVNs \subseteq Cvns /\ chain[i].vMissingSignerIds \subseteq Cvns
      BY <2>0, Zenon DEF Block
  <2>. QED
      BY <2>1, CreatorConstants, FS_Subset, FS_CardinalityType, Zenon
<1>3. CASE Height = 0
    BY <1>1, <1>2, <1>3, SMT, Z3 DEF GetNumChainSigs
<1>4. CASE Height # 0
  <2>0. \A n \in Nat \ {0} : n - 1 # 0 => n - 1 \in 1..n /\ (n - 1) + 1 \in 1..n
      BY SMT, Z3
  <2>1. Height \in 1..Len(chain) /\ Height + 1 \in 1..Len(chain)
      BY <1>1, <1>4, <2>0, Zenon DEF Height
  <2>. QED
      BY <1>2, <1>4, <2>1, SMT, Z3 DEF GetNumChainSigs
<1>. QED
    BY <1>3, <1>4, Zenon

(* Whatever the membership and whoever signs, the block factory's rules on *)
(* the number of signatures imply those of CheckProofOfCooperation.        *)
THEOREM FactoryConsistent == Spec => []FactoryBlocksAccepted
<1>1. TypeOK => FactoryBlocksAccepted
  <2>. SUFFICES ASSUME TypeOK, NEW missing \in SUBSET mapCVNs,
                       FactoryAccepts(missing)
                PROVE  EnoughForValidation(missing)
      BY Zenon DEF FactoryBlocksAccepted
  <2>. DEFINE all == Cardinality(mapCVNs)
              out == Cardinality(missing)
              prev == GetNumChainSigs(Height)
  <2>1. prev \in Int
      BY NumChainSigsType, Zenon
  <2>2. mapCVNs \subseteq Cvns
      BY RegisteredType, Zenon
  <2>3. all \in Nat /\ out \in Nat
      BY <2>2, CreatorConstants, FS_Subset, FS_CardinalityType, Zenon
  <2>4. /\ all # 1 => HasEnoughSignatures(all - out)
        /\ all - out > 0 /\ prev > 0
        /\ prev > 1 => prev < 2 * (all - out)
      BY Zenon DEF FactoryAccepts
  <2>5. all = 1 => ~(prev > all - out)
    <3>. HIDE DEF all, out, prev
    <3>. QED
        BY <2>1, <2>3, <2>4, SMT, Z3
  <2>. QED
      BY <2>4, <2>5, Zenon DEF EnoughForValidation
<1>. QED
    BY <1>1, CreatorTypeCorrect, PTL
-----------------------------------------------------------------------------
(* The scan of CheckNextBlockCreator.                                      *)

ScanLength == IF Len(chain) < BlocksToScan THEN Len(chain) ELSE BlocksToScan

ScanStart == [cands |-> << >>, sigs |-> [c \in Cvns |-> 0],
              left |-> MinSuccessiveSignatures]

ScanStep(s, b) == IF ScanDone(s) \/ Ignored(b) THEN s ELSE ScanBlock(s, b)

ScanState == [cands : Seq(Cvns), sigs : [Cvns -> Nat], left : Nat]

\* The blocks of the scan are blocks of the chain.
LEMMA BackType ==
    ASSUME TypeOK
    PROVE  /\ Len(chain) \in Nat \ {0}
           /\ ScanLength \in Nat /\ ScanLength <= Len(chain)
           /\ \A k \in 1..ScanLength : /\ Len(chain) + 1 - k \in 1..Len(chain)
                                       /\ Back(k) \in Block
<1>1. Len(chain) \in Nat \ {0}
    BY SMT, Z3 DEF TypeOK
<1>2. ScanLength \in Nat /\ ScanLength <= Len(chain)
    BY <1>1, CreatorConstants, SMT, Z3 DEF ScanLength
<1>3. \A k \in 1..ScanLength : Len(chain) + 1 - k \in 1..Len(chain)
    BY <1>1, <1>2, SMT, Z3
<1>4. \A k \in 1..ScanLength : Back(k) \in Block
    BY <1>3, SMT, Z3 DEF TypeOK, Back
<1>. QED
    BY <1>1, <1>2, <1>3, <1>4, Zenon

\* A step of the scan keeps the shape of its state.
LEMMA ScanStepType ==
    ASSUME NEW s \in ScanState, NEW b \in Block
    PROVE  ScanStep(s, b) \in ScanState
<1>1. b.nCreatorId \in Cvns
    BY Zenon DEF Block
<1>2. s.cands \in Seq(Cvns) /\ s.sigs \in [Cvns -> Nat] /\ s.left \in Nat
    BY Zenon DEF ScanState
<1>3. Append(s.cands, b.nCreatorId) \in Seq(Cvns)
    BY <1>1, <1>2, SMT, Z3
<1>4. [c \in Cvns |-> IF c \in mapCVNs \ b.vMissingSignerIds
                      THEN s.sigs[c] + 1 ELSE s.sigs[c]] \in [Cvns -> Nat]
    BY <1>2, SMT, Z3
<1>5. (IF s.left = 0 THEN 0 ELSE s.left - 1) \in Nat
    BY <1>2, SMT, Z3
<1>6. ScanBlock(s, b) \in ScanState
    BY <1>2, <1>3, <1>4, <1>5, Zenon DEF ScanBlock, ScanState
<1>. QED
    BY <1>6, Zenon DEF ScanStep

\* Scan is the end of the recursion that goes back block by block.
LEMMA ScanIsRecursion ==
    ASSUME TypeOK
    PROVE  \E f \in [0..ScanLength -> ScanState] :
              /\ f[0] = ScanStart
              /\ \A k \in 1..ScanLength : f[k] = ScanStep(f[k - 1], Back(k))
              /\ Scan = f[ScanLength]
<1>. DEFINE n == ScanLength
            g == [k \in 1..n |-> [s \in ScanState |-> ScanStep(s, Back(k))]]
            F(f) == [k \in 0..n |-> IF k = 0 THEN ScanStart
                                    ELSE ScanStep(f[k - 1], Back(k))]
<1>0. n \in Nat
    BY BackType, Zenon
<1>1. ScanStart \in ScanState
  <2>1. [c \in Cvns |-> 0] \in [Cvns -> Nat]
      BY Zenon
  <2>2. << >> \in Seq(Cvns)
      BY SMT, Z3
  <2>. QED
      BY <2>1, <2>2, CreatorConstants, Zenon DEF ScanStart, ScanState
<1>2. g \in Steps(n, ScanState)
  <2>1. \A k \in 1..n : \A s \in ScanState : ScanStep(s, Back(k)) \in ScanState
      BY BackType, ScanStepType, Zenon
  <2>. QED
      BY <2>1, Zenon DEF Steps
<1>3. PICK f \in [0..n -> ScanState] :
          Solves(f, n, ScanStart, g)
  <2>. HIDE DEF n, g
  <2>. QED
      BY <1>0, <1>1, <1>2, RecursionExists, Zenon
<1>4. \A k \in 1..n : f[k] = ScanStep(f[k - 1], Back(k))
  <2>. TAKE k \in 1..n
  <2>1. k - 1 \in 0..n
      BY <1>0, SMT, Z3
  <2>2. f[k - 1] \in ScanState
      BY <1>3, <2>1, Zenon
  <2>. QED
      BY <1>3, <2>2, Zenon DEF Solves
<1>5. f = F(f)
  <2>1. \A k \in 0..n : k # 0 => k \in 1..n
      BY <1>0, SMT, Z3
  <2>2. \A k \in 0..n : f[k] = F(f)[k]
      BY <1>3, <1>4, <2>1, Zenon DEF Solves
  <2>3. DOMAIN f = 0..n /\ DOMAIN F(f) = 0..n
      BY <1>3, Zenon
  <2>. QED
      BY <1>3, <2>2, <2>3, Zenon
<1>. DEFINE c == CHOOSE h : h = F(h)
<1>6. c = F(c)
    BY <1>5, Zenon
<1>7. /\ c[0] = ScanStart
      /\ \A k \in 1..n : c[k] = ScanStep(c[k - 1], Back(k))
  <2>1. 0 \in 0..n /\ \A k \in 1..n : k \in 0..n /\ k # 0
      BY <1>0, SMT, Z3
  <2>2. \A k \in 0..n : c[k] = F(c)[k]
      BY <1>6, Zenon
  <2>3. \A k \in 0..n : F(c)[k] = IF k = 0 THEN ScanStart
                                  ELSE ScanStep(c[k - 1], Back(k))
      BY Zenon
  <2>. HIDE DEF c, F
  <2>. QED
      BY <2>1, <2>2, <2>3, Zenon
<1>8. c \in [0..n -> ScanState]
  <2>. DEFINE A == {k \in Nat : k \in 0..n => c[k] \in ScanState}
  <2>1. 0 \in A
      BY <1>1, <1>7, Zenon
  <2>2. ASSUME NEW k \in Nat, k \in A, k < n PROVE k + 1 \in A
    <3>1. k \in 0..n /\ k + 1 \in 1..n /\ (k + 1) - 1 = k
        BY <1>0, <2>2, SMT, Z3
    <3>2. c[k + 1] = ScanStep(c[k], Back(k + 1))
        BY <1>7, <3>1, Zenon
    <3>. QED
        BY <2>2, <3>1, <3>2, BackType, ScanStepType, SMT, Z3
  <2>3. \A k \in 0..n : k \in A
    <3>. HIDE DEF A, n
    <3>. QED
        BY <1>0, <2>1, <2>2, UpTo, Zenon
  <2>4. \A k \in 0..n : c[k] \in ScanState
      BY <2>3, Zenon
  <2>5. c = [k \in 0..n |-> c[k]]
    <3>1. c = [k \in 0..n |-> IF k = 0 THEN ScanStart ELSE ScanStep(c[k - 1], Back(k))]
        BY <1>6, Zenon
    <3>. HIDE DEF c
    <3>. QED
        BY <3>1, Zenon
  <2>. HIDE DEF c
  <2>. QED
      BY <2>4, <2>5, Zenon
<1>9. Scan = c[n]
    BY Zenon DEF Scan, ScanLength, ScanStart, ScanStep
<1>. HIDE DEF c, n
<1>. QED
    BY <1>7, <1>8, <1>9, Zenon DEF n
-----------------------------------------------------------------------------
(* What the scan finds.                                                    *)

\* LastCreated(c) is the place in the chain of c's newest block, or 0.
LEMMA LastCreatedIs ==
    ASSUME TypeOK, NEW c
    PROVE  /\ LastCreated(c) \in 0..Len(chain)
           /\ \A i \in 1..Len(chain) : chain[i].nCreatorId = c => i <= LastCreated(c)
           /\ LastCreated(c) > 0 => chain[LastCreated(c)].nCreatorId = c
<1>. DEFINE T == {0} \cup {i \in DOMAIN chain : chain[i].nCreatorId = c}
<1>1. Len(chain) \in Nat /\ DOMAIN chain = 1..Len(chain)
    BY SMT, Z3 DEF TypeOK
<1>2. T \in SUBSET Nat /\ T # {} /\ \A t \in T : t <= Len(chain)
    BY <1>1, SMT, Z3
<1>3. LastCreated(c) = Max(T)
    BY Zenon DEF LastCreated
<1>4. Max(T) \in T /\ \A t \in T : t <= Max(T)
  <2>. HIDE DEF T
  <2>. QED
      BY <1>1, <1>2, MaxOf, Zenon
<1>. QED
    BY <1>1, <1>3, <1>4, SMT, Z3

(* The state of the scan after k blocks.  The candidates are registered    *)
(* and not banned, each once, the one with the newest block first; they    *)
(* are those with a block among the k, unless the scan ended before; no    *)
(* CVN has more signatures than blocks were counted, and only registered   *)
(* ones have any.                                                          *)
ScanOk(s, k) ==
    /\ \A i \in 1..Len(s.cands) : /\ s.cands[i] \in mapCVNs \ banned
                                  /\ LastCreated(s.cands[i]) > Len(chain) - k
    /\ \A i, j \in 1..Len(s.cands) :
          i < j => LastCreated(s.cands[i]) > LastCreated(s.cands[j])
    /\ ~ScanDone(s) =>
          \A c \in mapCVNs \ banned :
              LastCreated(c) > Len(chain) - k => Seen(s.cands, c)
    /\ \A c \in Cvns : /\ s.sigs[c] + s.left <= MinSuccessiveSignatures
                       /\ s.sigs[c] > 0 => c \in mapCVNs

\* The candidates after a block that is not passed over.
LEMMA CandidatesStep ==
    ASSUME TypeOK, NEW k \in 0..(ScanLength - 1), NEW s \in ScanState,
           ScanOk(s, k), ~ScanDone(s), ~Ignored(Back(k + 1)),
           NEW t \in ScanState, t = ScanBlock(s, Back(k + 1))
    PROVE  /\ \A i \in 1..Len(t.cands) : /\ t.cands[i] \in mapCVNs \ banned
                                         /\ LastCreated(t.cands[i]) > Len(chain) - (k + 1)
           /\ \A i, j \in 1..Len(t.cands) :
                 i < j => LastCreated(t.cands[i]) > LastCreated(t.cands[j])
           /\ \A d \in mapCVNs \ banned :
                 LastCreated(d) > Len(chain) - (k + 1) => Seen(t.cands, d)
<1>. DEFINE c == Back(k + 1).nCreatorId
            L == Len(chain)
<1>1. L \in Nat \ {0} /\ ScanLength \in Nat /\ ScanLength <= L /\ k \in Nat
    BY BackType, SMT, Z3
<1>2. L - k \in 1..L /\ k + 1 \in 1..ScanLength
    BY <1>1, SMT, Z3
<1>3. Back(k + 1) = chain[L - k]
  <2>1. L + 1 - (k + 1) = L - k
      BY <1>1, SMT, Z3
  <2>. QED
      BY <2>1, Zenon DEF Back
<1>4. c \in mapCVNs \ banned
    BY Zenon DEF Ignored
<1>5. s.cands \in Seq(Cvns) /\ c \in Cvns
  <2>1. Back(k + 1) \in Block
      BY <1>2, BackType, Zenon
  <2>. QED
      BY <2>1, Zenon DEF ScanState, Block
<1>6. LastCreated(c) >= L - k
  <2>1. chain[L - k].nCreatorId = c
      BY <1>3, Zenon
  <2>. QED
      BY <1>2, <2>1, LastCreatedIs, Zenon
<1>7. \A d : LastCreated(d) \in Int
    BY <1>1, LastCreatedIs, SMT, Z3
<1>8. \A d : LastCreated(d) = L - k => d = c
  <2>. TAKE d
  <2>. HAVE LastCreated(d) = L - k
  <2>1. chain[L - k].nCreatorId = d
      BY <1>2, LastCreatedIs, SMT, Z3
  <2>. QED
      BY <1>3, <2>1, Zenon
<1>9. /\ \A i \in 1..Len(s.cands) : /\ s.cands[i] \in mapCVNs \ banned
                                    /\ LastCreated(s.cands[i]) > L - k
      /\ \A i, j \in 1..Len(s.cands) :
            i < j => LastCreated(s.cands[i]) > LastCreated(s.cands[j])
      /\ \A d \in mapCVNs \ banned : LastCreated(d) > L - k => Seen(s.cands, d)
    BY Zenon DEF ScanOk
<1>10. \A x \in Int : x > L - (k + 1) <=> x > L - k \/ x = L - k
    BY <1>1, SMT, Z3
<1>11. CASE Seen(s.cands, c)
  <2>1. t.cands = s.cands
      BY <1>11, Zenon DEF ScanBlock
  <2>2. \A d \in mapCVNs \ banned :
           LastCreated(d) > L - (k + 1) => Seen(s.cands, d)
      BY <1>7, <1>8, <1>9, <1>10, <1>11, Zenon
  <2>. HIDE DEF L
  <2>. QED
      BY <1>7, <1>9, <1>10, <2>1, <2>2, Zenon DEF L
<1>12. CASE ~Seen(s.cands, c)
  <2>. DEFINE m == Len(s.cands)
  <2>1. t.cands = Append(s.cands, c)
      BY <1>12, Zenon DEF ScanBlock
  <2>2. m \in Nat /\ Len(t.cands) = m + 1
      BY <1>5, <2>1, SMT, Z3
  <2>3. /\ t.cands[m + 1] = c
        /\ \A i \in 1..m : t.cands[i] = s.cands[i]
      BY <1>5, <2>1, SMT, Z3
  <2>4. LastCreated(c) = L - k
    <3>1. ~(LastCreated(c) > L - k)
        BY <1>4, <1>9, <1>12, Zenon
    <3>2. L - k \in Int
        BY <1>1, SMT, Z3
    <3>. HIDE DEF L, c
    <3>. QED
        BY <1>6, <1>7, <3>1, <3>2, SMT, Z3
  <2>5. \A i \in 1..(m + 1) : i \in 1..m \/ i = m + 1
      BY <2>2, SMT, Z3
  <2>6. \A i, j \in 1..(m + 1) : i < j => i \in 1..m /\ (j \in 1..m \/ j = m + 1)
      BY <2>2, SMT, Z3
  <2>. HIDE DEF L, m, c
  <2>7. \A i \in 1..(m + 1) : /\ t.cands[i] \in mapCVNs \ banned
                              /\ LastCreated(t.cands[i]) > L - (k + 1)
      BY <1>4, <1>7, <1>9, <1>10, <2>3, <2>4, <2>5, Zenon DEF m
  <2>8. \A i, j \in 1..(m + 1) :
           i < j => LastCreated(t.cands[i]) > LastCreated(t.cands[j])
      BY <1>9, <2>3, <2>4, <2>6, Zenon DEF m
  <2>9. \A d : Seen(s.cands, d) \/ d = c => Seen(t.cands, d)
    <3>1. DOMAIN s.cands = 1..m /\ DOMAIN t.cands = 1..(m + 1)
        BY <1>5, <2>2, SMT, Z3 DEF m, ScanState
    <3>2. m + 1 \in 1..(m + 1) /\ 1..m \subseteq 1..(m + 1)
        BY <2>2, SMT, Z3
    <3>. QED
        BY <2>3, <3>1, <3>2, Zenon DEF Seen
  <2>10. \A d \in mapCVNs \ banned :
            LastCreated(d) > L - (k + 1) => Seen(t.cands, d)
      BY <1>7, <1>8, <1>9, <1>10, <2>9, Zenon
  <2>. QED
      BY <2>2, <2>7, <2>8, <2>10, Zenon DEF L
<1>. QED
    BY <1>11, <1>12, Zenon

\* The signatures counted after a block that is not passed over.
LEMMA SignaturesStep ==
    ASSUME TypeOK, NEW k, NEW s \in ScanState, ScanOk(s, k), NEW b,
           NEW t, t = ScanBlock(s, b)
    PROVE  \A c \in Cvns : /\ t.sigs[c] + t.left <= MinSuccessiveSignatures
                           /\ t.sigs[c] > 0 => c \in mapCVNs
<1>. TAKE c \in Cvns
<1>1. s.sigs \in [Cvns -> Nat] /\ s.left \in Nat
    BY Zenon DEF ScanState
<1>2. s.sigs[c] + s.left <= MinSuccessiveSignatures /\ (s.sigs[c] > 0 => c \in mapCVNs)
    BY Zenon DEF ScanOk
<1>3. CASE s.left = 0
    BY <1>2, <1>3, Zenon DEF ScanBlock
<1>4. CASE s.left # 0
  <2>1. t.left = s.left - 1
      BY <1>4, Zenon DEF ScanBlock
  <2>2. t.sigs[c] = IF c \in mapCVNs \ b.vMissingSignerIds THEN s.sigs[c] + 1 ELSE s.sigs[c]
      BY <1>4, Zenon DEF ScanBlock
  <2>3. s.sigs[c] \in Nat /\ MinSuccessiveSignatures \in Nat
      BY <1>1, CreatorConstants, Zenon
  <2>. QED
      BY <1>1, <1>2, <1>4, <2>1, <2>2, <2>3, SMT, Z3
<1>. QED
    BY <1>3, <1>4, Zenon

\* One more block of the scan.
LEMMA ScanOkStep ==
    ASSUME TypeOK, NEW k \in 0..(ScanLength - 1), NEW s \in ScanState, ScanOk(s, k)
    PROVE  ScanOk(ScanStep(s, Back(k + 1)), k + 1)
<1>. DEFINE L == Len(chain)
<1>0. L \in Nat \ {0} /\ ScanLength \in Nat /\ ScanLength <= L /\ k \in Nat
    BY BackType, SMT, Z3
<1>1. k + 1 \in 1..ScanLength /\ L - k \in 1..L /\ L + 1 - (k + 1) = L - k
    BY <1>0, SMT, Z3
<1>2. Back(k + 1) \in Block
    BY <1>1, BackType, Zenon
<1>3. \A d : LastCreated(d) \in Int
    BY <1>0, LastCreatedIs, SMT, Z3
<1>4. \A x \in Int : x > L - (k + 1) <=> x > L - k \/ x = L - k
    BY <1>0, SMT, Z3
<1>5. CASE ScanDone(s)
  <2>1. ScanStep(s, Back(k + 1)) = s
      BY <1>5, Zenon DEF ScanStep
  <2>. QED
      BY <1>3, <1>4, <1>5, <2>1, Zenon DEF ScanOk
<1>6. CASE ~ScanDone(s) /\ Ignored(Back(k + 1))
  <2>1. ScanStep(s, Back(k + 1)) = s
      BY <1>6, Zenon DEF ScanStep
  <2>2. \A d \in mapCVNs \ banned : LastCreated(d) # L - k
    <3>. SUFFICES ASSUME NEW d \in mapCVNs \ banned, LastCreated(d) = L - k
                  PROVE  FALSE
        BY Zenon
    <3>1. chain[L - k].nCreatorId = d
        BY <1>1, LastCreatedIs, SMT, Z3
    <3>2. Back(k + 1).nCreatorId = d
        BY <1>1, <3>1, Zenon DEF Back
    <3>. QED
        BY <1>6, <3>2, Zenon DEF Ignored
  <2>. HIDE DEF L
  <2>. QED
      BY <1>3, <1>4, <1>6, <2>1, <2>2, Zenon DEF ScanOk, L
<1>7. CASE ~ScanDone(s) /\ ~Ignored(Back(k + 1))
  <2>. DEFINE t == ScanBlock(s, Back(k + 1))
  <2>1. ScanStep(s, Back(k + 1)) = t
      BY <1>7, Zenon DEF ScanStep
  <2>2. t \in ScanState
      BY <1>2, <2>1, ScanStepType, Zenon
  <2>3. t = ScanBlock(s, Back(k + 1))
      BY Zenon
  <2>. HIDE DEF t
  <2>. QED
      BY <1>7, <2>1, <2>2, <2>3, CandidatesStep, SignaturesStep, Zenon DEF ScanOk
<1>. QED
    BY <1>5, <1>6, <1>7, Zenon

\* What the whole scan finds.
LEMMA ScanFinds ==
    ASSUME TypeOK
    PROVE  Scan \in ScanState /\ ScanOk(Scan, ScanLength)
<1>1. PICK f \in [0..ScanLength -> ScanState] :
          /\ f[0] = ScanStart
          /\ \A k \in 1..ScanLength : f[k] = ScanStep(f[k - 1], Back(k))
          /\ Scan = f[ScanLength]
    BY ScanIsRecursion, Zenon
<1>. DEFINE A == {k \in Nat : k \in 0..ScanLength => ScanOk(f[k], k)}
<1>2. ScanLength \in Nat /\ Len(chain) \in Nat
    BY BackType, Zenon
<1>3. ScanOk(ScanStart, 0)
  <2>1. \A c : ~(LastCreated(c) > Len(chain) - 0)
      BY <1>2, LastCreatedIs, SMT, Z3
  <2>2. Len(ScanStart.cands) = 0 /\ 1..0 = {}
      BY SMT, Z3 DEF ScanStart
  <2>3. \A c \in Cvns : ScanStart.sigs[c] = 0
      BY Zenon DEF ScanStart
  <2>4. ScanStart.left = MinSuccessiveSignatures /\ MinSuccessiveSignatures \in Nat
      BY CreatorConstants, Zenon DEF ScanStart
  <2>. QED
      BY <2>1, <2>2, <2>3, <2>4, SMT, Z3 DEF ScanOk
<1>4. 0 \in A
    BY <1>1, <1>3, Zenon
<1>5. ASSUME NEW k \in Nat, k \in A, k < ScanLength PROVE k + 1 \in A
  <2>1. k \in 0..ScanLength /\ k + 1 \in 1..ScanLength /\ (k + 1) - 1 = k
        /\ k \in 0..(ScanLength - 1)
      BY <1>2, <1>5, SMT, Z3
  <2>2. f[k + 1] = ScanStep(f[k], Back(k + 1))
      BY <1>1, <2>1, Zenon
  <2>3. f[k] \in ScanState /\ ScanOk(f[k], k)
      BY <1>5, <2>1, Zenon
  <2>4. ScanOk(f[k + 1], k + 1)
      BY <2>1, <2>2, <2>3, ScanOkStep, Zenon
  <2>. QED
      BY <2>4, SMT, Z3
<1>6. \A k \in 0..ScanLength : k \in A
  <2>. HIDE DEF A
  <2>. QED
      BY <1>2, <1>4, <1>5, UpTo, Zenon
<1>7. ScanLength \in 0..ScanLength
    BY <1>2, SMT, Z3
<1>. QED
    BY <1>1, <1>6, <1>7, Zenon
-----------------------------------------------------------------------------
(* The choice among the candidates.                                        *)

\* The list of candidates, the favoured CVN first if there is one.
LEMMA CandidatesAre ==
    ASSUME NEW s \in ScanState, Favoured(s) \in Cvns \cup {NoCvn}
    PROVE  /\ Candidates(s) \in Seq(Cvns)
           /\ Favoured(s) # NoCvn =>
                 /\ Len(Candidates(s)) = Len(s.cands) + 1
                 /\ Candidates(s)[1] = Favoured(s)
                 /\ \A i \in 2..Len(Candidates(s)) :
                       \E j \in 1..Len(s.cands) : Candidates(s)[i] = s.cands[j]
           /\ Favoured(s) = NoCvn =>
                 /\ Len(Candidates(s)) = Len(s.cands)
                 /\ \A i \in 1..Len(s.cands) :
                       Candidates(s)[i] = s.cands[Len(s.cands) + 1 - i]
<1>. DEFINE n == Len(s.cands)
            byWeight == [i \in 1..n |-> s.cands[n + 1 - i]]
<1>1. s.cands \in Seq(Cvns) /\ n \in Nat
    BY SMT, Z3 DEF ScanState
<1>2. \A i \in 1..n : n + 1 - i \in 1..n
    BY <1>1, SMT, Z3
<1>3. byWeight \in Seq(Cvns) /\ Len(byWeight) = n
    BY <1>1, <1>2, SMT, Z3
<1>4. CASE Favoured(s) = NoCvn
  <2>1. Candidates(s) = byWeight
      BY <1>4, Zenon DEF Candidates
  <2>. QED
      BY <1>3, <1>4, <2>1, Zenon
<1>5. CASE Favoured(s) # NoCvn
  <2>1. Candidates(s) = <<Favoured(s)>> \o byWeight
      BY <1>5, Zenon DEF Candidates
  <2>2. <<Favoured(s)>> \in Seq(Cvns) /\ Len(<<Favoured(s)>>) = 1
      BY <1>5, SMT, Z3
  <2>3. \A i \in 1..n : \E j \in 1..n : byWeight[i] = s.cands[j]
      BY <1>2, Zenon
  <2>. HIDE DEF byWeight
  <2>4. /\ Candidates(s) \in Seq(Cvns)
        /\ Len(Candidates(s)) = 1 + n
        /\ Candidates(s)[1] = Favoured(s)
        /\ \A i \in 2..(1 + n) : Candidates(s)[i] = byWeight[i - 1]
      BY <1>1, <1>3, <2>1, <2>2, SMT, Z3
  <2>5. \A i \in 2..(1 + n) : i - 1 \in 1..n
      BY <1>1, SMT, Z3
  <2>6. Len(Candidates(s)) = n + 1 /\ 2..Len(Candidates(s)) = 2..(1 + n)
      BY <1>1, <2>4, SMT, Z3
  <2>7. \A i \in 2..Len(Candidates(s)) : \E j \in 1..n : Candidates(s)[i] = s.cands[j]
    <3>. TAKE i \in 2..Len(Candidates(s))
    <3>1. Candidates(s)[i] = byWeight[i - 1] /\ i - 1 \in 1..n
        BY <2>4, <2>5, <2>6, Zenon
    <3>. QED
        BY <2>3, <3>1, Zenon
  <2>. QED
      BY <1>5, <2>4, <2>6, <2>7, Zenon
<1>. QED
    BY <1>4, <1>5, Zenon

\* No CVN has more signatures than are asked for.
Counted(s) == \A c \in Cvns : s.sigs[c] <= MinSuccessiveSignatures

\* The candidates from the offset on, and the greatest number of signatures.
FromOffset(s, slot) == ((slot % Len(Candidates(s))) + 1)..Len(Candidates(s))

Most(s, slot) == Max({s.sigs[Candidates(s)[i]] : i \in FromOffset(s, slot)})

Firsts(s, slot) == {i \in FromOffset(s, slot) : s.sigs[Candidates(s)[i]] = Most(s, slot)}

\* The greatest number of signatures is that of a candidate, and the first
\* with that many is chosen.
LEMMA ChoiceIs ==
    ASSUME NEW s \in ScanState, Counted(s), Favoured(s) \in Cvns \cup {NoCvn},
           NEW slot \in Nat, Candidates(s) # << >>
    PROVE  /\ FromOffset(s, slot) \subseteq 1..Len(Candidates(s))
           /\ Most(s, slot) \in Nat
           /\ \A i \in FromOffset(s, slot) : s.sigs[Candidates(s)[i]] <= Most(s, slot)
           /\ Min(Firsts(s, slot)) \in Firsts(s, slot)
           /\ \A i \in Firsts(s, slot) : Min(Firsts(s, slot)) <= i
           /\ Choice(s, slot) = IF Most(s, slot) = 0 THEN Favoured(s)
                                ELSE Candidates(s)[Min(Firsts(s, slot))]
<1>. DEFINE cs == Candidates(s)
            tail == FromOffset(s, slot)
            V == {s.sigs[cs[i]] : i \in tail}
<1>1. cs \in Seq(Cvns) /\ Len(cs) \in Nat \ {0}
    BY CandidatesAre, SMT, Z3
<1>2. slot % Len(cs) \in 0..(Len(cs) - 1)
  <2>. HIDE DEF cs
  <2>. QED
      BY <1>1, SMT, Z3
<1>3. tail \subseteq 1..Len(cs) /\ Len(cs) \in tail
    BY <1>1, <1>2, SMT, Z3 DEF FromOffset
<1>4. s.sigs \in [Cvns -> Nat] /\ MinSuccessiveSignatures \in Nat
    BY CreatorConstants, Zenon DEF ScanState
<1>5. \A i \in tail : cs[i] \in Cvns
  <2>. HIDE DEF cs, tail
  <2>. QED
      BY <1>1, <1>3, SMT, Z3
<1>6. V \in SUBSET Nat /\ V # {} /\ \A v \in V : v <= MinSuccessiveSignatures
  <2>. HIDE DEF cs, tail
  <2>. QED
      BY <1>3, <1>4, <1>5, Zenon DEF Counted
<1>7. Max(V) \in V /\ \A v \in V : v <= Max(V)
  <2>. HIDE DEF V
  <2>. QED
      BY <1>4, <1>6, MaxOf, Zenon
<1>8. Most(s, slot) = Max(V)
    BY Zenon DEF Most
<1>9. \A i \in tail : s.sigs[cs[i]] <= Most(s, slot)
  <2>1. \A i \in tail : s.sigs[cs[i]] \in V
      BY Zenon
  <2>. HIDE DEF cs, tail, V
  <2>. QED
      BY <1>7, <1>8, <2>1, Zenon
<1>10. Firsts(s, slot) # {} /\ Firsts(s, slot) \in SUBSET Nat
  <2>1. PICK i \in tail : s.sigs[cs[i]] = Max(V)
      BY <1>7, Zenon
  <2>2. Firsts(s, slot) \subseteq tail
      BY Zenon DEF Firsts
  <2>3. 1..Len(cs) \subseteq Nat
      BY SMT, Z3
  <2>4. i \in Firsts(s, slot)
      BY <1>8, <2>1, Zenon DEF Firsts
  <2>. QED
      BY <1>3, <2>2, <2>3, <2>4, Zenon
<1>11. /\ Min(Firsts(s, slot)) \in Firsts(s, slot)
       /\ \A i \in Firsts(s, slot) : Min(Firsts(s, slot)) <= i
    BY <1>10, MinOf, Zenon
<1>12. Choice(s, slot) = IF Most(s, slot) = 0 THEN Favoured(s)
                         ELSE cs[Min(Firsts(s, slot))]
    BY Zenon DEF Choice, Most, Firsts, FromOffset
<1>13. Most(s, slot) \in Nat
  <2>. HIDE DEF V
  <2>. QED
      BY <1>6, <1>7, <1>8, Zenon
<1>. QED
    BY <1>3, <1>9, <1>11, <1>12, <1>13, Zenon

\* The choice is one of the candidates, the favoured CVN or nobody.
LEMMA ChoiceAmong ==
    ASSUME NEW s \in ScanState, Counted(s), Favoured(s) \in Cvns \cup {NoCvn},
           NEW slot \in Nat
    PROVE  \/ Choice(s, slot) \in {NoCvn, Favoured(s)}
           \/ \E i \in 1..Len(s.cands) : Choice(s, slot) = s.cands[i]
<1>1. CASE Candidates(s) = << >>
    BY <1>1, Zenon DEF Choice
<1>2. CASE Candidates(s) # << >> /\ Most(s, slot) = 0
    BY <1>2, ChoiceIs, Zenon
<1>3. CASE Candidates(s) # << >> /\ Most(s, slot) # 0
  <2>. DEFINE i == Min(Firsts(s, slot))
              n == Len(s.cands)
  <2>1. i \in 1..Len(Candidates(s)) /\ Choice(s, slot) = Candidates(s)[i]
      BY <1>3, ChoiceIs, Zenon DEF Firsts
  <2>2. n \in Nat
      BY SMT, Z3 DEF ScanState
  <2>. HIDE DEF i
  <2>3. CASE Favoured(s) = NoCvn
    <3>1. i \in 1..n /\ Candidates(s)[i] = s.cands[n + 1 - i]
        BY <2>1, <2>3, CandidatesAre, Zenon
    <3>2. n + 1 - i \in 1..n
        BY <2>2, <3>1, SMT, Z3
    <3>. QED
        BY <2>1, <3>1, <3>2, Zenon
  <2>4. CASE Favoured(s) # NoCvn
    <3>1. i = 1 \/ i \in 2..Len(Candidates(s))
        BY <2>1, <2>2, <2>4, CandidatesAre, SMT, Z3
    <3>. QED
        BY <2>1, <2>4, <3>1, CandidatesAre, SMT, Z3
  <2>. QED
      BY <2>3, <2>4, Zenon
<1>. QED
    BY <1>1, <1>2, <1>3, Zenon

\* On time, if a candidate has all the signatures asked for, the first such
\* candidate is chosen.
LEMMA ChoiceOnTime ==
    ASSUME NEW s \in ScanState, Counted(s), Favoured(s) \in Cvns \cup {NoCvn},
           NEW a \in 1..Len(Candidates(s)),
           s.sigs[Candidates(s)[a]] >= MinSuccessiveSignatures
    PROVE  \E j \in 1..Len(Candidates(s)) :
              /\ Choice(s, 0) = Candidates(s)[j]
              /\ s.sigs[Candidates(s)[j]] >= MinSuccessiveSignatures
              /\ \A i \in 1..Len(Candidates(s)) :
                    s.sigs[Candidates(s)[i]] >= MinSuccessiveSignatures => j <= i
<1>. DEFINE cs == Candidates(s)
            M == MinSuccessiveSignatures
            j == Min(Firsts(s, 0))
<1>1. cs \in Seq(Cvns) /\ Len(cs) \in Nat \ {0} /\ cs # << >>
    BY CandidatesAre, SMT, Z3
<1>2. FromOffset(s, 0) = 1..Len(cs)
  <2>1. \A n \in Nat \ {0} : (0 % n) + 1 = 1
      BY SMT, Z3
  <2>. QED
      BY <1>1, <2>1, Zenon DEF FromOffset
<1>3. s.sigs \in [Cvns -> Nat] /\ M \in Nat \ {0}
    BY CreatorConstants, Zenon DEF ScanState
<1>4. \A i \in 1..Len(cs) : /\ s.sigs[cs[i]] \in Nat
                            /\ s.sigs[cs[i]] <= M
                            /\ s.sigs[cs[i]] <= Most(s, 0)
  <2>1. \A i \in 1..Len(cs) : cs[i] \in Cvns
    <3>. HIDE DEF cs
    <3>. QED
        BY <1>1, SMT, Z3
  <2>2. \A i \in FromOffset(s, 0) : s.sigs[cs[i]] <= Most(s, 0)
      BY <1>1, ChoiceIs, Zenon
  <2>. QED
      BY <1>2, <1>3, <2>1, <2>2, Zenon DEF Counted
<1>5. /\ Most(s, 0) \in Nat
      /\ j \in Firsts(s, 0) /\ \A i \in Firsts(s, 0) : j <= i
      /\ Choice(s, 0) = IF Most(s, 0) = 0 THEN Favoured(s) ELSE cs[j]
    BY <1>1, ChoiceIs, Zenon
<1>6. \A i : i \in Firsts(s, 0) <=> i \in 1..Len(cs) /\ s.sigs[cs[i]] = Most(s, 0)
    BY <1>2, Zenon DEF Firsts
<1>. HIDE DEF cs, j
<1>7. Most(s, 0) = M
  <2>1. s.sigs[cs[a]] = M
      BY <1>3, <1>4, SMT, Z3 DEF cs
  <2>2. s.sigs[cs[j]] = Most(s, 0) /\ j \in 1..Len(cs)
      BY <1>5, <1>6, Zenon
  <2>3. M <= Most(s, 0)
      BY <1>4, <2>1, Zenon DEF cs
  <2>4. Most(s, 0) <= M
      BY <1>4, <2>2, Zenon
  <2>. QED
      BY <1>3, <1>5, <2>3, <2>4, SMT, Z3
<1>8. Choice(s, 0) = cs[j] /\ j \in 1..Len(cs) /\ s.sigs[cs[j]] = M
    BY <1>3, <1>5, <1>6, <1>7, Zenon
<1>9. \A i \in 1..Len(cs) : s.sigs[cs[i]] >= M => i \in Firsts(s, 0)
    BY <1>3, <1>4, <1>6, <1>7, SMT, Z3
<1>. QED
    BY <1>3, <1>5, <1>8, <1>9, SMT, Z3 DEF cs
-----------------------------------------------------------------------------
(* The dormant nodes and the oldest active CVN.                            *)

\* The signatures counted by the scan, and whose they are.
LEMMA ScanCounted ==
    ASSUME TypeOK
    PROVE  /\ Counted(Scan)
           /\ \A c \in Cvns : Scan.sigs[c] >= MinSuccessiveSignatures => c \in mapCVNs
<1>1. /\ Scan.sigs \in [Cvns -> Nat] /\ Scan.left \in Nat
      /\ MinSuccessiveSignatures \in Nat \ {0}
    BY ScanFinds, CreatorConstants, Zenon DEF ScanState
<1>2. \A c \in Cvns : /\ Scan.sigs[c] + Scan.left <= MinSuccessiveSignatures
                      /\ Scan.sigs[c] > 0 => c \in mapCVNs
    BY ScanFinds, Zenon DEF ScanOk
<1>3. \A c \in Cvns : Scan.sigs[c] \in Nat
    BY <1>1, Zenon
<1>. QED
    BY <1>1, <1>2, <1>3, SMT, Z3 DEF Counted

\* The dormant nodes are registered and not banned.
LEMMA DormantRegistered ==
    ASSUME TypeOK
    PROVE  DormantNodes(Scan) \subseteq Cvns \cap (mapCVNs \ banned)
BY ScanCounted, Zenon DEF DormantNodes

\* FindDormantNode answers with a dormant node or with none.
LEMMA DormantNodeFound ==
    ASSUME TypeOK, NEW s, DormantNodes(s) \subseteq Cvns
    PROVE  /\ FindDormantNode(s) \in DormantNodes(s) \cup {NoCvn}
           /\ /\ DormantNodes(s) # {}
              /\ Cardinality(DormantNodes(s)) > 1 =>
                    \A c \in DormantNodes(s) : LastCreated(c) > 0
              => /\ FindDormantNode(s) \in DormantNodes(s)
                 /\ \A c \in DormantNodes(s) :
                       LastCreated(FindDormantNode(s)) <= LastCreated(c)
           /\ DormantNodes(s) = {} => FindDormantNode(s) = NoCvn
<1>. DEFINE nodes == DormantNodes(s)
<1>0. Len(chain) \in Nat /\ \A c : LastCreated(c) \in Nat
    BY BackType, LastCreatedIs, SMT, Z3
<1>1. IsFiniteSet(nodes) /\ Cardinality(nodes) \in Nat
    BY CreatorConstants, FS_Subset, FS_CardinalityType, Zenon
<1>. HIDE DEF nodes
<1>2. nodes # {} => \E c \in nodes : \A d \in nodes : LastCreated(c) <= LastCreated(d)
  <2>. SUFFICES ASSUME nodes # {}
                PROVE  \E c \in nodes : \A d \in nodes : LastCreated(c) <= LastCreated(d)
      BY Zenon
  <2>. DEFINE T == {LastCreated(c) : c \in nodes}
  <2>1. T \in SUBSET Nat /\ T # {}
      BY <1>0, Zenon
  <2>2. PICK m \in T : \A t \in T : m <= t
    <3>. HIDE DEF T
    <3>. QED
        BY <2>1, LeastElement, Zenon
  <2>3. PICK c \in nodes : LastCreated(c) = m
      BY <2>2, Zenon
  <2>. QED
      BY <2>2, <2>3, Zenon
<1>3. Cardinality(nodes) = 1 => \E x : nodes = {x}
    BY <1>1, FS_Singleton, Zenon
<1>4. nodes # {} => Cardinality(nodes) # 0
    BY <1>1, FS_EmptySet, Zenon
<1>5. FindDormantNode(s) =
        IF Cardinality(nodes) = 1 THEN CHOOSE c \in nodes : TRUE
        ELSE IF nodes = {} \/ \E c \in nodes : LastCreated(c) = 0 THEN NoCvn
        ELSE CHOOSE c \in nodes : \A d \in nodes : LastCreated(c) <= LastCreated(d)
    BY Zenon DEF FindDormantNode, nodes
<1>6. CASE Cardinality(nodes) = 1
  <2>1. PICK x : nodes = {x}
      BY <1>3, <1>6, Zenon
  <2>2. FindDormantNode(s) = x
      BY <1>5, <1>6, <2>1, Zenon
  <2>. QED
      BY <1>0, <2>1, <2>2, SMT, Z3 DEF nodes
<1>7. CASE nodes = {}
  <2>1. Cardinality(nodes) = 0
      BY <1>7, FS_EmptySet, Zenon
  <2>2. FindDormantNode(s) = NoCvn
      BY <1>5, <1>7, <2>1, SMT, Z3
  <2>. QED
      BY <1>7, <2>2, Zenon DEF nodes
<1>8. CASE Cardinality(nodes) # 1 /\ nodes # {}
  <2>0. Cardinality(nodes) > 1
      BY <1>1, <1>4, <1>8, SMT, Z3
  <2>1. CASE \E c \in nodes : LastCreated(c) = 0
      BY <1>0, <1>5, <1>8, <2>0, <2>1, SMT, Z3 DEF nodes
  <2>2. CASE ~\E c \in nodes : LastCreated(c) = 0
    <3>1. FindDormantNode(s) =
             CHOOSE c \in nodes : \A d \in nodes : LastCreated(c) <= LastCreated(d)
        BY <1>5, <1>8, <2>2, Zenon
    <3>2. /\ FindDormantNode(s) \in nodes
          /\ \A d \in nodes : LastCreated(FindDormantNode(s)) <= LastCreated(d)
        BY <1>2, <1>8, <3>1, Zenon
    <3>. QED
        BY <1>8, <3>2, Zenon DEF nodes
  <2>. QED
      BY <2>1, <2>2, Zenon
<1>. QED
    BY <1>6, <1>7, <1>8, Zenon

\* DormantChosen in every well-formed state.
LEMMA DormantNodeCreates == TypeOK => DormantChosen
<1>. DEFINE s == Scan
            nodes == DormantNodes(s)
            d == FindDormantNode(s)
<1>. SUFFICES ASSUME TypeOK, FindNewlyAddedCVN = NoCvn,
                     Len(s.cands) < Cardinality(mapCVNs), nodes # {},
                     Cardinality(nodes) > 1 => \A c \in nodes : LastCreated(c) > 0
              PROVE  /\ Choice(s, 0) \in nodes
                     /\ \A c \in nodes : LastCreated(Choice(s, 0)) <= LastCreated(c)
    BY Zenon DEF DormantChosen
<1>1. s \in ScanState /\ Counted(s)
    BY ScanFinds, ScanCounted, Zenon
<1>2. nodes \subseteq Cvns
    BY DormantRegistered, Zenon
<1>3. d \in nodes /\ \A c \in nodes : LastCreated(d) <= LastCreated(c)
    BY <1>2, DormantNodeFound, Zenon
<1>4. d \in Cvns /\ d # NoCvn /\ s.sigs[d] >= MinSuccessiveSignatures
    BY <1>3, CreatorConstants, Zenon DEF DormantNodes
<1>5. Favoured(s) = d
    BY Zenon DEF Favoured
<1>. HIDE DEF s, d
<1>6. /\ Len(Candidates(s)) = Len(s.cands) + 1
      /\ Candidates(s)[1] = d
    BY <1>1, <1>4, <1>5, CandidatesAre, Zenon
<1>7. Len(s.cands) \in Nat
    BY <1>1, SMT, Z3 DEF ScanState
<1>8. 1 \in 1..Len(Candidates(s))
    BY <1>6, <1>7, SMT, Z3
<1>9. PICK j \in 1..Len(Candidates(s)) :
          /\ Choice(s, 0) = Candidates(s)[j]
          /\ \A i \in 1..Len(Candidates(s)) :
                s.sigs[Candidates(s)[i]] >= MinSuccessiveSignatures => j <= i
    BY <1>1, <1>4, <1>5, <1>6, <1>8, ChoiceOnTime, Zenon
<1>10. j = 1
    BY <1>4, <1>6, <1>8, <1>9, SMT, Z3
<1>. QED
    BY <1>3, <1>6, <1>9, <1>10, Zenon

(* A dormant node creates the next block on time, of several the one with  *)
(* the oldest block: what CheckNextBlockCreator makes of FindDormantNode's *)
(* answer, for every number of CVNs, length of the scan and number of      *)
(* signatures asked for.                                                   *)
THEOREM DormantAlwaysChosen == Spec => []DormantChosen
BY CreatorTypeCorrect, DormantNodeCreates, PTL

\* With no CVN favoured, every active CVN is among the candidates.
LEMMA ActiveSeen ==
    ASSUME TypeOK, NEW d \in Active(Scan),
           Len(Scan.cands) < Cardinality(mapCVNs) => DormantNodes(Scan) = {}
    PROVE  Seen(Scan.cands, d)
<1>. DEFINE s == Scan
            n == Len(s.cands)
            R == mapCVNs \ banned
<1>1. s \in ScanState /\ ScanOk(s, ScanLength)
    BY ScanFinds, Zenon
<1>2. d \in R /\ s.sigs[d] >= MinSuccessiveSignatures
    BY Zenon DEF Active
<1>3. mapCVNs \subseteq Cvns
    BY RegisteredType, Zenon
<1>4. CASE n < Cardinality(mapCVNs)
    BY <1>2, <1>3, <1>4, Zenon DEF DormantNodes
<1>5. CASE ~(n < Cardinality(mapCVNs))
  <2>. HIDE DEF s
  <2>1. s.cands \in Seq(Cvns) /\ n \in Nat /\ DOMAIN s.cands = 1..n
      BY <1>1, SMT, Z3 DEF ScanState
  <2>2. IsFiniteSet(mapCVNs) /\ Cardinality(mapCVNs) \in Nat
      BY <1>3, CreatorConstants, FS_Subset, FS_CardinalityType, Zenon
  <2>3. /\ IsFiniteSet(R) /\ Cardinality(R) \in Nat
        /\ Cardinality(R) <= Cardinality(mapCVNs)
    <3>1. R \in SUBSET mapCVNs
        BY Zenon
    <3>. HIDE DEF R
    <3>. QED
        BY <2>2, <3>1, FS_Subset, FS_CardinalityType, Zenon
  <2>4. \A i \in 1..n : s.cands[i] \in R
      BY <1>1, Zenon DEF ScanOk
  <2>5. s.cands \in [1..n -> R]
    <3>. HIDE DEF R
    <3>. QED
        BY <2>1, <2>4, SMT, Z3
  <2>6. ASSUME NEW i \in 1..n, NEW j \in 1..n, s.cands[i] = s.cands[j] PROVE i = j
    <3>1. \A a, b \in 1..n : a < b => LastCreated(s.cands[a]) > LastCreated(s.cands[b])
        BY <1>1, Zenon DEF ScanOk
    <3>2. LastCreated(s.cands[i]) \in Int
        BY LastCreatedIs, BackType, SMT, Z3
    <3>3. ~(i < j) /\ ~(j < i)
        BY <2>6, <3>1, <3>2, SMT, Z3
    <3>. QED
        BY <2>1, <3>3, SMT, Z3
  <2>7. s.cands \in Injection(1..n, R)
    <3>. HIDE DEF R
    <3>. QED
        BY <2>5, <2>6, Zenon DEF Injection, IsInjective
  <2>8. IsFiniteSet(1..n) /\ Cardinality(1..n) = n
      BY <2>1, FS_Interval, SMT, Z3
  <2>. HIDE DEF R
  <2>9. /\ Cardinality(1..n) <= Cardinality(R)
        /\ Cardinality(1..n) = Cardinality(R) => s.cands \in Surjection(1..n, R)
      BY <2>3, <2>7, FS_Injection, SMT, Z3
  <2>10. n = Cardinality(R)
      BY <1>5, <2>1, <2>2, <2>3, <2>8, <2>9, SMT, Z3
  <2>11. \E i \in 1..n : s.cands[i] = d
      BY <1>2, <2>8, <2>9, <2>10, Zenon DEF Surjection
  <2>. QED
      BY <2>1, <2>11, Zenon DEF Seen, s
<1>. QED
    BY <1>4, <1>5, Zenon

\* OldestActiveCreates in every well-formed state.
LEMMA OldestCreates == TypeOK => OldestActiveCreates
<1>. DEFINE s == Scan
            c == Choice(s, 0)
            n == Len(s.cands)
<1>. SUFFICES ASSUME TypeOK, FindNewlyAddedCVN = NoCvn,
                     \A d \in mapCVNs : LastCreated(d) > 0, Active(s) # {}
              PROVE  c \in Active(s) /\ \A d \in Active(s) : LastCreated(c) <= LastCreated(d)
    BY Zenon DEF OldestActiveCreates
<1>1. s \in ScanState /\ Counted(s) /\ ScanOk(s, ScanLength)
    BY ScanFinds, ScanCounted, Zenon
<1>2. DormantNodes(s) \subseteq Cvns \cap (mapCVNs \ banned)
    BY DormantRegistered, Zenon
<1>3. n \in Nat /\ DOMAIN s.cands = 1..n /\ s.cands \in Seq(Cvns)
    BY <1>1, SMT, Z3 DEF ScanState
<1>4. \A d : LastCreated(d) \in Int
    BY LastCreatedIs, BackType, SMT, Z3
<1>5. Len(chain) \in Nat /\ ScanLength \in Nat
    BY BackType, Zenon
<1>6. CASE n < Cardinality(mapCVNs) /\ DormantNodes(s) # {}
  <2>1. c \in DormantNodes(s) /\ \A d \in DormantNodes(s) : LastCreated(c) <= LastCreated(d)
      BY <1>2, <1>6, DormantNodeCreates, Zenon DEF DormantChosen
  <2>2. c \in Active(s) /\ ~Seen(s.cands, c)
      BY <1>2, <2>1, Zenon DEF Active, DormantNodes
  <2>3. ASSUME NEW d \in Active(s) PROVE LastCreated(c) <= LastCreated(d)
    <3>1. CASE d \in DormantNodes(s)
        BY <2>1, <3>1, Zenon
    <3>2. CASE d \notin DormantNodes(s)
      <4>1. mapCVNs \subseteq Cvns
          BY RegisteredType, Zenon
      <4>2. Seen(s.cands, d)
          BY <2>3, <3>2, <4>1, Zenon DEF Active, DormantNodes
      <4>3. PICK i \in 1..n : s.cands[i] = d
          BY <1>3, <4>2, Zenon DEF Seen
      <4>4. LastCreated(d) > Len(chain) - ScanLength
          BY <1>1, <4>3, Zenon DEF ScanOk
      <4>5. ~ScanDone(s)
        <5>1. Cardinality(mapCVNs) \in Nat
            BY <4>1, CreatorConstants, FS_Subset, FS_CardinalityType, Zenon
        <5>. QED
            BY <1>3, <1>6, <5>1, SMT, Z3 DEF ScanDone
      <4>6. ~(LastCreated(c) > Len(chain) - ScanLength)
          BY <1>1, <2>2, <4>5, Zenon DEF ScanOk, Active
      <4>. HIDE DEF c, s
      <4>. QED
          BY <1>4, <1>5, <4>4, <4>6, SMT, Z3
    <3>. QED
        BY <3>1, <3>2, Zenon
  <2>. QED
      BY <2>2, <2>3, Zenon
<1>7. CASE n < Cardinality(mapCVNs) => DormantNodes(s) = {}
  <2>1. Favoured(s) = NoCvn
      BY <1>2, <1>7, DormantNodeFound, Zenon DEF Favoured
  <2>2. /\ Len(Candidates(s)) = n
        /\ \A i \in 1..n : Candidates(s)[i] = s.cands[n + 1 - i]
    <3>. HIDE DEF s
    <3>. QED
        BY <1>1, <2>1, CandidatesAre, Zenon
  <2>3. \A d \in Active(s) : \E i \in 1..n : s.cands[i] = d
      BY <1>3, <1>7, ActiveSeen, Zenon DEF Seen
  <2>4. \A i \in 1..n : n + 1 - i \in 1..n /\ n + 1 - (n + 1 - i) = i
      BY <1>3, SMT, Z3
  <2>5. \A d \in Active(s) : s.sigs[d] >= MinSuccessiveSignatures
      BY Zenon DEF Active
  <2>6. \A i \in 1..n : s.cands[i] \in mapCVNs \ banned
      BY <1>1, Zenon DEF ScanOk
  <2>7. \A i, j \in 1..n : i < j => LastCreated(s.cands[i]) > LastCreated(s.cands[j])
      BY <1>1, Zenon DEF ScanOk
  <2>. HIDE DEF s, n, c
  <2>8. PICK a \in 1..n : s.cands[a] \in Active(s)
      BY <2>3, Zenon
  <2>9. /\ n + 1 - a \in 1..Len(Candidates(s))
        /\ s.sigs[Candidates(s)[n + 1 - a]] >= MinSuccessiveSignatures
      BY <2>2, <2>4, <2>5, <2>8, SMT, Z3
  <2>10. PICK j \in 1..Len(Candidates(s)) :
            /\ Choice(s, 0) = Candidates(s)[j]
            /\ s.sigs[Candidates(s)[j]] >= MinSuccessiveSignatures
            /\ \A i \in 1..Len(Candidates(s)) :
                  s.sigs[Candidates(s)[i]] >= MinSuccessiveSignatures => j <= i
      BY <1>1, <2>1, <2>9, ChoiceOnTime, Zenon
  <2>11. /\ j \in 1..n /\ n + 1 - j \in 1..n
         /\ c = s.cands[n + 1 - j]
         /\ s.sigs[c] >= MinSuccessiveSignatures
      BY <2>2, <2>4, <2>10, Zenon DEF c
  <2>12. c \in Active(s)
      BY <2>6, <2>11, Zenon DEF Active
  <2>13. ASSUME NEW d \in Active(s) PROVE LastCreated(c) <= LastCreated(d)
    <3>1. PICK i \in 1..n : s.cands[i] = d
        BY <2>3, Zenon
    <3>2. n + 1 - i \in 1..n /\ Candidates(s)[n + 1 - i] = d
        BY <2>2, <2>4, <3>1, Zenon
    <3>3. j <= n + 1 - i
        BY <2>2, <2>5, <2>10, <3>2, Zenon
    <3>4. i < n + 1 - j \/ i = n + 1 - j
        BY <1>3, <2>11, <3>3, SMT, Z3
    <3>. QED
        BY <1>4, <2>7, <2>11, <3>1, <3>4, SMT, Z3
  <2>. QED
      BY <2>12, <2>13, Zenon
<1>. QED
    BY <1>6, <1>7, Zenon

(* On time, the active CVN with the oldest block creates the next one:     *)
(* CheckNextBlockCreator, which scans only part of the chain, agrees with  *)
(* the rule on the whole chain, for every number of CVNs, every length of  *)
(* the scan and whoever is banned or left signatures out.                  *)
THEOREM OldestActiveAlwaysCreates == Spec => []OldestActiveCreates
BY CreatorTypeCorrect, OldestCreates, PTL
-----------------------------------------------------------------------------
(* The choice is registered and not banned.                                *)

(* What the blocks of a chain have to do with one another: a block's       *)
(* creator was registered by the block before, a block adds a CVN that was *)
(* not, and a banned CVN has created a block after the genesis block.      *)
ChainInv ==
    /\ chain[1] = GenesisBlock
    /\ \A i \in 2..Len(chain) :
          /\ chain[i].nCreatorId \in chain[i - 1].mapCVNs
          /\ chain[i].added # NoCvn => /\ chain[i].added \in chain[i].mapCVNs
                                       /\ chain[i].added \notin chain[i - 1].mapCVNs
    /\ \A c \in banned : \E i \in 2..Len(chain) : chain[i].nCreatorId = c

\* A CVN that a payload adds was not registered and is from then on.
LEMMA PayloadAdds ==
    ASSUME NEW payload \in Payloads, payload.added # NoCvn
    PROVE  payload.added \in payload.mapCVNs /\ payload.added \notin mapCVNs
BY SMT, Z3 DEF Payloads

\* Every step keeps ChainInv.
LEMMA ChainNext == TypeOK /\ ChainInv /\ [Next]_vars => ChainInv'
<1>. SUFFICES ASSUME TypeOK, ChainInv, [Next]_vars PROVE ChainInv'
    BY Zenon
<1>0. Len(chain) \in Nat \ {0} /\ chain \in Seq(Block)
    BY SMT, Z3 DEF TypeOK
<1>1. ASSUME NEW slot \in 0..MaxSlot, CreateBlock(slot) PROVE ChainInv'
  <2>. DEFINE c == CheckNextBlockCreator(slot)
              L == Len(chain)
  <2>1. c \in mapCVNs /\ banned' = banned
      BY <1>1, Zenon DEF CreateBlock
  <2>2. PICK missing \in SUBSET mapCVNs, payload \in Payloads :
            ConnectBlock(c, missing, payload)
      BY <1>1, Zenon DEF CreateBlock
  <2>. DEFINE blk == [nCreatorId |-> c, vMissingSignerIds |-> missing,
                      added |-> payload.added, mapCVNs |-> payload.mapCVNs]
  <2>3. chain' = Append(chain, blk)
      BY <2>2, Zenon DEF ConnectBlock
  <2>4. /\ blk.nCreatorId \in chain[L].mapCVNs
        /\ blk.added # NoCvn => blk.added \in blk.mapCVNs /\ blk.added \notin chain[L].mapCVNs
      BY <2>1, PayloadAdds, Zenon DEF mapCVNs
  <2>. HIDE DEF blk, c
  <2>5. /\ Len(chain') = L + 1
        /\ chain'[L + 1] = blk
        /\ \A i \in 1..L : chain'[i] = chain[i]
      BY <1>0, <2>3, SMT, Z3
  <2>6. chain'[1] = GenesisBlock
      BY <1>0, <2>5, SMT, Z3 DEF ChainInv
  <2>7. ASSUME NEW i \in 2..(L + 1)
        PROVE  /\ chain'[i].nCreatorId \in chain'[i - 1].mapCVNs
               /\ chain'[i].added # NoCvn => /\ chain'[i].added \in chain'[i].mapCVNs
                                             /\ chain'[i].added \notin chain'[i - 1].mapCVNs
    <3>1. i - 1 \in 1..L
        BY <1>0, SMT, Z3
    <3>2. CASE i = L + 1
      <4>1. i - 1 = L
          BY <1>0, <3>2, SMT, Z3
      <4>. QED
          BY <2>4, <2>5, <3>1, <3>2, <4>1, Zenon
    <3>3. CASE i # L + 1
      <4>1. i \in 2..L /\ i \in 1..L
          BY <1>0, <3>3, SMT, Z3
      <4>. QED
          BY <2>5, <3>1, <4>1, Zenon DEF ChainInv
    <3>. QED
        BY <3>2, <3>3, Zenon
  <2>8. ASSUME NEW d \in banned
        PROVE  \E i \in 2..(L + 1) : chain'[i].nCreatorId = d
    <3>1. PICK i \in 2..L : chain[i].nCreatorId = d
        BY Zenon DEF ChainInv
    <3>2. i \in 1..L /\ i \in 2..(L + 1)
        BY <1>0, SMT, Z3
    <3>. QED
        BY <2>5, <3>1, <3>2, Zenon
  <2>. QED
      BY <2>1, <2>5, <2>6, <2>7, <2>8, Zenon DEF ChainInv
<1>2. ASSUME NEW c \in Cvns, Ban(c) PROVE ChainInv'
    BY <1>2, Zenon DEF Ban, ChainInv
<1>3. CASE Restart
    BY <1>3, Zenon DEF Restart, ChainInv
<1>4. CASE UNCHANGED vars
    BY <1>4, Zenon DEF vars, ChainInv
<1>. QED
    BY <1>1, <1>2, <1>3, <1>4, Zenon DEF Next

\* ChainInv holds of every chain.
LEMMA ChainCorrect == Spec => [](TypeOK /\ ChainInv)
<1>1. Init => ChainInv
    BY SMT, Z3 DEF Init, ChainInv
<1>2. Init => TypeOK
    BY CreatorConstants, SMT, Z3 DEF Init, GenesisBlock, TypeOK, Block
<1>. QED
    BY <1>1, <1>2, TypeNext, ChainNext, PTL DEF Spec

\* As long as nobody is removed, a CVN that is registered stays so.
LEMMA StillRegistered ==
    ASSUME TypeOK, NobodyRemoved, NEW i \in 1..Len(chain), NEW j \in i..Len(chain)
    PROVE  chain[i].mapCVNs \subseteq chain[j].mapCVNs
<1>. DEFINE A == {k \in Nat : i + k <= Len(chain) =>
                                chain[i].mapCVNs \subseteq chain[i + k].mapCVNs}
<1>0. Len(chain) \in Nat
    BY SMT, Z3 DEF TypeOK
<1>1. 0 \in A
  <2>1. i + 0 = i
      BY <1>0, SMT, Z3
  <2>. QED
      BY <2>1, Zenon
<1>2. ASSUME NEW k \in Nat, k \in A, k < Len(chain) - i PROVE k + 1 \in A
  <2>1. /\ i + (k + 1) \in 2..Len(chain) /\ (i + (k + 1)) - 1 = i + k
        /\ i + k <= Len(chain)
      BY <1>0, <1>2, SMT, Z3
  <2>2. chain[i + k].mapCVNs \subseteq chain[i + (k + 1)].mapCVNs
      BY <2>1, Zenon DEF NobodyRemoved
  <2>3. chain[i].mapCVNs \subseteq chain[i + k].mapCVNs
      BY <1>2, <2>1, Zenon
  <2>4. chain[i].mapCVNs \subseteq chain[i + (k + 1)].mapCVNs
      BY <2>2, <2>3, Zenon
  <2>. QED
      BY <2>4, SMT, Z3
<1>3. Len(chain) - i \in Nat
    BY <1>0, SMT, Z3
<1>4. \A k \in 0..(Len(chain) - i) : k \in A
  <2>. HIDE DEF A
  <2>. QED
      BY <1>1, <1>2, <1>3, UpTo, Zenon
<1>5. j - i \in 0..(Len(chain) - i) /\ i + (j - i) = j /\ j <= Len(chain)
    BY <1>0, SMT, Z3
<1>6. j - i \in A
    BY <1>4, <1>5, Zenon
<1>. QED
    BY <1>5, <1>6, Zenon

\* The CVN to bootstrap is registered and not banned.
LEMMA NewlyAddedRegistered ==
    ASSUME TypeOK, ChainInv, NobodyRemoved
    PROVE  FindNewlyAddedCVN \in (mapCVNs \ banned) \cup {NoCvn}
<1>. DEFINE T == {i \in DOMAIN chain : chain[i].added # NoCvn}
            h == Max(T)
            c == chain[h].added
            L == Len(chain)
<1>0. L \in Nat \ {0} /\ DOMAIN chain = 1..L
    BY SMT, Z3 DEF TypeOK
<1>1. T \in SUBSET Nat /\ T # {} /\ \A t \in T : t <= L
  <2>1. 1 \in T
      BY <1>0, CreatorConstants, SMT, Z3 DEF ChainInv, GenesisBlock
  <2>. QED
      BY <1>0, <2>1, SMT, Z3
<1>2. h \in T
  <2>. HIDE DEF T
  <2>. QED
      BY <1>0, <1>1, MaxOf, Zenon
<1>. HIDE DEF h
<1>3. h \in 1..L /\ c # NoCvn
    BY <1>0, <1>2, Zenon
<1>4. FindNewlyAddedCVN = IF \E i \in (h + 1)..L : chain[i].nCreatorId = c
                          THEN NoCvn ELSE c
    BY Zenon DEF FindNewlyAddedCVN, h
<1>. SUFFICES ASSUME \A i \in (h + 1)..L : chain[i].nCreatorId # c
              PROVE  c \in mapCVNs \ banned
    BY <1>4, Zenon
<1>5. c \in chain[h].mapCVNs
  <2>1. CASE h = 1
      BY <2>1, SMT, Z3 DEF ChainInv, GenesisBlock
  <2>2. CASE h # 1
    <3>1. h \in 2..L
        BY <1>0, <1>3, <2>2, SMT, Z3
    <3>. QED
        BY <1>3, <3>1, Zenon DEF ChainInv
  <2>. QED
      BY <2>1, <2>2, Zenon
<1>6. c \in mapCVNs
  <2>1. L \in h..L
      BY <1>0, <1>3, SMT, Z3
  <2>. QED
      BY <1>3, <1>5, <2>1, StillRegistered, SMT, Z3 DEF mapCVNs
<1>7. c \notin banned
  <2>. SUFFICES ASSUME c \in banned PROVE FALSE
      BY Zenon
  <2>1. PICK i \in 2..L : chain[i].nCreatorId = c
      BY Zenon DEF ChainInv
  <2>2. c \in chain[i - 1].mapCVNs
      BY <2>1, Zenon DEF ChainInv
  <2>3. i \in 1..h
    <3>1. i \notin (h + 1)..L
        BY <2>1, Zenon
    <3>. QED
        BY <1>0, <1>3, <3>1, SMT, Z3
  <2>4. h \in 2..L /\ i - 1 \in 1..L /\ h - 1 \in 1..L /\ h - 1 \in (i - 1)..L
      BY <1>0, <1>3, <2>3, SMT, Z3
  <2>5. c \in chain[h - 1].mapCVNs
      BY <2>2, <2>4, StillRegistered, Zenon
  <2>6. c \notin chain[h - 1].mapCVNs
      BY <1>3, <2>4, Zenon DEF ChainInv
  <2>. QED
      BY <2>5, <2>6, Zenon
<1>. QED
    BY <1>6, <1>7, Zenon

\* ChosenIsRegistered follows from ChainInv.
LEMMA ChosenRegistered == TypeOK /\ ChainInv => ChosenIsRegistered
<1>. DEFINE s == Scan
<1>. SUFFICES ASSUME TypeOK, ChainInv, NobodyRemoved, NEW slot \in Slots
              PROVE  Choice(s, slot) \in (mapCVNs \ banned) \cup {NoCvn}
    BY Zenon DEF ChosenIsRegistered
<1>1. s \in ScanState /\ Counted(s) /\ ScanOk(s, ScanLength)
    BY ScanFinds, ScanCounted, Zenon
<1>2. mapCVNs \subseteq Cvns
    BY RegisteredType, Zenon
<1>3. DormantNodes(s) \subseteq Cvns \cap (mapCVNs \ banned)
    BY DormantRegistered, Zenon
<1>4. FindDormantNode(s) \in DormantNodes(s) \cup {NoCvn}
    BY <1>3, DormantNodeFound, Zenon
<1>5. Favoured(s) \in (mapCVNs \ banned) \cup {NoCvn}
    BY <1>3, <1>4, NewlyAddedRegistered, Zenon DEF Favoured
<1>6. slot \in Nat
    BY SMT, Z3 DEF Slots
<1>7. \A i \in 1..Len(s.cands) : s.cands[i] \in mapCVNs \ banned
    BY <1>1, Zenon DEF ScanOk
<1>. HIDE DEF s
<1>8. Favoured(s) \in Cvns \cup {NoCvn}
    BY <1>2, <1>5, Zenon
<1>. QED
    BY <1>1, <1>5, <1>6, <1>7, <1>8, ChoiceAmong, Zenon

(* CheckNextBlockCreator never names a CVN that is not registered or is    *)
(* banned, as long as no CVN is removed - in whatever slot, be it a        *)
(* candidate of the scan, a dormant node or the CVN to bootstrap.          *)
THEOREM ChosenAlwaysRegistered == Spec => []ChosenIsRegistered
BY ChainCorrect, ChosenRegistered, PTL
=============================================================================
