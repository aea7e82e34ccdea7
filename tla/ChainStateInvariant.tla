-------------------------- MODULE ChainStateInvariant --------------------------
(***************************************************************************)
(* Proofs about ChainState for every block tree, every order of headers,   *)
(* blocks and writes to disk, and every number of crashes.                 *)
(***************************************************************************)
EXTENDS ChainState, NaturalInduction

-----------------------------------------------------------------------------
(* Chains and their prefixes.                                              *)

Hashes == DOMAIN BlockOf

\* The first i blocks of the chain p.
Upto(p, i) == SubSeq(p, 1, i)

\* Chains with the same blocks are the same.
LEMMA ChainsEqual ==
    ASSUME NEW p \in Seq(Hashes), NEW q \in Seq(Hashes), Len(p) = Len(q),
           \A i \in 1..Len(p) : p[i] = q[i]
    PROVE  p = q
    BY SMT, Z3

\* The elements of a prefix.
LEMMA UptoIs ==
    ASSUME NEW p \in Seq(Hashes), NEW i \in 0..Len(p)
    PROVE  /\ Upto(p, i) \in Seq(Hashes)
           /\ Len(Upto(p, i)) = i
           /\ \A j \in 1..i : Upto(p, i)[j] = p[j]
<1>1. SubSeq(p, 1, i) \in Seq(Hashes)
    BY SMT, Z3
<1>2. Len(SubSeq(p, 1, i)) = i
    BY SMT, Z3
<1>3. \A j \in 1..i : SubSeq(p, 1, i)[j] = p[j]
    BY SMT, Z3
<1>. QED
    BY <1>1, <1>2, <1>3, Zenon DEF Upto

\* A chain is its own longest prefix, and prefixes of prefixes are prefixes.
LEMMA UptoUpto ==
    ASSUME NEW p \in Seq(Hashes)
    PROVE  /\ Upto(p, Len(p)) = p
           /\ \A j \in 0..Len(p) : \A i \in 0..j : Upto(Upto(p, j), i) = Upto(p, i)
<1>0. Len(p) \in Nat /\ Len(p) \in 0..Len(p)
    BY SMT, Z3
<1>1. Upto(p, Len(p)) = p
  <2>1. /\ Upto(p, Len(p)) \in Seq(Hashes) /\ Len(Upto(p, Len(p))) = Len(p)
        /\ \A j \in 1..Len(p) : Upto(p, Len(p))[j] = p[j]
      BY <1>0, UptoIs, Zenon
  <2>. QED
      BY <2>1, ChainsEqual, Zenon
<1>2. ASSUME NEW j \in 0..Len(p), NEW i \in 0..j
      PROVE  Upto(Upto(p, j), i) = Upto(p, i)
  <2>. DEFINE q == Upto(p, j)
  <2>1. q \in Seq(Hashes) /\ Len(q) = j /\ \A k \in 1..j : q[k] = p[k]
      BY UptoIs, Zenon
  <2>. HIDE DEF q
  <2>2. i \in 0..Len(q) /\ i \in 0..Len(p) /\ \A k \in 1..i : k \in 1..j
      BY <1>0, <2>1, SMT, Z3
  <2>3. /\ Upto(q, i) \in Seq(Hashes) /\ Len(Upto(q, i)) = i
        /\ \A k \in 1..i : Upto(q, i)[k] = q[k]
      BY <2>1, <2>2, UptoIs, Zenon
  <2>4. /\ Upto(p, i) \in Seq(Hashes) /\ Len(Upto(p, i)) = i
        /\ \A k \in 1..i : Upto(p, i)[k] = p[k]
      BY <2>2, UptoIs, Zenon
  <2>5. \A k \in 1..i : Upto(q, i)[k] = Upto(p, i)[k]
      BY <2>1, <2>2, <2>3, <2>4, Zenon
  <2>6. Upto(q, i) = Upto(p, i)
      BY <2>3, <2>4, <2>5, ChainsEqual, Zenon
  <2>. QED
      BY <2>6, Zenon DEF q
<1>. QED
    BY <1>1, <1>2, Zenon

\* The parent and the last block of a prefix.
LEMMA UptoFront ==
    ASSUME NEW p \in Seq(Hashes), NEW i \in 1..Len(p)
    PROVE  /\ Front(Upto(p, i)) = Upto(p, i - 1)
           /\ Last(Upto(p, i)) = p[i]
           /\ Tip(Upto(p, i)) = BlockOf[p[i]]
           /\ Height(Upto(p, i)) = i - 1
<1>1. i \in 0..Len(p) /\ i - 1 \in 0..i /\ i \in 1..i
    BY SMT, Z3
<1>2. Len(Upto(p, i)) = i /\ Upto(p, i)[i] = p[i]
    BY <1>1, UptoIs, Zenon
<1>3. Front(Upto(p, i)) = Upto(Upto(p, i), i - 1)
    BY <1>2, Zenon DEF Front, Upto
<1>4. Upto(Upto(p, i), i - 1) = Upto(p, i - 1)
    BY <1>1, UptoUpto, Zenon
<1>5. Last(Upto(p, i)) = p[i]
    BY <1>2, Zenon DEF Last
<1>. QED
    BY <1>2, <1>3, <1>4, <1>5, Zenon DEF Tip, Height

\* The same for a whole chain.
LEMMA FrontIs ==
    ASSUME NEW p \in Seq(Hashes), p # << >>
    PROVE  /\ Len(p) \in Nat \ {0}
           /\ Front(p) = Upto(p, Len(p) - 1)
           /\ Last(p) = p[Len(p)]
           /\ Tip(p) = BlockOf[p[Len(p)]]
<1>1. Len(p) \in Nat \ {0}
    BY SMT, Z3
<1>. QED
    BY <1>1, Zenon DEF Front, Last, Tip, Upto

\* p is a prefix of q if it is the first Len(p) blocks of q.
LEMMA PrefixIs ==
    ASSUME NEW p \in Seq(Hashes), NEW q \in Seq(Hashes)
    PROVE  IsPrefix(p, q) <=> Len(p) <= Len(q) /\ p = Upto(q, Len(p))
<1>1. SubSeq(p, 1, Len(p)) = p
    BY UptoUpto, Zenon DEF Upto
<1>. QED
    BY <1>1, Zenon DEF IsPrefix, Upto
-----------------------------------------------------------------------------
(* The block tree.                                                         *)

\* The chains of the tree are closed under taking prefixes down to Start.
Closed == \A p \in Tree : Front(p) \in Blocks

\* What a block of the tree is: a sequence that goes on from Start.
LEMMA BlockIs ==
    ASSUME NEW p \in Blocks
    PROVE  /\ p \in Seq(Hashes) /\ p # << >>
           /\ Len(p) \in Nat \ {0} /\ Len(Start) \in Nat \ {0}
           /\ Len(Start) <= Len(p)
           /\ p # Start => p \in Tree
           /\ p \in Tree <=> Len(Start) < Len(p)
<1>1. p \in Seq(Hashes) /\ Start \in Seq(Hashes)
    BY ChainConstants, Zenon DEF Blocks, Hashes
<1>2. Len(Start) \in Nat \ {0} /\ Len(p) \in Nat
    BY <1>1, ChainConstants, SMT, Z3
<1>3. p \in Tree => Len(p) > Len(Start)
    BY ChainConstants, Zenon
<1>4. p \in Tree \/ p = Start
    BY Zenon DEF Blocks
<1>5. Len(p) # 0
    BY <1>2, <1>3, <1>4, SMT, Z3
<1>. QED
    BY <1>1, <1>2, <1>3, <1>4, <1>5, SMT, Z3

\* Every prefix of a block down to Start is a block.
LEMMA PrefixBlocks ==
    ASSUME Closed, NEW p \in Blocks
    PROVE  /\ \A i \in Len(Start)..Len(p) : Upto(p, i) \in Blocks
           /\ Upto(p, Len(Start)) = Start
<1>. DEFINE n == Len(p) - Len(Start)
            A == {k \in Nat : k <= n => Upto(p, Len(p) - k) \in Blocks}
<1>0. p \in Seq(Hashes) /\ Len(p) \in Nat \ {0} /\ Len(Start) \in Nat \ {0} /\ n \in Nat
    BY BlockIs, SMT, Z3
<1>1. 0 \in A
  <2>1. Len(p) - 0 = Len(p)
      BY <1>0, SMT, Z3
  <2>. QED
      BY <1>0, <2>1, UptoUpto, Zenon
<1>2. ASSUME NEW k \in Nat, k \in A, k < n PROVE k + 1 \in A
  <2>. DEFINE i == Len(p) - k
  <2>1. i \in 1..Len(p) /\ Len(Start) < i /\ i - 1 = Len(p) - (k + 1) /\ i \in 0..Len(p)
      BY <1>0, <1>2, SMT, Z3
  <2>2. Upto(p, i) \in Blocks
      BY <1>0, <1>2, SMT, Z3
  <2>. HIDE DEF i
  <2>3. Len(Upto(p, i)) = i
      BY <1>0, <2>1, UptoIs, Zenon
  <2>4. Upto(p, i) \in Tree
      BY <2>1, <2>2, <2>3, BlockIs, Zenon
  <2>5. Front(Upto(p, i)) = Upto(p, i - 1)
      BY <1>0, <2>1, UptoFront, Zenon
  <2>. QED
      BY <2>1, <2>4, <2>5, SMT, Z3 DEF Closed
<1>3. \A k \in 0..n : k \in A
  <2>. HIDE DEF n, A
  <2>. QED
      BY <1>0, <1>1, <1>2, UpTo, Zenon
<1>4. ASSUME NEW i \in Len(Start)..Len(p) PROVE Upto(p, i) \in Blocks
  <2>1. Len(p) - i \in 0..n /\ Len(p) - (Len(p) - i) = i /\ Len(p) - i <= n
      BY <1>0, SMT, Z3
  <2>2. Len(p) - i \in A
      BY <1>3, <2>1, Zenon
  <2>. QED
      BY <2>1, <2>2, Zenon
<1>5. Upto(p, Len(Start)) = Start
  <2>1. Len(Start) \in Len(Start)..Len(p) /\ Len(Start) \in 0..Len(p)
      BY <1>0, SMT, Z3
  <2>2. Len(Upto(p, Len(Start))) = Len(Start)
      BY <1>0, <2>1, UptoIs, Zenon
  <2>3. Upto(p, Len(Start)) \in Blocks
      BY <1>4, <2>1, Zenon
  <2>. QED
      BY <1>0, <2>2, <2>3, BlockIs, SMT, Z3
<1>. QED
    BY <1>4, <1>5, Zenon

\* The parent of a block of the tree.
LEMMA ParentIs ==
    ASSUME Closed, NEW p \in Tree
    PROVE  /\ Front(p) \in Blocks /\ Front(p) = Upto(p, Len(p) - 1)
           /\ Len(Front(p)) = Len(p) - 1
           /\ p \in Blocks
<1>1. p \in Blocks
    BY Zenon DEF Blocks
<1>2. Front(p) = Upto(p, Len(p) - 1) /\ Len(p) - 1 \in 0..Len(p)
    BY <1>1, BlockIs, FrontIs, SMT, Z3
<1>3. Len(Front(p)) = Len(p) - 1
    BY <1>1, <1>2, BlockIs, UptoIs, Zenon
<1>. QED
    BY <1>1, <1>2, <1>3, Zenon DEF Closed
-----------------------------------------------------------------------------
(* The latest payload of a chain.                                          *)

Kinds == {"cvns", "params"}

\* Where the chain p has payloads of the given kind.
At(p, kind) == {i \in DOMAIN p : kind \in BlockOf[p[i]].payload}

\* The place of the latest one.
Latest(p, kind) == Max(At(p, kind))

\* MostRecent finds the latest payload of its kind.
LEMMA LatestIs ==
    ASSUME Closed, NEW p \in Blocks, NEW kind \in Kinds
    PROVE  /\ Latest(p, kind) \in 1..Len(p)
           /\ kind \in BlockOf[p[Latest(p, kind)]].payload
           /\ \A i \in 1..Len(p) : kind \in BlockOf[p[i]].payload => i <= Latest(p, kind)
           /\ MostRecent(p, kind) = Upto(p, Latest(p, kind))
<1>0. p \in Seq(Hashes) /\ Len(p) \in Nat \ {0} /\ DOMAIN p = 1..Len(p)
    BY BlockIs, SMT, Z3
<1>1. 1 \in At(p, kind)
  <2>1. p[1] = Start[1]
    <3>1. Upto(p, Len(Start)) = Start /\ Len(Start) \in 0..Len(p) /\ 1 \in 1..Len(Start)
        BY PrefixBlocks, BlockIs, SMT, Z3
    <3>. QED
        BY <1>0, <3>1, UptoIs, SMT, Z3
  <2>. QED
      BY <1>0, <2>1, ChainConstants, SMT, Z3 DEF At, Kinds
<1>2. At(p, kind) \in SUBSET Nat /\ \A t \in At(p, kind) : t <= Len(p)
    BY <1>0, SMT, Z3 DEF At
<1>3. /\ Latest(p, kind) \in At(p, kind)
      /\ \A t \in At(p, kind) : t <= Latest(p, kind)
    BY <1>0, <1>1, <1>2, MaxOf, Zenon DEF Latest
<1>4. MostRecent(p, kind) = Upto(p, Latest(p, kind))
    BY Zenon DEF MostRecent, Upto, Latest, At
<1>. QED
    BY <1>0, <1>3, <1>4, Zenon DEF At

\* What a kind of payload sets.
Value(b, kind) == IF kind = "cvns" THEN b.mapCVNs ELSE b.mean

\* What a payload of either kind sets.
LEMMA ValueIs == \A b : Value(b, "cvns") = b.mapCVNs /\ Value(b, "params") = b.mean
BY SMT, Z3 DEF Value

\* From a block on, CVNs and parameters stay until the next payload.
LEMMA Carried ==
    ASSUME NEW p \in Blocks, NEW kind \in Kinds, NEW a \in 1..Len(p), NEW h \in a..Len(p),
           \A i \in (a + 1)..h : kind \notin BlockOf[p[i]].payload
    PROVE  Value(BlockOf[p[h]], kind) = Value(BlockOf[p[a]], kind)
<1>. DEFINE v(i) == Value(BlockOf[p[i]], kind)
            A == {k \in Nat : a + k <= h => v(a + k) = v(a)}
<1>0. Len(p) \in Nat
    BY BlockIs, Zenon
<1>1. 0 \in A
  <2>1. a + 0 = a
      BY <1>0, SMT, Z3
  <2>. QED
      BY <2>1, Zenon
<1>2. ASSUME NEW k \in Nat, k \in A, k < h - a PROVE k + 1 \in A
  <2>1. /\ a + (k + 1) \in 2..Len(p) /\ (a + (k + 1)) - 1 = a + k
        /\ a + (k + 1) \in (a + 1)..h /\ a + k <= h
      BY <1>0, <1>2, SMT, Z3
  <2>2. kind \notin BlockOf[p[a + (k + 1)]].payload
      BY <2>1, Zenon
  <2>3. v(a + (k + 1)) = v((a + (k + 1)) - 1)
      BY <2>1, <2>2, ChainConstants, Zenon DEF Value, Kinds
  <2>4. v(a + k) = v(a)
      BY <1>2, <2>1, Zenon
  <2>. HIDE DEF v
  <2>. QED
      BY <2>1, <2>3, <2>4, SMT, Z3
<1>3. h - a \in Nat
    BY <1>0, SMT, Z3
<1>4. \A k \in 0..(h - a) : k \in A
  <2>. HIDE DEF A
  <2>. QED
      BY <1>1, <1>2, <1>3, UpTo, Zenon
<1>5. h - a \in 0..(h - a) /\ a + (h - a) = h /\ a + (h - a) <= h
    BY <1>0, <1>3, SMT, Z3
<1>6. h - a \in A
    BY <1>4, <1>5, Zenon
<1>7. v(a + (h - a)) = v(a)
    BY <1>5, <1>6, Zenon
<1>. QED
    BY <1>5, <1>7, Zenon

\* A chain has the CVNs and parameters of its latest payloads.
LEMMA LatestDecides ==
    ASSUME Closed, NEW p \in Blocks, NEW kind \in Kinds
    PROVE  Value(Tip(p), kind) = Value(BlockOf[p[Latest(p, kind)]], kind)
<1>1. Latest(p, kind) \in 1..Len(p) /\ Len(p) \in Nat \ {0}
    BY LatestIs, BlockIs, Zenon
<1>2. Len(p) \in Latest(p, kind)..Len(p)
    BY <1>1, SMT, Z3
<1>3. \A i \in (Latest(p, kind) + 1)..Len(p) : kind \notin BlockOf[p[i]].payload
  <2>. SUFFICES ASSUME NEW i \in (Latest(p, kind) + 1)..Len(p),
                       kind \in BlockOf[p[i]].payload
                PROVE  FALSE
      BY Zenon
  <2>1. i \in 1..Len(p) /\ ~(i <= Latest(p, kind))
      BY <1>1, SMT, Z3
  <2>. QED
      BY <2>1, LatestIs, Zenon
<1>4. Tip(p) = BlockOf[p[Len(p)]]
    BY BlockIs, FrontIs, Zenon
<1>. QED
    BY <1>1, <1>2, <1>3, <1>4, Carried, Zenon
-----------------------------------------------------------------------------
(* The inductive invariant.                                                *)

EntryType == [have : BOOLEAN, scripts : BOOLEAN, nChainWork : Int, nSequenceId : Nat]

(* The block index: with a block it has its parent, with less work ("the   *)
(* chainwork must be larger than the parent's", CheckBlockIndex), and      *)
(* blocks that were connected are there.                                   *)
IndexOK(idx) ==
    /\ idx \in [DOMAIN idx -> EntryType]
    /\ DOMAIN idx \subseteq Blocks
    /\ Start \in DOMAIN idx /\ idx[Start].have /\ idx[Start].scripts
    /\ \A p \in DOMAIN idx :
          /\ idx[p].scripts => idx[p].have
          /\ p # Start => /\ Front(p) \in DOMAIN idx
                          /\ idx[Front(p)].nChainWork < idx[p].nChainWork

\* All blocks up to p have been connected.
Connected(idx, p) ==
    /\ p \in Blocks
    /\ \A i \in Len(Start)..Len(p) :
          /\ Upto(p, i) \in DOMAIN idx
          /\ idx[Upto(p, i)].have /\ idx[Upto(p, i)].scripts

BelowStart == {Upto(Start, i) : i \in 1..Len(Start)}

\* The blocks that were connected, and those that are there.
Conn(idx) == BelowStart \cup {p \in DOMAIN idx : idx[p].scripts}

Got(idx) == BelowStart \cup {p \in DOMAIN idx : idx[p].have}

(* The CVNs or parameters are those of a block that was connected: the     *)
(* latest such block of the active chain p, or one that is not on it.      *)
ValueOK(idx, p, kind, value) ==
    \E v \in Conn(idx) : /\ kind \in Tip(v).payload
                         /\ value = Value(Tip(v), kind)
                         /\ IsPrefix(v, p) => v = Upto(p, Latest(p, kind))

\* The cache has entries of the given blocks only, and those of the chain p.
CacheOK(cache, blocks, p) ==
    /\ \A k \in DOMAIN cache :
          \E v \in blocks : /\ "cvns" \in Tip(v).payload
                            /\ Height(v) = k
                            /\ cache[k] = Tip(v).mapCVNs
    /\ \A i \in At(p, "cvns") : i - 1 \in DOMAIN cache

RunInv ==
    /\ IndexOK(index)
    /\ candidates \subseteq DOMAIN index /\ candidates # {}
    /\ \A p \in candidates : Linked(index, p)
    /\ work.pc = "step" => work.target \in candidates
    /\ Connected(index, active)
    /\ Connected(index, disk.tip)
    /\ ValueOK(index, active, "cvns", data.mapCVNs)
    /\ ValueOK(index, active, "params", data.mean)
    /\ CacheOK(data.cache, Got(index), active)

DownInv ==
    /\ index = StartIndex /\ candidates = {} /\ active = Start
    /\ data = DataOf(Start)

WorkType ==
    [pc : {"idle", "find", "step", "down"}, target : Blocks, pblock : Blocks, oldWork : Int]

DiskInv == IndexOK(disk.index) /\ Connected(disk.index, disk.tip)

ChainInv ==
    /\ MadeByRules
    /\ work \in WorkType
    /\ DiskInv
    /\ IF work.pc = "down" THEN DownInv ELSE RunInv

(* Every block was signed by somebody, even when its missing signers are   *)
(* counted against the CVNs that another block of the tree registers:      *)
(* branches differ in a few CVNs only.                                     *)
EveryBlockCounts ==
    \A p \in Tree, q \in Blocks :
        Cardinality(Tip(p).vMissingSignerIds) < Cardinality(Tip(q).mapCVNs)
-----------------------------------------------------------------------------
(* Facts about the parts of the invariant.                                 *)

\* The index only gains blocks and what is known of them.
Grows(idx, new) ==
    /\ DOMAIN idx \subseteq DOMAIN new
    /\ \A p \in DOMAIN idx : /\ idx[p].have => new[p].have
                             /\ idx[p].scripts => new[p].scripts

\* What is linked, connected, checked or received stays so.
LEMMA GrowsKeeps ==
    ASSUME NEW idx, NEW new, Grows(idx, new)
    PROVE  /\ \A p : Linked(idx, p) => Linked(new, p)
           /\ \A p : Connected(idx, p) => Connected(new, p)
           /\ Conn(idx) \subseteq Conn(new)
           /\ Got(idx) \subseteq Got(new)
<1>1. \A p : Linked(idx, p) => Linked(new, p)
    BY Zenon DEF Grows, Linked
<1>2. \A p : Connected(idx, p) => Connected(new, p)
    BY Zenon DEF Grows, Connected
<1>3. Conn(idx) \subseteq Conn(new) /\ Got(idx) \subseteq Got(new)
    BY Zenon DEF Grows, Conn, Got
<1>. QED
    BY <1>1, <1>2, <1>3, Zenon

\* A block that is connected is in the index.
LEMMA ConnectedIn ==
    ASSUME NEW idx, NEW p, Connected(idx, p)
    PROVE  /\ p \in Blocks /\ p \in DOMAIN idx /\ idx[p].scripts
           /\ Linked(idx, p)
<1>1. p \in Blocks
    BY Zenon DEF Connected
<1>2. Len(p) \in Len(Start)..Len(p) /\ Upto(p, Len(p)) = p
    BY <1>1, BlockIs, UptoUpto, SMT, Z3
<1>3. p \in DOMAIN idx /\ idx[p].scripts
    BY <1>2, Zenon DEF Connected
<1>. QED
    BY <1>1, <1>3, Zenon DEF Connected, Linked, Upto

\* So are the chains that it continues.
LEMMA ConnectedBelow ==
    ASSUME Closed, NEW idx, NEW p, Connected(idx, p), NEW i \in Len(Start)..Len(p)
    PROVE  Connected(idx, Upto(p, i))
<1>1. p \in Blocks /\ p \in Seq(Hashes) /\ Len(p) \in Nat /\ Len(Start) \in Nat \ {0}
    BY BlockIs, Zenon DEF Connected
<1>2. i \in 0..Len(p) /\ Upto(p, i) \in Blocks /\ Len(Upto(p, i)) = i
    BY <1>1, PrefixBlocks, UptoIs, SMT, Z3
<1>3. \A j \in Len(Start)..i : Upto(Upto(p, i), j) = Upto(p, j) /\ j \in Len(Start)..Len(p)
    BY <1>1, <1>2, UptoUpto, SMT, Z3
<1>. QED
    BY <1>2, <1>3, Zenon DEF Connected

\* Work grows along a chain.
LEMMA WorkGrows ==
    ASSUME Closed, NEW idx, IndexOK(idx), NEW p \in DOMAIN idx,
           NEW i \in Len(Start)..(Len(p) - 1)
    PROVE  /\ Upto(p, i) \in DOMAIN idx
           /\ idx[Upto(p, i)].nChainWork < idx[p].nChainWork
<1>. DEFINE L == Len(p)
            n == L - 1 - Len(Start)
            A == {k \in Nat : k <= n =>
                    /\ Upto(p, L - 1 - k) \in DOMAIN idx
                    /\ idx[Upto(p, L - 1 - k)].nChainWork < idx[p].nChainWork}
<1>0. /\ p \in Blocks /\ p \in Seq(Hashes) /\ L \in Nat \ {0} /\ Len(Start) \in Nat \ {0}
      /\ n \in Nat /\ i \in Nat
  <2>1. p \in Blocks
      BY Zenon DEF IndexOK
  <2>2. p \in Seq(Hashes) /\ L \in Nat \ {0} /\ Len(Start) \in Nat \ {0}
      BY <2>1, BlockIs, Zenon
  <2>. QED
      BY <2>1, <2>2, SMT, Z3
<1>1. \A q \in DOMAIN idx : idx[q].nChainWork \in Int
    BY Zenon DEF IndexOK, EntryType
<1>2. 0 \in A
  <2>1. L - 1 - 0 = L - 1 /\ p # Start
      BY <1>0, SMT, Z3
  <2>2. Front(p) = Upto(p, L - 1)
      BY <1>0, FrontIs, BlockIs, Zenon
  <2>3. Upto(p, L - 1) \in DOMAIN idx /\ idx[Upto(p, L - 1)].nChainWork < idx[p].nChainWork
      BY <2>1, <2>2, Zenon DEF IndexOK
  <2>. QED
      BY <2>1, <2>3, Zenon
<1>3. ASSUME NEW k \in Nat, k \in A, k < n PROVE k + 1 \in A
  <2>. DEFINE j == L - 1 - k
  <2>1. j \in 1..L /\ j \in 0..L /\ j > Len(Start) /\ L - 1 - (k + 1) = j - 1 /\ k <= n
      BY <1>0, <1>3, SMT, Z3
  <2>2. Upto(p, j) \in DOMAIN idx /\ idx[Upto(p, j)].nChainWork < idx[p].nChainWork
      BY <1>3, <2>1, Zenon
  <2>. HIDE DEF j
  <2>3. Len(Upto(p, j)) = j /\ Front(Upto(p, j)) = Upto(p, j - 1)
      BY <1>0, <2>1, UptoIs, UptoFront, Zenon
  <2>4. Upto(p, j) # Start
      BY <1>0, <2>1, <2>3, SMT, Z3
  <2>5. /\ Upto(p, j - 1) \in DOMAIN idx
        /\ idx[Upto(p, j - 1)].nChainWork < idx[Upto(p, j)].nChainWork
      BY <2>2, <2>3, <2>4, Zenon DEF IndexOK
  <2>6. idx[Upto(p, j - 1)].nChainWork < idx[p].nChainWork
      BY <1>1, <2>2, <2>5, SMT, Z3
  <2>. QED
      BY <2>1, <2>5, <2>6, SMT, Z3
<1>4. \A k \in 0..n : k \in A
  <2>. HIDE DEF n, A
  <2>. QED
      BY <1>0, <1>2, <1>3, UpTo, Zenon
<1>5. L - 1 - i \in 0..n /\ L - 1 - (L - 1 - i) = i /\ L - 1 - i <= n
    BY <1>0, SMT, Z3
<1>6. L - 1 - i \in A
    BY <1>4, <1>5, Zenon
<1>. QED
    BY <1>5, <1>6, Zenon

\* Worse is a strict order of the entries.
LEMMA WorseOrder ==
    ASSUME NEW idx, IndexOK(idx)
    PROVE  /\ \A p \in DOMAIN idx : ~Worse(idx, p, p)
           /\ \A p, q \in DOMAIN idx : p # q => Worse(idx, p, q) \/ Worse(idx, q, p)
           /\ \A p, q, r \in DOMAIN idx :
                 Worse(idx, p, q) /\ Worse(idx, q, r) => Worse(idx, p, r)
<1>. DEFINE W(p) == idx[p].nChainWork
            N(p) == idx[p].nSequenceId
            D(p) == Address[Last(p)]
<1>1. \A p \in DOMAIN idx : W(p) \in Int /\ N(p) \in Int /\ D(p) \in Int
    BY ChainConstants, SMT, Z3 DEF IndexOK, EntryType
<1>2. \A p, q \in DOMAIN idx : D(p) = D(q) => p = q
    BY ChainConstants, Zenon DEF IndexOK
<1>3. \A p, q : Worse(idx, p, q) <=>
                  \/ W(p) < W(q)
                  \/ W(p) = W(q) /\ (N(p) > N(q) \/ (N(p) = N(q) /\ D(p) > D(q)))
    BY Zenon DEF Worse
<1>. HIDE DEF W, N, D
<1>4. \A p \in DOMAIN idx : ~Worse(idx, p, p)
    BY <1>1, <1>3, SMT, Z3
<1>5. ASSUME NEW p \in DOMAIN idx, NEW q \in DOMAIN idx, p # q
      PROVE  Worse(idx, p, q) \/ Worse(idx, q, p)
  <2>1. /\ W(p) \in Int /\ N(p) \in Int /\ D(p) \in Int
        /\ W(q) \in Int /\ N(q) \in Int /\ D(q) \in Int /\ D(p) # D(q)
      BY <1>1, <1>2, <1>5, Zenon
  <2>. QED
      BY <1>3, <2>1, SMT, Z3
<1>6. ASSUME NEW p \in DOMAIN idx, NEW q \in DOMAIN idx, NEW r \in DOMAIN idx,
             Worse(idx, p, q), Worse(idx, q, r)
      PROVE  Worse(idx, p, r)
  <2>1. /\ W(p) \in Int /\ N(p) \in Int /\ D(p) \in Int
        /\ W(q) \in Int /\ N(q) \in Int /\ D(q) \in Int
        /\ W(r) \in Int /\ N(r) \in Int /\ D(r) \in Int
      BY <1>1, Zenon
  <2>. QED
      BY <1>3, <1>6, <2>1, SMT, Z3
<1>. QED
    BY <1>4, <1>5, <1>6, Zenon

\* The tree is finite, and so is every index.
LEMMA IndexFinite ==
    ASSUME NEW idx, IndexOK(idx), NEW T \in SUBSET DOMAIN idx
    PROVE  IsFiniteSet(T) /\ Cardinality(T) \in Nat
<1>1. IsFiniteSet(Blocks)
    BY ChainConstants, FS_AddElement, Zenon DEF Blocks
<1>2. T \in SUBSET Blocks
    BY Zenon DEF IndexOK
<1>. QED
    BY <1>1, <1>2, FS_Subset, FS_CardinalityType, Zenon

\* There is a best candidate.
LEMMA BestIsCandidate ==
    ASSUME IndexOK(index), candidates \subseteq DOMAIN index, candidates # {}
    PROVE  FindMostWorkChain \in candidates
<1>. DEFINE R == {x \in candidates \X candidates : Worse(index, x[1], x[2])}
<1>1. \A p, q \in candidates : <<p, q>> \in R <=> Worse(index, p, q)
    BY Zenon
<1>2. \A p, q \in candidates : p # q => <<p, q>> \in R \/ <<q, p>> \in R
  <2>. HIDE DEF R
  <2>. QED
      BY <1>1, WorseOrder, Zenon
<1>3. \A p, q, r \in candidates : <<p, q>> \in R /\ <<q, r>> \in R => <<p, r>> \in R
  <2>. HIDE DEF R
  <2>. QED
      BY <1>1, WorseOrder, Zenon
<1>4. IsFiniteSet(candidates)
    BY IndexFinite, Zenon
<1>. HIDE DEF R
<1>5. \E m \in candidates : \A x \in candidates \ {m} : <<x, m>> \in R
    BY <1>2, <1>3, <1>4, LastInOrder, SMT, Z3
<1>6. \E m \in candidates : \A x \in candidates \ {m} : Worse(index, x, m)
    BY <1>1, <1>5, Zenon
<1>. QED
    BY <1>6, Zenon DEF FindMostWorkChain

\* The blocks up to Start are blocks of every chain.
LEMMA BelowIs ==
    ASSUME Closed, NEW p \in Blocks, NEW v \in BelowStart
    PROVE  /\ v \in Seq(Hashes) /\ v # << >> /\ Len(v) \in 1..Len(Start)
           /\ v = Upto(p, Len(v)) /\ IsPrefix(v, p)
<1>1. PICK i \in 1..Len(Start) : v = Upto(Start, i)
    BY Zenon DEF BelowStart
<1>2. /\ p \in Seq(Hashes) /\ Start \in Seq(Hashes) /\ Len(p) \in Nat
      /\ Len(Start) \in Nat \ {0} /\ Len(Start) <= Len(p)
    BY BlockIs, Zenon DEF Blocks
<1>3. i \in 0..Len(Start) /\ i \in 0..Len(p) /\ Len(Start) \in 0..Len(p)
    BY <1>2, SMT, Z3
<1>4. v \in Seq(Hashes) /\ Len(v) = i
    BY <1>1, <1>2, <1>3, UptoIs, Zenon
<1>5. v = Upto(p, i)
  <2>1. Start = Upto(p, Len(Start))
      BY PrefixBlocks, Zenon
  <2>. QED
      BY <1>1, <1>2, <1>3, <2>1, UptoUpto, SMT, Z3
<1>6. v # << >> /\ Len(v) <= Len(p)
    BY <1>2, <1>4, SMT, Z3
<1>. QED
    BY <1>1, <1>2, <1>4, <1>5, <1>6, PrefixIs, Zenon

\* What is known of blocks that were connected or are there.
LEMMA GotIs ==
    ASSUME Closed, NEW idx, IndexOK(idx), NEW v \in Got(idx)
    PROVE  /\ v \in Seq(Hashes) /\ v # << >> /\ Len(v) \in Nat \ {0}
           /\ v \in Blocks \cup BelowStart
           /\ Tip(v) = BlockOf[v[Len(v)]] /\ Last(v) \in Hashes
<1>1. v \in Blocks \cup BelowStart
    BY Zenon DEF Got, IndexOK
<1>2. v \in Seq(Hashes) /\ v # << >>
  <2>1. Start \in Blocks
      BY Zenon DEF Blocks
  <2>. QED
      BY <1>1, <2>1, BlockIs, BelowIs, Zenon
<1>3. Len(v) \in Nat \ {0} /\ Tip(v) = BlockOf[v[Len(v)]] /\ Last(v) = v[Len(v)]
    BY <1>2, FrontIs, Zenon
<1>. QED
    BY <1>1, <1>2, <1>3, SMT, Z3

\* Connected blocks are there.
LEMMA ConnIsGot ==
    ASSUME NEW idx, IndexOK(idx) PROVE Conn(idx) \subseteq Got(idx)
BY Zenon DEF Conn, Got, IndexOK
-----------------------------------------------------------------------------
(* The cache.                                                              *)

\* A cache with the entries of the chain p, and others only above it.
CacheFits(cache, p) ==
    /\ \A k \in DOMAIN cache :
          /\ k \in Nat
          /\ k < Len(p) => /\ "cvns" \in BlockOf[p[k + 1]].payload
                           /\ cache[k] = BlockOf[p[k + 1]].mapCVNs
    /\ \A i \in At(p, "cvns") : i - 1 \in DOMAIN cache

\* It gives the CVNs of the chain at every height.
LEMMA CacheGives ==
    ASSUME Closed, NEW p \in Blocks, NEW s, CacheFits(s.cache, p)
    PROVE  /\ \A h \in 1..Len(p) : GetCvnInfoCache(s, h) = BlockOf[p[h]].mapCVNs
           /\ GetCvnInfoCache(s, 0) = BlockOf[p[1]].mapCVNs
<1>0. Len(p) \in Nat \ {0} /\ DOMAIN p = 1..Len(p)
    BY BlockIs, SMT, Z3
<1>1. 1 \in At(p, "cvns") /\ 0 \in DOMAIN s.cache
  <2>1. p[1] = Start[1]
    <3>1. Upto(p, Len(Start)) = Start /\ Len(Start) \in 0..Len(p) /\ 1 \in 1..Len(Start)
          /\ p \in Seq(Hashes)
        BY PrefixBlocks, BlockIs, SMT, Z3
    <3>. QED
        BY <3>1, UptoIs, SMT, Z3
  <2>2. 1 \in At(p, "cvns")
      BY <1>0, <2>1, ChainConstants, SMT, Z3 DEF At
  <2>3. 1 - 1 = 0
      BY SMT, Z3
  <2>. QED
      BY <2>2, <2>3, Zenon DEF CacheFits
<1>2. GetCvnInfoCache(s, 0) = BlockOf[p[1]].mapCVNs
  <2>1. 0 + 1 = 1 /\ 0 < Len(p)
      BY <1>0, SMT, Z3
  <2>2. s.cache[0] = BlockOf[p[0 + 1]].mapCVNs
      BY <1>1, <2>1, Zenon DEF CacheFits
  <2>. QED
      BY <2>1, <2>2, Zenon DEF GetCvnInfoCache
<1>3. ASSUME NEW h \in 1..Len(p) PROVE GetCvnInfoCache(s, h) = BlockOf[p[h]].mapCVNs
  <2>. DEFINE K == {k \in DOMAIN s.cache : k < h}
              m == Max(K)
  <2>1. K \in SUBSET Nat /\ K # {} /\ h \in Nat /\ \A k \in K : k <= h
    <3>1. 0 \in K
        BY <1>0, <1>1, SMT, Z3
    <3>2. K \in SUBSET Nat
        BY Zenon DEF CacheFits
    <3>3. h \in Nat /\ \A k \in K : k <= h
        BY <1>0, <3>2, SMT, Z3
    <3>. QED
        BY <3>1, <3>2, <3>3, Zenon
  <2>2. m \in K /\ \A k \in K : k <= m
    <3>. HIDE DEF K
    <3>. QED
        BY <2>1, MaxOf, Zenon
  <2>3. GetCvnInfoCache(s, h) = s.cache[m]
      BY <1>0, SMT, Z3 DEF GetCvnInfoCache
  <2>. HIDE DEF m
  <2>4. m \in Nat /\ m < h /\ m \in DOMAIN s.cache
      BY <2>1, <2>2, Zenon
  <2>5. m + 1 \in 1..Len(p) /\ h \in (m + 1)..Len(p) /\ m < Len(p)
      BY <1>0, <2>4, SMT, Z3
  <2>6. s.cache[m] = BlockOf[p[m + 1]].mapCVNs
      BY <2>4, <2>5, Zenon DEF CacheFits
  <2>7. \A i \in ((m + 1) + 1)..h : "cvns" \notin BlockOf[p[i]].payload
    <3>. SUFFICES ASSUME NEW i \in ((m + 1) + 1)..h, "cvns" \in BlockOf[p[i]].payload
                  PROVE  FALSE
        BY Zenon
    <3>1. i \in DOMAIN p /\ i - 1 < h /\ ~(i - 1 <= m)
        BY <1>0, <2>4, SMT, Z3
    <3>2. i - 1 \in DOMAIN s.cache
        BY <3>1, Zenon DEF CacheFits, At
    <3>3. i - 1 \in K
        BY <3>1, <3>2, Zenon
    <3>. QED
        BY <2>2, <3>1, <3>3, Zenon
  <2>8. Value(BlockOf[p[h]], "cvns") = Value(BlockOf[p[m + 1]], "cvns")
    <3>1. "cvns" \in Kinds
        BY Zenon DEF Kinds
    <3>. QED
        BY <2>5, <2>7, <3>1, Carried, Zenon
  <2>. QED
      BY <2>3, <2>6, <2>8, Zenon DEF Value
<1>. QED
    BY <1>2, <1>3, Zenon

\* Whatever is in the cache, a block of the tree counts.
LEMMA CountPositive ==
    ASSUME Closed, EveryBlockCounts, NEW s, NEW a \in Blocks,
           CacheOK(s.cache, Blocks \cup BelowStart, a), NEW p \in Tree,
           NEW missing \in {{}, Tip(p).vMissingSignerIds}
    PROVE  /\ GetNumChainSigs(s, Height(p), missing) \in Int
           /\ GetNumChainSigs(s, Height(p), missing) > 0
<1>. DEFINE h == Height(p)
            K == {k \in DOMAIN s.cache : k < h}
            m == Max(K)
            c == Latest(Start, "cvns")
<1>0. Start \in Blocks /\ p \in Blocks /\ "cvns" \in Kinds
    BY Zenon DEF Blocks, Kinds
<1>1. /\ Len(Start) \in Nat \ {0} /\ h \in Nat /\ h >= Len(Start) /\ h # 0
      /\ Len(a) \in Nat /\ Len(Start) <= Len(a)
    BY <1>0, BlockIs, SMT, Z3 DEF Height
<1>2. DOMAIN s.cache \subseteq Nat
  <2>. SUFFICES ASSUME NEW k \in DOMAIN s.cache PROVE k \in Nat
      BY Zenon
  <2>1. PICK v \in Blocks \cup BelowStart : Height(v) = k
      BY Zenon DEF CacheOK
  <2>2. Len(v) \in Nat \ {0}
      BY <1>0, <1>1, <2>1, BlockIs, BelowIs, SMT, Z3
  <2>. QED
      BY <2>1, <2>2, SMT, Z3 DEF Height
<1>3. c \in 1..Len(Start) /\ c - 1 \in K
  <2>1. c \in 1..Len(Start) /\ "cvns" \in BlockOf[Start[c]].payload
      BY <1>0, LatestIs, Zenon
  <2>2. a[c] = Start[c]
    <3>1. Upto(a, Len(Start)) = Start /\ Len(Start) \in 0..Len(a) /\ a \in Seq(Hashes)
        BY <1>1, PrefixBlocks, BlockIs, SMT, Z3
    <3>. QED
        BY <2>1, <3>1, UptoIs, Zenon
  <2>3. c \in At(a, "cvns")
    <3>1. c \in DOMAIN a
        BY <1>1, <2>1, BlockIs, SMT, Z3
    <3>. QED
        BY <2>1, <2>2, <3>1, Zenon DEF At
  <2>4. c - 1 \in DOMAIN s.cache /\ c - 1 < h
      BY <1>1, <2>1, <2>3, SMT, Z3 DEF CacheOK
  <2>. QED
      BY <2>1, <2>4, Zenon
<1>4. K \in SUBSET Nat /\ K # {} /\ \A k \in K : k <= h
    BY <1>1, <1>2, <1>3, SMT, Z3
<1>5. m \in K /\ \A k \in K : k <= m
  <2>. HIDE DEF K, h
  <2>. QED
      BY <1>1, <1>4, MaxOf, Zenon
<1>6. GetCvnInfoCache(s, h) = s.cache[m]
    BY <1>1, Zenon DEF GetCvnInfoCache
<1>. HIDE DEF m, h, c
<1>7. m \in Nat /\ m \in DOMAIN s.cache /\ c - 1 <= m
    BY <1>3, <1>4, <1>5, Zenon
<1>8. \E q \in Blocks : s.cache[m] = Tip(q).mapCVNs
  <2>1. PICK v \in Blocks \cup BelowStart :
            "cvns" \in Tip(v).payload /\ Height(v) = m /\ s.cache[m] = Tip(v).mapCVNs
      BY <1>7, Zenon DEF CacheOK
  <2>2. CASE v \in Blocks
      BY <2>1, <2>2, Zenon
  <2>3. CASE v \in BelowStart
    <3>1. v \in Seq(Hashes) /\ v # << >> /\ Len(v) \in 1..Len(Start) /\ v = Upto(Start, Len(v))
        BY <1>0, <2>3, BelowIs, Zenon
    <3>2. Start \in Seq(Hashes)
        BY <1>0, BlockIs, Zenon
    <3>3. Tip(v) = BlockOf[Start[Len(v)]]
        BY <3>1, <3>2, UptoFront, Zenon
    <3>4. Len(v) <= c
        BY <1>0, <2>1, <3>1, <3>3, LatestIs, SMT, Z3 DEF c
    <3>5. Len(v) = m + 1
        BY <1>1, <2>1, <3>1, SMT, Z3 DEF Height
    <3>6. Len(v) = c
        BY <1>1, <1>3, <1>7, <3>4, <3>5, SMT, Z3
    <3>7. Tip(v).mapCVNs = Tip(Start).mapCVNs
        BY <1>0, <3>3, <3>6, LatestDecides, SMT, Z3 DEF c, Value
    <3>. QED
        BY <1>0, <2>1, <3>7, Zenon
  <2>. QED
      BY <2>1, <2>2, <2>3, Zenon
<1>9. PICK q \in Blocks : s.cache[m] = Tip(q).mapCVNs
    BY <1>8, Zenon
<1>10. /\ Tip(q).mapCVNs \subseteq Cvns /\ Tip(p).vMissingSignerIds \subseteq Cvns
  <2>1. \A b \in Blocks : Last(b) \in Hashes
    <3>. TAKE b \in Blocks
    <3>1. b \in Seq(Hashes) /\ b # << >> /\ Last(b) = b[Len(b)] /\ Len(b) \in 1..Len(b)
        BY BlockIs, FrontIs, SMT, Z3
    <3>. QED
        BY <3>1, SMT, Z3
  <2>. QED
      BY <1>0, <2>1, ChainConstants, Zenon DEF Tip, Hashes
<1>11. /\ Cardinality(Tip(q).mapCVNs) \in Nat
       /\ Cardinality(Tip(p).vMissingSignerIds) \in Nat
    BY <1>10, ChainConstants, FS_Subset, FS_CardinalityType, Zenon
<1>12. Cardinality(Tip(p).vMissingSignerIds) < Cardinality(Tip(q).mapCVNs)
    BY Zenon DEF EveryBlockCounts
<1>13. Cardinality(missing) \in Nat /\ Cardinality(missing) < Cardinality(Tip(q).mapCVNs)
  <2>1. CASE missing = {}
      BY <1>11, <1>12, <2>1, FS_EmptySet, SMT, Z3
  <2>2. CASE missing = Tip(p).vMissingSignerIds
      BY <1>11, <1>12, <2>2, Zenon
  <2>. QED
      BY <2>1, <2>2, Zenon
<1>14. GetNumChainSigs(s, Height(p), missing)
         = Cardinality(Tip(q).mapCVNs) - Cardinality(missing)
    BY <1>6, <1>9, Zenon DEF GetNumChainSigs, h
<1>. QED
    BY <1>11, <1>13, <1>14, SMT, Z3
-----------------------------------------------------------------------------
(* The operations on the block index.                                      *)

\* What is known of a cache of blocks that are there.
LEMMA CacheWider ==
    ASSUME Closed, NEW idx, IndexOK(idx), NEW cache, NEW p, CacheOK(cache, Got(idx), p)
    PROVE  CacheOK(cache, Blocks \cup BelowStart, p)
<1>1. Got(idx) \subseteq Blocks \cup BelowStart
    BY Zenon DEF Got, IndexOK
<1>. QED
    BY <1>1, Zenon DEF CacheOK

\* AddToBlockIndex adds an entry with at least its parent's work.
LEMMA AddKeepsIndex ==
    ASSUME Closed, EveryBlockCounts, IndexOK(index), NEW a \in Blocks,
           CacheOK(data.cache, Got(index), a),
           NEW p \in Tree, Front(p) \in DOMAIN index,
           NEW missing \in {{}, Tip(p).vMissingSignerIds}
    PROVE  /\ IndexOK(AddToBlockIndex(p, missing))
           /\ Grows(index, AddToBlockIndex(p, missing))
           /\ p \in DOMAIN AddToBlockIndex(p, missing)
<1>. DEFINE idx == AddToBlockIndex(p, missing)
            n == GetNumChainSigs(data, Height(p), missing)
            w == index[Front(p)].nChainWork
<1>1. CASE p \in DOMAIN index
    BY <1>1, Zenon DEF AddToBlockIndex, Grows
<1>2. CASE p \notin DOMAIN index
  <2>1. n \in Int /\ n > 0
      BY CacheWider, CountPositive, Zenon
  <2>2. /\ \A q \in DOMAIN index : /\ index[q] \in EntryType /\ index[q].have \in BOOLEAN
                                   /\ index[q].scripts \in BOOLEAN /\ index[q].nChainWork \in Int
        /\ w \in Int
      BY Zenon DEF IndexOK, EntryType
  <2>3. /\ DOMAIN idx = DOMAIN index \cup {p}
        /\ \A q \in DOMAIN index : idx[q] = index[q]
        /\ idx[p] = Entry(FALSE, FALSE, w + n, 0)
        /\ idx \in [DOMAIN index \cup {p} -> {idx[q] : q \in DOMAIN index \cup {p}}]
      BY <1>2, Zenon DEF AddToBlockIndex
  <2>. HIDE DEF idx, n, w
  <2>4. /\ idx[p] \in EntryType /\ ~idx[p].scripts /\ idx[p].nChainWork = w + n
      BY <2>1, <2>2, <2>3, SMT, Z3 DEF Entry, EntryType
  <2>5. idx[p].nChainWork > index[Front(p)].nChainWork
      BY <2>1, <2>2, <2>4, SMT, Z3 DEF w
  <2>6. p \in Blocks
      BY Zenon DEF Blocks
  <2>7. idx \in [DOMAIN idx -> EntryType]
      BY <2>2, <2>3, <2>4, Zenon
  <2>8. Start \in DOMAIN idx /\ idx[Start].have /\ idx[Start].scripts
      BY <2>3, Zenon DEF IndexOK
  <2>9. ASSUME NEW q \in DOMAIN idx
        PROVE  /\ idx[q].scripts => idx[q].have
               /\ q # Start => /\ Front(q) \in DOMAIN idx
                               /\ idx[Front(q)].nChainWork < idx[q].nChainWork
    <3>1. CASE q = p
        BY <1>2, <2>2, <2>3, <2>4, <2>5, <3>1, Zenon DEF IndexOK
    <3>2. CASE q \in DOMAIN index
      <4>1. /\ index[q].scripts => index[q].have
            /\ q # Start => /\ Front(q) \in DOMAIN index
                            /\ index[Front(q)].nChainWork < index[q].nChainWork
          BY <3>2, Zenon DEF IndexOK
      <4>. QED
          BY <2>3, <3>2, <4>1, Zenon
    <3>. QED
        BY <2>3, <3>1, <3>2, Zenon
  <2>10. IndexOK(idx)
    <3>1. DOMAIN idx \subseteq Blocks
        BY <2>3, <2>6, Zenon DEF IndexOK
    <3>. QED
        BY <2>7, <2>8, <2>9, <3>1, SMT, Z3 DEF IndexOK
  <2>. QED
      BY <2>3, <2>10, Zenon DEF Grows, idx
<1>. QED
    BY <1>1, <1>2, Zenon

\* An index with the same blocks and the same work keeps its shape.
LEMMA SameWork ==
    ASSUME NEW idx, IndexOK(idx), NEW new, new \in [DOMAIN idx -> EntryType],
           \A q \in DOMAIN idx : new[q].nChainWork = idx[q].nChainWork,
           \A q \in DOMAIN idx : new[q].scripts => new[q].have,
           Grows(idx, new)
    PROVE  IndexOK(new)
<1>1. DOMAIN new = DOMAIN idx
    BY Zenon
<1>2. Start \in DOMAIN new /\ new[Start].have /\ new[Start].scripts
    BY <1>1, Zenon DEF IndexOK, Grows
<1>3. \A q \in DOMAIN new : q # Start => /\ Front(q) \in DOMAIN new
                                         /\ new[Front(q)].nChainWork < new[q].nChainWork
    BY <1>1, Zenon DEF IndexOK
<1>. QED
    BY <1>1, <1>2, <1>3, Zenon DEF IndexOK

\* The block itself arrives.
LEMMA HaveKeepsIndex ==
    ASSUME NEW idx, IndexOK(idx), NEW p \in DOMAIN idx
    PROVE  /\ IndexOK([idx EXCEPT ![p].have = TRUE])
           /\ Grows(idx, [idx EXCEPT ![p].have = TRUE])
<1>. DEFINE new == [idx EXCEPT ![p].have = TRUE]
<1>1. idx \in [DOMAIN idx -> EntryType] /\ \A q \in DOMAIN idx : idx[q].scripts => idx[q].have
    BY Zenon DEF IndexOK
<1>2. new \in [DOMAIN idx -> EntryType]
    BY <1>1, Zenon DEF EntryType
<1>3. \A q \in DOMAIN idx : q # p => new[q] = idx[q]
    BY <1>1, Zenon
<1>4. /\ new[p].have /\ new[p].scripts = idx[p].scripts
      /\ new[p].nChainWork = idx[p].nChainWork
    BY <1>1, Zenon DEF EntryType
<1>. HIDE DEF new
<1>5. Grows(idx, new)
    BY <1>2, <1>3, <1>4, Zenon DEF Grows
<1>6. /\ \A q \in DOMAIN idx : new[q].nChainWork = idx[q].nChainWork
      /\ \A q \in DOMAIN idx : new[q].scripts => new[q].have
    BY <1>1, <1>3, <1>4, Zenon
<1>7. IndexOK(new)
    BY <1>2, <1>5, <1>6, SameWork, Zenon
<1>. QED
    BY <1>5, <1>7, Zenon DEF new

\* A block that is there passes ConnectBlock.
LEMMA ScriptsKeepsIndex ==
    ASSUME NEW idx, IndexOK(idx), NEW p \in DOMAIN idx, idx[p].have
    PROVE  /\ IndexOK([idx EXCEPT ![p].scripts = TRUE])
           /\ Grows(idx, [idx EXCEPT ![p].scripts = TRUE])
           /\ [idx EXCEPT ![p].scripts = TRUE][p].have
           /\ [idx EXCEPT ![p].scripts = TRUE][p].scripts
           /\ DOMAIN [idx EXCEPT ![p].scripts = TRUE] = DOMAIN idx
<1>. DEFINE new == [idx EXCEPT ![p].scripts = TRUE]
<1>1. idx \in [DOMAIN idx -> EntryType] /\ \A q \in DOMAIN idx : idx[q].scripts => idx[q].have
    BY Zenon DEF IndexOK
<1>2. new \in [DOMAIN idx -> EntryType]
    BY <1>1, Zenon DEF EntryType
<1>3. \A q \in DOMAIN idx : q # p => new[q] = idx[q]
    BY <1>1, Zenon
<1>4. /\ new[p].scripts /\ new[p].have = idx[p].have
      /\ new[p].nChainWork = idx[p].nChainWork
    BY <1>1, Zenon DEF EntryType
<1>. HIDE DEF new
<1>5. Grows(idx, new)
    BY <1>2, <1>3, <1>4, Zenon DEF Grows
<1>6. /\ \A q \in DOMAIN idx : new[q].nChainWork = idx[q].nChainWork
      /\ \A q \in DOMAIN idx : new[q].scripts => new[q].have
    BY <1>1, <1>3, <1>4, Zenon
<1>7. IndexOK(new)
    BY <1>2, <1>5, <1>6, SameWork, Zenon
<1>8. DOMAIN new = DOMAIN idx
    BY <1>2, Zenon
<1>. QED
    BY <1>4, <1>5, <1>7, <1>8, Zenon DEF new

\* Numbers of arrival do not matter to the index.
LEMMA NumberedKeepsIndex ==
    ASSUME NEW idx, IndexOK(idx), NEW new \in SUBSET DOMAIN idx
    PROVE  /\ IndexOK(Numbered(idx, new))
           /\ Grows(idx, Numbered(idx, new))
           /\ DOMAIN Numbered(idx, new) = DOMAIN idx
<1>. DEFINE D == DOMAIN idx
            ids == {idx[q].nSequenceId : q \in D}
            last == Max(ids)
            Earlier(q) == {r \in new : \/ Len(r) < Len(q)
                                       \/ Len(r) = Len(q) /\ Address[Last(r)] <= Address[Last(q)]}
            N == Numbered(idx, new)
<1>1. idx \in [D -> EntryType] /\ \A q \in D : idx[q].scripts => idx[q].have
    BY Zenon DEF IndexOK
<1>2. last \in Nat
  <2>. DEFINE f == [q \in D |-> idx[q].nSequenceId]
  <2>1. ids \in SUBSET Nat
      BY <1>1, SMT, Z3 DEF EntryType
  <2>2. ids # {}
      BY Zenon DEF IndexOK
  <2>3. f \in Surjection(D, ids)
      BY Zenon DEF Surjection
  <2>4. IsFiniteSet(D)
      BY IndexFinite, Zenon
  <2>. HIDE DEF f, ids, D
  <2>5. IsFiniteSet(ids)
      BY <2>3, <2>4, FS_Surjection, Zenon
  <2>. QED
      BY <2>1, <2>2, <2>5, MaxOfFinite, Zenon
<1>3. \A q \in D : Cardinality(Earlier(q)) \in Nat
  <2>. TAKE q \in D
  <2>1. Earlier(q) \in SUBSET D
      BY Zenon
  <2>. HIDE DEF D, Earlier
  <2>. QED
      BY <2>1, IndexFinite, Zenon DEF D
<1>4. N = [q \in D |-> IF q \in new
                       THEN [idx[q] EXCEPT !.nSequenceId = last + Cardinality(Earlier(q))]
                       ELSE idx[q]]
    BY Zenon DEF Numbered
<1>. HIDE DEF last, Earlier, N, ids
<1>5. ASSUME NEW q \in D
      PROVE  /\ N[q] \in EntryType
             /\ N[q].have = idx[q].have /\ N[q].scripts = idx[q].scripts
             /\ N[q].nChainWork = idx[q].nChainWork
  <2>1. idx[q] \in EntryType /\ last + Cardinality(Earlier(q)) \in Nat
      BY <1>1, <1>2, <1>3, SMT, Z3
  <2>2. CASE q \in new
    <3>1. N[q] = [idx[q] EXCEPT !.nSequenceId = last + Cardinality(Earlier(q))]
        BY <1>4, <2>2, Zenon
    <3>. QED
        BY <2>1, <3>1, Zenon DEF EntryType
  <2>3. CASE q \notin new
    <3>1. N[q] = idx[q]
        BY <1>4, <2>3, Zenon
    <3>. QED
        BY <2>1, <3>1, Zenon DEF EntryType
  <2>. QED
      BY <2>2, <2>3, Zenon
<1>6. N \in [D -> EntryType]
    BY <1>4, <1>5, Zenon
<1>7. Grows(idx, N)
    BY <1>5, <1>6, Zenon DEF Grows
<1>8. IndexOK(N)
    BY <1>1, <1>5, <1>6, <1>7, SameWork, Zenon
<1>. QED
    BY <1>6, <1>7, <1>8, Zenon DEF N
-----------------------------------------------------------------------------
(* CVNs, parameters and cache when the tip moves.                          *)

\* A block has the blocks of its parent below it.
LEMMA FrontAgrees ==
    ASSUME Closed, NEW p \in Tree
    PROVE  /\ \A k \in 1..(Len(p) - 1) : Front(p)[k] = p[k] /\ k \in 1..Len(p)
           /\ DOMAIN p = 1..Len(p) /\ DOMAIN Front(p) = 1..(Len(p) - 1)
<1>1. /\ p \in Blocks /\ Front(p) \in Blocks /\ Front(p) = Upto(p, Len(p) - 1)
      /\ Len(Front(p)) = Len(p) - 1
    BY ParentIs, Zenon
<1>2. p \in Seq(Hashes) /\ Front(p) \in Seq(Hashes) /\ Len(p) \in Nat \ {0}
    BY <1>1, BlockIs, Zenon
<1>3. Len(p) - 1 \in 0..Len(p) /\ \A k \in 1..(Len(p) - 1) : k \in 1..Len(p)
    BY <1>2, SMT, Z3
<1>4. \A k \in 1..(Len(p) - 1) : Upto(p, Len(p) - 1)[k] = p[k]
    BY <1>2, <1>3, UptoIs, Zenon
<1>5. \A k \in 1..(Len(p) - 1) : Front(p)[k] = p[k]
    BY <1>1, <1>4, Zenon
<1>. QED
    BY <1>1, <1>2, <1>3, <1>5, SMT, Z3

\* The latest payload of a chain and of its parent.
LEMMA LatestMoves ==
    ASSUME Closed, NEW p \in Tree, NEW kind \in Kinds
    PROVE  /\ kind \in Tip(p).payload => Latest(p, kind) = Len(p)
           /\ Latest(p, kind) < Len(p) \/ kind \notin Tip(p).payload =>
                /\ Latest(Front(p), kind) = Latest(p, kind)
                /\ kind \notin Tip(p).payload
<1>. DEFINE f == Front(p)
            i == Latest(p, kind)
            j == Latest(f, kind)
<1>1. /\ p \in Blocks /\ f \in Blocks /\ f = Upto(p, Len(p) - 1) /\ Len(f) = Len(p) - 1
      /\ p \in Seq(Hashes) /\ Len(p) \in Nat \ {0} /\ p # << >>
    BY ParentIs, BlockIs, Zenon
<1>2. \A k \in 1..Len(f) : f[k] = p[k] /\ k \in 1..Len(p)
    BY <1>1, FrontAgrees, Zenon
<1>3. /\ i \in 1..Len(p) /\ kind \in BlockOf[p[i]].payload
      /\ \A k \in 1..Len(p) : kind \in BlockOf[p[k]].payload => k <= i
    BY <1>1, LatestIs, Zenon
<1>4. /\ j \in 1..Len(f) /\ kind \in BlockOf[f[j]].payload
      /\ \A k \in 1..Len(f) : kind \in BlockOf[f[k]].payload => k <= j
    BY <1>1, LatestIs, Zenon
<1>5. Tip(p) = BlockOf[p[Len(p)]] /\ Len(p) \in 1..Len(p)
    BY <1>1, FrontIs, SMT, Z3
<1>. HIDE DEF f, i, j
<1>6. kind \in Tip(p).payload => i = Len(p)
    BY <1>1, <1>3, <1>5, SMT, Z3
<1>7. ASSUME i < Len(p) \/ kind \notin Tip(p).payload
      PROVE  j = i /\ kind \notin Tip(p).payload
  <2>1. kind \notin Tip(p).payload
      BY <1>1, <1>3, <1>6, <1>7, SMT, Z3
  <2>2. i # Len(p)
      BY <1>3, <1>5, <2>1, Zenon
  <2>3. i \in 1..Len(f)
      BY <1>1, <1>3, <2>2, SMT, Z3
  <2>4. i <= j
      BY <1>2, <1>3, <1>4, <2>3, SMT, Z3
  <2>5. j <= i
      BY <1>2, <1>3, <1>4, Zenon
  <2>. QED
      BY <1>1, <1>3, <1>4, <2>1, <2>4, <2>5, SMT, Z3
<1>. QED
    BY <1>6, <1>7, Zenon DEF f, i, j

\* A prefix of the parent is a prefix of the block, and the other way round
\* unless it is the block.
LEMMA PrefixMoves ==
    ASSUME Closed, NEW p \in Tree, NEW v \in Seq(Hashes)
    PROVE  /\ IsPrefix(v, Front(p)) => IsPrefix(v, p) /\ Len(v) < Len(p)
           /\ IsPrefix(v, p) => v = p \/ IsPrefix(v, Front(p))
           /\ \A i \in 0..(Len(p) - 1) : Upto(Front(p), i) = Upto(p, i)
<1>. DEFINE f == Front(p)
<1>1. /\ p \in Blocks /\ f \in Blocks /\ f = Upto(p, Len(p) - 1) /\ Len(f) = Len(p) - 1
      /\ p \in Seq(Hashes) /\ f \in Seq(Hashes) /\ Len(p) \in Nat \ {0} /\ Len(v) \in Nat
    BY ParentIs, BlockIs, SMT, Z3
<1>2. Len(p) - 1 \in 0..Len(p)
    BY <1>1, SMT, Z3
<1>3. \A i \in 0..(Len(p) - 1) : Upto(f, i) = Upto(p, i)
  <2>1. p \in Seq(Hashes) /\ f = Upto(p, Len(p) - 1)
      BY <1>1, Zenon
  <2>2. \A i \in 0..(Len(p) - 1) : Upto(Upto(p, Len(p) - 1), i) = Upto(p, i)
      BY <1>2, <2>1, UptoUpto, Zenon
  <2>. HIDE DEF f
  <2>. QED
      BY <2>1, <2>2, Zenon
<1>4. /\ IsPrefix(v, p) <=> Len(v) <= Len(p) /\ v = Upto(p, Len(v))
      /\ IsPrefix(v, f) <=> Len(v) <= Len(f) /\ v = Upto(f, Len(v))
    BY <1>1, PrefixIs, Zenon
<1>5. Upto(p, Len(p)) = p
    BY <1>1, UptoUpto, Zenon
<1>. HIDE DEF f
<1>6. ASSUME IsPrefix(v, f) PROVE IsPrefix(v, p) /\ Len(v) < Len(p)
  <2>1. Len(v) \in 0..(Len(p) - 1) /\ Len(v) <= Len(p) /\ Len(v) < Len(p)
      BY <1>1, <1>4, <1>6, SMT, Z3
  <2>. QED
      BY <1>3, <1>4, <1>6, <2>1, SMT, Z3
<1>7. ASSUME IsPrefix(v, p) PROVE v = p \/ IsPrefix(v, f)
  <2>1. CASE Len(v) = Len(p)
      BY <1>4, <1>5, <1>7, <2>1, Zenon
  <2>2. CASE Len(v) # Len(p)
    <3>1. Len(v) \in 0..(Len(p) - 1) /\ Len(v) <= Len(f)
        BY <1>1, <1>4, <1>7, <2>2, SMT, Z3
    <3>. QED
        BY <1>3, <1>4, <1>7, <3>1, Zenon
  <2>. QED
      BY <2>1, <2>2, Zenon
<1>. QED
    BY <1>3, <1>6, <1>7, Zenon DEF f

\* The values survive that the tip is disconnected, which leaves them alone.
LEMMA ValueBack ==
    ASSUME Closed, NEW idx, IndexOK(idx), NEW p \in Tree, NEW kind \in Kinds, NEW value,
           ValueOK(idx, p, kind, value)
    PROVE  ValueOK(idx, Front(p), kind, value)
<1>1. PICK v \in Conn(idx) : /\ kind \in Tip(v).payload
                             /\ value = Value(Tip(v), kind)
                             /\ IsPrefix(v, p) => v = Upto(p, Latest(p, kind))
    BY Zenon DEF ValueOK
<1>2. v \in Seq(Hashes)
    BY ConnIsGot, GotIs, Zenon
<1>3. ASSUME IsPrefix(v, Front(p)) PROVE v = Upto(Front(p), Latest(Front(p), kind))
  <2>1. IsPrefix(v, p) /\ Len(v) < Len(p)
      BY <1>2, <1>3, PrefixMoves, SMT, Z3
  <2>2. v = Upto(p, Latest(p, kind))
      BY <1>1, <2>1, SMT, Z3
  <2>3. p \in Blocks /\ p \in Seq(Hashes) /\ Len(p) \in Nat
      BY ParentIs, BlockIs, SMT, Z3
  <2>4. Latest(p, kind) \in 1..Len(p)
      BY <2>3, LatestIs, Zenon
  <2>5. Latest(p, kind) \in 0..Len(p)
      BY <2>3, <2>4, SMT, Z3
  <2>6. Len(v) = Latest(p, kind)
      BY <2>2, <2>3, <2>5, UptoIs, Zenon
  <2>7. Latest(Front(p), kind) = Latest(p, kind)
      BY <2>1, <2>6, LatestMoves, Zenon
  <2>8. Latest(p, kind) \in 0..(Len(p) - 1)
      BY <2>1, <2>3, <2>5, <2>6, SMT, Z3
  <2>9. Upto(Front(p), Latest(p, kind)) = Upto(p, Latest(p, kind))
      BY <1>2, <2>8, PrefixMoves, Zenon
  <2>. QED
      BY <2>2, <2>7, <2>9, Zenon
<1>. QED
    BY <1>1, <1>3, Zenon DEF ValueOK

\* A block that is connected brings its own, or leaves those of its parent.
LEMMA ValueForth ==
    ASSUME Closed, NEW idx, IndexOK(idx), NEW p \in Tree, NEW kind \in Kinds, NEW value,
           ValueOK(idx, Front(p), kind, value), p \in Conn(idx)
    PROVE  ValueOK(idx, p, kind, IF kind \in Tip(p).payload THEN Value(Tip(p), kind) ELSE value)
<1>0. p \in Blocks /\ p \in Seq(Hashes) /\ Len(p) \in Nat
    BY ParentIs, BlockIs, Zenon
<1>1. CASE kind \in Tip(p).payload
  <2>1. p = Upto(p, Latest(p, kind))
      BY <1>0, <1>1, LatestMoves, UptoUpto, Zenon
  <2>. QED
      BY <1>1, <2>1, Zenon DEF ValueOK
<1>2. CASE kind \notin Tip(p).payload
  <2>1. PICK v \in Conn(idx) :
            /\ kind \in Tip(v).payload
            /\ value = Value(Tip(v), kind)
            /\ IsPrefix(v, Front(p)) => v = Upto(Front(p), Latest(Front(p), kind))
      BY Zenon DEF ValueOK
  <2>2. v \in Seq(Hashes)
      BY ConnIsGot, GotIs, Zenon
  <2>3. ASSUME IsPrefix(v, p) PROVE v = Upto(p, Latest(p, kind))
    <3>1. v # p
        BY <1>2, <2>1, Zenon
    <3>2. IsPrefix(v, Front(p))
        BY <2>2, <2>3, <3>1, PrefixMoves, SMT, Z3
    <3>3. v = Upto(Front(p), Latest(p, kind))
        BY <1>2, <2>1, <3>2, LatestMoves, Zenon
    <3>4. Latest(p, kind) \in 0..(Len(p) - 1)
      <4>1. Front(p) \in Blocks /\ Len(Front(p)) = Len(p) - 1
          BY ParentIs, Zenon
      <4>2. Latest(Front(p), kind) \in 1..(Len(p) - 1)
          BY <4>1, LatestIs, Zenon
      <4>3. Latest(p, kind) = Latest(Front(p), kind)
          BY <1>2, LatestMoves, Zenon
      <4>. QED
          BY <1>0, <4>2, <4>3, SMT, Z3
    <3>. QED
        BY <2>2, <3>3, <3>4, PrefixMoves, SMT, Z3
  <2>. QED
      BY <1>2, <2>1, <2>3, Zenon DEF ValueOK
<1>. QED
    BY <1>1, <1>2, Zenon

\* More blocks that were connected do not matter.
LEMMA ValueStays ==
    ASSUME NEW idx, NEW new, Grows(idx, new), NEW p, NEW kind, NEW value,
           ValueOK(idx, p, kind, value)
    PROVE  ValueOK(new, p, kind, value)
BY GrowsKeeps, Zenon DEF ValueOK

\* The cache as the index grows,
LEMMA CacheStays ==
    ASSUME NEW idx, NEW new, Grows(idx, new), NEW cache, NEW p,
           CacheOK(cache, Got(idx), p)
    PROVE  CacheOK(cache, Got(new), p)
BY GrowsKeeps, Zenon DEF CacheOK

\* as the tip is disconnected,
LEMMA CacheBack ==
    ASSUME Closed, NEW p \in Tree, NEW cache, NEW blocks, CacheOK(cache, blocks, p)
    PROVE  CacheOK(cache, blocks, Front(p))
<1>1. At(Front(p), "cvns") \subseteq At(p, "cvns")
    BY FrontAgrees, Zenon DEF At
<1>. QED
    BY <1>1, Zenon DEF CacheOK

\* and as a block is connected.
LEMMA CacheForth ==
    ASSUME Closed, NEW p \in Tree, NEW s, NEW blocks, CacheOK(s.cache, blocks, Front(p)),
           p \in blocks
    PROVE  CacheOK(Update(s, p).cache, blocks, p)
<1>. DEFINE h == Height(p)
            c == Update(s, p).cache
<1>1. /\ p \in Blocks /\ p \in Seq(Hashes) /\ p # << >> /\ Len(p) \in Nat \ {0}
      /\ Front(p) \in Blocks
      /\ Front(p) = Upto(p, Len(p) - 1) /\ Len(Front(p)) = Len(p) - 1 /\ h = Len(p) - 1
    BY ParentIs, BlockIs, Zenon DEF Height
<1>2. ASSUME NEW i \in At(p, "cvns") PROVE i - 1 \in DOMAIN c
  <2>1. i \in 1..Len(p) /\ "cvns" \in BlockOf[p[i]].payload
      BY <1>1, SMT, Z3 DEF At
  <2>2. CASE i = Len(p)
    <3>1. "cvns" \in Tip(p).payload
        BY <1>1, <2>1, <2>2, FrontIs, Zenon
    <3>2. c = [k \in DOMAIN s.cache \cup {h} |-> IF k = h THEN Tip(p).mapCVNs ELSE s.cache[k]]
        BY <3>1, Zenon DEF Update
    <3>. QED
        BY <1>1, <2>2, <3>2, Zenon
  <2>3. CASE i # Len(p)
    <3>1. i \in 1..(Len(p) - 1) /\ Len(p) - 1 \in 0..Len(p)
        BY <1>1, <2>1, <2>3, SMT, Z3
    <3>2. Front(p)[i] = p[i]
        BY <3>1, FrontAgrees, Zenon
    <3>3. i \in At(Front(p), "cvns")
        BY <2>1, <3>1, <3>2, FrontAgrees, Zenon DEF At
    <3>4. i - 1 \in DOMAIN s.cache
        BY <3>3, Zenon DEF CacheOK
    <3>5. DOMAIN s.cache \subseteq DOMAIN c
        BY Zenon DEF Update
    <3>. QED
        BY <3>4, <3>5, Zenon
  <2>. QED
      BY <2>2, <2>3, Zenon
<1>3. ASSUME NEW k \in DOMAIN c
      PROVE  \E v \in blocks : /\ "cvns" \in Tip(v).payload
                               /\ Height(v) = k
                               /\ c[k] = Tip(v).mapCVNs
  <2>1. CASE "cvns" \notin Tip(p).payload
    <3>1. c = s.cache
        BY <2>1, Zenon DEF Update
    <3>. QED
        BY <1>3, <3>1, SMT, Z3 DEF CacheOK
  <2>2. CASE "cvns" \in Tip(p).payload
    <3>1. c = [j \in DOMAIN s.cache \cup {h} |-> IF j = h THEN Tip(p).mapCVNs ELSE s.cache[j]]
        BY <2>2, Zenon DEF Update
    <3>2. CASE k = h
        BY <2>2, <3>1, <3>2, SMT, Z3
    <3>3. CASE k # h
      <4>1. k \in DOMAIN s.cache /\ c[k] = s.cache[k]
          BY <1>3, <3>1, <3>3, Zenon
      <4>. QED
          BY <4>1, Zenon DEF CacheOK
    <3>. QED
        BY <3>2, <3>3, SMT, Z3
  <2>. QED
      BY <2>1, <2>2, SMT, Z3
<1>. QED
    BY <1>2, <1>3, Zenon DEF CacheOK
-----------------------------------------------------------------------------
(* The steps of a node that runs.                                          *)

\* The tree that MadeByRules describes is closed under parents.
LEMMA RulesClose ==
    ASSUME MadeByRules PROVE Closed
BY Zenon DEF MadeByRules, Closed

\* The rules say of the tree what they said.
LEMMA RulesStay ==
    ASSUME MadeByRules, creators' = creators PROVE MadeByRules'
BY Zenon DEF MadeByRules, CheckProofOfCooperation, CheckNextBlockCreator

\* One lemma per action, from here on: it keeps the invariant.
LEMMA HeaderKeeps ==
    ASSUME EveryBlockCounts, ChainInv, NEW p \in Tree, ReceiveHeader(p)
    PROVE  ChainInv'
<1>. USE DEF ChainInv
<1>0. /\ Closed /\ work.pc = "idle" /\ RunInv /\ Front(p) \in DOMAIN index
      /\ index' = AddToBlockIndex(p, {})
      /\ UNCHANGED <<candidates, active, data, work, disk, faults, creators>>
    BY RulesClose, Zenon DEF ReceiveHeader
<1>1. IndexOK(index') /\ Grows(index, index')
  <2>1. active \in Blocks
      BY <1>0, ConnectedIn, Zenon DEF RunInv
  <2>2. IndexOK(AddToBlockIndex(p, {})) /\ Grows(index, AddToBlockIndex(p, {}))
      BY <1>0, <2>1, AddKeepsIndex, Zenon DEF RunInv
  <2>. QED
      BY <1>0, <2>2, Zenon
<1>2. /\ \A q \in candidates' : Linked(index', q)
      /\ candidates' \subseteq DOMAIN index' /\ candidates' # {}
      /\ Connected(index', active') /\ Connected(index', disk'.tip)
    BY <1>0, <1>1, GrowsKeeps, Zenon DEF RunInv, Grows
<1>3. /\ ValueOK(index', active', "cvns", data'.mapCVNs)
      /\ ValueOK(index', active', "params", data'.mean)
      /\ CacheOK(data'.cache, Got(index'), active')
    BY <1>0, <1>1, ValueStays, CacheStays, SMT, Z3 DEF RunInv
<1>4. RunInv'
    BY <1>0, <1>1, <1>2, <1>3, Zenon DEF RunInv
<1>5. MadeByRules'
    BY <1>0, RulesStay, Zenon
<1>6. DiskInv' /\ work' \in WorkType /\ work'.pc # "down"
    BY <1>0, SMT, Z3 DEF DiskInv
<1>. QED
    BY <1>4, <1>5, <1>6, Zenon

\* A block arrives, with or without its ancestors.
LEMMA BlockKeeps ==
    ASSUME EveryBlockCounts, ChainInv, NEW p \in Tree, ReceiveBlock(p)
    PROVE  ChainInv'
<1>. USE DEF ChainInv
<1>. DEFINE add == AddToBlockIndex(p, Tip(p).vMissingSignerIds)
            idx == [add EXCEPT ![p].have = TRUE]
            new == NowLinked(idx, p)
<1>0. /\ Closed /\ work.pc = "idle" /\ RunInv /\ Front(p) \in DOMAIN index
      /\ index' = Numbered(idx, new)
      /\ candidates' = candidates \cup {q \in new : ~Worse(index', q, active)}
      /\ work' = [Idle EXCEPT !.pc = "find", !.pblock = p]
      /\ UNCHANGED <<active, data, disk, faults, creators>>
    BY RulesClose, SMT, Z3 DEF ReceiveBlock, CheckProofOfCooperation
<1>1. IndexOK(add) /\ Grows(index, add) /\ p \in DOMAIN add
  <2>1. active \in Blocks
      BY <1>0, ConnectedIn, Zenon DEF RunInv
  <2>. QED
      BY <1>0, <2>1, AddKeepsIndex, SMT, Z3 DEF RunInv
<1>2. IndexOK(idx) /\ Grows(add, idx)
  <2>. HIDE DEF add
  <2>. QED
      BY <1>1, HaveKeepsIndex, Zenon
<1>3. new \in SUBSET DOMAIN idx /\ \A q \in new : Linked(idx, q)
  <2>. HIDE DEF idx
  <2>. QED
      BY Zenon DEF NowLinked
<1>. HIDE DEF add, idx, new
<1>4. IndexOK(index') /\ Grows(idx, index') /\ DOMAIN index' = DOMAIN idx
    BY <1>0, <1>2, <1>3, NumberedKeepsIndex, Zenon
<1>5. Grows(index, index')
    BY <1>1, <1>2, <1>4, Zenon DEF Grows
<1>6. /\ \A q \in candidates' : Linked(index', q)
      /\ candidates' \subseteq DOMAIN index' /\ candidates' # {}
  <2>1. \A q \in new : Linked(index', q) /\ q \in DOMAIN index'
      BY <1>3, <1>4, GrowsKeeps, Zenon
  <2>2. \A q \in candidates : Linked(index', q) /\ q \in DOMAIN index'
      BY <1>0, <1>5, GrowsKeeps, Zenon DEF RunInv, Grows
  <2>. QED
      BY <1>0, <2>1, <2>2, Zenon DEF RunInv
<1>7. Connected(index', active') /\ Connected(index', disk'.tip)
    BY <1>0, <1>5, GrowsKeeps, Zenon DEF RunInv
<1>8. /\ ValueOK(index', active', "cvns", data'.mapCVNs)
      /\ ValueOK(index', active', "params", data'.mean)
      /\ CacheOK(data'.cache, Got(index'), active')
    BY <1>0, <1>5, ValueStays, CacheStays, Zenon DEF RunInv
<1>9. work' \in WorkType /\ work'.pc = "find"
  <2>1. p \in Blocks /\ Start \in Blocks
      BY Zenon DEF Blocks
  <2>2. work' = [pc |-> "find", target |-> Start, pblock |-> p, oldWork |-> 0]
      BY <1>0, Zenon DEF Idle
  <2>. QED
      BY <2>1, <2>2, SMT, Z3 DEF WorkType
<1>10. RunInv'
    BY <1>4, <1>6, <1>7, <1>8, <1>9, Zenon DEF RunInv
<1>11. MadeByRules' /\ DiskInv'
    BY <1>0, RulesStay, Zenon DEF DiskInv
<1>. QED
    BY <1>9, <1>10, <1>11, SMT, Z3

\* The target of the activation is linked.
LEMMA FindKeeps ==
    ASSUME ChainInv, FindBest PROVE ChainInv'
<1>. USE DEF ChainInv
<1>. DEFINE best == FindMostWorkChain
<1>0. /\ work.pc = "find" /\ RunInv
      /\ work' = IF best = active THEN Idle
                 ELSE [work EXCEPT !.pc = "step", !.target = best,
                                   !.oldWork = index[active].nChainWork]
      /\ UNCHANGED <<index, candidates, active, data, disk, faults, creators>>
    BY Zenon DEF FindBest
<1>1. best \in candidates /\ best \in Blocks
  <2>1. best \in candidates
      BY <1>0, BestIsCandidate, Zenon DEF RunInv
  <2>. QED
      BY <1>0, <2>1, Zenon DEF RunInv, IndexOK
<1>2. index[active].nChainWork \in Int
    BY <1>0, ConnectedIn, Zenon DEF RunInv, IndexOK, EntryType
<1>. HIDE DEF best
<1>3. work' \in WorkType /\ work'.pc # "down" /\ (work'.pc = "step" => work'.target \in candidates)
  <2>1. CASE best = active
    <3>1. Start \in Blocks
        BY Zenon DEF Blocks
    <3>. QED
        BY <1>0, <2>1, <3>1, SMT, Z3 DEF Idle, WorkType
  <2>2. CASE best # active
    <3>1. work' = [pc |-> "step", target |-> best, pblock |-> work.pblock,
                   oldWork |-> index[active].nChainWork]
        BY <1>0, <2>2, Zenon DEF WorkType
    <3>2. work.pblock \in Blocks
        BY Zenon DEF WorkType
    <3>. QED
        BY <1>1, <1>2, <3>1, <3>2, Zenon DEF WorkType
  <2>. QED
      BY <2>1, <2>2, Zenon
<1>4. RunInv'
    BY <1>0, <1>3, Zenon DEF RunInv
<1>5. MadeByRules' /\ DiskInv'
    BY <1>0, RulesStay, Zenon DEF DiskInv
<1>. QED
    BY <1>3, <1>4, <1>5, Zenon

\* The chain gets shorter, the data stay: a payload lost is one not on the chain.
LEMMA DisconnectKeeps ==
    ASSUME ChainInv, DisconnectTip PROVE ChainInv'
<1>. USE DEF ChainInv
<1>0. /\ Closed /\ work.pc = "step" /\ RunInv /\ ~IsPrefix(active, work.target)
      /\ active' = Front(active)
      /\ UNCHANGED <<index, candidates, data, work, disk, faults, creators>>
    BY RulesClose, SMT, Z3 DEF DisconnectTip
<1>1. active \in Blocks /\ work.target \in Blocks
    BY <1>0, ConnectedIn, Zenon DEF RunInv, WorkType
<1>2. active \in Tree
  <2>1. IsPrefix(Start, work.target)
    <3>1. /\ Start \in Blocks /\ Start \in Seq(Hashes) /\ work.target \in Seq(Hashes)
          /\ Len(Start) <= Len(work.target)
          /\ Upto(work.target, Len(Start)) = Start
        BY <1>0, <1>1, BlockIs, PrefixBlocks, SMT, Z3 DEF Blocks
    <3>. QED
        BY <3>1, PrefixIs, Zenon
  <2>. QED
      BY <1>0, <1>1, <2>1, BlockIs, Zenon
<1>3. Connected(index, Front(active))
  <2>1. Front(active) = Upto(active, Len(active) - 1) /\ Len(active) - 1 \in Len(Start)..Len(active)
      BY <1>0, <1>1, <1>2, ParentIs, BlockIs, SMT, Z3
  <2>. QED
      BY <1>0, <2>1, ConnectedBelow, Zenon DEF RunInv
<1>4. /\ ValueOK(index, Front(active), "cvns", data.mapCVNs)
      /\ ValueOK(index, Front(active), "params", data.mean)
      /\ CacheOK(data.cache, Got(index), Front(active))
    BY <1>0, <1>2, ValueBack, CacheBack, Zenon DEF RunInv, Kinds
<1>5. RunInv'
    BY <1>0, <1>3, <1>4, Zenon DEF RunInv
<1>6. MadeByRules' /\ DiskInv' /\ work' \in WorkType
    BY <1>0, RulesStay, Zenon DEF DiskInv
<1>. QED
    BY <1>0, <1>5, <1>6, SMT, Z3

\* The chain gets longer, and the data are set if the block has a payload.
LEMMA ConnectKeeps ==
    ASSUME ChainInv, ConnectTip PROVE ChainInv'
<1>. USE DEF ChainInv
<1>. DEFINE t == ToConnect
            goal == work.target
<1>0. /\ Closed /\ work.pc = "step" /\ RunInv
      /\ IsPrefix(active, goal) /\ active # goal
      /\ active' = t
      /\ index' = [index EXCEPT ![t].scripts = TRUE]
      /\ data' = Update(data, t)
      /\ candidates' = {p \in candidates : ~Worse(index, p, t)}
      /\ work' = IF t = goal THEN Idle
                 ELSE IF index[t].nChainWork > work.oldWork THEN [work EXCEPT !.pc = "find"]
                 ELSE work
      /\ UNCHANGED <<disk, faults, creators>>
    BY RulesClose, Zenon DEF ConnectTip
<1>1. /\ active \in Blocks /\ goal \in Blocks /\ goal \in candidates /\ goal \in DOMAIN index
      /\ IndexOK(index) /\ Linked(index, goal)
  <2>1. goal \in candidates /\ candidates \subseteq DOMAIN index /\ IndexOK(index)
        /\ \A q \in candidates : Linked(index, q)
      BY <1>0, Zenon DEF RunInv
  <2>2. active \in Blocks
      BY <1>0, ConnectedIn, Zenon DEF RunInv
  <2>3. DOMAIN index \subseteq Blocks
      BY <2>1, Zenon DEF IndexOK
  <2>. QED
      BY <2>1, <2>2, <2>3, Zenon
<1>2. /\ active \in Seq(Hashes) /\ goal \in Seq(Hashes)
      /\ Len(active) \in Nat /\ Len(goal) \in Nat /\ Len(Start) \in Nat
      /\ Len(Start) <= Len(active)
    BY <1>1, BlockIs, Zenon
<1>3. Len(active) <= Len(goal) /\ active = Upto(goal, Len(active))
    BY <1>0, <1>2, PrefixIs, Zenon
<1>4. Len(active) # Len(goal)
    BY <1>0, <1>2, <1>3, UptoUpto, Zenon
<1>5. /\ t = Upto(goal, Len(active) + 1)
      /\ Len(active) + 1 \in 1..Len(goal) /\ Len(active) + 1 \in Len(Start)..Len(goal)
      /\ Len(active) + 1 \in 0..Len(goal)
    BY <1>2, <1>3, <1>4, SMT, Z3 DEF ToConnect, Upto
<1>. HIDE DEF t, goal
<1>6. /\ t \in Blocks /\ Len(t) = Len(active) + 1 /\ Front(t) = active /\ t \in Tree
  <2>1. t \in Blocks
      BY <1>0, <1>1, <1>5, PrefixBlocks, Zenon
  <2>2. Len(t) = Len(active) + 1
      BY <1>2, <1>5, UptoIs, Zenon
  <2>3. Front(t) = Upto(goal, Len(active) + 1 - 1)
      BY <1>2, <1>5, UptoFront, SMT, Z3
  <2>4. Len(active) + 1 - 1 = Len(active) /\ Len(Start) < Len(t)
      BY <1>2, <2>2, SMT, Z3
  <2>. QED
      BY <1>3, <2>1, <2>2, <2>3, <2>4, BlockIs, Zenon
<1>7. t \in DOMAIN index /\ index[t].have
    BY <1>1, <1>5, Zenon DEF Linked, Upto
<1>8. /\ IndexOK(index') /\ Grows(index, index')
      /\ index'[t].have /\ index'[t].scripts /\ DOMAIN index' = DOMAIN index
    BY <1>0, <1>1, <1>7, ScriptsKeepsIndex, Zenon
<1>9. goal \in candidates'
  <2>1. ~Worse(index, goal, t)
    <3>1. CASE t = goal
        BY <1>1, <3>1, WorseOrder, Zenon
    <3>2. CASE t # goal
      <4>1. Len(active) + 1 # Len(goal)
          BY <1>2, <1>5, <3>2, UptoUpto, Zenon
      <4>2. Len(active) + 1 \in Len(Start)..(Len(goal) - 1)
          BY <1>2, <1>5, <4>1, SMT, Z3
      <4>3. index[t].nChainWork < index[goal].nChainWork
          BY <1>0, <1>1, <1>5, <4>2, WorkGrows, SMT, Z3
      <4>4. index[t].nChainWork \in Int /\ index[goal].nChainWork \in Int
          BY <1>1, <1>7, Zenon DEF IndexOK, EntryType
      <4>. QED
          BY <4>3, <4>4, SMT, Z3 DEF Worse
    <3>. QED
        BY <3>1, <3>2, Zenon
  <2>. QED
      BY <1>0, <1>1, <2>1, Zenon
<1>10. /\ \A q \in candidates' : Linked(index', q)
       /\ candidates' \subseteq DOMAIN index' /\ candidates' # {}
    BY <1>0, <1>8, <1>9, GrowsKeeps, SMT, Z3 DEF RunInv
<1>11. Connected(index', t)
  <2>1. Connected(index', active)
      BY <1>0, <1>8, GrowsKeeps, SMT, Z3 DEF RunInv
  <2>. SUFFICES ASSUME NEW i \in Len(Start)..Len(t)
                PROVE  /\ Upto(t, i) \in DOMAIN index'
                       /\ index'[Upto(t, i)].have /\ index'[Upto(t, i)].scripts
      BY <1>6, Zenon DEF Connected
  <2>2. CASE i = Len(t)
    <3>1. Upto(t, i) = t
        BY <1>6, <2>2, BlockIs, UptoUpto, Zenon
    <3>. QED
        BY <1>7, <1>8, <3>1, Zenon
  <2>3. CASE i # Len(t)
    <3>1. i \in Len(Start)..Len(active) /\ i \in 0..(Len(t) - 1)
        BY <1>2, <1>6, <2>3, SMT, Z3
    <3>2. Upto(t, i) = Upto(active, i)
        BY <1>0, <1>2, <1>6, <3>1, PrefixMoves, Zenon
    <3>. QED
        BY <2>1, <3>1, <3>2, Zenon DEF Connected
  <2>. QED
      BY <2>2, <2>3, Zenon
<1>12. t \in Conn(index') /\ t \in Got(index')
    BY <1>7, <1>8, Zenon DEF Conn, Got
<1>13. /\ ValueOK(index', t, "cvns", data'.mapCVNs)
       /\ ValueOK(index', t, "params", data'.mean)
  <2>1. /\ ValueOK(index', active, "cvns", data.mapCVNs)
        /\ ValueOK(index', active, "params", data.mean)
      BY <1>0, <1>8, ValueStays, SMT, Z3 DEF RunInv
  <2>2. /\ ValueOK(index', t, "cvns", IF "cvns" \in Tip(t).payload
                                      THEN Value(Tip(t), "cvns") ELSE data.mapCVNs)
        /\ ValueOK(index', t, "params", IF "params" \in Tip(t).payload
                                        THEN Value(Tip(t), "params") ELSE data.mean)
      BY <1>0, <1>6, <1>8, <1>12, <2>1, ValueForth, Zenon DEF Kinds
  <2>3. /\ Value(Tip(t), "cvns") = Tip(t).mapCVNs /\ Value(Tip(t), "params") = Tip(t).mean
      BY Zenon DEF Value
  <2>4. /\ data'.mapCVNs = IF "cvns" \in Tip(t).payload THEN Tip(t).mapCVNs ELSE data.mapCVNs
        /\ data'.mean = IF "params" \in Tip(t).payload THEN Tip(t).mean ELSE data.mean
      BY <1>0, Zenon DEF Update
  <2>. QED
      BY <2>2, <2>3, <2>4, Zenon
<1>14. CacheOK(data'.cache, Got(index'), t)
  <2>1. CacheOK(data.cache, Got(index'), active)
      BY <1>0, <1>8, CacheStays, SMT, Z3 DEF RunInv
  <2>. QED
      BY <1>0, <1>6, <1>12, <2>1, CacheForth, Zenon
<1>15. /\ work' \in WorkType /\ work'.pc # "down"
       /\ work'.pc = "step" => work'.target = goal
  <2>1. CASE t = goal
    <3>1. Start \in Blocks
        BY Zenon DEF Blocks
    <3>. QED
        BY <1>0, <2>1, <3>1, SMT, Z3 DEF Idle, WorkType
  <2>2. CASE t # goal /\ index[t].nChainWork > work.oldWork
      BY <1>0, <2>2, Zenon DEF WorkType
  <2>3. CASE t # goal /\ ~(index[t].nChainWork > work.oldWork)
      BY <1>0, <2>3, Zenon DEF goal
  <2>. QED
      BY <2>1, <2>2, <2>3, Zenon
<1>16. Connected(index', disk'.tip)
    BY <1>0, <1>8, GrowsKeeps, Zenon DEF RunInv
<1>17. RunInv'
    BY <1>0, <1>8, <1>9, <1>10, <1>11, <1>13, <1>14, <1>15, <1>16, Zenon DEF RunInv
<1>18. MadeByRules' /\ DiskInv'
    BY <1>0, RulesStay, Zenon DEF DiskInv
<1>. QED
    BY <1>15, <1>17, <1>18, Zenon

\* The block is left as it was.
LEMMA FailKeeps ==
    ASSUME ChainInv, FailToConnect PROVE ChainInv'
<1>. USE DEF ChainInv
<1>0. /\ RunInv /\ work' = [work EXCEPT !.pc = "find"]
      /\ UNCHANGED <<index, candidates, active, data, disk, faults, creators>>
    BY Zenon DEF FailToConnect
<1>1. work' \in WorkType /\ work'.pc = "find"
    BY <1>0, Zenon DEF WorkType
<1>2. RunInv'
    BY <1>0, <1>1, Zenon DEF RunInv
<1>3. MadeByRules' /\ DiskInv'
    BY <1>0, RulesStay, Zenon DEF DiskInv
<1>. QED
    BY <1>1, <1>2, <1>3, Zenon

\* The index is written, with or without the coins: the saved tip stays in it.
LEMMA FlushKeeps ==
    ASSUME ChainInv, NEW full \in BOOLEAN, FlushStateToDisk(full) PROVE ChainInv'
<1>. USE DEF ChainInv
<1>0. /\ RunInv /\ work.pc # "down"
      /\ disk' = [index |-> index, tip |-> IF full THEN active ELSE disk.tip]
      /\ UNCHANGED <<index, candidates, active, data, work, creators>>
    BY Zenon DEF FlushStateToDisk
<1>1. disk'.index = index /\ disk'.tip \in {active, disk.tip}
    BY <1>0, Zenon
<1>2. Connected(index, disk'.tip)
    BY <1>0, <1>1, Zenon DEF RunInv
<1>3. RunInv'
    BY <1>0, <1>2, Zenon DEF RunInv
<1>4. DiskInv'
    BY <1>0, <1>1, <1>2, Zenon DEF DiskInv, RunInv
<1>5. MadeByRules' /\ work' \in WorkType
    BY <1>0, RulesStay, Zenon
<1>. QED
    BY <1>0, <1>3, <1>4, <1>5, Zenon

\* What is on disk stays.
LEMMA CrashKeeps ==
    ASSUME ChainInv, Crash PROVE ChainInv'
<1>. USE DEF ChainInv
<1>0. /\ work' = [Idle EXCEPT !.pc = "down"] /\ index' = StartIndex /\ candidates' = {}
      /\ active' = Start /\ data' = DataOf(Start)
      /\ UNCHANGED <<disk, creators>>
    BY Zenon DEF Crash
<1>1. work' \in WorkType /\ work'.pc = "down"
  <2>1. Start \in Blocks
      BY Zenon DEF Blocks
  <2>. QED
      BY <1>0, <2>1, SMT, Z3 DEF Idle, WorkType
<1>2. DownInv' /\ DiskInv' /\ MadeByRules'
  <2>1. DataOf(Start)' = DataOf(Start) /\ StartIndex' = StartIndex
      BY Zenon DEF DataOf, StartIndex, Tip, Last, Entry
  <2>. QED
      BY <1>0, <2>1, RulesStay, Zenon DEF DownInv, DiskInv
<1>. QED
    BY <1>1, <1>2, Zenon

=============================================================================
