--------------------------- MODULE ChainStateProofs ---------------------------
(***************************************************************************)
(* A start from disk keeps the invariant of ChainStateInvariant, and the   *)
(* properties of ChainState follow from it.                                *)
(***************************************************************************)
EXTENDS ChainStateInvariant

\* The state of a node that was never started before.
LEMMA StartConnected ==
    /\ IndexOK(StartIndex) /\ Connected(StartIndex, Start)
    /\ Conn(StartIndex) = BelowStart \cup {Start}
<1>1. /\ DOMAIN StartIndex = {Start} /\ StartIndex[Start] = Entry(TRUE, TRUE, 0, 0)
      /\ StartIndex = [p \in {Start} |-> Entry(TRUE, TRUE, 0, 0)]
    BY Zenon DEF StartIndex
<1>2. /\ StartIndex[Start].have /\ StartIndex[Start].scripts
      /\ StartIndex[Start] \in EntryType
    BY <1>1, SMT, Z3 DEF Entry, EntryType
<1>3. Start \in Blocks /\ Start \in Seq(Hashes)
    BY BlockIs, Zenon DEF Blocks
<1>4. IndexOK(StartIndex)
  <2>1. StartIndex \in [DOMAIN StartIndex -> EntryType]
      BY <1>1, <1>2, Zenon
  <2>. QED
      BY <1>1, <1>2, <1>3, <2>1, Zenon DEF IndexOK
<1>5. Connected(StartIndex, Start)
  <2>1. \A i \in Len(Start)..Len(Start) : i = Len(Start)
      BY <1>3, SMT, Z3
  <2>2. Upto(Start, Len(Start)) = Start
      BY <1>3, UptoUpto, Zenon
  <2>. QED
      BY <1>1, <1>2, <1>3, <2>1, <2>2, Zenon DEF Connected
<1>6. Conn(StartIndex) = BelowStart \cup {Start}
    BY <1>1, <1>2, Zenon DEF Conn
<1>. QED
    BY <1>4, <1>5, <1>6, Zenon

\* The blocks of a connected chain with a payload were connected.
LEMMA PrefixConn ==
    ASSUME Closed, NEW idx, IndexOK(idx), NEW p, Connected(idx, p), NEW i \in 1..Len(p)
    PROVE  /\ Upto(p, i) \in Conn(idx) /\ Upto(p, i) \in Got(idx)
           /\ Tip(Upto(p, i)) = BlockOf[p[i]] /\ Height(Upto(p, i)) = i - 1
<1>1. p \in Blocks
    BY ConnectedIn, Zenon
<1>2. /\ p \in Seq(Hashes) /\ Len(p) \in Nat /\ Len(Start) \in Nat \ {0}
      /\ Start \in Seq(Hashes) /\ Len(Start) <= Len(p) /\ Upto(p, Len(Start)) = Start
    BY <1>1, BlockIs, PrefixBlocks, Zenon DEF Blocks
<1>3. Upto(p, i) \in Conn(idx)
  <2>1. CASE i <= Len(Start)
    <3>1. i \in 1..Len(Start) /\ Len(Start) \in 0..Len(p) /\ i \in 0..Len(Start)
        BY <1>2, <2>1, SMT, Z3
    <3>2. Upto(p, i) = Upto(Start, i)
        BY <1>2, <3>1, UptoUpto, SMT, Z3
    <3>. QED
        BY <3>1, <3>2, Zenon DEF Conn, BelowStart
  <2>2. CASE ~(i <= Len(Start))
    <3>1. i \in Len(Start)..Len(p)
        BY <1>2, <2>2, SMT, Z3
    <3>. QED
        BY <3>1, Zenon DEF Connected, Conn
  <2>. QED
      BY <2>1, <2>2, Zenon
<1>4. Upto(p, i) \in Got(idx)
    BY <1>3, ConnIsGot, Zenon
<1>. QED
    BY <1>2, <1>3, <1>4, UptoFront, SMT, Z3

\* What the chain p says is right for p.
LEMMA ValueOfChain ==
    ASSUME Closed, NEW idx, IndexOK(idx), NEW p, Connected(idx, p), NEW kind \in Kinds
    PROVE  /\ ValueOK(idx, p, kind, Value(Tip(p), kind))
           /\ Tip(MostRecent(p, kind)) = BlockOf[p[Latest(p, kind)]]
           /\ Value(Tip(MostRecent(p, kind)), kind) = Value(Tip(p), kind)
<1>. DEFINE i == Latest(p, kind)
<1>1. p \in Blocks
    BY ConnectedIn, Zenon
<1>2. i \in 1..Len(p) /\ kind \in BlockOf[p[i]].payload /\ MostRecent(p, kind) = Upto(p, i)
    BY <1>1, LatestIs, Zenon
<1>3. Value(Tip(p), kind) = Value(BlockOf[p[i]], kind)
    BY <1>1, LatestDecides, Zenon
<1>. HIDE DEF i
<1>4. Upto(p, i) \in Conn(idx) /\ Tip(Upto(p, i)) = BlockOf[p[i]]
    BY <1>2, PrefixConn, Zenon
<1>5. ValueOK(idx, p, kind, Value(Tip(p), kind))
    BY <1>2, <1>3, <1>4, Zenon DEF ValueOK, i
<1>. QED
    BY <1>2, <1>3, <1>4, <1>5, Zenon DEF i

\* The cache of a chain.
LEMMA CacheOfChain ==
    ASSUME Closed, NEW p \in Blocks
    PROVE  /\ CacheFits(DataOf(p).cache, p)
           /\ DOMAIN DataOf(p).cache = {i - 1 : i \in At(p, "cvns")}
           /\ \A k \in DOMAIN DataOf(p).cache :
                 /\ k + 1 \in At(p, "cvns")
                 /\ DataOf(p).cache[k] = BlockOf[p[k + 1]].mapCVNs
<1>. DEFINE c == DataOf(p).cache
<1>1. c = [h \in {i - 1 : i \in At(p, "cvns")} |-> BlockOf[p[h + 1]].mapCVNs]
    BY Zenon DEF DataOf, At
<1>2. Len(p) \in Nat /\ DOMAIN p = 1..Len(p)
    BY BlockIs, SMT, Z3
<1>. HIDE DEF c
<1>3. DOMAIN c = {i - 1 : i \in At(p, "cvns")}
    BY <1>1, Zenon
<1>4. ASSUME NEW k \in DOMAIN c
      PROVE  /\ k \in Nat /\ k + 1 \in At(p, "cvns") /\ c[k] = BlockOf[p[k + 1]].mapCVNs
             /\ "cvns" \in BlockOf[p[k + 1]].payload
  <2>1. PICK i \in At(p, "cvns") : k = i - 1
      BY <1>3, Zenon
  <2>2. i \in 1..Len(p) /\ "cvns" \in BlockOf[p[i]].payload
      BY <1>2, Zenon DEF At
  <2>3. k \in Nat /\ k + 1 = i
      BY <1>2, <2>1, <2>2, SMT, Z3
  <2>. QED
      BY <1>1, <1>3, <2>2, <2>3, Zenon
<1>5. CacheFits(c, p)
    BY <1>3, <1>4, Zenon DEF CacheFits
<1>. QED
    BY <1>3, <1>4, <1>5, Zenon DEF c

\* The invariant holds at first.
LEMMA InitKeeps ==
    ASSUME Init PROVE ChainInv
<1>0. /\ MadeByRules /\ Closed /\ index = StartIndex /\ candidates = {Start} /\ active = Start
      /\ data = DataOf(Start) /\ work = Idle /\ disk = [index |-> StartIndex, tip |-> Start]
    BY RulesClose, Zenon DEF Init
<1>1. /\ IndexOK(index) /\ Connected(index, active) /\ Connected(index, disk.tip)
      /\ IndexOK(disk.index) /\ Connected(disk.index, disk.tip) /\ Start \in Blocks
    BY <1>0, StartConnected, SMT, Z3 DEF Blocks
<1>2. work \in WorkType /\ work.pc = "idle"
    BY <1>0, <1>1, SMT, Z3 DEF Idle, WorkType
<1>3. Linked(index, Start) /\ Start \in DOMAIN index
    BY <1>0, <1>1, ConnectedIn, Zenon
<1>4. /\ ValueOK(index, active, "cvns", data.mapCVNs)
      /\ ValueOK(index, active, "params", data.mean)
  <2>1. /\ ValueOK(index, Start, "cvns", Value(Tip(Start), "cvns"))
        /\ ValueOK(index, Start, "params", Value(Tip(Start), "params"))
      BY <1>0, <1>1, ValueOfChain, Zenon DEF Kinds
  <2>. QED
      BY <1>0, <2>1, SMT, Z3 DEF Value, DataOf
<1>5. CacheOK(data.cache, Got(index), active)
  <2>0. Closed /\ IndexOK(index) /\ Connected(index, Start)
      BY <1>0, <1>1, Zenon
  <2>1. ASSUME NEW k \in DOMAIN data.cache
        PROVE  \E v \in Got(index) : /\ "cvns" \in Tip(v).payload
                                     /\ Height(v) = k
                                     /\ data.cache[k] = Tip(v).mapCVNs
    <3>1. k + 1 \in At(Start, "cvns") /\ data.cache[k] = BlockOf[Start[k + 1]].mapCVNs
        BY <1>0, <1>1, <2>1, CacheOfChain, SMT, Z3
    <3>2. k \in Nat
        BY <1>0, <1>1, <2>1, CacheOfChain, SMT, Z3 DEF CacheFits
    <3>3. k + 1 \in 1..Len(Start) /\ "cvns" \in BlockOf[Start[k + 1]].payload
        BY <1>1, <3>1, BlockIs, SMT, Z3 DEF At
    <3>4. /\ Upto(Start, k + 1) \in Got(index)
          /\ Tip(Upto(Start, k + 1)) = BlockOf[Start[k + 1]] /\ Height(Upto(Start, k + 1)) = k + 1 - 1
        BY <2>0, <3>2, <3>3, PrefixConn, SMT, Z3
    <3>5. k + 1 - 1 = k
        BY <3>2, SMT, Z3
    <3>. QED
        BY <3>1, <3>3, <3>4, <3>5, Zenon
  <2>2. \A i \in At(Start, "cvns") : i - 1 \in DOMAIN data.cache
      BY <1>0, <1>1, CacheOfChain, Zenon
  <2>. QED
      BY <1>0, <2>1, <2>2, Zenon DEF CacheOK
<1>6. RunInv
    BY <1>0, <1>1, <1>2, <1>3, <1>4, <1>5, SMT, Z3 DEF RunInv
<1>. QED
    BY <1>0, <1>1, <1>2, <1>6, SMT, Z3 DEF ChainInv, DiskInv
-----------------------------------------------------------------------------
(* What a start reads from disk.                                           *)

\* The latest payload of a prefix of a chain.
LEMMA PrefixRecent ==
    ASSUME Closed, NEW p \in Blocks, NEW i \in 1..Len(p), NEW kind \in Kinds
    PROVE  \E m \in 1..i : /\ kind \in BlockOf[p[m]].payload
                           /\ MostRecent(Upto(p, i), kind) = Upto(p, m)
                           /\ Value(BlockOf[p[i]], kind) = Value(BlockOf[p[m]], kind)
<1>. DEFINE q == Upto(p, i)
            m == Max(At(q, kind))
<1>1. /\ p \in Seq(Hashes) /\ Len(p) \in Nat /\ i \in 0..Len(p) /\ i \in Nat /\ 1 \in 1..i
    BY BlockIs, SMT, Z3
<1>2. q \in Seq(Hashes) /\ Len(q) = i /\ \A j \in 1..i : q[j] = p[j]
    BY <1>1, UptoIs, Zenon
<1>. HIDE DEF q
<1>3. DOMAIN q = 1..i
    BY <1>2, SMT, Z3
<1>4. 1 \in At(q, kind)
  <2>1. p[1] = Start[1]
    <3>1. Upto(p, Len(Start)) = Start /\ Len(Start) \in 0..Len(p) /\ 1 \in 1..Len(Start)
        BY PrefixBlocks, BlockIs, SMT, Z3
    <3>. QED
        BY <1>1, <3>1, UptoIs, SMT, Z3
  <2>. QED
      BY <1>1, <1>2, <1>3, <2>1, ChainConstants, SMT, Z3 DEF At, Kinds
<1>5. m \in At(q, kind) /\ \A j \in At(q, kind) : j <= m
  <2>1. At(q, kind) \in SUBSET Nat /\ \A j \in At(q, kind) : j <= i
      BY <1>1, <1>3, SMT, Z3 DEF At
  <2>. QED
      BY <1>1, <1>4, <2>1, MaxOf, Zenon
<1>6. MostRecent(q, kind) = Upto(q, m)
    BY Zenon DEF MostRecent, At, Upto
<1>. HIDE DEF m
<1>7. m \in 1..i /\ kind \in BlockOf[p[m]].payload
    BY <1>2, <1>3, <1>5, Zenon DEF At
<1>8. Upto(q, m) = Upto(p, m)
  <2>1. m \in 0..i
      BY <1>1, <1>7, SMT, Z3
  <2>. QED
      BY <1>1, <2>1, UptoUpto, Zenon DEF q
<1>9. \A j \in (m + 1)..i : kind \notin BlockOf[p[j]].payload
  <2>. SUFFICES ASSUME NEW j \in (m + 1)..i, kind \in BlockOf[p[j]].payload PROVE FALSE
      BY Zenon
  <2>1. j \in 1..i /\ ~(j <= m)
      BY <1>1, <1>7, SMT, Z3
  <2>2. j \in At(q, kind)
      BY <1>2, <1>3, <2>1, SMT, Z3 DEF At
  <2>. QED
      BY <1>5, <2>1, <2>2, Zenon
<1>10. Value(BlockOf[p[i]], kind) = Value(BlockOf[p[m]], kind)
  <2>1. m \in 1..Len(p) /\ i \in m..Len(p)
      BY <1>1, <1>7, SMT, Z3
  <2>. QED
      BY <1>9, <2>1, Carried, SMT, Z3
<1>. QED
    BY <1>6, <1>7, <1>8, <1>10, Zenon DEF q

\* The prefixes of a chain, without the empty one.
Prefixes(tip) == {Upto(tip, i) : i \in 1..Len(tip)}

\* The prefix for which SetMostRecentCVNData is called last.
LEMMA LowestIs ==
    ASSUME NEW tip \in Blocks, NEW S \in SUBSET Prefixes(tip), S # {},
           NEW q, q = CHOOSE x \in S : \A r \in S : Len(x) <= Len(r)
    PROVE  q \in S /\ \A r \in S : Len(q) <= Len(r)
<1>. DEFINE T == {Len(x) : x \in S}
<1>1. T \in SUBSET Nat /\ T # {}
  <2>1. tip \in Seq(Hashes) /\ Len(tip) \in Nat
      BY BlockIs, Zenon
  <2>2. ASSUME NEW x \in S PROVE Len(x) \in Nat
    <3>1. PICK i \in 1..Len(tip) : x = Upto(tip, i)
        BY Zenon DEF Prefixes
    <3>2. i \in 0..Len(tip) /\ i \in Nat
        BY <2>1, SMT, Z3
    <3>. QED
        BY <2>1, <3>1, <3>2, UptoIs, Zenon
  <2>. QED
      BY <2>2, Zenon
<1>2. \E m \in T : \A t \in T : m <= t
  <2>. HIDE DEF T
  <2>. QED
      BY <1>1, LeastElement, Zenon
<1>3. \E x \in S : \A r \in S : Len(x) <= Len(r)
    BY <1>2, Zenon
<1>. QED
    BY <1>3, Zenon

\* SetMostRecentCVNData writes entries of the chain to the cache.
LEMMA RecalledCache ==
    ASSUME Closed, NEW idx, IndexOK(idx), NEW tip, Connected(idx, tip), NEW s,
           CacheOK(s.cache, Got(idx), tip), NEW S \in SUBSET Prefixes(tip)
    PROVE  CacheOK(SetMostRecentCVNData(s, tip, S).cache, Got(idx), tip)
<1>. DEFINE heights == {Height(MostRecent(q, "cvns")) : q \in S}
            c == SetMostRecentCVNData(s, tip, S).cache
<1>1. c = [h \in DOMAIN s.cache \cup heights |->
             IF h \in heights THEN BlockOf[tip[h + 1]].mapCVNs ELSE s.cache[h]]
    BY Zenon DEF SetMostRecentCVNData
<1>2. ASSUME NEW h \in heights
      PROVE  \E v \in Got(idx) : /\ "cvns" \in Tip(v).payload
                                 /\ Height(v) = h
                                 /\ BlockOf[tip[h + 1]].mapCVNs = Tip(v).mapCVNs
  <2>0. tip \in Blocks /\ Len(tip) \in Nat /\ "cvns" \in Kinds
      BY ConnectedIn, BlockIs, Zenon DEF Kinds
  <2>1. PICK q \in S : h = Height(MostRecent(q, "cvns"))
      BY <1>2, Zenon
  <2>2. PICK i \in 1..Len(tip) : q = Upto(tip, i)
      BY Zenon DEF Prefixes
  <2>3. PICK m \in 1..i : /\ "cvns" \in BlockOf[tip[m]].payload
                          /\ MostRecent(Upto(tip, i), "cvns") = Upto(tip, m)
      BY <2>0, PrefixRecent, SMT, Z3
  <2>4. m \in 1..Len(tip)
      BY <2>0, SMT, Z3
  <2>5. /\ Upto(tip, m) \in Got(idx)
        /\ Tip(Upto(tip, m)) = BlockOf[tip[m]] /\ Height(Upto(tip, m)) = m - 1
      BY <2>4, PrefixConn, Zenon
  <2>6. h = m - 1 /\ h + 1 = m
      BY <2>1, <2>2, <2>3, <2>4, <2>5, SMT, Z3
  <2>. QED
      BY <2>3, <2>5, <2>6, SMT, Z3
<1>. HIDE DEF heights, c
<1>3. ASSUME NEW k \in DOMAIN c
      PROVE  \E v \in Got(idx) : /\ "cvns" \in Tip(v).payload
                                 /\ Height(v) = k
                                 /\ c[k] = Tip(v).mapCVNs
  <2>1. CASE k \in heights
      BY <1>1, <1>2, <2>1, Zenon
  <2>2. CASE k \notin heights
    <3>1. k \in DOMAIN s.cache /\ c[k] = s.cache[k]
        BY <1>1, <2>2, Zenon
    <3>. QED
        BY <3>1, Zenon DEF CacheOK
  <2>. QED
      BY <2>1, <2>2, SMT, Z3
<1>4. \A i \in At(tip, "cvns") : i - 1 \in DOMAIN c
    BY <1>1, Zenon DEF CacheOK
<1>. QED
    BY <1>3, <1>4, Zenon DEF CacheOK, c

\* S is the tip and the parents of its blocks with a payload, from the i-th on.
ParentsFrom(S, tip, i) ==
    /\ S \in SUBSET Prefixes(tip) /\ tip \in S
    /\ \A r \in S : r = tip \/ \E k \in i..Len(tip) : k > 1 /\ r = Upto(tip, k - 1)
    /\ \A k \in i..Len(tip) :
          k > 1 /\ BlockOf[tip[k]].payload # {} => Upto(tip, k - 1) \in S

\* The prefixes that VerifyDB goes through.
LEMMA RecalledIs ==
    ASSUME NEW tip \in Blocks, NEW p, NEW i \in Nat \ {0}, Len(p) = i
    PROVE  ParentsFrom(Recalled(tip, p), tip, i)
<1>1. tip \in Seq(Hashes) /\ Len(tip) \in Nat \ {0} /\ tip = Upto(tip, Len(tip))
    BY BlockIs, UptoUpto, Zenon
<1>2. \A k \in i..Len(tip) : k \in 1..Len(tip)
    BY <1>1, SMT, Z3
<1>3. \A k \in 1..Len(tip) : Front(SubSeq(tip, 1, k)) = Upto(tip, k - 1)
    BY <1>1, UptoFront, Zenon DEF Upto
<1>4. Recalled(tip, p) = {tip} \cup
        {Upto(tip, j - 1) : j \in {k \in i..Len(tip) : k > 1 /\ BlockOf[tip[k]].payload # {}}}
    BY <1>2, <1>3, Zenon DEF Recalled
<1>5. tip \in Prefixes(tip)
    BY <1>1, SMT, Z3 DEF Prefixes
<1>6. \A k \in i..Len(tip) : k > 1 => Upto(tip, k - 1) \in Prefixes(tip)
    BY <1>1, <1>2, SMT, Z3 DEF Prefixes
<1>. QED
    BY <1>4, <1>5, <1>6, Zenon DEF ParentsFrom

\* When VerifyDB checks a block it has the CVNs and parameters of its parent.
LEMMA RecalledData ==
    ASSUME Closed, NEW tip \in Blocks, NEW i \in (Len(Start) + 1)..Len(tip), NEW s
    PROVE  LET t == SetMostRecentCVNData(s, tip, Recalled(tip, Upto(tip, i)))
           IN  t.mapCVNs = BlockOf[tip[i - 1]].mapCVNs /\ t.mean = BlockOf[tip[i - 1]].mean
<1>. DEFINE p == Upto(tip, i)
            S == Recalled(tip, p)
            t == SetMostRecentCVNData(s, tip, S)
            q == CHOOSE x \in S : \A r \in S : Len(x) <= Len(r)
<1>1. /\ tip \in Seq(Hashes) /\ Len(tip) \in Nat \ {0} /\ Len(Start) \in Nat \ {0}
      /\ i \in Nat \ {0} /\ i > 1 /\ i \in 1..Len(tip) /\ i \in 0..Len(tip)
    BY BlockIs, SMT, Z3
<1>2. Len(p) = i
    BY <1>1, UptoIs, SMT, Z3
<1>3. t.mapCVNs = Tip(MostRecent(q, "cvns")).mapCVNs /\ t.mean = Tip(MostRecent(q, "params")).mean
    BY Zenon DEF SetMostRecentCVNData
<1>. HIDE DEF p
<1>4. ParentsFrom(S, tip, i)
    BY <1>1, <1>2, RecalledIs, Zenon
<1>. HIDE DEF S
<1>. USE DEF ParentsFrom
<1>5. q \in S /\ \A r \in S : Len(q) <= Len(r)
    BY <1>4, LowestIs, Zenon
<1>. HIDE DEF q
<1>6. PICK j \in (i - 1)..Len(tip) : q = Upto(tip, j)
  <2>1. CASE q = tip
    <3>1. Len(tip) \in (i - 1)..Len(tip) /\ tip = Upto(tip, Len(tip))
        BY <1>1, UptoUpto, SMT, Z3
    <3>. QED
        BY <2>1, <3>1, Zenon
  <2>2. CASE q # tip
    <3>1. PICK k \in i..Len(tip) : q = Upto(tip, k - 1)
        BY <1>4, <1>5, <2>2, Zenon
    <3>2. k - 1 \in (i - 1)..Len(tip)
        BY <1>1, SMT, Z3
    <3>. QED
        BY <3>1, <3>2, Zenon
  <2>. QED
      BY <2>1, <2>2, Zenon
<1>7. j \in 1..Len(tip) /\ j \in 0..Len(tip) /\ j \in Nat /\ i - 1 \in 1..Len(tip)
      /\ j \in (i - 1)..Len(tip)
    BY <1>1, SMT, Z3
<1>8. Len(q) = j
    BY <1>1, <1>6, <1>7, UptoIs, Zenon
<1>9. ASSUME NEW k \in ((i - 1) + 1)..j PROVE BlockOf[tip[k]].payload = {}
  <2>1. k \in i..Len(tip) /\ k > 1 /\ k - 1 \in 0..Len(tip) /\ ~(j <= k - 1)
      BY <1>1, <1>7, SMT, Z3
  <2>. SUFFICES ASSUME BlockOf[tip[k]].payload # {} PROVE FALSE
      BY Zenon
  <2>2. Upto(tip, k - 1) \in S
      BY <1>4, <2>1, Zenon
  <2>3. Len(Upto(tip, k - 1)) = k - 1
      BY <1>1, <2>1, UptoIs, Zenon
  <2>. QED
      BY <1>5, <1>8, <2>1, <2>2, <2>3, Zenon
<1>10. ASSUME NEW kind \in Kinds
       PROVE  Value(Tip(MostRecent(q, kind)), kind) = Value(BlockOf[tip[i - 1]], kind)
  <2>1. PICK m \in 1..j : /\ MostRecent(Upto(tip, j), kind) = Upto(tip, m)
                          /\ Value(BlockOf[tip[j]], kind) = Value(BlockOf[tip[m]], kind)
      BY <1>7, PrefixRecent, SMT, Z3
  <2>2. m \in 1..Len(tip)
      BY <1>1, <1>7, SMT, Z3
  <2>3. Tip(Upto(tip, m)) = BlockOf[tip[m]]
      BY <1>1, <2>2, UptoFront, SMT, Z3
  <2>4. \A k \in ((i - 1) + 1)..j : kind \notin BlockOf[tip[k]].payload
      BY <1>9, Zenon
  <2>5. Value(BlockOf[tip[j]], kind) = Value(BlockOf[tip[i - 1]], kind)
      BY <1>7, <2>4, Carried, Zenon
  <2>. QED
      BY <1>6, <2>1, <2>3, <2>5, SMT, Z3
<1>11. /\ Value(Tip(MostRecent(q, "cvns")), "cvns") = Value(BlockOf[tip[i - 1]], "cvns")
       /\ Value(Tip(MostRecent(q, "params")), "params") = Value(BlockOf[tip[i - 1]], "params")
    BY <1>10, Zenon DEF Kinds
<1>12. /\ Tip(MostRecent(q, "cvns")).mapCVNs = BlockOf[tip[i - 1]].mapCVNs
       /\ Tip(MostRecent(q, "params")).mean = BlockOf[tip[i - 1]].mean
    BY <1>11, Zenon DEF Value
<1>13. t.mapCVNs = BlockOf[tip[i - 1]].mapCVNs /\ t.mean = BlockOf[tip[i - 1]].mean
    BY <1>3, <1>12, SMT, Z3
<1>. QED
    BY <1>13, Zenon DEF S, p

\* LoadBlockIndexDB: the cache has entries of blocks in the index, and all
\* that a chain in the index needs.
LEMMA LoadedCacheIs ==
    ASSUME Closed, NEW idx, IndexOK(idx)
    PROVE  /\ \A k \in DOMAIN LoadedCache(idx) :
                 \E v \in BelowStart \cup DOMAIN idx :
                    /\ "cvns" \in Tip(v).payload /\ Height(v) = k
                    /\ LoadedCache(idx)[k] = Tip(v).mapCVNs
           /\ \A i \in At(Start, "cvns") : i - 1 \in DOMAIN LoadedCache(idx)
           /\ \A p \in DOMAIN idx : "cvns" \in Tip(p).payload =>
                                       Height(p) \in DOMAIN LoadedCache(idx)
<1>. DEFINE with(h) == {p \in DOMAIN idx : Height(p) = h /\ "cvns" \in Tip(p).payload}
            heights == {Height(p) : p \in DOMAIN idx}
            last(h) == CHOOSE p \in with(h) : \A q \in with(h) : Address[Last(q)] <= Address[Last(p)]
            old == DataOf(Start).cache
            c == LoadedCache(idx)
<1>0. Start \in Blocks
    BY Zenon DEF Blocks
<1>1. c = [h \in DOMAIN old \cup {k \in heights : with(k) # {}} |->
             IF with(h) # {} THEN Tip(last(h)).mapCVNs ELSE old[h]]
    BY Zenon DEF LoadedCache
<1>2. ASSUME NEW h, with(h) # {} PROVE last(h) \in with(h)
  <2>. DEFINE W == with(h)
              R == {x \in W \X W : Address[Last(x[1])] < Address[Last(x[2])]}
  <2>1. W \in SUBSET DOMAIN idx /\ W # {} /\ W \in SUBSET Blocks
      BY <1>2, Zenon DEF IndexOK
  <2>2. \A x, y \in W : <<x, y>> \in R <=> Address[Last(x)] < Address[Last(y)]
      BY Zenon
  <2>. HIDE DEF W
  <2>3. /\ \A x \in W : Address[Last(x)] \in Int
        /\ \A x, y \in W : Address[Last(x)] = Address[Last(y)] => x = y
      BY <2>1, ChainConstants, Zenon
  <2>4. IsFiniteSet(W)
      BY <2>1, IndexFinite, SMT, Z3
  <2>. HIDE DEF R
  <2>5. \A x, y \in W : x # y => <<x, y>> \in R \/ <<y, x>> \in R
    <3>. SUFFICES ASSUME NEW x \in W, NEW y \in W, x # y
                  PROVE  Address[Last(x)] < Address[Last(y)] \/ Address[Last(y)] < Address[Last(x)]
        BY <2>2, Zenon
    <3>. QED
        BY <2>3, SMT, Z3
  <2>6. \A x, y, z \in W : <<x, y>> \in R /\ <<y, z>> \in R => <<x, z>> \in R
    <3>. SUFFICES ASSUME NEW x \in W, NEW y \in W, NEW z \in W,
                         Address[Last(x)] < Address[Last(y)], Address[Last(y)] < Address[Last(z)]
                  PROVE  Address[Last(x)] < Address[Last(z)]
        BY <2>2, Zenon
    <3>. QED
        BY <2>3, SMT, Z3
  <2>7. PICK m \in W : \A x \in W \ {m} : <<x, m>> \in R
      BY <2>1, <2>4, <2>5, <2>6, LastInOrder, SMT, Z3
  <2>8. \A x \in W : Address[Last(x)] <= Address[Last(m)]
    <3>. TAKE x \in W
    <3>1. CASE x = m
        BY <2>3, <3>1, SMT, Z3
    <3>2. CASE x # m
      <4>1. Address[Last(x)] < Address[Last(m)]
          BY <2>2, <2>7, <3>2, Zenon
      <4>. QED
          BY <2>3, <4>1, SMT, Z3
    <3>. QED
        BY <3>1, <3>2, Zenon
  <2>9. \E p \in with(h) : \A q \in with(h) : Address[Last(q)] <= Address[Last(p)]
      BY <2>8, Zenon DEF W
  <2>. QED
      BY <2>9, Zenon
<1>3. ASSUME NEW k \in DOMAIN c
      PROVE  \E v \in BelowStart \cup DOMAIN idx :
                /\ "cvns" \in Tip(v).payload /\ Height(v) = k /\ c[k] = Tip(v).mapCVNs
  <2>1. CASE with(k) # {}
    <3>1. last(k) \in with(k)
        BY <1>2, <2>1, Zenon
    <3>2. c[k] = Tip(last(k)).mapCVNs
        BY <1>1, <1>3, <2>1, Zenon
    <3>. HIDE DEF last, c
    <3>. QED
        BY <3>1, <3>2, Zenon
  <2>2. CASE with(k) = {}
    <3>1. k \in DOMAIN old /\ c[k] = old[k]
      <4>. HIDE DEF with, last, old, heights, c
      <4>. QED
          BY <1>1, <1>3, <2>2, Zenon
    <3>2. k \in Nat /\ k + 1 \in At(Start, "cvns") /\ old[k] = BlockOf[Start[k + 1]].mapCVNs
        BY <1>0, <3>1, CacheOfChain, Zenon DEF CacheFits
    <3>3. Start \in Seq(Hashes) /\ k + 1 \in 1..Len(Start) /\ "cvns" \in BlockOf[Start[k + 1]].payload
        BY <1>0, <3>2, BlockIs, SMT, Z3 DEF At
    <3>4. /\ Upto(Start, k + 1) \in BelowStart
          /\ Tip(Upto(Start, k + 1)) = BlockOf[Start[k + 1]] /\ Height(Upto(Start, k + 1)) = k + 1 - 1
        BY <3>2, <3>3, UptoFront, SMT, Z3 DEF BelowStart
    <3>5. k + 1 - 1 = k
        BY <3>2, SMT, Z3
    <3>. HIDE DEF c, old
    <3>. QED
        BY <3>1, <3>2, <3>3, <3>4, <3>5, Zenon
  <2>. QED
      BY <2>1, <2>2, Zenon
<1>4. \A i \in At(Start, "cvns") : i - 1 \in DOMAIN c
  <2>1. \A i \in At(Start, "cvns") : i - 1 \in DOMAIN old
      BY <1>0, CacheOfChain, Zenon
  <2>. HIDE DEF with, last, old, heights, c
  <2>. QED
      BY <1>1, <2>1, Zenon
<1>5. ASSUME NEW p \in DOMAIN idx, "cvns" \in Tip(p).payload PROVE Height(p) \in DOMAIN c
  <2>1. Height(p) \in heights /\ with(Height(p)) # {}
      BY <1>5, Zenon
  <2>. HIDE DEF with, last, old, heights, c
  <2>. QED
      BY <1>1, <2>1, Zenon
<1>. QED
    BY <1>3, <1>4, <1>5, Zenon

\* It is the cache of the chain that the start takes up, if the blocks with
\* CVNs are there.
LEMMA LoadedCacheOK ==
    ASSUME Closed, NEW idx, IndexOK(idx), NEW p, Connected(idx, p), NEW blocks,
           BelowStart \subseteq blocks,
           \A q \in DOMAIN idx : "cvns" \in Tip(q).payload => q \in blocks
    PROVE  CacheOK(LoadedCache(idx), blocks, p)
<1>1. \A k \in DOMAIN LoadedCache(idx) :
         \E v \in blocks : /\ "cvns" \in Tip(v).payload /\ Height(v) = k
                           /\ LoadedCache(idx)[k] = Tip(v).mapCVNs
    BY LoadedCacheIs, Zenon
<1>2. ASSUME NEW i \in At(p, "cvns") PROVE i - 1 \in DOMAIN LoadedCache(idx)
  <2>0. /\ p \in Blocks /\ p \in Seq(Hashes) /\ Start \in Seq(Hashes)
        /\ Len(p) \in Nat /\ Len(Start) \in Nat \ {0} /\ Len(Start) <= Len(p)
        /\ Upto(p, Len(Start)) = Start
      BY ConnectedIn, BlockIs, PrefixBlocks, Zenon DEF Blocks
  <2>1. i \in 1..Len(p) /\ "cvns" \in BlockOf[p[i]].payload
      BY <2>0, SMT, Z3 DEF At
  <2>2. CASE i <= Len(Start)
    <3>1. i \in 1..Len(Start) /\ Len(Start) \in 0..Len(p)
        BY <2>0, <2>1, <2>2, SMT, Z3
    <3>2. Start[i] = p[i]
      <4>1. Upto(p, Len(Start))[i] = p[i]
          BY <2>0, <3>1, UptoIs, Zenon
      <4>. QED
          BY <2>0, <4>1, Zenon
    <3>3. i \in At(Start, "cvns")
        BY <2>0, <2>1, <3>1, <3>2, SMT, Z3 DEF At
    <3>. QED
        BY <3>3, LoadedCacheIs, Zenon
  <2>3. CASE ~(i <= Len(Start))
    <3>1. i \in Len(Start)..Len(p)
        BY <2>0, <2>1, <2>3, SMT, Z3
    <3>2. Upto(p, i) \in DOMAIN idx
        BY <3>1, Zenon DEF Connected
    <3>3. Tip(Upto(p, i)) = BlockOf[p[i]] /\ Height(Upto(p, i)) = i - 1
        BY <2>0, <2>1, UptoFront, SMT, Z3
    <3>4. Height(Upto(p, i)) \in DOMAIN LoadedCache(idx)
        BY <2>1, <3>2, <3>3, LoadedCacheIs, SMT, Z3
    <3>. QED
        BY <3>3, <3>4, Zenon
  <2>. QED
      BY <2>2, <2>3, Zenon
<1>. QED
    BY <1>1, <1>2, Zenon DEF CacheOK

\* The signatures that the i-th block of p after Start adds to its work.
Gain(idx, s, p, i) ==
    LET q == SubSeq(p, 1, Len(Start) + i)
    IN  GetNumChainSigs(s, Height(q), SavedMissing(idx, q))

\* f counts the work along p and ends with that of p, which has n blocks after Start.
Works(idx, s, p, n, f) ==
    /\ \A k \in 0..n : f[k] \in Int
    /\ f[0] = 0
    /\ \A k \in 1..n : f[k] = f[k - 1] + Gain(idx, s, p, k)
    /\ LoadedWork(idx, s, p) = f[n]

\* Every block of p after Start has signatures.
Gains(idx, s, p, n) == \A k \in 1..n : Gain(idx, s, p, k) \in Int

\* The recursive definition of the work of a block has a solution.
LEMMA LoadedWorkIs ==
    ASSUME NEW idx, NEW s, NEW p, NEW n \in Nat, n = Len(p) - Len(Start),
           Gains(idx, s, p, n)
    PROVE  \E f : Works(idx, s, p, n, f)
<1>. USE DEF Gains
<1>. DEFINE G(k) == Gain(idx, s, p, k)
            g == [k \in 1..n |-> [x \in Int |-> x + G(k)]]
            F(f) == [k \in 0..n |-> IF k = 0 THEN 0 ELSE f[k - 1] + G(k)]
<1>1. g \in Steps(n, Int)
  <2>1. \A k \in 1..n : \A x \in Int : x + G(k) \in Int
    <3>. HIDE DEF G
    <3>. QED
        BY SMT, Z3 DEF G
  <2>. HIDE DEF G
  <2>. QED
      BY <2>1, Zenon DEF Steps
<1>2. PICK f \in [0..n -> Int] : Solves(f, n, 0, g)
  <2>. DEFINE S == Int
  <2>1. 0 \in S /\ g \in Steps(n, S)
      BY <1>1, SMT, Z3
  <2>. HIDE DEF g, S
  <2>2. \E f \in [0..n -> S] : Solves(f, n, 0, g)
      BY <2>1, RecursionExists, Zenon
  <2>. QED
      BY <2>2, Zenon DEF S
<1>. HIDE DEF G
<1>3. \A k \in 1..n : f[k] = f[k - 1] + G(k)
  <2>. TAKE k \in 1..n
  <2>1. k - 1 \in 0..n
      BY SMT, Z3
  <2>2. f[k - 1] \in Int
      BY <1>2, <2>1, Zenon
  <2>. QED
      BY <1>2, <2>2, Zenon DEF Solves
<1>4. f = F(f)
  <2>1. \A k \in 0..n : k # 0 => k \in 1..n
      BY SMT, Z3
  <2>2. \A k \in 0..n : f[k] = F(f)[k]
      BY <1>2, <1>3, <2>1, Zenon DEF Solves
  <2>. QED
      BY <1>2, <2>2, Zenon
<1>. DEFINE c == CHOOSE h : h = F(h)
<1>5. c = F(c)
    BY <1>4, Zenon
<1>6. c[0] = 0 /\ \A k \in 1..n : c[k] = c[k - 1] + G(k)
  <2>1. 0 \in 0..n /\ \A k \in 1..n : k \in 0..n /\ k # 0
      BY SMT, Z3
  <2>2. \A k \in 0..n : c[k] = F(c)[k]
      BY <1>5, Zenon
  <2>3. \A k \in 0..n : F(c)[k] = IF k = 0 THEN 0 ELSE c[k - 1] + G(k)
      BY Zenon
  <2>. HIDE DEF c, F
  <2>. QED
      BY <2>1, <2>2, <2>3, Zenon
<1>7. LoadedWork(idx, s, p) = c[n]
    BY Zenon DEF LoadedWork, G, Gain
<1>. HIDE DEF c, F
<1>8. \A k \in 0..n : c[k] \in Int
  <2>. DEFINE A == {k \in Nat : k <= n => c[k] \in Int}
  <2>1. 0 \in A
      BY <1>6, SMT, Z3
  <2>2. ASSUME NEW k \in Nat, k \in A, k < n PROVE k + 1 \in A
    <3>1. k <= n /\ k + 1 \in 1..n /\ (k + 1) - 1 = k
        BY <2>2, SMT, Z3
    <3>2. c[k + 1] = c[k] + G(k + 1) /\ G(k + 1) \in Int /\ c[k] \in Int
        BY <1>6, <2>2, <3>1, Zenon DEF G
    <3>. QED
        BY <3>2, SMT, Z3
  <2>3. \A k \in 0..n : k \in A
    <3>. HIDE DEF A
    <3>. QED
        BY <2>1, <2>2, UpTo, Zenon
  <2>. QED
      BY <2>3, SMT, Z3
<1>. QED
    BY <1>6, <1>7, <1>8, SMT, Z3 DEF G, Works

\* A block has the work of its parent and its own signatures.
LEMMA LoadedWorkStep ==
    ASSUME Closed, NEW idx, NEW s, NEW p \in Tree,
           \A k \in 1..(Len(p) - Len(Start)) :
              Gain(idx, s, p, k) \in Int /\ Gain(idx, s, p, k) > 0
    PROVE  /\ LoadedWork(idx, s, p) \in Int /\ LoadedWork(idx, s, Front(p)) \in Int
           /\ LoadedWork(idx, s, Front(p)) < LoadedWork(idx, s, p)
<1>. DEFINE q == Front(p)
            n == Len(p) - Len(Start)
            m == Len(q) - Len(Start)
<1>1. /\ p \in Seq(Hashes) /\ Len(p) \in Nat /\ Len(Start) \in Nat /\ Len(q) = Len(p) - 1
      /\ n \in Nat /\ m \in Nat /\ m = n - 1 /\ n \in 1..n
    BY ParentIs, BlockIs, SMT, Z3
<1>2. \A k \in 1..m : Gain(idx, s, q, k) = Gain(idx, s, p, k) /\ k \in 1..n
  <2>. TAKE k \in 1..m
  <2>1. Len(Start) + k \in 0..(Len(p) - 1) /\ k \in 1..n
      BY <1>1, SMT, Z3
  <2>2. SubSeq(q, 1, Len(Start) + k) = SubSeq(p, 1, Len(Start) + k)
      BY <1>1, <2>1, PrefixMoves, Zenon DEF Upto
  <2>. QED
      BY <2>1, <2>2, Zenon DEF Gain
<1>21. /\ Gains(idx, s, p, n) /\ Gains(idx, s, q, m)
       /\ n = Len(p) - Len(Start) /\ m = Len(q) - Len(Start)
    BY <1>2, SMT, Z3 DEF Gains
<1>. HIDE DEF q, n, m
<1>3. PICK f : Works(idx, s, p, n, f)
    BY <1>1, <1>21, LoadedWorkIs, SMT, Z3
<1>4. PICK e : Works(idx, s, q, m, e)
    BY <1>1, <1>21, LoadedWorkIs, SMT, Z3
<1>. USE DEF Works
<1>5. e[m] = f[m]
  <2>. DEFINE A == {k \in Nat : k <= m => e[k] = f[k]}
  <2>1. 0 \in A
      BY <1>3, <1>4, Zenon
  <2>2. ASSUME NEW k \in Nat, k \in A, k < m PROVE k + 1 \in A
    <3>0. k <= m => e[k] = f[k]
        BY <2>2, Zenon
    <3>1. k + 1 \in 1..m /\ k + 1 \in 1..n /\ (k + 1) - 1 = k /\ e[k] = f[k]
      <4>. HIDE DEF A, Works
      <4>. QED
          BY <1>1, <2>2, <3>0, SMT, Z3
    <3>2. e[k + 1] = e[k] + Gain(idx, s, q, k + 1) /\ f[k + 1] = f[k] + Gain(idx, s, p, k + 1)
        BY <1>3, <1>4, <3>1, SMT, Z3
    <3>3. e[k + 1] = f[k + 1]
        BY <1>2, <3>1, <3>2, Zenon
    <3>. QED
        BY <3>3, SMT, Z3
  <2>3. \A k \in 0..m : k \in A
    <3>. HIDE DEF A
    <3>. QED
        BY <1>1, <2>1, <2>2, UpTo, Zenon
  <2>4. m \in 0..m
      BY <1>1, SMT, Z3
  <2>. QED
      BY <1>1, <2>3, <2>4, SMT, Z3
<1>6. f[n] = f[m] + Gain(idx, s, p, n) /\ f[m] \in Int /\ f[n] \in Int
  <2>1. m \in 0..n /\ n \in 0..n
      BY <1>1, SMT, Z3
  <2>. QED
      BY <1>1, <1>3, <2>1, Zenon
<1>7. Gain(idx, s, p, n) \in Int /\ Gain(idx, s, p, n) > 0
    BY <1>1, Zenon DEF n
<1>8. f[m] < f[n]
    BY <1>6, <1>7, SMT, Z3
<1>. QED
    BY <1>3, <1>4, <1>5, <1>6, <1>8, SMT, Z3 DEF q

\* The index after a start.
LEMMA LoadedIndexOK ==
    ASSUME Closed, EveryBlockCounts, NEW idx, IndexOK(idx), NEW s, NEW a \in Blocks,
           CacheOK(s.cache, Blocks \cup BelowStart, a)
    PROVE  IndexOK(LoadedIndex(idx, s)) /\ Grows(idx, LoadedIndex(idx, s))
<1>. DEFINE new == LoadedIndex(idx, s)
<1>1. new = [p \in DOMAIN idx |->
               Entry(idx[p].have, idx[p].scripts, LoadedWork(idx, s, p), 0)]
    BY Zenon DEF LoadedIndex
<1>2. ASSUME NEW p \in Tree, NEW k \in 1..(Len(p) - Len(Start))
      PROVE  Gain(idx, s, p, k) \in Int /\ Gain(idx, s, p, k) > 0
  <2>. DEFINE q == Upto(p, Len(Start) + k)
  <2>1. /\ p \in Blocks /\ p \in Seq(Hashes) /\ Len(p) \in Nat /\ Len(Start) \in Nat
        /\ Len(Start) + k \in Len(Start)..Len(p) /\ Len(Start) + k \in 0..Len(p)
        /\ Len(Start) < Len(Start) + k
      BY ParentIs, BlockIs, SMT, Z3
  <2>2. q \in Blocks /\ Len(q) = Len(Start) + k
      BY <2>1, PrefixBlocks, UptoIs, Zenon
  <2>3. q \in Tree
      BY <2>1, <2>2, BlockIs, Zenon
  <2>4. SavedMissing(idx, q) \in {{}, Tip(q).vMissingSignerIds}
      BY Zenon DEF SavedMissing
  <2>5. Gain(idx, s, p, k) = GetNumChainSigs(s, Height(q), SavedMissing(idx, q))
      BY Zenon DEF Gain, Upto
  <2>. HIDE DEF q
  <2>. QED
      BY <2>3, <2>4, <2>5, CountPositive, Zenon
<1>3. \A p \in Tree : /\ LoadedWork(idx, s, p) \in Int
                      /\ LoadedWork(idx, s, Front(p)) < LoadedWork(idx, s, p)
    BY <1>2, LoadedWorkStep, Zenon
<1>4. LoadedWork(idx, s, Start) \in Int
  <2>1. Len(Start) - Len(Start) = 0 /\ 1..0 = {}
      BY BlockIs, SMT, Z3 DEF Blocks
  <2>2. Gains(idx, s, Start, 0)
      BY <2>1, Zenon DEF Gains
  <2>3. PICK f : Works(idx, s, Start, 0, f)
      BY <2>1, <2>2, LoadedWorkIs, SMT, Z3
  <2>. QED
      BY <2>3, SMT, Z3 DEF Works
<1>5. \A p \in DOMAIN idx : p \in Blocks /\ (p # Start => p \in Tree)
    BY Zenon DEF IndexOK, Blocks
<1>6. \A p \in DOMAIN idx : LoadedWork(idx, s, p) \in Int
    BY <1>3, <1>4, <1>5, SMT, Z3
<1>. HIDE DEF new
<1>7. ASSUME NEW p \in DOMAIN idx
      PROVE  /\ new[p] \in EntryType
             /\ new[p].have = idx[p].have /\ new[p].scripts = idx[p].scripts
             /\ new[p].nChainWork = LoadedWork(idx, s, p)
  <2>1. idx[p].have \in BOOLEAN /\ idx[p].scripts \in BOOLEAN
      BY Zenon DEF IndexOK, EntryType
  <2>2. new[p] = Entry(idx[p].have, idx[p].scripts, LoadedWork(idx, s, p), 0)
      BY <1>1, Zenon
  <2>. QED
      BY <1>6, <2>1, <2>2, SMT, Z3 DEF Entry, EntryType
<1>8. new \in [DOMAIN idx -> EntryType] /\ DOMAIN new = DOMAIN idx
    BY <1>1, <1>7, Zenon
<1>9. Grows(idx, new)
    BY <1>7, <1>8, Zenon DEF Grows
<1>10. ASSUME NEW p \in DOMAIN new
       PROVE  /\ new[p].scripts => new[p].have
              /\ p # Start => /\ Front(p) \in DOMAIN new
                              /\ new[Front(p)].nChainWork < new[p].nChainWork
  <2>1. p \in DOMAIN idx
      BY <1>8, Zenon
  <2>2. /\ idx[p].scripts => idx[p].have
        /\ p # Start => Front(p) \in DOMAIN idx
      BY <2>1, Zenon DEF IndexOK
  <2>. QED
      BY <1>3, <1>5, <1>7, <1>8, <2>1, <2>2, SMT, Z3
<1>11. IndexOK(new)
  <2>1. DOMAIN new \subseteq Blocks /\ Start \in DOMAIN new
        /\ new[Start].have /\ new[Start].scripts
      BY <1>7, <1>8, Zenon DEF IndexOK
  <2>. QED
      BY <1>8, <1>10, <2>1, Zenon DEF IndexOK
<1>. QED
    BY <1>9, <1>11, Zenon DEF new

\* A start.
LEMMA RestartKeeps ==
    ASSUME EveryBlockCounts, ChainInv, Restart PROVE ChainInv'
<1>. USE DEF ChainInv
<1>. DEFINE idx == disk.index
            tip == disk.tip
            s == LoadedData(disk)
            S == Recalled(tip, Start)
            t == SetMostRecentCVNData(s, tip, S)
<1>0. /\ Closed /\ work.pc = "down" /\ Readable(idx)
      /\ index' = LoadedIndex(idx, s) /\ data' = VerifiedData(disk)
      /\ candidates' = {p \in DOMAIN index' : Linked(index', p) /\ ~Worse(index', p, tip)}
      /\ active' = tip /\ work' = Idle
      /\ UNCHANGED <<disk, faults, creators>>
    BY RulesClose, SMT, Z3 DEF Restart, LoadsFrom
<1>1. IndexOK(idx) /\ Connected(idx, tip)
    BY Zenon DEF DiskInv
<1>2. tip \in Blocks /\ tip \in DOMAIN idx /\ Start \in Blocks
    BY <1>1, ConnectedIn, SMT, Z3 DEF Blocks
<1>3. s.cache = LoadedCache(idx)
    BY Zenon DEF LoadedData, DataOf
<1>4. data' = SetMostRecentCVNData(t, tip, {tip})
    BY <1>0, Zenon DEF VerifiedData
<1>. HIDE DEF idx, tip, s, t, S
<1>5. CacheOK(s.cache, Blocks \cup BelowStart, tip)
  <2>1. \A q \in DOMAIN idx : q \in Blocks
      BY <1>1, Zenon DEF IndexOK
  <2>. QED
      BY <1>0, <1>1, <1>3, <2>1, LoadedCacheOK, SMT, Z3
<1>6. CacheOK(s.cache, Got(idx), tip)
  <2>1. \A q \in DOMAIN idx : "cvns" \in Tip(q).payload => q \in Got(idx)
      BY <1>0, Zenon DEF Readable, Got
  <2>2. BelowStart \subseteq Got(idx)
      BY Zenon DEF Got
  <2>. QED
      BY <1>0, <1>1, <1>3, <2>1, <2>2, LoadedCacheOK, SMT, Z3
<1>7. IndexOK(index') /\ Grows(idx, index')
    BY <1>0, <1>1, <1>2, <1>5, LoadedIndexOK, SMT, Z3
<1>8. Connected(index', tip) /\ Linked(index', tip) /\ tip \in DOMAIN index'
  <2>1. Connected(index', tip)
      BY <1>1, <1>7, GrowsKeeps, SMT, Z3
  <2>. QED
      BY <2>1, ConnectedIn, Zenon
<1>9. S \in SUBSET Prefixes(tip) /\ {tip} \in SUBSET Prefixes(tip)
  <2>1. Len(Start) \in Nat \ {0}
      BY <1>2, BlockIs, Zenon
  <2>2. S \in SUBSET Prefixes(tip) /\ tip \in S
      BY <1>2, <2>1, RecalledIs, Zenon DEF S, ParentsFrom
  <2>. QED
      BY <2>2, Zenon
<1>10. CacheOK(data'.cache, Got(index'), tip)
  <2>1. CacheOK(t.cache, Got(idx), tip)
      BY <1>0, <1>1, <1>6, <1>9, RecalledCache, SMT, Z3 DEF t
  <2>2. CacheOK(SetMostRecentCVNData(t, tip, {tip}).cache, Got(idx), tip)
      BY <1>0, <1>1, <1>9, <2>1, RecalledCache, SMT, Z3
  <2>. QED
      BY <1>4, <1>7, <2>2, CacheStays, SMT, Z3
<1>11. /\ ValueOK(index', tip, "cvns", data'.mapCVNs)
       /\ ValueOK(index', tip, "params", data'.mean)
  <2>. DEFINE q == CHOOSE x \in {tip} : \A r \in {tip} : Len(x) <= Len(r)
  <2>1. q = tip
    <3>1. q \in {tip}
        BY <1>2, <1>9, LowestIs, SMT, Z3
    <3>. QED
        BY <3>1, Zenon
  <2>2. data'.mapCVNs = Tip(MostRecent(q, "cvns")).mapCVNs
        /\ data'.mean = Tip(MostRecent(q, "params")).mean
      BY <1>4, Zenon DEF SetMostRecentCVNData
  <2>. HIDE DEF q
  <2>3. /\ data'.mapCVNs = Value(Tip(MostRecent(tip, "cvns")), "cvns")
        /\ data'.mean = Value(Tip(MostRecent(tip, "params")), "params")
      BY <2>1, <2>2, ValueIs, Zenon
  <2>4. \A kind \in Kinds : /\ ValueOK(index', tip, kind, Value(Tip(tip), kind))
                            /\ Value(Tip(MostRecent(tip, kind)), kind) = Value(Tip(tip), kind)
      BY <1>0, <1>7, <1>8, ValueOfChain, SMT, Z3
  <2>. QED
      BY <2>3, <2>4, SMT, Z3 DEF Kinds
<1>12. tip \in candidates'
    BY <1>0, <1>7, <1>8, WorseOrder, SMT, Z3
<1>13. work' \in WorkType /\ work'.pc = "idle"
    BY <1>0, <1>2, SMT, Z3 DEF Idle, WorkType
<1>14. disk'.tip = tip
    BY <1>0, Zenon DEF tip
<1>15. RunInv'
    BY <1>0, <1>7, <1>8, <1>10, <1>11, <1>12, <1>13, <1>14, Zenon DEF RunInv
<1>16. MadeByRules' /\ DiskInv'
    BY <1>0, RulesStay, Zenon DEF DiskInv
<1>. QED
    BY <1>13, <1>15, <1>16, SMT, Z3
-----------------------------------------------------------------------------
(* The theorems.                                                           *)

(* The invariant holds of every behaviour of the node, with any number of  *)
(* crashes and writes, on every tree whose blocks were all signed.         *)
THEOREM ChainCorrect == ASSUME EveryBlockCounts PROVE Spec => []ChainInv
<1>1. Init => ChainInv
    BY InitKeeps, Zenon
<1>2. ChainInv /\ [Next]_vars => ChainInv'
  <2>. SUFFICES ASSUME ChainInv, [Next]_vars PROVE ChainInv'
      BY Zenon
  <2>1. ASSUME NEW p \in Tree, ReceiveHeader(p) PROVE ChainInv'
      BY <2>1, HeaderKeeps, Zenon
  <2>2. ASSUME NEW p \in Tree, ReceiveBlock(p) PROVE ChainInv'
      BY <2>2, BlockKeeps, Zenon
  <2>3. CASE FindBest
      BY <2>3, FindKeeps, Zenon
  <2>4. CASE DisconnectTip
      BY <2>4, DisconnectKeeps, SMT, Z3
  <2>5. CASE ConnectTip
      BY <2>5, ConnectKeeps, Zenon
  <2>6. CASE FailToConnect
      BY <2>6, FailKeeps, Zenon
  <2>7. ASSUME NEW full \in BOOLEAN, FlushStateToDisk(full) PROVE ChainInv'
      BY <2>7, FlushKeeps, SMT, Z3
  <2>8. CASE Crash
      BY <2>8, CrashKeeps, Zenon
  <2>9. CASE Restart
      BY <2>9, RestartKeeps, Zenon
  <2>10. CASE UNCHANGED vars
    <3>1. MadeByRules'
        BY <2>10, RulesStay, Zenon DEF vars, ChainInv
    <3>. QED
        BY <2>10, <3>1, Zenon DEF vars, ChainInv, DiskInv, DownInv, RunInv
  <2>. QED
      BY <2>1, <2>2, <2>3, <2>4, <2>5, <2>6, <2>7, <2>8, <2>9, <2>10, SMT, Z3 DEF Next, Activate
<1>. QED
    BY <1>1, <1>2, PTL DEF Spec

\* The CVNs that a block of the index or below it registers are CVNs.
LEMMA ConnCvns ==
    ASSUME Closed, NEW idx, IndexOK(idx), NEW v \in Conn(idx)
    PROVE  Tip(v).mapCVNs \subseteq Cvns
<1>1. v \in Got(idx)
    BY ConnIsGot, Zenon
<1>2. Last(v) \in DOMAIN BlockOf
    BY <1>1, GotIs, Zenon DEF Hashes
<1>. QED
    BY <1>2, ChainConstants, Zenon DEF Tip

(* Type correctness, and the best block of the coin database is always in  *)
(* the block index on disk: what FlushStateToDisk, Crash and Restart keep. *)
THEOREM ChainTypeCorrect == ASSUME EveryBlockCounts PROVE Spec => []TypeOK
<1>1. ChainInv => TypeOK
  <2>. SUFFICES ASSUME ChainInv PROVE TypeOK
      BY Zenon
  <2>0. Closed
      BY RulesClose, Zenon DEF ChainInv
  <2>1. disk.tip \in DOMAIN disk.index /\ work.pc \in {"idle", "find", "step", "down"}
      BY ConnectedIn, Zenon DEF ChainInv, DiskInv, WorkType
  <2>2. CASE work.pc = "down"
    <3>1. /\ index = StartIndex /\ candidates = {} /\ active = Start
          /\ data.mapCVNs = Tip(Start).mapCVNs
        BY <2>2, SMT, Z3 DEF ChainInv, DownInv, DataOf
    <3>2. IndexOK(StartIndex) /\ Start \in Conn(StartIndex)
        BY StartConnected, Zenon
    <3>3. Tip(Start).mapCVNs \subseteq Cvns
        BY <2>0, <3>2, ConnCvns, Zenon
    <3>. QED
        BY <2>1, <3>1, <3>2, <3>3, SMT, Z3 DEF TypeOK, IndexOK, Blocks
  <2>3. CASE work.pc # "down"
    <3>1. RunInv
        BY <2>3, Zenon DEF ChainInv
    <3>2. active \in Blocks
        BY <3>1, ConnectedIn, Zenon DEF RunInv
    <3>3. PICK v \in Conn(index) : data.mapCVNs = Value(Tip(v), "cvns")
        BY <3>1, Zenon DEF RunInv, ValueOK
    <3>4. data.mapCVNs \subseteq Cvns
        BY <2>0, <3>1, <3>3, ConnCvns, SMT, Z3 DEF RunInv, Value
    <3>. QED
        BY <2>1, <3>1, <3>2, <3>4, Zenon DEF TypeOK, IndexOK, RunInv
  <2>. QED
      BY <2>2, <2>3, Zenon
<1>. QED
    BY <1>1, ChainCorrect, PTL

\* A cache with entries of blocks of the chain p only is that of p as far as
\* p goes; entries of blocks on top of p do not matter.
LEMMA CacheOfPrefixes ==
    ASSUME Closed, NEW idx, IndexOK(idx), NEW p \in Blocks, NEW cache,
           CacheOK(cache, Got(idx), p),
           \A v \in Got(idx) : "cvns" \in Tip(v).payload => IsPrefix(v, p) \/ IsPrefix(p, v)
    PROVE  CacheFits(cache, p)
<1>0. p \in Seq(Hashes) /\ Len(p) \in Nat \ {0}
    BY BlockIs, Zenon
<1>1. ASSUME NEW k \in DOMAIN cache
      PROVE  /\ k \in Nat
             /\ k < Len(p) => /\ "cvns" \in BlockOf[p[k + 1]].payload
                              /\ cache[k] = BlockOf[p[k + 1]].mapCVNs
  <2>1. PICK v \in Got(idx) : /\ "cvns" \in Tip(v).payload
                              /\ Height(v) = k /\ cache[k] = Tip(v).mapCVNs
      BY Zenon DEF CacheOK
  <2>2. v \in Seq(Hashes) /\ Len(v) \in Nat \ {0}
      BY GotIs, Zenon
  <2>3. k = Len(v) - 1 /\ k \in Nat /\ k + 1 = Len(v)
      BY <2>1, <2>2, SMT, Z3 DEF Height
  <2>4. CASE k < Len(p)
    <3>1. Len(v) <= Len(p) /\ Len(v) \in 1..Len(p)
        BY <1>0, <2>2, <2>3, <2>4, SMT, Z3
    <3>2. v = Upto(p, Len(v))
      <4>1. CASE IsPrefix(v, p)
          BY <1>0, <2>2, <4>1, PrefixIs, SMT, Z3
      <4>2. CASE IsPrefix(p, v)
        <5>1. Len(p) <= Len(v) /\ p = Upto(v, Len(p))
            BY <1>0, <2>2, <4>2, PrefixIs, SMT, Z3
        <5>2. Len(p) = Len(v)
            BY <1>0, <2>2, <3>1, <5>1, SMT, Z3
        <5>3. Upto(v, Len(v)) = v
            BY <2>2, UptoUpto, SMT, Z3
        <5>4. p = v
            BY <5>1, <5>2, <5>3, SMT, Z3
        <5>. QED
            BY <5>3, <5>4, Zenon
      <4>. QED
          BY <2>1, <4>1, <4>2, SMT, Z3
    <3>3. Tip(Upto(p, Len(v))) = BlockOf[p[Len(v)]]
        BY <1>0, <3>1, UptoFront, SMT, Z3
    <3>4. Tip(v) = BlockOf[p[k + 1]]
        BY <2>3, <3>2, <3>3, SMT, Z3
    <3>. QED
        BY <2>1, <2>3, <3>4, SMT, Z3
  <2>. QED
      BY <2>3, <2>4, SMT, Z3
<1>2. \A i \in At(p, "cvns") : i - 1 \in DOMAIN cache
    BY Zenon DEF CacheOK
<1>. QED
    BY <1>1, <1>2, Zenon DEF CacheFits

(* The CVNs, the parameters and the cached sums are those of the active    *)
(* chain, through reorganisations, crashes and starts: what ConnectTip,    *)
(* DisconnectTip and SetMostRecentCVNData keep.                            *)
THEOREM DataAlwaysOfActiveChain ==
    ASSUME EveryBlockCounts PROVE Spec => []DataOfActiveChain
<1>1. ChainInv => DataOfActiveChain
  <2>. SUFFICES ASSUME ChainInv, Running,
                       \A p \in DOMAIN index :
                          HasPayload(p) /\ index[p].have =>
                             \/ IsPrefix(p, active)
                             \/ IsPrefix(active, p) /\ ~index[p].scripts
                PROVE  /\ data.mapCVNs = Tip(active).mapCVNs
                       /\ data.mean = Tip(active).mean
                       /\ \A h \in 1..Len(active) :
                             GetCvnInfoCache(data, h) = BlockOf[active[h]].mapCVNs
      BY Zenon DEF DataOfActiveChain
  <2>0. Closed /\ RunInv
      BY RulesClose, Zenon DEF ChainInv, Running
  <2>1. /\ active \in Blocks /\ IndexOK(index) /\ active \in Seq(Hashes)
        /\ Len(active) \in Nat \ {0}
      BY <2>0, ConnectedIn, BlockIs, Zenon DEF RunInv
  <2>2. ASSUME NEW kind \in Kinds, NEW value, ValueOK(index, active, kind, value)
        PROVE  value = Value(Tip(active), kind)
    <3>1. PICK v \in Conn(index) : /\ kind \in Tip(v).payload /\ value = Value(Tip(v), kind)
                                   /\ IsPrefix(v, active) => v = Upto(active, Latest(active, kind))
        BY <2>2, Zenon DEF ValueOK
    <3>2. IsPrefix(v, active)
      <4>1. CASE v \in BelowStart
          BY <2>0, <2>1, <4>1, BelowIs, Zenon
      <4>2. CASE v \in DOMAIN index /\ index[v].scripts
        <5>1. index[v].have /\ HasPayload(v)
            BY <2>1, <3>1, <4>2, SMT, Z3 DEF IndexOK, HasPayload
        <5>. QED
            BY <4>2, <5>1, Zenon
      <4>. QED
          BY <4>1, <4>2, Zenon DEF Conn
    <3>3. Latest(active, kind) \in 1..Len(active)
        BY <2>0, <2>1, LatestIs, Zenon
    <3>4. Tip(v) = BlockOf[active[Latest(active, kind)]]
        BY <2>1, <3>1, <3>2, <3>3, UptoFront, SMT, Z3
    <3>. QED
        BY <2>0, <2>1, <3>1, <3>4, LatestDecides, SMT, Z3
  <2>3. data.mapCVNs = Value(Tip(active), "cvns") /\ data.mean = Value(Tip(active), "params")
      BY <2>0, <2>2, Zenon DEF RunInv, Kinds
  <2>4. CacheFits(data.cache, active)
    <3>1. ASSUME NEW v \in Got(index), "cvns" \in Tip(v).payload
          PROVE  IsPrefix(v, active) \/ IsPrefix(active, v)
      <4>1. CASE v \in BelowStart
          BY <2>0, <2>1, <4>1, BelowIs, SMT, Z3
      <4>2. CASE v \in DOMAIN index /\ index[v].have
          BY <3>1, <4>2, Zenon DEF HasPayload
      <4>. QED
          BY <4>1, <4>2, Zenon DEF Got
    <3>. QED
        BY <2>0, <2>1, <3>1, CacheOfPrefixes, SMT, Z3 DEF RunInv
  <2>5. \A h \in 1..Len(active) : GetCvnInfoCache(data, h) = BlockOf[active[h]].mapCVNs
      BY <2>0, <2>1, <2>4, CacheGives, Zenon
  <2>. QED
      BY <2>3, <2>5, Zenon DEF Value
<1>. QED
    BY <1>1, ChainCorrect, PTL

\* A block that is good with the data of its parent's chain is good with all
\* data that agree with them as far as that chain goes.
LEMMA SameVerdict ==
    ASSUME Closed, NEW p \in Tree, NEW q, q = Front(p), NEW s, NEW t,
           t.mapCVNs = s.mapCVNs, t.mean = s.mean,
           \A h \in 0..Len(q) : GetCvnInfoCache(t, h) = GetCvnInfoCache(s, h),
           CheckProofOfCooperation(s, [c \in {q} |-> [scripts |-> TRUE]], p),
           NEW idx, q \in DOMAIN idx
    PROVE  CheckProofOfCooperation(t, idx, p)
<1>1. Len(q) \in Nat \ {0} /\ Height(p) = Len(q) /\ Height(q) = Len(q) - 1
  <2>1. Front(p) \in Blocks /\ Len(Front(p)) = Len(p) - 1 /\ p \in Blocks
      BY ParentIs, Zenon
  <2>2. Len(q) \in Nat \ {0} /\ Len(p) \in Nat
      BY <2>1, BlockIs, Zenon
  <2>. QED
      BY <2>1, <2>2, SMT, Z3 DEF Height
<1>2. \A h \in 0..Len(q) : \A m : GetNumChainSigs(t, h, m) = GetNumChainSigs(s, h, m)
    BY Zenon DEF GetNumChainSigs
<1>3. /\ \A m : GetNumChainSigs(t, Height(p), m) = GetNumChainSigs(s, Height(p), m)
      /\ \A m : GetNumChainSigs(t, Height(q), m) = GetNumChainSigs(s, Height(q), m)
      /\ GetCvnInfoCache(t, Height(p)) = GetCvnInfoCache(s, Height(p))
    BY <1>1, <1>2, SMT, Z3
<1>4. CvnVerifyChainSignature(t, p) = CvnVerifyChainSignature(s, p)
    BY <1>3, Zenon DEF CvnVerifyChainSignature
<1>5. CheckNextBlockCreator(t, q, Tip(p).slot) = CheckNextBlockCreator(s, q, Tip(p).slot)
    BY Zenon DEF CheckNextBlockCreator
<1>6. \A n : HasEnoughSignatures(t, q, n) = HasEnoughSignatures(s, q, n)
  <2>. DEFINE k == IF Len(q) < BlocksToConsiderForSigCheck THEN Len(q)
                   ELSE BlocksToConsiderForSigCheck
              D == (Height(q) - k + 1)..Height(q)
              f(u) == [h \in D |-> GetNumChainSigs(u, h, BlockOf[q[h + 1]].vMissingSignerIds)]
  <2>1. \A h \in D : h \in 0..Len(q)
    <3>1. BlocksToConsiderForSigCheck \in Nat
        BY ChainConstants, Zenon
    <3>2. k \in Nat /\ k <= Len(q)
        BY <1>1, <3>1, SMT, Z3
    <3>. HIDE DEF k
    <3>. QED
        BY <1>1, <3>2, SMT, Z3
  <2>2. f(t) = f(s)
    <3>. HIDE DEF D
    <3>. QED
        BY <1>2, <2>1, Zenon
  <2>3. SumFunction(f(t)) = SumFunction(f(s))
      BY <2>2, Zenon
  <2>4. \A u, n : HasEnoughSignatures(u, q, n) = (n * k * 100 > SumFunction(f(u)) * u.mean)
      BY Zenon DEF HasEnoughSignatures
  <2>. HIDE DEF k, f
  <2>. QED
      BY <2>3, <2>4, SMT, Z3
<1>. DEFINE b == Tip(p)
            n(u) == GetNumChainSigs(u, Height(p), b.vMissingSignerIds)
            prev(u) == GetNumChainSigs(u, Height(q), Tip(q).vMissingSignerIds)
<1>7. n(t) = n(s) /\ prev(t) = prev(s)
    BY <1>3, Zenon
<1>8. /\ b.nCreatorId \in s.mapCVNs /\ CvnVerifyChainSignature(s, p)
      /\ b.nCreatorId = CheckNextBlockCreator(s, q, b.slot)
      /\ n(s) # 0 /\ prev(s) # 0
      /\ prev(s) > n(s) => HasEnoughSignatures(s, q, n(s))
  <2>. DEFINE one == [c \in {q} |-> [scripts |-> TRUE]]
  <2>1. one[q].scripts
      BY Zenon
  <2>2. one[Front(p)].scripts =>
           /\ b.nCreatorId \in s.mapCVNs /\ CvnVerifyChainSignature(s, p)
           /\ b.nCreatorId = CheckNextBlockCreator(s, q, b.slot)
           /\ n(s) # 0 /\ prev(s) # 0
           /\ prev(s) > n(s) => HasEnoughSignatures(s, q, n(s))
    <3>. HIDE DEF one
    <3>1. CheckProofOfCooperation(s, one, p)
        BY Zenon DEF one
    <3>. QED
        BY <3>1, Zenon DEF CheckProofOfCooperation
  <2>. QED
      BY <2>1, <2>2, SMT, Z3
<1>9. /\ b.nCreatorId \in t.mapCVNs /\ CvnVerifyChainSignature(t, p)
      /\ b.nCreatorId = CheckNextBlockCreator(t, q, b.slot)
      /\ n(t) # 0 /\ prev(t) # 0
      /\ prev(t) > n(t) => HasEnoughSignatures(t, q, n(t))
  <2>. HIDE DEF n, prev
  <2>. QED
      BY <1>4, <1>5, <1>6, <1>7, <1>8, SMT, Z3
<1>. QED
    BY <1>9, Zenon DEF CheckProofOfCooperation

(* Wherever the node dies, LoadBlockIndexDB and VerifyDB succeed on what   *)
(* FlushStateToDisk left.                                                  *)
THEOREM AlwaysStartsFromDisk ==
    ASSUME EveryBlockCounts PROVE Spec => []StartsFromDisk
<1>1. ChainInv => StartsFromDisk
  <2>. DEFINE idx == disk.index
              tip == disk.tip
              s == LoadedData(disk)
  <2>. SUFFICES ASSUME ChainInv, PayloadsOnDiskChain
                PROVE  Linked(idx, tip) /\ Readable(idx) /\ VerifyDB(s, idx, tip)
      BY Zenon DEF StartsFromDisk, LoadsFrom
  <2>0. /\ Closed /\ IndexOK(idx) /\ Connected(idx, tip) /\ MadeByRules
        /\ \A p \in DOMAIN idx : HasPayload(p) => IsPrefix(p, tip)
        /\ s.cache = LoadedCache(idx)
      BY RulesClose, Zenon DEF ChainInv, DiskInv, PayloadsOnDiskChain, LoadedData, DataOf
  <2>. HIDE DEF idx, tip, s
  <2>1. /\ tip \in Blocks /\ Linked(idx, tip) /\ tip \in Seq(Hashes) /\ Len(tip) \in Nat \ {0}
        /\ Len(Start) \in Nat \ {0} /\ Len(Start) <= Len(tip)
      BY <2>0, ConnectedIn, BlockIs, Zenon
  <2>2. Readable(idx)
    <3>. SUFFICES ASSUME NEW p \in DOMAIN idx, "cvns" \in Tip(p).payload
                  PROVE  idx[p].have
        BY Zenon DEF Readable
    <3>1. IsPrefix(p, tip) /\ p \in Blocks
        BY <2>0, Zenon DEF HasPayload, IndexOK
    <3>2. p \in Seq(Hashes) /\ Len(p) \in Nat /\ Len(Start) <= Len(p)
        BY <3>1, BlockIs, Zenon
    <3>3. Len(p) \in Len(Start)..Len(tip) /\ p = Upto(tip, Len(p))
        BY <2>1, <3>1, <3>2, PrefixIs, SMT, Z3
    <3>. QED
        BY <2>0, <3>3, Zenon DEF Connected
  <2>3. \A v \in Got(idx) : "cvns" \in Tip(v).payload => IsPrefix(v, tip) \/ IsPrefix(tip, v)
    <3>. SUFFICES ASSUME NEW v \in Got(idx), "cvns" \in Tip(v).payload
                  PROVE  IsPrefix(v, tip)
        BY Zenon
    <3>1. CASE v \in BelowStart
        BY <2>0, <2>1, <3>1, BelowIs, Zenon
    <3>2. CASE v \in DOMAIN idx
        BY <2>0, <3>2, Zenon DEF HasPayload
    <3>. QED
        BY <3>1, <3>2, Zenon DEF Got
  <2>4. CacheOK(s.cache, Got(idx), tip)
    <3>1. \A q \in DOMAIN idx : "cvns" \in Tip(q).payload => q \in Got(idx)
        BY <2>2, Zenon DEF Readable, Got
    <3>2. BelowStart \subseteq Got(idx)
        BY Zenon DEF Got
    <3>. QED
        BY <2>0, <3>1, <3>2, LoadedCacheOK, Zenon
  <2>5. ASSUME NEW i \in (Len(Start) + 1)..Len(tip), NEW t,
               t = SetMostRecentCVNData(s, tip, Recalled(tip, Upto(tip, i)))
        PROVE  CheckProofOfCooperation(t, idx, Upto(tip, i))
    <3>. DEFINE p == Upto(tip, i)
                q == Upto(tip, i - 1)
    <3>1. /\ i \in 1..Len(tip) /\ i \in Nat \ {0} /\ i - 1 \in Len(Start)..Len(tip)
          /\ i - 1 \in 0..Len(tip) /\ i - 1 \in 1..Len(tip) /\ i \in Len(Start)..Len(tip)
          /\ i \in 0..Len(tip) /\ Len(Start) < i /\ i - 1 <= Len(tip)
        BY <2>1, SMT, Z3
    <3>2. Front(p) = q /\ Len(p) = i /\ Len(q) = i - 1 /\ Tip(q) = BlockOf[tip[i - 1]]
        BY <2>1, <3>1, UptoFront, UptoIs, Zenon
    <3>3. p \in Blocks /\ q \in Blocks /\ q \in DOMAIN idx
        BY <2>0, <2>1, <3>1, PrefixBlocks, SMT, Z3 DEF Connected
    <3>4. \A h \in 1..(i - 1) : q[h] = tip[h] /\ h \in 1..Len(tip)
      <4>1. \A h \in 1..(i - 1) : h \in 1..Len(tip)
          BY <2>1, <3>1, SMT, Z3
      <4>. QED
          BY <2>1, <3>1, <4>1, UptoIs, Zenon
    <3>. HIDE DEF p, q
    <3>5. p \in Tree
        BY <2>1, <3>1, <3>2, <3>3, BlockIs, SMT, Z3
    <3>6. t.mapCVNs = Tip(q).mapCVNs /\ t.mean = Tip(q).mean
        BY <2>0, <2>1, <2>5, <3>2, RecalledData, SMT, Z3
    <3>7. Recalled(tip, p) \in SUBSET Prefixes(tip)
        BY <2>1, <3>1, <3>2, RecalledIs, Zenon DEF ParentsFrom
    <3>8. CacheOK(t.cache, Got(idx), tip)
        BY <2>0, <2>4, <2>5, <3>7, RecalledCache, SMT, Z3 DEF p
    <3>9. CacheFits(t.cache, tip)
        BY <2>0, <2>1, <2>3, <3>8, CacheOfPrefixes, SMT, Z3
    <3>10. /\ \A h \in 1..Len(tip) : GetCvnInfoCache(t, h) = BlockOf[tip[h]].mapCVNs
           /\ GetCvnInfoCache(t, 0) = BlockOf[tip[1]].mapCVNs
        BY <2>0, <2>1, <3>9, CacheGives, Zenon
    <3>. DEFINE d == DataOf(q)
    <3>11. d.mapCVNs = Tip(q).mapCVNs /\ d.mean = Tip(q).mean
        BY Zenon DEF DataOf
    <3>12. CacheFits(d.cache, q)
        BY <2>0, <3>3, CacheOfChain, Zenon
    <3>. HIDE DEF d
    <3>13. /\ \A h \in 1..(i - 1) : GetCvnInfoCache(d, h) = BlockOf[q[h]].mapCVNs
           /\ GetCvnInfoCache(d, 0) = BlockOf[q[1]].mapCVNs
        BY <2>0, <3>2, <3>3, <3>12, CacheGives, SMT, Z3
    <3>14. \A h \in 0..Len(q) : GetCvnInfoCache(t, h) = GetCvnInfoCache(d, h)
      <4>1. \A h \in 1..(i - 1) : GetCvnInfoCache(t, h) = GetCvnInfoCache(d, h)
          BY <3>4, <3>10, <3>13, Zenon
      <4>2. GetCvnInfoCache(t, 0) = GetCvnInfoCache(d, 0)
        <5>1. 1 \in 1..(i - 1)
            BY <3>1, SMT, Z3
        <5>. QED
            BY <3>4, <3>10, <3>13, <5>1, Zenon
      <4>3. \A h \in 0..(i - 1) : h = 0 \/ h \in 1..(i - 1)
          BY <3>1, SMT, Z3
      <4>. QED
          BY <3>2, <4>1, <4>2, <4>3, Zenon
    <3>15. CheckProofOfCooperation(d, [c \in {q} |-> [scripts |-> TRUE]], p)
        BY <2>0, <3>2, <3>5, Zenon DEF MadeByRules, d
    <3>16. CheckProofOfCooperation(t, idx, p)
        BY <2>0, <3>2, <3>3, <3>5, <3>6, <3>11, <3>14, <3>15, SameVerdict, Zenon
    <3>. QED
        BY <3>16, Zenon DEF p
  <2>6. VerifyDB(s, idx, tip)
      BY <2>5, Zenon DEF VerifyDB, Upto
  <2>. QED
      BY <2>1, <2>2, <2>6, Zenon
<1>. QED
    BY <1>1, ChainCorrect, PTL
=============================================================================
