------------------------ MODULE SignatureRoundProofs ------------------------
(***************************************************************************)
(* Proofs about SignatureRound, for any set of CVNs, any ids and whatever  *)
(* NextCreator's rules say of a chain: every signature in a holder or on   *)
(* its way is genuine, and the round implements Cooperation.               *)
(***************************************************************************)
EXTENDS SignatureRound, FiniteSetTheorems, WellFoundedInduction, TLAPS

Inv == TypeOK /\ SignaturesGenuine

-----------------------------------------------------------------------------
(* Signature sets.                                                         *)

\* The first signature of a set is one of the set.
LEMMA FirstInSet ==
    ASSUME NEW s, s # {}, \A e \in s : e.nSignerId \in Nat
    PROVE  First(s) \in s
<1>. DEFINE ids == {e.nSignerId : e \in s}
            R == {ss \in Nat \X Nat : ss[1] < ss[2]}
<1>1. ids \subseteq Nat /\ ids # {}
    BY Zenon
<1>2. PICK x \in ids : \A y \in ids : ~(<<y, x>> \in R)
  <2>1. IsWellFoundedOn(R, Nat)
      BY NatLessThanWellFounded, Zenon DEF OpToRel
  <2>. HIDE DEF R, ids
  <2>. QED
      BY <1>1, <2>1, WFMin, Zenon
<1>3. \A y \in ids : x <= y
  <2>1. \A y \in Nat : y < x => <<y, x>> \in R
      BY <1>1, Zenon
  <2>2. \A y \in Nat : ~(y < x) => x <= y
      BY <1>1, SMT, Z3
  <2>. QED
      BY <1>1, <1>2, <2>1, <2>2, Zenon
<1>4. \E e \in s : \A f \in s : e.nSignerId <= f.nSignerId
    BY <1>3, Zenon
<1>. QED
    BY <1>4, Zenon DEF First

\* A genuine signature stays one while blocks and votes are only added.
LEMMA GenuineStable ==
    ASSUME NEW e, Genuine(e), blocks \subseteq blocks', signed \subseteq signed'
    PROVE  Genuine(e)'
BY Zenon DEF Genuine, Others, VoteOf

\* Whether it was validated does not matter.
LEMMA GenuineCopy ==
    ASSUME NEW e, NEW v, Genuine(e), DOMAIN e = SigFields
    PROVE  /\ Genuine([e EXCEPT !.fValidated = v])
           /\ DOMAIN [e EXCEPT !.fValidated = v] = SigFields
<1>. DEFINE f == [e EXCEPT !.fValidated = v]
<1>1. /\ f.nSignerId = e.nSignerId /\ f.hashPrevBlock = e.hashPrevBlock
      /\ f.vMissingSignerIds = e.vMissingSignerIds /\ f.rx = e.rx
      /\ f.nCreatorId = e.nCreatorId /\ DOMAIN f = SigFields
    BY Zenon DEF SigFields
<1>. HIDE DEF f
<1>2. Genuine(f)
    BY <1>1, Zenon DEF Genuine, VoteOf
<1>. QED
    BY <1>1, <1>2, Zenon DEF f

\* New tips only drop signatures.
LEMMA ConnectChainKeeps ==
    ASSUME NEW h, NEW p, NEW k PROVE ConnectChain(h, p, k) \subseteq h
BY Zenon DEF ConnectChain

\* A new tip takes signatures away from the holder and adds none.
LEMMA ConnectTipKeeps ==
    ASSUME NEW h, NEW creators, NEW creator
    PROVE  ConnectTip(h, creators, creator) \subseteq h
BY Zenon DEF ConnectTip, Clear
-----------------------------------------------------------------------------
(* The invariant.                                                          *)

\* The thread of n gets a record of the right kind.
ThreadOK(s) ==
    /\ DOMAIN s = ThreadFields
    /\ s.state \in PocStates
    /\ s.pindexPrev \in blocks
    /\ s.pindexLastTip \in blocks
    /\ s.todo \subseteq SUBSET Members

\* The record of a thread.
LEMMA ThreadType == ASSUME TypeOK, NEW n \in Members PROVE ThreadOK(thread[n])
BY Zenon DEF TypeOK, ThreadOK

\* A step that changes the thread of n, keeps blocks and votes and at most
\* drops signatures.
LEMMA ThreadStep ==
    ASSUME Inv, NEW n \in Members, NEW s, ThreadOK(s), SetThread(n, s),
           DOMAIN holder' = Members,
           \A m \in Members : holder'[m] \subseteq holder[m],
           UNCHANGED <<tip, index, net, up, signed>>,
           pools' \in [Members -> SUBSET Members]
    PROVE  Inv'
<1>1. TypeOK'
  <2>1. DOMAIN thread' = Members /\ thread'[n] = s
        /\ \A m \in Members \ {n} : thread'[m] = thread[m]
      BY Zenon DEF Inv, TypeOK, SetThread
  <2>2. \A m \in Members : ThreadOK(thread'[m])
      BY <2>1, ThreadType, Zenon DEF Inv
  <2>3. blocks' = blocks
      BY Zenon DEF blocks
  <2>4. \A m \in Members : ThreadOK(thread[m])'
      BY <2>2, <2>3, Zenon DEF ThreadOK
  <2>. QED
      BY <2>1, <2>3, <2>4, Zenon DEF Inv, TypeOK, ThreadOK
<1>2. SignaturesGenuine'
  <2>1. blocks \subseteq blocks' /\ signed \subseteq signed'
      BY Zenon DEF blocks
  <2>2. \A m \in Members : \A e \in holder'[m] : Genuine(e)
      BY Zenon DEF Inv, SignaturesGenuine
  <2>3. \A m \in net' : Genuine(m[2])
      BY Zenon DEF Inv, SignaturesGenuine
  <2>. QED
      BY <2>1, <2>2, <2>3, GenuineStable, Zenon DEF SignaturesGenuine
<1>. QED
    BY <1>1, <1>2, Zenon DEF Inv

\* SendCVNSignature makes a genuine signature.
LEMMA SendStep ==
    ASSUME Inv, NEW n \in Members, NEW missing \in SUBSET Members,
           CanSign(n, missing), NEW CONSTANT s, ThreadOK(s),
           SendCVNSignature(n, missing, s),
           UNCHANGED <<tip, index, pools, up>>
    PROVE  Inv'
<1>0. PICK sig, own, t :
          /\ sig = CvnSignPartial(n,
                     CheckNextBlockCreator(thread[n].pindexPrev, Slot(n)), missing)
          /\ own = [sig EXCEPT !.fValidated = CvnVerifyPartialSignature(n, sig)]
          /\ t = [s EXCEPT !.commonRxs = @ \cup {sig.rx}]
    BY Zenon
<1>1. /\ holder' = [holder EXCEPT ![n] = AddSig(holder[n], own)]
      /\ net' = net \cup {<<m, sig>> : m \in up \ {n}}
      /\ signed' = signed \cup {VoteOf(sig)}
      /\ SetThread(n, t)
    BY <1>0, Zenon DEF SendCVNSignature, AddCvnSignature
<1>2. blocks' = blocks /\ signed \subseteq signed'
    BY <1>1, Zenon DEF blocks
<1>3. DOMAIN sig = SigFields /\ Genuine(sig)'
  <2>1. /\ sig.nSignerId = n /\ sig.hashPrevBlock = thread[n].pindexPrev
        /\ sig.vMissingSignerIds = missing
        /\ sig.rx.signers = Others(n, missing) \cup {n}
        /\ DOMAIN sig = SigFields
      BY <1>0, Zenon DEF CvnSignPartial, Rx, SigFields
  <2>2. sig.hashPrevBlock \in blocks /\ Others(n, missing) # {}
      BY <2>1, Zenon DEF Inv, TypeOK, CanSign, NoncesAvailable
  <2>3. VoteOf(sig) \in signed'
      BY <1>1, Zenon
  <2>. QED
      BY <1>2, <2>1, <2>2, <2>3, SMT, Z3 DEF Genuine, VoteOf, Others
<1>4. DOMAIN own = SigFields /\ Genuine(own)'
  <2>1. /\ own.nSignerId = sig.nSignerId /\ own.hashPrevBlock = sig.hashPrevBlock
        /\ own.vMissingSignerIds = sig.vMissingSignerIds /\ own.rx = sig.rx
        /\ own.nCreatorId = sig.nCreatorId /\ DOMAIN own = SigFields
      BY <1>0, <1>3, Zenon DEF SigFields
  <2>. QED
      BY <1>3, <2>1, Zenon DEF Genuine, VoteOf
<1>5. ThreadOK(t)'
  <2>1. DOMAIN t = DOMAIN s /\ t.state = s.state /\ t.todo = s.todo
        /\ t.pindexPrev = s.pindexPrev /\ t.pindexLastTip = s.pindexLastTip
      BY <1>0, Zenon DEF ThreadOK, ThreadFields
  <2>. QED
      BY <1>2, <2>1, Zenon DEF ThreadOK
<1>6. /\ DOMAIN holder' = Members
      /\ \A m \in Members : \A e \in holder'[m] : e \in holder[m] \/ e = own
  <2>1. \A e \in AddSig(holder[n], own) : e \in holder[n] \/ e = own
      BY Zenon DEF AddSig
  <2>. QED
      BY <1>1, <2>1, Zenon DEF Inv, TypeOK
<1>7. \A m \in net' : \/ m \in net
                      \/ m[1] \in Members /\ m[2] = sig
    BY <1>1, SMT, Z3 DEF Inv, TypeOK
<1>8. TypeOK'
  <2>1. DOMAIN thread' = Members /\ thread'[n] = t
        /\ \A m \in Members \ {n} : thread'[m] = thread[m]
      BY <1>1, Zenon DEF Inv, TypeOK, SetThread
  <2>2. \A m \in Members : ThreadOK(thread[m])'
    <3>1. ThreadOK(thread[n])'
        BY <1>5, <2>1, Zenon DEF ThreadOK
    <3>2. ASSUME NEW m \in Members \ {n} PROVE ThreadOK(thread[m])'
      <4>1. ThreadOK(thread[m])
          BY ThreadType, Zenon DEF Inv
      <4>. QED
          BY <1>2, <2>1, <4>1, Zenon DEF ThreadOK
    <3>. QED
        BY <3>1, <3>2, Zenon
  <2>3. \A m \in Members : \A e \in holder'[m] : DOMAIN e = SigFields
      BY <1>4, <1>6, Zenon DEF Inv, TypeOK
  <2>4. \A m \in net' : m[1] \in Members /\ DOMAIN m[2] = SigFields
      BY <1>3, <1>7, Zenon DEF Inv, TypeOK
  <2>. QED
      BY <1>2, <1>6, <2>1, <2>2, <2>3, <2>4, Zenon DEF Inv, TypeOK, ThreadOK
<1>9. SignaturesGenuine'
  <2>1. \A m \in Members : \A e \in holder[m] : Genuine(e)'
      BY <1>2, GenuineStable, Zenon DEF Inv, SignaturesGenuine
  <2>2. \A m \in net : Genuine(m[2])'
      BY <1>2, GenuineStable, Zenon DEF Inv, SignaturesGenuine
  <2>. QED
      BY <1>3, <1>4, <1>6, <1>7, <2>1, <2>2, SMT, Z3 DEF SignaturesGenuine
<1>. QED
    BY <1>8, <1>9, Zenon DEF Inv

-----------------------------------------------------------------------------
(* Every step keeps the invariant.                                         *)

\* What the handlers leave in the thread's record.
LEMMA HandledOK ==
    ASSUME TypeOK, NEW n \in Members, NEW state \in PocStates
    PROVE  ThreadOK(Handled(n, state))
<1>1. ThreadOK(thread[n])
    BY ThreadType, Zenon
<1>. QED
    BY <1>1, Zenon DEF ThreadOK, Handled, ThreadFields

\* One lemma per kind of step, from here on: it keeps the invariant.
LEMMA LoopHeadStep ==
    ASSUME Inv, NEW n \in Members, LoopHead(n) PROVE Inv'
<1>1. PICK s : s = [thread[n] EXCEPT !.pindexPrev = tip[n],
                       !.nNextCreator = CheckNextBlockCreator(tip[n], Slot(n)),
                       !.nSleep = 0, !.pc = "handler"]
    BY Zenon
<1>2. ThreadOK(s) /\ s.pindexPrev \in blocks
  <2>1. ThreadOK(thread[n]) /\ tip[n] \in blocks
      BY ThreadType, Zenon DEF Inv, TypeOK
  <2>. QED
      BY <1>1, <2>1, Zenon DEF ThreadOK, ThreadFields
<1>3. \A state \in PocStates : ThreadOK(Reset(s, state))
    BY <1>2, Zenon DEF ThreadOK, Reset, ThreadFields
<1>4. PICK t : ThreadOK(t) /\ SetThread(n, t)
  <2>1. \/ SetThread(n, Reset(s, "WAITING_FOR_BLOCK_PROPAGATION"))
        \/ SetThread(n, Reset(s, "CREATE_SIGNATURE_OVERDUE"))
        \/ SetThread(n, s)
      BY <1>1, Zenon DEF LoopHead, SetThread
  <2>. QED
      BY <1>2, <1>3, <2>1, SMT, Z3 DEF PocStates
<1>5. DOMAIN holder' = Members /\ \A m \in Members : holder'[m] \subseteq holder[m]
  <2>1. \/ holder' = [holder EXCEPT ![n] =
                         Clear(holder[n], CheckNextBlockCreator(tip[n], Slot(n)))]
        \/ holder' = [holder EXCEPT ![n] = holder[n]]
      BY Zenon DEF LoopHead
  <2>2. \A c : Clear(holder[n], c) \subseteq holder[n]
      BY Zenon DEF Clear
  <2>. QED
      BY <2>1, <2>2, SMT, Z3 DEF Inv, TypeOK
<1>6. UNCHANGED <<tip, index, net, up, signed>> /\ pools' \in [Members -> SUBSET Members]
    BY Zenon DEF LoopHead, Inv, TypeOK
<1>. QED
    BY <1>4, <1>5, <1>6, ThreadStep, Zenon

\* The handlers that change nothing but the thread, and its own pool.
LEMMA HandlerStep ==
    ASSUME Inv, NEW n \in Members,
           \/ handleInit(n) \/ handleWaitingForBlockPropagation(n)
           \/ SignaturesComplete(n) \/ SignaturesOutstanding(n)
           \/ NoBlock(n) \/ Contributed(n)
    PROVE  Inv'
<1>1. PICK state \in PocStates : SetThread(n, Handled(n, state))
  <2>1. CASE handleInit(n)
      BY <2>1, Zenon DEF handleInit, PocStates
  <2>2. CASE handleWaitingForBlockPropagation(n)
      BY <2>2, Zenon DEF handleWaitingForBlockPropagation, PocStates
  <2>3. CASE SignaturesComplete(n)
      BY <2>3, Zenon DEF SignaturesComplete, PocStates
  <2>4. CASE SignaturesOutstanding(n)
      BY <2>4, ThreadType, Zenon DEF SignaturesOutstanding, Inv, ThreadOK
  <2>5. CASE NoBlock(n)
      BY <2>5, Zenon DEF NoBlock, PocStates
  <2>6. CASE Contributed(n)
      BY <2>6, Zenon DEF Contributed, PocStates, Waiting
  <2>. QED
      BY <2>1, <2>2, <2>3, <2>4, <2>5, <2>6, Zenon
<1>2. UNCHANGED <<tip, index, net, up, signed, holder>>
    BY Zenon DEF handleInit, handleWaitingForBlockPropagation, SignaturesComplete,
           SignaturesOutstanding, NoBlock, Contributed
<1>3. pools' \in [Members -> SUBSET Members]
  <2>1. pools' = pools \/ pools' = [pools EXCEPT ![n] = @ \cup {n}]
      BY Zenon DEF handleInit, handleWaitingForBlockPropagation, SignaturesComplete,
             SignaturesOutstanding, NoBlock, Contributed
  <2>. QED
      BY <2>1, SMT, Z3 DEF Inv, TypeOK
<1>4. DOMAIN holder' = Members /\ \A m \in Members : holder'[m] \subseteq holder[m]
    BY <1>2, Zenon DEF Inv, TypeOK
<1>5. ThreadOK(Handled(n, state))
    BY HandledOK, Zenon DEF Inv
<1>. QED
    BY <1>1, <1>2, <1>3, <1>4, <1>5, ThreadStep, Zenon

\* A thread may sign with what the retry and the propagation left in s.
LEMMA SignOrNotStep ==
    ASSUME Inv, NEW n \in Members, NEW missing \in SUBSET Members,
           NEW CONSTANT s, ThreadOK(s), UNCHANGED <<tip, index, pools, up>>,
           \/ CanSign(n, missing) /\ SendCVNSignature(n, missing, s)
           \/ SetThread(n, s) /\ UNCHANGED <<holder, net, signed>>
    PROVE  Inv'
<1>1. CASE CanSign(n, missing) /\ SendCVNSignature(n, missing, s)
    BY <1>1, SendStep, Zenon
<1>2. CASE SetThread(n, s) /\ UNCHANGED <<holder, net, signed>>
  <2>1. DOMAIN holder' = Members /\ \A m \in Members : holder'[m] \subseteq holder[m]
      BY <1>2, Zenon DEF Inv, TypeOK
  <2>2. pools' \in [Members -> SUBSET Members]
      BY Zenon DEF Inv, TypeOK
  <2>. QED
      BY <1>2, <2>1, <2>2, ThreadStep, Zenon
<1>. QED
    BY <1>1, <1>2, Zenon

\* handleCreateSignature signs for the full set, or not at all.
LEMMA CreateSignatureStep ==
    ASSUME Inv, NEW n \in Members, handleCreateSignature(n) PROVE Inv'
<1>1. PICK missing : missing = FindSignerIDsWithMissingNonces(n)
    BY Zenon
<1>2. missing \in SUBSET Members
    BY <1>1, Zenon DEF FindSignerIDsWithMissingNonces
<1>3. \A state \in PocStates : ThreadOK(Handled(n, state))
    BY HandledOK, Zenon DEF Inv
<1>4. thread[n].state \in PocStates
    BY ThreadType, Zenon DEF Inv, ThreadOK
<1>5. PICK state \in PocStates :
          \/ CanSign(n, missing) /\ SendCVNSignature(n, missing, Handled(n, state))
          \/ SetThread(n, Handled(n, state)) /\ UNCHANGED <<holder, net, signed>>
    BY <1>1, <1>4, Zenon DEF handleCreateSignature, PocStates, Waiting
<1>6. PICK s : s = Handled(n, state)
    BY Zenon
<1>7. UNCHANGED <<tip, index, pools, up>>
    BY Zenon DEF handleCreateSignature
<1>. QED
    BY <1>2, <1>3, <1>5, <1>6, <1>7, SignOrNotStep, SMT, Z3

\* handleCompleteSignatureSets takes its copy of the sets.
LEMMA CompleteSetsStep ==
    ASSUME Inv, NEW n \in Members, handleCompleteSignatureSets(n) PROVE Inv'
<1>1. PICK s : s = [thread[n] EXCEPT !.pc = "contribute",
                         !.todo = HasSigSetsToContributeTo(n, holder[n])]
    BY Zenon
<1>2. HasSigSetsToContributeTo(n, holder[n]) \subseteq SUBSET Members
  <2>1. ASSUME NEW rx \in Rxs(holder[n])
        PROVE  First(SigSet(holder[n], rx)).vMissingSignerIds \in SUBSET Members
    <3>1. \A e \in holder[n] : /\ e.nSignerId \in Nat
                              /\ e.vMissingSignerIds \in SUBSET Members
        BY RoundConstants, Zenon DEF Inv, SignaturesGenuine, Genuine
    <3>2. SigSet(holder[n], rx) # {} /\ SigSet(holder[n], rx) \subseteq holder[n]
        BY Zenon DEF Rxs, SigSet
    <3>3. First(SigSet(holder[n], rx)) \in SigSet(holder[n], rx)
        BY <3>1, <3>2, FirstInSet, SMT, Z3
    <3>. QED
        BY <3>1, <3>2, <3>3, SMT, Z3
  <2>. QED
      BY <2>1, Zenon DEF HasSigSetsToContributeTo
<1>3. ThreadOK(s)
  <2>1. ThreadOK(thread[n])
      BY ThreadType, Zenon DEF Inv
  <2>2. /\ DOMAIN s = DOMAIN thread[n] /\ s.state = thread[n].state
        /\ s.pindexPrev = thread[n].pindexPrev
        /\ s.pindexLastTip = thread[n].pindexLastTip
        /\ s.todo = HasSigSetsToContributeTo(n, holder[n])
      BY <1>1, <2>1, Zenon DEF ThreadOK, ThreadFields
  <2>. QED
      BY <1>2, <2>1, <2>2, SMT, Z3 DEF ThreadOK
<1>4. SetThread(n, s) /\ UNCHANGED <<tip, index, pools, up, holder, net, signed>>
    BY <1>1, Zenon DEF handleCompleteSignatureSets
<1>. QED
    BY <1>3, <1>4, SignOrNotStep, Zenon

\* It signs for one of them.
LEMMA ContributeToStep ==
    ASSUME Inv, NEW n \in Members, NEW missing \in thread[n].todo,
           ContributeTo(n, missing)
    PROVE  Inv'
<1>1. PICK s : s = [thread[n] EXCEPT !.todo = @ \ {missing}]
    BY Zenon
<1>2. ThreadOK(thread[n])
    BY ThreadType, Zenon DEF Inv
<1>3. ThreadOK(s)
  <2>1. /\ DOMAIN s = DOMAIN thread[n] /\ s.state = thread[n].state
        /\ s.pindexPrev = thread[n].pindexPrev
        /\ s.pindexLastTip = thread[n].pindexLastTip
        /\ s.todo = thread[n].todo \ {missing}
      BY <1>1, <1>2, Zenon DEF ThreadOK, ThreadFields
  <2>. QED
      BY <1>2, <2>1, Zenon DEF ThreadOK
<1>4. missing \in SUBSET Members
    BY <1>2, Zenon DEF ThreadOK
<1>5. /\ UNCHANGED <<tip, index, pools, up>>
      /\ \/ CanSign(n, missing) /\ SendCVNSignature(n, missing, s)
         \/ SetThread(n, s) /\ UNCHANGED <<holder, net, signed>>
    BY <1>1, Zenon DEF ContributeTo
<1>. QED
    BY <1>3, <1>4, <1>5, SignOrNotStep, Zenon

\* handleWaitingForSignatures signs for a set without the silent CVNs.
LEMMA RetryStep ==
    ASSUME Inv, NEW n \in Members, RetryWithSmallerSet(n) PROVE Inv'
<1>1. PICK missing, s, h :
          /\ missing = GetAllMissing(n, holder[n]) \cup FindSignerIDsWithMissingNonces(n)
          /\ h = Handled(n, "COMPLETE_SIGNATURE_SETS")
          /\ s = [h EXCEPT !.nSleep = RetrySleep, !.retries = @ + 1]
    BY Zenon
<1>2. ThreadOK(h)
    BY <1>1, HandledOK, Zenon DEF Inv, PocStates
<1>3. ThreadOK(s)
  <2>1. /\ DOMAIN s = DOMAIN h /\ s.state = h.state
        /\ s.pindexPrev = h.pindexPrev /\ s.pindexLastTip = h.pindexLastTip
        /\ s.todo = h.todo
      BY <1>1, <1>2, Zenon DEF ThreadOK, ThreadFields
  <2>. QED
      BY <1>2, <2>1, SMT, Z3 DEF ThreadOK
<1>4. missing \in SUBSET Members
  <2>1. pools[n] \subseteq Members
      BY Zenon DEF Inv, TypeOK
  <2>2. GetAllMissing(n, holder[n]) \subseteq pools[n]
      BY Zenon DEF GetAllMissing
  <2>. QED
      BY <1>1, <2>1, <2>2, SMT, Z3 DEF FindSignerIDsWithMissingNonces
<1>5. /\ UNCHANGED <<tip, index, pools, up>>
      /\ \/ CanSign(n, missing) /\ SendCVNSignature(n, missing, s)
         \/ SetThread(n, s) /\ UNCHANGED <<holder, net, signed>>
    BY <1>1, Zenon DEF RetryWithSmallerSet
<1>. QED
    BY <1>3, <1>4, <1>5, SignOrNotStep, Zenon
-----------------------------------------------------------------------------
\* A step that leaves the threads and the votes alone: it may add a block,
\* and all signatures it leaves are genuine.
LEMMA OtherStep ==
    ASSUME Inv, tip' \in [Members -> blocks'], blocks \subseteq blocks',
           pools' \in [Members -> SUBSET Members], up' \subseteq Members,
           DOMAIN holder' = Members,
           \A n \in Members : \A e \in holder'[n] : Genuine(e) /\ DOMAIN e = SigFields,
           \A m \in net' : /\ m[1] \in Members
                           /\ Genuine(m[2]) /\ DOMAIN m[2] = SigFields,
           DOMAIN thread' = Members,
           \A n \in Members : ThreadOK(thread'[n]),
           UNCHANGED signed
    PROVE  Inv'
<1>1. \A n \in Members : ThreadOK(thread[n])'
    BY Zenon DEF ThreadOK
<1>2. TypeOK'
    BY <1>1, Zenon DEF TypeOK, ThreadOK
<1>3. SignaturesGenuine'
    BY GenuineStable, Zenon DEF SignaturesGenuine
<1>. QED
    BY <1>2, <1>3, Zenon DEF Inv

\* The factory adds a block to the index and moves the creator's tip.
LEMMA CreateBlockStep ==
    ASSUME Inv, NEW n \in Members, CreateBlock(n) PROVE Inv'
<1>1. PICK s \in ValidSets(n) :
          /\ tip' = [tip EXCEPT ![n] = Append(tip[n], NewBlock(n, s))]
          /\ index' = [q \in blocks \cup {Append(tip[n], NewBlock(n, s))} |->
                          IF q = Append(tip[n], NewBlock(n, s))
                          THEN IndexEntry(Append(tip[n], NewBlock(n, s))) ELSE index[q]]
          /\ holder' = [holder EXCEPT ![n] =
                 ConnectTip(holder[n], IndexEntry(Append(tip[n], NewBlock(n, s))).creators, n)]
    BY Zenon DEF CreateBlock
<1>2. blocks' = blocks \cup {Append(tip[n], NewBlock(n, s))}
    BY <1>1, Zenon DEF blocks
<1>3. tip' \in [Members -> blocks']
    BY <1>1, <1>2, Zenon DEF Inv, TypeOK
<1>4. DOMAIN holder' = Members /\ \A m \in Members : holder'[m] \subseteq holder[m]
  <2>. DEFINE c == IndexEntry(Append(tip[n], NewBlock(n, s))).creators
  <2>1. ConnectTip(holder[n], c, n) \subseteq holder[n]
      BY ConnectTipKeeps, Zenon
  <2>2. holder' = [holder EXCEPT ![n] = ConnectTip(holder[n], c, n)]
      BY <1>1, Zenon
  <2>. HIDE DEF c
  <2>. QED
      BY <2>1, <2>2, Zenon DEF Inv, TypeOK
<1>5. /\ DOMAIN thread' = Members
      /\ \A m \in Members : ThreadOK(thread'[m])
  <2>1. SetThread(n, Handled(n, "WAITING_FOR_NEW_TIP"))
      BY Zenon DEF CreateBlock, ThreadCreatesBlock
  <2>2. ThreadOK(Handled(n, "WAITING_FOR_NEW_TIP"))
      BY HandledOK, Zenon DEF Inv, PocStates
  <2>3. \A m \in Members : ThreadOK(thread[m])
      BY ThreadType, Zenon DEF Inv
  <2>. QED
      BY <2>1, <2>2, <2>3, Zenon DEF SetThread, Inv, TypeOK
<1>6. UNCHANGED <<net, pools, up, signed>>
    BY Zenon DEF CreateBlock
<1>7. \A m \in Members : \A e \in holder'[m] : Genuine(e) /\ DOMAIN e = SigFields
    BY <1>4, Zenon DEF Inv, TypeOK, SignaturesGenuine
<1>8. \A m \in net' : m[1] \in Members /\ Genuine(m[2]) /\ DOMAIN m[2] = SigFields
    BY <1>6, Zenon DEF Inv, TypeOK, SignaturesGenuine
<1>9. pools' \in [Members -> SUBSET Members] /\ up' \subseteq Members
    BY <1>6, Zenon DEF Inv, TypeOK
<1>. QED
    BY <1>2, <1>3, <1>4, <1>5, <1>6, <1>7, <1>8, <1>9, OtherStep, SMT, Z3

\* What a node receives, and what gets lost.
LEMMA DeliveryStep ==
    ASSUME Inv,
           \/ \E n \in Members : Deliver(n)
           \/ \E m \in net : Lose(m)
           \/ Clock
    PROVE  Inv'
<1>1. UNCHANGED <<index, thread, up, signed>>
    BY Zenon DEF Deliver, ReceiveSig, ReceiveBlock, ReceivePool, Lose, Clock, Tick
<1>2. blocks' = blocks
    BY <1>1, Zenon DEF blocks
<1>3. tip' \in [Members -> blocks']
  <2>1. tip' = tip \/ \E n \in Members, p \in blocks : tip' = [tip EXCEPT ![n] = p]
      BY Zenon DEF Deliver, ReceiveSig, ReceiveBlock, ReceivePool, Lose, Clock, Tick
  <2>. QED
      BY <1>2, <2>1, SMT, Z3 DEF Inv, TypeOK
<1>4. pools' \in [Members -> SUBSET Members]
  <2>1. \/ pools' = pools
        \/ \E n, c \in Members : pools' = [pools EXCEPT ![n] = @ \cup {c}]
      BY Zenon DEF Deliver, ReceiveSig, ReceiveBlock, ReceivePool, Lose, Clock, Tick
  <2>. QED
      BY <2>1, SMT, Z3 DEF Inv, TypeOK
<1>5. net' \subseteq net
    BY Zenon DEF Deliver, ReceiveSig, ReceiveBlock, ReceivePool, Lose, Clock, Tick
<1>. DEFINE Sound(h) ==
        /\ DOMAIN h = Members
        /\ \A n \in Members : \A e \in h[n] : Genuine(e) /\ DOMAIN e = SigFields
<1>6. Sound(holder')
  <2>0. /\ DOMAIN holder = Members
        /\ \A n \in Members : \A e \in holder[n] : Genuine(e) /\ DOMAIN e = SigFields
      BY Zenon DEF Inv, TypeOK, SignaturesGenuine
  <2>1. CASE holder' = holder
      BY <2>0, <2>1, Zenon
  <2>2. ASSUME NEW n \in Members, NEW p \in blocks, ReceiveBlock(n, p)
        PROVE  Sound(holder')
    <3>1. PICK h : h = ConnectChain(holder[n], p, ForkLength(p, tip[n]))
        BY Zenon
    <3>2. holder' = [holder EXCEPT ![n] = h] /\ h \subseteq holder[n]
        BY <2>2, <3>1, ConnectChainKeeps, Zenon DEF ReceiveBlock
    <3>. QED
        BY <2>0, <3>2, Zenon
  <2>3. ASSUME NEW n \in Members, NEW m \in net, ReceiveSig(n, m[2])
        PROVE  Sound(holder')
    <3>1. PICK own : own = [m[2] EXCEPT !.fValidated =
                                CvnVerifyPartialSignature(n, m[2])]
        BY Zenon
    <3>2. Genuine(own) /\ DOMAIN own = SigFields
        BY <3>1, GenuineCopy, Zenon DEF Inv, TypeOK, SignaturesGenuine
    <3>3. \/ holder' = [holder EXCEPT ![n] = AddSig(holder[n], own)]
          \/ holder' = [holder EXCEPT ![n] = holder[n]]
        BY <2>3, <3>1, Zenon DEF ReceiveSig, AddCvnSignature
    <3>4. \A e \in AddSig(holder[n], own) : e \in holder[n] \/ e = own
        BY Zenon DEF AddSig
    <3>. QED
        BY <2>0, <3>2, <3>3, <3>4, SMT, Z3
  <2>4. \/ holder' = holder
        \/ \E n \in Members, p \in blocks : ReceiveBlock(n, p)
        \/ \E n \in Members, m \in net : ReceiveSig(n, m[2])
      BY Zenon DEF Deliver, ReceivePool, Lose, Clock, Tick
  <2>. QED
      BY <2>1, <2>2, <2>3, <2>4, SMT, Z3
<1>7. \A m \in net' : m[1] \in Members /\ Genuine(m[2]) /\ DOMAIN m[2] = SigFields
    BY <1>5, Zenon DEF Inv, TypeOK, SignaturesGenuine
<1>8. DOMAIN thread' = Members /\ \A n \in Members : ThreadOK(thread'[n])
    BY <1>1, ThreadType, Zenon DEF Inv, TypeOK
<1>9. up' \subseteq Members
    BY <1>1, Zenon DEF Inv, TypeOK
<1>. QED
    BY <1>1, <1>2, <1>3, <1>4, <1>6, <1>7, <1>8, <1>9, OtherStep, SMT, Z3

\* A crash leaves the node without signatures.
LEMMA CrashStep == ASSUME Inv, NEW n \in Members, Crash(n) PROVE Inv'
<1>1. UNCHANGED <<tip, index, thread, signed>> /\ blocks' = blocks
    BY Zenon DEF Crash, blocks
<1>2. /\ holder' = [holder EXCEPT ![n] = {}] /\ pools' = [pools EXCEPT ![n] = {}]
      /\ net' \subseteq net /\ up' \subseteq up
    BY Zenon DEF Crash
<1>3. /\ DOMAIN holder' = Members
      /\ \A m \in Members : \A e \in holder'[m] : Genuine(e) /\ DOMAIN e = SigFields
    BY <1>2, Zenon DEF Inv, TypeOK, SignaturesGenuine
<1>4. \A m \in net' : m[1] \in Members /\ Genuine(m[2]) /\ DOMAIN m[2] = SigFields
    BY <1>2, Zenon DEF Inv, TypeOK, SignaturesGenuine
<1>5. DOMAIN thread' = Members /\ \A m \in Members : ThreadOK(thread'[m])
    BY <1>1, ThreadType, Zenon DEF Inv, TypeOK
<1>6. /\ tip' \in [Members -> blocks'] /\ up' \subseteq Members
      /\ pools' \in [Members -> SUBSET Members]
    BY <1>1, <1>2, Zenon DEF Inv, TypeOK
<1>. QED
    BY <1>1, <1>3, <1>4, <1>5, <1>6, OtherStep, SMT, Z3

\* A node that comes back gets the signatures its peers hold.
LEMMA RestartStep == ASSUME Inv, NEW n \in Members, Restart(n) PROVE Inv'
<1>1. UNCHANGED <<tip, index, holder, pools, signed>> /\ blocks' = blocks
    BY Zenon DEF Restart, blocks
<1>2. /\ tip' \in [Members -> blocks'] /\ up' \subseteq Members
      /\ pools' \in [Members -> SUBSET Members] /\ DOMAIN holder' = Members
    BY <1>1, Zenon DEF Restart, Inv, TypeOK
<1>3. \A m \in Members : \A e \in holder'[m] : Genuine(e) /\ DOMAIN e = SigFields
    BY <1>1, Zenon DEF Inv, TypeOK, SignaturesGenuine
<1>4. \A m \in net' : m[1] \in Members /\ Genuine(m[2]) /\ DOMAIN m[2] = SigFields
  <2>1. \A m \in up : \A sig \in Advertised(m) : Genuine(sig) /\ DOMAIN sig = SigFields
    <3>1. ASSUME NEW m \in up, NEW sig \in Advertised(m)
          PROVE  Genuine(sig) /\ DOMAIN sig = SigFields
      <4>1. PICK e \in holder[m] : sig = [e EXCEPT !.fValidated = FALSE]
          BY <3>1, Zenon DEF Advertised
      <4>2. Genuine(e) /\ DOMAIN e = SigFields
          BY Zenon DEF Inv, TypeOK, SignaturesGenuine
      <4>. QED
          BY <4>1, <4>2, GenuineCopy, Zenon
    <3>. QED
        BY <3>1, Zenon
  <2>2. net' = net \cup {<<n, sig>> : sig \in UNION {Advertised(m) : m \in up}}
      BY Zenon DEF Restart
  <2>3. \A m \in net : m[1] \in Members /\ Genuine(m[2]) /\ DOMAIN m[2] = SigFields
      BY Zenon DEF Inv, TypeOK, SignaturesGenuine
  <2>. QED
      BY <2>1, <2>2, <2>3, SMT, Z3
<1>5. DOMAIN thread' = Members /\ \A m \in Members : ThreadOK(thread'[m])
  <2>1. \A p \in blocks : \A next : ThreadOK(NewThread(p, next))
      BY Zenon DEF ThreadOK, NewThread, ThreadFields, PocStates
  <2>2. \E next : SetThread(n, NewThread(tip[n], next))
      BY Zenon DEF Restart
  <2>3. tip[n] \in blocks /\ DOMAIN thread = Members
      BY Zenon DEF Inv, TypeOK
  <2>4. \A m \in Members : ThreadOK(thread[m])
      BY ThreadType, Zenon DEF Inv
  <2>. QED
      BY <2>1, <2>2, <2>3, <2>4, SMT, Z3 DEF SetThread
<1>. QED
    BY <1>1, <1>2, <1>3, <1>4, <1>5, OtherStep, SMT, Z3
-----------------------------------------------------------------------------
\* The invariant holds at first.
LEMMA InvInit == Init => Inv
<1>. SUFFICES ASSUME Init PROVE Inv
    BY Zenon
<1>1. blocks = {Start}
    BY Zenon DEF Init, blocks
<1>2. \A next : ThreadOK(NewThread(Start, next))
    BY <1>1, Zenon DEF ThreadOK, NewThread, ThreadFields, PocStates
<1>3. DOMAIN thread = Members /\ \A n \in Members : ThreadOK(thread[n])
    BY <1>2, Zenon DEF Init
<1>4. /\ tip \in [Members -> blocks] /\ pools \in [Members -> SUBSET Members]
      /\ up = Members /\ holder = [n \in Members |-> {}] /\ net = {}
    BY <1>1, Zenon DEF Init
<1>5. TypeOK
    BY <1>3, <1>4, Zenon DEF TypeOK, ThreadOK
<1>6. SignaturesGenuine
    BY <1>4, Zenon DEF SignaturesGenuine
<1>. QED
    BY <1>5, <1>6, Zenon DEF Inv

\* It is about the variables only.
LEMMA InvStutter == ASSUME Inv, UNCHANGED vars PROVE Inv'
<1>1. \A n \in Members : ThreadOK(thread[n])
    BY ThreadType, Zenon DEF Inv
<1>. QED
    BY <1>1, OtherStep, SMT, SMTT(30) DEF Inv, vars, TypeOK, SignaturesGenuine, blocks

\* Every step keeps it.
LEMMA InvNext == Inv /\ [Next]_vars => Inv'
<1>. SUFFICES ASSUME Inv, [Next]_vars PROVE Inv'
    BY Zenon
<1>1. ASSUME NEW n \in Members, ThreadWithoutBlock(n) PROVE Inv'
    BY <1>1, LoopHeadStep, HandlerStep, CreateSignatureStep, CompleteSetsStep,
       ContributeToStep, RetryStep, SMT, Z3 DEF ThreadWithoutBlock
<1>2. ASSUME NEW n \in Members, CreateBlock(n) PROVE Inv'
    BY <1>2, CreateBlockStep, Zenon
<1>3. ASSUME NEW n \in Members, Deliver(n) PROVE Inv'
    BY <1>3, DeliveryStep, Zenon
<1>4. CASE Clock
    BY <1>4, DeliveryStep, Zenon
<1>5. CASE Fault
    BY <1>5, DeliveryStep, CrashStep, RestartStep, Zenon DEF Fault
<1>6. CASE UNCHANGED vars
    BY <1>6, InvStutter, Zenon
<1>. QED
    BY <1>1, <1>2, <1>3, <1>4, <1>5, <1>6, SMT, Z3 DEF Next, Thread

\* Whatever is lost, late, retried or restarted, every signature in a holder
\* or on its way is one that its signer made for the set it is filed under
\* (AddSig, SendCVNSignature, the SIG handler, AdvertiseNoncesAndSigs).
THEOREM SpecSignaturesGenuine == Spec => [](TypeOK /\ SignaturesGenuine)
<1>1. Spec => []Inv
    BY InvInit, InvNext, PTL DEF Spec
<1>. QED
    BY <1>1, PTL DEF Inv

\* The variables keep their types: no thread state, message or signature of a
\* shape the handlers do not expect.
THEOREM RoundTypeCorrect == Spec => []TypeOK
BY SpecSignaturesGenuine, PTL

-----------------------------------------------------------------------------
(* The refinement: what the signatures in a set the factory accepts say.   *)

\* The votes and the chains of the abstract specification.
Votes == {v \in signed : v.creator \in Members}

\* Every signer of a set the factory accepts voted for this very block: its
\* signature is for the same parent, creator and missing CVNs.
LEMMA SignerVoted ==
    ASSUME Inv, NEW n \in Members, NEW s \in ValidSets(n), NEW e \in s
    PROVE  LET missing == Members \ Signers(s)
           IN  /\ Genuine(e)
               /\ e.rx.signers = Members \ missing
               /\ VoteOf(e) = Coop!Vote(e.nSignerId, tip[n], n, missing)
<1>. DEFINE missing == Members \ Signers(s)
<1>1. PICK rx \in WorkingSets(n) : s = SigSet(holder[n], rx)
    BY Zenon DEF ValidSets, DetermineBestSignatureSet
<1>2. e \in holder[n] /\ Genuine(e)
    BY <1>1, Zenon DEF SigSet, Inv, SignaturesGenuine
<1>3. e.hashPrevBlock = tip[n] /\ e.nCreatorId = n
    BY <1>1, Zenon DEF WorkingSets
<1>4. e.rx.signers = Members \ missing /\ SumOfIds(e.vMissingSignerIds) = SumOfIds(missing)
    BY Zenon DEF ValidSets, BlockIsValid, CvnVerifyChainSignature, HashToSign
<1>5. e.nSignerId \in Members \ missing
    BY <1>2, Zenon DEF Genuine, Signers
<1>6. (Others(e.nSignerId, e.vMissingSignerIds) \cup {e.nSignerId}) = Members \ missing
    BY <1>2, <1>4, Zenon DEF Genuine
<1>7. e.vMissingSignerIds \subseteq Members
    BY <1>2, Zenon DEF Genuine
<1>8. e.vMissingSignerIds = missing
  <2>1. CASE e.nSignerId \notin e.vMissingSignerIds
      BY <1>5, <1>6, <1>7, <2>1, SMT, Z3 DEF Others
  <2>2. CASE e.nSignerId \in e.vMissingSignerIds
    <3>1. e.vMissingSignerIds = missing \cup {e.nSignerId}
        BY <1>5, <1>6, <1>7, <2>2, Zenon DEF Others
    <3>2. missing \in SUBSET Members
        BY Zenon
    <3>. HIDE DEF missing
    <3>. QED
        BY <1>4, <1>5, <3>1, <3>2, IdsArePositive, Zenon
  <2>. QED
      BY <2>1, <2>2, Zenon
<1>. HIDE DEF missing
<1>9. VoteOf(e) = Coop!Vote(e.nSignerId, tip[n], n, missing)
    BY <1>3, <1>8, Zenon DEF VoteOf, Coop!Vote
<1>. QED
    BY <1>2, <1>4, <1>9, Zenon DEF missing

\* A step that neither signs nor creates a block changes nothing in the
\* abstract specification.
LEMMA SilentStep ==
    ASSUME UNCHANGED <<index, signed>>
    PROVE  UNCHANGED <<Votes, blocks>>
BY Zenon DEF Votes, blocks

\* A signature that is sent is a vote, or repeats one.
LEMMA SendIsCastVote ==
    ASSUME Inv, NEW n \in Members, NEW missing \in SUBSET Members, NEW CONSTANT s,
           SendCVNSignature(n, missing, s), UNCHANGED index
    PROVE  [Coop!Next]_<<Votes, blocks>>
<1>1. PICK creator : creator = CheckNextBlockCreator(thread[n].pindexPrev, Slot(n))
    BY Zenon
<1>2. signed' = signed \cup {Coop!Vote(n, thread[n].pindexPrev, creator, missing)}
    BY <1>1, Zenon DEF SendCVNSignature, CvnSignPartial, VoteOf, Coop!Vote
<1>3. thread[n].pindexPrev \in blocks
    BY Zenon DEF Inv, TypeOK
<1>4. blocks' = blocks
    BY Zenon DEF blocks
<1>5. Coop!Vote(n, thread[n].pindexPrev, creator, missing).creator = creator
    BY Zenon DEF Coop!Vote
<1>6. CASE creator \in Members
  <2>1. Votes' = Votes \cup {Coop!Vote(n, thread[n].pindexPrev, creator, missing)}
      BY <1>2, <1>5, <1>6, Zenon DEF Votes
  <2>. QED
      BY <1>3, <1>4, <1>6, <2>1, Zenon DEF Coop!Next, Coop!CastVote, Votes
<1>7. CASE creator \notin Members
    BY <1>2, <1>4, <1>5, <1>7, Zenon DEF Votes
<1>. QED
    BY <1>6, <1>7, Zenon

\* CreateBlock extends the chain by a block that its signers voted for.
LEMMA CreateBlockIsExtend ==
    ASSUME Inv, NEW n \in Members, CreateBlock(n)
    PROVE  Coop!Extend
<1>1. PICK s \in ValidSets(n) :
          index' = [q \in blocks \cup {Append(tip[n], NewBlock(n, s))} |->
                          IF q = Append(tip[n], NewBlock(n, s))
                          THEN IndexEntry(Append(tip[n], NewBlock(n, s))) ELSE index[q]]
    BY Zenon DEF CreateBlock
<1>. DEFINE missing == Members \ Signers(s)
<1>2. blocks' = blocks \cup {Append(tip[n], NewBlock(n, s))}
    BY <1>1, Zenon DEF blocks
<1>3. NewBlock(n, s) = Coop!Block(n, missing)
    BY Zenon DEF NewBlock, Coop!Block
<1>4. \A e \in s : /\ Genuine(e)
                   /\ e.rx.signers = Members \ missing
                   /\ VoteOf(e) = Coop!Vote(e.nSignerId, tip[n], n, missing)
    BY SignerVoted, Zenon
<1>5. \A m \in Members \ missing : Coop!Vote(m, tip[n], n, missing) \in Votes
  <2>1. ASSUME NEW m \in Members \ missing
        PROVE  Coop!Vote(m, tip[n], n, missing) \in Votes
    <3>1. PICK e \in s : e.nSignerId = m
        BY Zenon DEF Signers
    <3>2. VoteOf(e) \in signed /\ VoteOf(e) = Coop!Vote(m, tip[n], n, missing)
        BY <1>4, <3>1, Zenon DEF Genuine
    <3>. HIDE DEF missing
    <3>3. Coop!Vote(m, tip[n], n, missing).creator = n
        BY Zenon DEF Coop!Vote
    <3>. QED
        BY <3>2, <3>3, Zenon DEF Votes
  <2>. QED
      BY <2>1, Zenon
<1>6. \E m, o \in Members \ missing : m # o
  <2>1. s # {}
    <3>1. PICK rx \in WorkingSets(n) : s = SigSet(holder[n], rx)
        BY Zenon DEF ValidSets, DetermineBestSignatureSet
    <3>2. Cardinality(s) >= 2
        BY <3>1, Zenon DEF WorkingSets
    <3>. QED
        BY <3>2, FS_EmptySet, SMT, Z3
  <2>2. PICK e \in s : TRUE
      BY <2>1, Zenon
  <2>3. PICK o : o \in Others(e.nSignerId, e.vMissingSignerIds)
      BY <1>4, <2>2, Zenon DEF Genuine
  <2>4. /\ e.nSignerId \in Members \ missing /\ o \in Members \ missing
        /\ e.nSignerId # o
      BY <1>4, <2>2, <2>3, Zenon DEF Genuine, Others
  <2>. QED
      BY <2>4, Zenon
<1>7. tip[n] \in blocks /\ UNCHANGED Votes
    BY Zenon DEF Inv, TypeOK, CreateBlock, Votes
<1>8. missing \in SUBSET Members
    BY Zenon
<1>. HIDE DEF missing
<1>9. \E prev \in blocks, creator \in Members, missing1 \in SUBSET Members :
          /\ \E m, o \in Members \ missing1 : m # o
          /\ \A m \in Members \ missing1 : Coop!Vote(m, prev, creator, missing1) \in Votes
          /\ blocks' = blocks \cup {Append(prev, Coop!Block(creator, missing1))}
    BY <1>2, <1>3, <1>5, <1>6, <1>7, <1>8, Zenon
<1>. QED
    BY <1>7, <1>9, Zenon DEF Coop!Extend, Votes

\* A thread that may sign votes or changes nothing.
LEMMA SignOrNotIsVote ==
    ASSUME Inv, NEW n \in Members, NEW missing \in SUBSET Members, NEW CONSTANT s,
           UNCHANGED index, SendCVNSignature(n, missing, s) \/ UNCHANGED signed
    PROVE  [Coop!Next]_<<Votes, blocks>>
BY SendIsCastVote, SilentStep, Zenon

\* The other steps of a thread vote at most.
LEMMA ThreadIsVote ==
    ASSUME Inv, NEW n \in Members, ThreadWithoutBlock(n)
    PROVE  [Coop!Next]_<<Votes, blocks>>
<1>1. UNCHANGED index
    BY Zenon DEF ThreadWithoutBlock, LoopHead, handleInit, handleWaitingForBlockPropagation,
           handleCreateSignature, handleCompleteSignatureSets, ContributeTo,
           Contributed, SignaturesComplete, SignaturesOutstanding,
           RetryWithSmallerSet, NoBlock
<1>2. CASE handleCreateSignature(n)
  <2>1. PICK missing, s : /\ missing = FindSignerIDsWithMissingNonces(n)
                          /\ SendCVNSignature(n, missing, s) \/ UNCHANGED signed
      BY <1>2, Zenon DEF handleCreateSignature
  <2>2. missing \in SUBSET Members
      BY <2>1, Zenon DEF FindSignerIDsWithMissingNonces
  <2>. QED
      BY <1>1, <2>1, <2>2, SignOrNotIsVote, Zenon
<1>3. CASE \E missing \in thread[n].todo : ContributeTo(n, missing)
  <2>1. PICK missing \in thread[n].todo : ContributeTo(n, missing)
      BY <1>3, Zenon
  <2>2. PICK s : SendCVNSignature(n, missing, s) \/ UNCHANGED signed
      BY <2>1, Zenon DEF ContributeTo
  <2>3. missing \in SUBSET Members
      BY ThreadType, Zenon DEF Inv, ThreadOK
  <2>. QED
      BY <1>1, <2>2, <2>3, SignOrNotIsVote, Zenon
<1>4. CASE RetryWithSmallerSet(n)
  <2>1. PICK missing, s :
            /\ missing = GetAllMissing(n, holder[n]) \cup FindSignerIDsWithMissingNonces(n)
            /\ SendCVNSignature(n, missing, s) \/ UNCHANGED signed
      BY <1>4, Zenon DEF RetryWithSmallerSet
  <2>2. missing \in SUBSET Members
      BY <2>1, SMT, Z3 DEF FindSignerIDsWithMissingNonces, GetAllMissing, Inv, TypeOK
  <2>. QED
      BY <1>1, <2>1, <2>2, SignOrNotIsVote, Zenon
<1>5. CASE UNCHANGED signed
    BY <1>1, <1>5, SilentStep, Zenon
<1>6. \/ handleCreateSignature(n) \/ RetryWithSmallerSet(n) \/ UNCHANGED signed
      \/ \E missing \in thread[n].todo : ContributeTo(n, missing)
    BY Zenon DEF ThreadWithoutBlock, LoopHead, handleInit, handleWaitingForBlockPropagation,
           handleCompleteSignatureSets, Contributed, SignaturesComplete,
           SignaturesOutstanding, NoBlock
<1>. QED
    BY <1>2, <1>3, <1>4, <1>5, <1>6, SMT, Z3

\* The initial states map to initial states.
LEMMA InitRefines == Init => Coop!Init
BY Zenon DEF Init, Coop!Init, blocks

\* Every step maps to a step or a stutter.
LEMMA NextRefines == Inv /\ [Next]_vars => [Coop!Next]_<<Votes, blocks>>
<1>. SUFFICES ASSUME Inv, [Next]_vars PROVE [Coop!Next]_<<Votes, blocks>>
    BY Zenon
<1>1. ASSUME NEW n \in Members, ThreadWithoutBlock(n)
      PROVE  [Coop!Next]_<<Votes, blocks>>
    BY <1>1, ThreadIsVote, Zenon
<1>2. ASSUME NEW n \in Members, CreateBlock(n)
      PROVE  [Coop!Next]_<<Votes, blocks>>
    BY <1>2, CreateBlockIsExtend, Zenon DEF Coop!Next
<1>3. CASE UNCHANGED <<index, signed>>
    BY <1>3, SilentStep, Zenon
<1>4. \/ UNCHANGED <<index, signed>>
      \/ \E n \in Members : ThreadWithoutBlock(n) \/ CreateBlock(n)
    BY Zenon DEF Next, Thread, Deliver, ReceiveSig, ReceiveBlock, ReceivePool, Clock, Tick,
           Fault, Lose, Crash, Restart, vars
<1>. QED
    BY <1>1, <1>2, <1>3, <1>4, Zenon

\* Every block that CreateBlock makes is one that at least two CVNs, and all
\* but those it lists as missing, signed for this parent, this creator and
\* these missing CVNs, whatever retries, losses and restarts came before.
THEOREM RoundImplementsCooperation == Spec => ImplementsCooperation
<1>1. Spec => []Inv
    BY InvInit, InvNext, PTL DEF Spec
<1>2. Init => Coop!Init
    BY InitRefines, Zenon
<1>3. Inv /\ [Next]_vars => [Coop!Next]_<<Votes, blocks>>
    BY NextRefines, Zenon
<1>. QED
    BY <1>1, <1>2, <1>3, PTL DEF Spec, ImplementsCooperation, Coop!Spec, Votes
=============================================================================
