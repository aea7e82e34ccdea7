----------------------------- MODULE MCNoncePool -----------------------------
(* Instances of NoncePool for TLC. *)
EXTENDS NoncePool

CONSTANTS
    c1,          \* the CVN whose thread runs
    c2,          \* a registered CVN outside the model, with old pools
    w,           \* a node without a PoC thread
    LastHeight

LineBlocks == 0..LastHeight
LineHeight == [b \in LineBlocks |-> b]
LineChain == [b \in LineBlocks |-> [h \in 0..b |-> h]]
StablePayload == [b \in {0} |-> {c1, c2}]

\* 0 - 1 - 2
\*      \ 12
ForkBlocks == {0, 1, 2, 12}
ForkHeight == [b \in ForkBlocks |-> b % 10]
ForkChain == [b \in ForkBlocks |->
                [h \in 0..(b % 10) |-> IF b = 12 /\ h = 2 THEN 12 ELSE h]]
\* c1 is removed from the network by block 1 and added again by 2 and 12.
MovingPayload == [b \in {0, 1, 2, 12} |-> IF b = 1 THEN {c2} ELSE {c1, c2}]

\* The pools of c2: one at block 0 and a newer, shorter one at block 2.
PoolOfC2(root, time, size) ==
    LET nonces == [i \in 1..size |-> [time |-> time, height |-> root + i - 1]]
    IN  [nCvnId |-> c2, hashRootBlock |-> root, vPublicNonces |-> nonces,
         nCreationTime |-> time, msgSig |-> nonces, nHeightAdded |-> 0]
OnePool == {PoolOfC2(0, 0, MaxPoolSize)}
TwoPools == {PoolOfC2(0, 0, MaxPoolSize), PoolOfC2(2, 1, 1)}
=============================================================================
