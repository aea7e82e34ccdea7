---------------------------- MODULE MCChainState ----------------------------
(* Instances of ChainState for TLC. *)
EXTENDS ChainRules, TLC

Made(creator, slot, missing, added, members, payload, mean) ==
    [nCreatorId |-> creator, slot |-> slot, vMissingSignerIds |-> missing,
     added |-> added, mapCVNs |-> members, payload |-> payload, mean |-> mean]

(* A chain of two CVNs, bootstrapped on time: "a", "b", "c".  On it, a     *)
(* third CVN is added ("add") and creates a block on time that changes the *)
(* parameters ("own").  That block is late for some, who go on without it  *)
(* ("late"), then with all ("back"), then with as few signatures as the    *)
(* old parameters allow ("low").  Beside "add" there is a late block       *)
(* without payload ("side").                                               *)
Forked ==
       "a"    :> Made(1, 0, {}, 1, {1}, {"cvns", "params"}, 60)
    @@ "b"    :> Made(1, 0, {}, 2, {1, 2}, {"cvns"}, 60)
    @@ "c"    :> Made(2, 0, {}, NoCvn, {1, 2}, {}, 60)
    @@ "add"  :> Made(1, 0, {}, 3, {1, 2, 3}, {"cvns"}, 60)
    @@ "own"  :> Made(3, 0, {}, NoCvn, {1, 2, 3}, {"params"}, 70)
    @@ "late" :> Made(2, 1, {3}, NoCvn, {1, 2, 3}, {}, 60)
    @@ "back" :> Made(1, 0, {}, NoCvn, {1, 2, 3}, {}, 60)
    @@ "low"  :> Made(2, 1, {3}, NoCvn, {1, 2, 3}, {}, 60)
    @@ "side" :> Made(2, 1, {}, NoCvn, {1, 2}, {}, 60)

TwoCvns == <<"a", "b", "c">>

Added == Append(TwoCvns, "add")

Late == Append(Added, "late")

ForkedTree ==
    {Added, Append(Added, "own"), Late, Late \o <<"back">>, Late \o <<"back", "low">>,
     Append(TwoCvns, "side")}

\* The header of a block that was not signed by all does not say so.
NoneMissing ==
    {p \in ForkedTree : Len(p) > 4 /\ Tip(p).vMissingSignerIds = {}}

\* One order of the entries in memory.
Order == <<"a", "b", "c", "add", "side", "own", "late", "back", "low">>

Addresses == [h \in {Order[i] : i \in DOMAIN Order} |->
                CHOOSE i \in DOMAIN Order : Order[i] = h]
=============================================================================
