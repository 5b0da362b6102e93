----------------------------- MODULE MCSociety -----------------------------
(***************************************************************************)
(* The instances of Society that TLC checks.                               *)
(***************************************************************************)
EXTENDS Society

Symmetry == Permutations(Players) \cup Permutations(Parties) \cup Permutations(Houses)

\* The two parts meet in Logout alone, and their product is large: goods move
\* about only where no party exists. Wherever one does, players may still trade.
GoodsRest ==
    /\ \E p \in Players : \A i \in Items : place[i] = p
    /\ \A p \in Players : openContainers[p] = {}
    /\ \A h \in Houses : owner[h] = Nobody

PartiesOrGoods == GoodsRest \/ \A k \in Parties : parties.leader[k] = Nobody
=============================================================================
