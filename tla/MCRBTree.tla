------------------------------- MODULE MCRBTree -------------------------------
(* A map that any calls are made on, with few keys, and a larger map that    *)
(* items are only deleted from: only in a tree of that size deletion hands   *)
(* an imbalance up to nodes below the root.                                  *)
EXTENDS RBTree
CONSTANT MaxKey
MCKey == 1 .. MaxKey
MCNodes == 1 .. MaxKey
Item(k, v) == [key |-> k, value |-> v]
FewItems == {<<>>, <<Item(1, 2), Item(1, 1)>>, <<Item(2, 1), Item(1, 1)>>}
ManyItems == {[i \in 1 .. MaxKey |-> Item(i, 1)], [i \in 1 .. MaxKey |-> Item(MaxKey + 1 - i, 1)]}

DeletingNext == \/ Begin /\ call'.op \in {"createMap", "deleteItem"}
                \/ CreateMap \/ CreateNext \/ DeleteItem \/ Inner
DeletingSpec == Init /\ [][DeletingNext]_vars /\ WF_vars(Interface \/ Inner)
=============================================================================
