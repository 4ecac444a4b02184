------------------------------ MODULE RBTreeInv ------------------------------
(***************************************************************************)
(* The inductive invariant of RBTree.  A tree is described by its subtrees *)
(* and black heights, as functions U and bh of the node, and not by        *)
(* recursion; while a call is under way it may be wrong in one place that  *)
(* the function called next is told of.                                    *)
(***************************************************************************)
EXTENDS RBTree

Heaps == [Nodes -> [parent : Refs, left : Refs, right : Refs, color : {"red", "black"},
                    key : Key \cup {0}, value : Value \cup {0}]]

Lesser(s, a, b) == IF s = "left" THEN a < b ELSE a > b

(* The nodes L, linked by h, are a tree; U[n] is the subtree of n. *)
Shape(h, L, top, U) ==
  /\ L \subseteq Nodes /\ IsFiniteSet(L) /\ top \in L \cup {null}
  /\ U \in [L \cup {null} -> SUBSET L] /\ U[null] = {} /\ U[top] = L
  /\ \A n \in L, s \in Child :
       /\ h[n][s] \in L \cup {null}
       /\ U[n] = {n} \cup U[h[n][s]] \cup U[h[n][Other(s)]]
       /\ n \notin U[h[n][s]] /\ U[h[n][s]] \cap U[h[n][Other(s)]] = {}
       /\ h[n][s] # null => h[h[n][s]].parent = n
  /\ \A n \in L : IF n = top THEN h[n].parent = null
                  ELSE h[n].parent \in L /\ \E s \in Child : h[h[n].parent][s] = n

(* The keys but that of X are in order. *)
Sorted(h, L, U, X) ==
  \A n \in L, s \in Child : \A m \in U[h[n][s]] :
    n # X /\ m # X => Lesser(s, h[m].key, h[n].key)

(* bh[n] counts the black nodes on each way down from n.  Z does not count, *)
(* and on the ways through d one is missing.                                *)
Weight(h, n, Z) == IF n # Z /\ h[n].color = "black" THEN 1 ELSE 0
Missing(n, d) == IF n # null /\ n = d THEN 1 ELSE 0
Balanced(h, L, bh, d, Z) ==
  /\ bh \in [L \cup {null} -> Nat] /\ bh[null] = 0
  /\ \A n \in L, s \in Child : bh[n] = bh[h[n][s]] + Missing(h[n][s], d) + Weight(h, n, Z)

(* A red node has black children, but for v. *)
Colored(h, L, v) ==
  \A n \in L, s \in Child :
    h[n][s] # null /\ h[n][s] # v /\ h[n].color = "red" => h[h[n][s]].color = "black"

(* A red-black search tree, but for the key of X, the weight of Z, a black node *)
(* missing over d and a red child v of a red node.                              *)
Tree(h, L, top, U, bh, X, d, Z, v) ==
  Shape(h, L, top, U) /\ Sorted(h, L, U, X) /\ Balanced(h, L, bh, d, Z) /\ Colored(h, L, v)

-----------------------------------------------------------------------------
Inserting == pc \in {"insert_case1", "insert_case2", "insert_case3", "insert_case4", "insert_case5"}
Rebalancing == pc \in {"delete_case1", "delete_case2", "delete_case3", "delete_case4",
                       "delete_case5", "delete_case6"}

Linked == IF pc = "insert" THEN live \ {node} ELSE live
Violator == IF Inserting THEN node ELSE null
Short == IF Rebalancing THEN node ELSE null
Leaving == IF Rebalancing \/ pc = "unlink" THEN M ELSE null

IsTree(top, U, bh) ==
  /\ Tree(heap, Linked, top, U, bh, M, Short, Leaving, Violator)
  /\ pc \in {"idle", "insert", "deleteNode"} => root = top
  /\ top # null /\ Color(top) = "red" => pc = "insert_case1" /\ node = top

AtInsert ==
  /\ pc = "insert" => /\ node \in live /\ tmp = node
                      /\ Parent(node) = null /\ heap[node].left = null /\ heap[node].right = null
                      /\ Color(node) = "red"
                      /\ \A n \in live \ {node} : heap[n].key # heap[node].key
  /\ Inserting => node \in live /\ tmp \in live /\ Color(node) = "red"
  /\ Inserting /\ pc # "insert_case1" => Parent(node) # null
  /\ pc \in {"insert_case3", "insert_case4", "insert_case5"} => Color(Parent(node)) = "red"
  /\ pc \in {"insert_case4", "insert_case5"} => ~IsRed(Uncle(node))
  /\ pc = "insert_case5" => SideOf(node) = SideOf(Parent(node))

AtCase ==
  /\ Rebalancing /\ pc # "delete_case1" => Parent(node) # null
  /\ pc \in {"delete_case3", "delete_case4", "delete_case5", "delete_case6"} =>
       Color(Brother(node)) = "black"
  /\ pc = "delete_case4" => ~(Color(Parent(node)) = "black" /\ BlackBrother(node))
  /\ pc = "delete_case5" => ~BlackBrother(node)
  /\ pc = "delete_case6" => IsRed(heap[Brother(node)][Other(SideOf(node))])

AtDelete ==
  /\ pc = "deleteNode" => node \in live
  /\ pc \in {"deleteTheOnlyChild", "unlink"} \/ Rebalancing =>
       /\ M \in live /\ tmp \in live \cup {null} /\ tmp # M
       /\ tmp = null => Parent(M) = null /\ Leaf(M)
       /\ \A n \in live : heap[n].key = heap[M].key => heap[n].value = heap[M].value
  /\ pc = "deleteTheOnlyChild" =>
       /\ node = M
       /\ Leaf(M) \/ (heap[M].left = null /\ heap[M].right # null /\ Parent(M) # null)
  /\ Rebalancing \/ pc = "unlink" => Leaf(M)
  /\ Rebalancing => node \in live /\ Color(node) = "black" /\ Color(M) = "black"
  /\ AtCase

AtRest ==
  /\ pc = "idle" => node = null /\ tmp = null
  /\ pc \in {"idle", "insert", "deleteNode"} \/ Inserting => M = null
  /\ pc \in {"idle", "deleteNode"} => tmp = null
  /\ pc = "setTreeRoot" => /\ tmp \in live \cup {null} /\ (tmp = null => live = {})
                           /\ M \notin live
  /\ ~map => pc = "idle" /\ live = {} /\ root = null
  /\ \A n \in Nodes \ live : heap[n] = Blank

IInv == TreeTyped /\ (\E top, U, bh : IsTree(top, U, bh)) /\ AtInsert /\ AtDelete /\ AtRest

-----------------------------------------------------------------------------
(* The calls, whatever the tree: the arguments are real, and there are items to *)
(* come only in createMap(), which has not returned before they are added.      *)
AtCall ==
  /\ call \in Calls /\ todo \in Seq(Items)
  /\ call.op \in {"addItem", "setValue", "deleteItem"} => call.key \in Key
  /\ call.op \in {"addItem", "setValue"} => call.value \in Value
  /\ call.op \in Requests \ {"createMap"} => map
  /\ call.op # "createMap" => todo = <<>>
  /\ call.op \in Results => pc = "idle"
  /\ pc = "idle" /\ call.op = "createMap" /\ map => todo # <<>>

KeysReal == \A n \in live : heap[n].key \in Key

(* What a call has to do with the tree.  The key that is deleted is that of the *)
(* node on its way out, or was that of a node that has now the key of M.        *)
AtItem ==
  /\ KeysReal
  /\ pc = "insert" \/ Inserting => call.op \in {"addItem", "createMap"}
  /\ pc = "deleteNode" => call.op = "deleteItem" /\ heap[node].key = call.key
  /\ pc \in {"deleteTheOnlyChild", "unlink"} \/ Rebalancing =>
       /\ call.op = "deleteItem"
       /\ IF HasKey(call.key)
          THEN heap[M].key = call.key /\ \A n \in live \ {M} : heap[n].key # call.key
          ELSE \E n \in live \ {M} : heap[n].key = heap[M].key
  /\ pc = "setTreeRoot" => /\ call.op \in {"addItem", "createMap", "deleteItem"}
                           /\ call.op = "deleteItem" => ~HasKey(call.key)
==============================================================================
