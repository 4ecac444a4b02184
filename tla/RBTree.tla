-------------------------------- MODULE RBTree --------------------------------
(***************************************************************************)
(* Projects/Container: the map kept in a red-black tree of nodes with      *)
(* parent pointers.  One action is one C function, from its start to the   *)
(* call it ends with; rotations and searches are operators.  The functions *)
(* of the interface (RBTree.h) are called in any order, with any           *)
(* arguments.                                                              *)
(***************************************************************************)
EXTENDS Integers, Sequences, FiniteSets, Functions

CONSTANTS Key,     \* the keys
          Value,   \* the values
          Nodes,   \* the addresses of nodes: numbers from 1
          Data     \* the arrays createMap() is called with, sequences of items

Items == [key : Key, value : Value]  \* struct Pair

ASSUME KeyAssumption == Key \subseteq Int /\ Data \subseteq Seq(Items)
ASSUME NodesAssumption == Nodes \subseteq Nat \ {0}

null == 0
Refs == Nodes \cup {null}
Child == {"left", "right"}
Other(side) == IF side = "left" THEN "right" ELSE "left"

VARIABLES
  map,   \* the map exists
  root,  \* its treeRoot
  heap,  \* heap[n]: the fields of the node at address n
  live,  \* the nodes that are allocated
  call,  \* the call of the interface that is under way, or the result of the last one
  todo,  \* the items that createMap() has still to add
  pc,    \* the function that is called next, or "idle"
  node,  \* its argument
  tmp,   \* the node that findTop() will start from
  M      \* the node that deleteNode() takes out of the tree

vars == <<map, root, heap, live, call, todo, pc, node, tmp, M>>

Request(op, k, v) == [op |-> op, key |-> k, value |-> v]
Returned(result) == Request(result, 0, 0)
Results == {"SUCCESS", "INVALID_ARG", "LACK_OF_MEMORY"}

Blank == [parent |-> null, left |-> null, right |-> null, color |-> "red", key |-> 0, value |-> 0]

Init ==
  /\ map = FALSE /\ root = null
  /\ heap = [n \in Nodes |-> Blank] /\ live = {}
  /\ call = Returned("SUCCESS") /\ todo = <<>>
  /\ pc = "idle" /\ node = null /\ tmp = null /\ M = null

Parent(n) == heap[n].parent
Color(n) == heap[n].color
IsBlack(n) == n = null \/ Color(n) = "black"
IsRed(n) == n # null /\ Color(n) = "red"

(* The side of its parent that n hangs on, and the node on the other side. *)
SideOf(n) == IF n = heap[Parent(n)].left THEN "left" ELSE "right"
Grandparent(n) == Parent(Parent(n))
Brother(n) == heap[Parent(n)][Other(SideOf(n))]
Uncle(n) == Brother(Parent(n))

FindItem(k) ==
  LET find[n \in Refs] ==
        IF n = null \/ heap[n].key = k THEN n
        ELSE find[IF heap[n].key > k THEN heap[n].left ELSE heap[n].right]
  IN find[root]

FindParent(k) ==
  LET find[n \in Nodes] ==
        LET next == IF heap[n].key > k THEN heap[n].left ELSE heap[n].right
        IN IF next = null THEN n ELSE find[next]
  IN IF root = null THEN null ELSE find[root]

FindTop(h, n) ==
  LET top[m \in Refs] == IF m = null \/ h[m].parent = null THEN m ELSE top[h[m].parent]
  IN top[n]

(* The last node on the way down on one side: findMin and findMax. *)
Outermost(n, side) ==
  LET go[m \in Nodes] == IF heap[m][side] = null THEN m ELSE go[heap[m][side]]
  IN go[n]

Under(n) ==
  LET all[m \in Refs] == IF m = null THEN {} ELSE {m} \cup all[heap[m].left] \cup all[heap[m].right]
  IN all[n]

(* c takes the place of n under the parent of n. *)
Hang(h, n, c) ==
  LET p == h[n].parent IN
  IF p = null THEN h
  ELSE [h EXCEPT ![p][IF h[p].left = n THEN "left" ELSE "right"] = c]

(* Mistake: the node that changes sides is not told its new parent. *)
Rotate_Orphan(h, n, side) ==
  LET pivot == h[n][Other(side)]
      inner == h[pivot][side]
      hung == [Hang(h, n, pivot) EXCEPT ![pivot].parent = h[n].parent]
  IN [hung EXCEPT ![n][Other(side)] = inner, ![n].parent = pivot, ![pivot][side] = n]

(* leftRotation (side = "left") and rightRotation: n goes down on that side. *)
Rotate(h, n, side) ==
  LET pivot == h[n][Other(side)]
      inner == h[pivot][side]
      hung == [Hang(h, n, pivot) EXCEPT ![pivot].parent = h[n].parent]
      adopted == IF inner = null THEN hung ELSE [hung EXCEPT ![inner].parent = n]
  IN [adopted EXCEPT ![n][Other(side)] = inner, ![n].parent = pivot, ![pivot][side] = n]

Paint(h, n, c) == [h EXCEPT ![n].color = c]

Call(f, n) == pc' = f /\ node' = n

(***************************************************************************)
(* The interface.                                                          *)
(***************************************************************************)
(* A program calls: createMap() when it has no map, the others with the one it has. *)
Begin ==
  /\ pc = "idle" /\ call.op \in Results
  /\ \/ ~map /\ call' = Request("createMap", 0, 0) /\ todo' \in Data
     \/ map /\ UNCHANGED todo
        /\ \/ call' \in {Request("clearMap", 0, 0), Request("deleteMap", 0, 0)}
           \/ \E k \in Key : \/ call' = Request("deleteItem", k, 0)
                             \/ \E v \in Value, op \in {"addItem", "setValue"} :
                                  call' = Request(op, k, v)
  /\ UNCHANGED <<map, root, heap, live, pc, node, tmp, M>>

Called(op) == pc = "idle" /\ call.op = op
Return(result) == call' = Returned(result)

(* addItem() returns; createMap() only when it was for the last item. *)
ItemDone == IF todo' = <<>> THEN Return("SUCCESS") ELSE UNCHANGED call

CreateMap ==
  /\ Called("createMap") /\ ~map
  /\ map' = TRUE /\ root' = null
  /\ UNCHANGED <<heap, live, todo, pc, node, tmp, M>>
  /\ ItemDone

DeleteMap ==
  /\ map' = FALSE /\ root' = null
  /\ live' = live \ Under(root)
  /\ heap' = [n \in Nodes |-> IF n \in live' THEN heap[n] ELSE Blank]
  /\ todo' = <<>>

(* addItem(): nothing for a key that is there, a new node for another. *)
Added(k) == /\ FindItem(k) # null
            /\ ItemDone
            /\ UNCHANGED <<map, root, heap, live, pc, node, tmp, M>>

Allocate(k, v) ==
  /\ FindItem(k) = null
  /\ \E n \in Nodes \ live :
       /\ \A m \in Nodes \ live : n <= m
       /\ live' = live \cup {n}
       /\ heap' = [heap EXCEPT ![n] = [Blank EXCEPT !.key = k, !.value = v]]
       /\ Call("insert", n) /\ tmp' = n
  /\ UNCHANGED <<map, root, call, M>>

AddItem == /\ Called("addItem")
           /\ UNCHANGED todo
           /\ Added(call.key) \/ Allocate(call.key, call.value)

(* createNode_h() gets no memory. *)
AddFails == /\ Called("addItem")
            /\ FindItem(call.key) = null
            /\ Return("LACK_OF_MEMORY")
            /\ UNCHANGED <<map, root, heap, live, todo, pc, node, tmp, M>>

(* The next item of createMap(). *)
CreateNext == /\ Called("createMap") /\ map /\ todo # <<>>
              /\ todo' = Tail(todo)
              /\ LET item == Head(todo) IN Added(item.key) \/ Allocate(item.key, item.value)

(* createMap() gets no memory for the map, or for an item: then the map is deleted. *)
CreateFails == /\ Called("createMap")
               /\ map => todo # <<>> /\ FindItem(Head(todo).key) = null
               /\ DeleteMap
               /\ Return("LACK_OF_MEMORY")
               /\ UNCHANGED <<pc, node, tmp, M>>

DeleteItem ==
  /\ Called("deleteItem")
  /\ LET n == FindItem(call.key) IN
     IF n # null THEN Call("deleteNode", n) /\ UNCHANGED call
     ELSE UNCHANGED <<pc, node>> /\ Return(IF root = null THEN "INVALID_ARG" ELSE "SUCCESS")
  /\ UNCHANGED <<map, root, heap, live, todo, tmp, M>>

(* setValue() of what findItem() returns. *)
SetValue ==
  /\ Called("setValue")
  /\ LET n == FindItem(call.key) IN
     IF n # null THEN heap' = [heap EXCEPT ![n].value = call.value] /\ Return("SUCCESS")
     ELSE UNCHANGED heap /\ Return("INVALID_ARG")
  /\ UNCHANGED <<map, root, live, todo, pc, node, tmp, M>>

ClearMap ==
  /\ Called("clearMap")
  /\ live' = live \ Under(root)
  /\ heap' = [n \in Nodes |-> IF n \in live' THEN heap[n] ELSE Blank]
  /\ root' = null
  /\ Return("SUCCESS")
  /\ UNCHANGED <<map, todo, pc, node, tmp, M>>

DropMap ==
  /\ Called("deleteMap")
  /\ DeleteMap
  /\ Return("SUCCESS")
  /\ UNCHANGED <<pc, node, tmp, M>>

(***************************************************************************)
(* Inserting.                                                              *)
(***************************************************************************)
InTree == UNCHANGED <<map, root, live, call, todo, tmp, M>>

Insert ==
  /\ pc = "insert"
  /\ LET p == FindParent(heap[node].key)
         h == [heap EXCEPT ![node].parent = p]
     IN IF p = null
        THEN heap' = h /\ Call("insert_case1", node)
        ELSE /\ heap' = [h EXCEPT ![p][IF h[p].key > h[node].key THEN "left" ELSE "right"] = node]
             /\ Call("insert_case2", node)
  /\ InTree

InsertCase1 ==
  /\ pc = "insert_case1"
  /\ IF Parent(node) = null
     THEN heap' = Paint(heap, node, "black") /\ Call("setTreeRoot", node)
     ELSE UNCHANGED heap /\ Call("insert_case2", node)
  /\ InTree

InsertCase2 ==
  /\ pc = "insert_case2"
  /\ Call(IF Color(Parent(node)) = "black" THEN "setTreeRoot" ELSE "insert_case3", node)
  /\ UNCHANGED heap /\ InTree

InsertCase3 ==
  /\ pc = "insert_case3"
  /\ LET g == Grandparent(node) IN
     IF IsRed(Uncle(node))
     THEN /\ heap' = Paint(Paint(Paint(heap, Parent(node), "black"), Uncle(node), "black"), g, "red")
          /\ Call("insert_case1", g)
     ELSE UNCHANGED heap /\ Call("insert_case4", node)
  /\ InTree

(* A node on the inside is brought to the outside. *)
InsertCase4 ==
  /\ pc = "insert_case4"
  /\ LET p == Parent(node) IN
     IF SideOf(node) # SideOf(p)
     THEN heap' = Rotate(heap, p, SideOf(p)) /\ Call("insert_case5", p)
     ELSE UNCHANGED heap /\ Call("insert_case5", node)
  /\ InTree

InsertCase5 ==
  /\ pc = "insert_case5"
  /\ LET g == Grandparent(node)
         h == Paint(Paint(heap, Parent(node), "black"), g, "red")
     IN heap' = Rotate(h, g, Other(SideOf(node)))
  /\ Call("setTreeRoot", node)
  /\ InTree

(***************************************************************************)
(* Deleting.                                                               *)
(***************************************************************************)
(* The node next in order, or the one before, gives its item away and goes instead. *)
(* Mistake: the key stays with the node, and the item of its neighbour is lost. *)
DeleteNode_Key ==
  /\ pc = "deleteNode"
  /\ LET m == IF heap[node].right # null THEN Outermost(heap[node].right, "left")
              ELSE IF heap[node].left # null THEN Outermost(heap[node].left, "right")
              ELSE node
     IN /\ M' = m
        /\ tmp' = IF m = node THEN Parent(node) ELSE node
        /\ heap' = [heap EXCEPT ![node].value = heap[m].value]
        /\ Call("deleteTheOnlyChild", m)
  /\ UNCHANGED <<map, root, live, call, todo>>

(* Mistake: the way to the root starts from the node that is freed. *)
DeleteNode_Freed ==
  /\ pc = "deleteNode"
  /\ LET m == IF heap[node].right # null THEN Outermost(heap[node].right, "left")
              ELSE IF heap[node].left # null THEN Outermost(heap[node].left, "right")
              ELSE node
     IN /\ M' = m
        /\ heap' = [heap EXCEPT ![node].value = heap[m].value, ![node].key = heap[m].key]
        /\ Call("deleteTheOnlyChild", m)
  /\ tmp' = node
  /\ UNCHANGED <<map, root, live, call, todo>>

DeleteNode ==
  /\ pc = "deleteNode"
  /\ LET m == IF heap[node].right # null THEN Outermost(heap[node].right, "left")
              ELSE IF heap[node].left # null THEN Outermost(heap[node].left, "right")
              ELSE node
     IN /\ M' = m
        /\ tmp' = IF m = node THEN Parent(node) ELSE node
        /\ heap' = [heap EXCEPT ![node].value = heap[m].value, ![node].key = heap[m].key]
        /\ Call("deleteTheOnlyChild", m)
  /\ UNCHANGED <<map, root, live, call, todo>>

Leaf(n) == heap[n].left = null /\ heap[n].right = null

(* free(): the content of the node is gone. *)
Free(h, n) == heap' = [h EXCEPT ![n] = Blank] /\ live' = live \ {n}

DeleteTheOnlyChild ==
  /\ pc = "deleteTheOnlyChild"
  /\ IF Leaf(node)
     THEN /\ Call(IF Color(node) = "black" THEN "delete_case1" ELSE "unlink", node)
          /\ UNCHANGED <<heap, live>>
     ELSE LET c == heap[node].right
              h == [Hang(heap, node, c) EXCEPT ![c].parent = Parent(node)]
          IN /\ Free(IF Color(node) = "black" THEN Paint(h, c, "black") ELSE h, node)
             /\ Call("setTreeRoot", tmp)
  /\ UNCHANGED <<map, root, call, todo, tmp, M>>

Unlink ==
  /\ pc = "unlink"
  /\ Free(Hang(heap, M, null), M)
  /\ Call("setTreeRoot", tmp)
  /\ UNCHANGED <<map, root, call, todo, tmp, M>>

DeleteCase1 ==
  /\ pc = "delete_case1"
  /\ Call(IF Parent(node) = null THEN "unlink" ELSE "delete_case2", node)
  /\ UNCHANGED heap /\ InTree

(* Mistake: the old parent keeps its colour. *)
DeleteCase2_Black ==
  /\ pc = "delete_case2"
  /\ heap' = IF Color(Brother(node)) = "red"
             THEN Rotate(Paint(heap, Brother(node), "black"), Parent(node), SideOf(node))
             ELSE heap
  /\ Call("delete_case3", node)
  /\ InTree

DeleteCase2 ==
  /\ pc = "delete_case2"
  /\ heap' = IF Color(Brother(node)) = "red"
             THEN Rotate(Paint(Paint(heap, Parent(node), "red"), Brother(node), "black"),
                         Parent(node), SideOf(node))
             ELSE heap
  /\ Call("delete_case3", node)
  /\ InTree

BlackBrother(n) == LET b == Brother(n) IN
  Color(b) = "black" /\ IsBlack(heap[b].left) /\ IsBlack(heap[b].right)

DeleteCase3 ==
  /\ pc = "delete_case3"
  /\ IF Color(Parent(node)) = "black" /\ BlackBrother(node)
     THEN heap' = Paint(heap, Brother(node), "red") /\ Call("delete_case1", Parent(node))
     ELSE UNCHANGED heap /\ Call("delete_case4", node)
  /\ InTree

DeleteCase4 ==
  /\ pc = "delete_case4"
  /\ IF Color(Parent(node)) = "red" /\ BlackBrother(node)
     THEN /\ heap' = Paint(Paint(heap, Brother(node), "red"), Parent(node), "black")
          /\ Call("unlink", node)
     ELSE UNCHANGED heap /\ Call("delete_case5", node)
  /\ InTree

(* A red child of the brother on the inside is brought to the outside. *)
(* Mistake: the cases are gone through again. *)
DeleteCase5_Again ==
  /\ pc = "delete_case5"
  /\ LET b == Brother(node)
         inner == heap[b][SideOf(node)]
         outer == heap[b][Other(SideOf(node))]
     IN heap' = IF Color(b) = "black" /\ IsBlack(outer) /\ IsRed(inner)
                THEN Rotate(Paint(Paint(heap, b, "red"), inner, "black"), b, Other(SideOf(node)))
                ELSE heap
  /\ Call("delete_case3", node)
  /\ InTree

DeleteCase5 ==
  /\ pc = "delete_case5"
  /\ LET b == Brother(node)
         inner == heap[b][SideOf(node)]
         outer == heap[b][Other(SideOf(node))]
     IN heap' = IF Color(b) = "black" /\ IsBlack(outer) /\ IsRed(inner)
                THEN Rotate(Paint(Paint(heap, b, "red"), inner, "black"), b, Other(SideOf(node)))
                ELSE heap
  /\ Call("delete_case6", node)
  /\ InTree

DeleteCase6 ==
  /\ pc = "delete_case6"
  /\ LET b == Brother(node)
         p == Parent(node)
         outer == heap[b][Other(SideOf(node))]
         h == Paint(Paint(Paint(heap, b, Color(p)), p, "black"), outer, "black")
     IN heap' = Rotate(h, p, SideOf(node))
  /\ Call("unlink", node)
  /\ InTree

(* setTreeRoot(map, findTop(tmp)), and the function of the interface returns. *)
SetTreeRoot ==
  /\ pc = "setTreeRoot"
  /\ root' = FindTop(heap, tmp)
  /\ pc' = "idle" /\ node' = null /\ tmp' = null /\ M' = null
  /\ UNCHANGED <<map, heap, live, todo>>
  /\ ItemDone

Interface ==
  \/ CreateMap \/ CreateNext \/ CreateFails \/ AddItem \/ AddFails
  \/ DeleteItem \/ SetValue \/ ClearMap \/ DropMap

Inner ==
  \/ Insert \/ InsertCase1 \/ InsertCase2 \/ InsertCase3 \/ InsertCase4 \/ InsertCase5
  \/ DeleteNode \/ DeleteTheOnlyChild \/ Unlink
  \/ DeleteCase1 \/ DeleteCase2 \/ DeleteCase3 \/ DeleteCase4 \/ DeleteCase5 \/ DeleteCase6
  \/ SetTreeRoot

Next == Begin \/ Interface \/ Inner

Spec == Init /\ [][Next]_vars
-----------------------------------------------------------------------------
Steps == {"idle", "insert", "insert_case1", "insert_case2", "insert_case3", "insert_case4",
          "insert_case5", "deleteNode", "deleteTheOnlyChild", "unlink", "delete_case1",
          "delete_case2", "delete_case3", "delete_case4", "delete_case5", "delete_case6",
          "setTreeRoot"}
Requests == {"createMap", "addItem", "deleteItem", "setValue", "clearMap", "deleteMap"}
Calls == [op : Requests \cup Results, key : Key \cup {0}, value : Value \cup {0}]

(* The part of the types that is about the tree. *)
TreeTyped ==
  /\ map \in BOOLEAN
  /\ live \subseteq Nodes
  /\ root \in Refs /\ (pc = "idle" => root \in live \cup {null})
  /\ heap \in [Nodes -> [parent : Refs, left : Refs, right : Refs, color : {"red", "black"},
                         key : Key \cup {0}, value : Value \cup {0}]]
  /\ pc \in Steps /\ node \in Refs
  /\ tmp \in live \cup {null} /\ M \in Refs

(* Every variable has its type; what findTop() starts from, and between two  *)
(* calls the root, was not freed.                                            *)
(* RBTree.c, helper.c, all functions.                                        *)
TypeOK == TreeTyped /\ call \in Calls /\ todo \in Seq(Items)

HasGrandparent(n) == Parent(n) # null /\ Grandparent(n) # null
HasBrother(n) == Parent(n) # null /\ Brother(n) # null

(* No function follows a null pointer, though few of them look: a red node has *)
(* a grandparent, a black one a brother, whose outer child is there at the end *)
(* of the case distinction; what findMax() returns is a leaf.  No pointer is   *)
(* left to a node that was freed.  helper.c:159-172, 208-247, 374, 410-447,    *)
(* 501-515.                                                                    *)
NoNullAccess ==
  /\ \A n \in live : {heap[n].parent, heap[n].left, heap[n].right} \subseteq live \cup {null}
  /\ pc = "insert_case2" => Parent(node) # null
  /\ pc \in {"insert_case3", "insert_case4", "insert_case5"} => HasGrandparent(node)
  /\ pc = "deleteTheOnlyChild" =>
       \/ Leaf(node)
       \/ heap[node].left = null /\ heap[node].right # null /\ Parent(node) # null
  /\ pc \in {"delete_case2", "delete_case3", "delete_case4", "delete_case5", "delete_case6"} =>
       HasBrother(node)
  /\ pc = "delete_case6" => heap[Brother(node)][Other(SideOf(node))] # null

(* The black nodes on the ways down from n, of each way. *)
BlackHeights(n) ==
  LET heights[m \in Refs] ==
        IF m = null THEN {0}
        ELSE {IF Color(m) = "black" THEN x + 1 ELSE x :
                x \in heights[heap[m].left] \cup heights[heap[m].right]}
  IN heights[n]

(* Between two calls the map is a red-black search tree with right parent      *)
(* pointers that holds all nodes there are.                                    *)
WellFormed ==
  pc = "idle" =>
    /\ live = Under(root)
    /\ root # null => Color(root) = "black" /\ Parent(root) = null
    /\ \A n \in live :
         /\ \A side \in Child : heap[n][side] # null =>
              /\ Parent(heap[n][side]) = n
              /\ Color(n) = "red" => Color(heap[n][side]) = "black"
         /\ \A m \in Under(heap[n].left) : heap[m].key < heap[n].key
         /\ \A m \in Under(heap[n].right) : heap[m].key > heap[n].key
    /\ Cardinality(BlackHeights(root)) = 1

(* The interface implements a dictionary: some step of each call changes the    *)
(* content of the map, seen as a set of items, as this call with these          *)
(* arguments should, gives the result it should, and no other step changes it.  *)
(* An item that is being deleted is gone once no node has its key.              *)
Content == [k \in {heap[n].key : n \in live} |->
              heap[CHOOSE n \in live : heap[n].key = k].value]
HasKey(k) == \E n \in live : heap[n].key = k
Effective == /\ pc # "idle" /\ todo = <<>>
             /\ call.op = "deleteItem" => ~HasKey(call.key)
Outcome == IF Effective THEN Returned("SUCCESS") ELSE call
Dict == INSTANCE Dictionary WITH exists <- map, dict <- Content, call <- Outcome
IsDictionary == Dict!DictSpec

(* Every call returns: the imbalance that insert_case1 and delete_case1 hand   *)
(* up the tree comes to an end.                                                *)
CallsReturn == call.op \in Requests ~> call.op \in Results
=============================================================================
