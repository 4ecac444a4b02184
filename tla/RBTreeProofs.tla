---------------------------- MODULE RBTreeProofs ----------------------------
(***************************************************************************)
(* Projects/Container: what RBTree promises holds for all keys, values and *)
(* numbers of nodes.  The inductive invariant is in RBTreeInv.  First come *)
(* the trees, then the actions, then the properties, and at the end the    *)
(* dictionary that the interface implements.                               *)
(***************************************************************************)
EXTENDS RBTreeInv, FiniteSetTheorems, TLAPS

-----------------------------------------------------------------------------
(***************************************************************************)
(* Sets of numbers, recursion, and trees.                                  *)
(***************************************************************************)

(* A set with 0 and the successor of each of its numbers has every number. *)
LEMMA Induction ==
  ASSUME NEW S, 0 \in S, \A n \in Nat : n \in S => n + 1 \in S
  PROVE  Nat \subseteq S
<1> SUFFICES ASSUME NEW n \in Nat, n \notin S PROVE FALSE  OBVIOUS
<1> DEFINE D == (0 .. n) \cap S
           f == [x \in D |-> x + 1]
<1>1. IsFiniteSet(D) /\ IsFiniteSet(D \ {0}) /\ Cardinality(D \ {0}) = Cardinality(D) - 1
      /\ Cardinality(D) \in Nat
  <2>1. IsFiniteSet(0 .. n)  BY FS_Interval
  <2>2. IsFiniteSet(D)  BY <2>1, FS_Intersection, Zenon
  <2>3. 0 \in D  OBVIOUS
  <2> HIDE DEF D
  <2> QED  BY <2>2, <2>3, FS_RemoveElement, FS_CardinalityType
<1>2. f \in Injection(D, D \ {0})
  <2>1. f \in [D -> D \ {0}]  OBVIOUS
  <2>2. \A x, y \in D : f[x] = f[y] => x = y  OBVIOUS
  <2> HIDE DEF f
  <2> QED  BY <2>1, <2>2 DEF Injection, IsInjective
<1> HIDE DEF f, D
<1>3. Cardinality(D) <= Cardinality(D \ {0})  BY <1>1, <1>2, FS_Injection, Zenon
<1> QED  BY <1>1, <1>3

(* f[x] comes from f[l[x]] and f[r[x]], which are of lower rank, unless x is a base. *)
Solves(f, D, S, B, b, G, l, r) ==
  f \in [D -> S] /\ \A x \in D : f[x] = IF x \in B THEN b[x] ELSE G[x][f[l[x]]][f[r[x]]]
Ranked(D, B, l, r, rk, K) ==
  /\ K \in Nat /\ rk \in [D -> Nat] /\ \A x \in D : rk[x] < K
  /\ \A x \in D \ B : l[x] \in D /\ r[x] \in D /\ rk[l[x]] < rk[x] /\ rk[r[x]] < rk[x]
Combines(b, G, D, S) == b \in [D -> S] /\ G \in [D -> [S -> [S -> S]]]

(* A recursive function that goes down to lower ranks exists.  (The recursive  *)
(* operators of the model are CHOOSEn: without this nothing is known of them.) *)
LEMMA TreeRecursion ==
  ASSUME NEW D, NEW S, NEW B, NEW b, NEW G, NEW l, NEW r, NEW rk, NEW K,
         Ranked(D, B, l, r, rk, K), Combines(b, G, D, S)
  PROVE  \E f : Solves(f, D, S, B, b, G, l, r)
<1> DEFINE Step(f, x) == IF x \in B THEN b[x] ELSE G[x][f[l[x]]][f[r[x]]]
           Good(f, k) == f \in [D -> S] /\ \A x \in D : rk[x] < k => f[x] = Step(f, x)
           T == {k \in Nat : \E f : Good(f, k)}
<1>0. /\ K \in Nat /\ rk \in [D -> Nat] /\ \A x \in D : rk[x] < K
      /\ b \in [D -> S] /\ G \in [D -> [S -> [S -> S]]]
      /\ \A x \in D : x \notin B => l[x] \in D /\ r[x] \in D /\ rk[l[x]] < rk[x] /\ rk[r[x]] < rk[x]
      BY DEF Ranked, Combines
<1>1. 0 \in T
  <2>1. Good(b, 0)  BY <1>0
  <2> HIDE DEF Good
  <2> QED  BY <2>1
<1>2. \A k \in Nat : k \in T => k + 1 \in T
  <2> SUFFICES ASSUME NEW k \in Nat, NEW f, Good(f, k) PROVE \E g : Good(g, k + 1)  OBVIOUS
  <2> DEFINE g == [x \in D |-> Step(f, x)]
  <2>1. \A x \in D : Step(f, x) \in S
    <3> TAKE x \in D
    <3>1. CASE x \in B  BY <1>0, <3>1
    <3>2. CASE x \notin B
      <4>1. f[l[x]] \in S /\ f[r[x]] \in S  BY <1>0, <3>2
      <4>2. G[x] \in [S -> [S -> S]]  BY <1>0
      <4>3. G[x][f[l[x]]][f[r[x]]] \in S  BY <4>1, <4>2
      <4> QED  BY <3>2, <4>3
    <3> QED  BY <3>1, <3>2
  <2>2. ASSUME NEW x \in D, rk[x] < k + 1 PROVE g[x] = Step(g, x)
    <3>1. g[x] = Step(f, x)  OBVIOUS
    <3>2. CASE x \in B  BY Zenon, <3>1, <3>2
    <3>3. CASE x \notin B
      <4>1. l[x] \in D /\ r[x] \in D /\ rk[l[x]] < k /\ rk[r[x]] < k  BY <1>0, <2>2, <3>3
      <4>2. f[l[x]] = g[l[x]] /\ f[r[x]] = g[r[x]]
        <5> HIDE DEF Step
        <5> QED  BY <4>1
      <4> HIDE DEF g
      <4> QED  BY <3>1, <3>3, <4>2
    <3> QED  BY Zenon, <3>2, <3>3
  <2>3. g \in [D -> S]  BY <2>1
  <2>4. Good(g, k + 1)
    <3> HIDE DEF g, Step
    <3> QED  BY <2>2, <2>3
  <2> QED  BY Zenon, <2>4
<1>3. K \in T
  <2> HIDE DEF T
  <2> QED  BY <1>0, <1>1, <1>2, Induction
<1>4. PICK f : Good(f, K)  BY <1>3
<1> QED  BY Zenon, <1>0, <1>4 DEF Solves

(* left and right are the two sides of a node. *)
LEMMA Sides ==
  \A s \in Child : Other(s) \in Child /\ Other(Other(s)) = s /\ Other(s) # s
                 /\ \A t \in Child : t = s \/ t = Other(s)
BY DEF Child, Other

(* No node is at the null address. *)
LEMMA NullNoNode == null \notin Nodes
BY NodesAssumption DEF null

(* What Shape says of one node. *)
LEMMA ShapeAt ==
  ASSUME NEW h, NEW L, NEW top, NEW U, Shape(h, L, top, U), NEW n \in L, NEW s \in Child
  PROVE  /\ h[n][s] \in L \cup {null} /\ n \in Nodes /\ n # null
         /\ U[n] \subseteq L /\ U[h[n][s]] \subseteq L
         /\ U[n] = {n} \cup U[h[n][s]] \cup U[h[n][Other(s)]]
         /\ n \notin U[h[n][s]] /\ U[h[n][s]] \cap U[h[n][Other(s)]] = {}
         /\ h[n][s] # null => h[h[n][s]].parent = n
         /\ n \in U[n]
BY NullNoNode DEF Shape

(* A node is a node of its subtree. *)
LEMMA Self ==
  ASSUME NEW h, NEW L, NEW top, NEW U, Shape(h, L, top, U), NEW n \in L
  PROVE  n \in Nodes /\ n # null /\ n \in U[n] /\ U[n] \subseteq L
<1>1. "left" \in Child  BY DEF Child
<1> QED  BY <1>1, ShapeAt

(* The subtrees of the children are smaller than that of the node. *)
LEMMA Sizes ==
  ASSUME NEW h, NEW L, NEW top, NEW U, Shape(h, L, top, U)
  PROVE  /\ \A n \in L \cup {null} : Cardinality(U[n]) \in 0 .. Cardinality(L)
         /\ \A n \in L, s \in Child : Cardinality(U[h[n][s]]) < Cardinality(U[n])
         /\ Cardinality(L) \in Nat
<1>1. IsFiniteSet(L) /\ U \in [L \cup {null} -> SUBSET L]  BY DEF Shape
<1>2. Cardinality(L) \in Nat  BY <1>1, FS_CardinalityType
<1>3. ASSUME NEW n \in L \cup {null}
      PROVE  IsFiniteSet(U[n]) /\ Cardinality(U[n]) \in 0 .. Cardinality(L)
  <2>1. U[n] \in SUBSET L  BY <1>1
  <2>2. IsFiniteSet(U[n]) /\ Cardinality(U[n]) <= Cardinality(L)  BY <1>1, <2>1, FS_Subset
  <2>3. Cardinality(U[n]) \in Nat  BY <2>2, FS_CardinalityType
  <2> QED  BY <1>2, <2>2, <2>3
<1>4. ASSUME NEW n \in L, NEW s \in Child PROVE Cardinality(U[h[n][s]]) < Cardinality(U[n])
  <2>1. U[h[n][s]] \in SUBSET U[n] /\ U[h[n][s]] # U[n] /\ h[n][s] \in L \cup {null}
        BY ShapeAt
  <2>2. IsFiniteSet(U[n]) /\ Cardinality(U[n]) \in Nat /\ Cardinality(U[h[n][s]]) \in Nat
        BY <1>2, <1>3, <2>1
  <2>3. /\ Cardinality(U[h[n][s]]) <= Cardinality(U[n])
        /\ Cardinality(U[n]) = Cardinality(U[h[n][s]]) => U[n] = U[h[n][s]]
        BY <2>1, <2>2, FS_Subset
  <2> QED  BY <2>1, <2>2, <2>3
<1> QED  BY <1>2, <1>3, <1>4

(* A set that has null, and every node whose children it has, has them all. *)
LEMMA TreeInduction ==
  ASSUME NEW h, NEW L, NEW top, NEW U, Shape(h, L, top, U), NEW P, null \in P,
         \A n \in L : (\A s \in Child : h[n][s] \in P) => n \in P
  PROVE  L \subseteq P
<1> DEFINE size(n) == Cardinality(U[n])
           T == {k \in Nat : \A n \in L : size(n) < k => n \in P}
<1>1. /\ \A n \in L \cup {null} : size(n) \in Nat
      /\ \A n \in L, s \in Child : size(h[n][s]) < size(n)
      /\ \A n \in L, s \in Child : h[n][s] \in L \cup {null}
      BY Sizes, ShapeAt
<1> HIDE DEF size
<1>2. 0 \in T  BY <1>1
<1>3. \A k \in Nat : k \in T => k + 1 \in T
  <2> SUFFICES ASSUME NEW k \in Nat, k \in T, NEW n \in L, size(n) < k + 1 PROVE n \in P  OBVIOUS
  <2>1. ASSUME NEW s \in Child PROVE h[n][s] \in P
    <3>1. h[n][s] \in L \cup {null} /\ size(h[n][s]) < k  BY <1>1
    <3> QED  BY <3>1
  <2> QED  BY <2>1
<1>4. Nat \subseteq T
  <2> HIDE DEF T
  <2> QED  BY <1>2, <1>3, Induction
<1> SUFFICES ASSUME NEW n \in L PROVE n \in P  OBVIOUS
<1>5. size(n) + 1 \in T /\ size(n) < size(n) + 1  BY <1>1, <1>4
<1> QED  BY <1>5

(* What is below a node has what it has below it there, too. *)
LEMMA Transitive ==
  ASSUME NEW h, NEW L, NEW top, NEW U, Shape(h, L, top, U), NEW n \in L \cup {null}, NEW a \in U[n]
  PROVE  a \in L /\ U[a] \subseteq U[n]
<1> DEFINE P == {m \in L \cup {null} : \A x \in U[m] : U[x] \subseteq U[m]}
<1>1. null \in P  BY DEF Shape
<1>2. ASSUME NEW m \in L, \A s \in Child : h[m][s] \in P PROVE m \in P
  <2>1. "left" \in Child /\ Other("left") \in Child  BY DEF Child, Other
  <2>2. U[m] = {m} \cup U[h[m]["left"]] \cup U[h[m][Other("left")]]  BY <2>1, ShapeAt
  <2>3. h[m]["left"] \in P /\ h[m][Other("left")] \in P  BY <1>2, <2>1
  <2> QED  BY <2>2, <2>3
<1>3. L \subseteq P
  <2> HIDE DEF P
  <2> QED  BY <1>1, <1>2, TreeInduction
<1> QED  BY <1>1, <1>3 DEF Shape

(* No node is below one that is below it. *)
LEMMA NotAbove ==
  ASSUME NEW h, NEW L, NEW top, NEW U, Shape(h, L, top, U), NEW n \in L, NEW s \in Child,
         NEW a \in U[h[n][s]]
  PROVE  n \notin U[a] /\ a # n /\ a \in U[n] /\ a \in L
<1>1. h[n][s] \in L \cup {null} /\ n \notin U[h[n][s]] /\ U[h[n][s]] \subseteq U[n]  BY ShapeAt
<1>2. a \in L /\ U[a] \subseteq U[h[n][s]]  BY <1>1, Transitive
<1> QED  BY <1>1, <1>2

(* Keys in order are different. *)
LEMMA KeysDiffer ==
  ASSUME NEW h, NEW L, NEW top, NEW U, Shape(h, L, top, U), NEW X, Sorted(h, L, U, X),
         \A n \in L : h[n].key \in Int,
         X \in L => \E s \in Child : h[X][s] = null,
         NEW a \in L \ {X}, NEW b \in L \ {X}, a # b
  PROVE  h[a].key # h[b].key
<1> DEFINE P == {m \in L \cup {null} :
                   \A x, y \in U[m] : x # X /\ y # X /\ x # y => h[x].key # h[y].key}
<1>1. null \in P  BY DEF Shape
<1>2. ASSUME NEW m \in L, \A s \in Child : h[m][s] \in P PROVE m \in P
  <2> SUFFICES ASSUME NEW x \in U[m], NEW y \in U[m], x # X, y # X, x # y
               PROVE  h[x].key # h[y].key
      OBVIOUS
  <2>1. PICK s \in Child : x = m \/ x \in U[h[m][s]]
    <3>1. "left" \in Child /\ Other("left") \in Child  BY DEF Child, Other
    <3>2. U[m] = {m} \cup U[h[m]["left"]] \cup U[h[m][Other("left")]]  BY <3>1, ShapeAt
    <3> QED  BY <3>1, <3>2
  <2>2. PICK t \in Child : y = m \/ y \in U[h[m][t]]
    <3>1. "left" \in Child /\ Other("left") \in Child  BY DEF Child, Other
    <3>2. U[m] = {m} \cup U[h[m]["left"]] \cup U[h[m][Other("left")]]  BY <3>1, ShapeAt
    <3> QED  BY <3>1, <3>2
  <2>3. x \in L /\ y \in L  BY ShapeAt, <2>1, <2>2
  <2>4. \A z \in U[h[m][s]] : z # X /\ m # X => Lesser(s, h[z].key, h[m].key)  BY DEF Sorted
  <2>5. \A z \in U[h[m][t]] : z # X /\ m # X => Lesser(t, h[z].key, h[m].key)  BY DEF Sorted
  <2>6. CASE x = m  BY <2>2, <2>3, <2>5, <2>6 DEF Lesser
  <2>7. CASE y = m  BY <2>1, <2>3, <2>4, <2>7 DEF Lesser
  <2>8. CASE x \in U[h[m][s]] /\ y \in U[h[m][t]] /\ s = t
    <3>1. h[m][s] \in P  BY <1>2
    <3> QED  BY <2>8, <3>1
  <2>9. CASE x \in U[h[m][s]] /\ y \in U[h[m][t]] /\ s # t
    <3>1. m # X
      <4> SUFFICES ASSUME m = X PROVE FALSE  OBVIOUS
      <4>1. PICK e \in Child : h[X][e] = null  BY m \in L
      <4>2. U[null] = {}  BY DEF Shape
      <4>3. e = s \/ e = t  BY <2>9, Sides
      <4> QED  BY <2>9, <4>1, <4>2, <4>3
    <3>2. {s, t} = {"left", "right"}  BY <2>9 DEF Child
    <3> QED  BY <2>3, <2>4, <2>5, <2>9, <3>1, <3>2 DEF Lesser
  <2> QED  BY <2>1, <2>2, <2>6, <2>7, <2>8, <2>9
<1>3. L \subseteq P
  <2> HIDE DEF P
  <2> QED  BY <1>1, <1>2, TreeInduction
<1>4. top \in P /\ U[top] = L  BY <1>1, <1>3 DEF Shape
<1> QED  BY <1>4

-----------------------------------------------------------------------------
(***************************************************************************)
(* What the searches find.                                                 *)
(***************************************************************************)

(* Nothing hangs on the nodes that are not in L. *)
Outside(h, L) ==
  \A m \in Nodes \ L : h[m].parent = null /\ \A s \in Child : h[m][s] = null

(* f[x] is b[x] for a base, and else what it is one step of l further. *)
Walks(f, D, S, B, b, l) ==
  f \in [D -> S] /\ \A x \in D : f[x] = IF x \in B THEN b[x] ELSE f[l[x]]

(* A search that goes on from node to node exists if the ranks go down. *)
LEMMA WalkExists ==
  ASSUME NEW D, NEW S, NEW B, NEW b \in [D -> S], NEW l, NEW rk, NEW K, Ranked(D, B, l, l, rk, K)
  PROVE  \E f : Walks(f, D, S, B, b, l)
<1> DEFINE G == [m \in D |-> [x \in S |-> [y \in S |-> x]]]
<1>1. Combines(b, G, D, S)  BY DEF Combines
<1>2. \A m \in D, x \in S, y \in S : G[m][x][y] = x  OBVIOUS
<1> HIDE DEF G
<1>3. PICK f : Solves(f, D, S, B, b, G, l, l)  BY <1>1, TreeRecursion
<1>4. ASSUME NEW x \in D, x \notin B PROVE f[l[x]] \in S
  <2>1. l[x] \in D  BY <1>4 DEF Ranked
  <2> QED  BY <1>3, <2>1 DEF Solves
<1>5. \A x \in D : f[x] = IF x \in B THEN b[x] ELSE f[l[x]]
  BY <1>2, <1>3, <1>4 DEF Solves
<1> QED  BY <1>3, <1>5 DEF Solves, Walks

Downward(h, D, B, l) ==
  \A m \in D \ B : m # null /\ l[m] \in D /\ \E s \in Child : l[m] = h[m][s]

(* Ways down end. *)
LEMMA GoesDown ==
  ASSUME NEW h, NEW L, NEW top, NEW U, Shape(h, L, top, U), Outside(h, L),
         NEW D \in SUBSET Refs, NEW B, NEW l, NEW r, Downward(h, D, B, l), Downward(h, D, B, r)
  PROVE  \E rk, K : Ranked(D, B, l, r, rk, K)
<1> DEFINE rk == [m \in D |-> IF m \in L THEN Cardinality(U[m]) ELSE IF m = null THEN 0 ELSE 1]
           K == Cardinality(L) + 2
<1>1. /\ \A n \in L \cup {null} : Cardinality(U[n]) \in 0 .. Cardinality(L)
      /\ \A n \in L, s \in Child : Cardinality(U[h[n][s]]) < Cardinality(U[n])
      /\ Cardinality(L) \in Nat
      BY Sizes
<1>2. /\ K \in Nat /\ rk \in [D -> Nat] /\ \A x \in D : rk[x] < K
  <2>1. K \in Nat  BY <1>1
  <2>2. \A x \in D : rk[x] \in Nat /\ rk[x] < K  BY <1>1
  <2> QED  BY <2>1, <2>2
<1>3. ASSUME NEW m \in D \ B, NEW s \in Child, h[m][s] \in D, m # null
      PROVE  rk[h[m][s]] < rk[m]
  <2>1. CASE m \in L
    <3>1. /\ h[m][s] \in L \cup {null} /\ Cardinality(U[h[m][s]]) < Cardinality(U[m])
          /\ Cardinality(U[m]) \in Nat /\ Cardinality(U[h[m][s]]) \in Nat
          BY <1>1, <2>1, ShapeAt
    <3>2. rk[m] = Cardinality(U[m])  BY <2>1
    <3>3. rk[h[m][s]] \in {0, Cardinality(U[h[m][s]])}  BY <1>3, <3>1
    <3> QED  BY <3>1, <3>2, <3>3
  <2>2. CASE m \notin L
    <3>1. m \in Nodes \ L  BY <1>3, <2>2 DEF Refs
    <3>2. h[m][s] = null  BY <3>1 DEF Outside
    <3>3. null \notin L  BY NullNoNode DEF Shape
    <3> QED  BY <1>3, <2>2, <3>2, <3>3
  <2> QED  BY <2>1, <2>2
<1> HIDE DEF rk, K
<1>4. \A x \in D \ B : l[x] \in D /\ r[x] \in D /\ rk[l[x]] < rk[x] /\ rk[r[x]] < rk[x]
  BY <1>3 DEF Downward
<1> QED  BY <1>2, <1>4 DEF Ranked

(* A search down the tree exists: findItem, findParent, findMin, findMax. *)
LEMMA WalkDown ==
  ASSUME NEW h, NEW L, NEW top, NEW U, Shape(h, L, top, U), Outside(h, L),
         NEW D \in SUBSET Refs, NEW B, NEW l, Downward(h, D, B, l), NEW S, NEW b \in [D -> S]
  PROVE  \E f : Walks(f, D, S, B, b, l)
<1>1. PICK rk, K : Ranked(D, B, l, l, rk, K)  BY GoesDown
<1> QED  BY <1>1, WalkExists

(* findItem() finds the key, or null if it is not in the tree. *)
Finds(h, L, k, n) ==
  IF n = null THEN \A a \in L : h[a].key # k ELSE n \in L /\ h[n].key = k

(* findItem() in a search tree: the node of the key, or null if there is none. *)
LEMMA FindItemFinds ==
  ASSUME NEW L, NEW U, Shape(heap, L, root, U), Outside(heap, L), Sorted(heap, L, U, null),
         \A n \in L : heap[n].key \in Int, NEW k \in Int,
         \A n \in Nodes, s \in Child : heap[n][s] \in Refs
  PROVE  Finds(heap, L, k, FindItem(k))
<1> DEFINE D == Refs
           B == {n \in Refs : n = null \/ heap[n].key = k}
           b == [n \in Refs |-> n]
           l == [n \in Refs |-> IF heap[n].key > k THEN heap[n].left ELSE heap[n].right]
           P(f) == f = [n \in Refs |-> IF n = null \/ heap[n].key = k THEN n
                          ELSE f[IF heap[n].key > k THEN heap[n].left ELSE heap[n].right]]
           find == CHOOSE f : P(f)
<1>1. D \in SUBSET Refs /\ b \in [D -> Refs] /\ Downward(heap, D, B, l)
  BY DEF Downward, Child, Refs
<1>2. /\ \A n \in Refs : n \in B <=> n = null \/ heap[n].key = k
      /\ \A n \in Refs : b[n] = n
      /\ \A n \in Refs : l[n] = IF heap[n].key > k THEN heap[n].left ELSE heap[n].right
      OBVIOUS
<1>3. PICK f : Walks(f, D, Refs, B, b, l)
  <2> HIDE DEF D, B, b, l
  <2> QED  BY <1>1, WalkDown
<1>4. P(f)
  <2>1. f \in [Refs -> Refs] /\ \A n \in Refs : f[n] = IF n \in B THEN b[n] ELSE f[l[n]]
        BY <1>3 DEF Walks
  <2> HIDE DEF B, b, l
  <2> QED  BY <1>2, <2>1
<1>5. P(find)  BY <1>4, Zenon
<1>6. FindItem(k) = find[root]  BY DEF FindItem
<1> HIDE DEF find
<1> DEFINE Q == {m \in L \cup {null} : Finds(heap, U[m], k, find[m])}
<1>7. null \in Refs /\ L \subseteq Refs /\ find[null] = null  BY <1>5 DEF Refs, Shape
<1>8. null \in Q  BY <1>7 DEF Shape, Finds
<1>9. ASSUME NEW m \in L, \A s \in Child : heap[m][s] \in Q PROVE m \in Q
  <2>1. m \in Refs /\ m # null  BY <1>7, Self
  <2>2. m \in U[m]  BY Self
  <2>3. CASE heap[m].key = k
    <3>1. find[m] = m  BY <1>5, <2>1, <2>3
    <3> QED  BY <2>1, <2>2, <2>3, <3>1 DEF Finds
  <2>4. CASE heap[m].key # k
    <3>1. PICK s \in Child : find[m] = find[heap[m][s]] /\ Lesser(s, k, heap[m].key)
      <4>1. CASE heap[m].key > k
        <5>1. find[m] = find[heap[m]["left"]]  BY <1>5, <2>1, <2>4, <4>1
        <5> QED  BY <4>1, <5>1 DEF Child, Lesser
      <4>2. CASE ~(heap[m].key > k)
        <5>1. find[m] = find[heap[m]["right"]]  BY <1>5, <2>1, <2>4, <4>2
        <5> QED  BY <4>2, <5>1, <2>4 DEF Child, Lesser
      <4> QED  BY <4>1, <4>2
    <3>2. Finds(heap, U[heap[m][s]], k, find[m])  BY <1>9, <3>1
    <3>3. U[m] = {m} \cup U[heap[m][s]] \cup U[heap[m][Other(s)]] /\ Other(s) \in Child  BY ShapeAt, Sides
    <3>4. \A a \in U[heap[m][Other(s)]] : heap[a].key # k
      <4> TAKE a \in U[heap[m][Other(s)]]
      <4>1. a \in L  BY <3>3, NotAbove
      <4>2. Lesser(Other(s), heap[a].key, heap[m].key)
        <5>1. a # null /\ m # null  BY <2>1, <4>1, Self
        <5> QED  BY <3>3, <5>1 DEF Sorted
      <4> QED  BY <3>1, <4>1, <4>2 DEF Lesser, Other, Child
    <3> QED  BY <2>4, <3>2, <3>3, <3>4 DEF Finds
  <2> QED  BY <2>3, <2>4
<1>10. L \subseteq Q
  <2> HIDE DEF Q
  <2> QED  BY <1>8, <1>9, TreeInduction
<1>11. root \in Q /\ U[root] = L  BY <1>8, <1>10 DEF Shape
<1> QED  BY <1>6, <1>11

(* The sides of two keys. *)
LEMMA Compare ==
  ASSUME NEW s \in Child, NEW a \in Int, NEW b \in Int
  PROVE  /\ Lesser(Other(s), a, b) <=> Lesser(s, b, a)
         /\ ~(Lesser(s, a, b) /\ Lesser(s, b, a))
         /\ Lesser(s, a, b) => a # b
         /\ \A c \in Int : Lesser(s, a, b) /\ Lesser(s, b, c) => Lesser(s, a, c)
BY DEF Lesser, Other, Child

(* findParent() finds a node with a free place where the key belongs. *)
Place(h, U, k, n, p) ==
  /\ p \in U[n] /\ h[p][IF h[p].key > k THEN "left" ELSE "right"] = null
  /\ \A a \in U[n], s \in Child : p \in U[h[a][s]] => Lesser(s, k, h[a].key)

(* findParent() finds the place of a new key: the child is free, and the key is *)
(* on the right side of all that is above.                                      *)
LEMMA FindParentFits ==
  ASSUME NEW L, NEW U, Shape(heap, L, root, U), Outside(heap, L),
         \A n \in L : heap[n].key \in Int, NEW k \in Int, \A n \in L : heap[n].key # k,
         \A n \in Nodes, s \in Child : heap[n][s] \in Refs
  PROVE  IF root = null THEN FindParent(k) = null ELSE Place(heap, U, k, root, FindParent(k))
<1>0. CASE root = null  BY <1>0 DEF FindParent
<1> SUFFICES ASSUME root # null PROVE Place(heap, U, k, root, FindParent(k))  BY <1>0
<1> DEFINE l == [n \in Nodes |-> IF heap[n].key > k THEN heap[n].left ELSE heap[n].right]
           D == Nodes
           B == {n \in Nodes : l[n] = null}
           b == [n \in Nodes |-> n]
           P(f) == f = [n \in Nodes |->
                          LET next == IF heap[n].key > k THEN heap[n].left ELSE heap[n].right
                          IN IF next = null THEN n ELSE f[next]]
           find == CHOOSE f : P(f)
<1>1. D \in SUBSET Refs /\ b \in [D -> Nodes] /\ Downward(heap, D, B, l)
  <2>1. \A n \in Nodes : l[n] \in Refs /\ \E s \in Child : l[n] = heap[n][s]  BY DEF Child
  <2> HIDE DEF l
  <2> QED  BY <2>1, NullNoNode DEF Downward, Refs
<1>2. /\ \A n \in Nodes : n \in B <=> l[n] = null
      /\ \A n \in Nodes : b[n] = n
      /\ \A n \in Nodes : l[n] = IF heap[n].key > k THEN heap[n].left ELSE heap[n].right
      OBVIOUS
<1>3. PICK f : Walks(f, D, Nodes, B, b, l)
  <2> HIDE DEF D, B, b, l
  <2> QED  BY <1>1, WalkDown
<1>4. P(f)
  <2>1. f \in [Nodes -> Nodes] /\ \A n \in Nodes : f[n] = IF n \in B THEN b[n] ELSE f[l[n]]
        BY <1>3 DEF Walks
  <2> HIDE DEF B, b, l
  <2> QED  BY <1>2, <2>1
<1>5. P(find)  BY <1>4, Zenon
<1>6. FindParent(k) = find[root]  BY DEF FindParent
<1> HIDE DEF find, l, D, B, b
<1> DEFINE Q == {m \in L \cup {null} : m # null => Place(heap, U, k, m, find[m])}
<1>8. null \in Q  OBVIOUS
<1>9. ASSUME NEW m \in L, \A s \in Child : heap[m][s] \in Q PROVE m \in Q
  <2>1. m \in Nodes /\ m # null /\ m \in U[m] /\ U[m] \subseteq L  BY Self
  <2> DEFINE s == IF heap[m].key > k THEN "left" ELSE "right"
             c == heap[m][s]
  <2>2. s \in Child /\ Other(s) \in Child /\ Lesser(s, k, heap[m].key)  BY DEF Child, Lesser, Other
  <2>3. find[m] = IF c = null THEN m ELSE find[c]
    <3>1. c = IF heap[m].key > k THEN heap[m].left ELSE heap[m].right  OBVIOUS
    <3> HIDE DEF c, s
    <3> QED  BY <1>5, <2>1, <3>1
  <2>4. CASE c = null
    <3>1. ASSUME NEW a \in U[m], NEW t \in Child PROVE m \notin U[heap[a][t]]
      <4>1. a \in L  BY <2>1
      <4>2. SUFFICES ASSUME m \in U[heap[a][t]] PROVE FALSE  OBVIOUS
      <4> QED  BY <4>1, <4>2, <3>1, NotAbove
    <3> HIDE DEF c
    <3>2. heap[m][s] = null  BY <2>4 DEF c
    <3> QED  BY <2>1, <2>3, <2>4, <3>1, <3>2 DEF Place
  <2>5. CASE c # null
    <3>1. c \in L /\ U[c] \subseteq U[m] /\ U[m] = {m} \cup U[c] \cup U[heap[m][Other(s)]]
          /\ U[c] \cap U[heap[m][Other(s)]] = {}
      <4> HIDE DEF s
      <4> QED  BY <2>2, <2>5, ShapeAt
    <3>2. Place(heap, U, k, c, find[c])  BY <1>9, <2>2, <2>5
    <3>3. find[c] \in U[m] /\ find[c] \in U[c]  BY <3>1, <3>2 DEF Place
    <3>4. ASSUME NEW a \in U[m], NEW t \in Child, find[c] \in U[heap[a][t]]
          PROVE  Lesser(t, k, heap[a].key)
      <4>1. CASE a = m
        <5>1. t = s \/ t = Other(s)  BY <2>2, Sides
        <5> HIDE DEF s
        <5>2. t = s  BY <3>1, <3>3, <3>4, <4>1, <5>1
        <5> QED  BY <2>2, <4>1, <5>2
      <4>2. CASE a \in U[c]  BY <3>2, <3>4, <4>2 DEF Place
      <4>3. CASE a \in U[heap[m][Other(s)]]
        <5>1. heap[m][Other(s)] \in L \cup {null}  BY <2>2, ShapeAt
        <5>2. a \in L /\ U[a] \subseteq U[heap[m][Other(s)]]  BY <4>3, <5>1, Transitive
        <5>3. U[heap[a][t]] \subseteq U[a]  BY <5>2, ShapeAt
        <5> QED  BY <3>1, <3>3, <3>4, <5>2, <5>3
      <4> QED  BY <3>1, <4>1, <4>2, <4>3
    <3> HIDE DEF c, s
    <3> QED  BY <2>3, <2>5, <3>2, <3>3, <3>4 DEF Place
  <2> QED  BY <2>4, <2>5
<1>10. L \subseteq Q
  <2> HIDE DEF Q
  <2> QED  BY <1>8, <1>9, TreeInduction
<1>11. root \in Q  BY <1>8, <1>10 DEF Shape
<1> QED  BY <1>6, <1>11

(* findMin() and findMax() find the outermost node on their side. *)
Extreme(h, U, side, n, m) ==
  /\ m \in U[n] /\ h[m][side] = null
  /\ \A a \in U[n] : a # m => Lesser(side, h[m].key, h[a].key)

(* findMin() and findMax() end at a node without a child on that side, with the *)
(* smallest and the largest key of the subtree.                                 *)
LEMMA OutermostIsExtreme ==
  ASSUME NEW L, NEW top, NEW U, Shape(heap, L, top, U), Outside(heap, L),
         Sorted(heap, L, U, null), \A n \in L : heap[n].key \in Int,
         \A n \in Nodes, s \in Child : heap[n][s] \in Refs,
         NEW n \in L, NEW side \in Child
  PROVE  Extreme(heap, U, side, n, Outermost(n, side))
<1> DEFINE l == [m \in Nodes |-> heap[m][side]]
           D == Nodes
           B == {m \in Nodes : l[m] = null}
           b == [m \in Nodes |-> m]
           P(f) == f = [m \in Nodes |-> IF heap[m][side] = null THEN m ELSE f[heap[m][side]]]
           go == CHOOSE f : P(f)
<1>1. D \in SUBSET Refs /\ b \in [D -> Nodes] /\ Downward(heap, D, B, l)
  <2>1. \A m \in Nodes : l[m] \in Refs /\ l[m] = heap[m][side]  OBVIOUS
  <2> HIDE DEF l
  <2> QED  BY <2>1, NullNoNode DEF Downward, Refs
<1>2. /\ \A m \in Nodes : m \in B <=> heap[m][side] = null
      /\ \A m \in Nodes : b[m] = m /\ l[m] = heap[m][side]
      OBVIOUS
<1>3. PICK f : Walks(f, D, Nodes, B, b, l)
  <2> HIDE DEF D, B, b, l
  <2> QED  BY <1>1, WalkDown
<1>4. P(f)
  <2>1. f \in [Nodes -> Nodes] /\ \A m \in Nodes : f[m] = IF m \in B THEN b[m] ELSE f[l[m]]
        BY <1>3 DEF Walks
  <2> HIDE DEF B, b, l
  <2> QED  BY <1>2, <2>1
<1>5. P(go)  BY <1>4, Zenon
<1>6. Outermost(n, side) = go[n]  BY DEF Outermost
<1> HIDE DEF go, l, D, B, b
<1> DEFINE Q == {m \in L \cup {null} : m # null => Extreme(heap, U, side, m, go[m])}
<1>8. null \in Q  OBVIOUS
<1>9. ASSUME NEW m \in L, \A s \in Child : heap[m][s] \in Q PROVE m \in Q
  <2> DEFINE c == heap[m][side]
             o == Other(side)
  <2>1. m \in Nodes /\ m # null /\ m \in U[m] /\ U[m] \subseteq L  BY Self
  <2>2. o \in Child /\ U[m] = {m} \cup U[c] \cup U[heap[m][o]]  BY Sides, ShapeAt
  <2>3. go[m] = IF c = null THEN m ELSE go[c]  BY <1>5, <2>1
  <2>4. \A a \in U[heap[m][o]] : Lesser(side, heap[m].key, heap[a].key)
    <3> TAKE a \in U[heap[m][o]]
    <3>1. a \in L /\ a # null  BY <2>1, <2>2, Self
    <3>2. Lesser(o, heap[a].key, heap[m].key)  BY <2>1, <2>2, <3>1 DEF Sorted
    <3> QED  BY <3>1, <3>2, Compare
  <2>5. CASE c = null
    <3>1. U[c] = {}  BY <2>5 DEF Shape
    <3> QED  BY <2>1, <2>2, <2>3, <2>4, <2>5, <3>1 DEF Extreme
  <2>6. CASE c # null
    <3>1. Extreme(heap, U, side, c, go[c]) /\ c \in L  BY <1>9, <2>6, ShapeAt
    <3> DEFINE g == go[c]
    <3>2. g \in U[c] /\ g \in L /\ g # null /\ heap[g][side] = null /\ g \in U[m]
      <4>1. g \in U[c] /\ heap[g][side] = null  BY <3>1 DEF Extreme
      <4> QED  BY <2>1, <2>2, <4>1, Self
    <3>3. Lesser(side, heap[g].key, heap[m].key)  BY <2>1, <3>2 DEF Sorted
    <3>4. ASSUME NEW a \in U[m], a # g PROVE Lesser(side, heap[g].key, heap[a].key)
      <4>0. heap[g].key \in Int /\ heap[m].key \in Int /\ heap[a].key \in Int  BY <2>1, <3>2
      <4>1. CASE a \in U[c]  BY <3>1, <3>4, <4>1 DEF Extreme
      <4>2. CASE a = m  BY <3>3, <4>2
      <4>3. CASE a \in U[heap[m][o]]
        <5>1. Lesser(side, heap[m].key, heap[a].key)  BY <2>4, <4>3
        <5> QED  BY <3>3, <4>0, <5>1, Compare
      <4> QED  BY <2>2, <4>1, <4>2, <4>3
    <3> HIDE DEF g
    <3>5. go[m] = g  BY <2>3, <2>6 DEF g
    <3> QED  BY <3>2, <3>4, <3>5 DEF Extreme
  <2> QED  BY <2>5, <2>6
<1>10. L \subseteq Q
  <2> HIDE DEF Q
  <2> QED  BY <1>8, <1>9, TreeInduction
<1>11. n \in Q /\ n # null  BY <1>10, Self
<1> QED  BY <1>6, <1>11

(* findTop() finds the top of the tree. *)
LEMMA FindTopFinds ==
  ASSUME NEW h, NEW L, NEW top, NEW U, Shape(h, L, top, U), Outside(h, L),
         \A m \in Nodes : h[m].parent \in Refs
  PROVE  FindTop(h, null) = null /\ \A n \in L : FindTop(h, n) = top
<1> DEFINE D == Refs
           B == {m \in Refs : m = null \/ h[m].parent = null}
           b == [m \in Refs |-> m]
           l == [m \in Refs |-> h[m].parent]
           rk == [m \in Refs |-> IF m \in L THEN Cardinality(L) - Cardinality(U[m]) + 1 ELSE 0]
           K == Cardinality(L) + 2
           P(f) == f = [m \in Refs |-> IF m = null \/ h[m].parent = null THEN m ELSE f[h[m].parent]]
           up == CHOOSE f : P(f)
<1>1. b \in [D -> Refs]  OBVIOUS
<1>2. /\ \A m \in Refs : m \in B <=> m = null \/ h[m].parent = null
      /\ \A m \in Refs : b[m] = m
      /\ \A m \in Refs : l[m] = h[m].parent
      OBVIOUS
<1>3. /\ \A m \in L : Cardinality(U[m]) \in Nat /\ Cardinality(U[m]) <= Cardinality(L)
      /\ Cardinality(L) \in Nat
      BY Sizes
<1>4. L \subseteq Refs /\ null \notin L /\ \A m \in Refs : m = null \/ m \in Nodes
      BY NullNoNode DEF Shape, Refs
<1>5. ASSUME NEW m \in L, h[m].parent # null
      PROVE  /\ m # top /\ h[m].parent \in L
             /\ Cardinality(U[m]) < Cardinality(U[h[m].parent])
  <2>1. h[m].parent \in L /\ m # top /\ \E s \in Child : h[h[m].parent][s] = m
        BY <1>5 DEF Shape
  <2> QED  BY <2>1, Sizes
<1>6. Ranked(D, B, l, l, rk, K)
  <2>1. K \in Nat  BY <1>3
  <2>2. \A x \in D : rk[x] \in Nat /\ rk[x] < K  BY <1>3
  <2>3. rk \in [D -> Nat]  BY <2>2
  <2>4. ASSUME NEW x \in D \ B PROVE l[x] \in D /\ rk[l[x]] < rk[x]
    <3>1. x \in Nodes /\ h[x].parent # null  BY <1>4
    <3>2. x \in L  BY <3>1 DEF Outside
    <3>3. h[x].parent \in L /\ h[x].parent \in Refs /\ Cardinality(U[x]) < Cardinality(U[h[x].parent])
          BY <1>4, <1>5, <3>1, <3>2
    <3>4. /\ rk[x] = Cardinality(L) - Cardinality(U[x]) + 1
          /\ rk[h[x].parent] = Cardinality(L) - Cardinality(U[h[x].parent]) + 1
          BY <3>2, <3>3
    <3>5. Cardinality(L) \in Nat /\ Cardinality(U[x]) \in Nat /\ Cardinality(U[h[x].parent]) \in Nat
          BY <1>3, <3>2, <3>3
    <3> HIDE DEF rk
    <3> QED  BY <3>3, <3>4, <3>5
  <2> HIDE DEF rk, K, l, B
  <2> QED  BY <2>1, <2>2, <2>3, <2>4 DEF Ranked
<1>7. PICK f : Walks(f, D, Refs, B, b, l)
  <2> HIDE DEF D, B, b, l, rk, K
  <2> QED  BY <1>1, <1>6, WalkExists
<1>8. P(f)
  <2>1. f \in [Refs -> Refs] /\ \A n \in Refs : f[n] = IF n \in B THEN b[n] ELSE f[l[n]]
        BY <1>7 DEF Walks
  <2> HIDE DEF B, b, l
  <2> QED  BY <1>2, <2>1
<1>9. P(up)  BY <1>8, Zenon
<1>10. \A n : FindTop(h, n) = up[n]  BY DEF FindTop
<1> HIDE DEF up, D, B, b, l, rk, K
<1>11. up[null] = null  BY <1>9 DEF Refs
<1> DEFINE T == {k \in Nat : \A m \in L : Cardinality(L) - Cardinality(U[m]) < k => up[m] = top}
<1>12. 0 \in T  BY <1>3
<1>13. \A k \in Nat : k \in T => k + 1 \in T
  <2> SUFFICES ASSUME NEW k \in T, NEW m \in L, Cardinality(L) - Cardinality(U[m]) < k + 1
               PROVE  up[m] = top
      OBVIOUS
  <2>1. up[m] = IF h[m].parent = null THEN m ELSE up[h[m].parent]  BY <1>4, <1>9
  <2>2. CASE h[m].parent = null
    <3>1. m = top  BY <1>4, <2>2 DEF Shape
    <3> QED  BY <2>1, <2>2, <3>1
  <2>3. CASE h[m].parent # null
    <3>1. h[m].parent \in L /\ Cardinality(U[m]) < Cardinality(U[h[m].parent])  BY <1>5, <2>3
    <3>2. Cardinality(L) - Cardinality(U[h[m].parent]) < k  BY <1>3, <3>1
    <3> QED  BY <2>1, <2>3, <3>1, <3>2
  <2> QED  BY <2>2, <2>3
<1>14. Nat \subseteq T
  <2> HIDE DEF T
  <2> QED  BY <1>12, <1>13, Induction
<1>15. ASSUME NEW n \in L PROVE up[n] = top
  <2> DEFINE k == Cardinality(L) - Cardinality(U[n]) + 1
  <2>1. k \in Nat /\ Cardinality(L) - Cardinality(U[n]) < k  BY <1>3
  <2> HIDE DEF k
  <2> QED  BY <1>14, <2>1
<1> QED  BY <1>10, <1>11, <1>15

(* A value that is computed from those of the two children exists. *)
LEMMA FoldExists ==
  ASSUME NEW h, NEW L, NEW top, NEW U, Shape(h, L, top, U), Outside(h, L),
         \A n \in Nodes, s \in Child : h[n][s] \in Refs,
         NEW S, NEW b, NEW G, Combines(b, G, Refs, S)
  PROVE  \E f \in [Refs -> S] :
           \A m \in Refs : f[m] = IF m = null THEN b[m] ELSE G[m][f[h[m].left]][f[h[m].right]]
<1> DEFINE l == [m \in Refs |-> h[m].left]
           r == [m \in Refs |-> h[m].right]
           B == {null}
           D == Refs
<1>1. Downward(h, D, B, l) /\ Downward(h, D, B, r)  BY DEF Downward, Child, Refs
<1>2. \A m \in Refs : l[m] = h[m].left /\ r[m] = h[m].right /\ (m \in B <=> m = null)  OBVIOUS
<1>3. D \in SUBSET Refs  OBVIOUS
<1> HIDE DEF l, r, B
<1>4. PICK rk, K : Ranked(D, B, l, r, rk, K)
  <2> HIDE DEF D
  <2> QED  BY <1>1, <1>3, GoesDown
<1>5. PICK f : Solves(f, D, S, B, b, G, l, r)  BY <1>4, TreeRecursion
<1> QED  BY <1>2, <1>5 DEF Solves

(* A subtree has the nodes under its top. *)
LEMMA UnderIsSubtree ==
  ASSUME NEW L, NEW top, NEW U, Shape(heap, L, top, U), Outside(heap, L),
         \A n \in Nodes, s \in Child : heap[n][s] \in Refs
  PROVE  \A n \in L \cup {null} : Under(n) = U[n]
<1> DEFINE b == [m \in Refs |-> {}]
           S == SUBSET Refs
           G == [m \in Refs |-> [x \in S |-> [y \in S |-> {m} \cup x \cup y]]]
           P(f) == f = [m \in Refs |-> IF m = null THEN {}
                                       ELSE {m} \cup f[heap[m].left] \cup f[heap[m].right]]
           all == CHOOSE f : P(f)
<1>1. Combines(b, G, Refs, S)
  <2>1. \A m \in Refs, x \in S, y \in S : {m} \cup x \cup y \in S  OBVIOUS
  <2>2. {} \in S  OBVIOUS
  <2> HIDE DEF S
  <2> QED  BY <2>1, <2>2 DEF Combines
<1>2. /\ \A m \in Refs : b[m] = {}
      /\ \A m \in Refs, x \in S, y \in S : G[m][x][y] = {m} \cup x \cup y
      OBVIOUS
<1>3. PICK f \in [Refs -> S] :
        \A m \in Refs : f[m] = IF m = null THEN b[m] ELSE G[m][f[heap[m].left]][f[heap[m].right]]
  <2> HIDE DEF S, b, G
  <2> QED  BY <1>1, FoldExists
<1>4. P(f)
  <2>1. \A m \in Refs : m # null => f[heap[m].left] \in S /\ f[heap[m].right] \in S
    <3>1. \A m \in Refs : m # null => heap[m]["left"] \in Refs /\ heap[m]["right"] \in Refs
          BY DEF Child, Refs
    <3> HIDE DEF S
    <3> QED  BY <3>1
  <2>2. \A m \in Refs : f[m] = IF m = null THEN {} ELSE {m} \cup f[heap[m].left] \cup f[heap[m].right]
    <3> HIDE DEF S, b, G
    <3> QED  BY <1>2, <1>3, <2>1
  <2> HIDE DEF S, b, G
  <2> QED  BY <1>3, <2>2
<1>5. P(all)  BY <1>4, Zenon
<1>6. \A n : Under(n) = all[n]  BY DEF Under
<1> HIDE DEF all
<1> DEFINE Q == {m \in L \cup {null} : all[m] = U[m]}
<1>7. null \in Q  BY <1>5 DEF Shape, Refs
<1>8. ASSUME NEW m \in L, \A s \in Child : heap[m][s] \in Q PROVE m \in Q
  <2>1. m \in Refs /\ m # null  BY Self DEF Refs
  <2>2. all[m] = {m} \cup all[heap[m]["left"]] \cup all[heap[m]["right"]]  BY <1>5, <2>1
  <2>3. U[m] = {m} \cup U[heap[m]["left"]] \cup U[heap[m]["right"]]
    <3>1. "left" \in Child /\ Other("left") = "right"  BY DEF Child, Other
    <3> QED  BY <3>1, ShapeAt
  <2>4. heap[m]["left"] \in Q /\ heap[m]["right"] \in Q  BY <1>8 DEF Child
  <2> QED  BY <2>2, <2>3, <2>4
<1>9. L \subseteq Q
  <2> HIDE DEF Q
  <2> QED  BY <1>7, <1>8, TreeInduction
<1> QED  BY <1>6, <1>7, <1>9

(* When no black node is missing all ways down have the same number of them. *)
LEMMA HeightsAreOne ==
  ASSUME NEW L, NEW top, NEW U, Shape(heap, L, top, U), Outside(heap, L),
         \A n \in Nodes, s \in Child : heap[n][s] \in Refs,
         NEW bh, Balanced(heap, L, bh, null, null)
  PROVE  \A n \in L \cup {null} : BlackHeights(n) = {bh[n]}
<1> DEFINE b == [m \in Refs |-> {0}]
           S == SUBSET Nat
           Up(m, x) == {IF Color(m) = "black" THEN z + 1 ELSE z : z \in x}
           G == [m \in Refs |-> [x \in S |-> [y \in S |-> Up(m, x \cup y)]]]
           P(f) == f = [m \in Refs |-> IF m = null THEN {0}
                     ELSE {IF Color(m) = "black" THEN x + 1 ELSE x :
                             x \in f[heap[m].left] \cup f[heap[m].right]}]
           heights == CHOOSE f : P(f)
<1>1. Combines(b, G, Refs, S)
  <2>1. \A m \in Refs, x \in S, y \in S : Up(m, x \cup y) \in S  OBVIOUS
  <2>2. \A m \in Refs : b[m] \in S  OBVIOUS
  <2> HIDE DEF S, Up
  <2> QED  BY <2>1, <2>2 DEF Combines
<1>2. /\ \A m \in Refs : b[m] = {0}
      /\ \A m \in Refs, x \in S, y \in S : G[m][x][y] = Up(m, x \cup y)
  <2> HIDE DEF S, Up
  <2> QED  OBVIOUS
<1>3. PICK f \in [Refs -> S] :
        \A m \in Refs : f[m] = IF m = null THEN b[m] ELSE G[m][f[heap[m].left]][f[heap[m].right]]
  <2> HIDE DEF S, b, G
  <2> QED  BY <1>1, FoldExists
<1>4. P(f)
  <2>1. \A m \in Refs : m # null => f[heap[m].left] \in S /\ f[heap[m].right] \in S
    <3>1. \A m \in Refs : m # null => heap[m]["left"] \in Refs /\ heap[m]["right"] \in Refs
          BY DEF Child, Refs
    <3> HIDE DEF S
    <3> QED  BY <3>1
  <2>2. \A m \in Refs : f[m] = IF m = null THEN {0} ELSE Up(m, f[heap[m].left] \cup f[heap[m].right])
    <3> HIDE DEF S, b, G, Up
    <3> QED  BY <1>2, <1>3, <2>1
  <2>3. f = [m \in Refs |-> IF m = null THEN {0} ELSE Up(m, f[heap[m].left] \cup f[heap[m].right])]
    <3> HIDE DEF S, b, G, Up
    <3> QED  BY <1>3, <2>2
  <2> HIDE DEF S, b, G
  <2> QED  BY <2>3, Zenon
<1>5. P(heights)  BY <1>4, Zenon
<1>6. \A n : BlackHeights(n) = heights[n]  BY DEF BlackHeights
<1> HIDE DEF heights
<1> DEFINE Q == {m \in L \cup {null} : heights[m] = {bh[m]}}
<1>7. null \in Q  BY <1>5 DEF Balanced, Refs
<1>8. ASSUME NEW m \in L, \A s \in Child : heap[m][s] \in Q PROVE m \in Q
  <2>1. m \in Refs /\ m # null  BY Self DEF Refs
  <2>2. heights[m] = {IF Color(m) = "black" THEN x + 1 ELSE x :
                        x \in heights[heap[m]["left"]] \cup heights[heap[m]["right"]]}
        BY <1>5, <2>1
  <2>3. heap[m]["left"] \in Q /\ heap[m]["right"] \in Q  BY <1>8 DEF Child
  <2>4. ASSUME NEW s \in Child PROVE bh[m] = IF Color(m) = "black" THEN bh[heap[m][s]] + 1 ELSE bh[heap[m][s]]
    <3>1. bh[m] = bh[heap[m][s]] + Missing(heap[m][s], null) + Weight(heap, m, null)
          BY DEF Balanced
    <3>2. Missing(heap[m][s], null) = 0  BY DEF Missing
    <3>3. Weight(heap, m, null) = IF Color(m) = "black" THEN 1 ELSE 0  BY <2>1 DEF Weight, Color
    <3>4. bh[heap[m][s]] \in Nat  BY ShapeAt DEF Balanced
    <3> QED  BY <3>1, <3>2, <3>3, <3>4
  <2>5. /\ bh[m] = IF Color(m) = "black" THEN bh[heap[m]["left"]] + 1 ELSE bh[heap[m]["left"]]
        /\ bh[m] = IF Color(m) = "black" THEN bh[heap[m]["right"]] + 1 ELSE bh[heap[m]["right"]]
        BY <2>4 DEF Child
  <2>6. bh[heap[m]["left"]] \in Nat /\ bh[heap[m]["right"]] \in Nat
    <3>1. "left" \in Child /\ "right" \in Child  BY DEF Child
    <3> QED  BY <3>1, ShapeAt DEF Balanced
  <2>7. bh[heap[m]["left"]] = bh[heap[m]["right"]]  BY <2>5, <2>6
  <2>8. heights[heap[m]["left"]] \cup heights[heap[m]["right"]] = {bh[heap[m]["left"]]}
        BY <2>3, <2>7
  <2>9. heights[m] = {IF Color(m) = "black" THEN x + 1 ELSE x : x \in {bh[heap[m]["left"]]}}
        BY <2>2, <2>8
  <2>10. heights[m] = {bh[m]}  BY <2>5, <2>9
  <2> QED  BY <2>10
<1>9. L \subseteq Q
  <2> HIDE DEF Q
  <2> QED  BY <1>7, <1>8, TreeInduction
<1> QED  BY <1>6, <1>7, <1>9

-----------------------------------------------------------------------------
(***************************************************************************)
(* Fields, links and rotations.                                            *)
(***************************************************************************)

(* The fields that no surgery touches, and what is not in the tree. *)
Keeps(h, g, L) ==
  /\ g \in Heaps
  /\ \A m \in Nodes : g[m].key = h[m].key /\ g[m].value = h[m].value
  /\ \A m \in Nodes \ L : g[m] = h[m]

(* The fields of a node are of their types. *)
LEMMA HeapFields ==
  ASSUME NEW h \in Heaps, NEW m \in Nodes
  PROVE  /\ h[m].parent \in Refs /\ h[m].color \in {"red", "black"} /\ h[m].key \in Int
         /\ \A s \in Child : h[m][s] \in Refs
BY KeyAssumption DEF Heaps, Child

(* A child is set. *)
LEMMA SetChild ==
  ASSUME NEW h \in Heaps, NEW p \in Nodes, NEW s \in Child, NEW c \in Refs
  PROVE  LET g == [h EXCEPT ![p][s] = c] IN
         /\ g \in Heaps
         /\ \A m \in Nodes : m # p => g[m] = h[m]
         /\ g[p].key = h[p].key /\ g[p].value = h[p].value /\ g[p].color = h[p].color
         /\ g[p].parent = h[p].parent /\ g[p][s] = c /\ g[p][Other(s)] = h[p][Other(s)]
BY DEF Heaps, Child, Other

(* The parent is set. *)
LEMMA SetParent ==
  ASSUME NEW h \in Heaps, NEW p \in Nodes, NEW c \in Refs
  PROVE  LET g == [h EXCEPT ![p].parent = c] IN
         /\ g \in Heaps
         /\ \A m \in Nodes : m # p => g[m] = h[m]
         /\ g[p].key = h[p].key /\ g[p].value = h[p].value /\ g[p].color = h[p].color
         /\ g[p].parent = c /\ \A s \in Child : g[p][s] = h[p][s]
BY DEF Heaps, Child

Colors == {"red", "black"}

(* Red and black are the colors. *)
LEMMA BothColors == "red" \in Colors /\ "black" \in Colors
BY DEF Colors

(* Painting changes the color of one node. *)
LEMMA Painted ==
  ASSUME NEW h \in Heaps, NEW n \in Nodes, NEW c \in Colors
  PROVE  /\ Paint(h, n, c) \in Heaps
         /\ \A m \in Nodes : m # n => Paint(h, n, c)[m] = h[m]
         /\ Paint(h, n, c)[n].key = h[n].key /\ Paint(h, n, c)[n].value = h[n].value
         /\ Paint(h, n, c)[n].color = c /\ Paint(h, n, c)[n].parent = h[n].parent
         /\ \A s \in Child : Paint(h, n, c)[n][s] = h[n][s]
BY DEF Heaps, Child, Paint, Colors

Hung(h, g, L, n, c) ==
  /\ Keeps(h, g, L)
  /\ \A m \in Nodes : g[m].parent = h[m].parent /\ g[m].color = h[m].color
  /\ \A m \in L, s \in Child : g[m][s] = IF h[m][s] = n THEN c ELSE h[m][s]

(* The only pointer down to a node is that of its parent. *)
LEMMA OnlyParent ==
  ASSUME NEW h, NEW L, NEW top, NEW U, Shape(h, L, top, U), NEW n \in L
  PROVE  /\ \A m \in L, s \in Child : h[m][s] = n => h[n].parent = m /\ h[m][Other(s)] # n
         /\ n = top => h[n].parent = null
         /\ n # top => h[n].parent \in L /\ \E s \in Child : h[h[n].parent][s] = n
<1>1. ASSUME NEW m \in L, NEW s \in Child, h[m][s] = n PROVE h[n].parent = m /\ h[m][Other(s)] # n
  <2>1. n # null /\ n \in U[n]  BY Self
  <2>2. h[n].parent = m /\ U[h[m][s]] \cap U[h[m][Other(s)]] = {}  BY <1>1, <2>1, ShapeAt
  <2> QED  BY <1>1, <2>1, <2>2
<1> QED  BY <1>1 DEF Shape

(* Hang() puts c in the place of n, and changes nothing else. *)
LEMMA HangHangs ==
  ASSUME NEW h \in Heaps, NEW L, NEW top, NEW U, Shape(h, L, top, U), NEW n \in L, NEW c \in Refs
  PROVE  Hung(h, Hang(h, n, c), L, n, c)
<1> DEFINE p == h[n].parent
           s == IF h[p].left = n THEN "left" ELSE "right"
<1>1. n \in Nodes /\ L \subseteq Nodes /\ null \notin L  BY NullNoNode DEF Shape
<1>2. CASE p = null
  <2>1. Hang(h, n, c) = h  BY <1>2 DEF Hang
  <2>2. \A m \in L, t \in Child : h[m][t] # n  BY <1>1, <1>2, OnlyParent
  <2> QED  BY <1>1, <2>1, <2>2 DEF Hung, Keeps
<1>3. CASE p # null
  <2>1. p \in L /\ p \in Nodes /\ s \in Child /\ h[p][s] = n
    <3>1. n # top  BY <1>3, OnlyParent
    <3>2. p \in L /\ \E t \in Child : h[p][t] = n  BY <3>1, OnlyParent
    <3> QED  BY <1>1, <3>2 DEF Child
  <2>2. \A m \in L, t \in Child : h[m][t] = n => m = p /\ t = s
    <3> TAKE m \in L, t \in Child
    <3>1. HAVE h[m][t] = n
    <3>2. m = p /\ h[m][Other(t)] # n  BY <3>1, OnlyParent
    <3> HIDE DEF s
    <3> QED  BY <2>1, <3>2, Sides
  <2>3. Hang(h, n, c) = [h EXCEPT ![p][s] = c]  BY <1>3 DEF Hang
  <2> HIDE DEF s, p
  <2> DEFINE g == [h EXCEPT ![p][s] = c]
  <2>4. /\ g \in Heaps
        /\ \A m \in Nodes : m # p => g[m] = h[m]
        /\ g[p].key = h[p].key /\ g[p].value = h[p].value /\ g[p].color = h[p].color
        /\ g[p].parent = h[p].parent /\ g[p][s] = c /\ g[p][Other(s)] = h[p][Other(s)]
        BY <2>1, SetChild
  <2> HIDE DEF g
  <2>5. ASSUME NEW m \in L, NEW t \in Child PROVE g[m][t] = IF h[m][t] = n THEN c ELSE h[m][t]
    <3>1. CASE m # p  BY <1>1, <2>2, <2>4, <3>1
    <3>2. CASE m = p
      <4>1. t = s \/ t = Other(s)  BY <2>1, Sides
      <4>2. h[p][Other(s)] # n  BY <2>1, OnlyParent
      <4> QED  BY <2>1, <2>4, <3>2, <4>1, <4>2
    <3> QED  BY <3>1, <3>2
  <2> QED  BY <2>1, <2>3, <2>4, <2>5 DEF Hung, Keeps, g
<1> QED  BY <1>2, <1>3

SameLinks(h, g) ==
  \A m \in Nodes : /\ g[m].parent = h[m].parent /\ g[m].key = h[m].key
                   /\ \A s \in Child : g[m][s] = h[m][s]

(* The shape and the order depend on the links and the keys alone. *)
LEMMA SameShape ==
  ASSUME NEW h, NEW g, SameLinks(h, g), NEW L, NEW top, NEW U, Shape(h, L, top, U)
  PROVE  Shape(g, L, top, U) /\ \A X : Sorted(h, L, U, X) => Sorted(g, L, U, X)
<1>1. L \subseteq Nodes  BY DEF Shape
<1>2. Shape(g, L, top, U)
  <2>1. /\ \A n \in L, s \in Child : g[n][s] = h[n][s]
        /\ \A n \in L : g[n].parent = h[n].parent
        BY <1>1 DEF SameLinks
  <2>2. \A n \in L, s \in Child : h[n][s] # null => g[h[n][s]].parent = h[h[n][s]].parent
    <3>1. \A n \in L, s \in Child : h[n][s] # null => h[n][s] \in L  BY DEF Shape
    <3> QED  BY <2>1, <3>1
  <2>3. \A n \in L, s \in Child :
          /\ g[n][s] \in L \cup {null}
          /\ U[n] = {n} \cup U[g[n][s]] \cup U[g[n][Other(s)]]
          /\ n \notin U[g[n][s]] /\ U[g[n][s]] \cap U[g[n][Other(s)]] = {}
          /\ g[n][s] # null => g[g[n][s]].parent = n
    <3> TAKE n \in L, s \in Child
    <3>1. g[n][s] = h[n][s] /\ g[n][Other(s)] = h[n][Other(s)]  BY <2>1, Sides
    <3> QED  BY <2>2, <3>1, ShapeAt
  <2>4. \A n \in L : IF n = top THEN g[n].parent = null
                     ELSE g[n].parent \in L /\ \E s \in Child : g[g[n].parent][s] = n
    <3> TAKE n \in L
    <3>1. CASE n = top  BY <2>1, <3>1, OnlyParent
    <3>2. CASE n # top
      <4>1. PICK s \in Child : h[n].parent \in L /\ h[h[n].parent][s] = n  BY <3>2, OnlyParent
      <4> QED  BY <2>1, <3>2, <4>1
    <3> QED  BY <3>1, <3>2
  <2>5. L \subseteq Nodes /\ IsFiniteSet(L) /\ top \in L \cup {null}
        /\ U \in [L \cup {null} -> SUBSET L] /\ U[null] = {} /\ U[top] = L
        BY DEF Shape
  <2> QED  BY <2>3, <2>4, <2>5 DEF Shape
<1>3. ASSUME NEW X, Sorted(h, L, U, X) PROVE Sorted(g, L, U, X)
  <2> SUFFICES ASSUME NEW n \in L, NEW s \in Child, NEW m \in U[g[n][s]], n # X, m # X
               PROVE  Lesser(s, g[m].key, g[n].key)
      BY DEF Sorted
  <2>1. g[n][s] = h[n][s] /\ n \in Nodes  BY <1>1 DEF SameLinks
  <2>2. m \in Nodes  BY <1>1, <2>1, ShapeAt
  <2>3. Lesser(s, h[m].key, h[n].key)  BY <1>3, <2>1 DEF Sorted
  <2> QED  BY <2>1, <2>2, <2>3 DEF SameLinks
<1> QED  BY <1>2, <1>3

(* g links as h does after n has been turned down on the side. *)
Turned(h, g, L, n, side) ==
  LET pivot == h[n][Other(side)]
      inner == h[pivot][side]
  IN /\ g[n][side] = h[n][side] /\ g[n][Other(side)] = inner
     /\ g[pivot][side] = n /\ g[pivot][Other(side)] = h[pivot][Other(side)]
     /\ \A m \in L \ {n, pivot}, s \in Child : g[m][s] = IF h[m][s] = n THEN pivot ELSE h[m][s]
     /\ g[n].parent = pivot /\ g[pivot].parent = h[n].parent
     /\ inner # null => g[inner].parent = n
     /\ \A m \in L \ {n, pivot, inner} : g[m].parent = h[m].parent

CanTurn(h, L, n, side) == n \in L /\ side \in Child /\ h[n][Other(side)] # null

(* The nodes that a rotation is about, and where they are. *)
LEMMA TurnNodes ==
  ASSUME NEW h, NEW L, NEW top, NEW U, Shape(h, L, top, U),
         NEW n, NEW side, CanTurn(h, L, n, side)
  PROVE  LET pivot == h[n][Other(side)]
             inner == h[pivot][side]
             outer == h[pivot][Other(side)]
             c == h[n][side]
         IN /\ n \in L /\ n # null /\ side \in Child /\ Other(side) \in Child /\ Other(Other(side)) = side
            /\ pivot \in L /\ pivot # null /\ h[pivot].parent = n /\ pivot # n /\ pivot # top
            /\ inner \in L \cup {null} /\ outer \in L \cup {null} /\ c \in L \cup {null}
            /\ inner \notin {n, pivot} /\ outer \notin {n, pivot} /\ c \notin {n, pivot}
            /\ inner # null => h[inner].parent = pivot /\ inner # outer /\ inner # c /\ inner # top
            /\ outer # null => h[outer].parent = pivot /\ outer # c
            /\ c # null => h[c].parent = n
            /\ h[n].parent \in L \cup {null} /\ h[n].parent \notin {n, pivot}
            /\ h[n].parent # null => h[n].parent \notin {inner, outer, c}
            /\ U[n] = {n} \cup U[c] \cup U[pivot] /\ U[pivot] = {pivot} \cup U[inner] \cup U[outer]
            /\ n \notin U[c] \cup U[pivot] /\ pivot \notin U[inner] \cup U[outer]
            /\ U[c] \cap U[pivot] = {} /\ U[inner] \cap U[outer] = {}
<1> DEFINE o == Other(side)
           pivot == h[n][o]
           inner == h[pivot][side]
           outer == h[pivot][o]
           c == h[n][side]
           p == h[n].parent
<1>1. n \in L /\ side \in Child /\ o \in Child /\ Other(o) = side /\ pivot # null
      BY Sides DEF CanTurn
<1>2. n # null /\ null \notin L /\ n \in U[n] /\ U[null] = {}  BY <1>1, Self, NullNoNode DEF Shape
<1>3. /\ pivot \in L /\ h[pivot].parent = n /\ n \notin U[pivot] /\ n \notin U[c]
      /\ U[n] = {n} \cup U[c] \cup U[pivot] /\ U[c] \cap U[pivot] = {} /\ c \in L \cup {null}
      /\ c # null => h[c].parent = n
      BY <1>1, ShapeAt
<1>4. pivot \in U[pivot]  BY <1>3, Self
<1>5. /\ U[pivot] = {pivot} \cup U[inner] \cup U[outer] /\ U[inner] \cap U[outer] = {}
      /\ inner \in L \cup {null} /\ outer \in L \cup {null}
      /\ pivot \notin U[inner] /\ pivot \notin U[outer]
      /\ inner # null => h[inner].parent = pivot
      /\ outer # null => h[outer].parent = pivot
  <2>1. ASSUME NEW x \in L
        PROVE  /\ U[x] = {x} \cup U[h[x][side]] \cup U[h[x][o]]
               /\ U[h[x][side]] \cap U[h[x][o]] = {}
               /\ h[x][side] \in L \cup {null} /\ h[x][o] \in L \cup {null}
               /\ x \notin U[h[x][side]] /\ x \notin U[h[x][o]]
               /\ h[x][side] # null => h[h[x][side]].parent = x
               /\ h[x][o] # null => h[h[x][o]].parent = x
    <3> HIDE DEF o
    <3> QED  BY <1>1, ShapeAt DEF o
  <2> HIDE DEF o
  <2> QED  BY <1>3, <2>1
<1>6. \A x \in L : x \in U[x] /\ x # null  BY <1>2, Self
<1>7. p \in L \cup {null} /\ (p # null => n \in U[p] /\ \E s \in Child : n \in U[h[p][s]])
  <2>1. CASE n = top  BY <1>1, <2>1, OnlyParent
  <2>2. CASE n # top
    <3>1. PICK s \in Child : p \in L /\ h[p][s] = n  BY <1>1, <2>2, OnlyParent
    <3>2. n \in U[h[p][s]] /\ U[h[p][s]] \subseteq U[p]  BY <1>2, <3>1, ShapeAt
    <3> QED  BY <3>1, <3>2
  <2> QED  BY <2>1, <2>2
<1>8. p # null => p \notin U[n] /\ p # n
  <2> SUFFICES ASSUME p # null PROVE p \notin U[n] /\ p # n  OBVIOUS
  <2>1. p \in L  BY <1>7
  <2>2. PICK s \in Child : n \in U[h[p][s]]  BY <1>7
  <2> QED  BY <2>1, <2>2, NotAbove
<1>9. pivot # top /\ (inner # null => inner # top)
  <2>1. \A x \in L : x = top => h[x].parent = null  BY OnlyParent
  <2> QED  BY Zenon, <1>2, <1>3, <1>5, <2>1
<1> HIDE DEF p, c, outer, inner, pivot
<1>10. inner \notin {n, pivot} /\ outer \notin {n, pivot} /\ c \notin {n, pivot} /\ pivot # n
  BY <1>1, <1>2, <1>3, <1>4, <1>5, <1>6
<1>11. /\ inner # null => inner # outer /\ inner # c
       /\ outer # null => outer # c
  BY <1>1, <1>2, <1>3, <1>4, <1>5, <1>6
<1>12. p \notin {n, pivot} /\ (p # null => p \notin {inner, outer, c})
  <2>1. pivot \in U[n] /\ (inner # null => inner \in U[n]) /\ (outer # null => outer \in U[n])
        /\ (c # null => c \in U[n])
        BY <1>3, <1>4, <1>5, <1>6
  <2> QED  BY <1>1, <1>2, <1>8, <2>1
<1> QED  BY Zenon, <1>1, <1>2, <1>3, <1>5, <1>7, <1>9, <1>10, <1>11, <1>12 DEF p, c, outer, inner, pivot

(* A rotation turns the node down, whatever has been painted before. *)
LEMMA RotateTurns ==
  ASSUME NEW h, NEW L, NEW top, NEW U, Shape(h, L, top, U),
         NEW n, NEW side, CanTurn(h, L, n, side), NEW k \in Heaps, SameLinks(h, k)
  PROVE  /\ Turned(h, Rotate(k, n, side), L, n, side)
         /\ Keeps(k, Rotate(k, n, side), L)
         /\ \A m \in Nodes : Rotate(k, n, side)[m].color = k[m].color
<1> DEFINE o == Other(side)
           pivot == k[n][o]
           inner == k[pivot][side]
           p == k[n].parent
           h1 == Hang(k, n, pivot)
           h2 == [h1 EXCEPT ![pivot].parent = p]
           h3 == IF inner = null THEN h2 ELSE [h2 EXCEPT ![inner].parent = n]
           h4 == [h3 EXCEPT ![n][o] = inner]
           h5 == [h4 EXCEPT ![n].parent = pivot]
           h6 == [h5 EXCEPT ![pivot][side] = n]
           outer == k[pivot][o]
           c == k[n][side]
<1>1. Shape(k, L, top, U)  BY SameShape
<1>2. CanTurn(k, L, n, side)  BY Sides DEF CanTurn, SameLinks, Shape
<1>3. /\ n \in L /\ n # null /\ side \in Child /\ o \in Child /\ Other(o) = side
      /\ pivot \in L /\ pivot # null /\ pivot # n
      /\ inner \in L \cup {null} /\ inner \notin {n, pivot} /\ c \notin {n, pivot}
      /\ outer \notin {n, pivot}
      /\ p \in L \cup {null} /\ p \notin {n, pivot} /\ (p # null => p # inner)
      BY <1>1, <1>2, TurnNodes
<1>4. Rotate(k, n, side) = h6  BY <1>3 DEF Rotate
<1>5. L \subseteq Nodes /\ Refs = Nodes \cup {null} /\ null \notin L  BY NullNoNode DEF Shape, Refs
<1> HIDE DEF h6, h5, h4, h3, h2, h1, c, outer, p, inner, pivot
<1>6. Hung(k, h1, L, n, pivot)  BY <1>1, <1>3, <1>5, HangHangs DEF h1
<1>7. h1 \in Heaps /\ \A m \in Nodes : /\ h1[m].parent = k[m].parent /\ h1[m].color = k[m].color
                                     /\ h1[m].key = k[m].key /\ h1[m].value = k[m].value
      BY <1>6 DEF Hung, Keeps
<1>8. /\ h2 \in Heaps /\ h2[pivot].parent = p
      /\ \A m \in Nodes : /\ m # pivot => h2[m] = h1[m]
                         /\ h2[m].color = k[m].color /\ h2[m].key = k[m].key /\ h2[m].value = k[m].value
                         /\ \A s \in Child : h2[m][s] = h1[m][s]
  <2>1. p \in Refs /\ pivot \in Nodes  BY <1>3, <1>5
  <2>2. /\ h2 \in Heaps
        /\ \A m \in Nodes : m # pivot => h2[m] = h1[m]
        /\ h2[pivot].key = h1[pivot].key /\ h2[pivot].value = h1[pivot].value
        /\ h2[pivot].color = h1[pivot].color
        /\ h2[pivot].parent = p /\ \A s \in Child : h2[pivot][s] = h1[pivot][s]
        BY <1>7, <2>1, SetParent DEF h2
  <2> QED  BY <1>7, <2>1, <2>2
<1>9. /\ h3 \in Heaps /\ (inner # null => h3[inner].parent = n)
      /\ \A m \in Nodes : /\ m # inner => h3[m] = h2[m]
                         /\ h3[m].color = k[m].color /\ h3[m].key = k[m].key /\ h3[m].value = k[m].value
                         /\ \A s \in Child : h3[m][s] = h1[m][s]
  <2>1. CASE inner = null  BY <1>5, <1>8, <2>1 DEF h3
  <2>2. CASE inner # null
    <3> DEFINE e == [h2 EXCEPT ![inner].parent = n]
    <3>0. inner \in Nodes /\ n \in Refs /\ h2 \in Heaps  BY <1>3, <1>5, <1>8, <2>2
    <3>1. h3 = e  BY <2>2 DEF h3
    <3>2. /\ e \in Heaps
          /\ \A m \in Nodes : m # inner => e[m] = h2[m]
          /\ e[inner].key = h2[inner].key /\ e[inner].value = h2[inner].value
          /\ e[inner].color = h2[inner].color
          /\ e[inner].parent = n /\ \A s \in Child : e[inner][s] = h2[inner][s]
          BY <3>0, SetParent
    <3> HIDE DEF e
    <3> QED  BY <1>8, <3>1, <3>2
  <2> QED  BY <2>1, <2>2
<1>10. /\ h4 \in Heaps /\ h4[n][o] = inner /\ h4[n][side] = h3[n][side]
       /\ \A m \in Nodes : /\ m # n => h4[m] = h3[m]
                          /\ h4[m].color = k[m].color /\ h4[m].key = k[m].key /\ h4[m].value = k[m].value
  <2>1. n \in Nodes /\ inner \in Refs  BY <1>3, <1>5
  <2> QED  BY <1>3, <1>9, <2>1, SetChild DEF h4
<1>11. /\ h5 \in Heaps /\ h5[n].parent = pivot /\ h5[n][o] = inner /\ h5[n][side] = h3[n][side]
       /\ \A m \in Nodes : /\ m # n => h5[m] = h3[m]
                          /\ h5[m].color = k[m].color /\ h5[m].key = k[m].key /\ h5[m].value = k[m].value
  <2>1. n \in Nodes /\ pivot \in Refs  BY <1>3, <1>5
  <2> QED  BY <1>3, <1>10, <2>1, SetParent DEF h5
<1>12. /\ h6 \in Heaps /\ h6[pivot][side] = n /\ h6[pivot][o] = h5[pivot][o]
       /\ h6[pivot].parent = h5[pivot].parent
       /\ \A m \in Nodes : /\ m # pivot => h6[m] = h5[m]
                          /\ h6[m].color = k[m].color /\ h6[m].key = k[m].key /\ h6[m].value = k[m].value
  <2>1. n \in Refs /\ pivot \in Nodes  BY <1>3, <1>5
  <2> HIDE DEF o
  <2> QED  BY <1>3, <1>11, <2>1, SetChild DEF h6
<1> DEFINE g == h6
<1>13. g[n][side] = c /\ g[n][o] = inner /\ g[n].parent = pivot
  <2>1. h1[n][side] = c  BY <1>3, <1>6 DEF Hung, c
  <2>2. h3[n][side] = c /\ n \in Nodes  BY <1>3, <1>5, <1>9, <2>1
  <2> QED  BY <1>3, <1>11, <1>12, <2>2
<1>14. g[pivot][side] = n /\ g[pivot][o] = outer /\ g[pivot].parent = p
  <2>1. h1[pivot][o] = outer  BY <1>3, <1>6 DEF Hung, outer
  <2>2. pivot \in Nodes /\ h3[pivot][o] = outer  BY <1>3, <1>5, <1>9, <2>1
  <2>3. h3[pivot].parent = p  BY <1>3, <1>8, <1>9, <2>2
  <2> QED  BY <1>3, <1>11, <1>12, <2>2, <2>3
<1>15. ASSUME NEW m \in L \ {n, pivot}
       PROVE  /\ \A s \in Child : g[m][s] = IF k[m][s] = n THEN pivot ELSE k[m][s]
              /\ m # inner => g[m].parent = k[m].parent
              /\ m = inner => g[m].parent = n
  <2>1. m \in Nodes /\ g[m] = h3[m]  BY <1>5, <1>11, <1>12
  <2>2. \A s \in Child : g[m][s] = h1[m][s]  BY <1>9, <2>1
  <2>3. m # inner => g[m].parent = k[m].parent  BY <1>7, <1>8, <1>9, <2>1
  <2>4. m = inner => g[m].parent = n  BY <1>3, <1>5, <1>9, <2>1
  <2> QED  BY <1>6, <2>2, <2>3, <2>4 DEF Hung
<1>16. ASSUME NEW m \in Nodes \ L PROVE g[m] = k[m]
  <2>1. m # inner /\ m # n /\ m # pivot  BY <1>3, NullNoNode
  <2>2. h1[m] = k[m]  BY <1>6 DEF Hung, Keeps
  <2> QED  BY <1>8, <1>9, <1>11, <1>12, <2>1, <2>2
<1>17. Turned(k, g, L, n, side)
  <2>1. inner # null => inner \in L \ {n, pivot}  BY <1>3
  <2> HIDE DEF g
  <2> QED  BY <1>3, <1>13, <1>14, <1>15, <2>1 DEF Turned, c, outer, p, inner, pivot
<1>18. Turned(h, g, L, n, side)
  <2>1. \A m \in L : m \in Nodes /\ k[m].parent = h[m].parent /\ \A s \in Child : k[m][s] = h[m][s]
        BY <1>5 DEF SameLinks
  <2>2. h[n][o] = pivot /\ h[pivot][side] = inner /\ h[pivot][o] = outer /\ h[n][side] = c /\ h[n].parent = p
        BY <1>3, <2>1 DEF c, outer, p, inner, pivot
  <2> HIDE DEF g
  <2>3. \A m \in L \ {n, pivot}, s \in Child : g[m][s] = IF h[m][s] = n THEN pivot ELSE h[m][s]
        BY <1>15, <2>1
  <2>4. \A m \in L \ {n, pivot, inner} : g[m].parent = h[m].parent  BY <1>15, <2>1
  <2>5. inner # null => g[inner].parent = n  BY <1>3, <1>15
  <2> QED  BY <1>3, <1>13, <1>14, <2>2, <2>3, <2>4, <2>5 DEF Turned
<1> QED  BY <1>4, <1>12, <1>16, <1>18 DEF Keeps

TopAfter(h, top, n, side) == IF top = n THEN h[n][Other(side)] ELSE top

UnderAfter(h, U, n, side) ==
  LET pivot == h[n][Other(side)]
  IN [U EXCEPT ![pivot] = U[n], ![n] = {n} \cup U[h[n][side]] \cup U[h[pivot][side]]]

(* A rotation leaves a tree of the same nodes, *)
LEMMA TurnedShape ==
  ASSUME NEW h, NEW L, NEW top, NEW U, Shape(h, L, top, U),
         NEW n, NEW side, CanTurn(h, L, n, side), NEW g, Turned(h, g, L, n, side)
  PROVE  Shape(g, L, TopAfter(h, top, n, side), UnderAfter(h, U, n, side))
<1> DEFINE o == Other(side)
           pivot == h[n][o]
           inner == h[pivot][side]
           outer == h[pivot][o]
           c == h[n][side]
           p == h[n].parent
           V == UnderAfter(h, U, n, side)
           t == TopAfter(h, top, n, side)
<1>1. /\ n \in L /\ n # null /\ side \in Child /\ o \in Child /\ Other(o) = side
      /\ pivot \in L /\ pivot # null /\ h[pivot].parent = n /\ pivot # n /\ pivot # top
      /\ inner \in L \cup {null} /\ outer \in L \cup {null} /\ c \in L \cup {null}
      /\ inner \notin {n, pivot} /\ outer \notin {n, pivot} /\ c \notin {n, pivot}
      /\ inner # null => h[inner].parent = pivot /\ inner # outer /\ inner # c /\ inner # top
      /\ outer # null => h[outer].parent = pivot /\ outer # c
      /\ c # null => h[c].parent = n
      /\ p \in L \cup {null} /\ p \notin {n, pivot}
      /\ p # null => p \notin {inner, outer, c}
      /\ U[n] = {n} \cup U[c] \cup U[pivot] /\ U[pivot] = {pivot} \cup U[inner] \cup U[outer]
      /\ n \notin U[c] \cup U[pivot] /\ pivot \notin U[inner] \cup U[outer]
      /\ U[c] \cap U[pivot] = {} /\ U[inner] \cap U[outer] = {}
      BY TurnNodes
<1>2. L \subseteq Nodes /\ IsFiniteSet(L) /\ top \in L \cup {null} /\ null \notin L
      /\ U \in [L \cup {null} -> SUBSET L] /\ U[null] = {} /\ U[top] = L
      BY NullNoNode DEF Shape
<1>3. /\ g[n][side] = c /\ g[n][o] = inner
      /\ g[pivot][side] = n /\ g[pivot][o] = outer
      /\ \A m \in L \ {n, pivot}, s \in Child : g[m][s] = IF h[m][s] = n THEN pivot ELSE h[m][s]
      /\ g[n].parent = pivot /\ g[pivot].parent = p
      /\ inner # null => g[inner].parent = n
      /\ \A m \in L \ {n, pivot, inner} : g[m].parent = h[m].parent
      BY DEF Turned
<1>4. /\ V = [U EXCEPT ![pivot] = U[n], ![n] = {n} \cup U[c] \cup U[inner]]
      /\ t = IF top = n THEN pivot ELSE top
      BY DEF UnderAfter, TopAfter
<1> HIDE DEF V, t, p, c, outer, inner, pivot
<1>5. /\ V \in [L \cup {null} -> SUBSET L]
      /\ V[pivot] = U[n] /\ V[n] = {n} \cup U[c] \cup U[inner]
      /\ \A m \in L \cup {null} : m \notin {n, pivot} => V[m] = U[m]
  <2>1. U[n] \in SUBSET L /\ U[c] \in SUBSET L /\ U[inner] \in SUBSET L  BY <1>1, <1>2
  <2> QED  BY <1>1, <1>2, <1>4, <2>1
<1>6. V[null] = {} /\ t \in L \cup {null} /\ V[t] = L
  <2>1. top # null => top \in L  BY <1>2
  <2> QED  BY <1>1, <1>2, <1>4, <1>5, <2>1
<1> DEFINE Node(m, s) ==
             /\ g[m][s] \in L \cup {null}
             /\ V[m] = {m} \cup V[g[m][s]] \cup V[g[m][Other(s)]]
             /\ m \notin V[g[m][s]] /\ V[g[m][s]] \cap V[g[m][Other(s)]] = {}
             /\ g[m][s] # null => g[g[m][s]].parent = m
<1>7. \A s \in Child : Node(n, s)
  <2>1. V[c] = U[c] /\ V[inner] = U[inner]  BY <1>1, <1>5
  <2>2. c # null => g[c].parent = n  BY <1>1, <1>3
  <2>3. n \notin U[inner] /\ U[inner] \cap U[c] = {}  BY <1>1
  <2>4. Node(n, side)  BY <1>1, <1>3, <1>5, <2>1, <2>2, <2>3
  <2>5. Node(n, o)  BY <1>1, <1>3, <1>5, <2>1, <2>2, <2>3
  <2> HIDE DEF Node
  <2> QED  BY <1>1, <2>4, <2>5, Sides
<1>8. \A s \in Child : Node(pivot, s)
  <2>1. V[outer] = U[outer]  BY <1>1, <1>5
  <2>2. outer # null => g[outer].parent = pivot
    <3>1. outer # null => outer \in L \ {n, pivot, inner}  BY <1>1
    <3> QED  BY <1>1, <1>3, <3>1
  <2>3. pivot \notin V[n] /\ V[n] \cap U[outer] = {}
    <3>1. pivot \in U[pivot]  BY <1>1
    <3> QED  BY <1>1, <1>5, <3>1
  <2>4. V[pivot] = {pivot} \cup V[n] \cup U[outer]  BY <1>1, <1>5
  <2>5. Node(pivot, side)  BY <1>1, <1>3, <2>1, <2>3, <2>4
  <2>6. Node(pivot, o)  BY <1>1, <1>3, <2>1, <2>2, <2>3, <2>4
  <2> HIDE DEF Node
  <2> QED  BY <1>1, <2>5, <2>6, Sides
<1>9. ASSUME NEW m \in L \ {n, pivot}, NEW s \in Child PROVE Node(m, s)
  <2>1. \A z \in Child : /\ h[m][z] \in L \cup {null} /\ h[m][z] # pivot
                         /\ h[m][z] # null => h[h[m][z]].parent = m
    <3> TAKE z \in Child
    <3>1. h[m][z] \in L \cup {null} /\ (h[m][z] # null => h[h[m][z]].parent = m)  BY ShapeAt
    <3> QED  BY <1>1, <3>1
  <2>2. \A z \in Child : V[g[m][z]] = U[h[m][z]] /\ g[m][z] \in L \cup {null}
    <3> TAKE z \in Child
    <3>1. CASE h[m][z] = n
      <4>1. g[m][z] = pivot  BY <1>3, <3>1
      <4> QED  BY <1>1, <1>5, <3>1, <4>1
    <3>2. CASE h[m][z] # n
      <4>1. g[m][z] = h[m][z]  BY <1>3, <3>2
      <4> QED  BY <1>5, <2>1, <3>2, <4>1
    <3> QED  BY <3>1, <3>2
  <2>3. V[m] = U[m]  BY <1>5
  <2>4. g[m][s] # null => g[g[m][s]].parent = m
    <3>1. CASE h[m][s] = n
      <4>1. p = m  BY <1>1, <2>1, <3>1 DEF p
      <4> QED  BY <1>3, <3>1, <4>1
    <3>2. CASE h[m][s] # n
      <4>1. g[m][s] = h[m][s] /\ h[m][s] # pivot  BY <1>3, <2>1, <3>2
      <4>2. h[m][s] # null => h[m][s] # inner  BY <1>1, <2>1
      <4> QED  BY <1>3, <2>1, <3>2, <4>1, <4>2
    <3> QED  BY <3>1, <3>2
  <2>5. Other(s) \in Child  BY Sides
  <2>6. /\ U[m] = {m} \cup U[h[m][s]] \cup U[h[m][Other(s)]]
        /\ m \notin U[h[m][s]] /\ U[h[m][s]] \cap U[h[m][Other(s)]] = {}
        BY ShapeAt
  <2> QED  BY <2>2, <2>3, <2>4, <2>5, <2>6
<1> HIDE DEF Node
<1>10. \A m \in L, s \in Child : Node(m, s)  BY <1>7, <1>8, <1>9
<1>11. ASSUME NEW m \in L
       PROVE  IF m = t THEN g[m].parent = null
              ELSE g[m].parent \in L /\ \E s \in Child : g[g[m].parent][s] = m
  <2>1. CASE m = pivot
    <3>1. CASE top = n
      <4>1. p = null  BY <3>1, <1>1, OnlyParent DEF p
      <4> QED  BY <1>3, <1>4, <2>1, <3>1, <4>1
    <3>2. CASE top # n
      <4>1. PICK s \in Child : p \in L /\ h[p][s] = n  BY <3>2, <1>1, OnlyParent DEF p
      <4>2. g[p][s] = pivot  BY <1>1, <1>3, <4>1
      <4> QED  BY <1>1, <1>3, <1>4, <2>1, <3>2, <4>1, <4>2
    <3> QED  BY <3>1, <3>2
  <2>2. CASE m = n  BY <1>1, <1>3, <1>4, <2>2
  <2>3. CASE m = inner
    <3>1. m # null /\ m # t  BY <1>1, <1>2, <1>4, <2>3
    <3> QED  BY <1>1, <1>3, <2>3, <3>1
  <2>4. CASE m \notin {n, pivot, inner}
    <3>1. g[m].parent = h[m].parent  BY <1>3, <2>4
    <3>2. CASE m = top
      <4>1. m = t  BY <1>4, <2>4, <3>2
      <4> QED  BY <3>1, <3>2, <4>1, OnlyParent
    <3>3. CASE m # top
      <4>1. PICK s \in Child : h[m].parent \in L /\ h[h[m].parent][s] = m  BY <3>3, OnlyParent
      <4> DEFINE q == h[m].parent
      <4>2. m # t  BY <1>4, <2>4, <3>3
      <4>3. g[q][s] = m
        <5>1. CASE q \notin {n, pivot}  BY <1>3, <2>4, <4>1, <5>1
        <5>2. CASE q = n
          <6>1. s = side  BY <1>1, <2>4, <4>1, <5>2, Sides DEF pivot
          <6> QED  BY <1>3, <4>1, <5>2, <6>1 DEF c
        <5>3. CASE q = pivot
          <6>1. s = o  BY <1>1, <2>4, <4>1, <5>3, Sides DEF inner
          <6> QED  BY <1>3, <4>1, <5>3, <6>1 DEF outer
        <5> QED  BY <5>1, <5>2, <5>3
      <4> QED  BY <3>1, <4>1, <4>2, <4>3
    <3> QED  BY <3>2, <3>3
  <2> QED  BY <2>1, <2>2, <2>3, <2>4
<1>12. Shape(g, L, t, V)  BY <1>2, <1>5, <1>6, <1>10, <1>11 DEF Shape, Node
<1> QED  BY <1>12 DEF t, V

(* in the same order. *)
LEMMA TurnedSorted ==
  ASSUME NEW h, NEW L, NEW top, NEW U, Shape(h, L, top, U), NEW X, Sorted(h, L, U, X),
         \A m \in L : h[m].key \in Int,
         NEW n, NEW side, CanTurn(h, L, n, side), NEW g, Turned(h, g, L, n, side),
         \A m \in L : g[m].key = h[m].key, n # X, h[n][Other(side)] # X
  PROVE  Sorted(g, L, UnderAfter(h, U, n, side), X)
<1> DEFINE o == Other(side)
           pivot == h[n][o]
           inner == h[pivot][side]
           outer == h[pivot][o]
           c == h[n][side]
           V == UnderAfter(h, U, n, side)
<1>1. /\ n \in L /\ n # null /\ side \in Child /\ o \in Child /\ Other(o) = side
      /\ pivot \in L /\ pivot # null /\ h[pivot].parent = n /\ pivot # n
      /\ inner \in L \cup {null} /\ outer \in L \cup {null} /\ c \in L \cup {null}
      /\ inner \notin {n, pivot} /\ outer \notin {n, pivot} /\ c \notin {n, pivot}
      /\ U[n] = {n} \cup U[c] \cup U[pivot] /\ U[pivot] = {pivot} \cup U[inner] \cup U[outer]
      BY TurnNodes
<1>2. /\ g[n][side] = c /\ g[n][o] = inner
      /\ g[pivot][side] = n /\ g[pivot][o] = outer
      /\ \A m \in L \ {n, pivot}, s \in Child : g[m][s] = IF h[m][s] = n THEN pivot ELSE h[m][s]
      BY DEF Turned
<1>3. V = [U EXCEPT ![pivot] = U[n], ![n] = {n} \cup U[c] \cup U[inner]]  BY DEF UnderAfter
<1>4. n # X /\ pivot # X  OBVIOUS
<1>5. \A a \in L, s \in Child : \A m \in U[h[a][s]] :
        a # X /\ m # X => m \in L /\ Lesser(s, h[m].key, h[a].key)
  BY ShapeAt DEF Sorted
<1>6. U \in [L \cup {null} -> SUBSET L] /\ null \notin L  BY NullNoNode DEF Shape
<1>7. pivot \in U[h[n][o]] /\ c = h[n][side] /\ inner = h[pivot][side] /\ outer = h[pivot][o]
      /\ pivot = h[n][o]
      BY <1>1
<1> HIDE DEF V, c, outer, inner, pivot
<1>8. /\ V[pivot] = U[n] /\ V[n] = {n} \cup U[c] \cup U[inner]
      /\ \A m \in L \cup {null} : m \notin {n, pivot} => V[m] = U[m]
      BY <1>1, <1>3, <1>6
<1>9. Lesser(side, h[n].key, h[pivot].key)
  <2>1. Lesser(o, h[pivot].key, h[n].key)  BY <1>1, <1>4, <1>5, <1>7
  <2> QED  BY <1>1, <2>1, Compare
<1> SUFFICES ASSUME NEW a \in L, NEW s \in Child, NEW m \in V[g[a][s]], a # X, m # X
             PROVE  Lesser(s, g[m].key, g[a].key)
    BY DEF Sorted, V
<1>10. CASE a = n
  <2>1. s = side \/ s = o  BY <1>1, Sides
  <2>2. m \in U[h[n][s]]
    <3>1. CASE s = side  BY <1>1, <1>2, <1>7, <1>8, <1>10, <3>1
    <3>2. CASE s = o  BY <1>1, <1>2, <1>7, <1>8, <1>10, <3>2
    <3> QED  BY <2>1, <3>1, <3>2
  <2> QED  BY <1>5, <1>10, <2>2
<1>11. CASE a = pivot
  <2>1. CASE s = o
    <3>1. m \in U[h[pivot][o]]  BY <1>1, <1>2, <1>7, <1>8, <1>11, <2>1
    <3> QED  BY <1>5, <1>11, <2>1, <3>1
  <2>2. CASE s = side
    <3>1. m = n \/ m \in U[c] \/ m \in U[inner]  BY <1>2, <1>8, <1>11, <2>2
    <3>2. CASE m = n  BY <1>1, <1>9, <1>11, <2>2, <3>2
    <3>3. CASE m \in U[inner]
      <4>1. m \in U[h[pivot][side]]  BY <1>7, <3>3
      <4> QED  BY <1>1, <1>5, <1>11, <2>2, <4>1
    <3>4. CASE m \in U[c]
      <4>1. m \in L /\ Lesser(side, h[m].key, h[n].key)  BY <1>1, <1>4, <1>5, <1>7, <3>4
      <4>2. h[m].key \in Int /\ h[n].key \in Int /\ h[pivot].key \in Int  BY <1>1, <4>1
      <4>3. Lesser(side, h[m].key, h[pivot].key)  BY <1>1, <1>9, <4>1, <4>2, Compare
      <4> QED  BY <1>1, <1>11, <2>2, <4>1, <4>3
    <3> QED  BY <3>1, <3>2, <3>3, <3>4
  <2> QED  BY <2>1, <2>2, <1>1, Sides
<1>12. CASE a \notin {n, pivot}
  <2>1. h[a][s] \in L \cup {null} /\ h[a][s] # pivot
    <3>1. h[a][s] \in L \cup {null} /\ (h[a][s] # null => h[h[a][s]].parent = a)  BY ShapeAt
    <3> QED  BY <1>1, <1>12, <3>1
  <2>2. m \in U[h[a][s]]
    <3>1. CASE h[a][s] = n  BY <1>1, <1>2, <1>8, <1>12, <3>1
    <3>2. CASE h[a][s] # n  BY <1>2, <1>8, <1>12, <2>1, <3>2
    <3> QED  BY <3>1, <3>2
  <2> QED  BY <1>5, <2>2
<1> QED  BY <1>10, <1>11, <1>12

(* What must hold of the two nodes for the others to stay in balance. *)
LEMMA TurnedBalanced ==
  ASSUME NEW h, NEW L, NEW top, NEW U, Shape(h, L, top, U),
         NEW n, NEW side, CanTurn(h, L, n, side), NEW g, Turned(h, g, L, n, side),
         NEW bh, NEW d, NEW Z, Balanced(h, L, bh, d, Z),
         NEW bh2 \in [L \cup {null} -> Nat], bh2[null] = 0, NEW d2,
         \A x \in L : x \notin {n, h[n][Other(side)]} =>
           /\ bh2[x] + Weight(h, x, Z) = bh[x] + Weight(g, x, Z)
           /\ h[x].parent \notin {n, h[n][Other(side)]} =>
                bh2[x] + Missing(x, d2) = bh[x] + Missing(x, d),
         bh2[h[n][Other(side)]] + Missing(h[n][Other(side)], d2) = bh[n] + Missing(n, d),
         \A x \in {n, h[n][Other(side)]}, s \in Child :
           bh2[x] = bh2[g[x][s]] + Missing(g[x][s], d2) + Weight(g, x, Z)
  PROVE  Balanced(g, L, bh2, d2, Z)
<1> DEFINE pivot == h[n][Other(side)]
<1>0. null \notin L  BY Zenon, NullNoNode DEF Shape
<1>1. n \in L /\ pivot \in L /\ h[pivot].parent = n /\ pivot # n /\ null \notin L
      BY <1>0, TurnNodes
<1>2. \A m \in L \ {n, pivot}, s \in Child : g[m][s] = IF h[m][s] = n THEN pivot ELSE h[m][s]
      BY DEF Turned
<1>3. /\ \A x \in L : x \notin {n, pivot} =>
           /\ bh2[x] + Weight(h, x, Z) = bh[x] + Weight(g, x, Z)
           /\ h[x].parent \notin {n, pivot} => bh2[x] + Missing(x, d2) = bh[x] + Missing(x, d)
      /\ bh2[pivot] + Missing(pivot, d2) = bh[n] + Missing(n, d)
      /\ \A x \in {n, pivot}, s \in Child :
           bh2[x] = bh2[g[x][s]] + Missing(g[x][s], d2) + Weight(g, x, Z)
      OBVIOUS
<1> HIDE DEF pivot
<1>4. ASSUME NEW m \in L \ {n, pivot}, NEW s \in Child
      PROVE  bh2[m] = bh2[g[m][s]] + Missing(g[m][s], d2) + Weight(g, m, Z)
  <2> DEFINE x == h[m][s]
             y == g[m][s]
  <2>1. x \in L \cup {null} /\ (x # null => h[x].parent = m)  BY ShapeAt
  <2>2. bh2[y] + Missing(y, d2) = bh[x] + Missing(x, d)
    <3>1. CASE x = n  BY <1>2, <1>3, <3>1
    <3>2. CASE x = null
      <4>1. y = null  BY <1>1, <1>2, <3>2
      <4> QED  BY <3>2, <4>1 DEF Balanced, Missing
    <3>3. CASE x \in L /\ x # n
      <4>1. x # pivot /\ h[x].parent \notin {n, pivot}  BY <1>1, <2>1, <3>3
      <4>2. y = x  BY <1>2, <3>3
      <4> QED  BY <1>3, <3>3, <4>1, <4>2
    <3> QED  BY <2>1, <3>1, <3>2, <3>3
  <2>3. bh[m] = bh[x] + Missing(x, d) + Weight(h, m, Z)  BY DEF Balanced
  <2>4. bh2[m] + Weight(h, m, Z) = bh[m] + Weight(g, m, Z)  BY <1>3
  <2>5. bh[x] \in Nat /\ bh[m] \in Nat /\ bh2[m] \in Nat /\ bh2[y] \in Nat
    <3>1. y \in L \cup {null}  BY <1>1, <1>2, <2>1
    <3> QED  BY <2>1, <3>1 DEF Balanced
  <2>6. /\ Weight(h, m, Z) \in Nat /\ Weight(g, m, Z) \in Nat
        /\ Missing(x, d) \in Nat /\ Missing(y, d2) \in Nat
        BY DEF Weight, Missing
  <2> HIDE DEF x, y
  <2> QED  BY <2>2, <2>3, <2>4, <2>5, <2>6 DEF y
<1>5. \A m \in L, s \in Child : bh2[m] = bh2[g[m][s]] + Missing(g[m][s], d2) + Weight(g, m, Z)
  BY <1>3, <1>4
<1> QED  BY <1>5 DEF Balanced

(* The same for the colours. *)
LEMMA TurnedColored ==
  ASSUME NEW h, NEW L, NEW top, NEW U, Shape(h, L, top, U),
         NEW n, NEW side, CanTurn(h, L, n, side), NEW g, Turned(h, g, L, n, side),
         NEW v, Colored(h, L, v), v # null => h[v].parent \in {n, h[n][Other(side)]},
         NEW w, \A m \in L : h[m].color \in {"red", "black"},
         \A x \in L : x \notin {n, h[n][Other(side)]} /\ h[x].color = "black" => g[x].color = "black",
         \A m \in L, s \in Child :
           m # h[n][Other(side)] /\ h[m][s] = n /\ g[m].color = "red" =>
             g[h[n][Other(side)]].color = "black",
         \A x \in {n, h[n][Other(side)]}, s \in Child :
           g[x][s] # null /\ g[x][s] # w /\ g[x].color = "red" => g[g[x][s]].color = "black"
  PROVE  Colored(g, L, w)
<1> DEFINE pivot == h[n][Other(side)]
<1>0. null \notin L  BY NullNoNode DEF Shape
<1>1. n \in L /\ pivot \in L /\ h[pivot].parent = n /\ pivot # n /\ null \notin L
      BY <1>0, TurnNodes
<1>2. \A m \in L \ {n, pivot}, s \in Child : g[m][s] = IF h[m][s] = n THEN pivot ELSE h[m][s]
      BY DEF Turned
<1>3. /\ v # null => h[v].parent \in {n, pivot}
      /\ \A x \in L : x \notin {n, pivot} /\ h[x].color = "black" => g[x].color = "black"
      /\ \A m \in L, s \in Child :
           m # pivot /\ h[m][s] = n /\ g[m].color = "red" => g[pivot].color = "black"
      /\ \A x \in {n, pivot}, s \in Child :
           g[x][s] # null /\ g[x][s] # w /\ g[x].color = "red" => g[g[x][s]].color = "black"
      OBVIOUS
<1> HIDE DEF pivot
<1>4. ASSUME NEW m \in L \ {n, pivot}, NEW s \in Child,
             g[m][s] # null, g[m][s] # w, g[m].color = "red"
      PROVE  g[g[m][s]].color = "black"
  <2> DEFINE x == h[m][s]
  <2>1. x \in L \cup {null} /\ (x # null => h[x].parent = m)  BY ShapeAt
  <2>2. CASE x = n  BY <1>2, <1>3, <1>4, <2>2
  <2>3. CASE x # n
    <3>1. g[m][s] = x /\ x \in L /\ x # pivot /\ x # v /\ x # null  BY <1>1, <1>2, <1>3, <1>4, <2>1, <2>3
    <3>2. h[m].color = "red"  BY <1>3, <1>4
    <3>3. h[x].color = "black"  BY <3>1, <3>2 DEF Colored
    <3> QED  BY <1>3, <3>1, <3>3, <2>3
  <2> QED  BY <2>2, <2>3
<1> QED  BY <1>3, <1>4 DEF Colored

-----------------------------------------------------------------------------
(***************************************************************************)
(* Inserting.                                                              *)
(***************************************************************************)

(* What the invariant says of the heap. *)
LEMMA Heap ==
  ASSUME IInv
  PROVE  /\ heap \in Heaps /\ live \subseteq Nodes /\ null \notin live
         /\ (pc # "insert" => Linked = live) /\ Outside(heap, Linked)
         /\ \A m \in Nodes : heap[m].key \in Int /\ \A s \in Child : heap[m][s] \in Refs
<1>1. heap \in Heaps /\ live \subseteq Nodes  BY DEF IInv, TreeTyped, Heaps
<1>2. \A m \in Nodes : heap[m].key \in Int /\ \A s \in Child : heap[m][s] \in Refs
      BY <1>1, HeapFields
<1>3. pc # "insert" => Linked = live  BY DEF Linked
<1>4. Outside(heap, Linked)
  <2> SUFFICES ASSUME NEW m \in Nodes \ Linked
               PROVE  heap[m].parent = null /\ \A s \in Child : heap[m][s] = null
      BY DEF Outside
  <2>1. CASE m \notin live
    <3>1. heap[m] = Blank  BY <2>1 DEF IInv, AtRest
    <3> QED  BY <3>1 DEF Blank, Child
  <2>2. CASE m \in live
    <3>1. pc = "insert" /\ m = node  BY <2>2 DEF Linked
    <3> QED  BY <3>1 DEF IInv, AtInsert, Parent, Child
  <2> QED  BY <2>1, <2>2
<1> QED  BY <1>1, <1>2, <1>3, <1>4, NullNoNode

(* The fields one by one. *)
LEMMA Fields ==
  ASSUME NEW g \in Heaps
  PROVE  g \in [Nodes -> [parent : Refs, left : Refs, right : Refs, color : {"red", "black"},
                          key : Key \cup {0}, value : Value \cup {0}]]
BY DEF Heaps

(* A step between the functions, in a tree that is whole again or still to mend. *)
LEMMA InnerStep ==
  ASSUME IInv, live' = live, map' = map, root' = root, tmp' = tmp, M' = M, todo' = todo,
         pc' \in Steps, pc' \notin {"idle", "insert", "deleteNode"}, node' \in Refs, heap' \in Heaps,
         \A m \in Nodes \ live : heap'[m] = heap[m],
         NEW top, NEW U, NEW bh,
         Tree(heap', live, top, U, bh, M, Short', Leaving', Violator'),
         top # null /\ heap'[top].color = "red" => pc' = "insert_case1" /\ node' = top
  PROVE  TreeTyped' /\ (\E t, V, b : IsTree(t, V, b)')
<1>1. TreeTyped'  BY Fields DEF IInv, TreeTyped
<1>2. Linked' = live  BY DEF Linked
<1>3. IsTree(top, U, bh)'  BY <1>2 DEF IsTree, Color
<1> QED  BY <1>1, <1>3

(* What is known while a node is being inserted. *)
LEMMA Inserts ==
  ASSUME IInv, Inserting
  PROVE  /\ M = null /\ map
         /\ node \in live /\ tmp \in live /\ Color(node) = "red"
         /\ \E top, U, bh :
              /\ Tree(heap, live, top, U, bh, null, null, null, node)
              /\ top # null /\ Color(top) = "red" => pc = "insert_case1" /\ node = top
<1>1. M = null /\ map /\ node \in live /\ tmp \in live /\ Color(node) = "red"
      BY DEF IInv, AtInsert, AtRest, Inserting
<1>2. Short = null /\ Leaving = null /\ Violator = node /\ Linked = live
      BY DEF Inserting, Short, Leaving, Violator, Linked, Rebalancing
<1>3. PICK top, U, bh : IsTree(top, U, bh)  BY DEF IInv
<1> QED  BY <1>1, <1>2, <1>3 DEF IsTree

(* insert_case2 keeps the invariant. *)
LEMMA InsertCase2Step == IInv /\ InsertCase2 => IInv'
<1> SUFFICES ASSUME IInv, InsertCase2 PROVE IInv'  OBVIOUS
<1>1. /\ pc = "insert_case2" /\ Inserting /\ heap' = heap
      /\ live' = live /\ map' = map /\ root' = root /\ tmp' = tmp /\ M' = M /\ todo' = todo
      /\ node' = node
      /\ pc' = IF Color(Parent(node)) = "black" THEN "setTreeRoot" ELSE "insert_case3"
      BY DEF InsertCase2, InTree, Inserting, Call
<1>2. /\ M = null /\ map /\ node \in live /\ tmp \in live /\ Color(node) = "red"
      /\ Parent(node) # null
      BY <1>1, Inserts DEF IInv, AtInsert
<1>3. PICK top, U, bh :
        /\ Tree(heap, live, top, U, bh, null, null, null, node)
        /\ top # null /\ Color(top) = "red" => pc = "insert_case1" /\ node = top
      BY <1>1, Inserts
<1>4. heap \in Heaps /\ live \subseteq Nodes /\ null \notin live  BY Heap
<1>5. node # top /\ Parent(node) \in live /\ Parent(node) \in Nodes
      BY <1>2, <1>3, <1>4, OnlyParent DEF Tree, Parent
<1>6. Tree(heap', live, top, U, bh, M, Short', Leaving', Violator')
  <2>1. M' = null /\ Short' = null /\ Leaving' = null
        BY <1>1, <1>2 DEF Short, Leaving, Rebalancing
  <2>2. CASE Color(Parent(node)) = "black"
    <3>1. Violator' = null  BY <1>1, <2>2 DEF Violator, Inserting
    <3>2. Colored(heap, live, null)
      <4> SUFFICES ASSUME NEW n \in live, NEW s \in Child, heap[n][s] # null, heap[n].color = "red"
                   PROVE  heap[heap[n][s]].color = "black"
          BY DEF Colored
      <4>1. heap[n][s] # node
        <5>1. heap[n][s] = node => heap[node].parent = n  BY <1>2, <1>3, OnlyParent DEF Tree
        <5> QED  BY <2>2, <5>1 DEF Color, Parent
      <4> QED  BY <1>3, <4>1 DEF Tree, Colored
    <3> QED  BY <1>1, <1>3, <2>1, <3>1, <3>2 DEF Tree
  <2>3. CASE Color(Parent(node)) # "black"
    <3>1. Violator' = node  BY <1>1, <2>3 DEF Violator, Inserting
    <3> QED  BY <1>1, <1>3, <2>1, <3>1
  <2> QED  BY <2>2, <2>3
<1>7. pc' \in Steps /\ pc' \in {"setTreeRoot", "insert_case3"}  BY <1>1 DEF Steps
<1>8. TreeTyped' /\ (\E t, V, b : IsTree(t, V, b)')
  <2>1. node' \in Refs  BY <1>1, <1>2, <1>4 DEF Refs
  <2> QED  BY <1>1, <1>3, <1>4, <1>6, <1>7, <2>1, InnerStep DEF Color
<1>9. Color(Parent(node)) \in {"red", "black"}  BY <1>4, <1>5, HeapFields DEF Color
<1>10. AtInsert'
  BY <1>1, <1>2, <1>7, <1>9 DEF AtInsert, Inserting, Parent, Color
<1>11. AtDelete'  BY <1>7 DEF AtDelete, AtCase, Rebalancing
<1>12. AtRest'  BY <1>1, <1>2, <1>4, <1>7 DEF IInv, AtRest, Inserting
<1> QED  BY <1>8, <1>10, <1>11, <1>12 DEF IInv

(* A step of an insertion, to the next case or to its end. *)
LEMMA InsertStep ==
  ASSUME IInv, Inserting, InTree, heap' \in Heaps, \A m \in Nodes \ live : heap'[m] = heap[m],
         NEW top, NEW U, NEW bh, NEW v, Tree(heap', live, top, U, bh, null, null, null, v),
         \/ /\ pc' = "setTreeRoot" /\ v = null /\ node' \in live
            /\ top # null => heap'[top].color # "red"
         \/ /\ Inserting' /\ v = node' /\ node' \in live /\ heap'[node'].color = "red"
            /\ top # null /\ heap'[top].color = "red" => pc' = "insert_case1" /\ node' = top
            /\ AtInsert'
  PROVE  IInv'
<1>1. /\ live' = live /\ map' = map /\ root' = root /\ tmp' = tmp /\ M' = M /\ todo' = todo
      /\ M = null /\ map /\ tmp \in live
      BY Inserts DEF InTree
<1>2. live \subseteq Nodes /\ null \notin live  BY Heap
<1>3. /\ pc' \in Steps /\ pc' \notin {"idle", "insert", "deleteNode"} /\ node' \in Refs
      /\ pc \notin {"idle", "insert", "deleteNode"}
      BY <1>2 DEF Inserting, Steps, Refs
<1>4. Short' = null /\ Leaving' = null /\ Violator' = v
      BY DEF Inserting, Short, Leaving, Rebalancing, Violator
<1>5. Tree(heap', live, top, U, bh, M, Short', Leaving', Violator')  BY <1>1, <1>4
<1>6. top # null /\ heap'[top].color = "red" => pc' = "insert_case1" /\ node' = top  OBVIOUS
<1>7. TreeTyped' /\ (\E t, V, b : IsTree(t, V, b)')
  BY <1>1, <1>3, <1>5, <1>6, InnerStep
<1>8. AtInsert'  BY DEF AtInsert, Inserting
<1>9. AtDelete'  BY DEF AtDelete, AtCase, Rebalancing, Inserting
<1>10. AtRest'  BY <1>1, <1>2 DEF IInv, AtRest, Inserting
<1> QED  BY <1>7, <1>8, <1>9, <1>10 DEF IInv

(* Paint changes colours alone. *)
LEMMA PaintLinks ==
  ASSUME NEW h \in Heaps, NEW g \in Heaps, SameLinks(h, g), NEW n \in Nodes, NEW c \in Colors
  PROVE  /\ Paint(g, n, c) \in Heaps /\ SameLinks(h, Paint(g, n, c))
         /\ \A m \in Nodes : /\ Paint(g, n, c)[m].color = IF m = n THEN c ELSE g[m].color
                             /\ Paint(g, n, c)[m].value = g[m].value
                             /\ m # n => Paint(g, n, c)[m] = g[m]
<1>1. /\ Paint(g, n, c) \in Heaps
      /\ \A m \in Nodes : m # n => Paint(g, n, c)[m] = g[m]
      /\ Paint(g, n, c)[n].key = g[n].key /\ Paint(g, n, c)[n].value = g[n].value
      /\ Paint(g, n, c)[n].color = c /\ Paint(g, n, c)[n].parent = g[n].parent
      /\ \A s \in Child : Paint(g, n, c)[n][s] = g[n][s]
      BY Painted
<1> QED  BY <1>1 DEF SameLinks

(* A heap has its own links. *)
LEMMA LinksOfItself == \A h : SameLinks(h, h)
BY DEF SameLinks

(* Where a node hangs. *)
LEMMA Hanging ==
  ASSUME NEW h, NEW L, NEW top, NEW U, Shape(h, L, top, U), NEW n \in L, h[n].parent # null
  PROVE  LET p == h[n].parent
             s == IF n = h[p].left THEN "left" ELSE "right"
             b == h[p][Other(s)]
         IN /\ p \in L /\ p # n /\ n # top /\ s \in Child /\ Other(s) \in Child /\ Other(Other(s)) = s
            /\ h[p][s] = n /\ b # n /\ b # p /\ b \in L \cup {null}
            /\ b # null => h[b].parent = p /\ b # top
<1> DEFINE p == h[n].parent
           s == IF n = h[p].left THEN "left" ELSE "right"
<1>1. n # top  BY OnlyParent
<1>2. PICK t \in Child : p \in L /\ h[p][t] = n  BY <1>1, OnlyParent
<1>3. h[p][Other(t)] # n  BY <1>2, OnlyParent
<1>4. s = t  BY <1>2, <1>3 DEF Child, Other
<1> DEFINE b == h[p][Other(t)]
<1>5. Other(t) \in Child /\ Other(Other(t)) = t  BY Sides
<1>6. b \in L \cup {null} /\ (b # null => h[b].parent = p)  BY <1>2, <1>5, ShapeAt
<1>7. p # n /\ b # p
  <2>1. p \in U[p] /\ p \notin U[h[p][t]] /\ p \notin U[h[p][Other(t)]] /\ n \in U[n]
        BY <1>2, <1>5, Self, ShapeAt
  <2>2. b \in L => b \in U[b]  BY Self
  <2>3. p # null  OBVIOUS
  <2> QED  BY <1>2, <1>6, <2>1, <2>2, <2>3
<1>8. b # null => b # top
  <2>1. b # null => b \in L /\ h[b].parent # null  BY <1>6
  <2> QED  BY <2>1, OnlyParent
<1> HIDE DEF p, s
<1> QED  BY <1>1, <1>2, <1>3, <1>4, <1>5, <1>6, <1>7, <1>8 DEF p, s

(* insert_case1 keeps the invariant: the root gets black. *)
LEMMA InsertCase1Step == IInv /\ InsertCase1 => IInv'
<1> SUFFICES ASSUME IInv, InsertCase1 PROVE IInv'  OBVIOUS
<1>1. pc = "insert_case1" /\ Inserting /\ InTree  BY DEF InsertCase1, Inserting
<1>2. /\ heap \in Heaps /\ live \subseteq Nodes /\ null \notin live
      /\ node \in live /\ Color(node) = "red"
      BY <1>1, Heap, Inserts
<1>3. PICK top, U, bh :
        /\ Tree(heap, live, top, U, bh, null, null, null, node)
        /\ top # null /\ Color(top) = "red" => pc = "insert_case1" /\ node = top
      BY <1>1, Inserts
<1>4. Shape(heap, live, top, U)  BY <1>3 DEF Tree
<1>5. CASE Parent(node) # null
  <2>1. heap' = heap /\ pc' = "insert_case2" /\ node' = node /\ live' = live /\ tmp' = tmp
        BY <1>1, <1>5 DEF InsertCase1, Call, InTree
  <2>2. node # top  BY <1>2, <1>4, <1>5, Hanging DEF Parent
  <2>3. tmp \in live  BY <1>1, Inserts
  <2>4. Inserting' /\ AtInsert'
        BY <1>2, <1>5, <2>1, <2>3 DEF AtInsert, Inserting, Parent, Color
  <2> QED  BY <1>1, <1>2, <1>3, <2>1, <2>2, <2>4, InsertStep DEF Color
<1>6. CASE Parent(node) = null
  <2>1. heap' = Paint(heap, node, "black") /\ pc' = "setTreeRoot" /\ node' = node
        BY <1>6 DEF InsertCase1, Call
  <2>2. /\ heap' \in Heaps /\ SameLinks(heap, heap')
        /\ \A m \in Nodes : /\ heap'[m].color = IF m = node THEN "black" ELSE heap[m].color
                            /\ m # node => heap'[m] = heap[m]
        BY <1>2, <2>1, PaintLinks, LinksOfItself, BothColors
  <2>3. node = top  BY <1>2, <1>4, <1>6, Hanging, OnlyParent DEF Parent
  <2> DEFINE b == [bh EXCEPT ![node] = bh[node] + 1]
  <2>4. /\ bh \in [live \cup {null} -> Nat] /\ bh[null] = 0
        /\ \A n \in live, s \in Child :
             bh[n] = bh[heap[n][s]] + Missing(heap[n][s], null) + Weight(heap, n, null)
        BY <1>3 DEF Tree, Balanced
  <2>5. b \in [live \cup {null} -> Nat] /\ b[null] = 0 /\ b[node] = bh[node] + 1
        /\ \A m \in live \cup {null} : m # node => b[m] = bh[m]
        BY <1>2, <2>4
  <2> HIDE DEF b
  <2>6. \A n \in live, s \in Child : /\ heap'[n][s] = heap[n][s] /\ heap[n][s] # node
                                     /\ heap[n][s] \in live \cup {null} /\ n \in Nodes
    <3> TAKE n \in live, s \in Child
    <3>1. heap[n][s] # node
      <4>1. heap[n][s] = node => heap[node].parent = n  BY <1>2, <1>4, OnlyParent
      <4> QED  BY <1>2, <1>6, <4>1 DEF Parent
    <3>2. heap[n][s] \in live \cup {null} /\ n \in Nodes  BY <1>4, ShapeAt
    <3> QED  BY <2>2, <3>1, <3>2 DEF SameLinks
  <2>7. Balanced(heap', live, b, null, null)
    <3> SUFFICES ASSUME NEW n \in live, NEW s \in Child
                 PROVE  b[n] = b[heap'[n][s]] + Missing(heap'[n][s], null) + Weight(heap', n, null)
        BY <2>5 DEF Balanced
    <3>1. b[heap'[n][s]] = bh[heap[n][s]] /\ Missing(heap'[n][s], null) = Missing(heap[n][s], null)
          BY <2>5, <2>6
    <3>2. bh[n] = bh[heap[n][s]] + Missing(heap[n][s], null) + Weight(heap, n, null)  BY <2>4
    <3>3. bh[heap[n][s]] \in Nat /\ Missing(heap[n][s], null) = 0  BY <2>4, <2>6 DEF Missing
    <3>4. CASE n = node
      <4>1. Weight(heap, n, null) = 0 /\ Weight(heap', n, null) = 1
            BY <1>2, <2>2, <3>4 DEF Weight, Color
      <4> QED  BY <2>5, <3>1, <3>2, <3>3, <3>4, <4>1
    <3>5. CASE n # node
      <4>1. Weight(heap', n, null) = Weight(heap, n, null)  BY <2>2, <2>6, <3>5 DEF Weight
      <4> QED  BY <2>5, <3>1, <3>2, <3>5, <4>1
    <3> QED  BY <3>4, <3>5
  <2>8. Colored(heap', live, null)
    <3> SUFFICES ASSUME NEW n \in live, NEW s \in Child, heap'[n][s] # null, heap'[n].color = "red"
                 PROVE  heap'[heap'[n][s]].color = "black"
        BY DEF Colored
    <3>1. heap'[n][s] = heap[n][s] /\ heap[n][s] # node /\ heap[n][s] \in Nodes /\ n # node
          BY <1>2, <2>2, <2>6
    <3>2. heap[heap[n][s]].color = "black"  BY <1>3, <2>2, <2>6, <3>1 DEF Tree, Colored
    <3> QED  BY <2>2, <3>1, <3>2
  <2>9. Tree(heap', live, top, U, b, null, null, null, null)
        BY <1>3, <2>2, <2>7, <2>8, SameShape DEF Tree
  <2>10. \A m \in Nodes \ live : heap'[m] = heap[m]  BY <1>2, <2>2
  <2>11. heap'[top].color # "red"  BY Zenon, <1>2, <2>2, <2>3
  <2> QED  BY <1>1, <1>2, <2>1, <2>2, <2>9, <2>10, <2>11, InsertStep
<1> QED  BY <1>5, <1>6

(* The nodes that the cases 3 to 5 of an insertion are about. *)
LEMMA Family ==
  ASSUME IInv, pc \in {"insert_case3", "insert_case4", "insert_case5"}
  PROVE  LET p == heap[node].parent
             g == heap[p].parent
             t == SideOf(node)
             s == SideOf(p)
             u == heap[g][Other(s)]
         IN /\ node \in live /\ p \in live /\ g \in live /\ node # p /\ node # g /\ p # g
            /\ t \in Child /\ Other(t) \in Child /\ Other(Other(t)) = t
            /\ s \in Child /\ Other(s) \in Child /\ Other(Other(s)) = s
            /\ heap[p][t] = node /\ heap[g][s] = p /\ Uncle(node) = u
            /\ u \in live \cup {null} /\ u \notin {node, p, g} /\ (u # null => heap[u].parent = g)
            /\ heap[node].color = "red" /\ heap[p].color = "red" /\ heap[g].color = "black"
            /\ \E top, U, bh : /\ Tree(heap, live, top, U, bh, null, null, null, node)
                               /\ top # null => heap[top].color = "black"
                               /\ node # top /\ p # top
<1> DEFINE p == heap[node].parent
           g == heap[p].parent
           t == SideOf(node)
           s == SideOf(p)
           u == heap[g][Other(s)]
<1>1. Inserting /\ pc # "insert_case1"  BY DEF Inserting
<1>2. /\ heap \in Heaps /\ live \subseteq Nodes /\ null \notin live
      /\ node \in live /\ heap[node].color = "red"
      BY <1>1, Heap, Inserts DEF Color
<1>3. p # null /\ heap[p].color = "red"  BY <1>1 DEF IInv, AtInsert, Parent, Color
<1>4. PICK top, U, bh :
        /\ Tree(heap, live, top, U, bh, null, null, null, node)
        /\ top # null /\ Color(top) = "red" => pc = "insert_case1" /\ node = top
      BY <1>1, Inserts
<1>5. Shape(heap, live, top, U)  BY <1>4 DEF Tree
<1>6. /\ p \in live /\ p # node /\ node # top /\ t \in Child /\ Other(t) \in Child /\ Other(Other(t)) = t
      /\ heap[p][t] = node
      BY <1>2, <1>3, <1>5, Hanging DEF SideOf, Parent
<1>7. top # null => heap[top].color = "black"
  <2>1. top # null => top \in Nodes  BY <1>2, <1>5 DEF Shape
  <2> QED  BY <1>1, <1>2, <1>4, <2>1, HeapFields DEF Color
<1>8. p # top  BY <1>2, <1>3, <1>6, <1>7
<1>9. g # null
  <2>1. heap[p].parent \in live  BY <1>5, <1>6, <1>8, OnlyParent
  <2> QED  BY <1>2, <2>1
<1>10. /\ g \in live /\ g # p /\ s \in Child /\ Other(s) \in Child /\ Other(Other(s)) = s
       /\ heap[g][s] = p /\ u # p /\ u # g /\ u \in live \cup {null}
       /\ u # null => heap[u].parent = g
  <2> HIDE DEF p
  <2> QED  BY <1>5, <1>6, <1>9, Hanging DEF SideOf, Parent
<1>11. u # node  BY <1>2, <1>10
<1>12. heap[g].color = "black"
  <2>1. p # node /\ heap[g][s] = p /\ p # null  BY <1>3, <1>6, <1>10
  <2>2. heap[g].color \in {"red", "black"}  BY <1>2, <1>10, HeapFields
  <2>3. heap[g].color = "red" => heap[p].color = "black"  BY <1>4, <1>10, <2>1 DEF Tree, Colored
  <2> QED  BY <1>3, <2>2, <2>3
<1>13. Uncle(node) = u  BY DEF Uncle, Brother, Parent, SideOf
<1>14. node # g  BY <1>2, <1>12
<1> HIDE DEF s, t, u, p, g
<1> QED  BY <1>2, <1>3, <1>4, <1>6, <1>7, <1>8, <1>10, <1>11, <1>12, <1>13, <1>14 DEF s, t, u, p, g

(* insert_case3 keeps the invariant: the two red nodes move up by two levels. *)
LEMMA InsertCase3Step == IInv /\ InsertCase3 => IInv'
<1> SUFFICES ASSUME IInv, InsertCase3 PROVE IInv'  OBVIOUS
<1> DEFINE p == heap[node].parent
           g == heap[p].parent
           t == SideOf(node)
           s == SideOf(p)
           u == heap[g][Other(s)]
<1>1. /\ pc = "insert_case3" /\ Inserting /\ InTree
      /\ pc \in {"insert_case3", "insert_case4", "insert_case5"}
      BY DEF InsertCase3, Inserting
<1>2. /\ node \in live /\ p \in live /\ g \in live /\ node # p /\ node # g /\ p # g
      /\ s \in Child /\ Other(s) \in Child
      /\ heap[p][t] = node /\ heap[g][s] = p /\ Uncle(node) = u
      /\ u \in live \cup {null} /\ u \notin {node, p, g} /\ (u # null => heap[u].parent = g)
      /\ heap[node].color = "red" /\ heap[p].color = "red" /\ heap[g].color = "black"
      BY <1>1, Family
<1>3. PICK top, U, bh : /\ Tree(heap, live, top, U, bh, null, null, null, node)
                        /\ top # null => heap[top].color = "black"
                        /\ node # top /\ p # top
      BY <1>1, Family
<1>4. /\ heap \in Heaps /\ live \subseteq Nodes /\ null \notin live /\ tmp \in live /\ tmp' = tmp
      /\ live' = live
      BY <1>1, Heap, Inserts DEF InTree
<1>5. Parent(node) = p /\ Grandparent(node) = g  BY DEF Parent, Grandparent
<1>6. CASE ~IsRed(Uncle(node))
  <2>1. heap' = heap /\ pc' = "insert_case4" /\ node' = node
        BY <1>6 DEF InsertCase3, Call
  <2>2. IsRed(Uncle(node))' = IsRed(Uncle(node)) /\ Parent(node)' = p
        BY <2>1 DEF IsRed, Uncle, Brother, SideOf, Parent, Color
  <2>3. Inserting' /\ AtInsert'
    <3>1. Color(Parent(node))' = "red"  BY <1>2, <2>1 DEF Color, Parent
    <3>2. p # null  BY <1>2, <1>4
    <3> HIDE DEF p
    <3> QED  BY <1>2, <1>4, <1>6, <2>1, <2>2, <3>1, <3>2 DEF AtInsert, Inserting, Color
  <2> HIDE DEF p, g, u, s, t
  <2> QED  BY <1>1, <1>2, <1>3, <1>4, <2>1, <2>3, InsertStep
<1>7. CASE IsRed(Uncle(node))
  <2>1. /\ heap' = Paint(Paint(Paint(heap, p, "black"), u, "black"), g, "red")
        /\ pc' = "insert_case1" /\ node' = g
        BY Zenon, <1>2, <1>5, <1>7 DEF InsertCase3, Call
  <2>2. u \in live /\ heap[u].color = "red" /\ heap[u].parent = g
        BY <1>2, <1>7 DEF IsRed, Color
  <2>3. heap[p].parent = g /\ heap[g][Other(s)] = u  OBVIOUS
  <2> HIDE DEF p, g, u, s, t
  <2>4. /\ heap' \in Heaps /\ SameLinks(heap, heap')
        /\ \A m \in Nodes : /\ heap'[m].color = IF m = g THEN "red" ELSE IF m \in {p, u} THEN "black"
                                                ELSE heap[m].color
                            /\ m \notin {g, p, u} => heap'[m] = heap[m]
    <3> DEFINE h1 == Paint(heap, p, "black")
               h2 == Paint(h1, u, "black")
    <3>0. p \in Nodes /\ u \in Nodes /\ g \in Nodes  BY <1>2, <1>4, <2>2
    <3>1. /\ h1 \in Heaps /\ SameLinks(heap, h1)
          /\ \A m \in Nodes : /\ h1[m].color = IF m = p THEN "black" ELSE heap[m].color
                              /\ m # p => h1[m] = heap[m]
          BY <1>4, <3>0, PaintLinks, LinksOfItself, BothColors
    <3> HIDE DEF h1
    <3>2. /\ h2 \in Heaps /\ SameLinks(heap, h2)
          /\ \A m \in Nodes : /\ h2[m].color = IF m = u THEN "black" ELSE h1[m].color
                              /\ m # u => h2[m] = h1[m]
          BY <1>4, <3>0, <3>1, PaintLinks, BothColors
    <3> HIDE DEF h2
    <3> DEFINE h3 == Paint(h2, g, "red")
    <3>3. heap' = h3  BY <2>1 DEF h1, h2
    <3>4. /\ h3 \in Heaps /\ SameLinks(heap, h3)
          /\ \A m \in Nodes : /\ h3[m].color = IF m = g THEN "red" ELSE h2[m].color
                              /\ m # g => h3[m] = h2[m]
          BY <1>4, <3>0, <3>2, PaintLinks, BothColors
    <3> HIDE DEF h3
    <3> QED  BY <3>1, <3>2, <3>3, <3>4
  <2>5. Shape(heap, live, top, U)  BY <1>3 DEF Tree
  <2> DEFINE b == [bh EXCEPT ![p] = bh[p] + 1, ![u] = bh[u] + 1]
  <2>6. /\ bh \in [live \cup {null} -> Nat] /\ bh[null] = 0
        /\ \A n \in live, z \in Child :
             bh[n] = bh[heap[n][z]] + Missing(heap[n][z], null) + Weight(heap, n, null)
        BY <1>3 DEF Tree, Balanced
  <2>7. /\ b \in [live \cup {null} -> Nat] /\ b[null] = 0 /\ b[p] = bh[p] + 1 /\ b[u] = bh[u] + 1
        /\ \A m \in live \cup {null} : m \notin {p, u} => b[m] = bh[m]
        BY <1>2, <1>4, <2>2, <2>6
  <2> HIDE DEF b
  <2>8. ASSUME NEW n \in live, NEW z \in Child
        PROVE  /\ heap'[n][z] = heap[n][z] /\ n \in Nodes /\ heap[n][z] \in live \cup {null}
               /\ heap[n][z] \in {p, u} => n = g
               /\ n = g => heap[n][z] \in {p, u}
    <3>1. heap[n][z] \in live \cup {null} /\ n \in Nodes /\ (heap[n][z] # null => heap[heap[n][z]].parent = n)
          BY <2>5, ShapeAt
    <3>2. n = g => heap[n][z] \in {p, u}  BY <1>2, <2>3, Sides
    <3> QED  BY <1>2, <1>4, <2>2, <2>3, <2>4, <3>1, <3>2 DEF SameLinks
  <2>9. Balanced(heap', live, b, null, null)
    <3> SUFFICES ASSUME NEW n \in live, NEW z \in Child
                 PROVE  b[n] = b[heap'[n][z]] + Missing(heap'[n][z], null) + Weight(heap', n, null)
        BY <2>7 DEF Balanced
    <3> DEFINE x == heap[n][z]
    <3>1. heap'[n][z] = x /\ x \in live \cup {null} /\ n \in Nodes /\ n # null
          BY <1>4, <2>8
    <3>2. bh[n] = bh[x] + Missing(x, null) + Weight(heap, n, null)  BY <2>6
    <3>3. bh[x] \in Nat /\ Missing(x, null) = 0  BY <2>6, <3>1 DEF Missing
    <3>4. n = g => x \in {p, u}  BY <2>8
    <3>5. x \in {p, u} => n = g  BY <2>8
    <3> HIDE DEF x
    <3>6. CASE n = g
      <4>1. Weight(heap, n, null) = 1 /\ Weight(heap', n, null) = 0
            BY <1>2, <2>4, <3>1, <3>6 DEF Weight
      <4>2. b[x] = bh[x] + 1 /\ b[n] = bh[n]  BY <1>2, <2>7, <3>4, <3>6
      <4> QED  BY <3>1, <3>2, <3>3, <4>1, <4>2
    <3>7. CASE n \in {p, u}
      <4>1. Weight(heap, n, null) = 0 /\ Weight(heap', n, null) = 1
            BY <1>2, <2>2, <2>4, <3>1, <3>7 DEF Weight
      <4>2. b[x] = bh[x] /\ b[n] = bh[n] + 1  BY <1>2, <2>7, <3>1, <3>5, <3>7
      <4> QED  BY <3>1, <3>2, <3>3, <4>1, <4>2
    <3>8. CASE n \notin {g, p, u}
      <4>1. Weight(heap', n, null) = Weight(heap, n, null)  BY <2>4, <3>1, <3>8 DEF Weight
      <4>2. b[x] = bh[x] /\ b[n] = bh[n]  BY <2>7, <3>1, <3>5, <3>8
      <4> QED  BY <3>1, <3>2, <4>1, <4>2
    <3> QED  BY <3>6, <3>7, <3>8
  <2>10. Colored(heap', live, g)
    <3> SUFFICES ASSUME NEW n \in live, NEW z \in Child, heap'[n][z] # null, heap'[n][z] # g,
                        heap'[n].color = "red"
                 PROVE  heap'[heap'[n][z]].color = "black"
        BY DEF Colored
    <3> DEFINE x == heap[n][z]
    <3>1. heap'[n][z] = x /\ x \in live /\ x \in Nodes /\ n \in Nodes /\ x # null
          BY <1>4, <2>8
    <3>2. CASE x \in {p, u}  BY <1>2, <2>4, <3>1, <3>2
    <3>3. CASE x \notin {p, u}
      <4>1. n \notin {p, u, g} /\ heap[n].color = "red"
        <5>1. n # g  BY <2>8, <3>3
        <5>2. n \notin {p, u}  BY <1>2, <2>4, <3>1
        <5> QED  BY <2>4, <3>1, <5>1, <5>2
      <4>2. x # node
        <5>1. x = node => heap[node].parent = n  BY <2>5, <1>2, OnlyParent
        <5> QED  BY <4>1, <5>1 DEF p
      <4>3. heap[x].color = "black"  BY <1>3, <3>1, <4>1, <4>2 DEF Tree, Colored
      <4> QED  BY <2>4, <3>1, <3>3, <4>3
    <3> QED  BY <3>2, <3>3
  <2>11. Tree(heap', live, top, U, b, null, null, null, g)
         BY <1>3, <2>4, <2>9, <2>10, SameShape DEF Tree
  <2>12. \A m \in Nodes \ live : heap'[m] = heap[m]  BY <1>2, <2>2, <2>4
  <2>13. heap'[g].color = "red"  BY <1>2, <1>4, <2>4
  <2>14. top # null /\ heap'[top].color = "red" => top = g
    <3>1. top # null => top \in Nodes  BY <2>5 DEF Shape
    <3> QED  BY <1>2, <1>3, <1>4, <2>4, <3>1
  <2>15. Inserting' /\ AtInsert'
         BY <1>2, <1>4, <2>1, <2>13 DEF AtInsert, Inserting, Color
  <2> QED  BY <1>1, <1>2, <2>1, <2>4, <2>11, <2>12, <2>13, <2>14, <2>15, InsertStep
<1> QED  BY <1>6, <1>7

(* The side on which a node hangs, found by looking at the parent. *)
LEMMA SideIs ==
  ASSUME NEW h, NEW n, NEW s \in Child, h[h[n].parent][s] = n, h[h[n].parent][Other(s)] # n
  PROVE  (IF n = h[h[n].parent].left THEN "left" ELSE "right") = s
BY DEF Child, Other

(* insert_case4 keeps the invariant: the inner node is turned to the outside. *)
LEMMA InsertCase4Step == IInv /\ InsertCase4 => IInv'
<1> SUFFICES ASSUME IInv, InsertCase4 PROVE IInv'  OBVIOUS
<1>0. PICK p, g, t, s, u : /\ p = heap[node].parent /\ g = heap[p].parent /\ t = SideOf(node)
                           /\ s = SideOf(p) /\ u = heap[g][Other(s)]
      OBVIOUS
<1>1. /\ pc = "insert_case4" /\ Inserting /\ InTree
      /\ pc \in {"insert_case3", "insert_case4", "insert_case5"}
      BY Zenon DEF InsertCase4, Inserting
<1>2. /\ node \in live /\ p \in live /\ g \in live /\ node # p /\ node # g /\ p # g
      /\ t \in Child /\ Other(t) \in Child /\ s \in Child /\ Other(s) \in Child /\ Other(Other(s)) = s
      /\ heap[p][t] = node /\ heap[g][s] = p /\ Uncle(node) = u
      /\ u \in live \cup {null} /\ u \notin {node, p, g} /\ (u # null => heap[u].parent = g)
      /\ heap[node].color = "red" /\ heap[p].color = "red" /\ heap[g].color = "black"
      BY <1>0, <1>1, Family
<1>3. PICK top, U, bh : /\ Tree(heap, live, top, U, bh, null, null, null, node)
                        /\ top # null => heap[top].color = "black"
                        /\ node # top /\ p # top
      BY <1>0, <1>1, Family
<1>4. /\ heap \in Heaps /\ live \subseteq Nodes /\ null \notin live /\ tmp \in live /\ tmp' = tmp
      /\ live' = live /\ \A m \in Nodes : heap[m].key \in Int
      BY <1>1, Heap, Inserts DEF InTree
<1>5. u = null \/ heap[u].color # "red"
  <2>1. ~IsRed(Uncle(node))  BY <1>1 DEF IInv, AtInsert
  <2> QED  BY <1>2, <2>1 DEF IsRed, Color
<1>6. CASE t = s
  <2>1. heap' = heap /\ pc' = "insert_case5" /\ node' = node
        BY <1>0, <1>6 DEF InsertCase4, Call, Parent
  <2>2. AtInsert'
    <3>1. /\ ~IsRed(Uncle(node)) /\ Parent(node) # null /\ Color(Parent(node)) = "red"
          /\ SideOf(node) = SideOf(Parent(node))
          BY <1>0, <1>1, <1>2, <1>4, <1>6 DEF IInv, AtInsert, Parent, Color
    <3>2. /\ (~IsRed(Uncle(node)))' /\ (Parent(node) # null)' /\ (Color(Parent(node)) = "red")'
          /\ (SideOf(node) = SideOf(Parent(node)))'
          BY Zenon, <2>1, <3>1 DEF IsRed, Uncle, Brother, SideOf, Parent, Color
    <3> QED  BY <1>2, <1>4, <2>1, <3>2 DEF AtInsert, Inserting, Color
  <2>3. Inserting'  BY <2>1 DEF Inserting
  <2> QED  BY <1>1, <1>2, <1>3, <1>4, <2>1, <2>2, <2>3, InsertStep
<1>7. CASE t # s
  <2>1. heap' = Rotate(heap, p, s) /\ pc' = "insert_case5" /\ node' = p
        BY <1>0, <1>7 DEF InsertCase4, Call, Parent
  <2>2. /\ Shape(heap, live, top, U) /\ Sorted(heap, live, U, null)
        /\ Balanced(heap, live, bh, null, null) /\ Colored(heap, live, node)
        BY <1>3 DEF Tree
  <2>3. heap[p][Other(s)] = node /\ CanTurn(heap, live, p, s)
    <3>1. t = Other(s)  BY <1>2, <1>7, Sides
    <3> QED  BY <1>2, <1>4, <3>1 DEF CanTurn
  <2>4. /\ Turned(heap, heap', live, p, s) /\ Keeps(heap, heap', live)
        /\ \A m \in Nodes : heap'[m].color = heap[m].color
        BY <1>4, <2>1, <2>2, <2>3, RotateTurns, LinksOfItself
  <2>5. PICK inner, outer, c : inner = heap[node][s] /\ outer = heap[node][Other(s)] /\ c = heap[p][s]
        OBVIOUS
  <2>6. /\ inner \in live \cup {null} /\ outer \in live \cup {null} /\ c \in live \cup {null}
        /\ inner \notin {p, node} /\ outer \notin {p, node} /\ c \notin {p, node}
        BY <2>2, <2>3, <2>5, TurnNodes
  <2>7. /\ heap'[p][s] = c /\ heap'[p][Other(s)] = inner
        /\ heap'[node][s] = p /\ heap'[node][Other(s)] = outer
        /\ \A m \in live \ {p, node}, z \in Child : heap'[m][z] = IF heap[m][z] = p THEN node ELSE heap[m][z]
        /\ heap'[p].parent = node /\ heap'[node].parent = g
        BY <1>0, <2>3, <2>4, <2>5 DEF Turned
  <2>8. \A z \in Child : z = s \/ z = Other(s)  BY <1>2, Sides
  <2>9. \A m \in live : m \in Nodes /\ m # null /\ heap'[m].key = heap[m].key /\ heap'[m].color = heap[m].color
        BY <1>4, <2>4 DEF Keeps
  <2> DEFINE V == UnderAfter(heap, U, p, s)
  <2>10. Shape(heap', live, top, V)
    <3>1. TopAfter(heap, top, p, s) = top  BY <1>3 DEF TopAfter
    <3> QED  BY <2>2, <2>3, <2>4, <3>1, TurnedShape
  <2>11. Sorted(heap', live, V, null)
         BY <1>2, <1>4, <2>2, <2>3, <2>4, <2>9, TurnedSorted
  <2> HIDE DEF V
  <2>12. Balanced(heap', live, bh, null, null)
    <3>1. /\ bh \in [live \cup {null} -> Nat] /\ bh[null] = 0
          /\ \A n \in live, z \in Child :
               bh[n] = bh[heap[n][z]] + Missing(heap[n][z], null) + Weight(heap, n, null)
          BY <2>2 DEF Balanced
    <3>2. \A x : Missing(x, null) = 0  BY DEF Missing
    <3>3. \A x \in live : Weight(heap', x, null) = Weight(heap, x, null)  BY <2>9 DEF Weight
    <3>4. Weight(heap, p, null) = 0 /\ Weight(heap, node, null) = 0  BY <1>2 DEF Weight
    <3>5. bh[p] \in Nat /\ bh[node] \in Nat /\ bh[c] \in Nat /\ bh[inner] \in Nat /\ bh[outer] \in Nat
          BY <1>2, <2>6, <3>1
    <3>6. bh[p] = bh[node] /\ bh[p] = bh[c] /\ bh[node] = bh[inner] /\ bh[node] = bh[outer]
      <4>1. /\ bh[p] = bh[heap[p][Other(s)]] + 0 + 0 /\ bh[p] = bh[heap[p][s]] + 0 + 0
            /\ bh[node] = bh[heap[node][s]] + 0 + 0 /\ bh[node] = bh[heap[node][Other(s)]] + 0 + 0
            BY <1>2, <3>1, <3>2, <3>4
      <4> QED  BY <2>3, <2>5, <3>5, <4>1
    <3>7. \A x \in {p, heap[p][Other(s)]}, z \in Child :
            bh[x] = bh[heap'[x][z]] + Missing(heap'[x][z], null) + Weight(heap', x, null)
      <4> SUFFICES ASSUME NEW x \in {p, node}, NEW z \in Child
                   PROVE  bh[x] = bh[heap'[x][z]] + Missing(heap'[x][z], null) + Weight(heap', x, null)
          BY <2>3
      <4>1. bh[heap'[x][z]] = bh[x]  BY <2>7, <2>8, <3>6
      <4>2. Weight(heap', x, null) = 0 /\ bh[x] \in Nat  BY <1>2, <3>3, <3>4, <3>5
      <4> QED  BY <3>2, <4>1, <4>2
    <3>8. bh[heap[p][Other(s)]] + Missing(heap[p][Other(s)], null) = bh[p] + Missing(p, null)
          BY <2>3, <3>2, <3>6
    <3>9. \A x \in live : x \notin {p, heap[p][Other(s)]} =>
            /\ bh[x] + Weight(heap, x, null) = bh[x] + Weight(heap', x, null)
            /\ heap[x].parent \notin {p, heap[p][Other(s)]} =>
                 bh[x] + Missing(x, null) = bh[x] + Missing(x, null)
          BY <3>3
    <3> QED  BY <2>2, <2>3, <2>4, <3>1, <3>7, <3>8, <3>9, TurnedBalanced
  <2>13. Colored(heap', live, p)
    <3>1. \A m \in live : heap[m].color \in {"red", "black"}  BY <1>4, HeapFields
    <3>2. \A m \in live, z \in Child :
            m # heap[p][Other(s)] /\ heap[m][z] = p /\ heap'[m].color = "red" =>
              heap'[heap[p][Other(s)]].color = "black"
      <4> TAKE m \in live, z \in Child
      <4>1. heap[m][z] = p => m = g  BY <1>0, <1>2, <2>2, OnlyParent
      <4> QED  BY <1>2, <2>9, <4>1
    <3>3. \A x \in {p, heap[p][Other(s)]}, z \in Child :
            heap'[x][z] # null /\ heap'[x][z] # p /\ heap'[x].color = "red" =>
              heap'[heap'[x][z]].color = "black"
      <4> SUFFICES ASSUME NEW x \in {p, node}, NEW z \in Child, heap'[x][z] # null, heap'[x][z] # p
                   PROVE  heap'[heap'[x][z]].color = "black"
          BY <2>3
      <4>1. \A y \in {c, inner, outer} : y # null => heap[y].color = "black"
        <5>1. \A n \in {p, node}, e \in Child :
                heap[n][e] # null /\ heap[n][e] # node => heap[heap[n][e]].color = "black"
              BY <1>2, <2>2 DEF Colored
        <5> QED  BY <1>2, <2>5, <2>6, <5>1
      <4>2. heap'[x][z] \in {c, inner, outer}  BY <2>7, <2>8
      <4>3. heap'[x][z] \in live  BY <2>6, <4>2
      <4> QED  BY <2>9, <4>1, <4>2, <4>3
    <3>4. heap[node].parent \in {p, heap[p][Other(s)]}  BY <1>0
    <3>5. \A x \in live : x \notin {p, heap[p][Other(s)]} /\ heap[x].color = "black" => heap'[x].color = "black"
          BY <2>9
    <3> QED  BY <2>2, <2>3, <2>4, <3>1, <3>2, <3>3, <3>4, <3>5, TurnedColored
  <2>14. Tree(heap', live, top, V, bh, null, null, null, p)
         BY <2>10, <2>11, <2>12, <2>13 DEF Tree
  <2>15. heap' \in Heaps /\ \A m \in Nodes \ live : heap'[m] = heap[m]  BY <2>4 DEF Keeps
  <2>16. top # null => heap'[top].color # "red"
    <3>1. top # null => top \in live  BY <2>2 DEF Shape
    <3> QED  BY <1>3, <2>9, <3>1
  <2>17. heap'[g][s] = node /\ heap'[g][Other(s)] = u
    <3>1. heap[g][Other(s)] # p  BY <1>0, <1>2
    <3> QED  BY <1>0, <1>2, <2>7, <3>1
  <2>18. (IF p = heap'[heap'[p].parent].left THEN "left" ELSE "right") = s
    <3>1. heap'[heap'[p].parent][s] = p /\ heap'[heap'[p].parent][Other(s)] # p  BY <2>6, <2>7
    <3> QED  BY <1>2, <3>1, SideIs
  <2>19. (IF node = heap'[heap'[node].parent].left THEN "left" ELSE "right") = s
    <3>1. heap'[heap'[node].parent][s] = node /\ heap'[heap'[node].parent][Other(s)] # node
          BY <1>2, <2>7, <2>17
    <3> QED  BY <1>2, <3>1, SideIs
  <2>20. SideOf(node)' = s /\ SideOf(Parent(node))' = s
         BY <2>1, <2>7, <2>18, <2>19 DEF SideOf, Parent
  <2>21. Uncle(node)' = u
    <3>1. Uncle(node)' = heap'[g][Other(SideOf(Parent(node))')]  BY <2>1, <2>7 DEF Uncle, Brother, Parent
    <3> QED  BY <2>17, <2>20, <3>1
  <2>22. ~IsRed(Uncle(node))'
    <3>1. u # null => heap'[u].color # "red"  BY <1>2, <1>5, <2>9
    <3> QED  BY <2>21, <3>1 DEF IsRed, Color
  <2>23. /\ Inserting' /\ node' \in live' /\ tmp' \in live' /\ Color(node)' = "red"
         /\ Parent(node)' # null /\ Color(Parent(node))' = "red"
         BY <1>2, <1>4, <2>1, <2>7, <2>9 DEF Inserting, Color, Parent
  <2>24. AtInsert'  BY <2>1, <2>20, <2>22, <2>23 DEF AtInsert, Inserting
  <2> QED  BY <1>1, <1>2, <2>1, <2>9, <2>14, <2>15, <2>16, <2>23, <2>24, InsertStep
<1> QED  BY <1>6, <1>7

(* Two nodes painted. *)
LEMMA PaintTwo ==
  ASSUME NEW h \in Heaps, NEW a \in Nodes, NEW c \in Colors, NEW b \in Nodes, NEW d \in Colors, a # b
  PROVE  LET k == Paint(Paint(h, a, c), b, d) IN
         /\ k \in Heaps /\ SameLinks(h, k)
         /\ k[a].color = c /\ k[b].color = d
         /\ \A m \in Nodes : k[m].value = h[m].value /\ (m \notin {a, b} => k[m] = h[m])
<1> DEFINE h1 == Paint(h, a, c)
           h2 == Paint(h1, b, d)
<1>1. /\ h1 \in Heaps /\ SameLinks(h, h1)
      /\ \A m \in Nodes : /\ h1[m].color = IF m = a THEN c ELSE h[m].color
                          /\ h1[m].value = h[m].value
                          /\ m # a => h1[m] = h[m]
      BY PaintLinks, LinksOfItself
<1> HIDE DEF h1
<1>2. /\ h2 \in Heaps /\ SameLinks(h, h2)
      /\ \A m \in Nodes : /\ h2[m].color = IF m = b THEN d ELSE h1[m].color
                          /\ h2[m].value = h1[m].value
                          /\ m # b => h2[m] = h1[m]
      BY <1>1, PaintLinks
<1> HIDE DEF h2
<1>3. /\ h2[a].color = c /\ h2[b].color = d
      /\ \A m \in Nodes : h2[m].value = h[m].value /\ (m \notin {a, b} => h2[m] = h[m])
      BY <1>1, <1>2
<1> QED  BY <1>2, <1>3 DEF h2, h1

(* insert_case5 keeps the invariant: after the rotation no red node has a red child. *)
LEMMA InsertCase5Step == IInv /\ InsertCase5 => IInv'
<1> SUFFICES ASSUME IInv, InsertCase5 PROVE IInv'  OBVIOUS
<1>0. PICK p, g, t, u : /\ p = heap[node].parent /\ g = heap[p].parent /\ t = SideOf(node)
                        /\ t = SideOf(p) /\ u = heap[g][Other(t)]
  <2>1. SideOf(node) = SideOf(heap[node].parent)  BY DEF IInv, AtInsert, InsertCase5, Parent
  <2> QED  BY <2>1
<1>1. /\ pc = "insert_case5" /\ Inserting /\ InTree
      /\ pc \in {"insert_case3", "insert_case4", "insert_case5"}
      BY Zenon DEF InsertCase5, Inserting
<1>2. /\ node \in live /\ p \in live /\ g \in live /\ node # p /\ node # g /\ p # g
      /\ t \in Child /\ Other(t) \in Child /\ Other(Other(t)) = t
      /\ heap[p][t] = node /\ heap[g][t] = p /\ Uncle(node) = u
      /\ u \in live \cup {null} /\ u \notin {node, p, g} /\ (u # null => heap[u].parent = g)
      /\ heap[node].color = "red" /\ heap[p].color = "red" /\ heap[g].color = "black"
      BY <1>0, <1>1, Family
<1>3. PICK top, U, bh : /\ Tree(heap, live, top, U, bh, null, null, null, node)
                        /\ top # null => heap[top].color = "black"
                        /\ node # top /\ p # top
      BY <1>0, <1>1, Family
<1>4. /\ heap \in Heaps /\ live \subseteq Nodes /\ null \notin live /\ tmp \in live /\ tmp' = tmp
      /\ live' = live /\ \A m \in Nodes : heap[m].key \in Int
      BY <1>1, Heap, Inserts DEF InTree
<1>5. u = null \/ heap[u].color = "black"
  <2>1. ~IsRed(Uncle(node))  BY <1>1 DEF IInv, AtInsert
  <2>2. u # null => u \in Nodes  BY <1>2, <1>4
  <2> QED  BY <1>2, <1>4, <2>1, <2>2, HeapFields DEF IsRed, Color
<1>6. /\ Shape(heap, live, top, U) /\ Sorted(heap, live, U, null)
      /\ Balanced(heap, live, bh, null, null) /\ Colored(heap, live, node)
      BY <1>3 DEF Tree
<1> DEFINE k == Paint(Paint(heap, p, "black"), g, "red")
           o == Other(t)
<1>7. heap' = Rotate(k, g, o) /\ pc' = "setTreeRoot" /\ node' = node
      BY <1>0 DEF InsertCase5, Call, Parent, Grandparent
<1>8. /\ k \in Heaps /\ SameLinks(heap, k) /\ k[p].color = "black" /\ k[g].color = "red"
      /\ \A m \in Nodes : m \notin {p, g} => k[m] = heap[m]
  <2>1. p \in Nodes /\ g \in Nodes  BY <1>2, <1>4
  <2> QED  BY <1>2, <1>4, <2>1, PaintTwo, BothColors
<1> HIDE DEF k
<1>9. CanTurn(heap, live, g, o)  BY <1>2, <1>4 DEF CanTurn
<1>10. /\ Turned(heap, heap', live, g, o) /\ Keeps(k, heap', live)
       /\ \A m \in Nodes : heap'[m].color = k[m].color
       BY <1>6, <1>7, <1>8, <1>9, RotateTurns
<1>11. PICK inner : inner = heap[p][o]  OBVIOUS
<1>12. heap[g][Other(o)] = p /\ heap[p][Other(o)] = node /\ heap[g][o] = u /\ o \in Child
       BY <1>0, <1>2
<1>13. inner \in live \cup {null} /\ inner \notin {g, p} /\ (inner # null => inner # node)
  <2> HIDE DEF o
  <2> QED  BY <1>6, <1>9, <1>11, <1>12, TurnNodes
<1>14. /\ heap'[g][o] = u /\ heap'[g][Other(o)] = inner
       /\ heap'[p][o] = g /\ heap'[p][Other(o)] = node
       /\ \A m \in live \ {g, p}, z \in Child : heap'[m][z] = IF heap[m][z] = g THEN p ELSE heap[m][z]
  <2> HIDE DEF o
  <2> QED  BY <1>10, <1>11, <1>12 DEF Turned
<1> HIDE DEF o
<1>15. \A z \in Child : z = o \/ z = Other(o)  BY <1>12, Sides
<1>16. /\ \A m \in live : m \in Nodes /\ m # null /\ heap'[m].key = heap[m].key
       /\ heap'[p].color = "black" /\ heap'[g].color = "red"
       /\ \A m \in live : m \notin {p, g} => heap'[m].color = heap[m].color
       BY <1>2, <1>4, <1>8, <1>10 DEF Keeps, SameLinks
<1>17. \A m \in Nodes \ live : heap'[m] = heap[m]  BY <1>2, <1>8, <1>10 DEF Keeps
<1> DEFINE V == UnderAfter(heap, U, g, o)
           t2 == TopAfter(heap, top, g, o)
<1>18. Shape(heap', live, t2, V)  BY <1>6, <1>9, <1>10, TurnedShape
<1>19. Sorted(heap', live, V, null)
       BY <1>2, <1>4, <1>6, <1>9, <1>10, <1>12, <1>16, TurnedSorted
<1>20. t2 # null => heap'[t2].color = "black"
  <2>1. top # null => top \in live  BY <1>6 DEF Shape
  <2>2. t2 = IF top = g THEN p ELSE top  BY <1>12 DEF TopAfter
  <2> HIDE DEF t2
  <2> QED  BY <1>3, <1>16, <2>1, <2>2
<1> HIDE DEF V, t2
<1>21. /\ bh \in [live \cup {null} -> Nat] /\ bh[null] = 0
       /\ \A n \in live, z \in Child :
            bh[n] = bh[heap[n][z]] + Missing(heap[n][z], null) + Weight(heap, n, null)
       BY <1>6 DEF Balanced
<1>22. \A x : Missing(x, null) = 0  BY DEF Missing
<1>23. /\ Weight(heap, g, null) = 1 /\ Weight(heap, p, null) = 0
       /\ Weight(heap', g, null) = 0 /\ Weight(heap', p, null) = 1
       /\ \A x \in live : x \notin {p, g} => Weight(heap', x, null) = Weight(heap, x, null)
       BY <1>2, <1>16 DEF Weight
<1>24. /\ bh[g] \in Nat /\ bh[p] \in Nat /\ bh[u] \in Nat /\ bh[inner] \in Nat /\ bh[node] \in Nat
       BY <1>2, <1>13, <1>21
<1>25. bh[g] = bh[p] + 1 /\ bh[g] = bh[u] + 1 /\ bh[p] = bh[inner] /\ bh[p] = bh[node]
  <2>1. /\ bh[g] = bh[heap[g][Other(o)]] + 0 + 1 /\ bh[g] = bh[heap[g][o]] + 0 + 1
        /\ bh[p] = bh[heap[p][o]] + 0 + 0 /\ bh[p] = bh[heap[p][Other(o)]] + 0 + 0
        BY <1>2, <1>12, <1>21, <1>22, <1>23, Sides
  <2> QED  BY <1>11, <1>12, <1>24, <2>1
<1> DEFINE b == [bh EXCEPT ![g] = bh[p], ![p] = bh[g]]
<1>26. /\ b \in [live \cup {null} -> Nat] /\ b[null] = 0 /\ b[g] = bh[p] /\ b[p] = bh[g]
       /\ \A m \in live \cup {null} : m \notin {p, g} => b[m] = bh[m]
       BY <1>2, <1>4, <1>21
<1> HIDE DEF b
<1>27. Balanced(heap', live, b, null, null)
  <2>1. \A x \in {g, heap[g][Other(o)]}, z \in Child :
          b[x] = b[heap'[x][z]] + Missing(heap'[x][z], null) + Weight(heap', x, null)
    <3> SUFFICES ASSUME NEW x \in {g, p}, NEW z \in Child
                 PROVE  b[x] = b[heap'[x][z]] + Missing(heap'[x][z], null) + Weight(heap', x, null)
        BY <1>12
    <3>1. b[u] = bh[u] /\ b[inner] = bh[inner] /\ b[node] = bh[node]  BY <1>2, <1>13, <1>26
    <3>2. CASE x = g
      <4>1. b[heap'[x][z]] = b[x]  BY <1>14, <1>15, <1>24, <1>25, <1>26, <3>1, <3>2
      <4> QED  BY <1>22, <1>23, <1>24, <1>26, <3>2, <4>1
    <3>3. CASE x = p
      <4>1. b[x] = b[heap'[x][z]] + 1  BY <1>14, <1>15, <1>24, <1>25, <1>26, <3>1, <3>3
      <4>2. b[heap'[x][z]] \in Nat  BY <1>14, <1>15, <1>24, <1>26, <3>1, <3>3
      <4> QED  BY <1>22, <1>23, <3>3, <4>1, <4>2
    <3> QED  BY <3>2, <3>3
  <2>2. b[heap[g][Other(o)]] + Missing(heap[g][Other(o)], null) = bh[g] + Missing(g, null)
        BY <1>12, <1>22, <1>26
  <2>3. \A x \in live : x \notin {g, heap[g][Other(o)]} =>
          /\ b[x] + Weight(heap, x, null) = bh[x] + Weight(heap', x, null)
          /\ heap[x].parent \notin {g, heap[g][Other(o)]} =>
               b[x] + Missing(x, null) = bh[x] + Missing(x, null)
        BY <1>12, <1>23, <1>26
  <2> QED  BY <1>6, <1>9, <1>10, <1>26, <2>1, <2>2, <2>3, TurnedBalanced
<1>28. Colored(heap', live, null)
  <2>1. \A m \in live : heap[m].color \in {"red", "black"}  BY <1>4, HeapFields
  <2>2. \A m \in live, z \in Child :
          m # heap[g][Other(o)] /\ heap[m][z] = g /\ heap'[m].color = "red" =>
            heap'[heap[g][Other(o)]].color = "black"
        BY <1>12, <1>16
  <2>3. \A x \in {g, heap[g][Other(o)]}, z \in Child :
          heap'[x][z] # null /\ heap'[x][z] # null /\ heap'[x].color = "red" =>
            heap'[heap'[x][z]].color = "black"
    <3> SUFFICES ASSUME NEW z \in Child, heap'[g][z] # null PROVE heap'[heap'[g][z]].color = "black"
        BY <1>12, <1>16
    <3>1. inner # null => heap[inner].color = "black"
      <4>1. inner # null /\ inner # node => heap[heap[p][o]].color = "black"
            BY <1>2, <1>6, <1>11, <1>12 DEF Colored
      <4> QED  BY <1>11, <1>13, <4>1
    <3>2. heap'[g][z] \in {u, inner} /\ heap'[g][z] \in live  BY <1>2, <1>13, <1>14, <1>15
    <3> QED  BY <1>2, <1>5, <1>13, <1>16, <3>1, <3>2
  <2>4. heap[node].parent \in {g, heap[g][Other(o)]}  BY <1>0, <1>12
  <2>5. \A x \in live : x \notin {g, heap[g][Other(o)]} /\ heap[x].color = "black" => heap'[x].color = "black"
        BY <1>12, <1>16
  <2> QED  BY <1>6, <1>9, <1>10, <2>1, <2>2, <2>3, <2>4, <2>5, TurnedColored
<1>29. Tree(heap', live, t2, V, b, null, null, null, null)  BY <1>18, <1>19, <1>27, <1>28 DEF Tree
<1>30. heap' \in Heaps  BY <1>10 DEF Keeps
<1> QED  BY <1>1, <1>2, <1>7, <1>17, <1>20, <1>29, <1>30, InsertStep

(* g links as h does, and q hangs under p on the side s besides. *)
Attached(h, g, L, q, p, s) ==
  /\ g[q].parent = p /\ \A z \in Child : g[q][z] = null
  /\ \A m \in L, z \in Child : g[m][z] = IF m = p /\ z = s THEN q ELSE h[m][z]
  /\ \A m \in L : g[m].parent = h[m].parent /\ g[m].key = h[m].key /\ g[m].color = h[m].color
  /\ g[q].key = h[q].key /\ g[q].color = "red"

CanAttach(h, L, U, top, q, p, s) ==
  /\ q \in Nodes \ L /\ p \in L /\ s \in Child /\ h[p][s] = null
  /\ Lesser(s, h[q].key, h[p].key)
  /\ \A a \in L, z \in Child : p \in U[h[a][z]] => Lesser(z, h[q].key, h[a].key)

UnderAttached(L, U, q, p) ==
  [m \in L \cup {q} \cup {null} |-> IF m = q THEN {q} ELSE IF p \in U[m] THEN U[m] \cup {q} ELSE U[m]]

(* A new red leaf on the right place leaves a tree, but for the color of its parent. *)
LEMMA AttachedTree ==
  ASSUME NEW h, NEW g, NEW L, NEW top, NEW U, NEW bh, Tree(h, L, top, U, bh, null, null, null, null),
         NEW q, NEW p, NEW s, CanAttach(h, L, U, top, q, p, s), Attached(h, g, L, q, p, s)
  PROVE  \E V, b : Tree(g, L \cup {q}, top, V, b, null, null, null, q)
<1> DEFINE K == L \cup {q}
           V == UnderAttached(L, U, q, p)
<1>1. /\ Shape(h, L, top, U) /\ Sorted(h, L, U, null) /\ Balanced(h, L, bh, null, null)
      /\ Colored(h, L, null)
      BY DEF Tree
<1>2. /\ q \in Nodes /\ q \notin L /\ p \in L /\ s \in Child /\ Other(s) \in Child /\ h[p][s] = null
      /\ Other(Other(s)) = s
      BY Sides DEF CanAttach
<1>3. /\ L \subseteq Nodes /\ IsFiniteSet(L) /\ top \in L \cup {null} /\ null \notin L
      /\ U \in [L \cup {null} -> SUBSET L] /\ U[null] = {} /\ U[top] = L
      BY <1>1, NullNoNode DEF Shape
<1>4. q # null /\ top \in L  BY <1>2, <1>3, NullNoNode
<1>5. /\ g[q].parent = p /\ \A z \in Child : g[q][z] = null
      /\ \A m \in L, z \in Child : g[m][z] = IF m = p /\ z = s THEN q ELSE h[m][z]
      /\ \A m \in L : g[m].parent = h[m].parent /\ g[m].key = h[m].key /\ g[m].color = h[m].color
      /\ g[q].key = h[q].key /\ g[q].color = "red"
      BY DEF Attached
<1>6. /\ V \in [K \cup {null} -> SUBSET K] /\ V[q] = {q} /\ V[null] = {}
      /\ \A m \in L : V[m] = IF p \in U[m] THEN U[m] \cup {q} ELSE U[m]
  <2>1. V = [m \in K \cup {null} |-> IF m = q THEN {q} ELSE IF p \in U[m] THEN U[m] \cup {q} ELSE U[m]]
        BY DEF UnderAttached
  <2>2. \A m \in L \cup {null} : U[m] \in SUBSET K  BY <1>3
  <2> HIDE DEF V
  <2>3. \A m \in K \cup {null} : V[m] \in SUBSET K  BY <1>3, <2>1, <2>2
  <2> QED  BY <1>2, <1>3, <1>4, <2>1, <2>3
<1> HIDE DEF V
<1>7. ASSUME NEW n \in L
      PROVE  /\ n # q /\ n # null /\ n \in U[n] /\ U[n] \subseteq L /\ q \notin U[n]
             /\ \A z \in Child :
                  /\ h[n][z] \in L \cup {null} /\ Other(z) \in Child
                  /\ U[n] = {n} \cup U[h[n][z]] \cup U[h[n][Other(z)]]
                  /\ n \notin U[h[n][z]] /\ U[h[n][z]] \cap U[h[n][Other(z)]] = {}
                  /\ h[n][z] # null => h[h[n][z]].parent = n
  <2>1. n # null /\ n \in U[n] /\ U[n] \subseteq L  BY <1>1, Self
  <2>2. \A z \in Child : /\ h[n][z] \in L \cup {null} /\ Other(z) \in Child
                         /\ U[n] = {n} \cup U[h[n][z]] \cup U[h[n][Other(z)]]
                         /\ n \notin U[h[n][z]] /\ U[h[n][z]] \cap U[h[n][Other(z)]] = {}
                         /\ h[n][z] # null => h[h[n][z]].parent = n
        BY <1>1, ShapeAt, Sides
  <2> QED  BY <1>2, <2>1, <2>2
<1> DEFINE Good(m, z) ==
             /\ g[m][z] \in K \cup {null}
             /\ V[m] = {m} \cup V[g[m][z]] \cup V[g[m][Other(z)]]
             /\ m \notin V[g[m][z]] /\ V[g[m][z]] \cap V[g[m][Other(z)]] = {}
             /\ g[m][z] # null => g[g[m][z]].parent = m
<1>8. \A z \in Child : Good(q, z)  BY <1>4, <1>5, <1>6, Sides
<1>9. \A z \in Child : Good(p, z)
  <2> DEFINE x == h[p][Other(s)]
  <2>1. x \in L \cup {null} /\ (x # null => h[x].parent = p) /\ p \notin U[x] /\ p # null /\ p # q
        BY <1>2, <1>7
  <2>2. p \in U[p] /\ U[p] = {p} \cup U[x] /\ q \notin U[x]
    <3>1. U[p] = {p} \cup U[h[p][s]] \cup U[x]  BY <1>2, <1>7
    <3> QED  BY <1>2, <1>3, <1>7, <2>1, <3>1
  <2>3. V[x] = U[x]  BY <1>3, <1>6, <2>1
  <2>4. V[p] = {p} \cup {q} \cup V[x]  BY <1>2, <1>6, <2>2, <2>3
  <2>5. g[p][s] = q /\ g[p][Other(s)] = x
    <3>1. Other(s) # s  BY <1>2, Sides
    <3> QED  BY <1>2, <1>5, <3>1
  <2>6. x # null => g[x].parent = p /\ x \in L  BY <1>5, <2>1
  <2> HIDE DEF x
  <2>7. Good(p, s)  BY <1>5, <1>6, <2>1, <2>2, <2>3, <2>4, <2>5
  <2>8. Good(p, Other(s))  BY <1>2, <1>6, <2>1, <2>2, <2>3, <2>4, <2>5, <2>6
  <2> HIDE DEF Good
  <2> QED  BY <1>2, <2>7, <2>8, Sides
<1>10. ASSUME NEW m \in L \ {p}, NEW z \in Child PROVE Good(m, z)
  <2>1. PICK x, y : x = h[m][z] /\ y = h[m][Other(z)]  OBVIOUS
  <2>2. g[m][z] = x /\ g[m][Other(z)] = y  BY <1>5, <2>1, Sides
  <2>3. /\ x \in L \cup {null} /\ y \in L \cup {null} /\ m # q /\ m # null
        /\ U[m] = {m} \cup U[x] \cup U[y] /\ m \notin U[x] /\ U[x] \cap U[y] = {}
        /\ x # null => h[x].parent = m /\ x \in L
        /\ q \notin U[m]
        BY <1>7, <2>1
  <2>4. /\ V[x] = IF p \in U[x] THEN U[x] \cup {q} ELSE U[x]
        /\ V[y] = IF p \in U[y] THEN U[y] \cup {q} ELSE U[y]
        BY <1>3, <1>6, <2>3
  <2>5. V[m] = IF p \in U[m] THEN U[m] \cup {q} ELSE U[m]  BY <1>6
  <2>6. V[m] = {m} \cup V[x] \cup V[y] /\ m \notin V[x] /\ V[x] \cap V[y] = {}
        BY <2>3, <2>4, <2>5
  <2>7. x # null => g[x].parent = m  BY <1>5, <2>3
  <2> QED  BY <2>2, <2>3, <2>6, <2>7
<1> HIDE DEF Good
<1>11. \A m \in K, z \in Child : Good(m, z)  BY <1>8, <1>9, <1>10
<1>12. \A m \in K : IF m = top THEN g[m].parent = null
                    ELSE g[m].parent \in K /\ \E z \in Child : g[g[m].parent][z] = m
  <2> TAKE m \in K
  <2>1. CASE m = q
    <3>1. g[p][s] = q  BY <1>2, <1>5
    <3> QED  BY <1>2, <1>4, <1>5, <2>1, <3>1
  <2>2. CASE m \in L /\ m = top  BY <1>1, <1>5, <2>2, OnlyParent
  <2>3. CASE m \in L /\ m # top
    <3>1. PICK z \in Child : h[m].parent \in L /\ h[h[m].parent][z] = m  BY <1>1, <2>3, OnlyParent
    <3>2. m # null  BY <1>7, <2>3
    <3>3. g[h[m].parent][z] = m  BY <1>2, <1>5, <3>1, <3>2
    <3> QED  BY <1>5, <2>3, <3>1, <3>3
  <2> QED  BY <2>1, <2>2, <2>3
<1>13. V[top] = K  BY <1>2, <1>3, <1>4, <1>6
<1>14. IsFiniteSet(K) /\ K \subseteq Nodes
  <2>1. IsFiniteSet(K)  BY <1>3, FS_AddElement
  <2> QED  BY <1>2, <1>3, <2>1
<1>15. Shape(g, K, top, V)
  <2> HIDE DEF K
  <2>1. top \in K \cup {null}  BY <1>4 DEF K
  <2> QED  BY <1>6, <1>11, <1>12, <1>13, <1>14, <2>1 DEF Shape, Good
<1>16. Sorted(g, K, V, null)
  <2> SUFFICES ASSUME NEW a \in K, NEW z \in Child, NEW m \in V[g[a][z]]
               PROVE  Lesser(z, g[m].key, g[a].key)
      BY DEF Sorted
  <2>1. a \in L
    <3>1. a = q => V[g[a][z]] = {}  BY <1>5, <1>6
    <3> QED  BY <3>1
  <2>2. CASE m = q
    <3>1. CASE a = p /\ z = s  BY <1>2, <1>5, <2>2, <3>1 DEF CanAttach
    <3>2. CASE ~(a = p /\ z = s)
      <4>1. g[a][z] = h[a][z] /\ h[a][z] \in L \cup {null} /\ U[h[a][z]] \subseteq U[a] /\ q \notin U[a]
            BY <1>5, <1>7, <2>1, <3>2
      <4>2. p \in U[h[a][z]]  BY <1>3, <1>6, <2>2, <4>1
      <4> QED  BY <1>5, <2>1, <2>2, <4>2 DEF CanAttach
    <3> QED  BY <3>1, <3>2
  <2>3. CASE m # q
    <3>1. ~(a = p /\ z = s)  BY <1>5, <1>6, <2>1, <2>3
    <3>2. g[a][z] = h[a][z] /\ h[a][z] \in L \cup {null} /\ U[h[a][z]] \subseteq U[a] /\ U[a] \subseteq L
          BY <1>5, <1>7, <2>1, <3>1
    <3>3. m \in U[h[a][z]] /\ m \in L  BY <1>3, <1>6, <2>3, <3>2
    <3>4. m # null /\ a # null  BY <1>7, <2>1, <3>3
    <3>5. Lesser(z, h[m].key, h[a].key)  BY <1>1, <2>1, <3>3, <3>4 DEF Sorted
    <3> QED  BY <1>5, <2>1, <3>3, <3>5
  <2> QED  BY <2>2, <2>3
<1> DEFINE b == [m \in K \cup {null} |-> IF m = q THEN 0 ELSE bh[m]]
<1>17. /\ bh \in [L \cup {null} -> Nat] /\ bh[null] = 0
       /\ \A n \in L, z \in Child :
            bh[n] = bh[h[n][z]] + Missing(h[n][z], null) + Weight(h, n, null)
       BY <1>1 DEF Balanced
<1>18. /\ b \in [K \cup {null} -> Nat] /\ b[null] = 0 /\ b[q] = 0
       /\ \A m \in L : b[m] = bh[m]
       BY <1>2, <1>4, <1>17
<1> HIDE DEF b
<1>19. Balanced(g, K, b, null, null)
  <2> SUFFICES ASSUME NEW n \in K, NEW z \in Child
               PROVE  b[n] = b[g[n][z]] + Missing(g[n][z], null) + Weight(g, n, null)
      BY <1>18 DEF Balanced
  <2>1. Missing(g[n][z], null) = 0  BY DEF Missing
  <2>2. CASE n = q
    <3>1. g[n][z] = null /\ Weight(g, n, null) = 0  BY <1>5, <2>2 DEF Weight
    <3> QED  BY <1>18, <2>1, <2>2, <3>1
  <2>3. CASE n \in L
    <3>1. Weight(g, n, null) = Weight(h, n, null)  BY <1>5, <2>3 DEF Weight
    <3>2. bh[n] = bh[h[n][z]] + Missing(h[n][z], null) + Weight(h, n, null)  BY <1>17, <2>3
    <3>3. Missing(h[n][z], null) = 0  BY DEF Missing
    <3>4. b[g[n][z]] = bh[h[n][z]]
      <4>1. h[n][z] \in L \cup {null}  BY <1>7, <2>3
      <4> QED  BY <1>2, <1>5, <1>17, <1>18, <2>3, <4>1
    <3> QED  BY <1>18, <2>1, <2>3, <3>1, <3>2, <3>3, <3>4
  <2> QED  BY <2>2, <2>3
<1>20. Colored(g, K, q)
  <2> SUFFICES ASSUME NEW n \in K, NEW z \in Child, g[n][z] # null, g[n][z] # q, g[n].color = "red"
               PROVE  g[g[n][z]].color = "black"
      BY DEF Colored
  <2>1. n \in L  BY <1>5
  <2>2. g[n][z] = h[n][z] /\ h[n][z] \in L  BY <1>5, <1>7, <2>1
  <2> QED  BY <1>1, <1>5, <2>1, <2>2 DEF Colored
<1> QED  BY <1>15, <1>16, <1>19, <1>20 DEF Tree

(* One red node is a tree, but for its color. *)
LEMMA SingleTree ==
  ASSUME NEW g, NEW q \in Nodes, g[q].parent = null, \A z \in Child : g[q][z] = null,
         g[q].color = "red"
  PROVE  \E V, b : Tree(g, {q}, q, V, b, null, null, null, q)
<1> DEFINE V == [m \in {q} \cup {null} |-> IF m = q THEN {q} ELSE {}]
           b == [m \in {q} \cup {null} |-> 0]
<1>1. q # null  BY NullNoNode
<1>2. /\ V \in [{q} \cup {null} -> SUBSET {q}] /\ V[q] = {q} /\ V[null] = {}
      /\ b \in [{q} \cup {null} -> Nat] /\ b[q] = 0 /\ b[null] = 0
      BY <1>1
<1> HIDE DEF V, b
<1>3. IsFiniteSet({q})  BY FS_Singleton
<1>4. Shape(g, {q}, q, V)  BY <1>1, <1>2, <1>3, Sides DEF Shape
<1>5. Sorted(g, {q}, V, null)  BY <1>2 DEF Sorted
<1>6. Balanced(g, {q}, b, null, null)  BY <1>2 DEF Balanced, Missing, Weight
<1>7. Colored(g, {q}, q)  BY DEF Colored
<1> QED  BY <1>4, <1>5, <1>6, <1>7 DEF Tree

(* No nodes are a tree. *)
LEMMA EmptyTree ==
  \A g : \E V, b : Tree(g, {}, null, V, b, null, null, null, null)
<1> TAKE g
<1> DEFINE V == [m \in {} \cup {null} |-> {}]
           b == [m \in {} \cup {null} |-> 0]
<1>2. /\ V \in [{} \cup {null} -> SUBSET {}] /\ V[null] = {}
      /\ b \in [{} \cup {null} -> Nat] /\ b[null] = 0
      OBVIOUS
<1> HIDE DEF V, b
<1>3. IsFiniteSet({})  BY FS_EmptySet
<1>4. Shape(g, {}, null, V)  BY <1>2, <1>3 DEF Shape
<1>5. Tree(g, {}, null, V, b, null, null, null, null)
  BY <1>2, <1>4 DEF Tree, Sorted, Balanced, Colored
<1> QED  BY <1>5

(* insert() keeps the invariant. *)
LEMMA InsertsItem == IInv /\ Insert => IInv'
<1> SUFFICES ASSUME IInv, Insert PROVE IInv'  OBVIOUS
<1> DEFINE L == live \ {node}
           k == heap[node].key
<1>1. /\ pc = "insert" /\ live' = live /\ map' = map /\ root' = root /\ tmp' = tmp /\ M' = M /\ todo' = todo
      BY DEF Insert, InTree
<1>2. /\ heap \in Heaps /\ live \subseteq Nodes /\ null \notin live /\ Outside(heap, Linked)
      /\ \A m \in Nodes : heap[m].key \in Int /\ \A s \in Child : heap[m][s] \in Refs
      BY Heap
<1>3. /\ node \in live /\ tmp = node /\ M = null /\ map
      /\ heap[node].parent = null /\ heap[node].left = null /\ heap[node].right = null
      /\ heap[node].color = "red" /\ \A n \in L : heap[n].key # k
      BY <1>1 DEF IInv, AtInsert, AtRest, Parent, Color
<1>4. PICK top, U, bh : IsTree(top, U, bh)  BY DEF IInv
<1>5. Linked = L /\ Short = null /\ Leaving = null /\ Violator = null /\ root = top
      BY <1>1, <1>4 DEF Linked, Short, Leaving, Violator, Inserting, Rebalancing, IsTree
<1>6. Tree(heap, L, root, U, bh, null, null, null, null) /\ (root # null => heap[root].color # "red")
      BY <1>1, <1>3, <1>4, <1>5 DEF IsTree, Color
<1>7. Shape(heap, L, root, U)  BY <1>6 DEF Tree
<1>8. IF root = null THEN FindParent(k) = null ELSE Place(heap, U, k, root, FindParent(k))
  <2>1. k \in Int /\ \A n \in L : heap[n].key \in Int  BY <1>2, <1>3
  <2>2. Outside(heap, L)  BY <1>2, <1>5
  <2> HIDE DEF L, k
  <2>3. \A n \in L : heap[n].key # k  BY <1>3
  <2> QED  BY <1>2, <1>7, <2>1, <2>2, <2>3, FindParentFits
<1>9. node \in Nodes /\ node # null /\ node \notin L /\ live = L \cup {node} /\ node \in Refs
      BY <1>2, <1>3 DEF Refs
<1>10. PICK p : p = FindParent(k)  OBVIOUS
<1> DEFINE h == [heap EXCEPT ![node].parent = p]
<1>11. CASE root = null
  <2>1. L = {} /\ p = null  BY <1>7, <1>8, <1>10, <1>11 DEF Shape
  <2>2. heap' = h /\ pc' = "insert_case1" /\ node' = node  BY <1>10, <2>1 DEF Insert, Call
  <2>3. /\ h \in Heaps
        /\ \A m \in Nodes : m # node => h[m] = heap[m]
        /\ h[node].key = heap[node].key /\ h[node].value = heap[node].value
        /\ h[node].color = heap[node].color
        /\ h[node].parent = p /\ \A s \in Child : h[node][s] = heap[node][s]
    <3>1. p \in Refs  BY <2>1 DEF Refs
    <3> QED  BY <1>2, <1>9, <3>1, SetParent
  <2> HIDE DEF h
  <2>4. \A s \in Child : heap'[node][s] = null  BY <1>3, <2>2, <2>3 DEF Child
  <2>5. PICK V, b : Tree(heap', {node}, node, V, b, null, null, null, node)
        BY <1>3, <1>9, <2>1, <2>2, <2>3, <2>4, SingleTree
  <2>6. live = {node}  BY <1>9, <2>1
  <2>7. Short' = null /\ Leaving' = null /\ Violator' = node
        BY <2>2 DEF Short, Leaving, Violator, Inserting, Rebalancing
  <2>8. TreeTyped' /\ (\E t, X, c : IsTree(t, X, c)')
    <3>1. Tree(heap', live, node, V, b, M, Short', Leaving', Violator')  BY <1>3, <2>5, <2>6, <2>7
    <3>2. pc' \in Steps /\ pc' \notin {"idle", "insert", "deleteNode"}  BY <2>2 DEF Steps
    <3>3. heap' \in Heaps /\ \A m \in Nodes \ live : heap'[m] = heap[m]  BY <2>2, <2>3, <2>6
    <3> QED  BY <1>1, <1>9, <2>2, <3>1, <3>2, <3>3, InnerStep
  <2>9. AtInsert'  BY <1>1, <1>3, <2>2, <2>3 DEF AtInsert, Inserting, Color
  <2>10. AtDelete'  BY <2>2 DEF AtDelete, AtCase, Rebalancing
  <2>11. AtRest'
    <3>1. \A m \in Nodes \ live : heap'[m] = heap[m]  BY <2>2, <2>3, <2>6
    <3> QED  BY <1>1, <1>3, <2>2, <3>1 DEF IInv, AtRest, Inserting
  <2> QED  BY <2>8, <2>9, <2>10, <2>11 DEF IInv
<1>12. CASE root # null
  <2>1. /\ p \in L /\ heap[p][IF heap[p].key > k THEN "left" ELSE "right"] = null
        /\ \A a \in L, z \in Child : p \in U[heap[a][z]] => Lesser(z, k, heap[a].key)
    <3>1. U[root] = L  BY <1>7 DEF Shape
    <3> QED  BY <1>8, <1>10, <1>12, <3>1 DEF Place
  <2>2. p \in Nodes /\ p # node /\ p # null /\ p \in Refs  BY <1>2, <1>9, <2>1 DEF Refs
  <2>3. PICK s : s = IF heap[p].key > k THEN "left" ELSE "right"  OBVIOUS
  <2>4. /\ h \in Heaps
        /\ \A m \in Nodes : m # node => h[m] = heap[m]
        /\ h[node].key = heap[node].key /\ h[node].value = heap[node].value
        /\ h[node].color = heap[node].color
        /\ h[node].parent = p /\ \A z \in Child : h[node][z] = heap[node][z]
        BY <1>2, <1>9, <2>2, SetParent
  <2>5. s \in Child /\ Other(s) \in Child /\ s = IF h[p].key > h[node].key THEN "left" ELSE "right"
        BY <2>2, <2>3, <2>4, Sides DEF Child
  <2>6. heap' = [h EXCEPT ![p][s] = node] /\ pc' = "insert_case2" /\ node' = node
        BY <1>10, <2>2, <2>5 DEF Insert, Call
  <2> HIDE DEF h
  <2> DEFINE e == [h EXCEPT ![p][s] = node]
  <2>7. /\ e \in Heaps
        /\ \A m \in Nodes : m # p => e[m] = h[m]
        /\ e[p].key = h[p].key /\ e[p].value = h[p].value /\ e[p].color = h[p].color
        /\ e[p].parent = h[p].parent /\ e[p][s] = node /\ e[p][Other(s)] = h[p][Other(s)]
        BY <1>9, <2>2, <2>4, <2>5, SetChild
  <2>8. heap' = e  BY <2>6
  <2> HIDE DEF e
  <2>9. Attached(heap, heap', L, node, p, s)
    <3>1. \A m \in L : m \in Nodes /\ m # node  BY <1>2
    <3>2. heap'[node].parent = p /\ heap'[node].color = "red" /\ heap'[node].key = heap[node].key
          /\ \A z \in Child : heap'[node][z] = null
          BY <1>3, <1>9, <2>2, <2>4, <2>7, <2>8 DEF Child
    <3>3. \A m \in L, z \in Child : heap'[m][z] = IF m = p /\ z = s THEN node ELSE heap[m][z]
      <4> TAKE m \in L, z \in Child
      <4>1. CASE m # p  BY <2>4, <2>7, <2>8, <3>1, <4>1
      <4>2. CASE m = p
        <5>1. z = s \/ z = Other(s)  BY <2>5, Sides
        <5> QED  BY <2>2, <2>4, <2>5, <2>7, <2>8, <4>2, <5>1, Sides
      <4> QED  BY <4>1, <4>2
    <3>4. \A m \in L : /\ heap'[m].parent = heap[m].parent /\ heap'[m].key = heap[m].key
                       /\ heap'[m].color = heap[m].color
          BY <2>2, <2>4, <2>7, <2>8, <3>1
    <3> HIDE DEF L
    <3> QED  BY <3>2, <3>3, <3>4 DEF Attached
  <2>10. CanAttach(heap, L, U, root, node, p, s)
    <3>1. Lesser(s, k, heap[p].key)
      <4>1. heap[p].key # k /\ heap[p].key \in Int /\ k \in Int  BY <1>2, <1>3, <1>9, <2>1, <2>2
      <4> QED  BY <2>3, <4>1 DEF Lesser
    <3>2. heap[p][s] = null  BY <2>1, <2>3
    <3> HIDE DEF L
    <3> QED  BY <1>9, <2>1, <2>5, <3>1, <3>2 DEF CanAttach
  <2>11. PICK V, b : Tree(heap', live, root, V, b, null, null, null, node)
    <3> HIDE DEF L
    <3>1. \E V, b : Tree(heap', L \cup {node}, root, V, b, null, null, null, node)
          BY <1>6, <2>9, <2>10, AttachedTree
    <3> QED  BY <1>9, <3>1
  <2>12. Short' = null /\ Leaving' = null /\ Violator' = node
         BY <2>6 DEF Short, Leaving, Violator, Inserting, Rebalancing
  <2>13. heap' \in Heaps /\ (\A m \in Nodes \ live : heap'[m] = heap[m])
         /\ heap'[root].color # "red" /\ heap'[node].color = "red" /\ heap'[node].parent = p
    <3>1. root \in L /\ root \in Nodes /\ root # node  BY <1>2, <1>7, <1>12 DEF Shape
    <3> QED  BY <1>3, <1>6, <1>9, <1>12, <2>1, <2>2, <2>4, <2>7, <2>8, <3>1
  <2>14. TreeTyped' /\ (\E t, X, c : IsTree(t, X, c)')
    <3>1. Tree(heap', live, root, V, b, M, Short', Leaving', Violator')  BY <1>3, <2>11, <2>12
    <3>2. pc' \in Steps /\ pc' \notin {"idle", "insert", "deleteNode"}  BY <2>6 DEF Steps
    <3> QED  BY <1>1, <1>9, <2>6, <2>13, <3>1, <3>2, InnerStep
  <2>15. AtInsert'  BY <1>1, <1>3, <2>2, <2>6, <2>13 DEF AtInsert, Inserting, Color, Parent
  <2>16. AtDelete'  BY <2>6 DEF AtDelete, AtCase, Rebalancing
  <2>17. AtRest'  BY <1>1, <1>3, <2>6, <2>13 DEF IInv, AtRest, Inserting
  <2> QED  BY <2>14, <2>15, <2>16, <2>17 DEF IInv
<1> QED  BY <1>11, <1>12

-----------------------------------------------------------------------------
(***************************************************************************)
(* Deleting: the cases.                                                    *)
(***************************************************************************)

(* What is known while the tree is being rebalanced. *)
LEMMA Deletes ==
  ASSUME IInv, Rebalancing
  PROVE  /\ M \in live /\ map /\ tmp \in live \cup {null} /\ tmp # M
         /\ (tmp = null => heap[M].parent = null) /\ (\A s \in Child : heap[M][s] = null)
         /\ node \in live /\ heap[node].color = "black" /\ heap[M].color = "black"
         /\ \E top, U, bh :
              /\ Tree(heap, live, top, U, bh, M, node, M, null) /\ bh[M] = 0
              /\ top # null => heap[top].color # "red"
<1>1. /\ M \in live /\ map /\ tmp \in live \cup {null} /\ tmp # M
      /\ (tmp = null => heap[M].parent = null) /\ heap[M].left = null /\ heap[M].right = null
      /\ node \in live /\ heap[node].color = "black" /\ heap[M].color = "black"
      BY DEF IInv, AtDelete, AtRest, Rebalancing, Leaf, Parent, Color
<1>2. \A s \in Child : heap[M][s] = null  BY <1>1 DEF Child
<1>3. Short = node /\ Leaving = M /\ Violator = null /\ Linked = live
      BY DEF Inserting, Short, Leaving, Violator, Linked, Rebalancing
<1>4. PICK top, U, bh : IsTree(top, U, bh)  BY DEF IInv
<1>5. Tree(heap, live, top, U, bh, M, node, M, null) /\ (top # null => heap[top].color # "red")
      BY <1>3, <1>4 DEF IsTree, Color, Rebalancing
<1>6. bh[M] = 0
  <2>1. "left" \in Child /\ heap[M]["left"] = null  BY <1>2 DEF Child
  <2>2. bh[M] = bh[null] + Missing(null, node) + Weight(heap, M, M) /\ bh[null] = 0
        BY <1>1, <1>5, <2>1 DEF Tree, Balanced
  <2> QED  BY <2>2 DEF Missing, Weight
<1> QED  BY <1>1, <1>2, <1>5, <1>6

(* A step of the rebalancing, to the next case or to its end. *)
LEMMA DeleteStep ==
  ASSUME IInv, Rebalancing, InTree, Keeps(heap, heap', live), node' \in live,
         NEW top, NEW U, NEW bh, NEW d, Tree(heap', live, top, U, bh, M, d, M, null),
         top # null => heap'[top].color # "red",
         \A s \in Child : heap'[M][s] = null,
         tmp = null => heap'[M].parent = null,
         \/ pc' = "unlink" /\ d = null
         \/ /\ Rebalancing' /\ d = node' /\ heap'[node'].color = "black" /\ heap'[M].color = "black"
            /\ AtCase'
  PROVE  IInv'
<1>1. /\ live' = live /\ map' = map /\ root' = root /\ tmp' = tmp /\ M' = M /\ todo' = todo
      /\ M \in live /\ map /\ tmp \in live \cup {null} /\ tmp # M
      BY Deletes DEF InTree
<1>2. live \subseteq Nodes /\ null \notin live  BY Heap
<1>3. pc' \in Steps /\ pc' \notin {"idle", "insert", "deleteNode"} /\ node' \in Refs
      BY <1>2 DEF Rebalancing, Steps, Refs
<1>4. Short' = d /\ Leaving' = M /\ Violator' = null
      BY <1>1 DEF Inserting, Short, Leaving, Rebalancing, Violator
<1>5. Tree(heap', live, top, U, bh, M, Short', Leaving', Violator')  BY <1>4
<1>6. heap' \in Heaps /\ \A m \in Nodes \ live : heap'[m] = heap[m]  BY DEF Keeps
<1>7. TreeTyped' /\ (\E t, V, b : IsTree(t, V, b)')
  BY <1>1, <1>3, <1>5, <1>6, InnerStep
<1>8. AtInsert'  BY DEF AtInsert, Inserting, Rebalancing
<1>9. AtDelete'
  <2>1. \A n \in live : heap'[n].key = heap'[M].key => heap'[n].value = heap'[M].value
    <3>1. \A n \in live : heap[n].key = heap[M].key => heap[n].value = heap[M].value
          BY DEF IInv, AtDelete
    <3> QED  BY <1>1, <1>2, <3>1 DEF Keeps
  <2>2. heap'[M].left = null /\ heap'[M].right = null  BY DEF Child
  <2>3. AtCase'  BY DEF AtCase, Rebalancing
  <2>4. Leaf(M)'  BY <1>1, <2>2 DEF Leaf
  <2>5. /\ M' \in live' /\ tmp' \in live' \cup {null} /\ tmp' # M'
        /\ tmp' = null => Parent(M)' = null /\ Leaf(M)'
        /\ \A n \in live' : heap'[n].key = heap'[M'].key => heap'[n].value = heap'[M'].value
        BY <1>1, <2>1, <2>4 DEF Parent
  <2>6. Rebalancing' => node' \in live' /\ Color(node)' = "black" /\ Color(M)' = "black"
        BY <1>1 DEF Color, Rebalancing
  <2>7. pc' # "deleteTheOnlyChild" /\ pc' # "deleteNode"  BY <1>3 DEF Rebalancing
  <2> QED  BY <2>3, <2>4, <2>5, <2>6, <2>7 DEF AtDelete
<1>10. AtRest'  BY <1>1, <1>2, <1>6 DEF IInv, AtRest, Inserting, Rebalancing
<1> QED  BY <1>7, <1>8, <1>9, <1>10 DEF IInv

(* delete_case1 keeps the invariant: at the root nothing is missing. *)
LEMMA DeleteCase1Step == IInv /\ DeleteCase1 => IInv'
<1> SUFFICES ASSUME IInv, DeleteCase1 PROVE IInv'  OBVIOUS
<1>1. /\ pc = "delete_case1" /\ Rebalancing /\ InTree /\ heap' = heap /\ node' = node
      /\ pc' = IF Parent(node) = null THEN "unlink" ELSE "delete_case2"
      BY DEF DeleteCase1, Rebalancing, Call
<1>2. /\ M \in live /\ tmp \in live \cup {null} /\ tmp # M
      /\ (tmp = null => heap[M].parent = null) /\ (\A s \in Child : heap[M][s] = null)
      /\ node \in live /\ heap[node].color = "black" /\ heap[M].color = "black"
      /\ heap \in Heaps /\ null \notin live
      BY <1>1, Deletes, Heap
<1>3. PICK top, U, bh :
        /\ Tree(heap, live, top, U, bh, M, node, M, null)
        /\ top # null => heap[top].color # "red"
      BY <1>1, Deletes
<1>4. Keeps(heap, heap', live)  BY <1>1, <1>2 DEF Keeps
<1>5. CASE Parent(node) = null
  <2>1. Shape(heap, live, top, U)  BY <1>3 DEF Tree
  <2>2. \A n \in live, s \in Child : heap[n][s] # node
    <3>1. \A n \in live, s \in Child : heap[n][s] = node => heap[node].parent = n  BY <1>2, <2>1, OnlyParent
    <3> QED  BY <1>2, <1>5, <3>1 DEF Parent
  <2>3. \A n \in live, s \in Child : Missing(heap[n][s], null) = Missing(heap[n][s], node)
        BY <2>2 DEF Missing
  <2>4. Balanced(heap, live, bh, null, M)  BY <1>3, <2>3 DEF Tree, Balanced
  <2>5. Tree(heap', live, top, U, bh, M, null, M, null)  BY <1>1, <1>3, <2>4 DEF Tree
  <2>6. pc' = "unlink"  BY <1>1, <1>5
  <2> QED  BY <1>1, <1>2, <1>3, <1>4, <2>5, <2>6, DeleteStep
<1>6. CASE Parent(node) # null
  <2>1. pc' = "delete_case2" /\ Rebalancing'  BY <1>1, <1>6 DEF Rebalancing
  <2>2. AtCase'  BY <1>1, <1>6, <2>1 DEF AtCase, Parent
  <2> QED  BY <1>1, <1>2, <1>3, <1>4, <2>1, <2>2, DeleteStep
<1> QED  BY <1>5, <1>6

(* The nodes that the cases 2 to 6 of a deletion are about. *)
LEMMA Siblings ==
  ASSUME IInv, Rebalancing, pc # "delete_case1"
  PROVE  LET p == heap[node].parent
             s == SideOf(node)
             b == heap[p][Other(s)]
             inner == heap[b][s]
             outer == heap[b][Other(s)]
         IN /\ node \in live /\ p \in live /\ b \in live /\ p # node /\ b # node /\ b # p
            /\ s \in Child /\ Other(s) \in Child /\ Other(Other(s)) = s
            /\ heap[p][s] = node /\ heap[b].parent = p /\ Brother(node) = b
            /\ inner \in live \cup {null} /\ inner \notin {p, b, node}
            /\ outer \in live \cup {null} /\ outer \notin {p, b, node} /\ (outer # null => outer # inner)
            /\ (inner # null => heap[inner].parent = b) /\ (outer # null => heap[outer].parent = b)
            /\ M \in live /\ M \notin {p, b} /\ tmp # null
            /\ heap[node].color = "black" /\ heap[M].color = "black" /\ CanTurn(heap, live, p, s)
            /\ \E top, U, bh :
                 /\ Tree(heap, live, top, U, bh, M, node, M, null)
                 /\ top # null => heap[top].color # "red"
                 /\ bh[M] = 0 /\ bh[null] = 0 /\ bh[node] \in Nat /\ bh[inner] \in Nat /\ bh[outer] \in Nat
                 /\ bh[p] = bh[b] + Weight(heap, p, M) /\ bh[b] = bh[node] + 1
                 /\ bh[b] = bh[inner] + Weight(heap, b, M) /\ bh[inner] = bh[outer]
                 /\ top # b /\ node # top
<1> DEFINE p == heap[node].parent
           s == SideOf(node)
           b == heap[p][Other(s)]
           inner == heap[b][s]
           outer == heap[b][Other(s)]
<1>1. /\ M \in live /\ tmp \in live \cup {null} /\ tmp # M
      /\ (tmp = null => heap[M].parent = null) /\ (\A z \in Child : heap[M][z] = null)
      /\ node \in live /\ heap[node].color = "black" /\ heap[M].color = "black"
      /\ heap \in Heaps /\ null \notin live
      BY Deletes, Heap
<1>2. PICK top, U, bh :
        /\ Tree(heap, live, top, U, bh, M, node, M, null) /\ bh[M] = 0
        /\ top # null => heap[top].color # "red"
      BY Deletes
<1>3. Shape(heap, live, top, U) /\ Balanced(heap, live, bh, node, M)  BY <1>2 DEF Tree
<1>4. p # null  BY DEF IInv, AtDelete, AtCase, Parent
<1>5. /\ p \in live /\ p # node /\ node # top /\ s \in Child /\ Other(s) \in Child /\ Other(Other(s)) = s
      /\ heap[p][s] = node /\ b # node /\ b # p /\ b \in live \cup {null}
      /\ b # null => heap[b].parent = p /\ b # top
      BY <1>1, <1>3, <1>4, Hanging DEF SideOf, Parent
<1>6. /\ bh \in [live \cup {null} -> Nat] /\ bh[null] = 0
      /\ \A n \in live, z \in Child : bh[n] = bh[heap[n][z]] + Missing(heap[n][z], node) + Weight(heap, n, M)
      BY <1>3 DEF Balanced
<1>7. Brother(node) = b  BY DEF Brother, Parent, SideOf
<1> HIDE DEF s, p, b
<1>8. heap[p][Other(s)] = b  BY DEF b
<1>9. bh[b] = bh[node] + 1 /\ bh[p] = bh[b] + Weight(heap, p, M) /\ bh[b] \in Nat /\ bh[node] \in Nat
  <2>1. /\ bh[p] = bh[node] + Missing(node, node) + Weight(heap, p, M)
        /\ bh[p] = bh[b] + Missing(b, node) + Weight(heap, p, M)
        BY <1>5, <1>6, <1>8
  <2>2. Missing(node, node) = 1 /\ Missing(b, node) = 0 /\ Weight(heap, p, M) \in Nat
        BY <1>1, <1>5 DEF Missing, Weight
  <2>3. bh[b] \in Nat /\ bh[node] \in Nat  BY <1>1, <1>5, <1>6
  <2> QED  BY <2>1, <2>2, <2>3
<1>10. b \in live /\ b # null /\ b # M
  <2>1. bh[b] # 0  BY <1>9
  <2> QED  BY <1>1, <1>2, <1>5, <1>6, <2>1
<1>11. CanTurn(heap, live, p, s)  BY <1>5, <1>8, <1>10 DEF CanTurn
<1>12. /\ inner \in live \cup {null} /\ inner \notin {p, b}
       /\ outer \in live \cup {null} /\ outer \notin {p, b} /\ (inner # null => inner # outer)
       /\ (inner # null => inner # node) /\ (outer # null => outer # node)
       /\ (inner # null => heap[inner].parent = b) /\ (outer # null => heap[outer].parent = b)
       BY <1>3, <1>5, <1>8, <1>11, TurnNodes
<1>13. inner # node /\ outer # node  BY <1>1, <1>12
<1>14. heap[b][s] = inner /\ heap[b][Other(s)] = outer  OBVIOUS
<1> HIDE DEF inner, outer
<1>15. bh[b] = bh[inner] + Weight(heap, b, M) /\ bh[inner] = bh[outer] /\ bh[inner] \in Nat /\ bh[outer] \in Nat
  <2>1. /\ bh[b] = bh[inner] + Missing(inner, node) + Weight(heap, b, M)
        /\ bh[b] = bh[outer] + Missing(outer, node) + Weight(heap, b, M)
        BY <1>5, <1>6, <1>10, <1>14
  <2>2. Missing(inner, node) = 0 /\ Missing(outer, node) = 0 /\ Weight(heap, b, M) \in Nat
        BY <1>13 DEF Missing, Weight
  <2>3. bh[inner] \in Nat /\ bh[outer] \in Nat  BY <1>12, <1>6
  <2> QED  BY <2>1, <2>2, <2>3
<1>16. M # p  BY <1>1, <1>5
<1>17. tmp # null
  <2> SUFFICES ASSUME tmp = null PROVE FALSE  OBVIOUS
  <2>1. M = top  BY <1>1, <1>3, OnlyParent
  <2>2. U[M] = {M} \cup U[null] \cup U[null]
    <3>1. U[M] = {M} \cup U[heap[M][s]] \cup U[heap[M][Other(s)]]  BY <1>1, <1>3, <1>5, ShapeAt
    <3> QED  BY <1>1, <1>5, <3>1
  <2>3. U[null] = {} /\ U[top] = live  BY <1>3 DEF Shape
  <2> QED  BY <1>1, <1>5, <2>1, <2>2, <2>3
<1>18. top # b  BY <1>5, <1>10
<1> QED  BY Zenon, <1>1, <1>2, <1>5, <1>6, <1>7, <1>9, <1>10, <1>11, <1>12, <1>13, <1>15, <1>16, <1>17, <1>18
         DEF s, p, b, inner, outer

(* A black brother with black children, with the side named. *)
LEMMA BlackBrotherMeans ==
  ASSUME NEW s \in Child, NEW b, Brother(node) = b
  PROVE  BlackBrother(node) <=> /\ heap[b].color = "black"
                                /\ IsBlack(heap[b][s]) /\ IsBlack(heap[b][Other(s)])
BY DEF BlackBrother, Color, Child, Other

(* delete_case3 keeps the invariant: the missing black node moves up. *)
LEMMA DeleteCase3Step == IInv /\ DeleteCase3 => IInv'
<1> SUFFICES ASSUME IInv, DeleteCase3 PROVE IInv'  OBVIOUS
<1>0. PICK p, s, b, inner, outer :
        /\ p = heap[node].parent /\ s = SideOf(node) /\ b = heap[p][Other(s)]
        /\ inner = heap[b][s] /\ outer = heap[b][Other(s)]
      OBVIOUS
<1>1. pc = "delete_case3" /\ Rebalancing /\ InTree /\ pc # "delete_case1"
      BY DEF DeleteCase3, Rebalancing
<1>2. /\ node \in live /\ p \in live /\ b \in live /\ p # node /\ b # node /\ b # p
      /\ s \in Child /\ Other(s) \in Child /\ Other(Other(s)) = s
      /\ heap[p][s] = node /\ heap[b].parent = p /\ Brother(node) = b
      /\ inner \in live \cup {null} /\ inner \notin {p, b, node}
      /\ outer \in live \cup {null} /\ outer \notin {p, b, node}
      /\ M \in live /\ M \notin {p, b} /\ tmp # null
      /\ heap[node].color = "black" /\ heap[M].color = "black"
      BY Zenon, <1>0, <1>1, Siblings
<1>3. PICK top, U, bh :
        /\ Tree(heap, live, top, U, bh, M, node, M, null)
        /\ top # null => heap[top].color # "red"
        /\ bh[null] = 0 /\ bh[node] \in Nat /\ bh[inner] \in Nat /\ bh[outer] \in Nat
        /\ bh[p] = bh[b] + Weight(heap, p, M) /\ bh[b] = bh[node] + 1
        /\ bh[b] = bh[inner] + Weight(heap, b, M) /\ bh[inner] = bh[outer]
        /\ top # b /\ node # top
      BY Zenon, <1>0, <1>1, Siblings
<1>4. heap \in Heaps /\ live \subseteq Nodes /\ null \notin live  BY Heap
<1>5. Color(Brother(node)) = "black" /\ heap[b].color = "black" /\ Parent(node) = p
      BY <1>0, <1>1, <1>2 DEF IInv, AtDelete, AtCase, Color, Parent
<1>6. \A z \in Child : heap[M][z] = null  BY <1>1, Deletes
<1>7. CASE ~(Color(Parent(node)) = "black" /\ BlackBrother(node))
  <2>1. heap' = heap /\ pc' = "delete_case4" /\ node' = node
        BY <1>7 DEF DeleteCase3, Call
  <2>2. Keeps(heap, heap', live)  BY <1>4, <2>1 DEF Keeps
  <2>3. /\ (~(Color(Parent(node)) = "black" /\ BlackBrother(node)))'
        /\ (Color(Brother(node)) = "black")' /\ Parent(node)' = p
        BY Zenon, <1>5, <1>7, <2>1 DEF BlackBrother, Brother, IsBlack, SideOf, Parent, Color
  <2>4. Rebalancing' /\ AtCase'  BY <1>2, <1>4, <2>1, <2>3 DEF AtCase, Rebalancing
  <2> QED  BY <1>1, <1>2, <1>3, <1>6, <2>1, <2>2, <2>4, DeleteStep
<1>8. CASE Color(Parent(node)) = "black" /\ BlackBrother(node)
  <2>1. heap' = Paint(heap, b, "red") /\ pc' = "delete_case1" /\ node' = p
        BY Zenon, <1>0, <1>2, <1>8 DEF DeleteCase3, Call, Parent
  <2>2. heap[p].color = "black" /\ IsBlack(inner) /\ IsBlack(outer)
    <3>1. IsBlack(heap[b][s]) /\ IsBlack(heap[b][Other(s)])  BY <1>2, <1>8, BlackBrotherMeans
    <3> QED  BY <1>0, <1>5, <1>8, <3>1 DEF Color
  <2>3. /\ heap' \in Heaps /\ SameLinks(heap, heap')
        /\ \A m \in Nodes : /\ heap'[m].color = IF m = b THEN "red" ELSE heap[m].color
                            /\ heap'[m].value = heap[m].value
                            /\ m # b => heap'[m] = heap[m]
    <3> DEFINE k == Paint(heap, b, "red")
    <3>1. /\ k \in Heaps /\ SameLinks(heap, k)
          /\ \A m \in Nodes : /\ k[m].color = IF m = b THEN "red" ELSE heap[m].color
                              /\ k[m].value = heap[m].value
                              /\ m # b => k[m] = heap[m]
          BY <1>2, <1>4, PaintLinks, LinksOfItself, BothColors
    <3>2. heap' = k  BY <2>1
    <3> HIDE DEF k
    <3> QED  BY <3>1, <3>2
  <2>4. Keeps(heap, heap', live)  BY <1>2, <2>3 DEF Keeps, SameLinks
  <2>5. Shape(heap, live, top, U)  BY <1>3 DEF Tree
  <2>6. /\ bh \in [live \cup {null} -> Nat] /\ bh[null] = 0
        /\ \A n \in live, z \in Child :
             bh[n] = bh[heap[n][z]] + Missing(heap[n][z], node) + Weight(heap, n, M)
        BY <1>3 DEF Tree, Balanced
  <2>7. Weight(heap, p, M) = 1 /\ Weight(heap, b, M) = 1 /\ Weight(heap', p, M) = 1 /\ Weight(heap', b, M) = 0
        /\ \A m \in live : m # b => Weight(heap', m, M) = Weight(heap, m, M)
        BY <1>2, <1>4, <1>5, <2>2, <2>3 DEF Weight
  <2>8. bh[p] = bh[b] + 1 /\ bh[b] = bh[inner] + 1 /\ bh[b] \in Nat /\ bh[p] \in Nat
        BY <1>2, <1>3, <2>6, <2>7
  <2> DEFINE c == [bh EXCEPT ![b] = bh[inner], ![p] = bh[b]]
  <2>9. /\ c \in [live \cup {null} -> Nat] /\ c[null] = 0 /\ c[b] = bh[inner] /\ c[p] = bh[b]
        /\ \A m \in live \cup {null} : m \notin {p, b} => c[m] = bh[m]
        BY Zenon, <1>2, <1>3, <1>4, <2>6, <2>8
  <2> HIDE DEF c
  <2>10. ASSUME NEW n \in live, NEW z \in Child
         PROVE  /\ heap'[n][z] = heap[n][z] /\ heap[n][z] \in live \cup {null}
                /\ n = p => heap[n][z] \in {node, b}
                /\ n = b => heap[n][z] \in {inner, outer}
                /\ heap[n][z] \in {node, b} => n = p
    <3>1. heap[n][z] \in live \cup {null} /\ (heap[n][z] # null => heap[heap[n][z]].parent = n)
          BY <2>5, ShapeAt
    <3>2. z = s \/ z = Other(s)  BY <1>2, Sides
    <3> QED  BY <1>0, <1>2, <1>4, <2>3, <3>1, <3>2 DEF SameLinks
  <2>11. Balanced(heap', live, c, p, M)
    <3> SUFFICES ASSUME NEW n \in live, NEW z \in Child
                 PROVE  c[n] = c[heap'[n][z]] + Missing(heap'[n][z], p) + Weight(heap', n, M)
        BY <2>9 DEF Balanced
    <3> DEFINE x == heap[n][z]
    <3>1. heap'[n][z] = x /\ x \in live \cup {null} /\ n # null  BY <1>4, <2>10
    <3>2. bh[n] = bh[x] + Missing(x, node) + Weight(heap, n, M)  BY <2>6
    <3>3. /\ n = p => x \in {node, b} 
          /\ n = b => x \in {inner, outer}
          /\ x \in {node, b} => n = p
          BY <2>10
    <3> HIDE DEF x
    <3>4. bh[x] \in Nat /\ Weight(heap, n, M) \in Nat  BY <2>6, <3>1 DEF Weight
    <3>5. CASE n = p
      <4>1. Missing(x, p) = 0  BY <1>2, <3>3, <3>5 DEF Missing
      <4>2. c[x] = bh[node]  BY <1>2, <1>3, <2>8, <2>9, <3>3, <3>5
      <4> QED  BY <1>3, <2>7, <2>8, <2>9, <3>1, <3>5, <4>1, <4>2
    <3>6. CASE n = b
      <4>1. Missing(x, p) = 0  BY <1>2, <3>3, <3>6 DEF Missing
      <4>2. c[x] = bh[inner]  BY <1>2, <1>3, <2>9, <3>3, <3>6
      <4> QED  BY <1>3, <2>7, <2>9, <3>1, <3>6, <4>1, <4>2
    <3>7. CASE n \notin {p, b}
      <4>1. Weight(heap', n, M) = Weight(heap, n, M) /\ c[n] = bh[n]  BY <2>7, <2>9, <3>7
      <4>2. Missing(x, node) = 0  BY <3>3, <3>7 DEF Missing
      <4>3. c[x] + Missing(x, p) = bh[x]
        <5>1. CASE x = p  BY <1>2, <1>4, <2>8, <2>9, <5>1 DEF Missing
        <5>2. CASE x # p  BY <2>9, <3>1, <3>3, <3>4, <3>7, <5>2 DEF Missing
        <5> QED  BY <5>1, <5>2
      <4> QED  BY <3>1, <3>2, <3>4, <4>1, <4>2, <4>3
    <3> QED  BY <3>5, <3>6, <3>7
  <2>12. Colored(heap', live, null)
    <3> SUFFICES ASSUME NEW n \in live, NEW z \in Child, heap'[n][z] # null, heap'[n].color = "red"
                 PROVE  heap'[heap'[n][z]].color = "black"
        BY DEF Colored
    <3> DEFINE x == heap[n][z]
    <3>1. heap'[n][z] = x /\ x \in live /\ x \in Nodes /\ n \in Nodes /\ x # null  BY <1>4, <2>10
    <3>2. /\ n = b => x \in {inner, outer}
          /\ x \in {node, b} => n = p
          BY <2>10
    <3>3. n # p  BY <1>2, <1>4, <2>2, <2>3
    <3>4. CASE n = b  BY <1>2, <2>2, <2>3, <3>1, <3>2, <3>4 DEF IsBlack, Color
    <3>5. CASE n # b
      <4>1. heap[x].color = "black"  BY <1>3, <2>3, <3>1, <3>5 DEF Tree, Colored
      <4> QED  BY <2>3, <3>1, <3>2, <3>3, <4>1
    <3> QED  BY <3>4, <3>5
  <2>13. Tree(heap', live, top, U, c, M, p, M, null)
         BY <1>3, <2>3, <2>11, <2>12, SameShape DEF Tree
  <2>14. top # null => heap'[top].color # "red"
    <3>1. top # null => top \in Nodes  BY <2>5 DEF Shape
    <3> QED  BY <1>3, <2>3, <3>1
  <2>15. Rebalancing' /\ AtCase'  BY <2>1 DEF AtCase, Rebalancing
  <2>16. heap'[p].color = "black" /\ heap'[M].color = "black" /\ \A z \in Child : heap'[M][z] = null
         BY <1>2, <1>4, <1>6, <2>2, <2>3, <2>10
  <2> QED  BY <1>1, <1>2, <2>1, <2>4, <2>13, <2>14, <2>15, <2>16, DeleteStep
<1> QED  BY <1>7, <1>8

(* delete_case4 keeps the invariant: the parent makes good for the missing node. *)
LEMMA DeleteCase4Step == IInv /\ DeleteCase4 => IInv'
<1> SUFFICES ASSUME IInv, DeleteCase4 PROVE IInv'  OBVIOUS
<1>0. PICK p, s, b, inner, outer :
        /\ p = heap[node].parent /\ s = SideOf(node) /\ b = heap[p][Other(s)]
        /\ inner = heap[b][s] /\ outer = heap[b][Other(s)]
      OBVIOUS
<1>1. pc = "delete_case4" /\ Rebalancing /\ InTree /\ pc # "delete_case1"
      BY DEF DeleteCase4, Rebalancing
<1>2. /\ node \in live /\ p \in live /\ b \in live /\ p # node /\ b # node /\ b # p
      /\ s \in Child /\ Other(s) \in Child /\ Other(Other(s)) = s
      /\ heap[p][s] = node /\ heap[b].parent = p /\ Brother(node) = b
      /\ inner \in live \cup {null} /\ inner \notin {p, b, node}
      /\ outer \in live \cup {null} /\ outer \notin {p, b, node}
      /\ M \in live /\ M \notin {p, b} /\ tmp # null
      /\ heap[node].color = "black" /\ heap[M].color = "black"
      BY Zenon, <1>0, <1>1, Siblings
<1>3. PICK top, U, bh :
        /\ Tree(heap, live, top, U, bh, M, node, M, null)
        /\ top # null => heap[top].color # "red"
        /\ bh[null] = 0 /\ bh[node] \in Nat /\ bh[inner] \in Nat /\ bh[outer] \in Nat
        /\ bh[p] = bh[b] + Weight(heap, p, M) /\ bh[b] = bh[node] + 1
        /\ bh[b] = bh[inner] + Weight(heap, b, M) /\ bh[inner] = bh[outer]
        /\ top # b /\ node # top
      BY Zenon, <1>0, <1>1, Siblings
<1>4. heap \in Heaps /\ live \subseteq Nodes /\ null \notin live  BY Heap
<1>5. Color(Brother(node)) = "black" /\ heap[b].color = "black" /\ Parent(node) = p
      BY <1>0, <1>1, <1>2 DEF IInv, AtDelete, AtCase, Color, Parent
<1>6. \A z \in Child : heap[M][z] = null  BY <1>1, Deletes
<1>7. CASE ~(Color(Parent(node)) = "red" /\ BlackBrother(node))
  <2>1. heap' = heap /\ pc' = "delete_case5" /\ node' = node
        BY <1>7 DEF DeleteCase4, Call
  <2>2. Keeps(heap, heap', live)  BY <1>4, <2>1 DEF Keeps
  <2>3. ~BlackBrother(node)
    <3>1. ~(Color(Parent(node)) = "black" /\ BlackBrother(node))
          BY <1>1 DEF IInv, AtDelete, AtCase
    <3>2. Color(Parent(node)) \in {"red", "black"}  BY <1>2, <1>4, <1>5, HeapFields DEF Color
    <3> QED  BY <1>7, <3>1, <3>2
  <2>4. (~BlackBrother(node))' /\ (Color(Brother(node)) = "black")' /\ Parent(node)' = p
        BY Zenon, <1>5, <2>1, <2>3 DEF BlackBrother, Brother, IsBlack, SideOf, Parent, Color
  <2>5. Rebalancing' /\ AtCase'  BY <1>2, <1>4, <2>1, <2>4 DEF AtCase, Rebalancing
  <2> QED  BY <1>1, <1>2, <1>3, <1>6, <2>1, <2>2, <2>5, DeleteStep
<1>8. CASE Color(Parent(node)) = "red" /\ BlackBrother(node)
  <2>1. heap' = Paint(Paint(heap, b, "red"), p, "black") /\ pc' = "unlink" /\ node' = node
        BY Zenon, <1>0, <1>2, <1>8 DEF DeleteCase4, Call, Parent
  <2>2. heap[p].color = "red" /\ IsBlack(inner) /\ IsBlack(outer)
    <3>1. IsBlack(heap[b][s]) /\ IsBlack(heap[b][Other(s)])  BY <1>2, <1>8, BlackBrotherMeans
    <3> QED  BY <1>0, <1>5, <1>8, <3>1 DEF Color
  <2>3. /\ heap' \in Heaps /\ SameLinks(heap, heap') /\ heap'[b].color = "red" /\ heap'[p].color = "black"
        /\ \A m \in Nodes : heap'[m].value = heap[m].value /\ (m \notin {b, p} => heap'[m] = heap[m])
    <3> DEFINE k == Paint(Paint(heap, b, "red"), p, "black")
    <3>1. p \in Nodes /\ b \in Nodes  BY <1>2, <1>4
    <3>2. /\ k \in Heaps /\ SameLinks(heap, k) /\ k[b].color = "red" /\ k[p].color = "black"
          /\ \A m \in Nodes : k[m].value = heap[m].value /\ (m \notin {b, p} => k[m] = heap[m])
          BY <1>2, <1>4, <3>1, PaintTwo, BothColors
    <3>3. heap' = k  BY <2>1
    <3> HIDE DEF k
    <3> QED  BY <3>2, <3>3
  <2>4. Keeps(heap, heap', live)  BY <1>2, <2>3 DEF Keeps, SameLinks
  <2>5. Shape(heap, live, top, U)  BY <1>3 DEF Tree
  <2>6. /\ bh \in [live \cup {null} -> Nat] /\ bh[null] = 0
        /\ \A n \in live, z \in Child :
             bh[n] = bh[heap[n][z]] + Missing(heap[n][z], node) + Weight(heap, n, M)
        BY <1>3 DEF Tree, Balanced
  <2>7. Weight(heap, p, M) = 0 /\ Weight(heap, b, M) = 1 /\ Weight(heap', p, M) = 1 /\ Weight(heap', b, M) = 0
        /\ \A m \in live : m \notin {b, p} => Weight(heap', m, M) = Weight(heap, m, M)
        BY <1>2, <1>4, <1>5, <2>2, <2>3 DEF Weight
  <2>8. bh[p] = bh[b] /\ bh[b] = bh[inner] + 1 /\ bh[b] \in Nat /\ bh[p] \in Nat
        BY <1>2, <1>3, <2>6, <2>7
  <2> DEFINE c == [bh EXCEPT ![b] = bh[inner]]
  <2>9. /\ c \in [live \cup {null} -> Nat] /\ c[null] = 0 /\ c[b] = bh[inner]
        /\ \A m \in live \cup {null} : m # b => c[m] = bh[m]
        BY Zenon, <1>2, <1>3, <1>4, <2>6, <2>8
  <2> HIDE DEF c
  <2>10. ASSUME NEW n \in live, NEW z \in Child
         PROVE  /\ heap'[n][z] = heap[n][z] /\ heap[n][z] \in live \cup {null}
                /\ n = p => heap[n][z] \in {node, b}
                /\ n = b => heap[n][z] \in {inner, outer}
                /\ heap[n][z] \in {node, b} => n = p
    <3>1. heap[n][z] \in live \cup {null} /\ (heap[n][z] # null => heap[heap[n][z]].parent = n)
          BY <2>5, ShapeAt
    <3>2. z = s \/ z = Other(s)  BY <1>2, Sides
    <3> QED  BY <1>0, <1>2, <1>4, <2>3, <3>1, <3>2 DEF SameLinks
  <2>11. Balanced(heap', live, c, null, M)
    <3> SUFFICES ASSUME NEW n \in live, NEW z \in Child
                 PROVE  c[n] = c[heap'[n][z]] + Missing(heap'[n][z], null) + Weight(heap', n, M)
        BY <2>9 DEF Balanced
    <3> DEFINE x == heap[n][z]
    <3>1. heap'[n][z] = x /\ x \in live \cup {null} /\ n # null  BY <1>4, <2>10
    <3>2. bh[n] = bh[x] + Missing(x, node) + Weight(heap, n, M)  BY <2>6
    <3>3. /\ n = p => x \in {node, b} 
          /\ n = b => x \in {inner, outer}
          /\ x \in {node, b} => n = p
          BY <2>10
    <3> HIDE DEF x
    <3>4. bh[x] \in Nat /\ Missing(x, null) = 0  BY <2>6, <3>1 DEF Missing
    <3>5. CASE n = p
      <4>1. c[x] = bh[node]  BY <1>2, <1>3, <2>8, <2>9, <3>3, <3>5
      <4> QED  BY <1>2, <1>3, <2>7, <2>8, <2>9, <3>1, <3>4, <3>5, <4>1
    <3>6. CASE n = b
      <4>1. c[x] = bh[inner]  BY <1>2, <1>3, <2>9, <3>3, <3>6
      <4> QED  BY <1>3, <2>7, <2>9, <3>1, <3>4, <3>6, <4>1
    <3>7. CASE n \notin {p, b}
      <4>1. Weight(heap', n, M) = Weight(heap, n, M) /\ c[n] = bh[n]  BY <2>7, <2>9, <3>7
      <4>2. Missing(x, node) = 0 /\ c[x] = bh[x]  BY <2>9, <3>1, <3>3, <3>7 DEF Missing
      <4> QED  BY <3>1, <3>2, <3>4, <4>1, <4>2
    <3> QED  BY <3>5, <3>6, <3>7
  <2>12. Colored(heap', live, null)
    <3> SUFFICES ASSUME NEW n \in live, NEW z \in Child, heap'[n][z] # null, heap'[n].color = "red"
                 PROVE  heap'[heap'[n][z]].color = "black"
        BY DEF Colored
    <3> DEFINE x == heap[n][z]
    <3>1. heap'[n][z] = x /\ x \in live /\ x \in Nodes /\ n \in Nodes /\ x # null  BY <1>4, <2>10
    <3>2. /\ n = b => x \in {inner, outer}
          /\ x \in {node, b} => n = p
          BY <2>10
    <3>3. n # p  BY <1>2, <1>4, <2>2, <2>3
    <3>4. CASE n = b  BY <1>2, <2>2, <2>3, <3>1, <3>2, <3>4 DEF IsBlack, Color
    <3>5. CASE n # b
      <4>1. heap[x].color = "black"  BY <1>3, <2>3, <3>1, <3>3, <3>5 DEF Tree, Colored
      <4> QED  BY <2>3, <3>1, <3>2, <3>3, <4>1
    <3> QED  BY <3>4, <3>5
  <2>13. Tree(heap', live, top, U, c, M, null, M, null)
         BY <1>3, <2>3, <2>11, <2>12, SameShape DEF Tree
  <2>14. top # null => heap'[top].color # "red"
    <3>1. top # null => top \in Nodes  BY <2>5 DEF Shape
    <3> QED  BY <1>3, <2>3, <3>1
  <2>16. \A z \in Child : heap'[M][z] = null  BY <1>2, <1>6, <2>10
  <2> QED  BY Zenon, <1>1, <1>2, <2>1, <2>4, <2>13, <2>14, <2>16, DeleteStep
<1> QED  BY <1>7, <1>8

(* The brother goes up in the place of the parent. *)
Around(p, s, b, inner, outer) ==
  /\ p = heap[node].parent /\ s = SideOf(node) /\ b = heap[p][Other(s)]
  /\ inner = heap[b][s] /\ outer = heap[b][Other(s)]

(* The rotation of delete_case2 and delete_case6, that brings the brother up. *)
LEMMA BrotherGoesUp ==
  ASSUME IInv, Rebalancing, pc # "delete_case1",
         NEW p, NEW s, NEW b, NEW inner, NEW outer, Around(p, s, b, inner, outer),
         NEW k \in Heaps, SameLinks(heap, k), NEW top, NEW U, Shape(heap, live, top, U),
         Sorted(heap, live, U, M),
         NEW g, g = Rotate(k, p, s)
  PROVE  /\ Turned(heap, g, live, p, s) /\ Keeps(k, g, live) /\ CanTurn(heap, live, p, s)
         /\ Shape(g, live, TopAfter(heap, top, p, s), UnderAfter(heap, U, p, s))
         /\ Sorted(g, live, UnderAfter(heap, U, p, s), M)
         /\ \A m \in Nodes : g[m].color = k[m].color
         /\ heap[p][Other(s)] = b
         /\ g[p][s] = node /\ g[p][Other(s)] = inner /\ g[b][s] = p /\ g[b][Other(s)] = outer
         /\ g[node].parent = p /\ \A z \in Child : g[M][z] = null
<1>1. /\ node \in live /\ p \in live /\ b \in live /\ p # node /\ b # node /\ b # p
      /\ s \in Child /\ Other(s) \in Child
      /\ heap[p][s] = node
      /\ inner \in live \cup {null} /\ inner \notin {p, b, node}
      /\ M \in live /\ M \notin {p, b}
      /\ CanTurn(heap, live, p, s) /\ heap[p][Other(s)] = b
      BY Zenon, Siblings DEF Around
<1>2. /\ heap \in Heaps /\ live \subseteq Nodes /\ null \notin live
      /\ \A m \in live : heap[m].key \in Int
      /\ \A z \in Child : heap[M][z] = null
      BY Heap, Deletes
<1>3. /\ Turned(heap, g, live, p, s) /\ Keeps(k, g, live)
      /\ \A m \in Nodes : g[m].color = k[m].color
  <2> DEFINE e == Rotate(k, p, s)
  <2>1. /\ Turned(heap, e, live, p, s) /\ Keeps(k, e, live)
        /\ \A m \in Nodes : e[m].color = k[m].color
        BY <1>1, RotateTurns
  <2>2. g = e  OBVIOUS
  <2> HIDE DEF e
  <2> QED  BY <2>1, <2>2
<1>4. /\ g[p][s] = node /\ g[p][Other(s)] = inner /\ g[b][s] = p /\ g[b][Other(s)] = outer
      /\ \A m \in live \ {p, b}, z \in Child : g[m][z] = IF heap[m][z] = p THEN b ELSE heap[m][z]
      /\ \A m \in live \ {p, b, inner} : g[m].parent = heap[m].parent
  <2>1. heap[b][s] = inner /\ heap[b][Other(s)] = outer  BY DEF Around
  <2> QED  BY <1>1, <1>3, <2>1 DEF Turned
<1>5. g[node].parent = p /\ \A z \in Child : g[M][z] = null
  <2>1. heap[node].parent = p  BY DEF Around
  <2>2. node \notin {p, b, inner} /\ p # null  BY <1>1, <1>2
  <2>3. g[node].parent = p  BY <1>1, <1>4, <2>1, <2>2
  <2>4. \A z \in Child : g[M][z] = null  BY <1>1, <1>2, <1>4, <2>2
  <2> QED  BY <2>3, <2>4
<1>6. \A m \in live : g[m].key = heap[m].key  BY <1>2, <1>3 DEF Keeps, SameLinks
<1>7. Shape(g, live, TopAfter(heap, top, p, s), UnderAfter(heap, U, p, s))
      BY <1>1, <1>3, TurnedShape
<1>8. Sorted(g, live, UnderAfter(heap, U, p, s), M)
      BY <1>1, <1>2, <1>3, <1>6, TurnedSorted
<1> QED  BY <1>1, <1>3, <1>4, <1>5, <1>7, <1>8

(* delete_case2 keeps the invariant: a red brother gets the grandparent. *)
LEMMA DeleteCase2Step == IInv /\ DeleteCase2 => IInv'
<1> SUFFICES ASSUME IInv, DeleteCase2 PROVE IInv'  OBVIOUS
<1>0. PICK p, s, b, inner, outer : Around(p, s, b, inner, outer)  BY DEF Around
<1>1. pc = "delete_case2" /\ Rebalancing /\ InTree /\ pc # "delete_case1"
      /\ pc' = "delete_case3" /\ node' = node
      BY DEF DeleteCase2, Rebalancing, Call
<1>2. /\ node \in live /\ p \in live /\ b \in live /\ p # node /\ b # node /\ b # p
      /\ s \in Child /\ Other(s) \in Child /\ Other(Other(s)) = s
      /\ heap[p][s] = node /\ heap[p][Other(s)] = b /\ heap[b].parent = p /\ Brother(node) = b
      /\ inner \in live \cup {null} /\ inner \notin {p, b, node}
      /\ outer \in live \cup {null} /\ outer \notin {p, b, node}
      /\ M \in live /\ M \notin {p, b} /\ tmp # null
      /\ heap[node].color = "black" /\ heap[M].color = "black"
      BY Zenon, <1>0, <1>1, Siblings DEF Around
<1>3. PICK top, U, bh :
        /\ Tree(heap, live, top, U, bh, M, node, M, null)
        /\ top # null => heap[top].color # "red"
        /\ bh[null] = 0 /\ bh[node] \in Nat /\ bh[inner] \in Nat /\ bh[outer] \in Nat
        /\ bh[p] = bh[b] + Weight(heap, p, M) /\ bh[b] = bh[node] + 1
        /\ bh[b] = bh[inner] + Weight(heap, b, M) /\ bh[inner] = bh[outer]
        /\ top # b /\ node # top
      BY Zenon, <1>0, <1>1, Siblings DEF Around
<1>4. heap \in Heaps /\ live \subseteq Nodes /\ null \notin live  BY Heap
<1>5. Parent(node) = p /\ SideOf(node) = s  BY <1>0 DEF Parent, Around
<1>6. \A z \in Child : heap[M][z] = null  BY <1>1, Deletes
<1>7. \A m \in live : heap[m].color \in {"red", "black"}  BY <1>4, HeapFields
<1>8. CASE Color(Brother(node)) # "red"
  <2>1. heap' = heap  BY <1>8 DEF DeleteCase2
  <2>2. Keeps(heap, heap', live)  BY <1>4, <2>1 DEF Keeps
  <2>3. Color(Brother(node)) = "black"  BY <1>2, <1>7, <1>8 DEF Color
  <2>4. (Color(Brother(node)) = "black")' /\ Parent(node)' = p
        BY <1>1, <1>5, <2>1, <2>3 DEF Brother, SideOf, Parent, Color
  <2>5. Rebalancing' /\ AtCase'  BY <1>1, <1>2, <1>4, <2>4 DEF AtCase, Rebalancing
  <2> QED  BY <1>1, <1>2, <1>3, <1>6, <2>1, <2>2, <2>5, DeleteStep
<1>9. CASE Color(Brother(node)) = "red"
  <2> DEFINE k == Paint(Paint(heap, p, "red"), b, "black")
  <2>1. heap' = Rotate(k, p, s)
        BY <1>2, <1>5, <1>9 DEF DeleteCase2
  <2>2. /\ k \in Heaps /\ SameLinks(heap, k) /\ k[p].color = "red" /\ k[b].color = "black"
        /\ \A m \in Nodes : k[m].value = heap[m].value /\ (m \notin {p, b} => k[m] = heap[m])
    <3>1. p \in Nodes /\ b \in Nodes  BY <1>2, <1>4
    <3> QED  BY <1>2, <1>4, <3>1, PaintTwo, BothColors
  <2> HIDE DEF k
  <2>3. /\ Shape(heap, live, top, U) /\ Sorted(heap, live, U, M)
        /\ Balanced(heap, live, bh, node, M) /\ Colored(heap, live, null)
        BY <1>3 DEF Tree
  <2> DEFINE V == UnderAfter(heap, U, p, s)
             t2 == TopAfter(heap, top, p, s)
  <2>4. /\ Turned(heap, heap', live, p, s) /\ Keeps(k, heap', live) /\ CanTurn(heap, live, p, s)
        /\ Shape(heap', live, t2, V) /\ Sorted(heap', live, V, M)
        /\ \A m \in Nodes : heap'[m].color = k[m].color
        /\ heap'[p][s] = node /\ heap'[p][Other(s)] = inner
        /\ heap'[b][s] = p /\ heap'[b][Other(s)] = outer
        /\ heap'[node].parent = p /\ \A z \in Child : heap'[M][z] = null
        BY <1>0, <1>1, <2>1, <2>2, <2>3, BrotherGoesUp
  <2>5. \A z \in Child : z = s \/ z = Other(s)  BY <1>2, Sides
  <2>6. /\ Keeps(heap, heap', live) /\ heap'[p].color = "red" /\ heap'[b].color = "black"
        /\ \A m \in live : m \in Nodes /\ m # null /\ (m \notin {p, b} => heap'[m].color = heap[m].color)
    <3>1. p \in Nodes /\ b \in Nodes /\ \A m \in live : m \in Nodes /\ m # null  BY <1>2, <1>4
    <3>2. \A m \in Nodes \ live : m \notin {p, b}  BY <1>2
    <3> QED  BY <2>2, <2>4, <3>1, <3>2 DEF Keeps, SameLinks
  <2>7. t2 # null => heap'[t2].color # "red"
    <3>1. top # null => top \in live  BY <2>3 DEF Shape
    <3>2. t2 = IF top = p THEN b ELSE top  BY <1>2 DEF TopAfter
    <3> HIDE DEF t2
    <3> QED  BY <1>3, <2>6, <3>1, <3>2
  <2> HIDE DEF V, t2
  <2>8. heap[b].color = "red" /\ heap[p].color = "black"
    <3>1. heap[b].color = "red"  BY <1>2, <1>9 DEF Color
    <3>2. b # null /\ b # M  BY <1>2, <1>4
    <3> QED  BY <1>2, <1>7, <2>3, <3>1, <3>2 DEF Colored
  <2>9. /\ bh \in [live \cup {null} -> Nat]
        BY <2>3 DEF Balanced
  <2>10. /\ Weight(heap, p, M) = 1 /\ Weight(heap, b, M) = 0
         /\ Weight(heap', p, M) = 0 /\ Weight(heap', b, M) = 1
         /\ \A x \in live : x \notin {p, b} => Weight(heap', x, M) = Weight(heap, x, M)
         BY <1>2, <2>6, <2>8 DEF Weight
  <2>11. bh[b] \in Nat /\ bh[p] = bh[b] + 1 /\ bh[b] = bh[inner] /\ bh[b] = bh[outer] /\ bh[b] = bh[node] + 1
         BY <1>3, <2>10
  <2>12. inner \in live /\ inner # null /\ heap[inner].color = "black"
    <3>1. inner # null  BY <1>3, <2>11
    <3>2. heap[b][s] = inner  BY <1>0 DEF Around
    <3> QED  BY <1>2, <2>3, <2>8, <3>1, <3>2 DEF Colored
  <2> DEFINE c == [bh EXCEPT ![p] = bh[b], ![b] = bh[p]]
  <2>13. /\ c \in [live \cup {null} -> Nat] /\ c[null] = 0 /\ c[p] = bh[b] /\ c[b] = bh[p]
         /\ \A m \in live \cup {null} : m \notin {p, b} => c[m] = bh[m]
         BY <1>2, <1>3, <1>4, <2>9, <2>11
  <2> HIDE DEF c
  <2>14. Balanced(heap', live, c, node, M)
    <3>1. c[node] = bh[node] /\ c[inner] = bh[inner] /\ c[outer] = bh[outer]
          BY <1>2, <2>13
    <3>2. Missing(node, node) = 1 /\ Missing(inner, node) = 0 /\ Missing(outer, node) = 0
          /\ Missing(p, node) = 0 /\ Missing(b, node) = 0
          BY <1>2, <1>4 DEF Missing
    <3>3. \A x \in {p, heap[p][Other(s)]}, z \in Child :
            c[x] = c[heap'[x][z]] + Missing(heap'[x][z], node) + Weight(heap', x, M)
      <4> SUFFICES ASSUME NEW x \in {p, b}, NEW z \in Child
                   PROVE  c[x] = c[heap'[x][z]] + Missing(heap'[x][z], node) + Weight(heap', x, M)
          BY <1>2
      <4>1. CASE x = p
        <5>1. c[heap'[x][z]] + Missing(heap'[x][z], node) = bh[b]
              BY <1>3, <2>4, <2>5, <2>11, <3>1, <3>2, <4>1
        <5> QED  BY <2>10, <2>11, <2>13, <4>1, <5>1
      <4>2. CASE x = b
        <5>1. c[heap'[x][z]] + Missing(heap'[x][z], node) = bh[b]
              BY <1>3, <2>4, <2>5, <2>11, <2>13, <3>1, <3>2, <4>2
        <5> QED  BY <2>10, <2>11, <2>13, <4>2, <5>1
      <4> QED  BY <4>1, <4>2
    <3>4. c[heap[p][Other(s)]] + Missing(heap[p][Other(s)], node) = bh[p] + Missing(p, node)
          BY <1>2, <2>13, <3>2
    <3>5. \A x \in live : x \notin {p, heap[p][Other(s)]} =>
            /\ c[x] + Weight(heap, x, M) = bh[x] + Weight(heap', x, M)
            /\ heap[x].parent \notin {p, heap[p][Other(s)]} =>
                 c[x] + Missing(x, node) = bh[x] + Missing(x, node)
          BY <1>2, <2>10, <2>13
    <3>6. Shape(heap, live, top, U) /\ CanTurn(heap, live, p, s) /\ Turned(heap, heap', live, p, s)
          /\ Balanced(heap, live, bh, node, M) /\ c \in [live \cup {null} -> Nat] /\ c[null] = 0
          BY <2>3, <2>4, <2>13
    <3> QED  BY <3>3, <3>4, <3>5, <3>6, TurnedBalanced
  <2>15. Colored(heap', live, null)
    <3>1. \A m \in live, z \in Child :
            m # heap[p][Other(s)] /\ heap[m][z] = p /\ heap'[m].color = "red" =>
              heap'[heap[p][Other(s)]].color = "black"
          BY <1>2, <2>6
    <3>2. \A x \in {p, heap[p][Other(s)]}, z \in Child :
            heap'[x][z] # null /\ heap'[x][z] # null /\ heap'[x].color = "red" =>
              heap'[heap'[x][z]].color = "black"
      <4> SUFFICES ASSUME NEW z \in Child PROVE heap'[heap'[p][z]].color = "black"
          BY <1>2, <2>6
      <4>1. heap'[p][z] \in {node, inner}  BY <2>4, <2>5
      <4> QED  BY <1>2, <2>6, <2>12, <4>1
    <3>3. \A x \in live : x \notin {p, heap[p][Other(s)]} /\ heap[x].color = "black" => heap'[x].color = "black"
          BY <1>2, <2>6
    <3> QED  BY <1>7, <2>3, <2>4, <3>1, <3>2, <3>3, TurnedColored
  <2>16. Tree(heap', live, t2, V, c, M, node, M, null)  BY <2>4, <2>14, <2>15 DEF Tree
  <2>17. (IF node = heap'[heap'[node].parent].left THEN "left" ELSE "right") = s
    <3>1. heap'[heap'[node].parent][s] = node /\ heap'[heap'[node].parent][Other(s)] # node
          BY <1>2, <2>4
    <3> QED  BY <1>2, <3>1, SideIs
  <2>18. Brother(node)' = inner /\ Parent(node)' = p  BY <1>1, <2>4, <2>17 DEF Brother, SideOf, Parent
  <2>19. Color(Brother(node))' = "black"  BY <1>2, <2>6, <2>12, <2>18 DEF Color
  <2>20. Rebalancing' /\ AtCase'  BY <1>1, <1>2, <1>4, <2>18, <2>19 DEF AtCase, Rebalancing
  <2>21. heap'[node].color = "black" /\ heap'[M].color = "black"  BY <1>2, <2>6
  <2> QED  BY <1>1, <1>2, <2>4, <2>6, <2>7, <2>16, <2>20, <2>21, DeleteStep
<1> QED  BY <1>8, <1>9

(* delete_case6 keeps the invariant: the rotation fills the missing black node. *)
LEMMA DeleteCase6Step == IInv /\ DeleteCase6 => IInv'
<1> SUFFICES ASSUME IInv, DeleteCase6 PROVE IInv'  OBVIOUS
<1>0. PICK p, s, b, inner, outer : Around(p, s, b, inner, outer)  BY DEF Around
<1>1. pc = "delete_case6" /\ Rebalancing /\ InTree /\ pc # "delete_case1"
      /\ pc' = "unlink" /\ node' = node
      BY DEF DeleteCase6, Rebalancing, Call
<1>2. /\ node \in live /\ p \in live /\ b \in live /\ p # node /\ b # node /\ b # p
      /\ s \in Child /\ Other(s) \in Child /\ Other(Other(s)) = s
      /\ heap[p][s] = node /\ heap[p][Other(s)] = b /\ heap[node].parent = p /\ Brother(node) = b
      /\ inner \in live \cup {null} /\ inner \notin {p, b, node}
      /\ outer \in live \cup {null} /\ outer \notin {p, b, node} /\ (outer # null => outer # inner)
      /\ (outer # null => heap[outer].parent = b)
      /\ M \in live /\ M \notin {p, b} /\ tmp # null
      /\ heap[M].color = "black"
      BY Zenon, <1>0, <1>1, Siblings DEF Around
<1>3. PICK top, U, bh :
        /\ Tree(heap, live, top, U, bh, M, node, M, null)
        /\ top # null => heap[top].color # "red"
        /\ bh[null] = 0 /\ bh[node] \in Nat /\ bh[inner] \in Nat /\ bh[outer] \in Nat
        /\ bh[p] = bh[b] + Weight(heap, p, M) /\ bh[b] = bh[node] + 1
        /\ bh[b] = bh[inner] + Weight(heap, b, M) /\ bh[inner] = bh[outer]
        /\ top # b /\ node # top
      BY Zenon, <1>0, <1>1, Siblings DEF Around
<1>4. heap \in Heaps /\ live \subseteq Nodes /\ null \notin live  BY Heap
<1>5. Parent(node) = p /\ SideOf(node) = s  BY <1>0 DEF Parent, Around
<1>6. \A m \in live : heap[m].color \in {"red", "black"}  BY <1>4, HeapFields
<1>7. /\ heap[b].color = "black" /\ outer \in live /\ outer # null /\ heap[outer].color = "red"
      /\ outer # M
  <2>1. Color(Brother(node)) = "black" /\ IsRed(heap[Brother(node)][Other(SideOf(node))])
        BY <1>1 DEF IInv, AtDelete, AtCase
  <2>2. heap[b][Other(s)] = outer  BY <1>0 DEF Around
  <2> QED  BY <1>2, <1>5, <2>1, <2>2 DEF IsRed, Color
<1> DEFINE col == Color(p)
           h == Paint(Paint(heap, b, col), p, "black")
           k == Paint(h, outer, "black")
<1>8. heap' = Rotate(k, p, s)
  <2>1. heap[Brother(node)][Other(SideOf(node))] = outer  BY <1>0, <1>2, <1>5 DEF Around
  <2> QED  BY <1>2, <1>5, <2>1 DEF DeleteCase6
<1>9. /\ k \in Heaps /\ SameLinks(heap, k)
      /\ k[b].color = heap[p].color /\ k[p].color = "black" /\ k[outer].color = "black"
      /\ \A m \in Nodes : k[m].value = heap[m].value /\ (m \notin {p, b, outer} => k[m] = heap[m])
  <2>1. p \in Nodes /\ b \in Nodes /\ outer \in Nodes  BY <1>2, <1>4, <1>7
  <2>2. col \in Colors /\ col = heap[p].color  BY <1>2, <1>6 DEF Colors, Color
  <2> HIDE DEF col
  <2>3. /\ h \in Heaps /\ SameLinks(heap, h) /\ h[b].color = col /\ h[p].color = "black"
        /\ \A m \in Nodes : h[m].value = heap[m].value /\ (m \notin {b, p} => h[m] = heap[m])
    <3>1. heap \in Heaps /\ b # p /\ col \in Colors /\ "black" \in Colors
          BY <1>2, <1>4, <2>2, BothColors
    <3> HIDE DEF h
    <3>2. h = Paint(Paint(heap, b, col), p, "black")  BY DEF h
    <3> QED  BY SMTT(30), <2>1, <3>1, <3>2, PaintTwo
  <2> HIDE DEF h
  <2>4. /\ k \in Heaps /\ SameLinks(heap, k)
        /\ \A m \in Nodes : /\ k[m].color = IF m = outer THEN "black" ELSE h[m].color
                            /\ k[m].value = h[m].value
                            /\ m # outer => k[m] = h[m]
        BY <1>4, <2>1, <2>3, PaintLinks, BothColors
  <2> HIDE DEF k
  <2> QED  BY <1>2, <2>1, <2>2, <2>3, <2>4
<1> HIDE DEF h, k
<1>10. /\ Shape(heap, live, top, U) /\ Sorted(heap, live, U, M)
       /\ Balanced(heap, live, bh, node, M) /\ Colored(heap, live, null)
       BY <1>3 DEF Tree
<1> DEFINE V == UnderAfter(heap, U, p, s)
           t2 == TopAfter(heap, top, p, s)
<1>11. /\ Turned(heap, heap', live, p, s) /\ Keeps(k, heap', live) /\ CanTurn(heap, live, p, s)
       /\ Shape(heap', live, t2, V) /\ Sorted(heap', live, V, M)
       /\ \A m \in Nodes : heap'[m].color = k[m].color
       /\ heap'[p][s] = node /\ heap'[p][Other(s)] = inner
       /\ heap'[b][s] = p /\ heap'[b][Other(s)] = outer
       /\ \A z \in Child : heap'[M][z] = null
       BY <1>0, <1>1, <1>8, <1>9, <1>10, BrotherGoesUp
<1>12. \A z \in Child : z = s \/ z = Other(s)  BY <1>2, Sides
<1>13. /\ Keeps(heap, heap', live)
       /\ heap'[p].color = "black" /\ heap'[b].color = heap[p].color /\ heap'[outer].color = "black"
       /\ \A m \in live : m \in Nodes /\ m # null /\ (m \notin {p, b, outer} => heap'[m].color = heap[m].color)
  <2>1. p \in Nodes /\ b \in Nodes /\ outer \in Nodes /\ \A m \in live : m \in Nodes /\ m # null
        BY <1>2, <1>4, <1>7
  <2>2. \A m \in Nodes \ live : m \notin {p, b, outer}  BY <1>2, <1>7
  <2> QED  BY <1>9, <1>11, <2>1, <2>2 DEF Keeps, SameLinks
<1>14. t2 # null => heap'[t2].color # "red"
  <2>1. top # null => top \in live  BY <1>10 DEF Shape
  <2>2. t2 = IF top = p THEN b ELSE top  BY <1>2 DEF TopAfter
  <2> HIDE DEF t2
  <2> QED  BY <1>2, <1>3, <1>4, <1>13, <2>1, <2>2
<1> HIDE DEF V, t2
<1>15. bh \in [live \cup {null} -> Nat]  BY <1>10 DEF Balanced
<1>16. /\ Weight(heap, p, M) \in {0, 1} /\ Weight(heap, b, M) = 1 /\ Weight(heap, outer, M) = 0
       /\ Weight(heap', p, M) = 1 /\ Weight(heap', b, M) = Weight(heap, p, M) /\ Weight(heap', outer, M) = 1
       /\ \A x \in live : x \notin {p, b, outer} => Weight(heap', x, M) = Weight(heap, x, M)
       BY <1>2, <1>7, <1>13 DEF Weight
<1>17. /\ bh[b] \in Nat /\ bh[p] \in Nat /\ bh[p] = bh[b] + Weight(heap, p, M)
       /\ bh[b] = bh[inner] + 1 /\ bh[b] = bh[outer] + 1 /\ bh[b] = bh[node] + 1
       BY <1>3, <1>16
<1> DEFINE c == [bh EXCEPT ![p] = bh[b], ![b] = bh[p], ![outer] = bh[b]]
<1>18. /\ c \in [live \cup {null} -> Nat] /\ c[null] = 0
       /\ c[p] = bh[b] /\ c[b] = bh[p] /\ c[outer] = bh[b]
       /\ \A m \in live \cup {null} : m \notin {p, b, outer} => c[m] = bh[m]
       BY <1>2, <1>3, <1>4, <1>7, <1>15, <1>17
<1> HIDE DEF c
<1>19. Balanced(heap', live, c, null, M)
  <2>1. c[node] = bh[node] /\ c[inner] = bh[inner]  BY <1>2, <1>7, <1>18
  <2>2. \A x : Missing(x, null) = 0  BY DEF Missing
  <2>3. \A x \in {p, heap[p][Other(s)]}, z \in Child :
          c[x] = c[heap'[x][z]] + Missing(heap'[x][z], null) + Weight(heap', x, M)
    <3> SUFFICES ASSUME NEW x \in {p, b}, NEW z \in Child
                 PROVE  c[x] = c[heap'[x][z]] + Missing(heap'[x][z], null) + Weight(heap', x, M)
        BY <1>2
    <3>1. CASE x = p
      <4>1. c[x] = c[heap'[x][z]] + 1 /\ c[heap'[x][z]] \in Nat
            BY <1>3, <1>11, <1>12, <1>17, <1>18, <2>1, <3>1
      <4> QED  BY <1>16, <2>2, <3>1, <4>1
    <3>2. CASE x = b
      <4>1. c[heap'[x][z]] = bh[b]  BY <1>11, <1>12, <1>18, <3>2
      <4> QED  BY <1>16, <1>17, <1>18, <2>2, <3>2, <4>1
    <3> QED  BY <3>1, <3>2
  <2>4. c[heap[p][Other(s)]] + Missing(heap[p][Other(s)], null) = bh[p] + Missing(p, node)
        BY <1>2, <1>18, <2>2 DEF Missing
  <2>5. \A x \in live : x \notin {p, heap[p][Other(s)]} =>
          /\ c[x] + Weight(heap, x, M) = bh[x] + Weight(heap', x, M)
          /\ heap[x].parent \notin {p, heap[p][Other(s)]} =>
               c[x] + Missing(x, null) = bh[x] + Missing(x, node)
    <3> SUFFICES ASSUME NEW x \in live, x \notin {p, b}
                 PROVE  /\ c[x] + Weight(heap, x, M) = bh[x] + Weight(heap', x, M)
                        /\ heap[x].parent \notin {p, b} =>
                             c[x] + Missing(x, null) = bh[x] + Missing(x, node)
        BY <1>2
    <3>1. CASE x = outer  BY <1>2, <1>7, <1>16, <1>17, <1>18, <3>1
    <3>2. CASE x # outer
      <4>1. c[x] = bh[x] /\ Weight(heap', x, M) = Weight(heap, x, M)  BY <1>16, <1>18, <3>2
      <4>2. heap[x].parent # p => Missing(x, node) = 0  BY <1>2 DEF Missing
      <4> QED  BY <2>2, <4>1, <4>2
    <3> QED  BY <3>1, <3>2
  <2>6. Shape(heap, live, top, U) /\ CanTurn(heap, live, p, s) /\ Turned(heap, heap', live, p, s)
        /\ Balanced(heap, live, bh, node, M) /\ c \in [live \cup {null} -> Nat] /\ c[null] = 0
        BY <1>10, <1>11, <1>18
  <2> QED  BY <2>3, <2>4, <2>5, <2>6, TurnedBalanced
<1>20. Colored(heap', live, null)
  <2>1. \A m \in live, z \in Child :
          m # heap[p][Other(s)] /\ heap[m][z] = p /\ heap'[m].color = "red" =>
            heap'[heap[p][Other(s)]].color = "black"
    <3> SUFFICES ASSUME NEW m \in live, NEW z \in Child, m # b, heap[m][z] = p, heap'[m].color = "red"
                 PROVE  heap[p].color = "black"
        BY <1>2, <1>13
    <3>1. m # p /\ m # outer  BY <1>13
    <3>2. heap[m].color = "red"  BY <1>13, <3>1
    <3>3. p # null  BY <1>2, <1>4
    <3> QED  BY <1>10, <3>2, <3>3 DEF Colored
  <2>2. \A x \in {p, heap[p][Other(s)]}, z \in Child :
          heap'[x][z] # null /\ heap'[x][z] # null /\ heap'[x].color = "red" =>
            heap'[heap'[x][z]].color = "black"
    <3> SUFFICES ASSUME NEW z \in Child PROVE heap'[heap'[b][z]].color = "black"
        BY <1>2, <1>13
    <3>1. heap'[b][z] \in {p, outer}  BY <1>11, <1>12
    <3> QED  BY <1>13, <3>1
  <2>3. \A x \in live : x \notin {p, heap[p][Other(s)]} /\ heap[x].color = "black" => heap'[x].color = "black"
        BY <1>2, <1>7, <1>13
  <2> QED  BY <1>6, <1>10, <1>11, <2>1, <2>2, <2>3, TurnedColored
<1>21. Tree(heap', live, t2, V, c, M, null, M, null)  BY <1>11, <1>19, <1>20 DEF Tree
<1> QED  BY <1>1, <1>2, <1>11, <1>13, <1>14, <1>21, DeleteStep

(* delete_case5 keeps the invariant: the outer child of the brother is red now. *)
LEMMA DeleteCase5Step == IInv /\ DeleteCase5 => IInv'
<1> SUFFICES ASSUME IInv, DeleteCase5 PROVE IInv'  OBVIOUS
<1>0. PICK p, s, b, inner, outer : Around(p, s, b, inner, outer)  BY DEF Around
<1>1. pc = "delete_case5" /\ Rebalancing /\ InTree /\ pc # "delete_case1"
      /\ pc' = "delete_case6" /\ node' = node
      BY DEF DeleteCase5, Rebalancing, Call
<1>2. /\ node \in live /\ p \in live /\ b \in live /\ p # node /\ b # node /\ b # p
      /\ s \in Child /\ Other(s) \in Child /\ Other(Other(s)) = s
      /\ heap[p][s] = node /\ heap[p][Other(s)] = b /\ heap[node].parent = p /\ Brother(node) = b
      /\ heap[b].parent = p
      /\ inner \in live \cup {null} /\ inner \notin {p, b, node}
      /\ outer \in live \cup {null} /\ outer \notin {p, b, node} /\ (outer # null => outer # inner)
      /\ M \in live /\ M \notin {p, b} /\ tmp # null
      /\ heap[node].color = "black" /\ heap[M].color = "black"
      BY Zenon, <1>0, <1>1, Siblings DEF Around
<1>3. PICK top, U, bh :
        /\ Tree(heap, live, top, U, bh, M, node, M, null)
        /\ top # null => heap[top].color # "red"
        /\ bh[null] = 0 /\ bh[node] \in Nat /\ bh[inner] \in Nat /\ bh[outer] \in Nat
        /\ bh[p] = bh[b] + Weight(heap, p, M) /\ bh[b] = bh[node] + 1
        /\ bh[b] = bh[inner] + Weight(heap, b, M) /\ bh[inner] = bh[outer]
        /\ top # b /\ node # top
      BY Zenon, <1>0, <1>1, Siblings DEF Around
<1>4. heap \in Heaps /\ live \subseteq Nodes /\ null \notin live /\ \A m \in live : heap[m].key \in Int
      BY Heap
<1>5. /\ Parent(node) = p /\ SideOf(node) = s
      /\ heap[b][s] = inner /\ heap[b][Other(s)] = outer
      BY <1>0 DEF Parent, Around
<1>6. \A m \in live : heap[m].color \in {"red", "black"}  BY <1>4, HeapFields
<1>7. \A z \in Child : heap[M][z] = null  BY <1>1, Deletes
<1>8. /\ heap[b].color = "black" /\ ~(IsBlack(inner) /\ IsBlack(outer))
  <2>1. Color(Brother(node)) = "black" /\ ~BlackBrother(node)
        BY <1>1 DEF IInv, AtDelete, AtCase
  <2> QED  BY <1>2, <1>5, <2>1, BlackBrotherMeans DEF Color
<1>9. CASE ~(IsBlack(outer) /\ IsRed(inner))
  <2>1. heap' = heap  BY <1>2, <1>5, <1>9 DEF DeleteCase5
  <2>2. Keeps(heap, heap', live)  BY <1>4, <2>1 DEF Keeps
  <2>3. IsRed(outer)  BY <1>2, <1>6, <1>8, <1>9 DEF IsRed, IsBlack, Color
  <2>4. Brother(node)' = b /\ Parent(node)' = p /\ SideOf(node)' = s /\ heap'[b][Other(s)] = outer
        /\ Color(b)' = "black" /\ IsRed(outer)'
        BY <1>1, <1>2, <1>5, <1>8, <2>1, <2>3 DEF Brother, SideOf, Parent, Color, IsRed
  <2>5. Rebalancing' /\ AtCase'
        BY <1>1, <1>2, <1>4, <2>4 DEF AtCase, Rebalancing, Color, IsRed
  <2> QED  BY <1>1, <1>2, <1>3, <1>7, <2>1, <2>2, <2>5, DeleteStep
<1>10. CASE IsBlack(outer) /\ IsRed(inner)
  <2> DEFINE k == Paint(Paint(heap, b, "red"), inner, "black")
             o == Other(s)
  <2>1. inner \in live /\ inner # null /\ inner # M /\ heap[inner].color = "red"
        /\ (outer # null => heap[outer].color = "black")
        BY <1>2, <1>10 DEF IsRed, IsBlack, Color
  <2>2. heap' = Rotate(k, b, o)
        BY <1>2, <1>5, <1>8, <1>10 DEF DeleteCase5, Color
  <2>3. /\ k \in Heaps /\ SameLinks(heap, k) /\ k[b].color = "red" /\ k[inner].color = "black"
        /\ \A m \in Nodes : k[m].value = heap[m].value /\ (m \notin {b, inner} => k[m] = heap[m])
    <3>1. inner \in Nodes /\ b \in Nodes /\ b # inner  BY <1>2, <1>4, <2>1
    <3> QED  BY <1>4, <3>1, PaintTwo, BothColors
  <2> HIDE DEF k
  <2>4. /\ Shape(heap, live, top, U) /\ Sorted(heap, live, U, M)
        /\ Balanced(heap, live, bh, node, M) /\ Colored(heap, live, null)
        BY <1>3 DEF Tree
  <2>5. PICK i, j : i = heap[inner][o] /\ j = heap[inner][Other(o)]  OBVIOUS
  <2>6. o \in Child /\ Other(o) = s /\ heap[b][Other(o)] = inner /\ heap[b][o] = outer
        /\ heap[p][s] = node /\ heap[p][o] = b /\ o # s
        BY <1>2, <1>5, Sides
  <2> HIDE DEF o
  <2>7. CanTurn(heap, live, b, o)  BY <1>2, <2>1, <2>6 DEF CanTurn
  <2>8. /\ Turned(heap, heap', live, b, o) /\ Keeps(k, heap', live)
        /\ \A m \in Nodes : heap'[m].color = k[m].color
    <3> DEFINE e == Rotate(k, b, o)
    <3>1. /\ Turned(heap, e, live, b, o) /\ Keeps(k, e, live)
          /\ \A m \in Nodes : e[m].color = k[m].color
          BY <2>3, <2>4, <2>7, RotateTurns
    <3>2. heap' = e  BY <2>2
    <3> HIDE DEF e
    <3> QED  BY <3>1, <3>2
  <2>9. /\ i \in live \cup {null} /\ j \in live \cup {null}
        /\ i \notin {b, inner} /\ j \notin {b, inner}
        /\ (i # null => heap[i].parent = inner) /\ (j # null => heap[j].parent = inner)
        BY <2>4, <2>5, <2>6, <2>7, TurnNodes
  <2>10. i # node /\ j # node  BY <1>2, <1>4, <2>9
  <2>11. /\ heap'[b][o] = outer /\ heap'[b][s] = i
         /\ heap'[inner][o] = b /\ heap'[inner][s] = j
         /\ \A m \in live \ {b, inner}, z \in Child : heap'[m][z] = IF heap[m][z] = b THEN inner ELSE heap[m][z]
         /\ \A m \in live \ {b, inner, i} : heap'[m].parent = heap[m].parent
         BY <2>5, <2>6, <2>8 DEF Turned
  <2>12. \A z \in Child : z = s \/ z = o  BY <1>2, Sides DEF o
  <2>13. /\ Keeps(heap, heap', live) /\ heap'[b].color = "red" /\ heap'[inner].color = "black"
         /\ \A m \in live : m \in Nodes /\ m # null /\ (m \notin {b, inner} => heap'[m].color = heap[m].color)
    <3>1. inner \in Nodes /\ b \in Nodes /\ \A m \in live : m \in Nodes /\ m # null  BY <1>2, <1>4, <2>1
    <3>2. \A m \in Nodes \ live : m \notin {b, inner}  BY <1>2, <2>1
    <3> QED  BY <2>3, <2>8, <3>1, <3>2 DEF Keeps, SameLinks
  <2>14. \A m \in live : heap'[m].key = heap[m].key  BY <2>13 DEF Keeps
  <2> DEFINE V == UnderAfter(heap, U, b, o)
  <2>15. Shape(heap', live, top, V)
    <3>1. TopAfter(heap, top, b, o) = top  BY <1>3 DEF TopAfter
    <3> QED  BY <2>4, <2>7, <2>8, <3>1, TurnedShape
  <2>16. Sorted(heap', live, V, M)
         BY <1>2, <1>4, <2>1, <2>4, <2>6, <2>7, <2>8, <2>14, TurnedSorted
  <2> HIDE DEF V
  <2>17. /\ bh \in [live \cup {null} -> Nat]
         /\ \A n \in live, z \in Child :
              bh[n] = bh[heap[n][z]] + Missing(heap[n][z], node) + Weight(heap, n, M)
         BY <2>4 DEF Balanced
  <2>18. /\ Weight(heap, b, M) = 1 /\ Weight(heap, inner, M) = 0
         /\ Weight(heap', b, M) = 0 /\ Weight(heap', inner, M) = 1
         /\ \A x \in live : x \notin {b, inner} => Weight(heap', x, M) = Weight(heap, x, M)
         BY <1>2, <1>8, <2>1, <2>13 DEF Weight
  <2>19. /\ Missing(i, node) = 0 /\ Missing(j, node) = 0 /\ Missing(inner, node) = 0
         /\ Missing(outer, node) = 0 /\ Missing(b, node) = 0
         BY <1>2, <2>10 DEF Missing
  <2>20. /\ bh[b] = bh[inner] + 1 /\ bh[inner] = bh[outer] /\ bh[inner] = bh[i] /\ bh[inner] = bh[j]
         /\ bh[inner] \in Nat /\ bh[b] \in Nat
    <3>1. bh[inner] = bh[i] + 0 + 0 /\ bh[inner] = bh[j] + 0 + 0
          BY <2>1, <2>5, <2>6, <2>17, <2>18, <2>19, <1>2
    <3>2. bh[i] \in Nat /\ bh[j] \in Nat  BY <2>9, <2>17
    <3> QED  BY <1>3, <2>18, <3>1, <3>2
  <2> DEFINE c == [bh EXCEPT ![b] = bh[inner], ![inner] = bh[b]]
  <2>21. /\ c \in [live \cup {null} -> Nat] /\ c[null] = 0 /\ c[b] = bh[inner] /\ c[inner] = bh[b]
         /\ \A m \in live \cup {null} : m \notin {b, inner} => c[m] = bh[m]
         BY <1>2, <1>3, <1>4, <2>1, <2>17, <2>20
  <2> HIDE DEF c
  <2>22. Balanced(heap', live, c, node, M)
    <3>1. c[i] = bh[i] /\ c[j] = bh[j] /\ c[outer] = bh[outer]  BY <1>2, <2>1, <2>9, <2>21
    <3>2. \A x \in {b, heap[b][Other(o)]}, z \in Child :
            c[x] = c[heap'[x][z]] + Missing(heap'[x][z], node) + Weight(heap', x, M)
      <4> SUFFICES ASSUME NEW x \in {b, inner}, NEW z \in Child
                   PROVE  c[x] = c[heap'[x][z]] + Missing(heap'[x][z], node) + Weight(heap', x, M)
          BY <2>6
      <4>1. CASE x = b
        <5>1. c[heap'[x][z]] + Missing(heap'[x][z], node) = bh[inner]
              BY <2>11, <2>12, <2>19, <2>20, <3>1, <4>1
        <5> QED  BY <2>18, <2>20, <2>21, <4>1, <5>1
      <4>2. CASE x = inner
        <5>1. c[heap'[x][z]] + Missing(heap'[x][z], node) = bh[inner]
              BY <2>11, <2>12, <2>19, <2>20, <2>21, <3>1, <4>2
        <5> QED  BY <2>18, <2>20, <2>21, <4>2, <5>1
      <4> QED  BY <4>1, <4>2
    <3>3. c[heap[b][Other(o)]] + Missing(heap[b][Other(o)], node) = bh[b] + Missing(b, node)
          BY <2>6, <2>19, <2>21
    <3>4. \A x \in live : x \notin {b, heap[b][Other(o)]} =>
            /\ c[x] + Weight(heap, x, M) = bh[x] + Weight(heap', x, M)
            /\ heap[x].parent \notin {b, heap[b][Other(o)]} =>
                 c[x] + Missing(x, node) = bh[x] + Missing(x, node)
          BY <2>6, <2>18, <2>21
    <3>5. Shape(heap, live, top, U) /\ CanTurn(heap, live, b, o) /\ Turned(heap, heap', live, b, o)
          /\ Balanced(heap, live, bh, node, M) /\ c \in [live \cup {null} -> Nat] /\ c[null] = 0
          BY <2>4, <2>7, <2>8, <2>21
    <3> QED  BY <3>2, <3>3, <3>4, <3>5, TurnedBalanced
  <2>23. Colored(heap', live, null)
    <3>1. \A m \in live, z \in Child :
            m # heap[b][Other(o)] /\ heap[m][z] = b /\ heap'[m].color = "red" =>
              heap'[heap[b][Other(o)]].color = "black"
          BY <2>6, <2>13
    <3>2. i # null => heap[i].color = "black"
          BY <2>1, <2>4, <2>5, <2>6 DEF Colored
    <3>3. \A x \in {b, heap[b][Other(o)]}, z \in Child :
            heap'[x][z] # null /\ heap'[x][z] # null /\ heap'[x].color = "red" =>
              heap'[heap'[x][z]].color = "black"
      <4> SUFFICES ASSUME NEW z \in Child, heap'[b][z] # null PROVE heap'[heap'[b][z]].color = "black"
          BY <2>6, <2>13
      <4>1. heap'[b][z] \in {outer, i} /\ heap'[b][z] \in live  BY <1>2, <2>9, <2>11, <2>12
      <4>2. heap'[b][z] \notin {b, inner}  BY <1>2, <2>1, <2>9, <4>1
      <4> QED  BY <2>1, <2>13, <3>2, <4>1, <4>2
    <3>4. \A x \in live : x \notin {b, heap[b][Other(o)]} /\ heap[x].color = "black" => heap'[x].color = "black"
          BY <2>6, <2>13
    <3> QED  BY <1>6, <2>4, <2>7, <2>8, <3>1, <3>3, <3>4, TurnedColored
  <2>24. Tree(heap', live, top, V, c, M, node, M, null)  BY <2>15, <2>16, <2>22, <2>23 DEF Tree
  <2>25. top # null => heap'[top].color # "red"
    <3>1. top # null => top \in live  BY <2>4 DEF Shape
    <3> QED  BY <1>3, <2>13, <3>1
  <2>26. heap'[node].parent = p /\ heap'[p][s] = node /\ heap'[p][o] = inner
    <3>1. node \in live \ {b, inner, i} /\ p \in live \ {b, inner}  BY <1>2, <2>1, <2>10
    <3> QED  BY <1>2, <2>6, <2>11, <3>1
  <2>27. (IF node = heap'[heap'[node].parent].left THEN "left" ELSE "right") = s
    <3>1. heap'[heap'[node].parent][s] = node /\ heap'[heap'[node].parent][Other(s)] # node
          BY <1>2, <2>26 DEF o
    <3> QED  BY <1>2, <3>1, SideIs
  <2>28. SideOf(node)' = s  BY <1>1, <2>27 DEF SideOf, Parent
  <2>29. Brother(node)' = inner /\ Parent(node)' = p
         BY <1>1, <2>26, <2>28 DEF Brother, Parent, o
  <2>30. heap'[inner][Other(s)] = b  BY <2>11 DEF o
  <2>31. Color(Brother(node))' = "black" /\ IsRed(heap[Brother(node)][Other(SideOf(node))])'
         BY <1>2, <1>4, <2>13, <2>28, <2>29, <2>30 DEF Color, IsRed
  <2>32. Rebalancing' /\ AtCase'  BY <1>1, <1>2, <1>4, <2>29, <2>31 DEF AtCase, Rebalancing
  <2>33. heap'[node].color = "black" /\ heap'[M].color = "black" /\ \A z \in Child : heap'[M][z] = null
    <3>1. M \in live \ {b, inner} /\ b # null  BY <1>2, <1>4, <2>1
    <3> QED  BY <1>2, <1>7, <2>11, <2>13, <3>1
  <2> QED  BY <1>1, <1>2, <2>13, <2>24, <2>25, <2>32, <2>33, DeleteStep
<1> QED  BY <1>9, <1>10

-----------------------------------------------------------------------------
(***************************************************************************)
(* Deleting: the node goes.                                                *)
(***************************************************************************)

(* q goes, and its only child c, if there is one, takes its place. *)
Spliced(h, g, L, q, c) ==
  /\ \A m \in L \ {q} :
       /\ g[m].key = h[m].key /\ (m # c => g[m].color = h[m].color)
       /\ g[m].parent = IF m = c THEN h[q].parent ELSE h[m].parent
       /\ \A s \in Child : g[m][s] = IF h[m][s] = q THEN c ELSE h[m][s]
  /\ c # null => g[c].color = "black"

CanSplice(h, L, top, q, c) ==
  q \in L /\ q # top /\ \E s \in Child : h[q][s] = null /\ h[q][Other(s)] = c

UnderWithout(L, U, q) == [m \in (L \ {q}) \cup {null} |-> U[m] \ {q}]

(* A node with one child or none that goes leaves the shape and the order. *)
LEMMA SplicedShape ==
  ASSUME NEW h, NEW L, NEW top, NEW U, Shape(h, L, top, U),
         NEW q, NEW c, CanSplice(h, L, top, q, c), NEW g, Spliced(h, g, L, q, c)
  PROVE  /\ Shape(g, L \ {q}, top, UnderWithout(L, U, q))
         /\ Sorted(h, L, U, q) => Sorted(g, L \ {q}, UnderWithout(L, U, q), null)
         /\ c \in (L \ {q}) \cup {null}
<1> DEFINE K == L \ {q}
           V == UnderWithout(L, U, q)
<1>1. /\ L \subseteq Nodes /\ IsFiniteSet(L) /\ top \in L \cup {null} /\ null \notin L
      /\ U \in [L \cup {null} -> SUBSET L] /\ U[null] = {} /\ U[top] = L
      BY NullNoNode DEF Shape
<1>2. PICK s \in Child : h[q][s] = null /\ h[q][Other(s)] = c  BY DEF CanSplice
<1>3. q \in L /\ q # top /\ Other(s) \in Child /\ q # null /\ q \in Nodes
      /\ \A z \in Child : h[q][z] \in {null, c}
      BY <1>1, <1>2, Sides DEF CanSplice
<1>4. /\ c \in L \cup {null} /\ U[q] = {q} \cup U[c] /\ q \notin U[c]
      /\ (c # null => h[c].parent = q /\ c # q)
  <2>1. U[q] = {q} \cup U[h[q][s]] \cup U[h[q][Other(s)]]  BY <1>2, <1>3, ShapeAt
  <2>2. /\ c \in L \cup {null} /\ q \notin U[c] /\ (c # null => h[c].parent = q)
        BY <1>2, <1>3, ShapeAt
  <2>3. c \in L => c \in U[c]  BY Self
  <2> QED  BY <1>1, <1>2, <1>3, <2>1, <2>2, <2>3
<1>5. c \in K \cup {null} /\ (c # null => c # top)
  <2>1. h[top].parent = null \/ top = null  BY <1>1, OnlyParent
  <2> QED  BY <1>3, <1>4, <2>1
<1>6. /\ V \in [K \cup {null} -> SUBSET K] /\ V[null] = {} /\ V[top] = K
      /\ \A m \in K \cup {null} : V[m] = U[m] \ {q}
  <2>1. V = [m \in K \cup {null} |-> U[m] \ {q}]  BY DEF UnderWithout
  <2>2. top \in K \cup {null}  BY <1>1, <1>3
  <2> HIDE DEF V
  <2>3. \A m \in K \cup {null} : U[m] \ {q} \in SUBSET K  BY <1>1
  <2> QED  BY <1>1, <2>1, <2>2, <2>3
<1> HIDE DEF V
<1>7. ASSUME NEW n \in K, NEW z \in Child
      PROVE  /\ g[n][z] = IF h[n][z] = q THEN c ELSE h[n][z]
             /\ g[n][z] \in K \cup {null}
             /\ V[g[n][z]] = U[h[n][z]] \ {q}
             /\ g[n][z] # null => g[g[n][z]].parent = n
  <2>1. n \in L /\ n # null /\ h[n][z] \in L \cup {null} /\ (h[n][z] # null => h[h[n][z]].parent = n)
        BY ShapeAt
  <2>2. g[n][z] = IF h[n][z] = q THEN c ELSE h[n][z]  BY DEF Spliced
  <2>3. CASE h[n][z] = q
    <3>1. h[q].parent = n  BY <1>3, <2>1, <2>3
    <3>2. U[c] \ {q} = U[q] \ {q}  BY <1>4
    <3>3. c # null => g[c].parent = n  BY <1>5, <3>1 DEF Spliced
    <3> QED  BY <1>5, <1>6, <2>2, <2>3, <3>2, <3>3
  <2>4. CASE h[n][z] # q
    <3>1. g[n][z] = h[n][z] /\ h[n][z] \in K \cup {null}  BY <2>1, <2>2, <2>4
    <3>2. ASSUME h[n][z] # null PROVE g[h[n][z]].parent = n
      <4>1. h[n][z] # c  BY <1>4, <2>1, <3>2
      <4> QED  BY <2>1, <3>1, <3>2, <4>1 DEF Spliced
    <3> QED  BY <1>6, <2>2, <3>1, <3>2
  <2> QED  BY <2>3, <2>4
<1>8. ASSUME NEW n \in K, NEW z \in Child
      PROVE  /\ g[n][z] \in K \cup {null}
             /\ V[n] = {n} \cup V[g[n][z]] \cup V[g[n][Other(z)]]
             /\ n \notin V[g[n][z]] /\ V[g[n][z]] \cap V[g[n][Other(z)]] = {}
             /\ g[n][z] # null => g[g[n][z]].parent = n
  <2>1. Other(z) \in Child  BY Sides
  <2>2. /\ U[n] = {n} \cup U[h[n][z]] \cup U[h[n][Other(z)]]
        /\ n \notin U[h[n][z]] /\ U[h[n][z]] \cap U[h[n][Other(z)]] = {}
        BY ShapeAt
  <2>3. /\ V[g[n][z]] = U[h[n][z]] \ {q} /\ V[g[n][Other(z)]] = U[h[n][Other(z)]] \ {q}
        /\ V[n] = U[n] \ {q} /\ n # q
        BY <1>6, <1>7, <2>1
  <2> QED  BY <1>7, <2>2, <2>3
<1>9. \A m \in K : IF m = top THEN g[m].parent = null
                   ELSE g[m].parent \in K /\ \E z \in Child : g[g[m].parent][z] = m
  <2> TAKE m \in K
  <2>1. g[m].parent = IF m = c THEN h[q].parent ELSE h[m].parent  BY DEF Spliced
  <2>2. CASE m = top
    <3>1. h[m].parent = null /\ m # null  BY <1>1, <2>2, OnlyParent
    <3> QED  BY <1>5, <2>1, <2>2, <3>1
  <2>3. CASE m # top /\ m = c
    <3>1. PICK p, z : p = h[q].parent /\ p \in L /\ z \in Child /\ h[p][z] = q  BY <1>3, OnlyParent
    <3>2. p # q
      <4>1. p \notin U[h[p][z]] /\ p \in U[p]  BY <3>1, ShapeAt
      <4> QED  BY <3>1, <4>1
    <3>3. g[p][z] = c  BY <1>7, <3>1, <3>2
    <3> QED  BY <2>1, <2>3, <3>1, <3>2, <3>3
  <2>4. CASE m # top /\ m # c
    <3>1. PICK p, z : p = h[m].parent /\ p \in L /\ z \in Child /\ h[p][z] = m  BY <2>4, OnlyParent
    <3>2. p # q /\ m # q  BY <1>1, <1>3, <2>4, <3>1
    <3>3. g[p][z] = m  BY <1>7, <3>1, <3>2
    <3> QED  BY <2>1, <2>4, <3>1, <3>2, <3>3
  <2> QED  BY <2>2, <2>3, <2>4
<1>10. IsFiniteSet(K) /\ K \subseteq Nodes /\ top \in K \cup {null}
  <2>1. IsFiniteSet(K)  BY <1>1, FS_RemoveElement
  <2> QED  BY <1>1, <1>3, <2>1
<1>11. Shape(g, K, top, V)
  <2> HIDE DEF K
  <2> QED  BY <1>6, <1>8, <1>9, <1>10 DEF Shape
<1>12. ASSUME Sorted(h, L, U, q) PROVE Sorted(g, K, V, null)
  <2> SUFFICES ASSUME NEW n \in K, NEW z \in Child, NEW m \in V[g[n][z]]
               PROVE  Lesser(z, g[m].key, g[n].key)
      BY DEF Sorted
  <2>1. m \in U[h[n][z]] /\ m \in K  BY <1>6, <1>7
  <2>2. Lesser(z, h[m].key, h[n].key)  BY <1>12, <2>1 DEF Sorted
  <2> QED  BY <2>1, <2>2 DEF Spliced
<1> QED  BY <1>5, <1>11, <1>12 DEF V

(* The heights afterwards: c has that of q. *)
Lifted(h, L, q, c, bh, b) ==
  /\ b \in [(L \ {q}) \cup {null} -> Nat] /\ b[null] = 0 /\ b[c] = bh[q]
  /\ \A m \in L \ {q} : m # c => b[m] = bh[m]
  /\ c # null => \A z \in Child : b[c] = bh[h[c][z]] + 1

(* A node with one child or none that goes leaves a red-black tree. *)
LEMMA SplicedTree ==
  ASSUME NEW h, NEW L, NEW top, NEW U, NEW q, Shape(h, L, top, U), Sorted(h, L, U, q),
         NEW bh, NEW Z, Balanced(h, L, bh, null, Z), Z = null \/ Z = q, Colored(h, L, null),
         NEW c, CanSplice(h, L, top, q, c), NEW g, Spliced(h, g, L, q, c),
         NEW b, Lifted(h, L, q, c, bh, b)
  PROVE  \E V : Tree(g, L \ {q}, top, V, b, null, null, null, null)
<1> DEFINE K == L \ {q}
           V == UnderWithout(L, U, q)
<1>1. Shape(g, K, top, V) /\ Sorted(g, K, V, null) /\ c \in K \cup {null}  BY SplicedShape
<1>2. q \in L /\ q # null /\ null \notin L  BY NullNoNode DEF CanSplice, Shape
<1>3. ASSUME NEW n \in K, NEW z \in Child
      PROVE  /\ g[n][z] = IF h[n][z] = q THEN c ELSE h[n][z]
             /\ h[n][z] \in L \cup {null} /\ n # null
             /\ (h[n][z] = c /\ c # null => n = q)
  <2>1. h[n][z] \in L \cup {null} /\ n # null /\ (h[n][z] # null => h[h[n][z]].parent = n)  BY ShapeAt
  <2>2. c # null => h[c].parent = q
    <3>1. PICK s \in Child : h[q][Other(s)] = c /\ Other(s) \in Child  BY Sides DEF CanSplice
    <3> QED  BY <1>2, <3>1, ShapeAt
  <2> QED  BY <2>1, <2>2 DEF Spliced
<1>4. \A x : Missing(x, null) = 0  BY DEF Missing
<1>5. /\ bh \in [L \cup {null} -> Nat] /\ bh[null] = 0
      /\ \A n \in L, z \in Child : bh[n] = bh[h[n][z]] + Missing(h[n][z], null) + Weight(h, n, Z)
      BY DEF Balanced
<1>a. /\ b \in [K \cup {null} -> Nat] /\ b[null] = 0 /\ b[c] = bh[q]
      /\ \A m \in K : m # c => b[m] = bh[m]
      /\ c # null => \A z \in Child : b[c] = bh[h[c][z]] + 1
      BY DEF Lifted
<1>6. Balanced(g, K, b, null, null)
  <2> SUFFICES ASSUME NEW n \in K, NEW z \in Child
               PROVE  b[n] = b[g[n][z]] + Missing(g[n][z], null) + Weight(g, n, null)
      BY <1>a DEF Balanced
  <2>1. bh[n] = bh[h[n][z]] + 0 + Weight(h, n, Z)  BY <1>4, <1>5
  <2>2. b[g[n][z]] = bh[h[n][z]] /\ b[g[n][z]] \in Nat
    <3>1. h[n][z] = q \/ h[n][z] = null \/ (h[n][z] \in K /\ h[n][z] # c)  BY <1>2, <1>3
    <3>2. g[n][z] \in K \cup {null}  BY <1>1, <1>3, <3>1
    <3> QED  BY <1>2, <1>3, <1>5, <1>a, <3>1, <3>2
  <2>3. CASE n = c
    <3>1. b[n] = bh[h[n][z]] + 1 /\ g[n].color = "black"  BY <1>3, <1>a, <2>3 DEF Spliced
    <3>2. Weight(g, n, null) = 1  BY <1>3, <3>1 DEF Weight
    <3> QED  BY <1>4, <2>2, <3>1, <3>2
  <2>4. CASE n # c
    <3>1. b[n] = bh[n] /\ g[n].color = h[n].color  BY <1>a, <2>4 DEF Spliced
    <3>2. Weight(g, n, null) = Weight(h, n, Z) /\ Weight(g, n, null) \in Nat
          BY <1>3, <3>1 DEF Weight
    <3> QED  BY <1>4, <2>1, <2>2, <3>1, <3>2
  <2> QED  BY <2>3, <2>4
<1>7. Colored(g, K, null)
  <2> SUFFICES ASSUME NEW n \in K, NEW z \in Child, g[n][z] # null, g[n].color = "red"
               PROVE  g[g[n][z]].color = "black"
      BY DEF Colored
  <2>1. n # c /\ h[n].color = "red"
    <3>1. n # c  BY <1>3 DEF Spliced
    <3> QED  BY <3>1 DEF Spliced
  <2>2. CASE h[n][z] = q  BY <1>3, <2>2 DEF Spliced
  <2>3. CASE h[n][z] # q
    <3>1. g[n][z] = h[n][z] /\ h[n][z] \in K  BY <1>3, <2>3
    <3>2. h[h[n][z]].color = "black"  BY <2>1, <3>1 DEF Colored
    <3>3. h[n][z] # c  BY <1>3, <2>3, <3>1
    <3> QED  BY <3>1, <3>2, <3>3 DEF Spliced
  <2> QED  BY <2>2, <2>3
<1> QED  BY <1>1, <1>6, <1>7 DEF Tree

(* What is in order is so without X. *)
LEMMA SortedBut ==
  ASSUME NEW h, NEW L, NEW top, NEW U, Shape(h, L, top, U), Sorted(h, L, U, null), NEW X
  PROVE  Sorted(h, L, U, X)
<1> SUFFICES ASSUME NEW n \in L, NEW s \in Child, NEW m \in U[h[n][s]]
             PROVE  Lesser(s, h[m].key, h[n].key)
    BY DEF Sorted
<1>1. m \in L /\ null \notin L  BY ShapeAt, NullNoNode DEF Shape
<1> QED  BY <1>1 DEF Sorted

(* free() of a node changes this node only. *)
LEMMA Blanked ==
  ASSUME NEW h \in Heaps, NEW n \in Nodes
  PROVE  LET g == [h EXCEPT ![n] = Blank] IN
         g \in Heaps /\ g[n] = Blank /\ \A m \in Nodes : m # n => g[m] = h[m]
<1>1. Blank \in [parent : Refs, left : Refs, right : Refs, color : {"red", "black"},
                 key : Key \cup {0}, value : Value \cup {0}]
      BY DEF Blank, Refs
<1> QED  BY <1>1 DEF Heaps

(* A node is freed, and what is left is a tree. *)
LEMMA FreeStep ==
  ASSUME IInv, M \in live, map, tmp \in live \cup {null}, tmp # M, tmp = null => live = {M},
         pc' = "setTreeRoot", node' \in Refs, live' = live \ {M},
         UNCHANGED <<map, root, tmp, M>>,
         heap' \in Heaps, heap'[M] = Blank, \A m \in Nodes \ live : heap'[m] = heap[m],
         NEW top, NEW U, NEW bh, Tree(heap', live \ {M}, top, U, bh, null, null, null, null),
         top # null => heap'[top].color # "red"
  PROVE  IInv'
<1>1. live \subseteq Nodes /\ null \notin live  BY Heap
<1>2. TreeTyped'
  <2>1. pc' \in Steps  BY DEF Steps
  <2>2. live' \subseteq Nodes /\ tmp' \in live' \cup {null}  BY <1>1
  <2> QED  BY <2>1, <2>2, Fields DEF IInv, TreeTyped
<1>3. Linked' = live \ {M} /\ Short' = null /\ Leaving' = null /\ Violator' = null
      BY DEF Linked, Short, Leaving, Violator, Inserting, Rebalancing
<1>4. Tree(heap', live \ {M}, top, U, bh, M, null, null, null)  BY SortedBut DEF Tree
<1>5. IsTree(top, U, bh)'
  <2>1. Tree(heap', Linked', top, U, bh, M', Short', Leaving', Violator')  BY <1>3, <1>4
  <2> QED  BY <2>1 DEF IsTree, Color
<1>6. AtInsert' /\ AtDelete'  BY DEF AtInsert, AtDelete, AtCase, Inserting, Rebalancing
<1>7. AtRest'
  <2>1. \A m \in Nodes \ live' : heap'[m] = Blank  BY DEF IInv, AtRest
  <2> QED  BY <2>1 DEF IInv, AtRest, Inserting
<1> QED  BY <1>2, <1>5, <1>6, <1>7 DEF IInv

(* What is known when a node is to be taken out. *)
LEMMA Leaves ==
  ASSUME IInv, pc \in {"deleteTheOnlyChild", "unlink"}
  PROVE  /\ M \in live /\ map /\ tmp \in live \cup {null} /\ tmp # M
         /\ (tmp = null => heap[M].parent = null /\ \A s \in Child : heap[M][s] = null)
         /\ \E top, U, bh :
              /\ Tree(heap, live, top, U, bh, M, null, Leaving, null)
              /\ top # null => heap[top].color # "red"
              /\ (top = M /\ \A s \in Child : heap[M][s] = null) => live = {M}
              /\ heap[M].parent = null => top = M
<1>1. /\ M \in live /\ map /\ tmp \in live \cup {null} /\ tmp # M
      /\ (tmp = null => heap[M].parent = null /\ \A s \in Child : heap[M][s] = null)
      BY DEF IInv, AtDelete, AtRest, Leaf, Parent, Child
<1>2. PICK top, U, bh : IsTree(top, U, bh)  BY DEF IInv
<1>3. Linked = live /\ Short = null /\ Violator = null
      BY DEF Linked, Short, Violator, Inserting, Rebalancing
<1>4. /\ Tree(heap, live, top, U, bh, M, null, Leaving, null)
      /\ top # null => heap[top].color # "red"
      BY <1>2, <1>3 DEF IsTree, Color
<1>5. Shape(heap, live, top, U)  BY <1>4 DEF Tree
<1>6. ASSUME top = M, \A s \in Child : heap[M][s] = null PROVE live = {M}
  <2>1. U[top] = live /\ U[null] = {}  BY <1>5 DEF Shape
  <2>2. PICK s : s \in Child  BY DEF Child
  <2>3. U[M] = {M} \cup U[heap[M][s]] \cup U[heap[M][Other(s)]]  BY <1>1, <1>5, <2>2, ShapeAt
  <2> QED  BY <1>6, <2>1, <2>2, <2>3, Sides
<1>7. heap[M].parent = null => top = M
  <2>1. M # top => heap[M].parent \in live  BY <1>1, <1>5, OnlyParent
  <2> QED  BY <2>1, Heap
<1> QED  BY <1>1, <1>4, <1>6, <1>7

(* The leaf that deleteTheOnlyChild() frees at its end: the invariant is kept. *)
LEMMA UnlinkStep == IInv /\ Unlink => IInv'
<1> SUFFICES ASSUME IInv, Unlink PROVE IInv'  OBVIOUS
<1> DEFINE e == Hang(heap, M, null)
           g == [e EXCEPT ![M] = Blank]
<1>1. /\ pc = "unlink" /\ heap' = g /\ live' = live \ {M} /\ pc' = "setTreeRoot" /\ node' = tmp
      /\ UNCHANGED <<map, root, todo, tmp, M>>
      BY DEF Unlink, Free, Call
<1>2. /\ M \in live /\ map /\ tmp \in live \cup {null} /\ tmp # M
      /\ (tmp = null => heap[M].parent = null /\ \A s \in Child : heap[M][s] = null)
      BY <1>1, Leaves
<1>3. PICK top, U, bh :
        /\ Tree(heap, live, top, U, bh, M, null, Leaving, null)
        /\ top # null => heap[top].color # "red"
        /\ (top = M /\ \A s \in Child : heap[M][s] = null) => live = {M}
        /\ heap[M].parent = null => top = M
      BY <1>1, Leaves
<1>4. \A s \in Child : heap[M][s] = null  BY <1>1 DEF IInv, AtDelete, Leaf, Child
<1>5. heap \in Heaps /\ live \subseteq Nodes /\ null \notin live  BY Heap
<1>6. /\ Shape(heap, live, top, U) /\ Sorted(heap, live, U, M)
      /\ Balanced(heap, live, bh, null, M) /\ Colored(heap, live, null)
      BY <1>1, <1>3 DEF Tree, Leaving
<1>7. Hung(heap, e, live, M, null)
  <2>1. null \in Refs  BY DEF Refs
  <2> QED  BY <1>2, <1>5, <1>6, <2>1, HangHangs
<1> HIDE DEF e
<1>8. /\ heap' \in Heaps /\ heap'[M] = Blank /\ \A m \in Nodes : m # M => heap'[m] = e[m]
  <2>1. M \in Nodes /\ e \in Heaps  BY <1>2, <1>5, <1>7 DEF Hung, Keeps
  <2>2. g \in Heaps /\ g[M] = Blank /\ \A m \in Nodes : m # M => g[m] = e[m]  BY <2>1, Blanked
  <2>3. heap' = g  BY <1>1
  <2> HIDE DEF g
  <2> QED  BY <2>2, <2>3
<1> HIDE DEF g
<1>9. \A m \in Nodes \ live : heap'[m] = heap[m]  BY <1>2, <1>7, <1>8 DEF Hung, Keeps
<1>10. node' \in Refs  BY <1>1, <1>2, <1>5 DEF Refs
<1>11. tmp = null => live = {M}  BY <1>2, <1>3
<1>12. CASE top = M
  <2>1. live \ {M} = {}  BY <1>3, <1>4, <1>12
  <2>2. PICK V, b : Tree(heap', {}, null, V, b, null, null, null, null)  BY EmptyTree
  <2>3. Tree(heap', live \ {M}, null, V, b, null, null, null, null)  BY <2>1, <2>2
  <2> QED  BY <1>1, <1>2, <1>8, <1>9, <1>10, <1>11, <2>3, FreeStep
<1>13. CASE top # M
  <2>1. Spliced(heap, heap', live, M, null)
    <3>1. \A m \in live \ {M} :
            /\ m # null /\ heap'[m].key = heap[m].key /\ heap'[m].color = heap[m].color
            /\ heap'[m].parent = heap[m].parent
            /\ \A s \in Child : heap'[m][s] = IF heap[m][s] = M THEN null ELSE heap[m][s]
          BY <1>5, <1>7, <1>8 DEF Hung, Keeps
    <3> QED  BY <3>1 DEF Spliced
  <2>2. CanSplice(heap, live, top, M, null)
    <3>1. "left" \in Child /\ Other("left") \in Child  BY Sides DEF Child
    <3> QED  BY <1>2, <1>4, <1>13, <3>1 DEF CanSplice
  <2> DEFINE b == [m \in (live \ {M}) \cup {null} |-> bh[m]]
  <2>3. /\ bh \in [live \cup {null} -> Nat] /\ bh[null] = 0
        /\ \A n \in live, z \in Child : bh[n] = bh[heap[n][z]] + Missing(heap[n][z], null) + Weight(heap, n, M)
        BY <1>6 DEF Balanced
  <2>4. bh[M] = 0
    <3>1. "left" \in Child  BY DEF Child
    <3>2. bh[M] = bh[null] + Missing(null, null) + Weight(heap, M, M)  BY <1>2, <1>4, <2>3, <3>1
    <3> QED  BY <2>3, <3>2 DEF Missing, Weight
  <2>5. /\ b \in [(live \ {M}) \cup {null} -> Nat] /\ b[null] = 0
        /\ \A m \in live \ {M} : b[m] = bh[m]
        BY <2>3
  <2> HIDE DEF b
  <2>6. PICK V : Tree(heap', live \ {M}, top, V, b, null, null, null, null)
    <3>1. Lifted(heap, live, M, null, bh, b)  BY <2>4, <2>5 DEF Lifted
    <3> QED  BY <1>6, <2>1, <2>2, <3>1, SplicedTree
  <2>7. top # null => heap'[top].color # "red"
    <3>1. top # null => top \in live  BY <1>6 DEF Shape
    <3> QED  BY <1>3, <1>5, <1>7, <1>8, <1>13, <3>1 DEF Hung
  <2> QED  BY <1>1, <1>2, <1>8, <1>9, <1>10, <1>11, <2>6, <2>7, FreeStep
<1> QED  BY <1>12, <1>13

(* setTreeRoot(findTop()) keeps the invariant: what it finds is the root. *)
LEMMA SetTreeRootStep == IInv /\ SetTreeRoot => IInv'
<1> SUFFICES ASSUME IInv, SetTreeRoot PROVE IInv'  OBVIOUS
<1>1. /\ pc = "setTreeRoot" /\ root' = FindTop(heap, tmp) /\ pc' = "idle" /\ node' = null
      /\ tmp' = null /\ M' = null /\ UNCHANGED <<map, heap, live, todo>>
      BY DEF SetTreeRoot
<1>2. /\ tmp \in live \cup {null} /\ (tmp = null => live = {}) /\ M \notin live /\ map
      BY <1>1 DEF IInv, AtRest
<1>3. /\ heap \in Heaps /\ live \subseteq Nodes /\ null \notin live /\ Outside(heap, live)
  <2>1. Linked = live  BY <1>1 DEF Linked
  <2> QED  BY <2>1, Heap
<1>4. PICK top, U, bh : IsTree(top, U, bh)  BY DEF IInv
<1>5. Tree(heap, live, top, U, bh, M, null, null, null) /\ (top # null => Color(top) # "red")
  <2>1. Linked = live /\ Short = null /\ Leaving = null /\ Violator = null
        BY <1>1 DEF Linked, Short, Leaving, Violator, Inserting, Rebalancing
  <2> QED  BY <1>1, <1>4, <2>1 DEF IsTree
<1>6. Shape(heap, live, top, U)  BY <1>5 DEF Tree
<1>7. root' = top /\ top \in live \cup {null}
  <2>1. \A m \in Nodes : heap[m].parent \in Refs  BY <1>3, HeapFields
  <2>2. FindTop(heap, null) = null /\ \A n \in live : FindTop(heap, n) = top
        BY <1>3, <1>6, <2>1, FindTopFinds
  <2>3. top \in live \cup {null}  BY <1>6 DEF Shape
  <2> QED  BY <1>1, <1>2, <2>2, <2>3
<1>8. Sorted(heap, live, U, null)
  <2> SUFFICES ASSUME NEW n \in live, NEW s \in Child, NEW m \in U[heap[n][s]]
               PROVE  Lesser(s, heap[m].key, heap[n].key)
      BY DEF Sorted
  <2>1. m \in live  BY <1>6, ShapeAt
  <2>2. m # M /\ n # M  BY <1>2, <2>1
  <2> QED  BY <1>5, <2>2 DEF Tree, Sorted
<1>9. TreeTyped'
  <2>1. pc' \in Steps /\ null \in Refs /\ root' \in Refs  BY <1>1, <1>3, <1>7 DEF Steps, Refs
  <2> QED  BY <1>1, <1>2, <1>7, <2>1 DEF IInv, TreeTyped
<1>10. IsTree(top, U, bh)'
  <2>1. Linked' = live /\ Short' = null /\ Leaving' = null /\ Violator' = null
        BY <1>1 DEF Linked, Short, Leaving, Violator, Inserting, Rebalancing
  <2>2. Tree(heap', Linked', top, U, bh, M', Short', Leaving', Violator')
        BY <1>1, <1>5, <1>8, <2>1 DEF Tree
  <2> QED  BY <1>1, <1>5, <1>7, <2>2 DEF IsTree, Color
<1>11. AtInsert' /\ AtDelete'  BY <1>1 DEF AtInsert, AtDelete, AtCase, Inserting, Rebalancing
<1>12. AtRest'  BY <1>1, <1>2 DEF IInv, AtRest, Inserting
<1> QED  BY <1>9, <1>10, <1>11, <1>12 DEF IInv

(* deleteTheOnlyChild() keeps the invariant: an only child is a red leaf, and is *)
(* painted black.                                                                *)
LEMMA DeleteTheOnlyChildStep == IInv /\ DeleteTheOnlyChild => IInv'
<1> SUFFICES ASSUME IInv, DeleteTheOnlyChild PROVE IInv'  OBVIOUS
<1>1. /\ pc = "deleteTheOnlyChild" /\ node = M /\ UNCHANGED <<map, root, todo, tmp, M>>
      BY DEF DeleteTheOnlyChild, IInv, AtDelete
<1>2. /\ M \in live /\ map /\ tmp \in live \cup {null} /\ tmp # M
      /\ (tmp = null => heap[M].parent = null /\ \A s \in Child : heap[M][s] = null)
      BY <1>1, Leaves
<1>3. PICK top, U, bh :
        /\ Tree(heap, live, top, U, bh, M, null, Leaving, null)
        /\ top # null => heap[top].color # "red"
        /\ (top = M /\ \A s \in Child : heap[M][s] = null) => live = {M}
        /\ heap[M].parent = null => top = M
      BY <1>1, Leaves
<1>4. /\ heap \in Heaps /\ live \subseteq Nodes /\ null \notin live  BY Heap
<1>5. /\ Shape(heap, live, top, U) /\ Sorted(heap, live, U, M)
      /\ Balanced(heap, live, bh, null, null) /\ Colored(heap, live, null)
      BY <1>1, <1>3 DEF Tree, Leaving, Rebalancing
<1>6. /\ bh \in [live \cup {null} -> Nat] /\ bh[null] = 0
      /\ \A n \in live, z \in Child : bh[n] = bh[heap[n][z]] + Missing(heap[n][z], null) + Weight(heap, n, null)
      BY <1>5 DEF Balanced
<1>7. M \in Nodes /\ M # null /\ heap[M].color \in {"red", "black"} /\ M \in Refs
      BY <1>2, <1>4, HeapFields DEF Refs
<1>8. \A x : Missing(x, null) = 0  BY DEF Missing
<1>9. CASE Leaf(M)
  <2>1. /\ heap' = heap /\ live' = live /\ node' = M
        /\ pc' = IF heap[M].color = "black" THEN "delete_case1" ELSE "unlink"
        BY <1>1, <1>9 DEF DeleteTheOnlyChild, Call, Color
  <2>2. \A z \in Child : heap[M][z] = null  BY <1>9 DEF Leaf, Child
  <2>3. pc' \in Steps /\ pc' \in {"delete_case1", "unlink"}  BY <2>1 DEF Steps
  <2>4. Leaving' = M /\ Violator' = null
        BY <1>1, <2>3 DEF Leaving, Violator, Rebalancing, Inserting
  <2>5. \E b : Tree(heap', live, top, U, b, M, Short', Leaving', Violator')
    <3>1. CASE heap[M].color = "black"
      <4>1. Short' = M  BY <2>1, <3>1 DEF Short, Rebalancing
      <4> DEFINE b == [bh EXCEPT ![M] = 0]
      <4>2. /\ b \in [live \cup {null} -> Nat] /\ b[null] = 0 /\ b[M] = 0
            /\ \A m \in live \cup {null} : m # M => b[m] = bh[m]
            BY <1>2, <1>4, <1>6
      <4> HIDE DEF b
      <4>3. bh[M] = 1
        <5>1. "left" \in Child  BY DEF Child
        <5>2. bh[M] = bh[null] + Missing(null, null) + Weight(heap, M, null)
              BY <1>2, <1>6, <2>2, <5>1
        <5> QED  BY <1>6, <1>7, <1>8, <3>1, <5>2 DEF Weight
      <4>4. Balanced(heap, live, b, M, M)
        <5> SUFFICES ASSUME NEW n \in live, NEW z \in Child
                     PROVE  b[n] = b[heap[n][z]] + Missing(heap[n][z], M) + Weight(heap, n, M)
            BY <4>2 DEF Balanced
        <5>1. bh[n] = bh[heap[n][z]] + 0 + Weight(heap, n, null)  BY <1>6, <1>8
        <5>2. heap[n][z] \in live \cup {null}  BY <1>5, ShapeAt
        <5>3. CASE n = M
          <6>1. heap[n][z] = null /\ Weight(heap, n, M) = 0 /\ Missing(null, M) = 0
                BY <2>2, <5>3 DEF Weight, Missing
          <6> QED  BY <4>2, <5>3, <6>1
        <5>4. CASE n # M
          <6>1. Weight(heap, n, M) = Weight(heap, n, null) /\ Weight(heap, n, M) \in Nat
                BY <1>4, <5>4 DEF Weight
          <6>2. b[heap[n][z]] + Missing(heap[n][z], M) = bh[heap[n][z]] /\ bh[heap[n][z]] \in Nat
            <7>1. CASE heap[n][z] = M  BY <1>7, <4>2, <4>3, <7>1 DEF Missing
            <7>2. CASE heap[n][z] # M
              <8>1. Missing(heap[n][z], M) = 0  BY <7>2 DEF Missing
              <8> QED  BY <1>6, <4>2, <5>2, <7>2, <8>1
            <7> QED  BY <7>1, <7>2
          <6> QED  BY <4>2, <5>1, <5>4, <6>1, <6>2
        <5> QED  BY <5>3, <5>4
      <4> QED  BY <1>5, <2>1, <2>4, <4>1, <4>4 DEF Tree
    <3>2. CASE heap[M].color # "black"
      <4>1. Short' = null  BY <2>1, <3>2 DEF Short, Rebalancing
      <4>2. \A n \in live : Weight(heap, n, M) = Weight(heap, n, null)
            BY <1>4, <3>2 DEF Weight
      <4>3. Balanced(heap, live, bh, null, M)  BY <1>6, <4>2 DEF Balanced
      <4> QED  BY <1>5, <2>1, <2>4, <4>1, <4>3 DEF Tree
    <3> QED  BY <3>1, <3>2
  <2>6. PICK b : Tree(heap', live, top, U, b, M, Short', Leaving', Violator')  BY <2>5
  <2>7. TreeTyped' /\ (\E t, V, c : IsTree(t, V, c)')
    <3>1. \A m \in Nodes \ live : heap'[m] = heap[m]  BY <2>1
    <3>2. pc' \notin {"idle", "insert", "deleteNode"} /\ node' \in Refs /\ heap' \in Heaps
          BY <1>4, <1>7, <2>1, <2>3
    <3>3. top # null /\ heap'[top].color = "red" => pc' = "insert_case1" /\ node' = top
          BY <1>3, <2>1
    <3> QED  BY <1>1, <2>1, <2>3, <2>6, <3>1, <3>2, <3>3, InnerStep
  <2>8. AtInsert'  BY <2>3 DEF AtInsert, Inserting
  <2>9. AtDelete'
    <3>1. \A n \in live : heap[n].key = heap[M].key => heap[n].value = heap[M].value
          BY <1>1 DEF IInv, AtDelete
    <3>2. Leaf(M)' /\ (tmp = null => heap[M].parent = null)
          BY <1>1, <1>2, <1>9, <2>1 DEF Leaf
    <3>3. /\ M' \in live' /\ tmp' \in live' \cup {null} /\ tmp' # M'
          /\ tmp' = null => Parent(M)' = null /\ Leaf(M)'
          /\ \A n \in live' : heap'[n].key = heap'[M'].key => heap'[n].value = heap'[M'].value
          BY <1>1, <1>2, <2>1, <3>1, <3>2 DEF Parent
    <3>4. Rebalancing' => node' \in live' /\ Color(node)' = "black" /\ Color(M)' = "black"
          BY <1>1, <1>2, <1>7, <2>1 DEF Color, Rebalancing
    <3>5. AtCase'  BY <2>3 DEF AtCase, Rebalancing
    <3> QED  BY <2>3, <3>2, <3>3, <3>4, <3>5 DEF AtDelete
  <2>10. AtRest'  BY <1>1, <1>2, <2>1, <2>3 DEF IInv, AtRest, Inserting
  <2> QED  BY <2>7, <2>8, <2>9, <2>10 DEF IInv
<1>10. CASE ~Leaf(M)
  <2>1. PICK c : c = heap[M].right  OBVIOUS
  <2>2. heap[M].left = null /\ c # null /\ heap[M].parent # null /\ tmp # null /\ "right" \in Child
        /\ "left" \in Child /\ Other("left") = "right"
        BY <1>1, <1>2, <1>10, <2>1 DEF IInv, AtDelete, Leaf, Parent, Child, Other
  <2>3. top # M  BY <1>5, <1>2, <2>2, OnlyParent
  <2>4. CanSplice(heap, live, top, M, c)  BY <1>2, <2>1, <2>2, <2>3 DEF CanSplice
  <2>5. c \in live /\ c # M /\ c \in Nodes /\ c \in Refs /\ heap[c].color \in {"red", "black"}
    <3>1. heap[M]["right"] = c  BY <2>1
    <3>2. c \in live /\ M \notin U[c]  BY <1>2, <1>5, <2>2, <3>1, ShapeAt
    <3>3. c \in U[c]  BY <1>5, <3>2, Self
    <3> QED  BY <1>4, <3>2, <3>3, HeapFields DEF Refs
  <2>6. bh[M] = Weight(heap, M, null) /\ bh[M] = bh[c] + Weight(heap, M, null) /\ Weight(heap, M, null) \in {0, 1}
    <3>1. heap[M]["left"] = null /\ heap[M]["right"] = c  BY <2>1, <2>2
    <3>2. Weight(heap, M, null) \in {0, 1}  BY DEF Weight
    <3>3. bh[M] = bh[null] + 0 + Weight(heap, M, null) /\ bh[M] = bh[c] + 0 + Weight(heap, M, null)
          BY <1>2, <1>6, <1>8, <2>2, <3>1
    <3>4. bh[c] \in Nat  BY <1>6, <2>5
    <3> QED  BY <1>6, <3>2, <3>3, <3>4
  <2>7. bh[c] = 0 /\ bh[c] \in Nat  BY <1>6, <2>5, <2>6
  <2>8. heap[c].color = "red" /\ \A z \in Child : bh[heap[c][z]] = 0
    <3>1. ASSUME NEW z \in Child PROVE bh[heap[c][z]] = 0 /\ heap[c].color = "red"
      <4>1. bh[c] = bh[heap[c][z]] + 0 + Weight(heap, c, null)  BY <1>6, <1>8, <2>5
      <4>2. bh[heap[c][z]] \in Nat  BY <1>5, <1>6, <2>5, ShapeAt
      <4>3. Weight(heap, c, null) = IF heap[c].color = "black" THEN 1 ELSE 0
            BY <2>2 DEF Weight
      <4> QED  BY <2>5, <2>7, <4>1, <4>2, <4>3
    <3> QED  BY <2>2, <3>1
  <2>9. heap[M].color = "black"
    <3>1. heap[M]["right"] = c  BY <2>1
    <3>2. heap[M].color = "red" => heap[c].color = "black"  BY <1>2, <1>5, <2>2, <3>1 DEF Colored
    <3> QED  BY <1>7, <2>8, <3>2
  <2>10. bh[M] = 1  BY <1>7, <2>6, <2>9 DEF Weight
  <2> DEFINE e == Hang(heap, M, c)
             f == [e EXCEPT ![c].parent = heap[M].parent]
             k == Paint(f, c, "black")
             g == [k EXCEPT ![M] = Blank]
  <2>11. heap' = g /\ live' = live \ {M} /\ pc' = "setTreeRoot" /\ node' = tmp
         BY <1>1, <1>10, <2>1, <2>9 DEF DeleteTheOnlyChild, Call, Free, Color, Parent
  <2>12. Hung(heap, e, live, M, c)  BY <1>2, <1>4, <1>5, <2>5, HangHangs
  <2> HIDE DEF e
  <2>13. /\ f \in Heaps /\ (\A m \in Nodes : m # c => f[m] = e[m])
         /\ f[c].key = e[c].key /\ f[c].value = e[c].value /\ f[c].color = e[c].color
         /\ f[c].parent = heap[M].parent /\ \A z \in Child : f[c][z] = e[c][z]
    <3>1. e \in Heaps /\ heap[M].parent \in Refs  BY <1>4, <1>7, <2>12, HeapFields DEF Hung, Keeps
    <3> QED  BY <2>5, <3>1, SetParent
  <2> HIDE DEF f
  <2>14. /\ k \in Heaps /\ \A m \in Nodes : m # c => k[m] = f[m]
         /\ k[c].key = f[c].key /\ k[c].color = "black" /\ k[c].parent = f[c].parent
         /\ \A z \in Child : k[c][z] = f[c][z]
         BY <2>5, <2>13, Painted, BothColors
  <2> HIDE DEF k
  <2>15. g \in Heaps /\ g[M] = Blank /\ \A m \in Nodes : m # M => g[m] = k[m]
         BY <1>7, <2>14, Blanked
  <2> HIDE DEF g
  <2>16. \A m \in Nodes \ live : g[m] = heap[m]
         BY <1>2, <2>5, <2>12, <2>13, <2>14, <2>15 DEF Hung, Keeps
  <2>17. Spliced(heap, g, live, M, c)
    <3>1. ASSUME NEW m \in live \ {M}
          PROVE  /\ g[m].key = heap[m].key /\ (m # c => g[m].color = heap[m].color)
                 /\ g[m].parent = IF m = c THEN heap[M].parent ELSE heap[m].parent
                 /\ \A z \in Child : g[m][z] = IF heap[m][z] = M THEN c ELSE heap[m][z]
      <4>1. m \in Nodes /\ g[m] = k[m]  BY <1>4, <2>15
      <4>2. /\ e[m].key = heap[m].key /\ e[m].color = heap[m].color /\ e[m].parent = heap[m].parent
            /\ \A z \in Child : e[m][z] = IF heap[m][z] = M THEN c ELSE heap[m][z]
            BY <2>12, <4>1 DEF Hung, Keeps
      <4>3. CASE m = c  BY <2>13, <2>14, <4>1, <4>2, <4>3
      <4>4. CASE m # c  BY <2>13, <2>14, <4>1, <4>2, <4>4
      <4> QED  BY <4>3, <4>4
    <3>2. g[c].color = "black"  BY <2>5, <2>14, <2>15
    <3> QED  BY <3>1, <3>2 DEF Spliced
  <2> DEFINE b == [m \in (live \ {M}) \cup {null} |-> IF m = c THEN 1 ELSE bh[m]]
  <2>18. Lifted(heap, live, M, c, bh, b)
    <3>1. /\ b \in [(live \ {M}) \cup {null} -> Nat] /\ b[null] = 0 /\ b[c] = 1
          /\ \A m \in live \ {M} : m # c => b[m] = bh[m]
          BY <1>6, <2>2, <2>5
    <3> HIDE DEF b
    <3>2. \A z \in Child : b[c] = bh[heap[c][z]] + 1  BY <2>8, <3>1
    <3> QED  BY <2>10, <3>1, <3>2 DEF Lifted
  <2> HIDE DEF b
  <2>19. PICK V : Tree(g, live \ {M}, top, V, b, null, null, null, null)
         BY <1>5, <2>4, <2>17, <2>18, SplicedTree
  <2>20. top # null => g[top].color # "red"
    <3>1. top # null => top \in live \ {M}  BY <1>5, <2>3 DEF Shape
    <3> QED  BY <1>3, <2>17, <3>1 DEF Spliced
  <2>21. node' \in Refs  BY <1>2, <1>4, <2>11 DEF Refs
  <2>22. Tree(heap', live \ {M}, top, V, b, null, null, null, null) /\ (top # null => heap'[top].color # "red")
         /\ heap' \in Heaps /\ heap'[M] = Blank /\ \A m \in Nodes \ live : heap'[m] = heap[m]
         BY <2>11, <2>15, <2>16, <2>19, <2>20
  <2> QED  BY <1>1, <1>2, <2>2, <2>11, <2>21, <2>22, FreeStep
<1> QED  BY <1>9, <1>10

-----------------------------------------------------------------------------
(***************************************************************************)
(* Deleting: the start.                                                    *)
(***************************************************************************)

(* The node whose item takes the place of that of n. *)
Neighbour(h, U, n, m) ==
  IF h[n].right # null THEN Extreme(h, U, "left", h[n].right, m)
  ELSE IF h[n].left # null THEN Extreme(h, U, "right", h[n].left, m)
  ELSE m = n

(* What findMin() and findMax() give deleteNode() has no left child; if it has *)
(* a right one it has a parent.                                                *)
LEMMA NeighbourLeaves ==
  ASSUME NEW h \in Heaps, NEW L, NEW top, NEW U, NEW bh, Tree(h, L, top, U, bh, null, null, null, null),
         NEW n \in L, NEW m, Neighbour(h, U, n, m)
  PROVE  /\ m \in L /\ m \in U[n]
         /\ \/ h[m].left = null /\ h[m].right = null
            \/ h[m].left = null /\ h[m].right # null /\ h[m].parent # null
         /\ m = n => h[n].left = null /\ h[n].right = null
         /\ m # n => h[m].parent # null
<1>1. /\ Shape(h, L, top, U) /\ Balanced(h, L, bh, null, null) /\ Colored(h, L, null)  BY DEF Tree
<1>2. "left" \in Child /\ "right" \in Child /\ Other("left") = "right" /\ Other("right") = "left"
      BY DEF Child, Other
<1>3. /\ h[n].left \in L \cup {null} /\ h[n].right \in L \cup {null} /\ U[n] \subseteq L /\ n \in U[n]
      /\ U[n] = {n} \cup U[h[n].left] \cup U[h[n].right]
      /\ n \notin U[h[n].left] /\ n \notin U[h[n].right]
      BY <1>1, <1>2, ShapeAt
<1>4. ASSUME NEW x, m \in U[n], m # n PROVE h[m].parent # null
  <2>1. m # top
    <3>1. U[top] = L  BY <1>1 DEF Shape
    <3>2. m \in U[h[n].left] \/ m \in U[h[n].right]  BY <1>3, <1>4
    <3>3. n \notin U[m]  BY <1>1, <1>2, <3>2, NotAbove
    <3> QED  BY <3>1, <3>3
  <2> QED  BY <1>1, <1>3, <1>4, <2>1, OnlyParent, NullNoNode DEF Shape
<1>5. CASE h[n].right # null
  <2>1. m \in U[h[n].right] /\ h[m]["left"] = null  BY <1>5 DEF Neighbour, Extreme
  <2> QED  BY <1>3, <1>4, <2>1
<1>6. CASE h[n].right = null /\ h[n].left # null
  <2>1. PICK l : l = h[n].left  OBVIOUS
  <2>2. m \in U[l] /\ l \in L /\ l # null  BY <1>3, <1>6, <2>1 DEF Neighbour, Extreme
  <2>3. /\ bh \in [L \cup {null} -> Nat] /\ bh[null] = 0
        /\ \A x \in L, z \in Child : bh[x] = bh[h[x][z]] + Missing(h[x][z], null) + Weight(h, x, null)
        BY <1>1 DEF Balanced
  <2>4. \A x : Missing(x, null) = 0  BY DEF Missing
  <2>5. /\ bh[n] = bh[h[n]["right"]] + 0 + Weight(h, n, null)
        /\ bh[n] = bh[h[n]["left"]] + 0 + Weight(h, n, null)
        BY <1>2, <2>3, <2>4
  <2>6. bh[l] = 0
    <3>1. bh[n] = 0 + 0 + Weight(h, n, null) /\ bh[n] = bh[l] + 0 + Weight(h, n, null)
          BY <1>6, <2>1, <2>3, <2>5
    <3>2. bh[l] \in Nat /\ Weight(h, n, null) \in Nat  BY <2>2, <2>3 DEF Weight
    <3> QED  BY <3>1, <3>2
  <2>7. ASSUME NEW x \in L, bh[x] = 0, NEW z \in Child PROVE h[x].color = "red" /\ bh[h[x][z]] = 0
    <3>1. 0 = bh[h[x][z]] + 0 + Weight(h, x, null)  BY <2>3, <2>4, <2>7
    <3>2. bh[h[x][z]] \in Nat  BY <1>1, <2>3, ShapeAt
    <3>3. Weight(h, x, null) = (IF h[x].color = "black" THEN 1 ELSE 0) /\ x \in Nodes
          BY <1>1, Self DEF Weight
    <3>4. h[x].color \in {"red", "black"}  BY <3>3, HeapFields
    <3> QED  BY <3>1, <3>2, <3>3, <3>4
  <2>8. ASSUME NEW z \in Child PROVE h[l][z] = null
    <3>1. h[l].color = "red" /\ bh[h[l][z]] = 0 /\ h[l][z] \in L \cup {null}  BY <1>1, <2>2, <2>6, <2>7, ShapeAt
    <3> SUFFICES ASSUME h[l][z] # null PROVE FALSE  OBVIOUS
    <3>2. h[h[l][z]].color = "black"  BY <1>1, <2>2, <3>1 DEF Colored
    <3> QED  BY <1>2, <2>7, <3>1, <3>2
  <2>9. U[l] = {l}
    <3>1. U[l] = {l} \cup U[h[l]["left"]] \cup U[h[l]["right"]]  BY <1>1, <1>2, <2>2, ShapeAt
    <3>2. h[l]["left"] = null /\ h[l]["right"] = null  BY <1>2, <2>8
    <3>3. U[null] = {}  BY <1>1 DEF Shape
    <3> QED  BY <3>1, <3>2, <3>3
  <2>10. m = l  BY <2>2, <2>9
  <2>11. h[m]["left"] = null /\ h[m]["right"] = null  BY <1>2, <2>8, <2>10
  <2> QED  BY <1>3, <1>4, <1>6, <2>1, <2>2, <2>10, <2>11
<1>7. CASE h[n].right = null /\ h[n].left = null
  <2>1. m = n  BY <1>7 DEF Neighbour
  <2> QED  BY <1>3, <1>7, <2>1
<1> QED  BY <1>5, <1>6, <1>7

(* The item of m at n is in order, if that at m is not looked at. *)
LEMMA NeighbourSorted ==
  ASSUME NEW h \in Heaps, NEW L, NEW top, NEW U, Shape(h, L, top, U), Sorted(h, L, U, null),
         NEW n \in L, NEW m, Neighbour(h, U, n, m), m \in U[n], NEW g, Shape(g, L, top, U),
         \A a \in L : g[a].key = IF a = n THEN h[m].key ELSE h[a].key,
         \A a \in L, s \in Child : g[a][s] = h[a][s]
  PROVE  Sorted(g, L, U, m)
<1>1. /\ L \subseteq Nodes /\ null \notin L /\ m \in L  BY NullNoNode, Self DEF Shape
<1>2. \A a \in L : h[a].key \in Int  BY <1>1, HeapFields
<1> SUFFICES ASSUME NEW a \in L, NEW s \in Child, NEW x \in U[h[a][s]], a # m, x # m
             PROVE  Lesser(s, g[x].key, g[a].key)
    BY DEF Sorted
<1>3. x \in L /\ x # a /\ a \notin U[x] /\ Lesser(s, h[x].key, h[a].key)
      BY <1>1, NotAbove DEF Sorted
<1>4. CASE x # n /\ a # n  BY <1>3, <1>4
<1>5. CASE x = n
  <2>1. h[a][s] \in L \cup {null}  BY ShapeAt
  <2>2. U[n] \subseteq U[h[a][s]]  BY <1>5, <2>1, Transitive
  <2>3. Lesser(s, h[m].key, h[a].key)  BY <1>1, <2>2 DEF Sorted
  <2> QED  BY <1>3, <1>5, <2>3
<1>6. CASE a = n
  <2>1. h[n].left \in L \cup {null} /\ h[n].right \in L \cup {null} /\ U[null] = {}
        BY ShapeAt DEF Child, Shape
  <2>2. m # n  BY <1>6
  <2>3. s = "left" \/ s = "right"  BY DEF Child
  <2>4. "left" \in Child /\ "right" \in Child  BY DEF Child
  <2>5. CASE h[n].right # null
    <3>1. m \in U[h[n]["right"]] /\ \A b \in U[h[n]["right"]] : b # m => Lesser("left", h[m].key, h[b].key)
          BY <2>5 DEF Neighbour, Extreme
    <3>2. Lesser("right", h[m].key, h[n].key)  BY <1>1, <2>4, <3>1 DEF Sorted
    <3>3. h[m].key \in Int /\ h[n].key \in Int /\ h[x].key \in Int  BY <1>1, <1>2, <1>3
    <3>4. CASE s = "right"
      <4>1. Lesser("left", h[m].key, h[x].key)  BY <1>6, <3>1, <3>4
      <4> QED  BY <1>3, <1>6, <3>3, <3>4, <4>1 DEF Lesser
    <3>5. CASE s = "left"  BY <1>3, <1>6, <3>2, <3>3, <3>5 DEF Lesser
    <3> QED  BY <2>3, <3>4, <3>5
  <2>6. CASE h[n].right = null
    <3>1. s = "left"  BY <1>6, <2>1, <2>3, <2>6
    <3>2. h[n].left # null /\ \A b \in U[h[n]["left"]] : b # m => Lesser("right", h[m].key, h[b].key)
          BY <2>2, <2>6 DEF Neighbour, Extreme
    <3>3. h[m].key \in Int /\ h[x].key \in Int  BY <1>1, <1>2, <1>3
    <3>4. Lesser("right", h[m].key, h[x].key)  BY <1>6, <3>1, <3>2
    <3> QED  BY <1>3, <1>6, <3>1, <3>3, <3>4 DEF Lesser
  <2> QED  BY <2>5, <2>6
<1> QED  BY <1>4, <1>5, <1>6

(* deleteNode() keeps the invariant: for a moment two nodes have the same key. *)
LEMMA DeleteNodeStep == IInv /\ DeleteNode => IInv'
<1> SUFFICES ASSUME IInv, DeleteNode PROVE IInv'  OBVIOUS
<1>1. PICK m : m = IF heap[node].right # null THEN Outermost(heap[node].right, "left")
                   ELSE IF heap[node].left # null THEN Outermost(heap[node].left, "right")
                   ELSE node
      OBVIOUS
<1> DEFINE g == [heap EXCEPT ![node].value = heap[m].value, ![node].key = heap[m].key]
<1>2. /\ pc = "deleteNode" /\ M' = m /\ tmp' = (IF m = node THEN heap[node].parent ELSE node)
      /\ heap' = g /\ pc' = "deleteTheOnlyChild" /\ node' = m
      /\ UNCHANGED <<map, root, live, todo>>
      BY <1>1 DEF DeleteNode, Call, Parent
<1>3. node \in live /\ M = null /\ tmp = null /\ map
      BY <1>2 DEF IInv, AtDelete, AtRest
<1>4. /\ heap \in Heaps /\ live \subseteq Nodes /\ null \notin live /\ Outside(heap, live)
      /\ \A a \in Nodes : heap[a].key \in Int /\ \A s \in Child : heap[a][s] \in Refs
  <2>1. Linked = live  BY <1>2 DEF Linked
  <2> QED  BY <2>1, Heap
<1>5. PICK top, U, bh : IsTree(top, U, bh)  BY DEF IInv
<1>6. Tree(heap, live, top, U, bh, null, null, null, null) /\ (top # null => heap[top].color # "red")
  <2>1. Linked = live /\ Short = null /\ Leaving = null /\ Violator = null
        BY <1>2 DEF Linked, Short, Leaving, Violator, Inserting, Rebalancing
  <2> QED  BY <1>2, <1>3, <1>5, <2>1 DEF IsTree, Color
<1>7. /\ Shape(heap, live, top, U) /\ Sorted(heap, live, U, null)
      /\ Balanced(heap, live, bh, null, null) /\ Colored(heap, live, null)
      BY <1>6 DEF Tree
<1>8. Neighbour(heap, U, node, m)
  <2>1. "left" \in Child /\ "right" \in Child  BY DEF Child
  <2>2. heap[node].left \in live \cup {null} /\ heap[node].right \in live \cup {null}
        BY <1>3, <1>7, <2>1, ShapeAt
  <2>3. \A x \in live, s \in Child : Extreme(heap, U, s, x, Outermost(x, s))
        BY <1>4, <1>7, OutermostIsExtreme
  <2> QED  BY <1>1, <2>1, <2>2, <2>3 DEF Neighbour
<1>9. /\ m \in live /\ m \in U[node]
      /\ \/ heap[m].left = null /\ heap[m].right = null
         \/ heap[m].left = null /\ heap[m].right # null /\ heap[m].parent # null
      /\ m = node => heap[node].left = null /\ heap[node].right = null
      /\ m # node => heap[m].parent # null
      BY <1>3, <1>4, <1>6, <1>8, NeighbourLeaves
<1>10. /\ g \in Heaps /\ g[node].key = heap[m].key /\ g[node].value = heap[m].value
       /\ g[node].color = heap[node].color /\ g[node].parent = heap[node].parent
       /\ (\A s \in Child : g[node][s] = heap[node][s])
       /\ \A a \in Nodes : a # node => g[a] = heap[a]
  <2>1. node \in Nodes /\ m \in Nodes  BY <1>3, <1>4, <1>9
  <2> QED  BY Zenon, <1>4, <2>1 DEF Heaps, Child
<1> HIDE DEF g
<1>11. \A a \in Nodes : /\ g[a].color = heap[a].color /\ g[a].parent = heap[a].parent
                        /\ \A s \in Child : g[a][s] = heap[a][s]
       BY <1>10
<1>12. \A a \in live : g[a].key = IF a = node THEN heap[m].key ELSE heap[a].key
       BY <1>4, <1>10
<1>13. Shape(g, live, top, U)
  <2>1. \A a \in live : a \in Nodes /\ g[a].parent = heap[a].parent /\ \A s \in Child : g[a][s] = heap[a][s]
        BY <1>4, <1>11
  <2>2. \A n \in live, s \in Child :
          /\ g[n][s] \in live \cup {null}
          /\ U[n] = {n} \cup U[g[n][s]] \cup U[g[n][Other(s)]]
          /\ n \notin U[g[n][s]] /\ U[g[n][s]] \cap U[g[n][Other(s)]] = {}
          /\ g[n][s] # null => g[g[n][s]].parent = n
    <3> TAKE n \in live, s \in Child
    <3>1. Other(s) \in Child  BY Sides
    <3>2. g[n][s] = heap[n][s] /\ g[n][Other(s)] = heap[n][Other(s)]  BY <2>1, <3>1
    <3>3. /\ heap[n][s] \in live \cup {null}
          /\ U[n] = {n} \cup U[heap[n][s]] \cup U[heap[n][Other(s)]]
          /\ n \notin U[heap[n][s]] /\ U[heap[n][s]] \cap U[heap[n][Other(s)]] = {}
          /\ heap[n][s] # null => heap[heap[n][s]].parent = n
          BY <1>7, ShapeAt
    <3>4. heap[n][s] # null => g[heap[n][s]].parent = n  BY <2>1, <3>3
    <3> QED  BY <3>2, <3>3, <3>4
  <2>3. \A n \in live : IF n = top THEN g[n].parent = null
                       ELSE g[n].parent \in live /\ \E s \in Child : g[g[n].parent][s] = n
        BY <1>7, <2>1, OnlyParent
  <2> QED  BY <1>7, <2>2, <2>3 DEF Shape
<1>14. Sorted(g, live, U, m)
  <2>1. \A a \in live, s \in Child : g[a][s] = heap[a][s]  BY <1>4, <1>11
  <2> QED  BY <1>3, <1>4, <1>7, <1>8, <1>9, <1>12, <1>13, <2>1, NeighbourSorted
<1>15. Balanced(g, live, bh, null, null) /\ Colored(g, live, null)
  <2>1. \A a \in live : Weight(g, a, null) = Weight(heap, a, null) /\ \A s \in Child : g[a][s] = heap[a][s]
        BY <1>4, <1>11 DEF Weight
  <2>2. Balanced(g, live, bh, null, null)  BY <1>7, <2>1 DEF Balanced
  <2>3. \A a \in live, s \in Child : heap[a][s] \in live \cup {null}  BY <1>7, ShapeAt
  <2>4. Colored(g, live, null)  BY <1>4, <1>7, <1>11, <2>1, <2>3 DEF Colored
  <2> QED  BY <2>2, <2>4
<1>16. Tree(g, live, top, U, bh, m, null, null, null)  BY <1>13, <1>14, <1>15 DEF Tree
<1>17. heap[node].parent \in live \cup {null} /\ heap[node].parent # node
  <2>1. CASE heap[node].parent = null  BY <1>3, <1>4, <2>1
  <2>2. CASE heap[node].parent # null  BY <1>3, <1>7, <2>2, Hanging
  <2> QED  BY <2>1, <2>2
<1>18. tmp' \in live \cup {null} /\ tmp' # m
       BY <1>2, <1>3, <1>17
<1>19. TreeTyped'
  <2>1. pc' \in Steps /\ node' \in Refs /\ M' \in Refs /\ pc' # "idle"
        BY <1>2, <1>4, <1>9 DEF Steps, Refs
  <2>2. live' \subseteq Nodes /\ tmp' \in live' \cup {null} /\ map' \in BOOLEAN /\ root' \in Refs
        BY <1>2, <1>4, <1>18 DEF IInv, TreeTyped
  <2>3. heap' \in [Nodes -> [parent : Refs, left : Refs, right : Refs, color : {"red", "black"},
                             key : Key \cup {0}, value : Value \cup {0}]]
        BY <1>2, <1>10, Fields
  <2> QED  BY <2>1, <2>2, <2>3 DEF TreeTyped
<1>20. IsTree(top, U, bh)'
  <2>1. Linked' = live /\ Short' = null /\ Leaving' = null /\ Violator' = null
        BY <1>2 DEF Linked, Short, Leaving, Violator, Inserting, Rebalancing
  <2>2. Tree(heap', Linked', top, U, bh, M', Short', Leaving', Violator')  BY <1>2, <1>16, <2>1
  <2>3. top # null => heap'[top].color # "red"
    <3>1. top # null => top \in Nodes  BY <1>7 DEF Shape
    <3> QED  BY <1>2, <1>6, <1>11, <3>1
  <2> QED  BY <1>2, <2>2, <2>3 DEF IsTree, Color
<1>21. AtInsert'  BY <1>2 DEF AtInsert, Inserting
<1>22. AtDelete'
  <2>1. m \in Nodes /\ heap'[m].left = heap[m].left /\ heap'[m].right = heap[m].right
        /\ heap'[m].parent = heap[m].parent
        BY <1>2, <1>4, <1>9, <1>11 DEF Child
  <2>2. tmp' = null => heap'[m].parent = null /\ heap'[m].left = null /\ heap'[m].right = null
        BY <1>2, <1>3, <1>4, <1>9, <2>1
  <2>3. \A n \in live : heap'[n].key = heap'[m].key => heap'[n].value = heap'[m].value
    <3> SUFFICES ASSUME NEW n \in live, heap'[n].key = heap'[m].key
                 PROVE  heap'[n].value = heap'[m].value
        OBVIOUS
    <3>1. n \in Nodes /\ heap'[m].key = heap[m].key /\ heap'[m].value = heap[m].value
          BY <1>2, <1>4, <1>10, <2>1
    <3>2. CASE n = node  BY <1>2, <1>10, <3>1, <3>2
    <3>3. CASE n # node
      <4>1. heap'[n].key = heap[n].key /\ heap'[n] = heap[n]  BY <1>2, <1>10, <3>1, <3>3
      <4>2. n = m
        <5>1. \A a \in live : heap[a].key \in Int  BY <1>4
        <5>2. null \in live => \E s \in Child : heap[null][s] = null  BY <1>4
        <5>3. n \in live \ {null} /\ m \in live \ {null}  BY <1>4, <1>9
        <5>4. n # m => heap[n].key # heap[m].key  BY <1>7, <5>1, <5>2, <5>3, KeysDiffer
        <5> QED  BY <3>1, <4>1, <5>4
      <4> QED  BY <4>2
    <3> QED  BY <3>2, <3>3
  <2>4. /\ M' \in live' /\ tmp' \in live' \cup {null} /\ tmp' # M'
        /\ tmp' = null => Parent(M)' = null /\ Leaf(M)'
        /\ \A n \in live' : heap'[n].key = heap'[M'].key => heap'[n].value = heap'[M'].value
        BY <1>2, <1>9, <1>18, <2>2, <2>3 DEF Parent, Leaf
  <2>5. /\ node' = M'
        /\ Leaf(M)' \/ (heap'[M'].left = null /\ heap'[M'].right # null /\ Parent(M)' # null)
        BY <1>2, <1>9, <2>1 DEF Parent, Leaf
  <2>6. ~Rebalancing' /\ pc' # "unlink" /\ pc' # "deleteNode"  BY <1>2 DEF Rebalancing
  <2>7. AtCase'  BY <1>2 DEF AtCase, Rebalancing
  <2> QED  BY <2>4, <2>5, <2>6, <2>7 DEF AtDelete
<1>23. AtRest'
  <2>1. \A a \in Nodes \ live : heap'[a] = heap[a]  BY <1>2, <1>3, <1>10
  <2> QED  BY <1>2, <1>3, <2>1 DEF IInv, AtRest, Inserting
<1> QED  BY <1>19, <1>20, <1>21, <1>22, <1>23 DEF IInv

-----------------------------------------------------------------------------
(***************************************************************************)
(* The interface.                                                          *)
(***************************************************************************)

(* A tree depends on its own nodes alone, and not on their values. *)
LEMMA TreeKept ==
  ASSUME NEW h, NEW g, NEW L, NEW top, NEW U, NEW bh, Tree(h, L, top, U, bh, null, null, null, null),
         \A m \in L : /\ g[m].parent = h[m].parent /\ g[m].key = h[m].key /\ g[m].color = h[m].color
                      /\ \A s \in Child : g[m][s] = h[m][s]
  PROVE  Tree(g, L, top, U, bh, null, null, null, null)
<1>1. /\ Shape(h, L, top, U) /\ Sorted(h, L, U, null) /\ Balanced(h, L, bh, null, null)
      /\ Colored(h, L, null)
      BY DEF Tree
<1>2. ASSUME NEW n \in L, NEW s \in Child
      PROVE  /\ g[n][s] = h[n][s] /\ g[n][Other(s)] = h[n][Other(s)]
             /\ h[n][s] \in L \cup {null}
             /\ U[n] = {n} \cup U[h[n][s]] \cup U[h[n][Other(s)]]
             /\ n \notin U[h[n][s]] /\ U[h[n][s]] \cap U[h[n][Other(s)]] = {} /\ U[h[n][s]] \subseteq L
             /\ h[n][s] # null => g[h[n][s]].parent = n
  <2>1. Other(s) \in Child  BY Sides
  <2>2. /\ h[n][s] \in L \cup {null}
        /\ U[n] = {n} \cup U[h[n][s]] \cup U[h[n][Other(s)]]
        /\ n \notin U[h[n][s]] /\ U[h[n][s]] \cap U[h[n][Other(s)]] = {} /\ U[h[n][s]] \subseteq L
        /\ h[n][s] # null => h[h[n][s]].parent = n
        BY <1>1, ShapeAt
  <2>3. h[n][s] # null => g[h[n][s]].parent = h[h[n][s]].parent  BY <2>2
  <2> QED  BY <2>1, <2>2, <2>3
<1>3. \A n \in L : IF n = top THEN g[n].parent = null
                   ELSE g[n].parent \in L /\ \E s \in Child : g[g[n].parent][s] = n
      BY <1>1, OnlyParent
<1>4. Shape(g, L, top, U)
  <2>1. \A n \in L, s \in Child :
          /\ g[n][s] \in L \cup {null}
          /\ U[n] = {n} \cup U[g[n][s]] \cup U[g[n][Other(s)]]
          /\ n \notin U[g[n][s]] /\ U[g[n][s]] \cap U[g[n][Other(s)]] = {}
          /\ g[n][s] # null => g[g[n][s]].parent = n
        BY <1>2
  <2> QED  BY <1>1, <1>3, <2>1 DEF Shape
<1>5. Sorted(g, L, U, null)
  <2> SUFFICES ASSUME NEW n \in L, NEW s \in Child, NEW m \in U[g[n][s]], n # null, m # null
               PROVE  Lesser(s, g[m].key, g[n].key)
      BY DEF Sorted
  <2>1. m \in U[h[n][s]] /\ m \in L  BY <1>2
  <2> QED  BY <1>1, <2>1 DEF Sorted
<1>6. Balanced(g, L, bh, null, null)
  <2>1. \A n \in L : Weight(g, n, null) = Weight(h, n, null)  BY DEF Weight
  <2> QED  BY <1>1, <1>2, <2>1 DEF Balanced
<1>7. Colored(g, L, null)
  <2> SUFFICES ASSUME NEW n \in L, NEW s \in Child, g[n][s] # null, g[n].color = "red"
               PROVE  g[g[n][s]].color = "black"
      BY DEF Colored
  <2>1. g[n][s] = h[n][s] /\ h[n][s] \in L /\ h[n].color = "red"  BY <1>2
  <2> QED  BY <1>1, <2>1 DEF Colored
<1> QED  BY <1>4, <1>5, <1>6, <1>7 DEF Tree

(* What is known between two calls. *)
LEMMA Rests ==
  ASSUME IInv, pc = "idle"
  PROVE  /\ node = null /\ tmp = null /\ M = null /\ map \in BOOLEAN
         /\ heap \in Heaps /\ live \subseteq Nodes /\ null \notin live /\ Outside(heap, live)
         /\ \A a \in Nodes : heap[a].key \in Int /\ \A s \in Child : heap[a][s] \in Refs
         /\ \A a \in Nodes \ live : heap[a] = Blank
         /\ ~map => live = {} /\ root = null
         /\ \E U, bh :
              /\ Tree(heap, live, root, U, bh, null, null, null, null)
              /\ root # null => heap[root].color # "red"
<1>1. /\ node = null /\ tmp = null /\ M = null /\ map \in BOOLEAN
      /\ \A a \in Nodes \ live : heap[a] = Blank
      /\ ~map => live = {} /\ root = null
      BY DEF IInv, TreeTyped, AtRest
<1>2. Linked = live /\ Short = null /\ Leaving = null /\ Violator = null
      BY DEF Linked, Short, Leaving, Violator, Inserting, Rebalancing
<1>3. PICK top, U, bh : IsTree(top, U, bh)  BY DEF IInv
<1>4. Tree(heap, live, root, U, bh, null, null, null, null) /\ (root # null => heap[root].color # "red")
      BY <1>1, <1>2, <1>3 DEF IsTree, Color
<1> QED  BY <1>1, <1>2, <1>4, Heap

(* A step from one call to the next. *)
LEMMA RestStep ==
  ASSUME IInv, pc = "idle", UNCHANGED <<pc, node, tmp, M>>,
         map' \in BOOLEAN, live' \subseteq Nodes, heap' \in Heaps,
         \A a \in Nodes \ live' : heap'[a] = Blank, ~map' => live' = {} /\ root' = null,
         \E U, bh : /\ Tree(heap', live', root', U, bh, null, null, null, null)
                    /\ root' # null => heap'[root'].color # "red"
  PROVE  IInv'
<1>1. node = null /\ tmp = null /\ M = null  BY Rests
<1>2. PICK U, bh : /\ Tree(heap', live', root', U, bh, null, null, null, null)
                   /\ root' # null => heap'[root'].color # "red"
      OBVIOUS
<1>3. Linked' = live' /\ Short' = null /\ Leaving' = null /\ Violator' = null
      BY DEF Linked, Short, Leaving, Violator, Inserting, Rebalancing
<1>4. IsTree(root, U, bh)'
  <2>1. Tree(heap', Linked', root', U, bh, M', Short', Leaving', Violator')  BY <1>1, <1>2, <1>3
  <2> QED  BY <1>2, <2>1 DEF IsTree, Color
<1>5. TreeTyped'
  <2>1. root' \in live' \cup {null}  BY <1>2 DEF Tree, Shape
  <2>2. null \in Refs /\ pc' \in Steps /\ root' \in Refs  BY <2>1 DEF Refs, Steps
  <2> QED  BY <1>1, <2>1, <2>2, Fields DEF TreeTyped
<1>6. AtInsert' /\ AtDelete'  BY DEF AtInsert, AtDelete, AtCase, Inserting, Rebalancing
<1>7. AtRest'  BY <1>1 DEF AtRest, Inserting
<1> QED  BY <1>4, <1>5, <1>6, <1>7 DEF IInv

(* Between two calls findItem() finds a key if it is there. *)
LEMMA FindsItem ==
  ASSUME IInv, pc = "idle", NEW k \in Key
  PROVE  IF FindItem(k) = null THEN \A a \in live : heap[a].key # k
         ELSE FindItem(k) \in live /\ heap[FindItem(k)].key = k
<1>1. /\ live \subseteq Nodes /\ Outside(heap, live) /\ k \in Int
      /\ \A a \in Nodes : heap[a].key \in Int /\ \A s \in Child : heap[a][s] \in Refs
      BY Rests, KeyAssumption
<1>2. PICK U, bh : Tree(heap, live, root, U, bh, null, null, null, null)  BY Rests
<1>3. Finds(heap, live, k, FindItem(k))  BY <1>1, <1>2, FindItemFinds DEF Tree
<1> QED  BY <1>3 DEF Finds

(* The beginning of a call keeps the invariant. *)
LEMMA BeginStep == IInv /\ Begin => IInv'
<1> SUFFICES ASSUME IInv, Begin PROVE IInv'  OBVIOUS
<1>1. pc = "idle" /\ UNCHANGED <<map, root, heap, live, pc, node, tmp, M>>  BY DEF Begin
<1> QED  BY <1>1, Rests, RestStep

(* createMap() keeps the invariant. *)
LEMMA CreateMapStep == IInv /\ CreateMap => IInv'
<1> SUFFICES ASSUME IInv, CreateMap PROVE IInv'  OBVIOUS
<1>1. pc = "idle" /\ ~map /\ map' = TRUE /\ root' = null /\ UNCHANGED <<heap, live, pc, node, tmp, M>>
      BY DEF CreateMap, Called
<1>2. live = {} /\ root = null  BY <1>1, Rests
<1> QED  BY <1>1, <1>2, Rests, RestStep

(* Between two calls all nodes there are hang under the root. *)
LEMMA UnderRoot ==
  ASSUME IInv, pc = "idle"
  PROVE  Under(root) = live
<1>1. /\ live \subseteq Nodes /\ Outside(heap, live)
      /\ \A a \in Nodes : \A s \in Child : heap[a][s] \in Refs
      BY Rests
<1>2. PICK U, bh : Tree(heap, live, root, U, bh, null, null, null, null)  BY Rests
<1>3. Shape(heap, live, root, U)  BY <1>2 DEF Tree
<1>4. U[root] = live /\ root \in live \cup {null}  BY <1>3 DEF Shape
<1> QED  BY <1>1, <1>3, <1>4, UnderIsSubtree

(* All that a map held is freed. *)
LEMMA EmptyStep ==
  ASSUME IInv, pc = "idle", UNCHANGED <<pc, node, tmp, M>>, map' \in BOOLEAN,
         root' = null, live' = live \ Under(root),
         heap' = [n \in Nodes |-> IF n \in live' THEN heap[n] ELSE Blank]
  PROVE  IInv'
<1>1. live' = {}  BY UnderRoot
<1>2. heap' = [n \in Nodes |-> Blank]  BY <1>1
<1>3. Blank \in [parent : Refs, left : Refs, right : Refs, color : {"red", "black"},
                 key : Key \cup {0}, value : Value \cup {0}]
      BY DEF Blank, Refs
<1>4. heap' \in Heaps /\ \A a \in Nodes : heap'[a] = Blank  BY <1>2, <1>3 DEF Heaps
<1>5. \E U, bh : /\ Tree(heap', live', root', U, bh, null, null, null, null)
                 /\ root' # null => heap'[root'].color # "red"
  <2>1. PICK U, bh : Tree(heap', {}, null, U, bh, null, null, null, null)  BY EmptyTree
  <2> QED  BY <1>1, <2>1
<1> QED  BY <1>1, <1>4, <1>5, RestStep

(* clearMap(), deleteMap() and a failing createMap() keep the invariant. *)
LEMMA ClearStep == IInv /\ (CreateFails \/ ClearMap \/ DropMap) => IInv'
<1> SUFFICES ASSUME IInv, CreateFails \/ ClearMap \/ DropMap PROVE IInv'  OBVIOUS
<1>1. /\ pc = "idle" /\ UNCHANGED <<pc, node, tmp, M>> /\ root' = null /\ live' = live \ Under(root)
      /\ heap' = [n \in Nodes |-> IF n \in live' THEN heap[n] ELSE Blank]
      /\ map' = map \/ map' = FALSE
      BY DEF CreateFails, ClearMap, DropMap, DeleteMap, Called
<1>2. map' \in BOOLEAN  BY <1>1, Rests
<1> QED  BY <1>1, <1>2, EmptyStep

(* setValue() of a key that is there keeps the invariant. *)
LEMMA SetValueStep ==
  ASSUME IInv, pc = "idle", NEW k \in Key, NEW v \in Value, FindItem(k) # null,
         heap' = [heap EXCEPT ![FindItem(k)].value = v],
         UNCHANGED <<map, root, live, pc, node, tmp, M>>
  PROVE  IInv'
<1>1. PICK n : n = FindItem(k)  OBVIOUS
<1> DEFINE g == [heap EXCEPT ![n].value = v]
<1>2. n # null /\ heap' = g  BY <1>1
<1>3. /\ n \in live /\ n \in Nodes /\ heap \in Heaps /\ live \subseteq Nodes
      BY <1>1, <1>2, FindsItem, Rests
<1>4. /\ g \in Heaps /\ (\A m \in Nodes : m # n => g[m] = heap[m])
      /\ \A m \in Nodes : /\ g[m].parent = heap[m].parent /\ g[m].key = heap[m].key
                          /\ g[m].color = heap[m].color /\ \A s \in Child : g[m][s] = heap[m][s]
      BY <1>3 DEF Heaps, Child
<1> HIDE DEF g
<1>5. PICK U, bh : /\ Tree(heap, live, root, U, bh, null, null, null, null)
                   /\ root # null => heap[root].color # "red"
      BY <1>2, Rests
<1>6. Tree(g, live, root, U, bh, null, null, null, null)
  <2>1. \A m \in live : /\ g[m].parent = heap[m].parent /\ g[m].key = heap[m].key
                        /\ g[m].color = heap[m].color /\ \A s \in Child : g[m][s] = heap[m][s]
        BY <1>3, <1>4
  <2> QED  BY <1>5, <2>1, TreeKept
<1>7. root # null => g[root].color # "red"
  <2>1. root \in live \cup {null}  BY <1>5 DEF Tree, Shape
  <2> QED  BY <1>3, <1>4, <1>5, <2>1
<1>8. \A a \in Nodes \ live : g[a] = Blank  BY <1>2, <1>3, <1>4, Rests
<1>9. map \in BOOLEAN /\ (~map => live = {} /\ root = null)  BY Rests
<1> QED  BY <1>2, <1>3, <1>4, <1>6, <1>7, <1>8, <1>9, RestStep

(* deleteItem() of a key that is there keeps the invariant. *)
LEMMA DeleteItemStep ==
  ASSUME IInv, pc = "idle", map, NEW k \in Key, FindItem(k) # null, Call("deleteNode", FindItem(k)),
         UNCHANGED <<map, root, heap, live, tmp, M>>
  PROVE  IInv'
<1>1. pc' = "deleteNode" /\ node' = FindItem(k)  BY DEF Call
<1>2. node' \in live  BY <1>1, FindsItem
<1>3. /\ tmp = null /\ M = null /\ live \subseteq Nodes /\ \A a \in Nodes \ live : heap[a] = Blank
      BY <1>1, Rests
<1>4. PICK U, bh : /\ Tree(heap, live, root, U, bh, null, null, null, null)
                   /\ root # null => heap[root].color # "red"
      BY <1>1, Rests
<1>5. IsTree(root, U, bh)'
  <2>1. Linked' = live /\ Short' = null /\ Leaving' = null /\ Violator' = null
        BY <1>1 DEF Linked, Short, Leaving, Violator, Inserting, Rebalancing
  <2>2. Tree(heap', Linked', root', U, bh, M', Short', Leaving', Violator')  BY <1>1, <1>3, <1>4, <2>1
  <2> QED  BY <1>1, <1>4, <2>2 DEF IsTree, Color
<1>6. TreeTyped'
  <2>1. pc' \in Steps /\ node' \in Refs  BY <1>1, <1>2, <1>3 DEF Steps, Refs
  <2> QED  BY <1>1, <2>1 DEF IInv, TreeTyped
<1>7. AtInsert'  BY <1>1 DEF AtInsert, Inserting
<1>8. AtDelete'  BY <1>1, <1>2 DEF AtDelete, AtCase, Rebalancing
<1>9. AtRest'  BY <1>1, <1>3 DEF IInv, AtRest, Inserting
<1> QED  BY <1>5, <1>6, <1>7, <1>8, <1>9 DEF IInv

(* A new node keeps the invariant; it is not linked yet. *)
LEMMA AllocateStep ==
  ASSUME IInv, pc = "idle", map, NEW k \in Key, NEW v \in Value, Allocate(k, v)
  PROVE  IInv'
<1>1. /\ FindItem(k) = null /\ UNCHANGED <<map, root, M>>
      /\ \E n \in Nodes \ live :
           /\ live' = live \cup {n}
           /\ heap' = [heap EXCEPT ![n] = [Blank EXCEPT !.key = k, !.value = v]]
           /\ pc' = "insert" /\ node' = n /\ tmp' = n
      BY DEF Allocate, Call
<1>2. PICK n \in Nodes \ live :
        /\ live' = live \cup {n}
        /\ heap' = [heap EXCEPT ![n] = [Blank EXCEPT !.key = k, !.value = v]]
        /\ pc' = "insert" /\ node' = n /\ tmp' = n
      BY <1>1
<1>3. /\ M = null /\ live \subseteq Nodes /\ heap \in Heaps /\ null \notin live
      /\ \A a \in Nodes \ live : heap[a] = Blank
      BY Rests
<1>4. PICK U, bh : /\ Tree(heap, live, root, U, bh, null, null, null, null)
                   /\ root # null => heap[root].color # "red"
      BY Rests
<1>5. root \in live \cup {null}  BY <1>4 DEF Tree, Shape
<1> DEFINE r == [Blank EXCEPT !.key = k, !.value = v]
           g == [heap EXCEPT ![n] = r]
<1>6. /\ r.parent = null /\ r.left = null /\ r.right = null /\ r.color = "red" /\ r.key = k
      /\ r \in [parent : Refs, left : Refs, right : Refs, color : {"red", "black"},
                key : Key \cup {0}, value : Value \cup {0}]
      BY DEF Blank, Refs
<1>7. heap' = g  BY <1>2
<1> HIDE DEF r
<1>8. /\ g \in Heaps /\ g[n] = r /\ \A m \in Nodes : m # n => g[m] = heap[m]
      BY <1>3, <1>6 DEF Heaps
<1> HIDE DEF g
<1>9. \A a \in live : a \in Nodes /\ g[a] = heap[a] /\ a # n  BY <1>3, <1>8
<1>10. Tree(g, live, root, U, bh, null, null, null, null)  BY <1>4, <1>9, TreeKept
<1>11. live' \ {n} = live  BY <1>2
<1>12. IsTree(root, U, bh)'
  <2>1. Linked' = live /\ Short' = null /\ Leaving' = null /\ Violator' = null
        BY <1>2, <1>11 DEF Linked, Short, Leaving, Violator, Inserting, Rebalancing
  <2>2. Tree(heap', Linked', root', U, bh, M', Short', Leaving', Violator')
        BY <1>1, <1>3, <1>7, <1>10, <2>1
  <2>3. root # null => heap'[root].color # "red"  BY <1>4, <1>5, <1>7, <1>9
  <2> QED  BY <1>1, <2>2, <2>3 DEF IsTree, Color
<1>13. TreeTyped'
  <2>1. pc' \in Steps /\ node' \in Refs /\ pc' # "idle" /\ live' \subseteq Nodes /\ tmp' \in live' \cup {null}
        BY <1>2, <1>3 DEF Steps, Refs
  <2>2. map' \in BOOLEAN /\ root' \in Refs /\ M' \in Refs  BY <1>1 DEF IInv, TreeTyped
  <2>3. heap' \in [Nodes -> [parent : Refs, left : Refs, right : Refs, color : {"red", "black"},
                             key : Key \cup {0}, value : Value \cup {0}]]
        BY <1>7, <1>8, Fields
  <2> QED  BY <2>1, <2>2, <2>3 DEF TreeTyped
<1>14. AtInsert'
  <2>1. \A a \in live : heap[a].key # k  BY <1>1, FindsItem
  <2>2. \A a \in live' \ {node'} : heap'[a].key # heap'[node'].key
        BY Zenon, <1>2, <1>6, <1>7, <1>8, <1>9, <1>11, <2>1
  <2>3. /\ node' \in live' /\ tmp' = node' /\ heap'[node'].parent = null
        /\ heap'[node'].left = null /\ heap'[node'].right = null /\ heap'[node'].color = "red"
        BY <1>2, <1>6, <1>7, <1>8
  <2> QED  BY <1>2, <2>2, <2>3 DEF AtInsert, Inserting, Parent, Color
<1>15. AtDelete'  BY <1>2 DEF AtDelete, AtCase, Rebalancing
<1>16. AtRest'
  <2>1. \A a \in Nodes \ live' : heap'[a] = Blank  BY <1>2, <1>3, <1>7, <1>8
  <2> QED  BY <1>1, <1>2, <1>3, <2>1 DEF AtRest, Inserting
<1> QED  BY <1>12, <1>13, <1>14, <1>15, <1>16 DEF IInv

(* addItem() keeps the invariant. *)
LEMMA AddStep ==
  ASSUME IInv, pc = "idle", map, NEW k \in Key, NEW v \in Value, Added(k) \/ Allocate(k, v)
  PROVE  IInv'
<1>1. CASE Added(k)
  <2>1. UNCHANGED <<map, root, heap, live, pc, node, tmp, M>>  BY <1>1 DEF Added
  <2>2. /\ live \subseteq Nodes /\ heap \in Heaps /\ map \in BOOLEAN
        /\ \A a \in Nodes \ live : heap[a] = Blank
        /\ \E U, bh : /\ Tree(heap, live, root, U, bh, null, null, null, null)
                      /\ root # null => heap[root].color # "red"
        BY Rests
  <2> QED  BY <2>1, <2>2, RestStep
<1>2. CASE Allocate(k, v)  BY <1>2, AllocateStep
<1> QED  BY <1>1, <1>2

(* A call keeps the invariant when it changes nothing. *)
LEMMA NothingStep ==
  ASSUME IInv, pc = "idle", UNCHANGED <<map, root, heap, live, pc, node, tmp, M>>
  PROVE  IInv'
BY Rests, RestStep

(* addItem() from createMap() keeps the invariant. *)
LEMMA CreateNextStep == IInv /\ AtCall /\ CreateNext => IInv'
<1> SUFFICES ASSUME IInv, AtCall, CreateNext PROVE IInv'  OBVIOUS
<1>1. /\ pc = "idle" /\ map /\ todo # <<>>
      /\ Added(Head(todo).key) \/ Allocate(Head(todo).key, Head(todo).value)
      BY DEF CreateNext, Called
<1>2. Head(todo) \in Items  BY <1>1 DEF AtCall
<1>3. Head(todo).key \in Key /\ Head(todo).value \in Value  BY <1>2 DEF Items
<1> QED  BY <1>1, <1>3, AddStep

(* A step of something else keeps the invariant. *)
LEMMA StutterStep == IInv /\ UNCHANGED vars => IInv'
<1> SUFFICES ASSUME IInv, UNCHANGED vars PROVE IInv'  OBVIOUS
<1>1. UNCHANGED <<map, root, heap, live, pc, node, tmp, M>>  BY DEF vars
<1>2. PICK top, U, bh : IsTree(top, U, bh)  BY DEF IInv
<1>3. IsTree(top, U, bh)'
  <2>1. Linked' = Linked /\ Short' = Short /\ Leaving' = Leaving /\ Violator' = Violator
        BY <1>1 DEF Linked, Short, Leaving, Violator, Inserting, Rebalancing
  <2> QED  BY <1>1, <1>2, <2>1 DEF IsTree, Color
<1>4. TreeTyped' /\ AtRest'  BY <1>1 DEF IInv, TreeTyped, AtRest, Inserting
<1>5. AtInsert'
  BY Zenon, <1>1 DEF IInv, AtInsert, Inserting, Parent, Color, IsRed, Uncle, Brother, SideOf
<1>6. AtDelete'
  BY Zenon, <1>1 DEF IInv, AtDelete, AtCase, Rebalancing, Parent, Color, IsRed, IsBlack, Brother, SideOf,
              BlackBrother, Leaf
<1> QED  BY <1>3, <1>4, <1>5, <1>6 DEF IInv

(* The invariant holds at the start. *)
LEMMA InitIInv == Init => IInv
<1> SUFFICES ASSUME Init PROVE IInv  OBVIOUS
<1>1. /\ map = FALSE /\ root = null /\ heap = [n \in Nodes |-> Blank] /\ live = {}
      /\ pc = "idle" /\ node = null /\ tmp = null /\ M = null
      BY DEF Init
<1>2. Blank \in [parent : Refs, left : Refs, right : Refs, color : {"red", "black"},
                 key : Key \cup {0}, value : Value \cup {0}]
      BY DEF Blank, Refs
<1>3. heap \in [Nodes -> [parent : Refs, left : Refs, right : Refs, color : {"red", "black"},
                          key : Key \cup {0}, value : Value \cup {0}]]
      BY <1>1, <1>2
<1>4. TreeTyped
  <2>1. null \in Refs /\ pc \in Steps  BY <1>1 DEF Refs, Steps
  <2> QED  BY <1>1, <1>3, <2>1 DEF TreeTyped
<1>5. PICK U, bh : Tree(heap, {}, null, U, bh, null, null, null, null)  BY EmptyTree
<1>6. IsTree(null, U, bh)
  <2>1. Linked = {} /\ Short = null /\ Leaving = null /\ Violator = null
        BY <1>1 DEF Linked, Short, Leaving, Violator, Inserting, Rebalancing
  <2> QED  BY <1>1, <1>5, <2>1 DEF IsTree
<1>7. AtInsert /\ AtDelete  BY <1>1 DEF AtInsert, AtDelete, AtCase, Inserting, Rebalancing
<1>8. AtRest  BY <1>1 DEF AtRest, Inserting
<1> QED  BY <1>4, <1>6, <1>7, <1>8 DEF IInv

(* The steps inside a call keep the invariant. *)
LEMMA InnerSteps == IInv /\ Inner => IInv'
<1> SUFFICES ASSUME IInv, Inner PROVE IInv'  OBVIOUS
<1>1. CASE Insert  BY <1>1, InsertsItem
<1>2. CASE InsertCase1  BY <1>2, InsertCase1Step
<1>3. CASE InsertCase2  BY <1>3, InsertCase2Step
<1>4. CASE InsertCase3  BY <1>4, InsertCase3Step
<1>5. CASE InsertCase4  BY <1>5, InsertCase4Step
<1>6. CASE InsertCase5  BY <1>6, InsertCase5Step
<1>7. CASE DeleteNode  BY <1>7, DeleteNodeStep
<1>8. CASE DeleteTheOnlyChild  BY <1>8, DeleteTheOnlyChildStep
<1>9. CASE Unlink  BY <1>9, UnlinkStep
<1>10. CASE DeleteCase1  BY <1>10, DeleteCase1Step
<1>11. CASE DeleteCase2  BY <1>11, DeleteCase2Step
<1>12. CASE DeleteCase3  BY <1>12, DeleteCase3Step
<1>13. CASE DeleteCase4  BY <1>13, DeleteCase4Step
<1>14. CASE DeleteCase5  BY <1>14, DeleteCase5Step
<1>15. CASE DeleteCase6  BY <1>15, DeleteCase6Step
<1>16. CASE SetTreeRoot  BY <1>16, SetTreeRootStep
<1> QED  BY <1>1, <1>2, <1>3, <1>4, <1>5, <1>6, <1>7, <1>8, <1>9, <1>10, <1>11, <1>12, <1>13,
            <1>14, <1>15, <1>16 DEF Inner

(* The starts of calls keep the invariant. *)
LEMMA InterfaceSteps == IInv /\ AtCall /\ Interface => IInv'
<1> SUFFICES ASSUME IInv, AtCall, Interface PROVE IInv'  OBVIOUS
<1>1. CASE CreateMap  BY <1>1, CreateMapStep
<1>2. CASE CreateFails \/ ClearMap \/ DropMap  BY <1>2, ClearStep
<1>3. CASE DeleteItem
  <2>1. pc = "idle" /\ call.op = "deleteItem"  BY <1>3 DEF DeleteItem, Called
  <2>2. call.key \in Key /\ map  BY <2>1 DEF AtCall, Requests
  <2>3. CASE FindItem(call.key) # null
    <3>1. Call("deleteNode", FindItem(call.key)) /\ UNCHANGED <<map, root, heap, live, tmp, M>>
          BY <1>3, <2>3 DEF DeleteItem
    <3> QED  BY <2>1, <2>2, <2>3, <3>1, DeleteItemStep
  <2>4. CASE FindItem(call.key) = null
    <3>1. UNCHANGED <<map, root, heap, live, pc, node, tmp, M>>  BY <1>3, <2>4 DEF DeleteItem
    <3> QED  BY <2>1, <3>1, NothingStep
  <2> QED  BY <2>3, <2>4
<1>4. CASE AddItem
  <2>1. /\ pc = "idle" /\ call.op = "addItem"
        /\ Added(call.key) \/ Allocate(call.key, call.value)
        BY <1>4 DEF AddItem, Called
  <2>2. call.key \in Key /\ call.value \in Value /\ map  BY <2>1 DEF AtCall, Requests
  <2> QED  BY <2>1, <2>2, AddStep
<1>5. CASE AddFails  BY <1>5, NothingStep DEF AddFails, Called
<1>6. CASE SetValue
  <2>1. /\ pc = "idle" /\ call.op = "setValue" /\ UNCHANGED <<map, root, live, pc, node, tmp, M>>
        BY <1>6 DEF SetValue, Called
  <2>2. call.key \in Key /\ call.value \in Value  BY <2>1 DEF AtCall
  <2>3. CASE FindItem(call.key) # null
    <3>1. heap' = [heap EXCEPT ![FindItem(call.key)].value = call.value]  BY <1>6, <2>3 DEF SetValue
    <3> QED  BY <2>1, <2>2, <2>3, <3>1, SetValueStep
  <2>4. CASE FindItem(call.key) = null
    <3>1. UNCHANGED heap  BY <1>6, <2>4 DEF SetValue
    <3> QED  BY <2>1, <3>1, NothingStep
  <2> QED  BY <2>3, <2>4
<1>7. CASE CreateNext  BY <1>7, CreateNextStep
<1> QED  BY <1>1, <1>2, <1>3, <1>4, <1>5, <1>6, <1>7 DEF Interface

(* The steps inside a call, but the last, neither end nor change it. *)
LEMMA InnerKeepsCall ==
  ASSUME Inner, ~SetTreeRoot
  PROVE  pc # "idle" /\ pc' # "idle" /\ UNCHANGED <<call, todo, map>>
<1>1. CASE Insert \/ InsertCase1 \/ InsertCase2 \/ InsertCase3 \/ InsertCase4 \/ InsertCase5
      BY <1>1 DEF Insert, InsertCase1, InsertCase2, InsertCase3, InsertCase4, InsertCase5, Call, InTree
<1>2. CASE DeleteCase1 \/ DeleteCase2 \/ DeleteCase3 \/ DeleteCase4 \/ DeleteCase5 \/ DeleteCase6
      BY <1>2 DEF DeleteCase1, DeleteCase2, DeleteCase3, DeleteCase4, DeleteCase5, DeleteCase6, Call, InTree
<1>3. CASE DeleteNode \/ DeleteTheOnlyChild \/ Unlink
      BY <1>3 DEF DeleteNode, DeleteTheOnlyChild, Unlink, Call
<1> QED  BY <1>1, <1>2, <1>3 DEF Inner

(* A result is no request. *)
LEMMA ResultsDiffer == Results \cap Requests = {}
BY DEF Results, Requests

(* What a call returns is a result without arguments. *)
LEMMA Returns ==
  ASSUME NEW r \in Results
  PROVE  /\ Returned(r) \in Calls /\ Returned(r).op = r
         /\ r \notin Requests
BY ResultsDiffer DEF Returned, Request, Calls

(* The call returns. *)
LEMMA CallReturns ==
  ASSUME NEW r \in Results, Return(r), todo' = <<>>, pc' = "idle"
  PROVE  AtCall'
<1>1. call' = Returned(r)  BY DEF Return
<1>2. "createMap" \in Requests /\ {"addItem", "setValue", "deleteItem"} \subseteq Requests  BY DEF Requests
<1>3. todo' \in Seq(Items)  OBVIOUS
<1>4. call'.op \notin Requests /\ call' \in Calls  BY <1>1, Returns
<1> QED  BY <1>2, <1>3, <1>4 DEF AtCall

(* The call goes on. *)
LEMMA CallGoesOn ==
  ASSUME AtCall, UNCHANGED call, call.op \in Requests, todo' \in Seq(Items),
         call.op # "createMap" => todo' = todo /\ map',
         pc' # "idle" \/ (call.op = "createMap" /\ todo' # <<>>)
  PROVE  AtCall'
<1>1. call.op \notin Results  BY ResultsDiffer
<1> QED  BY <1>1 DEF AtCall

(* addItem() returns, and createMap() does if it was for the last item. *)
LEMMA ItemDoneStep ==
  ASSUME AtCall, ItemDone, call.op \in Requests, todo' \in Seq(Items), pc' = "idle",
         call.op # "createMap" => todo' = todo /\ map'
  PROVE  AtCall'
<1>1. CASE todo' = <<>>
  <2>1. Return("SUCCESS") /\ "SUCCESS" \in Results  BY <1>1 DEF ItemDone, Results
  <2> QED  BY <1>1, <2>1, CallReturns
<1>2. CASE todo' # <<>>
  <2>1. UNCHANGED call  BY <1>2 DEF ItemDone
  <2>2. call.op = "createMap"  BY <1>2 DEF AtCall
  <2> QED  BY <1>2, <2>1, <2>2, CallGoesOn
<1> QED  BY <1>1, <1>2

(* addItem() for one item, in whatever call. *)
LEMMA AddKeepsCall ==
  ASSUME AtCall, pc = "idle", call.op \in {"addItem", "createMap"}, todo' \in Seq(Items),
         call.op # "createMap" => todo' = todo, NEW k, NEW v, Added(k) \/ Allocate(k, v)
  PROVE  AtCall'
<1>1. call.op \in Requests /\ UNCHANGED map /\ (call.op # "createMap" => map')
      BY DEF Requests, AtCall, Added, Allocate
<1>2. CASE Added(k)
  <2>1. ItemDone /\ pc' = "idle"  BY <1>2 DEF Added
  <2> QED  BY <1>1, <2>1, ItemDoneStep
<1>3. CASE Allocate(k, v)
  <2>1. UNCHANGED call /\ pc' # "idle"  BY <1>3 DEF Allocate, Call
  <2> QED  BY <1>1, <2>1, CallGoesOn
<1> QED  BY <1>2, <1>3

(* What a call does to itself, at its start. *)
LEMMA InterfaceKeepsCall == AtCall /\ Interface => AtCall'
<1> SUFFICES ASSUME AtCall, Interface PROVE AtCall'  OBVIOUS
<1>1. Results = {"SUCCESS", "INVALID_ARG", "LACK_OF_MEMORY"}  BY DEF Results
<1>2. todo \in Seq(Items) /\ (call.op # "createMap" => todo = <<>>)  BY DEF AtCall
<1>3. CASE CreateMap
  <2>1. pc' = "idle" /\ call.op = "createMap" /\ todo' = todo /\ ItemDone
        BY <1>3 DEF CreateMap, Called
  <2> QED  BY <1>2, <2>1, ItemDoneStep DEF Requests
<1>4. CASE CreateNext
  <2>1. /\ pc = "idle" /\ call.op = "createMap" /\ todo # <<>> /\ todo' = Tail(todo)
        /\ Added(Head(todo).key) \/ Allocate(Head(todo).key, Head(todo).value)
        BY <1>4 DEF CreateNext, Called
  <2>2. todo' \in Seq(Items)  BY <1>2, <2>1
  <2> QED  BY <2>1, <2>2, AddKeepsCall
<1>5. CASE AddItem
  <2>1. /\ pc = "idle" /\ call.op = "addItem" /\ todo' = todo
        /\ Added(call.key) \/ Allocate(call.key, call.value)
        BY <1>5 DEF AddItem, Called
  <2> QED  BY <1>2, <2>1, AddKeepsCall
<1>6. CASE CreateFails \/ AddFails
  <2>1. pc' = "idle" /\ todo' = <<>> /\ Return("LACK_OF_MEMORY")
        BY <1>2, <1>6 DEF CreateFails, AddFails, DeleteMap, Called
  <2> QED  BY <1>1, <2>1, CallReturns
<1>7. CASE ClearMap \/ DropMap
  <2>1. pc' = "idle" /\ todo' = <<>> /\ Return("SUCCESS")
        BY <1>2, <1>7 DEF ClearMap, DropMap, DeleteMap, Called
  <2> QED  BY <1>1, <2>1, CallReturns
<1>8. CASE DeleteItem
  <2>1. pc = "idle" /\ call.op = "deleteItem" /\ UNCHANGED <<map, todo>>  BY <1>8 DEF DeleteItem, Called
  <2>2. CASE FindItem(call.key) # null
    <3>1. UNCHANGED call /\ pc' # "idle"  BY <1>8, <2>2 DEF DeleteItem, Call
    <3>2. call.op \in Requests /\ map'  BY <2>1 DEF AtCall, Requests
    <3> QED  BY <1>2, <2>1, <3>1, <3>2, CallGoesOn
  <2>3. CASE FindItem(call.key) = null
    <3>1. pc' = "idle" /\ Return(IF root = null THEN "INVALID_ARG" ELSE "SUCCESS")
          BY <1>8, <2>1, <2>3 DEF DeleteItem
    <3>2. PICK r \in Results : Return(r)  BY <1>1, <3>1
    <3> QED  BY <1>2, <2>1, <3>1, <3>2, CallReturns
  <2> QED  BY <2>2, <2>3
<1>9. CASE SetValue
  <2>1. pc' = "idle" /\ call.op = "setValue" /\ UNCHANGED todo  BY <1>9 DEF SetValue, Called
  <2>2. Return("SUCCESS") \/ Return("INVALID_ARG")  BY <1>9 DEF SetValue
  <2> QED  BY <1>1, <1>2, <2>1, <2>2, CallReturns
<1> QED  BY <1>3, <1>4, <1>5, <1>6, <1>7, <1>8, <1>9 DEF Interface

(* Every step keeps what is known of the calls. *)
LEMMA CallSteps == AtCall /\ [Next]_vars => AtCall'
<1> SUFFICES ASSUME AtCall, [Next]_vars PROVE AtCall'  OBVIOUS
<1>1. CASE Begin
  <2>1. pc' = "idle" /\ UNCHANGED map /\ todo = <<>>
    <3>1. call.op \in Results  BY <1>1 DEF Begin
    <3>2. call.op # "createMap"  BY <3>1 DEF Results
    <3> QED  BY <1>1, <3>2 DEF Begin, AtCall
  <2>2. CASE ~map /\ call' = Request("createMap", 0, 0) /\ todo' \in Data
    <3>1. todo' \in Seq(Items)  BY <2>2, KeyAssumption
    <3>2. call' \in Calls /\ call'.op = "createMap"  BY <2>2 DEF Request, Calls, Requests
    <3> QED  BY <2>1, <2>2, <3>1, <3>2 DEF AtCall, Results
  <2>3. CASE map /\ UNCHANGED todo /\ call' \in {Request("clearMap", 0, 0), Request("deleteMap", 0, 0)}
    <3>1. call' \in Calls /\ call'.op \in {"clearMap", "deleteMap"}  BY <2>3 DEF Request, Calls, Requests
    <3> QED  BY <2>1, <2>3, <3>1 DEF AtCall, Results
  <2>4. ASSUME map, UNCHANGED todo, NEW k \in Key, call' = Request("deleteItem", k, 0)  PROVE AtCall'
    <3>1. call' \in Calls /\ call'.op = "deleteItem" /\ call'.key = k  BY <2>4 DEF Request, Calls, Requests
    <3> QED  BY <2>1, <2>4, <3>1 DEF AtCall, Results
  <2>5. ASSUME map, UNCHANGED todo, NEW k \in Key, NEW v \in Value, NEW op \in {"addItem", "setValue"},
               call' = Request(op, k, v)
        PROVE  AtCall'
    <3>1. call' \in Calls /\ call'.op = op /\ call'.key = k /\ call'.value = v
          BY <2>5 DEF Request, Calls, Requests
    <3> QED  BY <2>1, <2>5, <3>1 DEF AtCall, Results
  <2> QED  BY <1>1, <2>2, <2>3, <2>4, <2>5 DEF Begin
<1>2. CASE Interface  BY <1>2, InterfaceKeepsCall
<1>3. CASE SetTreeRoot
  <2>1. pc # "idle" /\ pc' = "idle" /\ UNCHANGED <<map, todo>> /\ ItemDone  BY <1>3 DEF SetTreeRoot
  <2>2. call.op \in Requests /\ todo \in Seq(Items)  BY <2>1 DEF AtCall, Calls
  <2>3. call.op # "createMap" => map  BY <2>2 DEF AtCall
  <2> QED  BY <2>1, <2>2, <2>3, ItemDoneStep
<1>4. CASE Inner /\ ~SetTreeRoot
  <2>1. pc # "idle" /\ pc' # "idle" /\ UNCHANGED <<call, todo, map>>  BY <1>4, InnerKeepsCall
  <2> QED  BY <2>1 DEF AtCall
<1>5. CASE UNCHANGED vars  BY <1>5 DEF vars, AtCall
<1> QED  BY <1>1, <1>2, <1>3, <1>4, <1>5 DEF Next

(* The inductive invariant holds in every state. *)
LEMMA Invariant == Spec => [](IInv /\ AtCall)
<1>1. IInv /\ AtCall /\ [Next]_vars => (IInv /\ AtCall)'
  <2> SUFFICES ASSUME IInv, AtCall, [Next]_vars PROVE IInv'  BY CallSteps
  <2>1. CASE Begin  BY <2>1, BeginStep
  <2>2. CASE Interface  BY <2>2, InterfaceSteps
  <2>3. CASE Inner  BY <2>3, InnerSteps
  <2>4. CASE UNCHANGED vars  BY <2>4, StutterStep
  <2> QED  BY <2>1, <2>2, <2>3, <2>4 DEF Next
<1>2. Init => AtCall
  <2> SUFFICES ASSUME Init PROVE AtCall  OBVIOUS
  <2>1. call = Returned("SUCCESS") /\ todo = <<>> /\ pc = "idle" /\ todo \in Seq(Items)  BY DEF Init
  <2>2. "SUCCESS" \in Results  BY DEF Results
  <2>3. call \in Calls /\ call.op \notin Requests  BY <2>1, <2>2, Returns
  <2>4. {"createMap", "addItem", "setValue", "deleteItem"} \subseteq Requests  BY DEF Requests
  <2> QED  BY <2>1, <2>3, <2>4 DEF AtCall
<1> QED  BY InitIInv, <1>1, <1>2, PTL DEF Spec

(* Every variable has its type, and findTop() starts from a node that was not *)
(* freed, for all keys, values and numbers of nodes.  RBTree.c, helper.c.     *)
THEOREM TypeCorrect == Spec => []TypeOK
<1>1. IInv /\ AtCall => TypeOK  BY DEF IInv, AtCall, TypeOK
<1> QED  BY Invariant, <1>1, PTL

-----------------------------------------------------------------------------
(***************************************************************************)
(* The properties.                                                         *)
(***************************************************************************)

(* No pointer leads to a node that was freed. *)
LEMMA Pointers ==
  ASSUME IInv, NEW n \in live
  PROVE  {heap[n].parent, heap[n].left, heap[n].right} \subseteq live \cup {null}
<1>1. PICK top, U, bh : IsTree(top, U, bh)  BY DEF IInv
<1>2. Shape(heap, Linked, top, U)  BY <1>1 DEF IsTree, Tree
<1>3. Linked \subseteq live  BY DEF Linked
<1>4. CASE n \in Linked
  <2>1. heap[n].left \in Linked \cup {null} /\ heap[n].right \in Linked \cup {null}
        BY <1>2, <1>4, ShapeAt DEF Child
  <2>2. heap[n].parent \in Linked \cup {null}  BY <1>2, <1>4, OnlyParent
  <2> QED  BY <1>3, <2>1, <2>2
<1>5. CASE n \notin Linked
  <2>1. pc = "insert" /\ n = node  BY <1>5 DEF Linked
  <2> QED  BY <2>1 DEF IInv, AtInsert, Parent
<1> QED  BY <1>4, <1>5

(* What the invariant says of the pointers that are followed. *)
LEMMA NoNull == IInv => NoNullAccess
<1> SUFFICES ASSUME IInv PROVE NoNullAccess  OBVIOUS
<1>1. \A n \in live : {heap[n].parent, heap[n].left, heap[n].right} \subseteq live \cup {null}
      BY Pointers
<1>2. pc = "insert_case2" => Parent(node) # null  BY DEF IInv, AtInsert, Inserting
<1>3. ASSUME pc \in {"insert_case3", "insert_case4", "insert_case5"} PROVE HasGrandparent(node)
  <2>1. Inserting  BY <1>3 DEF Inserting
  <2>2. heap[node].parent \in live /\ heap[heap[node].parent].parent \in live  BY <1>3, <2>1, Family
  <2> QED  BY <2>2, Heap DEF HasGrandparent, Grandparent, Parent
<1>4. ASSUME pc = "deleteTheOnlyChild"
      PROVE  \/ Leaf(node)
             \/ heap[node].left = null /\ heap[node].right # null /\ Parent(node) # null
      BY <1>4 DEF IInv, AtDelete
<1>5. ASSUME pc \in {"delete_case2", "delete_case3", "delete_case4", "delete_case5", "delete_case6"}
      PROVE  HasBrother(node)
  <2>1. Rebalancing /\ pc # "delete_case1"  BY <1>5 DEF Rebalancing
  <2>2. heap[node].parent \in live /\ Brother(node) \in live  BY Zenon, <2>1, Siblings
  <2> QED  BY <2>2, Heap DEF HasBrother, Parent
<1>6. pc = "delete_case6" => heap[Brother(node)][Other(SideOf(node))] # null
      BY DEF IInv, AtDelete, AtCase, IsRed
<1> QED  BY <1>1, <1>2, <1>3, <1>4, <1>5, <1>6 DEF NoNullAccess

(* No function follows a null pointer: grandparent, uncle, brother and its outer *)
(* child are there wherever the code takes them for granted, for every tree.     *)
(* helper.c:159-172, 208-247, 374, 410-447, 501-515.                             *)
THEOREM NoNullAccessHolds == Spec => []NoNullAccess
BY Invariant, NoNull, PTL

(* What the invariant says of the tree between two calls. *)
LEMMA WellFormedTree == IInv => WellFormed
<1> SUFFICES ASSUME IInv, pc = "idle"
             PROVE  /\ live = Under(root)
                    /\ root # null => Color(root) = "black" /\ Parent(root) = null
                    /\ \A n \in live :
                         /\ \A side \in Child : heap[n][side] # null =>
                              /\ Parent(heap[n][side]) = n
                              /\ Color(n) = "red" => Color(heap[n][side]) = "black"
                         /\ \A m \in Under(heap[n].left) : heap[m].key < heap[n].key
                         /\ \A m \in Under(heap[n].right) : heap[m].key > heap[n].key
                    /\ Cardinality(BlackHeights(root)) = 1
    BY DEF WellFormed
<1>0. /\ heap \in Heaps /\ null \notin live /\ Outside(heap, live) /\ live \subseteq Nodes
      /\ \A a \in Nodes, s \in Child : heap[a][s] \in Refs
      /\ \E U, bh : /\ Tree(heap, live, root, U, bh, null, null, null, null)
                    /\ root # null => heap[root].color # "red"
      BY Rests
<1>1. PICK U, bh : /\ Tree(heap, live, root, U, bh, null, null, null, null)
                   /\ root # null => heap[root].color # "red"
      BY <1>0
<1>2. /\ Shape(heap, live, root, U) /\ Sorted(heap, live, U, null)
      /\ Balanced(heap, live, bh, null, null) /\ Colored(heap, live, null)
      BY <1>1 DEF Tree
<1>3. root \in live \cup {null}  BY <1>2 DEF Shape
<1>4. root # null => Color(root) = "black" /\ Parent(root) = null
  <2> SUFFICES ASSUME root # null PROVE Color(root) = "black" /\ Parent(root) = null  OBVIOUS
  <2>1. root \in live /\ root \in Nodes  BY <1>0, <1>3
  <2>2. heap[root].color \in {"red", "black"} /\ heap[root].parent = null
        BY <1>0, <1>2, <2>1, HeapFields, OnlyParent
  <2> QED  BY <1>1, <2>2 DEF Color, Parent
<1>5. \A n \in live \cup {null} : Under(n) = U[n]  BY <1>0, <1>2, UnderIsSubtree
<1>6. ASSUME NEW n \in live, NEW side \in Child
      PROVE  /\ heap[n][side] # null =>
                  /\ Parent(heap[n][side]) = n
                  /\ Color(n) = "red" => Color(heap[n][side]) = "black"
             /\ \A m \in Under(heap[n][side]) : Lesser(side, heap[m].key, heap[n].key)
  <2>1. heap[n][side] \in live \cup {null} /\ (heap[n][side] # null => heap[heap[n][side]].parent = n)
        BY <1>2, ShapeAt
  <2>2. heap[n][side] # null /\ heap[n].color = "red" => heap[heap[n][side]].color = "black"
        BY <1>2 DEF Colored
  <2>3. ASSUME NEW m \in Under(heap[n][side]) PROVE Lesser(side, heap[m].key, heap[n].key)
    <3>1. m \in U[heap[n][side]] /\ m \in live  BY <1>2, <1>5, <2>1, <2>3, ShapeAt
    <3>2. n # null /\ m # null  BY <1>0, <3>1
    <3> QED  BY <1>2, <3>1, <3>2 DEF Sorted
  <2> QED  BY <2>1, <2>2, <2>3 DEF Parent, Color
<1>7. ASSUME NEW n \in live
      PROVE  /\ \A m \in Under(heap[n].left) : heap[m].key < heap[n].key
             /\ \A m \in Under(heap[n].right) : heap[m].key > heap[n].key
  <2>1. "left" \in Child /\ "right" \in Child  BY DEF Child
  <2>2. /\ \A m \in Under(heap[n]["left"]) : Lesser("left", heap[m].key, heap[n].key)
        /\ \A m \in Under(heap[n]["right"]) : Lesser("right", heap[m].key, heap[n].key)
        BY <1>6, <2>1
  <2> QED  BY <2>2 DEF Lesser
<1>8. Cardinality(BlackHeights(root)) = 1
  <2>1. BlackHeights(root) = {bh[root]}  BY <1>0, <1>2, <1>3, HeightsAreOne
  <2> QED  BY <2>1, FS_Singleton
<1> QED  BY <1>4, <1>6, <1>7, <1>8, UnderRoot

(* Between two calls the map is a red-black search tree that holds all nodes there *)
(* are, for every sequence of calls, with any keys.  RBTree.c, helper.c.           *)
THEOREM WellFormedHolds == Spec => []WellFormed
BY Invariant, WellFormedTree, PTL

-----------------------------------------------------------------------------
(***************************************************************************)
(* The dictionary.                                                         *)
(***************************************************************************)

(* f is the dictionary that the nodes L of h hold. *)
Holds(h, L, f) ==
  /\ f = [k \in DOMAIN f |-> f[k]]
  /\ \A k : k \in DOMAIN f <=> \E n \in L : h[n].key = k
  /\ \A n \in L : f[h[n].key] = h[n].value

ContentOf(h, L) == [k \in {h[n].key : n \in L} |-> h[CHOOSE n \in L : h[n].key = k].value]
OneValue(h, L) == \A a, b \in L : h[a].key = h[b].key => h[a].value = h[b].value
SameItem(h, g, n) == g[n].key = h[n].key /\ g[n].value = h[n].value

(* Content is the dictionary that the nodes hold. *)
LEMMA HoldsContent ==
  ASSUME NEW h, NEW L, OneValue(h, L)
  PROVE  Holds(h, L, ContentOf(h, L))
<1> DEFINE f == ContentOf(h, L)
           D == {h[n].key : n \in L}
           pick(k) == CHOOSE n \in L : h[n].key = k
<1>1. f = [k \in D |-> h[pick(k)].value]  BY DEF ContentOf
<1>2. \A k \in D : pick(k) \in L /\ h[pick(k)].key = k  OBVIOUS
<1> HIDE DEF pick
<1>3. DOMAIN f = D /\ \A k \in D : f[k] = h[pick(k)].value  BY <1>1
<1>4. f = [k \in DOMAIN f |-> f[k]]  BY <1>1
<1> HIDE DEF f
<1>5. \A k : k \in DOMAIN f <=> \E n \in L : h[n].key = k  BY <1>3
<1>6. \A n \in L : f[h[n].key] = h[n].value
  <2> TAKE n \in L
  <2>1. h[n].key \in D  OBVIOUS
  <2>2. pick(h[n].key) \in L /\ h[pick(h[n].key)].key = h[n].key  BY <1>2, <2>1
  <2>3. h[pick(h[n].key)].value = h[n].value  BY <2>2 DEF OneValue
  <2> QED  BY <1>3, <2>1, <2>3
<1>7. Holds(h, L, f)  BY <1>4, <1>5, <1>6 DEF Holds
<1> QED  BY <1>7 DEF f

(* Nodes hold one dictionary. *)
LEMMA HeldOnce ==
  ASSUME NEW h, NEW L, NEW f, NEW g, Holds(h, L, f), Holds(h, L, g)
  PROVE  f = g
<1>1. DOMAIN f = DOMAIN g  BY DEF Holds
<1>2. \A k \in DOMAIN f : f[k] = g[k]
  <2> TAKE k \in DOMAIN f
  <2>1. PICK n \in L : h[n].key = k  BY DEF Holds
  <2> QED  BY <2>1 DEF Holds
<1>3. f = [k \in DOMAIN f |-> f[k]] /\ g = [k \in DOMAIN g |-> g[k]]  BY DEF Holds
<1> QED  BY <1>1, <1>2, <1>3

(* Nodes with the same items hold the same dictionary. *)
LEMMA HoldsSame ==
  ASSUME NEW h, NEW g, NEW L, NEW f, Holds(h, L, f), \A n \in L : SameItem(h, g, n)
  PROVE  Holds(g, L, f)
BY DEF Holds, SameItem

Plus(f, k, v) == [j \in DOMAIN f \cup {k} |-> IF j = k THEN v ELSE f[j]]

(* The items of L and q under g are those of L under h, and v for a new key k. *)
Gains(h, g, L, q, k, v) ==
  /\ \A n \in L : SameItem(h, g, n) /\ h[n].key # k
  /\ g[q].key = k /\ g[q].value = v

(* A node with a new key adds it. *)
LEMMA HoldsAdd ==
  ASSUME NEW h, NEW g, NEW L, NEW f, Holds(h, L, f), NEW q, NEW k, NEW v, Gains(h, g, L, q, k, v),
         NEW e, e = Plus(f, k, v)
  PROVE  k \notin DOMAIN f /\ Holds(g, L \cup {q}, e)
<1>2. DOMAIN e = DOMAIN f \cup {k} /\ e[k] = v /\ \A j \in DOMAIN f : j # k => e[j] = f[j]
      BY DEF Plus
<1>3. k \notin DOMAIN f  BY DEF Holds, Gains
<1>4. e = [j \in DOMAIN e |-> e[j]]  BY DEF Plus
<1>5. \A j : j \in DOMAIN e <=> \E n \in L \cup {q} : g[n].key = j
      BY <1>2 DEF Holds, Gains, SameItem
<1>6. ASSUME NEW n \in L \cup {q} PROVE e[g[n].key] = g[n].value
  <2>1. CASE n = q  BY <1>2, <2>1 DEF Gains
  <2>2. CASE n \in L
    <3>1. h[n].key \in DOMAIN f /\ f[h[n].key] = h[n].value  BY <2>2 DEF Holds
    <3> QED  BY <1>2, <2>2, <3>1 DEF Gains, SameItem
  <2> QED  BY <2>1, <2>2
<1> QED  BY <1>3, <1>4, <1>5, <1>6 DEF Holds

(* A new value for one node is a new value for its key. *)
LEMMA HoldsSet ==
  ASSUME NEW h, NEW g, NEW L, NEW f, Holds(h, L, f), NEW n \in L, NEW v,
         \A a \in L : a # n => SameItem(h, g, a) /\ h[a].key # h[n].key,
         g[n].key = h[n].key, g[n].value = v
  PROVE  h[n].key \in DOMAIN f /\ Holds(g, L, [f EXCEPT ![h[n].key] = v])
<1>1. PICK k, e : k = h[n].key /\ e = [f EXCEPT ![k] = v]  OBVIOUS
<1>2. k \in DOMAIN f  BY <1>1 DEF Holds
<1>3. /\ DOMAIN e = DOMAIN f /\ e[k] = v /\ (\A j \in DOMAIN f : j # k => e[j] = f[j])
      /\ e = [j \in DOMAIN e |-> e[j]]
      BY <1>1, <1>2
<1>4. \A j : j \in DOMAIN e <=> \E a \in L : g[a].key = j
      BY <1>3 DEF Holds, SameItem
<1>5. ASSUME NEW a \in L PROVE e[g[a].key] = g[a].value
  <2>1. CASE a = n  BY <1>1, <1>3, <2>1
  <2>2. CASE a # n
    <3>1. h[a].key \in DOMAIN f /\ f[h[a].key] = h[a].value  BY DEF Holds
    <3> QED  BY <1>1, <1>3, <2>2, <3>1 DEF SameItem
  <2> QED  BY <2>1, <2>2
<1>6. Holds(g, L, e)  BY <1>3, <1>4, <1>5 DEF Holds
<1> QED  BY <1>1, <1>2, <1>6

(* The items of K under g are those of L under h but for that of k. *)
Loses(h, g, L, K, k) ==
  /\ \A n \in K : \E m \in L : /\ h[m].key # k
                               /\ g[n].key = h[m].key /\ g[n].value = h[m].value
  /\ \A m \in L : h[m].key # k => \E n \in K : g[n].key = h[m].key

(* Nodes without the items of a key hold the dictionary without it. *)
LEMMA HoldsRemove ==
  ASSUME NEW h, NEW g, NEW L, NEW K, NEW f, Holds(h, L, f), NEW k, Loses(h, g, L, K, k)
  PROVE  Holds(g, K, Dict!Restrict(f, DOMAIN f \ {k}))
<1>1. PICK e : e = Dict!Restrict(f, DOMAIN f \ {k})  OBVIOUS
<1>2. /\ DOMAIN e = DOMAIN f \ {k} /\ (\A j \in DOMAIN e : e[j] = f[j])
      /\ e = [j \in DOMAIN e |-> e[j]]
      BY <1>1 DEF Dict!Restrict
<1>3. ASSUME NEW j PROVE j \in DOMAIN e <=> \E n \in K : g[n].key = j
  <2>1. ASSUME j \in DOMAIN e PROVE \E n \in K : g[n].key = j
    <3>1. j \in DOMAIN f /\ j # k  BY <1>2, <2>1
    <3>2. PICK m \in L : h[m].key = j  BY <3>1 DEF Holds
    <3> QED  BY <3>1, <3>2 DEF Loses
  <2>2. ASSUME NEW n \in K, g[n].key = j PROVE j \in DOMAIN e
    <3>1. PICK m \in L : h[m].key # k /\ g[n].key = h[m].key  BY DEF Loses
    <3>2. h[m].key \in DOMAIN f  BY DEF Holds
    <3> QED  BY <1>2, <2>2, <3>1, <3>2
  <2> QED  BY <2>1, <2>2
<1>4. ASSUME NEW n \in K PROVE e[g[n].key] = g[n].value
  <2>1. PICK m \in L : h[m].key # k /\ g[n].key = h[m].key /\ g[n].value = h[m].value
        BY DEF Loses
  <2>2. h[m].key \in DOMAIN f /\ f[h[m].key] = h[m].value  BY DEF Holds
  <2>3. h[m].key \in DOMAIN e  BY <1>2, <2>1, <2>2
  <2> QED  BY <1>2, <2>1, <2>2, <2>3
<1>5. Holds(g, K, e)  BY <1>2, <1>3, <1>4 DEF Holds
<1> QED  BY <1>1, <1>5

(* The items of h, whatever the links. *)
Fit(h) == DOMAIN h = Nodes /\ \A m \in Nodes : "key" \in DOMAIN h[m] /\ "value" \in DOMAIN h[m]
Alike(h, g) == Fit(g) /\ \A m \in Nodes : SameItem(h, g, m)

(* Items kept twice are kept. *)
LEMMA AlikeTransitive ==
  ASSUME NEW h, NEW g, NEW k, Alike(h, g), Alike(g, k)
  PROVE  Alike(h, k)
BY DEF Alike, SameItem

(* A link or color that is set keeps the items. *)
LEMMA LinkKeepsItems ==
  ASSUME NEW h, Fit(h), NEW n, NEW s \in {"left", "right", "parent", "color"}, NEW c,
         NEW g, g = [h EXCEPT ![n][s] = c]
  PROVE  Alike(h, g)
<1>2. s # "key" /\ s # "value"  OBVIOUS
<1>3. DOMAIN g = DOMAIN h /\ \A m \in DOMAIN h : g[m] = IF m = n THEN [h[n] EXCEPT ![s] = c] ELSE h[m]
      OBVIOUS
<1>4. ASSUME NEW m \in Nodes
      PROVE "key" \in DOMAIN g[m] /\ "value" \in DOMAIN g[m] /\ SameItem(h, g, m)
  <2>1. CASE m = n
    <3>1. g[m] = [h[m] EXCEPT ![s] = c]  BY <1>3, <2>1 DEF Fit
    <3>2. "key" \in DOMAIN h[m] /\ "value" \in DOMAIN h[m]  BY DEF Fit
    <3> QED  BY <1>2, <3>1, <3>2 DEF SameItem
  <2>2. CASE m # n  BY <1>3, <2>2 DEF Fit, SameItem
  <2> QED  BY <2>1, <2>2
<1> QED  BY <1>3, <1>4 DEF Alike, Fit

(* The two ways to write a field. *)
LEMMA DotIsApply ==
  \A h, n, c : /\ [h EXCEPT ![n].color = c] = [h EXCEPT ![n]["color"] = c]
               /\ [h EXCEPT ![n].parent = c] = [h EXCEPT ![n]["parent"] = c]
OBVIOUS

(* Painting keeps the items. *)
LEMMA PaintKeepsItems ==
  ASSUME NEW h, Fit(h), NEW n, NEW c, NEW g, g = Paint(h, n, c)
  PROVE  Alike(h, g)
<1>1. g = [h EXCEPT ![n]["color"] = c]  BY DotIsApply DEF Paint
<1> QED  BY <1>1, LinkKeepsItems

(* A heap has its own items. *)
LEMMA Reflexive == \A h : Fit(h) => Alike(h, h)
BY DEF Alike, SameItem

(* Hang() keeps the items. *)
LEMMA HangKeepsItems ==
  ASSUME NEW h, Fit(h), NEW n, NEW c, NEW g, g = Hang(h, n, c)
  PROVE  Alike(h, g)
<1>1. CASE h[n].parent = null  BY <1>1, Reflexive DEF Hang
<1>2. CASE h[n].parent # null
  <2>1. PICK p, s : p = h[n].parent /\ s = IF h[p].left = n THEN "left" ELSE "right"  OBVIOUS
  <2>2. g = [h EXCEPT ![p][s] = c]  BY <1>2, <2>1 DEF Hang
  <2> QED  BY <2>1, <2>2, LinkKeepsItems
<1> QED  BY <1>1, <1>2

(* A rotation keeps the items. *)
LEMMA RotateKeepsItems ==
  ASSUME NEW h, Fit(h), NEW n, NEW side \in Child, NEW g, g = Rotate(h, n, side)
  PROVE  Alike(h, g)
<1>1. PICK pivot, inner : pivot = h[n][Other(side)] /\ inner = h[pivot][side]  OBVIOUS
<1>2. PICK a : a = Hang(h, n, pivot)  OBVIOUS
<1>3. PICK b : b = [a EXCEPT ![pivot]["parent"] = h[n].parent]  OBVIOUS
<1>4. PICK c : c = IF inner = null THEN b ELSE [b EXCEPT ![inner]["parent"] = n]  OBVIOUS
<1>5. PICK d : d = [c EXCEPT ![n][Other(side)] = inner]  OBVIOUS
<1>6. PICK e : e = [d EXCEPT ![n]["parent"] = pivot]  BY Zenon
<1>7. g = [e EXCEPT ![pivot][side] = n]
  BY Zenon, <1>1, <1>2, <1>3, <1>4, <1>5, <1>6 DEF Rotate
<1>8. Alike(h, a)  BY <1>2, HangKeepsItems
<1>9. Alike(a, b)  BY <1>3, <1>8, LinkKeepsItems DEF Alike
<1>10. Alike(b, c)
  <2>1. CASE inner = null  BY <1>4, <1>9, <2>1, Reflexive DEF Alike
  <2>2. CASE inner # null  BY <1>4, <1>9, <2>2, LinkKeepsItems DEF Alike
  <2> QED  BY <2>1, <2>2
<1>11. Other(side) \in {"left", "right", "parent", "color"} /\ side \in {"left", "right", "parent", "color"}
       BY DEF Child, Other
<1>12. Alike(c, d)
  <2>1. Fit(c)  BY <1>10 DEF Alike
  <2> QED  BY <1>5, <1>11, <2>1, LinkKeepsItems
<1>13. Alike(d, e)  BY <1>6, <1>12, LinkKeepsItems DEF Alike
<1>14. Alike(e, g)
  <2>1. Fit(e)  BY <1>13 DEF Alike
  <2> QED  BY <1>7, <1>11, <2>1, LinkKeepsItems
<1> QED  BY <1>8, <1>9, <1>10, <1>12, <1>13, <1>14, AlikeTransitive

(* A side is left or right. *)
LEMMA SideIsChild == \A n : SideOf(n) \in Child /\ Other(SideOf(n)) \in Child
BY DEF SideOf, Child, Other

(* The nodes have keys and values. *)
LEMMA HeapFits == heap \in Heaps => Fit(heap)
BY DEF Heaps, Fit

(* The steps that only move nodes and paint them. *)
LEMMA InTreeKeepsItems ==
  ASSUME heap \in Heaps,
         \/ Insert \/ InsertCase1 \/ InsertCase2 \/ InsertCase3 \/ InsertCase4 \/ InsertCase5
         \/ DeleteCase1 \/ DeleteCase2 \/ DeleteCase3 \/ DeleteCase4 \/ DeleteCase5 \/ DeleteCase6
  PROVE  Alike(heap, heap') /\ UNCHANGED <<map, live>>
<1>0. UNCHANGED <<map, live>>
  BY DEF Insert, InsertCase1, InsertCase2, InsertCase3, InsertCase4, InsertCase5, DeleteCase1,
         DeleteCase2, DeleteCase3, DeleteCase4, DeleteCase5, DeleteCase6, InTree
<1> SUFFICES Alike(heap, heap')  BY <1>0
<1>1. Fit(heap)  BY HeapFits
<1>2. Alike(heap, heap)  BY <1>1, Reflexive
<1>3. ASSUME NEW h, Alike(heap, h), NEW n, NEW c, NEW g, g = Paint(h, n, c) PROVE Alike(heap, g)
  <2>1. Alike(h, g)  BY <1>3, PaintKeepsItems DEF Alike
  <2> QED  BY <1>3, <2>1, AlikeTransitive
<1>4. ASSUME NEW h, Alike(heap, h), NEW n, NEW side \in Child, NEW g, g = Rotate(h, n, side)
      PROVE  Alike(heap, g)
  <2>1. Alike(h, g)  BY <1>4, RotateKeepsItems DEF Alike
  <2> QED  BY <1>4, <2>1, AlikeTransitive
<1>5. CASE Insert
  <2>1. PICK p : p = FindParent(heap[node].key)  OBVIOUS
  <2>2. PICK h : h = [heap EXCEPT ![node]["parent"] = p]  OBVIOUS
  <2>3. Alike(heap, h)  BY <1>1, <2>2, LinkKeepsItems
  <2>4. h = [heap EXCEPT ![node].parent = p]  BY <2>2, DotIsApply
  <2>5. CASE p = null  BY <1>5, <2>1, <2>3, <2>4, <2>5 DEF Insert
  <2>6. CASE p # null
    <3>1. PICK s : s = IF h[p].key > h[node].key THEN "left" ELSE "right"  OBVIOUS
    <3>2. heap' = [h EXCEPT ![p][s] = node]  BY <1>5, <2>1, <2>4, <2>6, <3>1 DEF Insert
    <3>3. Alike(h, heap')  BY <2>3, <3>1, <3>2, LinkKeepsItems DEF Alike
    <3> QED  BY <2>3, <3>3, AlikeTransitive
  <2> QED  BY <2>5, <2>6
<1>6. CASE InsertCase1
  <2>1. PICK g : g = Paint(heap, node, "black")  OBVIOUS
  <2>2. Alike(heap, g)  BY <1>2, <1>3, <2>1
  <2>3. heap' = g \/ heap' = heap  BY <1>6, <2>1 DEF InsertCase1
  <2> QED  BY <1>2, <2>2, <2>3
<1>7. CASE InsertCase2 \/ DeleteCase1
  <2>1. heap' = heap  BY <1>7 DEF InsertCase2, DeleteCase1
  <2> QED  BY <1>2, <2>1
<1>8. CASE InsertCase3
  <2>1. PICK f : f = Paint(heap, Parent(node), "black")  OBVIOUS
  <2>2. PICK g : g = Paint(f, Uncle(node), "black")  OBVIOUS
  <2>3. PICK k : k = Paint(g, Grandparent(node), "red")  OBVIOUS
  <2>4. heap' = k \/ heap' = heap  BY <1>8, <2>1, <2>2, <2>3 DEF InsertCase3
  <2> QED  BY <1>2, <1>3, <2>1, <2>2, <2>3, <2>4
<1>9. CASE InsertCase4
  <2>1. PICK s : s = SideOf(Parent(node))  OBVIOUS
  <2>2. PICK g : g = Rotate(heap, Parent(node), s)  OBVIOUS
  <2>3. heap' = g \/ heap' = heap  BY <1>9, <2>1, <2>2 DEF InsertCase4
  <2>4. Alike(heap, g)  BY <1>2, <1>4, <2>1, <2>2, SideIsChild
  <2> QED  BY <1>2, <2>3, <2>4
<1>10. CASE InsertCase5
  <2>1. PICK f : f = Paint(heap, Parent(node), "black")  OBVIOUS
  <2>2. PICK g : g = Paint(f, Grandparent(node), "red")  OBVIOUS
  <2>3. PICK s : s = Other(SideOf(node))  OBVIOUS
  <2>4. heap' = Rotate(g, Grandparent(node), s)  BY <1>10, <2>1, <2>2, <2>3 DEF InsertCase5
  <2>5. Alike(heap, g)  BY <1>2, <1>3, <2>1, <2>2
  <2> QED  BY <1>4, <2>3, <2>4, <2>5, SideIsChild
<1>11. CASE DeleteCase2
  <2>1. PICK f : f = Paint(heap, Parent(node), "red")  OBVIOUS
  <2>2. PICK g : g = Paint(f, Brother(node), "black")  OBVIOUS
  <2>3. PICK s : s = SideOf(node)  OBVIOUS
  <2>4. heap' = Rotate(g, Parent(node), s) \/ heap' = heap  BY <1>11, <2>1, <2>2, <2>3 DEF DeleteCase2
  <2>5. Alike(heap, g)  BY <1>2, <1>3, <2>1, <2>2
  <2> QED  BY <1>2, <1>4, <2>3, <2>4, <2>5, SideIsChild
<1>12. CASE DeleteCase3
  <2>1. PICK g : g = Paint(heap, Brother(node), "red")  OBVIOUS
  <2>2. heap' = g \/ heap' = heap  BY <1>12, <2>1 DEF DeleteCase3
  <2> QED  BY <1>2, <1>3, <2>1, <2>2
<1>13. CASE DeleteCase4
  <2>1. PICK f : f = Paint(heap, Brother(node), "red")  OBVIOUS
  <2>2. PICK g : g = Paint(f, Parent(node), "black")  OBVIOUS
  <2>3. heap' = g \/ heap' = heap  BY <1>13, <2>1, <2>2 DEF DeleteCase4
  <2> QED  BY <1>2, <1>3, <2>1, <2>2, <2>3
<1>14. CASE DeleteCase5
  <2>1. PICK b, s : b = Brother(node) /\ s = SideOf(node)  OBVIOUS
  <2>2. PICK f : f = Paint(heap, b, "red")  OBVIOUS
  <2>3. PICK g : g = Paint(f, heap[b][s], "black")  OBVIOUS
  <2>4. heap' = Rotate(g, b, Other(s)) \/ heap' = heap
        BY <1>14, <2>1, <2>2, <2>3 DEF DeleteCase5
  <2>5. Alike(heap, g)  BY <1>2, <1>3, <2>2, <2>3
  <2>6. Other(s) \in Child  BY <2>1, SideIsChild
  <2> QED  BY <1>2, <1>4, <2>4, <2>5, <2>6
<1>15. CASE DeleteCase6
  <2>1. PICK b, p, s : b = Brother(node) /\ p = Parent(node) /\ s = SideOf(node)  OBVIOUS
  <2>2. PICK f : f = Paint(heap, b, Color(p))  OBVIOUS
  <2>3. PICK g : g = Paint(f, p, "black")  OBVIOUS
  <2>4. PICK k : k = Paint(g, heap[b][Other(s)], "black")  OBVIOUS
  <2>5. heap' = Rotate(k, p, s)  BY <1>15, <2>1, <2>2, <2>3, <2>4 DEF DeleteCase6
  <2>6. Alike(heap, g)  BY <1>2, <1>3, <2>2, <2>3
  <2>7. Alike(heap, k)  BY <1>3, <2>4, <2>6
  <2>8. s \in Child  BY <2>1, SideIsChild
  <2> QED  BY <1>4, <2>5, <2>7, <2>8
<1> QED  BY <1>5, <1>6, <1>7, <1>8, <1>9, <1>10, <1>11, <1>12, <1>13, <1>14, <1>15

(* When M is in the tree it is about to be taken out, and has at most one child. *)
LEMMA TakenOut ==
  ASSUME IInv, M \in Linked
  PROVE  /\ M \in live /\ live = Linked
         /\ pc \in {"deleteTheOnlyChild", "unlink"} \/ Rebalancing
         /\ \E s \in Child : heap[M][s] = null
<1>1. M \in live /\ M # null  BY Heap DEF Linked
<1>2. pc \notin {"idle", "insert", "deleteNode", "setTreeRoot"} /\ ~Inserting
      BY <1>1 DEF IInv, AtRest
<1>3. pc \in {"deleteTheOnlyChild", "unlink"} \/ Rebalancing
      BY <1>2 DEF IInv, TreeTyped, Steps, Inserting, Rebalancing
<1>4. heap[M].left = null  BY <1>3 DEF IInv, AtDelete, Leaf
<1>5. live = Linked  BY <1>2 DEF Linked
<1>6. "left" \in Child /\ heap[M]["left"] = null  BY <1>4 DEF Child
<1> QED  BY <1>1, <1>3, <1>5, <1>6

(* Two nodes in the tree have different keys, unless one of them is about to be *)
(* taken out.                                                                   *)
LEMMA KeysApart ==
  ASSUME IInv, NEW a \in Linked, a # M, NEW b \in Linked, b # M, a # b
  PROVE  heap[a].key # heap[b].key
<1>1. PICK top, U, bh : IsTree(top, U, bh)  BY DEF IInv
<1>2. Shape(heap, Linked, top, U) /\ Sorted(heap, Linked, U, M)  BY <1>1 DEF IsTree, Tree
<1>3. \A n \in Linked : heap[n].key \in Int  BY Heap DEF Linked
<1>4. M \in Linked => \E s \in Child : heap[M][s] = null  BY TakenOut
<1>5. a \in Linked \ {M} /\ b \in Linked \ {M}  OBVIOUS
<1> QED  BY <1>2, <1>3, <1>4, <1>5, KeysDiffer

(* Nodes with the same key have the same value. *)
LEMMA OneItemEach == IInv => OneValue(heap, live)
<1> SUFFICES ASSUME IInv, NEW a \in live, NEW b \in live, heap[a].key = heap[b].key, a # b
             PROVE  heap[a].value = heap[b].value
    BY DEF OneValue
<1>1. CASE M \in Linked
  <2>1. /\ M \in live /\ live = Linked
        /\ pc \in {"deleteTheOnlyChild", "unlink"} \/ Rebalancing
        BY <1>1, TakenOut
  <2>2. a = M \/ b = M  BY <2>1, KeysApart
  <2>3. \A n \in live : heap[n].key = heap[M].key => heap[n].value = heap[M].value
        BY <2>1 DEF IInv, AtDelete
  <2> QED  BY <2>2, <2>3
<1>2. CASE M \notin Linked
  <2>1. a \in Linked /\ b \in Linked => FALSE  BY <1>2, KeysApart
  <2>2. pc = "insert" /\ (a = node \/ b = node)  BY <2>1 DEF Linked
  <2>3. \A n \in live \ {node} : heap[n].key # heap[node].key  BY <2>2 DEF IInv, AtInsert
  <2> QED  BY <2>2, <2>3
<1> QED  BY <1>1, <1>2

HoldsNow == Holds(heap, live, Content)

(* The nodes hold Content. *)
LEMMA ContentHeld == IInv => HoldsNow
<1> SUFFICES ASSUME IInv PROVE HoldsNow  OBVIOUS
<1>1. Content = ContentOf(heap, live)  BY DEF Content, ContentOf
<1>2. Holds(heap, live, ContentOf(heap, live))  BY OneItemEach, HoldsContent
<1> QED  BY <1>1, <1>2 DEF HoldsNow

(* They do so after a step. *)
LEMMA ContentHeldNext == IInv' => HoldsNow'
BY ContentHeld, PTL

DictStep == Dict!DictNext \/ UNCHANGED <<map, Content, Outcome, todo>>

(* A step after which the nodes hold f leads to f. *)
LEMMA NextContent ==
  ASSUME IInv', NEW f, Holds(heap', live', f)
  PROVE  Content' = f
<1>1. Holds(heap', live', Content')  BY ContentHeldNext DEF HoldsNow
<1> QED  BY <1>1, HeldOnce

(* A step that keeps the items keeps the content. *)
LEMMA KeptItems ==
  ASSUME IInv, IInv', KeysReal, UNCHANGED live, \A n \in live : SameItem(heap, heap', n)
  PROVE  Content' = Content /\ KeysReal' /\ \A k : HasKey(k)' <=> HasKey(k)
<1>1. Holds(heap, live, Content)  BY ContentHeld DEF HoldsNow
<1>2. Holds(heap', live', Content)
  <2>1. Holds(heap', live, Content)  BY <1>1, HoldsSame
  <2> QED  BY <2>1
<1>3. Content' = Content  BY <1>2, NextContent
<1>4. KeysReal'  BY DEF KeysReal, SameItem
<1>5. \A k : HasKey(k)' <=> HasKey(k)  BY DEF HasKey, SameItem
<1> QED  BY <1>3, <1>4, <1>5

(* The keys of the content are those of the nodes. *)
LEMMA KeysOfContent == IInv => \A k : k \in DOMAIN Content <=> HasKey(k)
BY ContentHeld DEF HoldsNow, Holds, HasKey

(* A call that is only begun, or has returned, is the same for the dictionary. *)
LEMMA NotBegun == /\ pc = "idle" => Outcome = call
                  /\ pc' = "idle" => Outcome' = call'
BY DEF Outcome, Effective

(* Both modules write calls and results alike. *)
LEMMA SameResults ==
  /\ \A op, k, v : Dict!Request(op, k, v) = Request(op, k, v)
  /\ \A r : Dict!Returned(r) = Returned(r)
  /\ Dict!Results = Results
BY DEF Dict!Request, Dict!Returned, Dict!Results, Request, Returned, Results

(* Inside a call there is a map. *)
LEMMA InnerInMap ==
  ASSUME IInv, pc # "idle"
  PROVE  map
BY DEF IInv, AtRest

(* The steps that move nodes and paint them are no steps of the dictionary. *)
LEMMA KeptInTree ==
  ASSUME IInv, IInv', AtItem,
         \/ Insert \/ InsertCase1 \/ InsertCase2 \/ InsertCase3 \/ InsertCase4 \/ InsertCase5
         \/ DeleteCase1 \/ DeleteCase2 \/ DeleteCase3 \/ DeleteCase4 \/ DeleteCase5 \/ DeleteCase6
  PROVE  AtItem' /\ DictStep
<1>1. heap \in Heaps /\ live \subseteq Nodes  BY Heap
<1>2. Alike(heap, heap') /\ UNCHANGED <<map, live>>  BY <1>1, InTreeKeepsItems
<1>3. \A n \in live : SameItem(heap, heap', n)  BY <1>1, <1>2 DEF Alike
<1>4. Content' = Content /\ KeysReal' /\ \A k : HasKey(k)' <=> HasKey(k)
      BY <1>2, <1>3, KeptItems DEF AtItem
<1>5. CASE Insert \/ InsertCase1 \/ InsertCase2 \/ InsertCase3 \/ InsertCase4 \/ InsertCase5
  <2>1. /\ pc = "insert" \/ Inserting
        /\ pc' = "setTreeRoot" \/ Inserting'
        /\ UNCHANGED <<call, todo>>
        BY <1>5 DEF Insert, InsertCase1, InsertCase2, InsertCase3, InsertCase4, InsertCase5, Call, InTree,
                    Inserting
  <2>2. call.op \in {"addItem", "createMap"}  BY <2>1 DEF AtItem
  <2>3. AtItem'  BY <1>4, <2>1, <2>2 DEF AtItem, Inserting, Rebalancing
  <2>4. Outcome' = Outcome  BY <2>1, <2>2 DEF Outcome, Effective, Inserting
  <2> QED  BY <1>2, <1>4, <2>1, <2>3, <2>4 DEF DictStep
<1>6. CASE DeleteCase1 \/ DeleteCase2 \/ DeleteCase3 \/ DeleteCase4 \/ DeleteCase5 \/ DeleteCase6
  <2>1. Rebalancing /\ (pc' = "unlink" \/ Rebalancing') /\ UNCHANGED <<call, todo, M>>
        BY <1>6 DEF DeleteCase1, DeleteCase2, DeleteCase3, DeleteCase4, DeleteCase5, DeleteCase6, Call,
                    InTree, Rebalancing
  <2>2. M \in live  BY <2>1 DEF IInv, AtDelete
  <2>3. call.op = "deleteItem"  BY <2>1 DEF AtItem
  <2>4. IF HasKey(call.key)'
        THEN heap'[M].key = call.key /\ \A n \in live \ {M} : heap'[n].key # call.key
        ELSE \E n \in live \ {M} : heap'[n].key = heap'[M].key
    <3>1. IF HasKey(call.key)
          THEN heap[M].key = call.key /\ \A n \in live \ {M} : heap[n].key # call.key
          ELSE \E n \in live \ {M} : heap[n].key = heap[M].key
          BY <2>1 DEF AtItem
    <3>2. \A n \in live : heap'[n].key = heap[n].key  BY <1>3 DEF SameItem
    <3>3. HasKey(call.key)' <=> HasKey(call.key)
      <4>1. HasKey(call.key)' <=> \E n \in live : heap[n].key = call.key  BY <1>2, <2>1, <3>2 DEF HasKey
      <4> QED  BY <4>1 DEF HasKey
    <3> QED  BY <2>2, <3>1, <3>2, <3>3
  <2>5. AtItem'  BY <1>2, <1>4, <2>1, <2>3, <2>4 DEF AtItem, Inserting, Rebalancing
  <2>6. Outcome' = Outcome
    <3>1. HasKey(call.key)' <=> HasKey(call.key)
      <4>1. \A n \in live : heap'[n].key = heap[n].key  BY <1>3 DEF SameItem
      <4> QED  BY <1>2, <2>1, <4>1 DEF HasKey
    <3> QED  BY <2>1, <3>1 DEF Outcome, Effective, Rebalancing
  <2> QED  BY <1>2, <1>4, <2>1, <2>5, <2>6 DEF DictStep
<1> QED  BY <1>5, <1>6

(* A step in which the key of deleteItem() goes, and no other, is Remove. *)
LEMMA RemovesKey ==
  ASSUME IInv, IInv', AtCall, KeysReal, UNCHANGED <<map, call, todo>>, call.op = "deleteItem",
         pc # "idle", pc' # "idle", HasKey(call.key), Loses(heap, heap', live, live', call.key)
  PROVE  KeysReal' /\ ~HasKey(call.key)' /\ DictStep
<1>1. Holds(heap, live, Content)  BY ContentHeld DEF HoldsNow
<1>2. PICK f : f = Dict!Restrict(Content, DOMAIN Content \ {call.key})  OBVIOUS
<1>3. Holds(heap', live', f)  BY <1>1, <1>2, HoldsRemove
<1>4. Content' = f  BY <1>3, NextContent
<1>5. call.key \in DOMAIN Content  BY KeysOfContent
<1>6. ~HasKey(call.key)'  BY DEF Loses, HasKey
<1>7. Outcome = call  BY DEF Outcome, Effective
<1>8. Outcome' = Returned("SUCCESS")
  <2>1. todo = <<>>  BY DEF AtCall
  <2>2. Effective'  BY <1>6, <2>1 DEF Effective
  <2> QED  BY <2>2 DEF Outcome
<1>9. Content # Dict!None
  <2>1. DOMAIN Dict!None = {}  BY DEF Dict!None
  <2> QED  BY <1>5, <2>1
<1>10. Dict!Remove  BY <1>2, <1>4, <1>7, <1>8, <1>9, SameResults DEF Dict!Remove
<1>11. KeysReal'  BY DEF KeysReal, Loses
<1> QED  BY <1>6, <1>10, <1>11 DEF DictStep, Dict!DictNext

(* When M goes its key goes, unless another node has it. *)
LEMMA FreedItem ==
  ASSUME IInv, IInv', AtCall, AtItem, UNCHANGED <<map, call, todo>>, M \in live, live' = live \ {M},
         \A n \in live \ {M} : SameItem(heap, heap', n),
         pc \in {"deleteTheOnlyChild", "unlink"}, pc' = "setTreeRoot"
  PROVE  AtItem' /\ DictStep
<1>1. /\ call.op = "deleteItem" /\ KeysReal
      /\ IF HasKey(call.key)
         THEN heap[M].key = call.key /\ \A n \in live \ {M} : heap[n].key # call.key
         ELSE \E n \in live \ {M} : heap[n].key = heap[M].key
      BY DEF AtItem
<1>2. CASE ~HasKey(call.key)
  <2>1. PICK n \in live \ {M} : heap[n].key = heap[M].key  BY <1>1, <1>2
  <2>2. OneValue(heap, live)  BY OneItemEach
  <2>3. heap[n].value = heap[M].value  BY <2>1, <2>2 DEF OneValue
  <2>4. Holds(heap, live, Content)  BY ContentHeld DEF HoldsNow
  <2>5. Holds(heap', live', Content)
    <3>1. \A k : k \in DOMAIN Content <=> \E a \in live' : heap'[a].key = k
      <4>1. \A k : (\E a \in live : heap[a].key = k) <=> (\E a \in live \ {M} : heap[a].key = k)
            BY <2>1
      <4> QED  BY <2>4, <4>1 DEF Holds, SameItem
    <3>2. \A a \in live' : Content[heap'[a].key] = heap'[a].value
          BY <2>4 DEF Holds, SameItem
    <3> QED  BY <2>4, <3>1, <3>2 DEF Holds
  <2>6. Content' = Content  BY <2>5, NextContent
  <2>7. KeysReal'  BY <1>1 DEF KeysReal, SameItem
  <2>8. ~HasKey(call.key)'  BY <1>2 DEF HasKey, SameItem
  <2>9. Outcome' = Outcome  BY <1>2, <2>8 DEF Outcome, Effective
  <2>10. AtItem'  BY <1>1, <2>7, <2>8 DEF AtItem, Inserting, Rebalancing
  <2> QED  BY <2>6, <2>9, <2>10 DEF DictStep
<1>3. CASE HasKey(call.key)
  <2>1. Loses(heap, heap', live, live', call.key)  BY <1>1, <1>3 DEF Loses, SameItem
  <2>2. KeysReal' /\ ~HasKey(call.key)' /\ DictStep  BY <1>1, <1>3, <2>1, RemovesKey
  <2>3. AtItem'  BY <1>1, <2>2 DEF AtItem, Inserting, Rebalancing
  <2> QED  BY <2>2, <2>3
<1> QED  BY <1>2, <1>3

(* The end of deleteTheOnlyChild() is Remove, if deleteNode() has not removed the key. *)
LEMMA UnlinkRemoves ==
  ASSUME IInv, IInv', AtCall, AtItem, Unlink
  PROVE  AtItem' /\ DictStep
<1>1. PICK e : e = Hang(heap, M, null)  OBVIOUS
<1>2. /\ heap' = [e EXCEPT ![M] = Blank] /\ live' = live \ {M} /\ UNCHANGED <<map, call, todo>>
      /\ pc = "unlink" /\ pc' = "setTreeRoot"
      BY <1>1 DEF Unlink, Free, Call
<1>3. heap \in Heaps /\ live \subseteq Nodes  BY Heap
<1>4. Alike(heap, e)  BY <1>1, <1>3, HeapFits, HangKeepsItems
<1>5. \A n \in live \ {M} : SameItem(heap, heap', n)  BY <1>2, <1>3, <1>4 DEF Alike, Fit, SameItem
<1>6. M \in live  BY <1>2 DEF IInv, AtDelete
<1> QED  BY <1>2, <1>5, <1>6, FreedItem

(* deleteTheOnlyChild() is Remove, if deleteNode() has not removed the key. *)
LEMMA DeleteTheOnlyChildRemoves ==
  ASSUME IInv, IInv', AtCall, AtItem, DeleteTheOnlyChild
  PROVE  AtItem' /\ DictStep
<1>1. pc = "deleteTheOnlyChild" /\ node = M /\ M \in live /\ UNCHANGED <<map, call, todo, M>>
      BY DEF DeleteTheOnlyChild, IInv, AtDelete
<1>2. heap \in Heaps /\ live \subseteq Nodes  BY Heap
<1>3. CASE Leaf(node)
  <2>1. UNCHANGED live /\ heap' = heap /\ pc' \in {"delete_case1", "unlink"}
        BY <1>3 DEF DeleteTheOnlyChild, Call
  <2>2. \A n \in live : SameItem(heap, heap', n)  BY <2>1 DEF SameItem
  <2>3. Content' = Content /\ KeysReal'  BY <2>1, <2>2, KeptItems DEF AtItem
  <2>4. HasKey(call.key)' <=> HasKey(call.key)  BY <1>1, <2>1 DEF HasKey
  <2>5. Outcome' = Outcome  BY <1>1, <2>1, <2>4 DEF Outcome, Effective
  <2>6. AtItem'  BY <1>1, <2>1, <2>3, <2>4 DEF AtItem, Inserting, Rebalancing
  <2> QED  BY <1>1, <2>3, <2>5, <2>6 DEF DictStep
<1>4. CASE ~Leaf(node)
  <2>1. PICK c, e : c = heap[M].right /\ e = Hang(heap, M, c)  OBVIOUS
  <2>2. PICK f : f = [e EXCEPT ![c]["parent"] = heap[M].parent]  OBVIOUS
  <2>3. PICK k : k = Paint(f, c, "black")  OBVIOUS
  <2>4. PICK g : (g = f \/ g = k) /\ heap' = [g EXCEPT ![M] = Blank] /\ live' = live \ {M}
    <3>1. f = [e EXCEPT ![c].parent = Parent(M)]  BY <2>2, DotIsApply DEF Parent
    <3>2. Free(IF Color(M) = "black" THEN k ELSE f, M)
          BY <1>1, <1>4, <2>1, <2>3, <3>1 DEF DeleteTheOnlyChild
    <3> QED  BY <3>2 DEF Free
  <2>5. Alike(heap, e)  BY <1>2, <2>1, HeapFits, HangKeepsItems
  <2>6. Alike(e, f)  BY <2>2, <2>5, LinkKeepsItems DEF Alike
  <2>7. Alike(f, k)  BY <2>3, <2>6, PaintKeepsItems DEF Alike
  <2>8. Alike(heap, g)  BY <2>4, <2>5, <2>6, <2>7, AlikeTransitive
  <2>9. \A n \in live \ {M} : SameItem(heap, heap', n)
        BY <1>2, <2>4, <2>8 DEF Alike, Fit, SameItem
  <2>10. pc' = "setTreeRoot"  BY <1>4 DEF DeleteTheOnlyChild, Call
  <2> QED  BY <1>1, <2>4, <2>9, <2>10, FreedItem
<1> QED  BY <1>3, <1>4

(* deleteNode() is Remove when a neighbour gives its item away. *)
LEMMA DeleteNodeRemoves ==
  ASSUME IInv, IInv', AtCall, AtItem, DeleteNode
  PROVE  AtItem' /\ DictStep
<1>1. PICK m : m = IF heap[node].right # null THEN Outermost(heap[node].right, "left")
                   ELSE IF heap[node].left # null THEN Outermost(heap[node].left, "right")
                   ELSE node
      OBVIOUS
<1>2. /\ pc = "deleteNode" /\ M' = m /\ pc' = "deleteTheOnlyChild"
      /\ UNCHANGED <<map, live, call, todo>>
      /\ heap' = [heap EXCEPT ![node].value = heap[m].value, ![node].key = heap[m].key]
      BY <1>1 DEF DeleteNode, Call
<1>3. /\ heap \in Heaps /\ live \subseteq Nodes /\ null \notin live /\ M = null /\ live = Linked
      /\ node \in live
      BY <1>2, Heap DEF IInv, AtRest, AtDelete
<1>4. m \in live  BY <1>2 DEF IInv, AtDelete
<1>5. /\ heap'[node].key = heap[m].key /\ heap'[node].value = heap[m].value
      /\ \A n \in live : n # node => heap'[n] = heap[n]
      BY <1>2, <1>3, <1>4 DEF Heaps
<1>6. call.op = "deleteItem" /\ heap[node].key = call.key /\ KeysReal  BY <1>2 DEF AtItem
<1>7. HasKey(call.key)  BY <1>3, <1>6 DEF HasKey
<1>8. \A n \in live : n # node => heap[n].key # call.key
  <2> SUFFICES ASSUME NEW n \in live, n # node PROVE heap[n].key # heap[node].key  BY <1>6
  <2>1. n # M /\ node # M  BY <1>3
  <2> QED  BY <1>3, <2>1, KeysApart
<1>9. CASE m = node
  <2>1. \A n \in live : SameItem(heap, heap', n)  BY <1>5, <1>9 DEF SameItem
  <2>2. Content' = Content /\ KeysReal'  BY <1>2, <1>6, <2>1, KeptItems
  <2>3. heap'[node].key = call.key /\ \A n \in live \ {node} : heap'[n].key # call.key
        BY <1>5, <1>6, <1>8, <1>9
  <2>4. HasKey(call.key)'  BY <1>2, <1>3, <2>3 DEF HasKey
  <2>5. Outcome' = Outcome  BY <1>2, <1>6, <1>7, <2>4 DEF Outcome, Effective
  <2>6. AtItem'  BY <1>2, <1>6, <1>9, <2>2, <2>3, <2>4 DEF AtItem, Inserting, Rebalancing
  <2> QED  BY <1>2, <2>2, <2>5, <2>6 DEF DictStep
<1>10. CASE m # node
  <2>1. Loses(heap, heap', live, live', call.key)  BY <1>2, <1>4, <1>5, <1>6, <1>8, <1>10 DEF Loses
  <2>2. KeysReal' /\ ~HasKey(call.key)' /\ DictStep  BY <1>2, <1>6, <1>7, <2>1, RemovesKey
  <2>3. \E n \in live \ {m} : heap'[n].key = heap'[m].key  BY <1>3, <1>4, <1>5, <1>10
  <2>4. AtItem'  BY <1>2, <1>6, <2>2, <2>3 DEF AtItem, Inserting, Rebalancing
  <2> QED  BY <2>2, <2>4
<1> QED  BY <1>9, <1>10

(* The return of a call that has taken effect is no step of the dictionary. *)
LEMMA SetTreeRootReturns ==
  ASSUME IInv, IInv', AtCall, AtItem, SetTreeRoot
  PROVE  AtItem' /\ DictStep
<1>1. /\ pc = "setTreeRoot" /\ pc' = "idle" /\ UNCHANGED <<map, live, todo>> /\ heap' = heap /\ ItemDone
      BY DEF SetTreeRoot
<1>2. \A n \in live : SameItem(heap, heap', n)  BY <1>1 DEF SameItem
<1>3. Content' = Content /\ KeysReal'  BY <1>1, <1>2, KeptItems DEF AtItem
<1>4. Effective <=> todo = <<>>  BY <1>1 DEF AtItem, Effective
<1>5. Outcome' = Outcome
  <2>1. CASE todo = <<>>  BY <1>1, <1>4, <2>1, NotBegun DEF Outcome, ItemDone, Return
  <2>2. CASE todo # <<>>  BY <1>1, <1>4, <2>2, NotBegun DEF Outcome, ItemDone
  <2> QED  BY <2>1, <2>2
<1>6. AtItem'  BY <1>1, <1>3 DEF AtItem, Inserting, Rebalancing
<1> QED  BY <1>1, <1>3, <1>5, <1>6 DEF DictStep

(* The steps inside a call implement the dictionary. *)
LEMMA InnerImplements ==
  ASSUME IInv, IInv', AtCall, AtItem, Inner
  PROVE  AtItem' /\ DictStep
<1>1. CASE \/ Insert \/ InsertCase1 \/ InsertCase2 \/ InsertCase3 \/ InsertCase4 \/ InsertCase5
           \/ DeleteCase1 \/ DeleteCase2 \/ DeleteCase3 \/ DeleteCase4 \/ DeleteCase5 \/ DeleteCase6
      BY <1>1, KeptInTree
<1>2. CASE DeleteNode  BY <1>2, DeleteNodeRemoves
<1>3. CASE DeleteTheOnlyChild  BY <1>3, DeleteTheOnlyChildRemoves
<1>4. CASE Unlink  BY <1>4, UnlinkRemoves
<1>5. CASE SetTreeRoot  BY <1>5, SetTreeRootReturns
<1> QED  BY <1>1, <1>2, <1>3, <1>4, <1>5 DEF Inner

(* No nodes hold the empty dictionary. *)
LEMMA EmptyContent ==
  ASSUME IInv', live' = {}
  PROVE  Content' = Dict!None /\ KeysReal'
<1>1. PICK f : f = Dict!None  OBVIOUS
<1>2. DOMAIN f = {} /\ f = [k \in DOMAIN f |-> f[k]]  BY <1>1 DEF Dict!None
<1>3. Holds(heap', live', f)  BY <1>2 DEF Holds
<1>4. Content' = f  BY <1>3, NextContent
<1> QED  BY <1>1, <1>4 DEF KeysReal

(* Between two calls findItem() tells which keys there are. *)
LEMMA FindsKey ==
  ASSUME IInv, pc = "idle", NEW k \in Key
  PROVE  k \in DOMAIN Content <=> FindItem(k) # null
<1>1. HasKey(k) <=> FindItem(k) # null  BY FindsItem DEF HasKey
<1> QED  BY <1>1, KeysOfContent

(* A new node adds its item, before it is linked. *)
LEMMA AllocateAdds ==
  ASSUME IInv, IInv', KeysReal, pc = "idle", NEW k \in Key, NEW v \in Value, Allocate(k, v)
  PROVE  KeysReal' /\ k \notin DOMAIN Content /\ Content' = Plus(Content, k, v)
<1>1. PICK q \in Nodes \ live : live' = live \cup {q}
           /\ heap' = [heap EXCEPT ![q] = [Blank EXCEPT !.key = k, !.value = v]]
      BY DEF Allocate
<1>2. FindItem(k) = null  BY DEF Allocate
<1>3. \A a \in live : heap[a].key # k  BY <1>2, FindsItem
<1>4. heap \in Heaps /\ live \subseteq Nodes  BY Heap
<1>5. heap'[q].key = k /\ heap'[q].value = v  BY <1>1, <1>4 DEF Heaps, Blank
<1>6. \A n \in live : SameItem(heap, heap', n)  BY <1>1, <1>4 DEF Heaps, SameItem
<1>7. Holds(heap, live, Content)  BY ContentHeld DEF HoldsNow
<1>8. PICK f : f = Plus(Content, k, v)  OBVIOUS
<1>9. k \notin DOMAIN Content /\ Holds(heap', live \cup {q}, f)
  <2>1. Gains(heap, heap', live, q, k, v)  BY <1>3, <1>5, <1>6 DEF Gains
  <2> QED  BY <1>7, <1>8, <2>1, HoldsAdd
<1>10. Content' = f  BY <1>1, <1>9, NextContent
<1>11. KeysReal'  BY <1>1, <1>5, <1>6 DEF KeysReal, SameItem
<1> QED  BY <1>8, <1>9, <1>10, <1>11

(* addItem() of an item adds it, unless its key is there, and the call, if there *)
(* is nothing left to add, has taken effect.                                     *)
LEMMA AddsItem ==
  ASSUME IInv, IInv', AtItem, pc = "idle", call.op \in {"addItem", "createMap"}, NEW item \in Items,
         Added(item.key) \/ Allocate(item.key, item.value)
  PROVE  /\ AtItem' /\ Content' = Dict!With(Content, item) /\ UNCHANGED map
         /\ Outcome' = IF todo' = <<>> THEN Returned("SUCCESS") ELSE call
<1>1. item.key \in Key /\ item.value \in Value /\ KeysReal  BY DEF Items, AtItem
<1>2. CASE Added(item.key)
  <2>1. FindItem(item.key) # null /\ ItemDone /\ pc' = "idle" /\ UNCHANGED <<map, live>> /\ heap' = heap
        BY <1>2 DEF Added
  <2>2. \A n \in live : SameItem(heap, heap', n)  BY <2>1 DEF SameItem
  <2>3. Content' = Content /\ KeysReal'  BY <1>1, <2>1, <2>2, KeptItems
  <2>4. item.key \in DOMAIN Content  BY <1>1, <2>1, FindsKey
  <2>5. Content' = Dict!With(Content, item)  BY <2>3, <2>4 DEF Dict!With
  <2>6. Outcome' = IF todo' = <<>> THEN Returned("SUCCESS") ELSE call
        BY <2>1, NotBegun DEF ItemDone, Return
  <2>7. AtItem'  BY <2>1, <2>3 DEF AtItem, Inserting, Rebalancing
  <2> QED  BY <2>1, <2>5, <2>6, <2>7
<1>3. CASE Allocate(item.key, item.value)
  <2>1. pc' = "insert" /\ UNCHANGED <<map, call>>  BY <1>3 DEF Allocate, Call
  <2>2. /\ KeysReal' /\ item.key \notin DOMAIN Content
        /\ Content' = Plus(Content, item.key, item.value)
        BY <1>1, <1>3, AllocateAdds
  <2>3. Content' = Dict!With(Content, item)  BY <2>2 DEF Plus, Dict!With
  <2>4. Outcome' = IF todo' = <<>> THEN Returned("SUCCESS") ELSE call
        BY <2>1 DEF Outcome, Effective
  <2>5. AtItem'  BY <2>1, <2>2 DEF AtItem, Inserting, Rebalancing
  <2> QED  BY <2>1, <2>3, <2>4, <2>5
<1> QED  BY <1>2, <1>3

(* A node that findItem() finds takes its new value. *)
LEMMA SetValueSets ==
  ASSUME IInv, IInv', KeysReal, pc = "idle", NEW k \in Key, NEW v \in Value, FindItem(k) # null,
         heap' = [heap EXCEPT ![FindItem(k)].value = v], UNCHANGED live
  PROVE  KeysReal' /\ k \in DOMAIN Content /\ Content' = [Content EXCEPT ![k] = v]
<1>1. PICK n : n = FindItem(k)  OBVIOUS
<1>2. heap' = [heap EXCEPT ![n].value = v]  BY <1>1
<1>3. n \in live /\ heap[n].key = k  BY <1>1, FindsItem
<1>4. heap \in Heaps /\ live \subseteq Nodes /\ null \notin live /\ M = null /\ live = Linked
      BY Heap DEF IInv, AtRest
<1>5. heap'[n].key = k /\ heap'[n].value = v /\ \A a \in live : a # n => heap'[a] = heap[a]
      BY <1>2, <1>3, <1>4 DEF Heaps
<1>6. ASSUME NEW a \in live, a # n PROVE SameItem(heap, heap', a) /\ heap[a].key # heap[n].key
  <2>1. a # M /\ n # M  BY <1>3, <1>4
  <2>2. heap[a].key # heap[n].key  BY <1>3, <1>4, <1>6, <2>1, KeysApart
  <2> QED  BY <1>5, <1>6, <2>2 DEF SameItem
<1>7. Holds(heap, live, Content)  BY ContentHeld DEF HoldsNow
<1>8. PICK f : f = [Content EXCEPT ![k] = v]  OBVIOUS
<1>9. k \in DOMAIN Content /\ Holds(heap', live, [Content EXCEPT ![heap[n].key] = v])
      BY ONLY <1>3, <1>5, <1>6, <1>7, HoldsSet
<1>10. Holds(heap', live', f)  BY <1>3, <1>8, <1>9
<1>11. Content' = f  BY <1>10, NextContent
<1>12. KeysReal'  BY <1>3, <1>5 DEF KeysReal
<1> QED  BY <1>8, <1>9, <1>11, <1>12

(* Between two calls nothing is asked of the items but real keys. *)
LEMMA ItemsAtRest ==
  ASSUME KeysReal', pc' = "idle"
  PROVE  AtItem'
BY DEF AtItem, Inserting, Rebalancing

(* A call that changes no node changes no item. *)
LEMMA NothingChanges ==
  ASSUME IInv, IInv', KeysReal, UNCHANGED <<heap, live>>
  PROVE  Content' = Content /\ KeysReal'
<1>1. \A n \in live : SameItem(heap, heap', n)  BY DEF SameItem
<1> QED  BY <1>1, KeptItems

(* createMap() and addItem() implement the dictionary. *)
LEMMA AddingImplements ==
  ASSUME IInv, IInv', AtCall, AtItem, CreateMap \/ CreateNext \/ CreateFails \/ AddItem \/ AddFails
  PROVE  AtItem' /\ DictStep
<1>1. pc = "idle" /\ Outcome = call /\ todo \in Seq(Items) /\ KeysReal
      BY NotBegun DEF CreateMap, CreateNext, CreateFails, AddItem, AddFails, Called, AtCall, AtItem
<1>2. CASE CreateMap
  <2>1. /\ call.op = "createMap" /\ ~map /\ map' = TRUE /\ UNCHANGED <<live, todo>> /\ ItemDone
        /\ pc' = "idle"
        BY <1>2 DEF CreateMap, Called
  <2>2. live = {}  BY <2>1 DEF IInv, AtRest
  <2>3. Content' = Dict!None /\ KeysReal'  BY <2>1, <2>2, EmptyContent
  <2>4. Outcome' = IF todo' = <<>> THEN Returned("SUCCESS") ELSE call
        BY <2>1, NotBegun DEF ItemDone, Return
  <2>5. Dict!Create  BY <1>1, <2>1, <2>3, <2>4, SameResults DEF Dict!Create
  <2> QED  BY <2>1, <2>3, <2>5, ItemsAtRest DEF DictStep, Dict!DictNext
<1>3. CASE CreateNext
  <2>1. /\ call.op = "createMap" /\ map /\ todo # <<>> /\ todo' = Tail(todo)
        /\ Added(Head(todo).key) \/ Allocate(Head(todo).key, Head(todo).value)
        BY <1>3 DEF CreateNext, Called
  <2>2. Head(todo) \in Items  BY <1>1, <2>1
  <2>3. /\ AtItem' /\ Content' = Dict!With(Content, Head(todo)) /\ UNCHANGED map
        /\ Outcome' = IF todo' = <<>> THEN Returned("SUCCESS") ELSE call
        BY <1>1, <2>1, <2>2, AddsItem
  <2>4. Dict!Create  BY <1>1, <2>1, <2>3, SameResults DEF Dict!Create
  <2> QED  BY <2>3, <2>4 DEF DictStep, Dict!DictNext
<1>4. CASE CreateFails
  <2>1. /\ call.op = "createMap" /\ pc' = "idle" /\ map' = FALSE /\ todo' = <<>>
        /\ live' = live \ Under(root) /\ call' = Returned("LACK_OF_MEMORY")
        /\ map => todo # <<>> /\ FindItem(Head(todo).key) = null
        BY <1>4 DEF CreateFails, Called, DeleteMap, Return
  <2>2. live' = {}  BY <1>1, <2>1, UnderRoot
  <2>3. Content' = Dict!None /\ KeysReal'  BY <2>2, EmptyContent
  <2>4. map => todo # <<>> /\ Head(todo).key \notin DOMAIN Content
    <3> SUFFICES ASSUME map PROVE todo # <<>> /\ Head(todo).key \notin DOMAIN Content  OBVIOUS
    <3>1. Head(todo) \in Items  BY <1>1, <2>1
    <3>2. Head(todo).key \in Key  BY <3>1 DEF Items
    <3> QED  BY <1>1, <2>1, <3>2, FindsKey
  <2>5. Outcome' = Returned("LACK_OF_MEMORY")  BY <2>1, NotBegun
  <2>6. Dict!CreateFails  BY <1>1, <2>1, <2>3, <2>4, <2>5, SameResults DEF Dict!CreateFails
  <2> QED  BY <2>1, <2>3, <2>6, ItemsAtRest DEF DictStep, Dict!DictNext
<1>5. CASE AddItem
  <2>1. /\ call.op = "addItem" /\ UNCHANGED todo
        /\ Added(call.key) \/ Allocate(call.key, call.value)
        BY <1>5 DEF AddItem, Called
  <2>2. call.key \in Key /\ call.value \in Value /\ todo = <<>>  BY <2>1 DEF AtCall
  <2>3. PICK item \in Items : item.key = call.key /\ item.value = call.value
    <3>1. [key |-> call.key, value |-> call.value] \in Items  BY <2>2 DEF Items
    <3> QED  BY <3>1
  <2>4. /\ AtItem' /\ Content' = Dict!With(Content, item) /\ UNCHANGED map
        /\ Outcome' = Returned("SUCCESS")
        BY <1>1, <2>1, <2>2, <2>3, AddsItem
  <2>5. Content' = Dict!With(Content, call)  BY <2>3, <2>4 DEF Dict!With
  <2>6. Dict!Add  BY <1>1, <2>1, <2>4, <2>5, SameResults DEF Dict!Add
  <2> QED  BY <2>4, <2>6 DEF DictStep, Dict!DictNext
<1>6. CASE AddFails
  <2>1. /\ call.op = "addItem" /\ pc' = "idle" /\ FindItem(call.key) = null
        /\ UNCHANGED <<map, heap, live, todo>> /\ call' = Returned("LACK_OF_MEMORY")
        BY <1>6 DEF AddFails, Called, Return
  <2>2. call.key \in Key  BY <2>1 DEF AtCall
  <2>3. call.key \notin DOMAIN Content  BY <1>1, <2>1, <2>2, FindsKey
  <2>4. Content' = Content /\ KeysReal'  BY <1>1, <2>1, NothingChanges
  <2>5. Outcome' = Returned("LACK_OF_MEMORY")  BY <2>1, NotBegun
  <2>6. Dict!Add  BY <1>1, <2>1, <2>3, <2>4, <2>5, SameResults DEF Dict!Add
  <2> QED  BY <2>1, <2>4, <2>6, ItemsAtRest DEF DictStep, Dict!DictNext
<1> QED  BY <1>2, <1>3, <1>4, <1>5, <1>6

(* A dictionary without a key it does not have is the same. *)
LEMMA NothingToRemove ==
  ASSUME IInv, NEW k, k \notin DOMAIN Content
  PROVE  Dict!Restrict(Content, DOMAIN Content \ {k}) = Content
<1>1. Content = [j \in DOMAIN Content |-> Content[j]]  BY ContentHeld DEF HoldsNow, Holds
<1>2. DOMAIN Content \ {k} = DOMAIN Content  OBVIOUS
<1> QED  BY <1>1, <1>2 DEF Dict!Restrict

(* The tree is empty when the dictionary is. *)
LEMMA EmptyTogether ==
  ASSUME IInv, pc = "idle"
  PROVE  root = null <=> Content = Dict!None
<1>1. PICK U, bh : Tree(heap, live, root, U, bh, null, null, null, null)  BY Rests
<1>2. Shape(heap, live, root, U)  BY <1>1 DEF Tree
<1>3. root = null <=> live = {}
  <2>1. U[null] = {} /\ U[root] = live /\ root \in live \cup {null} /\ null \notin live
        BY <1>2, Rests DEF Shape
  <2> QED  BY <2>1
<1>4. live = {} <=> DOMAIN Content = {}
  <2>1. \A k : k \in DOMAIN Content <=> \E n \in live : heap[n].key = k  BY KeysOfContent DEF HasKey
  <2> QED  BY <2>1
<1>5. DOMAIN Content = {} => Content = Dict!None
  <2>1. Content = [j \in DOMAIN Content |-> Content[j]]  BY ContentHeld DEF HoldsNow, Holds
  <2> SUFFICES ASSUME DOMAIN Content = {} PROVE Content = [j \in {} |-> 0]  BY DEF Dict!None
  <2>2. DOMAIN [j \in {} |-> 0] = {}  OBVIOUS
  <2> QED  BY <2>1, <2>2
<1>6. DOMAIN Dict!None = {}  BY DEF Dict!None
<1> QED  BY <1>3, <1>4, <1>5, <1>6

(* The other calls implement the dictionary at their start. *)
LEMMA CallsImplement ==
  ASSUME IInv, IInv', AtCall, AtItem, DeleteItem \/ SetValue \/ ClearMap \/ DropMap
  PROVE  AtItem' /\ DictStep
<1>1. pc = "idle" /\ Outcome = call /\ KeysReal
      BY NotBegun DEF DeleteItem, SetValue, ClearMap, DropMap, Called, AtItem
<1>2. CASE DeleteItem
  <2>1. call.op = "deleteItem" /\ UNCHANGED <<map, root, heap, live, todo, M>>
        BY <1>2 DEF DeleteItem, Called
  <2>2. call.key \in Key  BY <2>1 DEF AtCall
  <2>3. Content' = Content /\ KeysReal'  BY <1>1, <2>1, NothingChanges
  <2>4. CASE FindItem(call.key) # null
    <3>1. pc' = "deleteNode" /\ node' = FindItem(call.key) /\ UNCHANGED call
          BY <1>2, <2>4 DEF DeleteItem, Call
    <3>2. FindItem(call.key) \in live /\ heap[FindItem(call.key)].key = call.key
          BY <1>1, <2>2, <2>4, FindsItem
    <3>3. HasKey(call.key)'  BY <2>1, <3>1, <3>2 DEF HasKey
    <3>4. Outcome' = call  BY <2>1, <3>1, <3>3 DEF Outcome, Effective
    <3>5. AtItem'  BY <2>1, <2>3, <3>1, <3>2 DEF AtItem, Inserting, Rebalancing
    <3> QED  BY <1>1, <2>1, <2>3, <3>4, <3>5 DEF DictStep
  <2>5. CASE FindItem(call.key) = null
    <3>1. pc' = "idle" /\ call' = Returned(IF root = null THEN "INVALID_ARG" ELSE "SUCCESS")
          BY <1>1, <1>2, <2>5 DEF DeleteItem, Return
    <3>2. Outcome' = Returned(IF Content = Dict!None THEN "INVALID_ARG" ELSE "SUCCESS")
          BY <1>1, <3>1, NotBegun, EmptyTogether
    <3>3. call.key \notin DOMAIN Content  BY <1>1, <2>2, <2>5, FindsKey
    <3>4. Content' = Dict!Restrict(Content, DOMAIN Content \ {call.key})
          BY <2>3, <3>3, NothingToRemove
    <3>5. Dict!Remove  BY <1>1, <2>1, <3>2, <3>4, SameResults DEF Dict!Remove
    <3> QED  BY <2>3, <3>1, <3>5, ItemsAtRest DEF DictStep, Dict!DictNext
  <2> QED  BY <2>4, <2>5
<1>3. CASE SetValue
  <2>1. call.op = "setValue" /\ pc' = "idle" /\ UNCHANGED <<map, live, todo>>
        BY <1>3 DEF SetValue, Called
  <2>2. call.key \in Key /\ call.value \in Value  BY <2>1 DEF AtCall
  <2>3. CASE FindItem(call.key) # null
    <3>1. heap' = [heap EXCEPT ![FindItem(call.key)].value = call.value] /\ call' = Returned("SUCCESS")
          BY <1>3, <2>3 DEF SetValue, Return
    <3>2. /\ KeysReal' /\ call.key \in DOMAIN Content
          /\ Content' = [Content EXCEPT ![call.key] = call.value]
          BY <1>1, <2>1, <2>2, <2>3, <3>1, SetValueSets
    <3>3. Outcome' = Returned("SUCCESS")  BY <2>1, <3>1, NotBegun
    <3>4. Dict!Set  BY <1>1, <2>1, <3>2, <3>3, SameResults DEF Dict!Set
    <3> QED  BY <2>1, <3>2, <3>4, ItemsAtRest DEF DictStep, Dict!DictNext
  <2>4. CASE FindItem(call.key) = null
    <3>1. heap' = heap /\ call' = Returned("INVALID_ARG")  BY <1>3, <2>4 DEF SetValue, Return
    <3>2. Content' = Content /\ KeysReal'  BY <1>1, <2>1, <3>1, NothingChanges
    <3>3. call.key \notin DOMAIN Content  BY <1>1, <2>2, <2>4, FindsKey
    <3>4. Outcome' = Returned("INVALID_ARG")  BY <2>1, <3>1, NotBegun
    <3>5. Dict!Set  BY <1>1, <2>1, <3>2, <3>3, <3>4, SameResults DEF Dict!Set
    <3> QED  BY <2>1, <3>2, <3>5, ItemsAtRest DEF DictStep, Dict!DictNext
  <2> QED  BY <2>3, <2>4
<1>4. CASE ClearMap
  <2>1. /\ call.op = "clearMap" /\ pc' = "idle" /\ live' = live \ Under(root) /\ UNCHANGED <<map, todo>>
        /\ call' = Returned("SUCCESS")
        BY <1>4 DEF ClearMap, Called, Return
  <2>2. live' = {}  BY <1>1, <2>1, UnderRoot
  <2>3. Content' = Dict!None /\ KeysReal'  BY <2>2, EmptyContent
  <2>4. map = TRUE /\ Outcome' = Returned("SUCCESS")
        BY <2>1, NotBegun DEF AtCall, Requests, IInv, TreeTyped
  <2>5. Dict!Clear  BY <1>1, <2>1, <2>3, <2>4, SameResults DEF Dict!Clear
  <2> QED  BY <2>1, <2>3, <2>5, ItemsAtRest DEF DictStep, Dict!DictNext
<1>5. CASE DropMap
  <2>1. /\ call.op = "deleteMap" /\ pc' = "idle" /\ live' = live \ Under(root) /\ map' = FALSE
        /\ todo' = <<>> /\ call' = Returned("SUCCESS")
        BY <1>5 DEF DropMap, DeleteMap, Called, Return
  <2>2. live' = {}  BY <1>1, <2>1, UnderRoot
  <2>3. Content' = Dict!None /\ KeysReal'  BY <2>2, EmptyContent
  <2>4. todo = <<>> /\ Outcome' = Returned("SUCCESS")  BY <2>1, NotBegun DEF AtCall
  <2>5. Dict!Clear  BY <1>1, <2>1, <2>3, <2>4, SameResults DEF Dict!Clear
  <2> QED  BY <2>1, <2>3, <2>5, ItemsAtRest DEF DictStep, Dict!DictNext
<1> QED  BY <1>2, <1>3, <1>4, <1>5

(* A call is begun in both. *)
LEMMA BeginImplements ==
  ASSUME IInv, IInv', AtItem, Begin
  PROVE  AtItem' /\ DictStep
<1>1. pc = "idle" /\ pc' = "idle" /\ UNCHANGED <<map, heap, live>> /\ call.op \in Results  BY DEF Begin
<1>2. Outcome = call /\ Outcome' = call'  BY <1>1, NotBegun
<1>3. Content' = Content /\ KeysReal'  BY <1>1, NothingChanges DEF AtItem
<1>4. Dict!Begin
  <2>1. \/ ~map /\ call' = Request("createMap", 0, 0) /\ todo' \in Data
        \/ map /\ UNCHANGED todo
           /\ \/ call' \in {Request("clearMap", 0, 0), Request("deleteMap", 0, 0)}
              \/ \E k \in Key : \/ call' = Request("deleteItem", k, 0)
                                \/ \E v \in Value, op \in {"addItem", "setValue"} :
                                     call' = Request(op, k, v)
        BY DEF Begin
  <2> QED  BY <1>1, <1>2, <1>3, <2>1, SameResults DEF Dict!Begin
<1> QED  BY <1>1, <1>3, <1>4, ItemsAtRest DEF DictStep, Dict!DictNext

(* Every step implements the dictionary. *)
LEMMA Implements ==
  IInv /\ AtCall /\ IInv' /\ AtItem /\ [Next]_vars
  => AtItem' /\ [Dict!DictNext]_<<map, Content, Outcome, todo>>
<1> SUFFICES ASSUME IInv, AtCall, IInv', AtItem, [Next]_vars PROVE AtItem' /\ DictStep
    BY DEF DictStep
<1>1. CASE Begin  BY <1>1, BeginImplements
<1>2. CASE CreateMap \/ CreateNext \/ CreateFails \/ AddItem \/ AddFails  BY <1>2, AddingImplements
<1>3. CASE DeleteItem \/ SetValue \/ ClearMap \/ DropMap  BY <1>3, CallsImplement
<1>4. CASE Inner  BY <1>4, InnerImplements
<1>5. CASE UNCHANGED vars
  <2>1. UNCHANGED <<map, heap, live, call, todo, pc, node, M>>  BY <1>5 DEF vars
  <2>2. Content' = Content /\ KeysReal'  BY <2>1, NothingChanges DEF AtItem
  <2>3. Outcome' = Outcome  BY <2>1 DEF Outcome, Effective, HasKey
  <2>4. AtItem'  BY <2>1, <2>2 DEF AtItem, Inserting, Rebalancing, HasKey
  <2> QED  BY <2>1, <2>2, <2>3, <2>4 DEF DictStep
<1> QED  BY <1>1, <1>2, <1>3, <1>4, <1>5 DEF Next, Interface

(* The interface implements a dictionary: one step of each call changes the  *)
(* content as this call with these arguments should, gives the result it     *)
(* should, and nothing else changes the content, for every sequence of calls *)
(* and wherever memory runs out.  RBTree.c, helper.c.                        *)
THEOREM ImplementsDictionary == Spec => IsDictionary
<1>1. Init => AtItem /\ Dict!DictInit
  <2> SUFFICES ASSUME Init PROVE AtItem /\ Dict!DictInit  OBVIOUS
  <2>1. map = FALSE /\ live = {} /\ call = Returned("SUCCESS") /\ todo = <<>> /\ pc = "idle"  BY DEF Init
  <2>2. Content = [k \in {} |-> 0]
    <3>1. {heap[n].key : n \in live} = {}  BY <2>1
    <3> QED  BY <3>1 DEF Content
  <2>3. Outcome = Returned("SUCCESS")  BY <2>1, NotBegun
  <2>4. AtItem  BY <2>1 DEF AtItem, KeysReal, Inserting, Rebalancing
  <2> QED  BY <2>1, <2>2, <2>3, <2>4, SameResults DEF Dict!DictInit, Dict!None
<1> QED  BY <1>1, Invariant, Implements, PTL DEF Spec, IsDictionary, Dict!DictSpec, Dict!mapVars
=============================================================================
