--------------------------- MODULE IntegrateProofs ---------------------------
(***************************************************************************)
(* What Integrate() allocates, frees and lets others use, what it returns, *)
(* and how it binds its threads to processors, for any number of threads   *)
(* and processors and any function.                                        *)
(*                                                                         *)
(* Sums and the groups of processors are recursive functions.  That such a *)
(* function exists, and has its values step by step, follows from          *)
(* Recursion, and that from Induction, which is derived from what is known *)
(* of injections between finite sets.                                      *)
(***************************************************************************)
EXTENDS Integrate, FiniteSetTheorems, TLAPS

(* A set with 0 and the successor of each of its numbers has every number. *)
LEMMA Induction ==
  ASSUME NEW S, 0 \in S, \A n \in Nat : n \in S => n + 1 \in S
  PROVE  Nat \subseteq S
<1> SUFFICES ASSUME NEW n \in Nat, n \notin S PROVE FALSE  OBVIOUS
<1> DEFINE D == (0 .. n) \cap S
           f == [x \in D |-> x + 1]
<1>1. IsFiniteSet(D) /\ IsFiniteSet(D \ {0}) /\ Cardinality(D \ {0}) = Cardinality(D) - 1
      /\ Cardinality(D) \in Nat
  <2>1. IsFiniteSet(0 .. n)  BY FS_Interval
  <2>2. IsFiniteSet(D)  BY <2>1, FS_Intersection, Zenon
  <2>3. 0 \in D  OBVIOUS
  <2> HIDE DEF D
  <2> QED  BY <2>2, <2>3, FS_RemoveElement, FS_CardinalityType
<1>2. f \in Injection(D, D \ {0})
  <2>1. f \in [D -> D \ {0}]  OBVIOUS
  <2>2. \A x, y \in D : f[x] = f[y] => x = y  OBVIOUS
  <2> HIDE DEF f
  <2> QED  BY <2>1, <2>2 DEF Injection, IsInjective
<1> HIDE DEF f, D
<1>3. Cardinality(D) <= Cardinality(D \ {0})  BY <1>1, <1>2, FS_Injection, Zenon
<1> QED  BY <1>1, <1>3

(* step[i] is a function from S to S *)
Recurs(f, N, S, f0, step) ==
  f \in [0 .. N -> S] /\ f[0] = f0 /\ \A i \in 1 .. N : f[i] = step[i][f[i - 1]]

CanStep(N, S, f0, step) == N \in Nat /\ f0 \in S /\ step \in [1 .. N -> [S -> S]]

(* A function defined from its value at 0, step by step, exists. *)
LEMMA Recursion ==
  ASSUME NEW N, NEW S, NEW f0, NEW step, CanStep(N, S, f0, step)
  PROVE  \E f : Recurs(f, N, S, f0, step)
<1> USE DEF CanStep
<1> DEFINE Good(n, f) == f[0] = f0 /\ \A i \in 1 .. n : f[i] = step[i][f[i - 1]]
           T == {n \in Nat : n <= N => \E f \in [0 .. n -> S] : Good(n, f)}
<1>1. 0 \in T
  <2>1. [i \in 0 .. 0 |-> f0] \in [0 .. 0 -> S]  OBVIOUS
  <2>2. Good(0, [i \in 0 .. 0 |-> f0])  OBVIOUS
  <2> QED  BY <2>1, <2>2
<1>2. ASSUME NEW n \in Nat, n \in T PROVE n + 1 \in T
  <2> SUFFICES ASSUME n + 1 <= N PROVE \E f \in [0 .. n + 1 -> S] : Good(n + 1, f)  OBVIOUS
  <2>1. PICK f \in [0 .. n -> S] : Good(n, f)  BY <1>2
  <2> DEFINE g == [i \in 0 .. n + 1 |-> IF i = n + 1 THEN step[n + 1][f[n]] ELSE f[i]]
  <2>2. step[n + 1] \in [S -> S] /\ f[n] \in S  OBVIOUS
  <2>3. g \in [0 .. n + 1 -> S]  BY <2>2
  <2>4. \A i \in 1 .. n + 1 : g[i] = step[i][g[i - 1]]
    <3> TAKE i \in 1 .. n + 1
    <3>2. CASE i \in 1 .. n
      <4>1. /\ i \in 0 .. n + 1 /\ i # n + 1 /\ i \in 0 .. n /\ i # 0
            /\ i - 1 \in 0 .. n + 1 /\ i - 1 # n + 1 /\ i - 1 \in 0 .. n
            BY <3>2
      <4>2. g[i] = f[i] /\ g[i - 1] = f[i - 1]  BY <4>1
      <4>3. f[i] = step[i][f[i - 1]]  BY <2>1, <4>1
      <4> QED  BY <4>1, <4>2, <4>3
    <3>3. CASE i = n + 1  BY <3>3
    <3> QED  BY <3>2, <3>3
  <2>5. g[0] = f0  BY <2>1
  <2>6. Good(n + 1, g)  
    <3> HIDE DEF g
    <3> QED BY <2>5, <2>4
  <2> QED  BY <2>3, <2>6
<1>3. Nat \subseteq T  BY <1>1, <1>2, Induction
<1> QED  BY <1>3 DEF Recurs

Infos(ids) == [n_cpu : Nat, cpus : [0 .. Len(ids) - 1 -> Seq(Nat)], lost : BOOLEAN]
Ids == {ids \in Seq(Nat) : \A p \in DOMAIN ids : ids[p] < Len(ids)}

(* The loop of get_mycpu_info(), one processor at a time. *)
LEMMA CpuInfoSteps ==
  ASSUME NEW ids \in Seq(Nat)
  PROVE  \E a \in [0 .. Len(ids) -> Infos(ids)] :
           /\ a[0] = EmptyInfo(ids)
           /\ \A n \in 1 .. Len(ids) : a[n] = AddProcessor(a[n - 1], ids, n - 1)
           /\ CpuInfo(ids) = a[Len(ids)]
<1> DEFINE S == Infos(ids)
           step == [n \in 1 .. Len(ids) |-> [info \in S |-> AddProcessor(info, ids, n - 1)]]
           P(g) == g = [n \in 0 .. Len(ids) |-> IF n = 0 THEN EmptyInfo(ids)
                                                ELSE AddProcessor(g[n - 1], ids, n - 1)]
           a == CHOOSE g : P(g)
<1>1. EmptyInfo(ids) \in S  BY DEF EmptyInfo, Infos
<1>2. \A n \in 1 .. Len(ids), info \in S : AddProcessor(info, ids, n - 1) \in S
  <2> SUFFICES ASSUME NEW n \in 1 .. Len(ids), NEW info \in S
               PROVE  AddProcessor(info, ids, n - 1) \in S
      OBVIOUS
  <2>1. n - 1 \in Nat  OBVIOUS
  <2>2. <<n - 1>> \in Seq(Nat)  BY <2>1
  <2>3. \A c \in 0 .. Len(ids) - 1 : Append(info.cpus[c], n - 1) \in Seq(Nat)
        BY <2>1 DEF Infos
  <2>4. info.n_cpu + 1 \in Nat /\ info.cpus \in [0 .. Len(ids) - 1 -> Seq(Nat)]  BY DEF Infos
  <2>5. [info.cpus EXCEPT ![info.n_cpu] = <<n - 1>>] \in [0 .. Len(ids) - 1 -> Seq(Nat)]
        BY <2>2, <2>4
  <2>6. [info EXCEPT !.cpus[ids[n]] = Append(@, n - 1)] \in Infos(ids)
        BY <2>3, <2>4 DEF Infos
  <2>7. n - 1 + 1 = n  OBVIOUS
  <2>8. (info.lost \/ info.cpus[info.n_cpu] # <<>>) \in BOOLEAN  BY DEF Infos
  <2> QED  BY <2>4, <2>5, <2>6, <2>7, <2>8 DEF AddProcessor, Infos
<1>3. step \in [1 .. Len(ids) -> [S -> S]]  BY <1>2
<1>4. \E f \in [0 .. Len(ids) -> S] :
        f[0] = EmptyInfo(ids) /\ \A i \in 1 .. Len(ids) : f[i] = step[i][f[i - 1]]
  <2>1. Len(ids) \in Nat  OBVIOUS
  <2> HIDE DEF S, step
  <2>2. CanStep(Len(ids), S, EmptyInfo(ids), step)  BY <2>1, <1>1, <1>3 DEF CanStep
  <2>3. \E f : Recurs(f, Len(ids), S, EmptyInfo(ids), step)  BY <2>2, Recursion
  <2> QED  BY <2>3 DEF Recurs
<1>5. \E g : P(g)
  <2>1. PICK f \in [0 .. Len(ids) -> S] :
          f[0] = EmptyInfo(ids) /\ \A i \in 1 .. Len(ids) : f[i] = step[i][f[i - 1]]
        BY <1>4
  <2>2. \A n \in 0 .. Len(ids) : n # 0 => step[n][f[n - 1]] = AddProcessor(f[n - 1], ids, n - 1)
    <3> SUFFICES ASSUME NEW n \in 0 .. Len(ids), n # 0
                 PROVE  step[n][f[n - 1]] = AddProcessor(f[n - 1], ids, n - 1)
        OBVIOUS
    <3>1. n \in 1 .. Len(ids) /\ n - 1 \in 0 .. Len(ids)  OBVIOUS
    <3>2. f[n - 1] \in S  BY <3>1
    <3>3. step[n] = [info \in S |-> AddProcessor(info, ids, n - 1)]  BY <3>1
    <3> HIDE DEF S, step
    <3> QED  BY <3>2, <3>3
  <2>3. \A n \in 0 .. Len(ids) : f[n] = IF n = 0 THEN EmptyInfo(ids) ELSE AddProcessor(f[n - 1], ids, n - 1)
    <3> HIDE DEF S, step
    <3> QED  BY <2>1, <2>2
  <2>4. P(f)  
    <3> HIDE DEF S, step
    <3> QED BY <2>3
  <2> QED  BY <2>4
<1>6. P(a)  BY <1>5, Zenon
<1>7. CpuInfo(ids) = a[Len(ids)]  BY DEF CpuInfo, CpuInfoAfter
<1> HIDE DEF a
<1>8. /\ a[0] = EmptyInfo(ids)
      /\ \A n \in 1 .. Len(ids) : a[n] = AddProcessor(a[n - 1], ids, n - 1)
  <2>1. 0 \in 0 .. Len(ids) /\ \A n \in 1 .. Len(ids) : n \in 0 .. Len(ids) /\ n # 0  OBVIOUS
  <2> QED  BY <1>6, <2>1
<1>9. a \in [0 .. Len(ids) -> S]
  <2> DEFINE T == {n \in Nat : n <= Len(ids) => a[n] \in S}
  <2>1. 0 \in T  BY <1>1, <1>8
  <2>2. \A n \in Nat : n \in T => n + 1 \in T
    <3> SUFFICES ASSUME NEW n \in T, n + 1 <= Len(ids) PROVE a[n + 1] \in S  OBVIOUS
    <3>1. n + 1 \in 1 .. Len(ids) /\ a[n] \in S  OBVIOUS
    <3>2. a[n + 1] = AddProcessor(a[n], ids, n)  BY <1>8, <3>1
    <3> HIDE DEF S
    <3> QED  BY <1>2, <3>1, <3>2
  <2>3. Nat \subseteq T  BY <2>1, <2>2, Induction
  <2> QED  BY <1>6, <2>3
<1> QED  BY <1>7, <1>8, <1>9

(* The processors that are grouped exist, and the cores that are counted have some. *)
Sound(info, n, L) ==
  /\ info.n_cpu \in 0 .. n /\ (n > 0 => info.n_cpu > 0)
  /\ info.cpus \in [0 .. L - 1 -> Seq(0 .. L - 1)]
  /\ \A c \in 0 .. info.n_cpu - 1 : Len(info.cpus[c]) > 0

(* The invariant of that loop: every core it knows has a processor there is. *)
LEMMA AddProcessorSound ==
  ASSUME NEW ids \in Ids, NEW n \in 0 .. Len(ids) - 1, NEW info \in Infos(ids),
         Sound(info, n, Len(ids))
  PROVE  Sound(AddProcessor(info, ids, n), n + 1, Len(ids))
<1> DEFINE L == Len(ids)
           new == [n_cpu |-> info.n_cpu + 1, cpus |-> [info.cpus EXCEPT ![info.n_cpu] = <<n>>],
                   lost |-> info.lost \/ info.cpus[info.n_cpu] # <<>>]
           old == [info EXCEPT !.cpus[ids[n + 1]] = Append(@, n)]
<1>0. L \in Nat /\ n \in Nat /\ n < L /\ <<n>> \in Seq(0 .. L - 1)
      /\ ids \in Seq(Nat) /\ \A p \in 1 .. L : ids[p] \in 0 .. L - 1
      BY DEF Ids
<1>i. info.n_cpu \in 0 .. n /\ (n > 0 => info.n_cpu > 0)
      /\ info.cpus \in [0 .. L - 1 -> Seq(0 .. L - 1)]
      /\ \A c \in 0 .. info.n_cpu - 1 : Len(info.cpus[c]) > 0
      BY DEF Sound
<1>1. Sound(new, n + 1, L)
  <2> DEFINE cpus == [info.cpus EXCEPT ![info.n_cpu] = <<n>>]
  <2>1. cpus \in [0 .. L - 1 -> Seq(0 .. L - 1)]  BY <1>0, <1>i
  <2>2. \A c \in 0 .. info.n_cpu : Len(cpus[c]) > 0
    <3> TAKE c \in 0 .. info.n_cpu
    <3>1. c \in 0 .. L - 1  BY <1>0, <1>i
    <3>2. CASE c = info.n_cpu
      <4>1. cpus[c] = <<n>> /\ Len(<<n>>) = 1  BY <1>i, <3>1, <3>2
      <4> HIDE DEF cpus
      <4> QED  BY <4>1
    <3>3. CASE c # info.n_cpu
      <4>1. c \in 0 .. info.n_cpu - 1  BY <1>i, <3>3
      <4>2. cpus[c] = info.cpus[c]
        <5> HIDE DEF L
        <5> QED  BY <1>i, <3>1, <3>3
      <4> QED  BY <1>i, <4>1, <4>2
    <3> QED  BY <3>2, <3>3
  <2>3. new.n_cpu = info.n_cpu + 1 /\ new.cpus = cpus  OBVIOUS
  <2>4. 0 .. new.n_cpu - 1 = 0 .. info.n_cpu  BY <1>i, <2>3
  <2> HIDE DEF new, cpus, L
  <2>5. new.n_cpu \in 0 .. n + 1 /\ new.n_cpu > 0
    <3>1. info.n_cpu \in 0 .. n /\ n \in Nat  BY <1>0, <1>i
    <3>2. new.n_cpu = info.n_cpu + 1  BY <2>3
    <3> QED  BY <3>1, <3>2
  <2>6. \A c \in 0 .. new.n_cpu - 1 : Len(new.cpus[c]) > 0  BY <2>2, <2>3, <2>4
  <2> QED  BY <2>1, <2>3, <2>5, <2>6 DEF Sound
<1>2. ASSUME n > 0 PROVE Sound(old, n + 1, L)
  <2> DEFINE k == ids[n + 1]
             cpus == [info.cpus EXCEPT ![k] = Append(info.cpus[k], n)]
  <2>1. k \in 0 .. L - 1  BY <1>0
  <2>2. info.cpus[k] \in Seq(0 .. L - 1)  BY <1>i, <2>1
  <2>3. Append(info.cpus[k], n) \in Seq(0 .. L - 1) /\ Len(Append(info.cpus[k], n)) > 0
        BY <1>0, <2>2
  <2>4. old.n_cpu = info.n_cpu /\ old.cpus = cpus  BY DEF Infos
  <2> HIDE DEF k
  <2>5. cpus \in [0 .. L - 1 -> Seq(0 .. L - 1)]  BY <1>i, <2>3
  <2>6. \A c \in 0 .. info.n_cpu - 1 : Len(cpus[c]) > 0
    <3> TAKE c \in 0 .. info.n_cpu - 1
    <3>1. c \in 0 .. L - 1  BY <1>0, <1>i
    <3> QED  BY <1>i, <2>3, <3>1
  <2> HIDE DEF old, cpus, L
  <2>7. old.n_cpu \in 0 .. n + 1 /\ old.n_cpu > 0  BY <1>0, <1>2, <1>i, <2>4
  <2>8. \A c \in 0 .. old.n_cpu - 1 : Len(old.cpus[c]) > 0  BY <2>4, <2>6
  <2> QED  BY <2>4, <2>5, <2>7, <2>8 DEF Sound
<1>3. CASE n = 0
  <2>1. AddProcessor(info, ids, n) = new  BY <1>3 DEF AddProcessor, FirstOfCore
  <2> QED  BY <1>1, <2>1
<1>4. CASE n > 0
  <2>1. AddProcessor(info, ids, n) \in {new, old}  BY DEF AddProcessor
  <2> HIDE DEF new, old
  <2> QED  BY <1>1, <1>2, <1>4, <2>1
<1> QED  BY <1>0, <1>3, <1>4

(* So it is when the loop ends. *)
LEMMA CpuInfoSound ==
  ASSUME NEW ids \in Ids
  PROVE  Sound(CpuInfo(ids), Len(ids), Len(ids))
<1>0. Len(ids) \in Nat /\ ids \in Seq(Nat)  BY DEF Ids
<1>1. PICK a \in [0 .. Len(ids) -> Infos(ids)] :
           /\ a[0] = EmptyInfo(ids)
           /\ \A n \in 1 .. Len(ids) : a[n] = AddProcessor(a[n - 1], ids, n - 1)
           /\ CpuInfo(ids) = a[Len(ids)]
      BY <1>0, CpuInfoSteps
<1> DEFINE T == {n \in Nat : n <= Len(ids) => Sound(a[n], n, Len(ids))}
<1>2. 0 \in T
  <2>1. a[0].n_cpu = 0 /\ a[0].cpus = [c \in 0 .. Len(ids) - 1 |-> <<>>]  BY <1>1 DEF EmptyInfo
  <2>2. a[0].cpus \in [0 .. Len(ids) - 1 -> Seq(0 .. Len(ids) - 1)]
    <3>1. <<>> \in Seq(0 .. Len(ids) - 1)  OBVIOUS
    <3> QED  BY <2>1, <3>1
  <2>3. Sound(a[0], 0, Len(ids))  BY <2>1, <2>2 DEF Sound
  <2> QED  BY <2>3
<1>3. \A n \in Nat : n \in T => n + 1 \in T
  <2> SUFFICES ASSUME NEW n \in T, n + 1 <= Len(ids)
               PROVE  Sound(a[n + 1], n + 1, Len(ids))
      OBVIOUS
  <2>1. n \in 0 .. Len(ids) - 1 /\ a[n] \in Infos(ids) /\ Sound(a[n], n, Len(ids))  BY <1>0
  <2>2. a[n + 1] = AddProcessor(a[n], ids, n)  BY <1>0, <1>1, <2>1
  <2> QED  BY <2>1, <2>2, AddProcessorSound
<1>4. Len(ids) \in T  BY <1>0, <1>2, <1>3, Induction
<1> QED  BY <1>1, <1>4

-----------------------------------------------------------------------------
Summable(term, n) == n \in Nat /\ \A k \in 1 .. n : term[k] \in Int

(* The partial sums of which the last is the sum. *)
Sums(s, term, n) ==
  s \in [0 .. n -> Int] /\ s[0] = 0 /\ \A k \in 1 .. n : s[k] = s[k - 1] + term[k]

(* A sum is the last of its partial sums. *)
LEMMA SumSteps ==
  ASSUME NEW term, NEW n, Summable(term, n)
  PROVE  \E s : Sums(s, term, n) /\ Sum(term, n) = s[n]
<1> DEFINE step == [k \in 1 .. n |-> [v \in Int |-> v + term[k]]]
           P(g) == g = [k \in 0 .. n |-> IF k = 0 THEN 0 ELSE g[k - 1] + term[k]]
           s == CHOOSE g : P(g)
<1>1. n \in Nat /\ \A k \in 1 .. n : term[k] \in Int  BY DEF Summable
<1>2. CanStep(n, Int, 0, step)  BY <1>1 DEF CanStep
<1>3. PICK f : Recurs(f, n, Int, 0, step)  BY <1>2, Recursion
<1>4. P(f)
  <2>1. f \in [0 .. n -> Int] /\ f[0] = 0 /\ \A k \in 1 .. n : f[k] = step[k][f[k - 1]]
        BY <1>3 DEF Recurs
  <2>2. \A k \in 1 .. n : f[k] = f[k - 1] + term[k]
    <3> TAKE k \in 1 .. n
    <3>1. f[k - 1] \in Int /\ step[k] = [v \in Int |-> v + term[k]]  BY <1>1, <2>1
    <3> HIDE DEF step
    <3> QED  BY <2>1, <3>1
  <2>3. \A k \in 0 .. n : k = 0 \/ k \in 1 .. n  BY <1>1
  <2> HIDE DEF step
  <2> QED  BY <2>1, <2>2, <2>3
<1>5. P(s)  BY <1>4, Zenon
<1>6. Sum(term, n) = s[n]  BY DEF Sum
<1> HIDE DEF s
<1>7. s[0] = 0 /\ \A k \in 1 .. n : s[k] = s[k - 1] + term[k]
  <2>1. 0 \in 0 .. n /\ \A k \in 1 .. n : k \in 0 .. n /\ k # 0  BY <1>1
  <2> QED  BY <1>5, <2>1
<1>8. s \in [0 .. n -> Int]
  <2> DEFINE T == {k \in Nat : k <= n => s[k] \in Int}
  <2>1. 0 \in T  BY <1>7
  <2>2. \A k \in Nat : k \in T => k + 1 \in T  BY <1>1, <1>7
  <2>3. Nat \subseteq T  BY <2>1, <2>2, Induction
  <2> QED  BY <1>5, <2>3
<1> QED  BY <1>6, <1>7, <1>8 DEF Sums

(* Two sums with the same terms have the same partial sums. *)
LEMMA SumsUnique ==
  ASSUME NEW s, NEW t, NEW term1, NEW n \in Nat, NEW term2, NEW m \in Nat,
         Sums(s, term1, n), Sums(t, term2, m), n <= m, \A k \in 1 .. n : term1[k] = term2[k]
  PROVE  \A k \in 0 .. n : s[k] = t[k]
<1> DEFINE T == {k \in Nat : k <= n => s[k] = t[k]}
<1>1. 0 \in T  BY DEF Sums
<1>2. \A k \in Nat : k \in T => k + 1 \in T
  <2> SUFFICES ASSUME NEW k \in T, k + 1 <= n PROVE s[k + 1] = t[k + 1]  OBVIOUS
  <2>1. k + 1 \in 1 .. n /\ k + 1 \in 1 .. m /\ s[k] = t[k]  OBVIOUS
  <2> QED  BY <2>1 DEF Sums
<1>3. Nat \subseteq T  BY <1>1, <1>2, Induction
<1> QED  BY <1>3

(* A sum of integers is one; *)
LEMMA SumType ==
  ASSUME NEW term, NEW n, Summable(term, n)
  PROVE  Sum(term, n) \in Int
<1>1. PICK s : Sums(s, term, n) /\ Sum(term, n) = s[n]  BY SumSteps
<1> QED  BY <1>1 DEF Sums, Summable

(* nothing adds up to 0; *)
LEMMA SumZero == ASSUME NEW term PROVE Sum(term, 0) = 0
<1>1. Summable(term, 0)  BY DEF Summable
<1>2. PICK s : Sums(s, term, 0) /\ Sum(term, 0) = s[0]  BY <1>1, SumSteps
<1> QED  BY <1>2 DEF Sums

(* and the last term can be added to the sum of the others. *)
LEMMA SumNext ==
  ASSUME NEW term1, NEW term2, NEW n \in Nat, Summable(term2, n + 1),
         \A k \in 1 .. n : term1[k] = term2[k]
  PROVE  Sum(term2, n + 1) = Sum(term1, n) + term2[n + 1]
<1>1. Summable(term1, n)  BY DEF Summable
<1>2. PICK s : Sums(s, term1, n) /\ Sum(term1, n) = s[n]  BY <1>1, SumSteps
<1>3. PICK t : Sums(t, term2, n + 1) /\ Sum(term2, n + 1) = t[n + 1]  BY SumSteps
<1>4. \A k \in 0 .. n : s[k] = t[k]  BY <1>2, <1>3, SumsUnique
<1>5. s[n] = t[n]  BY <1>4
<1>6. n + 1 \in 1 .. n + 1 /\ n + 1 - 1 = n  OBVIOUS
<1>7. t[n + 1] = t[n] + term2[n + 1]  BY <1>3, <1>6 DEF Sums
<1> QED  BY <1>2, <1>3, <1>5, <1>7

-----------------------------------------------------------------------------
Valued(lo, n) == lo \in Int /\ n \in Nat /\ \A x \in lo .. lo + n : Foo(x) \in Int

(* Twice the integral over n steps from lo on, as the trapezoids have it, and as CalcIntegral() has it. *)
Trapezoid(lo, n) == Sum([k \in 1 .. n |-> Foo(lo + k - 1) + Foo(lo + k)], n)
Term(lo, k) == CASE k = 1 -> Foo(lo) + Foo(lo + 1)
                 [] k = 2 -> Foo(lo + 1) + Foo(lo + 1)
                 [] OTHER -> Foo(lo + k - 2) + Foo(lo + k - 1)
Lagging(lo, n) == Sum([k \in 1 .. n |-> Term(lo, k)], n)

(* The trapezoids over n + 1 steps are those over n and one more. *)
LEMMA TrapezoidNext ==
  ASSUME NEW lo, NEW n \in Nat, Valued(lo, n + 1)
  PROVE  Trapezoid(lo, n + 1) = Trapezoid(lo, n) + Foo(lo + n) + Foo(lo + n + 1)
<1> DEFINE t(m) == [k \in 1 .. m |-> Foo(lo + k - 1) + Foo(lo + k)]
<1>1. lo \in Int /\ \A x \in lo .. lo + (n + 1) : Foo(x) \in Int  BY DEF Valued
<1>2. Summable(t(n + 1), n + 1)
  <2>1. \A k \in 1 .. n + 1 : lo + k - 1 \in lo .. lo + (n + 1) /\ lo + k \in lo .. lo + (n + 1)
        BY <1>1
  <2> QED  BY <1>1, <2>1 DEF Summable
<1>3. \A k \in 1 .. n : t(n)[k] = t(n + 1)[k]  OBVIOUS
<1>4. t(n + 1)[n + 1] = Foo(lo + (n + 1) - 1) + Foo(lo + (n + 1))  OBVIOUS
<1>5. lo + (n + 1) - 1 = lo + n /\ lo + (n + 1) = lo + n + 1  BY <1>1
<1>6. /\ Trapezoid(lo, n + 1) = Sum(t(n + 1), n + 1)
      /\ Trapezoid(lo, n) = Sum(t(n), n)
      BY DEF Trapezoid
<1>7. Summable(t(n), n)
  <2>1. \A k \in 1 .. n : t(n)[k] = t(n + 1)[k] /\ k \in 1 .. n + 1  BY <1>3
  <2> HIDE DEF t
  <2> QED  BY <1>2, <2>1 DEF Summable
<1>8. Sum(t(n), n) \in Int  BY <1>7, SumType
<1>9. Foo(lo + n) \in Int /\ Foo(lo + n + 1) \in Int  BY <1>1
<1> HIDE DEF t
<1>10. Sum(t(n + 1), n + 1) = Sum(t(n), n) + t(n + 1)[n + 1]  BY <1>2, <1>3, SumNext
<1>11. t(n + 1)[n + 1] = Foo(lo + n) + Foo(lo + n + 1)  BY <1>4, <1>5
<1> QED  BY <1>6, <1>8, <1>9, <1>10, <1>11

(* They add up to an integer. *)
LEMMA TrapezoidType ==
  ASSUME NEW lo, NEW n, Valued(lo, n)
  PROVE  Trapezoid(lo, n) \in Int
<1> DEFINE t == [k \in 1 .. n |-> Foo(lo + k - 1) + Foo(lo + k)]
<1>1. lo \in Int /\ n \in Nat /\ \A x \in lo .. lo + n : Foo(x) \in Int  BY DEF Valued
<1>2. \A k \in 1 .. n : lo + k - 1 \in lo .. lo + n /\ lo + k \in lo .. lo + n  BY <1>1
<1>3. Summable(t, n)  BY <1>1, <1>2 DEF Summable
<1> HIDE DEF t
<1>4. Sum(t, n) \in Int  BY <1>3, SumType
<1> QED  BY <1>4 DEF Trapezoid, t

(* The integral over two intervals in a row. *)
LEMMA TrapezoidSplit ==
  ASSUME NEW lo, NEW n \in Nat, NEW m \in Nat, Valued(lo, n + m)
  PROVE  Trapezoid(lo, n + m) = Trapezoid(lo, n) + Trapezoid(lo + n, m)
<1> DEFINE T == {i \in Nat : i <= m => Trapezoid(lo, n + i) = Trapezoid(lo, n) + Trapezoid(lo + n, i)}
<1>0. lo \in Int /\ \A x \in lo .. lo + (n + m) : Foo(x) \in Int  BY DEF Valued
<1>1. 0 \in T
  <2>1. Trapezoid(lo + n, 0) = 0  BY SumZero DEF Trapezoid
  <2>2. Valued(lo, n)  BY <1>0 DEF Valued
  <2>3. Trapezoid(lo, n) \in Int  BY <2>2, TrapezoidType
  <2>4. n + 0 = n  OBVIOUS
  <2> QED  BY <2>1, <2>3, <2>4
<1>2. \A i \in Nat : i \in T => i + 1 \in T
  <2> SUFFICES ASSUME NEW i \in Nat, i \in T, i + 1 <= m
               PROVE  Trapezoid(lo, n + (i + 1)) = Trapezoid(lo, n) + Trapezoid(lo + n, i + 1)
      OBVIOUS
  <2>1. Valued(lo, (n + i) + 1) /\ Valued(lo + n, i + 1) /\ Valued(lo, n) /\ Valued(lo + n, i)
        BY <1>0 DEF Valued
  <2>2. Trapezoid(lo, (n + i) + 1) = Trapezoid(lo, n + i) + Foo(lo + (n + i)) + Foo(lo + (n + i) + 1)
        BY <2>1, TrapezoidNext
  <2>3. Trapezoid(lo + n, i + 1) = Trapezoid(lo + n, i) + Foo(lo + n + i) + Foo(lo + n + i + 1)
        BY <1>0, <2>1, TrapezoidNext
  <2>4. Trapezoid(lo, n + i) = Trapezoid(lo, n) + Trapezoid(lo + n, i)  OBVIOUS
  <2>5. Trapezoid(lo, n) \in Int /\ Trapezoid(lo + n, i) \in Int  BY <2>1, TrapezoidType
  <2>6. lo + (n + i) = lo + n + i /\ (n + i) + 1 = n + (i + 1)  BY <1>0
  <2>7. Foo(lo + n + i) \in Int /\ Foo(lo + n + i + 1) \in Int  BY <1>0
  <2> QED  BY <2>2, <2>3, <2>4, <2>5, <2>6, <2>7
<1>3. Nat \subseteq T  BY <1>1, <1>2, Induction
<1> QED  BY <1>3

(* The same of the sum that CalcIntegral() computes, which lags one step behind. *)
LEMMA LaggingNext ==
  ASSUME NEW lo, NEW n \in Nat, Valued(lo, n + 1)
  PROVE  Lagging(lo, n + 1) = Lagging(lo, n) + Term(lo, n + 1) /\ Lagging(lo, n) \in Int
         /\ Term(lo, n + 1) \in Int
<1> DEFINE t(m) == [k \in 1 .. m |-> Term(lo, k)]
<1>1. lo \in Int /\ \A x \in lo .. lo + (n + 1) : Foo(x) \in Int  BY DEF Valued
<1>2. \A k \in 1 .. n + 1 : Term(lo, k) \in Int
  <2> TAKE k \in 1 .. n + 1
  <2>1. CASE k = 1  BY <1>1, <2>1 DEF Term
  <2>2. CASE k = 2  BY <1>1, <2>2 DEF Term
  <2>3. CASE k > 2
    <3>1. Foo(lo + k - 2) \in Int /\ Foo(lo + k - 1) \in Int  BY <1>1, <2>3
    <3> QED  BY <2>3, <3>1 DEF Term
  <2> QED  BY <2>1, <2>2, <2>3
<1>3. Summable(t(n + 1), n + 1) /\ Summable(t(n), n)  BY <1>2 DEF Summable
<1>4. \A k \in 1 .. n : t(n)[k] = t(n + 1)[k]  OBVIOUS
<1>5. t(n + 1)[n + 1] = Term(lo, n + 1)  OBVIOUS
<1>6. Lagging(lo, n + 1) = Sum(t(n + 1), n + 1) /\ Lagging(lo, n) = Sum(t(n), n)  BY DEF Lagging
<1>7. n + 1 \in 1 .. n + 1  OBVIOUS
<1> HIDE DEF t
<1>8. Sum(t(n + 1), n + 1) = Sum(t(n), n) + t(n + 1)[n + 1]  BY <1>3, <1>4, SumNext
<1>9. Sum(t(n), n) \in Int  BY <1>3, SumType
<1> QED  BY <1>2, <1>5, <1>6, <1>7, <1>8, <1>9

(* What the lag costs. *)
LEMMA LagError ==
  ASSUME NEW lo, NEW n, Valued(lo, n)
  PROVE  /\ Lagging(lo, n) \in Int
         /\ n < 2 => Lagging(lo, n) = Trapezoid(lo, n)
         /\ n >= 2 => Lagging(lo, n) = Trapezoid(lo, n) + 2 * Foo(lo + 1) - Foo(lo + n - 1) - Foo(lo + n)
<1> DEFINE Error(i) ==
             /\ Lagging(lo, i) \in Int
             /\ i < 2 => Lagging(lo, i) = Trapezoid(lo, i)
             /\ i >= 2 => Lagging(lo, i) = Trapezoid(lo, i) + 2 * Foo(lo + 1) - Foo(lo + i - 1) - Foo(lo + i)
           T == {i \in Nat : i <= n => Error(i)}
<1>0. lo \in Int /\ n \in Nat /\ \A x \in lo .. lo + n : Foo(x) \in Int  BY DEF Valued
<1>1. 0 \in T
  <2>1. Trapezoid(lo, 0) = 0 /\ Lagging(lo, 0) = 0  BY SumZero DEF Trapezoid, Lagging
  <2> QED  BY <2>1
<1>2. \A i \in Nat : i \in T => i + 1 \in T
  <2> SUFFICES ASSUME NEW i \in Nat, Error(i), i + 1 <= n PROVE Error(i + 1)  
      BY <1>0
  <2>1. Valued(lo, i + 1) /\ Valued(lo, i)  BY <1>0 DEF Valued
  <2>2. Trapezoid(lo, i + 1) = Trapezoid(lo, i) + Foo(lo + i) + Foo(lo + i + 1)  BY <2>1, TrapezoidNext
  <2>3. /\ Lagging(lo, i + 1) = Lagging(lo, i) + Term(lo, i + 1)
        /\ Lagging(lo, i) \in Int /\ Term(lo, i + 1) \in Int
        BY <2>1, LaggingNext
  <2>4. Trapezoid(lo, i) \in Int  BY <2>1, TrapezoidType
  <2>5. Foo(lo + i) \in Int /\ Foo(lo + i + 1) \in Int /\ Foo(lo + 1) \in Int
        BY <1>0
  <2>6. CASE i = 0
    <3>1. Term(lo, 1) = Foo(lo) + Foo(lo + 1)  BY DEF Term
    <3>2. lo + i = lo  BY <1>0, <2>6
    <3> QED  BY <1>0, <2>2, <2>3, <2>4, <2>5, <2>6, <3>1, <3>2
  <2>7. CASE i = 1
    <3>1. Term(lo, 2) = Foo(lo + 1) + Foo(lo + 1)  BY DEF Term
    <3>2. lo + (i + 1) - 1 = lo + 1 /\ lo + i = lo + 1 /\ lo + i + 1 = lo + (i + 1)  BY <1>0, <2>7
    <3> QED  BY <1>0, <2>2, <2>3, <2>4, <2>5, <2>7, <3>1, <3>2
  <2>8. CASE i >= 2
    <3>1. Term(lo, i + 1) = Foo(lo + (i + 1) - 2) + Foo(lo + (i + 1) - 1)  BY <2>8 DEF Term
    <3>2. /\ lo + (i + 1) - 1 = lo + i /\ lo + (i + 1) - 2 = lo + i - 1
          /\ lo + i + 1 = lo + (i + 1)
          BY <1>0
    <3>3. Foo(lo + i - 1) \in Int  BY <1>0, <2>8
    <3>4. Lagging(lo, i) = Trapezoid(lo, i) + 2 * Foo(lo + 1) - Foo(lo + i - 1) - Foo(lo + i)
          BY <2>8
    <3> QED  BY <2>2, <2>3, <2>4, <2>5, <2>8, <3>1, <3>2, <3>3, <3>4
  <2> QED  BY <2>6, <2>7, <2>8
<1>3. n \in T  BY <1>0, <1>1, <1>2, Induction
<1> QED  BY <1>0, <1>3

-----------------------------------------------------------------------------
HasValues(a, b) == a \in Int /\ b \in Int /\ \A x \in Between(a, b) : Foo(x) \in Int
IsMonotone(a, b) ==
  \/ \A x, y \in Between(a, b) : x <= y => Foo(x) <= Foo(y)
  \/ \A x, y \in Between(a, b) : x <= y => Foo(x) >= Foo(y)

Area(a, b) == Trapezoid(Least(a, b), Most(a, b) - Least(a, b))
Tolerance(a, b) == 2 * Most(Foo(a) - Foo(b), Foo(b) - Foo(a))
Close(v, a, b) == v - Area(a, b) \in -Tolerance(a, b) .. Tolerance(a, b)

(* Foo has its values at every step of an interval on which it is known. *)
LEMMA ValuedBetween ==
  ASSUME NEW a, NEW b, HasValues(a, b)
  PROVE  Valued(Least(a, b), Most(a, b) - Least(a, b)) /\ Area(a, b) \in Int
<1>1. Valued(Least(a, b), Most(a, b) - Least(a, b))
  <2>1. Least(a, b) + (Most(a, b) - Least(a, b)) = Most(a, b)  BY DEF HasValues, Least, Most
  <2> QED  BY <2>1 DEF HasValues, Valued, Between, Least, Most
<1> QED  BY <1>1, TrapezoidType DEF Area

(* CalcIntegral() is off by no more than the change of a monotone function. *)
LEMMA CalcIntegralClose ==
  ASSUME NEW a, NEW b, HasValues(a, b)
  PROVE  /\ CalcIntegral(a, b) \in Int
         /\ IsMonotone(a, b) => Close(CalcIntegral(a, b), a, b)
<1> DEFINE lo == Least(a, b)
           n == Most(a, b) - lo
<1>1. CalcIntegral(a, b) = Lagging(lo, n)  BY DEF CalcIntegral, Lagging, Term
<1>2. Valued(lo, n) /\ Area(a, b) \in Int  BY ValuedBetween
<1>3. a \in Int /\ b \in Int /\ lo \in Int /\ n \in Nat  BY DEF HasValues, Least, Most
<1>4. Between(a, b) = lo .. lo + n /\ ((a = lo /\ b = lo + n) \/ (b = lo /\ a = lo + n))
      BY <1>3 DEF Between, Least, Most
<1>5. Area(a, b) = Trapezoid(lo, n)  BY DEF Area
<1> HIDE DEF lo, n
<1>6. /\ Lagging(lo, n) \in Int
      /\ n < 2 => Lagging(lo, n) = Trapezoid(lo, n)
      /\ n >= 2 => Lagging(lo, n) = Trapezoid(lo, n) + 2 * Foo(lo + 1) - Foo(lo + n - 1) - Foo(lo + n)
      BY <1>2, LagError
<1>7. ASSUME IsMonotone(a, b) PROVE Close(Lagging(lo, n), a, b)
  <2> DEFINE d == Lagging(lo, n) - Trapezoid(lo, n)
             t == Most(Foo(a) - Foo(b), Foo(b) - Foo(a))
  <2>1. Foo(lo) \in Int /\ Foo(lo + n) \in Int  BY <1>3, <1>2 DEF Valued
  <2>2. t = Most(Foo(lo) - Foo(lo + n), Foo(lo + n) - Foo(lo))  BY <1>4, <2>1 DEF Most
  <2>3. CASE n < 2  
    <3>1. d = 0  BY <1>2, <1>5, <1>6, <2>3
    <3>2. t \in Int /\ t >= 0  BY <2>1, <2>2 DEF Most
    <3> HIDE DEF d, t
    <3>3. d \in -(2 * t) .. 2 * t  BY <3>1, <3>2
    <3> QED  BY <3>3, <1>5 DEF Close, Tolerance, d, t
  <2>4. CASE n >= 2
    <3>1. {lo, lo + 1, lo + n - 1, lo + n} \subseteq Between(a, b)  BY <1>3, <1>4, <2>4
    <3>2. Foo(lo + 1) \in Int /\ Foo(lo + n - 1) \in Int  BY <1>2, <1>3, <2>4 DEF Valued
    <3>3. \/ /\ Foo(lo) <= Foo(lo + 1) /\ Foo(lo + 1) <= Foo(lo + n)
             /\ Foo(lo + 1) <= Foo(lo + n - 1) /\ Foo(lo + n - 1) <= Foo(lo + n)
          \/ /\ Foo(lo) >= Foo(lo + 1) /\ Foo(lo + 1) >= Foo(lo + n)
             /\ Foo(lo + 1) >= Foo(lo + n - 1) /\ Foo(lo + n - 1) >= Foo(lo + n)
          BY <1>3, <1>7, <2>4, <3>1 DEF IsMonotone
    <3>4. d = 2 * Foo(lo + 1) - Foo(lo + n - 1) - Foo(lo + n)
          BY <1>2, <1>5, <1>6, <2>1, <2>4, <3>2
    <3>5. t \in Int /\ d \in -(2 * t) .. 2 * t
      <4> HIDE DEF d, t
      <4> QED  BY <2>1, <2>2, <3>2, <3>3, <3>4 DEF Most
    <3> QED  BY <3>5, <1>5 DEF Close, Tolerance
  <2> QED  BY <1>3, <2>3, <2>4
<1> QED  BY <1>1, <1>6, <1>7

(* The errors of two intervals in a row add up. *)
LEMMA CloseAdds ==
  ASSUME NEW a, NEW b, NEW c, (a <= b /\ b <= c) \/ (c <= b /\ b <= a),
         b \in Int, HasValues(a, c), IsMonotone(a, c),
         NEW v \in Int, NEW u \in Int, Close(v, a, b), Close(u, b, c)
  PROVE  Close(v + u, a, c)
<1>0. a \in Int /\ b \in Int /\ c \in Int  BY DEF HasValues
<1>1. HasValues(a, b) /\ HasValues(b, c)
      BY <1>0 DEF HasValues, Between, Least, Most
<1>2. Area(a, b) \in Int /\ Area(b, c) \in Int /\ Area(a, c) \in Int
      BY <1>1, ValuedBetween
<1>3. Area(a, c) = Area(a, b) + Area(b, c)
  <2>1. CASE a <= b /\ b <= c
    <3> DEFINE n == b - a
               m == c - b
    <3>1. n \in Nat /\ m \in Nat /\ n + m = c - a /\ a + n = b  BY <1>0, <2>1
    <3>2. Least(a, c) = a /\ Most(a, c) = c /\ Least(a, b) = a /\ Most(a, b) = b
          /\ Least(b, c) = b /\ Most(b, c) = c
          BY <1>0, <2>1 DEF Least, Most
    <3>3. Valued(a, n + m)  BY <3>1, <3>2, ValuedBetween
    <3> HIDE DEF n, m
    <3>4. Trapezoid(a, n + m) = Trapezoid(a, n) + Trapezoid(a + n, m)
          BY <3>1, <3>3, TrapezoidSplit
    <3> QED  BY <3>1, <3>2, <3>4 DEF Area, n, m
  <2>2. CASE c <= b /\ b <= a
    <3> DEFINE n == b - c
               m == a - b
    <3>1. n \in Nat /\ m \in Nat /\ n + m = a - c /\ c + n = b  BY <1>0, <2>2
    <3>2. Least(a, c) = c /\ Most(a, c) = a /\ Least(a, b) = b /\ Most(a, b) = a
          /\ Least(b, c) = c /\ Most(b, c) = b
          BY <1>0, <2>2 DEF Least, Most
    <3>3. Valued(c, n + m)  BY <3>1, <3>2, ValuedBetween
    <3>5. Area(a, c) = Trapezoid(c, n + m) /\ Area(a, b) = Trapezoid(b, m) /\ Area(b, c) = Trapezoid(c, n)
          BY <3>1, <3>2 DEF Area
    <3> HIDE DEF n, m
    <3>4. Trapezoid(c, n + m) = Trapezoid(c, n) + Trapezoid(c + n, m)
          BY <3>1, <3>3, TrapezoidSplit
    <3> QED  BY <3>1, <3>4, <3>5, <1>2
  <2> QED  BY <2>1, <2>2
<1>4. Foo(a) \in Int /\ Foo(b) \in Int /\ Foo(c) \in Int
      BY <1>0 DEF HasValues, Between, Least, Most
<1>5. \/ Foo(a) <= Foo(b) /\ Foo(b) <= Foo(c)
      \/ Foo(a) >= Foo(b) /\ Foo(b) >= Foo(c)
  <2>1. {a, b, c} \subseteq Between(a, c)  BY <1>0 DEF Between, Least, Most
  <2> QED  BY <1>0, <2>1 DEF IsMonotone
<1>6. Tolerance(a, c) = Tolerance(a, b) + Tolerance(b, c)
      /\ Tolerance(a, b) \in Int /\ Tolerance(b, c) \in Int
  <2> DEFINE Change(x, y) == Most(Foo(x) - Foo(y), Foo(y) - Foo(x))
  <2>1. Change(a, b) \in Int /\ Change(b, c) \in Int  BY <1>4 DEF Most
  <2>2. Change(a, c) = Change(a, b) + Change(b, c)  BY <1>4, <1>5 DEF Most
  <2>3. /\ Tolerance(a, b) = 2 * Change(a, b) /\ Tolerance(b, c) = 2 * Change(b, c)
        /\ Tolerance(a, c) = 2 * Change(a, c)
        BY DEF Tolerance
  <2> HIDE DEF Change
  <2> QED  BY <2>1, <2>2, <2>3
<1> QED  BY <1>2, <1>3, <1>6 DEF Close

-----------------------------------------------------------------------------
Ready == {"arguments", "cpus", "threads", "infosp", "attrs", "affinity"}
Exits == {"exit_all", "exit_attrs", "exit_infosp", "exit_threads"}
Ends == {"returned", "printed", "failed"}

(* All of the state that the properties depend on. *)
Types ==
  /\ n_threads \in Int /\ at \in Int
  /\ \E m \in Machines : core_ids = m.core_ids /\ n_cpus = m.n_cpus
  /\ main \in Ready \cup Exits \cup Ends \cup {"create", "join", "crashed"}
  /\ thread \in [Threads -> {"none", "read", "write", "done"}]

(* What a machine says of its processors. *)
LEMMA IdsOfMachine == ASSUME Types PROVE core_ids \in Ids /\ n_cpus \in Nat \ {0}
  /\ (core_ids = <<>> \/ Len(core_ids) = n_cpus)
BY MachinesAssumption DEF Types, Ids

-----------------------------------------------------------------------------
(* If no core is passed over, every array of processors is in its place. *)
InOrder(ids) == \A p \in DOMAIN ids : ids[p] <= Cardinality({ids[q] : q \in 1 .. p - 1})

(* The cores of the first n processors. *)
Seen(ids, n) == {ids[p + 1] : p \in 0 .. n - 1}

(* cpu lists those of the first n processors that are on the core c. *)
Placed(cpu, ids, c, n) ==
  /\ \A p \in 0 .. n - 1 : ids[p + 1] = c => \E j \in 1 .. Len(cpu) : cpu[j] = p
  /\ \A j \in 1 .. Len(cpu) : cpu[j] \in 0 .. n - 1 /\ ids[cpu[j] + 1] = c
  /\ \A j, k \in 1 .. Len(cpu) : cpu[j] = cpu[k] => j = k

Grouped(info, ids, n) ==
  /\ Seen(ids, n) = 0 .. info.n_cpu - 1
  /\ \A c \in 0 .. info.n_cpu - 1 : Placed(info.cpus[c], ids, c, n)
  /\ ~info.lost /\ \A c \in DOMAIN info.cpus : c >= info.n_cpu => info.cpus[c] = <<>>

(* A core that comes for the first time has the next number. *)
LEMMA NextCore ==
  ASSUME NEW ids \in Ids, NEW n \in 0 .. Len(ids) - 1, NEW K \in Nat, InOrder(ids),
         Seen(ids, n) = 0 .. K - 1
  PROVE  /\ ids[n + 1] \in 0 .. K
         /\ (\A j \in 0 .. n - 1 : ids[j + 1] # ids[n + 1]) <=> ids[n + 1] = K
         /\ Seen(ids, n + 1) = {ids[n + 1]} \cup 0 .. K - 1
<1> USE DEF Seen
<1>1. ids \in Seq(Nat) /\ n + 1 \in 1 .. Len(ids) /\ ids[n + 1] \in Nat  BY DEF Ids
<1>2. {ids[q] : q \in 1 .. n} = 0 .. K - 1
  <2>1. {ids[q] : q \in 1 .. n} \subseteq {ids[p + 1] : p \in 0 .. n - 1}
    <3> SUFFICES ASSUME NEW q \in 1 .. n PROVE \E p \in 0 .. n - 1 : ids[q] = ids[p + 1]  OBVIOUS
    <3>1. q - 1 \in 0 .. n - 1 /\ q - 1 + 1 = q  OBVIOUS
    <3> QED  BY <3>1
  <2>2. {ids[p + 1] : p \in 0 .. n - 1} \subseteq {ids[q] : q \in 1 .. n}
    <3> SUFFICES ASSUME NEW p \in 0 .. n - 1 PROVE \E q \in 1 .. n : ids[p + 1] = ids[q]  OBVIOUS
    <3>1. p + 1 \in 1 .. n  OBVIOUS
    <3> QED  BY <3>1
  <2> QED  BY <2>1, <2>2
<1>3. Cardinality(0 .. K - 1) = K
  <2>1. K - 1 \in Int /\ (0 > K - 1 => K = 0) /\ K - 1 - 0 + 1 = K  OBVIOUS
  <2>2. Cardinality(0 .. K - 1) = IF 0 > K - 1 THEN 0 ELSE K - 1 - 0 + 1  BY <2>1, FS_Interval
  <2> QED  BY <2>1, <2>2
<1>4. ids[n + 1] <= K
  <2>1. ids[n + 1] <= Cardinality({ids[q] : q \in 1 .. n + 1 - 1})  BY <1>1 DEF InOrder
  <2>2. n + 1 - 1 = n  OBVIOUS
  <2> QED  BY <1>2, <1>3, <2>1, <2>2
<1>5. (\A j \in 0 .. n - 1 : ids[j + 1] # ids[n + 1]) <=> ids[n + 1] \notin 0 .. K - 1
  <2>1. (\A j \in 0 .. n - 1 : ids[j + 1] # ids[n + 1])
          <=> ids[n + 1] \notin {ids[p + 1] : p \in 0 .. n - 1}
        OBVIOUS
  <2> QED  BY <2>1
<1>6. {ids[p + 1] : p \in 0 .. n} = {ids[n + 1]} \cup {ids[p + 1] : p \in 0 .. n - 1}
  <2>1. 0 .. n = {n} \cup 0 .. n - 1  OBVIOUS
  <2> QED  BY <2>1, Zenon
<1>7. n + 1 - 1 = n  OBVIOUS
<1> QED  BY <1>1, <1>4, <1>5, <1>6, <1>7

(* The invariant of the loop of get_mycpu_info(), if no core is passed over. *)
LEMMA AddProcessorGrouped ==
  ASSUME NEW ids \in Ids, NEW n \in 0 .. Len(ids) - 1, NEW info \in Infos(ids), InOrder(ids),
         Sound(info, n, Len(ids)), Grouped(info, ids, n)
  PROVE  Grouped(AddProcessor(info, ids, n), ids, n + 1)
<1> DEFINE L == Len(ids)
           K == info.n_cpu
           c0 == ids[n + 1]
           isNew == \A j \in 0 .. n - 1 : ids[j + 1] # c0
           after == AddProcessor(info, ids, n)
           cpus == after.cpus
<1>0. L \in Nat /\ n \in Nat /\ n < L /\ K \in 0 .. n /\ info.cpus \in [0 .. L - 1 -> Seq(0 .. L - 1)]
      /\ ids \in Seq(Nat)
      BY DEF Ids, Sound
<1>g. /\ Seen(ids, n) = 0 .. K - 1 /\ \A c \in 0 .. K - 1 : Placed(info.cpus[c], ids, c, n)
      /\ ~info.lost /\ \A c \in DOMAIN info.cpus : c >= K => info.cpus[c] = <<>>
      BY DEF Grouped
<1>1. c0 \in 0 .. K /\ (isNew <=> c0 = K) /\ Seen(ids, n + 1) = {c0} \cup 0 .. K - 1
  <2>1. K \in Nat  BY <1>0
  <2> HIDE DEF K
  <2> QED  BY <1>g, <2>1, NextCore
<1>s. n + 1 - 1 = n  OBVIOUS
<1>n. /\ \A p \in 0 .. n : p \in 0 .. n - 1 \/ p = n
      /\ 0 .. n - 1 \subseteq 0 .. n /\ n \in 0 .. n /\ n \notin 0 .. n - 1
      BY <1>0
(* What has been placed stays, where the processor n is on another core. *)
<1>2. ASSUME NEW c \in 0 .. K - 1, c # c0 PROVE Placed(info.cpus[c], ids, c, n + 1)
  <2> DEFINE cpu == info.cpus[c]
  <2>1. Placed(cpu, ids, c, n)  BY <1>g
  <2> HIDE DEF cpu
  <2>2. \A p \in 0 .. n : ids[p + 1] = c => \E j \in 1 .. Len(cpu) : cpu[j] = p
        BY <1>2, <1>n, <2>1 DEF Placed
  <2>3. \A j \in 1 .. Len(cpu) : cpu[j] \in 0 .. n /\ ids[cpu[j] + 1] = c
        BY <1>n, <2>1 DEF Placed
  <2>4. \A j, k \in 1 .. Len(cpu) : cpu[j] = cpu[k] => j = k  BY <2>1 DEF Placed
  <2>5. Placed(cpu, ids, c, n + 1)  BY <1>s, <2>2, <2>3, <2>4 DEF Placed
  <2> QED  BY <2>5 DEF cpu
<1>3. CASE isNew
  <2>1. /\ after.n_cpu = K + 1 /\ cpus = [info.cpus EXCEPT ![K] = <<n>>]
        /\ after.lost = (info.lost \/ info.cpus[K] # <<>>)
        BY <1>3 DEF AddProcessor, FirstOfCore
  <2>6. ~after.lost
    <3>1. K \in DOMAIN info.cpus /\ K >= K  BY <1>0
    <3>2. info.cpus[K] = <<>>  BY <1>g, <3>1
    <3> HIDE DEF after, K
    <3> QED  BY <1>g, <2>1, <3>2
  <2>7. \A c \in DOMAIN cpus : c >= K + 1 => cpus[c] = <<>>
    <3> SUFFICES ASSUME NEW c \in DOMAIN cpus, c >= K + 1 PROVE cpus[c] = <<>>  OBVIOUS
    <3>1. c \in DOMAIN info.cpus /\ c # K /\ c >= K  BY <1>0, <2>1
    <3>2. cpus[c] = info.cpus[c]
      <4> HIDE DEF K, L, after
      <4> QED  BY <1>0, <2>1, <3>1
    <3> QED  BY <1>g, <3>1, <3>2
  <2> HIDE DEF after, cpus
  <2>2. c0 = K  BY <1>1, <1>3
  <2> HIDE DEF isNew, c0
  <2>3. Seen(ids, n + 1) = 0 .. K
    <3>1. {K} \cup 0 .. K - 1 = 0 .. K  BY <1>0
    <3> QED  BY <1>1, <2>2, <3>1
  <2>4. ASSUME NEW c \in 0 .. K PROVE Placed(cpus[c], ids, c, n + 1)
    <3>1. c \in 0 .. L - 1  BY <1>0
    <3>2. CASE c = K
      <4>1. cpus[c] = <<n>>  BY <1>0, <2>1, <3>1, <3>2
      <4>2. Len(<<n>>) = 1 /\ <<n>>[1] = n  OBVIOUS
      <4>3. \A p \in 0 .. n : ids[p + 1] = c => p = n
        <5> SUFFICES ASSUME NEW p \in 0 .. n, ids[p + 1] = c, p # n PROVE FALSE  OBVIOUS
        <5>1. p \in 0 .. n - 1  BY <1>0
        <5>2. ids[p + 1] \in 0 .. K - 1  BY <1>g, <5>1 DEF Seen
        <5> QED  BY <1>0, <3>2, <5>2
      <4>4. 1 \in 1 .. 1 /\ \A j \in 1 .. 1 : j = 1  OBVIOUS
      <4>6. Placed(<<n>>, ids, c, n + 1)
        <5> DEFINE s == <<n>>
        <5>1. Len(s) = 1 /\ s[1] = n  BY <4>2
        <5>2. ids[n + 1] = c  BY <2>2, <3>2 DEF c0
        <5> HIDE DEF s
        <5> QED  BY <1>s, <1>n, <4>3, <4>4, <5>1, <5>2 DEF Placed
      <4> QED  BY <4>1, <4>6
    <3>3. CASE c # K
      <4>1. c \in 0 .. K - 1  BY <1>0, <3>3
      <4>2. cpus[c] = info.cpus[c]
        <5> HIDE DEF K, L
        <5> QED  BY <1>0, <2>1, <3>1, <3>3
      <4> QED  BY <1>2, <2>2, <3>3, <4>1, <4>2
    <3> QED  BY <3>2, <3>3
  <2>5. 0 .. after.n_cpu - 1 = 0 .. K  BY <1>0, <2>1
  <2>8. Grouped(after, ids, n + 1)
    <3>1. \A c \in 0 .. K : Placed(after.cpus[c], ids, c, n + 1)  BY <2>4 DEF cpus
    <3>2. \A c \in DOMAIN after.cpus : c >= after.n_cpu => after.cpus[c] = <<>>
          BY <2>1, <2>7 DEF cpus
    <3> QED  BY <2>3, <2>5, <2>6, <3>1, <3>2 DEF Grouped
  <2> QED  BY <2>8 DEF after
<1>4. CASE ~isNew
  <2>0. after = [info EXCEPT !.cpus[c0] = Append(@, n)]  BY <1>4 DEF AddProcessor, FirstOfCore
  <2>1. /\ after.n_cpu = K /\ cpus = [info.cpus EXCEPT ![c0] = Append(info.cpus[c0], n)]
        /\ after.lost = info.lost
        BY <2>0 DEF Infos
  <2> HIDE DEF after, cpus
  <2>2. c0 \in 0 .. K - 1  BY <1>0, <1>1, <1>4
  <2>c. ids[n + 1] = c0  OBVIOUS
  <2> HIDE DEF isNew, c0
  <2>6. \A c \in DOMAIN cpus : c >= K => cpus[c] = <<>>
    <3> SUFFICES ASSUME NEW c \in DOMAIN cpus, c >= K PROVE cpus[c] = <<>>  OBVIOUS
    <3>1. c \in DOMAIN info.cpus /\ c # c0  BY <1>0, <2>1, <2>2
    <3>2. cpus[c] = info.cpus[c]
      <4> HIDE DEF K, L
      <4> QED  BY <1>0, <2>1, <3>1
    <3> QED  BY <1>g, <3>1, <3>2
  <2>3. Seen(ids, n + 1) = 0 .. K - 1  BY <1>1, <2>2
  <2>4. ASSUME NEW c \in 0 .. K - 1 PROVE Placed(cpus[c], ids, c, n + 1)
    <3>1. c \in 0 .. L - 1  BY <1>0
    <3>2. CASE c = c0
      <4> DEFINE old == info.cpus[c0]
                 new == Append(old, n)
      <4>1. cpus[c] = new  BY <1>0, <2>1, <3>1, <3>2
      <4>2. old \in Seq(0 .. L - 1)  BY <1>0, <3>1, <3>2
      <4>4. Placed(old, ids, c0, n)  BY <1>g, <2>2
      <4> HIDE DEF old
      <4>3. /\ Len(old) \in Nat /\ Len(new) = Len(old) + 1 /\ new[Len(old) + 1] = n
            /\ \A j \in 1 .. Len(old) : new[j] = old[j]
        <5> HIDE DEF L
        <5> QED  BY <4>2
      <4> DEFINE l == Len(old)
      <4>5. l \in Nat /\ Len(new) = l + 1  BY <4>3
      <4> HIDE DEF new, l
      <4>6. /\ \A j \in 1 .. l + 1 : j \in 1 .. l \/ j = l + 1
            /\ l + 1 \in 1 .. l + 1 /\ 1 .. l \subseteq 1 .. l + 1
            BY <4>5
      <4>7. new[l + 1] = n /\ \A j \in 1 .. l : new[j] = old[j]  BY <4>3 DEF l
      <4>8. /\ \A p \in 0 .. n - 1 : ids[p + 1] = c0 => \E j \in 1 .. l : old[j] = p
            /\ \A j \in 1 .. l : old[j] \in 0 .. n - 1 /\ ids[old[j] + 1] = c0
            /\ \A j, k \in 1 .. l : old[j] = old[k] => j = k
            BY <4>4 DEF Placed, l
      <4>9. \A p \in 0 .. n : ids[p + 1] = c0 => \E j \in 1 .. l + 1 : new[j] = p
            BY <1>n, <4>6, <4>7, <4>8
      <4>10. \A j \in 1 .. l + 1 : new[j] \in 0 .. n /\ ids[new[j] + 1] = c0
            BY <1>n, <2>c, <4>6, <4>7, <4>8
      <4>11. \A j, k \in 1 .. l + 1 : new[j] = new[k] => j = k
        <5> SUFFICES ASSUME NEW j \in 1 .. l + 1, NEW k \in 1 .. l + 1, new[j] = new[k] PROVE j = k
            OBVIOUS
        <5>1. CASE j \in 1 .. l /\ k \in 1 .. l  BY <4>7, <4>8, <5>1
        <5>2. CASE j = l + 1 /\ k \in 1 .. l  BY <1>n, <4>7, <4>8, <5>2
        <5>3. CASE k = l + 1 /\ j \in 1 .. l  BY <1>n, <4>7, <4>8, <5>3
        <5> QED  BY <4>6, <5>1, <5>2, <5>3
      <4>12. Placed(new, ids, c0, n + 1)  BY <1>s, <4>5, <4>9, <4>10, <4>11 DEF Placed
      <4> QED  BY <3>2, <4>1, <4>12
    <3>3. CASE c # c0
      <4>1. cpus[c] = info.cpus[c]  BY <1>0, <2>1, <3>1, <3>3
      <4> QED  BY <1>2, <3>3, <4>1
    <3> QED  BY <3>2, <3>3
  <2>5. Grouped(after, ids, n + 1)
    <3>1. \A c \in 0 .. K - 1 : Placed(after.cpus[c], ids, c, n + 1)  BY <2>4 DEF cpus
    <3>2. \A c \in DOMAIN after.cpus : c >= after.n_cpu => after.cpus[c] = <<>>
          BY <2>1, <2>6 DEF cpus
    <3> QED  BY <1>g, <2>1, <2>3, <3>1, <3>2 DEF Grouped
  <2> QED  BY <2>5 DEF after
<1> QED  BY <1>3, <1>4

(* So every processor is listed once, with its core. *)
THEOREM CpuInfoGrouped ==
  ASSUME NEW ids \in Ids, InOrder(ids)
  PROVE  Grouped(CpuInfo(ids), ids, Len(ids))
<1>0. Len(ids) \in Nat /\ ids \in Seq(Nat)  BY DEF Ids
<1>1. PICK a \in [0 .. Len(ids) -> Infos(ids)] :
           /\ a[0] = EmptyInfo(ids)
           /\ \A n \in 1 .. Len(ids) : a[n] = AddProcessor(a[n - 1], ids, n - 1)
           /\ CpuInfo(ids) = a[Len(ids)]
      BY <1>0, CpuInfoSteps
<1> DEFINE T == {n \in Nat : n <= Len(ids) => Sound(a[n], n, Len(ids)) /\ Grouped(a[n], ids, n)}
<1>2. 0 \in T
  <2>1. a[0].n_cpu = 0 /\ a[0].cpus = [c \in 0 .. Len(ids) - 1 |-> <<>>] /\ ~a[0].lost
        BY <1>1 DEF EmptyInfo
  <2>2. a[0].cpus \in [0 .. Len(ids) - 1 -> Seq(0 .. Len(ids) - 1)]
    <3>1. <<>> \in Seq(0 .. Len(ids) - 1)  OBVIOUS
    <3> QED  BY <2>1, <3>1
  <2>3. Sound(a[0], 0, Len(ids))  BY <2>1, <2>2 DEF Sound
  <2>4. 0 .. 0 - 1 = {}  OBVIOUS
  <2>5. Grouped(a[0], ids, 0)  BY <2>1, <2>4 DEF Grouped, Seen
  <2> QED  BY <2>3, <2>5
<1>3. \A n \in Nat : n \in T => n + 1 \in T
  <2> SUFFICES ASSUME NEW n \in T, n + 1 <= Len(ids)
               PROVE  Sound(a[n + 1], n + 1, Len(ids)) /\ Grouped(a[n + 1], ids, n + 1)
      OBVIOUS
  <2>1. /\ n \in 0 .. Len(ids) - 1 /\ a[n] \in Infos(ids) /\ Sound(a[n], n, Len(ids))
        /\ Grouped(a[n], ids, n)
        BY <1>0
  <2>2. a[n + 1] = AddProcessor(a[n], ids, n)  BY <1>0, <1>1, <2>1
  <2> QED  BY <2>1, <2>2, AddProcessorSound, AddProcessorGrouped
<1>4. Len(ids) \in T  BY <1>0, <1>2, <1>3, Induction
<1> QED  BY <1>1, <1>4

LEMMA NoneAstray ==
  ASSUME Types, Numbered, cpuInfo = CpuInfo(core_ids)
  PROVE  ~Astray(cpuInfo)
<1>1. core_ids \in Ids /\ InOrder(core_ids)  BY IdsOfMachine DEF Numbered, InOrder
<1>2. Grouped(cpuInfo, core_ids, Len(core_ids)) /\ Sound(cpuInfo, Len(core_ids), Len(core_ids))
      BY <1>1, CpuInfoGrouped, CpuInfoSound
<1> QED  BY <1>2 DEF Grouped, Sound, Astray

-----------------------------------------------------------------------------
(* At each step of the main thread it is known what is allocated; pthread_attr_init() *)
(* is the exception, and in the end what get_mycpu_info() has left behind.            *)
Holds(what) ==
  allocated = what \/ (allocated = what \cup {"attrs"} /\ failed = "pthread_attr_init")

Owned ==
  /\ main \in {"arguments", "cpus"} => allocated = {}
  /\ main = "threads" => allocated = {"cpus", "processors"}
  /\ main = "infosp" => allocated = {"cpus", "processors", "threads"}
  /\ main = "attrs" => allocated = {"cpus", "processors", "threads", "infosp"}
  /\ main \in {"affinity", "create", "join", "exit_all"} =>
       allocated = {"cpus", "processors", "threads", "infosp", "attrs"}
  /\ main = "exit_attrs" => Holds({"cpus", "processors", "threads", "infosp"})
  /\ main = "exit_infosp" => Holds({"cpus", "processors", "threads"})
  /\ main = "exit_threads" => Holds({"cpus", "processors"})
  /\ NothingLeaks

Caused ==
  \/ n_threads < 0 \/ core_ids = <<>> \/ cache_line = 0
  \/ failed = "popen"
  \/ n_threads < n_cpus
  \/ failed = "pthread_create" /\ \E i \in Threads : thread[i] # "none"

(* Without a cause for a crash no thread is at work when the memory is freed. *)
Waited ==
  /\ main \in Ready \cup {"create", "join"} => error = "E_SUCCESS" /\ failed = "none"
  /\ main \in Ready => affinity = <<>> /\ \A i \in Threads : thread[i] = "none"
  /\ main \in {"threads", "infosp", "attrs", "affinity", "create", "join"} \cup Exits =>
       cpuInfo = CpuInfo(core_ids)
  /\ main = "join" => \A i \in Threads : i < at => thread[i] = "done"
  /\ ~Caused => /\ main # "crashed"
                /\ main \in Exits \cup Ends => \A i \in Threads : thread[i] \in {"none", "done"}

IInv == Types /\ Owned /\ Waited

-----------------------------------------------------------------------------
(* IInv is inductive: it holds at first, *)
LEMMA InitIInv == Init => IInv
<1> SUFFICES ASSUME Init PROVE IInv  OBVIOUS
<1>1. Types
  <2>1. n_threads \in Int  BY MaxThreadsAssumption DEF Init
  <2> QED  BY <2>1 DEF Init, Types, Ready
<1>2. Owned  BY DEF Init, Owned, NothingLeaks
<1>3. Waited  BY DEF Init, Waited, Ready, Exits, Ends
<1> QED  BY <1>1, <1>2, <1>3 DEF IInv

(* Threads, and whatever else the arguments decide, stay. *)
LEMMA TypesKept ==
  ASSUME Types, UNCHANGED arguments, at' \in Int,
         main' \in Ready \cup Exits \cup Ends \cup {"create", "join", "crashed"},
         thread' \in [Threads -> {"none", "read", "write", "done"}]
  PROVE  Types'
<1>1. Threads' = Threads  BY DEF arguments, Threads, NThreadCreate
<1> QED  BY <1>1 DEF Types, arguments

(* A step of the main thread that leaves the threads alone. *)
LEMMA CausesKept ==
  ASSUME UNCHANGED <<arguments, thread>>, failed = "none" \/ failed' = failed
  PROVE  Threads' = Threads /\ (Caused => Caused')
<1>1. Threads' = Threads  BY DEF arguments, Threads, NThreadCreate
<1> QED  BY <1>1 DEF Caused, arguments

(* and each step keeps it: those up to the attributes, *)
LEMMA StartKeeps ==
  ASSUME IInv, CheckArguments \/ GetCpuInfo \/ AllocateThreads \/ AllocateInfos \/ AllocateAttrs
  PROVE  IInv'
<1>t. Types /\ Owned /\ Waited  BY DEF IInv
<1>0. /\ UNCHANGED <<arguments, at, thread, res, affinity>> /\ main \in Ready
      /\ error = "E_SUCCESS" /\ failed = "none"
      BY <1>t DEF CheckArguments, GetCpuInfo, AllocateThreads, AllocateInfos, AllocateAttrs,
                  tables, Ready, Waited
<1>1. main' \in Ready \cup Exits \cup Ends \cup {"crashed"}
      BY DEF CheckArguments, GetCpuInfo, AllocateThreads, AllocateInfos, AllocateAttrs,
             Fails, Succeeds, Crashes, Ready, Exits, Ends
<1>2. Types'  BY <1>t, <1>0, <1>1, TypesKept DEF Types
<1>3. Threads' = Threads /\ (Caused => Caused')  BY <1>0, CausesKept
<1>4. affinity' = <<>> /\ \A i \in Threads' : thread'[i] = "none"
      BY <1>t, <1>0, <1>3 DEF Waited
<1>5. Owned'
  <2>1. CASE CheckArguments  BY <1>t, <2>1 DEF CheckArguments, Fails, Succeeds, Owned, Holds, Ends, NothingLeaks
  <2>2. CASE GetCpuInfo
    <3>1. \A i : Leftover(i) \subseteq {"processors"}  BY DEF Leftover
    <3> QED  BY <1>t, <2>2, <3>1 DEF GetCpuInfo, Fails, Succeeds, Owned, Holds, Ends, NothingLeaks
  <2>3. CASE AllocateThreads
        BY <1>t, <2>3 DEF AllocateThreads, Fails, Succeeds, Owned, Holds, Ends, NothingLeaks
  <2>4. CASE AllocateInfos
        BY <1>t, <2>4 DEF AllocateInfos, Fails, Succeeds, Crashes, Owned, Holds, Ends, NothingLeaks
  <2>5. CASE AllocateAttrs
        BY <1>t, <1>4, <2>5 DEF AllocateAttrs, Fails, Succeeds, Owned, Holds, Ends, NothingLeaks
  <2> QED  BY <2>1, <2>2, <2>3, <2>4, <2>5
<1>6. Waited'
  <2>0. core_ids' = core_ids  BY <1>0 DEF arguments
  <2>1. /\ main' \in Ready \cup {"create", "join"} => error' = "E_SUCCESS" /\ failed' = "none"
        /\ main' \in {"threads", "infosp", "attrs", "affinity", "create", "join"} \cup Exits =>
             cpuInfo' = CpuInfo(core_ids)
        /\ main' = "crashed" => n_threads' < 0 \/ cache_line' = 0 \/ failed' = "popen"
        /\ main' # "join"
    <3>1. CASE CheckArguments
          BY <1>t, <1>0, <3>1 DEF CheckArguments, Fails, Succeeds, Ready, Exits, outcome
    <3>2. CASE GetCpuInfo
          BY <1>t, <1>0, <3>2 DEF GetCpuInfo, Fails, Succeeds, Ready, Exits, outcome
    <3>3. CASE AllocateThreads
          BY <1>t, <1>0, <3>3 DEF AllocateThreads, Fails, Succeeds, Waited, Ready, Exits, outcome, tables
    <3>4. CASE AllocateInfos
          BY <1>t, <1>0, <3>4 DEF AllocateInfos, Fails, Succeeds, Crashes, Waited, Ready, Exits, outcome,
             arguments
    <3>5. CASE AllocateAttrs
          BY <1>t, <1>0, <3>5 DEF AllocateAttrs, Fails, Succeeds, Waited, Ready, Exits, outcome, tables
    <3> QED  BY <3>1, <3>2, <3>3, <3>4, <3>5
  <2> QED  BY <1>4, <2>0, <2>1 DEF Waited, Caused
<1> QED  BY <1>2, <1>5, <1>6 DEF IInv

(* the binding of the threads, *)
LEMMA SetAttrsKeeps ==
  ASSUME IInv, SetAttrs
  PROVE  IInv'
<1>t. Types /\ Owned /\ Waited  BY DEF IInv
<1>0. /\ main = "affinity" /\ error = "E_SUCCESS"
      /\ UNCHANGED <<arguments, at, allocated, cpuInfo, infosp, thread, res>>
      /\ main' \in {"crashed", "create", "exit_all"}
      BY <1>t DEF SetAttrs, Waited, Ready, Succeeds, Fails, Crashes
<1>1. Types'  BY <1>t, <1>0, TypesKept DEF Types, Exits
<1>2. Threads' = Threads  BY <1>0 DEF arguments, Threads, NThreadCreate
<1>3. \A i \in Threads' : thread'[i] = "none"  BY <1>t, <1>0, <1>2 DEF Waited, Ready
<1>4. Owned'  BY <1>t, <1>0 DEF Owned, NothingLeaks
<1>5. /\ main' = "create" => error' = "E_SUCCESS" /\ failed' = "none"
      /\ cpuInfo' = CpuInfo(core_ids')
      BY <1>t, <1>0 DEF SetAttrs, Succeeds, Fails, Crashes, outcome, Waited, Ready, arguments
<1>6. main' = "crashed" => core_ids' = <<>>
  <2>1. main' = "crashed" => cpuInfo.n_cpu = 0  BY DEF SetAttrs, Succeeds, Fails, Crashes
  <2>2. cpuInfo = CpuInfo(core_ids)  BY <1>t, <1>0 DEF Waited
  <2>3. core_ids \in Ids  BY <1>t, IdsOfMachine
  <2>4. core_ids' = core_ids  BY <1>0 DEF arguments
  <2>5. Len(core_ids) > 0 => CpuInfo(core_ids).n_cpu > 0  BY <2>3, CpuInfoSound DEF Sound
  <2>6. core_ids # <<>> => Len(core_ids) > 0  BY <2>3 DEF Ids
  <2> QED  BY <2>1, <2>2, <2>4, <2>5, <2>6
<1>7. Waited'  BY <1>0, <1>3, <1>5, <1>6 DEF Waited, Caused, Ready, Exits, Ends
<1> QED  BY <1>1, <1>4, <1>7 DEF IInv

(* their creation, *)
LEMMA CreateKeeps ==
  ASSUME IInv, Create
  PROVE  IInv'
<1>t. Types /\ Owned /\ Waited  BY DEF IInv
<1>0. /\ main = "create" /\ error = "E_SUCCESS" /\ failed = "none" /\ at \in Threads
      /\ UNCHANGED <<arguments, allocated, tables, res>>
      /\ cpuInfo' = CpuInfo(core_ids')
      BY <1>t DEF Create, Waited, tables, arguments
<1>1. Threads' = Threads  BY <1>0 DEF arguments, Threads, NThreadCreate
<1>2. CASE /\ thread' = [thread EXCEPT ![at] = "read"] /\ at' = at + 1
           /\ Succeeds("create")
  <2>1. main' = "create" /\ error' = error /\ failed' = failed  BY <1>2 DEF Succeeds, outcome
  <2>2. Types'  BY <1>t, <1>0, <1>2, <2>1, TypesKept DEF Types
  <2>3. Owned'  BY <1>t, <1>0, <2>1 DEF Owned, NothingLeaks
  <2>4. Waited'  BY <1>0, <2>1 DEF Waited, Ready, Exits, Ends
  <2> QED  BY <2>2, <2>3, <2>4 DEF IInv
<1>3. CASE Fails("pthread_create", "E_THREAD", "exit_all") /\ UNCHANGED <<thread, at>>
  <2>1. main' = "exit_all" /\ error' = "E_THREAD" /\ failed' = "pthread_create"  BY <1>3 DEF Fails
  <2>2. Types'  BY <1>t, <1>0, <1>3, <2>1, TypesKept DEF Types, Exits
  <2>3. Owned'  BY <1>t, <1>0, <2>1 DEF Owned, NothingLeaks
  <2>4. Waited'  BY <1>0, <2>1 DEF Waited, Caused, Ready, Exits, Ends
  <2> QED  BY <2>2, <2>3, <2>4 DEF IInv
<1> QED  BY <1>2, <1>3 DEF Create

(* the wait for them, *)
LEMMA JoinKeeps ==
  ASSUME IInv, AllCreated \/ Join \/ AllJoined
  PROVE  IInv'
<1>t. Types /\ Owned /\ Waited  BY DEF IInv
<1>0. /\ main \in {"create", "join"} /\ error' = error /\ error = "E_SUCCESS"
      /\ failed' = failed /\ failed = "none"
      /\ UNCHANGED <<arguments, allocated, tables, thread>>
      /\ main' \in {"join", "exit_all"} /\ at' \in Int
      /\ cpuInfo' = CpuInfo(core_ids')
      BY <1>t DEF AllCreated, Join, AllJoined, Types, Waited, outcome, arguments, tables
<1>1. Types'  BY <1>t, <1>0, TypesKept DEF Types, Exits
<1>2. Threads' = Threads /\ (Caused => Caused')  BY <1>0, CausesKept
<1>3. Owned'  BY <1>t, <1>0 DEF Owned, NothingLeaks
<1>4. \A i \in Threads : i \in Int /\ 0 <= i /\ i < NThreadCreate
  <2>1. PICK m \in Machines : n_cpus = m.n_cpus  BY <1>t DEF Types
  <2>2. NThreadCreate \in Int  BY <1>t, <2>1, MachinesAssumption DEF Types, NThreadCreate
  <2> QED  BY <2>2 DEF Threads
<1>5. main' = "join" => \A i \in Threads : i < at' => thread[i] = "done"
  <2>1. CASE AllCreated  BY <1>4, <2>1 DEF AllCreated
  <2>2. CASE Join
    <3>1. main = "join" /\ at' = at + 1 /\ thread[at] = "done"  BY <2>2 DEF Join
    <3>2. \A i \in Threads : i < at' => i < at \/ i = at  BY <1>t, <1>4, <3>1 DEF Types
    <3> QED  BY <1>t, <3>1, <3>2 DEF Waited
  <2>3. CASE AllJoined  BY <2>3 DEF AllJoined
  <2> QED  BY <2>1, <2>2, <2>3
<1>6. main' = "exit_all" /\ ~Caused => \A i \in Threads : thread[i] = "done"
  <2> SUFFICES ASSUME main' = "exit_all", ~Caused PROVE \A i \in Threads : thread[i] = "done"
      OBVIOUS
  <2>1. AllJoined  BY <1>0 DEF AllCreated, Join
  <2>2. main = "join" /\ at = n_threads  BY <2>1 DEF AllJoined
  <2>3. PICK m \in Machines : n_cpus = m.n_cpus  BY <1>t DEF Types
  <2>4. ~(n_threads < n_cpus) /\ n_cpus \in Int /\ n_threads \in Int
        BY <1>t, <2>3, MachinesAssumption DEF Caused, Types
  <2>5. \A i \in Threads : i < n_threads  BY <1>4, <2>4 DEF NThreadCreate
  <2> QED  BY <1>t, <2>2, <2>5 DEF Waited
<1>7. Waited'  BY <1>0, <1>2, <1>5, <1>6 DEF Waited, Ready, Exits, Ends
<1> QED  BY <1>1, <1>3, <1>7 DEF IInv

(* the way out, *)
LEMMA ExitKeeps ==
  ASSUME IInv, Exit \/ PrintResult
  PROVE  IInv'
<1>t. Types /\ Owned /\ Waited  BY DEF IInv
<1>0. /\ UNCHANGED <<arguments, outcome, at, tables, thread, res>> /\ main \in Exits \cup Ends
      BY DEF Exit, Free, PrintResult, Exits, Ends
<1>f. Found \subseteq {"processors"} /\ (Numbered /\ main \in Exits => Found = {"processors"})
      BY <1>t, NoneAstray DEF Found, Waited
<1>1. main' \in (Exits \cup Ends) \ {"exit_all"}
      BY <1>t, <1>f DEF Exit, Free, PrintResult, Owned, Holds, Exits, Ends
<1>2. Types'  BY <1>t, <1>0, <1>1, TypesKept DEF Types
<1>3. Threads' = Threads /\ (Caused => Caused')  BY <1>0, CausesKept DEF outcome
<1>4. Owned'
  <2>1. failed' = failed /\ Numbered' = Numbered  BY <1>0 DEF outcome, arguments, Numbered
  <2>2. CASE main = "exit_all"
        BY <1>t, <2>1, <2>2 DEF Exit, Free, PrintResult, Owned, Holds, Ends, NothingLeaks
  <2>3. CASE main = "exit_attrs"
        BY <1>t, <2>1, <2>3 DEF Exit, Free, PrintResult, Owned, Holds, Ends, NothingLeaks
  <2>4. CASE main = "exit_infosp"
        BY <1>t, <2>1, <2>4 DEF Exit, Free, PrintResult, Owned, Holds, Ends, NothingLeaks
  <2>5. CASE main = "exit_threads"
    <3>1. /\ Holds({"cpus", "processors"}) /\ Free({"cpus"} \cup Found, "returned")
          /\ (Numbered => Found = {"processors"}) /\ Found \subseteq {"processors"}
          BY <1>t, <1>f, <2>5 DEF Exit, PrintResult, Owned, Exits
    <3>2. main' = "returned" /\ allocated' = allocated \ ({"cpus"} \cup Found)
          BY <3>1 DEF Holds, Free
    <3>3. /\ allocated' \subseteq {"attrs", "processors"}
          /\ "attrs" \in allocated' => failed = "pthread_attr_init"
          /\ "processors" \in allocated' => ~Numbered
          BY <3>1, <3>2 DEF Holds
    <3> QED  BY <2>1, <3>2, <3>3 DEF Owned, NothingLeaks
  <2>6. CASE main = "returned"
        BY <1>t, <2>1, <2>6 DEF Exit, Free, PrintResult, Owned, Holds, Ends, NothingLeaks
  <2> QED  BY <2>2, <2>3, <2>4, <2>5, <2>6 DEF Exit, PrintResult
<1>5. Waited'
  <2>1. main' \in Exits => cpuInfo' = CpuInfo(core_ids')
    <3>1. main \in Exits \/ main' \notin Exits
          BY <1>t, <1>f DEF Exit, Free, PrintResult, Owned, Holds, Exits
    <3> QED  BY <1>t, <1>0, <3>1 DEF Waited, tables, arguments
  <2> QED  BY <1>t, <1>0, <1>1, <1>3, <2>1 DEF Waited, Ready, Exits, Ends
<1> QED  BY <1>2, <1>4, <1>5 DEF IInv

(* and those of the threads. *)
LEMMA ThreadKeeps ==
  ASSUME IInv, NEW c \in Threads, ThreadReads(c) \/ ThreadWrites(c)
  PROVE  IInv'
<1>t. Types /\ Owned /\ Waited  BY DEF IInv
<1>0. /\ thread[c] \in {"read", "write"}
      /\ thread' = [thread EXCEPT ![c] = "write"] \/ thread' = [thread EXCEPT ![c] = "done"]
      /\ UNCHANGED <<arguments, outcome, error, failed, at, allocated, cpuInfo, affinity, res>>
      /\ main' \in {main, "crashed"} /\ (main' # main => "infosp" \notin allocated)
      /\ main \notin {"printed", "failed", "crashed"}
      BY DEF ThreadReads, ThreadWrites, UsesFreed, tables, Running, outcome
<1>1. thread' \in [Threads -> {"none", "read", "write", "done"}]  BY <1>t, <1>0 DEF Types
<1>2. Types'  BY <1>t, <1>0, <1>1, TypesKept DEF Types
<1>3. Threads' = Threads  BY <1>0 DEF arguments, Threads, NThreadCreate
<1>4. /\ \A i \in Threads : i # c => thread'[i] = thread[i]
      /\ thread'[c] # "none"
      BY <1>t, <1>0 DEF Types
<1>5. Caused => Caused'  BY <1>0, <1>3, <1>4 DEF Caused, arguments
<1>6. Owned'
  <2>1. main' \notin {main} => main' = "crashed"  BY <1>0
  <2>2. NothingLeaks'
    <3>1. Numbered' = Numbered  BY <1>0 DEF arguments, Numbered
    <3> QED  BY <1>t, <1>0, <2>1, <3>1 DEF Owned, NothingLeaks
  <2> QED  BY <1>t, <1>0, <2>1, <2>2 DEF Owned, Holds
<1>7. main \notin Ready  BY <1>t, <1>0 DEF Waited
<1>8. main \in Exits \cup Ends => Caused  BY <1>t, <1>0 DEF Waited
<1>9. main' # main => Caused
  <2>1. CASE main \in {"create", "join"}  BY <1>t, <1>0, <2>1 DEF Owned
  <2>2. CASE main \in Exits \cup Ends  BY <1>8, <2>2
  <2> QED  BY <1>t, <1>0, <1>7, <2>1, <2>2 DEF Types
<1>10. Waited'
  <2>1. main' \notin Ready  BY <1>0, <1>7 DEF Ready
  <2>2. /\ main' \in {"create", "join"} => error' = "E_SUCCESS" /\ failed' = "none"
        /\ main' \in {"create", "join"} \cup Exits => cpuInfo' = CpuInfo(core_ids')
        BY <1>t, <1>0 DEF Waited, Exits, arguments
  <2>3. main' = "join" => \A i \in Threads : i < at' => thread'[i] = "done"
    <3>1. main' = "join" => main = "join"  BY <1>0
    <3> QED  BY <1>t, <1>0, <1>4, <3>1 DEF Waited
  <2>4. ~Caused' => main' = main /\ main \in {"create", "join"}
        BY <1>t, <1>0, <1>5, <1>7, <1>8, <1>9 DEF Types
  <2> QED  BY <1>3, <2>1, <2>2, <2>3, <2>4 DEF Waited, Ready, Exits, Ends
<1> QED  BY <1>2, <1>6, <1>10 DEF IInv

LEMMA NextIInv == IInv /\ [Next]_vars => IInv'
<1> SUFFICES ASSUME IInv, [Next]_vars PROVE IInv'  OBVIOUS
<1>1. CASE Main
      BY <1>1, StartKeeps, SetAttrsKeeps, CreateKeeps, JoinKeeps, ExitKeeps DEF Main
<1>2. ASSUME NEW i \in Threads, ThreadReads(i) \/ ThreadWrites(i) PROVE IInv'
      BY <1>2, ThreadKeeps
<1>3. CASE UNCHANGED vars
  <2>t. Types /\ Owned /\ Waited  BY DEF IInv
  <2>1. Threads' = Threads  BY <1>3 DEF vars, arguments, Threads, NThreadCreate
  <2>2. Types'  BY <2>t, <2>1, <1>3 DEF Types, vars, arguments
  <2>3. Owned'  BY <2>t, <1>3 DEF Owned, Holds, NothingLeaks, Numbered, vars, arguments, outcome
  <2>4. Caused' = Caused  BY <2>1, <1>3 DEF Caused, vars, arguments, outcome
  <2>5. Waited'  BY <2>t, <2>1, <2>4, <1>3 DEF Waited, vars, arguments, outcome, tables
  <2> QED  BY <2>2, <2>3, <2>5 DEF IInv
<1> QED  BY <1>1, <1>2, <1>3 DEF Next, Terminated

LEMMA Inductive == Spec => []IInv
BY InitIInv, NextIInv, PTL DEF Spec

(* Whatever call fails, Integrate() frees all that it has allocated, but for the     *)
(* attributes when pthread_attr_init() has failed (calc.c:104), the pipe when calloc() *)
(* has, and arrays of processors when realloc() has or the cores are not numbered in  *)
(* their order: what each of them leaves is all that may be left.                     *)
THEOREM AllFreed == Spec => []NothingLeaks
<1>1. IInv => NothingLeaks  BY DEF IInv, Owned
<1> QED  BY <1>1, Inductive, PTL

(* No thread touches freed memory, nothing is freed that is not there, and the    *)
(* process does not crash, but for the causes that CrashHasACause names, however  *)
(* many threads and processors there are and in whatever order the threads end.   *)
THEOREM CrashExplained == Spec => []CrashHasACause
<1>1. IInv => CrashHasACause  BY DEF IInv, Waited, Caused, CrashHasACause
<1> QED  BY <1>1, Inductive, PTL

-----------------------------------------------------------------------------
(* Types, and what becomes of the result. *)

(* Foo is monotone wherever the program may look at it. *)
Monotone == \A w \in Widths : IsMonotone(Begin, Begin + MaxThreads * w)

Reached(k) == Begin + k * width

HasInfos ==
  /\ n_threads > 0
  /\ infosp \in [Threads -> [begin : Int, end : Int, res : Int]]
  /\ \A i \in Threads : /\ infosp[i].begin = ThreadInfo(i).begin
                          /\ infosp[i].end = ThreadInfo(i).end

Arguments == n_threads \in -1 .. MaxThreads /\ width \in Widths

Kinds ==
  /\ error \in {"E_SUCCESS", "E_BADARGS", "E_MEMLACK", "E_THREAD"}
  /\ at \in 0 .. NThreadCreate
  /\ allocated \subseteq {"cpus", "processors", "pipe", "threads", "infosp", "attrs"}
  /\ affinity = <<>> \/ affinity \in [Threads -> 0 .. n_cpus - 1]
  /\ infosp = <<>> \/ infosp \in [Threads -> [begin : Int, end : Int, res : Int]]
  /\ res \in Int

(* A thread that has ended has left its part, which is added to that of those before it. *)
Parts ==
  /\ "infosp" \in allocated => HasInfos
  /\ main \in {"create", "join"} =>
       \A i \in Threads : thread[i] = "done" =>
         infosp[i].res = CalcIntegral(infosp[i].begin, infosp[i].end)
  /\ main \in Ready \cup {"create"} => res = 0
  /\ main = "join" => at <= n_threads /\ (Monotone => Close(res, Begin, Reached(at)))
  /\ main \in Exits \cup {"returned", "printed"} /\ error = "E_SUCCESS" =>
       (Monotone => Close(res, Begin, End))
  /\ main = "printed" => error = "E_SUCCESS"

RInv == Arguments /\ Kinds /\ Parts

(* A point that some of the threads lead to lies among those that Foo is known for. *)
LEMMA Scaled ==
  ASSUME NEW w \in Int, NEW k \in Nat, NEW m \in Nat, k <= m
  PROVE  /\ k * w \in Int /\ m * w \in Int
         /\ w >= 0 => 0 <= k * w /\ k * w <= m * w
         /\ w <= 0 => m * w <= k * w /\ k * w <= 0
<1> DEFINE d == m - k
           p == k * w
           q == d * w
<1>1. d \in Nat /\ p \in Int /\ q \in Int  OBVIOUS
<1>2. m * w = p + q  OBVIOUS
<1>3. w >= 0 => 0 <= p /\ 0 <= q  OBVIOUS
<1>4. w <= 0 => p <= 0 /\ q <= 0  OBVIOUS
<1> HIDE DEF d, p, q
<1>5. /\ w >= 0 => 0 <= p /\ p <= p + q
      /\ w <= 0 => p + q <= p /\ p <= 0
      BY <1>1, <1>3, <1>4
<1> QED  BY <1>1, <1>2, <1>5 DEF p

(* Where the first k threads lead to, Foo is known and, if at all, monotone. *)
LEMMA ReachedInRange ==
  ASSUME Arguments, NEW k \in Nat, k <= MaxThreads
  PROVE  /\ Reached(k) \in Int /\ Begin \in Int
         /\ Between(Begin, Reached(k)) \subseteq Between(Begin, Begin + MaxThreads * width)
         /\ HasValues(Begin, Reached(k))
         /\ Monotone => IsMonotone(Begin, Reached(k))
<1>1. width \in Int /\ Begin \in Int /\ MaxThreads \in Nat
      BY IntegralAssumption, MaxThreadsAssumption DEF Arguments
<1> DEFINE p == k * width
           q == MaxThreads * width
<1>2. /\ p \in Int /\ q \in Int
      /\ width >= 0 => 0 <= p /\ p <= q
      /\ width <= 0 => q <= p /\ p <= 0
      BY <1>1, Scaled
<1>3. Reached(k) = Begin + p  BY DEF Reached
<1>4. \A x \in Between(Begin, Begin + MaxThreads * width) : Foo(x) \in Int
      BY FooAssumption DEF Arguments
<1> HIDE DEF p
<1>5. Between(Begin, Begin + p) \subseteq Between(Begin, Begin + q)
  <2> HIDE DEF q
  <2> QED  BY <1>1, <1>2 DEF Between, Least, Most
<1>6. HasValues(Begin, Reached(k))  BY <1>1, <1>2, <1>3, <1>4, <1>5 DEF HasValues
<1>7. Monotone => IsMonotone(Begin, Begin + q)  BY DEF Monotone, Arguments
<1> HIDE DEF q
<1>8. Monotone => IsMonotone(Begin, Begin + p)  BY <1>5, <1>7 DEF IsMonotone
<1> QED  BY <1>1, <1>2, <1>3, <1>5, <1>6, <1>8 DEF q

(* The interval of a thread. *)
LEMMA IntervalOfThread ==
  ASSUME Types, Arguments, n_threads > 0, NEW i \in Threads
  PROVE  /\ i < n_threads => /\ ThreadInfo(i).begin = Reached(i)
                             /\ ThreadInfo(i).end = Reached(i + 1)
         /\ ThreadInfo(i) \in [begin : Int, end : Int, res : Int]
         /\ HasValues(ThreadInfo(i).begin, ThreadInfo(i).end)
<1>1. width \in Int /\ Begin \in Int /\ MaxThreads \in Nat /\ Garbage \in Int /\ n_threads \in 1 .. MaxThreads
      BY IntegralAssumption, MaxThreadsAssumption DEF Arguments
<1>2. i \in Nat  BY DEF Threads
<1>3. CASE i < n_threads
  <2>1. /\ Reached(i) \in Int /\ Reached(i + 1) \in Int /\ HasValues(Begin, Reached(i + 1))
        BY <1>1, <1>2, <1>3, ReachedInRange
  <2>2. ThreadInfo(i) = [begin |-> Reached(i), end |-> Reached(i + 1), res |-> Garbage]
    <3>1. i = n_threads - 1 => n_threads = i + 1  BY <1>1, <1>2
    <3> QED  BY <1>3, <3>1 DEF ThreadInfo, Info, Reached, End
  <2>3. Between(Reached(i), Reached(i + 1)) \subseteq Between(Begin, Reached(i + 1))
    <3> DEFINE p == i * width
               q == (i + 1) * width
    <3>1. /\ p \in Int /\ q \in Int
          /\ width >= 0 => 0 <= p /\ p <= q
          /\ width <= 0 => q <= p /\ p <= 0
          BY <1>1, <1>2, Scaled
    <3>2. Reached(i) = Begin + p /\ Reached(i + 1) = Begin + q  BY DEF Reached
    <3> HIDE DEF p, q
    <3> QED  BY <1>1, <3>1, <3>2 DEF Between, Least, Most
  <2>4. HasValues(Reached(i), Reached(i + 1))  BY <2>1, <2>3 DEF HasValues
  <2> QED  BY <1>1, <2>1, <2>2, <2>4
<1>4. CASE ~(i < n_threads)
  <2>1. Reached(1) \in Int /\ HasValues(Begin, Reached(1))  BY <1>1, ReachedInRange
  <2>2. Reached(1) = Begin + width  BY <1>1 DEF Reached
  <2>3. ThreadInfo(i) = [begin |-> Begin, end |-> Begin + width, res |-> Garbage]
        BY <1>4 DEF ThreadInfo, Info
  <2> QED  BY <1>1, <1>4, <2>1, <2>2, <2>3
<1> QED  BY <1>3, <1>4

(* What depends on the arguments alone stays. *)
LEMMA ArgumentsKept ==
  ASSUME UNCHANGED arguments
  PROVE  /\ Threads' = Threads /\ NThreadCreate' = NThreadCreate /\ End' = End
         /\ Arguments' = Arguments
         /\ \A k : Reached(k)' = Reached(k)
         /\ UNCHANGED infosp => HasInfos' = HasInfos
<1>1. /\ n_threads' = n_threads /\ width' = width /\ n_cpus' = n_cpus
      BY DEF arguments
<1>2. Threads' = Threads /\ NThreadCreate' = NThreadCreate /\ End' = End
      BY <1>1 DEF Threads, NThreadCreate, End
<1>3. \A i : ThreadInfo(i)' = ThreadInfo(i)  BY <1>1, <1>2 DEF ThreadInfo, Info
<1> QED  BY <1>1, <1>2, <1>3 DEF Arguments, Reached, HasInfos

(* There is a thread, and one for each that is waited for. *)
LEMMA ThreadsCounted ==
  ASSUME Types
  PROVE  /\ NThreadCreate \in Nat \ {0} /\ n_threads \in Int /\ n_threads <= NThreadCreate
         /\ Threads = 0 .. NThreadCreate - 1
BY IdsOfMachine DEF Types, NThreadCreate, Threads

(* RInv holds at first, *)
LEMMA InitRInv == Init => RInv
<1> SUFFICES ASSUME Init PROVE RInv  OBVIOUS
<1>1. Arguments  BY DEF Init, Arguments
<1>2. Types  BY InitIInv DEF IInv
<1>3. Kinds  BY <1>1, <1>2, ThreadsCounted DEF Init, Kinds
<1>4. Parts  BY DEF Init, Parts, Ready, Exits
<1> QED  BY <1>1, <1>3, <1>4 DEF RInv

(* and each step keeps it: those up to the attributes, *)
LEMMA StartRInv ==
  ASSUME IInv, RInv, CheckArguments \/ GetCpuInfo \/ AllocateThreads \/ AllocateInfos \/ AllocateAttrs
  PROVE  RInv'
<1>t. Types /\ Owned /\ Waited /\ Arguments /\ Kinds /\ Parts  BY DEF IInv, RInv
<1>0. /\ UNCHANGED arguments /\ UNCHANGED <<at, thread, res, affinity>> /\ main \in Ready
      BY <1>t DEF CheckArguments, GetCpuInfo, AllocateThreads, AllocateInfos, AllocateAttrs, outcome,
                  tables, Ready
<1>l. \A i : Leftover(i) \subseteq {"processors"}  BY DEF Leftover
<1>1. /\ main' \in Ready \cup {"exit_threads", "exit_infosp", "exit_attrs", "returned", "crashed"}
      /\ main' \notin {"arguments", "create", "join", "exit_all", "printed"}
      /\ main' \in Exits \cup {"returned"} => error' # "E_SUCCESS"
      /\ error' \in {"E_SUCCESS", "E_BADARGS", "E_MEMLACK", "E_THREAD"}
      /\ allocated' \subseteq {"cpus", "processors", "pipe", "threads", "infosp", "attrs"}
  <2>1. CASE CheckArguments
        BY <1>t, <2>1 DEF CheckArguments, Fails, Succeeds, Ready, Exits, Kinds, outcome
  <2>2. CASE GetCpuInfo
        BY <1>t, <1>l, <2>2 DEF GetCpuInfo, Fails, Succeeds, Ready, Exits, Kinds, outcome
  <2>3. CASE AllocateThreads
        BY <1>t, <2>3 DEF AllocateThreads, Fails, Succeeds, Ready, Exits, Kinds, outcome
  <2>4. CASE AllocateInfos
        BY <1>t, <2>4 DEF AllocateInfos, Fails, Succeeds, Crashes, Ready, Exits, Kinds, outcome
  <2>5. CASE AllocateAttrs
        BY <1>t, <2>5 DEF AllocateAttrs, Fails, Succeeds, Ready, Exits, Kinds, outcome
  <2> QED  BY <2>1, <2>2, <2>3, <2>4, <2>5
<1>2. /\ Threads' = Threads /\ NThreadCreate' = NThreadCreate
      /\ Arguments' = Arguments
      /\ UNCHANGED infosp => HasInfos' = HasInfos
      BY <1>0, ArgumentsKept
<1>3. \/ UNCHANGED infosp /\ ("infosp" \in allocated' => "infosp" \in allocated)
      \/ infosp' = [i \in Threads |-> ThreadInfo(i)] /\ n_threads > 0
      BY <1>l DEF CheckArguments, GetCpuInfo, AllocateThreads, AllocateInfos, AllocateAttrs, tables
<1>4. infosp' = [i \in Threads |-> ThreadInfo(i)] /\ n_threads > 0 => HasInfos'
  <2> SUFFICES ASSUME infosp' = [i \in Threads |-> ThreadInfo(i)], n_threads > 0 PROVE HasInfos'  OBVIOUS
  <2>1. \A i \in Threads : ThreadInfo(i) \in [begin : Int, end : Int, res : Int]
        BY <1>t, IntervalOfThread
  <2>2. n_threads' = n_threads /\ width' = width /\ End' = End  BY <1>0, ArgumentsKept DEF arguments
  <2>3. \A i : ThreadInfo(i)' = ThreadInfo(i)  BY <2>2 DEF ThreadInfo, Info
  <2> QED  BY <1>2, <2>1, <2>2, <2>3 DEF HasInfos
<1>5. /\ "infosp" \in allocated' => HasInfos'
      /\ infosp' = <<>> \/ infosp' \in [Threads' -> [begin : Int, end : Int, res : Int]]
  <2>1. CASE UNCHANGED infosp /\ ("infosp" \in allocated' => "infosp" \in allocated)
        BY <1>t, <1>2, <2>1 DEF Parts, Kinds
  <2>2. CASE infosp' = [i \in Threads |-> ThreadInfo(i)] /\ n_threads > 0
        BY <1>4, <2>2 DEF HasInfos
  <2> QED  BY <1>3, <2>1, <2>2
<1>6. Kinds'
  <2>1. n_cpus' = n_cpus  BY <1>0 DEF arguments
  <2> QED  BY <1>t, <1>0, <1>1, <1>2, <1>5, <2>1 DEF Kinds
<1>7. res' = 0  BY <1>t, <1>0 DEF Parts
<1>8. Parts'  BY <1>1, <1>5, <1>7 DEF Parts
<1> QED  BY <1>t, <1>2, <1>6, <1>8 DEF RInv

(* (a processor that a thread is bound to is one there is) *)
LEMMA ProcessorType ==
  ASSUME Types, cpuInfo = CpuInfo(core_ids), cpuInfo.n_cpu > 0, NEW i \in Nat
  PROVE  Processor(i) \in 0 .. n_cpus - 1
<1>1. core_ids \in Ids /\ n_cpus \in Nat \ {0} /\ (core_ids = <<>> \/ Len(core_ids) = n_cpus)
      BY IdsOfMachine
<1> DEFINE L == Len(core_ids)
           c == i % cpuInfo.n_cpu
           cpu == cpuInfo.cpus[c]
<1>2. L \in Nat  BY <1>1 DEF Ids
<1> HIDE DEF L
<1>3. Sound(cpuInfo, L, L)  BY <1>1, CpuInfoSound DEF L
<1>4. /\ cpuInfo.n_cpu \in 0 .. L
      /\ cpuInfo.cpus \in [0 .. L - 1 -> Seq(0 .. L - 1)]
      /\ \A d \in 0 .. cpuInfo.n_cpu - 1 : Len(cpuInfo.cpus[d]) > 0
      BY <1>3 DEF Sound
<1>5. L > 0 /\ cpuInfo.n_cpu \in Nat \ {0}  BY <1>2, <1>4
<1>6. L = n_cpus  BY <1>1, <1>5 DEF L
<1>7. c \in 0 .. cpuInfo.n_cpu - 1 /\ i \div cpuInfo.n_cpu \in Nat
  <2> DEFINE n == cpuInfo.n_cpu
  <2>1. n \in Nat \ {0}  BY <1>5
  <2> HIDE DEF n
  <2>2. i % n \in 0 .. n - 1 /\ i \div n \in Nat  BY <2>1
  <2> QED  BY <2>2 DEF n
<1>8. cpu \in Seq(0 .. L - 1) /\ Len(cpu) > 0  BY <1>2, <1>4, <1>7
<1>9. Processor(i) = cpu[((i \div cpuInfo.n_cpu) % Len(cpu)) + 1]  BY DEF Processor
<1> HIDE DEF c, cpu
<1>10. ((i \div cpuInfo.n_cpu) % Len(cpu)) + 1 \in 1 .. Len(cpu)
  <2> DEFINE n == Len(cpu)
             k == i \div cpuInfo.n_cpu
  <2>1. n \in Nat \ {0} /\ k \in Nat  BY <1>7, <1>8
  <2> HIDE DEF n, k
  <2>2. (k % n) + 1 \in 1 .. n  BY <2>1
  <2> QED  BY <2>2 DEF n, k
<1>11. \A j \in 1 .. Len(cpu) : cpu[j] \in 0 .. L - 1
  <2> DEFINE S == 0 .. L - 1
  <2>1. cpu \in Seq(S)  BY <1>8
  <2> HIDE DEF S
  <2>2. \A j \in 1 .. Len(cpu) : cpu[j] \in S  BY <2>1
  <2> QED  BY <2>2 DEF S
<1> DEFINE j == ((i \div cpuInfo.n_cpu) % Len(cpu)) + 1
<1>12. j \in 1 .. Len(cpu) /\ Processor(i) = cpu[j]  BY <1>9, <1>10
<1> HIDE DEF j
<1> QED  BY <1>6, <1>11, <1>12

(* the binding of the threads, *)
LEMMA SetAttrsRInv ==
  ASSUME IInv, RInv, SetAttrs
  PROVE  RInv'
<1>t. Types /\ Owned /\ Waited /\ Arguments /\ Kinds /\ Parts  BY DEF IInv, RInv
<1>0. /\ main = "affinity" /\ cpuInfo = CpuInfo(core_ids)
      /\ UNCHANGED arguments /\ UNCHANGED <<at, allocated, cpuInfo, infosp, thread, res>>
      /\ main' \in {"crashed", "create", "exit_all"} /\ (main' = "exit_all" => error' = "E_THREAD")
      /\ error' \in {"E_SUCCESS", "E_BADARGS", "E_MEMLACK", "E_THREAD"}
      BY <1>t DEF SetAttrs, Waited, Kinds, Succeeds, Fails, Crashes, outcome
<1>1. /\ Threads' = Threads /\ NThreadCreate' = NThreadCreate
      /\ Arguments' = Arguments /\ HasInfos' = HasInfos /\ n_cpus' = n_cpus
      BY <1>0, ArgumentsKept DEF arguments
<1>2. \/ affinity' = affinity
      \/ cpuInfo.n_cpu > 0 /\ affinity' = [i \in Threads |-> Processor(i)]
      BY DEF SetAttrs
<1>3. affinity' = <<>> \/ affinity' \in [Threads -> 0 .. n_cpus - 1]
  <2>1. CASE affinity' = affinity  BY <1>t, <2>1 DEF Kinds
  <2>2. CASE cpuInfo.n_cpu > 0 /\ affinity' = [i \in Threads |-> Processor(i)]
    <3>1. \A i \in Threads : i \in Nat  BY DEF Threads
    <3>2. \A i \in Threads : Processor(i) \in 0 .. n_cpus - 1
          BY <1>t, <1>0, <2>2, <3>1, ProcessorType
    <3> QED  BY <2>2, <3>2
  <2> QED  BY <1>2, <2>1, <2>2
<1>4. Kinds'  BY <1>t, <1>0, <1>1, <1>3 DEF Kinds
<1>5. \A i \in Threads : thread[i] = "none"  BY <1>t, <1>0 DEF Waited, Ready
<1>6. Parts'  BY <1>t, <1>0, <1>1, <1>5 DEF Parts, Ready, Exits
<1> QED  BY <1>t, <1>1, <1>4, <1>6 DEF RInv

(* their creation, after which nothing has been added up, *)
LEMMA CreateRInv ==
  ASSUME IInv, RInv, Create \/ AllCreated
  PROVE  RInv'
<1>t. Types /\ Owned /\ Waited /\ Arguments /\ Kinds /\ Parts  BY DEF IInv, RInv
<1>0. /\ main = "create" /\ error = "E_SUCCESS"
      /\ UNCHANGED arguments /\ UNCHANGED <<allocated, affinity, infosp, res>>
      /\ main' \in {"create", "join", "exit_all"} /\ (main' = "exit_all" => error' = "E_THREAD")
      /\ error' \in {"E_SUCCESS", "E_THREAD"}
      BY <1>t DEF Create, AllCreated, Waited, tables, Succeeds, Fails, outcome
<1>1. /\ Threads' = Threads /\ NThreadCreate' = NThreadCreate
      /\ Arguments' = Arguments /\ HasInfos' = HasInfos /\ n_cpus' = n_cpus
      /\ \A k : Reached(k)' = Reached(k)
      BY <1>0, ArgumentsKept DEF arguments
<1>2. NThreadCreate \in Nat \ {0} /\ Threads = 0 .. NThreadCreate - 1  BY <1>t, ThreadsCounted
<1>3. at' \in 0 .. NThreadCreate /\ (main' = "join" => at' = 0)
      BY <1>t, <1>0, <1>2 DEF Create, AllCreated, Succeeds, Fails, Kinds
<1>4. \A i \in Threads : thread'[i] = "done" => thread[i] = "done"
      BY <1>t DEF Create, AllCreated, Types
<1>5. Kinds'  BY <1>t, <1>0, <1>1, <1>3 DEF Kinds
<1>6. HasInfos /\ res = 0  BY <1>t, <1>0 DEF Owned, Parts
<1>7. Monotone => Close(0, Begin, Begin)
  <2>1. Reached(0) = Begin /\ HasValues(Begin, Begin)
    <3>1. 0 * width = 0  BY IntegralAssumption, <1>t DEF Arguments
    <3>2. Begin \in Int /\ 0 <= MaxThreads  BY IntegralAssumption, MaxThreadsAssumption
    <3>3. Reached(0) = Begin  BY <3>1, <3>2 DEF Reached
    <3> QED  BY <1>t, <3>2, <3>3, ReachedInRange
  <2>2. Area(Begin, Begin) = 0
    <3>1. Least(Begin, Begin) = Begin /\ Most(Begin, Begin) = Begin  BY DEF Least, Most
    <3>2. Begin - Begin = 0  BY <2>1 DEF HasValues
    <3> QED  BY <3>1, <3>2, SumZero DEF Area, Trapezoid
  <2>3. Foo(Begin) \in Int  BY <2>1 DEF HasValues, Between, Least, Most
  <2>4. Tolerance(Begin, Begin) = 0  BY <2>3 DEF Tolerance, Most
  <2> QED  BY <2>2, <2>4 DEF Close
<1>8. Reached(0) = Begin
  <2>1. 0 * width = 0 /\ Begin \in Int  BY IntegralAssumption, <1>t DEF Arguments
  <2> QED  BY <2>1 DEF Reached
<1>9. main' = "join" => at' <= n_threads' /\ (Monotone => Close(res', Begin, Reached(at)'))
  <2> SUFFICES ASSUME main' = "join"
               PROVE  at' <= n_threads' /\ (Monotone => Close(res', Begin, Reached(at)'))
      OBVIOUS
  <2>1. at' = 0 /\ res' = 0 /\ n_threads' = n_threads /\ n_threads > 0 /\ width' = width
        BY <1>0, <1>3, <1>6 DEF arguments, HasInfos
  <2>2. Reached(at)' = Reached(0)  BY <2>1 DEF Reached
  <2>3. 0 <= n_threads  BY <1>t, <2>1 DEF Types
  <2> QED  BY <2>1, <2>2, <2>3, <1>7, <1>8
<1>10. Parts'
  <2>1. \A i \in Threads' : thread'[i] = "done" =>
          infosp'[i].res = CalcIntegral(infosp'[i].begin, infosp'[i].end)
        BY <1>t, <1>0, <1>1, <1>4 DEF Parts
  <2> QED  BY <1>t, <1>0, <1>1, <1>6, <1>9, <2>1 DEF Parts, Ready, Exits
<1> QED  BY <1>t, <1>1, <1>5, <1>10 DEF RInv

(* the wait for one, which adds its part to that of those before it, *)
LEMMA JoinRInv ==
  ASSUME IInv, RInv, Join
  PROVE  RInv'
<1>t. Types /\ Owned /\ Waited /\ Arguments /\ Kinds /\ Parts  BY DEF IInv, RInv
<1>0. /\ main = "join" /\ at < n_threads /\ thread[at] = "done"
      /\ res' = res + infosp[at].res /\ at' = at + 1
      /\ UNCHANGED arguments /\ UNCHANGED <<main, error, allocated, affinity, infosp, thread>>
      BY DEF Join, tables, outcome
<1>1. /\ Threads' = Threads /\ NThreadCreate' = NThreadCreate
      /\ Arguments' = Arguments /\ HasInfos' = HasInfos /\ n_cpus' = n_cpus /\ width' = width
      BY <1>0, ArgumentsKept DEF arguments
<1>2. NThreadCreate \in Nat \ {0} /\ Threads = 0 .. NThreadCreate - 1
      /\ n_threads \in Int /\ n_threads <= NThreadCreate
      BY <1>t, ThreadsCounted
<1>3. at \in Threads /\ at \in Nat /\ at' \in 0 .. NThreadCreate /\ at' <= n_threads
      BY <1>t, <1>0, <1>2 DEF Kinds
<1>4. HasInfos  BY <1>t, <1>0 DEF Owned, Parts
<1> DEFINE u == infosp[at].res
           b == Reached(at)
           c == Reached(at + 1)
<1>5. u = CalcIntegral(b, c) /\ HasValues(b, c)
  <2>1. infosp[at].begin = b /\ infosp[at].end = c /\ HasValues(b, c)
        BY <1>t, <1>0, <1>3, <1>4, IntervalOfThread DEF HasInfos
  <2>2. u = CalcIntegral(infosp[at].begin, infosp[at].end)  BY <1>t, <1>0, <1>3 DEF Parts
  <2> QED  BY <2>1, <2>2
<1>6. u \in Int /\ (IsMonotone(b, c) => Close(u, b, c))
  <2> HIDE DEF u, b, c
  <2> QED  BY <1>5, CalcIntegralClose
<1>7. Reached(at)' = c  BY <1>0, <1>1 DEF Reached
<1>8. Monotone => Close(res + u, Begin, c)
  <2> SUFFICES ASSUME Monotone PROVE Close(res + u, Begin, c)  OBVIOUS
  <2>1. n_threads \in 1 .. MaxThreads /\ at + 1 <= MaxThreads /\ MaxThreads \in Nat
        BY <1>t, <1>0, <1>3, MaxThreadsAssumption DEF Arguments
  <2>2. HasValues(Begin, c) /\ IsMonotone(Begin, c) /\ b \in Int /\ c \in Int /\ Begin \in Int
        BY <1>t, <1>3, <2>1, ReachedInRange
  <2>3. (Begin <= b /\ b <= c) \/ (c <= b /\ b <= Begin)
    <3> DEFINE p == at * width
               q == (at + 1) * width
    <3>1. width \in Int /\ Begin \in Int  BY <1>t, IntegralAssumption DEF Arguments
    <3>2. /\ p \in Int /\ q \in Int
          /\ width >= 0 => 0 <= p /\ p <= q
          /\ width <= 0 => q <= p /\ p <= 0
          BY <1>3, <3>1, Scaled
    <3>3. b = Begin + p /\ c = Begin + q  BY DEF Reached
    <3> HIDE DEF p, q, b, c
    <3> QED  BY <3>1, <3>2, <3>3
  <2>4. IsMonotone(b, c)
    <3> HIDE DEF b, c
    <3>1. Between(b, c) \subseteq Between(Begin, c)  BY <2>2, <2>3 DEF Between, Least, Most
    <3> QED  BY <2>2, <3>1 DEF IsMonotone
  <2>5. Close(res, Begin, b)  BY <1>t, <1>0 DEF Parts
  <2>6. res \in Int /\ u \in Int /\ Close(u, b, c)  BY <1>t, <1>6, <2>4 DEF Kinds
  <2> HIDE DEF u, b, c
  <2> QED  BY <2>2, <2>3, <2>5, <2>6, CloseAdds
<1>9. Kinds'  BY <1>t, <1>0, <1>1, <1>3, <1>6 DEF Kinds
<1>10. n_threads' = n_threads  BY <1>0 DEF arguments
<1>11. Parts'  BY <1>t, <1>0, <1>1, <1>3, <1>7, <1>8, <1>10 DEF Parts, Ready, Exits
<1> QED  BY <1>t, <1>1, <1>9, <1>11 DEF RInv

(* the way out, *)
LEMMA ExitRInv ==
  ASSUME IInv, RInv, AllJoined \/ Exit \/ PrintResult
  PROVE  RInv'
<1>t. Types /\ Owned /\ Waited /\ Arguments /\ Kinds /\ Parts  BY DEF IInv, RInv
<1>0. /\ UNCHANGED arguments /\ UNCHANGED <<error, at, affinity, infosp, thread, res>>
      /\ main \in Exits \cup {"returned", "join"}
      /\ main' \in Exits \cup {"returned", "printed", "failed", "crashed"}
      /\ allocated' \subseteq allocated
      /\ main = "join" => at = n_threads
      /\ main' = "printed" => error = "E_SUCCESS"
      BY DEF AllJoined, Exit, Free, PrintResult, Exits, tables, outcome
<1>1. /\ Threads' = Threads /\ NThreadCreate' = NThreadCreate /\ End' = End
      /\ Arguments' = Arguments /\ HasInfos' = HasInfos /\ n_cpus' = n_cpus
      BY <1>0, ArgumentsKept DEF arguments
<1>2. Kinds'  BY <1>t, <1>0, <1>1 DEF Kinds
<1>3. error = "E_SUCCESS" /\ Monotone => Close(res, Begin, End)
  <2>1. main = "join" => Reached(at) = End  BY <1>0 DEF Reached, End
  <2> QED  BY <1>t, <1>0, <2>1 DEF Parts
<1>4. Parts'  BY <1>t, <1>0, <1>1, <1>3 DEF Parts, Ready, Exits
<1> QED  BY <1>t, <1>1, <1>2, <1>4 DEF RInv

(* and the steps of the threads, each of which writes its own part. *)
LEMMA ThreadRInv ==
  ASSUME IInv, RInv, NEW c \in Threads, ThreadReads(c) \/ ThreadWrites(c)
  PROVE  RInv'
<1>t. Types /\ Owned /\ Waited /\ Arguments /\ Kinds /\ Parts  BY DEF IInv, RInv
<1>0. /\ UNCHANGED arguments /\ UNCHANGED <<error, at, allocated, affinity, res>>
      /\ main' \in {main, "crashed"} /\ main \notin {"printed", "failed", "crashed"}
      /\ thread[c] \in {"read", "write"}
      BY DEF ThreadReads, ThreadWrites, UsesFreed, tables, Running, outcome
<1>1. /\ Threads' = Threads /\ NThreadCreate' = NThreadCreate /\ End' = End
      /\ Arguments' = Arguments /\ n_cpus' = n_cpus /\ (infosp' = infosp => HasInfos' = HasInfos)
      /\ Reached(at)' = Reached(at) /\ n_threads' = n_threads
      BY <1>0, ArgumentsKept DEF arguments, Reached
<1>2. main \notin Ready  BY <1>t, <1>0 DEF Waited
<1>3. \/ /\ infosp' = infosp
         /\ \A i \in Threads : thread'[i] = "done" =>
                thread[i] = "done" \/ "infosp" \notin allocated
      \/ /\ "infosp" \in allocated /\ thread' = [thread EXCEPT ![c] = "done"]
         /\ infosp' = [infosp EXCEPT ![c].res = CalcIntegral(infosp[c].begin, infosp[c].end)]
      BY <1>t DEF ThreadReads, ThreadWrites, UsesFreed, tables, Types
<1>4. CASE /\ infosp' = infosp
           /\ \A i \in Threads : thread'[i] = "done" =>
                  thread[i] = "done" \/ "infosp" \notin allocated
  <2>1. Kinds'  BY <1>t, <1>0, <1>1, <1>4 DEF Kinds
  <2>2. main \in {"create", "join"} => "infosp" \in allocated  BY <1>t DEF Owned
  <2>3. Parts'
    <3>1. main' \notin Ready  BY <1>0, <1>2 DEF Ready
    <3> QED  BY <1>t, <1>0, <1>1, <1>4, <2>2, <3>1 DEF Parts, Exits
  <2> QED  BY <1>t, <1>1, <2>1, <2>3 DEF RInv
<1>5. CASE /\ "infosp" \in allocated /\ thread' = [thread EXCEPT ![c] = "done"]
           /\ infosp' = [infosp EXCEPT ![c].res = CalcIntegral(infosp[c].begin, infosp[c].end)]
  <2>1. HasInfos  BY <1>t, <1>5 DEF Parts
  <2>2. CalcIntegral(infosp[c].begin, infosp[c].end) \in Int
    <3>1. HasValues(infosp[c].begin, infosp[c].end)  BY <1>t, <2>1, IntervalOfThread DEF HasInfos
    <3> QED  BY <3>1, CalcIntegralClose
  <2>3. /\ infosp' \in [Threads -> [begin : Int, end : Int, res : Int]]
        /\ \A i \in Threads : infosp'[i].begin = infosp[i].begin
        /\ \A i \in Threads : infosp'[i].end = infosp[i].end
        /\ \A i \in Threads : i # c => infosp'[i].res = infosp[i].res
        /\ infosp'[c].res = CalcIntegral(infosp[c].begin, infosp[c].end)
        BY <1>5, <2>1, <2>2 DEF HasInfos
  <2>4. HasInfos'
    <3>1. width' = width  BY <1>0 DEF arguments
    <3>2. \A i : ThreadInfo(i)' = ThreadInfo(i)  BY <1>1, <3>1 DEF ThreadInfo, Info
    <3>3. \A i \in Threads : /\ infosp'[i].begin = ThreadInfo(i)'.begin
                            /\ infosp'[i].end = ThreadInfo(i)'.end
          BY <2>1, <2>3, <3>2 DEF HasInfos
    <3>4. n_threads' > 0  BY <1>1, <2>1 DEF HasInfos
    <3> QED  BY <1>1, <2>3, <3>3, <3>4 DEF HasInfos
  <2>5. \A i \in Threads : i # c => thread'[i] = thread[i]  BY <1>5, <1>t DEF Types
  <2>6. Kinds'  BY <1>t, <1>0, <1>1, <2>3 DEF Kinds
  <2>7. main' \in {"create", "join"} => \A i \in Threads : thread'[i] = "done" =>
          infosp'[i].res = CalcIntegral(infosp'[i].begin, infosp'[i].end)
    <3> SUFFICES ASSUME main \in {"create", "join"}, NEW i \in Threads, thread'[i] = "done"
                 PROVE  infosp'[i].res = CalcIntegral(infosp'[i].begin, infosp'[i].end)
        BY <1>0
    <3>0. infosp'[i].begin = infosp[i].begin /\ infosp'[i].end = infosp[i].end  BY <2>3
    <3>1. CASE i = c
      <4>1. infosp'[i].res = CalcIntegral(infosp[i].begin, infosp[i].end)  BY <2>3, <3>1
      <4> QED  BY <3>0, <4>1
    <3>2. CASE i # c
      <4>1. infosp[i].res = CalcIntegral(infosp[i].begin, infosp[i].end)
            BY <1>t, <2>5, <3>2 DEF Parts
      <4>2. infosp'[i].res = infosp[i].res  BY <2>3, <3>2
      <4> QED  BY <3>0, <4>1, <4>2
    <3> QED  BY <3>1, <3>2
  <2>8. Parts'
    <3>1. main' \notin Ready  BY <1>0, <1>2 DEF Ready
    <3> QED  BY <1>t, <1>0, <1>1, <2>4, <2>7, <3>1 DEF Parts, Exits
  <2> QED  BY <1>t, <1>1, <2>6, <2>8 DEF RInv
<1> QED  BY <1>3, <1>4, <1>5

LEMMA NextRInv == IInv /\ RInv /\ [Next]_vars => RInv'
<1> SUFFICES ASSUME IInv, RInv, [Next]_vars PROVE RInv'  OBVIOUS
<1>1. CASE Main
      BY <1>1, StartRInv, SetAttrsRInv, CreateRInv, JoinRInv, ExitRInv DEF Main
<1>2. ASSUME NEW i \in Threads, ThreadReads(i) \/ ThreadWrites(i) PROVE RInv'
      BY <1>2, ThreadRInv
<1>3. CASE UNCHANGED vars
  <2>1. UNCHANGED arguments /\ UNCHANGED <<main, error, at, allocated, affinity, infosp, thread, res>>
        BY <1>3 DEF vars, tables, outcome
  <2>2. /\ Threads' = Threads /\ NThreadCreate' = NThreadCreate /\ End' = End
        /\ Arguments' = Arguments /\ n_cpus' = n_cpus /\ HasInfos' = HasInfos
        /\ Reached(at)' = Reached(at) /\ n_threads' = n_threads
        BY <2>1, ArgumentsKept DEF arguments, Reached
  <2> QED  BY <2>1, <2>2 DEF RInv, Kinds, Parts
<1> QED  BY <1>1, <1>2, <1>3 DEF Next, Terminated

LEMMA Results == Spec => []RInv
BY InitRInv, NextRInv, Inductive, PTL DEF Spec

(* Every variable keeps its type: in particular each thread is bound to a processor *)
(* there is, in whatever order /proc/cpuinfo lists processors and cores, and what   *)
(* the threads leave are numbers.                                                   *)
THEOREM TypeCorrect == Spec => []TypeOK
<1>1. IInv /\ RInv => TypeOK
      BY DEF IInv, RInv, Types, Arguments, Kinds, TypeOK, Ready, Exits, Ends
<1> QED  BY <1>1, Inductive, Results, PTL

(* What is printed is the area below the function over the whole interval, up to its *)
(* change over the interval times a step, however many threads it is divided among,  *)
(* however long their intervals are and in whichever order they end, for any function *)
(* that is monotone where it is integrated.                                           *)
THEOREM PrintsIntegral ==
  ASSUME Monotone
  PROVE  Spec => []ResultIsIntegral
<1>1. RInv => ResultIsIntegral
  <2> SUFFICES ASSUME RInv, main = "printed" PROVE Close(res, Begin, End)
      BY DEF ResultIsIntegral, Close, Area, Tolerance, Trapezoid, Trapezoids
  <2> QED  BY DEF RInv, Parts
<1> QED  BY <1>1, Results, PTL

-----------------------------------------------------------------------------
(* How many threads a core and a processor have: first the arithmetic, *)
LEMMA DivMod ==
  ASSUME NEW a \in Nat, NEW n \in Nat \ {0}
  PROVE  a = n * (a \div n) + (a % n) /\ a % n \in 0 .. n - 1 /\ a \div n \in Nat
OBVIOUS

(* Multiples of n are at least n apart, *)
LEMMA ProductOrder ==
  ASSUME NEW n \in Nat \ {0}, NEW a \in Int, NEW b \in Int, a < b
  PROVE  n * a \in Int /\ n * b \in Int /\ n * a + n <= n * b
<1> DEFINE d == b - a - 1
<1>1. d \in Nat /\ b = a + 1 + d  OBVIOUS
<1> HIDE DEF d
<1>2. n * b = n * a + n + n * d  BY <1>1
<1>3. n * d \in Nat  BY <1>1
<1> DEFINE p == n * a
           q == n * d
<1>4. p \in Int /\ q \in Nat  BY <1>3
<1>5. n * b = p + n + q  BY <1>2
<1> HIDE DEF p, q
<1> QED  BY <1>4, <1>5 DEF p

(* so quotient and remainder are unique. *)
LEMMA DivModUnique ==
  ASSUME NEW n \in Nat \ {0}, NEW q \in Nat, NEW r \in 0 .. n - 1
  PROVE  (n * q + r) \div n = q /\ (n * q + r) % n = r /\ n * q + r \in Nat
<1> DEFINE a == n * q + r
           k == a \div n
           s == a % n
<1>1. n * q \in Nat /\ a \in Nat  OBVIOUS
<1>2. a = n * k + s /\ s \in 0 .. n - 1 /\ k \in Nat  BY <1>1, DivMod
<1> HIDE DEF k, s, a
<1>3. a = n * q + r  BY DEF a
<1>4. k = q
  <2>1. CASE k < q
    <3>1. n * k + n <= n * q /\ n * k \in Int /\ n * q \in Int  BY <1>2, <2>1, ProductOrder
    <3> DEFINE x == n * k
               y == n * q
    <3>2. x + s = y + r /\ x + n <= y /\ x \in Int /\ y \in Int  BY <1>2, <1>3, <3>1
    <3> HIDE DEF x, y
    <3> QED  BY <1>2, <3>2
  <2>2. CASE q < k
    <3>1. n * q + n <= n * k /\ n * k \in Int /\ n * q \in Int  BY <1>2, <2>2, ProductOrder
    <3> DEFINE x == n * k
               y == n * q
    <3>2. x + s = y + r /\ y + n <= x /\ x \in Int /\ y \in Int  BY <1>2, <1>3, <3>1
    <3> HIDE DEF x, y
    <3> QED  BY <1>2, <3>2
  <2> QED  BY <1>2, <2>1, <2>2
<1>5. s = r
  <2> DEFINE y == n * q
  <2>1. y + s = y + r /\ y \in Int  BY <1>2, <1>3, <1>4
  <2> HIDE DEF y
  <2> QED  BY <1>2, <2>1
<1> QED  BY <1>1, <1>4, <1>5 DEF a, k, s

Residues(N, n, r) == {i \in 0 .. N - 1 : i % n = r}

(* Of N numbers in a row as many have one remainder as another, up to one. *)
LEMMA ResiduesCounted ==
  ASSUME NEW N \in Nat, NEW n \in Nat \ {0}, NEW r \in 0 .. n - 1
  PROVE  /\ IsFiniteSet(Residues(N, n, r))
         /\ Cardinality(Residues(N, n, r)) \in N \div n .. N \div n + 1
<1> DEFINE S == Residues(N, n, r)
           q == N \div n
           f == [k \in 0 .. q - 1 |-> n * k + r]
           g == [i \in S |-> i \div n]
<1>1. q \in Nat /\ N = n * q + (N % n) /\ N % n \in 0 .. n - 1  BY DivMod
<1>2. IsFiniteSet(S)
  <2>1. IsFiniteSet(0 .. N - 1) /\ S \subseteq 0 .. N - 1  BY FS_Interval DEF Residues
  <2> QED  BY <2>1, FS_Subset
<1> HIDE DEF q
<1>3. f \in Injection(0 .. q - 1, S)
  <2>1. ASSUME NEW k \in 0 .. q - 1 PROVE n * k + r \in S
    <3>1. k \in Nat /\ k < q  BY <1>1
    <3>2. (n * k + r) % n = r /\ n * k + r \in Nat  BY <3>1, DivModUnique
    <3>3. n * k + n <= n * q /\ n * k \in Int /\ n * q \in Int  BY <1>1, <3>1, ProductOrder
    <3> DEFINE x == n * k
               y == n * q
               s == N % n
    <3>4. x + n <= y /\ x \in Int /\ y \in Int /\ N = y + s /\ s \in 0 .. n - 1  BY <1>1, <3>3
    <3> HIDE DEF x, y, s
    <3>5. x + r < N  BY <3>4
    <3> QED  BY <3>2, <3>5 DEF x, Residues
  <2>2. ASSUME NEW k \in 0 .. q - 1, NEW l \in 0 .. q - 1, n * k + r = n * l + r PROVE k = l
    <3>1. k \in Nat /\ l \in Nat  BY <1>1
    <3> QED  BY <2>2, <3>1, DivModUnique
  <2> HIDE DEF S
  <2>3. f \in [0 .. q - 1 -> S]  BY <2>1
  <2>4. \A k, l \in 0 .. q - 1 : f[k] = f[l] => k = l  BY <2>2
  <2> HIDE DEF f
  <2> QED  BY <2>3, <2>4 DEF Injection, IsInjective
<1>4. g \in Injection(S, 0 .. q)
  <2>1. ASSUME NEW i \in S PROVE i \div n \in 0 .. q /\ i = n * (i \div n) + r
    <3>1. i \in Nat /\ i < N /\ i % n = r  BY DEF Residues
    <3> DEFINE k == i \div n
    <3>2. k \in Nat /\ i = n * k + r  BY <3>1, DivMod
    <3> HIDE DEF k
    <3>3. ASSUME q < k PROVE FALSE
      <4>1. n * q + n <= n * k /\ n * k \in Int /\ n * q \in Int  BY <1>1, <3>2, <3>3, ProductOrder
      <4> DEFINE x == n * k
                 y == n * q
                 s == N % n
      <4>2. y + n <= x /\ x \in Int /\ y \in Int /\ N = y + s /\ s \in 0 .. n - 1 /\ i = x + r
            BY <1>1, <3>2, <4>1
      <4> HIDE DEF x, y, s
      <4> QED  BY <3>1, <4>2
    <3>4. k <= q  BY <1>1, <3>2, <3>3
    <3> QED  BY <1>1, <3>2, <3>4 DEF k
  <2>2. \A i, j \in S : g[i] = g[j] => i = j
    <3> SUFFICES ASSUME NEW i \in S, NEW j \in S, g[i] = g[j] PROVE i = j  OBVIOUS
    <3>1. i \div n = j \div n  OBVIOUS
    <3> QED  BY <2>1, <3>1
  <2>3. g \in [S -> 0 .. q]  BY <2>1
  <2> HIDE DEF g
  <2> QED  BY <2>2, <2>3 DEF Injection, IsInjective
<1> HIDE DEF S, f, g
<1>5. q <= Cardinality(S)
  <2>1. Cardinality(0 .. q - 1) = q  BY <1>1, FS_Interval
  <2>2. Cardinality(0 .. q - 1) <= Cardinality(S)  BY <1>2, <1>3, FS_Injection, Zenon
  <2> QED  BY <2>1, <2>2
<1>6. Cardinality(S) <= q + 1
  <2>1. IsFiniteSet(0 .. q) /\ Cardinality(0 .. q) = q + 1
    <3>1. 0 \in Int /\ q \in Int /\ ~(0 > q) /\ q - 0 + 1 = q + 1  BY <1>1
    <3> QED  BY <3>1, FS_Interval
  <2>2. Cardinality(S) <= Cardinality(0 .. q)  BY <1>4, <2>1, FS_Injection, Zenon
  <2> QED  BY <2>1, <2>2
<1>7. Cardinality(S) \in Nat  BY <1>2, FS_CardinalityType
<1> QED  BY <1>1, <1>2, <1>5, <1>6, <1>7 DEF S, q

(* The members of the residue class c whose quotients are in the class r. *)
Nested(N, C, c, m, r) == {i \in 0 .. N - 1 : i % C = c /\ (i \div C) % m = r}
Quotients(N, C, c) == IF c < N % C THEN N \div C + 1 ELSE N \div C

(* The numbers below N of one remainder have as their quotients 0, 1, ... *)
LEMMA QuotientsCounted ==
  ASSUME NEW N \in Nat, NEW C \in Nat \ {0}, NEW c \in 0 .. C - 1, NEW k \in Nat
  PROVE  /\ Quotients(N, C, c) \in Nat
         /\ k < Quotients(N, C, c) <=> C * k + c < N
<1> DEFINE q == N \div C
           s == N % C
           x == C * k
           y == C * q
<1>0. N = y + s /\ s \in 0 .. C - 1 /\ q \in Nat  BY DivMod
<1>1. N = y + s /\ s \in 0 .. C - 1 /\ q \in Nat /\ x \in Int /\ y \in Int
  <2> HIDE DEF q, s
  <2> QED  BY <1>0
<1>2. k < q => x + C <= y  BY <1>1, ProductOrder
<1>3. q < k => y + C <= x  BY <1>1, ProductOrder
<1>4. k = q => x = y  OBVIOUS
<1>5. Quotients(N, C, c) = IF c < s THEN q + 1 ELSE q  BY DEF Quotients
<1> HIDE DEF q, s, x, y
<1>6. k < q \/ k = q \/ q < k  BY <1>1
<1>7. k < (IF c < s THEN q + 1 ELSE q) <=> x + c < N
  <2>1. CASE k < q  BY <2>1, <1>1, <1>2
  <2>2. CASE q < k  BY <2>2, <1>1, <1>3
  <2>3. CASE q = k  BY <2>3, <1>1, <1>4
  <2> QED  BY <1>6, <2>1, <2>2, <2>3
<1> QED  BY <1>1, <1>5, <1>7 DEF x

(* Taken every m-th, there are as many of one place as of another, up to one. *)
LEMMA NestedCounted ==
  ASSUME NEW N \in Nat, NEW C \in Nat \ {0}, NEW c \in 0 .. C - 1, NEW m \in Nat \ {0}, NEW r \in 0 .. m - 1
  PROVE  /\ IsFiniteSet(Nested(N, C, c, m, r))
         /\ Cardinality(Nested(N, C, c, m, r)) \in
              Quotients(N, C, c) \div m .. Quotients(N, C, c) \div m + 1
<1> DEFINE S == Nested(N, C, c, m, r)
           M == Quotients(N, C, c)
           R == Residues(M, m, r)
           f == [k \in R |-> C * k + c]
           g == [i \in S |-> i \div C]
<1>1. M \in Nat /\ IsFiniteSet(R) /\ Cardinality(R) \in M \div m .. M \div m + 1
  <2>1. M \in Nat  BY 0 \in Nat, QuotientsCounted
  <2> HIDE DEF M
  <2> QED  BY <2>1, ResiduesCounted
<1>2. IsFiniteSet(S)
  <2>1. IsFiniteSet(0 .. N - 1) /\ S \subseteq 0 .. N - 1  BY FS_Interval DEF Nested
  <2> QED  BY <2>1, FS_Subset
<1>3. f \in Injection(R, S)
  <2>1. ASSUME NEW k \in R
        PROVE  C * k + c \in S /\ (C * k + c) \div C = k
    <3>1. k \in Nat /\ k < M /\ k % m = r
      <4> HIDE DEF M
      <4> QED  BY <1>1 DEF Residues
    <3>2. C * k + c < N  BY <3>1, QuotientsCounted
    <3>3. (C * k + c) \div C = k /\ (C * k + c) % C = c /\ C * k + c \in Nat  BY <3>1, DivModUnique
    <3> DEFINE x == C * k + c
    <3>4. x \in Nat /\ x < N /\ x % C = c /\ (x \div C) % m = r  BY <3>1, <3>2, <3>3
    <3> HIDE DEF x, M
    <3>5. x \in Nested(N, C, c, m, r)  BY <3>4 DEF Nested
    <3> QED  BY <3>3, <3>5 DEF x
  <2> HIDE DEF S, R
  <2>2. f \in [R -> S]  BY <2>1
  <2>3. \A k, l \in R : f[k] = f[l] => k = l
    <3> SUFFICES ASSUME NEW k \in R, NEW l \in R, f[k] = f[l] PROVE k = l  OBVIOUS
    <3>1. C * k + c = C * l + c  OBVIOUS
    <3> QED  BY <2>1, <3>1
  <2> HIDE DEF f
  <2> QED  BY <2>2, <2>3 DEF Injection, IsInjective
<1>4. g \in Injection(S, R)
  <2>1. ASSUME NEW i \in S
        PROVE  i \div C \in R /\ i = C * (i \div C) + c
    <3>1. i \in Nat /\ i < N /\ i % C = c /\ (i \div C) % m = r  BY DEF Nested
    <3>2. i = C * (i \div C) + c /\ i \div C \in Nat
      <4>1. i = C * (i \div C) + (i % C) /\ i \div C \in Nat  BY <3>1, DivMod
      <4> QED  BY <3>1, <4>1
    <3>3. C * (i \div C) + c < N  BY <3>1, <3>2
    <3>4. i \div C < M  BY <3>2, <3>3, QuotientsCounted
    <3> DEFINE k == i \div C
    <3>5. k \in Nat /\ k < M /\ k % m = r  BY <3>1, <3>2, <3>4
    <3> HIDE DEF k, M
    <3>6. k \in R  BY <1>1, <3>5 DEF Residues
    <3> QED  BY <3>2, <3>6 DEF k
  <2> HIDE DEF S, R
  <2>2. g \in [S -> R]  BY <2>1
  <2>3. \A i, j \in S : g[i] = g[j] => i = j
    <3> SUFFICES ASSUME NEW i \in S, NEW j \in S, g[i] = g[j] PROVE i = j  OBVIOUS
    <3>1. i \div C = j \div C  OBVIOUS
    <3> QED  BY <2>1, <3>1
  <2> HIDE DEF g
  <2> QED  BY <2>2, <2>3 DEF Injection, IsInjective
<1> HIDE DEF S, R, f, g
<1>5. Cardinality(R) <= Cardinality(S)  BY <1>2, <1>3, FS_Injection, Zenon
<1>6. Cardinality(S) <= Cardinality(R)  BY <1>1, <1>4, FS_Injection, Zenon
<1>7. Cardinality(S) \in Nat /\ Cardinality(R) \in Nat  BY <1>1, <1>2, FS_CardinalityType
<1>8. Cardinality(S) = Cardinality(R)  BY <1>5, <1>6, <1>7
<1> QED  BY <1>1, <1>2, <1>8 DEF S

-----------------------------------------------------------------------------
(* and the threads. *)
(* From the time the threads are bound until the end. *)
Bound ==
  \/ affinity = <<>>
  \/ /\ affinity = [i \in Threads |-> Processor(i)]
     /\ cpuInfo = CpuInfo(core_ids) /\ cpuInfo.n_cpu > 0

(* Bound is inductive, given IInv. *)
LEMMA InitBound == Init => Bound
BY DEF Init, Bound

LEMMA NextBound == IInv /\ Bound /\ [Next]_vars => Bound'
<1> SUFFICES ASSUME IInv, Bound, [Next]_vars PROVE Bound'  OBVIOUS
<1>1. CASE SetAttrs
  <2>1. cpuInfo = CpuInfo(core_ids)  BY <1>1 DEF IInv, Waited, SetAttrs
  <2>2. UNCHANGED arguments /\ UNCHANGED cpuInfo  BY <1>1 DEF SetAttrs
  <2>3. Threads' = Threads /\ core_ids' = core_ids  BY <2>2, ArgumentsKept DEF arguments
  <2>4. \A i : Processor(i)' = Processor(i)  BY <2>2 DEF Processor
  <2>5. CASE affinity' = affinity  BY <2>2, <2>3, <2>4, <2>5 DEF Bound
  <2>6. CASE cpuInfo.n_cpu > 0 /\ affinity' = [i \in Threads |-> Processor(i)]
        BY <2>1, <2>2, <2>3, <2>4, <2>6 DEF Bound
  <2> QED  BY <1>1, <2>5, <2>6 DEF SetAttrs
<1>2. CASE GetCpuInfo
  <2>1. affinity = <<>>  BY <1>2 DEF IInv, Waited, GetCpuInfo, Ready
  <2> QED  BY <1>2, <2>1 DEF GetCpuInfo, Bound
<1>3. CASE UNCHANGED arguments /\ UNCHANGED <<cpuInfo, affinity>>
  <2>1. Threads' = Threads /\ core_ids' = core_ids  BY <1>3, ArgumentsKept DEF arguments
  <2>2. \A i : Processor(i)' = Processor(i)  BY <1>3 DEF Processor
  <2> QED  BY <1>3, <2>1, <2>2 DEF Bound
<1>4. \/ SetAttrs \/ GetCpuInfo
      \/ UNCHANGED arguments /\ UNCHANGED <<cpuInfo, affinity>>
      BY DEF Next, Main, CheckArguments, AllocateThreads, AllocateInfos, AllocateAttrs, Create,
             AllCreated, Join, AllJoined, Exit, Free, PrintResult, ThreadReads, ThreadWrites,
             Terminated, vars, tables
<1> QED  BY <1>1, <1>2, <1>3, <1>4

(* Two numbers of which each is q or q + 1. *)
LEMMA CardinalitiesDiffer ==
  ASSUME NEW q \in Nat, NEW a \in q .. q + 1, NEW b \in q .. q + 1
  PROVE  a - b \in -1 .. 1
OBVIOUS

(* The threads of a core, and those of a processor. *)
LEMMA ThreadsOf ==
  ASSUME Types, InOrder(core_ids), cpuInfo = CpuInfo(core_ids), cpuInfo.n_cpu > 0,
         affinity = [i \in Threads |-> Processor(i)], NEW p \in 0 .. n_cpus - 1
  PROVE  LET N == NThreadCreate
             C == cpuInfo.n_cpu
             c == core_ids[p + 1]
             cpu == cpuInfo.cpus[c]
         IN  /\ N \in Nat /\ C \in Nat \ {0} /\ c \in 0 .. C - 1 /\ Len(cpu) \in Nat \ {0}
             /\ {i \in Threads : core_ids[affinity[i] + 1] = c} = Residues(N, C, c)
             /\ \E r \in 0 .. Len(cpu) - 1 :
                  {i \in Threads : affinity[i] = p} = Nested(N, C, c, Len(cpu), r)
<1> DEFINE N == NThreadCreate
           C == cpuInfo.n_cpu
           L == Len(core_ids)
           c == core_ids[p + 1]
           cpu == cpuInfo.cpus[c]
<1>1. core_ids \in Ids /\ n_cpus \in Nat \ {0} /\ (core_ids = <<>> \/ L = n_cpus)  BY IdsOfMachine
<1>2. Sound(cpuInfo, L, L) /\ Grouped(cpuInfo, core_ids, L)  BY <1>1, CpuInfoSound, CpuInfoGrouped
<1>3. L = n_cpus /\ L \in Nat /\ C \in Nat \ {0}
  <2>1. L \in Nat  BY <1>1 DEF Ids
  <2>2. C \in 0 .. L  BY <1>2 DEF Sound
  <2>3. core_ids = <<>> => L = 0  OBVIOUS
  <2> QED  BY <1>1, <2>1, <2>2, <2>3
<1>4. N \in Nat /\ Threads = 0 .. N - 1  BY ThreadsCounted
<1>5. c \in 0 .. C - 1
  <2>1. c \in Seen(core_ids, L)  BY <1>3 DEF Seen
  <2> QED  BY <1>2, <2>1 DEF Grouped
<1>6. \A d \in 0 .. C - 1 :
        /\ Placed(cpuInfo.cpus[d], core_ids, d, L)
        /\ cpuInfo.cpus[d] \in Seq(0 .. L - 1) /\ Len(cpuInfo.cpus[d]) \in Nat \ {0}
  <2> TAKE d \in 0 .. C - 1
  <2>1. C \in 0 .. L  BY <1>2 DEF Sound
  <2>2. d \in 0 .. L - 1  BY <1>3, <2>1
  <2>3. cpuInfo.cpus[d] \in Seq(0 .. L - 1) /\ Len(cpuInfo.cpus[d]) > 0  BY <1>2, <2>2 DEF Sound
  <2>4. Len(cpuInfo.cpus[d]) \in Nat
    <3> HIDE DEF L
    <3> QED  BY <2>3
  <2> QED  BY <1>2, <2>3, <2>4 DEF Grouped
<1> DEFINE Place(i) == (i \div C) % Len(cpuInfo.cpus[i % C])
<1> HIDE DEF N, C, L
<1>7. ASSUME NEW i \in Threads
      PROVE  /\ i \in Nat /\ i % C \in 0 .. C - 1 /\ i \div C \in Nat
             /\ Place(i) \in 0 .. Len(cpuInfo.cpus[i % C]) - 1
             /\ affinity[i] = cpuInfo.cpus[i % C][Place(i) + 1]
             /\ core_ids[affinity[i] + 1] = i % C
  <2>1. i \in Nat  BY <1>4
  <2>2. i % C \in 0 .. C - 1 /\ i \div C \in Nat  BY <1>3, <2>1, DivMod
  <2> DEFINE d == i % C
             k == i \div C
             m == Len(cpuInfo.cpus[d])
             r == k % m
  <2>3. m \in Nat \ {0} /\ Placed(cpuInfo.cpus[d], core_ids, d, L)  BY <1>6, <2>2
  <2>4. r \in 0 .. m - 1
    <3>1. k \in Nat  BY <2>2
    <3> HIDE DEF k, m
    <3> QED  BY <2>3, <3>1, DivMod
  <2>5. r + 1 \in 1 .. m
    <3> HIDE DEF r, m
    <3> QED  BY <2>3, <2>4
  <2>6. affinity[i] = cpuInfo.cpus[d][r + 1]  BY DEF Processor, C
  <2>7. core_ids[cpuInfo.cpus[d][r + 1] + 1] = d
    <3> HIDE DEF d, r
    <3> QED  BY <2>3, <2>5 DEF Placed
  <2> QED  BY <2>1, <2>2, <2>4, <2>6, <2>7
<1> HIDE DEF c
<1>8. {i \in Threads : core_ids[affinity[i] + 1] = c} = Residues(N, C, c)
  <2>1. \A i \in Threads : core_ids[affinity[i] + 1] = c <=> i % C = c  BY <1>7
  <2> QED  BY <1>4, <2>1 DEF Residues
<1>9. Len(cpu) \in Nat \ {0} /\ Placed(cpu, core_ids, c, L)  BY <1>5, <1>6
<1>10. PICK j \in 1 .. Len(cpu) : cpu[j] = p
  <2>1. p \in 0 .. L - 1 /\ core_ids[p + 1] = c  BY <1>3 DEF c
  <2> QED  BY <1>9, <2>1 DEF Placed
<1>11. j - 1 \in 0 .. Len(cpu) - 1 /\ j - 1 + 1 = j
  <2> HIDE DEF cpu
  <2> QED  BY <1>9
<1>12. ASSUME NEW i \in Threads
       PROVE  affinity[i] = p <=> i % C = c /\ (i \div C) % Len(cpu) = j - 1
  <2>1. i % C = c => Place(i) = (i \div C) % Len(cpu) /\ affinity[i] = cpu[Place(i) + 1]
                     /\ Place(i) \in 0 .. Len(cpu) - 1
        BY <1>7
  <2>2. affinity[i] = p => i % C = c  BY <1>7 DEF c
  <2>3. i % C = c => (affinity[i] = p <=> Place(i) = j - 1)
    <3> SUFFICES ASSUME i % C = c PROVE affinity[i] = p <=> Place(i) = j - 1  OBVIOUS
    <3>1. affinity[i] = cpu[Place(i) + 1] /\ Place(i) \in 0 .. Len(cpu) - 1  BY <2>1
    <3> HIDE DEF Place, cpu
    <3>2. Place(i) + 1 \in 1 .. Len(cpu) /\ (Place(i) + 1 = j <=> Place(i) = j - 1)
          BY <1>9, <1>11, <3>1
    <3>3. cpu[Place(i) + 1] = cpu[j] => Place(i) + 1 = j  BY <1>9, <3>2 DEF Placed
    <3> QED  BY <1>10, <3>1, <3>2, <3>3
  <2> HIDE DEF Place
  <2> QED  BY <2>1, <2>2, <2>3
<1>13. {i \in Threads : affinity[i] = p} = Nested(N, C, c, Len(cpu), j - 1)
  <2> HIDE DEF cpu
  <2> QED  BY <1>4, <1>12 DEF Nested
<1> QED
  <2>1. \E r \in 0 .. Len(cpu) - 1 :
           {i \in Threads : affinity[i] = p} = Nested(N, C, c, Len(cpu), r)
        BY <1>11, <1>13
  <2> QED  BY <1>3, <1>4, <1>5, <1>8, <1>9, <2>1 DEF N, C, c

(* A core has the threads of one remainder, a processor every m-th of them. *)
LEMMA BoundSpread == Types /\ Bound => Spread
<1> SUFFICES ASSUME Types, Bound, affinity # <<>>, Numbered,
                    NEW p \in 0 .. n_cpus - 1, NEW q \in 0 .. n_cpus - 1
             PROVE  LET core(x) == core_ids[x + 1]
                        onProcessor(x) == Cardinality({i \in Threads : affinity[i] = x})
                        onCore(x) == Cardinality({i \in Threads : core(affinity[i]) = core(x)})
                    IN  /\ onCore(p) - onCore(q) \in -1 .. 1
                        /\ core(p) = core(q) => onProcessor(p) - onProcessor(q) \in -1 .. 1
    BY DEF Spread
<1> DEFINE N == NThreadCreate
           C == cpuInfo.n_cpu
           core(x) == core_ids[x + 1]
           len(x) == Len(cpuInfo.cpus[core(x)])
           onProcessor(x) == {i \in Threads : affinity[i] = x}
           onCore(x) == {i \in Threads : core(affinity[i]) = core(x)}
<1>1. ASSUME NEW x \in 0 .. n_cpus - 1
      PROVE  /\ N \in Nat /\ C \in Nat \ {0} /\ core(x) \in 0 .. C - 1 /\ len(x) \in Nat \ {0}
             /\ onCore(x) = Residues(N, C, core(x))
             /\ \E r \in 0 .. len(x) - 1 : onProcessor(x) = Nested(N, C, core(x), len(x), r)
  <2>1. /\ InOrder(core_ids) /\ affinity = [i \in Threads |-> Processor(i)]
        /\ cpuInfo = CpuInfo(core_ids) /\ cpuInfo.n_cpu > 0
        BY DEF Numbered, InOrder, Bound
  <2> QED  BY <2>1, ThreadsOf
<1> DEFINE size == Quotients(N, C, core(p)) \div len(p)
<1>2. ASSUME NEW x \in 0 .. n_cpus - 1
      PROVE  /\ Cardinality(onCore(x)) \in N \div C .. N \div C + 1
             /\ core(x) = core(p) => Cardinality(onProcessor(x)) \in size .. size + 1
  <2>1. /\ N \in Nat /\ C \in Nat \ {0} /\ core(x) \in 0 .. C - 1 /\ len(x) \in Nat \ {0}
        /\ onCore(x) = Residues(N, C, core(x))
        BY <1>1
  <2>2. PICK r \in 0 .. len(x) - 1 : onProcessor(x) = Nested(N, C, core(x), len(x), r)  BY <1>1
  <2> HIDE DEF N, C, onProcessor, onCore
  <2>3. Cardinality(onCore(x)) \in N \div C .. N \div C + 1  BY <2>1, ResiduesCounted
  <2>4. core(x) = core(p) => len(x) = len(p)  OBVIOUS
  <2> HIDE DEF len, core
  <2>5. Cardinality(onProcessor(x)) \in
          Quotients(N, C, core(x)) \div len(x) .. Quotients(N, C, core(x)) \div len(x) + 1
        BY <2>1, <2>2, NestedCounted
  <2> QED  BY <2>3, <2>4, <2>5
<1>3. N \div C \in Nat /\ size \in Nat
  <2>1. N \in Nat /\ C \in Nat \ {0} /\ core(p) \in 0 .. C - 1 /\ len(p) \in Nat \ {0}  BY <1>1
  <2> HIDE DEF N, C, len, core
  <2>2. N \div C \in Nat  BY <2>1, DivMod
  <2>3. Quotients(N, C, core(p)) \in Nat  BY <2>1, 0 \in Nat, QuotientsCounted
  <2> QED  BY <2>1, <2>2, <2>3, DivMod
<1> HIDE DEF N, C, size
<1>4. Cardinality(onCore(p)) - Cardinality(onCore(q)) \in -1 .. 1
      BY <1>2, <1>3, CardinalitiesDiffer
<1>5. core(p) = core(q) => Cardinality(onProcessor(p)) - Cardinality(onProcessor(q)) \in -1 .. 1
      BY <1>2, <1>3, CardinalitiesDiffer
<1> QED  BY <1>4, <1>5

LEMMA Bindings == Spec => []Bound
BY InitBound, NextBound, Inductive, PTL DEF Spec

(* If the cores are numbered in the order of their processors, the threads are bound so *)
(* that no core, and no processor of a core, has more than one thread more than another, *)
(* however many of each there are.                                                       *)
THEOREM ThreadsSpread == Spec => []Spread
<1>1. IInv /\ Bound => Spread  BY BoundSpread DEF IInv
<1> QED  BY <1>1, Inductive, Bindings, PTL
=============================================================================
