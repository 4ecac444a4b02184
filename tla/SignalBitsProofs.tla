-------------------------- MODULE SignalBitsProofs --------------------------
(***************************************************************************)
(* What SignalBits prints is its file, for characters of any width and     *)
(* files of any length.  First that ToChar() undoes ToBits(), by induction *)
(* over the bits (derived from what is known of finite sets), then that    *)
(* every bit arrives.                                                      *)
(***************************************************************************)
EXTENDS SignalBits, FiniteSetTheorems, TLAPS

(* A set with 0 and the successor of each of its numbers has every number. *)
LEMMA Induction ==
  ASSUME NEW S, 0 \in S, \A n \in Nat : n \in S => n + 1 \in S
  PROVE  Nat \subseteq S
<1> SUFFICES ASSUME NEW n \in Nat, n \notin S PROVE FALSE  OBVIOUS
<1> DEFINE D == (0 .. n) \cap S
           f == [x \in D |-> x + 1]
<1>1. IsFiniteSet(D) /\ IsFiniteSet(D \ {0}) /\ Cardinality(D \ {0}) = Cardinality(D) - 1
      /\ Cardinality(D) \in Nat
  <2>1. IsFiniteSet(0 .. n)  BY FS_Interval
  <2>2. IsFiniteSet(D)  BY <2>1, FS_Intersection, Zenon
  <2>3. 0 \in D  OBVIOUS
  <2> HIDE DEF D
  <2> QED  BY <2>2, <2>3, FS_RemoveElement, FS_CardinalityType
<1>2. f \in Injection(D, D \ {0})
  <2>1. f \in [D -> D \ {0}]  OBVIOUS
  <2>2. \A x, y \in D : f[x] = f[y] => x = y  OBVIOUS
  <2> HIDE DEF f
  <2> QED  BY <2>1, <2>2 DEF Injection, IsInjective
<1> HIDE DEF f, D
<1>3. Cardinality(D) <= Cardinality(D \ {0})  BY <1>1, <1>2, FS_Injection, Zenon
<1> QED  BY <1>1, <1>3

(* step[i] is a function from S to S *)
Recurs(f, N, S, f0, step) ==
  f \in [0 .. N -> S] /\ f[0] = f0 /\ \A i \in 1 .. N : f[i] = step[i][f[i - 1]]

CanStep(N, S, f0, step) == N \in Nat /\ f0 \in S /\ step \in [1 .. N -> [S -> S]]

(* A function defined from its value at 0, step by step, exists. *)
LEMMA Recursion ==
  ASSUME NEW N, NEW S, NEW f0, NEW step, CanStep(N, S, f0, step)
  PROVE  \E f : Recurs(f, N, S, f0, step)
<1> USE DEF CanStep
<1> DEFINE Good(n, f) == f[0] = f0 /\ \A i \in 1 .. n : f[i] = step[i][f[i - 1]]
           T == {n \in Nat : n <= N => \E f \in [0 .. n -> S] : Good(n, f)}
<1>1. 0 \in T
  <2>1. [i \in 0 .. 0 |-> f0] \in [0 .. 0 -> S]  OBVIOUS
  <2>2. Good(0, [i \in 0 .. 0 |-> f0])  OBVIOUS
  <2> QED  BY <2>1, <2>2
<1>2. ASSUME NEW n \in Nat, n \in T PROVE n + 1 \in T
  <2> SUFFICES ASSUME n + 1 <= N PROVE \E f \in [0 .. n + 1 -> S] : Good(n + 1, f)  OBVIOUS
  <2>1. PICK f \in [0 .. n -> S] : Good(n, f)  BY <1>2
  <2> DEFINE g == [i \in 0 .. n + 1 |-> IF i = n + 1 THEN step[n + 1][f[n]] ELSE f[i]]
  <2>2. step[n + 1] \in [S -> S] /\ f[n] \in S  OBVIOUS
  <2>3. g \in [0 .. n + 1 -> S]  BY <2>2
  <2>4. \A i \in 1 .. n + 1 : g[i] = step[i][g[i - 1]]
    <3> TAKE i \in 1 .. n + 1
    <3>2. CASE i \in 1 .. n
      <4>1. /\ i \in 0 .. n + 1 /\ i # n + 1 /\ i \in 0 .. n /\ i # 0
            /\ i - 1 \in 0 .. n + 1 /\ i - 1 # n + 1 /\ i - 1 \in 0 .. n
            BY <3>2
      <4>2. g[i] = f[i] /\ g[i - 1] = f[i - 1]  BY <4>1
      <4>3. f[i] = step[i][f[i - 1]]  BY <2>1, <4>1
      <4> QED  BY <4>1, <4>2, <4>3
    <3>3. CASE i = n + 1  BY <3>3
    <3> QED  BY <3>2, <3>3
  <2>5. g[0] = f0  BY <2>1
  <2>6. Good(n + 1, g)  
    <3> HIDE DEF g
    <3> QED BY <2>5, <2>4
  <2> QED  BY <2>3, <2>6
<1>3. Nat \subseteq T  BY <1>1, <1>2, Induction
<1> QED  BY <1>3 DEF Recurs

(* Quotient and remainder. *)
LEMMA DivMod ==
  ASSUME NEW a \in Nat, NEW n \in Nat \ {0}
  PROVE  a = n * (a \div n) + (a % n) /\ a % n \in 0 .. n - 1 /\ a \div n \in Nat
OBVIOUS

(* Multiples of n are at least n apart, *)
LEMMA ProductOrder ==
  ASSUME NEW n \in Nat \ {0}, NEW a \in Int, NEW b \in Int, a < b
  PROVE  n * a \in Int /\ n * b \in Int /\ n * a + n <= n * b
<1> DEFINE d == b - a - 1
<1>1. d \in Nat /\ b = a + 1 + d  OBVIOUS
<1> HIDE DEF d
<1>2. n * b = n * a + n + n * d  BY <1>1
<1>3. n * d \in Nat  BY <1>1
<1> DEFINE p == n * a
           q == n * d
<1>4. p \in Int /\ q \in Nat  BY <1>3
<1>5. n * b = p + n + q  BY <1>2
<1> HIDE DEF p, q
<1> QED  BY <1>4, <1>5 DEF p

(* so quotient and remainder are unique. *)
LEMMA DivModUnique ==
  ASSUME NEW n \in Nat \ {0}, NEW q \in Nat, NEW v \in 0 .. n - 1
  PROVE  (n * q + v) \div n = q /\ (n * q + v) % n = v /\ n * q + v \in Nat
<1> DEFINE a == n * q + v
           k == a \div n
           s == a % n
<1>1. n * q \in Nat /\ a \in Nat  OBVIOUS
<1>2. a = n * k + s /\ s \in 0 .. n - 1 /\ k \in Nat  BY <1>1, DivMod
<1> HIDE DEF k, s, a
<1>3. a = n * q + v  BY DEF a
<1>4. k = q
  <2>1. CASE k < q
    <3>1. n * k + n <= n * q /\ n * k \in Int /\ n * q \in Int  BY <1>2, <2>1, ProductOrder
    <3> DEFINE x == n * k
               y == n * q
    <3>2. x + s = y + v /\ x + n <= y /\ x \in Int /\ y \in Int  BY <1>2, <1>3, <3>1
    <3> HIDE DEF x, y
    <3> QED  BY <1>2, <3>2
  <2>2. CASE q < k
    <3>1. n * q + n <= n * k /\ n * k \in Int /\ n * q \in Int  BY <1>2, <2>2, ProductOrder
    <3> DEFINE x == n * k
               y == n * q
    <3>2. x + s = y + v /\ y + n <= x /\ x \in Int /\ y \in Int  BY <1>2, <1>3, <3>1
    <3> HIDE DEF x, y
    <3> QED  BY <1>2, <3>2
  <2> QED  BY <1>2, <2>1, <2>2
<1>5. s = v
  <2> DEFINE y == n * q
  <2>1. y + s = y + v /\ y \in Int  BY <1>2, <1>3, <1>4
  <2> HIDE DEF y
  <2> QED  BY <1>2, <2>1
<1> QED  BY <1>1, <1>4, <1>5 DEF a, k, s

(* Power is the powers of 2. *)
LEMMA Powers ==
  /\ Power \in [0 .. Width -> Nat \ {0}] /\ Power[0] = 1
  /\ \A i \in 1 .. Width : Power[i] = 2 * Power[i - 1]
<1> DEFINE N == Nat \ {0}
           step == [i \in 1 .. Width |-> [v \in N |-> 2 * v]]
           P(g) == g = [i \in 0 .. Width |-> IF i = 0 THEN 1 ELSE 2 * g[i - 1]]
<1>1. Width \in Nat  BY WidthAssumption
<1>2. CanStep(Width, N, 1, step)  BY <1>1 DEF CanStep
<1>3. PICK f : Recurs(f, Width, N, 1, step)  BY <1>2, Recursion
<1>4. P(f)
  <2>1. f \in [0 .. Width -> N] /\ f[0] = 1 /\ \A i \in 1 .. Width : f[i] = step[i][f[i - 1]]
        BY <1>3 DEF Recurs
  <2>2. \A i \in 1 .. Width : f[i] = 2 * f[i - 1]
    <3> TAKE i \in 1 .. Width
    <3>1. f[i - 1] \in N /\ step[i] = [v \in N |-> 2 * v]  BY <1>1, <2>1
    <3> HIDE DEF step
    <3> QED  BY <2>1, <3>1
  <2>3. \A i \in 0 .. Width : i = 0 \/ i \in 1 .. Width  BY <1>1
  <2> HIDE DEF step
  <2> QED  BY <2>1, <2>2, <2>3
<1>5. P(Power)
  <2>1. Power = CHOOSE g : P(g)  BY DEF Power
  <2> HIDE DEF P
  <2> QED  BY <1>4, <2>1, Zenon
<1>6. Power[0] = 1 /\ \A i \in 1 .. Width : Power[i] = 2 * Power[i - 1]
  <2>1. 0 \in 0 .. Width /\ \A i \in 1 .. Width : i \in 0 .. Width /\ i # 0  BY <1>1
  <2> QED  BY <1>5, <2>1
<1>7. Power \in [0 .. Width -> N]
  <2> DEFINE T == {i \in Nat : i <= Width => Power[i] \in N}
  <2>1. 0 \in T  BY <1>6
  <2>2. \A i \in Nat : i \in T => i + 1 \in T
    <3> SUFFICES ASSUME NEW i \in T, i + 1 <= Width PROVE Power[i + 1] \in N  OBVIOUS
    <3>1. i + 1 \in 1 .. Width /\ i + 1 - 1 = i /\ Power[i] \in N  BY <1>1
    <3>2. Power[i + 1] = 2 * Power[i]  BY <1>6, <3>1
    <3> QED  BY <3>1, <3>2
  <2>3. Nat \subseteq T  BY <2>1, <2>2, Induction
  <2>4. \A i \in 0 .. Width : Power[i] \in N  BY <1>1, <2>3
  <2>5. Power = [i \in 0 .. Width |-> IF i = 0 THEN 1 ELSE 2 * Power[i - 1]]  BY <1>5
  <2> QED  BY <2>4, <2>5
<1> QED  BY <1>6, <1>7

(* The loop of ToChar(), one bit at a time. *)
LEMMA ToCharSteps ==
  ASSUME NEW bits \in [Positions -> {0, 1}]
  PROVE  \E v \in [0 .. Width -> Nat] :
           /\ v[0] = 0 /\ ToChar(bits) = v[Width]
           /\ \A i \in 1 .. Width : v[i] = v[i - 1] + bits[i - 1] * Power[i - 1]
<1> DEFINE term == [i \in 1 .. Width |-> bits[i - 1] * Power[i - 1]]
           step == [i \in 1 .. Width |-> [v \in Nat |-> v + term[i]]]
           P(g) == g = [i \in 0 .. Width |-> IF i = 0 THEN 0
                                            ELSE g[i - 1] + bits[i - 1] * Power[i - 1]]
           value == CHOOSE g : P(g)
<1>1. Width \in Nat /\ \A i \in 1 .. Width : i - 1 \in Positions /\ i - 1 \in 0 .. Width
      BY WidthAssumption DEF Positions
<1>2. \A i \in 1 .. Width : term[i] \in Nat /\ term[i] = bits[i - 1] * Power[i - 1]
  <2> TAKE i \in 1 .. Width
  <2>1. bits[i - 1] \in {0, 1} /\ Power[i - 1] \in Nat  BY <1>1, Powers
  <2>2. bits[i - 1] * Power[i - 1] \in Nat  BY <2>1
  <2> QED  BY <2>2
<1> HIDE DEF term
<1>3. CanStep(Width, Nat, 0, step)  BY <1>1, <1>2 DEF CanStep
<1>4. PICK f : Recurs(f, Width, Nat, 0, step)  BY <1>3, Recursion
<1>5. P(f)
  <2>1. f \in [0 .. Width -> Nat] /\ f[0] = 0 /\ \A i \in 1 .. Width : f[i] = step[i][f[i - 1]]
        BY <1>4 DEF Recurs
  <2>2. \A i \in 1 .. Width : f[i] = f[i - 1] + bits[i - 1] * Power[i - 1]
    <3> TAKE i \in 1 .. Width
    <3>1. f[i - 1] \in Nat /\ step[i] = [v \in Nat |-> v + term[i]]  BY <1>1, <2>1
    <3> HIDE DEF step
    <3>2. f[i] = f[i - 1] + term[i]  BY <2>1, <3>1
    <3> QED  BY <1>2, <3>2
  <2>3. \A i \in 0 .. Width : i = 0 \/ i \in 1 .. Width  BY <1>1
  <2> HIDE DEF step
  <2> QED  BY <2>1, <2>2, <2>3
<1>6. P(value)  BY <1>5, Zenon
<1>7. ToChar(bits) = value[Width]  BY DEF ToChar
<1> HIDE DEF value
<1>8. value[0] = 0 /\ \A i \in 1 .. Width : value[i] = value[i - 1] + bits[i - 1] * Power[i - 1]
  <2>1. 0 \in 0 .. Width /\ \A i \in 1 .. Width : i \in 0 .. Width /\ i # 0  BY <1>1
  <2> QED  BY <1>6, <2>1
<1>9. value \in [0 .. Width -> Nat]
  <2> DEFINE T == {i \in Nat : i <= Width => value[i] \in Nat}
  <2>1. 0 \in T  BY <1>8
  <2>2. \A i \in Nat : i \in T => i + 1 \in T
    <3> SUFFICES ASSUME NEW i \in T, i + 1 <= Width PROVE value[i + 1] \in Nat  OBVIOUS
    <3>1. i + 1 \in 1 .. Width /\ i + 1 - 1 = i /\ value[i] \in Nat  BY <1>1
    <3>2. value[i + 1] = value[i] + term[i + 1] /\ term[i + 1] \in Nat  BY <1>2, <1>8, <3>1
    <3> QED  BY <3>1, <3>2
  <2>3. Nat \subseteq T  BY <2>1, <2>2, Induction
  <2>4. \A i \in 0 .. Width : value[i] \in Nat  BY <1>1, <2>3
  <2>5. value = [i \in 0 .. Width |-> IF i = 0 THEN 0 ELSE value[i - 1] + bits[i - 1] * Power[i - 1]]
        BY <1>6
  <2> HIDE DEF T
  <2> QED  BY <2>4, <2>5
<1> QED  BY <1>7, <1>8, <1>9

(* One more bit. *)
LEMMA OneMoreBit ==
  ASSUME NEW c \in Nat, NEW p \in Nat \ {0}
  PROVE  c % (2 * p) = (c % p) + ((c \div p) % 2) * p
<1> DEFINE q == c \div p
           s == c % p
           h == q \div 2
           b == q % 2
           t == p * h
<1>1. c = p * q + s /\ s \in 0 .. p - 1 /\ q \in Nat  BY DivMod
<1>2. q = 2 * h + b /\ b \in {0, 1} /\ h \in Nat
  <2> HIDE DEF q
  <2>1. q = 2 * h + b /\ b \in 0 .. 2 - 1 /\ h \in Nat  BY <1>1, DivMod
  <2> QED  BY <2>1
<1> HIDE DEF q, s, h, b
<1>3. t \in Nat /\ (2 * p) * h = 2 * t  BY <1>2
<1>4. p * q = 2 * t + b * p
  <2>1. CASE b = 0
    <3>1. q = 2 * h  BY <1>2, <2>1
    <3>2. p * (2 * h) = 2 * (p * h)  BY <1>2
    <3>3. b * p = 0 /\ 2 * t + 0 = 2 * t  BY <1>3, <2>1
    <3> QED  BY <3>1, <3>2, <3>3
  <2>2. CASE b = 1
    <3>1. q = 2 * h + 1  BY <1>2, <2>2
    <3>2. p * (2 * h + 1) = 2 * (p * h) + p  BY <1>2
    <3>3. b * p = p  BY <2>2
    <3> QED  BY <3>1, <3>2, <3>3
  <2> QED  BY <1>2, <2>1, <2>2
<1> DEFINE u == b * p + s
<1>5. u \in 0 .. 2 * p - 1
  <2>1. b * p \in {0, p}  BY <1>2
  <2> QED  BY <1>1, <2>1
<1>6. c = (2 * p) * h + u
  <2> DEFINE w == b * p
             x == p * q
  <2>1. w \in Int /\ x \in Int /\ x = 2 * t + w /\ c = x + s /\ u = w + s /\ (2 * p) * h = 2 * t
    <3>1. w \in {0, p}  BY <1>2
    <3> QED  BY <1>1, <1>2, <1>3, <1>4, <3>1
  <2> HIDE DEF w, x, t, u
  <2> QED  BY <1>1, <1>3, <2>1
<1>7. c % (2 * p) = u
  <2> DEFINE n == 2 * p
  <2>1. n \in Nat \ {0} /\ u \in 0 .. n - 1 /\ c = n * h + u  BY <1>5, <1>6
  <2> HIDE DEF n, u
  <2>2. c % n = u  BY <1>2, <2>1, DivModUnique
  <2> QED  BY <2>2 DEF n
<1>8. u = s + b * p
  <2>1. b * p \in {0, p}  BY <1>2
  <2> DEFINE w == b * p
  <2>2. w \in Int  BY <2>1
  <2> HIDE DEF w
  <2>3. w + s = s + w  BY <1>1, <2>2
  <2> QED  BY <2>3 DEF w
<1> QED  BY <1>7, <1>8 DEF q, s, b

(* A character has as many bits as it takes, and they give it back. *)
THEOREM BitsGiveChar ==
  ASSUME NEW c \in Chars
  PROVE  ToBits(c) \in [Positions -> {0, 1}] /\ ToChar(ToBits(c)) = c
<1>1. /\ Width \in Nat \ {0} /\ c \in Nat /\ c < Power[Width]
      /\ \A i \in Positions : i \in 0 .. Width /\ i + 1 \in 1 .. Width /\ i + 1 - 1 = i
  <2>1. Width \in Nat \ {0} /\ Power[Width] \in Nat  BY WidthAssumption, Powers
  <2> QED  BY <2>1 DEF Chars, Positions
<1>2. ToBits(c) \in [Positions -> {0, 1}]
  <2>1. ASSUME NEW i \in Positions PROVE (c \div Power[i]) % 2 \in {0, 1}
    <3> DEFINE q == c \div Power[i]
    <3>1. q \in Nat  BY <1>1, Powers, DivMod
    <3> HIDE DEF q
    <3>2. q % 2 \in 0 .. 2 - 1  BY <3>1, DivMod
    <3> QED  BY <3>2 DEF q
  <2> QED  BY <2>1 DEF ToBits
<1>3. PICK v \in [0 .. Width -> Nat] :
        /\ v[0] = 0 /\ ToChar(ToBits(c)) = v[Width]
        /\ \A i \in 1 .. Width : v[i] = v[i - 1] + ToBits(c)[i - 1] * Power[i - 1]
      BY <1>2, ToCharSteps
<1> DEFINE T == {i \in Nat : i <= Width => v[i] = c % Power[i]}
<1>4. 0 \in T
  <2>1. c % 1 = 0  BY <1>1
  <2> QED  BY <1>3, <2>1, Powers
<1>5. \A i \in Nat : i \in T => i + 1 \in T
  <2> SUFFICES ASSUME NEW i \in T, i + 1 <= Width PROVE v[i + 1] = c % Power[i + 1]  OBVIOUS
  <2>1. i \in Positions /\ i + 1 \in 1 .. Width /\ i + 1 - 1 = i /\ v[i] = c % Power[i]
        BY <1>1 DEF Positions
  <2>2. Power[i] \in Nat \ {0} /\ Power[i + 1] = 2 * Power[i]
    <3>1. i \in 0 .. Width  BY <1>1, <2>1
    <3> QED  BY <2>1, <3>1, Powers
  <2>3. v[i + 1] = v[i] + ((c \div Power[i]) % 2) * Power[i]
    <3>1. v[i + 1] = v[i] + ToBits(c)[i] * Power[i]  BY <1>3, <2>1
    <3>2. ToBits(c)[i] = (c \div Power[i]) % 2  BY <2>1 DEF ToBits
    <3> QED  BY <3>1, <3>2
  <2>4. c % (2 * Power[i]) = (c % Power[i]) + ((c \div Power[i]) % 2) * Power[i]
        BY <1>1, <2>2, OneMoreBit
  <2> QED  BY <2>1, <2>2, <2>3, <2>4
<1>6. v[Width] = c % Power[Width]
  <2>1. Nat \subseteq T  BY <1>4, <1>5, Induction
  <2> QED  BY <1>1, <2>1
<1>7. c % Power[Width] = c
  <2> DEFINE p == Power[Width]
  <2>1. p \in Nat \ {0} /\ c < p  BY <1>1, Powers
  <2> HIDE DEF p
  <2>2. c % p = c  BY <1>1, <2>1
  <2> QED  BY <2>2 DEF p
<1> QED  BY <1>2, <1>3, <1>6, <1>7

-----------------------------------------------------------------------------
(* Character k of the file is one that the child sends. *)
Sendable(k) == k \in 1 .. Len(file) /\ file[k] # EOF

(* The bit that the parent lacks next. *)
NextIs(b) == /\ count < Width /\ Sendable(Len(out) + 1)
             /\ ToBits(file[Len(out) + 1])[count] = b

NoBits == "USR1" \notin pending /\ "USR2" \notin pending
TakesBits == parent = "suspend" \/ (parent = "check" /\ is_child_dead)

(* The parent has the file so far, and of the next character count bits. *)
Received ==
  /\ Len(out) <= Len(file)
  /\ \A k \in 1 .. Len(out) : out[k] = file[k] /\ file[k] # EOF
  /\ count > 0 => Sendable(Len(out) + 1)
  /\ \A i \in 0 .. count - 1 : bit_char[i] = ToBits(file[Len(out) + 1])[i]

(* A signal on its way is the next bit, and the parent is going to take it. *)
OnTheWay ==
  /\ "USR1" \in pending => "USR2" \notin pending /\ NextIs(0)
  /\ "USR2" \in pending => NextIs(1)
  /\ parent \in {"suspend", "answer"} => count < Width /\ ~is_child_dead
  /\ parent = "answer" \/ (parent = "check" /\ ~is_child_dead) => NoBits

(* The child is at bit r of a character that is not EOF. *)
AtBit ==
  /\ \A k \in 1 .. read : file[k] # EOF
  /\ child = "new" => read = 0
  /\ child \in {"send", "suspend"} => r < Width /\ read > 0

(* While both are there, it is the turn of one of them, and the parent has what *)
(* the child has sent.                                                          *)
ChildsTurn == NoBits /\ ~acked /\ TakesBits

Turns ==
  child # "dead" /\ parent # "ended" =>
    /\ child \in {"new", "read"} => ChildsTurn /\ Len(out) = read /\ count = 0
    /\ child = "send" => ChildsTurn /\ Len(out) = read - 1 /\ count = r
    /\ child = "suspend" =>
         \/ /\ ~NoBits /\ ~acked /\ TakesBits
            /\ Len(out) = read - 1 /\ count = r
         \/ /\ NoBits /\ ~acked /\ parent = "check"
            /\ Len(out) = read - 1 /\ count = r + 1
         \/ /\ NoBits
            /\ IF acked THEN TakesBits ELSE parent = "answer"
            /\ IF r + 1 = Width THEN Len(out) = read /\ count = 0
               ELSE Len(out) = read - 1 /\ count = r + 1

(* Without accidents, the child ends first, and when all it has sent is taken. *)
Orderly ==
  accidents = {} =>
    /\ is_child_dead \/ "CHLD" \in pending \/ parent = "ended" => child = "dead"
    /\ child = "dead" => /\ Len(out) = read /\ count = 0 /\ ~More /\ NoBits
                         /\ TakesBits \/ parent = "ended"

IInv == TypeOK /\ Received /\ OnTheWay /\ AtBit /\ Turns /\ Orderly

-----------------------------------------------------------------------------
LEMMA InitIInv == Init => IInv
<1> SUFFICES ASSUME Init PROVE IInv  OBVIOUS
<1> USE WidthAssumption, MaxLenAssumption
<1>0. file \in Seq(Chars) /\ Len(file) \in Nat
  <2>1. PICK n \in 0 .. MaxLen : file \in [1 .. n -> Chars]  BY DEF Init
  <2> QED  BY <2>1
<1>1. TypeOK
  <2>1. bit_char \in [Positions -> {0, 1}]  BY DEF Init, Empty
  <2>2. out \in Seq(Chars)  BY DEF Init
  <2>3. read \in 0 .. Len(file) /\ r \in 0 .. Width /\ count \in 0 .. Width  BY <1>0 DEF Init
  <2>4. /\ child \in {"new", "read", "send", "suspend", "dead"}
        /\ parent \in {"suspend", "check", "answer", "ended"}
        /\ pending \subseteq {"USR1", "USR2", "CHLD"}
        /\ accidents \subseteq {"child", "parent", "orphan"}
        BY DEF Init
  <2>5. acked \in BOOLEAN /\ is_child_dead \in BOOLEAN  BY DEF Init
  <2> QED  BY <1>0, <2>1, <2>2, <2>3, <2>4, <2>5 DEF TypeOK
<1>2. Received  BY <1>0 DEF Init, Received
<1>3. OnTheWay  BY DEF Init, OnTheWay
<1>4. AtBit  BY DEF Init, AtBit
<1>5. Turns  BY DEF Init, Turns, ChildsTurn, NoBits, TakesBits
<1>6. Orderly  BY DEF Init, Orderly
<1> QED  BY <1>1, <1>2, <1>3, <1>4, <1>5, <1>6 DEF IInv

(* The sender and its character. *)
LEMMA Bits ==
  ASSUME TypeOK, NEW k \in 1 .. Len(file)
  PROVE  /\ file[k] \in Chars /\ ToBits(file[k]) \in [Positions -> {0, 1}]
         /\ ToChar(ToBits(file[k])) = file[k]
BY BitsGiveChar DEF TypeOK

(* The steps of the child. *)
LEMMA ChildKeeps == IInv /\ Child => IInv'
<1> SUFFICES ASSUME IInv, Child PROVE IInv'  OBVIOUS
<1> USE WidthAssumption
<1>t. TypeOK /\ Received /\ OnTheWay /\ AtBit /\ Turns /\ Orderly  BY DEF IInv
<1>n. Len(file) \in Nat /\ Len(out) \in Nat  BY <1>t DEF TypeOK
<1>1. CASE AskForDeath
  <2>1. TypeOK'  BY <1>t, <1>1 DEF TypeOK, AskForDeath, parentVars
  <2>2. Received'  BY <1>t, <1>1 DEF Received, Sendable, AskForDeath, parentVars
  <2>3. OnTheWay'  BY <1>t, <1>1 DEF OnTheWay, NextIs, NoBits, Sendable, AskForDeath, parentVars
  <2>4. AtBit'  BY <1>t, <1>1 DEF AtBit, AskForDeath, parentVars
  <2>5. Turns'  BY <1>t, <1>1 DEF Turns, ChildsTurn, NoBits, TakesBits, AskForDeath, parentVars
  <2>6. Orderly'  BY <1>t, <1>1 DEF Orderly, TakesBits, NoBits, More, AskForDeath, parentVars
  <2> QED  BY <2>1, <2>2, <2>3, <2>4, <2>5, <2>6 DEF IInv
<1>2. CASE ReadChar
  <2>1. TypeOK'  BY <1>t, <1>n, <1>2 DEF TypeOK, ReadChar, More, parentVars
  <2>2. Received'  BY <1>t, <1>2 DEF Received, Sendable, ReadChar, parentVars
  <2>3. OnTheWay'  BY <1>t, <1>2 DEF OnTheWay, NextIs, NoBits, Sendable, ReadChar, parentVars
  <2>4. AtBit'  BY <1>t, <1>2 DEF AtBit, ReadChar, More, parentVars, TypeOK
  <2>5. Turns'
        BY <1>t, <1>n, <1>2 DEF Turns, ChildsTurn, NoBits, TakesBits, ReadChar, parentVars, TypeOK
  <2>6. Orderly'  BY <1>t, <1>2 DEF Orderly, TakesBits, NoBits, ReadChar, parentVars
  <2> QED  BY <2>1, <2>2, <2>3, <2>4, <2>5, <2>6 DEF IInv
<1>3. CASE Exit
  <2>0. /\ child = "read" /\ child' = "dead"
        /\ pending' = pending \/ (parent # "ended" /\ pending' = pending \cup {"CHLD"})
        BY <1>3 DEF Exit, Signals
  <2>1. TypeOK'  BY <1>t, <1>3, <2>0 DEF TypeOK, Exit, parentVars
  <2>2. Received'  BY <1>t, <1>3 DEF Received, Sendable, Exit, parentVars
  <2>3. OnTheWay'
        BY <1>t, <1>3, <2>0 DEF OnTheWay, NextIs, NoBits, Sendable, Exit, parentVars
  <2>4. AtBit'  BY <1>t, <1>3 DEF AtBit, Exit
  <2>5. Turns'  BY <2>0 DEF Turns
  <2>6. Orderly'
    <3>1. CASE accidents # {}  BY <1>3, <3>1 DEF Orderly, Exit
    <3>2. CASE accidents = {}
      <4>1. parent # "ended"  BY <1>t, <2>0, <3>2 DEF Orderly
      <4>2. ChildsTurn /\ Len(out) = read /\ count = 0  BY <1>t, <2>0, <4>1 DEF Turns
      <4> QED  BY <1>3, <2>0, <4>1, <4>2
               DEF Orderly, ChildsTurn, TakesBits, NoBits, More, Exit, parentVars
    <3> QED  BY <3>1, <3>2
  <2> QED  BY <2>1, <2>2, <2>3, <2>4, <2>5, <2>6 DEF IInv
<1>4. CASE SendBit
  <2> DEFINE bit == ToBits(file[read])[r]
  <2>0. /\ child = "send" /\ child' = "suspend" /\ r < Width /\ read \in 1 .. Len(file)
        /\ UNCHANGED <<file, read, r, acked, parentVars, accidents>>
        BY <1>t, <1>n, <1>4 DEF SendBit, AtBit, TypeOK
  <2>1. bit \in {0, 1} /\ file[read] # EOF
    <3>1. r \in Positions  BY <1>t, <2>0 DEF TypeOK, Positions
    <3>2. ToBits(file[read]) \in [Positions -> {0, 1}]  BY <1>t, <2>0, Bits
    <3>3. bit \in {0, 1}  BY <3>1, <3>2
    <3>4. file[read] # EOF  BY <1>t, <2>0 DEF AtBit
    <3> QED  BY <3>3, <3>4
  <2>2. CASE parent = "ended"
    <3>1. pending' = pending  BY <1>4, <2>2 DEF SendBit, Signals
    <3>2. TypeOK'  BY <1>t, <2>0, <3>1 DEF TypeOK, parentVars
    <3>3. Received'  BY <1>t, <2>0 DEF Received, Sendable, parentVars
    <3>4. OnTheWay'  BY <1>t, <2>0, <3>1 DEF OnTheWay, NextIs, NoBits, Sendable, parentVars
    <3>5. AtBit'  BY <1>t, <2>0 DEF AtBit, parentVars
    <3>6. Turns'  BY <2>0, <2>2 DEF Turns, parentVars
    <3>7. Orderly'  BY <1>t, <2>0, <2>2 DEF Orderly, parentVars
    <3> QED  BY <3>2, <3>3, <3>4, <3>5, <3>6, <3>7 DEF IInv
  <2>3. CASE parent # "ended"
    <3>1. ChildsTurn /\ Len(out) = read - 1 /\ count = r  BY <1>t, <2>0, <2>3 DEF Turns
    <3>2. pending' = pending \cup {IF bit = 0 THEN "USR1" ELSE "USR2"}
          BY <1>4, <2>3 DEF SendBit, Signals
    <3>3. (bit = 0 => NextIs(0)) /\ (bit = 1 => NextIs(1))
          BY <1>n, <2>0, <2>1, <3>1 DEF NextIs, Sendable
    <3>4. (bit = 0 => NextIs(0)') /\ (bit = 1 => NextIs(1)')
          BY <2>0, <3>3 DEF NextIs, Sendable, parentVars
    <3>5. TypeOK'  BY <1>t, <2>0, <3>2 DEF TypeOK, parentVars
    <3>6. Received'  BY <1>t, <2>0 DEF Received, Sendable, parentVars
    <3>7. OnTheWay'
      <4>1. bit = 0 => "USR1" \in pending' /\ "USR2" \notin pending'
            BY <3>1, <3>2 DEF ChildsTurn, NoBits
      <4>2. bit # 0 => "USR2" \in pending' /\ "USR1" \notin pending'
            BY <3>1, <3>2 DEF ChildsTurn, NoBits
      <4>3. NextIs(0)' \/ bit # 0  BY <3>4
      <4>4. NextIs(1)' \/ bit # 1  BY <3>4
      <4>5. parent' = parent /\ is_child_dead' = is_child_dead /\ count' = count
            BY <2>0 DEF parentVars
      <4>6. TakesBits  BY <3>1 DEF ChildsTurn
      <4>7. ~(parent' = "answer" \/ (parent' = "check" /\ ~is_child_dead'))
            BY <4>5, <4>6 DEF TakesBits
      <4>8. parent' \in {"suspend", "answer"} => count' < Width /\ ~is_child_dead'
            BY <1>t, <4>5 DEF OnTheWay
      <4> QED  BY <2>1, <4>1, <4>2, <4>3, <4>4, <4>7, <4>8 DEF OnTheWay
    <3>8. AtBit'  BY <1>t, <2>0 DEF AtBit, parentVars
    <3>9. Turns'
      <4>1. ~NoBits'  BY <3>2 DEF NoBits
      <4>2. ~acked' /\ TakesBits'
            BY <2>0, <3>1 DEF ChildsTurn, TakesBits, parentVars
      <4>3. Len(out') = read' - 1 /\ count' = r'  BY <2>0, <3>1 DEF parentVars
      <4> QED  BY <2>0, <4>1, <4>2, <4>3 DEF Turns
    <3>10. Orderly'
      <4>1. "CHLD" \in pending' => "CHLD" \in pending  BY <3>2
      <4> QED  BY <1>t, <2>0, <4>1 DEF Orderly, parentVars
    <3> QED  BY <3>5, <3>6, <3>7, <3>8, <3>9, <3>10 DEF IInv
  <2> QED  BY <2>2, <2>3
<1>5. CASE ChildSuspend
  <2>0. /\ child = "suspend" /\ acked /\ ~acked' /\ r' = r + 1
        /\ child' = IF r + 1 < Width THEN "send" ELSE "read"
        /\ UNCHANGED <<file, read, pending, parentVars, accidents>>
        /\ r < Width /\ read > 0 /\ r \in Nat /\ read \in Nat
        BY <1>t, <1>5 DEF ChildSuspend, AtBit, TypeOK
  <2>1. TypeOK'
    <3>1. r' \in 0 .. Width /\ child' \in {"new", "read", "send", "suspend", "dead"}  BY <2>0
    <3>2. acked' \in BOOLEAN  BY <1>5 DEF ChildSuspend
    <3> QED  BY <1>t, <2>0, <3>1, <3>2 DEF TypeOK, parentVars
  <2>2. Received'  BY <1>t, <2>0 DEF Received, Sendable, parentVars
  <2>3. OnTheWay'  BY <1>t, <2>0 DEF OnTheWay, NextIs, NoBits, Sendable, parentVars
  <2>4. AtBit'  BY <1>t, <2>0 DEF AtBit
  <2>5. Turns'
    <3>1. CASE parent = "ended"  BY <2>0, <3>1 DEF Turns, parentVars
    <3>2. CASE parent # "ended"
      <4>1. /\ NoBits /\ TakesBits
            /\ IF r + 1 = Width THEN Len(out) = read /\ count = 0
               ELSE Len(out) = read - 1 /\ count = r + 1
            BY <1>t, <2>0, <3>2 DEF Turns
      <4>2. NoBits' /\ TakesBits' /\ ~acked' /\ ChildsTurn'
            BY <2>0, <4>1 DEF NoBits, TakesBits, ChildsTurn, parentVars
      <4>3. CASE r + 1 = Width  BY <2>0, <4>1, <4>2, <4>3 DEF Turns, parentVars
      <4>4. CASE r + 1 # Width  BY <2>0, <4>1, <4>2, <4>4 DEF Turns, parentVars
      <4> QED  BY <4>3, <4>4
    <3> QED  BY <3>1, <3>2
  <2>6. Orderly'
        BY <1>t, <2>0 DEF Orderly, TakesBits, NoBits, More, parentVars
  <2> QED  BY <2>1, <2>2, <2>3, <2>4, <2>5, <2>6 DEF IInv
<1> QED  BY <1>1, <1>2, <1>3, <1>4, <1>5 DEF Child

(* The steps of the parent. *)
LEMMA ParentKeeps == IInv /\ Parent => IInv'
<1> SUFFICES ASSUME IInv, Parent PROVE IInv'  OBVIOUS
<1> USE WidthAssumption
<1>t. TypeOK /\ Received /\ OnTheWay /\ AtBit /\ Turns /\ Orderly  BY DEF IInv
<1>n. Len(file) \in Nat /\ Len(out) \in Nat /\ count \in Nat  BY <1>t DEF TypeOK
<1>1. CASE ParentSuspend
  <2> PICK S \in SUBSET pending :
        /\ S # {} /\ TakesLowest(S)
        /\ pending' = pending \ S
        /\ bit_char' = [i \in Positions |-> IF i \in count .. count + Len(Taken(S)) - 1
                                            THEN Taken(S)[i - count + 1] ELSE bit_char[i]]
        /\ count' = count + Len(Taken(S))
        /\ is_child_dead' = (is_child_dead \/ "CHLD" \in S)
      BY <1>1 DEF ParentSuspend
  <2>0. /\ parent = "suspend" /\ parent' = "check" /\ ~is_child_dead /\ count < Width
        /\ UNCHANGED <<file, childVars, acked, out, accidents>>
        BY <1>t, <1>1 DEF ParentSuspend, OnTheWay
  <2>1. NoBits'
        BY <1>t DEF NoBits, TakesLowest, OnTheWay
  <2>2. AtBit'  BY <1>t, <2>0 DEF AtBit, childVars
  <2>3. OnTheWay'  BY <2>0, <2>1 DEF OnTheWay, NoBits
  <2>4. is_child_dead' \in BOOLEAN /\ is_child_dead' = ("CHLD" \in S)
    <3>1. is_child_dead' = ("CHLD" \in S)  BY <2>0
    <3> QED  BY <3>1
  <2>5. CASE NoBits
    <3>1. Taken(S) = <<>>  BY <2>5 DEF NoBits, Taken
    <3>2. count' = count  BY <1>n, <3>1
    <3>3. bit_char' = bit_char
      <4>1. bit_char' = [i \in Positions |-> bit_char[i]]
            BY <1>n, <3>1
      <4> QED  BY <1>t, <4>1 DEF TypeOK
    <3>4. TypeOK'  BY <1>t, <2>0, <2>4, <3>2, <3>3 DEF TypeOK, childVars
    <3>5. Received'  BY <1>t, <2>0, <3>2, <3>3 DEF Received, Sendable
    <3>6. S = {"CHLD"}  BY <1>t, <2>5 DEF NoBits, TypeOK
    <3>7. TakesBits'  BY <2>0, <3>6 DEF TakesBits
    <3>8. TakesBits  BY <2>0 DEF TakesBits
    <3>9. Turns'
          BY <1>t, <2>0, <2>1, <2>5, <3>2, <3>7 DEF Turns, ChildsTurn, childVars
    <3>10. Orderly'
          BY <1>t, <2>0, <2>1, <2>5, <3>2, <3>6, <3>7, <3>8 DEF Orderly, More, childVars
    <3> QED  BY <2>2, <2>3, <3>4, <3>5, <3>9, <3>10 DEF IInv
  <2>6. CASE ~NoBits
    <3>1. PICK b \in {0, 1} : Taken(S) = <<b>> /\ NextIs(b)
      <4>1. <<>> \o <<0>> = <<0>> /\ <<1>> \o <<>> = <<1>>  OBVIOUS
      <4>2. CASE "USR1" \in pending
        <5>1. "USR1" \in S /\ "USR2" \notin S /\ NextIs(0)
              BY <1>t, <4>2 DEF TakesLowest, OnTheWay
        <5>2. Taken(S) = <<0>>  BY <4>1, <5>1 DEF Taken
        <5> QED  BY <5>1, <5>2
      <4>3. CASE "USR1" \notin pending
        <5>1. "USR1" \notin S /\ "USR2" \in S /\ NextIs(1)
              BY <1>t, <2>6, <4>3 DEF NoBits, TakesLowest, OnTheWay
        <5>2. Taken(S) = <<1>>  BY <4>1, <5>1 DEF Taken
        <5> QED  BY <5>1, <5>2
      <4> QED  BY <4>2, <4>3
    <3>2. count' = count + 1  BY <1>n, <3>1
    <3>3. count \in Positions  BY <1>n, <2>0 DEF Positions
    <3>4. bit_char' = [bit_char EXCEPT ![count] = b]
      <4>1. bit_char' = [i \in Positions |-> IF i = count THEN b ELSE bit_char[i]]
        <5>1. ASSUME NEW i \in Positions
              PROVE  (IF i \in count .. count + Len(Taken(S)) - 1
                      THEN Taken(S)[i - count + 1] ELSE bit_char[i])
                       = IF i = count THEN b ELSE bit_char[i]
              BY <1>n, <3>1 DEF Positions
        <5> QED  BY <5>1
      <4> QED  BY <1>t, <4>1 DEF TypeOK
    <3>5. TypeOK'
      <4>1. count' \in 0 .. Width  BY <1>n, <2>0, <3>2
      <4>2. bit_char' \in [Positions -> {0, 1}]  BY <1>t, <3>3, <3>4 DEF TypeOK
      <4> QED  BY <1>t, <2>0, <2>4, <4>1, <4>2 DEF TypeOK, childVars
    <3>6. Received'
      <4>1. Sendable(Len(out) + 1) /\ ToBits(file[Len(out) + 1])[count] = b
            BY <3>1 DEF NextIs
      <4>2. ASSUME NEW i \in 0 .. count' - 1
            PROVE  bit_char'[i] = ToBits(file'[Len(out') + 1])[i]
        <5>1. CASE i = count
              BY <1>t, <2>0, <3>3, <3>4, <4>1, <5>1 DEF TypeOK
        <5>2. CASE i # count
          <6>1. i \in 0 .. count - 1  BY <1>n, <3>2, <5>2
          <6>2. i \in Positions  BY <1>n, <2>0, <6>1 DEF Positions
          <6>3. bit_char[i] = ToBits(file[Len(out) + 1])[i]  BY <1>t, <6>1 DEF Received
          <6> QED  BY <1>t, <2>0, <3>4, <5>2, <6>2, <6>3 DEF TypeOK
        <5> QED  BY <5>1, <5>2
      <4> QED  BY <1>t, <2>0, <4>1, <4>2 DEF Received, Sendable
    <3>7. Turns'
      <4> SUFFICES ASSUME child # "dead" PROVE Turns'
          BY <2>0 DEF Turns, childVars
      <4>1. parent # "ended"  BY <2>0
      <4>2. child = "suspend"
        <5>1. child \in {"new", "read", "send", "suspend"}  BY <1>t DEF TypeOK
        <5>2. child \in {"new", "read"} => NoBits  BY <1>t, <4>1 DEF Turns, ChildsTurn
        <5>3. child = "send" => NoBits  BY <1>t, <4>1 DEF Turns, ChildsTurn
        <5> QED  BY <2>6, <5>1, <5>2, <5>3
      <4>3. ~acked /\ Len(out) = read - 1 /\ count = r
            BY <1>t, <2>6, <4>1, <4>2 DEF Turns
      <4> QED  BY <2>0, <2>1, <3>2, <4>2, <4>3 DEF Turns, childVars
    <3>8. Orderly'
      <4> SUFFICES ASSUME accidents = {} PROVE Orderly'
          BY <2>0 DEF Orderly
      <4>1. child # "dead"  BY <1>t, <2>6 DEF Orderly
      <4>2. "CHLD" \notin pending  BY <1>t, <4>1 DEF Orderly
      <4> QED  BY <2>0, <2>4, <4>1, <4>2 DEF Orderly, childVars
    <3> QED  BY <2>2, <2>3, <3>5, <3>6, <3>7, <3>8 DEF IInv
  <2> QED  BY <2>5, <2>6
<1>2. CASE PrintChar
  <2>0. /\ parent = "check" /\ parent' = "answer" /\ ~is_child_dead /\ count = Width
        /\ count' = 0 /\ out' = Append(out, ToChar(bit_char)) /\ bit_char' = Empty
        /\ UNCHANGED <<file, childVars, acked, pending, is_child_dead, accidents>>
        BY <1>2 DEF PrintChar
  <2>1. NoBits /\ NoBits'  BY <1>t, <2>0 DEF OnTheWay, NoBits
  <2>2. Sendable(Len(out) + 1)  BY <1>t, <2>0 DEF Received
  <2>3. ToChar(bit_char) = file[Len(out) + 1]
    <3> DEFINE c == file[Len(out) + 1]
    <3>1. ToBits(c) \in [Positions -> {0, 1}] /\ ToChar(ToBits(c)) = c
          BY <1>t, <2>2, Bits DEF Sendable
    <3>2. \A i \in Positions : bit_char[i] = ToBits(c)[i]
          BY <1>t, <2>0 DEF Received, Positions
    <3>3. bit_char = ToBits(c)  BY <1>t, <3>1, <3>2 DEF TypeOK
    <3> QED  BY <3>1, <3>3
  <2>4. file[Len(out) + 1] \in Chars  BY <1>t, <2>2, Bits DEF Sendable
  <2>5. /\ out' \in Seq(Chars) /\ Len(out') = Len(out) + 1
        /\ \A k \in 1 .. Len(out) : out'[k] = out[k]
        /\ out'[Len(out) + 1] = file[Len(out) + 1]
        BY <1>t, <2>0, <2>3, <2>4 DEF TypeOK
  <2>6. TypeOK'
    <3>1. bit_char' \in [Positions -> {0, 1}]  BY <2>0 DEF Empty
    <3> QED  BY <1>t, <2>0, <2>5, <3>1 DEF TypeOK, childVars
  <2>7. Received'
    <3>1. Len(out') <= Len(file')  BY <1>n, <2>0, <2>2, <2>5 DEF Sendable
    <3>2. ASSUME NEW k \in 1 .. Len(out') PROVE out'[k] = file'[k] /\ file'[k] # EOF
      <4>1. CASE k = Len(out) + 1  BY <2>0, <2>2, <2>5, <4>1 DEF Sendable
      <4>2. CASE k # Len(out) + 1
        <5>1. k \in 1 .. Len(out)  BY <1>n, <2>5, <4>2
        <5> QED  BY <1>t, <2>0, <2>5, <5>1 DEF Received
      <4> QED  BY <4>1, <4>2
    <3> QED  BY <2>0, <3>1, <3>2 DEF Received
  <2>8. OnTheWay'  BY <2>0, <2>1 DEF OnTheWay, NoBits
  <2>9. AtBit'  BY <1>t, <2>0 DEF AtBit, childVars
  <2>10. Turns'
    <3> SUFFICES ASSUME child # "dead" PROVE Turns'
        BY <2>0 DEF Turns, childVars
    <3>1. child = "suspend" /\ ~acked /\ Len(out) = read - 1 /\ count = r + 1
          BY <1>t, <2>0, <2>1 DEF Turns, ChildsTurn, TakesBits, TypeOK
    <3>2. r + 1 = Width /\ Len(out') = read  BY <1>t, <1>n, <2>0, <2>5, <3>1 DEF TypeOK
    <3> QED  BY <2>0, <2>1, <3>1, <3>2 DEF Turns, childVars
  <2>11. Orderly'  BY <1>t, <2>0 DEF Orderly, TakesBits, childVars
  <2> QED  BY <2>6, <2>7, <2>8, <2>9, <2>10, <2>11 DEF IInv
<1>3. CASE NoPrint
  <2>0. /\ parent = "check" /\ parent' = "answer" /\ ~is_child_dead /\ count # Width
        /\ UNCHANGED <<file, childVars, acked, pending, count, bit_char, is_child_dead, out,
                       accidents>>
        BY <1>3 DEF NoPrint
  <2>1. NoBits /\ NoBits'  BY <1>t, <2>0 DEF OnTheWay, NoBits
  <2>2. count < Width  BY <1>t, <2>0 DEF TypeOK
  <2>3. TypeOK'  BY <1>t, <2>0 DEF TypeOK, childVars
  <2>4. Received'  BY <1>t, <2>0 DEF Received, Sendable
  <2>5. OnTheWay'  BY <2>0, <2>1, <2>2 DEF OnTheWay, NoBits
  <2>6. AtBit'  BY <1>t, <2>0 DEF AtBit, childVars
  <2>7. Turns'
    <3> SUFFICES ASSUME child # "dead" PROVE Turns'
        BY <2>0 DEF Turns, childVars
    <3>1. child = "suspend" /\ ~acked /\ Len(out) = read - 1 /\ count = r + 1
          BY <1>t, <2>0, <2>1 DEF Turns, ChildsTurn, TakesBits, TypeOK
    <3>2. r + 1 # Width  BY <2>0, <3>1
    <3> QED  BY <2>0, <2>1, <3>1, <3>2 DEF Turns, childVars
  <2>8. Orderly'  BY <1>t, <2>0 DEF Orderly, TakesBits, childVars
  <2> QED  BY <2>3, <2>4, <2>5, <2>6, <2>7, <2>8 DEF IInv
<1>4. CASE Answer
  <2>0. /\ parent = "answer" /\ parent' = "suspend" /\ acked' = TRUE
        /\ UNCHANGED <<file, childVars, pending, count, bit_char, is_child_dead, out, accidents>>
        BY <1>4 DEF Answer
  <2>1. NoBits /\ NoBits' /\ count < Width /\ ~is_child_dead
        BY <1>t, <2>0 DEF OnTheWay, NoBits
  <2>2. TypeOK'  BY <1>t, <2>0 DEF TypeOK, childVars
  <2>3. Received'  BY <1>t, <2>0 DEF Received, Sendable
  <2>4. OnTheWay'  BY <2>0, <2>1 DEF OnTheWay, NoBits
  <2>5. AtBit'  BY <1>t, <2>0 DEF AtBit, childVars
  <2>6. Turns'
    <3> SUFFICES ASSUME child # "dead" PROVE Turns'
        BY <2>0 DEF Turns, childVars
    <3>1. child = "suspend"
          BY <1>t, <2>0 DEF Turns, ChildsTurn, TakesBits, TypeOK
    <3>2. IF r + 1 = Width THEN Len(out) = read /\ count = 0
          ELSE Len(out) = read - 1 /\ count = r + 1
          BY <1>t, <2>0, <2>1, <3>1 DEF Turns
    <3>3. TakesBits'  BY <2>0 DEF TakesBits
    <3>4. CASE r + 1 = Width  BY <2>0, <2>1, <3>1, <3>2, <3>3, <3>4 DEF Turns, childVars
    <3>5. CASE r + 1 # Width  BY <2>0, <2>1, <3>1, <3>2, <3>3, <3>5 DEF Turns, childVars
    <3> QED  BY <3>4, <3>5
  <2>7. Orderly'  BY <1>t, <2>0 DEF Orderly, TakesBits, childVars
  <2> QED  BY <2>2, <2>3, <2>4, <2>5, <2>6, <2>7 DEF IInv
<1>5. CASE ChildDied
  <2>0. /\ parent' = "ended" /\ is_child_dead /\ parent = "check"
        /\ UNCHANGED <<file, read, r, acked, pending, count, bit_char, is_child_dead, out>>
        /\ \/ accidents' # {} /\ UNCHANGED child
           \/ accidents' = accidents /\ child' = "dead"
        /\ accidents' \subseteq accidents \cup {"orphan"}
        BY <1>5 DEF ChildDied, ParentEnds
  <2>1. TypeOK'  BY <1>t, <2>0 DEF TypeOK
  <2>2. Received'  BY <1>t, <2>0 DEF Received, Sendable
  <2>3. OnTheWay'  BY <1>t, <2>0 DEF OnTheWay, NextIs, NoBits, Sendable
  <2>4. AtBit'  BY <1>t, <2>0 DEF AtBit
  <2>5. Turns'  BY <2>0 DEF Turns
  <2>6. Orderly'
    <3> SUFFICES ASSUME accidents' = {} PROVE Orderly'
        BY DEF Orderly
    <3>1. accidents = {} /\ child' = "dead" /\ child = "dead"  BY <1>t, <2>0 DEF Orderly
    <3> QED  BY <1>t, <2>0, <3>1 DEF Orderly, More, NoBits
  <2> QED  BY <2>1, <2>2, <2>3, <2>4, <2>5, <2>6 DEF IInv
<1> QED  BY <1>1, <1>2, <1>3, <1>4, <1>5 DEF Parent

(* What befalls the processes from outside. *)
LEMMA AccidentKeeps == IInv /\ Accident => IInv'
<1> SUFFICES ASSUME IInv, Accident PROVE IInv'  OBVIOUS
<1> USE WidthAssumption
<1>t. TypeOK /\ Received /\ OnTheWay /\ AtBit /\ Turns /\ Orderly  BY DEF IInv
<1>1. CASE ChildKilled \/ ChildStopped
  <2>0. /\ child' = "dead" \/ child' = child
        /\ pending' = pending \/ pending' = pending \cup {"CHLD"}
        /\ accidents' = accidents \cup {"child"}
        /\ UNCHANGED <<file, read, r, acked, parentVars>>
        BY <1>1 DEF ChildKilled, ChildStopped, Signals, childVars
  <2>1. TypeOK'  BY <1>t, <2>0 DEF TypeOK, parentVars
  <2>2. Received'  BY <1>t, <2>0 DEF Received, Sendable, parentVars
  <2>3. OnTheWay'  BY <1>t, <2>0 DEF OnTheWay, NextIs, NoBits, Sendable, parentVars
  <2>4. AtBit'  BY <1>t, <2>0 DEF AtBit
  <2>5. Turns'
    <3>1. CASE child' = "dead"  BY <3>1 DEF Turns
    <3>2. CASE child' = child
      <4>1. NoBits' = NoBits /\ TakesBits' = TakesBits /\ ChildsTurn' = ChildsTurn
            BY <2>0 DEF NoBits, TakesBits, ChildsTurn, parentVars
      <4> QED  BY <1>t, <2>0, <3>2, <4>1 DEF Turns, parentVars
    <3> QED  BY <2>0, <3>1, <3>2
  <2>6. Orderly'  BY <2>0 DEF Orderly
  <2> QED  BY <2>1, <2>2, <2>3, <2>4, <2>5, <2>6 DEF IInv
<1>2. CASE ParentKilled
  <2>0. /\ parent' = "ended" /\ accidents' # {}
        /\ child' = child \/ child' = "dead"
        /\ accidents' \subseteq accidents \cup {"parent", "orphan"}
        /\ UNCHANGED <<file, read, r, acked, pending, count, bit_char, is_child_dead, out>>
        BY <1>2 DEF ParentKilled, ParentEnds
  <2>1. TypeOK'  BY <1>t, <2>0 DEF TypeOK
  <2>2. Received'  BY <1>t, <2>0 DEF Received, Sendable
  <2>3. OnTheWay'  BY <1>t, <2>0 DEF OnTheWay, NextIs, NoBits, Sendable
  <2>4. AtBit'  BY <1>t, <2>0 DEF AtBit
  <2>5. Turns'  BY <2>0 DEF Turns
  <2>6. Orderly'  BY <2>0 DEF Orderly
  <2> QED  BY <2>1, <2>2, <2>3, <2>4, <2>5, <2>6 DEF IInv
<1> QED  BY <1>1, <1>2 DEF Accident

LEMMA NextIInv == IInv /\ [Next]_vars => IInv'
<1>1. ASSUME IInv, UNCHANGED vars PROVE IInv'
      BY <1>1 DEF vars, childVars, parentVars, IInv, TypeOK, Received, OnTheWay, AtBit, Turns,
                  Orderly, ChildsTurn, NoBits, TakesBits, NextIs, Sendable, More
<1> QED  BY <1>1, ChildKeeps, ParentKeeps, AccidentKeeps DEF Next

LEMMA Inductive == Spec => []IInv
BY InitIInv, NextIInv, PTL DEF Spec

(* A parent that ends without accidents has seen the child dead, and so has it all. *)
LEMMA Implied == IInv => OutputIsFile
<1> SUFFICES ASSUME IInv PROVE OutputIsFile  OBVIOUS
<1>1. Received /\ Orderly /\ TypeOK  BY DEF IInv
<1>2. ASSUME parent = "ended", accidents = {}
      PROVE  Len(out) = Len(file) \/ file[Len(out) + 1] = EOF
  <2>1. Len(out) = read /\ ~More  BY <1>1, <1>2 DEF Orderly
  <2> QED  BY <1>1, <2>1 DEF More, TypeOK
<1> QED  BY <1>1, <1>2 DEF Received, OutputIsFile

(* Every variable keeps its type: no bit is counted beyond the eighth. *)
THEOREM TypeCorrect == Spec => []TypeOK
<1>1. IInv => TypeOK  BY DEF IInv
<1> QED  BY <1>1, Inductive, PTL

(* Whoever is killed, the output is the beginning of the file, and all of it *)
(* up to an EOF when nobody is.                                              *)
THEOREM Faithful == Spec => []OutputIsFile
BY Implied, Inductive, PTL
=============================================================================
