-------------------------- MODULE AllocatorProofs --------------------------
(***************************************************************************)
(* What a machine hands out is accounted for: the subnets of a network,    *)
(* for every address width, and the permits of a TCP proxy.                *)
(*                                                                         *)
(* Ipam: the search is a loop over addresses. That it ends with the first  *)
(* free block needs an induction, taken here from the least number at      *)
(* which the claim would fail. The rest is arithmetic: block sizes are     *)
(* powers of two and so divide each other, which makes the comparison of   *)
(* two network addresses an exact test for overlapping.                    *)
(*                                                                         *)
(* Cluster: the members of a cluster get disjoint subnets from it.         *)
(*                                                                         *)
(* TcpProxy: a permit is counted where it is, with the semaphore, the      *)
(* accept loop or a live handler; the count changes hands in every step.   *)
(* That a run which has returned is drained needs more: after the loop has *)
(* stopped accepting it has no permit in hand, the listener is closed and  *)
(* no connection starts.                                                   *)
(***************************************************************************)
EXTENDS Ipam, Cluster, TcpProxy, FiniteSetTheorems, NaturalsInduction, WellFoundedInduction, TLAPS

(***************************************************************************)
(* Searching: the least number, and a loop over addresses.                 *)
(***************************************************************************)
\* A set of numbers that is not empty has a least one: the induction principle
\* of everything below.
LEMMA LeastNumber ==
    ASSUME NEW T \in SUBSET Nat, T # {}
    PROVE  \E x \in T : \A y \in T : x <= y
<1> DEFINE R == OpToRel(<, Nat)
<1>1. IsWellFoundedOn(R, Nat)
  BY NatLessThanWellFounded, Zenon
<1>2. R = {ss \in Nat \X Nat : ss[1] < ss[2]}
  BY Zenon DEF OpToRel
<1> HIDE DEF R
<1>3. PICK x \in T : \A y \in T : ~(<<y, x>> \in R)
  BY WFMin, <1>1, Zenon
<1>4. ASSUME NEW y \in T, y < x PROVE <<y, x>> \in R
  <2>1. <<y, x>> \in Nat \X Nat /\ <<y, x>>[1] < <<y, x>>[2]
    BY <1>4
  <2> QED
    BY <2>1, <1>2, Zenon
<1>5. \A y \in T : ~(y < x)
  BY <1>3, <1>4, Zenon
<1>6. x \in Nat /\ T \subseteq Nat
  OBVIOUS
<1> QED
  BY <1>5, <1>6

\* f is the search that stops in S with the value v and otherwise goes on to nx.
IsScan(f, M, S, v, nx) == f = [a \in 0..M |-> IF a \in S THEN v[a] ELSE f[nx[a]]]

\* What the search finds from a on: the first address of A in S.
FindsFirst(f, A, S, v, a) ==
    \E b \in A \cap S : b >= a /\ f[a] = v[b] /\ \A c \in A : a <= c /\ c < b => c \notin S

\* nx goes from an address of A outside S to the next one of A.
StepsThrough(A, S, nx) ==
    \A a \in A \ S : nx[a] \in A /\ nx[a] > a /\ \A c \in A : c > a => c >= nx[a]

\* A loop that only goes up to M and stops there defines a function.
LEMMA ScanExists ==
    ASSUME NEW M \in Nat, NEW S \in SUBSET (0..M), M \in S, NEW v, NEW nx,
           \A a \in (0..M) \ S : nx[a] \in (a + 1)..M
    PROVE  \E f : IsScan(f, M, S, v, nx)
<1> DEFINE Works(n, f) == f = [a \in (M - n)..M |-> IF a \in S THEN v[a] ELSE f[nx[a]]]
           T == {n \in 0..M : ~\E f : Works(n, f)}
<1>1. CASE T = {}
  <2>1. M \in 0..M /\ M - M = 0
    OBVIOUS
  <2>2. \E f : Works(M, f)
    BY <1>1, <2>1, Zenon
  <2> QED
    BY <2>1, <2>2 DEF IsScan
<1>2. CASE T # {}
  <2>1. PICK n \in T : \A m \in T : n <= m
    <3>1. T \in SUBSET Nat
      OBVIOUS
    <3> HIDE DEF T
    <3> QED
      BY <1>2, <3>1, LeastNumber
  <2>2. n # 0
    <3>1. SUFFICES ASSUME n = 0 PROVE FALSE
      OBVIOUS
    <3> DEFINE g == [a \in M..M |-> v[a]]
    <3>2. M..M = {M} /\ M - 0 = M
      OBVIOUS
    <3>3. g = [a \in (M - 0)..M |-> IF a \in S THEN v[a] ELSE g[nx[a]]]
      BY <3>2
    <3> QED
      BY <3>1, <3>3, Zenon
  <2>3. PICK g : Works(n - 1, g)
    <3>1. n - 1 \in 0..M /\ ~(n <= n - 1)
      BY <2>2
    <3>2. n - 1 \notin T
      BY <2>1, <3>1, Zenon
    <3> HIDE DEF Works
    <3> QED
      BY <3>1, <3>2, Zenon
  <2> DEFINE h == [a \in (M - n)..M |-> IF a = M - n THEN (IF a \in S THEN v[a] ELSE g[nx[a]]) ELSE g[a]]
  <2>4. ASSUME NEW a \in (M - n)..M PROVE h[a] = IF a \in S THEN v[a] ELSE h[nx[a]]
    <3>1. a \notin S => nx[a] \in (M - (n - 1))..M /\ nx[a] # M - n /\ nx[a] \in (M - n)..M
      OBVIOUS
    <3>2. a \notin S => h[nx[a]] = g[nx[a]]
      BY <3>1
    <3>3. CASE a = M - n
      BY <3>2, <3>3
    <3>4. CASE a # M - n
      <4>1. a \in (M - (n - 1))..M
        BY <3>4
      <4>2. h[a] = g[a]
        BY <3>4
      <4>3. g[a] = IF a \in S THEN v[a] ELSE g[nx[a]]
        BY <4>1, <2>3
      <4> QED
        BY <4>2, <4>3, <3>2
    <3> QED
      BY <3>3, <3>4
  <2>5. Works(n, h)
    BY <2>4
  <2> QED
    BY <2>1, <2>5, Zenon
<1> QED
  BY <1>1, <1>2

\* The loop finds the first of its candidates A that lies in S, although it
\* visits only the candidates.
LEMMA ScanFinds ==
    ASSUME NEW M \in Nat, NEW S \in SUBSET (0..M), M \in S, NEW v, NEW nx,
           NEW A \in SUBSET (0..M), M \in A,
           StepsThrough(A, S, nx), NEW f, IsScan(f, M, S, v, nx), NEW a \in A
    PROVE  FindsFirst(f, A, S, v, a)
<1> USE DEF IsScan, StepsThrough, FindsFirst
<1> DEFINE Found(x) == \E b \in A \cap S : b >= x /\ f[x] = v[b] /\ \A c \in A : x <= c /\ c < b => c \notin S
           T == {n \in 0..M : M - n \in A /\ ~Found(M - n)}
<1>1. CASE T = {}
  <2>1. M - a \in 0..M /\ M - (M - a) = a
    OBVIOUS
  <2>2. Found(a)
    <3> HIDE DEF Found
    <3>1. ~(M - (M - a) \in A /\ ~Found(M - (M - a)))
      BY <1>1, <2>1, Zenon
    <3> QED
      BY <2>1, <3>1
  <2> QED
    BY <2>2
<1>2. CASE T # {}
  <2>1. PICK n \in T : \A m \in T : n <= m
    <3>1. T \in SUBSET Nat
      OBVIOUS
    <3> HIDE DEF T
    <3> QED
      BY <1>2, <3>1, LeastNumber
  <2> DEFINE x == M - n
  <2>2. x \in A /\ x \in 0..M /\ ~Found(x)
    BY <2>1
  <2>3. f[x] = IF x \in S THEN v[x] ELSE f[nx[x]]
    BY <2>2
  <2>4. x \notin S
    <3>1. SUFFICES ASSUME x \in S PROVE Found(x)
      BY <2>2
    <3>2. f[x] = v[x] /\ x >= x /\ \A c \in A : x <= c /\ c < x => c \notin S
      BY <2>3, <3>1
    <3> QED
      BY <2>2, <3>1, <3>2
  <2> DEFINE y == nx[x]
  <2>5. y \in A /\ y \in 0..M /\ y > x /\ \A c \in A : c > x => c >= y
    BY <2>2, <2>4, Zenon
  <2>6. Found(y)
    <3>1. M - y \in 0..M /\ ~(n <= M - y) /\ M - (M - y) = y
      BY <2>5
    <3>2. M - y \notin T
      BY <2>1, <3>1, Zenon
    <3> HIDE DEF Found
    <3>3. ~(M - (M - y) \in A /\ ~Found(M - (M - y)))
      BY <3>1, <3>2, Zenon
    <3> QED
      BY <2>5, <3>1, <3>3
  <2>7. PICK b \in A \cap S : b >= y /\ f[y] = v[b] /\ \A c \in A : y <= c /\ c < b => c \notin S
    BY <2>6, Zenon
  <2>8. \A c \in A : x <= c /\ c < b => c \notin S
    <3>1. ASSUME NEW c \in A, x <= c, c < b PROVE c \notin S
      <4>1. c \in Int /\ x \in Int /\ y \in Int
        BY <2>5
      <4>2. CASE c = x
        BY <4>2, <2>4
      <4>3. CASE c # x
        BY <4>1, <4>3, <3>1, <2>5, <2>7
      <4> QED
        BY <4>2, <4>3
    <3> QED
      BY <3>1
  <2>9. f[x] = v[b] /\ b >= x
    BY <2>3, <2>4, <2>5, <2>7
  <2> QED
    BY <2>2, <2>8, <2>9
<1> QED
  BY <1>1, <1>2, Zenon

(***************************************************************************)
(* Blocks of addresses, whose sizes are powers of two.                     *)
(***************************************************************************)
\* Quotient and remainder.
LEMMA DivMod ==
    ASSUME NEW a \in Nat, NEW s \in Nat \ {0}
    PROVE  /\ a % s \in 0..(s - 1) /\ a \div s \in Nat
           /\ a = s * (a \div s) + (a % s) /\ a - (a % s) = s * (a \div s)
  OBVIOUS

\* Multiples of s keep the order.
LEMMA Products ==
    ASSUME NEW s \in Nat \ {0}, NEW x \in Int, NEW y \in Int
    PROVE  /\ s * x \in Int /\ s * (x + 1) = s * x + s
           /\ x <= y => s * x <= s * y
           /\ s * x < s * y => x < y
  OBVIOUS

\* A number lies in one block of size s.
LEMMA BlockOf ==
    ASSUME NEW s \in Nat \ {0}, NEW q \in Nat, NEW a \in Nat, s * q <= a, a < s * q + s
    PROVE  a \div s = q /\ a - (a % s) = s * q
<1> DEFINE d == a \div s
<1>1. d \in Nat /\ a = s * d + (a % s) /\ a % s \in 0..(s - 1)
  BY DivMod, Zenon
<1> HIDE DEF d
<1>2. s * d < s * (q + 1) /\ s * q < s * (d + 1)
  BY <1>1, Products
<1>3. d < q + 1 /\ q < d + 1
  BY <1>1, <1>2, Products
<1>4. d = q
  BY <1>1, <1>3
<1> QED
  BY <1>1, <1>4 DEF d

\* Blocks of size k * s are made of blocks of size s.
LEMMA BlocksNest ==
    ASSUME NEW s \in Nat \ {0}, NEW k \in Nat \ {0}, NEW a \in Nat
    PROVE  LET t == k * s
               b == a - (a % s)
               c == a - (a % t)
           IN /\ t \in Nat \ {0} /\ b \in Nat /\ c \in Nat /\ b % s = 0
              /\ c <= b /\ b + s <= c + t
              /\ b - (b % t) = c /\ (b + s - 1) - ((b + s - 1) % t) = c
              /\ c % s = 0 /\ b \div s = a \div s /\ b \div t = a \div t /\ (b + s - 1) \div t = a \div t
<1> DEFINE t == k * s
           q == a \div s
           p == a \div t
           b == a - (a % s)
           c == a - (a % t)
<1>1. t \in Nat \ {0}
  OBVIOUS
<1>2. q \in Nat /\ p \in Nat /\ b = s * q /\ c = t * p /\ b \in Nat /\ c \in Nat
      /\ b <= a /\ a < b + s /\ c <= a /\ a < c + t
  <2> HIDE DEF t
  <2>1. q \in Nat /\ a = s * q + (a % s) /\ a % s \in 0..(s - 1)
    BY DivMod, Zenon
  <2>2. p \in Nat /\ a = t * p + (a % t) /\ a % t \in 0..(t - 1)
    BY <1>1, DivMod, Zenon
  <2> HIDE DEF q, p
  <2>3. s * q \in Nat /\ t * p \in Nat
    BY <1>1, <2>1, <2>2
  <2> QED
    BY <2>1, <2>2, <2>3, <1>1
<1>3. c = s * (k * p) /\ c + t = s * (k * p + k) /\ k * p \in Nat
  <2> HIDE DEF p
  <2> QED
    BY <1>2
<1> HIDE DEF q, p, b, c, t
<1>4. k * p <= q /\ q + 1 <= k * p + k
  <2>1. s * (k * p) < s * (q + 1) /\ s * q < s * (k * p + k)
    BY <1>2, <1>3, Products
  <2>2. k * p < q + 1 /\ q < k * p + k
    BY <1>2, <1>3, <2>1, Products
  <2> QED
    BY <1>2, <1>3, <2>2
<1>5. c <= b /\ b + s <= c + t
  BY <1>2, <1>3, <1>4, Products
<1>6. b \div s = q /\ b % s = 0
  <2>1. s * q <= b /\ b < s * q + s
    BY <1>2
  <2>2. b \div s = q /\ b - (b % s) = s * q
    BY <1>2, <2>1, BlockOf, Zenon
  <2>3. b % s \in 0..(s - 1)
    BY <1>2, DivMod, Zenon
  <2> DEFINE e == b % s
  <2>4. e \in 0..(s - 1) /\ b - e = b
    BY <1>2, <2>2, <2>3, Zenon
  <2> HIDE DEF e
  <2>5. e = 0
    BY <1>2, <2>4
  <2> QED
    BY <2>2, <2>5 DEF e
<1>7. c % s = 0
  <2> DEFINE r == k * p
  <2>1. r \in Nat /\ s * r <= c /\ c < s * r + s
    BY <1>2, <1>3
  <2> HIDE DEF r
  <2>2. c - (c % s) = s * r
    BY <1>2, <2>1, BlockOf, Zenon
  <2>3. c % s \in 0..(s - 1)
    BY <1>2, DivMod, Zenon
  <2>4. c = s * r
    BY <1>3 DEF r
  <2> DEFINE e == c % s
  <2>5. e \in 0..(s - 1) /\ c - e = c
    BY <2>2, <2>3, <2>4, Zenon
  <2> HIDE DEF e
  <2>6. e = 0
    BY <1>2, <2>5
  <2> QED
    BY <2>6 DEF e
<1>8. b \div t = p /\ b - (b % t) = c
  <2>1. t * p <= b /\ b < t * p + t
    BY <1>1, <1>2, <1>5
  <2> QED
    BY <1>1, <1>2, <2>1, BlockOf, Zenon
<1>9. (b + s - 1) \div t = p /\ (b + s - 1) - ((b + s - 1) % t) = c
  <2>1. b + s - 1 \in Nat /\ t * p <= b + s - 1 /\ b + s - 1 < t * p + t
    BY <1>1, <1>2, <1>5
  <2> QED
    BY <1>1, <1>2, <2>1, BlockOf, Zenon
<1> QED
  BY <1>1, <1>2, <1>5, <1>6, <1>7, <1>8, <1>9 DEF q, p, b, c, t

\* One bit fewer doubles the block.
LEMMA SizeFacts ==
    ASSUME NEW n \in 0..Width
    PROVE  Size(n) \in Nat \ {0} /\ (n < Width => Size(n) = 2 * Size(n + 1))
<1>1. Width - n \in 0..Width /\ (n < Width => Width - n > 0 /\ (Width - n) - 1 = Width - (n + 1))
  BY WidthAssumption
<1> QED
  BY <1>1, PowersOfTwo DEF Size

\* A shorter prefix is a multiple of a longer one.
LEMMA SizesNest ==
    ASSUME NEW n \in 0..Width, NEW m \in 0..n
    PROVE  \E k \in Nat \ {0} : Size(m) = k * Size(n)
<1> DEFINE Multiple(i) == \E k \in Nat \ {0} : Size(n - i) = k * Size(n)
           T == {i \in 0..n : ~Multiple(i)}
<1>1. n \in Nat /\ m \in Nat /\ n \in 0..Width
  BY WidthAssumption
<1>2. CASE T = {}
  <2>1. n - m \in 0..n /\ n - (n - m) = m
    BY <1>1
  <2>2. Multiple(n - m)
    <3> HIDE DEF Multiple
    <3> QED
      BY <1>2, <2>1, Zenon
  <2> QED
    BY <2>1, <2>2
<1>3. CASE T # {}
  <2>1. PICK i \in T : \A j \in T : i <= j
    <3>1. T \in SUBSET Nat
      BY <1>1
    <3> HIDE DEF T
    <3> QED
      BY <1>3, <3>1, LeastNumber
  <2>2. i \in 0..n /\ ~Multiple(i)
    OBVIOUS
  <2>3. i # 0
    <3>1. SUFFICES ASSUME i = 0 PROVE Multiple(i)
      BY <2>2
    <3>2. n - 0 = n /\ Size(n) = 1 * Size(n) /\ 1 \in Nat \ {0}
      BY <1>1, SizeFacts
    <3> QED
      BY <3>1, <3>2
  <2>4. Multiple(i - 1)
    <3>1. i - 1 \in 0..n /\ ~(i <= i - 1)
      BY <1>1, <2>2, <2>3
    <3>2. i - 1 \notin T
      BY <2>1, <3>1, Zenon
    <3> HIDE DEF Multiple
    <3> QED
      BY <3>1, <3>2, Zenon
  <2>5. PICK k \in Nat \ {0} : Size(n - (i - 1)) = k * Size(n)
    BY <2>4
  <2>6. n - i \in 0..Width /\ n - i < Width /\ (n - i) + 1 = n - (i - 1)
    BY <1>1, <2>2, <2>3, WidthAssumption
  <2>7. Size(n - i) = 2 * Size(n - (i - 1))
    BY <2>6, SizeFacts
  <2>8. Size(n - i) = (2 * k) * Size(n) /\ 2 * k \in Nat \ {0}
    BY <2>5, <2>7, SizeFacts
  <2> QED
    BY <2>2, <2>8
<1> QED
  BY <1>2, <1>3

\* A prefix contains an address when both lie in the same block.
LEMMA SameBlock ==
    ASSUME NEW p \in AllPrefixes, NEW a \in Nat
    PROVE  ContainsAddress(p, a) <=> a \div Size(p.bits) = p.address \div Size(p.bits)
<1> DEFINE s == Size(p.bits)
           q == a \div s
           r == p.address \div s
<1>1. s \in Nat \ {0} /\ p.address \in Nat
  BY SizeFacts DEF AllPrefixes, AddressSpace
<1> HIDE DEF s
<1>2. q \in Nat /\ a = s * q + (a % s) /\ a % s \in 0..(s - 1)
  BY <1>1, DivMod, Zenon
<1>3. r \in Nat /\ p.address = s * r + (p.address % s) /\ p.address % s \in 0..(s - 1)
  BY <1>1, DivMod, Zenon
<1> HIDE DEF q, r
<1>4. s * q \in Nat /\ s * r \in Nat
  BY <1>1, <1>2, <1>3
<1>5. a - (a % s) = s * q /\ p.address - (p.address % s) = s * r
  BY <1>1, DivMod, Zenon DEF q, r
<1>6. s * q = s * r <=> q = r
  <2>1. q < r => s * (q + 1) <= s * r
    BY <1>1, <1>2, <1>3, Products
  <2>2. r < q => s * (r + 1) <= s * q
    BY <1>1, <1>2, <1>3, Products
  <2>3. s * (q + 1) = s * q + s /\ s * (r + 1) = s * r + s
    BY <1>1, <1>2, <1>3, Products
  <2> QED
    BY <1>1, <1>2, <1>3, <1>4, <2>1, <2>2, <2>3
<1> QED
  BY <1>5, <1>6, Zenon DEF ContainsAddress, NetworkValue, s, q, r

\* The address space is one block, of which every size is a divisor.
LEMMA Space ==
    ASSUME NEW n \in 0..Width, NEW a \in AddressSpace
    PROVE  /\ 2^Width \in Nat \ {0} /\ a \in Nat /\ AddressSpace = 0..(2^Width - 1)
           /\ a - (a % Size(n)) \in Nat /\ a - (a % Size(n)) <= a
           /\ (a - (a % Size(n))) % Size(n) = 0
           /\ a < (a - (a % Size(n))) + Size(n)
           /\ (a - (a % Size(n))) + Size(n) <= 2^Width
<1> DEFINE s == Size(n)
           t == Size(0)
           b == a - (a % s)
<1>1. Width - 0 = Width /\ 0 \in 0..Width /\ 0 \in 0..n
  BY WidthAssumption
<1>2. t = 2^Width /\ t \in Nat \ {0} /\ s \in Nat \ {0}
  BY <1>1, SizeFacts DEF Size
<1>3. a \in Nat /\ a < t
  BY <1>2 DEF AddressSpace
<1> HIDE DEF s, t
<1>4. PICK k \in Nat \ {0} : t = k * s
  BY <1>1, SizesNest DEF s, t
<1>5. b \in Nat /\ b % s = 0 /\ b + s <= (a - (a % t)) + t
  BY <1>2, <1>3, <1>4, BlocksNest, Zenon
<1>6. a - (a % t) = 0
  <2>1. t * 0 <= a /\ a < t * 0 + t /\ 0 \in Nat /\ t * 0 = 0
    BY <1>2, <1>3
  <2> QED
    BY <1>2, <1>3, <2>1, BlockOf, Zenon
<1>7. a % s \in 0..(s - 1)
  BY <1>2, <1>3, DivMod, Zenon
<1> HIDE DEF b
<1>8. b <= a /\ a < b + s
  BY <1>2, <1>3, <1>7 DEF b
<1>9. b + s <= t
  BY <1>2, <1>5, <1>6
<1> QED
  BY <1>2, <1>3, <1>5, <1>8, <1>9 DEF b, s, t, AddressSpace

\* The candidate after a, in steps of the subnet's size.
LEMMA NextCandidate ==
    ASSUME NEW n \in 0..Width, NEW a \in AddressSpace
    PROVE  LET next == LastAddress([address |-> a, bits |-> n]) + 1
           IN /\ next \in (a + 1)..2^Width /\ next % Size(n) = 0
              /\ a % Size(n) = 0 => next = a + Size(n) /\ \A c \in Nat : c % Size(n) = 0 /\ c > a => c >= next
<1> DEFINE s == Size(n)
           b == a - (a % s)
           next == LastAddress([address |-> a, bits |-> n]) + 1
<1>1. s \in Nat \ {0} /\ a \in Nat /\ b \in Nat /\ b % s = 0 /\ b <= a /\ a < b + s /\ b + s <= 2^Width /\ 2^Width \in Nat
  BY SizeFacts, Space
<1>2. next = b + s
  <2>1. next = (b + s - 1) + 1
    BY Zenon DEF LastAddress, NetworkValue
  <2> HIDE DEF next, b, s
  <2> QED
    BY <1>1, <2>1
<1> HIDE DEF next, s
<1>3. (b + s) % s = 0
  <2> DEFINE q == b \div s
  <2> HIDE DEF b
  <2>1. q \in Nat /\ b = s * q + (b % s)
    BY <1>1, DivMod, Zenon
  <2> HIDE DEF q
  <2>2. s * (q + 1) = b + s /\ q + 1 \in Nat
    BY <1>1, <2>1, Products
  <2> DEFINE c == b + s
             r == q + 1
             e == c % s
  <2>3. c \in Nat /\ r \in Nat /\ s * r = c /\ s * r <= c /\ c < s * r + s
    BY <1>1, <2>2
  <2> HIDE DEF c, r
  <2>4. c - e = s * r
    BY <1>1, <2>3, BlockOf, Zenon
  <2>5. e \in 0..(s - 1)
    BY <1>1, <2>3, DivMod, Zenon
  <2> HIDE DEF e
  <2>6. e = 0
    BY <1>1, <2>3, <2>4, <2>5
  <2> QED
    BY <2>6 DEF e, c
<1>4. ASSUME a % s = 0 PROVE next = a + s /\ \A c \in Nat : c % s = 0 /\ c > a => c >= next
  <2>1. b = a
    BY <1>4, <1>1
  <2>2. ASSUME NEW c \in Nat, c % s = 0, c > a PROVE c >= a + s
    <3> DEFINE q == a \div s
               r == c \div s
    <3>1. q \in Nat /\ a = s * q + (a % s) /\ r \in Nat /\ c = s * r + (c % s)
      BY <1>1, DivMod, Zenon
    <3> HIDE DEF q, r
    <3>2. a = s * q /\ c = s * r
      BY <3>1, <2>2, <1>4, <1>1
    <3>3. s * q < s * r
      BY <3>2, <2>2
    <3>4. q < r
      BY <3>3, <3>1, <1>1, Products
    <3>5. s * (q + 1) <= s * r /\ s * (q + 1) = s * q + s
      BY <3>4, <3>1, <1>1, Products
    <3> QED
      BY <3>2, <3>5, <1>1
  <2> QED
    BY <1>2, <2>1, <2>2, Zenon
<1> QED
  BY <1>1, <1>2, <1>3, <1>4 DEF next, s

(***************************************************************************)
(* IpPrefix::contains and the first-fit search of allocate_subnet_len.     *)
(***************************************************************************)
\* Subnets that the search can give out: aligned, in the network, and free.
Candidates(p, used, n) ==
    {a \in AddressSpace : /\ a % Size(n) = 0 /\ ContainsAddress(p, a)
                          /\ IsFree(used, [address |-> a, bits |-> n])}

\* A masked prefix is an interval.
LEMMA PrefixIsInterval ==
    ASSUME NEW p \in AllPrefixes, p.address % Size(p.bits) = 0, NEW a \in Nat
    PROVE  ContainsAddress(p, a) <=> p.address <= a /\ a < p.address + Size(p.bits)
<1> DEFINE t == Size(p.bits)
           c == p.address
           q == c \div t
           r == a - (a % t)
<1>1. t \in Nat \ {0} /\ c \in Nat
  BY SizeFacts DEF AllPrefixes, AddressSpace
<1>2. ContainsAddress(p, a) <=> r = c
  <2>1. ContainsAddress(p, a) <=> r = c - (c % t)
    BY Zenon DEF ContainsAddress, NetworkValue
  <2>2. c - 0 = c
    BY <1>1
  <2> QED
    BY <2>1, <2>2, Zenon
<1> HIDE DEF t, c
<1>3. q \in Nat /\ c = t * q
  <2>1. q \in Nat /\ c - (c % t) = t * q /\ c % t = 0
    BY <1>1, DivMod, Zenon DEF t, c
  <2> QED
    BY <1>1, <2>1
<1>4. a % t \in 0..(t - 1)
  BY <1>1, DivMod, Zenon
<1>5. r <= a /\ a < r + t
  BY <1>1, <1>4
<1> HIDE DEF q, r
<1>6. c <= a /\ a < c + t => r = c
  BY <1>1, <1>3, BlockOf, Zenon DEF r
<1> QED
  BY <1>2, <1>5, <1>6, Zenon DEF t, c

\* allocate_subnet_len: a loop in steps of last_address + 1, that ends beyond the
\* network or at the end of the address space, finds the lowest free aligned block
\* of the network, and reports that there is none only when there is none.
LEMMA SearchIsFirst ==
    ASSUME NEW p \in AllPrefixes, p.address % Size(p.bits) = 0, NEW used, NEW n \in p.bits..Width
    PROVE  LET found == FirstFit(p, used, n)
           IN \/ found = NoSubnet /\ Candidates(p, used, n) = {}
              \/ \E a \in Candidates(p, used, n) :
                    found = [address |-> a, bits |-> n] /\ \A c \in Candidates(p, used, n) : a <= c
<1> DEFINE M == 2^Width
           s == Size(n)
           Block(a) == [address |-> a, bits |-> n]
           Stops(a) == a = M \/ ~ContainsAddress(p, a)
           S == {a \in 0..M : Stops(a) \/ IsFree(used, Block(a))}
           v == [a \in 0..M |-> IF Stops(a) THEN NoSubnet ELSE Block(a)]
           nx == [a \in 0..M |-> LastAddress(Block(a)) + 1]
           A == {a \in 0..M : a % s = 0}
           scan == CHOOSE f : f = [a \in 0..M |-> IF Stops(a) THEN NoSubnet
                                                  ELSE IF IsFree(used, Block(a)) THEN Block(a)
                                                  ELSE f[LastAddress(Block(a)) + 1]]
<1>1. FirstFit(p, used, n) = scan[p.address]
  BY DEF FirstFit
<1>2. M \in Nat \ {0} /\ s \in Nat \ {0} /\ n \in 0..Width /\ AddressSpace = 0..(M - 1) /\ p.address \in AddressSpace
  <2>1. p.address \in AddressSpace /\ n \in 0..Width
    BY WidthAssumption DEF AllPrefixes
  <2> QED
    BY <2>1, Space, SizeFacts
<1>3. ASSUME NEW a \in AddressSpace
      PROVE  /\ LastAddress(Block(a)) + 1 \in (a + 1)..M /\ (LastAddress(Block(a)) + 1) % s = 0
             /\ a % s = 0 => \A c \in Nat : c % s = 0 /\ c > a => c >= LastAddress(Block(a)) + 1
  BY <1>2, NextCandidate, Zenon
<1> HIDE DEF M, s, Block
<1>4. M % s = 0
  <2>1. M - 1 \in AddressSpace /\ (M - 1) + 1 = M
    BY <1>2
  <2>2. LastAddress(Block(M - 1)) + 1 = M
    BY <1>2, <1>3, <2>1
  <2> QED
    BY <1>3, <2>1, <2>2
<1>5. p.address % s = 0
  <2>1. PICK k \in Nat \ {0} : Size(p.bits) = k * s
    BY <1>2, SizesNest DEF AllPrefixes, s
  <2>2. p.address \in Nat /\ p.address - 0 = p.address
    BY <1>2
  <2>3. (p.address - (p.address % (k * s))) % s = 0
    BY <1>2, <2>2, BlocksNest, Zenon
  <2> QED
    BY <2>1, <2>2, <2>3
<1>6. /\ S \in SUBSET (0..M) /\ M \in S /\ A \in SUBSET (0..M) /\ M \in A /\ p.address \in A
  BY <1>2, <1>4, <1>5
<1>7. ASSUME NEW a \in (0..M) \ S PROVE a \in AddressSpace /\ nx[a] = LastAddress(Block(a)) + 1
  BY <1>2
<1>8. \A a \in (0..M) \ S : nx[a] \in (a + 1)..M
  BY <1>3, <1>7
<1>9. ASSUME NEW a \in A \ S PROVE nx[a] \in A /\ nx[a] > a /\ \A c \in A : c > a => c >= nx[a]
  <2>1. a \in (0..M) \ S /\ a % s = 0
    OBVIOUS
  <2>2. nx[a] \in (a + 1)..M /\ nx[a] % s = 0 /\ \A c \in Nat : c % s = 0 /\ c > a => c >= nx[a]
    BY <1>3, <1>7, <2>1, Zenon
  <2>3. nx[a] \in 0..M /\ nx[a] > a /\ A \subseteq Nat
    BY <1>2, <2>1, <2>2
  <2> QED
    BY <2>2, <2>3
<1>10. ASSUME NEW f
       PROVE  [a \in 0..M |-> IF a \in S THEN v[a] ELSE f[nx[a]]]
            = [a \in 0..M |-> IF Stops(a) THEN NoSubnet
                              ELSE IF IsFree(used, Block(a)) THEN Block(a)
                              ELSE f[LastAddress(Block(a)) + 1]]
  BY Zenon
<1> HIDE DEF S, v, nx, A, Stops
<1>11. scan = [a \in 0..M |-> IF a \in S THEN v[a] ELSE scan[nx[a]]]
  <2>1. \E f : f = [a \in 0..M |-> IF a \in S THEN v[a] ELSE f[nx[a]]]
    <3>1. M \in Nat
      BY <1>2
    <3> HIDE DEF scan
    <3>2. \E f : IsScan(f, M, S, v, nx)
      BY <3>1, <1>6, <1>8, ScanExists, Zenon
    <3> QED
      BY <3>2, Zenon DEF IsScan
  <2>2. \E f : f = [a \in 0..M |-> IF Stops(a) THEN NoSubnet
                              ELSE IF IsFree(used, Block(a)) THEN Block(a)
                              ELSE f[LastAddress(Block(a)) + 1]]
    <3>1. PICK f : f = [a \in 0..M |-> IF a \in S THEN v[a] ELSE f[nx[a]]]
      BY <2>1, Zenon
    <3>2. f = [a \in 0..M |-> IF Stops(a) THEN NoSubnet
                              ELSE IF IsFree(used, Block(a)) THEN Block(a)
                              ELSE f[LastAddress(Block(a)) + 1]]
      BY <3>1, <1>10, Zenon
    <3> QED
      BY <3>2, Zenon
  <2>3. scan = [a \in 0..M |-> IF Stops(a) THEN NoSubnet
                              ELSE IF IsFree(used, Block(a)) THEN Block(a)
                              ELSE scan[LastAddress(Block(a)) + 1]]
    BY <2>2, Zenon
  <2> HIDE DEF scan
  <2> QED
    BY <2>3, <1>10, Zenon
<1> HIDE DEF scan
<1>12. PICK b \in A \cap S : /\ b >= p.address /\ scan[p.address] = v[b]
                             /\ \A c \in A : p.address <= c /\ c < b => c \notin S
  <2>1. M \in Nat
    BY <1>2
  <2>2. StepsThrough(A, S, nx)
    BY <1>9, Zenon DEF StepsThrough
  <2>3. IsScan(scan, M, S, v, nx)
    BY <1>11, Zenon DEF IsScan
  <2>4. FindsFirst(scan, A, S, v, p.address)
    BY <2>1, <2>2, <2>3, <1>6, ScanFinds, Zenon
  <2> QED
    BY <2>4, Zenon DEF FindsFirst
<1>13. ASSUME NEW c \in Candidates(p, used, n)
       PROVE  c \in Nat /\ c < M /\ p.address <= c /\ ~(c < b) /\ ContainsAddress(p, c)
  <2>1. c \in AddressSpace /\ c % s = 0 /\ ContainsAddress(p, c) /\ IsFree(used, Block(c))
    BY Zenon DEF Candidates, s, Block
  <2>2. c \in Nat /\ c < M /\ c \in 0..M
    BY <1>2, <2>1
  <2>3. c \in A /\ c \in S
    BY <2>1, <2>2 DEF A, S
  <2>4. p.address <= c
    BY <2>1, <2>2, PrefixIsInterval
  <2> QED
    BY <1>12, <2>1, <2>2, <2>3, <2>4
<1>14. b \in Nat /\ b \in 0..M /\ b % s = 0 /\ (Stops(b) \/ IsFree(used, Block(b)))
  BY <1>2 DEF A, S
<1>15. CASE Stops(b)
  <2>1. scan[p.address] = NoSubnet
    BY <1>12, <1>14, <1>15 DEF v
  <2>2. ASSUME NEW c \in Candidates(p, used, n) PROVE FALSE
    <3>1. b # M
      BY <1>13, <1>14, <1>2
    <3>2. ~ContainsAddress(p, b)
      BY <1>15, <3>1 DEF Stops
    <3>3. c \in Nat /\ ContainsAddress(p, c) /\ b <= c
      BY <1>13, <1>14
    <3>4. c < p.address + Size(p.bits)
      BY <3>3, PrefixIsInterval
    <3>5. p.address \in Nat /\ Size(p.bits) \in Nat
      BY SizeFacts, <1>2 DEF AllPrefixes
    <3> QED
      BY <3>2, <3>3, <3>4, <3>5, <1>12, <1>14, PrefixIsInterval
  <2> QED
    BY <1>1, <2>1, <2>2
<1>16. CASE ~Stops(b)
  <2>1. scan[p.address] = Block(b)
    BY <1>12, <1>14, <1>16 DEF v
  <2>2. b \in AddressSpace /\ ContainsAddress(p, b) /\ IsFree(used, Block(b))
    BY <1>2, <1>14, <1>16 DEF Stops
  <2>3. b \in Candidates(p, used, n)
    BY <1>14, <2>2, Zenon DEF Candidates, s, Block
  <2>4. \A c \in Candidates(p, used, n) : b <= c
    BY <1>13, <1>14
  <2> QED
    BY <1>1, <2>1, <2>3, <2>4 DEF Block
<1> QED
  BY <1>15, <1>16

(***************************************************************************)
(* IpPrefix::overlaps, and the addresses a prefix stands for.              *)
(***************************************************************************)
\* A prefix contains exactly the addresses that share its leading bits, and the
\* masked address is one of them.
LEMMA OwnAddresses ==
    ASSUME NEW p \in AllPrefixes
    PROVE  /\ p.bits \in 0..Width /\ p.address \in AddressSpace /\ p.address \in Nat /\ AddressSpace \subseteq Nat
           /\ NetworkValue(p) \in AddressSpace /\ NetworkValue(p) \in AddressesOf(p)
           /\ \A a \in AddressSpace : a \in AddressesOf(p) <=> ContainsAddress(p, a)
<1> DEFINE s == Size(p.bits)
           a == p.address
<1>1. p.bits \in 0..Width /\ a \in AddressSpace
  BY DEF AllPrefixes
<1>2. AddressSpace \subseteq Nat /\ AddressSpace = 0..(2^Width - 1) /\ 2^Width \in Nat /\ a \in Nat
  BY <1>1, Space
<1>3. a - (a % s) \in Nat /\ a - (a % s) <= a
  BY <1>1, Space, Zenon
<1>4. s \in Nat \ {0}
  BY <1>1, SizeFacts
<1>5. NetworkValue(p) \in AddressSpace
  <2>1. NetworkValue(p) = a - (a % s)
    BY DEF NetworkValue
  <2> HIDE DEF a, s
  <2> QED
    BY <1>1, <1>2, <1>3, <2>1
<1>6. NetworkValue(p) \div s = a \div s
  <2>1. 1 \in Nat \ {0}
    OBVIOUS
  <2> HIDE DEF a, s
  <2>2. (a - (a % s)) \div s = a \div s
    BY <1>2, <1>4, <2>1, BlocksNest, Zenon
  <2> QED
    BY <2>2, Zenon DEF NetworkValue, a, s
<1>7. \A x \in AddressSpace : x \in AddressesOf(p) <=> ContainsAddress(p, x)
  <2>1. TAKE x \in AddressSpace
  <2>2. x \in Nat
    BY <1>2
  <2>3. ContainsAddress(p, x) <=> x \div Size(p.bits) = p.address \div Size(p.bits)
    BY <2>2, SameBlock, Zenon
  <2> QED
    BY <2>1, <2>3, Zenon DEF AddressesOf
<1> QED
  BY <1>1, <1>2, <1>5, <1>6, <1>7, Zenon DEF AddressesOf

\* Of two prefixes that share an address, the longer lies in the shorter.
LEMMA SharedBlock ==
    ASSUME NEW p \in AllPrefixes, NEW q \in AllPrefixes, p.bits <= q.bits,
           NEW a \in AddressSpace, ContainsAddress(p, a), ContainsAddress(q, a)
    PROVE  ContainsAddress(p, NetworkValue(q))
<1> DEFINE s == Size(q.bits)
           t == Size(p.bits)
<1>1. q.bits \in 0..Width /\ p.bits \in 0..q.bits /\ a \in Nat
  <2>1. q.bits \in 0..Width /\ p.bits \in 0..Width /\ a \in Nat
    BY OwnAddresses
  <2> QED
    BY <2>1, WidthAssumption
<1>2. PICK k \in Nat \ {0} : t = k * s
  BY <1>1, SizesNest, Zenon
<1>3. s \in Nat \ {0}
  BY <1>1, SizeFacts
<1>4. a - (a % s) = NetworkValue(q) /\ a - (a % t) = NetworkValue(p)
  BY Zenon DEF ContainsAddress
<1> HIDE DEF s, t
<1>5. LET b == a - (a % s) IN b - (b % (k * s)) = a - (a % (k * s))
  BY <1>1, <1>2, <1>3, BlocksNest, Zenon
<1>6. NetworkValue(q) - (NetworkValue(q) % t) = NetworkValue(p)
  BY <1>2, <1>4, <1>5, Zenon
<1> QED
  BY <1>6, Zenon DEF ContainsAddress, t

\* The two-sided test of overlaps() is exact: two prefixes overlap when some
\* address belongs to both.
LEMMA OverlapsIsExact ==
    ASSUME NEW p \in AllPrefixes, NEW q \in AllPrefixes
    PROVE  Overlaps(p, q) <=> AddressesOf(p) \cap AddressesOf(q) # {}
<1>1. ASSUME Overlaps(p, q) PROVE AddressesOf(p) \cap AddressesOf(q) # {}
  <2>1. NetworkValue(p) \in AddressSpace /\ NetworkValue(q) \in AddressSpace
    BY OwnAddresses, Zenon
  <2>2. NetworkValue(p) \in AddressesOf(p) /\ NetworkValue(q) \in AddressesOf(q)
    BY OwnAddresses, Zenon
  <2>3. CASE ContainsAddress(p, NetworkValue(q))
    <3>1. NetworkValue(q) \in AddressesOf(p)
      BY <2>1, <2>3, OwnAddresses, Zenon
    <3> QED
      BY <3>1, <2>2, Zenon
  <2>4. CASE ContainsAddress(q, NetworkValue(p))
    <3>1. NetworkValue(p) \in AddressesOf(q)
      BY <2>1, <2>4, OwnAddresses, Zenon
    <3> QED
      BY <3>1, <2>2, Zenon
  <2> QED
    BY <1>1, <2>3, <2>4, Zenon DEF Overlaps
<1>2. ASSUME NEW a \in AddressesOf(p) \cap AddressesOf(q) PROVE Overlaps(p, q)
  <2>1. a \in AddressSpace
    BY Zenon DEF AddressesOf
  <2>2. ContainsAddress(p, a) /\ ContainsAddress(q, a)
    BY <2>1, OwnAddresses, Zenon
  <2>3. p.bits <= q.bits \/ q.bits <= p.bits
    <3>1. p.bits \in 0..Width /\ q.bits \in 0..Width
      BY OwnAddresses, Zenon
    <3> QED
      BY <3>1, WidthAssumption
  <2> QED
    BY <2>1, <2>2, <2>3, SharedBlock, Zenon DEF Overlaps
<1> QED
  BY <1>1, <1>2, Zenon

\* An aligned block of the search, as addresses.
LEMMA BlockAddresses ==
    ASSUME NEW n \in 0..Width, NEW a \in AddressSpace, a % Size(n) = 0
    PROVE  LET block == [address |-> a, bits |-> n]
           IN /\ block \in AllPrefixes /\ AddressesOf(block) = a..(a + Size(n) - 1)
              /\ a \in AddressesOf(block)
<1> DEFINE block == [address |-> a, bits |-> n]
           s == Size(n)
<1>1. block \in AllPrefixes /\ block.address = a /\ block.bits = n
  BY DEF AllPrefixes
<1>2. s \in Nat \ {0} /\ a \in Nat /\ AddressSpace = 0..(2^Width - 1) /\ 2^Width \in Nat
  BY SizeFacts, Space
<1>3. a + s <= 2^Width
  <2>1. (a - 0) + s <= 2^Width
    BY Space
  <2> QED
    BY <1>2, <2>1
<1>4. \A x \in AddressSpace : x \in AddressesOf(block) <=> ContainsAddress(block, x)
  BY <1>1, OwnAddresses, Zenon
<1>5. \A x \in Nat : ContainsAddress(block, x) <=> a <= x /\ x < a + s
  <2>1. block.address % Size(block.bits) = 0
    BY <1>1, Zenon
  <2> HIDE DEF block
  <2>2. \A x \in Nat : ContainsAddress(block, x) <=> block.address <= x /\ x < block.address + Size(block.bits)
    BY <1>1, <2>1, PrefixIsInterval, Zenon
  <2> QED
    BY <1>1, <2>2, Zenon
<1>6. AddressesOf(block) \subseteq AddressSpace
  BY DEF AddressesOf
<1> HIDE DEF block, s
<1>7. AddressesOf(block) = a..(a + s - 1)
  <2>1. ASSUME NEW x \in AddressesOf(block) PROVE x \in a..(a + s - 1)
    BY <1>2, <1>4, <1>5, <1>6
  <2>2. ASSUME NEW x \in a..(a + s - 1) PROVE x \in AddressesOf(block)
    <3>1. x \in Nat /\ x \in AddressSpace /\ a <= x /\ x < a + s
      BY <1>2, <1>3
    <3> QED
      BY <3>1, <1>4, <1>5
  <2> QED
    BY <2>1, <2>2, Zenon
<1>8. a \in a..(a + s - 1)
  BY <1>2
<1> QED
  BY <1>1, <1>7, <1>8 DEF block, s

\* A prefix inside another one.
LEMMA InsideWhole ==
    ASSUME NEW p \in AllPrefixes, NEW q \in AllPrefixes, p.bits <= q.bits, ContainsAddress(p, q.address)
    PROVE  AddressesOf(q) \subseteq AddressesOf(p)
<1> SUFFICES ASSUME NEW a \in AddressesOf(q) PROVE a \in AddressesOf(p)
  BY Zenon
<1> DEFINE s == Size(q.bits)
           t == Size(p.bits)
<1>1. q.bits \in 0..Width /\ p.bits \in 0..q.bits /\ a \in Nat /\ q.address \in Nat /\ a \in AddressSpace
  <2>1. a \in AddressSpace
    BY DEF AddressesOf
  <2>2. q.bits \in 0..Width /\ p.bits \in 0..Width /\ a \in Nat /\ q.address \in Nat
    BY <2>1, OwnAddresses
  <2> QED
    BY <2>1, <2>2, WidthAssumption
<1>2. PICK k \in Nat \ {0} : t = k * s
  BY <1>1, SizesNest, Zenon
<1>3. s \in Nat \ {0}
  BY <1>1, SizeFacts
<1>4. ContainsAddress(q, a)
  BY <1>1, OwnAddresses, Zenon
<1>5. a - (a % s) = q.address - (q.address % s)
  BY <1>4, Zenon DEF ContainsAddress, NetworkValue
<1>6. q.address - (q.address % t) = NetworkValue(p)
  BY Zenon DEF ContainsAddress
<1> HIDE DEF s, t
<1>7. \A x \in Nat : LET b == x - (x % s) IN b - (b % (k * s)) = x - (x % (k * s))
  BY <1>2, <1>3, BlocksNest, Zenon
<1>8. LET b == a - (a % s) IN b - (b % t) = a - (a % t)
  BY <1>1, <1>2, <1>7, Zenon
<1>9. LET b == q.address - (q.address % s) IN b - (b % t) = q.address - (q.address % t)
  BY <1>1, <1>2, <1>7, Zenon
<1>10. a - (a % t) = NetworkValue(p)
  BY <1>5, <1>6, <1>8, <1>9, Zenon
<1>11. ContainsAddress(p, a)
  BY <1>10, Zenon DEF ContainsAddress, t
<1> QED
  BY <1>1, <1>11, OwnAddresses, Zenon

\* allocate_subnet checks the two ends of the subnet; that is enough.
LEMMA FitsWhole ==
    ASSUME NEW p \in AllPrefixes, p.address % Size(p.bits) = 0,
           NEW q \in AllPrefixes, q.address % Size(q.bits) = 0, Fits(p, q)
    PROVE  AddressesOf(q) \subseteq AddressesOf(p)
<1> SUFFICES ASSUME NEW a \in AddressesOf(q) PROVE a \in AddressesOf(p)
  BY Zenon
<1> DEFINE s == Size(q.bits)
           t == Size(p.bits)
           l == LastAddress(q)
<1>1. a \in AddressSpace
  BY DEF AddressesOf
<1>2. /\ a \in Nat /\ q.address \in Nat /\ p.address \in Nat
      /\ q.bits \in 0..Width /\ p.bits \in 0..Width
  BY <1>1, OwnAddresses
<1>3. s \in Nat \ {0} /\ t \in Nat \ {0}
  BY <1>2, SizeFacts
<1>4. ContainsAddress(q, a)
  BY <1>1, OwnAddresses, Zenon
<1>5. q.address <= a /\ a < q.address + s
  BY <1>2, <1>4, PrefixIsInterval, Zenon
<1>6. l = q.address + s - 1 /\ l \in Nat
  <2>1. l = (q.address - 0) + s - 1
    BY Zenon DEF LastAddress, NetworkValue
  <2> HIDE DEF s, l
  <2> QED
    BY <1>2, <1>3, <2>1
<1>7. ContainsAddress(p, q.address) /\ ContainsAddress(p, l)
  BY Zenon DEF Fits
<1>8. p.address <= q.address /\ l < p.address + t
  BY <1>2, <1>6, <1>7, PrefixIsInterval, Zenon
<1>9. p.address <= a /\ a < p.address + t
  <2> HIDE DEF s, t, l
  <2> QED
    BY <1>2, <1>3, <1>5, <1>6, <1>8
<1>10. ContainsAddress(p, a)
  BY <1>2, <1>9, PrefixIsInterval, Zenon
<1> QED
  BY <1>1, <1>10, OwnAddresses, Zenon

(***************************************************************************)
(* The allocator.                                                          *)
(***************************************************************************)
\* A subnet overlaps itself, so the same one is never allocated twice.
LEMMA SelfOverlap ==
    ASSUME NEW p \in AllPrefixes
    PROVE  Overlaps(p, p)
BY OwnAddresses, OverlapsIsExact, Zenon

\* The error is not a subnet.
LEMMA NoSubnetIsNone == NoSubnet \notin AllPrefixes
<1>1. SUFFICES ASSUME NoSubnet \in AllPrefixes PROVE FALSE
  OBVIOUS
<1>2. DOMAIN NoSubnet = {"error"}
  BY DEF NoSubnet
<1>3. DOMAIN NoSubnet = {"address", "bits"}
  BY <1>1 DEF AllPrefixes
<1> QED
  BY <1>2, <1>3

\* The masked network, and the subnets in use.
Allocator ==
    /\ network \in AllPrefixes /\ network.address % Size(network.bits) = 0
    /\ allocated \subseteq AllPrefixes

\* The free blocks of the specification, which counts addresses, are the
\* candidates of the code, which compares prefixes.
LEMMA FreeIsCandidate ==
    ASSUME Allocator, NEW n \in network.bits..Width
    PROVE  FreeBlocks(n, allocated) = Candidates(network, allocated, n)
<1>1. n \in 0..Width /\ network.bits \in 0..Width /\ network.bits <= n
  <2>1. network.bits \in 0..Width
    BY OwnAddresses DEF Allocator
  <2> QED
    BY <2>1, WidthAssumption
<1>2. ASSUME NEW a \in AddressSpace, a % Size(n) = 0
      PROVE  LET block == a..(a + Size(n) - 1)
             IN /\ block \subseteq AddressesOf(network) <=> ContainsAddress(network, a)
                /\ block \cap UNION {AddressesOf(p) : p \in allocated} = {} <=> IsFree(allocated, [address |-> a, bits |-> n])
  <2> DEFINE block == [address |-> a, bits |-> n]
  <2>1. /\ block \in AllPrefixes /\ AddressesOf(block) = a..(a + Size(n) - 1) /\ a \in AddressesOf(block)
        /\ block.bits = n /\ block.address = a
    BY <1>1, <1>2, BlockAddresses
  <2> HIDE DEF block
  <2>2. AddressesOf(block) \subseteq AddressesOf(network) <=> ContainsAddress(network, a)
    <3>1. ASSUME AddressesOf(block) \subseteq AddressesOf(network) PROVE ContainsAddress(network, a)
      BY <2>1, <3>1, OwnAddresses DEF Allocator
    <3>2. ASSUME ContainsAddress(network, a) PROVE AddressesOf(block) \subseteq AddressesOf(network)
      <4>1. network \in AllPrefixes /\ network.bits <= block.bits /\ ContainsAddress(network, block.address)
        BY <1>1, <2>1, <3>2, Zenon DEF Allocator
      <4> QED
        BY <2>1, <4>1, InsideWhole, Zenon
    <3> QED
      BY <3>1, <3>2
  <2>3. AddressesOf(block) \cap UNION {AddressesOf(p) : p \in allocated} = {} <=> IsFree(allocated, block)
    <3>1. \A p \in allocated : Overlaps(p, block) <=> AddressesOf(p) \cap AddressesOf(block) # {}
      BY <2>1, OverlapsIsExact, Zenon DEF Allocator
    <3> QED
      BY <3>1, Zenon DEF IsFree
  <2> QED
    BY <2>1, <2>2, <2>3, Zenon DEF block
<1> QED
  BY <1>2, Zenon DEF FreeBlocks, Candidates

\* The invariant of the allocator.
IpamInv == Allocator /\ SubnetsAreSound

\* Ipam::new masks the network and starts with nothing allocated.
LEMMA IpamStarts == IpamInit => IpamInv
<1> SUFFICES ASSUME IpamInit PROVE IpamInv
  OBVIOUS
<1>1. PICK p \in AllPrefixes : network = Masked(p)
  BY DEF IpamInit
<1>2. p.address \in AddressSpace /\ p.bits \in 0..Width /\ NetworkValue(p) \in AddressSpace
  BY OwnAddresses, Zenon
<1>3. network = [address |-> NetworkValue(p), bits |-> p.bits]
  BY <1>1 DEF Masked, AllPrefixes
<1>4. NetworkValue(p) % Size(p.bits) = 0
  BY <1>2, Space, Zenon DEF NetworkValue
<1>5. Allocator
  BY <1>2, <1>3, <1>4 DEF Allocator, AllPrefixes, IpamInit
<1>6. DOMAIN returned = {"error"} /\ allocated = {}
  BY DEF IpamInit, NoReply
<1> QED
  BY <1>5, <1>6 DEF IpamInv, SubnetsAreSound, SubnetsDisjoint, SubnetsInNetwork, FirstFitIsExact

\* A new subnet that is free and in the network.
LEMMA SubnetAdded ==
    ASSUME IpamInv, network' = network, NEW x \in AllPrefixes, IsFree(allocated, x),
           AddressesOf(x) \subseteq AddressesOf(network), allocated' = allocated \cup {x}
    PROVE  Allocator' /\ SubnetsInNetwork' /\ x \notin allocated
           /\ \A p, q \in allocated' : p # q => AddressesOf(p) \cap AddressesOf(q) = {}
<1>1. Allocator'
  BY DEF IpamInv, Allocator
<1>2. SubnetsInNetwork'
  BY DEF IpamInv, SubnetsAreSound, SubnetsInNetwork
<1>3. x \notin allocated
  BY SelfOverlap, Zenon DEF IsFree
<1>4. \A p \in allocated : AddressesOf(p) \cap AddressesOf(x) = {}
  BY OverlapsIsExact DEF IsFree, IpamInv, Allocator
<1>5. \A p, q \in allocated : p # q => AddressesOf(p) \cap AddressesOf(q) = {}
  BY DEF IpamInv, SubnetsAreSound, SubnetsDisjoint
<1>6. \A p, q \in allocated' : p # q => AddressesOf(p) \cap AddressesOf(q) = {}
  BY <1>4, <1>5
<1> QED
  BY <1>1, <1>2, <1>3, <1>6

\* A refused call changes nothing.
LEMMA IpamRefuses ==
    ASSUME IpamInv, UNCHANGED <<network, allocated>>, NEW why, returned' = RefusedWith(why)
    PROVE  IpamInv'
<1>1. DOMAIN returned' = {"error"}
  BY DEF RefusedWith
<1> QED
  BY <1>1 DEF IpamInv, Allocator, SubnetsAreSound, SubnetsDisjoint, SubnetsInNetwork, FirstFitIsExact

\* allocate_subnet_len keeps the invariant, and returns the lowest free block.
LEMMA IpamSearches ==
    ASSUME IpamInv, NEW n \in 0..(Width + 1), AllocateSubnetLen(n)
    PROVE  IpamInv'
<1>1. CASE n < network.bits \/ n > Width
  BY <1>1, IpamRefuses, Zenon DEF AllocateSubnetLen
<1>2. CASE ~(n < network.bits \/ n > Width)
  <2> DEFINE found == FirstFit(network, allocated, n)
             free == Candidates(network, allocated, n)
  <2>1. /\ network \in AllPrefixes /\ network.address % Size(network.bits) = 0 /\ network.bits \in 0..Width
        /\ allocated \subseteq AllPrefixes
    BY OwnAddresses, Zenon DEF IpamInv, Allocator
  <2>2. n \in network.bits..Width /\ n \in 0..Width /\ network.bits <= n
    BY <1>2, <2>1, WidthAssumption
  <2>3. /\ returned' = [bits |-> n, subnet |-> found, before |-> allocated]
        /\ allocated' = allocated \cup ({found} \ {NoSubnet}) /\ network' = network
    BY <1>2 DEF AllocateSubnetLen
  <2>4. free = FreeBlocks(n, allocated)
    BY <2>2, FreeIsCandidate, Zenon DEF IpamInv
  <2>6. /\ "bits" \in DOMAIN returned' /\ "subnet" \in DOMAIN returned'
        /\ returned'.bits = n /\ returned'.subnet = found /\ returned'.before = allocated
    BY <2>3
  <2>7. \/ found = NoSubnet /\ free = {}
        \/ \E a \in free : found = [address |-> a, bits |-> n] /\ \A c \in free : a <= c
    BY <2>1, <2>2, SearchIsFirst, Zenon
  <2> HIDE DEF found, free
  <2>8. FreeBlocks(returned.bits, returned.before)' = free
    BY <2>3, <2>4, <2>6 DEF FreeBlocks
  <2>9. CASE found = NoSubnet /\ free = {}
    <3>1. allocated' = allocated
      BY <2>3, <2>9
    <3>2. Allocator' /\ SubnetsInNetwork'
      BY <2>3, <3>1 DEF IpamInv, Allocator, SubnetsAreSound, SubnetsInNetwork
    <3>3. SubnetsDisjoint'
      BY <2>1, <2>6, <2>9, <3>1, NoSubnetIsNone DEF IpamInv, SubnetsAreSound, SubnetsDisjoint
    <3>4. FirstFitIsExact'
      BY <2>6, <2>8, <2>9, Zenon DEF FirstFitIsExact
    <3> QED
      BY <3>2, <3>3, <3>4 DEF IpamInv, SubnetsAreSound
  <2>10. ASSUME NEW a \in free, found = [address |-> a, bits |-> n], \A c \in free : a <= c
         PROVE  IpamInv'
    <3>1. a \in AddressSpace /\ a % Size(n) = 0 /\ ContainsAddress(network, a) /\ IsFree(allocated, found)
      BY <2>10, Zenon DEF free, Candidates
    <3>2. found \in AllPrefixes /\ found.bits = n /\ found.address = a
      BY <2>2, <2>10, <3>1, BlockAddresses
    <3>3. AddressesOf(found) \subseteq AddressesOf(network)
      BY <2>1, <2>2, <3>1, <3>2, InsideWhole, Zenon
    <3>4. allocated' = allocated \cup {found}
      BY <2>3, <3>2, NoSubnetIsNone
    <3>5. /\ Allocator' /\ SubnetsInNetwork' /\ found \notin allocated
          /\ \A p, q \in allocated' : p # q => AddressesOf(p) \cap AddressesOf(q) = {}
      BY <2>3, <3>1, <3>2, <3>3, <3>4, SubnetAdded, Zenon
    <3>6. SubnetsDisjoint'
      BY <2>6, <3>5, Zenon DEF SubnetsDisjoint
    <3>7. FirstFitIsExact'
      <4>1. free # {}
        BY <2>10
      <4> QED
        BY <2>6, <2>8, <2>10, <3>2, <4>1, Zenon DEF FirstFitIsExact
    <3> QED
      BY <3>5, <3>6, <3>7, Zenon DEF IpamInv, SubnetsAreSound
  <2> QED
    BY <2>7, <2>9, <2>10, Zenon
<1> QED
  BY <1>1, <1>2

\* allocate_subnet keeps the invariant.
LEMMA IpamAccepts ==
    ASSUME IpamInv, NEW x \in StoredPrefixes, AllocateSubnet(x)
    PROVE  IpamInv'
<1>1. CASE ~Fits(network, x)
  BY <1>1, IpamRefuses, Zenon DEF AllocateSubnet
<1>2. CASE Fits(network, x) /\ ~IsFree(allocated, x)
  BY <1>2, IpamRefuses, Zenon DEF AllocateSubnet
<1>3. CASE Fits(network, x) /\ IsFree(allocated, x)
  <2>1. PICK p \in AllPrefixes : x = Masked(p)
    BY DEF StoredPrefixes
  <2>2. p.address \in AddressSpace /\ p.bits \in 0..Width /\ NetworkValue(p) \in AddressSpace
    BY OwnAddresses, Zenon
  <2>3. x = [address |-> NetworkValue(p), bits |-> p.bits]
    BY <2>1 DEF Masked, AllPrefixes
  <2>4. NetworkValue(p) % Size(p.bits) = 0
    BY <2>2, Space, Zenon DEF NetworkValue
  <2>5. x \in AllPrefixes /\ x.address % Size(x.bits) = 0
    BY <2>2, <2>3, <2>4 DEF AllPrefixes
  <2>6. AddressesOf(x) \subseteq AddressesOf(network)
    BY <1>3, <2>5, FitsWhole, Zenon DEF IpamInv, Allocator
  <2>7. allocated' = allocated \cup {x} /\ network' = network /\ returned' = [subnet |-> x, before |-> allocated]
    BY <1>3 DEF AllocateSubnet
  <2>8. DOMAIN returned' = {"subnet", "before"} /\ returned'.subnet = x /\ returned'.before = allocated
    BY <2>7
  <2>9. /\ Allocator' /\ SubnetsInNetwork' /\ x \notin allocated
        /\ \A p1, q \in allocated' : p1 # q => AddressesOf(p1) \cap AddressesOf(q) = {}
    BY <1>3, <2>5, <2>6, <2>7, SubnetAdded, Zenon
  <2>10. SubnetsDisjoint'
    BY <2>8, <2>9, Zenon DEF SubnetsDisjoint
  <2>11. FirstFitIsExact'
    BY <2>8 DEF FirstFitIsExact
  <2> QED
    BY <2>9, <2>10, <2>11, Zenon DEF IpamInv, SubnetsAreSound
<1> QED
  BY <1>1, <1>2, <1>3

\* For every address width and every network: allocated subnets are disjoint and
\* inside the network, and allocate_subnet_len returns the lowest free aligned
\* block exactly when there is one (Ipam, ipam.rs).
THEOREM SubnetsAlwaysSound == IpamInit /\ [][IpamNext]_ipamVars => []SubnetsAreSound
<1>1. IpamInit => IpamInv
  BY IpamStarts
<1>2. IpamInv /\ [IpamNext]_ipamVars => IpamInv'
  <2> SUFFICES ASSUME IpamInv, [IpamNext]_ipamVars PROVE IpamInv'
    OBVIOUS
  <2>1. CASE IpamNext
    BY <2>1, IpamSearches, IpamAccepts, Zenon DEF IpamNext
  <2>2. CASE UNCHANGED ipamVars
    <3>1. network' = network /\ allocated' = allocated /\ returned' = returned
      BY <2>2 DEF ipamVars
    <3> QED
      BY <3>1 DEF IpamInv, Allocator, SubnetsAreSound, SubnetsDisjoint, SubnetsInNetwork, FirstFitIsExact,
                  FreeBlocks
  <2> QED
    BY <2>1, <2>2
<1>3. IpamInv => SubnetsAreSound
  BY DEF IpamInv
<1> QED
  BY <1>1, <1>2, <1>3, PTL

(***************************************************************************)
(* The cluster: add_machine and remove_machine around the allocator.       *)
(***************************************************************************)
\* The rows of the machines table, or of a listing of it.
RowsAreSound(rows) ==
    /\ rows \subseteq Machines
    /\ IpamRebuilds(rows)
    /\ \A m, n \in rows : m # n => m.name # n.name /\ m.key # n.key

\* What add_machine knows between its listing and its write.
AdderKnows(h) ==
    /\ listed[h] \subseteq Machines /\ subnet[h] \in AllPrefixes \cup {NoSubnet}
    /\ reply[h] # "create IPAM manager"
    /\ pc[h] \in {"list", "allocate", "create"} => h \in Adders /\ req[h] \in [name : Names, key : Keys]
    /\ pc[h] \in {"allocate", "create"} =>
         machines \subseteq listed[h] /\ RowsAreSound(listed[h]) /\ ~Duplicate(h, listed[h])
    /\ pc[h] = "create" =>
         /\ subnet[h] \in AllPrefixes /\ Fits(Network, subnet[h])
         /\ IsFree({m.subnet : m \in listed[h]}, subnet[h])

\* Every handler has its locals.
Locals ==
    /\ pc \in [Handlers -> {"idle", "list", "allocate", "create"} \cup Ids]
    /\ DOMAIN req = Handlers /\ DOMAIN listed = Handlers /\ DOMAIN subnet = Handlers /\ DOMAIN reply = Handlers

\* The store and the latch, whatever the handlers do.
Shared ==
    RowsAreSound(machines) /\ containers \subseteq Ids /\ ready \in BOOLEAN /\ truncated = 0

\* The inductive invariant: the table, and what each handler knows of it.
ClusterInv ==
    /\ Shared /\ Locals
    /\ \A h \in Handlers : AdderKnows(h)

\* The prefix of the store is one, the default subnet size is one of its sizes,
\* and a machine ID is not taken for a program counter.
ClusterConstants ==
    /\ NetworkAddress \in AddressSpace /\ NetworkBits \in 0..Width /\ SubnetBits \in NetworkBits..Width
    /\ Ids \cap {"list", "allocate", "create"} = {}

\* The network as stored, and as Ipam::new masks it, contain the same addresses.
LEMMA NetworkFacts ==
    ASSUME ClusterConstants
    PROVE  /\ Network \in AllPrefixes /\ Masked(Network) \in AllPrefixes
           /\ Masked(Network).address % Size(Masked(Network).bits) = 0
           /\ Masked(Network).bits = NetworkBits
           /\ \A a : ContainsAddress(Masked(Network), a) <=> ContainsAddress(Network, a)
<1> DEFINE p == Network
           q == Masked(p)
<1>1. p \in AllPrefixes /\ p.address = NetworkAddress /\ p.bits = NetworkBits
  BY DEF Network, AllPrefixes, ClusterConstants
<1>2. p.address \in AddressSpace /\ p.bits \in 0..Width /\ NetworkValue(p) \in AddressSpace
  BY <1>1, OwnAddresses, Zenon
<1>3. q = [address |-> NetworkValue(p), bits |-> p.bits]
  BY <1>1 DEF Masked, AllPrefixes
<1>4. q.address = NetworkValue(p) /\ q.bits = p.bits
  BY <1>3
<1>5. NetworkValue(p) % Size(p.bits) = 0 /\ NetworkValue(p) \in Nat
  BY <1>2, Space, Zenon DEF NetworkValue
<1>6. q \in AllPrefixes
  BY <1>2, <1>3 DEF AllPrefixes
<1>7. NetworkValue(q) = NetworkValue(p)
  <2>1. NetworkValue(q) = NetworkValue(p) - 0
    BY <1>4, <1>5, Zenon DEF NetworkValue
  <2> QED
    BY <1>5, <2>1
<1>8. \A a : ContainsAddress(q, a) <=> ContainsAddress(p, a)
  BY <1>4, <1>7, Zenon DEF ContainsAddress
<1> QED
  BY <1>1, <1>4, <1>5, <1>6, <1>8, Zenon

\* A subnet the search finds lies in the network and is not in use.
LEMMA FoundSubnet ==
    ASSUME ClusterConstants, NEW used
    PROVE  LET found == FirstFit(Masked(Network), used, SubnetBits)
           IN found # NoSubnet => found \in AllPrefixes /\ Fits(Network, found) /\ IsFree(used, found)
<1> DEFINE q == Masked(Network)
           n == SubnetBits
           found == FirstFit(q, used, n)
<1>1. /\ q \in AllPrefixes /\ q.address % Size(q.bits) = 0 /\ q.bits = NetworkBits
      /\ \A a : ContainsAddress(q, a) <=> ContainsAddress(Network, a)
  BY NetworkFacts, Zenon
<1>2. n \in q.bits..Width /\ n \in 0..Width /\ q.bits <= n
  BY <1>1, WidthAssumption DEF ClusterConstants
<1> HIDE DEF q, n
<1>3. \/ found = NoSubnet
      \/ \E a \in Candidates(q, used, n) : found = [address |-> a, bits |-> n]
  <2>1. \/ found = NoSubnet /\ Candidates(q, used, n) = {}
        \/ \E a \in Candidates(q, used, n) :
              found = [address |-> a, bits |-> n] /\ \A c \in Candidates(q, used, n) : a <= c
    BY <1>1, <1>2, SearchIsFirst, Zenon
  <2> HIDE DEF found
  <2> QED
    BY <2>1, Zenon
<1> HIDE DEF found
<1>4. ASSUME NEW a \in Candidates(q, used, n), found = [address |-> a, bits |-> n]
      PROVE  found \in AllPrefixes /\ Fits(Network, found) /\ IsFree(used, found)
  <2>1. a \in AddressSpace /\ a % Size(n) = 0 /\ ContainsAddress(q, a) /\ IsFree(used, found)
    BY <1>4, Zenon DEF Candidates
  <2>2. found \in AllPrefixes /\ found.address = a /\ found.bits = n /\ AddressesOf(found) = a..(a + Size(n) - 1)
    BY <1>2, <1>4, <2>1, BlockAddresses
  <2>3. AddressesOf(found) \subseteq AddressesOf(q)
    BY <1>1, <1>2, <2>1, <2>2, InsideWhole, Zenon
  <2>4. LastAddress(found) \in AddressesOf(found)
    <3>1. LastAddress(found) = (a - 0) + Size(n) - 1
      BY <2>1, <2>2, Zenon DEF LastAddress, NetworkValue
    <3>2. Size(n) \in Nat \ {0} /\ a \in Nat
      BY <1>2, <2>1, SizeFacts, Space
    <3> QED
      BY <2>2, <3>1, <3>2
  <2>5. LastAddress(found) \in AddressSpace
    BY <2>4 DEF AddressesOf
  <2>6. ContainsAddress(q, LastAddress(found))
    BY <1>1, <2>3, <2>4, <2>5, OwnAddresses, Zenon
  <2>7. Fits(Network, found)
    BY <1>1, <2>1, <2>2, <2>6, Zenon DEF Fits
  <2> QED
    BY <2>1, <2>2, <2>7
<1> QED
  BY <1>3, <1>4, Zenon DEF q, n, found

\* At the start the table is empty and every handler idle.
LEMMA ClusterStarts == ClusterConstants /\ Init => ClusterInv
<1> SUFFICES ASSUME Init PROVE ClusterInv
  OBVIOUS
<1>1. RowsAreSound(machines)
  BY DEF Init, RowsAreSound, IpamRebuilds
<1>2. ASSUME NEW h \in Handlers PROVE AdderKnows(h)
  BY Zenon DEF Init, AdderKnows
<1> QED
  BY <1>1, <1>2, Zenon DEF Init, ClusterInv, Shared, Locals

\* Rows taken away leave the others sound.
LEMMA FewerRows ==
    ASSUME NEW rows, NEW fewer \in SUBSET rows, RowsAreSound(rows)
    PROVE  RowsAreSound(fewer)
BY DEF RowsAreSound, IpamRebuilds

\* The other handlers keep their locals.
OthersKeep(h) ==
    \A g \in Handlers \ {h} :
        /\ pc'[g] = pc[g] /\ req'[g] = req[g] /\ listed'[g] = listed[g]
        /\ subnet'[g] = subnet[g] /\ reply'[g] = reply[g]

\* What one handler knows is not disturbed by a step of another that adds no row.
LEMMA OthersKnow ==
    ASSUME NEW g, AdderKnows(g), pc'[g] = pc[g], req'[g] = req[g], listed'[g] = listed[g],
           subnet'[g] = subnet[g], reply'[g] = reply[g],
           pc[g] \in {"allocate", "create"} => machines' \subseteq machines
    PROVE  AdderKnows(g)'
<1>1. pc[g] \in {"allocate", "create"} => machines' \subseteq listed[g]
  BY Zenon DEF AdderKnows
<1> QED
  BY <1>1, Zenon DEF AdderKnows, Duplicate, RowsAreSound

\* One handler takes a step that keeps its own knowledge.
LEMMA HandlerSteps ==
    ASSUME ClusterInv, NEW h \in Handlers, Shared', Locals', OthersKeep(h), AdderKnows(h)',
           \A g \in Handlers \ {h} : pc[g] \in {"allocate", "create"} => machines' \subseteq machines
    PROVE  ClusterInv'
<1>1. ASSUME NEW g \in Handlers \ {h} PROVE AdderKnows(g)'
  <2>1. AdderKnows(g)
    BY DEF ClusterInv
  <2> QED
    BY <2>1, OthersKnow, Zenon DEF OthersKeep
<1> QED
  BY <1>1 DEF ClusterInv

\* A handler that returns knows nothing any more.
LEMMA HandlerReturns ==
    ASSUME ClusterInv, NEW h \in Handlers, NEW status, Return(h, status), status # "create IPAM manager", Shared',
           \A g \in Handlers \ {h} : pc[g] \in {"allocate", "create"} => machines' \subseteq machines
    PROVE  ClusterInv'
<1>1. /\ pc' = [pc EXCEPT ![h] = "idle"] /\ reply' = [reply EXCEPT ![h] = status]
      /\ req' = [req EXCEPT ![h] = NoRequest] /\ listed' = [listed EXCEPT ![h] = {}]
      /\ subnet' = [subnet EXCEPT ![h] = NoSubnet]
  BY Zenon DEF Return
<1>2. AdderKnows(h)'
  BY <1>1, Zenon DEF ClusterInv, Locals, AdderKnows
<1>3. Locals' /\ OthersKeep(h)
  BY <1>1, Zenon DEF ClusterInv, Locals, OthersKeep
<1> QED
  BY <1>2, <1>3, HandlerSteps, Zenon

\* add_machine waits for the store.
LEMMA AddMachineStep ==
    ASSUME ClusterInv, NEW h \in Adders, NEW r \in [name : Names, key : Keys], AddMachine(h, r)
    PROVE  ClusterInv'
<1>1. h \in Handlers /\ AdderKnows(h)
  BY DEF Handlers, ClusterInv
<1>2. UNCHANGED <<machines, containers, ready, truncated>>
  BY DEF AddMachine, stores
<1>3. Shared' /\ machines' \subseteq machines
  BY <1>2 DEF ClusterInv, Shared
<1>4. CASE ~ready
  <2>1. Return(h, "unavailable")
    BY <1>4 DEF AddMachine
  <2> QED
    BY <1>1, <1>3, <2>1, HandlerReturns, Zenon
<1>5. CASE ready
  <2>1. /\ pc' = [pc EXCEPT ![h] = "list"] /\ req' = [req EXCEPT ![h] = r] /\ listed' = listed
        /\ subnet' = subnet /\ reply' = reply
    BY <1>5 DEF AddMachine
  <2>2. Locals' /\ OthersKeep(h)
    BY <2>1, Zenon DEF ClusterInv, Locals, OthersKeep
  <2>3. pc'[h] = "list" /\ req'[h] = r /\ listed'[h] = listed[h] /\ subnet'[h] = subnet[h] /\ reply'[h] = reply[h]
    BY <1>1, <2>1 DEF ClusterInv, Locals
  <2>4. AdderKnows(h)'
    BY <1>1, <2>3, Zenon DEF AdderKnows
  <2> QED
    BY <1>1, <1>3, <2>2, <2>4, HandlerSteps, Zenon
<1> QED
  BY <1>4, <1>5

\* The listing that add_machine works on is the whole table.
LEMMA ListMachinesStep ==
    ASSUME ClusterInv, MaxTruncated = 0, NEW h \in Adders, NEW rows, ListMachines(h, rows)
    PROVE  ClusterInv'
<1>1. h \in Handlers /\ AdderKnows(h) /\ pc[h] = "list"
  BY Zenon DEF Handlers, ClusterInv, ListMachines
<1>2. UNCHANGED <<machines, containers, ready, truncated>> /\ rows = machines
  <2>1. ListRows(rows) /\ truncated = 0
    BY Zenon DEF ListMachines, ClusterInv, Shared
  <2>2. truncated' = truncated /\ rows = machines
    BY <2>1 DEF ListRows
  <2> QED
    BY <2>2, Zenon DEF ListMachines, stores
<1>3. Shared' /\ machines' \subseteq machines
  BY <1>2 DEF ClusterInv, Shared
<1>4. CASE Duplicate(h, rows)
  <2>1. Return(h, "already exists")
    BY <1>4, Zenon DEF ListMachines
  <2> QED
    BY <1>1, <1>3, <2>1, HandlerReturns, Zenon
<1>5. CASE ~Duplicate(h, rows)
  <2>1. /\ pc' = [pc EXCEPT ![h] = "allocate"] /\ listed' = [listed EXCEPT ![h] = rows] /\ req' = req
        /\ subnet' = subnet /\ reply' = reply
    BY <1>5 DEF ListMachines
  <2>2. Locals' /\ OthersKeep(h)
    BY <2>1, Zenon DEF ClusterInv, Locals, OthersKeep
  <2>3. pc'[h] = "allocate" /\ req'[h] = req[h] /\ listed'[h] = rows /\ subnet'[h] = subnet[h] /\ reply'[h] = reply[h]
    BY <1>1, <2>1 DEF ClusterInv, Locals
  <2>4. AdderKnows(h)'
    <3>1. RowsAreSound(rows) /\ rows \subseteq Machines
      BY <1>2 DEF ClusterInv, Shared, RowsAreSound
    <3> QED
      BY <1>1, <1>2, <1>5, <2>3, <3>1, Zenon DEF AdderKnows, Duplicate
  <2> QED
    BY <1>1, <1>3, <2>2, <2>4, HandlerSteps, Zenon
<1> QED
  BY <1>4, <1>5

\* add_machine rebuilds the allocator from the listing and takes a subnet.
LEMMA AllocateStep ==
    ASSUME ClusterInv, ClusterConstants, NEW h \in Adders, AllocateFreeSubnet(h)
    PROVE  ClusterInv'
<1> DEFINE used == {m.subnet : m \in listed[h]}
           found == FirstFit(Masked(Network), used, SubnetBits)
<1>1. h \in Handlers /\ AdderKnows(h) /\ pc[h] = "allocate"
  BY Zenon DEF Handlers, ClusterInv, AllocateFreeSubnet
<1>2. UNCHANGED <<machines, containers, ready, truncated>>
  BY Zenon DEF AllocateFreeSubnet, stores
<1>3. Shared' /\ machines' \subseteq machines
  BY <1>2 DEF ClusterInv, Shared
<1>4. IpamRebuilds(listed[h])
  BY <1>1, Zenon DEF AdderKnows, RowsAreSound
<1>5. IF found = NoSubnet THEN Return(h, "no available subnet")
      ELSE /\ pc' = [pc EXCEPT ![h] = "create"] /\ subnet' = [subnet EXCEPT ![h] = found]
           /\ req' = req /\ listed' = listed /\ reply' = reply
  BY <1>4, Zenon DEF AllocateFreeSubnet
<1>6. found # NoSubnet => found \in AllPrefixes /\ Fits(Network, found) /\ IsFree(used, found)
  BY FoundSubnet, Zenon
<1> HIDE DEF found
<1>7. CASE found = NoSubnet
  BY <1>1, <1>3, <1>5, <1>7, HandlerReturns, Zenon
<1>8. CASE found # NoSubnet
  <2>1. /\ pc' = [pc EXCEPT ![h] = "create"] /\ subnet' = [subnet EXCEPT ![h] = found]
        /\ req' = req /\ listed' = listed /\ reply' = reply
    BY <1>5, <1>8
  <2>2. pc'[h] = "create" /\ req'[h] = req[h] /\ listed'[h] = listed[h] /\ subnet'[h] = found /\ reply'[h] = reply[h]
    BY <1>1, <2>1 DEF ClusterInv, Locals
  <2>3. AdderKnows(h)'
    BY <1>1, <1>2, <1>6, <1>8, <2>2, Zenon DEF AdderKnows, Duplicate
  <2>4. Locals' /\ OthersKeep(h)
    BY <2>1, Zenon DEF ClusterInv, Locals, OthersKeep
  <2> QED
    BY <1>1, <1>3, <2>3, <2>4, HandlerSteps, Zenon
<1> QED
  BY <1>7, <1>8

\* The row that add_machine writes still fits: nobody else writes rows, and the
\* rows removed meanwhile only leave more room.
LEMMA CreateStep ==
    ASSUME ClusterInv, \A g, h \in Adders : g = h, NEW h \in Adders, NEW id \in Ids, CreateMachine(h, id)
    PROVE  ClusterInv'
<1> DEFINE row == [id |-> id, name |-> req[h].name, key |-> req[h].key, subnet |-> subnet[h]]
<1>1. h \in Handlers /\ AdderKnows(h) /\ pc[h] = "create"
  BY DEF Handlers, ClusterInv, CreateMachine
<1>2. machines' = machines \cup {row} /\ containers' = containers /\ ready' = ready /\ truncated' = truncated
  BY DEF CreateMachine
<1>3. PICK status \in {"ok", "internal"} : Return(h, status)
  BY Zenon DEF CreateMachine
<1>4. /\ req[h] \in [name : Names, key : Keys] /\ machines \subseteq listed[h] /\ RowsAreSound(listed[h])
      /\ ~Duplicate(h, listed[h]) /\ subnet[h] \in AllPrefixes /\ Fits(Network, subnet[h])
      /\ IsFree({m.subnet : m \in listed[h]}, subnet[h]) /\ RowsAreSound(machines)
  BY <1>1, Zenon DEF AdderKnows, ClusterInv, Shared
<1>5. row \in Machines /\ row.name = req[h].name /\ row.key = req[h].key /\ row.subnet = subnet[h]
  BY <1>4, Zenon DEF Machines
<1> HIDE DEF row
<1>6. \A m \in machines : m.name # row.name /\ m.key # row.key
  BY <1>4, <1>5, Zenon DEF Duplicate
<1>7. \A m \in machines : ~Overlaps(m.subnet, row.subnet) /\ ~Overlaps(row.subnet, m.subnet)
  <2>1. \A m \in machines : ~Overlaps(m.subnet, row.subnet)
    BY <1>4, <1>5, Zenon DEF IsFree
  <2> QED
    BY <2>1, Zenon DEF Overlaps
<1>8. RowsAreSound(machines')
  <2>1. machines' \subseteq Machines
    BY <1>2, <1>4, <1>5 DEF RowsAreSound
  <2>2. IpamRebuilds(machines')
    BY <1>2, <1>4, <1>5, <1>7, Zenon DEF RowsAreSound, IpamRebuilds
  <2>3. \A m, n \in machines' : m # n => m.name # n.name /\ m.key # n.key
    BY <1>2, <1>4, <1>6, Zenon DEF RowsAreSound
  <2> QED
    BY <2>1, <2>2, <2>3 DEF RowsAreSound
<1>9. Shared'
  BY <1>2, <1>8 DEF Shared, ClusterInv
<1>10. \A g \in Handlers \ {h} : pc[g] \in {"allocate", "create"} => machines' \subseteq machines
  BY Zenon DEF ClusterInv, AdderKnows
<1> QED
  BY <1>1, <1>3, <1>9, <1>10, HandlerReturns, Zenon

\* A write that fails leaves the table alone.
LEMMA CreateFailsStep ==
    ASSUME ClusterInv, NEW h \in Adders, CreateMachineFails(h)
    PROVE  ClusterInv'
<1>1. h \in Handlers /\ Return(h, "internal")
  BY Zenon DEF Handlers, CreateMachineFails
<1>2. UNCHANGED <<machines, containers, ready, truncated>>
  BY DEF CreateMachineFails, stores
<1>3. Shared' /\ machines' \subseteq machines
  BY <1>2 DEF ClusterInv, Shared
<1> QED
  BY <1>1, <1>3, HandlerReturns, Zenon

\* remove_machine deletes the containers of the machine.
LEMMA RemoveStep ==
    ASSUME ClusterInv, ClusterConstants, NEW h \in Removers, NEW id \in Ids, RemoveMachine(h, id)
    PROVE  ClusterInv'
<1>1. h \in Handlers /\ AdderKnows(h)
  BY DEF Handlers, ClusterInv
<1>2. UNCHANGED <<machines, ready, truncated>> /\ containers' \subseteq containers
  BY DEF RemoveMachine
<1>3. Shared' /\ machines' \subseteq machines
  BY <1>2 DEF ClusterInv, Shared
<1>4. CASE ~ready
  <2>1. Return(h, "unavailable")
    BY <1>4, Zenon DEF RemoveMachine
  <2> QED
    BY <1>1, <1>3, <2>1, HandlerReturns, Zenon
<1>5. CASE ready
  <2>1. pc' = [pc EXCEPT ![h] = id] /\ UNCHANGED <<req, listed, subnet, reply>>
    BY <1>5 DEF RemoveMachine
  <2>2. Locals' /\ OthersKeep(h)
    BY <2>1, Zenon DEF ClusterInv, Locals, OthersKeep
  <2>3. pc'[h] = id /\ id \notin {"list", "allocate", "create"}
    BY <1>1, <2>1 DEF ClusterInv, Locals, ClusterConstants
  <2>4. AdderKnows(h)'
    BY <1>1, <2>1, <2>3, Zenon DEF AdderKnows
  <2> QED
    BY <1>1, <1>3, <2>2, <2>4, HandlerSteps, Zenon
<1> QED
  BY <1>4, <1>5

\* remove_machine deletes the row, which only takes rows away.
LEMMA DeleteStep ==
    ASSUME ClusterInv, NEW h \in Removers, DeleteMachine(h)
    PROVE  ClusterInv'
<1>1. h \in Handlers
  BY DEF Handlers
<1>2. machines' \subseteq machines /\ containers' = containers /\ ready' = ready /\ truncated' = truncated
  BY Zenon DEF DeleteMachine
<1>3. PICK status \in {"not found", "ok", "internal"} : Return(h, status)
  BY Zenon DEF DeleteMachine
<1>4. Shared'
  BY <1>2, FewerRows, Zenon DEF ClusterInv, Shared
<1> QED
  BY <1>1, <1>2, <1>3, <1>4, HandlerReturns, Zenon

\* The store gets ready, a machine records a container.
LEMMA OtherSteps ==
    ASSUME ClusterInv, SignalReady \/ (\E m \in machines : StoreContainer(m)) \/ UNCHANGED vars
    PROVE  ClusterInv'
<1>1. UNCHANGED <<machines, pc, req, listed, subnet, reply, truncated>>
  BY DEF SignalReady, StoreContainer, vars, stores
<1>2. containers' \subseteq Ids /\ ready' \in BOOLEAN
  BY Zenon DEF SignalReady, StoreContainer, vars, stores, ClusterInv, Shared, RowsAreSound, Machines
<1>3. Shared' /\ Locals'
  BY <1>1, <1>2 DEF ClusterInv, Shared, Locals
<1>4. ASSUME NEW h \in Handlers PROVE AdderKnows(h)'
  BY <1>1, OthersKnow DEF ClusterInv
<1> QED
  BY <1>3, <1>4 DEF ClusterInv

\* With one add_machine at a time and whole listings, for any network, subnet
\* size, number of machines and of removals between the steps of an add: subnets,
\* names and keys of the members are unique, the rows always rebuild an allocator,
\* and add_machine never fails on its own table (Cluster::add_machine). Without
\* either hypothesis the runs show two machines with one subnet.
THEOREM MembersAlwaysUnique ==
    ASSUME ClusterConstants, \A g, h \in Adders : g = h, MaxTruncated = 0
    PROVE  Spec => [](UniqueSubnets /\ MembersAreSound)
<1>1. Init => ClusterInv
  BY ClusterStarts
<1>2. ClusterInv /\ [Next]_vars => ClusterInv'
  <2> SUFFICES ASSUME ClusterInv, [Next]_vars PROVE ClusterInv'
    OBVIOUS
  <2>1. ASSUME NEW h \in Adders, NEW r \in [name : Names, key : Keys], AddMachine(h, r) PROVE ClusterInv'
    BY <2>1, AddMachineStep
  <2>2. ASSUME NEW h \in Adders, NEW rows, ListMachines(h, rows) PROVE ClusterInv'
    BY <2>2, ListMachinesStep
  <2>3. ASSUME NEW h \in Adders, AllocateFreeSubnet(h) PROVE ClusterInv'
    BY <2>3, AllocateStep
  <2>4. ASSUME NEW h \in Adders, NEW id \in Ids, CreateMachine(h, id) PROVE ClusterInv'
    BY <2>4, CreateStep, Zenon
  <2>5. ASSUME NEW h \in Adders, CreateMachineFails(h) PROVE ClusterInv'
    BY <2>5, CreateFailsStep
  <2>6. ASSUME NEW h \in Removers, NEW id \in Ids, RemoveMachine(h, id) PROVE ClusterInv'
    BY <2>6, RemoveStep
  <2>7. ASSUME NEW h \in Removers, DeleteMachine(h) PROVE ClusterInv'
    BY <2>7, DeleteStep
  <2> QED
    BY <2>1, <2>2, <2>3, <2>4, <2>5, <2>6, <2>7, OtherSteps, Zenon DEF Next
<1>3. ClusterInv => UniqueSubnets /\ MembersAreSound
  <2> SUFFICES ASSUME ClusterInv PROVE UniqueSubnets /\ MembersAreSound
    OBVIOUS
  <2>1. UniqueSubnets /\ UniqueMachines
    BY DEF ClusterInv, Shared, RowsAreSound, IpamRebuilds, UniqueSubnets, UniqueMachines
  <2>2. TypeOK
    BY Zenon DEF ClusterInv, Shared, RowsAreSound, AdderKnows, TypeOK
  <2>3. IpamAlwaysRebuilds
    BY Zenon DEF ClusterInv, AdderKnows, IpamAlwaysRebuilds, Handlers
  <2> QED
    BY <2>1, <2>2, <2>3 DEF MembersAreSound
<1> QED
  BY <1>1, <1>2, <1>3, PTL DEF Spec

-----------------------------------------------------------------------------
\* The connections with a handler, and the permit the accept loop holds.
LiveConns == {c \in Conns : Live(c)}
InHand == IF permit THEN 1 ELSE 0

\* What the loop has given up once it stops accepting.
StoppedIsClosed ==
    /\ loop \in {"join", "ok", "error", "panicked"} => ~listening /\ ~permit
    /\ (permit => loop = "accept") /\ (loop = "accept" => permit)

\* Before run and after it nothing is alive.
NothingOutside ==
    loop \in {"idle", "ok", "error", "panicked", "dropped"} =>
        \A c \in Conns : ~Live(c) /\ ~Joinable(c)

\* The result tells of a panic.
PanicIsTold == loop \in {"ok", "error", "panicked"} => (loop = "panicked") = panic

\* The invariant of the proxy.
ProxyInv ==
    /\ ProxyTypeOK /\ PermitsAccounted
    /\ StoppedIsClosed /\ NothingOutside /\ PanicIsTold

\* A handler that begins or ends changes the number of live ones by one.
LEMMA LiveCount ==
    /\ IsFiniteSet(LiveConns) /\ Cardinality(LiveConns) \in Nat
    /\ \A c \in Conns : c \notin LiveConns =>
          Cardinality(LiveConns \cup {c}) = Cardinality(LiveConns) + 1
    /\ \A c \in LiveConns : Cardinality(LiveConns \ {c}) = Cardinality(LiveConns) - 1
<1>1. IsFiniteSet(LiveConns)
  BY ProxyAssumption, FS_Subset DEF LiveConns
<1> QED
  BY <1>1, FS_CardinalityType, FS_AddElement, FS_RemoveElement

\* The count of permits as a sum of three numbers.
LEMMA Accounted ==
    ASSUME ProxyTypeOK
    PROVE  PermitsAccounted <=> (capacity + InHand + Cardinality(LiveConns) = max_connections)
BY DEF PermitsAccounted, InHand, LiveConns

\* A step that moves no permit and starts or ends no handler keeps the count.
LEMMA SameCount ==
    ASSUME ProxyInv, UNCHANGED <<capacity, permit>>, LiveConns' = LiveConns
    PROVE  PermitsAccounted'
BY DEF ProxyInv, PermitsAccounted, LiveConns

\* Before run every permit is with the semaphore.
LEMMA ProxyInitInv == ProxyInit => ProxyInv
<1> SUFFICES ASSUME ProxyInit PROVE ProxyInv
  OBVIOUS
<1>1. ProxyTypeOK
  <2>1. context \in BOOLEAN /\ listening \in BOOLEAN /\ permit \in BOOLEAN
        /\ panic \in BOOLEAN /\ run_error \in BOOLEAN
    BY Zenon DEF ProxyInit
  <2>2. loop \in Loops /\ capacity \in 0..max_connections
    BY ProxyAssumption DEF ProxyInit, Loops
  <2>3. conn \in [Conns -> Stages] /\ copying \in [Conns -> SUBSET Directions]
    BY DEF ProxyInit, Stages
  <2> QED
    BY <2>1, <2>2, <2>3 DEF ProxyTypeOK
<1>2. StoppedIsClosed /\ NothingOutside /\ PanicIsTold
  BY DEF ProxyInit, StoppedIsClosed, NothingOutside, PanicIsTold, Live, Joinable
<1>3. {c \in Conns : Live(c)} = {}
  BY DEF ProxyInit, Live
<1>4. PermitsAccounted
  BY <1>3, ProxyAssumption, FS_EmptySet DEF ProxyInit, PermitsAccounted
<1> QED
  BY <1>1, <1>2, <1>4 DEF ProxyInv

\* A handler that ends takes its permit back to the semaphore.
LEMMA FinishKeeps ==
    ASSUME ProxyInv, NEW c \in Conns, NEW stage \in {"ended", "panicked"},
           Live(c), Finish(c, stage)
    PROVE  ProxyInv'
<1> USE DEF ProxyInv
<1>1. conn' = [conn EXCEPT ![c] = stage] /\ capacity' = capacity + 1
      /\ copying' = [copying EXCEPT ![c] = {}]
  BY DEF Finish
<1>2. LiveConns' = LiveConns \ {c} /\ c \in LiveConns
  BY <1>1 DEF ProxyTypeOK, LiveConns, Live, Stages
<1>3. Cardinality(LiveConns') = Cardinality(LiveConns) - 1
  BY <1>2, LiveCount
<1>4. Cardinality(LiveConns') \in Nat
  <2>1. IsFiniteSet(LiveConns \ {c})
    BY LiveCount, FS_Subset
  <2> QED
    BY <2>1, <1>2, FS_CardinalityType
<1>5. capacity' + InHand' + Cardinality(LiveConns') = max_connections
      /\ capacity' \in 0..max_connections
  BY <1>1, <1>3, <1>4, LiveCount, Accounted, ProxyAssumption DEF ProxyTypeOK, InHand, Finish
<1>6. ProxyTypeOK'
  BY <1>1, <1>5 DEF ProxyTypeOK, Finish, Stages
<1>7. PermitsAccounted'
  BY <1>5 DEF PermitsAccounted, InHand, LiveConns
<1>8. StoppedIsClosed' /\ PanicIsTold'
  BY DEF Finish, StoppedIsClosed, PanicIsTold
<1>9. NothingOutside'
  BY DEF NothingOutside, Finish
<1> QED
  BY <1>6, <1>7, <1>8, <1>9

\* The accept loop gives back what it holds when it turns to something else.
LEMMA ReturnKeeps ==
    ASSUME ProxyInv, ReturnPermit, permit' = FALSE, LiveConns' = LiveConns
    PROVE  PermitsAccounted' /\ capacity' \in 0..max_connections
<1>1. capacity' + InHand' + Cardinality(LiveConns) = max_connections
  BY LiveCount, Accounted, ProxyAssumption DEF ProxyInv, ProxyTypeOK, ReturnPermit, InHand
<1>2. capacity' \in Nat
  BY ProxyAssumption DEF ProxyInv, ProxyTypeOK, ReturnPermit
<1>3. PermitsAccounted'
  BY <1>1 DEF PermitsAccounted, InHand, LiveConns
<1>4. capacity' \in 0..max_connections
  BY <1>1, <1>2, LiveCount, ProxyAssumption DEF InHand
<1> QED
  BY <1>3, <1>4

\* The loop's steps on its permit: taking one, handing it to a connection.
LEMMA AcquireKeeps == ProxyInv /\ AcquirePermit => ProxyInv'
<1> SUFFICES ASSUME ProxyInv, AcquirePermit PROVE ProxyInv'
  OBVIOUS
<1> USE DEF ProxyInv, AcquirePermit
<1>1. ~permit /\ LiveConns' = LiveConns
  BY DEF StoppedIsClosed, LiveConns, Live
<1>2. capacity' + 1 + Cardinality(LiveConns) = max_connections /\ capacity' \in 0..max_connections
  BY <1>1, LiveCount, Accounted, ProxyAssumption DEF ProxyTypeOK, InHand
<1>3. PermitsAccounted'
  BY <1>1, <1>2 DEF PermitsAccounted, LiveConns
<1>4. ProxyTypeOK'
  <2>1. permit' \in BOOLEAN
    BY Zenon
  <2> QED
    BY <1>2, <2>1 DEF ProxyTypeOK, Loops
<1>5. StoppedIsClosed' /\ PanicIsTold' /\ NothingOutside'
  BY DEF StoppedIsClosed, PanicIsTold, NothingOutside
<1> QED
  BY <1>3, <1>4, <1>5

\* The loop accepts a connection and hands its permit to the handler.
LEMMA AcceptKeeps ==
    ASSUME ProxyInv, NEW c \in Conns, AcceptConnection(c)
    PROVE  ProxyInv'
<1> USE DEF ProxyInv, AcceptConnection
<1>1. permit /\ ~permit' /\ capacity' = capacity
  BY DEF StoppedIsClosed
<1>2. LiveConns' = LiveConns \cup {c} /\ c \notin LiveConns
  BY DEF ProxyTypeOK, LiveConns, Live, Backlogged
<1>3. Cardinality(LiveConns') = Cardinality(LiveConns) + 1
  BY <1>2, LiveCount
<1>4. capacity' + Cardinality(LiveConns') = max_connections
  BY <1>1, <1>3, LiveCount, Accounted, ProxyAssumption DEF ProxyTypeOK, InHand
<1>5. PermitsAccounted'
  <2>1. Cardinality(LiveConns') \in Nat
    BY <1>3, LiveCount
  <2> QED
    BY <1>1, <1>4, <2>1 DEF PermitsAccounted, LiveConns, ProxyTypeOK
<1>6. ProxyTypeOK'
  <2>1. permit' \in BOOLEAN
    BY Zenon
  <2> QED
    BY <2>1 DEF ProxyTypeOK, Loops, Stages
<1>7. StoppedIsClosed' /\ PanicIsTold' /\ NothingOutside'
  BY DEF StoppedIsClosed, PanicIsTold, NothingOutside
<1> QED
  BY <1>5, <1>6, <1>7

\* The loop stops accepting: a failed accept or a cancellation it observes.
LEMMA StopKeeps == ProxyInv /\ (AcceptFails \/ ObserveCancel) => ProxyInv'
<1> SUFFICES ASSUME ProxyInv, AcceptFails \/ ObserveCancel PROVE ProxyInv'
  OBVIOUS
<1> USE DEF ProxyInv, AcceptFails, ObserveCancel, StopAccepting, CloseListener
<1>1. permit' = FALSE /\ ReturnPermit /\ LiveConns' = LiveConns
  BY DEF LiveConns, Live
<1>2. PermitsAccounted' /\ capacity' \in 0..max_connections
  BY <1>1, ReturnKeeps
<1>3. ProxyTypeOK'
  <2>1. context' \in BOOLEAN /\ listening' \in BOOLEAN /\ permit' \in BOOLEAN
    BY Zenon
  <2>2. run_error' \in BOOLEAN
    BY Zenon DEF ProxyTypeOK
  <2> QED
    BY <1>2, <2>1, <2>2 DEF ProxyTypeOK, Loops
<1>4. StoppedIsClosed' /\ PanicIsTold' /\ NothingOutside'
  BY DEF StoppedIsClosed, PanicIsTold, NothingOutside
<1> QED
  BY <1>2, <1>3, <1>4

\* A handler that has ended is joined.
LEMMA JoinNextKeeps ==
    ASSUME ProxyInv, NEW c \in Conns, JoinNext(c)
    PROVE  ProxyInv'
<1> USE DEF ProxyInv, JoinNext, StopAccepting, CloseListener
<1>1. permit' = FALSE /\ ReturnPermit
  BY Zenon
<1>2. LiveConns' = LiveConns
  BY DEF LiveConns, Live, Joinable, ProxyTypeOK
<1>3. PermitsAccounted' /\ capacity' \in 0..max_connections
  BY <1>1, <1>2, ReturnKeeps
<1>4. ProxyTypeOK'
  <2>1. permit' \in BOOLEAN /\ panic' \in BOOLEAN
    BY <1>1, Zenon DEF RecordJoinResult
  <2>2. context' \in BOOLEAN /\ listening' \in BOOLEAN
    BY Zenon DEF ProxyTypeOK
  <2>3. conn' \in [Conns -> Stages] /\ loop' \in Loops
    BY DEF ProxyTypeOK, Stages, Loops
  <2> QED
    BY <1>3, <2>1, <2>2, <2>3 DEF ProxyTypeOK
<1>5. (loop' = "join" /\ ~listening') \/ loop' = "acquire"
  BY Zenon
<1>6. StoppedIsClosed' /\ PanicIsTold' /\ NothingOutside'
  BY <1>1, <1>5 DEF StoppedIsClosed, PanicIsTold, NothingOutside
<1> QED
  BY <1>3, <1>4, <1>6

\* The loop joins the handlers that are left, and returns when there is none.
LEMMA JoinRemainingKeeps ==
    ASSUME ProxyInv, NEW c \in Conns, JoinRemaining(c)
    PROVE  ProxyInv'
<1> USE DEF ProxyInv, JoinRemaining
<1>1. LiveConns' = LiveConns
  BY DEF LiveConns, Live, Joinable, ProxyTypeOK
<1>2. PermitsAccounted'
  BY <1>1, SameCount
<1>3. ProxyTypeOK'
  <2>1. panic' \in BOOLEAN
    BY Zenon DEF RecordJoinResult
  <2> QED
    BY <2>1 DEF ProxyTypeOK, Stages
<1>4. StoppedIsClosed' /\ PanicIsTold' /\ NothingOutside'
  BY DEF StoppedIsClosed, PanicIsTold, NothingOutside
<1> QED
  BY <1>2, <1>3, <1>4

\* run returns with what it has recorded.
LEMMA ReturnFromRunKeeps == ProxyInv /\ ReturnFromRun => ProxyInv'
<1> SUFFICES ASSUME ProxyInv, ReturnFromRun PROVE ProxyInv'
  OBVIOUS
<1> USE DEF ProxyInv, ReturnFromRun
<1>1. LiveConns' = LiveConns
  BY DEF LiveConns, Live
<1>2. PermitsAccounted'
  BY <1>1, SameCount
<1>3. loop' \in {"ok", "error", "panicked"} /\ (loop' = "panicked" <=> panic)
  BY DEF ProxyTypeOK
<1>4. ProxyTypeOK'
  BY <1>3 DEF ProxyTypeOK, Loops
<1>5. StoppedIsClosed' /\ NothingOutside'
  BY <1>3 DEF StoppedIsClosed, NothingOutside, Live, Joinable
<1>6. PanicIsTold'
  BY <1>3 DEF PanicIsTold, ProxyTypeOK
<1> QED
  BY <1>2, <1>4, <1>5, <1>6

\* A dropped run leaves no task and no permit outstanding.
LEMMA DropRunKeeps == ProxyInv /\ DropRun => ProxyInv'
<1> SUFFICES ASSUME ProxyInv, DropRun PROVE ProxyInv'
  OBVIOUS
<1> USE DEF ProxyInv, DropRun
<1>1. \A c \in Conns : conn'[c] \notin {"dial", "copy", "ended", "panicked"}
  BY DEF Live, Joinable, ProxyTypeOK, Stages
<1>2. {c \in Conns : Live(c)}' = {}
  BY <1>1 DEF Live
<1>3. PermitsAccounted'
  BY <1>2, FS_EmptySet, ProxyAssumption DEF PermitsAccounted
<1>4. ProxyTypeOK'
  <2>1. permit' \in BOOLEAN
    BY Zenon
  <2>2. conn' \in [Conns -> Stages] /\ copying' \in [Conns -> SUBSET Directions]
    BY DEF ProxyTypeOK, Stages
  <2>3. capacity' \in 0..max_connections /\ loop' \in Loops
    BY ProxyAssumption DEF Loops
  <2> QED
    BY <2>1, <2>2, <2>3 DEF ProxyTypeOK
<1>5. StoppedIsClosed' /\ PanicIsTold' /\ NothingOutside'
  BY <1>1 DEF StoppedIsClosed, PanicIsTold, NothingOutside, Live, Joinable
<1> QED
  BY <1>3, <1>4, <1>5

\* The steps that move no permit.
LEMMA QuietKeeps ==
    ASSUME ProxyInv, RunProxy \/ CancelRun \/ UNCHANGED proxyVars
    PROVE  ProxyInv'
<1> USE DEF ProxyInv, RunProxy, CancelRun, Running, proxyVars
<1>1. LiveConns' = LiveConns /\ UNCHANGED <<capacity, permit>>
  BY DEF LiveConns, Live
<1>2. PermitsAccounted'
  BY <1>1, SameCount
<1>3. ProxyTypeOK'
  <2>1. context' \in BOOLEAN
    BY Zenon DEF ProxyTypeOK
  <2> QED
    BY <2>1 DEF ProxyTypeOK, Loops
<1>4. StoppedIsClosed' /\ PanicIsTold' /\ NothingOutside'
  BY DEF StoppedIsClosed, PanicIsTold, NothingOutside, Live, Joinable
<1> QED
  BY <1>2, <1>3, <1>4

\* What a connection does without ending leaves the accounts alone.
LEMMA QuietConnKeeps ==
    ASSUME ProxyInv, NEW c \in Conns, Arrive(c) \/ DialSucceeds(c)
    PROVE  ProxyInv'
<1> USE DEF ProxyInv, Arrive, DialSucceeds
<1>1. LiveConns' = LiveConns /\ UNCHANGED <<capacity, permit>>
  BY DEF LiveConns, Live, ProxyTypeOK
<1>2. PermitsAccounted'
  BY <1>1, SameCount
<1>3. ProxyTypeOK'
  BY DEF ProxyTypeOK, Stages
<1>4. StoppedIsClosed' /\ PanicIsTold'
  BY DEF StoppedIsClosed, PanicIsTold
<1>5. NothingOutside'
  BY DEF NothingOutside, Live, Joinable, ProxyTypeOK
<1> QED
  BY <1>2, <1>3, <1>4, <1>5

\* One side of a connection ends; the handler ends with the second.
LEMMA EofKeeps ==
    ASSUME ProxyInv, NEW c \in Conns, NEW d \in Directions, CopyMeetsEof(c, d)
    PROVE  ProxyInv'
<1>1. CASE Finish(c, "ended")
  BY <1>1, FinishKeeps DEF CopyMeetsEof, Live
<1>2. CASE /\ copying' = [copying EXCEPT ![c] = @ \ {d}]
           /\ UNCHANGED <<loop, context, listening, capacity, permit, conn, panic, run_error>>
  <2> USE <1>2 DEF ProxyInv
  <2>1. LiveConns' = LiveConns /\ UNCHANGED <<capacity, permit>>
    BY DEF LiveConns, Live
  <2>2. PermitsAccounted'
    BY <2>1, SameCount
  <2>3. ProxyTypeOK'
    BY DEF ProxyTypeOK
  <2>4. StoppedIsClosed' /\ PanicIsTold' /\ NothingOutside'
    BY DEF StoppedIsClosed, PanicIsTold, NothingOutside, Live, Joinable
  <2> QED
    BY <2>2, <2>3, <2>4
<1> QED
  BY <1>1, <1>2 DEF CopyMeetsEof

\* Every step of the loop, its handlers and its clients keeps the invariant.
LEMMA ProxyStep == ProxyInv /\ [ProxyNext]_proxyVars => ProxyInv'
<1> SUFFICES ASSUME ProxyInv, [ProxyNext]_proxyVars PROVE ProxyInv'
  OBVIOUS
<1>1. CASE RunProxy \/ CancelRun \/ UNCHANGED proxyVars
  BY <1>1, QuietKeeps
<1>2. CASE AcceptFails \/ ObserveCancel
  BY <1>2, StopKeeps
<1>3. CASE AcquirePermit \/ ReturnFromRun \/ DropRun
  BY <1>3, AcquireKeeps, ReturnFromRunKeeps, DropRunKeeps
<1>4. ASSUME NEW c \in Conns, AcceptConnection(c) \/ JoinNext(c) \/ JoinRemaining(c)
      PROVE  ProxyInv'
  BY <1>4, AcceptKeeps, JoinNextKeeps, JoinRemainingKeeps
<1>5. ASSUME NEW c \in Conns, Arrive(c) \/ DialSucceeds(c)
      PROVE  ProxyInv'
  BY <1>5, QuietConnKeeps
<1>6. ASSUME NEW c \in Conns, DialEnds(c) \/ CopyFails(c) \/ CopyCancelled(c) \/ HandlerPanics(c)
      PROVE  ProxyInv'
  BY <1>6, FinishKeeps DEF DialEnds, CopyFails, CopyCancelled, HandlerPanics, Live
<1>7. ASSUME NEW c \in Conns, NEW d \in Directions, CopyMeetsEof(c, d)
      PROVE  ProxyInv'
  BY <1>7, EofKeeps
<1> QED
  BY <1>1, <1>2, <1>3, <1>4, <1>5, <1>6, <1>7 DEF ProxyNext, AcceptLoop

\* The inductive invariant gives both halves: with nothing alive and no permit
\* in hand the semaphore is full.
LEMMA ProxyInvAccounted == ProxyInv => ProxyIsAccounted
<1> SUFFICES ASSUME ProxyInv, loop \in {"ok", "error", "panicked"}
             PROVE  DrainedAtReturn
  BY DEF ProxyIsAccounted, ProxyInv, DrainedAtReturn
<1> USE DEF ProxyInv
<1>1. {c \in Conns : Live(c)} = {}
  BY DEF NothingOutside
<1>2. capacity = max_connections
  BY <1>1, FS_EmptySet, ProxyAssumption DEF PermitsAccounted, StoppedIsClosed, ProxyTypeOK
<1>3. \A c \in Conns : conn[c] \in {"new", "backlog", "joined"}
  BY DEF NothingOutside, Live, Joinable, ProxyTypeOK, Stages
<1> QED
  BY <1>2, <1>3 DEF DrainedAtReturn, StoppedIsClosed, PanicIsTold

\* For any number of clients and any capacity of the semaphore: run's selects
\* lose no permit and release none twice, and when run has returned, or unwinds
\* with a handler's panic, the listener is closed, every handler is joined and
\* every permit is back (proxy.rs:263-345).
THEOREM ProxyAlwaysAccounted == ProxySpec => []ProxyIsAccounted
<1>1. ProxySpec => []ProxyInv
  BY ProxyInitInv, ProxyStep, PTL DEF ProxySpec
<1> QED
  BY <1>1, ProxyInvAccounted, PTL
=============================================================================
