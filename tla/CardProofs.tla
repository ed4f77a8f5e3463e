----------------------------- MODULE CardProofs -----------------------------
(***************************************************************************)
(* Proofs about the recordings on the card: the space that is made for     *)
(* them (CycFiles), what is read of one (AviReader), and the list of them  *)
(* that the phones see (MediaFileList); before these, induction over the   *)
(* numbers and the arithmetic that the proofs of all the parts share.      *)
(***************************************************************************)
EXTENDS CycFiles, AviReader, MediaFileList, FiniteSetTheorems,
        WellFoundedInduction, TLAPS

-----------------------------------------------------------------------------
(* Induction.  The library's induction rules have an operator for a        *)
(* parameter; these have a set.                                            *)

Less == {p \in Nat \X Nat : p[1] < p[2]}

LEMMA LeastNumber ==
  ASSUME NEW T, T \subseteq Nat, T # {}
  PROVE  \E x \in T : \A y \in T : x <= y
  <1>1. IsWellFoundedOn(Less, Nat)
    BY NatLessThanWellFounded DEF OpToRel, Less
  <1>2. \E x \in T : \A y \in T : <<y, x>> \notin Less
    BY <1>1, WFMin
  <1>3. \A x \in Nat, y \in Nat : <<y, x>> \notin Less => x <= y
    BY DEF Less
  <1> QED BY <1>2, <1>3

\* T holds m, and every number up to n if the one before it: then all of them.
Upward(m, n, T) == m \in T /\ \A k \in (m + 1)..n : k - 1 \in T => k \in T

LEMMA Induction ==
  ASSUME NEW m \in Int, NEW n \in Int, NEW T, Upward(m, n, T)
  PROVE  m..n \subseteq T
  <1> DEFINE Fails == {d \in Nat : m + d <= n /\ m + d \notin T}
  <1>1. SUFFICES ASSUME Fails # {} PROVE FALSE
    <2> SUFFICES ASSUME NEW k \in m..n, k \notin T PROVE FALSE
      OBVIOUS
    <2>1. k - m \in Fails
      OBVIOUS
    <2> QED BY <1>1, <2>1
  <1>2. PICK d \in Fails : \A e \in Fails : d <= e
    <2>1. Fails \subseteq Nat
      OBVIOUS
    <2> HIDE DEF Fails
    <2> QED BY <1>1, <2>1, LeastNumber
  <1>3. d - 1 \in Nat /\ d - 1 \notin Fails
    BY <1>2 DEF Upward
  <1>4. m + d - 1 \in T
    BY <1>3
  <1> QED BY <1>2, <1>4 DEF Upward

\* A function of m..n that starts with b and goes on as g says, which stays in S.
Steps(m, n, S, g) == \A i \in (m + 1)..n : \A x \in S : g[i][x] \in S
Runs(f, m, n, S, b, g) ==
    f \in [m..n -> S] /\ f[m] = b /\ \A i \in (m + 1)..n : f[i] = g[i][f[i - 1]]

\* There is one.
LEMMA Recursion ==
  ASSUME NEW m \in Int, NEW n \in Int, m <= n, NEW S, NEW b \in S, NEW g,
         Steps(m, n, S, g)
  PROVE  \E f : Runs(f, m, n, S, b, g)
  <1> DEFINE Good == {k \in m..n : \E f : Runs(f, m, k, S, b, g)}
  <1>1. m \in Good
    <2>1. Runs([i \in m..m |-> b], m, m, S, b, g)
      BY DEF Runs
    <2> QED BY <2>1
  <1>2. ASSUME NEW k \in (m + 1)..n, k - 1 \in Good PROVE k \in Good
    <2>1. PICK f : Runs(f, m, k - 1, S, b, g)
      BY <1>2
    <2> DEFINE h == [i \in m..k |-> IF i = k THEN g[k][f[k - 1]] ELSE f[i]]
    <2>2. g[k][f[k - 1]] \in S
      BY <2>1 DEF Runs, Steps
    <2>3. h \in [m..k -> S]
      BY <2>1, <2>2 DEF Runs
    <2>4. h[m] = b
      BY <2>1 DEF Runs
    <2>5. ASSUME NEW i \in (m + 1)..k PROVE h[i] = g[i][h[i - 1]]
      <3>1. CASE i = k
        BY <3>1
      <3>2. CASE i < k
        <4>1. h[i] = f[i] /\ h[i - 1] = f[i - 1] /\ i \in (m + 1)..(k - 1)
          BY <3>2
        <4> QED BY <2>1, <4>1 DEF Runs
      <3> QED BY <3>1, <3>2
    <2>6. Runs(h, m, k, S, b, g)
      BY <2>3, <2>4, <2>5 DEF Runs
    <2> QED BY <2>6
  <1>3. m..n \subseteq Good
    <2>1. Upward(m, n, Good)
      BY <1>1, <1>2 DEF Upward
    <2> HIDE DEF Good
    <2> QED BY <2>1, Induction
  <1>4. n \in Good
    BY <1>3
  <1> QED BY <1>4

-----------------------------------------------------------------------------
(* Division. *)

LEMMA Division ==
    ASSUME NEW n \in Int, n > 0, NEW x \in Int
    PROVE  /\ x = n * (x \div n) + (x % n)
           /\ x \div n \in Int /\ x % n \in Int /\ 0 <= x % n /\ x % n < n
  BY Z3

\* A multiple of n between -n and n is 0.
LEMMA SmallMultiple ==
    ASSUME NEW n \in Nat \ {0}, NEW a \in Int, 0 - n < n * a, n * a < n
    PROVE  a = 0
  <1>1. CASE a = 0
    BY <1>1
  <1>2. CASE a >= 1
    <2>1. n * a >= n
      BY <1>2
    <2> QED BY <2>1
  <1>3. CASE a <= -1
    <2>1. n * a <= 0 - n
      BY <1>3
    <2> QED BY <2>1
  <1> QED BY <1>1, <1>2, <1>3

\* There is one quotient and one rest.
LEMMA Quotient ==
    ASSUME NEW n \in Nat \ {0}, NEW x \in Int, NEW q \in Int, NEW r \in Int,
           0 <= r, r < n, x = n * q + r
    PROVE  x \div n = q /\ x % n = r
  <1> DEFINE d == x \div n
             s == x % n
  <1>1. d \in Int /\ s \in Int /\ 0 <= s /\ s < n /\ x = n * d + s
    BY Division
  <1> HIDE DEF d, s
  <1>2. n * (q - d) = s - r
    BY <1>1
  <1>3. q - d = 0
    <2>1. 0 - n < s - r /\ s - r < n
      BY <1>1
    <2> QED BY <1>1, <1>2, <2>1, SmallMultiple
  <1>4. d = q /\ s = r
    BY <1>1, <1>3
  <1> QED BY <1>4 DEF d, s

LEMMA MultipleMod ==
    ASSUME NEW n \in Nat \ {0}, NEW q \in Int, NEW x \in Nat, x = q * n
    PROVE  x % n = 0
  <1>1. x = n * q + 0
    OBVIOUS
  <1> QED BY <1>1, Quotient

LEMMA SmallMod ==
    ASSUME NEW n \in Nat \ {0}, NEW x \in Nat, x < n
    PROVE  x % n = x
  <1>1. x = n * 0 + x
    OBVIOUS
  <1> QED BY <1>1, Quotient

-----------------------------------------------------------------------------
(* The space that recordings take (CycFiles). *)

Recording == [name : Nat, size : Nat, locked : BOOLEAN]
Recordings == Seq(Recording)

\* u adds up what d takes, from p on.
AddsUp(u, d, p) ==
    /\ u \in [0..Len(d) -> Int] /\ u[0] = p
    /\ \A i \in 1..Len(d) : u[i] = u[i - 1] + d[i].size

LEMMA SizesAre ==
  ASSUME NEW d \in Recordings
  PROVE  Len(d) \in Nat /\ \A i \in 1..Len(d) : d[i] \in Recording /\ d[i].size \in Nat
  <1>1. Len(d) \in Nat /\ \A i \in 1..Len(d) : d[i] \in Recording
    BY DEF Recordings
  <1>2. \A r \in Recording : r.size \in Nat
    BY DEF Recording
  <1> QED BY <1>1, <1>2

\* The space is what adding up the recordings gives.
LEMMA TakenAddsUp ==
  ASSUME NEW d \in Recordings, NEW p \in Int
  PROVE  \E u : AddsUp(u, d, p) /\ Taken(d, p) = u[Len(d)]
  <1> DEFINE n == Len(d)
             g == [i \in 1..n |-> [x \in Int |-> x + d[i].size]]
             Unfolds(u) == u = [i \in 0..n |-> IF i = 0 THEN p ELSE u[i - 1] + d[i].size]
  <1>1. n \in Nat /\ \A i \in 1..n : d[i].size \in Int
    BY SizesAre
  <1>2. PICK f \in [0..n -> Int] : f[0] = p /\ \A i \in 1..n : f[i] = g[i][f[i - 1]]
    <2> DEFINE S == Int
    <2>1. Steps(0, n, S, g) /\ p \in S
      BY <1>1 DEF Steps
    <2> HIDE DEF n, g, S
    <2>2. PICK f : Runs(f, 0, n, S, p, g)
      BY <1>1, <2>1, Recursion
    <2>3. f \in [0..n -> S] /\ f[0] = p /\ \A i \in 1..n : f[i] = g[i][f[i - 1]]
      BY <2>2 DEF Runs
    <2> QED BY <2>3 DEF S
  <1>3. \A i \in 1..n : f[i] = f[i - 1] + d[i].size
    <2> SUFFICES ASSUME NEW i \in 1..n PROVE f[i] = f[i - 1] + d[i].size
      OBVIOUS
    <2>1. f[i - 1] \in Int
      BY <1>1
    <2> QED BY <1>2, <2>1
  <1>4. Unfolds(f)
    <2> DEFINE h == [i \in 0..n |-> IF i = 0 THEN p ELSE f[i - 1] + d[i].size]
    <2>1. \A i \in 0..n : f[i] = h[i]
      BY <1>1, <1>2, <1>3
    <2> HIDE DEF g
    <2> QED BY <2>1
  <1> DEFINE u == CHOOSE v : Unfolds(v)
  <1>6. Unfolds(u)
    BY <1>4
  <1>7. Taken(d, p) = u[n]
    BY DEF Taken
  <1>8. AddsUp(u, d, p)
    <2> HIDE DEF u
    <2>0. \A i \in 0..n : u[i] = IF i = 0 THEN p ELSE u[i - 1] + d[i].size
      BY <1>6
    <2>1. \A i \in 1..n : u[i] = u[i - 1] + d[i].size
      BY <1>1, <2>0
    <2>2. u[0] = p
      BY <1>1, <2>0
    <2>3. DOMAIN u = 0..n /\ u = [i \in 0..n |-> u[i]]
      BY <1>6
    <2> DEFINE T == {i \in 0..n : u[i] \in Int}
    <2>4. 0..n \subseteq T
      <3>1. 0 \in T
        BY <1>1, <2>2
      <3>2. ASSUME NEW k \in (0 + 1)..n, k - 1 \in T PROVE k \in T
        <4>1. k \in 1..n /\ k \in 0..n /\ u[k - 1] \in Int
          BY <1>1, <3>2
        <4>2. d[k].size \in Int
          BY <1>1, <4>1
        <4>3. u[k] = u[k - 1] + d[k].size
          BY <2>1, <4>1
        <4> QED BY <4>1, <4>2, <4>3
      <3>3. Upward(0, n, T)
        BY <3>1, <3>2 DEF Upward
      <3> HIDE DEF T, n
      <3> QED BY <1>1, <3>3, Induction
    <2> QED BY <2>1, <2>2, <2>3, <2>4 DEF AddsUp
  <1> QED BY <1>7, <1>8

\* From m to n, u and w (which is s ahead) grow alike, and w is c more at m.
Alike(u, w, m, n, s, c) ==
    /\ \A i \in m..n : u[i] \in Int /\ w[i + s] \in Int
    /\ w[m + s] = u[m] + c
    /\ \A i \in (m + 1)..n : w[i + s] - w[i + s - 1] = u[i] - u[i - 1]

\* Then it is c more at n.
LEMMA SumsDiffer ==
  ASSUME NEW m \in Int, NEW n \in Int, m <= n, NEW c \in Int, NEW s \in Int,
         NEW u, NEW w, Alike(u, w, m, n, s, c)
  PROVE  w[n + s] = u[n] + c
  <1> USE DEF Alike
  <1> DEFINE Same == {i \in m..n : w[i + s] = u[i] + c}
  <1>1. m \in Same
    OBVIOUS
  <1>2. ASSUME NEW k \in (m + 1)..n, k - 1 \in Same PROVE k \in Same
    <2>1. k \in m..n /\ k - 1 \in m..n /\ (k - 1) + s = k + s - 1
      OBVIOUS
    <2>2. w[k + s] - w[k + s - 1] = u[k] - u[k - 1]
      OBVIOUS
    <2>3. w[(k - 1) + s] = u[k - 1] + c
      BY <1>2
    <2>4. u[k] \in Int /\ w[k + s] \in Int /\ u[k - 1] \in Int
      BY <2>1
    <2>5. w[k + s] = u[k] + c
      BY <2>1, <2>2, <2>3, <2>4
    <2> QED BY <2>1, <2>5
  <1>3. Upward(m, n, Same)
    BY <1>1, <1>2 DEF Upward
  <1>4. m..n \subseteq Same
    <2> HIDE DEF Same
    <2> QED BY <1>3, Induction
  <1> QED BY <1>4

\* What of the recordings is told apart is their sizes.
LEMMA TakenAlike ==
  ASSUME NEW d \in Recordings, NEW e \in Recordings, NEW p \in Int, NEW q \in Int,
         Len(e) = Len(d), \A i \in 1..Len(d) : e[i].size = d[i].size
  PROVE  Taken(e, q) = Taken(d, p) + q - p
  <1> DEFINE n == Len(d)
  <1>1. PICK u : AddsUp(u, d, p) /\ Taken(d, p) = u[n]
    BY TakenAddsUp
  <1>2. PICK w : AddsUp(w, e, q) /\ Taken(e, q) = w[n]
    BY TakenAddsUp
  <1>3. n \in Nat /\ \A i \in 1..n : d[i].size \in Int
    BY SizesAre
  <1>4. \A i \in 0..n : u[i] \in Int /\ w[i] \in Int
    BY <1>1, <1>2, <1>3 DEF AddsUp
  <1>5. Alike(u, w, 0, n, 0, q - p)
    <2>1. w[0 + 0] = u[0] + (q - p)
      BY <1>1, <1>2 DEF AddsUp
    <2>2. ASSUME NEW i \in 1..n PROVE w[i] - w[i - 1] = u[i] - u[i - 1]
      <3>1. u[i] = u[i - 1] + d[i].size /\ w[i] = w[i - 1] + d[i].size
        BY <1>1, <1>2 DEF AddsUp
      <3>2. u[i - 1] \in Int /\ w[i - 1] \in Int /\ d[i].size \in Int
        BY <1>3, <1>4
      <3> QED BY <3>1, <3>2
    <2> QED BY <1>4, <2>1, <2>2 DEF Alike
  <1>6. w[n + 0] = u[n] + (q - p)
    <2> DEFINE r == q - p
    <2>1. r \in Int /\ Alike(u, w, 0, n, 0, r)
      BY <1>5
    <2>2. 0 \in Int /\ n \in Int /\ 0 <= n
      BY <1>3
    <2> DEFINE o == 0
    <2> HIDE DEF n, r, o
    <2>3. w[n + o] = u[n] + r
      <3>1. o \in Int /\ n \in Int /\ o <= n /\ r \in Int /\ Alike(u, w, o, n, o, r)
        BY <2>1, <2>2 DEF o
      <3> QED BY <3>1, SumsDiffer
    <2> QED BY <2>3 DEF r, o
  <1> QED BY <1>1, <1>2, <1>3, <1>4, <1>6

\* A recording more, or one less.
LEMMA TakenAppend ==
  ASSUME NEW d \in Recordings, NEW p \in Int, NEW x \in Recording
  PROVE  Append(d, x) \in Recordings /\ Taken(Append(d, x), p) = Taken(d, p) + x.size
  <1> DEFINE e == Append(d, x)
             n == Len(d)
  <1>1. e \in Recordings /\ Len(e) = n + 1 /\ e[n + 1] = x /\ \A i \in 1..n : e[i] = d[i]
    BY DEF Recordings
  <1> HIDE DEF e
  <1>2. PICK u : AddsUp(u, d, p) /\ Taken(d, p) = u[n]
    BY TakenAddsUp
  <1>3. PICK w : AddsUp(w, e, p) /\ Taken(e, p) = w[n + 1]
    BY <1>1, TakenAddsUp
  <1>4. n \in Nat /\ \A i \in 1..n : d[i].size \in Int
    BY SizesAre
  <1>5. w \in [0..(n + 1) -> Int] /\ \A i \in 1..(n + 1) : w[i] = w[i - 1] + e[i].size
    BY <1>1, <1>3 DEF AddsUp
  <1>6. \A i \in 0..n : u[i] \in Int /\ w[i] \in Int
    BY <1>2, <1>4, <1>5 DEF AddsUp
  <1>7. Alike(u, w, 0, n, 0, 0)
    <2>1. w[0 + 0] = u[0] + 0
      BY <1>2, <1>3, <1>4, <1>6 DEF AddsUp
    <2>2. ASSUME NEW i \in 1..n PROVE w[i] - w[i - 1] = u[i] - u[i - 1]
      <3>1. u[i] = u[i - 1] + d[i].size
        BY <1>2 DEF AddsUp
      <3>2. w[i] = w[i - 1] + d[i].size
        BY <1>1, <1>4, <1>5
      <3>3. u[i - 1] \in Int /\ w[i - 1] \in Int /\ d[i].size \in Int
        BY <1>4, <1>6
      <3> QED BY <3>1, <3>2, <3>3
    <2> QED BY <1>6, <2>1, <2>2 DEF Alike
  <1>8. w[n + 0] = u[n] + 0
    <2> HIDE DEF n
    <2> QED BY <1>4, <1>7, SumsDiffer
  <1>9. w[n + 1] = w[n] + x.size
    BY <1>1, <1>4, <1>5
  <1>10. w[n] = u[n]
    BY <1>4, <1>6, <1>8
  <1> QED BY <1>1, <1>2, <1>3, <1>9, <1>10 DEF e

LEMMA WithoutOne ==
  ASSUME NEW S, NEW d \in Seq(S), NEW i \in DOMAIN d
  PROVE  /\ Without(d, i) \in Seq(S) /\ Len(Without(d, i)) = Len(d) - 1
         /\ \A k \in 1..(Len(d) - 1) : Without(d, i)[k] = d[IF k < i THEN k ELSE k + 1]
  <1> DEFINE a == SubSeq(d, 1, i - 1)
             b == SubSeq(d, i + 1, Len(d))
  <1>1. Len(d) \in Nat /\ i \in 1..Len(d)
    OBVIOUS
  <1>2. a \in Seq(S) /\ Len(a) = i - 1 /\ \A k \in 1..(i - 1) : a[k] = d[k]
    BY <1>1
  <1>3. b \in Seq(S) /\ Len(b) = Len(d) - i /\ \A k \in 1..(Len(d) - i) : b[k] = d[k + i]
    BY <1>1
  <1>4. Without(d, i) = a \o b
    BY DEF Without
  <1> HIDE DEF a, b
  <1>5. a \o b \in Seq(S) /\ Len(a \o b) = Len(d) - 1
    BY <1>1, <1>2, <1>3
  <1>6. ASSUME NEW k \in 1..(Len(d) - 1)
        PROVE  (a \o b)[k] = d[IF k < i THEN k ELSE k + 1]
    <2>1. CASE k < i
      BY <1>1, <1>2, <1>3, <2>1
    <2>2. CASE k >= i
      <3>1. (a \o b)[k] = b[k - (i - 1)] /\ k - (i - 1) \in 1..(Len(d) - i)
        BY <1>1, <1>2, <1>3, <2>2
      <3>2. b[k - (i - 1)] = d[(k - (i - 1)) + i] /\ (k - (i - 1)) + i = k + 1
        BY <1>1, <1>3, <3>1
      <3> QED BY <2>2, <3>1, <3>2
    <2>3. k < i \/ k >= i
      BY <1>1
    <2> QED BY <2>1, <2>2, <2>3, Zenon
  <1> QED BY <1>4, <1>5, <1>6

LEMMA TakenWithout ==
  ASSUME NEW d \in Recordings, NEW p \in Int, NEW i \in DOMAIN d
  PROVE  /\ Without(d, i) \in Recordings
         /\ Taken(Without(d, i), p) = Taken(d, p) - d[i].size
  <1> DEFINE e == Without(d, i)
             n == Len(d)
             z == d[i].size
  <1>1. /\ e \in Recordings /\ Len(e) = n - 1
        /\ \A k \in 1..(n - 1) : e[k] = d[IF k < i THEN k ELSE k + 1]
    BY WithoutOne DEF Recordings
  <1>2. n \in Nat /\ i \in 1..n
    BY DEF Recordings
  <1>3. \A k \in 1..n : d[k].size \in Int
    BY SizesAre
  <1> HIDE DEF e
  <1>4. PICK u : AddsUp(u, d, p) /\ Taken(d, p) = u[n]
    BY TakenAddsUp
  <1>5. PICK w : AddsUp(w, e, p) /\ Taken(e, p) = w[n - 1]
    BY <1>1, TakenAddsUp
  <1>6. (\A k \in 0..n : u[k] \in Int) /\ \A k \in 1..n : u[k] = u[k - 1] + d[k].size
    BY <1>2, <1>4 DEF AddsUp
  <1>7. (\A k \in 0..(n - 1) : w[k] \in Int) /\ \A k \in 1..(n - 1) : w[k] = w[k - 1] + e[k].size
    BY <1>1, <1>2, <1>5 DEF AddsUp
  <1>8. w[i - 1] = u[i - 1]
    <2>1. Alike(u, w, 0, i - 1, 0, 0)
      <3>1. w[0 + 0] = u[0] + 0
        BY <1>2, <1>4, <1>5, <1>6 DEF AddsUp
      <3>2. ASSUME NEW k \in 1..(i - 1) PROVE w[k] - w[k - 1] = u[k] - u[k - 1]
        <4>1. u[k] = u[k - 1] + d[k].size
          BY <1>2, <1>6
        <4>2. w[k] = w[k - 1] + d[k].size
          <5>1. k \in 1..(n - 1) /\ k < i
            BY <1>2
          <5>2. e[k] = d[k]
            BY <1>1, <5>1
          <5> QED BY <1>7, <5>1, <5>2
        <4>3. u[k - 1] \in Int /\ w[k - 1] \in Int /\ d[k].size \in Int
          BY <1>2, <1>3, <1>6, <1>7
        <4> QED BY <4>1, <4>2, <4>3
      <3>3. \A k \in 0..(i - 1) : u[k] \in Int /\ w[k] \in Int
        BY <1>2, <1>6, <1>7
      <3> QED BY <1>2, <3>1, <3>2, <3>3 DEF Alike
    <2>2. w[(i - 1) + 0] = u[i - 1] + 0
      BY <1>2, <2>1, SumsDiffer
    <2> QED BY <1>2, <1>6, <1>7, <2>2
  <1>9. w[n - 1] = u[n] - z
    <2>1. Alike(u, w, i, n, -1, 0 - z)
      <3>1. w[i + -1] = u[i] + (0 - z)
        <4>1. u[i] = u[i - 1] + z /\ w[i - 1] \in Int /\ u[i - 1] \in Int /\ z \in Int
          BY <1>2, <1>3, <1>6, <1>7
        <4> QED BY <1>2, <1>8, <4>1
      <3>2. ASSUME NEW k \in (i + 1)..n PROVE w[k - 1] - w[k - 2] = u[k] - u[k - 1]
        <4>1. e[k - 1] = d[k] /\ k - 1 \in 1..(n - 1) /\ k \in 1..n /\ (k - 1) - 1 = k - 2
          BY <1>1, <1>2
        <4>2. u[k] = u[k - 1] + d[k].size
          BY <1>6, <4>1
        <4>3. w[k - 1] = w[k - 2] + d[k].size
          BY <1>7, <4>1
        <4>4. u[k - 1] \in Int /\ w[k - 2] \in Int /\ d[k].size \in Int
          BY <1>2, <1>3, <1>6, <1>7, <4>1
        <4> QED BY <4>2, <4>3, <4>4
      <3>3. \A k \in i..n : u[k] \in Int /\ w[k + -1] \in Int
        BY <1>2, <1>6, <1>7
      <3>4. \A k \in (i + 1)..n : w[k + -1] - w[k + -1 - 1] = u[k] - u[k - 1]
        <4> SUFFICES ASSUME NEW k \in (i + 1)..n
                     PROVE  w[k + -1] - w[k + -1 - 1] = u[k] - u[k - 1]
          OBVIOUS
        <4>1. k + -1 = k - 1 /\ k + -1 - 1 = k - 2
          BY <1>2
        <4> QED BY <3>2, <4>1
      <3> QED BY <3>1, <3>3, <3>4 DEF Alike
    <2>2. -1 \in Int /\ 0 - z \in Int /\ i <= n /\ i \in Int /\ n \in Int
      BY <1>2, <1>3
    <2>3. w[n + -1] = u[n] + (0 - z)
      <3> HIDE DEF n, z
      <3> QED BY <2>1, <2>2, SumsDiffer
    <2>4. n + -1 = n - 1 /\ u[n] \in Int /\ z \in Int
      BY <1>2, <1>3, <1>6
    <2> QED BY <2>3, <2>4
  <1> QED BY <1>1, <1>4, <1>5, <1>9 DEF e

-----------------------------------------------------------------------------
(* Making room on the card (CycFiles). *)

\* The names come in order, and none is above the last one given.
Ordered(d, m) ==
    /\ \A i \in 1..Len(d) : d[i].name \in 1..m
    /\ \A i, j \in 1..Len(d) : i < j => d[i].name < d[j].name

\* The open file is the newest.
OpenLast(d, f) == f # NoRec => Len(d) > 0 /\ d[Len(d)].name = f

Jobs == {NoJob} \cup [for : {"start", "save"}, at : {"first", "room", "reuse", "create"}]

CycType ==
    /\ dir \in Recordings /\ photos \in 0..MaxPhotos /\ made \in Nat /\ rec_file \in Nat
    /\ fscan \in [on : BOOLEAN, left : Nat] /\ vrec \in {"stop", "start"} /\ job \in Jobs

\* What the recording that runs may still take was there, photos aside.
Fitted == dir[Len(dir)].size = Full \/ Taken(dir, 0) + 3 * Full <= CardSize

CycInv ==
    /\ CycType
    /\ Ordered(dir, made)
    /\ OpenLast(dir, rec_file)
    /\ vrec = "start" /\ job = NoJob => rec_file # NoRec /\ Fitted
    /\ job.at \in {"reuse", "create"} => Taken(dir, photos) + 3 * Full <= CardSize
    /\ gaveUp => job = NoJob /\ vrec = "stop" /\ \A i \in Deletable : IsOpen(i)

\* A file closed at another size, or taken away.
LEMMA ResizedKeeps ==
  ASSUME NEW d \in Recordings, NEW f, NEW size \in Nat, NEW m, Ordered(d, m)
  PROVE  /\ Resized(d, f, size) \in Recordings /\ Ordered(Resized(d, f, size), m)
         /\ \A g : OpenLast(d, g) => OpenLast(Resized(d, f, size), g)
  <1> DEFINE e == Resized(d, f, size)
  <1>1. Len(d) \in Nat /\ DOMAIN d = 1..Len(d) /\ \A i \in 1..Len(d) : d[i] \in Recording
    BY DEF Recordings
  <1>2. e = [i \in 1..Len(d) |-> IF d[i].name = f THEN [d[i] EXCEPT !.size = size] ELSE d[i]]
    BY <1>1 DEF Resized
  <1>3. \A i \in 1..Len(d) : e[i] \in Recording /\ e[i].name = d[i].name
    BY <1>1, <1>2 DEF Recording
  <1>4. e \in Recordings /\ Len(e) = Len(d)
    <2>1. e \in [1..Len(d) -> Recording]
      BY <1>2, <1>3
    <2> HIDE DEF e
    <2> QED BY <1>1, <2>1 DEF Recordings
  <1> HIDE DEF e
  <1>5. Ordered(e, m)
    BY <1>3, <1>4 DEF Ordered
  <1>6. \A g : OpenLast(d, g) => OpenLast(e, g)
    BY <1>1, <1>3, <1>4 DEF OpenLast
  <1> QED BY <1>4, <1>5, <1>6 DEF e

LEMMA WithoutKeeps ==
  ASSUME NEW d \in Recordings, NEW i \in DOMAIN d, NEW m, Ordered(d, m)
  PROVE  /\ Ordered(Without(d, i), m)
         /\ i # Len(d) => \A g : OpenLast(d, g) => OpenLast(Without(d, i), g)
         /\ i # Len(d) => Without(d, i)[Len(Without(d, i))] = d[Len(d)]
  <1> DEFINE e == Without(d, i)
  <1>1. /\ Len(e) = Len(d) - 1
        /\ \A k \in 1..(Len(d) - 1) : e[k] = d[IF k < i THEN k ELSE k + 1]
    BY WithoutOne DEF Recordings
  <1>2. Len(d) \in Nat /\ i \in 1..Len(d)
    BY DEF Recordings
  <1> HIDE DEF e
  <1>3. Ordered(e, m)
    <2> DEFINE at(k) == IF k < i THEN k ELSE k + 1
    <2>1. \A k \in 1..(Len(d) - 1) : at(k) \in 1..Len(d) /\ e[k] = d[at(k)]
      BY <1>1, <1>2
    <2>2. \A k, l \in 1..(Len(d) - 1) : k < l => at(k) < at(l)
      BY <1>2
    <2> HIDE DEF at
    <2> QED BY <1>1, <2>1, <2>2 DEF Ordered
  <1>4. i # Len(d) => Len(e) > 0 /\ e[Len(e)] = d[Len(d)]
    BY <1>1, <1>2
  <1> QED BY <1>3, <1>4 DEF OpenLast, e

LEMMA AppendKeeps ==
  ASSUME NEW d \in Recordings, NEW m \in Nat, Ordered(d, m), NEW x \in Recording, x.name = m + 1
  PROVE  /\ Append(d, x) \in Recordings /\ Ordered(Append(d, x), m + 1)
         /\ OpenLast(Append(d, x), m + 1) /\ OpenLast(Append(d, x), NoRec)
         /\ Append(d, x)[Len(Append(d, x))] = x
  <1> DEFINE e == Append(d, x)
  <1>1. /\ Len(d) \in Nat /\ e \in Recordings /\ Len(e) = Len(d) + 1 /\ e[Len(d) + 1] = x
        /\ \A i \in 1..Len(d) : e[i] = d[i]
    BY DEF Recordings
  <1> HIDE DEF e
  <1>2. \A i \in 1..Len(e) : i = Len(d) + 1 \/ i \in 1..Len(d)
    BY <1>1
  <1>3. Ordered(e, m + 1)
    <2>1. \A i \in 1..Len(e) : e[i].name \in 1..(m + 1)
      BY <1>1, <1>2 DEF Ordered
    <2>2. ASSUME NEW i \in 1..Len(e), NEW j \in 1..Len(e), i < j PROVE e[i].name < e[j].name
      <3>1. i \in 1..Len(d)
        BY <1>1, <1>2, <2>2
      <3>2. e[i].name \in 1..m
        BY <1>1, <3>1 DEF Ordered
      <3>3. CASE j = Len(d) + 1
        BY <1>1, <3>2, <3>3
      <3>4. CASE j \in 1..Len(d)
        BY <1>1, <2>2, <3>1, <3>4 DEF Ordered
      <3> QED BY <1>2, <3>3, <3>4
    <2> QED BY <2>1, <2>2 DEF Ordered
  <1> QED BY <1>1, <1>3 DEF OpenLast, e

\* The first of the files that may go is one of them, and no other comes before it.
LEMMA FirstIsFirst ==
  ASSUME CycType, Deletable # {}
  PROVE  FirstFile \in Deletable /\ \A j \in Deletable : FirstFile <= j
  <1>1. Deletable \subseteq Nat
    BY DEF Deletable, CycType, Recordings
  <1>2. \E i \in Deletable : \A j \in Deletable : i <= j
    BY <1>1, LeastNumber
  <1> QED BY <1>2 DEF FirstFile

\* Where the open file stands, and the size of the one that is written.
LEMMA OpenStands ==
  ASSUME CycInv, NEW i \in DOMAIN dir
  PROVE  IsOpen(i) <=> rec_file # NoRec /\ i = Len(dir)
  <1>1. Len(dir) \in Nat /\ i \in 1..Len(dir) /\ \A k \in 1..Len(dir) : dir[k].name \in Nat
    BY SizesAre DEF CycInv, CycType, Recordings, Recording
  <1>2. dir[i].name # NoRec
    BY <1>1 DEF CycInv, Ordered, NoRec
  <1>3. i < Len(dir) => dir[i].name < dir[Len(dir)].name
    BY <1>1 DEF CycInv, Ordered
  <1> QED BY <1>1, <1>2, <1>3 DEF IsOpen, CycInv, OpenLast

LEMMA SizeOfOpen ==
  ASSUME CycInv, rec_file # NoRec
  PROVE  SizeOf(rec_file) = dir[Len(dir)].size
  <1>1. Len(dir) \in DOMAIN dir /\ DOMAIN dir = 1..Len(dir) /\ Len(dir) \in Nat
    BY DEF CycInv, CycType, OpenLast, Recordings
  <1>2. \A i \in DOMAIN dir : dir[i].name = rec_file <=> i = Len(dir)
    BY <1>1, OpenStands DEF IsOpen
  <1> QED BY <1>1, <1>2 DEF SizeOf

LEMMA TakenInt ==
  ASSUME NEW d \in Recordings
  PROVE  Taken(d, 0) \in Int
  <1>1. PICK u : AddsUp(u, d, 0) /\ Taken(d, 0) = u[Len(d)]
    BY TakenAddsUp
  <1> QED BY <1>1, SizesAre DEF AddsUp

LEMMA TakenPhotos ==
  ASSUME NEW d \in Recordings, NEW p \in Int
  PROVE  Taken(d, p) \in Int /\ Taken(d, p) = Taken(d, 0) + p
  <1>2. Taken(d, 0) \in Int
    BY TakenInt
  <1>3. Taken(d, p) = Taken(d, 0) + p - 0
    BY TakenAlike
  <1> QED BY <1>2, <1>3

\* A round of making room keeps the scan's count a number.
LEMMA ScanIs ==
  ASSUME CycType
  PROVE  /\ Scanned \in [on : BOOLEAN, left : Nat]
         /\ Scanned.left = 0 => Deletable = {}
         /\ HasFirst /\ TakeFirst => fscan' \in [on : BOOLEAN, left : Nat]
  <1>1. IsFiniteSet(Deletable) /\ Deletable \subseteq 1..Len(dir)
    <2>1. Len(dir) \in Nat /\ Deletable \subseteq 1..Len(dir)
      BY DEF CycType, Recordings, Deletable
    <2>2. IsFiniteSet(1..Len(dir))
      BY <2>1, FS_Interval
    <2> QED BY <2>1, <2>2, FS_Subset
  <1>2. Cardinality(Deletable) \in Nat /\ (Cardinality(Deletable) = 0 => Deletable = {})
    BY <1>1, FS_CardinalityType, FS_EmptySet
  <1>3. /\ Scanned \in [on : BOOLEAN, left : Nat]
        /\ Scanned.left = 0 => Deletable = {}
    BY <1>2 DEF Scanned, CycType
  <1>4. HasFirst /\ TakeFirst => fscan' \in [on : BOOLEAN, left : Nat]
    <2> SUFFICES ASSUME HasFirst, TakeFirst PROVE fscan' \in [on : BOOLEAN, left : Nat]
      OBVIOUS
    <2> DEFINE s == Scanned
    <2>1. s.left \in Nat \ {0} /\ s \in [on : BOOLEAN, left : Nat]
      BY <1>3 DEF HasFirst
    <2>2. fscan' = IF s.left = 1 THEN NoScan ELSE [s EXCEPT !.left = @ - 1]
      BY DEF TakeFirst
    <2> HIDE DEF s
    <2>3. NoScan \in [on : BOOLEAN, left : Nat]
      BY DEF NoScan
    <2>4. [s EXCEPT !.left = @ - 1] \in [on : BOOLEAN, left : Nat]
      BY <2>1
    <2> QED BY <2>2, <2>3, <2>4
  <1> QED BY <1>3, <1>4

\* The first file is taken away: there is no less room, and the open file stays.
LEMMA FirstGoes ==
  ASSUME CycInv, HasFirst
  PROVE  /\ Without(dir, FirstFile) \in Recordings
         /\ Ordered(Without(dir, FirstFile), made)
         /\ OpenLast(Without(dir, FirstFile), rec_file)
         /\ \A p \in Int : Taken(Without(dir, FirstFile), p) <= Taken(dir, p)
  <1> DEFINE f == FirstFile
  <1>1. f \in DOMAIN dir /\ f \in Deletable
    BY FirstIsFirst DEF HasFirst, CycInv, Deletable
  <1>2. dir \in Recordings /\ Ordered(dir, made) /\ OpenLast(dir, rec_file)
    BY DEF CycInv, CycType
  <1>3. rec_file # NoRec => f # Len(dir)
    BY <1>1, OpenStands DEF HasFirst
  <1> HIDE DEF f
  <1>4. Without(dir, f) \in Recordings /\ Ordered(Without(dir, f), made)
    BY <1>1, <1>2, TakenWithout, WithoutKeeps
  <1>5. OpenLast(Without(dir, f), rec_file)
    <2>1. CASE rec_file = NoRec
      BY <2>1 DEF OpenLast
    <2>2. CASE rec_file # NoRec
      BY <1>1, <1>2, <1>3, <2>2, WithoutKeeps
    <2> QED BY <2>1, <2>2
  <1>6. ASSUME NEW p \in Int PROVE Taken(Without(dir, f), p) <= Taken(dir, p)
    <2>1. Taken(Without(dir, f), p) = Taken(dir, p) - dir[f].size
      BY <1>1, <1>2, TakenWithout
    <2>2. dir[f].size \in Nat
      BY <1>1, <1>2, SizesAre DEF Recordings
    <2>3. Taken(dir, p) \in Int
      BY <1>2, TakenPhotos
    <2> QED BY <2>1, <2>2, <2>3
  <1> QED BY <1>4, <1>5, <1>6 DEF f

\* A phone deletes a file that is not open.
LEMMA OtherGoes ==
  ASSUME CycInv, NEW i \in DOMAIN dir, ~IsOpen(i)
  PROVE  /\ Without(dir, i) \in Recordings
         /\ Ordered(Without(dir, i), made)
         /\ OpenLast(Without(dir, i), rec_file)
         /\ Taken(Without(dir, i), 0) <= Taken(dir, 0)
         /\ rec_file # NoRec => Without(dir, i)[Len(Without(dir, i))] = dir[Len(dir)]
  <1>1. dir \in Recordings /\ Ordered(dir, made) /\ OpenLast(dir, rec_file)
    BY DEF CycInv, CycType
  <1>2. rec_file # NoRec => i # Len(dir)
    BY OpenStands
  <1>3. Without(dir, i) \in Recordings /\ Ordered(Without(dir, i), made)
    BY <1>1, TakenWithout, WithoutKeeps
  <1>4. OpenLast(Without(dir, i), rec_file)
    <2>1. CASE rec_file = NoRec
      BY <2>1 DEF OpenLast
    <2>2. CASE rec_file # NoRec
      BY <1>1, <1>2, <2>2, WithoutKeeps
    <2> QED BY <2>1, <2>2
  <1>5. Taken(Without(dir, i), 0) = Taken(dir, 0) - dir[i].size
    BY <1>1, TakenWithout
  <1>6. dir[i].size \in Nat /\ Taken(dir, 0) \in Int
    <2>1. dir[i].size \in Nat
      BY <1>1, SizesAre DEF Recordings
    <2>2. Taken(dir, 0) \in Int
      BY <1>1, TakenInt
    <2> QED BY <2>1, <2>2
  <1> QED BY <1>1, <1>2, <1>3, <1>4, <1>5, <1>6, WithoutKeeps

LEMMA CycStep == CycInv /\ [CycNext]_cycVars => CycInv'
  <1> SUFFICES ASSUME CycInv, [CycNext]_cycVars PROVE CycInv'
    OBVIOUS
  <1> USE CardAssumption, FullAssumption
  <1>0. /\ dir \in Recordings /\ Ordered(dir, made) /\ OpenLast(dir, rec_file)
        /\ photos \in Nat /\ made \in Nat /\ job \in Jobs
    BY DEF CycInv, CycType
  <1>1. CASE StartRec
    <2>1. job' \in Jobs /\ job'.at = "first" /\ job' # NoJob
      BY <1>1 DEF StartRec, Jobs, NoJob
    <2>2. ~gaveUp' /\ UNCHANGED <<dir, photos, made, rec_file, fscan, vrec>>
      BY <1>1 DEF StartRec
    <2> QED BY <2>1, <2>2 DEF CycInv, CycType, Ordered, OpenLast
  <1>2. CASE SaveFile
    <2>1. job' \in Jobs /\ job'.at = "first" /\ job' # NoJob /\ ~gaveUp' /\ rec_file' = NoRec
      BY <1>2 DEF SaveFile, Jobs, NoJob
    <2>2. dir' = Resized(dir, rec_file, Full) /\ UNCHANGED <<photos, made, fscan, vrec>>
      BY <1>2 DEF SaveFile
    <2>3. dir' \in Recordings /\ Ordered(dir', made')
      BY <1>0, <2>2, ResizedKeeps
    <2> QED BY <2>1, <2>2, <2>3 DEF CycInv, CycType, OpenLast, NoRec
  <1>3. CASE FreeRound
    <2>1. dir' = Without(dir, FirstFile) /\ HasFirst /\ TakeFirst
          /\ UNCHANGED <<photos, made, rec_file, vrec, gaveUp>>
      BY <1>3 DEF FreeRound
    <2>2. job # NoJob /\ job' \in Jobs /\ job' # NoJob /\ job'.at = "room"
      BY <1>0, <1>3 DEF FreeRound, Jobs, NoJob
    <2>3. dir' \in Recordings /\ Ordered(dir', made) /\ OpenLast(dir', rec_file)
      BY <2>1, FirstGoes
    <2>4. fscan' \in [on : BOOLEAN, left : Nat]
      BY <2>1, ScanIs DEF CycInv
    <2>5. ~gaveUp
      BY <2>2 DEF CycInv
    <2> QED BY <2>1, <2>2, <2>3, <2>4, <2>5 DEF CycInv, CycType
  <1>4. CASE GiveUp
    <2>1. /\ ~HasFirst /\ fscan' = Scanned /\ vrec' = "stop" /\ job' = NoJob
          /\ UNCHANGED <<dir, photos, made, rec_file>>
      BY <1>4 DEF GiveUp
    <2>2. \A i \in Deletable : IsOpen(i)
      <3> SUFFICES ASSUME Deletable # {} PROVE \A i \in Deletable : IsOpen(i)
        OBVIOUS
      <3>1. IsOpen(FirstFile)
        BY <2>1, ScanIs DEF HasFirst, CycInv
      <3>2. FirstFile \in Deletable /\ \A j \in Deletable : FirstFile <= j
        BY FirstIsFirst DEF CycInv
      <3>3. Deletable \subseteq 1..Len(dir) /\ DOMAIN dir = 1..Len(dir) /\ Len(dir) \in Nat
        BY <1>0 DEF Deletable, Recordings
      <3>4. FirstFile = Len(dir)
        BY <3>1, <3>2, <3>3, OpenStands
      <3>5. \A j \in Deletable : j = FirstFile
        <4> SUFFICES ASSUME NEW j \in Deletable PROVE j = FirstFile
          OBVIOUS
        <4>1. j \in 1..Len(dir) /\ Len(dir) <= j
          BY <3>2, <3>3, <3>4
        <4>0. Len(dir) \in Nat
          BY <3>3
        <4>2. j = Len(dir)
          BY <4>0, <4>1
        <4> QED BY <3>4, <4>2
      <3> QED BY <3>1, <3>5
    <2>3. \A i \in Deletable' : IsOpen(i)'
      BY <2>1, <2>2 DEF Deletable, IsOpen
    <2>4. job' \in Jobs /\ job'.at = "none"
      BY <2>1 DEF Jobs, NoJob
    <2>5. fscan' \in [on : BOOLEAN, left : Nat]
      BY <2>1, ScanIs DEF CycInv
    <2> QED BY <2>1, <2>3, <2>4, <2>5 DEF CycInv, CycType
  <1>5. CASE RoomMade
    <2>1. Enough /\ UNCHANGED <<dir, photos, made, rec_file, fscan, vrec, gaveUp>>
      BY <1>5 DEF RoomMade
    <2>2. job # NoJob /\ job' \in Jobs /\ job' # NoJob
      BY <1>0, <1>5 DEF RoomMade, Jobs, NoJob
    <2>3. Taken(dir, photos) + 3 * Full <= CardSize
      BY <1>0, <2>1, TakenPhotos DEF Enough, FreeSpace
    <2>4. ~gaveUp
      BY <2>2 DEF CycInv
    <2> QED BY <2>1, <2>2, <2>3, <2>4 DEF CycInv, CycType
  <1>6. CASE Reuse
    <2>0. /\ job.at = "reuse" /\ job # NoJob /\ ~gaveUp /\ UNCHANGED <<photos, gaveUp>>
          /\ Taken(dir, photos) + 3 * Full <= CardSize
      BY <1>6 DEF Reuse, CycInv, NoJob
    <2> DEFINE x == New(Full)
               w == Without(dir, FirstFile)
    <2>1. CASE HasFirst /\ TakeFirst /\ job' = NoJob /\ made' = made + 1
               /\ Begin(Append(w, x), made + 1)
      <3>1. w \in Recordings /\ Ordered(w, made)
        BY <2>1, FirstGoes
      <3>2. x \in Recording /\ x.name = made + 1 /\ x.size = Full
        BY <1>0 DEF New, Recording
      <3> HIDE DEF w, x
      <3>3. /\ dir' = Append(w, x) /\ rec_file' \in {made + 1, NoRec} /\ vrec' \in {"start", "stop"}
            /\ vrec' = "start" => rec_file' = made + 1
        BY <2>1 DEF Begin
      <3>4. /\ dir' \in Recordings /\ Ordered(dir', made') /\ OpenLast(dir', rec_file')
            /\ dir'[Len(dir')] = x
        BY <1>0, <2>1, <3>1, <3>2, <3>3, AppendKeeps
      <3>5. made' \in Nat /\ rec_file' \in Nat /\ made + 1 # NoRec
        BY <1>0, <2>1, <3>3 DEF NoRec
      <3>6. job' \in Jobs /\ job'.at = "none"
        BY <2>1 DEF Jobs, NoJob
      <3>7. fscan' \in [on : BOOLEAN, left : Nat]
        BY <2>1, ScanIs DEF CycInv
      <3> QED BY <2>0, <3>2, <3>3, <3>4, <3>5, <3>6, <3>7 DEF CycInv, CycType, Fitted
    <2>2. CASE HasFirst /\ TakeFirst /\ dir' = w /\ job' = [job EXCEPT !.at = "create"]
               /\ UNCHANGED <<made, rec_file, vrec>>
      <3>1. w \in Recordings /\ Ordered(w, made) /\ OpenLast(w, rec_file)
        BY <2>2, FirstGoes
      <3>2. Taken(w, photos) <= Taken(dir, photos)
        BY <1>0, <2>2, FirstGoes
      <3> HIDE DEF w
      <3>3. Taken(w, photos) + 3 * Full <= CardSize
        BY <1>0, <2>0, <3>1, <3>2, TakenPhotos
      <3>4. job' \in Jobs /\ job' # NoJob
        BY <1>0, <2>0, <2>2 DEF Jobs, NoJob
      <3>5. fscan' \in [on : BOOLEAN, left : Nat]
        BY <2>2, ScanIs DEF CycInv
      <3> QED BY <2>0, <2>2, <3>1, <3>3, <3>4, <3>5 DEF CycInv, CycType
    <2>3. CASE fscan' = Scanned /\ job' = [job EXCEPT !.at = "create"]
               /\ UNCHANGED <<dir, made, rec_file, vrec>>
      <3>1. job' \in Jobs /\ job' # NoJob
        BY <1>0, <2>0, <2>3 DEF Jobs, NoJob
      <3>2. fscan' \in [on : BOOLEAN, left : Nat]
        BY <2>3, ScanIs DEF CycInv
      <3> QED BY <2>0, <2>3, <3>1, <3>2 DEF CycInv, CycType
    <2> QED BY <1>6, <2>1, <2>2, <2>3 DEF Reuse
  <1>7. CASE CreateFile
    <2>0. /\ job.at = "create" /\ job # NoJob /\ ~gaveUp /\ job' = NoJob
          /\ UNCHANGED <<photos, fscan, gaveUp>> /\ job' \in Jobs /\ job'.at = "none"
          /\ Taken(dir, photos) + 3 * Full <= CardSize
      BY <1>7 DEF CreateFile, CycInv, NoJob, Jobs
    <2> DEFINE x == New(0)
    <2>1. CASE made' = made + 1 /\ Begin(Append(dir, x), made + 1)
      <3>1. x \in Recording /\ x.name = made + 1 /\ x.size = 0
        BY <1>0 DEF New, Recording
      <3> HIDE DEF x
      <3>2. /\ dir' = Append(dir, x) /\ rec_file' \in {made + 1, NoRec}
            /\ vrec' \in {"start", "stop"} /\ (vrec' = "start" => rec_file' = made + 1)
        BY <2>1 DEF Begin
      <3>3. dir' \in Recordings /\ Ordered(dir', made') /\ OpenLast(dir', rec_file')
        BY <1>0, <2>1, <3>1, <3>2, AppendKeeps
      <3>4. Taken(dir', 0) + 3 * Full <= CardSize
        <4>1. Taken(dir', 0) = Taken(dir, 0) + 0
          BY <1>0, <3>1, <3>2, TakenAppend
        <4>2. Taken(dir, photos) = Taken(dir, 0) + photos
          BY <1>0, TakenPhotos
        <4> QED BY <1>0, <2>0, <4>1, <4>2, TakenInt
      <3>5. made' \in Nat /\ rec_file' \in Nat /\ made + 1 # NoRec
        BY <1>0, <2>1, <3>2 DEF NoRec
      <3> QED BY <2>0, <3>2, <3>3, <3>4, <3>5 DEF CycInv, CycType, Fitted
    <2>2. CASE vrec' = "stop" /\ UNCHANGED <<dir, made, rec_file>>
      BY <2>0, <2>2 DEF CycInv, CycType
    <2> QED BY <1>7, <2>1, <2>2 DEF CreateFile
  <1>8. CASE StopRec
    <2>1. PICK size \in 0..Full : dir' = Resized(dir, rec_file, size)
      BY <1>8 DEF StopRec
    <2>2. /\ job = NoJob /\ vrec = "start" /\ rec_file' \in {rec_file, NoRec} /\ vrec' = "stop"
          /\ UNCHANGED <<photos, made, fscan, job, gaveUp>>
      BY <1>8 DEF StopRec
    <2>3. ~gaveUp
      BY <2>2 DEF CycInv
    <2>4. dir' \in Recordings /\ Ordered(dir', made') /\ OpenLast(dir', rec_file)
      BY <1>0, <2>1, <2>2, ResizedKeeps
    <2>5. OpenLast(dir', rec_file')
      BY <2>2, <2>4 DEF OpenLast
    <2>6. rec_file' \in Nat
      BY <2>2 DEF NoRec, CycInv, CycType
    <2>7. job' \in Jobs /\ job'.at = "none"
      BY <2>2 DEF Jobs, NoJob
    <2> QED BY <2>2, <2>3, <2>4, <2>5, <2>6, <2>7 DEF CycInv, CycType
  <1>9. CASE TakePhoto
    <2>1. photos' \in 0..MaxPhotos /\ ~gaveUp'
          /\ job = NoJob /\ UNCHANGED <<dir, made, rec_file, fscan, vrec, job>>
      BY <1>0, <1>9 DEF TakePhoto
    <2>2. job'.at = "none"
      BY <2>1 DEF NoJob
    <2> QED BY <2>1, <2>2 DEF CycInv, CycType, Fitted
  <1>10. CASE PhoneDeletes
    <2>1. PICK i \in DOMAIN dir : ~IsOpen(i) /\ dir' = Without(dir, i)
      BY <1>10 DEF PhoneDeletes
    <2>2. ~gaveUp' /\ job = NoJob /\ UNCHANGED <<photos, made, rec_file, fscan, vrec, job>>
      BY <1>10 DEF PhoneDeletes
    <2>3. dir' \in Recordings /\ Ordered(dir', made') /\ OpenLast(dir', rec_file')
      BY <2>1, <2>2, OtherGoes
    <2>4. vrec = "start" => Fitted'
      <3> SUFFICES ASSUME vrec = "start" PROVE Fitted'
        OBVIOUS
      <3>1. rec_file # NoRec /\ Fitted
        BY <2>2 DEF CycInv
      <3>2. dir'[Len(dir')] = dir[Len(dir)] /\ Taken(dir', 0) <= Taken(dir, 0)
        BY <2>1, <3>1, OtherGoes
      <3>3. Taken(dir', 0) \in Int /\ Taken(dir, 0) \in Int
        BY <1>0, <2>3, TakenInt
      <3> QED BY <3>1, <3>2, <3>3 DEF Fitted
    <2>5. job'.at = "none"
      BY <2>2 DEF NoJob
    <2> QED BY <2>2, <2>3, <2>4, <2>5 DEF CycInv, CycType
  <1>11. CASE PhoneLocks
    <2>1. PICK i \in DOMAIN dir, l \in BOOLEAN : dir' = [dir EXCEPT ![i].locked = l]
      BY <1>11 DEF PhoneLocks
    <2>2. ~gaveUp' /\ job = NoJob /\ UNCHANGED <<photos, made, rec_file, fscan, vrec, job>>
      BY <1>11 DEF PhoneLocks
    <2>3. /\ dir' \in Recordings /\ Len(dir') = Len(dir) /\ Len(dir) \in Nat
          /\ \A k \in 1..Len(dir) : dir'[k].name = dir[k].name /\ dir'[k].size = dir[k].size
      <3>1. Len(dir) \in Nat /\ i \in 1..Len(dir) /\ dir[i] \in Recording
        BY <1>0 DEF Recordings
      <3> DEFINE r == [dir[i] EXCEPT !.locked = l]
      <3>2. r \in Recording /\ r.name = dir[i].name /\ r.size = dir[i].size
        BY <3>1 DEF Recording
      <3>3. dir' = [dir EXCEPT ![i] = r]
        BY <2>1
      <3> HIDE DEF r
      <3> QED BY <1>0, <3>1, <3>2, <3>3 DEF Recordings
    <2>4. Taken(dir', 0) = Taken(dir, 0)
      <3> DEFINE p == 0
      <3>1. p \in Int
        OBVIOUS
      <3> HIDE DEF p
      <3>2. \A k \in 1..Len(dir) : dir'[k].size = dir[k].size
        BY <2>3
      <3>3. Taken(dir', p) = Taken(dir, p) + p - p
        BY <1>0, <2>3, <3>1, <3>2, TakenAlike
      <3>4. Taken(dir, p) \in Int
        BY <1>0, <3>1, TakenPhotos
      <3> QED BY <3>1, <3>3, <3>4 DEF p
    <2>5. Ordered(dir', made') /\ OpenLast(dir', rec_file')
      BY <1>0, <2>2, <2>3 DEF Ordered, OpenLast
    <2>6. vrec = "start" => Fitted'
      <3> SUFFICES ASSUME vrec = "start" PROVE Fitted'
        OBVIOUS
      <3>1. rec_file # NoRec /\ Fitted /\ Len(dir) > 0
        BY <1>0, <2>2 DEF CycInv, OpenLast
      <3> QED BY <2>3, <2>4, <3>1 DEF Fitted
    <2>7. job'.at = "none"
      BY <2>2 DEF NoJob
    <2> QED BY <2>2, <2>3, <2>5, <2>6, <2>7 DEF CycInv, CycType
  <1>12. CASE ReleaseScan
    <2>1. fscan' \in [on : BOOLEAN, left : Nat] /\ UNCHANGED <<dir, photos, made, rec_file, vrec, job, gaveUp>>
      BY <1>12 DEF ReleaseScan, NoScan
    <2> QED BY <2>1 DEF CycInv, CycType, Fitted, Deletable, IsOpen
  <1>13. CASE UNCHANGED cycVars
    BY <1>13 DEF cycVars, CycInv, CycType, Fitted, Deletable, IsOpen
  <1> QED BY <1>1, <1>2, <1>3, <1>4, <1>5, <1>6, <1>7, <1>8, <1>9, <1>10, <1>11, <1>12, <1>13
          DEF CycNext

LEMMA CycAlways == CycSpec => []CycInv
  <1>1. CycInit => CycInv
    <2> SUFFICES ASSUME CycInit PROVE CycInv
      OBVIOUS
    <2>1. dir \in Recordings /\ Len(dir) = 0
      BY DEF CycInit, Recordings
    <2>2. job \in Jobs /\ job.at = "none" /\ fscan \in [on : BOOLEAN, left : Nat]
      BY DEF CycInit, Jobs, NoJob, NoScan
    <2> QED BY CardAssumption, <2>1, <2>2 DEF CycInit, CycInv, CycType, Ordered, OpenLast, NoRec
  <1> QED BY <1>1, CycStep, PTL DEF CycSpec

\* Room is never made by taking the file that is open, and it is given up only
\* when there is nothing else to take (video_rec.c:655).
THEOREM RoomTheorem == CycSpec => []RoomRightly
  <1>1. CycInv => RoomRightly
    <2> SUFFICES ASSUME CycInv PROVE rec_file # NoRec => rec_file \in Names
      BY DEF RoomRightly, CycInv
    <2>1. Len(dir) \in Nat /\ DOMAIN dir = 1..Len(dir)
      BY DEF CycInv, CycType, Recordings
    <2> QED BY <2>1 DEF Names, CycInv, OpenLast
  <1> QED BY <1>1, CycAlways, PTL

\* A recording that has started has the room for its full size.
THEOREM FitsTheorem == CycSpec => []StartedFits
  <1>1. CycInv => StartedFits
    <2> SUFFICES ASSUME CycInv, vrec = "start", job = NoJob, MaxPhotos <= 2 * Full
                 PROVE  SizeOf(rec_file) = Full \/ FreeSpace >= Full
      BY DEF StartedFits
    <2>1. rec_file # NoRec /\ Fitted
      BY DEF CycInv
    <2>2. SizeOf(rec_file) = dir[Len(dir)].size
      BY <2>1, SizeOfOpen
    <2>3. dir \in Recordings /\ photos \in 0..MaxPhotos
      BY DEF CycInv, CycType
    <2>4. Taken(dir, photos) = Taken(dir, 0) + photos /\ Taken(dir, 0) \in Int
      BY <2>3, CardAssumption, TakenPhotos, TakenInt
    <2> QED BY <2>1, <2>2, <2>3, <2>4, CardAssumption, FullAssumption DEF Fitted, FreeSpace
  <1> QED BY <1>1, CycAlways, PTL

-----------------------------------------------------------------------------
(* The index of a file (AviReader). *)

\* p lists, in order, the positions up to n of the chunks of a kind.
Lists(p, ix, kind, n) ==
    /\ p \in Seq(Nat)
    /\ \A k \in 1..Len(p) : p[k] \in 0..(n - 1) /\ ix[p[k] + 1] \in kind
    /\ \A i \in 1..n : ix[i] \in kind => \E k \in 1..Len(p) : p[k] = i - 1
    /\ \A k, l \in 1..Len(p) : k < l => p[k] < p[l]

LEMMA ListsMore ==
  ASSUME NEW ix, NEW kind, NEW n \in Nat, NEW p, Lists(p, ix, kind, n)
  PROVE  Lists(IF ix[n + 1] \in kind THEN Append(p, n) ELSE p, ix, kind, n + 1)
  <1>1. CASE ix[n + 1] \notin kind
    <2>1. \A i \in 1..(n + 1) : i \in 1..n \/ i = n + 1
      OBVIOUS
    <2> QED BY <1>1, <2>1 DEF Lists
  <1>2. CASE ix[n + 1] \in kind
    <2> DEFINE q == Append(p, n)
    <2>1. /\ Len(p) \in Nat /\ q \in Seq(Nat) /\ Len(q) = Len(p) + 1 /\ q[Len(p) + 1] = n
          /\ \A k \in 1..Len(p) : q[k] = p[k]
      BY DEF Lists
    <2>2. \A k \in 1..(Len(p) + 1) : k \in 1..Len(p) \/ k = Len(p) + 1
      BY <2>1
    <2> HIDE DEF q
    <2>3. \A k \in 1..Len(p) : p[k] \in 0..(n - 1) /\ ix[p[k] + 1] \in kind
      BY DEF Lists
    <2>4. \A k \in 1..Len(q) : q[k] \in 0..((n + 1) - 1) /\ ix[q[k] + 1] \in kind
      <3> SUFFICES ASSUME NEW k \in 1..(Len(p) + 1)
                   PROVE  q[k] \in 0..((n + 1) - 1) /\ ix[q[k] + 1] \in kind
        BY <2>1
      <3>1. CASE k \in 1..Len(p)
        <4>1. q[k] = p[k]
          BY <2>1, <3>1
        <4>2. p[k] \in 0..(n - 1) /\ ix[p[k] + 1] \in kind
          BY <2>3, <3>1
        <4> QED BY <4>1, <4>2
      <3>2. CASE k = Len(p) + 1
        <4>1. q[k] = n
          BY <2>1, <3>2
        <4> QED BY <1>2, <4>1
      <3> QED BY <2>2, <3>1, <3>2
    <2>5. ASSUME NEW i \in 1..(n + 1), ix[i] \in kind PROVE \E k \in 1..Len(q) : q[k] = i - 1
      <3>1. CASE i = n + 1
        BY <2>1, <3>1
      <3>2. CASE i \in 1..n
        <4>1. PICK k \in 1..Len(p) : p[k] = i - 1
          BY <2>5, <3>2 DEF Lists
        <4> QED BY <2>1, <4>1
      <3> QED BY <3>1, <3>2
    <2>6. ASSUME NEW k \in 1..Len(q), NEW l \in 1..Len(q), k < l PROVE q[k] < q[l]
      <3>1. k \in 1..Len(p) /\ q[k] = p[k]
        BY <2>1, <2>2, <2>6
      <3>2. CASE l = Len(p) + 1
        BY <2>1, <2>3, <3>1, <3>2
      <3>3. CASE l \in 1..Len(p)
        BY <2>1, <2>6, <3>1, <3>3 DEF Lists
      <3> QED BY <2>1, <2>2, <3>2, <3>3
    <2>7. Lists(q, ix, kind, n + 1)
      BY <2>1, <2>4, <2>5, <2>6 DEF Lists
    <2> QED BY <1>2, <2>7 DEF q
  <1> QED BY <1>1, <1>2

\* Places finds exactly the chunks of the kind.
LEMMA PlacesList ==
  ASSUME NEW ix, Len(ix) \in Nat, NEW kind
  PROVE  Lists(Places(ix, kind), ix, kind, Len(ix))
  <1> DEFINE n == Len(ix)
             next(i, x) == IF ix[i] \in kind THEN Append(x, i - 1) ELSE x
             g == [i \in 1..n |-> [x \in Seq(Nat) |-> next(i, x)]]
             Unfolds(f) == f = [i \in 0..n |-> IF i = 0 THEN <<>> ELSE next(i, f[i - 1])]
  <1>1. n \in Nat
    OBVIOUS
  <1>2. PICK f : Unfolds(f)
    <2> DEFINE S == Seq(Nat)
               b == <<>>
    <2>1. Steps(0, n, S, g) /\ b \in S
      <3>1. \A i \in 1..n : \A x \in Seq(Nat) : next(i, x) \in Seq(Nat)
        OBVIOUS
      <3> QED BY <1>1, <3>1 DEF Steps
    <2>2. \A i \in 1..n : \A x \in S : g[i][x] = next(i, x)
      OBVIOUS
    <2> HIDE DEF n, g, S, b
    <2>3. PICK f : Runs(f, 0, n, S, b, g)
      BY <1>1, <2>1, Recursion
    <2>4. f \in [0..n -> S] /\ f[0] = b /\ \A i \in 1..n : f[i] = g[i][f[i - 1]]
      BY <2>3 DEF Runs
    <2>5. \A i \in 1..n : f[i - 1] \in S
      BY <1>1, <2>4
    <2>6. \A i \in 1..n : f[i] = next(i, f[i - 1])
      BY <2>2, <2>4, <2>5
    <2> HIDE DEF next
    <2>7. f = [i \in 0..n |-> IF i = 0 THEN b ELSE next(i, f[i - 1])]
      BY <1>1, <2>4, <2>6
    <2>8. Unfolds(f)
      BY <2>7 DEF b
    <2> QED BY <2>8
  <1> DEFINE u == CHOOSE v : Unfolds(v)
  <1>3. Unfolds(u)
    BY <1>2
  <1>4. Places(ix, kind) = u[n]
    BY DEF Places
  <1>5. u[0] = <<>> /\ \A i \in 1..n : u[i] = next(i, u[i - 1])
    <2> HIDE DEF u, next
    <2>1. \A i \in 0..n : u[i] = IF i = 0 THEN <<>> ELSE next(i, u[i - 1])
      BY <1>3
    <2> QED BY <1>1, <2>1
  <1> DEFINE T == {i \in 0..n : Lists(u[i], ix, kind, i)}
  <1>6. Upward(0, n, T)
    <2> HIDE DEF u
    <2>1. Lists(<<>>, ix, kind, 0)
      BY DEF Lists
    <2>2. 0 \in T
      BY <1>1, <1>5, <2>1
    <2>3. ASSUME NEW k \in 1..n, k - 1 \in T PROVE k \in T
      <3> DEFINE m == k - 1
                 p == u[m]
      <3>1. Lists(p, ix, kind, m) /\ m \in Nat /\ m + 1 = k
        BY <2>3
      <3>2. p = u[k - 1] /\ m = k - 1
        OBVIOUS
      <3> HIDE DEF p, m
      <3>3. Lists(IF ix[m + 1] \in kind THEN Append(p, m) ELSE p, ix, kind, m + 1)
        BY <3>1, ListsMore
      <3>4. u[k] = IF ix[m + 1] \in kind THEN Append(p, m) ELSE p
        BY <1>5, <3>1, <3>2
      <3>5. Lists(u[k], ix, kind, k)
        BY <3>1, <3>3, <3>4
      <3> QED BY <3>5
    <2>4. \A k \in (0 + 1)..n : k - 1 \in T => k \in T
      <3> HIDE DEF T
      <3> QED BY <2>3
    <2> HIDE DEF T
    <2> QED BY <2>2, <2>4 DEF Upward
  <1>7. n \in T
    <2> HIDE DEF T, n
    <2>1. 0..n \subseteq T
      BY <1>1, <1>6, Induction
    <2> QED BY <1>1, <2>1
  <1> QED BY <1>4, <1>7

-----------------------------------------------------------------------------
\* d says how far f goes from each of m..n to the next.
Differs(d, f, m, n) ==
    \A i \in m..n : f[i] \in Int /\ (i > m => d[i] = f[i] - f[i - 1])

\* Then the sum of the distances is how far f goes in all.
LEMMA SumIs ==
  ASSUME NEW m \in Int, NEW n \in Int, m <= n, NEW d, NEW f, Differs(d, f, m, n)
  PROVE  Sum(d, m, n) = f[n] - f[m]
  <1> DEFINE Unfolds(v) == v = [i \in m..n |-> IF i = m THEN 0 ELSE v[i - 1] + d[i]]
             s == CHOOSE v : Unfolds(v)
             z == 0
  <1>1. \E v : Unfolds(v)
    <2> DEFINE w == [i \in m..n |-> f[i] - f[m]]
    <2>1. \A i \in m..n : w[i] = IF i = m THEN 0 ELSE w[i - 1] + d[i]
      <3> SUFFICES ASSUME NEW i \in m..n PROVE w[i] = IF i = m THEN 0 ELSE w[i - 1] + d[i]
        OBVIOUS
      <3>1. CASE i = m
        BY <3>1 DEF Differs
      <3>2. CASE i # m
        <4>1. i - 1 \in m..n /\ i > m /\ m \in m..n
          BY <3>2
        <4>2. f[i] \in Int /\ f[i - 1] \in Int /\ f[m] \in Int /\ d[i] = f[i] - f[i - 1]
          BY <4>1 DEF Differs
        <4>3. w[i] = f[i] - f[m] /\ w[i - 1] = f[i - 1] - f[m]
          BY <4>1
        <4> HIDE DEF w
        <4> QED BY <3>2, <4>2, <4>3
      <3> QED BY <3>1, <3>2
    <2>2. w = [i \in m..n |-> w[i]]
      OBVIOUS
    <2> HIDE DEF w
    <2>3. Unfolds(w)
      BY <2>1, <2>2
    <2> QED BY <2>3
  <1>2. Unfolds(s)
    BY <1>1
  <1>3. Sum(d, m, n) = s[n]
    BY DEF Sum
  <1>4. s[m] = 0 /\ \A i \in (m + 1)..n : s[i] = s[i - 1] + d[i]
    <2> HIDE DEF s
    <2>1. \A i \in m..n : s[i] = IF i = m THEN 0 ELSE s[i - 1] + d[i]
      BY <1>2
    <2> QED BY <2>1
  <1> HIDE DEF s, Unfolds
  <1> DEFINE T == {i \in m..n : s[i] = f[i] - f[m]}
  <1>5. m \in T
    BY <1>4 DEF Differs
  <1>6. ASSUME NEW k \in (m + 1)..n, k - 1 \in T PROVE k \in T
    <2>1. k \in m..n /\ k - 1 \in m..n /\ m \in m..n /\ k > m
      OBVIOUS
    <2>2. f[k] \in Int /\ f[k - 1] \in Int /\ f[m] \in Int /\ d[k] = f[k] - f[k - 1]
      BY <2>1 DEF Differs
    <2>3. s[k] = f[k] - f[m]
      BY <1>4, <1>6, <2>2
    <2> QED BY <2>1, <2>3
  <1>7. Upward(m, n, T)
    <2> HIDE DEF T
    <2> QED BY <1>5, <1>6 DEF Upward
  <1>8. n \in T
    <2> HIDE DEF T
    <2>1. m..n \subseteq T
      BY <1>7, Induction
    <2> QED BY <2>1
  <1> QED BY <1>3, <1>8

\* Where the frames of a kind are, and the start of the index before them.
PlaceOf(ix, kind) == [k \in 0..Len(Places(ix, kind)) |-> IF k = 0 THEN 0 ELSE Places(ix, kind)[k]]

\* The distances of a file fit into a byte (DistancesFit, for one kind).
Fits(ix, kind) ==
    LET at == Places(ix, kind)
    IN  \A i \in DOMAIN at : at[i] - (IF i = 1 THEN 0 ELSE at[i - 1]) < AviByte

\* They then say how far the places are from each other.
LEMMA DistancesAre ==
  ASSUME NEW ix, Len(ix) \in Nat, NEW kind, Fits(ix, kind)
  PROVE  /\ Len(Distances(ix, kind)) = Len(Places(ix, kind))
         /\ Len(Places(ix, kind)) \in Nat
         /\ Differs(Distances(ix, kind), PlaceOf(ix, kind), 0, Len(Places(ix, kind)))
  <1> DEFINE p == Places(ix, kind)
             n == Len(p)
             at == PlaceOf(ix, kind)
             d == Distances(ix, kind)
             step(i) == p[i] - (IF i = 1 THEN 0 ELSE p[i - 1])
  <1>1. /\ p \in Seq(Nat) /\ n \in Nat /\ DOMAIN p = 1..n
        /\ \A k, l \in 1..n : k < l => p[k] < p[l]
        /\ \A k \in 1..n : p[k] \in Nat
    BY PlacesList DEF Lists
  <1>2. d = [i \in 1..n |-> step(i) % AviByte]
    BY <1>1 DEF Distances
  <1>3. at = [k \in 0..n |-> IF k = 0 THEN 0 ELSE p[k]]
    BY DEF PlaceOf
  <1>4. ASSUME NEW i \in 1..n PROVE step(i) \in Nat /\ step(i) < AviByte
    <2>1. step(i) < AviByte
      BY <1>1 DEF Fits
    <2>2. CASE i = 1
      BY <1>1, <2>1, <2>2
    <2>3. CASE i # 1
      <3>1. i - 1 \in 1..n /\ i - 1 < i
        BY <2>3
      <3>2. p[i - 1] < p[i] /\ p[i] \in Nat /\ p[i - 1] \in Nat
        BY <1>1, <3>1
      <3> QED BY <2>1, <2>3, <3>2
    <2> QED BY <2>2, <2>3
  <1>5. ASSUME NEW i \in 1..n PROVE d[i] = step(i)
    <2> DEFINE x == step(i)
    <2>1. x \in Nat /\ x < AviByte /\ d[i] = x % AviByte
      BY <1>2, <1>4
    <2> HIDE DEF x
    <2>2. x % AviByte = x
      BY <2>1, ByteAssumption, SmallMod
    <2> QED BY <2>1, <2>2 DEF x
  <1>6. Len(d) = n
    BY <1>1, <1>2
  <1> HIDE DEF d, at, n, p
  <1>7. ASSUME NEW i \in 0..n PROVE at[i] \in Int /\ (i > 0 => d[i] = at[i] - at[i - 1])
    <2>1. CASE i = 0
      BY <1>3, <2>1
    <2>2. CASE i # 0
      <3>1. i \in 1..n /\ i - 1 \in 0..n
        BY <1>1, <2>2
      <3>2. at[i] = p[i] /\ at[i - 1] = (IF i = 1 THEN 0 ELSE p[i - 1]) /\ p[i] \in Nat
        BY <1>1, <1>3, <3>1
      <3>3. d[i] = step(i)
        BY <1>5, <3>1
      <3> QED BY <3>2, <3>3
    <2> QED BY <2>1, <2>2
  <1>8. Differs(d, at, 0, n)
    BY <1>7 DEF Differs
  <1> QED BY <1>1, <1>6, <1>8 DEF d, at, n, p

-----------------------------------------------------------------------------
(* The requests (AviReader). *)

\* The reader of a kind: its distances are those of the file, and its last
\* request's sum is where that frame is; or the index was not found.
Serves(kind, d, last) ==
    \/ /\ d = Distances(index, kind)
       /\ last.num \in 0..Len(d) /\ last.sum = PlaceOf(index, kind)[last.num]
    \/ d = <<>> /\ last = Fresh

AviType ==
    /\ index \in Indexes
    /\ handle.open \in BOOLEAN
    /\ DOMAIN handle = {"open", "video", "audio", "vd", "ad"}

\* Both lists of distances are of the file, or the index was not found.
Opened ==
    handle.open =>
        \/ handle.video = Distances(index, Video) /\ handle.audio = Distances(index, Audio)
        \/ handle.video = <<>> /\ handle.audio = <<>>

Served ==
    handle.open /\ DistancesFit =>
        Serves(Video, handle.video, handle.vd) /\ Serves(Audio, handle.audio, handle.ad)

AviInv == AviType /\ Opened /\ Served /\ AnswerRight

LEMMA IndexLen ==
  ASSUME NEW ix \in Indexes
  PROVE  Len(ix) \in Nat /\ DOMAIN ix = 1..Len(ix)
  BY ByteAssumption DEF Indexes

LEMMA FitsAre ==
  DistancesFit <=> Fits(index, Video) /\ Fits(index, Audio)
  <1>1. \A kind : kind \in {Video, Audio} <=> kind = Video \/ kind = Audio
    OBVIOUS
  <1> QED BY <1>1 DEF DistancesFit, Fits

\* An index that is not found has no frames.
LEMMA NoDistances ==
  ASSUME NEW kind
  PROVE  Distances(<<>>, kind) = <<>>
  <1> DEFINE ix == <<>>
             p == Places(ix, kind)
  <1>1. Len(ix) = 0 /\ Len(ix) \in Nat
    OBVIOUS
  <1> HIDE DEF ix
  <1>2. Lists(p, ix, kind, 0)
    BY <1>1, PlacesList
  <1>3. p \in Seq(Nat) /\ \A k \in 1..Len(p) : p[k] \in 0..(0 - 1)
    BY <1>2 DEF Lists
  <1>4. Len(p) = 0
    <2>1. Len(p) \in Nat
      BY <1>3
    <2>2. ASSUME Len(p) # 0 PROVE FALSE
      <3>1. 1 \in 1..Len(p)
        BY <2>1, <2>2
      <3> QED BY <1>3, <3>1
    <2> QED BY <2>2
  <1>5. DOMAIN p = {} /\ p = <<>>
    BY <1>3, <1>4
  <1> HIDE DEF p
  <1>6. Distances(ix, kind) = [i \in {} |-> (p[i] - (IF i = 1 THEN 0 ELSE p[i - 1])) % AviByte]
    BY <1>5 DEF Distances, p
  <1> QED BY <1>6 DEF ix

\* A request leaves the sum where its frame is.
LEMMA ContinuedReaches ==
  ASSUME index \in Indexes, NEW kind, Fits(index, kind),
         NEW d, NEW last, Serves(kind, d, last), NEW num \in 1..Len(d)
  PROVE  /\ Serves(kind, d, Continued(d, last, num))
         /\ Continued(d, last, num).sum = PlaceOf(index, kind)[num]
  <1> DEFINE at == PlaceOf(index, kind)
             n == Len(d)
  <1>1. d # <<>>
    OBVIOUS
  <1>2. d = Distances(index, kind) /\ last.num \in 0..n /\ last.sum = at[last.num]
    BY <1>1 DEF Serves
  <1>3. n \in Nat /\ Differs(d, at, 0, n)
    BY <1>2, IndexLen, DistancesAre
  <1>4. at[0] = 0
    BY <1>2, IndexLen, DistancesAre DEF PlaceOf
  <1> HIDE DEF at, n
  <1>5. \A i \in 0..n : at[i] \in Int
    BY <1>3 DEF Differs
  <1>6. ASSUME NEW m \in 0..n, m <= num PROVE Sum(d, m, num) = at[num] - at[m]
    <2>1. m \in Int /\ num \in Int /\ num \in 0..n
      BY <1>3 DEF n
    <2>2. Differs(d, at, m, num)
      BY <1>3, <2>1 DEF Differs
    <2> QED BY <1>6, <2>1, <2>2, SumIs
  <1>7. num \in 0..n /\ 0 \in 0..n
    BY <1>3 DEF n
  <1> DEFINE sum == IF num < last.num THEN Sum(d, 0, num)
                    ELSE last.sum + Sum(d, last.num, num)
  <1>8. sum = at[num]
    <2>1. CASE num < last.num
      <3>1. Sum(d, 0, num) = at[num] - at[0]
        BY <1>3, <1>6, <1>7
      <3> QED BY <1>4, <1>5, <1>7, <2>1, <3>1
    <2>2. CASE ~(num < last.num)
      <3>1. last.num <= num
        BY <1>2, <1>3, <1>7, <2>2
      <3>2. Sum(d, last.num, num) = at[num] - at[last.num]
        BY <1>2, <1>6, <3>1
      <3> QED BY <1>2, <1>5, <1>7, <2>2, <3>2
    <2> QED BY <2>1, <2>2
  <1>9. Continued(d, last, num) = [num |-> num, sum |-> sum]
    BY DEF Continued
  <1> HIDE DEF sum
  <1> QED BY <1>2, <1>7, <1>8, <1>9 DEF Serves, at, n

\* The search from the frame's place answers what the index says.
Answers(found, kind, num) ==
    LET here == Here(kind, num)
    IN  IF here # {} THEN found + 1 \in here /\ \A i \in here : found + 1 <= i
        ELSE found = Nothing

LEMMA SearchAnswers ==
  ASSUME index \in Indexes, NEW kind, NEW num \in Nat, NEW from,
         Here(kind, num) = {i \in DOMAIN index : i > from /\ index[i] \in kind \ {"e"}}
  PROVE  Answers(Search(kind, from), kind, num)
  <1> DEFINE here == Here(kind, num)
  <1>1. here \subseteq Nat
    BY IndexLen DEF Here
  <1>2. Search(kind, from) = IF here = {} THEN Nothing
                             ELSE (CHOOSE i \in here : \A j \in here : i <= j) - 1
    BY DEF Search
  <1> HIDE DEF here
  <1>3. CASE here = {}
    BY <1>2, <1>3 DEF Answers, here
  <1>4. CASE here # {}
    <2> DEFINE least == CHOOSE i \in here : \A j \in here : i <= j
    <2>1. \E i \in here : \A j \in here : i <= j
      BY <1>1, <1>4, LeastNumber
    <2>2. least \in here /\ \A j \in here : least <= j
      BY <2>1
    <2>3. Search(kind, from) = least - 1
      BY <1>2, <1>4
    <2> HIDE DEF least
    <2>4. Search(kind, from) + 1 = least
      BY <1>1, <2>2, <2>3
    <2> QED BY <1>4, <2>2, <2>4 DEF Answers, here
  <1> QED BY <1>3, <1>4

\* Frame num is at its place; frame 1 is the first of its kind.
LEMMA HereIs ==
  ASSUME index \in Indexes, NEW kind, NEW num \in 1..Len(Places(index, kind)),
         NEW from, from = PlaceOf(index, kind)[num] \/ (num = 1 /\ from = 0)
  PROVE  Here(kind, num) = {i \in DOMAIN index : i > from /\ index[i] \in kind \ {"e"}}
  <1> DEFINE p == Places(index, kind)
  <1>1. /\ p \in Seq(Nat) /\ Len(p) \in Nat /\ DOMAIN p = 1..Len(p)
        /\ \A i \in DOMAIN index : index[i] \in kind => \E k \in 1..Len(p) : p[k] = i - 1
        /\ \A k, l \in 1..Len(p) : k < l => p[k] < p[l]
        /\ \A k \in 1..Len(p) : p[k] \in Nat
    <2>1. Len(index) \in Nat /\ DOMAIN index = 1..Len(index)
      BY IndexLen
    <2>2. Lists(p, index, kind, Len(index))
      BY <2>1, PlacesList
    <2> HIDE DEF p
    <2> QED BY <2>1, <2>2 DEF Lists
  <1>2. Here(kind, num) = {i \in DOMAIN index : i - 1 >= p[num] /\ index[i] \in kind \ {"e"}}
    BY <1>1 DEF Here
  <1>3. PlaceOf(index, kind)[num] = p[num]
    BY <1>1 DEF PlaceOf
  <1>4. DOMAIN index \subseteq Nat \ {0}
    BY IndexLen
  <1>5. num \in 1..Len(p) /\ p[num] \in Nat
    BY <1>1
  <1> HIDE DEF p
  <1>6. CASE from = p[num]
    <2>1. \A i \in DOMAIN index : i - 1 >= p[num] <=> i > from
      BY <1>4, <1>5, <1>6
    <2> QED BY <1>2, <2>1
  <1>7. CASE num = 1 /\ from = 0
    <2>1. ASSUME NEW i \in DOMAIN index, index[i] \in kind PROVE i - 1 >= p[num] /\ i > from
      <3>1. PICK k \in 1..Len(p) : p[k] = i - 1
        BY <1>1, <2>1
      <3>2. k = 1 \/ p[1] < p[k]
        BY <1>1, <1>5, <1>7, <3>1
      <3> QED BY <1>4, <1>5, <1>7, <3>1, <3>2
    <2> QED BY <1>2, <2>1
  <1> QED BY <1>3, <1>6, <1>7 DEF p

\* What AnswerRight says of an answer.
Right(kind, num, at) ==
    LET here == Here(kind, num)
        found == handle.video # <<>> \/ handle.audio # <<>>
    IN  IF found /\ here # {}
        THEN at + 1 \in here /\ \A i \in here : at + 1 <= i
        ELSE at = Nothing

\* A request is answered right when its search starts where its frame is, and
\* there are no frames after the last.
LEMMA AskedRight ==
  ASSUME AviInv, handle.open, DistancesFit, NEW num \in Nat \ {0}, NEW kind, NEW d,
         \/ kind = Video /\ d = handle.video
         \/ kind = Audio /\ d = handle.audio,
         NEW from,
         num \in 1..Len(d) => from = PlaceOf(index, kind)[num] \/ (num = 1 /\ from = 0)
  PROVE  Right(kind, num, IF num > Len(d) THEN Nothing ELSE Search(kind, from))
  <1> DEFINE at == IF num > Len(d) THEN Nothing ELSE Search(kind, from)
             found == handle.video # <<>> \/ handle.audio # <<>>
  <1>1. index \in Indexes /\ Fits(index, kind)
    BY FitsAre DEF AviInv, AviType
  <1>2. d = Distances(index, kind) \/ (d = <<>> /\ ~found)
    BY DEF AviInv, Opened
  <1>3. CASE ~found
    <2>1. d = <<>>
      BY <1>3
    <2>2. Len(d) = 0
      BY <2>1
    <2> QED BY <1>3, <2>2 DEF Right
  <1>4. CASE d = Distances(index, kind)
    <2>1. Len(Places(index, kind)) = Len(d) /\ Len(d) \in Nat
      BY <1>1, <1>4, IndexLen, DistancesAre
    <2>2. CASE num > Len(d)
      <3>1. Places(index, kind) \in Seq(Nat)
        BY <1>1, IndexLen, PlacesList DEF Lists
      <3>2. num \notin DOMAIN Places(index, kind)
        BY <2>1, <2>2, <3>1
      <3>3. Here(kind, num) = {}
        BY <3>2 DEF Here
      <3> QED BY <2>2, <3>3 DEF Right
    <2>3. CASE ~(num > Len(d))
      <3>1. num \in 1..Len(Places(index, kind))
            /\ (from = PlaceOf(index, kind)[num] \/ (num = 1 /\ from = 0))
        BY <2>1, <2>3
      <3>2. Here(kind, num) = {i \in DOMAIN index : i > from /\ index[i] \in kind \ {"e"}}
        BY <1>1, <3>1, HereIs
      <3>3. Answers(Search(kind, from), kind, num)
        BY <1>1, <3>2, SearchAnswers
      <3>4. CASE found
        BY <2>3, <3>3, <3>4 DEF Right, Answers
      <3> QED BY <1>3, <3>4
    <2> QED BY <2>2, <2>3
  <1> QED BY <1>2, <1>3, <1>4

\* A request that starts again starts at the first frame.
LEMMA FreshServes ==
  ASSUME index \in Indexes, NEW kind, Fits(index, kind), NEW d,
         d = <<>> \/ d = Distances(index, kind)
  PROVE  Serves(kind, d, Fresh)
  <1>1. CASE d = Distances(index, kind)
    <2>1. Len(d) \in Nat /\ Len(Places(index, kind)) \in Nat
      BY <1>1, IndexLen, DistancesAre
    <2>2. PlaceOf(index, kind)[0] = 0 /\ 0 \in 0..Len(d)
      BY <2>1 DEF PlaceOf
    <2> QED BY <1>1, <2>2 DEF Serves, Fresh
  <1> QED BY <1>1 DEF Serves

LEMMA GetVideoKeeps ==
  ASSUME AviInv, NEW num \in Nat \ {0}, GetVideo(num)
  PROVE  AviInv'
  <1> DEFINE cont == IF num <= 1 THEN Fresh ELSE Continued(handle.video, handle.vd, num)
             at == IF num > Len(handle.video) THEN Nothing ELSE Search(Video, cont.sum)
  <1>1. /\ AviType' /\ index' = index /\ handle.open
        /\ handle'.video = handle.video /\ handle'.audio = handle.audio /\ handle'.ad = handle.ad
        /\ handle'.vd = IF num > Len(handle.video) THEN handle.vd ELSE cont
    BY DEF GetVideo, AviInv, AviType
  <1>2. answer' = [kind |-> Video, num |-> num, at |-> at]
    BY DEF GetVideo
  <1>3. ASSUME DistancesFit
        PROVE  /\ Serves(Video, handle.video, handle'.vd)
               /\ Serves(Audio, handle.audio, handle.ad)
               /\ num \in 1..Len(handle.video) =>
                      cont.sum = PlaceOf(index, Video)[num] \/ (num = 1 /\ cont.sum = 0)
    <2>1. Serves(Video, handle.video, handle.vd) /\ Serves(Audio, handle.audio, handle.ad)
      BY <1>1, <1>3 DEF AviInv, Served
    <2>2. index \in Indexes /\ Fits(index, Video)
      BY <1>3, FitsAre DEF AviInv, AviType
    <2>3. CASE num <= 1
      <3>1. Serves(Video, handle.video, Fresh)
        BY <2>1, <2>2, FreshServes DEF Serves
      <3>2. cont = Fresh /\ num = 1 /\ Fresh.sum = 0
        BY <2>3 DEF Fresh
      <3> HIDE DEF cont
      <3> QED BY <1>1, <2>1, <3>1, <3>2
    <2>4. CASE ~(num <= 1) /\ num \in 1..Len(handle.video)
      <3>1. cont = Continued(handle.video, handle.vd, num)
        BY <2>4
      <3>2. Serves(Video, handle.video, cont) /\ cont.sum = PlaceOf(index, Video)[num]
        BY <2>1, <2>2, <2>4, <3>1, ContinuedReaches
      <3> HIDE DEF cont
      <3> QED BY <1>1, <2>1, <2>4, <3>2
    <2>5. CASE ~(num <= 1) /\ num \notin 1..Len(handle.video)
      <3>1. Len(handle.video) \in Nat
        BY <2>1, <2>2, IndexLen, DistancesAre DEF Serves
      <3>2. num > Len(handle.video)
        BY <2>5, <3>1
      <3> QED BY <1>1, <2>1, <2>5, <3>2
    <2> QED BY <2>3, <2>4, <2>5
  <1> HIDE DEF cont
  <1>4. Opened'
    BY <1>1 DEF AviInv, Opened
  <1>5. Served'
    BY <1>1, <1>3 DEF Served, DistancesFit, Serves, PlaceOf
  <1>6. ASSUME DistancesFit PROVE Right(Video, num, at)
    BY <1>1, <1>3, <1>6, AskedRight
  <1> HIDE DEF at
  <1>7. AnswerRight'
    BY <1>1, <1>2, <1>6 DEF AnswerRight, DistancesFit, Here, Right
  <1> QED BY <1>1, <1>4, <1>5, <1>7 DEF AviInv

LEMMA GetAudioKeeps ==
  ASSUME AviInv, NEW num \in Nat \ {0}, GetAudio(num)
  PROVE  AviInv'
  <1> DEFINE last == IF num <= 1 THEN Fresh ELSE handle.ad
             cont == Continued(handle.audio, last, IF num <= 1 THEN 1 ELSE num)
             at == IF num > Len(handle.audio) THEN Nothing ELSE Search(Audio, cont.sum)
  <1>1. /\ AviType' /\ index' = index /\ handle.open
        /\ handle'.video = handle.video /\ handle'.audio = handle.audio /\ handle'.vd = handle.vd
        /\ handle'.ad = IF num > Len(handle.audio) THEN handle.ad ELSE cont
    BY DEF GetAudio, AviInv, AviType
  <1>2. answer' = [kind |-> Audio, num |-> num, at |-> at]
    BY DEF GetAudio
  <1>3. cont = Continued(handle.audio, last, num)
    <2>1. (IF num <= 1 THEN 1 ELSE num) = num
      OBVIOUS
    <2> QED BY <2>1
  <1> HIDE DEF cont
  <1>4. ASSUME DistancesFit
        PROVE  /\ Serves(Video, handle.video, handle.vd)
               /\ Serves(Audio, handle.audio, handle'.ad)
               /\ num \in 1..Len(handle.audio) => cont.sum = PlaceOf(index, Audio)[num]
    <2>1. Serves(Video, handle.video, handle.vd) /\ Serves(Audio, handle.audio, handle.ad)
      BY <1>1, <1>4 DEF AviInv, Served
    <2>2. index \in Indexes /\ Fits(index, Audio)
      BY <1>4, FitsAre DEF AviInv, AviType
    <2>3. Serves(Audio, handle.audio, last)
      BY <2>1, <2>2, FreshServes DEF Serves
    <2>4. CASE num \in 1..Len(handle.audio)
      <3>1. Serves(Audio, handle.audio, cont) /\ cont.sum = PlaceOf(index, Audio)[num]
        <4> HIDE DEF last
        <4> QED BY <1>3, <2>2, <2>3, <2>4, ContinuedReaches
      <3> QED BY <1>1, <2>1, <3>1
    <2>5. CASE num \notin 1..Len(handle.audio)
      <3>1. Len(handle.audio) \in Nat
        BY <2>1, <2>2, IndexLen, DistancesAre DEF Serves
      <3>2. num > Len(handle.audio)
        BY <2>5, <3>1
      <3> QED BY <1>1, <2>1, <2>5, <3>2
    <2> QED BY <2>4, <2>5
  <1>5. Opened'
    BY <1>1 DEF AviInv, Opened
  <1>6. Served'
    BY <1>1, <1>4 DEF Served, DistancesFit, Serves, PlaceOf
  <1>7. ASSUME DistancesFit PROVE Right(Audio, num, at)
    BY <1>1, <1>4, <1>7, AskedRight
  <1> HIDE DEF at
  <1>8. AnswerRight'
    BY <1>1, <1>2, <1>7 DEF AnswerRight, DistancesFit, Here, Right
  <1> QED BY <1>1, <1>5, <1>6, <1>8 DEF AviInv

LEMMA AviOpenKeeps ==
  ASSUME AviInv, AviOpen
  PROVE  AviInv'
  <1>1. PICK ix \in FoundIndex :
            handle' = [Closed EXCEPT !.open = TRUE, !.video = Distances(ix, Video),
                                     !.audio = Distances(ix, Audio)]
    BY DEF AviOpen
  <1>2. /\ AviType' /\ index' = index /\ answer' = NoAnswer /\ handle'.vd = Fresh /\ handle'.ad = Fresh
        /\ handle'.video = Distances(ix, Video) /\ handle'.audio = Distances(ix, Audio)
    BY <1>1 DEF AviOpen, AviInv, AviType, Closed, Fresh
  <1>3. ix = index \/ (handle'.video = <<>> /\ handle'.audio = <<>>)
    BY <1>2, NoDistances DEF FoundIndex
  <1>4. Opened'
    BY <1>2, <1>3 DEF Opened
  <1>5. ASSUME DistancesFit
        PROVE  Serves(Video, handle'.video, Fresh) /\ Serves(Audio, handle'.audio, Fresh)
    <2>1. index \in Indexes /\ Fits(index, Video) /\ Fits(index, Audio)
      BY <1>5, FitsAre DEF AviInv, AviType
    <2> QED BY <1>2, <1>3, <2>1, FreshServes
  <1>6. Served'
    BY <1>2, <1>5 DEF Served, DistancesFit, Serves, PlaceOf
  <1>7. AnswerRight'
    BY <1>2 DEF AnswerRight
  <1> QED BY <1>2, <1>4, <1>6, <1>7 DEF AviInv

\* Every step keeps the invariant.
LEMMA AviStep ==
  ASSUME AviInv, [AviNext]_aviVars
  PROVE  AviInv'
  <1>1. ASSUME NEW num \in 1..(MaxChunks + 1), GetVideo(num) \/ GetAudio(num) PROVE AviInv'
    <2>1. num \in Nat \ {0}
      BY ByteAssumption
    <2> QED BY <1>1, <2>1, GetVideoKeeps, GetAudioKeeps
  <1>2. CASE AviExit
    <2>1. /\ AviType' /\ handle'.open = FALSE
      BY <1>2 DEF AviExit, AviInv, AviType, Closed
    <2> QED BY <2>1 DEF AviInv, Opened, Served, AnswerRight
  <1>3. CASE UNCHANGED aviVars
    BY <1>3 DEF aviVars, AviInv, AviType, Opened, Served, AnswerRight, DistancesFit, Serves, PlaceOf, Here
  <1> QED BY <1>1, <1>2, <1>3, AviOpenKeeps DEF AviNext

LEMMA AviAlways == AviSpec => []AviInv
  <1>1. AviInit => AviInv
    BY DEF AviInit, AviInv, AviType, Opened, Served, AnswerRight, Closed
  <1> QED BY <1>1, AviStep, PTL DEF AviSpec

\* For every index, every width of the distances that fits them and every
\* order of requests, back and forth, video and audio mixed: the frame that
\* avi_video_get_frame or avi_audio_get_frame answers is the one asked for, or the
\* next that is not empty, although only one byte of distance per frame is kept
\* and the sum continues from the request before.
THEOREM AnswerTheorem == AviSpec => []AnswerRight
  <1>1. AviInv => AnswerRight
    BY DEF AviInv
  <1> QED BY <1>1, AviAlways, PTL

-----------------------------------------------------------------------------
(* The list of recordings (MediaFileList). *)

MediaType ==
    /\ born \in Nat /\ born <= MaxMedia /\ card \subseteq 1..born
    /\ list \in Seq(1..born) /\ due \in Nat
    /\ online \in BOOLEAN /\ initing \in BOOLEAN
    /\ mapp.pc \in {"idle", "add", "gone", "goes", "fdelete"}
    /\ mapp.pc \in {"add", "goes", "fdelete"} => mapp.file \in 1..born
    /\ mapp.pc = "gone" => mapp.file \in 0..born
    /\ scan.pc \in {"idle", "lock", "scan"} /\ scan.file \in Nat

\* Who holds file_list_read_mutex, where two look at it in other ways.
MediaLocks ==
    /\ initing <=> scan.pc = "scan"
    /\ scan.pc = "scan" <=> rlock = "scan"
    /\ gen = "write" <=> rlock = "gen"

\* l lists a file once, or it is in d.
Once(l, d) == \A i, j \in DOMAIN l : l[i] = l[j] => i = j \/ l[i] \in d

\* l is the files that can be read of these, but for those.
ListsThose(l, files, but) == Listed(l) \ but = {f \in files : Parses(f)} \ but

\* What is listed can be read, and is listed once or in doubt.
ListedOnce ==
    /\ \A f \in Listed(list) : Parses(f)
    /\ Once(list, doubt)

\* The file that the application's task is about: not listed yet, or no more;
\* gone from the card; in doubt when a scan runs.
FileOfCall ==
    /\ mapp.pc \in {"add", "fdelete"} => mapp.file \notin Listed(list) \/ mapp.file \in doubt
    /\ mapp.pc = "add" => mapp.file \in card
    /\ mapp.pc = "gone" => mapp.file \notin card /\ (mapp.file = AllFiles => card = {})
    /\ scan.pc = "scan" /\ mapp.pc # "idle" => mapp.file \in doubt

\* A scan has listed what it has seen.
ScanSeen ==
    scan.pc = "scan" =>
        /\ \A f \in Listed(list) : f <= scan.file
        /\ ListsThose(list, {f \in card : f <= scan.file}, doubt)

\* Between scans the list is what is on the card, but for the file that the
\* application's task is about.
BetweenScans ==
    /\ online /\ due = 0 /\ scan.pc = "idle" /\ rlock # "app"
    => \/ mapp.pc = "gone" /\ mapp.file = AllFiles
       \/ ListsThose(list, card, doubt \cup (IF mapp.pc = "idle" THEN {} ELSE {mapp.file}))

MediaInv == MediaType /\ MediaLocks /\ ListedOnce /\ FileOfCall /\ ScanSeen /\ BetweenScans

\* What adding a file to the list does: an oldest one may have to go for it.
LEMMA SendJsonIs ==
  ASSUME NEW S, S \subseteq Nat, NEW l \in Seq(S), NEW f \in S
  PROVE  /\ SendJson(l, f) \in Seq(S)
         /\ \A g \in Listed(SendJson(l, f)) : g \in Listed(l) \/ (g = f /\ Parses(f))
         /\ Parses(f) => f \in Listed(SendJson(l, f))
         /\ \A g \in Listed(l) : g \in Listed(SendJson(l, f)) \/ g \in GivenUp(l)
         /\ \A d : Once(l, d) /\ (f \notin Listed(l) \/ f \in d) => Once(SendJson(l, f), d)
  <1> DEFINE w == SendJson(l, f)
             n == Len(l)
  <1>1. n \in Nat /\ DOMAIN l = 1..n /\ \A i \in 1..n : l[i] \in S
    OBVIOUS
  <1>2. CASE ~Parses(f)
    BY <1>2 DEF SendJson
  <1>3. CASE Parses(f) /\ n < Slots
    <2>1. w = Append(l, f)
      BY <1>3 DEF SendJson, WriteBlock
    <2>2. /\ w \in Seq(S) /\ DOMAIN w = 1..(n + 1) /\ w[n + 1] = f
          /\ \A i \in 1..n : w[i] = l[i]
      BY <2>1
    <2> HIDE DEF w, n
    <2>3. \A i \in 1..(n + 1) : i \in 1..n \/ i = n + 1
      BY <1>1
    <2>4. n + 1 \in 1..(n + 1) /\ \A i \in 1..n : i \in 1..(n + 1)
      BY <1>1
    <2>5. \A g : g \in Listed(w) <=> g \in Listed(l) \/ g = f
      BY <1>1, <2>2, <2>3, <2>4 DEF Listed
    <2>6. ASSUME NEW d, Once(l, d), f \notin Listed(l) \/ f \in d PROVE Once(w, d)
      <3> SUFFICES ASSUME NEW i \in 1..(n + 1), NEW j \in 1..(n + 1), w[i] = w[j]
                   PROVE  i = j \/ w[i] \in d
        BY <2>2 DEF Once
      <3>1. \A k \in 1..n : w[k] = f => f \in d
        BY <1>1, <2>2, <2>6 DEF Listed
      <3> QED BY <1>1, <2>2, <2>3, <2>6, <3>1 DEF Once
    <2> QED BY <1>3, <2>2, <2>5, <2>6 DEF w
  <1>4. CASE Parses(f) /\ ~(n < Slots)
    <2> DEFINE o == Oldest(l)
    <2>1. \E k \in 1..n : \A j \in 1..n : l[k] <= l[j]
      <3>1. Listed(l) \subseteq Nat /\ l[1] \in Listed(l)
        <4>1. 1 \in 1..n
          BY <1>1, <1>4, SlotsAssumption
        <4> QED BY <1>1, <4>1 DEF Listed
      <3>2. PICK x \in Listed(l) : \A y \in Listed(l) : x <= y
        BY <3>1, LeastNumber
      <3> QED BY <1>1, <3>2 DEF Listed
    <2>2. o \in 1..n /\ \A j \in 1..n : l[o] <= l[j]
      BY <1>1, <2>1 DEF Oldest
    <2> HIDE DEF o
    <2>3. w = [l EXCEPT ![o] = f]
      BY <1>4 DEF SendJson, WriteBlock, o
    <2>4. w \in Seq(S) /\ DOMAIN w = 1..n /\ \A i \in 1..n : w[i] = IF i = o THEN f ELSE l[i]
      BY <1>1, <2>2, <2>3
    <2>5. l[o] \in GivenUp(l)
      BY <1>1, <1>4, <2>2 DEF GivenUp, Listed
    <2> HIDE DEF w, n
    <2>6. f \in Listed(w) /\ \A g \in Listed(w) : g \in Listed(l) \/ g = f
      BY <1>1, <2>2, <2>4 DEF Listed
    <2>7. ASSUME NEW g \in Listed(l) PROVE g \in Listed(w) \/ g \in GivenUp(l)
      <3>1. PICK i \in 1..n : g = l[i]
        BY <1>1 DEF Listed
      <3> QED BY <2>4, <2>5, <3>1 DEF Listed
    <2>8. ASSUME NEW d, Once(l, d), f \notin Listed(l) \/ f \in d PROVE Once(w, d)
      <3>1. \A k \in 1..n : l[k] = f => f \in d
        BY <1>1, <2>8 DEF Listed
      <3> QED BY <1>1, <2>4, <2>8, <3>1 DEF Once
    <2> QED BY <1>4, <2>4, <2>6, <2>7, <2>8 DEF w
  <1> QED BY <1>2, <1>3, <1>4

\* What removing one does.
LEMMA RemoveBlockIs ==
  ASSUME NEW S, NEW l \in Seq(S), NEW f
  PROVE  /\ RemoveBlock(l, f) \in Seq(S)
         /\ Listed(RemoveBlock(l, f)) \subseteq Listed(l)
         /\ \A g \in Listed(l) : g = f \/ g \in Listed(RemoveBlock(l, f))
         /\ \A d : Once(l, d) =>
                Once(RemoveBlock(l, f), d) /\ (f \notin Listed(RemoveBlock(l, f)) \/ f \in d)
  <1> DEFINE w == RemoveBlock(l, f)
             n == Len(l)
             First(k) == l[k] = f /\ \A j \in 1..(k - 1) : l[j] # f
  <1>1. n \in Nat /\ DOMAIN l = 1..n
    OBVIOUS
  <1>2. CASE f \notin Listed(l)
    BY <1>2 DEF RemoveBlock
  <1>3. CASE f \in Listed(l)
    <2>1. \E k \in DOMAIN l : First(k)
      <3> DEFINE T == {k \in 1..n : l[k] = f}
      <3>1. T \subseteq Nat /\ T # {}
        BY <1>1, <1>3 DEF Listed
      <3>2. PICK k \in T : \A j \in T : k <= j
        <4> HIDE DEF T
        <4> QED BY <3>1, LeastNumber
      <3>3. \A j \in 1..(k - 1) : j \in 1..n /\ ~(k <= j)
        BY <1>1
      <3> QED BY <1>1, <3>2, <3>3
    <2> DEFINE i == CHOOSE k \in DOMAIN l : First(k)
    <2>2. i \in 1..n /\ l[i] = f
      BY <1>1, <2>1
    <2>3. w = Without(l, i)
      BY <1>3 DEF RemoveBlock, Without
    <2> HIDE DEF i
    <2>4. w \in Seq(S) /\ Len(w) = n - 1 /\ \A k \in 1..(n - 1) : w[k] = l[IF k < i THEN k ELSE k + 1]
      BY <1>1, <2>2, <2>3, WithoutOne
    <2> HIDE DEF w, n
    <2>5. DOMAIN w = 1..(n - 1)
      BY <1>1, <2>4
    <2>6. \A k \in 1..(n - 1) : (IF k < i THEN k ELSE k + 1) \in 1..n /\ (IF k < i THEN k ELSE k + 1) # i
      BY <1>1, <2>2
    <2>7. Listed(w) \subseteq Listed(l)
      BY <1>1, <2>4, <2>5, <2>6 DEF Listed
    <2>8. ASSUME NEW g \in Listed(l), g # f PROVE g \in Listed(w)
      <3>1. PICK j \in 1..n : g = l[j]
        BY <1>1 DEF Listed
      <3>2. j # i
        BY <2>2, <2>8, <3>1
      <3>3. CASE j < i
        <4>1. j \in 1..(n - 1)
          BY <1>1, <2>2, <3>3
        <4> QED BY <2>4, <2>5, <3>1, <3>3, <4>1 DEF Listed
      <3>4. CASE ~(j < i)
        <4>1. j - 1 \in 1..(n - 1) /\ ~(j - 1 < i) /\ j - 1 + 1 = j
          BY <1>1, <2>2, <3>2, <3>4
        <4>2. w[j - 1] = l[j]
          BY <2>4, <4>1
        <4> QED BY <2>5, <3>1, <4>1, <4>2 DEF Listed
      <3> QED BY <3>3, <3>4
    <2>9. ASSUME NEW d, Once(l, d) PROVE Once(w, d) /\ (f \notin Listed(w) \/ f \in d)
      <3>1. \A p, q \in 1..(n - 1) :
                (IF p < i THEN p ELSE p + 1) = (IF q < i THEN q ELSE q + 1) => p = q
        BY <1>1, <2>2
      <3>2. Once(w, d)
        <4> SUFFICES ASSUME NEW p \in 1..(n - 1), NEW q \in 1..(n - 1), w[p] = w[q]
                     PROVE  p = q \/ w[p] \in d
          BY <2>5 DEF Once
        <4> QED BY <1>1, <2>4, <2>6, <2>9, <3>1 DEF Once
      <3>3. ASSUME f \in Listed(w) PROVE f \in d
        <4>1. PICK p \in 1..(n - 1) : w[p] = f
          BY <2>5, <3>3 DEF Listed
        <4> QED BY <1>1, <2>2, <2>4, <2>6, <2>9, <4>1 DEF Once
      <3> QED BY <3>2, <3>3
    <2> QED BY <2>4, <2>7, <2>8, <2>9 DEF w
  <1> QED BY <1>2, <1>3

\* A file more on the list.
LEMMA SendJsonKeeps ==
  ASSUME MediaInv, NEW f \in card, f \notin Listed(list) \/ f \in doubt,
         list' = SendJson(list, f), doubt' = doubt \cup GivenUp(list), born' = born
  PROVE  /\ list' \in Seq(1..born') /\ ListedOnce'
         /\ \A g \in Listed(list') : g \in Listed(list) \/ g = f
         /\ \A files, but :
                ListsThose(list, files, but) /\ doubt \subseteq but
                => ListsThose(list', files \cup {f}, (but \ {f}) \cup doubt')
  <1> DEFINE S == 1..born
  <1>1. S \subseteq Nat /\ list \in Seq(S) /\ f \in S
    BY DEF MediaInv, MediaType
  <1> HIDE DEF S
  <1>2. /\ list' \in Seq(S)
        /\ \A g \in Listed(list') : g \in Listed(list) \/ (g = f /\ Parses(f))
        /\ Parses(f) => f \in Listed(list')
        /\ \A g \in Listed(list) : g \in Listed(list') \/ g \in GivenUp(list)
        /\ \A d : Once(list, d) /\ (f \notin Listed(list) \/ f \in d) => Once(list', d)
    BY <1>1, SendJsonIs
  <1>3. Once(list', doubt')
    <2>1. Once(list, doubt')
      BY DEF MediaInv, ListedOnce, Once
    <2> QED BY <1>2, <2>1
  <1>4. \A g \in Listed(list) : Parses(g)
    BY DEF MediaInv, ListedOnce
  <1>5. ListedOnce'
    BY <1>2, <1>3, <1>4 DEF ListedOnce, Parses
  <1>6. ASSUME NEW files, NEW but, ListsThose(list, files, but), doubt \subseteq but
        PROVE  ListsThose(list', files \cup {f}, (but \ {f}) \cup doubt')
    <2> DEFINE out == (but \ {f}) \cup doubt'
    <2> SUFFICES ASSUME NEW g, g \notin out
                 PROVE  g \in Listed(list') <=> g \in files \cup {f} /\ Parses(g)
      BY DEF ListsThose
    <2>1. CASE g = f
      BY <1>2, <1>4, <2>1
    <2>2. CASE g # f
      <3>1. g \notin but /\ g \notin GivenUp(list)
        BY <2>2
      <3>2. g \in Listed(list) <=> g \in files /\ Parses(g)
        BY <1>6, <3>1 DEF ListsThose
      <3> QED BY <1>2, <2>2, <3>1, <3>2
    <2> QED BY <2>1, <2>2
  <1> QED BY <1>2, <1>5, <1>6 DEF S

LEMMA AddBlockKeeps ==
  ASSUME MediaInv, AddBlock
  PROVE  MediaInv'
  <1>1. /\ mapp.pc = "add" /\ rlock = "free" /\ mapp' = Resting /\ mapp.file \in card
        /\ mapp.file \notin Listed(list) \/ mapp.file \in doubt
        /\ UNCHANGED <<card, online, known, initing, scan, due, gen, born, scans>>
        /\ scan.pc # "scan" /\ gen # "write" /\ mapp'.pc = "idle"
    BY DEF AddBlock, MediaInv, FileOfCall, MediaLocks, Resting, Doing
  <1>2. CASE online
    <2>1. list' = SendJson(list, mapp.file) /\ doubt' = doubt \cup GivenUp(list) /\ rlock' = rlock
      BY <1>1, <1>2 DEF AddBlock
    <2>2. /\ list' \in Seq(1..born') /\ ListedOnce'
          /\ \A files, but :
                 ListsThose(list, files, but) /\ doubt \subseteq but
                 => ListsThose(list', files \cup {mapp.file}, (but \ {mapp.file}) \cup doubt')
      BY <1>1, <2>1, SendJsonKeeps
    <2>3. MediaType' /\ MediaLocks' /\ FileOfCall' /\ ScanSeen'
      BY <1>1, <2>1, <2>2 DEF MediaInv, MediaType, MediaLocks, FileOfCall, ScanSeen
    <2>4. BetweenScans'
      <3> SUFFICES ASSUME online, due = 0, scan.pc = "idle"
                   PROVE  ListsThose(list', card, doubt')
        BY <1>1 DEF BetweenScans
      <3>1. ListsThose(list, card, doubt \cup {mapp.file})
        BY <1>1 DEF MediaInv, BetweenScans
      <3>2. ListsThose(list', card \cup {mapp.file}, ((doubt \cup {mapp.file}) \ {mapp.file}) \cup doubt')
        BY <2>2, <3>1
      <3>3. card \cup {mapp.file} = card /\ ((doubt \cup {mapp.file}) \ {mapp.file}) \cup doubt' = doubt'
        BY <1>1, <2>1
      <3> QED BY <3>2, <3>3
    <2> QED BY <2>2, <2>3, <2>4 DEF MediaInv
  <1>3. CASE ~online
    <2>1. rlock' = "app" /\ UNCHANGED <<list, doubt>>
      BY <1>1, <1>3 DEF AddBlock
    <2> QED BY <1>1, <1>3, <2>1
            DEF MediaInv, MediaType, MediaLocks, ListedOnce, FileOfCall, ScanSeen, BetweenScans
  <1> QED BY <1>2, <1>3

LEMMA DeleteKeeps ==
  ASSUME MediaInv, Delete
  PROVE  MediaInv'
  <1>1. /\ mapp.pc \in {"gone", "goes"} /\ rlock = "free"
        /\ UNCHANGED <<card, online, known, initing, rlock, scan, due, gen, born, scans, doubt>>
        /\ scan.pc # "scan" /\ gen # "write"
        /\ mapp' = IF mapp.pc = "gone" THEN Resting ELSE Doing("fdelete", mapp.file)
    BY DEF Delete, MediaInv, MediaLocks
  <1>2. /\ mapp.pc = "gone" => mapp'.pc = "idle"
        /\ mapp.pc = "goes" => mapp'.pc = "fdelete" /\ mapp'.file = mapp.file
    BY <1>1 DEF Resting, Doing
  <1>3. CASE mapp.file = AllFiles
    <2>1. list' = <<>> /\ mapp.pc = "gone" /\ card = {}
      BY <1>1, <1>3 DEF Delete, forward_remove_block_all, MediaInv, MediaType, FileOfCall, AllFiles
    <2>2. Listed(list') = {} /\ list' \in Seq(1..born)
      BY <2>1 DEF Listed
    <2>3. MediaType' /\ MediaLocks' /\ FileOfCall' /\ ScanSeen'
      BY <1>1, <1>2, <2>1, <2>2 DEF MediaInv, MediaType, MediaLocks, FileOfCall, ScanSeen
    <2>4. ListedOnce'
      BY <2>1, <2>2 DEF ListedOnce, Once
    <2>5. BetweenScans'
      BY <1>1, <1>2, <2>1, <2>2 DEF BetweenScans, ListsThose
    <2> QED BY <2>3, <2>4, <2>5 DEF MediaInv
  <1>4. CASE mapp.file # AllFiles
    <2> DEFINE f == mapp.file
               S == 1..born
    <2>1. list' = RemoveBlock(list, f) /\ list \in Seq(S) /\ Once(list, doubt)
      BY <1>4 DEF Delete, MediaInv, MediaType, ListedOnce
    <2> HIDE DEF S
    <2>2. /\ list' \in Seq(S) /\ Listed(list') \subseteq Listed(list)
          /\ \A g \in Listed(list) : g = f \/ g \in Listed(list')
          /\ Once(list', doubt) /\ (f \notin Listed(list') \/ f \in doubt)
      BY <2>1, RemoveBlockIs
    <2>3. MediaType' /\ MediaLocks'
      BY <1>1, <1>2, <2>2 DEF MediaInv, MediaType, MediaLocks, S
    <2>4. ListedOnce'
      BY <1>1, <2>2 DEF MediaInv, ListedOnce, Parses
    <2>5. FileOfCall' /\ ScanSeen'
      BY <1>1, <1>2, <2>2 DEF MediaInv, FileOfCall, ScanSeen
    <2>6. BetweenScans'
      <3> DEFINE but == IF mapp'.pc = "idle" THEN {} ELSE {mapp'.file}
      <3> SUFFICES ASSUME online, due = 0, scan.pc = "idle"
                   PROVE  ListsThose(list', card, doubt \cup but)
        BY <1>1 DEF BetweenScans
      <3>1. ListsThose(list, card, doubt \cup {f})
        BY <1>1, <1>4 DEF MediaInv, BetweenScans
      <3>2. mapp.pc = "gone" => f \notin card
        BY DEF MediaInv, FileOfCall
      <3>3. but = IF mapp.pc = "gone" THEN {} ELSE {f}
        BY <1>1, <1>2
      <3> HIDE DEF but
      <3>4. ASSUME NEW g, g \notin doubt \cup but
            PROVE  g \in Listed(list') <=> g \in card /\ Parses(g)
        <4>1. CASE g = f
          BY <1>1, <2>2, <3>2, <3>3, <3>4, <4>1
        <4>2. CASE g # f
          <5>1. g \in Listed(list) <=> g \in card /\ Parses(g)
            BY <3>1, <3>4, <4>2 DEF ListsThose
          <5> QED BY <2>2, <4>2, <5>1
        <4> QED BY <4>1, <4>2
      <3> QED BY <3>4 DEF ListsThose
    <2> QED BY <2>3, <2>4, <2>5, <2>6 DEF MediaInv
  <1> QED BY <1>3, <1>4

\* Fewer files out of doubt, or others in doubt.
LEMMA ListsStill ==
  ASSUME NEW l, NEW files, NEW others, NEW but, NEW more,
         ListsThose(l, files, but), but \subseteq more,
         \A g : g \notin more => (g \in files /\ Parses(g) <=> g \in others /\ Parses(g))
  PROVE  ListsThose(l, others, more)
  BY DEF ListsThose

\* A call that only doubts more, about the file that comes or goes: the list stays.
CallBegins(f) ==
    /\ UNCHANGED <<online, list, initing, rlock, scan, due, gen>>
    /\ born <= born' /\ doubt \subseteq doubt'
    /\ \A g : g = f \/ (g \in card <=> g \in card')
    /\ scan.pc = "scan" => f \in doubt'

LEMMA CallsKeep ==
  ASSUME MediaInv, NEW f \in Nat, CallBegins(f), MediaType', FileOfCall',
         f \in doubt' \/ (mapp'.pc # "idle" /\ mapp'.file = f)
         \/ (f \notin card' /\ mapp.pc = "fdelete" /\ mapp.file = f),
         mapp.pc \in {"idle", "fdelete"}, mapp.pc = "idle" \/ mapp.file = f
  PROVE  MediaInv'
  <1>1. MediaLocks'
    BY DEF CallBegins, MediaInv, MediaLocks
  <1>2. ListedOnce'
    BY DEF CallBegins, MediaInv, ListedOnce, Once, Parses
  <1>3. ScanSeen'
    <2> SUFFICES ASSUME scan.pc = "scan"
                 PROVE  /\ \A g \in Listed(list) : g <= scan.file
                        /\ ListsThose(list, {g \in card' : g <= scan.file}, doubt')
      BY DEF CallBegins, ScanSeen
    <2> DEFINE F == {g \in card : g <= scan.file}
               G == {g \in card' : g <= scan.file}
    <2>1. (\A g \in Listed(list) : g <= scan.file) /\ ListsThose(list, F, doubt)
      BY DEF MediaInv, ScanSeen
    <2>2. \A g : g \notin doubt' => (g \in F /\ Parses(g) <=> g \in G /\ Parses(g))
      BY DEF CallBegins
    <2> HIDE DEF F, G
    <2>3. ListsThose(list, G, doubt')
      BY <2>1, <2>2, ListsStill DEF CallBegins
    <2> QED BY <2>1, <2>3 DEF G
  <1>4. BetweenScans'
    <2> DEFINE old == IF mapp.pc = "idle" THEN {} ELSE {mapp.file}
               new == IF mapp'.pc = "idle" THEN {} ELSE {mapp'.file}
    <2> SUFFICES ASSUME online, due = 0, scan.pc = "idle", rlock # "app"
                 PROVE  ListsThose(list, card', doubt' \cup new)
      BY DEF CallBegins, BetweenScans
    <2>1. ListsThose(list, card, doubt \cup old)
      BY DEF MediaInv, BetweenScans
    <2>2. ASSUME NEW g, g \notin doubt' \cup new
          PROVE  g \in Listed(list) <=> g \in card' /\ Parses(g)
      <3>1. CASE g # f
        <4>1. g \notin doubt \cup old /\ (g \in card <=> g \in card')
          BY <2>2, <3>1 DEF CallBegins
        <4> QED BY <2>1, <4>1 DEF ListsThose
      <3>2. CASE g = f
        <4>1. f \notin card' /\ mapp.pc = "fdelete" /\ mapp.file = f
          BY <2>2, <3>2
        <4>2. f \notin Listed(list)
          BY <2>2, <3>2, <4>1 DEF CallBegins, MediaInv, FileOfCall
        <4> QED BY <3>2, <4>1, <4>2
      <3> QED BY <3>1, <3>2
    <2> QED BY <2>2 DEF ListsThose
  <1> QED BY <1>1, <1>2, <1>3, <1>4 DEF MediaInv

LEMMA FinishKeeps ==
  ASSUME MediaInv, Finish
  PROVE  MediaInv'
  <1> DEFINE f == born + 1
  <1>1. /\ mapp.pc = "idle" /\ born < MaxMedia /\ born' = f /\ card' = card \cup {f}
        /\ UNCHANGED <<online, known, list, initing, rlock, scan, due, gen, scans>>
        /\ mapp'.pc = (IF initing THEN "idle" ELSE "add") /\ (~initing => mapp'.file = f)
        /\ doubt' = InDoubt(f)
    BY DEF Finish, Resting, Doing
  <1>2. born \in Nat /\ MaxMedia \in Nat /\ f \in Nat /\ f \notin 1..born /\ 1..born \subseteq 1..f
        /\ f \in 1..f /\ f <= MaxMedia
    BY <1>1, SlotsAssumption DEF MediaInv, MediaType
  <1> HIDE DEF f
  <1>3. card \subseteq 1..born /\ list \in Seq(1..born) /\ Listed(list) \subseteq 1..born
    BY DEF MediaInv, MediaType, Listed
  <1>4. list \in Seq(1..f)
    BY <1>2, <1>3
  <1>5. MediaType'
    BY <1>1, <1>2, <1>3, <1>4 DEF MediaInv, MediaType
  <1>6. doubt \subseteq doubt' /\ (scan.pc = "scan" => f \in doubt')
    BY <1>1 DEF InDoubt
  <1>7. FileOfCall'
    BY <1>1, <1>2, <1>3, <1>6 DEF FileOfCall, MediaInv, MediaLocks
  <1>8. CallBegins(f)
    BY <1>1, <1>2, <1>6 DEF CallBegins, f
  <1> QED BY <1>1, <1>2, <1>5, <1>6, <1>7, <1>8, CallsKeep DEF MediaInv, MediaLocks

LEMMA LoopDeleteKeeps ==
  ASSUME MediaInv, LoopDelete
  PROVE  MediaInv'
  <1>1. PICK f \in card : DeleteCall(f, Doing("fdelete", f)) /\ doubt' = InDoubt(f)
    BY DEF LoopDelete
  <1>2. /\ mapp.pc = "idle" /\ f \in 1..born
        /\ UNCHANGED <<card, online, known, list, initing, rlock, scan, due, gen, born, scans>>
        /\ mapp'.pc = (IF initing THEN "fdelete" ELSE "goes") /\ mapp'.file = f
        /\ doubt \subseteq doubt' /\ (scan.pc = "scan" => f \in doubt')
    BY <1>1 DEF LoopDelete, DeleteCall, Doing, InDoubt, MediaInv, MediaType
  <1>3. f \in Nat /\ f # AllFiles
    BY <1>2 DEF AllFiles, MediaInv, MediaType
  <1>4. MediaType' /\ FileOfCall'
    BY <1>2, <1>3 DEF MediaInv, MediaType, FileOfCall, MediaLocks
  <1>5. CallBegins(f)
    BY <1>2 DEF CallBegins, MediaInv, MediaType
  <1> QED BY <1>2, <1>3, <1>4, <1>5, CallsKeep

LEMMA PhoneDeleteKeeps ==
  ASSUME MediaInv, PhoneDelete
  PROVE  MediaInv'
  <1>1. PICK f \in card : card' = card \ {f} /\ DeleteCall(f, Resting) /\ doubt' = InDoubt(f)
    BY DEF PhoneDelete
  <1>2. /\ mapp.pc = "idle" /\ f \in 1..born /\ card' = card \ {f}
        /\ UNCHANGED <<online, known, list, initing, rlock, scan, due, gen, born, scans>>
        /\ mapp'.pc = (IF initing THEN "idle" ELSE "gone") /\ (~initing => mapp'.file = f)
        /\ doubt \subseteq doubt' /\ (scan.pc = "scan" => f \in doubt')
    BY <1>1 DEF PhoneDelete, DeleteCall, Doing, Resting, InDoubt, MediaInv, MediaType
  <1>3. f \in Nat /\ f # AllFiles /\ f \in 0..born
    BY <1>2 DEF AllFiles, MediaInv, MediaType
  <1>4. MediaType' /\ FileOfCall'
    BY <1>2, <1>3 DEF MediaInv, MediaType, FileOfCall, MediaLocks
  <1>5. CallBegins(f)
    BY <1>2 DEF CallBegins, MediaInv, MediaType
  <1> QED BY <1>2, <1>3, <1>4, <1>5, CallsKeep DEF MediaInv, MediaLocks

LEMMA FdeleteKeeps ==
  ASSUME MediaInv, Fdelete
  PROVE  MediaInv'
  <1> DEFINE f == mapp.file
  <1>1. /\ mapp.pc = "fdelete" /\ f \in 1..born /\ card' = IF online THEN card \ {f} ELSE card
        /\ UNCHANGED <<online, known, list, initing, rlock, scan, due, gen, born, scans>>
        /\ mapp'.pc = "idle"
        /\ doubt \subseteq doubt' /\ (scan.pc = "scan" => f \in doubt')
    BY DEF Fdelete, Doing, Resting, InDoubt, MediaInv, MediaType
  <1>2. f \in Nat
    BY <1>1 DEF MediaInv, MediaType
  <1>3. MediaType' /\ FileOfCall'
    BY <1>1 DEF MediaInv, MediaType, FileOfCall
  <1>4. CallBegins(f)
    BY <1>1 DEF CallBegins, MediaInv, MediaType
  <1>5. CASE online
    BY <1>1, <1>2, <1>3, <1>4, <1>5, CallsKeep
  <1>6. CASE ~online
    <2>1. MediaLocks' /\ ListedOnce'
      BY <1>1 DEF MediaInv, MediaLocks, ListedOnce, Once, Parses
    <2>2. ScanSeen'
      <3> SUFFICES ASSUME scan.pc = "scan"
                   PROVE  /\ \A g \in Listed(list) : g <= scan.file
                          /\ ListsThose(list, {g \in card : g <= scan.file}, doubt')
        BY <1>1, <1>6 DEF ScanSeen
      <3>1. /\ \A g \in Listed(list) : g <= scan.file
            /\ ListsThose(list, {g \in card : g <= scan.file}, doubt)
        BY DEF MediaInv, ScanSeen
      <3> QED BY <1>1, <3>1, ListsStill
    <2>3. BetweenScans'
      BY <1>1, <1>6 DEF BetweenScans
    <2> QED BY <1>3, <2>1, <2>2, <2>3 DEF MediaInv
  <1> QED BY <1>5, <1>6

LEMMA FormatKeeps ==
  ASSUME MediaInv, Format
  PROVE  MediaInv'
  <1>1. /\ mapp.pc = "idle" /\ card' = {}
        /\ UNCHANGED <<online, known, list, initing, rlock, scan, due, gen, born, scans>>
        /\ mapp'.pc = (IF initing THEN "idle" ELSE "gone") /\ (~initing => mapp'.file = 0)
        /\ doubt' = IF scan.pc = "scan" THEN 1..MaxMedia ELSE doubt
    BY DEF Format, DeleteCall, Doing, Resting, AllFiles
  <1>2. MediaType' /\ MediaLocks' /\ FileOfCall'
    BY <1>1 DEF MediaInv, MediaType, MediaLocks, FileOfCall
  <1>3. scan.pc = "scan" => Listed(list) \subseteq doubt'
    <2>1. 1..born \subseteq 1..MaxMedia
      BY SlotsAssumption DEF MediaInv, MediaType
    <2> QED BY <1>1, <2>1 DEF MediaInv, MediaType, Listed
  <1>4. ListedOnce'
    <2>1. CASE scan.pc = "scan"
      BY <1>1, <1>3, <2>1 DEF MediaInv, ListedOnce, Once, Parses, Listed
    <2>2. CASE scan.pc # "scan"
      BY <1>1, <2>2 DEF MediaInv, ListedOnce, Once, Parses
    <2> QED BY <2>1, <2>2
  <1>5. ScanSeen'
    BY <1>1, <1>3 DEF MediaInv, ScanSeen, ListsThose
  <1>6. BetweenScans'
    BY <1>1 DEF MediaInv, MediaLocks, BetweenScans, AllFiles
  <1> QED BY <1>2, <1>4, <1>5, <1>6 DEF MediaInv

LEMMA CardNumbers ==
  ASSUME MediaInv
  PROVE  \A f \in card : f \in Nat /\ f > 0
  <1>1. \A f \in card : f \in 1..born
    BY DEF MediaInv, MediaType
  <1> QED BY <1>1

\* The scan takes the mutex and starts afresh.
LEMMA ScanLockKeeps ==
  ASSUME MediaInv, ScanLock
  PROVE  MediaInv'
  <1>1. /\ scan.pc = "lock" /\ rlock = "free" /\ rlock' = "scan" /\ initing' = TRUE /\ list' = <<>>
        /\ scan'.pc = "scan" /\ scan'.file = 0
        /\ mapp.pc # "idle" => mapp.file \in doubt'
        /\ UNCHANGED <<card, online, known, mapp, due, gen, born, scans>>
    BY DEF ScanLock, Doing
  <1>2. Listed(list') = {} /\ list' \in Seq(1..born) /\ \A d : Once(list', d)
    BY <1>1 DEF Listed, Once
  <1>3. {f \in card : f <= 0} = {}
    BY CardNumbers
  <1>4. MediaType' /\ MediaLocks' /\ ListedOnce' /\ FileOfCall' /\ ScanSeen' /\ BetweenScans'
    BY <1>1, <1>2, <1>3 DEF MediaInv, MediaType, MediaLocks, ListedOnce, FileOfCall, ScanSeen,
                            BetweenScans, ListsThose
  <1> QED BY <1>4 DEF MediaInv

\* The next file is listed.
LEMMA ScanNextKeeps ==
  ASSUME MediaInv, ScanNext
  PROVE  MediaInv'
  <1> DEFINE f == CHOOSE x \in Unseen : \A y \in Unseen : x <= y
  <1>1. f \in Unseen /\ \A y \in Unseen : f <= y
    <2>1. Unseen \subseteq Nat /\ Unseen # {}
      BY CardNumbers DEF ScanNext, Unseen
    <2> QED BY <2>1, LeastNumber
  <1>2. /\ scan.pc = "scan" /\ list' = SendJson(list, f) /\ doubt' = doubt \cup GivenUp(list)
        /\ scan'.pc = "scan" /\ scan'.file = f
        /\ UNCHANGED <<card, online, known, initing, rlock, mapp, due, gen, born, scans>>
    BY DEF ScanNext, Doing
  <1> HIDE DEF f
  <1>3. f \in card /\ f > scan.file /\ f \in Nat /\ scan.file \in Nat /\ card \subseteq Nat
    BY <1>1 DEF Unseen, MediaInv, MediaType
  <1>4. f \notin Listed(list)
    BY <1>2, <1>3 DEF MediaInv, ScanSeen
  <1>5. /\ list' \in Seq(1..born') /\ ListedOnce'
        /\ \A g \in Listed(list') : g \in Listed(list) \/ g = f
        /\ \A files, but :
               ListsThose(list, files, but) /\ doubt \subseteq but
               => ListsThose(list', files \cup {f}, (but \ {f}) \cup doubt')
    BY <1>2, <1>3, <1>4, SendJsonKeeps
  <1>6. MediaType' /\ MediaLocks'
    BY <1>2, <1>3, <1>5 DEF MediaInv, MediaType, MediaLocks
  <1>7. mapp.pc # "idle" => mapp.file \in doubt'
    BY <1>2 DEF MediaInv, FileOfCall
  <1>8. FileOfCall'
    BY <1>2, <1>7 DEF MediaInv, FileOfCall
  <1>9. ScanSeen'
    <2> DEFINE F == {g \in card : g <= scan.file}
               G == {g \in card : g <= f}
    <2>1. (\A g \in Listed(list) : g <= scan.file /\ g \in Nat) /\ ListsThose(list, F, doubt)
      BY <1>2 DEF MediaInv, MediaType, ScanSeen, Listed
    <2>2. \A g \in card : g <= f <=> g <= scan.file \/ g = f
      BY <1>1, <1>3 DEF Unseen
    <2>3. G = F \cup {f}
      BY <1>3, <2>2
    <2> HIDE DEF F, G
    <2>4. ListsThose(list', G, (doubt \ {f}) \cup doubt')
      BY <1>5, <2>1, <2>3
    <2>5. (doubt \ {f}) \cup doubt' = doubt'
      BY <1>2
    <2>6. \A g \in Listed(list') : g <= f
      BY <1>3, <1>5, <2>1
    <2> QED BY <1>2, <2>4, <2>5, <2>6 DEF ScanSeen, G
  <1>10. BetweenScans'
    BY <1>2 DEF BetweenScans
  <1> QED BY <1>5, <1>6, <1>8, <1>9, <1>10 DEF MediaInv

\* All are listed, or the card is gone.
LEMMA ScanEndKeeps ==
  ASSUME MediaInv, ScanEnd
  PROVE  MediaInv'
  <1>1. /\ scan.pc = "scan" /\ (~online \/ Unseen = {}) /\ initing' = FALSE /\ rlock' = "free"
        /\ scan'.pc = "idle" /\ scan'.file = 0 /\ (gen' = "write" <=> gen = "write")
        /\ doubt' = IF online THEN doubt ELSE 1..MaxMedia
        /\ UNCHANGED <<card, online, known, list, mapp, due, born, scans>>
    BY DEF ScanEnd, Resting, Doing
  <1>2. gen # "write"
    BY <1>1 DEF MediaInv, MediaLocks
  <1>3. Listed(list) \subseteq 1..MaxMedia /\ 1..born \subseteq 1..MaxMedia
    <2>1. 1..born \subseteq 1..MaxMedia
      BY SlotsAssumption DEF MediaInv, MediaType
    <2> QED BY <2>1 DEF MediaInv, MediaType, Listed
  <1>4. MediaType' /\ MediaLocks'
    <2>1. 0 \in Nat /\ FALSE \in BOOLEAN
      OBVIOUS
    <2>2. MediaType'
      BY <1>1, <2>1 DEF MediaInv, MediaType
    <2>3. MediaLocks'
      BY <1>1, <1>2 DEF MediaLocks
    <2> QED BY <2>2, <2>3
  <1>5. ListedOnce' /\ FileOfCall'
    <2>1. CASE online
      BY <1>1, <2>1 DEF MediaInv, ListedOnce, Once, Parses, FileOfCall
    <2>2. CASE ~online
      BY <1>1, <1>3, <2>2 DEF MediaInv, MediaType, ListedOnce, Once, Listed, Parses, FileOfCall
    <2> QED BY <2>1, <2>2
  <1>6. ScanSeen'
    BY <1>1 DEF ScanSeen
  <1>7. BetweenScans'
    <2> DEFINE but == IF mapp.pc = "idle" THEN {} ELSE {mapp.file}
    <2> SUFFICES ASSUME online PROVE ListsThose(list, card, doubt \cup but)
      BY <1>1 DEF BetweenScans
    <2>1. scan.file \in Nat
      BY DEF MediaInv, MediaType
    <2>2. {g \in card : g <= scan.file} = card
      <3>1. Unseen = {}
        BY <1>1
      <3>2. \A g \in card : ~(g > scan.file)
        BY <3>1 DEF Unseen
      <3>3. \A g \in card : g <= scan.file
        BY <2>1, <3>2, CardNumbers
      <3> QED BY <3>3
    <2>3. ListsThose(list, card, doubt)
      BY <1>1, <2>2 DEF MediaInv, ScanSeen
    <2> QED BY <2>3, ListsStill
  <1> QED BY <1>4, <1>5, <1>6, <1>7 DEF MediaInv

\* Every step keeps the invariant.
LEMMA MediaStep ==
  ASSUME MediaInv, [MediaNext]_mediaVars
  PROVE  MediaInv'
  <1> USE DEF MediaInv
  <1>1. CASE Pull \/ RequestList \/ ScanBegin \/ SdIn
    <2>1. /\ UNCHANGED <<card, list, initing, rlock, mapp, born, doubt>>
          /\ scan' = scan \/ (scan.pc = "idle" /\ scan'.pc \in {"idle", "lock"} /\ scan'.file = 0)
          /\ gen' = gen \/ (gen = "idle" /\ gen' = "fork")
          /\ due' \in Nat /\ online' \in BOOLEAN
          /\ online' /\ due' = 0 /\ scan'.pc = "idle" => online /\ due = 0 /\ scan.pc = "idle"
      <3>1. CASE Pull
        BY <3>1 DEF Pull, MediaType
      <3>2. CASE RequestList
        BY <3>2 DEF RequestList, MediaType
      <3>3. CASE ScanBegin
        BY <3>3 DEF ScanBegin, MediaType, Doing, Resting
      <3>4. CASE SdIn
        BY <3>4 DEF SdIn, MediaType
      <3> QED BY <1>1, <3>1, <3>2, <3>3, <3>4
    <2>2. MediaType' /\ MediaLocks'
      BY <2>1 DEF MediaType, MediaLocks
    <2>3. ListedOnce' /\ FileOfCall' /\ ScanSeen' /\ BetweenScans'
      BY <2>1 DEF ListedOnce, Once, Parses, FileOfCall, ScanSeen, BetweenScans
    <2> QED BY <2>2, <2>3
  <1>2. CASE VfList
    <2>1. /\ card' = card \ Broken /\ mapp.pc = "idle"
          /\ UNCHANGED <<online, known, list, initing, rlock, mapp, scan, due, gen, born, scans, doubt>>
      BY <1>2 DEF VfList
    <2>2. MediaType' /\ MediaLocks' /\ ListedOnce' /\ FileOfCall'
      BY <2>1 DEF MediaType, MediaLocks, ListedOnce, Once, Parses, FileOfCall
    <2>3. \A g : g \in card /\ Parses(g) <=> g \in card' /\ Parses(g)
      BY <2>1 DEF Parses
    <2>4. ScanSeen' /\ BetweenScans'
      BY <2>1, <2>3 DEF ScanSeen, BetweenScans, ListsThose, Parses
    <2> QED BY <2>2, <2>4
  <1>3. CASE SdOut
    <2>1. /\ mapp.pc = "idle" /\ ~online
          /\ list' = list \/ (~initing /\ list' = <<>>)
          /\ UNCHANGED <<card, online, initing, rlock, mapp, scan, due, gen, born, scans, doubt>>
      BY <1>3 DEF SdOut
    <2>2. list' = <<>> => Listed(list') = {} /\ list' \in Seq(1..born) /\ Once(list', doubt)
      BY DEF Listed, Once
    <2>3. MediaType' /\ MediaLocks' /\ ListedOnce'
      BY <2>1, <2>2 DEF MediaType, MediaLocks, ListedOnce, Once, Parses
    <2>4. FileOfCall' /\ ScanSeen' /\ BetweenScans'
      BY <2>1, <2>2 DEF MediaLocks, FileOfCall, ScanSeen, BetweenScans
    <2> QED BY <2>3, <2>4
  <1>4. CASE GenLock \/ GenEnd \/ UNCHANGED mediaVars
    <2>1. /\ UNCHANGED <<card, online, list, initing, mapp, scan, due, born, doubt>>
          /\ \/ rlock' = rlock /\ (gen' = "write" <=> gen = "write")
             \/ rlock = "free" /\ rlock' = "gen" /\ gen' = "write"
             \/ gen = "write" /\ rlock' = "free" /\ gen' = "idle"
      <3>1. CASE GenLock
        BY <3>1 DEF GenLock
      <3>2. CASE GenEnd
        BY <3>2 DEF GenEnd, MediaLocks
      <3> QED BY <1>4, <3>1, <3>2 DEF mediaVars
    <2>2. MediaType' /\ MediaLocks'
      BY <2>1 DEF MediaType, MediaLocks
    <2>3. ListedOnce' /\ FileOfCall' /\ ScanSeen' /\ BetweenScans'
      BY <2>1 DEF MediaLocks, ListedOnce, Once, Parses, FileOfCall, ScanSeen, BetweenScans
    <2> QED BY <2>2, <2>3
  <1> USE DEF MediaNext
  <1>5. CASE Finish \/ AddBlock \/ LoopDelete \/ PhoneDelete \/ Format \/ Delete \/ Fdelete
    BY <1>5, FinishKeeps, AddBlockKeeps, LoopDeleteKeeps, PhoneDeleteKeeps, FormatKeeps, DeleteKeeps,
       FdeleteKeeps, Zenon
  <1>6. CASE ScanLock \/ ScanNext \/ ScanEnd
    BY <1>6, ScanLockKeeps, ScanNextKeeps, ScanEndKeeps, Zenon
  <1> HIDE DEF MediaInv
  <1> QED BY <1>1, <1>2, <1>3, <1>4, <1>5, <1>6

\* For any number of files, entries and scans, whoever adds, deletes, formats or
\* pulls the card in whatever order: at rest the list that file_list_gen writes is
\* what is on the card, but for the files that came or went during the last scan
\* and those a full list gave up.
THEOREM ListedTheorem == MediaSpec => []ListFaithful
  <1>1. MediaInit => MediaInv
    <2> SUFFICES ASSUME MediaInit PROVE MediaInv
      OBVIOUS
    <2>1. /\ mapp.pc = "idle" /\ scan.pc = "idle" /\ scan.file = 0 /\ born = 0 /\ card = {}
          /\ list = <<>> /\ due = 0 /\ online = FALSE /\ initing = FALSE /\ rlock = "free" /\ gen = "idle"
      BY DEF MediaInit, Resting, Doing
    <2>2. Listed(list) = {} /\ Once(list, doubt) /\ list \in Seq(1..born)
      BY <2>1 DEF Listed, Once
    <2>3. MediaType
      <3>1. online \in BOOLEAN /\ initing \in BOOLEAN
        BY <2>1
      <3>2. born \in Nat /\ born <= MaxMedia /\ card \subseteq 1..born /\ due \in Nat /\ scan.file \in Nat
        BY <2>1, SlotsAssumption
      <3> QED BY <2>1, <2>2, <3>1, <3>2 DEF MediaType
    <2>4. MediaLocks /\ ListedOnce /\ FileOfCall /\ ScanSeen /\ BetweenScans
      BY <2>1, <2>2 DEF MediaLocks, ListedOnce, FileOfCall, ScanSeen, BetweenScans
    <2> QED BY <2>3, <2>4 DEF MediaInv
  <1>2. MediaInv => ListFaithful
    BY DEF MediaInv, BetweenScans, ListFaithful, ListsThose
  <1> QED BY <1>1, <1>2, MediaStep, PTL DEF MediaSpec
=============================================================================
