----------------------------- MODULE AStarProofs ------------------------------
(*****************************************************************************)
(* What holds of the A* of the Smac planner and of Theta*, on every grid, for *)
(* every costmap and every tolerance.  The first part, on numbers, grids and *)
(* costs, also serves NavFn.                                                 *)
(*****************************************************************************)
EXTENDS AStar, ThetaStar, FiniteSets, TLAPS

\* What the proofs use of numbers and finite sets: facts of the library, which are shown
\* where the invariant is (SearchProofs) and so burden no obligation here.
SetFacts ==
  /\ \A T \in SUBSET Nat : T # {} => \E m \in T : \A n \in T : m <= n
  /\ \A k \in Nat : IsFiniteSet(0 .. k - 1)
  /\ \A S, T : IsFiniteSet(S) /\ IsFiniteSet(T) => IsFiniteSet(S \X T)
  /\ \A S : IsFiniteSet(S) => Cardinality(S) \in Nat
  /\ \A S : IsFiniteSet(S) =>
       \A T \in SUBSET S : /\ IsFiniteSet(T) /\ Cardinality(T) <= Cardinality(S)
                           /\ Cardinality(T) = Cardinality(S) => T = S
  /\ \A x : Cardinality({x}) = 1

\* A set of numbers has a least one.
LEMMA LeastNat ==
  ASSUME SetFacts, NEW T, T \subseteq Nat, T # {}
  PROVE  \E m \in T : \A n \in T : m <= n
BY DEF SetFacts

\* The subsets of a finite set.
LEMMA FiniteSubset ==
  ASSUME SetFacts, NEW S, IsFiniteSet(S), NEW T \in SUBSET S
  PROVE  /\ IsFiniteSet(T) /\ Cardinality(T) \in Nat /\ Cardinality(S) \in Nat
         /\ Cardinality(T) <= Cardinality(S) /\ (Cardinality(T) = Cardinality(S) => T = S)
BY DEF SetFacts

\* Induction: the set of the numbers that have a property holds all of them.
LEMMA Induction ==
  ASSUME SetFacts, NEW T, 0 \in T, \A n \in Nat : n \in T => n + 1 \in T
  PROVE  Nat \subseteq T
<1> SUFFICES ASSUME NEW k \in Nat, k \notin T PROVE FALSE
  OBVIOUS
<1> DEFINE U == {n \in Nat : n \notin T}
<1>1. PICK m \in U : \A n \in U : m <= n
  <2>1. U \subseteq Nat /\ U # {}
    OBVIOUS
  <2> HIDE DEF U
  <2> QED
    BY <2>1, LeastNat, Zenon
<1>2. m # 0
  OBVIOUS
<1>3. m - 1 \in Nat /\ m - 1 \notin U
  BY <1>1, <1>2
<1> QED
  BY <1>3, <1>1

\* A function applied N times, and told how often it has been.
Iterates(f, A, F, a, N) ==
  f \in [0 .. N -> A] /\ f[0] = a /\ \A k \in 0 .. N - 1 : f[k + 1] = F[<<k, f[k]>>]

\* A function may be defined step by step.
LEMMA Iteration ==
  ASSUME SetFacts, NEW A, NEW F \in [Nat \X A -> A], NEW a \in A, NEW N \in Nat
  PROVE  \E f : Iterates(f, A, F, a, N)
<1> DEFINE T == {n \in Nat : \E f : Iterates(f, A, F, a, n)}
<1>1. 0 \in T
  <2>1. Iterates([k \in 0..0 |-> a], A, F, a, 0)
    BY DEF Iterates
  <2> QED
    BY <2>1
<1>2. ASSUME NEW n \in Nat, n \in T PROVE n + 1 \in T
  <2>1. PICK f : Iterates(f, A, F, a, n)
    BY <1>2
  <2> DEFINE g == [k \in 0 .. n + 1 |-> IF k <= n THEN f[k] ELSE F[<<n, f[n]>>]]
  <2>2. g \in [0 .. n + 1 -> A] /\ g[0] = a
    BY <2>1 DEF Iterates
  <2>3. ASSUME NEW k \in 0 .. (n + 1) - 1 PROVE g[k + 1] = F[<<k, g[k]>>]
    <3>1. CASE k < n
      BY <2>1, <3>1 DEF Iterates
    <3>2. CASE k = n
      BY <2>1, <3>2, SMTT(30) DEF Iterates
    <3> QED
      BY <3>1, <3>2
  <2>4. Iterates(g, A, F, a, n + 1)
    <3> HIDE DEF g
    <3> QED
      BY <2>2, <2>3 DEF Iterates
  <2> HIDE DEF g
  <2> QED
    BY <2>4
<1>3. Nat \subseteq T
  <2> HIDE DEF T
  <2> QED
    BY <1>1, <1>2, Induction
<1> QED
  BY <1>3

-----------------------------------------------------------------------------
(* The grid.                                                               *)

\* A product with a larger factor is larger.
LEMMA Monotone ==
  ASSUME NEW a \in Nat, NEW b \in Nat, a <= b
  PROVE  /\ a * a <= b * b
         /\ \A c \in Nat : c * a <= c * b
<1>1. PICK d \in Nat : b = a + d
  <2>1. b - a \in Nat /\ b = a + (b - a)
    OBVIOUS
  <2> QED
    BY <2>1
<1>2. a * a <= (a + d) * (a + d)
  <2>1. (a + d) * (a + d) = a * a + 2 * (a * d) + d * d
    BY Z3
  <2>2. a * d >= 0 /\ d * d >= 0
    BY Z3
  <2> QED
    BY <2>1, <2>2
<1>3. ASSUME NEW c \in Nat PROVE c * a <= c * (a + d)
  <2>1. c * (a + d) = c * a + c * d
    BY Z3
  <2>2. c * d >= 0
    BY Z3
  <2> QED
    BY <2>1, <2>2
<1> QED
  BY <1>1, <1>2, <1>3

\* Squares order numbers.
LEMMA SquareOrder ==
  ASSUME NEW a \in Nat, NEW b \in Nat, a * a < b * b
  PROVE  a < b
<1> SUFFICES ASSUME b <= a PROVE FALSE
  OBVIOUS
<1>1. b * b <= a * a
  BY Monotone
<1>2. a * a \in Int /\ b * b \in Int
  OBVIOUS
<1> QED
  BY <1>1, <1>2

\* Every number has a root, rounded down.
LEMMA Root ==
  ASSUME SetFacts, NEW s \in Nat
  PROVE  \E n \in Nat : n * n <= s /\ s < (n + 1) * (n + 1)
<1> DEFINE T == {n \in Nat : s < (n + 1) * (n + 1)}
<1>1. s \in T
  <2>1. (s + 1) * (s + 1) = s * s + 2 * s + 1 /\ s * s >= 0
    BY Z3
  <2> QED
    BY <2>1
<1>2. PICK n \in T : \A k \in T : n <= k
  <2>1. T \subseteq Nat /\ T # {}
    BY <1>1, Zenon
  <2> HIDE DEF T
  <2> QED
    BY <2>1, LeastNat, Zenon
<1>3. CASE n = 0
  BY <1>2, <1>3
<1>4. CASE n # 0
  <2>1. n - 1 \in Nat /\ n - 1 \notin T
    BY <1>2, <1>4
  <2>2. ~(s < ((n - 1) + 1) * ((n - 1) + 1)) /\ (n - 1) + 1 = n
    BY <2>1
  <2>3. n * n <= s
    BY <2>2
  <2> QED
    BY <1>2, <2>3
<1> QED
  BY <1>3, <1>4

\* The coordinates of a cell.
LEMMA Coordinates ==
  ASSUME NEW c \in Cell
  PROVE  /\ c[1] \in Nat /\ c[2] \in Nat /\ c = <<c[1], c[2]>>
         /\ c[1] < Width /\ c[2] < Height /\ Width \in Nat /\ Height \in Nat
  BY GridAssumption DEF Cell

\* The grid is finite.
LEMMA CellsFinite ==
  ASSUME SetFacts
  PROVE  IsFiniteSet(Cell) /\ Cardinality(Cell) \in Nat
<1>1. Width \in Nat /\ Height \in Nat
  BY GridAssumption
<1>2. IsFiniteSet(0 .. Width - 1) /\ IsFiniteSet(0 .. Height - 1)
  BY <1>1 DEF SetFacts
<1>3. IsFiniteSet(Cell)
  BY <1>2, Zenon DEF Cell, SetFacts
<1> QED
  BY <1>3 DEF SetFacts

\* The square of the distance, in hundredths.
Squares(a, b) == 10000 * ((a[1] - b[1]) * (a[1] - b[1]) + (a[2] - b[2]) * (a[2] - b[2]))

\* The distance is the root of the sum of the squares, rounded down.
LEMMA LengthIsRoot ==
  ASSUME SetFacts, NEW a \in Cell, NEW b \in Cell
  PROVE  /\ Length(a, b) \in 0 .. 100 * (Width + Height)
         /\ Length(a, b) * Length(a, b) <= Squares(a, b)
         /\ Squares(a, b) < (Length(a, b) + 1) * (Length(a, b) + 1)
         /\ Squares(a, b) \in Nat
<1> DEFINE dx == a[1] - b[1]  dy == a[2] - b[2]  s == Squares(a, b)  M == Width + Height
<1>1. /\ dx \in Int /\ dy \in Int /\ Width \in Nat /\ Height \in Nat /\ M \in Nat
      /\ -Width <= dx /\ dx <= Width /\ -Height <= dy /\ dy <= Height
  BY Coordinates
<1>2. dx * dx \in Nat /\ dy * dy \in Nat /\ dx * dx + dy * dy <= M * M
  <2> HIDE DEF dx, dy
  <2>1. ASSUME NEW x \in Int, NEW w \in Nat, -w <= x, x <= w PROVE x * x \in Nat /\ x * x <= w * w
    <3>1. CASE x >= 0
      BY <2>1, <3>1, Monotone
    <3>2. CASE x < 0
      <4>1. (-x) * (-x) = x * x
        BY Z3
      <4> QED
        BY <2>1, <3>2, <4>1, Monotone
    <3> QED
      BY <3>1, <3>2
  <2>2. dx * dx \in Nat /\ dx * dx <= Width * Width /\ dy * dy \in Nat /\ dy * dy <= Height * Height
    BY <1>1, <2>1
  <2>3. M * M = Width * Width + 2 * (Width * Height) + Height * Height /\ Width * Height >= 0
    BY <1>1, Z3
  <2>4. Width * Width \in Nat /\ Height * Height \in Nat /\ Width * Height \in Nat
    BY <1>1
  <2> QED
    BY <2>2, <2>3, <2>4
<1>3. s \in Nat /\ s <= (100 * M) * (100 * M)
  <2>1. s = 10000 * (dx * dx + dy * dy)
    BY DEF Squares
  <2>2. (100 * M) * (100 * M) = 10000 * (M * M)
    BY <1>1, Z3
  <2>3. M * M \in Nat
    BY <1>1
  <2> HIDE DEF s, dx, dy, M
  <2> QED
    BY <1>2, <2>1, <2>2, <2>3
<1>4. PICK n \in Nat : n * n <= s /\ s < (n + 1) * (n + 1)
  <2> HIDE DEF s
  <2> QED
    BY <1>3, Root
<1>5. n \in 0 .. 100 * M
  <2> DEFINE m == 100 * M
  <2>1. m \in Nat /\ n \in Nat
    BY <1>1
  <2>2. n * n <= m * m
    <3> HIDE DEF s
    <3>1. n * n \in Int /\ m * m \in Int
      BY <2>1
    <3> HIDE DEF m
    <3> QED
      BY <1>3, <1>4, <3>1 DEF m
  <2>3. n <= m
    <3> HIDE DEF m
    <3> SUFFICES ASSUME m < n PROVE FALSE
      BY <2>1
    <3>1. (m + 1) * (m + 1) <= n * n
      BY <2>1, Monotone
    <3>2. (m + 1) * (m + 1) = m * m + 2 * m + 1
      BY <2>1, Z3
    <3>3. m * m \in Int /\ n * n \in Int
      BY <2>1
    <3> QED
      BY <2>1, <2>2, <3>1, <3>2, <3>3
  <2> QED
    BY <2>1, <2>3
<1>6. Length(a, b) = CHOOSE k \in 0 .. 100 * M : k * k <= s /\ s < (k + 1) * (k + 1)
  BY DEF Length, lengths, Square, Squares
<1> HIDE DEF s, M
<1>7. Length(a, b) \in 0 .. 100 * M /\ Length(a, b) * Length(a, b) <= s /\ s < (Length(a, b) + 1) * (Length(a, b) + 1)
  BY <1>4, <1>5, <1>6
<1> QED
  BY <1>3, <1>7 DEF s, M

\* Cells that are not the same are a cell apart; those beside each other no more than the
\* root of two.
LEMMA LengthFacts ==
  ASSUME SetFacts, NEW a \in Cell, NEW b \in Cell
  PROVE  /\ Length(a, b) \in Nat
         /\ a # b => Length(a, b) >= 100
         /\ a = b => Length(a, b) = 0
         /\ b \in Around[a] => Length(a, b) <= 141
<1> DEFINE dx == a[1] - b[1]  dy == a[2] - b[2]  n == Length(a, b)
<1>1. n \in Nat /\ n * n <= Squares(a, b) /\ Squares(a, b) < (n + 1) * (n + 1) /\ Squares(a, b) \in Nat
  BY LengthIsRoot, GridAssumption
<1>2. dx \in Int /\ dy \in Int /\ (a # b => dx # 0 \/ dy # 0) /\ Squares(a, b) = 10000 * (dx * dx + dy * dy)
  BY Coordinates DEF Squares
<1>3. \A x \in Int : x * x \in Nat /\ (x # 0 => x * x >= 1)
  <2> SUFFICES ASSUME NEW x \in Int PROVE x * x \in Nat /\ (x # 0 => x * x >= 1)
    OBVIOUS
  <2>1. CASE x > 0
    BY <2>1, Z3
  <2>2. CASE x < 0
    BY <2>2, Z3
  <2>3. CASE x = 0
    BY <2>3
  <2> QED
    BY <2>1, <2>2, <2>3
<1>4. ASSUME a # b PROVE n >= 100
  <2> DEFINE p == dx * dx  q == dy * dy
  <2>1. p \in Nat /\ q \in Nat /\ p + q >= 1
    <3> HIDE DEF dx, dy
    <3> QED
      BY <1>2, <1>3, <1>4
  <2>2. Squares(a, b) = 10000 * (p + q)
    BY <1>2
  <2> HIDE DEF p, q, n
  <2>3. Squares(a, b) >= 10000
    BY <2>1, <2>2
  <2>4. 100 * 100 < (n + 1) * (n + 1)
    <3>1. (n + 1) * (n + 1) \in Int
      BY <1>1
    <3> QED
      BY <1>1, <2>3, <3>1
  <2>5. 100 < n + 1
    BY <1>1, <2>4, SquareOrder
  <2> QED
    BY <1>1, <2>5
<1>5. ASSUME a = b PROVE n = 0
  <2>1. dx = 0 /\ dy = 0
    BY <1>5, Coordinates
  <2>2. Squares(a, b) = 0
    BY <1>2, <2>1
  <2> HIDE DEF n
  <2> SUFFICES ASSUME n > 0 PROVE FALSE
    BY <1>1
  <2>3. n * n >= 1
    BY <1>1, <1>3
  <2>4. n * n \in Int
    BY <1>1
  <2> QED
    BY <1>1, <2>2, <2>3, <2>4
<1>6. ASSUME b \in Around[a] PROVE n <= 141
  <2>1. dx \in -1..1 /\ dy \in -1..1
    <3>1. b[1] - a[1] \in -1..1 /\ b[2] - a[2] \in -1..1
      BY <1>6 DEF Around
    <3> QED
      BY <3>1, Coordinates
  <2>2. dx * dx <= 1 /\ dy * dy <= 1
    <3> HIDE DEF dx, dy
    <3>1. \A x \in -1..1 : x * x <= 1
      <4> SUFFICES ASSUME NEW x \in -1..1 PROVE x * x <= 1
        OBVIOUS
      <4>1. x = -1 \/ x = 0 \/ x = 1
        OBVIOUS
      <4> QED
        BY <4>1
    <3> QED
      BY <2>1, <3>1
  <2> DEFINE p == dx * dx  q == dy * dy
  <2>3. p \in Nat /\ q \in Nat
    <3> HIDE DEF dx, dy
    <3> QED
      BY <1>2, <1>3
  <2>4. Squares(a, b) = 10000 * (p + q) /\ p <= 1 /\ q <= 1
    BY <1>2, <2>2
  <2> HIDE DEF p, q, n
  <2>5. Squares(a, b) <= 20000
    BY <2>3, <2>4
  <2>6. n * n < 142 * 142
    <3>1. n * n \in Int
      BY <1>1
    <3> QED
      BY <1>1, <2>5, <3>1
  <2>7. n < 142
    BY <1>1, <2>6, SquareOrder
  <2> QED
    BY <1>1, <2>7
<1> QED
  BY <1>1, <1>4, <1>5, <1>6

\* The heuristic of the Smac planner is consistent: a step never brings the goal nearer
\* than it is long.
LEMMA Consistent ==
  ASSUME SetFacts, NEW a \in Cell, NEW n \in Around[a], NEW g \in Cell
  PROVE  Length(a, g) <= travel(a, n) + Length(n, g)
<1>0. n \in Cell /\ n # a
  BY DEF Around
<1> DEFINE x == n[1] - g[1]  y == n[2] - g[2]  dx == a[1] - n[1]  dy == a[2] - n[2]
           L == Length(a, g)  m == Length(n, g) + 1  t == travel(a, n)
<1>1. x \in Int /\ y \in Int /\ dx \in -1..1 /\ dy \in -1..1 /\ ~(dx = 0 /\ dy = 0)
  <2>1. n[1] - a[1] \in -1..1 /\ n[2] - a[2] \in -1..1
    BY DEF Around
  <2>2. n[1] \in Nat /\ n[2] \in Nat /\ a[1] \in Nat /\ a[2] \in Nat /\ g[1] \in Nat /\ g[2] \in Nat
    BY <1>0, Coordinates
  <2>3. n = <<n[1], n[2]>> /\ a = <<a[1], a[2]>>
    BY <1>0, Coordinates
  <2>4. ~(n[1] = a[1] /\ n[2] = a[2])
    BY <1>0, <2>3
  <2> QED
    BY <2>1, <2>2, <2>4
<1>2. t = IF dx = 0 \/ dy = 0 THEN 100 ELSE 142
  <2>1. n[1] \in Nat /\ n[2] \in Nat /\ a[1] \in Nat /\ a[2] \in Nat
    BY <1>0, Coordinates
  <2>2. (dx = 0 <=> a[1] = n[1]) /\ (dy = 0 <=> a[2] = n[2])
    BY <2>1
  <2> QED
    BY <2>2 DEF travel
<1>3. L \in Nat /\ m \in Nat /\ L * L <= Squares(a, g) /\ Squares(n, g) < m * m /\ Squares(a, g) \in Nat /\ Squares(n, g) \in Nat
  <2>1. L \in Nat /\ Length(n, g) \in Nat
    BY <1>0, LengthFacts
  <2>2. L * L <= Squares(a, g) /\ Squares(a, g) \in Nat
    BY LengthIsRoot
  <2>3. Squares(n, g) < m * m /\ Squares(n, g) \in Nat
    BY <1>0, LengthIsRoot
  <2> QED
    BY <2>1, <2>2, <2>3
<1>4. Squares(n, g) = 10000 * (x * x + y * y)
  BY DEF Squares
<1>5. Squares(a, g) = 10000 * ((x + dx) * (x + dx) + (y + dy) * (y + dy))
  <2>1. a[1] - g[1] = x + dx /\ a[2] - g[2] = y + dy
    BY <1>0, Coordinates
  <2> HIDE DEF x, y, dx, dy
  <2> QED
    BY <2>1 DEF Squares
<1>6. t \in Nat
  BY <1>2
<1> HIDE DEF x, y, dx, dy, L, m, t
<1>7. Squares(a, g) < (m + t) * (m + t)
  <2>1. \A z \in Int, k \in Nat : z * z < k * k => z < k
    <3> SUFFICES ASSUME NEW z \in Int, NEW k \in Nat, z * z < k * k PROVE z < k
      OBVIOUS
    <3>1. CASE z >= 0
      BY <3>1, SquareOrder
    <3>2. CASE z < 0
      BY <3>2
    <3> QED
      BY <3>1, <3>2
  <2>2. x * x \in Int /\ y * y \in Int /\ m * m \in Int /\ x * x >= 0 /\ y * y >= 0
    <3>1. \A z \in Int : z * z \in Int /\ z * z >= 0
      BY Z3
    <3> QED
      BY <1>1, <1>3, <3>1
  <2>3. (m + t) * (m + t) = m * m + 2 * (t * m) + t * t
    BY <1>3, <1>6, Z3
  <2>4. ASSUME NEW s \in {-1, 1} PROVE 100 * (s * x) < m /\ 100 * (s * y) < m
    <3>1. (100 * (s * x)) * (100 * (s * x)) = 10000 * (x * x) /\ (100 * (s * y)) * (100 * (s * y)) = 10000 * (y * y)
      <4>1. CASE s = 1
        BY <1>1, <4>1, Z3
      <4>2. CASE s = -1
        BY <1>1, <4>2, Z3
      <4> QED
        BY <4>1, <4>2
    <3>2. (100 * (s * x)) * (100 * (s * x)) < m * m /\ (100 * (s * y)) * (100 * (s * y)) < m * m
      <4> DEFINE xx == x * x  yy == y * y  mm == m * m
      <4>1. 10000 * xx < mm /\ 10000 * yy < mm
        <5>1. xx \in Int /\ yy \in Int /\ mm \in Int /\ xx >= 0 /\ yy >= 0 /\ 10000 * (xx + yy) < mm
          BY <1>3, <1>4, <2>2
        <5> HIDE DEF xx, yy, mm
        <5> QED
          BY <5>1
      <4> QED
        BY <3>1, <4>1
    <3>3. 100 * (s * x) \in Int /\ 100 * (s * y) \in Int
      BY <1>1
    <3> QED
      BY <1>3, <2>1, <3>2, <3>3
  <2>5. CASE dy = 0
    <3>1. dx \in {-1, 1} /\ t = 100
      BY <1>1, <1>2, <2>5
    <3>2. Squares(a, g) = 10000 * (x * x) + 20000 * (dx * x) + 10000 + 10000 * (y * y)
      <4>1. (x + dx) * (x + dx) = x * x + 2 * (dx * x) + 1
        <5>1. CASE dx = 1
          BY <1>1, <5>1, Z3
        <5>2. CASE dx = -1
          BY <1>1, <5>2, Z3
        <5> QED
          BY <3>1, <5>1, <5>2
      <4>2. y + dy = y
        BY <1>1, <2>5
      <4>3. dx * x \in Int
        BY <1>1, <3>1
      <4> QED
        BY <1>5, <2>2, <4>1, <4>2, <4>3
    <3>3. dx * x \in Int /\ 100 * (dx * x) < m
      BY <1>1, <2>4, <3>1
    <3>4. t * m = 100 * m /\ t * t = 10000
      BY <3>1
    <3> DEFINE xx == x * x  yy == y * y  mm == m * m  dd == dx * x
    <3> HIDE DEF xx, yy, mm, dd
    <3>5. /\ Squares(a, g) = 10000 * xx + 20000 * dd + 10000 + 10000 * yy
          /\ 10000 * (xx + yy) < mm /\ 100 * dd < m /\ dd \in Int
          /\ (m + t) * (m + t) = mm + 2 * (100 * m) + 10000
          /\ xx \in Int /\ yy \in Int /\ mm \in Int
      BY <1>3, <1>4, <2>2, <2>3, <3>2, <3>3, <3>4 DEF xx, yy, mm, dd
    <3> QED
      BY <1>3, <3>5
  <2>6. CASE dx = 0
    <3>1. dy \in {-1, 1} /\ t = 100
      BY <1>1, <1>2, <2>6
    <3>2. Squares(a, g) = 10000 * (x * x) + 20000 * (dy * y) + 10000 + 10000 * (y * y)
      <4>1. (y + dy) * (y + dy) = y * y + 2 * (dy * y) + 1
        <5>1. CASE dy = 1
          BY <1>1, <5>1, Z3
        <5>2. CASE dy = -1
          BY <1>1, <5>2, Z3
        <5> QED
          BY <3>1, <5>1, <5>2
      <4>2. x + dx = x
        BY <1>1, <2>6
      <4>3. dy * y \in Int
        BY <1>1, <3>1
      <4> QED
        BY <1>5, <2>2, <4>1, <4>2, <4>3
    <3>3. dy * y \in Int /\ 100 * (dy * y) < m
      BY <1>1, <2>4, <3>1
    <3>4. t * m = 100 * m /\ t * t = 10000
      BY <3>1
    <3> DEFINE xx == x * x  yy == y * y  mm == m * m  dd == dy * y
    <3> HIDE DEF xx, yy, mm, dd
    <3>5. /\ Squares(a, g) = 10000 * xx + 20000 * dd + 10000 + 10000 * yy
          /\ 10000 * (xx + yy) < mm /\ 100 * dd < m /\ dd \in Int
          /\ (m + t) * (m + t) = mm + 2 * (100 * m) + 10000
          /\ xx \in Int /\ yy \in Int /\ mm \in Int
      BY <1>3, <1>4, <2>2, <2>3, <3>2, <3>3, <3>4 DEF xx, yy, mm, dd
    <3> QED
      BY <1>3, <3>5
  <2>7. CASE dx # 0 /\ dy # 0
    <3>1. dx \in {-1, 1} /\ dy \in {-1, 1} /\ t = 142
      BY <1>1, <1>2, <2>7
    <3> DEFINE z == dx * x + dy * y
    <3>2. z \in Int
      BY <1>1, <3>1
    <3>3. /\ (x + dx) * (x + dx) + (y + dy) * (y + dy) = x * x + y * y + 2 * z + 2
          /\ z * z <= 2 * (x * x + y * y)
      <4>1. CASE dx = 1 /\ dy = 1
        <5>1. (x - y) * (x - y) >= 0
          BY <1>1, Z3
        <5> QED
          BY <1>1, <4>1, <5>1, Z3
      <4>2. CASE dx = 1 /\ dy = -1
        <5>1. (x + y) * (x + y) >= 0
          BY <1>1, Z3
        <5> QED
          BY <1>1, <4>2, <5>1, Z3
      <4>3. CASE dx = -1 /\ dy = 1
        <5>1. (x + y) * (x + y) >= 0
          BY <1>1, Z3
        <5> QED
          BY <1>1, <4>3, <5>1, Z3
      <4>4. CASE dx = -1 /\ dy = -1
        <5>1. (x - y) * (x - y) >= 0
          BY <1>1, Z3
        <5> QED
          BY <1>1, <4>4, <5>1, Z3
      <4> QED
        BY <3>1, <4>1, <4>2, <4>3, <4>4
    <3> HIDE DEF z
    <3> DEFINE w == x * x + y * y  zz == z * z  mm == m * m
    <3>4. w \in Int /\ zz \in Int /\ mm \in Int /\ zz <= 2 * w /\ 10000 * w < mm /\ mm >= 0
      <4>1. mm >= 0
        BY <1>3, Z3
      <4> QED
        BY <1>3, <1>4, <2>2, <3>2, <3>3, <4>1
    <3>5. (5000 * z) * (5000 * z) = 25000000 * zz /\ (71 * m) * (71 * m) = 5041 * mm
      BY <1>3, <3>2, Z3
    <3>6. (5000 * z) * (5000 * z) < (71 * m) * (71 * m)
      <4> HIDE DEF w, zz, mm
      <4> QED
        BY <3>4, <3>5
    <3>7. 5000 * z < 71 * m
      BY <1>3, <2>1, <3>2, <3>6
    <3>8. Squares(a, g) = 10000 * w + 20000 * z + 20000 /\ (m + t) * (m + t) = mm + 2 * (142 * m) + 20164
      BY <1>3, <1>5, <2>3, <3>1, <3>2, <3>3, <3>4
    <3> HIDE DEF w, zz, mm
    <3> QED
      BY <1>3, <3>2, <3>4, <3>7, <3>8
  <2> QED
    BY <2>5, <2>6, <2>7
<1>8. L * L < (m + t) * (m + t)
  <2>1. L * L \in Int /\ (m + t) * (m + t) \in Int
    BY <1>3, <1>6
  <2> QED
    BY <1>3, <1>7, <2>1
<1>9. L < m + t
  BY <1>3, <1>6, <1>8, SquareOrder
<1>10. Length(n, g) \in Nat
  BY <1>0, LengthFacts
<1> QED
  BY <1>3, <1>6, <1>9, <1>10 DEF L, m, t

\* The costs are those of a costmap.
Costs == costs \in [Cell -> {Free, Costly, Lethal}]

\* Infinity is a number.
LEMMA InfinityFacts ==
  ASSUME SetFacts
  PROVE  Infinity \in Nat /\ Infinity = 1000 * (Cardinality(Cell) + 1)
BY CellsFinite DEF Infinity

\* What the planners are given, and may clear a cell of.
Given == Costs /\ tolerance \in Nat /\ tolerance <= Infinity

\* The nodes that have been reached.
Opened == {c \in Cell : tree[c].g < Infinity}

\* Their costs are small.
Small == \A c \in Opened : tree[c].g <= 1000 * Cardinality(Opened)

\* The nodes reached are finitely many.
LEMMA OpenedFinite ==
  ASSUME SetFacts
  PROVE
  /\ Opened \in SUBSET Cell /\ IsFiniteSet(Opened)
  /\ Cardinality(Opened) \in Nat /\ Cardinality(Opened) <= Cardinality(Cell)
  /\ Opened # Cell => Cardinality(Opened) < Cardinality(Cell)
<1>1. Opened \in SUBSET Cell
  BY DEF Opened
<1>2. IsFiniteSet(Opened) /\ Cardinality(Opened) \in Nat /\ Cardinality(Opened) <= Cardinality(Cell)
  BY <1>1, CellsFinite, FiniteSubset
<1>3. Opened # Cell => Cardinality(Opened) < Cardinality(Cell)
  BY <1>1, <1>2, CellsFinite, FiniteSubset
<1> QED
  BY <1>1, <1>2, <1>3

\* A node costs little more than the node it was reached from, so costs grow no faster than
\* the number of nodes.
LEMMA SmallStays ==
  ASSUME SetFacts, Small, NEW B \in SUBSET Cell, Opened' = Opened \cup B,
         \A n \in Opened : tree[n].g \in Nat /\ tree'[n].g \in Nat /\ tree'[n].g <= tree[n].g,
         NEW c \in Opened, \A n \in B : tree'[n].g \in Nat /\ tree'[n].g <= tree[c].g + 500
  PROVE  Small'
<1>1. SUFFICES ASSUME NEW n \in Opened' PROVE tree'[n].g <= 1000 * Cardinality(Opened')
  BY Zenon DEF Small
<1> DEFINE k == Cardinality(Opened)  m == Cardinality(Opened \cup B)
<1>2. k \in Nat /\ m \in Nat /\ k <= m /\ (Opened # Opened \cup B => k < m)
  <2>1. Opened \cup B \in SUBSET Cell
    BY DEF Opened
  <2>2. IsFiniteSet(Opened \cup B) /\ m \in Nat
    BY <2>1, CellsFinite, FiniteSubset
  <2> QED
    BY <2>2, FiniteSubset, OpenedFinite
<1>3. \A x \in Opened : tree[x].g <= 1000 * k
  BY DEF Small
<1> HIDE DEF k, m
<1>4. CASE n \in Opened
  <2>1. tree'[n].g <= 1000 * m
    BY <1>2, <1>3, <1>4
  <2> QED
    BY <2>1 DEF m
<1>5. CASE n \notin Opened
  <2>1. n \in B /\ k < m
    BY <1>1, <1>2, <1>5
  <2>2. tree[c].g \in Nat /\ tree[c].g <= 1000 * k /\ tree'[n].g \in Nat /\ tree'[n].g <= tree[c].g + 500
    BY <1>3, <2>1
  <2>3. tree'[n].g <= 1000 * m
    BY <1>2, <2>1, <2>2
  <2> QED
    BY <2>3 DEF m
<1> QED
  BY <1>4, <1>5

-----------------------------------------------------------------------------
(* Theta*: the line of sight.                                              *)

\* What a cell adds to the cost is a number.
LEMMA TraversalNat ==
  ASSUME SetFacts
  PROVE  \A x : traversal(x) \in Nat
BY InfinityFacts DEF traversal, Free, Costly

LineState == [v : Int, f : Int, sum : Nat]

\* A turn of losCheck() leaves numbers behind.
LEMMA LosStepTyped ==
  ASSUME SetFacts, NEW u, NEW here \in LineState, NEW long \in Nat, NEW short \in Nat, NEW at
  PROVE  losStep(u, here, long, short, at) \in LineState
<1> DEFINE g == here.f + short
           turns == g >= long
           v2 == IF turns THEN here.v + 1 ELSE here.v
           f2 == IF turns THEN g - long ELSE g
           level == IF Unsafe(at[<<u, 0>>]) THEN at[<<u, -1>>] ELSE at[<<u, 0>>]
           cells == (IF turns THEN <<at[<<u, here.v>>]>> ELSE <<>>)
                    \o (IF f2 # 0 THEN <<at[<<u, v2>>]>> ELSE <<>>)
                    \o (IF short = 0 THEN <<level>> ELSE <<>>)
           more == here.sum + (IF cells = <<>> THEN 0 ELSE traversal(cells[1]))
                            + (IF Len(cells) < 2 THEN 0 ELSE traversal(cells[2]))
           blocked == here.sum = Infinity \/ \E i \in DOMAIN cells : Unsafe(cells[i])
<1>1. losStep(u, here, long, short, at) =
        IF blocked THEN [here EXCEPT !.sum = Infinity] ELSE [v |-> v2, f |-> f2, sum |-> more]
  BY DEF losStep
<1>2. v2 \in Int /\ f2 \in Int
  BY DEF LineState
<1> HIDE DEF cells, v2, f2, blocked
<1>3. more \in Nat
  BY TraversalNat DEF LineState
<1> HIDE DEF more
<1> QED
  BY <1>1, <1>2, <1>3, InfinityFacts DEF LineState

\* The turns of losCheck().
Turns(line, long, short, at) ==
  line = [u \in 0 .. long |-> IF u = 0 THEN [v |-> 0, f |-> 0, sum |-> 0]
                              ELSE CHOOSE s \in {losStep(u - 1, here, long, short, at) : here \in {line[u - 1]}} : TRUE]

\* And so do all its turns.
LEMMA LosLineNat ==
  ASSUME SetFacts, NEW long \in Nat, NEW short \in Nat, NEW at
  PROVE  losLine(long, short, at) \in Nat
<1> DEFINE zero == [v |-> 0, f |-> 0, sum |-> 0]
           Step(u, here) == losStep(u, here, long, short, at)
           F == [x \in Nat \X LineState |-> Step(x[1], x[2])]
<1>1. zero \in LineState
  BY DEF LineState
<1>2. \A u, h : h \in LineState => Step(u, h) \in LineState
  BY LosStepTyped
<1>3. \A u, h : (CHOOSE s \in {Step(u, here) : here \in {h}} : TRUE) = Step(u, h)
  OBVIOUS
<1> HIDE DEF zero, Step
<1>4. F \in [Nat \X LineState -> LineState]
  BY <1>2
<1>5. PICK line : Iterates(line, LineState, F, zero, long)
  <2> HIDE DEF F
  <2> QED
    BY <1>1, <1>4, Iteration, Zenon
<1>51. /\ line \in [0 .. long -> LineState] /\ line[0] = zero
       /\ \A k \in 0 .. long - 1 : line[k + 1] = F[<<k, line[k]>>]
  BY <1>5, Zenon DEF Iterates
<1>6. \A u \in 0 .. long : u # 0 => line[u] = Step(u - 1, line[u - 1])
  <2> SUFFICES ASSUME NEW u \in 0 .. long, u # 0 PROVE line[u] = Step(u - 1, line[u - 1])
    OBVIOUS
  <2>1. u - 1 \in 0 .. long - 1 /\ u - 1 \in 0 .. long /\ u - 1 \in Nat /\ (u - 1) + 1 = u
    OBVIOUS
  <2>2. line[u] = F[<<u - 1, line[u - 1]>>]
    BY <1>51, <2>1, Zenon
  <2>3. line[u - 1] \in LineState
    BY <1>51, <2>1
  <2> QED
    BY <2>1, <2>2, <2>3
<1>7. line = [u \in 0 .. long |-> IF u = 0 THEN zero ELSE CHOOSE s \in {Step(u - 1, here) : here \in {line[u - 1]}} : TRUE]
  BY <1>3, <1>51, <1>6
<1>8. Turns(line, long, short, at)
  BY <1>7, Zenon DEF Turns, zero, Step
<1>9. losLine(long, short, at) = (CHOOSE l : Turns(l, long, short, at))[long].sum
  BY DEF losLine, Turns
<1>10. PICK l : l = (CHOOSE m : Turns(m, long, short, at)) /\ Turns(l, long, short, at)
  BY <1>8
<1>11. l = [u \in 0 .. long |-> IF u = 0 THEN zero ELSE CHOOSE s \in {Step(u - 1, here) : here \in {l[u - 1]}} : TRUE]
  BY <1>10, Zenon DEF Turns, zero, Step
<1>12. l[0] = zero /\ \A u \in 0 .. long : u # 0 => l[u] = Step(u - 1, l[u - 1])
  BY <1>3, <1>11
<1> DEFINE T == {n \in Nat : n <= long => l[n] \in LineState}
<1>13. 0 \in T
  BY <1>1, <1>12
<1>14. ASSUME NEW n \in Nat, n \in T PROVE n + 1 \in T
  <2>1. ASSUME n + 1 <= long PROVE l[n + 1] \in LineState
    <3>1. l[n] \in LineState /\ n + 1 \in 0 .. long /\ n + 1 # 0 /\ (n + 1) - 1 = n
      BY <1>14, <2>1
    <3>2. l[n + 1] = Step(n, l[n])
      BY <1>12, <3>1
    <3> QED
      BY <1>2, <3>1, <3>2
  <2> QED
    BY <2>1
<1>15. Nat \subseteq T
  <2> HIDE DEF T
  <2> QED
    BY <1>13, <1>14, Induction
<1>16. l[long] \in LineState
  BY <1>15
<1> QED
  BY <1>9, <1>10, <1>16 DEF LineState

\* The cost of a line is a number, whatever lies beyond the grid.
LEMMA LosCheckNat ==
  ASSUME SetFacts, NEW a \in Cell, NEW b \in Cell, NEW beyond
  PROVE  losCheck(a, b, beyond) \in Nat
<1>1. Dist(a[1], b[1]) \in Nat /\ Dist(a[2], b[2]) \in Nat
  BY Coordinates DEF Dist
<1> DEFINE dx == Dist(a[1], b[1])  dy == Dist(a[2], b[2])
<1>2. \A at : losLine(dx, dy, at) \in Nat /\ losLine(dy, dx, at) \in Nat
  BY <1>1, LosLineNat
<1> QED
  BY <1>2 DEF losCheck

\* While Theta* searches: parents cost less, costs stay small, and every node reached but
\* the one in hand waits or has had its neighbours reached.
ThetaNodes ==
  /\ tree \in [Cell -> [g : Nat, parent : Cell, queued : BOOLEAN]]
  /\ \A c \in Cell : tree[c].g <= Infinity
Parents == \A c \in Opened \ {Start} : tree[tree[c].parent].g < tree[c].g
Expanded(c) == \A n \in Around[c] : n \in Opened \/ Unsafe(costs[n])

ThetaPlan ==
  /\ ThetaNodes /\ Parents /\ Small
  /\ curr \in Opened /\ open \subseteq Opened
  /\ \A c \in Opened : c = curr \/ c \in open \/ Expanded(c)

\* resetParent() leaves a node with a cheaper parent.
LEMMA ResetFacts ==
  ASSUME SetFacts, ThetaPlan, NEW beyond
  PROVE  LET node == resetParent(curr, beyond)
         IN  /\ node \in [g : Nat, parent : Cell, queued : BOOLEAN]
             /\ node.g <= tree[curr].g
             /\ curr # Start => node.parent # curr /\ tree[node.parent].g < node.g
<1> DEFINE p == tree[tree[curr].parent].parent
           l == Length(curr, p)
           s == losCheck(curr, p, beyond)
           cost == tree[p].g + l + s
<1>1. /\ tree \in [Cell -> [g : Nat, parent : Cell, queued : BOOLEAN]] /\ curr \in Cell
      /\ curr \in Opened
  BY DEF ThetaPlan, ThetaNodes, Opened
<1>2. p \in Cell /\ tree[p].g \in Nat /\ tree[curr].g \in Nat /\ tree[curr] \in [g : Nat, parent : Cell, queued : BOOLEAN]
  BY <1>1
<1>3. resetParent(curr, beyond) = IF cost < tree[curr].g THEN [g |-> cost, parent |-> p, queued |-> FALSE]
                                  ELSE [tree[curr] EXCEPT !.queued = FALSE]
  BY DEF resetParent
<1> HIDE DEF p
<1>4. l \in Nat /\ s \in Nat /\ (p # curr => l >= 100)
  BY <1>1, <1>2, LengthFacts, LosCheckNat
<1> HIDE DEF l, s
<1>5. CASE cost < tree[curr].g
  <2>1. p # curr
    BY <1>2, <1>4, <1>5
  <2>2. cost \in Nat /\ tree[p].g < cost
    BY <1>2, <1>4, <2>1
  <2> HIDE DEF cost
  <2> QED
    BY <1>2, <1>3, <1>5, <2>1, <2>2
<1>6. CASE ~(cost < tree[curr].g)
  <2> HIDE DEF cost
  <2>1. resetParent(curr, beyond) = [tree[curr] EXCEPT !.queued = FALSE]
    BY <1>3, <1>6
  <2>2. curr # Start => tree[tree[curr].parent].g < tree[curr].g
    BY <1>1 DEF ThetaPlan, Parents
  <2>3. curr # Start => tree[curr].parent # curr
    BY <1>2, <2>2
  <2> DEFINE r == tree[curr]
  <2>4. r \in [g : Nat, parent : Cell, queued : BOOLEAN]
    BY <1>2
  <2> HIDE DEF r
  <2>5. [r EXCEPT !.queued = FALSE] \in [g : Nat, parent : Cell, queued : BOOLEAN] /\
        [r EXCEPT !.queued = FALSE].g = r.g /\ [r EXCEPT !.queued = FALSE].parent = r.parent
    BY <2>4, Zenon
  <2>6. r.g <= r.g
    BY <2>4
  <2> QED
    BY <2>1, <2>2, <2>3, <2>5, <2>6 DEF r
<1> QED
  BY <1>5, <1>6

\* A turn of the loop: the node in hand, and the neighbours to which it is a cheaper way.
Turned(node, B) ==
  /\ node \in [g : Nat, parent : Cell, queued : BOOLEAN] /\ node.g <= tree[curr].g
  /\ curr # Start => node.parent # curr /\ tree[node.parent].g < node.g
  /\ B \subseteq Around[curr]
  /\ \A n \in Around[curr] : n \in B \/ Unsafe(costs[n]) \/ n \in Opened
  /\ tree' = [n \in Cell |-> tree'[n]] /\ tree'[curr] = node
  /\ \A n \in B : /\ tree'[n] \in [g : Nat, parent : Cell, queued : BOOLEAN] /\ tree'[n].parent = curr
                  /\ node.g < tree'[n].g /\ tree'[n].g <= node.g + 325 /\ tree'[n].g < tree[n].g
  /\ \A n \in Cell \ B : n = curr \/ tree'[n] = tree[n]
  /\ curr' \in open \cup B /\ open \cup B = open' \cup {curr'}

\* That is what a turn does: resetParent() and setNeighbors().
LEMMA TurnEffect ==
  ASSUME SetFacts, Costs, ThetaPlan, NEW beyond, setNeighbors(curr, resetParent(curr, beyond))
  PROVE  \E node, B : Turned(node, B)
<1>1. PICK node : node = resetParent(curr, beyond)
  OBVIOUS
<1>2. /\ node \in [g : Nat, parent : Cell, queued : BOOLEAN] /\ node.g <= tree[curr].g
      /\ curr # Start => node.parent # curr /\ tree[node.parent].g < node.g
  BY <1>1, ResetFacts
<1> DEFINE cost(n) == node.g + Length(curr, n) + traversal(costs[n])
           better == {n \in Around[curr] : ~Unsafe(costs[n]) /\ improves(n, cost(n))}
<1>3. PICK B : B = better
  BY Zenon
<1>4. /\ tree' = [n \in Cell |-> IF n = curr THEN node
                                 ELSE IF n \in B THEN [g |-> cost(n), parent |-> curr, queued |-> TRUE]
                                 ELSE tree[n]]
      /\ \E top \in open \cup B : curr' = top /\ open' = (open \cup B) \ {top}
  BY <1>1, <1>3 DEF setNeighbors
<1>5. curr \in Cell /\ Around[curr] \subseteq Cell /\ curr \notin Around[curr]
  BY DEF ThetaPlan, Opened, Around
<1>6. ASSUME NEW n \in Around[curr], ~Unsafe(costs[n])
      PROVE  cost(n) \in Nat /\ node.g < cost(n) /\ cost(n) <= node.g + 325
  <2>1. n \in Cell /\ n # curr
    BY <1>5
  <2>2. Length(curr, n) \in Nat /\ Length(curr, n) >= 100 /\ Length(curr, n) <= 141
    BY <1>5, <2>1, LengthFacts
  <2>3. costs[n] = Free \/ costs[n] = Costly
    BY <1>6, <2>1, SMT DEF Costs, Unsafe, Free, Costly, Lethal
  <2>4. traversal(costs[n]) \in Nat /\ traversal(costs[n]) <= 184
    BY <2>3 DEF traversal, Free, Costly
  <2> QED
    BY <1>2, <2>2, <2>4
<1>7. ASSUME NEW n \in Around[curr], ~Unsafe(costs[n]), n \notin B
      PROVE  n \in Opened
  <2>1. n \in Cell /\ cost(n) \in Nat /\ cost(n) <= node.g + 325
    BY <1>5, <1>6, <1>7
  <2>2. ~(cost(n) < tree[n].g)
    BY <1>3, <1>7 DEF improves
  <2>3. node.g <= 1000 * Cardinality(Opened) /\ node.g \in Nat
    <3>1. tree[curr].g <= 1000 * Cardinality(Opened) /\ tree[curr].g \in Nat
      BY <1>5 DEF ThetaPlan, Small, ThetaNodes
    <3> QED
      BY <1>2, <3>1, OpenedFinite
  <2>4. tree[n].g \in Nat /\ tree[n].g <= Infinity
    BY <2>1 DEF ThetaPlan, ThetaNodes
  <2> HIDE DEF cost
  <2>5. tree[n].g < Infinity
    BY <2>1, <2>2, <2>3, <2>4, OpenedFinite, CellsFinite, InfinityFacts
  <2> QED
    BY <2>1, <2>5 DEF Opened
<1>8. B \subseteq Around[curr] /\ \A n \in B : ~Unsafe(costs[n]) /\ cost(n) < tree[n].g
  BY <1>3 DEF improves
<1>9. \A n \in B : /\ tree'[n] = [g |-> cost(n), parent |-> curr, queued |-> TRUE]
                   /\ cost(n) \in Nat /\ node.g < cost(n) /\ cost(n) <= node.g + 325 /\ cost(n) < tree[n].g
  BY <1>4, <1>5, <1>6, <1>8
<1> HIDE DEF cost, better
<1>10. \A n \in B : /\ tree'[n] \in [g : Nat, parent : Cell, queued : BOOLEAN] /\ tree'[n].parent = curr
                    /\ node.g < tree'[n].g /\ tree'[n].g <= node.g + 325 /\ tree'[n].g < tree[n].g
  <2> SUFFICES ASSUME NEW n \in B
               PROVE  /\ tree'[n] \in [g : Nat, parent : Cell, queued : BOOLEAN] /\ tree'[n].parent = curr
                      /\ node.g < tree'[n].g /\ tree'[n].g <= node.g + 325 /\ tree'[n].g < tree[n].g
    OBVIOUS
  <2>1. PICK k : k = cost(n)
    OBVIOUS
  <2>2. /\ tree'[n] = [g |-> k, parent |-> curr, queued |-> TRUE]
        /\ k \in Nat /\ node.g < k /\ k <= node.g + 325 /\ k < tree[n].g
    BY <1>9, <2>1
  <2>3. tree'[n].g = k /\ tree'[n].parent = curr /\ tree'[n] \in [g : Nat, parent : Cell, queued : BOOLEAN]
    BY <1>5, <2>2
  <2> QED
    BY <2>2, <2>3
<1>11. tree' = [n \in Cell |-> tree'[n]] /\ tree'[curr] = node /\ \A n \in Cell \ B : n = curr \/ tree'[n] = tree[n]
  BY <1>4, <1>5
<1>12. curr' \in open \cup B /\ open \cup B = open' \cup {curr'}
  BY <1>4
<1>13. Turned(node, B)
  BY <1>2, <1>7, <1>8, <1>10, <1>11, <1>12 DEF Turned
<1> QED
  BY <1>13

\* A turn keeps what holds of the nodes.
LEMMA TurnKeepsPlan ==
  ASSUME SetFacts, Costs, ThetaPlan, NEW node, NEW B, Turned(node, B), UNCHANGED costs
  PROVE  ThetaPlan'
<1> DEFINE Node == [g : Nat, parent : Cell, queued : BOOLEAN]
<1>1. /\ node \in Node /\ node.g <= tree[curr].g
      /\ curr # Start => node.parent # curr /\ tree[node.parent].g < node.g
      /\ B \subseteq Around[curr]
      /\ \A n \in Around[curr] : n \in B \/ Unsafe(costs[n]) \/ n \in Opened
      /\ tree' = [n \in Cell |-> tree'[n]] /\ tree'[curr] = node
      /\ \A n \in Cell \ B : n = curr \/ tree'[n] = tree[n]
      /\ curr' \in open \cup B /\ open \cup B = open' \cup {curr'}
  BY DEF Turned
<1>2. \A n \in B : /\ tree'[n] \in Node /\ tree'[n].parent = curr
                   /\ node.g < tree'[n].g /\ tree'[n].g <= node.g + 325 /\ tree'[n].g < tree[n].g
  BY DEF Turned
<1>3. /\ curr \in Opened /\ open \subseteq Opened /\ tree \in [Cell -> Node] /\ Parents /\ Small
      /\ \A c \in Cell : tree[c] \in Node /\ tree[c].g \in Nat /\ tree[c].g <= Infinity
  BY DEF ThetaPlan, ThetaNodes
<1>4. curr \in Cell /\ B \subseteq Cell /\ curr \notin B
  BY <1>1, <1>3 DEF Opened, Around
<1>5. ASSUME NEW n \in Cell
      PROVE  tree'[n] \in Node /\ tree'[n].g \in Nat /\ tree'[n].g <= tree[n].g
  <2>1. CASE n \in B
    <3>1. tree'[n] \in Node /\ tree'[n].g < tree[n].g
      BY <1>2, <2>1
    <3> QED
      BY <1>3, <3>1
  <2>2. CASE n = curr
    BY <1>1, <2>2
  <2>3. CASE n \notin B /\ n # curr
    <3>1. tree'[n] = tree[n] /\ tree[n] \in Node
      BY <1>1, <1>3, <2>3
    <3> QED
      BY <3>1
  <2> QED
    BY <2>1, <2>2, <2>3
<1>6. ThetaNodes'
  <2>1. tree' \in [Cell -> Node]
    BY <1>1, <1>5
  <2>2. \A c \in Cell : tree'[c].g <= Infinity
    BY <1>3, <1>5, InfinityFacts
  <2> QED
    BY <2>1, <2>2 DEF ThetaNodes, Infinity
<1>7. Opened' = Opened \cup B
  <2>1. Opened' = {c \in Cell : tree'[c].g < Infinity}
    BY DEF Opened, Infinity
  <2>2. \A n \in Opened : tree'[n].g < Infinity
    BY <1>3, <1>5, InfinityFacts DEF Opened
  <2>3. \A n \in B : tree'[n].g < Infinity
    <3> SUFFICES ASSUME NEW n \in B PROVE tree'[n].g < Infinity
      OBVIOUS
    <3>1. tree'[n].g < tree[n].g /\ tree[n].g <= Infinity /\ tree'[n].g \in Nat /\ tree[n].g \in Nat
      BY <1>2, <1>3, <1>4, <1>5
    <3> QED
      BY <3>1, InfinityFacts
  <2>4. \A n \in Cell : tree'[n].g < Infinity => n \in Opened \cup B
    <3> SUFFICES ASSUME NEW n \in Cell, tree'[n].g < Infinity, n \notin B PROVE n \in Opened
      OBVIOUS
    <3>1. n = curr \/ tree'[n] = tree[n]
      BY <1>1
    <3> QED
      BY <1>3, <3>1 DEF Opened
  <2>5. Opened \subseteq Cell
    BY DEF Opened
  <2> QED
    BY <1>4, <2>1, <2>2, <2>3, <2>4, <2>5
<1>8. Parents'
  <2>1. SUFFICES ASSUME NEW c \in Opened', c # Start PROVE tree'[tree'[c].parent].g < tree'[c].g
    BY DEF Parents
  <2>2. CASE c \in B
    BY <1>1, <1>2, <2>2
  <2>3. CASE c = curr
    <3>1. node.parent \in Cell /\ tree[node.parent].g < node.g /\ node.g \in Nat
      BY <1>1, <2>1, <2>3
    <3>2. tree'[node.parent].g \in Nat /\ tree'[node.parent].g <= tree[node.parent].g /\ tree[node.parent].g \in Nat
      BY <1>3, <1>5, <3>1
    <3>3. tree'[node.parent].g < node.g
      BY <3>1, <3>2
    <3> QED
      BY <1>1, <2>3, <3>3
  <2>4. CASE c \notin B /\ c # curr
    <3>1. c \in Opened /\ c \in Cell
      BY <1>7, <2>4 DEF Opened
    <3>2. tree'[c] = tree[c] /\ tree[c].parent \in Cell /\ tree[tree[c].parent].g < tree[c].g /\ tree[c].g \in Nat
      BY <1>1, <1>3, <2>1, <2>4, <3>1 DEF Parents
    <3> DEFINE p == tree[c].parent
    <3>3. tree'[p].g \in Nat /\ tree'[p].g <= tree[p].g /\ tree[p].g \in Nat /\ tree[p].g < tree[c].g
      BY <1>3, <1>5, <3>2
    <3> HIDE DEF p
    <3>4. tree'[p].g < tree[c].g
      BY <3>2, <3>3
    <3> QED
      BY <3>2, <3>4 DEF p
  <2> QED
    BY <2>2, <2>3, <2>4
<1>9. Small'
  <2>1. \A n \in Opened : tree[n].g \in Nat /\ tree'[n].g \in Nat /\ tree'[n].g <= tree[n].g
    BY <1>3, <1>5 DEF Opened
  <2>2. \A n \in B : tree'[n].g \in Nat /\ tree'[n].g <= tree[curr].g + 500
    <3> SUFFICES ASSUME NEW n \in B PROVE tree'[n].g \in Nat /\ tree'[n].g <= tree[curr].g + 500
      OBVIOUS
    <3>1. tree'[n].g \in Nat /\ tree'[n].g <= node.g + 325 /\ node.g \in Nat /\ node.g <= tree[curr].g /\ tree[curr].g \in Nat
      BY <1>1, <1>2, <1>3, <1>4, <1>5
    <3> QED
      BY <3>1
  <2> QED
    BY <1>3, <1>4, <1>7, <2>1, <2>2, SmallStays, Zenon
<1>10. curr' \in Opened' /\ open' \subseteq Opened'
  BY <1>1, <1>3, <1>7
<1>11. \A c \in Opened' : c = curr' \/ c \in open' \/ Expanded(c)'
  <2>1. \A c : Expanded(c) => Expanded(c)'
    BY <1>7 DEF Expanded, Unsafe, Around
  <2>3. \A c \in Opened' : c = curr => \A n \in Around[c] : n \in Opened' \/ Unsafe(costs[n])
    BY <1>1, <1>7
  <2> SUFFICES ASSUME NEW c \in Opened', c # curr', c \notin open' PROVE Expanded(c)'
    OBVIOUS
  <2>4. c \notin B /\ c \notin open /\ c \in Opened
    BY <1>1, <1>7
  <2>5. CASE c = curr
    BY <2>3, <2>5 DEF Expanded, Unsafe, Around
  <2>6. CASE c # curr
    BY <2>1, <2>4, <2>6 DEF ThetaPlan
  <2> QED
    BY <2>5, <2>6
<1> QED
  BY <1>6, <1>8, <1>9, <1>10, <1>11 DEF ThetaPlan

\* generatePath() up to its loop: the start alone is reached.
LEMMA GeneratePathStarts ==
  ASSUME SetFacts, Costs, src \in Cell, curr = Start, generatePath, result' = "planning"
  PROVE  ThetaPlan'
<1> DEFINE Node == [g : Nat, parent : Cell, queued : BOOLEAN]
           t == traversal(costs'[Start])
<1>1. /\ ~Unsafe(costs'[Start]) /\ costs' = [costs EXCEPT ![src] = Free]
      /\ tree' = [c \in Cell |-> IF c = Start THEN [g |-> t, parent |-> c, queued |-> TRUE]
                                 ELSE [g |-> Infinity, parent |-> c, queued |-> FALSE]]
      /\ open' = {Start} /\ curr' = Start
  BY DEF generatePath, Returns
<1>2. Start \in Cell
  BY GridAssumption
<1>3. costs'[Start] \in {Free, Costly, Lethal}
  BY <1>1, <1>2 DEF Costs
<1>4. costs'[Start] = Free \/ costs'[Start] = Costly
  BY <1>1, <1>3, SMT DEF Unsafe, Free, Costly, Lethal
<1>5. t \in Nat /\ t <= 184
  BY <1>4 DEF traversal, Free, Costly
<1>6. t < Infinity /\ Infinity \in Nat
  BY <1>5, InfinityFacts, CellsFinite
<1> HIDE DEF t
<1>7. /\ \A c \in Cell : tree'[c] \in Node /\ tree'[c].g <= Infinity
      /\ \A c \in Cell : tree'[c].g < Infinity <=> c = Start
      /\ tree'[Start].g = t
  <2> SUFFICES ASSUME NEW c \in Cell
               PROVE  /\ tree'[c] \in Node /\ tree'[c].g <= Infinity /\ (tree'[c].g < Infinity <=> c = Start)
                      /\ tree'[Start].g = t
    BY <1>2
  <2>1. tree'[Start].g = t
    BY <1>1, <1>2
  <2>2. CASE c = Start
    <3>1. tree'[c] = [g |-> t, parent |-> c, queued |-> TRUE]
      BY <1>1, <2>2
    <3> QED
      BY <1>5, <1>6, <2>1, <2>2, <3>1
  <2>3. CASE c # Start
    <3>1. tree'[c] = [g |-> Infinity, parent |-> c, queued |-> FALSE]
      BY <1>1, <2>3
    <3> QED
      BY <1>6, <2>1, <2>3, <3>1
  <2> QED
    BY <2>2, <2>3
<1>8. ThetaNodes'
  <2>1. tree' \in [Cell -> Node]
    BY <1>1, <1>7
  <2> QED
    BY <1>7, <2>1 DEF ThetaNodes, Infinity
<1>9. Opened' = {Start}
  BY <1>2, <1>7 DEF Opened, Infinity
<1>10. Parents' /\ curr' \in Opened' /\ open' \subseteq Opened'
  BY <1>1, <1>9 DEF Parents
<1>11. Small'
  <2>1. Cardinality({Start}) = 1
    BY Zenon DEF SetFacts
  <2> QED
    BY <1>5, <1>7, <1>9, <2>1 DEF Small
<1> QED
  BY <1>1, <1>8, <1>9, <1>10, <1>11 DEF ThetaPlan

-----------------------------------------------------------------------------
(* A*: nodes are visited once, in the order of what a path over them costs *)
(* at least.                                                               *)

\* A cell around another has it around itself.
LEMMA AroundFacts ==
  ASSUME NEW c \in Cell, NEW n \in Around[c]
  PROVE  n \in Cell /\ n # c /\ c \in Around[n]
<1>1. n \in Cell /\ n # c /\ n[1] - c[1] \in -1..1 /\ n[2] - c[2] \in -1..1
  BY DEF Around
<1>2. n[1] \in Nat /\ n[2] \in Nat /\ c[1] \in Nat /\ c[2] \in Nat
  BY <1>1, Coordinates
<1>3. c[1] - n[1] \in -1..1 /\ c[2] - n[2] \in -1..1
  BY <1>1, <1>2
<1> QED
  BY <1>1, <1>3 DEF Around

\* A step costs at least its length, and on safe cells not much more.
LEMMA TraversalCost ==
  ASSUME Costs, NEW a \in Cell, NEW b \in Cell
  PROVE  /\ getTraversalCost(a, b) \in Nat /\ getTraversalCost(a, b) >= travel(a, b)
         /\ travel(a, b) \in Nat /\ travel(a, b) >= 100
         /\ ~Unsafe(costs[b]) => getTraversalCost(a, b) <= 412
<1>1. travel(a, b) = 100 \/ travel(a, b) = 142
  BY DEF travel
<1>2. costs[b] = 0 \/ costs[b] = 240 \/ costs[b] = 254
  BY DEF Costs, Free, Costly, Lethal
<1>3. getTraversalCost(a, b) = travel(a, b) + (2 * travel(a, b) * costs[b]) \div 252
  BY DEF getTraversalCost, cost_travel_multiplier
<1> DEFINE t == travel(a, b)  k == costs[b]  x == getTraversalCost(a, b)
<1> HIDE DEF t, k, x
<1>4. (t = 100 \/ t = 142) /\ (k = 0 \/ k = 240 \/ k = 254) /\ x = t + (2 * t * k) \div 252
  BY <1>1, <1>2, <1>3 DEF t, k, x
<1>5. x \in Nat /\ x >= t /\ t \in Nat /\ t >= 100 /\ (k # 254 => x <= 412)
  <2>1. CASE t = 100 /\ k = 0
    BY <1>4, <2>1, SMT
  <2>2. CASE t = 100 /\ k = 240
    BY <1>4, <2>2, SMT
  <2>3. CASE t = 100 /\ k = 254
    BY <1>4, <2>3, SMT
  <2>4. CASE t = 142 /\ k = 0
    BY <1>4, <2>4, SMT
  <2>5. CASE t = 142 /\ k = 240
    BY <1>4, <2>5, SMT
  <2>6. CASE t = 142 /\ k = 254
    BY <1>4, <2>6, SMT
  <2> QED
    BY <1>4, <2>1, <2>2, <2>3, <2>4, <2>5, <2>6
<1>6. k = 254 => Unsafe(k)
  BY SMT DEF Unsafe
<1> QED
  BY <1>5, <1>6 DEF t, k, x

\* What a path over a node costs at least.
Whole(c) == tree[c].g + getHeuristicCost(c)
Visited == {c \in Cell : tree[c].visited}
Waiting == Opened \ Visited

SmacNodes ==
  /\ tree \in [Cell -> [g : Nat, parent : Cell, visited : BOOLEAN]]
  /\ \A c \in Cell : tree[c].g <= Infinity

\* Every node reached leads back to the start, over safe cells that have been visited.
Rooted ==
  /\ tree[Start].g = 0 /\ tree[Start].parent = Start /\ Start \in Opened
  /\ \A c \in Opened \ {Start} :
       /\ c \in Around[tree[c].parent] /\ tree[c].parent \in Visited /\ ~Unsafe(costs[c])
       /\ tree[c].g = tree[tree[c].parent].g + getTraversalCost(tree[c].parent, c)
  /\ \A c \in Cell \ Opened : tree[c].parent = c
  /\ Visited \subseteq Opened \ {Goal}

\* Whoever waits is queued; only the start is queued with less than its cost.
Queue ==
  /\ open \subseteq [f : Nat, at : Opened]
  /\ \A e \in open : e.at = Start \/ e.f >= Whole(e.at)
  /\ \A c \in Waiting : \E e \in open : e.at = c /\ e.f <= Whole(c)
  /\ Start \in Visited \/ Opened = {Start}

\* The order of the visits, and what they have led to.
Order == \A v \in Visited : \A n \in Waiting : Whole(v) <= Whole(n)
Relaxed ==
  \A v \in Visited : \A n \in Around[v] : Unsafe(costs[n]) \/ tree[n].g <= tree[v].g + getTraversalCost(v, n)

Nearest ==
  /\ best \in [h : Nat, at : Cell]
  /\ \A c \in Opened \ {Start} : best.h <= getHeuristicCost(c)
  /\ best.h = Infinity \/ (best.at \in Opened \ {Start} /\ best.h = getHeuristicCost(best.at))

SmacPlan == SmacNodes /\ Rooted /\ Small /\ Queue /\ Order /\ Relaxed /\ Nearest

\* createPath() starts so.
LEMMA CreatePathStarts ==
  ASSUME SetFacts, Costs, createPath, result' = "planning", best = [h |-> Infinity, at |-> Start]
  PROVE  SmacPlan'
<1> DEFINE Node == [g : Nat, parent : Cell, visited : BOOLEAN]
<1>1. /\ costs' = [costs EXCEPT ![Start] = Free] /\ best' = best
      /\ tree' = [c \in Cell |-> [g |-> IF c = Start THEN 0 ELSE Infinity, parent |-> c, visited |-> FALSE]]
      /\ open' = {[f |-> 0, at |-> Start]}
  BY DEF createPath, Returns, astarVars
<1>2. Start \in Cell /\ Infinity \in Nat /\ 0 < Infinity
  BY GridAssumption, InfinityFacts, CellsFinite
<1>3. \A c \in Cell : /\ tree'[c] \in Node /\ tree'[c].g = (IF c = Start THEN 0 ELSE Infinity)
                      /\ tree'[c].parent = c /\ tree'[c].visited = FALSE
  <2> SUFFICES ASSUME NEW c \in Cell
               PROVE  /\ tree'[c] \in Node /\ tree'[c].g = (IF c = Start THEN 0 ELSE Infinity)
                      /\ tree'[c].parent = c /\ tree'[c].visited = FALSE
    BY Zenon
  <2>1. PICK k : k = (IF c = Start THEN 0 ELSE Infinity) /\ k \in Nat
    BY <1>2
  <2>2. tree'[c] = [g |-> k, parent |-> c, visited |-> FALSE]
    BY <1>1, <2>1
  <2> QED
    BY <2>1, <2>2
<1>4. Opened' = {Start} /\ Visited' = {}
  <2>1. Opened' = {c \in Cell : tree'[c].g < Infinity}
    BY DEF Opened, Infinity
  <2>2. \A c \in Cell : tree'[c].g < Infinity <=> c = Start
    BY <1>2, <1>3
  <2>3. Visited' = {}
    BY <1>3 DEF Visited
  <2> QED
    BY <1>2, <2>1, <2>2, <2>3
<1>5. SmacNodes'
  <2>1. tree' \in [Cell -> Node]
    BY <1>1, <1>3
  <2>2. \A c \in Cell : tree'[c].g <= Infinity
    BY <1>2, <1>3
  <2> QED
    BY <2>1, <2>2 DEF SmacNodes, Infinity
<1>6. Rooted'
  BY <1>2, <1>3, <1>4 DEF Rooted
<1>7. Small'
  <2>1. Cardinality({Start}) = 1 /\ tree'[Start].g = 0
    BY <1>2, <1>3, Zenon DEF SetFacts
  <2> QED
    BY <1>4, <2>1 DEF Small
<1>8. Queue'
  <2>1. Whole(Start)' \in Nat
    <3>1. Whole(Start)' = tree'[Start].g + Length(Start, Goal)
      BY DEF Whole, getHeuristicCost, Length, lengths, Square
    <3> QED
      BY <1>2, <1>3, <3>1, LengthFacts, GridAssumption
  <2>2. open' \subseteq [f : Nat, at : Opened'] /\ \A e \in open' : e.at = Start
    BY <1>1, <1>4
  <2>3. \E e \in open' : e.at = Start /\ e.f <= Whole(Start)'
    <3>1. [f |-> 0, at |-> Start] \in open' /\ [f |-> 0, at |-> Start].f = 0 /\ [f |-> 0, at |-> Start].at = Start
      BY <1>1
    <3>2. 0 <= Whole(Start)'
      BY <2>1
    <3> QED
      BY <3>1, <3>2
  <2>4. Waiting' = {Start}
    BY <1>4 DEF Waiting
  <2>5. \A c \in Waiting' : \E e \in open' : e.at = c /\ e.f <= Whole(c)'
    <3> SUFFICES ASSUME NEW c \in Waiting' PROVE \E e \in open' : e.at = c /\ e.f <= Whole(c)'
      OBVIOUS
    <3>1. c = Start
      BY <2>4
    <3> QED
      BY <2>3, <3>1 DEF Whole
  <2> QED
    BY <1>4, <2>2, <2>5 DEF Queue
<1>9. Order' /\ Relaxed'
  BY <1>4 DEF Order, Relaxed
<1>10. Nearest'
  <2>1. best' = [h |-> Infinity, at |-> Start] /\ Infinity' = Infinity
    BY <1>1 DEF Infinity
  <2> QED
    BY <1>2, <1>4, <2>1 DEF Nearest
<1> QED
  BY <1>5, <1>6, <1>7, <1>8, <1>9, <1>10 DEF SmacPlan

\* The numbers of the nodes.
LEMMA SmacTyped ==
  ASSUME SetFacts, SmacNodes
  PROVE  \A c \in Cell :
           /\ tree[c] \in [g : Nat, parent : Cell, visited : BOOLEAN]
           /\ tree[c].g \in Nat /\ tree[c].parent \in Cell /\ tree[c].g <= Infinity
           /\ getHeuristicCost(c) \in Nat /\ Whole(c) \in Nat /\ Whole(c) = tree[c].g + getHeuristicCost(c)
<1> SUFFICES ASSUME NEW c \in Cell
             PROVE  /\ tree[c] \in [g : Nat, parent : Cell, visited : BOOLEAN]
                    /\ tree[c].g \in Nat /\ tree[c].parent \in Cell /\ tree[c].g <= Infinity
                    /\ getHeuristicCost(c) \in Nat /\ Whole(c) \in Nat /\ Whole(c) = tree[c].g + getHeuristicCost(c)
  OBVIOUS
<1>1. tree[c] \in [g : Nat, parent : Cell, visited : BOOLEAN] /\ tree[c].g <= Infinity
  BY DEF SmacNodes
<1>2. getHeuristicCost(c) \in Nat
  BY LengthFacts, GridAssumption DEF getHeuristicCost
<1> QED
  BY <1>1, <1>2 DEF Whole

\* The node that is visited next is the one whose path may cost least.
First(e) == e \in open /\ (\A other \in open : e.f <= other.f) /\ e.at \notin Visited

\* The first of the queue: only the start is queued with less than its cost, and then alone.
LEMMA FirstIsLeast ==
  ASSUME SetFacts, SmacPlan, NEW e, First(e)
  PROVE  e.at \in Waiting /\ \A n \in Waiting : Whole(e.at) <= Whole(n)
<1>0. SmacNodes /\ Queue
  BY DEF SmacPlan
<1>1. e \in open /\ e.f \in Nat /\ e.at \in Opened /\ e.at \notin Visited /\ Opened \subseteq Cell
  BY <1>0 DEF First, Queue, Opened
<1>2. e.at \in Waiting
  BY <1>1 DEF Waiting
<1>3. ASSUME NEW n \in Waiting PROVE Whole(e.at) <= Whole(n)
  <2>1. n \in Cell /\ Whole(n) \in Nat /\ Whole(e.at) \in Nat
    BY <1>0, <1>1, SmacTyped DEF Waiting
  <2>2. CASE e.at = Start
    <3>1. n = Start
      BY <1>0, <1>1, <2>2 DEF Queue, Waiting
    <3> QED
      BY <2>1, <2>2, <3>1
  <2>3. CASE e.at # Start
    <3>1. PICK o \in open : o.at = n /\ o.f <= Whole(n)
      BY <1>0 DEF Queue
    <3>2. o.f \in Nat /\ e.f <= o.f
      BY <1>0, <3>1 DEF First, Queue
    <3>3. e.f >= Whole(e.at)
      BY <1>0, <1>1, <2>3 DEF Queue
    <3> QED
      BY <1>1, <2>1, <3>1, <3>2, <3>3
  <2> QED
    BY <2>2, <2>3
<1> QED
  BY <1>2, <1>3

\* What a visit does: B are the neighbours to which it is a cheaper way.
Visits(e, B) ==
  LET c == e.at IN
  /\ B \subseteq Around[c] \ Visited
  /\ \A n \in B : /\ ~Unsafe(costs[n])
                  /\ tree'[n].g = tree[c].g + getTraversalCost(c, n) /\ tree'[n].g < tree[n].g
                  /\ tree'[n].parent = c /\ tree'[n].visited = FALSE
  /\ \A n \in Around[c] \ (Visited \cup B) : Unsafe(costs[n]) \/ tree[n].g <= tree[c].g + getTraversalCost(c, n)
  /\ tree' \in [Cell -> [g : Nat, parent : Cell, visited : BOOLEAN]]
  /\ tree'[c].g = tree[c].g /\ tree'[c].parent = tree[c].parent /\ tree'[c].visited = TRUE
  /\ \A n \in Cell \ B : n = c \/ tree'[n] = tree[n]
  /\ open' = (open \ {e}) \cup {[f |-> tree'[n].g + getHeuristicCost(n), at |-> n] : n \in B}
  /\ best' = best \/ \E n \in B : best' = [h |-> getHeuristicCost(n), at |-> n]
  /\ best'.h <= best.h /\ \A n \in B : best'.h <= getHeuristicCost(n)

\* That is what the turn of the loop does that expands a node (createPath, getNeighbors).
LEMMA VisitEffect ==
  ASSUME SetFacts, Costs, SmacPlan, NEW e, First(e), expand(e.at, open \ {e})
  PROVE  \E B : Visits(e, B)
<1> DEFINE Node == [g : Nat, parent : Cell, visited : BOOLEAN]
           c == e.at
           cost(n) == tree[c].g + getTraversalCost(c, n)
           N == {n \in getNeighbors(c) : cost(n) < tree[n].g}
<1>0. SmacNodes
  BY DEF SmacPlan
<1>1. c \in Cell /\ c \notin Visited
  BY FirstIsLeast DEF Waiting, Opened
<1>2. PICK B : B = N
  BY Zenon
<1>3. PICK S : S = cheaper(c)
  OBVIOUS
<1>4. S = {[at |-> n, g |-> cost(n)] : n \in B}
  BY <1>2, <1>3, SMTT(30) DEF cheaper
<1>5. B \subseteq Around[c] /\ B \subseteq Cell /\ c \notin B /\ B \cap Visited = {}
  BY <1>1, <1>2 DEF getNeighbors, Around, Visited
<1>6. \A n \in B : cost(n) \in Nat /\ ~Unsafe(costs[n]) /\ cost(n) < tree[n].g
  <2>1. tree[c].g \in Nat
    BY <1>0, <1>1, SmacTyped
  <2> QED
    BY <1>1, <1>2, <1>5, <2>1, TraversalCost DEF getNeighbors
<1>7. \A n \in Around[c] \ (Visited \cup B) : Unsafe(costs[n]) \/ tree[n].g <= cost(n)
  <2> SUFFICES ASSUME NEW n \in Around[c], n \notin Visited, n \notin B, ~Unsafe(costs[n]) PROVE tree[n].g <= cost(n)
    OBVIOUS
  <2>1. n \in Cell
    BY <1>1, AroundFacts
  <2>2. tree[c].g \in Nat /\ tree[n].g \in Nat /\ getTraversalCost(c, n) \in Nat
    BY <1>0, <1>1, <2>1, SmacTyped, TraversalCost, Zenon
  <2>3. n \in getNeighbors(c)
    BY <2>1 DEF getNeighbors, Visited
  <2>4. ~(cost(n) < tree[n].g)
    BY <1>2, <2>3
  <2> QED
    BY <2>2, <2>4
<1> HIDE DEF cost, N, c
<1>8. \A s \in S : s.at \in B /\ s.g = cost(s.at)
  BY <1>4
<1>9. \A n \in B : \E s \in S : s.at = n
  <2>1. \A n \in B : [at |-> n, g |-> cost(n)] \in S /\ [at |-> n, g |-> cost(n)].at = n
    BY <1>4
  <2> QED
    BY <2>1, Zenon
<1>10. /\ tree' = [n \in Cell |->
                    IF \E s \in S : s.at = n
                    THEN [tree[n] EXCEPT !.g = (CHOOSE s \in S : s.at = n).g, !.parent = c]
                    ELSE [tree[n] EXCEPT !.visited = @ \/ n = c]]
       /\ open' = (open \ {e}) \cup {[f |-> s.g + getHeuristicCost(s.at), at |-> s.at] : s \in S}
       /\ \E nearest \in {[h |-> getHeuristicCost(s.at), at |-> s.at] : s \in S} \cup {best} :
            /\ \A s \in S : nearest.h <= getHeuristicCost(s.at)
            /\ nearest.h <= best.h
            /\ best' = nearest
  <2> DEFINE Body(T) ==
               /\ tree' = [n \in Cell |->
                            IF \E s \in T : s.at = n
                            THEN [tree[n] EXCEPT !.g = (CHOOSE s \in T : s.at = n).g, !.parent = c]
                            ELSE [tree[n] EXCEPT !.visited = @ \/ n = c]]
               /\ open' = (open \ {e}) \cup {[f |-> s.g + getHeuristicCost(s.at), at |-> s.at] : s \in T}
               /\ \E nearest \in {[h |-> getHeuristicCost(s.at), at |-> s.at] : s \in T} \cup {best} :
                    /\ \A s \in T : nearest.h <= getHeuristicCost(s.at)
                    /\ nearest.h <= best.h /\ (nearest.h = best.h => nearest = best)
                    /\ best' = nearest
               /\ UNCHANGED <<result, path>>
  <2>1. expand(c, open \ {e})
    BY DEF c
  <2>2. \E T \in {cheaper(c)} : Body(T)
    BY <2>1, Zenon DEF expand
  <2> HIDE DEF Body
  <2>3. Body(S)
    BY <1>3, <2>2
  <2> QED
    BY <2>3, Zenon DEF Body
<1>11. ASSUME NEW n \in B
       PROVE  /\ tree'[n] \in Node /\ tree'[n].g = cost(n) /\ tree'[n].parent = c /\ tree'[n].visited = FALSE
  <2>1. PICK s : s = (CHOOSE z \in S : z.at = n) /\ s \in S /\ s.at = n
    BY <1>9, <1>11
  <2>2. s.g = cost(n)
    BY <1>8, <2>1
  <2>3. n \in Cell /\ tree'[n] = [tree[n] EXCEPT !.g = s.g, !.parent = c]
    BY <1>5, <1>9, <1>10, <2>1, Zenon
  <2>4. tree[n] \in Node /\ tree[n].visited = FALSE
    BY <1>0, <1>5, <2>3, SmacTyped DEF Visited
  <2>5. s.g \in Nat
    BY <1>6, <2>2
  <2> DEFINE r == tree[n]
  <2> HIDE DEF r
  <2>6. r \in Node /\ r.visited = FALSE /\ tree'[n] = [r EXCEPT !.g = s.g, !.parent = c]
    BY <2>3, <2>4 DEF r
  <2>7. [r EXCEPT !.g = s.g, !.parent = c] \in Node /\ [r EXCEPT !.g = s.g, !.parent = c].g = s.g
        /\ [r EXCEPT !.g = s.g, !.parent = c].parent = c /\ [r EXCEPT !.g = s.g, !.parent = c].visited = r.visited
    BY <1>1, <2>5, <2>6, Zenon DEF c
  <2> QED
    BY <2>2, <2>6, <2>7
<1>12. ASSUME NEW n \in Cell, n \notin B PROVE tree'[n] = [tree[n] EXCEPT !.visited = @ \/ n = c]
  BY <1>8, <1>10, <1>12, Zenon
<1>13. ASSUME NEW n \in Cell, n \notin B, n # c PROVE tree'[n] = tree[n]
  <2>1. tree[n] \in Node
    BY <1>0, SmacTyped
  <2>2. tree'[n] = [tree[n] EXCEPT !.visited = @ \/ n = c]
    BY <1>12, <1>13
  <2>3. (tree[n].visited \/ n = c) = tree[n].visited
    BY <1>13, <2>1
  <2> QED
    BY <2>1, <2>2, <2>3
<1>14. tree'[c] \in Node /\ tree'[c].g = tree[c].g /\ tree'[c].parent = tree[c].parent /\ tree'[c].visited = TRUE
  <2>0. c \in Cell /\ c \notin B
    BY <1>1, <1>5 DEF c
  <2>1. tree[c] \in Node
    BY <1>0, <2>0, SmacTyped
  <2>2. tree'[c] = [tree[c] EXCEPT !.visited = @ \/ c = c]
    BY <1>12, <2>0
  <2>3. tree'[c] = [tree[c] EXCEPT !.visited = TRUE]
    BY <2>1, <2>2, Zenon
  <2> QED
    BY <2>1, <2>3, Zenon
<1>15. tree' \in [Cell -> Node]
  <2>1. \A n \in Cell : tree'[n] \in Node
    <3> SUFFICES ASSUME NEW n \in Cell PROVE tree'[n] \in Node
      OBVIOUS
    <3>1. tree[n] \in Node
      BY <1>0, SmacTyped
    <3> QED
      BY <1>11, <1>13, <1>14, <3>1, Zenon
  <2>2. tree' = [n \in Cell |-> tree'[n]]
    BY <1>10, Zenon
  <2> QED
    BY <2>1, <2>2
<1>16. open' = (open \ {e}) \cup {[f |-> tree'[n].g + getHeuristicCost(n), at |-> n] : n \in B}
  <2>1. {[f |-> s.g + getHeuristicCost(s.at), at |-> s.at] : s \in S} =
        {[f |-> cost(n) + getHeuristicCost(n), at |-> n] : n \in B}
    <3>1. \A s \in S : [f |-> s.g + getHeuristicCost(s.at), at |-> s.at] =
                       [f |-> cost(s.at) + getHeuristicCost(s.at), at |-> s.at]
      BY <1>8
    <3> QED
      BY <1>8, <1>9, <3>1
  <2>2. {[f |-> cost(n) + getHeuristicCost(n), at |-> n] : n \in B} =
        {[f |-> tree'[n].g + getHeuristicCost(n), at |-> n] : n \in B}
    BY <1>11, Zenon
  <2> QED
    BY <1>10, <2>1, <2>2, Zenon
<1>17. /\ best' = best \/ \E n \in B : best' = [h |-> getHeuristicCost(n), at |-> n]
       /\ best'.h <= best.h /\ \A n \in B : best'.h <= getHeuristicCost(n)
  BY <1>8, <1>9, <1>10, Zenon
<1>18. Visits(e, B)
  <2>1. \A n \in B : /\ ~Unsafe(costs[n]) /\ tree'[n].g = cost(n) /\ tree'[n].g < tree[n].g
                     /\ tree'[n].parent = c /\ tree'[n].visited = FALSE
    BY <1>6, <1>11, Zenon
  <2>2. \A n \in Cell \ B : n = c \/ tree'[n] = tree[n]
    BY <1>13, Zenon
  <2> QED
    BY <1>5, <1>7, <1>14, <1>15, <1>16, <1>17, <2>1, <2>2, Zenon DEF Visits, c, cost
<1> QED
  BY <1>18

\* The grid does not change, nor what a step costs if the costmap does not.
LEMMA SameGrid ==
  /\ Around' = Around /\ Infinity' = Infinity
  /\ \A c : getHeuristicCost(c)' = getHeuristicCost(c)
  /\ costs' = costs => \A a, b : getTraversalCost(a, b)' = getTraversalCost(a, b)
BY DEF Around, Infinity, getHeuristicCost, Length, lengths, Square, getTraversalCost, travel, cost_travel_multiplier

\* A visit makes the node visited, and reaches those of B that were not.
LEMMA VisitSets ==
  ASSUME SetFacts, Costs, SmacPlan, NEW e, First(e), NEW B, Visits(e, B)
  PROVE  /\ e.at \in Cell /\ e.at \in Opened /\ e.at \notin Visited /\ B \subseteq Cell \ {Start, e.at}
         /\ \A n \in Cell : tree'[n].g \in Nat /\ tree'[n].g <= tree[n].g
         /\ \A n \in Cell \ B : tree'[n].g = tree[n].g /\ tree'[n].parent = tree[n].parent
         /\ Visited' = Visited \cup {e.at}
         /\ Opened' = Opened \cup B
         /\ Waiting' = (Waiting \cup B) \ {e.at}
<1> DEFINE c == e.at
           Node == [g : Nat, parent : Cell, visited : BOOLEAN]
<1>0. SmacNodes /\ Queue
  BY DEF SmacPlan
<1>1. c \in Waiting /\ c \in Cell /\ c \in Opened /\ c \notin Visited
  BY FirstIsLeast, Zenon DEF Waiting, Opened
<1> HIDE DEF c
<1>2. /\ B \subseteq Around[c] \ Visited
      /\ \A n \in B : tree'[n].g < tree[n].g /\ tree'[n].visited = FALSE
      /\ tree' \in [Cell -> Node]
      /\ tree'[c].g = tree[c].g /\ tree'[c].parent = tree[c].parent /\ tree'[c].visited = TRUE
      /\ \A n \in Cell \ B : n = c \/ tree'[n] = tree[n]
  BY Zenon DEF Visits, c
<1>3. B \subseteq Cell /\ c \notin B /\ B \cap Visited = {}
  BY <1>1, <1>2, AroundFacts
<1>4. Start \notin B
  <2>1. CASE Start \in Visited
    BY <1>3, <2>1
  <2>2. CASE Opened = {Start}
    BY <1>1, <1>3, <2>2
  <2> QED
    BY <1>0, <2>1, <2>2 DEF Queue
<1>5. \A n \in Cell \ B : tree'[n].g = tree[n].g /\ tree'[n].parent = tree[n].parent
  BY <1>2
<1>6. \A n \in Cell : tree'[n].g \in Nat /\ tree[n].g \in Nat /\ tree[n].g <= Infinity
  <2>1. \A n \in Cell : tree'[n].g \in Nat
    BY <1>2
  <2> QED
    BY <1>0, <2>1, SmacTyped
<1>7. \A n \in Cell : tree'[n].g <= tree[n].g
  <2> SUFFICES ASSUME NEW n \in Cell PROVE tree'[n].g <= tree[n].g
    OBVIOUS
  <2>1. tree'[n].g \in Nat /\ tree[n].g \in Nat
    BY <1>6
  <2> QED
    BY <1>2, <1>5, <2>1
<1>8. Visited' = Visited \cup {c}
  <2>1. Visited' = {n \in Cell : tree'[n].visited}
    BY DEF Visited
  <2>2. \A n \in Cell : tree'[n].visited <=> n \in Visited \cup {c}
    <3> SUFFICES ASSUME NEW n \in Cell PROVE tree'[n].visited <=> n \in Visited \cup {c}
      OBVIOUS
    <3>1. CASE n \in B
      BY <1>2, <1>3, <3>1
    <3>2. CASE n = c
      BY <1>2, <3>2
    <3>3. CASE n \notin B /\ n # c
      BY <1>2, <3>3 DEF Visited
    <3> QED
      BY <3>1, <3>2, <3>3
  <2>3. Visited \subseteq Cell
    BY DEF Visited
  <2> QED
    BY <1>1, <2>1, <2>2, <2>3
<1>9. Opened' = Opened \cup B
  <2>1. Opened' = {n \in Cell : tree'[n].g < Infinity}
    BY SameGrid DEF Opened
  <2>2. \A n \in Cell : tree'[n].g < Infinity <=> n \in Opened \cup B
    <3> SUFFICES ASSUME NEW n \in Cell PROVE tree'[n].g < Infinity <=> n \in Opened \cup B
      OBVIOUS
    <3>1. CASE n \in B
      <4>1. tree'[n].g < tree[n].g /\ tree[n].g <= Infinity /\ tree'[n].g \in Nat /\ tree[n].g \in Nat
        BY <1>2, <1>6, <3>1
      <4> QED
        BY <3>1, <4>1, InfinityFacts
    <3>2. CASE n \notin B
      BY <1>5, <3>2 DEF Opened
    <3> QED
      BY <3>1, <3>2
  <2>3. Opened \subseteq Cell
    BY DEF Opened
  <2> QED
    BY <1>3, <2>1, <2>2, <2>3
<1>10. Waiting' = (Waiting \cup B) \ {c}
  BY <1>3, <1>8, <1>9 DEF Waiting
<1> QED
  BY <1>1, <1>3, <1>4, <1>5, <1>6, <1>7, <1>8, <1>9, <1>10 DEF c

\* What the paths over the nodes cost: no less than those over the node visited.
LEMMA VisitCosts ==
  ASSUME SetFacts, Costs, SmacPlan, NEW e, First(e), NEW B, Visits(e, B)
  PROVE  /\ \A n \in Cell : Whole(n)' \in Nat /\ Whole(n)' = tree'[n].g + getHeuristicCost(n)
         /\ \A n \in Cell \ B : Whole(n)' = Whole(n)
         /\ \A n \in B : Whole(e.at) <= Whole(n)'
         /\ \A n \in Waiting \cup B : Whole(e.at) <= Whole(n)'
<1>0. SmacNodes
  BY DEF SmacPlan
<1>1. /\ e.at \in Cell /\ B \subseteq Cell
      /\ \A n \in Cell : tree'[n].g \in Nat
      /\ \A n \in Cell \ B : tree'[n].g = tree[n].g
  BY VisitSets
<1>2. \A n \in Cell : getHeuristicCost(n) \in Nat /\ Whole(n) \in Nat /\ Whole(n) = tree[n].g + getHeuristicCost(n) /\ tree[n].g \in Nat
  BY <1>0, SmacTyped
<1>3. \A n \in Cell : Whole(n)' = tree'[n].g + getHeuristicCost(n)
  BY SameGrid DEF Whole
<1>4. \A n \in Cell : Whole(n)' \in Nat
  BY <1>1, <1>2, <1>3
<1>5. \A n \in Cell \ B : Whole(n)' = Whole(n)
  BY <1>1, <1>2, <1>3
<1>6. ASSUME NEW n \in B PROVE Whole(e.at) <= Whole(n)'
  <2>1. n \in Around[e.at] /\ n \in Cell /\ tree'[n].g = tree[e.at].g + getTraversalCost(e.at, n)
    BY <1>1, Zenon DEF Visits
  <2>2. getHeuristicCost(e.at) <= travel(e.at, n) + getHeuristicCost(n)
    BY <1>1, <2>1, Consistent, GridAssumption DEF getHeuristicCost
  <2>3. getTraversalCost(e.at, n) \in Nat /\ getTraversalCost(e.at, n) >= travel(e.at, n) /\ travel(e.at, n) \in Nat
    BY <1>1, <2>1, TraversalCost
  <2>4. Whole(n)' = tree'[n].g + getHeuristicCost(n)
    BY <1>3, <2>1
  <2> QED
    BY <1>1, <1>2, <2>1, <2>2, <2>3, <2>4, SMTT(30)
<1>7. ASSUME NEW n \in Waiting, n \notin B PROVE Whole(e.at) <= Whole(n)'
  <2>1. n \in Cell /\ Whole(e.at) <= Whole(n)
    BY FirstIsLeast DEF Waiting, Opened
  <2> QED
    BY <1>5, <1>7, <2>1
<1> QED
  BY <1>3, <1>4, <1>5, <1>6, <1>7

\* A visit keeps the tree: whoever is reached for less hangs from the node visited, and
\* the nodes visited, from which the others hang, keep their costs.
LEMMA VisitKeepsTree ==
  ASSUME SetFacts, Costs, SmacPlan, NEW e, First(e), NEW B, Visits(e, B), e.at # Goal, UNCHANGED costs
  PROVE  SmacNodes' /\ Rooted' /\ Small'
<1> DEFINE c == e.at
<1>0. SmacNodes /\ Rooted /\ Small
  BY DEF SmacPlan
<1>1. /\ c \in Cell /\ c \in Opened /\ c \notin Visited /\ B \subseteq Cell \ {Start, c}
      /\ \A n \in Cell : tree'[n].g \in Nat /\ tree'[n].g <= tree[n].g
      /\ \A n \in Cell \ B : tree'[n].g = tree[n].g /\ tree'[n].parent = tree[n].parent
      /\ Visited' = Visited \cup {c} /\ Opened' = Opened \cup B
  BY VisitSets, Zenon
<1> HIDE DEF c
<1>2. /\ B \subseteq Around[c] \ Visited
      /\ \A n \in B : /\ ~Unsafe(costs[n]) /\ tree'[n].parent = c
                      /\ tree'[n].g = tree[c].g + getTraversalCost(c, n)
      /\ tree' \in [Cell -> [g : Nat, parent : Cell, visited : BOOLEAN]]
  BY DEF Visits, c
<1>3. \A n \in Cell : tree[n].g \in Nat /\ tree[n].g <= Infinity /\ tree[n].parent \in Cell
  BY <1>0, SmacTyped
<1>4. SmacNodes'
  <2>1. \A n \in Cell : tree'[n].g <= Infinity
    BY <1>1, <1>3, InfinityFacts
  <2> QED
    BY <1>2, <2>1, SameGrid DEF SmacNodes
<1>5. Small'
  <2>1. \A n \in B : getTraversalCost(c, n) \in Nat /\ getTraversalCost(c, n) <= 412
    BY <1>1, <1>2, TraversalCost
  <2>2. \A n \in B : tree'[n].g \in Nat /\ tree'[n].g <= tree[c].g + 500
    BY <1>1, <1>2, <1>3, <2>1, SMTT(30)
  <2>3. \A n \in Opened : tree[n].g \in Nat /\ tree'[n].g \in Nat /\ tree'[n].g <= tree[n].g
    BY <1>1, <1>3, Zenon DEF Opened
  <2>4. B \in SUBSET Cell /\ c \in Opened /\ Opened' = Opened \cup B /\ Small
    BY <1>0, <1>1, Zenon
  <2> QED
    BY <2>2, <2>3, <2>4, SmallStays, Zenon
<1>6. Start \in Cell \ B /\ Start \in Opened
  BY <1>0, <1>1, GridAssumption, Zenon DEF Rooted
<1>7. \A n \in Opened' \ {Start} :
        /\ n \in Around[tree'[n].parent] /\ tree'[n].parent \in Visited' /\ ~Unsafe(costs[n])
        /\ tree'[n].g = tree'[tree'[n].parent].g + getTraversalCost(tree'[n].parent, n)
  <2> SUFFICES ASSUME NEW n \in Opened' \ {Start}
               PROVE  /\ n \in Around[tree'[n].parent] /\ tree'[n].parent \in Visited' /\ ~Unsafe(costs[n])
                      /\ tree'[n].g = tree'[tree'[n].parent].g + getTraversalCost(tree'[n].parent, n)
    OBVIOUS
  <2>1. CASE n \in B
    <3>1. tree'[c].g = tree[c].g
      BY <1>1, Zenon
    <3> QED
      BY <1>1, <1>2, <2>1, <3>1
  <2>2. CASE n \notin B
    <3> DEFINE p == tree[n].parent
    <3>1. n \in Cell /\ n \in Opened \ {Start}
      BY <1>1, <2>2 DEF Opened
    <3>2. tree'[n].g = tree[n].g /\ tree'[n].parent = p
      BY <1>1, <2>2, <3>1
    <3>3. n \in Around[p] /\ p \in Visited /\ ~Unsafe(costs[n]) /\ tree[n].g = tree[p].g + getTraversalCost(p, n)
      BY <1>0, <3>1 DEF Rooted
    <3> HIDE DEF p
    <3>4. p \in Cell /\ p \notin B
      BY <1>2, <3>3 DEF Visited
    <3>5. tree'[p].g = tree[p].g
      BY <1>1, <3>4, Zenon
    <3> QED
      BY <1>1, <3>2, <3>3, <3>5, Zenon
  <2> QED
    BY <2>1, <2>2
<1>8. \A n \in Cell \ Opened' : tree'[n].parent = n
  BY <1>0, <1>1 DEF Rooted
<1>9. Visited' \subseteq Opened' \ {Goal}
  BY <1>0, <1>1, Zenon DEF Rooted, c
<1>10. tree'[Start].g = 0 /\ tree'[Start].parent = Start /\ Start \in Opened'
  BY <1>0, <1>1, <1>6 DEF Rooted
<1>11. Rooted'
  <2>1. \A n : Unsafe(costs[n])' = Unsafe(costs[n])
    BY DEF Unsafe
  <2> QED
    BY <1>7, <1>8, <1>9, <1>10, <2>1, SameGrid DEF Rooted
<1> QED
  BY <1>4, <1>5, <1>11

\* It keeps the order of the visits: those it reaches come after it.
LEMMA VisitKeepsOrder ==
  ASSUME SetFacts, Costs, SmacPlan, NEW e, First(e), NEW B, Visits(e, B)
  PROVE  Queue' /\ Order'
<1> DEFINE c == e.at
<1>0. SmacNodes /\ Queue /\ Order
  BY DEF SmacPlan
<1>1. /\ c \in Cell /\ c \in Opened /\ c \notin Visited /\ B \subseteq Cell \ {Start, c}
      /\ Visited' = Visited \cup {c} /\ Opened' = Opened \cup B /\ Waiting' = (Waiting \cup B) \ {c}
  BY VisitSets
<1>2. /\ \A n \in Cell : Whole(n)' \in Nat /\ Whole(n)' = tree'[n].g + getHeuristicCost(n)
      /\ \A n \in Cell \ B : Whole(n)' = Whole(n)
      /\ \A n \in Waiting \cup B : Whole(c) <= Whole(n)'
  BY VisitCosts
<1>3. c \in Waiting
  BY FirstIsLeast, Zenon
<1>4. B \cap Visited = {}
  BY Zenon DEF Visits
<1>5. open' = (open \ {e}) \cup {[f |-> tree'[n].g + getHeuristicCost(n), at |-> n] : n \in B}
  BY DEF Visits
<1>6. e \in open
  BY DEF First
<1>7. \A n \in Cell : Whole(n) \in Nat
  BY <1>0, SmacTyped
<1>8. \A n \in B : tree'[n].g < tree[n].g /\ tree[n].g \in Nat /\ tree'[n].g \in Nat /\ Whole(n)' <= Whole(n)
  <2> SUFFICES ASSUME NEW n \in B
               PROVE  tree'[n].g < tree[n].g /\ tree[n].g \in Nat /\ tree'[n].g \in Nat /\ Whole(n)' <= Whole(n)
    BY Zenon
  <2>1. n \in Cell /\ tree'[n].g < tree[n].g
    BY <1>1, Zenon DEF Visits
  <2>2. tree'[n].g \in Nat
    BY <2>1, VisitSets
  <2>3. tree[n].g \in Nat /\ getHeuristicCost(n) \in Nat /\ Whole(n) = tree[n].g + getHeuristicCost(n)
    BY <1>0, <2>1, SmacTyped
  <2>4. Whole(n)' = tree'[n].g + getHeuristicCost(n)
    BY <1>2, <2>1
  <2> QED
    BY <2>1, <2>2, <2>3, <2>4
<1> HIDE DEF c
<1>9. Order'
  <2>1. SUFFICES ASSUME NEW v \in Visited', NEW n \in Waiting' PROVE Whole(v)' <= Whole(n)'
    BY Zenon DEF Order
  <2>2. n \in Waiting \cup B /\ n \in Cell /\ v \in Cell /\ v \notin B
    BY <1>1, <1>4, <2>1 DEF Waiting, Opened, Visited
  <2>3. Whole(c) <= Whole(n)' /\ Whole(v)' = Whole(v)
    BY <1>2, <2>2
  <2>4. Whole(v) <= Whole(c)
    <3>1. CASE v = c
      BY <1>1, <1>7, <3>1
    <3>2. CASE v # c
      BY <1>0, <1>1, <1>3, <3>2 DEF Order
    <3> QED
      BY <3>1, <3>2
  <2>5. Whole(v) \in Nat /\ Whole(c) \in Nat /\ Whole(n)' \in Nat
    BY <1>1, <1>2, <1>7, <2>2
  <2> QED
    BY <2>3, <2>4, <2>5
<1>10. \A o \in open' : o \in open \ {e} \/ (o.at \in B /\ o.f = Whole(o.at)' /\ o \in [f : Nat, at : Opened'])
  <2> SUFFICES ASSUME NEW o \in open', o \notin open \ {e}
               PROVE  o.at \in B /\ o.f = Whole(o.at)' /\ o \in [f : Nat, at : Opened']
    OBVIOUS
  <2>1. PICK n \in B : o = [f |-> tree'[n].g + getHeuristicCost(n), at |-> n]
    BY <1>5
  <2>2. Whole(n)' = tree'[n].g + getHeuristicCost(n) /\ Whole(n)' \in Nat /\ n \in Opened'
    BY <1>1, <1>2
  <2>3. o.at = n /\ o.f = tree'[n].g + getHeuristicCost(n)
    BY <2>1
  <2>4. o.f = Whole(o.at)'
    BY <2>2, <2>3 DEF Whole
  <2>5. o \in [f : Nat, at : Opened']
    BY <2>1, <2>2
  <2> QED
    BY <2>3, <2>4, <2>5
<1>11. open' \subseteq [f : Nat, at : Opened']
  <2>1. open \subseteq [f : Nat, at : Opened'] 
    BY <1>0, <1>1 DEF Queue
  <2> QED
    BY <1>10, <2>1
<1>12. \A o \in open' : o.at = Start \/ o.f >= Whole(o.at)'
  <2> SUFFICES ASSUME NEW o \in open', o.at # Start PROVE o.f >= Whole(o.at)'
    OBVIOUS
  <2>1. CASE o \in open \ {e}
    <3>1. o.f >= Whole(o.at) /\ o.at \in Cell /\ o.f \in Nat
      BY <1>0, <2>1 DEF Queue, Opened
    <3>2. Whole(o.at)' <= Whole(o.at) /\ Whole(o.at)' \in Nat /\ Whole(o.at) \in Nat
      <4>1. PICK n \in Cell : n = o.at
        BY <3>1
      <4>2. Whole(n)' <= Whole(n) /\ Whole(n)' \in Nat /\ Whole(n) \in Nat
        BY <1>2, <1>7, <1>8
      <4>3. Whole(o.at)' = Whole(n)'
        BY <4>1, <3>1 DEF Whole
      <4> QED
        BY <4>1, <4>2, <4>3
    <3> QED
      BY <3>1, <3>2
  <2>2. CASE o.at \in B /\ o.f = Whole(o.at)' /\ o \in [f : Nat, at : Opened']
    BY <2>2
  <2> QED
    BY <1>10, <2>1, <2>2
<1>13. \A n \in Waiting' : \E o \in open' : o.at = n /\ o.f <= Whole(n)'
  <2> SUFFICES ASSUME NEW n \in Waiting' PROVE \E o \in open' : o.at = n /\ o.f <= Whole(n)'
    OBVIOUS
  <2>1. CASE n \in B
    <3> DEFINE o == [f |-> tree'[n].g + getHeuristicCost(n), at |-> n]
    <3>1. o \in open' /\ o.at = n /\ o.f = tree'[n].g + getHeuristicCost(n)
      BY <1>5, <2>1
    <3>2. n \in Cell /\ Whole(n)' \in Nat /\ Whole(n)' = tree'[n].g + getHeuristicCost(n)
      BY <1>1, <1>2, <2>1
    <3> HIDE DEF o
    <3>3. o.f <= Whole(n)'
      BY <3>1, <3>2
    <3> QED
      BY <3>1, <3>3
  <2>2. CASE n \notin B
    <3>1. n \in Waiting /\ n # c /\ n \in Cell
      BY <1>1, <2>2 DEF Waiting, Opened
    <3>2. PICK o \in open : o.at = n /\ o.f <= Whole(n)
      BY <1>0, <3>1 DEF Queue
    <3>3. o # e
      BY <3>1, <3>2 DEF c
    <3>4. Whole(n)' = Whole(n)
      BY <1>2, <2>2, <3>1
    <3> QED
      BY <1>5, <3>2, <3>3, <3>4, Zenon
  <2> QED
    BY <2>1, <2>2
<1>14. Start \in Visited'
  BY <1>0, <1>1, Zenon DEF Queue
<1> QED
  BY <1>9, <1>11, <1>12, <1>13, <1>14 DEF Queue

\* A neighbour that was visited before is no further than over the node visited now.
LEMMA VisitKeepsRelaxed ==
  ASSUME SetFacts, Costs, SmacPlan, NEW e, First(e), NEW B, Visits(e, B), UNCHANGED costs
  PROVE  Relaxed'
<1> DEFINE c == e.at
<1>0. SmacNodes /\ Relaxed /\ Order
  BY DEF SmacPlan
<1>1. /\ c \in Cell /\ c \notin Visited /\ B \subseteq Cell \ {Start, c}
      /\ \A n \in Cell : tree'[n].g \in Nat /\ tree'[n].g <= tree[n].g
      /\ \A n \in Cell \ B : tree'[n].g = tree[n].g
      /\ Visited' = Visited \cup {c}
  BY VisitSets, SMTT(30)
<1>2. /\ B \cap Visited = {}
      /\ \A n \in B : tree'[n].g = tree[c].g + getTraversalCost(c, n)
      /\ \A n \in Around[c] \ (Visited \cup B) : Unsafe(costs[n]) \/ tree[n].g <= tree[c].g + getTraversalCost(c, n)
  BY Zenon DEF Visits
<1>3. c \in Waiting
  BY FirstIsLeast, SMTT(30)
<1> HIDE DEF c
<1>4. \A n \in Cell : /\ tree[n].g \in Nat /\ getHeuristicCost(n) \in Nat
                      /\ Whole(n) = tree[n].g + getHeuristicCost(n)
  BY <1>0, SmacTyped, Zenon
<1>5. SUFFICES ASSUME NEW v \in Visited', NEW n \in Around[v], ~Unsafe(costs[n])
               PROVE  tree'[n].g <= tree'[v].g + getTraversalCost(v, n)
  <2>1. \A n : Unsafe(costs[n])' = Unsafe(costs[n])
    BY DEF Unsafe
  <2> QED
    BY <2>1, SameGrid, Zenon DEF Relaxed
<1>6. v \in Cell /\ v \notin B /\ n \in Cell
  <2>1. v \in Cell /\ v \notin B
    BY <1>1, <1>2, <1>5, Zenon DEF Visited
  <2> QED
    BY <1>5, <2>1, AroundFacts, Zenon
<1>7. /\ tree'[v].g = tree[v].g /\ tree'[n].g <= tree[n].g /\ tree'[n].g \in Nat
      /\ getTraversalCost(v, n) \in Nat /\ getTraversalCost(v, n) >= travel(v, n) /\ travel(v, n) \in Nat
  BY <1>1, <1>6, TraversalCost, SMT, SMTT(30)
<1>8. CASE v \in Visited
  <2>1. tree[n].g <= tree[v].g + getTraversalCost(v, n)
    BY <1>0, <1>5, <1>8, Zenon DEF Relaxed
  <2> QED
    BY <1>4, <1>6, <1>7, <2>1, SMTT(30)
<1>9. CASE v = c
  <2>1. CASE n \in B
    BY <1>2, <1>4, <1>6, <1>7, <1>9, <2>1, SMTT(30)
  <2>2. CASE n \in Visited
    <3>1. Whole(n) <= Whole(c)
      BY <1>0, <1>3, <2>2, Zenon DEF Order
    <3>2. getHeuristicCost(v) <= travel(v, n) + getHeuristicCost(n)
      BY <1>5, <1>6, Consistent, GridAssumption, SMTT(30) DEF getHeuristicCost
    <3>3. /\ tree[n].g + getHeuristicCost(n) <= tree[v].g + getHeuristicCost(v)
          /\ tree[n].g \in Nat /\ tree[v].g \in Nat /\ getHeuristicCost(n) \in Nat /\ getHeuristicCost(v) \in Nat
      BY <1>4, <1>6, <1>9, <3>1, Zenon
    <3> QED
      BY <1>7, <3>2, <3>3
  <2>3. CASE n \notin Visited \cup B
    <3>1. tree[n].g <= tree[v].g + getTraversalCost(v, n)
      BY <1>2, <1>5, <1>9, <2>3
    <3> QED
      BY <1>4, <1>6, <1>7, <3>1
  <2> QED
    BY <2>1, <2>2, <2>3, Zenon
<1> QED
  BY <1>1, <1>5, <1>8, <1>9

\* The best node stays the nearest of those that were reached.
LEMMA VisitKeepsNearest ==
  ASSUME SetFacts, Costs, SmacPlan, NEW e, First(e), NEW B, Visits(e, B)
  PROVE  Nearest'
<1>0. SmacNodes /\ Nearest
  BY DEF SmacPlan
<1>1. B \subseteq Cell \ {Start} /\ Opened' = Opened \cup B /\ Opened \subseteq Cell
  BY VisitSets, Zenon DEF Opened
<1>2. /\ best' = best \/ \E n \in B : best' = [h |-> getHeuristicCost(n), at |-> n]
      /\ best'.h <= best.h /\ \A n \in B : best'.h <= getHeuristicCost(n)
  BY SMTT(30) DEF Visits
<1>3. \A n \in Cell : getHeuristicCost(n) \in Nat
  BY <1>0, SmacTyped
<1>4. best \in [h : Nat, at : Cell] /\ \A c \in Opened \ {Start} : best.h <= getHeuristicCost(c)
  BY <1>0 DEF Nearest
<1>5. /\ best' \in [h : Nat, at : Cell]
      /\ best'.h = Infinity \/ (best'.at \in Opened' \ {Start} /\ best'.h = getHeuristicCost(best'.at))
  <2>1. CASE best' = best
    BY <1>0, <1>1, <2>1 DEF Nearest
  <2>2. CASE \E n \in B : best' = [h |-> getHeuristicCost(n), at |-> n]
    <3>1. PICK n \in B : best' = [h |-> getHeuristicCost(n), at |-> n]
      BY <2>2
    <3>2. best'.at = n /\ best'.h = getHeuristicCost(n)
      BY <3>1
    <3>3. n \in Cell /\ getHeuristicCost(n) \in Nat /\ n \in Opened' \ {Start}
      BY <1>1, <1>3
    <3> QED
      BY <3>1, <3>2, <3>3
  <2> QED
    BY <1>2, <2>1, <2>2
<1>6. \A c \in Opened' \ {Start} : best'.h <= getHeuristicCost(c)
  <2> SUFFICES ASSUME NEW c \in Opened' \ {Start} PROVE best'.h <= getHeuristicCost(c)
    OBVIOUS
  <2>1. best'.h \in Nat /\ best.h \in Nat /\ c \in Cell /\ getHeuristicCost(c) \in Nat
    BY <1>1, <1>3, <1>4, <1>5
  <2>2. CASE c \in B
    BY <1>2, <2>2
  <2>3. CASE c \in Opened
    BY <1>2, <1>4, <2>1, <2>3
  <2> QED
    BY <1>1, <2>2, <2>3
<1>7. \A c : getHeuristicCost(c)' = getHeuristicCost(c)
  BY SameGrid
<1>8. getHeuristicCost(best'.at) = getHeuristicCost(best.at)'
  BY DEF getHeuristicCost, Length, lengths, Square
<1> QED
  BY <1>5, <1>6, <1>7, <1>8, SameGrid DEF Nearest

\* A visit keeps all of it.
LEMMA VisitKeepsPlan ==
  ASSUME SetFacts, Costs, SmacPlan, NEW e, First(e), expand(e.at, open \ {e}), e.at # Goal, UNCHANGED costs
  PROVE  SmacPlan'
<1>1. PICK B : Visits(e, B)
  BY VisitEffect
<1>2. SmacNodes' /\ Rooted' /\ Small'
  BY <1>1, VisitKeepsTree
<1>3. Queue' /\ Order'
  BY <1>1, VisitKeepsOrder
<1>4. Relaxed' /\ Nearest'
  BY <1>1, VisitKeepsRelaxed, VisitKeepsNearest
<1> QED
  BY <1>2, <1>3, <1>4 DEF SmacPlan

\* A node that was queued twice is only taken from the queue.
LEMMA SkipKeepsPlan ==
  ASSUME SmacPlan, NEW e \in open, e.at \in Visited, open' = open \ {e}, UNCHANGED <<costs, tree, best>>
  PROVE  SmacPlan'
<1>1. Opened' = Opened /\ Visited' = Visited /\ Waiting' = Waiting
  BY SameGrid DEF Opened, Visited, Waiting
<1>2. \A c : Whole(c)' = Whole(c)
  BY SameGrid DEF Whole
<1>3. \A c : Unsafe(costs[c])' = Unsafe(costs[c])
  BY DEF Unsafe
<1>4. SmacNodes' /\ Rooted' /\ Small' /\ Relaxed' /\ Nearest' /\ Order'
  <2>1. SmacNodes /\ Rooted /\ Small /\ Relaxed /\ Nearest /\ Order
    BY DEF SmacPlan
  <2>2. SmacNodes' /\ Small'
    BY <1>1, <2>1, SameGrid, SMTT(30) DEF SmacNodes, Small
  <2>3. Rooted'
    BY <1>1, <1>3, <2>1, SameGrid, Zenon DEF Rooted
  <2>4. Relaxed'
    BY <1>1, <1>3, <2>1, SameGrid, SMTT(30) DEF Relaxed
  <2>5. Nearest'
    <3>1. getHeuristicCost(best.at)' = getHeuristicCost(best.at)
      BY DEF getHeuristicCost, Length, lengths, Square
    <3> QED
      BY <1>1, <2>1, <3>1, SameGrid DEF Nearest
  <2>6. Order'
    BY <1>1, <1>2, <2>1 DEF Order
  <2> QED
    BY <2>2, <2>3, <2>4, <2>5, <2>6
<1>5. Queue'
  <2>1. Queue
    BY SMTT(30) DEF SmacPlan
  <2>2. \A o \in open : Whole(o.at)' = Whole(o.at)
    BY SameGrid DEF Whole
  <2>3. \A c \in Waiting : \E o \in open' : o.at = c /\ o.f <= Whole(c)
    BY <2>1, SMTT(30) DEF Queue, Waiting
  <2> QED
    BY <1>1, <1>2, <2>1, <2>2, <2>3 DEF Queue
<1> QED
  BY <1>4, <1>5 DEF SmacPlan

-----------------------------------------------------------------------------
(* backtracePath() ends at the start.                                      *)

\* The steps of backtrace.
Leads(b) == b = [c \in Cell |-> IF tree[c].parent = c THEN <<c>> ELSE <<c>> \o b[tree[c].parent]]

\* Where parents cost less there is an end to them.
LEMMA BacktraceEnds ==
  ASSUME SetFacts, \A c \in Cell : tree[c].g \in Nat /\ tree[c].g <= Infinity /\ tree[c].parent \in Cell,
         \A c \in Cell : tree[c].parent = c \/ tree[tree[c].parent].g < tree[c].g
  PROVE  Leads(backtrace)
<1> DEFINE A == [Cell -> Seq(Cell)]
           Back(b) == [c \in Cell |-> IF tree[c].parent = c THEN <<c>> ELSE <<c>> \o b[tree[c].parent]]
           F == [x \in Nat \X A |-> Back(x[2])]
           alone == [c \in Cell |-> <<c>>]
<1>1. alone \in A /\ \A b \in A : Back(b) \in A
  <2>1. \A c \in Cell : <<c>> \in Seq(Cell)
    OBVIOUS
  <2>2. alone \in A
    BY <2>1, SMTT(30)
  <2>3. ASSUME NEW b \in A PROVE Back(b) \in A
    <3>1. \A c \in Cell : <<c>> \o b[tree[c].parent] \in Seq(Cell)
      BY <2>1
    <3> QED
      BY <2>1, <3>1, SMTT(30)
  <2> QED
    BY <2>2, <2>3
<1>3. \A b : Leads(b) <=> b = Back(b)
  BY DEF Leads
<1> HIDE DEF Back, A, alone
<1>4. F \in [Nat \X A -> A]
  BY <1>1
<1>5. Infinity \in Nat /\ Infinity + 1 \in Nat
  BY InfinityFacts
<1>6. PICK f : Iterates(f, A, F, alone, Infinity + 1)
  <2> HIDE DEF F
  <2> QED
    BY <1>1, <1>4, <1>5, Iteration, Zenon
<1>7. f \in [0 .. Infinity + 1 -> A] /\ f[0] = alone
  BY <1>6 DEF Iterates
<1>8. ASSUME NEW k \in Nat, k <= Infinity PROVE f[k] \in A /\ f[k + 1] \in A /\ f[k + 1] = Back(f[k]) /\
             \A c \in Cell : f[k + 1][c] = IF tree[c].parent = c THEN <<c>> ELSE <<c>> \o f[k][tree[c].parent]
  <2>1. k \in 0 .. (Infinity + 1) - 1 /\ k \in 0 .. Infinity + 1 /\ k + 1 \in 0 .. Infinity + 1
    BY <1>5, <1>8
  <2>2. f[k + 1] = F[<<k, f[k]>>]
    BY <1>6, <2>1, Zenon DEF Iterates
  <2>3. f[k] \in A /\ f[k + 1] \in A
    BY <1>7, <2>1
  <2>4. f[k + 1] = Back(f[k])
    BY <2>2, <2>3
  <2>5. PICK b : b = f[k]
    OBVIOUS
  <2>6. \A c \in Cell : Back(b)[c] = IF tree[c].parent = c THEN <<c>> ELSE <<c>> \o b[tree[c].parent]
    BY DEF Back
  <2> QED
    BY <2>3, <2>4, <2>5, <2>6
<1> HIDE DEF F
<1> DEFINE T == {k \in Nat : k <= Infinity => \A c \in Cell : tree[c].g <= k => f[k + 1][c] = f[k][c]}
<1>9. 0 \in T
  <2> SUFFICES ASSUME NEW c \in Cell, tree[c].g <= 0 PROVE f[0 + 1][c] = f[0][c]
    OBVIOUS
  <2>1. tree[c].parent = c
    <3>1. tree[c].g \in Nat /\ tree[c].parent \in Cell
      OBVIOUS
    <3>2. tree[tree[c].parent].g \in Nat
      BY <3>1
    <3> QED
      BY <3>1, <3>2
  <2>3. f[0 + 1][c] = <<c>>
    <3>1. 0 \in Nat /\ 0 <= Infinity
      BY <1>5
    <3>2. f[0 + 1][c] = IF tree[c].parent = c THEN <<c>> ELSE <<c>> \o f[0][tree[c].parent]
      BY <1>8, <3>1
    <3> QED
      BY <2>1, <3>2
  <2> QED
    BY <1>7, <2>3 DEF alone
<1>10. ASSUME NEW k \in Nat, k \in T PROVE k + 1 \in T
  <2>1. SUFFICES ASSUME k + 1 <= Infinity, NEW c \in Cell, tree[c].g <= k + 1
                 PROVE  f[(k + 1) + 1][c] = f[k + 1][c]
    OBVIOUS
  <2>2. k <= Infinity /\ k + 1 \in Nat
    BY <1>5, <2>1, SMTT(30)
  <2>3. /\ f[(k + 1) + 1][c] = IF tree[c].parent = c THEN <<c>> ELSE <<c>> \o f[k + 1][tree[c].parent]
        /\ f[k + 1][c] = IF tree[c].parent = c THEN <<c>> ELSE <<c>> \o f[k][tree[c].parent]
    BY <1>8, <2>1, <2>2
  <2>4. CASE tree[c].parent = c
    BY <2>3, <2>4, SMTT(30)
  <2>5. CASE tree[c].parent # c
    <3> DEFINE p == tree[c].parent
    <3>1. p \in Cell /\ tree[p].g \in Nat /\ tree[c].g \in Nat /\ tree[p].g < tree[c].g
      BY <2>5
    <3>2. f[k + 1][p] = f[k][p]
      BY <1>10, <2>1, <2>2, <3>1
    <3>3. f[(k + 1) + 1][c] = <<c>> \o f[k + 1][p] /\ f[k + 1][c] = <<c>> \o f[k][p]
      BY <2>3, <2>5, Zenon
    <3> QED
      BY <3>2, <3>3, Zenon
  <2> QED
    BY <2>4, <2>5
<1>11. Nat \subseteq T
  <2> HIDE DEF T
  <2> QED
    BY <1>9, <1>10, Induction
<1>12. \A c \in Cell : f[Infinity + 1][c] = f[Infinity][c]
  <2>1. Infinity \in T
    BY <1>5, <1>11
  <2> QED
    BY <1>5, <2>1
<1>13. f[Infinity + 1] = f[Infinity]
  <2>1. f[Infinity] \in A /\ f[Infinity + 1] \in A
    BY <1>5, <1>8
  <2> QED
    BY <1>12, <2>1 DEF A
<1>14. Leads(f[Infinity])
  BY <1>3, <1>5, <1>8, <1>13
<1>15. backtrace = CHOOSE b : Leads(b)
  BY DEF backtrace, Leads
<1> QED
  BY <1>14, <1>15, SMTT(30)

\* A path from a cell to the start over safe cells.
Way(p, c) ==
  /\ p \in Seq(Cell) /\ Len(p) >= 1 /\ p[1] = c /\ p[Len(p)] = Start
  /\ \A i \in 1 .. Len(p) - 1 : p[i] \in Around[p[i + 1]] /\ ~Unsafe(costs[p[i]])

\* The way of the start, and a way with one more cell in front.
LEMMA WayStarts ==
  ASSUME Start \in Cell
  PROVE  Way(<<Start>>, Start)
BY DEF Way

LEMMA WayGrows ==
  ASSUME NEW n \in Cell, NEW p \in Cell, NEW s, Way(s, p), n \in Around[p], ~Unsafe(costs[n])
  PROVE  Way(<<n>> \o s, n)
<1>1. /\ s \in Seq(Cell) /\ Len(s) \in Nat /\ Len(s) >= 1 /\ s[1] = p /\ s[Len(s)] = Start
      /\ \A i \in 1 .. Len(s) - 1 : s[i] \in Around[s[i + 1]] /\ ~Unsafe(costs[s[i]])
  BY DEF Way
<1>2. PICK w : w = <<n>> \o s
  BY Zenon
<1>3. /\ w \in Seq(Cell) /\ Len(w) = Len(s) + 1 /\ w[1] = n
      /\ \A i \in 1 .. Len(s) : w[i + 1] = s[i]
  BY <1>1, <1>2
<1>4. w[Len(w)] = Start
  BY <1>1, <1>3
<1>5. ASSUME NEW i \in 1 .. Len(w) - 1 PROVE w[i] \in Around[w[i + 1]] /\ ~Unsafe(costs[w[i]])
  <2>1. CASE i = 1
    <3>1. w[i + 1] = p /\ w[i] = n
      BY <1>1, <1>3, <2>1
    <3> QED
      BY <3>1, Zenon
  <2>2. CASE i # 1
    <3>1. i - 1 \in 1 .. Len(s) - 1 /\ i - 1 \in 1 .. Len(s) /\ i \in 1 .. Len(s) /\ (i - 1) + 1 = i
      BY <1>1, <1>3, <1>5, <2>2
    <3>2. w[i + 1] = s[i] /\ w[i] = s[i - 1]
      BY <1>3, <3>1
    <3>3. s[i - 1] \in Around[s[i]] /\ ~Unsafe(costs[s[i - 1]])
      BY <1>1, <3>1, Zenon
    <3> QED
      BY <3>2, <3>3, Zenon
  <2> QED
    BY <2>1, <2>2
<1>6. Way(w, n)
  BY <1>1, <1>3, <1>4, <1>5 DEF Way
<1> QED
  BY <1>2, <1>6, Zenon

\* backtracePath() follows the parents back to the start, over safe cells.
LEMMA WayBack ==
  ASSUME SetFacts, Costs, SmacPlan, NEW c \in Opened
  PROVE  Way(backtrace[c], c)
<1>0. SmacNodes /\ Rooted
  BY DEF SmacPlan
<1>1. \A n \in Cell : tree[n].g \in Nat /\ tree[n].g <= Infinity /\ tree[n].parent \in Cell
  BY <1>0, SmacTyped
<1>2. ASSUME NEW n \in Opened, n # Start
      PROVE  /\ n \in Cell /\ tree[n].parent \in Opened /\ tree[n].parent \in Cell /\ tree[n].parent # n
             /\ tree[tree[n].parent].g < tree[n].g
             /\ n \in Around[tree[n].parent] /\ ~Unsafe(costs[n])
  <2> DEFINE p == tree[n].parent
  <2>1. n \in Around[p] /\ p \in Visited /\ p \in Opened /\ ~Unsafe(costs[n]) /\ tree[n].g = tree[p].g + getTraversalCost(p, n)
    BY <1>0, <1>2 DEF Rooted
  <2> HIDE DEF p
  <2>2. p \in Cell /\ n \in Cell
    BY <2>1 DEF Opened
  <2>3. getTraversalCost(p, n) \in Nat /\ getTraversalCost(p, n) >= travel(p, n) /\ travel(p, n) >= 100 /\ travel(p, n) \in Nat
    BY <2>2, TraversalCost
  <2>4. tree[p].g \in Nat /\ tree[n].g \in Nat
    BY <1>1, <2>2
  <2>5. tree[p].g < tree[n].g
    BY <2>1, <2>3, <2>4
  <2>6. p # n
    BY <2>4, <2>5
  <2> QED
    BY <2>1, <2>2, <2>5, <2>6, Zenon DEF p
<1>3. \A n \in Cell : tree[n].parent = n \/ tree[tree[n].parent].g < tree[n].g
  <2>1. tree[Start].parent = Start /\ \A n \in Cell \ Opened : tree[n].parent = n
    BY <1>0 DEF Rooted
  <2> QED
    BY <1>2, <2>1
<1>4. Leads(backtrace)
  BY <1>1, <1>3, BacktraceEnds
<1>5. \A n \in Cell : backtrace[n] = IF tree[n].parent = n THEN <<n>> ELSE <<n>> \o backtrace[tree[n].parent]
  <2>1. PICK b : b = backtrace
    OBVIOUS
  <2>2. b = [n \in Cell |-> IF tree[n].parent = n THEN <<n>> ELSE <<n>> \o b[tree[n].parent]]
    BY <1>4, <2>1, Zenon DEF Leads
  <2>3. \A n \in Cell : b[n] = IF tree[n].parent = n THEN <<n>> ELSE <<n>> \o b[tree[n].parent]
    BY <2>2, Zenon
  <2> QED
    BY <2>1, <2>3, Zenon
<1> SUFFICES ASSUME ~Way(backtrace[c], c) PROVE FALSE
  OBVIOUS
<1> DEFINE Bad == {n \in Opened : ~Way(backtrace[n], n)}
           T == {tree[n].g : n \in Bad}
<1>6. PICK m \in T : \A k \in T : m <= k
  <2>1. T \subseteq Nat /\ T # {}
    BY <1>1 DEF Opened
  <2> HIDE DEF T
  <2> QED
    BY <2>1, LeastNat, Zenon
<1>7. PICK n \in Bad : tree[n].g = m
  BY <1>6
<1>8. n \in Opened /\ ~Way(backtrace[n], n) /\ n \in Cell
  BY <1>7 DEF Opened
<1>9. CASE n = Start
  <2>1. backtrace[n] = <<n>>
    BY <1>0, <1>5, <1>8, <1>9, Zenon DEF Rooted
  <2>2. Way(<<n>>, n)
    BY <1>8, <1>9, WayStarts, Zenon
  <2> QED
    BY <1>8, <2>1, <2>2
<1>10. CASE n # Start
  <2> DEFINE p == tree[n].parent
  <2>1. /\ p \in Opened /\ p \in Cell /\ p # n /\ tree[p].g < tree[n].g
        /\ n \in Around[p] /\ ~Unsafe(costs[n])
    BY <1>2, <1>8, <1>10, Zenon
  <2>2. Way(backtrace[p], p)
    <3> SUFFICES ASSUME p \in Bad PROVE FALSE
      BY <2>1, Zenon
    <3>1. m <= tree[p].g
      BY <1>6
    <3> HIDE DEF Bad, T, p
    <3>2. PICK k \in Nat : k = tree[p].g
      BY <1>1, <2>1, Zenon
    <3>3. m \in Nat /\ k < m /\ m <= k
      BY <1>1, <1>7, <1>8, <2>1, <3>1, <3>2, Zenon
    <3> QED
      BY <3>3
  <2>3. backtrace[n] = <<n>> \o backtrace[p]
    BY <1>5, <1>8, <2>1, Zenon
  <2> QED
    BY <1>8, <2>1, <2>2, <2>3, WayGrows, Zenon
<1> QED
  BY <1>9, <1>10

-----------------------------------------------------------------------------
(* The references: what can be reached, and for how much.                  *)

\* A set that no safe cell beside it is missing from holds all that can be reached.
LEMMA ReachableWithin ==
  ASSUME SetFacts, NEW O \in SUBSET Cell, Start \in O,
         \A c \in Cell : ~Unsafe(costs[c]) /\ Around[c] \cap O # {} => c \in O
  PROVE  Reachable \subseteq O
<1> DEFINE N == Cardinality(Cell)
           Rounds(r) == r = [k \in 0 .. N |-> IF k = 0 THEN {Start} ELSE UNION {Beyond(R) : R \in {r[k - 1]}}]
           F == [x \in Nat \X SUBSET Cell |-> Beyond(x[2])]
<1>1. N \in Nat /\ {Start} \in SUBSET Cell
  BY CellsFinite
<1>2. \A R \in SUBSET Cell : Beyond(R) \in SUBSET Cell
  BY DEF Beyond
<1>3. \A R : R \subseteq O => Beyond(R) \subseteq O
  BY DEF Beyond
<1>4. \A R : UNION {Beyond(S) : S \in {R}} = Beyond(R)
  OBVIOUS
<1>5. Reachable = (CHOOSE r : Rounds(r))[N]
  BY DEF Reachable
<1>6. F \in [Nat \X SUBSET Cell -> SUBSET Cell]
  BY <1>2
<1> HIDE DEF N
<1>7. PICK f : Iterates(f, SUBSET Cell, F, {Start}, N)
  <2> HIDE DEF F
  <2> QED
    BY <1>1, <1>6, Iteration, Zenon
<1>8. f \in [0 .. N -> SUBSET Cell] /\ f[0] = {Start} /\ \A k \in 0 .. N - 1 : f[k + 1] = F[<<k, f[k]>>]
  BY <1>7, Zenon DEF Iterates
<1>9. \A k \in 0 .. N : k # 0 => f[k] = Beyond(f[k - 1])
  <2> SUFFICES ASSUME NEW k \in 0 .. N, k # 0 PROVE f[k] = Beyond(f[k - 1])
    OBVIOUS
  <2>1. k - 1 \in 0 .. N - 1 /\ k - 1 \in 0 .. N /\ (k - 1) + 1 = k /\ k - 1 \in Nat
    BY <1>1
  <2>2. f[k] = F[<<k - 1, f[k - 1]>>] /\ f[k - 1] \in SUBSET Cell
    BY <1>8, <2>1, Zenon
  <2> QED
    BY <2>1, <2>2
<1>10. Rounds(f)
  BY <1>4, <1>8, <1>9
<1>11. PICK r : r = (CHOOSE s : Rounds(s)) /\ Rounds(r)
  <2> HIDE DEF Rounds
  <2> QED
    BY <1>10
<1>12. r[0] = {Start} /\ \A k \in 0 .. N : k # 0 => r[k] = Beyond(r[k - 1])
  <2>1. r = [k \in 0 .. N |-> IF k = 0 THEN {Start} ELSE UNION {Beyond(R) : R \in {r[k - 1]}}]
    BY <1>11, Zenon
  <2>2. 0 \in 0 .. N
    BY <1>1
  <2>3. r[0] = {Start} /\ \A k \in 0 .. N : k # 0 => r[k] = UNION {Beyond(R) : R \in {r[k - 1]}}
    BY <2>1, <2>2, Zenon
  <2> QED
    BY <1>4, <2>3, Zenon
<1> DEFINE T == {k \in Nat : k <= N => r[k] \subseteq O}
<1>13. 0 \in T
  BY <1>12
<1>14. ASSUME NEW k \in Nat, k \in T PROVE k + 1 \in T
  <2>1. SUFFICES ASSUME k + 1 <= N PROVE r[k + 1] \subseteq O
    OBVIOUS
  <2>2. k + 1 \in 0 .. N /\ k + 1 # 0 /\ (k + 1) - 1 = k /\ k <= N
    BY <1>1, <2>1
  <2>3. r[k + 1] = Beyond(r[k]) /\ r[k] \subseteq O
    BY <1>12, <1>14, <2>2
  <2> QED
    BY <1>3, <2>3
<1>15. Nat \subseteq T
  <2> HIDE DEF T
  <2> QED
    BY <1>13, <1>14, Induction
<1>16. r[N] \subseteq O
  BY <1>1, <1>15
<1> QED
  BY <1>5, <1>11, <1>16

\* A round of the relaxation takes the least there is.
LEMMA RelaxFacts ==
  ASSUME SetFacts, Costs, NEW d \in [Cell -> Nat]
  PROVE  /\ Relax(d) \in [Cell -> Nat]
         /\ \A c \in Cell : Relax(d)[c] <= d[c]
         /\ \A c \in Cell : ~Unsafe(costs[c]) =>
              \A n \in Around[c] : d[n] < Infinity => Relax(d)[c] <= d[n] + getTraversalCost(n, c)
         /\ \A c \in Cell : \/ Relax(d)[c] = d[c]
                            \/ /\ ~Unsafe(costs[c])
                               /\ \E n \in Around[c] : Relax(d)[c] = d[n] + getTraversalCost(n, c)
<1> DEFINE S(c) == {d[c]} \cup {d[n] + getTraversalCost(n, c) : n \in {n \in Around[c] : d[n] < Infinity}}
<1>1. ASSUME NEW c \in Cell
      PROVE  /\ Least(S(c)) \in Nat /\ Least(S(c)) \in S(c) /\ \A k \in S(c) : Least(S(c)) <= k
  <2>1. S(c) \subseteq Nat /\ S(c) # {}
    <3>1. \A n \in Around[c] : d[n] + getTraversalCost(n, c) \in Nat
      BY AroundFacts, TraversalCost
    <3> QED
      BY <3>1
  <2>2. PICK U : U = S(c)
    BY Zenon
  <2>3. \E m \in U : \A k \in U : m <= k
    BY <2>1, <2>2, LeastNat, Zenon
  <2>4. Least(U) \in U /\ \A k \in U : Least(U) <= k
    BY <2>3 DEF Least
  <2> QED
    BY <2>1, <2>2, <2>4, Zenon
<1>2. Relax(d) = [c \in Cell |-> IF Unsafe(costs[c]) THEN d[c] ELSE Least(S(c))]
  BY DEF Relax
<1>3. \A c \in Cell : d[c] \in S(c) /\ \A n \in Around[c] : d[n] < Infinity => d[n] + getTraversalCost(n, c) \in S(c)
  OBVIOUS
<1>4. \A c \in Cell : \A k \in S(c) : k = d[c] \/ \E n \in Around[c] : k = d[n] + getTraversalCost(n, c)
  OBVIOUS
<1> HIDE DEF S
<1>5. Relax(d) \in [Cell -> Nat]
  BY <1>1, <1>2
<1>6. \A c \in Cell : Relax(d)[c] <= d[c]
  BY <1>1, <1>2, <1>3, SMTT(30)
<1>7. \A c \in Cell : ~Unsafe(costs[c]) =>
        \A n \in Around[c] : d[n] < Infinity => Relax(d)[c] <= d[n] + getTraversalCost(n, c)
  BY <1>1, <1>2, <1>3, SMTT(30)
<1>8. \A c \in Cell : \/ Relax(d)[c] = d[c]
                      \/ /\ ~Unsafe(costs[c])
                         /\ \E n \in Around[c] : Relax(d)[c] = d[n] + getTraversalCost(n, c)
  BY <1>1, <1>2, <1>4
<1> QED
  BY <1>5, <1>6, <1>7, <1>8

\* What each cell costs before any round.
Unreached == [c \in Cell |-> IF c = Start THEN 0 ELSE Infinity]

Relaxations(d) ==
  /\ d[0] = Unreached
  /\ \A k \in 0 .. Cardinality(Cell) : d[k] \in [Cell -> Nat]
  /\ \A k \in 0 .. Cardinality(Cell) : k # 0 => d[k] = Relax(d[k - 1])

\* The reference is what its rounds lead to.
LEMMA CheapestIsRelaxed ==
  ASSUME SetFacts, Costs
  PROVE  \E d : Relaxations(d) /\ Cheapest = d[Cardinality(Cell)]
<1> DEFINE N == Cardinality(Cell)
           A == [Cell -> Nat]
           Rounds(d) == d = [k \in 0 .. N |->
                          IF k = 0 THEN [c \in Cell |-> IF c = Start THEN 0 ELSE Infinity]
                          ELSE CHOOSE r \in {Relax(e) : e \in {d[k - 1]}} : r \in [Cell -> Nat]]
           F == [x \in Nat \X A |-> Relax(x[2])]
<1>1. N \in Nat /\ Unreached \in A
  BY CellsFinite, InfinityFacts DEF Unreached
<1>2. \A e \in A : Relax(e) \in A
  BY RelaxFacts
<1>3. \A e \in A : (CHOOSE r \in {Relax(x) : x \in {e}} : r \in A) = Relax(e)
  BY <1>2
<1>4. Cheapest = (CHOOSE d : Rounds(d))[N]
  BY DEF Cheapest
<1>5. \A d : Rounds(d) <=> d = [k \in 0 .. N |-> IF k = 0 THEN Unreached
                                  ELSE CHOOSE r \in {Relax(e) : e \in {d[k - 1]}} : r \in A]
  BY DEF Unreached
<1> HIDE DEF N, A, Rounds
<1>6. F \in [Nat \X A -> A]
  BY <1>2
<1>7. PICK f : Iterates(f, A, F, Unreached, N)
  <2> HIDE DEF F
  <2> QED
    BY <1>1, <1>6, Iteration, Zenon
<1>8. f \in [0 .. N -> A] /\ f[0] = Unreached /\ \A k \in 0 .. N - 1 : f[k + 1] = F[<<k, f[k]>>]
  BY <1>7, Zenon DEF Iterates
<1>9. \A k \in 0 .. N : k # 0 => f[k] = Relax(f[k - 1]) /\ f[k - 1] \in A
  <2> SUFFICES ASSUME NEW k \in 0 .. N, k # 0 PROVE f[k] = Relax(f[k - 1]) /\ f[k - 1] \in A
    OBVIOUS
  <2>1. k - 1 \in 0 .. N - 1 /\ k - 1 \in 0 .. N /\ (k - 1) + 1 = k /\ k - 1 \in Nat
    BY <1>1
  <2>2. f[k] = F[<<k - 1, f[k - 1]>>] /\ f[k - 1] \in A
    BY <1>8, <2>1, Zenon
  <2> QED
    BY <2>1, <2>2
<1>10. Rounds(f)
  <2>1. f = [k \in 0 .. N |-> IF k = 0 THEN Unreached
                              ELSE CHOOSE r \in {Relax(e) : e \in {f[k - 1]}} : r \in A]
    BY <1>3, <1>8, <1>9
  <2> QED
    BY <1>5, <2>1, Zenon
<1>11. PICK d : d = (CHOOSE s : Rounds(s)) /\ Rounds(d)
  BY <1>10
<1>12. /\ d[0] = Unreached
       /\ \A k \in 0 .. N : k # 0 => d[k] = CHOOSE r \in {Relax(e) : e \in {d[k - 1]}} : r \in A
  <2>1. d = [k \in 0 .. N |-> IF k = 0 THEN Unreached
                              ELSE CHOOSE r \in {Relax(e) : e \in {d[k - 1]}} : r \in A]
    BY <1>5, <1>11, Zenon
  <2>2. 0 \in 0 .. N
    BY <1>1
  <2> QED
    BY <2>1, <2>2, Zenon
<1> DEFINE T == {k \in Nat : k <= N => d[k] \in A /\ (k # 0 => d[k] = Relax(d[k - 1]))}
<1>13. 0 \in T
  BY <1>1, <1>12
<1>14. ASSUME NEW k \in Nat, k \in T PROVE k + 1 \in T
  <2>1. SUFFICES ASSUME k + 1 <= N PROVE d[k + 1] \in A /\ d[k + 1] = Relax(d[k])
    OBVIOUS
  <2>2. k + 1 \in 0 .. N /\ k + 1 # 0 /\ (k + 1) - 1 = k /\ k <= N
    BY <1>1, <2>1
  <2>3. d[k] \in A
    BY <1>14, <2>2
  <2>4. d[k + 1] = CHOOSE r \in {Relax(e) : e \in {d[k]}} : r \in A
    BY <1>12, <2>2
  <2> QED
    BY <1>2, <1>3, <2>3, <2>4
<1>15. Nat \subseteq T
  <2> HIDE DEF T
  <2> QED
    BY <1>13, <1>14, Induction
<1>16. \A k \in 0 .. N : d[k] \in A /\ (k # 0 => d[k] = Relax(d[k - 1]))
  BY <1>1, <1>15
<1>17. Relaxations(d)
  BY <1>12, <1>16 DEF Relaxations, N, A
<1>18. Cheapest = d[N]
  BY <1>4, <1>11
<1> QED
  BY <1>17, <1>18 DEF N

\* No way to the goal is cheaper than the one found when the goal is to be visited next:
\* what is known of each cell bounds what it costs from below, in every round.
LEMMA NoCheaper ==
  ASSUME SetFacts, Costs, SmacPlan, NEW e, First(e), e.at = Goal
  PROVE  tree[Goal].g <= Cheapest[Goal]
<1>0. SmacNodes /\ Rooted /\ Queue /\ Order /\ Relaxed
  BY DEF SmacPlan
<1> DEFINE N == Cardinality(Cell)
           G == tree[Goal].g
           L(c) == IF c \in Visited THEN tree[c].g ELSE G - getHeuristicCost(c)
<1>1. Goal \in Waiting /\ Goal \in Cell /\ \A n \in Waiting : Whole(Goal) <= Whole(n)
  BY FirstIsLeast, GridAssumption
<1>2. \A c \in Cell : /\ tree[c].g \in Nat /\ tree[c].g <= Infinity /\ getHeuristicCost(c) \in Nat
                      /\ Whole(c) = tree[c].g + getHeuristicCost(c)
  BY <1>0, SmacTyped, Zenon
<1>3. getHeuristicCost(Goal) = 0 /\ Whole(Goal) = G /\ G \in Nat /\ G <= Infinity
  BY <1>1, <1>2, LengthFacts DEF getHeuristicCost
<1>4. Start \in Visited
  BY <1>0, <1>1, GridAssumption DEF Queue, Waiting
<1>5. \A c \in Cell \ Visited : L(c) <= tree[c].g
  <2> SUFFICES ASSUME NEW c \in Cell, c \notin Visited PROVE G - getHeuristicCost(c) <= tree[c].g
    OBVIOUS
  <2>1. CASE c \in Opened
    <3>1. Whole(Goal) <= Whole(c)
      BY <1>1, <2>1 DEF Waiting
    <3> QED
      BY <1>2, <1>3, <3>1
  <2>2. CASE c \notin Opened
    <3>1. ~(tree[c].g < Infinity)
      BY <2>2, Zenon DEF Opened
    <3> QED
      BY <1>2, <1>3, <3>1, InfinityFacts
  <2> QED
    BY <2>1, <2>2
<1>6. \A v \in Visited : tree[v].g <= G - getHeuristicCost(v)
  <2> SUFFICES ASSUME NEW v \in Visited PROVE tree[v].g <= G - getHeuristicCost(v)
    OBVIOUS
  <2>1. Whole(v) <= Whole(Goal) /\ v \in Cell
    BY <1>0, <1>1, Zenon DEF Order, Visited
  <2> QED
    BY <1>2, <1>3, <2>1
<1>7. ASSUME NEW c \in Cell, NEW n \in Around[c], ~Unsafe(costs[c])
      PROVE  L(c) <= L(n) + getTraversalCost(n, c)
  <2>1. n \in Cell /\ c \in Around[n]
    BY <1>7, AroundFacts
  <2>2. /\ getTraversalCost(n, c) \in Nat /\ travel(n, c) \in Nat /\ getTraversalCost(n, c) >= travel(n, c)
        /\ getHeuristicCost(n) <= travel(n, c) + getHeuristicCost(c)
    <3>1. getHeuristicCost(n) <= travel(n, c) + getHeuristicCost(c)
      BY <1>1, <2>1, Consistent DEF getHeuristicCost
    <3> QED
      BY <2>1, <3>1, TraversalCost
  <2>3. tree[c].g \in Nat /\ tree[n].g \in Nat /\ getHeuristicCost(c) \in Nat /\ getHeuristicCost(n) \in Nat /\ G \in Nat
    BY <1>2, <1>3, <2>1, Zenon
  <2>4. CASE n \in Visited
    <3>1. tree[c].g <= tree[n].g + getTraversalCost(n, c)
      BY <1>0, <1>7, <2>1, <2>4, Zenon DEF Relaxed
    <3>2. L(c) <= tree[c].g /\ L(c) \in Int
      <4>1. CASE c \in Visited
        BY <2>3, <4>1
      <4>2. CASE c \notin Visited
        BY <1>5, <2>3, <4>2, SMTT(30)
      <4> QED
        BY <4>1, <4>2
    <3> HIDE DEF G
    <3> QED
      BY <2>2, <2>3, <2>4, <3>1, <3>2, SMTT(30)
  <2>5. CASE n \notin Visited
    <3>1. L(n) = G - getHeuristicCost(n)
      BY <2>5, Zenon
    <3>2. L(c) <= G - getHeuristicCost(c) /\ L(c) \in Int
      <4>1. CASE c \in Visited
        BY <1>6, <2>3, <4>1
      <4>2. CASE c \notin Visited
        BY <2>3, <4>2, SMTT(30)
      <4> QED
        BY <4>1, <4>2
    <3> HIDE DEF L, G
    <3> QED
      BY <2>2, <2>3, <3>1, <3>2, SMTT(30)
  <2> QED
    BY <2>4, <2>5, Zenon
<1>8. \A c \in Cell : L(c) \in Int /\ L(c) <= Infinity
  BY <1>2, <1>3, InfinityFacts
<1>9. L(Start) = 0 /\ L(Goal) = G
  <2>1. Goal \notin Visited /\ tree[Start].g = 0
    BY <1>0, <1>1 DEF Waiting, Rooted
  <2> QED
    BY <1>3, <1>4, <2>1, SMTT(30)
<1> HIDE DEF L
<1>10. PICK d : Relaxations(d) /\ Cheapest = d[N]
  BY CheapestIsRelaxed
<1>11. N \in Nat
  BY CellsFinite, SMTT(30)
<1> HIDE DEF N, G
<1>12. /\ d[0] = Unreached
       /\ \A k \in 0 .. N : d[k] \in [Cell -> Nat]
       /\ \A k \in 0 .. N : k # 0 => d[k] = Relax(d[k - 1])
  BY <1>10 DEF Relaxations, N
<1> DEFINE T == {k \in Nat : k <= N => \A c \in Cell : L(c) <= d[k][c]}
<1>13. 0 \in T
  <2> SUFFICES ASSUME NEW c \in Cell PROVE L(c) <= d[0][c]
    OBVIOUS
  <2>1. d[0][c] = IF c = Start THEN 0 ELSE Infinity
    BY <1>12 DEF Unreached
  <2>2. c = Start => L(c) = 0
    BY <1>9
  <2> QED
    BY <1>8, <2>1, <2>2
<1>14. ASSUME NEW k \in Nat, k \in T PROVE k + 1 \in T
  <2>1. SUFFICES ASSUME k + 1 <= N, NEW c \in Cell PROVE L(c) <= d[k + 1][c]
    OBVIOUS
  <2>2. k + 1 \in 0 .. N /\ k + 1 # 0 /\ (k + 1) - 1 = k /\ k <= N /\ k \in 0 .. N
    BY <1>11, <2>1
  <2>3. d[k] \in [Cell -> Nat] /\ d[k + 1] = Relax(d[k]) /\ \A n \in Cell : L(n) <= d[k][n]
    BY <1>12, <1>14, <2>2, Zenon
  <2>4. \/ d[k + 1][c] = d[k][c]
        \/ ~Unsafe(costs[c]) /\ \E n \in Around[c] : d[k + 1][c] = d[k][n] + getTraversalCost(n, c)
    BY <2>3, RelaxFacts
  <2>5. CASE d[k + 1][c] = d[k][c]
    BY <2>3, <2>5, Zenon
  <2>6. CASE ~Unsafe(costs[c]) /\ \E n \in Around[c] : d[k + 1][c] = d[k][n] + getTraversalCost(n, c)
    <3>1. PICK n \in Around[c] : d[k + 1][c] = d[k][n] + getTraversalCost(n, c)
      BY <2>6, Zenon
    <3>2. n \in Cell /\ getTraversalCost(n, c) \in Nat /\ L(c) <= L(n) + getTraversalCost(n, c)
      BY <1>7, <2>6, AroundFacts, TraversalCost, SMTT(30)
    <3>3. L(n) <= d[k][n] /\ d[k][n] \in Nat /\ L(n) \in Int /\ L(c) \in Int
      BY <1>8, <2>3, <3>2
    <3> QED
      BY <3>1, <3>2, <3>3, SMTT(30)
  <2> QED
    BY <2>4, <2>5, <2>6
<1>15. Nat \subseteq T
  <2> HIDE DEF T
  <2> QED
    BY <1>13, <1>14, Induction
<1>16. L(Goal) <= d[N][Goal]
  BY <1>1, <1>11, <1>15
<1> QED
  BY <1>9, <1>10, <1>16 DEF G

\* The cells that cost less than one.
Below(c) == {n \in Cell : tree[n].g < tree[c].g}

\* A way of the tree has been followed after as many rounds as cells cost less.
LEMMA NoDearer ==
  ASSUME SetFacts, Costs, SmacPlan, NEW c \in Opened
  PROVE  Cheapest[c] <= tree[c].g
<1> DEFINE N == Cardinality(Cell)
<1>0. SmacNodes /\ Rooted
  BY DEF SmacPlan
<1>1. \A n \in Cell : tree[n].g \in Nat /\ tree[n].parent \in Cell
  BY <1>0, SmacTyped
<1>2. PICK d : Relaxations(d) /\ Cheapest = d[N]
  BY CheapestIsRelaxed
<1>3. N \in Nat
  BY CellsFinite
<1>4. \A n : /\ IsFiniteSet(Below(n)) /\ Cardinality(Below(n)) \in Nat /\ Cardinality(Below(n)) <= N
  <2>1. \A n : Below(n) \in SUBSET Cell
    BY DEF Below
  <2> QED
    BY <2>1, CellsFinite, FiniteSubset
<1> HIDE DEF N
<1>5. /\ d[0] = Unreached
      /\ \A k \in 0 .. N : d[k] \in [Cell -> Nat]
      /\ \A k \in 0 .. N : k # 0 => d[k] = Relax(d[k - 1])
  BY <1>2, Zenon DEF Relaxations, N
<1> DEFINE T == {k \in Nat : k <= N => d[k][Start] = 0 /\ \A n \in Opened : Cardinality(Below(n)) <= k => d[k][n] <= tree[n].g}
<1>6. ASSUME NEW n \in Opened, n # Start
      PROVE  /\ n \in Cell /\ ~Unsafe(costs[n])
             /\ \E p \in Opened : /\ p \in Around[n] /\ tree[n].g = tree[p].g + getTraversalCost(p, n)
                                  /\ Cardinality(Below(p)) < Cardinality(Below(n))
                                  /\ p \in Cell /\ tree[p].g < Infinity
  <2> DEFINE p == tree[n].parent
  <2>1. n \in Around[p] /\ p \in Visited /\ p \in Opened /\ ~Unsafe(costs[n]) /\ tree[n].g = tree[p].g + getTraversalCost(p, n)
    BY <1>0, <1>6 DEF Rooted
  <2> HIDE DEF p
  <2>2. p \in Cell /\ n \in Cell /\ p \in Around[n] /\ tree[p].g < Infinity
    BY <2>1, AroundFacts DEF Opened
  <2>3. getTraversalCost(p, n) \in Nat /\ getTraversalCost(p, n) >= travel(p, n) /\ travel(p, n) >= 100 /\ travel(p, n) \in Nat
    BY <2>2, TraversalCost, Zenon
  <2>4. tree[p].g < tree[n].g /\ tree[p].g \in Nat /\ tree[n].g \in Nat
    BY <1>1, <2>1, <2>2, <2>3
  <2>5. Below(p) \subseteq Below(n) /\ Below(p) # Below(n)
    <3>1. p \in Below(n) /\ p \notin Below(p)
      BY <2>2, <2>4 DEF Below
    <3>2. \A x \in Cell : tree[x].g < tree[p].g => tree[x].g < tree[n].g
      BY <1>1, <2>4
    <3> QED
      BY <3>1, <3>2 DEF Below
  <2>6. Cardinality(Below(p)) < Cardinality(Below(n))
    BY <1>4, <2>5, FiniteSubset
  <2> QED
    BY <2>1, <2>2, <2>6, Zenon
<1>7. 0 \in T
  <2>1. d[0][Start] = 0 /\ tree[Start].g = 0
    BY <1>0, <1>5, GridAssumption DEF Unreached, Rooted
  <2>2. ASSUME NEW n \in Opened, Cardinality(Below(n)) <= 0 PROVE n = Start
    <3> SUFFICES ASSUME n # Start PROVE FALSE
      OBVIOUS
    <3>1. PICK p \in Opened : Cardinality(Below(p)) < Cardinality(Below(n))
      BY <1>6
    <3> QED
      BY <1>4, <2>2, <3>1
  <2> QED
    BY <2>1, <2>2, SMTT(30)
<1>8. ASSUME NEW k \in Nat, k \in T PROVE k + 1 \in T
  <2>1. SUFFICES ASSUME k + 1 <= N
                 PROVE  /\ d[k + 1][Start] = 0
                        /\ \A n \in Opened : Cardinality(Below(n)) <= k + 1 => d[k + 1][n] <= tree[n].g
    OBVIOUS
  <2>2. k + 1 \in 0 .. N /\ k + 1 # 0 /\ (k + 1) - 1 = k /\ k <= N /\ k \in 0 .. N
    BY <1>3, <2>1
  <2>3. d[k] \in [Cell -> Nat] /\ d[k + 1] = Relax(d[k]) /\ d[k + 1] \in [Cell -> Nat]
    BY <1>5, <2>2
  <2>4. d[k][Start] = 0 /\ \A n \in Opened : Cardinality(Below(n)) <= k => d[k][n] <= tree[n].g
    BY <1>8, <2>2, Zenon
  <2>5. /\ \A n \in Cell : d[k + 1][n] <= d[k][n]
        /\ \A n \in Cell : ~Unsafe(costs[n]) =>
             \A x \in Around[n] : d[k][x] < Infinity => d[k + 1][n] <= d[k][x] + getTraversalCost(x, n)
    BY <2>3, RelaxFacts
  <2>6. d[k + 1][Start] = 0
    <3>1. Start \in Cell /\ d[k + 1][Start] \in Nat /\ d[k + 1][Start] <= 0
      BY <2>3, <2>4, <2>5, GridAssumption
    <3> QED
      BY <3>1, SMTT(30)
  <2>7. ASSUME NEW n \in Opened, Cardinality(Below(n)) <= k + 1 PROVE d[k + 1][n] <= tree[n].g
    <3>1. CASE n = Start
      BY <1>0, <2>6, <3>1 DEF Rooted
    <3>2. CASE n # Start
      <4>1. PICK p \in Opened : /\ p \in Around[n] /\ tree[n].g = tree[p].g + getTraversalCost(p, n)
                                /\ Cardinality(Below(p)) < Cardinality(Below(n))
                                /\ p \in Cell /\ tree[p].g < Infinity
        BY <1>6, <3>2, Zenon
      <4>2. n \in Cell /\ ~Unsafe(costs[n])
        BY <1>6, <3>2, Zenon
      <4>3. Cardinality(Below(p)) <= k
        BY <1>4, <2>7, <4>1, SMTT(30)
      <4>4. d[k][p] <= tree[p].g /\ d[k][p] \in Nat /\ tree[p].g \in Nat
        BY <1>1, <2>3, <2>4, <4>1, <4>3, Zenon
      <4>5. d[k][p] < Infinity
        BY <4>1, <4>4, InfinityFacts, SMTT(30)
      <4>6. d[k + 1][n] <= d[k][p] + getTraversalCost(p, n)
        BY <2>5, <4>1, <4>2, <4>5, Zenon
      <4>7. getTraversalCost(p, n) \in Nat /\ d[k + 1][n] \in Nat
        BY <2>3, <4>1, <4>2, TraversalCost
      <4> QED
        BY <4>1, <4>4, <4>6, <4>7, SMTT(30)
    <3> QED
      BY <3>1, <3>2, Zenon
  <2> QED
    BY <2>6, <2>7
<1>9. Nat \subseteq T
  <2> HIDE DEF T
  <2> QED
    BY <1>7, <1>8, Induction, SMTT(30)
<1>10. d[N][c] <= tree[c].g
  BY <1>3, <1>4, <1>9
<1> QED
  BY <1>2, <1>10

\* The references are functions of the costmap.
LEMMA SameCosts ==
  ASSUME UNCHANGED costs
  PROVE  Cheapest' = Cheapest /\ Reachable' = Reachable
<1>1. \A c : Unsafe(costs[c])' = Unsafe(costs[c])
  BY DEF Unsafe
<1>2. \A a, b : getTraversalCost(a, b)' = getTraversalCost(a, b)
  BY SameGrid
<1>3. \A R : Beyond(R)' = Beyond(R)
  BY <1>1, SameGrid, Zenon DEF Beyond
<1>4. ASSUME NEW d PROVE Relax(d)' = Relax(d)
  <2> DEFINE S(c) == {d[c]} \cup {d[n] + getTraversalCost(n, c) : n \in {n \in Around[c] : d[n] < Infinity}}
  <2>1. \A c : S(c)' = S(c)
    BY <1>2, SameGrid
  <2>2. \A Q : Least(Q)' = Least(Q)
    BY Zenon DEF Least
  <2>3. Relax(d) = [c \in Cell |-> IF Unsafe(costs[c]) THEN d[c] ELSE Least(S(c))]
    BY DEF Relax
  <2>4. Relax(d)' = [c \in Cell |-> IF Unsafe(costs[c])' THEN d[c] ELSE Least(S(c)')]
    BY DEF Relax, Least
  <2> HIDE DEF S
  <2>5. \A c \in Cell : (IF Unsafe(costs[c])' THEN d[c] ELSE Least(S(c)')) = (IF Unsafe(costs[c]) THEN d[c] ELSE Least(S(c)))
    BY <1>1, <2>1
  <2> QED
    BY <2>3, <2>4, <2>5
<1>5. Reachable' = Reachable
  <2> DEFINE P(r) == r = [k \in 0 .. Cardinality(Cell) |-> IF k = 0 THEN {Start} ELSE UNION {Beyond(R) : R \in {r[k - 1]}}]
  <2>1. \A r : P(r)' <=> P(r)
    BY <1>3
  <2>2. Reachable = (CHOOSE r : P(r))[Cardinality(Cell)]
    BY DEF Reachable
  <2>3. Reachable' = (CHOOSE r : P(r)')[Cardinality(Cell)]
    BY DEF Reachable
  <2> HIDE DEF P
  <2>4. (CHOOSE r : P(r)') = (CHOOSE r : P(r))
    BY <2>1, Zenon
  <2> QED
    BY <2>2, <2>3, <2>4, Zenon
<1>6. Cheapest' = Cheapest
  <2> DEFINE N == Cardinality(Cell)
             round(S) == CHOOSE r \in S : r \in [Cell -> Nat]
             start == [c \in Cell |-> IF c = Start THEN 0 ELSE Infinity]
             P(d) == d = [k \in 0 .. N |-> IF k = 0 THEN start ELSE round({Relax(e) : e \in {d[k - 1]}})]
  <2>1. \A x : {Relax(e) : e \in {x}}' = {Relax(e) : e \in {x}}
    BY <1>4
  <2>2. Cheapest = (CHOOSE d : P(d))[N]
    BY DEF Cheapest
  <2>3. Cheapest' = (CHOOSE d : P(d)')[N]
    BY DEF Cheapest
  <2>4. \A d : P(d)' <=> d = [k \in 0 .. N |-> IF k = 0 THEN start ELSE round({Relax(e) : e \in {d[k - 1]}}')]
    BY SameGrid DEF Infinity
  <2> HIDE DEF start, round, N
  <2>5. \A d : P(d)' <=> P(d)
    BY <2>1, <2>4, Zenon
  <2> HIDE DEF P
  <2>6. (CHOOSE d : P(d)') = (CHOOSE d : P(d))
    BY <2>5, Zenon
  <2> QED
    BY <2>2, <2>3, <2>6, Zenon
<1> QED
  BY <1>5, <1>6

\* A node that was reached and is not the start has a parent: its path is returned.
LEMMA ReturnsWay ==
  ASSUME SetFacts, Costs, SmacPlan, NEW c \in Opened \ {Start}, backtracePath(c),
         c = Goal \/ getHeuristicCost(c) < tolerance, UNCHANGED <<costs, tolerance>>
  PROVE  result' = "path" /\ PathIsSafe' /\ tree' = tree
<1>1. tree[c].parent # c
  <2>1. c \in Around[tree[c].parent] /\ tree[c].parent \in Cell
    BY DEF SmacPlan, Rooted, Visited
  <2> QED
    BY <2>1, AroundFacts, Zenon
<1>2. result' = "path" /\ path' = backtrace[c] /\ tree' = tree
  BY <1>1 DEF backtracePath, ReturnsPath
<1>3. Way(path', c)
  BY <1>2, WayBack
<1>4. path'[1] = Goal \/ Length(path'[1], Goal) < tolerance
  BY <1>3, SMTT(30) DEF Way, getHeuristicCost
<1>5. \A i \in 1 .. Len(path') - 1 : path'[i] \in Around[path'[i + 1]] /\ ~Unsafe(costs[path'[i]])
  BY <1>3 DEF Way
<1>6. \A a, b : Length(a, b)' = Length(a, b)
  BY SMTT(30) DEF Length, lengths, Square
<1>7. PathIsSafe'
  BY <1>3, <1>4, <1>5, <1>6, SameGrid, Zenon DEF PathIsSafe, Way, Unsafe
<1> QED
  BY <1>2, <1>7

\* When the queue is empty, what was reached is all that can be.
LEMMA EmptyQueue ==
  ASSUME SetFacts, Costs, SmacPlan, open = {}
  PROVE  Reachable \subseteq Opened /\ Goal \notin Opened
<1>0. SmacNodes /\ Rooted /\ Queue /\ Relaxed /\ Small
  BY DEF SmacPlan
<1>1. Opened \subseteq Visited
  BY <1>0, SMTT(30) DEF Queue, Waiting
<1>2. Opened \in SUBSET Cell /\ Start \in Opened /\ Goal \notin Opened
  BY <1>0, <1>1, Zenon DEF Rooted, Opened
<1>3. ASSUME NEW c \in Cell, ~Unsafe(costs[c]), NEW n \in Around[c], n \in Opened PROVE c \in Opened
  <2>1. n \in Cell /\ c \in Around[n] /\ n \in Visited
    BY <1>1, <1>3, AroundFacts, Zenon
  <2>2. tree[c].g <= tree[n].g + getTraversalCost(n, c) /\ getTraversalCost(n, c) <= 412 /\ getTraversalCost(n, c) \in Nat
    BY <1>0, <1>3, <2>1, TraversalCost, Zenon DEF Relaxed
  <2>3. tree[n].g \in Nat /\ tree[c].g \in Nat
    BY <1>0, <2>1, SmacTyped, SMTT(30)
  <2>4. tree[n].g <= 1000 * Cardinality(Opened) /\ Cardinality(Opened) <= Cardinality(Cell)
        /\ Cardinality(Opened) \in Nat /\ Cardinality(Cell) \in Nat
    <3>1. IsFiniteSet(Opened) /\ Cardinality(Opened) \in Nat /\ Cardinality(Opened) <= Cardinality(Cell) /\ Cardinality(Cell) \in Nat
      BY <1>2, CellsFinite, FiniteSubset, SMTT(30)
    <3> QED
      BY <1>0, <1>3, <3>1, Zenon DEF Small
  <2>5. tree[c].g < Infinity
    BY <2>2, <2>3, <2>4, SMTT(30) DEF Infinity
  <2> QED
    BY <2>5, Zenon DEF Opened
<1>4. \A c \in Cell : ~Unsafe(costs[c]) /\ Around[c] \cap Opened # {} => c \in Opened
  BY <1>3
<1> QED
  BY <1>2, <1>4, ReachableWithin

\* What the Smac planner promises when it returns.
Promises == PathIsSafe /\ PathIsCheapest /\ FailureMeansNoPath

\* The nearest node within tolerance is one that was reached.
LEMMA NearestIsReached ==
  ASSUME SetFacts, Given, SmacPlan, best.h < tolerance
  PROVE  best.at \in Opened \ {Start} /\ getHeuristicCost(best.at) < tolerance /\ tolerance # 0
<1>1. best.h \in Nat /\ (best.h = Infinity \/ (best.at \in Opened \ {Start} /\ best.h = getHeuristicCost(best.at)))
  BY DEF SmacPlan, Nearest
<1>2. best.h # Infinity /\ tolerance # 0
  BY <1>1, InfinityFacts DEF Given
<1> QED
  BY <1>1, <1>2

\* The path to the nearest node.
LEMMA NearestReturns ==
  ASSUME SetFacts, Given, SmacPlan, best.h < tolerance, backtracePath(best.at), UNCHANGED <<costs, tolerance>>
  PROVE  result' = "path" /\ Promises'
<1>1. best.at \in Opened \ {Start} /\ getHeuristicCost(best.at) < tolerance /\ tolerance # 0
  BY NearestIsReached
<1>2. result' = "path" /\ PathIsSafe'
  BY <1>1, ReturnsWay, SMTT(30) DEF Given
<1>3. PathIsCheapest'
  BY <1>1 DEF PathIsCheapest
<1>4. FailureMeansNoPath'
  BY <1>2 DEF FailureMeansNoPath
<1> QED
  BY <1>2, <1>3, <1>4 DEF Promises

\* The path to the goal.
LEMMA GoalReturns ==
  ASSUME SetFacts, Given, SmacPlan, NEW e, First(e), e.at = Goal, backtracePath(Goal), UNCHANGED <<costs, tolerance>>
  PROVE  result' = "path" /\ Promises'
<1>1. Goal \in Opened \ {Start} /\ Goal \in Cell /\ Costs
  BY FirstIsLeast, GridAssumption DEF Waiting, Given
<1>2. result' = "path" /\ PathIsSafe' /\ tree' = tree
  BY <1>1, ReturnsWay, SMTT(30)
<1>3. tree[Goal].g <= Cheapest[Goal] /\ Cheapest[Goal] <= tree[Goal].g
  BY <1>1, NoCheaper, NoDearer, SMTT(30)
<1>4. tree[Goal].g = Cheapest[Goal]
  <2>1. tree[Goal].g \in Nat
    BY <1>1, SmacTyped, SMTT(30) DEF SmacPlan
  <2>2. Cheapest[Goal] \in Nat
    <3>1. PICK d : Relaxations(d) /\ Cheapest = d[Cardinality(Cell)]
      BY <1>1, CheapestIsRelaxed
    <3>2. Cardinality(Cell) \in 0 .. Cardinality(Cell)
      BY CellsFinite, SMTT(30)
    <3>3. d[Cardinality(Cell)] \in [Cell -> Nat]
      BY <3>1, <3>2, SMTT(30) DEF Relaxations
    <3> QED
      BY <1>1, <3>1, <3>3
  <2> QED
    BY <1>3, <2>1, <2>2, SMTT(30)
<1>5. PathIsCheapest'
  BY <1>2, <1>4, SameCosts DEF PathIsCheapest
<1>6. FailureMeansNoPath'
  BY <1>2 DEF FailureMeansNoPath
<1> QED
  BY <1>2, <1>5, <1>6 DEF Promises

\* The loop ends without a path.
LEMMA FailureReturns ==
  ASSUME SetFacts, Given, SmacPlan, ~searching, ~(best.h < tolerance), UNCHANGED <<costs, tolerance, iterations>>, result' = "failed"
  PROVE  Promises'
<1>1. PathIsSafe' /\ PathIsCheapest'
  BY DEF PathIsSafe, PathIsCheapest
<1>2. ASSUME iterations < MaxIterations, NEW c \in Reachable \ {Start} PROVE c # Goal /\ Length(c, Goal) >= tolerance
  <2>1. open = {}
    BY <1>2 DEF searching
  <2>2. c \in Opened \ {Start} /\ c # Goal /\ c \in Cell
    BY <1>2, <2>1, EmptyQueue, SMTT(30) DEF Given, Opened
  <2>3. best.h \in Nat /\ best.h <= getHeuristicCost(c) /\ tolerance \in Nat
    BY <2>2 DEF SmacPlan, Nearest, Given
  <2>4. Length(c, Goal) \in Nat /\ Length(c, Goal) = getHeuristicCost(c)
    BY <2>2, LengthFacts, GridAssumption DEF getHeuristicCost
  <2> QED
    BY <2>2, <2>3, <2>4
<1>3. \A a, b : Length(a, b)' = Length(a, b)
  BY DEF Length, lengths, Square
<1>4. FailureMeansNoPath'
  BY <1>2, <1>3, SameCosts, Zenon DEF FailureMeansNoPath
<1> QED
  BY <1>1, <1>4, Zenon DEF Promises

\* One turn of the loop.
LEMMA LoopKeeps ==
  ASSUME SetFacts, Given, SmacPlan, createPath_loop
  PROVE  (result' = "planning" => SmacPlan') /\ Promises' /\ result' # "none"
<1>1. result = "planning" /\ UNCHANGED <<costs, tolerance>> /\ Costs
  BY Zenon DEF createPath_loop, Given
<1>2. ASSUME result' = "planning" PROVE Promises'
  BY <1>2 DEF Promises, PathIsSafe, PathIsCheapest, FailureMeansNoPath
<1>3. PICK e \in open :
        /\ \A other \in open : e.f <= other.f
        /\ \/ /\ tree[e.at].visited /\ open' = open \ {e} /\ UNCHANGED <<tree, result, best>>
           \/ /\ ~tree[e.at].visited
              /\ \/ e.at = Goal /\ backtracePath(Goal)
                 \/ best.h < tolerance /\ backtracePath(best.at)
                 \/ e.at # Goal /\ expand(e.at, open \ {e})
  BY Zenon DEF createPath_loop
<1>4. e.at \in Cell
  BY DEF SmacPlan, Queue, Opened
<1>5. CASE tree[e.at].visited /\ open' = open \ {e} /\ UNCHANGED <<tree, result, best>>
  <2>1. e.at \in Visited
    BY <1>4, <1>5, SMTT(30) DEF Visited
  <2>2. SmacPlan' /\ result' = "planning"
    BY <1>1, <1>5, <2>1, SkipKeepsPlan, SMTT(30)
  <2> QED
    BY <1>2, <2>2
<1>6. CASE ~tree[e.at].visited /\ e.at = Goal /\ backtracePath(Goal)
  <2>1. First(e)
    BY <1>3, <1>6 DEF First, Visited
  <2> QED
    BY <1>1, <1>6, <2>1, GoalReturns, Zenon
<1>7. CASE best.h < tolerance /\ backtracePath(best.at)
  BY <1>1, <1>7, NearestReturns
<1>8. CASE ~tree[e.at].visited /\ e.at # Goal /\ expand(e.at, open \ {e})
  <2>1. First(e)
    BY <1>3, <1>8 DEF First, Visited
  <2>2. result' = result
    BY <1>8, Zenon DEF expand
  <2>3. SmacPlan'
    BY <1>1, <1>8, <2>1, VisitKeepsPlan, SMTT(30)
  <2> QED
    BY <1>1, <1>2, <2>2, <2>3, Zenon
<1> QED
  BY <1>3, <1>5, <1>6, <1>7, <1>8, Zenon

===============================================================================
