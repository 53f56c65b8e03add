----------------------------- MODULE SearchProofs -----------------------------
(*****************************************************************************)
(* What holds of the three planners on every grid, for every costmap and     *)
(* every tolerance.                                                          *)
(*****************************************************************************)
EXTENDS MCSearch, AStarProofs, FiniteSetTheorems, TLAPS

\* The facts about numbers and finite sets that AStarProofs starts from.
LEMMA SetFactsHold == SetFacts
<1>1. ASSUME NEW T \in SUBSET Nat, T # {} PROVE \E m \in T : \A n \in T : m <= n
  <2> DEFINE R == OpToRel(<, Nat)
  <2>1. IsWellFoundedOn(R, Nat)
    BY NatLessThanWellFounded, Zenon
  <2>2. PICK m \in T : \A n \in T : ~(<<n, m>> \in R)
    <3> HIDE DEF R
    <3> QED
      BY <1>1, <2>1, WFMin, Zenon
  <2>3. \A n \in T : ~(n < m)
    BY <2>2, Zenon DEF OpToRel
  <2> QED
    BY <2>3
<1>2. \A k \in Nat : IsFiniteSet(0 .. k - 1)
  BY FS_Interval
<1>3. \A S, T : IsFiniteSet(S) /\ IsFiniteSet(T) => IsFiniteSet(S \X T)
  BY FS_Product, Zenon
<1>4. \A S : IsFiniteSet(S) => Cardinality(S) \in Nat
  BY FS_CardinalityType, Zenon
<1>5. ASSUME NEW S, IsFiniteSet(S), NEW T \in SUBSET S
      PROVE  IsFiniteSet(T) /\ Cardinality(T) <= Cardinality(S) /\ (Cardinality(T) = Cardinality(S) => T = S)
  BY <1>5, FS_Subset
<1>6. \A x : Cardinality({x}) = 1
  BY FS_Singleton, Zenon
<1> QED
  BY <1>1, <1>2, <1>3, <1>4, <1>5, <1>6, Zenon DEF SetFacts

\* Every lemma of AStarProofs may be cited.
USE SetFactsHold

\* What the planners are given, and may clear a cell of.
Base == Given /\ src \in Cell

-------------------------------------------------------------------------------
(* The Smac planner.                                                         *)

\* What it keeps: the plan while it searches, and what it promises when it returns.
SmacInv ==
  planner = "smac" =>
    /\ result = "none" => best = [h |-> Infinity, at |-> Start]
    /\ result = "planning" => SmacPlan
    /\ Promises

\* Every step of the Smac planner keeps it: createPath(), a turn of its loop, and its ends.
LEMMA SmacInvStep ==
  ASSUME Base, SmacInv, [Next]_vars
  PROVE  SmacInv'
<1> SUFFICES ASSUME planner' = "smac"
             PROVE  /\ result' = "none" => best' = [h |-> Infinity', at |-> Start]
                    /\ result' = "planning" => SmacPlan'
                    /\ Promises'
  BY DEF SmacInv
<1>0. ASSUME result' \notin {"path", "failed"} PROVE Promises'
  BY <1>0 DEF Promises, PathIsSafe, PathIsCheapest, FailureMeansNoPath
<1>6. Given
  BY DEF Base
<1>1. CASE planner = "smac" /\ createPath
  <2>1. result = "none" /\ result' \in {"occupied", "planning"}
    BY <1>1 DEF createPath, Returns
  <2>2. result' = "planning" => SmacPlan'
    BY <1>1, <1>6, <2>1, CreatePathStarts DEF SmacInv, Given
  <2> QED
    BY <1>0, <2>1, <2>2, SMTT(30)
<1>2. CASE planner = "smac" /\ createPath_loop
  <2>1. SmacPlan
    BY <1>2 DEF createPath_loop, SmacInv
  <2> QED
    BY <1>2, <1>6, <2>1, LoopKeeps, SMTT(30)
<1>3. CASE planner = "smac" /\ createPath_ends
  <2>1. SmacPlan /\ ~searching /\ UNCHANGED <<costs, tolerance, iterations>>
    BY <1>3 DEF createPath_ends, SmacInv
  <2>2. CASE best.h < tolerance
    <3>1. backtracePath(best.at)
      BY <1>3, <2>2 DEF createPath_ends
    <3> QED
      BY <1>6, <2>1, <2>2, <3>1, NearestReturns
  <2>3. CASE ~(best.h < tolerance)
    <3>1. result' = "failed"
      BY <1>3, <2>3 DEF createPath_ends, Returns
    <3> QED
      BY <1>6, <2>1, <2>3, <3>1, FailureReturns
  <2> QED
    BY <2>2, <2>3
<1>4. CASE planner = "smac" /\ createPath_stops
  <2>1. result' = "stopped"
    BY <1>4, SMTT(30) DEF createPath_stops, Returns
  <2> QED
    BY <1>0, <2>1
<1>5. CASE UNCHANGED vars
  <2>1. UNCHANGED <<costs, tolerance, tree, open, result, path, best, iterations, planner>>
    BY <1>5, SMTT(30) DEF vars, searchVars, astarVars
  <2>2. Opened' = Opened /\ Visited' = Visited /\ Waiting' = Waiting
    BY <2>1, SameGrid, SMTT(30) DEF Opened, Visited, Waiting
  <2>3. \A c : Whole(c)' = Whole(c) /\ Unsafe(costs[c])' = Unsafe(costs[c])
    BY <2>1, SameGrid, SMTT(30) DEF Whole, Unsafe
  <2>4. SmacNodes' = SmacNodes /\ Small' = Small /\ Queue' = Queue /\ Order' = Order
    BY <2>1, <2>2, <2>3, SameGrid, SMTT(30) DEF SmacNodes, Small, Queue, Order
  <2>5. Rooted' = Rooted /\ Relaxed' = Relaxed /\ Nearest' = Nearest
    BY <2>1, <2>2, <2>3, SameGrid, Zenon DEF Rooted, Relaxed, Nearest
  <2>6. SmacPlan' = SmacPlan
    BY <2>4, <2>5 DEF SmacPlan
  <2>7. \A a, b : Length(a, b)' = Length(a, b)
    BY SMTT(30) DEF Length, lengths, Square
  <2>8. PathIsSafe' = PathIsSafe
    BY <2>1, <2>3, <2>7, SameGrid, SMT, SMTT(30) DEF PathIsSafe, Unsafe
  <2>9. PathIsCheapest' = PathIsCheapest /\ FailureMeansNoPath' = FailureMeansNoPath
    BY <2>1, <2>7, SameCosts DEF PathIsCheapest, FailureMeansNoPath
  <2> QED
    BY <2>1, <2>6, <2>8, <2>9, SameGrid, Zenon DEF SmacInv, Promises
<1> QED
  BY <1>1, <1>2, <1>3, <1>4, <1>5, SMTT(30) DEF Next, AStarNext

\* A planner clears a cell of the costmap, and changes nothing else of its input.
LEMMA BaseStep ==
  ASSUME Base, [Next]_vars
  PROVE  Base'
<1>1. tolerance' = tolerance /\ src' \in {src, Start} /\ (costs' = costs \/ \E c \in Cell : costs' = [costs EXCEPT ![c] = Free])
  <2>1. CASE planner = "smac" /\ AStarNext /\ UNCHANGED thetaVars
    <3>1. CASE createPath
      BY <2>1, <3>1, GridAssumption DEF createPath, thetaVars
    <3>2. CASE createPath_loop \/ createPath_ends \/ createPath_stops
      BY <2>1, <3>2 DEF createPath_loop, createPath_ends, createPath_stops, thetaVars
    <3> QED
      BY <2>1, <3>1, <3>2, SMTT(30) DEF AStarNext
  <2>2. CASE planner = "theta" /\ ThetaNext
    <3>1. CASE generatePath
      BY <2>2, <3>1 DEF generatePath, Base, Given
    <3>2. CASE generatePath_loop \/ generatePath_fails \/ generatePath_stops
      BY <3>2 DEF generatePath_loop, generatePath_fails, generatePath_stops, thetaVars
    <3> QED
      BY <2>2, <3>1, <3>2 DEF ThetaNext
  <2>3. CASE planner = "navfn" /\ NavFnNext /\ UNCHANGED thetaVars
    <3>1. CASE makePlan
      BY <2>3, <3>1, GridAssumption DEF makePlan, thetaVars
    <3>2. CASE updateCell \/ propNavFn \/ propNavFn_stops
      BY <2>3, <3>2 DEF updateCell, propNavFn, propNavFn_stops, thetaVars
    <3> QED
      BY <2>3, <3>1, <3>2 DEF NavFnNext
  <2>4. CASE UNCHANGED vars
    BY <2>4 DEF vars, searchVars, thetaVars
  <2> QED
    BY <2>1, <2>2, <2>3, <2>4 DEF Next
<1>2. Costs'
  BY <1>1 DEF Base, Given, Costs, Free, Costly, Lethal
<1> QED
  BY <1>1, <1>2, SameGrid, GridAssumption, Zenon DEF Base, Given

\* The inductive invariant of the Smac planner.
THEOREM SmacInvariant == Spec => [](Base /\ SmacInv)
<1>1. Init => Base /\ SmacInv
  <2> SUFFICES ASSUME Init PROVE Base /\ SmacInv
    OBVIOUS
  <2>1. result = "none" /\ costs \in Costmaps /\ tolerance \in Tolerances /\ src \in Origins
        /\ best = [h |-> Infinity, at |-> Start]
    BY DEF Init, SearchInit, AStarInit, ThetaInit
  <2>2. Base
    BY <2>1, CostmapsAssumption, TolerancesAssumption, OriginsAssumption, InfinityFacts, SMTT(30) DEF Base, Given, Costs
  <2>3. SmacInv
    BY <2>1, Zenon DEF SmacInv, Promises, PathIsSafe, PathIsCheapest, FailureMeansNoPath
  <2> QED
    BY <2>2, <2>3
<1>2. Base /\ SmacInv /\ [Next]_vars => (Base /\ SmacInv)'
  BY BaseStep, SmacInvStep
<1> QED
  BY <1>1, <1>2, PTL DEF Spec

\* The path of createPath() is safe, and at the goal it is as cheap as any: that a node is
\* visited once loses nothing, as the heuristic is consistent on every grid.
THEOREM CheapestTheorem == Spec => []SmacIsCheapest
<1>1. SmacInv => SmacIsCheapest
  BY DEF SmacInv, Promises, SmacIsCheapest
<1> QED
  BY <1>1, SmacInvariant, PTL

-----------------------------------------------------------------------------
(* NavFn.                                                                  *)

\* The cells beside a cell, on the map.
Near(c) == {n \in Cell : \E i \in 1..4 : Beside(c)[i] = n}

\* Being beside one another.
LEMMA NearFacts ==
  ASSUME NEW c \in Cell
  PROVE  /\ c \notin Near(c)
         /\ \A n \in Near(c) : c \in Near(n)
         /\ \A i \in 1..4 : Beside(c)[i] \in Cell => Beside(c)[i] \in Near(c)
<1>1. c[1] \in Nat /\ c[2] \in Nat /\ c = <<c[1], c[2]>>
  BY Coordinates
<1>2. c \notin Near(c)
  BY <1>1 DEF Near, Beside
<1>3. ASSUME NEW n \in Near(c) PROVE c \in Near(n)
  <2>1. n[1] \in Nat /\ n[2] \in Nat
    BY Coordinates DEF Near
  <2>2. PICK i \in 1..4 : Beside(c)[i] = n
    BY DEF Near
  <2>3. CASE i = 1
    BY <1>1, <2>1, <2>2, <2>3 DEF Near, Beside
  <2>4. CASE i = 2
    BY <1>1, <2>1, <2>2, <2>4 DEF Near, Beside
  <2>5. CASE i = 3
    BY <1>1, <2>1, <2>2, <2>5 DEF Near, Beside
  <2>6. CASE i = 4
    BY <1>1, <2>1, <2>2, <2>6 DEF Near, Beside
  <2> QED
    BY <2>3, <2>4, <2>5, <2>6
<1> QED
  BY <1>2, <1>3 DEF Near

\* The costs that NavFn works with.
LEMMA CostarrRange ==
  ASSUME Costs, NEW c \in Cell
  PROVE  costarr(c) \in Nat /\ 5000 <= costarr(c) /\ costarr(c) <= 25400
<1>1. costs[c] \in {0, 240, 254}
  BY DEF Costs, Free, Costly, Lethal
<1>2. CASE costs[c] = 0
  <2>1. costarr(c) = 5000
    BY <1>2, SMT DEF costarr, COST_OBS, COST_NEUTRAL
  <2> QED
    BY <2>1, SMT
<1>3. CASE costs[c] = 240
  <2>1. costarr(c) = 24200
    BY <1>3, SMT DEF costarr, COST_OBS, COST_NEUTRAL
  <2> QED
    BY <2>1, SMT
<1>4. CASE costs[c] = 254
  <2>1. costarr(c) = 25400
    BY <1>4, SMT DEF costarr, COST_OBS, COST_NEUTRAL
  <2> QED
    BY <2>1, SMT
<1> QED
  BY <1>1, <1>2, <1>3, <1>4

\* The planar wave raises the potential, by no more than twice the cost.
LEMMA WaveRises ==
  ASSUME NEW low \in Nat, NEW dc \in Nat, NEW hf \in Nat, 5000 <= hf, hf <= 25400
  PROVE  planarWave(low, dc, hf) \in Nat /\ low < planarWave(low, dc, hf) /\ planarWave(low, dc, hf) <= low + 50800
<1>1. CASE dc >= hf
  <2>1. planarWave(low, dc, hf) = low + hf
    BY <1>1, SMT DEF planarWave
  <2> QED
    BY <2>1, SMT
<1>2. CASE dc < hf
  <2> DEFINE div == (1000 * dc) \div hf
             q == 230 * div * div
             k == 704 + (531 * div) \div 1000 - q \div 1000000
  <2>1. div \in Nat /\ div <= 999
    <3>1. div \in Int /\ hf * div <= 1000 * dc /\ 1000 * dc < hf * div + hf
      BY <1>2, Z3
    <3> HIDE DEF div
    <3>2. div >= 0
      <4> SUFFICES ASSUME div <= -1 PROVE FALSE
        BY <3>1
      <4>1. hf * div <= hf * (-1)
        BY <3>1, Z3
      <4> QED
        BY <1>2, <3>1, <4>1
    <3>3. div <= 999
      <4> SUFFICES ASSUME div >= 1000 PROVE FALSE
        BY <3>1
      <4>1. hf * div >= hf * 1000
        BY <3>1, Z3
      <4> QED
        BY <1>2, <3>1, <4>1
    <3> QED
      BY <3>1, <3>2, <3>3
  <2> HIDE DEF div
  <2>2. q \in Nat /\ q <= 229999999
    <3>1. div * div \in Nat /\ div * div <= 998001
      <4>1. div * div <= 999 * 999
        BY <2>1, Monotone
      <4>2. div * div \in Nat
        BY <2>1
      <4> QED
        BY <4>1, <4>2
    <3>2. 230 * div * div = 230 * (div * div)
      BY <2>1, Z3
    <3> QED
      BY <3>1, <3>2
  <2>3. (531 * div) \div 1000 \in Nat /\ (531 * div) \div 1000 <= 530
    BY <2>1
  <2> HIDE DEF q
  <2>4. q \div 1000000 \in Nat /\ q \div 1000000 <= 229
    BY <2>2, SMT
  <2>5. k \in Nat /\ 475 <= k /\ k <= 1234
    BY <2>3, <2>4
  <2>6. planarWave(low, dc, hf) = low + (hf * k) \div 1000
    BY <1>2 DEF planarWave, div, q
  <2> HIDE DEF k
  <2>7. hf * k \in Nat /\ hf * k >= 1000 /\ hf * k <= 25400 * 1234
    <3>1. hf * k >= hf * 475
      <4>1. hf \in Nat /\ k \in Nat /\ 475 <= k
        BY <2>5
      <4> QED
        BY <4>1, Monotone
    <3>2. hf * k <= hf * 1234
      <4>1. hf \in Nat /\ k \in Nat /\ k <= 1234
        BY <2>5
      <4> QED
        BY <4>1, Monotone
    <3>3. hf * k \in Int
      BY <2>5
    <3> QED
      BY <3>1, <3>2, <3>3
  <2>8. (hf * k) \div 1000 \in Nat /\ 1 <= (hf * k) \div 1000 /\ (hf * k) \div 1000 <= 50800
    <3> DEFINE r == hf * k
    <3> HIDE DEF r
    <3>1. r \in Nat /\ r >= 1000 /\ r <= 25400 * 1234
      BY <2>7 DEF r
    <3>2. r \div 1000 \in Nat /\ 1 <= r \div 1000 /\ r \div 1000 <= 50800
      BY <3>1
    <3> QED
      BY <3>2 DEF r
  <2> QED
    BY <2>6, <2>8
<1> QED
  BY <1>1, <1>2

\* The potentials spread so far.
Potentials == tree \in [Cell -> 0 .. POT_HIGH]

\* POT_HIGH is a number.
LEMMA PotHigh == POT_HIGH \in Nat /\ POT_HIGH = 1000000 * (Cardinality(Cell) + Width + Height)
  BY CellsFinite, GridAssumption DEF POT_HIGH

\* What a cell gets from those beside it is higher than one of them.
LEMMA WaveFacts ==
  ASSUME Costs, Potentials, NEW c \in Cell
  PROVE  /\ wave(c) \in Nat
         /\ wave(c) < POT_HIGH => \E n \in Near(c) : tree[n] < wave(c)
         /\ \A n \in Near(c) : wave(c) <= tree[n] + 50800
<1> DEFINE b == Beside(c)
           tc == Lower(potarr(b[1]), potarr(b[2]))
           ta == Lower(potarr(b[3]), potarr(b[4]))
           low == Lower(ta, tc)
           dc == IF ta < tc THEN tc - ta ELSE ta - tc
<1>1. \A i \in 1..4 : potarr(b[i]) \in Nat
  BY PotHigh DEF potarr, Potentials
<1>2. /\ tc \in Nat /\ ta \in Nat /\ low \in Nat
      /\ \A i \in 1..4 : low <= potarr(b[i])
      /\ \E i \in 1..4 : low = potarr(b[i])
  <2> DEFINE p1 == potarr(b[1])  p2 == potarr(b[2])  p3 == potarr(b[3])  p4 == potarr(b[4])
  <2>1. p1 \in Nat /\ p2 \in Nat /\ p3 \in Nat /\ p4 \in Nat
    BY <1>1
  <2>2. tc = Lower(p1, p2) /\ ta = Lower(p3, p4)
    OBVIOUS
  <2>3. \A i \in 1..4 : i = 1 \/ i = 2 \/ i = 3 \/ i = 4
    OBVIOUS
  <2> HIDE DEF p1, p2, p3, p4, tc, ta
  <2>4. /\ tc \in Nat /\ ta \in Nat /\ low \in Nat
        /\ low <= p1 /\ low <= p2 /\ low <= p3 /\ low <= p4
        /\ low = p1 \/ low = p2 \/ low = p3 \/ low = p4
    BY <2>1, <2>2 DEF Lower
  <2> HIDE DEF low, b
  <2> QED
    BY <2>3, <2>4 DEF p1, p2, p3, p4
<1>3. wave(c) = planarWave(low, dc, costarr(c))
  BY DEF wave
<1> HIDE DEF ta, tc, low
<1>4. dc \in Nat /\ costarr(c) \in Nat /\ 5000 <= costarr(c) /\ costarr(c) <= 25400
  BY <1>2, CostarrRange
<1> HIDE DEF dc, b
<1>5. wave(c) \in Nat /\ low < wave(c) /\ wave(c) <= low + 50800
  BY <1>2, <1>3, <1>4, WaveRises, SMT, SMTT(30)
<1>6. ASSUME wave(c) < POT_HIGH PROVE \E n \in Near(c) : tree[n] < wave(c)
  <2>1. PICK i \in 1..4 : low = potarr(b[i])
    BY <1>2
  <2>2. b[i] \in Cell /\ potarr(b[i]) = tree[b[i]]
    BY <1>2, <1>5, <1>6, <2>1, PotHigh DEF potarr
  <2>3. b[i] \in Near(c)
    BY <2>2, NearFacts DEF b
  <2> QED
    BY <1>5, <2>1, <2>2, <2>3
<1>7. ASSUME NEW n \in Near(c) PROVE wave(c) <= tree[n] + 50800
  <2>1. PICK i \in 1..4 : b[i] = n
    BY DEF Near, b
  <2>2. n \in Cell /\ potarr(b[i]) = tree[n] /\ tree[n] \in Nat
    BY <2>1 DEF Near, potarr, Potentials
  <2>3. low <= tree[n]
    BY <1>2, <2>2
  <2> QED
    BY <1>2, <1>5, <2>2, <2>3
<1> QED
  BY <1>5, <1>6, <1>7

\* A block of cells, none of them twice.
Block(b) == b \in Seq(Cell) /\ Cardinality(Range(b)) = Len(b)

\* A block holds finitely many cells.
LEMMA RangeFinite ==
  ASSUME NEW b \in Seq(Cell)
  PROVE  Range(b) \subseteq Cell /\ IsFiniteSet(Range(b)) /\ Cardinality(Range(b)) \in Nat
<1>1. Range(b) \in SUBSET Cell
  BY DEF Range
<1> QED
  BY <1>1, CellsFinite, FS_Subset, FS_CardinalityType

\* What push_next() makes of a block.
Pushed(b, block, n, S, other) ==
  /\ Block(b)
  /\ Range(block) \subseteq Range(b) /\ Range(b) \subseteq Range(block) \cup ({n} \cap S)
  /\ Cardinality(Cell) <= PRIORITYBUFSIZE /\ n \in S => n \in Range(b) \cup Range(other)

\* push() either puts the cell in the block, or had a reason not to.
LEMMA PushFacts ==
  ASSUME NEW block, Block(block), NEW n, NEW S \in SUBSET Cell, NEW other \in Seq(Cell)
  PROVE  Pushed(push(block, n, S, other), block, n, S, other)
<1> DEFINE b == push(block, n, S, other)
<1>1. block \in Seq(Cell) /\ Cardinality(Range(block)) = Len(block) /\ Len(block) \in Nat
  BY DEF Block
<1>2. IsFiniteSet(Range(block)) /\ Range(block) \subseteq Cell
  BY <1>1, RangeFinite
<1>3. CASE n \in S \ (Range(block) \cup Range(other)) /\ Len(block) < PRIORITYBUFSIZE
  <2>1. b = Append(block, n) /\ n \in Cell
    BY <1>3 DEF push
  <2>2. Append(block, n) \in Seq(Cell) /\ Len(Append(block, n)) = Len(block) + 1
    BY <1>1, <2>1
  <2>3. Range(Append(block, n)) = Range(block) \cup {n}
    BY <1>1, <2>1 DEF Range
  <2>4. Cardinality(Range(block) \cup {n}) = Len(block) + 1
    BY <1>1, <1>2, <1>3, FS_AddElement, Zenon
  <2> QED
    BY <1>3, <2>1, <2>2, <2>3, <2>4, Zenon DEF Block, Pushed
<1>4. CASE ~(n \in S \ (Range(block) \cup Range(other)) /\ Len(block) < PRIORITYBUFSIZE)
  <2>1. b = block
    BY <1>4 DEF push
  <2>2. ASSUME Cardinality(Cell) <= PRIORITYBUFSIZE, n \in S, n \notin Range(block) PROVE Len(block) < PRIORITYBUFSIZE
    <3>1. Cardinality(Range(block)) <= Cardinality(Cell) /\ Cardinality(Range(block)) # Cardinality(Cell)
      <4>1. Range(block) \in SUBSET Cell /\ Range(block) # Cell
        BY <1>2, <2>2
      <4> QED
        BY <4>1, CellsFinite, FS_Subset
    <3> QED
      BY <1>1, <2>2, <3>1, CellsFinite, BlockAssumption
  <2> QED
    BY <1>4, <2>1, <2>2 DEF Pushed
<1> QED
  BY <1>3, <1>4

\* Four pushes.
LEMMA PushAllFacts ==
  ASSUME NEW block, Block(block), NEW cells, NEW S \in SUBSET Cell, NEW other \in Seq(Cell)
  PROVE  LET b == pushAll(block, cells, S, other)
         IN  /\ Block(b)
             /\ Range(block) \subseteq Range(b)
             /\ Range(b) \subseteq Range(block) \cup ({cells[i] : i \in 1..4} \cap S)
             /\ Cardinality(Cell) <= PRIORITYBUFSIZE =>
                  \A i \in 1..4 : cells[i] \in S => cells[i] \in Range(b) \cup Range(other)
<1> DEFINE b1 == push(block, cells[1], S, other)
           b2 == push(b1, cells[2], S, other)
           b3 == push(b2, cells[3], S, other)
           b4 == push(b3, cells[4], S, other)
           Full == Cardinality(Cell) <= PRIORITYBUFSIZE
<1>1. Pushed(b1, block, cells[1], S, other) /\ Block(b1)
  <2>1. Pushed(b1, block, cells[1], S, other)
    BY PushFacts
  <2> QED
    BY <2>1 DEF Pushed
<1>2. Pushed(b2, b1, cells[2], S, other) /\ Block(b2)
  <2> HIDE DEF b1
  <2>1. Pushed(b2, b1, cells[2], S, other)
    BY <1>1, PushFacts
  <2> QED
    BY <2>1 DEF Pushed
<1>3. Pushed(b3, b2, cells[3], S, other) /\ Block(b3)
  <2> HIDE DEF b2
  <2>1. Pushed(b3, b2, cells[3], S, other)
    BY <1>2, PushFacts
  <2> QED
    BY <2>1 DEF Pushed
<1>4. Pushed(b4, b3, cells[4], S, other) /\ Block(b4)
  <2> HIDE DEF b3
  <2>1. Pushed(b4, b3, cells[4], S, other)
    BY <1>3, PushFacts
  <2> QED
    BY <2>1 DEF Pushed
<1> HIDE DEF b1, b2, b3, b4
<1>5. pushAll(block, cells, S, other) = b4
  BY DEF pushAll, b1, b2, b3, b4
<1>6. \A i \in 1..4 : i = 1 \/ i = 2 \/ i = 3 \/ i = 4
  OBVIOUS
<1>7. Block(b4) /\ Range(block) \subseteq Range(b4)
  BY <1>1, <1>2, <1>3, <1>4, Zenon DEF Pushed
<1>8. Range(b4) \subseteq Range(block) \cup ({cells[i] : i \in 1..4} \cap S)
  BY <1>1, <1>2, <1>3, <1>4 DEF Pushed
<1>9. ASSUME Full, NEW i \in 1..4, cells[i] \in S PROVE cells[i] \in Range(b4) \cup Range(other)
  BY <1>1, <1>2, <1>3, <1>4, <1>6, <1>9, Zenon DEF Pushed
<1> QED
  BY <1>5, <1>7, <1>8, <1>9, Zenon DEF Full

\* The cells that have a potential, and those that wait for one.
Spread == {c \in Cell : tree[c] < POT_HIGH}
Rest == {open.cur[i] : i \in open.at .. Len(open.cur)}
Queued == Rest \cup Range(open.next) \cup Range(open.over)

Blocks ==
  /\ open \in [cur : Seq(Cell), at : Nat \ {0}, next : Seq(Cell), over : Seq(Cell)]
  /\ Block(open.next) /\ Block(open.over)

\* Potentials lead down to the robot's cell.
Downhill == \A c \in Spread \ {Start} : \E n \in Near(c) : tree[n] < tree[c]

\* They stay far below POT_HIGH, as many cells as they have come across.
Low == \A c \in Spread : tree[c] <= 60000 * Cardinality(Spread)

\* Whoever waits is beside a cell with a potential, and if the blocks are large enough
\* whoever is beside one has a potential, waits or is an obstacle.
Front ==
  /\ \A c \in Queued : Near(c) \cap Spread # {}
  /\ Cardinality(Cell) <= PRIORITYBUFSIZE =>
       \A c \in Spread : \A n \in Near(c) : n \in Spread \cup Queued \/ costarr(n) = COST_OBS

NavPlan == Potentials /\ Blocks /\ Start \in Spread /\ Downhill /\ Low /\ Front

\* The cells with a potential are finitely many.
LEMMA SpreadFinite ==
  /\ Spread \in SUBSET Cell /\ IsFiniteSet(Spread)
  /\ Cardinality(Spread) \in Nat /\ Cardinality(Spread) <= Cardinality(Cell)
<1>1. Spread \in SUBSET Cell
  BY DEF Spread
<1> QED
  BY <1>1, CellsFinite, FS_Subset, FS_CardinalityType

\* Whoever waits will have a potential.
LEMMA WaveIsLow ==
  ASSUME Costs, NavPlan, NEW c \in Queued
  PROVE  /\ c \in Cell /\ wave(c) \in Nat /\ wave(c) <= 60000 * Cardinality(Spread) + 50800
         /\ wave(c) < POT_HIGH
         /\ \E n \in Near(c) : tree[n] < wave(c)
<1>1. c \in Cell
  BY DEF NavPlan, Blocks, Queued, Rest, Range
<1>2. PICK n \in Near(c) : n \in Spread
  BY DEF NavPlan, Front
<1>3. tree[n] \in Nat /\ tree[n] <= 60000 * Cardinality(Spread)
  BY <1>2, PotHigh DEF NavPlan, Low, Potentials, Spread
<1>4. Potentials
  BY DEF NavPlan
<1>5. wave(c) \in Nat /\ wave(c) <= tree[n] + 50800
  BY <1>1, <1>4, WaveFacts
<1>6. wave(c) <= 60000 * Cardinality(Spread) + 50800
  BY <1>3, <1>5, SpreadFinite
<1>7. Cardinality(Spread) >= 1
  <2>1. Spread # {}
    BY DEF NavPlan
  <2> QED
    BY <2>1, SpreadFinite, FS_EmptySet
<1>8. wave(c) < POT_HIGH
  BY <1>5, <1>6, <1>7, SpreadFinite, CellsFinite, PotHigh, GridAssumption, SMT, SMTT(30)
<1>9. \E k \in Near(c) : tree[k] < wave(c)
  BY <1>1, <1>4, <1>8, WaveFacts, SMT, SMTT(30)
<1> QED
  BY <1>1, <1>5, <1>6, <1>8, <1>9, SMT, SMTT(30)

\* The key of a cell, the distance to go included, is below POT_HIGH for those around.
LEMMA KeyIsLow ==
  ASSUME Costs, NavPlan, NEW c \in Queued, NEW n \in Cell,
         NEW key, key = wave(c) + (IF use_astar THEN 50 * Length(c, Goal) ELSE 0)
  PROVE  POT_HIGH > key + (707 * costarr(n)) \div 1000
<1>1. c \in Cell /\ wave(c) \in Nat /\ wave(c) <= 60000 * Cardinality(Spread) + 50800
  BY WaveIsLow
<1>2. Length(c, Goal) \in Nat /\ Length(c, Goal) <= 100 * (Width + Height)
  BY <1>1, LengthIsRoot, GridAssumption
<1>3. costarr(n) \in Nat /\ costarr(n) <= 25400
  BY CostarrRange
<1>4. (707 * costarr(n)) \div 1000 \in Nat /\ (707 * costarr(n)) \div 1000 <= 17958
  <2> DEFINE h == costarr(n)
  <2> HIDE DEF h
  <2>1. h \in Nat /\ h <= 25400
    BY <1>3 DEF h
  <2>2. (707 * h) \div 1000 \in Nat /\ (707 * h) \div 1000 <= 17958
    BY <2>1, SMT
  <2> QED
    BY <2>2 DEF h
<1>5. Cardinality(Spread) >= 1
  <2>1. Spread # {}
    BY DEF NavPlan
  <2> QED
    BY <2>1, SpreadFinite, FS_EmptySet
<1>6. key \in Nat /\ key <= 60000 * Cardinality(Spread) + 50800 + 5000 * (Width + Height)
  BY <1>1, <1>2, SpreadFinite, GridAssumption, SMT, SMTT(30)
<1> QED
  BY <1>4, <1>5, <1>6, SpreadFinite, CellsFinite, PotHigh, GridAssumption, SMT, SMTT(30)

\* What updateCell() does: the cell is taken, and gets a potential unless it has a lower
\* one; then those beside it that have none and are free wait for one.
LEMMA UpdateEffect ==
  ASSUME Costs, NavPlan, updateCell
  PROVE  \E c \in Queued :
           /\ Blocks'
           /\ Queued \subseteq Queued' \cup {c}
           /\ \/ tree' = tree /\ c \in Spread /\ Queued' \subseteq Queued
              \/ /\ tree' = [tree EXCEPT ![c] = wave(c)] /\ wave(c) < tree[c]
                 /\ Queued' \subseteq Queued \cup Near(c)
                 /\ Cardinality(Cell) <= PRIORITYBUFSIZE =>
                      \A n \in Near(c) : n \in Spread \cup Queued' \/ costarr(n) = COST_OBS
<1> DEFINE c == open.cur[open.at]
           key == wave(c) + (IF use_astar THEN 50 * Length(c, Goal) ELSE 0)
           higher == {n \in free : tree[n] > key + (707 * costarr(n)) \div 1000}
           done == [open EXCEPT !.at = @ + 1]
           full == Cardinality(Cell) <= PRIORITYBUFSIZE
<1>0. open.at <= Len(open.cur) /\ Costs'
  BY DEF updateCell, Costs
<1>1. Blocks /\ Potentials
  BY DEF NavPlan
<1>2. /\ open.cur \in Seq(Cell) /\ open.at \in Nat \ {0} /\ open.next \in Seq(Cell) /\ open.over \in Seq(Cell)
      /\ Block(open.next) /\ Block(open.over) /\ open.at \in 1 .. Len(open.cur) /\ Len(open.cur) \in Nat
  BY <1>0, <1>1, SMT, SMTT(30) DEF Blocks
<1>3. c \in Rest /\ c \in Queued /\ c \in Cell
  BY <1>2 DEF Rest, Queued
<1>4. done \in [cur : Seq(Cell), at : Nat \ {0}, next : Seq(Cell), over : Seq(Cell)] /\
      done.cur = open.cur /\ done.at = open.at + 1 /\ done.next = open.next /\ done.over = open.over
  BY <1>1 DEF Blocks
<1>5. higher \in SUBSET Cell
  BY Zenon DEF free
<1>6. ASSUME open'.cur = open.cur, open'.at = open.at + 1
      PROVE  Rest \subseteq Rest' \cup {c} /\ Rest' \subseteq Rest
  <2>1. \A i \in open.at .. Len(open.cur) : i = open.at \/ i \in open.at + 1 .. Len(open.cur)
    BY <1>2
  <2>2. \A i \in open.at + 1 .. Len(open.cur) : i \in open.at .. Len(open.cur)
    BY <1>2
  <2> QED
    BY <1>6, <2>1, <2>2, Zenon DEF Rest
<1>7. CASE wave(c) >= tree[c]
  <2>1. open' = done /\ tree' = tree
    BY <1>7 DEF updateCell
  <2>2. c \in Spread
    <3>1. wave(c) \in Nat /\ wave(c) < POT_HIGH
      BY <1>3, WaveIsLow
    <3>2. tree[c] \in Nat
      BY <1>1, <1>3, PotHigh DEF Potentials
    <3>3. tree[c] < POT_HIGH
      BY <1>7, <3>1, <3>2, PotHigh
    <3> QED
      BY <1>3, <3>3 DEF Spread
  <2>3. Blocks'
    BY <1>1, <1>4, <2>1 DEF Blocks
  <2>4. Queued \subseteq Queued' \cup {c} /\ Queued' \subseteq Queued
    BY <1>4, <1>6, <2>1 DEF Queued
  <2> QED
    BY <1>3, <2>1, <2>2, <2>3, <2>4, Zenon
<1>8. CASE wave(c) < tree[c]
  <2>1. /\ tree' = [tree EXCEPT ![c] = wave(c)]
        /\ \/ open' = [done EXCEPT !.next = pushAll(done.next, Beside(c), higher, open.over)]
           \/ open' = [done EXCEPT !.over = pushAll(done.over, Beside(c), higher, open.next)]
    <3>1. ~(wave(c) >= tree[c])
      BY <1>1, <1>3, <1>8, WaveIsLow, PotHigh, SMT, SMTT(30) DEF Potentials
    <3> QED
      BY <3>1, Zenon DEF updateCell
  <2>2. {Beside(c)[i] : i \in 1..4} \cap higher \subseteq Near(c)
    BY <1>5, SMT, SMTT(30) DEF Near
  <2>3. ASSUME NEW block, Block(block), NEW other \in Seq(Cell)
        PROVE  /\ Block(pushAll(block, Beside(c), higher, other))
               /\ Range(block) \subseteq Range(pushAll(block, Beside(c), higher, other))
               /\ Range(pushAll(block, Beside(c), higher, other)) \subseteq Range(block) \cup Near(c)
               /\ full => \A n \in Near(c) \cap higher :
                    n \in Range(pushAll(block, Beside(c), higher, other)) \cup Range(other)
    <3> DEFINE S == higher  B == Beside(c)
    <3>1. S \in SUBSET Cell /\ {B[i] : i \in 1..4} \cap S \subseteq Near(c)
      BY <1>5, <2>2, Zenon
    <3>2. \A n \in Near(c) : \E i \in 1..4 : B[i] = n
      BY DEF Near
    <3> HIDE DEF S, B, full
    <3> DEFINE b == pushAll(block, B, S, other)
    <3>3. /\ Block(b) /\ Range(block) \subseteq Range(b)
          /\ Range(b) \subseteq Range(block) \cup ({B[i] : i \in 1..4} \cap S)
          /\ full => \A i \in 1..4 : B[i] \in S => B[i] \in Range(b) \cup Range(other)
      BY <2>3, <3>1, PushAllFacts, Zenon DEF full
    <3> HIDE DEF b
    <3>4. Range(b) \subseteq Range(block) \cup Near(c)
      BY <3>1, <3>3, Zenon
    <3>5. full => \A n \in Near(c) \cap S : n \in Range(b) \cup Range(other)
      BY <3>2, <3>3
    <3> QED
      BY <3>3, <3>4, <3>5, Zenon DEF b, S, B
  <2>4. \A n \in Near(c) : n \in Spread \/ costarr(n) = COST_OBS \/ n \in higher
    <3> SUFFICES ASSUME NEW n \in Near(c), n \notin Spread, costarr(n) # COST_OBS PROVE n \in higher
      OBVIOUS
    <3>1. n \in Cell /\ tree[n] = POT_HIGH
      <4>1. n \in Cell /\ tree[n] \in 0 .. POT_HIGH
        BY <1>1 DEF Near, Potentials
      <4> QED
        BY <4>1, PotHigh DEF Spread
    <3>2. n \in free
      BY <3>1, CostarrRange, SMT, SMTT(30) DEF free, COST_OBS
    <3>3. POT_HIGH > key + (707 * costarr(n)) \div 1000
      BY <1>3, <3>1, KeyIsLow
    <3> HIDE DEF key, c
    <3> QED
      BY <3>1, <3>2, <3>3, SMT, SMTT(30)
  <2> HIDE DEF higher, c, full
  <2>5. CASE open' = [done EXCEPT !.next = pushAll(done.next, Beside(c), higher, open.over)]
    <3> DEFINE b == pushAll(open.next, Beside(c), higher, open.over)
    <3>1. /\ Block(b) /\ Range(open.next) \subseteq Range(b) /\ Range(b) \subseteq Range(open.next) \cup Near(c)
          /\ full => \A n \in Near(c) \cap higher : n \in Range(b) \cup Range(open.over)
      BY <1>2, <2>3
    <3>2. open' = [done EXCEPT !.next = b]
      BY <1>4, <2>5
    <3> HIDE DEF b, done
    <3>3. /\ open' \in [cur : Seq(Cell), at : Nat \ {0}, next : Seq(Cell), over : Seq(Cell)]
          /\ open'.cur = open.cur /\ open'.at = open.at + 1 /\ open'.next = b /\ open'.over = open.over
      BY <1>4, <3>1, <3>2, Zenon DEF Block
    <3>4. Blocks'
      BY <1>2, <3>1, <3>3 DEF Blocks
    <3>5. Rest \subseteq Rest' \cup {c} /\ Rest' \subseteq Rest
      BY <1>6, <3>3
    <3>6. Queued \subseteq Queued' \cup {c} /\ Queued' \subseteq Queued \cup Near(c)
      BY <3>1, <3>3, <3>5, Zenon DEF Queued
    <3>7. full => \A n \in Near(c) : n \in Spread \cup Queued' \/ costarr(n) = COST_OBS
      BY <2>4, <3>1, <3>3, Zenon DEF Queued
    <3> QED
      BY <1>3, <1>8, <2>1, <3>4, <3>6, <3>7, Zenon DEF full
  <2>6. CASE open' = [done EXCEPT !.over = pushAll(done.over, Beside(c), higher, open.next)]
    <3> DEFINE b == pushAll(open.over, Beside(c), higher, open.next)
    <3>1. /\ Block(b) /\ Range(open.over) \subseteq Range(b) /\ Range(b) \subseteq Range(open.over) \cup Near(c)
          /\ full => \A n \in Near(c) \cap higher : n \in Range(b) \cup Range(open.next)
      BY <1>2, <2>3
    <3>2. open' = [done EXCEPT !.over = b]
      BY <1>4, <2>6
    <3> HIDE DEF b, done
    <3>3. /\ open' \in [cur : Seq(Cell), at : Nat \ {0}, next : Seq(Cell), over : Seq(Cell)]
          /\ open'.cur = open.cur /\ open'.at = open.at + 1 /\ open'.next = open.next /\ open'.over = b
      BY <1>4, <3>1, <3>2, Zenon DEF Block
    <3>4. Blocks'
      BY <1>2, <3>1, <3>3 DEF Blocks
    <3>5. Rest \subseteq Rest' \cup {c} /\ Rest' \subseteq Rest
      BY <1>6, <3>3, Zenon
    <3>6. Queued \subseteq Queued' \cup {c} /\ Queued' \subseteq Queued \cup Near(c)
      BY <3>1, <3>3, <3>5, Zenon DEF Queued
    <3>7. full => \A n \in Near(c) : n \in Spread \cup Queued' \/ costarr(n) = COST_OBS
      BY <2>4, <3>1, <3>3, Zenon DEF Queued
    <3> QED
      BY <1>3, <1>8, <2>1, <3>4, <3>6, <3>7, Zenon DEF full
  <2> QED
    BY <2>1, <2>5, <2>6, Zenon
<1>9. wave(c) >= tree[c] \/ wave(c) < tree[c]
  BY <1>1, <1>3, WaveIsLow, PotHigh, SMT, SMTT(30) DEF Potentials
<1> QED
  BY <1>7, <1>8, <1>9, Zenon

\* updateCell() keeps the invariant: a new potential is above one beside it, and whoever
\* had one below it keeps it, as potentials only fall.
LEMMA UpdateKeepsPlan ==
  ASSUME Costs, NavPlan, updateCell
  PROVE  NavPlan'
<1>1. PICK c \in Queued :
        /\ Blocks'
        /\ Queued \subseteq Queued' \cup {c}
        /\ \/ tree' = tree /\ c \in Spread /\ Queued' \subseteq Queued
           \/ /\ tree' = [tree EXCEPT ![c] = wave(c)] /\ wave(c) < tree[c]
              /\ Queued' \subseteq Queued \cup Near(c)
              /\ Cardinality(Cell) <= PRIORITYBUFSIZE =>
                   \A n \in Near(c) : n \in Spread \cup Queued' \/ costarr(n) = COST_OBS
  BY UpdateEffect
<1>2. costs' = costs
  BY DEF updateCell
<1>3. \A n \in Cell : costarr(n)' = costarr(n)
  BY <1>2 DEF costarr
<1>4. \A n : Near(n)' = Near(n)
  BY DEF Near, Beside
<1>5. /\ c \in Cell /\ wave(c) \in Nat /\ wave(c) < POT_HIGH
      /\ wave(c) <= 60000 * Cardinality(Spread) + 50800
  BY WaveIsLow
<1>6. Potentials /\ Start \in Spread /\ Downhill /\ Low /\ Front
  BY DEF NavPlan
<1>7. CASE tree' = tree /\ c \in Spread /\ Queued' \subseteq Queued
  <2>1. Spread' = Spread
    BY <1>7 DEF Spread, POT_HIGH
  <2>2. Front'
    BY <1>1, <1>3, <1>4, <1>6, <1>7, <2>1, SMT, SMTT(30) DEF Front, Near
  <2>3. Potentials' /\ Downhill' /\ Low'
    BY <1>4, <1>6, <1>7, <2>1 DEF Potentials, Downhill, Low, POT_HIGH
  <2> QED
    BY <1>1, <1>6, <2>1, <2>2, <2>3, Zenon DEF NavPlan
<1>8. CASE /\ tree' = [tree EXCEPT ![c] = wave(c)] /\ wave(c) < tree[c]
           /\ Queued' \subseteq Queued \cup Near(c)
           /\ Cardinality(Cell) <= PRIORITYBUFSIZE =>
                \A n \in Near(c) : n \in Spread \cup Queued' \/ costarr(n) = COST_OBS
  <2>1. /\ tree \in [Cell -> 0 .. POT_HIGH] /\ POT_HIGH \in Nat
        /\ \A n \in Cell : tree[n] \in Nat /\ tree'[n] \in Nat /\ tree'[n] <= tree[n]
        /\ tree'[c] = wave(c) /\ \A n \in Cell \ {c} : tree'[n] = tree[n]
    <3>1. tree \in [Cell -> 0 .. POT_HIGH] /\ POT_HIGH \in Nat
      BY <1>6, PotHigh DEF Potentials
    <3>2. \A n \in Cell : tree[n] \in Nat
      BY <3>1
    <3> QED
      BY <1>5, <1>8, <3>1, <3>2
  <2>2. Potentials'
    <3>1. wave(c) \in 0 .. POT_HIGH
      BY <1>5, <2>1
    <3>2. tree' \in [Cell -> 0 .. POT_HIGH]
      BY <1>8, <2>1, <3>1
    <3> QED
      BY <3>2 DEF Potentials, POT_HIGH
  <2>3. Spread' = Spread \cup {c}
    <3>1. Spread' = {n \in Cell : tree'[n] < POT_HIGH}
      BY DEF Spread, POT_HIGH
    <3> QED
      BY <1>5, <2>1, <3>1 DEF Spread
  <2>4. /\ Cardinality(Spread) \in Nat /\ Cardinality(Spread') \in Nat
        /\ Cardinality(Spread) <= Cardinality(Spread')
        /\ c \notin Spread => Cardinality(Spread') = Cardinality(Spread) + 1
    <3>1. IsFiniteSet(Spread) /\ Cardinality(Spread) \in Nat
      BY SpreadFinite
    <3>2. Cardinality(Spread') = IF c \in Spread THEN Cardinality(Spread) ELSE Cardinality(Spread) + 1
      BY <2>3, <3>1, FS_AddElement
    <3> QED
      BY <3>1, <3>2
  <2>5. Downhill'
    <3>1. SUFFICES ASSUME NEW n \in Spread', n # Start
                   PROVE  \E k \in Near(n) : tree'[k] < tree'[n]
      BY <1>4 DEF Downhill
    <3>2. CASE n = c
      <4>1. PICK k \in Near(c) : tree[k] < wave(c)
        BY WaveIsLow
      <4>2. k \in Cell
        BY <4>1 DEF Near
      <4>3. tree'[k] < tree'[c]
        BY <1>5, <2>1, <4>1, <4>2
      <4> QED
        BY <3>2, <4>3
    <3>3. CASE n # c
      <4>1. n \in Spread
        BY <2>3, <3>3
      <4>2. PICK k \in Near(n) : tree[k] < tree[n]
        BY <1>6, <3>1, <4>1, Zenon DEF Downhill
      <4>3. k \in Cell /\ n \in Cell
        BY <4>1 DEF Near, Spread
      <4>4. tree'[k] < tree'[n]
        BY <2>1, <3>3, <4>2, <4>3
      <4> QED
        BY <4>4
    <3> QED
      BY <3>2, <3>3
  <2>6. Low'
    <3>1. SUFFICES ASSUME NEW n \in Spread' PROVE tree'[n] <= 60000 * Cardinality(Spread')
      BY DEF Low
    <3>2. CASE n \in Spread
      <4>1. tree[n] <= 60000 * Cardinality(Spread) /\ n \in Cell
        BY <1>6, <3>2 DEF Low, Spread
      <4> QED
        BY <2>1, <2>4, <4>1, SMT, SMTT(30)
    <3>3. CASE n \notin Spread
      <4>1. n = c
        BY <2>3, <3>3
      <4> QED
        BY <1>5, <2>1, <2>4, <3>3, <4>1, SMT, SMTT(30)
    <3> QED
      BY <3>2, <3>3
  <2>7. Front'
    <3>1. \A n \in Queued' : Near(n) \cap Spread' # {}
      <4> SUFFICES ASSUME NEW n \in Queued' PROVE Near(n) \cap Spread' # {}
        OBVIOUS
      <4>1. CASE n \in Queued
        BY <1>6, <2>3, <4>1, Zenon DEF Front
      <4>2. CASE n \in Near(c)
        BY <1>5, <2>3, <4>2, NearFacts
      <4> QED
        BY <1>8, <4>1, <4>2
    <3>2. Cardinality(Cell) <= PRIORITYBUFSIZE =>
            \A k \in Spread' : \A n \in Near(k) : n \in Spread' \cup Queued' \/ costarr(n) = COST_OBS
      BY <1>1, <1>6, <1>8, <2>3, Zenon DEF Front
    <3>3. \A k \in Spread' : \A n \in Near(k) : n \in Cell
      BY DEF Near
    <3> QED
      BY <1>3, <1>4, <3>1, <3>2, <3>3, SMT, SMTT(30) DEF Front, COST_OBS
  <2>8. (Start \in Spread)'
    BY <1>6, <2>3
  <2> QED
    BY <1>1, <2>2, <2>5, <2>6, <2>7, <2>8, Zenon DEF NavPlan
<1> QED
  BY <1>1, <1>7, <1>8, Zenon

\* An empty block.
LEMMA EmptyBlock == Block(<<>>) /\ Range(<<>>) = {}
<1>1. DOMAIN <<>> = {}
  OBVIOUS
<1>2. Range(<<>>) = {}
  BY <1>1 DEF Range
<1>3. <<>> \in Seq(Cell) /\ Len(<<>>) = 0
  OBVIOUS
<1> QED
  BY <1>2, <1>3, FS_EmptySet DEF Block

\* The end of a cycle only moves the cells that wait from one block to another.
LEMMA SwapKeepsPlan ==
  ASSUME Costs, NavPlan, open.at > Len(open.cur), open' = swapped(open), UNCHANGED <<costs, tree>>
  PROVE  /\ NavPlan'
         /\ open'.cur = <<>> => Queued = {}
<1>1. /\ open.cur \in Seq(Cell) /\ open.at \in Nat \ {0} /\ open.next \in Seq(Cell) /\ open.over \in Seq(Cell)
      /\ Block(open.next) /\ Block(open.over) /\ Len(open.cur) \in Nat
      /\ open \in [cur : Seq(Cell), at : Nat \ {0}, next : Seq(Cell), over : Seq(Cell)]
  BY DEF NavPlan, Blocks
<1>2. Rest = {}
  BY <1>1 DEF Rest
<1>3. Block(<<>>) /\ Range(<<>>) = {}
  BY EmptyBlock
<1>4. \A s \in Seq(Cell) : {s[i] : i \in 1 .. Len(s)} = Range(s)
  BY DEF Range
<1>7. Potentials' /\ Start \in Spread' /\ Downhill' /\ Low' /\ (Queued' = Queued => Front')
  <2>1. Spread' = Spread /\ Potentials' = Potentials
    BY DEF Spread, Potentials, POT_HIGH
  <2>2. \A n : Near(n)' = Near(n)
    BY DEF Near, Beside
  <2>3. \A n : costarr(n)' = costarr(n)
    BY DEF costarr
  <2>4. Low' = Low
    BY <2>1 DEF Low
  <2>5. Downhill' = Downhill
    BY <2>1, <2>2 DEF Downhill
  <2>6. Queued' = Queued => Front' = Front
    BY <2>1, <2>2, <2>3 DEF Front, COST_OBS
  <2> QED
    BY <2>1, <2>4, <2>5, <2>6, Zenon DEF NavPlan
<1>5. CASE open.next # <<>>
  <2>1. /\ open' \in [cur : Seq(Cell), at : Nat \ {0}, next : Seq(Cell), over : Seq(Cell)]
        /\ open'.cur = open.next /\ open'.at = 1 /\ open'.next = <<>> /\ open'.over = open.over
    <3>1. open' = [open EXCEPT !.cur = open.next, !.at = 1, !.next = <<>>]
      BY <1>5 DEF swapped
    <3>2. <<>> \in Seq(Cell) /\ 1 \in Nat \ {0}
      OBVIOUS
    <3> DEFINE none == <<>>
    <3> HIDE DEF none
    <3>3. open' = [open EXCEPT !.cur = open.next, !.at = 1, !.next = none] /\ none \in Seq(Cell)
      BY <3>1, <3>2 DEF none
    <3>4. /\ open' \in [cur : Seq(Cell), at : Nat \ {0}, next : Seq(Cell), over : Seq(Cell)]
          /\ open'.cur = open.next /\ open'.at = 1 /\ open'.next = none /\ open'.over = open.over
      BY <1>1, <3>2, <3>3, Zenon
    <3> QED
      BY <3>4 DEF none
  <2>2. Blocks'
    BY <1>1, <1>3, <2>1, Zenon DEF Blocks
  <2>3. Rest' = Range(open.next)
    BY <1>1, <1>4, <2>1 DEF Rest
  <2>4. Queued' = Queued
    BY <1>2, <1>3, <2>1, <2>3, Zenon DEF Queued
  <2> QED
    BY <1>5, <1>7, <2>1, <2>2, <2>4, Zenon DEF NavPlan
<1>6. CASE open.next = <<>>
  <2>1. /\ open' \in [cur : Seq(Cell), at : Nat \ {0}, next : Seq(Cell), over : Seq(Cell)]
        /\ open'.cur = open.over /\ open'.at = 1 /\ open'.next = <<>> /\ open'.over = <<>>
    <3>1. open' = [open EXCEPT !.cur = open.over, !.at = 1, !.over = <<>>]
      BY <1>6 DEF swapped
    <3>2. <<>> \in Seq(Cell) /\ 1 \in Nat \ {0}
      OBVIOUS
    <3> DEFINE none == <<>>
    <3> HIDE DEF none
    <3>3. open' = [open EXCEPT !.cur = open.over, !.at = 1, !.over = none] /\ none \in Seq(Cell)
      BY <3>1, <3>2 DEF none
    <3>4. /\ open' \in [cur : Seq(Cell), at : Nat \ {0}, next : Seq(Cell), over : Seq(Cell)]
          /\ open'.cur = open.over /\ open'.at = 1 /\ open'.over = none /\ open'.next = open.next
      BY <1>1, <3>2, <3>3, Zenon
    <3> QED
      BY <1>6, <3>4 DEF none
  <2>2. Blocks'
    BY <1>1, <1>3, <2>1, Zenon DEF Blocks
  <2>3. Rest' = Range(open.over)
    BY <1>1, <1>4, <2>1 DEF Rest
  <2>4. Queued' = Queued
    BY <1>2, <1>3, <1>6, <2>1, <2>3, Zenon DEF Queued
  <2>5. open'.cur = <<>> => Queued = {}
    BY <1>2, <1>3, <1>6, <2>1, Zenon DEF Queued
  <2> QED
    BY <1>7, <2>2, <2>4, <2>5, Zenon DEF NavPlan
<1> QED
  BY <1>5, <1>6, Zenon

\* The limits do not change.
LEMMA SamePotHigh == POT_HIGH' = POT_HIGH /\ cycles' = cycles /\ COST_OBS' = COST_OBS
BY SMT DEF POT_HIGH, cycles, COST_OBS

\* setupNavFn() and initCost(): the robot's cell has a potential, those beside it wait.
LEMMA MakePlanStarts ==
  ASSUME Costs, makePlan, result' = "planning"
  PROVE  NavPlan'
<1> DEFINE b == Beside(Start)
           cells == <<b[2], b[1], b[3], b[4]>>
           cur == pushAll(<<>>, cells, free, <<>>)
<1>1. /\ costs' = [costs EXCEPT ![Start] = Free]
      /\ tree' = [c \in Cell |-> IF c = Start THEN 0 ELSE POT_HIGH]
      /\ open' = [cur |-> cur, at |-> 1, next |-> <<>>, over |-> <<>>]
  BY DEF makePlan, Returns
<1>2. Start \in Cell /\ POT_HIGH \in Nat /\ POT_HIGH > 0
  BY GridAssumption, CellsFinite, PotHigh, SMT
<1>3. Potentials' /\ Spread' = {Start}
  <2>1. tree' \in [Cell -> 0 .. POT_HIGH]
    BY <1>1, <1>2
  <2>2. \A c \in Cell : tree'[c] < POT_HIGH <=> c = Start
    BY <1>1, <1>2
  <2> QED
    BY <1>2, <2>1, <2>2, SamePotHigh, Zenon DEF Potentials, Spread
<1>4. free \in SUBSET Cell /\ \A n \in Near(Start) : \E i \in 1..4 : cells[i] = n
  BY DEF free, Near
<1>5. \A i \in 1..4 : cells[i] \in Cell => cells[i] \in Near(Start)
  BY DEF Near
<1> HIDE DEF cells
<1>6. /\ Block(cur) /\ Range(cur) \subseteq Range(<<>>) \cup ({cells[i] : i \in 1..4} \cap free)
      /\ Cardinality(Cell) <= PRIORITYBUFSIZE =>
           \A i \in 1..4 : cells[i] \in free => cells[i] \in Range(cur) \cup Range(<<>>)
  <2>1. <<>> \in Seq(Cell) /\ Block(<<>>)
    BY EmptyBlock, Zenon DEF Block
  <2> QED
    BY <1>4, <2>1, PushAllFacts, Zenon
<1> HIDE DEF cur
<1>7. /\ open' \in [cur : Seq(Cell), at : Nat \ {0}, next : Seq(Cell), over : Seq(Cell)]
      /\ open'.cur = cur /\ open'.at = 1 /\ open'.next = <<>> /\ open'.over = <<>> /\ cur \in Seq(Cell)
  BY <1>1, <1>6 DEF Block
<1>8. Blocks'
  BY <1>7, EmptyBlock DEF Blocks
<1>9. Queued' = Range(cur)
  <2>1. Rest' = Range(cur)
    BY <1>7 DEF Rest, Range
  <2> QED
    BY <1>7, <2>1, EmptyBlock, Zenon DEF Queued
<1>10. \A n : Near(n)' = Near(n)
  BY DEF Near, Beside
<1>11. Front'
  <2>1. \A n \in Queued' : Near(n) \cap Spread' # {}
    BY <1>2, <1>3, <1>4, <1>5, <1>6, <1>9, NearFacts, EmptyBlock, SMT, SMTT(30)
  <2>2. \A n \in Near(Start) : costarr(n)' = costarr(n)
    <3>1. \A n \in Near(Start) : n \in Cell /\ n # Start
      BY <1>2, NearFacts DEF Near
    <3> QED
      BY <1>1, <3>1 DEF costarr, Costs
  <2>3. \A n \in Near(Start) : n \in free \/ costarr(n) = COST_OBS
    <3>1. \A n \in Near(Start) : costarr(n) = COST_OBS \/ costarr(n) < COST_OBS
      BY CostarrRange, SMT DEF COST_OBS, Near
    <3> QED
      BY <3>1 DEF free, Near
  <2>4. Cardinality(Cell) <= PRIORITYBUFSIZE =>
          \A n \in Near(Start) : n \in Queued' \/ costarr(n)' = COST_OBS
    BY <1>4, <1>6, <1>9, <2>2, <2>3, EmptyBlock, Zenon
  <2> QED
    BY <1>3, <1>10, <2>1, <2>4, SamePotHigh, Zenon DEF Front
<1>12. Downhill'
  BY <1>3 DEF Downhill
<1>13. Low'
  <2>1. Cardinality({Start}) = 1 /\ tree'[Start] = 0
    BY <1>1, <1>2, FS_Singleton, Zenon
  <2> QED
    BY <1>3, <2>1 DEF Low
<1> QED
  BY <1>3, <1>8, <1>11, <1>12, <1>13, Zenon DEF NavPlan

\* What NavFn keeps: the plan while it spreads, and what it promises when it returns.
NavInv ==
  planner = "navfn" =>
    /\ result = "planning" => NavPlan
    /\ result = "path" => Downhill
    /\ FailureIsExhaustive

\* The last cycle.
LEMMA PropKeeps ==
  ASSUME Base, NavPlan, propNavFn
  PROVE  /\ result' = "planning" => NavPlan'
         /\ result' = "path" => Downhill'
         /\ FailureIsExhaustive'
<1>1. open.at > Len(open.cur) /\ open' = swapped(open) /\ UNCHANGED <<costs, tree, tolerance>>
  BY DEF propNavFn
<1>2. NavPlan' /\ (open'.cur = <<>> => Queued = {})
  BY <1>1, SwapKeepsPlan DEF Base, Given
<1>3. FailureIsExhaustive'
  <2>1. SUFFICES ASSUME result' = "failed", cycle' < cycles, Cardinality(Cell) <= PRIORITYBUFSIZE,
                        NEW c \in Cell, tree[c] < POT_HIGH
                 PROVE  /\ \E k \in 1..2 : 100 * (c[k] - Goal[k]) > tolerance \/ 100 * (Goal[k] - c[k]) > tolerance
                        /\ \A i \in 1..4 : Beside(c)[i] \in Cell =>
                             tree[Beside(c)[i]] < POT_HIGH \/ costarr(Beside(c)[i]) = COST_OBS
    BY <1>1, SamePotHigh, SMT, SMTT(30) DEF FailureIsExhaustive, costarr, Beside
  <2>2. legal = {} /\ ~(tree[Goal] = POT_HIGH /\ open'.cur # <<>> /\ cycle' < cycles)
    BY <2>1 DEF propNavFn, Returns, NavPlan
  <2>3. tree[Goal] \in Nat /\ tree[Goal] <= POT_HIGH /\ POT_HIGH \in Nat
    BY GridAssumption, PotHigh DEF NavPlan, Potentials
  <2>4. tree[Goal] = POT_HIGH
    BY <2>2, <2>3 DEF legal
  <2>5. Queued = {}
    BY <1>2, <2>1, <2>2, <2>4, Zenon
  <2>6. \E k \in 1..2 : ~(100 * (c[k] - Goal[k]) <= tolerance /\ 100 * (Goal[k] - c[k]) <= tolerance)
    BY <2>1, <2>2, <2>3, <2>4, Zenon DEF legal
  <2>7. \A k \in 1..2 : c[k] \in Int /\ Goal[k] \in Int
    BY Coordinates, GridAssumption
  <2>8. \E k \in 1..2 : 100 * (c[k] - Goal[k]) > tolerance \/ 100 * (Goal[k] - c[k]) > tolerance
    BY <2>6, <2>7 DEF Base, Given
  <2>9. \A n \in Near(c) : n \in Spread \/ costarr(n) = COST_OBS
    BY <2>1, <2>5 DEF NavPlan, Front, Spread
  <2> QED
    BY <2>8, <2>9, Zenon DEF Near, Spread
<1>4. result' = "path" => Downhill'
  BY <1>2 DEF NavPlan
<1> QED
  BY <1>2, <1>3, <1>4, Zenon

\* Every step of NavFn keeps it: makePlan(), updateCell(), the end of a cycle, a cancel.
LEMMA NavInvStep ==
  ASSUME Base, NavInv, [Next]_vars
  PROVE  NavInv'
<1> SUFFICES ASSUME planner' = "navfn"
             PROVE  /\ result' = "planning" => NavPlan'
                    /\ result' = "path" => Downhill'
                    /\ FailureIsExhaustive'
  BY DEF NavInv
<1>1. CASE planner = "navfn" /\ makePlan
  <2>1. result' \in {"occupied", "planning"}
    BY <1>1 DEF makePlan, Returns
  <2>2. result' = "planning" => NavPlan'
    BY <1>1, MakePlanStarts, Zenon DEF Base, Given
  <2> QED
    BY <2>1, <2>2, Zenon DEF FailureIsExhaustive
<1>2. CASE planner = "navfn" /\ updateCell
  <2>1. result = "planning" /\ result' = "planning"
    BY <1>2 DEF updateCell
  <2>2. NavPlan'
    BY <1>2, <2>1, UpdateKeepsPlan DEF Base, Given, NavInv
  <2> QED
    BY <2>1, <2>2 DEF FailureIsExhaustive
<1>3. CASE planner = "navfn" /\ propNavFn
  <2>1. NavPlan
    BY <1>3 DEF propNavFn, NavInv
  <2> QED
    BY <1>3, <2>1, PropKeeps, Zenon
<1>4. CASE planner = "navfn" /\ propNavFn_stops
  <2>1. result' = "stopped"
    BY <1>4 DEF propNavFn_stops, Returns
  <2> QED
    BY <2>1 DEF FailureIsExhaustive
<1>5. CASE UNCHANGED vars
  <2>1. UNCHANGED <<costs, tolerance, tree, open, result, cycle, planner>>
    BY <1>5, Zenon DEF vars, searchVars, navfnVars
  <2>2. Spread' = Spread /\ Queued' = Queued /\ Blocks' = Blocks /\ Potentials' = Potentials
    BY <2>1, SamePotHigh, Zenon DEF Spread, Queued, Rest, Blocks, Potentials
  <2>3. \A c : Near(c)' = Near(c) /\ costarr(c)' = costarr(c)
    BY <2>1, SamePotHigh DEF Near, Beside, costarr
  <2>4. Downhill' = Downhill /\ Low' = Low
    BY <2>1, <2>2, <2>3 DEF Downhill, Low
  <2>5. Front' = Front
    BY <2>2, <2>3, SamePotHigh DEF Front
  <2>6. NavPlan' = NavPlan
    BY <2>2, <2>4, <2>5, Zenon DEF NavPlan
  <2>7. FailureIsExhaustive' = FailureIsExhaustive
    BY <2>1, SamePotHigh DEF FailureIsExhaustive, costarr, Beside
  <2> QED
    BY <2>1, <2>4, <2>6, <2>7, Zenon DEF NavInv
<1> QED
  BY <1>1, <1>2, <1>3, <1>4, <1>5, Zenon DEF Next, NavFnNext

-----------------------------------------------------------------------------
(* Theta*.                                                                 *)

ThetaInv ==
  planner = "theta" =>
    /\ result = "none" => curr = Start
    /\ result = "planning" => ThetaPlan
    /\ GivesUpLast

\* Every step of Theta* keeps it: generatePath(), a turn of its loop, its failure, a cancel.
LEMMA ThetaInvStep ==
  ASSUME Base, ThetaInv, [Next]_vars
  PROVE  ThetaInv'
<1> SUFFICES ASSUME planner' = "theta"
             PROVE  /\ result' = "none" => curr' = Start
                    /\ result' = "planning" => ThetaPlan'
                    /\ GivesUpLast'
  BY DEF ThetaInv
<1>0. Costs
  BY DEF Base, Given
<1>1. CASE planner = "theta" /\ generatePath
  <2>1. result = "none" /\ result' \in {"occupied", "planning"}
    BY <1>1, Zenon DEF generatePath, Returns
  <2>2. result' = "planning" => ThetaPlan'
    BY <1>0, <1>1, <2>1, GeneratePathStarts, Zenon DEF ThetaInv, Base, Given
  <2> QED
    BY <2>1, <2>2, Zenon DEF GivesUpLast
<1>2. CASE planner = "theta" /\ generatePath_loop
  <2>1. result = "planning" /\ costs' = costs /\ ThetaPlan
    BY <1>2 DEF generatePath_loop, ThetaInv
  <2>2. CASE curr = Goal
    <3>1. result' = "path"
      BY <1>2, <2>2 DEF generatePath_loop, ReturnsPath
    <3> QED
      BY <2>1, <3>1 DEF GivesUpLast
  <2>3. CASE curr # Goal
    <3>1. PICK beyond \in {Free, Lethal} : setNeighbors(curr, resetParent(curr, beyond)) /\ result' = result
      BY <1>2, <2>3 DEF generatePath_loop
    <3>2. PICK node, B : Turned(node, B)
      BY <1>0, <2>1, <3>1, TurnEffect
    <3>3. ThetaPlan'
      BY <1>0, <2>1, <3>2, TurnKeepsPlan, Zenon
    <3> QED
      BY <2>1, <3>1, <3>3, Zenon DEF GivesUpLast
  <2> QED
    BY <2>2, <2>3
<1>3. CASE planner = "theta" /\ generatePath_fails
  <2>1. /\ result = "planning" /\ open = {} /\ result' = "failed" /\ ThetaPlan
        /\ UNCHANGED <<costs, tree, curr>>
    BY <1>3 DEF generatePath_fails, Returns, thetaVars, ThetaInv
  <2>2. \A c \in Opened \ {curr} : \A n \in Around[c] : n \in Opened \/ Unsafe(costs[n])
    BY <2>1 DEF ThetaPlan, Expanded
  <2>3. \A c \in Cell \ {curr} : tree[c].g < Infinity => \A n \in Around[c] : tree[n].g < Infinity \/ Unsafe(costs[n])
    BY <2>2, Zenon DEF Opened
  <2>4. GivesUpLast'
    BY <2>1, <2>3 DEF GivesUpLast, Infinity, Around, Unsafe
  <2> QED
    BY <2>1, <2>4
<1>4. CASE planner = "theta" /\ generatePath_stops
  <2>1. result' = "stopped"
    BY <1>4 DEF generatePath_stops, Returns
  <2> QED
    BY <2>1 DEF GivesUpLast
<1>5. CASE UNCHANGED vars
  <2>1. UNCHANGED <<costs, tree, open, result, src, curr, planner>>
    BY <1>5 DEF vars, searchVars, thetaVars
  <2>2. Opened' = Opened
    BY <2>1 DEF Opened, Infinity
  <2>3. \A c : Expanded(c)' = Expanded(c)
    BY <2>1, <2>2, Zenon DEF Expanded, Unsafe, Around
  <2>4. ThetaPlan' = ThetaPlan
    BY <2>1, <2>2, <2>3, SMT, SMTT(30) DEF ThetaPlan, ThetaNodes, Parents, Small, Infinity
  <2>5. GivesUpLast' = GivesUpLast
    BY <2>1 DEF GivesUpLast, Infinity, Around, Unsafe
  <2> QED
    BY <2>1, <2>4, <2>5, Zenon DEF ThetaInv
<1> QED
  BY <1>1, <1>2, <1>3, <1>4, <1>5, Zenon DEF Next, ThetaNext

-----------------------------------------------------------------------------
\* What the other two planners keep.
PlannersInv == NavInv /\ ThetaInv

\* The inductive invariant of the planners.
THEOREM PlannersInvariant == Spec => []PlannersInv
<1>1. Init => PlannersInv
  <2> SUFFICES ASSUME Init PROVE PlannersInv
    OBVIOUS
  <2>1. result = "none" /\ curr = Start
    BY DEF Init, SearchInit, ThetaInit
  <2> QED
    BY <2>1 DEF PlannersInv, NavInv, ThetaInv, FailureIsExhaustive, GivesUpLast
<1>2. Base /\ PlannersInv /\ [Next]_vars => PlannersInv'
  BY NavInvStep, ThetaInvStep DEF PlannersInv
<1> QED
  BY <1>1, <1>2, SmacInvariant, PTL DEF Spec

\* The parents of Theta* lead to the start, whatever resetParent() and the order of the
\* queue do to them.
THEOREM ParentsTheorem == Spec => []ThetaParentsLeadToStart
<1>1. PlannersInv => ThetaParentsLeadToStart
  BY Zenon DEF PlannersInv, ThetaInv, ThetaPlan, Parents, Opened, ThetaParentsLeadToStart, ParentsLeadToStart
<1> QED
  BY <1>1, PlannersInvariant, PTL

\* The potential that updateCell() spreads has no minimum but the robot's cell.
THEOREM DownhillTheorem == Spec => []NavFnHasNoLocalMinimum
<1>1. PlannersInv => NavFnHasNoLocalMinimum
  BY DEF PlannersInv, NavInv, NavPlan, Downhill, Spread, Near, NavFnHasNoLocalMinimum, NoLocalMinimum
<1> QED
  BY <1>1, PlannersInvariant, PTL

\* None of the planners says that it failed before it has looked everywhere it can.
THEOREM ExhaustedTheorem == Spec => []FailsOnlyWhenExhausted
<1>1. SmacInv /\ PlannersInv => FailsOnlyWhenExhausted
  BY DEF PlannersInv, SmacInv, Promises, ThetaInv, NavInv, FailsOnlyWhenExhausted
<1> QED
  BY <1>1, SmacInvariant, PlannersInvariant, PTL
===============================================================================
