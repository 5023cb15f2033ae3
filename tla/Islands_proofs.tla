--------------------------- MODULE Islands_proofs ---------------------------
(***************************************************************************)
(* What the island population keeps, for any number of islands, cells,     *)
(* metrics and programs: its turns, its cells, the rows of its elites and  *)
(* of its frontier, its migrants, its snapshots, its rotations and its     *)
(* promise.                                                                *)
(*                                                                         *)
(* The order is: turns; cells; sorting, by counting what comes before; the *)
(* rows that sorting and taking leave; distances of crowding, and sums;    *)
(* what trimming leaves, and that it leaves the ends; what an addition     *)
(* makes of elites and frontier; rejections; migrants; records; snapshots; *)
(* the promise; rotation.                                                  *)
(***************************************************************************)
EXTENDS Islands, FiniteSetTheorems, WellFoundedInduction, SequenceTheorems,
        TLAPS

Occupants == Valid \cup {NoProgram}
MetricOccupants == (Valid \cap Measured) \cup {NoProgram}

(* The cells of every archive keep their shape.                            *)
CellsTyped ==
  /\ DOMAIN islands = IslandIds
  /\ \A i \in IslandIds :
       /\ islands[i].grid \in [Cells -> Occupants]
       /\ islands[i].metricCells \in [Metrics -> [Cells -> MetricOccupants]]

(* The islands before the current one have had one more addition than the  *)
(* others.                                                                 *)
InTurn ==
  /\ current \in IslandIds
  /\ accepted \in [IslandIds -> Nat]
  /\ \A i, j \in IslandIds :
       /\ (i < current) = (j < current) => accepted[i] = accepted[j]
       /\ i < current /\ ~(j < current) => accepted[i] = accepted[j] + 1

(***************************************************************************)
(* Turns.                                                                  *)
(***************************************************************************)
LEMMA OnwardInRing ==
  ASSUME NEW i \in IslandIds
  PROVE  /\ Onward(i) \in IslandIds
         /\ Onward(i) = IF i = NIslands - 1 THEN 0 ELSE i + 1
<1>1. NIslands \in Nat \ {0} /\ i \in 0 .. NIslands - 1
  BY IslandAssumption DEF IslandIds
<1>2. CASE i = NIslands - 1
  BY <1>1, <1>2 DEF Onward, IslandIds
<1>3. CASE i # NIslands - 1
  <2>1. i + 1 < NIslands /\ i + 1 \in Nat
    BY <1>1, <1>3
  <2>2. (i + 1) % NIslands = i + 1
    BY <1>1, <2>1
  <2> QED
    BY <1>1, <1>3, <2>1, <2>2 DEF Onward, IslandIds
<1> QED
  BY <1>2, <1>3

LEMMA TurnsInit == Init => InTurn
<1> SUFFICES ASSUME Init PROVE InTurn
  OBVIOUS
<1>1. NIslands \in Nat \ {0}
  BY IslandAssumption
<1> QED
  BY <1>1 DEF Init, InTurn, IslandIds

LEMMA TurnsStep == InTurn /\ [Next]_vars => InTurn'
<1> SUFFICES ASSUME InTurn, [Next]_vars PROVE InTurn'
  OBVIOUS
<1>0. NIslands \in Nat \ {0}
  BY IslandAssumption
<1>1. ASSUME NEW p \in Programs, Add(p) PROVE InTurn'
  <2>1. CASE UNCHANGED <<current, accepted>>
    BY <2>1 DEF InTurn
  <2>2. CASE /\ current' = Onward(current)
             /\ accepted' = [accepted EXCEPT ![current] = @ + 1]
    <3>1. /\ current \in IslandIds
          /\ current' \in IslandIds
          /\ current' = IF current = NIslands - 1 THEN 0 ELSE current + 1
      BY <2>2, OnwardInRing DEF InTurn
    <3>2. accepted' \in [IslandIds -> Nat]
      BY <2>2, <3>1 DEF InTurn
    <3>3. ASSUME NEW i \in IslandIds
          PROVE  accepted'[i] = IF i = current THEN accepted[i] + 1
                                ELSE accepted[i]
      BY <2>2, <3>3 DEF InTurn
    <3>4. ASSUME NEW i \in IslandIds, NEW j \in IslandIds
          PROVE  /\ (i < current') = (j < current') =>
                      accepted'[i] = accepted'[j]
                 /\ i < current' /\ ~(j < current') =>
                      accepted'[i] = accepted'[j] + 1
      <4>1. /\ i \in 0 .. NIslands - 1 /\ j \in 0 .. NIslands - 1
            /\ current \in 0 .. NIslands - 1
        BY <3>1 DEF IslandIds
      <4>2. /\ accepted[i] \in Nat /\ accepted[j] \in Nat
            /\ accepted[current] \in Nat
        BY <3>1 DEF InTurn
      <4>3. /\ (i < current) = (j < current) => accepted[i] = accepted[j]
            /\ i < current /\ ~(j < current) => accepted[i] = accepted[j] + 1
            /\ j < current /\ ~(i < current) => accepted[j] = accepted[i] + 1
        BY DEF InTurn
      <4>4. CASE current = NIslands - 1
        <5>1. ~(i < current') /\ ~(j < current')
          BY <1>0, <3>1, <4>1, <4>4
        <5>2. /\ i < current \/ i = current
              /\ j < current \/ j = current
          BY <1>0, <4>1, <4>4
        <5>3. accepted'[i] = accepted'[j]
          BY <3>3, <4>1, <4>2, <4>3, <5>2
        <5> QED
          BY <5>1, <5>3
      <4>5. CASE current # NIslands - 1
        <5>1. current' = current + 1
          BY <3>1, <4>5
        <5>2. /\ i < current' <=> (i < current \/ i = current)
              /\ j < current' <=> (j < current \/ j = current)
          BY <4>1, <5>1
        <5> QED
          BY <3>3, <4>1, <4>2, <4>3, <5>2
      <4> QED
        BY <4>4, <4>5
    <3> QED
      BY <3>1, <3>2, <3>4 DEF InTurn
  <2> QED
    BY <1>1, <2>1, <2>2 DEF Add
<1>2. CASE \/ BeginMigration \/ Skip \/ Migrate
           \/ \E strategy \in Rotating : Sample(strategy)
           \/ UNCHANGED vars
  <2>1. UNCHANGED <<current, accepted>>
    BY <1>2 DEF BeginMigration, Skip, Migrate, Sample, vars, populationVars,
       historyVars
  <2> QED
    BY <2>1 DEF InTurn
<1> QED
  BY <1>1, <1>2 DEF Next

(* Rejected programs do not use up an island's turn (IslandModel.add).     *)
THEOREM FairTurns == Spec => []TurnsAreFair
<1>1. InTurn => TurnsAreFair
  <2> SUFFICES ASSUME InTurn, NEW i \in IslandIds, NEW j \in IslandIds
               PROVE  accepted[i] =< accepted[j] + 1
    BY DEF TurnsAreFair
  <2>1. accepted[i] \in Nat /\ accepted[j] \in Nat
    BY DEF InTurn
  <2>2. /\ (i < current) = (j < current) => accepted[i] = accepted[j]
        /\ i < current /\ ~(j < current) => accepted[i] = accepted[j] + 1
        /\ j < current /\ ~(i < current) => accepted[j] = accepted[i] + 1
    BY DEF InTurn
  <2> QED
    BY <2>1, <2>2
<1> QED
  BY <1>1, TurnsInit, TurnsStep, PTL DEF Spec

(***************************************************************************)
(* Cells.                                                                  *)
(***************************************************************************)
(* What placing a program makes of the cells of one archive: they keep     *)
(* their shape, no occupant gives way to a worse one, and the program's    *)
(* own cell is as good as the program.                                     *)
LEMMA PlacingInCell ==
  ASSUME NEW a, NEW p, NEW cell \in Cells,
         a.grid \in [Cells -> Occupants]
  PROVE  LET b == Added(a, p, cell)
         IN  /\ b.grid \in [Cells -> Occupants]
             /\ \A c \in Cells :
                  a.grid[c] # NoProgram =>
                    b.grid[c] # NoProgram /\ ~Better(a.grid[c], b.grid[c])
             /\ p \in Valid =>
                  b.grid[cell] # NoProgram /\ ~Better(p, b.grid[cell])
<1> DEFINE b == Added(a, p, cell)
<1>0. /\ NoProgram \notin Valid /\ Valid \subseteq Programs
      /\ \A q \in Valid : Key[q] \in Nat
  BY ArchiveAssumption
<1>1. CASE p \notin Valid
  <2>1. b = a
    BY <1>1 DEF Added
  <2>2. ASSUME NEW c \in Cells, a.grid[c] # NoProgram
        PROVE  ~Better(a.grid[c], a.grid[c])
    <3>1. a.grid[c] \in Valid
      BY <2>2 DEF Occupants
    <3> QED
      BY <1>0, <3>1 DEF Better
  <2> QED
    BY <1>1, <2>1, <2>2
<1>2. CASE p \in Valid /\ EntersCell(a, p, cell)
  <2>1. b.grid = [a.grid EXCEPT ![cell] = p]
    BY <1>2 DEF Added
  <2>2. b.grid \in [Cells -> Occupants]
    BY <1>2, <2>1 DEF Occupants
  <2>3. ASSUME NEW c \in Cells, a.grid[c] # NoProgram
        PROVE  b.grid[c] # NoProgram /\ ~Better(a.grid[c], b.grid[c])
    <3>1. a.grid[c] \in Valid
      BY <2>3 DEF Occupants
    <3>2. CASE c = cell
      <4>1. b.grid[c] = p /\ Better(p, a.grid[c])
        BY <1>2, <2>1, <2>3, <3>2 DEF EntersCell
      <4>2. Key[p] \in Nat /\ Key[a.grid[c]] \in Nat
        BY <1>0, <1>2, <3>1
      <4> QED
        BY <1>0, <1>2, <4>1, <4>2 DEF Better
    <3>3. CASE c # cell
      <4>1. b.grid[c] = a.grid[c]
        BY <2>1, <3>3
      <4> QED
        BY <1>0, <2>3, <3>1, <4>1 DEF Better
    <3> QED
      BY <3>2, <3>3
  <2>4. b.grid[cell] = p
    BY <2>1
  <2>5. p # NoProgram /\ ~Better(p, p)
    BY <1>0, <1>2 DEF Better
  <2> QED
    BY <2>2, <2>3, <2>4, <2>5
<1>3. CASE p \in Valid /\ ~EntersCell(a, p, cell)
  <2>1. b.grid = a.grid
    BY <1>3 DEF Added
  <2>2. ASSUME NEW c \in Cells, a.grid[c] # NoProgram
        PROVE  ~Better(a.grid[c], a.grid[c])
    <3>1. a.grid[c] \in Valid
      BY <2>2 DEF Occupants
    <3> QED
      BY <1>0, <3>1 DEF Better
  <2>3. a.grid[cell] # NoProgram /\ ~Better(p, a.grid[cell])
    BY <1>3 DEF EntersCell
  <2> QED
    BY <2>1, <2>2, <2>3
<1> QED
  BY <1>1, <1>2, <1>3

(* q stands at least as high as p in the order of the cells of metric m.   *)
AsGood(q, p, m) ==
  /\ Vector[q][m] >= Vector[p][m]
  /\ Vector[q][m] = Vector[p][m] => ~Better(p, q)

LEMMA AsGoodOrder ==
  ASSUME NEW m \in Metrics, NEW p \in Valid \cap Measured,
         NEW q \in Valid \cap Measured, NEW r \in Valid \cap Measured
  PROVE  /\ AsGood(p, p, m)
         /\ AsGood(q, p, m) /\ AsGood(r, q, m) => AsGood(r, p, m)
<1>1. /\ Key[p] \in Nat /\ Key[q] \in Nat /\ Key[r] \in Nat
      /\ Vector[p][m] \in Nat /\ Vector[q][m] \in Nat
      /\ Vector[r][m] \in Nat
  BY ArchiveAssumption
<1> QED
  BY <1>1 DEF AsGood, Better

LEMMA PlacingInMetricCell ==
  ASSUME NEW a, NEW p, NEW cell \in Cells,
         a.metricCells \in [Metrics -> [Cells -> MetricOccupants]]
  PROVE  LET b == Added(a, p, cell)
         IN  /\ b.metricCells \in [Metrics -> [Cells -> MetricOccupants]]
             /\ \A m \in Metrics, c \in Cells :
                  a.metricCells[m][c] # NoProgram =>
                    /\ b.metricCells[m][c] # NoProgram
                    /\ AsGood(b.metricCells[m][c], a.metricCells[m][c], m)
             /\ p \in Valid \cap Measured =>
                  \A m \in Metrics :
                    /\ b.metricCells[m][cell] # NoProgram
                    /\ AsGood(b.metricCells[m][cell], p, m)
<1> DEFINE b == Added(a, p, cell)
<1>0. NoProgram \notin Valid
  BY ArchiveAssumption
<1>1. ASSUME NEW m \in Metrics, NEW c \in Cells,
             a.metricCells[m][c] # NoProgram
      PROVE  /\ a.metricCells[m][c] \in Valid \cap Measured
             /\ AsGood(a.metricCells[m][c], a.metricCells[m][c], m)
  <2>1. a.metricCells[m][c] \in Valid \cap Measured
    BY <1>1 DEF MetricOccupants
  <2> QED
    BY <2>1, AsGoodOrder
<1>2. CASE p \notin Valid
  <2>1. b = a
    BY <1>2 DEF Added
  <2> QED
    BY <1>1, <1>2, <2>1
<1>3. CASE p \in Valid
  <2>1. b.metricCells =
          [m \in Metrics |->
             IF EntersMetricCell(a, p, cell, m)
             THEN [a.metricCells[m] EXCEPT ![cell] = p]
             ELSE a.metricCells[m]]
    BY <1>3 DEF Added
  <2>2. ASSUME NEW m \in Metrics
        PROVE  /\ b.metricCells[m] \in [Cells -> MetricOccupants]
               /\ \A c \in Cells :
                    a.metricCells[m][c] # NoProgram =>
                      /\ b.metricCells[m][c] # NoProgram
                      /\ AsGood(b.metricCells[m][c], a.metricCells[m][c], m)
               /\ p \in Measured =>
                    /\ b.metricCells[m][cell] # NoProgram
                    /\ AsGood(b.metricCells[m][cell], p, m)
    <3>1. a.metricCells[m] \in [Cells -> MetricOccupants]
      OBVIOUS
    <3>2. CASE EntersMetricCell(a, p, cell, m)
      <4>1. b.metricCells[m] = [a.metricCells[m] EXCEPT ![cell] = p]
        BY <2>1, <3>2
      <4>2. p \in Valid \cap Measured /\ p # NoProgram
        BY <1>0, <1>3, <3>2 DEF EntersMetricCell
      <4>3. b.metricCells[m] \in [Cells -> MetricOccupants]
        BY <3>1, <4>1, <4>2 DEF MetricOccupants
      <4>4. ASSUME NEW c \in Cells, a.metricCells[m][c] # NoProgram
            PROVE  /\ b.metricCells[m][c] # NoProgram
                   /\ AsGood(b.metricCells[m][c], a.metricCells[m][c], m)
        <5>1. CASE c = cell
          <6> DEFINE q == a.metricCells[m][c]
          <6>1. q \in Valid \cap Measured
            BY <1>1, <4>4
          <6>2. b.metricCells[m][c] = p
            BY <3>1, <4>1, <5>1
          <6>3. \/ Vector[p][m] > Vector[q][m]
                \/ Vector[p][m] = Vector[q][m] /\ Better(p, q)
            BY <3>2, <4>4, <5>1 DEF EntersMetricCell
          <6>4. /\ Key[p] \in Nat /\ Key[q] \in Nat
                /\ Vector[p][m] \in Nat /\ Vector[q][m] \in Nat
            BY <4>2, <6>1, ArchiveAssumption
          <6>5. AsGood(p, q, m)
            BY <6>3, <6>4 DEF AsGood, Better
          <6> QED
            BY <4>2, <6>2, <6>5
        <5>2. CASE c # cell
          <6>1. b.metricCells[m][c] = a.metricCells[m][c]
            BY <3>1, <4>1, <5>2
          <6> QED
            BY <1>1, <4>4, <6>1
        <5> QED
          BY <5>1, <5>2
      <4>5. b.metricCells[m][cell] = p /\ AsGood(p, p, m)
        BY <3>1, <4>1, <4>2, AsGoodOrder
      <4> QED
        BY <4>2, <4>3, <4>4, <4>5
    <3>3. CASE ~EntersMetricCell(a, p, cell, m)
      <4>1. b.metricCells[m] = a.metricCells[m]
        BY <2>1, <3>3
      <4>2. ASSUME p \in Measured
            PROVE  /\ b.metricCells[m][cell] # NoProgram
                   /\ AsGood(b.metricCells[m][cell], p, m)
        <5> DEFINE q == a.metricCells[m][cell]
        <5>1. /\ q # NoProgram
              /\ ~(Vector[p][m] > Vector[q][m])
              /\ Vector[p][m] = Vector[q][m] => ~Better(p, q)
          BY <3>3, <4>2 DEF EntersMetricCell
        <5>2. q \in Valid \cap Measured
          BY <1>1, <5>1
        <5>3. Vector[p][m] \in Nat /\ Vector[q][m] \in Nat
          BY <1>3, <4>2, <5>2, ArchiveAssumption
        <5>4. AsGood(q, p, m)
          BY <5>1, <5>3 DEF AsGood
        <5> QED
          BY <4>1, <5>1, <5>4
      <4> QED
        BY <1>1, <3>1, <4>1, <4>2
    <3> QED
      BY <3>2, <3>3
  <2>3. b.metricCells \in [Metrics -> [Cells -> MetricOccupants]]
    BY <2>1, <2>2
  <2> QED
    BY <1>3, <2>2, <2>3
<1> QED
  BY <1>2, <1>3

CellsInv == CellsTyped /\ CellsHoldBest

LEMMA CellsInit == Init => CellsInv
<1> SUFFICES ASSUME Init PROVE CellsInv
  OBVIOUS
<1>1. CellsTyped
  <2> SUFFICES ASSUME NEW i \in IslandIds
               PROVE  /\ Empty.grid \in [Cells -> Occupants]
                      /\ Empty.metricCells
                           \in [Metrics -> [Cells -> MetricOccupants]]
    BY DEF Init, CellsTyped
  <2> QED
    BY DEF Empty, Occupants, MetricOccupants
<1>2. placed = {}
  BY DEF Init
<1> QED
  BY <1>1, <1>2 DEF CellsInv, CellsHoldBest, GridHoldsBest, MetricCellsHoldBest

(* Whoever is placed wherever, what held of the cells holds after.         *)
LEMMA CellsPlace ==
  ASSUME CellsInv, NEW k, NEW p, NEW cell \in Cells, Place(k, p, cell)
  PROVE  CellsInv'
<1>0. /\ NoProgram \notin Valid
      /\ \A q \in Valid : Key[q] \in Nat
  BY ArchiveAssumption
<1>1. /\ islands' = [islands EXCEPT ![k] = Added(islands[k], p, cell)]
      /\ placed' = placed \cup {<<k, p, cell>>}
  BY DEF Place
<1>2. /\ DOMAIN islands = IslandIds
      /\ \A i \in IslandIds :
           /\ islands[i].grid \in [Cells -> Occupants]
           /\ islands[i].metricCells
                \in [Metrics -> [Cells -> MetricOccupants]]
  BY DEF CellsInv, CellsTyped
<1>3. /\ DOMAIN islands' = IslandIds
      /\ \A i \in IslandIds :
           islands'[i] = IF i = k THEN Added(islands[k], p, cell)
                         ELSE islands[i]
  BY <1>1, <1>2
<1>4. CellsTyped'
  <2> SUFFICES ASSUME NEW i \in IslandIds
               PROVE  /\ islands'[i].grid \in [Cells -> Occupants]
                      /\ islands'[i].metricCells
                           \in [Metrics -> [Cells -> MetricOccupants]]
    BY <1>3 DEF CellsTyped
  <2>1. CASE i = k
    BY <1>2, <1>3, <2>1, PlacingInCell, PlacingInMetricCell
  <2>2. CASE i # k
    BY <1>2, <1>3, <2>2
  <2> QED
    BY <2>1, <2>2
<1>5. GridHoldsBest'
  <2> SUFFICES ASSUME NEW i \in IslandIds, NEW q \in Valid, NEW c \in Cells,
                      <<i, q, c>> \in placed'
               PROVE  /\ islands'[i].grid[c] # NoProgram
                      /\ ~Better(q, islands'[i].grid[c])
    BY DEF GridHoldsBest, Better
  <2>1. CASE <<i, q, c>> \in placed
    <3> DEFINE old == islands[i].grid[c]
               new == islands'[i].grid[c]
    <3>1. old # NoProgram /\ ~Better(q, old)
      BY <2>1 DEF CellsInv, CellsHoldBest, GridHoldsBest
    <3>2. new # NoProgram /\ ~Better(old, new)
      <4>1. CASE i = k
        BY <1>2, <1>3, <3>1, <4>1, PlacingInCell
      <4>2. CASE i # k
        <5>1. new = old /\ old \in Valid
          BY <1>2, <1>3, <3>1, <4>2 DEF Occupants
        <5> QED
          BY <1>0, <3>1, <5>1 DEF Better
      <4> QED
        BY <4>1, <4>2
    <3>3. /\ old \in Valid /\ new \in Valid
      <4>1. old \in Occupants
        BY <1>2
      <4>2. islands'[i].grid \in [Cells -> Occupants]
        BY <1>4 DEF CellsTyped
      <4>3. new \in Occupants
        BY <4>2
      <4> QED
        BY <3>1, <3>2, <4>1, <4>3 DEF Occupants
    <3> QED
      BY <1>0, <3>1, <3>2, <3>3 DEF Better
  <2>2. CASE <<i, q, c>> \notin placed
    <3>1. i = k /\ q = p /\ c = cell
      BY <1>1, <2>2
    <3> QED
      BY <1>2, <1>3, <3>1, PlacingInCell
  <2> QED
    BY <2>1, <2>2
<1>6. MetricCellsHoldBest'
  <2> SUFFICES ASSUME NEW i \in IslandIds, NEW q \in Valid \cap Measured,
                      NEW c \in Cells, NEW m \in Metrics,
                      <<i, q, c>> \in placed'
               PROVE  /\ islands'[i].metricCells[m][c] # NoProgram
                      /\ AsGood(islands'[i].metricCells[m][c], q, m)
    BY DEF MetricCellsHoldBest, AsGood, Better
  <2>1. CASE <<i, q, c>> \in placed
    <3> DEFINE old == islands[i].metricCells[m][c]
               new == islands'[i].metricCells[m][c]
    <3>1. old # NoProgram /\ AsGood(old, q, m)
      BY <2>1 DEF CellsInv, CellsHoldBest, MetricCellsHoldBest, AsGood
    <3>2. old \in Valid \cap Measured
      BY <1>2, <3>1 DEF MetricOccupants
    <3>3. new # NoProgram /\ AsGood(new, old, m)
      <4>1. CASE i = k
        BY <1>2, <1>3, <3>1, <4>1, PlacingInMetricCell
      <4>2. CASE i # k
        BY <1>3, <3>1, <3>2, <4>2, AsGoodOrder
      <4> QED
        BY <4>1, <4>2
    <3>4. new \in Valid \cap Measured
      <4>1. islands'[i].metricCells \in [Metrics -> [Cells -> MetricOccupants]]
        BY <1>4 DEF CellsTyped
      <4>2. new \in MetricOccupants
        BY <4>1
      <4> QED
        BY <3>3, <4>2 DEF MetricOccupants
    <3> HIDE DEF old, new
    <3> QED
      BY <3>1, <3>2, <3>3, <3>4, AsGoodOrder DEF new
  <2>2. CASE <<i, q, c>> \notin placed
    <3>1. i = k /\ q = p /\ c = cell
      BY <1>1, <2>2
    <3> QED
      BY <1>2, <1>3, <3>1, PlacingInMetricCell
  <2> QED
    BY <2>1, <2>2
<1> QED
  BY <1>4, <1>5, <1>6 DEF CellsInv, CellsHoldBest

LEMMA CellsStep == CellsInv /\ [Next]_vars => CellsInv'
<1> SUFFICES ASSUME CellsInv, [Next]_vars PROVE CellsInv'
  OBVIOUS
<1>1. ASSUME NEW p \in Programs, Add(p) PROVE CellsInv'
  BY <1>1, CellsPlace DEF Add
<1>2. CASE Migrate
  BY <1>2, CellsPlace DEF Migrate
<1>3. CASE \/ BeginMigration \/ Skip
           \/ \E strategy \in Rotating : Sample(strategy)
           \/ UNCHANGED vars
  <2>1. UNCHANGED <<islands, placed>>
    BY <1>3 DEF BeginMigration, Skip, Sample, vars, populationVars,
       historyVars
  <2> QED
    BY <2>1 DEF CellsInv, CellsTyped, CellsHoldBest, GridHoldsBest, MetricCellsHoldBest
<1> QED
  BY <1>1, <1>2, <1>3 DEF Next

(* No cell ever loses its best program, whoever came, migrated or came     *)
(* again (MAPElites.add), nor does the cell of a metric                    *)
(* (MAPElites._retain_metric_cells).                                       *)
THEOREM BestInCell == Spec => []CellsHoldBest
<1>1. CellsInv => CellsHoldBest
  BY DEF CellsInv
<1> QED
  BY <1>1, CellsInit, CellsStep, PTL DEF Spec

(***************************************************************************)
(* Sorting.                                                                *)
(***************************************************************************)
(* f puts the elements of I in a row. *)
Arranges(f, n, I) ==
  /\ f \in [1 .. n -> I]
  /\ \A i \in I : \E k \in 1 .. n : f[k] = i
  /\ \A k, l \in 1 .. n : f[k] = f[l] => k = l

(* B is the order of a row. *)
Linear(B, I) ==
  /\ \A i \in I : <<i, i>> \notin B
  /\ \A i, j \in I : i # j => <<i, j>> \in B \/ <<j, i>> \in B
  /\ \A i, j, k \in I : <<i, j>> \in B /\ <<j, k>> \in B => <<i, k>> \in B

Before(B, I, i) == {j \in I : <<j, i>> \in B}

(* Counting what comes before each position tells them apart, and gives    *)
(* the row.                                                                *)
LEMMA RowOf ==
  ASSUME NEW I, IsFiniteSet(I), NEW n, n = Cardinality(I),
         NEW B, Linear(B, I)
  PROVE  \E f : /\ Arranges(f, n, I)
                /\ \A k \in 1 .. n, i \in I :
                     Cardinality(Before(B, I, i)) = k - 1 <=> i = f[k]
                /\ \A k, l \in 1 .. n : k < l => <<f[k], f[l]>> \in B
<1> DEFINE count(i) == Cardinality(Before(B, I, i))
<1>1. IsFiniteSet(1 .. n) /\ Cardinality(1 .. n) = n /\ n \in Nat
  BY FS_Interval, FS_CardinalityType
<1>2. ASSUME NEW i \in I
      PROVE  /\ IsFiniteSet(Before(B, I, i))
             /\ count(i) \in 0 .. n - 1
  <2>1. Before(B, I, i) \in SUBSET (I \ {i})
    BY DEF Before, Linear
  <2>2. IsFiniteSet(I \ {i}) /\ Cardinality(I \ {i}) = n - 1
    BY <1>1, FS_RemoveElement
  <2> QED BY <2>1, <2>2, FS_Subset, FS_CardinalityType
<1>3. ASSUME NEW i \in I, NEW j \in I, <<i, j>> \in B
      PROVE  count(i) < count(j)
  <2>1. Before(B, I, i) \in SUBSET Before(B, I, j)
    BY <1>3 DEF Before, Linear
  <2>2. i \in Before(B, I, j) /\ i \notin Before(B, I, i)
    BY <1>3 DEF Before, Linear
  <2>3. count(i) <= count(j) /\ count(i) # count(j)
    BY <1>2, <2>1, <2>2, FS_Subset
  <2> QED BY <1>2, <2>3
<1> DEFINE g == [i \in I |-> count(i) + 1]
<1>4. \A i, j \in I : g[i] = g[j] => i = j
  <2> SUFFICES ASSUME NEW i \in I, NEW j \in I, i # j
               PROVE  g[i] # g[j]
    OBVIOUS
  <2>1. <<i, j>> \in B \/ <<j, i>> \in B
    BY DEF Linear
  <2>2. count(i) # count(j) /\ count(i) \in Nat /\ count(j) \in Nat
    BY <1>2, <1>3, <2>1
  <2> HIDE DEF count
  <2> QED BY <2>2
<1>5. g \in [I -> 1 .. n]
  <2> SUFFICES ASSUME NEW i \in I PROVE count(i) + 1 \in 1 .. n
    OBVIOUS
  <2>1. count(i) \in 0 .. n - 1
    BY <1>2
  <2> HIDE DEF count
  <2> QED BY <1>1, <2>1
<1>6. \A k \in 1 .. n : \E i \in I : g[i] = k
  <2> HIDE DEF g
  <2>1. g \in Injection(I, 1 .. n)
    BY <1>4, <1>5 DEF Injection, IsInjective
  <2>2. g \in Surjection(I, 1 .. n)
    BY <1>1, <2>1, FS_Injection
  <2> QED BY <2>2 DEF Surjection
<1> DEFINE f == [k \in 1 .. n |-> CHOOSE i \in I : g[i] = k]
<1>7. \A k \in 1 .. n : f[k] \in I /\ g[f[k]] = k
  <2> HIDE DEF g
  <2> QED BY <1>6
<1>8. \A k \in 1 .. n, i \in I : g[i] = k <=> i = f[k]
  <2> HIDE DEF f, g
  <2> QED BY <1>4, <1>5, <1>7
<1>9. Arranges(f, n, I)
  <2>1. f \in [1 .. n -> I]
    <3> DEFINE h(k) == CHOOSE i \in I : g[i] = k
    <3>1. \A k \in 1 .. n : h(k) \in I
      BY <1>7
    <3> HIDE DEF h, g
    <3> QED BY <3>1 DEF h
  <2> HIDE DEF f, g
  <2>2. \A i \in I : f[g[i]] = i /\ g[i] \in 1 .. n
    BY <1>5, <1>8
  <2>3. \A k, l \in 1 .. n : f[k] = f[l] => k = l
    BY <1>7
  <2> QED BY <2>1, <2>2, <2>3 DEF Arranges
<1>10. ASSUME NEW k \in 1 .. n, NEW i \in I
       PROVE  count(i) = k - 1 <=> i = f[k]
  <2>1. g[i] = count(i) + 1 /\ count(i) \in Int
    BY <1>2
  <2>2. g[i] = k <=> i = f[k]
    BY <1>8
  <2> HIDE DEF f, g, count
  <2> QED BY <2>1, <2>2
<1>11. ASSUME NEW k \in 1 .. n, NEW l \in 1 .. n, k < l
       PROVE  <<f[k], f[l]>> \in B
  <2> HIDE DEF f
  <2>1. /\ f[k] \in I /\ f[l] \in I
        /\ count(f[k]) = k - 1 /\ count(f[l]) = l - 1
    BY <1>7, <1>10
  <2> HIDE DEF count
  <2>2. f[k] # f[l]
    BY <1>11, <2>1
  <2>3. <<f[k], f[l]>> \in B \/ <<f[l], f[k]>> \in B
    BY <2>1, <2>2 DEF Linear
  <2>4. <<f[l], f[k]>> \in B => count(f[l]) < count(f[k])
    BY <1>3, <2>1
  <2> QED BY <1>11, <2>1, <2>3, <2>4
<1> QED
  <2> HIDE DEF f
  <2> QED BY <1>9, <1>10, <1>11

(* The same for the positions of a sequence of n.                          *)
LEMMA RowOfPositions ==
  ASSUME NEW n \in Nat, NEW B, Linear(B, 1 .. n)
  PROVE  \E f : /\ Arranges(f, n, 1 .. n)
                /\ \A k, i \in 1 .. n :
                     Cardinality(Before(B, 1 .. n, i)) = k - 1 <=> i = f[k]
                /\ \A k, l \in 1 .. n : k < l => <<f[k], f[l]>> \in B
<1>1. IsFiniteSet(1 .. n) /\ Cardinality(1 .. n) = n
  BY FS_Interval
<1> QED BY <1>1, RowOf

(* What Sorted makes of programs in the order of Better.                   *)
LEMMA SortedByKey ==
  ASSUME NEW n \in Nat, NEW s, DOMAIN s = 1 .. n,
         \A i \in 1 .. n : Key[s[i]] \in Int
  PROVE  \E f : /\ Arranges(f, n, 1 .. n)
                /\ Sorted(s, Better) = [k \in 1 .. n |-> s[f[k]]]
                /\ \A k, l \in 1 .. n : k < l => Key[s[f[k]]] >= Key[s[f[l]]]
<1> DEFINE before(i, j) == \/ Better(s[i], s[j])
                           \/ ~(Better(s[j], s[i])) /\ i < j
           B == {p \in (1 .. n) \X (1 .. n) : before(p[1], p[2])}
           earlier(i) == Cardinality({j \in DOMAIN s : before(j, i)})
<1>1. Linear(B, 1 .. n)
  <2>1. \A i, j \in 1 .. n : <<i, j>> \in B <=> before(i, j)
    OBVIOUS
  <2>2. \A i \in 1 .. n : ~before(i, i)
    BY DEF Better
  <2>3. ASSUME NEW i \in 1 .. n, NEW j \in 1 .. n, i # j
        PROVE  before(i, j) \/ before(j, i)
    <3>1. i < j \/ j < i
      BY <2>3
    <3> QED BY <3>1 DEF Better
  <2>4. \A i, j, k \in 1 .. n : before(i, j) /\ before(j, k) => before(i, k)
    BY DEF Better
  <2> HIDE DEF B, before
  <2> QED BY <2>1, <2>2, <2>3, <2>4 DEF Linear
<1>2. PICK f : /\ Arranges(f, n, 1 .. n)
               /\ \A k, i \in 1 .. n :
                    Cardinality(Before(B, 1 .. n, i)) = k - 1 <=> i = f[k]
               /\ \A k, l \in 1 .. n : k < l => <<f[k], f[l]>> \in B
  <2> HIDE DEF B
  <2> QED BY <1>1, RowOfPositions
<1>3. \A i \in 1 .. n : earlier(i) = Cardinality(Before(B, 1 .. n, i))
  <2> SUFFICES ASSUME NEW i \in 1 .. n
               PROVE  {j \in DOMAIN s : before(j, i)} = Before(B, 1 .. n, i)
    OBVIOUS
  <2> QED BY DEF Before
<1>4. Sorted(s, Better)
        = [k \in DOMAIN s |-> s[CHOOSE i \in DOMAIN s : earlier(i) = k - 1]]
  BY DEF Sorted
<1>5. ASSUME NEW k \in 1 .. n
      PROVE  (CHOOSE i \in DOMAIN s : earlier(i) = k - 1) = f[k]
  <2> HIDE DEF earlier, B
  <2>1. f[k] \in 1 .. n
    BY <1>2 DEF Arranges
  <2>2. \A i \in 1 .. n : earlier(i) = k - 1 <=> i = f[k]
    BY <1>2, <1>3
  <2> QED BY <2>1, <2>2
<1>6. Sorted(s, Better) = [k \in 1 .. n |-> s[f[k]]]
  <2> HIDE DEF earlier
  <2> QED BY <1>4, <1>5
<1>7. ASSUME NEW k \in 1 .. n, NEW l \in 1 .. n, k < l
      PROVE  Key[s[f[k]]] >= Key[s[f[l]]]
  <2>1. f[k] \in 1 .. n /\ f[l] \in 1 .. n /\ before(f[k], f[l])
    BY <1>2, <1>7 DEF Arranges
  <2> QED BY <2>1 DEF Better
<1> QED BY <1>2, <1>6, <1>7

(* The same in the order of the values of a metric.                        *)
LEMMA SortedByValue ==
  ASSUME NEW n \in Nat, NEW s, DOMAIN s = 1 .. n, NEW m,
         \A i \in 1 .. n : Vector[s[i]][m] \in Int
  PROVE  \E f : /\ Arranges(f, n, 1 .. n)
                /\ Ascending(s, m) = [k \in 1 .. n |-> s[f[k]]]
                /\ \A k, l \in 1 .. n : k < l => Vector[s[f[k]]][m] <= Vector[s[f[l]]][m]
<1> DEFINE before(i, j) == \/ Vector[s[i]][m] < Vector[s[j]][m]
                           \/ ~(Vector[s[j]][m] < Vector[s[i]][m]) /\ i < j
           B == {p \in (1 .. n) \X (1 .. n) : before(p[1], p[2])}
           earlier(i) == Cardinality({j \in DOMAIN s : before(j, i)})
<1>1. Linear(B, 1 .. n)
  <2>1. \A i, j \in 1 .. n : <<i, j>> \in B <=> before(i, j)
    OBVIOUS
  <2>2. \A i \in 1 .. n : ~before(i, i)
    BY DEF Ascending
  <2>3. ASSUME NEW i \in 1 .. n, NEW j \in 1 .. n, i # j
        PROVE  before(i, j) \/ before(j, i)
    <3>1. i < j \/ j < i
      BY <2>3
    <3> QED BY <3>1 DEF Ascending
  <2>4. \A i, j, k \in 1 .. n : before(i, j) /\ before(j, k) => before(i, k)
    BY DEF Ascending
  <2> HIDE DEF B, before
  <2> QED BY <2>1, <2>2, <2>3, <2>4 DEF Linear
<1>2. PICK f : /\ Arranges(f, n, 1 .. n)
               /\ \A k, i \in 1 .. n :
                    Cardinality(Before(B, 1 .. n, i)) = k - 1 <=> i = f[k]
               /\ \A k, l \in 1 .. n : k < l => <<f[k], f[l]>> \in B
  <2> HIDE DEF B
  <2> QED BY <1>1, RowOfPositions
<1>3. \A i \in 1 .. n : earlier(i) = Cardinality(Before(B, 1 .. n, i))
  <2> SUFFICES ASSUME NEW i \in 1 .. n
               PROVE  {j \in DOMAIN s : before(j, i)} = Before(B, 1 .. n, i)
    OBVIOUS
  <2> QED BY DEF Before
<1>4. Ascending(s, m)
        = [k \in DOMAIN s |-> s[CHOOSE i \in DOMAIN s : earlier(i) = k - 1]]
  BY DEF Ascending, Sorted
<1>5. ASSUME NEW k \in 1 .. n
      PROVE  (CHOOSE i \in DOMAIN s : earlier(i) = k - 1) = f[k]
  <2> HIDE DEF earlier, B
  <2>1. f[k] \in 1 .. n
    BY <1>2 DEF Arranges
  <2>2. \A i \in 1 .. n : earlier(i) = k - 1 <=> i = f[k]
    BY <1>2, <1>3
  <2> QED BY <2>1, <2>2
<1>6. Ascending(s, m) = [k \in 1 .. n |-> s[f[k]]]
  <2> HIDE DEF earlier
  <2> QED BY <1>4, <1>5
<1>7. ASSUME NEW k \in 1 .. n, NEW l \in 1 .. n, k < l
      PROVE  Vector[s[f[k]]][m] <= Vector[s[f[l]]][m]
  <2>1. f[k] \in 1 .. n /\ f[l] \in 1 .. n /\ before(f[k], f[l])
    BY <1>2, <1>7 DEF Arranges
  <2> QED BY <2>1
<1> QED BY <1>2, <1>6, <1>7

(* The same in the order of trimming.                                      *)
LEMMA SortedByCrowding ==
  ASSUME NEW n \in Nat, NEW s, DOMAIN s = 1 .. n,
         \A i \in 1 .. n : Key[s[i][1]] \in Int /\ s[i][2] \in Int
  PROVE  \E f : /\ Arranges(f, n, 1 .. n)
                /\ Sorted(s, Roomier) = [k \in 1 .. n |-> s[f[k]]]
                /\ \A k, l \in 1 .. n : k < l => s[f[k]][2] >= s[f[l]][2]
<1> DEFINE before(i, j) == \/ Roomier(s[i], s[j])
                           \/ ~(Roomier(s[j], s[i])) /\ i < j
           B == {p \in (1 .. n) \X (1 .. n) : before(p[1], p[2])}
           earlier(i) == Cardinality({j \in DOMAIN s : before(j, i)})
<1>1. Linear(B, 1 .. n)
  <2>1. \A i, j \in 1 .. n : <<i, j>> \in B <=> before(i, j)
    OBVIOUS
  <2>2. \A i \in 1 .. n : ~before(i, i)
    BY DEF Better, Roomier
  <2>3. ASSUME NEW i \in 1 .. n, NEW j \in 1 .. n, i # j
        PROVE  before(i, j) \/ before(j, i)
    <3>1. i < j \/ j < i
      BY <2>3
    <3> QED BY <3>1 DEF Better, Roomier
  <2>4. \A i, j, k \in 1 .. n : before(i, j) /\ before(j, k) => before(i, k)
    BY DEF Better, Roomier
  <2> HIDE DEF B, before
  <2> QED BY <2>1, <2>2, <2>3, <2>4 DEF Linear
<1>2. PICK f : /\ Arranges(f, n, 1 .. n)
               /\ \A k, i \in 1 .. n :
                    Cardinality(Before(B, 1 .. n, i)) = k - 1 <=> i = f[k]
               /\ \A k, l \in 1 .. n : k < l => <<f[k], f[l]>> \in B
  <2> HIDE DEF B
  <2> QED BY <1>1, RowOfPositions
<1>3. \A i \in 1 .. n : earlier(i) = Cardinality(Before(B, 1 .. n, i))
  <2> SUFFICES ASSUME NEW i \in 1 .. n
               PROVE  {j \in DOMAIN s : before(j, i)} = Before(B, 1 .. n, i)
    OBVIOUS
  <2> QED BY DEF Before
<1>4. Sorted(s, Roomier)
        = [k \in DOMAIN s |-> s[CHOOSE i \in DOMAIN s : earlier(i) = k - 1]]
  BY DEF Sorted
<1>5. ASSUME NEW k \in 1 .. n
      PROVE  (CHOOSE i \in DOMAIN s : earlier(i) = k - 1) = f[k]
  <2> HIDE DEF earlier, B
  <2>1. f[k] \in 1 .. n
    BY <1>2 DEF Arranges
  <2>2. \A i \in 1 .. n : earlier(i) = k - 1 <=> i = f[k]
    BY <1>2, <1>3
  <2> QED BY <2>1, <2>2
<1>6. Sorted(s, Roomier) = [k \in 1 .. n |-> s[f[k]]]
  <2> HIDE DEF earlier
  <2> QED BY <1>4, <1>5
<1>7. ASSUME NEW k \in 1 .. n, NEW l \in 1 .. n, k < l
      PROVE  s[f[k]][2] >= s[f[l]][2]
  <2>1. f[k] \in 1 .. n /\ f[l] \in 1 .. n /\ before(f[k], f[l])
    BY <1>2, <1>7 DEF Arranges
  <2> QED BY <2>1 DEF Roomier
<1> QED BY <1>2, <1>6, <1>7

(****************************************************************************)
(* Rows of programs: sorted, taken from, lengthened.                       *)
(****************************************************************************)
Descending(s) == \A k, l \in DOMAIN s : k < l => Key[s[k]] >= Key[s[l]]

(* Sorting by rank keeps the programs, and puts them in order.             *)
LEMMA SortedIs ==
  ASSUME NEW S \in SUBSET Programs, NEW s \in Seq(S)
  PROVE  LET r == Sorted(s, Better)
         IN  /\ r \in Seq(S) /\ Len(r) = Len(s)
             /\ InSeq(r) = InSeq(s)
             /\ Descending(r)
             /\ Distinct(s) => Distinct(r)
<1> DEFINE r == Sorted(s, Better)
           n == Len(s)
<1>1. /\ n \in Nat /\ DOMAIN s = 1 .. n /\ \A i \in 1 .. n : s[i] \in S
      /\ \A p \in S : Key[p] \in Nat
  BY ArchiveAssumption
<1>2. PICK f : /\ Arranges(f, n, 1 .. n)
               /\ r = [k \in 1 .. n |-> s[f[k]]]
               /\ \A k, l \in 1 .. n : k < l => Key[s[f[k]]] >= Key[s[f[l]]]
  <2> HIDE DEF n
  <2> QED BY <1>1, SortedByKey
<1> HIDE DEF n, r
<1>3. /\ \A k \in 1 .. n : f[k] \in 1 .. n /\ r[k] = s[f[k]]
      /\ \A i \in 1 .. n : \E k \in 1 .. n : f[k] = i
      /\ \A k, l \in 1 .. n : f[k] = f[l] => k = l
      /\ DOMAIN r = 1 .. n
  BY <1>2 DEF Arranges
<1>4. r \in Seq(S) /\ Len(r) = n
  <2>1. r \in [1 .. n -> S]
    BY <1>1, <1>2, <1>3
  <2> QED BY <1>1, <2>1
<1>5. InSeq(r) = InSeq(s)
  <2>1. InSeq(r) = {r[k] : k \in 1 .. n} /\ InSeq(s) = {s[i] : i \in 1 .. n}
    BY <1>1, <1>3 DEF InSeq
  <2>2. ASSUME NEW i \in 1 .. n PROVE \E k \in 1 .. n : r[k] = s[i]
    BY <1>3
  <2>3. ASSUME NEW k \in 1 .. n PROVE \E i \in 1 .. n : r[k] = s[i]
    BY <1>3
  <2> QED BY <2>1, <2>2, <2>3
<1>6. Descending(r)
  BY <1>2, <1>3 DEF Descending
<1>7. Distinct(s) => Distinct(r)
  <2> SUFFICES ASSUME Distinct(s), NEW k \in 1 .. n, NEW l \in 1 .. n, r[k] = r[l]
               PROVE  k = l
    BY <1>3 DEF Distinct
  <2>1. s[f[k]] = s[f[l]] /\ f[k] \in DOMAIN s /\ f[l] \in DOMAIN s
    BY <1>1, <1>3
  <2>2. f[k] = f[l]
    BY <2>1 DEF Distinct
  <2> QED BY <1>3, <2>2
<1> QED BY <1>4, <1>5, <1>6, <1>7 DEF n, r

(* The first n elements. *)
LEMMA TakeIs ==
  ASSUME NEW S, NEW s \in Seq(S), NEW n \in Nat
  PROVE  LET t == Take(s, n)
         IN  /\ t \in Seq(S)
             /\ Len(t) = IF Len(s) < n THEN Len(s) ELSE n
             /\ DOMAIN t = 1 .. Len(t)
             /\ \A i \in DOMAIN t : i \in DOMAIN s /\ t[i] = s[i]
<1> DEFINE k == IF Len(s) < n THEN Len(s) ELSE n
<1>1. k \in 0 .. Len(s) /\ Take(s, n) = SubSeq(s, 1, k)
  BY DEF Take
<1> HIDE DEF k
<1>2. /\ SubSeq(s, 1, k) \in Seq(S)
      /\ Len(SubSeq(s, 1, k)) = k
      /\ \A i \in 1 .. k : SubSeq(s, 1, k)[i] = s[i]
  BY <1>1
<1>3. DOMAIN SubSeq(s, 1, k) = 1 .. k /\ DOMAIN s = 1 .. Len(s)
  BY <1>1, <1>2
<1> QED BY <1>1, <1>2, <1>3 DEF k

(* One more at the end.                                                    *)
LEMMA AppendIs ==
  ASSUME NEW S, NEW s \in Seq(S), NEW p \in S
  PROVE  LET t == Append(s, p)
         IN  /\ t \in Seq(S) /\ Len(t) = Len(s) + 1
             /\ \A i \in 1 .. Len(s) : t[i] = s[i]
             /\ t[Len(s) + 1] = p
             /\ InSeq(t) = InSeq(s) \cup {p}
             /\ Distinct(s) /\ p \notin InSeq(s) => Distinct(t)
<1>1. /\ Append(s, p) \in Seq(S) /\ Len(Append(s, p)) = Len(s) + 1
      /\ \A i \in 1 .. Len(s) : Append(s, p)[i] = s[i]
      /\ Append(s, p)[Len(s) + 1] = p
      /\ DOMAIN s = 1 .. Len(s) /\ DOMAIN Append(s, p) = 1 .. Len(s) + 1
      /\ Len(s) \in Nat
  OBVIOUS
<1> DEFINE t == Append(s, p)
           n == Len(s)
<1> HIDE DEF t, n
<1>2. /\ \A i \in 1 .. n : t[i] = s[i]
      /\ t[n + 1] = p /\ DOMAIN s = 1 .. n /\ DOMAIN t = 1 .. n + 1 /\ n \in Nat
  BY <1>1 DEF t, n
<1>3. \A i \in 1 .. n + 1 : i \in 1 .. n \/ i = n + 1
  BY <1>2
<1>4. InSeq(t) = InSeq(s) \cup {p}
  BY <1>2, <1>3 DEF InSeq
<1>5. Distinct(s) /\ p \notin InSeq(s) => Distinct(t)
  BY <1>2, <1>3 DEF InSeq, Distinct
<1> QED BY <1>1, <1>4, <1>5 DEF t, n

(* What one addition makes of the elites: the best of them and of the      *)
(* program, as many as there is room for.                                  *)
LEMMA EliteIs ==
  ASSUME NEW S \in SUBSET Programs, NEW e \in Seq(S), NEW p \in S,
         Len(e) <= EliteSize
  PROVE  LET r == Elite(e, p)
         IN  /\ r \in Seq(S) /\ Len(r) <= EliteSize /\ Len(r) >= 1
             /\ Len(e) = EliteSize => Len(r) = EliteSize
             /\ Descending(r)
             /\ InSeq(r) \subseteq InSeq(e) \cup {p}
             /\ \A q \in (InSeq(e) \cup {p}) \ InSeq(r) :
                  /\ Len(r) = EliteSize
                  /\ \A x \in InSeq(r) : ~Better(q, x)
             /\ \A q \in Programs :
                  Len(e) = EliteSize /\ (\A x \in InSeq(e) : ~Better(q, x)) =>
                    \A x \in InSeq(r) : ~Better(q, x)
             /\ p \notin InSeq(r) => InSeq(r) = InSeq(e)
             /\ Distinct(e) /\ p \notin InSeq(e) => Distinct(r)
<1> DEFINE u == Append(e, p)
           v == Sorted(u, Better)
           r == Elite(e, p)
<1>0. PICK n \in Nat, N \in Nat : n = Len(e) /\ N = n + 1
  OBVIOUS
<1>1. /\ \A q \in Programs : Key[q] \in Nat
      /\ EliteSize \in Nat /\ EliteSize >= 1
      /\ n <= EliteSize
      /\ DOMAIN e = 1 .. n
      /\ \A i \in 1 .. N : i = N \/ i \in 1 .. n
      /\ \A i \in 1 .. n : i \in 1 .. N /\ i # N
      /\ N \in 1 .. N
  BY <1>0, ArchiveAssumption
<1>2. /\ u \in Seq(S) /\ Len(u) = N
      /\ \A i \in 1 .. n : u[i] = e[i]
      /\ u[N] = p
      /\ InSeq(u) = InSeq(e) \cup {p}
      /\ Distinct(e) /\ p \notin InSeq(e) => Distinct(u)
      /\ DOMAIN u = 1 .. N
  BY <1>0, AppendIs
<1> HIDE DEF u
<1>3. /\ v \in Seq(S) /\ Len(v) = N /\ DOMAIN v = 1 .. N
      /\ InSeq(v) = InSeq(u) /\ Descending(v)
      /\ Distinct(u) => Distinct(v)
  BY <1>2, SortedIs
<1>4. r = Take(v, EliteSize)
  BY DEF u, Elite
<1>5. PICK f : /\ Arranges(f, N, 1 .. N)
               /\ v = [k \in 1 .. N |-> u[f[k]]]
  <2>1. \A i \in 1 .. N : Key[u[i]] \in Int
    BY <1>1, <1>2
  <2> QED BY <1>2, <2>1, SortedByKey
<1>6. /\ \A k \in 1 .. N : f[k] \in 1 .. N /\ v[k] = u[f[k]]
      /\ \A i \in 1 .. N : \E k \in 1 .. N : f[k] = i
      /\ \A k, l \in 1 .. N : f[k] = f[l] => k = l
  BY <1>5 DEF Arranges
<1>7. /\ r \in Seq(S) /\ Len(r) = IF N < EliteSize THEN N ELSE EliteSize
      /\ DOMAIN r = 1 .. Len(r)
      /\ \A i \in DOMAIN r : i \in 1 .. N /\ r[i] = v[i]
  BY <1>1, <1>3, <1>4, TakeIs
<1> HIDE DEF r, v
<1>8. Descending(r)
  BY <1>3, <1>7 DEF Descending
<1>9. InSeq(r) \subseteq InSeq(e) \cup {p}
  <2>1. InSeq(r) \subseteq InSeq(v)
    BY <1>3, <1>7 DEF InSeq
  <2> QED BY <1>2, <1>3, <2>1
<1>10. ASSUME NEW q \in (InSeq(e) \cup {p}) \ InSeq(r)
       PROVE  Len(r) = EliteSize /\ \A x \in InSeq(r) : ~Better(q, x)
  <2>1. PICK k \in 1 .. N : q = v[k]
    BY <1>2, <1>3 DEF InSeq
  <2>2. k \notin DOMAIN r
    BY <1>7, <2>1 DEF InSeq
  <2>3. Len(r) = EliteSize /\ \A i \in DOMAIN r : i < k
    BY <1>1, <1>7, <2>1, <2>2
  <2>4. ASSUME NEW i \in DOMAIN r PROVE ~Better(q, r[i])
    <3>1. i \in 1 .. N /\ r[i] = v[i] /\ Key[v[i]] >= Key[v[k]]
      BY <1>3, <1>7, <2>1, <2>3 DEF Descending
    <3>2. Key[v[i]] \in Nat /\ Key[v[k]] \in Nat
      BY <1>1, <1>3, <2>1, <3>1
    <3> QED BY <2>1, <3>1, <3>2 DEF Better
  <2> QED BY <2>3, <2>4 DEF InSeq
<1>11. CASE N <= EliteSize
  <2>1. Len(r) = N
    BY <1>1, <1>7, <1>11
  <2>2. InSeq(r) = InSeq(v)
    BY <1>3, <1>7, <2>1 DEF InSeq
  <2>3. p \in InSeq(r) /\ n # EliteSize
    BY <1>1, <1>2, <1>3, <1>11, <2>2
  <2> QED BY <1>1, <1>2, <1>3, <1>7, <1>8, <1>9, <1>10, <2>1, <2>3 DEF r, Distinct
<1>12. CASE n = EliteSize
  <2>1. Len(r) = n /\ DOMAIN r = 1 .. n
    BY <1>1, <1>7, <1>12
  <2>2. CASE f[N] = N
    <3>1. \A k \in 1 .. n : f[k] \in 1 .. n /\ r[k] = e[f[k]]
      <4> SUFFICES ASSUME NEW k \in 1 .. n PROVE f[k] \in 1 .. n /\ r[k] = e[f[k]]
        OBVIOUS
      <4>1. k \in 1 .. N /\ N \in 1 .. N /\ k # N
        BY <1>1
      <4>2. f[k] \in 1 .. N /\ f[k] # N
        BY <1>6, <2>2, <4>1
      <4> QED BY <1>1, <1>2, <1>6, <1>7, <2>1, <4>1, <4>2
    <3>2. \A i \in 1 .. n : \E k \in 1 .. n : f[k] = i
      BY <1>1, <1>6, <2>2
    <3>3. InSeq(r) = InSeq(e)
      <4>1. InSeq(r) = {r[k] : k \in 1 .. n} /\ InSeq(e) = {e[i] : i \in 1 .. n}
        BY <1>1, <2>1 DEF InSeq
      <4>2. ASSUME NEW i \in 1 .. n PROVE \E k \in 1 .. n : r[k] = e[i]
        <5>1. PICK k \in 1 .. n : f[k] = i
          BY <3>2
        <5> QED BY <3>1, <5>1
      <4>3. ASSUME NEW k \in 1 .. n PROVE \E i \in 1 .. n : r[k] = e[i]
        BY <3>1
      <4> QED BY <4>1, <4>2, <4>3
    <3> QED BY <1>1, <1>2, <1>3, <1>7, <1>8, <1>9, <1>10, <1>12, <2>1, <3>3 DEF r, Distinct
  <2>3. CASE f[N] # N
    <3>1. PICK k \in 1 .. N : f[k] = N
      BY <1>1, <1>6
    <3>2. k \in 1 .. n /\ r[k] = p
      <4>1. k \in 1 .. n
        BY <1>1, <2>3, <3>1
      <4>2. r[k] = v[k] /\ v[k] = u[f[k]]
        BY <1>6, <1>7, <2>1, <4>1
      <4> QED BY <1>2, <3>1, <4>1, <4>2
    <3>3. p \in InSeq(r)
      BY <2>1, <3>2 DEF InSeq
    <3>4. PICK y \in InSeq(e) : y = v[N]
      <4>1. f[N] \in 1 .. n /\ v[N] = u[f[N]]
        BY <1>1, <1>6, <2>3
      <4>2. v[N] = e[f[N]]
        BY <1>2, <4>1
      <4> QED BY <1>1, <4>1, <4>2 DEF InSeq
    <3>5. ASSUME NEW q \in Programs, ~Better(q, y), NEW i \in DOMAIN r
          PROVE  ~Better(q, r[i])
      <4>1. i \in 1 .. N /\ i < N /\ N \in 1 .. N /\ r[i] = v[i]
        <5>1. i \in 1 .. n /\ r[i] = v[i]
          BY <1>7, <2>1
        <5> QED BY <1>0, <1>1, <5>1
      <4>2. Key[r[i]] >= Key[y]
        BY <1>3, <3>4, <4>1 DEF Descending
      <4>3. Key[r[i]] \in Nat /\ Key[y] \in Nat /\ Key[q] \in Nat
        BY <1>1, <1>3, <3>4, <4>1
      <4> QED BY <3>5, <4>2, <4>3 DEF Better
    <3>6. \A q \in Programs :
            (\A x \in InSeq(e) : ~Better(q, x)) =>
              \A x \in InSeq(r) : ~Better(q, x)
      BY <3>4, <3>5 DEF InSeq
    <3> QED BY <1>1, <1>2, <1>3, <1>7, <1>8, <1>9, <1>10, <1>12, <2>1, <3>3, <3>6 DEF r, Distinct
  <2> QED BY <2>2, <2>3
<1> QED BY <1>0, <1>1, <1>11, <1>12

(* The elements of a row that are in S.                                    *)
LEMMA ThoseIs ==
  ASSUME NEW T, NEW s \in Seq(T), NEW S
  PROVE  LET r == Those(s, S)
         IN  /\ r \in Seq(T) /\ Len(r) <= Len(s)
             /\ InSeq(r) = InSeq(s) \cap S
             /\ Distinct(s) => Distinct(r)
<1> DEFINE places == {i \in DOMAIN s : s[i] \in S}
           n == Cardinality(places)
           B == {x \in places \X places : x[1] < x[2]}
           earlier(i) == Cardinality({j \in places : j < i})
<1>1. /\ DOMAIN s = 1 .. Len(s) /\ Len(s) \in Nat
      /\ \A i \in DOMAIN s : s[i] \in T
  OBVIOUS
<1>2. IsFiniteSet(places) /\ n \in Nat /\ n <= Len(s)
  <2>1. places \in SUBSET (1 .. Len(s))
    BY <1>1
  <2>2. IsFiniteSet(1 .. Len(s)) /\ Cardinality(1 .. Len(s)) = Len(s)
    BY <1>1, FS_Interval
  <2> HIDE DEF places
  <2> QED BY <2>1, <2>2, FS_Subset, FS_CardinalityType
<1>3. Linear(B, places)
  <2>1. \A i, j \in places : <<i, j>> \in B <=> i < j
    OBVIOUS
  <2>2. \A i \in places : i \in Nat
    BY <1>1
  <2> HIDE DEF B, places
  <2> QED BY <2>1, <2>2 DEF Linear
<1>4. PICK f : /\ Arranges(f, n, places)
               /\ \A k \in 1 .. n, i \in places :
                    Cardinality(Before(B, places, i)) = k - 1 <=> i = f[k]
  <2> HIDE DEF B, places
  <2> QED BY <1>2, <1>3, RowOf
<1>5. \A i \in places : earlier(i) = Cardinality(Before(B, places, i))
  <2> SUFFICES ASSUME NEW i \in places
               PROVE  {j \in places : j < i} = Before(B, places, i)
    OBVIOUS
  <2> QED BY DEF Before
<1>6. Those(s, S)
        = [k \in 1 .. n |-> s[CHOOSE i \in places : earlier(i) = k - 1]]
  BY DEF Those
<1>7. ASSUME NEW k \in 1 .. n
      PROVE  (CHOOSE i \in places : earlier(i) = k - 1) = f[k]
  <2> HIDE DEF earlier, B
  <2>1. f[k] \in places
    BY <1>4 DEF Arranges
  <2>2. \A i \in places : earlier(i) = k - 1 <=> i = f[k]
    BY <1>4, <1>5
  <2> HIDE DEF places
  <2> QED BY <2>1, <2>2
<1> DEFINE r == Those(s, S)
<1>8. r = [k \in 1 .. n |-> s[f[k]]]
  <2> HIDE DEF earlier, n, places
  <2> QED BY <1>6, <1>7
<1>9. /\ \A k \in 1 .. n : f[k] \in places /\ f[k] \in DOMAIN s /\ r[k] = s[f[k]]
      /\ \A i \in places : \E k \in 1 .. n : f[k] = i
      /\ \A k, l \in 1 .. n : f[k] = f[l] => k = l
      /\ DOMAIN r = 1 .. n
  <2>1. \A i \in places : i \in DOMAIN s
    OBVIOUS
  <2> HIDE DEF places, n, r
  <2> QED BY <1>4, <1>8, <2>1 DEF Arranges
<1> HIDE DEF n, r
<1>10. r \in Seq(T) /\ Len(r) = n
  <2>1. \A k \in 1 .. n : s[f[k]] \in T
    BY <1>1, <1>9
  <2>2. r \in [1 .. n -> T]
    BY <1>8, <2>1
  <2> QED BY <1>2, <2>2
<1>11. InSeq(r) = InSeq(s) \cap S
  <2>1. InSeq(r) = {r[k] : k \in 1 .. n}
    BY <1>9 DEF InSeq
  <2>2. ASSUME NEW k \in 1 .. n PROVE r[k] \in InSeq(s) \cap S
    BY <1>9 DEF InSeq
  <2>3. ASSUME NEW q \in InSeq(s) \cap S PROVE \E k \in 1 .. n : r[k] = q
    <3>1. PICK i \in places : s[i] = q
      BY DEF InSeq
    <3>2. PICK k \in 1 .. n : f[k] = i
      BY <1>9
    <3> QED BY <1>9, <3>1, <3>2
  <2> QED BY <2>1, <2>2, <2>3
<1>12. Distinct(s) => Distinct(r)
  <2> SUFFICES ASSUME Distinct(s), NEW k \in 1 .. n, NEW l \in 1 .. n, r[k] = r[l]
               PROVE  k = l
    BY <1>9 DEF Distinct
  <2>1. f[k] = f[l]
    BY <1>9 DEF Distinct
  <2> QED BY <1>9, <2>1
<1> QED BY <1>2, <1>10, <1>11, <1>12 DEF r

(***************************************************************************)
(* Crowding.                                                               *)
(***************************************************************************)
(* The row of a metric.                                                    *)
LEMMA AscendingIs ==
  ASSUME NEW s \in Seq(Measured), NEW m \in Metrics
  PROVE  LET row == Ascending(s, m)
         IN  /\ row \in Seq(Measured) /\ Len(row) = Len(s)
             /\ DOMAIN row = 1 .. Len(s)
             /\ InSeq(row) = InSeq(s)
             /\ \A k, l \in 1 .. Len(s) :
                  k <= l => Vector[row[k]][m] <= Vector[row[l]][m]
             /\ \A k \in 1 .. Len(s) : Vector[row[k]][m] \in Nat
<1> DEFINE row == Ascending(s, m)
<1>0. PICK n \in Nat : n = Len(s)
  OBVIOUS
<1>1. /\ DOMAIN s = 1 .. n /\ \A i \in 1 .. n : s[i] \in Measured
      /\ \A p \in Measured : Vector[p][m] \in Nat
  BY <1>0, ArchiveAssumption
<1>2. PICK f : /\ Arranges(f, n, 1 .. n)
               /\ row = [k \in 1 .. n |-> s[f[k]]]
               /\ \A k, l \in 1 .. n :
                    k < l => Vector[s[f[k]]][m] <= Vector[s[f[l]]][m]
  <2>1. \A i \in 1 .. n : Vector[s[i]][m] \in Int
    BY <1>1
  <2> HIDE DEF row
  <2> QED BY <1>1, <2>1, SortedByValue, Zenon DEF row
<1> HIDE DEF row
<1>3. /\ \A k \in 1 .. n : f[k] \in 1 .. n /\ row[k] = s[f[k]]
      /\ \A i \in 1 .. n : \E k \in 1 .. n : f[k] = i
      /\ DOMAIN row = 1 .. n
  BY <1>2 DEF Arranges
<1>4. row \in Seq(Measured) /\ Len(row) = n
  <2>1. row \in [1 .. n -> Measured]
    BY <1>1, <1>2, <1>3
  <2> QED BY <1>1, <2>1
<1>5. InSeq(row) = InSeq(s)
  <2>1. InSeq(row) = {row[k] : k \in 1 .. n} /\ InSeq(s) = {s[i] : i \in 1 .. n}
    BY <1>1, <1>3 DEF InSeq
  <2>2. ASSUME NEW i \in 1 .. n PROVE \E k \in 1 .. n : row[k] = s[i]
    <3>1. PICK k \in 1 .. n : f[k] = i
      BY <1>3
    <3> QED BY <1>3, <3>1
  <2>3. ASSUME NEW k \in 1 .. n PROVE \E i \in 1 .. n : row[k] = s[i]
    BY <1>3
  <2> QED BY <2>1, <2>2, <2>3
<1>6. \A k \in 1 .. n : Vector[row[k]][m] \in Nat
  BY <1>1, <1>3
<1>7. ASSUME NEW k \in 1 .. n, NEW l \in 1 .. n, k <= l
      PROVE  Vector[row[k]][m] <= Vector[row[l]][m]
  <2>1. CASE k = l
    BY <1>6, <2>1
  <2>2. CASE k < l
    BY <1>2, <1>3, <2>2
  <2> QED BY <1>7, <2>1, <2>2
<1> QED BY <1>0, <1>3, <1>4, <1>5, <1>6, <1>7 DEF row

(* A share of c is at most c.                                              *)
LEMMA Share ==
  ASSUME NEW a \in Nat, NEW b \in Nat, NEW c \in Nat, a <= b, b # 0
  PROVE  (a * c) \div b \in 0 .. c
<1>1. PICK x \in Nat : x = a * c
  OBVIOUS
<1>2. PICK q \in Int, r \in Int : /\ q = x \div b /\ r = x % b
                                 /\ x = b * q + r /\ 0 <= r /\ r < b
  OBVIOUS
<1>3. x <= b * c
  <2>1. PICK d \in Nat : b = a + d
    <3>1. b - a \in Nat
      OBVIOUS
    <3>2. b = a + (b - a)
      OBVIOUS
    <3> QED BY <3>1, <3>2
  <2>2. b * c = a * c + d * c
    BY <2>1
  <2>3. d * c \in Nat
    OBVIOUS
  <2> QED BY <1>1, <2>2, <2>3
<1>4. q <= c
  <2> SUFFICES ASSUME q >= c + 1 PROVE FALSE
    OBVIOUS
  <2>1. PICK e \in Nat : q = c + 1 + e
    <3>1. q - (c + 1) \in Nat /\ q = c + 1 + (q - (c + 1))
      OBVIOUS
    <3> QED BY <3>1
  <2>2. b * q = b * c + b + b * e
    BY <2>1
  <2>3. b * e \in Nat /\ b * c \in Nat
    OBVIOUS
  <2> QED BY <1>2, <1>3, <2>2, <2>3
<1>5. q >= 0
  <2> SUFFICES ASSUME q <= -1 PROVE FALSE
    BY <1>2
  <2>1. PICK e \in Nat : q = -1 - e
    <3>1. -1 - q \in Nat /\ q = -1 - (-1 - q)
      OBVIOUS
    <3> QED BY <3>1
  <2>2. b * q = -b - b * e
    BY <2>1
  <2>3. b * e \in Nat
    OBVIOUS
  <2> QED BY <1>1, <1>2, <2>2, <2>3
<1> QED BY <1>1, <1>2, <1>4, <1>5

(* The gap around what is no end of its row is a share of Scale.           *)
LEMMA GapIs ==
  ASSUME NEW s \in Seq(Measured), NEW p \in InSeq(s), NEW m \in Metrics,
         ~Extreme(s, p, m)
  PROVE  Gap(s, p, m) \in 0 .. Scale
<1> DEFINE row == Ascending(s, m)
           i == CHOOSE j \in DOMAIN s : row[j] = p
           v(k) == Vector[row[k]][m]
           span == v(Len(s)) - v(1)
<1>0. PICK n \in Nat : n = Len(s)
  OBVIOUS
<1>1. /\ DOMAIN s = 1 .. n /\ DOMAIN row = 1 .. n
      /\ InSeq(row) = InSeq(s)
      /\ \A k, l \in 1 .. n : k <= l => v(k) <= v(l)
      /\ \A k \in 1 .. n : v(k) \in Nat
  BY <1>0, AscendingIs
<1>2. p # row[1] /\ p # row[n]
  BY <1>0 DEF Extreme
<1>3. Gap(s, p, m) = IF span = 0 THEN 0
                     ELSE ((v(i + 1) - v(i - 1)) * Scale) \div span
  BY DEF Gap
<1> HIDE DEF row
<1>4. i \in 1 .. n /\ row[i] = p
  BY <1>1 DEF InSeq
<1> HIDE DEF i
<1>5. i # 1 /\ i # n
  BY <1>2, <1>4
<1>6. /\ 1 \in 1 .. n /\ n \in 1 .. n /\ i - 1 \in 1 .. n /\ i + 1 \in 1 .. n
      /\ 1 <= i - 1 /\ i - 1 <= i + 1 /\ i + 1 <= n
  BY <1>4, <1>5
<1> HIDE DEF v
<1>7. v(1) <= v(i - 1) /\ v(i - 1) <= v(i + 1) /\ v(i + 1) <= v(n)
  BY <1>1, <1>6
<1>8. PICK a \in Nat, b \in Nat : a = v(i + 1) - v(i - 1) /\ b = v(n) - v(1) /\ a <= b
  BY <1>1, <1>6, <1>7
<1>9. Scale \in Nat
  BY ArchiveAssumption
<1>10. span = b
  BY <1>0, <1>8
<1> HIDE DEF span
<1>11. CASE span = 0
  BY <1>3, <1>9, <1>11
<1>12. CASE span # 0
  BY <1>3, <1>8, <1>9, <1>10, <1>12, Share
<1> QED BY <1>11, <1>12

(***************************************************************************)
(* Sums.  They are a recursive function on the subsets of a set; what is   *)
(* true of it is true of the least subset.                                 *)
(***************************************************************************)
Adds(g, f, S) ==
  g = [s \in SUBSET S |->
        IF s = {} THEN 0
        ELSE LET x == CHOOSE x \in s : TRUE IN f[x] + g[s \ {x}]]

(* The equation, and a function that satisfies it on the small subsets.    *)
OneMore(g, f, s) ==
  IF s = {} THEN 0 ELSE LET x == CHOOSE x \in s : TRUE IN f[x] + g[s \ {x}]
AddsUpTo(g, f, S, k) ==
  \A s \in SUBSET S : Cardinality(s) <= k => g[s] = OneMore(g, f, s)


(* The natural numbers are well founded.                                   *)
LEMMA LeastNumber ==
  ASSUME NEW S \in SUBSET Nat, S # {}
  PROVE  \E i \in S : \A j \in S : i <= j
<1>1. IsWellFoundedOn(OpToRel(<, Nat), Nat)
  BY NatLessThanWellFounded
<1>2. PICK i \in S : \A j \in S : ~(<<j, i>> \in OpToRel(<, Nat))
  BY <1>1, WFMin
<1>3. \A j \in S : ~(j < i)
  BY <1>2 DEF OpToRel
<1> QED BY <1>3

(* Of the subsets in a family, one is smallest: what is smaller by an      *)
(* element is not in the family.                                           *)
LEMMA LeastSubset ==
  ASSUME NEW S, IsFiniteSet(S), NEW F \in SUBSET SUBSET S, F # {}
  PROVE  \E s \in F : \A x \in s : s \ {x} \notin F
<1> DEFINE C == {Cardinality(s) : s \in F}
<1>1. \A s \in SUBSET S : IsFiniteSet(s) /\ Cardinality(s) \in Nat
  BY FS_Subset, FS_CardinalityType
<1>2. C \in SUBSET Nat /\ C # {}
  BY <1>1
<1>3. PICK c \in C : \A d \in C : c <= d
  <2> HIDE DEF C
  <2> QED BY <1>2, LeastNumber
<1>4. PICK s \in F : Cardinality(s) = c
  BY <1>3
<1>5. ASSUME NEW x \in s, s \ {x} \in F PROVE FALSE
  <2>1. Cardinality(s \ {x}) = Cardinality(s) - 1
    BY <1>1, <1>4, FS_RemoveElement
  <2>2. c <= Cardinality(s \ {x})
    BY <1>3, <1>5
  <2> QED BY <1>1, <1>2, <1>3, <1>4, <2>1, <2>2
<1> QED BY <1>4, <1>5

(* The two cases of the equation of sums.                                  *)
LEMMA OneMoreIs ==
  ASSUME NEW s
  PROVE  \/ s = {} /\ \A f, g : OneMore(g, f, s) = 0
         \/ \E x \in s : \A f, g : OneMore(g, f, s) = f[x] + g[s \ {x}]
<1>1. CASE s = {}
  BY <1>1 DEF OneMore
<1>2. CASE s # {}
  <2>1. (CHOOSE x \in s : TRUE) \in s
    BY <1>2
  <2> QED BY <1>2, <2>1 DEF OneMore
<1> QED BY <1>1, <1>2

(* On the subsets of a finite set the equation of sums has a solution.     *)
LEMMA AddsExists ==
  ASSUME NEW S, IsFiniteSet(S), NEW f
  PROVE  \E g : Adds(g, f, S)
<1> DEFINE bad == {k \in Nat : ~ \E g : AddsUpTo(g, f, S, k)}
<1>1. \A s \in SUBSET S : IsFiniteSet(s) /\ Cardinality(s) \in Nat
  BY FS_Subset, FS_CardinalityType
<1>2. bad = {}
  <2> SUFFICES ASSUME bad # {} PROVE FALSE
    OBVIOUS
  <2>1. PICK k \in bad : \A j \in bad : k <= j
    BY LeastNumber
  <2>2. CASE k = 0
    <3> DEFINE g == [s \in SUBSET S |-> 0]
    <3>1. ASSUME NEW s \in SUBSET S, Cardinality(s) <= 0
          PROVE  g[s] = OneMore(g, f, s)
      <4>1. s = {}
        BY <1>1, <3>1, FS_EmptySet
      <4> QED BY <4>1 DEF OneMore
    <3>2. AddsUpTo(g, f, S, 0)
      BY <3>1 DEF AddsUpTo
    <3> QED BY <2>1, <2>2, <3>2
  <2>3. CASE k > 0
    <3>1. k - 1 \in Nat /\ k - 1 \notin bad
      BY <2>1, <2>3
    <3>2. PICK g : AddsUpTo(g, f, S, k - 1)
      BY <3>1
    <3> DEFINE h == [s \in SUBSET S |->
                       IF Cardinality(s) <= k - 1 THEN g[s]
                                                  ELSE OneMore(g, f, s)]
    <3>3. ASSUME NEW s \in SUBSET S, Cardinality(s) <= k
          PROVE  h[s] = OneMore(h, f, s)
      <4>1. h[s] = OneMore(g, f, s)
        BY <3>2 DEF AddsUpTo
      <4>2. CASE \A e, g1 : OneMore(g1, e, s) = 0
        BY <4>1, <4>2
      <4>3. ASSUME NEW x \in s,
                   \A e, g1 : OneMore(g1, e, s) = e[x] + g1[s \ {x}]
            PROVE  h[s] = OneMore(h, f, s)
        <5>1. Cardinality(s \ {x}) = Cardinality(s) - 1
          BY <1>1, FS_RemoveElement
        <5>2. h[s \ {x}] = g[s \ {x}]
          BY <1>1, <2>1, <3>3, <5>1
        <5> HIDE DEF h
        <5> QED BY <4>1, <4>3, <5>2
      <4> QED BY <4>2, <4>3, OneMoreIs
    <3>4. AddsUpTo(h, f, S, k)
      BY <3>3 DEF AddsUpTo
    <3> QED BY <2>1, <3>4
  <2> QED BY <2>1, <2>2, <2>3
<1>3. PICK g : AddsUpTo(g, f, S, Cardinality(S))
  <2>1. Cardinality(S) \in Nat
    BY <1>1
  <2> QED BY <1>2, <2>1
<1> DEFINE h == [s \in SUBSET S |-> g[s]]
<1>4. ASSUME NEW s \in SUBSET S PROVE g[s] = OneMore(h, f, s)
  <2>1. Cardinality(s) <= Cardinality(S)
    BY FS_Subset
  <2>2. g[s] = OneMore(g, f, s)
    BY <1>3, <2>1 DEF AddsUpTo
  <2>3. CASE \A e, g1 : OneMore(g1, e, s) = 0
    BY <2>2, <2>3
  <2>4. ASSUME NEW x \in s,
               \A e, g1 : OneMore(g1, e, s) = e[x] + g1[s \ {x}]
        PROVE  g[s] = OneMore(h, f, s)
    <3>1. h[s \ {x}] = g[s \ {x}]
      OBVIOUS
    <3> HIDE DEF h
    <3> QED BY <2>2, <2>4, <3>1
  <2> QED BY <2>3, <2>4, OneMoreIs
<1>5. h = [s \in SUBSET S |-> OneMore(h, f, s)]
  <2>1. h = [s \in SUBSET S |-> g[s]]
    OBVIOUS
  <2> HIDE DEF h
  <2> QED BY <1>4, <2>1
<1>6. Adds(h, f, S)
  <2> HIDE DEF h
  <2> QED BY <1>5 DEF Adds, OneMore
<1> QED BY <1>6

(* A solution satisfies the equation.                                      *)
LEMMA AddsStep ==
  ASSUME NEW S, NEW f, NEW g, Adds(g, f, S), NEW s \in SUBSET S
  PROVE  g[s] = OneMore(g, f, s)
  BY DEF Adds, OneMore

(* A sum of shares of at most b.                                           *)
LEMMA SumBound ==
  ASSUME NEW S, IsFiniteSet(S), NEW f, DOMAIN f = S, NEW b \in Nat,
         \A x \in S : f[x] \in 0 .. b
  PROVE  SumFunction(f) \in Nat /\ SumFunction(f) <= b * Cardinality(S)
<1>1. PICK g : Adds(g, f, S) /\ SumFunction(f) = g[S]
  <2>1. SumFunction(f) = (CHOOSE g : Adds(g, f, S))[S]
    BY DEF SumFunction, SumFunctionOnSet, FoldFunctionOnSet, MapThenFoldSet, Adds
  <2> QED BY <2>1, AddsExists
<1> DEFINE good(t) == g[t] \in Nat /\ g[t] <= b * Cardinality(t)
           F == {t \in SUBSET S : ~good(t)}
<1>2. CASE F # {}
  <2>1. PICK t \in F : \A y \in t : t \ {y} \notin F
    <3> HIDE DEF F
    <3>1. F \in SUBSET SUBSET S
      BY DEF F
    <3> QED BY <1>2, <3>1, LeastSubset
  <2>2. t \in SUBSET S /\ ~good(t) /\ g[t] = OneMore(g, f, t)
    BY <1>1, <2>1, AddsStep
  <2>3. IsFiniteSet(t) /\ Cardinality(t) \in Nat
    BY <2>2, FS_Subset, FS_CardinalityType
  <2>4. CASE t = {} /\ \A e, g1 : OneMore(g1, e, t) = 0
    <3>1. Cardinality(t) = 0 /\ g[t] = 0
      BY <2>2, <2>4, FS_EmptySet
    <3> QED BY <2>2, <3>1
  <2>5. ASSUME NEW y \in t, \A e, g1 : OneMore(g1, e, t) = e[y] + g1[t \ {y}]
        PROVE  FALSE
    <3>1. Cardinality(t \ {y}) = Cardinality(t) - 1
      BY <2>3, FS_RemoveElement
    <3>2. PICK c \in Int : c = Cardinality(t) - 1
      BY <2>3
    <3>3. g[t \ {y}] \in Nat /\ g[t \ {y}] <= b * c
      BY <2>1, <2>2, <3>1, <3>2
    <3>4. g[t] = f[y] + g[t \ {y}] /\ f[y] \in 0 .. b
      BY <2>2, <2>5
    <3>5. b * (c + 1) = b * c + b /\ b * c \in Int
      OBVIOUS
    <3>6. Cardinality(t) = c + 1
      BY <2>3, <3>2
    <3>7. g[t] \in Nat /\ g[t] <= b * (c + 1)
      BY <3>3, <3>4, <3>5
    <3> QED BY <2>2, <3>6, <3>7
  <2> QED BY <2>4, <2>5, OneMoreIs
<1>3. CASE F = {}
  <2>1. S \in SUBSET S
    OBVIOUS
  <2> QED BY <1>1, <1>3, <2>1
<1> QED BY <1>2, <1>3

(* An end of some metric is more crowded out by nothing; whatever is no    *)
(* end has a finite distance.                                              *)
LEMMA CrowdingIs ==
  ASSUME NEW s \in Seq(Measured), NEW p \in InSeq(s)
  PROVE  /\ Crowding(s, p) \in Nat
         /\ Crowding(s, p) <= Infinite
         /\ Crowding(s, p) = Infinite <=> \E m \in Metrics : Extreme(s, p, m)
<1>1. Scale \in Nat /\ IsFiniteSet(Metrics)
  BY ArchiveAssumption
<1>2. PICK c \in Nat : c = Cardinality(Metrics)
  BY <1>1, FS_CardinalityType
<1>3. Scale * c \in Nat /\ Infinite = Scale * c + 1
  BY <1>1, <1>2 DEF Infinite
<1>4. CASE \E m \in Metrics : Extreme(s, p, m)
  <2>1. Crowding(s, p) = Infinite
    BY <1>4 DEF Crowding
  <2> QED BY <1>3, <1>4, <2>1
<1>5. CASE ~\E m \in Metrics : Extreme(s, p, m)
  <2> DEFINE f == [m \in Metrics |-> Gap(s, p, m)]
  <2>1. Crowding(s, p) = SumFunction(f)
    BY <1>5 DEF Crowding
  <2>2. \A m \in Metrics : f[m] \in 0 .. Scale
    BY <1>5, GapIs
  <2>3. DOMAIN f = Metrics
    OBVIOUS
  <2> HIDE DEF f
  <2>4. SumFunction(f) \in Nat /\ SumFunction(f) <= Scale * c
    BY <1>1, <1>2, <2>2, <2>3, SumBound
  <2> QED BY <1>3, <1>5, <2>1, <2>4
<1> QED BY <1>4, <1>5

(****************************************************************************)
(* Trimming.                                                               *)
(****************************************************************************)
(* What trimming leaves: as much as there is room for, of what has most    *)
(* room around it.                                                         *)
LEMMA TrimmedIs ==
  ASSUME NEW S \in SUBSET Measured, NEW s \in Seq(S)
  PROVE  LET r == Trimmed(s)
         IN  /\ r \in Seq(S) /\ Len(r) <= EliteSize
             /\ InSeq(r) \subseteq InSeq(s)
             /\ Distinct(s) => Distinct(r)
             /\ \A p \in InSeq(s) \ InSeq(r) :
                  /\ Len(r) = EliteSize
                  /\ \A x \in InSeq(r) : Crowding(s, x) >= Crowding(s, p)
<1> DEFINE r == Trimmed(s)
<1>0. PICK n \in Nat : n = Len(s)
  OBVIOUS
<1>1. /\ DOMAIN s = 1 .. n /\ \A i \in 1 .. n : s[i] \in S
      /\ EliteSize \in Nat \ {0} /\ S \in SUBSET Programs
      /\ \A p \in S : Key[p] \in Nat
  BY <1>0, ArchiveAssumption
<1>2. CASE n <= EliteSize
  <2>1. r = Sorted(s, Better)
    BY <1>0, <1>2 DEF Trimmed
  <2>2. r \in Seq(S) /\ Len(r) = n /\ InSeq(r) = InSeq(s)
        /\ (Distinct(s) => Distinct(r))
    BY <1>0, <1>1, <2>1, SortedIs
  <2> QED BY <1>2, <2>2
<1>3. CASE n > EliteSize
  <2> DEFINE marked == [i \in DOMAIN s |-> <<s[i], Crowding(s, s[i])>>]
             row == Sorted(marked, Roomier)
  <2>1. r = [k \in 1 .. EliteSize |-> row[k][1]]
    BY <1>0, <1>1, <1>3 DEF Trimmed
  <2>2. s \in Seq(Measured)
    OBVIOUS
  <2>3. \A i \in 1 .. n : /\ marked[i][1] = s[i]
                          /\ marked[i][2] = Crowding(s, s[i])
                          /\ Key[s[i]] \in Int
                          /\ Crowding(s, s[i]) \in Nat
    <3> SUFFICES ASSUME NEW i \in 1 .. n
                 PROVE  Key[s[i]] \in Int /\ Crowding(s, s[i]) \in Nat
      BY <1>1
    <3>1. s[i] \in InSeq(s)
      BY <1>1 DEF InSeq
    <3> QED BY <1>1, <2>2, <3>1, CrowdingIs
  <2>4. DOMAIN marked = 1 .. n
    BY <1>1
  <2>5. PICK f : /\ Arranges(f, n, 1 .. n)
                 /\ row = [k \in 1 .. n |-> marked[f[k]]]
                 /\ \A k, l \in 1 .. n :
                      k < l => marked[f[k]][2] >= marked[f[l]][2]
    <3>1. ASSUME NEW i \in 1 .. n
          PROVE  Key[marked[i][1]] \in Int /\ marked[i][2] \in Int
      <4>1. marked[i][1] = s[i]
        BY <2>3
      <4>2. marked[i][2] \in Int
        <5> HIDE DEF marked
        <5> QED BY <2>3
      <4>3. Key[s[i]] \in Int
        BY <2>3
      <4> HIDE DEF marked
      <4> QED BY <4>1, <4>2, <4>3, Zenon
    <3> HIDE DEF marked, row
    <3> QED BY <2>4, <3>1, SortedByCrowding, Zenon DEF row
  <2> HIDE DEF marked, row, r
  <2>6. /\ \A k \in 1 .. n : f[k] \in 1 .. n /\ row[k] = marked[f[k]]
        /\ \A i \in 1 .. n : \E k \in 1 .. n : f[k] = i
        /\ \A k, l \in 1 .. n : f[k] = f[l] => k = l
    BY <2>5 DEF Arranges
  <2>7. ASSUME NEW k \in 1 .. EliteSize
        PROVE  /\ k \in 1 .. n /\ f[k] \in 1 .. n
               /\ r[k] = s[f[k]]
    <3>1. k \in 1 .. n
      BY <1>1, <1>3
    <3>2. f[k] \in 1 .. n /\ row[k] = marked[f[k]]
      BY <2>6, <3>1
    <3>3. marked[f[k]][1] = s[f[k]]
      BY <2>3, <3>2
    <3>4. r[k] = row[k][1]
      BY <2>1
    <3> QED BY <3>1, <3>2, <3>3, <3>4
  <2>8. DOMAIN r = 1 .. EliteSize
    BY <2>1
  <2>9. r \in Seq(S) /\ Len(r) = EliteSize
    <3>1. r \in [1 .. EliteSize -> S]
      <4>1. \A k \in 1 .. EliteSize : row[k][1] = s[f[k]]
        BY <2>3, <2>6, <2>7
      <4> QED BY <1>1, <2>1, <2>7, <4>1
    <3> QED BY <1>1, <3>1
  <2>10. InSeq(r) \subseteq InSeq(s)
    BY <1>1, <2>7, <2>8 DEF InSeq
  <2>11. Distinct(s) => Distinct(r)
    <3> SUFFICES ASSUME Distinct(s), NEW k \in 1 .. EliteSize,
                        NEW l \in 1 .. EliteSize, r[k] = r[l]
                 PROVE  k = l
      BY <2>8 DEF Distinct
    <3>1. f[k] = f[l]
      BY <1>1, <2>7 DEF Distinct
    <3> QED BY <2>6, <2>7, <3>1
  <2>12. ASSUME NEW p \in InSeq(s) \ InSeq(r), NEW x \in InSeq(r)
         PROVE  Crowding(s, x) >= Crowding(s, p)
    <3>1. PICK i \in 1 .. n : p = s[i]
      BY <1>1 DEF InSeq
    <3>2. PICK l \in 1 .. n : f[l] = i
      BY <2>6
    <3>3. PICK k \in 1 .. EliteSize : x = r[k]
      BY <2>8 DEF InSeq
    <3>4. l \notin 1 .. EliteSize
      BY <2>7, <2>8, <2>12, <3>1, <3>2 DEF InSeq
    <3>5. k < l /\ k \in 1 .. n
      BY <1>1, <1>3, <3>4
    <3>6. marked[f[k]][2] >= marked[f[l]][2]
      <4> HIDE DEF Crowding
      <4> QED BY <2>5, <3>5, Zenon
    <3>7. f[k] \in 1 .. n /\ f[l] \in 1 .. n
      BY <2>6, <3>5
    <3>8. /\ marked[f[k]][2] = Crowding(s, s[f[k]])
          /\ marked[f[l]][2] = Crowding(s, s[f[l]])
      BY <2>3, <3>7, Zenon
    <3>9. s[f[k]] = x /\ s[f[l]] = p
      BY <2>7, <3>1, <3>2, <3>3
    <3> QED BY <3>6, <3>8, <3>9, Zenon
  <2> QED BY <1>1, <2>9, <2>10, <2>11, <2>12 DEF r
<1> QED BY <1>1, <1>2, <1>3

(* A row without repetitions holds as many as it is long.                  *)
LEMMA DistinctCount ==
  ASSUME NEW T, NEW r \in Seq(T), Distinct(r)
  PROVE  IsFiniteSet(InSeq(r)) /\ Cardinality(InSeq(r)) = Len(r)
<1>0. PICK n \in Nat : n = Len(r)
  OBVIOUS
<1>1. DOMAIN r = 1 .. n
  BY <1>0
<1>2. IsFiniteSet(1 .. n) /\ Cardinality(1 .. n) = n
  BY FS_Interval
<1> DEFINE I == InSeq(r)
<1>3. I = {r[k] : k \in 1 .. n}
  BY <1>1 DEF InSeq
<1> HIDE DEF I
<1>4. DEFINE f == [k \in 1 .. n |-> r[k]]
<1>5. f \in Surjection(1 .. n, I)
  BY <1>3 DEF Surjection
<1>6. f \in Injection(1 .. n, I)
  BY <1>1, <1>3 DEF Injection, IsInjective, Distinct
<1> HIDE DEF f
<1>7. IsFiniteSet(I) /\ Cardinality(I) = n
  BY <1>2, <1>5, <1>6, FS_Surjection
<1> QED BY <1>0, <1>7 DEF I

NonDominating(s) == \A p, q \in InSeq(s) : ~Dominates(p, q)

(* The last of the row of a metric.                                        *)
Top(s, m) == Ascending(s, m)[Len(s)]

(* The last of the row of a metric is an end of it, and greatest.          *)
LEMMA TopIs ==
  ASSUME NEW s \in Seq(Measured), s # << >>, NEW m \in Metrics
  PROVE  /\ Top(s, m) \in InSeq(s) /\ Extreme(s, Top(s, m), m)
         /\ \A p \in InSeq(s) : Vector[Top(s, m)][m] >= Vector[p][m]
<1> DEFINE row == Ascending(s, m)
<1>0. PICK n \in Nat \ {0} : n = Len(s)
  OBVIOUS
<1>1. /\ DOMAIN row = 1 .. n /\ InSeq(row) = InSeq(s)
      /\ \A k, l \in 1 .. n : k <= l => Vector[row[k]][m] <= Vector[row[l]][m]
      /\ \A k \in 1 .. n : Vector[row[k]][m] \in Nat
  BY <1>0, AscendingIs
<1>2. Top(s, m) = row[n]
  BY <1>0 DEF Top
<1>3. Extreme(s, Top(s, m), m)
  BY DEF Extreme, Top
<1> HIDE DEF row
<1>4. row[n] \in InSeq(s)
  <2>1. n \in 1 .. n
    OBVIOUS
  <2>2. row[n] \in InSeq(row)
    BY <1>1, <2>1 DEF InSeq
  <2> QED BY <1>1, <2>2
<1>5. ASSUME NEW p \in InSeq(s) PROVE Vector[row[n]][m] >= Vector[p][m]
  <2>1. PICK k \in 1 .. n : row[k] = p
    BY <1>1 DEF InSeq
  <2>2. Vector[row[k]][m] <= Vector[row[n]][m] /\ Vector[row[k]][m] \in Nat
        /\ Vector[row[n]][m] \in Nat
    BY <1>1
  <2> QED BY <2>1, <2>2
<1> QED BY <1>2, <1>3, <1>4, <1>5

(* There is room for all the ends.                                         *)
LEMMA FewEnds ==
  ASSUME NEW s \in Seq(Measured), s # << >>, RoomForEnds, NonDominating(s)
  PROVE  \E E : /\ IsFiniteSet(E) /\ Cardinality(E) <= EliteSize
                /\ \A p \in InSeq(s), m \in Metrics : Extreme(s, p, m) => p \in E
<1>0. PICK n \in Nat \ {0} : n = Len(s)
  OBVIOUS
<1> DEFINE low(m) == Ascending(s, m)[1]
           high(m) == Ascending(s, m)[n]
           lows == {low(m) : m \in Metrics}
           highs == {high(m) : m \in Metrics}
<1>1. \A p \in InSeq(s), m \in Metrics :
        Extreme(s, p, m) => p \in lows \cup highs
  BY <1>0 DEF Extreme
<1>2. IsFiniteSet(Metrics) /\ Cardinality(Metrics) \in Nat
      /\ EliteSize \in Nat
  BY ArchiveAssumption, FS_CardinalityType
<1>3. CASE EliteSize >= 2 * Cardinality(Metrics)
  <2>1. IsFiniteSet(lows) /\ Cardinality(lows) <= Cardinality(Metrics)
    <3> DEFINE f == [m \in Metrics |-> low(m)]
    <3>1. f \in Surjection(Metrics, lows)
      BY DEF Surjection
    <3> HIDE DEF f, lows
    <3> QED BY <1>2, <3>1, FS_Surjection
  <2>2. IsFiniteSet(highs) /\ Cardinality(highs) <= Cardinality(Metrics)
    <3> DEFINE f == [m \in Metrics |-> high(m)]
    <3>1. f \in Surjection(Metrics, highs)
      BY DEF Surjection
    <3> HIDE DEF f, highs
    <3> QED BY <1>2, <3>1, FS_Surjection
  <2> HIDE DEF lows, highs
  <2>3. /\ IsFiniteSet(lows \cup highs)
        /\ Cardinality(lows \cup highs)
             = Cardinality(lows) + Cardinality(highs) - Cardinality(lows \cap highs)
    BY <2>1, <2>2, FS_Union
  <2>4. Cardinality(lows) \in Nat /\ Cardinality(highs) \in Nat
        /\ Cardinality(lows \cap highs) \in Nat
    BY <2>1, <2>2, FS_Intersection, FS_CardinalityType
  <2>5. Cardinality(lows \cup highs) <= EliteSize
    BY <1>2, <1>3, <2>1, <2>2, <2>3, <2>4
  <2> QED BY <1>1, <2>3, <2>5
<1>4. CASE /\ EliteSize >= 2 /\ Cardinality(Metrics) = 2
           /\ \A p, q \in Measured : Vector[p] = Vector[q] => p = q
  <2>1. PICK a, b : Metrics = {a, b}
    <3>1. Metrics # {}
      BY <1>2, <1>4, FS_EmptySet
    <3>2. PICK a : a \in Metrics
      BY <3>1
    <3>3. IsFiniteSet(Metrics \ {a}) /\ Cardinality(Metrics \ {a}) = 1
      BY <1>2, <1>4, <3>2, FS_RemoveElement
    <3>4. \E b : Metrics \ {a} = {b}
      BY <3>3, FS_Singleton, Zenon
    <3>5. PICK b : Metrics \ {a} = {b}
      BY <3>4
    <3>6. Metrics = {a, b}
      BY <3>2, <3>5
    <3> QED BY <3>6
  <2>2. ASSUME NEW x \in Metrics, NEW y \in Metrics, Metrics = {x, y}
        PROVE  low(x) = high(y)
    <3>1. /\ low(x) \in InSeq(s) /\ high(y) \in InSeq(s)
          /\ Vector[high(y)][x] >= Vector[low(x)][x]
          /\ Vector[high(y)][y] >= Vector[low(x)][y]
      <4>1. /\ DOMAIN Ascending(s, x) = 1 .. n
            /\ InSeq(Ascending(s, x)) = InSeq(s)
            /\ \A k, l \in 1 .. n : k <= l =>
                 Vector[Ascending(s, x)[k]][x] <= Vector[Ascending(s, x)[l]][x]
        BY <1>0, AscendingIs
      <4>2. low(x) \in InSeq(s)
        BY <4>1 DEF InSeq
      <4>3. high(y) \in InSeq(s) /\ \A p \in InSeq(s) :
               Vector[high(y)][y] >= Vector[p][y]
        BY <1>0, TopIs DEF Top
      <4>4. PICK k \in 1 .. n : Ascending(s, x)[k] = high(y)
        BY <4>1, <4>3 DEF InSeq
      <4>5. Vector[low(x)][x] <= Vector[high(y)][x]
        BY <4>1, <4>4
      <4>6. Vector[low(x)][x] \in Nat /\ Vector[high(y)][x] \in Nat
        BY <4>2, <4>3, ArchiveAssumption DEF InSeq
      <4> HIDE DEF low, high
      <4> QED BY <4>2, <4>3, <4>5, <4>6
    <3> HIDE DEF low, high
    <3>2. low(x) \in Measured /\ high(y) \in Measured
      BY <3>1 DEF InSeq
    <3>3. ~Dominates(high(y), low(x))
      BY <3>1 DEF NonDominating
    <3>4. \A m \in Metrics : Vector[low(x)][m] \in Nat /\ Vector[high(y)][m] \in Nat
      BY <3>2, ArchiveAssumption
    <3>5. \A m \in Metrics : Vector[low(x)][m] = Vector[high(y)][m]
      BY <2>2, <3>1, <3>3, <3>4 DEF Dominates
    <3>6. Vector[low(x)] = Vector[high(y)]
      <4>1. Vector[low(x)] \in [Metrics -> Nat] /\ Vector[high(y)] \in [Metrics -> Nat]
        BY <3>2, ArchiveAssumption
      <4> QED BY <3>5, <4>1
    <3> QED BY <1>4, <3>2, <3>6
  <2>3. low(a) = high(b) /\ low(b) = high(a)
    <3>1. a \in Metrics /\ b \in Metrics /\ Metrics = {a, b} /\ Metrics = {b, a}
      BY <2>1
    <3> HIDE DEF low, high
    <3> QED BY <2>2, <3>1
  <2>4. lows \cup highs = {high(a)} \cup {high(b)}
    <3> HIDE DEF low, high
    <3> QED BY <2>1, <2>3
  <2>5. /\ IsFiniteSet({high(a)} \cup {high(b)})
        /\ Cardinality({high(a)} \cup {high(b)}) <= 2
    <3>1. IsFiniteSet({high(a)}) /\ Cardinality({high(a)}) = 1
      BY FS_Singleton
    <3> DEFINE A == {high(a)}
    <3>2. /\ IsFiniteSet(A \cup {high(b)})
          /\ Cardinality(A \cup {high(b)})
               = IF high(b) \in A THEN Cardinality(A) ELSE Cardinality(A) + 1
      <4> HIDE DEF A, high
      <4> QED BY <3>1, FS_AddElement, Zenon DEF A
    <3> HIDE DEF high
    <3> QED BY <3>1, <3>2
  <2>6. \A p \in InSeq(s), m \in Metrics :
          Extreme(s, p, m) => p \in {high(a)} \cup {high(b)}
    BY <1>1, <2>4
  <2> HIDE DEF high, lows, highs
  <2>7. Cardinality({high(a)} \cup {high(b)}) <= EliteSize
    <3>1. Cardinality({high(a)} \cup {high(b)}) \in Nat
      BY <2>5, FS_CardinalityType
    <3> QED BY <1>2, <1>4, <2>5, <3>1
  <2> QED BY <2>5, <2>6, <2>7
<1> QED BY <1>3, <1>4 DEF RoomForEnds

(* Trimming keeps both ends of every metric, where there is room for them.  *)
LEMMA EndsKept ==
  ASSUME NEW s \in Seq(Measured), RoomForEnds, NonDominating(s), Distinct(s),
         NEW p \in InSeq(s), NEW m \in Metrics, Extreme(s, p, m)
  PROVE  p \in InSeq(Trimmed(s))
<1> DEFINE r == Trimmed(s)
<1> SUFFICES ASSUME p \notin InSeq(r) PROVE FALSE
  OBVIOUS
<1>1. /\ r \in Seq(Measured)
      /\ InSeq(r) \subseteq InSeq(s)
      /\ Distinct(r)
      /\ Len(r) = EliteSize
      /\ \A x \in InSeq(r) : Crowding(s, x) >= Crowding(s, p)
  BY TrimmedIs
<1> HIDE DEF r
<1>2. s # << >>
  BY DEF InSeq
<1>3. PICK E : /\ IsFiniteSet(E) /\ Cardinality(E) <= EliteSize
               /\ \A q \in InSeq(s), k \in Metrics : Extreme(s, q, k) => q \in E
  BY <1>2, FewEnds
<1>4. Crowding(s, p) = Infinite /\ Crowding(s, p) \in Nat
  BY CrowdingIs
<1>5. ASSUME NEW x \in InSeq(r) PROVE x \in E
  <2>1. x \in InSeq(s)
    BY <1>1
  <2>2. Crowding(s, x) \in Nat /\ Crowding(s, x) <= Infinite
        /\ (Crowding(s, x) = Infinite <=> \E k \in Metrics : Extreme(s, x, k))
    BY <2>1, CrowdingIs
  <2>3. Crowding(s, x) >= Crowding(s, p)
    BY <1>1
  <2>4. Crowding(s, x) = Infinite
    BY <1>4, <2>2, <2>3
  <2> QED BY <1>3, <2>1, <2>2, <2>4
<1>6. p \in E
  BY <1>3
<1>7. IsFiniteSet(InSeq(r)) /\ Cardinality(InSeq(r)) = EliteSize
  BY <1>1, DistinctCount
<1>8. IsFiniteSet(E \ {p}) /\ Cardinality(E \ {p}) = Cardinality(E) - 1
  BY <1>3, <1>6, FS_RemoveElement
<1>9. InSeq(r) \in SUBSET (E \ {p})
  BY <1>5
<1>10. Cardinality(InSeq(r)) <= Cardinality(E \ {p})
  BY <1>8, <1>9, FS_Subset
<1>11. Cardinality(E) \in Nat /\ EliteSize \in Nat
  BY <1>3, FS_CardinalityType, ArchiveAssumption
<1> QED BY <1>3, <1>7, <1>8, <1>10, <1>11

(* The frontier with p, before it is trimmed.                              *)
LEMMA JoinedIs ==
  ASSUME NEW S \in SUBSET Measured, NEW f \in Seq(S), NEW p \in S
  PROVE  LET j == Joined(f, p)
         IN  /\ j \in Seq(S)
             /\ InSeq(j) \subseteq InSeq(f) \cup {p}
             /\ p \in InSeq(j)
             /\ \A q \in InSeq(f) \ InSeq(j) : Dominates(p, q)
             /\ Distinct(f) => Distinct(j)
             /\ NonDominating(f) /\ ~Dominated(f, p) => NonDominating(j)
<1> DEFINE kept == {q \in Rivals(f, p) : ~Dominates(p, q)}
           t == Those(f, kept)
           j == Joined(f, p)
<1>1. /\ t \in Seq(S)
      /\ InSeq(t) = InSeq(f) \cap kept
      /\ Distinct(f) => Distinct(t)
  BY ThoseIs
<1>2. j = Append(t, p)
  BY DEF Joined
<1>3. /\ \A q \in kept : q \in InSeq(f) /\ q # p /\ ~Dominates(p, q)
      /\ \A q \in InSeq(f) : q = p \/ q \in kept \/ Dominates(p, q)
  BY DEF Rivals
<1> HIDE DEF kept, t, j
<1>4. /\ j \in Seq(S)
      /\ InSeq(j) = InSeq(t) \cup {p}
      /\ Distinct(t) /\ p \notin InSeq(t) => Distinct(j)
  BY <1>1, <1>2, AppendIs
<1>5. p \notin InSeq(t)
  BY <1>1, <1>3
<1>6. ~Dominates(p, p)
  BY ArchiveAssumption DEF Dominates
<1>7. ASSUME NonDominating(f), ~Dominated(f, p),
             NEW a \in InSeq(j), NEW b \in InSeq(j)
      PROVE  ~Dominates(a, b)
  <2>1. \A q \in InSeq(f) : q # p => ~Dominates(q, p)
    BY <1>7 DEF Dominated, Rivals
  <2>2. /\ a = p \/ (a \in InSeq(f) /\ a # p /\ ~Dominates(p, a))
        /\ b = p \/ (b \in InSeq(f) /\ b # p /\ ~Dominates(p, b))
    BY <1>1, <1>3, <1>4, <1>7
  <2>3. a \in InSeq(f) /\ b \in InSeq(f) => ~Dominates(a, b)
    BY <1>7 DEF NonDominating
  <2> QED BY <1>6, <2>1, <2>2, <2>3
<1>8. NonDominating(f) /\ ~Dominated(f, p) => NonDominating(j)
  BY <1>7 DEF NonDominating
<1>9. \A q \in InSeq(f) \ InSeq(j) : Dominates(p, q)
  BY <1>1, <1>3, <1>4
<1>10. InSeq(j) \subseteq InSeq(f) \cup {p} /\ p \in InSeq(j)
  BY <1>1, <1>4
<1>11. Distinct(f) => Distinct(j)
  BY <1>1, <1>4, <1>5
<1> QED BY <1>4, <1>8, <1>9, <1>10, <1>11 DEF j

(* For every metric, what x has is had by something in s.                  *)
Matched(s, x) ==
  \A m \in Metrics : \E q \in InSeq(s) : Vector[q][m] >= Vector[x][m]

(* Trimming loses the best value of no metric.                             *)
LEMMA TrimmedMatches ==
  ASSUME NEW S \in SUBSET Measured, NEW s \in Seq(S), RoomForEnds,
         NonDominating(s), Distinct(s), NEW x \in InSeq(s)
  PROVE  Matched(Trimmed(s), x)
<1> SUFFICES ASSUME NEW m \in Metrics
             PROVE  \E q \in InSeq(Trimmed(s)) : Vector[q][m] >= Vector[x][m]
  BY DEF Matched
<1>1. s \in Seq(Measured) /\ s # << >>
  BY DEF InSeq
<1>2. /\ Top(s, m) \in InSeq(s) /\ Extreme(s, Top(s, m), m)
      /\ Vector[Top(s, m)][m] >= Vector[x][m]
  BY <1>1, TopIs
<1>3. Top(s, m) \in InSeq(Trimmed(s))
  BY <1>1, <1>2, EndsKept
<1> QED BY <1>2, <1>3

(* What one addition makes of the frontier.                                *)
LEMMA FrontierIs ==
  ASSUME NEW S \in SUBSET Measured, NEW f \in Seq(S), NEW p,
         p \in Measured => p \in S
  PROVE  LET r == Frontier(f, p)
         IN  /\ r \in Seq(S)
             /\ Len(f) <= EliteSize => Len(r) <= EliteSize
             /\ InSeq(r) \subseteq InSeq(f) \cup {p}
             /\ Distinct(f) => Distinct(r)
             /\ NonDominating(f) => NonDominating(r)
             /\ RoomForEnds /\ Distinct(f) /\ NonDominating(f)
                /\ p \in Measured
                => Matched(r, p) /\ \A x \in InSeq(f) : Matched(r, x)
             /\ p \notin Measured \/ Dominated(f, p) => r = f
<1> DEFINE r == Frontier(f, p)
<1>1. \A x \in S, m \in Metrics : Vector[x][m] \in Nat
  BY ArchiveAssumption
<1>2. \A x \in InSeq(f) : x \in S /\ Matched(f, x)
  <2>1. \A x \in InSeq(f) : x \in S
    BY DEF InSeq
  <2> QED BY <1>1, <2>1 DEF Matched
<1>3. CASE p \notin Measured
  <2>1. r = f
    BY <1>3 DEF Frontier
  <2> HIDE DEF r
  <2>2. InSeq(f) \subseteq InSeq(f) \cup {p}
    OBVIOUS
  <2> QED BY <1>3, <2>1, <2>2 DEF r
<1>4. CASE p \in Measured /\ Dominated(f, p)
  <2>1. r = f
    BY <1>4 DEF Frontier
  <2>2. PICK q \in InSeq(f) : Dominates(q, p)
    BY <1>4 DEF Dominated, Rivals
  <2>3. Matched(f, p)
    BY <2>2 DEF Matched, Dominates
  <2>4. InSeq(f) \subseteq InSeq(f) \cup {p}
    OBVIOUS
  <2> HIDE DEF r
  <2> QED BY <1>2, <1>4, <2>1, <2>3, <2>4 DEF r
<1>5. CASE p \in Measured /\ ~Dominated(f, p)
  <2> DEFINE j == Joined(f, p)
  <2>1. r = Trimmed(j)
    BY <1>5 DEF Frontier
  <2>2. /\ j \in Seq(S)
        /\ InSeq(j) \subseteq InSeq(f) \cup {p}
        /\ p \in InSeq(j)
        /\ \A q \in InSeq(f) \ InSeq(j) : Dominates(p, q)
        /\ Distinct(f) => Distinct(j)
        /\ NonDominating(f) /\ ~Dominated(f, p) => NonDominating(j)
    BY <1>5, JoinedIs
  <2> HIDE DEF r, j
  <2>3. /\ r \in Seq(S) /\ Len(r) <= EliteSize
        /\ InSeq(r) \subseteq InSeq(j)
        /\ Distinct(j) => Distinct(r)
    BY <2>1, <2>2, TrimmedIs
  <2>4. NonDominating(f) => NonDominating(r)
    BY <1>5, <2>2, <2>3 DEF NonDominating
  <2>5. ASSUME RoomForEnds, Distinct(f), NonDominating(f)
        PROVE  Matched(r, p) /\ \A x \in InSeq(f) : Matched(r, x)
    <3>1. \A x \in InSeq(j) : Matched(r, x)
      BY <1>5, <2>1, <2>2, <2>5, TrimmedMatches
    <3>2. ASSUME NEW x \in InSeq(f), x \notin InSeq(j) PROVE Matched(r, x)
      <4>1. Dominates(p, x) /\ x \in S
        BY <1>2, <2>2, <3>2
      <4>2. Matched(r, p)
        BY <2>2, <3>1
      <4>3. InSeq(r) \subseteq S
        BY <2>3 DEF InSeq
      <4> SUFFICES ASSUME NEW m \in Metrics
                   PROVE  \E q \in InSeq(r) : Vector[q][m] >= Vector[x][m]
        BY DEF Matched
      <4>4. PICK q \in InSeq(r) : Vector[q][m] >= Vector[p][m]
        BY <4>2 DEF Matched
      <4>5. Vector[q][m] >= Vector[x][m]
        <5>1. /\ Vector[q][m] \in Nat /\ Vector[p][m] \in Nat
              /\ Vector[x][m] \in Nat
          BY <1>1, <1>5, <4>1, <4>3
        <5>2. Vector[p][m] >= Vector[x][m]
          BY <4>1 DEF Dominates
        <5> QED BY <4>4, <5>1, <5>2
      <4> QED BY <4>5
    <3> QED BY <2>2, <3>1, <3>2
  <2>6. InSeq(r) \subseteq InSeq(f) \cup {p}
    BY <2>2, <2>3
  <2> QED BY <1>5, <2>2, <2>3, <2>4, <2>5, <2>6 DEF r
<1> QED BY <1>3, <1>4, <1>5

(***************************************************************************)
(* What the rows of an archive owe to A, the valid programs that came.     *)
(***************************************************************************)
ElitesOf(e, A) ==
  /\ e \in Seq(Valid) /\ Len(e) <= EliteSize
  /\ Descending(e)
  /\ InSeq(e) \subseteq A
  /\ \A q \in A \ InSeq(e) :
       /\ Len(e) = EliteSize
       /\ \A x \in InSeq(e) : ~Better(q, x)

FrontierOf(f, A) ==
  /\ f \in Seq(Valid \cap Measured) /\ Len(f) <= EliteSize
  /\ InSeq(f) \subseteq A
  /\ Distinct(f) /\ NonDominating(f)
  /\ RoomForEnds => \A q \in A \cap Measured : Matched(f, q)

RowsInv ==
  /\ DOMAIN islands = IslandIds
  /\ \A i \in IslandIds : /\ ElitesOf(islands[i].elite, ArrivedAt(i))
                          /\ FrontierOf(islands[i].frontier, ArrivedAt(i))

(* An addition keeps what the elites owe to what came.                     *)
LEMMA ElitesAdded ==
  ASSUME NEW e, NEW A \in SUBSET Valid, ElitesOf(e, A), NEW p \in Valid
  PROVE  ElitesOf(Elite(e, p), A \cup {p})
<1> DEFINE r == Elite(e, p)
<1>1. Valid \in SUBSET Programs
  BY ArchiveAssumption
<1>2. e \in Seq(Valid) /\ Len(e) <= EliteSize
  BY DEF ElitesOf
<1>3. /\ r \in Seq(Valid) /\ Len(r) <= EliteSize
      /\ Len(e) = EliteSize => Len(r) = EliteSize
      /\ Descending(r)
      /\ InSeq(r) \subseteq InSeq(e) \cup {p}
      /\ \A q \in (InSeq(e) \cup {p}) \ InSeq(r) :
           /\ Len(r) = EliteSize
           /\ \A x \in InSeq(r) : ~Better(q, x)
      /\ \A q \in Programs :
           Len(e) = EliteSize /\ (\A x \in InSeq(e) : ~Better(q, x)) =>
             \A x \in InSeq(r) : ~Better(q, x)
  BY <1>1, <1>2, EliteIs
<1> HIDE DEF r
<1>4. InSeq(r) \subseteq A \cup {p}
  BY <1>3 DEF ElitesOf
<1>5. ASSUME NEW q \in (A \cup {p}) \ InSeq(r)
      PROVE  Len(r) = EliteSize /\ \A x \in InSeq(r) : ~Better(q, x)
  <2>1. CASE q \in InSeq(e) \cup {p}
    BY <1>3, <2>1
  <2>2. CASE q \notin InSeq(e) \cup {p}
    <3>1. /\ q \in Programs /\ Len(e) = EliteSize
          /\ \A x \in InSeq(e) : ~Better(q, x)
      BY <1>1, <2>2 DEF ElitesOf
    <3> QED BY <1>3, <3>1
  <2> QED BY <2>1, <2>2
<1> QED BY <1>3, <1>4, <1>5 DEF ElitesOf, r

(* An addition keeps what the frontier owes to what came.                  *)
LEMMA FrontierAdded ==
  ASSUME NEW f, NEW A \in SUBSET Valid, FrontierOf(f, A), NEW p \in Valid
  PROVE  FrontierOf(Frontier(f, p), A \cup {p})
<1> DEFINE r == Frontier(f, p)
           S == Valid \cap Measured
<1>1. /\ S \in SUBSET Measured /\ f \in Seq(S) /\ Len(f) <= EliteSize
      /\ Distinct(f) /\ NonDominating(f)
      /\ p \in Measured => p \in S
  BY DEF FrontierOf
<1>2. /\ r \in Seq(S)
      /\ Len(r) <= EliteSize
      /\ InSeq(r) \subseteq InSeq(f) \cup {p}
      /\ Distinct(r) /\ NonDominating(r)
      /\ RoomForEnds /\ p \in Measured
         => Matched(r, p) /\ \A x \in InSeq(f) : Matched(r, x)
      /\ p \notin Measured => r = f
  <2> HIDE DEF S
  <2> QED BY <1>1, FrontierIs
<1> HIDE DEF r
<1>3. ASSUME RoomForEnds, NEW q \in (A \cup {p}) \cap Measured
      PROVE  Matched(r, q)
  <2>1. q \in A => Matched(f, q)
    BY <1>3 DEF FrontierOf
  <2>2. CASE p \notin Measured
    BY <1>2, <1>3, <2>1, <2>2
  <2>3. CASE p \in Measured /\ q = p
    BY <1>2, <1>3, <2>3
  <2>4. CASE p \in Measured /\ q # p
    <3> SUFFICES ASSUME NEW m \in Metrics
                 PROVE  \E y \in InSeq(r) : Vector[y][m] >= Vector[q][m]
      BY DEF Matched
    <3>1. PICK x \in InSeq(f) : Vector[x][m] >= Vector[q][m]
      BY <1>3, <2>1, <2>4 DEF Matched
    <3>2. PICK y \in InSeq(r) : Vector[y][m] >= Vector[x][m]
      BY <1>2, <1>3, <2>4 DEF Matched
    <3>3. x \in Measured /\ y \in Measured
      BY <1>1, <1>2 DEF InSeq
    <3>4. /\ Vector[x][m] \in Nat /\ Vector[y][m] \in Nat
          /\ Vector[q][m] \in Nat
      BY <1>3, <3>3, ArchiveAssumption
    <3>5. Vector[y][m] >= Vector[q][m]
      BY <3>1, <3>2, <3>4
    <3> QED BY <3>5
  <2> QED BY <2>2, <2>3, <2>4
<1>4. InSeq(r) \subseteq A \cup {p}
  BY <1>2 DEF FrontierOf
<1> QED BY <1>2, <1>3, <1>4 DEF FrontierOf, r

(* Who has arrived, when someone is placed.                                *)
LEMMA Arrives ==
  ASSUME NEW k, NEW p, NEW cell, Place(k, p, cell), NEW i
  PROVE  /\ ArrivedAt(i)' = IF i = k /\ p \in Valid
                            THEN ArrivedAt(i) \cup {p} ELSE ArrivedAt(i)
         /\ ArrivedAt(i) \in SUBSET Valid
<1>1. placed' = placed \cup {<<k, p, cell>>}
  BY DEF Place
<1>2. {u \in placed' : u[1] = i}
        = IF i = k THEN {u \in placed : u[1] = i} \cup {<<k, p, cell>>}
          ELSE {u \in placed : u[1] = i}
  BY <1>1
<1>3. <<k, p, cell>>[2] = p
  OBVIOUS
<1> QED BY <1>2, <1>3 DEF ArrivedAt

(* Whoever is placed wherever, the rows are in order after.                *)
LEMMA RowsPlace ==
  ASSUME RowsInv, NEW k, NEW p, NEW cell, Place(k, p, cell)
  PROVE  RowsInv'
<1>1. /\ DOMAIN islands' = IslandIds
      /\ \A i \in IslandIds :
           islands'[i] = IF i = k THEN Added(islands[i], p, cell)
                         ELSE islands[i]
  BY DEF RowsInv, Place
<1> SUFFICES ASSUME NEW i \in IslandIds
             PROVE  /\ ElitesOf(islands'[i].elite, ArrivedAt(i)')
                    /\ FrontierOf(islands'[i].frontier, ArrivedAt(i)')
  BY <1>1 DEF RowsInv
<1>2. /\ ElitesOf(islands[i].elite, ArrivedAt(i))
      /\ FrontierOf(islands[i].frontier, ArrivedAt(i))
  BY DEF RowsInv
<1>3. CASE i = k /\ p \in Valid
  <2>1. ArrivedAt(i) \in SUBSET Valid
        /\ ArrivedAt(i)' = ArrivedAt(i) \cup {p}
    BY <1>3, Arrives
  <2>2. /\ islands'[i].elite = Elite(islands[i].elite, p)
        /\ islands'[i].frontier = Frontier(islands[i].frontier, p)
    BY <1>1, <1>3 DEF Added
  <2> QED BY <1>2, <1>3, <2>1, <2>2, ElitesAdded, FrontierAdded
<1>4. CASE ~(i = k /\ p \in Valid)
  <2>1. ArrivedAt(i)' = ArrivedAt(i)
    BY <1>4, Arrives
  <2>2. islands'[i] = islands[i]
    BY <1>1, <1>4 DEF Added
  <2> QED BY <1>2, <2>1, <2>2
<1> QED BY <1>3, <1>4

LEMMA RowsInit == Init => RowsInv
<1> SUFFICES ASSUME Init, NEW i \in IslandIds
             PROVE  /\ DOMAIN islands = IslandIds
                    /\ ElitesOf(islands[i].elite, ArrivedAt(i))
                    /\ FrontierOf(islands[i].frontier, ArrivedAt(i))
  BY DEF RowsInv, Init
<1>1. /\ islands[i].elite = << >> /\ islands[i].frontier = << >>
      /\ DOMAIN islands = IslandIds
      /\ ArrivedAt(i) = {}
  BY DEF Init, Empty, ArrivedAt
<1>2. EliteSize \in Nat
  BY ArchiveAssumption
<1>3. ElitesOf(<< >>, {}) /\ FrontierOf(<< >>, {})
  BY <1>2 DEF ElitesOf, FrontierOf, Descending, Distinct, NonDominating, InSeq
<1> QED BY <1>1, <1>3

LEMMA RowsStep == RowsInv /\ [Next]_vars => RowsInv'
<1> SUFFICES ASSUME RowsInv, [Next]_vars PROVE RowsInv'
  OBVIOUS
<1>1. ASSUME NEW p \in Programs, Add(p) PROVE RowsInv'
  BY <1>1, RowsPlace DEF Add
<1>2. CASE Migrate
  BY <1>2, RowsPlace DEF Migrate
<1>3. CASE \/ BeginMigration \/ Skip
           \/ \E strategy \in Rotating : Sample(strategy)
           \/ UNCHANGED vars
  <2>1. UNCHANGED <<islands, placed>>
    BY <1>3 DEF BeginMigration, Skip, Sample, vars, populationVars,
       historyVars
  <2> QED BY <2>1 DEF RowsInv, ArrivedAt
<1> QED BY <1>1, <1>2, <1>3 DEF Next

(***************************************************************************)
(* What an archive holds after an addition.                                *)
(***************************************************************************)
Shaped(a) ==
  /\ a.grid \in [Cells -> Occupants]
  /\ a.metricCells \in [Metrics -> [Cells -> MetricOccupants]]
  /\ a.elite \in Seq(Valid) /\ Len(a.elite) <= EliteSize
  /\ a.frontier \in Seq(Valid \cap Measured)

(* The programs of an archive, all but those of its frontier.              *)
Core(a) == OccupiedCells(a) \cup InSeq(a.elite) \cup MetricCellArchive(a)

LEMMA AddedHolds ==
  ASSUME NEW a, Shaped(a), NEW p, NEW cell \in Cells
  PROVE  LET b == Added(a, p, cell)
         IN  /\ OccupiedCells(b) \subseteq OccupiedCells(a) \cup {p}
             /\ MetricCellArchive(b) \subseteq MetricCellArchive(a) \cup {p}
             /\ InSeq(b.elite) \subseteq InSeq(a.elite) \cup {p}
             /\ InSeq(b.frontier) \subseteq InSeq(a.frontier) \cup {p}
<1> DEFINE b == Added(a, p, cell)
<1>1. CASE p \notin Valid
  BY <1>1 DEF Added
<1>2. CASE p \in Valid
  <2>1. /\ b.grid = IF EntersCell(a, p, cell) THEN [a.grid EXCEPT ![cell] = p]
                    ELSE a.grid
        /\ b.elite = Elite(a.elite, p)
        /\ b.frontier = Frontier(a.frontier, p)
        /\ b.metricCells = [m \in Metrics |->
             IF EntersMetricCell(a, p, cell, m)
             THEN [a.metricCells[m] EXCEPT ![cell] = p]
             ELSE a.metricCells[m]]
    BY <1>2 DEF Added
  <2> HIDE DEF b
  <2>2. Valid \in SUBSET Programs
    BY ArchiveAssumption
  <2>3. OccupiedCells(b) \subseteq OccupiedCells(a) \cup {p}
    <3>1. \A c \in Cells : b.grid[c] = a.grid[c] \/ b.grid[c] = p
      BY <2>1 DEF Shaped
    <3> QED BY <3>1 DEF OccupiedCells, Placed
  <2>4. MetricCellArchive(b) \subseteq MetricCellArchive(a) \cup {p}
    <3>1. \A m \in Metrics, c \in Cells :
            b.metricCells[m][c] = a.metricCells[m][c]
            \/ b.metricCells[m][c] = p
      BY <2>1 DEF Shaped
    <3> QED BY <3>1 DEF MetricCellArchive, Placed
  <2>5. InSeq(b.elite) \subseteq InSeq(a.elite) \cup {p}
    BY <1>2, <2>1, <2>2, EliteIs DEF Shaped
  <2>6. InSeq(b.frontier) \subseteq InSeq(a.frontier) \cup {p}
    <3> DEFINE S == Valid \cap Measured
    <3>1. S \in SUBSET Measured /\ a.frontier \in Seq(S)
          /\ (p \in Measured => p \in S)
      BY <1>2 DEF Shaped
    <3> HIDE DEF S
    <3> QED BY <2>1, <3>1, FrontierIs
  <2> QED BY <2>3, <2>4, <2>5, <2>6 DEF b
<1> QED BY <1>1, <1>2

(* add() reports no change only if the archive holds what it held.         *)
LEMMA UnchangedHolds ==
  ASSUME NEW a, Shaped(a), NEW p, NEW cell \in Cells, ~Changed(a, p, cell)
  PROVE  Retained(Added(a, p, cell)) = Retained(a)
<1> DEFINE b == Added(a, p, cell)
<1>1. CASE p \notin Valid
  BY <1>1 DEF Added
<1>2. CASE p \in Valid
  <2>1. /\ b.grid = IF EntersCell(a, p, cell) THEN [a.grid EXCEPT ![cell] = p]
                    ELSE a.grid
        /\ b.elite = Elite(a.elite, p)
        /\ b.frontier = Frontier(a.frontier, p)
        /\ b.metricCells = [m \in Metrics |->
             IF EntersMetricCell(a, p, cell, m)
             THEN [a.metricCells[m] EXCEPT ![cell] = p]
             ELSE a.metricCells[m]]
    BY <1>2 DEF Added
  <2> HIDE DEF b
  <2>2. Valid \in SUBSET Programs
    BY ArchiveAssumption
  <2>3. /\ ~EntersCell(a, p, cell)
        /\ p \notin InSeq(Elite(a.elite, p))
        /\ \A m \in Metrics : ~EntersMetricCell(a, p, cell, m)
        /\ \/ p \notin Measured
           \/ Dominated(a.frontier, p)
           \/ /\ p \notin InSeq(Frontier(a.frontier, p))
              /\ InSeq(a.frontier) \ InSeq(Frontier(a.frontier, p)) = {}
    BY <1>2 DEF Changed
  <2>4. OccupiedCells(b) = OccupiedCells(a)
    BY <2>1, <2>3 DEF OccupiedCells
  <2>5. MetricCellArchive(b) = MetricCellArchive(a)
    <3>1. \A m \in Metrics : b.metricCells[m] = a.metricCells[m]
      BY <2>1, <2>3
    <3> QED BY <3>1 DEF MetricCellArchive
  <2>6. InSeq(b.elite) = InSeq(a.elite)
    BY <1>2, <2>1, <2>2, <2>3, EliteIs DEF Shaped
  <2>7. InSeq(b.frontier) = InSeq(a.frontier)
    <3> DEFINE S == Valid \cap Measured
    <3>1. S \in SUBSET Measured /\ a.frontier \in Seq(S)
          /\ (p \in Measured => p \in S)
      BY <1>2 DEF Shaped
    <3> HIDE DEF S
    <3>2. /\ InSeq(b.frontier) \subseteq InSeq(a.frontier) \cup {p}
          /\ p \notin Measured \/ Dominated(a.frontier, p)
             => b.frontier = a.frontier
      BY <2>1, <3>1, FrontierIs
    <3> QED BY <2>1, <2>3, <3>2
  <2> QED BY <2>4, <2>5, <2>6, <2>7 DEF Retained, b
<1> QED BY <1>1, <1>2

(* Archives have the shape the lemmas of additions ask for.                *)
LEMMA ArchivesShaped ==
  CellsInv /\ RowsInv => \A i \in IslandIds : Shaped(islands[i])
  BY DEF CellsInv, CellsTyped, RowsInv, ElitesOf, FrontierOf, Shaped

(***************************************************************************)
(* Rejections.                                                             *)
(***************************************************************************)
(* A program that add() rejects leaves every archive with the programs it  *)
(* had, and it is rejected exactly when no count of additions moves.       *)
THEOREM RejectedChangesNothing == Spec => RejectionChangesNothing
<1>1. /\ Init => CellsInv /\ RowsInv /\ InTurn
      /\ CellsInv /\ RowsInv /\ InTurn /\ [Next]_vars
           => (CellsInv /\ RowsInv /\ InTurn)'
  BY CellsInit, CellsStep, RowsInit, RowsStep, TurnsInit, TurnsStep
<1>2. ASSUME CellsInv, RowsInv, InTurn, [Next]_vars,
             offered' # offered, accepted' = accepted, NEW i \in IslandIds
      PROVE  Retained(islands'[i]) = Retained(islands[i])
  <2>1. PICK p \in Programs : Add(p)
    <3>1. ~(\/ BeginMigration \/ Skip \/ Migrate
            \/ \E strategy \in Rotating : Sample(strategy)
            \/ UNCHANGED vars)
      BY <1>2 DEF BeginMigration, Skip, Migrate, Sample, vars, populationVars,
         historyVars
    <3> QED BY <1>2, <3>1 DEF Next
  <2>2. PICK cell \in Cells :
          /\ islands' = [islands EXCEPT ![current] = Added(@, p, cell)]
          /\ Changed(islands[current], p, cell) =>
               accepted' = [accepted EXCEPT ![current] = @ + 1]
    BY <2>1 DEF Add, Place
  <2>3. /\ current \in IslandIds /\ DOMAIN islands = IslandIds
        /\ accepted \in [IslandIds -> Nat]
    BY <1>2 DEF RowsInv, InTurn
  <2>4. ~Changed(islands[current], p, cell)
    <3> SUFFICES ASSUME Changed(islands[current], p, cell) PROVE FALSE
      OBVIOUS
    <3>1. accepted'[current] = accepted[current] + 1
          /\ accepted[current] \in Nat
      BY <2>2, <2>3
    <3> QED BY <1>2, <3>1
  <2>5. Shaped(islands[current])
    BY <1>2, <2>3, ArchivesShaped
  <2>6. Retained(Added(islands[current], p, cell)) = Retained(islands[current])
    BY <2>4, <2>5, UnchangedHolds
  <2>7. CASE i = current
    BY <2>2, <2>3, <2>6, <2>7
  <2>8. CASE i # current
    BY <2>2, <2>3, <2>8
  <2> QED BY <2>7, <2>8
<1>3. CellsInv /\ RowsInv /\ InTurn /\ [Next]_vars =>
        [(offered' # offered /\ accepted' = accepted) =>
           \A i \in IslandIds : Retained(islands'[i]) = Retained(islands[i])]_vars
  BY <1>2
<1> QED BY <1>1, <1>3, PTL DEF Spec, RejectionChangesNothing

(***************************************************************************)
(* Migrants.                                                               *)
(***************************************************************************)
(* Where the row of all emigrants comes from: the one island after the     *)
(* other.                                                                  *)
Lined(g, n) ==
  \A i \in -1 .. n :
    g[i] = IF i = -1 THEN << >> ELSE g[i - 1] \o Emigrants(i)

(* There is such a row, up to the last island.                             *)
LEMMA LineExists == \E g : DOMAIN g = -1 .. NIslands - 1 /\ Lined(g, NIslands - 1)
<1>0. NIslands \in Nat \ {0}
  BY IslandAssumption
<1> DEFINE bad == {k \in Nat : ~ \E g : Lined(g, k - 1)}
<1>1. bad = {}
  <2> SUFFICES ASSUME bad # {} PROVE FALSE
    OBVIOUS
  <2>1. PICK k \in bad : \A j \in bad : k <= j
    BY LeastNumber
  <2>2. CASE k = 0
    <3> DEFINE g == [i \in -1 .. -1 |-> << >>]
    <3>1. Lined(g, -1)
      BY DEF Lined
    <3>2. Lined(g, k - 1)
      <4> HIDE DEF g
      <4>1. k - 1 = -1
        BY <2>2
      <4> QED BY <3>1, <4>1
    <3> HIDE DEF g
    <3> QED BY <2>1, <3>2
  <2>3. CASE k > 0
    <3>1. k - 1 \in Nat /\ k - 1 \notin bad
      BY <2>1, <2>3
    <3>2. PICK g : Lined(g, k - 2)
      <4>1. \E g : Lined(g, (k - 1) - 1)
        BY <3>1
      <4>2. (k - 1) - 1 = k - 2
        BY <2>1
      <4> QED BY <4>1, <4>2
    <3> DEFINE h == [i \in -1 .. k - 1 |->
                       IF i = k - 1 THEN g[k - 2] \o Emigrants(k - 1) ELSE g[i]]
    <3>3. ASSUME NEW i \in -1 .. k - 1
          PROVE  h[i] = IF i = -1 THEN << >> ELSE h[i - 1] \o Emigrants(i)
      <4>1. CASE i = k - 1
        <5>1. /\ k - 2 \in -1 .. k - 1 /\ k - 2 # k - 1 /\ i # -1
              /\ i - 1 = k - 2
          BY <2>1, <2>3, <4>1
        <5> QED BY <4>1, <5>1
      <4>2. CASE i # k - 1 /\ i = -1
        <5>1. i \in -1 .. k - 2
          BY <2>1, <2>3, <4>2
        <5>2. g[i] = << >>
          BY <3>2, <4>2, <5>1 DEF Lined
        <5> QED BY <4>2, <5>2
      <4>3. CASE i # k - 1 /\ i # -1
        <5>1. /\ i \in -1 .. k - 2 /\ i - 1 \in -1 .. k - 1 /\ i - 1 # k - 1
          BY <2>1, <2>3, <4>3
        <5>2. g[i] = g[i - 1] \o Emigrants(i)
          BY <3>2, <4>3, <5>1 DEF Lined
        <5>3. h[i] = g[i] /\ h[i - 1] = g[i - 1]
          BY <4>3, <5>1
        <5> HIDE DEF h
        <5> QED BY <4>3, <5>2, <5>3
      <4> QED BY <4>1, <4>2, <4>3
    <3>4. Lined(h, k - 1)
      <4> HIDE DEF h
      <4> QED BY <3>3 DEF Lined
    <3> HIDE DEF h
    <3> QED BY <2>1, <3>4
  <2> QED BY <2>1, <2>2, <2>3
<1>2. PICK g : Lined(g, NIslands - 1)
  <2>1. NIslands \in Nat /\ NIslands \notin bad
    BY <1>0, <1>1
  <2> QED BY <2>1
<1> DEFINE h == [i \in -1 .. NIslands - 1 |-> g[i]]
<1>3. Lined(h, NIslands - 1)
  <2> SUFFICES ASSUME NEW i \in -1 .. NIslands - 1
               PROVE  h[i] = IF i = -1 THEN << >> ELSE h[i - 1] \o Emigrants(i)
    BY DEF Lined
  <2>1. g[i] = IF i = -1 THEN << >> ELSE g[i - 1] \o Emigrants(i)
    BY <1>2 DEF Lined
  <2>2. i # -1 => i - 1 \in -1 .. NIslands - 1
    BY <1>0
  <2>3. h[i] = g[i] /\ (i # -1 => h[i - 1] = g[i - 1])
    BY <2>2
  <2> HIDE DEF h
  <2> QED BY <2>1, <2>3
<1>4. DOMAIN h = -1 .. NIslands - 1
  OBVIOUS
<1> HIDE DEF h
<1> QED BY <1>3, <1>4

(* AllEmigrants is it.                                                     *)
LEMMA LineIs ==
  Lined(AllEmigrants, NIslands - 1)
<1> DEFINE Eq(g) == g = [i \in -1 .. NIslands - 1 |->
                     IF i = -1 THEN << >> ELSE g[i - 1] \o Emigrants(i)]
<1>1. AllEmigrants = CHOOSE g : Eq(g)
  BY DEF AllEmigrants
<1>2. PICK g : DOMAIN g = -1 .. NIslands - 1 /\ Lined(g, NIslands - 1)
  BY LineExists
<1> DEFINE h == [i \in -1 .. NIslands - 1 |-> g[i]]
<1>3. ASSUME NEW i \in -1 .. NIslands - 1
      PROVE  h[i] = IF i = -1 THEN << >> ELSE h[i - 1] \o Emigrants(i)
  <2>1. g[i] = IF i = -1 THEN << >> ELSE g[i - 1] \o Emigrants(i)
    BY <1>2 DEF Lined
  <2>2. i # -1 => i - 1 \in -1 .. NIslands - 1
    BY IslandAssumption
  <2> QED BY <2>1, <2>2
<1>4. DOMAIN h = -1 .. NIslands - 1 /\ h = [i \in -1 .. NIslands - 1 |-> h[i]]
  OBVIOUS
<1> HIDE DEF h
<1>5. Eq(h)
  BY <1>3, <1>4
<1>6. Eq(AllEmigrants)
  <2> HIDE DEF Eq
  <2> QED BY <1>1, <1>5
<1> QED BY <1>6 DEF Lined

(* Every emigrant is an elite of the island it leaves.                     *)
LEMMA EmigrantsAre ==
  ASSUME \A i \in IslandIds : islands[i].elite \in Seq(Valid)
  PROVE  LET all == AllEmigrants[NIslands - 1]
         IN  /\ all \in Seq(IslandIds \X Valid)
             /\ \A k \in DOMAIN all :
                  all[k][2] \in InSeq(islands[all[k][1]].elite)
<1> DEFINE M == {t \in IslandIds \X Valid : t[2] \in InSeq(islands[t[1]].elite)}
<1>0. NIslands \in Nat \ {0}
  BY IslandAssumption
<1>1. ASSUME NEW i \in IslandIds PROVE Emigrants(i) \in Seq(M)
  <2> DEFINE elite == islands[i].elite
             n == MigrantCount(Len(elite))
             chosen == Take(elite, n)
  <2>1. elite \in Seq(Valid) /\ Len(elite) \in Nat
    OBVIOUS
  <2>2. n \in Nat
    <3>1. \A x \in Int, d \in Nat \ {0} : x \div d \in Int
      OBVIOUS
    <3>2. Len(elite) * RatioNum + RatioDen - 1 \in Int
      <4>1. Len(elite) * RatioNum \in Nat
        BY <2>1, IslandAssumption
      <4> QED BY <4>1, IslandAssumption
    <3> HIDE DEF elite
    <3> QED BY <3>1, <3>2, IslandAssumption DEF MigrantCount
  <2> HIDE DEF n
  <2>3. /\ chosen \in Seq(Valid)
        /\ DOMAIN chosen = 1 .. Len(chosen)
        /\ \A k \in DOMAIN chosen : k \in DOMAIN elite /\ chosen[k] = elite[k]
    BY <2>1, <2>2, TakeIs
  <2>4. Emigrants(i) = [k \in DOMAIN chosen |-> <<i, chosen[k]>>]
    BY DEF Emigrants, n
  <2> HIDE DEF chosen
  <2>5. \A k \in DOMAIN chosen : <<i, chosen[k]>> \in M
    BY <2>3 DEF InSeq
  <2> HIDE DEF M
  <2>6. Emigrants(i) \in [1 .. Len(chosen) -> M]
    BY <2>3, <2>4, <2>5
  <2> QED BY <2>3, <2>6
<1> HIDE DEF M
<1> DEFINE bad == {k \in Nat : k <= NIslands /\ AllEmigrants[k - 1] \notin Seq(M)}
<1>2. \A k \in Nat : k \in bad <=> k <= NIslands /\ AllEmigrants[k - 1] \notin Seq(M)
  OBVIOUS
<1>3. bad \in SUBSET Nat
  OBVIOUS
<1> HIDE DEF bad
<1>7. bad = {}
  <2> SUFFICES ASSUME bad # {} PROVE FALSE
    OBVIOUS
  <2>1. PICK k \in bad : \A j \in bad : k <= j
    BY <1>3, LeastNumber
  <2>2. PICK i \in Int : i = k - 1
    BY <1>3, <2>1
  <2>3. k \in Nat /\ i <= NIslands - 1 /\ AllEmigrants[i] \notin Seq(M)
    BY <1>0, <1>2, <1>3, <2>1, <2>2
  <2>4. i \in -1 .. NIslands - 1
    BY <1>0, <2>2, <2>3
  <2>5. AllEmigrants[i] = IF i = -1 THEN << >>
                          ELSE AllEmigrants[i - 1] \o Emigrants(i)
    BY <2>4, LineIs DEF Lined
  <2>6. CASE i = -1
    <3>1. << >> \in Seq(M)
      OBVIOUS
    <3> QED BY <2>3, <2>5, <2>6, <3>1
  <2>7. CASE i # -1
    <3>1. i \in Nat /\ i <= NIslands /\ i \notin bad
      <4>1. i \in Nat /\ i <= NIslands /\ ~(k <= i)
        BY <1>0, <2>2, <2>3, <2>4, <2>7
      <4>2. i \notin bad
        BY <2>1, <4>1
      <4> QED BY <4>1, <4>2
    <3>2. AllEmigrants[i - 1] \in Seq(M)
      BY <1>2, <3>1
    <3>3. i \in IslandIds
      BY <1>0, <2>4, <2>7 DEF IslandIds
    <3>4. Emigrants(i) \in Seq(M)
      BY <1>1, <3>3
    <3> QED BY <2>3, <2>5, <2>7, <3>2, <3>4
  <2> QED BY <2>6, <2>7
<1>8. AllEmigrants[NIslands - 1] \in Seq(M)
  <2>1. NIslands \in Nat /\ NIslands <= NIslands /\ NIslands \notin bad
    BY <1>0, <1>7
  <2> QED BY <1>2, <2>1
<1>4. PICK n \in Nat : n = Len(AllEmigrants[NIslands - 1])
  BY <1>8
<1>5. /\ DOMAIN AllEmigrants[NIslands - 1] = 1 .. n
      /\ \A k \in 1 .. n : AllEmigrants[NIslands - 1][k] \in M
      /\ AllEmigrants[NIslands - 1] \in [1 .. n -> M]
  BY <1>8, <1>4
<1>6. AllEmigrants[NIslands - 1] \in Seq(IslandIds \X Valid)
  <2>1. AllEmigrants[NIslands - 1] \in [1 .. n -> IslandIds \X Valid]
    BY <1>5 DEF M
  <2> QED BY <2>1
<1> QED BY <1>5, <1>6 DEF M

ArchivesInv == CellsInv /\ RowsInv

LEMMA ArchivesInit == Init => ArchivesInv
  BY CellsInit, RowsInit DEF ArchivesInv

LEMMA ArchivesStep == ArchivesInv /\ [Next]_vars => ArchivesInv'
  BY CellsStep, RowsStep DEF ArchivesInv

(* What the placing of a program changes in the archives.                  *)
LEMMA PlaceIs ==
  ASSUME ArchivesInv, NEW k, NEW p, NEW cell \in Cells, Place(k, p, cell),
         NEW i \in IslandIds
  PROVE  /\ islands'[i] = IF i = k THEN Added(islands[i], p, cell)
                          ELSE islands[i]
         /\ IslandProgramIds(i)' \subseteq IslandProgramIds(i) \cup {p}
         /\ Retained(islands'[i]) \subseteq Retained(islands[i]) \cup {p}
         /\ i # k => /\ IslandProgramIds(i)' = IslandProgramIds(i)
                     /\ Retained(islands'[i]) = Retained(islands[i])
         /\ ~Changed(islands[k], p, cell) =>
              Retained(islands'[i]) = Retained(islands[i])
<1>1. islands'[i] = IF i = k THEN Added(islands[i], p, cell)
                    ELSE islands[i]
  BY DEF ArchivesInv, RowsInv, Place
<1>2. Shaped(islands[i])
  BY ArchivesShaped DEF ArchivesInv
<1>3. CASE i = k
  <2>1. /\ OccupiedCells(islands'[i]) \subseteq OccupiedCells(islands[i]) \cup {p}
        /\ MetricCellArchive(islands'[i])
             \subseteq MetricCellArchive(islands[i]) \cup {p}
        /\ InSeq(islands'[i].elite) \subseteq InSeq(islands[i].elite) \cup {p}
        /\ InSeq(islands'[i].frontier)
             \subseteq InSeq(islands[i].frontier) \cup {p}
    BY <1>1, <1>2, <1>3, AddedHolds
  <2>2. ~Changed(islands[k], p, cell) =>
          Retained(islands'[i]) = Retained(islands[i])
    BY <1>1, <1>2, <1>3, UnchangedHolds
  <2> QED BY <1>1, <1>3, <2>1, <2>2 DEF IslandProgramIds, Retained
<1>4. CASE i # k
  BY <1>1, <1>4 DEF IslandProgramIds
<1> QED BY <1>1, <1>3, <1>4

(* What an archive holds is valid.                                         *)
LEMMA HoldsValid ==
  ASSUME ArchivesInv, NEW i \in IslandIds
  PROVE  /\ IslandProgramIds(i) \in SUBSET Valid
         /\ Retained(islands[i]) \in SUBSET Valid
         /\ MetricCellArchive(islands[i]) \in SUBSET Measured
<1>1. Shaped(islands[i])
  BY ArchivesShaped DEF ArchivesInv
<1>2. OccupiedCells(islands[i]) \in SUBSET Valid
  BY <1>1 DEF Shaped, OccupiedCells, Placed, Occupants
<1>3. MetricCellArchive(islands[i]) \in SUBSET (Valid \cap Measured)
  BY <1>1 DEF Shaped, MetricCellArchive, Placed, MetricOccupants
<1>4. /\ InSeq(islands[i].elite) \in SUBSET Valid
      /\ InSeq(islands[i].frontier) \in SUBSET Valid
  BY <1>1 DEF Shaped, InSeq
<1> QED BY <1>2, <1>3, <1>4 DEF IslandProgramIds, Retained

(***************************************************************************)
(* The migrants of a round.                                                *)
(***************************************************************************)
MigrantsInv ==
  /\ migrants \in Seq(IslandIds \X Valid)
  /\ present \in [IslandIds -> SUBSET Valid]
  /\ held \in [IslandIds -> SUBSET Valid]
  /\ \A k \in DOMAIN migrants : migrants[k][2] \in held[migrants[k][1]]
  /\ migrants # << >> =>
       \A i \in IslandIds : IslandProgramIds(i) \subseteq present[i]

(* A row without its first.                                                *)
LEMMA TailIs ==
  ASSUME NEW T, NEW s \in Seq(T), s # << >>
  PROVE  /\ s[1] \in T /\ 1 \in DOMAIN s
         /\ Tail(s) \in Seq(T)
         /\ \A k \in DOMAIN Tail(s) :
              k + 1 \in DOMAIN s /\ Tail(s)[k] = s[k + 1]
  OBVIOUS

LEMMA MigrantsInit == Init => MigrantsInv
  BY DEF Init, MigrantsInv

LEMMA MigrantsStep ==
  ArchivesInv /\ MigrantsInv /\ [Next]_vars => MigrantsInv'
<1> SUFFICES ASSUME ArchivesInv, MigrantsInv, [Next]_vars PROVE MigrantsInv'
  OBVIOUS
<1>1. ASSUME NEW p \in Programs, Add(p) PROVE MigrantsInv'
  <2>1. migrants = << >> /\ UNCHANGED <<migrants, present, held>>
    BY <1>1 DEF Add, migrationVars
  <2> QED BY <2>1 DEF MigrantsInv
<1>2. CASE BeginMigration
  <2>1. /\ migrants' = AllEmigrants[NIslands - 1]
        /\ present' = [i \in IslandIds |-> IslandProgramIds(i)]
        /\ held' = present'
        /\ islands' = islands
    BY <1>2 DEF BeginMigration, populationVars
  <2>2. \A i \in IslandIds : islands[i].elite \in Seq(Valid)
    BY DEF ArchivesInv, RowsInv, ElitesOf
  <2>3. /\ migrants' \in Seq(IslandIds \X Valid)
        /\ \A k \in DOMAIN migrants' :
             migrants'[k][2] \in InSeq(islands[migrants'[k][1]].elite)
    BY <2>1, <2>2, EmigrantsAre
  <2>4. present' \in [IslandIds -> SUBSET Valid]
    BY <2>1, HoldsValid
  <2>5. ASSUME NEW k \in DOMAIN migrants'
        PROVE  migrants'[k][2] \in held'[migrants'[k][1]]
    <3>1. migrants'[k] \in IslandIds \X Valid
      BY <2>3
    <3>2. migrants'[k][1] \in IslandIds
      BY <3>1
    <3>3. migrants'[k][2] \in IslandProgramIds(migrants'[k][1])
      BY <2>3, <3>2 DEF IslandProgramIds
    <3> QED BY <2>1, <3>2, <3>3
  <2>6. \A i \in IslandIds : IslandProgramIds(i)' \subseteq present'[i]
    BY <2>1 DEF IslandProgramIds
  <2> QED BY <2>1, <2>3, <2>4, <2>5, <2>6 DEF MigrantsInv
<1>3. ASSUME migrants # << >>, migrants' = Tail(migrants), held' = held,
             present' \in [IslandIds -> SUBSET Valid],
             \A i \in IslandIds : IslandProgramIds(i)' \subseteq present'[i]
      PROVE  MigrantsInv'
  <2>1. /\ migrants' \in Seq(IslandIds \X Valid)
        /\ \A k \in DOMAIN migrants' :
             k + 1 \in DOMAIN migrants /\ migrants'[k] = migrants[k + 1]
    BY <1>3, TailIs DEF MigrantsInv
  <2> QED BY <1>3, <2>1 DEF MigrantsInv
<1>4. CASE Skip
  <2>1. /\ migrants # << >> /\ migrants' = Tail(migrants)
        /\ UNCHANGED <<islands, held, present>>
    BY <1>4 DEF Skip, populationVars, historyVars
  <2> QED BY <1>3, <2>1 DEF MigrantsInv, IslandProgramIds
<1>5. CASE Migrate
  <2> DEFINE target == Onward(migrants[1][1])
             p == migrants[1][2]
  <2>1. /\ migrants # << >> /\ migrants' = Tail(migrants) /\ held' = held
        /\ present' = [present EXCEPT ![target] = @ \cup {p}]
    BY <1>5 DEF Migrate
  <2>2. PICK cell \in Cells : Place(target, p, cell)
    BY <1>5 DEF Migrate
  <2>3. migrants[1] \in IslandIds \X Valid
    BY <2>1, TailIs DEF MigrantsInv
  <2>4. target \in IslandIds /\ p \in Valid
    BY <2>3, OnwardInRing
  <2> HIDE DEF target, p
  <2>5. present' \in [IslandIds -> SUBSET Valid]
    BY <2>1, <2>4 DEF MigrantsInv
  <2>6. \A i \in IslandIds : IslandProgramIds(i)' \subseteq present'[i]
    <3> SUFFICES ASSUME NEW i \in IslandIds
                 PROVE  IslandProgramIds(i)' \subseteq present'[i]
      OBVIOUS
    <3>1. /\ IslandProgramIds(i)' \subseteq IslandProgramIds(i) \cup {p}
          /\ i # target => IslandProgramIds(i)' = IslandProgramIds(i)
      BY <2>2, PlaceIs
    <3>2. IslandProgramIds(i) \subseteq present[i]
      BY <2>1 DEF MigrantsInv
    <3>3. present'[i] = IF i = target THEN present[i] \cup {p} ELSE present[i]
      BY <2>1 DEF MigrantsInv
    <3> QED BY <3>1, <3>2, <3>3
  <2> QED BY <1>3, <2>1, <2>5, <2>6
<1>6. CASE \/ \E strategy \in Rotating : Sample(strategy)
           \/ UNCHANGED vars
  <2>1. UNCHANGED <<islands, migrants, present, held>>
    BY <1>6 DEF Sample, vars, populationVars, migrationVars, historyVars
  <2> QED BY <2>1 DEF MigrantsInv, IslandProgramIds
<1> QED BY <1>1, <1>2, <1>4, <1>5, <1>6 DEF Next

(* No two islands have the same next one.                                  *)
LEMMA OnwardApart ==
  ASSUME NEW i \in IslandIds, NEW j \in IslandIds, Onward(i) = Onward(j)
  PROVE  i = j
<1>1. /\ Onward(i) = IF i = NIslands - 1 THEN 0 ELSE i + 1
      /\ Onward(j) = IF j = NIslands - 1 THEN 0 ELSE j + 1
  BY OnwardInRing
<1>2. NIslands \in Nat \ {0} /\ i \in 0 .. NIslands - 1 /\ j \in 0 .. NIslands - 1
  BY IslandAssumption DEF IslandIds
<1>3. PICK last \in Int : last = NIslands - 1
  BY <1>2
<1>4. i \in Nat /\ j \in Nat /\ i + 1 # 0 /\ j + 1 # 0
  BY <1>2
<1>5. (IF i = last THEN 0 ELSE i + 1) = (IF j = last THEN 0 ELSE j + 1)
  BY <1>1, <1>3
<1> QED BY <1>4, <1>5

(* In one round a program travels one island at most: it reaches an island *)
(* only from the one before, if that held it when the round began          *)
(* (IslandModel.migrate).                                                  *)
THEOREM OneHop == Spec => OneHopARound
<1>1. /\ Init => ArchivesInv /\ MigrantsInv
      /\ ArchivesInv /\ MigrantsInv /\ [Next]_vars
           => (ArchivesInv /\ MigrantsInv)'
  BY ArchivesInit, ArchivesStep, MigrantsInit, MigrantsStep
<1>2. ASSUME ArchivesInv, MigrantsInv, [Next]_vars, migrants # << >>,
             NEW i \in IslandIds,
             NEW p \in IslandProgramIds(Onward(i))' \ IslandProgramIds(Onward(i))
      PROVE  p \in held[i]
  <2>1. islands' # islands
    BY <1>2 DEF IslandProgramIds
  <2>2. Migrate
    BY <1>2, <2>1 DEF Next, Add, BeginMigration, Skip, Sample, vars,
       populationVars
  <2> DEFINE source == migrants[1][1]
             q == migrants[1][2]
  <2>3. PICK cell \in Cells : Place(Onward(source), q, cell)
    BY <2>2 DEF Migrate
  <2>4. /\ migrants[1] \in IslandIds \X Valid
        /\ q \in held[source]
    BY <1>2, TailIs DEF MigrantsInv
  <2>5. source \in IslandIds
    BY <2>4
  <2> HIDE DEF source, q
  <2>6. Onward(i) \in IslandIds
    BY <1>2, OnwardInRing
  <2>7. p = q /\ Onward(i) = Onward(source)
    BY <1>2, <2>3, <2>6, PlaceIs
  <2>8. i = source
    BY <1>2, <2>5, <2>7, OnwardApart
  <2> QED BY <2>4, <2>7, <2>8
<1>3. ArchivesInv /\ MigrantsInv /\ [Next]_vars =>
        [migrants # << >> =>
           \A i \in IslandIds :
             \A p \in IslandProgramIds(Onward(i))' \ IslandProgramIds(Onward(i)) :
               p \in held[i]]_vars
  BY <1>2
<1> QED BY <1>1, <1>3, PTL DEF Spec, OneHopARound

(***************************************************************************)
(* What is counted and recorded.                                           *)
(***************************************************************************)
RecordsTyped ==
  /\ sequence \in Nat
  /\ recency \in [Programs -> Nat]
  /\ migrations \in 0 .. MaxMigrations
  /\ index \in [Rotating -> 0 .. MaxSamples]
  /\ offered \subseteq Programs
  /\ placed \subseteq IslandIds \X Programs \X Cells

LEMMA RecordsInit == Init => RecordsTyped
<1> SUFFICES ASSUME Init PROVE RecordsTyped
  OBVIOUS
<1>1. MaxMigrations \in Nat /\ MaxSamples \in Nat
  BY IslandAssumption
<1> QED BY <1>1 DEF Init, RecordsTyped

LEMMA RecordsStep ==
  InTurn /\ MigrantsInv /\ RecordsTyped /\ [Next]_vars => RecordsTyped'
<1> SUFFICES ASSUME InTurn, MigrantsInv, RecordsTyped, [Next]_vars
             PROVE  RecordsTyped'
  OBVIOUS
<1>1. ASSUME NEW p \in Programs, Add(p) PROVE RecordsTyped'
  <2>1. PICK cell \in Cells : placed' = placed \cup {<<current, p, cell>>}
    BY <1>1 DEF Add, Place
  <2>2. /\ sequence' = sequence + 1
        /\ recency' = recency \/ recency' = [recency EXCEPT ![p] = sequence + 1]
        /\ UNCHANGED <<migrations, index>> /\ offered' = offered \cup {p}
    BY <1>1 DEF Add, migrationVars
  <2>3. current \in IslandIds
    BY DEF InTurn
  <2> QED BY <2>1, <2>2, <2>3 DEF RecordsTyped
<1>2. CASE BeginMigration
  <2>1. /\ migrations' = migrations + 1 /\ migrations < MaxMigrations
        /\ UNCHANGED <<sequence, recency, index, offered, placed>>
    BY <1>2 DEF BeginMigration, populationVars
  <2> QED BY <2>1, IslandAssumption DEF RecordsTyped
<1>3. CASE Migrate
  <2> DEFINE target == Onward(migrants[1][1])
             p == migrants[1][2]
  <2>1. PICK cell \in Cells :
          /\ placed' = placed \cup {<<target, p, cell>>}
          /\ \/ UNCHANGED <<sequence, recency>>
             \/ /\ sequence' = sequence + 1
                /\ recency' = [recency EXCEPT ![p] = sequence + 1]
    BY <1>3 DEF Migrate, Place
  <2>2. migrants # << >> /\ UNCHANGED <<migrations, index, offered>>
    BY <1>3 DEF Migrate
  <2>3. migrants[1] \in IslandIds \X Valid
    BY <2>2, TailIs DEF MigrantsInv
  <2>4. target \in IslandIds /\ p \in Programs
    BY <2>3, OnwardInRing, ArchiveAssumption
  <2> HIDE DEF target, p
  <2> QED BY <2>1, <2>2, <2>4 DEF RecordsTyped
<1>4. ASSUME NEW strategy \in Rotating, Sample(strategy) PROVE RecordsTyped'
  <2>1. /\ index' = [index EXCEPT ![strategy] = @ + 1]
        /\ index["metric"] + index["frontier"] + index["lineage"] < MaxSamples
        /\ UNCHANGED <<sequence, recency, migrations, offered, placed>>
    BY <1>4 DEF Sample, Samples, populationVars, migrationVars, historyVars
  <2>2. /\ index["metric"] \in Nat /\ index["frontier"] \in Nat
        /\ index["lineage"] \in Nat /\ MaxSamples \in Nat
    BY IslandAssumption DEF RecordsTyped, Rotating
  <2>3. index[strategy] + 1 \in 0 .. MaxSamples
    BY <2>1, <2>2 DEF Rotating
  <2>4. index' \in [Rotating -> 0 .. MaxSamples]
    BY <2>1, <2>3 DEF RecordsTyped
  <2> QED BY <2>1, <2>4 DEF RecordsTyped
<1>5. CASE Skip \/ UNCHANGED vars
  <2>1. UNCHANGED <<sequence, recency, migrations, index, offered, placed>>
    BY <1>5 DEF Skip, vars, populationVars, migrationVars, historyVars
  <2> QED BY <2>1 DEF RecordsTyped
<1> QED BY <1>1, <1>2, <1>3, <1>4, <1>5 DEF Next

(* The invariant of the population that the theorems below share.          *)
PopulationInv == ArchivesInv /\ InTurn /\ MigrantsInv /\ RecordsTyped

LEMMA PopulationInit == Init => PopulationInv
  BY ArchivesInit, TurnsInit, MigrantsInit, RecordsInit DEF PopulationInv

LEMMA PopulationStep == PopulationInv /\ [Next]_vars => PopulationInv'
  BY ArchivesStep, TurnsStep, MigrantsStep, RecordsStep DEF PopulationInv

(* Every variable keeps its type; the elites of an island are the best     *)
(* programs that ever came to it, and trimming the frontier to its bound   *)
(* never loses the best value of a metric, if there is room for both ends  *)
(* of every metric (_archive_elites, _retain_pareto_frontier).             *)
THEOREM RowsKeepTheBest == Spec => []ExtremesKept
<1>1. ASSUME PopulationInv PROVE TypeOK
  <2>1. \A i \in IslandIds :
          /\ islands[i].grid \in [Cells -> Valid \cup {NoProgram}]
          /\ islands[i].elite \in Seq(Valid)
          /\ islands[i].frontier \in Seq(Valid \cap Measured)
          /\ islands[i].metricCells
               \in [Metrics -> [Cells -> (Valid \cap Measured) \cup {NoProgram}]]
    BY <1>1 DEF PopulationInv, ArchivesInv, CellsInv, CellsTyped, RowsInv,
       ElitesOf, FrontierOf, Occupants, MetricOccupants
  <2>2. InTurn /\ MigrantsInv /\ RecordsTyped
    BY <1>1 DEF PopulationInv
  <2> QED BY <2>1, <2>2 DEF TypeOK, InTurn, MigrantsInv, RecordsTyped
<1>2. ASSUME PopulationInv PROVE EliteIsTop
  BY <1>2 DEF PopulationInv, ArchivesInv, RowsInv, ElitesOf, EliteIsTop
<1>3. ASSUME PopulationInv PROVE FrontierKeepsExtremes
  BY <1>3 DEF PopulationInv, ArchivesInv, RowsInv, FrontierOf, Matched,
     FrontierKeepsExtremes
<1>4. PopulationInv => ExtremesKept
  BY <1>1, <1>2, <1>3 DEF ExtremesKept
<1> QED BY <1>4, PopulationInit, PopulationStep, PTL DEF Spec

(***************************************************************************)
(* Programs come once to an island, and each is told apart by when.        *)
(***************************************************************************)
Single(a) ==
  /\ \A c, d \in Cells : a.grid[c] = a.grid[d] /\ a.grid[c] # NoProgram => c = d
  /\ Distinct(a.elite)

OfferedInv ==
  /\ \A i \in IslandIds : /\ Retained(islands[i]) \subseteq offered
                          /\ held[i] \subseteq offered
                          /\ ArrivedAt(i) \subseteq offered
                          /\ Single(islands[i])
  /\ \A p \in offered \cap Valid : \E i \in IslandIds : p \in ArrivedAt(i)

RecencyInv ==
  /\ \A p \in Programs : recency[p] <= sequence
  /\ \A p, q \in Programs : recency[p] = recency[q] /\ recency[p] > 0 => p = q
  /\ \A i \in IslandIds : \A p \in Retained(islands[i]) : recency[p] > 0

(* A program new to an archive is in it once.                              *)
LEMMA SingleAdded ==
  ASSUME NEW a, Shaped(a), Single(a), NEW p, p \notin Core(a),
         NEW cell \in Cells
  PROVE  Single(Added(a, p, cell))
<1> DEFINE b == Added(a, p, cell)
<1>1. CASE p \notin Valid
  BY <1>1 DEF Added
<1>2. CASE p \in Valid
  <2>1. /\ b.grid = IF EntersCell(a, p, cell) THEN [a.grid EXCEPT ![cell] = p]
                    ELSE a.grid
        /\ b.elite = Elite(a.elite, p)
    BY <1>2 DEF Added
  <2> HIDE DEF b
  <2>2. Valid \in SUBSET Programs /\ NoProgram \notin Valid
    BY ArchiveAssumption
  <2>3. Distinct(b.elite)
    BY <1>2, <2>1, <2>2, EliteIs DEF Shaped, Single, Core
  <2>4. \A c \in Cells : a.grid[c] # p
    BY <1>2, <2>2 DEF Core, OccupiedCells, Placed
  <2>5. \A c, d \in Cells :
          b.grid[c] = b.grid[d] /\ b.grid[c] # NoProgram => c = d
    BY <2>1, <2>4 DEF Single, Shaped
  <2> QED BY <2>3, <2>5 DEF Single, b
<1> QED BY <1>1, <1>2

(* What is offered, held and single, after a placing.                      *)
LEMMA OfferedPlace ==
  ASSUME PopulationInv, OfferedInv, NEW k \in IslandIds, NEW p \in Programs,
         NEW cell \in Cells, Place(k, p, cell), p \notin IslandProgramIds(k),
         offered' = offered \cup {p}, held' = held
  PROVE  OfferedInv'
<1>1. ArchivesInv
  BY DEF PopulationInv
<1>2. ASSUME NEW i \in IslandIds
      PROVE  /\ Retained(islands'[i]) \subseteq offered'
             /\ held'[i] \subseteq offered'
             /\ ArrivedAt(i)' \subseteq offered'
             /\ Single(islands'[i])
  <2>1. /\ Retained(islands'[i]) \subseteq Retained(islands[i]) \cup {p}
        /\ islands'[i] = IF i = k THEN Added(islands[i], p, cell)
                         ELSE islands[i]
    BY <1>1, PlaceIs
  <2>2. ArrivedAt(i)' = IF i = k /\ p \in Valid
                        THEN ArrivedAt(i) \cup {p} ELSE ArrivedAt(i)
    BY Arrives
  <2>3. Single(islands'[i])
    <3>1. Shaped(islands[i]) /\ Single(islands[i])
      BY <1>1, ArchivesShaped DEF ArchivesInv, OfferedInv
    <3>2. i = k => p \notin Core(islands[i])
      BY DEF Core, IslandProgramIds
    <3> QED BY <2>1, <3>1, <3>2, SingleAdded
  <2> QED BY <2>1, <2>2, <2>3 DEF OfferedInv
<1>3. ASSUME NEW q \in offered' \cap Valid
      PROVE  \E i \in IslandIds : q \in ArrivedAt(i)'
  <2>1. CASE q = p
    <3>1. q \in ArrivedAt(k)'
      BY <1>3, <2>1, Arrives
    <3> QED BY <3>1
  <2>2. CASE q # p
    <3>1. PICK i \in IslandIds : q \in ArrivedAt(i)
      BY <1>3, <2>2 DEF OfferedInv
    <3>2. q \in ArrivedAt(i)'
      BY <3>1, Arrives
    <3> QED BY <3>2
  <2> QED BY <2>1, <2>2
<1> QED BY <1>2, <1>3 DEF OfferedInv

(* What the sequence tells apart, after a placing.                         *)
LEMMA RecencyPlace ==
  ASSUME PopulationInv, RecencyInv, NEW k \in IslandIds, NEW p \in Programs,
         NEW cell \in Cells, Place(k, p, cell),
         IF Changed(islands[k], p, cell)
         THEN sequence' = sequence + 1
              /\ recency' = [recency EXCEPT ![p] = sequence + 1]
         ELSE sequence' \in {sequence, sequence + 1} /\ recency' = recency
  PROVE  RecencyInv'
<1>1. /\ ArchivesInv /\ sequence \in Nat /\ recency \in [Programs -> Nat]
      /\ \A q \in Programs : recency[q] <= sequence
      /\ \A q, r \in Programs :
           recency[q] = recency[r] /\ recency[q] > 0 => q = r
  BY DEF PopulationInv, RecordsTyped, RecencyInv
<1>2. ASSUME NEW i \in IslandIds
      PROVE  /\ Retained(islands'[i]) \subseteq Retained(islands[i]) \cup {p}
             /\ ~Changed(islands[k], p, cell) =>
                  Retained(islands'[i]) = Retained(islands[i])
             /\ Retained(islands[i]) \subseteq Programs
             /\ \A q \in Retained(islands[i]) : recency[q] > 0
  BY <1>1, PlaceIs, HoldsValid, ArchiveAssumption DEF RecencyInv
<1>3. CASE Changed(islands[k], p, cell)
  <2>1. /\ sequence' = sequence + 1
        /\ recency' = [recency EXCEPT ![p] = sequence + 1]
    BY <1>3
  <2>2. \A q \in Programs :
          recency'[q] = IF q = p THEN sequence + 1 ELSE recency[q]
    BY <1>1, <2>1
  <2>3. \A q \in Programs : recency[q] \in Nat
    BY <1>1
  <2>4. \A q \in Programs : recency'[q] <= sequence'
    BY <1>1, <2>1, <2>2, <2>3
  <2>5. \A q, r \in Programs :
          recency'[q] = recency'[r] /\ recency'[q] > 0 => q = r
    BY <1>1, <2>2, <2>3
  <2>6. ASSUME NEW i \in IslandIds, NEW q \in Retained(islands'[i])
        PROVE  recency'[q] > 0
    <3>1. q = p \/ (q \in Programs /\ recency[q] > 0)
      BY <1>2, <2>6
    <3> QED BY <1>1, <2>2, <3>1
  <2> QED BY <2>4, <2>5, <2>6 DEF RecencyInv
<1>4. CASE ~Changed(islands[k], p, cell)
  <2>1. sequence' \in {sequence, sequence + 1} /\ recency' = recency
    BY <1>4
  <2>2. \A q \in Programs : recency[q] \in Nat
    BY <1>1
  <2>3. \A q \in Programs : recency'[q] <= sequence'
    BY <1>1, <2>1, <2>2
  <2> QED BY <1>1, <1>2, <1>4, <2>1, <2>3 DEF RecencyInv
<1> QED BY <1>3, <1>4

LEMMA OfferedInit == Init => OfferedInv /\ RecencyInv
<1> SUFFICES ASSUME Init PROVE OfferedInv /\ RecencyInv
  OBVIOUS
<1>1. ASSUME NEW i \in IslandIds
      PROVE  /\ islands[i] = Empty /\ held[i] = {} /\ ArrivedAt(i) = {}
  BY DEF Init, ArrivedAt
<1>2. Retained(Empty) = {} /\ Single(Empty)
  <2>1. \A c \in Cells : Empty.grid[c] = NoProgram
    BY DEF Empty
  <2>2. \A m \in Metrics, c \in Cells : Empty.metricCells[m][c] = NoProgram
    BY DEF Empty
  <2>3. Empty.elite = << >> /\ Empty.frontier = << >>
    BY DEF Empty
  <2>4. OccupiedCells(Empty) = {}
    BY <2>1 DEF OccupiedCells, Placed
  <2>5. MetricCellArchive(Empty) = {}
    BY <2>2 DEF MetricCellArchive, Placed
  <2>6. InSeq(Empty.elite) = {} /\ InSeq(Empty.frontier) = {}
    BY <2>3 DEF InSeq
  <2>7. Single(Empty)
    BY <2>1, <2>3 DEF Single, Distinct
  <2> QED BY <2>4, <2>5, <2>6, <2>7 DEF Retained
<1>3. offered = {} /\ sequence = 0 /\ \A p \in Programs : recency[p] = 0
  BY DEF Init
<1> QED BY <1>1, <1>2, <1>3 DEF OfferedInv, RecencyInv

LEMMA OfferedStep ==
  PopulationInv /\ OfferedInv /\ RecencyInv /\ [Next]_vars
    => (OfferedInv /\ RecencyInv)'
<1> SUFFICES ASSUME PopulationInv, OfferedInv, RecencyInv, [Next]_vars
             PROVE  (OfferedInv /\ RecencyInv)'
  OBVIOUS
<1>0. ArchivesInv /\ MigrantsInv /\ current \in IslandIds /\ offered \subseteq Programs
      /\ sequence \in Nat
  BY DEF PopulationInv, InTurn, RecordsTyped
<1>1. ASSUME NEW p \in Programs, Add(p) PROVE (OfferedInv /\ RecencyInv)'
  <2>1. PICK cell \in Cells :
          /\ Place(current, p, cell)
          /\ IF Changed(islands[current], p, cell)
             THEN recency' = [recency EXCEPT ![p] = sequence + 1]
             ELSE recency' = recency
    BY <1>1 DEF Add
  <2>2. /\ offered' = offered \cup {p} /\ held' = held /\ p \notin offered
        /\ sequence' = sequence + 1
    BY <1>1 DEF Add
  <2>3. p \notin IslandProgramIds(current)
    BY <1>0, <2>2 DEF OfferedInv, IslandProgramIds, Retained
  <2>4. OfferedInv'
    BY <1>0, <2>1, <2>2, <2>3, OfferedPlace
  <2>5. RecencyInv'
    BY <1>0, <2>1, <2>2, RecencyPlace
  <2> QED BY <2>4, <2>5
<1>2. CASE Migrate
  <2> DEFINE target == Onward(migrants[1][1])
             p == migrants[1][2]
  <2>1. PICK cell \in Cells :
          /\ Place(target, p, cell)
          /\ IF Changed(islands[target], p, cell)
             THEN /\ sequence' = sequence + 1
                  /\ recency' = [recency EXCEPT ![p] = sequence + 1]
             ELSE sequence' = sequence /\ recency' = recency
    BY <1>2 DEF Migrate
  <2>2. /\ migrants # << >> /\ offered' = offered /\ held' = held
        /\ ~AlreadyPresent(target, p)
    BY <1>2 DEF Migrate
  <2>3. migrants[1] \in IslandIds \X Valid /\ p \in held[migrants[1][1]]
    BY <1>0, <2>2, TailIs DEF MigrantsInv
  <2>4. /\ target \in IslandIds /\ p \in Programs
        /\ p \in offered
    BY <2>3, OnwardInRing, ArchiveAssumption DEF OfferedInv
  <2> HIDE DEF target, p
  <2>5. p \notin IslandProgramIds(target)
    BY <1>0, <2>2, <2>4 DEF MigrantsInv, AlreadyPresent
  <2>6. offered' = offered \cup {p}
    BY <2>2, <2>4
  <2>7. OfferedInv'
    BY <2>1, <2>2, <2>4, <2>5, <2>6, OfferedPlace
  <2>8. RecencyInv'
    BY <2>1, <2>4, RecencyPlace
  <2> QED BY <2>7, <2>8
<1>3. CASE BeginMigration
  <2>1. /\ held' = [i \in IslandIds |-> IslandProgramIds(i)]
        /\ UNCHANGED <<islands, offered, placed, recency, sequence>>
    BY <1>3 DEF BeginMigration, populationVars
  <2>2. \A i \in IslandIds : held'[i] \subseteq offered'
    BY <2>1 DEF OfferedInv, IslandProgramIds, Retained
  <2> QED BY <2>1, <2>2 DEF OfferedInv, RecencyInv, ArrivedAt
<1>4. CASE \/ Skip \/ UNCHANGED vars
           \/ \E strategy \in Rotating : Sample(strategy)
  <2>1. UNCHANGED <<islands, offered, placed, held, recency, sequence>>
    BY <1>4 DEF Skip, Sample, vars, populationVars, historyVars
  <2> QED BY <2>1 DEF OfferedInv, RecencyInv, ArrivedAt
<1> QED BY <1>1, <1>2, <1>3, <1>4 DEF Next

SettledInv == PopulationInv /\ OfferedInv /\ RecencyInv

LEMMA SettledInit == Init => SettledInv
  BY PopulationInit, OfferedInit DEF SettledInv

LEMMA SettledStep == SettledInv /\ [Next]_vars => SettledInv'
  BY PopulationStep, OfferedStep DEF SettledInv

(* The snapshot of every island passes the checks that restoring it makes, *)
(* and what can be sampled is told apart by when it came                   *)
(* (_validate_map_elites_snapshot, _archive_sequences).                    *)
THEOREM SnapshotsAreSound == Spec => []SnapshotsRestore
<1>1. ASSUME SettledInv PROVE SnapshotsRestore
  <2>1. ArchivesInv /\ OfferedInv /\ RecencyInv
    BY <1>1 DEF SettledInv, PopulationInv
  <2>2. ASSUME NEW i \in IslandIds PROVE Restorable(islands[i])
    <3>1. /\ Len(islands[i].elite) <= EliteSize
          /\ Len(islands[i].frontier) <= EliteSize
          /\ Distinct(islands[i].frontier)
      BY <2>1 DEF ArchivesInv, RowsInv, ElitesOf, FrontierOf
    <3>2. Single(islands[i])
      BY <2>1 DEF OfferedInv
    <3>3. MetricCellArchive(islands[i]) \subseteq Measured
      BY <2>1, HoldsValid
    <3> QED BY <3>1, <3>2, <3>3 DEF Restorable, Single
  <2>3. ASSUME NEW p \in AllRetained
        PROVE  p \in Programs /\ recency[p] > 0
    <3>1. PICK i \in IslandIds : p \in Retained(islands[i])
      BY DEF AllRetained
    <3> QED BY <2>1, <3>1, HoldsValid, ArchiveAssumption DEF RecencyInv
  <2> QED BY <2>1, <2>2, <2>3 DEF SnapshotsRestore, RecencyInv
<1>2. SettledInv => SnapshotsRestore
  BY <1>1
<1> QED BY <1>2, SettledInit, SettledStep, PTL DEF Spec

(***************************************************************************)
(* The promise.                                                            *)
(***************************************************************************)
(* A finite set of natural numbers has a greatest.                         *)
LEMMA GreatestExists ==
  ASSUME NEW S \in SUBSET Nat, IsFiniteSet(S), S # {}
  PROVE  \E x \in S : \A y \in S : x >= y
<1> DEFINE F == {s \in SUBSET S : s # {} /\ ~\E x \in s : \A y \in s : x >= y}
<1>1. F = {}
  <2> SUFFICES ASSUME F # {} PROVE FALSE
    OBVIOUS
  <2>1. PICK s \in F : \A x \in s : s \ {x} \notin F
    <3>1. F \in SUBSET SUBSET S
      OBVIOUS
    <3> HIDE DEF F
    <3> QED BY <3>1, LeastSubset
  <2>2. s \in SUBSET S /\ s # {} /\ ~\E x \in s : \A y \in s : x >= y
    BY <2>1
  <2>3. PICK x \in s : x \in Nat
    BY <2>2
  <2>4. CASE s \ {x} = {}
    <3>1. \A y \in s : y = x
      BY <2>4
    <3>2. \A y \in s : x >= y
      BY <2>3, <3>1
    <3> QED BY <2>2, <3>2
  <2>5. CASE s \ {x} # {}
    <3>1. s \ {x} \in SUBSET S /\ s \ {x} \notin F
      BY <2>1, <2>2
    <3>2. PICK z \in s \ {x} : \A y \in s \ {x} : z >= y
      BY <2>5, <3>1
    <3>3. x \in Nat /\ z \in Nat /\ \A y \in s : y \in Nat
      BY <2>2, <2>3, <3>2
    <3>4. CASE x >= z
      <4>1. \A y \in s : x >= y
        BY <3>2, <3>3, <3>4
      <4> QED BY <2>2, <4>1
    <3>5. CASE z >= x
      <4>1. \A y \in s : z >= y
        BY <3>2, <3>3, <3>5
      <4> QED BY <2>2, <3>2, <4>1
    <3> QED BY <3>3, <3>4, <3>5
  <2> QED BY <2>4, <2>5
<1>2. S \in SUBSET S
  OBVIOUS
<1> QED BY <1>1, <1>2

(* b is the best rank in S; -1 if S is empty.                              *)
BestRank(b, S) ==
  /\ S = {} => b = -1
  /\ S # {} => (\E q \in S : b = Key[q]) /\ \A q \in S : Key[q] <= b

(* The first of the elites is the best of those that came.                 *)
LEMMA FirstIsBest ==
  ASSUME NEW e, NEW A \in SUBSET Valid, ElitesOf(e, A), A # {}
  PROVE  e # << >> /\ e[1] \in A /\ \A q \in A : Key[q] <= Key[e[1]]
<1>1. /\ e \in Seq(Valid) /\ EliteSize \in Nat \ {0}
      /\ \A q \in Valid : Key[q] \in Nat
  BY ArchiveAssumption DEF ElitesOf
<1>2. e # << >>
  <2> SUFFICES ASSUME e = << >> PROVE FALSE
    OBVIOUS
  <2>1. InSeq(e) = {} /\ Len(e) = 0
    BY DEF InSeq
  <2>2. Len(e) = EliteSize
    BY <2>1 DEF ElitesOf
  <2> QED BY <1>1, <2>1, <2>2
<1>3. PICK n \in Nat \ {0} : n = Len(e)
  BY <1>1, <1>2
<1>4. DOMAIN e = 1 .. n /\ 1 \in 1 .. n
  BY <1>1, <1>3
<1>5. e[1] \in InSeq(e) /\ e[1] \in Valid
  BY <1>1, <1>4 DEF InSeq
<1>6. ASSUME NEW q \in A PROVE Key[q] <= Key[e[1]]
  <2>1. CASE q \in InSeq(e)
    <3>1. PICK k \in 1 .. n : q = e[k]
      BY <1>4, <2>1 DEF InSeq
    <3>2. k = 1 \/ 1 < k
      OBVIOUS
    <3>3. 1 < k => Key[e[1]] >= Key[e[k]]
      BY <1>4 DEF ElitesOf, Descending
    <3> QED BY <1>1, <1>5, <3>1, <3>2, <3>3
  <2>2. CASE q \notin InSeq(e)
    <3>1. ~Better(q, e[1])
      BY <1>5, <2>2 DEF ElitesOf
    <3> QED BY <1>1, <1>5, <3>1 DEF Better
  <2> QED BY <2>1, <2>2
<1>7. e[1] \in A
  BY <1>5 DEF ElitesOf
<1> QED BY <1>2, <1>6, <1>7

(* The rank that exploiting returns is the best of those offered.          *)
LEMMA ExploitsBest ==
  ASSUME SettledInv
  PROVE  BestRank(ExploitKey, offered \cap Valid)
<1> DEFINE O == offered \cap Valid
           K == {Key[islands[i].elite[1]] : i \in Leaders}
<1>1. /\ \A i \in IslandIds : ElitesOf(islands[i].elite, ArrivedAt(i))
      /\ \A i \in IslandIds : ArrivedAt(i) \subseteq O
      /\ \A p \in O : \E i \in IslandIds : p \in ArrivedAt(i)
      /\ \A i \in IslandIds : ArrivedAt(i) \in SUBSET Valid
  BY ArchiveAssumption DEF SettledInv, PopulationInv, ArchivesInv, RowsInv,
     OfferedInv, ArrivedAt
<1>2. Valid \in SUBSET Programs /\ \A q \in Valid : Key[q] \in Nat
  BY ArchiveAssumption
<1>3. ASSUME NEW i \in IslandIds
      PROVE  i \in Leaders <=> ArrivedAt(i) # {}
  <2>1. ArrivedAt(i) # {} => islands[i].elite # << >>
    BY <1>1, FirstIsBest
  <2>2. islands[i].elite # << >> => ArrivedAt(i) # {}
    <3> SUFFICES ASSUME islands[i].elite # << >> PROVE ArrivedAt(i) # {}
      OBVIOUS
    <3>1. islands[i].elite \in Seq(Valid) /\ InSeq(islands[i].elite) \subseteq ArrivedAt(i)
      BY <1>1 DEF ElitesOf
    <3>2. 1 \in DOMAIN islands[i].elite
      BY <3>1
    <3> QED BY <3>1, <3>2 DEF InSeq
  <2> QED BY <2>1, <2>2 DEF Leaders
<1>4. CASE O = {}
  <2>1. Leaders = {}
    BY <1>1, <1>3, <1>4 DEF Leaders
  <2>2. ExploitKey = -1
    BY <2>1 DEF ExploitKey
  <2> QED BY <1>4, <2>2 DEF BestRank
<1>5. CASE O # {}
  <2>1. ASSUME NEW i \in Leaders
        PROVE  /\ i \in IslandIds /\ islands[i].elite[1] \in O
               /\ \A q \in ArrivedAt(i) : Key[q] <= Key[islands[i].elite[1]]
    <3>1. i \in IslandIds
      BY DEF Leaders
    <3>2. ArrivedAt(i) # {} /\ ArrivedAt(i) \in SUBSET Valid
          /\ ElitesOf(islands[i].elite, ArrivedAt(i))
      BY <1>1, <1>3, <3>1
    <3> QED BY <1>1, <3>1, <3>2, FirstIsBest
  <2>2. Leaders # {}
    BY <1>1, <1>3, <1>5
  <2>3. K \in SUBSET Nat /\ K # {}
    BY <1>2, <2>1, <2>2
  <2>4. IsFiniteSet(K)
    <3>1. IsFiniteSet(IslandIds)
      BY FS_Interval, IslandAssumption DEF IslandIds
    <3>2. IsFiniteSet(Leaders)
      BY <3>1, FS_Subset DEF Leaders
    <3> DEFINE f == [i \in Leaders |-> Key[islands[i].elite[1]]]
    <3>3. f \in Surjection(Leaders, K)
      BY DEF Surjection
    <3> HIDE DEF f, K
    <3> QED BY <3>2, <3>3, FS_Surjection
  <2>5. \E x \in K : \A y \in K : x >= y
    <3> HIDE DEF K
    <3> QED BY <2>3, <2>4, GreatestExists
  <2>6. Max(K) \in K /\ \A y \in K : Max(K) >= y
    <3> HIDE DEF K
    <3> QED BY <2>5 DEF Max
  <2>7. ExploitKey = Max(K)
    BY <2>2 DEF ExploitKey
  <2>8. \E q \in O : ExploitKey = Key[q]
    <3>1. PICK i \in Leaders : ExploitKey = Key[islands[i].elite[1]]
      <4> DEFINE x == ExploitKey
      <4>1. x \in K
        BY <2>6, <2>7
      <4> HIDE DEF x
      <4>2. \E i \in Leaders : x = Key[islands[i].elite[1]]
        BY <4>1
      <4> QED BY <4>2 DEF x
    <3> QED BY <2>1, <3>1
  <2>9. ASSUME NEW q \in O PROVE Key[q] <= ExploitKey
    <3>1. PICK i \in IslandIds : q \in ArrivedAt(i)
      BY <1>1
    <3>2. i \in Leaders
      BY <1>3, <3>1
    <3>3. Key[q] <= Key[islands[i].elite[1]]
      BY <2>1, <3>1, <3>2
    <3>4. Key[islands[i].elite[1]] \in K
      BY <3>2
    <3>5. Max(K) >= Key[islands[i].elite[1]]
      BY <2>6, <3>4
    <3>6. /\ Key[q] \in Nat /\ Key[islands[i].elite[1]] \in Nat
          /\ Max(K) \in Nat
      BY <1>2, <2>3, <2>6, <3>4
    <3> HIDE DEF K
    <3> QED BY <2>7, <3>3, <3>5, <3>6
  <2> HIDE DEF O
  <2> QED BY <1>5, <2>8, <2>9 DEF BestRank, O
<1> HIDE DEF O
<1> QED BY <1>4, <1>5 DEF O

(* One more program.                                                       *)
LEMMA BestRankGrows ==
  ASSUME NEW S \in SUBSET Valid, NEW p \in Valid, NEW b, NEW c,
         BestRank(b, S), BestRank(c, S \cup {p})
  PROVE  c = IF Key[p] > b THEN Key[p] ELSE b
<1>1. \A q \in Valid : Key[q] \in Nat
  BY ArchiveAssumption
<1>2. /\ \E q \in S \cup {p} : c = Key[q]
      /\ \A q \in S \cup {p} : Key[q] <= c
  BY DEF BestRank
<1>3. CASE S = {}
  <2>1. b = -1 /\ c = Key[p]
    BY <1>2, <1>3 DEF BestRank
  <2> QED BY <1>1, <2>1
<1>4. CASE S # {}
  <2>1. (\E q \in S : b = Key[q]) /\ \A q \in S : Key[q] <= b
    BY <1>4 DEF BestRank
  <2>2. PICK q \in S : b = Key[q]
    BY <2>1
  <2>3. PICK r \in S \cup {p} : c = Key[r]
    BY <1>2
  <2>4. b \in Nat /\ c \in Nat /\ Key[p] \in Nat
    BY <1>1, <2>2, <2>3
  <2>5. b <= c /\ Key[p] <= c
    BY <1>2, <2>2
  <2>6. c = Key[p] \/ c <= b
    BY <2>1, <2>3
  <2> QED BY <2>4, <2>5, <2>6
<1> QED BY <1>3, <1>4

(* There is one best rank.                                                 *)
LEMMA BestRankIsOne ==
  ASSUME NEW S \in SUBSET Valid, NEW b, NEW c, BestRank(b, S), BestRank(c, S)
  PROVE  b = c
<1>1. \A q \in Valid : Key[q] \in Nat
  BY ArchiveAssumption
<1>2. CASE S = {}
  BY <1>2 DEF BestRank
<1>3. CASE S # {}
  <2>1. PICK q \in S : b = Key[q]
    BY <1>3 DEF BestRank
  <2>2. PICK r \in S : c = Key[r]
    BY <1>3 DEF BestRank
  <2>3. Key[r] <= Key[q] /\ Key[q] <= Key[r]
    BY <2>1, <2>2 DEF BestRank
  <2> QED BY <1>1, <2>1, <2>2, <2>3
<1> QED BY <1>2, <1>3

(* The population implements the promise that the best program it was ever *)
(* offered can be sampled: an addition is an offer, of which the rank that *)
(* exploiting returns is the best so far; rejections, migrations and       *)
(* samples are no steps of it.                                             *)
THEOREM BestIsKept == Spec => KeepsPromise
<1>1. Init => Promise!Init
  <2> SUFFICES ASSUME Init PROVE Promise!Init
    OBVIOUS
  <2>1. Leaders = {}
    BY DEF Init, Leaders, Empty
  <2> QED BY <2>1 DEF Init, Promise!Init, ExploitKey
<1>2. ASSUME SettledInv, [Next]_vars PROVE [Promise!Next]_Promise!vars
  <2>1. SettledInv'
    BY <1>2, SettledStep
  <2>2. BestRank(ExploitKey, offered \cap Valid)
    BY <1>2, ExploitsBest
  <2>3. BestRank(ExploitKey', offered' \cap Valid)
    <3>1. (SettledInv => BestRank(ExploitKey, offered \cap Valid))'
      BY ExploitsBest, PTL
    <3> QED BY <2>1, <3>1 DEF BestRank
  <2>4. CASE offered' \cap Valid = offered \cap Valid
    <3>1. ExploitKey' = ExploitKey
      BY <2>2, <2>3, <2>4, BestRankIsOne
    <3> QED BY <2>4, <3>1 DEF Promise!vars
  <2>5. ASSUME NEW p \in Programs, Add(p) PROVE [Promise!Next]_Promise!vars
    <3>1. p \notin offered /\ offered' = offered \cup {p}
      BY <2>5 DEF Add
    <3>2. CASE p \in Valid
      <4>1. offered' \cap Valid = (offered \cap Valid) \cup {p}
        BY <3>1, <3>2
      <4>2. ExploitKey' = IF Key[p] > ExploitKey THEN Key[p] ELSE ExploitKey
        BY <2>2, <2>3, <3>2, <4>1, BestRankGrows
      <4>3. Promise!Offer(p)
        BY <3>1, <4>1, <4>2 DEF Promise!Offer
      <4> QED BY <3>2, <4>3 DEF Promise!Next
    <3>3. CASE p \notin Valid
      BY <2>4, <3>1, <3>3
    <3> QED BY <3>2, <3>3
  <2>6. CASE \/ BeginMigration \/ Skip \/ Migrate
             \/ \E strategy \in Rotating : Sample(strategy)
             \/ UNCHANGED vars
    <3>1. offered' = offered
      BY <2>6 DEF BeginMigration, Skip, Migrate, Sample, vars, historyVars
    <3> QED BY <2>4, <3>1
  <2> QED BY <1>2, <2>5, <2>6 DEF Next
<1> QED BY <1>1, <1>2, SettledInit, SettledStep, PTL
        DEF Spec, KeepsPromise, Promise!Spec

(***************************************************************************)
(* Rotation.                                                               *)
(***************************************************************************)
(* A finite set in some order.                                             *)
LEMMA SetToSeqIs ==
  ASSUME NEW S, IsFiniteSet(S)
  PROVE  SetToSeq(S) \in Seq(S) /\ Distinct(SetToSeq(S))
<1>1. PICK n \in Nat : n = Cardinality(S)
  BY FS_CardinalityType
<1>2. PICK f \in Bijection(1 .. n, S) : TRUE
  BY <1>1, FS_CardinalityType DEF ExistsBijection
<1>3. f \in [1 .. n -> S] /\ IsInjective(f)
  BY <1>2 DEF Bijection, Injection, IsInjective
<1>4. SetToSeq(S) \in [1 .. n -> S] /\ IsInjective(SetToSeq(S))
  BY <1>1, <1>3 DEF SetToSeq
<1>5. SetToSeq(S) \in Seq(S)
  BY <1>4
<1>6. Distinct(SetToSeq(S))
  BY <1>4 DEF IsInjective, Distinct
<1> QED BY <1>5, <1>6

(* A set of programs in the order of rank.                                 *)
LEMMA ByKeyIs ==
  ASSUME NEW S \in SUBSET Programs
  PROVE  ByKey(S) \in Seq(Programs) /\ Distinct(ByKey(S))
<1>1. IsFiniteSet(S)
  BY ArchiveAssumption, FS_Subset
<1>2. SetToSeq(S) \in Seq(S) /\ Distinct(SetToSeq(S))
  BY <1>1, SetToSeqIs
<1>3. SetToSeq(S) \in Seq(Programs)
  <2> DEFINE t == SetToSeq(S)
  <2>1. t \in Seq(S)
    BY <1>2
  <2> HIDE DEF t
  <2>2. \A i \in 1 .. Len(t) : t[i] \in Programs
    BY <2>1
  <2>3. t \in Seq(Programs)
    BY <2>1, <2>2
  <2> QED BY <2>3 DEF t
<1> QED BY <1>2, <1>3, SortedIs DEF ByKey

(* The best of a set of programs is one of them.                           *)
LEMMA BestIsIn ==
  ASSUME NEW S \in SUBSET Programs, S # {}
  PROVE  Best(S) \in S
<1> DEFINE K == {Key[p] : p \in S}
<1>1. \A p \in Programs : Key[p] \in Nat
  BY ArchiveAssumption
<1>2. K \in SUBSET Nat /\ K # {}
  BY <1>1
<1>3. IsFiniteSet(K)
  <2>1. IsFiniteSet(S)
    BY ArchiveAssumption, FS_Subset
  <2> DEFINE f == [p \in S |-> Key[p]]
  <2>2. f \in Surjection(S, K)
    BY DEF Surjection
  <2> HIDE DEF f, K
  <2> QED BY <2>1, <2>2, FS_Surjection
<1>4. PICK x \in K : \A y \in K : x >= y
  <2> HIDE DEF K
  <2> QED BY <1>2, <1>3, GreatestExists
<1>5. PICK p \in S : x = Key[p]
  BY <1>4
<1>6. \A q \in S : ~Better(q, p)
  BY <1>1, <1>4, <1>5 DEF Better
<1> QED BY <1>6 DEF Best

(* The targets of a strategy are a row without repetitions.                *)
LEMMA TargetsAre ==
  ASSUME ArchivesInv, NEW s \in Rotating
  PROVE  LET t == Targets(s)
         IN  /\ Len(t) \in Nat /\ DOMAIN t = 1 .. Len(t)
             /\ t # << >> => Len(t) > 0
             /\ Distinct(t)
<1>1. AllRetained \in SUBSET Programs
  BY HoldsValid, ArchiveAssumption DEF AllRetained
<1> DEFINE t == Targets(s)
<1>2. CASE s = "metric"
  <2>1. CASE AllRetained \cap Measured = {}
    <3>1. t = << >>
      BY <1>2, <2>1 DEF Targets
    <3> HIDE DEF t
    <3>2. Len(t) \in Nat /\ DOMAIN t = 1 .. Len(t) /\ Distinct(t)
      BY <3>1 DEF Distinct
    <3> QED BY <3>1, <3>2 DEF t
  <2>2. CASE AllRetained \cap Measured # {}
    <3> DEFINE order == SetToSeq(Metrics)
    <3>1. t = [k \in DOMAIN order |-> <<order[k], Leader(order[k])>>]
      BY <1>2, <2>2 DEF Targets
    <3>2. order \in Seq(Metrics) /\ Distinct(order)
      BY SetToSeqIs, ArchiveAssumption
    <3> HIDE DEF order, t
    <3>3. PICK n \in Nat : n = Len(order) /\ DOMAIN order = 1 .. n
      BY <3>2
    <3> DEFINE X == {t[k] : k \in 1 .. n}
    <3>4. t \in [1 .. n -> X]
      BY <3>1, <3>3
    <3> HIDE DEF X
    <3>5. t \in Seq(X) /\ Len(t) = n /\ DOMAIN t = 1 .. n
      BY <3>4
    <3>6. \A k \in 1 .. n : t[k][1] = order[k]
      BY <3>1, <3>3
    <3>7. Distinct(t)
      BY <3>2, <3>3, <3>5, <3>6 DEF Distinct
    <3>8. t # << >> => n > 0
      BY <3>5
    <3> QED BY <3>5, <3>7, <3>8 DEF t
  <2> QED BY <2>1, <2>2
<1>3. CASE t \in Seq(Programs) /\ Distinct(t)
  <2> HIDE DEF t
  <2>1. Len(t) \in Nat /\ DOMAIN t = 1 .. Len(t) /\ (t # << >> => Len(t) > 0)
    BY <1>3
  <2> QED BY <1>3, <2>1 DEF t
<1>4. CASE s = "frontier"
  <2>1. NonDominated \in SUBSET Programs
    BY <1>1 DEF NonDominated
  <2>2. t = ByKey(NonDominated)
    BY <1>4 DEF Targets
  <2> QED BY <1>3, <2>1, <2>2, ByKeyIs
<1>5. CASE s = "lineage"
  <2>1. ASSUME NEW r \in Roots PROVE Representative(r) \in Programs
    <3> DEFINE S == {p \in AllRetained : Root[p] = r}
    <3>1. S \in SUBSET Programs /\ S # {}
      BY <1>1 DEF Roots
    <3>2. Best(S) \in S
      <4> HIDE DEF S
      <4> QED BY <3>1, BestIsIn
    <3> QED BY <3>1, <3>2 DEF Representative
  <2>2. {Representative(r) : r \in Roots} \in SUBSET Programs
    BY <2>1
  <2>3. t = ByKey({Representative(r) : r \in Roots})
    BY <1>5 DEF Targets
  <2> QED BY <1>3, <2>2, <2>3, ByKeyIs
<1> QED BY <1>2, <1>4, <1>5 DEF Rotating

(* Two turns of the same place are a round apart at least.                 *)
LEMMA SameTurn ==
  ASSUME NEW x \in Nat, NEW y \in Nat, NEW n \in Nat \ {0}, x < y,
         x % n = y % n
  PROVE  y - x >= n
<1>1. PICK a \in Int, r \in Int : x = n * a + r /\ r = x % n
  OBVIOUS
<1>2. PICK c \in Int, u \in Int : y = n * c + u /\ u = y % n
  OBVIOUS
<1>3. r = u
  BY <1>1, <1>2
<1>4. CASE c <= a
  <2>1. PICK d \in Nat : a = c + d
    <3>1. a - c \in Nat /\ a = c + (a - c)
      BY <1>4
    <3> QED BY <3>1
  <2>2. n * (c + d) = n * c + n * d /\ n * d \in Nat /\ n * c \in Int
    OBVIOUS
  <2> QED BY <1>1, <1>2, <1>3, <2>1, <2>2
<1>5. CASE c > a
  <2>1. PICK d \in Nat : c = a + 1 + d
    <3>1. c - a - 1 \in Nat /\ c = a + 1 + (c - a - 1)
      BY <1>5
    <3> QED BY <3>1
  <2>2. n * (a + 1 + d) = n * a + n + n * d /\ n * d \in Nat /\ n * a \in Int
    OBVIOUS
  <2>3. PICK p \in Int, q \in Nat : p = n * a /\ q = n * d
    BY <2>2
  <2>4. y = p + n + q + r /\ x = p + r
    BY <1>1, <1>2, <1>3, <2>1, <2>2, <2>3
  <2> QED BY <2>3, <2>4
<1> QED BY <1>4, <1>5

(* The picks since the last change are the targets in turn, up to the      *)
(* index.                                                                  *)
TurnOf(s, n, k) == ((index[s] - n + k - 1) % Len(Targets(s))) + 1

RotationInv ==
  /\ DOMAIN picks = Rotating
  /\ \A s \in Rotating :
       \E n \in Nat :
         /\ n <= index[s]
         /\ n > 0 => Len(Targets(s)) > 0
         /\ picks[s] = [k \in 1 .. n |-> Targets(s)[TurnOf(s, n, k)]]

(* Targets depend on the archives only.                                    *)
LEMMA TargetsStay ==
  ASSUME UNCHANGED islands
  PROVE  \A s \in Rotating : Targets(s)' = Targets(s)
  BY DEF Targets, AllRetained, NonDominated, Roots, Representative, Leader

LEMMA RotationInit == Init => RotationInv
<1> SUFFICES ASSUME Init PROVE RotationInv
  OBVIOUS
<1>1. picks = [s \in Rotating |-> << >>] /\ index = [s \in Rotating |-> 0]
  BY DEF Init
<1> SUFFICES ASSUME NEW s \in Rotating
             PROVE  /\ 0 <= index[s]
                    /\ picks[s] = [k \in 1 .. 0 |-> Targets(s)[TurnOf(s, 0, k)]]
  BY <1>1 DEF RotationInv
<1> QED BY <1>1

LEMMA RotationStep ==
  SettledInv /\ RotationInv /\ [Next]_vars => RotationInv'
<1> SUFFICES ASSUME SettledInv, RotationInv, [Next]_vars PROVE RotationInv'
  OBVIOUS
<1>0. /\ index \in [Rotating -> 0 .. MaxSamples] /\ MaxSamples \in Nat
      /\ ArchivesInv
  BY IslandAssumption DEF SettledInv, PopulationInv, RecordsTyped
<1>1. CASE picks' = [s \in Rotating |-> << >>] /\ index' = index
  <2> SUFFICES ASSUME NEW s \in Rotating
               PROVE  /\ 0 <= index'[s]
                      /\ picks'[s] = [k \in 1 .. 0 |-> Targets(s)'[TurnOf(s, 0, k)']]
    BY <1>1 DEF RotationInv
  <2> QED BY <1>0, <1>1
<1>2. CASE UNCHANGED <<islands, picks, index>>
  <2>1. \A s \in Rotating : Targets(s)' = Targets(s)
    BY <1>2, TargetsStay
  <2> QED BY <1>2, <2>1 DEF RotationInv, TurnOf
<1>3. ASSUME NEW s \in Rotating, Sample(s) PROVE RotationInv'
  <2>1. /\ Targets(s) # << >>
        /\ picks' = [picks EXCEPT ![s] = Append(@,
             Targets(s)[(index[s] % Len(Targets(s))) + 1])]
        /\ index' = [index EXCEPT ![s] = @ + 1]
        /\ islands' = islands
    BY <1>3 DEF Sample, populationVars
  <2>2. \A x \in Rotating : Targets(x)' = Targets(x)
    BY <2>1, TargetsStay
  <2>3. ASSUME NEW x \in Rotating, x # s
        PROVE  \E n \in Nat :
                 /\ n <= index'[x]
                 /\ n > 0 => Len(Targets(x)') > 0
                 /\ picks'[x] = [k \in 1 .. n |-> Targets(x)'[TurnOf(x, n, k)']]
    <3>1. picks'[x] = picks[x] /\ index'[x] = index[x]
      BY <1>0, <2>1, <2>3 DEF RotationInv
    <3>2. PICK n \in Nat :
            /\ n <= index[x]
            /\ n > 0 => Len(Targets(x)) > 0
            /\ picks[x] = [k \in 1 .. n |-> Targets(x)[TurnOf(x, n, k)]]
      BY DEF RotationInv
    <3>3. \A k : TurnOf(x, n, k)' = TurnOf(x, n, k)
      BY <2>2, <3>1 DEF TurnOf
    <3> QED BY <2>2, <3>1, <3>2, <3>3
  <2>4. \E n \in Nat :
          /\ n <= index'[s]
          /\ n > 0 => Len(Targets(s)') > 0
          /\ picks'[s] = [k \in 1 .. n |-> Targets(s)'[TurnOf(s, n, k)']]
    <3> DEFINE t == Targets(s)
    <3>1. Len(t) \in Nat /\ Len(t) > 0
      BY <1>0, <2>1, TargetsAre
    <3>2. PICK n \in Nat :
            /\ n <= index[s]
            /\ picks[s] = [k \in 1 .. n |-> t[TurnOf(s, n, k)]]
      BY DEF RotationInv
    <3> HIDE DEF t
    <3>3. PICK i \in Nat, L \in Nat \ {0} : i = index[s] /\ L = Len(t)
      BY <1>0, <3>1
    <3>4. index'[s] = i + 1
      BY <1>0, <2>1, <3>3
    <3>5. PICK g : /\ g = [k \in 1 .. n |-> t[((i - n + k - 1) % L) + 1]]
                   /\ picks[s] = g
      BY <3>2, <3>3 DEF TurnOf, t
    <3>6. picks'[s] = Append(g, t[(i % L) + 1])
      BY <2>1, <3>3, <3>5 DEF RotationInv, t
    <3>7. Append(g, t[(i % L) + 1])
            = [k \in 1 .. n + 1 |-> t[(((i + 1) - (n + 1) + k - 1) % L) + 1]]
      <4> DEFINE X == {t[((i - n + k - 1) % L) + 1] : k \in 1 .. n + 1}
                 h == [k \in 1 .. n + 1 |-> t[(((i + 1) - (n + 1) + k - 1) % L) + 1]]
      <4>1. \A k \in 1 .. n + 1 : (i + 1) - (n + 1) + k - 1 = i - n + k - 1
        OBVIOUS
      <4>2. i - n + (n + 1) - 1 = i /\ n + 1 \in 1 .. n + 1
        OBVIOUS
      <4>3. t[(i % L) + 1] \in X
        BY <4>2
      <4>4. g \in Seq(X) /\ Len(g) = n
        <5>0. \A k \in 1 .. n : k \in 1 .. n + 1
          OBVIOUS
        <5>1. g \in [1 .. n -> X]
          BY <3>5, <5>0
        <5> HIDE DEF X
        <5> QED BY <5>1
      <4>5. /\ DOMAIN h = 1 .. n + 1
            /\ \A k \in 1 .. n + 1 : h[k] = t[((i - n + k - 1) % L) + 1]
        BY <4>1
      <4> HIDE DEF X, h
      <4>6. /\ DOMAIN Append(g, t[(i % L) + 1]) = 1 .. n + 1
            /\ \A k \in 1 .. n : Append(g, t[(i % L) + 1])[k] = g[k]
            /\ Append(g, t[(i % L) + 1])[n + 1] = t[(i % L) + 1]
            /\ Append(g, t[(i % L) + 1]) \in [1 .. n + 1 -> X]
        <5> DEFINE y == t[(i % L) + 1]
        <5> HIDE DEF y
        <5>1. y \in X
          BY <4>3 DEF y
        <5>2. /\ Append(g, y) \in Seq(X) /\ Len(Append(g, y)) = n + 1
              /\ \A k \in 1 .. n : Append(g, y)[k] = g[k]
              /\ Append(g, y)[n + 1] = y
          BY <4>4, <5>1
        <5>3. /\ DOMAIN Append(g, y) = 1 .. n + 1
              /\ Append(g, y) \in [1 .. n + 1 -> X]
          <6>0. n + 1 \in Nat
            OBVIOUS
          <6>1. PICK N \in Nat, w \in Seq(X) : N = n + 1 /\ w = Append(g, y)
            BY <5>2, <6>0, Zenon
          <6>2. Len(w) = N
            BY <5>2, <6>1
          <6>3. DOMAIN w = 1 .. N /\ w \in [1 .. N -> X]
            BY <6>2
          <6> QED BY <6>1, <6>3
        <5> QED BY <5>2, <5>3 DEF y
      <4>7. ASSUME NEW k \in 1 .. n + 1
            PROVE  Append(g, t[(i % L) + 1])[k] = h[k]
        <5>1. CASE k \in 1 .. n
          BY <3>5, <4>5, <4>6, <5>1
        <5>2. CASE k = n + 1
          <6>1. i - n + k - 1 = i
            BY <5>2
          <6>2. h[k] = t[((i - n + k - 1) % L) + 1]
            BY <4>5
          <6>3. h[k] = t[(i % L) + 1]
            BY <6>1, <6>2
          <6>4. Append(g, t[(i % L) + 1])[k] = t[(i % L) + 1]
            BY <4>6, <5>2
          <6> QED BY <6>3, <6>4
        <5>3. k \in 1 .. n \/ k = n + 1
          OBVIOUS
        <5> QED BY <5>1, <5>2, <5>3, Zenon
      <4>8. h = [k \in 1 .. n + 1 |-> h[k]]
        BY DEF h
      <4>9. Append(g, t[(i % L) + 1]) = h
        BY <4>6, <4>7, <4>8
      <4> QED BY <4>9 DEF h
    <3>8. /\ n + 1 \in Nat /\ n + 1 <= i + 1
          /\ L > 0
      BY <3>2, <3>3
    <3>9. Targets(s)' = t
      BY <2>2 DEF t
    <3>10. \A k : TurnOf(s, n + 1, k)' = (((i + 1) - (n + 1) + k - 1) % L) + 1
      BY <3>3, <3>4, <3>9 DEF TurnOf
    <3>11. picks'[s] = [k \in 1 .. n + 1 |-> t[TurnOf(s, n + 1, k)']]
      BY <3>6, <3>7, <3>10
    <3> QED BY <3>3, <3>4, <3>8, <3>9, <3>11
  <2>5. DOMAIN picks' = Rotating
    BY <2>1 DEF RotationInv
  <2> QED BY <2>3, <2>4, <2>5 DEF RotationInv
<1>4. CASE (\E p \in Programs : Add(p)) \/ Migrate
  BY <1>1, <1>4 DEF Add, Migrate, Place
<1>5. CASE BeginMigration \/ Skip \/ UNCHANGED vars
  BY <1>2, <1>5 DEF BeginMigration, Skip, vars, populationVars
<1> QED BY <1>3, <1>4, <1>5 DEF Next

(* While nothing changes, a rotating strategy offers every one of its      *)
(* targets before it offers one again (sample).                            *)
THEOREM RotationTakesTurns == Spec => []RotationIsFair
<1>1. ASSUME SettledInv, RotationInv PROVE RotationIsFair
  <2> SUFFICES ASSUME NEW s \in Rotating, NEW k \in DOMAIN picks[s],
                      NEW l \in DOMAIN picks[s],
                      picks[s][k] = picks[s][l], k < l
               PROVE  l - k >= Len(Targets(s))
    BY DEF RotationIsFair
  <2>1. PICK n \in Nat :
          /\ n <= index[s]
          /\ n > 0 => Len(Targets(s)) > 0
          /\ picks[s] = [j \in 1 .. n |-> Targets(s)[TurnOf(s, n, j)]]
    BY <1>1 DEF RotationInv
  <2>2. k \in 1 .. n /\ l \in 1 .. n
    BY <2>1
  <2>3. ArchivesInv /\ index[s] \in Nat
    BY <1>1, IslandAssumption DEF SettledInv, PopulationInv, RecordsTyped
  <2> DEFINE t == Targets(s)
  <2>4. Len(t) \in Nat /\ DOMAIN t = 1 .. Len(t) /\ Distinct(t)
    BY <2>3, TargetsAre
  <2>5. Len(t) > 0
    BY <2>1, <2>2
  <2>6. t[TurnOf(s, n, k)] = t[TurnOf(s, n, l)]
    BY <2>1, <2>2
  <2> HIDE DEF t
  <2>7. PICK b \in Nat, L \in Nat \ {0} : b = index[s] - n /\ L = Len(t)
    <3>1. n <= index[s]
      BY <2>1
    <3>2. index[s] - n \in Nat
      BY <2>3, <3>1
    <3>3. Len(t) \in Nat \ {0}
      BY <2>4, <2>5
    <3> QED BY <3>2, <3>3
  <2>8. /\ b + k - 1 \in Nat /\ b + l - 1 \in Nat /\ b + k - 1 < b + l - 1
    BY <2>2, <2>7
  <2>9. /\ (b + k - 1) % L \in 0 .. L - 1 /\ (b + l - 1) % L \in 0 .. L - 1
    BY <2>7, <2>8
  <2>10. /\ TurnOf(s, n, k) = ((b + k - 1) % L) + 1
         /\ TurnOf(s, n, l) = ((b + l - 1) % L) + 1
    BY <2>7 DEF TurnOf, t
  <2>11. /\ TurnOf(s, n, k) \in DOMAIN t /\ TurnOf(s, n, l) \in DOMAIN t
    BY <2>4, <2>7, <2>9, <2>10
  <2>12. (b + k - 1) % L = (b + l - 1) % L
    <3>1. TurnOf(s, n, k) = TurnOf(s, n, l)
      BY <2>4, <2>6, <2>11 DEF Distinct
    <3> QED BY <2>9, <2>10, <3>1
  <2>13. (b + l - 1) - (b + k - 1) >= L
    BY <2>8, <2>12, SameTurn
  <2> QED BY <2>2, <2>7, <2>13 DEF t
<1>2. SettledInv /\ RotationInv => RotationIsFair
  BY <1>1
<1> QED BY <1>2, SettledInit, SettledStep, RotationInit, RotationStep, PTL
        DEF Spec
=============================================================================
