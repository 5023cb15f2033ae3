----------------------------- MODULE MapElites -----------------------------
(***************************************************************************)
(* One MAP-Elites archive (population/map_elites.py) as a record, and what *)
(* add() makes of it.  An archive keeps the best program of every cell,    *)
(* the best programs overall, the best program of every cell for each      *)
(* declared metric, and a bounded Pareto frontier over those metrics.      *)
(*                                                                         *)
(* Programs are model values.  Key ranks them as _selection_key does (by   *)
(* selection score, then fitness; ties are possible), Vector gives their   *)
(* normalized metrics.  The cell a program falls in depends on its text    *)
(* and on the elites of the moment, so it is a parameter of Add.           *)
(***************************************************************************)
EXTENDS Integers, Sequences, FiniteSets, FiniteSetsExt, Functions, TLC

CONSTANTS
  Programs, NoProgram,
  Valid,       \* the programs whose evaluation is valid, with a finite score
  Key,         \* program -> rank
  Metrics,     \* metric_order, as a set
  Vector,      \* program -> (metric -> value)
  Measured,    \* the programs whose vector is complete
  Cells,
  EliteSize,   \* elite_archive_size, the bound of the frontier too
  Scale        \* a multiple of every difference of two values of a metric

ASSUME ArchiveAssumption ==
  /\ IsFiniteSet(Programs) /\ IsFiniteSet(Metrics)
  /\ NoProgram \notin Programs
  /\ Valid \subseteq Programs /\ Measured \subseteq Programs
  /\ Key \in [Programs -> Nat]
  /\ Vector \in [Measured -> [Metrics -> Nat]]
  /\ Metrics = {} => Measured = {}
  /\ EliteSize \in Nat \ {0}
  /\ Scale \in Nat \ {0}

(***************************************************************************)
(* Python's sort: stable.  The element that comes k-th has k - 1 before it. *)
(***************************************************************************)
Sorted(s, Above(_, _)) ==
  LET Before(i, j) == \/ Above(s[i], s[j])
                      \/ ~Above(s[j], s[i]) /\ i < j
      Earlier(i) == Cardinality({j \in DOMAIN s : Before(j, i)})
  IN  [k \in DOMAIN s |-> s[CHOOSE i \in DOMAIN s : Earlier(i) = k - 1]]

InSeq(s) == {s[i] : i \in DOMAIN s}

(* The elements of s that are in S, in their order.                        *)
Those(s, S) ==
  LET places == {i \in DOMAIN s : s[i] \in S}
      Earlier(i) == Cardinality({j \in places : j < i})
  IN  [k \in 1 .. Cardinality(places) |->
         s[CHOOSE i \in places : Earlier(i) = k - 1]]

Take(s, n) == SubSeq(s, 1, IF Len(s) < n THEN Len(s) ELSE n)

Better(p, q) == Key[p] > Key[q]

(***************************************************************************)
(* The frontier.                                                           *)
(***************************************************************************)
Dominates(p, q) ==
  /\ \A m \in Metrics : Vector[p][m] >= Vector[q][m]
  /\ \E m \in Metrics : Vector[p][m] > Vector[q][m]

Ascending(s, m) == Sorted(s, LAMBDA p, q : Vector[p][m] < Vector[q][m])

Infinite == Scale * Cardinality(Metrics) + 1

(* The ends of the row of a metric, and the gap between the neighbours of p. *)
Extreme(s, p, m) ==
  LET row == Ascending(s, m) IN p \in {row[1], row[Len(s)]}

Gap(s, p, m) ==
  LET row == Ascending(s, m)
      i == CHOOSE j \in DOMAIN s : row[j] = p
      span == Vector[row[Len(s)]][m] - Vector[row[1]][m]
  IN  IF span = 0 THEN 0
      ELSE ((Vector[row[i + 1]][m] - Vector[row[i - 1]][m]) * Scale) \div span

(* _crowding_distances, times Scale.                                       *)
Crowding(s, p) ==
  IF \E m \in Metrics : Extreme(s, p, m)
  THEN Infinite
  ELSE SumFunction([m \in Metrics |-> Gap(s, p, m)])

(* _trim_pareto_frontier.                                                  *)
Roomier(x, y) == x[2] > y[2] \/ (x[2] = y[2] /\ Better(x[1], y[1]))

Trimmed(s) ==
  IF Len(s) =< EliteSize
  THEN Sorted(s, Better)
  ELSE LET marked == [i \in DOMAIN s |-> <<s[i], Crowding(s, s[i])>>]
           row == Sorted(marked, Roomier)
       IN  [i \in 1 .. EliteSize |-> row[i][1]]

Rivals(frontier, p) == InSeq(frontier) \ {p}
Dominated(frontier, p) == \E q \in Rivals(frontier, p) : Dominates(q, p)

(* The frontier with p, in the place of those it dominates.                *)
Joined(frontier, p) ==
  Append(Those(frontier, {q \in Rivals(frontier, p) : ~Dominates(p, q)}), p)

FrontierByKey(frontier, p) ==
  IF p \notin Measured \/ Dominated(frontier, p)
  THEN frontier
  ELSE Take(Sorted(Joined(frontier, p), Better), EliteSize)

(* _retain_pareto_frontier.                                                *)
Frontier(frontier, p) ==
  IF p \notin Measured \/ Dominated(frontier, p)
  THEN frontier
  ELSE Trimmed(Joined(frontier, p))

(***************************************************************************)
(* Cells, cells of metrics, elites.                                        *)
(***************************************************************************)
Empty ==
  [grid |-> [c \in Cells |-> NoProgram],
   elite |-> << >>,
   frontier |-> << >>,
   metricCells |-> [m \in Metrics |-> [c \in Cells |-> NoProgram]]]

EntersCell(archive, p, cell) ==
  LET occupant == archive.grid[cell]
  IN  occupant = NoProgram \/ Better(p, occupant)

EntersMetricCellByValue(archive, p, cell, m) ==
  LET occupant == archive.metricCells[m][cell]
  IN  /\ p \in Measured
      /\ occupant = NoProgram \/ Vector[p][m] >= Vector[occupant][m]

EntersMetricCell(archive, p, cell, m) ==
  LET occupant == archive.metricCells[m][cell]
  IN  /\ p \in Measured
      /\ \/ occupant = NoProgram
         \/ Vector[p][m] > Vector[occupant][m]
         \/ Vector[p][m] = Vector[occupant][m] /\ Better(p, occupant)

EliteUnsorted(elite, p) == Take(<<p>> \o elite, EliteSize)
Elite(elite, p) == Take(Sorted(Append(elite, p), Better), EliteSize)

Added(archive, p, cell) ==
  IF p \notin Valid
  THEN archive
  ELSE [grid |-> IF EntersCell(archive, p, cell)
                 THEN [archive.grid EXCEPT ![cell] = p]
                 ELSE archive.grid,
        elite |-> Elite(archive.elite, p),
        frontier |-> Frontier(archive.frontier, p),
        metricCells |->
          [m \in Metrics |->
             IF EntersMetricCell(archive, p, cell, m)
             THEN [archive.metricCells[m] EXCEPT ![cell] = p]
             ELSE archive.metricCells[m]]]

(* search_state_changed, in the event that add() returns.                  *)
ChangedByPlacementOnly(archive, p, cell) ==
  p \in Valid /\ EntersCell(archive, p, cell)

Changed(archive, p, cell) ==
  /\ p \in Valid
  /\ \/ EntersCell(archive, p, cell)
     \/ p \in InSeq(Elite(archive.elite, p))
     \/ \E m \in Metrics : EntersMetricCell(archive, p, cell, m)
     \/ /\ p \in Measured
        /\ ~Dominated(archive.frontier, p)
        /\ \/ p \in InSeq(Frontier(archive.frontier, p))
           \/ InSeq(archive.frontier) \ InSeq(Frontier(archive.frontier, p))
                # {}

(***************************************************************************)
(* What an archive holds.                                                  *)
(***************************************************************************)
Placed(cells) == {cells[c] : c \in Cells} \ {NoProgram}
OccupiedCells(archive) == Placed(archive.grid)
MetricCellArchive(archive) ==
  UNION {Placed(archive.metricCells[m]) : m \in Metrics}
Retained(archive) ==
  OccupiedCells(archive) \cup InSeq(archive.elite)
    \cup InSeq(archive.frontier) \cup MetricCellArchive(archive)

(* What _validate_map_elites_snapshot demands of the snapshot of an archive *)
(* of the same shape.                                                      *)
Distinct(s) == \A i, j \in DOMAIN s : s[i] = s[j] => i = j

Restorable(archive) ==
  /\ \A c, d \in Cells :
       archive.grid[c] = archive.grid[d] /\ archive.grid[c] # NoProgram =>
         c = d
  /\ Distinct(archive.elite) /\ Len(archive.elite) =< EliteSize
  /\ Distinct(archive.frontier) /\ Len(archive.frontier) =< EliteSize
  /\ MetricCellArchive(archive) \subseteq Measured
=============================================================================
