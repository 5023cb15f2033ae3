------------------------------ MODULE Islands ------------------------------
(***************************************************************************)
(* The island population (population/islands.py): MAP-Elites archives in a *)
(* ring, filled in turn, sampled for parents by strategies with indexes of *)
(* their own, and visited by migrants of the island before.                *)
(*                                                                         *)
(* migrate() takes its migrants from the elites as they were when it       *)
(* began; it is one action per migrant here, and nothing else happens      *)
(* before the last one.  An island receives from one other only, so what   *)
(* it holds when its turn comes is what it held when the round began.      *)
(*                                                                         *)
(* A program is added once by its loop (its id is new).  A program whose   *)
(* metrics are incomplete has none here.                                   *)
(***************************************************************************)
EXTENDS MapElites, SequencesExt

CONSTANTS
  NIslands,        \* n_islands
  RatioNum, RatioDen,   \* migration_ratio
  Root,            \* program -> the root of its lineage
  MaxMigrations,   \* bound: calls of migrate
  MaxSamples       \* bound: calls of sample that move an index

ASSUME IslandAssumption ==
  /\ NIslands \in Nat \ {0}
  /\ RatioNum \in Nat /\ RatioDen \in Nat \ {0}
  /\ MaxMigrations \in Nat /\ MaxSamples \in Nat

VARIABLES
  islands,     \* island -> archive
  current,     \* _current: the island of the next program
  sequence,    \* _sequence
  recency,     \* _archive_sequences; 0: none
  migrations,  \* _migration_sequence
  migrants,    \* the migrants under way: <<source island, program>>
  present,     \* target_ids, by island
  index,       \* strategy -> _metric_sample_index, ...
  offered,     \* the programs add() was called with
  placed,      \* history: who was added where, and to which cell
  accepted,    \* history: island -> the additions that changed it
  picks,       \* history: strategy -> its targets since the last change
  held         \* history: island -> what it held when the round began

populationVars == <<islands, current, sequence, recency>>
migrationVars == <<migrations, migrants, present>>
historyVars == <<offered, placed, accepted, held>>
vars == <<populationVars, migrationVars, index, picks, historyVars>>

IslandIds == 0 .. NIslands - 1

OnwardWithoutWrapping(i) == i + 1
Onward(i) == (i + 1) % NIslands
Rotating == {"metric", "frontier", "lineage"}

AllRetained == UNION {Retained(islands[i]) : i \in IslandIds}

Init ==
  /\ islands = [i \in IslandIds |-> Empty]
  /\ current = 0
  /\ sequence = 0
  /\ recency = [p \in Programs |-> 0]
  /\ migrations = 0
  /\ migrants = << >>
  /\ present = [i \in IslandIds |-> {}]
  /\ index = [s \in Rotating |-> 0]
  /\ offered = {}
  /\ placed = {}
  /\ accepted = [i \in IslandIds |-> 0]
  /\ picks = [s \in Rotating |-> << >>]
  /\ held = [i \in IslandIds |-> {}]

(***************************************************************************)
(* add.                                                                    *)
(***************************************************************************)
Place(i, p, cell) ==
  /\ islands' = [islands EXCEPT ![i] = Added(@, p, cell)]
  /\ placed' = placed \cup {<<i, p, cell>>}
  /\ picks' = [s \in Rotating |-> << >>]

AddInTurn(p) ==
  /\ migrants = << >>
  /\ p \notin offered
  /\ offered' = offered \cup {p}
  /\ sequence' = sequence + 1
  /\ current' = Onward(current)
  /\ \E cell \in Cells :
       /\ Place(current, p, cell)
       /\ IF Changed(islands[current], p, cell)
          THEN /\ recency' = [recency EXCEPT ![p] = sequence + 1]
               /\ accepted' = [accepted EXCEPT ![current] = @ + 1]
          ELSE UNCHANGED <<recency, accepted>>
  /\ UNCHANGED <<migrationVars, index, held>>

Add(p) ==
  /\ migrants = << >>
  /\ p \notin offered
  /\ offered' = offered \cup {p}
  /\ sequence' = sequence + 1
  /\ \E cell \in Cells :
       /\ Place(current, p, cell)
       /\ IF Changed(islands[current], p, cell)
          THEN /\ recency' = [recency EXCEPT ![p] = sequence + 1]
               /\ current' = Onward(current)
               /\ accepted' = [accepted EXCEPT ![current] = @ + 1]
          ELSE UNCHANGED <<recency, current, accepted>>
  /\ UNCHANGED <<migrationVars, index, held>>

(***************************************************************************)
(* migrate.                                                                *)
(***************************************************************************)
MigrantCount(n) ==
  LET share == (n * RatioNum + RatioDen - 1) \div RatioDen
  IN  IF share > 1 THEN share ELSE 1

Emigrants(i) ==
  LET elite == islands[i].elite
      chosen == Take(elite, MigrantCount(Len(elite)))
  IN  [k \in DOMAIN chosen |-> <<i, chosen[k]>>]

AllEmigrants[i \in -1 .. NIslands - 1] ==
  IF i = -1 THEN << >> ELSE AllEmigrants[i - 1] \o Emigrants(i)

IslandProgramIds(i) ==
  OccupiedCells(islands[i]) \cup InSeq(islands[i].elite)
    \cup MetricCellArchive(islands[i])

BeginMigration ==
  /\ migrants = << >>
  /\ RatioNum > 0
  /\ migrations < MaxMigrations
  /\ migrations' = migrations + 1
  /\ migrants' = AllEmigrants[NIslands - 1]
  /\ present' = [i \in IslandIds |-> IslandProgramIds(i)]
  /\ held' = present'
  /\ UNCHANGED <<populationVars, index, picks, offered, placed, accepted>>

AlreadyPresentNever(i, p) == FALSE
AlreadyPresent(i, p) == p \in present[i]

Skip ==
  /\ migrants # << >>
  /\ AlreadyPresent(Onward(migrants[1][1]), migrants[1][2])
  /\ migrants' = Tail(migrants)
  /\ UNCHANGED <<populationVars, migrations, present, index, picks,
                 historyVars>>

MigrateOnward ==
  /\ migrants # << >>
  /\ LET target == Onward(migrants[1][1])
         p == migrants[1][2]
     IN  /\ ~AlreadyPresent(target, p)
         /\ present' = [present EXCEPT ![target] = @ \cup {p}]
         /\ migrants' = Append(Tail(migrants), <<target, p>>)
         /\ \E cell \in Cells : Place(target, p, cell)
  /\ UNCHANGED <<current, sequence, recency, migrations, index, offered,
                 accepted, held>>

Migrate ==
  /\ migrants # << >>
  /\ LET target == Onward(migrants[1][1])
         p == migrants[1][2]
     IN  /\ ~AlreadyPresent(target, p)
         /\ \E cell \in Cells :
              /\ Place(target, p, cell)
              /\ IF Changed(islands[target], p, cell)
                 THEN /\ sequence' = sequence + 1
                      /\ recency' = [recency EXCEPT ![p] = sequence + 1]
                 ELSE UNCHANGED <<sequence, recency>>
         /\ present' = [present EXCEPT ![target] = @ \cup {p}]
  /\ migrants' = Tail(migrants)
  /\ UNCHANGED <<current, migrations, index, offered, accepted, held>>

(***************************************************************************)
(* sample, for the strategies that take their targets in turn.  Where the  *)
(* code breaks ties by the order of its pool, any fixed order stands here. *)
(***************************************************************************)
Best(S) == CHOOSE p \in S : \A q \in S : ~Better(q, p)

Leader(m) ==
  LET pool == AllRetained \cap Measured
      Above(q, p) == \/ Vector[q][m] > Vector[p][m]
                     \/ Vector[q][m] = Vector[p][m] /\ Better(q, p)
  IN  CHOOSE p \in pool : \A q \in pool : ~Above(q, p)

NonDominated ==
  {p \in AllRetained \cap Measured :
     \A q \in AllRetained \cap Measured : ~Dominates(q, p)}

Roots == {Root[p] : p \in AllRetained}
Representative(r) == Best({p \in AllRetained : Root[p] = r})

ByKey(S) == Sorted(SetToSeq(S), Better)

Targets(strategy) ==
  CASE strategy = "metric" ->
         IF AllRetained \cap Measured = {} THEN << >>
         ELSE LET order == SetToSeq(Metrics)
              IN  [k \in DOMAIN order |-> <<order[k], Leader(order[k])>>]
    [] strategy = "frontier" -> ByKey(NonDominated)
    [] strategy = "lineage" ->
         ByKey({Representative(r) : r \in Roots})

Samples == index["metric"] + index["frontier"] + index["lineage"]

SampleWithoutAdvancing(strategy) ==
  /\ migrants = << >>
  /\ Samples < MaxSamples
  /\ Targets(strategy) # << >>
  /\ picks' = [picks EXCEPT ![strategy] =
                 Append(@, Targets(strategy)[1])]
  /\ UNCHANGED <<populationVars, migrationVars, index, historyVars>>

Sample(strategy) ==
  /\ migrants = << >>
  /\ Samples < MaxSamples
  /\ LET targets == Targets(strategy)
     IN  /\ targets # << >>
         /\ picks' = [picks EXCEPT ![strategy] =
              Append(@, targets[(index[strategy] % Len(targets)) + 1])]
  /\ index' = [index EXCEPT ![strategy] = @ + 1]
  /\ UNCHANGED <<populationVars, migrationVars, historyVars>>

Next ==
  \/ \E p \in Programs : Add(p)
  \/ BeginMigration \/ Skip \/ Migrate
  \/ \E strategy \in Rotating : Sample(strategy)

Spec == Init /\ [][Next]_vars

(***************************************************************************)
(* Properties.                                                             *)
(***************************************************************************)
(* Every variable keeps its type.                                          *)
TypeOK ==
  /\ \A i \in IslandIds :
       /\ islands[i].grid \in [Cells -> Valid \cup {NoProgram}]
       /\ islands[i].elite \in Seq(Valid)
       /\ islands[i].frontier \in Seq(Valid \cap Measured)
       /\ islands[i].metricCells
            \in [Metrics -> [Cells -> (Valid \cap Measured) \cup {NoProgram}]]
  /\ current \in IslandIds
  /\ sequence \in Nat
  /\ recency \in [Programs -> Nat]
  /\ migrations \in 0 .. MaxMigrations
  /\ migrants \in Seq(IslandIds \X Valid)
  /\ present \in [IslandIds -> SUBSET Valid]
  /\ held \in [IslandIds -> SUBSET Valid]
  /\ index \in [Rotating -> 0 .. MaxSamples]
  /\ offered \subseteq Programs
  /\ placed \subseteq IslandIds \X Programs \X Cells
  /\ accepted \in [IslandIds -> Nat]

ArrivedAt(i) == {t[2] : t \in {u \in placed : u[1] = i}} \cap Valid

(* The elites of an island are the best programs that ever came to it,     *)
(* as many as it has room for, whatever was displaced or came twice.       *)
EliteIsTop ==
  \A i \in IslandIds :
    LET elite == islands[i].elite
    IN  /\ InSeq(elite) \subseteq ArrivedAt(i)
        /\ \A p \in ArrivedAt(i) \ InSeq(elite) :
             /\ Len(elite) = EliteSize
             /\ \A q \in InSeq(elite) : ~Better(p, q)

(* A cell never loses its best: its occupant is as good as any program     *)
(* that ever fell in it.  Nor does the cell of a metric, in the order of   *)
(* that metric.                                                            *)
GridHoldsBest ==
  \A i \in IslandIds, p \in Valid, c \in Cells :
    <<i, p, c>> \in placed =>
      /\ islands[i].grid[c] # NoProgram
      /\ ~Better(p, islands[i].grid[c])

MetricCellsHoldBest ==
  \A i \in IslandIds, p \in Valid \cap Measured, c \in Cells, m \in Metrics :
    <<i, p, c>> \in placed =>
      LET q == islands[i].metricCells[m][c]
      IN  /\ q # NoProgram
          /\ Vector[q][m] >= Vector[p][m]
          /\ Vector[q][m] = Vector[p][m] => ~Better(p, q)

CellsHoldBest == GridHoldsBest /\ MetricCellsHoldBest

(* Trimming the frontier to its bound never loses the best value of a      *)
(* metric, if the bound has room for both ends of every metric.  The ends  *)
(* of two metrics coincide when no two vectors are equal.                  *)
RoomForEnds ==
  \/ EliteSize >= 2 * Cardinality(Metrics)
  \/ /\ EliteSize >= 2
     /\ Cardinality(Metrics) = 2
     /\ \A p, q \in Measured : Vector[p] = Vector[q] => p = q

FrontierKeepsExtremes ==
  RoomForEnds =>
    \A i \in IslandIds :
      \A p \in ArrivedAt(i) \cap Measured, m \in Metrics :
        \E q \in InSeq(islands[i].frontier) : Vector[q][m] >= Vector[p][m]

(* What an island must not lose, in the lists it keeps by rank.            *)
ExtremesKept == TypeOK /\ EliteIsTop /\ FrontierKeepsExtremes

(* The snapshot of every island passes the checks that restoring it makes, *)
(* and programs that can be sampled are told apart by when they came: the  *)
(* recency strategy never meets a tie or a program it knows nothing of.    *)
SnapshotsRestore ==
  /\ \A i \in IslandIds : Restorable(islands[i])
  /\ \A p \in Programs : recency[p] =< sequence
  /\ \A p, q \in AllRetained :
       /\ recency[p] > 0
       /\ recency[p] = recency[q] => p = q

(* Rejected programs do not use up an island's turn.                       *)
TurnsAreFair ==
  \A i, j \in IslandIds : accepted[i] =< accepted[j] + 1

(* A rejected program leaves every archive with the programs it had.       *)
RejectionChangesNothing ==
  [][(offered' # offered /\ accepted' = accepted) =>
       \A i \in IslandIds : Retained(islands'[i]) = Retained(islands[i])]_vars

(* In one round a program travels one island at most: it reaches an island *)
(* only from the one before, if that held it when the round began.         *)
OneHopARound ==
  [][migrants # << >> =>
       \A i \in IslandIds :
         \A p \in IslandProgramIds(Onward(i))' \ IslandProgramIds(Onward(i)) :
           p \in held[i]]_vars

(* While nothing changes, a rotating strategy offers every one of its      *)
(* targets before it offers one again.                                     *)
RotationIsFair ==
  \A s \in Rotating :
    \A k, l \in DOMAIN picks[s] :
      (picks[s][k] = picks[s][l] /\ k < l) => l - k >= Len(Targets(s))

(* migrate's documentation: an island that already contains a candidate is *)
(* skipped.                                                                *)
ContainedIsSkipped ==
  [][Migrate =>
       migrants[1][2] \notin Retained(islands[Onward(migrants[1][1])])]_vars

(* What the population promises: the best program it was ever offered can  *)
(* be sampled, whatever was displaced since.                               *)
Leaders == {i \in IslandIds : islands[i].elite # << >>}
ExploitKey ==
  IF Leaders = {} THEN -1
  ELSE Max({Key[islands[i].elite[1]] : i \in Leaders})

Promise == INSTANCE BestEver
             WITH Candidates <- Valid, seen <- offered \cap Valid,
                  best <- ExploitKey
KeepsPromise == Promise!Spec
=============================================================================
