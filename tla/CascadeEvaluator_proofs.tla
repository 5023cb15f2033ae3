----------------------- MODULE CascadeEvaluator_proofs -----------------------
(***************************************************************************)
(* What one call of evaluate guarantees, for every cascade, number of      *)
(* samples, workers, retries and faults, and every score.                  *)
(***************************************************************************)
EXTENDS CascadeEvaluator, FiniteSetTheorems, WellFoundedInduction, TLAPS

(***************************************************************************)
(* Sums.  The community modules sum by a recursive function on the subsets *)
(* of a set; every fact about it is a fact about the least subset it would *)
(* fail for.                                                               *)
(***************************************************************************)
Adds(g, f, S) ==
  g = [s \in SUBSET S |->
        IF s = {} THEN 0
        ELSE LET x == CHOOSE x \in s : TRUE IN f[x] + g[s \ {x}]]

(* The equation, and a function that satisfies it on the small subsets.    *)
OneMore(g, f, s) ==
  IF s = {} THEN 0 ELSE LET x == CHOOSE x \in s : TRUE IN f[x] + g[s \ {x}]
AddsUpTo(g, f, S, k) ==
  \A s \in SUBSET S : Cardinality(s) <= k => g[s] = OneMore(g, f, s)

Sum(f, S) == (CHOOSE g : Adds(g, f, S))[S]
IntOn(f, S) == \A x \in S : f[x] \in Int

LEMMA LeastNumber ==
  ASSUME NEW S \in SUBSET Nat, S # {}
  PROVE  \E i \in S : \A j \in S : i <= j
<1>1. IsWellFoundedOn(OpToRel(<, Nat), Nat)
  BY NatLessThanWellFounded
<1>2. PICK i \in S : \A j \in S : ~(<<j, i>> \in OpToRel(<, Nat))
  BY <1>1, WFMin
<1>3. \A j \in S : ~(j < i)
  BY <1>2 DEF OpToRel
<1> QED BY <1>3

(* Of the subsets in a family, one is smallest: what is smaller by an      *)
(* element is not in the family.                                           *)
LEMMA LeastSubset ==
  ASSUME NEW S, IsFiniteSet(S), NEW F \in SUBSET SUBSET S, F # {}
  PROVE  \E s \in F : \A x \in s : s \ {x} \notin F
<1> DEFINE C == {Cardinality(s) : s \in F}
<1>1. \A s \in SUBSET S : IsFiniteSet(s) /\ Cardinality(s) \in Nat
  BY FS_Subset, FS_CardinalityType
<1>2. C \in SUBSET Nat /\ C # {}
  BY <1>1
<1>3. PICK c \in C : \A d \in C : c <= d
  <2> HIDE DEF C
  <2> QED BY <1>2, LeastNumber
<1>4. PICK s \in F : Cardinality(s) = c
  BY <1>3
<1>5. ASSUME NEW x \in s, s \ {x} \in F PROVE FALSE
  <2>1. Cardinality(s \ {x}) = Cardinality(s) - 1
    BY <1>1, <1>4, FS_RemoveElement
  <2>2. c <= Cardinality(s \ {x})
    BY <1>3, <1>5
  <2> QED BY <1>1, <1>2, <1>3, <1>4, <2>1, <2>2
<1> QED BY <1>4, <1>5

LEMMA OneMoreIs ==
  ASSUME NEW s
  PROVE  \/ s = {} /\ \A f, g : OneMore(g, f, s) = 0
         \/ \E x \in s : \A f, g : OneMore(g, f, s) = f[x] + g[s \ {x}]
<1>1. CASE s = {}
  BY <1>1 DEF OneMore
<1>2. CASE s # {}
  <2>1. (CHOOSE x \in s : TRUE) \in s
    BY <1>2
  <2> QED BY <1>2, <2>1 DEF OneMore
<1> QED BY <1>1, <1>2

LEMMA AddsExists ==
  ASSUME NEW S, IsFiniteSet(S), NEW f
  PROVE  \E g : Adds(g, f, S)
<1> DEFINE bad == {k \in Nat : ~ \E g : AddsUpTo(g, f, S, k)}
<1>1. \A s \in SUBSET S : IsFiniteSet(s) /\ Cardinality(s) \in Nat
  BY FS_Subset, FS_CardinalityType
<1>2. bad = {}
  <2> SUFFICES ASSUME bad # {} PROVE FALSE
    OBVIOUS
  <2>1. PICK k \in bad : \A j \in bad : k <= j
    BY LeastNumber
  <2>2. CASE k = 0
    <3> DEFINE g == [s \in SUBSET S |-> 0]
    <3>1. ASSUME NEW s \in SUBSET S, Cardinality(s) <= 0
          PROVE  g[s] = OneMore(g, f, s)
      <4>1. s = {}
        BY <1>1, <3>1, FS_EmptySet
      <4> QED BY <4>1 DEF OneMore
    <3>2. AddsUpTo(g, f, S, 0)
      BY <3>1 DEF AddsUpTo
    <3> QED BY <2>1, <2>2, <3>2
  <2>3. CASE k > 0
    <3>1. k - 1 \in Nat /\ k - 1 \notin bad
      BY <2>1, <2>3
    <3>2. PICK g : AddsUpTo(g, f, S, k - 1)
      BY <3>1
    <3> DEFINE h == [s \in SUBSET S |->
                       IF Cardinality(s) <= k - 1 THEN g[s]
                                                  ELSE OneMore(g, f, s)]
    <3>3. ASSUME NEW s \in SUBSET S, Cardinality(s) <= k
          PROVE  h[s] = OneMore(h, f, s)
      <4>1. h[s] = OneMore(g, f, s)
        BY <3>2 DEF AddsUpTo
      <4>2. CASE \A e, g1 : OneMore(g1, e, s) = 0
        BY <4>1, <4>2
      <4>3. ASSUME NEW x \in s,
                   \A e, g1 : OneMore(g1, e, s) = e[x] + g1[s \ {x}]
            PROVE  h[s] = OneMore(h, f, s)
        <5>1. Cardinality(s \ {x}) = Cardinality(s) - 1
          BY <1>1, FS_RemoveElement
        <5>2. h[s \ {x}] = g[s \ {x}]
          BY <1>1, <2>1, <3>3, <5>1
        <5> HIDE DEF h
        <5> QED BY <4>1, <4>3, <5>2
      <4> QED BY <4>2, <4>3, OneMoreIs
    <3>4. AddsUpTo(h, f, S, k)
      BY <3>3 DEF AddsUpTo
    <3> QED BY <2>1, <3>4
  <2> QED BY <2>1, <2>2, <2>3
<1>3. PICK g : AddsUpTo(g, f, S, Cardinality(S))
  <2>1. Cardinality(S) \in Nat
    BY <1>1
  <2> QED BY <1>2, <2>1
<1> DEFINE h == [s \in SUBSET S |-> g[s]]
<1>4. ASSUME NEW s \in SUBSET S PROVE g[s] = OneMore(h, f, s)
  <2>1. Cardinality(s) <= Cardinality(S)
    BY FS_Subset
  <2>2. g[s] = OneMore(g, f, s)
    BY <1>3, <2>1 DEF AddsUpTo
  <2>3. CASE \A e, g1 : OneMore(g1, e, s) = 0
    BY <2>2, <2>3
  <2>4. ASSUME NEW x \in s,
               \A e, g1 : OneMore(g1, e, s) = e[x] + g1[s \ {x}]
        PROVE  g[s] = OneMore(h, f, s)
    <3>1. h[s \ {x}] = g[s \ {x}]
      OBVIOUS
    <3> HIDE DEF h
    <3> QED BY <2>2, <2>4, <3>1
  <2> QED BY <2>3, <2>4, OneMoreIs
<1>5. h = [s \in SUBSET S |-> OneMore(h, f, s)]
  <2>1. h = [s \in SUBSET S |-> g[s]]
    OBVIOUS
  <2> HIDE DEF h
  <2> QED BY <1>4, <2>1
<1>6. Adds(h, f, S)
  <2> HIDE DEF h
  <2> QED BY <1>5 DEF Adds, OneMore
<1> QED BY <1>6

LEMMA AddsStep ==
  ASSUME NEW S, NEW f, NEW g, Adds(g, f, S), NEW s \in SUBSET S
  PROVE  g[s] = OneMore(g, f, s)
  BY DEF Adds, OneMore

(* The sums are whole, and any element may be taken out first. *)
LEMMA AddsType ==
  ASSUME NEW S, IsFiniteSet(S), NEW f, IntOn(f, S), NEW g, Adds(g, f, S),
         NEW s \in SUBSET S
  PROVE  g[s] \in Int
<1> DEFINE F == {t \in SUBSET S : g[t] \notin Int}
<1>1. SUFFICES ASSUME F # {} PROVE FALSE
  OBVIOUS
<1>2. PICK t \in F : \A y \in t : t \ {y} \notin F
  <2> HIDE DEF F
  <2>1. F \in SUBSET SUBSET S
    BY DEF F
  <2> QED BY <1>1, <2>1, LeastSubset
<1>3. t \in SUBSET S /\ g[t] \notin Int /\ g[t] = OneMore(g, f, t)
  BY AddsStep
<1>4. \A y \in t : g[t \ {y}] \in Int
  BY <1>2, <1>3
<1>5. CASE t = {} /\ \A e, g1 : OneMore(g1, e, t) = 0
  BY <1>3, <1>5
<1>6. ASSUME NEW y \in t, \A e, g1 : OneMore(g1, e, t) = e[y] + g1[t \ {y}]
      PROVE  FALSE
  <2>1. g[t] = f[y] + g[t \ {y}] /\ f[y] \in Int
    BY <1>3, <1>6 DEF IntOn
  <2> QED BY <1>3, <1>4, <2>1
<1> QED BY <1>5, <1>6, OneMoreIs

LEMMA AddsTakes ==
  ASSUME NEW S, IsFiniteSet(S), NEW f, IntOn(f, S), NEW g, Adds(g, f, S),
         NEW s \in SUBSET S
  PROVE  \A x \in s : g[s] = f[x] + g[s \ {x}]
<1> DEFINE good(t) == \A x \in t : g[t] = f[x] + g[t \ {x}]
           F == {t \in SUBSET S : ~good(t)}
<1>1. SUFFICES ASSUME F # {} PROVE FALSE
  OBVIOUS
<1>2. PICK t \in F : \A y \in t : t \ {y} \notin F
  <2> HIDE DEF F
  <2>1. F \in SUBSET SUBSET S
    BY DEF F
  <2> QED BY <1>1, <2>1, LeastSubset
<1>3. t \in SUBSET S /\ ~good(t) /\ g[t] = OneMore(g, f, t)
  BY AddsStep
<1>4. \A y \in t : good(t \ {y})
  BY <1>2, <1>3
<1>5. ASSUME NEW y \in t, \A e, g1 : OneMore(g1, e, t) = e[y] + g1[t \ {y}]
      PROVE  FALSE
  <2>1. g[t] = f[y] + g[t \ {y}]
    BY <1>3, <1>5
  <2>2. ASSUME NEW x \in t PROVE g[t] = f[x] + g[t \ {x}]
    <3>1. CASE x = y
      BY <2>1, <3>1
    <3>2. CASE x # y
      <4>1. x \in t \ {y} /\ y \in t \ {x} /\ (t \ {y}) \ {x} = (t \ {x}) \ {y}
        BY <3>2
      <4>2. PICK r : r = g[(t \ {x}) \ {y}]
        OBVIOUS
      <4>3. g[t \ {y}] = f[x] + r
        BY <1>4, <4>1, <4>2
      <4>4. g[t \ {x}] = f[y] + r
        BY <1>4, <4>1, <4>2
      <4>5. f[x] \in Int /\ f[y] \in Int
        BY <1>3 DEF IntOn
      <4>6. r \in Int
        <5>1. (t \ {x}) \ {y} \in SUBSET S
          BY <1>3
        <5> QED BY <4>2, <5>1, AddsType
      <4> QED BY <2>1, <4>3, <4>4, <4>5, <4>6
    <3> QED BY <3>1, <3>2
  <2> QED BY <1>3, <2>2
<1> QED BY <1>3, <1>5, OneMoreIs

(* A sum does not depend on the set it is a part of.                       *)
LEMMA AddsPart ==
  ASSUME NEW S, IsFiniteSet(S), NEW f, NEW g, Adds(g, f, S),
         NEW D \in SUBSET S, NEW k, Adds(k, f, D), NEW s \in SUBSET D
  PROVE  g[s] = k[s]
<1> DEFINE F == {t \in SUBSET D : g[t] # k[t]}
<1>1. SUFFICES ASSUME F # {} PROVE FALSE
  OBVIOUS
<1>2. PICK t \in F : \A y \in t : t \ {y} \notin F
  <2> HIDE DEF F
  <2>1. F \in SUBSET SUBSET D
    BY DEF F
  <2>2. IsFiniteSet(D)
    BY FS_Subset
  <2> QED BY <1>1, <2>1, <2>2, LeastSubset
<1>3. t \in SUBSET D /\ g[t] # k[t]
  OBVIOUS
<1>4. t \in SUBSET S
  BY <1>3
<1>5. g[t] = OneMore(g, f, t) /\ k[t] = OneMore(k, f, t)
  BY <1>3, <1>4, AddsStep
<1>6. \A y \in t : g[t \ {y}] = k[t \ {y}]
  BY <1>2, <1>3
<1>7. ASSUME NEW y \in t, \A e, g1 : OneMore(g1, e, t) = e[y] + g1[t \ {y}]
      PROVE  FALSE
  BY <1>3, <1>5, <1>6, <1>7
<1> QED BY <1>3, <1>5, <1>7, OneMoreIs

LEMMA SumTakes ==
  ASSUME NEW S, IsFiniteSet(S), NEW f, IntOn(f, S)
  PROVE  /\ Sum(f, S) \in Int
         /\ S = {} => Sum(f, S) = 0
         /\ \A x \in S : Sum(f, S) = f[x] + Sum(f, S \ {x})
<1>1. PICK g : Adds(g, f, S) /\ Sum(f, S) = g[S]
  BY AddsExists DEF Sum
<1>2. S \in SUBSET S
  OBVIOUS
<1>3. S = {} => Sum(f, S) = 0
  BY <1>1, <1>2, AddsStep DEF OneMore
<1>4. ASSUME NEW x \in S PROVE Sum(f, S) = f[x] + Sum(f, S \ {x})
  <2>1. S \ {x} \in SUBSET S /\ IsFiniteSet(S \ {x})
    BY FS_Subset
  <2>2. PICK k : Adds(k, f, S \ {x}) /\ Sum(f, S \ {x}) = k[S \ {x}]
    BY <2>1, AddsExists DEF Sum
  <2>3. g[S \ {x}] = k[S \ {x}]
    BY <1>1, <2>1, <2>2, AddsPart
  <2>4. g[S] = f[x] + g[S \ {x}]
    BY <1>1, <1>2, AddsTakes
  <2> QED BY <1>1, <2>2, <2>3, <2>4
<1> QED BY <1>1, <1>2, <1>3, <1>4, AddsType

LEMMA SumSame ==
  ASSUME NEW S, IsFiniteSet(S), NEW f, NEW h, IntOn(f, S),
         \A x \in S : h[x] = f[x]
  PROVE  Sum(h, S) = Sum(f, S)
<1> DEFINE F == {t \in SUBSET S : Sum(h, t) # Sum(f, t)}
<1>1. SUFFICES ASSUME F # {} PROVE FALSE
  OBVIOUS
<1>2. PICK t \in F : \A y \in t : t \ {y} \notin F
  <2> HIDE DEF F
  <2>1. F \in SUBSET SUBSET S
    BY DEF F
  <2> QED BY <1>1, <2>1, LeastSubset
<1>3. t \in SUBSET S /\ Sum(h, t) # Sum(f, t) /\ IsFiniteSet(t)
  BY FS_Subset
<1>4. IntOn(f, t) /\ IntOn(h, t)
  BY <1>3 DEF IntOn
<1>5. CASE t = {}
  BY <1>3, <1>4, <1>5, SumTakes
<1>6. ASSUME NEW y \in t PROVE FALSE
  <2>1. Sum(f, t) = f[y] + Sum(f, t \ {y}) /\ Sum(h, t) = h[y] + Sum(h, t \ {y})
    BY <1>3, <1>4, SumTakes
  <2>2. Sum(f, t \ {y}) = Sum(h, t \ {y}) /\ f[y] = h[y]
    BY <1>2, <1>3
  <2> QED BY <1>3, <2>1, <2>2
<1> QED BY <1>5, <1>6

(* One value changes. *)
LEMMA SumChanges ==
  ASSUME NEW S, IsFiniteSet(S), NEW f, NEW h, IntOn(f, S), NEW x \in S,
         h[x] \in Int, \A y \in S \ {x} : h[y] = f[y]
  PROVE  Sum(h, S) - Sum(f, S) = h[x] - f[x]
<1>1. IntOn(h, S) /\ IntOn(f, S \ {x}) /\ IsFiniteSet(S \ {x}) /\ f[x] \in Int
  BY FS_Subset DEF IntOn
<1>2. PICK r \in Int : r = Sum(f, S \ {x})
  BY <1>1, SumTakes
<1>3. Sum(h, S \ {x}) = r
  BY <1>1, <1>2, SumSame
<1>4. Sum(f, S) = f[x] + r /\ Sum(h, S) = h[x] + r
  BY <1>1, <1>2, <1>3, SumTakes
<1> QED BY <1>1, <1>4

(* Zeros do not count. *)
LEMMA SumWithin ==
  ASSUME NEW S, IsFiniteSet(S), NEW f, IntOn(f, S), NEW D \in SUBSET S,
         \A x \in S \ D : f[x] = 0
  PROVE  Sum(f, S) = Sum(f, D)
<1> DEFINE F == {t \in SUBSET S : Sum(f, t) # Sum(f, t \cap D)}
<1>1. CASE F # {}
  <2>1. PICK t \in F : \A y \in t : t \ {y} \notin F
    <3> HIDE DEF F
    <3>1. F \in SUBSET SUBSET S
      BY DEF F
    <3> QED BY <1>1, <3>1, LeastSubset
  <2>2. t \in SUBSET S /\ Sum(f, t) # Sum(f, t \cap D) /\ IsFiniteSet(t)
    BY FS_Subset
  <2>3. IntOn(f, t) /\ IntOn(f, t \cap D) /\ IsFiniteSet(t \cap D)
    BY <2>2, FS_Subset DEF IntOn
  <2>4. CASE t = {}
    BY <2>2, <2>4
  <2>5. ASSUME NEW y \in t PROVE FALSE
    <3>1. Sum(f, t) = f[y] + Sum(f, t \ {y})
      BY <2>2, <2>3, SumTakes
    <3>2. Sum(f, t \ {y}) = Sum(f, (t \ {y}) \cap D)
      BY <2>1, <2>2
    <3>3. CASE y \in D
      <4>1. y \in t \cap D /\ (t \ {y}) \cap D = (t \cap D) \ {y}
        BY <3>3
      <4>2. Sum(f, t \cap D) = f[y] + Sum(f, (t \cap D) \ {y})
        BY <2>3, <4>1, SumTakes
      <4> QED BY <2>2, <3>1, <3>2, <4>1, <4>2
    <3>4. CASE y \notin D
      <4>1. (t \ {y}) \cap D = t \cap D /\ f[y] = 0
        BY <2>2, <3>4
      <4>2. PICK r \in Int : r = Sum(f, t \cap D)
        BY <2>3, SumTakes
      <4>3. Sum(f, t \ {y}) = r
        BY <3>2, <4>1, <4>2
      <4>4. Sum(f, t) = 0 + r
        BY <3>1, <4>1, <4>3
      <4> QED BY <2>2, <4>2, <4>4
    <3> QED BY <3>3, <3>4
  <2> QED BY <2>4, <2>5
<1>2. CASE F = {}
  <2>1. S \in SUBSET S /\ S \cap D = D
    OBVIOUS
  <2> QED BY <1>2, <2>1
<1> QED BY <1>1, <1>2

LEMMA SumIsSum ==
  ASSUME NEW S, NEW f, DOMAIN f = S
  PROVE  SumFunction(f) = Sum(f, S)
BY DEF SumFunction, SumFunctionOnSet, FoldFunctionOnSet, MapThenFoldSet, Sum, Adds

(***************************************************************************)
(* The inductive invariant.                                                *)
(***************************************************************************)
Time == Nat \cup {Unlimited}
Phases == {"queued", "ready", "preparing", "running", "done"}
Kinds == {"launched", "unlaunched", "expired", "refused"}

(* What a stage leaves behind: the results of its first samples. *)
Record(r) ==
  \E k \in Nat \ {0} :
    /\ r.results \in [1 .. k -> Results]
    /\ r.attempts \in [1 .. k -> Seq(ErrorCodes)]

Typed ==
  /\ config \in Configs
  /\ pc \in {"begin", "sampling", "done", "raised"}
  /\ remaining \in Time
  /\ phase \in [Samples -> Phases]
  /\ budget \in [Samples -> Time]
  /\ left \in [Samples -> Nat]
  /\ limitedBy \in [Samples -> {"none", "stage", "sample"}]
  /\ attempts \in [Samples -> Seq(ErrorCodes)]
  /\ outcome \in [Samples -> Results \cup {NoResult}]
  /\ DOMAIN records = 1 .. Len(records) /\ Len(records) \in Nat
  /\ \A i \in DOMAIN records : Record(records[i])
  /\ result = NoResult \/ result \in Results
  /\ faults \in 0 .. MaxFaults
  /\ spent \in [Kinds -> Nat]

(* Where evaluate is: samples begin in their order, and none is in flight  *)
(* when it is over.                                                        *)
Placed ==
  /\ pc = "begin" => phase = << >> /\ records = << >>
  /\ pc = "sampling" =>
       /\ Samples = 1 .. stage.samples
       /\ Len(records) <= IF Plain THEN 0 ELSE Len(config) - 1
       /\ \A s, t \in Samples : t < s /\ phase[t] = "queued" => phase[s] = "queued"
  /\ pc \in {"done", "raised"} => Active = {}

(* What an attempt leaves: a is what was tried, o what came of it. *)
TriedAs(p, a, o) ==
  /\ p = "queued" => a = << >>
  /\ p # "done" => Len(a) <= stage.retries
  /\ p = "done" =>
       /\ Len(a) <= stage.retries + 1
       /\ o \in Results
       /\ o.valid <=> o.error = "none"
       /\ o.valid => a # << >> /\ Last(a) = "none"
Tried ==
  pc = "sampling" =>
    \A s \in Samples : TriedAs(phase[s], attempts[s], outcome[s])

(* A stage that was passed. *)
Earned(i) ==
  LET results == records[i].results
  IN  /\ \A s \in DOMAIN results :
           results[s].valid /\ Last(records[i].attempts[s]) = "none"
      /\ \/ Len(results) = config[i].samples
         \/ /\ config[i].test = "sequential"
            /\ Len(results) >= config[i].minSamples
AllEarned == \A i \in DOMAIN records : Earned(i)
Passed ==
  /\ pc = "sampling" => AllEarned
  /\ pc = "done" /\ ~Plain /\ result.valid =>
       Len(records) = Len(config) /\ AllEarned

(* The timeout l of an attempt, by what it was clipped, and the deadline m *)
(* of the sample.                                                          *)
ClippedAs(p, m, l, by) ==
  p \in {"preparing", "running"} =>
    /\ by = "sample" => m \in Nat /\ m <= l
    /\ by = "stage" => remaining \in Nat /\ remaining <= l
Says(a, o, error) == error \in Range(a) \/ (o # NoResult /\ o.error = error)
BlamedAs(m, a, o) ==
  /\ Says(a, o, "sample_budget_exhausted") => Exhausted(m)
  /\ Says(a, o, "stage_budget_exhausted") => Exhausted(remaining)
Told ==
  pc = "sampling" =>
    \A s \in Samples :
      /\ ClippedAs(phase[s], budget[s], left[s], limitedBy[s])
      /\ BlamedAs(budget[s], attempts[s], outcome[s])

(* What a sample has cost so far.                                          *)
LaunchesAs(p, a, o) ==
  CASE p = "done" /\ o = Raised -> Len(a) + 1
    [] p = "done" /\ o # Raised -> Launches(stage, o, a)
    [] p = "running" -> Len(a) + 1
    [] p \notin {"done", "running"} -> Len(a)
LimitsAs(p, a, o) ==
  CASE p = "done" /\ o = Raised -> CountOfLimits(a) + 1
    [] p = "done" /\ o # Raised -> Limits(stage, o, a)
    [] p # "done" -> CountOfLimits(a)
LaunchesNow ==
  [s \in Samples |-> LaunchesAs(phase[s], attempts[s], outcome[s])]
LimitsNow ==
  [s \in Samples |-> LimitsAs(phase[s], attempts[s], outcome[s])]

(* And the stages that are over, and the one that is not.                  *)
Started == spent["launched"] + spent["unlaunched"]
Stopped == spent["expired"] + spent["refused"]
Counted ==
  /\ pc = "begin" => Started = 0 /\ Stopped = 0
  /\ pc = "sampling" =>
       /\ Started = Total(Launches) + SumFunction(LaunchesNow)
       /\ Stopped = Total(Limits) + SumFunction(LimitsNow)
  /\ pc = "done" => Started = Total(Launches) /\ Stopped = Total(Limits)

IInv == Typed /\ Placed /\ Tried /\ Passed /\ Told /\ Counted

(* What the accounts of a stage and of the cascade are sums of.            *)
StageAt(i) == IF Plain THEN PlainStage ELSE config[i]
LaunchesIn(st, r) ==
  [s \in DOMAIN r.results |-> Launches(st, r.results[s], r.attempts[s])]
LimitsIn(st, r) ==
  [s \in DOMAIN r.results |-> Limits(st, r.results[s], r.attempts[s])]
LaunchesBy ==
  [i \in DOMAIN records |-> SumFunction(LaunchesIn(StageAt(i), records[i]))]
LimitsBy ==
  [i \in DOMAIN records |-> SumFunction(LimitsIn(StageAt(i), records[i]))]

LEMMA TotalIs ==
  /\ Total(Launches) = SumFunction(LaunchesBy)
  /\ Total(Limits) = SumFunction(LimitsBy)
BY DEF Total, Spendings, LaunchesIn, LimitsIn, StageAt, LaunchesBy, LimitsBy

LEMMA TotalIsNext ==
  /\ Total(Launches)' = SumFunction(LaunchesBy')
  /\ Total(Limits)' = SumFunction(LimitsBy')
BY DEF Total, Spendings, LaunchesIn, LimitsIn, StageAt, LaunchesBy, LimitsBy

(***************************************************************************)
(* Least and greatest numbers.                                             *)
(***************************************************************************)
LEMMA MinMax ==
  ASSUME NEW S \in SUBSET Int, IsFiniteSet(S), S # {}
  PROVE  /\ Min(S) \in S /\ \A x \in S : Min(S) <= x
         /\ Max(S) \in S /\ \A x \in S : Max(S) >= x
<1> DEFINE Least(T) == \E y \in T : \A x \in T : y <= x
           Most(T) == \E y \in T : \A x \in T : y >= x
           F == {T \in SUBSET S : T # {} /\ ~(Least(T) /\ Most(T))}
<1>1. CASE F # {}
  <2>1. PICK T \in F : \A y \in T : T \ {y} \notin F
    <3> HIDE DEF F
    <3>1. F \in SUBSET SUBSET S
      BY DEF F
    <3> QED BY <1>1, <3>1, LeastSubset
  <2>2. PICK z \in T : z \in Int
    BY <2>1
  <2>3. CASE T \ {z} = {}
    <3>1. T = {z}
      BY <2>2, <2>3
    <3> QED BY <2>1, <2>2, <3>1
  <2>4. CASE T \ {z} # {}
    <3>1. Least(T \ {z}) /\ Most(T \ {z})
      BY <2>1, <2>2, <2>4
    <3>2. PICK a \in T \ {z} : \A x \in T \ {z} : a <= x
      BY <3>1
    <3>3. PICK b \in T \ {z} : \A x \in T \ {z} : b >= x
      BY <3>1
    <3>4. \A x \in T : x \in Int
      BY <2>1
    <3>5. Least(T)
      <4>1. CASE a <= z
        BY <3>2, <4>1
      <4>2. CASE z <= a
        <5>1. \A x \in T : z <= x
          BY <2>2, <3>2, <3>4, <4>2
        <5> QED BY <5>1
      <4> QED BY <2>2, <3>4, <4>1, <4>2
    <3>6. Most(T)
      <4>1. CASE b >= z
        BY <3>3, <4>1
      <4>2. CASE z >= b
        <5>1. \A x \in T : z >= x
          BY <2>2, <3>3, <3>4, <4>2
        <5> QED BY <5>1
      <4> QED BY <2>2, <3>4, <4>1, <4>2
    <3> QED BY <2>1, <3>5, <3>6
  <2> QED BY <2>3, <2>4
<1>2. CASE F = {}
  <2>1. Least(S) /\ Most(S)
    BY <1>2
  <2> QED BY <2>1 DEF Min, Max
<1> QED BY <1>1, <1>2

(***************************************************************************)
(* What is made of the results of a stage.                                 *)
(***************************************************************************)
LEMMA ResultParts ==
  ASSUME NEW valid \in BOOLEAN, NEW fitness \in Int, NEW error \in ErrorCodes,
         NEW tracked \in BOOLEAN
  PROVE  /\ Result(valid, fitness, error, tracked) \in Results
         /\ Result(valid, fitness, error, tracked).valid = valid
         /\ Result(valid, fitness, error, tracked).fitness = fitness
         /\ Result(valid, fitness, error, tracked).error = error
         /\ Result(valid, fitness, error, tracked).tracked = tracked
BY DEF Result, Results

LEMMA JudgedParts ==
  ASSUME NEW fitness \in Int, NEW error \in ErrorCodes
  PROVE  /\ Result(FALSE, fitness, error, FALSE) \in Results
         /\ ~Result(FALSE, fitness, error, FALSE).valid
         /\ Result(TRUE, fitness, error, FALSE) \in Results
         /\ Result(TRUE, fitness, error, FALSE).valid
BY DEF Result, Results

LEMMA FailedParts ==
  ASSUME NEW error \in ErrorCodes
  PROVE  /\ Failed(error) \in Results /\ ~Failed(error).valid
         /\ Failed(error).error = error /\ ~Failed(error).tracked
<1>1. Penalty \in Int
  BY EvaluatorAssumption
<1> QED BY <1>1, ResultParts DEF Failed

LEMMA LenIs ==
  ASSUME NEW k \in Nat, NEW T, NEW r \in [1 .. k -> T]
  PROVE  r \in Seq(T) /\ Len(r) = k /\ DOMAIN r = 1 .. k
OBVIOUS

LEMMA PlainStageIsStage == PlainStage \in Stages
<1>1. Penalty \in Int
  BY EvaluatorAssumption
<1> QED BY <1>1 DEF PlainStage, Stages

LEMMA FitnessesAre ==
  ASSUME NEW k \in Nat \ {0}, NEW r \in [1 .. k -> Results]
  PROVE  /\ Fitnesses(r) \in SUBSET Int
         /\ IsFiniteSet(Fitnesses(r))
         /\ Fitnesses(r) # {}
<1> DEFINE f == [i \in 1 .. k |-> r[i].fitness]
<1>1. \A i \in 1 .. k : r[i].fitness \in Int
  BY DEF Results
<1>2. Fitnesses(r) = {r[i].fitness : i \in 1 .. k}
  BY DEF Fitnesses, Range
<1>3. IsFiniteSet(1 .. k)
  BY FS_Interval
<1>4. f \in Surjection(1 .. k, Fitnesses(r))
  <2>1. f \in [1 .. k -> Fitnesses(r)]
    BY <1>2
  <2>2. \A x \in Fitnesses(r) : \E i \in 1 .. k : f[i] = x
    BY <1>2
  <2> QED BY <2>1, <2>2 DEF Surjection
<1>5. IsFiniteSet(Fitnesses(r))
  <2> HIDE DEF f
  <2> QED BY <1>3, <1>4, FS_Surjection
<1> QED BY <1>1, <1>2, <1>5

LEMMA MeanType ==
  ASSUME NEW k \in Nat \ {0}, NEW r \in [1 .. k -> Results]
  PROVE  Mean(r) \in Int
<1> DEFINE f == [i \in DOMAIN r |-> r[i].fitness]
<1>1. IntOn(f, 1 .. k) /\ DOMAIN f = 1 .. k
  BY DEF IntOn, Results
<1>2. IsFiniteSet(1 .. k)
  BY FS_Interval
<1>3. Len(r) = k
  BY LenIs
<1>4. SumFunction(f) \in Int
  <2> HIDE DEF f
  <2> QED BY <1>1, <1>2, SumIsSum, SumTakes
<1>5. PICK n \in Int : n = SumFunction(f)
  BY <1>4
<1>6. Mean(r) = n \div k
  BY <1>3, <1>5 DEF Mean
<1> QED BY <1>6

LEMMA AggregateIs ==
  ASSUME stage \in Stages, NEW k \in Nat \ {0}, NEW r \in [1 .. k -> Results],
         \A i \in 1 .. k : r[i].valid <=> r[i].error = "none"
  PROVE  /\ Aggregate(r) \in Results
         /\ Aggregate(r).valid => \A i \in 1 .. k : r[i].valid
<1> DEFINE failures == {i \in DOMAIN r : r[i].error # "none"}
<1>1. Len(r) = k /\ DOMAIN r = 1 .. k
  BY LenIs
<1>2. \A i \in 1 .. k : r[i] \in Results
  OBVIOUS
<1>3. CASE k = 1
  <2>1. Aggregate(r) = r[1]
    BY <1>1, <1>3 DEF Aggregate
  <2>2. \A i \in 1 .. k : i = 1
    BY <1>3
  <2> QED BY <1>2, <2>1, <2>2
<1>4. CASE k # 1 /\ failures # {}
  <2>1. IsFiniteSet(1 .. k)
    BY FS_Interval
  <2>2. IsFiniteSet(failures)
    BY <1>1, <2>1, FS_Subset
  <2>3. failures \in SUBSET Int
    BY <1>1
  <2>4. Min(failures) \in failures
    <3> HIDE DEF failures
    <3> QED BY <1>4, <2>2, <2>3, MinMax
  <2>5. r[Min(failures)].error \in ErrorCodes
    BY <1>1, <1>2, <2>4 DEF Results
  <2>6. Min(Fitnesses(r)) \in Int
    BY FitnessesAre, MinMax
  <2>7. Aggregate(r) = Result(FALSE, Min(Fitnesses(r)), r[Min(failures)].error, FALSE)
    BY <1>1, <1>4 DEF Aggregate
  <2> HIDE DEF failures
  <2>8. PICK fitness \in Int : fitness = Min(Fitnesses(r))
    BY <2>6
  <2>9. PICK error \in ErrorCodes : error = r[Min(failures)].error
    BY <2>5
  <2>10. Aggregate(r) = Result(FALSE, fitness, error, FALSE)
    BY <2>7, <2>8, <2>9
  <2> QED BY <2>10, JudgedParts
<1>5. CASE k # 1 /\ failures = {}
  <2> DEFINE fitness == CASE stage.aggregation = "mean" -> Mean(r)
                          [] stage.aggregation = "min" -> Min(Fitnesses(r))
                          [] stage.aggregation = "max" -> Max(Fitnesses(r))
                          [] stage.aggregation = "last" -> Last(r).fitness
  <2>1. stage.aggregation \in {"mean", "min", "max", "last"}
    BY DEF Stages
  <2>2. Min(Fitnesses(r)) \in Int /\ Max(Fitnesses(r)) \in Int
    BY FitnessesAre, MinMax
  <2>3. Last(r).fitness \in Int
    <3>1. Last(r) = r[k] /\ k \in 1 .. k
      BY <1>1 DEF Last
    <3> QED BY <1>2, <3>1 DEF Results
  <2>4. Mean(r) \in Int
    BY MeanType
  <2>5. fitness \in Int
    BY <2>1, <2>2, <2>3, <2>4
  <2>6. Aggregate(r) = Result(TRUE, fitness, "none", FALSE)
    BY <1>1, <1>5 DEF Aggregate
  <2>7. \A i \in 1 .. k : r[i].valid
    BY <1>1, <1>5
  <2>8. PICK n \in Int : n = fitness
    BY <2>5
  <2>9. Aggregate(r) = Result(TRUE, n, "none", FALSE)
    BY <2>6, <2>8
  <2>10. Aggregate(r) \in Results
    <3>1. PICK none \in ErrorCodes : none = "none"
      BY DEF ErrorCodes
    <3>2. Result(TRUE, n, none, FALSE) \in Results
      BY JudgedParts
    <3> QED BY <2>9, <3>1, <3>2
  <2> QED BY <2>7, <2>10
<1> QED BY <1>3, <1>4, <1>5

LEMMA RangeOfAppend ==
  ASSUME NEW T, NEW s \in Seq(T), NEW e
  PROVE  /\ Range(Append(s, e)) = Range(s) \cup {e}
         /\ Last(Append(s, e)) = e
BY DEF Range, Last

LEMMA LimitsOfAppend ==
  ASSUME NEW T, NEW s \in Seq(T), NEW e
  PROVE  /\ CountOfLimits(s) \in Nat
         /\ CountOfLimits(Append(s, e)) =
              CountOfLimits(s) + IF e \in LimitErrors THEN 1 ELSE 0
         /\ s = << >> => CountOfLimits(s) = 0
<1> DEFINE A == {i \in DOMAIN s : s[i] \in LimitErrors}
           t == Append(s, e)
           B == {i \in DOMAIN t : t[i] \in LimitErrors}
           n == Len(s) + 1
<1>1. DOMAIN s = 1 .. Len(s) /\ Len(s) \in Nat
  OBVIOUS
<1>2. DOMAIN t = 1 .. n /\ t[n] = e /\ \A i \in 1 .. Len(s) : t[i] = s[i]
  OBVIOUS
<1>3. IsFiniteSet(1 .. Len(s))
  BY <1>1, FS_Interval
<1>4. IsFiniteSet(A)
  BY <1>1, <1>3, FS_Subset
<1>5. n \notin A
  BY <1>1
<1>6. B = A \cup IF e \in LimitErrors THEN {n} ELSE {}
  <2> HIDE DEF t
  <2>1. 1 .. n = (1 .. Len(s)) \cup {n} /\ n \notin 1 .. Len(s)
    BY <1>1
  <2> QED BY <1>1, <1>2, <2>1
<1>7. CountOfLimits(s) = Cardinality(A) /\ CountOfLimits(t) = Cardinality(B)
  BY DEF CountOfLimits
<1>8. Cardinality(A) \in Nat
  BY <1>4, FS_CardinalityType
<1>9. Cardinality(B) = Cardinality(A) + IF e \in LimitErrors THEN 1 ELSE 0
  <2> HIDE DEF A, B, n, t
  <2>1. CASE e \in LimitErrors
    <3>1. B = A \cup {n}
      BY <1>6, <2>1
    <3>2. Cardinality(A \cup {n}) = Cardinality(A) + 1
      BY <1>4, <1>5, FS_AddElement
    <3> QED BY <2>1, <3>1, <3>2
  <2>2. CASE e \notin LimitErrors
    BY <1>6, <1>8, <2>2
  <2> QED BY <2>1, <2>2
<1>10. s = << >> => CountOfLimits(s) = 0
  <2>1. s = << >> => A = {}
    OBVIOUS
  <2> QED BY <1>7, <2>1, FS_EmptySet
<1> QED BY <1>7, <1>8, <1>9, <1>10

(***************************************************************************)
(* The stage, and what does not change with a sample.                      *)
(***************************************************************************)
LEMMA StageParts ==
  ASSUME NEW st \in Stages
  PROVE  /\ st.samples \in Nat \ {0} /\ st.workers \in Nat \ {0}
         /\ st.retries \in Nat /\ st.timeout \in Nat \ {0}
         /\ st.seconds \in Time /\ st.sampleSeconds \in Time
         /\ st.embedded \in BOOLEAN /\ st.minSamples \in Nat \ {0}
         /\ st.aggregation \in {"mean", "min", "max", "last"}
BY DEF Stages, Time

LEMMA StageIsStage ==
  ASSUME Typed, Placed, pc = "sampling"
  PROVE  /\ stage \in Stages
         /\ ~Plain => stage = config[Len(records) + 1] /\ config \in Seq(Stages)
                      /\ Len(records) + 1 \in 1 .. Len(config)
         /\ Plain => stage = PlainStage /\ Len(records) = 0
         /\ Samples = 1 .. stage.samples
<1>1. config \in Seq(Stages) /\ Len(records) \in Nat
  BY EvaluatorAssumption DEF Typed
<1>2. CASE Plain
  <2>1. stage = PlainStage
    BY <1>2 DEF stage
  <2> QED BY <1>1, <1>2, <2>1, PlainStageIsStage DEF Placed
<1>3. CASE ~Plain
  <2>1. stage = config[Len(records) + 1]
    BY <1>3 DEF stage
  <2>2. Len(records) + 1 \in 1 .. Len(config)
    BY <1>1, <1>3 DEF Placed
  <2> QED BY <1>1, <1>3, <2>1, <2>2 DEF Placed
<1> QED BY <1>2, <1>3

LEMMA StageKept ==
  ASSUME UNCHANGED <<config, records>>
  PROVE  /\ stage' = stage /\ Plain' = Plain
         /\ Total(Launches)' = Total(Launches) /\ Total(Limits)' = Total(Limits)
<1>1. stage' = stage /\ Plain' = Plain
  BY DEF stage, Plain
<1>2. LaunchesBy' = LaunchesBy /\ LimitsBy' = LimitsBy
  BY DEF LaunchesBy, LimitsBy, StageAt, Plain
<1> QED BY <1>1, <1>2, TotalIs, TotalIsNext

LEMMA SpentType ==
  ASSUME NEW st, NEW o \in Results, NEW a \in Seq(ErrorCodes)
  PROVE  Launches(st, o, a) \in Nat /\ Limits(st, o, a) \in Nat
<1>1. Len(a) \in Nat /\ CountOfLimits(a) \in Nat
  BY LimitsOfAppend
<1>2. CountOfLimits(<<o.error>>) \in Nat
  <2>1. <<o.error>> \in Seq({o.error})
    OBVIOUS
  <2> QED BY <2>1, LimitsOfAppend
<1>3. Launches(st, o, a) \in Nat
  BY <1>1 DEF Launches, SubprocessAttempts
<1>4. Errors(o, a) = a \/ Errors(o, a) = <<o.error>>
  BY DEF Errors
<1>5. Limits(st, o, a) \in Nat
  BY <1>1, <1>2, <1>4 DEF Limits
<1> QED BY <1>3, <1>5

LEMMA CostType ==
  ASSUME stage \in Stages, NEW p \in Phases, NEW a \in Seq(ErrorCodes), NEW o,
         p = "done" => o \in Results
  PROVE  LaunchesAs(p, a, o) \in Nat /\ LimitsAs(p, a, o) \in Nat
<1>1. Len(a) \in Nat /\ CountOfLimits(a) \in Nat
  BY LimitsOfAppend
<1>2. CASE p = "done" /\ o # Raised
  BY <1>2, SpentType DEF LaunchesAs, LimitsAs
<1>3. CASE p = "done" /\ o = Raised
  BY <1>1, <1>3 DEF LaunchesAs, LimitsAs
<1>4. CASE p # "done"
  BY <1>1, <1>4 DEF LaunchesAs, LimitsAs, Phases
<1> QED BY <1>2, <1>3, <1>4

(* What the stages that are over have cost is a whole number. *)
LEMMA RecordIs ==
  ASSUME Typed, NEW i \in DOMAIN records
  PROVE  \E k \in Nat \ {0} :
           /\ records[i].results \in [1 .. k -> Results]
           /\ records[i].attempts \in [1 .. k -> Seq(ErrorCodes)]
BY DEF Typed, Record

LEMMA InType ==
  ASSUME NEW st, NEW k \in Nat, NEW r,
         r.results \in [1 .. k -> Results],
         r.attempts \in [1 .. k -> Seq(ErrorCodes)]
  PROVE  /\ SumFunction(LaunchesIn(st, r)) \in Int
         /\ SumFunction(LimitsIn(st, r)) \in Int
<1>1. IsFiniteSet(1 .. k)
  BY FS_Interval
<1>2. DOMAIN LaunchesIn(st, r) = 1 .. k /\ DOMAIN LimitsIn(st, r) = 1 .. k
  BY DEF LaunchesIn, LimitsIn
<1>3. ASSUME NEW s \in 1 .. k
      PROVE  LaunchesIn(st, r)[s] \in Int /\ LimitsIn(st, r)[s] \in Int
  <2>1. /\ Launches(st, r.results[s], r.attempts[s]) \in Nat
        /\ Limits(st, r.results[s], r.attempts[s]) \in Nat
    BY SpentType
  <2> QED BY <2>1 DEF LaunchesIn, LimitsIn
<1>4. IntOn(LaunchesIn(st, r), 1 .. k) /\ IntOn(LimitsIn(st, r), 1 .. k)
  BY <1>3 DEF IntOn
<1> QED BY <1>1, <1>2, <1>4, SumIsSum, SumTakes

LEMMA ByType ==
  ASSUME Typed
  PROVE  /\ DOMAIN LaunchesBy = 1 .. Len(records) /\ Len(records) \in Nat
         /\ DOMAIN LimitsBy = 1 .. Len(records)
         /\ IntOn(LaunchesBy, 1 .. Len(records))
         /\ IntOn(LimitsBy, 1 .. Len(records))
<1>1. DOMAIN records = 1 .. Len(records) /\ Len(records) \in Nat
  BY DEF Typed
<1>2. ASSUME NEW i \in DOMAIN records
      PROVE  LaunchesBy[i] \in Int /\ LimitsBy[i] \in Int
  <2>1. PICK k \in Nat \ {0} :
          /\ records[i].results \in [1 .. k -> Results]
          /\ records[i].attempts \in [1 .. k -> Seq(ErrorCodes)]
    BY RecordIs
  <2>2. /\ SumFunction(LaunchesIn(StageAt(i), records[i])) \in Int
        /\ SumFunction(LimitsIn(StageAt(i), records[i])) \in Int
    BY <2>1, InType
  <2> QED BY <2>2 DEF LaunchesBy, LimitsBy
<1> QED BY <1>1, <1>2 DEF IntOn, LaunchesBy, LimitsBy

LEMMA TotalType ==
  ASSUME Typed
  PROVE  Total(Launches) \in Int /\ Total(Limits) \in Int
<1>1. IsFiniteSet(1 .. Len(records))
  BY ByType, FS_Interval
<1> QED BY <1>1, ByType, SumIsSum, SumTakes, TotalIs

(***************************************************************************)
(* A step of one sample: it is left in phase p, with attempts a, outcome   *)
(* o, and l and by for its process.                                        *)
(***************************************************************************)
Moves(s, p, a, o, l, by) ==
  /\ pc = "sampling" /\ s \in Samples
  /\ UNCHANGED <<config, pc, remaining, budget, records, result>>
  /\ phase' = [phase EXCEPT ![s] = p]
  /\ attempts' = [attempts EXCEPT ![s] = a]
  /\ outcome' = [outcome EXCEPT ![s] = o]
  /\ left' = [left EXCEPT ![s] = l]
  /\ limitedBy' = [limitedBy EXCEPT ![s] = by]
  /\ faults' \in 0 .. MaxFaults
  /\ p \in Phases \ {"queued"} /\ a \in Seq(ErrorCodes)
  /\ o \in Results \cup {NoResult} /\ l \in Nat
  /\ by \in {"none", "stage", "sample"}

LEMMA MovedTo ==
  ASSUME Typed, NEW s, NEW p, NEW a, NEW o, NEW l, NEW by,
         Moves(s, p, a, o, l, by)
  PROVE  /\ Samples' = Samples /\ s \in Samples
         /\ phase'[s] = p /\ attempts'[s] = a /\ outcome'[s] = o
         /\ left'[s] = l /\ limitedBy'[s] = by
         /\ \A t \in Samples \ {s} :
              /\ phase'[t] = phase[t] /\ attempts'[t] = attempts[t]
              /\ outcome'[t] = outcome[t] /\ left'[t] = left[t]
              /\ limitedBy'[t] = limitedBy[t]
BY DEF Typed, Moves, Samples

LEMMA MoveKeepsTyped ==
  ASSUME Typed, NEW s, NEW p, NEW a, NEW o, NEW l, NEW by,
         Moves(s, p, a, o, l, by), spent' \in [Kinds -> Nat]
  PROVE  Typed'
<1>1. Samples' = Samples
  BY MovedTo
<1>2. phase' \in [Samples -> Phases]
  BY DEF Typed, Moves
<1>3. attempts' \in [Samples -> Seq(ErrorCodes)]
  BY DEF Typed, Moves
<1>4. outcome' \in [Samples -> Results \cup {NoResult}]
  BY DEF Typed, Moves
<1>5. left' \in [Samples -> Nat]
  BY DEF Typed, Moves
<1>6. limitedBy' \in [Samples -> {"none", "stage", "sample"}]
  BY DEF Typed, Moves
<1>7. UNCHANGED <<config, pc, remaining, budget, records, result>>
      /\ faults' \in 0 .. MaxFaults
  BY DEF Moves
<1>8. config \in Configs /\ pc \in {"begin", "sampling", "done", "raised"}
      /\ remaining \in Time /\ budget \in [Samples -> Time]
      /\ DOMAIN records = 1 .. Len(records) /\ Len(records) \in Nat
      /\ (\A i \in DOMAIN records : Record(records[i]))
      /\ (result = NoResult \/ result \in Results)
  BY DEF Typed
<1>9. (\A i \in DOMAIN records : Record(records[i]))'
  BY <1>7, <1>8 DEF Record
<1> QED BY <1>1, <1>2, <1>3, <1>4, <1>5, <1>6, <1>7, <1>8, <1>9 DEF Typed

LEMMA MoveKeepsPlaced ==
  ASSUME Typed, Placed, NEW s, NEW p, NEW a, NEW o, NEW l, NEW by,
         Moves(s, p, a, o, l, by),
         \A t \in Samples : t < s => phase[t] # "queued"
  PROVE  Placed'
<1>1. Samples' = Samples /\ phase'[s] = p /\ p # "queued"
      /\ \A t \in Samples \ {s} : phase'[t] = phase[t]
  BY MovedTo DEF Moves
<1>2. pc = "sampling" /\ pc' = pc /\ records' = records /\ config' = config
  BY DEF Moves
<1>3. stage' = stage /\ Plain' = Plain
  BY <1>2, StageKept
<1>4. Samples = 1 .. stage.samples
      /\ Len(records) <= (IF Plain THEN 0 ELSE Len(config) - 1)
      /\ \A x, y \in Samples : y < x /\ phase[y] = "queued" => phase[x] = "queued"
  BY <1>2 DEF Placed
<1>5. ASSUME NEW x \in Samples, NEW y \in Samples, y < x, phase'[y] = "queued"
      PROVE  phase'[x] = "queued"
  <2>1. y # s /\ phase[y] = "queued"
    BY <1>1, <1>5
  <2>2. phase[x] = "queued"
    BY <1>4, <1>5, <2>1
  <2>3. x # s
    BY <1>5, <2>1
  <2> QED BY <1>1, <2>2, <2>3
<1> QED BY <1>1, <1>2, <1>3, <1>4, <1>5 DEF Placed

LEMMA MoveKeepsTried ==
  ASSUME Typed, Tried, NEW s, NEW p, NEW a, NEW o, NEW l, NEW by,
         Moves(s, p, a, o, l, by), TriedAs(p, a, o)
  PROVE  Tried'
<1>1. Samples' = Samples /\ pc = "sampling" /\ stage' = stage
  BY MovedTo, StageKept DEF Moves
<1>2. ASSUME NEW t \in Samples
      PROVE  TriedAs(phase'[t], attempts'[t], outcome'[t])
  <2>1. CASE t = s
    BY <2>1, MovedTo
  <2>2. CASE t # s
    BY <1>1, <2>2, MovedTo DEF Tried
  <2> QED BY <2>1, <2>2
<1>3. ASSUME NEW t \in Samples PROVE TriedAs(phase[t], attempts[t], outcome[t])'
  BY <1>1, <1>2 DEF TriedAs
<1> QED BY <1>1, <1>3 DEF Tried

LEMMA MoveKeepsPassed ==
  ASSUME Typed, Passed, NEW s, NEW p, NEW a, NEW o, NEW l, NEW by,
         Moves(s, p, a, o, l, by)
  PROVE  Passed'
BY DEF Moves, Passed, AllEarned, Earned

LEMMA MoveKeepsTold ==
  ASSUME Typed, Told, NEW s, NEW p, NEW a, NEW o, NEW l, NEW by,
         Moves(s, p, a, o, l, by),
         ClippedAs(p, budget[s], l, by), BlamedAs(budget[s], a, o)
  PROVE  Told'
<1>1. Samples' = Samples /\ pc = "sampling" /\ remaining' = remaining
      /\ budget' = budget
  BY MovedTo DEF Moves
<1>2. ASSUME NEW t \in Samples
      PROVE  /\ ClippedAs(phase'[t], budget'[t], left'[t], limitedBy'[t])
             /\ BlamedAs(budget'[t], attempts'[t], outcome'[t])
  <2>1. CASE t = s
    BY <1>1, <2>1, MovedTo
  <2>2. CASE t # s
    BY <1>1, <2>2, MovedTo DEF Told
  <2> QED BY <2>1, <2>2
<1>3. ASSUME NEW t \in Samples
      PROVE  /\ ClippedAs(phase[t], budget[t], left[t], limitedBy[t])'
             /\ BlamedAs(budget[t], attempts[t], outcome[t])'
  <2>1. ClippedAs(phase[t], budget[t], left[t], limitedBy[t])'
    BY <1>1, <1>2 DEF ClippedAs
  <2>2. BlamedAs(budget[t], attempts[t], outcome[t])'
    BY <1>1, <1>2 DEF BlamedAs, Says, Exhausted
  <2> QED BY <2>1, <2>2
<1> QED BY <1>1, <1>3 DEF Told

(* The accounts move by what the sample has cost more. *)
LEMMA MoveKeepsCounted ==
  ASSUME Typed, Placed, Tried, Counted,
         NEW s, NEW p, NEW a, NEW o, NEW l, NEW by,
         Moves(s, p, a, o, l, by), TriedAs(p, a, o),
         spent' \in [Kinds -> Nat],
         Started' - Started = LaunchesAs(p, a, o)
                              - LaunchesAs(phase[s], attempts[s], outcome[s]),
         Stopped' - Stopped = LimitsAs(p, a, o)
                              - LimitsAs(phase[s], attempts[s], outcome[s])
  PROVE  Counted'
<1>1. pc = "sampling" /\ pc' = pc /\ Samples' = Samples /\ s \in Samples
      /\ UNCHANGED <<config, records>> /\ p \in Phases /\ a \in Seq(ErrorCodes)
  BY MovedTo DEF Moves
<1>2. stage \in Stages /\ Samples = 1 .. stage.samples
  BY <1>1, StageIsStage
<1>3. /\ stage' = stage
      /\ Total(Launches)' = Total(Launches) /\ Total(Limits)' = Total(Limits)
  BY <1>1, StageKept
<1>4. IsFiniteSet(Samples)
  <2>1. stage.samples \in Nat
    BY <1>2, StageParts
  <2> QED BY <1>2, <2>1, FS_Interval
<1>5. ASSUME NEW t \in Samples
      PROVE  /\ LaunchesAs(phase[t], attempts[t], outcome[t]) \in Nat
             /\ LimitsAs(phase[t], attempts[t], outcome[t]) \in Nat
  <2>1. phase[t] \in Phases /\ attempts[t] \in Seq(ErrorCodes)
    BY DEF Typed
  <2>2. phase[t] = "done" => outcome[t] \in Results
    BY <1>1 DEF Tried, TriedAs
  <2> QED BY <1>2, <2>1, <2>2, CostType
<1>6. LaunchesAs(p, a, o) \in Nat /\ LimitsAs(p, a, o) \in Nat
  BY <1>1, <1>2, CostType DEF TriedAs
<1>7. ASSUME NEW t \in Samples
      PROVE  /\ LaunchesAs(phase[t], attempts[t], outcome[t])'
                  = LaunchesAs(phase'[t], attempts'[t], outcome'[t])
             /\ LimitsAs(phase[t], attempts[t], outcome[t])'
                  = LimitsAs(phase'[t], attempts'[t], outcome'[t])
  BY <1>3 DEF LaunchesAs, LimitsAs
<1>8. /\ LaunchesNow'[s] = LaunchesAs(p, a, o)
      /\ LimitsNow'[s] = LimitsAs(p, a, o)
  BY <1>1, <1>7, MovedTo DEF LaunchesNow, LimitsNow
<1>9. ASSUME NEW t \in Samples \ {s}
      PROVE  LaunchesNow'[t] = LaunchesNow[t] /\ LimitsNow'[t] = LimitsNow[t]
  <2>1. /\ LaunchesNow'[t] = LaunchesAs(phase[t], attempts[t], outcome[t])'
        /\ LimitsNow'[t] = LimitsAs(phase[t], attempts[t], outcome[t])'
    BY <1>1 DEF LaunchesNow, LimitsNow
  <2>2. /\ LaunchesNow[t] = LaunchesAs(phase[t], attempts[t], outcome[t])
        /\ LimitsNow[t] = LimitsAs(phase[t], attempts[t], outcome[t])
    BY DEF LaunchesNow, LimitsNow
  <2>3. phase'[t] = phase[t] /\ attempts'[t] = attempts[t]
        /\ outcome'[t] = outcome[t]
    BY MovedTo
  <2> QED BY <1>7, <2>1, <2>2, <2>3
<1>10. /\ LaunchesNow[s] = LaunchesAs(phase[s], attempts[s], outcome[s])
       /\ LimitsNow[s] = LimitsAs(phase[s], attempts[s], outcome[s])
  BY <1>1 DEF LaunchesNow, LimitsNow
<1>11. IntOn(LaunchesNow, Samples) /\ IntOn(LimitsNow, Samples)
  <2>1. \A t \in Samples :
          /\ LaunchesNow[t] = LaunchesAs(phase[t], attempts[t], outcome[t])
          /\ LimitsNow[t] = LimitsAs(phase[t], attempts[t], outcome[t])
    BY DEF LaunchesNow, LimitsNow
  <2> QED BY <1>5, <2>1 DEF IntOn
<1>12. /\ DOMAIN LaunchesNow = Samples /\ DOMAIN LimitsNow = Samples
       /\ DOMAIN LaunchesNow' = Samples /\ DOMAIN LimitsNow' = Samples
  BY <1>1 DEF LaunchesNow, LimitsNow
<1>13. /\ SumFunction(LaunchesNow) = Sum(LaunchesNow, Samples)
       /\ SumFunction(LimitsNow) = Sum(LimitsNow, Samples)
       /\ SumFunction(LaunchesNow') = Sum(LaunchesNow', Samples)
       /\ SumFunction(LimitsNow') = Sum(LimitsNow', Samples)
  BY <1>12, SumIsSum
<1>14. Sum(LaunchesNow', Samples) - Sum(LaunchesNow, Samples)
         = LaunchesNow'[s] - LaunchesNow[s]
  BY <1>1, <1>4, <1>6, <1>8, <1>9, <1>11, SumChanges
<1>15. Sum(LimitsNow', Samples) - Sum(LimitsNow, Samples)
         = LimitsNow'[s] - LimitsNow[s]
  BY <1>1, <1>4, <1>6, <1>8, <1>9, <1>11, SumChanges
<1>16. /\ SumFunction(LaunchesNow)' = SumFunction(LaunchesNow')
       /\ SumFunction(LimitsNow)' = SumFunction(LimitsNow')
  OBVIOUS
<1>17. PICK x \in Int, y \in Int :
         x = Sum(LaunchesNow, Samples) /\ y = Sum(LimitsNow, Samples)
  BY <1>4, <1>11, SumTakes
<1>18. PICK v \in Int, w \in Int : v = Total(Launches) /\ w = Total(Limits)
  BY TotalType
<1>19. PICK da \in Int, db \in Int :
         /\ da = LaunchesNow'[s] - LaunchesNow[s]
         /\ db = LimitsNow'[s] - LimitsNow[s]
  <2>1. LaunchesNow[s] \in Int /\ LimitsNow[s] \in Int
    BY <1>1, <1>11 DEF IntOn
  <2> QED BY <1>6, <1>8, <2>1
<1>20. /\ IntOn(LaunchesNow', Samples) /\ IntOn(LimitsNow', Samples)
  <2>1. \A t \in Samples : LaunchesNow'[t] \in Int /\ LimitsNow'[t] \in Int
    BY <1>6, <1>8, <1>9, <1>11 DEF IntOn
  <2> QED BY <2>1 DEF IntOn
<1>21. Sum(LaunchesNow', Samples) = x + da /\ Sum(LimitsNow', Samples) = y + db
  <2>1. PICK x2 \in Int, y2 \in Int :
          x2 = Sum(LaunchesNow', Samples) /\ y2 = Sum(LimitsNow', Samples)
    BY <1>4, <1>20, SumTakes
  <2> QED BY <1>14, <1>15, <1>17, <1>19, <2>1
<1>22. /\ spent \in [Kinds -> Nat] /\ spent' \in [Kinds -> Nat]
  BY DEF Typed
<1>23. Started \in Int /\ Started' \in Int /\ Stopped \in Int /\ Stopped' \in Int
  BY <1>22 DEF Started, Stopped, Kinds
<1>24. Started = v + x /\ Stopped = w + y
  BY <1>1, <1>13, <1>17, <1>18 DEF Counted
<1>25. Started' = v + (x + da) /\ Stopped' = w + (y + db)
  BY <1>8, <1>10, <1>19, <1>23, <1>24
<1>26. /\ Started' = Total(Launches)' + SumFunction(LaunchesNow)'
       /\ Stopped' = Total(Limits)' + SumFunction(LimitsNow)'
  BY <1>3, <1>13, <1>16, <1>18, <1>21, <1>25
<1> QED BY <1>1, <1>26 DEF Counted

LEMMA MoveKeeps ==
  ASSUME IInv, NEW s, NEW p, NEW a, NEW o, NEW l, NEW by,
         Moves(s, p, a, o, l, by),
         \A t \in Samples : t < s => phase[t] # "queued",
         TriedAs(p, a, o),
         ClippedAs(p, budget[s], l, by), BlamedAs(budget[s], a, o),
         spent' \in [Kinds -> Nat],
         Started' - Started = LaunchesAs(p, a, o)
                              - LaunchesAs(phase[s], attempts[s], outcome[s]),
         Stopped' - Stopped = LimitsAs(p, a, o)
                              - LimitsAs(phase[s], attempts[s], outcome[s])
  PROVE  IInv'
<1>1. Typed /\ Placed /\ Tried /\ Passed /\ Told /\ Counted
  BY DEF IInv
<1>2. Typed'
  BY <1>1, MoveKeepsTyped
<1>3. Placed'
  BY <1>1, MoveKeepsPlaced
<1>4. Tried'
  BY <1>1, MoveKeepsTried
<1>5. Passed'
  BY <1>1, MoveKeepsPassed
<1>6. Told'
  BY <1>1, MoveKeepsTold
<1>7. Counted'
  BY <1>1, MoveKeepsCounted
<1> QED BY <1>2, <1>3, <1>4, <1>5, <1>6, <1>7 DEF IInv

LEMMA SpendIs ==
  ASSUME Typed, NEW what \in SUBSET Kinds, Spend(what)
  PROVE  /\ spent' \in [Kinds -> Nat]
         /\ Started' - Started = (IF "launched" \in what THEN 1 ELSE 0)
                                 + (IF "unlaunched" \in what THEN 1 ELSE 0)
         /\ Stopped' - Stopped = (IF "expired" \in what THEN 1 ELSE 0)
                                 + (IF "refused" \in what THEN 1 ELSE 0)
<1>1. spent \in [Kinds -> Nat]
  BY DEF Typed
<1>2. \A k \in Kinds : spent'[k] = spent[k] + IF k \in what THEN 1 ELSE 0
  BY <1>1 DEF Spend
<1>3. DOMAIN spent' = Kinds /\ spent' = [k \in Kinds |-> spent'[k]]
  BY <1>1 DEF Spend
<1>4. \A k \in Kinds : spent[k] \in Nat /\ spent'[k] \in Nat
  BY <1>1, <1>2
<1>5. spent' \in [Kinds -> Nat]
  BY <1>3, <1>4
<1>6. {"launched", "unlaunched", "expired", "refused"} = Kinds
  BY DEF Kinds
<1>7. \A k \in Kinds : \A n, m \in Nat :
        n = spent[k] /\ m = spent'[k] => m - n = IF k \in what THEN 1 ELSE 0
  BY <1>2
<1>8. PICK a1 \in Nat, a2 \in Nat, b1 \in Nat, b2 \in Nat :
        /\ a1 = spent["launched"] /\ a2 = spent'["launched"]
        /\ b1 = spent["unlaunched"] /\ b2 = spent'["unlaunched"]
  BY <1>4, <1>6
<1>9. PICK c1 \in Nat, c2 \in Nat, d1 \in Nat, d2 \in Nat :
        /\ c1 = spent["expired"] /\ c2 = spent'["expired"]
        /\ d1 = spent["refused"] /\ d2 = spent'["refused"]
  BY <1>4, <1>6
<1>10. /\ a2 - a1 = (IF "launched" \in what THEN 1 ELSE 0)
       /\ b2 - b1 = (IF "unlaunched" \in what THEN 1 ELSE 0)
  BY <1>6, <1>7, <1>8
<1>11. /\ c2 - c1 = (IF "expired" \in what THEN 1 ELSE 0)
       /\ d2 - d1 = (IF "refused" \in what THEN 1 ELSE 0)
  BY <1>6, <1>7, <1>9
<1>12. Started = a1 + b1 /\ Started' = a2 + b2
  BY <1>8 DEF Started
<1>13. Stopped = c1 + d1 /\ Stopped' = c2 + d2
  BY <1>9 DEF Stopped
<1> QED BY <1>5, <1>10, <1>11, <1>12, <1>13

LEMMA SpendNothing ==
  ASSUME Typed, UNCHANGED spent
  PROVE  /\ spent' \in [Kinds -> Nat]
         /\ Started' - Started = 0 /\ Stopped' - Stopped = 0
BY DEF Typed, Started, Stopped, Kinds

(* What is known of a sample before it moves.                              *)
LEMMA SampleIs ==
  ASSUME IInv, pc = "sampling", NEW s \in Samples
  PROVE  /\ phase[s] \in Phases /\ attempts[s] \in Seq(ErrorCodes)
         /\ Len(attempts[s]) \in Nat
         /\ outcome[s] \in Results \cup {NoResult}
         /\ left[s] \in Nat /\ limitedBy[s] \in {"none", "stage", "sample"}
         /\ budget[s] \in Time /\ remaining \in Time
         /\ faults \in 0 .. MaxFaults
         /\ TriedAs(phase[s], attempts[s], outcome[s])
         /\ ClippedAs(phase[s], budget[s], left[s], limitedBy[s])
         /\ BlamedAs(budget[s], attempts[s], outcome[s])
         /\ stage \in Stages /\ s \in Nat /\ Samples = 1 .. stage.samples
<1>1. Typed /\ Placed /\ Tried /\ Told
  BY DEF IInv
<1>2. stage \in Stages /\ Samples = 1 .. stage.samples
  BY <1>1, StageIsStage
<1>3. s \in Nat
  BY <1>2
<1> QED BY <1>1, <1>2, <1>3 DEF Typed, Tried, Told

LEMMA EarlierBegan ==
  ASSUME IInv, pc = "sampling", NEW s \in Samples, phase[s] # "queued"
  PROVE  \A t \in Samples : t < s => phase[t] # "queued"
BY DEF IInv, Placed

LEMMA SameAt ==
  ASSUME NEW f, NEW S, NEW T, f \in [S -> T], NEW s, UNCHANGED f
  PROVE  f' = [f EXCEPT ![s] = f[s]]
OBVIOUS

(***************************************************************************)
(* The actions of a sample.                                                *)
(***************************************************************************)
LEMMA Unmoved ==
  ASSUME IInv, pc = "sampling", NEW s \in Samples
  PROVE  /\ UNCHANGED phase => phase' = [phase EXCEPT ![s] = phase[s]]
         /\ UNCHANGED attempts => attempts' = [attempts EXCEPT ![s] = attempts[s]]
         /\ UNCHANGED outcome => outcome' = [outcome EXCEPT ![s] = outcome[s]]
         /\ UNCHANGED left => left' = [left EXCEPT ![s] = left[s]]
         /\ UNCHANGED limitedBy => limitedBy' = [limitedBy EXCEPT ![s] = limitedBy[s]]
BY DEF IInv, Typed

LEMMA PrepareKeeps ==
  ASSUME IInv, NEW s, Prepare(s)
  PROVE  IInv'
<1>1. pc = "sampling" /\ s \in Samples /\ phase[s] = "ready"
  BY DEF Prepare
<1>2. /\ attempts[s] \in Seq(ErrorCodes) /\ Len(attempts[s]) \in Nat
      /\ outcome[s] \in Results \cup {NoResult}
      /\ TriedAs(phase[s], attempts[s], outcome[s])
      /\ BlamedAs(budget[s], attempts[s], outcome[s])
      /\ budget[s] \in Time /\ remaining \in Time /\ stage \in Stages
      /\ faults \in 0 .. MaxFaults
  BY <1>1, SampleIs
<1>3. stage.timeout \in Nat
  BY <1>2, StageParts
<1>4. ClippedToBoth(s) \in Nat
  BY <1>2, <1>3 DEF ClippedToBoth, ClippedToStage, Clips, Time
<1>5. Limit(s) \in {"none", "stage", "sample"}
  BY DEF Limit
<1>6. ClippedAs("preparing", budget[s], ClippedToBoth(s), Limit(s))
  <2>1. CASE Clips(budget[s], ClippedToStage)
    <3>1. Limit(s) = "sample" /\ ClippedToBoth(s) = budget[s]
      BY <2>1 DEF Limit, ClippedToBoth
    <3> QED BY <1>4, <3>1 DEF ClippedAs
  <2>2. CASE ~Clips(budget[s], ClippedToStage) /\ Clips(remaining, stage.timeout)
    <3>1. Limit(s) = "stage" /\ ClippedToBoth(s) = remaining
      BY <2>2 DEF Limit, ClippedToBoth, ClippedToStage
    <3> QED BY <1>4, <3>1 DEF ClippedAs
  <2>3. CASE ~Clips(budget[s], ClippedToStage) /\ ~Clips(remaining, stage.timeout)
    <3>1. Limit(s) = "none"
      BY <2>3 DEF Limit
    <3> QED BY <3>1 DEF ClippedAs
  <2> QED BY <2>1, <2>2, <2>3
<1>7. Moves(s, "preparing", attempts[s], outcome[s], ClippedToBoth(s), Limit(s))
  <2>1. /\ UNCHANGED <<config, pc, remaining, budget, records, result>>
        /\ UNCHANGED <<attempts, outcome, faults>>
        /\ phase' = [phase EXCEPT ![s] = "preparing"]
        /\ left' = [left EXCEPT ![s] = ClippedToBoth(s)]
        /\ limitedBy' = [limitedBy EXCEPT ![s] = Limit(s)]
    BY DEF Prepare
  <2>2. /\ attempts' = [attempts EXCEPT ![s] = attempts[s]]
        /\ outcome' = [outcome EXCEPT ![s] = outcome[s]]
    BY <1>1, <2>1, Unmoved
  <2>3. "preparing" \in Phases \ {"queued"}
    BY DEF Phases
  <2> QED BY <1>1, <1>2, <1>4, <1>5, <2>1, <2>2, <2>3 DEF Moves
<1>8. TriedAs("preparing", attempts[s], outcome[s])
  BY <1>1, <1>2 DEF TriedAs
<1>9. /\ LaunchesAs("preparing", attempts[s], outcome[s])
           = LaunchesAs(phase[s], attempts[s], outcome[s])
      /\ LimitsAs("preparing", attempts[s], outcome[s])
           = LimitsAs(phase[s], attempts[s], outcome[s])
  BY <1>1 DEF LaunchesAs, LimitsAs
<1>10. /\ LaunchesAs(phase[s], attempts[s], outcome[s]) \in Nat
       /\ LimitsAs(phase[s], attempts[s], outcome[s]) \in Nat
  BY <1>1, <1>2, CostType DEF Phases
<1>11. /\ spent' \in [Kinds -> Nat] /\ Started' - Started = 0 /\ Stopped' - Stopped = 0
  BY SpendNothing DEF Prepare, IInv
<1>12. \A t \in Samples : t < s => phase[t] # "queued"
  BY <1>1, EarlierBegan
<1>13. /\ Started' - Started = LaunchesAs("preparing", attempts[s], outcome[s])
                               - LaunchesAs(phase[s], attempts[s], outcome[s])
       /\ Stopped' - Stopped = LimitsAs("preparing", attempts[s], outcome[s])
                               - LimitsAs(phase[s], attempts[s], outcome[s])
  BY <1>9, <1>10, <1>11
<1> QED BY <1>2, <1>6, <1>7, <1>8, <1>11, <1>12, <1>13, MoveKeeps

LEMMA LaunchKeeps ==
  ASSUME IInv, NEW s, Launch(s)
  PROVE  IInv'
<1>1. pc = "sampling" /\ s \in Samples /\ phase[s] = "preparing"
  BY DEF Launch
<1>2. /\ attempts[s] \in Seq(ErrorCodes) /\ Len(attempts[s]) \in Nat
      /\ outcome[s] \in Results \cup {NoResult}
      /\ left[s] \in Nat /\ limitedBy[s] \in {"none", "stage", "sample"}
      /\ TriedAs(phase[s], attempts[s], outcome[s])
      /\ ClippedAs(phase[s], budget[s], left[s], limitedBy[s])
      /\ BlamedAs(budget[s], attempts[s], outcome[s])
      /\ faults \in 0 .. MaxFaults
  BY <1>1, SampleIs
<1>3. ClippedAs("running", budget[s], left[s], limitedBy[s])
  BY <1>1, <1>2 DEF ClippedAs
<1>4. TriedAs("running", attempts[s], outcome[s])
  BY <1>1, <1>2 DEF TriedAs
<1>5. Moves(s, "running", attempts[s], outcome[s], left[s], limitedBy[s])
  <2>1. /\ UNCHANGED <<config, pc, remaining, budget, records, result>>
        /\ UNCHANGED <<attempts, outcome, left, limitedBy, faults>>
        /\ phase' = [phase EXCEPT ![s] = "running"]
    BY DEF Launch
  <2>2. /\ attempts' = [attempts EXCEPT ![s] = attempts[s]]
        /\ outcome' = [outcome EXCEPT ![s] = outcome[s]]
        /\ left' = [left EXCEPT ![s] = left[s]]
        /\ limitedBy' = [limitedBy EXCEPT ![s] = limitedBy[s]]
    BY <1>1, <2>1, Unmoved
  <2>3. "running" \in Phases \ {"queued"}
    BY DEF Phases
  <2> QED BY <1>1, <1>2, <2>1, <2>2, <2>3 DEF Moves
<1>6. CountOfLimits(attempts[s]) \in Nat
  BY <1>2, LimitsOfAppend
<1>7. /\ LaunchesAs("running", attempts[s], outcome[s]) = Len(attempts[s]) + 1
      /\ LaunchesAs(phase[s], attempts[s], outcome[s]) = Len(attempts[s])
      /\ LimitsAs("running", attempts[s], outcome[s]) = CountOfLimits(attempts[s])
      /\ LimitsAs(phase[s], attempts[s], outcome[s]) = CountOfLimits(attempts[s])
  BY <1>1 DEF LaunchesAs, LimitsAs
<1>8. spent' \in [Kinds -> Nat] /\ Started' - Started = 1 /\ Stopped' - Stopped = 0
  <2>1. Spend({"launched"}) /\ {"launched"} \in SUBSET Kinds
    BY DEF Launch, Kinds
  <2> QED BY <2>1, SpendIs DEF IInv
<1>9. \A t \in Samples : t < s => phase[t] # "queued"
  BY <1>1, EarlierBegan
<1>10. /\ Started' - Started = LaunchesAs("running", attempts[s], outcome[s])
                               - LaunchesAs(phase[s], attempts[s], outcome[s])
       /\ Stopped' - Stopped = LimitsAs("running", attempts[s], outcome[s])
                               - LimitsAs(phase[s], attempts[s], outcome[s])
  BY <1>2, <1>6, <1>7, <1>8
<1> QED BY <1>2, <1>3, <1>4, <1>5, <1>8, <1>9, <1>10, MoveKeeps

(* An attempt ends with r. *)
LEMMA TrackedParts ==
  ASSUME NEW r \in Results
  PROVE  LET o == [r EXCEPT !.tracked = ~Plain]
         IN  /\ o \in Results /\ o.valid = r.valid /\ o.fitness = r.fitness
             /\ o.error = r.error /\ o.tracked = ~Plain
BY DEF Results

LEMMA RaisedParts ==
  /\ Raised \in Results /\ Raised.error = "raised" /\ ~Raised.valid
  /\ ~Raised.tracked
<1>1. PICK e \in ErrorCodes : e = "raised"
  BY DEF ErrorCodes
<1> QED BY <1>1, FailedParts DEF Raised

(* What a sample that ends with a result that was not raised has cost. *)
LEMMA DoneCosts ==
  ASSUME NEW a \in Seq(ErrorCodes), NEW o \in Results, o # Raised, stage \in Stages
  PROVE  /\ o.tracked => LaunchesAs("done", a, o) = Len(a)
         /\ ~o.tracked => LaunchesAs("done", a, o) =
              IF stage.embedded \/ o.error = "materialization_error" THEN 0 ELSE 1
         /\ o.tracked /\ a # << >> => LimitsAs("done", a, o) = CountOfLimits(a)
         /\ ~o.tracked \/ a = << >> =>
              LimitsAs("done", a, o) = IF o.error \in LimitErrors THEN 1 ELSE 0
<1>1. LaunchesAs("done", a, o) = Launches(stage, o, a)
      /\ LimitsAs("done", a, o) = Limits(stage, o, a)
  BY DEF LaunchesAs, LimitsAs
<1>2. o.tracked \in BOOLEAN /\ stage.embedded \in BOOLEAN
  BY StageParts DEF Results
<1>3. ASSUME o.tracked PROVE LaunchesAs("done", a, o) = Len(a)
  BY <1>1, <1>3 DEF Launches, SubprocessAttempts
<1>4. ASSUME ~o.tracked
      PROVE  LaunchesAs("done", a, o) =
               IF stage.embedded \/ o.error = "materialization_error" THEN 0 ELSE 1
  <2>1. CASE stage.embedded
    BY <1>1, <1>4, <2>1 DEF Launches
  <2>2. CASE ~stage.embedded /\ o.error = "materialization_error"
    BY <1>1, <1>4, <2>2 DEF Launches, SubprocessAttempts
  <2>3. CASE ~stage.embedded /\ o.error # "materialization_error"
    BY <1>1, <1>4, <2>3 DEF Launches, SubprocessAttempts
  <2> QED BY <2>1, <2>2, <2>3
<1>5. ASSUME o.tracked, a # << >> PROVE LimitsAs("done", a, o) = CountOfLimits(a)
  <2>1. Errors(o, a) = a
    BY <1>5 DEF Errors
  <2> QED BY <1>1, <2>1 DEF Limits
<1>6. ASSUME ~o.tracked \/ a = << >>
      PROVE  LimitsAs("done", a, o) = IF o.error \in LimitErrors THEN 1 ELSE 0
  <2>1. Errors(o, a) = <<o.error>>
    BY <1>6 DEF Errors
  <2>2. <<o.error>> = Append(<< >>, o.error) /\ << >> \in Seq({o.error})
    OBVIOUS
  <2>3. CountOfLimits(<< >>) = 0
    BY <2>2, LimitsOfAppend
  <2>4. CountOfLimits(Append(<< >>, o.error)) =
          CountOfLimits(<< >>) + IF o.error \in LimitErrors THEN 1 ELSE 0
    BY <2>2, LimitsOfAppend
  <2>5. CountOfLimits(<<o.error>>) = IF o.error \in LimitErrors THEN 1 ELSE 0
    BY <2>2, <2>3, <2>4
  <2> QED BY <1>1, <2>1, <2>5 DEF Limits
<1> QED BY <1>3, <1>4, <1>5, <1>6

LEMMA AttemptKeeps ==
  ASSUME IInv, NEW s, pc = "sampling", s \in Samples,
         phase[s] \in {"preparing", "running"},
         NEW r \in Results, r.valid <=> r.error = "none", r.error # "raised",
         r.error = "sample_budget_exhausted" => Exhausted(budget[s]),
         r.error = "stage_budget_exhausted" => Exhausted(remaining),
         Attempted(s, r),
         UNCHANGED <<config, pc, remaining, budget, left, limitedBy, records,
                     result, faults>>,
         spent' \in [Kinds -> Nat],
         Started' - Started =
           (IF Plain /\ r.error = "materialization_error" THEN 0 ELSE 1)
           - (IF phase[s] = "running" THEN 1 ELSE 0),
         Stopped' - Stopped = IF r.error \in LimitErrors THEN 1 ELSE 0
  PROVE  IInv'
<1> DEFINE a == Append(attempts[s], r.error)
           o == [r EXCEPT !.tracked = ~Plain]
           over == (r.valid /\ ThresholdPasses(r)) \/ NoMoreRetries(a)
           p == IF over THEN "done" ELSE "ready"
<1>1. /\ attempts[s] \in Seq(ErrorCodes) /\ Len(attempts[s]) \in Nat
      /\ outcome[s] \in Results \cup {NoResult}
      /\ left[s] \in Nat /\ limitedBy[s] \in {"none", "stage", "sample"}
      /\ TriedAs(phase[s], attempts[s], outcome[s])
      /\ BlamedAs(budget[s], attempts[s], outcome[s])
      /\ faults \in 0 .. MaxFaults /\ stage \in Stages
  BY SampleIs
<1>2. r.error \in ErrorCodes /\ r.valid \in BOOLEAN
  BY DEF Results
<1>3. a \in Seq(ErrorCodes) /\ Len(a) = Len(attempts[s]) + 1 /\ a # << >>
  BY <1>1, <1>2
<1>4. Range(a) = Range(attempts[s]) \cup {r.error} /\ Last(a) = r.error
  BY <1>1, RangeOfAppend
<1>5. CountOfLimits(attempts[s]) \in Nat /\ CountOfLimits(a) =
        CountOfLimits(attempts[s]) + IF r.error \in LimitErrors THEN 1 ELSE 0
  BY <1>1, LimitsOfAppend
<1>6. o \in Results /\ o.valid = r.valid /\ o.error = r.error /\ o.tracked = ~Plain
  BY TrackedParts
<1>7. o # Raised
  BY <1>6, RaisedParts
<1>8. Len(attempts[s]) <= stage.retries /\ stage.retries \in Nat
  BY <1>1, StageParts DEF TriedAs
<1>9. /\ phase' = [phase EXCEPT ![s] = p] /\ attempts' = [attempts EXCEPT ![s] = a]
      /\ outcome' = [outcome EXCEPT ![s] = o]
  BY DEF Attempted
<1>10. p \in {"done", "ready"} /\ (p = "ready" => Len(a) <= stage.retries)
  <2>1. p = "ready" => ~NoMoreRetries(a)
    OBVIOUS
  <2>2. p = "ready" => Len(a) <= stage.retries
    <3> HIDE DEF a
    <3> QED BY <1>1, <1>3, <1>8, <2>1 DEF NoMoreRetries
  <2> QED BY <2>2
<1> HIDE DEF a, o, p
<1>11. TriedAs(p, a, o)
  BY <1>1, <1>3, <1>4, <1>6, <1>8, <1>10 DEF TriedAs
<1>12. ClippedAs(p, budget[s], left[s], limitedBy[s])
  BY <1>10 DEF ClippedAs
<1>13. BlamedAs(budget[s], a, o)
  <2>1. Says(a, o, "sample_budget_exhausted") =>
          \/ Says(attempts[s], outcome[s], "sample_budget_exhausted")
          \/ r.error = "sample_budget_exhausted"
    BY <1>4, <1>6 DEF Says
  <2>2. Says(a, o, "stage_budget_exhausted") =>
          \/ Says(attempts[s], outcome[s], "stage_budget_exhausted")
          \/ r.error = "stage_budget_exhausted"
    BY <1>4, <1>6 DEF Says
  <2> QED BY <1>1, <2>1, <2>2 DEF BlamedAs
<1>14. Moves(s, p, a, o, left[s], limitedBy[s])
  <2>1. /\ left' = [left EXCEPT ![s] = left[s]]
        /\ limitedBy' = [limitedBy EXCEPT ![s] = limitedBy[s]]
    BY Unmoved
  <2>2. p \in Phases \ {"queued"}
    BY <1>10 DEF Phases
  <2> QED BY <1>1, <1>3, <1>6, <1>9, <2>1, <2>2 DEF Moves
<1>15. \A t \in Samples : t < s => phase[t] # "queued"
  BY EarlierBegan
<1>16. /\ LaunchesAs(phase[s], attempts[s], outcome[s]) =
            Len(attempts[s]) + IF phase[s] = "running" THEN 1 ELSE 0
       /\ LimitsAs(phase[s], attempts[s], outcome[s]) = CountOfLimits(attempts[s])
  <2>1. CASE phase[s] = "preparing"
    BY <1>1, <2>1 DEF LaunchesAs, LimitsAs
  <2>2. CASE phase[s] = "running"
    BY <1>1, <2>2 DEF LaunchesAs, LimitsAs
  <2> QED BY <2>1, <2>2
<1>17. Plain => Len(attempts[s]) = 0 /\ CountOfLimits(attempts[s]) = 0
                /\ p = "done" /\ ~stage.embedded
  <2>1. SUFFICES ASSUME Plain PROVE Len(attempts[s]) = 0
                   /\ CountOfLimits(attempts[s]) = 0 /\ p = "done" /\ ~stage.embedded
    OBVIOUS
  <2>2. stage.retries = 0 /\ ~stage.embedded
    BY <2>1 DEF stage, PlainStage
  <2>3. Len(attempts[s]) = 0
    BY <1>1, <1>8, <2>2
  <2>4. attempts[s] = << >>
    BY <1>1, <2>3
  <2>5. p # "ready"
    BY <1>3, <1>10, <2>2, <2>3
  <2> QED BY <1>1, <1>10, <2>2, <2>3, <2>4, <2>5, LimitsOfAppend
<1>18. LaunchesAs(p, a, o) =
         IF Plain /\ r.error = "materialization_error" THEN 0
         ELSE Len(attempts[s]) + 1
  <2>1. CASE Plain
    <3>1. LaunchesAs("done", a, o) =
            IF stage.embedded \/ o.error = "materialization_error" THEN 0 ELSE 1
      BY <1>1, <1>3, <1>6, <1>7, <2>1, DoneCosts
    <3> QED BY <1>6, <1>17, <2>1, <3>1
  <2>2. CASE ~Plain /\ p = "done"
    BY <1>1, <1>3, <1>6, <1>7, <2>2, DoneCosts
  <2>3. CASE ~Plain /\ p = "ready"
    BY <1>3, <2>3 DEF LaunchesAs
  <2> QED BY <1>10, <2>1, <2>2, <2>3
<1>19. LimitsAs(p, a, o) =
         CountOfLimits(attempts[s]) + IF r.error \in LimitErrors THEN 1 ELSE 0
  <2>1. CASE Plain
    <3>1. LimitsAs("done", a, o) = IF o.error \in LimitErrors THEN 1 ELSE 0
      BY <1>1, <1>3, <1>6, <1>7, <2>1, DoneCosts
    <3> QED BY <1>6, <1>17, <2>1, <3>1
  <2>2. CASE ~Plain /\ p = "done"
    BY <1>1, <1>3, <1>5, <1>6, <1>7, <2>2, DoneCosts
  <2>3. CASE ~Plain /\ p = "ready"
    BY <1>5, <2>3 DEF LimitsAs
  <2> QED BY <1>10, <2>1, <2>2, <2>3
<1>20. Started' - Started =
         LaunchesAs(p, a, o) - LaunchesAs(phase[s], attempts[s], outcome[s])
  <2>1. PICK n \in Nat : n = Len(attempts[s])
    BY <1>1
  <2>2. PICK m \in Nat : m = IF phase[s] = "running" THEN 1 ELSE 0
    OBVIOUS
  <2>3. LaunchesAs(phase[s], attempts[s], outcome[s]) = n + m
    BY <1>16, <2>1, <2>2
  <2>4. CASE Plain /\ r.error = "materialization_error"
    <3>1. LaunchesAs(p, a, o) = 0 /\ n = 0 /\ Started' - Started = 0 - m
      BY <1>17, <1>18, <2>1, <2>2, <2>4
    <3> QED BY <2>3, <3>1
  <2>5. CASE ~(Plain /\ r.error = "materialization_error")
    <3>1. LaunchesAs(p, a, o) = n + 1 /\ Started' - Started = 1 - m
      BY <1>18, <2>1, <2>2, <2>5
    <3> QED BY <2>3, <3>1
  <2> QED BY <2>4, <2>5
<1>21. Stopped' - Stopped =
         LimitsAs(p, a, o) - LimitsAs(phase[s], attempts[s], outcome[s])
  <2>1. PICK n \in Nat : n = CountOfLimits(attempts[s])
    BY <1>5
  <2>2. PICK m \in Nat : m = IF r.error \in LimitErrors THEN 1 ELSE 0
    OBVIOUS
  <2>3. LimitsAs(p, a, o) = n + m
    BY <1>19, <2>1, <2>2
  <2> QED BY <1>16, <2>1, <2>2, <2>3
<1> QED BY <1>1, <1>11, <1>12, <1>13, <1>14, <1>15, <1>20, <1>21, MoveKeeps

LEMMA MaterializationFailsKeeps ==
  ASSUME IInv, NEW s, MaterializationFails(s)
  PROVE  IInv'
<1>1. pc = "sampling" /\ s \in Samples /\ phase[s] = "preparing"
  BY DEF MaterializationFails
<1>2. PICK e \in ErrorCodes : e = "materialization_error"
  BY DEF ErrorCodes
<1>3. PICK r \in Results : r = Failed(e)
  BY FailedParts
<1>4. ~r.valid /\ r.error = "materialization_error"
  BY <1>2, <1>3, FailedParts
<1>5. Attempted(s, r)
  BY <1>2, <1>3 DEF MaterializationFails
<1>6. /\ spent' \in [Kinds -> Nat]
      /\ Started' - Started = (IF Plain THEN 0 ELSE 1)
      /\ Stopped' - Stopped = 0
  <2>1. CASE Plain
    <3>1. Spend({}) /\ {} \in SUBSET Kinds
      BY <2>1 DEF MaterializationFails
    <3> QED BY <2>1, <3>1, SpendIs DEF IInv
  <2>2. CASE ~Plain
    <3>1. Spend({"unlaunched"}) /\ {"unlaunched"} \in SUBSET Kinds
      BY <2>2 DEF MaterializationFails, Kinds
    <3> QED BY <2>2, <3>1, SpendIs DEF IInv
  <2> QED BY <2>1, <2>2
<1>7. r.error \notin LimitErrors
  BY <1>4 DEF LimitErrors
<1>8. Started' - Started =
        (IF Plain /\ r.error = "materialization_error" THEN 0 ELSE 1)
        - (IF phase[s] = "running" THEN 1 ELSE 0)
  BY <1>1, <1>4, <1>6
<1>9. Stopped' - Stopped = IF r.error \in LimitErrors THEN 1 ELSE 0
  BY <1>6, <1>7
<1>10. UNCHANGED <<config, pc, remaining, budget, left, limitedBy, records,
                   result, faults>>
  BY DEF MaterializationFails
<1> QED BY <1>1, <1>4, <1>5, <1>6, <1>8, <1>9, <1>10, AttemptKeeps

LEMMA ExitsKeeps ==
  ASSUME IInv, NEW s, Exits(s)
  PROVE  IInv'
<1>1. pc = "sampling" /\ s \in Samples /\ phase[s] = "running"
  BY DEF Exits
<1>2. PICK r \in Results :
        /\ Attempted(s, r) /\ r.error \in {"none", "subprocess_error"}
        /\ r.valid <=> r.error = "none"
  <2>1. CASE Attempted(s, Failed("subprocess_error"))
    <3>1. PICK e \in ErrorCodes : e = "subprocess_error"
      BY DEF ErrorCodes
    <3> QED BY <2>1, <3>1, FailedParts
  <2>2. CASE \E score \in Scores : Attempted(s, Result(TRUE, score, "none", FALSE))
    <3>1. PICK e \in ErrorCodes : e = "none"
      BY DEF ErrorCodes
    <3>2. PICK score \in Scores : Attempted(s, Result(TRUE, score, e, FALSE))
      BY <2>2, <3>1
    <3>3. score \in Int
      BY EvaluatorAssumption
    <3>4. /\ Result(TRUE, score, e, FALSE) \in Results
          /\ Result(TRUE, score, e, FALSE).valid
      BY <3>3, JudgedParts
    <3>5. Result(TRUE, score, e, FALSE).error = e
      BY DEF Result
    <3> QED BY <3>1, <3>2, <3>4, <3>5
  <2> QED BY <2>1, <2>2 DEF Exits
<1>3. spent' \in [Kinds -> Nat] /\ Started' - Started = 0 /\ Stopped' - Stopped = 0
  BY SpendNothing DEF Exits, IInv
<1>4. r.error \notin LimitErrors /\ r.error # "materialization_error"
      /\ r.error # "raised"
  BY <1>2 DEF LimitErrors
<1>5. Started' - Started =
        (IF Plain /\ r.error = "materialization_error" THEN 0 ELSE 1)
        - (IF phase[s] = "running" THEN 1 ELSE 0)
  BY <1>1, <1>3, <1>4
<1>6. Stopped' - Stopped = IF r.error \in LimitErrors THEN 1 ELSE 0
  BY <1>3, <1>4
<1>7. UNCHANGED <<config, pc, remaining, budget, left, limitedBy, records,
                  result, faults>>
  BY DEF Exits
<1> QED BY <1>1, <1>2, <1>3, <1>4, <1>5, <1>6, <1>7, AttemptKeeps

(* A deadline that set the timeout is over when the timeout is. *)
LEMMA TimesOutKeeps ==
  ASSUME IInv, NEW s, TimesOut(s)
  PROVE  IInv'
<1>1. pc = "sampling" /\ s \in Samples /\ phase[s] = "running" /\ left[s] = 0
  BY DEF TimesOut, TimeIsUp
<1>2. /\ limitedBy[s] \in {"none", "stage", "sample"}
      /\ ClippedAs(phase[s], budget[s], left[s], limitedBy[s])
  BY <1>1, SampleIs
<1>3. /\ Blame(s) \in {"timeout", "stage_budget_exhausted", "sample_budget_exhausted"}
      /\ Blame(s) = "stage_budget_exhausted" => limitedBy[s] = "stage"
      /\ Blame(s) = "sample_budget_exhausted" => limitedBy[s] = "sample"
  BY <1>2 DEF Blame
<1>4. PICK e \in ErrorCodes : e = Blame(s)
  BY <1>3 DEF ErrorCodes
<1>5. PICK r \in Results : r = Failed(e)
  BY FailedParts
<1>6. ~r.valid /\ r.error = Blame(s)
  BY <1>4, <1>5, FailedParts
<1>7. Attempted(s, r)
  BY <1>4, <1>5 DEF TimesOut
<1>8. r.error \in LimitErrors /\ r.error \notin {"raised", "none", "materialization_error"}
  BY <1>3, <1>6 DEF LimitErrors
<1>9. spent' \in [Kinds -> Nat] /\ Started' - Started = 0 /\ Stopped' - Stopped = 1
  <2>1. Spend({"expired"}) /\ {"expired"} \in SUBSET Kinds
    BY DEF TimesOut, Kinds
  <2> QED BY <2>1, SpendIs DEF IInv
<1>10. /\ r.error = "sample_budget_exhausted" => Exhausted(budget[s])
       /\ r.error = "stage_budget_exhausted" => Exhausted(remaining)
  BY <1>1, <1>2, <1>3, <1>6 DEF ClippedAs, Exhausted
<1>11. Started' - Started =
         (IF Plain /\ r.error = "materialization_error" THEN 0 ELSE 1)
         - (IF phase[s] = "running" THEN 1 ELSE 0)
  BY <1>1, <1>8, <1>9
<1>12. Stopped' - Stopped = IF r.error \in LimitErrors THEN 1 ELSE 0
  BY <1>8, <1>9
<1>13. UNCHANGED <<config, pc, remaining, budget, left, limitedBy, records,
                   result, faults>>
  BY DEF TimesOut
<1> QED BY <1>1, <1>6, <1>7, <1>8, <1>9, <1>10, <1>11, <1>12, <1>13, AttemptKeeps

LEMMA CleanupRaisesKeeps ==
  ASSUME IInv, NEW s, CleanupRaises(s)
  PROVE  IInv'
<1>1. pc = "sampling" /\ s \in Samples /\ phase[s] = "running"
  BY DEF CleanupRaises
<1>2. /\ attempts[s] \in Seq(ErrorCodes) /\ Len(attempts[s]) \in Nat
      /\ left[s] \in Nat /\ limitedBy[s] \in {"none", "stage", "sample"}
      /\ TriedAs(phase[s], attempts[s], outcome[s])
      /\ BlamedAs(budget[s], attempts[s], outcome[s])
      /\ faults \in 0 .. MaxFaults /\ stage \in Stages
  BY <1>1, SampleIs
<1>3. Raised \in Results /\ Raised.error = "raised" /\ ~Raised.valid
  BY RaisedParts
<1>4. TriedAs("done", attempts[s], Raised)
  <2>1. stage.retries \in Nat
    BY <1>2, StageParts
  <2> QED BY <1>1, <1>2, <1>3, <2>1 DEF TriedAs
<1>5. ClippedAs("done", budget[s], left[s], limitedBy[s])
  BY DEF ClippedAs
<1>6. BlamedAs(budget[s], attempts[s], Raised)
  BY <1>2, <1>3 DEF BlamedAs, Says
<1>7. Moves(s, "done", attempts[s], Raised, left[s], limitedBy[s])
  <2>1. /\ UNCHANGED <<config, pc, remaining, budget, records, result>>
        /\ UNCHANGED <<attempts, left, limitedBy>> /\ faults' = faults + 1
        /\ phase' = [phase EXCEPT ![s] = "done"]
        /\ outcome' = [outcome EXCEPT ![s] = Raised]
        /\ faults < MaxFaults
    BY DEF CleanupRaises, Conclude
  <2>2. /\ attempts' = [attempts EXCEPT ![s] = attempts[s]]
        /\ left' = [left EXCEPT ![s] = left[s]]
        /\ limitedBy' = [limitedBy EXCEPT ![s] = limitedBy[s]]
    BY <1>1, <2>1, Unmoved
  <2>3. "done" \in Phases \ {"queued"}
    BY DEF Phases
  <2>4. faults' \in 0 .. MaxFaults
    BY <1>2, <2>1, EvaluatorAssumption
  <2> QED BY <1>1, <1>2, <1>3, <2>1, <2>2, <2>3, <2>4 DEF Moves
<1>8. PICK n \in Nat : n = CountOfLimits(attempts[s])
  BY <1>2, LimitsOfAppend
<1>9. /\ LaunchesAs("done", attempts[s], Raised) = Len(attempts[s]) + 1
      /\ LaunchesAs(phase[s], attempts[s], outcome[s]) = Len(attempts[s]) + 1
      /\ LimitsAs("done", attempts[s], Raised) = n + 1
      /\ LimitsAs(phase[s], attempts[s], outcome[s]) = n
  BY <1>1, <1>8 DEF LaunchesAs, LimitsAs
<1>10. spent' \in [Kinds -> Nat] /\ Started' - Started = 0 /\ Stopped' - Stopped = 1
  <2>1. Spend({"expired"}) /\ {"expired"} \in SUBSET Kinds
    BY DEF CleanupRaises, Kinds
  <2> QED BY <2>1, SpendIs DEF IInv
<1>11. \A t \in Samples : t < s => phase[t] # "queued"
  BY <1>1, EarlierBegan
<1>12. /\ Started' - Started = LaunchesAs("done", attempts[s], Raised)
                               - LaunchesAs(phase[s], attempts[s], outcome[s])
       /\ Stopped' - Stopped = LimitsAs("done", attempts[s], Raised)
                               - LimitsAs(phase[s], attempts[s], outcome[s])
  BY <1>2, <1>8, <1>9, <1>10
<1> QED BY <1>4, <1>5, <1>6, <1>7, <1>10, <1>11, <1>12, MoveKeeps

LEMMA RefuseKeeps ==
  ASSUME IInv, NEW s, Refuse(s)
  PROVE  IInv'
<1> DEFINE error == IF Exhausted(remaining) THEN "stage_budget_exhausted"
                    ELSE "sample_budget_exhausted"
           o == Result(FALSE, Penalty, error, TRUE)
<1>1. pc = "sampling" /\ s \in Samples /\ phase[s] = "ready"
      /\ (Exhausted(remaining) \/ Exhausted(budget[s]))
  BY DEF Refuse, RefuseListing
<1>2. /\ attempts[s] \in Seq(ErrorCodes) /\ Len(attempts[s]) \in Nat
      /\ left[s] \in Nat /\ limitedBy[s] \in {"none", "stage", "sample"}
      /\ TriedAs(phase[s], attempts[s], outcome[s])
      /\ BlamedAs(budget[s], attempts[s], outcome[s])
      /\ faults \in 0 .. MaxFaults /\ stage \in Stages
  BY <1>1, SampleIs
<1>3. /\ o \in Results /\ ~o.valid /\ o.error = error /\ o.tracked
  <2>1. PICK e \in ErrorCodes : e = error
    BY DEF ErrorCodes
  <2>2. Penalty \in Int
    BY EvaluatorAssumption
  <2>3. Result(FALSE, Penalty, e, TRUE) \in Results
    BY <2>2 DEF Result, Results
  <2>4. /\ ~Result(FALSE, Penalty, e, TRUE).valid
        /\ Result(FALSE, Penalty, e, TRUE).error = e
        /\ Result(FALSE, Penalty, e, TRUE).tracked
    BY DEF Result
  <2> HIDE DEF error
  <2> QED BY <2>1, <2>3, <2>4
<1>4. /\ error \in LimitErrors /\ error \notin {"raised", "none"}
      /\ error = "sample_budget_exhausted" => Exhausted(budget[s])
      /\ error = "stage_budget_exhausted" => Exhausted(remaining)
  BY <1>1 DEF LimitErrors
<1>5. /\ phase' = [phase EXCEPT ![s] = "done"]
      /\ outcome' = [outcome EXCEPT ![s] = o]
      /\ attempts' = [attempts EXCEPT ![s] = attempts[s]]
      /\ Spend(IF attempts[s] = << >> THEN {"refused"} ELSE {})
      /\ UNCHANGED <<config, pc, remaining, budget, left, limitedBy, records,
                     result, faults>>
  BY DEF Refuse, RefuseListing, Conclude
<1> HIDE DEF error, o
<1>6. o # Raised
  BY <1>3, <1>4, RaisedParts
<1>7. TriedAs("done", attempts[s], o)
  <2>1. stage.retries \in Nat
    BY <1>2, StageParts
  <2> QED BY <1>1, <1>2, <1>3, <1>4, <2>1 DEF TriedAs
<1>8. ClippedAs("done", budget[s], left[s], limitedBy[s])
  BY DEF ClippedAs
<1>9. BlamedAs(budget[s], attempts[s], o)
  BY <1>2, <1>3, <1>4 DEF BlamedAs, Says
<1>10. Moves(s, "done", attempts[s], o, left[s], limitedBy[s])
  <2>1. /\ left' = [left EXCEPT ![s] = left[s]]
        /\ limitedBy' = [limitedBy EXCEPT ![s] = limitedBy[s]]
    BY <1>1, <1>5, Unmoved
  <2>2. "done" \in Phases \ {"queued"}
    BY DEF Phases
  <2> QED BY <1>1, <1>2, <1>3, <1>5, <2>1, <2>2 DEF Moves
<1>11. PICK n \in Nat : n = CountOfLimits(attempts[s])
  BY <1>2, LimitsOfAppend
<1>12. /\ LaunchesAs("done", attempts[s], o) = Len(attempts[s])
       /\ LaunchesAs(phase[s], attempts[s], outcome[s]) = Len(attempts[s])
       /\ LimitsAs(phase[s], attempts[s], outcome[s]) = n
  BY <1>1, <1>2, <1>3, <1>6, <1>11, DoneCosts DEF LaunchesAs, LimitsAs
<1>13. /\ spent' \in [Kinds -> Nat] /\ Started' - Started = 0
       /\ Stopped' - Stopped = LimitsAs("done", attempts[s], o) - n
  <2>1. CASE attempts[s] = << >>
    <3>1. Spend({"refused"}) /\ {"refused"} \in SUBSET Kinds
      BY <1>5, <2>1 DEF Kinds
    <3>2. LimitsAs("done", attempts[s], o) = 1
      BY <1>2, <1>3, <1>4, <1>6, <2>1, DoneCosts
    <3>3. n = 0
      BY <1>2, <1>11, <2>1, LimitsOfAppend
    <3> QED BY <3>1, <3>2, <3>3, SpendIs DEF IInv
  <2>2. CASE attempts[s] # << >>
    <3>1. Spend({}) /\ {} \in SUBSET Kinds
      BY <1>5, <2>2
    <3>2. LimitsAs("done", attempts[s], o) = n
      BY <1>2, <1>3, <1>6, <1>11, <2>2, DoneCosts
    <3> QED BY <3>1, <3>2, SpendIs DEF IInv
  <2> QED BY <2>1, <2>2
<1>14. \A t \in Samples : t < s => phase[t] # "queued"
  BY <1>1, EarlierBegan
<1>15. /\ Started' - Started = LaunchesAs("done", attempts[s], o)
                               - LaunchesAs(phase[s], attempts[s], outcome[s])
       /\ Stopped' - Stopped = LimitsAs("done", attempts[s], o)
                               - LimitsAs(phase[s], attempts[s], outcome[s])
  BY <1>2, <1>12, <1>13
<1> QED BY <1>7, <1>8, <1>9, <1>10, <1>13, <1>14, <1>15, MoveKeeps

LEMMA StartSampleKeeps ==
  ASSUME IInv, NEW s, StartSample(s)
  PROVE  IInv'
<1>1. pc = "sampling" /\ s \in Samples /\ phase[s] = "queued"
      /\ \A t \in 1 .. s - 1 : phase[t] # "queued"
  BY DEF StartSample
<1>2. /\ attempts[s] \in Seq(ErrorCodes) /\ outcome[s] \in Results \cup {NoResult}
      /\ left[s] \in Nat /\ limitedBy[s] \in {"none", "stage", "sample"}
      /\ TriedAs(phase[s], attempts[s], outcome[s])
      /\ BlamedAs(budget[s], attempts[s], outcome[s])
      /\ faults \in 0 .. MaxFaults /\ stage \in Stages /\ Samples = 1 .. stage.samples
      /\ s \in Nat
  BY <1>1, SampleIs
<1>3. attempts[s] = << >> /\ stage.retries \in Nat /\ stage.embedded \in BOOLEAN
      /\ stage.samples \in Nat
  BY <1>1, <1>2, StageParts DEF TriedAs
<1>4. \A t \in Samples : t < s => phase[t] # "queued"
  BY <1>1, <1>2, <1>3
<1>5. /\ UNCHANGED <<config, pc, remaining, budget, records, result, faults>>
      /\ attempts' = [attempts EXCEPT ![s] = attempts[s]]
      /\ left' = [left EXCEPT ![s] = left[s]]
      /\ limitedBy' = [limitedBy EXCEPT ![s] = limitedBy[s]]
  BY <1>1, Unmoved DEF StartSample
<1>6. Len(attempts[s]) = 0 /\ CountOfLimits(attempts[s]) = 0
  BY <1>2, <1>3, LimitsOfAppend
<1>7. /\ LaunchesAs(phase[s], attempts[s], outcome[s]) = 0
      /\ LimitsAs(phase[s], attempts[s], outcome[s]) = 0
  BY <1>1, <1>6 DEF LaunchesAs, LimitsAs
<1>8. CASE Exhausted(remaining)
  <2>1. PICK e \in ErrorCodes : e = "stage_budget_exhausted"
    BY DEF ErrorCodes
  <2>2. PICK o \in Results : o = Failed(e)
    BY FailedParts
  <2>3. ~o.valid /\ o.error = "stage_budget_exhausted" /\ ~o.tracked
    BY <2>1, <2>2, FailedParts
  <2>4. o # Raised /\ o.error \in LimitErrors
    BY <2>3, RaisedParts DEF LimitErrors
  <2>5. /\ phase' = [phase EXCEPT ![s] = "done"]
        /\ outcome' = [outcome EXCEPT ![s] = o]
        /\ Spend(IF stage.embedded THEN {"refused"} ELSE {"refused", "unlaunched"})
    BY <1>8, <2>1, <2>2 DEF StartSample, Conclude
  <2>6. TriedAs("done", attempts[s], o)
    BY <1>3, <1>6, <2>3 DEF TriedAs
  <2>7. ClippedAs("done", budget[s], left[s], limitedBy[s])
    BY DEF ClippedAs
  <2>8. BlamedAs(budget[s], attempts[s], o)
    BY <1>2, <1>8, <2>3 DEF BlamedAs, Says
  <2>9. Moves(s, "done", attempts[s], o, left[s], limitedBy[s])
    <3>1. "done" \in Phases \ {"queued"}
      BY DEF Phases
    <3> QED BY <1>1, <1>2, <1>5, <2>5, <3>1 DEF Moves
  <2>10. /\ LaunchesAs("done", attempts[s], o) = IF stage.embedded THEN 0 ELSE 1
         /\ LimitsAs("done", attempts[s], o) = 1
    BY <1>2, <1>3, <2>3, <2>4, DoneCosts
  <2>11. /\ spent' \in [Kinds -> Nat] /\ Stopped' - Stopped = 1
         /\ Started' - Started = IF stage.embedded THEN 0 ELSE 1
    <3>1. CASE stage.embedded
      <4>1. Spend({"refused"}) /\ {"refused"} \in SUBSET Kinds
        BY <2>5, <3>1 DEF Kinds
      <4> QED BY <3>1, <4>1, SpendIs DEF IInv
    <3>2. CASE ~stage.embedded
      <4>1. Spend({"refused", "unlaunched"}) /\ {"refused", "unlaunched"} \in SUBSET Kinds
        BY <2>5, <3>2 DEF Kinds
      <4> QED BY <3>2, <4>1, SpendIs DEF IInv
    <3> QED BY <3>1, <3>2
  <2>12. /\ Started' - Started = LaunchesAs("done", attempts[s], o)
                                 - LaunchesAs(phase[s], attempts[s], outcome[s])
         /\ Stopped' - Stopped = LimitsAs("done", attempts[s], o)
                                 - LimitsAs(phase[s], attempts[s], outcome[s])
    BY <1>7, <2>10, <2>11
  <2> QED BY <1>4, <2>6, <2>7, <2>8, <2>9, <2>11, <2>12, MoveKeeps
<1>9. CASE ~Exhausted(remaining)
  <2>1. phase' = [phase EXCEPT ![s] = "ready"] /\ UNCHANGED <<outcome, spent>>
    BY <1>9 DEF StartSample
  <2>2. outcome' = [outcome EXCEPT ![s] = outcome[s]]
    BY <1>1, <2>1, Unmoved
  <2>3. TriedAs("ready", attempts[s], outcome[s])
    BY <1>3, <1>6 DEF TriedAs
  <2>4. ClippedAs("ready", budget[s], left[s], limitedBy[s])
    BY DEF ClippedAs
  <2>5. Moves(s, "ready", attempts[s], outcome[s], left[s], limitedBy[s])
    <3>1. "ready" \in Phases \ {"queued"}
      BY DEF Phases
    <3> QED BY <1>1, <1>2, <1>5, <2>1, <2>2, <3>1 DEF Moves
  <2>6. /\ LaunchesAs("ready", attempts[s], outcome[s]) = 0
        /\ LimitsAs("ready", attempts[s], outcome[s]) = 0
    BY <1>6 DEF LaunchesAs, LimitsAs
  <2>7. spent' \in [Kinds -> Nat] /\ Started' - Started = 0 /\ Stopped' - Stopped = 0
    BY <2>1, SpendNothing DEF IInv
  <2>8. /\ Started' - Started = LaunchesAs("ready", attempts[s], outcome[s])
                                - LaunchesAs(phase[s], attempts[s], outcome[s])
        /\ Stopped' - Stopped = LimitsAs("ready", attempts[s], outcome[s])
                                - LimitsAs(phase[s], attempts[s], outcome[s])
    BY <1>7, <2>6, <2>7
  <2> QED BY <1>2, <1>4, <2>3, <2>4, <2>5, <2>7, <2>8, MoveKeeps
<1> QED BY <1>8, <1>9

(***************************************************************************)
(* A stage begins.                                                         *)
(***************************************************************************)
LEMMA SumOfNothing ==
  ASSUME NEW S, IsFiniteSet(S), NEW f, DOMAIN f = S, \A x \in S : f[x] = 0
  PROVE  SumFunction(f) = 0
<1>1. IntOn(f, S) /\ IntOn(f, {}) /\ IsFiniteSet({})
  BY FS_EmptySet DEF IntOn
<1>2. Sum(f, S) = Sum(f, {})
  BY <1>1, SumWithin
<1>3. Sum(f, {}) = 0
  BY <1>1, SumTakes
<1> QED BY <1>2, <1>3, SumIsSum

LEMMA EmptyTotal ==
  ASSUME records = << >>
  PROVE  Total(Launches) = 0 /\ Total(Limits) = 0
<1>1. DOMAIN LaunchesBy = {} /\ DOMAIN LimitsBy = {}
  BY DEF LaunchesBy, LimitsBy
<1> QED BY <1>1, FS_EmptySet, SumOfNothing, TotalIs

LEMMA BeginsClean ==
  ASSUME NEW st \in Stages, Begin(st), stage' = st
  PROVE  /\ Samples' = 1 .. st.samples
         /\ remaining' \in Time
         /\ phase' = [s \in Samples' |-> "queued"]
         /\ phase' \in [Samples' -> Phases]
         /\ budget' \in [Samples' -> Time]
         /\ left' \in [Samples' -> Nat]
         /\ limitedBy' \in [Samples' -> {"none", "stage", "sample"}]
         /\ attempts' \in [Samples' -> Seq(ErrorCodes)]
         /\ outcome' \in [Samples' -> Results \cup {NoResult}]
         /\ (\A s \in Samples : TriedAs(phase[s], attempts[s], outcome[s]))'
         /\ (\A s \in Samples :
               /\ ClippedAs(phase[s], budget[s], left[s], limitedBy[s])
               /\ BlamedAs(budget[s], attempts[s], outcome[s]))'
         /\ SumFunction(LaunchesNow)' = 0 /\ SumFunction(LimitsNow)' = 0
<1>1. /\ st.samples \in Nat \ {0} /\ st.retries \in Nat
      /\ st.seconds \in Time /\ st.sampleSeconds \in Time
  BY StageParts
<1>2. Samples' = 1 .. st.samples
  BY DEF Begin, Samples
<1>3. /\ remaining' \in Time /\ phase' = [s \in Samples' |-> "queued"]
      /\ phase' \in [Samples' -> Phases]
      /\ budget' \in [Samples' -> Time] /\ left' \in [Samples' -> Nat]
  BY <1>1, <1>2 DEF Begin, Phases
<1>4. /\ limitedBy' \in [Samples' -> {"none", "stage", "sample"}]
      /\ attempts' \in [Samples' -> Seq(ErrorCodes)]
      /\ outcome' \in [Samples' -> Results \cup {NoResult}]
  BY <1>2 DEF Begin
<1>5. ASSUME NEW s \in Samples'
      PROVE  /\ phase'[s] = "queued" /\ attempts'[s] = << >>
             /\ outcome'[s] = NoResult
  BY <1>2 DEF Begin
<1>6. ASSUME NEW s \in Samples'
      PROVE  TriedAs(phase[s], attempts[s], outcome[s])'
  BY <1>1, <1>5 DEF TriedAs
<1>7. ASSUME NEW s \in Samples'
      PROVE  (/\ ClippedAs(phase[s], budget[s], left[s], limitedBy[s])
              /\ BlamedAs(budget[s], attempts[s], outcome[s]))'
  <2>1. Range(<< >>) = {}
    BY DEF Range
  <2> QED BY <1>5, <2>1 DEF ClippedAs, BlamedAs, Says
<1>8. IsFiniteSet(Samples')
  BY <1>1, <1>2, FS_Interval
<1>9. ASSUME NEW s \in Samples'
      PROVE  LaunchesNow'[s] = 0 /\ LimitsNow'[s] = 0
  <2>1. Len(<< >>) = 0
    OBVIOUS
  <2>2. << >> \in Seq(ErrorCodes)
    OBVIOUS
  <2>3. CountOfLimits(<< >>) = 0
    BY <2>2, LimitsOfAppend
  <2>4. /\ LaunchesAs(phase[s], attempts[s], outcome[s])' = 0
        /\ LimitsAs(phase[s], attempts[s], outcome[s])' = 0
    BY <1>5, <2>1, <2>3 DEF LaunchesAs, LimitsAs
  <2> QED BY <2>4 DEF LaunchesNow, LimitsNow
<1>10. DOMAIN LaunchesNow' = Samples' /\ DOMAIN LimitsNow' = Samples'
  BY DEF LaunchesNow, LimitsNow
<1>11. SumFunction(LaunchesNow') = 0 /\ SumFunction(LimitsNow') = 0
  BY <1>8, <1>9, <1>10, SumOfNothing
<1> QED BY <1>2, <1>3, <1>4, <1>6, <1>7, <1>11

LEMMA InitHolds ==
  ASSUME Init
  PROVE  IInv
<1>1. Samples = {} /\ pc = "begin" /\ config \in Configs
  BY DEF Init, Samples
<1>2. Typed
  <2>1. /\ phase \in [Samples -> Phases] /\ budget \in [Samples -> Time]
        /\ left \in [Samples -> Nat]
        /\ limitedBy \in [Samples -> {"none", "stage", "sample"}]
        /\ attempts \in [Samples -> Seq(ErrorCodes)]
        /\ outcome \in [Samples -> Results \cup {NoResult}]
    BY <1>1 DEF Init
  <2>2. spent \in [Kinds -> Nat]
    BY DEF Init, Kinds
  <2>3. /\ DOMAIN records = 1 .. Len(records) /\ Len(records) \in Nat
        /\ \A i \in DOMAIN records : Record(records[i])
    BY DEF Init
  <2>4. remaining \in Time /\ faults \in 0 .. MaxFaults /\ result = NoResult
    BY EvaluatorAssumption DEF Init, Time
  <2> QED BY <1>1, <2>1, <2>2, <2>3, <2>4 DEF Typed
<1>3. Placed
  BY <1>1 DEF Init, Placed
<1>4. Tried /\ Passed /\ Told
  BY <1>1 DEF Tried, Passed, Told
<1>5. Counted
  BY <1>1 DEF Init, Counted, Started, Stopped
<1> QED BY <1>2, <1>3, <1>4, <1>5 DEF IInv

(* What the invariant says depends on the state alone. *)
LEMMA NothingElse ==
  ASSUME IInv, UNCHANGED vars
  PROVE  IInv'
<1>1. UNCHANGED <<config, pc, remaining, phase, budget, left, limitedBy,
                  attempts, outcome, records, result, faults, spent>>
  BY DEF vars, sampleVars
<1>2. Samples' = Samples /\ stage' = stage /\ Plain' = Plain
  BY <1>1 DEF Samples, stage, Plain
<1>3. Typed'
  BY <1>1, <1>2 DEF IInv, Typed, Record
<1>4. Placed'
  BY <1>1, <1>2 DEF IInv, Placed, Active
<1>5. Tried'
  BY <1>1, <1>2 DEF IInv, Tried, TriedAs
<1>6. Passed'
  BY <1>1, <1>2 DEF IInv, Passed, AllEarned, Earned
<1>7. Told'
  BY <1>1, <1>2 DEF IInv, Told, ClippedAs, BlamedAs, Says, Exhausted
<1>8. Counted'
  <2>1. /\ Total(Launches)' = Total(Launches) /\ Total(Limits)' = Total(Limits)
    BY <1>1, StageKept
  <2>2. LaunchesNow' = LaunchesNow /\ LimitsNow' = LimitsNow
    BY <1>1, <1>2 DEF LaunchesNow, LimitsNow, LaunchesAs, LimitsAs
  <2>3. /\ SumFunction(LaunchesNow)' = SumFunction(LaunchesNow)
        /\ SumFunction(LimitsNow)' = SumFunction(LimitsNow)
    BY <2>2
  <2> QED BY <1>1, <2>1, <2>3 DEF IInv, Counted, Started, Stopped
<1> QED BY <1>3, <1>4, <1>5, <1>6, <1>7, <1>8 DEF IInv

(* evaluate returns before its first stage. *)
LEMMA ReturnsKeeps ==
  ASSUME IInv, pc = "begin", NEW r \in Results, result' = r, ~r.valid,
         pc' \in {"done", "raised"},
         UNCHANGED <<config, remaining, sampleVars, records, faults, spent>>
  PROVE  IInv'
<1>1. UNCHANGED <<config, remaining, phase, budget, left, limitedBy,
                  attempts, outcome, records, faults, spent>>
  BY DEF sampleVars
<1>2. Samples' = Samples /\ Plain' = Plain /\ records = << >> /\ phase = << >>
  BY <1>1 DEF Samples, Plain, IInv, Placed
<1>3. Typed'
  <2>1. pc' \in {"begin", "sampling", "done", "raised"} /\ result' \in Results
    OBVIOUS
  <2> QED BY <1>1, <1>2, <2>1 DEF IInv, Typed, Record
<1>4. Placed'
  BY <1>1, <1>2 DEF Placed, Active, Samples
<1>5. Tried' /\ Passed' /\ Told'
  BY <1>1 DEF Tried, Passed, Told
<1>6. Counted'
  <2>1. /\ Total(Launches) = 0 /\ Total(Limits) = 0
    BY <1>2, EmptyTotal
  <2>2. /\ Total(Launches)' = Total(Launches) /\ Total(Limits)' = Total(Limits)
    BY <1>1, StageKept
  <2> QED BY <1>1, <2>1, <2>2 DEF IInv, Counted, Started, Stopped
<1> QED BY <1>3, <1>4, <1>5, <1>6 DEF IInv

LEMMA RejectKeeps ==
  ASSUME IInv, Reject
  PROVE  IInv'
<1>1. PICK e \in ErrorCodes : result' = Failed(e)
  BY DEF Reject, ErrorCodes
<1>2. PICK r \in Results : r = Failed(e) /\ ~r.valid
  BY FailedParts
<1>3. pc = "begin" /\ pc' \in {"done", "raised"}
      /\ UNCHANGED <<config, remaining, sampleVars, records, faults, spent>>
  BY DEF Reject
<1> QED BY <1>1, <1>2, <1>3, ReturnsKeeps

LEMMA PreflightFailsKeeps ==
  ASSUME IInv, PreflightFails
  PROVE  IInv'
<1>1. PICK r \in Results : r = Raised /\ ~r.valid
  BY RaisedParts
<1>2. pc = "begin" /\ pc' \in {"done", "raised"} /\ result' = r
      /\ UNCHANGED <<config, remaining, sampleVars, records, faults, spent>>
  BY <1>1 DEF PreflightFails
<1> QED BY <1>1, <1>2, ReturnsKeeps

LEMMA BeginStagesKeeps ==
  ASSUME IInv, BeginStages
  PROVE  IInv'
<1>1. /\ pc = "begin" /\ pc' = "sampling" /\ Begin(stage)
      /\ UNCHANGED <<config, records, result, faults, spent>>
  BY DEF BeginStages
<1>2. records = << >> /\ Typed /\ Started = 0 /\ Stopped = 0
  BY <1>1 DEF IInv, Placed, Counted
<1>3. stage' = stage /\ Plain' = Plain /\ Total(Launches)' = 0 /\ Total(Limits)' = 0
  BY <1>1, <1>2, StageKept, EmptyTotal
<1>4. config \in Seq(Stages) /\ Len(records) = 0
  BY <1>2, EvaluatorAssumption DEF Typed
<1>5. stage \in Stages /\ (~Plain => Len(config) \in Nat /\ Len(config) >= 1)
  <2>1. CASE Plain
    BY <2>1, PlainStageIsStage DEF stage
  <2>2. CASE ~Plain
    <3>1. config # << >> /\ stage = config[1]
      BY <1>4, <2>2 DEF Plain, stage
    <3>2. Len(config) \in Nat /\ Len(config) >= 1
      BY <1>4, <3>1
    <3> QED BY <1>4, <3>1, <3>2
  <2> QED BY <2>1, <2>2
<1>6. PICK st \in Stages : st = stage
  BY <1>5
<1>7. Begin(st) /\ stage' = st
  BY <1>1, <1>3, <1>6
<1>8. Typed'
  <2>1. /\ remaining' \in Time /\ phase' \in [Samples' -> Phases]
        /\ budget' \in [Samples' -> Time] /\ left' \in [Samples' -> Nat]
        /\ limitedBy' \in [Samples' -> {"none", "stage", "sample"}]
        /\ attempts' \in [Samples' -> Seq(ErrorCodes)]
        /\ outcome' \in [Samples' -> Results \cup {NoResult}]
    BY <1>7, BeginsClean
  <2>2. /\ config' \in Configs /\ pc' \in {"begin", "sampling", "done", "raised"}
        /\ DOMAIN records' = 1 .. Len(records') /\ Len(records') \in Nat
        /\ (result' = NoResult \/ result' \in Results)
        /\ faults' \in 0 .. MaxFaults /\ spent' \in [Kinds -> Nat]
    BY <1>1, <1>2 DEF Typed
  <2>3. (\A i \in DOMAIN records : Record(records[i]))'
    BY <1>1, <1>2
  <2> QED BY <2>1, <2>2, <2>3 DEF Typed
<1>9. Placed'
  <2>1. Samples' = 1 .. stage'.samples /\ phase' = [s \in Samples' |-> "queued"]
    BY <1>7, BeginsClean
  <2>2. Len(records') <= (IF Plain' THEN 0 ELSE Len(config') - 1)
    BY <1>1, <1>3, <1>4, <1>5
  <2> QED BY <1>1, <2>1, <2>2 DEF Placed
<1>10. Tried' /\ Told'
  BY <1>7, BeginsClean DEF Tried, Told
<1>11. Passed'
  BY <1>1, <1>2 DEF Passed, AllEarned
<1>12. Counted'
  <2>1. SumFunction(LaunchesNow)' = 0 /\ SumFunction(LimitsNow)' = 0
    BY <1>7, BeginsClean
  <2>2. Started' = 0 /\ Stopped' = 0
    BY <1>1, <1>2 DEF Started, Stopped
  <2> QED BY <1>1, <1>3, <2>1, <2>2 DEF Counted
<1> QED BY <1>8, <1>9, <1>10, <1>11, <1>12 DEF IInv

LEMMA ElapseIs ==
  ASSUME NEW time \in Time
  PROVE  /\ Elapse(time) \in Time
         /\ Exhausted(time) => Exhausted(Elapse(time))
         /\ time \in Nat =>
              /\ Elapse(time) \in Nat
              /\ \A l \in Nat : time <= l =>
                   Elapse(time) <= l /\ (l > 0 => Elapse(time) <= l - 1)
BY EvaluatorAssumption DEF Elapse, Time, Exhausted

LEMMA TickKeeps ==
  ASSUME IInv, Tick
  PROVE  IInv'
<1>1. /\ pc = "sampling" /\ remaining' = Elapse(remaining)
      /\ UNCHANGED <<config, pc, phase, limitedBy, attempts, outcome, records,
                     result, faults, spent>>
      /\ budget' = [s \in Samples |->
                      IF s \in Active THEN Elapse(budget[s]) ELSE budget[s]]
      /\ left' = [s \in Samples |->
                    IF phase[s] = "running" THEN left[s] - 1 ELSE left[s]]
      /\ \A s \in Active : phase[s] = "running" => left[s] > 0
  BY DEF Tick
<1>2. Samples' = Samples /\ stage' = stage /\ Plain' = Plain
  BY <1>1, StageKept DEF Samples
<1>3. Typed
  BY DEF IInv
<1>4. ASSUME NEW s \in Samples
      PROVE  /\ budget'[s] \in Time /\ left'[s] \in Nat
             /\ ClippedAs(phase[s], budget[s], left[s], limitedBy[s])'
             /\ BlamedAs(budget[s], attempts[s], outcome[s])'
  <2>1. /\ left[s] \in Nat /\ budget[s] \in Time /\ remaining \in Time
        /\ ClippedAs(phase[s], budget[s], left[s], limitedBy[s])
        /\ BlamedAs(budget[s], attempts[s], outcome[s])
    BY <1>1, SampleIs
  <2>2. budget'[s] \in {budget[s], Elapse(budget[s])}
        /\ (phase[s] \in {"preparing", "running"} => budget'[s] = Elapse(budget[s]))
    BY <1>1 DEF Active
  <2>3. phase[s] = "running" => left[s] > 0 /\ left'[s] = left[s] - 1
    BY <1>1 DEF Active
  <2>4. phase[s] # "running" => left'[s] = left[s]
    BY <1>1
  <2>5. left'[s] \in Nat
    BY <2>1, <2>3, <2>4
  <2>6. budget'[s] \in Time /\ (Exhausted(budget[s]) => Exhausted(budget'[s]))
    BY <2>1, <2>2, ElapseIs
  <2>7. Exhausted(remaining) => Exhausted(remaining')
    BY <1>1, <2>1, ElapseIs
  <2>8. ClippedAs(phase[s], budget[s], left[s], limitedBy[s])'
    <3>1. ASSUME phase[s] \in {"preparing", "running"}, limitedBy[s] = "sample"
          PROVE  budget'[s] \in Nat /\ budget'[s] <= left'[s]
      <4>1. budget[s] \in Nat /\ budget[s] <= left[s]
        BY <2>1, <3>1 DEF ClippedAs
      <4> QED BY <2>1, <2>2, <2>3, <2>4, <3>1, <4>1, ElapseIs
    <3>2. ASSUME phase[s] \in {"preparing", "running"}, limitedBy[s] = "stage"
          PROVE  remaining' \in Nat /\ remaining' <= left'[s]
      <4>1. remaining \in Nat /\ remaining <= left[s]
        BY <2>1, <3>2 DEF ClippedAs
      <4> QED BY <1>1, <2>1, <2>3, <2>4, <3>2, <4>1, ElapseIs
    <3> QED BY <1>1, <3>1, <3>2 DEF ClippedAs
  <2>9. BlamedAs(budget[s], attempts[s], outcome[s])'
    BY <1>1, <2>1, <2>6, <2>7 DEF BlamedAs, Says
  <2> QED BY <2>5, <2>6, <2>8, <2>9
<1>5. Typed'
  <2>1. /\ budget' \in [Samples -> Time]
    BY <1>1, <1>4
  <2>2. left' \in [Samples -> Nat]
    BY <1>1, <1>4
  <2>3. remaining' \in Time
    BY <1>1, <1>3, ElapseIs DEF Typed
  <2> QED BY <1>1, <1>2, <1>3, <2>1, <2>2, <2>3 DEF Typed, Record
<1>6. Placed'
  BY <1>1, <1>2 DEF IInv, Placed
<1>7. Tried'
  BY <1>1, <1>2 DEF IInv, Tried, TriedAs
<1>8. Passed'
  BY <1>1, <1>2 DEF IInv, Passed, AllEarned, Earned
<1>9. Told'
  BY <1>2, <1>4 DEF Told
<1>10. Counted'
  <2>1. /\ Total(Launches)' = Total(Launches) /\ Total(Limits)' = Total(Limits)
    BY <1>1, StageKept
  <2>2. LaunchesNow' = LaunchesNow /\ LimitsNow' = LimitsNow
    BY <1>1, <1>2 DEF LaunchesNow, LimitsNow, LaunchesAs, LimitsAs
  <2>3. /\ SumFunction(LaunchesNow)' = SumFunction(LaunchesNow)
        /\ SumFunction(LimitsNow)' = SumFunction(LimitsNow)
    BY <2>2
  <2> QED BY <1>1, <2>1, <2>3 DEF IInv, Counted, Started, Stopped
<1> QED BY <1>5, <1>6, <1>7, <1>8, <1>9, <1>10 DEF IInv

(***************************************************************************)
(* A stage ends.                                                           *)
(***************************************************************************)
LEMMA DoneIs ==
  ASSUME IInv, StageOver
  PROVE  /\ Active = {}
         /\ \E k \in Nat \ {0} : /\ Done = 1 .. k /\ k <= stage.samples
                                 /\ k = stage.samples \/ BreaksOff
<1>1. pc = "sampling" /\ (Done = Samples \/ BreaksOff) /\ Typed /\ Placed
  BY DEF StageOver, IInv
<1>2. stage \in Stages /\ Samples = 1 .. stage.samples
  BY <1>1, StageIsStage
<1>3. stage.samples \in Nat \ {0}
  BY <1>2, StageParts
<1>4. CASE Done = Samples
  <2>1. Active = {}
    BY <1>4 DEF Active, Done
  <2> QED BY <1>2, <1>3, <1>4, <2>1
<1>5. CASE BreaksOff
  <2>1. Active = {} /\ Done # {}
    BY <1>5 DEF BreaksOff
  <2>2. \A t \in Samples : phase[t] \in {"queued", "done"}
    BY <2>1 DEF Active
  <2>3. Done \in SUBSET Samples
    BY DEF Done
  <2>4. IsFiniteSet(Done)
    <3>1. IsFiniteSet(Samples)
      BY <1>2, <1>3, FS_Interval
    <3> QED BY <2>3, <3>1, FS_Subset
  <2>5. Done \in SUBSET Int
    BY <1>2, <1>3, <2>3
  <2>6. PICK k \in Done : \A t \in Done : t <= k
    <3>1. Max(Done) \in Done /\ \A t \in Done : Max(Done) >= t
      BY <2>1, <2>4, <2>5, MinMax
    <3> QED BY <2>5, <3>1
  <2>7. k \in 1 .. stage.samples /\ phase[k] = "done"
    BY <1>2, <2>6 DEF Done
  <2>8. ASSUME NEW t \in 1 .. k PROVE t \in Done
    <3>1. t \in Samples /\ t <= k /\ k \in Samples
      BY <1>2, <1>3, <2>7
    <3>2. CASE t = k
      BY <2>6, <3>2
    <3>3. CASE t # k
      <4>1. t < k
        BY <1>3, <2>7, <3>1, <3>3
      <4>2. phase[t] # "queued"
        BY <1>1, <2>7, <3>1, <4>1 DEF Placed
      <4> QED BY <2>2, <3>1, <4>2 DEF Done
    <3> QED BY <3>2, <3>3
  <2>9. Done = 1 .. k
    <3>1. \A t \in Done : t \in 1 .. k
      BY <1>2, <1>3, <2>3, <2>6, <2>7
    <3> QED BY <2>8, <3>1
  <2> QED BY <1>3, <1>5, <2>1, <2>7, <2>9
<1> QED BY <1>1, <1>4, <1>5

(* What a stage that is over has to show. *)
Ended == [s \in Done |-> outcome[s]]
Made == [s \in Done |-> attempts[s]]

LEMMA EndedIs ==
  ASSUME IInv, StageOver, NEW k \in Nat, Done = 1 .. k
  PROVE  /\ Ended \in [1 .. k -> Results] /\ Made \in [1 .. k -> Seq(ErrorCodes)]
         /\ \A s \in 1 .. k :
              /\ Ended[s] = outcome[s] /\ Made[s] = attempts[s]
              /\ s \in Samples /\ phase[s] = "done"
              /\ Ended[s].valid <=> Ended[s].error = "none"
              /\ Ended[s].valid => Last(Made[s]) = "none"
<1>1. pc = "sampling" /\ Typed /\ Tried
  BY DEF StageOver, IInv
<1>2. ASSUME NEW s \in 1 .. k
      PROVE  /\ Ended[s] = outcome[s] /\ Made[s] = attempts[s]
             /\ s \in Samples /\ phase[s] = "done"
             /\ outcome[s] \in Results /\ attempts[s] \in Seq(ErrorCodes)
             /\ outcome[s].valid <=> outcome[s].error = "none"
             /\ outcome[s].valid => Last(attempts[s]) = "none"
  <2>1. s \in Samples /\ phase[s] = "done"
    BY DEF Done
  <2>2. TriedAs(phase[s], attempts[s], outcome[s])
    BY <1>1, <2>1 DEF Tried
  <2>3. attempts[s] \in Seq(ErrorCodes)
    BY <1>1, <2>1 DEF Typed
  <2> QED BY <2>1, <2>2, <2>3 DEF TriedAs, Ended, Made
<1>3. Ended \in [1 .. k -> Results]
  BY <1>2 DEF Ended
<1>4. Made \in [1 .. k -> Seq(ErrorCodes)]
  BY <1>2 DEF Made
<1> QED BY <1>2, <1>3, <1>4

(* Its samples that never began have cost nothing: the accounts of the     *)
(* record are those of the samples.                                        *)
LEMMA RecordCosts ==
  ASSUME IInv, StageOver, NEW k \in Nat, Done = 1 .. k, Active = {},
         ~ \E r \in Range(Ended) : r = Raised,
         NEW r, r.results = Ended, r.attempts = Made
  PROVE  /\ SumFunction(LaunchesIn(stage, r)) = SumFunction(LaunchesNow)
         /\ SumFunction(LimitsIn(stage, r)) = SumFunction(LimitsNow)
<1>1. pc = "sampling" /\ Typed /\ Tried /\ Placed
  BY DEF StageOver, IInv
<1>2. stage \in Stages /\ Samples = 1 .. stage.samples /\ stage.samples \in Nat
  BY <1>1, StageIsStage, StageParts
<1>3. IsFiniteSet(Samples) /\ IsFiniteSet(1 .. k)
  BY <1>2, FS_Interval
<1>4. DOMAIN Ended = 1 .. k
  BY DEF Ended
<1>5. ASSUME NEW s \in 1 .. k
      PROVE  /\ LaunchesNow[s] = LaunchesIn(stage, r)[s]
             /\ LimitsNow[s] = LimitsIn(stage, r)[s]
  <2>1. /\ Ended[s] = outcome[s] /\ Made[s] = attempts[s]
        /\ s \in Samples /\ phase[s] = "done"
    BY EndedIs
  <2>2. outcome[s] # Raised
    BY <1>4, <2>1 DEF Range
  <2>3. /\ LaunchesAs(phase[s], attempts[s], outcome[s])
             = Launches(stage, outcome[s], attempts[s])
        /\ LimitsAs(phase[s], attempts[s], outcome[s])
             = Limits(stage, outcome[s], attempts[s])
    BY <2>1, <2>2 DEF LaunchesAs, LimitsAs
  <2>4. /\ LaunchesNow[s] = Launches(stage, outcome[s], attempts[s])
        /\ LimitsNow[s] = Limits(stage, outcome[s], attempts[s])
    BY <2>1, <2>3 DEF LaunchesNow, LimitsNow
  <2> QED BY <1>4, <2>1, <2>4 DEF LaunchesIn, LimitsIn
<1>6. ASSUME NEW s \in Samples \ (1 .. k)
      PROVE  LaunchesNow[s] = 0 /\ LimitsNow[s] = 0
  <2>1. phase[s] = "queued"
    BY DEF Active, Done
  <2>2. attempts[s] = << >> /\ attempts[s] \in Seq(ErrorCodes)
    BY <1>1, <2>1 DEF Tried, TriedAs, Typed
  <2>3. Len(attempts[s]) = 0 /\ CountOfLimits(attempts[s]) = 0
    BY <2>2, LimitsOfAppend
  <2>4. /\ LaunchesAs(phase[s], attempts[s], outcome[s]) = 0
        /\ LimitsAs(phase[s], attempts[s], outcome[s]) = 0
    BY <2>1, <2>3 DEF LaunchesAs, LimitsAs
  <2> QED BY <2>4 DEF LaunchesNow, LimitsNow
<1>7. IntOn(LaunchesNow, Samples) /\ IntOn(LimitsNow, Samples)
  <2>1. ASSUME NEW t \in Samples
        PROVE  LaunchesNow[t] \in Int /\ LimitsNow[t] \in Int
    <3>1. phase[t] \in Phases /\ attempts[t] \in Seq(ErrorCodes)
      BY <1>1 DEF Typed
    <3>2. phase[t] = "done" => outcome[t] \in Results
      BY <1>1 DEF Tried, TriedAs
    <3>3. /\ LaunchesAs(phase[t], attempts[t], outcome[t]) \in Nat
          /\ LimitsAs(phase[t], attempts[t], outcome[t]) \in Nat
      BY <1>2, <3>1, <3>2, CostType
    <3> QED BY <3>3 DEF LaunchesNow, LimitsNow
  <2> QED BY <2>1 DEF IntOn
<1>8. 1 .. k \in SUBSET Samples
  BY EndedIs
<1>9. IntOn(LaunchesNow, 1 .. k) /\ IntOn(LimitsNow, 1 .. k)
  BY <1>7, <1>8 DEF IntOn
<1>10. /\ Sum(LaunchesNow, Samples) = Sum(LaunchesNow, 1 .. k)
       /\ Sum(LimitsNow, Samples) = Sum(LimitsNow, 1 .. k)
  BY <1>3, <1>6, <1>7, <1>8, SumWithin
<1>11. /\ Sum(LaunchesIn(stage, r), 1 .. k) = Sum(LaunchesNow, 1 .. k)
       /\ Sum(LimitsIn(stage, r), 1 .. k) = Sum(LimitsNow, 1 .. k)
  <2>1. \A s \in 1 .. k : LaunchesIn(stage, r)[s] = LaunchesNow[s]
    BY <1>5
  <2>2. \A s \in 1 .. k : LimitsIn(stage, r)[s] = LimitsNow[s]
    BY <1>5
  <2> QED BY <1>3, <1>9, <2>1, <2>2, SumSame
<1>12. /\ DOMAIN LaunchesNow = Samples /\ DOMAIN LimitsNow = Samples
       /\ DOMAIN LaunchesIn(stage, r) = 1 .. k
       /\ DOMAIN LimitsIn(stage, r) = 1 .. k
  BY <1>4 DEF LaunchesNow, LimitsNow, LaunchesIn, LimitsIn
<1> QED BY <1>10, <1>11, <1>12, SumIsSum

(* One more stage is over. *)
LEMMA TotalGrows ==
  ASSUME Typed, UNCHANGED config, NEW r, records' = Append(records, r),
         NEW k \in Nat, r.results \in [1 .. k -> Results],
         r.attempts \in [1 .. k -> Seq(ErrorCodes)],
         stage = StageAt(Len(records) + 1)
  PROVE  /\ Total(Launches)' = Total(Launches) + SumFunction(LaunchesIn(stage, r))
         /\ Total(Limits)' = Total(Limits) + SumFunction(LimitsIn(stage, r))
<1> DEFINE n == Len(records)
<1>1. /\ n \in Nat /\ DOMAIN LaunchesBy = 1 .. n /\ DOMAIN LimitsBy = 1 .. n
      /\ IntOn(LaunchesBy, 1 .. n) /\ IntOn(LimitsBy, 1 .. n)
  BY ByType
<1>2. /\ DOMAIN records' = 1 .. n + 1 /\ records'[n + 1] = r
      /\ \A i \in 1 .. n : records'[i] = records[i]
  BY <1>1 DEF Typed
<1>3. \A i : StageAt(i)' = StageAt(i)
  BY DEF StageAt, Plain
<1>4. /\ LaunchesBy' = [i \in 1 .. n + 1 |-> SumFunction(LaunchesIn(StageAt(i), records'[i]))]
      /\ LimitsBy' = [i \in 1 .. n + 1 |-> SumFunction(LimitsIn(StageAt(i), records'[i]))]
  BY <1>2, <1>3 DEF LaunchesBy, LimitsBy
<1>5. \A i \in 1 .. n : LaunchesBy'[i] = LaunchesBy[i] /\ LimitsBy'[i] = LimitsBy[i]
  <2>1. DOMAIN records = 1 .. n
    BY DEF Typed
  <2>2. \A i \in 1 .. n :
          /\ LaunchesBy[i] = SumFunction(LaunchesIn(StageAt(i), records[i]))
          /\ LimitsBy[i] = SumFunction(LimitsIn(StageAt(i), records[i]))
    BY <2>1 DEF LaunchesBy, LimitsBy
  <2>3. \A i \in 1 .. n :
          /\ LaunchesBy'[i] = SumFunction(LaunchesIn(StageAt(i), records[i]))
          /\ LimitsBy'[i] = SumFunction(LimitsIn(StageAt(i), records[i]))
    BY <1>1, <1>2, <1>4
  <2> QED BY <2>2, <2>3
<1>6. /\ LaunchesBy'[n + 1] = SumFunction(LaunchesIn(stage, r))
      /\ LimitsBy'[n + 1] = SumFunction(LimitsIn(stage, r))
  BY <1>1, <1>2, <1>4
<1>7. SumFunction(LaunchesIn(stage, r)) \in Int /\ SumFunction(LimitsIn(stage, r)) \in Int
  BY InType
<1>8. /\ DOMAIN LaunchesBy' = 1 .. n + 1 /\ DOMAIN LimitsBy' = 1 .. n + 1
  BY <1>4
<1> HIDE DEF n
<1>9. (1 .. n + 1) \ {n + 1} = 1 .. n /\ n + 1 \in 1 .. n + 1
  BY <1>1
<1>10. IsFiniteSet(1 .. n) /\ IsFiniteSet(1 .. n + 1)
  BY <1>1, FS_Interval
<1>11. /\ IntOn(LaunchesBy', 1 .. n + 1) /\ IntOn(LimitsBy', 1 .. n + 1)
  <2>1. ASSUME NEW i \in 1 .. n + 1
        PROVE  LaunchesBy'[i] \in Int /\ LimitsBy'[i] \in Int
    <3>1. CASE i = n + 1
      BY <1>6, <1>7, <3>1
    <3>2. CASE i # n + 1
      BY <1>1, <1>5, <1>9, <3>2 DEF IntOn
    <3> QED BY <3>1, <3>2
  <2> QED BY <2>1 DEF IntOn
<1>12. /\ Sum(LaunchesBy', 1 .. n) = Sum(LaunchesBy, 1 .. n)
       /\ Sum(LimitsBy', 1 .. n) = Sum(LimitsBy, 1 .. n)
  BY <1>1, <1>5, <1>10, SumSame
<1>13. /\ Sum(LaunchesBy', 1 .. n + 1) = LaunchesBy'[n + 1] + Sum(LaunchesBy', 1 .. n)
       /\ Sum(LimitsBy', 1 .. n + 1) = LimitsBy'[n + 1] + Sum(LimitsBy', 1 .. n)
  <2>1. PICK S : S = 1 .. n + 1
    OBVIOUS
  <2>2. /\ Sum(LaunchesBy', S) = LaunchesBy'[n + 1] + Sum(LaunchesBy', S \ {n + 1})
        /\ Sum(LimitsBy', S) = LimitsBy'[n + 1] + Sum(LimitsBy', S \ {n + 1})
    BY <1>9, <1>10, <1>11, <2>1, SumTakes
  <2> QED BY <1>9, <2>1, <2>2
<1>14. Total(Launches) = Sum(LaunchesBy, 1 .. n) /\ Total(Limits) = Sum(LimitsBy, 1 .. n)
  BY <1>1, SumIsSum, TotalIs
<1>15. /\ Total(Launches)' = Sum(LaunchesBy', 1 .. n + 1)
       /\ Total(Limits)' = Sum(LimitsBy', 1 .. n + 1)
  BY <1>8, SumIsSum, TotalIsNext
<1> QED BY <1>6, <1>7, <1>12, <1>13, <1>14, <1>15, TotalType

(* A stage whose results are judged valid earned it. *)
LEMMA ValidIsEarned ==
  ASSUME IInv, StageOver, NEW k \in Nat \ {0}, Done = 1 .. k,
         k = stage.samples \/ BreaksOff, Aggregate(Ended).valid
  PROVE  /\ \A s \in 1 .. k : Ended[s].valid /\ Last(Made[s]) = "none"
         /\ \/ k = stage.samples
            \/ stage.test = "sequential" /\ k >= stage.minSamples
<1>1. pc = "sampling" /\ stage \in Stages
  BY StageIsStage DEF StageOver, IInv
<1>2. Ended \in [1 .. k -> Results]
      /\ \A s \in 1 .. k : /\ Ended[s].valid <=> Ended[s].error = "none"
                           /\ Ended[s].valid => Last(Made[s]) = "none"
  BY EndedIs
<1>3. \A s \in 1 .. k : Ended[s].valid
  BY <1>1, <1>2, AggregateIs
<1>4. ASSUME BreaksOff
      PROVE  stage.test = "sequential" /\ k >= stage.minSamples
  <2>1. \/ Last(Ended).error \in {"stage_budget_exhausted", "raised"}
        \/ StopsSequentially(Ended)
    BY <1>4 DEF BreaksOff, Ended
  <2>2. Len(Ended) = k
    BY <1>2, LenIs
  <2>3. Last(Ended) = Ended[k] /\ k \in 1 .. k
    BY <2>2 DEF Last
  <2>4. Last(Ended).error = "none"
    BY <1>2, <1>3, <2>3
  <2>5. StopsSequentially(Ended)
    BY <2>1, <2>4
  <2>6. stage.minSamples \in Nat /\ stage.samples \in Nat
    BY <1>1, StageParts
  <2> QED BY <2>2, <2>5, <2>6 DEF StopsSequentially
<1> QED BY <1>2, <1>3, <1>4

(* One of the samples raised: so does evaluate. *)
LEMMA StageRaisesKeeps ==
  ASSUME IInv, pc = "sampling", Active = {}, result' = Raised, pc' = "raised",
         UNCHANGED <<config, remaining, sampleVars, records, faults, spent>>
  PROVE  IInv'
<1>1. UNCHANGED <<config, remaining, phase, budget, left, limitedBy,
                  attempts, outcome, records, faults, spent>>
  BY DEF sampleVars
<1>2. Samples' = Samples /\ Active' = Active
  BY <1>1 DEF Samples, Active
<1>3. Typed'
  BY <1>1, <1>2, RaisedParts DEF IInv, Typed, Record
<1>4. Placed'
  BY <1>2 DEF Placed
<1>5. Tried' /\ Passed' /\ Told' /\ Counted'
  BY DEF Tried, Passed, Told, Counted
<1> QED BY <1>3, <1>4, <1>5 DEF IInv

(* A stage is recorded, and was earned if it was passed.                   *)
LEMMA RecordedIs ==
  ASSUME IInv, pc = "sampling", NEW k \in Nat \ {0}, NEW r,
         r.results \in [1 .. k -> Results],
         r.attempts \in [1 .. k -> Seq(ErrorCodes)],
         records' = Append(records, r), UNCHANGED config
  PROVE  /\ DOMAIN records' = 1 .. Len(records')
         /\ Len(records') = Len(records) + 1 /\ Len(records) \in Nat
         /\ (\A i \in DOMAIN records : Record(records[i]))'
         /\ (/\ ~Plain
             /\ \A s \in 1 .. k : r.results[s].valid /\ Last(r.attempts[s]) = "none"
             /\ \/ k = stage.samples
                \/ stage.test = "sequential" /\ k >= stage.minSamples)
            => AllEarned'
<1>1. /\ Typed /\ Placed /\ AllEarned
  BY DEF IInv, Passed
<1>2. DOMAIN records = 1 .. Len(records) /\ Len(records) \in Nat
  BY <1>1 DEF Typed
<1>3. /\ Len(records') = Len(records) + 1
      /\ DOMAIN records' = 1 .. Len(records) + 1
      /\ records'[Len(records) + 1] = r
      /\ \A i \in 1 .. Len(records) : records'[i] = records[i]
  BY <1>2
<1>4. Record(r)
  BY DEF Record
<1>5. ASSUME NEW i \in DOMAIN records' PROVE Record(records'[i])
  <2>1. CASE i = Len(records) + 1
    BY <1>3, <1>4, <2>1
  <2>2. CASE i # Len(records) + 1
    <3>1. i \in 1 .. Len(records)
      BY <1>2, <1>3, <2>2
    <3> QED BY <1>1, <1>2, <1>3, <3>1 DEF Typed
  <2> QED BY <2>1, <2>2
<1>6. ASSUME NEW i \in DOMAIN records' PROVE Record(records[i])'
  BY <1>5 DEF Record
<1>7. ASSUME ~Plain,
             \A s \in 1 .. k : r.results[s].valid /\ Last(r.attempts[s]) = "none",
             \/ k = stage.samples
             \/ stage.test = "sequential" /\ k >= stage.minSamples
      PROVE  AllEarned'
  <2>1. stage = config[Len(records) + 1]
    BY <1>7 DEF stage
  <2>2. DOMAIN r.results = 1 .. k /\ Len(r.results) = k
    BY LenIs
  <2>3. ASSUME NEW i \in DOMAIN records' PROVE Earned(i)'
    <3>1. CASE i = Len(records) + 1
      BY <1>3, <1>7, <2>1, <2>2, <3>1 DEF Earned
    <3>2. CASE i # Len(records) + 1
      <4>1. i \in 1 .. Len(records)
        BY <1>2, <1>3, <3>2
      <4>2. Earned(i) /\ records'[i] = records[i]
        BY <1>1, <1>2, <1>3, <4>1 DEF AllEarned
      <4> QED BY <4>2 DEF Earned
    <3> QED BY <3>1, <3>2
  <2> QED BY <2>3 DEF AllEarned
<1> QED BY <1>2, <1>3, <1>6, <1>7

LEMMA StopReasonIs ==
  ASSUME NEW judged \in Results, NEW results
  PROVE  StopReason(judged, results) \in ErrorCodes
BY DEF StopReason, Results, ErrorCodes

LEMMA CloseStageKeeps ==
  ASSUME IInv, CloseStage
  PROVE  IInv'
<1> DEFINE judged == Aggregate(Ended)
           passed == \/ Plain
                     \/ /\ judged.valid
                        /\ ThresholdPasses(judged)
                        /\ HypothesisTestPasses(Ended)
           record == [results |-> Ended, attempts |-> Made, passed |-> passed]
           goesOn == passed /\ Len(records) + 1 < Len(config)
           stops == IF passed THEN judged
                    ELSE Result(FALSE, judged.fitness,
                                StopReason(judged, Ended), FALSE)
<1>1. /\ StageOver /\ pc = "sampling" /\ Typed /\ Placed
      /\ UNCHANGED <<config, faults, spent>>
  BY DEF CloseStage, StageOver, IInv
<1>2. Active = {} /\ stage \in Stages
  BY <1>1, DoneIs, StageIsStage
<1>3. PICK k \in Nat \ {0} : /\ Done = 1 .. k
                             /\ k = stage.samples \/ BreaksOff
  BY <1>1, DoneIs
<1>4. /\ Ended \in [1 .. k -> Results] /\ Made \in [1 .. k -> Seq(ErrorCodes)]
      /\ \A s \in 1 .. k : Ended[s].valid <=> Ended[s].error = "none"
  BY <1>1, <1>3, EndedIs
<1>5. judged \in Results
  BY <1>2, <1>4, AggregateIs
<1>6. CASE \E r \in Range(Ended) : r = Raised
  <2>1. /\ result' = Raised /\ pc' = "raised"
        /\ UNCHANGED <<remaining, sampleVars, records>>
    BY <1>6 DEF CloseStage, Ended
  <2> QED BY <1>1, <1>2, <2>1, StageRaisesKeeps
<1>7. CASE ~ \E r \in Range(Ended) : r = Raised
  <2>1. records' = Append(records, record)
    BY <1>7 DEF CloseStage, Ended, Made
  <2>2. /\ goesOn => /\ Begin(config[Len(records) + 2])
                     /\ UNCHANGED <<pc, result>>
        /\ ~goesOn => /\ result' = stops /\ pc' = "done"
                      /\ UNCHANGED <<remaining, sampleVars>>
    BY <1>7 DEF CloseStage, Ended, Made
  <2>3. PICK r : r = record
    OBVIOUS
  <2>4. r.results = Ended /\ r.attempts = Made
    BY <2>3
  <2>5. ~Plain /\ passed =>
          /\ \A s \in 1 .. k : r.results[s].valid /\ Last(r.attempts[s]) = "none"
          /\ \/ k = stage.samples
             \/ stage.test = "sequential" /\ k >= stage.minSamples
    BY <1>1, <1>3, <2>4, ValidIsEarned
  <2>6. stops \in Results /\ (stops.valid => passed)
    <3>1. PICK e \in ErrorCodes : e = StopReason(judged, Ended)
      BY <1>5, StopReasonIs
    <3>2. PICK n \in Int : n = judged.fitness
      BY <1>5 DEF Results
    <3>3. Result(FALSE, n, e, FALSE) \in Results /\ ~Result(FALSE, n, e, FALSE).valid
      BY JudgedParts
    <3> HIDE DEF judged, passed
    <3> QED BY <1>5, <3>1, <3>2, <3>3
  <2> HIDE DEF passed, judged, record, stops
  <2>7. records' = Append(records, r)
    BY <2>1, <2>3
  <2>8. /\ DOMAIN records' = 1 .. Len(records')
        /\ Len(records') = Len(records) + 1 /\ Len(records) \in Nat
        /\ (\A i \in DOMAIN records : Record(records[i]))'
        /\ ~Plain /\ passed => AllEarned'
    BY <1>1, <1>4, <2>4, <2>5, <2>7, RecordedIs
  <2>9. /\ ~Plain => /\ stage = config[Len(records) + 1] /\ config \in Seq(Stages)
                     /\ Len(records) + 1 \in 1 .. Len(config)
        /\ Plain => stage = PlainStage /\ Len(records) = 0
    BY <1>1, StageIsStage
  <2>10. Plain' = Plain /\ stage = StageAt(Len(records) + 1)
    BY <1>1, <2>9 DEF Plain, StageAt
  <2>11. /\ Total(Launches)' = Total(Launches) + SumFunction(LaunchesNow)
         /\ Total(Limits)' = Total(Limits) + SumFunction(LimitsNow)
    <3>1. /\ SumFunction(LaunchesIn(stage, r)) = SumFunction(LaunchesNow)
          /\ SumFunction(LimitsIn(stage, r)) = SumFunction(LimitsNow)
      BY <1>1, <1>2, <1>3, <1>7, <2>4, RecordCosts
    <3> QED BY <1>1, <1>4, <2>4, <2>7, <2>10, <3>1, TotalGrows
  <2>12. /\ Started' = Total(Launches)' /\ Stopped' = Total(Limits)'
    <3>1. /\ Started = Total(Launches) + SumFunction(LaunchesNow)
          /\ Stopped = Total(Limits) + SumFunction(LimitsNow)
      BY <1>1 DEF IInv, Counted
    <3>2. Started' = Started /\ Stopped' = Stopped
      BY <1>1 DEF Started, Stopped
    <3> QED BY <2>11, <3>1, <3>2
  <2>13. CASE goesOn
    <3>1. /\ Begin(config[Len(records) + 2]) /\ pc' = "sampling" /\ result' = result
          /\ passed /\ Len(records) + 1 < Len(config)
      BY <1>1, <2>2, <2>13
    <3>2. ~Plain
      <4>1. Plain => Len(config) = 0
        BY DEF Plain
      <4> QED BY <2>9, <3>1, <4>1
    <3>3. /\ Len(config) \in Nat /\ Len(records) + 2 \in 1 .. Len(config)
      BY <2>8, <2>9, <3>1, <3>2
    <3>4. PICK st \in Stages : st = config[Len(records) + 2]
      BY <2>9, <3>2, <3>3
    <3>5. stage' = st
      <4>1. Len(records') + 1 = Len(records) + 2
        BY <2>8
      <4> QED BY <1>1, <2>10, <3>2, <3>4, <4>1 DEF stage
    <3>6. Begin(st)
      BY <3>1, <3>4
    <3>7. Typed'
      <4>1. /\ remaining' \in Time /\ phase' \in [Samples' -> Phases]
            /\ budget' \in [Samples' -> Time] /\ left' \in [Samples' -> Nat]
            /\ limitedBy' \in [Samples' -> {"none", "stage", "sample"}]
            /\ attempts' \in [Samples' -> Seq(ErrorCodes)]
            /\ outcome' \in [Samples' -> Results \cup {NoResult}]
        BY <3>5, <3>6, BeginsClean
      <4>2. /\ config' \in Configs /\ pc' \in {"begin", "sampling", "done", "raised"}
            /\ (result' = NoResult \/ result' \in Results)
            /\ faults' \in 0 .. MaxFaults /\ spent' \in [Kinds -> Nat]
        BY <1>1, <3>1 DEF Typed
      <4>3. Len(records') \in Nat
        BY <2>8
      <4> QED BY <2>8, <4>1, <4>2, <4>3 DEF Typed
    <3>8. Placed'
      <4>1. Samples' = 1 .. stage'.samples /\ phase' = [s \in Samples' |-> "queued"]
        BY <3>5, <3>6, BeginsClean
      <4>2. Len(records') <= (IF Plain' THEN 0 ELSE Len(config') - 1)
        BY <1>1, <2>8, <2>10, <3>1, <3>2, <3>3
      <4> QED BY <3>1, <4>1, <4>2 DEF Placed
    <3>9. Tried' /\ Told'
      BY <3>5, <3>6, BeginsClean DEF Tried, Told
    <3>10. Passed'
      BY <2>8, <3>1, <3>2 DEF Passed
    <3>11. Counted'
      <4>1. SumFunction(LaunchesNow)' = 0 /\ SumFunction(LimitsNow)' = 0
        BY <3>5, <3>6, BeginsClean
      <4>2. Total(Launches)' \in Int /\ Total(Limits)' \in Int
        <5>1. spent' \in [Kinds -> Nat]
          BY <3>7 DEF Typed
        <5>2. Started' \in Int /\ Stopped' \in Int
          BY <5>1 DEF Started, Stopped, Kinds
        <5> QED BY <2>12, <5>2
      <4> QED BY <2>12, <3>1, <4>1, <4>2 DEF Counted
    <3> QED BY <3>7, <3>8, <3>9, <3>10, <3>11 DEF IInv
  <2>14. CASE ~goesOn
    <3>1. /\ result' = stops /\ pc' = "done"
          /\ UNCHANGED <<remaining, phase, budget, left, limitedBy, attempts, outcome>>
      BY <2>2, <2>14 DEF sampleVars
    <3>2. Samples' = Samples /\ Active' = Active
      BY <3>1 DEF Samples, Active
    <3>3. Typed'
      <4>1. /\ remaining' \in Time /\ phase' \in [Samples' -> Phases]
            /\ budget' \in [Samples' -> Time] /\ left' \in [Samples' -> Nat]
            /\ limitedBy' \in [Samples' -> {"none", "stage", "sample"}]
            /\ attempts' \in [Samples' -> Seq(ErrorCodes)]
            /\ outcome' \in [Samples' -> Results \cup {NoResult}]
        BY <1>1, <3>1, <3>2 DEF Typed
      <4>2. /\ config' \in Configs /\ pc' \in {"begin", "sampling", "done", "raised"}
            /\ (result' = NoResult \/ result' \in Results)
            /\ faults' \in 0 .. MaxFaults /\ spent' \in [Kinds -> Nat]
        BY <1>1, <2>6, <3>1 DEF Typed
      <4>3. Len(records') \in Nat
        BY <2>8
      <4> QED BY <2>8, <4>1, <4>2, <4>3 DEF Typed
    <3>4. Placed'
      BY <1>2, <3>1, <3>2 DEF Placed
    <3>5. Tried' /\ Told'
      BY <3>1 DEF Tried, Told
    <3>6. Passed'
      <4>1. ASSUME ~Plain', result'.valid
            PROVE  Len(records') = Len(config') /\ AllEarned'
        <5>1. ~Plain /\ passed
          BY <2>6, <2>10, <3>1, <4>1
        <5>2. Len(config) \in Nat /\ Len(records) + 1 <= Len(config)
          BY <2>8, <2>9, <5>1
        <5>3. ~(Len(records) + 1 < Len(config))
          BY <2>14, <5>1
        <5> QED BY <1>1, <2>8, <5>1, <5>2, <5>3
      <4> QED BY <3>1, <4>1 DEF Passed
    <3>7. Counted'
      BY <2>12, <3>1 DEF Counted
    <3> QED BY <3>3, <3>4, <3>5, <3>6, <3>7 DEF IInv
  <2> QED BY <2>13, <2>14
<1> QED BY <1>6, <1>7

(***************************************************************************)
(* The steps together, and what follows.                                   *)
(***************************************************************************)
LEMMA StepKeeps ==
  ASSUME IInv, [Next]_vars
  PROVE  IInv'
<1>1. ASSUME NEW s \in SampleIds, Works(s) \/ Exits(s) PROVE IInv'
  <2>1. CASE StartSample(s)
    BY <2>1, StartSampleKeeps
  <2>2. CASE Refuse(s)
    BY <2>2, RefuseKeeps
  <2>3. CASE Prepare(s)
    BY <2>3, PrepareKeeps
  <2>4. CASE MaterializationFails(s)
    BY <2>4, MaterializationFailsKeeps
  <2>5. CASE Launch(s)
    BY <2>5, LaunchKeeps
  <2>6. CASE TimesOut(s)
    BY <2>6, TimesOutKeeps
  <2>7. CASE CleanupRaises(s)
    BY <2>7, CleanupRaisesKeeps
  <2>8. CASE Exits(s)
    BY <2>8, ExitsKeeps
  <2> QED BY <1>1, <2>1, <2>2, <2>3, <2>4, <2>5, <2>6, <2>7, <2>8 DEF Works
<1>2. CASE Reject
  BY <1>2, RejectKeeps
<1>3. CASE PreflightFails
  BY <1>3, PreflightFailsKeeps
<1>4. CASE BeginStages
  BY <1>4, BeginStagesKeeps
<1>5. CASE CloseStage
  BY <1>5, CloseStageKeeps
<1>6. CASE Tick
  BY <1>6, TickKeeps
<1>7. CASE UNCHANGED vars
  BY <1>7, NothingElse
<1> QED BY <1>1, <1>2, <1>3, <1>4, <1>5, <1>6, <1>7 DEF Next, Finished

LEMMA InvariantHolds == Spec => []IInv
<1>1. Init => IInv
  BY InitHolds
<1>2. IInv /\ [Next]_vars => IInv'
  BY StepKeeps
<1> QED BY <1>1, <1>2, PTL DEF Spec

(* What evaluation_accounting counts in a result is what was spent on it:  *)
(* every process, timeout and counted refusal once, through retries,       *)
(* samples that are cut off and stages; and none of its processes runs     *)
(* when evaluate returns or raises.                                        *)
THEOREM WorkCounted == Spec => []WorkIsCounted
<1>1. ASSUME IInv PROVE TypeOK
  <2>1. Typed /\ Placed /\ Tried
    BY <1>1 DEF IInv
  <2>2. ASSUME NEW s \in Samples
        PROVE  /\ phase[s] \in Phases
               /\ budget[s] = Unlimited \/ budget[s] \in Nat
               /\ left[s] \in Nat
               /\ limitedBy[s] \in {"none", "stage", "sample"}
               /\ outcome[s] = NoResult \/ outcome[s] \in Results
    BY <2>1 DEF Typed, Time
  <2>3. ASSUME NEW s \in Samples, pc = "sampling"
        PROVE  Len(attempts[s]) =< stage.retries + 1
    <3>1. /\ TriedAs(phase[s], attempts[s], outcome[s])
          /\ Len(attempts[s]) \in Nat /\ stage \in Stages
      BY <1>1, <2>3, SampleIs
    <3>2. stage.retries \in Nat
      BY <3>1, StageParts
    <3> QED BY <3>1, <3>2 DEF TriedAs
  <2> QED BY <2>1, <2>2, <2>3 DEF TypeOK, Typed, Time, Phases
<1>2. IInv => WorkIsCounted
  BY <1>1 DEF IInv, Counted, Placed, Started, Stopped, WorkIsCounted
<1> QED BY <1>2, InvariantHolds, PTL

(* A valid candidate earned every stage: all its samples, or enough for    *)
(* the sequential test, each ended by an attempt that ran and was valid.   *)
(* Nothing a deadline or an exception cut short is taken for a pass.       *)
THEOREM StagesAreEarned == Spec => []EveryStageEarned
<1>1. IInv => EveryStageEarned
  BY DEF IInv, Passed, AllEarned, Earned, EveryStageEarned
<1> QED BY <1>1, InvariantHolds, PTL

(* A deadline that is reported exhausted, in an attempt or in the result   *)
(* of a sample, is exhausted, however the two deadlines clip a timeout.    *)
THEOREM BlameTrue == Spec => []BlameIsTrue
<1>1. IInv => BlameIsTrue
  <2>1. SUFFICES ASSUME IInv, pc = "sampling", NEW s \in Samples
                 PROVE  LET told == Range(attempts[s])
                              \cup (IF outcome[s] = NoResult THEN {}
                                    ELSE {outcome[s].error})
                        IN  /\ "sample_budget_exhausted" \in told => Exhausted(budget[s])
                            /\ "stage_budget_exhausted" \in told => Exhausted(remaining)
    BY DEF BlameIsTrue
  <2>2. BlamedAs(budget[s], attempts[s], outcome[s])
    BY <2>1, SampleIs
  <2> QED BY <2>2 DEF BlamedAs, Says
<1> QED BY <1>1, InvariantHolds, PTL
=============================================================================
