------------------------ MODULE LLMEnsemble_proofs -------------------------
(***************************************************************************)
(* The ensemble's accounts and what a call costs, for any number of        *)
(* backends, roles, calls and faults, and any limits.                      *)
(***************************************************************************)
EXTENDS LLMEnsemble, FiniteSetTheorems, NaturalsInduction, SequenceTheorems,
        WellFoundedInduction, TLAPS

(***************************************************************************)
(* Sums.  The community modules sum by a recursive function on the subsets *)
(* of a set; every fact about it is a fact about the least subset it would *)
(* fail for.                                                               *)
(***************************************************************************)
Adds(g, f, S) ==
  g = [s \in SUBSET S |->
        IF s = {} THEN 0
        ELSE LET x == CHOOSE x \in s : TRUE IN f[x] + g[s \ {x}]]

(* The equation, and a function that satisfies it on the small subsets.    *)
OneMore(g, f, s) ==
  IF s = {} THEN 0 ELSE LET x == CHOOSE x \in s : TRUE IN f[x] + g[s \ {x}]
AddsUpTo(g, f, S, k) ==
  \A s \in SUBSET S : Cardinality(s) <= k => g[s] = OneMore(g, f, s)

Sum(f, S) == (CHOOSE g : Adds(g, f, S))[S]

NatOn(f, S) == \A x \in S : f[x] \in Nat
(* h is f but for the value at x, which is d more.                         *)
DiffersAt(f, h, S, x, d) ==
  \A y \in S : h[y] = f[y] + (IF y = x THEN d ELSE 0)

LEMMA LeastNumber ==
  ASSUME NEW S \in SUBSET Nat, S # {}
  PROVE  \E i \in S : \A j \in S : i <= j
<1>1. IsWellFoundedOn(OpToRel(<, Nat), Nat)
  BY NatLessThanWellFounded
<1>2. PICK i \in S : \A j \in S : ~(<<j, i>> \in OpToRel(<, Nat))
  BY <1>1, WFMin
<1>3. \A j \in S : ~(j < i)
  BY <1>2 DEF OpToRel
<1> QED BY <1>3

(* Of the subsets in a family, one is smallest: what is smaller by an      *)
(* element is not in the family.                                           *)
LEMMA LeastSubset ==
  ASSUME NEW S, IsFiniteSet(S), NEW F \in SUBSET SUBSET S, F # {}
  PROVE  \E s \in F : \A x \in s : s \ {x} \notin F
<1> DEFINE C == {Cardinality(s) : s \in F}
<1>1. \A s \in SUBSET S : IsFiniteSet(s) /\ Cardinality(s) \in Nat
  BY FS_Subset, FS_CardinalityType
<1>2. C \in SUBSET Nat /\ C # {}
  BY <1>1
<1>3. PICK c \in C : \A d \in C : c <= d
  <2> HIDE DEF C
  <2> QED BY <1>2, LeastNumber
<1>4. PICK s \in F : Cardinality(s) = c
  BY <1>3
<1>5. ASSUME NEW x \in s, s \ {x} \in F PROVE FALSE
  <2>1. Cardinality(s \ {x}) = Cardinality(s) - 1
    BY <1>1, <1>4, FS_RemoveElement
  <2>2. c <= Cardinality(s \ {x})
    BY <1>3, <1>5
  <2> QED BY <1>1, <1>2, <1>3, <1>4, <2>1, <2>2
<1> QED BY <1>4, <1>5

LEMMA OneMoreIs ==
  ASSUME NEW s
  PROVE  \/ s = {} /\ \A f, g : OneMore(g, f, s) = 0
         \/ \E x \in s : \A f, g : OneMore(g, f, s) = f[x] + g[s \ {x}]
<1>1. CASE s = {}
  BY <1>1 DEF OneMore
<1>2. CASE s # {}
  <2>1. (CHOOSE x \in s : TRUE) \in s
    BY <1>2
  <2> QED BY <1>2, <2>1 DEF OneMore
<1> QED BY <1>1, <1>2

LEMMA AddsExists ==
  ASSUME NEW S, IsFiniteSet(S), NEW f
  PROVE  \E g : Adds(g, f, S)
<1> DEFINE bad == {k \in Nat : ~ \E g : AddsUpTo(g, f, S, k)}
<1>1. \A s \in SUBSET S : IsFiniteSet(s) /\ Cardinality(s) \in Nat
  BY FS_Subset, FS_CardinalityType
<1>2. bad = {}
  <2> SUFFICES ASSUME bad # {} PROVE FALSE
    OBVIOUS
  <2>1. PICK k \in bad : \A j \in bad : k <= j
    BY LeastNumber
  <2>2. CASE k = 0
    <3> DEFINE g == [s \in SUBSET S |-> 0]
    <3>1. ASSUME NEW s \in SUBSET S, Cardinality(s) <= 0
          PROVE  g[s] = OneMore(g, f, s)
      <4>1. s = {}
        BY <1>1, <3>1, FS_EmptySet
      <4> QED BY <4>1 DEF OneMore
    <3>2. AddsUpTo(g, f, S, 0)
      BY <3>1 DEF AddsUpTo
    <3> QED BY <2>1, <2>2, <3>2
  <2>3. CASE k > 0
    <3>1. k - 1 \in Nat /\ k - 1 \notin bad
      BY <2>1, <2>3
    <3>2. PICK g : AddsUpTo(g, f, S, k - 1)
      BY <3>1
    <3> DEFINE h == [s \in SUBSET S |->
                       IF Cardinality(s) <= k - 1 THEN g[s]
                                                  ELSE OneMore(g, f, s)]
    <3>3. ASSUME NEW s \in SUBSET S, Cardinality(s) <= k
          PROVE  h[s] = OneMore(h, f, s)
      <4>1. h[s] = OneMore(g, f, s)
        BY <3>2 DEF AddsUpTo
      <4>2. CASE \A e, g1 : OneMore(g1, e, s) = 0
        BY <4>1, <4>2
      <4>3. ASSUME NEW x \in s,
                   \A e, g1 : OneMore(g1, e, s) = e[x] + g1[s \ {x}]
            PROVE  h[s] = OneMore(h, f, s)
        <5>1. Cardinality(s \ {x}) = Cardinality(s) - 1
          BY <1>1, FS_RemoveElement
        <5>2. h[s \ {x}] = g[s \ {x}]
          BY <1>1, <2>1, <3>3, <5>1
        <5> HIDE DEF h
        <5> QED BY <4>1, <4>3, <5>2
      <4> QED BY <4>2, <4>3, OneMoreIs
    <3>4. AddsUpTo(h, f, S, k)
      BY <3>3 DEF AddsUpTo
    <3> QED BY <2>1, <3>4
  <2> QED BY <2>1, <2>2, <2>3
<1>3. PICK g : AddsUpTo(g, f, S, Cardinality(S))
  <2>1. Cardinality(S) \in Nat
    BY <1>1
  <2> QED BY <1>2, <2>1
<1> DEFINE h == [s \in SUBSET S |-> g[s]]
<1>4. ASSUME NEW s \in SUBSET S PROVE g[s] = OneMore(h, f, s)
  <2>1. Cardinality(s) <= Cardinality(S)
    BY FS_Subset
  <2>2. g[s] = OneMore(g, f, s)
    BY <1>3, <2>1 DEF AddsUpTo
  <2>3. CASE \A e, g1 : OneMore(g1, e, s) = 0
    BY <2>2, <2>3
  <2>4. ASSUME NEW x \in s,
               \A e, g1 : OneMore(g1, e, s) = e[x] + g1[s \ {x}]
        PROVE  g[s] = OneMore(h, f, s)
    <3>1. h[s \ {x}] = g[s \ {x}]
      OBVIOUS
    <3> HIDE DEF h
    <3> QED BY <2>2, <2>4, <3>1
  <2> QED BY <2>3, <2>4, OneMoreIs
<1>5. h = [s \in SUBSET S |-> OneMore(h, f, s)]
  <2>1. h = [s \in SUBSET S |-> g[s]]
    OBVIOUS
  <2> HIDE DEF h
  <2> QED BY <1>4, <2>1
<1>6. Adds(h, f, S)
  <2> HIDE DEF h
  <2> QED BY <1>5 DEF Adds, OneMore
<1> QED BY <1>6

LEMMA AddsStep ==
  ASSUME NEW S, NEW f, NEW g, Adds(g, f, S), NEW s \in SUBSET S
  PROVE  g[s] = OneMore(g, f, s)
  BY DEF Adds, OneMore

(* The sums of functions that differ at x alone differ as the functions.   *)
LEMMA AddsDiffer ==
  ASSUME NEW S, IsFiniteSet(S), NEW f, NEW h, NatOn(f, S), NatOn(h, S),
         NEW x, NEW d \in Int, DiffersAt(f, h, S, x, d),
         NEW g, Adds(g, f, S), NEW k, Adds(k, h, S), NEW s \in SUBSET S
  PROVE  /\ g[s] \in Nat /\ k[s] \in Nat
         /\ k[s] = g[s] + (IF x \in s THEN d ELSE 0)
<1> DEFINE good(t) == /\ g[t] \in Nat /\ k[t] \in Nat
                      /\ k[t] = g[t] + (IF x \in t THEN d ELSE 0)
           F == {t \in SUBSET S : ~good(t)}
<1>1. SUFFICES ASSUME F # {} PROVE FALSE
  OBVIOUS
<1>2. PICK t \in F : \A y \in t : t \ {y} \notin F
  <2> HIDE DEF F
  <2>1. F \in SUBSET SUBSET S
    BY DEF F
  <2> QED BY <1>1, <2>1, LeastSubset
<1>3. t \in SUBSET S /\ ~good(t)
  OBVIOUS
<1>4. \A y \in t : good(t \ {y})
  BY <1>2, <1>3
<1>5. g[t] = OneMore(g, f, t) /\ k[t] = OneMore(k, h, t)
  BY <1>3, AddsStep
<1>6. CASE t = {} /\ \A e, g1 : OneMore(g1, e, t) = 0
  BY <1>3, <1>5, <1>6
<1>7. ASSUME NEW y \in t, \A e, g1 : OneMore(g1, e, t) = e[y] + g1[t \ {y}]
      PROVE  FALSE
  <2>1. g[t] = f[y] + g[t \ {y}] /\ k[t] = h[y] + k[t \ {y}]
    BY <1>5, <1>7
  <2>2. f[y] \in Nat /\ h[y] \in Nat /\ h[y] = f[y] + (IF y = x THEN d ELSE 0)
    BY <1>3 DEF NatOn, DiffersAt
  <2>3. good(t \ {y})
    BY <1>4
  <2>4. CASE y = x
    BY <1>3, <2>1, <2>2, <2>3, <2>4
  <2>5. CASE y # x
    BY <1>3, <2>1, <2>2, <2>3, <2>5
  <2> QED BY <2>4, <2>5
<1> QED BY <1>6, <1>7, OneMoreIs

LEMMA SumChanges ==
  ASSUME NEW S, IsFiniteSet(S), NEW f, NEW h, NatOn(f, S), NatOn(h, S),
         NEW x, NEW d \in Int, DiffersAt(f, h, S, x, d)
  PROVE  /\ Sum(f, S) \in Nat /\ Sum(h, S) \in Nat
         /\ Sum(h, S) = Sum(f, S) + (IF x \in S THEN d ELSE 0)
<1>1. PICK g : Adds(g, f, S) /\ g = CHOOSE c : Adds(c, f, S)
  BY AddsExists
<1>2. PICK k : Adds(k, h, S) /\ k = CHOOSE c : Adds(c, h, S)
  BY AddsExists
<1>3. Sum(f, S) = g[S] /\ Sum(h, S) = k[S]
  BY <1>1, <1>2 DEF Sum
<1>4. S \in SUBSET S
  OBVIOUS
<1> QED BY <1>1, <1>2, <1>3, <1>4, AddsDiffer

LEMMA SumSame ==
  ASSUME NEW S, IsFiniteSet(S), NEW f, NEW h, NatOn(f, S),
         \A y \in S : h[y] = f[y]
  PROVE  Sum(f, S) \in Nat /\ Sum(h, S) = Sum(f, S)
<1>1. PICK d \in Int : d = 0
  OBVIOUS
<1>2. NatOn(h, S) /\ DiffersAt(f, h, S, S, d)
  BY <1>1 DEF NatOn, DiffersAt
<1>3. /\ Sum(f, S) \in Nat
      /\ Sum(h, S) = Sum(f, S) + (IF S \in S THEN d ELSE 0)
  BY <1>2, SumChanges
<1> QED BY <1>1, <1>3

LEMMA SumType ==
  ASSUME NEW S, IsFiniteSet(S), NEW f, NatOn(f, S)
  PROVE  Sum(f, S) \in Nat
BY SumSame

LEMMA SumZero ==
  ASSUME NEW S, IsFiniteSet(S), NEW f, \A y \in S : f[y] = 0
  PROVE  Sum(f, S) = 0
<1>1. PICK g : Adds(g, f, S) /\ g = CHOOSE c : Adds(c, f, S)
  BY AddsExists
<1> DEFINE F == {t \in SUBSET S : g[t] # 0}
<1>2. CASE F # {}
  <2>1. PICK t \in F : \A y \in t : t \ {y} \notin F
    <3> HIDE DEF F
    <3>1. F \in SUBSET SUBSET S
      BY DEF F
    <3> QED BY <1>2, <3>1, LeastSubset
  <2>2. t \in SUBSET S /\ g[t] # 0 /\ g[t] = OneMore(g, f, t)
    BY <1>1, <2>1, AddsStep
  <2>3. ASSUME NEW y \in t, \A e, g1 : OneMore(g1, e, t) = e[y] + g1[t \ {y}]
        PROVE  FALSE
    BY <2>1, <2>2, <2>3
  <2> QED BY <2>2, <2>3, OneMoreIs
<1>3. CASE F = {}
  <2>1. S \in SUBSET S
    OBVIOUS
  <2>2. g[S] = 0
    BY <1>3, <2>1
  <2> QED BY <1>1, <2>2 DEF Sum
<1> QED BY <1>2, <1>3

(* The sums of the model are these sums. *)
LEMMA SumIsSum ==
  ASSUME NEW f, NEW S
  PROVE  SumFunctionOnSet(f, S) = Sum(f, S)
BY DEF SumFunctionOnSet, FoldFunctionOnSet, MapThenFoldSet, Sum, Adds

LEMMA SumAllIsSum ==
  ASSUME NEW S, NEW f, DOMAIN f = S
  PROVE  SumFunction(f) = Sum(f, S)
BY SumIsSum DEF SumFunction

(***************************************************************************)
(* The inductive invariant.                                                *)
(***************************************************************************)
(* Where a call in progress is: what it has attempted is what its retries  *)
(* and fallbacks allow, and whoever is quarantined for its role is         *)
(* excluded from it.                                                       *)
InCall ==
  /\ pc # "idle" =>
       /\ outcome = "none"
       /\ call.failed <=> call.attempts > 0
       /\ call.attempts <= MaxCallAttempts
       /\ Quarantined(call.role) \subseteq call.excluded
  /\ pc = "select" =>
       /\ call.round <= Rounds
       /\ call.attempts <= call.round * (MaxRetries + 1)
  /\ pc = "attempt" =>
       /\ call.round < Rounds /\ call.retry <= MaxRetries
       /\ call.attempts < MaxCallAttempts
       /\ call.attempts <= call.round * (MaxRetries + 1) + call.retry
       /\ call.backend \notin call.excluded

(* A selection the accounts will count once it ran to its end.             *)
Running == IF pc = "attempt" /\ Accounted THEN 1 ELSE 0
RunningFor(r) == IF call.role = r THEN Running ELSE 0

(* The total of the accounts is the calls counted, the one in progress and *)
(* those that an exception cut short.                                      *)
Totalled ==
  /\ Sum(scheduler.counts, Backends) + Running <= scheduler.total
  /\ scheduler.total <= Sum(scheduler.counts, Backends) + Running + faults
  /\ \A r \in Roles :
       Sum(byRole[r].counts, Backends) + RunningFor(r) <= byRole[r].total

(* Every id that is listed is of a record, and once.                       *)
Listed ==
  /\ \A b \in Backends :
       /\ \A id \in scheduler.unrewarded[b] : id <= totalRecords
       /\ scheduler.unrewarded[b] \cap scheduler.rewarded = {}
       /\ IsFiniteSet(scheduler.unrewarded[b])
  /\ \A id \in scheduler.rewarded : id <= totalRecords
  /\ \A b, c \in Backends :
       b # c => scheduler.unrewarded[b] \cap scheduler.unrewarded[c] = {}

(* The roles share the ids among themselves.                               *)
Shares ==
  /\ scheduler.rewarded = UNION {byRole[r].rewarded : r \in Roles}
  /\ \A b \in Backends :
       scheduler.unrewarded[b] = UNION {byRole[r].unrewarded[b] : r \in Roles}
  /\ \A r, q \in Roles, b \in Backends :
       r # q => byRole[r].unrewarded[b] \cap byRole[q].unrewarded[b] = {}

(* And add up, backend by backend.                                         *)
Totals == [r \in Roles |-> byRole[r].total]
Counts(b) == [r \in Roles |-> byRole[r].counts[b]]
Wins(b) == [r \in Roles |-> byRole[r].wins[b]]
AddUp ==
  /\ scheduler.total = Sum(Totals, Roles)
  /\ \A b \in Backends :
       /\ scheduler.counts[b] = Sum(Counts(b), Roles)
       /\ scheduler.wins[b] = Sum(Wins(b), Roles)

(* Only a response can be rewarded.                                        *)
OnlyAnswers ==
  \A i \in DOMAIN history, b \in Backends :
    history[i].id \in scheduler.unrewarded[b] => history[i].ok

IInv ==
  /\ TypeOK /\ InCall /\ CallContract
  /\ Listed /\ Shares /\ Totalled /\ AddUp
  /\ OneRewardPerCall /\ WindowIsTail /\ OnlyAnswers

(***************************************************************************)
(* Types.                                                                  *)
(***************************************************************************)
LEMMA Finite ==
  /\ IsFiniteSet(Roles) /\ IsFiniteSet(Backends)
  /\ NumBackends \in Nat \ {0} /\ 0 \in Backends
  /\ Rounds \in Nat /\ Rounds >= 1
  /\ MaxRetries \in Nat /\ MaxCallAttempts \in Nat \ {0}
  /\ MaxCallHistory \in Nat \ {0} /\ Rewards \subseteq Nat
<1>1. IsFiniteSet(Backends)
  BY EnsembleAssumption, FS_Interval DEF Backends
<1> QED BY <1>1, EnsembleAssumption DEF Backends, Rounds

(* Whoever is preferred is eligible. *)
LEMMA PreferredAreEligible ==
  ASSUME TypeOK
  PROVE  /\ PreferredBackends \subseteq EligibleBackends
         /\ EligibleBackends \subseteq Backends \ call.excluded
<1>1. EligibleBackends \subseteq Backends \ call.excluded
  BY EnsembleAssumption DEF EligibleBackends, Allowed
<1> DEFINE untried == {b \in EligibleBackends : SelectionAccounts.counts[b] = 0}
<1>2. CASE untried = {}
  BY <1>1, <1>2 DEF PreferredBackends
<1>3. CASE untried # {}
  <2>1. untried \in SUBSET Nat
    <3>1. Backends \subseteq Nat
      BY Finite DEF Backends
    <3>2. untried \subseteq EligibleBackends
      OBVIOUS
    <3> HIDE DEF untried
    <3> QED BY <1>1, <3>1, <3>2
  <2>2. \E i \in untried : \A j \in untried : i <= j
    <3> HIDE DEF untried
    <3> QED BY <1>3, <2>1, LeastNumber
  <2>3. Min(untried) \in untried
    BY <2>2 DEF Min
  <2> QED BY <1>1, <1>3, <2>3 DEF PreferredBackends
<1> QED BY <1>2, <1>3

LEMMA CountedIs ==
  ASSUME NEW a \in Accounts, NEW b \in Backends, NEW fresh \in SUBSET Nat
  PROVE  LET c == Counted(a, b, fresh) IN
         /\ c \in Accounts
         /\ c.counts = [a.counts EXCEPT ![b] = a.counts[b] + 1]
         /\ c.unrewarded = [a.unrewarded EXCEPT ![b] = a.unrewarded[b] \cup fresh]
         /\ c.wins = a.wins /\ c.total = a.total /\ c.rewarded = a.rewarded
<1> DEFINE counts == [a.counts EXCEPT ![b] = a.counts[b] + 1]
           unrewarded == [a.unrewarded EXCEPT ![b] = a.unrewarded[b] \cup fresh]
<1>1. /\ a.counts \in [Backends -> Nat] /\ a.wins \in [Backends -> Nat]
      /\ a.unrewarded \in [Backends -> SUBSET Nat]
      /\ a.total \in Nat /\ a.rewarded \in SUBSET Nat
  BY DEF Accounts
<1>2. counts \in [Backends -> Nat]
  BY <1>1
<1>3. unrewarded \in [Backends -> SUBSET Nat]
  BY <1>1
<1>4. /\ Counted(a, b, fresh).counts = counts
      /\ Counted(a, b, fresh).unrewarded = unrewarded
      /\ Counted(a, b, fresh).wins = a.wins
      /\ Counted(a, b, fresh).total = a.total
      /\ Counted(a, b, fresh).rewarded = a.rewarded
  BY DEF Counted, Accounts
<1>5. Counted(a, b, fresh) \in Accounts
  BY <1>1, <1>2, <1>3 DEF Counted, Accounts
<1> QED BY <1>4, <1>5

ClaimOf(c, a, b, id, reward) ==
  /\ c \in Accounts
  /\ c.wins = [a.wins EXCEPT ![b] = a.wins[b] + Applied(reward)]
  /\ c.unrewarded = [a.unrewarded EXCEPT ![b] = a.unrewarded[b] \ {id}]
  /\ c.rewarded = a.rewarded \cup {id}
  /\ c.counts = a.counts /\ c.total = a.total
  /\ Applied(reward) \in {0, 1}

LEMMA ClaimIs ==
  ASSUME NEW a \in Accounts, NEW b \in Backends, NEW id \in Nat,
         NEW reward \in Nat
  PROVE  ClaimOf(Claim(a, b, id, reward), a, b, id, reward)
<1> DEFINE wins == [a.wins EXCEPT ![b] = a.wins[b] + Applied(reward)]
           unrewarded == [a.unrewarded EXCEPT ![b] = a.unrewarded[b] \ {id}]
<1>0. Applied(reward) \in {0, 1}
  BY DEF Applied, MAX_REWARD
<1>1. /\ a.counts \in [Backends -> Nat] /\ a.wins \in [Backends -> Nat]
      /\ a.unrewarded \in [Backends -> SUBSET Nat]
      /\ a.total \in Nat /\ a.rewarded \in SUBSET Nat
  BY DEF Accounts
<1>2. wins \in [Backends -> Nat]
  BY <1>0, <1>1
<1>3. unrewarded \in [Backends -> SUBSET Nat]
  BY <1>1
<1>4. /\ Claim(a, b, id, reward).wins = wins
      /\ Claim(a, b, id, reward).unrewarded = unrewarded
      /\ Claim(a, b, id, reward).counts = a.counts
      /\ Claim(a, b, id, reward).total = a.total
      /\ Claim(a, b, id, reward).rewarded = a.rewarded \cup {id}
  BY DEF Claim, Accounts
<1>5. Claim(a, b, id, reward) \in Accounts
  BY <1>1, <1>2, <1>3 DEF Claim, Accounts
<1> QED BY <1>0, <1>4, <1>5 DEF ClaimOf

LEMMA SelectedIs ==
  ASSUME NEW a \in Accounts
  PROVE  LET c == [a EXCEPT !.total = @ + 1] IN
         /\ c \in Accounts /\ c.total = a.total + 1
         /\ c.counts = a.counts /\ c.wins = a.wins
         /\ c.unrewarded = a.unrewarded /\ c.rewarded = a.rewarded
<1>1. [a EXCEPT !.total = @ + 1] =
        [counts |-> a.counts, wins |-> a.wins, total |-> a.total + 1,
         unrewarded |-> a.unrewarded, rewarded |-> a.rewarded]
  BY DEF Accounts
<1> QED BY <1>1 DEF Accounts

(***************************************************************************)
(* What a step does to the accounts: nothing, or it selects, counts or     *)
(* claims, in the ensemble's and in those of the roles concerned.          *)
(***************************************************************************)
Selects ==
  /\ pc = "select" /\ Accounted /\ UNCHANGED totalRecords
  /\ scheduler' = [scheduler EXCEPT !.total = @ + 1]
  /\ byRole' = [byRole EXCEPT ![call.role].total = @ + 1]

CountsWith(fresh) ==
  /\ pc = "attempt" /\ Accounted /\ totalRecords' = totalRecords + 1
  /\ fresh \in {{}, {totalRecords + 1}}
  /\ scheduler' = Counted(scheduler, call.backend, fresh)
  /\ byRole' = [byRole EXCEPT ![call.role] =
                  Counted(byRole[call.role], call.backend, fresh)]

Claims(b, id, reward) ==
  /\ UNCHANGED totalRecords
  /\ id \in scheduler.unrewarded[b]
  /\ scheduler' = Claim(scheduler, b, id, reward)
  /\ byRole' = ClaimByRole(b, id, reward)

SameAccounts ==
  /\ UNCHANGED <<scheduler, byRole>>
  /\ totalRecords' \in Nat /\ totalRecords' >= totalRecords

LEMMA Effect ==
  ASSUME TypeOK, [Next]_vars
  PROVE  \/ SameAccounts \/ Selects
         \/ \E fresh \in {{}, {totalRecords + 1}} : CountsWith(fresh)
         \/ \E b \in Backends, reward \in Nat :
              \E id \in Nat : Claims(b, id, reward)
<1>0. totalRecords \in Nat
  BY DEF TypeOK
<1>1. CASE UNCHANGED vars
  BY <1>0, <1>1 DEF vars, SameAccounts
<1>2. ASSUME NEW role \in Roles, RefuseCall(role) \/ BeginCall(role)
      PROVE  SameAccounts
  BY <1>0, <1>2 DEF RefuseCall, BeginCall, SameAccounts
<1>3. CASE SelectBackend
  BY <1>0, <1>3 DEF SelectBackend, AccountSelection, SameAccounts, Selects
<1>4. CASE NoEligibleBackend \/ RaiseLastException \/ InterruptAttempt
  BY <1>0, <1>4 DEF NoEligibleBackend, RaiseLastException, InterruptAttempt,
                    SameAccounts
<1>5. CASE AttemptFails
  BY <1>0, <1>5 DEF AttemptFails, AppendRecord, Account, SameAccounts, CountsWith
<1>6. CASE AttemptAnswers
  BY <1>0, <1>6 DEF AttemptAnswers, AppendRecord, Account, SameAccounts,
                    CountsWith, CallId
<1>7. ASSUME NEW b \in Backends, NEW reward \in Rewards,
             NEW id \in scheduler.unrewarded[b], RecordReward(b, id, reward)
      PROVE  Claims(b, id, reward) /\ id \in Nat /\ reward \in Nat
  <2>1. scheduler.unrewarded \in [Backends -> SUBSET Nat]
    BY DEF TypeOK, Accounts
  <2> QED BY <1>7, <2>1, Finite DEF RecordReward, Claims
<1> QED BY <1>1, <1>2, <1>3, <1>4, <1>5, <1>6, <1>7 DEF Next, Generate

LEMMA Parts ==
  ASSUME TypeOK
  PROVE  /\ scheduler \in Accounts /\ totalRecords \in Nat
         /\ scheduler.counts \in [Backends -> Nat]
         /\ scheduler.wins \in [Backends -> Nat] /\ scheduler.total \in Nat
         /\ scheduler.unrewarded \in [Backends -> SUBSET Nat]
         /\ scheduler.rewarded \in SUBSET Nat
         /\ \A r \in Roles :
              /\ byRole[r] \in Accounts
              /\ byRole[r].counts \in [Backends -> Nat]
              /\ byRole[r].wins \in [Backends -> Nat]
              /\ byRole[r].total \in Nat
              /\ byRole[r].unrewarded \in [Backends -> SUBSET Nat]
              /\ byRole[r].rewarded \in SUBSET Nat
         /\ byRole \in [Roles -> Accounts]
         /\ call.role \in Roles /\ call.backend \in Backends
  BY DEF TypeOK, Accounts, Call

LEMMA ListedStep ==
  ASSUME TypeOK, Listed, [Next]_vars
  PROVE  Listed'
<1>0. /\ scheduler \in Accounts /\ totalRecords \in Nat
      /\ scheduler.unrewarded \in [Backends -> SUBSET Nat]
      /\ scheduler.rewarded \in SUBSET Nat
      /\ call.backend \in Backends
  BY Parts
<1>1. CASE SameAccounts
  <2>1. \A id \in Nat : id <= totalRecords => id <= totalRecords'
    BY <1>0, <1>1 DEF SameAccounts, TypeOK
  <2> QED BY <1>0, <1>1, <2>1 DEF SameAccounts, Listed
<1>2. CASE Selects
  <2>1. /\ scheduler'.unrewarded = scheduler.unrewarded
        /\ scheduler'.rewarded = scheduler.rewarded
        /\ totalRecords' = totalRecords
    BY <1>0, <1>2, SelectedIs DEF Selects
  <2> QED BY <2>1 DEF Listed
<1>3. ASSUME NEW fresh \in {{}, {totalRecords + 1}}, CountsWith(fresh)
      PROVE  Listed'
  <2>1. /\ scheduler'.unrewarded =
             [scheduler.unrewarded EXCEPT
                ![call.backend] = scheduler.unrewarded[call.backend] \cup fresh]
        /\ scheduler'.rewarded = scheduler.rewarded
        /\ totalRecords' = totalRecords + 1
    <3>1. fresh \in SUBSET Nat
      BY <1>0
    <3> QED BY <1>0, <1>3, <3>1, CountedIs DEF CountsWith
  <2>2. \A id \in fresh : id = totalRecords + 1 /\ id \in Nat
    BY <1>0
  <2>3. \A b \in Backends :
          /\ scheduler'.unrewarded[b] =
               scheduler.unrewarded[b] \cup (IF b = call.backend THEN fresh ELSE {})
          /\ \A id \in scheduler.unrewarded[b] : id <= totalRecords /\ id \in Nat
    BY <1>0, <2>1 DEF Listed
  <2>4. \A b \in Backends : \A id \in scheduler'.unrewarded[b] : id <= totalRecords'
    BY <1>0, <2>1, <2>2, <2>3
  <2>5. \A b \in Backends :
          /\ scheduler'.unrewarded[b] \cap scheduler'.rewarded = {}
          /\ \A id \in scheduler.unrewarded[b] : id \notin fresh
    <3>1. \A id \in scheduler.rewarded : id \notin fresh
      BY <1>0, <2>2 DEF Listed
    <3>2. \A b \in Backends : \A id \in scheduler.unrewarded[b] : id \notin fresh
      BY <1>0, <2>2, <2>3
    <3> QED BY <2>1, <2>3, <3>1, <3>2 DEF Listed
  <2>6. \A b \in Backends : IsFiniteSet(scheduler'.unrewarded[b])
    <3>1. ASSUME NEW b \in Backends PROVE IsFiniteSet(scheduler'.unrewarded[b])
      <4>1. IsFiniteSet(scheduler.unrewarded[b])
        BY DEF Listed
      <4>2. IsFiniteSet(scheduler.unrewarded[b] \cup {totalRecords + 1})
        BY <4>1, FS_AddElement
      <4>3. \/ scheduler'.unrewarded[b] = scheduler.unrewarded[b]
            \/ scheduler'.unrewarded[b]
                 = scheduler.unrewarded[b] \cup {totalRecords + 1}
        BY <2>3
      <4> QED BY <4>1, <4>2, <4>3
    <3> QED BY <3>1
  <2>7. \A id \in scheduler'.rewarded : id <= totalRecords'
    BY <1>0, <2>1 DEF Listed
  <2>8. \A b, c \in Backends :
          b # c => scheduler'.unrewarded[b] \cap scheduler'.unrewarded[c] = {}
    BY <2>3, <2>5 DEF Listed
  <2> QED BY <2>4, <2>5, <2>6, <2>7, <2>8 DEF Listed
<1>4. ASSUME NEW b \in Backends, NEW reward \in Nat, NEW id \in Nat,
             Claims(b, id, reward)
      PROVE  Listed'
  <2>1. /\ scheduler'.unrewarded =
             [scheduler.unrewarded EXCEPT ![b] = scheduler.unrewarded[b] \ {id}]
        /\ scheduler'.rewarded = scheduler.rewarded \cup {id}
        /\ totalRecords' = totalRecords /\ id \in scheduler.unrewarded[b]
    <3>1. /\ scheduler' = Claim(scheduler, b, id, reward)
          /\ totalRecords' = totalRecords /\ id \in scheduler.unrewarded[b]
      BY <1>4 DEF Claims
    <3>2. ClaimOf(scheduler', scheduler, b, id, reward)
      BY <1>0, <3>1, ClaimIs
    <3> QED BY <3>1, <3>2 DEF ClaimOf
  <2>2. \A c \in Backends :
          scheduler'.unrewarded[c] =
            scheduler.unrewarded[c] \ (IF c = b THEN {id} ELSE {})
    BY <1>0, <2>1
  <2>3. \A c \in Backends : c # b => id \notin scheduler.unrewarded[c]
    BY <2>1 DEF Listed
  <2>4. \A c \in Backends :
          /\ \A i \in scheduler'.unrewarded[c] : i <= totalRecords'
          /\ scheduler'.unrewarded[c] \cap scheduler'.rewarded = {}
    BY <2>1, <2>2, <2>3 DEF Listed
  <2>5. \A c \in Backends : IsFiniteSet(scheduler'.unrewarded[c])
    BY <2>2, FS_Subset DEF Listed
  <2>6. /\ \A i \in scheduler'.rewarded : i <= totalRecords'
        /\ \A c, d \in Backends :
             c # d => scheduler'.unrewarded[c] \cap scheduler'.unrewarded[d] = {}
    BY <2>1, <2>2 DEF Listed
  <2> QED BY <2>4, <2>5, <2>6 DEF Listed
<1> QED BY <1>1, <1>2, <1>3, <1>4, Effect

(* What happens to what a role has.                                        *)
LEMMA RoleSelects ==
  ASSUME TypeOK, Selects, NEW r \in Roles
  PROVE  /\ byRole'[r].total =
              byRole[r].total + (IF r = call.role THEN 1 ELSE 0)
         /\ byRole'[r].counts = byRole[r].counts
         /\ byRole'[r].wins = byRole[r].wins
         /\ byRole'[r].unrewarded = byRole[r].unrewarded
         /\ byRole'[r].rewarded = byRole[r].rewarded
<1>0. byRole \in [Roles -> Accounts] /\ call.role \in Roles
      /\ call.backend \in Backends /\ \A q \in Roles : byRole[q] \in Accounts
  BY Parts
<1>1. CASE r = call.role
  <2>1. byRole'[r] = [byRole[r] EXCEPT !.total = @ + 1]
    BY <1>0, <1>1 DEF Selects
  <2> QED BY <1>0, <1>1, <2>1, SelectedIs
<1>2. CASE r # call.role
  <2>1. byRole'[r] = byRole[r]
    BY <1>0, <1>2 DEF Selects
  <2> QED BY <1>0, <1>2, <2>1 DEF Accounts
<1> QED BY <1>1, <1>2

LEMMA RoleCounts ==
  ASSUME TypeOK, NEW fresh \in {{}, {totalRecords + 1}}, CountsWith(fresh),
         NEW r \in Roles
  PROVE  /\ byRole'[r].total = byRole[r].total
         /\ byRole'[r].wins = byRole[r].wins
         /\ byRole'[r].rewarded = byRole[r].rewarded
         /\ r # call.role => byRole'[r] = byRole[r]
         /\ r = call.role =>
              /\ byRole'[r].counts =
                   [byRole[r].counts EXCEPT
                      ![call.backend] = byRole[r].counts[call.backend] + 1]
              /\ byRole'[r].unrewarded =
                   [byRole[r].unrewarded EXCEPT
                      ![call.backend] =
                         byRole[r].unrewarded[call.backend] \cup fresh]
<1>0. byRole \in [Roles -> Accounts] /\ call.role \in Roles
      /\ call.backend \in Backends /\ \A q \in Roles : byRole[q] \in Accounts
  BY Parts
<1>1. CASE r = call.role
  <2>1. byRole'[r] = Counted(byRole[r], call.backend, fresh)
    BY <1>0, <1>1 DEF CountsWith
  <2>2. fresh \in SUBSET Nat
    BY Parts
  <2>3. byRole[r] \in Accounts /\ call.backend \in Backends
    BY <1>0
  <2>4. LET c == Counted(byRole[r], call.backend, fresh) IN
        /\ c.counts = [byRole[r].counts EXCEPT
                         ![call.backend] = byRole[r].counts[call.backend] + 1]
        /\ c.unrewarded = [byRole[r].unrewarded EXCEPT
             ![call.backend] = byRole[r].unrewarded[call.backend] \cup fresh]
        /\ c.wins = byRole[r].wins /\ c.total = byRole[r].total
        /\ c.rewarded = byRole[r].rewarded
    BY <2>2, <2>3, CountedIs
  <2> QED BY <1>1, <2>1, <2>4
<1>2. CASE r # call.role
  <2>1. byRole'[r] = byRole[r]
    BY <1>0, <1>2 DEF CountsWith
  <2> QED BY <1>2, <2>1
<1> QED BY <1>1, <1>2

LEMMA RoleClaims ==
  ASSUME TypeOK, NEW b \in Backends, NEW reward \in Nat, NEW id \in Nat,
         Claims(b, id, reward), NEW r \in Roles
  PROVE  IF id \in byRole[r].unrewarded[b]
         THEN ClaimOf(byRole'[r], byRole[r], b, id, reward)
         ELSE byRole'[r] = byRole[r]
<1>0. byRole \in [Roles -> Accounts] /\ call.role \in Roles
      /\ call.backend \in Backends /\ \A q \in Roles : byRole[q] \in Accounts
  BY Parts
<1>1. byRole'[r] = IF id \in byRole[r].unrewarded[b]
                   THEN Claim(byRole[r], b, id, reward) ELSE byRole[r]
  BY DEF Claims, ClaimByRole
<1>2. byRole[r] \in Accounts
  BY <1>0
<1>3. ClaimOf(Claim(byRole[r], b, id, reward), byRole[r], b, id, reward)
  BY <1>2, ClaimIs
<1> QED BY <1>1, <1>3 DEF ClaimOf

(* And to what the ensemble has. *)
LEMMA SchedulerSelects ==
  ASSUME TypeOK, Selects
  PROVE  /\ scheduler'.total = scheduler.total + 1
         /\ scheduler'.counts = scheduler.counts
         /\ scheduler'.wins = scheduler.wins
         /\ scheduler'.unrewarded = scheduler.unrewarded
         /\ scheduler'.rewarded = scheduler.rewarded
<1>1. scheduler \in Accounts
  BY Parts
<1> QED BY <1>1, SelectedIs DEF Selects

LEMMA SchedulerCounts ==
  ASSUME TypeOK, NEW fresh \in {{}, {totalRecords + 1}}, CountsWith(fresh)
  PROVE  /\ scheduler'.total = scheduler.total
         /\ scheduler'.wins = scheduler.wins
         /\ scheduler'.rewarded = scheduler.rewarded
         /\ scheduler'.counts =
              [scheduler.counts EXCEPT
                 ![call.backend] = scheduler.counts[call.backend] + 1]
         /\ scheduler'.unrewarded =
              [scheduler.unrewarded EXCEPT
                 ![call.backend] = scheduler.unrewarded[call.backend] \cup fresh]
<1>1. scheduler \in Accounts /\ call.backend \in Backends /\ fresh \in SUBSET Nat
  BY Parts
<1> QED BY <1>1, CountedIs DEF CountsWith

LEMMA SchedulerClaims ==
  ASSUME TypeOK, NEW b \in Backends, NEW reward \in Nat, NEW id \in Nat,
         Claims(b, id, reward)
  PROVE  ClaimOf(scheduler', scheduler, b, id, reward)
<1>1. scheduler \in Accounts
  BY Parts
<1> QED BY <1>1, ClaimIs DEF Claims

LEMMA SharesStep ==
  ASSUME TypeOK, Listed, Shares, [Next]_vars
  PROVE  Shares'
<1>0. /\ scheduler.unrewarded \in [Backends -> SUBSET Nat]
      /\ \A r \in Roles : byRole[r].unrewarded \in [Backends -> SUBSET Nat]
      /\ call.backend \in Backends /\ call.role \in Roles /\ totalRecords \in Nat
  BY Parts
<1>1. CASE SameAccounts
  BY <1>1 DEF SameAccounts, Shares
<1>2. CASE Selects
  BY <1>2, SchedulerSelects, RoleSelects DEF Shares
<1>3. ASSUME NEW fresh \in {{}, {totalRecords + 1}}, CountsWith(fresh)
      PROVE  Shares'
  <2>1. \A b \in Backends :
          scheduler'.unrewarded[b] =
            scheduler.unrewarded[b] \cup (IF b = call.backend THEN fresh ELSE {})
    BY <1>0, <1>3, SchedulerCounts
  <2>2. \A r \in Roles, b \in Backends :
          byRole'[r].unrewarded[b] =
            byRole[r].unrewarded[b]
              \cup (IF r = call.role /\ b = call.backend THEN fresh ELSE {})
    <3>1. ASSUME NEW r \in Roles, NEW b \in Backends, r = call.role
          PROVE  byRole'[r].unrewarded[b] =
                   byRole[r].unrewarded[b]
                     \cup (IF b = call.backend THEN fresh ELSE {})
      <4>1. byRole'[r].unrewarded =
              [byRole[r].unrewarded EXCEPT
                 ![call.backend] = byRole[r].unrewarded[call.backend] \cup fresh]
        BY <1>3, <3>1, RoleCounts
      <4> QED BY <1>0, <4>1
    <3>2. ASSUME NEW r \in Roles, r # call.role
          PROVE  byRole'[r].unrewarded = byRole[r].unrewarded
      BY <1>3, <3>2, RoleCounts
    <3> QED BY <3>1, <3>2
  <2>3. scheduler'.rewarded = UNION {byRole'[r].rewarded : r \in Roles}
    <3>1. /\ scheduler'.rewarded = scheduler.rewarded
          /\ \A r \in Roles : byRole'[r].rewarded = byRole[r].rewarded
      BY <1>3, SchedulerCounts, RoleCounts
    <3> QED BY <3>1 DEF Shares
  <2>4. \A b \in Backends :
          scheduler'.unrewarded[b] = UNION {byRole'[r].unrewarded[b] : r \in Roles}
    BY <1>0, <2>1, <2>2 DEF Shares
  <2>5. \A b \in Backends : \A i \in scheduler.unrewarded[b] : i \notin fresh
    BY <1>0 DEF Listed
  <2>6. \A r \in Roles, b \in Backends :
          byRole[r].unrewarded[b] \subseteq scheduler.unrewarded[b]
    BY DEF Shares
  <2>7. \A r, q \in Roles, b \in Backends :
          r # q => byRole'[r].unrewarded[b] \cap byRole'[q].unrewarded[b] = {}
    BY <2>2, <2>5, <2>6 DEF Shares
  <2> QED BY <2>3, <2>4, <2>7 DEF Shares
<1>4. ASSUME NEW b \in Backends, NEW reward \in Nat, NEW id \in Nat,
             Claims(b, id, reward)
      PROVE  Shares'
  <2>1. \A c \in Backends :
          scheduler'.unrewarded[c] =
            scheduler.unrewarded[c] \ (IF c = b THEN {id} ELSE {})
    <3>1. scheduler'.unrewarded =
            [scheduler.unrewarded EXCEPT ![b] = scheduler.unrewarded[b] \ {id}]
      BY <1>4, SchedulerClaims DEF ClaimOf
    <3> QED BY <1>0, <3>1
  <2>2. scheduler'.rewarded = scheduler.rewarded \cup {id}
    BY <1>4, SchedulerClaims DEF ClaimOf
  <2>3. ASSUME NEW r \in Roles
        PROVE  /\ \A c \in Backends :
                    byRole'[r].unrewarded[c] =
                      byRole[r].unrewarded[c] \ (IF c = b THEN {id} ELSE {})
               /\ byRole'[r].rewarded = byRole[r].rewarded \cup
                    (IF id \in byRole[r].unrewarded[b] THEN {id} ELSE {})
    <3>1. CASE id \in byRole[r].unrewarded[b]
      <4>1. /\ byRole'[r].unrewarded =
                 [byRole[r].unrewarded EXCEPT ![b] = byRole[r].unrewarded[b] \ {id}]
            /\ byRole'[r].rewarded = byRole[r].rewarded \cup {id}
        BY <1>4, <3>1, RoleClaims DEF ClaimOf
      <4> QED BY <1>0, <3>1, <4>1
    <3>2. CASE id \notin byRole[r].unrewarded[b]
      <4>1. byRole'[r] = byRole[r]
        BY <1>4, <3>2, RoleClaims
      <4> QED BY <3>2, <4>1
    <3> QED BY <3>1, <3>2
  <2>4. \E r \in Roles : id \in byRole[r].unrewarded[b]
    BY <1>4 DEF Claims, Shares
  <2>5. scheduler'.rewarded = UNION {byRole'[r].rewarded : r \in Roles}
    BY <2>2, <2>3, <2>4 DEF Shares
  <2>6. \A c \in Backends :
          scheduler'.unrewarded[c] = UNION {byRole'[r].unrewarded[c] : r \in Roles}
    BY <2>1, <2>3 DEF Shares
  <2>7. \A r, q \in Roles, c \in Backends :
          r # q => byRole'[r].unrewarded[c] \cap byRole'[q].unrewarded[c] = {}
    BY <2>3 DEF Shares
  <2> QED BY <2>5, <2>6, <2>7 DEF Shares
<1> QED BY <1>1, <1>2, <1>3, <1>4, Effect

(***************************************************************************)
(* The totals.                                                             *)
(***************************************************************************)
LEMMA RunningType ==
  /\ Running \in {0, 1}
  /\ Running = 1 <=> pc = "attempt" /\ Accounted
  BY DEF Running

Course ==
  \/ /\ SameAccounts \/ \E b \in Backends, reward \in Nat :
                           \E id \in Nat : Claims(b, id, reward)
     /\ Running' <= Running /\ faults' >= faults + Running - Running'
     /\ Running' = 1 => call'.role = call.role
  \/ /\ Selects
     /\ Running = 0 /\ Running' = 1 /\ call'.role = call.role
     /\ faults' = faults
  \/ /\ \E fresh \in {{}, {totalRecords + 1}} : CountsWith(fresh)
     /\ Running = 1 /\ Running' = 0 /\ faults' >= faults

LEMMA CourseStep ==
  ASSUME TypeOK, [Next]_vars
  PROVE  Course /\ faults' \in Nat
<1>0. totalRecords \in Nat /\ faults \in Nat /\ call \in Call
  BY DEF TypeOK
<1> USE DEF Course, Running, Accounted
<1>1. CASE UNCHANGED vars
  BY <1>0, <1>1 DEF vars, SameAccounts
<1>2. ASSUME NEW role \in Roles, RefuseCall(role) \/ BeginCall(role)
      PROVE  Course /\ faults' \in Nat
  BY <1>0, <1>2 DEF RefuseCall, BeginCall, SameAccounts
<1>3. CASE SelectBackend
  <2>1. call'.role = call.role /\ faults' = faults /\ pc = "select" /\ pc' = "attempt"
    BY <1>0, <1>3 DEF SelectBackend, Call
  <2>2. (SameAccounts /\ ~Accounted) \/ Selects
    BY <1>0, <1>3 DEF SelectBackend, AccountSelection, SameAccounts, Selects
  <2> QED BY <1>0, <2>1, <2>2 DEF Selects
<1>4. CASE NoEligibleBackend \/ RaiseLastException
  BY <1>0, <1>4 DEF NoEligibleBackend, RaiseLastException, SameAccounts
<1>5. CASE InterruptAttempt
  BY <1>0, <1>5 DEF InterruptAttempt, SameAccounts
<1>6. CASE AttemptFails
  <2>1. /\ call'.role = call.role /\ pc = "attempt"
        /\ totalRecords' = totalRecords + 1
        /\ \/ pc' \in {"attempt", "select"} /\ faults' = faults
           \/ pc' = "idle" /\ faults' = faults + 1
        /\ pc' = "attempt" => WillRetry
    BY <1>0, <1>6 DEF AttemptFails, AppendRecord, Call
  <2>2. CASE WillRetry
    <3>1. SameAccounts /\ pc' # "select"
      BY <1>0, <1>6, <2>1, <2>2 DEF AttemptFails, SameAccounts
    <3> QED BY <1>0, <2>1, <3>1
  <2>3. CASE ~WillRetry
    <3>1. IF Accounted THEN CountsWith({}) ELSE SameAccounts
      BY <1>0, <1>6, <2>1, <2>3 DEF AttemptFails, Account, CountsWith, SameAccounts
    <3> QED BY <1>0, <2>1, <2>3, <3>1
  <2> QED BY <2>2, <2>3
<1>7. CASE AttemptAnswers
  <2>1. /\ pc = "attempt" /\ pc' = "idle" /\ totalRecords' = totalRecords + 1
        /\ faults' \in {faults, faults + 1}
    BY <1>0, <1>7 DEF AttemptAnswers, AppendRecord
  <2>2. IF Accounted THEN \E fresh \in {{}, {totalRecords + 1}} : CountsWith(fresh)
                     ELSE SameAccounts
    BY <1>0, <1>7, <2>1
    DEF AttemptAnswers, Account, CountsWith, SameAccounts, CallId
  <2> QED BY <1>0, <2>1, <2>2
<1>8. ASSUME NEW b \in Backends, NEW reward \in Rewards,
             NEW id \in scheduler.unrewarded[b], RecordReward(b, id, reward)
      PROVE  Course /\ faults' \in Nat
  <2>1. scheduler.unrewarded \in [Backends -> SUBSET Nat] /\ reward \in Nat
    BY Parts, Finite
  <2>2. Claims(b, id, reward) /\ id \in Nat
    BY <1>8, <2>1 DEF RecordReward, Claims
  <2>3. pc = "idle" /\ pc' = "idle" /\ faults' \in {faults, faults + 1}
    BY <1>8 DEF RecordReward
  <2> QED BY <1>0, <2>1, <2>2, <2>3
<1> QED BY <1>1, <1>2, <1>3, <1>4, <1>5, <1>6, <1>7, <1>8 DEF Next, Generate

(* One more call of one backend. *)
LEMMA SumOneMore ==
  ASSUME NEW c \in [Backends -> Nat], NEW b \in Backends
  PROVE  /\ Sum(c, Backends) \in Nat
         /\ Sum([c EXCEPT ![b] = c[b] + 1], Backends) = Sum(c, Backends) + 1
<1> DEFINE h == [c EXCEPT ![b] = c[b] + 1]
<1>1. PICK d \in Int : d = 1
  OBVIOUS
<1>2. NatOn(c, Backends) /\ NatOn(h, Backends) /\ DiffersAt(c, h, Backends, b, d)
  BY <1>1 DEF NatOn, DiffersAt
<1> HIDE DEF h
<1>3. Sum(h, Backends) = Sum(c, Backends) + (IF b \in Backends THEN d ELSE 0)
      /\ Sum(c, Backends) \in Nat
  BY <1>2, Finite, SumChanges
<1> QED BY <1>1, <1>3 DEF h

LEMMA TotalledStep ==
  ASSUME TypeOK, Totalled, [Next]_vars
  PROVE  Totalled'
<1>0. /\ scheduler.counts \in [Backends -> Nat] /\ scheduler.total \in Nat
      /\ \A r \in Roles : byRole[r].counts \in [Backends -> Nat]
                          /\ byRole[r].total \in Nat
      /\ call.backend \in Backends /\ call.role \in Roles
      /\ faults \in Nat /\ faults' \in Nat
      /\ Running \in {0, 1} /\ Running' \in {0, 1}
  BY Parts, CourseStep DEF TypeOK, Running
<1>1. /\ Sum(scheduler.counts, Backends) \in Nat
      /\ \A r \in Roles : Sum(byRole[r].counts, Backends) \in Nat
  BY <1>0, Finite, SumType DEF NatOn
<1>2. ASSUME SameAccounts \/ \E b \in Backends, reward \in Nat :
                               \E id \in Nat : Claims(b, id, reward),
             Running' <= Running, faults' >= faults + Running - Running',
             Running' = 1 => call'.role = call.role
      PROVE  Totalled'
  <2>1. /\ scheduler'.counts = scheduler.counts
        /\ scheduler'.total = scheduler.total
        /\ \A r \in Roles : /\ byRole'[r].counts = byRole[r].counts
                            /\ byRole'[r].total = byRole[r].total
    <3>1. CASE SameAccounts
      BY <3>1 DEF SameAccounts
    <3>2. ASSUME NEW b \in Backends, NEW reward \in Nat, NEW id \in Nat,
                 Claims(b, id, reward)
          PROVE  /\ scheduler'.counts = scheduler.counts
                 /\ scheduler'.total = scheduler.total
                 /\ \A r \in Roles : /\ byRole'[r].counts = byRole[r].counts
                                     /\ byRole'[r].total = byRole[r].total
      BY <3>2, SchedulerClaims, RoleClaims DEF ClaimOf
    <3> QED BY <1>2, <3>1, <3>2
  <2>2. \A r : RunningFor(r)' <= RunningFor(r) /\ RunningFor(r) \in {0, 1}
               /\ RunningFor(r)' \in {0, 1}
    BY <1>0, <1>2 DEF RunningFor
  <2>3. \A r \in Roles :
          Sum(byRole'[r].counts, Backends) + RunningFor(r)' <= byRole'[r].total
    BY <1>0, <1>1, <2>1, <2>2 DEF Totalled
  <2>4. /\ Sum(scheduler.counts, Backends) + Running <= scheduler.total
        /\ scheduler.total <= Sum(scheduler.counts, Backends) + Running + faults
    BY DEF Totalled
  <2>5. /\ Sum(scheduler.counts, Backends) + Running' <= scheduler.total
        /\ scheduler.total <= Sum(scheduler.counts, Backends) + Running' + faults'
    BY <1>0, <1>1, <1>2, <2>4
  <2> QED BY <2>1, <2>3, <2>5 DEF Totalled
<1>3. ASSUME Selects, Running = 0, Running' = 1, call'.role = call.role,
             faults' = faults
      PROVE  Totalled'
  <2>1. \A r : RunningFor(r) = 0 /\ RunningFor(r)' = IF r = call.role THEN 1 ELSE 0
    BY <1>3 DEF RunningFor
  <2>2. \A r \in Roles :
          Sum(byRole'[r].counts, Backends) + RunningFor(r)' <= byRole'[r].total
    BY <1>0, <1>1, <1>3, <2>1, RoleSelects DEF Totalled
  <2> QED BY <1>0, <1>1, <1>3, <2>2, SchedulerSelects DEF Totalled
<1>4. ASSUME NEW fresh \in {{}, {totalRecords + 1}}, CountsWith(fresh),
             Running = 1, Running' = 0, faults' >= faults
      PROVE  Totalled'
  <2>1. /\ scheduler'.total = scheduler.total
        /\ Sum(scheduler'.counts, Backends) = Sum(scheduler.counts, Backends) + 1
    BY <1>0, <1>4, SchedulerCounts, SumOneMore
  <2>2. \A r : RunningFor(r)' = 0 /\ RunningFor(r) = IF r = call.role THEN 1 ELSE 0
    BY <1>4 DEF RunningFor
  <2>3. ASSUME NEW r \in Roles
        PROVE  Sum(byRole'[r].counts, Backends) + RunningFor(r)' <= byRole'[r].total
    <3>1. byRole'[r].total = byRole[r].total
      BY <1>4, RoleCounts
    <3>2. CASE r = call.role
      <4>1. byRole'[r].counts =
              [byRole[r].counts EXCEPT
                 ![call.backend] = byRole[r].counts[call.backend] + 1]
        BY <1>4, <3>2, RoleCounts
      <4>2. Sum(byRole'[r].counts, Backends) = Sum(byRole[r].counts, Backends) + 1
        BY <1>0, <4>1, SumOneMore
      <4> QED BY <1>0, <1>1, <2>2, <3>1, <3>2, <4>2 DEF Totalled
    <3>3. CASE r # call.role
      <4>1. byRole'[r] = byRole[r]
        BY <1>4, <3>3, RoleCounts
      <4> QED BY <1>0, <1>1, <2>2, <3>3, <4>1 DEF Totalled
    <3> QED BY <3>2, <3>3
  <2> QED BY <1>0, <1>1, <1>4, <2>1, <2>3 DEF Totalled
<1> QED BY <1>2, <1>3, <1>4, CourseStep DEF Course

LEMMA RoleSum ==
  ASSUME NEW f, NEW h, NatOn(f, Roles), NatOn(h, Roles),
         NEW r \in Roles, NEW d \in Nat, DiffersAt(f, h, Roles, r, d)
  PROVE  Sum(f, Roles) \in Nat /\ Sum(h, Roles) = Sum(f, Roles) + d
<1>1. d \in Int
  OBVIOUS
<1>2. /\ Sum(f, Roles) \in Nat
      /\ Sum(h, Roles) = Sum(f, Roles) + (IF r \in Roles THEN d ELSE 0)
  BY <1>1, Finite, SumChanges
<1> QED BY <1>2

LEMMA AddUpStep ==
  ASSUME TypeOK, TypeOK', Listed, Shares, AddUp, [Next]_vars
  PROVE  AddUp'
<1> DEFINE Nats(t, c, w) ==
      NatOn(t, Roles) /\ \A b \in Backends : NatOn(c[b], Roles) /\ NatOn(w[b], Roles)
<1>0. /\ scheduler.counts \in [Backends -> Nat] /\ scheduler.total \in Nat
      /\ scheduler.wins \in [Backends -> Nat]
      /\ scheduler'.counts \in [Backends -> Nat] /\ scheduler'.total \in Nat
      /\ scheduler'.wins \in [Backends -> Nat]
      /\ \A r \in Roles : /\ byRole[r].counts \in [Backends -> Nat]
                          /\ byRole[r].wins \in [Backends -> Nat]
                          /\ byRole[r].total \in Nat
                          /\ byRole'[r].counts \in [Backends -> Nat]
                          /\ byRole'[r].wins \in [Backends -> Nat]
                          /\ byRole'[r].total \in Nat
      /\ call.backend \in Backends /\ call.role \in Roles
  BY Parts DEF TypeOK, Accounts
<1>1. /\ NatOn(Totals, Roles) /\ NatOn(Totals', Roles)
      /\ \A b \in Backends : /\ NatOn(Counts(b), Roles) /\ NatOn(Counts(b)', Roles)
                             /\ NatOn(Wins(b), Roles) /\ NatOn(Wins(b)', Roles)
  BY <1>0 DEF NatOn, Totals, Counts, Wins
<1>2. /\ (\A r \in Roles : byRole'[r].total = byRole[r].total) => Totals' = Totals
      /\ (\A r \in Roles : byRole'[r].counts = byRole[r].counts)
           => \A b \in Backends : Counts(b)' = Counts(b)
      /\ (\A r \in Roles : byRole'[r].wins = byRole[r].wins)
           => \A b \in Backends : Wins(b)' = Wins(b)
  BY DEF Totals, Counts, Wins
<1>3. CASE SameAccounts
  BY <1>2, <1>3 DEF SameAccounts, AddUp
<1>4. CASE Selects
  <2>1. /\ \A b \in Backends : Counts(b)' = Counts(b) /\ Wins(b)' = Wins(b)
        /\ scheduler'.counts = scheduler.counts /\ scheduler'.wins = scheduler.wins
        /\ scheduler'.total = scheduler.total + 1
    BY <1>2, <1>4, SchedulerSelects, RoleSelects
  <2>2. DiffersAt(Totals, Totals', Roles, call.role, 1)
    BY <1>4, RoleSelects DEF DiffersAt, Totals
  <2>3. Sum(Totals', Roles) = Sum(Totals, Roles) + 1
    BY <1>0, <1>1, <2>2, RoleSum
  <2> QED BY <2>1, <2>3 DEF AddUp
<1>5. ASSUME NEW fresh \in {{}, {totalRecords + 1}}, CountsWith(fresh)
      PROVE  AddUp'
  <2>1. /\ Totals' = Totals /\ \A b \in Backends : Wins(b)' = Wins(b)
        /\ scheduler'.total = scheduler.total /\ scheduler'.wins = scheduler.wins
    BY <1>2, <1>5, SchedulerCounts, RoleCounts
  <2>2. ASSUME NEW b \in Backends
        PROVE  scheduler'.counts[b] = Sum(Counts(b)', Roles)
    <3>1. scheduler'.counts[b] =
            scheduler.counts[b] + (IF b = call.backend THEN 1 ELSE 0)
      <4>1. scheduler'.counts =
              [scheduler.counts EXCEPT
                 ![call.backend] = scheduler.counts[call.backend] + 1]
        BY <1>5, SchedulerCounts
      <4> QED BY <1>0, <4>1
    <3>2. PICK d \in Nat : d = IF b = call.backend THEN 1 ELSE 0
      OBVIOUS
    <3>3. ASSUME NEW r \in Roles
          PROVE  byRole'[r].counts[b] =
                   byRole[r].counts[b] + (IF r = call.role THEN d ELSE 0)
      <4>1. CASE r = call.role
        <5>1. byRole'[r].counts =
                [byRole[r].counts EXCEPT
                   ![call.backend] = byRole[r].counts[call.backend] + 1]
          BY <1>5, <4>1, RoleCounts
        <5> QED BY <1>0, <3>2, <4>1, <5>1
      <4>2. CASE r # call.role
        <5>1. byRole'[r] = byRole[r]
          BY <1>5, <4>2, RoleCounts
        <5> QED BY <1>0, <4>2, <5>1
      <4> QED BY <4>1, <4>2
    <3>4. DiffersAt(Counts(b), Counts(b)', Roles, call.role, d)
      BY <3>3 DEF DiffersAt, Counts
    <3>5. Sum(Counts(b)', Roles) = Sum(Counts(b), Roles) + d
      BY <1>0, <1>1, <3>4, RoleSum
    <3> QED BY <3>1, <3>2, <3>5 DEF AddUp
  <2> QED BY <2>1, <2>2 DEF AddUp
<1>6. ASSUME NEW b \in Backends, NEW reward \in Nat, NEW id \in Nat,
             Claims(b, id, reward)
      PROVE  AddUp'
  <2>1. /\ scheduler'.counts = scheduler.counts /\ scheduler'.total = scheduler.total
        /\ scheduler'.wins = [scheduler.wins EXCEPT
                               ![b] = scheduler.wins[b] + Applied(reward)]
        /\ Applied(reward) \in {0, 1}
    BY <1>6, SchedulerClaims DEF ClaimOf
  <2>2. \A r \in Roles : byRole'[r].counts = byRole[r].counts
                         /\ byRole'[r].total = byRole[r].total
    BY <1>6, RoleClaims DEF ClaimOf
  <2>3. PICK q \in Roles : id \in byRole[q].unrewarded[b]
    BY <1>6 DEF Claims, Shares
  <2>4. \A r \in Roles : r # q => id \notin byRole[r].unrewarded[b]
    BY <2>3 DEF Shares
  <2>5. ASSUME NEW c \in Backends
        PROVE  scheduler'.wins[c] = Sum(Wins(c)', Roles)
    <3>1. PICK d \in Nat : d = IF c = b THEN Applied(reward) ELSE 0
      BY <2>1
    <3>2. scheduler'.wins[c] = scheduler.wins[c] + d
      BY <1>0, <2>1, <3>1
    <3>3. ASSUME NEW r \in Roles
          PROVE  byRole'[r].wins[c] = byRole[r].wins[c] + (IF r = q THEN d ELSE 0)
      <4>1. CASE r = q
        <5>1. byRole'[r].wins = [byRole[r].wins EXCEPT
                                  ![b] = byRole[r].wins[b] + Applied(reward)]
          BY <1>6, <2>3, <4>1, RoleClaims DEF ClaimOf
        <5> QED BY <1>0, <2>1, <3>1, <4>1, <5>1
      <4>2. CASE r # q
        <5>1. byRole'[r] = byRole[r]
          BY <1>6, <2>4, <4>2, RoleClaims
        <5> QED BY <1>0, <4>2, <5>1
      <4> QED BY <4>1, <4>2
    <3>4. DiffersAt(Wins(c), Wins(c)', Roles, q, d)
      BY <3>3 DEF DiffersAt, Wins
    <3>5. Sum(Wins(c)', Roles) = Sum(Wins(c), Roles) + d
      BY <1>1, <3>4, RoleSum
    <3> QED BY <3>2, <3>5 DEF AddUp
  <2> QED BY <1>2, <2>1, <2>2, <2>5 DEF AddUp
<1> QED BY <1>3, <1>4, <1>5, <1>6, Effect

LEMMA OneRewardStep ==
  ASSUME TypeOK, Listed, OneRewardPerCall, [Next]_vars
  PROVE  OneRewardPerCall'
<1>0. /\ scheduler.counts \in [Backends -> Nat]
      /\ scheduler.wins \in [Backends -> Nat]
      /\ scheduler.unrewarded \in [Backends -> SUBSET Nat]
      /\ call.backend \in Backends /\ totalRecords \in Nat
  BY Parts
<1>1. \A b \in Backends : /\ IsFiniteSet(scheduler.unrewarded[b])
                          /\ Cardinality(scheduler.unrewarded[b]) \in Nat
  BY FS_CardinalityType DEF Listed
<1>2. \A b \in Backends :
        scheduler.wins[b] + Cardinality(scheduler.unrewarded[b])
          <= scheduler.counts[b]
  BY <1>0, <1>1 DEF OneRewardPerCall, MAX_REWARD
<1>3. SUFFICES ASSUME NEW b \in Backends
               PROVE  /\ scheduler'.wins[b] + Cardinality(scheduler'.unrewarded[b])
                           <= scheduler'.counts[b]
                      /\ Cardinality(scheduler'.unrewarded[b]) \in Nat
                      /\ scheduler'.counts[b] \in Nat
  BY DEF OneRewardPerCall, MAX_REWARD
<1>4. CASE SameAccounts
  BY <1>0, <1>1, <1>2, <1>4 DEF SameAccounts
<1>5. CASE Selects
  BY <1>0, <1>1, <1>2, <1>5, SchedulerSelects
<1>6. ASSUME NEW fresh \in {{}, {totalRecords + 1}}, CountsWith(fresh)
      PROVE  /\ scheduler'.wins[b] + Cardinality(scheduler'.unrewarded[b])
                  <= scheduler'.counts[b]
             /\ Cardinality(scheduler'.unrewarded[b]) \in Nat
             /\ scheduler'.counts[b] \in Nat
  <2>1. /\ scheduler'.wins[b] = scheduler.wins[b]
        /\ scheduler'.counts[b] =
             scheduler.counts[b] + (IF b = call.backend THEN 1 ELSE 0)
        /\ scheduler'.unrewarded[b] = scheduler.unrewarded[b]
             \cup (IF b = call.backend THEN fresh ELSE {})
    <3>1. /\ scheduler'.wins = scheduler.wins
          /\ scheduler'.counts =
               [scheduler.counts EXCEPT
                  ![call.backend] = scheduler.counts[call.backend] + 1]
          /\ scheduler'.unrewarded =
               [scheduler.unrewarded EXCEPT
                  ![call.backend] = scheduler.unrewarded[call.backend] \cup fresh]
      BY <1>6, SchedulerCounts
    <3>2. scheduler'.counts[b] =
            scheduler.counts[b] + (IF b = call.backend THEN 1 ELSE 0)
      BY <1>0, <3>1
    <3>3. scheduler'.unrewarded[b] = scheduler.unrewarded[b]
            \cup (IF b = call.backend THEN fresh ELSE {})
      BY <1>0, <3>1
    <3> QED BY <3>1, <3>2, <3>3
  <2>2. Cardinality(scheduler.unrewarded[b] \cup {totalRecords + 1})
          = Cardinality(scheduler.unrewarded[b]) + 1
    <3>1. totalRecords + 1 \notin scheduler.unrewarded[b]
      BY <1>0 DEF Listed
    <3> QED BY <1>1, <3>1, FS_AddElement
  <2>3. CASE b = call.backend /\ fresh = {totalRecords + 1}
    BY <1>0, <1>1, <1>2, <2>1, <2>2, <2>3
  <2>4. CASE b # call.backend \/ fresh = {}
    <3>1. scheduler'.unrewarded[b] = scheduler.unrewarded[b]
      BY <2>1, <2>4
    <3>2. scheduler'.counts[b] \in Nat /\ scheduler'.counts[b] >= scheduler.counts[b]
      BY <1>0, <2>1
    <3>3. /\ scheduler.wins[b] \in Nat /\ scheduler.counts[b] \in Nat
          /\ scheduler'.wins[b] = scheduler.wins[b]
      BY <1>0, <2>1
    <3> QED BY <1>1, <1>2, <3>1, <3>2, <3>3
  <2> QED BY <2>3, <2>4
<1>7. ASSUME NEW c \in Backends, NEW reward \in Nat, NEW id \in Nat,
             Claims(c, id, reward)
      PROVE  /\ scheduler'.wins[b] + Cardinality(scheduler'.unrewarded[b])
                  <= scheduler'.counts[b]
             /\ Cardinality(scheduler'.unrewarded[b]) \in Nat
             /\ scheduler'.counts[b] \in Nat
  <2>1. ClaimOf(scheduler', scheduler, c, id, reward) /\ id \in scheduler.unrewarded[c]
    BY <1>7, SchedulerClaims DEF Claims
  <2>2. CASE b = c
    <3>1. /\ scheduler'.wins[b] = scheduler.wins[b] + Applied(reward)
          /\ scheduler'.unrewarded[b] = scheduler.unrewarded[b] \ {id}
          /\ scheduler'.counts[b] = scheduler.counts[b]
          /\ Applied(reward) \in {0, 1}
      BY <1>0, <2>1, <2>2 DEF ClaimOf
    <3>2. Cardinality(scheduler.unrewarded[b] \ {id})
            = Cardinality(scheduler.unrewarded[b]) - 1
          /\ Cardinality(scheduler.unrewarded[b] \ {id}) \in Nat
      BY <1>1, <2>1, <2>2, FS_RemoveElement, FS_CardinalityType
    <3> QED BY <1>0, <1>1, <1>2, <3>1, <3>2
  <2>3. CASE b # c
    <3>1. /\ scheduler'.wins[b] = scheduler.wins[b]
          /\ scheduler'.unrewarded[b] = scheduler.unrewarded[b]
          /\ scheduler'.counts[b] = scheduler.counts[b]
      BY <1>0, <2>1, <2>3 DEF ClaimOf
    <3> QED BY <1>0, <1>1, <1>2, <3>1
  <2> QED BY <2>2, <2>3
<1> QED BY <1>4, <1>5, <1>6, <1>7, Effect

(***************************************************************************)
(* Types.                                                                  *)
(***************************************************************************)
LEMMA AccountsType ==
  ASSUME TypeOK, [Next]_vars
  PROVE  scheduler' \in Accounts /\ byRole' \in [Roles -> Accounts]
<1>0. /\ scheduler \in Accounts /\ byRole \in [Roles -> Accounts]
      /\ \A r \in Roles : byRole[r] \in Accounts
      /\ call.backend \in Backends /\ call.role \in Roles
      /\ \A fresh \in {{}, {totalRecords + 1}} : fresh \in SUBSET Nat
  BY Parts
<1>1. CASE SameAccounts
  BY <1>0, <1>1 DEF SameAccounts
<1>2. CASE Selects
  <2>1. [scheduler EXCEPT !.total = @ + 1] \in Accounts
        /\ [byRole[call.role] EXCEPT !.total = @ + 1] \in Accounts
    BY <1>0, SelectedIs
  <2>2. byRole' = [byRole EXCEPT ![call.role] =
                    [byRole[call.role] EXCEPT !.total = @ + 1]]
    BY <1>2 DEF Selects
  <2> QED BY <1>0, <1>2, <2>1, <2>2 DEF Selects
<1>3. ASSUME NEW fresh \in {{}, {totalRecords + 1}}, CountsWith(fresh)
      PROVE  scheduler' \in Accounts /\ byRole' \in [Roles -> Accounts]
  <2>1. /\ Counted(scheduler, call.backend, fresh) \in Accounts
        /\ Counted(byRole[call.role], call.backend, fresh) \in Accounts
    BY <1>0, CountedIs
  <2> QED BY <1>0, <1>3, <2>1 DEF CountsWith
<1>4. ASSUME NEW b \in Backends, NEW reward \in Nat, NEW id \in Nat,
             Claims(b, id, reward)
      PROVE  scheduler' \in Accounts /\ byRole' \in [Roles -> Accounts]
  <2>1. Claim(scheduler, b, id, reward) \in Accounts
        /\ \A r \in Roles : Claim(byRole[r], b, id, reward) \in Accounts
    BY <1>0, ClaimIs DEF ClaimOf
  <2> QED BY <1>0, <1>4, <2>1 DEF Claims, ClaimByRole
<1> QED BY <1>1, <1>2, <1>3, <1>4, Effect

NewRecord(ok) ==
  [id |-> CallId, role |-> call.role, backend |-> call.backend, ok |-> ok,
   rewarded |-> FALSE]

(* The window after one more record. *)
LEMMA WindowIs ==
  ASSUME TypeOK, NEW ok \in BOOLEAN, AppendRecord(ok)
  PROVE  /\ totalRecords' = totalRecords + 1 /\ totalRecords' \in Nat
         /\ history' \in Seq(Record) /\ NewRecord(ok) \in Record
         /\ \E drop \in {0, 1} :
              /\ drop = 1 <=> Len(history) + 1 > MaxCallHistory
              /\ Len(history') = Len(history) + 1 - drop
              /\ \A i \in 1 .. Len(history') :
                   history'[i] = IF i + drop = Len(history) + 1
                                 THEN NewRecord(ok) ELSE history[i + drop]
<1> DEFINE new == NewRecord(ok)
           s == Append(history, new)
<1>1. /\ new \in Record /\ history \in Seq(Record) /\ totalRecords \in Nat
      /\ Len(history) \in Nat
  BY Parts DEF TypeOK, Record, CallId, NewRecord
<1>2. totalRecords' = totalRecords + 1 /\ history' = Window(s)
  BY DEF AppendRecord, NewRecord
<1> HIDE DEF new
<1>3. /\ s \in Seq(Record) /\ Len(s) = Len(history) + 1
      /\ \A i \in 1 .. Len(s) :
           s[i] = IF i = Len(history) + 1 THEN new ELSE history[i]
  BY <1>1
<1> HIDE DEF s
<1>4. \E drop \in {0, 1} :
        /\ drop = 1 <=> Len(history) + 1 > MaxCallHistory
        /\ history' \in Seq(Record) /\ Len(history') = Len(history) + 1 - drop
        /\ \A i \in 1 .. Len(history') : history'[i] = s[i + drop]
  <2>1. CASE Len(history) + 1 > MaxCallHistory
    <3>1. history' = Tail(s)
      BY <1>2, <1>3, <2>1 DEF Window
    <3>2. /\ Tail(s) \in Seq(Record) /\ Len(Tail(s)) = Len(s) - 1
          /\ \A i \in 1 .. (Len(s) - 1) : Tail(s)[i] = s[i + 1]
      <4>1. s # << >>
        BY <1>1, <1>3
      <4> QED BY <1>3, <4>1
    <3> QED BY <1>1, <1>3, <2>1, <3>1, <3>2
  <2>2. CASE ~(Len(history) + 1 > MaxCallHistory)
    <3>1. history' = s
      BY <1>2, <1>3, <2>2 DEF Window
    <3>2. \A i \in 1 .. Len(s) : s[i] = s[i + 0]
      OBVIOUS
    <3> QED BY <1>1, <1>3, <2>2, <3>1, <3>2
  <2> QED BY <2>1, <2>2
<1>5. PICK drop \in {0, 1} :
        /\ drop = 1 <=> Len(history) + 1 > MaxCallHistory
        /\ history' \in Seq(Record) /\ Len(history') = Len(history) + 1 - drop
        /\ \A i \in 1 .. Len(history') : history'[i] = s[i + drop]
  BY <1>4
<1>6. \A i \in 1 .. Len(history') :
        history'[i] = IF i + drop = Len(history) + 1 THEN new ELSE history[i + drop]
  BY <1>1, <1>3, <1>5
<1> QED BY <1>1, <1>2, <1>5, <1>6 DEF new

LEMMA TypeStep ==
  ASSUME TypeOK, InCall, [Next]_vars
  PROVE  TypeOK'
<1>0. scheduler' \in Accounts /\ byRole' \in [Roles -> Accounts]
      /\ call \in Call /\ call.role \in Roles /\ call.backend \in Backends
      /\ faults' \in Nat
  BY AccountsType, CourseStep, Parts DEF TypeOK
<1>1. CASE UNCHANGED vars
  BY <1>1 DEF TypeOK, vars
<1>2. ASSUME NEW role \in Roles, RefuseCall(role) \/ BeginCall(role)
      PROVE  TypeOK'
  <2>1. StartOf(role) \in Call
    BY Finite DEF StartOf, Call, Quarantined
  <2>2. [logicalCalls EXCEPT ![role] = @ + 1] \in [Roles -> Nat]
    BY DEF TypeOK
  <2> QED BY <1>0, <1>2, <2>1, <2>2 DEF RefuseCall, BeginCall, TypeOK, Outcomes
<1>3. CASE SelectBackend
  <2>1. ASSUME NEW b \in Backends
        PROVE  [call EXCEPT !.backend = b, !.retry = 0] \in Call
    BY <1>0 DEF Call
  <2> QED BY <1>0, <1>3, <2>1, PreferredAreEligible DEF SelectBackend, TypeOK
<1>4. CASE NoEligibleBackend \/ RaiseLastException \/ InterruptAttempt
  BY <1>0, <1>4 DEF NoEligibleBackend, RaiseLastException, InterruptAttempt,
                    TypeOK, Outcomes
<1>5. CASE AttemptFails
  <2>1. history' \in Seq(Record) /\ totalRecords' \in Nat
    BY <1>5, WindowIs DEF AttemptFails
  <2>2. /\ [call EXCEPT !.attempts = @ + 1, !.failed = TRUE, !.retry = @ + 1]
             \in Call
        /\ [call EXCEPT !.attempts = @ + 1, !.failed = TRUE,
                        !.excluded = @ \cup {call.backend}, !.round = @ + 1]
             \in Call
    <3>1. /\ call.attempts + 1 \in Nat /\ call.retry + 1 \in Nat
          /\ call.round + 1 \in Nat
          /\ call.excluded \cup {call.backend} \in SUBSET Backends
      BY <1>0 DEF Call
    <3>2. ASSUME NEW a \in Nat, NEW t \in Nat
          PROVE  [call EXCEPT !.attempts = a, !.failed = TRUE, !.retry = t] \in Call
      BY <1>0 DEF Call
    <3>3. ASSUME NEW a \in Nat, NEW t \in Nat, NEW e \in SUBSET Backends
          PROVE  [call EXCEPT !.attempts = a, !.failed = TRUE, !.excluded = e,
                              !.round = t] \in Call
      BY <1>0 DEF Call
    <3> QED BY <3>1, <3>2, <3>3
  <2>3. call' \in Call
    BY <1>5, <2>2 DEF AttemptFails
  <2>4. ProviderFailure(call.backend)
          \in [Roles -> [Backends -> [failures : Nat, quarantined : BOOLEAN]]]
    BY <1>0 DEF ProviderFailure, TypeOK
  <2>5. provider' \in [Roles -> [Backends -> [failures : Nat, quarantined : BOOLEAN]]]
    BY <1>5, <2>4 DEF AttemptFails, TypeOK
  <2>6. pc' \in {"idle", "select", "attempt"} /\ outcome' \in Outcomes
        /\ logicalCalls' = logicalCalls
    BY <1>5 DEF AttemptFails, TypeOK, Outcomes
  <2> QED BY <1>0, <2>1, <2>3, <2>5, <2>6 DEF TypeOK
<1>6. CASE AttemptAnswers
  <2>1. history' \in Seq(Record) /\ totalRecords' \in Nat
    BY <1>6, WindowIs DEF AttemptAnswers
  <2>2. [call EXCEPT !.attempts = @ + 1] \in Call
    BY <1>0 DEF Call
  <2>3. [provider EXCEPT ![call.role][call.backend] =
           [failures |-> 0, quarantined |-> FALSE]]
          \in [Roles -> [Backends -> [failures : Nat, quarantined : BOOLEAN]]]
    BY <1>0 DEF TypeOK
  <2>4. pc' = "idle" /\ outcome' \in Outcomes /\ logicalCalls' = logicalCalls
    BY <1>6 DEF AttemptAnswers, Outcomes
  <2>5. call' \in Call
        /\ provider' \in [Roles -> [Backends -> [failures : Nat, quarantined : BOOLEAN]]]
    BY <1>6, <2>2, <2>3 DEF AttemptAnswers
  <2> QED BY <1>0, <2>1, <2>4, <2>5 DEF TypeOK
<1>7. ASSUME NEW b \in Backends, NEW reward \in Rewards,
             NEW id \in scheduler.unrewarded[b], RecordReward(b, id, reward)
      PROVE  TypeOK'
  <2>1. history' \in Seq(Record)
    <3>1. \A i \in 1 .. Len(history) :
            [history[i] EXCEPT !.rewarded = @ \/ history[i].id = id] \in Record
      <4>1. \A i \in 1 .. Len(history) : history[i] \in Record
        BY DEF TypeOK
      <4>2. ASSUME NEW r \in Record, NEW v \in BOOLEAN
            PROVE  [r EXCEPT !.rewarded = v] \in Record
        BY DEF Record
      <4>3. \A i \in 1 .. Len(history) :
              (history[i].rewarded \/ history[i].id = id) \in BOOLEAN
        OBVIOUS
      <4> QED BY <4>1, <4>2, <4>3
    <3>2. history' = [i \in 1 .. Len(history) |->
                        [history[i] EXCEPT !.rewarded = @ \/ history[i].id = id]]
      BY <1>7 DEF RecordReward, TypeOK
    <3> QED BY <3>1, <3>2, SeqDef DEF TypeOK
  <2> QED BY <1>0, <1>7, <2>1 DEF RecordReward, TypeOK
<1> QED BY <1>1, <1>2, <1>3, <1>4, <1>5, <1>6, <1>7 DEF Next, Generate

(***************************************************************************)
(* A call: its attempts, the limits and the quarantine.                    *)
(***************************************************************************)
CallFields == /\ call \in Call /\ call.attempts \in Nat /\ call.round \in Nat
              /\ call.retry \in Nat /\ call.failed \in BOOLEAN
              /\ call.role \in Roles /\ call.backend \in Backends
              /\ call.excluded \in SUBSET Backends

LEMMA FieldsOf == TypeOK => CallFields
  BY DEF TypeOK, Call, CallFields

LEMMA Rows ==
  ASSUME NEW a \in Nat, NEW n \in Nat, NEW t \in Nat, NEW m \in Nat, NEW k \in Nat,
         n < k, t <= m, a <= n * (m + 1) + t
  PROVE  /\ a + 1 <= (n + 1) * (m + 1)
         /\ a + 1 <= k * (m + 1)
<1>1. (n + 1) * (m + 1) = n * (m + 1) + (m + 1)
  OBVIOUS
<1>2. (k - (n + 1)) * (m + 1) >= 0
  BY k - (n + 1) \in Nat
<1>3. k * (m + 1) = (k - (n + 1)) * (m + 1) + (n + 1) * (m + 1)
  OBVIOUS
<1>4. n * (m + 1) \in Nat /\ k * (m + 1) \in Nat
  OBVIOUS
<1> QED BY <1>1, <1>2, <1>3, <1>4

(* What an attempt that fails makes of the call. *)
LEMMA FailsTo ==
  ASSUME TypeOK, AttemptFails
  PROVE  /\ call'.role = call.role /\ call'.attempts = call.attempts + 1
         /\ call'.failed /\ call'.backend = call.backend
         /\ WillRetry =>
              /\ call'.retry = call.retry + 1 /\ call'.round = call.round
              /\ call'.excluded = call.excluded /\ provider' = provider
              /\ pc' \in {"attempt", "idle"}
         /\ ~WillRetry =>
              /\ call'.round = call.round + 1
              /\ call'.excluded = call.excluded \cup {call.backend}
              /\ provider' = ProviderFailure(call.backend)
              /\ pc' \in {"select", "idle"}
         /\ pc = "attempt"
         /\ pc' = "idle" => outcome' = "sink_error"
         /\ pc' # "idle" => outcome' = outcome
         /\ logicalCalls' = logicalCalls
<1>1. CallFields
  BY FieldsOf
<1>2. CASE WillRetry
  <2>1. /\ call' = [call EXCEPT !.attempts = @ + 1, !.failed = TRUE,
                                !.retry = @ + 1]
        /\ provider' = provider
    BY <1>2 DEF AttemptFails
  <2> QED BY <1>1, <1>2, <2>1 DEF AttemptFails, Call, CallFields
<1>3. CASE ~WillRetry
  <2>1. /\ call' = [call EXCEPT !.attempts = @ + 1, !.failed = TRUE,
                                !.excluded = @ \cup {call.backend},
                                !.round = @ + 1]
        /\ provider' = ProviderFailure(call.backend)
    BY <1>3 DEF AttemptFails
  <2> QED BY <1>1, <1>3, <2>1 DEF AttemptFails, Call, CallFields
<1> QED BY <1>2, <1>3

LEMMA InCallStep ==
  ASSUME TypeOK, InCall, [Next]_vars
  PROVE  InCall'
<1>0. /\ call \in Call /\ call.attempts \in Nat /\ call.round \in Nat
      /\ call.retry \in Nat /\ call.failed \in BOOLEAN
      /\ call.role \in Roles /\ call.backend \in Backends
      /\ call.excluded \in SUBSET Backends
      /\ Rounds \in Nat /\ Rounds >= 1 /\ MaxRetries \in Nat
      /\ MaxCallAttempts \in Nat \ {0}
  BY FieldsOf, Finite DEF CallFields
<1>1. CASE UNCHANGED vars
  BY <1>1 DEF InCall, vars, Quarantined
<1>2. ASSUME NEW role \in Roles, RefuseCall(role)
      PROVE  InCall'
  BY <1>2 DEF RefuseCall, InCall
<1>3. ASSUME NEW role \in Roles, BeginCall(role)
      PROVE  InCall'
  <2>1. /\ pc' = "select" /\ outcome' = "none" /\ provider' = provider
        /\ call' = StartOf(role)
    BY <1>3 DEF BeginCall
  <2>2. /\ call'.attempts = 0 /\ ~call'.failed /\ call'.round = 0
        /\ call'.role = role /\ call'.excluded = Quarantined(role)
    BY <2>1 DEF StartOf
  <2>3. Quarantined(role)' = Quarantined(role)
    BY <2>1 DEF Quarantined
  <2>4. Quarantined(call.role)' = Quarantined(role)'
    BY <2>2 DEF Quarantined
  <2>5. 0 <= 0 * (MaxRetries + 1)
    BY <1>0
  <2> QED BY <1>0, <2>1, <2>2, <2>3, <2>4, <2>5 DEF InCall
<1>4. CASE SelectBackend
  <2>1. PICK b \in PreferredBackends : call' = [call EXCEPT !.backend = b, !.retry = 0]
    BY <1>4 DEF SelectBackend
  <2>2. /\ pc = "select" /\ ~SelectionOver /\ pc' = "attempt"
        /\ outcome' = outcome /\ provider' = provider
    BY <1>4 DEF SelectBackend
  <2>3. b \in Backends /\ b \notin call.excluded
    BY PreferredAreEligible
  <2>4. /\ call'.attempts = call.attempts /\ call'.failed = call.failed
        /\ call'.round = call.round /\ call'.retry = 0
        /\ call'.role = call.role /\ call'.excluded = call.excluded
        /\ call'.backend = b
    BY <1>0, <2>1, <2>3 DEF Call
  <2>5. call.round < Rounds /\ call.attempts < MaxCallAttempts
    BY <1>0, <2>2 DEF SelectionOver
  <2>6. Quarantined(call.role)' = Quarantined(call.role)
    BY <2>2, <2>4 DEF Quarantined
  <2>7. call.attempts <= call.round * (MaxRetries + 1)
    BY <2>2 DEF InCall
  <2>8. call.attempts <= call.round * (MaxRetries + 1) + 0
    BY <1>0, <2>7
  <2> QED BY <1>0, <2>2, <2>3, <2>4, <2>5, <2>6, <2>8 DEF InCall
<1>5. CASE NoEligibleBackend \/ RaiseLastException \/ InterruptAttempt
  BY <1>5 DEF NoEligibleBackend, RaiseLastException, InterruptAttempt, InCall
<1>6. CASE AttemptFails
  <2>1. /\ outcome = "none" /\ call.round < Rounds /\ call.retry <= MaxRetries
        /\ call.attempts < MaxCallAttempts
        /\ call.attempts <= call.round * (MaxRetries + 1) + call.retry
        /\ Quarantined(call.role) \subseteq call.excluded
        /\ call.backend \notin call.excluded
    BY <1>6, FailsTo DEF InCall
  <2>2. CASE WillRetry
    <3>1. Quarantined(call.role)' = Quarantined(call.role)
      BY <1>6, <2>2, FailsTo DEF Quarantined
    <3>2. call.retry < MaxRetries /\ call.attempts + 1 < MaxCallAttempts
      BY <2>2 DEF WillRetry
    <3>3. call.attempts + 1 <= call.round * (MaxRetries + 1) + (call.retry + 1)
      BY <1>0, <2>1
    <3> QED BY <1>0, <1>6, <2>1, <2>2, <3>1, <3>2, <3>3, FailsTo DEF InCall
  <2>3. CASE ~WillRetry
    <3>1. call.attempts + 1 <= (call.round + 1) * (MaxRetries + 1)
      BY <1>0, <2>1, Rows
    <3>2. \A b \in Backends \ {call.backend} :
            ProviderFailure(call.backend)[call.role][b] = provider[call.role][b]
      BY <1>0 DEF ProviderFailure, TypeOK
    <3>3. /\ provider' = ProviderFailure(call.backend) /\ call'.role = call.role
          /\ call'.excluded = call.excluded \cup {call.backend}
      BY <1>6, <2>3, FailsTo
    <3>4. Quarantined(call.role)' \subseteq Quarantined(call.role) \cup {call.backend}
      BY <3>2, <3>3 DEF Quarantined
    <3> QED BY <1>0, <1>6, <2>1, <2>3, <3>1, <3>3, <3>4, FailsTo DEF InCall
  <2> QED BY <2>2, <2>3
<1>7. CASE AttemptAnswers
  BY <1>7 DEF AttemptAnswers, InCall
<1>8. ASSUME NEW b \in Backends, NEW reward \in Rewards,
             NEW id \in scheduler.unrewarded[b], RecordReward(b, id, reward)
      PROVE  InCall'
  BY <1>8 DEF RecordReward, InCall
<1> QED BY <1>1, <1>2, <1>3, <1>4, <1>5, <1>6, <1>7, <1>8 DEF Next, Generate

Attempts ==
  /\ call.attempts <= MaxCallAttempts
  /\ call.attempts <= Rounds * (MaxRetries + 1)
  /\ outcome \in {"response", "sink_error"} => call.attempts >= 1
  /\ outcome = "provider_error" => call.failed
  /\ outcome \in {"role_call_limit", "assertion_error"} => call.attempts = 0
LimitsKept ==
  \A s \in DOMAIN CallLimits : Sum(logicalCalls, ScopeRoles[s]) <= CallLimits[s]

LEMMA ContractIs == CallContract <=> Attempts /\ LimitsKept
  BY SumIsSum DEF CallContract, Attempts, LimitsKept

LEMMA AttemptsStep ==
  ASSUME TypeOK, InCall, Attempts, [Next]_vars
  PROVE  Attempts'
<1>0. /\ call \in Call /\ call.attempts \in Nat /\ call.round \in Nat
      /\ call.retry \in Nat /\ call.failed \in BOOLEAN
      /\ call.role \in Roles /\ call.backend \in Backends
      /\ Rounds \in Nat /\ Rounds >= 1 /\ MaxRetries \in Nat
      /\ MaxCallAttempts \in Nat \ {0} /\ Rounds * (MaxRetries + 1) \in Nat
  BY FieldsOf, Finite DEF CallFields
<1>1. CASE UNCHANGED vars
  BY <1>1 DEF Attempts, vars
<1>2. ASSUME NEW role \in Roles, RefuseCall(role) \/ BeginCall(role)
      PROVE  Attempts'
  <2>1. call'.attempts = 0 /\ outcome' \in {"none", "role_call_limit"}
    BY <1>2 DEF RefuseCall, BeginCall, StartOf
  <2> QED BY <1>0, <2>1 DEF Attempts
<1>3. CASE SelectBackend
  <2>1. /\ call'.attempts = call.attempts /\ call'.failed = call.failed
        /\ outcome' = outcome
    BY <1>0, <1>3 DEF SelectBackend, Call
  <2> QED BY <2>1 DEF Attempts
<1>4. CASE NoEligibleBackend \/ InterruptAttempt
  BY <1>4 DEF NoEligibleBackend, InterruptAttempt, Attempts
<1>5. CASE RaiseLastException
  BY <1>0, <1>5 DEF RaiseLastException, Attempts, InCall
<1>6. CASE AttemptFails \/ AttemptAnswers
  <2>1. /\ pc = "attempt" /\ call'.attempts = call.attempts + 1
        /\ outcome' \in {"response", "sink_error", outcome}
    BY <1>0, <1>6, FailsTo DEF AttemptAnswers, Call
  <2>2. /\ outcome = "none" /\ call.attempts < MaxCallAttempts
        /\ call.round < Rounds /\ call.retry <= MaxRetries
        /\ call.attempts <= call.round * (MaxRetries + 1) + call.retry
    BY <2>1 DEF InCall
  <2>3. call.attempts + 1 <= Rounds * (MaxRetries + 1)
    BY <1>0, <2>2, Rows
  <2> QED BY <1>0, <2>1, <2>2, <2>3 DEF Attempts
<1>7. ASSUME NEW b \in Backends, NEW reward \in Rewards,
             NEW id \in scheduler.unrewarded[b], RecordReward(b, id, reward)
      PROVE  Attempts'
  BY <1>7 DEF RecordReward, Attempts
<1> QED BY <1>1, <1>2, <1>3, <1>4, <1>5, <1>6, <1>7 DEF Next, Generate

LEMMA LimitsKeptStep ==
  ASSUME TypeOK, LimitsKept, [Next]_vars
  PROVE  LimitsKept'
<1>1. CASE UNCHANGED logicalCalls
  BY <1>1 DEF LimitsKept
<1>2. ASSUME NEW role \in Roles, BeginCall(role)
      PROVE  LimitsKept'
  <2> SUFFICES ASSUME NEW s \in DOMAIN CallLimits
               PROVE  Sum(logicalCalls', ScopeRoles[s]) <= CallLimits[s]
    BY DEF LimitsKept
  <2> DEFINE S == ScopeRoles[s]
  <2>1. /\ S \subseteq Roles /\ IsFiniteSet(S) /\ CallLimits[s] \in Nat
        /\ s \in DOMAIN ScopeRoles
    BY EnsembleAssumption, FS_Subset
  <2>2. /\ logicalCalls \in [Roles -> Nat]
        /\ logicalCalls' = [logicalCalls EXCEPT ![role] = @ + 1]
        /\ ~LimitReached(role)
    BY <1>2 DEF BeginCall, TypeOK
  <2>3. PICK d \in Int : d = 1
    OBVIOUS
  <2>4. /\ NatOn(logicalCalls, S) /\ NatOn(logicalCalls', S)
        /\ DiffersAt(logicalCalls, logicalCalls', S, role, d)
    BY <2>1, <2>2, <2>3 DEF NatOn, DiffersAt
  <2> HIDE DEF S
  <2>5. /\ Sum(logicalCalls, S) \in Nat
        /\ Sum(logicalCalls', S)
             = Sum(logicalCalls, S) + (IF role \in S THEN d ELSE 0)
    BY <2>1, <2>4, SumChanges
  <2>6. role \in S => ~(Sum(logicalCalls, S) >= CallLimits[s])
    BY <2>2, SumIsSum DEF LimitReached, S
  <2>7. Sum(logicalCalls, S) <= CallLimits[s]
    BY DEF LimitsKept, S
  <2>8. Sum(logicalCalls', S) <= CallLimits[s]
    BY <2>1, <2>3, <2>5, <2>6, <2>7
  <2> QED BY <2>8 DEF S
<1>3. UNCHANGED logicalCalls \/ \E role \in Roles : BeginCall(role)
  BY DEF Next, Generate, RefuseCall, SelectBackend, NoEligibleBackend,
         RaiseLastException, AttemptFails, AttemptAnswers, InterruptAttempt,
         RecordReward, vars
<1> QED BY <1>1, <1>2, <1>3

Unlifted ==
  \A r \in Roles, b \in Backends :
    provider[r][b].quarantined =>
      /\ provider'[r][b].quarantined
      /\ (totalRecords' # totalRecords /\ call.role = r) => call.backend # b

LEMMA QuarantineStep ==
  ASSUME TypeOK, InCall, [Next]_vars
  PROVE  Unlifted
<1>0. call.role \in Roles /\ call.backend \in Backends
  BY FieldsOf DEF CallFields
<1>1. CASE AttemptFails \/ AttemptAnswers
  <2>1. pc = "attempt"
    BY <1>1 DEF AttemptFails, AttemptAnswers
  <2>2. ~provider[call.role][call.backend].quarantined
    BY <1>0, <2>1 DEF InCall, Quarantined
  <2>3. ASSUME NEW r \in Roles, NEW b \in Backends, provider[r][b].quarantined
        PROVE  r # call.role \/ b # call.backend
    BY <2>2, <2>3
  <2>4. ASSUME NEW r \in Roles, NEW b \in Backends,
               r # call.role \/ b # call.backend
        PROVE  provider'[r][b] = provider[r][b]
    <3>1. CASE AttemptAnswers
      BY <1>0, <2>4, <3>1 DEF AttemptAnswers, TypeOK
    <3>2. CASE AttemptFails
      <4>1. provider' = provider \/ provider' = ProviderFailure(call.backend)
        BY <3>2 DEF AttemptFails
      <4>2. ProviderFailure(call.backend)[r][b] = provider[r][b]
        BY <1>0, <2>4 DEF ProviderFailure, TypeOK
      <4> QED BY <4>1, <4>2
    <3> QED BY <1>1, <3>1, <3>2
  <2> QED BY <2>3, <2>4 DEF Unlifted
<1>2. CASE ~(AttemptFails \/ AttemptAnswers)
  <2>1. UNCHANGED <<provider, totalRecords>>
    BY <1>2 DEF Next, Generate, RefuseCall, BeginCall, SelectBackend,
                NoEligibleBackend, RaiseLastException, InterruptAttempt,
                RecordReward, vars
  <2> QED BY <2>1 DEF Unlifted
<1> QED BY <1>1, <1>2

(***************************************************************************)
(* The window of records.                                                  *)
(***************************************************************************)
LEMMA RecordOf ==
  ASSUME TypeOK, AttemptFails \/ AttemptAnswers
  PROVE  \E ok \in BOOLEAN :
           /\ AppendRecord(ok) /\ scheduler'.rewarded = scheduler.rewarded
           /\ \A b \in Backends :
                scheduler'.unrewarded[b] \subseteq
                  scheduler.unrewarded[b] \cup (IF ok THEN {CallId} ELSE {})
<1>1. /\ scheduler \in Accounts /\ call.backend \in Backends
      /\ scheduler.unrewarded \in [Backends -> SUBSET Nat]
      /\ CallId \in Nat
  BY Parts DEF CallId
<1>2. ASSUME NEW fresh \in {{}, {CallId}}, Account(call.backend, fresh)
      PROVE  /\ scheduler'.rewarded = scheduler.rewarded
             /\ \A b \in Backends : scheduler'.unrewarded[b] \subseteq
                                      scheduler.unrewarded[b] \cup fresh
  <2>1. CASE Accounted
    <3>1. scheduler' = Counted(scheduler, call.backend, fresh)
          /\ fresh \in SUBSET Nat
      BY <1>1, <1>2, <2>1 DEF Account
    <3>2. /\ scheduler'.rewarded = scheduler.rewarded
          /\ scheduler'.unrewarded =
               [scheduler.unrewarded EXCEPT
                  ![call.backend] = scheduler.unrewarded[call.backend] \cup fresh]
      BY <1>1, <3>1, CountedIs
    <3> QED BY <1>1, <3>2
  <2>2. CASE ~Accounted
    BY <1>2, <2>2 DEF Account
  <2> QED BY <2>1, <2>2
<1>3. CASE AttemptFails
  <2>1. AppendRecord(FALSE)
        /\ (Account(call.backend, {}) \/ scheduler' = scheduler)
    BY <1>3 DEF AttemptFails
  <2> QED BY <1>2, <2>1
<1>4. CASE AttemptAnswers
  <2>1. AppendRecord(TRUE)
        /\ (Account(call.backend, {}) \/ Account(call.backend, {CallId}))
    BY <1>4 DEF AttemptAnswers
  <2>2. /\ scheduler'.rewarded = scheduler.rewarded
        /\ \A b \in Backends : scheduler'.unrewarded[b] \subseteq
                                 scheduler.unrewarded[b] \cup {CallId}
    <3>1. PICK fresh \in {{}, {CallId}} : Account(call.backend, fresh)
      BY <2>1
    <3>2. fresh \subseteq {CallId}
      OBVIOUS
    <3> QED BY <1>2, <3>1, <3>2
  <2> QED BY <2>1, <2>2
<1> QED BY <1>3, <1>4

LEMMA WindowStep ==
  ASSUME TypeOK, Listed, WindowIsTail, OnlyAnswers, [Next]_vars
  PROVE  WindowIsTail' /\ OnlyAnswers'
<1>0. /\ totalRecords \in Nat /\ history \in Seq(Record)
      /\ scheduler.unrewarded \in [Backends -> SUBSET Nat]
      /\ Len(history) \in Nat /\ DOMAIN history = 1 .. Len(history)
      /\ MaxCallHistory \in Nat \ {0}
  BY Parts, Finite DEF TypeOK
<1>1. /\ Len(history) = IF totalRecords < MaxCallHistory THEN totalRecords
                                                         ELSE MaxCallHistory
      /\ \A i \in 1 .. Len(history) :
           /\ history[i].id = totalRecords - Len(history) + i
           /\ history[i].rewarded <=> history[i].id \in scheduler.rewarded
           /\ history[i].rewarded => history[i].ok
           /\ \A b \in Backends :
                history[i].id \in scheduler.unrewarded[b] => history[i].ok
  BY <1>0 DEF WindowIsTail, OnlyAnswers
<1>2. CASE /\ UNCHANGED <<history, totalRecords>>
           /\ scheduler'.rewarded = scheduler.rewarded
           /\ scheduler'.unrewarded = scheduler.unrewarded
  BY <1>2 DEF WindowIsTail, OnlyAnswers
<1>3. CASE AttemptFails \/ AttemptAnswers
  <2>1. PICK ok \in BOOLEAN :
          /\ AppendRecord(ok) /\ scheduler'.rewarded = scheduler.rewarded
          /\ \A b \in Backends :
               scheduler'.unrewarded[b] \subseteq
                 scheduler.unrewarded[b] \cup (IF ok THEN {CallId} ELSE {})
    BY <1>3, RecordOf
  <2> DEFINE new == NewRecord(ok)
  <2>2. /\ totalRecords' = totalRecords + 1 /\ history' \in Seq(Record)
        /\ \E drop \in {0, 1} :
             /\ drop = 1 <=> Len(history) + 1 > MaxCallHistory
             /\ Len(history') = Len(history) + 1 - drop
             /\ \A i \in 1 .. Len(history') :
                  history'[i] = IF i + drop = Len(history) + 1
                                THEN new ELSE history[i + drop]
    BY <2>1, WindowIs
  <2>3. PICK drop \in {0, 1} :
          /\ drop = 1 <=> Len(history) + 1 > MaxCallHistory
          /\ Len(history') = Len(history) + 1 - drop
          /\ \A i \in 1 .. Len(history') :
               history'[i] = IF i + drop = Len(history) + 1
                             THEN new ELSE history[i + drop]
    BY <2>2
  <2>4. new.id = totalRecords + 1 /\ ~new.rewarded /\ new.ok = ok
        /\ CallId = totalRecords + 1
    BY DEF NewRecord, CallId
  <2> HIDE DEF new
  <2>5. Len(history') = IF totalRecords' < MaxCallHistory THEN totalRecords'
                                                          ELSE MaxCallHistory
    BY <1>0, <1>1, <2>2, <2>3
  <2>6. /\ totalRecords + 1 \notin scheduler.rewarded
        /\ \A b \in Backends : totalRecords + 1 \notin scheduler.unrewarded[b]
    BY <1>0 DEF Listed
  <2>7. ASSUME NEW i \in 1 .. Len(history')
        PROVE  /\ history'[i].id = totalRecords' - Len(history') + i
               /\ history'[i].rewarded <=> history'[i].id \in scheduler'.rewarded
               /\ history'[i].rewarded => history'[i].ok
               /\ \A b \in Backends :
                    history'[i].id \in scheduler'.unrewarded[b] => history'[i].ok
    <3>1. CASE i + drop = Len(history) + 1
      <4>1. history'[i] = new
        BY <2>3, <3>1
      <4>2. totalRecords + 1 = totalRecords' - Len(history') + i
        BY <1>0, <2>2, <2>3, <3>1
      <4> QED BY <2>1, <2>4, <2>6, <4>1, <4>2
    <3>2. CASE i + drop # Len(history) + 1
      <4>1. /\ history'[i] = history[i + drop]
            /\ i + drop \in 1 .. Len(history)
        BY <1>0, <2>3, <3>2
      <4>2. history[i + drop].id = totalRecords - Len(history) + (i + drop)
        BY <1>1, <4>1
      <4>3. /\ history'[i].id = totalRecords' - Len(history') + i
            /\ history[i + drop].id # CallId
        <5>1. i \in Int /\ i + drop <= Len(history) /\ drop \in Int
          BY <1>0, <4>1
        <5>2. Len(history') = Len(history) + 1 - drop
          BY <2>3
        <5>3. totalRecords - Len(history) + (i + drop)
                = (totalRecords + 1) - (Len(history) + 1 - drop) + i
              /\ totalRecords - Len(history) + (i + drop) # totalRecords + 1
          BY <1>0, <5>1
        <5> QED BY <2>2, <2>4, <4>1, <4>2, <5>2, <5>3
      <4> QED BY <1>1, <2>1, <4>1, <4>3
    <3> QED BY <3>1, <3>2
  <2>8. DOMAIN history' = 1 .. Len(history')
    BY <2>2
  <2> QED BY <2>5, <2>7, <2>8 DEF WindowIsTail, OnlyAnswers
<1>4. ASSUME NEW b \in Backends, NEW reward \in Rewards,
             NEW id \in scheduler.unrewarded[b], RecordReward(b, id, reward)
      PROVE  WindowIsTail' /\ OnlyAnswers'
  <2>0. reward \in Nat /\ id \in Nat
    BY <1>0, Finite
  <2>1. /\ totalRecords' = totalRecords
        /\ history' = [i \in 1 .. Len(history) |->
                        [history[i] EXCEPT !.rewarded = @ \/ history[i].id = id]]
        /\ scheduler' = Claim(scheduler, b, id, reward)
    BY <1>0, <1>4 DEF RecordReward
  <2>2. ClaimOf(scheduler', scheduler, b, id, reward)
    BY <2>0, <2>1, ClaimIs, Parts
  <2>3. /\ scheduler'.rewarded = scheduler.rewarded \cup {id}
        /\ \A c \in Backends :
             scheduler'.unrewarded[c] \subseteq scheduler.unrewarded[c]
    BY <1>0, <2>2 DEF ClaimOf
  <2>4. /\ DOMAIN history' = 1 .. Len(history) /\ Len(history') = Len(history)
    <3>1. DOMAIN history' = 1 .. Len(history)
      BY <2>1
    <3> QED BY <1>0, <3>1, LenProperties, <2>1
  <2>5. ASSUME NEW i \in 1 .. Len(history)
        PROVE  /\ history'[i].id = history[i].id /\ history'[i].ok = history[i].ok
               /\ history'[i].rewarded <=> history[i].rewarded \/ history[i].id = id
    <3>1. history[i] \in Record
      BY <1>0
    <3>2. history'[i] = [history[i] EXCEPT !.rewarded =
                           history[i].rewarded \/ history[i].id = id]
      BY <2>1
    <3> DEFINE v == history[i].rewarded \/ history[i].id = id
    <3>3. history[i].rewarded \in BOOLEAN
      BY <3>1 DEF Record
    <3>4. v \in BOOLEAN
      BY <3>3
    <3>5. ASSUME NEW r \in Record, NEW w \in BOOLEAN
          PROVE  /\ [r EXCEPT !.rewarded = w].id = r.id
                 /\ [r EXCEPT !.rewarded = w].ok = r.ok
                 /\ [r EXCEPT !.rewarded = w].rewarded = w
      BY DEF Record
    <3>6. /\ [history[i] EXCEPT !.rewarded = v].id = history[i].id
          /\ [history[i] EXCEPT !.rewarded = v].ok = history[i].ok
          /\ [history[i] EXCEPT !.rewarded = v].rewarded = v
      <4> HIDE DEF v
      <4> QED BY <3>1, <3>4, <3>5
    <3>7. /\ history'[i].id = history[i].id /\ history'[i].ok = history[i].ok
          /\ history'[i].rewarded = v
      BY <3>2, <3>6
    <3> QED BY <3>3, <3>7
  <2>6. DOMAIN history = 1 .. Len(history)
    BY <1>0, LenProperties
  <2>7. ASSUME NEW i \in 1 .. Len(history)
        PROVE  /\ history[i].id = totalRecords - Len(history) + i
               /\ history[i].rewarded <=> history[i].id \in scheduler.rewarded
               /\ history[i].rewarded => history[i].ok
               /\ history[i].id = id => history[i].ok
    BY <1>1, <2>6, <1>4 DEF WindowIsTail, OnlyAnswers
  <2>8. ASSUME NEW i \in 1 .. Len(history)
        PROVE  /\ history'[i].id = totalRecords' - Len(history') + i
               /\ history'[i].rewarded <=> history'[i].id \in scheduler'.rewarded
               /\ history'[i].rewarded => history'[i].ok
    BY <2>1, <2>3, <2>4, <2>5, <2>7
  <2>9. WindowIsTail'
    BY <1>1, <2>1, <2>4, <2>8 DEF WindowIsTail
  <2>10. OnlyAnswers'
    BY <1>1, <2>3, <2>4, <2>5, <2>6 DEF OnlyAnswers
  <2> QED BY <2>9, <2>10
<1>5. CASE SelectBackend
  <2>1. UNCHANGED <<history, totalRecords>>
    BY <1>5 DEF SelectBackend
  <2>2. \/ scheduler' = scheduler
        \/ scheduler' = [scheduler EXCEPT !.total = @ + 1]
    BY <1>5 DEF SelectBackend, AccountSelection
  <2> QED BY <1>2, <2>1, <2>2, SelectedIs, Parts
<1>6. CASE \/ \E role \in Roles : RefuseCall(role) \/ BeginCall(role)
           \/ NoEligibleBackend \/ RaiseLastException \/ InterruptAttempt
           \/ UNCHANGED vars
  BY <1>2, <1>6 DEF RefuseCall, BeginCall, NoEligibleBackend,
                    RaiseLastException, InterruptAttempt, vars
<1> QED BY <1>3, <1>4, <1>5, <1>6 DEF Next, Generate

(***************************************************************************)
(* The invariant holds.                                                    *)
(***************************************************************************)
LEMMA InitInv == Init => IInv
<1> SUFFICES ASSUME Init PROVE IInv
  OBVIOUS
<1> DEFINE zero == [b \in Backends |-> 0]
           none == [b \in Backends |-> {}]
<1>1. /\ NoAccounts \in Accounts
      /\ NoAccounts.counts = zero /\ NoAccounts.wins = zero
      /\ NoAccounts.total = 0 /\ NoAccounts.unrewarded = none
      /\ NoAccounts.rewarded = {}
  BY DEF NoAccounts, Accounts
<1>2. /\ scheduler = NoAccounts /\ byRole = [r \in Roles |-> NoAccounts]
      /\ \A r \in Roles : byRole[r] = NoAccounts
      /\ pc = "idle" /\ outcome = "none" /\ faults = 0 /\ totalRecords = 0
      /\ history = <<>> /\ logicalCalls = [r \in Roles |-> 0]
  BY DEF Init
<1>3. /\ call.role \in Roles /\ call \in Call /\ call.attempts = 0
  BY EnsembleAssumption, Finite DEF Init, Call
<1>4. /\ provider \in
           [Roles -> [Backends -> [failures : Nat, quarantined : BOOLEAN]]]
      /\ history \in Seq(Record) /\ Len(history) = 0 /\ DOMAIN history = {}
  BY DEF Init
<1>5. TypeOK
  BY <1>1, <1>2, <1>3, <1>4 DEF TypeOK, Outcomes
<1>6. InCall
  BY <1>2 DEF InCall
<1>7. CallContract
  <2>1. Attempts
    BY <1>2, <1>3, Finite DEF Attempts
  <2>2. ASSUME NEW s \in DOMAIN CallLimits
        PROVE  Sum(logicalCalls, ScopeRoles[s]) = 0
    <3>1. IsFiniteSet(ScopeRoles[s]) /\ ScopeRoles[s] \subseteq Roles
      BY EnsembleAssumption, FS_Subset
    <3>2. \A y \in ScopeRoles[s] : logicalCalls[y] = 0
      BY <1>2, <3>1
    <3> QED BY <3>1, <3>2, SumZero
  <2>3. LimitsKept
    BY <2>2, EnsembleAssumption DEF LimitsKept
  <2> QED BY <2>1, <2>3, ContractIs
<1>8. /\ \A b \in Backends : /\ scheduler.counts[b] = 0
                             /\ scheduler.wins[b] = 0
                             /\ scheduler.unrewarded[b] = {}
      /\ scheduler.total = 0 /\ scheduler.rewarded = {}
      /\ \A r \in Roles :
           /\ byRole[r].total = 0 /\ byRole[r].rewarded = {}
           /\ \A b \in Backends : /\ byRole[r].counts[b] = 0
                                  /\ byRole[r].wins[b] = 0
                                  /\ byRole[r].unrewarded[b] = {}
  BY <1>1, <1>2
<1>9. Listed
  BY <1>8, FS_EmptySet DEF Listed
<1>10. Shares
  BY <1>8 DEF Shares
<1>11. Totalled
  <2>1. Running = 0 /\ \A r \in Roles : RunningFor(r) = 0
    BY <1>2 DEF Running, RunningFor
  <2>2. Sum(scheduler.counts, Backends) = 0
    BY <1>8, Finite, SumZero
  <2>3. \A r \in Roles : Sum(byRole[r].counts, Backends) = 0
    BY <1>8, Finite, SumZero
  <2> QED BY <1>2, <1>8, <2>1, <2>2, <2>3 DEF Totalled
<1>12. AddUp
  <2>1. Sum(Totals, Roles) = 0
    BY <1>8, Finite, SumZero DEF Totals
  <2>2. ASSUME NEW b \in Backends
        PROVE  Sum(Counts(b), Roles) = 0 /\ Sum(Wins(b), Roles) = 0
    <3>1. \A r \in Roles : Counts(b)[r] = 0 /\ Wins(b)[r] = 0
      BY <1>8 DEF Counts, Wins
    <3> QED BY <3>1, Finite, SumZero
  <2> QED BY <1>8, <2>1, <2>2 DEF AddUp
<1>13. OneRewardPerCall
  <2>1. Cardinality({}) = 0
    BY FS_EmptySet
  <2>2. ASSUME NEW b \in Backends
        PROVE  scheduler.wins[b] + MAX_REWARD * Cardinality(scheduler.unrewarded[b])
                 <= MAX_REWARD * scheduler.counts[b]
    <3>1. Cardinality(scheduler.unrewarded[b]) = 0
      BY <1>8, <2>1
    <3> QED BY <1>8, <3>1 DEF MAX_REWARD
  <2> QED BY <2>2 DEF OneRewardPerCall
<1>14. WindowIsTail /\ OnlyAnswers
  BY <1>2, <1>4, Finite DEF WindowIsTail, OnlyAnswers
<1> QED BY <1>5, <1>6, <1>7, <1>9, <1>10, <1>11, <1>12, <1>13, <1>14 DEF IInv

LEMMA StepInv == IInv /\ [Next]_vars => IInv'
<1> SUFFICES ASSUME IInv, [Next]_vars PROVE IInv'
  OBVIOUS
<1> USE DEF IInv
<1>1. TypeOK'
  BY TypeStep
<1>2. InCall'
  BY InCallStep
<1>3. CallContract'
  <2>1. Attempts' /\ LimitsKept'
    BY ContractIs, AttemptsStep, LimitsKeptStep
  <2>2. CallContract' <=> (Attempts /\ LimitsKept)'
    BY ContractIs, PTL
  <2> QED BY <2>1, <2>2
<1>4. Listed'
  BY ListedStep
<1>5. Shares'
  BY SharesStep
<1>6. Totalled'
  BY TotalledStep
<1>7. AddUp'
  BY <1>1, AddUpStep
<1>8. OneRewardPerCall'
  BY OneRewardStep
<1>9. WindowIsTail' /\ OnlyAnswers'
  BY WindowStep
<1> QED BY <1>1, <1>2, <1>3, <1>4, <1>5, <1>6, <1>7, <1>8, <1>9

LEMMA Invariant == Spec => []IInv
BY InitInv, StepInv, PTL DEF Spec

(***************************************************************************)
(* What the invariant says of the accounts.                                *)
(***************************************************************************)
LEMMA InvImpliesAgree == IInv => AccountsAgree
<1> SUFFICES ASSUME IInv PROVE AccountsAgree
  OBVIOUS
<1>0. TypeOK /\ Listed /\ Shares /\ Totalled /\ AddUp
  BY DEF IInv
<1>1. /\ scheduler.counts \in [Backends -> Nat] /\ scheduler.total \in Nat
      /\ \A r \in Roles : /\ byRole[r].counts \in [Backends -> Nat]
                          /\ byRole[r].total \in Nat
      /\ faults \in Nat /\ Running \in {0, 1}
      /\ Running = 1 => pc = "attempt"
  BY <1>0, Parts, RunningType DEF TypeOK
<1>2. /\ SumFunction(scheduler.counts) = Sum(scheduler.counts, Backends)
      /\ \A r \in Roles :
           SumFunction(byRole[r].counts) = Sum(byRole[r].counts, Backends)
  <2>1. DOMAIN scheduler.counts = Backends
        /\ \A r \in Roles : DOMAIN byRole[r].counts = Backends
    BY <1>1
  <2> QED BY <2>1, SumAllIsSum
<1>3. /\ Sum(scheduler.counts, Backends) \in Nat
      /\ \A r \in Roles : Sum(byRole[r].counts, Backends) \in Nat
  BY <1>1, Finite, SumType DEF NatOn
<1>4. AccountsValid(scheduler)
  <2>1. SumFunction(scheduler.counts) <= scheduler.total
    BY <1>0, <1>1, <1>2, <1>3 DEF Totalled
  <2> QED BY <1>0, <2>1 DEF AccountsValid, Listed
<1>5. ASSUME NEW r \in Roles PROVE AccountsValid(byRole[r])
  <2>1. RunningFor(r) \in {0, 1}
    BY <1>1 DEF RunningFor
  <2>2. SumFunction(byRole[r].counts) <= byRole[r].total
    BY <1>0, <1>1, <1>2, <1>3, <2>1 DEF Totalled
  <2>3. /\ byRole[r].rewarded \subseteq scheduler.rewarded
        /\ \A b \in Backends :
             byRole[r].unrewarded[b] \subseteq scheduler.unrewarded[b]
    BY <1>0 DEF Shares
  <2>4. ASSUME NEW b \in Backends, NEW c \in Backends, b # c
        PROVE  byRole[r].unrewarded[b] \cap byRole[r].unrewarded[c] = {}
    BY <1>0, <2>3, <2>4 DEF Listed
  <2>5. ASSUME NEW b \in Backends
        PROVE  byRole[r].unrewarded[b] \cap byRole[r].rewarded = {}
    BY <1>0, <2>3 DEF Listed
  <2> QED BY <2>2, <2>4, <2>5 DEF AccountsValid
<1>6. scheduler.total <= SumFunction(scheduler.counts) + faults
                           + (IF pc = "attempt" THEN 1 ELSE 0)
  <2>1. scheduler.total <= Sum(scheduler.counts, Backends) + Running + faults
    BY <1>0 DEF Totalled
  <2>2. Running <= IF pc = "attempt" THEN 1 ELSE 0
    BY <1>1
  <2> QED BY <1>1, <1>2, <1>3, <2>1, <2>2
<1>7. RolesAddUp
  <2>1. /\ SumFunction([r \in Roles |-> byRole[r].total]) = Sum(Totals, Roles)
        /\ \A b \in Backends :
             /\ SumFunction([r \in Roles |-> byRole[r].counts[b]]) =
                  Sum(Counts(b), Roles)
             /\ SumFunction([r \in Roles |-> byRole[r].wins[b]]) =
                  Sum(Wins(b), Roles)
    BY SumAllIsSum DEF Totals, Counts, Wins
  <2> QED BY <1>0, <2>1 DEF RolesAddUp, AddUp, Shares
<1> QED BY <1>0, <1>4, <1>5, <1>6, <1>7 DEF AccountsAgree, SchedulerAccepted

(* _validate_scheduler_state never refuses the accounts the ensemble       *)
(* itself keeps, and the roles' accounts add up to the ensemble's own:     *)
(* selections, calls, rewards and the ids still to be rewarded, backend by *)
(* backend, however many roles, backends, failed sinks and Ctrl+C.         *)
THEOREM AccountsAreAccepted == Spec => []AccountsAgree
<1>1. IInv => AccountsAgree
  BY InvImpliesAgree
<1> QED BY <1>1, Invariant, PTL

(* record_reward never gives a backend more than one capped reward per     *)
(* call counted, and the window of call records is the last of them, each  *)
(* marked rewarded exactly when the scheduler has it so.                   *)
THEOREM OneRewardEach == Spec => []RewardsAreTold
<1>1. IInv => RewardsAreTold
  BY DEF IInv, RewardsAreTold
<1> QED BY <1>1, Invariant, PTL

(* generate: the retries and the fallbacks of a call together stay within  *)
(* max_call_attempts and within the product of both, a response was an     *)
(* attempt, and no role scope is let through more often than its limit.    *)
THEOREM CallsKeepContract == Spec => []CallContract
<1>1. IInv => CallContract
  BY DEF IInv
<1> QED BY <1>1, Invariant, PTL

(* _record_provider_failure_policy_state: a backend quarantined for a role *)
(* stays so, for no call of that role ever selects it and so none succeeds *)
(* on it.                                                                  *)
THEOREM QuarantineIsKept == Spec => QuarantineHolds
<1>1. ASSUME IInv, [Next]_vars
      PROVE  [\A r \in Roles, b \in Backends :
                provider[r][b].quarantined =>
                  /\ provider'[r][b].quarantined
                  /\ (totalRecords' # totalRecords /\ call.role = r)
                       => call.backend # b]_vars
  BY <1>1, QuarantineStep DEF IInv, Unlifted
<1> QED BY <1>1, Invariant, PTL DEF Spec, QuarantineHolds
=============================================================================
