------------------------------ MODULE BestEver ------------------------------
(***************************************************************************)
(* What a population of programs promises the loop that fills it: the rank *)
(* of the program that exploiting it returns is the best ever offered.     *)
(***************************************************************************)
EXTENDS Integers

CONSTANTS Candidates, Key

VARIABLES
  seen,   \* the candidates offered
  best    \* the rank of the best of them; -1: none

vars == <<seen, best>>

Init ==
  /\ seen = {}
  /\ best = -1

Offer(p) ==
  /\ p \notin seen
  /\ seen' = seen \cup {p}
  /\ best' = IF Key[p] > best THEN Key[p] ELSE best

Next == \E p \in Candidates : Offer(p)

Spec == Init /\ [][Next]_vars
=============================================================================
