----------------------------- MODULE MCIslands -----------------------------
(***************************************************************************)
(* Small populations for TLC.                                              *)
(***************************************************************************)
EXTENDS Islands

CONSTANTS p1, p2, p3, p4, p5, m1, m2, c1, c2

Pair(a, b) == m1 :> a @@ m2 :> b

(* Four programs: p1 and p2 are tied and stand at the ends of both metrics,  *)
(* poor in rank; p3 lies between them and p4 dominates it.                 *)
FourKeys == p1 :> 1 @@ p2 :> 1 @@ p3 :> 2 @@ p4 :> 3
FourVectors ==
  p1 :> Pair(0, 2) @@ p2 :> Pair(3, 0) @@ p3 :> Pair(1, 1) @@ p4 :> Pair(2, 1)
FourRoots == p1 :> p1 @@ p2 :> p2 @@ p3 :> p1 @@ p4 :> p4

(* Three valid programs, one of an incomplete vector, and two whose        *)
(* evaluation is invalid.                                                  *)
FiveKeys == FourKeys @@ p5 :> 3
FiveVectors == p1 :> Pair(0, 1) @@ p2 :> Pair(1, 0)
FiveRoots == p1 :> p1 @@ p2 :> p2 @@ p3 :> p3 @@ p4 :> p4 @@ p5 :> p5

(* Three valid programs: two ends and a better one between, and an invalid  *)
(* one.                                                                    *)
RingKeys == [p \in Programs |-> FiveKeys[p]]
RingVectors == [p \in Measured |-> FourVectors[p]]
RingRoots == [p \in Programs |-> FiveRoots[p]]

(* A program of poor rank that no other dominates, among better ones.      *)
PoorKeys == p1 :> 1 @@ p2 :> 2 @@ p3 :> 3 @@ p4 :> 4
PoorVectors == p1 :> Pair(1, 1) @@ p2 :> Pair(0, 2) @@ p3 :> Pair(2, 0)
PoorRoots == [p \in {p1, p2, p3, p4} |-> p]
=============================================================================
