------------------------- MODULE MCCascadeEvaluator -------------------------
(***************************************************************************)
(* Small cascades for TLC.                                                 *)
(***************************************************************************)
EXTENDS CascadeEvaluator

(* One serial sample, one attempt, no deadline, no test. *)
Default == [PlainStage EXCEPT !.minScore = 0]

(* A retry under a deadline of the sample, then a test that may end the    *)
(* sampling early: two successes of two reach a rate of two thirds at      *)
(* z = 1, two of three do not.                                             *)
Gate ==
  [Default EXCEPT !.retries = 1, !.sampleSeconds = 3, !.minScore = 6]
Sequential ==
  [Default EXCEPT !.samples = 3, !.test = "sequential", !.minSamples = 2,
                  !.success = 6, !.rate = <<1, 2>>, !.timeout = 1]

(* Two samples on two threads, with retries, under both deadlines; three   *)
(* samples on two threads, where the third may come too late.              *)
Pool ==
  [Default EXCEPT !.samples = 2, !.workers = 2, !.retries = 1,
                  !.seconds = 3, !.sampleSeconds = 2, !.aggregation = "max",
                  !.minScore = 6]
Queue ==
  [Default EXCEPT !.samples = 3, !.workers = 2, !.seconds = 2,
                  !.sampleSeconds = 1, !.aggregation = "last"]

(* The candidate's own function, in turn, under a deadline of the stage.   *)
Embedded ==
  [Default EXCEPT !.samples = 2, !.seconds = 2, !.embedded = TRUE,
                  !.timeout = 3, !.sampleSeconds = 3,
                  !.aggregation = "min", !.test = "fixed",
                  !.rate = <<1, 3>>, !.success = 0]

Cascades ==
            {<< >>, <<Gate, Sequential>>, <<Pool>>, <<Queue>>,
             <<Embedded, Default>>}
ScoresOfTwo == {0, 6}
Fine == -6
=============================================================================
