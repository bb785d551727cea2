------------------------------ MODULE MCSweep ------------------------------
(* Instances of SweepPipeline for TLC.                                     *)
EXTENDS SweepProperties, TLC

CONSTANTS w1, w2, main, typo

SweepCursors == {NoCursor}
TwoWorkers == {w1, w2}
WorkerSymmetry == Permutations(TwoWorkers)
=============================================================================
