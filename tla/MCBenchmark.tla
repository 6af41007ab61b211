----------------------------- MODULE MCBenchmark -----------------------------
(***************************************************************************)
(* A small instance of Benchmark for TLC.                                  *)
(***************************************************************************)
EXTENDS Benchmark, TLC

MCSymmetry == Permutations(Runs)
=============================================================================
