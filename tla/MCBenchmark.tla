---------------------------- MODULE MCBenchmark ----------------------------
(* Clients per group for the run of Benchmark.                               *)
EXTENDS Benchmark

OneThenTwo == <<1, 2>>
=============================================================================
