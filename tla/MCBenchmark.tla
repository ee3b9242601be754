---------------------------- MODULE MCBenchmark ----------------------------
(* A small instance of the harness for TLC: one full benchmark, and two    *)
(* iterations of the half one.                                             *)
EXTENDS Benchmark

FullAndHalf == {FullBench, HalfBench \o HalfBench}
=============================================================================
