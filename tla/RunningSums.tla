---------------------------- MODULE RunningSums ----------------------------
(***************************************************************************)
(* Sums over an initial segment of the naturals.                           *)
(***************************************************************************)
EXTENDS Integers

\* f[1] + ... + f[n]
SumTo(n, f) ==
  LET sum[i \in 0..n] == IF i = 0 THEN 0 ELSE sum[i - 1] + f[i]
  IN sum[n]
=============================================================================
