----------------------------- MODULE FiniteSums -----------------------------
(***************************************************************************)
(* The sum of the values of a function over a finite part of its domain.   *)
(***************************************************************************)
EXTENDS Integers, FiniteSetsExt

SumOf(f, S) == MapThenSumSet(LAMBDA x : f[x], S)
=============================================================================
