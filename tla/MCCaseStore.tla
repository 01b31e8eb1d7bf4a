----------------------------- MODULE MCCaseStore -----------------------------
(* CaseStore for TLC: requests are interchangeable.                         *)
EXTENDS CaseStore, TLC

RequestSymmetry == Permutations(Requests)
=============================================================================
