-------------------------- MODULE MCCreditRequests --------------------------
(* CreditRequests for TLC. *)
EXTENDS CreditRequests, TLC

\* Nothing tells these values apart.
Symmetry ==
    Permutations(Calls) \cup Permutations(RequestIds) \cup Permutations(Keys)
=============================================================================
