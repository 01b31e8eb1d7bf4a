--------------------------- MODULE MCIntakeSession ---------------------------
(* IntakeSession for TLC: the forms a draft starts from. *)
EXTENDS IntakeSession, TLC

CONSTANTS a, b

\* An RM's form; a customer's form next to the CRM's profile.
MCForms == {
    <<[source |-> "RM_INPUT", value |-> a]>>,
    <<[source |-> "CUSTOMER_INPUT", value |-> a], [source |-> "CRM_PROFILE", value |-> b]>>}

MCClaims == [d \in Docs |-> b]

Symmetry == Permutations(Requests) \cup Permutations(Docs)
=============================================================================
