---------------------------- MODULE MCCaseService ----------------------------
(* CaseService for TLC: the findings an analysis may be told.               *)
EXTENDS CaseService, TLC

Finding(products, eligibility, invalid, reviewable, payload) ==
    [products |-> products, eligibility |-> eligibility, invalid |-> invalid,
     cited |-> TRUE, reviewable |-> reviewable, payload |-> payload]

Eligible == {Finding(TRUE, "passed", {}, FALSE, p) : p \in Payloads}
Incomplete == {Finding(TRUE, "pending_information", {}, FALSE, p) : p \in Payloads}
Contested == {Finding(TRUE, "passed", EvidenceModules, TRUE, p) : p \in Payloads}
Ungrounded == {Finding(FALSE, "passed", {}, FALSE, p) : p \in Payloads}

ApprovalFindings == Eligible
LifecycleFindings == Eligible \cup Contested \cup Ungrounded
ReviewFindings == Eligible \cup Contested \cup Ungrounded \cup Incomplete

Symmetry ==
    Permutations(Requests) \cup Permutations(Keys) \cup Permutations(Payloads)
    \cup Permutations(Employees)
=============================================================================
