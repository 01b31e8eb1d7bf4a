------------------------ MODULE MCEmployeeWorkspace ------------------------
(* EmployeeWorkspace for TLC.                                               *)
EXTENDS EmployeeWorkspace, TLC

MCSpecialists == {"legal_specialist", "product_specialist"}
RequestSymmetry == Permutations(Requests)
=============================================================================
