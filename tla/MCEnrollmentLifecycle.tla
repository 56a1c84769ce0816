----------------------- MODULE MCEnrollmentLifecycle -----------------------
(* Model values and symmetry for EnrollmentLifecycle. *)
EXTENDS EnrollmentLifecycle, TLC

Symmetry == Permutations(Records) \cup Permutations(Ingesters)
=============================================================================
