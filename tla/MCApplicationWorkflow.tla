----------------------- MODULE MCApplicationWorkflow -----------------------
(* ApplicationWorkflow with a few applications and requests.                *)
EXTENDS ApplicationWorkflow, TLC
Symmetry == Permutations(Requests) \cup Permutations(Apps)
=============================================================================
