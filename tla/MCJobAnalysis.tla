--------------------------- MODULE MCJobAnalysis ---------------------------
(* JobAnalysis with a few postings and requests.                            *)
EXTENDS JobAnalysis, TLC, FiniteSets
Symmetry == Permutations(Tasks) \cup Permutations(Jobs)
=============================================================================
