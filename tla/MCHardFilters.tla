--------------------------- MODULE MCHardFilters ---------------------------
(* HardFilters with two jobs.  Screenings do not look at one another but at *)
(* what was applied for, so one job passes the other filters, and the other *)
(* is one of its own company or of another, applied for all the same.       *)
EXTENDS HardFilters, TLC
CONSTANTS a, b, j1
Symmetry == Permutations(Marks)

(* A file with a cooldown and one without.                                  *)
MCFiles == {Keys, Keys \ {"company_cooldown_days"}}
MCPostings ==
    {[j \in Jobs |-> [company |-> IF j = j1 THEN a ELSE c,
                      place |-> TRUE, type |-> TRUE, keyword |-> j # j1]] :
        c \in {a, b}}
=============================================================================
