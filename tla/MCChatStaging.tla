--------------------------- MODULE MCChatStaging ---------------------------
(* ChatStaging with a few messages, sessions and sources.                   *)
EXTENDS ChatStaging, TLC
Symmetry == Permutations(Messages) \cup Permutations(Sessions)
                \cup Permutations(Sources)
=============================================================================
