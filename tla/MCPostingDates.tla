--------------------------- MODULE MCPostingDates ---------------------------
(* PostingDates with a few postings, of each source and zone.               *)
EXTENDS PostingDates, TLC
Symmetry == Permutations(Jobs)

(* A source writes its zone, or there is none to write; a date alone and an *)
(* ISO date may be naive; what is counted in days begins within a day.      *)
AllPostings ==
    {p \in Posting : /\ p.at = IF p.source = "hasdata" \/ ~p.timed THEN 1 ELSE 0
                     /\ p.zoned = (p.source # "lever" /\ p.timed)
                     /\ p.source \in {"hasdata", "lever"} => p.zone = 0 /\ p.timed
                     /\ ~p.timed => p.source = "jobspy" \/ (p.source = "iso" /\ p.zone = 1)
                     /\ ~p.dated => p.source = "iso" /\ p.zone = 0}
        \cup {[source |-> "iso", at |-> 1, zone |-> 0, zoned |-> FALSE,
               timed |-> TRUE, dated |-> TRUE]}
Zones == {-1, 0, 1}
=============================================================================
