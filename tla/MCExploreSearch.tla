-------------------------- MODULE MCExploreSearch --------------------------
(* ExploreSearch with two filters and small tool lists: a search tool of    *)
(* any schema over two pairs of filters' names, or over two names of the    *)
(* query and one of neither, behind a tool that is not about jobs; two such *)
(* tools, one that does not search, or none.                                *)
EXTENDS ExploreSearch, TLC
Symmetry == Permutations(Sources)

Schemas(names) ==
    {x \in [job : {TRUE}, search : {TRUE},
            params : SUBSET names, required : SUBSET names] :
        x.required \subseteq x.params}
General == [job |-> FALSE, search |-> TRUE, params |-> {"q", "location"},
            required |-> {"location"}]
Details == [job |-> TRUE, search |-> FALSE, params |-> {}, required |-> {}]

MCToolLists ==
    {<<>>, <<Details>>, <<General, General>>}
        \cup {<<General, t>> : t \in Schemas({"location", "city", "hours_old",
                                              "date_posted"})}
        \cup {<<General, t>> : t \in Schemas({"query", "q", "other"})}
MCFilters == {"location", "posted_within_days"}
=============================================================================
