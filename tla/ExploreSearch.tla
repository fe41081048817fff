---------------------------- MODULE ExploreSearch ----------------------------
(***************************************************************************)
(* POST /explore/search: every configured MCP source is asked for its tools *)
(* and, where one of them fits, searched; what the sources give is merged   *)
(* and the recency filter applied.  The sources run side by side.           *)
(*                                                                          *)
(* A server's tool list is what matching its texts yields: whether a tool   *)
(* speaks of jobs, whether it searches, and the parameters of its schema.   *)
(* Servers are honest: they reject a call that lacks a required parameter,  *)
(* and otherwise give all their postings, no older than a date parameter    *)
(* asks for.  A posting is its age in hours, or NULL where none can be      *)
(* derived, DayHours of them to a day; it is malformed where normalizing it *)
(* succeeds but ExploreResultOut does not take it.                          *)
(***************************************************************************)
EXTENDS Naturals, Sequences, FiniteSetsExt
CONSTANTS Sources,
          ToolLists,          \* the lists a server may answer list_tools with
          Filters, MaxDays,   \* filters a search may have
          DayHours, MaxAge,   \* hours to a day, the oldest posting
          NULL

(* FILTER_PARAM_CANDIDATES, in priority order.                              *)
Candidates ==
    [location |-> <<"location", "city", "region">>,
     company |-> <<"company", "employer">>,
     employment_type |-> <<"employment_type", "job_type", "commitment">>,
     remote |-> <<"remote", "is_remote", "work_model">>,
     experience |-> <<"experience", "seniority", "years">>,
     skills |-> <<"skills", "skill">>,
     posted_within_days |->
        <<"hours_old", "posted_within_days", "date_posted">>]

ParamsOf(filter) == {Candidates[filter][i] : i \in DOMAIN Candidates[filter]}
FilterParams == UNION {ParamsOf(f) : f \in DOMAIN Candidates}

(* The names of the query; "other" stands for one no candidate list has.    *)
QueryNames == <<"query", "search_term", "keyword", "keywords", "q", "title">>
QueryParams == {QueryNames[i] : i \in DOMAIN QueryNames}
Params == FilterParams \cup QueryParams \cup {"other"}

Tool == [job : BOOLEAN, search : BOOLEAN,
         params : SUBSET Params, required : SUBSET Params]

ASSUME BoundsAssumption ==
    /\ Filters \subseteq DOMAIN Candidates
    /\ MaxDays \in Nat \ {0} /\ DayHours \in Nat \ {0} /\ MaxAge \in Nat
    /\ NULL \notin 0..MaxAge
ASSUME ToolsAssumption ==
    /\ ToolLists \subseteq Seq(Tool)
    /\ \A list \in ToolLists : \A i \in DOMAIN list :
          list[i].required \subseteq list[i].params

VARIABLES
    filters,  \* the filters of the search
    value,    \* what posted_within_days holds, if it is among them
    days,     \* that number of days
    source,   \* what the search of each source is doing
    answer    \* the response and the results in it

vars == <<filters, value, days, source, answer>>

(* Nothing in the request says what posted_within_days is: days, nothing,   *)
(* what float() does not read, or what timedelta() does not hold.           *)
Values == {"days", "none", "text", "endless"}

Ages == (0..MaxAge) \cup {NULL}
Settled == {"answered", "skipped", "failed"}

(* `tool` is the designated search tool, `given` the parameters that took a *)
(* value, `bad` what is malformed of the postings `found`.                  *)
Search == [pc : {"list", "call"} \cup Settled,
           tool : Tool \cup {NULL}, given : SUBSET Params,
           found : SUBSET Ages, bad : SUBSET Ages]

Results == [source : Sources, age : Ages]
Answers == [status : {"open", "ok", "error"}, results : SUBSET Results]

TypeOK == /\ filters \subseteq Filters
          /\ value \in Values
          /\ days \in 1..MaxDays
          /\ source \in [Sources -> Search]
          /\ answer \in Answers

Init ==
    /\ filters \in SUBSET Filters
    /\ value \in IF "posted_within_days" \in filters THEN Values ELSE {"none"}
    /\ days \in 1..MaxDays
    /\ source = [s \in Sources |->
                    [pc |-> "list", tool |-> NULL, given |-> {},
                     found |-> {}, bad |-> {}]]
    /\ answer = [status |-> "open", results |-> {}]

-----------------------------------------------------------------------------
At(s, pc) == source[s].pc = pc
Go(s, pc) == source' = [source EXCEPT ![s].pc = pc]
Asked == <<filters, value, days>>

(* build_capability_matrix(): the first tool that searches, among those     *)
(* that speak of jobs if any does.                                          *)
SearchTool(list) ==
    LET Fit(i) == /\ list[i].search
                  /\ list[i].job \/ \A k \in DOMAIN list : ~list[k].job
        fits == {i \in DOMAIN list : Fit(i)}
    IN  IF fits = {} THEN NULL ELSE list[Min(fits)]

\* Mutant: only the preferred name of a filter is looked for.
MissingPreferred(tool) ==
    {f \in DOMAIN Candidates \ filters : Candidates[f][1] \in tool.required}

(* required_filters, those the search does not have.                        *)
MissingRequired(tool) ==
    {f \in DOMAIN Candidates \ filters : ParamsOf(f) \cap tool.required # {}}

(* _first_present(): the first of these names that the schema has, if any.  *)
FirstPresent(names, params) ==
    LET present == {i \in DOMAIN names : names[i] \in params}
    IN  IF present = {} THEN {} ELSE {names[Min(present)]}

(* _build_search_arguments()                                                *)
Arguments(tool) ==
    FirstPresent(QueryNames, tool.params)
        \cup UNION {FirstPresent(Candidates[f], tool.params) : f \in filters}

(* search_source(): list_tools() answers, and a call is prepared or not.    *)
ListTools(s) ==
    /\ At(s, "list")
    /\ \E list \in ToolLists :
          LET tool == SearchTool(list)
              call == IF tool = NULL THEN FALSE ELSE MissingRequired(tool) = {}
          IN  source' = [source EXCEPT ![s] =
                  [@ EXCEPT !.pc = IF call THEN "call" ELSE "skipped",
                            !.tool = tool,
                            !.given = IF call THEN Arguments(tool) ELSE {}]]
    /\ UNCHANGED <<Asked, answer>>

(* What an honest server gives for these arguments.                         *)
AgeAsked(given) ==
    IF value # "days" THEN MaxAge
    ELSE IF "hours_old" \in given THEN days
    ELSE IF given \cap ParamsOf("posted_within_days") # {} THEN days * DayHours
    ELSE MaxAge

Given(s) ==
    {age \in Ages : age # NULL => age <= AgeAsked(source[s].given)}

(* call_tool(): results, or an error as every call that lacks a parameter.  *)
(* One malformed posting does what any number of them does.                 *)
CallTool(s) ==
    /\ At(s, "call")
    /\ \/ /\ source[s].tool.required \subseteq source[s].given
          /\ \E bad \in {{}} \cup {{age} : age \in Given(s)} :
                source' = [source EXCEPT ![s] =
                    [@ EXCEPT !.pc = "answered", !.found = Given(s), !.bad = bad]]
       \/ Go(s, "skipped")
    /\ UNCHANGED <<Asked, answer>>

(* The server or the connection fails, the 30 seconds are over, or a result *)
(* cannot be normalized.                                                    *)
Raise(s) ==
    /\ source[s].pc \in {"list", "call"}
    /\ Go(s, "failed")
    /\ UNCHANGED <<Asked, answer>>

(* _filter_by_recency(): what is not a number filters nothing.              *)
Recent(age) == value = "days" => age # NULL /\ age <= days * DayHours

Kept == {r \in Results : r.age \in source[r.source].found /\ Recent(r.age)}

(* The cutoff cannot be computed, or one of the results kept is malformed.  *)
Fails == \/ value = "endless" /\ Sources # {}
         \/ \E r \in Kept : r.age \in source[r.source].bad

AllSettled == \A s \in Sources : source[s].pc \in Settled

Answer(results) ==
    answer' = IF Fails THEN [status |-> "error", results |-> {}]
                       ELSE [status |-> "ok", results |-> results]

\* Mutants: gather() without return_exceptions; the filter keeps postings
\* of unknown age.
GatherRaising ==
    /\ answer.status = "open" /\ AllSettled
    /\ Answer(IF \E s \in Sources : At(s, "failed") THEN {} ELSE Kept)
    /\ UNCHANGED <<Asked, source>>

GatherUnknown ==
    /\ answer.status = "open" /\ AllSettled
    /\ Answer({r \in Results : /\ r.age \in source[r.source].found
                               /\ r.age = NULL \/ Recent(r.age)})
    /\ UNCHANGED <<Asked, source>>

(* search(): all sources' results together, the failed ones skipped; then   *)
(* the route validates them all.                                            *)
Gather ==
    /\ answer.status = "open" /\ AllSettled
    /\ Answer(Kept)
    /\ UNCHANGED <<Asked, source>>

Next == Gather \/ \E s \in Sources : ListTools(s) \/ CallTool(s) \/ Raise(s)

Spec == Init /\ [][Next]_vars

-----------------------------------------------------------------------------
(* A search without a required filter "is guaranteed to fail", so the       *)
(* source is skipped.  What a call still lacks is never for want of a       *)
(* filter: the parameter is no filter's and not the query's, and dropped    *)
(* from required_filters, or the value it would take went out under another *)
(* name of the same filter, or of the query.                                *)
NoFilterMissing ==
    \A s \in Sources : At(s, "call") =>
        \A p \in source[s].tool.required \ source[s].given :
            \/ p = "other"
            \/ p \in QueryParams /\ QueryParams \cap source[s].given # {}
            \/ \E f \in filters : /\ p \in ParamsOf(f)
                                  /\ ParamsOf(f) \cap source[s].given # {}

(* posted_within_days is the "Maximum age in days" of a search.  One source *)
(* failing, being skipped or reading the days as hours never costs another  *)
(* one's postings in a response that is no error: all that are young enough *)
(* are there, however the sources mix, and of one that took hours_old those *)
(* of that many hours still are.                                            *)
AnsweredIsKept ==
    answer.status = "ok" =>
        \A s \in Sources : At(s, "answered") =>
            \A age \in Ages \ {NULL} :
                Recent(age) /\ ("hours_old" \in source[s].given => age <= days)
                    => [source |-> s, age |-> age] \in answer.results

(* Whether the source filters by age, in days or in hours, or not at all,   *)
(* nothing older or of unknown age is shown to a search that gives a number *)
(* of days; what is not a number is no limit, as the code and its test say, *)
(* and none of the results is lost to it.                                   *)
OnlyRecentShown ==
    answer.status = "ok" =>
        IF value = "days" THEN \A r \in answer.results : r.age \in 0..days * DayHours
        ELSE \A s \in Sources : At(s, "answered") =>
                \A age \in Ages : [source |-> s, age |-> age] \in answer.results
=============================================================================
