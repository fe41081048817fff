------------------------- MODULE ExploreSearchProofs -------------------------
(***************************************************************************)
(* Proofs about ExploreSearch for any sources, tool lists, filters and      *)
(* bounds on days and ages.                                                 *)
(*                                                                          *)
(* The inductive invariant says of each source how its call was made        *)
(* (CallsAsPrepared) and what it found (FoundAsAsked), and of the answer    *)
(* that it is an error or the merge of what the sources found (Merged).     *)
(***************************************************************************)
EXTENDS ExploreSearch, TLAPS, WellFoundedInduction

(* The call of a source gives what its tool and the filters lead to.        *)
CallsAsPrepared ==
    \A s \in Sources : source[s].pc \in {"call", "answered"} =>
        /\ source[s].tool \in Tool
        /\ source[s].tool.required \subseteq source[s].tool.params
        /\ MissingRequired(source[s].tool) = {}
        /\ source[s].given = Arguments(source[s].tool)

FoundAsAsked == \A s \in Sources : At(s, "answered") => source[s].found = Given(s)

Merged ==
    /\ answer.status # "open" => AllSettled
    /\ answer.status = "ok" => answer.results = Kept

IInv == TypeOK /\ CallsAsPrepared /\ FoundAsAsked /\ Merged

-----------------------------------------------------------------------------
(* A set of numbers that is not empty has a least one.                      *)
LEMMA LeastExists ==
    ASSUME NEW S, S \subseteq Nat, S # {}
    PROVE  Min(S) \in S
<1> DEFINE R == OpToRel(<, Nat)
<1>1. IsWellFoundedOn(R, Nat)
  BY NatLessThanWellFounded
<1> HIDE DEF R
<1>2. PICK x \in S : \A y \in S : ~(<<y, x>> \in R)
  BY <1>1, WFMin
<1>3. \A y \in S : ~(y < x)
  BY <1>2 DEF R, OpToRel
<1>4. \A y \in S : x <= y
  <2> TAKE y \in S
  <2>1. x \in Nat /\ y \in Nat
    OBVIOUS
  <2> QED
    BY <1>3, <2>1
<1> QED
  BY <1>4 DEF Min

(* build_capability_matrix() chooses a tool of the list, or none.           *)
LEMMA SearchToolOfList ==
    ASSUME NEW list \in ToolLists
    PROVE  \/ SearchTool(list) = NULL
           \/ \E i \in DOMAIN list : SearchTool(list) = list[i]
<1> DEFINE fits == {i \in DOMAIN list :
                       /\ list[i].search
                       /\ list[i].job \/ \A k \in DOMAIN list : ~list[k].job}
<1>1. SearchTool(list) = IF fits = {} THEN NULL ELSE list[Min(fits)]
  BY DEF SearchTool
<1>2. fits \subseteq DOMAIN list /\ DOMAIN list \subseteq Nat
  BY ToolsAssumption
<1> HIDE DEF fits
<1>3. CASE fits # {}
  BY <1>1, <1>2, <1>3, LeastExists
<1> QED
  BY <1>1, <1>3

LEMMA ToolsOfLists ==
    ASSUME NEW list \in ToolLists, NEW i \in DOMAIN list
    PROVE  list[i] \in Tool /\ list[i].required \subseteq list[i].params
BY ToolsAssumption

(* _first_present() gives one of the names that the schema has, if any.     *)
LEMMA FirstPresentMeans ==
    ASSUME NEW names, DOMAIN names \subseteq Nat, NEW params
    PROVE  LET of == {names[i] : i \in DOMAIN names} \cap params
           IN  /\ FirstPresent(names, params) \subseteq of
               /\ of # {} => FirstPresent(names, params) # {}
<1> DEFINE present == {i \in DOMAIN names : names[i] \in params}
<1>1. FirstPresent(names, params) =
          IF present = {} THEN {} ELSE {names[Min(present)]}
  BY DEF FirstPresent
<1>2. present \subseteq Nat
  OBVIOUS
<1>3. present # {} => Min(present) \in present
  BY <1>2, LeastExists
<1>4. {names[i] : i \in DOMAIN names} \cap params # {} => present # {}
  OBVIOUS
<1>5. present # {} =>
          names[Min(present)] \in {names[i] : i \in DOMAIN names} \cap params
  BY <1>3
<1> HIDE DEF present
<1> QED
  BY <1>1, <1>4, <1>5

LEMMA NamesNumbered ==
    /\ DOMAIN QueryNames \subseteq Nat
    /\ \A f \in DOMAIN Candidates : DOMAIN Candidates[f] \subseteq Nat
BY DEF QueryNames, Candidates

(* What a call gives belongs to the query or to filters the search has.     *)
LEMMA ArgumentsOfFilters ==
    ASSUME TypeOK, NEW tool, NEW p \in Arguments(tool)
    PROVE  p \in QueryParams \/ \E f \in filters : p \in ParamsOf(f)
<1>1. CASE p \in FirstPresent(QueryNames, tool.params)
  BY <1>1, NamesNumbered, FirstPresentMeans DEF QueryParams
<1>2. ASSUME NEW f \in filters, p \in FirstPresent(Candidates[f], tool.params)
      PROVE  p \in ParamsOf(f)
  <2>1. f \in DOMAIN Candidates
    BY BoundsAssumption DEF TypeOK
  <2>2. DOMAIN Candidates[f] \subseteq Nat
    BY <2>1, NamesNumbered
  <2> QED
    BY <1>2, <2>2, FirstPresentMeans DEF ParamsOf
<1> QED
  BY <1>1, <1>2 DEF Arguments

LEMMA ArgumentsType ==
    ASSUME TypeOK, NEW tool PROVE Arguments(tool) \subseteq Params
<1>1. filters \subseteq DOMAIN Candidates
  BY BoundsAssumption DEF TypeOK
<1> QED
  BY <1>1, ArgumentsOfFilters DEF FilterParams, Params

-----------------------------------------------------------------------------
LEMMA InitIInv == Init => IInv
<1> SUFFICES ASSUME Init PROVE IInv
  OBVIOUS
<1>1. TypeOK
  <2>1. source \in [Sources -> Search]
    BY DEF Init, Search
  <2>2. answer \in Answers
    BY DEF Init, Answers
  <2>3. value \in Values
    BY DEF Init, Values
  <2> QED
    BY <2>1, <2>2, <2>3 DEF Init, TypeOK
<1>2. CallsAsPrepared /\ FoundAsAsked
  BY DEF Init, CallsAsPrepared, FoundAsAsked, At
<1>3. Merged
  BY DEF Init, Merged
<1> QED
  BY <1>1, <1>2, <1>3 DEF IInv

(* While a source is still at work there is no answer yet.                  *)
LEMMA NoAnswerWhileOpen ==
    ASSUME IInv, NEW s \in Sources, source[s].pc \in {"list", "call"}
    PROVE  answer.status = "open"
BY DEF IInv, Merged, AllSettled, Settled

(* A step of one source, to an entry that says how its call was made.       *)
LEMMA SourceStep ==
    ASSUME IInv, NEW s \in Sources, source[s].pc \in {"list", "call"},
           NEW e \in Search, source' = [source EXCEPT ![s] = e],
           UNCHANGED <<filters, value, days, answer>>,
           e.pc \in {"call", "answered"} =>
               /\ e.tool \in Tool
               /\ e.tool.required \subseteq e.tool.params
               /\ MissingRequired(e.tool) = {}
               /\ e.given = Arguments(e.tool),
           e.pc = "answered" =>
               e.found = {age \in Ages : age # NULL => age <= AgeAsked(e.given)}
    PROVE  IInv'
<1>1. answer.status = "open"
  BY NoAnswerWhileOpen
<1>2. TypeOK'
  BY DEF IInv, TypeOK
<1>3. source'[s] = e /\ \A t \in Sources : t # s => source'[t] = source[t]
  BY DEF IInv, TypeOK
<1>4. CallsAsPrepared'
  <2> SUFFICES ASSUME NEW t \in Sources, source'[t].pc \in {"call", "answered"}
               PROVE  /\ source'[t].tool \in Tool
                      /\ source'[t].tool.required \subseteq source'[t].tool.params
                      /\ MissingRequired(source'[t].tool) = {}
                      /\ source'[t].given = Arguments(source'[t].tool)
    BY DEF CallsAsPrepared, MissingRequired, Arguments
  <2>1. CASE t = s
    BY <1>3, <2>1
  <2>2. CASE t # s
    BY <1>3, <2>2 DEF IInv, CallsAsPrepared
  <2> QED
    BY <2>1, <2>2
<1>5. FoundAsAsked'
  <2> SUFFICES ASSUME NEW t \in Sources, source'[t].pc = "answered"
               PROVE  source'[t].found =
                          {age \in Ages : age # NULL =>
                              age <= AgeAsked(source'[t].given)}
    BY DEF FoundAsAsked, Given, AgeAsked, At
  <2>1. CASE t = s
    BY <1>3, <2>1
  <2>2. CASE t # s
    BY <1>3, <2>2 DEF IInv, FoundAsAsked, Given, At
  <2> QED
    BY <2>1, <2>2
<1>6. Merged'
  BY <1>1 DEF Merged
<1> QED
  BY <1>2, <1>4, <1>5, <1>6 DEF IInv

LEMMA ListToolsStep ==
    ASSUME IInv, NEW s \in Sources, ListTools(s) PROVE IInv'
<1>1. PICK list \in ToolLists :
          LET tool == SearchTool(list)
              call == IF tool = NULL THEN FALSE ELSE MissingRequired(tool) = {}
          IN  source' = [source EXCEPT ![s] =
                  [@ EXCEPT !.pc = IF call THEN "call" ELSE "skipped",
                            !.tool = tool,
                            !.given = IF call THEN Arguments(tool) ELSE {}]]
  BY DEF ListTools
<1> DEFINE tool == SearchTool(list)
           call == IF tool = NULL THEN FALSE ELSE MissingRequired(tool) = {}
           e == [source[s] EXCEPT !.pc = IF call THEN "call" ELSE "skipped",
                                  !.tool = tool,
                                  !.given = IF call THEN Arguments(tool) ELSE {}]
<1>2. tool = NULL \/ \E i \in DOMAIN list : tool = list[i]
  BY SearchToolOfList
<1>3. source[s] \in Search
  BY DEF IInv, TypeOK
<1>4. Arguments(tool) \subseteq Params
  BY ArgumentsType DEF IInv
<1>5. tool # NULL => tool \in Tool /\ tool.required \subseteq tool.params
  BY <1>2, ToolsOfLists
<1>6. call => tool # NULL /\ MissingRequired(tool) = {}
  OBVIOUS
<1>7. tool \in Tool \cup {NULL}
  BY <1>5
<1>8. source' = [source EXCEPT ![s] = e]
  BY <1>1
<1> HIDE DEF tool, call
<1>9. e \in Search
  BY <1>3, <1>4, <1>7 DEF Search, Settled
<1>10. e.pc = IF call THEN "call" ELSE "skipped"
  BY <1>3 DEF Search
<1>11. e.tool = tool /\ (call => e.given = Arguments(tool))
  BY <1>3 DEF Search
<1>12. e.pc \in {"call", "answered"} =>
           /\ e.tool \in Tool
           /\ e.tool.required \subseteq e.tool.params
           /\ MissingRequired(e.tool) = {}
           /\ e.given = Arguments(e.tool)
  BY <1>5, <1>6, <1>10, <1>11
<1>13. e.pc # "answered"
  BY <1>10
<1>14. source[s].pc = "list" /\ UNCHANGED <<filters, value, days, answer>>
  BY DEF ListTools, At, Asked
<1> HIDE DEF e
<1> QED
  BY <1>8, <1>9, <1>12, <1>13, <1>14, SourceStep

LEMMA CallToolStep ==
    ASSUME IInv, NEW s \in Sources, CallTool(s) PROVE IInv'
<1>1. source[s].pc = "call" /\ UNCHANGED <<filters, value, days, answer>>
  BY DEF CallTool, At, Asked
<1>2. source[s] \in Search
  BY DEF IInv, TypeOK
<1>3. ASSUME NEW bad \in {{}} \cup {{age} : age \in Given(s)},
             source' = [source EXCEPT ![s] =
                 [@ EXCEPT !.pc = "answered", !.found = Given(s), !.bad = bad]]
      PROVE  IInv'
  <2> DEFINE e == [source[s] EXCEPT !.pc = "answered", !.found = Given(s), !.bad = bad]
  <2>1. Given(s) \subseteq Ages
    BY DEF Given
  <2>2. bad \subseteq Ages
    BY <2>1
  <2>3. e \in Search /\ e.tool = source[s].tool /\ e.given = source[s].given
        /\ e.found = Given(s)
    BY <1>2, <2>1, <2>2 DEF Search, Settled
  <2>4. source' = [source EXCEPT ![s] = e]
    BY <1>3
  <2>5. /\ e.tool \in Tool
        /\ e.tool.required \subseteq e.tool.params
        /\ MissingRequired(e.tool) = {}
        /\ e.given = Arguments(e.tool)
    BY <1>1, <2>3 DEF IInv, CallsAsPrepared
  <2>6. e.found = {age \in Ages : age # NULL => age <= AgeAsked(e.given)}
    BY <2>3 DEF Given
  <2> HIDE DEF e
  <2> QED
    BY <1>1, <2>3, <2>4, <2>5, <2>6, SourceStep
<1>4. CASE Go(s, "skipped")
  <2> DEFINE e == [source[s] EXCEPT !.pc = "skipped"]
  <2>1. e \in Search /\ e.pc = "skipped"
    BY <1>2 DEF Search, Settled
  <2>2. source' = [source EXCEPT ![s] = e]
    BY <1>4 DEF Go
  <2> HIDE DEF e
  <2> QED
    BY <1>1, <2>1, <2>2, SourceStep
<1> QED
  BY <1>3, <1>4 DEF CallTool

LEMMA RaiseStep ==
    ASSUME IInv, NEW s \in Sources, Raise(s) PROVE IInv'
<1> DEFINE e == [source[s] EXCEPT !.pc = "failed"]
<1>1. source[s] \in Search
  BY DEF IInv, TypeOK
<1>2. e \in Search /\ e.pc = "failed"
  BY <1>1 DEF Search, Settled
<1>3. source' = [source EXCEPT ![s] = e]
  BY DEF Raise, Go
<1>4. source[s].pc \in {"list", "call"} /\ UNCHANGED <<filters, value, days, answer>>
  BY DEF Raise, Asked
<1> HIDE DEF e
<1> QED
  BY <1>2, <1>3, <1>4, SourceStep

LEMMA GatherStep == IInv /\ Gather => IInv'
<1> SUFFICES ASSUME IInv, Gather PROVE IInv'
  OBVIOUS
<1>1. UNCHANGED <<filters, value, days, source>>
  BY DEF Gather, Asked
<1>2. answer' = IF Fails THEN [status |-> "error", results |-> {}]
                         ELSE [status |-> "ok", results |-> Kept]
  BY DEF Gather, Answer
<1>3. TypeOK'
  <2>1. answer' \in Answers
    BY <1>2 DEF Answers, Kept
  <2> QED
    BY <1>1, <2>1 DEF IInv, TypeOK
<1>4. CallsAsPrepared'
  BY <1>1 DEF IInv, CallsAsPrepared, MissingRequired, Arguments
<1>5. FoundAsAsked'
  BY <1>1 DEF IInv, FoundAsAsked, Given, AgeAsked, At
<1>6. Merged'
  <2>1. Kept' = Kept /\ AllSettled'
    BY <1>1 DEF Kept, Recent, AllSettled, Gather
  <2> QED
    BY <1>2, <2>1 DEF Merged
<1> QED
  BY <1>3, <1>4, <1>5, <1>6 DEF IInv

LEMMA Inductive == IInv /\ [Next]_vars => IInv'
<1> SUFFICES ASSUME IInv, [Next]_vars PROVE IInv'
  OBVIOUS
<1>1. CASE UNCHANGED vars
  BY <1>1 DEF vars, IInv, TypeOK, CallsAsPrepared, MissingRequired, Arguments,
              FoundAsAsked, Given, AgeAsked, At, Merged, AllSettled, Kept, Recent
<1>2. CASE Gather
  BY <1>2, GatherStep
<1>3. ASSUME NEW s \in Sources, ListTools(s) \/ CallTool(s) \/ Raise(s)
      PROVE  IInv'
  BY <1>3, ListToolsStep, CallToolStep, RaiseStep
<1> QED
  BY <1>1, <1>2, <1>3 DEF Next

LEMMA Invariant == Spec => []IInv
BY InitIInv, Inductive, PTL DEF Spec

-----------------------------------------------------------------------------
(* Filters, sources and the merged answer keep their types, whatever the    *)
(* servers list and however the sources end.                                *)
THEOREM TypeCorrect == Spec => []TypeOK
<1>1. IInv => TypeOK
  BY DEF IInv
<1> QED
  BY <1>1, Invariant, PTL

(* search_source() makes no call that lacks a required parameter for want   *)
(* of a filter, whatever the schemas of the servers.                        *)
THEOREM FilterNeverMissing == Spec => []NoFilterMissing
<1>1. ASSUME IInv PROVE NoFilterMissing
  <2> SUFFICES ASSUME NEW s \in Sources, At(s, "call"),
                      NEW p \in source[s].tool.required \ source[s].given
               PROVE  \/ p = "other"
                      \/ p \in QueryParams /\ QueryParams \cap source[s].given # {}
                      \/ \E f \in filters :
                            /\ p \in ParamsOf(f)
                            /\ ParamsOf(f) \cap source[s].given # {}
    BY DEF NoFilterMissing
  <2> DEFINE tool == source[s].tool
  <2>1. /\ tool \in Tool /\ tool.required \subseteq tool.params
        /\ MissingRequired(tool) = {} /\ source[s].given = Arguments(tool)
    BY <1>1 DEF IInv, CallsAsPrepared, At
  <2>2. p \in tool.required /\ p \in tool.params
    BY <2>1
  <2>3. p \in FilterParams \cup QueryParams \cup {"other"}
    BY <2>1, <2>2 DEF Tool, Params
  <2>4. ASSUME p \in QueryParams PROVE QueryParams \cap source[s].given # {}
    <3>1. FirstPresent(QueryNames, tool.params) \subseteq QueryParams
          /\ FirstPresent(QueryNames, tool.params) # {}
      BY <2>2, <2>4, NamesNumbered, FirstPresentMeans DEF QueryParams
    <3>2. FirstPresent(QueryNames, tool.params) \subseteq source[s].given
      BY <2>1 DEF Arguments
    <3> QED
      BY <3>1, <3>2
  <2>5. ASSUME p \in FilterParams
        PROVE  \E f \in filters : /\ p \in ParamsOf(f)
                                  /\ ParamsOf(f) \cap source[s].given # {}
    <3>1. PICK f \in DOMAIN Candidates : p \in ParamsOf(f)
      BY <2>5 DEF FilterParams
    <3>2. f \in filters
      BY <2>1, <2>2, <3>1 DEF MissingRequired
    <3>3. DOMAIN Candidates[f] \subseteq Nat
      BY <3>1, NamesNumbered
    <3>4. FirstPresent(Candidates[f], tool.params) \subseteq ParamsOf(f)
          /\ FirstPresent(Candidates[f], tool.params) # {}
      BY <2>2, <3>1, <3>3, FirstPresentMeans DEF ParamsOf
    <3>5. FirstPresent(Candidates[f], tool.params) \subseteq source[s].given
      BY <2>1, <3>2 DEF Arguments
    <3> QED
      BY <3>1, <3>2, <3>4, <3>5
  <2> QED
    BY <2>3, <2>4, <2>5
<1> QED
  BY <1>1, Invariant, PTL

(* In a response that is no error, search() keeps every young enough        *)
(* posting of every source that answered, whatever happens to the others.   *)
THEOREM AnsweredAlwaysKept == Spec => []AnsweredIsKept
<1>1. ASSUME IInv PROVE AnsweredIsKept
  <2> SUFFICES ASSUME answer.status = "ok", NEW s \in Sources, At(s, "answered"),
                      NEW age \in Ages \ {NULL}, Recent(age),
                      "hours_old" \in source[s].given => age <= days
               PROVE  [source |-> s, age |-> age] \in answer.results
    BY DEF AnsweredIsKept
  <2>1. answer.results = Kept
    BY <1>1 DEF IInv, Merged
  <2>2. source[s].found = {a \in Ages : a # NULL => a <= AgeAsked(source[s].given)}
    BY <1>1 DEF IInv, FoundAsAsked, Given
  <2>3. age \in Nat /\ age <= MaxAge
    BY BoundsAssumption DEF Ages
  <2>4. age <= AgeAsked(source[s].given)
    <3>1. CASE value = "days" /\ "hours_old" \in source[s].given
      BY <3>1 DEF AgeAsked
    <3>2. CASE /\ value = "days" /\ "hours_old" \notin source[s].given
               /\ source[s].given \cap ParamsOf("posted_within_days") # {}
      BY <3>2 DEF AgeAsked, Recent
    <3>3. CASE \/ value # "days"
               \/ /\ "hours_old" \notin source[s].given
                  /\ source[s].given \cap ParamsOf("posted_within_days") = {}
      BY <2>3, <3>3 DEF AgeAsked
    <3> QED
      BY <3>1, <3>2, <3>3
  <2>5. age \in source[s].found
    BY <2>2, <2>4
  <2> QED
    BY <2>1, <2>5 DEF Kept, Results
<1> QED
  BY <1>1, Invariant, PTL

(* _filter_by_recency() lets nothing older, or of unknown age, through      *)
(* where it has a number of days, and nothing is lost where it has none.    *)
THEOREM OnlyRecentEverShown == Spec => []OnlyRecentShown
<1>1. ASSUME IInv, answer.status = "ok", value = "days", NEW r \in answer.results
      PROVE  r.age \in 0..days * DayHours
  <2>1. r \in Results /\ Recent(r.age)
    BY <1>1 DEF IInv, Merged, Kept
  <2>2. r.age \in Ages /\ r.age # NULL /\ r.age <= days * DayHours
    BY <1>1, <2>1 DEF Recent, Results
  <2>3. r.age \in Nat
    BY <2>2, BoundsAssumption DEF Ages
  <2>4. days * DayHours \in Nat
    BY <1>1, BoundsAssumption DEF IInv, TypeOK
  <2> QED
    BY <2>2, <2>3, <2>4
<1>2. ASSUME IInv, answer.status = "ok", value # "days",
             NEW s \in Sources, At(s, "answered"), NEW age \in Ages
      PROVE  [source |-> s, age |-> age] \in answer.results
  <2>1. source[s].found = {a \in Ages : a # NULL => a <= AgeAsked(source[s].given)}
    BY <1>2 DEF IInv, FoundAsAsked, Given
  <2>2. AgeAsked(source[s].given) = MaxAge
    BY <1>2 DEF AgeAsked
  <2>3. age # NULL => age \in Nat /\ age <= MaxAge
    BY BoundsAssumption DEF Ages
  <2>4. age \in source[s].found
    BY <2>1, <2>2, <2>3
  <2> QED
    BY <1>2, <2>4 DEF IInv, Merged, Kept, Recent, Results
<1>3. IInv => OnlyRecentShown
  BY <1>1, <1>2 DEF OnlyRecentShown
<1> QED
  BY <1>3, Invariant, PTL
=============================================================================
