--------------------- MODULE ApplicationWorkflowProofs ---------------------
(***************************************************************************)
(* Proofs about ApplicationWorkflow for any sets of applications and        *)
(* requests.  The two tables are tied together by the request that wrote    *)
(* them last: HistoryHasAuthor says that it was a mark-applied of that      *)
(* application and that it succeeded, DecisionHasAuthor that a decision     *)
(* shown is that of an approve or reject that did.                          *)
(***************************************************************************)
EXTENDS ApplicationWorkflow, TLAPS

(* The history's stamp is that of a mark-applied that succeeded.            *)
HistoryHasAuthor ==
    \A a \in Apps : history[a] # NULL =>
        LET w == history[a] IN
        At(w, "ok") /\ req[w].kind = "mark" /\ App(w) = a

(* A conflict is only met behind a history row.                             *)
ConflictSawRow ==
    \A r \in Requests : At(r, "conflict") => history[App(r)] # NULL

(* Only a mark-applied looks the history up and commits to it.              *)
OnlyMarksUpsert ==
    \A r \in Requests : req[r].pc \in {"upsert", "commit"} =>
                           req[r].kind = "mark"

(* A decision that is shown was taken by a request that succeeded.          *)
DecisionHasAuthor ==
    \A a \in Apps : row[a].status \in {"APPROVED", "REJECTED"} =>
        \E r \in Requests : /\ At(r, "ok") /\ App(r) = a
                            /\ req[r].kind # "mark"
                            /\ row[a].status = Decision(req[r].kind)

(* Nothing is put back to READY_FOR_REVIEW: while an application is there,  *)
(* no session of it has loaded anything else and nothing was recorded.      *)
ReadyIsUntouched ==
    \A a \in Apps : row[a].status = "READY_FOR_REVIEW" =>
        /\ history[a] = NULL
        /\ \A r \in Requests : App(r) = a =>
                                 req[r].loaded = "READY_FOR_REVIEW"

(* Only approve and reject take set_status()'s path.                        *)
OnlyDecisionsSet == \A r \in Requests : At(r, "set") => req[r].kind # "mark"

IInv == /\ TypeOK
        /\ OnlyMarksUpsert
        /\ AppliedAtAgrees
        /\ AppliedIsRecorded
        /\ HistoryHasAuthor
        /\ ConflictSawRow
        /\ DecisionHasAuthor
        /\ ReadyIsUntouched
        /\ OnlyDecisionsSet

(* The tables and the requests keep their types.                            *)
THEOREM TypeCorrect == Spec => []TypeOK
<1>1. Init => TypeOK
  BY DEF Init, TypeOK, Stamps, Statuses, Request, Live
<1>2. TypeOK /\ [Next]_vars => TypeOK'
  <2> SUFFICES ASSUME TypeOK, [Next]_vars PROVE TypeOK'
    OBVIOUS
  <2> USE DEF TypeOK, Request, Live, Stamps, Statuses, Kinds, At, App, Go
  <2>1. ASSUME NEW r \in Requests, Load(r) PROVE TypeOK'
    <3>1. req[r] \in Request /\ row[req[r].app].status \in Statuses
      OBVIOUS
    <3>2. [req[r] EXCEPT !.pc = IF req[r].kind = "mark"
                                THEN "upsert" ELSE "set",
                         !.loaded = row[App(r)].status] \in Request
      BY <3>1
    <3> QED
      BY <2>1, <3>2 DEF Load
  <2>2. ASSUME NEW r \in Requests, SetStatus(r) PROVE TypeOK'
    <3>1. req' \in [Requests -> Request]
      BY <2>2 DEF SetStatus
    <3>2. req[r].app \in Apps
      OBVIOUS
    <3>3. Flushed(r, Decision(req[r].kind)) \in Statuses
      BY <3>2 DEF Flushed, Decision
    <3>4. row' \in [Apps -> [status : Statuses, applied_at : Stamps]]
      BY <2>2, <3>2, <3>3 DEF SetStatus
    <3> QED
      BY <2>2, <3>1, <3>4 DEF SetStatus
  <2>3. ASSUME NEW r \in Requests, FindHistory(r) PROVE TypeOK'
    <3>1. req[r] \in Request /\ history[App(r)] \in Stamps
      OBVIOUS
    <3>2. [req[r] EXCEPT !.pc = "commit", !.found = history[App(r)]]
             \in Request
      BY <3>1
    <3> QED
      BY <2>3, <3>2 DEF FindHistory
  <2>4. ASSUME NEW r \in Requests, CommitApplied(r) PROVE TypeOK'
    BY <2>4 DEF CommitApplied, Flushed
  <2>5. ASSUME NEW r \in Requests, Conflict(r) PROVE TypeOK'
    BY <2>5 DEF Conflict
  <2>6. ASSUME NEW r \in Requests, Raise(r) PROVE TypeOK'
    BY <2>6 DEF Raise
  <2>7. CASE UNCHANGED vars
    BY <2>7 DEF vars
  <2> QED
    BY <2>1, <2>2, <2>3, <2>4, <2>5, <2>6, <2>7 DEF Next
<1> QED
  BY <1>1, <1>2, PTL DEF Spec

(* The strengthened invariant holds at first.                               *)
LEMMA IInvInit == Init => IInv
  BY NullAssumption DEF Init, IInv, TypeOK, Stamps, Statuses, Request, Live,
     AppliedAtAgrees, AppliedIsRecorded, HistoryHasAuthor, ConflictSawRow,
     OnlyMarksUpsert, DecisionHasAuthor, ReadyIsUntouched, OnlyDecisionsSet,
     At, App

(* A request that is not at its commit writes no history and takes nothing  *)
(* back from a request that succeeded.                                      *)
LEMMA QuietStep ==
    ASSUME IInv, NEW r \in Requests, TypeOK',
           history' = history, row' = row,
           \A q \in Requests \ {r} : req'[q] = req[q],
           req[r].pc \notin {"ok", "conflict"},
           req'[r].app = req[r].app,
           req'[r].loaded \in {req[r].loaded, row[App(r)].status},
           req'[r].pc = "set" => req'[r].kind # "mark",
           req'[r].pc \in {"upsert", "commit"} => req'[r].kind = "mark",
           req'[r].pc = "conflict" => history[App(r)] # NULL
    PROVE  IInv'
<1>1. AppliedAtAgrees' /\ AppliedIsRecorded'
  BY DEF IInv, AppliedAtAgrees, AppliedIsRecorded
<1>2. HistoryHasAuthor'
  BY DEF IInv, HistoryHasAuthor, TypeOK, Stamps, At, App
<1>3. ConflictSawRow'
  BY DEF IInv, ConflictSawRow, At, App
<1>4. OnlyMarksUpsert'
  BY DEF IInv, OnlyMarksUpsert
<1>5. DecisionHasAuthor'
  BY DEF IInv, DecisionHasAuthor, At, App
<1>6. ReadyIsUntouched'
  BY DEF IInv, ReadyIsUntouched, App
<1>7. OnlyDecisionsSet'
  BY DEF IInv, OnlyDecisionsSet, At
<1> QED
  BY <1>1, <1>2, <1>3, <1>4, <1>5, <1>6, <1>7 DEF IInv

(* Every step preserves it.                                                 *)
LEMMA IInvStep == IInv /\ TypeOK' /\ [Next]_vars => IInv'
<1> SUFFICES ASSUME IInv, TypeOK', [Next]_vars PROVE IInv'
  OBVIOUS
<1>1. ASSUME NEW r \in Requests, Load(r) PROVE IInv'
  <2>1. /\ history' = history /\ row' = row
        /\ \A q \in Requests \ {r} : req'[q] = req[q]
        /\ req[r].pc = "new" /\ req'[r].app = req[r].app
        /\ req'[r].pc # "conflict" /\ req'[r].loaded = row[App(r)].status
        /\ req'[r].pc = "set" => req'[r].kind # "mark"
    BY <1>1 DEF Load, IInv, TypeOK, Request, At, App
  <2>2. req'[r].pc \in {"upsert", "commit"} => req'[r].kind = "mark"
    BY <1>1 DEF Load, IInv, TypeOK, Request
  <2> QED
    BY <2>1, <2>2, QuietStep
<1>2. ASSUME NEW r \in Requests, FindHistory(r) PROVE IInv'
  <2>1. /\ history' = history /\ row' = row
        /\ \A q \in Requests \ {r} : req'[q] = req[q]
        /\ req[r].pc = "upsert" /\ req'[r].app = req[r].app
        /\ req'[r].kind = "mark" /\ req'[r].pc = "commit"
        /\ req'[r].loaded = req[r].loaded
    BY <1>2 DEF FindHistory, IInv, OnlyMarksUpsert, TypeOK, Request, At, App
  <2> QED
    BY <2>1, QuietStep
<1>3. ASSUME NEW r \in Requests, Conflict(r) PROVE IInv'
  <2>1. /\ history' = history /\ row' = row
        /\ \A q \in Requests \ {r} : req'[q] = req[q]
        /\ req[r].pc = "commit" /\ req'[r].app = req[r].app
        /\ req'[r].pc = "conflict" /\ history[App(r)] # NULL
        /\ req'[r].loaded = req[r].loaded
    BY <1>3 DEF Conflict, IInv, TypeOK, Request, At, App, Go
  <2> QED
    BY <2>1, QuietStep
<1>4. ASSUME NEW r \in Requests, Raise(r) PROVE IInv'
  <2>1. /\ history' = history /\ row' = row
        /\ \A q \in Requests \ {r} : req'[q] = req[q]
        /\ req[r].pc \in Live /\ req'[r].app = req[r].app
        /\ req'[r].pc = "error" /\ req'[r].loaded = req[r].loaded
    BY <1>4 DEF Raise, IInv, TypeOK, Request, At, App, Go
  <2> QED
    BY <2>1, QuietStep DEF Live
<1>5. ASSUME NEW r \in Requests, SetStatus(r) PROVE IInv'
  <2>1. /\ App(r) \in Apps
        /\ history' = history
        /\ \A q \in Requests \ {r} : req'[q] = req[q]
        /\ req[r].pc = "set"
        /\ req'[r].pc = "ok" /\ req'[r].app = req[r].app
        /\ req'[r].kind = req[r].kind /\ req'[r].loaded = req[r].loaded
        /\ \A a \in Apps \ {App(r)} : row'[a] = row[a]
        /\ row'[App(r)].status = Flushed(r, Decision(req[r].kind))
    BY <1>5 DEF SetStatus, IInv, TypeOK, Request, At, App, Go
  <2>2. AppliedAtAgrees'
    BY <1>5, <2>1 DEF SetStatus, IInv, TypeOK, AppliedAtAgrees
  <2>3. AppliedIsRecorded'
    <3> SUFFICES ASSUME NEW a \in Apps, row'[a].status = "APPLIED"
                 PROVE  history[a] # NULL
      BY <2>1 DEF AppliedIsRecorded
    <3>1. row[a].status = "APPLIED"
      BY <1>5, <2>1 DEF SetStatus, IInv, TypeOK, Flushed, Decision
    <3> QED
      BY <3>1 DEF IInv, AppliedIsRecorded
  <2>4. HistoryHasAuthor'
    BY <2>1 DEF IInv, HistoryHasAuthor, TypeOK, Stamps, At, App
  <2>5. ConflictSawRow'
    BY <2>1 DEF IInv, ConflictSawRow, At, App
  <2>6. OnlyMarksUpsert' /\ OnlyDecisionsSet'
    BY <2>1 DEF IInv, OnlyMarksUpsert, OnlyDecisionsSet, At
  <2>7. req[r].kind # "mark"
    BY <2>1 DEF IInv, OnlyDecisionsSet, At
  <2>8. DecisionHasAuthor'
    <3> SUFFICES ASSUME NEW a \in Apps,
                        row'[a].status \in {"APPROVED", "REJECTED"}
                 PROVE  \E q \in Requests :
                          /\ req'[q].pc = "ok" /\ req'[q].app = a
                          /\ req'[q].kind # "mark"
                          /\ row'[a].status = Decision(req'[q].kind)
      BY DEF DecisionHasAuthor, At, App
    <3>1. CASE /\ a = App(r)
               /\ row'[a].status = Decision(req[r].kind)
      BY <2>1, <2>7, <3>1 DEF App
    <3>2. CASE row'[a].status = row[a].status
      <4>1. PICK q \in Requests : /\ req[q].pc = "ok" /\ req[q].app = a
                                  /\ req[q].kind # "mark"
                                  /\ row[a].status = Decision(req[q].kind)
        BY <3>2 DEF IInv, DecisionHasAuthor, At, App
      <4>2. q # r
        BY <4>1, <2>1
      <4> QED
        BY <4>1, <4>2, <2>1, <3>2
    <3> QED
      BY <2>1, <3>1, <3>2 DEF Flushed
  <2>9. ReadyIsUntouched'
    <3> SUFFICES ASSUME NEW a \in Apps,
                        row'[a].status = "READY_FOR_REVIEW"
                 PROVE  row[a].status = "READY_FOR_REVIEW"
      BY <2>1 DEF IInv, ReadyIsUntouched, App
    <3> QED
      BY <2>1 DEF Flushed, Decision
  <2> QED
    BY <2>2, <2>3, <2>4, <2>5, <2>6, <2>8, <2>9, TypeOK' DEF IInv
<1>6. ASSUME NEW r \in Requests, CommitApplied(r) PROVE IInv'
  <2>1. /\ App(r) \in Apps
        /\ \A q \in Requests \ {r} : req'[q] = req[q]
        /\ req[r].pc = "commit" /\ req'[r].pc = "ok"
        /\ req'[r].app = req[r].app /\ req'[r].kind = req[r].kind
        /\ history'[App(r)] = r /\ row'[App(r)].applied_at = r
        /\ \A a \in Apps \ {App(r)} :
              row'[a] = row[a] /\ history'[a] = history[a]
        /\ row'[App(r)].status = Flushed(r, "APPLIED")
    BY <1>6 DEF CommitApplied, IInv, TypeOK, Request, At, App, Go
  <2>2. AppliedAtAgrees' /\ AppliedIsRecorded'
    BY <2>1, NullAssumption DEF IInv, AppliedAtAgrees, AppliedIsRecorded
  <2>3. HistoryHasAuthor'
    <3>1. req[r].kind = "mark"
      BY <2>1 DEF IInv, OnlyMarksUpsert
    <3> QED
      BY <2>1, <3>1 DEF IInv, HistoryHasAuthor, TypeOK, Stamps, At, App
  <2>4. ConflictSawRow'
    <3> SUFFICES ASSUME NEW q \in Requests, req'[q].pc = "conflict"
                 PROVE  history'[req'[q].app] # NULL
      BY DEF ConflictSawRow, At, App
    <3>1. q # r /\ req'[q] = req[q] /\ req[q].app \in Apps
      BY <2>1 DEF IInv, TypeOK, Request
    <3>2. history[req[q].app] # NULL
      BY <3>1 DEF IInv, ConflictSawRow, At, App
    <3> QED
      BY <2>1, <3>1, <3>2, NullAssumption
  <2>5. OnlyMarksUpsert' /\ OnlyDecisionsSet'
    BY <2>1 DEF IInv, OnlyMarksUpsert, OnlyDecisionsSet, At
  <2>6. DecisionHasAuthor'
    <3> SUFFICES ASSUME NEW a \in Apps,
                        row'[a].status \in {"APPROVED", "REJECTED"}
                 PROVE  \E q \in Requests :
                          /\ req'[q].pc = "ok" /\ req'[q].app = a
                          /\ req'[q].kind # "mark"
                          /\ row'[a].status = Decision(req'[q].kind)
      BY DEF DecisionHasAuthor, At, App
    <3>1. row'[a].status = row[a].status
      BY <2>1 DEF Flushed
    <3>2. PICK q \in Requests : /\ req[q].pc = "ok" /\ req[q].app = a
                                /\ req[q].kind # "mark"
                                /\ row[a].status = Decision(req[q].kind)
      BY <3>1 DEF IInv, DecisionHasAuthor, At, App
    <3>3. q # r
      BY <3>2, <2>1
    <3> QED
      BY <3>1, <3>2, <3>3, <2>1
  <2>7. ReadyIsUntouched'
    <3> SUFFICES ASSUME NEW a \in Apps,
                        row'[a].status = "READY_FOR_REVIEW"
                 PROVE  /\ history'[a] = NULL
                        /\ \A q \in Requests : req'[q].app = a =>
                               req'[q].loaded = "READY_FOR_REVIEW"
      BY DEF ReadyIsUntouched, App
    <3>1. CASE a = App(r)
      <4>1. row[a].status = "READY_FOR_REVIEW" /\ req[r].loaded = "APPLIED"
        BY <2>1, <3>1 DEF Flushed
      <4> QED
        BY <4>1, <3>1 DEF IInv, ReadyIsUntouched, App
    <3>2. CASE a # App(r)
      <4>1. \A q \in Requests : req'[q].app = a =>
                                   q # r /\ req'[q] = req[q]
        BY <2>1, <3>2 DEF App
      <4> QED
        BY <2>1, <3>2, <4>1 DEF IInv, ReadyIsUntouched, App
    <3> QED
      BY <3>1, <3>2
  <2> QED
    BY <2>2, <2>3, <2>4, <2>5, <2>6, <2>7, TypeOK' DEF IInv
<1>7. CASE UNCHANGED vars
  BY <1>7 DEF vars, IInv, TypeOK, AppliedAtAgrees, AppliedIsRecorded,
     HistoryHasAuthor, ConflictSawRow, OnlyMarksUpsert, DecisionHasAuthor,
     ReadyIsUntouched, OnlyDecisionsSet, At, App
<1> QED
  BY <1>1, <1>2, <1>3, <1>4, <1>5, <1>6, <1>7 DEF Next

(* The invariant of the specification, for every number of requests.        *)
THEOREM Invariance == Spec => []IInv
<1>1. Init => IInv
  BY IInvInit
<1>2. IInv /\ TypeOK' /\ [Next]_vars => IInv'
  BY IInvStep
<1> QED
  BY <1>1, <1>2, TypeCorrect, PTL DEF Spec

(* applications.applied_at and the history row agree in every reachable     *)
(* state: mark_applied() is one transaction.                                *)
THEOREM AppliedAtAlwaysAgrees == Spec => []AppliedAtAgrees
<1>1. IInv => AppliedAtAgrees
  BY DEF IInv
<1> QED
  BY <1>1, Invariance, PTL

(* An APPLIED application always counts for its company's cooldown.         *)
THEOREM AppliedAlwaysRecorded == Spec => []AppliedIsRecorded
<1>1. IInv => AppliedIsRecorded
  BY DEF IInv
<1> QED
  BY <1>1, Invariance, PTL

(* A mark-applied that lost the insert race has a successful rival.         *)
THEOREM ConflictAlwaysHasWinner == Spec => []ConflictHasWinner
<1>1. IInv => ConflictHasWinner
  <2> SUFFICES ASSUME IInv, NEW r \in Requests, At(r, "conflict")
               PROVE  \E w \in Requests \ {r} :
                        At(w, "ok") /\ req[w].kind = "mark" /\ App(w) = App(r)
    BY DEF ConflictHasWinner
  <2>1. App(r) \in Apps /\ history[App(r)] # NULL
    BY DEF IInv, ConflictSawRow, TypeOK, Request, App
  <2>2. history[App(r)] \in Requests
    BY <2>1 DEF IInv, TypeOK, Stamps
  <2>3. LET w == history[App(r)]
        IN  At(w, "ok") /\ req[w].kind = "mark" /\ App(w) = App(r)
    BY <2>1 DEF IInv, HistoryHasAuthor
  <2>4. history[App(r)] # r
    BY <2>3 DEF At
  <2> QED
    BY <2>2, <2>3, <2>4
<1> QED
  BY <1>1, Invariance, PTL

(* The cooldown tracker and the status disagree only after an approve or a  *)
(* reject that succeeded, however many requests there are.                  *)
THEOREM OnlyDecisionsEverUnmark == Spec => []OnlyDecisionsUnmark
<1>1. IInv => OnlyDecisionsUnmark
  <2> SUFFICES ASSUME IInv, NEW a \in Apps,
                      history[a] # NULL, row[a].status # "APPLIED"
               PROVE  \E r \in Requests :
                        /\ At(r, "ok") /\ App(r) = a /\ req[r].kind # "mark"
                        /\ row[a].status = Decision(req[r].kind)
    BY DEF OnlyDecisionsUnmark
  <2>1. row[a].status \in Statuses /\ row[a].status # "READY_FOR_REVIEW"
    BY DEF IInv, TypeOK, ReadyIsUntouched
  <2> QED
    BY <2>1 DEF Statuses, IInv, DecisionHasAuthor
<1> QED
  BY <1>1, Invariance, PTL
=============================================================================
