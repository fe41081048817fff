------------------------ MODULE ApplicationWorkflow ------------------------
(***************************************************************************)
(* Approve, reject and mark-applied on applications that document           *)
(* generation has created, and the company application history the cooldown *)
(* filter reads.  (POST .../open changes nothing.)                          *)
(*                                                                          *)
(* A route loads the Application once and mutates that object; commit sends *)
(* an UPDATE of the columns that differ from what was loaded, whatever      *)
(* other sessions committed in between.                                     *)
(***************************************************************************)
CONSTANTS Apps,      \* applications, one per job and so one (company, job)
          Requests,  \* requests; a mark-applied request stands for its stamp
          NULL

ASSUME NullAssumption == NULL \notin Requests

VARIABLES
    row,      \* the applications rows: status and applied_at
    history,  \* applied_at of the (company, job) row, NULL if there is none
    req       \* what each request is doing

vars == <<row, history, req>>

Statuses == {"READY_FOR_REVIEW", "APPROVED", "REJECTED", "APPLIED"}
Stamps == Requests \cup {NULL}
Kinds == {"approve", "reject", "mark"}
Live == {"set", "upsert", "commit"}

(* `loaded` is the status in the session when the request began, `found`    *)
(* the history row it saw.                                                  *)
Request == [pc : {"new", "ok", "conflict", "error"} \cup Live,
            kind : Kinds, app : Apps, loaded : Statuses, found : Stamps]

TypeOK ==
    /\ row \in [Apps -> [status : Statuses, applied_at : Stamps]]
    /\ history \in [Apps -> Stamps]
    /\ req \in [Requests -> Request]

Init ==
    /\ row = [a \in Apps |-> [status |-> "READY_FOR_REVIEW",
                              applied_at |-> NULL]]
    /\ history = [a \in Apps |-> NULL]
    /\ req \in [Requests -> {[pc |-> "new", kind |-> k, app |-> a,
                              loaded |-> "READY_FOR_REVIEW", found |-> NULL] :
                                k \in Kinds, a \in Apps}]

-----------------------------------------------------------------------------
At(r, pc) == req[r].pc = pc
App(r) == req[r].app

Go(r, pc) == req' = [req EXCEPT ![r].pc = pc]

(* The status column after a commit: untouched unless new differs from what *)
(* the session had loaded.                                                  *)
Flushed(r, new) ==
    IF new = req[r].loaded THEN row[App(r)].status ELSE new

(* _get_application_or_404()                                                *)
Load(r) ==
    /\ At(r, "new")
    /\ req' = [req EXCEPT ![r] =
                  [@ EXCEPT !.pc = IF req[r].kind = "mark"
                                   THEN "upsert" ELSE "set",
                            !.loaded = row[App(r)].status]]
    /\ UNCHANGED <<row, history>>

Decision(kind) == IF kind = "approve" THEN "APPROVED" ELSE "REJECTED"

(* set_status(): approve and reject write from any status.                  *)
SetStatus(r) ==
    /\ At(r, "set")
    /\ row' = [row EXCEPT ![App(r)].status = Flushed(r, Decision(req[r].kind))]
    /\ Go(r, "ok")
    /\ UNCHANGED history

(* tracker.mark_applied(): the status and the stamp are set in memory, then *)
(* the history row is looked up.                                            *)
FindHistory(r) ==
    /\ At(r, "upsert")
    /\ req' = [req EXCEPT ![r] = [@ EXCEPT !.pc = "commit",
                                           !.found = history[App(r)]]]
    /\ UNCHANGED <<row, history>>

\* Mutants: an existing history row is not updated; the history is left out
\* of the transaction; the history is committed first and the rest fails;
\* the application's status is left out.
CommitInsertOnly(r) ==
    /\ At(r, "commit")
    /\ req[r].found = NULL => history[App(r)] = NULL
    /\ row' = [row EXCEPT ![App(r)] = [status |-> Flushed(r, "APPLIED"),
                                       applied_at |-> r]]
    /\ history' = IF req[r].found # NULL THEN history
                  ELSE [history EXCEPT ![App(r)] = r]
    /\ Go(r, "ok")

CommitWithoutHistory(r) ==
    /\ At(r, "commit")
    /\ row' = [row EXCEPT ![App(r)] = [status |-> Flushed(r, "APPLIED"),
                                       applied_at |-> r]]
    /\ Go(r, "ok")
    /\ UNCHANGED history

CommitHistoryAlone(r) ==
    /\ At(r, "commit")
    /\ req[r].found = NULL => history[App(r)] = NULL
    /\ history' = [history EXCEPT ![App(r)] = r]
    /\ Go(r, "error")
    /\ UNCHANGED row

CommitWithoutStatus(r) ==
    /\ At(r, "commit")
    /\ req[r].found = NULL => history[App(r)] = NULL
    /\ row' = [row EXCEPT ![App(r)].applied_at = r]
    /\ history' = [history EXCEPT ![App(r)] = r]
    /\ Go(r, "ok")

(* One commit for the application and its history row, which is inserted if *)
(* the look-up found none.                                                  *)
CommitApplied(r) ==
    /\ At(r, "commit")
    /\ req[r].found = NULL => history[App(r)] = NULL
    /\ row' = [row EXCEPT ![App(r)] = [status |-> Flushed(r, "APPLIED"),
                                       applied_at |-> r]]
    /\ history' = [history EXCEPT ![App(r)] = r]
    /\ Go(r, "ok")

(* uq_company_application_history_company_job: the insert fails because     *)
(* another request's committed since the look-up; nothing catches it and    *)
(* the whole transaction is rolled back.                                    *)
Conflict(r) ==
    /\ At(r, "commit")
    /\ req[r].found = NULL /\ history[App(r)] # NULL
    /\ Go(r, "conflict")
    /\ UNCHANGED <<row, history>>

(* The database connection or the process is lost before the commit.        *)
Raise(r) ==
    /\ req[r].pc \in Live
    /\ Go(r, "error")
    /\ UNCHANGED <<row, history>>

Next == \E r \in Requests :
            \/ Load(r) \/ SetStatus(r)
            \/ FindHistory(r) \/ CommitApplied(r) \/ Conflict(r)
            \/ Raise(r)

Spec == Init /\ [][Next]_vars

-----------------------------------------------------------------------------
(* The two tables are written in one transaction: an application's          *)
(* applied_at is always that of its history row, whichever of several       *)
(* mark-applied requests won.                                               *)
AppliedAtAgrees == \A a \in Apps : row[a].applied_at = history[a]

(* An application shown as APPLIED always counts for the company cooldown.  *)
AppliedIsRecorded ==
    \A a \in Apps : row[a].status = "APPLIED" => history[a] # NULL

(* A mark-applied that was answered with an error because it lost the race  *)
(* to insert the history row has not lost the submission: another           *)
(* mark-applied of the same application succeeded.                          *)
ConflictHasWinner ==
    \A r \in Requests : At(r, "conflict") =>
        \E w \in Requests \ {r} :
            At(w, "ok") /\ req[w].kind = "mark" /\ App(w) = App(r)

(* mark_applied()'s docstring: one transaction, "so the cooldown tracker is *)
(* never out of sync with an application's status".  It gets out of sync in *)
(* one way only: an approve or a reject of the application also succeeded   *)
(* (set_status() takes any status), and it is its status that is shown.  No *)
(* race between marks, failed insert or stale session loses the status.     *)
OnlyDecisionsUnmark ==
    \A a \in Apps : history[a] # NULL /\ row[a].status # "APPLIED" =>
        \E r \in Requests :
            /\ At(r, "ok") /\ App(r) = a /\ req[r].kind # "mark"
            /\ row[a].status = Decision(req[r].kind)
=============================================================================
