------------------------- MODULE DocumentGeneration -------------------------
(***************************************************************************)
(* POST /jobs/{id}/documents and apply-edit: persist_document() with the    *)
(* get-or-create of the job's Application, the bounded retry on a version   *)
(* collision, the .docx on disk, and the claim/ATS review.                  *)
(*                                                                          *)
(* A request runs from one await to the next without interruption.  The     *)
(* database is Postgres at READ COMMITTED with three unique constraints;    *)
(* an INSERT and its commit are one step, for a second INSERT of the same   *)
(* key waits for the first's transaction to end.  The directory of .docx    *)
(* files is not part of any transaction.                                    *)
(***************************************************************************)
EXTENDS Naturals, FiniteSets

CONSTANTS Jobs, DocTypes,
          Requests,     \* requests; each stands for the text it persists too
          MaxAttempts,  \* _MAX_VERSION_ATTEMPTS
          Flags         \* values of claim_check_passed and ats_check_passed

ASSUME MaxAttemptsAssumption == MaxAttempts \in Nat \ {0}
ASSUME FlagsAssumption == "null" \in Flags

Slots == Jobs \X DocTypes

VARIABLES
    apps,   \* rows of applications: [job, by], `by` the request that inserted
    docs,   \* rows of generated_documents: version -> row, for each slot
    files,  \* the file at job_{id}_{type}_v{version}.docx: whose text it holds
    req     \* what each request is doing

vars == <<apps, docs, files, req>>

Outcomes == Flags \ {"null"}
Row == [content : Requests, claim : Flags, ats : Flags]

Live == {"find", "insert", "requery", "count", "write", "commit", "review"}
Ended == {"ok", "collided", "error"}

Request == [pc : {"new"} \cup Live \cup Ended, slot : Slots, version : Nat,
            attempt : 1..MaxAttempts]

(* docs[s] and files[s] are functions from the versions present.            *)
TypeOK ==
    /\ apps \subseteq [job : Jobs, by : Requests]
    /\ \A s \in Slots : /\ DOMAIN docs[s] \subseteq Nat
                        /\ docs[s] \in [DOMAIN docs[s] -> Row]
                        /\ DOMAIN files[s] \subseteq Nat
                        /\ files[s] \in [DOMAIN files[s] -> Requests]
    /\ docs = [s \in Slots |-> docs[s]]
    /\ files = [s \in Slots |-> files[s]]
    /\ req \in [Requests -> Request]

Init ==
    /\ apps = {}
    /\ docs = [s \in Slots |-> << >>]
    /\ files = [s \in Slots |-> << >>]
    /\ req \in [Requests -> {[pc |-> "new", slot |-> s, version |-> 0,
                              attempt |-> 1] : s \in Slots}]

-----------------------------------------------------------------------------
At(r, pc) == req[r].pc = pc
Slot(r) == req[r].slot
JobOf(s) == s[1]
Version(r) == req[r].version

Go(r, pc) == req' = [req EXCEPT ![r].pc = pc]

HasApplication(j) == \E a \in apps : a.job = j

(* f with the entry k -> v, new or replaced.                                *)
Put(f, k, v) == [i \in DOMAIN f \cup {k} |-> IF i = k THEN v ELSE f[i]]

\* Mutant: the count forgets to filter by document type.
NextVersionOfJob(s) ==
    Cardinality(UNION {{<<t, v>> : v \in DOMAIN docs[<<JobOf(s), t>>]} :
                          t \in DocTypes}) + 1

(* Any version a slot has, as persist_document() asks for the next one.     *)
NextVersion(s) == Cardinality(DOMAIN docs[s]) + 1

-----------------------------------------------------------------------------
(* generate_document(): profile and text are made before anything is        *)
(* written, so a request begins when the LLM has answered; one whose LLM    *)
(* call failed changed nothing.                                             *)
Generate(r) ==
    /\ At(r, "new")
    /\ Go(r, "find")
    /\ UNCHANGED <<apps, docs, files>>

(* apply-edit: the text was accepted before, the document must exist and    *)
(* have the payload's type.                                                 *)
ApplyEdit(r) ==
    /\ At(r, "new")
    /\ DOMAIN docs[Slot(r)] # {}
    /\ Go(r, "find")
    /\ UNCHANGED <<apps, docs, files>>

(* create_application(): look, insert, and on IntegrityError look again.    *)
FindApplication(r) ==
    /\ At(r, "find")
    /\ Go(r, IF HasApplication(JobOf(Slot(r))) THEN "count" ELSE "insert")
    /\ UNCHANGED <<apps, docs, files>>

\* Mutant: no uq_applications_job_id.
InsertWithoutUnique(r) ==
    /\ At(r, "insert")
    /\ Go(r, "count")
    /\ apps' = apps \cup {[job |-> JobOf(Slot(r)), by |-> r]}
    /\ UNCHANGED <<docs, files>>

InsertApplication(r) ==
    /\ At(r, "insert")
    /\ IF HasApplication(JobOf(Slot(r)))
       THEN /\ Go(r, "requery")
            /\ UNCHANGED apps
       ELSE /\ Go(r, "count")
            /\ apps' = apps \cup {[job |-> JobOf(Slot(r)), by |-> r]}
    /\ UNCHANGED <<docs, files>>

(* A loser that finds no row re-raises the IntegrityError.                  *)
RequeryApplication(r) ==
    /\ At(r, "requery")
    /\ Go(r, IF HasApplication(JobOf(Slot(r))) THEN "count" ELSE "error")
    /\ UNCHANGED <<apps, docs, files>>

(* _next_version()                                                          *)
CountVersions(r) ==
    /\ At(r, "count")
    /\ req' = [req EXCEPT ![r] = [@ EXCEPT !.pc = "write",
                                           !.version = NextVersion(Slot(r))]]
    /\ UNCHANGED <<apps, docs, files>>

\* Mutant: the version is left out of the file's name.
WriteUnversioned(r) ==
    /\ At(r, "write")
    /\ files' = [files EXCEPT ![Slot(r)] = Put(@, 1, r)]
    /\ Go(r, "commit")
    /\ UNCHANGED <<apps, docs>>

(* write_*_docx() saves over whatever has that name; no await before the    *)
(* row is added, but the count was read before the request ran again.       *)
WriteFile(r) ==
    /\ At(r, "write")
    /\ files' = [files EXCEPT ![Slot(r)] = Put(@, Version(r), r)]
    /\ Go(r, "commit")
    /\ UNCHANGED <<apps, docs>>

\* Mutant: no uq_generated_documents_job_type_version.
CommitOverwriting(r) ==
    /\ At(r, "commit")
    /\ docs' = [docs EXCEPT ![Slot(r)] =
                   Put(@, Version(r), [content |-> r, claim |-> "null",
                                       ats |-> "null"])]
    /\ Go(r, "review")
    /\ UNCHANGED <<apps, files>>

CommitDocument(r) ==
    /\ At(r, "commit")
    /\ Version(r) \notin DOMAIN docs[Slot(r)]
    /\ docs' = [docs EXCEPT ![Slot(r)] =
                   Put(@, Version(r), [content |-> r, claim |-> "null",
                                       ats |-> "null"])]
    /\ Go(r, "review")
    /\ UNCHANGED <<apps, files>>

\* Mutants: tries that do not count again; no bound.
CollideSameVersion(r) ==
    /\ At(r, "commit")
    /\ Version(r) \in DOMAIN docs[Slot(r)]
    /\ IF req[r].attempt = MaxAttempts
       THEN Go(r, "collided")
       ELSE req' = [req EXCEPT ![r] = [@ EXCEPT !.pc = "write",
                                                !.attempt = req[r].attempt + 1]]
    /\ UNCHANGED <<apps, docs, files>>

CollideForever(r) ==
    /\ At(r, "commit")
    /\ Version(r) \in DOMAIN docs[Slot(r)]
    /\ Go(r, "write")
    /\ UNCHANGED <<apps, docs, files>>

(* IntegrityError: roll back and count again, or give up after the last try *)
Collide(r) ==
    /\ At(r, "commit")
    /\ Version(r) \in DOMAIN docs[Slot(r)]
    /\ IF req[r].attempt = MaxAttempts
       THEN Go(r, "collided")
       ELSE req' = [req EXCEPT ![r] = [@ EXCEPT !.pc = "count",
                                                !.attempt = req[r].attempt + 1]]
    /\ UNCHANGED <<apps, docs, files>>

\* Mutant: nothing is recorded when the ATS check could not run.
ReviewOnlyBoth(r) ==
    /\ At(r, "review")
    /\ \E claim \in Outcomes, ats \in Flags :
          docs' = IF ats = "null" THEN docs
                  ELSE [docs EXCEPT ![Slot(r)] =
                          Put(@, Version(r), [content |-> @[Version(r)].content,
                                              claim |-> claim, ats |-> ats])]
    /\ Go(r, "ok")
    /\ UNCHANGED <<apps, files>>

(* review_generated_document(): claims of the text in memory and ATS of the *)
(* file on disk, both synchronous, then both flags in one commit.  An ATS   *)
(* check that cannot run leaves null; one that raises is Raise(r).          *)
Review(r) ==
    /\ At(r, "review")
    /\ \E claim \in Outcomes, ats \in Flags :
          docs' = [docs EXCEPT ![Slot(r)] =
                     Put(@, Version(r), [content |-> @[Version(r)].content,
                                         claim |-> claim, ats |-> ats])]
    /\ Go(r, "ok")
    /\ UNCHANGED <<apps, files>>

(* An await, an LLM call, the disk or soffice raises, or the process dies:  *)
(* nothing here catches it, and what was committed or written stays.        *)
Raise(r) ==
    /\ req[r].pc \in Live
    /\ Go(r, "error")
    /\ UNCHANGED <<apps, docs, files>>

Continue(r) ==
    \/ FindApplication(r) \/ InsertApplication(r) \/ RequeryApplication(r)
    \/ CountVersions(r) \/ WriteFile(r) \/ CommitDocument(r) \/ Collide(r)
    \/ Review(r)

Next == \E r \in Requests :
            Generate(r) \/ ApplyEdit(r) \/ Continue(r) \/ Raise(r)

Spec == Init /\ [][Next]_vars

(* The event loop resumes a request whose await is over; LLM and database   *)
(* calls end, by their client's timeout if need be.                         *)
Fairness == \A r \in Requests : WF_vars(Continue(r))
FairSpec == Spec /\ Fairness

-----------------------------------------------------------------------------
(* uq_applications_job_id and the second look: however requests for one job *)
(* race, the job has one application, and no document lacks one.            *)
OneApplicationPerJob ==
    /\ \A a, b \in apps : a.job = b.job => a = b
    /\ \A s \in Slots : DOMAIN docs[s] # {} => HasApplication(JobOf(s))

(* A count and a unique constraint make a gapless sequence: the versions of *)
(* a slot are 1..n.                                                         *)
VersionsContiguous ==
    \A s \in Slots : DOMAIN docs[s] = 1..Cardinality(DOMAIN docs[s])

(* The retry bound is only reached behind as many other documents: a        *)
(* request fails on collisions only if MaxAttempts others got in.           *)
CollisionsNeedRivals ==
    \A r \in Requests : At(r, "collided") =>
        Cardinality({v \in DOMAIN docs[Slot(r)] :
                        docs[Slot(r)][v].content # r}) >= MaxAttempts

(* The file is written before the row is committed, so a row's file_path    *)
(* always names a file, also after a crash.                                 *)
RowHasFile ==
    \A s \in Slots : DOMAIN docs[s] \subseteq DOMAIN files[s]

(* persist_document()'s docstring: the loser retries under another name "so *)
(* it never silently clobbers the winner's file".  It already has, if the   *)
(* winner wrote first; but only so: a file that is not its row's text is    *)
(* that of a request that lost, or is to lose, this version to the row.     *)
OnlyLosersClobber ==
    \A s \in Slots : \A v \in DOMAIN docs[s] :
        LET u == files[s][v] IN
        docs[s][v].content # u =>
            \/ At(u, "commit") /\ Version(u) = v
            \/ At(u, "error")
            \/ req[u].attempt > 1
            \/ At(u, "collided")

(* A request answered 200 has its own text as the row of its version, with  *)
(* the outcome of a claim check recorded on it.                             *)
OkMeansReviewed ==
    \A r \in Requests : At(r, "ok") =>
        /\ Version(r) \in DOMAIN docs[Slot(r)]
        /\ docs[Slot(r)][Version(r)].content = r
        /\ docs[Slot(r)][Version(r)].claim # "null"

(* The retry loop ends: every request that started is answered.             *)
EveryRequestEnds ==
    \A r \in Requests : (req[r].pc \in Live) ~> (req[r].pc \in Ended)

-----------------------------------------------------------------------------
(* The rows of each slot, in version order, are the log.                    *)
Log == INSTANCE VersionLog WITH
    Contents <- Requests,
    Reviews <- Outcomes \X Flags,
    Pending <- <<"null", "null">>,
    log <- [s \in Slots |->
              [v \in 1..Cardinality(DOMAIN docs[s]) |->
                 [content |-> docs[s][v].content,
                  review |-> <<docs[s][v].claim, docs[s][v].ats>>]]]

(* Document generation implements the append-only log: what was published   *)
(* is never rewritten or renumbered, and is reviewed at most once.          *)
ImplementsVersionLog == Log!Spec
=============================================================================
