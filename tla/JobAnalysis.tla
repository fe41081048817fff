---------------------------- MODULE JobAnalysis ----------------------------
(***************************************************************************)
(* The analysis pipeline of one job, and everything that races with it:     *)
(* POST /explore/save with its auto-analyze background task, POST           *)
(* /jobs/{id}/analyze, and the dashboard's reject and restore.              *)
(*                                                                          *)
(* A task is one request, with its own database session.  A task runs from  *)
(* one await to the next without interruption; every await that reads or    *)
(* commits is an action.  What a task read from the job row before an await *)
(* stays in its session (`loaded`) and is what later writes are compared    *)
(* with: the sessions are opened with expire_on_commit=False and the ORM    *)
(* emits an UPDATE only for a net change of a loaded attribute.             *)
(***************************************************************************)
EXTENDS Naturals, Sequences

CONSTANTS Jobs,   \* job postings, one per description hash
          Tasks   \* requests, each used once

VARIABLES
    status,     \* Job.status of the committed row, "absent" before the insert
    analyses,   \* the job_analysis rows of each job, in commit order
    task,       \* what each request is doing
    clock       \* transactions begun so far: the order of func.now() stamps

vars == <<status, analyses, task, clock>>

(* job_scorer.decide()'s outcomes, and the two statuses of the dashboard.   *)
Verdicts == {"REJECT", "REVIEW_REQUIRED", "READY_FOR_REVIEW"}
DISCOVERED == "DISCOVERED"
REJECTED == "REJECTED"
JobStatus == Verdicts \cup {DISCOVERED, REJECTED}

Kinds == {"none", "save", "analyze", "reject", "restore"}

(* Ends of a request: "decided" wrote a verdict, "filtered" wrote the hard  *)
(* filter's REJECT, "skipped" lost the race, "duplicate" saved nothing,     *)
(* "written" rejected or restored; "failed" raised or died with the process *)
(* and "torn" did so after the analysis row's commit but before the         *)
(* status's.                                                                *)
Live == {"insert", "inserted", "lookup", "filter", "recheck", "score",
         "decide", "write"}
Ended == {"decided", "filtered", "skipped", "duplicate", "written", "failed",
          "torn"}

Task == [pc : {"new"} \cup Live \cup Ended, kind : Kinds, job : Jobs,
         loaded : JobStatus, verdict : Verdicts, began : Nat, ended : Nat]

(* A job_analysis row: its verdict under decide() and its analyzed_at,      *)
(* which Postgres stamps with the start of the inserting transaction.       *)
Analysis == [verdict : Verdicts, analyzed_at : Nat]

TypeOK ==
    /\ status \in [Jobs -> JobStatus \cup {"absent"}]
    /\ analyses \in [Jobs -> Seq(Analysis)]
    /\ task \in [Tasks -> Task]
    /\ clock \in Nat

(* A request that has, or keeps, nothing in memory.                         *)
Blank(pc, kind, j) == [pc |-> pc, kind |-> kind, job |-> j,
                       loaded |-> DISCOVERED, verdict |-> "REJECT",
                       began |-> 0, ended |-> 0]

(* Some postings were collected before (targets.ingest_all() also inserts). *)
Init ==
    /\ status \in [Jobs -> {"absent", DISCOVERED}]
    /\ analyses = [j \in Jobs |-> << >>]
    /\ task \in [Tasks -> {Blank("new", "none", j) : j \in Jobs}]
    /\ clock = 0

-----------------------------------------------------------------------------
At(t, pc) == task[t].pc = pc
Job(t) == task[t].job

Go(t, pc) == task' = [task EXCEPT ![t].pc = pc]

(* The request ends and its session, with all it had loaded, is closed;     *)
(* when it ran is kept for ShownDecidedTogether.                            *)
Closed(t, pc) == [Blank(pc, task[t].kind, Job(t)) EXCEPT
                     !.began = task[t].began, !.ended = clock]
End(t, pc) == task' = [task EXCEPT ![t] = Closed(t, pc)]

(* set_job_status(): commit new on a row loaded with the status was.  Equal *)
(* values are no net change, so whatever others wrote meanwhile stays.      *)
SetJobStatus(j, was, new) ==
    status' = IF new = was THEN status ELSE [status EXCEPT ![j] = new]

(* The first SELECT of a session loads the row.                             *)
Load(t, kind, pc) ==
    /\ status[Job(t)] # "absent"
    /\ task' = [task EXCEPT ![t] = [@ EXCEPT !.pc = pc, !.kind = kind,
                                             !.loaded = status[Job(t)],
                                             !.began = clock]]
    /\ UNCHANGED <<status, analyses>>

(* It opens the transaction the analysis row will be inserted in; for POST  *)
(* /jobs/{id}/analyze the token's query did just before, in one step here.  *)
LoadForAnalysis(t, kind) == Load(t, kind, "filter") /\ clock' = clock + 1
LoadForUser(t, kind) == Load(t, kind, "write") /\ UNCHANGED clock

-----------------------------------------------------------------------------
(* POST /explore/save: insert_jobs() with one row.                          *)
Save(t) ==
    /\ At(t, "new")
    /\ task' = [task EXCEPT ![t] = [@ EXCEPT !.pc = "insert",
                                             !.kind = "save"]]
    /\ UNCHANGED <<status, analyses, clock>>

\* Mutant: no unique index on description_hash.
InsertWithoutUnique(t) ==
    /\ At(t, "insert")
    /\ Go(t, "inserted")
    /\ UNCHANGED <<status, analyses, clock>>

(* INSERT in a SAVEPOINT.  The unique index makes it wait for another       *)
(* session's uncommitted insert of the same description_hash; a committed   *)
(* one is an IntegrityError and the row is skipped.                         *)
InsertJob(t) ==
    /\ At(t, "insert")
    /\ \A u \in Tasks : At(u, "inserted") => Job(u) # Job(t)
    /\ IF status[Job(t)] = "absent" THEN Go(t, "inserted")
                                    ELSE End(t, "duplicate")
    /\ UNCHANGED <<status, analyses, clock>>

(* The commit of insert_jobs(); the response goes out and _auto_analyze is  *)
(* the same request's background task.                                      *)
CommitJob(t) ==
    /\ At(t, "inserted")
    /\ status' = [status EXCEPT ![Job(t)] = DISCOVERED]
    /\ Go(t, "lookup")
    /\ UNCHANGED <<analyses, clock>>

(* _auto_analyze() finds the row by its hash in a session of its own.       *)
Lookup(t) == At(t, "lookup") /\ LoadForAnalysis(t, "save")

(* POST /jobs/{id}/analyze, reject and restore load the row first; a job    *)
(* that is absent is a 404.                                                 *)
Analyze(t) == At(t, "new") /\ LoadForAnalysis(t, "analyze")
RejectJob(t) == At(t, "new") /\ LoadForUser(t, "reject")
RestoreJob(t) == At(t, "new") /\ LoadForUser(t, "restore")

UserStatus(kind) == IF kind = "reject" THEN REJECTED ELSE DISCOVERED

WriteStatus(t) ==
    /\ At(t, "write")
    /\ SetJobStatus(Job(t), task[t].loaded, UserStatus(task[t].kind))
    /\ End(t, "written")
    /\ UNCHANGED <<analyses, clock>>

-----------------------------------------------------------------------------
(* hard_filter_job(): the constraints file and, with a cooldown, the        *)
(* company's application history decide; both change under the pipeline, so *)
(* either outcome is possible each time.                                    *)
HardFilterPass(t) ==
    /\ At(t, "filter")
    /\ Go(t, IF task[t].loaded = DISCOVERED THEN "recheck" ELSE "score")
    /\ UNCHANGED <<status, analyses, clock>>

(* A failing job is rejected on the spot, whatever its status is by now.    *)
HardFilterFail(t) ==
    /\ At(t, "filter")
    /\ SetJobStatus(Job(t), task[t].loaded, "REJECT")
    /\ End(t, "filtered")
    /\ UNCHANGED <<analyses, clock>>

\* Mutants: no second look; a look with the test the wrong way round.
RecheckDropped(t) ==
    /\ At(t, "recheck")
    /\ Go(t, "score")
    /\ UNCHANGED <<status, analyses, clock>>

RecheckInverted(t) ==
    /\ At(t, "recheck")
    /\ IF status[Job(t)] # DISCOVERED THEN Go(t, "score")
                                      ELSE End(t, "skipped")
    /\ UNCHANGED <<status, analyses, clock>>

(* The persisted status is read again right before the paid call, only for  *)
(* a job loaded as DISCOVERED.                                              *)
Recheck(t) ==
    /\ At(t, "recheck")
    /\ IF status[Job(t)] = DISCOVERED THEN Go(t, "score")
                                      ELSE End(t, "skipped")
    /\ UNCHANGED <<status, analyses, clock>>

\* Mutant: the analysis row is not committed before the status.
ScoreWithoutRecord(t) ==
    /\ At(t, "score")
    /\ \E v \in Verdicts :
          task' = [task EXCEPT ![t] = [@ EXCEPT !.pc = "decide",
                                                !.verdict = v]]
    /\ UNCHANGED <<status, analyses, clock>>

(* score_job() returns from its worker thread and record_analysis() commits *)
(* the row on its own.  Raise(t) is the failure of either.                  *)
ScoreAndRecord(t) ==
    /\ At(t, "score")
    /\ \E v \in Verdicts :
          /\ analyses' = [analyses EXCEPT ![Job(t)] =
                 Append(@, [verdict |-> v, analyzed_at |-> task[t].began])]
          /\ task' = [task EXCEPT ![t] = [@ EXCEPT !.pc = "decide",
                                                   !.verdict = v]]
    /\ UNCHANGED <<status, clock>>

\* Mutant: the status is set in memory and never committed.
VerdictNotCommitted(t) ==
    /\ At(t, "decide")
    /\ End(t, "decided")
    /\ UNCHANGED <<status, analyses, clock>>

\* Mutant: only a first analysis decides the status.
VerdictOnlyFirst(t) ==
    /\ At(t, "decide")
    /\ IF task[t].loaded = DISCOVERED
       THEN SetJobStatus(Job(t), task[t].loaded, task[t].verdict)
       ELSE UNCHANGED status
    /\ End(t, "decided")
    /\ UNCHANGED <<analyses, clock>>

(* The second commit: the verdict becomes the job's status.                 *)
CommitVerdict(t) ==
    /\ At(t, "decide")
    /\ SetJobStatus(Job(t), task[t].loaded, task[t].verdict)
    /\ End(t, "decided")
    /\ UNCHANGED <<analyses, clock>>

-----------------------------------------------------------------------------
EndOf(t) == IF At(t, "decide") THEN "torn" ELSE "failed"

(* An await raises: LLMServiceError, OSError, a lost database connection.   *)
(* Nothing in the pipeline catches it; the session rolls back what it had   *)
(* not committed, and _auto_analyze swallows the exception.  A crash of the *)
(* process is this for every request in flight: a restart resumes none.     *)
Raise(t) ==
    /\ task[t].pc \in Live
    /\ End(t, EndOf(t))
    /\ UNCHANGED <<status, analyses, clock>>

(* What a request's own coroutine does next.                                *)
Continue(t) ==
    \/ InsertJob(t) \/ CommitJob(t) \/ Lookup(t)
    \/ WriteStatus(t)
    \/ HardFilterPass(t) \/ HardFilterFail(t)
    \/ Recheck(t) \/ ScoreAndRecord(t) \/ CommitVerdict(t)

Request(t) == Save(t) \/ Analyze(t) \/ RejectJob(t) \/ RestoreJob(t)

Next == \E t \in Tasks : Request(t) \/ Continue(t) \/ Raise(t)

Spec == Init /\ [][Next]_vars

(* The event loop and the database always get to a request.  A scoring is   *)
(* promised nothing: the worker thread it needs may be one of those that    *)
(* hung scrapes hold for ever (BlockingCalls).  Nobody has to send one.     *)
FairSpec ==
    Spec /\ \A t \in Tasks : WF_vars(~At(t, "score") /\ Continue(t))

-----------------------------------------------------------------------------
(* The user put the job back to DISCOVERED.                                 *)
Restored(j) == \E t \in Tasks : /\ At(t, "written") /\ Job(t) = j
                                /\ task[t].kind = "restore"

InFlight(j, pcs) == \E t \in Tasks : Job(t) = j /\ task[t].pc \in pcs

(* record_analysis() commits before set_job_status(): whatever fails in     *)
(* between and whoever else writes, a job the dashboard shows as scored has *)
(* an analysis whose decide() gave just that status.                        *)
StatusBacked ==
    \A j \in Jobs : status[j] \in {"REVIEW_REQUIRED", "READY_FOR_REVIEW"} =>
        \E i \in 1..Len(analyses[j]) : analyses[j][i].verdict = status[j]

(* A job that has an analysis and still says DISCOVERED is explained: its   *)
(* status commit is under way, was cut off after the first commit, or the   *)
(* user restored the job.  The pipeline never drops a verdict otherwise.    *)
DiscoveredExplained ==
    \A j \in Jobs : (status[j] = DISCOVERED /\ analyses[j] # << >>) =>
        InFlight(j, {"decide", "torn"}) \/ Restored(j)

(* The re-check: once one first analysis of a job has committed its         *)
(* verdict, no other request that loaded the job as DISCOVERED starts the   *)
(* paid call, unless the user restored the job in between.                  *)
NoScoreAfterVerdict ==
    [][ \A t \in Tasks, u \in Tasks :
          ( /\ task[t].pc = "recheck" /\ task'[t].pc = "score"
            /\ task[u].pc \in {"decided", "filtered"} /\ Job(u) = Job(t) )
          => Restored(Job(t)) ]_vars

(* Auto-analysis is queued once per posting: two saves of one description,  *)
(* however they interleave, leave one request that goes on to the pipeline. *)
OneAutoAnalysis ==
    \A t, u \in Tasks :
        ( /\ task[t].kind = "save" /\ task[u].kind = "save"
          /\ Job(t) = Job(u)
          /\ task[t].pc \notin {"insert", "duplicate", "failed"}
          /\ task[u].pc \notin {"insert", "duplicate", "failed"} ) => t = u

(* Nobody has to open a saved job to have it analysed: it leaves DISCOVERED *)
(* by itself unless its background task failed, or waits for a worker to    *)
(* score it and never gets one.  No re-check, filter or rival leaves it so. *)
SavedJobIsDecided ==
    \A t \in Tasks :
        At(t, "lookup") ~> \/ status[Job(t)] # DISCOVERED
                           \/ task[t].pc \in {"failed", "torn"}
                           \/ []At(t, "score")

(* job.analyses[0]: the row with the newest analyzed_at.                    *)
Newest(j) == CHOOSE a \in {analyses[j][i] : i \in 1..Len(analyses[j])} :
                \A i \in 1..Len(analyses[j]) :
                    analyses[j][i].analyzed_at <= a.analyzed_at

(* Analyses of one job that both decided and were open at the same time.    *)
Overlapped(t, u) ==
    /\ t # u /\ Job(t) = Job(u)
    /\ At(t, "decided") /\ At(u, "decided")
    /\ task[t].began < task[u].ended /\ task[u].began < task[t].ended

(* The dashboard shows the fit score of the newest analysis beside the      *)
(* status.  While no analysis of a job is between its two commits, or was   *)
(* cut off there, and no user or filter has written its status, the status  *)
(* is that analysis's own verdict, unless it overlapped with another: then  *)
(* the later commit, or one dropped as no net change, may have left the     *)
(* other's.                                                                 *)
ShownDecidedTogether ==
    \A j \in Jobs :
        ( /\ analyses[j] # << >> /\ status[j] # Newest(j).verdict
          /\ \A t \in Tasks : Job(t) = j =>
                task[t].pc \notin {"decide", "torn", "filtered", "written"} )
        => \E t, u \in Tasks : /\ Overlapped(t, u) /\ Job(t) = j
                              /\ task[t].began = Newest(j).analyzed_at

=============================================================================
