-------------------------- MODULE JobAnalysisProofs --------------------------
(***************************************************************************)
(* Proofs about JobAnalysis for any sets of postings and requests.          *)
(*                                                                          *)
(* The argument behind all of them: a request carries the status it loaded, *)
(* and can only withhold its own write if it loaded something other than    *)
(* DISCOVERED; a job that was once past DISCOVERED only returns there by a  *)
(* restore.  What the dashboard shows takes a second invariant, ShownInv:   *)
(* requests that analyse begin at different ticks, which tell whose each    *)
(* row is and whether two of them overlapped.                               *)
(***************************************************************************)
EXTENDS JobAnalysis, TLAPS

(* A request that has not yet found its job in the table, or never did.     *)
Early == {"new", "insert", "inserted", "failed"}
Loaded == {"filter", "recheck", "score", "decide", "write"}
Cut == {"insert", "duplicate", "failed"}

(* An inserted, uncommitted posting is absent for everybody else.           *)
InsertedIsAbsent ==
    \A t \in Tasks : At(t, "inserted") => status[Job(t)] = "absent"

(* Whoever is past the insert found the job in the table.                   *)
LaterIsPresent ==
    \A t \in Tasks : task[t].pc \notin Early => status[Job(t)] # "absent"

AnalysedIsPresent ==
    \A j \in Jobs : analyses[j] # << >> => status[j] # "absent"

(* A session that is not open holds nothing; each kind keeps to its part.   *)
SessionShape ==
    \A t \in Tasks :
        /\ task[t].loaded # DISCOVERED => task[t].pc \in Loaded
        /\ At(t, "new") => task[t].kind = "none"
        /\ task[t].pc \in {"insert", "inserted", "lookup"} =>
              task[t].kind = "save"
        /\ At(t, "write") => task[t].kind \in {"reject", "restore"}

(* A session that loaded another status than DISCOVERED and would find the  *)
(* job DISCOVERED now was overtaken by a restore.                           *)
OvertakenByRestore ==
    \A t \in Tasks :
        task[t].loaded # DISCOVERED /\ status[Job(t)] = DISCOVERED
            => Restored(Job(t))

(* A job some request decided is DISCOVERED only after a restore.           *)
DecidedStays ==
    \A t \in Tasks :
        task[t].pc \in {"decided", "filtered"} /\ status[Job(t)] = DISCOVERED
            => Restored(Job(t))

(* A verdict about to be committed is that of a recorded analysis.          *)
HasVerdict(j, v) == \E i \in 1..Len(analyses[j]) : analyses[j][i].verdict = v
DecideBacked ==
    \A t \in Tasks : At(t, "decide") => HasVerdict(Job(t), task[t].verdict)

IInv == /\ TypeOK
        /\ InsertedIsAbsent /\ LaterIsPresent /\ AnalysedIsPresent
        /\ SessionShape /\ OvertakenByRestore /\ DecidedStays
        /\ DecideBacked /\ StatusBacked
        /\ DiscoveredExplained /\ OneAutoAnalysis

(* Of the requests that analyse: no two begin at the same tick of the clock. *)
Analysing == {"filter", "recheck", "score", "decide", "decided", "torn"}
BeginsApart ==
    \A t \in Tasks : task[t].pc \in Analysing =>
        /\ task[t].began < clock
        /\ At(t, "decided") => task[t].began < task[t].ended
        /\ \A u \in Tasks \ {t} :
              task[u].pc \in Analysing => task[u].began # task[t].began

(* Every row has the request that recorded it, which carries its verdict    *)
(* until the commit; a request that decided has recorded its row.           *)
Recorded(j, i, t) == /\ Job(t) = j /\ task[t].pc \in {"decide", "decided", "torn"}
                     /\ analyses[j][i].analyzed_at = task[t].began
                     /\ At(t, "decide") => analyses[j][i].verdict = task[t].verdict
RowsHaveAuthors ==
    \A j \in Jobs : \A i \in 1..Len(analyses[j]) :
        \E t \in Tasks : Recorded(j, i, t)
AuthorsHaveRows ==
    \A t \in Tasks : task[t].pc \in {"decide", "decided"} =>
        \E i \in 1..Len(analyses[Job(t)]) :
            analyses[Job(t)][i].analyzed_at = task[t].began

(* There is a newest row.                                                   *)
NewestExists ==
    \A j \in Jobs : analyses[j] # << >> =>
        \E i \in 1..Len(analyses[j]) : \A k \in 1..Len(analyses[j]) :
            analyses[j][k].analyzed_at <= analyses[j][i].analyzed_at

(* While only analyses have written a job's status, one that began after    *)
(* all others had ended finds it as it loaded it, and leaves its verdict.   *)
OnlyAnalysed(t) ==
    \A u \in Tasks : Job(u) = Job(t) => task[u].pc \notin {"filtered", "written"}
Undisturbed(t) ==
    \A u \in Tasks \ {t} :
        At(u, "decided") /\ Job(u) = Job(t) => task[u].ended <= task[t].began
FindsAndLeaves(t) ==
    /\ task[t].pc \in {"filter", "recheck", "score", "decide"} =>
          status[Job(t)] = task[t].loaded
    /\ At(t, "decided") => \A i \in 1..Len(analyses[Job(t)]) :
          analyses[Job(t)][i].analyzed_at = task[t].began =>
              status[Job(t)] = analyses[Job(t)][i].verdict
UndisturbedDecides ==
    \A t \in Tasks :
        OnlyAnalysed(t) /\ Undisturbed(t) => FindsAndLeaves(t)

ShownInv == /\ BeginsApart /\ RowsHaveAuthors /\ AuthorsHaveRows
            /\ NewestExists /\ UndisturbedDecides

-----------------------------------------------------------------------------
(* The rows and the requests keep their types.                              *)
THEOREM TypeCorrect == Spec => []TypeOK
<1>1. Init => TypeOK
  BY DEF Init, TypeOK, Task, Blank, Kinds, JobStatus, Verdicts, DISCOVERED
<1>2. TypeOK /\ [Next]_vars => TypeOK'
  <2> SUFFICES ASSUME TypeOK, [Next]_vars PROVE TypeOK'
    OBVIOUS
  <2> USE DEF TypeOK, At, Job, Go, DISCOVERED, REJECTED
  <2>a. \A t \in Tasks : task[t] \in Task /\ Job(t) \in Jobs
    BY DEF Task
  <2>b. \A t \in Tasks, pc \in {"new"} \cup Live \cup Ended :
           Closed(t, pc) \in Task
    BY <2>a DEF Closed, Blank, Task, JobStatus, Verdicts
  <2>c. \A t \in Tasks, pc \in {"new"} \cup Live \cup Ended :
           [task[t] EXCEPT !.pc = pc] \in Task
    BY <2>a DEF Task
  <2>d. ASSUME NEW t \in Tasks, NEW pc \in {"new"} \cup Live \cup Ended,
               Go(t, pc) \/ End(t, pc)
        PROVE  task' \in [Tasks -> Task]
    BY <2>b, <2>c, <2>d DEF End
  <2>1. ASSUME NEW t \in Tasks, Save(t) PROVE TypeOK'
    <3>1. [task[t] EXCEPT !.pc = "insert", !.kind = "save"] \in Task
      BY <2>a DEF Task, Live, Kinds
    <3> QED
      BY <2>1, <3>1 DEF Save
  <2>2. ASSUME NEW t \in Tasks, InsertJob(t) PROVE TypeOK'
    <3>1. Go(t, "inserted") \/ End(t, "duplicate")
      BY <2>2 DEF InsertJob
    <3>2. task' \in [Tasks -> Task]
      BY <2>d, <3>1 DEF Live, Ended
    <3> QED
      BY <2>2, <3>2 DEF InsertJob
  <2>3. ASSUME NEW t \in Tasks, CommitJob(t) PROVE TypeOK'
    BY <2>3, <2>a, <2>c DEF CommitJob, Live, JobStatus
  <2>4. ASSUME NEW t \in Tasks, NEW k \in Kinds, NEW pc \in Live,
               Load(t, k, pc), clock' \in Nat
        PROVE  TypeOK'
    <3>1. status[Job(t)] \in JobStatus
      BY <2>4, <2>a DEF Load
    <3>2. [task[t] EXCEPT !.pc = pc, !.kind = k, !.loaded = status[Job(t)],
                          !.began = clock] \in Task
      BY <2>a, <3>1 DEF Task
    <3> QED
      BY <2>4, <3>2 DEF Load
  <2>5. ASSUME NEW t \in Tasks, Lookup(t) \/ Analyze(t) PROVE TypeOK'
    BY <2>4, <2>5 DEF Lookup, Analyze, LoadForAnalysis, Live, Kinds
  <2>6. ASSUME NEW t \in Tasks, RejectJob(t) \/ RestoreJob(t) PROVE TypeOK'
    BY <2>4, <2>6 DEF RejectJob, RestoreJob, LoadForUser, Live, Kinds
  <2>7. ASSUME NEW t \in Tasks, WriteStatus(t) PROVE TypeOK'
    BY <2>7, <2>a, <2>b DEF WriteStatus, SetJobStatus, UserStatus, End, Ended,
       JobStatus
  <2>8. ASSUME NEW t \in Tasks, HardFilterPass(t) PROVE TypeOK'
    BY <2>8, <2>c DEF HardFilterPass, Live
  <2>9. ASSUME NEW t \in Tasks, HardFilterFail(t) PROVE TypeOK'
    BY <2>9, <2>a, <2>b DEF HardFilterFail, SetJobStatus, End, Ended,
       JobStatus, Verdicts
  <2>10. ASSUME NEW t \in Tasks, Recheck(t) PROVE TypeOK'
    <3>1. Go(t, "score") \/ End(t, "skipped")
      BY <2>10 DEF Recheck
    <3>2. task' \in [Tasks -> Task]
      BY <2>d, <3>1 DEF Live, Ended
    <3> QED
      BY <2>10, <3>2 DEF Recheck
  <2>11. ASSUME NEW t \in Tasks, ScoreAndRecord(t) PROVE TypeOK'
    <3>1. PICK v \in Verdicts :
            /\ analyses' = [analyses EXCEPT ![Job(t)] =
                 Append(@, [verdict |-> v, analyzed_at |-> task[t].began])]
            /\ task' = [task EXCEPT ![t] = [@ EXCEPT !.pc = "decide",
                                                     !.verdict = v]]
      BY <2>11 DEF ScoreAndRecord
    <3>2. [task[t] EXCEPT !.pc = "decide", !.verdict = v] \in Task
      BY <2>a DEF Task, Live
    <3>3. [verdict |-> v, analyzed_at |-> task[t].began] \in Analysis
      BY <2>a DEF Task, Analysis
    <3>4. Append(analyses[Job(t)],
                 [verdict |-> v, analyzed_at |-> task[t].began])
             \in Seq(Analysis)
      BY <2>a, <3>3
    <3> QED
      BY <2>11, <3>1, <3>2, <3>4 DEF ScoreAndRecord
  <2>12. ASSUME NEW t \in Tasks, CommitVerdict(t) PROVE TypeOK'
    <3>1. task[t].verdict \in JobStatus
      BY <2>a DEF Task, JobStatus
    <3> QED
      BY <2>12, <2>a, <2>b, <3>1 DEF CommitVerdict, SetJobStatus, End, Ended
  <2>13. ASSUME NEW t \in Tasks, Raise(t) PROVE TypeOK'
    BY <2>13, <2>b DEF Raise, End, EndOf, Ended
  <2>14. CASE UNCHANGED vars
    BY <2>14 DEF vars
  <2> QED
    BY <2>1, <2>2, <2>3, <2>5, <2>6, <2>7, <2>8, <2>9, <2>10, <2>11, <2>12,
       <2>13, <2>14 DEF Next, Request, Continue
<1> QED
  BY <1>1, <1>2, PTL DEF Spec

-----------------------------------------------------------------------------
(* The strengthened invariant holds at first.                               *)
LEMMA IInvInit == Init => IInv
<1> SUFFICES ASSUME Init PROVE IInv
  OBVIOUS
<1>1. TypeOK
  BY DEF Init, TypeOK, Task, Blank, Kinds, JobStatus, Verdicts, DISCOVERED
<1>2. /\ \A t \in Tasks : /\ task[t].pc = "new" /\ task[t].kind = "none"
                          /\ task[t].loaded = DISCOVERED
      /\ \A j \in Jobs : /\ analyses[j] = << >>
                         /\ status[j] \in {"absent", DISCOVERED}
  BY DEF Init, Blank
<1> QED
  BY <1>1, <1>2 DEF IInv, InsertedIsAbsent, LaterIsPresent, AnalysedIsPresent,
     SessionShape, OvertakenByRestore, DecidedStays, DecideBacked,
     StatusBacked, DiscoveredExplained, OneAutoAnalysis, At, Job, Early,
     DISCOVERED

(* A step of one request writes nothing but its own session.                *)
Others(t) == /\ \A u \in Tasks \ {t} : task'[u] = task[u]
             /\ task'[t].job = task[t].job

(* A restore is not forgotten.                                              *)
LEMMA RestoredStays ==
    ASSUME NEW t \in Tasks, Others(t), task[t].pc # "written", NEW j,
           Restored(j)
    PROVE  Restored(j)'
BY DEF Others, Restored, At, Job

(* A step that writes no row and neither makes nor ends a decision.         *)
LEMMA QuietStep ==
    ASSUME IInv, NEW t \in Tasks, TypeOK', Others(t),
           status' = status, analyses' = analyses,
           task[t].pc \notin Ended,
           task[t].pc = "decide" => task'[t].pc = "torn",
           task'[t].pc \notin {"new", "decide", "decided", "filtered"},
           task'[t].pc = "inserted" => status[Job(t)] = "absent",
           task'[t].pc \notin Early => status[Job(t)] # "absent",
           task'[t].loaded # DISCOVERED => task'[t].pc \in Loaded,
           task'[t].loaded \in {DISCOVERED, task[t].loaded, status[Job(t)]},
           task'[t].pc \in {"insert", "inserted", "lookup"} =>
              task'[t].kind = "save",
           task'[t].pc = "write" => task'[t].kind \in {"reject", "restore"},
           (task'[t].kind = "save" /\ task'[t].pc \notin Cut) =>
              \/ task[t].kind = "save" /\ task[t].pc \notin Cut
              \/ /\ status[Job(t)] = "absent"
                 /\ \A u \in Tasks : At(u, "inserted") => Job(u) # Job(t)
    PROVE  IInv'
<1> USE DEF Others, At, Job
<1>a. \A j : Restored(j) => Restored(j)'
  BY RestoredStays DEF Ended
<1>1. InsertedIsAbsent' /\ LaterIsPresent' /\ AnalysedIsPresent'
  BY DEF IInv, InsertedIsAbsent, LaterIsPresent, AnalysedIsPresent
<1>2. SessionShape'
  BY DEF IInv, SessionShape
<1>3. OvertakenByRestore'
  BY <1>a DEF IInv, OvertakenByRestore
<1>4. DecidedStays'
  BY <1>a DEF IInv, DecidedStays
<1>5. DecideBacked' /\ StatusBacked'
  BY DEF IInv, DecideBacked, StatusBacked, HasVerdict
<1>6. DiscoveredExplained'
  BY <1>a DEF IInv, DiscoveredExplained, InFlight, Ended
<1>7. OneAutoAnalysis'
  <2> SUFFICES ASSUME NEW u \in Tasks \ {t}, task[u].kind = "save",
                      task'[t].kind = "save", task'[t].job = task[u].job,
                      task'[t].pc \notin Cut, task[u].pc \notin Cut
               PROVE  FALSE
    BY DEF IInv, OneAutoAnalysis, Cut
  <2>1. task[u].pc # "new"
    BY DEF IInv, SessionShape
  <2>2. CASE task[t].kind = "save" /\ task[t].pc \notin Cut
    BY <2>2 DEF IInv, OneAutoAnalysis, Cut
  <2>3. CASE /\ status[Job(t)] = "absent"
             /\ \A v \in Tasks : At(v, "inserted") => Job(v) # Job(t)
    BY <2>1, <2>3 DEF IInv, LaterIsPresent, Early, Cut
  <2> QED
    BY <2>2, <2>3
<1> QED
  BY <1>1, <1>2, <1>3, <1>4, <1>5, <1>6, <1>7 DEF IInv

(* A step that ends a request by writing a status over the one it loaded.   *)
LEMMA SettleStep ==
    ASSUME IInv, NEW t \in Tasks, TypeOK', NEW pc, NEW new \in JobStatus,
           End(t, pc), SetJobStatus(Job(t), task[t].loaded, new),
           analyses' = analyses,
           pc \in {"decided", "filtered", "written"},
           task[t].pc \in {"filter", "decide", "write"},
           new = DISCOVERED => pc = "written" /\ task[t].kind = "restore",
           new \in {"REVIEW_REQUIRED", "READY_FOR_REVIEW"} =>
              HasVerdict(Job(t), new)
    PROVE  IInv'
<1> USE DEF At, Job
<1>a. /\ Others(t)
      /\ task'[t].pc = pc /\ task'[t].kind = task[t].kind
      /\ task'[t].loaded = DISCOVERED /\ Job(t) \in Jobs
  BY DEF IInv, TypeOK, Task, End, Closed, Blank, Others
<1>b. \A j : Restored(j) => Restored(j)'
  BY <1>a, RestoredStays
<1>d. /\ \A j \in Jobs \ {Job(t)} : status'[j] = status[j]
      /\ \/ status'[Job(t)] = new
         \/ status'[Job(t)] = status[Job(t)] /\ new = task[t].loaded
  BY <1>a DEF SetJobStatus, IInv, TypeOK
<1>e. status[Job(t)] # "absent" /\ new # "absent"
  BY DEF IInv, LaterIsPresent, Early, JobStatus, Verdicts, DISCOVERED, REJECTED
<1>1. InsertedIsAbsent' /\ LaterIsPresent' /\ AnalysedIsPresent'
  <2>1. InsertedIsAbsent'
    <3> SUFFICES ASSUME NEW u \in Tasks, task'[u].pc = "inserted"
                 PROVE  status'[task'[u].job] = "absent"
      BY DEF InsertedIsAbsent
    <3>1. u # t /\ task'[u] = task[u]
      BY <1>a DEF Others
    <3>2. status[task[u].job] = "absent" /\ task[u].job \in Jobs
      BY <3>1 DEF IInv, InsertedIsAbsent, TypeOK, Task
    <3> QED
      BY <3>1, <3>2, <1>d, <1>e
  <2>2. LaterIsPresent'
    <3> SUFFICES ASSUME NEW u \in Tasks, task'[u].pc \notin Early
                 PROVE  status'[task'[u].job] # "absent"
      BY DEF LaterIsPresent
    <3>1. task'[u].job = task[u].job /\ task[u].job \in Jobs
      BY <1>a DEF Others, IInv, TypeOK, Task
    <3>2. task[u].pc \notin Early
      BY <1>a DEF Others, Early
    <3> QED
      BY <3>1, <3>2, <1>d, <1>e DEF IInv, LaterIsPresent
  <2>3. AnalysedIsPresent'
    BY <1>d, <1>e DEF IInv, AnalysedIsPresent
  <2> QED
    BY <2>1, <2>2, <2>3
<1>2. SessionShape'
  BY <1>a DEF IInv, SessionShape, Others
<1>f. ASSUME NEW j \in Jobs, j = task[t].job, status'[j] = DISCOVERED
      PROVE  Restored(j)'
  <2>1. CASE new = DISCOVERED
    BY <1>f, <2>1, <1>a DEF Restored, Others
  <2>2. CASE new # DISCOVERED
    <3>1. task[t].loaded # DISCOVERED /\ status[j] = DISCOVERED
      BY <1>d, <1>f, <2>2
    <3> QED
      BY <3>1, <1>b, <1>f DEF IInv, OvertakenByRestore
  <2> QED
    BY <2>1, <2>2
<1>3. OvertakenByRestore'
  <2> SUFFICES ASSUME NEW u \in Tasks, task'[u].loaded # DISCOVERED,
                      NEW j \in Jobs, j = task'[u].job,
                      status'[j] = DISCOVERED
               PROVE  Restored(j)'
    BY DEF OvertakenByRestore, Restored, TypeOK, Task
  <2>1. u # t /\ task'[u] = task[u]
    BY <1>a DEF Others
  <2>2. CASE status[j] = DISCOVERED
    BY <2>1, <2>2, <1>b DEF IInv, OvertakenByRestore
  <2>3. CASE status[j] # DISCOVERED
    BY <2>1, <2>3, <1>d, <1>f
  <2> QED
    BY <2>2, <2>3
<1>4. DecidedStays'
  <2> SUFFICES ASSUME NEW u \in Tasks, task'[u].pc \in {"decided", "filtered"},
                      NEW j \in Jobs, j = task'[u].job,
                      status'[j] = DISCOVERED
               PROVE  Restored(j)'
    BY DEF DecidedStays, Restored, TypeOK, Task
  <2>1. CASE j = task[t].job
    BY <2>1, <1>f
  <2>2. CASE j # task[t].job
    <3>1. u # t /\ task'[u] = task[u] /\ status[j] = DISCOVERED
      BY <2>2, <1>a, <1>d DEF Others
    <3> QED
      BY <3>1, <1>b DEF IInv, DecidedStays
  <2> QED
    BY <2>1, <2>2
<1>5. DecideBacked'
  BY <1>a DEF IInv, DecideBacked, HasVerdict, Others
<1>6. StatusBacked'
  BY <1>a, <1>d DEF IInv, StatusBacked, HasVerdict
<1>7. DiscoveredExplained'
  <2> SUFFICES ASSUME NEW j \in Jobs, status'[j] = DISCOVERED,
                      analyses[j] # << >>
               PROVE  InFlight(j, {"decide", "torn"})' \/ Restored(j)'
    BY DEF DiscoveredExplained
  <2>1. CASE j = Job(t)
    BY <2>1, <1>f
  <2>2. CASE j # Job(t)
    BY <2>2, <1>a, <1>b, <1>d DEF IInv, DiscoveredExplained, InFlight, Others
  <2> QED
    BY <2>1, <2>2
<1>8. OneAutoAnalysis'
  BY <1>a DEF IInv, OneAutoAnalysis, Others
<1> QED
  BY <1>1, <1>2, <1>3, <1>4, <1>5, <1>6, <1>7, <1>8 DEF IInv

(* The commit of an insert: nobody can have loaded the job yet.             *)
LEMMA CommitJobStep ==
    ASSUME IInv, NEW t \in Tasks, TypeOK', CommitJob(t)
    PROVE  IInv'
<1> USE DEF At, Job
<1>a. /\ Others(t) /\ analyses' = analyses
      /\ task[t].pc = "inserted" /\ task'[t].pc = "lookup"
      /\ task'[t].kind = task[t].kind /\ task'[t].loaded = task[t].loaded
      /\ status[task[t].job] = "absent" /\ task[t].job \in Jobs
      /\ status' = [status EXCEPT ![task[t].job] = DISCOVERED]
  BY DEF CommitJob, Go, Others, IInv, TypeOK, Task, InsertedIsAbsent
<1>b. \A j : Restored(j) => Restored(j)'
  BY <1>a, RestoredStays
<1>c. \A u \in Tasks : task[u].job = task[t].job => task[u].pc \in Early
  BY <1>a DEF IInv, LaterIsPresent
<1>d. /\ status'[task[t].job] = DISCOVERED
      /\ \A j \in Jobs \ {task[t].job} : status'[j] = status[j]
  BY <1>a DEF IInv, TypeOK
<1>1. InsertedIsAbsent'
  <2> SUFFICES ASSUME NEW u \in Tasks, task'[u].pc = "inserted"
               PROVE  status'[task'[u].job] = "absent"
    BY DEF InsertedIsAbsent
  <2>1. u # t /\ task'[u] = task[u] /\ task[u].job \in Jobs
    BY <1>a DEF Others, IInv, TypeOK, Task
  <2>2. task[u].kind = "save" /\ task[t].kind = "save"
    BY <1>a, <2>1 DEF IInv, SessionShape
  <2>3. task[u].job # task[t].job
    BY <1>a, <2>1, <2>2 DEF IInv, OneAutoAnalysis
  <2> QED
    BY <2>1, <2>3, <1>d DEF IInv, InsertedIsAbsent
<1>e. \A u \in Tasks : task'[u].job = task[u].job /\ task[u].job \in Jobs
  BY <1>a DEF Others, IInv, TypeOK, Task
<1>2. LaterIsPresent' /\ AnalysedIsPresent'
  <2>1. \A j \in Jobs : status[j] # "absent" => status'[j] # "absent"
    BY <1>a, <1>d
  <2>2. AnalysedIsPresent'
    BY <1>a, <2>1 DEF IInv, AnalysedIsPresent
  <2>3. LaterIsPresent'
    <3> SUFFICES ASSUME NEW u \in Tasks, task'[u].pc \notin Early
                 PROVE  status'[task[u].job] # "absent"
      BY <1>e DEF LaterIsPresent
    <3>1. CASE u = t
      BY <3>1, <1>d DEF DISCOVERED
    <3>2. CASE u # t
      BY <3>2, <2>1, <1>a, <1>e DEF Others, IInv, LaterIsPresent
    <3> QED
      BY <3>1, <3>2
  <2> QED
    BY <2>2, <2>3
<1>3. SessionShape'
  BY <1>a DEF IInv, SessionShape, Others, Loaded
<1>4. OvertakenByRestore'
  <2> SUFFICES ASSUME NEW u \in Tasks, task'[u].loaded # DISCOVERED,
                      NEW j \in Jobs, j = task'[u].job,
                      status'[j] = DISCOVERED
               PROVE  Restored(j)'
    BY <1>e DEF OvertakenByRestore, Restored
  <2>1. task[u].loaded # DISCOVERED /\ task[u].job = j
    BY <1>a DEF Others
  <2>2. j # task[t].job
    BY <2>1, <1>c DEF IInv, SessionShape, Loaded, Early
  <2> QED
    BY <2>1, <2>2, <1>b, <1>d DEF IInv, OvertakenByRestore
<1>5. DecidedStays'
  <2> SUFFICES ASSUME NEW u \in Tasks, task'[u].pc \in {"decided", "filtered"},
                      NEW j \in Jobs, j = task'[u].job,
                      status'[j] = DISCOVERED
               PROVE  Restored(j)'
    BY <1>e DEF DecidedStays, Restored
  <2>1. u # t /\ task'[u] = task[u]
    BY <1>a DEF Others
  <2>2. j # task[t].job
    BY <2>1, <1>c DEF Early
  <2> QED
    BY <2>1, <2>2, <1>b, <1>d DEF IInv, DecidedStays
<1>6. DecideBacked' /\ StatusBacked'
  BY <1>a, <1>d DEF IInv, DecideBacked, StatusBacked, HasVerdict, Others,
     DISCOVERED
<1>7. DiscoveredExplained'
  <2> SUFFICES ASSUME NEW j \in Jobs, status'[j] = DISCOVERED,
                      analyses[j] # << >>
               PROVE  InFlight(j, {"decide", "torn"})' \/ Restored(j)'
    BY <1>a DEF DiscoveredExplained
  <2>1. status[j] = DISCOVERED
    BY <1>a, <1>d DEF IInv, AnalysedIsPresent
  <2> QED
    BY <2>1, <1>a, <1>b DEF IInv, DiscoveredExplained, InFlight, Others
<1>8. OneAutoAnalysis'
  BY <1>a DEF IInv, OneAutoAnalysis, Others
<1> QED
  BY <1>1, <1>2, <1>3, <1>4, <1>5, <1>6, <1>7, <1>8 DEF IInv

(* The commit of an analysis row puts its verdict behind the request.       *)
LEMMA ScoreStep ==
    ASSUME IInv, NEW t \in Tasks, TypeOK', ScoreAndRecord(t)
    PROVE  IInv'
<1> USE DEF At, Job
<1>1. PICK v \in Verdicts :
        /\ analyses' = [analyses EXCEPT ![task[t].job] =
             Append(@, [verdict |-> v, analyzed_at |-> task[t].began])]
        /\ task' = [task EXCEPT ![t] = [@ EXCEPT !.pc = "decide",
                                                 !.verdict = v]]
  BY DEF ScoreAndRecord
<1>a. /\ Others(t) /\ status' = status
      /\ task[t].pc = "score" /\ task'[t].pc = "decide"
      /\ task'[t].verdict = v /\ task'[t].kind = task[t].kind
      /\ task'[t].loaded = task[t].loaded /\ task[t].job \in Jobs
  BY <1>1 DEF ScoreAndRecord, Others, IInv, TypeOK, Task
<1>b. \A j : Restored(j) => Restored(j)'
  BY <1>a, RestoredStays
<1>c. \A j \in Jobs \ {task[t].job} : analyses'[j] = analyses[j]
  BY <1>1 DEF IInv, TypeOK
<1>d. \A j \in Jobs : \A w : HasVerdict(j, w) => HasVerdict(j, w)'
  <2> SUFFICES ASSUME NEW w, HasVerdict(task[t].job, w)
               PROVE  \E i \in 1..Len(analyses'[task[t].job]) :
                         analyses'[task[t].job][i].verdict = w
    BY <1>c DEF HasVerdict
  <2>1. PICK i \in 1..Len(analyses[task[t].job]) :
               analyses[task[t].job][i].verdict = w
    BY DEF HasVerdict
  <2>2. /\ analyses[task[t].job] \in Seq(Analysis)
        /\ analyses'[task[t].job] =
              Append(analyses[task[t].job],
                     [verdict |-> v, analyzed_at |-> task[t].began])
    BY <1>1, <1>a DEF IInv, TypeOK
  <2> QED
    BY <2>1, <2>2
<1>e. HasVerdict(task[t].job, v)'
  <2>1. /\ analyses[task[t].job] \in Seq(Analysis)
        /\ analyses'[task[t].job] =
              Append(analyses[task[t].job],
                     [verdict |-> v, analyzed_at |-> task[t].began])
    BY <1>1, <1>a DEF IInv, TypeOK
  <2>2. Len(analyses'[task[t].job]) \in 1..Len(analyses'[task[t].job])
    BY <2>1
  <2>3. analyses'[task[t].job][Len(analyses'[task[t].job])].verdict = v
    BY <2>1
  <2>4. task'[t].job = task[t].job
    BY <1>a DEF Others
  <2> QED
    BY <2>2, <2>3, <2>4 DEF HasVerdict
<1>2. InsertedIsAbsent' /\ LaterIsPresent'
  BY <1>a DEF IInv, InsertedIsAbsent, LaterIsPresent, Others, Early
<1>3. AnalysedIsPresent'
  BY <1>a, <1>c DEF IInv, AnalysedIsPresent, LaterIsPresent, Early
<1>4. SessionShape'
  BY <1>a DEF IInv, SessionShape, Others, Loaded
<1>5. OvertakenByRestore' /\ DecidedStays'
  BY <1>a, <1>b DEF IInv, OvertakenByRestore, DecidedStays, Others
<1>6. DecideBacked'
  BY <1>a, <1>d, <1>e DEF IInv, DecideBacked, Others, TypeOK, Task
<1>7. StatusBacked'
  BY <1>a, <1>d DEF IInv, StatusBacked, HasVerdict
<1>8. DiscoveredExplained'
  BY <1>a, <1>b, <1>c DEF IInv, DiscoveredExplained, InFlight, Others
<1>9. OneAutoAnalysis'
  BY <1>a DEF IInv, OneAutoAnalysis, Others, Cut
<1> QED
  BY <1>2, <1>3, <1>4, <1>5, <1>6, <1>7, <1>8, <1>9 DEF IInv

(* Every step preserves the strengthened invariant.                         *)
LEMMA IInvStep == IInv /\ TypeOK' /\ [Next]_vars => IInv'
<1> SUFFICES ASSUME IInv, TypeOK', [Next]_vars PROVE IInv'
  OBVIOUS
<1> USE DEF At, Job, DISCOVERED, REJECTED
<1>a. \A t \in Tasks : task[t] \in Task /\ task[t].job \in Jobs
  BY DEF IInv, TypeOK, Task
<1>1. ASSUME NEW t \in Tasks, Save(t) PROVE IInv'
  <2>1. /\ Others(t) /\ status' = status /\ analyses' = analyses
        /\ task[t].pc = "new" /\ task'[t].pc = "insert"
        /\ task'[t].kind = "save" /\ task'[t].loaded = task[t].loaded
    BY <1>1, <1>a DEF Save, Others, IInv, TypeOK, Task
  <2>2. task[t].loaded = DISCOVERED
    BY <2>1 DEF IInv, SessionShape, Loaded
  <2> QED
    BY <2>1, <2>2, QuietStep DEF Ended, Early, Cut
<1>2. ASSUME NEW t \in Tasks, InsertJob(t) PROVE IInv'
  <2>1. /\ status' = status /\ analyses' = analyses
        /\ task[t].pc = "insert" /\ task[t].kind = "save"
        /\ task[t].loaded = DISCOVERED
    BY <1>2 DEF InsertJob, IInv, SessionShape, Loaded
  <2>2. CASE /\ status[Job(t)] = "absent" /\ Go(t, "inserted")
             /\ \A u \in Tasks : At(u, "inserted") => Job(u) # Job(t)
    <3>1. /\ Others(t) /\ task'[t].pc = "inserted"
          /\ task'[t].kind = "save" /\ task'[t].loaded = DISCOVERED
      BY <2>1, <2>2, <1>a DEF Go, Others, IInv, TypeOK, Task
    <3> QED
      BY <2>1, <2>2, <3>1, QuietStep DEF Ended, Early, Cut
  <2>3. CASE status[Job(t)] # "absent" /\ End(t, "duplicate")
    <3>1. /\ Others(t) /\ task'[t].pc = "duplicate"
          /\ task'[t].loaded = DISCOVERED
      BY <2>3, <1>a DEF End, Closed, Blank, Others, IInv, TypeOK, Task
    <3> QED
      BY <2>1, <2>3, <3>1, QuietStep DEF Ended, Early, Cut
  <2> QED
    BY <1>2, <2>2, <2>3 DEF InsertJob
<1>3. ASSUME NEW t \in Tasks, CommitJob(t) PROVE IInv'
  BY <1>3, CommitJobStep
<1>4. ASSUME NEW t \in Tasks, NEW k, NEW pc \in {"filter", "write"},
             Load(t, k, pc), task[t].pc \in {"new", "lookup"},
             k = "save" => task[t].pc = "lookup" /\ task[t].kind = "save",
             pc = "write" => k \in {"reject", "restore"}
      PROVE  IInv'
  <2>1. /\ Others(t) /\ status' = status /\ analyses' = analyses
        /\ task'[t].pc = pc /\ task'[t].kind = k
        /\ task'[t].loaded = status[Job(t)] /\ status[Job(t)] # "absent"
    BY <1>4, <1>a DEF Load, Others, IInv, TypeOK, Task
  <2> QED
    BY <1>4, <2>1, QuietStep DEF Ended, Early, Loaded, Cut
<1>5. ASSUME NEW t \in Tasks, Lookup(t) PROVE IInv'
  <2>1. task[t].pc = "lookup" /\ Load(t, "save", "filter")
    BY <1>5 DEF Lookup, LoadForAnalysis
  <2>2. task[t].kind = "save"
    BY <2>1 DEF IInv, SessionShape
  <2> QED
    BY <2>1, <2>2, <1>4
<1>6. ASSUME NEW t \in Tasks, Analyze(t) PROVE IInv'
  BY <1>6, <1>4 DEF Analyze, LoadForAnalysis
<1>7. ASSUME NEW t \in Tasks, RejectJob(t) \/ RestoreJob(t) PROVE IInv'
  BY <1>7, <1>4 DEF RejectJob, RestoreJob, LoadForUser
<1>8. ASSUME NEW t \in Tasks, WriteStatus(t) PROVE IInv'
  <2>1. task[t].pc = "write" /\ task[t].kind \in {"reject", "restore"}
    BY <1>8 DEF WriteStatus, IInv, SessionShape
  <2>2. /\ End(t, "written") /\ analyses' = analyses
        /\ SetJobStatus(Job(t), task[t].loaded, UserStatus(task[t].kind))
        /\ UserStatus(task[t].kind) \in {REJECTED, DISCOVERED}
        /\ UserStatus(task[t].kind) = DISCOVERED => task[t].kind = "restore"
    BY <1>8, <2>1 DEF WriteStatus, UserStatus
  <2> QED
    BY <2>1, <2>2, SettleStep DEF JobStatus
<1>9. ASSUME NEW t \in Tasks, HardFilterPass(t) PROVE IInv'
  <2>1. /\ Others(t) /\ status' = status /\ analyses' = analyses
        /\ task[t].pc = "filter" /\ task'[t].pc \in {"recheck", "score"}
        /\ task'[t].kind = task[t].kind
        /\ task'[t].loaded = task[t].loaded
    BY <1>9, <1>a DEF HardFilterPass, Go, Others, IInv, TypeOK, Task
  <2>2. status[Job(t)] # "absent"
    BY <2>1 DEF IInv, LaterIsPresent, Early
  <2> QED
    BY <2>1, <2>2, QuietStep DEF Ended, Early, Loaded, Cut
<1>10. ASSUME NEW t \in Tasks, HardFilterFail(t) PROVE IInv'
  <2>1. /\ End(t, "filtered") /\ analyses' = analyses
        /\ SetJobStatus(Job(t), task[t].loaded, "REJECT")
        /\ task[t].pc = "filter"
    BY <1>10 DEF HardFilterFail
  <2> QED
    BY <2>1, SettleStep DEF JobStatus, Verdicts
<1>11. ASSUME NEW t \in Tasks, Recheck(t) PROVE IInv'
  <2>1. /\ status' = status /\ analyses' = analyses /\ task[t].pc = "recheck"
    BY <1>11 DEF Recheck
  <2>2. status[Job(t)] # "absent"
    BY <2>1 DEF IInv, LaterIsPresent, Early
  <2>3. CASE Go(t, "score")
    <3>1. /\ Others(t) /\ task'[t].pc = "score"
          /\ task'[t].kind = task[t].kind
          /\ task'[t].loaded = task[t].loaded
      BY <2>3, <1>a DEF Go, Others, IInv, TypeOK, Task
    <3> QED
      BY <2>1, <2>2, <3>1, QuietStep DEF Ended, Early, Loaded, Cut
  <2>4. CASE End(t, "skipped")
    <3>1. /\ Others(t) /\ task'[t].pc = "skipped"
          /\ task'[t].kind = task[t].kind /\ task'[t].loaded = DISCOVERED
      BY <2>4, <1>a DEF End, Closed, Blank, Others, IInv, TypeOK, Task
    <3> QED
      BY <2>1, <2>2, <3>1, QuietStep DEF Ended, Early, Cut
  <2> QED
    BY <1>11, <2>3, <2>4 DEF Recheck
<1>12. ASSUME NEW t \in Tasks, ScoreAndRecord(t) PROVE IInv'
  BY <1>12, ScoreStep
<1>13. ASSUME NEW t \in Tasks, CommitVerdict(t) PROVE IInv'
  <2>1. /\ End(t, "decided") /\ analyses' = analyses
        /\ SetJobStatus(Job(t), task[t].loaded, task[t].verdict)
        /\ task[t].pc = "decide"
    BY <1>13 DEF CommitVerdict
  <2>2. task[t].verdict \in Verdicts /\ HasVerdict(Job(t), task[t].verdict)
    BY <2>1, <1>a DEF Task, IInv, DecideBacked
  <2> QED
    BY <2>1, <2>2, SettleStep DEF JobStatus, Verdicts
<1>14. ASSUME NEW t \in Tasks, Raise(t) PROVE IInv'
  <2>1. /\ End(t, EndOf(t)) /\ status' = status /\ analyses' = analyses
        /\ task[t].pc \in Live
    BY <1>14 DEF Raise
  <2>2. /\ Others(t) /\ task'[t].pc = EndOf(t)
        /\ task'[t].kind = task[t].kind /\ task'[t].loaded = DISCOVERED
    BY <2>1, <1>a DEF End, Closed, Blank, Others, IInv, TypeOK, Task
  <2>3. /\ task[t].pc = "decide" => EndOf(t) = "torn"
        /\ task[t].pc # "decide" => EndOf(t) = "failed"
        /\ task[t].pc = "decide" => status[Job(t)] # "absent"
    BY DEF EndOf, IInv, LaterIsPresent, Early
  <2> QED
    BY <2>1, <2>2, <2>3, QuietStep DEF Live, Ended, Early, Cut
<1>15. CASE UNCHANGED vars
  BY <1>15 DEF vars, IInv, InsertedIsAbsent, LaterIsPresent,
     AnalysedIsPresent, SessionShape, OvertakenByRestore, DecidedStays,
     DecideBacked, StatusBacked, HasVerdict, DiscoveredExplained, InFlight,
     OneAutoAnalysis, Restored
<1> QED
  BY <1>1, <1>2, <1>3, <1>5, <1>6, <1>7, <1>8, <1>9, <1>10, <1>11, <1>12,
     <1>13, <1>14, <1>15 DEF Next, Request, Continue

-----------------------------------------------------------------------------
(* The strengthened invariant, for every number of requests and postings.   *)
THEOREM Invariance == Spec => []IInv
<1>1. Init => IInv
  BY IInvInit
<1>2. IInv /\ TypeOK' /\ [Next]_vars => IInv'
  BY IInvStep
<1> QED
  BY <1>1, <1>2, TypeCorrect, PTL DEF Spec

(* A job shown as scored has an analysis with that verdict, however saves,  *)
(* analyses, rejects, restores and failures interleave.                     *)
THEOREM StatusAlwaysBacked == Spec => []StatusBacked
<1>1. IInv => StatusBacked
  BY DEF IInv
<1> QED
  BY <1>1, Invariance, PTL

(* An analysed job that says DISCOVERED is about to be decided, was cut off *)
(* between the two commits, or was restored.                                *)
THEOREM DiscoveredAlwaysExplained == Spec => []DiscoveredExplained
<1>1. IInv => DiscoveredExplained
  BY DEF IInv
<1> QED
  BY <1>1, Invariance, PTL

(* Racing saves of one posting queue one auto-analysis.                     *)
THEOREM AlwaysOneAutoAnalysis == Spec => []OneAutoAnalysis
<1>1. IInv => OneAutoAnalysis
  BY DEF IInv
<1> QED
  BY <1>1, Invariance, PTL

(* One request's step, seen from the others.                                *)
LEMMA OthersStay ==
    ASSUME TypeOK, NEW t \in Tasks, Request(t) \/ Continue(t) \/ Raise(t)
    PROVE  \A u \in Tasks \ {t} : task'[u] = task[u]
<1>1. CASE Request(t)
  BY <1>1 DEF Request, Save, Analyze, RejectJob, RestoreJob,
     LoadForAnalysis, LoadForUser, Load, TypeOK
<1>2. CASE Continue(t)
  BY <1>2 DEF Continue, InsertJob, CommitJob, Lookup, WriteStatus,
     HardFilterPass, HardFilterFail, Recheck, ScoreAndRecord,
     CommitVerdict, LoadForAnalysis, Load, Go, End, TypeOK
<1>3. CASE Raise(t)
  BY <1>3 DEF Raise, End, TypeOK
<1> QED
  BY <1>1, <1>2, <1>3

(* The re-check keeps a first analysis from starting the paid call after    *)
(* another request has decided the job, unless the user restored it.        *)
THEOREM NeverScoredAfterVerdict == Spec => NoScoreAfterVerdict
<1>1. IInv /\ [Next]_vars =>
        [ \A t \in Tasks, u \in Tasks :
            ( /\ task[t].pc = "recheck" /\ task'[t].pc = "score"
              /\ task[u].pc \in {"decided", "filtered"} /\ Job(u) = Job(t) )
            => Restored(Job(t)) ]_vars
  <2> SUFFICES ASSUME IInv, Next, NEW t \in Tasks, NEW u \in Tasks,
                      task[t].pc = "recheck", task'[t].pc = "score",
                      task[u].pc \in {"decided", "filtered"},
                      Job(u) = Job(t)
               PROVE  Restored(Job(t))
    OBVIOUS
  <2>1. status[Job(t)] = DISCOVERED
    <3>1. PICK w \in Tasks : Request(w) \/ Continue(w) \/ Raise(w)
      BY DEF Next
    <3>2. \A v \in Tasks \ {w} : task'[v] = task[v]
      BY <3>1, OthersStay DEF IInv
    <3>3. w = t
      BY <3>2
    <3>4. ~Raise(t)
      BY DEF Raise, End, EndOf, Closed, Blank, At, IInv, TypeOK
    <3>5. Recheck(t)
      BY <3>1, <3>3, <3>4 DEF Request, Continue, At, Save, Analyze, RejectJob,
         RestoreJob, InsertJob, CommitJob, Lookup, WriteStatus,
         HardFilterPass, HardFilterFail, ScoreAndRecord, CommitVerdict
    <3> QED
      BY <3>5 DEF Recheck, End, Closed, Blank, IInv, TypeOK
  <2> QED
    BY <2>1 DEF IInv, DecidedStays, Job
<1> QED
  BY <1>1, Invariance, PTL DEF Spec, NoScoreAfterVerdict

-----------------------------------------------------------------------------
(* The rows and the requests of a step whose rows stay as they are.         *)
LEMMA AuthorsStay ==
    ASSUME TypeOK, ShownInv, NEW t \in Tasks, Others(t), analyses' = analyses,
           task'[t].pc = "decide" => task[t].pc = "decide",
           task[t].pc \in {"decide", "decided", "torn"} =>
              /\ task'[t].pc \in {"decided", "torn"}
              /\ task'[t].began = task[t].began,
           task'[t].pc = "decided" => task[t].pc = "decide"
    PROVE  RowsHaveAuthors' /\ AuthorsHaveRows' /\ NewestExists'
<1> USE DEF At, Job, Others
<1>1. RowsHaveAuthors'
  <2> SUFFICES ASSUME NEW j \in Jobs, NEW i \in 1..Len(analyses[j])
               PROVE  \E u \in Tasks : Recorded(j, i, u)'
    BY DEF RowsHaveAuthors
  <2>1. PICK u \in Tasks : Recorded(j, i, u)
    BY DEF ShownInv, RowsHaveAuthors
  <2>2. Recorded(j, i, u)'
    BY <2>1 DEF Recorded
  <2> QED
    BY <2>2
<1>2. AuthorsHaveRows'
  <2> SUFFICES ASSUME NEW u \in Tasks, task'[u].pc \in {"decide", "decided"}
               PROVE  \E i \in 1..Len(analyses[task'[u].job]) :
                         analyses[task'[u].job][i].analyzed_at = task'[u].began
    BY DEF AuthorsHaveRows
  <2>1. /\ task[u].pc \in {"decide", "decided"}
        /\ task'[u].job = task[u].job /\ task'[u].began = task[u].began
    OBVIOUS
  <2> QED
    BY <2>1 DEF ShownInv, AuthorsHaveRows
<1>3. NewestExists'
  BY DEF ShownInv, NewestExists
<1> QED
  BY <1>1, <1>2, <1>3

(* A step that writes no row and neither makes nor ends a decision: a       *)
(* request that loads the job for an analysis begins at a tick of its own.  *)
LEMMA ShownQuiet ==
    ASSUME TypeOK, ShownInv, NEW t \in Tasks, TypeOK', Others(t),
           status' = status, analyses' = analyses, clock <= clock',
           task[t].pc \notin Ended,
           task[t].pc = "decide" =>
              task'[t].pc = "torn" /\ task'[t].began = task[t].began,
           task'[t].pc \notin {"decide", "decided", "filtered", "written"},
           task'[t].pc \in Analysing =>
              \/ /\ task[t].pc \in Analysing /\ task'[t].began = task[t].began
                 /\ task'[t].pc # "torn" => task'[t].loaded = task[t].loaded
              \/ /\ task'[t].began = clock /\ clock' = clock + 1
                 /\ task'[t].loaded = status[Job(t)]
    PROVE  ShownInv'
<1> USE DEF At, Job, Others
<1>a. \A u \in Tasks : task'[u].job = task[u].job /\ task[u].job \in Jobs
  BY DEF TypeOK, Task
<1>b. clock \in Nat /\ clock' \in Nat
      /\ \A u \in Tasks : task[u].began \in Nat /\ task'[u].began \in Nat
  BY DEF TypeOK, Task
<1>1. BeginsApart'
  <2> SUFFICES ASSUME NEW u \in Tasks, task'[u].pc \in Analysing
               PROVE  /\ task'[u].began < clock'
                      /\ task'[u].pc = "decided" => task'[u].began < task'[u].ended
                      /\ \A w \in Tasks \ {u} : task'[w].pc \in Analysing =>
                            task'[w].began # task'[u].began
    BY DEF BeginsApart
  <2>1. \A w \in Tasks : task'[w].pc \in Analysing =>
           \/ task[w].pc \in Analysing /\ task'[w].began = task[w].began
           \/ w = t /\ task'[w].began = clock /\ clock' = clock + 1
    OBVIOUS
  <2>2. \A w \in Tasks : task[w].pc \in Analysing =>
           /\ task[w].began < clock
           /\ task[w].pc = "decided" => task[w].began < task[w].ended
           /\ \A x \in Tasks \ {w} : task[x].pc \in Analysing =>
                 task[x].began # task[w].began
    BY DEF ShownInv, BeginsApart
  <2>3. task'[u].began < clock'
    BY <2>1, <2>2, <1>b
  <2>4. task'[u].pc = "decided" => task'[u].began < task'[u].ended
    BY <2>2 DEF Analysing
  <2>5. \A w \in Tasks \ {u} : task'[w].pc \in Analysing =>
           task'[w].began # task'[u].began
    BY <2>1, <2>2, <1>b
  <2> QED
    BY <2>3, <2>4, <2>5
<1>2. RowsHaveAuthors' /\ AuthorsHaveRows' /\ NewestExists'
  BY AuthorsStay DEF Ended
<1>3. UndisturbedDecides'
  <2> SUFFICES ASSUME NEW u \in Tasks, OnlyAnalysed(u)', Undisturbed(u)'
               PROVE  FindsAndLeaves(u)'
    BY DEF UndisturbedDecides
  <2>1. OnlyAnalysed(u)
    BY <1>a DEF OnlyAnalysed, Ended
  <2>2. ASSUME task'[u].began = task[u].began PROVE Undisturbed(u)
    <3> SUFFICES ASSUME NEW w \in Tasks \ {u}, task[w].pc = "decided",
                        task[w].job = task[u].job
                 PROVE  task[w].ended <= task[u].began
      BY DEF Undisturbed
    <3>1. w # t /\ task'[w] = task[w]
      BY DEF Ended
    <3> QED
      BY <3>1, <2>2, <1>a DEF Undisturbed
  <2>3. CASE u # t
    BY <2>1, <2>2, <2>3, <1>a DEF ShownInv, UndisturbedDecides, FindsAndLeaves
  <2>4. CASE u = t
    <3>1. CASE task'[t].loaded = status[task[t].job]
      BY <2>4, <3>1 DEF FindsAndLeaves
    <3>2. CASE /\ task[t].pc \in Analysing /\ task'[t].began = task[t].began
               /\ task'[t].loaded = task[t].loaded
      <4>1. task[t].pc \in {"filter", "recheck", "score"} \/ task'[t].pc = "torn"
        BY <3>2 DEF Analysing, Ended
      <4> QED
        BY <2>1, <2>2, <2>4, <3>2, <4>1
           DEF ShownInv, UndisturbedDecides, FindsAndLeaves
    <3>3. CASE task'[t].pc \notin Analysing \/ task'[t].pc = "torn"
      BY <2>4, <3>3 DEF Analysing, FindsAndLeaves
    <3> QED
      BY <3>1, <3>2, <3>3
  <2> QED
    BY <2>3, <2>4
<1> QED
  BY <1>1, <1>2, <1>3 DEF ShownInv

(* Nothing of a posting that was not in the table yet has been analysed.    *)
LEMMA ShownCommitJob ==
    ASSUME IInv, ShownInv, NEW t \in Tasks, TypeOK', CommitJob(t)
    PROVE  ShownInv'
<1> USE DEF At, Job
<1>a. /\ Others(t) /\ analyses' = analyses /\ clock' = clock
      /\ task[t].pc = "inserted" /\ task'[t].pc = "lookup"
      /\ status[task[t].job] = "absent" /\ task[t].job \in Jobs
      /\ status' = [status EXCEPT ![task[t].job] = DISCOVERED]
  BY DEF CommitJob, Go, Others, IInv, TypeOK, Task, InsertedIsAbsent
<1>b. \A u \in Tasks : task[u].job = task[t].job => task[u].pc \in Early
  BY <1>a DEF IInv, LaterIsPresent
<1>1. BeginsApart'
  BY <1>a DEF ShownInv, BeginsApart, Others, Analysing
<1>2. RowsHaveAuthors' /\ AuthorsHaveRows' /\ NewestExists'
  BY <1>a, AuthorsStay DEF IInv
<1>3. UndisturbedDecides'
  <2> SUFFICES ASSUME NEW u \in Tasks, OnlyAnalysed(u)', Undisturbed(u)'
               PROVE  FindsAndLeaves(u)'
    BY DEF UndisturbedDecides
  <2>1. CASE task[u].job = task[t].job
    <3>1. task'[u].pc \in Early \cup {"lookup"}
      BY <2>1, <1>a, <1>b DEF Others
    <3> QED
      BY <3>1 DEF FindsAndLeaves, Early
  <2>2. CASE task[u].job # task[t].job
    <3>1. /\ u # t /\ task'[u] = task[u]
          /\ status'[task[u].job] = status[task[u].job]
      BY <2>2, <1>a DEF Others, IInv, TypeOK, Task
    <3>2. OnlyAnalysed(u) /\ Undisturbed(u)
      BY <2>2, <3>1, <1>a DEF OnlyAnalysed, Undisturbed, Others
    <3> QED
      BY <3>1, <3>2, <1>a DEF ShownInv, UndisturbedDecides, FindsAndLeaves
  <2> QED
    BY <2>1, <2>2
<1> QED
  BY <1>1, <1>2, <1>3 DEF ShownInv

(* A status is committed: whoever still analyses the job began before.      *)
LEMMA ShownSettle ==
    ASSUME TypeOK, ShownInv, NEW t \in Tasks, TypeOK', NEW pc, NEW new,
           End(t, pc), SetJobStatus(Job(t), task[t].loaded, new),
           analyses' = analyses, clock' = clock,
           \/ pc \in {"filtered", "written"} /\ task[t].pc \in {"filter", "write"}
           \/ /\ pc = "decided" /\ task[t].pc = "decide"
              /\ new = task[t].verdict
    PROVE  ShownInv'
<1> USE DEF At, Job
<1>a. /\ Others(t)
      /\ task'[t].pc = pc /\ task'[t].began = task[t].began
      /\ task'[t].ended = clock /\ Job(t) \in Jobs
  BY DEF TypeOK, Task, End, Closed, Blank, Others
<1>b. \A u \in Tasks : task'[u].job = task[u].job /\ task[u].job \in Jobs
  BY <1>a DEF Others, TypeOK, Task
<1>c. clock \in Nat /\ \A u \in Tasks : task[u].began \in Nat
  BY DEF TypeOK, Task
<1>d. \A u \in Tasks : task[u].pc \in Analysing =>
         /\ task[u].began < clock
         /\ \A w \in Tasks \ {u} : task[w].pc \in Analysing =>
               task[w].began # task[u].began
  BY DEF ShownInv, BeginsApart
<1>1. BeginsApart'
  BY <1>a, <1>d DEF ShownInv, BeginsApart, Others, Analysing
<1>2. RowsHaveAuthors' /\ AuthorsHaveRows' /\ NewestExists'
  BY <1>a, AuthorsStay
<1>3. UndisturbedDecides'
  <2> SUFFICES ASSUME NEW u \in Tasks, OnlyAnalysed(u)', Undisturbed(u)'
               PROVE  FindsAndLeaves(u)'
    BY DEF UndisturbedDecides
  <2>1. CASE task[u].job # task[t].job
    <3>1. u # t /\ task'[u] = task[u]
          /\ status'[task[u].job] = status[task[u].job]
      BY <2>1, <1>a, <1>b DEF Others, SetJobStatus, TypeOK
    <3>2. OnlyAnalysed(u) /\ Undisturbed(u)
      BY <2>1, <1>a, <1>b, <3>1 DEF OnlyAnalysed, Undisturbed, Others
    <3> QED
      BY <3>1, <3>2 DEF ShownInv, UndisturbedDecides, FindsAndLeaves
  <2>2. ASSUME task[u].job = task[t].job PROVE pc = "decided"
    BY <2>2, <1>a, <1>b DEF OnlyAnalysed
  <2>3. CASE task[u].job = task[t].job /\ u # t
    <3>1. ~(task[u].pc \in Analysing /\ clock <= task[u].began)
      BY <1>c, <1>d
    <3>2. task'[u] = task[u]
      BY <2>3, <1>a DEF Others
    <3>3. clock <= task[u].began
      BY <2>2, <2>3, <3>2, <1>a, <1>b DEF Undisturbed
    <3> QED
      BY <3>1, <3>2, <3>3 DEF FindsAndLeaves, Analysing
  <2>4. CASE u = t
    <3>1. pc = "decided" /\ task[t].pc = "decide" /\ new = task[t].verdict
      BY <2>2, <2>4
    <3>2. OnlyAnalysed(t)
      <4> SUFFICES ASSUME NEW w \in Tasks, task[w].job = task[t].job
                   PROVE  task[w].pc \notin {"filtered", "written"}
        BY DEF OnlyAnalysed
      <4>1. task'[w].pc \notin {"filtered", "written"}
        BY <2>4, <1>b DEF OnlyAnalysed
      <4> QED
        BY <4>1, <3>1, <1>a DEF Others
    <3>3. Undisturbed(t)
      BY <2>4, <3>1, <1>a, <1>b DEF Undisturbed, Others
    <3>4. status[task[t].job] = task[t].loaded
      BY <3>1, <3>2, <3>3 DEF ShownInv, UndisturbedDecides, FindsAndLeaves
    <3>5. status'[task[t].job] = task[t].verdict
      BY <3>1, <3>4, <1>a DEF SetJobStatus, TypeOK
    <3>6. ASSUME NEW i \in 1..Len(analyses[task[t].job]),
                 analyses[task[t].job][i].analyzed_at = task[t].began
          PROVE  analyses[task[t].job][i].verdict = task[t].verdict
      <4>1. PICK w \in Tasks : Recorded(task[t].job, i, w)
        BY <1>b DEF ShownInv, RowsHaveAuthors
      <4>2. w = t
        BY <3>1, <3>6, <4>1, <1>d DEF Recorded, Analysing
      <4> QED
        BY <3>1, <4>1, <4>2 DEF Recorded
    <3> QED
      BY <2>4, <3>1, <3>5, <3>6, <1>a, <1>b DEF FindsAndLeaves
  <2> QED
    BY <2>1, <2>3, <2>4
<1> QED
  BY <1>1, <1>2, <1>3 DEF ShownInv

(* The new row bears a time no other row has.                               *)
LEMMA ShownScore ==
    ASSUME TypeOK, ShownInv, NEW t \in Tasks, TypeOK', ScoreAndRecord(t)
    PROVE  ShownInv'
<1> USE DEF At, Job
<1>1. PICK v \in Verdicts :
        /\ analyses' = [analyses EXCEPT ![task[t].job] =
             Append(@, [verdict |-> v, analyzed_at |-> task[t].began])]
        /\ task' = [task EXCEPT ![t] = [@ EXCEPT !.pc = "decide",
                                                 !.verdict = v]]
  BY DEF ScoreAndRecord
<1>a. /\ Others(t) /\ status' = status /\ clock' = clock
      /\ task[t].pc = "score" /\ task'[t].pc = "decide"
      /\ task'[t].verdict = v /\ task'[t].began = task[t].began
      /\ task'[t].loaded = task[t].loaded /\ task[t].job \in Jobs
  BY <1>1 DEF ScoreAndRecord, Others, TypeOK, Task
<1> DEFINE J == task[t].job
           new == [verdict |-> v, analyzed_at |-> task[t].began]
<1>b. /\ \A j \in Jobs \ {J} : analyses'[j] = analyses[j]
      /\ analyses[J] \in Seq(Analysis) /\ analyses'[J] = Append(analyses[J], new)
      /\ analyses'[J] \in Seq(Analysis)
  BY <1>1, <1>a DEF TypeOK
<1>c. /\ Len(analyses[J]) \in Nat /\ Len(analyses'[J]) = Len(analyses[J]) + 1
      /\ analyses'[J][Len(analyses[J]) + 1] = new
      /\ \A i \in 1..Len(analyses[J]) : analyses'[J][i] = analyses[J][i]
  BY <1>b
<1>d. \A u \in Tasks : /\ task'[u].job = task[u].job /\ task[u].job \in Jobs
                       /\ task'[u].began = task[u].began
                       /\ task[u].began \in Nat
  BY <1>a DEF Others, TypeOK, Task
<1>e. \A j \in Jobs : /\ Len(analyses[j]) \in Nat /\ Len(analyses'[j]) \in Nat
                      /\ \A i \in 1..Len(analyses[j]) :
                            /\ i \in 1..Len(analyses'[j])
                            /\ analyses'[j][i] = analyses[j][i]
                            /\ analyses[j][i].analyzed_at \in Nat
  <2> SUFFICES ASSUME NEW j \in Jobs
               PROVE  /\ Len(analyses[j]) \in Nat /\ Len(analyses'[j]) \in Nat
                      /\ \A i \in 1..Len(analyses[j]) :
                            /\ i \in 1..Len(analyses'[j])
                            /\ analyses'[j][i] = analyses[j][i]
                            /\ analyses[j][i].analyzed_at \in Nat
    OBVIOUS
  <2>1. analyses[j] \in Seq(Analysis)
    BY DEF TypeOK
  <2>2. \A i \in 1..Len(analyses[j]) : analyses[j][i].analyzed_at \in Nat
    <3>1. \A i \in 1..Len(analyses[j]) : analyses[j][i] \in Analysis
      BY <2>1
    <3> QED
      BY <3>1 DEF Analysis
  <2>3. CASE j = J
    BY <2>1, <2>2, <2>3, <1>c
  <2>4. CASE j # J
    BY <2>1, <2>2, <2>4, <1>b
  <2> QED
    BY <2>3, <2>4
<1> HIDE DEF J
<1>2. BeginsApart'
  BY <1>a DEF ShownInv, BeginsApart, Others, Analysing
<1>3. RowsHaveAuthors'
  <2> SUFFICES ASSUME NEW j \in Jobs, NEW i \in 1..Len(analyses'[j])
               PROVE  \E u \in Tasks : Recorded(j, i, u)'
    BY DEF RowsHaveAuthors
  <2>1. CASE i \in 1..Len(analyses[j])
    <3>1. PICK u \in Tasks : Recorded(j, i, u)
      BY <2>1 DEF ShownInv, RowsHaveAuthors
    <3>2. u # t /\ task'[u] = task[u] /\ analyses'[j][i] = analyses[j][i]
      BY <2>1, <3>1, <1>a, <1>e DEF Recorded, Others
    <3>3. Recorded(j, i, u)'
      BY <3>1, <3>2 DEF Recorded
    <3> QED
      BY <3>3
  <2>2. CASE i \notin 1..Len(analyses[j])
    <3>1. j = J
      BY <2>2, <1>b
    <3>2. i = Len(analyses[J]) + 1
      BY <2>2, <3>1, <1>c
    <3>3. Recorded(j, i, t)'
      BY <3>1, <3>2, <1>a, <1>c, <1>d DEF Recorded, J
    <3> QED
      BY <3>3
  <2> QED
    BY <2>1, <2>2
<1>4. AuthorsHaveRows'
  <2> SUFFICES ASSUME NEW u \in Tasks, task'[u].pc \in {"decide", "decided"}
               PROVE  \E i \in 1..Len(analyses'[task[u].job]) :
                         analyses'[task[u].job][i].analyzed_at = task[u].began
    BY <1>d DEF AuthorsHaveRows
  <2>1. CASE u = t
    <3>1. Len(analyses[J]) + 1 \in 1..Len(analyses'[J])
      BY <1>c
    <3> QED
      BY <2>1, <3>1, <1>c DEF J
  <2>2. CASE u # t
    <3>1. task[u].pc \in {"decide", "decided"}
      BY <2>2, <1>a DEF Others
    <3>2. PICK i \in 1..Len(analyses[task[u].job]) :
             analyses[task[u].job][i].analyzed_at = task[u].began
      BY <3>1 DEF ShownInv, AuthorsHaveRows
    <3> QED
      BY <3>2, <1>d, <1>e
  <2> QED
    BY <2>1, <2>2
<1>5. NewestExists'
  <2> SUFFICES ASSUME NEW j \in Jobs, analyses'[j] # << >>
               PROVE  \E i \in 1..Len(analyses'[j]) :
                         \A k \in 1..Len(analyses'[j]) :
                            analyses'[j][k].analyzed_at
                               <= analyses'[j][i].analyzed_at
    BY DEF NewestExists
  <2>1. CASE j # J
    BY <2>1, <1>b DEF ShownInv, NewestExists
  <2> DEFINE last == Len(analyses[J]) + 1
  <2>2. last \in 1..Len(analyses'[J])
        /\ \A k \in 1..Len(analyses'[J]) :
              k = last \/ k \in 1..Len(analyses[J])
    BY <1>c
  <2>3. /\ analyses'[J][last].analyzed_at = task[t].began
        /\ task[t].began \in Nat /\ J \in Jobs
    BY <1>a, <1>c, <1>d DEF J
  <2> HIDE DEF last
  <2>4. CASE j = J /\ analyses[J] = << >>
    <3>1. 1..Len(analyses[J]) = {}
      BY <2>4
    <3> QED
      BY <2>2, <2>3, <2>4, <3>1
  <2>5. CASE j = J /\ analyses[J] # << >>
    <3>1. PICK i \in 1..Len(analyses[J]) : \A k \in 1..Len(analyses[J]) :
             analyses[J][k].analyzed_at <= analyses[J][i].analyzed_at
      BY <2>3, <2>5 DEF ShownInv, NewestExists
    <3>2. CASE task[t].began <= analyses[J][i].analyzed_at
      BY <2>2, <2>3, <2>5, <3>1, <3>2, <1>e
    <3>3. CASE ~(task[t].began <= analyses[J][i].analyzed_at)
      <4>a. \A k \in 1..Len(analyses[J]) :
               analyses'[J][k].analyzed_at <= task[t].began
        <5>1. \A k \in 1..Len(analyses[J]) :
                 /\ analyses'[J][k].analyzed_at = analyses[J][k].analyzed_at
                 /\ analyses[J][k].analyzed_at \in Nat
          BY <2>3, <1>e
        <5> QED
          BY <2>3, <3>1, <3>3, <5>1
      <4>1. \A k \in 1..Len(analyses'[J]) :
               analyses'[J][k].analyzed_at <= analyses'[J][last].analyzed_at
        BY <2>2, <2>3, <4>a
      <4> QED
        BY <2>2, <2>5, <4>1
    <3> QED
      BY <3>2, <3>3
  <2> QED
    BY <2>1, <2>4, <2>5
<1>6. UndisturbedDecides'
  <2> SUFFICES ASSUME NEW u \in Tasks, OnlyAnalysed(u)', Undisturbed(u)'
               PROVE  FindsAndLeaves(u)'
    BY DEF UndisturbedDecides
  <2>1. OnlyAnalysed(u)
    BY <1>a, <1>d DEF OnlyAnalysed, Others
  <2>2. Undisturbed(u)
    BY <1>a, <1>d DEF Undisturbed, Others
  <2>3. CASE u = t
    <3>1. status[task[t].job] = task[t].loaded
      BY <2>1, <2>2, <2>3, <1>a DEF ShownInv, UndisturbedDecides, FindsAndLeaves
    <3> QED
      BY <2>3, <3>1, <1>a, <1>d DEF FindsAndLeaves
  <2>4. CASE u # t
    <3>1. task'[u] = task[u]
      BY <2>4, <1>a DEF Others
    <3>2. ASSUME task[u].pc = "decided",
                 NEW i \in 1..Len(analyses'[task[u].job]),
                 analyses'[task[u].job][i].analyzed_at = task[u].began
          PROVE  i \in 1..Len(analyses[task[u].job])
      <4>1. task[t].began # task[u].began
        BY <2>4, <3>2, <1>a DEF ShownInv, BeginsApart, Analysing
      <4>2. CASE task[u].job # J
        BY <4>2, <1>b, <1>d
      <4>3. CASE task[u].job = J
        <5>1. i # Len(analyses[J]) + 1
          BY <3>2, <4>1, <4>3, <1>c
        <5> QED
          BY <4>3, <5>1, <1>c
      <4> QED
        BY <4>2, <4>3
    <3>3. FindsAndLeaves(u)
      BY <2>1, <2>2 DEF ShownInv, UndisturbedDecides
    <3>4. ASSUME task[u].pc = "decided",
                 NEW i \in 1..Len(analyses'[task[u].job]),
                 analyses'[task[u].job][i].analyzed_at = task[u].began
          PROVE  status[task[u].job] = analyses'[task[u].job][i].verdict
      <4>1. i \in 1..Len(analyses[task[u].job])
        BY <3>2, <3>4
      <4>2. analyses'[task[u].job][i] = analyses[task[u].job][i]
        BY <4>1, <1>d, <1>e
      <4> QED
        BY <3>3, <3>4, <4>1, <4>2 DEF FindsAndLeaves
    <3>5. task[u].pc \in {"filter", "recheck", "score", "decide"} =>
             status[task[u].job] = task[u].loaded
      BY <3>3 DEF FindsAndLeaves
    <3>6. status' = status
      BY <1>a
    <3> QED
      BY <3>1, <3>4, <3>5, <3>6 DEF FindsAndLeaves
  <2> QED
    BY <2>3, <2>4
<1> QED
  BY <1>2, <1>3, <1>4, <1>5, <1>6 DEF ShownInv

(* Every step preserves what is known of the newest row.                    *)
LEMMA ShownStep == IInv /\ TypeOK' /\ ShownInv /\ [Next]_vars => ShownInv'
<1> SUFFICES ASSUME IInv, TypeOK', ShownInv, [Next]_vars PROVE ShownInv'
  OBVIOUS
<1> USE DEF At, Job
<1>a. TypeOK /\ clock \in Nat
      /\ \A t \in Tasks : task[t] \in Task /\ task[t].job \in Jobs
  BY DEF IInv, TypeOK, Task
<1>1. ASSUME NEW t \in Tasks, Save(t) PROVE ShownInv'
  <2>1. /\ Others(t) /\ status' = status /\ analyses' = analyses
        /\ clock' = clock /\ task[t].pc = "new" /\ task'[t].pc = "insert"
    BY <1>1, <1>a DEF Save, Others, TypeOK, Task
  <2> QED
    BY <2>1, <1>a, ShownQuiet DEF Ended, Analysing
<1>2. ASSUME NEW t \in Tasks, NEW to \in {"inserted", "recheck", "score"},
             Go(t, to), task[t].pc \in Live \ {"decide"},
             to # "inserted" => task[t].pc \in Analysing,
             UNCHANGED <<status, analyses, clock>>
      PROVE  ShownInv'
  <2>1. /\ Others(t) /\ task'[t].pc = to
        /\ task'[t].began = task[t].began /\ task'[t].loaded = task[t].loaded
    BY <1>2, <1>a DEF Go, Others, TypeOK, Task
  <2> QED
    BY <1>2, <2>1, <1>a, ShownQuiet DEF Live, Ended, Analysing
<1>3. ASSUME NEW t \in Tasks, NEW to \in {"duplicate", "skipped", "failed", "torn"},
             End(t, to), task[t].pc \in Live,
             task[t].pc = "decide" <=> to = "torn",
             UNCHANGED <<status, analyses, clock>>
      PROVE  ShownInv'
  <2>1. /\ Others(t) /\ task'[t].pc = to /\ task'[t].began = task[t].began
    BY <1>3, <1>a DEF End, Closed, Blank, Others, TypeOK, Task
  <2> QED
    BY <1>3, <2>1, <1>a, ShownQuiet DEF Live, Ended, Analysing
<1>4. ASSUME NEW t \in Tasks, InsertJob(t) PROVE ShownInv'
  BY <1>4, <1>2, <1>3 DEF InsertJob, Live
<1>5. ASSUME NEW t \in Tasks, CommitJob(t) PROVE ShownInv'
  BY <1>5, ShownCommitJob
<1>6. ASSUME NEW t \in Tasks, NEW k, NEW pc \in {"filter", "write"},
             Load(t, k, pc), task[t].pc \in {"new", "lookup"},
             clock' = IF pc = "filter" THEN clock + 1 ELSE clock
      PROVE  ShownInv'
  <2>1. /\ Others(t) /\ status' = status /\ analyses' = analyses
        /\ task'[t].pc = pc /\ task'[t].began = clock
        /\ task'[t].loaded = status[Job(t)]
    BY <1>6, <1>a DEF Load, Others, TypeOK, Task
  <2>2. clock <= clock'
    BY <1>6, <1>a
  <2> QED
    BY <1>6, <2>1, <2>2, <1>a, ShownQuiet DEF Ended, Analysing
<1>7. ASSUME NEW t \in Tasks, Lookup(t) \/ Analyze(t) PROVE ShownInv'
  BY <1>7, <1>6 DEF Lookup, Analyze, LoadForAnalysis
<1>8. ASSUME NEW t \in Tasks, RejectJob(t) \/ RestoreJob(t) PROVE ShownInv'
  BY <1>8, <1>6 DEF RejectJob, RestoreJob, LoadForUser
<1>9. ASSUME NEW t \in Tasks, WriteStatus(t) PROVE ShownInv'
  BY <1>9, <1>a, ShownSettle DEF WriteStatus
<1>10. ASSUME NEW t \in Tasks, HardFilterPass(t) PROVE ShownInv'
  BY <1>10, <1>2 DEF HardFilterPass, Live, Analysing
<1>11. ASSUME NEW t \in Tasks, HardFilterFail(t) PROVE ShownInv'
  BY <1>11, <1>a, ShownSettle DEF HardFilterFail
<1>12. ASSUME NEW t \in Tasks, Recheck(t) PROVE ShownInv'
  BY <1>12, <1>2, <1>3 DEF Recheck, Live, Analysing
<1>13. ASSUME NEW t \in Tasks, ScoreAndRecord(t) PROVE ShownInv'
  BY <1>13, <1>a, ShownScore
<1>14. ASSUME NEW t \in Tasks, CommitVerdict(t) PROVE ShownInv'
  BY <1>14, <1>a, ShownSettle DEF CommitVerdict
<1>15. ASSUME NEW t \in Tasks, Raise(t) PROVE ShownInv'
  BY <1>15, <1>3 DEF Raise, EndOf
<1>16. CASE UNCHANGED vars
  BY <1>16 DEF vars, ShownInv, BeginsApart, RowsHaveAuthors, Recorded,
     AuthorsHaveRows, NewestExists, UndisturbedDecides, OnlyAnalysed,
     Undisturbed, FindsAndLeaves
<1> QED
  BY <1>1, <1>4, <1>5, <1>7, <1>8, <1>9, <1>10, <1>11, <1>12, <1>13, <1>14,
     <1>15, <1>16 DEF Next, Request, Continue

(* What is known of the newest row holds in every reachable state.          *)
THEOREM ShownInvariance == Spec => []ShownInv
<1>1. Init => ShownInv
  <2> SUFFICES ASSUME Init PROVE ShownInv
    OBVIOUS
  <2>1. /\ \A t \in Tasks : task[t].pc = "new"
        /\ \A j \in Jobs : analyses[j] = << >> /\ Len(analyses[j]) = 0
    BY DEF Init, Blank
  <2> QED
    BY <2>1 DEF ShownInv, BeginsApart, RowsHaveAuthors, AuthorsHaveRows,
       NewestExists, UndisturbedDecides, FindsAndLeaves, At, Analysing
<1>2. IInv /\ TypeOK' /\ ShownInv /\ [Next]_vars => ShownInv'
  BY ShownStep
<1> QED
  BY <1>1, <1>2, Invariance, TypeCorrect, PTL DEF Spec

(* The fit score and the status that the dashboard shows were decided       *)
(* together: once no analysis of a job is between its two commits, only an  *)
(* analysis that overlapped with the newest, a user, the hard filter or a   *)
(* failure there can have left another status than the newest one's.        *)
THEOREM AlwaysShownDecidedTogether == Spec => []ShownDecidedTogether
<1>1. TypeOK /\ ShownInv => ShownDecidedTogether
  <2> SUFFICES ASSUME TypeOK, ShownInv, NEW j \in Jobs,
                      analyses[j] # << >>, status[j] # Newest(j).verdict,
                      \A t \in Tasks : task[t].job = j => task[t].pc
                         \notin {"decide", "torn", "filtered", "written"}
               PROVE  \E t, u \in Tasks :
                         /\ Overlapped(t, u) /\ task[t].job = j
                         /\ task[t].began = Newest(j).analyzed_at
    BY DEF ShownDecidedTogether, Job
  <2>1. PICK i \in 1..Len(analyses[j]) :
           /\ analyses[j][i] = Newest(j)
           /\ \A k \in 1..Len(analyses[j]) :
                 analyses[j][k].analyzed_at <= analyses[j][i].analyzed_at
    BY DEF ShownInv, NewestExists, Newest
  <2>2. PICK t \in Tasks : Recorded(j, i, t)
    BY DEF ShownInv, RowsHaveAuthors
  <2>3. /\ task[t].pc = "decided" /\ task[t].job = j
        /\ task[t].began = analyses[j][i].analyzed_at
    BY <2>2 DEF Recorded, Job
  <2>4. ~FindsAndLeaves(t)
    BY <2>1, <2>3 DEF FindsAndLeaves, At, Job
  <2>5. OnlyAnalysed(t)
    BY <2>3 DEF OnlyAnalysed, Job
  <2>6. PICK u \in Tasks \ {t} :
           /\ task[u].pc = "decided" /\ task[u].job = j
           /\ ~(task[u].ended <= task[t].began)
    BY <2>3, <2>4, <2>5 DEF ShownInv, UndisturbedDecides, Undisturbed, At, Job
  <2>7. task[u].began <= task[t].began
    <3>1. PICK k \in 1..Len(analyses[j]) :
             analyses[j][k].analyzed_at = task[u].began
      BY <2>6 DEF ShownInv, AuthorsHaveRows, Job
    <3> QED
      BY <2>1, <2>3, <3>1
  <2>8. task[t].began < task[t].ended
    BY <2>3 DEF ShownInv, BeginsApart, Analysing, At
  <2>9. /\ task[t].began \in Nat /\ task[t].ended \in Nat
        /\ task[u].began \in Nat /\ task[u].ended \in Nat
    BY DEF TypeOK, Task
  <2>10. Overlapped(t, u)
    BY <2>3, <2>6, <2>7, <2>8, <2>9 DEF Overlapped, At, Job
  <2> QED
    BY <2>1, <2>3, <2>10
<1> QED
  BY <1>1, ShownInvariance, TypeCorrect, PTL

-----------------------------------------------------------------------------
(* The most steps that a request has left.                                  *)
StepsToEnd ==
    [pc \in {"new"} \cup Live \cup Ended |->
        CASE pc = "new" -> 8 [] pc = "insert" -> 7 [] pc = "inserted" -> 6
          [] pc = "lookup" -> 5 [] pc = "filter" -> 4 [] pc = "recheck" -> 3
          [] pc = "score" -> 2 [] pc \in {"decide", "write"} -> 1
          [] OTHER -> 0]
StepsLeft(t) == StepsToEnd[task[t].pc]

StepsBounded == \A t \in Tasks : StepsLeft(t) \in 0..8

(* A step is one request's, and that has fewer left afterwards.             *)
OneRequestAdvances ==
    \E t \in Tasks : /\ StepsLeft(t)' < StepsLeft(t)
                     /\ \A u \in Tasks \ {t} : task'[u] = task[u]

(* A request that has begun waits for nothing but the commit of the same    *)
(* posting by another, which waits for nothing; and a background task finds *)
(* the row that it looks up.                                                *)
Waits(t) == \/ At(t, "lookup") /\ status[Job(t)] = "absent"
            \/ /\ At(t, "insert")
               /\ \E u \in Tasks : At(u, "inserted") /\ Job(u) = Job(t)
OnlyInsertsWait ==
    \A t \in Tasks : Waits(t) =>
        /\ At(t, "insert") /\ status[Job(t)] = "absent"
        /\ \E u \in Tasks : Job(u) = Job(t) /\ At(u, "inserted") /\ ~Waits(u)

(* An analysis that found its job DISCOVERED and ends without an error      *)
(* leaves it with another status.                                           *)
FirstAnalysesDecide ==
    \A t \in Tasks :
        ( /\ task[t].pc \in {"filter", "recheck", "score", "decide"}
          /\ task[t].loaded = DISCOVERED
          /\ task'[t].pc \in Ended \ {"failed", "torn"} )
        => status'[Job(t)] # DISCOVERED

(* Where a request's next step takes it.                                    *)
LEMMA Advance ==
    ASSUME TypeOK, NEW t \in Tasks, Request(t) \/ Continue(t) \/ Raise(t)
    PROVE  LET pc == task[t].pc
               next == task'[t].pc
           IN  \/ pc = "new" /\ next \in {"insert", "filter", "write"}
               \/ pc = "insert" /\ next \in {"inserted", "duplicate"}
               \/ pc = "inserted" /\ next = "lookup"
               \/ pc = "lookup" /\ next = "filter"
               \/ pc = "filter" /\ next \in {"recheck", "score", "filtered"}
               \/ pc = "recheck" /\ next \in {"score", "skipped"}
               \/ pc = "score" /\ next = "decide"
               \/ pc = "decide" /\ next = "decided"
               \/ pc = "write" /\ next = "written"
               \/ pc \in Live /\ next \in {"failed", "torn"}
<1> USE DEF TypeOK, At, Go
<1>a. task \in [Tasks -> Task] /\ task[t] \in Task
  OBVIOUS
<1>b. ASSUME NEW pc, End(t, pc) PROVE task'[t].pc = pc
  BY <1>a, <1>b DEF End, Closed, Blank
<1>c. ASSUME NEW pc, NEW kind, Load(t, kind, pc) PROVE task'[t].pc = pc
  BY <1>a, <1>c DEF Load, Task
<1>1. CASE Request(t)
  <2>1. CASE Save(t)
    BY <1>a, <2>1 DEF Save, Task
  <2>2. CASE Analyze(t)
    BY <1>c, <2>2 DEF Analyze, LoadForAnalysis
  <2>3. CASE RejectJob(t) \/ RestoreJob(t)
    BY <1>c, <2>3 DEF RejectJob, RestoreJob, LoadForUser
  <2> QED
    BY <1>1, <2>1, <2>2, <2>3 DEF Request
<1>2. CASE InsertJob(t) \/ CommitJob(t)
  BY <1>2, <1>a, <1>b DEF InsertJob, CommitJob, Task
<1>3. CASE Lookup(t)
  BY <1>3, <1>c DEF Lookup, LoadForAnalysis
<1>4. CASE WriteStatus(t) \/ HardFilterFail(t) \/ CommitVerdict(t)
  BY <1>4, <1>b DEF WriteStatus, HardFilterFail, CommitVerdict
<1>5. CASE HardFilterPass(t)
  BY <1>5, <1>a DEF HardFilterPass, Task
<1>6. CASE Recheck(t)
  BY <1>6, <1>a, <1>b DEF Recheck, Task
<1>7. CASE ScoreAndRecord(t)
  BY <1>7, <1>a DEF ScoreAndRecord, Task
<1>8. CASE Raise(t)
  BY <1>8, <1>b DEF Raise, EndOf
<1> QED
  BY <1>1, <1>2, <1>3, <1>4, <1>5, <1>6, <1>7, <1>8 DEF Continue

(* Every request, and every background task, comes to its end within eight  *)
(* steps of its own, whatever the others do: it is never taken back, and    *)
(* only an insert ever waits, for a commit that does not.                   *)
THEOREM RequestsTakeBoundedSteps ==
    Spec => [](StepsBounded /\ OnlyInsertsWait) /\ [][OneRequestAdvances]_vars
<1>1. IInv => OnlyInsertsWait
  BY DEF IInv, InsertedIsAbsent, LaterIsPresent, OnlyInsertsWait, Waits,
     At, Job, Early
<1>2. TypeOK => StepsBounded
  BY DEF TypeOK, Task, StepsBounded, StepsLeft, StepsToEnd
<1>3. ASSUME TypeOK, Next PROVE OneRequestAdvances
  <2>1. PICK t \in Tasks : Request(t) \/ Continue(t) \/ Raise(t)
    BY <1>3 DEF Next
  <2>2. StepsToEnd[task'[t].pc] < StepsToEnd[task[t].pc]
    BY <1>3, <2>1, Advance DEF StepsToEnd, Live, Ended
  <2>3. \A u \in Tasks \ {t} : task'[u] = task[u]
    BY <1>3, <2>1, OthersStay
  <2> QED
    BY <2>2, <2>3 DEF OneRequestAdvances, StepsLeft
<1> QED
  BY <1>1, <1>2, <1>3, Invariance, TypeCorrect, PTL DEF Spec

(* A saved job does not stay DISCOVERED: the analysis in its background, or *)
(* any that found it so, decides it or leaves it to another that did,       *)
(* unless it fails.                                                         *)
THEOREM FirstAnalysesAlwaysDecide == Spec => [][FirstAnalysesDecide]_vars
<1>1. ASSUME TypeOK, Next PROVE FirstAnalysesDecide
  <2> SUFFICES ASSUME NEW t \in Tasks,
                      task[t].pc \in {"filter", "recheck", "score", "decide"},
                      task[t].loaded = DISCOVERED,
                      task'[t].pc \in Ended \ {"failed", "torn"}
               PROVE  status'[Job(t)] # DISCOVERED
    BY DEF FirstAnalysesDecide
  <2>1. PICK w \in Tasks : Request(w) \/ Continue(w) \/ Raise(w)
    BY <1>1 DEF Next
  <2>2. w = t
    BY <1>1, <2>1, OthersStay DEF Ended
  <2>3. \/ task[t].pc = "filter" /\ task'[t].pc = "filtered"
        \/ task[t].pc = "recheck" /\ task'[t].pc = "skipped"
        \/ task[t].pc = "decide" /\ task'[t].pc = "decided"
    BY <1>1, <2>1, <2>2, Advance DEF Ended
  <2>4. HardFilterFail(t) \/ Recheck(t) \/ CommitVerdict(t)
    <3>a. task \in [Tasks -> Task] /\ task[t] \in Task
      BY <1>1 DEF TypeOK
    <3>b. ~HardFilterPass(t)
      BY <2>3, <3>a DEF HardFilterPass, Go, At, Task
    <3>c. ~Raise(t)
      BY <2>3, <3>a DEF Raise, EndOf, End, Closed, Blank
    <3>1. ~HardFilterPass(t) /\ ~Raise(t) /\ ~ScoreAndRecord(t)
      BY <2>3, <3>b, <3>c DEF ScoreAndRecord, At
    <3>2. ~Request(t)
      BY <2>3, Zenon DEF Request, At, Save, Analyze, RejectJob, RestoreJob
    <3>3. ~InsertJob(t) /\ ~CommitJob(t) /\ ~Lookup(t) /\ ~WriteStatus(t)
      BY <2>3 DEF At, InsertJob, CommitJob, Lookup, WriteStatus
    <3> QED
      BY <2>1, <2>2, <3>1, <3>2, <3>3, Zenon DEF Continue
  <2>5. /\ status \in [Jobs -> JobStatus \cup {"absent"}]
        /\ Job(t) \in Jobs /\ task[t].verdict \in Verdicts
    BY <1>1 DEF TypeOK, Task, Job
  <2>6. CASE HardFilterFail(t) \/ CommitVerdict(t)
    BY <2>5, <2>6 DEF HardFilterFail, CommitVerdict, SetJobStatus, Verdicts,
       DISCOVERED
  <2>7. CASE Recheck(t)
    BY <1>1, <2>3, <2>5, <2>7 DEF Recheck, Go, At, TypeOK, Task
  <2> QED
    BY <2>4, <2>6, <2>7
<1> QED
  BY <1>1, TypeCorrect, PTL DEF Spec
=============================================================================
