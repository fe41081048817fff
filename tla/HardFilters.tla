----------------------------- MODULE HardFilters -----------------------------
(***************************************************************************)
(* What lets a job through to the paid scoring call, and what its answer    *)
(* makes of the job: constraints.yaml, the cooldown of its company over     *)
(* time and decide().  Times are ticks, Day of them to a day; the           *)
(* applications of all companies' jobs are the history.  A mark-applied is  *)
(* dated before it is committed and a screening reads what is committed     *)
(* before it takes the time, so the two may pass each other.                *)
(*                                                                          *)
(* A job's location, type and description are reduced to whether the lists  *)
(* of the file have them; years_required is never set.  The file does not   *)
(* change while the service runs, and each job's analyses follow one        *)
(* another (JobAnalysis lets them overlap).                                 *)
(***************************************************************************)
EXTENDS Naturals, FiniteSetsExt
CONSTANTS Jobs, Companies,
          Marks,              \* the mark-applied requests there may be at once
          Files, Postings,    \* the files and the jobs' postings considered
          Day, CooldownDays,  \* ticks to a day, company_cooldown_days
          MaxTime,            \* bounds the clock
          NULL

ASSUME TimeAssumption ==
    Day \in Nat \ {0} /\ CooldownDays \in Nat \ {0} /\ MaxTime \in Nat
ASSUME NullAssumption == NULL \notin Nat

Keys == {"allowed_locations", "employment_types", "exclude_keywords",
         "company_cooldown_days"}
Posting == [company : Companies, place : BOOLEAN, type : BOOLEAN,
            keyword : BOOLEAN]

ASSUME InputsAssumption == Files \subseteq SUBSET Keys /\ Postings \subseteq [Jobs -> Posting]

VARIABLES
    now,      \* datetime.now()
    keys,     \* the keys constraints.yaml has
    posting,  \* the columns of each job that the filters look at
    mark,     \* the mark-applied requests under way: their job and date
    history,  \* applied_at in company_application_history, NULL if no row
    job       \* each job's status, and the screening under way or the last

vars == <<now, keys, posting, mark, history, job>>

Time == 0..MaxTime
Cooldown == CooldownDays * Day

Statuses == {"DISCOVERED", "REJECT", "REVIEW_REQUIRED", "READY_FOR_REVIEW"}

(* `dates` are those the screening under way has read, `at` when it or the  *)
(* last one took the time, `since` the jobs whose mark-applied committed    *)
(* since it read the history, `left` the days left in the cooldown if it    *)
(* refused the job for them.                                                *)
Job == [pc : {"idle", "reading", "scoring"}, status : Statuses,
        dates : SUBSET Time, left : Nat \cup {NULL},
        at : Time, since : SUBSET Jobs]

TypeOK == /\ now \in Time
          /\ keys \in Files
          /\ posting \in Postings
          /\ mark \in [Marks -> [job : Jobs, at : Time] \cup {NULL}]
          /\ history \in [Jobs -> Time \cup {NULL}]
          /\ job \in [Jobs -> Job]

Init ==
    /\ now = 0
    /\ keys \in Files
    /\ posting \in Postings
    /\ mark = [m \in Marks |-> NULL]
    /\ history = [j \in Jobs |-> NULL]
    /\ job = [j \in Jobs |-> [pc |-> "idle", status |-> "DISCOVERED",
                              dates |-> {}, left |-> NULL,
                              at |-> 0, since |-> {}]]

-----------------------------------------------------------------------------
(* get_company_applied_dates()                                              *)
AppliedDates(company) ==
    {history[j] : j \in {k \in Jobs : /\ posting[k].company = company
                                      /\ history[k] # NULL}}

(* check_hard_filters(): no reason against the posting.                     *)
Passes(p) ==
    /\ "allowed_locations" \in keys /\ p.place
    /\ "employment_types" \in keys /\ p.type
    /\ ~("exclude_keywords" \in keys /\ p.keyword)

\* Mutants: the oldest application counts; days are rounded up.
DaysLeftOfOldest(dates) ==
    IF dates = {} \/ Min(dates) + Cooldown <= now THEN NULL
    ELSE (Min(dates) + Cooldown - now) \div Day

DaysLeftRoundedUp(dates) ==
    IF dates = {} \/ Max(dates) + Cooldown <= now THEN NULL
    ELSE (Max(dates) + Cooldown - now + Day - 1) \div Day

(* check_company_cooldown(): most_recent > now - cooldown, and .days of the *)
(* difference; NULL outside a cooldown.                                     *)
DaysLeft(dates) ==
    IF dates = {} \/ Max(dates) + Cooldown <= now THEN NULL
    ELSE (Max(dates) + Cooldown - now) \div Day

(* decide(): `strong` is a fit_score of at least 75, `sure` a confidence    *)
(* that is not low.                                                         *)
Analysis == [eligible : BOOLEAN, strong : BOOLEAN, sure : BOOLEAN,
             risks : BOOLEAN]
Verdict(a) ==
    CASE ~a.eligible -> "REJECT"
      [] a.eligible /\ a.sure /\ ~a.risks /\ a.strong -> "READY_FOR_REVIEW"
      [] OTHER -> "REVIEW_REQUIRED"

-----------------------------------------------------------------------------
Others == <<now, keys, posting, mark, history>>

Let(j) ==
    job' = [job EXCEPT ![j] = [@ EXCEPT !.pc = "scoring", !.dates = {},
                                        !.left = NULL, !.at = now]]
Reject(j, left, at) ==
    job' = [job EXCEPT ![j] = [@ EXCEPT !.pc = "idle", !.status = "REJECT",
                                        !.dates = {}, !.left = left, !.at = at]]
Read(j) ==
    job' = [job EXCEPT ![j] = [@ EXCEPT !.pc = "reading", !.left = NULL,
                                        !.dates = AppliedDates(posting[j].company),
                                        !.at = 0, !.since = {}]]

\* Mutant: only a job's first analysis looks at the cooldown.
ScreenOnce(j) ==
    /\ job[j].pc = "idle"
    /\ IF ~Passes(posting[j]) THEN Reject(j, NULL, 0)
       ELSE IF "company_cooldown_days" \notin keys
               \/ job[j].status # "DISCOVERED"
            THEN Let(j) ELSE Read(j)
    /\ UNCHANGED Others

(* hard_filter_job(), of a first analysis or any later one: the posting,    *)
(* and if there is a cooldown what is committed of the history.             *)
Screen(j) ==
    /\ job[j].pc = "idle"
    /\ IF ~Passes(posting[j]) THEN Reject(j, NULL, 0)
       ELSE IF "company_cooldown_days" \notin keys
            THEN Let(j) ELSE Read(j)
    /\ UNCHANGED Others

(* check_company_cooldown(), of the dates read.                             *)
CheckCooldown(j) ==
    /\ job[j].pc = "reading"
    /\ LET left == DaysLeft(job[j].dates)
       IN  IF left = NULL THEN Let(j) ELSE Reject(j, left, now)
    /\ UNCHANGED Others

(* score_job() answers, however much later.                                 *)
Score(j) ==
    /\ job[j].pc = "scoring"
    /\ \E status \in {Verdict(a) : a \in Analysis} :
          job' = [job EXCEPT ![j] = [@ EXCEPT !.pc = "idle", !.status = status]]
    /\ UNCHANGED Others

(* The screening or score_job() raises: the job keeps the status it had.    *)
Fails(j) ==
    /\ job[j].pc # "idle"
    /\ job' = [job EXCEPT ![j] = [@ EXCEPT !.pc = "idle", !.dates = {}, !.at = 0]]
    /\ UNCHANGED Others

(* mark_applied() dates the application of a job, which may have one        *)
(* whatever its status, and then looks for the row.                         *)
Stamp(m) ==
    /\ mark[m] = NULL
    /\ \E j \in Jobs : mark' = [mark EXCEPT ![m] = [job |-> j, at |-> now]]
    /\ UNCHANGED <<now, keys, posting, history, job>>

(* The row is inserted, or its date replaced.                               *)
MarkApplied(m) ==
    /\ mark[m] # NULL
    /\ history' = [history EXCEPT ![mark[m].job] = mark[m].at]
    /\ mark' = [mark EXCEPT ![m] = NULL]
    /\ job' = [j \in Jobs |->
                  [job[j] EXCEPT !.since = @ \cup {mark[m].job}]]
    /\ UNCHANGED <<now, keys, posting>>

(* The request fails: its insert hits the unique constraint, or raises.     *)
MarkFails(m) ==
    /\ mark[m] # NULL
    /\ mark' = [mark EXCEPT ![m] = NULL]
    /\ UNCHANGED <<now, keys, posting, history, job>>

Tick ==
    /\ now < MaxTime
    /\ now' = now + 1
    /\ UNCHANGED <<keys, posting, mark, history, job>>

Next ==
    \/ Tick
    \/ \E j \in Jobs : \/ Screen(j) \/ CheckCooldown(j)
                       \/ Score(j) \/ Fails(j)
    \/ \E m \in Marks : Stamp(m) \/ MarkApplied(m) \/ MarkFails(m)

Spec == Init /\ [][Next]_vars

-----------------------------------------------------------------------------
Colleagues(j) == {k \in Jobs : /\ posting[k].company = posting[j].company
                               /\ history[k] # NULL}

Passed(u) == \/ u.pc = "scoring"
             \/ /\ u.pc = "idle"
                /\ u.status \in {"REVIEW_REQUIRED", "READY_FOR_REVIEW"}

(* The user applied for k before time t and less than a cooldown ago then.  *)
InCooldown(k, t) == history[k] < t /\ history[k] + Cooldown > t

(* A job is being scored, or has a status that its last scoring gave it,    *)
(* only if at its screening no job of its company, itself included, was in  *)
(* cooldown.  There are two ways round: an application during the call,     *)
(* which may last as long as it will, and one whose mark-applied passes the *)
(* screening, dated before it and committed after it has read the history.  *)
PassedOutsideCooldown ==
    "company_cooldown_days" \in keys =>
        \A j \in {i \in Jobs : Passed(job[i])} :
            \A k \in Colleagues(j) \ job[j].since : ~InCooldown(k, job[j].at)

(* The days a refusal gives are a lower bound however often the user        *)
(* applies: that many days later the company is still in cooldown, to the   *)
(* very end of the last of them (or it ends at that instant).  Only a       *)
(* mark-applied that passes the screening can put an older date in place of *)
(* the one that counted.                                                    *)
DaysLeftAreLeft ==
    \A j \in Jobs :
        (job[j].left # NULL /\ now < job[j].at + job[j].left * Day) =>
            \E k \in Colleagues(j) :
                \/ history[k] + Cooldown > now
                \/ k \in job[j].since /\ history[k] < job[j].at

(* They are less than a day short: if no application to the company was     *)
(* committed since, a day after they are over it is free.                   *)
DaysLeftAreEnough ==
    \A j \in Jobs :
        (job[j].left # NULL /\ now >= job[j].at + (job[j].left + 1) * Day) =>
            \A k \in Colleagues(j) \ job[j].since : history[k] + Cooldown <= now
=============================================================================
