-------------------------- MODULE HardFiltersProofs --------------------------
(***************************************************************************)
(* Proofs about HardFilters for any jobs, companies, files, postings and    *)
(* lengths of a day and a cooldown.                                         *)
(*                                                                          *)
(* The inductive invariant adds to the properties that nothing is dated     *)
(* later than now (Past), what the dates that a screening has read are of   *)
(* the history as it is now (ReadAsCommitted), and what the days a refusal  *)
(* gave say of it (Counted): an application lasts to the end of those days  *)
(* or one that passed the screening took its place, and none that is older  *)
(* than the reading lasts a day longer.                                     *)
(***************************************************************************)
EXTENDS HardFilters, TLAPS, WellFoundedInduction

Past ==
    /\ \A k \in Jobs : history[k] # NULL => history[k] <= now
    /\ \A m \in Marks : mark[m] # NULL => mark[m].at <= now
    /\ \A j \in Jobs : job[j].at <= now /\ \A d \in job[j].dates : d <= now

ReadAsCommitted ==
    \A j \in Jobs : job[j].pc = "reading" =>
        /\ \A k \in Colleagues(j) \ job[j].since : history[k] \in job[j].dates
        /\ \A d \in job[j].dates :
              \E k \in Colleagues(j) : history[k] = d \/ k \in job[j].since

Counted ==
    \A j \in Jobs : job[j].left # NULL =>
        /\ job[j].pc = "idle" /\ job[j].left * Day <= Cooldown
        /\ \E k \in Colleagues(j) :
              \/ job[j].at + job[j].left * Day <= history[k] + Cooldown
              \/ k \in job[j].since /\ history[k] < job[j].at
        /\ \A k \in Colleagues(j) \ job[j].since :
              history[k] + Cooldown < job[j].at + (job[j].left + 1) * Day

IInv == TypeOK /\ Past /\ PassedOutsideCooldown /\ ReadAsCommitted /\ Counted

-----------------------------------------------------------------------------
LEMMA CooldownType == Cooldown \in Nat \ {0} /\ Day \in Nat \ {0} /\ MaxTime \in Nat
BY TimeAssumption DEF Cooldown

LEMMA TimeType == \A t : t \in Time <=> t \in Nat /\ t <= MaxTime
BY CooldownType DEF Time

(* A set of times that is not empty has a latest one.                       *)
LEMMA LatestExists ==
    ASSUME NEW S, S \subseteq Time, S # {}
    PROVE  Max(S) \in S /\ \A y \in S : y <= Max(S)
<1> DEFINE T == {MaxTime - x : x \in S}
           R == OpToRel(<, Nat)
<1>1. IsWellFoundedOn(R, Nat)
  BY NatLessThanWellFounded
<1>2. T \subseteq Nat /\ T # {}
  <2>1. \A x \in S : MaxTime - x \in Nat
    BY CooldownType, TimeType
  <2> QED
    BY <2>1
<1> HIDE DEF R
<1>3. PICK t \in T : \A z \in T : ~(<<z, t>> \in R)
  BY <1>1, <1>2, WFMin
<1>4. \A z \in T : ~(z < t)
  BY <1>2, <1>3 DEF R, OpToRel
<1>5. PICK x \in S : t = MaxTime - x
  BY <1>3
<1>6. \A y \in S : x >= y
  <2> TAKE y \in S
  <2>1. MaxTime - y \in T
    OBVIOUS
  <2>2. ~(MaxTime - y < MaxTime - x)
    BY <1>4, <1>5, <2>1
  <2>3. x \in Nat /\ y \in Nat
    BY TimeType
  <2> QED
    BY <2>2, <2>3, CooldownType
<1>7. Max(S) \in S /\ \A y \in S : Max(S) >= y
  BY <1>6 DEF Max
<1>8. Max(S) \in Nat /\ \A y \in S : y \in Nat
  BY <1>7, TimeType
<1> QED
  BY <1>7, <1>8

(* Whole days: what .days cuts off is less than one.                        *)
LEMMA WholeDays ==
    ASSUME NEW x \in Nat
    PROVE  /\ x \div Day \in Nat
           /\ (x \div Day) * Day <= x
           /\ x < (x \div Day + 1) * Day
<1>1. Day \in Nat /\ Day > 0
  BY CooldownType
<1>2. x = Day * (x \div Day) + (x % Day) /\ x % Day \in 0..(Day - 1)
      /\ x \div Day \in Nat
  BY <1>1
<1> QED
  BY <1>1, <1>2

(* What check_company_cooldown() answers of the dates it is given.          *)
LEMMA DaysLeftMeans ==
    ASSUME now \in Nat, NEW dates, dates \subseteq Time, \A d \in dates : d <= now,
           NEW left, left = DaysLeft(dates)
    PROVE  /\ left \in Nat \cup {NULL}
           /\ left = NULL => \A d \in dates : d + Cooldown <= now
           /\ left # NULL =>
                 /\ left * Day <= Cooldown
                 /\ \E d \in dates : now + left * Day <= d + Cooldown
                 /\ \A d \in dates : d + Cooldown < now + (left + 1) * Day
<1>1. Cooldown \in Nat \ {0} /\ Day \in Nat \ {0} /\ \A d \in dates : d \in Nat
  BY CooldownType, TimeType
<1>2. CASE dates = {}
  BY <1>2 DEF DaysLeft
<1>3. CASE dates # {}
  <2> DEFINE d == Max(dates)
  <2>1. d \in dates /\ \A y \in dates : y <= d
    BY <1>3, LatestExists
  <2> HIDE DEF d
  <2>2. d \in Nat /\ d <= now
    BY <2>1, <1>1
  <2>3. CASE d + Cooldown <= now
    <3>1. left = NULL
      BY <1>3, <2>3 DEF DaysLeft, d
    <3>2. \A y \in dates : y + Cooldown <= now
      BY <1>1, <2>1, <2>2, <2>3
    <3> QED
      BY <3>1, <3>2
  <2>4. CASE ~(d + Cooldown <= now)
    <3> DEFINE x == d + Cooldown - now
    <3>1. left = x \div Day
      BY <1>3, <2>4 DEF DaysLeft, d
    <3>2. x \in Nat /\ now + x = d + Cooldown /\ x <= Cooldown
      BY <2>2, <2>4, <1>1
    <3> HIDE DEF x
    <3>3. left \in Nat /\ left * Day <= x /\ x < (left + 1) * Day
      BY <3>1, <3>2, WholeDays
    <3>4. left # NULL
      BY <3>3, NullAssumption
    <3> DEFINE lo == left * Day
               hi == (left + 1) * Day
    <3>5. lo \in Nat /\ hi \in Nat
      BY <3>3, <1>1
    <3>6. lo <= x /\ x < hi
      BY <3>3
    <3> HIDE DEF lo, hi
    <3>7. lo <= Cooldown /\ now + lo <= d + Cooldown
      BY <2>2, <3>2, <3>5, <3>6, <1>1
    <3>8. \A y \in dates : y + Cooldown < now + hi
      BY <2>1, <2>2, <3>2, <3>5, <3>6, <1>1
    <3> QED
      BY <3>3, <3>4, <3>7, <3>8, <2>1 DEF lo, hi
  <2> QED
    BY <2>3, <2>4
<1> QED
  BY <1>2, <1>3

-----------------------------------------------------------------------------
(* What the invariant says of one job's entry u.                            *)
Timely(u) == u.at <= now /\ \A d \in u.dates : d <= now

PassedInv(j, u) ==
    ("company_cooldown_days" \in keys /\ Passed(u)) =>
        \A k \in Colleagues(j) \ u.since : ~InCooldown(k, u.at)

ReadInv(j, u) ==
    u.pc = "reading" =>
        /\ \A k \in Colleagues(j) \ u.since : history[k] \in u.dates
        /\ \A d \in u.dates :
              \E k \in Colleagues(j) : history[k] = d \/ k \in u.since

LeftInv(j, u) ==
    u.left # NULL =>
        /\ u.pc = "idle" /\ u.left * Day <= Cooldown
        /\ \E k \in Colleagues(j) :
              \/ u.at + u.left * Day <= history[k] + Cooldown
              \/ k \in u.since /\ history[k] < u.at
        /\ \A k \in Colleagues(j) \ u.since :
              history[k] + Cooldown < u.at + (u.left + 1) * Day

EntryInv(j, u) ==
    Timely(u) /\ PassedInv(j, u) /\ ReadInv(j, u) /\ LeftInv(j, u)

LEMMA Entries ==
    IInv <=> /\ TypeOK
             /\ \A k \in Jobs : history[k] # NULL => history[k] <= now
             /\ \A m \in Marks : mark[m] # NULL => mark[m].at <= now
             /\ \A j \in Jobs : EntryInv(j, job[j])
BY DEF IInv, Past, PassedOutsideCooldown, ReadAsCommitted, Counted, EntryInv,
       Timely, PassedInv, ReadInv, LeftInv

LEMMA ColleaguesDated ==
    ASSUME IInv, NEW j \in Jobs, NEW k \in Colleagues(j)
    PROVE  k \in Jobs /\ history[k] \in Nat /\ history[k] \in Time /\ history[k] <= now
BY TimeType DEF IInv, TypeOK, Past, Colleagues

(* A step that writes one job's entry keeps the invariant.                  *)
LEMMA EntryStep ==
    ASSUME IInv, NEW j \in Jobs, NEW u \in Job, EntryInv(j, u),
           job' = [job EXCEPT ![j] = u], UNCHANGED Others
    PROVE  IInv'
<1>0. UNCHANGED <<now, keys, posting, mark, history>>
  BY DEF Others
<1>1. TypeOK'
  BY <1>0, Entries DEF TypeOK
<1>2. ASSUME NEW i \in Jobs
      PROVE  /\ Timely(job[i])' /\ PassedInv(i, job[i])'
             /\ ReadInv(i, job[i])' /\ LeftInv(i, job[i])'
  <2>1. PICK e : job'[i] = e /\ EntryInv(i, e)
    BY Entries DEF TypeOK
  <2>2. Timely(job[i])' /\ PassedInv(i, job[i])'
    BY <1>0, <2>1 DEF EntryInv, Timely, PassedInv, Passed, Colleagues, InCooldown
  <2>3. ReadInv(i, job[i])'
    BY <1>0, <2>1 DEF EntryInv, ReadInv, Colleagues
  <2>4. LeftInv(i, job[i])'
    BY <1>0, <2>1 DEF EntryInv, LeftInv, Colleagues, Cooldown
  <2> QED
    BY <2>2, <2>3, <2>4
<1>3. Past'
  BY <1>0, <1>2, Entries DEF Past, Timely
<1>4. PassedOutsideCooldown'
  BY <1>2 DEF PassedOutsideCooldown, PassedInv
<1>5. ReadAsCommitted' /\ Counted'
  BY <1>2 DEF ReadAsCommitted, Counted, ReadInv, LeftInv
<1> QED
  BY <1>1, <1>3, <1>4, <1>5 DEF IInv

(* A later time keeps it: no clause has now on its right but as a bound.    *)
LEMMA TickStep == IInv /\ Tick => IInv'
<1> SUFFICES ASSUME IInv, Tick PROVE IInv'
  OBVIOUS
<1>1. now \in Nat /\ now < MaxTime /\ now' = now + 1 /\ MaxTime \in Nat
  BY TimeType, CooldownType DEF IInv, TypeOK, Tick
<1>2. now' \in Time
  BY <1>1, TimeType
<1>3. TypeOK'
  BY <1>2 DEF IInv, TypeOK, Tick
<1>4. \A t \in Time : t <= now => t <= now'
  BY <1>1, TimeType
<1>5. Past'
  BY <1>4 DEF IInv, Past, TypeOK, Job, Tick
<1>6. PassedOutsideCooldown' /\ ReadAsCommitted' /\ Counted'
  BY DEF IInv, PassedOutsideCooldown, ReadAsCommitted, Counted, Colleagues,
         InCooldown, Tick
<1> QED
  BY <1>3, <1>5, <1>6 DEF IInv

(* A mark-applied under way is dated now.                                   *)
LEMMA StampStep ==
    ASSUME IInv, NEW m \in Marks, Stamp(m) \/ MarkFails(m) PROVE IInv'
<1>1. /\ \/ mark' = [mark EXCEPT ![m] = NULL]
         \/ \E j \in Jobs : mark' = [mark EXCEPT ![m] = [job |-> j, at |-> now]]
      /\ UNCHANGED <<now, keys, posting, history, job>>
  BY DEF Stamp, MarkFails
<1>2. now \in Time /\ now \in Nat
  BY TimeType DEF IInv, TypeOK
<1>3. TypeOK'
  BY <1>1, <1>2 DEF IInv, TypeOK
<1>4. Past'
  BY <1>1, <1>2 DEF IInv, Past, TypeOK
<1>5. PassedOutsideCooldown' /\ ReadAsCommitted' /\ Counted'
  BY <1>1 DEF IInv, PassedOutsideCooldown, ReadAsCommitted, Counted, Colleagues,
              InCooldown
<1> QED
  BY <1>3, <1>4, <1>5 DEF IInv

(* A commit is from then on among those since every screening: what it puts *)
(* in a row is later than a refusal, and lasts longer than its days, or has *)
(* passed it.                                                               *)
LEMMA ApplyStep ==
    ASSUME IInv, NEW m \in Marks, MarkApplied(m) PROVE IInv'
<1> DEFINE l == mark[m].job
           t == mark[m].at
<1>0. TypeOK /\ Past /\ now \in Nat /\ Cooldown \in Nat
  BY TimeType, CooldownType DEF IInv, TypeOK
<1>1. /\ history' = [history EXCEPT ![l] = t]
      /\ mark' = [mark EXCEPT ![m] = NULL]
      /\ job' = [j \in Jobs |-> [job[j] EXCEPT !.since = @ \cup {l}]]
      /\ now' = now /\ keys' = keys /\ posting' = posting
  BY DEF MarkApplied
<1>2. l \in Jobs /\ t \in Time /\ t \in Nat /\ t <= now
  BY <1>0, TimeType DEF MarkApplied, TypeOK, Past
<1> HIDE DEF l, t
<1>3. history'[l] = t /\ \A k \in Jobs \ {l} : history'[k] = history[k]
  BY <1>0, <1>1, <1>2 DEF TypeOK
<1>4. ASSUME NEW j \in Jobs
      PROVE  /\ job'[j] \in Job
             /\ job'[j].pc = job[j].pc /\ job'[j].status = job[j].status
             /\ job'[j].dates = job[j].dates /\ job'[j].left = job[j].left
             /\ job'[j].at = job[j].at /\ job'[j].since = job[j].since \cup {l}
  <2>1. job[j] \in Job /\ job'[j] = [job[j] EXCEPT !.since = @ \cup {l}]
    BY <1>0, <1>1 DEF TypeOK
  <2> QED
    BY <2>1, <1>2 DEF Job
<1>5. TypeOK'
  BY <1>0, <1>1, <1>2, <1>4 DEF TypeOK
<1>6. Past'
  BY <1>0, <1>1, <1>2, <1>3, <1>4 DEF Past, TypeOK
<1>7. ASSUME NEW j \in Jobs
      PROVE  /\ \A k \in Colleagues(j)' \ job'[j].since :
                   k \in Colleagues(j) \ job[j].since /\ history'[k] = history[k]
             /\ \A k \in Colleagues(j) : k \in Colleagues(j)'
  BY <1>0, <1>1, <1>2, <1>3, <1>4, NullAssumption DEF Colleagues
<1>8. PassedOutsideCooldown'
  <2> SUFFICES ASSUME "company_cooldown_days" \in keys, NEW j \in Jobs, Passed(job'[j]),
                      NEW k \in Colleagues(j)' \ job'[j].since
               PROVE  ~InCooldown(k, job[j].at)'
    BY <1>1 DEF PassedOutsideCooldown, Passed
  <2>1. Passed(job[j]) /\ job'[j].at = job[j].at
    BY <1>4 DEF Passed
  <2>2. k \in Colleagues(j) \ job[j].since /\ history'[k] = history[k]
    BY <1>7
  <2>3. ~InCooldown(k, job[j].at)
    BY <2>1, <2>2 DEF IInv, PassedOutsideCooldown
  <2> QED
    BY <2>1, <2>2, <2>3 DEF InCooldown, Cooldown
<1>9. ReadAsCommitted'
  <2> SUFFICES ASSUME NEW j \in Jobs, job'[j].pc = "reading"
               PROVE  /\ \A k \in Colleagues(j)' \ job'[j].since :
                            history'[k] \in job'[j].dates
                      /\ \A d \in job'[j].dates :
                            \E k \in Colleagues(j)' :
                                history'[k] = d \/ k \in job'[j].since
    BY DEF ReadAsCommitted
  <2>1. job[j].pc = "reading" /\ job'[j].dates = job[j].dates
        /\ job'[j].since = job[j].since \cup {l}
    BY <1>4
  <2>2. /\ \A k \in Colleagues(j) \ job[j].since : history[k] \in job[j].dates
        /\ \A d \in job[j].dates :
              \E k \in Colleagues(j) : history[k] = d \/ k \in job[j].since
    BY <2>1 DEF IInv, ReadAsCommitted
  <2>3. \A k \in Colleagues(j)' \ job'[j].since : history'[k] \in job'[j].dates
    BY <1>7, <2>1, <2>2
  <2>4. ASSUME NEW d \in job'[j].dates
        PROVE  \E k \in Colleagues(j)' : history'[k] = d \/ k \in job'[j].since
    <3>1. PICK k \in Colleagues(j) : history[k] = d \/ k \in job[j].since
      BY <2>1, <2>2
    <3>2. k \in Jobs /\ k \in Colleagues(j)'
      BY <1>7 DEF Colleagues
    <3>3. k = l \/ history'[k] = history[k]
      BY <1>3, <3>2
    <3> QED
      BY <2>1, <3>1, <3>2, <3>3
  <2> QED
    BY <2>3, <2>4
<1>10. Counted'
  <2> SUFFICES ASSUME NEW j \in Jobs, job'[j].left # NULL
               PROVE  /\ job'[j].pc = "idle" /\ job'[j].left * Day <= Cooldown
                      /\ \E k \in Colleagues(j)' :
                            \/ job'[j].at + job'[j].left * Day <= history'[k] + Cooldown
                            \/ k \in job'[j].since /\ history'[k] < job'[j].at
                      /\ \A k \in Colleagues(j)' \ job'[j].since :
                            history'[k] + Cooldown
                                < job'[j].at + (job'[j].left + 1) * Day
    BY DEF Counted, Cooldown
  <2> DEFINE lo == job[j].left * Day
  <2>1. job'[j].pc = job[j].pc /\ job'[j].left = job[j].left
        /\ job'[j].at = job[j].at /\ job'[j].since = job[j].since \cup {l}
    BY <1>4
  <2>2. /\ job[j].pc = "idle" /\ lo <= Cooldown
        /\ \E k \in Colleagues(j) :
              \/ job[j].at + lo <= history[k] + Cooldown
              \/ k \in job[j].since /\ history[k] < job[j].at
        /\ \A k \in Colleagues(j) \ job[j].since :
              history[k] + Cooldown < job[j].at + (job[j].left + 1) * Day
    BY <2>1 DEF IInv, Counted
  <2>3. lo \in Nat /\ job[j].at \in Nat
    BY <1>0, <2>1, TimeType, CooldownType DEF TypeOK, Job
  <2>4. \A k \in Colleagues(j)' \ job'[j].since :
            history'[k] + Cooldown < job'[j].at + (job'[j].left + 1) * Day
    BY <1>7, <2>1, <2>2
  <2> HIDE DEF lo
  <2>5. \E k \in Colleagues(j)' :
            \/ job[j].at + lo <= history'[k] + Cooldown
            \/ k \in job'[j].since /\ history'[k] < job[j].at
    <3>1. PICK k \in Colleagues(j) :
              \/ job[j].at + lo <= history[k] + Cooldown
              \/ k \in job[j].since /\ history[k] < job[j].at
      BY <2>2
    <3>2. k \in Jobs /\ k \in Colleagues(j)'
      BY <1>7 DEF Colleagues
    <3>3. CASE k = l
      <4>1. k \in job'[j].since /\ history'[k] = t
        BY <3>3, <1>3, <2>1
      <4>2. t < job[j].at \/ job[j].at + lo <= t + Cooldown
        BY <1>0, <1>2, <2>2, <2>3
      <4> QED
        BY <3>2, <4>1, <4>2
    <3>4. CASE k # l
      BY <3>1, <3>2, <3>4, <1>3, <2>1
    <3> QED
      BY <3>3, <3>4
  <2> QED
    BY <2>1, <2>2, <2>4, <2>5 DEF lo
<1> QED
  BY <1>5, <1>6, <1>8, <1>9, <1>10 DEF IInv

(* hard_filter_job() reads the history as it is committed.                  *)
LEMMA ScreenStep ==
    ASSUME IInv, NEW j \in Jobs, Screen(j) PROVE IInv'
<1>0. TypeOK /\ Past /\ EntryInv(j, job[j]) /\ job[j] \in Job /\ now \in Time
  BY Entries DEF IInv, TypeOK
<1>1. now \in Nat /\ 0 \in Time
  BY <1>0, TimeType, CooldownType
<1>2. UNCHANGED Others /\ job[j].pc = "idle"
  BY DEF Screen
<1>3. CASE Let(j) /\ "company_cooldown_days" \notin keys
  <2> DEFINE u == [job[j] EXCEPT !.pc = "scoring", !.dates = {},
                                 !.left = NULL, !.at = now]
  <2>1. u \in Job
    BY <1>0 DEF Job
  <2>2. u.pc = "scoring" /\ u.dates = {} /\ u.left = NULL /\ u.at = now
    BY <1>0 DEF Job
  <2>3. job' = [job EXCEPT ![j] = u]
    BY <1>3 DEF Let
  <2> HIDE DEF u
  <2>4. EntryInv(j, u)
    BY <1>1, <1>3, <2>2 DEF EntryInv, Timely, PassedInv, ReadInv, LeftInv
  <2> QED
    BY <1>2, <2>1, <2>3, <2>4, EntryStep
<1>4. CASE Read(j)
  <2> DEFINE dates == AppliedDates(posting[j].company)
             u == [job[j] EXCEPT !.pc = "reading", !.left = NULL,
                                 !.dates = dates, !.at = 0, !.since = {}]
  <2>0. dates = {history[k] : k \in Colleagues(j)}
    BY DEF AppliedDates, Colleagues
  <2>1. \A d \in dates : d \in Time /\ d <= now
    BY <2>0, ColleaguesDated
  <2>2. job' = [job EXCEPT ![j] = u]
    BY <1>4 DEF Read
  <2> HIDE DEF dates
  <2>3. u \in Job
    BY <1>0, <1>1, <2>1 DEF Job
  <2>4. u.pc = "reading" /\ u.dates = dates /\ u.left = NULL /\ u.at = 0
        /\ u.since = {}
    BY <1>0 DEF Job
  <2> HIDE DEF u
  <2>5. Timely(u) /\ PassedInv(j, u) /\ LeftInv(j, u)
    BY <1>1, <2>1, <2>4 DEF Timely, PassedInv, Passed, LeftInv
  <2>6. ReadInv(j, u)
    BY <2>0, <2>4 DEF ReadInv
  <2> QED
    BY <1>2, <2>2, <2>3, <2>5, <2>6, EntryStep DEF EntryInv
<1>5. CASE Reject(j, NULL, 0)
  <2> DEFINE u == [job[j] EXCEPT !.pc = "idle", !.status = "REJECT", !.dates = {},
                                 !.left = NULL, !.at = 0]
  <2>1. u \in Job
    BY <1>0, <1>1 DEF Job, Statuses
  <2>2. u.pc = "idle" /\ u.dates = {} /\ u.left = NULL /\ u.at = 0
        /\ u.status = "REJECT"
    BY <1>0 DEF Job
  <2>3. job' = [job EXCEPT ![j] = u]
    BY <1>5 DEF Reject
  <2> HIDE DEF u
  <2>4. EntryInv(j, u)
    BY <1>1, <2>2 DEF EntryInv, Timely, PassedInv, Passed, ReadInv, LeftInv
  <2> QED
    BY <1>2, <2>1, <2>3, <2>4, EntryStep
<1> QED
  BY <1>3, <1>4, <1>5 DEF Screen

(* check_company_cooldown() lets a job pass whose company was free by what  *)
(* was read, and gives the days left of one that was not.                   *)
LEMMA CheckStep ==
    ASSUME IInv, NEW j \in Jobs, CheckCooldown(j) PROVE IInv'
<1>0. TypeOK /\ EntryInv(j, job[j]) /\ job[j] \in Job /\ now \in Time
  BY Entries DEF TypeOK
<1>1. now \in Nat /\ Cooldown \in Nat /\ Day \in Nat
  BY <1>0, TimeType, CooldownType
<1>2. UNCHANGED Others /\ job[j].pc = "reading"
  BY DEF CheckCooldown
<1> DEFINE dates == job[j].dates
           left == DaysLeft(dates)
<1>3. dates \subseteq Time /\ \A d \in dates : d <= now /\ d \in Nat
  BY <1>0, TimeType DEF EntryInv, Timely, Job
<1>4. /\ \A k \in Colleagues(j) \ job[j].since : history[k] \in dates
      /\ \A d \in dates :
            \E k \in Colleagues(j) : history[k] = d \/ k \in job[j].since
  BY <1>0, <1>2 DEF EntryInv, ReadInv
<1>5. /\ left \in Nat \cup {NULL}
      /\ left = NULL => \A d \in dates : d + Cooldown <= now
      /\ left # NULL =>
            /\ left * Day <= Cooldown
            /\ \E d \in dates : now + left * Day <= d + Cooldown
            /\ \A d \in dates : d + Cooldown < now + (left + 1) * Day
  BY <1>1, <1>3, DaysLeftMeans
<1>6. IF left = NULL THEN Let(j) ELSE Reject(j, left, now)
  BY DEF CheckCooldown
<1> HIDE DEF dates, left
<1>7. CASE left = NULL
  <2> DEFINE u == [job[j] EXCEPT !.pc = "scoring", !.dates = {},
                                 !.left = NULL, !.at = now]
  <2>1. u \in Job
    BY <1>0 DEF Job
  <2>2. u.pc = "scoring" /\ u.dates = {} /\ u.left = NULL /\ u.at = now
        /\ u.since = job[j].since
    BY <1>0 DEF Job
  <2>3. job' = [job EXCEPT ![j] = u]
    BY <1>6, <1>7 DEF Let
  <2> HIDE DEF u
  <2>4. ASSUME NEW k \in Colleagues(j) \ job[j].since PROVE ~InCooldown(k, now)
    <3>1. history[k] \in Nat /\ history[k] + Cooldown <= now
      BY <1>3, <1>4, <1>5, <1>7
    <3> QED
      BY <3>1, <1>1 DEF InCooldown
  <2>5. EntryInv(j, u)
    BY <1>1, <2>2, <2>4 DEF EntryInv, Timely, PassedInv, ReadInv, LeftInv
  <2> QED
    BY <1>2, <2>1, <2>3, <2>5, EntryStep
<1>8. CASE left # NULL
  <2> DEFINE u == [job[j] EXCEPT !.pc = "idle", !.status = "REJECT", !.dates = {},
                                 !.left = left, !.at = now]
  <2>1. u \in Job
    BY <1>0, <1>5 DEF Job, Statuses
  <2>2. u.pc = "idle" /\ u.dates = {} /\ u.left = left /\ u.at = now
        /\ u.status = "REJECT" /\ u.since = job[j].since
    BY <1>0 DEF Job
  <2>3. job' = [job EXCEPT ![j] = u]
    BY <1>6, <1>8 DEF Reject
  <2> HIDE DEF u
  <2>4. Timely(u) /\ PassedInv(j, u) /\ ReadInv(j, u)
    BY <1>1, <2>2 DEF Timely, PassedInv, Passed, ReadInv
  <2> DEFINE lo == left * Day
  <2>5. lo \in Nat /\ lo <= Cooldown /\ \E d \in dates : now + lo <= d + Cooldown
    BY <1>1, <1>5, <1>8
  <2> HIDE DEF lo
  <2>6. \E k \in Colleagues(j) : \/ now + lo <= history[k] + Cooldown
                                 \/ k \in job[j].since /\ history[k] < now
    <3>1. PICK d \in dates : now + lo <= d + Cooldown
      BY <2>5
    <3>2. PICK k \in Colleagues(j) : history[k] = d \/ k \in job[j].since
      BY <1>4
    <3>3. history[k] \in Nat /\ history[k] <= now
      BY ColleaguesDated
    <3>4. history[k] < now \/ history[k] = now
      BY <3>3, <1>1
    <3>5. history[k] = now => now + lo <= history[k] + Cooldown
      BY <2>5, <1>1
    <3> QED
      BY <3>1, <3>2, <3>4, <3>5
  <2>7. \A k \in Colleagues(j) \ job[j].since :
            history[k] + Cooldown < now + (left + 1) * Day
    BY <1>4, <1>5, <1>8
  <2>8. LeftInv(j, u)
    BY <2>2, <2>5, <2>6, <2>7 DEF LeftInv, lo
  <2> QED
    BY <1>2, <2>1, <2>3, <2>4, <2>8, EntryStep DEF EntryInv
<1> QED
  BY <1>7, <1>8

(* The answer's status is of the screening that let the job through.        *)
LEMMA ScoreStep ==
    ASSUME IInv, NEW j \in Jobs, Score(j) \/ Fails(j) PROVE IInv'
<1>0. TypeOK /\ EntryInv(j, job[j]) /\ job[j] \in Job /\ now \in Nat /\ 0 \in Time
  BY Entries, TimeType, CooldownType DEF TypeOK
<1>1. UNCHANGED Others
  BY DEF Score, Fails
<1>2. ASSUME NEW a \in Analysis, job[j].pc = "scoring",
             job' = [job EXCEPT ![j] = [job[j] EXCEPT !.pc = "idle",
                                                      !.status = Verdict(a)]]
      PROVE  IInv'
  <2> DEFINE u == [job[j] EXCEPT !.pc = "idle", !.status = Verdict(a)]
  <2>1. Verdict(a) \in Statuses
    BY DEF Verdict, Statuses
  <2>2. u \in Job
    BY <1>0, <2>1 DEF Job
  <2>3. u.pc = "idle" /\ u.at = job[j].at /\ u.left = job[j].left
        /\ u.dates = job[j].dates /\ u.since = job[j].since
    BY <1>0 DEF Job
  <2>4. job' = [job EXCEPT ![j] = u]
    BY <1>2
  <2> HIDE DEF u
  <2>5. Timely(u) /\ PassedInv(j, u)
    BY <1>0, <1>2, <2>3 DEF EntryInv, Timely, PassedInv, Passed
  <2>6. ReadInv(j, u) /\ LeftInv(j, u)
    BY <1>0, <2>3 DEF EntryInv, ReadInv, LeftInv
  <2> QED
    BY <1>1, <2>2, <2>4, <2>5, <2>6, EntryStep DEF EntryInv
<1>3. CASE Fails(j)
  <2> DEFINE u == [job[j] EXCEPT !.pc = "idle", !.dates = {}, !.at = 0]
  <2>1. u \in Job
    BY <1>0 DEF Job
  <2>2. u.pc = "idle" /\ u.at = 0 /\ u.left = job[j].left /\ u.dates = {}
    BY <1>0 DEF Job
  <2>3. job' = [job EXCEPT ![j] = u]
    BY <1>3 DEF Fails
  <2> HIDE DEF u
  <2>4. \A k \in Colleagues(j) : ~InCooldown(k, 0)
    <3>1. \A k \in Colleagues(j) : history[k] \in Nat
      BY ColleaguesDated
    <3> QED
      BY <3>1 DEF InCooldown
  <2>5. job[j].left = NULL
    BY <1>0, <1>3 DEF Fails, EntryInv, LeftInv
  <2>6. EntryInv(j, u)
    BY <1>0, <2>2, <2>4, <2>5 DEF EntryInv, Timely, PassedInv, ReadInv, LeftInv
  <2> QED
    BY <1>1, <2>1, <2>3, <2>6, EntryStep
<1> QED
  BY <1>2, <1>3 DEF Score

LEMMA Invariance == Spec => []IInv
<1>1. Init => IInv
  <2> SUFFICES ASSUME Init PROVE IInv
    OBVIOUS
  <2>1. 0 \in Time
    BY TimeType, CooldownType
  <2>2. TypeOK
    BY <2>1 DEF Init, TypeOK, Job, Statuses
  <2>3. Past
    BY DEF Init, Past
  <2>4. PassedOutsideCooldown /\ ReadAsCommitted /\ Counted
    BY DEF Init, PassedOutsideCooldown, Passed, ReadAsCommitted, Counted
  <2> QED
    BY <2>2, <2>3, <2>4 DEF IInv
<1>2. IInv /\ [Next]_vars => IInv'
  <2> SUFFICES ASSUME IInv, [Next]_vars PROVE IInv'
    OBVIOUS
  <2>1. CASE UNCHANGED vars
    <3>1. TypeOK' /\ Past'
      BY <2>1 DEF vars, IInv, TypeOK, Past
    <3>2. PassedOutsideCooldown' /\ ReadAsCommitted' /\ Counted'
      BY <2>1 DEF vars, IInv, PassedOutsideCooldown, ReadAsCommitted, Counted,
                  Colleagues, InCooldown
    <3> QED
      BY <3>1, <3>2 DEF IInv
  <2> QED
    BY <2>1, TickStep, StampStep, ApplyStep, ScreenStep, CheckStep, ScoreStep
       DEF Next
<1> QED
  BY <1>1, <1>2, PTL DEF Spec

(* The history, the entries and the clock keep their types.                 *)
THEOREM TypeCorrect == Spec => []TypeOK
<1>1. IInv => TypeOK
  BY DEF IInv
<1> QED
  BY <1>1, Invariance, PTL

(* No scoring was let through during its company's cooldown, for any length *)
(* of it, of the screening and of the call, but past a mark-applied that    *)
(* committed since the history was read.                                    *)
THEOREM AlwaysPassedOutsideCooldown == Spec => []PassedOutsideCooldown
<1>1. IInv => PassedOutsideCooldown
  BY DEF IInv
<1> QED
  BY <1>1, Invariance, PTL

(* A refusal's days last, or a mark-applied has passed its screening.       *)
THEOREM DaysLeftAlwaysLeft == Spec => []DaysLeftAreLeft
<1>1. IInv => DaysLeftAreLeft
  <2> SUFFICES ASSUME IInv, NEW j \in Jobs, job[j].left # NULL,
                      now < job[j].at + job[j].left * Day
               PROVE  \E k \in Colleagues(j) :
                          \/ history[k] + Cooldown > now
                          \/ k \in job[j].since /\ history[k] < job[j].at
    BY DEF DaysLeftAreLeft
  <2> DEFINE lo == job[j].at + job[j].left * Day
  <2>1. PICK k \in Colleagues(j) : \/ lo <= history[k] + Cooldown
                                   \/ k \in job[j].since /\ history[k] < job[j].at
    BY DEF IInv, Counted
  <2>2. history[k] \in Nat /\ now \in Nat
    BY ColleaguesDated, TimeType DEF IInv, TypeOK
  <2>3. lo \in Nat /\ now < lo
    BY TimeType, CooldownType DEF IInv, TypeOK, Job
  <2> HIDE DEF lo
  <2> QED
    BY <2>1, <2>2, <2>3, CooldownType
<1> QED
  BY <1>1, Invariance, PTL

(* A day after a refusal's days are over, only applications committed since *)
(* it read the history count.                                               *)
THEOREM DaysLeftAlwaysEnough == Spec => []DaysLeftAreEnough
<1>1. IInv => DaysLeftAreEnough
  <2> SUFFICES ASSUME IInv, NEW j \in Jobs, job[j].left # NULL,
                      now >= job[j].at + (job[j].left + 1) * Day,
                      NEW k \in Colleagues(j) \ job[j].since
               PROVE  history[k] + Cooldown <= now
    BY DEF DaysLeftAreEnough
  <2> DEFINE hi == job[j].at + (job[j].left + 1) * Day
  <2>1. history[k] + Cooldown < hi
    BY DEF IInv, Counted
  <2>2. history[k] \in Nat /\ now \in Nat
    BY ColleaguesDated, TimeType DEF IInv, TypeOK
  <2>3. hi \in Nat /\ now >= hi
    <3>1. job[j].left \in Nat /\ job[j].at \in Nat
      BY TimeType DEF IInv, TypeOK, Job
    <3> QED
      BY <3>1, CooldownType
  <2> HIDE DEF hi
  <2> QED
    BY <2>1, <2>2, <2>3, CooldownType
<1> QED
  BY <1>1, Invariance, PTL
=============================================================================
