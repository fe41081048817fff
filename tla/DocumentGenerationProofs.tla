---------------------- MODULE DocumentGenerationProofs ----------------------
(***************************************************************************)
(* Proofs about DocumentGeneration for any sets of jobs, document types and *)
(* requests and any bound on the retries, and below about DocumentReview    *)
(* for any words, texts, losses and versions.                               *)
(*                                                                          *)
(* A slot's rows are 1..n.  A request that has counted holds a version of   *)
(* at most n + 1, and at least the number of its attempt, for every attempt *)
(* but the first began behind a row that was not its own.                   *)
(***************************************************************************)
EXTENDS DocumentGeneration, DocumentReview, Sequences, FiniteSetTheorems, TLAPS

Count(s) == Cardinality(DOMAIN docs[s])

Counted == \A s \in Slots : Count(s) \in Nat

(* What a request's version and attempt say about its slot.                 *)
Numbers(r) ==
    /\ req[r].pc \in {"new", "find", "insert", "requery"} => req[r].attempt = 1
    /\ At(r, "count") => req[r].attempt <= Count(Slot(r)) + 1
    /\ req[r].pc \in {"write", "commit"} =>
          /\ Version(r) \in 1..Count(Slot(r)) + 1
          /\ req[r].attempt <= Version(r)
    /\ At(r, "collided") => MaxAttempts <= Count(Slot(r))

(* A request has no row until it commits one, and then has one.             *)
Unpublished == {"new", "find", "insert", "requery", "count", "write",
                "commit", "collided"}
OwnRow(r) ==
    /\ req[r].pc \in Unpublished =>
          \A v \in DOMAIN docs[Slot(r)] : docs[Slot(r)][v].content # r
    /\ req[r].pc \in {"review", "ok"} =>
          /\ Version(r) \in DOMAIN docs[Slot(r)]
          /\ docs[Slot(r)][Version(r)].content = r
    /\ At(r, "review") => /\ docs[Slot(r)][Version(r)].claim = "null"
                          /\ docs[Slot(r)][Version(r)].ats = "null"
    /\ At(r, "ok") => docs[Slot(r)][Version(r)].claim # "null"

(* A request past the get-or-create has an application.                     *)
NoApplicationYet == {"new", "find", "insert", "requery", "error"}
HasItsApplication(r) ==
    req[r].pc \notin NoApplicationYet => HasApplication(JobOf(Slot(r)))

HasItsFile(r) == At(r, "commit") => Version(r) \in DOMAIN files[Slot(r)]

(* Who last wrote a file: the owner of its version, or a request that lost. *)
Wrote(u, s, v) ==
    /\ Slot(u) = s
    /\ \/ req[u].pc \in {"commit", "review", "ok"} /\ Version(u) = v
       \/ req[u].pc \in {"error", "collided"}
       \/ req[u].attempt > 1
FileAuthor ==
    \A s \in Slots : \A v \in DOMAIN files[s] : Wrote(files[s][v], s, v)

Each(r) == Numbers(r) /\ OwnRow(r) /\ HasItsApplication(r) /\ HasItsFile(r)

IInv == /\ TypeOK /\ Counted /\ VersionsContiguous /\ RowHasFile
        /\ OneApplicationPerJob /\ FileAuthor
        /\ \A r \in Requests : Each(r)

-----------------------------------------------------------------------------
(* The versions of an interval are counted by its upper end.                *)
LEMMA CountOfInterval ==
    ASSUME NEW n \in Nat PROVE Cardinality(1..n) = n
BY FS_Interval

(* The next version extends the interval by one.                            *)
LEMMA IntervalNext ==
    ASSUME NEW n \in Nat PROVE 1..n \cup {n + 1} = 1..(n + 1)
OBVIOUS

(* The empty map has every type.                                            *)
LEMMA EmptyType == ASSUME NEW T PROVE << >> \in [DOMAIN << >> -> T]
OBVIOUS

(* The strengthened invariant holds at first.                               *)
LEMMA IInvInit == Init => IInv
<1> SUFFICES ASSUME Init PROVE IInv
  OBVIOUS
<1> USE MaxAttemptsAssumption
<1>1. /\ \A s \in Slots : docs[s] = << >> /\ files[s] = << >>
      /\ DOMAIN << >> = {}
  BY DEF Init
<1>2. \A s \in Slots : Count(s) = 0
  BY <1>1, FS_EmptySet DEF Count
<1>3. \A r \in Requests : /\ req[r] \in Request
                          /\ req[r].pc = "new" /\ req[r].attempt = 1
  BY DEF Init, Request
<1>4. TypeOK
  <2>1. req \in [Requests -> Request]
    BY DEF Init, Request
  <2>2. \A s \in Slots : /\ docs[s] \in [DOMAIN docs[s] -> Row]
                         /\ files[s] \in [DOMAIN files[s] -> Requests]
    BY <1>1, EmptyType
  <2> QED
    BY <1>1, <2>1, <2>2 DEF TypeOK, Init
<1>5. Counted /\ VersionsContiguous
  BY <1>1, <1>2 DEF Counted, VersionsContiguous, Count
<1>6. RowHasFile /\ OneApplicationPerJob /\ FileAuthor
  BY <1>1 DEF RowHasFile, OneApplicationPerJob, FileAuthor, Init
<1>7. \A r \in Requests : Each(r)
  BY <1>1, <1>3 DEF Each, Numbers, OwnRow, HasItsApplication, HasItsFile, At,
     Slot, Request, NoApplicationYet
<1> QED
  BY <1>4, <1>5, <1>6, <1>7 DEF IInv

-----------------------------------------------------------------------------
(* A step of one request changes no other request, nor its own slot.        *)
Others(r) == /\ \A q \in Requests \ {r} : req'[q] = req[q]
             /\ req'[r].slot = req[r].slot

(* Applications are only added, and by get-or-create one at a time.         *)
AppsGrow == apps \subseteq apps' /\ \A a, b \in apps' : a.job = b.job => a = b

(* An application stays.                                                    *)
LEMMA ApplicationStays ==
    ASSUME AppsGrow, NEW j, HasApplication(j) PROVE HasApplication(j)'
BY DEF AppsGrow, HasApplication

(* A step that writes neither a row nor a file.                             *)
LEMMA QuietStep ==
    ASSUME IInv, NEW r \in Requests, Others(r), AppsGrow,
           docs' = docs, files' = files,
           apps' \subseteq [job : Jobs, by : Requests], req'[r] \in Request,
           req' \in [Requests -> Request],
           req[r].pc \notin Ended,
           req[r].pc = "review" => req'[r].pc = "error",
           req'[r].pc \notin {"review", "ok", "commit"},
           Numbers(r)', HasItsApplication(r)',
           req[r].attempt <= req'[r].attempt,
           req[r].pc = "commit" =>
              \/ req'[r].pc \in {"error", "collided"}
              \/ req'[r].attempt > 1
    PROVE  IInv'
<1> USE DEF At, Slot, Version
<1>1. TypeOK'
  BY DEF IInv, TypeOK
<1>2. Counted' /\ VersionsContiguous' /\ RowHasFile'
  BY DEF IInv, Counted, Count, VersionsContiguous, RowHasFile
<1>3. OneApplicationPerJob'
  BY ApplicationStays DEF AppsGrow, IInv, OneApplicationPerJob
<1>4. FileAuthor'
  <2> SUFFICES ASSUME NEW s \in Slots, NEW v \in DOMAIN files[s]
               PROVE  Wrote(files[s][v], s, v)'
    BY DEF FileAuthor, Wrote
  <2> DEFINE u == files[s][v]
  <2>1. u \in Requests /\ Wrote(u, s, v)
    BY DEF IInv, TypeOK, FileAuthor
  <2>2. CASE u # r
    BY <2>1, <2>2 DEF Wrote, Others
  <2>3. CASE u = r
    <3>1. req[r].attempt \in Nat /\ req'[r].attempt \in Nat
      BY MaxAttemptsAssumption DEF Request, IInv, TypeOK
    <3> QED
      BY <2>1, <2>3, <3>1 DEF Wrote, Others, Ended
  <2> QED
    BY <2>2, <2>3
<1>5. ASSUME NEW q \in Requests PROVE Each(q)'
  <2>1. CASE q # r
    <3>1. HasItsApplication(q)'
      BY <2>1, ApplicationStays
         DEF Others, IInv, Each, HasItsApplication
    <3> QED
      BY <2>1, <3>1 DEF Others, IInv, Each, Numbers, OwnRow, HasItsFile, Count
  <2>2. CASE q = r
    <3>1. OwnRow(r)'
      <4>1. req[r].pc \in {"new"} \cup Live
        BY DEF IInv, TypeOK, Request
      <4>2. req'[r].pc \in Unpublished => req[r].pc \in Unpublished
        BY <4>1 DEF Live, Unpublished
      <4> QED
        <5>1. OwnRow(r)
          BY DEF IInv, Each
        <5> QED
          BY <4>2, <5>1 DEF Others, OwnRow
    <3> QED
      BY <2>2, <3>1 DEF Each, HasItsFile
  <2> QED
    BY <2>1, <2>2
<1> QED
  BY <1>1, <1>2, <1>3, <1>4, <1>5 DEF IInv

(* Writing the file of a version no later than the next.                    *)
LEMMA WriteStep ==
    ASSUME IInv, NEW r \in Requests, WriteFile(r)
    PROVE  IInv'
<1> USE DEF At, Slot, Version
<1>a. req[r] \in Request /\ req[r].slot \in Slots /\ req[r].version \in Nat
  BY DEF IInv, TypeOK, Request
<1>b. /\ Others(r) /\ docs' = docs /\ apps' = apps
      /\ req[r].pc = "write" /\ req' \in [Requests -> Request]
      /\ req'[r] = [req[r] EXCEPT !.pc = "commit"]
      /\ files' = [files EXCEPT ![req[r].slot] = Put(@, req[r].version, r)]
  BY <1>a DEF WriteFile, Go, Others, IInv, TypeOK, Request, Live
<1> DEFINE old == files[req[r].slot]
<1> DEFINE new == files'[req[r].slot]
<1>e. /\ new = Put(old, req[r].version, r)
      /\ \A s \in Slots \ {req[r].slot} : files'[s] = files[s]
  BY <1>a, <1>b DEF IInv, TypeOK
<1>c. /\ DOMAIN new = DOMAIN old \cup {req[r].version}
      /\ new[req[r].version] = r
      /\ \A v \in DOMAIN old \ {req[r].version} : new[v] = old[v]
  BY <1>e DEF Put
<1>d. \A s \in Slots : DOMAIN files[s] \subseteq DOMAIN files'[s]
  BY <1>e, <1>c
<1>1. TypeOK'
  <2>1. \A s \in Slots : /\ DOMAIN files'[s] \subseteq Nat
                         /\ files'[s] \in [DOMAIN files'[s] -> Requests]
    <3>1. DOMAIN old \subseteq Nat /\ old \in [DOMAIN old -> Requests]
      BY <1>a DEF IInv, TypeOK
    <3>2. DOMAIN new \subseteq Nat /\ new \in [DOMAIN new -> Requests]
      BY <1>a, <1>e, <3>1 DEF Put
    <3> QED
      BY <1>e, <3>2 DEF IInv, TypeOK
  <2>2. files' = [s \in Slots |-> files'[s]]
    BY <1>b DEF IInv, TypeOK
  <2> QED
    BY <1>b, <2>1, <2>2 DEF IInv, TypeOK
<1>2. Counted' /\ VersionsContiguous' /\ OneApplicationPerJob'
  BY <1>b DEF IInv, Counted, Count, VersionsContiguous, OneApplicationPerJob,
     HasApplication
<1>3. RowHasFile'
  BY <1>b, <1>d DEF IInv, RowHasFile
<1>4. FileAuthor'
  <2> SUFFICES ASSUME NEW s \in Slots, NEW v \in DOMAIN files'[s]
               PROVE  /\ req'[files'[s][v]].slot = s
                      /\ \/ /\ req'[files'[s][v]].pc \in {"commit", "review", "ok"}
                            /\ req'[files'[s][v]].version = v
                         \/ req'[files'[s][v]].pc \in {"error", "collided"}
                         \/ req'[files'[s][v]].attempt > 1
    BY DEF FileAuthor, Wrote
  <2>1. CASE s = req[r].slot /\ v = req[r].version
    <3>1. files'[s][v] = r
      BY <2>1, <1>c
    <3> QED
      BY <2>1, <3>1, <1>a, <1>b DEF Others, Request
  <2>2. CASE s # req[r].slot \/ v # req[r].version
    <3>1. v \in DOMAIN files[s] /\ files'[s][v] = files[s][v]
      <4>1. CASE s # req[r].slot
        BY <4>1, <1>e
      <4>2. CASE s = req[r].slot
        BY <2>2, <4>2, <1>c
      <4> QED
        BY <4>1, <4>2
    <3>2. files[s][v] \in Requests /\ Wrote(files[s][v], s, v)
      BY <3>1 DEF IInv, TypeOK, FileAuthor
    <3>3. CASE files[s][v] # r
      BY <3>1, <3>2, <3>3, <1>b DEF Wrote, Others
    <3>4. CASE files[s][v] = r
      BY <3>1, <3>2, <3>4, <1>a, <1>b DEF Wrote, Others, Request
    <3> QED
      BY <3>3, <3>4
  <2> QED
    BY <2>1, <2>2
<1>5. ASSUME NEW q \in Requests PROVE Each(q)'
  <2>1. HasItsApplication(q)' /\ OwnRow(q)' /\ Numbers(q)'
    <3>1. /\ req'[q].slot = req[q].slot /\ req'[q].version = req[q].version
          /\ req'[q].attempt = req[q].attempt
          /\ \/ req'[q].pc = req[q].pc
             \/ req[q].pc = "write" /\ req'[q].pc = "commit"
      BY <1>a, <1>b DEF Others, Request
    <3>2. HasItsApplication(q)'
      BY <1>b, <3>1 DEF IInv, Each, HasItsApplication, HasApplication,
         NoApplicationYet
    <3>3. OwnRow(q)'
      BY <1>b, <3>1 DEF IInv, Each, OwnRow, Unpublished
    <3>4. Numbers(q)'
      BY <1>b, <3>1 DEF IInv, Each, Numbers, Count
    <3> QED
      BY <3>2, <3>3, <3>4
  <2>2. HasItsFile(q)'
    <3>1. CASE q = r
      <4>1. /\ req'[q].slot = req[r].slot /\ req'[q].version = req[r].version
            /\ files'[req[r].slot] = new
        BY <3>1, <1>a, <1>b DEF Request
      <4> QED
        BY <4>1, <1>c DEF HasItsFile
    <3>2. CASE q # r
      <4>1. req[q].slot \in Slots
        BY DEF IInv, TypeOK, Request
      <4> QED
        BY <3>2, <4>1, <1>b, <1>d DEF IInv, Each, HasItsFile, Others
    <3> QED
      BY <3>1, <3>2
  <2> QED
    BY <2>1, <2>2 DEF Each
<1> QED
  BY <1>1, <1>2, <1>3, <1>4, <1>5 DEF IInv

(* Publishing or reviewing: a row is put at the request's version, which is *)
(* that of its own row or the next of the slot.                             *)
LEMMA PutRowStep ==
    ASSUME IInv, NEW r \in Requests, Others(r),
           NEW row \in Row, row.content = r,
           docs' = [docs EXCEPT ![req[r].slot] =
                       Put(@, req[r].version, row)],
           files' = files, apps' = apps, req' \in [Requests -> Request],
           req'[r].version = req[r].version,
           req'[r].attempt = req[r].attempt,
           \/ /\ req[r].pc = "commit" /\ req'[r].pc = "review"
              /\ req[r].version \notin DOMAIN docs[req[r].slot]
              /\ row.claim = "null" /\ row.ats = "null"
           \/ /\ req[r].pc = "review" /\ req'[r].pc = "ok"
              /\ row.claim # "null"
    PROVE  IInv'
<1> USE DEF At, Slot, Version
<1> DEFINE old == docs[req[r].slot]
<1> DEFINE new == docs'[req[r].slot]
<1> DEFINE n == Count(req[r].slot)
<1>a. req[r] \in Request /\ req[r].slot \in Slots /\ req[r].version \in Nat
  BY DEF IInv, TypeOK, Request
<1>b. /\ new = Put(old, req[r].version, row)
      /\ \A s \in Slots \ {req[r].slot} : docs'[s] = docs[s]
  BY <1>a DEF IInv, TypeOK
<1>c. /\ DOMAIN new = DOMAIN old \cup {req[r].version}
      /\ new[req[r].version] = row
      /\ \A v \in DOMAIN old \ {req[r].version} : new[v] = old[v]
  BY <1>b DEF Put
<1>d. n \in Nat /\ DOMAIN old = 1..n
  BY <1>a DEF IInv, Counted, VersionsContiguous, Count
<1>e. \E m \in Nat : /\ n <= m /\ DOMAIN new = 1..m /\ Cardinality(1..m) = m
                    /\ req[r].version <= m
  <2>1. CASE req[r].pc = "commit"
    <3>1. req[r].version = n + 1
      BY <1>d, <2>1 DEF IInv, Each, Numbers
    <3>2. DOMAIN new = 1..n \cup {n + 1}
      BY <1>c, <1>d, <3>1
    <3>3. DOMAIN new = 1..(n + 1)
      BY <1>d, <3>2, IntervalNext
    <3> QED
      BY <1>d, <3>1, <3>3, CountOfInterval
  <2>2. CASE req[r].pc = "review"
    <3>1. req[r].version \in DOMAIN old
      BY <2>2 DEF IInv, Each, OwnRow
    <3>2. DOMAIN new = 1..n
      BY <1>c, <1>d, <3>1
    <3> QED
      BY <1>d, <3>1, <3>2, CountOfInterval
  <2> QED
    BY <2>1, <2>2
<1>f. PICK m \in Nat : /\ n <= m /\ DOMAIN new = 1..m
                      /\ Cardinality(DOMAIN new) = m /\ req[r].version <= m
  BY <1>e
<1>g. \A s \in Slots : /\ DOMAIN docs[s] \subseteq DOMAIN docs'[s]
                      /\ Count(s)' \in Nat /\ Count(s) <= Count(s)'
                      /\ DOMAIN docs'[s] = 1..Count(s)'
  <2> SUFFICES ASSUME NEW s \in Slots
               PROVE  /\ DOMAIN docs[s] \subseteq DOMAIN docs'[s]
                      /\ Count(s)' \in Nat /\ Count(s) <= Count(s)'
                      /\ DOMAIN docs'[s] = 1..Count(s)'
    OBVIOUS
  <2>1. CASE s = req[r].slot
    BY <2>1, <1>c, <1>d, <1>f DEF Count
  <2>2. CASE s # req[r].slot
    BY <2>2, <1>b DEF IInv, Counted, VersionsContiguous, Count
  <2> QED
    BY <2>1, <2>2
<1>1. TypeOK'
  <2>1. DOMAIN old \subseteq Nat /\ old \in [DOMAIN old -> Row]
    BY <1>a DEF IInv, TypeOK
  <2>2. DOMAIN new \subseteq Nat /\ new \in [DOMAIN new -> Row]
    BY <1>a, <1>b, <2>1 DEF Put
  <2>3. docs' = [s \in Slots |-> docs'[s]]
    BY DEF IInv, TypeOK
  <2> QED
    BY <1>b, <2>2, <2>3 DEF IInv, TypeOK
<1>2. Counted' /\ VersionsContiguous'
  BY <1>g DEF Counted, VersionsContiguous, Count
<1>3. RowHasFile'
  <2>1. req[r].version \in DOMAIN files[req[r].slot]
    BY <1>a DEF IInv, Each, HasItsFile, OwnRow, RowHasFile
  <2> QED
    BY <1>b, <1>c, <2>1 DEF IInv, RowHasFile
<1>4. OneApplicationPerJob'
  <2>1. HasApplication(JobOf(req[r].slot))
    BY DEF IInv, Each, HasItsApplication, NoApplicationYet
  <2> QED
    BY <1>b, <2>1 DEF IInv, OneApplicationPerJob, HasApplication
<1>5. FileAuthor'
  <2> SUFFICES ASSUME NEW s \in Slots, NEW v \in DOMAIN files[s]
               PROVE  Wrote(files[s][v], s, v)'
    BY DEF FileAuthor, Wrote
  <2>1. files[s][v] \in Requests /\ Wrote(files[s][v], s, v)
    BY DEF IInv, TypeOK, FileAuthor
  <2>2. CASE files[s][v] # r
    BY <2>1, <2>2 DEF Wrote, Others
  <2>3. CASE files[s][v] = r
    BY <2>1, <2>3 DEF Wrote, Others
  <2> QED
    BY <2>2, <2>3
<1>6. ASSUME NEW q \in Requests PROVE Each(q)'
  <2>A. req[q].slot \in Slots /\ req[q] \in Request
    BY DEF IInv, TypeOK, Request
  <2>1. HasItsApplication(q)' /\ HasItsFile(q)'
    BY DEF IInv, Each, HasItsApplication, HasApplication, HasItsFile, Others,
       NoApplicationYet
  <2>2. CASE q = r
    <3>1. Numbers(r)'
      BY DEF Numbers, Others
    <3>2. OwnRow(r)'
      <4>1. /\ req[r].version \in DOMAIN new
            /\ new[req[r].version] = row
        BY <1>c
      <4> QED
        BY <4>1 DEF OwnRow, Others, Unpublished
    <3> QED
      BY <2>1, <2>2, <3>1, <3>2 DEF Each
  <2>3. CASE q # r
    <3>a. req'[q] = req[q]
      BY <2>3 DEF Others
    <3>1. Numbers(q)'
      <4>1. /\ Count(req[q].slot) \in Nat /\ Count(req[q].slot)' \in Nat
            /\ Count(req[q].slot) <= Count(req[q].slot)'
            /\ req[q].attempt \in Nat /\ req[q].version \in Nat
        BY <1>g, <2>A, <3>a, MaxAttemptsAssumption, SMTT(30)
           DEF IInv, Counted, Request, Count
      <4> QED
        BY <3>a, <4>1, MaxAttemptsAssumption DEF IInv, Each, Numbers
    <3>2. OwnRow(q)'
      <4>1. CASE req[q].slot # req[r].slot
        <5>1. docs'[req[q].slot] = docs[req[q].slot]
          BY <2>A, <4>1, <1>b
        <5>2. OwnRow(q)
          BY <2>A DEF IInv, Each
        <5> QED
          BY <3>a, <5>1, <5>2 DEF OwnRow
      <4>2. CASE req[q].slot = req[r].slot
        <5>1. docs'[req[q].slot] = new
          BY <4>2
        <5>2. ASSUME req[q].pc \in Unpublished,
                     NEW v \in DOMAIN new
              PROVE  new[v].content # q
          BY <5>2, <4>2, <2>3, <1>c DEF IInv, Each, OwnRow
        <5>3. ASSUME req[q].pc \in {"review", "ok"}
              PROVE  /\ req[q].version \in DOMAIN new
                     /\ new[req[q].version] = old[req[q].version]
          <6>1. /\ req[q].version \in DOMAIN old
                /\ old[req[q].version].content = q
            BY <5>3, <4>2 DEF IInv, Each, OwnRow
          <6>2. req[q].version # req[r].version
            BY <6>1, <2>3 DEF IInv, Each, OwnRow
          <6> QED
            BY <6>1, <6>2, <1>c
        <5> QED
          <6>1. OwnRow(q)
            BY <2>A DEF IInv, Each
          <6> QED
            BY <5>1, <5>2, <5>3, <4>2, <3>a, <6>1 DEF OwnRow
      <4> QED
        BY <4>1, <4>2
    <3> QED
      BY <2>1, <3>1, <3>2 DEF Each
  <2> QED
    BY <2>2, <2>3
<1> QED
  BY <1>1, <1>2, <1>3, <1>4, <1>5, <1>6 DEF IInv

(* Every step preserves the strengthened invariant.                         *)
LEMMA IInvStep == IInv /\ [Next]_vars => IInv'
<1> SUFFICES ASSUME IInv, [Next]_vars PROVE IInv'
  OBVIOUS
<1> USE DEF At, Slot, Version
<1>a. \A r \in Requests : /\ req[r] \in Request /\ req[r].slot \in Slots
                          /\ req[r].attempt \in 1..MaxAttempts
                          /\ JobOf(req[r].slot) \in Jobs
  BY DEF IInv, TypeOK, Request, Slots, JobOf
<1>b. apps \subseteq [job : Jobs, by : Requests]
      /\ \A a, b \in apps : a.job = b.job => a = b
  BY DEF IInv, TypeOK, OneApplicationPerJob
<1>c. ASSUME NEW r \in Requests, NEW pc \in {"new"} \cup Live \cup Ended,
             Go(r, pc)
      PROVE  /\ Others(r) /\ req' \in [Requests -> Request]
             /\ req'[r].pc = pc /\ req'[r].version = req[r].version
             /\ req'[r].attempt = req[r].attempt
  BY <1>a, <1>c DEF Go, Others, Request, IInv, TypeOK
<1>1. ASSUME NEW r \in Requests, Generate(r) \/ ApplyEdit(r) PROVE IInv'
  <2>1. /\ Go(r, "find") /\ req[r].pc = "new"
        /\ docs' = docs /\ files' = files /\ apps' = apps
    BY <1>1 DEF Generate, ApplyEdit
  <2>2. /\ Others(r) /\ req' \in [Requests -> Request]
        /\ req'[r].pc = "find" /\ req'[r].attempt = req[r].attempt
    BY <2>1, <1>c DEF Live
  <2>3. Numbers(r)' /\ HasItsApplication(r)'
    BY <2>1, <2>2 DEF IInv, Each, Numbers, HasItsApplication, NoApplicationYet
  <2> QED
    BY <2>1, <2>2, <2>3, <1>a, <1>b, QuietStep DEF AppsGrow, Ended
<1>2. ASSUME NEW r \in Requests, FindApplication(r) \/ RequeryApplication(r)
      PROVE  IInv'
  <2>1. PICK pc \in {"count", "insert", "error"} :
          /\ Go(r, pc) /\ req[r].pc \in {"find", "requery"}
          /\ docs' = docs /\ files' = files /\ apps' = apps
          /\ pc = "count" => HasApplication(JobOf(req[r].slot))
    BY <1>2 DEF FindApplication, RequeryApplication
  <2>2. /\ Others(r) /\ req' \in [Requests -> Request]
        /\ req'[r].pc = pc /\ req'[r].attempt = req[r].attempt
    BY <2>1, <1>c DEF Live, Ended
  <2>3. HasItsApplication(r)'
    BY <2>1, <2>2 DEF HasItsApplication, HasApplication, NoApplicationYet, Others
  <2>4. Numbers(r)'
    <3>1. req[r].attempt = 1 /\ Count(req[r].slot) \in Nat
      BY <2>1, <1>a DEF IInv, Each, Numbers, Counted
    <3> QED
      BY <2>1, <2>2, <3>1 DEF Numbers, Count, Others
  <2> QED
    BY <2>1, <2>2, <2>3, <2>4, <1>a, <1>b, QuietStep DEF AppsGrow, Ended
<1>3. ASSUME NEW r \in Requests, InsertApplication(r) PROVE IInv'
  <2>1. PICK pc \in {"count", "requery"} : Go(r, pc)
    BY <1>3 DEF InsertApplication
  <2>2. /\ Others(r) /\ req' \in [Requests -> Request] /\ req[r].pc = "insert"
        /\ req'[r].pc = pc /\ req'[r].attempt = req[r].attempt
        /\ docs' = docs /\ files' = files
    BY <2>1, <1>3, <1>c DEF Live, Ended, InsertApplication
  <2>3. /\ AppsGrow /\ apps' \subseteq [job : Jobs, by : Requests]
        /\ pc = "count" => HasApplication(JobOf(req[r].slot))'
    <3>1. CASE HasApplication(JobOf(req[r].slot))
      <4>1. apps' = apps /\ pc = "requery"
        BY <1>3, <3>1, <2>2, <1>a
           DEF InsertApplication, Go, IInv, TypeOK, Request
      <4> QED
        BY <4>1, <1>b DEF AppsGrow
    <3>2. CASE ~HasApplication(JobOf(req[r].slot))
      <4>1. apps' = apps \cup {[job |-> JobOf(req[r].slot), by |-> r]}
        BY <1>3, <3>2 DEF InsertApplication
      <4>2. AppsGrow
        BY <4>1, <3>2, <1>b DEF AppsGrow, HasApplication
      <4>3. req'[r].slot = req[r].slot
        BY <2>2 DEF Others
      <4>4. \E a \in apps' : a.job = JobOf(req[r].slot)
        <5>1. [job |-> JobOf(req[r].slot), by |-> r] \in apps'
          BY <4>1
        <5> QED
          BY <5>1
      <4> QED
        BY <4>1, <4>2, <4>3, <4>4, <1>a, <1>b DEF HasApplication, JobOf
    <3> QED
      BY <3>1, <3>2
  <2>4. HasItsApplication(r)'
    BY <2>2, <2>3 DEF HasItsApplication, NoApplicationYet, HasApplication,
       Others, JobOf
  <2>5. Numbers(r)'
    <3>1. req[r].attempt = 1 /\ Count(req[r].slot) \in Nat
      BY <2>2, <1>a DEF IInv, Each, Numbers, Counted
    <3> QED
      BY <2>2, <3>1 DEF Numbers, Count, Others
  <2> QED
    BY <2>2, <2>3, <2>4, <2>5, <1>a, QuietStep DEF Ended
<1>4. ASSUME NEW r \in Requests, CountVersions(r) PROVE IInv'
  <2>A. Count(req[r].slot) \in Nat /\ NextVersion(req[r].slot) = Count(req[r].slot) + 1
    BY <1>a DEF IInv, Counted, Count, NextVersion
  <2>B. [req[r] EXCEPT !.pc = "write", !.version = NextVersion(req[r].slot)]
          \in Request
    <3>1. NextVersion(req[r].slot) \in Nat
      BY <2>A
    <3> QED
      BY <3>1, <1>a DEF Request, Live
  <2>1. /\ Others(r) /\ req' \in [Requests -> Request] /\ req[r].pc = "count"
        /\ req'[r].pc = "write" /\ req'[r].attempt = req[r].attempt
        /\ req'[r].version = Count(req[r].slot) + 1
        /\ docs' = docs /\ files' = files /\ apps' = apps
    BY <1>4, <1>a, <2>A, <2>B DEF CountVersions, Others, IInv, TypeOK, Request
  <2>2. Numbers(r)'
    <3>1. req[r].attempt <= Count(req[r].slot) + 1
      BY <2>1 DEF IInv, Each, Numbers
    <3> QED
      BY <2>1, <2>A, <3>1 DEF Numbers, Count, Others
  <2>3. HasItsApplication(r)'
    BY <2>1 DEF IInv, Each, HasItsApplication, HasApplication,
       NoApplicationYet, Others
  <2> QED
    BY <2>1, <2>2, <2>3, <1>a, <1>b, QuietStep DEF AppsGrow, Ended
<1>5. ASSUME NEW r \in Requests, WriteFile(r) PROVE IInv'
  BY <1>5, WriteStep
<1>6. ASSUME NEW r \in Requests, CommitDocument(r) PROVE IInv'
  <2>1. /\ Others(r) /\ req' \in [Requests -> Request]
        /\ req'[r].pc = "review" /\ req'[r].version = req[r].version
        /\ req'[r].attempt = req[r].attempt
    BY <1>6, <1>c DEF CommitDocument, Live
  <2>2. [content |-> r, claim |-> "null", ats |-> "null"] \in Row
    BY FlagsAssumption DEF Row, Outcomes
  <2> QED
    BY <1>6, <2>1, <2>2, PutRowStep DEF CommitDocument
<1>7. ASSUME NEW r \in Requests, Collide(r) PROVE IInv'
  <2>A. /\ req[r].pc = "commit" /\ req[r].version \in DOMAIN docs[req[r].slot]
        /\ docs' = docs /\ files' = files /\ apps' = apps
    BY <1>7 DEF Collide
  <2>B. /\ Count(req[r].slot) \in Nat /\ req[r].version \in Nat
        /\ req[r].attempt <= req[r].version
        /\ req[r].version <= Count(req[r].slot)
    BY <2>A, <1>a DEF IInv, Counted, Each, Numbers, VersionsContiguous, Count,
       Request
  <2>1. CASE req[r].attempt = MaxAttempts /\ Go(r, "collided")
    <3>1. /\ Others(r) /\ req' \in [Requests -> Request]
          /\ req'[r].pc = "collided" /\ req'[r].attempt = req[r].attempt
      BY <2>1, <1>c DEF Ended
    <3>2. Numbers(r)'
      BY <2>A, <2>B, <2>1, <3>1, MaxAttemptsAssumption
         DEF Numbers, Count, Others
    <3>3. HasItsApplication(r)'
      BY <2>A, <3>1 DEF IInv, Each, HasItsApplication, HasApplication,
         NoApplicationYet, Others
    <3> QED
      BY <2>A, <3>1, <3>2, <3>3, <1>a, <1>b, QuietStep DEF AppsGrow, Ended
  <2>2. CASE /\ req[r].attempt # MaxAttempts
             /\ req' = [req EXCEPT ![r] = [@ EXCEPT !.pc = "count",
                                                    !.attempt = req[r].attempt + 1]]
    <3>b. req[r].attempt + 1 \in 1..MaxAttempts
      BY <2>2, <1>a, MaxAttemptsAssumption
    <3>a. [req[r] EXCEPT !.pc = "count", !.attempt = req[r].attempt + 1]
            \in Request
      BY <3>b, <1>a DEF Request, Live
    <3>1. /\ Others(r) /\ req' \in [Requests -> Request]
          /\ req'[r].pc = "count" /\ req'[r].attempt = req[r].attempt + 1
      <4>1. req' = [req EXCEPT ![r] =
              [req[r] EXCEPT !.pc = "count", !.attempt = req[r].attempt + 1]]
        BY <2>2, <1>a
      <4> QED
        BY <4>1, <3>a, <1>a DEF Others, IInv, TypeOK, Request
    <3>2. Numbers(r)'
      BY <2>A, <2>B, <3>1, <1>a, MaxAttemptsAssumption
         DEF Numbers, Count, Others
    <3>3. HasItsApplication(r)'
      BY <2>A, <3>1 DEF IInv, Each, HasItsApplication, HasApplication,
         NoApplicationYet, Others
    <3>4. req[r].attempt <= req'[r].attempt /\ req'[r].attempt > 1
      BY <3>1, <1>a, MaxAttemptsAssumption
    <3> QED
      BY <2>A, <3>1, <3>2, <3>3, <3>4, <1>a, <1>b, QuietStep
         DEF AppsGrow, Ended
  <2> QED
    BY <1>7, <2>1, <2>2 DEF Collide
<1>8. ASSUME NEW r \in Requests, Review(r) PROVE IInv'
  <2>1. /\ Others(r) /\ req' \in [Requests -> Request]
        /\ req'[r].pc = "ok" /\ req'[r].version = req[r].version
        /\ req'[r].attempt = req[r].attempt
    BY <1>8, <1>c DEF Review, Ended
  <2>2. PICK claim \in Outcomes, ats \in Flags :
          docs' = [docs EXCEPT ![req[r].slot] =
                     Put(@, req[r].version,
                         [content |-> @[req[r].version].content,
                          claim |-> claim, ats |-> ats])]
    BY <1>8 DEF Review
  <2>3. docs[req[r].slot][req[r].version].content = r
    BY <1>8 DEF Review, IInv, Each, OwnRow
  <2>4. [content |-> r, claim |-> claim, ats |-> ats] \in Row
    BY FlagsAssumption DEF Row, Outcomes
  <2>5. docs' = [docs EXCEPT ![req[r].slot] =
                   Put(@, req[r].version,
                       [content |-> r, claim |-> claim, ats |-> ats])]
    BY <2>2, <2>3
  <2>6. claim # "null"
    BY DEF Outcomes
  <2> QED
    BY <1>8, <2>1, <2>4, <2>5, <2>6, PutRowStep DEF Review
<1>9. ASSUME NEW r \in Requests, Raise(r) PROVE IInv'
  <2>1. /\ Others(r) /\ req' \in [Requests -> Request] /\ req[r].pc \in Live
        /\ req'[r].pc = "error" /\ req'[r].attempt = req[r].attempt
        /\ docs' = docs /\ files' = files /\ apps' = apps
    BY <1>9, <1>c DEF Raise, Ended
  <2>2. Numbers(r)' /\ HasItsApplication(r)'
    BY <2>1 DEF Numbers, HasItsApplication, NoApplicationYet
  <2> QED
    BY <2>1, <2>2, <1>a, <1>b, QuietStep DEF AppsGrow, Live, Ended
<1>10. CASE UNCHANGED vars
  <2>1. (TypeOK /\ Counted /\ VersionsContiguous /\ RowHasFile)'
    BY <1>10 DEF vars, IInv, TypeOK, Counted, Count, VersionsContiguous,
       RowHasFile
  <2>2. OneApplicationPerJob' /\ FileAuthor'
    BY <1>10 DEF vars, IInv, OneApplicationPerJob, HasApplication, FileAuthor,
       Wrote
  <2>3. \A r \in Requests : Each(r)'
    BY <1>10 DEF vars, IInv, Each, Numbers, Count, OwnRow, HasItsApplication,
       HasApplication, HasItsFile
  <2> QED
    BY <2>1, <2>2, <2>3 DEF IInv
<1> QED
  BY <1>1, <1>2, <1>3, <1>4, <1>5, <1>6, <1>7, <1>8, <1>9, <1>10
     DEF Next, Continue

-----------------------------------------------------------------------------
(* The strengthened invariant, for every number of requests, jobs, document *)
(* types and attempts.                                                      *)
THEOREM Invariance == Spec => []IInv
<1>1. Init => IInv
  BY IInvInit
<1>2. IInv /\ [Next]_vars => IInv'
  BY IInvStep
<1> QED
  BY <1>1, <1>2, PTL DEF Spec

(* The tables, the directory and the requests keep their types.             *)
THEOREM TypeCorrect == Spec => []TypeOK
<1>1. IInv => TypeOK
  BY DEF IInv
<1> QED
  BY <1>1, Invariance, PTL

(* A job never gets a second application, nor a document without one.       *)
THEOREM AlwaysOneApplication == Spec => []OneApplicationPerJob
<1>1. IInv => OneApplicationPerJob
  BY DEF IInv
<1> QED
  BY <1>1, Invariance, PTL

(* Counting versions never skips or reuses one.                             *)
THEOREM VersionsAlwaysContiguous == Spec => []VersionsContiguous
<1>1. IInv => VersionsContiguous
  BY DEF IInv
<1> QED
  BY <1>1, Invariance, PTL

(* Every row's file is on disk.                                             *)
THEOREM RowsAlwaysHaveFiles == Spec => []RowHasFile
<1>1. IInv => RowHasFile
  BY DEF IInv
<1> QED
  BY <1>1, Invariance, PTL

(* A request gives up on collisions only behind MaxAttempts rivals' rows.   *)
THEOREM CollisionsAlwaysNeedRivals == Spec => []CollisionsNeedRivals
<1>1. IInv => CollisionsNeedRivals
  <2> SUFFICES ASSUME IInv, NEW r \in Requests, At(r, "collided")
               PROVE  Cardinality({v \in DOMAIN docs[Slot(r)] :
                          docs[Slot(r)][v].content # r}) >= MaxAttempts
    BY DEF CollisionsNeedRivals
  <2>1. {v \in DOMAIN docs[Slot(r)] : docs[Slot(r)][v].content # r}
          = DOMAIN docs[Slot(r)]
    BY DEF IInv, Each, OwnRow, Unpublished, At
  <2>2. MaxAttempts <= Count(Slot(r)) /\ Count(Slot(r)) \in Nat
    BY DEF IInv, Each, Numbers, Counted, TypeOK, Request, Slot
  <2> QED
    BY <2>1, <2>2, MaxAttemptsAssumption DEF Count
<1> QED
  BY <1>1, Invariance, PTL

(* Only a request that lost the version, or failed, leaves its text in the  *)
(* file of another request's row.                                           *)
THEOREM OnlyLosersEverClobber == Spec => []OnlyLosersClobber
<1>1. IInv => OnlyLosersClobber
  <2> SUFFICES ASSUME IInv, NEW s \in Slots, NEW v \in DOMAIN docs[s],
                      docs[s][v].content # files[s][v]
               PROVE  LET u == files[s][v] IN
                        \/ At(u, "commit") /\ Version(u) = v
                        \/ At(u, "error")
                        \/ req[u].attempt > 1
                        \/ At(u, "collided")
    BY DEF OnlyLosersClobber
  <2>1. v \in DOMAIN files[s]
    BY DEF IInv, RowHasFile
  <2>2. files[s][v] \in Requests /\ Wrote(files[s][v], s, v)
    BY <2>1 DEF IInv, TypeOK, FileAuthor
  <2>3. ~(req[files[s][v]].pc \in {"review", "ok"} /\ Version(files[s][v]) = v)
    BY <2>2 DEF IInv, Each, OwnRow, Wrote
  <2> QED
    BY <2>2, <2>3 DEF Wrote, At
<1> QED
  BY <1>1, Invariance, PTL

(* A request is answered 200 only with its own, reviewed row.               *)
THEOREM OkAlwaysMeansReviewed == Spec => []OkMeansReviewed
<1>1. IInv => OkMeansReviewed
  BY DEF IInv, Each, OwnRow, OkMeansReviewed, At
<1> QED
  BY <1>1, Invariance, PTL

-----------------------------------------------------------------------------
(* A row as an entry of the log.                                            *)
Entry(row) == [content |-> row.content, review |-> <<row.claim, row.ats>>]

LogOf == [s \in Slots |-> [v \in 1..Count(s) |-> Entry(docs[s][v])]]

(* Appending to a sequence extends it as a function.                        *)
LEMMA AppendExtends ==
    ASSUME NEW T, NEW n \in Nat, NEW f \in [1..n -> T], NEW e \in T
    PROVE  Append(f, e) = [i \in 1..(n + 1) |-> IF i = n + 1 THEN e ELSE f[i]]
<1> DEFINE g == Append(f, e)
<1>1. f \in Seq(T) /\ Len(f) = n
  OBVIOUS
<1>2. g \in Seq(T) /\ Len(g) = n + 1
  BY <1>1
<1>3. \A i \in 1..(n + 1) : g[i] = IF i = n + 1 THEN e ELSE f[i]
  BY <1>1
<1> HIDE DEF g
<1>4. g \in [1..(n + 1) -> T]
  BY <1>2
<1>5. g = [i \in 1..(n + 1) |-> IF i = n + 1 THEN e ELSE f[i]]
  BY <1>3, <1>4
<1> QED
  BY <1>5 DEF g

(* Putting a row at the next version appends to the slot's log; putting one *)
(* at a version it has replaces that entry.                                 *)
LEMMA PutInLog ==
    ASSUME IInv, IInv', NEW s \in Slots, NEW v \in Nat, NEW row \in Row,
           docs' = [docs EXCEPT ![s] = Put(@, v, row)]
    PROVE  /\ v \notin DOMAIN docs[s] =>
                 LogOf' = [LogOf EXCEPT ![s] = Append(@, Entry(row))]
           /\ v \in DOMAIN docs[s] =>
                 LogOf' = [LogOf EXCEPT ![s] = [@ EXCEPT ![v] = Entry(row)]]
<1> DEFINE n == Count(s)
<1> DEFINE m == Count(s)'
<1> DEFINE Entries == [content : Requests, review : Flags \X Flags]
<1>1. /\ n \in Nat /\ m \in Nat
      /\ DOMAIN docs[s] = 1..n /\ DOMAIN docs'[s] = 1..m
  BY DEF IInv, Counted, VersionsContiguous, Count
<1>2. /\ docs'[s] = Put(docs[s], v, row)
      /\ \A t \in Slots \ {s} : docs'[t] = docs[t]
  BY DEF IInv, TypeOK
<1>3. /\ DOMAIN docs'[s] = DOMAIN docs[s] \cup {v}
      /\ \A i \in DOMAIN docs'[s] :
            docs'[s][i] = IF i = v THEN row ELSE docs[s][i]
  BY <1>2 DEF Put
<1>4. \A t \in Slots \ {s} : LogOf'[t] = LogOf[t]
  BY <1>2 DEF LogOf, Count
<1>5. /\ LogOf[s] = [i \in 1..n |-> Entry(docs[s][i])]
      /\ LogOf'[s] = [i \in 1..m |->
                         IF i = v THEN Entry(row) ELSE Entry(docs[s][i])]
  <2>1. LogOf'[s] = [i \in 1..m |-> Entry(docs'[s][i])]
    BY DEF LogOf, Entry
  <2> QED
    BY <1>1, <1>3, <2>1 DEF LogOf, Entry
<1>6. LogOf' = [t \in Slots |-> LogOf'[t]] /\ LogOf = [t \in Slots |-> LogOf[t]]
  BY DEF LogOf
<1>7. ASSUME v \notin DOMAIN docs[s]
      PROVE  LogOf' = [LogOf EXCEPT ![s] = Append(@, Entry(row))]
  <2>1. 1..m = 1..n \cup {v} /\ v \notin 1..n
    BY <1>1, <1>3, <1>7
  <2>2. v = n + 1 /\ m = n + 1
    <3>1. v \in 1..m /\ v > n
      BY <1>1, <2>1
    <3>2. n + 1 \in 1..m /\ m \in 1..m
      BY <1>1, <3>1
    <3>3. n + 1 = v /\ m = v
      BY <1>1, <2>1, <3>1, <3>2
    <3> QED
      BY <3>3
  <2>3. LogOf[s] \in [1..n -> Entries] /\ Entry(row) \in Entries
    BY <1>1, <1>5 DEF IInv, TypeOK, Row, Entry
  <2>4. Append(LogOf[s], Entry(row))
          = [i \in 1..(n + 1) |-> IF i = n + 1 THEN Entry(row)
                                              ELSE LogOf[s][i]]
    BY <1>1, <2>3, AppendExtends
  <2>5. LogOf'[s] = Append(LogOf[s], Entry(row))
    BY <1>1, <1>5, <2>2, <2>4
  <2> QED
    BY <1>4, <1>6, <2>5
<1>8. ASSUME v \in DOMAIN docs[s]
      PROVE  LogOf' = [LogOf EXCEPT ![s] = [@ EXCEPT ![v] = Entry(row)]]
  <2>1. 1..m = 1..n
    BY <1>1, <1>3, <1>8
  <2>2. LogOf'[s] = [LogOf[s] EXCEPT ![v] = Entry(row)]
    BY <1>5, <2>1
  <2> QED
    BY <1>4, <1>6, <2>2
<1> QED
  BY <1>7, <1>8

(* Document generation implements the append-only log: a commit publishes   *)
(* the next version, a review records the first outcome, and every other    *)
(* step leaves the log alone.                                               *)
THEOREM Implements == Spec => ImplementsVersionLog
<1> DEFINE log == [s \in Slots |->
              [v \in 1..Cardinality(DOMAIN docs[s]) |->
                 [content |-> docs[s][v].content,
                  review |-> <<docs[s][v].claim, docs[s][v].ats>>]]]
<1>a. log = LogOf
  BY DEF LogOf, Count, Entry
<1>b. log' = LogOf'
  BY DEF LogOf, Count, Entry
<1>1. Init => Log!Init
  <2> SUFFICES ASSUME Init PROVE LogOf = [s \in Slots |-> << >>]
    BY <1>a DEF Log!Init
  <2>1. ASSUME NEW s \in Slots
        PROVE  [v \in 1..Count(s) |-> Entry(docs[s][v])] = << >>
    <3>1. Count(s) = 0
      BY FS_EmptySet DEF Init, Count
    <3>2. 1..Count(s) = {}
      BY <3>1
    <3> QED
      BY <3>2
  <2> QED
    BY <2>1 DEF LogOf
<1>2. IInv /\ IInv' /\ [Next]_vars => [Log!Next]_log
  <2> SUFFICES ASSUME IInv, IInv', [Next]_vars
               PROVE  Log!Next \/ LogOf' = LogOf
    BY <1>a, <1>b
  <2>1. CASE docs' = docs
    BY <2>1 DEF LogOf, Count
  <2>2. ASSUME NEW r \in Requests, CommitDocument(r) PROVE Log!Next
    <3> DEFINE row == [content |-> r, claim |-> "null", ats |-> "null"]
    <3>1. PICK s \in Slots : s = req[r].slot
      BY DEF IInv, TypeOK, Request
    <3>2. PICK v \in Nat : v = req[r].version
      BY DEF IInv, TypeOK, Request
    <3>3. /\ row \in Row /\ v \notin DOMAIN docs[s]
          /\ docs' = [docs EXCEPT ![s] = Put(@, v, row)]
      BY <2>2, <3>1, <3>2, FlagsAssumption
         DEF CommitDocument, Slot, Version, Row
    <3>4. LogOf' = [LogOf EXCEPT ![s] = Append(@, Entry(row))]
      BY <3>3, PutInLog
    <3>5. Log!Publish(s, r)
      BY <3>4, <1>a, <1>b DEF Log!Publish, Entry
    <3> QED
      BY <3>5 DEF Log!Next
  <2>3. ASSUME NEW r \in Requests, Review(r) PROVE Log!Next
    <3>1. PICK s \in Slots : s = req[r].slot
      BY DEF IInv, TypeOK, Request
    <3>2. PICK v \in Nat : v = req[r].version
      BY DEF IInv, TypeOK, Request
    <3>3. PICK claim \in Outcomes, ats \in Flags :
            docs' = [docs EXCEPT ![s] =
                       Put(@, v, [content |-> @[v].content,
                                  claim |-> claim, ats |-> ats])]
      BY <2>3, <3>1, <3>2 DEF Review, Slot, Version
    <3> DEFINE row == [content |-> r, claim |-> claim, ats |-> ats]
    <3>4. /\ row \in Row
          /\ v \in DOMAIN docs[s] /\ docs[s][v].content = r
          /\ docs[s][v].claim = "null" /\ docs[s][v].ats = "null"
      BY <2>3, <3>1, <3>2
         DEF Review, At, Slot, Version, IInv, Each, OwnRow, Row, Outcomes
    <3>5. docs' = [docs EXCEPT ![s] = Put(@, v, row)]
      BY <3>3, <3>4
    <3>6. LogOf' = [LogOf EXCEPT ![s] = [@ EXCEPT ![v] = Entry(row)]]
      BY <3>4, <3>5, PutInLog, ZenonT(40)
    <3>7. /\ LogOf[s][v] = [content |-> r, review |-> <<"null", "null">>]
          /\ v \in DOMAIN LogOf[s]
      BY <3>4 DEF LogOf, Entry, IInv, VersionsContiguous, Count
    <3>8. [LogOf[s][v] EXCEPT !.review = <<claim, ats>>] = Entry(row)
      BY <3>7 DEF Entry
    <3>9. LogOf' = [LogOf EXCEPT ![s] = [LogOf[s] EXCEPT ![v] =
                       [LogOf[s][v] EXCEPT !.review = <<claim, ats>>]]]
      BY <3>6, <3>8
    <3>10. LogOf' = [LogOf EXCEPT ![s][v].review = <<claim, ats>>]
      BY <3>9
    <3>11. Log!Review(s, v, <<claim, ats>>)
      BY <3>7, <3>10, <1>a, <1>b DEF Log!Review
    <3>12. <<claim, ats>> \in Outcomes \X Flags
      OBVIOUS
    <3>13. v \in DOMAIN log[s]
      BY <3>7, <1>a
    <3> QED
      BY <3>11, <3>12, <3>13 DEF Log!Next
  <2>4. CASE UNCHANGED docs
    BY <2>1, <2>4
  <2> QED
    BY <2>1, <2>2, <2>3 DEF Next, Continue, vars, Generate, ApplyEdit,
       FindApplication, InsertApplication, RequeryApplication, CountVersions,
       WriteFile, Collide, Raise
<1> QED
  BY <1>1, <1>2, Invariance, PTL DEF Spec, ImplementsVersionLog, Log!Spec

-----------------------------------------------------------------------------
(* The most steps a request has left: four for each attempt after this one, *)
(* and those of this one.                                                   *)
StepsToEnd ==
    [pc \in {"new"} \cup Live \cup Ended |->
        CASE pc = "new" -> 8 [] pc = "find" -> 7 [] pc = "insert" -> 6
          [] pc = "requery" -> 5 [] pc = "count" -> 4 [] pc = "write" -> 3
          [] pc = "commit" -> 2 [] pc = "review" -> 1 [] OTHER -> 0]
StepsLeft(r) == 4 * (MaxAttempts - req[r].attempt) + StepsToEnd[req[r].pc]

StepsBounded == \A r \in Requests : StepsLeft(r) \in 0..(4 * MaxAttempts + 4)

(* A step is one request's, and that has fewer left afterwards.             *)
OneRequestAdvances ==
    \E r \in Requests : /\ StepsLeft(r)' < StepsLeft(r)
                        /\ \A q \in Requests \ {r} : req'[q] = req[q]

LEMMA StepsLeftType == TypeOK => StepsBounded
<1> SUFFICES ASSUME TypeOK, NEW r \in Requests
             PROVE  StepsLeft(r) \in 0..(4 * MaxAttempts + 4)
  BY DEF StepsBounded
<1>1. /\ req[r].pc \in {"new"} \cup Live \cup Ended
      /\ req[r].attempt \in 1..MaxAttempts /\ MaxAttempts \in Nat
  BY MaxAttemptsAssumption DEF TypeOK, Request
<1>2. StepsToEnd[req[r].pc] \in 0..8
  BY <1>1 DEF StepsToEnd, Live, Ended
<1> QED
  BY <1>1, <1>2 DEF StepsLeft

(* The retry loop of persist_document() and everything around it: whatever  *)
(* the other requests do, a request is answered after 4 * MaxAttempts + 4   *)
(* steps of its own, for no step takes it back to one it made before but a  *)
(* collision, and that uses up an attempt.                                  *)
THEOREM RequestsTakeBoundedSteps ==
    Spec => []StepsBounded /\ [][OneRequestAdvances]_vars
<1>1. ASSUME TypeOK, TypeOK', Next PROVE OneRequestAdvances
  <2>1. PICK r \in Requests : Generate(r) \/ ApplyEdit(r) \/ Continue(r) \/ Raise(r)
    BY <1>1 DEF Next
  <2> DEFINE pc == req[r].pc
             new == req'[r].pc
             n == req[r].attempt
             n2 == req'[r].attempt
  <2>2. \A q \in Requests \ {r} : req'[q] = req[q]
    BY <1>1, <2>1 DEF TypeOK, Generate, ApplyEdit, Continue, Raise, Go,
       FindApplication, InsertApplication, RequeryApplication, CountVersions,
       WriteFile, CommitDocument, Collide, Review
  <2>3. \/ /\ n2 = n
           /\ \/ pc = "new" /\ new = "find"
              \/ pc = "find" /\ new \in {"insert", "count"}
              \/ pc = "insert" /\ new \in {"requery", "count"}
              \/ pc = "requery" /\ new \in {"count", "error"}
              \/ pc = "count" /\ new = "write"
              \/ pc = "write" /\ new = "commit"
              \/ pc = "commit" /\ new \in {"review", "collided"}
              \/ pc = "review" /\ new = "ok"
              \/ pc \in Live /\ new = "error"
        \/ n2 = n + 1 /\ pc = "commit" /\ new = "count"
    <3> USE DEF At, Go
    <3>0. req \in [Requests -> Request]
      BY <1>1 DEF TypeOK
    <3>1. CASE Generate(r) \/ ApplyEdit(r)
      BY <3>0, <3>1 DEF Generate, ApplyEdit, Request
    <3>2. CASE FindApplication(r) \/ InsertApplication(r) \/ RequeryApplication(r)
      BY <3>0, <3>2 DEF FindApplication, InsertApplication, RequeryApplication,
         Request
    <3>3. CASE CountVersions(r)
      BY <3>0, <3>3 DEF CountVersions, Request
    <3>4. CASE WriteFile(r) \/ CommitDocument(r) \/ Review(r)
      BY <3>0, <3>4 DEF WriteFile, CommitDocument, Review, Request
    <3>5. CASE Collide(r)
      <4>1. CASE n = MaxAttempts
        BY <3>0, <3>5, <4>1 DEF Collide, Request
      <4>2. CASE n # MaxAttempts
        <5>1. req' = [req EXCEPT ![r] = [@ EXCEPT !.pc = "count",
                                                  !.attempt = n + 1]]
          BY <3>5, <4>2 DEF Collide
        <5> QED
          BY <3>0, <3>5, <5>1 DEF Collide, Request
      <4> QED
        BY <4>1, <4>2
    <3>6. CASE Raise(r)
      BY <3>0, <3>6 DEF Raise, Request
    <3> QED
      BY <2>1, <3>1, <3>2, <3>3, <3>4, <3>5, <3>6 DEF Continue
  <2>4. n \in 1..MaxAttempts /\ n2 \in 1..MaxAttempts /\ MaxAttempts \in Nat
    BY <1>1, MaxAttemptsAssumption DEF TypeOK, Request
  <2> HIDE DEF pc, new, n, n2
  <2>5. 4 * (MaxAttempts - n2) + StepsToEnd[new]
           < 4 * (MaxAttempts - n) + StepsToEnd[pc]
    BY <2>3, <2>4 DEF StepsToEnd, Live, Ended
  <2>6. StepsLeft(r)' < StepsLeft(r)
    BY <2>5 DEF StepsLeft, pc, new, n, n2
  <2> QED
    BY <2>2, <2>6 DEF OneRequestAdvances
<1>2. UNCHANGED vars => [OneRequestAdvances]_vars
  OBVIOUS
<1> QED
  BY <1>1, StepsLeftType, TypeCorrect, PTL DEF Spec

-----------------------------------------------------------------------------
(* DocumentReview.  RowInv says what a verdict that is held, and one that   *)
(* is recorded, have to do with the words that came back; both properties   *)
(* then follow from the sizes that check_text_roundtrip() compares.         *)
Backed(v, ats) ==
    ats # "null" =>
        /\ text[v] \in Texts
        /\ ats = Flag(Survives(text[v], back[v]))

RowInv(v) ==
    /\ text[v] = NULL => ReviewAt(v, "none")
    /\ text[v] # NULL => file[v] \in Texts
    /\ review[v].pc \in {"none", "due"} => review[v].holds.ats = "null"
    /\ review[v].pc \in {"none", "due", "record"} => flag[v].ats = "null"
    /\ Backed(v, review[v].holds.ats)
    /\ Backed(v, flag[v].ats)

Reviewed == \A v \in Versions : RowInv(v)
ReviewInv == ReviewTypeOK /\ Reviewed

LEMMA VerdictTypes ==
    /\ Unchecked \in Verdict /\ Unchecked.ats = "null"
    /\ \A p \in BOOLEAN : Flag(p) \in {"passed", "failed"}
    /\ \A pc \in {"none", "due", "record", "done", "error"}, u \in Verdict :
          [pc |-> pc, holds |-> u] \in ReviewRequest
BY DEF Unchecked, Verdict, CheckFlags, Flag, ReviewRequest

(* A step of one version's request keeps the invariant if it keeps that     *)
(* version's part of it.                                                    *)
LEMMA VersionStep ==
    ASSUME ReviewInv, ReviewTypeOK', NEW v \in Versions, RowInv(v)',
           \A w \in Versions \ {v} :
              /\ text'[w] = text[w] /\ file'[w] = file[w]
              /\ flag'[w] = flag[w] /\ review'[w] = review[w]
              /\ back'[w] = back[w]
    PROVE  ReviewInv'
<1>1. ASSUME NEW w \in Versions \ {v} PROVE RowInv(w)'
  BY <1>1 DEF ReviewInv, Reviewed, RowInv, Backed, ReviewAt
<1> QED
  BY <1>1 DEF ReviewInv, Reviewed

LEMMA ReviewInvStep == ReviewInv /\ [ReviewNext]_reviewVars => ReviewInv'
<1> SUFFICES ASSUME ReviewInv, [ReviewNext]_reviewVars PROVE ReviewInv'
  OBVIOUS
<1>0. ReviewTypeOK /\ \A v \in Versions : RowInv(v)
  BY DEF ReviewInv, Reviewed
<1>1. CASE Prepare \/ Decide
  <2>1. ReviewTypeOK'
    BY <1>0, <1>1 DEF ReviewTypeOK, Prepare, Decide, Statuses
  <2>2. \A v \in Versions : RowInv(v)'
    BY <1>0, <1>1 DEF Prepare, Decide, RowInv, Backed, ReviewAt
  <2> QED
    BY <2>1, <2>2 DEF ReviewInv, Reviewed
<1>2. ASSUME NEW v \in Versions, NEW t \in Texts, Store(v, t) PROVE ReviewInv'
  <2>1. review' = [review EXCEPT ![v] = [pc |-> "due", holds |-> Unchecked]]
        /\ [pc |-> "due", holds |-> Unchecked] \in ReviewRequest
    BY <1>2, VerdictTypes DEF Store, Goes
  <2>2. ReviewTypeOK'
    BY <1>0, <1>2, <2>1 DEF ReviewTypeOK, Store
  <2>3. review'[v].pc = "due" /\ review'[v].holds = Unchecked
        /\ text'[v] = t /\ file'[v] = t /\ flag'[v] = flag[v]
    BY <1>0, <1>2, <2>1 DEF ReviewTypeOK, Store
  <2>4. RowInv(v)
    BY <1>0
  <2>5. flag[v].ats = "null"
    BY <1>2, <2>4 DEF Store, RowInv, ReviewAt
  <2>6. RowInv(v)'
    BY <2>3, <2>5, VerdictTypes, WordsAssumption DEF RowInv, Backed, ReviewAt
  <2> QED
    BY <1>0, <1>2, <2>1, <2>2, <2>6, VersionStep DEF Store, ReviewTypeOK
<1>3. ASSUME NEW v \in Versions, NEW t \in Texts, Clobber(v, t) PROVE ReviewInv'
  <2>1. ReviewTypeOK'
    BY <1>0, <1>3 DEF ReviewTypeOK, Clobber
  <2>2. file'[v] = t
    BY <1>0, <1>3 DEF ReviewTypeOK, Clobber
  <2>3. RowInv(v)'
    BY <1>0, <1>3, <2>2 DEF Clobber, RowInv, Backed, ReviewAt
  <2> QED
    BY <1>0, <1>3, <2>1, <2>3, VersionStep DEF Clobber, ReviewTypeOK
<1>4. ASSUME NEW v \in Versions, ReviewRaises(v) PROVE ReviewInv'
  <2>1. review' = [review EXCEPT ![v] = [pc |-> "error", holds |-> Unchecked]]
        /\ [pc |-> "error", holds |-> Unchecked] \in ReviewRequest
    BY <1>4, VerdictTypes DEF ReviewRaises, Goes
  <2>2. ReviewTypeOK'
    BY <1>0, <1>4, <2>1 DEF ReviewTypeOK, ReviewRaises
  <2>3. review'[v].pc = "error" /\ review'[v].holds = Unchecked
        /\ text[v] # NULL
    BY <1>0, <1>4, <2>1 DEF ReviewTypeOK, ReviewRaises, RowInv, ReviewAt
  <2>4. RowInv(v)'
    BY <1>0, <1>4, <2>3, VerdictTypes DEF ReviewRaises, RowInv, Backed, ReviewAt
  <2> QED
    BY <1>0, <1>4, <2>1, <2>2, <2>4, VersionStep DEF ReviewRaises, ReviewTypeOK
<1>5. ASSUME NEW v \in Versions, ReviewClaims(v) PROVE ReviewInv'
  <2>1. PICK verified \in BOOLEAN, blocked \in BOOLEAN :
           review' = [review EXCEPT ![v] =
              [pc |-> "record",
               holds |-> [claim |-> Flag(verified /\ ~blocked), ats |-> "null"]]]
    BY <1>5 DEF ReviewClaims, Goes
  <2> DEFINE u == [claim |-> Flag(verified /\ ~blocked), ats |-> "null"]
  <2>2. u \in Verdict /\ u.ats = "null"
    BY VerdictTypes DEF Verdict, CheckFlags
  <2> HIDE DEF u
  <2>3. ReviewTypeOK'
    BY <1>0, <1>5, <2>1, <2>2, VerdictTypes DEF ReviewTypeOK, ReviewClaims, u
  <2>4. review'[v].pc = "record" /\ review'[v].holds.ats = "null"
        /\ ReviewAt(v, "due")
    BY <1>0, <1>5, <2>1 DEF ReviewTypeOK, ReviewClaims
  <2>5. RowInv(v)'
    BY <1>0, <1>5, <2>4 DEF ReviewClaims, RowInv, Backed, ReviewAt
  <2> QED
    BY <1>0, <1>5, <2>1, <2>3, <2>5, VersionStep DEF ReviewClaims, ReviewTypeOK
<1>6. ASSUME NEW v \in Versions, ReviewBoth(v) PROVE ReviewInv'
  <2>1. PICK lost \in Losses, verified \in BOOLEAN, blocked \in BOOLEAN :
           /\ back' = [back EXCEPT ![v] = Docx(file[v]) \ lost]
           /\ Goes(v, "record",
                 [claim |-> Flag(verified /\ ~blocked),
                  ats |-> Flag(Survives(text[v], Docx(file[v]) \ lost))])
    BY <1>6 DEF ReviewBoth, Extracted
  <2> DEFINE words == Docx(file[v]) \ lost
             passed == Survives(text[v], words)
             u == [claim |-> Flag(verified /\ ~blocked), ats |-> Flag(passed)]
  <2>2. ReviewAt(v, "due") /\ text[v] \in Texts /\ file[v] \in Texts
    BY <1>0, <1>6 DEF ReviewBoth, ReviewTypeOK, RowInv, ReviewAt
  <2>3. words \subseteq Words
    BY <2>2, WordsAssumption DEF Docx
  <2>4. passed \in BOOLEAN
    BY DEF Survives
  <2>5. u \in Verdict /\ u.ats = Flag(passed)
    BY <2>4, VerdictTypes DEF Verdict, CheckFlags
  <2>6. review' = [review EXCEPT ![v] = [pc |-> "record", holds |-> u]]
        /\ back' = [back EXCEPT ![v] = words]
    BY <2>1 DEF Goes
  <2>7. back'[v] = words /\ review'[v].pc = "record" /\ review'[v].holds = u
    BY <1>0, <2>6 DEF ReviewTypeOK
  <2>8. u.ats = Flag(Survives(text'[v], back'[v]))
    BY <1>6, <2>5, <2>7 DEF ReviewBoth, Extracted
  <2> HIDE DEF u, words, passed
  <2>9. ReviewTypeOK'
    BY <1>0, <1>6, <2>3, <2>5, <2>6, VerdictTypes DEF ReviewTypeOK, ReviewBoth
  <2>10. RowInv(v)'
    BY <1>0, <1>6, <2>2, <2>7, <2>8, WordsAssumption
       DEF ReviewBoth, RowInv, Backed, ReviewAt
  <2> QED
    BY <1>0, <1>6, <2>6, <2>9, <2>10, VersionStep DEF ReviewBoth, ReviewTypeOK
<1>7. ASSUME NEW v \in Versions, Record(v) PROVE ReviewInv'
  <2> DEFINE u == review[v].holds
  <2>1. u \in Verdict
    BY <1>0 DEF ReviewTypeOK, ReviewRequest
  <2>2. /\ flag' = [flag EXCEPT ![v] = u]
        /\ review' = [review EXCEPT ![v] = [pc |-> "done", holds |-> u]]
    BY <1>7 DEF Record, Goes
  <2> HIDE DEF u
  <2>3. ReviewTypeOK'
    BY <1>0, <1>7, <2>1, <2>2, VerdictTypes DEF ReviewTypeOK, Record
  <2>4. flag'[v] = u /\ review'[v].pc = "done" /\ review'[v].holds = u
    BY <1>0, <2>2 DEF ReviewTypeOK
  <2>5. Backed(v, u.ats) /\ text[v] # NULL
    BY <1>0, <1>7 DEF RowInv, Record, ReviewAt, u
  <2>6. RowInv(v)'
    BY <1>0, <1>7, <2>4, <2>5 DEF Record, RowInv, Backed, ReviewAt
  <2> QED
    BY <1>0, <1>7, <2>2, <2>3, <2>6, VersionStep DEF Record, ReviewTypeOK
<1>8. CASE UNCHANGED reviewVars
  BY <1>8 DEF reviewVars, ReviewInv, ReviewTypeOK, Reviewed, RowInv, Backed,
              ReviewAt
<1> QED
  BY <1>1, <1>2, <1>3, <1>4, <1>5, <1>6, <1>7, <1>8 DEF ReviewNext

LEMMA ReviewInvariance == ReviewSpec => []ReviewInv
<1>1. ReviewInit => ReviewInv
  BY VerdictTypes DEF ReviewInit, ReviewInv, ReviewTypeOK, Reviewed, RowInv,
     Backed, ReviewAt, Statuses
<1> QED
  BY <1>1, ReviewInvStep, PTL DEF ReviewSpec

(* The documents, flags and reviews keep their types.                       *)
THEOREM ReviewTypeCorrect == ReviewSpec => []ReviewTypeOK
<1>1. ReviewInv => ReviewTypeOK
  BY DEF ReviewInv
<1> QED
  BY <1>1, ReviewInvariance, PTL

(* The sizes that a text's verdict compares are numbers, and grow with the  *)
(* sets.                                                                    *)
LEMMA Sizes ==
    ASSUME NEW t \in Texts, NEW words
    PROVE  /\ Cardinality(t.sections) \in Nat /\ Cardinality(t.words) \in Nat
           /\ Cardinality(t.words \ words) \in Nat
           /\ t.words \subseteq words => Cardinality(t.words \ words) = 0
<1>1. t.words \subseteq Words /\ t.sections \subseteq Words
      /\ t.words \ words \subseteq Words
  BY WordsAssumption
<1>2. IsFiniteSet(t.sections) /\ IsFiniteSet(t.words)
      /\ IsFiniteSet(t.words \ words)
  BY <1>1, WordsAssumption, FS_Subset
<1>3. t.words \subseteq words => t.words \ words = {}
  OBVIOUS
<1> QED
  BY <1>2, <1>3, FS_CardinalityType, FS_EmptySet

(* A recorded pass is of words that came back, or of words that contain     *)
(* them, whoever's file they are of.                                        *)
THEOREM PassesAreFaithful == ReviewSpec => []PassedIsFaithful
<1>1. ReviewInv => PassedIsFaithful
  <2> SUFFICES ASSUME ReviewInv, NEW v \in Versions, flag[v].ats = "passed"
               PROVE  /\ \A s \in Snippets(text[v]) \ back[v] :
                            \E w \in back[v] \ {s} : <<s, w>> \in Inside
                      /\ 10 * Cardinality(text[v].words \ back[v])
                            <= Cardinality(text[v].words)
    BY DEF PassedIsFaithful
  <2>1. text[v] \in Texts /\ Survives(text[v], back[v])
    BY DEF ReviewInv, Reviewed, RowInv, Backed, Flag
  <2> DEFINE k == Cardinality(text[v].sections)
             m == Cardinality(text[v].words)
             l == Cardinality(text[v].words \ back[v])
  <2>2. k \in Nat /\ m \in Nat /\ l \in Nat
    BY <2>1, Sizes
  <2>3. AllFound(text[v], back[v]) /\ 10 * (k + l) <= k + m
    BY <2>1 DEF Survives, Missing, SourceSize
  <2>4. ASSUME NEW s \in Snippets(text[v]) \ back[v]
        PROVE  \E w \in back[v] \ {s} : <<s, w>> \in Inside
    BY <2>3, <2>4 DEF AllFound, Found
  <2> HIDE DEF k, l, m
  <2>5. 10 * l <= m
    BY <2>2, <2>3
  <2> QED
    BY <2>4, <2>5 DEF l, m
<1> QED
  BY <1>1, ReviewInvariance, PTL

(* An untouched file passes exactly if it has nine words a section.         *)
THEOREM IntactVerdicts == ReviewSpec => []IntactVerdict
<1>1. ReviewInv => IntactVerdict
  <2> SUFFICES ASSUME ReviewInv, NEW v \in Versions, flag[v].ats # "null",
                      back[v] = Docx(text[v])
               PROVE  flag[v].ats = "passed"
                         <=> 9 * Cardinality(text[v].sections)
                                <= Cardinality(text[v].words)
    BY DEF IntactVerdict
  <2>1. text[v] \in Texts /\ flag[v].ats = Flag(Survives(text[v], back[v]))
    BY DEF ReviewInv, Reviewed, RowInv, Backed
  <2> DEFINE k == Cardinality(text[v].sections)
             m == Cardinality(text[v].words)
             l == Cardinality(text[v].words \ back[v])
  <2>2. text[v].words \subseteq back[v] /\ Snippets(text[v]) \subseteq back[v]
    BY DEF Docx, Snippets
  <2>3. Snippets(text[v]) \subseteq Words
    BY <2>1, WordsAssumption DEF Snippets
  <2>4. AllFound(text[v], back[v])
    BY <2>2, <2>3, WordsAssumption DEF AllFound, Found
  <2>5. k \in Nat /\ m \in Nat /\ l = 0
    BY <2>1, <2>2, Sizes
  <2>6. flag[v].ats = "passed" <=> 10 * (k + l) <= k + m
    BY <2>1, <2>4 DEF Survives, Missing, SourceSize, Flag
  <2> HIDE DEF k, l, m
  <2>7. 10 * (k + l) <= k + m <=> 9 * k <= m
    BY <2>5
  <2> QED
    BY <2>6, <2>7 DEF k, m
<1> QED
  BY <1>1, ReviewInvariance, PTL
=============================================================================
