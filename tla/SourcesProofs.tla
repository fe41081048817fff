---------------------------- MODULE SourcesProofs ----------------------------
(***************************************************************************)
(* Proofs about how the job sources are called and what their dates become: *)
(* BlockingCalls for any requests, companies, and sizes of the pool and of  *)
(* the executor, PostingDates for any postings, zones and length of a day.  *)
(*                                                                          *)
(* The executor's queue is a sequence, the pool a number of connections: to *)
(* compare them, the invariant keeps that the queue lists the calls that    *)
(* are queued, each once, and that a request holds a connection while a     *)
(* call of it is under way, of which it has two only in a message's search. *)
(*                                                                          *)
(* A date is wrong by what its source and its parser make of it, never by   *)
(* when and how it is saved: FaithfulWall is what is known of it from the   *)
(* search to the column, and the lists follow from that by arithmetic.      *)
(***************************************************************************)
EXTENDS BlockingCalls, PostingDates, TLAPS, FiniteSetTheorems, SequenceTheorems

Queued == {t \in Tasks : work[t] = "queued"}

(* A sequence lists a set's elements, each once.                            *)
Lists(q, set) ==
    /\ q \in Seq(Tasks) /\ set \subseteq Tasks
    /\ \A i \in 1..Len(q) : q[i] \in set
    /\ \A t \in set : \E i \in 1..Len(q) : q[i] = t
    /\ \A i, k \in 1..Len(q) : q[i] = q[k] => i = k
    /\ IsFiniteSet(set) /\ Cardinality(set) = Len(q)

QueueListsQueued == Lists(queue, Queued)

PoolBounds == IsFiniteSet(Holding) /\ Cardinality(Holding) <= Connections

(* What a fetch of the boards has and has still to do.                      *)
FetchesAll ==
    \A c \in Calls :
        /\ call[c].got = reachable \ call[c].todo
        /\ work[<<c, "boards">>] = "returned" => call[c].todo = {}

(* What a request can be doing, given its kind and stage: a call is under   *)
(* way only while it is awaited, two only while it searches, and a thread   *)
(* that is waited for has been started.                                     *)
UnderWay(t) == work[t] \in {"queued"} \cup InWorker
Fits(c) ==
    /\ call[c].pc = "new" => call[c].stage = "start"
    /\ call[c].pc \in {"asking", "open"} => call[c].stage \in {"start", "committed"}
    /\ call[c].pc = "awaiting" => call[c].stage \in {"call", "search", "summary"}
    /\ call[c].pc = "reviewing" => call[c].stage = "committed"
    /\ call[c].stage # "start" => call[c].kind # "short"
    /\ call[c].stage \in {"search", "summary"} => call[c].kind = "chat"
    /\ call[c].stage = "committed" => call[c].kind \in {"llm", "document", "chat"}
    /\ (call[c].pc = "awaiting" /\ call[c].stage # "search") => Main(c) # "idle"
    /\ \A p \in Parts : UnderWay(<<c, p>>) =>
          /\ call[c].pc = "awaiting"
          /\ IF call[c].stage = "search" THEN p \in {"scrape", "boards"}
                                         ELSE p = Part(call[c].kind)
    /\ work[<<c, "llm">>] \notin {"waiting", "joining"}
    /\ work[<<c, "boards">>] \notin {"waiting", "joining", "raised"}
    /\ work[<<c, "scrape">>] # "calling"
    /\ work[<<c, "scrape">>] \in {"waiting", "joining"} => call[c].site # "none"
CallsFit == \A c \in Calls : Fits(c)

IInv == TypeOK /\ QueueListsQueued /\ PoolBounds /\ FetchesAll /\ CallsFit

-----------------------------------------------------------------------------
(* submit() puts a call at the end of the queue.                            *)
LEMMA AppendLists ==
    ASSUME NEW q, NEW set, Lists(q, set), NEW t \in Tasks, t \notin set
    PROVE  Lists(Append(q, t), set \cup {t})
<1> DEFINE n == Append(q, t)
<1>1. /\ n \in Seq(Tasks) /\ Len(q) \in Nat /\ Len(n) = Len(q) + 1
      /\ n[Len(q) + 1] = t /\ \A i \in 1..Len(q) : n[i] = q[i]
  BY AppendProperties DEF Lists
<1> HIDE DEF n
<1>2. IsFiniteSet(set \cup {t}) /\ Cardinality(set \cup {t}) = Len(n)
  <2>1. IsFiniteSet(set) /\ Cardinality(set) = Len(q)
    BY DEF Lists
  <2>2. /\ IsFiniteSet(set \cup {t})
        /\ Cardinality(set \cup {t}) = Cardinality(set) + 1
    BY <2>1, FS_AddElement
  <2> QED
    BY <1>1, <2>1, <2>2
<1>3. \A i \in 1..Len(n) : i \in 1..Len(q) \/ i = Len(q) + 1
  BY <1>1
<1>4. 1..Len(q) \subseteq 1..Len(n) /\ Len(q) + 1 \in 1..Len(n)
  BY <1>1
<1>5. \A i \in 1..Len(n) : n[i] \in set \cup {t}
  BY <1>1, <1>3 DEF Lists
<1>6. \A u \in set \cup {t} : \E i \in 1..Len(n) : n[i] = u
  BY <1>1, <1>4 DEF Lists
<1>7. \A i, k \in 1..Len(n) : n[i] = n[k] => i = k
  BY <1>1, <1>3 DEF Lists
<1> QED
  BY <1>1, <1>2, <1>5, <1>6, <1>7 DEF Lists, n

(* A worker takes the oldest call.                                          *)
LEMMA TailLists ==
    ASSUME NEW q, NEW set, Lists(q, set), q # <<>>
    PROVE  Head(q) \in set /\ Lists(Tail(q), set \ {Head(q)})
<1> DEFINE n == Tail(q)
           t == Head(q)
<1>1. /\ n \in Seq(Tasks) /\ Len(q) \in Nat \ {0} /\ Len(n) = Len(q) - 1
      /\ t = q[1] /\ \A i \in 1..Len(n) : n[i] = q[i + 1]
  BY HeadTailProperties DEF Lists
<1>2. t \in set
  BY <1>1 DEF Lists
<1> HIDE DEF n, t
<1>3. IsFiniteSet(set \ {t}) /\ Cardinality(set \ {t}) = Len(n)
  <2>1. IsFiniteSet(set) /\ Cardinality(set) = Len(q)
    BY DEF Lists
  <2>2. IsFiniteSet(set \ {t})
        /\ Cardinality(set \ {t}) = Cardinality(set) - 1
    BY <1>2, <2>1, FS_RemoveElement
  <2> QED
    BY <1>1, <2>1, <2>2
<1>4. \A i \in 1..Len(n) : i + 1 \in 1..Len(q) /\ i + 1 # 1
  BY <1>1
<1>5. \A i \in 1..Len(q) : i = 1 \/ (i - 1 \in 1..Len(n) /\ i = (i - 1) + 1)
  BY <1>1
<1>6. 1 \in 1..Len(q)
      /\ \A i, k \in 1..Len(q) : q[i] = q[k] => i = k
      /\ \A h \in 1..Len(q) : q[h] \in set
  BY <1>1 DEF Lists
<1>7. \A i \in 1..Len(n) : n[i] \in set \ {t}
  BY <1>1, <1>4, <1>6
<1>8. \A u \in set \ {t} : \E i \in 1..Len(n) : n[i] = u
  <2> SUFFICES ASSUME NEW u \in set, u # t PROVE \E i \in 1..Len(n) : n[i] = u
    OBVIOUS
  <2>1. PICK i \in 1..Len(q) : q[i] = u
    BY DEF Lists
  <2>2. i - 1 \in 1..Len(n) /\ i = (i - 1) + 1
    BY <2>1, <1>1, <1>5
  <2> QED
    BY <2>1, <2>2, <1>1
<1>9. \A i, k \in 1..Len(n) : n[i] = n[k] => i = k
  <2> SUFFICES ASSUME NEW i \in 1..Len(n), NEW k \in 1..Len(n), n[i] = n[k]
               PROVE  i = k
    OBVIOUS
  <2>1. i + 1 = k + 1
    BY <1>1, <1>4, <1>6
  <2> QED
    BY <2>1, <1>1
<1>10. set \ {t} \subseteq Tasks
  BY DEF Lists
<1> QED
  BY <1>1, <1>2, <1>3, <1>7, <1>8, <1>9, <1>10 DEF Lists, n, t

(* asyncio.to_thread() for some calls of one request, none of them queued.  *)
LEMMA HandLists ==
    ASSUME TypeOK, QueueListsQueued, NEW c \in Calls, NEW stage,
           NEW parts \in SUBSET Parts, Hand(c, stage, parts),
           \A p \in parts : <<c, p>> \notin Queued
    PROVE  QueueListsQueued'
<1> DEFINE Put(q, p) == IF p \in parts THEN Append(q, <<c, p>>) ELSE q
           Add(s, p) == IF p \in parts THEN s \cup {<<c, p>>} ELSE s
<1>1. ASSUME NEW q, NEW s, NEW p \in Parts, Lists(q, s), <<c, p>> \notin s
      PROVE  Lists(Put(q, p), Add(s, p))
  <2>1. <<c, p>> \in Tasks
    BY DEF Tasks
  <2> QED
    BY <1>1, <2>1, AppendLists
<1> DEFINE q1 == Put(queue, "llm")   s1 == Add(Queued, "llm")
           q2 == Put(q1, "scrape")   s2 == Add(s1, "scrape")
           q3 == Put(q2, "boards")   s3 == Add(s2, "boards")
<1>2. Queued' = s3 /\ queue' = q3
  <2>1. queue' = q3
    BY DEF Hand
  <2>2. Queued' = s3
    <3>1. \A t \in Tasks : work'[t] = IF t \in {c} \X parts THEN "queued" ELSE work[t]
      BY DEF Hand
    <3>2. Queued' = Queued \cup ({c} \X parts)
      BY <3>1 DEF Queued, Tasks
    <3>3. s3 = Queued \cup ({c} \X parts)
      <4>1. {c} \X parts = {<<c, p>> : p \in parts}
        OBVIOUS
      <4>2. {<<c, p>> : p \in parts} =
               (IF "llm" \in parts THEN {<<c, "llm">>} ELSE {})
               \cup (IF "scrape" \in parts THEN {<<c, "scrape">>} ELSE {})
               \cup (IF "boards" \in parts THEN {<<c, "boards">>} ELSE {})
        BY DEF Parts
      <4> QED
        BY <4>1, <4>2
    <3> QED
      BY <3>2, <3>3
  <2> QED
    BY <2>1, <2>2
<1>3. \A p \in Parts : p \notin parts \/ <<c, p>> \notin Queued
  OBVIOUS
<1>4. Lists(q1, s1)
  BY <1>1, <1>3 DEF QueueListsQueued, Parts
<1>5. Lists(q2, s2)
  <2>1. "scrape" \in parts => <<c, "scrape">> \notin s1
    BY <1>3 DEF Parts
  <2> HIDE DEF q1, s1
  <2> QED
    BY <1>1, <1>4, <2>1 DEF Parts
<1>6. Lists(q3, s3)
  <2>1. "boards" \in parts => <<c, "boards">> \notin s2
    BY <1>3 DEF Parts
  <2> HIDE DEF q2, s2
  <2> QED
    BY <1>1, <1>5, <2>1 DEF Parts
<1> QED
  BY <1>2, <1>6 DEF QueueListsQueued

-----------------------------------------------------------------------------
(* How a step changes a request's record and its calls.                     *)
Only(c) ==
    \A d \in Calls \ {c} :
        call'[d] = call[d] /\ \A p \in Parts : work'[<<d, p>>] = work[<<d, p>>]
Same(c) == /\ call'[c].kind = call[c].kind /\ call'[c].site = call[c].site
           /\ call'[c].todo = call[c].todo /\ call'[c].got = call[c].got
Keeps(c) == \A p \in Parts : work'[<<c, p>>] = work[<<c, p>>]

LEMMA GoEffect ==
    ASSUME TypeOK, NEW c \in Calls,
           NEW pc \in {"new", "asking"} \cup Connected \cup Ended, Go(c, pc)
    PROVE  /\ call' \in [Calls -> Call] /\ work' = work
           /\ call'[c].pc = pc /\ call'[c].stage = call[c].stage
           /\ Only(c) /\ Same(c) /\ Keeps(c)
<1> DEFINE n == [call[c] EXCEPT !.pc = pc]
<1>1. /\ n \in Call /\ n.pc = pc /\ n.stage = call[c].stage
      /\ n.kind = call[c].kind /\ n.site = call[c].site
      /\ n.todo = call[c].todo /\ n.got = call[c].got
  BY DEF TypeOK, Call
<1>2. call' = [call EXCEPT ![c] = n] /\ work' = work
  BY DEF Go
<1> HIDE DEF n
<1>3. call' \in [Calls -> Call] /\ call'[c] = n
      /\ \A d \in Calls \ {c} : call'[d] = call[d]
  BY <1>1, <1>2 DEF TypeOK
<1> QED
  BY <1>1, <1>2, <1>3 DEF Only, Same, Keeps

(* One of its calls goes on to another state, and nothing else.             *)
LEMMA BecomesEffect ==
    ASSUME TypeOK, NEW c \in Calls, NEW p \in Parts,
           NEW state \in {"idle", "queued"} \cup InWorker \cup Over,
           Becomes(<<c, p>>, state)
    PROVE  /\ call' = call /\ Only(c) /\ Same(c)
           /\ work' \in [Tasks -> {"idle", "queued"} \cup InWorker \cup Over]
           /\ work'[<<c, p>>] = state
           /\ \A o \in Parts \ {p} : work'[<<c, o>>] = work[<<c, o>>]
<1>1. <<c, p>> \in Tasks
  BY DEF Tasks
<1>2. call' = call /\ work' = [work EXCEPT ![<<c, p>>] = state]
  BY DEF Becomes
<1>3. \A t \in Tasks : work'[t] = IF t = <<c, p>> THEN state ELSE work[t]
  BY <1>1, <1>2 DEF TypeOK
<1>4. \A d \in Calls, o \in Parts :
         <<d, o>> \in Tasks /\ (<<d, o>> = <<c, p>> => d = c /\ o = p)
  BY DEF Tasks
<1>5. work' \in [Tasks -> {"idle", "queued"} \cup InWorker \cup Over]
  BY <1>2 DEF TypeOK
<1> QED
  BY <1>1, <1>2, <1>3, <1>4, <1>5 DEF Only, Same

LEMMA HandEffect ==
    ASSUME TypeOK, NEW c \in Calls, NEW parts \in SUBSET Parts,
           NEW stage \in {"call", "search", "summary"}, Hand(c, stage, parts)
    PROVE  /\ call' \in [Calls -> Call] /\ Only(c) /\ Same(c)
           /\ call'[c].pc = "awaiting" /\ call'[c].stage = stage
           /\ work' \in [Tasks -> {"idle", "queued"} \cup InWorker \cup Over]
           /\ \A p \in Parts : work'[<<c, p>>] =
                 IF p \in parts THEN "queued" ELSE work[<<c, p>>]
<1> DEFINE n == [call[c] EXCEPT !.pc = "awaiting", !.stage = stage]
<1>1. /\ n \in Call /\ n.pc = "awaiting" /\ n.stage = stage
      /\ n.kind = call[c].kind /\ n.site = call[c].site
      /\ n.todo = call[c].todo /\ n.got = call[c].got
  BY DEF TypeOK, Call, Connected
<1>2. call' = [call EXCEPT ![c] = n]
  BY DEF Hand
<1> HIDE DEF n
<1>3. call' \in [Calls -> Call] /\ call'[c] = n
      /\ \A d \in Calls \ {c} : call'[d] = call[d]
  BY <1>1, <1>2 DEF TypeOK
<1>4. work' = [t \in Tasks |-> IF t \in {c} \X parts THEN "queued" ELSE work[t]]
  BY DEF Hand
<1>5. work' \in [Tasks -> {"idle", "queued"} \cup InWorker \cup Over]
  BY <1>4 DEF TypeOK
<1>6. \A d \in Calls, p \in Parts :
         /\ <<d, p>> \in Tasks
         /\ work'[<<d, p>>] =
               IF d = c /\ p \in parts THEN "queued" ELSE work[<<d, p>>]
  BY <1>4 DEF Tasks
<1> QED
  BY <1>1, <1>3, <1>5, <1>6 DEF Only, Same

(* The site of its scrape goes on.                                          *)
LEMMA SiteEffect ==
    ASSUME TypeOK, NEW c \in Calls, NEW a \in {"busy", "hung"} \cup Answers,
           call' = [call EXCEPT ![c].site = a]
    PROVE  /\ call' \in [Calls -> Call] /\ call'[c].site = a
           /\ call'[c].pc = call[c].pc /\ call'[c].stage = call[c].stage
           /\ call'[c].kind = call[c].kind /\ call'[c].todo = call[c].todo
           /\ call'[c].got = call[c].got
           /\ \A d \in Calls \ {c} : call'[d] = call[d]
<1> DEFINE n == [call[c] EXCEPT !.site = a]
<1>1. /\ n \in Call /\ n.pc = call[c].pc /\ n.stage = call[c].stage
      /\ n.kind = call[c].kind /\ n.site = a
      /\ n.todo = call[c].todo /\ n.got = call[c].got
  BY DEF TypeOK, Call
<1> HIDE DEF n
<1>2. call' \in [Calls -> Call] /\ call'[c] = n
      /\ \A d \in Calls \ {c} : call'[d] = call[d]
  BY <1>1 DEF TypeOK, n
<1> QED
  BY <1>1, <1>2

LEMMA CommitEffect ==
    ASSUME TypeOK, NEW c \in Calls, Commit(c)
    PROVE  /\ call' \in [Calls -> Call] /\ work' = work
           /\ call'[c].pc \in {"asking", "done"} /\ call'[c].stage = "committed"
           /\ Only(c) /\ Same(c) /\ Keeps(c)
<1>1. PICK pc \in {"asking", "done"} :
         /\ call' = [call EXCEPT ![c] = [@ EXCEPT !.pc = pc,
                                                  !.stage = "committed"]]
         /\ work' = work
  BY DEF Commit
<1> DEFINE n == [call[c] EXCEPT !.pc = pc, !.stage = "committed"]
<1>2. /\ n \in Call /\ n.pc = pc /\ n.stage = "committed"
      /\ n.kind = call[c].kind /\ n.site = call[c].site
      /\ n.todo = call[c].todo /\ n.got = call[c].got
  BY DEF TypeOK, Call, Ended
<1>3. call' = [call EXCEPT ![c] = n]
  BY <1>1
<1> HIDE DEF n
<1>4. call' \in [Calls -> Call] /\ call'[c] = n
      /\ \A d \in Calls \ {c} : call'[d] = call[d]
  BY <1>2, <1>3 DEF TypeOK
<1> QED
  BY <1>1, <1>2, <1>4 DEF Only, Same, Keeps

(* One more company is fetched.                                             *)
LEMMA FetchEffect ==
    ASSUME TypeOK, NEW c \in Calls, NEW company \in call[c].todo,
           call' = [call EXCEPT
                      ![c].todo = @ \ {company},
                      ![c].got = @ \cup ({company} \cap reachable)]
    PROVE  /\ call' \in [Calls -> Call]
           /\ call'[c].pc = call[c].pc /\ call'[c].stage = call[c].stage
           /\ call'[c].kind = call[c].kind /\ call'[c].site = call[c].site
           /\ call'[c].todo = call[c].todo \ {company}
           /\ call'[c].got = call[c].got \cup ({company} \cap reachable)
           /\ \A d \in Calls \ {c} : call'[d] = call[d]
<1> DEFINE todo == call[c].todo \ {company}
           got == call[c].got \cup ({company} \cap reachable)
           n == [call[c] EXCEPT !.todo = todo, !.got = got]
<1>1. todo \in SUBSET Companies /\ got \in SUBSET Companies
  BY DEF TypeOK, Call
<1>2. call' = [call EXCEPT ![c] = n]
  BY DEF TypeOK
<1> HIDE DEF todo, got
<1>3. /\ n \in Call /\ n.pc = call[c].pc /\ n.stage = call[c].stage
      /\ n.kind = call[c].kind /\ n.site = call[c].site
      /\ n.todo = todo /\ n.got = got
  BY <1>1 DEF TypeOK, Call
<1> HIDE DEF n
<1>4. call' \in [Calls -> Call] /\ call'[c] = n
      /\ \A d \in Calls \ {c} : call'[d] = call[d]
  BY <1>2, <1>3 DEF TypeOK
<1> QED
  BY <1>3, <1>4 DEF todo, got

(* Requests, calls and the queue keep their types, whatever the sizes of    *)
(* the pool and of the executor.                                            *)
THEOREM TypeCorrect == Spec => []TypeOK
<1>1. Init => TypeOK
  <2> SUFFICES ASSUME Init PROVE TypeOK
    OBVIOUS
  <2>1. \A k \in Kinds : New(k) \in Call
    BY DEF New, Call
  <2>2. call \in [Calls -> Call]
    BY <2>1 DEF Init
  <2> QED
    BY <2>2 DEF Init, TypeOK
<1>2. TypeOK /\ [Next]_vars => TypeOK'
  <2> SUFFICES ASSUME TypeOK, [Next]_vars PROVE TypeOK'
    OBVIOUS
  <2> DEFINE WorkStates == {"idle", "queued"} \cup InWorker \cup Over
  <2>1. ASSUME NEW c \in Calls,
               \E pc \in {"new", "asking"} \cup Connected \cup Ended : Go(c, pc),
               UNCHANGED <<queue, reachable>>
        PROVE  TypeOK'
    BY <2>1, GoEffect DEF TypeOK
  <2>2. ASSUME NEW c \in Calls, NEW p \in Parts,
               \E state \in WorkStates : Becomes(<<c, p>>, state),
               UNCHANGED <<queue, reachable>>
        PROVE  TypeOK'
    BY <2>2, BecomesEffect DEF TypeOK
  <2>3. ASSUME NEW c \in Calls, NEW parts \in SUBSET Parts,
               NEW stage \in {"call", "search", "summary"}, Hand(c, stage, parts)
        PROVE  TypeOK'
    <3> DEFINE Put(q, p) == IF p \in parts THEN Append(q, <<c, p>>) ELSE q
    <3>1. \A q \in Seq(Tasks), p \in Parts : Put(q, p) \in Seq(Tasks)
      BY DEF Tasks
    <3>2. Put(Put(Put(queue, "llm"), "scrape"), "boards") \in Seq(Tasks)
      <4>1. Put(queue, "llm") \in Seq(Tasks)
        BY <3>1 DEF TypeOK, Parts
      <4>2. Put(Put(queue, "llm"), "scrape") \in Seq(Tasks)
        BY <3>1, <4>1 DEF Parts
      <4> QED
        BY <3>1, <4>2 DEF Parts
    <3>3. queue' \in Seq(Tasks) /\ reachable' = reachable
      BY <2>3, <3>2 DEF Hand
    <3> QED
      BY <2>3, <3>3, HandEffect DEF TypeOK
  <2>4. ASSUME NEW c \in Calls, Ask(c) \/ Connect(c) \/ Refuse(c) \/ Review(c)
        PROVE  TypeOK'
    BY <2>4, <2>1 DEF Ask, Connect, Refuse, Review, Connected, Ended
  <2>5. ASSUME NEW c \in Calls, Reviewed(c) \/ Respond(c) PROVE TypeOK'
    BY <2>5, <2>1 DEF Reviewed, Respond, Ended
  <2>6. ASSUME NEW c \in Calls, Submit(c) \/ RunSearch(c) \/ Summarize(c)
        PROVE  TypeOK'
    BY <2>6, <2>3 DEF Submit, RunSearch, Summarize, Part, Parts
  <2>7. ASSUME NEW c \in Calls, Commit(c) PROVE TypeOK'
    BY <2>7, CommitEffect DEF TypeOK, Commit
  <2>8. ASSUME NEW c \in Calls, Finish(c) \/ Result(c) \/ Expire(c) \/ Join(c)
        PROVE  TypeOK'
    BY <2>8, <2>2 DEF Finish, Result, Expire, Join, Parts, InWorker, Over
  <2>9. ASSUME NEW c \in Calls, Fetch(c) PROVE TypeOK'
    <3>1. CASE Becomes(<<c, "boards">>, "returned")
      BY <2>9, <2>2, <3>1 DEF Fetch, Parts, Over
    <3>2. ASSUME NEW company \in call[c].todo,
                 call' = [call EXCEPT
                            ![c].todo = @ \ {company},
                            ![c].got = @ \cup ({company} \cap reachable)],
                 UNCHANGED work
          PROVE  TypeOK'
      BY <2>9, <3>2, FetchEffect DEF TypeOK, Fetch
    <3> QED
      BY <2>9, <3>1, <3>2 DEF Fetch
  <2>10. ASSUME NEW c \in Calls, Site(c) PROVE TypeOK'
    <3>1. PICK a \in {"hung"} \cup Answers :
             call' = [call EXCEPT ![c].site = a]
             /\ UNCHANGED <<work, queue, reachable>>
      BY <2>10 DEF Site, Answer, Hang
    <3> QED
      BY <3>1, SiteEffect DEF TypeOK
  <2>11. CASE Take
    <3>1. Head(queue) \in Tasks /\ Tail(queue) \in Seq(Tasks)
      BY <2>11, HeadTailProperties DEF Take, TypeOK
    <3>2. PICK c \in Calls, p \in Parts : Head(queue) = <<c, p>>
      BY <3>1 DEF Tasks
    <3>3. queue' \in Seq(Tasks) /\ reachable' = reachable
      BY <2>11, <3>1 DEF Take
    <3>4. CASE p = "scrape"
      <4>1. work' = [work EXCEPT ![Head(queue)] = "waiting"]
            /\ call' = [call EXCEPT ![c].site = "busy"]
        BY <2>11, <3>2, <3>4 DEF Take
      <4>2. call' \in [Calls -> Call]
        BY <4>1, SiteEffect
      <4>3. work' \in [Tasks -> {"idle", "queued"} \cup InWorker \cup Over]
        BY <4>1, <3>1 DEF TypeOK, InWorker
      <4> QED
        BY <3>3, <4>2, <4>3 DEF TypeOK
    <3>5. CASE p # "scrape"
      <4>1. Becomes(<<c, p>>, "calling")
        BY <2>11, <3>2, <3>5 DEF Take
      <4> QED
        BY <3>3, <4>1, BecomesEffect DEF TypeOK, InWorker
    <3> QED
      BY <3>4, <3>5
  <2>12. CASE UNCHANGED vars
    BY <2>12 DEF vars, TypeOK
  <2> QED
    BY <2>4, <2>5, <2>6, <2>7, <2>8, <2>9, <2>10, <2>11, <2>12
       DEF Next, Loop, Work
<1> QED
  BY <1>1, <1>2, PTL DEF Spec

-----------------------------------------------------------------------------
(* What a step makes of the one request it is a step of.                    *)
Goes(c) ==
    /\ Same(c) /\ Keeps(c)
    /\ \/ /\ call'[c].stage = call[c].stage
          /\ \/ call[c].pc = "new" /\ call'[c].pc = "asking"
             \/ /\ call[c].pc = "asking" /\ call'[c].pc = "open"
                /\ Cardinality(Holding) < Connections
             \/ call[c].pc = "asking" /\ call'[c].pc = "failed"
             \/ /\ call[c].pc = "open" /\ call'[c].pc = "reviewing"
                /\ call[c].stage = "committed"
             \/ call[c].pc = "open" /\ call'[c].pc = "done"
             \/ call[c].pc = "reviewing" /\ call'[c].pc \in Ended
             \/ /\ call[c].pc = "awaiting" /\ call'[c].pc \in Ended
                /\ call[c].stage # "search" /\ Main(c) \in Over
       \/ /\ call[c].pc = "awaiting" /\ call'[c].pc \in {"asking", "done"}
          /\ Main(c) = "returned" /\ call'[c].stage = "committed"
          /\ \/ call[c].stage = "call" /\ call[c].kind \in {"llm", "document"}
             \/ call[c].stage = "summary"

Hands(c, parts) ==
    /\ Same(c) /\ call'[c].pc = "awaiting"
    /\ \A p \in Parts :
          work'[<<c, p>>] = IF p \in parts THEN "queued" ELSE work[<<c, p>>]
    /\ \/ /\ call[c].pc = "open" /\ call[c].stage = "start"
          /\ call[c].kind # "short"
          /\ call'[c].stage = "call" /\ parts = {Part(call[c].kind)}
       \/ /\ call[c].pc = "awaiting" /\ call[c].stage = "call"
          /\ call[c].kind = "chat" /\ Main(c) = "returned"
          /\ call'[c].stage = "search" /\ parts \subseteq {"scrape", "boards"}
       \/ /\ call[c].pc = "awaiting" /\ call[c].stage = "search"
          /\ \A p \in {"scrape", "boards"} : work[<<c, p>>] \in {"idle"} \cup Over
          /\ call'[c].stage = "summary" /\ parts = {"llm"}

Stays(c) ==
    /\ call'[c].pc = call[c].pc /\ call'[c].stage = call[c].stage
    /\ call'[c].kind = call[c].kind

Works(c, p) ==
    /\ Stays(c)
    /\ call'[c].todo = call[c].todo /\ call'[c].got = call[c].got
    /\ \A o \in Parts \ {p} : work'[<<c, o>>] = work[<<c, o>>]
    /\ \/ /\ call'[c].site = call[c].site
          /\ \/ /\ work[<<c, p>>] = "queued" /\ work'[<<c, p>>] = "calling"
                /\ p # "scrape"
             \/ /\ work[<<c, p>>] = "calling" /\ work'[<<c, p>>] \in Over
                /\ p = "llm"
             \/ /\ work[<<c, p>>] = "calling" /\ work'[<<c, p>>] = "returned"
                /\ p = "boards" /\ call[c].todo = {}
             \/ /\ work[<<c, p>>] = "waiting" /\ p = "scrape"
                /\ work'[<<c, p>>] \in Over \cup {"joining"}
             \/ /\ work[<<c, p>>] = "joining" /\ p = "scrape"
                /\ work'[<<c, p>>] = "raised"
       \/ /\ p = "scrape" /\ call'[c].site = "busy"
          /\ work[<<c, p>>] = "queued" /\ work'[<<c, p>>] = "waiting"

Fetches(c) ==
    /\ Stays(c) /\ Keeps(c) /\ call'[c].site = call[c].site
    /\ work[<<c, "boards">>] = "calling"
    /\ \E company \in call[c].todo :
          /\ call'[c].todo = call[c].todo \ {company}
          /\ call'[c].got = call[c].got \cup ({company} \cap reachable)

Settles(c) ==
    /\ Stays(c) /\ Keeps(c)
    /\ call'[c].todo = call[c].todo /\ call'[c].got = call[c].got
    /\ call[c].site = "busy" /\ call'[c].site \in Answers \cup {"hung"}

Moves(c) == \/ Goes(c) \/ Fetches(c) \/ Settles(c)
            \/ \E parts \in SUBSET Parts : Hands(c, parts)
            \/ \E p \in Parts : Works(c, p)

LEMMA OneRequestMoves ==
    ASSUME IInv, Next
    PROVE  /\ reachable' = reachable
           /\ \E c \in Calls : Only(c) /\ Moves(c)
<1>t. TypeOK
  BY DEF IInv
<1>1. ASSUME NEW c \in Calls, Ask(c) PROVE Only(c) /\ Goes(c) /\ reachable' = reachable
  BY <1>t, <1>1, GoEffect DEF Ask, At, Goes
<1>2. ASSUME NEW c \in Calls, Connect(c) PROVE Only(c) /\ Goes(c) /\ reachable' = reachable
  BY <1>t, <1>2, GoEffect DEF Connect, At, Goes, Connected
<1>3. ASSUME NEW c \in Calls, Refuse(c) PROVE Only(c) /\ Goes(c) /\ reachable' = reachable
  BY <1>t, <1>3, GoEffect DEF Refuse, At, Goes, Ended
<1>4. ASSUME NEW c \in Calls, Review(c) PROVE Only(c) /\ Goes(c) /\ reachable' = reachable
  BY <1>t, <1>4, GoEffect DEF Review, At, For, Goes, Connected
<1>5. ASSUME NEW c \in Calls, Reviewed(c) PROVE Only(c) /\ Goes(c) /\ reachable' = reachable
  BY <1>t, <1>5, GoEffect DEF Reviewed, At, Goes
<1>6. ASSUME NEW c \in Calls, Respond(c) PROVE Only(c) /\ Goes(c) /\ reachable' = reachable
  <2>1. CASE Complete(c) /\ Go(c, "done")
    <3>1. \/ call[c].pc = "open"
          \/ call[c].pc = "awaiting" /\ call[c].stage = "call" /\ Main(c) = "returned"
      BY <2>1 DEF Complete, At, For
    <3> QED
      BY <1>t, <1>6, <2>1, <3>1, GoEffect DEF Respond, Goes, Ended, Over
  <2>2. CASE At(c, "awaiting") /\ ~For(c, "search") /\ Main(c) = "raised"
             /\ Go(c, "failed")
    BY <1>t, <1>6, <2>2, GoEffect DEF Respond, At, For, Goes, Ended, Over
  <2> QED
    BY <1>6, <2>1, <2>2 DEF Respond
<1>7. ASSUME NEW c \in Calls, Commit(c) PROVE Only(c) /\ Goes(c) /\ reachable' = reachable
  BY <1>t, <1>7, CommitEffect DEF Commit, At, For, Kind, Goes
<1>8. ASSUME NEW c \in Calls, Submit(c) \/ RunSearch(c) \/ Summarize(c)
      PROVE  /\ Only(c) /\ reachable' = reachable
             /\ \E parts \in SUBSET Parts : Hands(c, parts)
  <2>1. CASE Submit(c)
    <3>1. {Part(call[c].kind)} \in SUBSET Parts
      BY DEF Part, Parts
    <3>2. Only(c) /\ Hands(c, {Part(call[c].kind)})
      BY <1>t, <2>1, <3>1, HandEffect DEF Submit, Hands, At, For, Kind
    <3> QED
      BY <2>1, <3>1, <3>2 DEF Submit, Hand
  <2>2. CASE RunSearch(c)
    <3>1. PICK sources \in SUBSET {"scrape", "boards"} : Hand(c, "search", sources)
      BY <2>2 DEF RunSearch
    <3>2. sources \in SUBSET Parts
      BY DEF Parts
    <3>3. Only(c) /\ Hands(c, sources)
      BY <1>t, <2>2, <3>1, <3>2, HandEffect DEF RunSearch, Hands, At, For, Kind
    <3> QED
      BY <3>1, <3>2, <3>3 DEF Hand
  <2>3. CASE Summarize(c)
    <3>1. {"llm"} \in SUBSET Parts
      BY DEF Parts
    <3>2. Only(c) /\ Hands(c, {"llm"})
      BY <1>t, <2>3, <3>1, HandEffect DEF Summarize, Hands, At, For
    <3> QED
      BY <2>3, <3>1, <3>2 DEF Summarize, Hand
  <2> QED
    BY <1>8, <2>1, <2>2, <2>3
<1>9. ASSUME NEW c \in Calls, Finish(c)
      PROVE  Only(c) /\ Works(c, "llm") /\ reachable' = reachable
  <2>1. PICK over \in Over : Becomes(<<c, "llm">>, over)
    BY <1>9 DEF Finish
  <2> QED
    BY <1>t, <1>9, <2>1, BecomesEffect DEF Finish, Works, Stays, Same, Parts, Over
<1>10. ASSUME NEW c \in Calls, Result(c) \/ Expire(c) \/ Join(c)
       PROVE  Only(c) /\ Works(c, "scrape") /\ reachable' = reachable
  <2>1. PICK s \in Over \cup {"joining"} :
           /\ Becomes(<<c, "scrape">>, s) /\ reachable' = reachable
           /\ \/ work[<<c, "scrape">>] = "waiting"
              \/ work[<<c, "scrape">>] = "joining" /\ s = "raised"
    BY <1>10 DEF Result, Expire, Join, Over
  <2>2. /\ call' = call /\ Only(c) /\ Same(c)
        /\ work'[<<c, "scrape">>] = s
        /\ \A o \in Parts \ {"scrape"} : work'[<<c, o>>] = work[<<c, o>>]
    BY <1>t, <2>1, BecomesEffect DEF Parts, Over, InWorker
  <2> QED
    BY <2>1, <2>2 DEF Works, Stays, Same
<1>11. ASSUME NEW c \in Calls, Fetch(c)
       PROVE  /\ Only(c) /\ reachable' = reachable
              /\ Works(c, "boards") \/ Fetches(c)
  <2>1. CASE call[c].todo = {} /\ Becomes(<<c, "boards">>, "returned")
    BY <1>t, <1>11, <2>1, BecomesEffect
       DEF Fetch, Works, Stays, Same, Parts, Over
  <2>2. ASSUME NEW company \in call[c].todo,
               call' = [call EXCEPT
                          ![c].todo = @ \ {company},
                          ![c].got = @ \cup ({company} \cap reachable)],
               work' = work
        PROVE  Only(c) /\ Fetches(c)
    BY <1>t, <1>11, <2>2, FetchEffect DEF Fetch, Fetches, Stays, Keeps, Only
  <2> QED
    BY <1>11, <2>1, <2>2 DEF Fetch
<1>12. ASSUME NEW c \in Calls, Site(c)
       PROVE  Only(c) /\ Settles(c) /\ reachable' = reachable
  <2>1. PICK a \in Answers \cup {"hung"} :
           /\ call' = [call EXCEPT ![c].site = a] /\ call[c].site = "busy"
           /\ UNCHANGED <<work, queue, reachable>>
    BY <1>12 DEF Site, Answer, Hang
  <2> QED
    BY <1>t, <2>1, SiteEffect DEF Settles, Stays, Keeps, Only
<1>13. ASSUME Take
       PROVE  /\ reachable' = reachable
              /\ \E c \in Calls : Only(c) /\ \E p \in Parts : Works(c, p)
  <2>1. Head(queue) \in Queued
    BY <1>13, TailLists DEF Take, IInv, QueueListsQueued
  <2>2. PICK c \in Calls, p \in Parts :
           Head(queue) = <<c, p>> /\ work[<<c, p>>] = "queued"
    BY <2>1 DEF Queued, Tasks
  <2>3. CASE p = "scrape"
    <3>1. work' = [work EXCEPT ![<<c, p>>] = "waiting"]
          /\ call' = [call EXCEPT ![c].site = "busy"]
      BY <1>13, <2>2, <2>3 DEF Take
    <3>2. <<c, p>> \in Tasks /\ \A d \in Calls, o \in Parts :
             <<d, o>> \in Tasks /\ (<<d, o>> = <<c, p>> => d = c /\ o = p)
      BY DEF Tasks
    <3>3. work'[<<c, p>>] = "waiting"
          /\ \A t \in Tasks : t # <<c, p>> => work'[t] = work[t]
      BY <1>t, <3>1, <3>2 DEF TypeOK
    <3>4. Only(c) /\ Works(c, p)
      BY <1>t, <2>2, <2>3, <3>1, <3>2, <3>3, SiteEffect DEF Works, Stays, Only
    <3> QED
      BY <1>13, <3>4 DEF Take
  <2>4. CASE p # "scrape"
    <3>1. Becomes(<<c, p>>, "calling")
      BY <1>13, <2>2, <2>4 DEF Take
    <3>2. Only(c) /\ Works(c, p)
      BY <1>t, <2>2, <2>4, <3>1, BecomesEffect DEF Works, Stays, Same, InWorker
    <3> QED
      BY <1>13, <3>2 DEF Take
  <2> QED
    BY <2>3, <2>4
<1>14. "llm" \in Parts /\ "boards" \in Parts /\ "scrape" \in Parts
  BY DEF Parts
<1> QED
  BY <1>1, <1>2, <1>3, <1>4, <1>5, <1>6, <1>7, <1>8, <1>9, <1>10, <1>11,
     <1>12, <1>13, <1>14 DEF Next, Loop, Work, Moves

-----------------------------------------------------------------------------
(* The strengthened invariant holds at first.                               *)
LEMMA IInvInit == Init => IInv
<1> SUFFICES ASSUME Init PROVE IInv
  OBVIOUS
<1>1. TypeOK
  <2>1. \A k \in Kinds : New(k) \in Call
    BY DEF New, Call
  <2>2. call \in [Calls -> Call]
    BY <2>1 DEF Init
  <2> QED
    BY <2>2 DEF Init, TypeOK
<1>2. \A c \in Calls :
         /\ call[c].pc = "new" /\ call[c].stage = "start"
         /\ call[c].todo = Companies /\ call[c].got = {}
  BY DEF Init, New
<1>3. \A c \in Calls, p \in Parts : work[<<c, p>>] = "idle"
  BY DEF Init, Tasks
<1>4. Queued = {} /\ Holding = {} /\ queue = <<>> /\ Len(queue) = 0
  BY <1>2 DEF Init, Queued, Holding, Connected
<1>5. QueueListsQueued
  BY <1>1, <1>4, FS_EmptySet DEF QueueListsQueued, Lists, TypeOK
<1>6. PoolBounds
  BY <1>4, FS_EmptySet, CapacityAssumption DEF PoolBounds
<1>7. FetchesAll
  BY <1>1, <1>2, <1>3 DEF FetchesAll, TypeOK, Parts
<1>8. CallsFit
  BY <1>2, <1>3 DEF CallsFit, Fits, UnderWay, InWorker, Parts
<1> QED
  BY <1>1, <1>5, <1>6, <1>7, <1>8 DEF IInv

(* A request comes to hold a connection only where one was free.            *)
LEMMA PoolBoundsStep ==
    ASSUME IInv, NEW c \in Calls, Only(c), Moves(c)
    PROVE  PoolBounds'
<1>1. IsFiniteSet(Holding) /\ Cardinality(Holding) \in Nat
      /\ Cardinality(Holding) <= Connections /\ Connections \in Nat
  BY FS_CardinalityType, CapacityAssumption DEF IInv, PoolBounds
<1>2. call'[c].pc \in Connected =>
         call[c].pc \in Connected \/ Cardinality(Holding) < Connections
  BY DEF Moves, Goes, Hands, Works, Fetches, Settles, Stays, Connected, Ended
<1>3. Holding' \subseteq Holding \cup {c}
  BY DEF Holding, Only
<1>4. CASE Holding' \subseteq Holding
  <2>1. IsFiniteSet(Holding') /\ Cardinality(Holding') <= Cardinality(Holding)
    BY <1>1, <1>4, FS_Subset
  <2>2. Cardinality(Holding') \in Nat
    BY <2>1, FS_CardinalityType
  <2> QED
    BY <1>1, <2>1, <2>2 DEF PoolBounds
<1>5. CASE ~(Holding' \subseteq Holding)
  <2>1. c \notin Holding /\ Holding' = Holding \cup {c}
    BY <1>3, <1>5 DEF Holding, Only
  <2>2. Cardinality(Holding) < Connections
    BY <1>2, <2>1 DEF Holding
  <2>3. IsFiniteSet(Holding \cup {c})
        /\ Cardinality(Holding \cup {c}) = Cardinality(Holding) + 1
    BY <1>1, <2>1, FS_AddElement
  <2> QED
    BY <1>1, <2>1, <2>2, <2>3 DEF PoolBounds
<1> QED
  BY <1>4, <1>5

LEMMA FetchesAllStep ==
    ASSUME IInv, NEW c \in Calls, Only(c), Moves(c), reachable' = reachable
    PROVE  FetchesAll'
<1>1. call[c].got = reachable \ call[c].todo
      /\ (work[<<c, "boards">>] = "returned" => call[c].todo = {})
  BY DEF IInv, FetchesAll
<1>2. "boards" \in Parts
  BY DEF Parts
<1>3. call'[c].got = reachable \ call'[c].todo
      /\ (work'[<<c, "boards">>] = "returned" => call'[c].todo = {})
  <2>1. CASE Goes(c)
    BY <1>1, <1>2, <2>1 DEF Goes, Same, Keeps
  <2>2. CASE Settles(c)
    BY <1>1, <1>2, <2>2 DEF Settles, Keeps
  <2>3. CASE Fetches(c)
    BY <1>1, <1>2, <2>3 DEF Fetches, Keeps
  <2>4. ASSUME NEW parts \in SUBSET Parts, Hands(c, parts)
        PROVE  call'[c].got = reachable \ call'[c].todo
               /\ (work'[<<c, "boards">>] = "returned" => call'[c].todo = {})
    <3>1. work'[<<c, "boards">>] \in {"queued", work[<<c, "boards">>]}
          /\ call'[c].got = call[c].got /\ call'[c].todo = call[c].todo
      BY <1>2, <2>4 DEF Hands, Same
    <3> QED
      BY <1>1, <3>1
  <2>5. ASSUME NEW p \in Parts, Works(c, p)
        PROVE  call'[c].got = reachable \ call'[c].todo
               /\ (work'[<<c, "boards">>] = "returned" => call'[c].todo = {})
    <3>1. work'[<<c, "boards">>] = "returned" =>
             work[<<c, "boards">>] = "returned" \/ call[c].todo = {}
      BY <1>2, <2>5 DEF Works, Parts
    <3> QED
      BY <1>1, <2>5, <3>1 DEF Works
  <2> QED
    BY <2>1, <2>2, <2>3, <2>4, <2>5 DEF Moves
<1> QED
  BY <1>2, <1>3 DEF Only, FetchesAll, IInv

LEMMA FitsStep ==
    ASSUME IInv, NEW c \in Calls, Only(c), Moves(c)
    PROVE  CallsFit'
<1>1. Fits(c) /\ call[c] \in Call
  BY DEF IInv, TypeOK, CallsFit
<1> DEFINE m == <<c, Part(call[c].kind)>>
<1>2. Part(call[c].kind) \in Parts /\ Main(c) = work[m]
      /\ (call'[c].kind = call[c].kind => Main(c)' = work'[m])
  BY DEF Part, Parts, Main
<1>3. Fits(c)'
  <2>1. CASE Goes(c)
    <3>1. \A p \in Parts : ~(UnderWay(<<c, p>>)')
      <4>1. \A p \in Parts : ~UnderWay(<<c, p>>)
        BY <1>1, <1>2, <2>1 DEF Goes, Fits, UnderWay, Over, InWorker
      <4> QED
        BY <2>1, <4>1 DEF Goes, Keeps, UnderWay
    <3>2. /\ work'[<<c, "llm">>] = work[<<c, "llm">>]
          /\ work'[<<c, "boards">>] = work[<<c, "boards">>]
          /\ work'[<<c, "scrape">>] = work[<<c, "scrape">>]
      BY <2>1 DEF Goes, Keeps, Parts
    <3> QED
      BY <1>1, <2>1, <3>1, <3>2 DEF Goes, Same, Fits, Ended
  <2>2. CASE Settles(c) \/ Fetches(c)
    <3>1. /\ \A p \in Parts : work'[<<c, p>>] = work[<<c, p>>]
          /\ Stays(c)
          /\ call'[c].site # "none" \/ call'[c].site = call[c].site
      BY <2>2 DEF Settles, Fetches, Keeps, Answers
    <3>2. \A p \in Parts : UnderWay(<<c, p>>)' <=> UnderWay(<<c, p>>)
      BY <3>1 DEF UnderWay
    <3>3. /\ work'[<<c, "llm">>] = work[<<c, "llm">>]
          /\ work'[<<c, "boards">>] = work[<<c, "boards">>]
          /\ work'[<<c, "scrape">>] = work[<<c, "scrape">>]
          /\ Main(c)' = Main(c)
      BY <1>2, <3>1 DEF Parts, Stays
    <3> QED
      BY <1>1, <3>1, <3>2, <3>3 DEF Fits, Stays
  <2>3. ASSUME NEW parts \in SUBSET Parts, Hands(c, parts) PROVE Fits(c)'
    <3>1. \A p \in Parts : ~UnderWay(<<c, p>>)
      BY <1>1, <1>2, <2>3 DEF Hands, Fits, UnderWay, Over, InWorker
    <3>2. \A p \in Parts : UnderWay(<<c, p>>)' => p \in parts
      BY <2>3, <3>1 DEF Hands, UnderWay
    <3>3. \A p \in Parts :
             work'[<<c, p>>] = "queued" \/ work'[<<c, p>>] = work[<<c, p>>]
      BY <2>3 DEF Hands
    <3>4. "llm" \in Parts /\ "boards" \in Parts /\ "scrape" \in Parts
      BY DEF Parts
    <3>5. call'[c].stage # "search" => Main(c)' # "idle"
      BY <1>1, <1>2, <2>3 DEF Hands, Same, Fits, Part
    <3>6. call'[c].kind = call[c].kind /\ call'[c].site = call[c].site
      BY <2>3 DEF Hands, Same
    <3>7. \A p \in parts :
             IF call'[c].stage = "search" THEN p \in {"scrape", "boards"}
                                          ELSE p = Part(call[c].kind)
      BY <1>1, <2>3 DEF Hands, Fits, Part
    <3>8. /\ call'[c].pc = "awaiting"
          /\ call'[c].stage \in {"call", "search", "summary"}
          /\ call[c].kind # "short"
          /\ call'[c].stage \in {"search", "summary"} => call[c].kind = "chat"
      BY <1>1, <2>3 DEF Hands, Fits
    <3> QED
      BY <1>1, <3>2, <3>3, <3>4, <3>5, <3>6, <3>7, <3>8 DEF Fits
  <2>4. ASSUME NEW p \in Parts, Works(c, p) PROVE Fits(c)'
    <3>1. \A o \in Parts : UnderWay(<<c, o>>)' => UnderWay(<<c, o>>)
      <4>1. \A o \in Parts \ {p} : UnderWay(<<c, o>>)' <=> UnderWay(<<c, o>>)
        BY <2>4 DEF Works, UnderWay
      <4>2. UnderWay(<<c, p>>)
        BY <2>4 DEF Works, UnderWay, InWorker
      <4> QED
        BY <4>1, <4>2
    <3>2. \A o \in Parts : work'[<<c, o>>] = "idle" => work[<<c, o>>] = "idle"
      BY <2>4 DEF Works, Over
    <3>3. /\ work'[<<c, "llm">>] \notin {"waiting", "joining"}
          /\ work'[<<c, "boards">>] \notin {"waiting", "joining", "raised"}
          /\ work'[<<c, "scrape">>] # "calling"
          /\ work'[<<c, "scrape">>] \in {"waiting", "joining"} =>
                call'[c].site # "none"
      <4>1. CASE p = "llm"
        BY <1>1, <2>4, <4>1 DEF Works, Fits, Over, Parts
      <4>2. CASE p = "boards"
        BY <1>1, <2>4, <4>2 DEF Works, Fits, Over, Parts
      <4>3. CASE p = "scrape"
        BY <1>1, <2>4, <4>3 DEF Works, Fits, Over, Parts
      <4> QED
        BY <4>1, <4>2, <4>3 DEF Parts
    <3>4. Main(c)' = "idle" => Main(c) = "idle"
      BY <1>2, <2>4, <3>2 DEF Works, Stays
    <3> QED
      BY <1>1, <2>4, <3>1, <3>3, <3>4 DEF Works, Stays, Fits
  <2> QED
    BY <2>1, <2>2, <2>3, <2>4 DEF Moves
<1>4. \A d \in Calls \ {c} : Fits(d)'
  <2> SUFFICES ASSUME NEW d \in Calls, d # c PROVE Fits(d)'
    OBVIOUS
  <2>1. call'[d] = call[d] /\ \A p \in Parts : work'[<<d, p>>] = work[<<d, p>>]
    BY DEF Only
  <2>2. Part(call[d].kind) \in Parts
    BY DEF Part, Parts
  <2>3. Main(d)' = Main(d)
    BY <2>1, <2>2 DEF Main
  <2>4. \A p \in Parts : UnderWay(<<d, p>>)' <=> UnderWay(<<d, p>>)
    BY <2>1 DEF UnderWay
  <2>5. Fits(d)
    BY DEF IInv, CallsFit
  <2>6. /\ work'[<<d, "llm">>] = work[<<d, "llm">>]
        /\ work'[<<d, "boards">>] = work[<<d, "boards">>]
        /\ work'[<<d, "scrape">>] = work[<<d, "scrape">>]
    BY <2>1 DEF Parts
  <2> QED
    BY <2>1, <2>3, <2>4, <2>5, <2>6 DEF Fits
<1> QED
  BY <1>3, <1>4 DEF CallsFit

(* Every step preserves the strengthened invariant.                         *)
LEMMA IInvStep == IInv /\ TypeOK' /\ [Next]_vars => IInv'
<1> SUFFICES ASSUME IInv, TypeOK', [Next]_vars PROVE IInv'
  OBVIOUS
<1>t. TypeOK /\ QueueListsQueued
  BY DEF IInv
<1>1. ASSUME Next PROVE PoolBounds' /\ FetchesAll' /\ CallsFit'
  <2>1. reachable' = reachable /\ \E c \in Calls : Only(c) /\ Moves(c)
    BY <1>1, OneRequestMoves
  <2> QED
    BY <2>1, PoolBoundsStep, FetchesAllStep, FitsStep
<1>2. ASSUME NEW c \in Calls, Submit(c) \/ RunSearch(c) \/ Summarize(c)
      PROVE  QueueListsQueued'
  <2>1. \A p \in Parts :
           <<c, p>> \in Queued =>
              /\ call[c].pc = "awaiting"
              /\ IF call[c].stage = "search" THEN p \in {"scrape", "boards"}
                                             ELSE p = Part(call[c].kind)
    BY DEF IInv, CallsFit, Fits, UnderWay, Queued
  <2>2. Main(c) = "returned" => <<c, Part(call[c].kind)>> \notin Queued
    BY DEF Main, Queued
  <2>3. \E stage : \E parts \in SUBSET Parts :
           Hand(c, stage, parts) /\ \A p \in parts : <<c, p>> \notin Queued
    <3>1. CASE Submit(c)
      <4>1. {Part(call[c].kind)} \in SUBSET Parts
        BY DEF Part, Parts
      <4> QED
        BY <2>1, <3>1, <4>1 DEF Submit, At
    <3>2. CASE RunSearch(c)
      <4>1. \A s \in SUBSET {"scrape", "boards"} : s \in SUBSET Parts
        BY DEF Parts
      <4>2. \A p \in Parts : <<c, p>> \notin Queued
        BY <2>1, <2>2, <3>2 DEF RunSearch, For
      <4> QED
        BY <3>2, <4>1, <4>2 DEF RunSearch
    <3>3. CASE Summarize(c)
      <4>1. {"llm"} \in SUBSET Parts
        BY DEF Parts
      <4>2. <<c, "llm">> \notin Queued
        BY <2>1, <3>3, <4>1 DEF Summarize, For
      <4> QED
        BY <3>3, <4>1, <4>2 DEF Summarize
    <3> QED
      BY <1>2, <3>1, <3>2, <3>3
  <2> QED
    BY <1>t, <2>3, HandLists
<1>3. ASSUME Take PROVE QueueListsQueued'
  <2> DEFINE t == Head(queue)
  <2>1. t \in Queued /\ Lists(queue', Queued \ {t})
    BY <1>3, <1>t, TailLists DEF Take, QueueListsQueued
  <2>2. \/ work' = [work EXCEPT ![t] = "waiting"]
        \/ work' = [work EXCEPT ![t] = "calling"]
    BY <1>3 DEF Take, Becomes
  <2> HIDE DEF t
  <2>3. Queued' = Queued \ {t}
    BY <1>t, <2>1, <2>2 DEF Queued, TypeOK
  <2> QED
    BY <2>1, <2>3 DEF QueueListsQueued
<1>4. ASSUME queue' = queue,
             work' = work \/ \E t \in Tasks : \E s :
                /\ work' = [work EXCEPT ![t] = s]
                /\ work[t] # "queued" /\ s # "queued"
      PROVE  QueueListsQueued'
  <2>1. Queued' = Queued
    BY <1>t, <1>4 DEF Queued, TypeOK
  <2> QED
    BY <1>t, <1>4, <2>1 DEF QueueListsQueued
<1>5. ASSUME NEW c \in Calls,
             \/ Ask(c) \/ Connect(c) \/ Refuse(c) \/ Commit(c) \/ Review(c)
             \/ Reviewed(c) \/ Respond(c) \/ Site(c)
      PROVE  QueueListsQueued'
  <2>1. queue' = queue /\ work' = work
    BY <1>5 DEF Ask, Connect, Refuse, Commit, Review, Reviewed, Respond, Site,
                Answer, Hang, Go
  <2> QED
    BY <1>4, <2>1
<1>6. ASSUME NEW c \in Calls, Work(c) PROVE QueueListsQueued'
  <2>1. \A p \in Parts : <<c, p>> \in Tasks
    BY DEF Tasks
  <2>2. CASE Finish(c)
    BY <1>4, <2>1, <2>2 DEF Finish, Becomes, Over, Parts
  <2>3. CASE Fetch(c)
    BY <1>4, <2>1, <2>3 DEF Fetch, Becomes, Parts
  <2>4. CASE Result(c)
    BY <1>4, <2>1, <2>4 DEF Result, Becomes, Parts
  <2>5. CASE Expire(c) \/ Join(c)
    BY <1>4, <2>1, <2>5 DEF Expire, Join, Becomes, Parts
  <2> QED
    BY <1>6, <2>2, <2>3, <2>4, <2>5 DEF Work
<1>7. ASSUME Next PROVE QueueListsQueued'
  <2>1. ASSUME NEW c \in Calls, Ask(c) \/ Loop(c) \/ Work(c) \/ Site(c)
        PROVE  QueueListsQueued'
    BY <1>2, <1>5, <1>6, <2>1 DEF Loop
  <2> QED
    BY <1>3, <1>7, <2>1 DEF Next
<1>8. CASE UNCHANGED vars
  <2>1. /\ Queued' = Queued /\ Holding' = Holding
        /\ \A c \in Calls : Fits(c)' <=> Fits(c)
    BY <1>8 DEF vars, Queued, Holding, Fits, UnderWay, Main
  <2> QED
    BY <1>8, <2>1 DEF vars, IInv, QueueListsQueued, PoolBounds, FetchesAll, CallsFit
<1> QED
  BY <1>1, <1>7, <1>8 DEF IInv

(* The strengthened invariant, for every number of requests, connections    *)
(* and workers.                                                             *)
THEOREM Invariance == Spec => []IInv
<1>1. Init => IInv
  BY IInvInit
<1>2. IInv /\ TypeOK' /\ [Next]_vars => IInv'
  BY IInvStep
<1> QED
  BY <1>1, <1>2, TypeCorrect, PTL DEF Spec

-----------------------------------------------------------------------------
Searching == {c \in Holding : For(c, "search")}

(* Calls under way are their requests' first or, for those that search, a   *)
(* fetch of the boards beside it: so many as hold a connection and so many  *)
(* as search.                                                               *)
LEMMA CallsUnderWay ==
    ASSUME IInv
    PROVE  /\ IsFiniteSet(Busy) /\ IsFiniteSet(Queued)
           /\ Cardinality(Busy) + Cardinality(Queued)
                 <= Cardinality(Holding) + Cardinality(Searching)
<1> DEFINE Second == {t \in Tasks : /\ UnderWay(t) /\ t[2] = "boards"
                                    /\ call[t[1]].stage = "search"}
           First == {t \in Tasks : UnderWay(t) /\ t \notin Second}
<1>1. IsFiniteSet(Holding) /\ IsFiniteSet(Searching)
  <2>1. IsFiniteSet(Holding) /\ Searching \in SUBSET Holding
    BY DEF IInv, PoolBounds, Searching
  <2> QED
    BY <2>1, FS_Subset
<1>2. ASSUME NEW t \in Tasks, UnderWay(t)
      PROVE  /\ t[1] \in Holding /\ t[2] \in Parts /\ t = <<t[1], t[2]>>
             /\ IF call[t[1]].stage = "search" THEN t[2] \in {"scrape", "boards"}
                                               ELSE t[2] = Part(call[t[1]].kind)
  <2>1. PICK c \in Calls, p \in Parts : t = <<c, p>>
    BY DEF Tasks
  <2>2. Fits(c)
    BY DEF IInv, CallsFit
  <2> QED
    BY <1>2, <2>1, <2>2 DEF Fits, Holding, Connected
<1>3. IsFiniteSet(First) /\ Cardinality(First) <= Cardinality(Holding)
  <2> DEFINE f == [t \in First |-> t[1]]
  <2>1. \A t \in First : t[1] \in Holding /\ t = <<t[1], t[2]>>
    BY <1>2
  <2>2. \A t, u \in First : t[1] = u[1] => t[2] = u[2]
    BY <1>2
  <2>3. f \in Injection(First, Holding)
    BY <2>1, <2>2 DEF Injection, IsInjective
  <2> QED
    BY <1>1, <2>3, FS_Injection
<1>4. IsFiniteSet(Second) /\ Cardinality(Second) <= Cardinality(Searching)
  <2> DEFINE f == [t \in Second |-> t[1]]
  <2>1. \A t \in Second : t[1] \in Searching /\ t = <<t[1], "boards">>
    BY <1>2 DEF Searching, For
  <2>2. f \in Injection(Second, Searching)
    BY <2>1 DEF Injection, IsInjective
  <2> QED
    BY <1>1, <2>2, FS_Injection
<1>5. /\ First \cup Second = Busy \cup Queued
      /\ First \cap Second = {} /\ Busy \cap Queued = {}
  BY DEF Busy, Queued, UnderWay, InWorker
<1> HIDE DEF First, Second
<1>6. /\ IsFiniteSet(First \cup Second)
      /\ Cardinality(First \cup Second) = Cardinality(First) + Cardinality(Second)
  <2>1. /\ IsFiniteSet(First \cup Second)
        /\ Cardinality(First \cup Second)
              = Cardinality(First) + Cardinality(Second) - Cardinality(First \cap Second)
    BY <1>3, <1>4, FS_Union
  <2>2. Cardinality(First \cap Second) = 0
    BY <1>5, FS_EmptySet
  <2>3. Cardinality(First) \in Nat /\ Cardinality(Second) \in Nat
    BY <1>3, <1>4, FS_CardinalityType
  <2> QED
    BY <2>1, <2>2, <2>3
<1>7. IsFiniteSet(Busy) /\ IsFiniteSet(Queued)
  BY <1>5, <1>6, FS_Subset
<1>8. Cardinality(Busy \cup Queued) = Cardinality(Busy) + Cardinality(Queued)
  <2>1. Cardinality(Busy \cup Queued)
           = Cardinality(Busy) + Cardinality(Queued) - Cardinality(Busy \cap Queued)
    BY <1>7, FS_Union
  <2>2. Cardinality(Busy \cap Queued) = 0
    BY <1>5, FS_EmptySet
  <2>3. Cardinality(Busy) \in Nat /\ Cardinality(Queued) \in Nat
    BY <1>7, FS_CardinalityType
  <2> QED
    BY <2>1, <2>2, <2>3
<1>9. /\ Cardinality(First) \in Nat /\ Cardinality(Second) \in Nat
      /\ Cardinality(Holding) \in Nat /\ Cardinality(Searching) \in Nat
      /\ Cardinality(Busy) \in Nat /\ Cardinality(Queued) \in Nat
  BY <1>1, <1>3, <1>4, <1>7, FS_CardinalityType
<1>10. Cardinality(Busy) + Cardinality(Queued)
          = Cardinality(First) + Cardinality(Second)
  BY <1>5, <1>6, <1>8
<1> QED
  BY <1>3, <1>4, <1>7, <1>9, <1>10

(* A session keeps its connection through its blocking calls, of which only *)
(* a search makes two at once: all with a worker or in front of one are     *)
(* counted by the pool's connections and the searches that hold one.        *)
THEOREM PoolAlwaysBoundsQueue == Spec => []PoolBoundsQueue
<1>1. IInv => PoolBoundsQueue
  <2> SUFFICES ASSUME IInv PROVE PoolBoundsQueue
    OBVIOUS
  <2>1. /\ IsFiniteSet(Busy) /\ IsFiniteSet(Queued)
        /\ Cardinality(Busy) + Cardinality(Queued)
              <= Cardinality(Holding) + Cardinality(Searching)
    BY CallsUnderWay
  <2>2. IsFiniteSet(Searching)
    BY FS_Subset DEF Searching, IInv, PoolBounds
  <2>3. /\ Cardinality(Busy) \in Nat /\ Cardinality(Queued) \in Nat
        /\ Cardinality(Holding) \in Nat /\ Cardinality(Searching) \in Nat
        /\ Cardinality(Holding) <= Connections /\ Connections \in Nat
    BY <2>1, <2>2, FS_CardinalityType, CapacityAssumption DEF IInv, PoolBounds
  <2>4. Cardinality(Queued) = Len(queue)
    BY DEF IInv, QueueListsQueued, Lists
  <2>5. Cardinality(Busy) + Len(queue) <= Connections + Cardinality(Searching)
    BY <2>1, <2>3, <2>4
  <2> QED
    BY <2>5 DEF PoolBoundsQueue, Searching
<1> QED
  BY <1>1, Invariance, PTL

(* With two workers for each connection a call never waits for a worker:    *)
(* whenever one is in the executor's queue, a worker is free to take it.    *)
THEOREM AlwaysAWorkerForTheQueue ==
    ASSUME 2 * Connections <= Workers
    PROVE  Spec => [](queue # <<>> => Cardinality(Busy) < Workers)
<1>1. IInv => (queue # <<>> => Cardinality(Busy) < Workers)
  <2> SUFFICES ASSUME IInv, queue # <<>> PROVE Cardinality(Busy) < Workers
    OBVIOUS
  <2>1. Cardinality(Queued) = Len(queue) /\ Len(queue) \in Nat \ {0}
    BY DEF IInv, TypeOK, QueueListsQueued, Lists
  <2>2. /\ IsFiniteSet(Searching) /\ Cardinality(Searching) <= Cardinality(Holding)
        /\ Cardinality(Searching) \in Nat /\ Cardinality(Holding) \in Nat
        /\ Cardinality(Holding) <= Connections
    <3>1. IsFiniteSet(Holding) /\ Searching \in SUBSET Holding
      BY DEF Searching, IInv, PoolBounds
    <3>2. IsFiniteSet(Searching) /\ Cardinality(Searching) <= Cardinality(Holding)
      BY <3>1, FS_Subset
    <3> QED
      BY <3>1, <3>2, FS_CardinalityType DEF IInv, PoolBounds
  <2>3. Cardinality(Busy) \in Nat
        /\ Cardinality(Busy) + Cardinality(Queued)
              <= Cardinality(Holding) + Cardinality(Searching)
    BY CallsUnderWay, FS_CardinalityType
  <2>4. Connections \in Nat /\ Workers \in Nat
    BY CapacityAssumption
  <2> QED
    BY <2>1, <2>2, <2>3, <2>4
<1> QED
  BY <1>1, Invariance, PTL

(* A fetch of the companies that returns has the postings of every board    *)
(* that answers, wherever the others stand in the list.                     *)
THEOREM FailuresAlwaysSkipped == Spec => []FailuresAreSkipped
<1>1. IInv => FailuresAreSkipped
  <2> SUFFICES ASSUME IInv, NEW c \in Calls, work[<<c, "boards">>] = "returned"
               PROVE  call[c].got = reachable
    BY DEF FailuresAreSkipped
  <2>1. call[c].got = reachable \ call[c].todo /\ call[c].todo = {}
    BY DEF IInv, FetchesAll
  <2> QED
    BY <2>1
<1> QED
  BY <1>1, Invariance, PTL

-----------------------------------------------------------------------------
(* The most steps that a request has left: those of its own, of each of its *)
(* calls, the answer of its site, and one for each company to be fetched.   *)
OwnSteps(c) ==
    CASE call[c].pc \in Ended -> 0
      [] call[c].pc = "reviewing" -> 1
      [] call[c].pc = "awaiting" -> CASE call[c].stage = "call" -> 18
                                      [] call[c].stage = "search" -> 9
                                      [] OTHER -> 4
      [] OTHER -> (IF call[c].stage = "start" THEN 21 ELSE 0)
                  + CASE call[c].pc = "new" -> 4
                      [] call[c].pc = "asking" -> 3
                      [] OTHER -> 2
WorkSteps(t) == CASE work[t] = "queued" -> 4
                  [] work[t] \in {"calling", "waiting"} -> 2
                  [] work[t] = "joining" -> 1
                  [] OTHER -> 0
AnswerAhead(c) == IF call[c].site = "busy" THEN 1 ELSE 0
StepsLeft(c) ==
    OwnSteps(c) + AnswerAhead(c) + Cardinality(call[c].todo)
    + WorkSteps(<<c, "llm">>) + WorkSteps(<<c, "scrape">>) + WorkSteps(<<c, "boards">>)

StepsBounded == \A c \in Calls : StepsLeft(c) \in 0..(25 + Cardinality(Companies))

(* A step is one request's, and that has fewer left afterwards.             *)
OneRequestAdvances ==
    \E c \in Calls : /\ StepsLeft(c)' < StepsLeft(c)
                     /\ \A d \in Calls \ {c} :
                           /\ call'[d] = call[d]
                           /\ \A p \in Parts : work'[<<d, p>>] = work[<<d, p>>]

LEMMA StepsAreNumbers ==
    ASSUME TypeOK, IsFiniteSet(Companies), NEW c \in Calls
    PROVE  /\ OwnSteps(c) \in 0..25 /\ AnswerAhead(c) \in {0, 1}
           /\ \A t : WorkSteps(t) \in {0, 1, 2, 4}
           /\ IsFiniteSet(call[c].todo) /\ Cardinality(call[c].todo) \in Nat
           /\ StepsLeft(c) \in Nat
<1>1. OwnSteps(c) \in 0..25
  BY DEF OwnSteps
<1>2. AnswerAhead(c) \in {0, 1} /\ \A t : WorkSteps(t) \in {0, 1, 2, 4}
  BY DEF AnswerAhead, WorkSteps
<1>3. call[c].todo \in SUBSET Companies
  BY DEF TypeOK, Call
<1>4. IsFiniteSet(call[c].todo) /\ Cardinality(call[c].todo) \in Nat
  BY <1>3, FS_Subset, FS_CardinalityType
<1> QED
  BY <1>1, <1>2, <1>4 DEF StepsLeft

LEMMA EveryMoveCounts ==
    ASSUME IInv, TypeOK', IsFiniteSet(Companies), NEW c \in Calls, Moves(c)
    PROVE  StepsLeft(c)' < StepsLeft(c) /\ StepsLeft(c)' \in Nat
<1> DEFINE s == OwnSteps(c)  s2 == OwnSteps(c)'
           a == AnswerAhead(c)  a2 == AnswerAhead(c)'
           t == Cardinality(call[c].todo)  t2 == Cardinality(call'[c].todo)
           w(p) == WorkSteps(<<c, p>>)  w2(p) == WorkSteps(<<c, p>>)'
<1>1. /\ s \in 0..25 /\ a \in {0, 1} /\ t \in Nat
      /\ \A p : w(p) \in {0, 1, 2, 4}
  BY StepsAreNumbers DEF IInv
<1>2. /\ s2 \in 0..25 /\ a2 \in {0, 1} /\ t2 \in Nat
      /\ \A p : w2(p) \in {0, 1, 2, 4}
  <2>1. OwnSteps(c)' \in 0..25
    BY DEF OwnSteps
  <2>2. AnswerAhead(c)' \in {0, 1} /\ \A p : WorkSteps(<<c, p>>)' \in {0, 1, 2, 4}
    BY DEF AnswerAhead, WorkSteps
  <2>3. call'[c].todo \in SUBSET Companies
    BY DEF TypeOK, Call
  <2>4. Cardinality(call'[c].todo) \in Nat
    BY <2>3, FS_Subset, FS_CardinalityType
  <2> QED
    BY <2>1, <2>2, <2>4
<1>3. /\ StepsLeft(c) = s + a + t + w("llm") + w("scrape") + w("boards")
      /\ StepsLeft(c)' = s2 + a2 + t2 + w2("llm") + w2("scrape") + w2("boards")
  BY DEF StepsLeft
<1>4. /\ call'[c].site = call[c].site => a2 = a
      /\ call'[c].todo = call[c].todo => t2 = t
      /\ Stays(c) => s2 = s
      /\ \A p : work'[<<c, p>>] = work[<<c, p>>] => w2(p) = w(p)
  BY DEF AnswerAhead, OwnSteps, WorkSteps, Stays
<1>n. StepsLeft(c)' \in Nat
  <2> HIDE DEF s2, a2, t2, w2
  <2> QED
    BY <1>2, <1>3
<1> SUFFICES StepsLeft(c)' < StepsLeft(c)
  BY <1>n
<1>5. Fits(c) /\ call[c].pc \in {"new", "asking"} \cup Connected \cup Ended
  BY DEF IInv, CallsFit, TypeOK, Call
<1>6. "llm" \in Parts /\ "scrape" \in Parts /\ "boards" \in Parts
  BY DEF Parts
<1>7. CASE Goes(c)
  <2>1. s2 < s
    BY <1>5, <1>7 DEF Goes, Fits, OwnSteps, Connected, Ended
  <2>2. /\ a2 = a /\ t2 = t /\ w2("llm") = w("llm")
        /\ w2("scrape") = w("scrape") /\ w2("boards") = w("boards")
    BY <1>4, <1>6, <1>7 DEF Goes, Same, Keeps
  <2> HIDE DEF s, s2, a, a2, t, t2, w, w2
  <2> QED
    BY <1>1, <1>2, <1>3, <2>1, <2>2
<1>8. CASE Settles(c)
  <2>1. a = 1 /\ a2 = 0
    BY <1>8 DEF Settles, AnswerAhead, Answers
  <2>2. /\ s2 = s /\ t2 = t /\ w2("llm") = w("llm")
        /\ w2("scrape") = w("scrape") /\ w2("boards") = w("boards")
    BY <1>4, <1>6, <1>8 DEF Settles, Keeps
  <2> HIDE DEF s, s2, a, a2, t, t2, w, w2
  <2> QED
    BY <1>1, <1>2, <1>3, <2>1, <2>2
<1>9. CASE Fetches(c)
  <2>1. PICK company \in call[c].todo : call'[c].todo = call[c].todo \ {company}
    BY <1>9 DEF Fetches
  <2>2. t2 = t - 1
    <3>1. IsFiniteSet(call[c].todo)
      BY StepsAreNumbers DEF IInv
    <3>2. Cardinality(call[c].todo \ {company}) = Cardinality(call[c].todo) - 1
      BY <3>1, FS_RemoveElement
    <3> QED
      BY <2>1, <3>2
  <2>3. /\ s2 = s /\ a2 = a /\ w2("llm") = w("llm")
        /\ w2("scrape") = w("scrape") /\ w2("boards") = w("boards")
    BY <1>4, <1>6, <1>9 DEF Fetches, Keeps
  <2> HIDE DEF s, s2, a, a2, t, t2, w, w2
  <2> QED
    BY <1>1, <1>2, <1>3, <2>2, <2>3
<1>10. ASSUME NEW parts \in SUBSET Parts, Hands(c, parts)
       PROVE  StepsLeft(c)' < StepsLeft(c)
  <2>1. a2 = a /\ t2 = t
    BY <1>4, <1>10 DEF Hands, Same
  <2>2. \A p \in Parts : w2(p) = IF p \in parts THEN 4 ELSE w(p)
    <3> SUFFICES ASSUME NEW p \in Parts PROVE w2(p) = IF p \in parts THEN 4 ELSE w(p)
      OBVIOUS
    <3>1. CASE p \in parts
      <4>1. work'[<<c, p>>] = "queued"
        BY <1>10, <3>1 DEF Hands
      <4> QED
        BY <3>1, <4>1 DEF WorkSteps
    <3>2. CASE p \notin parts
      BY <1>4, <1>10, <3>2 DEF Hands
    <3> QED
      BY <3>1, <3>2
  <2>3. \/ /\ s - s2 = 5 /\ \E p \in Parts : parts = {p}
        \/ s - s2 = 9 /\ parts \subseteq {"scrape", "boards"}
    <3>1. CASE call[c].pc = "open" /\ call[c].stage = "start" /\ call'[c].stage = "call"
               /\ parts = {Part(call[c].kind)}
      <4>1. s = 23 /\ s2 = 18
        BY <1>10, <3>1 DEF Hands, OwnSteps, Ended
      <4> QED
        BY <3>1, <4>1
    <3>2. CASE call[c].pc = "awaiting" /\ call[c].stage = "call" /\ call'[c].stage = "search"
               /\ parts \subseteq {"scrape", "boards"}
      <4>1. s = 18 /\ s2 = 9
        BY <1>10, <3>2 DEF Hands, OwnSteps, Ended
      <4> QED
        BY <3>2, <4>1
    <3>3. CASE call[c].pc = "awaiting" /\ call[c].stage = "search" /\ call'[c].stage = "summary"
               /\ parts = {"llm"}
      <4>1. s = 9 /\ s2 = 4
        BY <1>10, <3>3 DEF Hands, OwnSteps, Ended
      <4> QED
        BY <1>6, <3>3, <4>1
    <3> QED
      BY <1>10, <3>1, <3>2, <3>3 DEF Hands
  <2> HIDE DEF s, s2, a, a2, t, t2, w, w2
  <2>4. CASE s - s2 = 5 /\ \E p \in Parts : parts = {p}
    BY <1>1, <1>2, <1>3, <2>1, <2>2, <2>4 DEF Parts
  <2>5. CASE s - s2 = 9 /\ parts \subseteq {"scrape", "boards"}
    <3>1. w2("llm") = w("llm")
      BY <1>6, <2>2, <2>5
    <3> QED
      BY <1>1, <1>2, <1>3, <2>1, <2>5, <3>1
  <2> QED
    BY <2>3, <2>4, <2>5
<1>11. ASSUME NEW p \in Parts, Works(c, p)
       PROVE  StepsLeft(c)' < StepsLeft(c)
  <2>1. s2 = s /\ t2 = t /\ \A o \in Parts \ {p} : w2(o) = w(o)
    BY <1>4, <1>11 DEF Works
  <2>2. a2 + w2(p) < a + w(p)
    <3>1. CASE call'[c].site = call[c].site /\ w2(p) < w(p)
      <4>1. a2 = a
        BY <1>4, <3>1
      <4> HIDE DEF a, a2, w, w2
      <4> QED
        BY <1>1, <1>2, <3>1, <4>1
    <3>2. CASE work[<<c, p>>] = "queued" /\ work'[<<c, p>>] = "waiting"
      <4>1. w(p) = 4 /\ w2(p) = 2
        BY <3>2 DEF WorkSteps
      <4> HIDE DEF a, a2, w, w2
      <4> QED
        BY <1>1, <1>2, <4>1
    <3>3. \/ call'[c].site = call[c].site /\ w2(p) < w(p)
          \/ work[<<c, p>>] = "queued" /\ work'[<<c, p>>] = "waiting"
      BY <1>11 DEF Works, WorkSteps, Over
    <3> QED
      BY <3>1, <3>2, <3>3
  <2> HIDE DEF s, s2, a, a2, t, t2, w, w2
  <2>3. \A o \in Parts : w(o) \in Nat /\ w2(o) \in Nat
    BY <1>1, <1>2
  <2> QED
    BY <1>1, <1>2, <1>3, <2>1, <2>2, <2>3 DEF Parts
<1> QED
  BY <1>7, <1>8, <1>9, <1>10, <1>11 DEF Moves

LEMMA OthersKeepTheirSteps ==
    ASSUME NEW c, call'[c] = call[c],
           \A p \in Parts : work'[<<c, p>>] = work[<<c, p>>]
    PROVE  StepsLeft(c)' = StepsLeft(c)
<1>1. OwnSteps(c)' = OwnSteps(c) /\ AnswerAhead(c)' = AnswerAhead(c)
  BY DEF OwnSteps, AnswerAhead
<1>2. \A p \in Parts : WorkSteps(<<c, p>>)' = WorkSteps(<<c, p>>)
  BY DEF WorkSteps
<1>3. "llm" \in Parts /\ "scrape" \in Parts /\ "boards" \in Parts
  BY DEF Parts
<1>4. /\ WorkSteps(<<c, "llm">>)' = WorkSteps(<<c, "llm">>)
      /\ WorkSteps(<<c, "scrape">>)' = WorkSteps(<<c, "scrape">>)
      /\ WorkSteps(<<c, "boards">>)' = WorkSteps(<<c, "boards">>)
  BY <1>2, <1>3
<1> QED
  BY <1>1, <1>4 DEF StepsLeft

(* No request loops, in the event loop, a thread or a retry: whatever the   *)
(* others and the sites do, it has at most 25 steps and one for each        *)
(* company, a chat message with all its calls too, so it can only fail to   *)
(* end by being kept from its next one.                                     *)
THEOREM RequestsTakeBoundedSteps ==
    ASSUME IsFiniteSet(Companies)
    PROVE  Spec => []StepsBounded /\ [][OneRequestAdvances]_vars
<1>1. Init => StepsBounded
  <2> SUFFICES ASSUME Init, NEW c \in Calls
               PROVE  StepsLeft(c) \in 0..(25 + Cardinality(Companies))
    BY DEF StepsBounded
  <2>1. /\ call[c].pc = "new" /\ call[c].stage = "start"
        /\ call[c].site = "none" /\ call[c].todo = Companies
        /\ \A p \in Parts : work[<<c, p>>] = "idle"
    BY DEF Init, New, Tasks
  <2>2. OwnSteps(c) = 25 /\ AnswerAhead(c) = 0
        /\ \A p \in Parts : WorkSteps(<<c, p>>) = 0
    BY <2>1 DEF OwnSteps, AnswerAhead, WorkSteps, Ended
  <2>3. Cardinality(Companies) \in Nat
    BY FS_CardinalityType
  <2> QED
    BY <2>1, <2>2, <2>3 DEF StepsLeft, Parts
<1>2. ASSUME IInv, TypeOK', Next
      PROVE  OneRequestAdvances /\ (StepsBounded => StepsBounded')
  <2>1. PICK c \in Calls : Only(c) /\ Moves(c)
    BY <1>2, OneRequestMoves
  <2>2. StepsLeft(c)' < StepsLeft(c)
    BY <1>2, <2>1, EveryMoveCounts
  <2>3. \A d \in Calls \ {c} : StepsLeft(d)' = StepsLeft(d)
    BY <2>1, OthersKeepTheirSteps DEF Only
  <2>4. StepsLeft(c)' \in Nat /\ StepsLeft(c) \in Nat /\ Cardinality(Companies) \in Nat
    BY <1>2, <2>1, EveryMoveCounts, StepsAreNumbers, FS_CardinalityType DEF IInv
  <2>5. StepsBounded => StepsBounded'
    <3> SUFFICES ASSUME StepsBounded, NEW d \in Calls
                 PROVE  StepsLeft(d)' \in 0..(25 + Cardinality(Companies))
      BY DEF StepsBounded
    <3>1. CASE d = c
      BY <2>2, <2>4, <3>1 DEF StepsBounded
    <3>2. CASE d # c
      BY <2>3, <3>2 DEF StepsBounded
    <3> QED
      BY <3>1, <3>2
  <2> QED
    BY <2>1, <2>2, <2>5 DEF OneRequestAdvances, Only
<1>3. UNCHANGED vars /\ StepsBounded => StepsBounded'
  BY OthersKeepTheirSteps DEF vars, StepsBounded
<1>4. IInv /\ TypeOK' /\ [Next]_vars /\ StepsBounded
         => StepsBounded' /\ [OneRequestAdvances]_vars
  BY <1>2, <1>3
<1> QED
  BY <1>1, <1>4, TypeCorrect, Invariance, PTL DEF Spec

-----------------------------------------------------------------------------
(* Some step of c's own, other than its first, has its guard: Connect or    *)
(* Refuse; Submit, Review or Respond; what follows an awaited call; the     *)
(* next search or summary; Reviewed; Finish or Fetch; Result or Expire;     *)
(* Join; Answer and Hang.                                                   *)
Ready(c) ==
    \/ At(c, "asking") /\ LoopFree
    \/ /\ At(c, "open") /\ LoopFree
       /\ \/ For(c, "start") /\ ~Kind(c, {"short"})
          \/ For(c, "committed") /\ Kind(c, {"document"})
          \/ Complete(c)
    \/ /\ At(c, "awaiting") /\ LoopFree /\ ~For(c, "search")
       /\ \/ Main(c) = "raised" \/ Complete(c)
          \/ /\ Main(c) = "returned"
             /\ \/ For(c, "call") /\ Kind(c, {"llm", "document", "chat"})
                \/ For(c, "summary")
    \/ /\ At(c, "awaiting") /\ LoopFree /\ For(c, "search")
       /\ \A p \in {"scrape", "boards"} : work[<<c, p>>] \in {"idle"} \cup Over
    \/ At(c, "reviewing")
    \/ work[<<c, "llm">>] = "calling" \/ work[<<c, "boards">>] = "calling"
    \/ work[<<c, "scrape">>] = "waiting"
    \/ work[<<c, "scrape">>] = "joining" /\ call[c].site \in Answers
    \/ call[c].site = "busy"
WorkerReady == queue # <<>> /\ Cardinality(Busy) < Workers

(* Nobody waits for anybody in a circle, with any pool and executor: when   *)
(* neither a request nor a worker can go on, each request that has begun is *)
(* answered or waits for a thread that hangs, its own or, with a call in    *)
(* the queue, as many as there are workers.                                 *)
OnlyHungSitesStop ==
    (~WorkerReady /\ \A c \in Calls : ~Ready(c)) =>
        \A c \in Calls :
            \/ call[c].pc \in {"new"} \cup Ended
            \/ Stuck(c)
            \/ /\ \E p \in Parts : work[<<c, p>>] = "queued"
               /\ Cardinality({d \in Calls : Stuck(d)}) >= Workers

THEOREM OnlyHungSitesEverStop == Spec => []OnlyHungSitesStop
<1>1. ASSUME IInv PROVE OnlyHungSitesStop
  <2> DEFINE Hung == {d \in Calls : Stuck(d)}
  <2> SUFFICES ASSUME ~WorkerReady, \A c \in Calls : ~Ready(c),
                      NEW c \in Calls, call[c].pc \notin {"new"} \cup Ended,
                      ~Stuck(c)
               PROVE  /\ \E p \in Parts : work[<<c, p>>] = "queued"
                      /\ Cardinality(Hung) >= Workers
    BY DEF OnlyHungSitesStop
  <2> USE DEF At, Kind, For
  <2>1. LoopFree
    BY DEF Ready, LoopFree
  <2>2. \A d \in Calls : call[d] \in Call /\ Fits(d) /\ ~Ready(d)
    BY <1>1 DEF IInv, TypeOK, CallsFit
  <2>3. \A d \in Calls, p \in Parts :
           work[<<d, p>>] \in {"idle", "queued"} \cup InWorker \cup Over
    BY <1>1 DEF IInv, TypeOK, Tasks
  <2>4. ASSUME NEW d \in Calls, NEW p \in Parts
        PROVE  \/ work[<<d, p>>] \in {"idle", "queued"} \cup Over
               \/ p = "scrape" /\ Stuck(d)
    <3>1. /\ work[<<d, p>>] \in {"idle", "queued"} \cup InWorker \cup Over
          /\ Fits(d) /\ ~Ready(d)
          /\ call[d].site \in {"none", "busy", "hung"} \cup Answers
      BY <2>2, <2>3 DEF Call
    <3>2. CASE p = "llm"
      BY <3>1, <3>2 DEF Fits, Ready, InWorker
    <3>3. CASE p = "boards"
      BY <3>1, <3>3 DEF Fits, Ready, InWorker
    <3>4. CASE p = "scrape"
      BY <3>1, <3>4 DEF Fits, Ready, InWorker, Stuck
    <3> QED
      BY <3>2, <3>3, <3>4 DEF Parts
  <2>5. call[c].pc = "awaiting"
    <3>1. /\ call[c].kind \in Kinds
          /\ call[c].stage \in {"start", "call", "search", "summary", "committed"}
          /\ call[c].pc \in {"new", "asking"} \cup Connected \cup Ended
      BY <2>2 DEF Call
    <3>2. Fits(c) /\ ~Ready(c)
      BY <2>2
    <3>3. call[c].pc \notin {"asking", "reviewing"}
      BY <2>1, <3>2 DEF Ready
    <3>4. call[c].pc # "open"
      BY <2>1, <3>1, <3>2 DEF Ready, Complete, Fits, Kinds
    <3> QED
      BY <3>1, <3>3, <3>4 DEF Connected
  <2>6. \E p \in Parts : work[<<c, p>>] = "queued"
    <3>1. call[c].kind \in Kinds /\ Fits(c) /\ ~Ready(c)
          /\ call[c].stage \in {"call", "search", "summary"}
      BY <2>2, <2>5 DEF Call, Fits
    <3>2. "scrape" \in Parts /\ "boards" \in Parts /\ Part(call[c].kind) \in Parts
      BY DEF Part, Parts
    <3>3. CASE call[c].stage = "search"
      <4>1. \A p \in {"scrape", "boards"} :
               work[<<c, p>>] \in {"idle", "queued"} \cup Over
        BY <2>4, <3>2
      <4>2. \E p \in {"scrape", "boards"} : work[<<c, p>>] \notin {"idle"} \cup Over
        BY <2>1, <2>5, <3>1, <3>3 DEF Ready
      <4> QED
        BY <3>2, <4>1, <4>2
    <3>4. CASE call[c].stage # "search"
      <4>1. Main(c) \in {"queued"} \cup Over
        BY <2>4, <2>5, <3>1, <3>2, <3>4 DEF Main, Fits
      <4>2. Main(c) # "raised"
        BY <2>1, <2>5, <3>1, <3>4 DEF Ready
      <4>3. Main(c) # "returned"
        BY <2>1, <2>5, <3>1, <3>4 DEF Ready, Complete, Fits, Kinds
      <4> QED
        BY <3>2, <4>1, <4>2, <4>3 DEF Main, Over
    <3> QED
      BY <3>3, <3>4
  <2>7. queue # <<>>
    <3>1. PICK p \in Parts : work[<<c, p>>] = "queued"
      BY <2>6
    <3>2. <<c, p>> \in Queued
      BY <3>1 DEF Queued, Tasks
    <3>3. PICK i \in 1..Len(queue) : queue[i] = <<c, p>>
      BY <1>1, <3>2 DEF IInv, QueueListsQueued, Lists
    <3> QED
      BY <3>3
  <2>8. Cardinality(Busy) >= Workers
    <3>1. Cardinality(Busy) \in Nat /\ Workers \in Nat
      BY <1>1, CallsUnderWay, FS_CardinalityType, CapacityAssumption
    <3> QED
      BY <2>7, <3>1 DEF WorkerReady
  <2>9. Cardinality(Hung) = Cardinality(Busy)
    <3>1. \A t \in Busy : t = <<t[1], "scrape">> /\ t[1] \in Hung
      <4> SUFFICES ASSUME NEW t \in Busy PROVE t = <<t[1], "scrape">> /\ t[1] \in Hung
        OBVIOUS
      <4>1. PICK d \in Calls, p \in Parts : t = <<d, p>>
        BY DEF Busy, Tasks
      <4>2. work[<<d, p>>] \in InWorker
        BY <4>1 DEF Busy
      <4> QED
        BY <2>4, <4>1, <4>2 DEF InWorker, Over
    <3>2. \A d \in Hung : <<d, "scrape">> \in Busy
      BY DEF Stuck, Busy, Tasks, Parts, InWorker
    <3>3. IsFiniteSet(Busy)
      BY <1>1, CallsUnderWay
    <3> DEFINE f == [d \in Hung |-> <<d, "scrape">>]
    <3>4. f \in Bijection(Hung, Busy)
      <4>1. f \in [Hung -> Busy]
        BY <3>2
      <4>2. \A d, e \in Hung : f[d] = f[e] => d = e
        OBVIOUS
      <4>3. \A t \in Busy : \E d \in Hung : f[d] = t
        BY <3>1
      <4> HIDE DEF f, Hung
      <4> QED
        BY <4>1, <4>2, <4>3 DEF Bijection, Injection, IsInjective, Surjection
    <3> HIDE DEF f, Hung
    <3>5. f \in Injection(Hung, Busy) /\ f \in Surjection(Hung, Busy)
      BY <3>4 DEF Bijection
    <3>6. IsFiniteSet(Hung)
      BY <3>3, <3>5, FS_Injection
    <3>7. ExistsBijection(Hung, Busy)
      BY <3>4 DEF ExistsBijection
    <3> QED
      BY <3>6, <3>7, FS_Bijection
  <2> HIDE DEF Hung
  <2> QED
    BY <2>6, <2>8, <2>9
<1> QED
  BY <1>1, Invariance, PTL

-----------------------------------------------------------------------------
(* A column holds what is left of a faithful date: the source's own, within *)
(* a day where it counts days and by a zone where a wall clock is kept.     *)
FaithfulWall(p, wall) ==
    /\ ~p.dated <=> wall = NULL
    /\ p.dated => wall \in Int
    /\ p.dated /\ p.source = "hasdata" => p.at <= wall /\ wall < p.at + Day
    /\ p.dated /\ p.timed /\ p.source \in {"iso", "greenhouse", "jobspy"} =>
          wall = p.at + p.zone
    /\ p.dated /\ p.source = "lever" => wall = p.at + LocalOffset
    /\ p.dated /\ ~p.timed /\ p.source \in {"iso", "greenhouse", "jobspy"} =>
          wall <= p.at + p.zone /\ p.at + p.zone < wall + Day

(* A result is of a posting that was there when it was found, and its date  *)
(* is faithful now as it was then.                                          *)
FaithfulResult(r) == /\ posting[r.job].at <= now
                     /\ FaithfulWall(posting[r.job], Wall(r.date))

ResultsFaithful ==
    /\ \A r \in found : FaithfulResult(r)
    /\ \A c \in Chats : \A r \in message[c].results : FaithfulResult(r)

RowsFaithful ==
    \A j \in Jobs : row[j] # NULL =>
        /\ FaithfulWall(posting[j], row[j].posted_at)
        /\ posting[j].at + DbOffset <= row[j].collected_at

DatesInv == DatesTypeOK /\ ResultsFaithful /\ RowsFaithful

-----------------------------------------------------------------------------
(* A whole number of days is at most, and within a day of, what it counts.  *)
LEMMA WholeDays ==
  ASSUME NEW n \in Int
  PROVE  /\ (n \div Day) * Day \in Int
         /\ (n \div Day) * Day <= n /\ n < (n \div Day) * Day + Day
<1>1. Day \in Nat \ {0}
  BY ZoneAssumption
<1>2. n = (n \div Day) * Day + (n % Day) /\ n % Day \in 0..(Day - 1) /\ n \div Day \in Int
  BY <1>1, SMTT(30)
<1>3. (n \div Day) * Day \in Int
  BY <1>1, <1>2, SMTT(30)
<1> QED
  BY <1>1, <1>2, <1>3

(* What is known of a posting, its zone and the zones of the two hosts.     *)
LEMMA PostingType ==
  ASSUME DatesTypeOK, NEW j \in Jobs
  PROVE  /\ posting[j].source \in Parsers /\ posting[j].at \in Int
         /\ posting[j].zone \in Int /\ posting[j].zoned \in BOOLEAN
         /\ posting[j].dated \in BOOLEAN /\ posting[j].timed \in BOOLEAN /\ now \in Int
         /\ -MaxOffset <= posting[j].zone /\ posting[j].zone <= MaxOffset
         /\ LocalOffset \in Int /\ -MaxOffset <= LocalOffset /\ LocalOffset <= MaxOffset
         /\ DbOffset \in Int /\ -MaxOffset <= DbOffset /\ DbOffset <= MaxOffset
         /\ MaxOffset \in Nat /\ Day \in Nat \ {0}
<1>1. posting[j] \in Posting /\ now \in 0..MaxTime
  BY PostingsAssumption DEF DatesTypeOK
<1>2. posting[j].zone \in Offsets /\ posting[j].at \in 0..MaxTime
  BY <1>1 DEF Posting
<1> QED
  BY <1>1, <1>2, ZoneAssumption DEF Posting

(* Every parser's date is a datetime, or none, and its wall clock faithful. *)
LEMMA ParsedFaithfully ==
  ASSUME DatesTypeOK, NEW j \in Jobs
  PROVE  /\ ParsedDate(posting[j]) \in Datetime \cup {NULL}
         /\ FaithfulWall(posting[j], Wall(ParsedDate(posting[j])))
<1> DEFINE p == posting[j]
           date == ParsedDate(p)
<1> USE PostingType
<1> HIDE DEF p, date
<1>0. p = posting[j] /\ date = ParsedDate(p) /\ NULL \notin Int
  BY NullIsNone DEF p, date
<1>1. CASE ~p.dated
  <2>1. date = NULL
    BY <1>0, <1>1 DEF ParsedDate
  <2> QED
    BY <1>0, <1>1, <2>1 DEF Wall, FaithfulWall
<1>2. ASSUME p.dated, date \in Datetime
      PROVE  date # NULL /\ Wall(date) = date.wall /\ date.wall \in Int
  BY <1>2, NullIsNone DEF Wall, Datetime
<1>3. CASE p.dated /\ p.source = "hasdata"
  <2> DEFINE old == ((now - p.at) \div Day) * Day
  <2>1. now - p.at \in Int /\ now \in Int /\ p.at \in Int
    BY <1>0
  <2>2. old \in Int /\ old <= now - p.at /\ now - p.at < old + Day
    BY <2>1, WholeDays
  <2>3. date = [wall |-> now - old, zone |-> 0]
    BY <1>0, <1>3 DEF ParsedDate, Aged
  <2> HIDE DEF old
  <2>4. now - old \in Int /\ p.at <= now - old /\ now - old < p.at + Day
    BY <2>1, <2>2, <1>0
  <2>5. date \in Datetime /\ date.wall = now - old
    BY <2>3, <2>4 DEF Datetime
  <2> QED
    BY <1>0, <1>2, <1>3, <2>4, <2>5 DEF FaithfulWall
<1>4. CASE p.dated /\ p.timed /\ p.source \in {"iso", "greenhouse", "jobspy"}
  <2>1. date = [wall |-> p.at + p.zone, zone |-> IF p.zoned THEN p.zone ELSE NULL]
    BY <1>0, <1>4 DEF ParsedDate, Iso
  <2>2. date \in Datetime /\ date.wall = p.at + p.zone
    BY <1>0, <2>1 DEF Datetime
  <2> QED
    BY <1>0, <1>2, <1>4, <2>2 DEF FaithfulWall
<1>5. CASE p.dated /\ p.source = "lever"
  <2>1. date = [wall |-> p.at + LocalOffset, zone |-> NULL]
    BY <1>0, <1>5 DEF ParsedDate, FromTimestamp, Naive
  <2>2. date \in Datetime /\ date.wall = p.at + LocalOffset
    BY <1>0, <2>1 DEF Datetime
  <2> QED
    BY <1>0, <1>2, <1>5, <2>2 DEF FaithfulWall
<1>6. CASE p.dated /\ ~p.timed /\ p.source \in {"iso", "greenhouse", "jobspy"}
  <2> DEFINE midnight == ((p.at + p.zone) \div Day) * Day
  <2>1. p.at + p.zone \in Int
    BY <1>0
  <2>2. midnight \in Int /\ midnight <= p.at + p.zone /\ p.at + p.zone < midnight + Day
    BY <2>1, WholeDays
  <2>3. date = [wall |-> midnight, zone |-> NULL]
    BY <1>0, <1>6 DEF ParsedDate, Iso, Midnight, Naive
  <2> HIDE DEF midnight
  <2>4. date \in Datetime /\ date.wall = midnight
    BY <2>2, <2>3 DEF Datetime
  <2> QED
    BY <1>0, <1>2, <1>6, <2>2, <2>4 DEF FaithfulWall
<1> QED
  BY <1>0, <1>1, <1>3, <1>4, <1>5, <1>6 DEF Parsers

(* So what a search finds is well typed and faithful.                       *)
LEMMA FoundFaithfully ==
  ASSUME DatesTypeOK, NEW jobs \in SUBSET Jobs, CanFind(jobs)
  PROVE  /\ Found(jobs) \subseteq DatedResult
         /\ \A r \in Found(jobs) : FaithfulResult(r)
<1> SUFFICES ASSUME NEW j \in jobs
             PROVE  ResultOf(j) \in DatedResult /\ FaithfulResult(ResultOf(j))
  BY DEF Found
<1>1. j \in Jobs /\ posting[j].at <= now
  BY DEF CanFind
<1>2. ResultOf(j).job = j /\ ResultOf(j).date = ParsedDate(posting[j])
  BY DEF ResultOf
<1> QED
  BY <1>1, <1>2, ParsedFaithfully DEF ResultOf, DatedResult, FaithfulResult

(* An insert of faithful results leaves faithful rows.                      *)
LEMMA InsertedFaithfully ==
  ASSUME DatesInv, NEW results, results \subseteq DatedResult,
         \A r \in results : FaithfulResult(r), NEW j \in Jobs
  PROVE  /\ Inserted(results)[j] \in Row \cup {NULL}
         /\ Inserted(results)[j] # NULL =>
              /\ FaithfulWall(posting[j], Inserted(results)[j].posted_at)
              /\ posting[j].at + DbOffset <= Inserted(results)[j].collected_at
<1> DEFINE new == Inserted(results)[j]
<1>1. DatesTypeOK /\ row[j] \in Row \cup {NULL}
  BY DEF DatesInv, DatesTypeOK
<1>2. CASE row[j] # NULL \/ ~\E r \in results : r.job = j
  <2>1. new = row[j]
    BY <1>2 DEF Inserted
  <2> QED
    BY <1>1, <2>1 DEF DatesInv, RowsFaithful
<1>3. CASE ~(row[j] # NULL \/ ~\E r \in results : r.job = j)
  <2> DEFINE s == CHOOSE r \in results : r.job = j
  <2>1. s \in results /\ s.job = j
    BY <1>3
  <2>2. new = [posted_at |-> Wall(s.date), collected_at |-> now + DbOffset]
    BY <1>3 DEF Inserted
  <2> HIDE DEF s
  <2>3. s.date \in Datetime \cup {NULL} /\ FaithfulResult(s)
    BY <2>1 DEF DatedResult
  <2>4. Wall(s.date) \in Int \cup {NULL}
    BY <2>3 DEF Wall, Datetime
  <2>5. now + DbOffset \in Int /\ posting[j].at <= now
    BY <1>1, <2>1, <2>3, PostingType DEF FaithfulResult
  <2>6. posting[j].at + DbOffset <= now + DbOffset
    BY <1>1, <2>5, PostingType
  <2>7. FaithfulWall(posting[j], Wall(s.date))
    BY <2>1, <2>3 DEF FaithfulResult
  <2> QED
    BY <2>2, <2>4, <2>5, <2>6, <2>7 DEF Row
<1> QED
  BY <1>2, <1>3

LEMMA DatesInitially ==
  ASSUME DatesInit
  PROVE  DatesInv
<1>1. 0 \in 0..MaxTime
  BY ZoneAssumption
<1> QED
  BY <1>1 DEF DatesInit, DatesInv, DatesTypeOK, ResultsFaithful, RowsFaithful, Message

(* A step that leaves the clock and the postings keeps what was faithful.   *)
LEMMA DatesStep ==
  ASSUME DatesInv, [DatesNext]_dateVars
  PROVE  DatesInv'
<1> USE DEF DatesInv
<1>1. ASSUME NEW jobs \in SUBSET Jobs, Search(jobs)
      PROVE  DatesInv'
  <2>1. Found(jobs) \subseteq DatedResult /\ \A r \in Found(jobs) : FaithfulResult(r)
    BY <1>1, FoundFaithfully DEF Search
  <2>2. DatesTypeOK'
    BY <1>1, <2>1 DEF Search, DatesTypeOK
  <2>3. ResultsFaithful' /\ RowsFaithful'
    BY <1>1, <2>1 DEF Search, ResultsFaithful, RowsFaithful, FaithfulResult, FaithfulWall
  <2> QED
    BY <2>2, <2>3
<1>2. ASSUME NEW results, results \subseteq DatedResult,
             \A r \in results : FaithfulResult(r), row' = Inserted(results),
             UNCHANGED <<now, posting, found, message, chatRows>>
      PROVE  DatesInv'
  <2>1. \A j \in Jobs :
           /\ row'[j] \in Row \cup {NULL}
           /\ row'[j] # NULL =>
                /\ FaithfulWall(posting[j], row'[j].posted_at)
                /\ posting[j].at + DbOffset <= row'[j].collected_at
    BY <1>2, InsertedFaithfully
  <2>2. row' \in [Jobs -> Row \cup {NULL}]
    BY <1>2, <2>1 DEF Inserted
  <2>3. DatesTypeOK'
    BY <1>2, <2>2 DEF DatesTypeOK
  <2>4. RowsFaithful'
    BY <1>2, <2>1 DEF RowsFaithful, FaithfulWall
  <2>5. ResultsFaithful'
    BY <1>2 DEF ResultsFaithful, FaithfulResult, FaithfulWall
  <2> QED
    BY <2>3, <2>4, <2>5
<1>3. ASSUME NEW r \in found, Save(r)
      PROVE  DatesInv'
  <2>1. {r} \subseteq DatedResult /\ \A s \in {r} : FaithfulResult(s)
    BY DEF DatesTypeOK, ResultsFaithful
  <2> QED
    BY <1>2, <1>3, <2>1 DEF Save
<1>4. ASSUME NEW jobs \in SUBSET Jobs, Ingest(jobs)
      PROVE  DatesInv'
  <2>1. Found(jobs) \subseteq DatedResult /\ \A r \in Found(jobs) : FaithfulResult(r)
    BY <1>4, FoundFaithfully DEF Ingest
  <2> QED
    BY <1>2, <1>4, <2>1 DEF Ingest
<1>5. ASSUME NEW c \in Chats, NEW jobs \in SUBSET Jobs, ChatSearch(c, jobs)
      PROVE  DatesInv'
  <2>1. Found(jobs) \subseteq DatedResult /\ \A r \in Found(jobs) : FaithfulResult(r)
    BY <1>5, FoundFaithfully DEF ChatSearch
  <2>2. [pc |-> "searched", results |-> Found(jobs)] \in Message
    BY <2>1 DEF Message
  <2>3. DatesTypeOK'
    BY <1>5, <2>2 DEF ChatSearch, DatesTypeOK
  <2>4. \A d \in Chats : \A r \in message'[d].results : FaithfulResult(r)
    BY <1>5, <2>1 DEF ChatSearch, ResultsFaithful, DatesTypeOK
  <2>5. ResultsFaithful' /\ RowsFaithful'
    BY <1>5, <2>4 DEF ChatSearch, ResultsFaithful, RowsFaithful, FaithfulResult, FaithfulWall
  <2> QED
    BY <2>3, <2>5
<1>6. ASSUME NEW c \in Chats, Stage(c)
      PROVE  DatesInv'
  <2> DEFINE m == message[c]
  <2>1. m \in Message /\ m.results \subseteq DatedResult
    BY DEF DatesTypeOK, Message
  <2>2. UNCHANGED <<now, posting, row>>
    BY <1>6 DEF Stage
  <2>3. PICK pc \in {"failed", "idle"} : message' = [message EXCEPT ![c].pc = pc]
    BY <1>6 DEF Stage
  <2>4. \A d \in Chats : message'[d].results = message[d].results
    BY <2>1, <2>3 DEF DatesTypeOK, Message
  <2>5. message' \in [Chats -> Message]
    BY <2>1, <2>3 DEF DatesTypeOK, Message
  <2>6. CASE \E r \in m.results : Zoned(r.date)
    <3>1. UNCHANGED <<chatRows, found>>
      BY <1>6, <2>6 DEF Stage
    <3>2. DatesTypeOK'
      BY <2>2, <2>5, <3>1 DEF DatesTypeOK
    <3> QED
      BY <2>2, <2>4, <3>1, <3>2
      DEF ResultsFaithful, RowsFaithful, FaithfulResult, FaithfulWall
  <2>7. CASE ~\E r \in m.results : Zoned(r.date)
    <3>1. chatRows' = [chatRows EXCEPT ![c] = m.results] /\ found' = found \cup m.results
      BY <1>6, <2>7 DEF Stage
    <3>2. \A r \in m.results : r \in NaiveResult
      <4> TAKE r \in m.results
      <4>1. r \in DatedResult /\ ~Zoned(r.date)
        BY <2>1, <2>7
      <4>2. r.date = NULL \/ r.date \in [wall : Int, zone : {NULL}]
        BY <4>1 DEF DatedResult, Zoned, Datetime
      <4> QED
        BY <4>1, <4>2 DEF DatedResult, NaiveResult
    <3>3. chatRows' \in [Chats -> SUBSET NaiveResult]
      BY <3>1, <3>2 DEF DatesTypeOK
    <3>4. DatesTypeOK'
      BY <2>1, <2>2, <2>5, <3>1, <3>3 DEF DatesTypeOK
    <3>5. \A r \in found' : FaithfulResult(r)
      BY <3>1 DEF ResultsFaithful
    <3> QED
      BY <2>2, <2>4, <3>4, <3>5
      DEF ResultsFaithful, RowsFaithful, FaithfulResult, FaithfulWall
  <2> QED
    BY <2>6, <2>7
<1>7. CASE Tick
  <2>1. now \in Nat /\ now' = now + 1 /\ now < MaxTime
    BY <1>7, ZoneAssumption DEF Tick, DatesTypeOK
  <2>2. DatesTypeOK'
    BY <1>7, <2>1, ZoneAssumption DEF Tick, DatesTypeOK
  <2>3. \A r \in DatedResult : FaithfulResult(r) => FaithfulResult(r)'
    <3> TAKE r \in DatedResult
    <3>1. r.job \in Jobs
      BY DEF DatedResult
    <3>2. posting[r.job].at \in Int
      BY <3>1, PostingType
    <3> QED
      BY <1>7, <2>1, <3>2 DEF Tick, FaithfulResult, FaithfulWall
  <2>4. found \subseteq DatedResult /\ \A c \in Chats : message[c].results \subseteq DatedResult
    BY DEF DatesTypeOK, Message
  <2>5. ResultsFaithful'
    BY <1>7, <2>3, <2>4 DEF Tick, ResultsFaithful
  <2>6. RowsFaithful'
    BY <1>7 DEF Tick, RowsFaithful, FaithfulWall
  <2> QED
    BY <2>2, <2>5, <2>6
<1>8. CASE UNCHANGED dateVars
  BY <1>8 DEF dateVars, DatesTypeOK, ResultsFaithful, RowsFaithful, FaithfulResult,
              FaithfulWall
<1> QED
  BY <1>1, <1>3, <1>4, <1>5, <1>6, <1>7, <1>8 DEF DatesNext

(* Nothing between a search and a save takes a result or a row further from *)
(* its posting's date than the parser of its source did.                    *)
THEOREM DatesInvariance == DatesSpec => []DatesInv
<1> QED
  BY DatesInitially, DatesStep, PTL DEF DatesSpec

(* What a saved job's listing compares: a wall clock within a zone and a    *)
(* day of when it was posted.                                               *)
LEMMA ListedDate ==
  ASSUME DatesInv, NEW j \in Jobs, NEW days \in 1..MaxTime, row[j] # NULL
  PROVE  /\ days * Day \in Int
         /\ j \in Listed(days) <=>
              IF posting[j].dated THEN row[j].posted_at >= now - days * Day
                                  ELSE row[j].collected_at >= now - days * Day
         /\ row[j].collected_at \in Int
         /\ FaithfulWall(posting[j], row[j].posted_at)
         /\ posting[j].at + DbOffset <= row[j].collected_at
<1>1. row[j] \in Row /\ days \in Int /\ Day \in Int
  BY ZoneAssumption DEF DatesInv, DatesTypeOK
<1>2. /\ FaithfulWall(posting[j], row[j].posted_at)
      /\ posting[j].at + DbOffset <= row[j].collected_at
  BY DEF DatesInv, RowsFaithful
<1>3. posting[j].dated \in BOOLEAN
  BY PostingType DEF DatesInv
<1>4. posting[j].dated <=> row[j].posted_at # NULL
  BY <1>2, <1>3 DEF FaithfulWall
<1>5. days * Day \in Int
  BY <1>1
<1> QED
  BY <1>1, <1>2, <1>4, <1>5 DEF Listed, Cutoff, Row

(* Clock, results, staged rows and jobs keep their types: what is staged    *)
(* never has a zone.                                                        *)
THEOREM DatesTypeCorrect == DatesSpec => []DatesTypeOK
<1> QED
  BY DatesInvariance, PTL DEF DatesInv

(* list_jobs() is right within Slack, whatever the zones and the sources.   *)
THEOREM AlwaysListedByAge == DatesSpec => []ListedByAge
<1>1. ASSUME DatesInv PROVE ListedByAge
  <2> SUFFICES ASSUME NEW j \in Jobs, NEW days \in 1..MaxTime, row[j] # NULL
               PROVE  /\ Age(j) <= days * Day - Slack => j \in Listed(days)
                      /\ posting[j].dated /\ Age(j) > days * Day + Slack
                           => j \notin Listed(days)
    BY DEF ListedByAge
  <2> DEFINE past == days * Day
  <2>1. DatesTypeOK
    BY <1>1 DEF DatesInv
  <2>2. past \in Int
    BY <1>1, ListedDate
  <2>3. j \in Listed(days) <=> IF posting[j].dated THEN row[j].posted_at >= now - past
                                                  ELSE row[j].collected_at >= now - past
    BY <1>1, ListedDate
  <2>4. /\ row[j].collected_at \in Int
        /\ FaithfulWall(posting[j], row[j].posted_at)
        /\ posting[j].at + DbOffset <= row[j].collected_at
    BY <1>1, ListedDate
  <2> HIDE DEF past
  <2>5. /\ Age(j) <= past - Slack => j \in Listed(days)
        /\ posting[j].dated /\ Age(j) > past + Slack => j \notin Listed(days)
    BY <2>1, <2>2, <2>3, <2>4, PostingType, SMTT(60)
    DEF FaithfulWall, Slack, Age, Parsers
  <2> QED
    BY <2>5 DEF past
<1> QED
  BY <1>1, DatesInvariance, PTL

(* It is exact for a date given in UTC, on any host and any path.           *)
THEOREM UtcAlwaysListedExactly == DatesSpec => []UtcListedExactly
<1>1. ASSUME DatesInv PROVE UtcListedExactly
  <2> SUFFICES ASSUME NEW j \in Jobs, NEW days \in 1..MaxTime, row[j] # NULL,
                      posting[j].dated, posting[j].timed,
                      posting[j].source = "iso", posting[j].zone = 0
               PROVE  j \in Listed(days) <=> Age(j) <= days * Day
    BY DEF UtcListedExactly
  <2> DEFINE past == days * Day
  <2>1. DatesTypeOK /\ past \in Int
    BY <1>1, ListedDate DEF DatesInv
  <2>2. j \in Listed(days) <=> row[j].posted_at >= now - past
    BY <1>1, ListedDate
  <2>3. row[j].posted_at = posting[j].at + posting[j].zone
    BY <1>1, ListedDate DEF FaithfulWall
  <2> HIDE DEF past
  <2>4. j \in Listed(days) <=> Age(j) <= past
    BY <2>1, <2>2, <2>3, PostingType DEF Age
  <2> QED
    BY <2>4 DEF past
<1> QED
  BY <1>1, DatesInvariance, PTL

(* No job whose source counts days is listed late, nor a day too early.     *)
THEOREM AgedAlwaysNeverOlder == DatesSpec => []AgedNeverOlder
<1>1. ASSUME DatesInv PROVE AgedNeverOlder
  <2> SUFFICES ASSUME NEW j \in Jobs, NEW days \in 1..MaxTime, row[j] # NULL,
                      posting[j].dated, posting[j].source = "hasdata"
               PROVE  /\ Age(j) <= days * Day => j \in Listed(days)
                      /\ Age(j) >= (days + 1) * Day => j \notin Listed(days)
    BY DEF AgedNeverOlder
  <2> DEFINE past == days * Day
  <2>1. DatesTypeOK /\ past \in Int
    BY <1>1, ListedDate DEF DatesInv
  <2>2. j \in Listed(days) <=> row[j].posted_at >= now - past
    BY <1>1, ListedDate
  <2>3. /\ posting[j].at <= row[j].posted_at /\ row[j].posted_at < posting[j].at + Day
        /\ row[j].posted_at \in Int
    BY <1>1, ListedDate DEF FaithfulWall
  <2>4. (days + 1) * Day = past + Day
    BY <2>1, ZoneAssumption, SMTT(30)
  <2> HIDE DEF past
  <2>5. /\ Age(j) <= past => j \in Listed(days)
        /\ Age(j) >= past + Day => j \notin Listed(days)
    BY <2>1, <2>2, <2>3, PostingType DEF Age
  <2> QED
    BY <2>4, <2>5 DEF past
<1> QED
  BY <1>1, DatesInvariance, PTL
=============================================================================
