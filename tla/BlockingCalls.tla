---------------------------- MODULE BlockingCalls ----------------------------
(***************************************************************************)
(* What requests wait for: a connection of the pool, a worker thread, the   *)
(* event loop.  A request's session takes a connection for the token's user *)
(* and keeps it, idle in its transaction, until a commit or its end;        *)
(* asyncio.to_thread() hands a blocking call to one of the loop's worker    *)
(* threads, first come first served; the review of a document runs on the   *)
(* event loop itself, which does nothing else meanwhile.  Most requests     *)
(* make one blocking call; a chat message makes one, then up to two at      *)
(* once, then another.                                                      *)
(*                                                                          *)
(* LLM calls and fetches from boards with a request time-out end by         *)
(* themselves.  A scrape starts a thread of its own and waits 90 seconds    *)
(* for it; leaving the `with` block joins that thread, however long it      *)
(* takes.  A site hangs or answers; jobspy passes no time-out on.  A client *)
(* that gives up does not stop its request: nothing here depends on one.    *)
(***************************************************************************)
EXTENDS Sequences, FiniteSets, Naturals
CONSTANTS Calls,
          Connections,  \* pool_size and max_overflow
          Workers,      \* threads of the loop's default executor
          Companies     \* entries of companies.yaml

ASSUME CapacityAssumption == /\ Connections \in Nat \ {0}
                             /\ Workers \in Nat \ {0}

VARIABLES
    call,       \* what each request is doing
    work,       \* its blocking calls
    queue,      \* the default executor's work queue
    reachable   \* companies whose board answers with postings

vars == <<call, work, queue, reachable>>

(* Requests that make no blocking call (the MCP sources are searched on the *)
(* loop, each with a time-out), that ask the LLM, that generate a document,  *)
(* that fetch all companies' boards, that scrape, and chat messages.         *)
Kinds == {"short", "llm", "document", "boards", "scrape", "chat"}
Parts == {"llm", "boards", "scrape"}
Part(kind) == IF kind \in {"boards", "scrape"} THEN kind ELSE "llm"
Tasks == Calls \X Parts

Connected == {"open", "awaiting", "reviewing"}
Ended == {"done", "failed"}
InWorker == {"calling", "waiting", "joining"}
Over == {"returned", "raised"}
Answers == {"answered", "raised"}

(* `stage` is what its blocking calls are for: the one of most kinds or a   *)
(* message's extract_intent(), a message's sources, its summaries; then     *)
(* what they gave is committed.  `site` is the state of a scrape's own      *)
(* thread, `todo` and `got` the companies still to be fetched and those     *)
(* whose postings it has.                                                   *)
Call == [pc : {"new", "asking"} \cup Connected \cup Ended, kind : Kinds,
         stage : {"start", "call", "search", "summary", "committed"},
         site : {"none", "busy", "hung"} \cup Answers,
         todo : SUBSET Companies, got : SUBSET Companies]

TypeOK == /\ call \in [Calls -> Call]
          /\ work \in [Tasks -> {"idle", "queued"} \cup InWorker \cup Over]
          /\ queue \in Seq(Tasks)
          /\ reachable \subseteq Companies

New(kind) == [pc |-> "new", kind |-> kind, stage |-> "start",
              site |-> "none", todo |-> Companies, got |-> {}]

Init ==
    /\ call \in [Calls -> {New(k) : k \in Kinds}]
    /\ work = [t \in Tasks |-> "idle"]
    /\ queue = <<>>
    /\ reachable \in SUBSET Companies

-----------------------------------------------------------------------------
At(c, pc) == call[c].pc = pc
Kind(c, kinds) == call[c].kind \in kinds
For(c, stage) == call[c].stage = stage
Go(c, pc) == call' = [call EXCEPT ![c].pc = pc] /\ UNCHANGED work
Holding == {c \in Calls : call[c].pc \in Connected}
Busy == {t \in Tasks : work[t] \in InWorker}
Becomes(t, state) == work' = [work EXCEPT ![t] = state] /\ UNCHANGED call

(* The call whose outcome decides whether the request goes on.              *)
Main(c) == work[<<c, Part(call[c].kind)>>]

(* No document is being reviewed.                                           *)
LoopFree == \A c \in Calls : ~At(c, "reviewing")

(* asyncio.to_thread() for each of the parts, which are awaited together.   *)
Hand(c, stage, parts) ==
    /\ LoopFree
    /\ call' = [call EXCEPT ![c] = [@ EXCEPT !.pc = "awaiting",
                                             !.stage = stage]]
    /\ work' = [t \in Tasks |-> IF t \in {c} \X parts THEN "queued" ELSE work[t]]
    /\ LET Put(q, p) == IF p \in parts THEN Append(q, <<c, p>>) ELSE q IN
       queue' = Put(Put(Put(queue, "llm"), "scrape"), "boards")
    /\ UNCHANGED reachable

(* get_current_user() needs the request's first connection.                 *)
Ask(c) ==
    /\ At(c, "new") /\ LoopFree
    /\ Go(c, "asking")
    /\ UNCHANGED <<queue, reachable>>

\* Mutant: no bound on the overflow.
ConnectUnbounded(c) ==
    /\ At(c, "asking") /\ LoopFree
    /\ Go(c, "open")
    /\ UNCHANGED <<queue, reachable>>

Connect(c) ==
    /\ At(c, "asking") /\ LoopFree
    /\ Cardinality(Holding) < Connections
    /\ Go(c, "open")
    /\ UNCHANGED <<queue, reachable>>

(* pool_timeout is over: an error, also when the call was made before.      *)
Refuse(c) ==
    /\ At(c, "asking") /\ LoopFree
    /\ Cardinality(Holding) >= Connections
    /\ Go(c, "failed")
    /\ UNCHANGED <<queue, reachable>>

Submit(c) ==
    /\ At(c, "open") /\ For(c, "start") /\ ~Kind(c, {"short"})
    /\ Hand(c, "call", {Part(call[c].kind)})

(* run_search(): the sources that extract_intent() picked, at once.         *)
RunSearch(c) ==
    /\ At(c, "awaiting") /\ For(c, "call") /\ Kind(c, {"chat"})
    /\ Main(c) = "returned"
    /\ \E sources \in SUBSET {"scrape", "boards"} : Hand(c, "search", sources)

(* gather() has waited for all; one that raised is skipped.                 *)
Summarize(c) ==
    /\ At(c, "awaiting") /\ For(c, "search")
    /\ \A p \in {"scrape", "boards"} : work[<<c, p>>] \in {"idle"} \cup Over
    /\ Hand(c, "summary", {"llm"})

(* A free worker takes the oldest call; a scrape starts its own thread.     *)
Take ==
    /\ queue # <<>> /\ Cardinality(Busy) < Workers
    /\ LET t == Head(queue) IN
       IF t[2] = "scrape"
       THEN /\ work' = [work EXCEPT ![t] = "waiting"]
            /\ call' = [call EXCEPT ![t[1]].site = "busy"]
       ELSE Becomes(t, "calling")
    /\ queue' = Tail(queue)
    /\ UNCHANGED reachable

(* structured_call(): an answer, an error or a time-out.                    *)
Finish(c) ==
    /\ work[<<c, "llm">>] = "calling"
    /\ \E over \in Over : Becomes(<<c, "llm">>, over)
    /\ UNCHANGED <<queue, reachable>>

\* Mutant: the first company that fails ends the fetch.
FetchUntilFailure(c) ==
    /\ work[<<c, "boards">>] = "calling"
    /\ IF call[c].todo = {} THEN Becomes(<<c, "boards">>, "returned")
       ELSE \E company \in call[c].todo :
               /\ call' = [call EXCEPT ![c] =
                              IF company \in reachable
                              THEN [@ EXCEPT !.todo = @ \ {company},
                                             !.got = @ \cup {company}]
                              ELSE [@ EXCEPT !.todo = {}]]
               /\ UNCHANGED work
    /\ UNCHANGED <<queue, reachable>>

(* fetch_all_targets(): one company after the other; one that cannot be     *)
(* fetched, for whatever reason, is skipped.                                *)
Fetch(c) ==
    /\ work[<<c, "boards">>] = "calling"
    /\ IF call[c].todo = {} THEN Becomes(<<c, "boards">>, "returned")
       ELSE \E company \in call[c].todo :
               /\ call' = [call EXCEPT
                              ![c].todo = @ \ {company},
                              ![c].got = @ \cup ({company} \cap reachable)]
               /\ UNCHANGED work
    /\ UNCHANGED <<queue, reachable>>

(* scrape_jobs() returns or raises, in its own time, or never does.         *)
Answer(c) ==
    /\ call[c].site = "busy"
    /\ \E a \in Answers : call' = [call EXCEPT ![c].site = a]
    /\ UNCHANGED <<work, queue, reachable>>

Hang(c) ==
    /\ call[c].site = "busy"
    /\ call' = [call EXCEPT ![c].site = "hung"]
    /\ UNCHANGED <<work, queue, reachable>>

(* future.result() returns within the time-out.                             *)
Result(c) ==
    /\ work[<<c, "scrape">>] = "waiting" /\ call[c].site \in Answers
    /\ Becomes(<<c, "scrape">>,
               IF call[c].site = "answered" THEN "returned" ELSE "raised")
    /\ UNCHANGED <<queue, reachable>>

(* It times out: TimeoutError is on its way out of the `with` block.        *)
Expire(c) ==
    /\ work[<<c, "scrape">>] = "waiting" /\ call[c].site \notin Answers
    /\ Becomes(<<c, "scrape">>, "joining")
    /\ UNCHANGED <<queue, reachable>>

\* Mutant: a scrape that raises is never joined.
JoinAnswered(c) ==
    /\ work[<<c, "scrape">>] = "joining" /\ call[c].site = "answered"
    /\ Becomes(<<c, "scrape">>, "raised")
    /\ UNCHANGED <<queue, reachable>>

(* ThreadPoolExecutor.__exit__(): shutdown(wait=True), then the error.      *)
Join(c) ==
    /\ work[<<c, "scrape">>] = "joining" /\ call[c].site \in Answers
    /\ Becomes(<<c, "scrape">>, "raised")
    /\ UNCHANGED <<queue, reachable>>

(* What the calls gave is committed, which gives the connection back, and   *)
(* the next statement asks for one again: a message that staged nothing has *)
(* none.                                                                    *)
Commit(c) ==
    /\ At(c, "awaiting") /\ LoopFree /\ Main(c) = "returned"
    /\ \/ For(c, "call") /\ Kind(c, {"llm", "document"})
       \/ For(c, "summary")
    /\ \E pc \in {"asking"} \cup {p \in {"done"} : Kind(c, {"chat"})} :
          call' = [call EXCEPT ![c] = [@ EXCEPT !.pc = pc,
                                                !.stage = "committed"]]
    /\ UNCHANGED <<work, queue, reachable>>

(* validate_claims() and soffice, on the event loop; each has a time-out.   *)
Review(c) ==
    /\ At(c, "open") /\ LoopFree
    /\ Kind(c, {"document"}) /\ For(c, "committed")
    /\ Go(c, "reviewing")
    /\ UNCHANGED <<queue, reachable>>

Reviewed(c) ==
    /\ At(c, "reviewing")
    /\ \E pc \in Ended : Go(c, pc)
    /\ UNCHANGED <<queue, reachable>>

(* It has all it answers with: a message whose filters do not suffice yet   *)
(* is answered with a question.                                             *)
Complete(c) ==
    \/ At(c, "open") /\ Kind(c, {"short"})
    \/ At(c, "open") /\ Kind(c, {"llm", "chat"}) /\ For(c, "committed")
    \/ /\ At(c, "awaiting") /\ Kind(c, {"boards", "scrape", "chat"})
       /\ For(c, "call") /\ Main(c) = "returned"

(* The answer, or the error; get_db() closes the session.                   *)
Respond(c) ==
    /\ LoopFree
    /\ \/ Complete(c) /\ Go(c, "done")
       \/ /\ At(c, "awaiting") /\ ~For(c, "search") /\ Main(c) = "raised"
          /\ Go(c, "failed")
    /\ UNCHANGED <<queue, reachable>>

Loop(c) ==
    \/ Connect(c) \/ Refuse(c) \/ Submit(c) \/ RunSearch(c) \/ Summarize(c)
    \/ Commit(c) \/ Review(c) \/ Reviewed(c) \/ Respond(c)
Work(c) == Finish(c) \/ Fetch(c) \/ Result(c) \/ Expire(c) \/ Join(c)
Site(c) == Answer(c) \/ Hang(c)

(* It waits for a thread that will never end.                               *)
Stuck(c) == work[<<c, "scrape">>] = "joining" /\ call[c].site = "hung"

Next ==
    \/ Take
    \/ \E c \in Calls : Ask(c) \/ Loop(c) \/ Work(c) \/ Site(c)

(* The loop and the threads are scheduled, timers go off, a site hangs or   *)
(* answers.                                                                 *)
Fairness == /\ WF_vars(Take)
            /\ \A c \in Calls : WF_vars(Loop(c)) /\ WF_vars(Work(c))
                                                 /\ WF_vars(Site(c))

Spec == Init /\ [][Next]_vars /\ Fairness

-----------------------------------------------------------------------------
(* FETCH_TIMEOUT_SECONDS is there "so a single hung site can't block the    *)
(* caller indefinitely".  It can, its thread being joined; but only hung    *)
(* sites keep anybody waiting, be it for a connection, a worker or the      *)
(* loop: a request that came in, a chat message too, ends unless its own    *)
(* site hangs or hung scrapes have come to hold every worker.               *)
OnlyHungSitesBlock ==
    \A c \in Calls :
        At(c, "asking") ~> \/ call[c].pc \in Ended
                           \/ Stuck(c)
                           \/ Cardinality({d \in Calls : Stuck(d)}) = Workers

(* What is with a worker or queued for one is bounded by the pool, for a    *)
(* session is held across its calls: one for a connection, and a second for *)
(* one that a message's search holds.  With half as many connections as     *)
(* workers nothing ever waits for a worker.                                 *)
PoolBoundsQueue ==
    Cardinality(Busy) + Len(queue)
        <= Connections + Cardinality({c \in Holding : For(c, "search")})

(* A fetch of the companies gives the postings of all boards that answer,   *)
(* wherever in the list the others stand and whoever asked for it.          *)
FailuresAreSkipped ==
    \A c \in Calls :
        work[<<c, "boards">>] = "returned" => call[c].got = reachable
=============================================================================
