# CareerOps: models and proofs

CareerOps is a job-application assistant: a FastAPI service over one Postgres
database that finds postings, scores them with an LLM, writes documents for
them and tracks the applications. It runs as one asyncio process; every request
has its own database session, so requests interleave at every `await`. This
directory holds TLA+ models of its core logic, the TLC runs that check them on
small instances, and TLAPS proofs for every instance.

Paths below are relative to `src/app/`.

## 1. Inventory

| Component (code) | State | Operations | Interacts through | What makes it correct |
|---|---|---|---|---|
| Job analysis (`services/jobs.py`, `job_scorer.py`, `routes/jobs.py`) | `jobs.status`, `job_analyses` | analyze, reject, restore | the session's copy of the job, two commits around an LLM call | a status always has its analysis; a verdict is not dropped; no second paid call for a decided job |
| Ingestion (`sources/common.py`, `routes/explore.py`) | `jobs` (unique `description_hash`) | save, batch insert | queues the auto-analysis as an in-memory background task | one row and one auto-analysis per posting; a saved job is decided; dates mean what they say |
| Scoring rules (`hard_filters.py`, `job_scorer.py`, `services/jobs.py`) | none | hard_filter_job, score_job, decide | reads the company history, which a mark-applied dates before it commits | nothing screened in a cooldown is scored, and days left are right |
| Documents (`document_generator.py`, `document_review.py`, `document_editor.py`) | `applications`, `generated_documents`, the .docx files | generate, edit, review | the count of versions, the file path, unique constraints | gapless versions, one application, bounded retries, an answered request is reviewed |
| Application workflow (`applications.py`, `tracker.py`, `routes/applications.py`) | `applications.status/applied_at`, `company_application_history` | open, approve, reject, mark-applied | one row loaded before it is written; the history feeds the cooldown | status, date and history agree |
| Authentication (`services/auth.py`, `dependencies.py`, `routes/auth.py`, `core/database.py`) | `tenants`, `users`, issued JWTs | login, create/delete/list users, create tenants, seeding | every other route's `get_current_user` | the default administrator survives; emails are unique; users stay in their creator's tenant; a token names its user |
| Login rate limit (`core/rate_limit.py`) | per-key buckets in memory | is_allowed | login | never more than five attempts in five minutes |
| Chat search (`chat_search.py`, `routes/chat.py`) | `chat_search_results` | send_message, list | fan-out to sources, then delete + insert of the staged rows | staged is what the last search found, whole |
| MCP explore (`sources/mcp/*`) | none | capabilities, search | remote MCP servers | one source's failure costs nothing of the others'; filters mean the same everywhere |
| Boards and companies (`jobspy_source.py`, `targets.py`, `greenhouse.py`, `lever.py`) | none | scrape, search, ingest | blocking HTTP in worker threads, a time-out | a hung site stops nobody else, a failing company costs the others nothing |
| LLM client (`llm/*`) | none | structured_call | a call that answers or raises | bounded time |
| Sessions and pool (`core/database.py`, `core/config.py`) | connections | get_db, init_db | every request holds one across its LLM call | a request waits for others only as long as those end |
| Document content (`resume_generator.py`, `cover_letter.py`, `claim_validator.py`, `ats_validator.py`, `docx_writer.py`) | files, the two flags of a document | write, check claims, convert and compare, record | opens the file another request may have written | a recorded pass is about the row's own text |

The hard behaviours: a row loaded before an LLM call of tens of seconds and
written after it; check-then-insert over unique constraints; a file that is in
no transaction; two commits that should have been one; background work that is
only in memory; fan-outs where one of several fails; time-outs that do not
stop the thread; connections, threads and an event loop that slow requests
share; wall clocks of several zones compared with each other.
`PROJECT.json` lists each of them at its line under `hazards`.

## 2. Modules

Each component module holds one state machine, its properties and the small
*mutant* operators that show a property can fail. `MC<module>` and the `.cfg`
files instantiate it for TLC. `<module>Proofs` proves things about it;
`SourcesProofs` does so for `BlockingCalls` and `PostingDates`,
`DocumentGenerationProofs` also for `DocumentReview`, `AuthProofs` also for
`LoginRateLimit` and `AuthService`.

| Module | Models | An action is |
|---|---|---|
| `JobAnalysis` | `analyze_job()`, `insert_jobs()` with one row, `_auto_analyze()`, reject, restore | one await that reads or commits |
| `DocumentGeneration` | `persist_document()`, `get_or_create_application()`, `review_generated_document()` | one await, the file write apart |
| `VersionLog` | what a slot of documents promises: an append-only log whose entries get one verdict | append, review |
| `ApplicationWorkflow` | `set_status()`, `mark_applied()`, `record_application()` | load, flush, commit |
| `DocumentReview` | `validate_claims()`, `validate_ats()`, `check_text_roundtrip()`, `record_validation_result()`, and the reviewer's decision | store, review, record, decide; a rival's save |
| `Auth` | `_seed_db()`, `authenticate_user()`, `get_current_user()`, the admin routes | one query or commit |
| `LoginRateLimit` | `is_allowed()`: a sliding window for each key | an attempt, a tick, a restart |
| `AuthService` | `Auth` behind `LoginRateLimit`, as `login()` puts them together | a step of either, or of both |
| `ChatStaging` | `send_message()`, `run_search()`, `stage_results()` | an await; the DELETE's snapshot apart from its effect |
| `BlockingCalls` | the connection pool, `asyncio.to_thread()` (a chat message's two calls at once too), the event loop under a review, the executor in `fetch_jobs()` and its time-out, `fetch_all_targets()` | a step of the loop, a thread or a site |
| `HardFilters` | `hard_filter_job()`, `check_hard_filters()`, `check_company_cooldown()`, `score_job()`, `decide()` | reading the history, checking the cooldown, scoring; dating a mark-applied and committing it; a tick |
| `ExploreSearch` | `POST /explore/search`: `search()`, `search_source()`, the capability tables, the recency filter, the answer's validation | list tools, call tool, gather |
| `PostingDates` | the five date parsers, `insert_jobs()`, `stage_results()`, `list_jobs()` | search, save, ingest, stage, a tick |

How they correspond to the code:

* **Sessions.** `get_db()` gives a request its own session and
  `get_session_factory()` opens it with `expire_on_commit=False`; the ORM sends
  an UPDATE only for attributes that differ from what was loaded. So a request
  record keeps the value it loaded (`loaded`) and a write is compared with that
  value, never with the row (`SetJobStatus`, `Flushed`). This is where the
  surprises of `JobAnalysis` and `ApplicationWorkflow` come from.
* **Postgres at READ COMMITTED.** An INSERT under a unique constraint and its
  commit are one step, since a second INSERT of the key waits for the first
  transaction; `ChatStaging` has no such key, so there the statement's snapshot
  (`StartDelete`), its wait (`DeleteRows`) and the commit are separate steps.
* **Failures.** `Raise` ends a request at any await where the code can fail
  (the LLM, soffice, a lost connection, the process's death). A failure strikes
  before a commit takes effect or after it, never in it.
* **Identity.** A request stands for the text or stamp it writes, so that "the
  file holds the winner's text" or "applied_at is the same in both tables" can
  be said without strings or clocks.

* **Texts.** `DocumentReview` keeps of a text its set of words, its sections, and
  which word is a substring of which (`Inside`): `check_text_roundtrip()` compares
  sets of words and looks for each heading, name and email as a substring of the
  whole normalized text, so that a lost heading passes inside a longer word
  (`Found`). A heading is one word here. The versions' races are
  `DocumentGeneration`'s; what `DocumentReview` needs of them is that a rival may
  save over a committed version's file at any time.

`DocumentGeneration` implements `VersionLog` under the mapping that drops the
content and pairs the two flags of a row (`ImplementsVersionLog`). `AuthService`
implements both `Auth` and `LoginRateLimit`: each of its steps is a step of the
one and of the other, or leaves it alone (`ServiceImplementsAuth`,
`ServiceImplementsLimiter`), so what is proved of the parts holds of the whole.

## 3. What the runs show

| Run | Instance | Shows |
|---|---|---|
| `job_analysis` | 3 requests, 1 posting | `StatusBacked`, `DiscoveredExplained`, `OneAutoAnalysis`, `NoScoreAfterVerdict` through every interleaving and failure; `ShownDecidedTogether`: the status is the shown analysis's unless the request that wrote it overlapped with another; `SavedJobIsDecided`: a saved posting leaves DISCOVERED by its own background task, unless that fails or waits for ever for a worker to score it |
| `documents` | 3 requests, 2 slots of a job, 2 attempts | one application, gapless versions, `CollisionsNeedRivals`, `OnlyLosersClobber`, `OkMeansReviewed`, refinement of `VersionLog`; `EveryRequestEnds` |
| `applications` | 4 requests, 2 applications | `AppliedAtAgrees`, `AppliedIsRecorded`, `ConflictHasWinner`, `OnlyDecisionsUnmark` |
| `auth` | nobody or an administrator and a user logged in, 3 requests, 3 ids, 2 attempts a window, restarts | `OneDefaultAdmin`, `UsersInDefaultTenant`, `LosersHaveRivals`, `DeletedStaysDeleted`, `TokenNamesItsUser`, `AttemptsAreSpaced` |
| `chat_staging` | 3 messages, 2 sessions, 2 sources | `OnlyRacesMix`, `StagedWhatWasFound`, `LostToOwnSession` |
| `explore_search` | 2 sources, every schema over 4 filter parameters or over 3 others; days that are a number, none, a text or too many | `NoFilterMissing`, `AnsweredIsKept`, `OnlyRecentShown` |
| `hard_filters` | 2 jobs, 1 or 2 companies, 2 mark-applied at once, a cooldown of two days of two ticks, 5 ticks | `PassedOutsideCooldown`, `DaysLeftAreLeft`, `DaysLeftAreEnough` |
| `blocking_calls` | 3 requests, 2 connections, 2 workers, 2 companies | `OnlyHungSitesBlock`, `PoolBoundsQueue`, `FailuresAreSkipped` |
| `document_review` | 2 versions, a resume on each side of nine words a section, a letter, a word that contains the heading | `PassedIsFaithful`, `IntactVerdict` |
| `posting_dates` | 2 postings of 17 kinds, clocks half a day apart | `ListedByAge`, `UtcListedExactly`, `AgedNeverOlder` |

Two runs find a counterexample: what a comment or docstring says and the code
does not do.

| Run | What happens | What the text says |
|---|---|---|
| `posting_dates_chat` | one date with a zone fails the whole message | "every source ... already produces a naive datetime" (`sources/common.py:195`) |
| `approved_unverified` | an application is approved after its document's claim check has failed and is recorded so | "An unverified claim blocks the document outright" (`claim_validator.py:3`) |

In other places too the code does less than a text of it says. There the
models state what does hold, and the property that a run checks says exactly
how far the text can be trusted:

| What happens | What the text says | What holds |
|---|---|---|
| two first analyses pass the re-check together and both pay | "rather than both scoring the same job independently" (`services/jobs.py:243`) | `NoScoreAfterVerdict`: a late one never does |
| after two overlapping analyses the fit score shown is one's, the status the other's | "its new fit score/status" (`routes/jobs.py:184`) | `ShownDecidedTogether` |
| the loser of a version has overwritten the winner's file | "never silently clobbers the winner's file" (`document_generator.py:128`) | `OnlyLosersClobber` |
| an approved or rejected application still holds its company in the cooldown | "the cooldown tracker is never out of sync" (`tracker.py:38`) | `OnlyDecisionsUnmark` |
| a repeated mark-applied is answered APPLIED, the row says APPROVED | "Sets applications.status to APPLIED" (`tracker.py:37`) | `OnlyDecisionsUnmark` |
| two overlapping messages both stay staged | "Wholesale replacement, not an append" (`chat_search.py:172`) | `OnlyRacesMix` |
| a tool is called without a parameter it requires: another name of the filter took the value, or the parameter is no filter's | the key table "translates ... the same way" (`capabilities.py:99`) | `NoFilterMissing`: never for want of a filter |
| one malformed result, or more days than `timedelta()` holds, fails the whole search (`routes/explore.py:68`, `explore.py:372`) | "A source that errors, times out, or turns out not to support search is skipped, not fatal" (`explore.py:311`) | `AnsweredIsKept`, of answers that are no error |
| a lost heading passes inside a longer word | "the required snippets ... survived intact" (`ats_validator.py:153`) | `PassedIsFaithful` |
| days are passed as `hours_old` | "Maximum age in days" (`explore.py:362`) | `AnsweredIsKept` |
| the time-out waits for the hung thread | "a single hung site can't block the caller indefinitely" (`jobspy_source.py:44`) | `OnlyHungSitesBlock` |
| a section of fewer than nine distinct words fails the ATS check with nothing lost: its label is a lost word | "no more than 10% of source vocabulary was lost" (`ats_validator.py:154`) | `IntactVerdict` |
| the host's wall clock is stored | "UTC datetime object" (`lever.py:29`) | `ListedByAge`, within the zone's offset |
| a file without `exclude_keywords` or `company_cooldown_days` admits every job | "an incomplete constraints file should block" (`hard_filters.py:22`) | the guard of `Passes` and `Screen`; no property |

### Bounds, and why they are enough

* Two requests are what a race needs, the third is what meets the race's
  result (a restore after a double analysis, a third document after a
  collision). `applications` has four because reject, approve and two marks
  interact. Postings do not meet in `JobAnalysis`, so one is enough there.
* `auth` begins before the first start, or where the administrator and one
  user are logged in, as the longer histories do. Three requests create, log in
  or delete, and the service can be started again in between: enough for a
  deletion against a creation, and for a token that outlives its user while
  another user is created. A window of one tick and two attempts in it, over
  three instants, has an attempt on each side of the window's edge; three logins
  are one more than a window takes.
* `MaxAttempts = 2` of the code's bounded retry lets three requests exhaust it;
  the proofs are for any value. A check that ran sets its flag to one value:
  nothing here depends on which. In `documents` all requests but one are for one
  type: of three requests for two types two always are, and types and requests
  are interchangeable.
* A day is two ticks where only its middle and its ends matter (`HardFilters`,
  `ExploreSearch`, `PostingDates`); `MaxTime` lets a cooldown, or a job's place
  in the list of the last two days, end, and a refusal's days run out. Clocks half a day off UTC stand for
  any zone; `MaxOffset` bounds them.
* Schemas in `explore_search` are over four names of two filters, a pair of
  synonyms and a pair of date parameters, or over two names of the query and one
  that is neither's: what a schema has of the one kind changes nothing of the
  other, and the proofs are for schemas of any mixture. One malformed posting
  does what several do.
* `hard_filters`: screenings look at the applications and never at one another,
  so one job passes the other filters and the other one is there to be applied
  for, at the same company or another. Two mark-applied requests overlap each
  other and a screening; the proofs are for any number.
* `blocking_calls`: two scrapes, one of which may be a chat message's beside its
  fetch of the companies, can hold both workers for ever and both connections: a
  message's second call waits in the queue behind them, and a third request of
  any other kind waits for a connection or is refused. One company answers and
  one does not, in either order.
* `document_review`: one section with eight or nine distinct words is on either
  side of where an intact file passes, a letter of ten loses one or two of them
  around the tenth, and the ninth word contains the heading; one of two versions may be overwritten with any text, also
  one of the other length. The proofs are for any texts and losses.
* Symmetry is over requests, jobs and the like, in runs of safety properties
  only. `CHECK_DEADLOCK FALSE` is in the cfgs of modules whose
  requests are all answered in the end.

### Fairness

Only server steps are fair, and only weakly: in `JobAnalysis` and
`DocumentGeneration` a request that has begun and can go on does (`WF` of
`Continue`, per request). asyncio runs every ready task, and Postgres grants a
lock once it is free. An LLM or HTTP call that has been given a thread has a
time-out or ends, but hung scrapes can hold every thread of the executor for ever
(`BlockingCalls`), so the step that waits for `score_job()` in `JobAnalysis` is not
fair. The steps of `DocumentGeneration` run on the event loop or in the database,
which no worker holds up. Nothing makes a client send a request, and no failure is ever required or
forbidden. In `BlockingCalls` the event loop, the executor's threads and the timers
are fair, each request's steps by themselves; a site that was called answers or
hangs, and nothing says which. The liveness
properties name what they except: the background task's own failure, and its
waiting for a worker for ever, in `SavedJobIsDecided`; hung sites in
`OnlyHungSitesBlock`.

## 4. What is proved

TLAPS proves these for any sets of requests, jobs, sessions and ids, any bound on
retries, and the assumptions on constants stated in the modules (a NULL outside
the sets it is added to, `MaxAttempts` at least one, defaults that are members).
Two theorems assume more: `AlwaysAWorkerForTheQueue` that the executor has two
workers for each connection, for a chat message's search makes two calls at once
(by default there are 10 + 20 connections and `min(32, cores + 4)` threads, so the
queue behind busy workers is real, as in the run) and `RequestsTakeBoundedSteps` of `SourcesProofs` that
the companies are finitely many.

| Module | Theorems | Why the invariant is not inductive by itself |
|---|---|---|
| `JobAnalysisProofs` | `TypeOK`, `StatusBacked`, `DiscoveredExplained`, `OneAutoAnalysis`, `NoScoreAfterVerdict`, `ShownDecidedTogether`; `RequestsTakeBoundedSteps`, `FirstAnalysesAlwaysDecide` | a request's write depends on the status it loaded long ago: `OvertakenByRestore` says that a session that loaded another status than DISCOVERED, on a job that is DISCOVERED now, was overtaken by a restore, and `DecideBacked` that a verdict about to be committed has its analysis. For the shown analysis, `ShownInv` names the request that wrote each row and says that one which nobody overlapped finds, at its second commit, the status it loaded, and leaves its own verdict (`UndisturbedDecides`) |
| `DocumentGenerationProofs` | `TypeOK`, `OneApplicationPerJob`, `VersionsContiguous`, `CollisionsNeedRivals`, `RowHasFile`, `OnlyLosersClobber`, `OkMeansReviewed`, `ImplementsVersionLog`; `RequestsTakeBoundedSteps` | a counted version is stale: `Numbers` bounds it by the rows there are plus one from above and by the number of the attempt from below, so that a request that gives up has met that many rows; `FileAuthor` says who last wrote each file |
| the same, of `DocumentReview` | `ReviewTypeOK`, `PassedIsFaithful`, `IntactVerdict` | a verdict is held for an await before it is recorded: the invariant (`Backed`) says it is `Survives` of the row's own text and of what came back, `RowInv` that nothing is held or recorded of a version without a row |
| `ApplicationWorkflowProofs` | `TypeOK`, `AppliedAtAgrees`, `AppliedIsRecorded`, `ConflictHasWinner`, `OnlyDecisionsUnmark` | the two tables are written from different loads: `HistoryHasAuthor` names the mark-applied that wrote both, `DecisionHasAuthor` the request whose decision is shown, and `ReadyIsUntouched` says that no session holds a newer status of an application than READY_FOR_REVIEW while it is there |
| `AuthProofs` | `TypeOK`, `OneDefaultAdmin`, `EmailsUnique`, `UsersInDefaultTenant`, `DeletedStaysDeleted`, `TokenNamesItsUser`, `LosersHaveRivals`; of the limiter `AttemptsAreSpaced`; that the service implements both | a deletion acts on a row it read before: `ReqInv` carries what was checked across the await, `DbInv` that ids once issued are never issued again and `DefaultAdminStays` that after the first seeding there is always exactly one default administrator. A creation past its look-up that would now hit a row owes it to a creation that committed since (`RivalInv`). Of a bucket, `Ordered` says that its times only grow: the attempts that count are its last ones |
| `ChatStagingProofs` | `TypeOK`, `OnlyRacesMix`, `StagedWhatWasFound`, `LostToOwnSession` | `LateRows` says that a row a replacement will not delete was committed since it began, so that both messages have raced; `DoomedAreResults` that what it will delete is whole results of its own session |
| `HardFiltersProofs` | `TypeOK`, `PassedOutsideCooldown`, `DaysLeftAreLeft`, `DaysLeftAreEnough` | a screening decides on dates it read before, and a mark-applied commits a date it took before: `ReadAsCommitted` says that the dates read are the history's but for mark-applied requests committed since, `Counted` says of a refusal's days that one application lasts to their end (or one that passed the screening took its place) and none known to the screening lasts a day longer, `Past` that nothing is dated later than now |
| `ExploreSearchProofs` | `TypeOK`, `NoFilterMissing`, `AnsweredIsKept`, `OnlyRecentShown` | the answer is made of what was found for arguments built long before: `CallsAsPrepared` and `FoundAsAsked` keep how, `Merged` that no source moves once there is an answer |
| `SourcesProofs`, of `BlockingCalls` | `TypeOK`, `PoolBoundsQueue`, `FailuresAreSkipped`; that with two workers for each connection a queued call finds a worker (`AlwaysAWorkerForTheQueue`); `RequestsTakeBoundedSteps` and `OnlyHungSitesEverStop` | the executor's queue is a sequence and the pool a number: `QueueListsQueued` says that the queue lists the calls that are queued, each once, so that calls in the queue and calls at workers are counted in the requests whose connection they are held by (`CallsUnderWay`); `FetchesAll` splits the boards into fetched and still to fetch; `CallsFit` says which calls a request of each kind and stage can have under way |
| the same, of `PostingDates` | `DatesTypeOK`, `ListedByAge`, `UtcListedExactly`, `AgedNeverOlder` | a list is read long after the date was parsed: `FaithfulWall` says of each date, from the search through the staged rows to the column, how far it can be from the posting's own, by its source's parser and the host's zone; the lists follow by arithmetic |

Each has the three facts: the initial states satisfy `IInv`, every step keeps it
(one lemma step per action), and it implies the property; the action property and
the refinement follow from `IInv` on one step. Types are proved first, so that
the step lemma may use `TypeOK'`.

Every safety invariant and action property of the passing runs is stated by a
theorem. The type invariants, `RowHasFile` and `EmailsUnique` are proved and so
left out of the runs.

Only model-checked are the three liveness properties, for fairness and ENABLED are
beyond the prover, and of course the counterexamples. The part of each that
needs neither is proved, for every size:

* `SavedJobIsDecided`: a request and its background task take at most eight steps,
  and only an insert ever waits, for the commit of another that waits for nothing
  (`RequestsTakeBoundedSteps` of `JobAnalysisProofs`). An analysis that loaded its
  job as DISCOVERED and ends without an error leaves it with another status
  (`FirstAnalysesAlwaysDecide`); one that loaded another status had it decided
  already. Whether its scoring call gets a worker is no question of this module,
  and no fairness of it is assumed. That the background task is scheduled at all is the fairness TLC assumes.
* `EveryRequestEnds` rests on the retries of `persist_document()` coming to an
  end. `StepsLeft` counts what a request has before it: it never exceeds
  `4 * MaxAttempts + 4`, and every step of the system takes exactly one request
  closer to its end (`RequestsTakeBoundedSteps` of `DocumentGenerationProofs`). A
  collision is no exception, it uses up an attempt. With the fairness of each
  request, which is what is left to TLC, that is termination.
* `OnlyHungSitesBlock` has two such parts. A request, a chat message with all its calls
  too, makes at most 25 steps and one for each company (`RequestsTakeBoundedSteps` of `SourcesProofs`), so it can only
  fail to end by being kept from its next step. And `OnlyHungSitesEverStop` says what
  keeps it: in a state in which no request and no worker can go on, a request that
  has begun is answered, or its own site hangs, or it is queued and hung
  scrapes hold all workers. Pool, executor and event loop never wait for
  each other in a circle, whatever their sizes. What can go on is spelled out there
  from the guards (`Ready`, `WorkerReady`), since the prover has no ENABLED;
  that waiting calls are served in turn, and so each in time, is TLC's.

## 5. Assumptions

* One process, as `core/rate_limit.py` and the background tasks take for
  granted; Postgres, not the SQLite of the tests.
* Sequences never give an id twice; the settings do not change while the service
  runs, and the default email and slug are already in lower case.
* `pyrate-limiter` counts the items of the last window, its first instant included,
  and keeps none for a refused attempt; the clock does not go back.
* A source's section label ("SUMMARY:") is no word of a converted document, and two
  sections' labels differ.
* A JWT's signature and a password's hash are sound.
* MCP servers are honest in `ExploreSearch`: what their schemas require is among
  their properties, they reject a call that lacks a required parameter, read
  `hours_old` as hours and the other date parameters as days, and ignore a value
  that is no number. A number of days is positive.
* `asyncio`'s and SQLAlchemy's behaviour, the job boards and the thread pools
  are modelled from how this code uses them (`external` in the map).

## 6. What is not modelled

* What the LLM is asked and how its answers are laid out (`llm/prompts.py`, most of
  `llm/schemas.py`, `resume_generator.py`, `cover_letter.py`): data without a state
  of its own. What the answers decide is modelled as a free choice of the values
  that the code looks at.
* Reads that change nothing (`/me`, `/users`, `/open`, capabilities shown to the
  user), the health check, the wiring of the application, response schemas,
  migrations, the dashboard and the notebook.
* The savepoints of a batch in `insert_jobs()`: only `ingest_all()`, which is run
  from scripts alone, inserts more than one row, and `PostingDates` takes that as
  one step. `/explore/save` inserts one, as `JobAnalysis` has it.
* The shapes of an MCP server's payloads (but that one may be malformed), and how a JobSpy row, a Greenhouse or a
  Lever posting becomes a job, apart from its dates.
* `suggest_resume_edit()` and `suggest_cover_letter_edit()` save nothing.

## 7. What could come next

The module order was the importance of the state: jobs and documents first, then
applications, users and staged results, then the rules and resources they share.
Left of the plan are a composition of `JobAnalysis` with `HardFilters` (overlapping
analyses of one job around a cooldown; each is modelled, but an analysis of
`HardFilters` excludes a second one of the same job), one of `JobAnalysis` with
`BlockingCalls` (the worker its scoring call waits for), and the batch above.
