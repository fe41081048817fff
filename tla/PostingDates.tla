----------------------------- MODULE PostingDates -----------------------------
(***************************************************************************)
(* When a posting was made: what each source's parser reads, what the two   *)
(* ways into the database keep of it, and which jobs GET /jobs then calls   *)
(* recent.  A Python datetime is its wall clock and its zone, the hours     *)
(* ahead of UTC or NULL for a naive one; the columns hold a wall clock      *)
(* alone.  Times are ticks of UTC, Day of them to a day.                    *)
(*                                                                          *)
(* An unparsable date is one the posting lacks.  JSON keeps a datetime as   *)
(* it is, its zone included, so what the browser sends back to              *)
(* /explore/save is what a search returned or what was staged.              *)
(***************************************************************************)
EXTENDS Integers, FiniteSets
CONSTANTS Jobs, Chats,
          Postings,      \* the postings considered
          Offsets,       \* the zones sources write their dates in
          LocalOffset,   \* the zone of the service's host
          DbOffset,      \* the zone of the database's sessions
          MaxOffset,     \* no zone is further from UTC
          Day,
          MaxTime,       \* bounds the clock
          NULL

ASSUME ZoneAssumption ==
    /\ MaxOffset \in Nat
    /\ \A o \in Offsets \cup {LocalOffset, DbOffset} :
          o \in Int /\ -MaxOffset <= o /\ o <= MaxOffset
    /\ Day \in Nat \ {0} /\ MaxTime \in Nat

Parsers == {"hasdata", "iso", "greenhouse", "lever", "jobspy"}

(* at: when it was posted; zone: where the source counts its hours; zoned:  *)
(* it writes the zone into its dates; timed: and the time of day; dated: it *)
(* gives a date at all.                                                     *)
Posting == [source : Parsers, at : 0..MaxTime, zone : Offsets,
            zoned : BOOLEAN, timed : BOOLEAN, dated : BOOLEAN]

ASSUME PostingsAssumption == Postings \subseteq Posting

VARIABLES
    now,
    posting,  \* each job's posting at its source
    found,    \* the results browsers hold: [job, date]
    message,  \* the chat message each session has under way
    chatRows,   \* chat_search_results of each session
    row       \* each job's posted_at and collected_at, NULL if not saved

dateVars == <<now, posting, found, message, chatRows, row>>

Datetime == [wall : Int, zone : Int \cup {NULL}]
DatedResult == [job : Jobs, date : Datetime \cup {NULL}]
NaiveResult == [job : Jobs, date : [wall : Int, zone : {NULL}] \cup {NULL}]
Message == [pc : {"idle", "searched", "failed"}, results : SUBSET DatedResult]
Row == [posted_at : Int \cup {NULL}, collected_at : Int]

ASSUME NullIsNone == NULL \notin Int /\ NULL \notin Datetime

DatesTypeOK ==
    /\ now \in 0..MaxTime
    /\ posting \in [Jobs -> Postings]
    /\ found \subseteq DatedResult
    /\ message \in [Chats -> Message]
    /\ chatRows \in [Chats -> SUBSET NaiveResult]
    /\ row \in [Jobs -> Row \cup {NULL}]

DatesInit ==
    /\ now = 0
    /\ posting \in [Jobs -> Postings]
    /\ found = {}
    /\ message = [c \in Chats |-> [pc |-> "idle", results |-> {}]]
    /\ chatRows = [c \in Chats |-> {}]
    /\ row = [j \in Jobs |-> NULL]

-----------------------------------------------------------------------------
(* What the parsers read.                                                   *)
Naive(wall) == [wall |-> wall, zone |-> NULL]

\* Mutant: an age in days read as one in ticks.
AgedInTicks(p) == [wall |-> now - ((now - p.at) \div Day), zone |-> 0]

(* explore's _parse_posted_at(): whole days old, counted back from now.     *)
Aged(p) == [wall |-> now - ((now - p.at) \div Day) * Day, zone |-> 0]

(* A date alone, as a text or as jobspy's date object, is its midnight.     *)
Midnight(p) == Naive(((p.at + p.zone) \div Day) * Day)

(* fromisoformat(), in explore's, Greenhouse's and jobspy's parsers, and    *)
(* jobspy's datetimes: the zone is kept where there is one.                 *)
Iso(p) == IF ~p.timed THEN Midnight(p)
          ELSE [wall |-> p.at + p.zone, zone |-> IF p.zoned THEN p.zone ELSE NULL]

(* lever's _parse_created_at(): fromtimestamp() gives the host's wall clock.*)
FromTimestamp(p) == Naive(p.at + LocalOffset)

ParsedDate(p) ==
    CASE ~p.dated -> NULL
      [] p.dated /\ p.source = "hasdata" -> Aged(p)
      [] p.dated /\ p.source \in {"iso", "greenhouse", "jobspy"} -> Iso(p)
      [] p.dated /\ p.source = "lever" -> FromTimestamp(p)

ResultOf(j) == [job |-> j, date |-> ParsedDate(posting[j])]
Found(jobs) == {ResultOf(j) : j \in jobs}
CanFind(jobs) == jobs # {} /\ \A j \in jobs : posting[j].at <= now

\* Mutant: a date is when it is saved.
WallAtSave(date) == IF date = NULL THEN NULL ELSE now

(* What the code does to a date before it reaches a column.                 *)
Zoned(date) == date # NULL /\ date.zone # NULL
Wall(date) == IF date = NULL THEN NULL ELSE date.wall

(* insert_jobs(): the zone is dropped, the wall clock kept; a job that is   *)
(* already saved is a duplicate.  collected_at is the database's now().     *)
Inserted(results) ==
    [j \in Jobs |->
        IF row[j] # NULL \/ ~\E r \in results : r.job = j THEN row[j]
        ELSE [posted_at |-> Wall((CHOOSE r \in results : r.job = j).date),
              collected_at |-> now + DbOffset]]

-----------------------------------------------------------------------------
(* /explore/search, /scrape/jobspy, /targets/search: shown, not saved.      *)
Search(jobs) ==
    /\ CanFind(jobs)
    /\ found' = found \cup Found(jobs)
    /\ UNCHANGED <<now, posting, message, chatRows, row>>

(* POST /explore/save of a result shown or staged.                          *)
Save(r) ==
    /\ row' = Inserted({r})
    /\ UNCHANGED <<now, posting, found, message, chatRows>>

(* ingest_all(): every company board's postings in one batch.               *)
Ingest(jobs) ==
    /\ CanFind(jobs)
    /\ \A j \in jobs : posting[j].source \in {"greenhouse", "lever"}
    /\ row' = Inserted(Found(jobs))
    /\ UNCHANGED <<now, posting, found, message, chatRows>>

(* send_message() up to its search's results.                               *)
ChatSearch(c, jobs) ==
    /\ message[c].pc # "searched"
    /\ CanFind(jobs)
    /\ message' = [message EXCEPT ![c] =
                      [pc |-> "searched", results |-> Found(jobs)]]
    /\ UNCHANGED <<now, posting, found, chatRows, row>>

(* stage_results(): one flush of all rows, which asyncpg refuses if a date  *)
(* has a zone: the message fails, its DELETE rolled back with it.  Staged   *)
(* rows are naive, and shown as they are.                                   *)
Stage(c) ==
    LET m == message[c] IN
    /\ m.pc = "searched"
    /\ IF \E r \in m.results : Zoned(r.date)
       THEN /\ message' = [message EXCEPT ![c].pc = "failed"]
            /\ UNCHANGED <<chatRows, found>>
       ELSE /\ message' = [message EXCEPT ![c].pc = "idle"]
            /\ chatRows' = [chatRows EXCEPT ![c] = m.results]
            /\ found' = found \cup m.results
    /\ UNCHANGED <<now, posting, row>>

Tick == /\ now < MaxTime
        /\ now' = now + 1
        /\ UNCHANGED <<posting, found, message, chatRows, row>>

DatesNext ==
    \/ \E jobs \in SUBSET Jobs : Search(jobs) \/ Ingest(jobs)
    \/ \E r \in found : Save(r)
    \/ \E c \in Chats : \/ \E jobs \in SUBSET Jobs : ChatSearch(c, jobs)
                        \/ Stage(c)
    \/ Tick

DatesSpec == DatesInit /\ [][DatesNext]_dateVars

-----------------------------------------------------------------------------
\* Mutant: the cutoff is the host's wall clock.
CutoffLocal(days) == now + LocalOffset - days * Day

(* list_jobs() with posted_within_days: the cutoff is UTC's wall clock, the *)
(* date posted_at or, without one, collected_at.                            *)
Cutoff(days) == now - days * Day

Listed(days) ==
    {j \in Jobs : /\ row[j] # NULL
                  /\ LET date == IF row[j].posted_at # NULL
                                 THEN row[j].posted_at ELSE row[j].collected_at
                     IN date >= Cutoff(days)}

(* A zone can move a date by MaxOffset, a whole-day date by less than Day.  *)
Slack == Day + MaxOffset
Age(j) == now - posting[j].at

(* However it was found and whenever it was saved, a job is in the list of  *)
(* the last `days` days while it is Slack younger than that, and no dated   *)
(* job is once it is Slack older: the time between the search, the staging, *)
(* the save and the listing never adds to the error of the source's date.   *)
ListedByAge ==
    \A j \in Jobs : \A days \in 1..MaxTime : row[j] # NULL =>
        /\ Age(j) <= days * Day - Slack => j \in Listed(days)
        /\ posting[j].dated /\ Age(j) > days * Day + Slack => j \notin Listed(days)

(* A job whose source gives its date and time in UTC is listed exactly: no  *)
(* zone of the host or of the database reaches it on any path.              *)
UtcListedExactly ==
    \A j \in Jobs : \A days \in 1..MaxTime :
        /\ row[j] # NULL
        /\ posting[j].dated /\ posting[j].timed
        /\ posting[j].source = "iso" /\ posting[j].zone = 0
        => (j \in Listed(days) <=> Age(j) <= days * Day)

(* A source that counts days never makes a job look older than it is, nor   *)
(* a day younger, so the list of the last `days` days has all of them.      *)
AgedNeverOlder ==
    \A j \in Jobs : \A days \in 1..MaxTime :
        /\ row[j] # NULL
        /\ posting[j].dated /\ posting[j].source = "hasdata"
        => /\ Age(j) <= days * Day => j \in Listed(days)
           /\ Age(j) >= (days + 1) * Day => j \notin Listed(days)

(* Not so: insert_jobs() says its own path is the one that needs its dates  *)
(* normalised, every source handing over naive ones.                        *)
StagingNeedsNoNormalizing == \A c \in Chats : message[c].pc # "failed"
=============================================================================
