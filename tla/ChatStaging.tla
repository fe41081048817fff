----------------------------- MODULE ChatStaging -----------------------------
(***************************************************************************)
(* One turn of the job-search chat: the intent, the fan-out to the sources  *)
(* it picked, the summaries, and the replacement of the session's staged    *)
(* rows by what was found (POST /chat/message).                             *)
(*                                                                          *)
(* The replacement is one READ COMMITTED transaction.  Its DELETE takes the *)
(* rows committed when the statement began, waits while another transaction *)
(* holds one of them, and does not look at rows committed meanwhile.  A     *)
(* source's postings are one row, as they come and go together.             *)
(***************************************************************************)
CONSTANTS Messages, Sessions,
          Sources  \* explore, scrape, targets

VARIABLES
    staged,  \* committed rows of chat_search_results
    msg,     \* what each message is doing
    raced    \* history: messages whose replacement overlapped another one's

vars == <<staged, msg, raced>>

Row == [by : Messages, source : Sources]
Searching == {"search", "summarize"}
Staging == {"delete", "commit"}
Live == Searching \cup Staging \cup {"stage", "refresh"}
Committed == {"refresh", "ok", "lost"}

(* `asked` are the sources the model picked, `found` those that gave        *)
(* postings, `missed` those that failed or gave none; `doomed` are the rows *)
(* the DELETE saw.                                                          *)
Message == [pc : {"new", "clarified", "ok", "lost", "error"} \cup Live,
            session : Sessions, asked : SUBSET Sources,
            found : SUBSET Sources, missed : SUBSET Sources,
            doomed : SUBSET Row]

TypeOK == /\ staged \subseteq Row
          /\ msg \in [Messages -> Message]
          /\ raced \subseteq Messages

Init ==
    /\ staged = {} /\ raced = {}
    /\ msg \in [Messages -> {[pc |-> "new", session |-> s, asked |-> {},
                              found |-> {}, missed |-> {}, doomed |-> {}] :
                                 s \in Sessions}]

-----------------------------------------------------------------------------
At(m, pc) == msg[m].pc = pc
SameSession(m, w) == msg[m].session = msg[w].session
Go(m, pc) == msg' = [msg EXCEPT ![m].pc = pc]
RowsOf(m) == {row \in staged : row.by = m}
Visible(m) == {row \in staged : SameSession(row.by, m)}

(* extract_intent(): a question back, or the sources to search.             *)
ExtractIntent(m) ==
    /\ At(m, "new")
    /\ \/ Go(m, "clarified")
       \/ \E asked \in SUBSET Sources \ {{}} :
             msg' = [msg EXCEPT ![m] = [@ EXCEPT !.pc = "search",
                                                 !.asked = asked]]
    /\ UNCHANGED <<staged, raced>>

(* A source settles: it gives postings, or none, or fails.                  *)
Settle(m, s) ==
    /\ At(m, "search")
    /\ s \in msg[m].asked \ (msg[m].found \cup msg[m].missed)
    /\ \/ msg' = [msg EXCEPT ![m].found = @ \cup {s}]
       \/ msg' = [msg EXCEPT ![m].missed = @ \cup {s}]
    /\ UNCHANGED <<staged, raced>>

\* Mutant: the first source to settle ends the search.
GatherFirst(m) ==
    /\ At(m, "search")
    /\ msg[m].found \cup msg[m].missed # {}
    /\ Go(m, "summarize")
    /\ UNCHANGED <<staged, raced>>

(* gather(return_exceptions=True): all of them, failures skipped.           *)
Gather(m) ==
    /\ At(m, "search")
    /\ msg[m].asked = msg[m].found \cup msg[m].missed
    /\ Go(m, "summarize")
    /\ UNCHANGED <<staged, raced>>

Summarize(m) ==
    /\ At(m, "summarize")
    /\ Go(m, "stage")
    /\ UNCHANGED <<staged, raced>>

Rivals(m) == {w \in Messages \ {m} :
                 msg[w].pc \in Staging /\ SameSession(m, w)}

\* Mutant: the rows of every session are taken.
DeleteEverySession(m) ==
    /\ At(m, "stage")
    /\ msg' = [msg EXCEPT ![m] = [@ EXCEPT !.pc = "delete",
                                           !.doomed = staged]]
    /\ raced' = IF Rivals(m) = {} THEN raced ELSE raced \cup {m} \cup Rivals(m)
    /\ UNCHANGED staged

\* Mutant: nothing is replaced.
DeleteNothing(m) ==
    /\ At(m, "stage")
    /\ Go(m, "delete")
    /\ raced' = IF Rivals(m) = {} THEN raced ELSE raced \cup {m} \cup Rivals(m)
    /\ UNCHANGED staged

(* stage_results(): the DELETE begins.                                      *)
StartDelete(m) ==
    /\ At(m, "stage")
    /\ msg' = [msg EXCEPT ![m] = [@ EXCEPT !.pc = "delete",
                                           !.doomed = Visible(m)]]
    /\ raced' = IF Rivals(m) = {} THEN raced ELSE raced \cup {m} \cup Rivals(m)
    /\ UNCHANGED staged

(* It ends when nobody else holds a row it is to delete.                    *)
DeleteRows(m) ==
    /\ At(m, "delete")
    /\ \A w \in Messages \ {m} :
          At(w, "commit") => msg[w].doomed \cap msg[m].doomed \cap staged = {}
    /\ Go(m, "commit")
    /\ UNCHANGED <<staged, raced>>

(* The deletion and the new rows take effect together.                      *)
Commit(m) ==
    /\ At(m, "commit")
    /\ staged' = (staged \ msg[m].doomed)
                    \cup [by : {m}, source : msg[m].found]
    /\ Go(m, "refresh")
    /\ UNCHANGED raced

(* Every new row is read back; refresh() raises if it is gone.              *)
Refresh(m) ==
    /\ At(m, "refresh")
    /\ Go(m, IF [by : {m}, source : msg[m].found] \subseteq staged
             THEN "ok" ELSE "lost")
    /\ UNCHANGED <<staged, raced>>

(* The LLM, a statement or the connection fails; an open transaction is     *)
(* undone, after the commit only the answer is lost.                        *)
Raise(m) ==
    /\ At(m, "new") \/ msg[m].pc \in Live \ {"search"}
    /\ Go(m, IF At(m, "refresh") THEN "lost" ELSE "error")
    /\ UNCHANGED <<staged, raced>>

Continue(m) == \/ \E s \in Sources : Settle(m, s)
               \/ Gather(m) \/ Summarize(m)
               \/ StartDelete(m) \/ DeleteRows(m) \/ Commit(m) \/ Refresh(m)

Next == \E m \in Messages : ExtractIntent(m) \/ Continue(m) \/ Raise(m)

Spec == Init /\ [][Next]_vars

-----------------------------------------------------------------------------
(* stage_results() promises "Wholesale replacement, not an append", but two *)
(* searches' results are mixed.  Only if their replacements overlapped: a   *)
(* message that found the session at rest has replaced it wholesale, and no *)
(* message touches another session.                                         *)
OnlyRacesMix ==
    \A a, b \in staged :
        (SameSession(a.by, b.by) /\ a.by # b.by) => {a.by, b.by} \subseteq raced

(* A message's rows appear and go together, and are all it found: all the   *)
(* sources it asked had settled, a failing one never takes the others'      *)
(* postings with it.                                                        *)
StagedWhatWasFound ==
    \A m \in Messages : RowsOf(m) # {} =>
        /\ {row.source : row \in RowsOf(m)} = msg[m].found
        /\ msg[m].asked = msg[m].found \cup msg[m].missed

(* A message whose staged rows were gone before it could answer, or whose   *)
(* answer is not staged any more, lost them within its own session: another *)
(* message of that session has committed.                                   *)
LostToOwnSession ==
    \A m \in Messages :
        (msg[m].pc \in Committed /\ RowsOf(m) = {} /\ msg[m].found # {}) =>
            \E w \in Messages \ {m} :
                SameSession(m, w) /\ msg[w].pc \in Committed
=============================================================================
