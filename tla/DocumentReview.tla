--------------------------- MODULE DocumentReview ---------------------------
(***************************************************************************)
(* What the two checks of a generated document look at, and what their      *)
(* verdict does to its application.  One job's documents of one type: the   *)
(* claim check reads the text the row stores, the ATS check what LibreOffice*)
(* makes of the .docx, and the reviewer's decision neither.                 *)
(*                                                                          *)
(* A text is its set of words and the sections it is divided into; a heading*)
(* is one word, which others may contain.  The source text of a section     *)
(* begins "SUMMARY:", its .docx heading is "Summary": the label is a word   *)
(* of the source that no conversion can return.  DocumentGeneration has the *)
(* versions' races: here a rival that loses one may save over its file at   *)
(* any time.                                                                *)
(***************************************************************************)
EXTENDS Integers, FiniteSets
CONSTANTS Words,
          Inside,    \* which words are substrings of which
          Contact,   \* the profile's name and email, as far as it has them
          Texts,     \* what may be generated
          Losses,    \* sets of words a conversion may lose or garble
          Versions,  \* 1 .. the most documents
          NULL

ASSUME WordsAssumption ==
    /\ IsFiniteSet(Words) /\ Contact \subseteq Words
    /\ \A w \in Words : <<w, w>> \in Inside
    /\ Texts \subseteq [words : SUBSET Words, sections : SUBSET Words]
    /\ Versions \subseteq Nat
    /\ NULL \notin Texts

VARIABLES
    text,    \* content_json of each version's row, NULL without one
    file,    \* the text in the .docx at the version's path
    flag,    \* claim_check_passed and ats_check_passed
    review,  \* the version's request: its pc and the verdicts it holds
    back,    \* the words the ATS check got back, if it ran
    status,  \* of the job's application
    against  \* the versions whose claim check had failed at its last decision

reviewVars == <<text, file, flag, review, back, status, against>>

CheckFlags == {"null", "passed", "failed"}
Verdict == [claim : CheckFlags, ats : CheckFlags]
Statuses == {"none", "READY_FOR_REVIEW", "APPROVED", "REJECTED", "APPLIED"}
ReviewRequest ==
    [pc : {"none", "due", "record", "done", "error"}, holds : Verdict]
Unchecked == [claim |-> "null", ats |-> "null"]

ReviewTypeOK ==
    /\ text \in [Versions -> Texts \cup {NULL}]
    /\ file \in [Versions -> Texts \cup {NULL}]
    /\ flag \in [Versions -> Verdict]
    /\ review \in [Versions -> ReviewRequest]
    /\ back \in [Versions -> SUBSET Words]
    /\ status \in Statuses
    /\ against \subseteq Versions

ReviewInit ==
    /\ text = [v \in Versions |-> NULL] /\ file = text
    /\ flag = [v \in Versions |-> Unchecked]
    /\ review = [v \in Versions |-> [pc |-> "none", holds |-> Unchecked]]
    /\ back = [v \in Versions |-> {}]
    /\ status = "none" /\ against = {}

-----------------------------------------------------------------------------
(* write_resume_docx() and write_cover_letter_docx().                       *)
Docx(t) == t.words \cup t.sections \cup Contact

(* The file has no table, image, text box or column, so                     *)
(* check_docx_structure() lets it on to LibreOffice and PyMuPDF.            *)
Extracted(t, lost) == Docx(t) \ lost

(* resume_required_snippets(); a cover letter has no sections.              *)
Snippets(t) == t.sections \cup Contact

(* _normalize(snippet) in normalized_extracted: on its own or in a longer   *)
(* word, as "experience" is in "experienced".                               *)
Found(snippet, words) == \E w \in words : <<snippet, w>> \in Inside
AllFound(t, words) == \A s \in Snippets(t) : Found(s, words)

(* The source's distinct words, and those of them not among `words`: every  *)
(* section's label is one of both.                                          *)
SourceSize(t) == Cardinality(t.sections) + Cardinality(t.words)
Missing(t, words) == Cardinality(t.sections) + Cardinality(t.words \ words)

\* Mutant: a tenth is too much.
SurvivesStrictly(t, words) ==
    AllFound(t, words) /\ 10 * Missing(t, words) < SourceSize(t)

(* check_text_roundtrip(): missing_ratio > 0.1 fails.                       *)
Survives(t, words) ==
    AllFound(t, words) /\ 10 * Missing(t, words) <= SourceSize(t)

ReviewAt(v, pc) == review[v].pc = pc
Goes(v, pc, verdict) ==
    review' = [review EXCEPT ![v] = [pc |-> pc, holds |-> verdict]]
Flag(passed) == IF passed THEN "passed" ELSE "failed"

-----------------------------------------------------------------------------
(* create_application(), committed before any document is written.          *)
Prepare ==
    /\ status = "none"
    /\ status' = "READY_FOR_REVIEW"
    /\ UNCHANGED <<text, file, flag, review, back, against>>

(* persist_document() up to its row: generated or an accepted edit.  A job  *)
(* that has an application already keeps its status.                        *)
Store(v, t) ==
    /\ status # "none"
    /\ text[v] = NULL
    /\ \A w \in Versions : w < v => text[w] # NULL
    /\ text' = [text EXCEPT ![v] = t]
    /\ file' = [file EXCEPT ![v] = t]
    /\ Goes(v, "due", Unchecked)
    /\ UNCHANGED <<flag, back, status, against>>

(* A request that counted before v's row was committed saves its own text   *)
(* at v's path, and then loses the insert.                                  *)
Clobber(v, t) ==
    /\ text[v] # NULL
    /\ file' = [file EXCEPT ![v] = t]
    /\ UNCHANGED <<text, flag, review, back, status, against>>

(* Evidence that cannot be read, an LLM that gives no answer, a conversion  *)
(* that exits with an error or takes longer than 60 s, a database error.    *)
ReviewRaises(v) ==
    /\ review[v].pc \in {"due", "record"}
    /\ Goes(v, "error", Unchecked)
    /\ UNCHANGED <<text, file, flag, back, status, against>>

(* validate_claims() passes what is all verified and has no blocking claim. *)
(* LibreOffice is not installed, or makes no PDF: a RuntimeError, which     *)
(* stays "null".                                                            *)
ReviewClaims(v) ==
    /\ ReviewAt(v, "due")
    /\ \E verified, blocked \in BOOLEAN :
          Goes(v, "record", [claim |-> Flag(verified /\ ~blocked), ats |-> "null"])
    /\ UNCHANGED <<text, file, flag, back, status, against>>

\* Mutant: the text is compared with the file's own, not with the row's.
ReviewFile(v) ==
    /\ ReviewAt(v, "due")
    /\ \E lost \in Losses, verified, blocked \in BOOLEAN :
          LET words == Extracted(file[v], lost) IN
          /\ back' = [back EXCEPT ![v] = words]
          /\ Goes(v, "record", [claim |-> Flag(verified /\ ~blocked),
                              ats |-> Flag(Survives(file[v], words))])
    /\ UNCHANGED <<text, file, flag, status, against>>

(* review_generated_document() in one go, both checks being synchronous:    *)
(* the claims, then the words of whatever file is at the path.              *)
ReviewBoth(v) ==
    /\ ReviewAt(v, "due")
    /\ \E lost \in Losses, verified, blocked \in BOOLEAN :
          LET words == Extracted(file[v], lost) IN
          /\ back' = [back EXCEPT ![v] = words]
          /\ Goes(v, "record", [claim |-> Flag(verified /\ ~blocked),
                              ats |-> Flag(Survives(text[v], words))])
    /\ UNCHANGED <<text, file, flag, status, against>>

(* record_validation_result()                                               *)
Record(v) ==
    /\ ReviewAt(v, "record")
    /\ flag' = [flag EXCEPT ![v] = review[v].holds]
    /\ Goes(v, "done", review[v].holds)
    /\ UNCHANGED <<text, file, back, status, against>>

(* approve(), reject() and mark_applied(): any application, at any time.    *)
Decide ==
    /\ status # "none"
    /\ status' \in {"APPROVED", "REJECTED", "APPLIED"}
    /\ against' = {v \in Versions : flag[v].claim = "failed"}
    /\ UNCHANGED <<text, file, flag, review, back>>

ReviewNext ==
    \/ Prepare \/ Decide
    \/ \E v \in Versions : \/ \E t \in Texts : Store(v, t) \/ Clobber(v, t)
                           \/ ReviewClaims(v) \/ ReviewBoth(v)
                           \/ Record(v) \/ ReviewRaises(v)

ReviewSpec == ReviewInit /\ [][ReviewNext]_reviewVars

-----------------------------------------------------------------------------
(* Whatever a rival saved over the file and the conversion lost: a recorded *)
(* pass means that at least nine tenths of the words of the row's own text  *)
(* came back, and every heading and the contact, or another word that       *)
(* contains it.                                                             *)
PassedIsFaithful ==
    \A v \in Versions : flag[v].ats = "passed" =>
        /\ \A s \in Snippets(text[v]) \ back[v] :
              \E w \in back[v] \ {s} : <<s, w>> \in Inside
        /\ 10 * Cardinality(text[v].words \ back[v])
              <= Cardinality(text[v].words)

(* A file of which nothing was lost does not always pass: its labels count  *)
(* as lost words, so it does if and only if it has nine words a section.    *)
IntactVerdict ==
    \A v \in Versions :
        (flag[v].ats # "null" /\ back[v] = Docx(text[v])) =>
            (flag[v].ats = "passed"
                <=> 9 * Cardinality(text[v].sections)
                       <= Cardinality(text[v].words))

(* claim_validator.py and CLAIM_CHECK_PROMPT say that an unverified claim   *)
(* blocks the application: none is approved, or marked as sent, while the   *)
(* recorded check of one of its documents has failed.                       *)
UnverifiedBlocks == status \in {"APPROVED", "APPLIED"} => against = {}
=============================================================================
