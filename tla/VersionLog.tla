----------------------------- MODULE VersionLog -----------------------------
(***************************************************************************)
(* What document generation promises of the versions of one kind of         *)
(* document for one job: an append-only, numbered log.  A version's text    *)
(* never changes, and its review is recorded at most once.                  *)
(***************************************************************************)
EXTENDS Naturals, Sequences

CONSTANTS Slots,     \* (job, document type) pairs
          Contents,  \* texts a version may have
          Reviews,   \* outcomes of a review
          Pending    \* the review of a version nobody has reviewed

VARIABLE log         \* versions of each slot: its text and its review

Init == log = [s \in Slots |-> << >>]

Publish(s, c) ==
    log' = [log EXCEPT ![s] = Append(@, [content |-> c, review |-> Pending])]

Review(s, v, r) ==
    /\ v \in DOMAIN log[s] /\ log[s][v].review = Pending
    /\ log' = [log EXCEPT ![s][v].review = r]

Next == \E s \in Slots :
            \/ \E c \in Contents : Publish(s, c)
            \/ \E v \in DOMAIN log[s], r \in Reviews : Review(s, v, r)

Spec == Init /\ [][Next]_log
=============================================================================
