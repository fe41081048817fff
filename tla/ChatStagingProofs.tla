-------------------------- MODULE ChatStagingProofs --------------------------
(***************************************************************************)
(* Proofs about ChatStaging for any messages, sessions and sources.         *)
(*                                                                          *)
(* What makes the replacement wholesale unless two overlap is LateRows: a   *)
(* row that a replacement in progress will not delete was committed since   *)
(* it began, so its message and this one are both recorded as raced.        *)
(***************************************************************************)
EXTENDS ChatStaging, TLAPS

Result(m) == [by : {m}, source : msg[m].found]

(* Rows are a committed message's, all it found or none.                    *)
RowsAreResults ==
    \A row \in staged : /\ msg[row.by].pc \in Committed
                        /\ Result(row.by) \subseteq staged
                        /\ row.source \in msg[row.by].found

(* So are the rows a replacement is to delete; they are its session's.      *)
DoomedAreResults ==
    \A m \in Messages : msg[m].pc \in Staging =>
        \A row \in msg[m].doomed : /\ SameSession(row.by, m)
                                   /\ msg[row.by].pc \in Committed
                                   /\ Result(row.by) \subseteq msg[m].doomed

Settled ==
    \A m \in Messages :
        msg[m].pc \in {"summarize", "stage"} \cup Staging \cup Committed =>
            msg[m].asked = msg[m].found \cup msg[m].missed

RivalsRaced ==
    \A m \in Messages : msg[m].pc \in Staging =>
        \A w \in Rivals(m) : {m, w} \subseteq raced

LateRows ==
    \A m \in Messages : msg[m].pc \in Staging =>
        \A row \in Visible(m) \ msg[m].doomed : {row.by, m} \subseteq raced

IInv == /\ TypeOK
        /\ RowsAreResults
        /\ DoomedAreResults
        /\ Settled
        /\ RivalsRaced
        /\ LateRows
        /\ OnlyRacesMix
        /\ LostToOwnSession

-----------------------------------------------------------------------------
(* The staged rows and the messages keep their types.                       *)
THEOREM TypeCorrect == Spec => []TypeOK
<1>1. Init => TypeOK
  BY DEF Init, TypeOK, Message, Row
<1> USE DEF TypeOK, Message, Live, Searching, Staging, At, Go
<1>2. TypeOK /\ [Next]_vars => TypeOK'
  <2> SUFFICES ASSUME TypeOK, [Next]_vars PROVE TypeOK'
    OBVIOUS
  <2>1. ASSUME NEW m \in Messages, ExtractIntent(m) PROVE TypeOK'
    <3>1. ASSUME NEW a \in SUBSET Sources
          PROVE  [msg[m] EXCEPT !.pc = "search", !.asked = a] \in Message
      <4>1. msg[m] \in Message
        OBVIOUS
      <4> QED
        BY <4>1
    <3>2. CASE Go(m, "clarified")
      BY <2>1, <3>2 DEF ExtractIntent
    <3>3. ASSUME NEW a \in SUBSET Sources,
                 msg' = [msg EXCEPT ![m] = [@ EXCEPT !.pc = "search",
                                                     !.asked = a]]
          PROVE  TypeOK'
      <4>1. msg' \in [Messages -> Message]
        BY <3>1, <3>3
      <4> QED
        BY <2>1, <4>1 DEF ExtractIntent
    <3> QED
      BY <2>1, <3>2, <3>3 DEF ExtractIntent
  <2>2. ASSUME NEW m \in Messages, NEW s \in Sources, Settle(m, s)
        PROVE  TypeOK'
    BY <2>2 DEF Settle
  <2>3. ASSUME NEW m \in Messages,
               Gather(m) \/ Summarize(m) \/ DeleteRows(m) \/ Refresh(m)
                  \/ Raise(m)
        PROVE  TypeOK'
    BY <2>3 DEF Gather, Summarize, DeleteRows, Refresh, Raise
  <2>4. ASSUME NEW m \in Messages, StartDelete(m) PROVE TypeOK'
    <3>1. msg[m] \in Message /\ Visible(m) \subseteq Row
      BY DEF Visible
    <3>2. [msg[m] EXCEPT !.pc = "delete", !.doomed = Visible(m)] \in Message
      BY <3>1
    <3>3. raced' \subseteq Messages
      BY <2>4 DEF StartDelete, Rivals
    <3> QED
      BY <2>4, <3>2, <3>3 DEF StartDelete
  <2>5. ASSUME NEW m \in Messages, Commit(m) PROVE TypeOK'
    <3>1. [by : {m}, source : msg[m].found] \subseteq Row
      BY DEF Row
    <3> QED
      BY <2>5, <3>1 DEF Commit
  <2>6. CASE UNCHANGED vars
    BY <2>6 DEF vars
  <2> QED
    BY <2>1, <2>2, <2>3, <2>4, <2>5, <2>6 DEF Next, Continue
<1> QED
  BY <1>1, <1>2, PTL DEF Spec

(* The strengthened invariant holds at first.                               *)
LEMMA IInvInit == Init => IInv
<1> SUFFICES ASSUME Init PROVE IInv
  OBVIOUS
<1>1. \A m \in Messages : msg[m].pc = "new"
  BY DEF Init
<1>2. TypeOK
  BY DEF Init, TypeOK, Message, Row
<1> QED
  BY <1>1, <1>2 DEF Init, IInv, RowsAreResults, DoomedAreResults, Settled,
     RivalsRaced, LateRows, OnlyRacesMix, LostToOwnSession, Staging, Committed

(* A step that writes no row and begins no replacement: a message moves on, *)
(* keeps its session, and keeps what it found once it has searched.         *)
LEMMA QuietStep ==
    ASSUME IInv, TypeOK', NEW m \in Messages,
           staged' = staged, raced' = raced,
           \A w \in Messages \ {m} : msg'[w] = msg[w],
           msg'[m].session = msg[m].session,
           msg'[m].pc \in Staging =>
              msg[m].pc \in Staging /\ msg'[m].doomed = msg[m].doomed,
           msg[m].pc \in Committed <=> msg'[m].pc \in Committed,
           msg[m].pc \in Committed => msg'[m].found = msg[m].found,
           msg'[m].pc \in {"summarize", "stage"} \cup Staging \cup Committed =>
              msg'[m].asked = msg'[m].found \cup msg'[m].missed
    PROVE  IInv'
<1>1. \A w \in Messages : /\ msg'[w].session = msg[w].session
                          /\ msg[w].pc \in Committed <=> msg'[w].pc \in Committed
                          /\ msg[w].pc \in Committed => msg'[w].found = msg[w].found
  OBVIOUS
<1>2. \A w, v \in Messages : SameSession(w, v)' <=> SameSession(w, v)
  BY <1>1 DEF SameSession
<1>3. \A row \in Row : row.by \in Messages
  BY DEF Row
<1>4. staged \subseteq Row /\ \A w \in Messages : msg[w].doomed \subseteq Row
  BY DEF IInv, TypeOK, Message
<1>5. ASSUME NEW w \in Messages, msg[w].pc \in Committed
      PROVE  Result(w)' = Result(w)
  BY <1>1, <1>5 DEF Result
<1>6. RowsAreResults'
  BY <1>1, <1>3, <1>4, <1>5 DEF IInv, RowsAreResults
<1>7. ASSUME NEW w \in Messages, msg'[w].pc \in Staging
      PROVE  msg[w].pc \in Staging /\ msg'[w].doomed = msg[w].doomed
  BY <1>7
<1>8. DoomedAreResults'
  BY <1>1, <1>2, <1>3, <1>4, <1>5, <1>7 DEF IInv, DoomedAreResults
<1>9. Settled'
  BY DEF IInv, Settled
<1>10. RivalsRaced'
  BY <1>2, <1>7 DEF IInv, RivalsRaced, Rivals
<1>11. \A w \in Messages : Visible(w)' = Visible(w)
  BY <1>2, <1>3, <1>4 DEF Visible
<1>12. LateRows'
  BY <1>7, <1>11 DEF IInv, LateRows
<1>13. OnlyRacesMix'
  BY <1>2, <1>3, <1>4 DEF IInv, OnlyRacesMix
<1>14. LostToOwnSession'
  BY <1>1, <1>2 DEF IInv, LostToOwnSession, RowsOf
<1> QED
  BY <1>6, <1>8, <1>9, <1>10, <1>12, <1>13, <1>14 DEF IInv

(* The DELETE begins: it sees every row of its session.                     *)
LEMMA StartStep ==
    ASSUME IInv, TypeOK', NEW m \in Messages, StartDelete(m)
    PROVE  IInv'
<1> USE DEF At
<1>1. /\ staged' = staged /\ raced \subseteq raced'
      /\ \A w \in Messages \ {m} : msg'[w] = msg[w]
      /\ msg[m].pc = "stage"
      /\ msg'[m] = [msg[m] EXCEPT !.pc = "delete", !.doomed = Visible(m)]
      /\ Rivals(m) # {} => raced' = raced \cup {m} \cup Rivals(m)
  BY DEF StartDelete, IInv, TypeOK
<1>2. msg[m] \in Message
  BY DEF IInv, TypeOK
<1>3. /\ msg'[m].pc = "delete" /\ msg'[m].doomed = Visible(m)
      /\ msg'[m].session = msg[m].session /\ msg'[m].found = msg[m].found
      /\ msg'[m].asked = msg[m].asked /\ msg'[m].missed = msg[m].missed
  BY <1>1, <1>2 DEF Message
<1>4. \A w \in Messages : /\ msg'[w].session = msg[w].session
                          /\ msg[w].pc \in Committed <=> msg'[w].pc \in Committed
                          /\ msg'[w].found = msg[w].found
  BY <1>1, <1>3 DEF Committed
<1>5. \A w, v \in Messages : SameSession(w, v)' <=> SameSession(w, v)
  BY <1>4 DEF SameSession
<1>6. \A w \in Messages : Result(w)' = Result(w)
  BY <1>4 DEF Result
<1>7. \A row \in Row : row.by \in Messages
  BY DEF Row
<1>8. staged \subseteq Row /\ \A w \in Messages : msg[w].doomed \subseteq Row
  BY DEF IInv, TypeOK, Message
<1>9. RowsAreResults'
  BY <1>1, <1>4, <1>6, <1>7, <1>8 DEF IInv, RowsAreResults
<1>10. DoomedAreResults'
  <2>1. ASSUME NEW row \in Visible(m)
        PROVE  /\ SameSession(row.by, m) /\ msg[row.by].pc \in Committed
               /\ Result(row.by) \subseteq Visible(m)
    <3>1. row \in staged /\ SameSession(row.by, m)
      BY <2>1 DEF Visible
    <3>2. Result(row.by) \subseteq staged /\ msg[row.by].pc \in Committed
      BY <3>1 DEF IInv, RowsAreResults
    <3>3. \A x \in Result(row.by) : x.by = row.by
      BY DEF Result
    <3> QED
      BY <3>1, <3>2, <3>3 DEF Visible
  <2>2. ASSUME NEW w \in Messages \ {m}, msg'[w].pc \in Staging,
               NEW row \in msg'[w].doomed
        PROVE  /\ SameSession(row.by, w) /\ msg[row.by].pc \in Committed
               /\ Result(row.by) \subseteq msg'[w].doomed
    BY <1>1, <2>2 DEF IInv, DoomedAreResults
  <2>3. ASSUME NEW w \in Messages, msg'[w].pc \in Staging,
               NEW row \in msg'[w].doomed
        PROVE  /\ SameSession(row.by, w) /\ msg[row.by].pc \in Committed
               /\ Result(row.by) \subseteq msg'[w].doomed
               /\ row.by \in Messages
    <3>1. CASE w = m
      BY <2>1, <2>3, <3>1, <1>3, <1>7, <1>8 DEF Visible
    <3>2. CASE w # m
      BY <2>2, <2>3, <3>2, <1>1, <1>7, <1>8
    <3> QED
      BY <3>1, <3>2
  <2> QED
    BY <2>3, <1>4, <1>5, <1>6 DEF DoomedAreResults
<1>11. Settled'
  <2>1. ASSUME NEW w \in Messages,
               msg'[w].pc \in {"summarize", "stage"} \cup Staging \cup Committed
        PROVE  msg'[w].asked = msg'[w].found \cup msg'[w].missed
    <3>1. CASE w = m
      <4>1. msg[m].asked = msg[m].found \cup msg[m].missed
        BY <1>1 DEF IInv, Settled
      <4> QED
        BY <3>1, <4>1, <1>3
    <3>2. CASE w # m
      BY <2>1, <3>2, <1>1 DEF IInv, Settled
    <3> QED
      BY <3>1, <3>2
  <2> QED
    BY <2>1 DEF Settled
<1>12. RivalsRaced'
  <2>1. \A w \in Messages \ {m} : Rivals(w)' \subseteq Rivals(w) \cup {m}
    BY <1>1, <1>5 DEF Rivals
  <2>2. Rivals(m)' = Rivals(m)
    BY <1>1, <1>5 DEF Rivals
  <2>3. ASSUME NEW w \in Messages \ {m}, msg'[w].pc \in Staging,
               m \in Rivals(w)'
        PROVE  w \in Rivals(m)
    BY <1>1, <1>5, <2>3 DEF Rivals, SameSession
  <2>4. ASSUME NEW w \in Messages, msg'[w].pc \in Staging,
               NEW v \in Rivals(w)'
        PROVE  {w, v} \subseteq raced'
    <3>1. CASE w = m
      BY <2>2, <2>4, <3>1, <1>1
    <3>2. CASE w # m /\ v = m
      BY <2>3, <2>4, <3>2, <1>1
    <3>3. CASE w # m /\ v # m
      BY <2>1, <2>4, <3>3, <1>1 DEF IInv, RivalsRaced
    <3> QED
      BY <3>1, <3>2, <3>3
  <2> QED
    BY <2>4 DEF RivalsRaced
<1>13. \A w \in Messages : Visible(w)' = Visible(w)
  BY <1>1, <1>5, <1>7, <1>8 DEF Visible
<1>14. LateRows'
  BY <1>1, <1>3, <1>13, ZenonT(40) DEF IInv, LateRows
<1>15. OnlyRacesMix'
  BY <1>1, <1>5, <1>7, <1>8 DEF IInv, OnlyRacesMix
<1>16. LostToOwnSession'
  BY <1>1, <1>4, <1>5 DEF IInv, LostToOwnSession, RowsOf
<1> QED
  BY <1>9, <1>10, <1>11, <1>12, <1>14, <1>15, <1>16 DEF IInv

(* The commit: the doomed rows are whole results of the same session, so    *)
(* what stays are whole results too.                                        *)
LEMMA CommitStep ==
    ASSUME IInv, TypeOK', NEW m \in Messages, Commit(m)
    PROVE  IInv'
<1> USE DEF At, Go
<1>1. /\ staged' = (staged \ msg[m].doomed) \cup Result(m)
      /\ raced' = raced
      /\ \A w \in Messages \ {m} : msg'[w] = msg[w]
      /\ msg[m].pc = "commit"
      /\ msg'[m] = [msg[m] EXCEPT !.pc = "refresh"]
  BY DEF Commit, Result, IInv, TypeOK
<1>2. msg[m] \in Message
  BY DEF IInv, TypeOK
<1>3. /\ msg'[m].pc = "refresh" /\ msg'[m].session = msg[m].session
      /\ msg'[m].found = msg[m].found
      /\ msg'[m].asked = msg[m].asked /\ msg'[m].missed = msg[m].missed
  BY <1>1, <1>2 DEF Message
<1>4. \A w \in Messages : /\ msg'[w].session = msg[w].session
                          /\ msg[w].pc \in Committed => msg'[w].pc \in Committed
                          /\ msg'[w].found = msg[w].found
                          /\ w # m => msg'[w].pc = msg[w].pc
  BY <1>1, <1>3 DEF Committed
<1>5. \A w, v \in Messages : SameSession(w, v)' <=> SameSession(w, v)
  BY <1>4 DEF SameSession
<1>6. \A w \in Messages : Result(w)' = Result(w)
  BY <1>4 DEF Result
<1>7. \A row \in Row : row.by \in Messages
  BY DEF Row
<1>8. staged \subseteq Row /\ \A w \in Messages : msg[w].doomed \subseteq Row
  BY DEF IInv, TypeOK, Message
<1>9. \A row \in Result(m) : row.by = m /\ row.source \in msg[m].found
  BY DEF Result
<1>10. ASSUME NEW row \in staged \ msg[m].doomed
       PROVE  Result(row.by) \cap msg[m].doomed = {}
  <2> SUFFICES ASSUME NEW x \in Result(row.by), x \in msg[m].doomed
               PROVE  FALSE
    OBVIOUS
  <2>1. x.by = row.by
    BY DEF Result
  <2>2. Result(row.by) \subseteq msg[m].doomed
    BY <1>1, <2>1 DEF IInv, DoomedAreResults, Staging
  <2>3. row \in Result(row.by)
    BY <1>8 DEF IInv, RowsAreResults, Result, Row
  <2> QED
    BY <2>2, <2>3
<1>11. RowsAreResults'
  <2> SUFFICES ASSUME NEW row \in staged'
               PROVE  /\ msg'[row.by].pc \in Committed
                      /\ Result(row.by)' \subseteq staged'
                      /\ row.source \in msg'[row.by].found
    BY DEF RowsAreResults
  <2>1. CASE row \in Result(m)
    BY <2>1, <1>1, <1>3, <1>6, <1>9 DEF Committed
  <2>2. CASE row \in staged \ msg[m].doomed
    <3>1. row.by \in Messages
      BY <2>2, <1>7, <1>8
    <3>2. /\ msg[row.by].pc \in Committed /\ Result(row.by) \subseteq staged
          /\ row.source \in msg[row.by].found
      BY <2>2 DEF IInv, RowsAreResults
    <3> QED
      BY <2>2, <3>1, <3>2, <1>1, <1>4, <1>6, <1>10
  <2> QED
    BY <2>1, <2>2, <1>1
<1>12. DoomedAreResults'
  <2> SUFFICES ASSUME NEW w \in Messages, msg'[w].pc \in Staging,
                      NEW row \in msg'[w].doomed
               PROVE  /\ SameSession(row.by, w)'
                      /\ msg'[row.by].pc \in Committed
                      /\ Result(row.by)' \subseteq msg'[w].doomed
    BY DEF DoomedAreResults
  <2>1. w # m /\ msg'[w] = msg[w] /\ row.by \in Messages
    BY <1>1, <1>3, <1>7, <1>8 DEF Staging
  <2>2. /\ SameSession(row.by, w) /\ msg[row.by].pc \in Committed
        /\ Result(row.by) \subseteq msg[w].doomed
    BY <2>1 DEF IInv, DoomedAreResults
  <2> QED
    BY <2>1, <2>2, <1>4, <1>5, <1>6
<1>13. Settled'
  <2>1. ASSUME NEW w \in Messages,
               msg'[w].pc \in {"summarize", "stage"} \cup Staging \cup Committed
        PROVE  msg'[w].asked = msg'[w].found \cup msg'[w].missed
    <3>1. CASE w = m
      <4>1. msg[m].asked = msg[m].found \cup msg[m].missed
        BY <1>1 DEF IInv, Settled, Staging
      <4> QED
        BY <3>1, <4>1, <1>3
    <3>2. CASE w # m
      BY <2>1, <3>2, <1>1 DEF IInv, Settled
    <3> QED
      BY <3>1, <3>2
  <2> QED
    BY <2>1 DEF Settled
<1>14. RivalsRaced'
  BY <1>1, <1>3, <1>5 DEF IInv, RivalsRaced, Rivals, Staging
<1>15. LateRows'
  <2> SUFFICES ASSUME NEW w \in Messages, msg'[w].pc \in Staging,
                      NEW row \in Visible(w)', row \notin msg'[w].doomed
               PROVE  {row.by, w} \subseteq raced
    BY <1>1 DEF LateRows
  <2>1. w # m /\ msg'[w] = msg[w]
    BY <1>1, <1>3 DEF Staging
  <2>2. row \in staged' /\ SameSession(row.by, w)'
    BY DEF Visible
  <2>3. CASE row \in Result(m)
    <3>1. row.by = m /\ SameSession(m, w)
      BY <2>2, <2>3, <1>5, <1>9
    <3>2. m \in Rivals(w)
      BY <2>1, <3>1, <1>1 DEF Rivals, SameSession, Staging
    <3> QED
      BY <2>1, <3>1, <3>2 DEF IInv, RivalsRaced
  <2>4. CASE row \in staged
    <3>1. SameSession(row.by, w)
      BY <2>2, <2>4, <1>5, <1>7, <1>8
    <3> QED
      BY <2>1, <2>4, <3>1 DEF IInv, LateRows, Visible
  <2> QED
    BY <2>2, <2>3, <2>4, <1>1
<1>16. ASSUME NEW row \in staged \ msg[m].doomed, SameSession(row.by, m)
       PROVE  {row.by, m} \subseteq raced
  BY <1>1, <1>16 DEF IInv, LateRows, Visible, Staging
<1>17. OnlyRacesMix'
  <2> SUFFICES ASSUME NEW a \in staged', NEW b \in staged',
                      SameSession(a.by, b.by)', a.by # b.by
               PROVE  {a.by, b.by} \subseteq raced
    BY <1>1 DEF OnlyRacesMix
  <2>1. SameSession(a.by, b.by) /\ SameSession(b.by, a.by)
    BY <1>1, <1>5, <1>7, <1>8, <1>9 DEF SameSession
  <2>2. CASE a \in Result(m)
    BY <2>1, <2>2, <1>1, <1>9, <1>16
  <2>3. CASE b \in Result(m)
    BY <2>1, <2>3, <1>1, <1>9, <1>16
  <2>4. CASE a \in staged /\ b \in staged
    BY <2>1, <2>4 DEF IInv, OnlyRacesMix
  <2> QED
    BY <2>2, <2>3, <2>4, <1>1
<1>18. LostToOwnSession'
  <2> SUFFICES ASSUME NEW v \in Messages, msg'[v].pc \in Committed,
                      RowsOf(v)' = {}, msg'[v].found # {}
               PROVE  \E w \in Messages \ {v} :
                         SameSession(v, w)' /\ msg'[w].pc \in Committed
    BY DEF LostToOwnSession
  <2>1. v # m
    <3>1. Result(m) \subseteq staged'
      BY <1>1
    <3>2. ASSUME v = m PROVE FALSE
      <4>1. PICK s \in msg[m].found : TRUE
        BY <3>2, <1>3
      <4>2. [by |-> m, source |-> s] \in Result(m)
        BY DEF Result
      <4> QED
        BY <3>1, <3>2, <4>2 DEF RowsOf
    <3> QED
      BY <3>2
  <2>2. msg[v].pc \in Committed /\ msg[v].found # {}
    BY <2>1, <1>4
  <2>3. CASE RowsOf(v) = {}
    <3>1. PICK w \in Messages \ {v} :
             SameSession(v, w) /\ msg[w].pc \in Committed
      BY <2>2, <2>3 DEF IInv, LostToOwnSession
    <3> QED
      BY <3>1, <1>4, <1>5
  <2>4. CASE RowsOf(v) # {}
    <3>1. PICK row \in staged : row.by = v
      BY <2>4 DEF RowsOf
    <3>2. row \in msg[m].doomed
      BY <3>1, <1>1 DEF RowsOf
    <3>3. SameSession(v, m)
      BY <3>1, <3>2, <1>1 DEF IInv, DoomedAreResults, Staging
    <3> QED
      BY <2>1, <3>3, <1>3, <1>5 DEF Committed
  <2> QED
    BY <2>3, <2>4
<1> QED
  BY <1>11, <1>12, <1>13, <1>14, <1>15, <1>17, <1>18 DEF IInv

(* Every step preserves the invariant.                                      *)
LEMMA IInvStep == IInv /\ TypeOK' /\ [Next]_vars => IInv'
<1> SUFFICES ASSUME IInv, TypeOK', [Next]_vars PROVE IInv'
  OBVIOUS
<1> USE DEF At, Go
<1>0. \A m \in Messages : msg[m] \in Message
  BY DEF IInv, TypeOK
<1>1. ASSUME NEW m \in Messages,
             \/ ExtractIntent(m) \/ (\E s \in Sources : Settle(m, s))
             \/ Gather(m) \/ Summarize(m) \/ DeleteRows(m)
             \/ Refresh(m) \/ Raise(m)
      PROVE  IInv'
  <2>1. /\ staged' = staged /\ raced' = raced
        /\ \A w \in Messages \ {m} : msg'[w] = msg[w]
    BY <1>1 DEF IInv, TypeOK, ExtractIntent, Settle, Gather, Summarize,
       DeleteRows, Refresh, Raise
  <2>2. CASE ExtractIntent(m)
    <3>1. /\ msg'[m].session = msg[m].session
          /\ msg[m].pc = "new" /\ msg'[m].pc \in {"clarified", "search"}
      BY <2>2, <1>0, ZenonT(40) DEF ExtractIntent, IInv, TypeOK, Message
    <3> QED
      BY <2>1, <3>1, QuietStep DEF Staging, Committed
  <2>3. ASSUME NEW s \in Sources, Settle(m, s) PROVE IInv'
    <3>1. /\ msg'[m].session = msg[m].session
          /\ msg[m].pc = "search" /\ msg'[m].pc = "search"
      BY <2>3, <1>0 DEF Settle, IInv, TypeOK, Message
    <3> QED
      BY <2>1, <3>1, QuietStep DEF Staging, Committed
  <2>4. CASE \/ Gather(m) \/ Summarize(m) \/ DeleteRows(m)
             \/ Refresh(m) \/ Raise(m)
    <3>1. \E pc \in {"summarize", "stage", "commit", "ok", "lost", "error"} :
             msg'[m] = [msg[m] EXCEPT !.pc = pc]
      BY <2>4 DEF Gather, Summarize, DeleteRows, Refresh, Raise, IInv, TypeOK
    <3>2. /\ msg'[m].session = msg[m].session /\ msg'[m].found = msg[m].found
          /\ msg'[m].asked = msg[m].asked /\ msg'[m].missed = msg[m].missed
          /\ msg'[m].doomed = msg[m].doomed
      BY <3>1, <1>0 DEF Message
    <3>3. /\ msg'[m].pc \in Staging => msg[m].pc \in Staging
          /\ msg[m].pc \in Committed <=> msg'[m].pc \in Committed
      BY <2>4, <1>0 DEF Gather, Summarize, DeleteRows, Refresh, Raise, IInv,
         TypeOK, Message, Staging, Committed, Live, Searching
    <3>4. msg'[m].pc \in {"summarize", "stage"} \cup Staging \cup Committed =>
             msg[m].asked = msg[m].found \cup msg[m].missed
      BY <2>4, <1>0 DEF Gather, Summarize, DeleteRows, Refresh, Raise, IInv,
         TypeOK, Message, Staging, Committed, Settled
    <3> QED
      BY <2>1, <3>2, <3>3, <3>4, QuietStep
  <2> QED
    BY <1>1, <2>2, <2>3, <2>4
<1>2. ASSUME NEW m \in Messages, StartDelete(m) PROVE IInv'
  BY <1>2, StartStep
<1>3. ASSUME NEW m \in Messages, Commit(m) PROVE IInv'
  BY <1>3, CommitStep
<1>4. CASE UNCHANGED vars
  BY <1>4 DEF vars, IInv, RowsAreResults, DoomedAreResults, Settled,
     RivalsRaced, LateRows, OnlyRacesMix, LostToOwnSession, Result,
     SameSession, Rivals, Visible, RowsOf, TypeOK
<1> QED
  BY <1>1, <1>2, <1>3, <1>4 DEF Next, Continue

(* The strengthened invariant holds in every reachable state.               *)
LEMMA Invariance == Spec => []IInv
<1>1. IInv /\ TypeOK' /\ [Next]_vars => IInv'
  BY IInvStep
<1> QED
  BY <1>1, IInvInit, TypeCorrect, PTL DEF Spec

(* Two searches' results are only ever mixed by overlapping replacements.   *)
THEOREM OnlyRacesEverMix == Spec => []OnlyRacesMix
<1>1. IInv => OnlyRacesMix
  BY DEF IInv
<1> QED
  BY <1>1, Invariance, PTL

(* What is staged is always the whole of what a search found.               *)
THEOREM StagedAlwaysWhole == Spec => []StagedWhatWasFound
<1>1. IInv => StagedWhatWasFound
  <2> SUFFICES ASSUME IInv, NEW m \in Messages, NEW r \in RowsOf(m)
               PROVE  /\ {row.source : row \in RowsOf(m)} = msg[m].found
                      /\ msg[m].asked = msg[m].found \cup msg[m].missed
    BY DEF StagedWhatWasFound
  <2>1. r \in staged /\ r.by = m
    BY DEF RowsOf
  <2>2. msg[m].pc \in Committed /\ Result(m) \subseteq staged
    BY <2>1 DEF IInv, RowsAreResults
  <2>3. \A row \in RowsOf(m) : row.source \in msg[m].found
    BY DEF RowsOf, IInv, RowsAreResults
  <2>4. ASSUME NEW s \in msg[m].found
        PROVE  \E row \in RowsOf(m) : row.source = s
    <3>1. [by |-> m, source |-> s] \in Result(m)
      BY DEF Result
    <3> QED
      BY <2>2, <3>1 DEF RowsOf
  <2>5. msg[m].asked = msg[m].found \cup msg[m].missed
    BY <2>2 DEF IInv, Settled
  <2> QED
    BY <2>3, <2>4, <2>5
<1> QED
  BY <1>1, Invariance, PTL

(* A message only ever loses its rows to its own session.                   *)
THEOREM AlwaysLostToOwnSession == Spec => []LostToOwnSession
<1>1. IInv => LostToOwnSession
  BY DEF IInv
<1> QED
  BY <1>1, Invariance, PTL
=============================================================================
