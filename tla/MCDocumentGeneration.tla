------------------------ MODULE MCDocumentGeneration ------------------------
(* DocumentGeneration with a few requests for documents of one job.         *)
EXTENDS DocumentGeneration, TLC

(* Requests and document types are interchangeable: up to a renaming either *)
(* all of three requests are for one type or one is for another.            *)
Odd == CHOOSE r \in Requests : TRUE
Usual == CHOOSE d \in DocTypes : TRUE
MCInit == Init /\ \A r \in Requests \ {Odd} : Slot(r)[2] = Usual
MCSpec == MCInit /\ [][Next]_vars /\ Fairness
=============================================================================
