-------------------------- MODULE MCDocumentReview --------------------------
(* DocumentReview with texts on both sides of each boundary: the words are  *)
(* numbers, 100 the heading, which the ninth contains, and 200 the contact. *)
EXTENDS DocumentReview
Heading == 100
MCContact == {200}
MCWords == 1..10 \cup {Heading} \cup MCContact
Resume(n) == [words |-> 1..n, sections |-> {Heading}]
Letter(n) == [words |-> 1..n, sections |-> {}]
MCTexts == {Resume(8), Resume(9), Letter(10)}
MCInside == {<<w, w>> : w \in MCWords} \cup {<<Heading, 9>>}
MCLosses == {{}, {1}, {1, 2}, {Heading}, MCContact}
MCVersions == 1..2
MCInit == ReviewInit
MCSpec == MCInit /\ [][ReviewNext]_reviewVars
=============================================================================
