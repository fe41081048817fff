-------------------------- MODULE MCBlockingCalls --------------------------
(* BlockingCalls with a few requests; its run checks liveness, so they are   *)
(* not made symmetric.                                                      *)
EXTENDS BlockingCalls

MCCalls == 1..3
MCCompanies == {"up", "down"}

(* Two scrapes, one of which may be a chat message's, beside a fetch; they   *)
(* may hold two workers for ever.  A third request of any other kind.       *)
MCInit ==
    /\ Init
    /\ Kind(1, {"short", "llm", "document", "boards"})
    /\ Kind(2, {"chat", "scrape"}) /\ Kind(3, {"scrape"})
    /\ reachable = {"up"}
MCSpec == MCInit /\ [][Next]_vars /\ Fairness
=============================================================================
