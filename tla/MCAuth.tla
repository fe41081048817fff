------------------------------- MODULE MCAuth -------------------------------
(* AuthService with a few ids, emails and requests.                         *)
EXTENDS AuthService, TLC
MCKeys == Clients \X Emails
Symmetry == Permutations(Requests) \cup Permutations(Ids)

Account(email, role, default) == [tenant |-> DefaultSlug, email |-> email,
                                  role |-> role, default |-> default]

(* The service before it first starts, or running with its administrator    *)
(* and a user of any role logged in: longer histories begin there.          *)
LoggedIn ==
    /\ up = TRUE
    /\ tenants = {DefaultSlug}
    /\ \E i, k \in Ids, e \in Emails \ {DefaultEmail}, role \in Roles :
          /\ i # k
          /\ issued = {i, k}
          /\ user = [n \in Ids |->
                        CASE n = i -> Account(DefaultEmail, "admin", TRUE)
                          [] n = k -> Account(e, role, FALSE)
                          [] OTHER -> NULL]
          /\ tokens = {[sub |-> i, email |-> DefaultEmail], [sub |-> k, email |-> e]}
    /\ req = [r \in Requests |-> Blank]
MCInit == (Init \/ LoggedIn) /\ LimiterInit
MCSpec == MCInit /\ [][ServiceNext]_svars
=============================================================================
