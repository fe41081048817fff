---------------------------- MODULE AuthService ----------------------------
(***************************************************************************)
(* Auth behind its rate limit: login() asks LoginRateLimit first, before it *)
(* touches the database.  The key is the client's address and the email as  *)
(* the look-up sees it; the buckets die with the process.                   *)
(***************************************************************************)
EXTENDS Auth, LoginRateLimit
CONSTANTS Clients   \* addresses that logins come from

ASSUME KeysAssumption == Keys = Clients \X Emails

svars == <<vars, limiter>>

ServiceInit == Init /\ LimiterInit

-----------------------------------------------------------------------------
Login(r) ==
    /\ FindTenant(r)
    /\ \E client \in Clients : Acquire(<<client, req'[r].email>>)

(* 429 before any query.                                                    *)
Limited(r) ==
    /\ At(r, "new")
    /\ Go(r, "refused")
    /\ \E key \in Keys : Deny(key)
    /\ UNCHANGED <<up, Database, tokens>>

Restart ==
    \/ Start /\ UNCHANGED limiter
    \/ Stop /\ Forget

ServiceNext ==
    \/ Restart
    \/ Pass /\ UNCHANGED vars
    \/ up /\ \E r \in Requests : \/ Login(r) \/ Limited(r)
                                 \/ Serve(r) /\ UNCHANGED limiter

ServiceSpec == ServiceInit /\ [][ServiceNext]_svars
=============================================================================
