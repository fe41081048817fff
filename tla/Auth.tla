-------------------------------- MODULE Auth --------------------------------
(***************************************************************************)
(* Tenants, users and tokens: seeding at start-up, login, and the requests  *)
(* an administrator makes.  A JWT carries the id of a users row; every      *)
(* request reads that row once, when it begins, and acts on what it read.   *)
(*                                                                          *)
(* Emails and slugs stand for their trimmed, lower-cased forms.  No code    *)
(* clears is_active or changes a user's columns.  The content of a token    *)
(* other than "sub" is never read back, save a slug for a missing tenant.   *)
(* GET /me and GET /users change nothing and are left out; every 4xx answer  *)
(* is "refused".                                                            *)
(***************************************************************************)
EXTENDS FiniteSets
CONSTANTS Ids,            \* primary keys of users; bounds the rows inserted
          Emails, Slugs, Requests,
          DefaultEmail, DefaultSlug,  \* settings.default_admin_email, ..._slug
          NULL

ASSUME DefaultsAssumption == DefaultEmail \in Emails /\ DefaultSlug \in Slugs
ASSUME NullAssumption ==
    /\ NULL \notin Ids \cup Slugs
    /\ NULL \notin [tenant : Slugs, email : Emails, role : {"admin", "user"},
                    default : BOOLEAN]

VARIABLES
    up,       \* the service accepts requests
    tenants,  \* slugs of the tenants rows
    user,     \* the users rows: one per id, NULL where there is none
    issued,   \* ids the users_id_seq sequence has given out
    tokens,   \* the tokens out there: id and email they were issued for
    req       \* what each request is doing

vars == <<up, tenants, user, issued, tokens, req>>

Roles == {"admin", "user"}
User == [tenant : Slugs, email : Emails, role : Roles, default : BOOLEAN]
Token == [sub : Ids, email : Emails]
Kinds == {"login", "create", "tenant", "delete"}
Live == {"find", "check", "insert", "refresh", "target", "purge"}
Answers == {"ok", "refused", "error"}

(* `slug`, `email`, `role` and `target` are the request's payload (`target`  *)
(* only for a deletion), `tenant` the context's tenant (for a login the one  *)
(* it names), `made` the row it inserted.                                    *)
Request == [pc : {"new"} \cup Live \cup Answers, kind : Kinds \cup {"none"},
            slug : Slugs, email : Emails, role : Roles,
            target : Ids \cup {NULL}, tenant : Slugs, made : Ids \cup {NULL}]

Blank == [pc |-> "new", kind |-> "none", slug |-> DefaultSlug,
          email |-> DefaultEmail, role |-> "user", target |-> NULL,
          tenant |-> DefaultSlug, made |-> NULL]

TypeOK ==
    /\ up \in BOOLEAN
    /\ tenants \subseteq Slugs
    /\ user \in [Ids -> User \cup {NULL}]
    /\ issued \subseteq Ids
    /\ tokens \subseteq Token
    /\ req \in [Requests -> Request]

(* An empty database, the service not started.                              *)
Init ==
    /\ up = FALSE
    /\ tenants = {}
    /\ user = [i \in Ids |-> NULL]
    /\ issued = {} /\ tokens = {}
    /\ req = [r \in Requests |-> Blank]

-----------------------------------------------------------------------------
At(r, pc) == req[r].pc = pc
Rows == {i \in Ids : user[i] # NULL}
Registered(tenant, email) ==
    \E i \in Rows : user[i].tenant = tenant /\ user[i].email = email
Go(r, pc) == req' = [req EXCEPT ![r].pc = pc]
Database == <<tenants, user, issued>>

(* init_db(): one transaction at start-up, before any request is accepted.  *)
SeedDb ==
    /\ tenants' = tenants \cup {DefaultSlug}
    /\ IF Registered(DefaultSlug, DefaultEmail)
       THEN UNCHANGED <<user, issued>>
       ELSE \E i \in Ids \ issued :
               /\ issued' = issued \cup {i}
               /\ user' = [user EXCEPT ![i] =
                              [tenant |-> DefaultSlug, email |-> DefaultEmail,
                               role |-> "admin", default |-> TRUE]]

(* lifespan(): a failing init_db() is logged and the service starts anyway. *)
Start ==
    /\ ~up
    /\ up' = TRUE
    /\ SeedDb \/ UNCHANGED Database
    /\ UNCHANGED <<tokens, req>>

(* The process ends: the requests in progress get no answer.                *)
Stop ==
    /\ up
    /\ up' = FALSE
    /\ req' = [r \in Requests |->
                  IF req[r].pc \in Live THEN [req[r] EXCEPT !.pc = "error"]
                  ELSE req[r]]
    /\ UNCHANGED <<Database, tokens>>

(* authenticate_user(): the tenant, then the user.                          *)
FindTenant(r) ==
    /\ At(r, "new")
    /\ \E slug \in Slugs, email \in Emails :
          req' = [req EXCEPT ![r] =
                     [@ EXCEPT !.kind = "login",
                               !.tenant = slug, !.email = email,
                               !.pc = IF slug \in tenants THEN "find"
                                      ELSE "refused"]]
    /\ UNCHANGED <<up, Database, tokens>>

(* A wrong password is denied as well.                                      *)
FindUser(r) ==
    /\ At(r, "find")
    /\ \/ \E i \in Rows :
            /\ user[i].tenant = req[r].tenant /\ user[i].email = req[r].email
            /\ tokens' = tokens \cup {[sub |-> i, email |-> req[r].email]}
            /\ Go(r, "ok")
       \/ Go(r, "refused") /\ UNCHANGED tokens
    /\ UNCHANGED <<up, Database>>

\* Mutant: the context's tenant is one the request names.
AskInAnyTenant(r, payload) ==
    /\ At(r, "new")
    /\ \E t \in tokens, slug \in tenants :
          /\ t.sub \in Rows /\ user[t.sub].role = "admin"
          /\ req' = [req EXCEPT ![r] =
                        [payload EXCEPT !.tenant = slug,
                                        !.pc = IF payload.kind = "delete"
                                               THEN "target" ELSE "check"]]
    /\ UNCHANGED <<up, Database, tokens>>

(* get_current_user() and require_admin(): the row of the token's subject.  *)
Ask(r, payload) ==
    /\ At(r, "new")
    /\ \E t \in tokens :
          /\ t.sub \in Rows /\ user[t.sub].role = "admin"
          /\ req' = [req EXCEPT ![r] =
                        [payload EXCEPT !.tenant = user[t.sub].tenant,
                                        !.pc = IF payload.kind = "delete"
                                               THEN "target" ELSE "check"]]
    /\ UNCHANGED <<up, Database, tokens>>

AskToCreate(r) == \E e \in Emails, o \in Roles :
    Ask(r, [Blank EXCEPT !.kind = "create", !.email = e, !.role = o])
AskForTenant(r) == \E s \in Slugs :
    Ask(r, [Blank EXCEPT !.kind = "tenant", !.slug = s])
AskToDelete(r) == \E i \in Ids :
    Ask(r, [Blank EXCEPT !.kind = "delete", !.target = i])

(* No token, one that has expired, whose user is gone or is not an admin.   *)
Refuse(r) ==
    /\ At(r, "new")
    /\ Go(r, "refused")
    /\ UNCHANGED <<up, Database, tokens>>

\* Mutant: the look-up takes an email as it was typed.
CheckAsTyped(r) ==
    /\ At(r, "check")
    /\ \E pc \in {"refused", "insert"} : Go(r, pc)
    /\ UNCHANGED <<up, Database, tokens>>

(* create_user() and create_tenant(): the look-up before the insert.        *)
Check(r) ==
    /\ At(r, "check")
    /\ Go(r, IF \/ req[r].kind = "create"
                   /\ Registered(req[r].tenant, req[r].email)
                \/ req[r].kind = "tenant" /\ req[r].slug \in tenants
             THEN "refused" ELSE "insert")
    /\ UNCHANGED <<up, Database, tokens>>

(* The new row is in the administrator's tenant, whatever the request says. *)
InsertRow(r, i) ==
    /\ issued' = issued \cup {i}
    /\ user' = [user EXCEPT ![i] =
                   [tenant |-> req[r].tenant, email |-> req[r].email,
                    role |-> req[r].role, default |-> FALSE]]
    /\ req' = [req EXCEPT ![r] = [@ EXCEPT !.pc = "refresh", !.made = i]]
    /\ UNCHANGED <<up, tenants, tokens>>

\* Mutant: ids of deleted rows are given out again.
InsertUserReusingIds(r) ==
    /\ At(r, "insert") /\ req[r].kind = "create"
    /\ IF Registered(req[r].tenant, req[r].email)
       THEN Go(r, "refused") /\ UNCHANGED <<up, Database, tokens>>
       ELSE \E i \in Ids \ Rows : InsertRow(r, i)

(* The commit; uq_users_tenant_email turns a lost race into a conflict.     *)
InsertUser(r) ==
    /\ At(r, "insert") /\ req[r].kind = "create"
    /\ IF Registered(req[r].tenant, req[r].email)
       THEN Go(r, "refused") /\ UNCHANGED <<up, Database, tokens>>
       ELSE \E i \in Ids \ issued : InsertRow(r, i)

InsertTenant(r) ==
    /\ At(r, "insert") /\ req[r].kind = "tenant"
    /\ IF req[r].slug \in tenants
       THEN Go(r, "refused") /\ UNCHANGED tenants
       ELSE Go(r, "refresh") /\ tenants' = tenants \cup {req[r].slug}
    /\ UNCHANGED <<up, user, issued, tokens>>

(* The committed row is read back; refresh() raises if it is already gone.  *)
Refresh(r) ==
    /\ At(r, "refresh")
    /\ Go(r, IF req[r].kind = "create" /\ user[req[r].made] = NULL
             THEN "error" ELSE "ok")
    /\ UNCHANGED <<up, Database, tokens>>

\* Mutant: the default administrator is not protected.
FindTargetUnprotected(r) ==
    /\ At(r, "target")
    /\ Go(r, IF req[r].target \in Rows
                /\ user[req[r].target].tenant = req[r].tenant
             THEN "purge" ELSE "refused")
    /\ UNCHANGED <<up, Database, tokens>>

(* delete_user(): the target, in the administrator's own tenant.            *)
FindTarget(r) ==
    /\ At(r, "target")
    /\ LET i == req[r].target IN
       Go(r, IF \/ i \notin Rows \/ user[i].tenant # req[r].tenant
                \/ user[i].default
             THEN "refused" ELSE "purge")
    /\ UNCHANGED <<up, Database, tokens>>

\* Mutant: a deletion that is not committed is answered 200.
DeleteNotCommitted(r) ==
    /\ At(r, "purge")
    /\ Go(r, "ok")
    /\ UNCHANGED <<up, Database, tokens>>

(* The DELETE's commit.  A row that is already gone is only a warning.      *)
Delete(r) ==
    /\ At(r, "purge")
    /\ user' = [user EXCEPT ![req[r].target] = NULL]
    /\ Go(r, "ok")
    /\ UNCHANGED <<up, tenants, issued, tokens>>

(* A statement or the connection fails before it takes effect.              *)
Raise(r) ==
    /\ req[r].pc \in Live
    /\ Go(r, "error")
    /\ UNCHANGED <<up, Database, tokens>>

(* Every handler's step but a login's first.                                *)
Serve(r) ==
    \/ FindUser(r)
    \/ AskToCreate(r) \/ AskForTenant(r) \/ AskToDelete(r) \/ Refuse(r)
    \/ Check(r) \/ InsertUser(r) \/ InsertTenant(r) \/ Refresh(r)
    \/ FindTarget(r) \/ Delete(r)
    \/ Raise(r)

Next ==
    \/ Start \/ Stop
    \/ up /\ \E r \in Requests : FindTenant(r) \/ Serve(r)

Spec == Init /\ [][Next]_vars

-----------------------------------------------------------------------------
(* Once the database has been seeded there is exactly one default           *)
(* administrator, whatever restarts, deletions and creations race: nobody   *)
(* can delete it, take its email or be given its flag, and no user exists   *)
(* before it.                                                               *)
OneDefaultAdmin ==
    Rows # {} =>
        \E i \in Rows :
            /\ user[i] = [tenant |-> DefaultSlug, email |-> DefaultEmail,
                          role |-> "admin", default |-> TRUE]
            /\ \A j \in Rows \ {i} : ~user[j].default

(* Two creations of one email that both pass the look-up leave one row, and *)
(* two requests answered 201 for it never both have theirs.                 *)
EmailsUnique ==
    \A i, j \in Rows :
        user[i].tenant = user[j].tenant /\ user[i].email = user[j].email
            => i = j

(* Users are created in their creator's tenant only, and the first one is   *)
(* the default tenant's: a tenant made through POST /auth/tenants never     *)
(* gets a user, whoever creates what in which order.                        *)
UsersInDefaultTenant == \A i \in Rows : user[i].tenant = DefaultSlug

(* A deletion that was answered 200, also one that lost the race to another *)
(* deletion, leaves no row: the id never comes back.                        *)
DeletedStaysDeleted ==
    \A r \in Requests :
        (req[r].kind = "delete" /\ At(r, "ok")) => user[req[r].target] = NULL

(* A token outlives its user and any restart, and still never speaks for    *)
(* another user.                                                            *)
TokenNamesItsUser ==
    \A t \in tokens : t.sub \in Rows => user[t.sub].email = t.email

(* A creation whose look-up found nothing is refused at its commit for the  *)
(* row of a rival only, which is still there: never for one that is older   *)
(* than its look-up, for the seed of a restart or for one that is deleted.  *)
LosersHaveRivals ==
    \A r \in Requests :
        At(r, "insert") /\ req[r].kind = "create"
        /\ Registered(req[r].tenant, req[r].email)
        => \E s \in Requests \ {r} :
              /\ req[s].made \in Rows
              /\ user[req[s].made].tenant = req[r].tenant
              /\ user[req[s].made].email = req[r].email
=============================================================================
