----------------------------- MODULE AuthProofs -----------------------------
(***************************************************************************)
(* Proofs about Auth, about LoginRateLimit and about AuthService, which     *)
(* puts them together, for any sets of ids, emails, slugs and requests.     *)
(*                                                                          *)
(* The inductive invariant says of the database that it holds the default   *)
(* administrator from the first id on (DefaultAdminStays), and of a request *)
(* in progress what it has learnt of the database and may still rely on:    *)
(* its administrator is one of the default tenant, and the row it is about  *)
(* to delete is not the default administrator's, or no longer there.        *)
(***************************************************************************)
EXTENDS AuthService, TLAPS, FiniteSetTheorems

TheDefault == [tenant |-> DefaultSlug, email |-> DefaultEmail,
               role |-> "admin", default |-> TRUE]

DefaultAdminStays ==
    issued # {} =>
        \E i \in Rows : user[i] = TheDefault
                        /\ \A j \in Rows \ {i} : ~user[j].default

DbInv == /\ Rows \subseteq issued
         /\ DefaultAdminStays
         /\ EmailsUnique
         /\ UsersInDefaultTenant
         /\ \A t \in tokens : t.sub \in issued
         /\ TokenNamesItsUser

ByAdmin(r) == req[r].pc \in {"check", "insert", "target", "purge"}

ReqInv(r) ==
    /\ req[r].kind = "delete" => req[r].target \in Ids
    /\ req[r].pc \in {"target", "purge"} => req[r].kind = "delete"
    /\ req[r].pc \in {"find", "check", "insert", "refresh"} =>
          req[r].kind # "delete"
    /\ ByAdmin(r) => req[r].tenant = DefaultSlug /\ issued # {}
    /\ At(r, "purge") =>
          /\ req[r].target \in issued
          /\ req[r].target \in Rows => ~user[req[r].target].default
    /\ (req[r].kind = "delete" /\ At(r, "ok")) =>
          req[r].target \in issued /\ user[req[r].target] = NULL
    /\ req[r].made # NULL => req[r].made \in issued

IInv == /\ TypeOK
        /\ DbInv
        /\ \A r \in Requests : ReqInv(r)

-----------------------------------------------------------------------------
(* What an administrator asks for: a request that has made nothing, and a   *)
(* deletion names an id.                                                    *)
IsPayload(p) == /\ p \in Request /\ p.made = NULL
                /\ p.kind = "delete" => p.target \in Ids

LEMMA PayloadType ==
    /\ Blank \in Request
    /\ \A r \in Requests :
          AskToCreate(r) \/ AskForTenant(r) \/ AskToDelete(r) =>
             \E p : IsPayload(p) /\ Ask(r, p)
<1>1. Blank \in Request /\ Blank.made = NULL
  BY DefaultsAssumption DEF Blank, Request, Kinds, Roles, Live, Answers
<1>2. ASSUME NEW r \in Requests, AskToCreate(r)
      PROVE  \E p : IsPayload(p) /\ Ask(r, p)
  <2>1. PICK e \in Emails, o \in Roles :
           Ask(r, [Blank EXCEPT !.kind = "create", !.email = e, !.role = o])
    BY <1>2 DEF AskToCreate
  <2>2. IsPayload([Blank EXCEPT !.kind = "create", !.email = e, !.role = o])
    BY <1>1 DEF IsPayload, Request, Kinds
  <2> QED
    BY <2>1, <2>2
<1>3. ASSUME NEW r \in Requests, AskForTenant(r)
      PROVE  \E p : IsPayload(p) /\ Ask(r, p)
  <2>1. PICK s \in Slugs :
           Ask(r, [Blank EXCEPT !.kind = "tenant", !.slug = s])
    BY <1>3 DEF AskForTenant
  <2>2. IsPayload([Blank EXCEPT !.kind = "tenant", !.slug = s])
    BY <1>1 DEF IsPayload, Request, Kinds
  <2> QED
    BY <2>1, <2>2
<1>4. ASSUME NEW r \in Requests, AskToDelete(r)
      PROVE  \E p : IsPayload(p) /\ Ask(r, p)
  <2>1. PICK i \in Ids :
           Ask(r, [Blank EXCEPT !.kind = "delete", !.target = i])
    BY <1>4 DEF AskToDelete
  <2>2. IsPayload([Blank EXCEPT !.kind = "delete", !.target = i])
    BY <1>1 DEF IsPayload, Request, Kinds
  <2> QED
    BY <2>1, <2>2
<1> QED
  BY <1>1, <1>2, <1>3, <1>4

(* The database, the tokens and the requests keep their types.              *)
THEOREM TypeCorrect == Spec => []TypeOK
<1>1. Init => TypeOK
  <2>1. Init => /\ user \in [Ids -> User \cup {NULL}]
                /\ req \in [Requests -> Request]
    BY PayloadType DEF Init
  <2> QED
    BY <2>1 DEF Init, TypeOK
<1> USE DefaultsAssumption DEF Request, Kinds, Roles, Live, Answers, At, Go,
    Database, Rows, User, Token
<1>2. TypeOK /\ [Next]_vars => TypeOK'
  <2> SUFFICES ASSUME TypeOK, [Next]_vars PROVE TypeOK'
    OBVIOUS
  <2> USE DEF TypeOK
  <2>1. CASE Start
    <3>1. [tenant |-> DefaultSlug, email |-> DefaultEmail,
           role |-> "admin", default |-> TRUE] \in User
      OBVIOUS
    <3>2. CASE SeedDb
      <4>1. user' \in [Ids -> User \cup {NULL}] /\ issued' \subseteq Ids
        BY <3>1, <3>2 DEF SeedDb
      <4> QED
        BY <2>1, <3>2, <4>1 DEF Start, SeedDb
    <3> QED
      BY <2>1, <3>2 DEF Start
  <2>2. CASE Stop
    <3>1. ASSUME NEW r \in Requests
          PROVE  /\ req[r] \in Request
                 /\ [req[r] EXCEPT !.pc = "error"] \in Request
      OBVIOUS
    <3> QED
      BY <2>2, <3>1 DEF Stop
  <2>3. ASSUME NEW r \in Requests, FindTenant(r) PROVE TypeOK'
    <3>1. PICK slug \in Slugs, email \in Emails :
             req' = [req EXCEPT ![r] =
                     [@ EXCEPT !.kind = "login",
                               !.tenant = slug, !.email = email,
                               !.pc = IF slug \in tenants THEN "find"
                                      ELSE "refused"]]
      BY <2>3 DEF FindTenant
    <3>2. req[r] \in Request
      OBVIOUS
    <3>3. [req[r] EXCEPT !.kind = "login", !.tenant = slug, !.email = email,
                         !.pc = IF slug \in tenants THEN "find"
                                ELSE "refused"] \in Request
      BY <3>2, ZenonT(40)
    <3> QED
      BY <2>3, <3>1, <3>3 DEF FindTenant
  <2>4. ASSUME NEW r \in Requests, FindUser(r) PROVE TypeOK'
    <3>1. req' \in [Requests -> Request]
      BY <2>4 DEF FindUser
    <3>2. tokens' \subseteq Token
      BY <2>4 DEF FindUser
    <3> QED
      BY <2>4, <3>1, <3>2 DEF FindUser
  <2>5. ASSUME NEW r \in Requests, NEW p, IsPayload(p), Ask(r, p)
        PROVE  TypeOK'
    <3>1. PICK t \in tokens :
             /\ t.sub \in Rows
             /\ req' = [req EXCEPT ![r] =
                          [p EXCEPT !.tenant = user[t.sub].tenant,
                                    !.pc = IF p.kind = "delete" THEN "target"
                                           ELSE "check"]]
      BY <2>5 DEF Ask
    <3>2. p \in Request /\ user[t.sub].tenant \in Slugs
      <4>1. user[t.sub] \in User
        BY <3>1
      <4> QED
        BY <2>5, <4>1 DEF IsPayload
    <3>3. [p EXCEPT !.tenant = user[t.sub].tenant,
                    !.pc = IF p.kind = "delete" THEN "target"
                           ELSE "check"] \in Request
      <4>1. \A slug \in Slugs, pc \in {"target", "check"} :
               [p EXCEPT !.tenant = slug, !.pc = pc] \in Request
        BY <3>2
      <4>2. (IF p.kind = "delete" THEN "target" ELSE "check")
               \in {"target", "check"}
        OBVIOUS
      <4> HIDE DEF Request
      <4> QED
        BY <3>2, <4>1, <4>2
    <3> QED
      BY <2>5, <3>1, <3>3 DEF Ask
  <2>6. ASSUME NEW r \in Requests,
               \/ Refuse(r) \/ Check(r) \/ InsertTenant(r) \/ Refresh(r)
               \/ FindTarget(r) \/ Raise(r)
        PROVE TypeOK'
    BY <2>6 DEF Refuse, Check, InsertTenant, Refresh, FindTarget, Raise
  <2>7. ASSUME NEW r \in Requests, InsertUser(r) PROVE TypeOK'
    <3>1. CASE Registered(req[r].tenant, req[r].email)
      BY <2>7, <3>1 DEF InsertUser
    <3>2. ASSUME NEW i \in Ids, InsertRow(r, i) PROVE TypeOK'
      <4>1. req[r] \in Request
        OBVIOUS
      <4>2. [req[r] EXCEPT !.pc = "refresh", !.made = i] \in Request
        BY <4>1
      <4>3. [tenant |-> req[r].tenant, email |-> req[r].email,
             role |-> req[r].role, default |-> FALSE] \in User
        BY <4>1
      <4> QED
        BY <3>2, <4>2, <4>3 DEF InsertRow
    <3> QED
      BY <2>7, <3>1, <3>2 DEF InsertUser
  <2>8. ASSUME NEW r \in Requests, Delete(r) PROVE TypeOK'
    <3>1. user' \in [Ids -> User \cup {NULL}]
      BY <2>8 DEF Delete
    <3>2. req' \in [Requests -> Request]
      BY <2>8 DEF Delete
    <3> QED
      BY <2>8, <3>1, <3>2 DEF Delete
  <2>9. CASE UNCHANGED vars
    BY <2>9 DEF vars
  <2> QED
    BY <2>1, <2>2, <2>3, <2>4, <2>5, <2>6, <2>7, <2>8, <2>9, PayloadType
       DEF Next, Serve
<1> QED
  BY <1>1, <1>2, PTL DEF Spec

(* The strengthened invariant holds at first.                               *)
LEMMA IInvInit == Init => IInv
<1> SUFFICES ASSUME Init PROVE IInv
  OBVIOUS
<1>1. TypeOK
  BY DefaultsAssumption DEF Init, TypeOK, Request, Kinds, Roles, Live,
     Answers, Blank, User
<1>2. DbInv
  BY DEF Init, DbInv, Rows, DefaultAdminStays, EmailsUnique,
     UsersInDefaultTenant, TokenNamesItsUser
<1>3. \A r \in Requests : ReqInv(r)
  <2> SUFFICES ASSUME NEW r \in Requests PROVE ReqInv(r)
    OBVIOUS
  <2>1. req[r].pc = "new" /\ req[r].kind = "none" /\ req[r].made = NULL
    BY DEF Init, Blank
  <2> QED
    BY <2>1 DEF ReqInv, ByAdmin, At
<1> QED
  BY <1>1, <1>2, <1>3 DEF IInv

(* A step that leaves the rows and the tokens alone keeps the invariant if  *)
(* every request keeps its own part of it.                                  *)
LEMMA QuietStep ==
    ASSUME IInv, TypeOK',
           user' = user, issued' = issued, tokens' = tokens,
           \A q \in Requests :
              \/ req'[q] = req[q]
              \/ ReqInv(q)'
    PROVE  IInv'
<1>1. DbInv'
  BY DEF IInv, DbInv, Rows, DefaultAdminStays, EmailsUnique,
     UsersInDefaultTenant, TokenNamesItsUser
<1>2. ASSUME NEW q \in Requests, req'[q] = req[q] PROVE ReqInv(q)'
  BY <1>2 DEF IInv, ReqInv, ByAdmin, At, Rows
<1>3. \A q \in Requests : ReqInv(q)'
  BY <1>2
<1> QED
  BY <1>1, <1>3 DEF IInv

(* A request moves from pc to pc' without touching the rows.                *)
LEMMA MoveStep ==
    ASSUME IInv, TypeOK', NEW r \in Requests,
           user' = user, issued' = issued, tokens' = tokens,
           \A q \in Requests \ {r} : req'[q] = req[q],
           ReqInv(r)'
    PROVE  IInv'
BY QuietStep

(* A new row in the default tenant, whose email no row has, keeps the       *)
(* database's part; so does the seed in an empty one.                       *)
LEMMA DbInsert ==
    ASSUME IInv, NEW i \in Ids \ issued, NEW u \in User,
           u.tenant = DefaultSlug, ~Registered(DefaultSlug, u.email),
           u = TheDefault \/ (~u.default /\ issued # {}),
           user' = [user EXCEPT ![i] = u], issued' = issued \cup {i},
           tokens' = tokens
    PROVE  DbInv' /\ Rows' = Rows \cup {i} /\ i \notin Rows
<1>1. user[i] = NULL /\ i \notin Rows /\ user \in [Ids -> User \cup {NULL}]
  BY DEF IInv, TypeOK, DbInv, Rows
<1>2. u # NULL
  BY NullAssumption DEF User, Roles
<1>3. Rows' = Rows \cup {i}
  BY <1>1, <1>2 DEF Rows
<1>4. \A j \in Rows : user'[j] = user[j]
  BY <1>1 DEF Rows
<1>5. user'[i] = u
  BY <1>1
<1>6. DefaultAdminStays'
  <2>1. CASE u = TheDefault
    <3>1. Rows = {}
      BY <2>1 DEF IInv, DbInv, DefaultAdminStays, Registered, TheDefault, Rows
    <3> QED
      BY <2>1, <3>1, <1>3, <1>5 DEF DefaultAdminStays, TheDefault
  <2>2. CASE ~u.default /\ issued # {}
    <3>1. PICK k \in Rows : user[k] = TheDefault
                            /\ \A j \in Rows \ {k} : ~user[j].default
      BY <2>2 DEF IInv, DbInv, DefaultAdminStays
    <3>2. k \in Rows' /\ user'[k] = TheDefault
      BY <3>1, <1>3, <1>4
    <3>3. \A j \in Rows' \ {k} : ~user'[j].default
      BY <2>2, <3>1, <1>3, <1>4, <1>5
    <3>4. TheDefault' = TheDefault
      BY DEF TheDefault
    <3> QED
      BY <3>2, <3>3, <3>4 DEF DefaultAdminStays
  <2> QED
    BY <2>1, <2>2
<1>7. \A j \in Rows : user[j].tenant = DefaultSlug /\ user[j].email # u.email
  BY DEF IInv, DbInv, UsersInDefaultTenant, Registered
<1>8. EmailsUnique' /\ UsersInDefaultTenant'
  BY <1>3, <1>4, <1>5, <1>7 DEF IInv, DbInv, EmailsUnique, UsersInDefaultTenant
<1>9. TokenNamesItsUser' /\ \A t \in tokens' : t.sub \in issued'
  BY <1>3, <1>4 DEF IInv, DbInv, TokenNamesItsUser
<1>10. Rows' \subseteq issued'
  BY <1>3 DEF IInv, DbInv
<1> QED
  BY <1>1, <1>3, <1>6, <1>8, <1>9, <1>10 DEF DbInv

(* A request that does not move keeps its part when a row is inserted.      *)
LEMMA ReqInsert ==
    ASSUME IInv, NEW i \in Ids \ issued, NEW u \in User, ~u.default,
           user' = [user EXCEPT ![i] = u] , issued' = issued \cup {i},
           NEW q \in Requests, req'[q] = req[q]
    PROVE  ReqInv(q)'
<1>1. user \in [Ids -> User \cup {NULL}]
  BY DEF IInv, TypeOK
<1>2. ASSUME NEW j \in issued PROVE user'[j] = user[j]
  BY <1>1, <1>2
<1>3. ReqInv(q)
  BY DEF IInv
<1>4. At(q, "purge") => (req[q].target \in Rows' <=> req[q].target \in Rows)
  BY <1>2, <1>3 DEF ReqInv, Rows
<1> QED
  BY <1>2, <1>3, <1>4 DEF ReqInv, ByAdmin, At

(* Every step preserves the invariant.                                      *)
LEMMA IInvStep == IInv /\ TypeOK' /\ [Next]_vars => IInv'
<1> SUFFICES ASSUME IInv, TypeOK', [Next]_vars PROVE IInv'
  OBVIOUS
<1> USE DEF At, Go, Database
<1>0. TypeOK /\ DbInv
  BY DEF IInv
<1>1. ASSUME NEW r \in Requests PROVE ReqInv(r) /\ req[r] \in Request
  BY DEF IInv, TypeOK
<1>2. CASE Start
  <2>1. req' = req /\ tokens' = tokens
    BY <1>2 DEF Start
  <2>2. CASE UNCHANGED Database
    BY <2>1, <2>2, QuietStep
  <2>3. CASE SeedDb
    <3>1. CASE Registered(DefaultSlug, DefaultEmail)
      BY <2>1, <2>3, <3>1, QuietStep DEF SeedDb
    <3>2. CASE ~Registered(DefaultSlug, DefaultEmail)
      <4>1. PICK i \in Ids \ issued :
               /\ issued' = issued \cup {i}
               /\ user' = [user EXCEPT ![i] = TheDefault]
        BY <2>3, <3>2 DEF SeedDb, TheDefault
      <4>2. TheDefault \in User /\ TheDefault.tenant = DefaultSlug
            /\ TheDefault.email = DefaultEmail
        BY DefaultsAssumption DEF TheDefault, User, Roles
      <4>3. DbInv' /\ Rows' = Rows \cup {i} /\ i \notin Rows
        BY <2>1, <3>2, <4>1, <4>2, DbInsert
      <4>4. issued = {}
        BY <3>2, <1>0 DEF DbInv, DefaultAdminStays, Registered, TheDefault
      <4>5. \A r \in Requests : ReqInv(r)'
        BY <1>1, <2>1, <4>4 DEF ReqInv, ByAdmin
      <4> QED
        BY <4>3, <4>5 DEF IInv
    <3> QED
      BY <3>1, <3>2
  <2> QED
    BY <1>2, <2>2, <2>3 DEF Start
<1>3. CASE Stop
  <2>1. ASSUME NEW q \in Requests, req[q].pc \in Live
        PROVE  ReqInv(q)'
    <3>1. req'[q] = [req[q] EXCEPT !.pc = "error"]
      BY <1>3, <2>1 DEF Stop
    <3>2. req'[q].pc = "error" /\ req'[q].kind = req[q].kind
          /\ req'[q].made = req[q].made /\ req'[q].target = req[q].target
      BY <3>1, <1>1 DEF Request
    <3> QED
      BY <3>2, <2>1, <1>3, <1>1 DEF Live, ReqInv, ByAdmin, Stop
  <2>2. ASSUME NEW q \in Requests, req[q].pc \notin Live
        PROVE  req'[q] = req[q]
    BY <1>3, <2>2 DEF Stop
  <2>3. user' = user /\ issued' = issued /\ tokens' = tokens
    BY <1>3 DEF Stop
  <2> QED
    BY <2>1, <2>2, <2>3, QuietStep
<1>4. ASSUME NEW r \in Requests, FindTenant(r) PROVE IInv'
  <2>1. /\ user' = user /\ issued' = issued /\ tokens' = tokens
        /\ req[r].pc = "new"
        /\ \A q \in Requests \ {r} : req'[q] = req[q]
        /\ req'[r].kind = "login" /\ req'[r].pc \in {"find", "refused"}
        /\ req'[r].made = req[r].made
    BY <1>4, <1>0, <1>1 DEF FindTenant, TypeOK, Request
  <2>2. ReqInv(r)'
    BY <2>1, <1>1 DEF ReqInv, ByAdmin
  <2> QED
    BY <2>1, <2>2, MoveStep
<1>5. ASSUME NEW r \in Requests, FindUser(r) PROVE IInv'
  <2>1. /\ user' = user /\ issued' = issued
        /\ req[r].pc = "find"
        /\ \A q \in Requests \ {r} : req'[q] = req[q]
        /\ req'[r].pc \in {"ok", "refused"} /\ req'[r].kind = req[r].kind
        /\ req'[r].made = req[r].made /\ req'[r].target = req[r].target
    BY <1>5, <1>0, <1>1 DEF FindUser, TypeOK, Request
  <2>2. \A q \in Requests : ReqInv(q)'
    BY <2>1, <1>1 DEF ReqInv, ByAdmin, Rows
  <2>4. \A t \in tokens' : \/ t \in tokens
                           \/ t.sub \in Rows /\ user[t.sub].email = t.email
    BY <1>5 DEF FindUser
  <2>5. DbInv'
    BY <2>1, <2>4, <1>0 DEF DbInv, Rows, DefaultAdminStays, EmailsUnique,
       UsersInDefaultTenant, TokenNamesItsUser, TheDefault
  <2> QED
    BY <2>2, <2>5 DEF IInv
<1>6. ASSUME NEW r \in Requests, NEW p, IsPayload(p), Ask(r, p) PROVE IInv'
  <2>1. PICK t \in tokens :
           /\ t.sub \in Rows
           /\ req' = [req EXCEPT ![r] =
                        [p EXCEPT !.tenant = user[t.sub].tenant,
                                  !.pc = IF p.kind = "delete" THEN "target"
                                         ELSE "check"]]
    BY <1>6 DEF Ask
  <2>2. p \in Request /\ p.made = NULL
        /\ (p.kind = "delete" => p.target \in Ids)
    BY <1>6 DEF IsPayload
  <2>3. t.sub \in issued /\ user[t.sub].tenant = DefaultSlug
    BY <2>1, <1>0 DEF DbInv, UsersInDefaultTenant
  <2>4. req'[r] = [p EXCEPT !.tenant = user[t.sub].tenant,
                            !.pc = IF p.kind = "delete" THEN "target"
                                   ELSE "check"]
    BY <2>1, <1>0 DEF TypeOK
  <2>5. /\ req'[r].tenant = DefaultSlug /\ req'[r].made = NULL
        /\ req'[r].kind = p.kind /\ req'[r].target = p.target
        /\ req'[r].pc = IF p.kind = "delete" THEN "target" ELSE "check"
    BY <2>2, <2>3, <2>4 DEF Request
  <2>6. /\ user' = user /\ issued' = issued /\ tokens' = tokens
        /\ req[r].pc = "new"
        /\ \A q \in Requests \ {r} : req'[q] = req[q]
    BY <1>6, <2>1, <1>0 DEF Ask, TypeOK
  <2>7. ReqInv(r)'
    BY <2>2, <2>3, <2>5, <2>6 DEF ReqInv, ByAdmin
  <2> QED
    BY <2>5, <2>6, <2>7, MoveStep
<1>7. ASSUME NEW r \in Requests,
             \/ Refuse(r) \/ Check(r) \/ Refresh(r) \/ FindTarget(r)
             \/ InsertTenant(r) \/ Raise(r)
      PROVE IInv'
  <2>1. /\ user' = user /\ issued' = issued /\ tokens' = tokens
        /\ req[r].pc \in {"new"} \cup Live
        /\ \A q \in Requests \ {r} : req'[q] = req[q]
        /\ \E pc \in {"ok", "refused", "error", "insert", "refresh", "purge"} :
              req'[r] = [req[r] EXCEPT !.pc = pc]
    BY <1>7, <1>0, <1>1
       DEF Refuse, Check, Refresh, FindTarget, InsertTenant, Raise, Live,
           TypeOK
  <2>2. /\ req'[r].kind = req[r].kind /\ req'[r].target = req[r].target
        /\ req'[r].tenant = req[r].tenant /\ req'[r].made = req[r].made
    BY <2>1, <1>1 DEF Request
  <2>3. /\ req'[r].pc = "ok" => req[r].pc = "refresh"
        /\ req'[r].pc = "insert" => req[r].pc = "check"
        /\ req'[r].pc = "refresh" => req[r].pc = "insert"
        /\ req'[r].pc = "purge" =>
              /\ req[r].pc = "target" /\ req[r].target \in Rows
              /\ ~user[req[r].target].default
    BY <1>7, <1>0, <1>1
       DEF Refuse, Check, Refresh, FindTarget, InsertTenant, Raise, TypeOK,
           Request
  <2>4. req'[r].pc \notin {"check", "target", "find"}
    BY <2>1, <1>1 DEF Request
  <2>5. Rows \subseteq issued /\ Rows' = Rows
    BY <2>1, <1>0 DEF DbInv, Rows
  <2>6. ReqInv(r)'
    BY <2>1, <2>2, <2>3, <2>4, <2>5, <1>1 DEF ReqInv, ByAdmin
  <2> QED
    BY <2>1, <2>2, <2>6, MoveStep DEF Live
<1>8. ASSUME NEW r \in Requests, InsertUser(r) PROVE IInv'
  <2>1. req[r].pc = "insert" /\ req[r].kind = "create"
        /\ req[r].tenant = DefaultSlug /\ issued # {}
    BY <1>8, <1>1 DEF InsertUser, ReqInv, ByAdmin
  <2>2. CASE Registered(req[r].tenant, req[r].email)
    <3>1. /\ user' = user /\ issued' = issued /\ tokens' = tokens
          /\ \A q \in Requests \ {r} : req'[q] = req[q]
          /\ req'[r].pc = "refused" /\ req'[r].kind = req[r].kind
          /\ req'[r].target = req[r].target /\ req'[r].made = req[r].made
      BY <1>8, <2>2, <1>0, <1>1 DEF InsertUser, TypeOK, Request
    <3>2. ReqInv(r)'
      BY <3>1, <1>1 DEF ReqInv, ByAdmin
    <3> QED
      BY <2>1, <3>1, <3>2, MoveStep
  <2>3. ASSUME NEW i \in Ids \ issued, InsertRow(r, i),
               ~Registered(req[r].tenant, req[r].email)
        PROVE  IInv'
    <3> DEFINE u == [tenant |-> req[r].tenant, email |-> req[r].email,
                     role |-> req[r].role, default |-> FALSE]
    <3>1. u \in User /\ u.tenant = DefaultSlug /\ ~u.default
          /\ u.email = req[r].email
      BY <1>1, <2>1 DEF Request, User
    <3>2. /\ user' = [user EXCEPT ![i] = u] /\ issued' = issued \cup {i}
          /\ tokens' = tokens
          /\ \A q \in Requests \ {r} : req'[q] = req[q]
      BY <2>3, <1>0 DEF InsertRow, TypeOK
    <3> HIDE DEF u
    <3>3. DbInv' /\ Rows' = Rows \cup {i} /\ i \notin Rows
      BY <2>1, <2>3, <3>1, <3>2, DbInsert
    <3>4. req'[r] = [req[r] EXCEPT !.pc = "refresh", !.made = i]
      BY <2>3, <1>0 DEF InsertRow, TypeOK
    <3>5. req'[r].pc = "refresh" /\ req'[r].made = i
          /\ req'[r].kind = "create"
      BY <2>1, <3>4, <1>1 DEF Request
    <3>6. ReqInv(r)'
      BY <3>2, <3>5 DEF ReqInv, ByAdmin
    <3>7. \A q \in Requests \ {r} : ReqInv(q)'
      BY <3>1, <3>2, ReqInsert
    <3> QED
      BY <3>3, <3>6, <3>7 DEF IInv
  <2> QED
    BY <1>8, <2>2, <2>3 DEF InsertUser
<1>9. ASSUME NEW r \in Requests, Delete(r) PROVE IInv'
  <2> DEFINE i == req[r].target
  <2>1. /\ req[r].pc = "purge" /\ req[r].kind = "delete"
        /\ i \in Ids /\ i \in issued
        /\ i \in Rows => ~user[i].default
    BY <1>9, <1>1 DEF Delete, ReqInv
  <2>2. /\ user' = [user EXCEPT ![i] = NULL] /\ issued' = issued
        /\ tokens' = tokens
        /\ \A q \in Requests \ {r} : req'[q] = req[q]
        /\ req'[r] = [req[r] EXCEPT !.pc = "ok"]
    BY <1>9, <1>0 DEF Delete, TypeOK
  <2>3. req'[r].pc = "ok" /\ req'[r].kind = "delete"
        /\ req'[r].target = i /\ req'[r].made = req[r].made
    BY <2>1, <2>2, <1>1 DEF Request
  <2> HIDE DEF i
  <2>4. user'[i] = NULL /\ (\A j \in Ids \ {i} : user'[j] = user[j])
        /\ Rows' = Rows \ {i}
    BY <2>1, <2>2, <1>0 DEF TypeOK, Rows
  <2>5. DefaultAdminStays'
    <3> SUFFICES ASSUME issued # {}
                 PROVE  \E k \in Rows' :
                           user'[k] = TheDefault'
                           /\ \A j \in Rows' \ {k} : ~user'[j].default
      BY <2>2 DEF DefaultAdminStays
    <3>1. PICK k \in Rows : user[k] = TheDefault
                            /\ \A j \in Rows \ {k} : ~user[j].default
      BY <1>0 DEF DbInv, DefaultAdminStays
    <3>2. k # i
      BY <2>1, <3>1 DEF TheDefault
    <3>3. k \in Rows' /\ user'[k] = user[k] /\ TheDefault' = TheDefault
      BY <2>4, <3>1, <3>2 DEF Rows, TheDefault
    <3>4. \A j \in Rows' \ {k} : ~user'[j].default
      BY <2>4, <3>1 DEF Rows
    <3> QED
      BY <3>1, <3>3, <3>4
  <2>6. DbInv'
    <3>1. \A j \in Rows' : j \in Rows /\ user'[j] = user[j]
      BY <2>4 DEF Rows
    <3> QED
      BY <3>1, <2>2, <2>5, <1>0 DEF DbInv, EmailsUnique,
         UsersInDefaultTenant, TokenNamesItsUser
  <2>7. ReqInv(r)'
    BY <2>1, <2>2, <2>3, <2>4, <1>1 DEF ReqInv, ByAdmin
  <2>8. ASSUME NEW q \in Requests \ {r} PROVE ReqInv(q)'
    <3>1. req'[q] = req[q] /\ ReqInv(q) /\ req[q] \in Request
      BY <2>2, <1>1
    <3>2. \A j \in Ids : user[j] = NULL => user'[j] = NULL
      BY <2>4
    <3>3. req[q].target \in Rows' =>
             req[q].target \in Rows /\ user'[req[q].target]
                                         = user[req[q].target]
      BY <2>4 DEF Rows
    <3>4. issued \subseteq Ids
      BY <1>0 DEF TypeOK
    <3> QED
      BY <3>1, <3>2, <3>3, <3>4, <2>2 DEF ReqInv, ByAdmin
  <2> QED
    BY <2>6, <2>7, <2>8 DEF IInv
<1>10. CASE UNCHANGED vars
  BY <1>10, QuietStep DEF vars
<1> QED
  BY <1>2, <1>3, <1>4, <1>5, <1>6, <1>7, <1>8, <1>9, <1>10, PayloadType
     DEF Next, Serve

(* The strengthened invariant holds in every reachable state.               *)
LEMMA Invariance == Spec => []IInv
<1>1. IInv /\ TypeOK' /\ [Next]_vars => IInv'
  BY IInvStep
<1> QED
  BY <1>1, IInvInit, TypeCorrect, PTL DEF Spec

(* Nobody deletes, replaces or duplicates the default administrator.        *)
THEOREM AlwaysOneDefaultAdmin == Spec => []OneDefaultAdmin
<1>1. IInv => OneDefaultAdmin
  BY DEF IInv, DbInv, DefaultAdminStays, OneDefaultAdmin, TheDefault
<1> QED
  BY <1>1, Invariance, PTL

(* Racing creations of one email leave one row.                             *)
THEOREM EmailsAlwaysUnique == Spec => []EmailsUnique
<1>1. IInv => EmailsUnique
  BY DEF IInv, DbInv
<1> QED
  BY <1>1, Invariance, PTL

(* No user is ever created outside the default tenant.                      *)
THEOREM UsersStayInDefaultTenant == Spec => []UsersInDefaultTenant
<1>1. IInv => UsersInDefaultTenant
  BY DEF IInv, DbInv
<1> QED
  BY <1>1, Invariance, PTL

(* A deletion that was answered stays done.                                 *)
THEOREM DeletedAlwaysDeleted == Spec => []DeletedStaysDeleted
<1>1. IInv => DeletedStaysDeleted
  BY DEF IInv, ReqInv, DeletedStaysDeleted
<1> QED
  BY <1>1, Invariance, PTL

(* A token never speaks for another user than the one it was issued to.     *)
THEOREM TokensNameTheirUser == Spec => []TokenNamesItsUser
<1>1. IInv => TokenNamesItsUser
  BY DEF IInv, DbInv
<1> QED
  BY <1>1, Invariance, PTL

-----------------------------------------------------------------------------
(* No request is in progress while the service is down, and none has made a *)
(* row before it begins; so what a creation can lose to is a rival's row.   *)
RivalInv ==
    /\ ~up => \A r \in Requests : req[r].pc \notin Live
    /\ \A r \in Requests :
          req[r].pc \in {"new", "check", "insert"} => req[r].made = NULL
    /\ LosersHaveRivals

LEMMA RivalStep == IInv /\ TypeOK' /\ RivalInv /\ [Next]_vars => RivalInv'
<1> SUFFICES ASSUME IInv, TypeOK', RivalInv, [Next]_vars PROVE RivalInv'
  OBVIOUS
<1> USE DEF At, Go, Database
<1>0. TypeOK /\ DbInv /\ NULL \notin Ids
  BY NullAssumption DEF IInv
<1>1. ASSUME NEW r \in Requests PROVE req[r] \in Request
  BY <1>0 DEF TypeOK
<1> DEFINE Loses(r) == /\ req[r].pc = "insert" /\ req[r].kind = "create"
                       /\ Registered(req[r].tenant, req[r].email)
           Rival(r, s) == /\ req[s].made \in Rows
                          /\ user[req[s].made].tenant = req[r].tenant
                          /\ user[req[s].made].email = req[r].email
<1>2. ASSUME NEW r \in Requests, Loses(r)
      PROVE  \E s \in Requests \ {r} : Rival(r, s)
  BY <1>2 DEF RivalInv, LosersHaveRivals
<1>3. CASE Start
  <2>1. ~up /\ up' /\ req' = req
    BY <1>3 DEF Start
  <2>2. \A r \in Requests : req[r].pc # "insert"
    BY <2>1 DEF RivalInv, Live
  <2> QED
    BY <2>1, <2>2 DEF RivalInv, LosersHaveRivals
<1>4. CASE Stop
  <2>1. \A r \in Requests : /\ req'[r].pc \notin Live
                            /\ req'[r].pc = "new" => req'[r] = req[r]
    <3> SUFFICES ASSUME NEW r \in Requests
                 PROVE  /\ req'[r].pc \notin Live
                        /\ req'[r].pc = "new" => req'[r] = req[r]
      OBVIOUS
    <3>1. req'[r] = IF req[r].pc \in Live THEN [req[r] EXCEPT !.pc = "error"]
                    ELSE req[r]
      BY <1>4 DEF Stop
    <3> QED
      BY <1>1, <3>1 DEF Request, Live
  <2> QED
    BY <2>1 DEF RivalInv, LosersHaveRivals, Live
(* The rows stay; the one request that moves keeps what it has made.        *)
<1>5. ASSUME NEW r \in Requests, up', user' = user,
             \A q \in Requests \ {r} : req'[q] = req[q],
             req'[r].pc \in {"new", "check", "insert"} => req'[r].made = NULL,
             req[r].made # NULL => req'[r].made = req[r].made,
             req'[r].pc = "insert" =>
                ~(req'[r].kind = "create" /\ Registered(req'[r].tenant, req'[r].email))
      PROVE  RivalInv'
  <2>1. Rows' = Rows /\ \A t, e : Registered(t, e)' <=> Registered(t, e)
    BY <1>5 DEF Rows, Registered
  <2>2. ASSUME NEW q \in Requests, req'[q].pc = "insert", req'[q].kind = "create",
               Registered(req[q].tenant, req[q].email), q # r
        PROVE  \E s \in Requests \ {q} :
                  /\ req'[s].made \in Rows
                  /\ user[req'[s].made].tenant = req'[q].tenant
                  /\ user[req'[s].made].email = req'[q].email
    <3>1. req'[q] = req[q]
      BY <1>5, <2>2
    <3>2. PICK s \in Requests \ {q} : Rival(q, s)
      BY <1>2, <2>2, <3>1
    <3>3. req[s].made # NULL
      BY <3>2, <1>0 DEF Rows
    <3>4. req'[s].made = req[s].made
      BY <1>5, <3>3
    <3> QED
      BY <3>1, <3>2, <3>4
  <2>3. LosersHaveRivals'
    <3> SUFFICES ASSUME NEW q \in Requests, req'[q].pc = "insert",
                        req'[q].kind = "create",
                        Registered(req'[q].tenant, req'[q].email)
                 PROVE  \E s \in Requests \ {q} :
                           /\ req'[s].made \in Rows
                           /\ user[req'[s].made].tenant = req'[q].tenant
                           /\ user[req'[s].made].email = req'[q].email
      BY <1>5, <2>1 DEF LosersHaveRivals
    <3>1. q # r
      BY <1>5
    <3>2. req'[q] = req[q]
      BY <1>5, <3>1
    <3> QED
      BY <2>2, <3>1, <3>2
  <2>4. \A q \in Requests :
           req'[q].pc \in {"new", "check", "insert"} => req'[q].made = NULL
    BY <1>5 DEF RivalInv
  <2> QED
    BY <1>5, <2>3, <2>4 DEF RivalInv
<1>6. ASSUME NEW r \in Requests, up,
             \/ FindTenant(r) \/ FindUser(r) \/ Refuse(r) \/ Check(r)
             \/ InsertTenant(r) \/ Refresh(r) \/ FindTarget(r) \/ Raise(r)
      PROVE  RivalInv'
  <2>1. CASE FindTenant(r)
    <3>1. /\ up' = up /\ user' = user /\ req'[r].pc \in {"find", "refused"}
          /\ \A q \in Requests \ {r} : req'[q] = req[q]
          /\ req'[r].made = req[r].made
      BY <2>1, <1>0, <1>1 DEF FindTenant, TypeOK, Request
    <3> QED
      BY <1>5, <1>6, <3>1
  <2>2. CASE ~FindTenant(r)
    <3>1. PICK pc \in {"ok", "refused", "error", "insert", "refresh", "purge"} :
             req' = [req EXCEPT ![r].pc = pc]
      BY <1>6, <2>2 DEF FindUser, Refuse, Check, InsertTenant, Refresh,
         FindTarget, Raise
    <3>2. up' = up /\ user' = user
      BY <1>6, <2>2 DEF FindUser, Refuse, Check, InsertTenant, Refresh,
         FindTarget, Raise
    <3>3. /\ req'[r].pc = pc /\ req'[r].made = req[r].made
          /\ req'[r].kind = req[r].kind /\ req'[r].tenant = req[r].tenant
          /\ req'[r].email = req[r].email
          /\ \A q \in Requests \ {r} : req'[q] = req[q]
      BY <3>1, <1>0, <1>1 DEF TypeOK, Request
    <3>4. pc = "insert" =>
             /\ req[r].pc = "check"
             /\ ~(req[r].kind = "create" /\ Registered(req[r].tenant, req[r].email))
      <4>1. CASE Check(r)
        BY <3>3, <4>1, <1>0 DEF Check, TypeOK
      <4>2. CASE ~Check(r)
        <5>1. \E p \in {"ok", "refused", "error", "refresh", "purge"} :
                 req' = [req EXCEPT ![r].pc = p]
          BY <1>6, <2>2, <4>2 DEF FindUser, Refuse, InsertTenant, Refresh,
             FindTarget, Raise
        <5>2. req'[r].pc # "insert"
          BY <5>1, <1>0, <1>1 DEF TypeOK, Request
        <5> QED
          BY <3>3, <5>2
      <4> QED
        BY <4>1, <4>2
    <3>5. pc = "insert" => req[r].made = NULL
      BY <3>4 DEF RivalInv
    <3> QED
      BY <1>5, <1>6, <3>2, <3>3, <3>4, <3>5
  <2> QED
    BY <2>1, <2>2
<1>7. ASSUME NEW r \in Requests, up, NEW p, IsPayload(p), Ask(r, p)
      PROVE  RivalInv'
  <2>1. PICK t \in tokens :
           req' = [req EXCEPT ![r] =
                     [p EXCEPT !.tenant = user[t.sub].tenant,
                               !.pc = IF p.kind = "delete" THEN "target"
                                      ELSE "check"]]
    BY <1>7 DEF Ask
  <2>2. /\ up' = up /\ user' = user /\ req[r].pc = "new"
        /\ \A q \in Requests \ {r} : req'[q] = req[q]
        /\ req'[r].pc \in {"target", "check"} /\ req'[r].made = NULL
    BY <1>7, <2>1, <1>0 DEF Ask, TypeOK, IsPayload, Request
  <2>3. req[r].made = NULL
    BY <2>2 DEF RivalInv
  <2> QED
    BY <1>5, <1>7, <2>2, <2>3
<1>8. ASSUME NEW r \in Requests, up, InsertUser(r) PROVE RivalInv'
  <2>1. CASE Registered(req[r].tenant, req[r].email)
    <3>1. /\ up' = up /\ user' = user /\ req'[r].pc = "refused"
          /\ \A q \in Requests \ {r} : req'[q] = req[q]
          /\ req'[r].made = req[r].made
      BY <1>8, <2>1, <1>0, <1>1 DEF InsertUser, TypeOK, Request
    <3> QED
      BY <1>5, <1>8, <3>1
  <2>2. ASSUME NEW i \in Ids \ issued, InsertRow(r, i) PROVE RivalInv'
    <3> DEFINE u == [tenant |-> req[r].tenant, email |-> req[r].email,
                     role |-> req[r].role, default |-> FALSE]
    <3>a. u \in User /\ u.tenant = req[r].tenant /\ u.email = req[r].email
      BY <1>1 DEF Request, User
    <3>1. u # NULL /\ u.tenant = req[r].tenant /\ u.email = req[r].email
      BY <3>a, NullAssumption DEF User, Roles
    <3>2. /\ up' = up /\ user' = [user EXCEPT ![i] = u]
          /\ req'[r] = [req[r] EXCEPT !.pc = "refresh", !.made = i]
          /\ \A q \in Requests \ {r} : req'[q] = req[q]
      BY <2>2, <1>0 DEF InsertRow, TypeOK
    <3> HIDE DEF u
    <3>3. req'[r].pc = "refresh" /\ req'[r].made = i
      BY <1>1, <3>2 DEF Request
    <3>4. /\ user'[i] = u /\ i \notin Rows /\ Rows' = Rows \cup {i}
          /\ \A j \in Rows : user'[j] = user[j]
      BY <3>1, <3>2, <1>0 DEF TypeOK, Rows, DbInv
    <3>5. LosersHaveRivals'
      <4> SUFFICES ASSUME NEW q \in Requests, req'[q].pc = "insert",
                          req'[q].kind = "create",
                          \E j \in Rows' : /\ user'[j].tenant = req'[q].tenant
                                          /\ user'[j].email = req'[q].email
                   PROVE  \E s \in Requests \ {q} :
                             /\ req'[s].made \in Rows'
                             /\ user'[req'[s].made].tenant = req'[q].tenant
                             /\ user'[req'[s].made].email = req'[q].email
        BY DEF LosersHaveRivals, Registered
      <4>1. q # r /\ req'[q] = req[q]
        BY <3>2, <3>3
      <4>2. CASE req[q].tenant = u.tenant /\ req[q].email = u.email
        BY <3>3, <3>4, <4>1, <4>2
      <4>3. CASE ~(req[q].tenant = u.tenant /\ req[q].email = u.email)
        <5>1. Loses(q)
          BY <3>4, <4>1, <4>3 DEF Registered
        <5>2. PICK s \in Requests \ {q} : Rival(q, s)
          BY <1>2, <5>1
        <5>3. s # r
          <6>1. ReqInv(r) /\ req[r].pc = "insert" /\ req[r].kind = "create"
            BY <1>8 DEF IInv, InsertUser
          <6>2. req[r].made = NULL
            BY <6>1 DEF RivalInv
          <6> QED
            BY <5>2, <6>2, <1>0 DEF Rows
        <5> QED
          BY <3>2, <3>4, <4>1, <5>2, <5>3
      <4> QED
        BY <4>2, <4>3
    <3>6. \A q \in Requests :
           req'[q].pc \in {"new", "check", "insert"} => req'[q].made = NULL
      BY <3>2, <3>3 DEF RivalInv
    <3> QED
      BY <1>8, <3>2, <3>5, <3>6 DEF RivalInv
  <2> QED
    BY <1>8, <2>1, <2>2 DEF InsertUser
(* A row that goes was its email's only one: nobody loses for it any more.  *)
<1>9. ASSUME NEW r \in Requests, up, Delete(r) PROVE RivalInv'
  <2> DEFINE i == req[r].target
  <2>1. i \in Ids /\ req[r].pc = "purge"
    <3>1. ReqInv(r)
      BY DEF IInv
    <3> QED
      BY <1>9, <3>1 DEF Delete, ReqInv
  <2>2. /\ up' = up /\ user' = [user EXCEPT ![i] = NULL]
        /\ \A q \in Requests \ {r} : req'[q] = req[q]
        /\ req'[r] = [req[r] EXCEPT !.pc = "ok"]
    BY <1>9, <1>0 DEF Delete, TypeOK
  <2>3. req'[r].pc = "ok" /\ req'[r].made = req[r].made
    BY <2>2, <1>1 DEF Request
  <2> HIDE DEF i
  <2>4. Rows' = Rows \ {i} /\ \A j \in Rows' : user'[j] = user[j]
    BY <2>1, <2>2, <1>0 DEF TypeOK, Rows
  <2>5. LosersHaveRivals'
    <3> SUFFICES ASSUME NEW q \in Requests, req'[q].pc = "insert",
                        req'[q].kind = "create",
                        \E j \in Rows' : /\ user'[j].tenant = req'[q].tenant
                                        /\ user'[j].email = req'[q].email
                 PROVE  \E s \in Requests \ {q} :
                           /\ req'[s].made \in Rows'
                           /\ user'[req'[s].made].tenant = req'[q].tenant
                           /\ user'[req'[s].made].email = req'[q].email
      BY DEF LosersHaveRivals, Registered
    <3>1. q # r /\ req'[q] = req[q]
      BY <2>2, <2>3
    <3>2. PICK j \in Rows' : user[j].tenant = req[q].tenant /\ user[j].email = req[q].email
      BY <2>4, <3>1
    <3>3. Loses(q)
      BY <2>4, <3>1, <3>2 DEF Registered
    <3>4. PICK s \in Requests \ {q} : Rival(q, s)
      BY <1>2, <3>3
    <3>5. req[s].made = j
      BY <2>4, <3>2, <3>4, <1>0 DEF DbInv, EmailsUnique
    <3>6. req'[s].made = req[s].made
      BY <2>2, <2>3
    <3> QED
      BY <2>4, <3>1, <3>2, <3>5, <3>6
  <2>6. \A q \in Requests :
           req'[q].pc \in {"new", "check", "insert"} => req'[q].made = NULL
    BY <2>2, <2>3 DEF RivalInv
  <2> QED
    BY <1>9, <2>2, <2>5, <2>6 DEF RivalInv
<1>10. CASE UNCHANGED vars
  BY <1>10 DEF vars, RivalInv, LosersHaveRivals, Registered, Rows
<1> QED
  BY <1>3, <1>4, <1>6, <1>7, <1>8, <1>9, <1>10, PayloadType DEF Next, Serve

(* Who loses the race for an email loses it to a rival's row, which stands: *)
(* neither the seed nor a row that its look-up could have seen.             *)
THEOREM LosersAlwaysHaveRivals == Spec => []LosersHaveRivals
<1>1. Init => RivalInv
  BY DEF Init, Blank, RivalInv, LosersHaveRivals, At, Live
<1>2. IInv /\ TypeOK' /\ RivalInv /\ [Next]_vars => RivalInv'
  BY RivalStep
<1>3. RivalInv => LosersHaveRivals
  BY DEF RivalInv
<1> QED
  BY <1>1, <1>2, <1>3, TypeCorrect, Invariance, PTL DEF Spec

-----------------------------------------------------------------------------
(* The service behind its limiter is Auth, and is the limiter: what is      *)
(* proved of either holds of it.                                            *)
THEOREM ServiceImplementsAuth == ServiceSpec => Spec
<1>1. ServiceInit => Init
  BY DEF ServiceInit
<1>2. [ServiceNext]_svars => [Next]_vars
  BY DEF ServiceNext, svars, Restart, Login, Limited, Next, Serve, Refuse, At,
     Database, vars
<1> QED
  BY <1>1, <1>2, PTL DEF ServiceSpec, Spec

(* Whatever a login or a restart does to the buckets is a limiter's step.   *)
THEOREM ServiceImplementsLimiter == ServiceSpec => LimiterSpec
<1>1. ServiceInit => LimiterInit
  BY DEF ServiceInit
<1>2. ASSUME TypeOK, [ServiceNext]_svars, TypeOK' PROVE [LimiterNext]_limiter
  <2>1. ASSUME NEW r \in Requests, Login(r) PROVE LimiterNext
    <3>1. PICK client \in Clients : Acquire(<<client, req'[r].email>>)
      BY <2>1 DEF Login
    <3>2. req'[r].email \in Emails
      BY <1>2 DEF TypeOK, Request
    <3>3. <<client, req'[r].email>> \in Keys
      BY <3>2, KeysAssumption
    <3> QED
      BY <3>1, <3>3 DEF LimiterNext
  <2> QED
    BY <1>2, <2>1 DEF ServiceNext, svars, Restart, Limited, LimiterNext,
       Deny, limiter
<1>3. ServiceSpec => []TypeOK
  BY ServiceImplementsAuth, TypeCorrect, PTL
<1> QED
  BY <1>1, <1>2, <1>3, PTL DEF ServiceSpec, LimiterSpec

(* A bucket holds its attempts in the order of their times, none later than *)
(* now: the attempts that still count are the last ones.                    *)
Ordered ==
    \A key \in Keys : \A i \in DOMAIN bucket[key] :
        /\ bucket[key][i] <= clock
        /\ \A j \in i..Len(bucket[key]) : bucket[key][i] <= bucket[key][j]

LInv == LimiterTypeOK /\ Ordered /\ AttemptsAreSpaced

(* An attempt is let through only if the one MaxAttempts before it has left *)
(* the window.                                                              *)
LEMMA OldEnough ==
    ASSUME LInv, NEW key \in Keys, Allowed(key),
           NEW i \in DOMAIN bucket[key], i + MaxAttempts = Len(bucket[key]) + 1
    PROVE  clock - bucket[key][i] > Window
<1> DEFINE b == bucket[key]
           n == Len(b)
<1>1. b \in Seq(Nat) /\ n \in Nat /\ clock \in Nat /\ DOMAIN b = 1..n
  BY DEF LInv, LimiterTypeOK
<1>2. MaxAttempts \in Nat \ {0} /\ Window \in Nat /\ i \in 1..n
  BY <1>1, RateAssumption
<1>3. ASSUME b[i] + Window >= clock PROVE i..n \subseteq Recent(key)
  <2> SUFFICES ASSUME NEW j \in i..n PROVE j \in Recent(key)
    OBVIOUS
  <2>1. j \in 1..n
    BY <1>1, <1>2
  <2>2. b[i] <= b[j]
    BY <1>1, <1>2 DEF LInv, Ordered
  <2>3. b[i] \in Nat /\ b[j] \in Nat
    BY <1>1, <1>2, <2>1, SMTT(30)
  <2>4. \A x, y, w, c \in Nat : x + w >= c /\ x <= y => y + w >= c
    OBVIOUS
  <2>5. b[j] + Window >= clock
    <3> HIDE DEF b, n
    <3> QED
      BY <1>1, <1>2, <1>3, <2>2, <2>3, <2>4
  <2> QED
    BY <1>1, <2>1, <2>5 DEF Recent
<1> SUFFICES ASSUME b[i] + Window >= clock PROVE FALSE
  <2>1. b[i] \in Nat
    BY <1>1, <1>2, SMTT(30)
  <2> QED
    BY <2>1, <1>1, <1>2, SMTT(30)
<1>4. i..n \subseteq Recent(key) /\ Recent(key) \subseteq 1..n
  BY <1>1, <1>3 DEF Recent
<1>5. Cardinality(i..n) = MaxAttempts
  <2>0. i + MaxAttempts = n + 1
    OBVIOUS
  <2> HIDE DEF n, b
  <2>1. i \in Int /\ n \in Int /\ ~(i > n) /\ n - i + 1 = MaxAttempts
    BY <1>1, <1>2, <2>0, SMTT(30)
  <2> QED
    BY <2>1, FS_Interval
<1>6. IsFiniteSet(1..n)
  BY <1>1, FS_Interval
<1>7. IsFiniteSet(Recent(key))
  BY <1>4, <1>6, FS_Subset
<1>8. Cardinality(i..n) <= Cardinality(Recent(key))
  BY <1>4, <1>7, FS_Subset
<1>9. Cardinality(Recent(key)) \in Nat
  BY <1>7, FS_CardinalityType
<1> QED
  BY <1>2, <1>5, <1>8, <1>9 DEF Allowed

(* No window ever holds more attempts of a key than it may.                 *)
THEOREM AttemptsAlwaysSpaced == LimiterSpec => []AttemptsAreSpaced
<1>1. LimiterInit => LInv
  BY DEF LimiterInit, Empty, LInv, LimiterTypeOK, Ordered, AttemptsAreSpaced
<1>2. LInv /\ [LimiterNext]_limiter => LInv'
  <2> SUFFICES ASSUME LInv, [LimiterNext]_limiter PROVE LInv'
    OBVIOUS
  <2>0. clock \in Nat /\ bucket \in [Keys -> Seq(Nat)]
        /\ MaxAttempts \in Nat \ {0} /\ Window \in Nat
    BY RateAssumption DEF LInv, LimiterTypeOK
  <2>1. CASE Forget
    BY <2>0, <2>1 DEF Forget, Empty, LInv, LimiterTypeOK, Ordered,
       AttemptsAreSpaced
  <2>2. CASE Pass
    <3>1. \A key \in Keys : \A i \in DOMAIN bucket[key] :
             bucket[key][i] \in Nat
      BY <2>0
    <3> QED
      BY <2>0, <2>2, <3>1 DEF Pass, LInv, LimiterTypeOK, Ordered,
         AttemptsAreSpaced
  <2>3. ASSUME NEW key \in Keys, Acquire(key) PROVE LInv'
    <3> DEFINE b == bucket[key]
               n == Len(b)
    <3>1. b \in Seq(Nat) /\ n \in Nat /\ DOMAIN b = 1..n
      BY <2>0
    <3>2. bucket'[key] = Append(b, clock) /\ clock' = clock
          /\ \A k \in Keys \ {key} : bucket'[k] = bucket[k]
      BY <2>0, <2>3 DEF Acquire
    <3>3. LimiterTypeOK'
      <4>1. Append(b, clock) \in Seq(Nat)
        BY <2>0, <3>1
      <4> QED
        BY <2>0, <2>3, <4>1 DEF Acquire, LimiterTypeOK
    <3>4. /\ Len(bucket'[key]) = n + 1 /\ DOMAIN bucket'[key] = 1..(n + 1)
          /\ bucket'[key][n + 1] = clock
          /\ \A i \in 1..n : bucket'[key][i] = b[i] /\ b[i] \in Nat
      BY <2>0, <3>1, <3>2
    <3>5. \A i \in 1..n : b[i] <= clock /\ \A j \in i..n : b[i] <= b[j]
      BY <3>1 DEF LInv, Ordered
    <3>6. Ordered'
      <4> SUFFICES ASSUME NEW k \in Keys, NEW i \in DOMAIN bucket'[k]
                   PROVE  /\ bucket'[k][i] <= clock
                          /\ \A j \in i..Len(bucket'[k]) :
                                bucket'[k][i] <= bucket'[k][j]
        BY <3>2 DEF Ordered
      <4>1. CASE k # key
        BY <4>1, <3>2 DEF LInv, Ordered
      <4>2. CASE k = key
        <5>1. CASE i \in 1..n
          <6>1. b[i] <= clock /\ \A j \in i..n : b[i] <= b[j]
            BY <5>1, <3>5
          <6>2. \A j \in i..(n + 1) : (j \in i..n /\ j \in 1..n) \/ j = n + 1
            BY <5>1, <3>1
          <6> HIDE DEF n, b
          <6> QED
            BY <4>2, <5>1, <6>1, <6>2, <3>2, <3>4
        <5>2. CASE i = n + 1
          BY <4>2, <5>2, <2>0, <3>1, <3>4
        <5> QED
          BY <4>2, <5>1, <5>2, <3>1, <3>4
      <4> QED
        BY <4>1, <4>2
    <3>7. AttemptsAreSpaced'
      <4> SUFFICES ASSUME NEW k \in Keys, NEW i \in DOMAIN bucket'[k],
                          i + MaxAttempts \in DOMAIN bucket'[k]
                   PROVE  bucket'[k][i + MaxAttempts] - bucket'[k][i] > Window
        BY DEF AttemptsAreSpaced
      <4>1. CASE k # key
        BY <4>1, <3>2 DEF LInv, AttemptsAreSpaced
      <4>2. CASE k = key
        <5>1. i \in 1..n /\ i + MaxAttempts \in 1..(n + 1)
          BY <4>2, <2>0, <3>1, <3>4
        <5>2. CASE i + MaxAttempts \in 1..n
          BY <4>2, <5>1, <5>2, <3>1, <3>4 DEF LInv, AttemptsAreSpaced
        <5>3. CASE i + MaxAttempts = n + 1
          <6>1. Allowed(key) /\ i \in DOMAIN bucket[key]
            BY <2>3, <5>1, <3>1 DEF Acquire
          <6>2. clock - b[i] > Window
            BY <6>1, <5>3, OldEnough
          <6> QED
            BY <4>2, <5>1, <5>3, <6>2, <3>4
        <5> QED
          BY <5>1, <5>2, <5>3, <2>0, <3>1
      <4> QED
        BY <4>1, <4>2
    <3> QED
      BY <3>3, <3>6, <3>7 DEF LInv
  <2>4. CASE UNCHANGED limiter
    BY <2>4 DEF limiter, LInv, LimiterTypeOK, Ordered, AttemptsAreSpaced
  <2> QED
    BY <2>1, <2>2, <2>3, <2>4 DEF LimiterNext, Deny
<1>3. LInv => AttemptsAreSpaced
  BY DEF LInv
<1> QED
  BY <1>1, <1>2, <1>3, PTL DEF LimiterSpec
=============================================================================
