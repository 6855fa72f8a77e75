------------------------------ MODULE Tenancy -------------------------------
(***************************************************************************)
(* Which tenant a request works for: the tenant of a login's header, the   *)
(* tenant middleware in front of /auth/me, the routes that read a tenant,  *)
(* and the creation of a tenant.  A tenant is named by its id or its slug  *)
(* in a header, by its id in a token and in a path; who may work for it is *)
(* read from the tables in two statements, while members come and go,      *)
(* tenants are switched off and users are deleted.                         *)
(*                                                                         *)
(* A slug never changes and is UNIQUE, so a tenant is the same value here  *)
(* under both names.  Expiry of tokens is left to module Sessions.         *)
(***************************************************************************)
EXTENDS Naturals, FiniteSets

CONSTANTS
  Users,       \* values of users.id
  Tenants,     \* tenants there are, or that somebody may try to create
  Seeded,      \* those that are there from the start
  Owner,       \* tenants.owner_id; of the others, who tries to create them
  SafeSlugs,   \* tenants whose slug isSafeSlug and isSafeResolverSlug accept
  SchemaName,  \* tenant -> resolverNameForSlug of its slug
  NoTenant,    \* no header or no claim; also the nil UUID
  Modes,       \* MULTI_TENANT_MODE: "row", "schema"
  Requests     \* request slots: how many handlers can be in flight together

ASSUME TenantsAreOwned == Owner \in [Tenants -> Users] /\ Seeded \subseteq Tenants
ASSUME NoTenantIsNone == NoTenant \notin Tenants
ASSUME ModesAreKnown == Modes \subseteq {"row", "schema"}

VARIABLES
  mode,        \* MULTI_TENANT_MODE of this process
  users,       \* ids present in the users table
  tenants,     \* the tenants table: "none", "active" or "inactive"
  members,     \* active rows of tenant_members: pairs of tenant and user
  registered,  \* TenantResolverManager.registeredNames, without "default"
  plugins,     \* resolver names that gorm holds a resolver for
  tokens,      \* token pairs handed out: subject and tenant claim
  req          \* request slot -> what its handler has read so far

vars == <<mode, users, tenants, members, registered, plugins, tokens, req>>

-----------------------------------------------------------------------------
\* What a header may hold; the middleware compares it with the claim as text.
Header == {[by |-> "none", tenant |-> NoTenant]} \cup [by: {"id", "slug"}, tenant: Tenants]
Claim  == Tenants \cup {NoTenant}
Token  == [sub: Users, claim: Claim]

\* The statements a request has before it, by kind: the middleware and login look
\* for the tenant first, getTenant for the membership, listMembers for that only.
Course == [login   |-> <<"tenant", "member", "resolve", "served">>,
           me      |-> <<"tenant", "member", "resolve", "served">>,
           get     |-> <<"member", "tenant", "served">>,
           members |-> <<"member", "served">>]

\* wasMember and wasActive are history: whether, at some time since the request
\* began, the user was a member of the tenant and the tenant was active.
Idle == [kind |-> "idle"]
Busy == [kind: DOMAIN Course, at: 1..4, user: Users, claim: Claim, tenant: Tenants,
         wasMember: BOOLEAN, wasActive: BOOLEAN]
Creating == [kind: {"create"}, user: Users, tenant: Tenants]

IsBusy(q) == req[q].kind \in DOMAIN Course
At(q, pc) == IsBusy(q) /\ Course[req[q].kind][req[q].at] = pc

Exists(t) == tenants[t] # "none"

\* A request passed a statement, was refused, or is over.
GoOn(q)   == req' = [req EXCEPT ![q].at = @ + 1]
Finish(q) == req' = [req EXCEPT ![q] = Idle]

\* The history fields, once the tables are as given.
Observe(ts, ms) ==
  [q \in Requests |->
     IF IsBusy(q)
     THEN [req[q] EXCEPT !.wasMember = @ \/ <<req[q].tenant, req[q].user>> \in ms,
                         !.wasActive = @ \/ ts[req[q].tenant] = "active"]
     ELSE req[q]]

\* A handler sets out to work for tenant t.
Start(q, kind, u, claim, t) ==
  /\ req[q] = Idle
  /\ u \in users
  /\ req' = [req EXCEPT ![q] =
       [kind |-> kind, at |-> 1, user |-> u, claim |-> claim, tenant |-> t,
        wasMember |-> <<t, u>> \in members, wasActive |-> tenants[t] = "active"]]
  /\ UNCHANGED <<mode, users, tenants, members, registered, plugins, tokens>>

-----------------------------------------------------------------------------
\* Login without a tenant: the pair has no claim (module Sessions has the rest).
LoginWithout(u) ==
  /\ u \in users
  /\ tokens' = tokens \cup {[sub |-> u, claim |-> NoTenant]}
  /\ UNCHANGED <<mode, users, tenants, members, registered, plugins, req>>

\* Login with a header: ResolveForUser.
BeginLogin(q, u, h) == h.by # "none" /\ Start(q, "login", u, NoTenant, h.tenant)

\* Mutant: the header is preferred to the claim.
Chosen_HeaderFirst(claim, h) ==
  IF h.by # "none" THEN {h.tenant} ELSE {claim} \ {NoTenant}

\* The tenant of a claim and a header: the claim's, or else the header's; none if
\* both are given and differ.  A header that names the claim's tenant by its slug
\* differs, too.
Chosen(claim, h) ==
  IF claim = NoTenant THEN {h.tenant} \ {NoTenant}
  ELSE {claim : x \in {h} \cap {[by |-> "none", tenant |-> NoTenant], [by |-> "id", tenant |-> claim]}}

\* The two middlewares of /auth/me.  401 or 403 is no step; without a tenant the
\* request is served outside of any.
BeginMe(q, k, h) ==
  /\ k \in tokens
  /\ \E t \in Chosen(k.claim, h) : Start(q, "me", k.sub, k.claim, t)

\* GET /tenants/:tenant_id and /tenants/:tenant_id/members take the tenant from
\* the path and do not pass the tenant middleware.
BeginGet(q, u, t)     == Start(q, "get", u, NoTenant, t)
BeginMembers(q, u, t) == Start(q, "members", u, NoTenant, t)

\* GetByID and GetBySlug: active tenants only.  Not found: 404.
FindTenant(q) ==
  /\ At(q, "tenant")
  /\ IF tenants[req[q].tenant] = "active" THEN GoOn(q) ELSE Finish(q)
  /\ UNCHANGED <<mode, users, tenants, members, registered, plugins, tokens>>

\* Mutants: who has the tenant in the token is not looked up; tenant_id is left out of
\* the query.
IsMember_ByClaim(q) ==
  req[q].claim = req[q].tenant \/ <<req[q].tenant, req[q].user>> \in members
IsMember_OfAny(q) == \E t \in Tenants : <<t, req[q].user>> \in members

IsMember(q) == <<req[q].tenant, req[q].user>> \in members

\* GetMembership.  Not found: 403.
FindMember(q) ==
  /\ At(q, "member")
  /\ IF IsMember(q) THEN GoOn(q) ELSE Finish(q)
  /\ UNCHANGED <<mode, users, tenants, members, registered, plugins, tokens>>

\* gorm refuses a second plugin of one name, and all of dbresolver's are named
\* gorm:db_resolver: the one of ConfigureTenantResolver came first.
UseAccepts == FALSE

\* Mutant: the name is registered before Use has succeeded.
Registered_First(t) == registered \cup {SchemaName[t]}

\* ensureSchemaResolver, one request at a time under its mutex.
Registered(t) == registered \cup {n \in {SchemaName[t]} : UseAccepts}

\* WithTenant: a scope in row mode, a resolver for the schema otherwise.  login
\* then hands out the pair with the tenant's id.
ResolveTenant(q) ==
  LET t == req[q].tenant
      tries == mode = "schema" /\ t \in SafeSlugs /\ SchemaName[t] \notin registered
  IN /\ At(q, "resolve")
     /\ registered' = IF tries THEN Registered(t) ELSE registered
     /\ plugins' = IF tries /\ UseAccepts THEN plugins \cup {SchemaName[t]} ELSE plugins
     /\ IF mode = "row" \/ (t \in SafeSlugs /\ (tries => UseAccepts))
        THEN /\ GoOn(q)
             /\ tokens' = IF req[q].kind = "login"
                          THEN tokens \cup {[sub |-> req[q].user, claim |-> t]} ELSE tokens
        ELSE /\ Finish(q)
             /\ UNCHANGED tokens
     /\ UNCHANGED <<mode, users, tenants, members>>

\* The answer is on its way.
Answer(q) ==
  /\ At(q, "served")
  /\ Finish(q)
  /\ UNCHANGED <<mode, users, tenants, members, registered, plugins, tokens>>

-----------------------------------------------------------------------------
\* createTenant up to its transaction.
BeginCreate(q, t) ==
  /\ req[q] = Idle
  /\ Owner[t] \in users
  /\ req' = [req EXCEPT ![q] = [kind |-> "create", user |-> Owner[t], tenant |-> t]]
  /\ UNCHANGED <<mode, users, tenants, members, registered, plugins, tokens>>

\* The statements of CreateTenant in their order: UNIQUE slug and foreign key of
\* the owner, the name of the schema, foreign key of the member.  createTenant
\* copied tenant.ID before BeforeCreate set it: the member belongs to no tenant.
InsertsTenant(q) == ~Exists(req[q].tenant) /\ req[q].user \in users
NamesSchema(q)   == mode = "schema" => req[q].tenant \in SafeSlugs
MemberTenant(q)  == NoTenant

InsertsMember(q) ==
  MemberTenant(q) \in {req[q].tenant} \cup {t \in Tenants : Exists(t)}

\* Mutant: the inserts are not in one transaction.
TenantIsKept_Always(q) == InsertsTenant(q)

\* What is left of the tenant when the transaction is over.
TenantIsKept(q) == InsertsTenant(q) /\ NamesSchema(q) /\ InsertsMember(q)

CreateTenant(q) ==
  LET t == req[q].tenant
      ts == IF TenantIsKept(q) THEN [tenants EXCEPT ![t] = "active"] ELSE tenants
      ms == members \cup {m \in {<<MemberTenant(q), req[q].user>>} :
                            InsertsTenant(q) /\ NamesSchema(q) /\ InsertsMember(q)}
  IN /\ req[q].kind = "create"
     /\ tenants' = ts
     /\ members' = ms
     /\ req' = [Observe(ts, ms) EXCEPT ![q] = Idle]
     /\ UNCHANGED <<mode, users, registered, plugins, tokens>>

\* The server dies, the client goes away or the database reports an error.
Abort(q) ==
  /\ req[q] # Idle
  /\ Finish(q)
  /\ UNCHANGED <<mode, users, tenants, members, registered, plugins, tokens>>

-----------------------------------------------------------------------------
\* What the other routes do to these tables: the register, which module Membership
\* is shown to keep.
Register == INSTANCE TenantRegister

OtherRoutes ==
  /\ Register!RegisterNext
  /\ req' = Observe(tenants', members')
  /\ UNCHANGED <<mode, registered, plugins, tokens>>

-----------------------------------------------------------------------------
Init ==
  /\ mode \in Modes
  /\ Register!RegisterInit
  /\ registered = {}
  /\ plugins = {}
  /\ tokens = {}
  /\ req = [q \in Requests |-> Idle]

Advance(q) ==
  \/ FindTenant(q)
  \/ FindMember(q)
  \/ ResolveTenant(q)
  \/ Answer(q)
  \/ CreateTenant(q)

Next ==
  \/ \E q \in Requests :
       \/ \E u \in Users, h \in Header : BeginLogin(q, u, h)
       \/ \E k \in tokens, h \in Header : BeginMe(q, k, h)
       \/ \E u \in Users, t \in Tenants : BeginGet(q, u, t) \/ BeginMembers(q, u, t)
       \/ \E t \in Tenants : BeginCreate(q, t)
       \/ Advance(q)
       \/ Abort(q)
  \/ \E u \in Users : LoginWithout(u)
  \/ OtherRoutes

Spec == Init /\ [][Next]_vars

-----------------------------------------------------------------------------
\* Every variable has the shape its declaration says.
TypeOK ==
  /\ mode \in Modes
  /\ users \subseteq Users
  /\ tenants \in [Tenants -> {"none", "active", "inactive"}]
  /\ members \subseteq Tenants \X Users
  /\ registered \cup plugins \subseteq {SchemaName[t] : t \in Tenants}
  /\ tokens \subseteq Token
  /\ req \in [Requests -> {Idle} \cup Busy \cup Creating]

\* Nobody works for a tenant on the strength of a token or of an old membership:
\* whoever is served for it was a member while the request ran, and the tenant was
\* active while it ran.  Only the list of members is shown of a tenant switched off.
EntitledWhileServed ==
  \A q \in Requests : At(q, "served") =>
    req[q].wasMember /\ (req[q].kind # "members" => req[q].wasActive)

\* A token with a claim is never used for another tenant than its own, whatever
\* the header says, and a claim was only given to somebody who was entitled to it.
ClaimBinds ==
  \A q \in Requests :
    (At(q, "served") /\ req[q].claim # NoTenant) =>
      /\ req[q].tenant = req[q].claim
      /\ [sub |-> req[q].user, claim |-> req[q].claim] \in tokens

\* Request q is a login of u for tenant t that saw u a member and t active.
EarnsClaim(q, u, t) ==
  /\ req[q].kind = "login"
  /\ req[q].user = u
  /\ req[q].tenant = t
  /\ req[q].wasMember
  /\ req[q].wasActive

\* A tenant claim is handed out by a login alone, to its own user and for the tenant
\* it resolved, when the user was a member of the active tenant during this login:
\* the pair is issued two statements after the membership was read.
ClaimsAreEarned ==
  [][\A k \in tokens' \ tokens :
       k.claim # NoTenant => \E q \in Requests : EarnsClaim(q, k.sub, k.claim)]_vars

\* In schema mode the tenant of a login or of /auth/me cannot be resolved, and then it
\* is refused for good: the first request leaves no name registered by which a later
\* one would pass the check of ensureSchemaResolver, be served from the shared tables
\* and get a claim.
SchemaModeFailsClosed ==
  mode = "schema" =>
    /\ \A q \in Requests : req[q].kind \in {"login", "me"} => ~At(q, "served")
    /\ \A k \in tokens : k.claim = NoTenant

\* A tenant and its first member come together or not at all, which now is never,
\* though the creation takes three statements and fails at the last one: no row is left
\* that would keep the slug from being used and that nobody could administer.
TenantComesWithOwner ==
  [][\A t \in Tenants : (~Exists(t) /\ Exists(t)') => <<t, Owner[t]>> \in members']_vars

-----------------------------------------------------------------------------
\* README.md:14 offers schemas by MULTI_TENANT_MODE, and README.md:155 says of the
\* schema mode "Each tenant gets its own PostgreSQL schema.": a request of a member for
\* an active tenant with a safe slug is served over that tenant's schema.
SchemaModeServes ==
  [][\A q \in Requests :
       (ResolveTenant(q) /\ mode = "schema" /\ req[q].tenant \in SafeSlugs) =>
         SchemaName[req[q].tenant] \in plugins' /\ req'[q] # Idle]_vars
=============================================================================
