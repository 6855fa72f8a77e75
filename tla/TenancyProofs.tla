--------------------------- MODULE TenancyProofs ----------------------------
(***************************************************************************)
(* Proofs about module Tenancy, for every set of users, tenants, slugs and *)
(* request slots, and both tenant modes.                                   *)
(*                                                                         *)
(* RequestInv says of one request what its earlier statements have shown;  *)
(* each step keeps it for the request that moves, and leaves the others    *)
(* what they are but for their history.                                    *)
(*                                                                         *)
(* Two theorems say what the code cannot do: that gorm refuses every       *)
(* resolver closes schema mode (SchemaModeIsClosed), and that the member   *)
(* of a new tenant has no tenant lets no creation succeed                  *)
(* (CreationNeverSucceeds).  The others use neither.                       *)
(***************************************************************************)
EXTENDS Tenancy, TLAPS

\* Which statements of its course a request is past, and where the course ends.
ByTenantFirst(s) == req[s].kind \in {"login", "me"}
PastTenant(s) == (ByTenantFirst(s) /\ req[s].at >= 2) \/ (req[s].kind = "get" /\ req[s].at >= 3)
PastMember(s) == IF ByTenantFirst(s) THEN req[s].at >= 3 ELSE req[s].at >= 2
LastOf(kind)  == IF kind \in {"login", "me"} THEN 4 ELSE IF kind = "get" THEN 3 ELSE 2

\* What is known of a request: its history covers the present; it has seen what it
\* is past; and its claim is that of a token handed out and names its tenant.
RequestInv(s) == IsBusy(s) =>
  /\ req[s].at \in 1..LastOf(req[s].kind)
  /\ <<req[s].tenant, req[s].user>> \in members => req[s].wasMember
  /\ tenants[req[s].tenant] = "active" => req[s].wasActive
  /\ PastMember(s) => req[s].wasMember
  /\ PastTenant(s) => req[s].wasActive
  /\ req[s].claim # NoTenant =>
       req[s].tenant = req[s].claim /\ [sub |-> req[s].user, claim |-> req[s].claim] \in tokens

TenancyInv ==
  /\ TypeOK
  /\ \A s \in Requests : RequestInv(s)

-----------------------------------------------------------------------------
\* Where the courses have which statement.
LEMMA CourseFacts ==
  ASSUME NEW s \in Requests, IsBusy(s), req[s].at \in 1..LastOf(req[s].kind)
  PROVE  /\ req[s].kind \in {"login", "me", "get", "members"}
         /\ At(s, "tenant") <=> (ByTenantFirst(s) /\ req[s].at = 1)
                                  \/ (req[s].kind = "get" /\ req[s].at = 2)
         /\ At(s, "member") <=> (ByTenantFirst(s) /\ req[s].at = 2)
                                  \/ (req[s].kind \in {"get", "members"} /\ req[s].at = 1)
         /\ At(s, "resolve") <=> (ByTenantFirst(s) /\ req[s].at = 3)
         /\ At(s, "served") <=> req[s].at = LastOf(req[s].kind)
<1>1. req[s].kind \in {"login", "me", "get", "members"}
  BY DEF IsBusy, Course
<1>2. CASE req[s].kind \in {"login", "me"}
  <2>1. req[s].at \in {1, 2, 3, 4}
    BY <1>2 DEF LastOf
  <2>2. Course[req[s].kind] = <<"tenant", "member", "resolve", "served">>
    BY <1>2 DEF Course
  <2>. QED
    BY <1>2, <2>1, <2>2 DEF At, LastOf, ByTenantFirst
<1>3. CASE req[s].kind = "get"
  <2>1. req[s].at \in {1, 2, 3}
    BY <1>3 DEF LastOf
  <2>2. Course[req[s].kind] = <<"member", "tenant", "served">>
    BY <1>3 DEF Course
  <2>. QED
    BY <1>3, <2>1, <2>2 DEF At, LastOf, ByTenantFirst
<1>4. CASE req[s].kind = "members"
  <2>1. req[s].at \in {1, 2}
    BY <1>4 DEF LastOf
  <2>2. Course[req[s].kind] = <<"member", "served">>
    BY <1>4 DEF Course
  <2>. QED
    BY <1>4, <2>1, <2>2 DEF At, LastOf, ByTenantFirst
<1>. QED
  BY <1>1, <1>2, <1>3, <1>4

\* A request under way has all of its fields.
LEMMA BusyFields ==
  ASSUME TypeOK, NEW s \in Requests, IsBusy(s)
  PROVE  req[s] \in Busy
BY DEF TypeOK, IsBusy, Idle, Creating, Course

-----------------------------------------------------------------------------
\* What a step may do to a request that it does not move.
Follows(s) ==
  /\ IsBusy(s)
  /\ req'[s] \in Busy
  /\ req'[s].kind = req[s].kind
  /\ req'[s].at = req[s].at
  /\ req'[s].user = req[s].user
  /\ req'[s].claim = req[s].claim
  /\ req'[s].tenant = req[s].tenant
  /\ (req[s].wasMember \/ <<req[s].tenant, req[s].user>> \in members') => req'[s].wasMember
  /\ (req[s].wasActive \/ tenants'[req[s].tenant] = "active") => req'[s].wasActive

LEMMA FollowingKeeps ==
  ASSUME TenancyInv, NEW s \in Requests, Follows(s),
         tokens \subseteq tokens'
  PROVE  RequestInv(s)'
BY DEF TenancyInv, RequestInv, Follows, PastMember, PastTenant, ByTenantFirst

\* A request follows where members and active tenants only become fewer.
LEMMA SameRequestFollows ==
  ASSUME TenancyInv, NEW s \in Requests, IsBusy(s), req'[s] = req[s],
         members' \subseteq members,
         tenants'[req[s].tenant] = "active" => tenants[req[s].tenant] = "active"
  PROVE  Follows(s)
BY BusyFields DEF TenancyInv, RequestInv, Follows

\* What a step that is observed makes of a request under way; the others it leaves.
Noted(s, ts, ms) ==
  [req[s] EXCEPT !.wasMember = @ \/ <<req[s].tenant, req[s].user>> \in ms,
                 !.wasActive = @ \/ ts[req[s].tenant] = "active"]

LEMMA ObservedRequests ==
  ASSUME NEW ts, NEW ms
  PROVE  /\ Observe(ts, ms) =
              [q \in Requests |-> IF IsBusy(q) THEN Noted(q, ts, ms) ELSE req[q]]
         /\ \A s \in Requests :
              /\ IsBusy(s) => Observe(ts, ms)[s] = Noted(s, ts, ms)
              /\ ~IsBusy(s) => Observe(ts, ms)[s] = req[s]
<1>1. Observe(ts, ms) = [q \in Requests |-> IF IsBusy(q) THEN Noted(q, ts, ms) ELSE req[q]]
  BY DEF Observe, Noted
<1>. QED
  BY <1>1

\* And where the step notes what it has become.
LEMMA ObservedFollows ==
  ASSUME TenancyInv, NEW s \in Requests, IsBusy(s), req'[s] = Observe(tenants', members')[s]
  PROVE  Follows(s)
<1>. DEFINE member == <<req[s].tenant, req[s].user>> \in members'
            active == tenants'[req[s].tenant] = "active"
<1>1. req'[s] = [req[s] EXCEPT !.wasMember = req[s].wasMember \/ member,
                               !.wasActive = req[s].wasActive \/ active]
  <2>1. req'[s] = Noted(s, tenants', members')
    BY ObservedRequests
  <2>. QED
    BY <2>1 DEF Noted
<1>2. req[s] \in Busy
  BY BusyFields DEF TenancyInv
<1>3. /\ req'[s].kind = req[s].kind
      /\ req'[s].at = req[s].at
      /\ req'[s].user = req[s].user
      /\ req'[s].claim = req[s].claim
      /\ req'[s].tenant = req[s].tenant
      /\ req'[s].wasMember = (req[s].wasMember \/ member)
      /\ req'[s].wasActive = (req[s].wasActive \/ active)
  BY <1>1, <1>2 DEF Busy
<1>4. req'[s] \in Busy
  <2>1. (req[s].wasMember \/ member) \in BOOLEAN /\ (req[s].wasActive \/ active) \in BOOLEAN
    OBVIOUS
  <2>. QED
    BY <1>1, <1>2, <2>1 DEF Busy
<1>. QED
  BY <1>3, <1>4 DEF Follows

\* The invariant after a step, from the tables and each request.
LEMMA StepKeeps ==
  ASSUME TenancyInv, mode' = mode, users' \subseteq Users,
         tenants' \in [Tenants -> {"none", "active", "inactive"}],
         members' \subseteq Tenants \X Users,
         registered' \cup plugins' \subseteq {SchemaName[t] : t \in Tenants},
         tokens \subseteq tokens', tokens' \subseteq Token,
         req' \in [Requests -> {Idle} \cup Busy \cup Creating],
         \A s \in Requests : ~IsBusy(s)' \/ Follows(s) \/ RequestInv(s)'
  PROVE  TenancyInv'
<1>1. ASSUME NEW s \in Requests
      PROVE  RequestInv(s)'
  BY FollowingKeeps DEF RequestInv
<1>. QED
  BY <1>1 DEF TenancyInv, TypeOK
-----------------------------------------------------------------------------
\* The tables no request of this module writes, seen by every request.
LEMMA OneMoves ==
  ASSUME TenancyInv, NEW q \in Requests, NEW r \in {Idle} \cup Busy \cup Creating,
         req' = [req EXCEPT ![q] = r],
         UNCHANGED <<mode, users, tenants, members>>,
         registered' \cup plugins' \subseteq {SchemaName[t] : t \in Tenants},
         tokens \subseteq tokens', tokens' \subseteq Token,
         ~IsBusy(q)' \/ RequestInv(q)'
  PROVE  TenancyInv'
<1>1. ASSUME NEW s \in Requests, s # q, IsBusy(s)
      PROVE  Follows(s)
  BY <1>1, SameRequestFollows DEF TenancyInv, TypeOK
<1>2. \A s \in Requests : ~IsBusy(s)' \/ Follows(s) \/ RequestInv(s)'
  BY <1>1 DEF TenancyInv, TypeOK, IsBusy
<1>. QED
  BY <1>2, StepKeeps DEF TenancyInv, TypeOK

\* A request that is over, or refused.
LEMMA FinishKeeps ==
  ASSUME TenancyInv, NEW q \in Requests, Finish(q),
         UNCHANGED <<mode, users, tenants, members, registered, plugins, tokens>>
  PROVE  TenancyInv'
<1>1. ~IsBusy(q)'
  BY DEF TenancyInv, TypeOK, Finish, IsBusy, Idle, Course
<1>. QED
  BY <1>1, OneMoves DEF TenancyInv, TypeOK, Finish

\* A request that sets out, with a claim that is in a token and names its tenant.
LEMMA StartKeeps ==
  ASSUME TenancyInv, NEW q \in Requests, NEW kind \in DOMAIN Course, NEW u \in Users,
         NEW claim \in Claim, NEW t \in Tenants, Start(q, kind, u, claim, t),
         claim # NoTenant => t = claim /\ [sub |-> u, claim |-> claim] \in tokens
  PROVE  TenancyInv'
<1>. DEFINE r == [kind |-> kind, at |-> 1, user |-> u, claim |-> claim, tenant |-> t,
                  wasMember |-> <<t, u>> \in members, wasActive |-> tenants[t] = "active"]
<1>1. r \in Busy
  BY DEF Busy
<1>2. req' = [req EXCEPT ![q] = r] /\ req'[q] = r
  BY DEF Start, TenancyInv, TypeOK
<1>3. RequestInv(q)'
  <2>1. /\ req'[q].at = 1
        /\ req'[q].kind = kind /\ req'[q].user = u /\ req'[q].claim = claim /\ req'[q].tenant = t
        /\ req'[q].wasMember = (<<t, u>> \in members)
        /\ req'[q].wasActive = (tenants[t] = "active")
    BY <1>2
  <2>2. UNCHANGED <<members, tenants, tokens>>
    BY DEF Start
  <2>3. ~PastMember(q)' /\ ~PastTenant(q)'
    BY <2>1 DEF PastMember, PastTenant, ByTenantFirst
  <2>4. req'[q].at \in 1..LastOf(req'[q].kind)
    BY <2>1 DEF LastOf
  <2>5. <<req'[q].tenant, req'[q].user>> \in members' => req'[q].wasMember
    BY <2>1, <2>2
  <2>6. tenants'[req'[q].tenant] = "active" => req'[q].wasActive
    BY <2>1, <2>2
  <2>7. req'[q].claim # NoTenant =>
          /\ req'[q].tenant = req'[q].claim
          /\ [sub |-> req'[q].user, claim |-> req'[q].claim] \in tokens'
    BY <2>1, <2>2
  <2>. QED
    BY <2>1, <2>3, <2>4, <2>5, <2>6, <2>7 DEF RequestInv, Course
<1>. QED
  BY <1>1, <1>2, <1>3, OneMoves DEF Start, TenancyInv, TypeOK

\* A request that goes on to its next statement.
LEMMA GoOnKeeps ==
  ASSUME TenancyInv, NEW q \in Requests, IsBusy(q), GoOn(q), req[q].at < LastOf(req[q].kind),
         UNCHANGED <<mode, users, tenants, members>>,
         registered' \cup plugins' \subseteq {SchemaName[t] : t \in Tenants},
         tokens \subseteq tokens', tokens' \subseteq Token,
         At(q, "member") => req[q].wasMember,
         At(q, "tenant") => req[q].wasActive
  PROVE  TenancyInv'
<1>1. req[q] \in Busy /\ req[q].at \in 1..LastOf(req[q].kind)
  BY BusyFields DEF TenancyInv, RequestInv
<1>2. req[q].at + 1 \in 1..LastOf(req[q].kind) /\ LastOf(req[q].kind) \in {2, 3, 4}
  BY <1>1 DEF LastOf
<1>3. [req[q] EXCEPT !.at = req[q].at + 1] \in Busy
  BY <1>1, <1>2 DEF Busy
<1>4. req'[q] = [req[q] EXCEPT !.at = req[q].at + 1] /\
      req' = [req EXCEPT ![q] = [req[q] EXCEPT !.at = req[q].at + 1]]
  BY DEF GoOn, TenancyInv, TypeOK
<1>5. /\ req'[q].at = req[q].at + 1
      /\ req'[q].kind = req[q].kind
      /\ req'[q].user = req[q].user
      /\ req'[q].claim = req[q].claim
      /\ req'[q].tenant = req[q].tenant
      /\ req'[q].wasMember = req[q].wasMember
      /\ req'[q].wasActive = req[q].wasActive
  BY <1>1, <1>4 DEF Busy
<1>6. RequestInv(q)
  BY DEF TenancyInv
<1>7. PastMember(q)' => PastMember(q) \/ At(q, "member")
  BY <1>1, <1>5, CourseFacts DEF PastMember, ByTenantFirst, LastOf
<1>8. PastTenant(q)' => PastTenant(q) \/ At(q, "tenant")
  BY <1>1, <1>5, CourseFacts DEF PastTenant, ByTenantFirst, LastOf
<1>9. RequestInv(q)'
  BY <1>2, <1>5, <1>6, <1>7, <1>8 DEF RequestInv, IsBusy, Course
<1>. QED
  BY <1>3, <1>4, <1>9, OneMoves

-----------------------------------------------------------------------------
\* What a request that another's step is noted for can be afterwards.
LEMMA ObservedKeeps ==
  ASSUME TenancyInv, NEW s \in Requests, req'[s] = Observe(tenants', members')[s]
  PROVE  /\ ~IsBusy(s)' \/ Follows(s)
         /\ req'[s] \in {Idle} \cup Busy \cup Creating
<1>1. CASE IsBusy(s)
  BY <1>1, ObservedFollows DEF Follows, IsBusy, Course
<1>2. CASE ~IsBusy(s)
  BY <1>2, ObservedRequests DEF IsBusy, TenancyInv, TypeOK
<1>. QED
  BY <1>1, <1>2

\* A creation notes its tables, and it inserts a member of a tenant there is or not
\* at all.
LEMMA CreateKeeps ==
  ASSUME TenancyInv, NEW q \in Requests, CreateTenant(q)
  PROVE  TenancyInv'
<1>1. req[q] \in Creating
  BY DEF TenancyInv, TypeOK, CreateTenant, Creating, Busy, Idle, Course
<1>2. tenants' \in [Tenants -> {"none", "active", "inactive"}]
  BY <1>1 DEF CreateTenant, TenancyInv, TypeOK, Creating
<1>3. members' \subseteq Tenants \X Users
  <2>1. req[q].user \in Users /\ (InsertsMember(q) => MemberTenant(q) \in Tenants)
    BY <1>1 DEF Creating, InsertsMember
  <2>. QED
    BY <2>1 DEF CreateTenant, TenancyInv, TypeOK
<1>4. req' = [Observe(tenants', members') EXCEPT ![q] = Idle]
  BY DEF CreateTenant
<1>5. ~IsBusy(q)' /\ req'[q] = Idle
  BY <1>4, ObservedRequests DEF IsBusy, Idle, Course
<1>6. ASSUME NEW s \in Requests, s # q
      PROVE  req'[s] = Observe(tenants', members')[s]
  BY <1>4, <1>6, ObservedRequests
<1>7. ASSUME NEW s \in Requests
      PROVE  /\ ~IsBusy(s)' \/ Follows(s)
             /\ req'[s] \in {Idle} \cup Busy \cup Creating
  <2>1. CASE s = q
    BY <1>5, <2>1
  <2>2. CASE s # q
    BY <1>6, <2>2, ObservedKeeps
  <2>. QED
    BY <2>1, <2>2
<1>8. req' \in [Requests -> {Idle} \cup Busy \cup Creating]
  BY <1>4, <1>7, ObservedRequests
<1>. QED
  BY <1>2, <1>3, <1>7, <1>8, StepKeeps DEF CreateTenant, TenancyInv, TypeOK

\* Other routes change the tables, and the requests note it.
LEMMA OtherRoutesKeep ==
  ASSUME TenancyInv, OtherRoutes
  PROVE  TenancyInv'
<1>. USE DEF Register!RegisterNext, Register!Join, Register!Leave, Register!Switch,
             Register!Depart, Register!Return
<1>1. users' \subseteq Users
  BY DEF OtherRoutes, TenancyInv, TypeOK
<1>2. tenants' \in [Tenants -> {"none", "active", "inactive"}]
  BY DEF OtherRoutes, TenancyInv, TypeOK
<1>3. members' \subseteq Tenants \X Users
  <2>1. \/ members' \subseteq members
        \/ \E t \in Tenants, u \in Users : members' = members \cup {<<t, u>>}
    BY DEF OtherRoutes
  <2>2. members \subseteq Tenants \X Users
    BY DEF TenancyInv, TypeOK
  <2>. QED
    BY <2>1, <2>2
<1>4. req' = Observe(tenants', members') /\ UNCHANGED <<mode, registered, plugins, tokens>>
  BY DEF OtherRoutes
<1>5. \A s \in Requests : /\ ~IsBusy(s)' \/ Follows(s)
                          /\ req'[s] \in {Idle} \cup Busy \cup Creating
  BY <1>4, ObservedKeeps
<1>6. req' \in [Requests -> {Idle} \cup Busy \cup Creating]
  BY <1>4, <1>5, ObservedRequests
<1>. QED
  BY <1>1, <1>2, <1>3, <1>4, <1>5, <1>6, StepKeeps DEF TenancyInv, TypeOK
-----------------------------------------------------------------------------
\* The three kinds of request that set out.
LEMMA BeginKeeps ==
  ASSUME TenancyInv, NEW q \in Requests,
         \/ \E u \in Users, h \in Header : BeginLogin(q, u, h)
         \/ \E k \in tokens, h \in Header : BeginMe(q, k, h)
         \/ \E u \in Users, t \in Tenants : BeginGet(q, u, t) \/ BeginMembers(q, u, t)
  PROVE  TenancyInv'
<1>0. {"login", "me", "get", "members"} = DOMAIN Course /\ NoTenant \in Claim
  BY DEF Course, Claim
<1>1. ASSUME NEW u \in Users, NEW h \in Header, BeginLogin(q, u, h)
      PROVE  TenancyInv'
  <2>1. h.tenant \in Tenants
    BY <1>1 DEF BeginLogin, Header
  <2>. QED
    BY <1>0, <1>1, <2>1, StartKeeps DEF BeginLogin
<1>2. ASSUME NEW k \in tokens, NEW h \in Header, BeginMe(q, k, h)
      PROVE  TenancyInv'
  <2>1. PICK t \in Chosen(k.claim, h) : Start(q, "me", k.sub, k.claim, t)
    BY <1>2 DEF BeginMe
  <2>2. k \in Token /\ k.sub \in Users /\ k.claim \in Claim /\ k = [sub |-> k.sub, claim |-> k.claim]
    BY DEF TenancyInv, TypeOK, Token
  <2>3. k.claim = NoTenant => t \in Tenants
    BY <2>1 DEF Chosen, Header
  <2>4. k.claim # NoTenant => t = k.claim /\ t \in Tenants
    BY <2>1, <2>2 DEF Chosen, Claim
  <2>. QED
    BY <1>0, <2>1, <2>2, <2>3, <2>4, StartKeeps
<1>3. ASSUME NEW u \in Users, NEW t \in Tenants, BeginGet(q, u, t) \/ BeginMembers(q, u, t)
      PROVE  TenancyInv'
  BY <1>0, <1>3, StartKeeps DEF BeginGet, BeginMembers
<1>. QED
  BY <1>1, <1>2, <1>3

\* The statements of a course.
LEMMA StatementKeeps ==
  ASSUME TenancyInv, NEW q \in Requests,
         FindTenant(q) \/ FindMember(q) \/ ResolveTenant(q) \/ Answer(q)
  PROVE  TenancyInv'
<1>1. IsBusy(q) /\ req[q] \in Busy /\ RequestInv(q) /\ req[q].at \in 1..LastOf(req[q].kind)
  BY BusyFields DEF TenancyInv, RequestInv, FindTenant, FindMember, ResolveTenant, Answer, At
<1>2. ASSUME ~At(q, "served")
      PROVE  req[q].at < LastOf(req[q].kind)
  BY <1>1, <1>2, CourseFacts DEF LastOf
<1>3. \A a, b \in {"tenant", "member", "resolve", "served"} : At(q, a) /\ At(q, b) => a = b
  BY DEF At
<1>4. CASE FindTenant(q)
  <2>1. CASE Finish(q)
    BY <1>4, <2>1, FinishKeeps DEF FindTenant
  <2>2. CASE tenants[req[q].tenant] = "active" /\ GoOn(q)
    <3>1. req[q].wasActive /\ At(q, "tenant")
      BY <1>1, <1>4, <2>2 DEF RequestInv, FindTenant
    <3>. QED
      BY <1>1, <1>2, <1>3, <1>4, <2>2, <3>1, GoOnKeeps DEF FindTenant, TenancyInv, TypeOK
  <2>. QED
    BY <1>4, <2>1, <2>2 DEF FindTenant
<1>5. CASE FindMember(q)
  <2>1. CASE Finish(q)
    BY <1>5, <2>1, FinishKeeps DEF FindMember
  <2>2. CASE IsMember(q) /\ GoOn(q)
    <3>1. req[q].wasMember /\ At(q, "member")
      BY <1>1, <1>5, <2>2 DEF RequestInv, FindMember, IsMember
    <3>. QED
      BY <1>1, <1>2, <1>3, <1>5, <2>2, <3>1, GoOnKeeps DEF FindMember, TenancyInv, TypeOK
  <2>. QED
    BY <1>5, <2>1, <2>2 DEF FindMember
<1>6. CASE ResolveTenant(q)
  <2>. DEFINE t == req[q].tenant
              tries == mode = "schema" /\ t \in SafeSlugs /\ SchemaName[t] \notin registered
  <2>1. At(q, "resolve") /\ UNCHANGED <<mode, users, tenants, members>> /\ t \in Tenants
    BY <1>1, <1>6 DEF ResolveTenant, Busy
  <2>2. /\ registered' = IF tries THEN Registered(t) ELSE registered
        /\ plugins' = IF tries /\ UseAccepts THEN plugins \cup {SchemaName[t]} ELSE plugins
    BY <1>6 DEF ResolveTenant
  <2>3. registered' \cup plugins' \subseteq {SchemaName[x] : x \in Tenants}
    BY <2>1, <2>2 DEF Registered, TenancyInv, TypeOK
  <2>4. CASE Finish(q) /\ UNCHANGED tokens
    <3>1. ~IsBusy(q)'
      BY <2>4 DEF TenancyInv, TypeOK, Finish, IsBusy, Idle, Course
    <3>. QED
      BY <2>1, <2>3, <2>4, <3>1, OneMoves DEF Finish, TenancyInv, TypeOK
  <2>5. CASE /\ mode = "row" \/ (t \in SafeSlugs /\ (tries => UseAccepts))
             /\ GoOn(q)
             /\ tokens' = IF req[q].kind = "login"
                          THEN tokens \cup {[sub |-> req[q].user, claim |-> t]} ELSE tokens
    <3>1. tokens \subseteq tokens' /\ tokens' \subseteq Token
      BY <1>1, <2>1, <2>5 DEF TenancyInv, TypeOK, Busy, Token, Claim
    <3>. QED
      BY <1>1, <1>2, <1>3, <2>1, <2>3, <2>5, <3>1, GoOnKeeps
  <2>. QED
    BY <1>6, <2>4, <2>5 DEF ResolveTenant
<1>7. CASE Answer(q)
  BY <1>7, FinishKeeps DEF Answer
<1>. QED
  BY <1>4, <1>5, <1>6, <1>7

\* A creation sets out; a pair without a claim is handed out.
LEMMA BeginCreateKeeps ==
  ASSUME TenancyInv, NEW q \in Requests, NEW t \in Tenants, BeginCreate(q, t)
  PROVE  TenancyInv'
<1>. DEFINE r == [kind |-> "create", user |-> Owner[t], tenant |-> t]
<1>1. r \in Creating /\ req' = [req EXCEPT ![q] = r]
  BY TenantsAreOwned DEF Creating, BeginCreate
<1>2. ~IsBusy(q)'
  BY <1>1 DEF TenancyInv, TypeOK, IsBusy, Course
<1>. QED
  BY <1>1, <1>2, OneMoves DEF BeginCreate, TenancyInv, TypeOK

LEMMA LoginWithoutKeeps ==
  ASSUME TenancyInv, NEW u \in Users, LoginWithout(u)
  PROVE  TenancyInv'
<1>1. tokens \subseteq tokens' /\ tokens' \subseteq Token
  BY DEF LoginWithout, TenancyInv, TypeOK, Token, Claim
<1>2. \A s \in Requests : ~IsBusy(s)' \/ Follows(s)
  BY SameRequestFollows DEF LoginWithout, IsBusy
<1>. QED
  BY <1>1, <1>2, StepKeeps DEF LoginWithout, TenancyInv, TypeOK

LEMMA TenancyInvStep ==
  ASSUME TenancyInv, [Next]_vars
  PROVE  TenancyInv'
<1>1. ASSUME NEW q \in Requests, Abort(q)
      PROVE  TenancyInv'
  BY <1>1, FinishKeeps DEF Abort
<1>2. ASSUME UNCHANGED vars
      PROVE  TenancyInv'
  <2>1. \A s \in Requests : ~IsBusy(s)' \/ Follows(s)
    BY <1>2, SameRequestFollows DEF vars, IsBusy
  <2>. QED
    BY <1>2, <2>1, StepKeeps DEF vars, TenancyInv, TypeOK
<1>. QED
  BY <1>1, <1>2, BeginKeeps, StatementKeeps, BeginCreateKeeps, CreateKeeps,
     LoginWithoutKeeps, OtherRoutesKeep
  DEF Next, Advance

-----------------------------------------------------------------------------
\* What is true in every reachable state of Tenancy.
THEOREM Safety == Spec => []TenancyInv
<1>1. Init => TenancyInv
  <2>. SUFFICES ASSUME Init PROVE TenancyInv
    OBVIOUS
  <2>1. \A s \in Requests : ~IsBusy(s)
    BY DEF Init, IsBusy, Idle, Course
  <2>2. members \subseteq Tenants \X Users
    BY TenantsAreOwned DEF Init, Register!RegisterInit
  <2>. QED
    BY <2>1, <2>2 DEF Init, Register!RegisterInit, TenancyInv, TypeOK, RequestInv
<1>. QED
  BY <1>1, TenancyInvStep, PTL DEF Spec

\* Every variable keeps the shape its declaration says.
THEOREM TypeCorrect == Spec => []TypeOK
BY Safety, PTL DEF TenancyInv

\* The middlewares and handlers serve members only, and tenants that are active,
\* whatever changes between their statements.
THEOREM ServedAreEntitled == Spec => []EntitledWhileServed
<1>1. TenancyInv => EntitledWhileServed
  <2>. SUFFICES ASSUME TenancyInv, NEW q \in Requests, At(q, "served")
                PROVE  req[q].wasMember /\ (req[q].kind # "members" => req[q].wasActive)
    BY DEF EntitledWhileServed
  <2>1. IsBusy(q) /\ RequestInv(q)
    BY DEF At, TenancyInv
  <2>2. /\ req[q].at = LastOf(req[q].kind)
        /\ req[q].kind \in {"login", "me", "get", "members"}
    BY <2>1, CourseFacts DEF RequestInv
  <2>3. PastMember(q) /\ (req[q].kind # "members" => PastTenant(q))
    BY <2>2 DEF PastMember, PastTenant, ByTenantFirst, LastOf
  <2>. QED
    BY <2>1, <2>3 DEF RequestInv
<1>. QED
  BY <1>1, Safety, PTL

\* A tenant claim is used for its own tenant, by the subject it was given to.
THEOREM ClaimsAreBinding == Spec => []ClaimBinds
<1>1. TenancyInv => ClaimBinds
  BY DEF TenancyInv, RequestInv, ClaimBinds, At
<1>. QED
  BY <1>1, Safety, PTL

\* In schema mode no request is past the resolver, no name is registered, and no claim
\* was handed out.
SchemaClosed ==
  /\ registered = {}
  /\ mode = "schema" =>
       /\ \A s \in Requests : (IsBusy(s) /\ ByTenantFirst(s)) => req[s].at \in 1..3
       /\ \A k \in tokens : k.claim = NoTenant

\* A request sets out, stays where it is, or is through with one statement.
LEMMA RequestMoves ==
  ASSUME TenancyInv, [Next]_vars, NEW s \in Requests, IsBusy(s)'
  PROVE  \/ req'[s].at = 1
         \/ IsBusy(s) /\ req'[s].kind = req[s].kind /\ req'[s].at = req[s].at
         \/ /\ IsBusy(s) /\ req'[s].kind = req[s].kind /\ req'[s].at = req[s].at + 1
            /\ FindTenant(s) \/ FindMember(s) \/ ResolveTenant(s)
<1>. DEFINE Stays == IsBusy(s) /\ req'[s].kind = req[s].kind /\ req'[s].at = req[s].at
<1>0. req \in [Requests -> {Idle} \cup Busy \cup Creating]
  BY DEF TenancyInv, TypeOK
<1>1. CASE req'[s] = req[s]
  BY <1>1 DEF IsBusy
<1>2. ASSUME NEW q \in Requests, NEW kind, NEW u, NEW claim, NEW t, Start(q, kind, u, claim, t)
      PROVE  req'[s].at = 1 \/ Stays
  BY <1>0, <1>2 DEF Start, IsBusy
<1>3. ASSUME NEW q \in Requests, Finish(q)
      PROVE  Stays
  BY <1>0, <1>3 DEF Finish, IsBusy, Idle, Course
<1>4. ASSUME NEW q \in Requests, GoOn(q), At(q, "tenant") \/ At(q, "member") \/ At(q, "resolve")
      PROVE  \/ q # s /\ Stays
             \/ q = s /\ IsBusy(s) /\ req'[s].kind = req[s].kind /\ req'[s].at = req[s].at + 1
  <2>1. CASE q # s
    BY <1>0, <1>4, <2>1 DEF GoOn, IsBusy
  <2>2. CASE q = s
    <3>1. IsBusy(s) /\ req[s] \in Busy
      BY <1>4, <2>2, BusyFields DEF At, TenancyInv
    <3>2. req'[s] = [req[s] EXCEPT !.at = req[s].at + 1]
      BY <1>0, <1>4, <2>2 DEF GoOn
    <3>. QED
      BY <2>2, <3>1, <3>2 DEF Busy
  <2>. QED
    BY <2>1, <2>2
<1>5. ASSUME req'[s] = Observe(tenants', members')[s]
      PROVE  Stays
  BY <1>5, ObservedKeeps DEF Follows
<1>6. ASSUME NEW q \in Requests, CreateTenant(q)
      PROVE  Stays
  <2>1. req' = [Observe(tenants', members') EXCEPT ![q] = Idle]
    BY <1>6 DEF CreateTenant
  <2>2. s # q
    BY <2>1, ObservedRequests DEF IsBusy, Idle, Course
  <2>. QED
    BY <1>5, <2>1, <2>2, ObservedRequests
<1>7. ASSUME NEW q \in Requests, NEW t \in Tenants, BeginCreate(q, t)
      PROVE  Stays
  BY <1>0, <1>7 DEF BeginCreate, IsBusy, Course
<1>8. ASSUME NEW q \in Requests, FindTenant(q) \/ FindMember(q) \/ ResolveTenant(q)
      PROVE  \/ Stays
             \/ /\ IsBusy(s) /\ req'[s].kind = req[s].kind /\ req'[s].at = req[s].at + 1
                /\ FindTenant(s) \/ FindMember(s) \/ ResolveTenant(s)
  <2>1. At(q, "tenant") \/ At(q, "member") \/ At(q, "resolve")
    BY <1>8 DEF FindTenant, FindMember, ResolveTenant
  <2>2. GoOn(q) \/ Finish(q)
    BY <1>8 DEF FindTenant, FindMember, ResolveTenant
  <2>. QED
    BY <1>3, <1>4, <1>8, <2>1, <2>2
<1>9. CASE UNCHANGED req
  BY <1>1, <1>9
<1>. QED
  BY <1>2, <1>3, <1>5, <1>6, <1>7, <1>8, <1>9
  DEF Next, Advance, BeginLogin, BeginMe, BeginGet, BeginMembers, Answer, Abort, LoginWithout,
      OtherRoutes, vars

\* Schema mode serves nobody and hands out no claim, because gorm refuses the resolver
\* of every tenant; and no request, however many came before it and whatever else
\* happens to the tables, finds a way past that.
THEOREM SchemaModeIsClosed == Spec => []SchemaModeFailsClosed
<1>1. Init => SchemaClosed
  BY DEF Init, SchemaClosed, IsBusy, Idle, Course
<1>2. TenancyInv /\ SchemaClosed /\ [Next]_vars => SchemaClosed'
  <2>. SUFFICES ASSUME TenancyInv, SchemaClosed, [Next]_vars
                PROVE  SchemaClosed'
    OBVIOUS
  <2>1. ASSUME NEW q \in Requests, ResolveTenant(q)
        PROVE  /\ registered' = {}
               /\ mode = "schema" => Finish(q) /\ tokens' = tokens
    <3>1. mode = "schema" => mode # "row"
      OBVIOUS
    <3>. QED
      BY <2>1, <3>1 DEF ResolveTenant, Registered, UseAccepts, SchemaClosed
  <2>2. registered' = {} /\ mode' = mode
    BY <2>1 DEF SchemaClosed, Next, Advance, BeginLogin, BeginMe, BeginGet, BeginMembers, Start,
                BeginCreate, FindTenant, FindMember, ResolveTenant, Answer, Abort, CreateTenant,
                LoginWithout, OtherRoutes, vars
  <2>3. ASSUME mode = "schema"
        PROVE  \A k \in tokens' : k.claim = NoTenant
    <3>1. ASSUME NEW u \in Users, LoginWithout(u)
          PROVE  \A k \in tokens' : k.claim = NoTenant
      BY <2>3, <3>1 DEF LoginWithout, SchemaClosed
    <3>2. CASE tokens' = tokens
      BY <2>3, <3>2 DEF SchemaClosed
    <3>3. (\E u \in Users : LoginWithout(u)) \/ tokens' = tokens
      BY <2>1, <2>3
      DEF Next, Advance, BeginLogin, BeginMe, BeginGet, BeginMembers, Start, BeginCreate,
          FindTenant, FindMember, Answer, Abort, CreateTenant, OtherRoutes, vars
    <3>. QED
      BY <3>1, <3>2, <3>3
  <2>4. ASSUME mode = "schema", NEW s \in Requests, IsBusy(s)', ByTenantFirst(s)'
        PROVE  req'[s].at \in 1..3
    <3>1. CASE req'[s].at = 1
      BY <3>1
    <3>2. CASE IsBusy(s) /\ req'[s].kind = req[s].kind /\ req'[s].at = req[s].at
      BY <2>4, <3>2 DEF SchemaClosed, ByTenantFirst
    <3>3. CASE /\ IsBusy(s) /\ req'[s].kind = req[s].kind /\ req'[s].at = req[s].at + 1
               /\ FindTenant(s) \/ FindMember(s) \/ ResolveTenant(s)
      <4>1. ~ResolveTenant(s)
        BY <2>1, <2>4 DEF Finish, TenancyInv, TypeOK, IsBusy, Idle, Course
      <4>2. req[s].at \in 1..3 /\ ByTenantFirst(s)
        BY <2>4, <3>3 DEF SchemaClosed, ByTenantFirst
      <4>3. At(s, "tenant") \/ At(s, "member")
        BY <3>3, <4>1 DEF FindTenant, FindMember
      <4>4. req[s].at # 3
        <5>1. req[s].at \in 1..LastOf(req[s].kind)
          BY <3>3 DEF TenancyInv, RequestInv
        <5>. QED
          BY <3>3, <4>2, <4>3, <5>1, CourseFacts DEF ByTenantFirst
      <4>. QED
        BY <3>3, <4>2, <4>4
    <3>. QED
      BY <2>4, <3>1, <3>2, <3>3, RequestMoves
  <2>. QED
    BY <2>2, <2>3, <2>4 DEF SchemaClosed
<1>3. TenancyInv /\ SchemaClosed => SchemaModeFailsClosed
  <2>. SUFFICES ASSUME TenancyInv, SchemaClosed, mode = "schema"
                PROVE  /\ \A q \in Requests : req[q].kind \in {"login", "me"} => ~At(q, "served")
                       /\ \A k \in tokens : k.claim = NoTenant
    BY DEF SchemaModeFailsClosed
  <2>1. ASSUME NEW q \in Requests, req[q].kind \in {"login", "me"}, At(q, "served")
        PROVE  FALSE
    <3>1. IsBusy(q) /\ RequestInv(q) /\ ByTenantFirst(q)
      BY <2>1 DEF At, TenancyInv, ByTenantFirst
    <3>2. req[q].at = 4
      BY <2>1, <3>1, CourseFacts DEF RequestInv, LastOf
    <3>. QED
      BY <3>1, <3>2 DEF SchemaClosed
  <2>. QED
    BY <2>1 DEF SchemaClosed
<1>. QED
  BY <1>1, <1>2, <1>3, Safety, PTL DEF Spec

\* The other routes bring no tenant back.
LEMMA OtherRoutesFoundNothing ==
  ASSUME TenancyInv, OtherRoutes, NEW t \in Tenants, ~Exists(t)
  PROVE  ~Exists(t)'
<1>1. tenants \in [Tenants -> {"none", "active", "inactive"}]
  BY DEF TenancyInv, TypeOK
<1>. QED
  BY <1>1 DEF OtherRoutes, Exists, Register!RegisterNext, Register!Join, Register!Leave,
              Register!Switch, Register!Depart, Register!Return, Register!Exists

\* The member of a creation refers to no tenant there could be, so its insert fails.
LEMMA MemberIsRefused ==
  ASSUME NEW q \in Requests, req[q] \in Creating
  PROVE  ~InsertsMember(q)
BY NoTenantIsNone DEF InsertsMember, MemberTenant, Creating

LEMMA CreationChangesNothing ==
  ASSUME TenancyInv, NEW q \in Requests, CreateTenant(q)
  PROVE  req[q] \in Creating /\ UNCHANGED <<tenants, members>>
<1>1. req[q] \in Creating
  BY DEF TenancyInv, TypeOK, CreateTenant, Creating, Busy, Idle, Course
<1>. QED
  BY <1>1, MemberIsRefused DEF CreateTenant, TenantIsKept

\* No request creates a tenant, for whatever slug, in whatever mode and whoever asks:
\* a tenant that is not there, because it never was or went with its owner, does not
\* come into being; and no creation that fails leaves a row of it behind.
CreationNeverSucceeds ==
  [][/\ \A t \in Tenants : Exists(t)' => Exists(t)
     /\ \A q \in Requests : CreateTenant(q) => UNCHANGED <<tenants, members>>]_vars

THEOREM TenantsAreNotCreated == Spec => CreationNeverSucceeds
<1>1. TenancyInv /\ [Next]_vars =>
        [/\ \A t \in Tenants : Exists(t)' => Exists(t)
         /\ \A q \in Requests : CreateTenant(q) => UNCHANGED <<tenants, members>>]_vars
  <2>. SUFFICES ASSUME TenancyInv, Next
                PROVE  /\ \A t \in Tenants : Exists(t)' => Exists(t)
                       /\ \A q \in Requests : CreateTenant(q) => UNCHANGED <<tenants, members>>
    OBVIOUS
  <2>1. ASSUME NEW t \in Tenants, ~Exists(t), Exists(t)'
        PROVE  FALSE
    <3>1. tenants' # tenants
      BY <2>1 DEF Exists
    <3>2. ~OtherRoutes
      BY <2>1, OtherRoutesFoundNothing
    <3>3. ~(\E q \in Requests : CreateTenant(q))
      BY <3>1, CreationChangesNothing
    <3>. QED
      BY <3>1, <3>2, <3>3
      DEF Next, Advance, BeginLogin, BeginMe, BeginGet, BeginMembers, Start, BeginCreate,
          FindTenant, FindMember, ResolveTenant, Answer, Abort, LoginWithout, vars
  <2>. QED
    BY <2>1, CreationChangesNothing
<1>. QED
  BY <1>1, Safety, PTL DEF Spec, CreationNeverSucceeds
-----------------------------------------------------------------------------
\* What Login puts into the pair (ResolveForUser) is not somebody else's to use: the
\* first end of the way of a claim, whose other ends are ClaimsAreBinding, and
\* IdentitiesComeFromLogins about the refreshes in between.
THEOREM ClaimsComeFromMembership == Spec => ClaimsAreEarned
<1>1. TenancyInv /\ [Next]_vars =>
        [\A k \in tokens' \ tokens :
           k.claim # NoTenant => \E q \in Requests : EarnsClaim(q, k.sub, k.claim)]_vars
  <2>. SUFFICES ASSUME TenancyInv, [Next]_vars, NEW k \in tokens' \ tokens, k.claim # NoTenant
                PROVE  \E q \in Requests : EarnsClaim(q, k.sub, k.claim)
    OBVIOUS
  <2>1. ~(\E u \in Users : LoginWithout(u))
    BY DEF LoginWithout
  <2>2. PICK q \in Requests : ResolveTenant(q)
    <3>1. tokens' # tokens
      OBVIOUS
    <3>. QED
      BY <2>1, <3>1
      DEF Next, Advance, BeginLogin, BeginMe, BeginGet, BeginMembers, Start, BeginCreate,
          FindTenant, FindMember, Answer, Abort, CreateTenant, OtherRoutes, vars
  <2>3. req[q].kind = "login" /\ k = [sub |-> req[q].user, claim |-> req[q].tenant]
    BY <2>2 DEF ResolveTenant
  <2>4. IsBusy(q) /\ RequestInv(q) /\ At(q, "resolve")
    BY <2>2 DEF ResolveTenant, At, TenancyInv
  <2>5. req[q].at = 3
    BY <2>4, CourseFacts DEF RequestInv
  <2>6. req[q].wasMember /\ req[q].wasActive
    BY <2>3, <2>4, <2>5 DEF RequestInv, PastMember, PastTenant, ByTenantFirst
  <2>. QED
    BY <2>3, <2>6 DEF EarnsClaim
<1>. QED
  BY <1>1, Safety, PTL DEF Spec, ClaimsAreEarned

-----------------------------------------------------------------------------
\* Every membership is of a tenant and a user there are, and every tenant there is has
\* its owner among the users.
MembersAreThere ==
  /\ \A m \in members : Exists(m[1]) /\ m[2] \in users
  /\ \A t \in Tenants : Exists(t) => Owner[t] \in users

\* Other routes keep it: Depart takes the user's tenants, and the members of both.
LEMMA OtherRoutesKeepMembers ==
  ASSUME TypeOK, MembersAreThere, OtherRoutes
  PROVE  MembersAreThere'
<1>. users \subseteq Users /\ members \subseteq Tenants \X Users
     /\ tenants \in [Tenants -> {"none", "active", "inactive"}]
  BY DEF TypeOK
<1>. USE DEF MembersAreThere, Exists
<1>1. ASSUME NEW t \in Tenants, NEW u \in Users, Register!Join(t, u) \/ Register!Leave(t, u)
      PROVE  MembersAreThere'
  BY <1>1 DEF Register!Join, Register!Leave, Register!Exists
<1>2. ASSUME NEW t \in Tenants, NEW status \in {"active", "inactive"}, Register!Switch(t, status)
      PROVE  MembersAreThere'
  BY <1>2 DEF Register!Switch, Register!Exists
<1>3. ASSUME NEW u \in Users, Register!Depart(u)
      PROVE  MembersAreThere'
  BY <1>3 DEF Register!Depart
<1>4. ASSUME NEW u \in Users, Register!Return(u)
      PROVE  MembersAreThere'
  BY <1>4 DEF Register!Return
<1>. QED
  BY <1>1, <1>2, <1>3, <1>4 DEF OtherRoutes, Register!RegisterNext

\* What Membership shows of its own routes (NothingOutlivesItsParent) stays true with
\* the creation of tenants among them, whose failing transaction leaves nothing.
THEOREM RegisterIsSound == Spec => []MembersAreThere
<1>1. Init => MembersAreThere
  BY TenantsAreOwned DEF Init, Register!RegisterInit, MembersAreThere, Exists
<1>2. TenancyInv /\ MembersAreThere /\ [Next]_vars => MembersAreThere'
  <2>. SUFFICES ASSUME TenancyInv, MembersAreThere, [Next]_vars
                PROVE  MembersAreThere'
    OBVIOUS
  <2>1. CASE UNCHANGED <<users, tenants, members>>
    BY <2>1 DEF MembersAreThere, Exists
  <2>2. ASSUME NEW q \in Requests, CreateTenant(q)
        PROVE  UNCHANGED <<users, tenants, members>>
    BY <2>2, CreationChangesNothing DEF CreateTenant
  <2>. QED
    BY <2>1, <2>2, OtherRoutesKeepMembers
    DEF Next, Advance, BeginLogin, BeginMe, BeginGet, BeginMembers, Start, BeginCreate,
        FindTenant, FindMember, ResolveTenant, Answer, Abort, LoginWithout, vars, TenancyInv
<1>. QED
  BY <1>1, <1>2, Safety, PTL DEF Spec
=============================================================================
