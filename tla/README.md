# Verification of go-multi-tenant-auth-template

TLA+ models of the authentication and tenancy server in `src/`, checked with TLC
on small instances and proved with TLAPS for every value of the constants.

The server is a stateless Go program (Gin, GORM, PostgreSQL). Every HTTP request
runs in a goroutine of its own, handlers share nothing in memory (except the
registry of tenant resolvers), and all state is in the database. No handler asks
for a lock, and only three use a transaction (login, refresh, create tenant). So the
questions worth asking are about **requests that interleave between their SQL
statements**, about what `Save` of a stale copy does, about what a request that
breaks off leaves behind, about tokens, memberships and permissions that are checked
in one statement and used in another, and about the row locks PostgreSQL takes
unasked.

## Inventory

| Part | State | Operations | What is hard about it |
|---|---|---|---|
| Refresh-token sessions (`auth_service.go`, `token_service.go`, `token_repo.go`) | table `refresh_tokens` | login, refresh (rotation), logout | check outside the transaction; `Save` of a stale row; a clock read anew for every check and time; equal tokens; user deleted meanwhile |
| Accounts (`auth_service.go`, `user_repo.go`, `mailer.go`) | table `users`, mails | register, verify e-mail, forgot and reset password, delete user | read-modify-write of whole rows with bcrypt in between; `Save` inserts what it does not find; tokens that are never spent; lost mails |
| Tenant membership (`handlers/tenant.go`, `tenant_repo.go`) | `tenants`, `tenant_members`, `tenant_invitations` | invite, accept, change role, remove, (de)activate | admin check and write apart; accept in three statements with a dropped error; soft-deleted rows under a UNIQUE key; cascades |
| Tenant creation (`tenant_service.go`) | `tenants`, schemas | create | one transaction that always fails: the member is built before the tenant has its id |
| Tenant context (`middleware/tenant.go`, `tenant_resolver.go`) | request context, resolver registry (mutex) | resolve a tenant for a request | claim against header; registering a plugin at run time; schema names that collide |
| Authentication middleware (`middleware/auth.go`) | none | decode the access token, load the user | user deleted or membership withdrawn while the token is valid |
| Roles and permissions (`handlers/admin.go`, `rbac_repo.go`) | `user_roles`, `role_permissions` | assign role, assign permission, delete and list users | permission checked in one statement, used in another |
| Mailer | none | send | blocking, no timeout, errors dropped |
| Life cycle (`main.go`, `postgres.go`) | the process, 25 connections | start, shut down | handlers cut off after ten seconds; pool at its limit |
| Errors, DTOs, config, health, packaging | none or read-only | - | no state to model |

Interactions: `DeleteUser` cascades (by foreign keys) into sessions, owned
tenants, memberships and invitations. `UserRepository.Update` can bring a deleted
user back, but not what the cascade took. Login asks the membership for the
tenant claim of a session; after that the claim is carried from rotation to
rotation. Only `GET /auth/me` runs the tenant middleware.

What makes each part correct:

* sessions: rotation is atomic, a session has one identity, an ended session stays
  ended and ends only by its holder, an expired one begins again by a login only,
  none is left without its user, the reuse of a token is bounded;
* accounts: one account per address, passwords and verifications come from whom
  they should, answers stay true; each write is the entry of one draft that changes
  one thing;
* sessions as a whole: a session is an entry in a ledger that is open until it is
  replaced by one of the same identity or closed, and the transactions taken lock by
  lock still do that; everybody who waits is answered;
* membership: nobody is in a tenant, or an admin of it, without being made so by
  an admin; invitations join as many as they should; removal is final; tenants do
  not touch each other; nothing outlives its parent;
* tenant context: whoever is served for a tenant was entitled to it, a claim is
  never used for another tenant, a resolver that was refused is not taken for
  granted by the next request, and a tenant comes with its owner or not at all;
* roles: authority comes from somebody who has it, whatever happens between check
  and deed, and no role outlives its user.

`PROJECT.json` lists the hazards line by line, with the properties that watch them.

## Plan

Done, each with the proofs of its safety properties:

1. `Sessions`: the rows of `refresh_tokens`, statement by statement.
2. `Accounts`: the rows of `users` and the mails about them.
3. `Membership`: tenants, members, invitations.
4. `SessionLedger`: what a session promises; `Sessions` implements it.
5. `SessionLocks`: the transactions of `Sessions` lock by lock, with connection pool,
   mail server and shutdown; it implements `Sessions`.
6. `Tenancy`: for which tenant a request works, and the creation of tenants.
7. `Rbac`: roles and permissions.
8. `AccountBook`: what an account promises; `Accounts` implements it.
9. `TenantRegister`: users, tenants and who is in which. `Membership` implements it and
   `Tenancy` has it for its surroundings, so that the two fit together.
10. The way of a tenant claim: given by a login (`ClaimsAreEarned` in `Tenancy`),
   carried from rotation to rotation and never changed (`IdentitiesComeFromLogins` in
   `SessionsProofs`), used by a request (`ClaimBinds` in `Tenancy`).
11. What the abstract specifications imply (`PromisesProofs`).

To come:

12. More rows for `SessionLocks` with fairness. With a third row TLC takes too long
    over the liveness properties; for safety the theorems cover it.

How the modules depend on each other:

    SessionLedger  <-- implemented by -- Sessions <-- implemented by -- SessionLocks
    AccountBook    <-- implemented by -- Accounts
    TenantRegister <-- implemented by -- Membership
    TenantRegister <-- surroundings of -- Tenancy
         Sessions, SessionLocks, Accounts, Membership, Tenancy, Rbac:
             <module> <-- EXTENDS -- MC<module>      values for TLC
             <module> <-- EXTENDS -- <module>Proofs  theorems
         SessionLedger, AccountBook <-- PromisesProofs   theorems

## The modules

Every module has one action per statement (or transaction) of a handler, a request
slot per handler in flight, and history variables only where a property has to
remember something. `Begin...` actions do all the reading up to the first write (or
up to the second read, where something can happen in between); the following
actions are the writes. Requests that are refused without having written are
stutters unless they were in flight. `Abort` stands for every way a handler can
stop early: the process dies, the client's context is cancelled, a statement fails.

What a handler reads before its first write is taken to be read at one moment,
unless a property can tell the difference. The middleware's read of the caller is
such a case: a caller who is deleted right afterwards is stopped by a foreign key.

### Sessions

| State | Code |
|---|---|
| `rows` | `refresh_tokens`, `until` being ExpiresAt; `parent` and `by` are history (what was rotated into what, by which slot) |
| `users` | ids of `users`, for the foreign key and its cascade |
| `now` | the clock in seconds; `iat` and `exp` are whole seconds |
| `req` | the locals of a handler: token, row found, the times of the pair it is issued |
| `loggedOut` | history: tokens whose logout was answered with 200 |

Steps: `BeginLogin`, `IssuePair` and `InsertLogin` (Login: checks; pair and new record;
transaction), `BeginRefresh`, `FindForRefresh`, `IssuePair` and `Rotate` (Refresh:
decode; find and check; pair and new record; transaction), `BeginLogout`,
`FindForLogout` and `RevokeRow` (Logout). A token is identified by its claims,
because it has no unique id. Every reading of the clock is one of its own: `exp` against
the clock at `BeginRefresh`, ExpiresAt at `FindForRefresh`, and in `IssuePair` the `exp`
and `iat` of the pair and the ExpiresAt of the new row, any seconds in this order since
the check. So a refresh that passed the check in time may issue a successor after the
expiry; `ExpiredNeedsLogin` says what holds nevertheless. `Save` is modelled by what it does: it writes the whole row, or
inserts it again, which the foreign key allows only while the user exists.

### SessionLedger

The promise, without tokens, clock or statements: entries that are unissued, open or
closed, each with a holder and a right (the tenant claim). A client claims an open
entry and may later replace it by a new entry of the same identity; the old one is
closed in the same step. Closed is for ever, and a holder who leaves closes all.
The mapping (`Ledger` in `Sessions`): an entry is a row, a row is open while it is
active; revoked and deleted rows are closed; a claim is what a refresh holds between
its lookup and its transaction. The ledger says openly what the code allows: a claim
made before its entry was closed still counts once, so a logout may be answered while a
refresh that began earlier goes on to a successor.

### SessionLocks

| State | Code |
|---|---|
| those of `Sessions` | the committed rows |
| `open`, `held` | transactions under way and the row locks they have |
| `doomed` | the token rows that the cascade of a deletion found when it locked the user |
| `mailing` | handlers inside `SendMail`, which has no timeout |
| `phase` | main.go: serving, in `Shutdown`, gone |

A write of `Sessions` becomes `OpenTransaction`, a `Lock` for each row in the order of
the statements, and `Commit`; `CommitDelete` ends a deletion, `Break` and
`BreakDeadlock` roll back. A foreign-key check shares the users row with other checks;
everything else is exclusive. Only the explicit transactions of login and
refresh take one of the pool's connections (`MaxConns`): dbresolver opens pools of its
own, without a limit, for single statements, the revocation of a logout among
them. `Exit` needs no answered requests, because `Shutdown` gives up after ten seconds.

### Accounts

| State | Code |
|---|---|
| `users` | table `users`, reduced to email, password and is_verified |
| `req` | the copy a handler holds between its read and its `Save` |
| `mail` | tokens that reached a mailbox; sending may fail unnoticed |
| `answers`, `opened`, `chosen`, `overlapped`, `spent` | history: what was answered, presented, chosen, written under another's copy, used |

`SaveUser` is `UserRepository.Update`: UPDATE of all columns, or INSERT if there is
no row, refused only by the UNIQUE address. Passwords are abstract; a hash is
modelled by the password. Addresses are the normalised ones (`GetByEmail` and
`Register` both trim and lower them).

### AccountBook

The promise, without tokens, mails, clock or statements: a book of entries, at most one
open entry per holder. To change an open entry an editor takes a draft, which is the
entry with one thing changed, and may enter it once, at any later time; the book then
says what the draft says. The mapping (`Book` in `Accounts`): an entry is a row of
`users`, open while it is stored; a draft is the copy between the read and the `Save`.
Like the ledger, the book says openly what the code allows: a draft overwrites what
others entered since, and opens an entry again that was closed meanwhile.

### Membership

| State | Code |
|---|---|
| `tenants` | `tenants.is_active`, or deleted by the cascade |
| `members` | `tenant_members` by (tenant, user); `via`, `by`, `assigned` are history |
| `invites` | `tenant_invitations` |
| `req` | what a handler holds between its check and its write |
| `lostMarks` | history: invitations whose mark failed, the error being dropped |

The five administrative requests share `BeginAdmin` (the middleware and
`requireTenantAdmin`) and differ in their write. Accepting is `BeginAccept` (read and
checks), `MarkAccepted`, `AddMember`. Tenants are there from the start, because
createTenant never commits; a tenant in the database was put there by other means
(a script or a migration), with its owner as its admin.

### Tenancy

| State | Code |
|---|---|
| `mode` | MULTI_TENANT_MODE |
| `tenants`, `members`, `users` | the tables, as far as these requests read them |
| `registered`, `plugins` | `registeredNames`, and the resolvers gorm really has |
| `tokens` | subject and tenant claim of every pair handed out |
| `req` | which statement a request has before it; `wasMember`, `wasActive` are history |

A request is a course of statements (`Course`): login with a header and `/auth/me`
look for the tenant, the membership and the resolver, `getTenant` for the membership
first, `listMembers` for the membership only. `Chosen` compares claim and header as
the middleware does, as text: a header that names the claim's own tenant by its slug
is refused. `UseAccepts` is false, because gorm refuses a second plugin of one name
and `ConfigureTenantResolver` has registered the first; in schema mode a tenant is
therefore never resolved, by a first request or a later one. `CreateTenant` is the transaction of tenant_service.go in its
order; it always fails at the member, whose tenant id was copied before it was set.
So README.md:100, "Create a new tenant", is wrong for every caller, slug and mode: theorem
`TenantsAreNotCreated`.
What other routes do to the tables is `OtherRoutes`: a step of `TenantRegister`.

### TenantRegister

Users, tenants and pairs of both, and what may happen to them: somebody who is there
joins a tenant that is there, or leaves it; a tenant is switched on or off; a user
departs with the tenants it owns and all their members, and may return without them.
`Membership` is shown to keep it (`KeepsRegister`: a removed or deleted member leaves,
an accepted invitation joins, everything else is a stutter), so what `Tenancy` takes for
its surroundings is what the other routes do, and no more is assumed than they do.

### Rbac

| State | Code |
|---|---|
| `userRoles`, `rolePerms`, `users` | `user_roles`, `role_permissions`, ids of `users` |
| `req` | the route, what it is about, its caller; `wasEntitled` is history |

`Begin` is the middleware's read of the caller, `Check` the permission, then comes the
deed. `Look` stands for the six routes that only read. There is no route that takes a
role or permission back: README.md:93 lists `DELETE /api/v1/admin/users/{id}/roles`,
"Remove role from user", but admin.go:25-37 does not register it, so the model has no
such action, and no property takes its absence for a virtue.

## The runs

All bounds are constants of the .cfg files. Two request slots are enough for every
race between two handlers, and every race found so far is one of two. Times run
one step past the expiry where a property is about time, and stand still otherwise.
The bounds on rows stop new handlers from starting, they never cut a handler off.

| Run | Bounds | Distinct states | What it shows |
|---|---|---|---|
| `sessions` | 1 user, 2 tenant claims, 3 rows, 2 slots, 3 seconds, lifetime 1 | 1,276,000 | rotation is atomic; each slot makes at most one successor of a row; after the expiry only a login begins a session; logout ends a token stored once; what ended stays ended; sessions keep identity and owner and end only by their holder or with their user; when all of an identity have ended only a login begins one |
| `sessions_live` | 1 user, 1 claim, 2 rows, 2 slots, 1 connection, 1 mail, fairness | 62,000 | lock by lock the transactions implement `Sessions` and the ledger; a deadlock is a refresh against the deletion of its user; every request ends; so does a shutdown |
| `accounts` | 1 address, 2 ids, 2 passwords, 2 slots, 2 seconds | 971,000 | one account per address; verified means mailed; passwords are chosen for the account; answers hold unless handlers overlapped; the whole implements `AccountBook` |
| `membership_joins` | 1 tenant, 3 users, 2 roles, 1 invitation, 2 slots | 1,077,000 | each slot joins one user per invitation; members were invited; cascades leave nothing; removal is final; roles and authority come from admins only; all of it keeps `TenantRegister` |
| `membership_isolation` | 2 tenants, 2 users, 1 role, 1 invitation that expires, 2 slots | 804,000 | an invitation of one tenant brings nobody into the other; a request for one leaves the other alone |
| `tenancy` | 2 tenants, 2 users, both modes, 1 slot | 542,000 | who is served was entitled; claims are earned and bind; schema mode lets nobody through, at a second try neither; a tenant comes with its owner or not at all |
| `rbac` | 2 users, 2 roles, 3 permissions, 2 slots | 169,000 | actors were entitled; roles have owners; authority is given |

State counts are those TLC reports, after reduction by symmetry where a run has it.

Three rows are a login and two rotations, or two rotations of one row; two slots
rotating one row and one of them doing it again is the case `OneSuccessorPerSlot`
excludes. Two user ids allow an address to be registered again after a deletion
and a stale copy of the first account to be saved after it. One invitation is
enough for a race on it; three users are the owner and two who join. `MembersWereInvited`
is checked twice: in `membership_joins` for the role, which takes two roles, and in
`membership_isolation` for the tenant, which takes two tenants. Users of `Sessions`
and addresses of `Accounts` meet only in what is compared by id or address, so that the
run has one of each; the theorems are about any number.

In `sessions_live` the pool has one connection, so that two transactions compete for
it, and two rows are a login and its rotation, with two handlers that lock the same
row (a refresh and a logout) and the deletion of the user that locks in the other
order. Two refreshes of one token would take a third row: their waiting for each other
is covered by the theorems `LocksImplementSessions` and `DeadlocksTakeDeletion`, and
what they leave behind is checked in `sessions`. The clock stands still: expiry
decides only whether a refresh goes on to write. In `tenancy` one slot is enough:
no request there reads what another slot writes except through the tables, and their
changes come between its statements as steps of their own; creation is
two-sided only in the UNIQUE slug, which `Exists` decides. In `rbac` two slots are a
deed and the deletion of its doer, or two managers deleting each other.

Five runs state what the code's answers or README promise and find it broken:

| Run | Promise | What happens |
|---|---|---|
| `sessions_logout` | README.md:80, logout "invalidates refresh token" | two logins in one second store one token twice; logout revokes one row |
| `accounts_answers_stick` | admin.go:161 "User deleted.", handlers/auth.go:148 and 122 | the `Save` of a verify-email request under way inserts the deleted user again (a reset does so too, and either may write an old hash or flag back) |
| `accounts_one_time` | README.md:11 "one-time tokens" | a reset token works again |
| `membership_one_invitation` | tenant.go:344 "... already accepted." | two users join by one invitation |
| `tenancy_schema` | README.md:14 and 155, a schema for each tenant by `MULTI_TENANT_MODE` | gorm refuses the resolver; the owner of the tenant cannot log in for it |

Beside four of them a passing property says what does hold:
`LogoutEndsUniqueToken` beside `LogoutInvalidates`, `KeptUnlessOverlapped` beside
`AnswersStick`, `OneJoinPerSlot` beside `InvitationJoinsOne`, `SchemaModeFailsClosed`
beside `SchemaModeServes`.

Definitions with an underscore in their name (`AfterRotate_NoRevoke`) are mutants:
the same definition with a plausible bug, by which each property was seen to fail.

Deadlock is checked in all runs; slots, deletion and restoration keep the models
moving. Symmetry is used over users, slots, tenants, passwords and addresses where they are
interchangeable, and neither in the liveness run nor in `tenancy`.

### Fairness

`FairLockSpec` assumes, and the code and its environment justify:

* strong fairness of `Step(a)`, the next statement of a request that is under way.
  net/http runs each request in a goroutine of its own and the Go scheduler is fair;
  PostgreSQL grants a lock to those who wait in the order they came; database/sql
  hands a free connection to one of those who wait at random. So a request that could
  go on again and again does so one day. Weak fairness would not do: a lock or
  the only connection can be taken by others between any two chances;
* weak fairness of `BreakDeadlock`: PostgreSQL looks for a cycle after
  `deadlock_timeout`;
* weak fairness of `Exit`: the context given to `Shutdown` ends after ten seconds;
* weak fairness of `MailEnds` once the process is ending: its connections close.

Nothing is assumed of the mail server, of clients, of the clock, of SIGTERM or of
somebody who starts the server again. `EveryRequestEnds` and `ShutdownEnds` are about
what is under way: it does not stay so for ever. A handler that waits for a silent mail
server may, and `EveryRequestEnds` says that nobody else waits with it.

## The proofs

Seven modules (`SessionsProofs`, `SessionLocksProofs`, `AccountsProofs`,
`MembershipProofs`, `TenancyProofs`, `RbacProofs`, `PromisesProofs`) prove every safety and action
property of the passing runs, and all four refinements, for every value of the
constants. They also prove `TypeOK` of every module; the runs of `Sessions`,
`Accounts`, `Tenancy` and `Rbac` leave it out, because it says less than what they check.
The assumptions are those the modules name: bounds are natural numbers and the
pool has a connection; users, requests and rows are different things
(`ActorsAreApart`); every tenant has an owner among the users; the admin roles are
roles; roles and permissions start with rows of the right tables; no tenant is
called "no tenant". Nothing is assumed finite, so the theorems hold for any number
of users, tenants, rows and slots, except that `ReuseIsCounted` and `JoinsAreCounted`,
which count, are about finitely many slots.

The argument is the same everywhere: a handler acts on what it read some
statements ago, so a property of the tables alone is not inductive. `IndInv` says
what remains true of the things a handler read:

* `Sessions`: a handler about to write holds a stored row with the token it was
  given; the slot has not rotated this row before; a logged-out
  token has a spent row. Atomic rotation and owners are inductive with the types;
  bounded reuse needs `RotatesOnce`; identity and ending
  by the holder need `HandlerKnowsRow`; logout needs `LoggedOutIsSpent`. Mapping each
  successor of a row to the slot that made it is an injection, so there are no more of
  them than slots (`ReuseIsCounted`). `IdentitiesComeFromLogins` takes any set G of
  subjects with claims, and shows that if the logins stay in G so does every token.
  `OnlyLoginBegins` and `ExpiredNeedsLogin` need no more than what a step can insert
  (`RowsStep`, `ActiveRowStep`) and who can be about to (`WritersStep`, `LoginsStep`,
  `AdmittedStep`); the second also that a row's ExpiresAt never moves and the clock
  never goes back.
* `Accounts`: a copy has the address of its row and values that were asked for
  (`CopyIsGrounded`), and differs from the row only in its own column while nobody
  else has written the row (`CopyIsFresh`). The first gives uniqueness of addresses,
  `VerifiedByMail` and `PasswordWasChosen`; the second `KeptUnlessOverlapped`.
* `AccountBook`: a copy is taken from a stored row of the same address, so that the
  draft it is stays the draft of one entry, whose holder never changes; `SaveUser` is
  then `Enter`, for which the UNIQUE address is `IsFree`. `AccountsKeepBook` has one
  lemma per kind of step.
* `Membership`: a join under way is one its invitation allows (`JoinIsInvited`), by
  an invitation nobody can begin to accept again (`JoinIsMarked`), and its slot has
  not joined anyone by it (`JoinsOnce`), which bounds the joins by the slots
  (`JoinsAreCounted`). `AuthorityIsGiven` and `TenantsStayApart`
  split a step by what it does to one member, one invitation and one request
  (`MemberStep`, `InviteStep`, `RequestStep`).
  `MembershipKeepsRegister` sees the member rows as pairs: only `AddMember`,
  `RemoveMember` and the cascade change one, a role update does not.
* `SessionLocks` (`LockInv`): two transactions hold no conflicting locks; a locked
  user is there; the rows a deletion is about to remove are all its user has, because
  an insert would need the users row that the deletion holds; a request locks its own
  token row at most, and that before the users row, which it locks last. So each commit
  is a step of `Sessions` and everything before it a stutter (`LocksImplementSessions`).
  A request that holds a users row has all it needs (`UserHolderGoesOn`), so where
  everybody waits there is a deletion (`StuckHasDeletion`); it has its users row
  already, waits for a token row, and the refresh that holds this one waits for the
  users row (`DeadlocksTakeDeletion`). `StandstillIsDeadlock` has no run: it says that
  when all open transactions wait, the database has a cycle to find, even if they were
  infinitely many, where a line of waiting transactions needs no cycle.
* `SessionLedger`: by `HandlerKnowsRow` the row a refresh found is still the one its
  claim names, so `Rotate` is `Renew`, and `Save` of a row that the cascade has taken
  is refused with its user gone. `SessionsKeepLedger` has one lemma per kind of step;
  with the refinement above it gives `LocksKeepLedger`; `LocksKeepEnds` carries the
  action properties of `Sessions` over in the same way.
* `PromisesProofs` shows that the abstract specifications say what they are meant to:
  in the ledger an open entry has its holder and a closed one is closed for ever; in
  the book a holder has one open entry and an entry one holder. Each follows from what
  a step makes of one entry (`EntryStep`, `BookStep`), and holds of the code by the
  refinements.
* `Tenancy` (`RequestInv`): what a request has passed was true at some time since it
  began; the claim it came with is that of a token that was handed out. Two theorems are
  about faults: `SchemaModeIsClosed` says that a request which needs a resolver is never
  served, because gorm refuses every resolver (`SchemaClosed`), and
  `TenantsAreNotCreated` that no creation succeeds, because the new member has the nil
  UUID. The other proofs use neither, and stay true when those faults are repaired.
  `RegisterIsSound` adds the creation of tenants to the routes of `TenantRegister`:
  still no member without tenant and user.
* `Rbac` (`EntitlementIsSeen`): a caller who has the permission now has been seen to
  have it, so that passing the check records it. For `AuthorityIsGiven`, a permission
  that appears was assigned by a request past its check, which is a source of it.

Each proof has one step per action; the temporal theorems combine these by PTL.
TLC checks `IndInv` in `sessions`, `accounts` and `membership_joins`, where it is proved
as `HandlersKnowTheirRows`, `CopiesAreKnown` and `JoinsAreBound`. Proved only are
`AddressIsKept` (an id keeps its address: with one address no run can break it),
`StandstillIsSeen`, `CopiesAreFew` and `JoinersAreFew` (what two slots show is
`OneSuccessorPerSlot` and `OneJoinPerSlot`), `IdentitiesIn` (a statement about every
set), `MembersAreThere` and `CreationNeverSucceeds` (beside `TenantComesWithOwner`,
which is about the rollback: this one is about what it means for the caller).

Only model-checked: `EveryRequestEnds` and `ShutdownEnds` (liveness under fairness, like
anything with ENABLED, is beyond the proof system), and the violations, which are
counterexamples. No module declares a RECURSIVE operator, and nothing here needs
induction over data, which the provers cannot do either. The refinements are of
safety: the abstract specifications promise no progress.

## Not modelled, and why

* Cryptography: signatures and hashes are ideal, a token is its claims.
* `is_active` of users: nothing in the server ever clears it.
* Names and other columns that no property is about.
* Routes that only read, beyond those whose answer depends on who may see it
  (`Tenancy`, `Look` in `Rbac`): they change nothing.
* The answers of updateTenant and of a role update. The first commits a deactivation
  and then answers with an error, because `GetByID` finds active tenants only; the
  second answers success for somebody who is no longer a member. Their writes are
  modelled; no document says what these answers promise.
* The letters of a slug. "a-b" and "a_b" have one schema name, but as no resolver can be
  registered, no request reaches a schema, shared or not; `tenancy` gives each tenant
  its own, and `tenancy_schema` shows what README.md:155 promises and nobody gets.
* The documents about who may list users: README.md:91 asks for `super_admin`,
  the code for `users.read`, which the migrations give to the role `user`. Permissions
  are modelled, names of roles are not.
* Configuration (read once at start; its values are constants), DTOs and errors (shapes
  and validation), health check (a ping), the tables of one-time tokens (no code uses
  them), packaging and scripts.
* A statement or transaction that is not split into locks (all but those of
  `SessionLocks`) is atomic. At PostgreSQL's default level, READ COMMITTED, this is
  right where it writes rows by key and reads no others; a deletion in `Accounts`,
  `Membership` and `Rbac` relies on the foreign keys, whose locks work as in
  `SessionLocks`.
