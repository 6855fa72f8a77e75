------------------------------ MODULE Sessions ------------------------------
(***************************************************************************)
(* Refresh-token sessions: AuthService.Login, Refresh and Logout over the  *)
(* refresh_tokens table.  Handlers run in goroutines of their own and      *)
(* share nothing but the database, so a request is a few steps, one per    *)
(* SQL statement or transaction, and the steps of different requests       *)
(* interleave.  A request that is refused before it writes (bad token,     *)
(* wrong password, no membership) changes nothing: where the refusal needs *)
(* no state read in an earlier step it is no step at all.                  *)
(*                                                                         *)
(* A JWT is identified by its claims.  createToken puts the subject, the   *)
(* tenant claim, the type and two times cut to whole seconds in it and no  *)
(* unique id, so two refresh tokens with equal claims are the same string  *)
(* and have the same SHA-256 hash: token_hash is modelled by the token.    *)
(***************************************************************************)
EXTENDS Naturals, FiniteSets

CONSTANTS
  Users,       \* values of users.id
  Scopes,      \* values of the tenant_id claim; "no claim" is one of them
  Requests,    \* request slots: how many handlers can be in flight together
  MaxRow,      \* bound: refresh_tokens rows ever inserted
  MaxTime,     \* bound: seconds the clock runs
  RefreshTTL   \* JWT_REFRESH_EXPIRE_DAYS, in seconds of the model

ASSUME BoundsAreNat == MaxRow \in Nat /\ MaxTime \in Nat /\ RefreshTTL \in Nat

VARIABLES
  now,         \* the wall clock, in whole seconds
  users,       \* ids present in the users table
  rows,        \* the refresh_tokens table, by primary key
  req,         \* request slot -> what its handler has read so far
  loggedOut    \* history: refresh tokens whose logout was answered with 200

vars == <<now, users, rows, req, loggedOut>>

-----------------------------------------------------------------------------
RowIds == 1..MaxRow
Token  == [sub: Users, scope: Scopes, iat: Nat, exp: Nat]

\* A row of refresh_tokens; until is ExpiresAt.  "deleted" keeps the id of a row
\* removed by the cascade, because a UUID is never drawn twice.  parent and by are
\* history: the row rotated into this one and the slot that did it (0 if a login did).
Row   == [status: {"active", "revoked", "deleted"}, token: Token, until: Nat,
          parent: RowIds \cup {0}, by: Requests \cup {0}]
NoRow == [status |-> "unused"]

\* token is what the handler was given, or for a login the identity it found; at is
\* when it was let through to issue a pair, and then the iat of that pair, whose exp
\* and ExpiresAt are exp and until.
Idle == [pc |-> "idle"]
Busy == [pc: {"login", "insert", "findRefresh", "refresh", "rotate", "findLogout", "revoke"},
         token: Token, row: RowIds \cup {0}, at: Nat, exp: Nat, until: Nat]

Unused == {i \in RowIds : rows[i].status = "unused"}
Stored == {i \in RowIds : rows[i].status # "unused"}

\* Mutants of ActiveRows: revoked_at IS NULL or token_hash left out of the query.
ActiveRows_AnyStatus(t) == {i \in Stored : rows[i].token = t}
ActiveRows_AnyToken(t) == {i \in RowIds : rows[i].status = "active" /\ rows[i].token.sub = t.sub}

\* FindActiveByHash: token_hash, user_id and revoked_at IS NULL.  The subject
\* is part of the token, so the user_id condition adds nothing.
ActiveRows(t) == {i \in RowIds : rows[i].status = "active" /\ rows[i].token = t}

\* First() orders by primary key.
First(S) == CHOOSE i \in S : \A j \in S : i <= j

\* What any client may hold: a token is handed out when its row is committed.
HandedOut == {rows[i].token : i \in Stored}

\* Mutant: the claim does not come from the token (with two scopes: it is the other).
Issued_OtherScope(q) ==
  [sub |-> req[q].token.sub, scope |-> CHOOSE s \in Scopes : s # req[q].token.scope,
   iat |-> req[q].at, exp |-> req[q].exp]

\* The refresh token of the pair: subject and tenant claim carried over.
Issued(q) == [req[q].token EXCEPT !.iat = req[q].at, !.exp = req[q].exp]

\* The row of the pair that q was issued, rotated out of row p.
NewRow(q, p) == [status |-> "active", token |-> Issued(q), until |-> req[q].until,
                 parent |-> p, by |-> IF p = 0 THEN 0 ELSE q]

\* The bound MaxRow: a handler that may insert starts only if an id is left.
RoomForInsert ==
  Cardinality({q \in Requests : req[q].pc \in {"login", "insert", "findRefresh", "refresh", "rotate"}})
    < Cardinality(Unused)

\* Mutant: no foreign key on refresh_tokens.user_id.
OwnerExists_NoForeignKey(q) == TRUE

\* The foreign key refuses to store a row for a user that is gone.
OwnerExists(q) == req[q].token.sub \in users

Finish(q) == req' = [req EXCEPT ![q] = Idle]

-----------------------------------------------------------------------------
\* A handler goes to work on token t, or row i of it; the pair is still to come.
Handling(pc, t, i, at) ==
  [pc |-> pc, token |-> t, row |-> i, at |-> at, exp |-> 0, until |-> 0]

\* Login: GetByEmail, the password and ResolveForUser succeeded for u and the
\* tenant header.
BeginLogin(q, u, s) ==
  /\ req[q] = Idle
  /\ u \in users
  /\ RoomForInsert
  /\ req' = [req EXCEPT ![q] =
       Handling("login", [sub |-> u, scope |-> s, iat |-> 0, exp |-> 0], 0, now)]
  /\ UNCHANGED <<now, users, rows, loggedOut>>

\* The handler has its pair, with the clock read at e for exp and at i for iat.
WithPair(q, e, i) ==
  [req[q] EXCEPT !.pc = IF @ = "login" THEN "insert" ELSE "rotate",
                 !.at = i, !.exp = e + RefreshTTL, !.until = now + RefreshTTL]

\* IssueTokenPair and the new record, for Login and Refresh.  createToken reads the
\* clock for exp and again for iat, and ExpiresAt is a third reading: any seconds
\* in this order since the handler's last check.
IssuePair(q) ==
  /\ req[q].pc \in {"login", "refresh"}
  /\ \E e \in req[q].at..now : \E i \in e..now :
       req' = [req EXCEPT ![q] = WithPair(q, e, i)]
  /\ UNCHANGED <<now, users, rows, loggedOut>>

\* CreateWithTx.  If the user was deleted meanwhile it fails: 500.
InsertLogin(q) ==
  /\ req[q].pc = "insert"
  /\ \/ /\ OwnerExists(q)
        /\ \E n \in Unused : rows' = [rows EXCEPT ![n] = NewRow(q, 0)]
     \/ /\ ~OwnerExists(q)
        /\ UNCHANGED rows
  /\ Finish(q)
  /\ UNCHANGED <<now, users, loggedOut>>

\* Refresh and Logout first Decode the presented token, which checks exp.
Present(q, t, pc) ==
  /\ req[q] = Idle
  /\ t \in HandedOut
  /\ now < t.exp
  /\ req' = [req EXCEPT ![q] = Handling(pc, t, 0, 0)]
  /\ UNCHANGED <<now, users, rows, loggedOut>>

BeginRefresh(q, t) == RoomForInsert /\ Present(q, t, "findRefresh")
BeginLogout(q, t)  == Present(q, t, "findLogout")

\* Mutant: the row's ExpiresAt is not compared with the clock.
InTime_Unchecked(i) == TRUE

InTime(i) == now <= rows[i].until

\* FindActiveByHash and the check of ExpiresAt.  The seconds are cut off fractions
\* in the model, so within the second of ExpiresAt either answer is possible.  The
\* check reads nothing else that changes: made later it only refuses more.  Not
\* found or expired: 401.
FindForRefresh(q) ==
  LET t == req[q].token
      found == ActiveRows(t)
  IN /\ req[q].pc = "findRefresh"
     /\ \/ /\ found # {}
           /\ InTime(First(found))
           /\ req' = [req EXCEPT ![q] = Handling("refresh", t, First(found), now)]
        \/ /\ found # {} => rows[First(found)].until <= now
           /\ Finish(q)
     /\ UNCHANGED <<now, users, rows, loggedOut>>

\* Mutants of AfterRotate: RevokeWithTx left out; RevokedAt never set on the copy.
AfterRotate_NoRevoke(q, n) == [rows EXCEPT ![n] = NewRow(q, req[q].row)]
AfterRotate_StaleSave(q, n) ==
  [rows EXCEPT ![req[q].row].status = "active", ![n] = NewRow(q, req[q].row)]

\* RevokeWithTx and CreateWithTx.  gorm's Save writes every column of the row
\* read before and, should the row have been deleted, inserts it again.
AfterRotate(q, n) ==
  [rows EXCEPT ![req[q].row].status = "revoked", ![n] = NewRow(q, req[q].row)]

\* One transaction; if the user is gone the foreign key rolls it back.
Rotate(q) ==
  /\ req[q].pc = "rotate"
  /\ \/ /\ OwnerExists(q)
        /\ \E n \in Unused : rows' = AfterRotate(q, n)
     \/ /\ ~OwnerExists(q)
        /\ UNCHANGED rows
  /\ Finish(q)
  /\ UNCHANGED <<now, users, loggedOut>>

\* Logout's FindActiveByHash.  Not found: 401.
FindForLogout(q) ==
  LET found == ActiveRows(req[q].token)
  IN /\ req[q].pc = "findLogout"
     /\ \/ /\ found # {}
           /\ req' = [req EXCEPT ![q].pc = "revoke", ![q].row = First(found)]
        \/ /\ found = {}
           /\ Finish(q)
     /\ UNCHANGED <<now, users, rows, loggedOut>>

\* Mutants of AfterRevoke: nothing is saved; every session of the user is ended.
AfterRevoke_NoSave(q) == rows
AfterRevoke_AllOfUser(q) ==
  [i \in RowIds |-> IF rows[i].status = "active" /\ rows[i].token.sub = req[q].token.sub
                    THEN [rows[i] EXCEPT !.status = "revoked"] ELSE rows[i]]

AfterRevoke(q) == [rows EXCEPT ![req[q].row].status = "revoked"]

\* Revoke: Save again, of the one row found.
RevokeRow(q) ==
  /\ req[q].pc = "revoke"
  /\ \/ /\ OwnerExists(q)
        /\ rows' = AfterRevoke(q)
        /\ loggedOut' = loggedOut \cup {req[q].token}
     \/ /\ ~OwnerExists(q)
        /\ UNCHANGED <<rows, loggedOut>>
  /\ Finish(q)
  /\ UNCHANGED <<now, users>>

\* The server dies, the client goes away (its context cancels the next
\* statement) or the database reports an error: nothing more is written.
Abort(q) ==
  /\ req[q] # Idle
  /\ Finish(q)
  /\ UNCHANGED <<now, users, rows, loggedOut>>

\* AdminHandler.DeleteUser; ON DELETE CASCADE takes the user's rows with it.
DeleteUser(u) ==
  /\ u \in users
  /\ users' = users \ {u}
  /\ rows' = [i \in RowIds |->
                IF rows[i].status \in {"active", "revoked"} /\ rows[i].token.sub = u
                THEN [rows[i] EXCEPT !.status = "deleted"] ELSE rows[i]]
  /\ UNCHANGED <<now, req, loggedOut>>

\* UserRepository.Update of a verify-email or reset-password request that read
\* the user before the deletion: Save inserts the row again (module Accounts).
RestoreUser(u) ==
  /\ u \in Users \ users
  /\ users' = users \cup {u}
  /\ UNCHANGED <<now, rows, req, loggedOut>>

Tick ==
  /\ now < MaxTime
  /\ now' = now + 1
  /\ UNCHANGED <<users, rows, req, loggedOut>>

-----------------------------------------------------------------------------
Init ==
  /\ now = 0
  /\ users = Users
  /\ rows = [i \in RowIds |-> NoRow]
  /\ req = [q \in Requests |-> Idle]
  /\ loggedOut = {}

\* The steps the server takes on its own once a request has arrived.
Advance(q) ==
  \/ IssuePair(q)
  \/ InsertLogin(q)
  \/ FindForRefresh(q)
  \/ Rotate(q)
  \/ FindForLogout(q)
  \/ RevokeRow(q)

Next ==
  \/ \E q \in Requests :
       \/ \E u \in Users, s \in Scopes : BeginLogin(q, u, s)
       \/ \E t \in HandedOut : BeginRefresh(q, t)
       \/ \E t \in HandedOut : BeginLogout(q, t)
       \/ Advance(q)
       \/ Abort(q)
  \/ \E u \in Users : DeleteUser(u) \/ RestoreUser(u)
  \/ Tick

Spec == Init /\ [][Next]_vars

-----------------------------------------------------------------------------
\* Every variable has the shape its declaration says.
TypeOK ==
  /\ now \in Nat
  /\ users \subseteq Users
  /\ rows \in [RowIds -> Row \cup {NoRow}]
  /\ req \in [Requests -> Busy \cup {Idle}]
  /\ loggedOut \subseteq Token

\* Rotation is all or nothing: a row that was rotated into another one is no
\* longer active, whatever was interrupted, deleted or restored in between
\* (Refresh revokes and creates in one transaction).
RotatedIsSpent ==
  \A i \in Stored : rows[i].parent # 0 => rows[rows[i].parent].status \in {"revoked", "deleted"}

\* Refresh checks the row before its transaction and not inside it, so two
\* requests can rotate the same row.  The damage is bounded by the handlers that
\* were in flight together: no slot ever gets a second successor out of a row.
OneSuccessorPerSlot ==
  \A i, j \in Stored :
    (i # j /\ rows[i].parent # 0 /\ rows[i].parent = rows[j].parent) => rows[i].by # rows[j].by

\* A session keeps its subject and its tenant claim through every rotation.
SessionKeepsIdentity ==
  \A i \in Stored : rows[i].parent # 0 =>
    LET p == rows[rows[i].parent] IN
      rows[i].token.sub = p.token.sub /\ rows[i].token.scope = p.token.scope

\* No session outlives its account: a login or refresh that is under way when
\* the user is deleted leaves no row behind.
SessionsHaveOwners ==
  \A i \in RowIds : rows[i].status \in {"active", "revoked"} => rows[i].token.sub \in users

\* Logout works for a token that was issued once: a logged-out token has an
\* active row only if a second row was stored under the same token.
LogoutEndsUniqueToken ==
  \A t \in loggedOut : \A i \in ActiveRows(t) :
    \E j \in Stored : j # i /\ rows[j].token = t

\* What every step preserves.  A handler past its lookup holds a stored row with
\* the token it was given, and has not rotated that row before; a token that was
\* logged out has a row that is not active.
HandlerKnowsRow ==
  \A q \in Requests : req[q].pc \in {"refresh", "rotate", "revoke"} =>
    req[q].row \in Stored /\ rows[req[q].row].token = req[q].token
RotatesOnce ==
  \A q \in Requests : \A i \in Stored :
    (req[q].pc \in {"refresh", "rotate"} /\ rows[i].parent = req[q].row) => rows[i].by # q
LoggedOutIsSpent ==
  \A t \in loggedOut : \E i \in RowIds :
    rows[i].status \in {"revoked", "deleted"} /\ rows[i].token = t

\* The inductive invariant behind the safety properties above: the facts a
\* handler read before its last statement still hold when it writes, whatever
\* the other handlers did in between.
IndInv == HandlerKnowsRow /\ RotatesOnce /\ LoggedOutIsSpent

\* A session that has ended, by rotation, logout or the deletion of its user,
\* never becomes active again, not even through a Save of a stale copy.
EndedForGood ==
  [][\A i \in RowIds : rows[i].status \in {"revoked", "deleted"} => rows'[i].status # "active"]_vars

\* The sessions are a ledger (SessionLedger): a row is an entry, open while it is
\* active, and a refresh holds a claim from its lookup to its transaction.
EntryOf(i) ==
  IF i \in Unused THEN [state |-> "unissued"]
  ELSE [state |-> IF rows[i].status = "active" THEN "open" ELSE "closed",
        holder |-> rows[i].token.sub, right |-> rows[i].token.scope]
ClaimOf(q) == IF req[q].pc \in {"refresh", "rotate"} THEN req[q].row ELSE 0

Ledger == INSTANCE SessionLedger WITH
  Entries <- RowIds, Holders <- Users, Rights <- Scopes, Clients <- Requests, Nobody <- 0,
  present <- users, ledger <- [i \in RowIds |-> EntryOf(i)], claim <- [q \in Requests |-> ClaimOf(q)]

\* Sessions keep the ledger: a session that goes on after a logout, a rotation or a
\* deletion does so only through a refresh that had found its row active before,
\* once, under its own identity (Logout racing Refresh over one token).
KeepsLedger == Ledger!LedgerSpec

\* A session ends only at the hands of a request that presented its own token,
\* or with its user: logging out one device leaves the others alone.
EndedByHolderOnly ==
  [][\A i \in RowIds :
       (rows[i].status = "active" /\ rows'[i].status # "active") =>
         \/ rows[i].token.sub \notin users'
         \/ \E q \in Requests : req[q] # Idle /\ req'[q] = Idle /\ req[q].token = rows[i].token]_vars

\* Who a token speaks for, and with which tenant claim.
Identity(t) == <<t.sub, t.scope>>

\* No request of u with the claim s is past the check that lets it make a session.
NoneAdmitted(u, s) ==
  \A q \in Requests :
    req[q].pc \in {"login", "insert", "refresh", "rotate"} => Identity(req[q].token) # <<u, s>>

\* u has no session with the claim s, and nothing under way that makes one.
NoSession(u, s) ==
  /\ NoneAdmitted(u, s)
  /\ \A i \in RowIds : rows[i].status = "active" => Identity(rows[i].token) # <<u, s>>

\* Once all sessions of an identity have ended, and the refreshes and logins that came
\* before are through, none comes back but by a new login: not by an old token, a
\* request that waited, a stale Save or the return of the user (Refresh, Logout).
OnlyLoginBegins ==
  [][\A u \in Users, s \in Scopes :
       NoSession(u, s) => (NoSession(u, s)' \/ \E q \in Requests : BeginLogin(q, u, s))]_vars

\* The same, of sessions whose rows are active but have expired.
NoLiveSession(u, s) ==
  /\ NoneAdmitted(u, s)
  /\ \A i \in RowIds :
       (rows[i].status = "active" /\ now <= rows[i].until) => Identity(rows[i].token) # <<u, s>>

\* Expiry ends a session as logout does: when the rows of an identity have expired
\* one after the other and the refreshes that passed the check in time are through,
\* a refresh that still waits with a token decoded before is refused, and only a
\* login begins again.  (One that has passed the check may issue its successor
\* seconds later, after the expiry: the clock is read anew for it.)
ExpiredNeedsLogin ==
  [][\A u \in Users, s \in Scopes :
       NoLiveSession(u, s) => (NoLiveSession(u, s)' \/ \E q \in Requests : BeginLogin(q, u, s))]_vars

-----------------------------------------------------------------------------
\* README.md:80 says of logout that it "invalidates refresh token": once it was
\* answered with 200 no active row is left under the token.
LogoutInvalidates == \A t \in loggedOut : ActiveRows(t) = {}
=============================================================================
