---------------------------- MODULE SessionLocks ----------------------------
(***************************************************************************)
(* The writes of module Sessions seen one lock at a time.  There a write   *)
(* is one atomic step; here a login, refresh, logout or deletion opens a   *)
(* transaction, takes PostgreSQL's row locks in the order its statements   *)
(* need them, waits where another holds them, and commits or is broken     *)
(* off.  The question is whether these transactions still do what Sessions *)
(* says, and whether everybody who waits is answered in the end: locks can *)
(* form a cycle, connections can run out, a mail server can be silent and  *)
(* the server can be told to stop.                                         *)
(*                                                                         *)
(* A foreign-key check locks the users row in a mode it shares with other  *)
(* checks; deleting the row and writing a token row are exclusive.         *)
(* ConfigureTenantResolver gives gorm connections of its own for single    *)
(* statements, without a limit; only an explicit Transaction runs over the *)
(* pool that Connect limits to 25 (MaxConns).                              *)
(***************************************************************************)
EXTENDS Sessions

CONSTANTS
  MaxConns,    \* SetMaxOpenConns
  MaxMail      \* bound: handlers that wait for the mail server together

ASSUME PoolIsUsable == MaxConns \in Nat \ {0} /\ MaxMail \in Nat
ASSUME ActorsAreApart == Users \cap Requests = {} /\ Users \cap RowIds = {}

VARIABLES
  open,        \* actors with an open transaction
  held,        \* actor -> rows it has locked
  doomed,      \* user -> token rows the cascade of its deletion found
  mailing,     \* handlers of register and forgot-password inside SendMail
  phase        \* of the server: "up", "draining" or "exiting"

lockVars == <<open, held, doomed, mailing, phase>>
allVars  == <<vars, lockVars>>

-----------------------------------------------------------------------------
\* The request that deletes user u is named u; a lock is named by its row.
Actors == Requests \cup Users
Writes == {"insert", "rotate", "revoke"}

RowsOf(u) == {i \in RowIds : rows[i].status \in {"active", "revoked"} /\ rows[i].token.sub = u}

\* Mutant: Logout revokes every session of the user, one row after the other.
RequestLocks_AllOfUser(q) ==
  LET own == IF req[q].pc \in {"rotate", "revoke"} THEN RowsOf(req[q].token.sub) ELSE {}
  IN IF own \subseteq held[q] THEN {req[q].token.sub} ELSE own

\* The locks the next statement of a transaction takes.  Save updates the token
\* row; if that is gone it inserts, and an insert has its foreign key checked.
RequestLocks(q) ==
  LET row == IF req[q].pc \in {"rotate", "revoke"} THEN {req[q].row} ELSE {}
      inserts == req[q].pc # "revoke" \/ rows[req[q].row].status = "deleted"
  IN IF ~(row \subseteq held[q]) THEN row ELSE {u \in {req[q].token.sub} : inserts}

\* DELETE locks the users row and then, one by one, the rows of the cascade.
DeleteLocks(u) == IF u \notin held[u] THEN {u} ELSE doomed[u]

NextLocks(a) == (IF a \in Users THEN DeleteLocks(a) ELSE RequestLocks(a)) \ held[a]

\* Mutant: the foreign-key check takes no lock.
Conflict_RowsOnly(l, a, b) == l \in RowIds

\* Whether a must wait for b's lock on l: two requests share a users row.
Conflict(l, a, b) == l \in RowIds \/ a \in Users \/ b \in Users

Blockers(a, l) == {b \in Actors \ {a} : l \in held[b] /\ Conflict(l, a, b)}
WaitsFor(a)    == UNION {Blockers(a, l) : l \in NextLocks(a)}

\* Transactions that wait for each other in a circle.
Waiting   == {a \in open : WaitsFor(a) # {}}
Deadlocks == {S \in SUBSET Waiting :
                S # {} /\ \A a \in S : WaitsFor(a) \cap S # {} /\ \E b \in S : a \in WaitsFor(b)}

\* Mutant: the mail is sent inside a transaction.
Connections_Mail == Cardinality({q \in open \cap Requests : req[q].pc # "revoke"}) + mailing

\* Connections in use: of the pool, by logins and refreshes.  SendMail has none.
Connections == Cardinality({q \in open \cap Requests : req[q].pc # "revoke"})

\* Mutant: locks outlive the transaction.
Release_KeepsLocks(a) == open' = open \ {a} /\ UNCHANGED held

Release(a) == open' = open \ {a} /\ held' = [held EXCEPT ![a] = {}]

-----------------------------------------------------------------------------
\* A new request, while the listener is open.
Arrive ==
  /\ phase = "up"
  /\ \/ /\ \E q \in Requests :
             \/ \E u \in Users, s \in Scopes : BeginLogin(q, u, s)
             \/ \E t \in HandedOut : BeginRefresh(q, t) \/ BeginLogout(q, t)
        /\ UNCHANGED lockVars
     \/ /\ \E u \in Users \ open : open' = open \cup {u}
        /\ UNCHANGED <<vars, held, doomed, mailing, phase>>
     \/ /\ mailing < MaxMail
        /\ mailing' = mailing + 1
        /\ UNCHANGED <<vars, open, held, doomed, phase>>

\* The lookups of Refresh and Logout lock nothing, and the issue of a pair is no
\* matter of the database.
Read(q) == (FindForRefresh(q) \/ IssuePair(q) \/ FindForLogout(q)) /\ UNCHANGED lockVars

\* BEGIN; an explicit Transaction waits for a connection of the pool.
OpenTransaction(q) ==
  /\ req[q].pc \in Writes
  /\ q \notin open
  /\ req[q].pc = "revoke" \/ Connections < MaxConns
  /\ open' = open \cup {q}
  /\ UNCHANGED <<vars, held, doomed, mailing, phase>>

\* A statement is granted a lock.  The cascade's rows are those there are when
\* the users row is locked.
Lock(a) ==
  /\ a \in open
  /\ \E l \in NextLocks(a) :
       /\ Blockers(a, l) = {}
       /\ l \in Users => l \in users
       /\ held' = [held EXCEPT ![a] = @ \cup {l}]
       /\ doomed' = IF l = a THEN [doomed EXCEPT ![a] = RowsOf(a)] ELSE doomed
  /\ UNCHANGED <<vars, open, mailing, phase>>

\* The users row a foreign-key check looks for is not there: rollback, 500.
ForeignKeyFails(q) ==
  /\ q \in open
  /\ req[q].token.sub \in NextLocks(q) \ users
  /\ Finish(q)
  /\ Release(q)
  /\ UNCHANGED <<now, users, rows, loggedOut, doomed, mailing, phase>>

\* COMMIT makes the writes visible, without another look at what they rest on.
Commit(q) ==
  /\ q \in open
  /\ NextLocks(q) = {}
  /\ \/ /\ req[q].pc = "insert"
        /\ \E n \in Unused : rows' = [rows EXCEPT ![n] = NewRow(q, 0)]
        /\ UNCHANGED loggedOut
     \/ /\ req[q].pc = "rotate"
        /\ \E n \in Unused : rows' = AfterRotate(q, n)
        /\ UNCHANGED loggedOut
     \/ /\ req[q].pc = "revoke"
        /\ rows' = AfterRevoke(q)
        /\ loggedOut' = loggedOut \cup {req[q].token}
  /\ Finish(q)
  /\ Release(q)
  /\ UNCHANGED <<now, users, doomed, mailing, phase>>

\* The deletion commits; of a user that is gone it deletes nothing.
CommitDelete(u) ==
  /\ u \in open
  /\ \/ /\ NextLocks(u) = {}
        /\ users' = users \ {u}
        /\ rows' = [i \in RowIds |-> IF i \in doomed[u]
                      THEN [rows[i] EXCEPT !.status = "deleted"] ELSE rows[i]]
     \/ /\ u \in NextLocks(u) \ users
        /\ UNCHANGED <<users, rows>>
  /\ Release(u)
  /\ doomed' = [doomed EXCEPT ![u] = {}]
  /\ UNCHANGED <<now, req, loggedOut, mailing, phase>>

\* Anything that breaks a request off: its transaction is rolled back.
Break(a) ==
  /\ \/ /\ a \in Requests
        /\ Abort(a)
        /\ UNCHANGED doomed
     \/ /\ a \in Users \cap open
        /\ doomed' = [doomed EXCEPT ![a] = {}]
        /\ UNCHANGED vars
  /\ Release(a)
  /\ UNCHANGED <<mailing, phase>>

\* PostgreSQL finds the cycle after deadlock_timeout and fails one of it.
BreakDeadlock == \E S \in Deadlocks : \E a \in S : Break(a)

\* SendMail returns: the server answered or refused, or the process ends.
MailEnds ==
  /\ mailing > 0
  /\ mailing' = mailing - 1
  /\ UNCHANGED <<vars, open, held, doomed, phase>>

-----------------------------------------------------------------------------
AllAnswered == open = {} /\ mailing = 0 /\ \A q \in Requests : req[q] = Idle

\* Mutant: Shutdown is given a context without a timeout.
TimedOut_Never == FALSE

\* The ten seconds are over: sooner or later, and the model's clock is too
\* coarse to say when.
TimedOut == TRUE

\* SIGTERM: Shutdown closes the listener and waits for the handlers.
Signal == phase = "up" /\ phase' = "draining"

\* Shutdown returns and main ends, and with it every handler that is left.
Exit == phase = "draining" /\ (AllAnswered \/ TimedOut) /\ phase' = "exiting"

\* The server is started again over the same database.
Restart == phase = "exiting" /\ AllAnswered /\ phase' = "up"

\* What the process and the database do for an actor on their own.
Step(a) ==
  \/ phase # "exiting" /\ a \in Requests /\
       (Read(a) \/ OpenTransaction(a) \/ ForeignKeyFails(a) \/ Commit(a))
  \/ phase # "exiting" /\ (Lock(a) \/ (a \in Users /\ CommitDelete(a)))
  \/ phase = "exiting" /\ Break(a)

LockInit ==
  /\ Init
  /\ open = {}
  /\ held = [a \in Actors |-> {}]
  /\ doomed = [u \in Users |-> {}]
  /\ mailing = 0
  /\ phase = "up"

LockNext ==
  \/ Arrive
  \/ \E a \in Actors : Step(a) \/ Break(a)
  \/ BreakDeadlock
  \/ MailEnds
  \/ ((\E u \in Users : RestoreUser(u)) \/ Tick) /\ UNCHANGED lockVars
  \/ (Signal \/ Exit \/ Restart) /\ UNCHANGED <<vars, open, held, doomed, mailing>>

LockSpec == LockInit /\ [][LockNext]_allVars

\* The pool hands its connections out at random and a lock to those who wait in
\* the order they came, so who could go on again and again does so one day: strong
\* fairness.  The deadlock detector and the shutdown timer run by the clock.  The
\* mail server owes no answer, but a process that ends closes the connection.
Fairness ==
  /\ \A a \in Actors : SF_allVars(Step(a))
  /\ WF_allVars(BreakDeadlock)
  /\ WF_allVars(Exit /\ UNCHANGED <<vars, open, held, doomed, mailing>>)
  /\ WF_allVars(phase = "exiting" /\ MailEnds)

FairLockSpec == LockSpec /\ Fairness

-----------------------------------------------------------------------------
\* Every variable has the shape its declaration says, and only an open
\* transaction holds locks.
LocksTypeOK ==
  /\ open \subseteq Actors
  /\ held \in [Actors -> SUBSET (Users \cup RowIds)]
  /\ \A a \in Actors \ open : held[a] = {}
  /\ doomed \in [Users -> SUBSET RowIds]
  /\ mailing \in 0..MaxMail
  /\ phase \in {"up", "draining", "exiting"}

\* A refresh of u has its token row and needs the users row for the successor,
\* whose deletion has that one and needs the token row.
Opposed(q, u) ==
  /\ req[q].pc = "rotate" /\ req[q].token.sub = u
  /\ u \in WaitsFor(q) /\ q \in WaitsFor(u)

\* The only deadlock there is: a refresh and the deletion of its own user (Refresh
\* against AdminHandler.DeleteUser).  Every circle of waiting transactions, of however
\* many, holds such a pair; no other two handlers can bring it about.
DeadlocksAreOpposed ==
  \A S \in Deadlocks : \E q \in S \cap Requests, u \in S \cap Users : Opposed(q, u)

\* Taken lock by lock, with waits, deadlocks and shutdowns in between, the
\* transactions still do what Sessions says in one step each: no row slips past
\* the cascade of a deletion that is under way, nothing half-done is seen.
TransactionsAreAtomic == Spec

\* Every request is answered, the deletion of a user among them, though some
\* handlers may wait for a silent mail server for ever: none stays under way.
EveryRequestEnds ==
  /\ \A q \in Requests : []<>(req[q] = Idle)
  /\ \A u \in Users : []<>(u \notin open)

\* A server told to stop does, whatever its handlers wait for: it does not stay
\* between SIGTERM and the end of its last handler.
ShutdownEnds == []<>(phase = "up" \/ (phase = "exiting" /\ AllAnswered))
=============================================================================
