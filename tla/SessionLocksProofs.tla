------------------------- MODULE SessionLocksProofs -------------------------
(***************************************************************************)
(* Proofs about module SessionLocks, for every set of users, claims and    *)
(* request slots and every size of the pool.                               *)
(*                                                                         *)
(* LockInv says what the row locks are good for: whoever holds a users row *)
(* finds it there, and the rows a deletion has found are the user's rows   *)
(* until it commits.  From it each step of SessionLocks is a step of       *)
(* Sessions or none of it, so that the theorems about Sessions hold here.  *)
(* It also says in which order locks were taken, and so who can wait for   *)
(* whom.                                                                   *)
(***************************************************************************)
EXTENDS SessionLocks, SessionsProofs

\* No two actors hold a lock in modes that exclude each other.
Exclusive ==
  \A a, b \in Actors : a # b => \A l \in held[a] \cap held[b] : ~Conflict(l, a, b)

\* A users row that is locked exists.
LockedIsPresent == \A a \in Actors : held[a] \cap Users \subseteq users

\* A deletion that holds the users row has found every row of the cascade.
DoomedIsCurrent == \A u \in Users : u \in held[u] => doomed[u] = RowsOf(u)

\* Only a request about to write has a transaction, and it locks one token row.
OpenIsWriting == \A q \in open \cap Requests : req[q].pc \in Writes
OwnRowOnly ==
  \A q \in open \cap Requests : \A i \in held[q] \cap RowIds :
    i = req[q].row /\ req[q].pc \in {"rotate", "revoke"}

\* A request locks no users row but its own, and its token row before; a deletion
\* locks no rows but the cascade's, and its users row before.
OwnUserLast ==
  \A q \in open \cap Requests :
    /\ held[q] \cap Users \subseteq {req[q].token.sub}
    /\ held[q] \cap Users # {} => req[q].pc = "insert" \/ req[q].row \in held[q]
OwnUserFirst ==
  \A u \in Users :
    /\ held[u] \subseteq {u} \cup doomed[u]
    /\ held[u] # {} => u \in held[u]

LockInv ==
  /\ Exclusive /\ LockedIsPresent /\ DoomedIsCurrent
  /\ OpenIsWriting /\ OwnRowOnly
  /\ OwnUserLast /\ OwnUserFirst

\* What the steps are taken from: the invariants of Sessions and of the locks.
Context == TypeOK /\ HandlerKnowsRow /\ SessionsHaveOwners /\ LocksTypeOK /\ LockInv

-----------------------------------------------------------------------------
\* A transaction of a request is about to write for the token it was given, and
\* if it rotates or revokes, its row is stored under that token.
LEMMA WriterFacts ==
  ASSUME Context, NEW q \in open \cap Requests
  PROVE  /\ req[q] \in Busy
         /\ req[q] # Idle
         /\ req[q].pc \in Writes
         /\ req[q].token.sub \in Users
         /\ req[q].pc # "insert" =>
              /\ req[q].row \in RowIds /\ req[q].row \in Stored
              /\ rows[req[q].row] \in Row /\ rows[req[q].row].token = req[q].token
<1>1. req[q].pc \in Writes
  BY DEF Context, LockInv, OpenIsWriting
<1>2. req[q] \in Busy /\ req[q] # Idle
  BY <1>1, BusyByPc DEF Context, Writes
<1>3. req[q].token.sub \in Users
  BY <1>2 DEF Busy, Token
<1>4. req[q].pc # "insert" => req[q].row \in Stored /\ rows[req[q].row].token = req[q].token
  BY <1>1 DEF Context, HandlerKnowsRow, Writes
<1>. QED
  BY <1>1, <1>2, <1>3, <1>4, StoredIsRow DEF Context

\* Locks are taken on users and token rows only.
LEMMA LocksAreOnRows ==
  ASSUME Context, NEW a \in open
  PROVE  /\ a \in Actors
         /\ NextLocks(a) \subseteq Users \cup RowIds
<1>1. a \in Actors
  BY DEF Context, LocksTypeOK
<1>2. CASE a \in Users
  BY <1>2 DEF Context, LocksTypeOK, NextLocks, DeleteLocks
<1>3. CASE a \in Requests /\ a \notin Users
  <2>1. a \in open \cap Requests
    BY <1>3
  <2>2. RequestLocks(a) \subseteq {req[a].token.sub} \cup
          (IF req[a].pc \in {"rotate", "revoke"} THEN {req[a].row} ELSE {})
    BY DEF RequestLocks
  <2>. QED
    BY <1>1, <1>3, <2>1, <2>2, WriterFacts DEF NextLocks
<1>. QED
  BY <1>1, <1>2, <1>3 DEF Actors

\* Who has taken all locks for a write that inserts holds the users row, so that
\* it exists and its deletion is not under way; a write that inserts nothing
\* finds its row there, and with it the user.
LEMMA CommitHasOwner ==
  ASSUME Context, NEW q \in open \cap Requests, NextLocks(q) = {}
  PROVE  /\ OwnerExists(q)
         /\ (req[q].pc # "revoke" \/ rows[req[q].row].status = "deleted") =>
              req[q].token.sub \in held[q]
<1>1. q \notin Users /\ q \in Actors
  BY ActorsAreApart DEF Actors
<1>2. RequestLocks(q) \subseteq held[q]
  BY <1>1 DEF NextLocks
<1>3. req[q].token.sub \in Users
  BY WriterFacts
<1>4. CASE req[q].pc # "revoke" \/ rows[req[q].row].status = "deleted"
  <2>1. req[q].token.sub \in held[q]
    BY <1>2, <1>4 DEF RequestLocks
  <2>. QED
    BY <1>1, <1>3, <2>1 DEF Context, LockInv, LockedIsPresent, OwnerExists
<1>5. CASE req[q].pc = "revoke" /\ rows[req[q].row].status # "deleted"
  <2>1. /\ req[q].row \in RowIds
        /\ rows[req[q].row] \in Row
        /\ rows[req[q].row].token = req[q].token
    BY <1>5, WriterFacts
  <2>2. rows[req[q].row].status \in {"active", "revoked"}
    BY <1>5, <2>1 DEF Row
  <2>. QED
    BY <1>5, <2>1, <2>2 DEF Context, SessionsHaveOwners, OwnerExists
<1>. QED
  BY <1>4, <1>5

\* A deletion that commits deletes the rows the user has at that moment.
LEMMA CommitDeleteIsDelete ==
  ASSUME Context, NEW u \in Users, CommitDelete(u)
  PROVE  \/ DeleteUser(u) /\ doomed[u] = RowsOf(u) /\ u \in held[u]
         \/ UNCHANGED vars
<1>1. u \in Actors /\ NextLocks(u) = DeleteLocks(u) \ held[u]
  BY DEF Actors, NextLocks
<1>2. CASE NextLocks(u) = {} /\ users' = users \ {u} /\
           rows' = [i \in RowIds |-> IF i \in doomed[u]
                      THEN [rows[i] EXCEPT !.status = "deleted"] ELSE rows[i]]
  <2>1. u \in held[u]
    BY <1>1, <1>2 DEF DeleteLocks
  <2>2. u \in users /\ doomed[u] = RowsOf(u)
    BY <1>1, <2>1 DEF Context, LockInv, LockedIsPresent, DoomedIsCurrent
  <2>. QED
    BY <1>2, <2>1, <2>2 DEF CommitDelete, DeleteUser, RowsOf
<1>3. CASE u \in NextLocks(u) \ users /\ UNCHANGED <<users, rows>>
  BY <1>3 DEF CommitDelete, vars
<1>. QED
  BY <1>2, <1>3 DEF CommitDelete

-----------------------------------------------------------------------------
\* Every step of SessionLocks is one of Sessions, or leaves its variables alone.
LEMMA LockStepIsStep ==
  ASSUME Context, [LockNext]_allVars
  PROVE  [Next]_vars
<1>1. ASSUME Arrive
      PROVE  [Next]_vars
  BY <1>1 DEF Arrive, Next, vars
<1>2. ASSUME NEW q \in Requests, Read(q)
      PROVE  Next
  BY <1>2 DEF Read, Next, Advance
<1>3. ASSUME NEW a \in Actors, OpenTransaction(a) \/ Lock(a)
      PROVE  UNCHANGED vars
  BY <1>3 DEF OpenTransaction, Lock
<1>4. ASSUME NEW q \in Requests, ForeignKeyFails(q)
      PROVE  Next
  <2>1. q \in open \cap Requests /\ ~OwnerExists(q)
    BY <1>4 DEF ForeignKeyFails, OwnerExists
  <2>2. req[q].pc \in {"insert", "rotate", "revoke"}
    BY <2>1, WriterFacts DEF Writes
  <2>3. InsertLogin(q) \/ Rotate(q) \/ RevokeRow(q)
    BY <1>4, <2>1, <2>2 DEF ForeignKeyFails, InsertLogin, Rotate, RevokeRow
  <2>. QED
    BY <2>3 DEF Next, Advance
<1>5. ASSUME NEW q \in Requests, Commit(q)
      PROVE  Next
  <2>1. q \in open \cap Requests /\ NextLocks(q) = {}
    BY <1>5 DEF Commit
  <2>2. OwnerExists(q)
    BY <2>1, CommitHasOwner
  <2>3. InsertLogin(q) \/ Rotate(q) \/ RevokeRow(q)
    BY <1>5, <2>2 DEF Commit, InsertLogin, Rotate, RevokeRow
  <2>. QED
    BY <2>3 DEF Next, Advance
<1>6. ASSUME NEW u \in Users, CommitDelete(u)
      PROVE  [Next]_vars
  BY <1>6, CommitDeleteIsDelete DEF Next
<1>7. ASSUME NEW a \in Actors, Break(a)
      PROVE  [Next]_vars
  BY <1>7 DEF Break, Next
<1>8. ASSUME BreakDeadlock
      PROVE  [Next]_vars
  <2>1. PICK S \in Deadlocks : \E a \in S : Break(a)
    BY <1>8 DEF BreakDeadlock
  <2>2. S \subseteq Actors
    BY DEF Deadlocks, Waiting, Context, LocksTypeOK
  <2>. QED
    BY <1>7, <2>1, <2>2
<1>9. ASSUME MailEnds \/ UNCHANGED vars
      PROVE  UNCHANGED vars
  BY <1>9 DEF MailEnds
<1>10. ASSUME (\E u \in Users : RestoreUser(u)) \/ Tick
       PROVE  Next
  BY <1>10 DEF Next
<1>. QED
  BY <1>1, <1>2, <1>3, <1>4, <1>5, <1>6, <1>7, <1>8, <1>9, <1>10
  DEF LockNext, Step, allVars, Actors
-----------------------------------------------------------------------------
\* A step that takes no lock and writes no token row: the transactions that are
\* open and the requests they belong to are the same afterwards.
LEMMA QuietStep ==
  ASSUME Context, rows' = rows, users \subseteq users', UNCHANGED <<held, doomed>>,
         \A q \in open' \cap Requests : req'[q] = req[q] /\ (q \in open \/ req[q].pc \in Writes),
         \A q \in Requests \ open : held[q] = {}
  PROVE  LockInv'
<1>1. Exclusive' /\ LockedIsPresent' /\ DoomedIsCurrent'
  BY DEF Context, LockInv, Exclusive, Conflict, LockedIsPresent, DoomedIsCurrent, RowsOf
<1>2. OpenIsWriting' /\ OwnRowOnly'
  BY DEF Context, LockInv, OpenIsWriting, OwnRowOnly
<1>3. OwnUserLast' /\ OwnUserFirst'
  BY DEF Context, LockInv, OwnUserLast, OwnUserFirst
<1>. QED
  BY <1>1, <1>2, <1>3 DEF LockInv

\* A step that ends the transaction of one actor, and writes for it: no row of a
\* user whose deletion holds the users row, and no users row that another holds.
LEMMA ReleaseStep ==
  ASSUME Context, NEW a \in Actors, Release(a),
         \A b \in Actors \ {a} : held[b] \cap (users \ users') = {},
         \A u \in Users \ {a} : u \in held[u] => RowsOf(u)' = RowsOf(u) /\ doomed'[u] = doomed[u],
         \A q \in Requests \ {a} : req'[q] = req[q]
  PROVE  LockInv'
<1>1. /\ held'[a] = {}
      /\ \A b \in Actors \ {a} : held'[b] = held[b]
  BY DEF Release, Context, LocksTypeOK
<1>2. Exclusive'
  BY <1>1 DEF Context, LockInv, Exclusive, Conflict
<1>3. LockedIsPresent'
  <2>. SUFFICES ASSUME NEW b \in Actors, NEW l \in Users, l \in held'[b]
                PROVE  l \in users'
    BY DEF LockedIsPresent
  <2>. QED
    BY <1>1 DEF Context, LockInv, LockedIsPresent
<1>4. DoomedIsCurrent'
  <2>. SUFFICES ASSUME NEW u \in Users, u \in held'[u]
                PROVE  doomed'[u] = RowsOf(u)'
    BY DEF DoomedIsCurrent
  <2>1. u \in Actors /\ u # a /\ u \in held[u]
    BY <1>1 DEF Actors
  <2>. QED
    BY <2>1 DEF Context, LockInv, DoomedIsCurrent
<1>5. OpenIsWriting' /\ OwnRowOnly'
  BY <1>1 DEF Release, Actors, Context, LockInv, OpenIsWriting, OwnRowOnly
<1>6. OwnUserLast'
  BY <1>1 DEF Release, Actors, Context, LockInv, OwnUserLast
<1>7. OwnUserFirst'
  <2>. SUFFICES ASSUME NEW u \in Users, held'[u] # {}
                PROVE  held'[u] \subseteq {u} \cup doomed'[u] /\ u \in held'[u]
    BY DEF OwnUserFirst
  <2>1. u \in Actors /\ u # a /\ held'[u] = held[u]
    BY <1>1 DEF Actors
  <2>2. u \in held[u] /\ held[u] \subseteq {u} \cup doomed[u]
    BY <2>1 DEF Context, LockInv, OwnUserFirst
  <2>. QED
    BY <2>1, <2>2
<1>. QED
  BY <1>2, <1>3, <1>4, <1>5, <1>6, <1>7 DEF LockInv

\* A lock that is granted excludes nobody who holds it already.
LEMMA LockKeeps ==
  ASSUME Context, NEW a \in Actors, Lock(a)
  PROVE  LockInv'
<1>1. PICK l \in NextLocks(a) :
        /\ Blockers(a, l) = {}
        /\ l \in Users => l \in users
        /\ held' = [held EXCEPT ![a] = @ \cup {l}]
        /\ doomed' = IF l = a THEN [doomed EXCEPT ![a] = RowsOf(a)] ELSE doomed
  BY DEF Lock
<1>2. /\ a \in open
      /\ UNCHANGED <<vars, open>>
      /\ held'[a] = held[a] \cup {l}
      /\ \A b \in Actors \ {a} : held'[b] = held[b]
  BY <1>1 DEF Lock, Context, LocksTypeOK
<1>3. Exclusive'
  <2>. SUFFICES ASSUME NEW b \in Actors, NEW c \in Actors, b # c,
                       NEW k \in held'[b] \cap held'[c]
                PROVE  ~Conflict(k, b, c)
    BY DEF Exclusive, Conflict
  <2>1. CASE k \in held[b] \cap held[c]
    BY <2>1 DEF Context, LockInv, Exclusive
  <2>2. CASE k = l /\ (b = a \/ c = a)
    <3>1. \A d \in Actors \ {a} : l \in held[d] => ~Conflict(l, a, d)
      BY <1>1 DEF Blockers
    <3>. QED
      BY <1>2, <2>2, <3>1 DEF Conflict
  <2>. QED
    BY <1>2, <2>1, <2>2
<1>4. LockedIsPresent'
  BY <1>1, <1>2 DEF vars, Context, LockInv, LockedIsPresent
<1>5. DoomedIsCurrent'
  <2>. SUFFICES ASSUME NEW u \in Users, u \in held'[u]
                PROVE  doomed'[u] = RowsOf(u)
    BY <1>2 DEF DoomedIsCurrent, RowsOf, vars
  <2>1. CASE u = a /\ l = a
    BY <1>1, <2>1 DEF Context, LocksTypeOK
  <2>2. CASE ~(u = a /\ l = a)
    <3>1. u \in Actors /\ u \in held[u]
      BY <1>2, <2>2 DEF Actors
    <3>2. doomed'[u] = doomed[u]
      BY <1>1, <2>2 DEF Context, LocksTypeOK
    <3>. QED
      BY <3>1, <3>2 DEF Context, LockInv, DoomedIsCurrent
  <2>. QED
    BY <2>1, <2>2
<1>6. OpenIsWriting'
  BY <1>2 DEF vars, Context, LockInv, OpenIsWriting
<1>7. OwnRowOnly'
  <2>. SUFFICES ASSUME NEW q \in open \cap Requests, NEW i \in held'[q] \cap RowIds
                PROVE  i = req[q].row /\ req[q].pc \in {"rotate", "revoke"}
    BY <1>2 DEF OwnRowOnly, vars
  <2>1. CASE i \in held[q]
    BY <2>1 DEF Context, LockInv, OwnRowOnly
  <2>2. CASE q = a /\ i = l
    <3>1. a \notin Users /\ l \notin Users
      BY <2>2, ActorsAreApart
    <3>2. l \in RequestLocks(a)
      BY <1>1, <3>1 DEF NextLocks
    <3>3. req[a].token.sub \in Users
      BY <2>2, WriterFacts
    <3>. QED
      BY <2>2, <3>1, <3>2, <3>3 DEF RequestLocks
  <2>. QED
    BY <1>2, <2>1, <2>2 DEF Actors
<1>8. OwnUserLast'
  <2>. SUFFICES ASSUME NEW q \in open \cap Requests, NEW k \in held'[q] \cap Users
                PROVE  /\ k = req[q].token.sub
                       /\ req[q].pc = "insert" \/ req[q].row \in held'[q]
    BY <1>2 DEF OwnUserLast, vars
  <2>1. q \in Actors /\ held[q] \subseteq held'[q]
    BY <1>2 DEF Actors
  <2>2. CASE k \in held[q]
    BY <2>1, <2>2 DEF Context, LockInv, OwnUserLast
  <2>3. CASE k \notin held[q]
    <3>1. q = a /\ k = l /\ q \notin Users
      BY <1>2, <2>1, <2>3, ActorsAreApart
    <3>2. k \in RequestLocks(q)
      BY <1>1, <3>1 DEF NextLocks
    <3>3. req[q].pc \in {"rotate", "revoke"} => req[q].row \notin Users
      BY WriterFacts, ActorsAreApart
    <3>. QED
      BY <2>1, <3>2, <3>3, WriterFacts DEF RequestLocks, Writes
  <2>. QED
    BY <2>2, <2>3
<1>9. OwnUserFirst'
  <2>. SUFFICES ASSUME NEW u \in Users
                PROVE  /\ held'[u] \subseteq {u} \cup doomed'[u]
                       /\ held'[u] # {} => u \in held'[u]
    BY DEF OwnUserFirst
  <2>1. u \in Actors /\ doomed[u] \subseteq RowIds
    BY DEF Actors, Context, LocksTypeOK
  <2>2. CASE u # a
    <3>1. held'[u] = held[u] /\ (l = a => doomed'[u] = doomed[u])
      BY <1>1, <1>2, <2>1, <2>2 DEF Context, LocksTypeOK
    <3>. QED
      BY <1>1, <3>1 DEF Context, LockInv, OwnUserFirst
  <2>3. CASE u = a /\ u \notin held[u]
    <3>1. held[u] = {}
      BY <2>3 DEF Context, LockInv, OwnUserFirst
    <3>2. l = u
      BY <1>1, <2>3 DEF NextLocks, DeleteLocks
    <3>. QED
      BY <1>2, <2>3, <3>1, <3>2
  <2>4. CASE u = a /\ u \in held[u]
    <3>1. l \in doomed[u] /\ l # u
      BY <1>1, <2>1, <2>4, ActorsAreApart DEF NextLocks, DeleteLocks
    <3>2. doomed' = doomed
      BY <1>1, <2>4, <3>1
    <3>. QED
      BY <1>2, <2>4, <3>1, <3>2 DEF Context, LockInv, OwnUserFirst
  <2>. QED
    BY <2>2, <2>3, <2>4
<1>. QED
  BY <1>3, <1>4, <1>5, <1>6, <1>7, <1>8, <1>9 DEF LockInv

\* A commit writes one row of a user, or two, and none whose deletion is under way:
\* an insert holds the users row, and other writes leave a row what it is to the cascade.
LEMMA CommitKeeps ==
  ASSUME Context, NEW q \in Requests, Commit(q)
  PROVE  LockInv'
<1>1. q \in open \cap Requests /\ NextLocks(q) = {} /\ q \in Actors
  BY DEF Commit, Actors
<1>2. UNCHANGED <<users, doomed>> /\ Release(q) /\ Finish(q)
  BY DEF Commit
<1>3. \A p \in Requests \ {q} : req'[p] = req[p]
  BY <1>2 DEF Finish, Context, TypeOK
<1>4. ASSUME NEW u \in Users \ {q}, u \in held[u]
      PROVE  RowsOf(u)' = RowsOf(u)
  <2>. DEFINE Counts(i) == rows[i].status \in {"active", "revoked"} /\ rows[i].token.sub = u
  <2>. SUFFICES ASSUME NEW i \in RowIds
                PROVE  Counts(i)' <=> Counts(i)
    BY DEF RowsOf
  <2>. USE DEF Context
  <2>1. req[q].token.sub \in held[q] => req[q].token.sub # u
    <3>1. u \in Actors /\ u # q
      BY DEF Actors
    <3>. QED
      BY <1>1, <1>4, <3>1 DEF LockInv, Exclusive, Conflict
  <2>2. req[q] \in Busy
    BY <1>1, WriterFacts
  <2>3. CASE rows'[i] = rows[i]
    BY <2>3
  <2>4. ASSUME req[q].pc # "insert", i = req[q].row, rows'[i] = [rows[i] EXCEPT !.status = "revoked"]
        PROVE  Counts(i)' <=> Counts(i)
    <3>1. rows[i] \in Row /\ rows[i].token = req[q].token
      BY <1>1, <2>4, WriterFacts
    <3>2. rows'[i].status = "revoked" /\ rows'[i].token = rows[i].token
      BY <2>4, <3>1 DEF Row
    <3>3. rows[i].status = "deleted" => rows[i].token.sub # u
      BY <1>1, <2>1, <2>4, <3>1, CommitHasOwner
    <3>. QED
      BY <3>1, <3>2, <3>3 DEF Row
  <2>5. ASSUME req[q].pc # "revoke", i \in Unused, NEW p, rows'[i] = NewRow(q, p)
        PROVE  Counts(i)' <=> Counts(i)
    <3>1. req[q].token.sub # u
      BY <1>1, <2>1, <2>5, CommitHasOwner
    <3>2. rows'[i].token.sub = req[q].token.sub
      BY <2>2, <2>5, IssuedIsToken DEF NewRow
    <3>. QED
      BY <2>5, <3>1, <3>2 DEF Unused
  <2>6. CASE req[q].pc = "insert"
    BY <2>3, <2>5, <2>6 DEF Commit, TypeOK, Unused
  <2>7. CASE req[q].pc = "rotate"
    <3>1. PICK n \in Unused : rows' = AfterRotate(q, n)
      BY <2>7 DEF Commit
    <3>2. req[q].row \in RowIds /\ req[q].row # n /\ n \in RowIds
      BY <1>1, <2>7, WriterFacts DEF Unused, Stored
    <3>3. rows'[n] = NewRow(q, req[q].row)
      BY <3>1, <3>2 DEF AfterRotate, TypeOK
    <3>4. rows'[req[q].row] = [rows[req[q].row] EXCEPT !.status = "revoked"]
      BY <3>1, <3>2 DEF AfterRotate, TypeOK
    <3>5. i # n /\ i # req[q].row => rows'[i] = rows[i]
      BY <3>1 DEF AfterRotate, TypeOK
    <3>. QED
      BY <2>3, <2>4, <2>5, <2>7, <3>3, <3>4, <3>5
  <2>8. CASE req[q].pc = "revoke"
    <3>1. rows' = AfterRevoke(q) /\ req[q].row \in RowIds
      BY <1>1, <2>8, WriterFacts DEF Commit
    <3>2. rows'[req[q].row] = [rows[req[q].row] EXCEPT !.status = "revoked"]
      BY <3>1 DEF AfterRevoke, TypeOK
    <3>3. i # req[q].row => rows'[i] = rows[i]
      BY <3>1 DEF AfterRevoke, TypeOK
    <3>. QED
      BY <2>3, <2>4, <2>8, <3>2, <3>3
  <2>. QED
    BY <2>6, <2>7, <2>8 DEF Commit
<1>. QED
  BY <1>1, <1>2, <1>3, <1>4, ReleaseStep

\* A deletion that commits holds the users row alone, and deletes its own rows only.
LEMMA CommitDeleteKeeps ==
  ASSUME Context, NEW u \in Users, CommitDelete(u)
  PROVE  LockInv'
<1>1. u \in Actors /\ Release(u) /\ req' = req /\ doomed' = [doomed EXCEPT ![u] = {}]
  BY DEF CommitDelete, Actors
<1>2. \A v \in Users \ {u} : doomed'[v] = doomed[v]
  BY <1>1 DEF Context, LocksTypeOK
<1>3. CASE UNCHANGED vars
  BY <1>1, <1>2, <1>3, ReleaseStep DEF vars, RowsOf
<1>4. CASE DeleteUser(u) /\ doomed[u] = RowsOf(u) /\ u \in held[u]
  <2>1. \A b \in Actors \ {u} : u \notin held[b]
    BY <1>1, <1>4 DEF Context, LockInv, Exclusive, Conflict
  <2>2. users \ users' \subseteq {u}
    BY <1>4 DEF DeleteUser
  <2>3. ASSUME NEW v \in Users \ {u}
        PROVE  RowsOf(v)' = RowsOf(v)
    <3>1. ASSUME NEW i \in RowIds
          PROVE  \/ rows'[i] = rows[i]
                 \/ /\ rows[i].token.sub = u
                    /\ rows'[i].status = "deleted"
      <4>1. CASE rows[i].status \in {"active", "revoked"} /\ rows[i].token.sub = u
        <5>1. rows'[i] = [rows[i] EXCEPT !.status = "deleted"]
          BY <1>4, <4>1 DEF DeleteUser
        <5>2. rows[i] \in Row
          BY <4>1 DEF Context, TypeOK, NoRow
        <5>. QED
          BY <4>1, <5>1, <5>2 DEF Row
      <4>. QED
        BY <1>4, <4>1 DEF DeleteUser
    <3>. QED
      BY <3>1 DEF RowsOf
  <2>. QED
    BY <1>1, <1>2, <2>1, <2>2, <2>3, ReleaseStep
<1>. QED
  BY <1>3, <1>4, CommitDeleteIsDelete
\* The locks keep their invariant in every step.
LEMMA LockInvStep ==
  ASSUME Context, [LockNext]_allVars
  PROVE  LockInv'
<1>. USE DEF Context
<1>1. \A q \in Requests : req[q] = Idle \/ req[q].pc \notin Writes => held[q] = {} /\ q \notin open
  BY WriterFacts DEF LocksTypeOK, Actors
<1>2. \A q \in Requests \ open : held[q] = {}
  BY DEF LocksTypeOK, Actors
<1>3. ASSUME Arrive
      PROVE  LockInv'
  <2>1. \A q \in open' \cap Requests : q \in open
    BY <1>3, ActorsAreApart DEF Arrive, lockVars
  <2>2. \A q \in open \cap Requests : req'[q] = req[q]
    BY <1>1, <1>3 DEF Arrive, BeginLogin, BeginRefresh, BeginLogout, Present, vars, TypeOK
  <2>3. rows' = rows /\ users' = users /\ UNCHANGED <<held, doomed>>
    BY <1>3 DEF Arrive, BeginLogin, BeginRefresh, BeginLogout, Present, vars, lockVars
  <2>. QED
    BY <1>2, <2>1, <2>2, <2>3, QuietStep
<1>4. ASSUME NEW q \in Requests, Read(q)
      PROVE  LockInv'
  <2>1. q \notin open
    BY <1>1, <1>4 DEF Read, FindForRefresh, IssuePair, FindForLogout, Writes
  <2>2. \A p \in Requests \ {q} : req'[p] = req[p]
    BY <1>4, IssuePairStep DEF Read, FindForRefresh, FindForLogout, Finish, TypeOK
  <2>3. rows' = rows /\ users' = users /\ UNCHANGED <<open, held, doomed>>
    BY <1>4 DEF Read, FindForRefresh, IssuePair, FindForLogout, lockVars
  <2>. QED
    BY <1>2, <2>1, <2>2, <2>3, QuietStep
<1>5. ASSUME NEW q \in Requests, OpenTransaction(q)
      PROVE  LockInv'
  BY <1>2, <1>5, QuietStep DEF OpenTransaction, vars
<1>6. ASSUME NEW q \in Requests, ForeignKeyFails(q)
      PROVE  LockInv'
  <2>1. \A p \in Requests \ {q} : req'[p] = req[p]
    BY <1>6 DEF ForeignKeyFails, Finish, TypeOK
  <2>. QED
    BY <1>6, <2>1, ReleaseStep DEF ForeignKeyFails, Actors, RowsOf
<1>7. ASSUME NEW a \in Actors, Break(a)
      PROVE  LockInv'
  <2>1. \A p \in Requests \ {a} : req'[p] = req[p]
    BY <1>7 DEF Break, Abort, Finish, TypeOK, vars
  <2>2. \A u \in Users \ {a} : doomed'[u] = doomed[u]
    BY <1>7 DEF Break, LocksTypeOK
  <2>3. rows' = rows /\ users' = users
    BY <1>7 DEF Break, Abort, vars
  <2>. QED
    BY <1>7, <2>1, <2>2, <2>3, ReleaseStep DEF Break, RowsOf
<1>8. ASSUME BreakDeadlock
      PROVE  LockInv'
  BY <1>7, <1>8 DEF BreakDeadlock, Deadlocks, Waiting, LocksTypeOK
<1>9. ASSUME \/ MailEnds
             \/ UNCHANGED <<vars, open, held, doomed>>
             \/ ((\E u \in Users : RestoreUser(u)) \/ Tick) /\ UNCHANGED lockVars
      PROVE  LockInv'
  <2>1. rows' = rows /\ users \subseteq users' /\ req' = req /\ UNCHANGED <<open, held, doomed>>
    BY <1>9 DEF MailEnds, RestoreUser, Tick, vars, lockVars
  <2>. QED
    BY <1>2, <2>1, QuietStep
<1>. QED
  BY <1>3, <1>4, <1>5, <1>6, <1>7, <1>8, <1>9, LockKeeps, CommitKeeps, CommitDeleteKeeps
  DEF LockNext, Step, allVars, lockVars, Actors

\* Every step keeps the types of the locks.
LEMMA LocksTypeStep ==
  ASSUME Context, [LockNext]_allVars
  PROVE  LocksTypeOK'
<1>. USE DEF LocksTypeOK
<1>. LocksTypeOK
  BY DEF Context
<1>1. ASSUME NEW a \in Actors, Release(a), UNCHANGED <<mailing, phase>>,
             doomed' = doomed \/ \E u \in Users : doomed' = [doomed EXCEPT ![u] = {}]
      PROVE  LocksTypeOK'
  BY <1>1 DEF Release
<1>2. ASSUME NEW a \in Actors, Break(a)
      PROVE  LocksTypeOK'
  BY <1>1, <1>2 DEF Break
<1>3. ASSUME NEW a \in Actors, Lock(a)
      PROVE  LocksTypeOK'
  <2>1. PICK l \in NextLocks(a) :
          /\ held' = [held EXCEPT ![a] = @ \cup {l}]
          /\ doomed' = IF l = a THEN [doomed EXCEPT ![a] = RowsOf(a)] ELSE doomed
    BY <1>3 DEF Lock
  <2>2. l \in Users \cup RowIds
    BY <1>3, LocksAreOnRows DEF Lock
  <2>3. a \in open /\ UNCHANGED <<open, mailing, phase>>
    BY <1>3 DEF Lock
  <2>. QED
    BY <2>1, <2>2, <2>3 DEF RowsOf
<1>4. ASSUME Arrive
      PROVE  LocksTypeOK'
  <2>1. open' = open \/ \E u \in Users : open' = open \cup {u}
    BY <1>4 DEF Arrive, lockVars
  <2>2. mailing' = mailing \/ (mailing < MaxMail /\ mailing' = mailing + 1)
    BY <1>4 DEF Arrive, lockVars
  <2>3. mailing' \in 0..MaxMail
    BY <2>2, PoolIsUsable
  <2>4. UNCHANGED <<held, doomed, phase>>
    BY <1>4 DEF Arrive, lockVars
  <2>. QED
    BY <2>1, <2>3, <2>4 DEF Actors
<1>5. ASSUME MailEnds
      PROVE  LocksTypeOK'
  <2>1. mailing' \in 0..MaxMail
    BY <1>5, PoolIsUsable DEF MailEnds
  <2>. QED
    BY <1>5, <2>1 DEF MailEnds
<1>6. ASSUME NEW q \in Requests, OpenTransaction(q)
      PROVE  LocksTypeOK'
  BY <1>6 DEF OpenTransaction, Actors
<1>7. ASSUME NEW q \in Requests, ForeignKeyFails(q) \/ Commit(q)
      PROVE  LocksTypeOK'
  BY <1>1, <1>7 DEF ForeignKeyFails, Commit, Actors
<1>8. ASSUME NEW u \in Users, CommitDelete(u)
      PROVE  LocksTypeOK'
  BY <1>1, <1>8 DEF CommitDelete, Actors
<1>9. ASSUME UNCHANGED lockVars
      PROVE  LocksTypeOK'
  BY <1>9 DEF lockVars
<1>10. ASSUME Signal \/ Exit \/ Restart, UNCHANGED <<vars, open, held, doomed, mailing>>
       PROVE  LocksTypeOK'
  BY <1>10 DEF Signal, Exit, Restart
<1>11. ASSUME BreakDeadlock
       PROVE  LocksTypeOK'
  BY <1>2, <1>11 DEF BreakDeadlock, Deadlocks, Waiting
<1>. QED
  BY <1>2, <1>3, <1>4, <1>5, <1>6, <1>7, <1>8, <1>9, <1>10, <1>11
  DEF LockNext, Step, Read, allVars, Actors

-----------------------------------------------------------------------------
\* Everything proved of Sessions holds of SessionLocks as well, and the locks keep
\* what they are for.
THEOREM LockSafety == LockSpec => [](AllInv /\ LocksTypeOK /\ LockInv)
<1>1. LockInit => AllInv
  BY AllInvAtFirst DEF LockInit
<1>2. LockInit => LocksTypeOK /\ LockInv
  BY PoolIsUsable
  DEF LockInit, Init, LocksTypeOK, LockInv, Exclusive, LockedIsPresent, DoomedIsCurrent,
      OpenIsWriting, OwnRowOnly, OwnUserLast, OwnUserFirst, Actors
<1>3. AllInv /\ LocksTypeOK /\ LockInv /\ [LockNext]_allVars => (AllInv /\ LocksTypeOK /\ LockInv)'
  <2>. SUFFICES ASSUME AllInv, LocksTypeOK, LockInv, [LockNext]_allVars
                PROVE  (AllInv /\ LocksTypeOK /\ LockInv)'
    OBVIOUS
  <2>1. Context
    BY DEF Context, AllInv, IndInv
  <2>2. AllInv'
    BY <2>1, LockStepIsStep, AllInvStep
  <2>. QED
    BY <2>1, <2>2, LockInvStep, LocksTypeStep
<1>. QED
  BY <1>1, <1>2, <1>3, PTL DEF LockSpec

\* Every variable of the locks keeps the shape its declaration says.
THEOREM LocksTypeCorrect == LockSpec => []LocksTypeOK
BY LockSafety, PTL

\* Lock by lock, the transactions implement the atomic steps of Sessions: for any
\* number of handlers, deletions and connections.
THEOREM LocksImplementSessions == LockSpec => TransactionsAreAtomic
<1>1. LockInit => Init
  BY DEF LockInit
<1>2. AllInv /\ LocksTypeOK /\ LockInv /\ [LockNext]_allVars => [Next]_vars
  BY LockStepIsStep DEF Context, AllInv, IndInv
<1>. QED
  BY <1>1, <1>2, LockSafety, PTL DEF LockSpec, Spec, TransactionsAreAtomic

\* And so they keep the ledger.
THEOREM LocksKeepLedger == LockSpec => KeepsLedger
BY LocksImplementSessions, SessionsKeepLedger DEF TransactionsAreAtomic

\* What Sessions promise of the end of a session holds under locks, deadlocks, a pool
\* that is used up, and shutdowns that cut handlers off: an ended session stays ended,
\* it ends by its holder only, and when all have ended or expired only a login begins one.
THEOREM LocksKeepEnds ==
  LockSpec => EndedForGood /\ EndedByHolderOnly /\ OnlyLoginBegins /\ ExpiredNeedsLogin
BY LocksImplementSessions, EndIsFinal, EndIsByHolder, EndOfAllIsFinal, ExpiryIsFinal
DEF TransactionsAreAtomic

-----------------------------------------------------------------------------
\* Actors that have a transaction and wait for each other.  It need not be a circle.
Stuck(S) == S # {} /\ S \subseteq open /\ \A a \in S : WaitsFor(a) \cap S # {}

\* A request that holds a token row and waits has found the row stored, or has to
\* insert it again; it waits for its users row only.
LEMMA RowHolderWaits ==
  ASSUME Context, NEW q \in open \cap Requests, NEW i \in held[q] \cap RowIds, WaitsFor(q) # {}
  PROVE  /\ i = req[q].row
         /\ req[q].pc \in {"rotate", "revoke"}
         /\ NextLocks(q) = {req[q].token.sub}
         /\ req[q].pc = "revoke" => rows[i].status = "deleted"
<1>1. q \notin Users /\ NextLocks(q) # {}
  BY ActorsAreApart DEF WaitsFor
<1>2. i = req[q].row /\ req[q].pc \in {"rotate", "revoke"}
  BY DEF Context, LockInv, OwnRowOnly
<1>3. RequestLocks(q) \subseteq {req[q].token.sub}
  BY <1>2 DEF RequestLocks
<1>4. RequestLocks(q) \ held[q] # {}
  BY <1>1 DEF NextLocks
<1>. QED
  BY <1>1, <1>2, <1>3, <1>4 DEF NextLocks, RequestLocks

\* A request that holds a users row does not wait.
LEMMA UserHolderGoesOn ==
  ASSUME Context, NEW q \in open \cap Requests, NEW u \in held[q] \cap Users
  PROVE  WaitsFor(q) = {}
<1>1. q \notin Users
  BY ActorsAreApart
<1>2. u = req[q].token.sub /\ (req[q].pc = "insert" \/ req[q].row \in held[q])
  BY DEF Context, LockInv, OwnUserLast
<1>3. RequestLocks(q) \subseteq held[q]
  BY <1>2 DEF RequestLocks
<1>. QED
  BY <1>1, <1>3 DEF WaitsFor, NextLocks

\* Among logins, refreshes and logouts alone nobody waits in a circle: who waits for
\* a token row holds none, and on users rows requests do not wait for each other.
LEMMA StuckHasDeletion ==
  ASSUME Context, NEW S, Stuck(S)
  PROVE  S \cap Users # {}
<1>. SUFFICES ASSUME S \cap Users = {}
              PROVE  FALSE
  OBVIOUS
<1>1. S # {} /\ S \subseteq open /\ \A a \in S : WaitsFor(a) \cap S # {}
  BY DEF Stuck
<1>2. S \subseteq Requests
  BY <1>1 DEF Context, LocksTypeOK, Actors
<1>3. ASSUME NEW a \in S, NEW b \in S, b \in WaitsFor(a)
      PROVE  req[a].row \notin held[a] /\ req[a].row \in held[b] \cap RowIds
  <2>1. PICK l \in NextLocks(a) : l \in held[b] /\ Conflict(l, a, b)
    BY <1>3 DEF WaitsFor, Blockers
  <2>2. l \in RowIds /\ l \notin Users /\ a \notin Users
    BY <1>2, <2>1, ActorsAreApart DEF Conflict
  <2>3. l \in RequestLocks(a) \ held[a] /\ req[a].token.sub \in Users
    BY <1>1, <1>2, <2>1, <2>2, WriterFacts DEF NextLocks
  <2>. QED
    BY <2>1, <2>2, <2>3 DEF RequestLocks
<1>4. PICK a \in S, b \in S : b \in WaitsFor(a)
  BY <1>1
<1>5. PICK c \in S : c \in WaitsFor(b)
  BY <1>1
<1>6. req[b].row \notin held[b] /\ held[b] \cap RowIds # {}
  BY <1>3, <1>4, <1>5
<1>. QED
  BY <1>1, <1>2, <1>6 DEF Context, LockInv, OwnRowOnly

\* The deletion among them has its users row, since whoever else has it goes on; so
\* it waits for a token row of its user, and who has that waits for the users row.
LEMMA StuckIsOpposed ==
  ASSUME Context, NEW S, Stuck(S)
  PROVE  \E q \in S \cap Requests, u \in S \cap Users : Opposed(q, u)
<1>1. S \subseteq open /\ \A a \in S : WaitsFor(a) \cap S # {}
  BY DEF Stuck
<1>2. PICK u \in S \cap Users : TRUE
  BY StuckHasDeletion
<1>3. PICK b \in S : b \in WaitsFor(u)
  BY <1>1
<1>4. PICK l \in DeleteLocks(u) \ held[u] : l \in held[b] /\ b # u /\ b \in Actors
  BY <1>3 DEF WaitsFor, Blockers, NextLocks
<1>5. ASSUME NEW v \in Users, v # u
      PROVE  l \notin held[v]
  <2>. SUFFICES ASSUME l \in held[v]
                PROVE  FALSE
    OBVIOUS
  <2>1. /\ v \in held[v] /\ held[v] \subseteq {v} \cup doomed[v]
        /\ doomed[v] = RowsOf(v) /\ RowsOf(v) \subseteq RowIds
    BY DEF Context, LockInv, OwnUserFirst, DoomedIsCurrent, RowsOf
  <2>2. CASE u \notin held[u]
    <3>1. l = u
      BY <1>4, <2>2 DEF DeleteLocks
    <3>. QED
      BY <1>2, <1>5, <2>1, <3>1, ActorsAreApart
  <2>3. CASE u \in held[u]
    <3>1. l \in doomed[u] /\ doomed[u] = RowsOf(u)
      BY <1>4, <2>3 DEF DeleteLocks, Context, LockInv, DoomedIsCurrent
    <3>2. l \in RowsOf(u) /\ l \in RowIds /\ l \notin Users
      BY <3>1, ActorsAreApart DEF RowsOf
    <3>3. l \in RowsOf(v)
      BY <2>1, <3>2
    <3>. QED
      BY <1>5, <3>2, <3>3 DEF RowsOf
  <2>. QED
    BY <2>2, <2>3
<1>6. b \in open \cap Requests /\ b \notin Users
  BY <1>1, <1>3, <1>4, <1>5, ActorsAreApart DEF Actors
<1>7. u \in held[u]
  <2>. SUFFICES ASSUME u \notin held[u]
                PROVE  FALSE
    OBVIOUS
  <2>1. u \in held[b]
    BY <1>4 DEF DeleteLocks
  <2>. QED
    BY <1>1, <1>3, <1>6, <2>1, UserHolderGoesOn
<1>8. l \in RowsOf(u) /\ l \in RowIds
  BY <1>4, <1>7 DEF DeleteLocks, Context, LockInv, DoomedIsCurrent, RowsOf
<1>9. /\ l = req[b].row /\ req[b].pc = "rotate"
      /\ NextLocks(b) = {req[b].token.sub}
  <2>1. rows[l].status # "deleted"
    BY <1>8 DEF RowsOf
  <2>. QED
    BY <1>1, <1>3, <1>4, <1>6, <1>8, <2>1, RowHolderWaits
<1>10. req[b].token.sub = u
  <2>1. rows[l].token = req[b].token
    BY <1>6, <1>9, WriterFacts
  <2>. QED
    BY <1>8, <2>1 DEF RowsOf
<1>11. u \in WaitsFor(b)
  <2>1. u \in Blockers(b, u)
    BY <1>2, <1>4, <1>7 DEF Blockers, Conflict, Actors
  <2>. QED
    BY <1>9, <1>10, <2>1 DEF WaitsFor
<1>. QED
  BY <1>2, <1>3, <1>6, <1>9, <1>10, <1>11 DEF Opposed

\* Every deadlock holds a refresh and the deletion of its own user that wait for each
\* other, however many transactions wait in it: no other handlers can deadlock.
THEOREM DeadlocksTakeDeletion == LockSpec => []DeadlocksAreOpposed
<1>1. AllInv /\ LocksTypeOK /\ LockInv => DeadlocksAreOpposed
  <2>. SUFFICES ASSUME AllInv, LocksTypeOK, LockInv, NEW S \in Deadlocks
                PROVE  \E q \in S \cap Requests, u \in S \cap Users : Opposed(q, u)
    BY DEF DeadlocksAreOpposed
  <2>1. Context
    BY DEF Context, AllInv, IndInv
  <2>2. Stuck(S)
    BY DEF Stuck, Deadlocks, Waiting
  <2>. QED
    BY <2>1, <2>2, StuckIsOpposed
<1>. QED
  BY <1>1, LockSafety, PTL

\* When every open transaction waits, there are any, the deadlock detector finds
\* something: PostgreSQL never stands still unnoticed, not even with infinitely many
\* transactions that wait in a line without a circle.
StandstillIsSeen == (open # {} /\ open \subseteq Waiting) => Deadlocks # {}

THEOREM StandstillIsDeadlock == LockSpec => []StandstillIsSeen
<1>1. AllInv /\ LocksTypeOK /\ LockInv => StandstillIsSeen
  <2>. SUFFICES ASSUME AllInv, LocksTypeOK, LockInv, open # {}, open \subseteq Waiting
                PROVE  Deadlocks # {}
    BY DEF StandstillIsSeen
  <2>1. Context
    BY DEF Context, AllInv, IndInv
  <2>2. \A a \in open : WaitsFor(a) # {} /\ WaitsFor(a) \subseteq open
    BY DEF Waiting, WaitsFor, Blockers, LocksTypeOK
  <2>3. Stuck(open)
    BY <2>2 DEF Stuck
  <2>4. PICK q \in open \cap Requests, u \in open \cap Users : Opposed(q, u)
    BY <2>1, <2>3, StuckIsOpposed
  <2>5. {q, u} \in Deadlocks
    BY <2>4 DEF Opposed, Deadlocks, Waiting
  <2>. QED
    BY <2>5
<1>. QED
  BY <1>1, LockSafety, PTL
=============================================================================
