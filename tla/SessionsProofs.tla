--------------------------- MODULE SessionsProofs ---------------------------
(***************************************************************************)
(* Proofs about module Sessions, for every set of users, tenant claims and *)
(* request slots and every value of the bounds.                            *)
(*                                                                         *)
(* First typing; then AllInv, the safety properties of Sessions with the   *)
(* strengthening IndInv, which is inductive relative to typing; then the   *)
(* action properties, which follow step by step from both; at last the     *)
(* refinement, one lemma per kind of write.                                *)
(***************************************************************************)
EXTENDS Sessions, FunctionTheorems, FiniteSetTheorems, WellFoundedInduction, TLAPS

\* First picks a member: the row FindActiveByHash reads is one it matched.
LEMMA FirstIsMember ==
  ASSUME NEW S \in SUBSET RowIds, S # {}
  PROVE  First(S) \in S
<1>1. S \subseteq Nat
  BY BoundsAreNat DEF RowIds
<1>2. \E i \in S : \A j \in S : ~ (<<j, i>> \in OpToRel(<, Nat))
  BY <1>1, NatLessThanWellFounded, WFMin
<1>3. ASSUME NEW i \in S, NEW j \in S
      PROVE  <<j, i>> \in OpToRel(<, Nat) <=> j < i
  BY <1>1 DEF OpToRel
<1>4. PICK i \in S : \A j \in S : ~ (j < i)
  BY <1>2, <1>3
<1>5. \A j \in S : i <= j
  BY <1>1, <1>4
<1>. QED
  BY <1>5 DEF First

-----------------------------------------------------------------------------
\* Every claim set a handler works on and every row it stores is well formed:
\* the tokens that are handed out, and the pair that is issued.
LEMMA HandedOutAreTokens ==
  ASSUME TypeOK, NEW t \in HandedOut
  PROVE  t \in Token
BY DEF TypeOK, HandedOut, Stored, Row, NoRow

LEMMA BusyByPc ==
  ASSUME TypeOK, NEW q \in Requests, req[q].pc # "idle"
  PROVE  req[q] \in Busy /\ req[q] # Idle
BY DEF TypeOK, Idle

LEMMA IssuedIsToken ==
  ASSUME NEW q \in Requests, req[q] \in Busy
  PROVE  /\ Issued(q) \in Token
         /\ Issued(q).sub = req[q].token.sub
         /\ Issued(q).scope = req[q].token.scope
BY DEF Issued, Token, Busy

LEMMA NewRowIsRow ==
  ASSUME NEW q \in Requests, req[q] \in Busy, NEW p \in RowIds \cup {0}
  PROVE  NewRow(q, p) \in Row
BY IssuedIsToken DEF NewRow, Row, Busy

\* The handler q goes on with the token and the row it had.
GoesOn(q) ==
  /\ req'[q].token = req[q].token
  /\ req'[q].row = req[q].row
  /\ <<req[q].pc, req'[q].pc>> \in {<<"login", "insert">>, <<"refresh", "rotate">>}
       \/ req'[q].pc = req[q].pc

\* A pair is issued to one handler, which goes on, at readings of the clock.
LEMMA IssuePairStep ==
  ASSUME TypeOK, NEW q \in Requests, IssuePair(q)
  PROVE  /\ req'[q] \in Busy
         /\ req' = [req EXCEPT ![q] = req'[q]]
         /\ GoesOn(q)
<1>1. req[q] \in Busy
  BY BusyByPc DEF IssuePair
<1>2. PICK e \in req[q].at..now :
        \E i \in e..now : req' = [req EXCEPT ![q] = WithPair(q, e, i)]
  BY DEF IssuePair
<1>. PICK i \in e..now : req' = [req EXCEPT ![q] = WithPair(q, e, i)]
  BY <1>2
<1>3. /\ i \in Nat /\ e + RefreshTTL \in Nat /\ now + RefreshTTL \in Nat
      /\ req[q].pc \in {"login", "refresh"}
  BY <1>1, BoundsAreNat DEF Busy, TypeOK, IssuePair
<1>. DEFINE pc == IF req[q].pc = "login" THEN "insert" ELSE "rotate"
<1>4. WithPair(q, e, i) = [req[q] EXCEPT !.pc = pc, !.at = i, !.exp = e + RefreshTTL,
                                         !.until = now + RefreshTTL]
  BY <1>1 DEF WithPair
<1>5. pc \in {"insert", "rotate"} /\ <<req[q].pc, pc>> \in {<<"login", "insert">>, <<"refresh", "rotate">>}
  BY <1>3
<1>. HIDE DEF pc
<1>6. WithPair(q, e, i) \in Busy
  BY <1>1, <1>3, <1>4, <1>5 DEF Busy
<1>7. WithPair(q, e, i).token = req[q].token /\ WithPair(q, e, i).row = req[q].row
        /\ WithPair(q, e, i).pc = pc
  BY <1>1, <1>4 DEF Busy
<1>8. req'[q] = WithPair(q, e, i)
  BY DEF TypeOK
<1>. QED
  BY <1>5, <1>6, <1>7, <1>8 DEF GoesOn

\* A row that is stored has all its columns.
LEMMA StoredIsRow ==
  ASSUME TypeOK, NEW i \in Stored
  PROVE  i \in RowIds /\ rows[i] \in Row
BY DEF TypeOK, Stored, NoRow

\* Every step keeps the types, given that a handler about to write holds a row
\* that is stored.
LEMMA TypingStep ==
  ASSUME TypeOK, HandlerKnowsRow, [Next]_vars
  PROVE  TypeOK'
<1>. USE DEF TypeOK
<1>1. ASSUME NEW q \in Requests, NEW u \in Users, NEW s \in Scopes, BeginLogin(q, u, s)
      PROVE  TypeOK'
  <2>1. Handling("login", [sub |-> u, scope |-> s, iat |-> 0, exp |-> 0], 0, now) \in Busy
    BY DEF Handling, Busy, Token
  <2>. QED
    BY <1>1, <2>1 DEF BeginLogin
<1>2. ASSUME NEW q \in Requests, NEW t \in HandedOut, NEW pc \in {"findRefresh", "findLogout"},
             Present(q, t, pc)
      PROVE  TypeOK'
  <2>1. Handling(pc, t, 0, 0) \in Busy
    BY HandedOutAreTokens DEF Handling, Busy
  <2>. QED
    BY <1>2, <2>1 DEF Present
<1>3. ASSUME NEW q \in Requests, InsertLogin(q)
      PROVE  TypeOK'
  <2>1. req[q] \in Busy
    BY <1>3, BusyByPc DEF InsertLogin
  <2>2. NewRow(q, 0) \in Row
    BY <2>1, NewRowIsRow
  <2>. QED
    BY <1>3, <2>2 DEF InsertLogin, Finish, Unused
<1>4. ASSUME NEW q \in Requests, FindForRefresh(q)
      PROVE  TypeOK'
  <2>1. req[q] \in Busy
    BY <1>4, BusyByPc DEF FindForRefresh
  <2>2. CASE /\ ActiveRows(req[q].token) # {}
             /\ req' = [req EXCEPT ![q] =
                  Handling("refresh", req[q].token, First(ActiveRows(req[q].token)), now)]
    <3>1. First(ActiveRows(req[q].token)) \in RowIds
      BY <2>2, FirstIsMember DEF ActiveRows
    <3>. QED
      BY <1>4, <2>1, <2>2, <3>1 DEF FindForRefresh, Handling, Busy
  <2>3. CASE Finish(q)
    BY <1>4, <2>3 DEF FindForRefresh, Finish
  <2>. QED
    BY <1>4, <2>2, <2>3 DEF FindForRefresh
<1>5. ASSUME NEW q \in Requests, Rotate(q)
      PROVE  TypeOK'
  <2>1. req[q] \in Busy
    BY <1>5, BusyByPc DEF Rotate
  <2>2. NewRow(q, req[q].row) \in Row
    BY <2>1, NewRowIsRow DEF Busy
  <2>3. CASE \E n \in Unused : rows' = AfterRotate(q, n)
    <3>1. PICK n \in Unused : rows' = AfterRotate(q, n)
      BY <2>3
    <3>2. req[q].row \in RowIds /\ rows[req[q].row] \in Row
      BY <1>5, StoredIsRow DEF HandlerKnowsRow, Rotate
    <3>3. [rows[req[q].row] EXCEPT !.status = "revoked"] \in Row
      BY <3>2 DEF Row
    <3>. QED
      BY <1>5, <2>1, <2>2, <3>1, <3>2, <3>3 DEF Rotate, AfterRotate, Finish, Unused
  <2>4. CASE UNCHANGED rows
    BY <1>5, <2>4 DEF Rotate, Finish
  <2>. QED
    BY <1>5, <2>3, <2>4 DEF Rotate
<1>6. ASSUME NEW q \in Requests, FindForLogout(q)
      PROVE  TypeOK'
  <2>1. req[q] \in Busy
    BY <1>6, BusyByPc DEF FindForLogout
  <2>2. CASE /\ ActiveRows(req[q].token) # {}
             /\ req' = [req EXCEPT ![q].pc = "revoke",
                                   ![q].row = First(ActiveRows(req[q].token))]
    <3>1. First(ActiveRows(req[q].token)) \in RowIds
      BY <2>2, FirstIsMember DEF ActiveRows
    <3>. QED
      BY <1>6, <2>1, <2>2, <3>1 DEF FindForLogout, Busy
  <2>3. CASE Finish(q)
    BY <1>6, <2>3 DEF FindForLogout, Finish
  <2>. QED
    BY <1>6, <2>2, <2>3 DEF FindForLogout
<1>7. ASSUME NEW q \in Requests, RevokeRow(q)
      PROVE  TypeOK'
  <2>1. req[q] \in Busy
    BY <1>7, BusyByPc DEF RevokeRow
  <2>2. req[q].row \in RowIds /\ rows[req[q].row] \in Row
    BY <1>7, StoredIsRow DEF HandlerKnowsRow, RevokeRow
  <2>3. [rows[req[q].row] EXCEPT !.status = "revoked"] \in Row
    BY <2>2 DEF Row
  <2>. QED
    BY <1>7, <2>1, <2>2, <2>3 DEF RevokeRow, AfterRevoke, Finish, Busy
<1>8. ASSUME NEW q \in Requests, Abort(q)
      PROVE  TypeOK'
  BY <1>8 DEF Abort, Finish
<1>9. ASSUME NEW u \in Users, DeleteUser(u)
      PROVE  TypeOK'
  BY <1>9 DEF DeleteUser, Row, NoRow
<1>10. ASSUME NEW u \in Users, RestoreUser(u)
       PROVE  TypeOK'
  BY <1>10 DEF RestoreUser
<1>11. CASE Tick
  BY <1>11 DEF Tick
<1>12. CASE UNCHANGED vars
  BY <1>12 DEF vars
<1>13. ASSUME NEW q \in Requests, IssuePair(q)
       PROVE  TypeOK'
  BY <1>13, IssuePairStep DEF IssuePair
<1>. QED
  BY <1>1, <1>2, <1>3, <1>4, <1>5, <1>6, <1>7, <1>8, <1>9, <1>10, <1>11, <1>12, <1>13
  DEF Next, Advance, BeginRefresh, BeginLogout

-----------------------------------------------------------------------------
\* What a step does to the table of sessions.

\* Row i stays what it is, except that it may stop being active.
Keeps(i) ==
  /\ i \in Stored'
  /\ rows'[i].token = rows[i].token
  /\ rows'[i].until = rows[i].until
  /\ rows'[i].parent = rows[i].parent
  /\ rows'[i].by = rows[i].by
  /\ rows[i].status # "active" => rows'[i].status # "active"

\* Row i is inserted by slot q, by its login or by the rotation of another row.
InsertedBy(i, q) ==
  /\ req[q].pc \in {"insert", "rotate"}
  /\ req' = [req EXCEPT ![q] = Idle]
  /\ users' = users
  /\ req[q].token.sub \in users
  /\ \/ rows'[i] = NewRow(q, 0)
     \/ /\ req[q].pc = "rotate"
        /\ rows'[i] = NewRow(q, req[q].row)
        /\ rows'[req[q].row].status = "revoked"

\* No step takes a row away or changes its token, a row that has ended does not
\* become active, and at most one row is inserted, by one request.
LEMMA RowsStep ==
  ASSUME TypeOK, HandlerKnowsRow, [Next]_vars
  PROVE  /\ \A i \in Stored : Keeps(i)
         /\ \A i \in Stored' \ Stored : \E q \in Requests : InsertedBy(i, q)
         /\ \A i, j \in Stored' \ Stored : i = j
<1>. DEFINE Goal == /\ \A i \in Stored : Keeps(i)
                    /\ \A i \in Stored' \ Stored : \E q \in Requests : InsertedBy(i, q)
                    /\ \A i, j \in Stored' \ Stored : i = j
<1>1. ASSUME UNCHANGED rows
      PROVE  Goal
  BY <1>1 DEF Stored, Keeps
<1>2. ASSUME NEW q \in Requests, InsertLogin(q)
      PROVE  Goal
  <2>1. CASE OwnerExists(q)
    <3>1. PICK n \in Unused : rows' = [rows EXCEPT ![n] = NewRow(q, 0)]
      BY <1>2, <2>1 DEF InsertLogin
    <3>2. n \in RowIds /\ n \notin Stored
      BY DEF Unused, Stored
    <3>3. \A i \in RowIds : i # n => rows'[i] = rows[i]
      BY <3>1 DEF TypeOK
    <3>4. rows'[n] = NewRow(q, 0)
      BY <3>1, <3>2 DEF TypeOK
    <3>5. \A i \in Stored : Keeps(i)
      BY <3>2, <3>3 DEF Stored, Keeps
    <3>6. InsertedBy(n, q)
      BY <1>2, <2>1, <3>4 DEF InsertedBy, InsertLogin, Finish, OwnerExists
    <3>. QED
      BY <3>3, <3>5, <3>6 DEF Stored
  <2>. QED
    BY <1>1, <1>2, <2>1 DEF InsertLogin
<1>3. ASSUME NEW q \in Requests, Rotate(q)
      PROVE  Goal
  <2>1. CASE OwnerExists(q)
    <3>. DEFINE r == req[q].row
    <3>1. PICK n \in Unused : rows' = AfterRotate(q, n)
      BY <1>3, <2>1 DEF Rotate
    <3>2. n \in RowIds /\ n \notin Stored
      BY DEF Unused, Stored
    <3>3. r \in Stored /\ r \in RowIds /\ rows[r] \in Row
      BY <1>3, StoredIsRow DEF Rotate, HandlerKnowsRow
    <3>4. \A i \in RowIds : (i # n /\ i # r) => rows'[i] = rows[i]
      BY <3>1 DEF TypeOK, AfterRotate
    <3>5. rows'[n] = NewRow(q, r)
      BY <3>1, <3>2 DEF TypeOK, AfterRotate
    <3>6. rows'[r] = [rows[r] EXCEPT !.status = "revoked"]
      BY <3>1, <3>2, <3>3 DEF TypeOK, AfterRotate
    <3>7. /\ rows'[r].status = "revoked"
          /\ rows'[r].token = rows[r].token
          /\ rows'[r].until = rows[r].until
          /\ rows'[r].parent = rows[r].parent
          /\ rows'[r].by = rows[r].by
      BY <3>3, <3>6 DEF Row
    <3>8. \A i \in Stored : Keeps(i)
      BY <3>2, <3>3, <3>4, <3>7 DEF Stored, Keeps
    <3>9. InsertedBy(n, q)
      BY <1>3, <2>1, <3>5, <3>7 DEF InsertedBy, Rotate, Finish, OwnerExists
    <3>. QED
      BY <3>3, <3>4, <3>8, <3>9 DEF Stored
  <2>. QED
    BY <1>1, <1>3, <2>1 DEF Rotate
<1>4. ASSUME NEW q \in Requests, RevokeRow(q)
      PROVE  Goal
  <2>1. CASE OwnerExists(q)
    <3>. DEFINE r == req[q].row
    <3>1. rows' = AfterRevoke(q)
      BY <1>4, <2>1 DEF RevokeRow
    <3>2. r \in Stored /\ r \in RowIds /\ rows[r] \in Row
      BY <1>4, StoredIsRow DEF RevokeRow, HandlerKnowsRow
    <3>3. \A i \in RowIds : i # r => rows'[i] = rows[i]
      BY <3>1 DEF TypeOK, AfterRevoke
    <3>4. rows'[r] = [rows[r] EXCEPT !.status = "revoked"]
      BY <3>1, <3>2 DEF TypeOK, AfterRevoke
    <3>5. /\ rows'[r].status = "revoked"
          /\ rows'[r].token = rows[r].token
          /\ rows'[r].until = rows[r].until
          /\ rows'[r].parent = rows[r].parent
          /\ rows'[r].by = rows[r].by
      BY <3>2, <3>4 DEF Row
    <3>. QED
      BY <3>2, <3>3, <3>5 DEF Stored, Keeps
  <2>. QED
    BY <1>1, <1>4, <2>1 DEF RevokeRow
<1>5. ASSUME NEW u \in Users, DeleteUser(u)
      PROVE  Goal
  <2>1. ASSUME NEW i \in RowIds
        PROVE  \/ rows'[i] = rows[i]
               \/ /\ rows[i].status \in {"active", "revoked"}
                  /\ rows'[i] = [rows[i] EXCEPT !.status = "deleted"]
    BY <1>5 DEF DeleteUser
  <2>2. ASSUME NEW i \in Stored
        PROVE  Keeps(i)
    BY <2>1, StoredIsRow DEF Stored, Row, Keeps
  <2>3. Stored' \subseteq Stored
    BY <2>1 DEF Stored
  <2>. QED
    BY <2>2, <2>3
<1>6. ASSUME NEW q \in Requests, IssuePair(q)
      PROVE  Goal
  BY <1>1, <1>6 DEF IssuePair
<1>. QED
  BY <1>1, <1>2, <1>3, <1>4, <1>5, <1>6
  DEF Next, Advance, BeginLogin, BeginRefresh, BeginLogout, Present, FindForRefresh,
      FindForLogout, Abort, RestoreUser, Tick, vars

\* A handler that is past its lookup after a step was so before it, with the same
\* row, or it has just found its row active, in a step that leaves the table alone.
LEMMA WritersStep ==
  ASSUME TypeOK, [Next]_vars,
         NEW q \in Requests, req'[q].pc \in {"refresh", "rotate", "revoke"}
  PROVE  \/ GoesOn(q)
         \/ /\ rows' = rows
            /\ req'[q].token = req[q].token
            /\ req'[q].row \in ActiveRows(req'[q].token)
            /\ req'[q].pc # "revoke" => InTime(req'[q].row)
<1>. DEFINE Goal == \/ GoesOn(q)
                   \/ /\ rows' = rows
                      /\ req'[q].token = req[q].token
                      /\ req'[q].row \in ActiveRows(req'[q].token)
                      /\ req'[q].pc # "revoke" => InTime(req'[q].row)
<1>0. req'[q] = req[q] => Goal
  BY DEF GoesOn
<1>1. ASSUME NEW p \in Requests, FindForRefresh(p)
      PROVE  Goal
  <2>1. First(ActiveRows(req[p].token)) \in ActiveRows(req[p].token)
           \/ ActiveRows(req[p].token) = {}
    BY FirstIsMember DEF ActiveRows
  <2>. QED
    BY <1>0, <1>1, <2>1 DEF FindForRefresh, Handling, Finish, Idle, TypeOK
<1>2. ASSUME NEW p \in Requests, FindForLogout(p)
      PROVE  Goal
  <2>1. First(ActiveRows(req[p].token)) \in ActiveRows(req[p].token)
           \/ ActiveRows(req[p].token) = {}
    BY FirstIsMember DEF ActiveRows
  <2>2. req[p] \in Busy
    BY <1>2, BusyByPc DEF FindForLogout
  <2>. QED
    BY <1>0, <1>2, <2>1, <2>2 DEF FindForLogout, Finish, Idle, TypeOK, Busy
<1>3. ASSUME NEW p \in Requests, Finish(p)
      PROVE  Goal
  BY <1>0, <1>3 DEF Finish, Idle, TypeOK
<1>4. ASSUME NEW p \in Requests, NEW u \in Users, NEW s \in Scopes, BeginLogin(p, u, s)
      PROVE  Goal
  BY <1>0, <1>4 DEF BeginLogin, Handling, TypeOK
<1>5. ASSUME NEW p \in Requests, NEW t \in HandedOut, NEW pc \in {"findRefresh", "findLogout"},
             Present(p, t, pc)
      PROVE  Goal
  BY <1>0, <1>5 DEF Present, Handling, TypeOK
<1>6. ASSUME UNCHANGED req
      PROVE  Goal
  BY <1>0, <1>6
<1>7. ASSUME NEW p \in Requests, IssuePair(p)
      PROVE  Goal
  BY <1>0, <1>7, IssuePairStep DEF TypeOK
<1>. QED
  BY <1>1, <1>2, <1>3, <1>4, <1>5, <1>6, <1>7
  DEF Next, Advance, BeginRefresh, BeginLogout, InsertLogin, Rotate, RevokeRow, Abort,
      DeleteUser, RestoreUser, Tick, vars

-----------------------------------------------------------------------------
\* The safety properties of Sessions together with what makes them inductive.
\* LogoutEndsUniqueToken is not a part: it follows from LoggedOutIsSpent.
AllInv ==
  /\ TypeOK
  /\ IndInv
  /\ RotatedIsSpent
  /\ OneSuccessorPerSlot
  /\ SessionKeepsIdentity
  /\ SessionsHaveOwners

\* The predecessor of a rotated row is a stored row.
LEMMA ParentIsStored ==
  ASSUME TypeOK, RotatedIsSpent, NEW i \in Stored, rows[i].parent # 0
  PROVE  rows[i].parent \in Stored /\ rows[rows[i].parent].status # "active"
<1>1. rows[i].parent \in RowIds
  BY StoredIsRow DEF Row
<1>. QED
  BY <1>1 DEF RotatedIsSpent, Stored

\* A row of a step's result was there before, or was inserted by a login, or by
\* a handler that rotated a stored row with the token it was given.
LEMMA NewOrKept ==
  ASSUME TypeOK, IndInv, [Next]_vars, NEW i \in Stored'
  PROVE  \/ i \in Stored /\ Keeps(i)
         \/ /\ i \notin Stored
            /\ \E q \in Requests : InsertedBy(i, q)
            /\ rows'[i].parent = 0
         \/ /\ i \notin Stored
            /\ rows'[i].parent # 0
            /\ \E q \in Requests :
                 /\ InsertedBy(i, q)
                 /\ req[q].pc = "rotate"
                 /\ req'[q] = Idle
                 /\ req[q] \in Busy
                 /\ rows'[i].by = q
                 /\ rows'[i].token = Issued(q)
                 /\ rows'[i].parent = req[q].row
                 /\ req[q].row \in Stored
                 /\ Keeps(req[q].row)
                 /\ rows[req[q].row].token = req[q].token
                 /\ rows'[req[q].row].status = "revoked"
<1>1. HandlerKnowsRow
  BY DEF IndInv
<1>2. CASE i \in Stored
  BY <1>1, <1>2, RowsStep
<1>3. CASE i \notin Stored
  <2>1. PICK q \in Requests : InsertedBy(i, q)
    BY <1>1, <1>3, RowsStep
  <2>2. CASE rows'[i] = NewRow(q, 0)
    BY <1>3, <2>1, <2>2 DEF NewRow
  <2>3. CASE /\ req[q].pc = "rotate"
             /\ rows'[i] = NewRow(q, req[q].row)
             /\ rows'[req[q].row].status = "revoked"
    <3>1. req[q].row \in Stored /\ rows[req[q].row].token = req[q].token
      BY <1>1, <2>3 DEF HandlerKnowsRow
    <3>2. Keeps(req[q].row)
      BY <1>1, <3>1, RowsStep
    <3>3. req[q].row # 0
      BY <3>1, StoredIsRow, BoundsAreNat DEF RowIds
    <3>4. req[q] \in Busy /\ req'[q] = Idle
      BY <2>1, <2>3, BusyByPc DEF InsertedBy, TypeOK
    <3>. QED
      BY <1>3, <2>1, <2>3, <3>1, <3>2, <3>3, <3>4 DEF NewRow
  <2>. QED
    BY <2>1, <2>2, <2>3 DEF InsertedBy
<1>. QED
  BY <1>2, <1>3

LEMMA IndInvStep ==
  ASSUME TypeOK, IndInv, RotatedIsSpent, [Next]_vars
  PROVE  IndInv'
<1>. HandlerKnowsRow /\ RotatesOnce /\ LoggedOutIsSpent
  BY DEF IndInv
<1>1. HandlerKnowsRow'
  <2>. SUFFICES ASSUME NEW q \in Requests, req'[q].pc \in {"refresh", "rotate", "revoke"}
                PROVE  req'[q].row \in Stored' /\ rows'[req'[q].row].token = req'[q].token
    BY DEF HandlerKnowsRow
  <2>1. CASE GoesOn(q)
    BY <2>1, RowsStep DEF GoesOn, HandlerKnowsRow, Keeps
  <2>2. CASE rows' = rows /\ req'[q].row \in ActiveRows(req'[q].token)
    BY <2>2 DEF ActiveRows, Stored
  <2>. QED
    BY <2>1, <2>2, WritersStep
<1>2. RotatesOnce'
  <2>. SUFFICES ASSUME NEW q \in Requests, NEW i \in Stored',
                       req'[q].pc \in {"refresh", "rotate"}, rows'[i].parent = req'[q].row
                PROVE  rows'[i].by # q
    BY DEF RotatesOnce
  <2>1. req'[q].row # 0
    BY <1>1, BoundsAreNat DEF HandlerKnowsRow, Stored, RowIds
  <2>2. CASE GoesOn(q)
    <3>1. CASE i \in Stored /\ Keeps(i)
      BY <2>2, <3>1 DEF GoesOn, RotatesOnce, Keeps
    <3>2. CASE \E p \in Requests : req'[p] = Idle /\ rows'[i].by = p
      BY <3>2 DEF Idle
    <3>. QED
      BY <2>1, <3>1, <3>2, NewOrKept
  <2>3. CASE rows' = rows /\ req'[q].row \in ActiveRows(req'[q].token)
    <3>1. i \in Stored
      BY <2>3 DEF Stored
    <3>. QED
      BY <2>1, <2>3, <3>1, ParentIsStored DEF ActiveRows
  <2>. QED
    BY <2>2, <2>3, WritersStep
<1>3. LoggedOutIsSpent'
  <2>. SUFFICES ASSUME NEW t \in loggedOut'
                PROVE  \E i \in RowIds : /\ rows'[i].status \in {"revoked", "deleted"}
                                         /\ rows'[i].token = t
    BY DEF LoggedOutIsSpent
  <2>1. CASE t \in loggedOut
    <3>1. PICK i \in RowIds : rows[i].status \in {"revoked", "deleted"} /\ rows[i].token = t
      BY <2>1 DEF LoggedOutIsSpent
    <3>2. Keeps(i) /\ i \in Stored'
      BY <3>1, RowsStep DEF Stored, Keeps
    <3>3. rows'[i] \in Row
      BY <3>2, TypingStep DEF TypeOK, Stored, NoRow
    <3>. QED
      BY <3>1, <3>2, <3>3 DEF Keeps, Row
  <2>2. CASE t \notin loggedOut
    <3>1. PICK q \in Requests : RevokeRow(q) /\ OwnerExists(q) /\ t = req[q].token
      BY <2>2 DEF Next, Advance, BeginLogin, BeginRefresh, BeginLogout, Present, InsertLogin,
                  FindForRefresh, IssuePair, Rotate, FindForLogout, RevokeRow, Abort,
                  DeleteUser, RestoreUser, Tick, vars
    <3>2. req[q].row \in Stored /\ rows[req[q].row].token = t
      BY <3>1 DEF HandlerKnowsRow, RevokeRow
    <3>3. req[q].row \in RowIds /\ rows[req[q].row] \in Row
      BY <3>2, StoredIsRow
    <3>4. rows'[req[q].row] = [rows[req[q].row] EXCEPT !.status = "revoked"]
      BY <3>1, <3>3 DEF RevokeRow, AfterRevoke, TypeOK
    <3>. QED
      BY <3>2, <3>3, <3>4 DEF Row
  <2>. QED
    BY <2>1, <2>2
<1>. QED
  BY <1>1, <1>2, <1>3 DEF IndInv

LEMMA RotatedIsSpentStep ==
  ASSUME TypeOK, IndInv, RotatedIsSpent, [Next]_vars
  PROVE  RotatedIsSpent'
<1>. SUFFICES ASSUME NEW i \in Stored', rows'[i].parent # 0
              PROVE  rows'[rows'[i].parent].status \in {"revoked", "deleted"}
  BY DEF RotatedIsSpent
<1>. DEFINE p == rows'[i].parent
<1>1. p \in Stored' /\ rows'[p].status # "active"
  <2>1. CASE i \in Stored /\ Keeps(i)
    <3>1. rows[i].parent = p
      BY <2>1 DEF Keeps
    <3>2. p \in Stored /\ rows[p].status # "active"
      BY <2>1, <3>1, ParentIsStored
    <3>. QED
      BY <3>2, RowsStep DEF IndInv, Keeps
  <2>2. CASE Keeps(p) /\ rows'[p].status = "revoked"
    BY <2>2 DEF Keeps
  <2>. QED
    BY <2>1, <2>2, NewOrKept
<1>2. TypeOK'
  BY TypingStep DEF IndInv
<1>. QED
  BY <1>1, <1>2 DEF TypeOK, Stored, Row, NoRow

LEMMA OneSuccessorStep ==
  ASSUME TypeOK, IndInv, RotatedIsSpent, OneSuccessorPerSlot, [Next]_vars
  PROVE  OneSuccessorPerSlot'
<1>1. ASSUME NEW i \in Stored', NEW j \in Stored', i \notin Stored, i # j,
             rows'[i].parent # 0, rows'[i].parent = rows'[j].parent
      PROVE  rows'[i].by # rows'[j].by
  <2>1. j \in Stored /\ Keeps(j)
    BY <1>1, RowsStep DEF IndInv
  <2>2. PICK q \in Requests : /\ req[q].pc = "rotate"
                              /\ rows'[i].by = q
                              /\ rows'[i].parent = req[q].row
    BY <1>1, NewOrKept
  <2>. QED
    BY <1>1, <2>1, <2>2 DEF IndInv, RotatesOnce, Keeps
<1>2. ASSUME NEW i \in Stored, NEW j \in Stored, i # j,
             rows'[i].parent # 0, rows'[i].parent = rows'[j].parent
      PROVE  rows'[i].by # rows'[j].by
  BY <1>2, RowsStep DEF IndInv, OneSuccessorPerSlot, Keeps
<1>. QED
  BY <1>1, <1>2 DEF OneSuccessorPerSlot

LEMMA IdentityStep ==
  ASSUME TypeOK, IndInv, RotatedIsSpent, SessionKeepsIdentity, [Next]_vars
  PROVE  SessionKeepsIdentity'
<1>. SUFFICES ASSUME NEW i \in Stored', rows'[i].parent # 0
              PROVE  LET p == rows'[i].parent IN
                       /\ rows'[i].token.sub = rows'[p].token.sub
                       /\ rows'[i].token.scope = rows'[p].token.scope
  BY DEF SessionKeepsIdentity
<1>1. CASE i \in Stored /\ Keeps(i)
  <2>1. rows[i].parent \in Stored
    BY <1>1, ParentIsStored DEF Keeps
  <2>2. Keeps(rows[i].parent)
    BY <2>1, RowsStep DEF IndInv
  <2>. QED
    BY <1>1, <2>2 DEF SessionKeepsIdentity, Keeps
<1>2. ASSUME NEW q \in Requests, req[q] \in Busy, rows'[i].token = Issued(q),
             rows'[i].parent = req[q].row, Keeps(req[q].row),
             rows[req[q].row].token = req[q].token
      PROVE  LET p == rows'[i].parent IN
               /\ rows'[i].token.sub = rows'[p].token.sub
               /\ rows'[i].token.scope = rows'[p].token.scope
  BY <1>2, IssuedIsToken DEF Keeps
<1>. QED
  BY <1>1, <1>2, NewOrKept

LEMMA OwnersStep ==
  ASSUME TypeOK, IndInv, SessionsHaveOwners, [Next]_vars
  PROVE  SessionsHaveOwners'
<1>. DEFINE Live(i) == rows[i].status \in {"active", "revoked"}
<1>. SUFFICES ASSUME NEW i \in RowIds, Live(i)'
              PROVE  rows'[i].token.sub \in users'
  BY DEF SessionsHaveOwners
<1>1. ASSUME rows' = rows, users \subseteq users'
      PROVE  rows'[i].token.sub \in users'
  BY <1>1 DEF SessionsHaveOwners
<1>2. ASSUME NEW q \in Requests, InsertLogin(q)
      PROVE  rows'[i].token.sub \in users'
  <2>1. CASE OwnerExists(q)
    <3>1. PICK n \in Unused : rows' = [rows EXCEPT ![n] = NewRow(q, 0)]
      BY <1>2, <2>1 DEF InsertLogin
    <3>2. CASE i = n
      <4>1. rows'[i].token = Issued(q)
        BY <3>1, <3>2 DEF NewRow, TypeOK
      <4>2. req[q] \in Busy
        BY <1>2, BusyByPc DEF InsertLogin
      <4>. QED
        BY <1>2, <2>1, <4>1, <4>2, IssuedIsToken DEF InsertLogin, OwnerExists
    <3>3. CASE i # n
      BY <1>2, <3>1, <3>3 DEF InsertLogin, TypeOK, SessionsHaveOwners
    <3>. QED
      BY <3>2, <3>3
  <2>. QED
    BY <1>1, <1>2, <2>1 DEF InsertLogin
<1>3. ASSUME NEW q \in Requests, Rotate(q)
      PROVE  rows'[i].token.sub \in users'
  <2>1. CASE OwnerExists(q)
    <3>1. PICK n \in Unused : rows' = AfterRotate(q, n)
      BY <1>3, <2>1 DEF Rotate
    <3>2. CASE i = n
      <4>1. rows'[i].token = Issued(q)
        BY <3>1, <3>2 DEF AfterRotate, NewRow, TypeOK
      <4>2. req[q] \in Busy
        BY <1>3, BusyByPc DEF Rotate
      <4>. QED
        BY <1>3, <2>1, <4>1, <4>2, IssuedIsToken DEF Rotate, OwnerExists
    <3>3. CASE i = req[q].row
      <4>1. i \in Stored /\ rows[i].token = req[q].token
        BY <1>3, <3>3 DEF Rotate, IndInv, HandlerKnowsRow
      <4>2. rows'[i].token = rows[i].token
        BY <1>3, <4>1, RowsStep DEF IndInv, Keeps
      <4>. QED
        BY <1>3, <2>1, <4>1, <4>2 DEF Rotate, OwnerExists
    <3>4. CASE i # n /\ i # req[q].row
      BY <1>3, <3>1, <3>4 DEF Rotate, AfterRotate, TypeOK, SessionsHaveOwners
    <3>. QED
      BY <3>2, <3>3, <3>4
  <2>. QED
    BY <1>1, <1>3, <2>1 DEF Rotate
<1>4. ASSUME NEW q \in Requests, RevokeRow(q)
      PROVE  rows'[i].token.sub \in users'
  <2>1. CASE OwnerExists(q)
    <3>1. CASE i = req[q].row
      <4>1. i \in Stored /\ rows[i].token = req[q].token
        BY <1>4, <3>1 DEF RevokeRow, IndInv, HandlerKnowsRow
      <4>2. rows'[i].token = rows[i].token
        BY <1>4, <4>1, RowsStep DEF IndInv, Keeps
      <4>. QED
        BY <1>4, <2>1, <4>1, <4>2 DEF RevokeRow, OwnerExists
    <3>2. CASE i # req[q].row
      BY <1>4, <2>1, <3>2 DEF RevokeRow, AfterRevoke, TypeOK, SessionsHaveOwners
    <3>. QED
      BY <3>1, <3>2
  <2>. QED
    BY <1>1, <1>4, <2>1 DEF RevokeRow
<1>5. ASSUME NEW u \in Users, DeleteUser(u)
      PROVE  rows'[i].token.sub \in users'
  <2>1. CASE rows[i].status \in {"active", "revoked"} /\ rows[i].token.sub = u
    <3>1. rows'[i] = [rows[i] EXCEPT !.status = "deleted"]
      BY <1>5, <2>1 DEF DeleteUser
    <3>2. rows[i] \in Row
      BY <2>1 DEF TypeOK, NoRow
    <3>. QED
      BY <3>1, <3>2 DEF Row
  <2>2. CASE ~ (rows[i].status \in {"active", "revoked"} /\ rows[i].token.sub = u)
    BY <1>5, <2>2 DEF DeleteUser, SessionsHaveOwners
  <2>. QED
    BY <2>1, <2>2
<1>. QED
  BY <1>1, <1>2, <1>3, <1>4, <1>5
  DEF Next, Advance, BeginLogin, BeginRefresh, BeginLogout, Present, FindForRefresh,
      IssuePair, FindForLogout, Abort, RestoreUser, Tick, vars

\* AllInv holds at first, with no row and no request, and every step keeps it.
LEMMA AllInvAtFirst ==
  ASSUME Init
  PROVE  AllInv
<1>1. TypeOK
  BY DEF Init, TypeOK, Idle, NoRow
<1>2. Stored = {} /\ \A q \in Requests : req[q].pc = "idle"
  BY DEF Init, Stored, NoRow, Idle
<1>3. IndInv
  BY <1>2 DEF Init, IndInv, HandlerKnowsRow, RotatesOnce, LoggedOutIsSpent
<1>4. SessionsHaveOwners
  BY DEF Init, NoRow, SessionsHaveOwners
<1>. QED
  BY <1>1, <1>2, <1>3, <1>4
  DEF AllInv, RotatedIsSpent, OneSuccessorPerSlot, SessionKeepsIdentity

LEMMA AllInvStep ==
  ASSUME AllInv, [Next]_vars
  PROVE  AllInv'
BY TypingStep, IndInvStep, RotatedIsSpentStep, OneSuccessorStep, IdentityStep, OwnersStep
DEF AllInv, IndInv

\* What is true in every reachable state of Sessions.
THEOREM Safety == Spec => []AllInv
BY AllInvAtFirst, AllInvStep, PTL DEF Spec

-----------------------------------------------------------------------------
\* Every variable keeps the shape its declaration says.
THEOREM TypeCorrect == Spec => []TypeOK
BY Safety, PTL DEF AllInv

\* What a handler has read about its row still holds when it writes.
THEOREM HandlersKnowTheirRows == Spec => []IndInv
BY Safety, PTL DEF AllInv

\* Refresh never leaves a rotated row active, also not through an interleaving
\* with logouts, deletions and resurrections of the user.
THEOREM RotationIsAtomic == Spec => []RotatedIsSpent
BY Safety, PTL DEF AllInv

\* However many requests present one refresh token, each slot derives at most
\* one successor from a row: reuse is bounded by the requests in flight.
THEOREM ReuseIsBounded == Spec => []OneSuccessorPerSlot
BY Safety, PTL DEF AllInv

\* Subject and tenant claim are the same along every chain of rotations.
THEOREM IdentityIsKept == Spec => []SessionKeepsIdentity
BY Safety, PTL DEF AllInv

\* No session row belongs to a user who does not exist.
THEOREM SessionsAreOwned == Spec => []SessionsHaveOwners
BY Safety, PTL DEF AllInv

\* A logged-out token has an active row only if it has a second row.
THEOREM LogoutOfUniqueToken == Spec => []LogoutEndsUniqueToken
<1>1. AllInv => LogoutEndsUniqueToken
  <2>. SUFFICES ASSUME AllInv, NEW t \in loggedOut, NEW i \in ActiveRows(t)
                PROVE  \E j \in Stored : j # i /\ rows[j].token = t
    BY DEF LogoutEndsUniqueToken
  <2>1. PICK j \in RowIds : rows[j].status \in {"revoked", "deleted"} /\ rows[j].token = t
    BY DEF AllInv, IndInv, LoggedOutIsSpent
  <2>. QED
    BY <2>1 DEF Stored, ActiveRows
<1>. QED
  BY <1>1, Safety, PTL

\* A session that has ended stays ended, in every step of every behaviour.
THEOREM EndIsFinal == Spec => EndedForGood
<1>1. AllInv /\ [Next]_vars =>
        [\A i \in RowIds :
           rows[i].status \in {"revoked", "deleted"} => rows'[i].status # "active"]_vars
  <2>. SUFFICES ASSUME AllInv, [Next]_vars, NEW i \in RowIds,
                       rows[i].status \in {"revoked", "deleted"}
                PROVE  rows'[i].status # "active"
    OBVIOUS
  <2>. QED
    BY RowsStep DEF AllInv, IndInv, Stored, Keeps
<1>. QED
  BY <1>1, Safety, PTL DEF Spec, EndedForGood

\* A session ends only through a request that presented its token, or with its
\* user: no other request of the same user, and of no other user, can end it.
THEOREM EndIsByHolder == Spec => EndedByHolderOnly
<1>. DEFINE Justified(i) ==
       \/ rows[i].token.sub \notin users'
       \/ \E q \in Requests : req[q] # Idle /\ req'[q] = Idle /\ req[q].token = rows[i].token
<1>1. AllInv /\ [Next]_vars =>
        [\A i \in RowIds :
           (rows[i].status = "active" /\ rows'[i].status # "active") => Justified(i)]_vars
  <2>. SUFFICES ASSUME AllInv, [Next]_vars, NEW i \in RowIds,
                       rows[i].status = "active", rows'[i].status # "active"
                PROVE  Justified(i)
    OBVIOUS
  <2>. TypeOK /\ HandlerKnowsRow
    BY DEF AllInv, IndInv
  <2>1. rows' # rows
    OBVIOUS
  <2>2. ASSUME NEW q \in Requests, InsertLogin(q)
        PROVE  FALSE
    BY <2>1, <2>2 DEF InsertLogin, NewRow, Unused, TypeOK
  <2>3. ASSUME NEW q \in Requests, Rotate(q) \/ RevokeRow(q), i = req[q].row
        PROVE  Justified(i)
    <3>1. req[q].token = rows[i].token /\ req[q] # Idle
      BY <2>3 DEF Rotate, RevokeRow, HandlerKnowsRow, Idle
    <3>2. req'[q] = Idle
      BY <2>3 DEF Rotate, RevokeRow, Finish, TypeOK
    <3>. QED
      BY <3>1, <3>2
  <2>4. ASSUME NEW q \in Requests, Rotate(q), i # req[q].row
        PROVE  FALSE
    BY <2>1, <2>4 DEF Rotate, AfterRotate, NewRow, Unused, TypeOK
  <2>5. ASSUME NEW q \in Requests, RevokeRow(q), i # req[q].row
        PROVE  FALSE
    BY <2>1, <2>5 DEF RevokeRow, AfterRevoke, TypeOK
  <2>6. ASSUME NEW u \in Users, DeleteUser(u)
        PROVE  Justified(i)
    BY <2>6 DEF DeleteUser
  <2>. QED
    BY <2>1, <2>2, <2>3, <2>4, <2>5, <2>6
    DEF Next, Advance, BeginLogin, BeginRefresh, BeginLogout, Present, FindForRefresh,
        IssuePair, FindForLogout, Abort, RestoreUser, Tick, vars
<1>. QED
  BY <1>1, Safety, PTL DEF Spec, EndedByHolderOnly
-----------------------------------------------------------------------------
\* The rows that were rotated out of row p.
SuccessorsOf(p) == {i \in Stored : rows[i].parent = p}

\* A refresh token that is presented again and again, by any number of requests one
\* after the other, makes no more sessions than there can be requests at one time.
CopiesAreFew == \A p \in RowIds : Cardinality(SuccessorsOf(p)) <= Cardinality(Requests)

\* The slot of every rotation is noted.
SlotsAreNoted == \A i \in Stored : rows[i].parent # 0 => rows[i].by \in Requests

\* The bound of OneSuccessorPerSlot as a number (Refresh checks before its transaction).
THEOREM ReuseIsCounted ==
  ASSUME IsFiniteSet(Requests)
  PROVE  Spec => []CopiesAreFew
<1>1. AllInv /\ SlotsAreNoted => CopiesAreFew
  <2>. SUFFICES ASSUME AllInv, SlotsAreNoted, NEW p \in RowIds
                PROVE  Cardinality(SuccessorsOf(p)) <= Cardinality(Requests)
    BY DEF CopiesAreFew
  <2>. DEFINE slotOf == [i \in SuccessorsOf(p) |-> rows[i].by]
  <2>1. p # 0
    BY BoundsAreNat DEF RowIds
  <2>2. \A i \in SuccessorsOf(p) : rows[i].by \in Requests
    BY <2>1 DEF SuccessorsOf, SlotsAreNoted
  <2>3. \A i, j \in SuccessorsOf(p) : rows[i].by = rows[j].by => i = j
    BY <2>1 DEF SuccessorsOf, AllInv, OneSuccessorPerSlot
  <2>4. slotOf \in Injection(SuccessorsOf(p), Requests)
    BY <2>2, <2>3, Fun_IsInj
  <2>. QED
    BY <2>4, FS_Injection
<1>2. Init => SlotsAreNoted
  BY DEF Init, SlotsAreNoted, Stored, NoRow
<1>3. AllInv /\ SlotsAreNoted /\ [Next]_vars => SlotsAreNoted'
  <2>. SUFFICES ASSUME AllInv, SlotsAreNoted, [Next]_vars,
                       NEW i \in Stored', rows'[i].parent # 0
                PROVE  rows'[i].by \in Requests
    BY DEF SlotsAreNoted
  <2>1. TypeOK /\ IndInv
    BY DEF AllInv
  <2>2. CASE i \in Stored /\ Keeps(i)
    BY <2>2 DEF SlotsAreNoted, Keeps
  <2>. QED
    BY <2>1, <2>2, NewOrKept
<1>. QED
  BY <1>1, <1>2, <1>3, Safety, PTL DEF Spec

-----------------------------------------------------------------------------
\* The logins that happen are for subjects and tenant claims of the set G.
LoginsGive(G) ==
  [][\A q \in Requests, u \in Users, s \in Scopes : BeginLogin(q, u, s) => <<u, s>> \in G]_vars

\* Every token that is stored, or that a handler works with, has a subject and a
\* tenant claim of G.
IdentitiesIn(G) ==
  /\ \A i \in Stored : Identity(rows[i].token) \in G
  /\ \A q \in Requests : req[q] # Idle => Identity(req[q].token) \in G

\* A row that a step inserts has the identity of its request.
LEMMA InsertedIdentity ==
  ASSUME TypeOK, NEW i \in Stored', NEW q \in Requests, InsertedBy(i, q)
  PROVE  Identity(rows'[i].token) = Identity(req[q].token)
<1>1. req[q] \in Busy
  BY BusyByPc DEF InsertedBy
<1>2. rows'[i].token = Issued(q)
  BY DEF InsertedBy, NewRow
<1>. QED
  BY <1>1, <1>2, IssuedIsToken DEF Identity

LEMMA StoredIdentitiesStep ==
  ASSUME NEW G, AllInv, IdentitiesIn(G), [Next]_vars, NEW i \in Stored'
  PROVE  Identity(rows'[i].token) \in G
<1>. TypeOK /\ HandlerKnowsRow
  BY DEF AllInv, IndInv
<1>1. CASE i \in Stored
  BY <1>1, RowsStep DEF Keeps, IdentitiesIn
<1>2. CASE i \notin Stored
  <2>1. PICK q \in Requests : InsertedBy(i, q)
    BY <1>2, RowsStep
  <2>2. req[q] # Idle
    BY <2>1, BusyByPc DEF InsertedBy
  <2>. QED
    BY <2>1, <2>2, InsertedIdentity DEF IdentitiesIn
<1>. QED
  BY <1>1, <1>2

LEMMA RequestIdentitiesStep ==
  ASSUME NEW G, AllInv, IdentitiesIn(G), [Next]_vars,
         \A q \in Requests, u \in Users, s \in Scopes : BeginLogin(q, u, s) => <<u, s>> \in G,
         NEW p \in Requests, req'[p] # Idle
  PROVE  Identity(req'[p].token) \in G
<1>. DEFINE Goal == Identity(req'[p].token) \in G
<1>. TypeOK
  BY DEF AllInv
<1>1. CASE req'[p] = req[p]
  BY <1>1 DEF IdentitiesIn
<1>2. ASSUME NEW q \in Requests, NEW u \in Users, NEW s \in Scopes, BeginLogin(q, u, s)
      PROVE  Goal
  <2>1. CASE p = q
    <3>1. req'[p].token.sub = u /\ req'[p].token.scope = s
      BY <1>2, <2>1 DEF BeginLogin, Handling, TypeOK
    <3>. QED
      BY <1>2, <3>1 DEF Identity
  <2>2. CASE p # q
    BY <1>1, <1>2, <2>2 DEF BeginLogin, TypeOK
  <2>. QED
    BY <2>1, <2>2
<1>3. ASSUME NEW q \in Requests, NEW t \in HandedOut, NEW pc \in {"findRefresh", "findLogout"},
             Present(q, t, pc)
      PROVE  Goal
  <2>1. Identity(t) \in G
    BY DEF HandedOut, IdentitiesIn
  <2>2. req'[p] = req[p] \/ req'[p].token = t
    BY <1>3 DEF Present, Handling, TypeOK
  <2>. QED
    BY <1>1, <2>1, <2>2
<1>4. ASSUME NEW q \in Requests, FindForRefresh(q) \/ FindForLogout(q)
      PROVE  Goal
  <2>1. req[q] \in Busy /\ req[q] # Idle
    BY <1>4, BusyByPc DEF FindForRefresh, FindForLogout
  <2>2. req'[p] = req[p] \/ (p = q /\ req'[p].token = req[p].token)
    BY <1>4, <2>1 DEF FindForRefresh, FindForLogout, Handling, Finish, TypeOK, Busy
  <2>. QED
    BY <1>1, <2>1, <2>2 DEF IdentitiesIn
<1>5. ASSUME NEW q \in Requests, Finish(q)
      PROVE  Goal
  BY <1>1, <1>5 DEF Finish, TypeOK
<1>6. CASE UNCHANGED req
  BY <1>1, <1>6
<1>7. ASSUME NEW q \in Requests, IssuePair(q)
      PROVE  Goal
  <2>1. req[q] # Idle
    BY <1>7, BusyByPc DEF IssuePair
  <2>2. req'[p] = req[p] \/ (p = q /\ req'[p].token = req[p].token)
    BY <1>7, IssuePairStep DEF GoesOn, TypeOK
  <2>. QED
    BY <1>1, <2>1, <2>2 DEF IdentitiesIn
<1>. QED
  BY <1>2, <1>3, <1>4, <1>5, <1>6, <1>7
  DEF Next, Advance, BeginRefresh, BeginLogout, InsertLogin, Rotate, RevokeRow, Abort,
      DeleteUser, RestoreUser, Tick, vars

\* Only logins make identities: whatever is refreshed, logged out, broken off, deleted
\* and restored, no token has a subject with a tenant claim that no login gave it
\* (Refresh does not ask for the membership behind the claim again).
THEOREM IdentitiesComeFromLogins ==
  ASSUME NEW CONSTANT G
  PROVE  Spec /\ LoginsGive(G) => []IdentitiesIn(G)
<1>1. Init => IdentitiesIn(G)
  BY DEF Init, IdentitiesIn, Stored, NoRow
<1>2. /\ AllInv /\ IdentitiesIn(G)
      /\ [Next]_vars
      /\ [\A q \in Requests, u \in Users, s \in Scopes : BeginLogin(q, u, s) => <<u, s>> \in G]_vars
      => IdentitiesIn(G)'
  <2>. SUFFICES ASSUME AllInv, IdentitiesIn(G), [Next]_vars,
                       [\A q \in Requests, u \in Users, s \in Scopes :
                          BeginLogin(q, u, s) => <<u, s>> \in G]_vars
                PROVE  IdentitiesIn(G)'
    OBVIOUS
  <2>1. CASE UNCHANGED vars
    BY <2>1 DEF vars, IdentitiesIn, Stored
  <2>2. CASE \A q \in Requests, u \in Users, s \in Scopes : BeginLogin(q, u, s) => <<u, s>> \in G
    BY <2>2, StoredIdentitiesStep, RequestIdentitiesStep DEF IdentitiesIn
  <2>. QED
    BY <2>1, <2>2
<1>. QED
  BY <1>1, <1>2, Safety, PTL DEF Spec, LoginsGive
-----------------------------------------------------------------------------
\* A login that is past its checks was so before the step, or has just begun.
LEMMA LoginsStep ==
  ASSUME TypeOK, [Next]_vars, NEW q \in Requests, req'[q].pc \in {"login", "insert"}
  PROVE  \/ GoesOn(q)
         \/ \E u \in Users, s \in Scopes :
              BeginLogin(q, u, s) /\ Identity(req'[q].token) = <<u, s>>
<1>. DEFINE Goal == \/ GoesOn(q)
                    \/ \E u \in Users, s \in Scopes :
                         BeginLogin(q, u, s) /\ Identity(req'[q].token) = <<u, s>>
<1>0. req'[q] = req[q] => Goal
  BY DEF GoesOn
<1>1. ASSUME NEW p \in Requests, NEW u \in Users, NEW s \in Scopes, BeginLogin(p, u, s)
      PROVE  Goal
  <2>1. CASE p = q
    <3>1. req'[q].token.sub = u /\ req'[q].token.scope = s
      BY <1>1, <2>1 DEF BeginLogin, Handling, TypeOK
    <3>. QED
      BY <1>1, <2>1, <3>1 DEF Identity
  <2>2. CASE p # q
    BY <1>0, <1>1, <2>2 DEF BeginLogin, TypeOK
  <2>. QED
    BY <2>1, <2>2
<1>2. ASSUME NEW p \in Requests, NEW t \in HandedOut, NEW pc \in {"findRefresh", "findLogout"},
             Present(p, t, pc)
      PROVE  Goal
  BY <1>0, <1>2 DEF Present, Handling, TypeOK
<1>3. ASSUME NEW p \in Requests, FindForRefresh(p)
      PROVE  Goal
  BY <1>0, <1>3 DEF FindForRefresh, Handling, Finish, Idle, TypeOK
<1>4. ASSUME NEW p \in Requests, FindForLogout(p)
      PROVE  Goal
  <2>1. req[p] \in Busy
    BY <1>4, BusyByPc DEF FindForLogout
  <2>. QED
    BY <1>0, <1>4, <2>1 DEF FindForLogout, Finish, Idle, TypeOK, Busy
<1>5. ASSUME NEW p \in Requests, Finish(p)
      PROVE  Goal
  BY <1>0, <1>5 DEF Finish, Idle, TypeOK
<1>6. CASE UNCHANGED req
  BY <1>0, <1>6
<1>7. ASSUME NEW p \in Requests, IssuePair(p)
      PROVE  Goal
  BY <1>0, <1>7, IssuePairStep DEF TypeOK
<1>. QED
  BY <1>1, <1>2, <1>3, <1>4, <1>5, <1>6, <1>7
  DEF Next, Advance, BeginRefresh, BeginLogout, InsertLogin, Rotate, RevokeRow, Abort,
      DeleteUser, RestoreUser, Tick, vars

\* A handler is let through for an identity only by a login, or with an active row of
\* that identity in its time.
LEMMA AdmittedStep ==
  ASSUME TypeOK, [Next]_vars, NEW u \in Users, NEW s \in Scopes, NoneAdmitted(u, s),
         ~(\E q \in Requests : BeginLogin(q, u, s)),
         \A i \in RowIds :
           (rows[i].status = "active" /\ InTime(i)) => Identity(rows[i].token) # <<u, s>>
  PROVE  NoneAdmitted(u, s)'
<1>1. ASSUME NEW q \in Requests, req'[q].pc \in {"login", "insert"}
      PROVE  Identity(req'[q].token) # <<u, s>>
  BY <1>1, LoginsStep DEF NoneAdmitted, GoesOn, Identity
<1>2. ASSUME NEW q \in Requests, req'[q].pc \in {"refresh", "rotate"}
      PROVE  Identity(req'[q].token) # <<u, s>>
  <2>1. CASE GoesOn(q)
    BY <1>2, <2>1 DEF NoneAdmitted, GoesOn, Identity
  <2>2. CASE req'[q].row \in ActiveRows(req'[q].token) /\ InTime(req'[q].row)
    BY <2>2 DEF ActiveRows
  <2>. QED
    BY <1>2, <2>1, <2>2, WritersStep
<1>. QED
  BY <1>1, <1>2 DEF NoneAdmitted

\* An active row of an identity that nobody was let through for was there before.
LEMMA ActiveRowStep ==
  ASSUME TypeOK, HandlerKnowsRow, [Next]_vars, NEW u \in Users, NEW s \in Scopes,
         NoneAdmitted(u, s), NEW i \in RowIds, rows'[i].status = "active",
         Identity(rows'[i].token) = <<u, s>>
  PROVE  /\ rows[i].status = "active"
         /\ rows[i].token = rows'[i].token
         /\ rows[i].until = rows'[i].until
<1>1. i \in Stored'
  BY DEF Stored
<1>2. CASE i \in Stored
  BY <1>2, RowsStep DEF Keeps
<1>3. CASE i \notin Stored
  <2>1. PICK q \in Requests : InsertedBy(i, q)
    BY <1>1, <1>3, RowsStep
  <2>. QED
    BY <1>1, <2>1, InsertedIdentity DEF NoneAdmitted, InsertedBy
<1>. QED
  BY <1>2, <1>3

\* The end of all sessions of an identity is the end of that identity, until its next
\* login: what a logout on every device gives.
THEOREM EndOfAllIsFinal == Spec => OnlyLoginBegins
<1>1. AllInv /\ [Next]_vars =>
        [\A u \in Users, s \in Scopes :
           NoSession(u, s) => (NoSession(u, s)' \/ \E q \in Requests : BeginLogin(q, u, s))]_vars
  <2>. SUFFICES ASSUME AllInv, [Next]_vars, NEW u \in Users, NEW s \in Scopes, NoSession(u, s),
                       ~(\E q \in Requests : BeginLogin(q, u, s))
                PROVE  NoSession(u, s)'
    OBVIOUS
  <2>. TypeOK /\ HandlerKnowsRow
    BY DEF AllInv, IndInv
  <2>1. NoneAdmitted(u, s)'
    BY AdmittedStep DEF NoSession
  <2>2. ASSUME NEW i \in RowIds, rows'[i].status = "active"
        PROVE  Identity(rows'[i].token) # <<u, s>>
    BY <2>2, ActiveRowStep DEF NoSession
  <2>. QED
    BY <2>1, <2>2 DEF NoSession
<1>. QED
  BY <1>1, Safety, PTL DEF Spec, OnlyLoginBegins

\* So is the expiry of all its rows, once the refreshes that came in time are through,
\* whatever lifetime is configured and however long a handler waits before it checks.
THEOREM ExpiryIsFinal == Spec => ExpiredNeedsLogin
<1>1. AllInv /\ [Next]_vars =>
        [\A u \in Users, s \in Scopes :
           NoLiveSession(u, s) =>
             (NoLiveSession(u, s)' \/ \E q \in Requests : BeginLogin(q, u, s))]_vars
  <2>. SUFFICES ASSUME AllInv, [Next]_vars, NEW u \in Users, NEW s \in Scopes,
                       NoLiveSession(u, s), ~(\E q \in Requests : BeginLogin(q, u, s))
                PROVE  NoLiveSession(u, s)'
    OBVIOUS
  <2>. TypeOK /\ HandlerKnowsRow
    BY DEF AllInv, IndInv
  <2>1. NoneAdmitted(u, s)'
    BY AdmittedStep DEF NoLiveSession, InTime
  <2>2. now \in Nat /\ now' \in Nat /\ now <= now'
    <3>1. ASSUME NEW q \in Requests, IssuePair(q)
          PROVE  now' = now
      BY <3>1 DEF IssuePair
    <3>2. now' = now \/ Tick
      BY <3>1
      DEF Next, Advance, BeginLogin, BeginRefresh, BeginLogout, Present, InsertLogin,
          FindForRefresh, Rotate, FindForLogout, RevokeRow, Abort, DeleteUser, RestoreUser,
          vars
    <3>. QED
      BY <3>2 DEF TypeOK, Tick
  <2>3. ASSUME NEW i \in RowIds, rows'[i].status = "active", now' <= rows'[i].until
        PROVE  Identity(rows'[i].token) # <<u, s>>
    <3>1. SUFFICES ASSUME Identity(rows'[i].token) = <<u, s>>
                   PROVE  FALSE
      OBVIOUS
    <3>2. /\ rows[i].status = "active"
          /\ rows[i].token = rows'[i].token
          /\ rows[i].until = rows'[i].until
      BY <2>3, <3>1, ActiveRowStep DEF NoLiveSession
    <3>3. rows[i].until \in Nat
      BY <3>2 DEF TypeOK, Row, NoRow
    <3>4. now <= rows[i].until
      BY <2>2, <2>3, <3>2, <3>3
    <3>. QED
      BY <3>1, <3>2, <3>4 DEF NoLiveSession, Identity
  <2>. QED
    BY <2>1, <2>3 DEF NoLiveSession
<1>. QED
  BY <1>1, Safety, PTL DEF Spec, ExpiredNeedsLogin
-----------------------------------------------------------------------------
\* Sessions implement SessionLedger.  The ledger is seen through two functions;
\* what a step does to them follows from what it does to one row and one request.
LedgerOf == [i \in RowIds |-> EntryOf(i)]
ClaimsOf == [q \in Requests |-> ClaimOf(q)]

\* A stored row is an entry with the identity of its token.
LEMMA StoredEntry ==
  ASSUME TypeOK, NEW i \in Stored
  PROVE  /\ i \in RowIds
         /\ EntryOf(i) = [state  |-> IF rows[i].status = "active" THEN "open" ELSE "closed",
                          holder |-> rows[i].token.sub, right |-> rows[i].token.scope]
BY DEF Stored, Unused, EntryOf

\* A row that is free is an entry that was not issued.
LEMMA UnusedEntry ==
  ASSUME NEW i \in Unused
  PROVE  i \in RowIds /\ i \notin Stored /\ EntryOf(i) = Ledger!Unissued
BY DEF Unused, Stored, EntryOf, Ledger!Unissued

\* A row that a step leaves alone is the entry it was.
LEMMA SameEntry ==
  ASSUME NEW i \in RowIds, rows'[i] = rows[i]
  PROVE  EntryOf(i)' = EntryOf(i)
BY DEF EntryOf, Unused

LEMMA SameLedger ==
  ASSUME rows' = rows
  PROVE  LedgerOf' = LedgerOf
BY SameEntry DEF LedgerOf

\* The end of a request takes its claim away, if it had one.
LEMMA FinishDropsClaim ==
  ASSUME TypeOK, NEW q \in Requests, Finish(q)
  PROVE  /\ ClaimsOf' = [ClaimsOf EXCEPT ![q] = 0]
         /\ req[q].pc \notin {"refresh", "rotate"} => ClaimsOf' = ClaimsOf
<1>1. ASSUME NEW p \in Requests
      PROVE  ClaimOf(p)' = IF p = q THEN 0 ELSE ClaimOf(p)
  BY DEF TypeOK, Finish, ClaimOf, Idle
<1>2. req[q].pc \notin {"refresh", "rotate"} => ClaimOf(q) = 0
  BY DEF ClaimOf
<1>. QED
  BY <1>1, <1>2 DEF ClaimsOf

\* A request that is not a refresh past its check has no claim, nor has it after such
\* a step; one that goes on keeps what it has.
LEMMA ClaimlessStep ==
  ASSUME TypeOK, NEW q \in Requests,
         GoesOn(q) \/ (/\ req[q].pc \notin {"refresh", "rotate"}
                       /\ req'[q].pc \notin {"refresh", "rotate"}),
         \A p \in Requests \ {q} : req'[p] = req[p]
  PROVE  ClaimsOf' = ClaimsOf
<1>1. ASSUME NEW p \in Requests
      PROVE  ClaimOf(p)' = ClaimOf(p)
  BY DEF ClaimOf, GoesOn
<1>. QED
  BY <1>1 DEF ClaimsOf

\* A login that is stored opens an entry.
LEMMA InsertLoginOpens ==
  ASSUME TypeOK, NEW q \in Requests, InsertLogin(q)
  PROVE  [Ledger!LedgerNext]_(Ledger!ledgerVars)
<1>1. ClaimsOf' = ClaimsOf
  BY FinishDropsClaim DEF InsertLogin
<1>2. CASE OwnerExists(q)
  <2>1. PICK n \in Unused : rows' = [rows EXCEPT ![n] = NewRow(q, 0)]
    BY <1>2 DEF InsertLogin
  <2>2. req[q].token \in Token
    BY BusyByPc DEF InsertLogin, Busy
  <2>3. n \in RowIds /\ EntryOf(n) = Ledger!Unissued
    BY UnusedEntry
  <2>4. rows'[n] = NewRow(q, 0)
    BY <2>1, <2>3 DEF TypeOK
  <2>5. EntryOf(n)' = Ledger!Entry(req[q].token.sub, req[q].token.scope, "open")
    BY <2>4, BusyByPc, IssuedIsToken DEF InsertLogin, EntryOf, Unused, NewRow, Ledger!Entry
  <2>6. ASSUME NEW i \in RowIds, i # n
        PROVE  EntryOf(i)' = EntryOf(i)
    BY <2>1, <2>6, SameEntry DEF TypeOK
  <2>7. LedgerOf' = [LedgerOf EXCEPT ![n] =
                       Ledger!Entry(req[q].token.sub, req[q].token.scope, "open")]
    BY <2>3, <2>5, <2>6 DEF LedgerOf
  <2>8. LedgerOf[n] = Ledger!Unissued
    BY <2>3 DEF LedgerOf
  <2>9. Ledger!Open(n, req[q].token.sub, req[q].token.scope)
    BY <1>1, <1>2, <2>7, <2>8 DEF Ledger!Open, LedgerOf, ClaimsOf, OwnerExists, InsertLogin
  <2>. QED
    BY <2>2, <2>3, <2>9 DEF Ledger!LedgerNext, Token
<1>3. CASE ~OwnerExists(q)
  BY <1>1, <1>3, SameLedger DEF InsertLogin, Ledger!ledgerVars, LedgerOf, ClaimsOf
<1>. QED
  BY <1>2, <1>3

\* A refresh that finds its row active claims an open entry.
LEMMA FindForRefreshClaims ==
  ASSUME TypeOK, NEW q \in Requests, FindForRefresh(q)
  PROVE  [Ledger!LedgerNext]_(Ledger!ledgerVars)
<1>. DEFINE t == req[q].token
            r == First(ActiveRows(t))
<1>1. LedgerOf' = LedgerOf /\ users' = users
  BY SameLedger DEF FindForRefresh
<1>2. CASE Finish(q)
  BY <1>1, <1>2, FinishDropsClaim
  DEF FindForRefresh, Ledger!ledgerVars, LedgerOf, ClaimsOf
<1>3. CASE /\ ActiveRows(t) # {}
           /\ req' = [req EXCEPT ![q] = Handling("refresh", t, r, now)]
  <2>1. r \in RowIds /\ r \in Stored /\ rows[r].status = "active"
    BY <1>3, FirstIsMember DEF ActiveRows, Stored
  <2>2. LedgerOf[r].state = "open"
    BY <2>1, StoredEntry DEF LedgerOf
  <2>3. ClaimsOf[q] = 0
    BY DEF FindForRefresh, ClaimsOf, ClaimOf
  <2>4. ASSUME NEW p \in Requests
        PROVE  ClaimOf(p)' = IF p = q THEN r ELSE ClaimOf(p)
    BY <1>3 DEF TypeOK, ClaimOf, Handling
  <2>5. ClaimsOf' = [ClaimsOf EXCEPT ![q] = r]
    BY <2>4 DEF ClaimsOf
  <2>6. Ledger!Claim(q, r)
    BY <1>1, <2>2, <2>3, <2>5 DEF Ledger!Claim, Ledger!IsOpen, LedgerOf, ClaimsOf
  <2>. QED
    BY <2>1, <2>6 DEF Ledger!LedgerNext
<1>. QED
  BY <1>2, <1>3 DEF FindForRefresh

\* A rotation renews the entry that was claimed, or gives the claim up.
LEMMA RotateRenews ==
  ASSUME TypeOK, HandlerKnowsRow, NEW q \in Requests, Rotate(q)
  PROVE  [Ledger!LedgerNext]_(Ledger!ledgerVars)
<1>. req[q].row \in RowIds /\ req[q].token \in Token
  BY StoredIsRow, BusyByPc DEF HandlerKnowsRow, Rotate, Busy
<1>. PICK r \in RowIds, t \in Token : r = req[q].row /\ t = req[q].token
  OBVIOUS
<1>1. ClaimsOf' = [ClaimsOf EXCEPT ![q] = 0]
  BY FinishDropsClaim DEF Rotate
<1>2. r \in Stored /\ r \in RowIds /\ rows[r] \in Row /\ rows[r].token = t
  BY StoredIsRow DEF HandlerKnowsRow, Rotate
<1>3. ClaimsOf[q] = r /\ r # 0
  BY <1>2, BoundsAreNat DEF Rotate, ClaimsOf, ClaimOf, RowIds
<1>4. CASE OwnerExists(q)
  <2>1. PICK n \in Unused : rows' = AfterRotate(q, n)
    BY <1>4 DEF Rotate
  <2>2. n \in RowIds /\ n # r /\ EntryOf(n) = Ledger!Unissued
    BY <1>2, UnusedEntry
  <2>3. rows'[n] = NewRow(q, r)
    BY <2>1, <2>2 DEF TypeOK, AfterRotate
  <2>4. req[q] \in Busy
    BY BusyByPc DEF Rotate
  <2>5. EntryOf(n)' = Ledger!Entry(t.sub, t.scope, "open")
    BY <2>3, <2>4, IssuedIsToken DEF EntryOf, Unused, NewRow, Ledger!Entry
  <2>6. rows'[r] = [rows[r] EXCEPT !.status = "revoked"]
    BY <1>2, <2>1, <2>2 DEF TypeOK, AfterRotate
  <2>7. rows'[r].status = "revoked" /\ rows'[r].token = t
    BY <1>2, <2>6 DEF Row
  <2>8. EntryOf(r)' = Ledger!Entry(t.sub, t.scope, "closed")
    BY <1>2, <2>7 DEF EntryOf, Unused, Ledger!Entry
  <2>9. ASSUME NEW i \in RowIds, i # n, i # r
        PROVE  EntryOf(i)' = EntryOf(i)
    BY <2>1, <2>9, SameEntry DEF TypeOK, AfterRotate
  <2>10. LedgerOf[r].holder = t.sub /\ LedgerOf[r].right = t.scope
    BY <1>2, StoredEntry DEF LedgerOf
  <2>11. [LedgerOf[r] EXCEPT !.state = "closed"] = Ledger!Entry(t.sub, t.scope, "closed")
    BY <1>2, StoredEntry DEF LedgerOf, Ledger!Entry
  <2>12. LedgerOf' = [LedgerOf EXCEPT ![r] = Ledger!Entry(t.sub, t.scope, "closed"),
                                      ![n] = Ledger!Entry(t.sub, t.scope, "open")]
    BY <1>2, <2>2, <2>5, <2>8, <2>9 DEF LedgerOf
  <2>13. LedgerOf[n] = Ledger!Unissued
    BY <2>2 DEF LedgerOf
  <2>14. t.sub \in users /\ users' = users
    BY <1>4 DEF OwnerExists, Rotate
  <2>15. Ledger!Renew(q, n)
    BY <1>1, <1>3, <2>10, <2>11, <2>12, <2>13, <2>14
    DEF Ledger!Renew, Ledger!Closed, LedgerOf, ClaimsOf
  <2>. QED
    BY <2>2, <2>15 DEF Ledger!LedgerNext
<1>5. CASE ~OwnerExists(q)
  <2>1. Ledger!Drop(q)
    BY <1>1, <1>5, SameLedger DEF Rotate, Ledger!Drop, LedgerOf, ClaimsOf
  <2>. QED
    BY <2>1 DEF Ledger!LedgerNext
<1>. QED
  BY <1>4, <1>5

\* A logout closes the entry it found, whether it is still open or not.
LEMMA RevokeRowCloses ==
  ASSUME TypeOK, HandlerKnowsRow, NEW q \in Requests, RevokeRow(q)
  PROVE  [Ledger!LedgerNext]_(Ledger!ledgerVars)
<1>. req[q].row \in RowIds
  BY StoredIsRow DEF HandlerKnowsRow, RevokeRow
<1>. PICK r \in RowIds : r = req[q].row
  OBVIOUS
<1>. PICK t : t = rows[r].token
  OBVIOUS
<1>1. ClaimsOf' = ClaimsOf /\ users' = users
  BY FinishDropsClaim DEF RevokeRow
<1>2. CASE OwnerExists(q)
  <2>1. rows' = AfterRevoke(q)
    BY <1>2 DEF RevokeRow
  <2>2. r \in Stored /\ r \in RowIds /\ rows[r] \in Row
    BY StoredIsRow DEF HandlerKnowsRow, RevokeRow
  <2>3. rows'[r] = [rows[r] EXCEPT !.status = "revoked"]
    BY <2>1, <2>2 DEF TypeOK, AfterRevoke
  <2>4. rows'[r].status = "revoked" /\ rows'[r].token = rows[r].token
    BY <2>2, <2>3 DEF Row
  <2>5. EntryOf(r)' = Ledger!Entry(t.sub, t.scope, "closed")
    BY <2>2, <2>4 DEF EntryOf, Unused, Ledger!Entry
  <2>6. [LedgerOf[r] EXCEPT !.state = "closed"] =
          Ledger!Entry(t.sub, t.scope, "closed")
    BY <2>2, StoredEntry DEF LedgerOf, Ledger!Entry
  <2>7. LedgerOf[r] # Ledger!Unissued
    <3>1. LedgerOf[r].state # "unissued"
      BY <2>2, StoredEntry DEF LedgerOf
    <3>. QED
      BY <3>1 DEF Ledger!Unissued
  <2>8. ASSUME NEW i \in RowIds, i # r
        PROVE  EntryOf(i)' = EntryOf(i)
    BY <2>1, <2>8, SameEntry DEF TypeOK, AfterRevoke
  <2>9. LedgerOf' = [LedgerOf EXCEPT ![r] =
                       Ledger!Entry(t.sub, t.scope, "closed")]
    BY <2>2, <2>5, <2>8 DEF LedgerOf
  <2>10. Ledger!Close(r)
    BY <1>1, <2>6, <2>7, <2>9 DEF Ledger!Close, Ledger!Closed, LedgerOf, ClaimsOf
  <2>. QED
    BY <2>2, <2>10 DEF Ledger!LedgerNext
<1>3. CASE ~OwnerExists(q)
  BY <1>1, <1>3, SameLedger DEF RevokeRow, Ledger!ledgerVars, LedgerOf, ClaimsOf
<1>. QED
  BY <1>2, <1>3

\* A user who is deleted leaves, and all entries that were issued to the user close.
LEMMA DeleteUserLeaves ==
  ASSUME TypeOK, NEW u \in Users, DeleteUser(u)
  PROVE  [Ledger!LedgerNext]_(Ledger!ledgerVars)
<1>. DEFINE Cut(i) == IF LedgerOf[i] # Ledger!Unissued /\ LedgerOf[i].holder = u
                      THEN [LedgerOf[i] EXCEPT !.state = "closed"] ELSE LedgerOf[i]
<1>1. ClaimsOf' = ClaimsOf
  BY DEF DeleteUser, ClaimsOf, ClaimOf
<1>2. ASSUME NEW i \in RowIds
      PROVE  EntryOf(i)' = Cut(i)
  <2>1. CASE i \in Unused
    <3>1. rows'[i] = rows[i]
      BY <2>1 DEF DeleteUser, Unused
    <3>. QED
      BY <2>1, <3>1, SameEntry, UnusedEntry DEF LedgerOf
  <2>2. CASE i \in Stored /\ rows[i].token.sub = u
    <3>1. rows[i] \in Row
      BY <2>2, StoredIsRow
    <3>2. rows'[i].status \in {"revoked", "deleted"} => rows'[i].token = rows[i].token
      BY <2>2, <3>1 DEF DeleteUser, Row
    <3>3. rows'[i].status = "deleted"
      BY <2>2, <3>1 DEF DeleteUser, Row
    <3>4. EntryOf(i)' = [state |-> "closed", holder |-> rows[i].token.sub,
                         right |-> rows[i].token.scope]
      BY <3>2, <3>3 DEF EntryOf, Unused
    <3>5. LedgerOf[i] = [state |-> IF rows[i].status = "active" THEN "open" ELSE "closed",
                         holder |-> u, right |-> rows[i].token.scope]
      BY <2>2, StoredEntry DEF LedgerOf
    <3>6. LedgerOf[i] # Ledger!Unissued
      <4>1. LedgerOf[i].state # "unissued"
        BY <3>5
      <4>. QED
        BY <4>1 DEF Ledger!Unissued
    <3>. QED
      BY <2>2, <3>4, <3>5, <3>6
  <2>3. CASE i \in Stored /\ rows[i].token.sub # u
    <3>1. rows'[i] = rows[i]
      BY <2>3 DEF DeleteUser
    <3>2. LedgerOf[i].holder # u
      BY <2>3, StoredEntry DEF LedgerOf
    <3>. QED
      BY <3>1, <3>2, SameEntry DEF LedgerOf
  <2>. QED
    BY <2>1, <2>2, <2>3 DEF Unused, Stored
<1>3. LedgerOf' = [i \in RowIds |-> Cut(i)]
  BY <1>2 DEF LedgerOf
<1>4. Ledger!Leave(u)
  BY <1>1, <1>3 DEF DeleteUser, Ledger!Leave, Ledger!Closed, LedgerOf, ClaimsOf
<1>. QED
  BY <1>4 DEF Ledger!LedgerNext

\* Sessions do what the ledger promises, for any number of users, rows and slots:
\* a session goes on only through claims on an open entry, each used at most once.
THEOREM SessionsKeepLedger == Spec => KeepsLedger
<1>1. Init => Ledger!LedgerInit
  <2>. SUFFICES ASSUME Init PROVE Ledger!LedgerInit
    OBVIOUS
  <2>1. \A i \in RowIds : EntryOf(i) = Ledger!Unissued
    BY UnusedEntry DEF Init, NoRow, Unused
  <2>2. \A q \in Requests : ClaimOf(q) = 0
    BY DEF Init, Idle, ClaimOf
  <2>. QED
    BY <2>1, <2>2 DEF Init, Ledger!LedgerInit
<1>2. AllInv /\ [Next]_vars => [Ledger!LedgerNext]_(Ledger!ledgerVars)
  <2>. SUFFICES ASSUME AllInv, [Next]_vars
                PROVE  [Ledger!LedgerNext]_(Ledger!ledgerVars)
    OBVIOUS
  <2>. TypeOK /\ HandlerKnowsRow
    BY DEF AllInv, IndInv
  <2>1. ASSUME NEW q \in Requests,
               GoesOn(q) \/ (/\ req[q].pc \notin {"refresh", "rotate"}
                             /\ req'[q].pc \notin {"refresh", "rotate"}),
               \A p \in Requests \ {q} : req'[p] = req[p], rows' = rows, users' = users
        PROVE  UNCHANGED Ledger!ledgerVars
    BY <2>1, ClaimlessStep, SameLedger DEF Ledger!ledgerVars, LedgerOf, ClaimsOf
  <2>2. ASSUME NEW q \in Requests, NEW u \in Users, NEW s \in Scopes, BeginLogin(q, u, s)
        PROVE  UNCHANGED Ledger!ledgerVars
    BY <2>1, <2>2 DEF BeginLogin, Handling, TypeOK, Idle
  <2>3. ASSUME NEW q \in Requests, NEW t \in HandedOut, NEW pc \in {"findRefresh", "findLogout"},
               Present(q, t, pc)
        PROVE  UNCHANGED Ledger!ledgerVars
    BY <2>1, <2>3 DEF Present, Handling, TypeOK, Idle
  <2>4. ASSUME NEW q \in Requests, FindForLogout(q)
        PROVE  UNCHANGED Ledger!ledgerVars
    <3>1. req[q] \in Busy
      BY <2>4, BusyByPc DEF FindForLogout
    <3>2. req'[q].pc \notin {"refresh", "rotate"} /\ \A p \in Requests \ {q} : req'[p] = req[p]
      BY <2>4, <3>1 DEF FindForLogout, Finish, Idle, TypeOK, Busy
    <3>. QED
      BY <2>1, <2>4, <3>2 DEF FindForLogout
  <2>5. ASSUME NEW q \in Requests, Abort(q)
        PROVE  Ledger!LedgerNext
    <3>1. Ledger!Drop(q)
      BY <2>5, FinishDropsClaim, SameLedger DEF Abort, Ledger!Drop, LedgerOf, ClaimsOf
    <3>. QED
      BY <3>1 DEF Ledger!LedgerNext
  <2>6. ASSUME NEW u \in Users, RestoreUser(u)
        PROVE  Ledger!LedgerNext
    <3>1. Ledger!Return(u)
      BY <2>6, SameLedger DEF RestoreUser, Ledger!Return, LedgerOf, ClaimOf
    <3>. QED
      BY <3>1 DEF Ledger!LedgerNext
  <2>7. ASSUME Tick \/ UNCHANGED vars
        PROVE  UNCHANGED Ledger!ledgerVars
    BY <2>7, SameLedger DEF Tick, vars, Ledger!ledgerVars, LedgerOf, ClaimOf
  <2>8. ASSUME NEW q \in Requests, IssuePair(q)
        PROVE  UNCHANGED Ledger!ledgerVars
    <3>1. GoesOn(q) /\ \A p \in Requests \ {q} : req'[p] = req[p]
      BY <2>8, IssuePairStep DEF TypeOK
    <3>. QED
      BY <2>1, <2>8, <3>1 DEF IssuePair
  <2>. QED
    BY <2>2, <2>3, <2>4, <2>5, <2>6, <2>7, <2>8, InsertLoginOpens, FindForRefreshClaims,
       RotateRenews, RevokeRowCloses, DeleteUserLeaves
    DEF Next, Advance, BeginRefresh, BeginLogout
<1>. QED
  BY <1>1, <1>2, Safety, PTL DEF Spec, KeepsLedger, Ledger!LedgerSpec
=============================================================================
