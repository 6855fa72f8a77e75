--------------------------- MODULE AccountsProofs ---------------------------
(***************************************************************************)
(* Proofs about module Accounts, for every set of addresses, passwords and *)
(* request slots and every value of the bounds.                            *)
(*                                                                         *)
(* Typing comes first.  AllInv adds to the safety properties what the      *)
(* copies held by the handlers have to do with the rows they are copies of *)
(* (CopyIsGrounded, CopyIsFresh); each part is preserved in a lemma of its *)
(* own, from one lemma per action that writes the table.                   *)
(***************************************************************************)
EXTENDS Accounts, TLAPS

LEMMA BusyByPc ==
  ASSUME TypeOK, NEW q \in Requests, req[q].pc \in {"create", "verify", "reset"}
  PROVE  req[q] \in Busy /\ req[q] # Idle
BY DEF TypeOK, Idle

LEMMA StoredIsRow ==
  ASSUME TypeOK, NEW i \in UserIds \ Unused
  PROVE  users[i] \in UserRow /\ users[i].account \in Account /\ answers[i] \in Answer
BY DEF TypeOK, Unused, NoRow, UserRow

-----------------------------------------------------------------------------
\* The four things a step can do to the table: nothing, insert, save, delete.

Quiet ==
  /\ UNCHANGED <<users, answers, overlapped>>
  /\ opened \subseteq opened'
  /\ \A i \in UserIds : chosen[i] \subseteq chosen'[i]

Inserted(q, n) ==
  /\ req[q].pc = "create"
  /\ EmailIsFree(n, req[q].copy.email)
  /\ users' = [users EXCEPT ![n] = [status |-> "stored", account |-> req[q].copy]]
  /\ answers' = [answers EXCEPT ![n] =
       [password |-> req[q].copy.password, verified |-> FALSE, gone |-> FALSE]]
  /\ chosen' = [chosen EXCEPT ![n] = @ \cup {req[q].copy.password}]
  /\ SendToken(n)
  /\ Finish(q)
  /\ UNCHANGED <<now, opened, overlapped, spent>>

SavedAs(q, i) ==
  /\ req[q].pc \in {"verify", "reset"}
  /\ i = req[q].id
  /\ EmailIsFree(i, req[q].copy.email)
  /\ users' = [users EXCEPT ![i] = [status |-> "stored", account |-> req[q].copy]]
  /\ answers' = [answers EXCEPT ![i] =
       IF req[q].pc = "verify" THEN [@ EXCEPT !.verified = TRUE]
                               ELSE [@ EXCEPT !.password = req[q].copy.password]]
  /\ spent' \in {spent, spent \cup {req[q].token}}
  /\ Write(i, HoldersOf(i) \ {q})
  /\ Finish(q)
  /\ UNCHANGED <<now, mail, opened, chosen>>

LEMMA StepKinds ==
  ASSUME TypeOK, [Next]_vars
  PROVE  \/ Quiet
         \/ \E q \in Requests, n \in Unused : Inserted(q, n)
         \/ \E q \in Requests : SavedAs(q, req[q].id)
         \/ \E i \in UserIds : DeleteUser(i)
<1>1. ASSUME NEW q \in Requests, InsertUser(q)
      PROVE  Quiet \/ \E n \in Unused : Inserted(q, n)
  BY <1>1 DEF InsertUser, Inserted, Quiet
<1>2. ASSUME NEW q \in Requests, SaveUser(q)
      PROVE  Quiet \/ SavedAs(q, req[q].id)
  BY <1>2 DEF SaveUser, SavedAs, Quiet, history
<1>3. ASSUME NEW q \in Requests, NEW t \in mail, NEW pw \in Passwords,
             BeginResetPassword(q, t, pw)
      PROVE  Quiet
  BY <1>3 DEF BeginResetPassword, ReadUser, Quiet, TypeOK, Token
<1>4. ASSUME NEW q \in Requests, NEW t \in mail, BeginVerifyEmail(q, t)
      PROVE  Quiet
  BY <1>4 DEF BeginVerifyEmail, ReadUser, Quiet
<1>. QED
  BY <1>1, <1>2, <1>3, <1>4
  DEF Next, Advance, BeginRegister, Abort, ForgotPassword, Tick, Quiet, history, vars

\* A handler that holds a copy after a step held it before, or has just made it
\* from a stored row, in a step that leaves the table alone.
JustRead(q) ==
  /\ Quiet
  /\ req'[q] \in Busy
  /\ req'[q].pc = "create" => ~req'[q].copy.verified
  /\ req'[q].pc \in {"verify", "reset"} => req'[q].id \in Stored /\ req'[q].token \in Token
  /\ req'[q].pc = "verify" => /\ req'[q].copy = VerifiedCopy(req'[q].id)
                             /\ req'[q].id \in opened'
  /\ req'[q].pc = "reset" => \E pw \in Passwords : /\ req'[q].copy = ResetCopy(req'[q].id, pw)
                                                   /\ pw \in chosen'[req'[q].id]

LEMMA ReadersStep ==
  ASSUME TypeOK, [Next]_vars, NEW q \in Requests
  PROVE  req'[q] = req[q] \/ req'[q] = Idle \/ JustRead(q)
<1>1. ASSUME NEW p \in Requests, NEW e \in Addresses, NEW pw \in Passwords,
             BeginRegister(p, e, pw)
      PROVE  req'[q] = req[q] \/ JustRead(q)
  <2>. DEFINE b == [pc |-> "create", id |-> 0, token |-> NoToken,
                    copy |-> [email |-> e, password |-> pw, verified |-> FALSE]]
  <2>1. b \in Busy
    BY DEF Busy, Account
  <2>2. q # p => req'[q] = req[q]
    BY <1>1 DEF BeginRegister, TypeOK
  <2>3. q = p => req'[q] = b
    BY <1>1 DEF BeginRegister, TypeOK
  <2>4. Quiet
    BY <1>1 DEF BeginRegister, Quiet, history
  <2>. QED
    BY <2>1, <2>2, <2>3, <2>4 DEF JustRead
<1>2. ASSUME NEW p \in Requests, NEW t \in mail, BeginVerifyEmail(p, t)
      PROVE  req'[q] = req[q] \/ JustRead(q)
  <2>. DEFINE b == [pc |-> "verify", id |-> t.sub, copy |-> VerifiedCopy(t.sub), token |-> t]
  <2>1. t.sub \in UserIds /\ t.sub \in Stored /\ t \in Token
    BY <1>2 DEF BeginVerifyEmail, ReadUser, TypeOK, Token
  <2>2. b \in Busy
    BY <2>1, StoredIsRow DEF VerifiedCopy, Stored, Unused, Account, Busy
  <2>3. (q # p => req'[q] = req[q]) /\ (q = p => req'[q] = b)
    BY <1>2 DEF BeginVerifyEmail, ReadUser, TypeOK
  <2>4. Quiet /\ t.sub \in opened'
    BY <1>2 DEF BeginVerifyEmail, ReadUser, Quiet
  <2>. QED
    BY <2>1, <2>2, <2>3, <2>4 DEF JustRead
<1>3. ASSUME NEW p \in Requests, NEW t \in mail, NEW pw \in Passwords,
             BeginResetPassword(p, t, pw)
      PROVE  req'[q] = req[q] \/ JustRead(q)
  <2>. DEFINE b == [pc |-> "reset", id |-> t.sub, copy |-> ResetCopy(t.sub, pw), token |-> t]
  <2>1. t.sub \in UserIds /\ t.sub \in Stored /\ t \in Token
    BY <1>3 DEF BeginResetPassword, ReadUser, TypeOK, Token
  <2>2. b \in Busy
    BY <2>1, StoredIsRow DEF ResetCopy, Stored, Unused, Account, Busy
  <2>3. (q # p => req'[q] = req[q]) /\ (q = p => req'[q] = b)
    BY <1>3 DEF BeginResetPassword, ReadUser, TypeOK
  <2>4. Quiet /\ pw \in chosen'[t.sub]
    BY <1>3, <2>1 DEF BeginResetPassword, ReadUser, Quiet, TypeOK
  <2>. QED
    BY <2>1, <2>2, <2>3, <2>4 DEF JustRead
<1>4. ASSUME NEW p \in Requests, Finish(p)
      PROVE  req'[q] = req[q] \/ req'[q] = Idle
  BY <1>4 DEF Finish, TypeOK
<1>. QED
  BY <1>1, <1>2, <1>3, <1>4
  DEF Next, Advance, InsertUser, SaveUser, Abort, ForgotPassword, DeleteUser, Tick, vars

-----------------------------------------------------------------------------
LEMMA SendTokenTyping ==
  ASSUME TypeOK, NEW i \in UserIds, SendToken(i)
  PROVE  mail' \subseteq Token
BY BoundsAreNat DEF SendToken, Token, TypeOK

LEMMA InsertTyping ==
  ASSUME TypeOK, NEW q \in Requests, NEW n \in Unused, Inserted(q, n)
  PROVE  TypeOK'
<1>. DEFINE pw == req[q].copy.password
<1>1. /\ [status |-> "stored", account |-> req[q].copy] \in UserRow
      /\ pw \in Passwords
      /\ [password |-> pw, verified |-> FALSE, gone |-> FALSE] \in Answer
  BY BusyByPc DEF Inserted, Busy, UserRow, Account, Answer
<1>2. n \in UserIds
  BY DEF Unused
<1>3. mail' \subseteq Token
  BY <1>2, SendTokenTyping DEF Inserted
<1>4. /\ users' \in [UserIds -> UserRow \cup {NoRow}]
      /\ answers' \in [UserIds -> Answer \cup {NoAnswer}]
      /\ answers'[n] \in Answer
      /\ \A i \in UserIds : i # n => users'[i] = users[i] /\ answers'[i] = answers[i]
  BY <1>1, <1>2 DEF Inserted, TypeOK
<1>5. \A i \in UserIds \ Unused' : answers'[i] \in Answer
  BY <1>4 DEF TypeOK, Unused
<1>6. chosen' \in [UserIds -> SUBSET Passwords]
  BY <1>1, <1>2 DEF Inserted, TypeOK
<1>. QED
  BY <1>3, <1>4, <1>5, <1>6 DEF Inserted, Finish, TypeOK

LEMMA SaveTyping ==
  ASSUME TypeOK, CopyIsGrounded, NEW q \in Requests, SavedAs(q, req[q].id)
  PROVE  TypeOK'
<1>. DEFINE i == req[q].id
<1>1. i \in UserIds \ Unused /\ req[q] \in Busy
  BY BusyByPc DEF SavedAs, CopyIsGrounded
<1>2. [status |-> "stored", account |-> req[q].copy] \in UserRow
  BY <1>1 DEF Busy, UserRow
<1>3. answers[i] \in Answer
  BY <1>1, StoredIsRow
<1>4. IF req[q].pc = "verify" THEN [answers[i] EXCEPT !.verified = TRUE] \in Answer
                              ELSE [answers[i] EXCEPT !.password = req[q].copy.password] \in Answer
  BY <1>1, <1>3 DEF Answer, Busy, Account
<1>5. /\ users' \in [UserIds -> UserRow \cup {NoRow}]
      /\ answers' \in [UserIds -> Answer \cup {NoAnswer}]
      /\ answers'[i] \in Answer
      /\ \A j \in UserIds : j # i => users'[j] = users[j] /\ answers'[j] = answers[j]
  BY <1>1, <1>2, <1>4 DEF SavedAs, TypeOK
<1>6. \A j \in UserIds \ Unused' : answers'[j] \in Answer
  BY <1>5 DEF TypeOK, Unused
<1>7. spent' \subseteq Token
  <2>1. req[q].token \in Token
    BY <1>1 DEF SavedAs, CopyIsGrounded
  <2>. QED
    BY <2>1 DEF SavedAs, TypeOK
<1>. QED
  BY <1>1, <1>5, <1>6, <1>7 DEF SavedAs, Write, Finish, TypeOK

LEMMA DeleteTyping ==
  ASSUME TypeOK, NEW i \in UserIds, DeleteUser(i)
  PROVE  TypeOK'
<1>1. i \in UserIds \ Unused
  BY DEF DeleteUser, Stored, Unused
<1>2. [users[i] EXCEPT !.status = "deleted"] \in UserRow
  BY <1>1, StoredIsRow DEF UserRow
<1>3. [answers[i] EXCEPT !.gone = TRUE] \in Answer
  BY <1>1, StoredIsRow DEF Answer
<1>4. /\ users' \in [UserIds -> UserRow \cup {NoRow}]
      /\ answers' \in [UserIds -> Answer \cup {NoAnswer}]
      /\ answers'[i] \in Answer
      /\ \A j \in UserIds : j # i => users'[j] = users[j] /\ answers'[j] = answers[j]
  BY <1>1, <1>2, <1>3 DEF DeleteUser, TypeOK
<1>5. \A j \in UserIds \ Unused' : answers'[j] \in Answer
  BY <1>4 DEF TypeOK, Unused
<1>. QED
  BY <1>4, <1>5 DEF DeleteUser, Write, TypeOK

LEMMA TypingStep ==
  ASSUME TypeOK, CopyIsGrounded, [Next]_vars
  PROVE  TypeOK'
<1>. USE DEF history
<1>1. \A q \in Requests : req'[q] \in Busy \cup {Idle}
  BY ReadersStep DEF TypeOK, JustRead
<1>2. ASSUME NEW q \in Requests, NEW e \in Addresses, NEW pw \in Passwords,
             BeginRegister(q, e, pw)
      PROVE  TypeOK'
  BY <1>1, <1>2 DEF BeginRegister, TypeOK, Unused
<1>3. ASSUME NEW q \in Requests, NEW t \in mail, BeginVerifyEmail(q, t)
      PROVE  TypeOK'
  <2>1. t.sub \in UserIds
    BY <1>3 DEF BeginVerifyEmail, ReadUser, Stored
  <2>. QED
    BY <1>1, <1>3, <2>1 DEF BeginVerifyEmail, ReadUser, TypeOK, Unused
<1>4. ASSUME NEW q \in Requests, NEW t \in mail, NEW pw \in Passwords,
             BeginResetPassword(q, t, pw)
      PROVE  TypeOK'
  <2>1. chosen' \in [UserIds -> SUBSET Passwords]
    BY <1>4 DEF BeginResetPassword, TypeOK
  <2>. QED
    BY <1>1, <1>4, <2>1 DEF BeginResetPassword, ReadUser, TypeOK, Unused
<1>5. ASSUME NEW q \in Requests, Finish(q), UNCHANGED <<now, users, mail, history>>
      PROVE  TypeOK'
  BY <1>5 DEF Finish, TypeOK, Unused
<1>6. ASSUME NEW q \in Requests, InsertUser(q)
      PROVE  TypeOK'
  <2>1. CASE \E n \in Unused : Inserted(q, n)
    BY <2>1, InsertTyping
  <2>2. CASE UNCHANGED <<users, mail, answers, chosen>>
    BY <1>5, <1>6, <2>2 DEF InsertUser
  <2>. QED
    BY <1>6, <2>1, <2>2 DEF InsertUser, Inserted
<1>7. ASSUME NEW q \in Requests, SaveUser(q)
      PROVE  TypeOK'
  <2>1. CASE SavedAs(q, req[q].id)
    BY <2>1, SaveTyping
  <2>2. CASE UNCHANGED <<users, history>>
    BY <1>5, <1>7, <2>2 DEF SaveUser
  <2>. QED
    BY <1>7, <2>1, <2>2 DEF SaveUser, SavedAs
<1>8. ASSUME NEW q \in Requests, Abort(q)
      PROVE  TypeOK'
  BY <1>5, <1>8 DEF Abort
<1>9. ASSUME NEW e \in Addresses, ForgotPassword(e)
      PROVE  TypeOK'
  <2>1. mail' \subseteq Token
    BY <1>9, SendTokenTyping DEF ForgotPassword, Stored, TypeOK
  <2>. QED
    BY <1>9, <2>1 DEF ForgotPassword, TypeOK, Unused
<1>10. CASE Tick
  BY <1>10 DEF Tick, TypeOK, Unused
<1>11. CASE UNCHANGED vars
  BY <1>11 DEF vars, TypeOK, Unused
<1>. QED
  BY <1>2, <1>3, <1>4, <1>6, <1>7, <1>8, <1>9, <1>10, <1>11, DeleteTyping DEF Next, Advance

-----------------------------------------------------------------------------
\* The safety properties of Accounts with what makes them inductive.
AllInv ==
  /\ TypeOK
  /\ IndInv
  /\ OneAccountPerAddress
  /\ VerifiedByMail
  /\ PasswordWasChosen
  /\ KeptUnlessOverlapped

\* What each write leaves in the table, column by column.
Others(S) == \A j \in UserIds \ S : users'[j] = users[j] /\ answers'[j] = answers[j]

InsertLeaves(q, n) ==
  /\ n \in UserIds \ Stored
  /\ Stored' = Stored \cup {n}
  /\ users'[n].account = req[q].copy
  /\ answers'[n].password = req[q].copy.password
  /\ answers'[n].verified = FALSE
  /\ answers'[n].gone = FALSE
  /\ \A i \in UserIds : chosen[i] \subseteq chosen'[i]
  /\ req[q].copy.password \in chosen'[n]
  /\ Others({n})

SaveLeaves(q, i) ==
  /\ i \in UserIds \ Unused
  /\ Stored' = Stored \cup {i}
  /\ users'[i].account = req[q].copy
  /\ req[q].pc = "verify" => /\ answers'[i].verified = TRUE
                            /\ answers'[i].password = answers[i].password
  /\ req[q].pc = "reset" => /\ answers'[i].verified = answers[i].verified
                           /\ answers'[i].password = req[q].copy.password
  /\ answers'[i].gone = answers[i].gone
  /\ Others({i})

DeleteLeaves(i) ==
  /\ i \in Stored
  /\ Stored' = Stored \ {i}
  /\ users'[i].status = "deleted"
  /\ users'[i].account = users[i].account
  /\ Others({i})

LEMMA StoredAreIds == Stored \subseteq UserIds
BY DEF Stored

LEMMA InsertEffect ==
  ASSUME TypeOK, NEW q \in Requests, NEW n \in Unused, Inserted(q, n)
  PROVE  InsertLeaves(q, n)
BY DEF Inserted, InsertLeaves, Others, TypeOK, Unused, Stored

LEMMA SaveEffect ==
  ASSUME TypeOK, CopyIsGrounded, NEW q \in Requests, SavedAs(q, req[q].id)
  PROVE  SaveLeaves(q, req[q].id)
<1>1. req[q].id \in UserIds \ Unused
  BY DEF SavedAs, CopyIsGrounded
<1>2. answers[req[q].id] \in Answer
  BY <1>1, StoredIsRow
<1>. QED
  BY <1>1, <1>2 DEF SavedAs, SaveLeaves, Others, TypeOK, Stored, Answer

LEMMA DeleteEffect ==
  ASSUME TypeOK, NEW i \in UserIds, DeleteUser(i)
  PROVE  DeleteLeaves(i)
<1>1. users[i] \in UserRow
  BY StoredIsRow DEF DeleteUser, Stored, Unused
<1>. QED
  BY <1>1 DEF DeleteUser, DeleteLeaves, Others, TypeOK, Stored, UserRow

\* The UNIQUE index holds for both ways a row can appear.
LEMMA OneAccountStep ==
  ASSUME TypeOK, CopyIsGrounded, OneAccountPerAddress, [Next]_vars
  PROVE  OneAccountPerAddress'
<1>. USE StoredAreIds DEF OneAccountPerAddress, Email
<1>1. CASE Quiet
  BY <1>1 DEF Quiet, Stored
<1>2. ASSUME NEW q \in Requests, NEW n \in Unused, Inserted(q, n)
      PROVE  OneAccountPerAddress'
  <2>1. \A j \in Stored : users[j].account.email = req[q].copy.email => j = n
    BY <1>2 DEF Inserted, EmailIsFree
  <2>2. InsertLeaves(q, n)
    BY <1>2, InsertEffect
  <2>. QED
    BY <2>1, <2>2 DEF InsertLeaves, Others
<1>3. ASSUME NEW q \in Requests, SavedAs(q, req[q].id)
      PROVE  OneAccountPerAddress'
  <2>1. \A j \in Stored : users[j].account.email = req[q].copy.email => j = req[q].id
    BY <1>3 DEF SavedAs, EmailIsFree
  <2>2. SaveLeaves(q, req[q].id)
    BY <1>3, SaveEffect
  <2>. QED
    BY <2>1, <2>2 DEF SaveLeaves, Others
<1>4. ASSUME NEW i \in UserIds, DeleteUser(i)
      PROVE  OneAccountPerAddress'
  <2>1. DeleteLeaves(i)
    BY <1>4, DeleteEffect
  <2>. QED
    BY <2>1 DEF DeleteLeaves, Others
<1>. QED
  BY <1>1, <1>2, <1>3, <1>4, StepKinds

LEMMA VerifiedStep ==
  ASSUME TypeOK, CopyIsGrounded, VerifiedByMail, [Next]_vars
  PROVE  VerifiedByMail'
<1>. USE StoredAreIds DEF VerifiedByMail
<1>1. CASE Quiet
  BY <1>1 DEF Quiet, Stored
<1>2. ASSUME NEW q \in Requests, NEW n \in Unused, Inserted(q, n)
      PROVE  VerifiedByMail'
  <2>1. InsertLeaves(q, n)
    BY <1>2, InsertEffect
  <2>. QED
    BY <1>2, <2>1 DEF Inserted, InsertLeaves, Others, CopyIsGrounded
<1>3. ASSUME NEW q \in Requests, SavedAs(q, req[q].id)
      PROVE  VerifiedByMail'
  <2>1. SaveLeaves(q, req[q].id)
    BY <1>3, SaveEffect
  <2>. QED
    BY <1>3, <2>1 DEF SavedAs, SaveLeaves, Others, CopyIsGrounded
<1>4. ASSUME NEW i \in UserIds, DeleteUser(i)
      PROVE  VerifiedByMail'
  <2>1. DeleteLeaves(i)
    BY <1>4, DeleteEffect
  <2>. QED
    BY <1>4, <2>1 DEF DeleteUser, DeleteLeaves, Others
<1>. QED
  BY <1>1, <1>2, <1>3, <1>4, StepKinds

LEMMA ChosenStep ==
  ASSUME TypeOK, CopyIsGrounded, PasswordWasChosen, [Next]_vars
  PROVE  PasswordWasChosen'
<1>. USE StoredAreIds DEF PasswordWasChosen
<1>1. CASE Quiet
  BY <1>1 DEF Quiet, Stored
<1>2. ASSUME NEW q \in Requests, NEW n \in Unused, Inserted(q, n)
      PROVE  PasswordWasChosen'
  <2>1. InsertLeaves(q, n)
    BY <1>2, InsertEffect
  <2>. QED
    BY <2>1 DEF InsertLeaves, Others
<1>3. ASSUME NEW q \in Requests, SavedAs(q, req[q].id)
      PROVE  PasswordWasChosen'
  <2>1. SaveLeaves(q, req[q].id)
    BY <1>3, SaveEffect
  <2>. QED
    BY <1>3, <2>1 DEF SavedAs, SaveLeaves, Others, CopyIsGrounded
<1>4. ASSUME NEW i \in UserIds, DeleteUser(i)
      PROVE  PasswordWasChosen'
  <2>1. DeleteLeaves(i)
    BY <1>4, DeleteEffect
  <2>. QED
    BY <1>4, <2>1 DEF DeleteUser, DeleteLeaves, Others
<1>. QED
  BY <1>1, <1>2, <1>3, <1>4, StepKinds

\* A Save restores a deleted row only if the deletion marked it as overlapped;
\* otherwise the copy differs from the row in the column that is answered for.
LEMMA KeptStep ==
  ASSUME TypeOK, IndInv, KeptUnlessOverlapped, [Next]_vars
  PROVE  KeptUnlessOverlapped'
<1>. USE StoredAreIds DEF KeptUnlessOverlapped
<1>. CopyIsGrounded /\ CopyIsFresh
  BY DEF IndInv
<1>1. CASE Quiet
  BY <1>1 DEF Quiet, Stored
<1>2. ASSUME NEW q \in Requests, NEW n \in Unused, Inserted(q, n)
      PROVE  KeptUnlessOverlapped'
  <2>1. InsertLeaves(q, n)
    BY <1>2, InsertEffect
  <2>2. ~req[q].copy.verified /\ overlapped' = overlapped
    BY <1>2 DEF Inserted, CopyIsGrounded
  <2>3. req[q].copy.verified = FALSE
    BY <1>2, <2>2, BusyByPc DEF Inserted, Busy, Account
  <2>. QED
    BY <2>1, <2>2, <2>3 DEF InsertLeaves, Others
<1>3. ASSUME NEW q \in Requests, SavedAs(q, req[q].id)
      PROVE  KeptUnlessOverlapped'
  <2>. DEFINE i == req[q].id
  <2>0. SaveLeaves(q, i)
    BY <1>3, SaveEffect
  <2>1. overlapped \subseteq overlapped'
    BY <1>3 DEF SavedAs, Write
  <2>2. ASSUME i \notin overlapped
        PROVE  /\ users'[i].account.password = answers'[i].password
               /\ users'[i].account.verified = answers'[i].verified
               /\ ~answers'[i].gone
    <3>1. /\ i \in Stored
          /\ users[i].account.password = answers[i].password
          /\ users[i].account.verified = answers[i].verified
          /\ ~answers[i].gone
      BY <1>3, <2>2 DEF SavedAs, CopyIsFresh
    <3>2. CASE req[q].pc = "verify"
      <4>1. req[q].copy.verified /\ req[q].copy.password = users[i].account.password
        BY <2>2, <3>2 DEF CopyIsFresh
      <4>2. req[q].copy.verified = TRUE
        BY <3>2, <4>1, BusyByPc DEF Busy, Account
      <4>. QED
        BY <2>0, <3>1, <3>2, <4>1, <4>2 DEF SaveLeaves
    <3>3. CASE req[q].pc = "reset"
      <4>1. req[q].copy.verified = users[i].account.verified
        BY <2>2, <3>3 DEF CopyIsFresh
      <4>. QED
        BY <2>0, <3>1, <3>3, <4>1 DEF SaveLeaves
    <3>. QED
      BY <1>3, <3>2, <3>3 DEF SavedAs
  <2>3. ASSUME NEW j \in Stored', j # i, j \notin overlapped'
        PROVE  /\ users'[j].account.password = answers'[j].password
               /\ users'[j].account.verified = answers'[j].verified
               /\ ~answers'[j].gone
    BY <2>0, <2>1, <2>3 DEF SaveLeaves, Others
  <2>. QED
    BY <2>1, <2>2, <2>3
<1>4. ASSUME NEW i \in UserIds, DeleteUser(i)
      PROVE  KeptUnlessOverlapped'
  <2>1. DeleteLeaves(i)
    BY <1>4, DeleteEffect
  <2>2. overlapped \subseteq overlapped'
    BY <1>4 DEF DeleteUser, Write
  <2>. QED
    BY <2>1, <2>2 DEF DeleteLeaves, Others
<1>. QED
  BY <1>1, <1>2, <1>3, <1>4, StepKinds

LEMMA GroundedStep ==
  ASSUME TypeOK, CopyIsGrounded, VerifiedByMail, PasswordWasChosen, [Next]_vars
  PROVE  CopyIsGrounded'
<1>. DEFINE Grounded(q) ==
       /\ req[q].pc = "create" => ~req[q].copy.verified
       /\ req[q].pc \in {"verify", "reset"} =>
            /\ req[q].id \in UserIds \ Unused
            /\ req[q].token \in Token
            /\ req[q].copy.email = Email(req[q].id)
            /\ req[q].copy.password \in chosen[req[q].id]
            /\ req[q].copy.verified => req[q].id \in opened
<1>. SUFFICES ASSUME NEW q \in Requests PROVE Grounded(q)'
  BY DEF CopyIsGrounded
<1>1. CASE req'[q] = Idle
  BY <1>1 DEF Idle
<1>2. CASE JustRead(q)
  <2>1. ASSUME req'[q].pc \in {"verify", "reset"}
        PROVE  /\ req'[q].id \in UserIds \ Unused'
               /\ users'[req'[q].id] = users[req'[q].id]
               /\ users[req'[q].id].account \in Account
               /\ users[req'[q].id].account.password \in chosen'[req'[q].id]
               /\ users[req'[q].id].account.verified => req'[q].id \in opened'
    BY <1>2, <2>1, StoredIsRow
    DEF JustRead, Quiet, Stored, Unused, VerifiedByMail, PasswordWasChosen
  <2>2. CASE req'[q].pc = "verify"
    BY <1>2, <2>1, <2>2 DEF JustRead, VerifiedCopy, Account, Email
  <2>3. CASE req'[q].pc = "reset"
    BY <1>2, <2>1, <2>3 DEF JustRead, ResetCopy, Account, Email
  <2>. QED
    BY <1>2, <2>2, <2>3 DEF JustRead
<1>3. CASE req'[q] = req[q] /\ req[q].pc \in {"verify", "reset"}
  <2>. DEFINE i == req[q].id
  <2>1. Grounded(q)
    BY DEF CopyIsGrounded
  <2>. DEFINE Persists == /\ i \notin Unused' /\ Email(i)' = Email(i)
                         /\ chosen[i] \subseteq chosen'[i] /\ opened \subseteq opened'
  <2>2. Persists
    <3>1. CASE Quiet
      BY <1>3, <2>1, <3>1 DEF Quiet, Unused, Email
    <3>2. ASSUME NEW p \in Requests, NEW n \in Unused, Inserted(p, n)
          PROVE  Persists
      <4>1. InsertLeaves(p, n) /\ i # n
        BY <1>3, <2>1, <3>2, InsertEffect
      <4>. QED
        BY <1>3, <2>1, <3>2, <4>1 DEF Inserted, InsertLeaves, Others, Unused, Email
    <3>3. ASSUME NEW p \in Requests, SavedAs(p, req[p].id)
          PROVE  Persists
      <4>1. req[p].copy.email = Email(req[p].id)
        BY <3>3 DEF SavedAs, CopyIsGrounded
      <4>2. SaveLeaves(p, req[p].id) /\ chosen' = chosen /\ opened' = opened
        BY <3>3, SaveEffect DEF SavedAs
      <4>3. users'[i] = users[i] \/ i = req[p].id
        BY <1>3, <2>1, <4>2 DEF SaveLeaves, Others
      <4>4. i \notin Unused'
        BY <1>3, <2>1, <4>2, <4>3 DEF SaveLeaves, Unused, Stored
      <4>5. CASE i = req[p].id
        <5>1. users'[i].account = req[p].copy /\ req[p].copy.email = users[i].account.email
          BY <4>1, <4>2, <4>5 DEF SaveLeaves, Email
        <5>. QED
          BY <1>3, <4>2, <4>4, <5>1 DEF Email
      <4>. QED
        BY <1>3, <4>2, <4>3, <4>4, <4>5 DEF Email
    <3>4. ASSUME NEW j \in UserIds, DeleteUser(j)
          PROVE  Persists
      <4>1. DeleteLeaves(j) /\ chosen' = chosen /\ opened' = opened
        BY <3>4, DeleteEffect DEF DeleteUser
      <4>. QED
        BY <1>3, <2>1, <4>1 DEF DeleteLeaves, Others, Unused, Email
    <3>. QED
      BY <3>1, <3>2, <3>3, <3>4, StepKinds
  <2>. QED
    BY <1>3, <2>1, <2>2
<1>4. CASE req'[q] = req[q] /\ req[q].pc \notin {"verify", "reset"}
  BY <1>4 DEF CopyIsGrounded
<1>. QED
  BY <1>1, <1>2, <1>3, <1>4, ReadersStep

\* A write of a row marks it as overlapped if the copy of another handler has
\* thereby gone stale.
LEMMA FreshStep ==
  ASSUME TypeOK, IndInv, [Next]_vars
  PROVE  CopyIsFresh'
<1>. CopyIsGrounded /\ CopyIsFresh
  BY DEF IndInv
<1>. DEFINE Fresh(q) ==
       /\ req[q].id \in Stored
       /\ req[q].pc = "verify" => /\ req[q].copy.verified
                                 /\ req[q].copy.password = users[req[q].id].account.password
       /\ req[q].pc = "reset" => req[q].copy.verified = users[req[q].id].account.verified
<1>. SUFFICES ASSUME NEW q \in Requests, req'[q].pc \in {"verify", "reset"},
                     req'[q].id \notin overlapped'
              PROVE  Fresh(q)'
  BY DEF CopyIsFresh
<1>1. req'[q] # Idle
  BY DEF Idle
<1>2. CASE JustRead(q)
  <2>1. /\ req'[q].id \in Stored /\ Stored' = Stored
        /\ users' = users
        /\ users[req'[q].id].account \in Account
    BY <1>2, StoredIsRow DEF JustRead, Quiet, Stored, Unused
  <2>2. CASE req'[q].pc = "verify"
    BY <1>2, <2>1, <2>2 DEF JustRead, VerifiedCopy, Account
  <2>3. CASE req'[q].pc = "reset"
    BY <1>2, <2>1, <2>3 DEF JustRead, ResetCopy, Account
  <2>. QED
    BY <2>2, <2>3
<1>3. CASE req'[q] = req[q]
  <2>. DEFINE i == req[q].id
  <2>1. i \in UserIds \ Unused
    BY <1>3 DEF CopyIsGrounded
  <2>2. i \notin overlapped => Fresh(q)
    BY <1>3 DEF CopyIsFresh
  <2>3. CASE Quiet
    BY <1>3, <2>2, <2>3 DEF Quiet, Stored
  <2>4. ASSUME i \notin overlapped, i \in Stored', users'[i] = users[i]
        PROVE  Fresh(q)'
    BY <1>3, <2>2, <2>4
  <2>5. ASSUME NEW p \in Requests, NEW n \in Unused, Inserted(p, n)
        PROVE  Fresh(q)'
    <3>1. InsertLeaves(p, n) /\ i # n /\ overlapped' = overlapped
      BY <2>1, <2>5, InsertEffect DEF Inserted
    <3>2. i \in Stored
      BY <1>3, <2>2, <3>1
    <3>. QED
      BY <1>3, <2>1, <2>4, <3>1, <3>2 DEF InsertLeaves, Others
  <2>6. ASSUME NEW p \in Requests, SavedAs(p, req[p].id)
        PROVE  Fresh(q)'
    <3>1. SaveLeaves(p, req[p].id)
      BY <2>6, SaveEffect
    <3>2. p # q
      BY <1>1, <2>6 DEF SavedAs, Finish, TypeOK
    <3>3. req[p].id # i /\ i \notin overlapped
      <4>1. req[p].id = i => HoldersOf(i) \ {p} # {}
        BY <1>3, <3>2 DEF HoldersOf
      <4>2. i \notin overlapped'
        BY <1>3
      <4>3. Write(req[p].id, HoldersOf(req[p].id) \ {p})
        BY <2>6 DEF SavedAs
      <4>4. req[p].id # i
        BY <4>1, <4>2, <4>3 DEF Write
      <4>5. i \notin overlapped
        BY <4>2, <4>3 DEF Write
      <4>. QED
        BY <4>4, <4>5
    <3>4. i \in Stored
      BY <1>3, <2>2, <3>3
    <3>. QED
      BY <1>3, <2>1, <2>4, <3>1, <3>3, <3>4 DEF SaveLeaves, Others
  <2>7. ASSUME NEW j \in UserIds, DeleteUser(j)
        PROVE  Fresh(q)'
    <3>1. DeleteLeaves(j)
      BY <2>7, DeleteEffect
    <3>2. i # j /\ i \notin overlapped
      <4>1. i = j => HoldersOf(j) # {}
        BY <1>3 DEF HoldersOf
      <4>2. i \notin overlapped'
        BY <1>3
      <4>. QED
        BY <2>7, <4>1, <4>2 DEF DeleteUser, Write
    <3>3. i \in Stored
      BY <1>3, <2>2, <3>2
    <3>. QED
      BY <1>3, <2>1, <2>4, <3>1, <3>2, <3>3 DEF DeleteLeaves, Others
  <2>. QED
    BY <2>3, <2>5, <2>6, <2>7, StepKinds
<1>. QED
  BY <1>1, <1>2, <1>3, ReadersStep

THEOREM Safety == Spec => []AllInv
<1>1. Init => AllInv
  <2>. SUFFICES ASSUME Init PROVE AllInv
    OBVIOUS
  <2>1. Stored = {} /\ Unused = UserIds /\ \A q \in Requests : req[q].pc = "idle"
    BY DEF Init, Stored, Unused, NoRow, Idle
  <2>2. TypeOK
    BY <2>1 DEF Init, TypeOK
  <2>3. IndInv
    BY <2>1 DEF IndInv, CopyIsGrounded, CopyIsFresh
  <2>. QED
    BY <2>1, <2>2, <2>3
    DEF AllInv, OneAccountPerAddress, VerifiedByMail, PasswordWasChosen, KeptUnlessOverlapped
<1>2. AllInv /\ [Next]_vars => AllInv'
  BY TypingStep, GroundedStep, FreshStep, OneAccountStep, VerifiedStep, ChosenStep, KeptStep
  DEF AllInv, IndInv
<1>. QED
  BY <1>1, <1>2, PTL DEF Spec

-----------------------------------------------------------------------------
\* Every variable keeps the shape its declaration says.
THEOREM TypeCorrect == Spec => []TypeOK
BY Safety, PTL DEF AllInv

\* The copies handlers hold are grounded, and fresh where nobody else has written.
THEOREM CopiesAreKnown == Spec => []IndInv
BY Safety, PTL DEF AllInv

\* No interleaving of registrations, deletions and restoring Saves gives one
\* address two accounts.
THEOREM AddressesAreUnique == Spec => []OneAccountPerAddress
BY Safety, PTL DEF AllInv

\* An account is verified only through the mail sent to its address.
THEOREM VerificationNeedsMail == Spec => []VerifiedByMail
BY Safety, PTL DEF AllInv

\* An account has no password that nobody asked for.
THEOREM PasswordsAreChosen == Spec => []PasswordWasChosen
BY Safety, PTL DEF AllInv

\* Handlers of one account that do not overlap lose nothing that was answered.
THEOREM AnswersAreKept == Spec => []KeptUnlessOverlapped
BY Safety, PTL DEF AllInv

\* An id keeps its address through every Save, deletion and restoration.
THEOREM AddressNeverChanges == Spec => AddressIsKept
<1>1. AllInv /\ [Next]_vars =>
        [\A i \in UserIds : users[i].status # "unused" =>
           users'[i].status # "unused" /\ users'[i].account.email = Email(i)]_vars
  <2>. SUFFICES ASSUME AllInv, [Next]_vars, NEW i \in UserIds, users[i].status # "unused"
                PROVE  users'[i].status # "unused" /\ users'[i].account.email = users[i].account.email
    BY DEF Email
  <2>. TypeOK /\ CopyIsGrounded
    BY DEF AllInv, IndInv
  <2>1. CASE Quiet
    BY <2>1 DEF Quiet
  <2>2. ASSUME NEW q \in Requests, NEW n \in Unused, Inserted(q, n)
        PROVE  users'[i] = users[i]
    BY <2>2, InsertEffect DEF InsertLeaves, Others, Unused
  <2>3. ASSUME NEW q \in Requests, SavedAs(q, req[q].id)
        PROVE  users'[i].status # "unused" /\ users'[i].account.email = users[i].account.email
    <3>1. SaveLeaves(q, req[q].id)
      BY <2>3, SaveEffect
    <3>2. req[q].copy.email = users[req[q].id].account.email
      BY <2>3 DEF SavedAs, CopyIsGrounded, Email
    <3>3. req[q].id \in Stored'
      BY <3>1 DEF SaveLeaves
    <3>. QED
      BY <3>1, <3>2, <3>3 DEF SaveLeaves, Others, Stored
  <2>4. ASSUME NEW j \in UserIds, DeleteUser(j)
        PROVE  users'[i].status # "unused" /\ users'[i].account.email = users[i].account.email
    BY <2>4, DeleteEffect DEF DeleteLeaves, Others
  <2>. QED
    BY <2>1, <2>2, <2>3, <2>4, StepKinds
<1>. QED
  BY <1>1, Safety, PTL DEF Spec, AddressIsKept

-----------------------------------------------------------------------------
\* The refinement of AccountBook.  Book and drafts are functions of the tables, so
\* what a step does to them follows from what it does to one row and one request.
BookOf   == [i \in UserIds |-> EntryOf(i)]
DraftsOf == [q \in Requests |-> DraftOf(q)]

\* A row that was inserted is an entry, open while the row is stored.
LEMMA RowIsEntry ==
  ASSUME TypeOK, NEW i \in UserIds, users[i].status # "unused"
  PROVE  EntryOf(i) = [state |-> IF users[i].status = "stored" THEN "open" ELSE "closed",
                       holder |-> Email(i), secret |-> users[i].account.password,
                       confirmed |-> users[i].account.verified]
BY DEF EntryOf, Email

\* Entries are open where rows are stored, and an address is free in the book if
\* the UNIQUE index finds it free.
LEMMA OpenIsStored ==
  ASSUME TypeOK, NEW i \in UserIds
  PROVE  /\ Book!IsOpen(i) <=> i \in Stored
         /\ \A e : EmailIsFree(i, e) <=> Book!IsFree(i, e)
<1>1. \A j \in UserIds : Book!IsOpen(j) <=> j \in Stored
  BY DEF Book!IsOpen, Stored, EntryOf, TypeOK, UserRow, NoRow
<1>2. \A j \in Stored : j \in UserIds /\ EntryOf(j).holder = Email(j)
  BY RowIsEntry DEF Stored
<1>. QED
  BY <1>1, <1>2 DEF Book!IsFree, EmailIsFree

LEMMA SameBook ==
  ASSUME users' = users
  PROVE  BookOf' = BookOf
BY DEF BookOf, EntryOf

\* One row is written: one entry is.
LEMMA OneEntry ==
  ASSUME TypeOK, NEW i \in UserIds, NEW r, users' = [users EXCEPT ![i] = r]
  PROVE  BookOf' = [BookOf EXCEPT ![i] = EntryOf(i)'] /\ users'[i] = r
<1>1. users'[i] = r /\ \A j \in UserIds \ {i} : users'[j] = users[j]
  BY DEF TypeOK
<1>2. \A j \in UserIds \ {i} : EntryOf(j)' = EntryOf(j)
  BY <1>1 DEF EntryOf
<1>. QED
  BY <1>1, <1>2 DEF BookOf

\* A row that is stored anew becomes the open entry of its account.
LEMMA StoredEntry ==
  ASSUME TypeOK, NEW i \in UserIds, NEW c \in Account,
         users' = [users EXCEPT ![i] = [status |-> "stored", account |-> c]]
  PROVE  BookOf' = [BookOf EXCEPT ![i] = Book!Entry(c.email, c.password, c.verified)]
<1>1. /\ BookOf' = [BookOf EXCEPT ![i] = EntryOf(i)']
      /\ users'[i] = [status |-> "stored", account |-> c]
  BY OneEntry
<1>2. users'[i].status = "stored" /\ users'[i].account = c
  BY <1>1
<1>3. EntryOf(i)' = Book!Entry(c.email, c.password, c.verified)
  BY <1>2 DEF EntryOf, Book!Entry
<1>. QED
  BY <1>1, <1>3

\* One request moves on: one draft does.
LEMMA OneDraft ==
  ASSUME TypeOK, NEW q \in Requests, NEW r, req' = [req EXCEPT ![q] = r]
  PROVE  DraftsOf' = [DraftsOf EXCEPT ![q] = DraftOf(q)'] /\ req'[q] = r
<1>1. req'[q] = r /\ \A p \in Requests \ {q} : req'[p] = req[p]
  BY DEF TypeOK
<1>2. \A p \in Requests \ {q} : DraftOf(p)' = DraftOf(p)
  BY <1>1 DEF DraftOf
<1>. QED
  BY <1>1, <1>2 DEF DraftsOf

\* A request that is over has no draft.
LEMMA FinishDropsDraft ==
  ASSUME TypeOK, NEW q \in Requests, Finish(q)
  PROVE  DraftsOf' = [DraftsOf EXCEPT ![q] = Book!NoDraft]
<1>1. DraftsOf' = [DraftsOf EXCEPT ![q] = DraftOf(q)'] /\ req'[q] = Idle
  BY OneDraft DEF Finish
<1>2. DraftOf(q)' = Book!NoDraft
  BY <1>1 DEF DraftOf, Idle, Book!NoDraft
<1>. QED
  BY <1>1, <1>2

\* A handler without a copy has no draft.
LEMMA NoCopyNoDraft ==
  ASSUME NEW q \in Requests, req[q].pc \notin {"verify", "reset"}
  PROVE  DraftOf(q) = Book!NoDraft /\ DraftsOf[q] = Book!NoDraft
BY DEF DraftOf, DraftsOf, Book!NoDraft

\* A registration that is stored opens an entry.
LEMMA InsertUserOpens ==
  ASSUME TypeOK, CopyIsGrounded, NEW q \in Requests, InsertUser(q)
  PROVE  [Book!BookNext]_(Book!bookVars)
<1>1. req[q].pc = "create" /\ Finish(q)
  BY DEF InsertUser
<1>2. DraftsOf' = DraftsOf
  <2>1. DraftsOf' = [DraftsOf EXCEPT ![q] = Book!NoDraft]
    BY <1>1, FinishDropsDraft
  <2>. QED
    BY <2>1, <1>1, NoCopyNoDraft DEF DraftsOf
<1>3. CASE users' = users
  BY <1>2, <1>3, SameBook DEF Book!bookVars, BookOf, DraftsOf
<1>4. ASSUME NEW n \in Unused, EmailIsFree(n, req[q].copy.email),
             users' = [users EXCEPT ![n] = [status |-> "stored", account |-> req[q].copy]]
      PROVE  Book!BookNext
  <2>. DEFINE c == req[q].copy
  <2>1. c \in Account /\ ~c.verified /\ c.verified \in BOOLEAN
    BY <1>1, BusyByPc DEF Busy, Account, CopyIsGrounded
  <2>2. n \in UserIds /\ BookOf[n] = Book!Unissued
    BY DEF Unused, BookOf, EntryOf, Book!Unissued
  <2>3. BookOf' = [BookOf EXCEPT ![n] = Book!Entry(c.email, c.password, c.verified)]
    BY <1>4, <2>1, <2>2, StoredEntry
  <2>4. c.verified = FALSE
    BY <2>1
  <2>5. Book!IsFree(n, c.email)
    BY <1>4, <2>2, OpenIsStored
  <2>6. Book!Open(n, c.email, c.password)
    BY <1>2, <2>2, <2>3, <2>4, <2>5 DEF Book!Open, BookOf, DraftsOf
  <2>. QED
    BY <2>1, <2>2, <2>6 DEF Book!BookNext, Account
<1>. QED
  BY <1>3, <1>4 DEF InsertUser

\* A handler that reads an account to change it takes a draft.
LEMMA ReadTakesDraft ==
  ASSUME TypeOK, NEW q \in Requests, NEW t \in mail, NEW pc \in {"verify", "reset"}, NEW c,
         ReadUser(q, t, pc, c)
  PROVE  /\ t.sub \in UserIds /\ Book!IsOpen(t.sub)
         /\ BookOf' = BookOf
         /\ Book!Take(q, Book!Draft(t.sub, c.password, c.verified))
<1>1. t.sub \in UserIds /\ t.sub \in Stored /\ BookOf' = BookOf
  BY SameBook DEF ReadUser, Stored
<1>2. DraftsOf[q] = Book!NoDraft
  BY NoCopyNoDraft DEF ReadUser, Idle
<1>3. DraftsOf' = [DraftsOf EXCEPT ![q] = DraftOf(q)']
      /\ req'[q] = [pc |-> pc, id |-> t.sub, copy |-> c, token |-> t]
  BY OneDraft DEF ReadUser
<1>4. DraftOf(q)' = Book!Draft(t.sub, c.password, c.verified)
  BY <1>3 DEF DraftOf, Book!Draft
<1>. QED
  BY <1>1, <1>2, <1>3, <1>4, OpenIsStored DEF Book!Take, BookOf, DraftsOf

LEMMA BeginVerifyDrafts ==
  ASSUME TypeOK, NEW q \in Requests, NEW t \in mail, BeginVerifyEmail(q, t)
  PROVE  Book!BookNext
<1>. DEFINE i == t.sub
<1>1. /\ i \in UserIds /\ Book!IsOpen(i)
      /\ Book!Take(q, Book!Draft(i, VerifiedCopy(i).password, VerifiedCopy(i).verified))
  BY ReadTakesDraft DEF BeginVerifyEmail
<1>2. i \in Stored /\ users[i].account \in Account /\ ~users[i].account.verified
  BY StoredIsRow DEF BeginVerifyEmail, ReadUser, Stored, Unused
<1>3. VerifiedCopy(i).password = users[i].account.password /\ VerifiedCopy(i).verified = TRUE
  BY <1>2 DEF VerifiedCopy, Account
<1>4. EntryOf(i).secret = users[i].account.password /\ ~EntryOf(i).confirmed
  BY <1>1, <1>2, RowIsEntry DEF Stored
<1>5. Book!DraftConfirmed(q, i)
  BY <1>1, <1>3, <1>4 DEF Book!DraftConfirmed
<1>. QED
  BY <1>1, <1>5 DEF Book!BookNext

LEMMA BeginResetDrafts ==
  ASSUME TypeOK, NEW q \in Requests, NEW t \in mail, NEW pw \in Passwords,
         BeginResetPassword(q, t, pw)
  PROVE  Book!BookNext
<1>. DEFINE i == t.sub
<1>1. /\ i \in UserIds /\ Book!IsOpen(i)
      /\ Book!Take(q, Book!Draft(i, ResetCopy(i, pw).password, ResetCopy(i, pw).verified))
  BY ReadTakesDraft DEF BeginResetPassword
<1>2. i \in Stored /\ users[i].account \in Account
  BY StoredIsRow DEF BeginResetPassword, ReadUser, Stored, Unused
<1>3. ResetCopy(i, pw).password = pw /\ ResetCopy(i, pw).verified = users[i].account.verified
  BY <1>2 DEF ResetCopy, Account
<1>4. EntryOf(i).confirmed = users[i].account.verified
  BY <1>1, <1>2, RowIsEntry DEF Stored
<1>5. Book!DraftSecret(q, i, pw)
  BY <1>1, <1>3, <1>4 DEF Book!DraftSecret
<1>. QED
  BY <1>1, <1>5 DEF Book!BookNext

\* Save enters the draft, or gives it up where the address has been taken.
LEMMA SaveUserEnters ==
  ASSUME TypeOK, CopyIsGrounded, NEW q \in Requests, SaveUser(q)
  PROVE  Book!BookNext
<1>. DEFINE i == req[q].id
            c == req[q].copy
            d == Book!Draft(i, c.password, c.verified)
<1>1. /\ req[q].pc \in {"verify", "reset"}
      /\ c \in Account
      /\ i \in UserIds /\ users[i].status # "unused" /\ c.email = Email(i)
  BY BusyByPc DEF SaveUser, CopyIsGrounded, Unused, Busy
<1>2. DraftsOf' = [DraftsOf EXCEPT ![q] = Book!NoDraft]
  BY FinishDropsDraft DEF SaveUser
<1>3. DraftsOf[q] = d /\ d # Book!NoDraft
  BY <1>1 DEF DraftsOf, DraftOf, Book!Draft, Book!NoDraft
<1>4. CASE users' = users
  <2>1. Book!Discard(q)
    BY <1>2, <1>4, SameBook DEF Book!Discard, BookOf, DraftsOf
  <2>. QED
    BY <2>1 DEF Book!BookNext
<1>5. CASE /\ EmailIsFree(i, c.email)
           /\ users' = [users EXCEPT ![i] = [status |-> "stored", account |-> c]]
  <2>1. BookOf' = [BookOf EXCEPT ![i] = Book!Entry(c.email, c.password, c.verified)]
    BY <1>1, <1>5, StoredEntry
  <2>3. BookOf[i].holder = c.email
    BY <1>1, RowIsEntry DEF BookOf
  <2>4. Book!IsFree(i, c.email)
    BY <1>1, <1>5, OpenIsStored
  <2>5. d.of = i /\ d.secret = c.password /\ d.confirmed = c.verified
    BY DEF Book!Draft
  <2>6. Book!Enter(q)
    BY <1>2, <1>3, <2>1, <2>3, <2>4, <2>5 DEF Book!Enter, BookOf, DraftsOf
  <2>. QED
    BY <2>6 DEF Book!BookNext
<1>. QED
  BY <1>4, <1>5 DEF SaveUser

LEMMA DeleteUserCloses ==
  ASSUME TypeOK, NEW i \in UserIds, DeleteUser(i)
  PROVE  Book!BookNext
<1>1. i \in Stored /\ users[i] \in UserRow /\ users[i].status = "stored"
  BY StoredIsRow DEF DeleteUser, Stored, Unused
<1>2. BookOf' = [BookOf EXCEPT ![i] = EntryOf(i)']
      /\ users'[i] = [users[i] EXCEPT !.status = "deleted"]
  BY OneEntry DEF DeleteUser
<1>3. users'[i].status = "deleted" /\ users'[i].account = users[i].account
  BY <1>1, <1>2 DEF UserRow
<1>4. EntryOf(i)' = [EntryOf(i) EXCEPT !.state = "closed"]
  BY <1>1, <1>3, RowIsEntry DEF EntryOf, Email
<1>5. DraftsOf' = DraftsOf
  BY DEF DeleteUser, DraftsOf, DraftOf
<1>6. Book!Close(i)
  BY <1>1, <1>2, <1>4, <1>5, OpenIsStored DEF Book!Close, BookOf, DraftsOf
<1>. QED
  BY <1>6 DEF Book!BookNext

\* Accounts do what the book promises, for any number of addresses, passwords and
\* slots: a Save is one entry of one draft, taken from the account when it was open.
THEOREM AccountsKeepBook == Spec => KeepsBook
<1>1. Init => Book!BookInit
  BY DEF Init, NoRow, Idle, EntryOf, DraftOf, Book!BookInit, Book!Unissued, Book!NoDraft
<1>2. AllInv /\ [Next]_vars => [Book!BookNext]_(Book!bookVars)
  <2>. SUFFICES ASSUME AllInv, [Next]_vars
                PROVE  [Book!BookNext]_(Book!bookVars)
    OBVIOUS
  <2>. TypeOK /\ CopyIsGrounded
    BY DEF AllInv, IndInv
  <2>1. ASSUME NEW q \in Requests, NEW e \in Addresses, NEW pw \in Passwords,
               BeginRegister(q, e, pw)
        PROVE  UNCHANGED Book!bookVars
    <3>. DEFINE r == [pc |-> "create", id |-> 0, token |-> NoToken,
                      copy |-> [email |-> e, password |-> pw, verified |-> FALSE]]
    <3>1. DraftsOf' = [DraftsOf EXCEPT ![q] = DraftOf(q)'] /\ req'[q] = r
      BY <2>1, OneDraft DEF BeginRegister
    <3>2. DraftOf(q)' = Book!NoDraft /\ DraftsOf[q] = Book!NoDraft
      BY <2>1, <3>1, NoCopyNoDraft DEF BeginRegister, Idle, DraftOf, Book!NoDraft
    <3>3. DraftsOf' = DraftsOf
      BY <3>1, <3>2 DEF DraftsOf
    <3>. QED
      BY <2>1, <3>3, SameBook DEF BeginRegister, Book!bookVars, BookOf, DraftsOf
  <2>2. ASSUME NEW q \in Requests, Abort(q)
        PROVE  Book!BookNext
    <3>1. Book!Discard(q)
      BY <2>2, FinishDropsDraft, SameBook DEF Abort, Book!Discard, BookOf, DraftsOf
    <3>. QED
      BY <3>1 DEF Book!BookNext
  <2>3. ASSUME UNCHANGED <<users, req>>
        PROVE  UNCHANGED Book!bookVars
    BY <2>3, SameBook DEF Book!bookVars, BookOf, DraftOf
  <2>. QED
    BY <2>1, <2>2, <2>3, InsertUserOpens, BeginVerifyDrafts, BeginResetDrafts,
       SaveUserEnters, DeleteUserCloses
    DEF Next, Advance, ForgotPassword, Tick, vars
<1>. QED
  BY <1>1, <1>2, Safety, PTL DEF Spec, KeepsBook, Book!BookSpec
=============================================================================
