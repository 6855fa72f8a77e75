------------------------------ MODULE Accounts ------------------------------
(***************************************************************************)
(* The users table under AuthService.Register, VerifyEmail, ForgotPassword *)
(* and ResetPassword and AdminHandler.DeleteUser.                          *)
(*                                                                         *)
(* A handler that changes an account reads the whole row, changes one      *)
(* column of its copy and gives the copy to UserRepository.Update, that is *)
(* to gorm's Save, which writes every column and, if no row has the id any *)
(* more, inserts the copy.  Nothing locks the row in between, and bcrypt   *)
(* makes the time in between long.                                         *)
(*                                                                         *)
(* The tokens that confirm an address and those that reset a password are  *)
(* the same JWTs: VerificationToken puts subject, address, type "verify"   *)
(* and an expiry in whole seconds in them, and no table records their use. *)
(***************************************************************************)
EXTENDS Naturals, FiniteSets

CONSTANTS
  Addresses,   \* e-mail addresses as they are stored, trimmed and in lower case
  Passwords,
  Requests,    \* request slots: how many handlers can be in flight together
  MaxUser,     \* bound: users rows ever inserted
  MaxTime,     \* bound: seconds the clock runs
  VerifyTTL    \* the 24 hours of VerificationToken, in seconds of the model

ASSUME BoundsAreNat == MaxUser \in Nat /\ MaxTime \in Nat /\ VerifyTTL \in Nat

VARIABLES
  now,         \* the wall clock, in whole seconds
  users,       \* the users table, by primary key
  req,         \* request slot -> the copy its handler holds
  mail,        \* verification and reset tokens that reached a mailbox
  answers,     \* history: what a 2xx answer last said of each account
  opened,      \* history: ids whose token was presented to verify-email
  chosen,      \* history: id -> passwords given to register or reset-password for it
  overlapped,  \* history: ids written while another handler held a copy of the row
  spent        \* history: tokens a password was reset with

history == <<answers, opened, chosen, overlapped, spent>>
vars == <<now, users, req, mail, history>>

-----------------------------------------------------------------------------
UserIds == 1..MaxUser
Token   == [sub: UserIds, exp: Nat]
NoToken == [exp |-> 0]

\* The columns of a users row the properties tell apart.
Account == [email: Addresses, password: Passwords, verified: BOOLEAN]

\* "deleted" keeps the id of a deleted row, because a UUID is never drawn twice.
UserRow == [status: {"stored", "deleted"}, account: Account]
NoRow   == [status |-> "unused"]

Idle == [pc |-> "idle"]
Busy == [pc: {"create", "verify", "reset"}, id: UserIds \cup {0},
         copy: Account, token: Token \cup {NoToken}]

Unused == {i \in UserIds : users[i].status = "unused"}
Stored == {i \in UserIds : users[i].status = "stored"}
Email(i) == users[i].account.email

\* What the 2xx answers promise: the address is verified, the user is gone.
Answer == [password: Passwords, verified: BOOLEAN, gone: BOOLEAN]
NoAnswer == [verified |-> FALSE]

HasAccount(e) == \E i \in Stored : Email(i) = e

\* Requests that hold a copy of row i.
HoldersOf(i) == {p \in Requests : req[p].pc \in {"verify", "reset"} /\ req[p].id = i}

\* Row i is written; the requests of others held a copy.
Write(i, others) == overlapped' = IF others = {} THEN overlapped ELSE overlapped \cup {i}

Finish(q) == req' = [req EXCEPT ![q] = Idle]

\* mailer.Send is best effort: its error is dropped and the mail may be lost.
SendToken(i) == mail' \in {mail, mail \cup {[sub |-> i, exp |-> now + VerifyTTL]}}

\* Mutant: email is not UNIQUE, only Register's own check stands.
EmailIsFree_NotUnique(i, e) == TRUE

\* The UNIQUE index on email refuses the address of another stored row.
EmailIsFree(i, e) == \A j \in Stored : Email(j) = e => j = i

-----------------------------------------------------------------------------
\* Register until bcrypt is done: GetByEmail found nobody.  Otherwise: 400.  The
\* bound MaxUser: it starts only if an id is left.
BeginRegister(q, e, pw) ==
  /\ req[q] = Idle
  /\ Cardinality({p \in Requests : req[p].pc = "create"}) < Cardinality(Unused)
  /\ ~HasAccount(e)
  /\ req' = [req EXCEPT ![q] = [pc |-> "create", id |-> 0, token |-> NoToken,
               copy |-> [email |-> e, password |-> pw, verified |-> FALSE]]]
  /\ UNCHANGED <<now, users, mail, history>>

\* Create and the welcome mail.  An address taken meanwhile: 500.
InsertUser(q) ==
  /\ req[q].pc = "create"
  /\ \/ \E n \in Unused :
          /\ EmailIsFree(n, req[q].copy.email)
          /\ users' = [users EXCEPT ![n] = [status |-> "stored", account |-> req[q].copy]]
          /\ answers' = [answers EXCEPT ![n] =
               [password |-> req[q].copy.password, verified |-> FALSE, gone |-> FALSE]]
          /\ chosen' = [chosen EXCEPT ![n] = @ \cup {req[q].copy.password}]
          /\ SendToken(n)
     \/ /\ \A n \in Unused : ~EmailIsFree(n, req[q].copy.email)
        /\ UNCHANGED <<users, mail, answers, chosen>>
  /\ Finish(q)
  /\ UNCHANGED <<now, opened, overlapped, spent>>

\* ForgotPassword.  An address nobody has is answered the same and mails nothing.
ForgotPassword(e) ==
  /\ \/ \E i \in Stored : Email(i) = e /\ SendToken(i)
     \/ ~HasAccount(e) /\ UNCHANGED mail
  /\ UNCHANGED <<now, users, req, history>>

\* Decode and GetActiveByID, which both handlers begin with; nothing the server
\* does ever clears is_active.  Token expired: 401.  User gone: 404.
ReadUser(q, t, pc, copy) ==
  /\ req[q] = Idle
  /\ t \in mail
  /\ now < t.exp
  /\ t.sub \in Stored
  /\ req' = [req EXCEPT ![q] = [pc |-> pc, id |-> t.sub, copy |-> copy, token |-> t]]
  /\ UNCHANGED <<now, users, mail, answers, overlapped, spent>>

\* Mutant: the copy that is saved is built anew and has no password of the user.
VerifiedCopy_Partial(i) ==
  [users[i].account EXCEPT !.verified = TRUE, !.password = CHOOSE pw \in Passwords : TRUE]

VerifiedCopy(i) == [users[i].account EXCEPT !.verified = TRUE]

\* VerifyEmail.  An address verified before: 400.
BeginVerifyEmail(q, t) ==
  /\ ReadUser(q, t, "verify", VerifiedCopy(t.sub))
  /\ ~users[t.sub].account.verified
  /\ opened' = opened \cup {t.sub}
  /\ UNCHANGED chosen

\* Mutant: following the mailed reset link counts as a confirmation as well.
ResetCopy_Verifies(i, pw) == [users[i].account EXCEPT !.password = pw, !.verified = TRUE]

ResetCopy(i, pw) == [users[i].account EXCEPT !.password = pw]

\* ResetPassword until bcrypt is done.
BeginResetPassword(q, t, pw) ==
  /\ ReadUser(q, t, "reset", ResetCopy(t.sub, pw))
  /\ chosen' = [chosen EXCEPT ![t.sub] = @ \cup {pw}]
  /\ UNCHANGED opened

\* gorm's Save of the copy.  UPDATE writes every column; if it meets no row, the
\* copy is inserted, unless its address has been registered anew: 500.
SaveUser(q) ==
  LET i == req[q].id
      c == req[q].copy
  IN /\ req[q].pc \in {"verify", "reset"}
     /\ \/ /\ EmailIsFree(i, c.email)
           /\ users' = [users EXCEPT ![i] = [status |-> "stored", account |-> c]]
           /\ answers' = [answers EXCEPT ![i] =
                IF req[q].pc = "verify" THEN [@ EXCEPT !.verified = TRUE]
                                        ELSE [@ EXCEPT !.password = c.password]]
           /\ spent' = IF req[q].pc = "reset" THEN spent \cup {req[q].token} ELSE spent
           /\ Write(i, HoldersOf(i) \ {q})
        \/ /\ ~EmailIsFree(i, c.email)
           /\ UNCHANGED <<users, history>>
     /\ Finish(q)
     /\ UNCHANGED <<now, mail, opened, chosen>>

\* The server dies, the client goes away or the database reports an error.
Abort(q) ==
  /\ req[q] # Idle
  /\ Finish(q)
  /\ UNCHANGED <<now, users, mail, history>>

\* AdminHandler.DeleteUser: one DELETE, answered "User deleted.".
DeleteUser(i) ==
  /\ i \in Stored
  /\ users' = [users EXCEPT ![i].status = "deleted"]
  /\ answers' = [answers EXCEPT ![i].gone = TRUE]
  /\ Write(i, HoldersOf(i))
  /\ UNCHANGED <<now, req, mail, opened, chosen, spent>>

Tick ==
  /\ now < MaxTime
  /\ now' = now + 1
  /\ UNCHANGED <<users, req, mail, history>>

-----------------------------------------------------------------------------
Init ==
  /\ now = 0
  /\ users = [i \in UserIds |-> NoRow]
  /\ req = [q \in Requests |-> Idle]
  /\ mail = {}
  /\ answers = [i \in UserIds |-> NoAnswer]
  /\ opened = {}
  /\ chosen = [i \in UserIds |-> {}]
  /\ overlapped = {}
  /\ spent = {}

\* The steps the server takes on its own once a request has arrived.
Advance(q) == InsertUser(q) \/ SaveUser(q)

Next ==
  \/ \E q \in Requests :
       \/ \E e \in Addresses, pw \in Passwords : BeginRegister(q, e, pw)
       \/ \E t \in mail : BeginVerifyEmail(q, t)
       \/ \E t \in mail, pw \in Passwords : BeginResetPassword(q, t, pw)
       \/ Advance(q)
       \/ Abort(q)
  \/ \E e \in Addresses : ForgotPassword(e)
  \/ \E i \in UserIds : DeleteUser(i)
  \/ Tick

Spec == Init /\ [][Next]_vars

-----------------------------------------------------------------------------
\* Every variable has the shape its declaration says.
TypeOK ==
  /\ now \in Nat
  /\ users \in [UserIds -> UserRow \cup {NoRow}]
  /\ req \in [Requests -> Busy \cup {Idle}]
  /\ mail \subseteq Token
  /\ answers \in [UserIds -> Answer \cup {NoAnswer}]
  /\ \A i \in UserIds \ Unused : answers[i] \in Answer
  /\ opened \subseteq UserIds
  /\ chosen \in [UserIds -> SUBSET Passwords]
  /\ overlapped \subseteq UserIds
  /\ spent \subseteq Token

\* An address has one account at a time: not through two registrations that both
\* found it free, and not through a Save that brings a deleted account back after
\* its address was registered anew.
OneAccountPerAddress == \A i, j \in Stored : Email(i) = Email(j) => i = j

\* An account is verified only if the token mailed to its address was presented
\* to verify-email, although every Save writes the column and the tokens of the
\* password reset are the same tokens.
VerifiedByMail == \A i \in Stored : users[i].account.verified => i \in opened

\* An account's password is one that was given to register or to reset-password
\* for this very account, also after stale copies were written back.
PasswordWasChosen == \A i \in Stored : users[i].account.password \in chosen[i]

\* What a 2xx answer said of an account stays true until the next answer as long
\* as no two handlers overlapped on it: the password is the one registered or
\* reset last, the address stays verified, the deleted account stays deleted.
KeptUnlessOverlapped ==
  \A i \in Stored : i \notin overlapped =>
    /\ users[i].account.password = answers[i].password
    /\ users[i].account.verified = answers[i].verified
    /\ ~answers[i].gone

\* What is known of the copy a handler holds: it is a copy of a row that was
\* stored, with the address of that row and values that were asked for; and it
\* differs from the row only in the column the handler is there to change unless
\* the row was written while the copy was held.
CopyIsGrounded ==
  \A q \in Requests :
    /\ req[q].pc = "create" => ~req[q].copy.verified
    /\ req[q].pc \in {"verify", "reset"} =>
         /\ req[q].id \in UserIds \ Unused
         /\ req[q].token \in Token
         /\ req[q].copy.email = Email(req[q].id)
         /\ req[q].copy.password \in chosen[req[q].id]
         /\ req[q].copy.verified => req[q].id \in opened
CopyIsFresh ==
  \A q \in Requests :
    (req[q].pc \in {"verify", "reset"} /\ req[q].id \notin overlapped) =>
      /\ req[q].id \in Stored
      /\ req[q].pc = "verify" => /\ req[q].copy.verified
                                /\ req[q].copy.password = users[req[q].id].account.password
      /\ req[q].pc = "reset" => req[q].copy.verified = users[req[q].id].account.verified

\* The inductive invariant behind the safety properties above.
IndInv == CopyIsGrounded /\ CopyIsFresh

\* The accounts are a book (AccountBook): a row is an entry, open while it is stored;
\* a handler holds a draft from its read to its Save.
EntryOf(i) ==
  IF users[i].status = "unused" THEN [state |-> "unissued"]
  ELSE LET a == users[i].account
       IN [state |-> IF users[i].status = "stored" THEN "open" ELSE "closed", holder |-> a.email,
           secret |-> a.password, confirmed |-> a.verified]
DraftOf(q) ==
  IF req[q].pc \notin {"verify", "reset"} THEN [kind |-> "none"]
  ELSE [kind |-> "draft", of |-> req[q].id, secret |-> req[q].copy.password,
        confirmed |-> req[q].copy.verified]

Book == INSTANCE AccountBook WITH
  Names <- UserIds, Holders <- Addresses, Secrets <- Passwords, Editors <- Requests,
  book <- [i \in UserIds |-> EntryOf(i)], drafts <- [q \in Requests |-> DraftOf(q)]

\* Accounts keep the book: whatever Save writes back, and however late, is what the
\* account was when the handler read it with its own column changed, under the same
\* address, once; nothing else gets into an account (UserRepository.Update).
KeepsBook == Book!BookSpec

\* An id keeps its address, whatever copy is saved under it and when.
AddressIsKept ==
  [][\A i \in UserIds : users[i].status # "unused" =>
       users'[i].status # "unused" /\ users'[i].account.email = Email(i)]_vars

-----------------------------------------------------------------------------
\* "User deleted." (admin.go:161), "Password reset successfully." and "Email
\* verified successfully." (handlers/auth.go:148 and 122): what was answered last
\* is so, whatever other handlers were under way.
AnswersStick ==
  \A i \in Stored :
    /\ ~answers[i].gone
    /\ users[i].account.password = answers[i].password
    /\ answers[i].verified => users[i].account.verified

\* README.md:11 promises "Forgot-password / reset-password with one-time tokens":
\* a token with which a password was reset does not change a password again.
ResetTokenIsOneTime ==
  [][\A q \in Requests :
       (req[q].pc = "reset" /\ req'[q] = Idle /\ answers' # answers) =>
         req[q].token \notin spent]_vars
=============================================================================
