---------------------------- MODULE AccountBook -----------------------------
(***************************************************************************)
(* What the account service promises, without tokens, mails, clock or      *)
(* statements.  Accounts are entries of a book.  An entry is opened for a  *)
(* holder who has no open one.  To change an open entry an editor takes a  *)
(* draft, which is the entry with one thing changed, and may enter it once *)
(* at any later time: the book then says what the draft says, whatever     *)
(* others have entered since.  A draft of an entry that was closed opens   *)
(* it again, unless its holder has another by then.  What is in the book   *)
(* was opened or drafted, and an entry never changes its holder.           *)
(***************************************************************************)
CONSTANTS
  Names,       \* names of entries
  Holders,     \* who may have an account, one at a time
  Secrets,
  Editors      \* who may hold a draft

VARIABLES
  book,        \* name -> its entry
  drafts       \* editor -> the draft it holds

bookVars == <<book, drafts>>

Unissued == [state |-> "unissued"]
Entry(h, s, c) == [state |-> "open", holder |-> h, secret |-> s, confirmed |-> c]

NoDraft == [kind |-> "none"]
Draft(n, s, c) == [kind |-> "draft", of |-> n, secret |-> s, confirmed |-> c]

IsOpen(n) == book[n].state = "open"

\* Nobody but n is an open entry of h.
IsFree(n, h) == \A m \in Names : (IsOpen(m) /\ book[m].holder = h) => m = n

BookInit ==
  /\ book = [n \in Names |-> Unissued]
  /\ drafts = [e \in Editors |-> NoDraft]

\* A registration.
Open(n, h, s) ==
  /\ book[n] = Unissued
  /\ IsFree(n, h)
  /\ book' = [book EXCEPT ![n] = Entry(h, s, FALSE)]
  /\ UNCHANGED drafts

Take(e, d) ==
  /\ drafts[e] = NoDraft
  /\ drafts' = [drafts EXCEPT ![e] = d]
  /\ UNCHANGED book

\* The two things that can be changed.
DraftConfirmed(e, n)  == IsOpen(n) /\ ~book[n].confirmed /\ Take(e, Draft(n, book[n].secret, TRUE))
DraftSecret(e, n, s)  == IsOpen(n) /\ Take(e, Draft(n, s, book[n].confirmed))

Discard(e) ==
  /\ drafts' = [drafts EXCEPT ![e] = NoDraft]
  /\ UNCHANGED book

Enter(e) ==
  LET d == drafts[e]
      h == book[d.of].holder
  IN /\ d # NoDraft
     /\ IsFree(d.of, h)
     /\ book' = [book EXCEPT ![d.of] = Entry(h, d.secret, d.confirmed)]
     /\ drafts' = [drafts EXCEPT ![e] = NoDraft]

Close(n) ==
  /\ IsOpen(n)
  /\ book' = [book EXCEPT ![n] = [@ EXCEPT !.state = "closed"]]
  /\ UNCHANGED drafts

BookNext ==
  \/ \E e \in Editors : Enter(e) \/ Discard(e)
  \/ \E n \in Names :
       \/ Close(n)
       \/ \E e \in Editors :
            DraftConfirmed(e, n) \/ \E s \in Secrets : DraftSecret(e, n, s)
       \/ \E h \in Holders, s \in Secrets : Open(n, h, s)

BookSpec == BookInit /\ [][BookNext]_bookVars
=============================================================================
