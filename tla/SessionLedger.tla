--------------------------- MODULE SessionLedger ----------------------------
(***************************************************************************)
(* What the session service promises, without tokens, clock, hashes or     *)
(* statements.  A session is a chain of entries of a ledger, at first one  *)
(* entry made by a login.  A client that finds its entry open may have it  *)
(* replaced, once per claim, by a new entry of the same identity; the old  *)
(* one is closed in the same step.  A closed entry is closed for ever, and *)
(* a user that leaves takes all of its entries along.                      *)
(***************************************************************************)
CONSTANTS
  Entries,     \* names of ledger entries
  Holders,     \* who may have an account
  Rights,      \* what a session may carry beside its holder
  Clients,     \* who may ask
  Nobody       \* the claim of a client that has none

VARIABLES
  present,     \* holders whose account exists
  ledger,      \* entry -> its state
  claim        \* client -> the open entry it has found, or Nobody

ledgerVars == <<present, ledger, claim>>

Unissued == [state |-> "unissued"]
Entry(h, r, s) == [state |-> s, holder |-> h, right |-> r]

IsOpen(e) == ledger[e].state = "open"
Closed(e) == [ledger[e] EXCEPT !.state = "closed"]

LedgerInit ==
  /\ present = Holders
  /\ ledger = [e \in Entries |-> Unissued]
  /\ claim = [c \in Clients |-> Nobody]

\* A login, by somebody who has an account.
Open(e, h, r) ==
  /\ ledger[e] = Unissued
  /\ h \in present
  /\ ledger' = [ledger EXCEPT ![e] = Entry(h, r, "open")]
  /\ UNCHANGED <<present, claim>>

\* A refresh begins: it must find the entry open.
Claim(c, e) ==
  /\ claim[c] = Nobody
  /\ IsOpen(e)
  /\ claim' = [claim EXCEPT ![c] = e]
  /\ UNCHANGED <<present, ledger>>

\* A refresh is completed.  Its entry may have been closed since, by a rival or
\* a logout; only a claim made before that still counts.
Renew(c, e) ==
  LET old == claim[c]
  IN /\ old # Nobody
     /\ ledger[e] = Unissued
     /\ ledger[old].holder \in present
     /\ ledger' = [ledger EXCEPT ![old] = Closed(old),
                                 ![e] = Entry(ledger[old].holder, ledger[old].right, "open")]
     /\ claim' = [claim EXCEPT ![c] = Nobody]
     /\ UNCHANGED present

\* A refresh fails.
Drop(c) ==
  /\ claim' = [claim EXCEPT ![c] = Nobody]
  /\ UNCHANGED <<present, ledger>>

\* A logout.
Close(e) ==
  /\ ledger[e] # Unissued
  /\ ledger' = [ledger EXCEPT ![e] = Closed(e)]
  /\ UNCHANGED <<present, claim>>

Leave(h) ==
  /\ present' = present \ {h}
  /\ ledger' = [e \in Entries |-> IF ledger[e] # Unissued /\ ledger[e].holder = h
                                  THEN Closed(e) ELSE ledger[e]]
  /\ UNCHANGED claim

Return(h) ==
  /\ present' = present \cup {h}
  /\ UNCHANGED <<ledger, claim>>

LedgerNext ==
  \/ \E e \in Entries :
       \/ \E h \in Holders, r \in Rights : Open(e, h, r)
       \/ \E c \in Clients : Claim(c, e) \/ Renew(c, e)
       \/ Close(e)
  \/ \E c \in Clients : Drop(c)
  \/ \E h \in Holders : Leave(h) \/ Return(h)

LedgerSpec == LedgerInit /\ [][LedgerNext]_ledgerVars
=============================================================================
