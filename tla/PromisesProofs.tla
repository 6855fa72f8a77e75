--------------------------- MODULE PromisesProofs ---------------------------
(***************************************************************************)
(* What the abstract specifications SessionLedger and AccountBook imply,   *)
(* and with it whatever implements them, for any number of entries,        *)
(* holders, clients and editors.                                           *)
(***************************************************************************)
EXTENDS SessionLedger, TLAPS

CONSTANTS
  Names,       \* those of AccountBook, whose Holders are the ledger's
  Secrets,
  Editors

VARIABLES
  book,
  drafts

Book == INSTANCE AccountBook

-----------------------------------------------------------------------------
\* The ledger: entries are issued to holders, and a claim is on an issued entry.
Issued == [state: {"open", "closed"}, holder: Holders, right: Rights]

LedgerInv ==
  /\ present \subseteq Holders
  /\ ledger \in [Entries -> Issued \cup {Unissued}]
  /\ claim \in [Clients -> Entries \cup {Nobody}]
  /\ \A c \in Clients : claim[c] # Nobody => ledger[claim[c]] # Unissued

\* An open session has its holder: a user who left has none, and one who returned has
\* none of before (the cascade of DeleteUser against refreshes that are under way).
OpenHasHolder == \A e \in Entries : IsOpen(e) => ledger[e].holder \in present

\* An entry that was issued is closed or stays what it is: a closed one is not opened
\* again, and no entry changes its holder or its right.
EntriesOnlyClose ==
  [][\A e \in Entries : ledger[e] # Unissued => ledger'[e] \in {ledger[e], Closed(e)}]_ledgerVars

LEMMA IssuedEntry ==
  ASSUME LedgerInv, NEW e \in Entries, ledger[e] # Unissued
  PROVE  /\ ledger[e] \in Issued
         /\ Closed(e) \in Issued
         /\ Closed(e).state = "closed"
         /\ Closed(e).holder = ledger[e].holder
BY DEF LedgerInv, Issued, Closed

\* What a step of the ledger makes of one entry.
LEMMA EntryStep ==
  ASSUME LedgerInv, LedgerNext, NEW e \in Entries
  PROVE  \/ ledger'[e] = ledger[e]
         \/ ledger[e] # Unissued /\ ledger'[e] = Closed(e)
         \/ /\ ledger[e] = Unissued
            /\ present' = present
            /\ \E h \in present, r \in Rights : ledger'[e] = Entry(h, r, "open")
<1>. DEFINE Goal == \/ ledger'[e] = ledger[e]
                    \/ ledger[e] # Unissued /\ ledger'[e] = Closed(e)
                    \/ /\ ledger[e] = Unissued
                       /\ present' = present
                       /\ \E h \in present, r \in Rights : ledger'[e] = Entry(h, r, "open")
<1>1. ASSUME NEW f \in Entries, NEW h \in Holders, NEW r \in Rights, Open(f, h, r)
      PROVE  Goal
  BY <1>1 DEF Open, LedgerInv
<1>2. ASSUME NEW f \in Entries, NEW c \in Clients, Renew(c, f)
      PROVE  Goal
  <2>. DEFINE old == claim[c]
  <2>1. old \in Entries /\ ledger[old] # Unissued /\ ledger[f] = Unissued
    BY <1>2 DEF Renew, LedgerInv
  <2>2. ledger[old].right \in Rights
    BY <2>1, IssuedEntry DEF Issued
  <2>3. CASE e = f
    <3>1. ledger'[e] = Entry(ledger[old].holder, ledger[old].right, "open")
      BY <1>2, <2>3 DEF Renew, LedgerInv
    <3>. QED
      BY <1>2, <2>1, <2>2, <2>3, <3>1 DEF Renew
  <2>4. CASE e # f
    BY <1>2, <2>1, <2>4 DEF Renew, LedgerInv
  <2>. QED
    BY <2>3, <2>4
<1>3. ASSUME NEW f \in Entries, Close(f)
      PROVE  Goal
  BY <1>3 DEF Close, LedgerInv
<1>4. ASSUME NEW h \in Holders, Leave(h)
      PROVE  Goal
  BY <1>4 DEF Leave
<1>5. CASE UNCHANGED ledger
  BY <1>5
<1>. QED
  BY <1>1, <1>2, <1>3, <1>4, <1>5 DEF LedgerNext, Claim, Drop, Return

LEMMA LedgerInvStep ==
  ASSUME LedgerInv, [LedgerNext]_ledgerVars
  PROVE  LedgerInv'
<1>1. CASE LedgerNext
  <2>1. present' \subseteq Holders
    BY <1>1 DEF LedgerNext, Open, Claim, Renew, Close, Drop, Leave, Return, LedgerInv
  <2>2. DOMAIN ledger' = Entries /\ ledger' = [e \in Entries |-> ledger'[e]]
    BY <1>1 DEF LedgerNext, Open, Claim, Renew, Close, Drop, Leave, Return, LedgerInv
  <2>3. \A e \in Entries : ledger'[e] \in Issued \cup {Unissued}
    <3>. SUFFICES ASSUME NEW e \in Entries
                  PROVE  ledger'[e] \in Issued \cup {Unissued}
      OBVIOUS
    <3>1. \A h \in present, r \in Rights : Entry(h, r, "open") \in Issued
      BY DEF LedgerInv, Entry, Issued
    <3>2. ledger[e] \in Issued \cup {Unissued}
      BY DEF LedgerInv
    <3>. QED
      BY <1>1, <3>1, <3>2, EntryStep, IssuedEntry
  <2>4. claim' \in [Clients -> Entries \cup {Nobody}]
    BY <1>1 DEF LedgerNext, Open, Claim, Renew, Close, Drop, Leave, Return, LedgerInv
  <2>5. \A e \in Entries : ledger[e] # Unissued => ledger'[e] # Unissued
    BY <1>1, EntryStep, IssuedEntry DEF Unissued
  <2>6. \A c \in Clients : claim'[c] \in {claim[c], Nobody} \/ IsOpen(claim'[c])
    BY <1>1 DEF LedgerNext, Open, Claim, Renew, Close, Drop, Leave, Return, LedgerInv
  <2>7. \A c \in Clients : claim'[c] # Nobody => ledger'[claim'[c]] # Unissued
    BY <2>4, <2>5, <2>6 DEF LedgerInv, IsOpen, Unissued
  <2>. QED
    BY <2>1, <2>2, <2>3, <2>4, <2>7 DEF LedgerInv
<1>2. CASE UNCHANGED ledgerVars
  BY <1>2 DEF ledgerVars, LedgerInv
<1>. QED
  BY <1>1, <1>2

\* The types of the ledger, and what a claim is on.
THEOREM LedgerIsTyped == LedgerSpec => []LedgerInv
<1>1. LedgerInit => LedgerInv
  BY DEF LedgerInit, LedgerInv
<1>. QED
  BY <1>1, LedgerInvStep, PTL DEF LedgerSpec

\* No open entry without its holder, whoever leaves and returns.
THEOREM OpenEntriesHaveHolders == LedgerSpec => []OpenHasHolder
<1>1. LedgerInit => OpenHasHolder
  BY DEF LedgerInit, OpenHasHolder, IsOpen, Unissued
<1>2. LedgerInv /\ OpenHasHolder /\ [LedgerNext]_ledgerVars => OpenHasHolder'
  <2>. SUFFICES ASSUME LedgerInv, OpenHasHolder, [LedgerNext]_ledgerVars,
                       NEW e \in Entries, ledger'[e].state = "open"
                PROVE  ledger'[e].holder \in present'
    BY DEF OpenHasHolder, IsOpen
  <2>1. CASE ledger'[e] = ledger[e]
    <3>1. ledger[e] # Unissued /\ ledger[e].holder \in present
      BY <2>1 DEF OpenHasHolder, IsOpen, Unissued
    <3>2. ASSUME NEW h \in Holders, Leave(h)
          PROVE  ledger'[e].holder \in present'
      <4>1. ledger[e].holder = h => ledger'[e] = Closed(e)
        BY <3>1, <3>2 DEF Leave
      <4>2. ledger[e].holder # h
        BY <3>1, <4>1, IssuedEntry
      <4>. QED
        BY <2>1, <3>1, <3>2, <4>2 DEF Leave
    <3>3. CASE present \subseteq present'
      BY <2>1, <3>1, <3>3
    <3>. QED
      BY <3>2, <3>3
      DEF LedgerNext, Open, Claim, Renew, Close, Drop, Leave, Return, ledgerVars
  <2>2. CASE LedgerNext /\ ledger'[e] # ledger[e]
    <3>1. ~(ledger[e] # Unissued /\ ledger'[e] = Closed(e))
      BY IssuedEntry
    <3>2. PICK h \in present, r \in Rights : present' = present /\ ledger'[e] = Entry(h, r, "open")
      BY <2>2, <3>1, EntryStep
    <3>. QED
      BY <3>2 DEF Entry
  <2>. QED
    BY <2>1, <2>2 DEF ledgerVars
<1>. QED
  BY <1>1, <1>2, LedgerIsTyped, PTL DEF LedgerSpec

\* Closed is closed, and an entry is one session's for ever.
THEOREM IssuedEntriesOnlyClose == LedgerSpec => EntriesOnlyClose
<1>1. LedgerInv /\ [LedgerNext]_ledgerVars =>
        [\A e \in Entries : ledger[e] # Unissued => ledger'[e] \in {ledger[e], Closed(e)}]_ledgerVars
  BY EntryStep DEF ledgerVars
<1>. QED
  BY <1>1, LedgerIsTyped, PTL DEF LedgerSpec, EntriesOnlyClose
-----------------------------------------------------------------------------
\* The book: entries are of holders, and a draft is of an entry that was issued.
BookEntries == [state: {"open", "closed"}, holder: Holders, secret: Secrets, confirmed: BOOLEAN]
Drafts   == [kind: {"draft"}, of: Names, secret: Secrets, confirmed: BOOLEAN]

BookInv ==
  /\ book \in [Names -> BookEntries \cup {Book!Unissued}]
  /\ drafts \in [Editors -> Drafts \cup {Book!NoDraft}]
  /\ \A e \in Editors : drafts[e] # Book!NoDraft => book[drafts[e].of] # Book!Unissued

\* A holder has one account at a time, although drafts open closed ones again (Save of a
\* stale copy against a registration of the same address).
HoldersHaveOne ==
  \A m, n \in Names :
    (Book!IsOpen(m) /\ Book!IsOpen(n) /\ book[m].holder = book[n].holder) => m = n

\* An account is never given to another holder.
HolderStays ==
  [][\A n \in Names : book[n] # Book!Unissued => book'[n].holder = book[n].holder]_(Book!bookVars)

\* What a step of the book makes of its entries: one is opened or entered, or one is
\* closed, or none changes.
Written(n) ==
  /\ \A m \in Names : m # n => book'[m] = book[m]
  /\ book'[n] \in BookEntries /\ book'[n].state = "open"
  /\ Book!IsFree(n, book'[n].holder)
  /\ book[n] # Book!Unissued => book'[n].holder = book[n].holder

Shut(n) ==
  /\ \A m \in Names : m # n => book'[m] = book[m]
  /\ book[n] # Book!Unissued
  /\ book'[n] \in BookEntries /\ book'[n].state = "closed" /\ book'[n].holder = book[n].holder

LEMMA IssuedAccount ==
  ASSUME BookInv, NEW n \in Names, book[n] # Book!Unissued
  PROVE  book[n] \in BookEntries
BY DEF BookInv

LEMMA BookStep ==
  ASSUME BookInv, Book!BookNext
  PROVE  /\ book' = book \/ \E n \in Names : Written(n) \/ Shut(n)
         /\ book' = [n \in Names |-> book'[n]]
<1>. DEFINE Goal == /\ book' = book \/ \E n \in Names : Written(n) \/ Shut(n)
                    /\ book' = [n \in Names |-> book'[n]]
<1>0. book = [n \in Names |-> book[n]]
  BY DEF BookInv
<1>1. ASSUME NEW n \in Names, NEW h \in Holders, NEW s \in Secrets, Book!Open(n, h, s)
      PROVE  Goal
  <2>1. book' = [book EXCEPT ![n] = Book!Entry(h, s, FALSE)] /\ book[n] = Book!Unissued
    BY <1>1 DEF Book!Open
  <2>2. Book!Entry(h, s, FALSE) \in BookEntries /\ Book!Entry(h, s, FALSE).holder = h
        /\ Book!Entry(h, s, FALSE).state = "open"
    BY DEF Book!Entry, BookEntries
  <2>. QED
    BY <1>0, <1>1, <2>1, <2>2 DEF Book!Open, Written
<1>2. ASSUME NEW e \in Editors, Book!Enter(e)
      PROVE  Goal
  <2>. DEFINE d == drafts[e]
              n == d.of
              h == book[n].holder
              new == Book!Entry(h, d.secret, d.confirmed)
  <2>1. d \in Drafts /\ n \in Names /\ book[n] \in BookEntries
    BY <1>2, IssuedAccount DEF Book!Enter, BookInv, Drafts
  <2>2. new \in BookEntries /\ new.holder = h /\ new.state = "open"
    BY <2>1 DEF Book!Entry, BookEntries, Drafts
  <2>3. book' = [book EXCEPT ![n] = new] /\ Book!IsFree(n, h)
    BY <1>2 DEF Book!Enter
  <2>4. Written(n)
    BY <1>0, <2>1, <2>2, <2>3 DEF Written
  <2>. QED
    BY <1>0, <2>1, <2>3, <2>4
<1>3. ASSUME NEW n \in Names, Book!Close(n)
      PROVE  Goal
  <2>1. book[n] # Book!Unissued /\ book[n] \in BookEntries
    BY <1>3, IssuedAccount DEF Book!Close, Book!IsOpen, Book!Unissued
  <2>2. book' = [book EXCEPT ![n] = [book[n] EXCEPT !.state = "closed"]]
    BY <1>3 DEF Book!Close
  <2>3. Shut(n)
    BY <1>0, <2>1, <2>2 DEF Shut, BookEntries
  <2>. QED
    BY <1>0, <2>2, <2>3
<1>4. CASE UNCHANGED book
  BY <1>0, <1>4
<1>. QED
  BY <1>1, <1>2, <1>3, <1>4
  DEF Book!BookNext, Book!Discard, Book!DraftConfirmed, Book!DraftSecret, Book!Take

LEMMA BookInvStep ==
  ASSUME BookInv, [Book!BookNext]_(Book!bookVars)
  PROVE  BookInv'
<1>1. CASE Book!BookNext
  <2>1. book' \in [Names -> BookEntries \cup {Book!Unissued}]
    <3>1. \A n \in Names : book'[n] \in BookEntries \cup {Book!Unissued}
      BY <1>1, BookStep DEF BookInv, Written, Shut
    <3>. QED
      BY <1>1, <3>1, BookStep
  <2>2. \A n \in Names : book[n] # Book!Unissued => book'[n] # Book!Unissued
    BY <1>1, BookStep DEF Written, Shut, BookEntries, Book!Unissued
  <2>3. \/ \E e \in Editors : drafts' = [drafts EXCEPT ![e] = Book!NoDraft]
        \/ \E e \in Editors : \E d \in Drafts :
             drafts' = [drafts EXCEPT ![e] = d] /\ book[d.of] # Book!Unissued
        \/ drafts' = drafts
    <3>1. ASSUME NEW n \in Names, Book!IsOpen(n), NEW s \in Secrets
          PROVE  /\ book[n] # Book!Unissued
                 /\ Book!Draft(n, book[n].secret, TRUE) \in Drafts
                 /\ Book!Draft(n, s, book[n].confirmed) \in Drafts
      <4>1. book[n] # Book!Unissued /\ book[n] \in BookEntries
        BY <3>1, IssuedAccount DEF Book!IsOpen, Book!Unissued
      <4>. QED
        BY <4>1 DEF Book!Draft, Drafts, BookEntries
    <3>2. ASSUME NEW e \in Editors, NEW n \in Names, Book!DraftConfirmed(e, n)
          PROVE  \E d \in Drafts : drafts' = [drafts EXCEPT ![e] = d] /\ book[d.of] # Book!Unissued
      <4>1. book[n] # Book!Unissued /\ book[n] \in BookEntries
        BY <3>2, IssuedAccount DEF Book!DraftConfirmed, Book!IsOpen, Book!Unissued
      <4>2. Book!Draft(n, book[n].secret, TRUE) \in Drafts
            /\ Book!Draft(n, book[n].secret, TRUE).of = n
        BY <4>1 DEF Book!Draft, Drafts, BookEntries
      <4>. QED
        BY <3>2, <4>1, <4>2 DEF Book!DraftConfirmed, Book!Take
    <3>3. ASSUME NEW e \in Editors, NEW n \in Names, NEW s \in Secrets, Book!DraftSecret(e, n, s)
          PROVE  \E d \in Drafts : drafts' = [drafts EXCEPT ![e] = d] /\ book[d.of] # Book!Unissued
      <4>1. Book!Draft(n, s, book[n].confirmed) \in Drafts
            /\ Book!Draft(n, s, book[n].confirmed).of = n
        BY <3>1, <3>3 DEF Book!DraftSecret, Book!Draft
      <4>. QED
        BY <3>1, <3>3, <4>1 DEF Book!DraftSecret, Book!Take
    <3>. QED
      BY <1>1, <3>2, <3>3
      DEF Book!BookNext, Book!Discard, Book!Enter, Book!Close, Book!Open
  <2>4. drafts' \in [Editors -> Drafts \cup {Book!NoDraft}]
    BY <2>3 DEF BookInv
  <2>5. ASSUME NEW e \in Editors, drafts'[e] # Book!NoDraft
        PROVE  book'[drafts'[e].of] # Book!Unissued
    <3>1. book[drafts'[e].of] # Book!Unissued
      BY <2>3, <2>5 DEF BookInv
    <3>2. drafts'[e].of \in Names
      BY <2>4, <2>5 DEF Drafts
    <3>. QED
      BY <2>2, <3>1, <3>2
  <2>. QED
    BY <2>1, <2>4, <2>5 DEF BookInv
<1>2. CASE UNCHANGED Book!bookVars
  BY <1>2 DEF Book!bookVars, BookInv
<1>. QED
  BY <1>1, <1>2

\* The types of the book, and what a draft is of.
THEOREM BookIsTyped == Book!BookSpec => []BookInv
<1>1. Book!BookInit => BookInv
  BY DEF Book!BookInit, BookInv
<1>. QED
  BY <1>1, BookInvStep, PTL DEF Book!BookSpec

\* No holder has two accounts at a time.
THEOREM HoldersHaveOneAccount == Book!BookSpec => []HoldersHaveOne
<1>1. Book!BookInit => HoldersHaveOne
  BY DEF Book!BookInit, HoldersHaveOne, Book!IsOpen, Book!Unissued
<1>2. BookInv /\ HoldersHaveOne /\ [Book!BookNext]_(Book!bookVars) => HoldersHaveOne'
  <2>. SUFFICES ASSUME BookInv, HoldersHaveOne, [Book!BookNext]_(Book!bookVars)
                PROVE  HoldersHaveOne'
    OBVIOUS
  <2>1. CASE book' = book
    BY <2>1 DEF HoldersHaveOne, Book!IsOpen
  <2>2. ASSUME NEW n \in Names, Written(n)
        PROVE  HoldersHaveOne'
    BY <2>2 DEF HoldersHaveOne, Written, Book!IsOpen, Book!IsFree
  <2>3. ASSUME NEW n \in Names, Shut(n)
        PROVE  HoldersHaveOne'
    BY <2>3 DEF HoldersHaveOne, Shut, Book!IsOpen
  <2>. QED
    BY <2>1, <2>2, <2>3, BookStep DEF Book!bookVars
<1>. QED
  BY <1>1, <1>2, BookIsTyped, PTL DEF Book!BookSpec

\* Whose an account is, is settled when it is opened.
THEOREM AccountsKeepHolders == Book!BookSpec => HolderStays
<1>1. BookInv /\ [Book!BookNext]_(Book!bookVars) =>
        [\A n \in Names : book[n] # Book!Unissued => book'[n].holder = book[n].holder]_(Book!bookVars)
  <2>. SUFFICES ASSUME BookInv, Book!BookNext, NEW n \in Names, book[n] # Book!Unissued
                PROVE  book'[n].holder = book[n].holder
    OBVIOUS
  <2>. QED
    BY BookStep DEF Written, Shut
<1>. QED
  BY <1>1, BookIsTyped, PTL DEF Book!BookSpec, HolderStays
=============================================================================
