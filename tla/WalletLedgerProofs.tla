------------------------- MODULE WalletLedgerProofs --------------------------
(***************************************************************************)
(* Wallets and their ledger, for any number of sessions, readers, wallets  *)
(* and owners.                                                             *)
(*                                                                         *)
(* One wallet per owner.  The unique index speaks of committed rows and of *)
(* inserts under way, so the invariant does too: an owner is held by one   *)
(* wallet among the stored ones and by one session among the open ones,    *)
(* and a session that holds the owner of a stored wallet holds that        *)
(* wallet.  The last part needs the row locks: nobody else's transaction   *)
(* is about the same wallet.                                               *)
(*                                                                         *)
(* Exact pages and reconciliations.  The invariant is about the books:     *)
(* each movement of a wallet starts where the one before it ended, the     *)
(* last one ended at the stored balance, the movements add up to it, and   *)
(* the entry of a transaction under way goes at the end of that chain with *)
(* a number above all of its wallet's.  The readers need two facts about   *)
(* finite sets that no action is about: that a sum does not depend on the  *)
(* order of its terms, and that entries can be put in the order of their   *)
(* numbers.  The first is proved by minimal counterexample, with the       *)
(* well-founded order of the subsets of a finite set; the second by        *)
(* counting the entries up to each one.                                    *)
(***************************************************************************)
EXTENDS WalletLedger, FiniteSetTheorems, TLAPS

Steps      == {"closed", "opening", "locked", "entered", "ready"}
Session    == [step : Steps, wallet : WalletIds \cup {None}, row : Rows \cup {None},
               entry : LedgerRows \cup {None}]

\* Type invariant.
TypeOK ==
    /\ wallets \in [WalletIds -> Rows \cup {None}]
    /\ sequence \in Nat
    /\ open \in [Sessions -> Session]

\* A session is about a wallet and has its row from its first statement to its end.
SessionsSound ==
    \A s \in Sessions :
        /\ open[s].step = "closed" <=> open[s].wallet = None
        /\ open[s].step = "closed" <=> open[s].row = None

\* FindForUpdate and the primary key: one transaction per wallet.
OneSessionPerWallet ==
    \A s, t \in Sessions : open[s].wallet # None /\ open[s].wallet = open[t].wallet => s = t

\* wallets_player_id_currency_key among the transactions under way.
OneSessionPerOwner ==
    \A s, t \in Sessions :
        open[s].row # None /\ open[t].row # None /\ open[s].row.owner = open[t].row.owner => s = t

\* The same key between a transaction and the stored wallets.
OwnersAgree ==
    \A s \in Sessions, w \in WalletIds :
        open[s].row # None /\ wallets[w] # None =>
            (wallets[w].owner = open[s].row.owner <=> open[s].wallet = w)

LedgerInv == /\ TypeOK /\ SessionsSound /\ OneSessionPerWallet /\ OneSessionPerOwner
             /\ OwnersAgree /\ OneWalletPerOwner

-----------------------------------------------------------------------------
LEMMA ClosedIs ==
    /\ Closed \in Session
    /\ Closed.step = "closed" /\ Closed.wallet = None /\ Closed.row = None
BY DEF Closed, Session, Steps

LEMMA SessionFields ==
    ASSUME NEW x \in Session
    PROVE  /\ x.step \in Steps /\ x.wallet \in WalletIds \cup {None}
           /\ x.row \in Rows \cup {None} /\ x.entry \in LedgerRows \cup {None}
BY DEF Session

LEMMA InitHolds == Init => LedgerInv
<1> SUFFICES ASSUME Init PROVE LedgerInv
  OBVIOUS
<1>1. TypeOK
  BY ClosedIs DEF Init, TypeOK
<1>2. \A s \in Sessions : open[s] = Closed
  BY DEF Init
<1>3. \A w \in WalletIds : wallets[w] = None
  BY DEF Init
<1> QED
  BY <1>1, <1>2, <1>3, ClosedIs
     DEF LedgerInv, SessionsSound, OneSessionPerWallet, OneSessionPerOwner, OwnersAgree,
         OneWalletPerOwner

\* A session goes on with the wallet and the owner it has.
LEMMA GoesOn ==
    ASSUME LedgerInv, NEW s \in Sessions, NEW x \in Session, open[s].step # "closed",
           open' = [open EXCEPT ![s] = x], wallets' = wallets, sequence' \in Nat,
           x.step # "closed", x.wallet = open[s].wallet, x.row \in Rows,
           x.row.owner = open[s].row.owner
    PROVE  LedgerInv'
<1>1. TypeOK'
  BY DEF LedgerInv, TypeOK
<1>2. \A t \in Sessions : open'[t] = IF t = s THEN x ELSE open[t]
  BY DEF LedgerInv, TypeOK
<1>3. \A t \in Sessions : /\ open'[t].wallet = open[t].wallet
                          /\ open'[t].row # None <=> open[t].row # None
                          /\ open'[t].row.owner = open[t].row.owner
                          /\ open'[t].step = "closed" <=> open[t].step = "closed"
  BY <1>2, AbsentAssumption DEF LedgerInv, SessionsSound
<1>4. SessionsSound'
  BY <1>3 DEF LedgerInv, SessionsSound
<1>5. OneSessionPerWallet' /\ OneSessionPerOwner'
  BY <1>3 DEF LedgerInv, OneSessionPerWallet, OneSessionPerOwner
<1>6. OwnersAgree' /\ OneWalletPerOwner'
  BY <1>3 DEF LedgerInv, OwnersAgree, OneWalletPerOwner
<1> QED
  BY <1>1, <1>4, <1>5, <1>6 DEF LedgerInv

\* A session ends without storing anything.
LEMMA Ends ==
    ASSUME LedgerInv, NEW s \in Sessions, open' = [open EXCEPT ![s] = Closed],
           wallets' = wallets, sequence' = sequence
    PROVE  LedgerInv'
<1>1. TypeOK'
  BY ClosedIs DEF LedgerInv, TypeOK
<1>2. \A t \in Sessions : open'[t] = IF t = s THEN Closed ELSE open[t]
  BY DEF LedgerInv, TypeOK
<1>3. SessionsSound'
  BY <1>2, ClosedIs DEF LedgerInv, SessionsSound
<1>4. OneSessionPerWallet' /\ OneSessionPerOwner'
  BY <1>2, ClosedIs DEF LedgerInv, OneSessionPerWallet, OneSessionPerOwner
<1>5. OwnersAgree' /\ OneWalletPerOwner'
  BY <1>2, ClosedIs DEF LedgerInv, OwnersAgree, OneWalletPerOwner
<1> QED
  BY <1>1, <1>3, <1>4, <1>5 DEF LedgerInv

\* A session begins, about a wallet nobody else has and an owner nobody else has.
LEMMA Begins ==
    ASSUME LedgerInv, NEW s \in Sessions, NEW w \in WalletIds, NEW x \in Session,
           open[s] = Closed, Locks(w) = {}, open' = [open EXCEPT ![s] = x],
           wallets' = wallets, sequence' = sequence,
           x.step # "closed", x.wallet = w, x.row \in Rows,
           \A t \in Sessions : open[t].row # None => open[t].row.owner # x.row.owner,
           \A v \in WalletIds : wallets[v] # None => (wallets[v].owner = x.row.owner <=> v = w)
    PROVE  LedgerInv'
<1>1. TypeOK'
  BY DEF LedgerInv, TypeOK
<1>2. \A t \in Sessions : open'[t] = IF t = s THEN x ELSE open[t]
  BY DEF LedgerInv, TypeOK
<1>3. x.wallet # None /\ x.row # None
  BY AbsentAssumption
<1>4. \A t \in Sessions : open[t].wallet # w
  BY DEF Locks
<1>5. SessionsSound'
  BY <1>2, <1>3 DEF LedgerInv, SessionsSound
<1>6. OneSessionPerWallet'
  BY <1>2, <1>4 DEF LedgerInv, OneSessionPerWallet
<1>7. OneSessionPerOwner'
  BY <1>2 DEF LedgerInv, OneSessionPerOwner
<1>8. OwnersAgree' /\ OneWalletPerOwner'
  BY <1>2 DEF LedgerInv, OwnersAgree, OneWalletPerOwner
<1> QED
  BY <1>1, <1>5, <1>6, <1>7, <1>8 DEF LedgerInv

-----------------------------------------------------------------------------
(* The statements.                                                         *)

LEMMA InsertWalletKeeps ==
    ASSUME LedgerInv, NEW s \in Sessions, NEW w \in WalletIds, InsertWallet(s, w)
    PROVE  LedgerInv'
<1>1. PICK o \in Owners, balance \in InitialBalances :
          /\ OwnerIsFree(o)
          /\ open' = [open EXCEPT ![s] =
                [step |-> IF balance > 0 THEN "opening" ELSE "ready", wallet |-> w,
                 row |-> [owner |-> o, balance |-> balance, version |-> 1], entry |-> None]]
  BY DEF InsertWallet
<1> DEFINE r == [owner |-> o, balance |-> balance, version |-> 1]
           x == [step |-> IF balance > 0 THEN "opening" ELSE "ready", wallet |-> w,
                 row |-> r, entry |-> None]
<1>2. r \in Rows /\ r.owner = o
  BY LedgerAssumption DEF Rows
<1> HIDE DEF r
<1>3. /\ x \in Session /\ x.step # "closed" /\ x.wallet = w /\ x.row = r
  BY <1>2 DEF Session, Steps
<1>4. open' = [open EXCEPT ![s] = x]
  BY <1>1 DEF r
<1> HIDE DEF x
<1>5. /\ open[s] = Closed /\ wallets[w] = None /\ Locks(w) = {}
      /\ wallets' = wallets /\ sequence' = sequence
  BY DEF InsertWallet, tables
<1>6. /\ \A t \in Sessions : open[t].row # None => open[t].row.owner # x.row.owner
      /\ \A v \in WalletIds : wallets[v] # None => wallets[v].owner # x.row.owner
  BY <1>1, <1>2, <1>3 DEF OwnerIsFree, OwnerIsTaken
<1>7. \A v \in WalletIds : wallets[v] # None => (wallets[v].owner = x.row.owner <=> v = w)
  BY <1>5, <1>6
<1> QED
  BY <1>2, <1>3, <1>4, <1>5, <1>6, <1>7, Begins

LEMMA LockWalletKeeps ==
    ASSUME LedgerInv, NEW s \in Sessions, NEW w \in WalletIds, LockWallet(s, w)
    PROVE  LedgerInv'
<1> DEFINE x == [step |-> "locked", wallet |-> w, row |-> wallets[w], entry |-> None]
<1>1. /\ open[s] = Closed /\ wallets[w] # None /\ Locks(w) = {}
      /\ wallets' = wallets /\ sequence' = sequence /\ open' = [open EXCEPT ![s] = x]
  BY DEF LockWallet, tables
<1>2. wallets[w] \in Rows
  BY <1>1 DEF LedgerInv, TypeOK
<1>3. x \in Session /\ x.step # "closed" /\ x.wallet = w /\ x.row = wallets[w]
  BY <1>2 DEF Session, Steps
<1> HIDE DEF x
<1>4. \A t \in Sessions : open[t].wallet # w
  BY <1>1 DEF Locks
<1>5. \A t \in Sessions : open[t].row # None => open[t].row.owner # x.row.owner
  BY <1>1, <1>3, <1>4 DEF LedgerInv, OwnersAgree
<1>6. \A v \in WalletIds : wallets[v] # None => (wallets[v].owner = x.row.owner <=> v = w)
  BY <1>1, <1>3 DEF LedgerInv, OneWalletPerOwner
<1> QED
  BY <1>1, <1>2, <1>3, <1>5, <1>6, Begins

LEMMA EntryIs ==
    ASSUME LedgerInv, NEW w \in WalletIds, NEW before \in 0..MaxBalance,
           NEW after \in 0..MaxBalance
    PROVE  Entry(w, before, after) \in LedgerRows
BY LedgerAssumption DEF LedgerInv, TypeOK, Entry, LedgerRows

\* The wallet and the row of an open session.
LEMMA OpenSession ==
    ASSUME LedgerInv, NEW s \in Sessions, open[s].step # "closed"
    PROVE  /\ open[s] \in Session /\ open[s].wallet \in WalletIds /\ open[s].row \in Rows
           /\ open[s].row.balance \in 0..MaxBalance /\ open[s].row.version \in Nat
           /\ open[s].row.owner \in Owners
<1>1. open[s] \in Session
  BY DEF LedgerInv, TypeOK
<1>2. open[s].wallet \in WalletIds /\ open[s].row \in Rows
  BY <1>1, SessionFields DEF LedgerInv, SessionsSound
<1> QED
  BY <1>1, <1>2 DEF Rows

LEMMA DrawIs == LedgerInv /\ Draw => sequence' \in Nat
BY DEF LedgerInv, TypeOK, Draw

\* What the opening entry changes.
LEMMA InsertOpeningEntryIs ==
    ASSUME LedgerInv, NEW s \in Sessions, InsertOpeningEntry(s)
    PROVE  open' = [open EXCEPT ![s] =
               [open[s] EXCEPT !.step = "ready",
                               !.entry = Entry(open[s].wallet, 0, open[s].row.balance)]]
<1> DEFINE e == Entry(open[s].wallet, 0, open[s].row.balance)
           x == [open[s] EXCEPT !.step = "ready", !.entry = e]
<1>1. s \in DOMAIN open
  BY DEF LedgerInv, TypeOK
<1>2. open' = [open EXCEPT ![s].step = "ready", ![s].entry = e]
  BY DEF InsertOpeningEntry
<1> HIDE DEF e
<1>3. open' = [[open EXCEPT ![s].step = "ready"] EXCEPT ![s].entry = e]
  BY <1>2
<1>4. [open EXCEPT ![s].step = "ready"] = [open EXCEPT ![s] = [open[s] EXCEPT !.step = "ready"]]
  OBVIOUS
<1>5. [[open EXCEPT ![s] = [open[s] EXCEPT !.step = "ready"]] EXCEPT ![s].entry = e] =
          [open EXCEPT ![s] = [[open[s] EXCEPT !.step = "ready"] EXCEPT !.entry = e]]
  BY <1>1
<1>6. x = [[open[s] EXCEPT !.step = "ready"] EXCEPT !.entry = e]
  OBVIOUS
<1>7. open' = [open EXCEPT ![s] = x]
  BY <1>3, <1>4, <1>5, <1>6
<1> QED
  BY <1>7 DEF e

LEMMA InsertOpeningEntryKeeps ==
    ASSUME LedgerInv, NEW s \in Sessions, InsertOpeningEntry(s)
    PROVE  LedgerInv'
<1> DEFINE e == Entry(open[s].wallet, 0, open[s].row.balance)
           x == [open[s] EXCEPT !.step = "ready", !.entry = e]
<1>1. open[s].step = "opening" /\ wallets' = wallets /\ sequence' \in Nat
  BY DrawIs DEF InsertOpeningEntry
<1>2. /\ open[s] \in Session /\ open[s].wallet \in WalletIds /\ open[s].row \in Rows
      /\ open[s].row.balance \in 0..MaxBalance
  BY <1>1, OpenSession
<1>3. e \in LedgerRows
  BY <1>2, EntryIs, LedgerAssumption
<1>4. open' = [open EXCEPT ![s] = x]
  BY InsertOpeningEntryIs
<1> HIDE DEF e
<1>5. /\ x \in Session /\ x.step # "closed" /\ x.wallet = open[s].wallet
      /\ x.row = open[s].row
  BY <1>2, <1>3 DEF Session, Steps
<1> HIDE DEF x
<1> QED
  BY <1>1, <1>2, <1>4, <1>5, GoesOn

LEMMA InsertEntryKeeps ==
    ASSUME LedgerInv, NEW s \in Sessions, InsertEntry(s)
    PROVE  LedgerInv'
<1>1. open[s].step = "locked" /\ wallets' = wallets /\ sequence' \in Nat
  BY DrawIs DEF InsertEntry
<1>2. /\ open[s] \in Session /\ open[s].wallet \in WalletIds /\ open[s].row \in Rows
      /\ open[s].row.balance \in 0..MaxBalance /\ open[s].row.version \in Nat
      /\ open[s].row.owner \in Owners
  BY <1>1, OpenSession
<1>3. PICK balance \in 0..MaxBalance :
          open' = [open EXCEPT ![s] =
             [step |-> "entered", wallet |-> open[s].wallet,
              row |-> [open[s].row EXCEPT !.balance = balance, !.version = @ + 1],
              entry |-> Entry(open[s].wallet, open[s].row.balance, balance)]]
  BY DEF InsertEntry
<1> DEFINE e == Entry(open[s].wallet, open[s].row.balance, balance)
           r == [open[s].row EXCEPT !.balance = balance, !.version = @ + 1]
           x == [step |-> "entered", wallet |-> open[s].wallet, row |-> r, entry |-> e]
<1>4. e \in LedgerRows
  BY <1>2, EntryIs
<1>5. open' = [open EXCEPT ![s] = x]
  BY <1>3
<1>6. r \in Rows /\ r.owner = open[s].row.owner
  <2> DEFINE q == [open[s].row EXCEPT !.balance = balance]
  <2>1. r = [q EXCEPT !.version = open[s].row.version + 1]
    OBVIOUS
  <2>2. q \in Rows /\ q.owner = open[s].row.owner
    BY <1>2 DEF Rows
  <2> HIDE DEF q
  <2>3. [q EXCEPT !.version = open[s].row.version + 1] \in Rows
    BY <1>2, <2>2 DEF Rows
  <2>4. [q EXCEPT !.version = open[s].row.version + 1].owner = q.owner
    BY <2>2 DEF Rows
  <2> QED
    BY <2>1, <2>2, <2>3, <2>4
<1> HIDE DEF e, r
<1>7. x \in Session /\ x.step # "closed" /\ x.wallet = open[s].wallet /\ x.row = r
  BY <1>2, <1>4, <1>6 DEF Session, Steps
<1> HIDE DEF x
<1> QED
  BY <1>1, <1>5, <1>6, <1>7, GoesOn

LEMMA UpdateBalanceKeeps ==
    ASSUME LedgerInv, NEW s \in Sessions, UpdateBalance(s)
    PROVE  LedgerInv'
<1>1. open[s].step = "entered" /\ wallets' = wallets /\ sequence' = sequence /\ sequence' \in Nat
  BY DEF UpdateBalance, tables, LedgerInv, TypeOK
<1>2. CASE open' = [open EXCEPT ![s] = Closed]
  BY <1>1, <1>2, Ends
<1>3. CASE open' = [open EXCEPT ![s].step = "ready"]
  <2> DEFINE x == [open[s] EXCEPT !.step = "ready"]
  <2>1. open[s] \in Session /\ open[s].row \in Rows
    BY <1>1, OpenSession
  <2>2. open' = [open EXCEPT ![s] = x]
    BY <1>3
  <2>3. x \in Session /\ x.step # "closed" /\ x.wallet = open[s].wallet /\ x.row = open[s].row
    BY <2>1 DEF Session, Steps
  <2> HIDE DEF x
  <2> QED
    BY <1>1, <2>1, <2>2, <2>3, GoesOn
<1> QED
  BY <1>2, <1>3 DEF UpdateBalance

\* The commit of a session makes its row the wallet's: by OwnersAgree no other
\* wallet has its owner, and by the locks no other session has its wallet.
LEMMA CommitKeeps ==
    ASSUME LedgerInv, NEW s \in Sessions, Commit(s)
    PROVE  LedgerInv'
<1> DEFINE w == open[s].wallet
           r == open[s].row
<1>1. /\ open[s].step = "ready" /\ sequence' = sequence
      /\ wallets' = [wallets EXCEPT ![w] = r] /\ open' = [open EXCEPT ![s] = Closed]
  BY DEF Commit
<1>2. w \in WalletIds /\ r \in Rows /\ r # None /\ w # None
  BY <1>1, OpenSession, AbsentAssumption
<1>3. TypeOK'
  BY <1>1, <1>2, ClosedIs DEF LedgerInv, TypeOK
<1>4. \A t \in Sessions : open'[t] = IF t = s THEN Closed ELSE open[t]
  BY <1>1 DEF LedgerInv, TypeOK
<1>5. \A v \in WalletIds : wallets'[v] = IF v = w THEN r ELSE wallets[v]
  BY <1>1 DEF LedgerInv, TypeOK
<1>6. SessionsSound'
  BY <1>4, ClosedIs DEF LedgerInv, SessionsSound
<1>7. OneSessionPerWallet' /\ OneSessionPerOwner'
  BY <1>4, ClosedIs DEF LedgerInv, OneSessionPerWallet, OneSessionPerOwner
<1>8. OwnersAgree'
  <2> SUFFICES ASSUME NEW t \in Sessions, NEW v \in WalletIds,
                      open'[t].row # None, wallets'[v] # None
               PROVE  wallets'[v].owner = open'[t].row.owner <=> open'[t].wallet = v
    BY DEF OwnersAgree
  <2>1. t # s /\ open'[t] = open[t]
    BY <1>4, ClosedIs
  <2>2. CASE v = w
    <3>1. r.owner # open[t].row.owner /\ open[t].wallet # w
      BY <1>2, <2>1 DEF LedgerInv, OneSessionPerOwner, OneSessionPerWallet
    <3> QED
      BY <1>5, <2>1, <2>2, <3>1
  <2>3. CASE v # w
    BY <1>5, <2>1, <2>3 DEF LedgerInv, OwnersAgree
  <2> QED
    BY <2>2, <2>3
<1>9. OneWalletPerOwner'
  <2>1. \A v \in WalletIds : v # w /\ wallets[v] # None => wallets[v].owner # r.owner
    BY <1>2 DEF LedgerInv, OwnersAgree
  <2> QED
    BY <1>5, <2>1 DEF LedgerInv, OneWalletPerOwner
<1> QED
  BY <1>3, <1>6, <1>7, <1>8, <1>9 DEF LedgerInv

LEMMA NothingChanges ==
    ASSUME LedgerInv, UNCHANGED <<tables, open>>
    PROVE  LedgerInv'
BY DEF LedgerInv, TypeOK, SessionsSound, OneSessionPerWallet, OneSessionPerOwner, OwnersAgree,
       OneWalletPerOwner, tables

LEMMA StepHolds == LedgerInv /\ [Next]_vars => LedgerInv'
<1> SUFFICES ASSUME LedgerInv, [Next]_vars PROVE LedgerInv'
  OBVIOUS
<1>1. CASE UNCHANGED vars
  BY <1>1, NothingChanges DEF vars
<1>2. ASSUME NEW s \in Sessions, NEW w \in WalletIds, InsertWallet(s, w) \/ LockWallet(s, w)
      PROVE  LedgerInv'
  BY <1>2, InsertWalletKeeps, LockWalletKeeps
<1>3. ASSUME NEW s \in Sessions,
             InsertOpeningEntry(s) \/ InsertEntry(s) \/ UpdateBalance(s) \/ Commit(s)
      PROVE  LedgerInv'
  BY <1>3, InsertOpeningEntryKeeps, InsertEntryKeeps, UpdateBalanceKeeps, CommitKeeps
<1>4. ASSUME NEW s \in Sessions, Rollback(s)
      PROVE  LedgerInv'
  BY <1>4, Ends DEF Rollback, tables
<1>5. ASSUME NEW r \in Readers,
             \/ \E w \in WalletIds : FetchPage(r, w) \/ ReadStoredBalance(r, w)
             \/ SumLedger(r) \/ Answer(r)
      PROVE  LedgerInv'
  <2>1. UNCHANGED <<tables, open>>
    BY <1>5 DEF FetchPage, ReadStoredBalance, SumLedger, Answer
  <2> QED
    BY <2>1, NothingChanges
<1> QED
  BY <1>1, <1>2, <1>3, <1>4, <1>5 DEF Next

\* However many openings run at once, a player has one wallet in a currency: the
\* unique index of migration 0003 suffices, for any sessions and owners.
THEOREM OwnersHaveOneWallet == Spec => []OneWalletPerOwner
<1>1. LedgerInv => OneWalletPerOwner
  BY DEF LedgerInv
<1> QED
  BY <1>1, InitHolds, StepHolds, PTL DEF Spec

-----------------------------------------------------------------------------
(* The sum of a ledger, whatever order its rows are met in.                *)

\* What an entry adds to its wallet, and what SumLedger computes.
Change(e) == e.after - e.before
Sum(S)    == MapThenSumSet(LAMBDA e : e.after - e.before, S)

LEMMA ChangeIs == \A e \in LedgerRows : Change(e) \in Int
BY LedgerAssumption DEF Change, LedgerRows

\* A total of every subset of S to which any of its entries may be added last.
IsTotal(g, S) ==
    /\ g \in [SUBSET S -> Int]
    /\ g[{}] = 0
    /\ \A T \in SUBSET S : \A x \in T : g[T] = Change(x) + g[T \ {x}]

\* The recursion of the fold, which adds a chosen entry.
IsFold(f, S) ==
    f = [T \in SUBSET S |->
            IF T = {} THEN 0
            ELSE Change(CHOOSE x \in T : TRUE) + f[T \ {CHOOSE x \in T : TRUE}]]

LEMMA SumIs == ASSUME NEW S PROVE Sum(S) = (CHOOSE f : IsFold(f, S))[S]
BY DEF Sum, MapThenSumSet, MapThenFoldSet, IsFold, Change

\* Of the subsets of a finite set that have a property, one is minimal.
LEMMA MinimalSubset ==
    ASSUME NEW S, IsFiniteSet(S), NEW B \in SUBSET SUBSET S, B # {}
    PROVE  \E T \in B : \A U \in B : U \subseteq T => U = T
<1> DEFINE R == StrictSubsetOrdering(S)
<1>1. IsWellFoundedOn(R, SUBSET S)
  BY FS_StrictSubsetOrderingWellFounded, FS_FiniteSubsetsOfFinite
<1> HIDE DEF R
<1>2. PICK T \in B : \A U \in B : ~(<<U, T>> \in R)
  BY <1>1, WFMin
<1>3. ASSUME NEW U \in B, U \subseteq T, U # T
      PROVE  <<U, T>> \in R
  <2>1. U \in SUBSET S /\ T \in SUBSET S
    OBVIOUS
  <2>2. <<U, T>> \in (SUBSET S) \X (SUBSET S)
    BY <2>1
  <2> QED
    BY <1>3, <2>2 DEF R, StrictSubsetOrdering
<1>4. ASSUME NEW U \in B, U \subseteq T PROVE U = T
  BY <1>2, <1>3, <1>4, Zenon
<1> QED
  BY <1>4

LEMMA TotalGrows ==
    ASSUME NEW V \in SUBSET LedgerRows, NEW x \in LedgerRows, x \notin V, NEW g, IsTotal(g, V)
    PROVE  \E h : IsTotal(h, V \cup {x})
<1> DEFINE T == V \cup {x}
           h == [U \in SUBSET T |-> IF x \in U THEN Change(x) + g[U \ {x}] ELSE g[U]]
<1>1. \A U \in SUBSET T : (x \notin U => U \in SUBSET V) /\ U \ {x} \in SUBSET V
  OBVIOUS
<1>2. Change(x) \in Int /\ \A U \in SUBSET V : g[U] \in Int
  BY ChangeIs DEF IsTotal
<1>3. h \in [SUBSET T -> Int]
  BY <1>1, <1>2
<1>4. \A U \in SUBSET T : h[U] = IF x \in U THEN Change(x) + g[U \ {x}] ELSE g[U]
  OBVIOUS
<1> HIDE DEF h
<1>5. h[{}] = 0
  BY <1>4 DEF IsTotal
<1>6. ASSUME NEW U \in SUBSET T, NEW y \in U
      PROVE  h[U] = Change(y) + h[U \ {y}]
  <2>1. U \ {y} \in SUBSET T
    OBVIOUS
  <2>2. CASE x \notin U
    <3>1. h[U] = g[U] /\ h[U \ {y}] = g[U \ {y}]
      BY <1>4, <2>1, <2>2
    <3> QED
      BY <1>1, <2>2, <3>1 DEF IsTotal
  <2>3. CASE y = x
    BY <1>4, <2>1, <2>3
  <2>4. CASE x \in U /\ y # x
    <3>1. h[U] = Change(x) + g[U \ {x}] /\ h[U \ {y}] = Change(x) + g[(U \ {y}) \ {x}]
      BY <1>4, <2>1, <2>4
    <3>2. U \ {x} \in SUBSET V /\ y \in U \ {x} /\ (U \ {x}) \ {y} = (U \ {y}) \ {x}
      BY <1>1, <2>4
    <3>3. g[U \ {x}] = Change(y) + g[(U \ {y}) \ {x}]
      BY <3>2 DEF IsTotal
    <3>4. Change(y) \in Int /\ g[(U \ {y}) \ {x}] \in Int
      <4>1. y \in LedgerRows /\ (U \ {y}) \ {x} \in SUBSET V
        BY <2>4
      <4> QED
        BY <1>2, <4>1, ChangeIs
    <3> QED
      BY <1>2, <3>1, <3>3, <3>4
  <2> QED
    BY <2>2, <2>3, <2>4
<1>7. IsTotal(h, T)
  BY <1>3, <1>5, <1>6 DEF IsTotal
<1> QED
  BY <1>7

LEMMA TotalExists ==
    ASSUME NEW S \in SUBSET LedgerRows, IsFiniteSet(S)
    PROVE  \E g : IsTotal(g, S)
<1> DEFINE B == {T \in SUBSET S : ~\E g : IsTotal(g, T)}
<1>1. SUFFICES ASSUME B # {} PROVE FALSE
  OBVIOUS
<1>2. PICK T \in B : \A U \in B : U \subseteq T => U = T
  <2>1. B \in SUBSET SUBSET S
    OBVIOUS
  <2> HIDE DEF B
  <2> QED
    BY <1>1, <2>1, MinimalSubset
<1>3. CASE T = {}
  <2> DEFINE g == [U \in SUBSET {} |-> 0]
  <2>1. IsTotal(g, {})
    BY DEF IsTotal
  <2> QED
    BY <1>3, <2>1
<1>4. CASE T # {}
  <2>1. PICK x \in T : TRUE
    BY <1>4
  <2>2. T \ {x} \notin B
    BY <1>2, <2>1
  <2>3. PICK g : IsTotal(g, T \ {x})
    BY <2>2
  <2>4. (T \ {x}) \cup {x} = T /\ x \notin T \ {x} /\ x \in LedgerRows
        /\ T \ {x} \in SUBSET LedgerRows
    BY <2>1
  <2>5. \E h : IsTotal(h, (T \ {x}) \cup {x})
    BY <2>3, <2>4, TotalGrows
  <2> QED
    BY <2>4, <2>5
<1> QED
  BY <1>3, <1>4

\* The fold reaches the total: a smallest subset where it did not would be one
\* entry larger than one where it does.
LEMMA FoldIsTotal ==
    ASSUME NEW S \in SUBSET LedgerRows, IsFiniteSet(S), NEW g, IsTotal(g, S),
           NEW f, IsFold(f, S)
    PROVE  f[S] = g[S]
<1> DEFINE B == {T \in SUBSET S : f[T] # g[T]}
<1>1. SUFFICES ASSUME B # {} PROVE FALSE
  OBVIOUS
<1>2. PICK T \in B : \A U \in B : U \subseteq T => U = T
  <2>1. B \in SUBSET SUBSET S
    OBVIOUS
  <2> HIDE DEF B
  <2> QED
    BY <1>1, <2>1, MinimalSubset
<1> DEFINE x == CHOOSE y \in T : TRUE
<1>3. f[T] = IF T = {} THEN 0 ELSE Change(x) + f[T \ {x}]
  BY DEF IsFold
<1>4. T # {}
  BY <1>2, <1>3 DEF IsTotal
<1>5. x \in T
  BY <1>4
<1> HIDE DEF x
<1>6. f[T \ {x}] = g[T \ {x}]
  BY <1>2, <1>5
<1>7. g[T] = Change(x) + g[T \ {x}]
  BY <1>5 DEF IsTotal
<1> QED
  BY <1>3, <1>4, <1>6, <1>7

LEMMA SumIsTotal ==
    ASSUME NEW S \in SUBSET LedgerRows, IsFiniteSet(S), NEW g, IsTotal(g, S)
    PROVE  Sum(S) = g[S]
<1> DEFINE x(T) == CHOOSE y \in T : TRUE
           f == CHOOSE h : IsFold(h, S)
<1>1. IsFold(g, S)
  <2>1. ASSUME NEW T \in SUBSET S
        PROVE  g[T] = IF T = {} THEN 0 ELSE Change(x(T)) + g[T \ {x(T)}]
    <3>1. T # {} => x(T) \in T
      OBVIOUS
    <3> QED
      BY <3>1 DEF IsTotal
  <2>2. g = [T \in SUBSET S |-> g[T]]
    BY DEF IsTotal
  <2>3. g = [T \in SUBSET S |-> IF T = {} THEN 0 ELSE Change(x(T)) + g[T \ {x(T)}]]
    BY <2>1, <2>2, Zenon
  <2> QED
    BY <2>3 DEF IsFold
<1>2. IsFold(f, S)
  BY <1>1
<1> HIDE DEF f
<1>3. f[S] = g[S]
  BY <1>2, FoldIsTotal
<1> QED
  BY <1>3, SumIs DEF f

\* Nothing adds up to nothing, and an entry adds what it changed.
LEMMA SumOfNone == Sum({}) = 0
<1>1. PICK g : IsTotal(g, {})
  BY TotalExists, FS_EmptySet
<1> QED
  BY <1>1, SumIsTotal, FS_EmptySet DEF IsTotal

LEMMA SumGrows ==
    ASSUME NEW S \in SUBSET LedgerRows, IsFiniteSet(S), NEW e \in LedgerRows, e \notin S
    PROVE  Sum(S \cup {e}) = Sum(S) + Change(e)
<1> DEFINE T == S \cup {e}
<1>1. IsFiniteSet(T) /\ T \in SUBSET LedgerRows
  BY FS_AddElement
<1>2. PICK g : IsTotal(g, T)
  BY <1>1, TotalExists
<1> DEFINE h == [U \in SUBSET S |-> g[U]]
<1>3. IsTotal(h, S)
  BY <1>2 DEF IsTotal
<1>4. Sum(S) = g[S]
  BY <1>3, SumIsTotal
<1>5. Sum(T) = g[T]
  BY <1>1, <1>2, SumIsTotal
<1>6. T \ {e} = S /\ e \in T /\ T \in SUBSET T /\ S \in SUBSET T
  OBVIOUS
<1>7. g[T] = Change(e) + g[S] /\ g[S] \in Int /\ Change(e) \in Int
  BY <1>2, <1>6, ChangeIs DEF IsTotal
<1> QED
  BY <1>4, <1>5, <1>7

-----------------------------------------------------------------------------
(* Entries in the order of their numbers.                                  *)

Sorted(q) == \A i, j \in 1..Len(q) : i < j => q[i].number < q[j].number

\* No two entries of S have one number.
Distinct(S) == \A d, e \in S : d.number = e.number => d = e

UpTo(S, e) == {d \in S : d.number <= e.number}

LEMMA NumberIs == \A e \in LedgerRows : e.number \in Nat /\ e.number > 0
BY DEF LedgerRows

\* The number of entries up to e is its place, and grows with its number.
LEMMA PlaceIs ==
    ASSUME NEW S \in SUBSET LedgerRows, IsFiniteSet(S), NEW e \in S
    PROVE  Cardinality(UpTo(S, e)) \in 1..Cardinality(S)
<1>1. UpTo(S, e) \in SUBSET S /\ e \in UpTo(S, e)
  BY NumberIs DEF UpTo
<1>2. IsFiniteSet(UpTo(S, e)) /\ Cardinality(UpTo(S, e)) <= Cardinality(S)
  BY <1>1, FS_Subset
<1>3. Cardinality(UpTo(S, e)) # 0
  BY <1>1, <1>2, FS_EmptySet
<1>4. Cardinality(UpTo(S, e)) \in Nat /\ Cardinality(S) \in Nat
  BY <1>2, FS_CardinalityType
<1> QED
  BY <1>2, <1>3, <1>4

LEMMA PlacesGrow ==
    ASSUME NEW S \in SUBSET LedgerRows, IsFiniteSet(S), NEW d \in S, NEW e \in S,
           d.number < e.number
    PROVE  Cardinality(UpTo(S, d)) < Cardinality(UpTo(S, e))
<1>1. UpTo(S, d) \in SUBSET UpTo(S, e) /\ UpTo(S, e) \in SUBSET S
  BY NumberIs DEF UpTo
<1>2. e \in UpTo(S, e) /\ e \notin UpTo(S, d)
  BY NumberIs DEF UpTo
<1>3. IsFiniteSet(UpTo(S, e)) /\ IsFiniteSet(UpTo(S, d))
  BY <1>1, FS_Subset
<1>4. /\ Cardinality(UpTo(S, d)) <= Cardinality(UpTo(S, e))
      /\ Cardinality(UpTo(S, e)) # Cardinality(UpTo(S, d))
  BY <1>1, <1>2, <1>3, FS_Subset
<1>5. Cardinality(UpTo(S, d)) \in Nat /\ Cardinality(UpTo(S, e)) \in Nat
  BY <1>3, FS_CardinalityType
<1> QED
  BY <1>4, <1>5

\* InOrder meets every entry once, in the order of the numbers.
LEMMA InOrderIs ==
    ASSUME NEW S \in SUBSET LedgerRows, IsFiniteSet(S), Distinct(S)
    PROVE  /\ InOrder(S) \in Seq(LedgerRows)
           /\ Sorted(InOrder(S))
           /\ Range(InOrder(S)) = S
<1> DEFINE n == Cardinality(S)
           q == InOrder(S)
           place == [e \in S |-> Cardinality(UpTo(S, e))]
<1>1. n \in Nat
  BY FS_CardinalityType
<1>2. place \in [S -> 1..n] /\ \A e \in S : place[e] = Cardinality(UpTo(S, e))
  BY PlaceIs
<1>3. \A d, e \in S : d.number < e.number => place[d] < place[e]
  BY <1>2, PlacesGrow
<1>4. q = [i \in 1..n |-> CHOOSE e \in S : Cardinality(UpTo(S, e)) = i]
  BY DEF InOrder, UpTo
<1> HIDE DEF n, place, q
<1>5. \A d, e \in S : d.number \in Nat /\ e.number \in Nat /\ place[d] \in Nat /\ place[e] \in Nat
  BY <1>1, <1>2, NumberIs
<1>6. \A d, e \in S : place[d] = place[e] => d = e
  BY <1>3, <1>5 DEF Distinct
<1>7. place \in Injection(S, 1..n)
  BY <1>2, <1>6 DEF Injection, IsInjective
<1>8. IsFiniteSet(1..n) /\ Cardinality(1..n) = n
  BY <1>1, FS_Interval
<1>9. place \in Surjection(S, 1..n)
  BY <1>7, <1>8, FS_Injection DEF n
<1>10. \A i \in 1..n : \E e \in S : place[e] = i
  BY <1>9 DEF Surjection
<1>11. \A i \in 1..n : q[i] \in S /\ place[q[i]] = i
  <2> SUFFICES ASSUME NEW i \in 1..n PROVE q[i] \in S /\ place[q[i]] = i
    OBVIOUS
  <2>1. \E e \in S : Cardinality(UpTo(S, e)) = i
    BY <1>2, <1>10
  <2>2. q[i] = CHOOSE e \in S : Cardinality(UpTo(S, e)) = i
    BY <1>4
  <2>3. q[i] \in S /\ Cardinality(UpTo(S, q[i])) = i
    BY <2>1, <2>2
  <2> QED
    BY <1>2, <2>3
<1>12. q \in [1..n -> S]
  BY <1>4, <1>11
<1>13. q \in Seq(LedgerRows) /\ Len(q) = n /\ DOMAIN q = 1..n
  BY <1>1, <1>12
<1>14. ASSUME NEW i \in 1..n, NEW j \in 1..n, i < j
       PROVE  q[i].number < q[j].number
  <2>1. q[i] \in S /\ q[j] \in S /\ place[q[i]] = i /\ place[q[j]] = j
    BY <1>11
  <2>2. q[i] # q[j]
    BY <1>1, <1>14, <2>1
  <2>3. ~(q[j].number < q[i].number)
    BY <1>1, <1>3, <1>14, <2>1
  <2>4. q[i].number # q[j].number
    BY <2>1, <2>2 DEF Distinct
  <2> QED
    BY <1>5, <2>1, <2>3, <2>4
<1>15. Sorted(q)
  BY <1>13, <1>14 DEF Sorted
<1>16. Range(q) = S
  <2>1. Range(q) \subseteq S
    BY <1>11, <1>13 DEF Range
  <2>2. ASSUME NEW e \in S PROVE e \in Range(q)
    <3>1. place[e] \in 1..n
      BY <1>2
    <3>2. q[place[e]] = e
      BY <1>6, <1>11, <3>1
    <3> QED
      BY <1>13, <3>1, <3>2 DEF Range
  <2> QED
    BY <2>1, <2>2
<1> QED
  BY <1>13, <1>15, <1>16 DEF q

LEMMA LastIsHighest ==
    ASSUME NEW q \in Seq(LedgerRows), q # <<>>, Sorted(q)
    PROVE  /\ Last(q) \in Range(q) /\ Last(q) \in LedgerRows /\ Last(q).number \in Nat
           /\ \A e \in Range(q) : e.number <= Last(q).number
<1>1. Len(q) \in Nat /\ Len(q) > 0 /\ DOMAIN q = 1..Len(q)
  OBVIOUS
<1>2. \A i \in 1..Len(q) : q[i] \in LedgerRows /\ q[i].number \in Nat
  BY NumberIs
<1>3. Len(q) \in 1..Len(q)
  BY <1>1
<1>4. \A i \in 1..Len(q) : q[i].number <= q[Len(q)].number
  BY <1>1, <1>2, <1>3 DEF Sorted
<1> QED
  BY <1>1, <1>2, <1>3, <1>4 DEF Last, Range

\* The first n entries of a sorted sequence are its entries up to the n-th.
LEMMA FirstIs ==
    ASSUME NEW q \in Seq(LedgerRows), Sorted(q), NEW n \in 1..Len(q)
    PROVE  /\ First(q, n) \in Seq(LedgerRows) /\ Len(First(q, n)) = n
           /\ Sorted(First(q, n))
           /\ First(q, n) # <<>> /\ Last(First(q, n)) = q[n]
           /\ Range(First(q, n)) = {e \in Range(q) : e.number <= q[n].number}
<1> DEFINE p == First(q, n)
<1>1. n \in Nat /\ Len(q) \in Nat /\ n <= Len(q) /\ n >= 1 /\ DOMAIN q = 1..Len(q)
  OBVIOUS
<1>2. p = SubSeq(q, 1, n)
  <2>1. CASE n < Len(q)
    BY <2>1 DEF First
  <2>2. CASE n = Len(q)
    BY <2>2 DEF First
  <2>3. n < Len(q) \/ n = Len(q)
    OBVIOUS
  <2> QED
    BY <2>1, <2>2, <2>3, Zenon
<1> HIDE DEF p
<1>3. /\ p \in Seq(LedgerRows) /\ Len(p) = n /\ DOMAIN p = 1..n
      /\ \A i \in 1..n : p[i] = q[i]
  BY <1>1, <1>2
<1>4. Sorted(p)
  BY <1>1, <1>3 DEF Sorted
<1>5. p # <<>> /\ Last(p) = q[n]
  BY <1>1, <1>3 DEF Last
<1>6. \A i \in 1..Len(q) : q[i] \in LedgerRows /\ q[i].number \in Nat
  BY NumberIs
<1>7. ASSUME NEW i \in 1..Len(q)
      PROVE  q[i].number <= q[n].number <=> i <= n
  BY <1>1, <1>6 DEF Sorted
<1>8. Range(p) = {e \in Range(q) : e.number <= q[n].number}
  <2>1. ASSUME NEW e \in Range(p) PROVE e \in Range(q) /\ e.number <= q[n].number
    <3>1. PICK i \in 1..n : e = p[i]
      BY <1>3 DEF Range
    <3>2. i \in 1..Len(q) /\ i <= n /\ e = q[i]
      BY <1>1, <1>3, <3>1
    <3> QED
      BY <1>1, <1>7, <3>2 DEF Range
  <2>2. ASSUME NEW e \in Range(q), e.number <= q[n].number PROVE e \in Range(p)
    <3>1. PICK i \in 1..Len(q) : e = q[i]
      BY <1>1 DEF Range
    <3>2. i \in 1..n /\ e = p[i]
      BY <1>1, <1>3, <1>7, <2>2, <3>1
    <3> QED
      BY <1>3, <3>2 DEF Range
  <2> QED
    BY <2>1, <2>2
<1> QED
  BY <1>3, <1>4, <1>5, <1>8 DEF p

LEMMA FirstIsAll ==
    ASSUME NEW q \in Seq(LedgerRows), NEW n \in Nat, Len(q) <= n
    PROVE  First(q, n) = q
<1>1. Len(q) \in Nat
  OBVIOUS
<1>2. First(q, n) = SubSeq(q, 1, Len(q))
  BY <1>1 DEF First
<1>3. /\ SubSeq(q, 1, Len(q)) \in Seq(LedgerRows) /\ Len(SubSeq(q, 1, Len(q))) = Len(q)
      /\ \A i \in 1..Len(q) : SubSeq(q, 1, Len(q))[i] = q[i]
  BY <1>1
<1> QED
  BY <1>2, <1>3

\* A sorted sequence goes on with higher entries.
LEMMA GoesOnSorted ==
    ASSUME NEW a \in Seq(LedgerRows), NEW b \in Seq(LedgerRows), Sorted(a), Sorted(b),
           \A d \in Range(a), e \in Range(b) : d.number < e.number
    PROVE  /\ a \o b \in Seq(LedgerRows) /\ Sorted(a \o b)
           /\ Range(a \o b) = Range(a) \cup Range(b)
           /\ b # <<>> => a \o b # <<>> /\ Last(a \o b) = Last(b)
<1> DEFINE c == a \o b
<1>1. /\ c \in Seq(LedgerRows) /\ Len(c) = Len(a) + Len(b) /\ DOMAIN c = 1..Len(c)
      /\ Len(a) \in Nat /\ Len(b) \in Nat /\ DOMAIN a = 1..Len(a) /\ DOMAIN b = 1..Len(b)
  OBVIOUS
<1>2. \A i \in 1..Len(c) : c[i] = IF i <= Len(a) THEN a[i] ELSE b[i - Len(a)]
  OBVIOUS
<1> HIDE DEF c
<1>3. \A i \in 1..Len(a) : i \in 1..Len(c) /\ c[i] = a[i] /\ a[i] \in Range(a)
  BY <1>1, <1>2 DEF Range
<1>4. \A i \in 1..Len(b) : i + Len(a) \in 1..Len(c) /\ c[i + Len(a)] = b[i] /\ b[i] \in Range(b)
  <2> SUFFICES ASSUME NEW i \in 1..Len(b)
               PROVE  i + Len(a) \in 1..Len(c) /\ c[i + Len(a)] = b[i] /\ b[i] \in Range(b)
    OBVIOUS
  <2>1. i + Len(a) \in 1..Len(c) /\ ~(i + Len(a) <= Len(a)) /\ (i + Len(a)) - Len(a) = i
    BY <1>1
  <2>2. b[i] \in Range(b)
    BY <1>1 DEF Range
  <2> QED
    BY <1>2, <2>1, <2>2
<1>5. \A i \in 1..Len(c) : i \in 1..Len(a) \/ \E k \in 1..Len(b) : i = k + Len(a)
  <2> SUFFICES ASSUME NEW i \in 1..Len(c), i \notin 1..Len(a)
               PROVE  \E k \in 1..Len(b) : i = k + Len(a)
    OBVIOUS
  <2>1. i - Len(a) \in 1..Len(b) /\ i = (i - Len(a)) + Len(a)
    BY <1>1
  <2> QED
    BY <2>1
<1>6. Sorted(c)
  <2> SUFFICES ASSUME NEW i \in 1..Len(c), NEW j \in 1..Len(c), i < j
               PROVE  c[i].number < c[j].number
    BY DEF Sorted
  <2>1. CASE j \in 1..Len(a)
    <3>1. i \in 1..Len(a)
      BY <1>1, <2>1
    <3> QED
      BY <1>3, <2>1, <3>1 DEF Sorted
  <2>2. CASE j \notin 1..Len(a)
    <3>1. PICK l \in 1..Len(b) : j = l + Len(a)
      BY <1>5, <2>2
    <3>2. CASE i \in 1..Len(a)
      BY <1>3, <1>4, <3>1, <3>2
    <3>3. CASE i \notin 1..Len(a)
      <4>1. PICK k \in 1..Len(b) : i = k + Len(a)
        BY <1>5, <3>3
      <4>2. k < l
        BY <1>1, <3>1, <4>1
      <4> QED
        BY <1>4, <3>1, <4>1, <4>2 DEF Sorted
    <3> QED
      BY <3>2, <3>3
  <2> QED
    BY <2>1, <2>2
<1>7. Range(c) = Range(a) \cup Range(b)
  <2>1. ASSUME NEW e \in Range(c) PROVE e \in Range(a) \cup Range(b)
    <3>1. PICK i \in 1..Len(c) : e = c[i]
      BY <1>1 DEF Range
    <3> QED
      BY <1>3, <1>4, <1>5, <3>1
  <2>2. ASSUME NEW e \in Range(a) PROVE e \in Range(c)
    <3>1. PICK i \in 1..Len(a) : e = a[i]
      BY <1>1 DEF Range
    <3> QED
      BY <1>1, <1>3, <3>1 DEF Range
  <2>3. ASSUME NEW e \in Range(b) PROVE e \in Range(c)
    <3>1. PICK i \in 1..Len(b) : e = b[i]
      BY <1>1 DEF Range
    <3>2. i + Len(a) \in DOMAIN c /\ c[i + Len(a)] = e
      BY <1>1, <1>4, <3>1
    <3> QED
      BY <3>2 DEF Range
  <2> QED
    BY <2>1, <2>2, <2>3
<1>8. ASSUME b # <<>> PROVE c # <<>> /\ Last(c) = Last(b)
  <2>1. Len(b) > 0
    BY <1>1, <1>8
  <2>2. Len(b) \in 1..Len(b) /\ Len(c) = Len(b) + Len(a)
    BY <1>1, <2>1
  <2>3. c[Len(c)] = b[Len(b)] /\ Len(c) > 0
    BY <1>1, <1>4, <2>1, <2>2
  <2> QED
    BY <1>1, <2>3 DEF Last
<1> QED
  BY <1>1, <1>6, <1>7, <1>8 DEF c

-----------------------------------------------------------------------------
(* The books: what is committed and what is about to be.                   *)

Balance(w) == IF wallets[w] = None THEN 0 ELSE wallets[w].balance

\* The ledger is finite, its numbers were drawn, and a wallet has none twice.
LedgerSound ==
    /\ IsFiniteSet(ledger) /\ ledger \in SUBSET LedgerRows
    /\ \A e \in ledger : e.number <= sequence
    /\ \A d, e \in ledger : d.wallet = e.wallet /\ d.number = e.number => d = e

\* An entry under way comes after all of its wallet's, starts where the stored
\* balance is, and ends where the row to be stored is: the row lock, without
\* which a number could be drawn before and committed after another one.
EntryFits(x, last) ==
    /\ x.entry.wallet = x.wallet /\ x.entry.number <= last
    /\ \A d \in ledger : d.wallet = x.wallet => d.number < x.entry.number
    /\ x.entry.before = Balance(x.wallet) /\ x.entry.after = x.row.balance

\* What a transaction in step x has read and written, with last the last number drawn.
Fits(x, last) ==
    /\ x.step = "locked" => wallets[x.wallet] = x.row
    /\ x.step = "opening" => wallets[x.wallet] = None
    /\ x.step \in {"locked", "opening"} => x.entry = None
    /\ x.step = "entered" => x.entry # None
    /\ x.step = "ready" /\ x.entry = None => x.row.balance = Balance(x.wallet)
    /\ x.entry # None => EntryFits(x, last)

SessionsFit == \A s \in Sessions : Fits(open[s], sequence)

\* d is the entry of its wallet just before e.
Adjacent(d, e) ==
    /\ d.wallet = e.wallet /\ d.number < e.number
    /\ \A x \in ledger : x.wallet = d.wallet => x.number <= d.number \/ e.number <= x.number

\* Each movement starts where the one before it ended, and the last one ended
\* at the stored balance.
Chained ==
    /\ \A d, e \in ledger : Adjacent(d, e) => d.after = e.before
    /\ \A e \in ledger :
          (\A x \in ledger : x.wallet = e.wallet => x.number <= e.number) =>
              e.after = Balance(e.wallet)

\* A wallet's entries add up to its balance.
Balanced == \A w \in WalletIds : Sum(Entries(w)) = Balance(w)

Books == LedgerSound /\ SessionsFit /\ Chained /\ Balanced

LEMMA BalanceIs == LedgerInv => \A w \in WalletIds : Balance(w) \in 0..MaxBalance
BY LedgerAssumption DEF LedgerInv, TypeOK, Balance, Rows

LEMMA ClosedFits == ASSUME NEW n PROVE Fits(Closed, n)
BY DEF Fits, Closed

LEMMA BooksAtFirst == Init => Books
<1> SUFFICES ASSUME Init PROVE Books
  OBVIOUS
<1>1. LedgerSound
  BY FS_EmptySet DEF Init, LedgerSound
<1>2. SessionsFit
  BY ClosedFits DEF Init, SessionsFit
<1>3. Chained
  BY DEF Init, Chained
<1>4. ASSUME NEW w \in WalletIds PROVE Sum(Entries(w)) = Balance(w)
  <2>1. Entries(w) = {}
    BY DEF Init, Entries
  <2>2. Balance(w) = 0
    BY DEF Init, Balance
  <2> QED
    BY <2>1, <2>2, SumOfNone
<1> QED
  BY <1>1, <1>2, <1>3, <1>4 DEF Books, Balanced

\* Nothing is committed, and one session goes to x.
LEMMA BooksGoOn ==
    ASSUME LedgerInv, Books, NEW s \in Sessions, NEW x, wallets' = wallets, ledger' = ledger,
           sequence' \in Nat, sequence <= sequence',
           open' = [open EXCEPT ![s] = x], Fits(x, sequence')
    PROVE  Books'
<1>1. \A t \in Sessions : open'[t] = IF t = s THEN x ELSE open[t]
  BY DEF LedgerInv, TypeOK
<1>2. sequence \in Nat /\ \A e \in ledger : e.number \in Nat
  BY NumberIs DEF LedgerInv, TypeOK, Books, LedgerSound
<1>3. LedgerSound'
  BY <1>2 DEF Books, LedgerSound
<1>4. SessionsFit'
  <2> SUFFICES ASSUME NEW t \in Sessions PROVE Fits(open[t], sequence)'
    BY DEF SessionsFit
  <2>1. CASE t = s
    BY <1>1, <2>1 DEF Fits, EntryFits, Balance
  <2>2. CASE t # s
    <3>1. Fits(open[t], sequence) /\ open'[t] = open[t]
      BY <1>1, <2>2 DEF Books, SessionsFit
    <3>2. open[t].entry # None => open[t].entry.number \in Nat
      BY NumberIs, SessionFields DEF LedgerInv, TypeOK
    <3>3. open[t].entry # None /\ open[t].entry.number <= sequence =>
              open[t].entry.number <= sequence'
      BY <1>2, <3>2
    <3> QED
      BY <3>1, <3>3 DEF Fits, EntryFits, Balance
  <2> QED
    BY <2>1, <2>2
<1>5. Chained'
  BY DEF Books, Chained, Adjacent, Balance
<1>6. Balanced'
  BY DEF Books, Balanced, Entries, Balance
<1> QED
  BY <1>3, <1>4, <1>5, <1>6 DEF Books

\* What a commit changes.
LEMMA CommitIs ==
    ASSUME LedgerInv, Books, NEW s \in Sessions, Commit(s)
    PROVE  LET w == open[s].wallet r == open[s].row e == open[s].entry IN
           /\ w \in WalletIds /\ r \in Rows /\ r.balance \in Nat
           /\ \A v \in WalletIds : Balance(v)' = IF v = w THEN r.balance ELSE Balance(v)
           /\ \/ e = None /\ ledger' = ledger /\ r.balance = Balance(w)
              \/ /\ e \in LedgerRows /\ e.wallet = w /\ ledger' = ledger \cup {e}
                 /\ e.number \in Nat /\ e.number <= sequence
                 /\ \A d \in ledger : d.wallet = w => d.number < e.number
                 /\ e.before = Balance(w) /\ e.after = r.balance
<1> DEFINE w == open[s].wallet
           r == open[s].row
           e == open[s].entry
<1>1. /\ open[s].step = "ready" /\ wallets' = [wallets EXCEPT ![w] = r]
      /\ ledger' = ledger \cup ({e} \ {None})
  BY DEF Commit
<1>2. w \in WalletIds /\ r \in Rows /\ r.balance \in Nat /\ r # None
      /\ e \in LedgerRows \cup {None}
  BY <1>1, OpenSession, SessionFields, AbsentAssumption, LedgerAssumption
<1>3. \A v \in WalletIds : wallets'[v] = IF v = w THEN r ELSE wallets[v]
  BY <1>1 DEF LedgerInv, TypeOK
<1>4. \A v \in WalletIds : Balance(v)' = IF v = w THEN r.balance ELSE Balance(v)
  BY <1>2, <1>3 DEF Balance
<1>5. Fits(open[s], sequence)
  BY DEF Books, SessionsFit
<1>6. CASE e = None
  <2>1. ledger' = ledger
    BY <1>1, <1>6
  <2>2. r.balance = Balance(w)
    BY <1>1, <1>5, <1>6 DEF Fits
  <2> QED
    BY <1>2, <1>4, <1>6, <2>1, <2>2
<1>7. CASE e # None
  <2>1. ledger' = ledger \cup {e} /\ e \in LedgerRows /\ e.number \in Nat
    BY <1>1, <1>2, <1>7, NumberIs
  <2>2. /\ e.wallet = w /\ e.number <= sequence
        /\ \A d \in ledger : d.wallet = w => d.number < e.number
        /\ e.before = Balance(w) /\ e.after = r.balance
    BY <1>5, <1>7 DEF Fits, EntryFits
  <2> QED
    BY <1>2, <1>4, <2>1, <2>2
<1> QED
  BY <1>6, <1>7

\* A commit writes its entry at the end of its wallet's chain.
LEMMA CommitBooks ==
    ASSUME LedgerInv, Books, NEW s \in Sessions, Commit(s)
    PROVE  Books'
<1> DEFINE w == open[s].wallet
           r == open[s].row
           e == open[s].entry
<1>1. /\ w \in WalletIds /\ r \in Rows /\ r.balance \in Nat
      /\ \A v \in WalletIds : Balance(v)' = IF v = w THEN r.balance ELSE Balance(v)
      /\ \/ e = None /\ ledger' = ledger /\ r.balance = Balance(w)
         \/ /\ e \in LedgerRows /\ e.wallet = w /\ ledger' = ledger \cup {e}
            /\ e.number \in Nat /\ e.number <= sequence
            /\ \A d \in ledger : d.wallet = w => d.number < e.number
            /\ e.before = Balance(w) /\ e.after = r.balance
  BY CommitIs
<1>2. sequence' = sequence /\ sequence \in Nat
      /\ \A t \in Sessions : open'[t] = IF t = s THEN Closed ELSE open[t]
  BY DEF Commit, LedgerInv, TypeOK
<1>3. \A v \in WalletIds : v # w => wallets'[v] = wallets[v]
  BY DEF Commit, LedgerInv, TypeOK
<1>4. \A d \in ledger : d \in LedgerRows /\ d.number \in Nat /\ d.wallet \in WalletIds
  BY NumberIs DEF Books, LedgerSound, LedgerRows
<1>5. \A d \in ledger' : d \in ledger \/ d = e
  BY <1>1
<1>6. \A d \in ledger' : d.wallet # w => d \in ledger
  BY <1>1
<1>7. ledger \subseteq ledger'
  BY <1>1
<1> HIDE DEF w, r, e
<1>8. SessionsFit'
  <2> SUFFICES ASSUME NEW t \in Sessions PROVE Fits(open[t], sequence)'
    BY DEF SessionsFit
  <2>1. CASE t = s
    <3>1. open'[t] = Closed
      BY <1>2, <2>1
    <3> QED
      BY <3>1 DEF Fits, Closed
  <2>2. CASE t # s /\ open[t].step = "closed"
    <3>1. open'[t] = open[t] /\ open[t].entry = None
      <4>1. Fits(open[t], sequence) /\ open[t].wallet = None
        BY <2>2 DEF Books, SessionsFit, LedgerInv, SessionsSound
      <4>2. CASE open[t].entry # None
        <5>1. open[t].entry.wallet = None /\ open[t].entry \in LedgerRows
          BY <4>1, <4>2, SessionFields DEF Fits, EntryFits, LedgerInv, TypeOK
        <5> QED
          BY <5>1, AbsentAssumption DEF LedgerRows
      <4> QED
        BY <1>2, <2>2, <4>2
    <3> QED
      BY <2>2, <3>1 DEF Fits
  <2>3. CASE t # s /\ open[t].step # "closed"
    <3> DEFINE v == open[t].wallet
    <3>1. v \in WalletIds /\ v # w
      BY <2>3, <1>1, OpenSession, AbsentAssumption DEF w, LedgerInv, OneSessionPerWallet
    <3>2. Fits(open[t], sequence) /\ open'[t] = open[t]
      BY <1>2, <2>3 DEF Books, SessionsFit
    <3>3. wallets'[v] = wallets[v] /\ \A d \in ledger' : d.wallet = v => d \in ledger
      BY <1>3, <1>6, <3>1
    <3> QED
      BY <1>2, <3>2, <3>3 DEF Fits, EntryFits, Balance
  <2> QED
    BY <2>1, <2>2, <2>3
<1>9. CASE e = None
  <2>1. ledger' = ledger /\ \A v \in WalletIds : Balance(v)' = Balance(v)
    BY <1>1, <1>9, AbsentAssumption
  <2>2. LedgerSound'
    BY <1>2, <2>1 DEF Books, LedgerSound
  <2>3. Chained'
    <3>1. \A d \in ledger : Balance(d.wallet)' = Balance(d.wallet)
      BY <1>4, <2>1
    <3> QED
      BY <2>1, <3>1 DEF Books, Chained, Adjacent
  <2>4. Balanced'
    BY <2>1 DEF Books, Balanced, Entries
  <2> QED
    BY <1>8, <2>2, <2>3, <2>4 DEF Books
<1>10. CASE e # None
  <2>1. /\ e \in LedgerRows /\ e.wallet = w /\ ledger' = ledger \cup {e}
        /\ e.number \in Nat /\ e.number <= sequence
        /\ \A d \in ledger : d.wallet = w => d.number < e.number
        /\ e.before = Balance(w) /\ e.after = r.balance
    BY <1>1, <1>10
  <2>2. LedgerSound'
    <3>1. IsFiniteSet(ledger') /\ ledger' \in SUBSET LedgerRows
      BY <2>1, FS_AddElement DEF Books, LedgerSound
    <3>2. \A d \in ledger' : d.number <= sequence'
      BY <1>2, <2>1 DEF Books, LedgerSound
    <3>3. ASSUME NEW c \in ledger', NEW d \in ledger', c.wallet = d.wallet, c.number = d.number
          PROVE  c = d
      <4>1. CASE c \in ledger /\ d \in ledger
        BY <3>3, <4>1 DEF Books, LedgerSound
      <4>2. CASE c = e /\ d \in ledger
        BY <1>4, <2>1, <3>3, <4>2
      <4>3. CASE d = e /\ c \in ledger
        BY <1>4, <2>1, <3>3, <4>3
      <4> QED
        BY <1>5, <4>1, <4>2, <4>3
    <3> QED
      BY <3>1, <3>2, <3>3 DEF LedgerSound
  <2>3. ASSUME NEW c \in ledger', NEW d \in ledger', Adjacent(c, d)'
        PROVE  c.after = d.before
    <3>1. /\ c.wallet = d.wallet /\ c.number < d.number
          /\ \A x \in ledger' : x.wallet = c.wallet => x.number <= c.number \/ d.number <= x.number
      BY <2>3 DEF Adjacent
    <3>2. CASE c \in ledger /\ d \in ledger
      BY <1>7, <3>1, <3>2 DEF Books, Chained, Adjacent
    <3>3. CASE d = e /\ c \in ledger
      <4>1. \A x \in ledger : x.wallet = c.wallet => x.number <= c.number
        BY <1>4, <1>7, <2>1, <3>1, <3>3
      <4>2. c.after = Balance(c.wallet)
        BY <3>3, <4>1 DEF Books, Chained
      <4> QED
        BY <2>1, <3>1, <3>3, <4>2
    <3>4. CASE c = e
      BY <1>4, <1>5, <2>1, <3>1, <3>4
    <3> QED
      BY <1>5, <3>2, <3>3, <3>4
  <2>4. ASSUME NEW d \in ledger', \A x \in ledger' : x.wallet = d.wallet => x.number <= d.number
        PROVE  d.after = Balance(d.wallet)'
    <3>1. CASE d.wallet = w
      <4>1. d = e
        BY <1>4, <1>5, <2>1, <2>4, <3>1
      <4>2. Balance(d.wallet)' = r.balance
        BY <1>1, <3>1
      <4> QED
        BY <2>1, <4>1, <4>2
    <3>2. CASE d.wallet # w
      <4>1. d \in ledger /\ Balance(d.wallet)' = Balance(d.wallet)
        BY <1>1, <1>4, <1>6, <3>2
      <4>2. \A x \in ledger : x.wallet = d.wallet => x.number <= d.number
        BY <1>7, <2>4
      <4> QED
        BY <4>1, <4>2 DEF Books, Chained
    <3> QED
      BY <3>1, <3>2
  <2>5. ASSUME NEW v \in WalletIds
        PROVE  Sum(Entries(v)') = Balance(v)'
    <3>1. CASE v = w
      <4>1. Entries(v)' = Entries(v) \cup {e} /\ e \notin Entries(v)
        BY <2>1, <3>1 DEF Entries
      <4>2. Entries(v) \in SUBSET LedgerRows /\ IsFiniteSet(Entries(v))
        BY FS_Subset DEF Books, LedgerSound, Entries
      <4>3. Sum(Entries(v) \cup {e}) = Sum(Entries(v)) + Change(e)
        BY <2>1, <4>1, <4>2, SumGrows
      <4>4. Sum(Entries(v)) = Balance(v) /\ Balance(v) \in Nat
        BY BalanceIs, LedgerAssumption DEF Books, Balanced
      <4>5. Balance(v)' = r.balance /\ Change(e) = r.balance - Balance(v)
        BY <1>1, <2>1, <3>1 DEF Change
      <4> QED
        BY <1>1, <4>1, <4>3, <4>4, <4>5
    <3>2. CASE v # w
      <4>1. Entries(v)' = Entries(v)
        BY <2>1, <3>2 DEF Entries
      <4>2. Balance(v)' = Balance(v)
        BY <1>1, <3>2
      <4> QED
        BY <4>1, <4>2 DEF Books, Balanced
    <3> QED
      BY <3>1, <3>2
  <2>6. Chained'
    BY <2>3, <2>4 DEF Chained
  <2>7. Balanced'
    BY <2>5 DEF Balanced
  <2> QED
    BY <1>8, <2>2, <2>6, <2>7 DEF Books
<1> QED
  BY <1>9, <1>10

\* The entry that is inserted next fits, whatever the other sessions do until
\* its commit.
LEMMA EntryFitsNext ==
    ASSUME LedgerInv, Books, Draw, NEW x, x.wallet \in WalletIds,
           x.row.balance \in 0..MaxBalance,
           x.entry = Entry(x.wallet, Balance(x.wallet), x.row.balance)
    PROVE  /\ sequence' \in Nat /\ sequence <= sequence'
           /\ x.entry # None /\ EntryFits(x, sequence')
<1>1. sequence \in Nat /\ sequence' = sequence + 1
  BY DEF LedgerInv, TypeOK, Draw
<1>2. Balance(x.wallet) \in 0..MaxBalance
  BY BalanceIs
<1>3. x.entry \in LedgerRows /\ x.entry # None
  BY <1>2, EntryIs, AbsentAssumption
<1>4. /\ x.entry.number = sequence + 1 /\ x.entry.wallet = x.wallet
      /\ x.entry.before = Balance(x.wallet) /\ x.entry.after = x.row.balance
  BY DEF Entry
<1>5. \A d \in ledger : d.number \in Nat /\ d.number <= sequence
  BY NumberIs DEF Books, LedgerSound
<1>6. x.entry.number <= sequence' /\ \A d \in ledger : d.number < x.entry.number
  BY <1>1, <1>4, <1>5
<1> QED
  BY <1>1, <1>3, <1>4, <1>6 DEF EntryFits

LEMMA InsertWalletBooks ==
    ASSUME LedgerInv, Books, NEW s \in Sessions, NEW w \in WalletIds, InsertWallet(s, w)
    PROVE  Books'
<1>1. PICK o \in Owners, balance \in InitialBalances :
          open' = [open EXCEPT ![s] =
                [step |-> IF balance > 0 THEN "opening" ELSE "ready", wallet |-> w,
                 row |-> [owner |-> o, balance |-> balance, version |-> 1], entry |-> None]]
  BY DEF InsertWallet
<1> DEFINE x == [step |-> IF balance > 0 THEN "opening" ELSE "ready", wallet |-> w,
                 row |-> [owner |-> o, balance |-> balance, version |-> 1], entry |-> None]
<1>2. /\ wallets[w] = None /\ wallets' = wallets /\ ledger' = ledger /\ sequence' = sequence
      /\ sequence' \in Nat /\ sequence <= sequence'
  BY DEF InsertWallet, tables, LedgerInv, TypeOK
<1>3. balance \in Nat
  BY LedgerAssumption
<1>4. /\ x.wallet = w /\ x.entry = None /\ x.row.balance = balance
      /\ x.step = IF balance > 0 THEN "opening" ELSE "ready"
  OBVIOUS
<1> HIDE DEF x
<1>5. x.step = "ready" => x.row.balance = Balance(w)
  BY <1>2, <1>3, <1>4 DEF Balance
<1>6. Fits(x, sequence')
  BY <1>2, <1>4, <1>5 DEF Fits
<1>7. open' = [open EXCEPT ![s] = x]
  BY <1>1 DEF x
<1> QED
  BY <1>2, <1>6, <1>7, BooksGoOn

LEMMA LockWalletBooks ==
    ASSUME LedgerInv, Books, NEW s \in Sessions, NEW w \in WalletIds, LockWallet(s, w)
    PROVE  Books'
<1> DEFINE x == [step |-> "locked", wallet |-> w, row |-> wallets[w], entry |-> None]
<1>1. /\ wallets' = wallets /\ ledger' = ledger /\ sequence' = sequence
      /\ sequence' \in Nat /\ sequence <= sequence' /\ open' = [open EXCEPT ![s] = x]
  BY DEF LockWallet, tables, LedgerInv, TypeOK
<1>2. Fits(x, sequence')
  BY DEF Fits
<1> HIDE DEF x
<1> QED
  BY <1>1, <1>2, BooksGoOn

LEMMA InsertOpeningEntryBooks ==
    ASSUME LedgerInv, Books, NEW s \in Sessions, InsertOpeningEntry(s)
    PROVE  Books'
<1> DEFINE e == Entry(open[s].wallet, 0, open[s].row.balance)
           x == [open[s] EXCEPT !.step = "ready", !.entry = e]
<1>1. open[s].step = "opening" /\ wallets' = wallets /\ ledger' = ledger /\ Draw
  BY DEF InsertOpeningEntry
<1>2. /\ open[s] \in Session /\ open[s].wallet \in WalletIds
      /\ open[s].row.balance \in 0..MaxBalance
  BY <1>1, OpenSession
<1>3. Balance(open[s].wallet) = 0
  BY <1>1 DEF Books, SessionsFit, Fits, Balance
<1>4. open' = [open EXCEPT ![s] = x]
  BY InsertOpeningEntryIs
<1> HIDE DEF e
<1>5. x.step = "ready" /\ x.wallet = open[s].wallet /\ x.row = open[s].row /\ x.entry = e
  BY <1>2 DEF Session
<1> HIDE DEF x
<1>6. x.entry = Entry(x.wallet, Balance(x.wallet), x.row.balance)
  BY <1>3, <1>5 DEF e
<1>7. x.wallet \in WalletIds /\ x.row.balance \in 0..MaxBalance
  BY <1>2, <1>5
<1>8. sequence' \in Nat /\ sequence <= sequence' /\ x.entry # None /\ EntryFits(x, sequence')
  BY <1>1, <1>6, <1>7, EntryFitsNext
<1>9. Fits(x, sequence')
  BY <1>5, <1>8 DEF Fits
<1> QED
  BY <1>1, <1>4, <1>8, <1>9, BooksGoOn

LEMMA InsertEntryBooks ==
    ASSUME LedgerInv, Books, NEW s \in Sessions, InsertEntry(s)
    PROVE  Books'
<1>1. open[s].step = "locked" /\ wallets' = wallets /\ ledger' = ledger /\ Draw
  BY DEF InsertEntry
<1>2. /\ open[s].wallet \in WalletIds /\ open[s].row \in Rows
      /\ open[s].row.balance \in 0..MaxBalance /\ open[s].row.version \in Nat
  BY <1>1, OpenSession
<1>3. PICK balance \in 0..MaxBalance :
          open' = [open EXCEPT ![s] =
             [step |-> "entered", wallet |-> open[s].wallet,
              row |-> [open[s].row EXCEPT !.balance = balance, !.version = @ + 1],
              entry |-> Entry(open[s].wallet, open[s].row.balance, balance)]]
  BY DEF InsertEntry
<1> DEFINE e == Entry(open[s].wallet, open[s].row.balance, balance)
           r == [open[s].row EXCEPT !.balance = balance, !.version = @ + 1]
           x == [step |-> "entered", wallet |-> open[s].wallet, row |-> r, entry |-> e]
<1>4. open' = [open EXCEPT ![s] = x]
  BY <1>3
<1>5. r.balance = balance
  <2> DEFINE q == [open[s].row EXCEPT !.balance = balance]
  <2>1. r = [q EXCEPT !.version = open[s].row.version + 1]
    OBVIOUS
  <2>2. q \in Rows /\ q.balance = balance
    BY <1>2 DEF Rows
  <2> HIDE DEF q
  <2>3. [q EXCEPT !.version = open[s].row.version + 1].balance = q.balance
    BY <2>2 DEF Rows
  <2> QED
    BY <2>1, <2>2, <2>3
<1>6. Balance(open[s].wallet) = open[s].row.balance
  <2>1. wallets[open[s].wallet] = open[s].row
    BY <1>1 DEF Books, SessionsFit, Fits
  <2> QED
    BY <1>2, <2>1, AbsentAssumption DEF Balance
<1> HIDE DEF e, r
<1>7. x.step = "entered" /\ x.wallet = open[s].wallet /\ x.row = r /\ x.entry = e
  OBVIOUS
<1> HIDE DEF x
<1>8. x.entry = Entry(x.wallet, Balance(x.wallet), x.row.balance)
  BY <1>5, <1>6, <1>7 DEF e
<1>9. x.wallet \in WalletIds /\ x.row.balance \in 0..MaxBalance
  BY <1>2, <1>5, <1>7
<1>10. sequence' \in Nat /\ sequence <= sequence' /\ x.entry # None /\ EntryFits(x, sequence')
  BY <1>1, <1>8, <1>9, EntryFitsNext
<1>11. Fits(x, sequence')
  BY <1>7, <1>10 DEF Fits
<1> QED
  BY <1>1, <1>4, <1>10, <1>11, BooksGoOn

LEMMA SessionEndsBooks ==
    ASSUME LedgerInv, Books, NEW s \in Sessions, open' = [open EXCEPT ![s] = Closed],
           UNCHANGED tables
    PROVE  Books'
<1>1. /\ wallets' = wallets /\ ledger' = ledger /\ sequence' = sequence
      /\ sequence' \in Nat /\ sequence <= sequence'
  BY DEF tables, LedgerInv, TypeOK
<1>2. Fits(Closed, sequence')
  BY ClosedFits
<1> QED
  BY <1>1, <1>2, BooksGoOn

LEMMA UpdateBalanceBooks ==
    ASSUME LedgerInv, Books, NEW s \in Sessions, UpdateBalance(s)
    PROVE  Books'
<1>1. /\ open[s].step = "entered" /\ UNCHANGED tables
      /\ wallets' = wallets /\ ledger' = ledger /\ sequence' = sequence
      /\ sequence' \in Nat /\ sequence <= sequence'
  BY DEF UpdateBalance, tables, LedgerInv, TypeOK
<1>2. CASE open' = [open EXCEPT ![s] = Closed]
  BY <1>1, <1>2, SessionEndsBooks
<1>3. CASE open' = [open EXCEPT ![s].step = "ready"]
  <2> DEFINE x == [open[s] EXCEPT !.step = "ready"]
  <2>1. open[s] \in Session
    BY <1>1, OpenSession
  <2>2. open' = [open EXCEPT ![s] = x]
    BY <1>3
  <2>3. x.step = "ready" /\ x.wallet = open[s].wallet /\ x.row = open[s].row
        /\ x.entry = open[s].entry
    BY <2>1 DEF Session
  <2> HIDE DEF x
  <2>4. Fits(open[s], sequence)
    BY DEF Books, SessionsFit
  <2>5. Fits(x, sequence')
    BY <1>1, <2>3, <2>4 DEF Fits, EntryFits
  <2> QED
    BY <1>1, <2>2, <2>5, BooksGoOn
<1> QED
  BY <1>2, <1>3 DEF UpdateBalance

LEMMA BooksStay ==
    ASSUME Books, UNCHANGED <<tables, open>>
    PROVE  Books'
BY DEF Books, LedgerSound, SessionsFit, Fits, EntryFits, Chained, Adjacent, Balanced, Balance,
       Entries, tables

-----------------------------------------------------------------------------
(* The readers.                                                            *)

Walks  == [wallet : WalletIds \cup {None}, cursor : Nat, seen : Seq(LedgerRows),
           began : SUBSET LedgerRows, done : BOOLEAN]
Audits == [wallet : WalletIds \cup {None}, stored : Int, snapshot : SUBSET LedgerRows,
           calculated : Int \cup {None}]

\* A walk has shown the entries of its wallet up to the last one shown, where its
\* cursor is unless it is over; one that is over has shown what it found at first.
WalkFits(x) ==
    /\ Sorted(x.seen)
    /\ x.seen # <<>> =>
          Range(x.seen) = {e \in Entries(x.wallet) : e.number <= Last(x.seen).number}
    /\ ~x.done => x.seen # <<>> /\ x.cursor = Last(x.seen).number
    /\ x.began \subseteq Entries(x.wallet)
    /\ x.done => x.began \subseteq Range(x.seen)

WalksFit == walk \in [Readers -> Walks] /\ \A r \in Readers : WalkFits(walk[r])

\* A snapshot adds up to the balance that was read with it.
AuditFits(x) ==
    /\ x.wallet # None => Sum(x.snapshot) = x.stored
    /\ x.calculated \in {None, x.stored}

AuditsFit == audit \in [Readers -> Audits] /\ \A r \in Readers : AuditFits(audit[r])

LEMMA EntriesAre ==
    ASSUME Books, NEW w
    PROVE  /\ Entries(w) \in SUBSET LedgerRows /\ IsFiniteSet(Entries(w))
           /\ Distinct(Entries(w))
<1>1. Entries(w) \in SUBSET ledger
  BY DEF Entries
<1>2. Distinct(Entries(w))
  BY DEF Books, LedgerSound, Entries, Distinct
<1> QED
  BY <1>1, <1>2, FS_Subset DEF Books, LedgerSound

LEMMA AuditsAtFirst == Init => AuditsFit
<1> SUFFICES ASSUME Init PROVE AuditsFit
  OBVIOUS
<1>1. NoAudit \in Audits
  BY DEF NoAudit, Audits
<1>2. AuditFits(NoAudit)
  BY DEF NoAudit, AuditFits
<1> QED
  BY <1>1, <1>2 DEF Init, AuditsFit

LEMMA AuditsGoOn ==
    ASSUME AuditsFit, NEW r \in Readers, NEW x \in Audits, AuditFits(x),
           audit' = [audit EXCEPT ![r] = x]
    PROVE  AuditsFit'
<1>1. audit' \in [Readers -> Audits]
  BY DEF AuditsFit
<1>2. \A q \in Readers : audit'[q] = IF q = r THEN x ELSE audit[q]
  BY DEF AuditsFit
<1>3. \A q \in Readers : AuditFits(audit'[q])
  BY <1>2 DEF AuditsFit
<1> QED
  BY <1>1, <1>3 DEF AuditsFit, AuditFits

LEMMA ReadStoredBalanceKeeps ==
    ASSUME LedgerInv, Books, AuditsFit, NEW r \in Readers, NEW w \in WalletIds,
           ReadStoredBalance(r, w)
    PROVE  AuditsFit'
<1> DEFINE x == [wallet |-> w, stored |-> wallets[w].balance, snapshot |-> Entries(w),
                 calculated |-> None]
<1>1. wallets[w] # None /\ audit' = [audit EXCEPT ![r] = x]
  BY DEF ReadStoredBalance
<1>2. wallets[w].balance = Balance(w) /\ Balance(w) \in Int
  BY <1>1, BalanceIs, LedgerAssumption DEF Balance
<1>3. Sum(Entries(w)) = wallets[w].balance
  BY <1>2 DEF Books, Balanced
<1>4. x \in Audits
  BY <1>2, EntriesAre DEF Audits
<1>5. AuditFits(x)
  BY <1>3 DEF AuditFits
<1> HIDE DEF x
<1> QED
  BY <1>1, <1>4, <1>5, AuditsGoOn

LEMMA SumLedgerKeeps ==
    ASSUME AuditsFit, NEW r \in Readers, SumLedger(r)
    PROVE  AuditsFit'
<1> DEFINE total == Sum(audit[r].snapshot)
           x == [audit[r] EXCEPT !.calculated = total]
<1>1. audit[r].wallet # None /\ audit' = [audit EXCEPT ![r].calculated = total]
  BY DEF SumLedger, Snapshot, Sum
<1>2. audit[r] \in Audits /\ AuditFits(audit[r])
  BY DEF AuditsFit
<1>3. total = audit[r].stored /\ total \in Int
  BY <1>1, <1>2 DEF AuditFits, Audits
<1> HIDE DEF total
<1>4. audit' = [audit EXCEPT ![r] = x]
  BY <1>1
<1>5. /\ x \in Audits /\ x.wallet = audit[r].wallet /\ x.stored = audit[r].stored
      /\ x.snapshot = audit[r].snapshot /\ x.calculated = total
  BY <1>2, <1>3 DEF Audits
<1> HIDE DEF x
<1>6. AuditFits(x)
  BY <1>2, <1>3, <1>5 DEF AuditFits
<1> QED
  BY <1>4, <1>5, <1>6, AuditsGoOn

LEMMA AnswerKeeps ==
    ASSUME AuditsFit, NEW r \in Readers, Answer(r)
    PROVE  AuditsFit'
<1>1. NoAudit \in Audits /\ AuditFits(NoAudit)
  BY DEF NoAudit, Audits, AuditFits
<1> QED
  BY <1>1, AuditsGoOn DEF Answer

\* A page shows the next entries in order: all of them, or those up to its cursor.
LEMMA PageIs ==
    ASSUME Books, NEW w, NEW after \in Nat, NEW limit \in 1..MaxLimit
    PROVE  LET p == Page(w, after, limit)
               rest == {e \in Entries(w) : e.number > after} IN
           /\ p.entries \in Seq(LedgerRows) /\ Sorted(p.entries)
           /\ \/ p.next = None /\ Range(p.entries) = rest
              \/ /\ p.next \in Nat /\ p.next # None /\ p.entries # <<>>
                 /\ p.next = Last(p.entries).number
                 /\ Range(p.entries) = {e \in rest : e.number <= p.next}
<1> DEFINE rest == {e \in Entries(w) : e.number > after}
           q == InOrder(rest)
           rows == First(q, limit + 1)
           p == Page(w, after, limit)
<1>1. rest \in SUBSET LedgerRows /\ IsFiniteSet(rest) /\ Distinct(rest)
  <2>1. rest \in SUBSET Entries(w)
    OBVIOUS
  <2>2. Entries(w) \in SUBSET LedgerRows /\ IsFiniteSet(Entries(w)) /\ Distinct(Entries(w))
    BY EntriesAre
  <2>3. IsFiniteSet(rest)
    BY <2>1, <2>2, FS_Subset
  <2>4. Distinct(rest)
    BY <2>1, <2>2 DEF Distinct
  <2> QED
    BY <2>1, <2>2, <2>3, <2>4
<1>2. /\ p.entries = First(rows, limit)
      /\ p.next = IF Len(rows) > limit THEN rows[limit].number ELSE None
  BY DEF Page
<1> HIDE DEF rest, p
<1>3. q \in Seq(LedgerRows) /\ Sorted(q) /\ Range(q) = rest
  BY <1>1, InOrderIs
<1>4. Len(q) \in Nat /\ limit \in Nat /\ limit >= 1
  BY <1>3, LedgerAssumption
<1> HIDE DEF q
<1>5. CASE Len(q) <= limit
  <2>1. rows = q
    BY <1>3, <1>4, <1>5, FirstIsAll
  <2>2. p.entries = q /\ p.next = None
    BY <1>2, <1>3, <1>4, <1>5, <2>1, FirstIsAll
  <2> QED
    BY <1>3, <2>2 DEF p, rest
<1>6. CASE Len(q) > limit
  <2>1. limit + 1 \in 1..Len(q)
    BY <1>4, <1>6
  <2>2. /\ rows \in Seq(LedgerRows) /\ Len(rows) = limit + 1 /\ Sorted(rows)
        /\ Range(rows) = {e \in rest : e.number <= q[limit + 1].number}
    BY <1>3, <2>1, FirstIs
  <2>3. rows[limit] = q[limit] /\ q[limit] \in LedgerRows
    <3>1. rows = SubSeq(q, 1, limit + 1)
      <4>1. CASE limit + 1 < Len(q)
        BY <4>1 DEF First
      <4>2. CASE limit + 1 = Len(q)
        BY <4>2 DEF First
      <4>3. limit + 1 < Len(q) \/ limit + 1 = Len(q)
        BY <2>1
      <4> QED
        BY <4>1, <4>2, <4>3, Zenon
    <3> HIDE DEF rows
    <3> QED
      BY <1>3, <1>4, <1>6, <2>1, <3>1
  <2> HIDE DEF rows
  <2>4. limit \in 1..Len(rows)
    BY <1>4, <2>2
  <2>5. /\ p.entries \in Seq(LedgerRows) /\ Sorted(p.entries) /\ p.entries # <<>>
        /\ Last(p.entries) = rows[limit]
        /\ Range(p.entries) = {e \in Range(rows) : e.number <= rows[limit].number}
    BY <1>2, <2>2, <2>4, FirstIs
  <2>6. p.next = rows[limit].number /\ p.next \in Nat /\ p.next # None
    <3>1. Len(rows) > limit
      BY <1>4, <2>2
    <3>2. rows[limit].number \in Nat
      BY <2>3, NumberIs
    <3> QED
      BY <1>2, <3>1, <3>2, AbsentAssumption
  <2>7. Range(p.entries) = {e \in rest : e.number <= p.next}
    <3>1. q[limit].number <= q[limit + 1].number
      <4>1. limit \in 1..Len(q) /\ limit < limit + 1
        BY <1>4, <1>6
      <4>2. q[limit].number \in Nat /\ q[limit + 1].number \in Nat
        BY <1>3, <2>1, <4>1, NumberIs
      <4> QED
        BY <1>3, <2>1, <4>1, <4>2 DEF Sorted
    <3>2. \A e \in rest : e.number \in Nat
      BY <1>1, NumberIs
    <3>3. q[limit].number \in Nat /\ q[limit + 1].number \in Nat
      BY <1>3, <2>1, <2>3, NumberIs
    <3>4. \A e \in rest : e.number <= q[limit].number => e.number <= q[limit + 1].number
      BY <3>1, <3>2, <3>3
    <3> QED
      BY <2>2, <2>3, <2>5, <2>6, <3>4
  <2> QED
    BY <2>5, <2>6, <2>7 DEF p, rest
<1> QED
  BY <1>4, <1>5, <1>6

LEMMA WalksGoOn ==
    ASSUME WalksFit, NEW r \in Readers, NEW x \in Walks, WalkFits(x), ledger' = ledger,
           walk' = [walk EXCEPT ![r] = x]
    PROVE  WalksFit'
<1>1. walk' \in [Readers -> Walks]
  BY DEF WalksFit
<1>2. \A q \in Readers : walk'[q] = IF q = r THEN x ELSE walk[q]
  BY DEF WalksFit
<1>3. \A q \in Readers : WalkFits(walk'[q])
  BY <1>2 DEF WalksFit
<1> QED
  BY <1>1, <1>3 DEF WalksFit, WalkFits, Entries

\* A walk that has shown the entries up to its cursor goes on to those of a page.
LEMMA PageShown ==
    ASSUME Books, NEW x \in Walks, NEW limit \in 1..MaxLimit, NEW y \in Walks,
           Sorted(x.seen), x.began \subseteq Entries(x.wallet),
           Range(x.seen) = {e \in Entries(x.wallet) : e.number <= x.cursor},
           y.wallet = x.wallet, y.began = x.began,
           y.seen = x.seen \o Page(x.wallet, x.cursor, limit).entries,
           y.done <=> Page(x.wallet, x.cursor, limit).next = None,
           Page(x.wallet, x.cursor, limit).next # None =>
               y.cursor = Page(x.wallet, x.cursor, limit).next
    PROVE  WalkFits(y)
<1> DEFINE p == Page(x.wallet, x.cursor, limit)
           E == Entries(x.wallet)
           rest == {e \in E : e.number > x.cursor}
<1>1. x.cursor \in Nat /\ x.seen \in Seq(LedgerRows)
  BY DEF Walks
<1>2. /\ p.entries \in Seq(LedgerRows) /\ Sorted(p.entries)
      /\ \/ p.next = None /\ Range(p.entries) = rest
         \/ /\ p.next \in Nat /\ p.next # None /\ p.entries # <<>>
            /\ p.next = Last(p.entries).number
            /\ Range(p.entries) = {e \in rest : e.number <= p.next}
  BY <1>1, PageIs
<1>3. E \in SUBSET LedgerRows /\ \A e \in E : e.number \in Nat
  BY EntriesAre, NumberIs
<1> HIDE DEF p, E
<1>4. \A d \in Range(x.seen), e \in Range(p.entries) : d.number < e.number
  BY <1>1, <1>2, <1>3 DEF E
<1>5. /\ y.seen \in Seq(LedgerRows) /\ Sorted(y.seen)
      /\ Range(y.seen) = Range(x.seen) \cup Range(p.entries)
      /\ p.entries # <<>> => y.seen # <<>> /\ Last(y.seen) = Last(p.entries)
  BY <1>1, <1>2, <1>4, GoesOnSorted DEF p
<1>6. CASE p.next = None
  <2>1. Range(y.seen) = E
    BY <1>1, <1>2, <1>3, <1>5, <1>6, AbsentAssumption DEF E
  <2>2. y.done
    BY <1>6 DEF p
  <2>3. ASSUME y.seen # <<>> PROVE E = {e \in E : e.number <= Last(y.seen).number}
    BY <1>5, <2>1, <2>3, LastIsHighest
  <2> QED
    BY <1>5, <2>1, <2>2, <2>3 DEF WalkFits, E
<1>7. CASE p.next # None
  <2>1. /\ p.next \in Nat /\ p.entries # <<>> /\ p.next = Last(p.entries).number
        /\ Range(p.entries) = {e \in rest : e.number <= p.next}
    BY <1>2, <1>7
  <2>2. Last(p.entries) \in Range(p.entries)
    BY <1>2, <2>1, LastIsHighest
  <2>3. x.cursor < p.next
    BY <2>1, <2>2
  <2>4. Range(y.seen) = {e \in E : e.number <= p.next}
    BY <1>1, <1>3, <1>5, <2>1, <2>3 DEF E
  <2>5. y.seen # <<>> /\ Last(y.seen).number = p.next /\ y.cursor = p.next /\ ~y.done
    BY <1>5, <1>7, <2>1 DEF p
  <2> QED
    BY <1>5, <2>4, <2>5 DEF WalkFits, E
<1> QED
  BY <1>6, <1>7

LEMMA NoWalkIs ==
    /\ NoWalk \in Walks /\ NoWalk.seen = <<>> /\ NoWalk.began = {} /\ NoWalk.done
    /\ NoWalk.cursor = 0
BY DEF NoWalk, Walks

LEMMA NothingShown == Sorted(<<>>) /\ Range(<<>>) = {}
BY DEF Sorted, Range

LEMMA WalksAtFirst == Init => WalksFit
<1> SUFFICES ASSUME Init PROVE WalksFit
  OBVIOUS
<1>1. WalkFits(NoWalk)
  BY NoWalkIs, NothingShown DEF WalkFits
<1> QED
  BY <1>1, NoWalkIs DEF Init, WalksFit

\* A reader asks for its first page, or sends back the cursor it was given.
LEMMA FetchPageKeeps ==
    ASSUME LedgerInv, Books, WalksFit, NEW r \in Readers, NEW w \in WalletIds, FetchPage(r, w)
    PROVE  WalksFit'
<1> DEFINE from == IF walk[r].done THEN [NoWalk EXCEPT !.wallet = w, !.began = Entries(w)]
                   ELSE walk[r]
<1>1. PICK limit \in 1..MaxLimit :
          walk' = [walk EXCEPT ![r] =
             [from EXCEPT !.seen = @ \o Page(w, from.cursor, limit).entries,
                          !.cursor = IF Page(w, from.cursor, limit).next = None THEN @
                                     ELSE Page(w, from.cursor, limit).next,
                          !.done = Page(w, from.cursor, limit).next = None]]
  BY DEF FetchPage
<1>2. walk[r] \in Walks /\ WalkFits(walk[r]) /\ (walk[r].done \/ walk[r].wallet = w)
  BY DEF WalksFit, FetchPage
<1>3. Entries(w) \in SUBSET LedgerRows
  BY EntriesAre
<1>4. /\ from \in Walks /\ from.wallet = w /\ from.began \subseteq Entries(w)
      /\ Sorted(from.seen)
      /\ Range(from.seen) = {e \in Entries(w) : e.number <= from.cursor}
  <2>1. CASE walk[r].done
    <3> DEFINE x == [NoWalk EXCEPT !.wallet = w, !.began = Entries(w)]
    <3>1. from = x
      BY <2>1
    <3>2. /\ x \in Walks /\ x.wallet = w /\ x.began = Entries(w) /\ x.seen = <<>>
          /\ x.cursor = 0
      BY <1>3, NoWalkIs DEF Walks
    <3> HIDE DEF x
    <3>3. {e \in Entries(w) : e.number <= 0} = {}
      BY <1>3, NumberIs
    <3> QED
      BY <3>1, <3>2, <3>3, NothingShown
  <2>2. CASE ~walk[r].done
    <3>1. from = walk[r] /\ walk[r].wallet = w
      BY <1>2, <2>2
    <3> QED
      BY <1>2, <2>2, <3>1 DEF WalkFits
  <2> QED
    BY <2>1, <2>2
<1> HIDE DEF from
<1> DEFINE p == Page(w, from.cursor, limit)
           last == IF p.next = None THEN from.cursor ELSE p.next
           over == p.next = None
           y == [from EXCEPT !.seen = from.seen \o p.entries, !.cursor = last, !.done = over]
<1>5. walk' = [walk EXCEPT ![r] = y]
  BY <1>1
<1>6. from.cursor \in Nat /\ from.seen \in Seq(LedgerRows)
  BY <1>4 DEF Walks
<1>7. p.entries \in Seq(LedgerRows) /\ (p.next = None \/ p.next \in Nat)
  BY <1>6, PageIs
<1> HIDE DEF p
<1>8. last \in Nat /\ over \in BOOLEAN
  BY <1>6, <1>7
<1> HIDE DEF last, over
<1>9. from.seen \o p.entries \in Seq(LedgerRows)
  BY <1>6, <1>7
<1> DEFINE seen == from.seen \o p.entries
<1> HIDE DEF seen
<1>10. /\ y \in Walks /\ y.wallet = w /\ y.began = from.began /\ y.seen = seen
       /\ y.cursor = last /\ y.done = over
  <2>1. y = [from EXCEPT !.seen = seen, !.cursor = last, !.done = over]
    BY DEF seen
  <2>2. seen \in Seq(LedgerRows)
    BY <1>9 DEF seen
  <2> HIDE DEF y
  <2> QED
    BY <1>4, <1>8, <2>1, <2>2 DEF Walks
<1> HIDE DEF y
<1>11. y.done <=> p.next = None
  BY <1>10 DEF over
<1>12. p.next # None => y.cursor = p.next
  BY <1>10 DEF last
<1>13. WalkFits(y)
  BY <1>4, <1>10, <1>11, <1>12, PageShown DEF p, seen
<1>14. ledger' = ledger
  BY DEF FetchPage, tables
<1> QED
  BY <1>5, <1>10, <1>13, <1>14, WalksGoOn

\* A commit adds nothing below a cursor: its entry comes after all of its wallet's.
LEMMA CommitKeepsWalks ==
    ASSUME LedgerInv, Books, WalksFit, NEW s \in Sessions, Commit(s)
    PROVE  WalksFit'
<1> DEFINE e == open[s].entry
<1>1. \/ ledger' = ledger
      \/ /\ ledger' = ledger \cup {e} /\ e.number \in Nat
         /\ \A d \in ledger : d.wallet = e.wallet => d.number < e.number
  BY CommitIs
<1>2. walk' = walk
  BY DEF Commit, clients
<1> HIDE DEF e
<1>3. ASSUME NEW r \in Readers PROVE WalkFits(walk[r])'
  <2> DEFINE x == walk[r]
  <2>1. x \in Walks /\ WalkFits(x) /\ walk'[r] = x
    BY <1>2 DEF WalksFit
  <2> DEFINE w == x.wallet
             now == {d \in ledger' : d.wallet = w}
  <2>2. Entries(w) \subseteq now
    BY <1>1 DEF Entries
  <2>3. ASSUME x.seen # <<>>
        PROVE  {d \in now : d.number <= Last(x.seen).number} =
               {d \in Entries(w) : d.number <= Last(x.seen).number}
    <3>1. Last(x.seen) \in Range(x.seen) /\ Last(x.seen).number \in Nat
      BY <2>1, <2>3, LastIsHighest DEF WalkFits, Walks
    <3>2. Last(x.seen) \in ledger /\ Last(x.seen).wallet = w
      BY <2>1, <2>3, <3>1 DEF WalkFits, Entries
    <3>3. ASSUME NEW d \in now, d.number <= Last(x.seen).number PROVE d \in Entries(w)
      <4>1. CASE d \in ledger
        BY <4>1 DEF Entries
      <4>2. CASE d \notin ledger
        <5>1. d = e /\ e.number \in Nat /\ Last(x.seen).number < e.number
          BY <1>1, <3>2, <4>2
        <5> QED
          BY <3>1, <3>3, <5>1
      <4> QED
        BY <4>1, <4>2
    <3> QED
      BY <2>2, <3>3
  <2>4. x.seen # <<>> => Range(x.seen) = {d \in now : d.number <= Last(x.seen).number}
    BY <2>1, <2>3 DEF WalkFits
  <2>5. x.began \subseteq now
    BY <2>1, <2>2 DEF WalkFits
  <2> QED
    BY <2>1, <2>4, <2>5 DEF WalkFits, Entries
<1> QED
  BY <1>2, <1>3 DEF WalksFit

LEMMA ReadersStay ==
    /\ WalksFit /\ ledger' = ledger /\ walk' = walk => WalksFit'
    /\ AuditsFit /\ audit' = audit => AuditsFit'
BY DEF WalksFit, WalkFits, AuditsFit, AuditFits, Entries

-----------------------------------------------------------------------------
BooksInv == LedgerInv /\ Books /\ WalksFit /\ AuditsFit

LEMMA BooksInit == Init => BooksInv
BY InitHolds, BooksAtFirst, WalksAtFirst, AuditsAtFirst DEF BooksInv

LEMMA BooksStep == BooksInv /\ [Next]_vars => BooksInv'
<1> SUFFICES ASSUME BooksInv, [Next]_vars PROVE BooksInv'
  OBVIOUS
<1>1. LedgerInv /\ Books /\ WalksFit /\ AuditsFit
  BY DEF BooksInv
<1>2. LedgerInv'
  BY <1>1, StepHolds
<1>3. CASE UNCHANGED vars
  <2>1. UNCHANGED <<tables, open>> /\ ledger' = ledger /\ walk' = walk /\ audit' = audit
    BY <1>3 DEF vars, tables, clients
  <2> QED
    BY <1>1, <1>2, <2>1, BooksStay, ReadersStay DEF BooksInv
<1>4. ASSUME NEW s \in Sessions, Commit(s)
      PROVE  BooksInv'
  <2>1. audit' = audit
    BY <1>4 DEF Commit, clients
  <2> QED
    BY <1>1, <1>2, <1>4, <2>1, CommitBooks, CommitKeepsWalks, ReadersStay DEF BooksInv
<1>5. ASSUME NEW s \in Sessions,
             \/ \E w \in WalletIds : InsertWallet(s, w) \/ LockWallet(s, w)
             \/ InsertOpeningEntry(s) \/ InsertEntry(s) \/ UpdateBalance(s) \/ Rollback(s)
      PROVE  BooksInv'
  <2>1. ledger' = ledger /\ walk' = walk /\ audit' = audit
    BY <1>5 DEF InsertWallet, LockWallet, InsertOpeningEntry, InsertEntry, UpdateBalance,
                Rollback, tables, clients
  <2>2. Rollback(s) => Books'
    BY <1>1, SessionEndsBooks DEF Rollback
  <2>3. Books'
    BY <1>1, <1>5, <2>2, InsertWalletBooks, LockWalletBooks, InsertOpeningEntryBooks,
       InsertEntryBooks, UpdateBalanceBooks
  <2> QED
    BY <1>1, <1>2, <2>1, <2>3, ReadersStay DEF BooksInv
<1>6. ASSUME NEW r \in Readers, NEW w \in WalletIds, FetchPage(r, w)
      PROVE  BooksInv'
  <2>1. UNCHANGED <<tables, open>> /\ audit' = audit
    BY <1>6 DEF FetchPage
  <2> QED
    BY <1>1, <1>2, <1>6, <2>1, FetchPageKeeps, BooksStay, ReadersStay DEF BooksInv
<1>7. ASSUME NEW r \in Readers,
             \/ \E w \in WalletIds : ReadStoredBalance(r, w)
             \/ SumLedger(r) \/ Answer(r)
      PROVE  BooksInv'
  <2>1. UNCHANGED <<tables, open>> /\ ledger' = ledger /\ walk' = walk
    BY <1>7 DEF ReadStoredBalance, SumLedger, Answer, tables
  <2>2. AuditsFit'
    BY <1>1, <1>7, ReadStoredBalanceKeeps, SumLedgerKeeps, AnswerKeeps
  <2> QED
    BY <1>1, <1>2, <2>1, <2>2, BooksStay, ReadersStay DEF BooksInv
<1> QED
  BY <1>3, <1>4, <1>5, <1>6, <1>7 DEF Next

\* In every committed state a wallet's entries form a chain, each starting where
\* the one before it ended, that ends at the stored balance and adds up to it.
THEOREM LedgerIsAChain == Spec => [](Chained /\ Balanced)
<1>1. BooksInv => Chained /\ Balanced
  BY DEF BooksInv, Books
<1> QED
  BY <1>1, BooksInit, BooksStep, PTL DEF Spec

\* Movements that commit while a wallet is reconciled never make it diverge: its
\* ledger adds up to its balance in every committed state, and so in the
\* snapshot in which Reconcile reads both.
THEOREM ReconciliationsAgree == Spec => []ReconciliationNeverDiverges
<1>1. BooksInv => ReconciliationNeverDiverges
  BY DEF BooksInv, AuditsFit, AuditFits, ReconciliationNeverDiverges
<1> QED
  BY <1>1, BooksInit, BooksStep, PTL DEF Spec

LEMMA WalksAreExact == BooksInv => PagesAreExact
<1> SUFFICES ASSUME BooksInv, NEW r \in Readers
             PROVE  LET seen == walk[r].seen IN
                    /\ \A i \in 1..Len(seen) - 1 :
                          seen[i].number < seen[i + 1].number /\ seen[i].after = seen[i + 1].before
                    /\ seen # <<>> =>
                          Range(seen) = {e \in Entries(walk[r].wallet) : e.number <= Last(seen).number}
                    /\ walk[r].done => walk[r].began \subseteq Range(seen)
  BY DEF PagesAreExact
<1> DEFINE seen == walk[r].seen
<1>1. walk[r] \in Walks /\ WalkFits(walk[r])
  BY DEF BooksInv, WalksFit
<1>2. seen \in Seq(LedgerRows) /\ Len(seen) \in Nat /\ DOMAIN seen = 1..Len(seen) /\ Sorted(seen)
  BY <1>1 DEF Walks, WalkFits
<1>3. seen # <<>> =>
          Range(seen) = {e \in Entries(walk[r].wallet) : e.number <= Last(seen).number}
  BY <1>1 DEF WalkFits
<1>4. walk[r].done => walk[r].began \subseteq Range(seen)
  BY <1>1 DEF WalkFits
<1> HIDE DEF seen
<1>5. ASSUME NEW i \in 1..Len(seen) - 1
      PROVE  seen[i].number < seen[i + 1].number /\ seen[i].after = seen[i + 1].before
  <2> DEFINE d == seen[i]
             e == seen[i + 1]
  <2>1. i \in 1..Len(seen) /\ i + 1 \in 1..Len(seen) /\ i < i + 1 /\ seen # <<>>
    BY <1>2
  <2>2. d.number < e.number
    BY <1>2, <2>1 DEF Sorted
  <2>3. \A j \in 1..Len(seen) : seen[j] \in LedgerRows /\ seen[j].number \in Nat
    BY <1>2, NumberIs
  <2>4. \A x \in Range(seen) : x \in ledger /\ x.wallet = walk[r].wallet
    BY <1>3, <2>1 DEF Entries
  <2>5. d \in Range(seen) /\ e \in Range(seen)
    BY <1>2, <2>1 DEF Range
  <2>6. ASSUME NEW x \in ledger, x.wallet = d.wallet
        PROVE  x.number <= d.number \/ e.number <= x.number
    <3>1. x.number \in Nat /\ d.number \in Nat /\ e.number \in Nat
      BY <2>1, <2>3, NumberIs DEF BooksInv, Books, LedgerSound
    <3>2. CASE x \in Range(seen)
      <4>1. PICK j \in 1..Len(seen) : x = seen[j]
        BY <1>2, <3>2 DEF Range
      <4>2. j < i \/ j = i \/ j = i + 1 \/ i + 1 < j
        OBVIOUS
      <4> QED
        BY <1>2, <2>1, <3>1, <4>1, <4>2 DEF Sorted
    <3>3. CASE x \notin Range(seen)
      <4>1. x \in Entries(walk[r].wallet)
        BY <2>4, <2>5, <2>6 DEF Entries
      <4>2. Last(seen).number \in Nat /\ e.number <= Last(seen).number
        BY <1>2, <2>1, <2>5, LastIsHighest
      <4>3. ~(x.number <= Last(seen).number)
        BY <1>3, <2>1, <3>3, <4>1
      <4> QED
        BY <3>1, <4>2, <4>3
    <3> QED
      BY <3>2, <3>3
  <2>7. d.wallet = e.wallet /\ d \in ledger /\ e \in ledger
    BY <2>4, <2>5
  <2> HIDE DEF d, e
  <2>8. Adjacent(d, e)
    BY <2>2, <2>6, <2>7 DEF Adjacent
  <2>9. d.after = e.before
    BY <2>7, <2>8 DEF BooksInv, Books, Chained
  <2> QED
    BY <2>2, <2>9 DEF d, e
<1> QED
  BY <1>3, <1>4, <1>5 DEF seen

\* A ledger page resumes exactly where the last one stopped, however many
\* sessions write, abort or draw numbers for other wallets in between: a number
\* is drawn under the row lock of its wallet, so numbers of one wallet are
\* committed in the order in which they are drawn.
THEOREM PagesNeverSkipOrRepeat == Spec => []PagesAreExact
BY WalksAreExact, BooksInit, BooksStep, PTL DEF Spec

\* A step only adds entries, and above all that their wallet has.
Appends ==
    /\ ledger \subseteq ledger'
    /\ \A e \in ledger' \ ledger, d \in ledger : d.wallet = e.wallet => d.number < e.number

\* Although numbers are drawn before the commit and by transactions that may
\* abort, a wallet's entries become visible in the order of their numbers: what
\* a cursor over sequence_number in List relies on.
THEOREM EntriesAreAppended == Spec => [][Appends]_vars
<1>1. ASSUME BooksInv, [Next]_vars PROVE [Appends]_vars
  <2>1. LedgerInv /\ Books
    BY <1>1 DEF BooksInv
  <2>2. ASSUME NEW s \in Sessions, Commit(s) PROVE Appends
    <3>1. \/ ledger' = ledger
          \/ /\ ledger' = ledger \cup {open[s].entry}
             /\ open[s].entry.wallet = open[s].wallet
             /\ \A d \in ledger : d.wallet = open[s].wallet => d.number < open[s].entry.number
      BY <2>1, <2>2, CommitIs
    <3> QED
      BY <3>1 DEF Appends
  <2>3. CASE ledger' = ledger
    BY <2>3 DEF Appends
  <2>4. \/ UNCHANGED vars
        \/ ledger' = ledger
        \/ \E s \in Sessions : Commit(s)
    BY <1>1 DEF Next, InsertWallet, LockWallet, InsertOpeningEntry, InsertEntry, UpdateBalance,
                Rollback, FetchPage, ReadStoredBalance, SumLedger, Answer, tables
  <2> QED
    BY <2>2, <2>3, <2>4
<1> QED
  BY <1>1, BooksInit, BooksStep, PTL DEF Spec

=============================================================================
