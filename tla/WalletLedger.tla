---------------------------- MODULE WalletLedger -----------------------------
(***************************************************************************)
(* Wallets and their ledger as their readers meet them: sessions open      *)
(* wallets and move money statement by statement, while others walk the    *)
(* ledger page by page or reconcile a wallet against it.                   *)
(*                                                                         *)
(* A movement is reduced to what readers tell apart: the wallet row with   *)
(* its lock and version, and the ledger entry with the number it drew from *)
(* the identity column, which is drawn at the INSERT, never given back,    *)
(* and shared by all wallets.  Which operation moves the money, and        *)
(* whether it may, is the business of ProcessOperation.  Request decoding, *)
(* response encoding and the events are left out.                          *)
(***************************************************************************)
EXTENDS Integers, FiniteSets, SequencesExt

CONSTANTS
    None,
    WalletIds,        \* ids that openings may generate
    Owners,           \* pairs of player and currency
    InitialBalances,  \* initialBalance of an opening
    Sessions,         \* connections that write
    Readers,          \* clients of the audit routes
    MaxLimit,         \* the largest page
    MaxBalance,       \* bound on balances
    MaxSequence       \* bound on the identity column

VARIABLES
    wallets,   \* committed wallets, None before
    ledger,    \* committed wallet_ledger_entries
    sequence,  \* last sequence_number drawn
    open,      \* the transaction of each session
    walk,      \* the pages each reader fetched
    audit      \* the reconciliation of each reader

tables  == <<wallets, ledger, sequence>>
clients == <<walk, audit>>
vars    == <<tables, open, clients>>

Closed == [step |-> "closed", wallet |-> None, row |-> None, entry |-> None]
NoWalk == [wallet |-> None, cursor |-> 0, seen |-> <<>>, began |-> {}, done |-> TRUE]
NoAudit == [wallet |-> None, stored |-> 0, snapshot |-> {}, calculated |-> None]

Entries(w) == {e \in ledger : e.wallet = w}

Init ==
    /\ wallets = [w \in WalletIds |-> None]
    /\ ledger = {}
    /\ sequence = 0
    /\ open = [s \in Sessions |-> Closed]
    /\ walk = [r \in Readers |-> NoWalk]
    /\ audit = [r \in Readers |-> NoAudit]

-----------------------------------------------------------------------------
(* Writers.                                                                *)

\* Whose transaction holds the row of w, stored or about to be.
Locks(w) == {s \in Sessions : open[s].wallet = w}

OwnerIsTaken(o) == \E w \in WalletIds : wallets[w] # None /\ wallets[w].owner = o

\* Mutant: the owner is looked up among the committed wallets before the insert.
OwnerIsNotStored(o) == ~OwnerIsTaken(o)

\* wallets_player_id_currency_key: a stored row refuses the insert, and one that
\* is not committed yet makes it wait.
OwnerIsFree(o) ==
    /\ ~OwnerIsTaken(o)
    /\ \A s \in Sessions : open[s].row # None => open[s].row.owner # o

\* Open's first statement.  A refused one changes nothing: WALLET_ALREADY_EXISTS.
InsertWallet(s, w) ==
    /\ open[s] = Closed
    /\ wallets[w] = None /\ Locks(w) = {}
    /\ \E o \in Owners, balance \in InitialBalances :
          /\ OwnerIsFree(o)
          /\ open' = [open EXCEPT ![s] =
                [step |-> IF balance > 0 THEN "opening" ELSE "ready", wallet |-> w,
                 row |-> [owner |-> o, balance |-> balance, version |-> 1], entry |-> None]]
    /\ UNCHANGED <<tables, clients>>

\* FindForUpdate, granted.
LockWallet(s, w) ==
    /\ open[s] = Closed
    /\ wallets[w] # None /\ Locks(w) = {}
    /\ open' = [open EXCEPT ![s] = [step |-> "locked", wallet |-> w, row |-> wallets[w],
                                    entry |-> None]]
    /\ UNCHANGED <<tables, clients>>

Draw == sequence < MaxSequence /\ sequence' = sequence + 1

Entry(w, before, after) ==
    [number |-> sequence + 1, wallet |-> w, before |-> before, after |-> after]

\* ledgerRepository.Insert for the opening balance.
InsertOpeningEntry(s) ==
    /\ open[s].step = "opening"
    /\ Draw
    /\ open' = [open EXCEPT ![s].step = "ready",
                            ![s].entry = Entry(open[s].wallet, 0, open[s].row.balance)]
    /\ UNCHANGED <<wallets, ledger, clients>>

\* Debit or Credit, and ledgerRepository.Insert.
InsertEntry(s) ==
    /\ open[s].step = "locked"
    /\ Draw
    /\ \E balance \in 0..MaxBalance \ {open[s].row.balance} :
          open' = [open EXCEPT ![s] =
             [step |-> "entered", wallet |-> open[s].wallet,
              row |-> [open[s].row EXCEPT !.balance = balance, !.version = @ + 1],
              entry |-> Entry(open[s].wallet, open[s].row.balance, balance)]]
    /\ UNCHANGED <<wallets, ledger, clients>>

\* UPDATE wallets SET ... WHERE id = $4 AND version = $5
UpdateBalance(s) ==
    /\ open[s].step = "entered"
    /\ open' = IF wallets[open[s].wallet].version = open[s].row.version - 1
               THEN [open EXCEPT ![s].step = "ready"] ELSE [open EXCEPT ![s] = Closed]
    /\ UNCHANGED <<tables, clients>>

Commit(s) ==
    /\ open[s].step = "ready"
    /\ wallets' = [wallets EXCEPT ![open[s].wallet] = open[s].row]
    /\ ledger' = ledger \cup ({open[s].entry} \ {None})
    /\ open' = [open EXCEPT ![s] = Closed]
    /\ UNCHANGED <<sequence, clients>>

\* Any statement fails, or the process dies: the number drawn is lost.
Rollback(s) ==
    /\ open[s] # Closed
    /\ open' = [open EXCEPT ![s] = Closed]
    /\ UNCHANGED <<tables, clients>>

-----------------------------------------------------------------------------
(* GET /wallets/{walletId}/ledger.                                         *)

\* ORDER BY sequence_number: the i-th entry has i entries up to itself.
InOrder(S) ==
    [i \in 1..Cardinality(S) |->
        CHOOSE e \in S : Cardinality({d \in S : d.number <= e.number}) = i]

First(s, n) == SubSeq(s, 1, IF n < Len(s) THEN n ELSE Len(s))

\* Mutant: the cursor is the number of the row that was fetched to see whether
\* there is a next page.
PageUpToSentinel(w, after, limit) ==
    LET rows == First(InOrder({e \in Entries(w) : e.number > after}), limit + 1)
    IN [entries |-> First(rows, limit),
        next |-> IF Len(rows) > limit THEN rows[limit + 1].number ELSE None]

\* List: limit + 1 rows past the cursor, the last of which only shows that
\* there is a next page.
Page(w, after, limit) ==
    LET rows == First(InOrder({e \in Entries(w) : e.number > after}), limit + 1)
    IN [entries |-> First(rows, limit),
        next |-> IF Len(rows) > limit THEN rows[limit].number ELSE None]

\* A reader starts with no cursor, or sends back the one it was given, and may
\* ask for another page size each time.
FetchPage(r, w) ==
    LET start == walk[r].done
        from  == IF start THEN [NoWalk EXCEPT !.wallet = w, !.began = Entries(w)] ELSE walk[r]
    IN /\ wallets[w] # None
       /\ start \/ walk[r].wallet = w
       /\ \E limit \in 1..MaxLimit :
             LET page == Page(w, from.cursor, limit) IN
             walk' = [walk EXCEPT ![r] =
                [from EXCEPT !.seen = @ \o page.entries,
                             !.cursor = IF page.next = None THEN @ ELSE page.next,
                             !.done = page.next = None]]
       /\ UNCHANGED <<tables, open, audit>>

-----------------------------------------------------------------------------
(* POST /wallets/{walletId}/reconciliation.                                *)

\* The first statement of the transaction, which fixes its snapshot.
ReadStoredBalance(r, w) ==
    /\ audit[r].wallet = None
    /\ wallets[w] # None
    /\ audit' = [audit EXCEPT ![r] = [wallet |-> w, stored |-> wallets[w].balance,
                                      snapshot |-> Entries(w), calculated |-> None]]
    /\ UNCHANGED <<tables, open, walk>>

\* Mutant: READ COMMITTED, a snapshot for each statement.
StatementSnapshot(r) == Entries(audit[r].wallet)

\* REPEATABLE READ.
Snapshot(r) == audit[r].snapshot

SumLedger(r) ==
    /\ audit[r].wallet # None
    /\ audit[r].calculated = None
    /\ audit' = [audit EXCEPT ![r].calculated =
                    MapThenSumSet(LAMBDA e : e.after - e.before, Snapshot(r))]
    /\ UNCHANGED <<tables, open, walk>>

\* The answer is sent.
Answer(r) ==
    /\ audit[r].calculated # None
    /\ audit' = [audit EXCEPT ![r] = NoAudit]
    /\ UNCHANGED <<tables, open, walk>>

-----------------------------------------------------------------------------
Next ==
    \/ \E s \in Sessions :
          \/ \E w \in WalletIds : InsertWallet(s, w) \/ LockWallet(s, w)
          \/ InsertOpeningEntry(s) \/ InsertEntry(s) \/ UpdateBalance(s)
          \/ Commit(s) \/ Rollback(s)
    \/ \E r \in Readers :
          \/ \E w \in WalletIds : FetchPage(r, w) \/ ReadStoredBalance(r, w)
          \/ SumLedger(r) \/ Answer(r)

Spec == Init /\ [][Next]_vars

-----------------------------------------------------------------------------
\* The largest page has at least one entry; the other two are bounds of the
\* instance, not of the code.
ASSUME LedgerAssumption ==
    /\ MaxLimit \in Nat \ {0}
    /\ MaxBalance \in Nat
    /\ MaxSequence \in Nat
    /\ InitialBalances \subseteq 0..MaxBalance

\* Rows of wallets.
Rows == [owner : Owners, balance : 0..MaxBalance, version : Nat]

\* Rows of wallet_ledger_entries; the identity column starts at 1.
LedgerRows == [number : Nat \ {0}, wallet : WalletIds,
               before : 0..MaxBalance, after : 0..MaxBalance]

\* The absent value is no wallet, no row and no cursor.
ASSUME AbsentAssumption == None \notin WalletIds \cup Rows \cup LedgerRows \cup Nat

\* "A ledger page can resume exactly where the last one stopped without skipping
\* or repeating a row": numbers are drawn before the commit and by transactions
\* that may abort, and yet what a reader has seen is, in order, all of the
\* wallet's entries up to the last one seen; no commit adds one below its
\* cursor.  A walk that is over has shown all that was committed when it began,
\* and each balance where the next movement found it.
PagesAreExact ==
    \A r \in Readers :
        LET seen == walk[r].seen IN
        /\ \A i \in 1..Len(seen) - 1 :
              seen[i].number < seen[i + 1].number /\ seen[i].after = seen[i + 1].before
        /\ seen # <<>> =>
              Range(seen) = {e \in Entries(walk[r].wallet) : e.number <= Last(seen).number}
        /\ walk[r].done => walk[r].began \subseteq Range(seen)

\* Movements commit between the two statements of a reconciliation, which never
\* reports a divergence for that.
ReconciliationNeverDiverges ==
    \A r \in Readers : audit[r].calculated \in {None, audit[r].stored}

\* "Even opened concurrently", a player has one wallet in a currency; openings
\* look up nothing beforehand.
OneWalletPerOwner ==
    \A v, w \in WalletIds :
        wallets[v] # None /\ wallets[w] # None /\ wallets[v].owner = wallets[w].owner => v = w
=============================================================================
