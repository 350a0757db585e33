------------------------------- MODULE Accounts -------------------------------
(***************************************************************************)
(* The wallets: tables t_account and t_ledger_entry and the statements     *)
(* AccountRepository and LedgerRepository run on them.  Every user has an  *)
(* AVAILABLE and a FROZEN account.  A balance is a materialized column     *)
(* that the code updates next to the ledger rows it inserts: nothing but   *)
(* the services' discipline keeps the two equal.                           *)
(***************************************************************************)
EXTENDS Integers, FiniteSets, Functions

CONSTANTS
  Users,       \* every row of t_user, the system accounts included
  Mint,        \* the treasury: money enters and leaves the system here
  Platform     \* receives the commission

ASSUME UsersAssumption ==
  /\ IsFiniteSet(Users)
  /\ Mint \in Users
  /\ Platform \in Users
  /\ Mint # Platform

VARIABLES
  balance,     \* balance_cents of each account
  ledger       \* amount_cents of each entry, by the columns of uk_biz_account

AccountTypes == {"AVAILABLE", "FROZEN"}
Account == Users \X AccountTypes

Available(u) == <<u, "AVAILABLE">>
Frozen(u) == <<u, "FROZEN">>

\* A bug to catch: the balance is overwritten where it should be added to.
ChangeOverwrites(b, a, delta) == [b EXCEPT ![a] = delta]

\* AccountRepository.change, and the SET part of the conditional debits.
Change(b, a, delta) == [b EXCEPT ![a] = @ + delta]

\* A bug to catch: the debits lose "AND balance_cents>=?".
CoversUnchecked(b, a, amount) == TRUE

\* The WHERE part of debitAvailable and debitFrozen.
Covers(b, a, amount) == b[a] >= amount

\* A bug to catch: the insert becomes an upsert, which no duplicate stops.
FreshUnchecked(l, k) == TRUE

\* LedgerRepository.insert.  uk_biz_account rejects a second entry for a key:
\* the transaction that attempts it fails as a whole.
Fresh(l, k) == k \notin DOMAIN l
Insert(l, k, amount) == [j \in DOMAIN l \cup {k} |-> IF j = k THEN amount ELSE l[j]]

\* The entries of account a: a key is <<biz_type, biz_id, account>>.
EntriesOf(l, a) == {k \in DOMAIN l : k[3] = a}

-------------------------------------------------------------------------------
(***************************************************************************)
(* The audits of ReconRepository that concern this state.                  *)
(***************************************************************************)

\* INV-1, ledgerTotal: every business event posts entries that cancel out, so
\* the ledger as a whole sums to zero.
LedgerSumsToZero == SumFunction(ledger) = 0

\* INV-2, accountLedgerMismatches: every balance equals the sum of the ledger
\* entries of its account, although the code writes the two separately.
BalancesMatchLedger ==
  \A a \in Account : balance[a] = SumFunctionOnSet(ledger, EntriesOf(ledger, a))

\* INV-4, illegalNegativeAccounts: nobody but the mint is ever overdrawn.
OnlyMintNegative == \A a \in Account : a[1] # Mint => balance[a] >= 0
===============================================================================
