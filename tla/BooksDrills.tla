------------------------------ MODULE BooksDrills ------------------------------
(***************************************************************************)
(* The two scripts that bring the books out of balance on purpose, each    *)
(* while a customer goes on moving money: MonitoringDrill, and             *)
(* scripts/verify_reconciliation_drift_detection.py, which adds one cent   *)
(* to the wallet of a new user with plain SQL, has the reconciliation find *)
(* it, restores the balance and has the reconciliation pass.  The user     *)
(* either script registers is Publisher.                                   *)
(***************************************************************************)
EXTENDS MonitoringDrill

VARIABLE old_balance  \* None, or what the drift drill read

booksVars == <<drillVars, old_balance>>

None == -1

DriftInit == WorldInit /\ step = "setup" /\ verdict = "open"

\* require_test_environment, register_and_login and db_connection.
Setup ==
  /\ At("setup") /\ Calls("remember", "end")
  /\ UNCHANGED <<money, old_balance>>

\* Inside the try block.
ReadsBalance ==
  /\ At("remember")
  /\ \/ old_balance' = balance[Available(Publisher)] /\ Goes("drift")
     \/ UNCHANGED old_balance /\ Raises("restore")
  /\ UNCHANGED money

Drifts ==
  /\ At("drift")
  /\ \/ /\ balance' = Change(balance, Available(Publisher), 1)
        /\ Calls("detect", "restore")
     \/ UNCHANGED balance /\ Raises("restore")
  /\ UNCHANGED <<ledger, old_balance>>

\* The reconciliation may also fail to answer.
Detects ==
  /\ At("detect")
  /\ Asserts(~BalancesMatchLedger, "restore", "restore") \/ Raises("restore")
  /\ UNCHANGED <<money, old_balance>>

\* A bug to catch: the balance is restored after a successful detection only.
RestoreIsDueOnSuccess == old_balance # None /\ verdict = "open"

RestoreIsDue == old_balance # None

\* The finally block.  Its own UPDATE may raise, committed or not, and then nobody
\* takes the cent away.
Restores ==
  /\ At("restore")
  /\ \/ /\ balance' = IF RestoreIsDue THEN [balance EXCEPT ![Available(Publisher)] = old_balance]
                      ELSE balance
        /\ AfterFinally("recover") \/ (fragile /\ Raises("end"))
     \/ fragile /\ RestoreIsDue /\ UNCHANGED balance /\ Raises("end")
  /\ UNCHANGED <<ledger, old_balance>>

Recovers ==
  /\ At("recover")
  /\ IF BooksBalance THEN Passes \/ Raises("end") ELSE Raises("end")
  /\ UNCHANGED <<money, old_balance>>

Drift ==
  /\ Setup \/ ReadsBalance \/ Drifts \/ Detects \/ Restores \/ Recovers
  /\ UNCHANGED <<fault, redis, order, stuck, alert, cleanup, saved>>

BooksInit ==
  /\ DrillInit \/ DriftInit
  /\ old_balance = None

\* The process of either script is killed: no finally block runs.
DrillDies == Killed /\ UNCHANGED <<world, alert, cleanup, saved, old_balance>>

BooksNext ==
  /\ \/ Drift \/ DrillDies
     \/ (Drill \/ Others) /\ UNCHANGED old_balance
  /\ UNCHANGED fragile

BooksSpec == BooksInit /\ [][BooksNext]_booksVars

-------------------------------------------------------------------------------
\* "restores the original balance in finally" (docs/failure-recovery.md): wherever
\* the script gives up, it leaves books that balance, and the recharges of others
\* are not lost, unless the process is killed or the UPDATE of the finally block
\* itself fails (verify_reconciliation_drift_detection.scenario).
DriftIsUndone ==
  At("end") /\ old_balance # None /\ verdict # "killed" /\ ~fragile => BooksBalance
===============================================================================
