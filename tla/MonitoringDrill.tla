---------------------------- MODULE MonitoringDrill ----------------------------
(***************************************************************************)
(* scripts/validate_monitoring.py: the script breaks the running system in *)
(* five ways, one after the other, waits for the alert of each to fire,    *)
(* repairs it and waits for the alert to go.  How to undo what it did is   *)
(* kept on a stack, from which a repair takes its statement and which the  *)
(* finally block empties.  Two of the faults and the money of its two      *)
(* users are written into the wallets with plain SQL, next to the          *)
(* transactions of the application.                                        *)
(***************************************************************************)
EXTENDS Accounts, FailureCommon, Sequences

CONSTANTS
  Publisher,     \* the user the script registers for the Redis outage
  Customer,      \* a user of the application
  Deposit, Reward, \* amountCents and rewardCents of the script's calls
  Recharges      \* the recharges the customer makes meanwhile

ASSUME MonitoringAssumption ==
  /\ {Publisher, Customer} \subseteq Users \ {Mint, Platform}
  /\ Publisher # Customer
  /\ Deposit \in Nat /\ Reward \in 1..Deposit
  /\ IsFiniteSet(Recharges) /\ "script" \notin Recharges  \* bizId is an instant of its own

VARIABLES
  fragile,       \* a statement or a command of the script may fail in this run
  fault,         \* the alerts whose condition holds
  redis,         \* the container runs
  order,         \* the status of the script's order
  stuck,         \* the injected order that could not be settled is there
  alert,         \* the alert the script is about
  cleanup,       \* the statements that undo
  saved          \* the mint's balances as the script read them last

money == <<balance, ledger>>
world == <<money, fault, redis, order, stuck>>
drillVars == <<world, script, alert, cleanup, saved, fragile>>

AvailableOfMint == Available(Mint)
FrozenOfMint == Frozen(Mint)

\* The checks of ReconService, next to INV-5, which is about the orders of others.
EscrowMatches ==
  SumFunctionOnSet(balance, {a \in Account : a[2] = "FROZEN"})
    = (IF order \in {"PUBLISHED", "TAKEN"} THEN Reward ELSE 0) + (IF stuck THEN 1 ELSE 0)

BooksBalance == LedgerSumsToZero /\ BalancesMatchLedger /\ EscrowMatches /\ OnlyMintNegative

WorldInit ==
  /\ fragile \in BOOLEAN
  /\ balance = [a \in Account |-> 0]
  /\ ledger = [k \in {} |-> 0]
  /\ fault = {} /\ redis = TRUE /\ order = "none" /\ stuck = FALSE
  /\ alert = "dead" /\ cleanup = <<>> /\ saved = [available |-> 0, frozen |-> 0]

DrillInit == WorldInit /\ step = "wiring" /\ verdict = "open"

\* The two entries and the two changes of a business event.
Moves(type, biz, from, to, amount) ==
  /\ balance' = Change(Change(balance, from, -amount), to, amount)
  /\ ledger' = Insert(Insert(ledger, <<type, biz, from>>, -amount), <<type, biz, to>>, amount)

Fails == fragile /\ Raises("finally")

-------------------------------------------------------------------------------
(***************************************************************************)
(* What undoes a fault.  mysql stops at the first statement that fails.    *)
(***************************************************************************)

SetsMint(available, frozen) ==
  balance' = [balance EXCEPT ![AvailableOfMint] = available, ![FrozenOfMint] = frozen]

\* A bug to catch: the mint's half of the recharge is not deleted.
OfUsersOnly(k) == k[3][1] = Publisher

\* The entries of the script's users, and the mint's half of their recharge.
OfUsers(k) == k[3][1] = Publisher \/ k[2] = "script"

\* The rows of the script's users, in a transaction.
RemovesUsers(s) ==
  /\ ledger' = Restrict(ledger, {k \in DOMAIN ledger : ~OfUsers(k)})
  /\ balance' = [balance EXCEPT ![Available(Publisher)] = 0, ![Frozen(Publisher)] = 0,
                                ![AvailableOfMint] = s.available]
  /\ order' = "none"
  /\ UNCHANGED <<fault, redis, stuck>>

\* The first n of the four statements that remove the stuck order.
RemovesStuck(s, n) ==
  /\ ledger' = IF n < 1 THEN ledger ELSE Restrict(ledger, {k \in DOMAIN ledger : k[1] # "MONITOR"})
  /\ balance' = [balance EXCEPT ![AvailableOfMint] = IF n < 2 THEN @ ELSE s.available,
                                ![FrozenOfMint] = IF n < 3 THEN @ ELSE s.frozen]
  /\ stuck' = (stuck /\ n < 4)
  /\ fault' = IF n < 4 THEN fault ELSE fault \ {"settlement"}
  /\ UNCHANGED <<redis, order>>

Undoes(s) ==
  \/ s.name \in {"dead", "late"} /\ fault' = fault \ {s.name} /\ UNCHANGED <<money, redis, order, stuck>>
  \/ s.name = "drift" /\ balance' = [balance EXCEPT ![AvailableOfMint] = s.available]
                      /\ UNCHANGED <<ledger, fault, redis, order, stuck>>
  \/ s.name = "users" /\ RemovesUsers(s)
  \/ s.name = "settlement" /\ RemovesStuck(s, 4)

UndoFails(s) ==
  /\ fragile
  /\ \/ s.name = "settlement" /\ \E n \in 0..3 : RemovesStuck(s, n)
     \/ s.name # "settlement" /\ UNCHANGED world

Top == cleanup[Len(cleanup)]
Push(s) == cleanup' = Append(cleanup, s)
Pop == cleanup' = SubSeq(cleanup, 1, Len(cleanup) - 1)

-------------------------------------------------------------------------------
(***************************************************************************)
(* The script.                                                             *)
(***************************************************************************)

\* The wiring is checked, and the administrator logs in.
ChecksWiring ==
  /\ At("wiring")
  /\ Calls("inject", "finally")
  /\ UNCHANGED <<world, alert, cleanup, saved>>

ReadsMint ==
  /\ At("read")
  /\ saved' = [available |-> balance[AvailableOfMint], frozen |-> balance[FrozenOfMint]]
  /\ Goes(IF alert = "redis" THEN "recharge" ELSE "inject")
  /\ UNCHANGED <<world, alert, cleanup>>

\* The outbox event that is DEAD, and the malformed member that is overdue.
InjectsFault ==
  /\ At("inject") /\ alert \in {"dead", "late"}
  /\ \/ fault' = fault \cup {alert} /\ Push([name |-> alert]) /\ Goes("fires")
     \/ Fails /\ UNCHANGED <<fault, cleanup>>
  /\ UNCHANGED <<money, redis, order, stuck, alert, saved>>

\* The cent of drift.
InjectsDrift ==
  /\ At("inject") /\ alert = "recon"
  /\ \/ /\ balance' = Change(balance, AvailableOfMint, 1)
        /\ Push([name |-> "drift", available |-> saved.available])
        /\ Goes("detects")
     \/ Fails /\ UNCHANGED <<balance, cleanup>>
  /\ UNCHANGED <<ledger, fault, redis, order, stuck, alert, saved>>

\* Four statements and the lookup of the id: what undoes them is pushed last.
InjectsStuck ==
  /\ At("inject") /\ alert = "settlement"
  /\ \E n \in IF fragile THEN 0..4 ELSE {4} :
       /\ stuck' = (n >= 1)
       /\ fault' = IF n >= 1 THEN fault \cup {"settlement"} ELSE fault
       /\ SetsMint(IF n >= 2 THEN saved.available - 1 ELSE balance[AvailableOfMint],
                   IF n >= 3 THEN saved.frozen + 1 ELSE balance[FrozenOfMint])
       /\ ledger' = IF n = 4 THEN Insert(Insert(ledger, <<"MONITOR", "stuck", AvailableOfMint>>, -1),
                                         <<"MONITOR", "stuck", FrozenOfMint>>, 1)
                    ELSE ledger
       /\ \/ /\ n = 4
             /\ Push([name |-> "settlement", available |-> saved.available, frozen |-> saved.frozen])
             /\ Goes("fires")
          \/ Fails /\ UNCHANGED cleanup
  /\ UNCHANGED <<redis, order, alert, saved>>

\* recon: a run that fails counts in recon_failure_total.  The call may break, and
\* the audit may fail for an order of somebody else that is overdue (INV-5).
Reconciles(passed, next) ==
  /\ \/ /\ Asserts(BooksBalance = passed, next, "finally")
        /\ fault' = IF BooksBalance THEN fault ELSE fault \cup {"recon"}
     \/ Raises("finally") /\ fault' \in {fault, fault \cup {"recon"}}
  /\ UNCHANGED <<money, redis, order, stuck, alert, cleanup, saved>>

DetectsDrift == At("detects") /\ Reconciles(FALSE, "fires")
RecoversFromDrift == At("recovers") /\ Reconciles(TRUE, "resolves")

\* wait_for_alert, until it fires.
AlertFires ==
  /\ At("fires")
  /\ WaitsUntil(alert \in fault, "repair", "finally")
  /\ UNCHANGED <<world, alert, cleanup, saved>>

\* sql(cleanup.pop()): the statement leaves the stack before it runs.
Repairs ==
  /\ At("repair") /\ alert \in {"dead", "recon", "settlement"}
  /\ \/ Undoes(Top) /\ Goes(IF alert = "recon" THEN "recovers" ELSE "resolves")
     \/ UndoFails(Top) /\ Raises("finally")
  /\ Pop
  /\ UNCHANGED <<alert, saved>>

\* The ZREM of the malformed member: here the stack is popped afterwards.
RepairsQueue ==
  /\ At("repair") /\ alert = "late"
  /\ \/ Undoes(Top) /\ Pop /\ Goes("resolves")
     \/ Fails /\ UNCHANGED <<world, cleanup>>
  /\ UNCHANGED <<alert, saved>>

NextAlert == [dead |-> "recon", recon |-> "late", late |-> "redis", redis |-> "settlement"]
FirstStep == [recon |-> "read", late |-> "inject", redis |-> "register", settlement |-> "read"]

\* wait_for_alert, until it is inactive again.
AlertResolves ==
  /\ At("resolves")
  /\ \/ alert \notin fault /\ alert # "settlement" /\ alert' = NextAlert[alert] /\ Goes(FirstStep[alert'])
     \/ alert \notin fault /\ alert = "settlement" /\ step' = "finally" /\ verdict' = "passed" /\ UNCHANGED alert
     \/ Raises("finally") /\ UNCHANGED alert
  /\ UNCHANGED <<world, cleanup, saved>>

-------------------------------------------------------------------------------
(***************************************************************************)
(* The Redis outage, with users and an order of its own.  A call may have  *)
(* committed although its answer is lost.                                  *)
(***************************************************************************)

Registers ==
  /\ At("register")
  /\ Calls("read", "finally")
  /\ UNCHANGED <<world, alert, cleanup, saved>>

RechargesPublisher ==
  /\ At("recharge")
  /\ \/ Moves("RECHARGE", "script", AvailableOfMint, Available(Publisher), Deposit) /\ Calls("create", "finally")
     \/ UNCHANGED money /\ Raises("finally")
  /\ UNCHANGED <<fault, redis, order, stuck, alert, cleanup, saved>>

CreatesOrder ==
  /\ At("create")
  /\ \/ /\ Moves("FREEZE", "order", Available(Publisher), Frozen(Publisher), Reward)
        /\ order' = "PUBLISHED"
        /\ Calls("ids", "finally")
     \/ UNCHANGED <<money, order>> /\ Raises("finally")
  /\ UNCHANGED <<fault, redis, stuck, alert, cleanup, saved>>

\* The ids are looked up, with which everything can be removed.
KeepsIds ==
  /\ At("ids")
  /\ \/ Push([name |-> "users", available |-> saved.available]) /\ Goes("stop")
     \/ Fails /\ UNCHANGED cleanup
  /\ UNCHANGED <<world, alert, saved>>

StopsRedis ==
  /\ At("stop")
  /\ \/ redis' = FALSE /\ Goes("grab")
     \/ Fails /\ UNCHANGED redis
  /\ UNCHANGED <<money, fault, order, stuck, alert, cleanup, saved>>

\* The grab has to win without Redis.
Grabs ==
  /\ At("grab")
  /\ \/ order = "PUBLISHED" /\ order' = "TAKEN" /\ Calls("fires", "finally")
     \/ UNCHANGED order /\ Raises("finally")
  /\ UNCHANGED <<money, fault, redis, stuck, alert, cleanup, saved>>

StartsRedis ==
  /\ At("repair") /\ alert = "redis"
  /\ \/ redis' = TRUE /\ Calls("cancel", "finally")
     \/ Fails /\ UNCHANGED redis
  /\ UNCHANGED <<money, fault, order, stuck, alert, cleanup, saved>>

CancelsOrder ==
  /\ At("cancel")
  /\ \/ /\ order = "TAKEN"
        /\ Moves("CANCEL", "order", Frozen(Publisher), Available(Publisher), Reward)
        /\ order' = "CANCELLED"
        /\ Calls("resolves", "finally")
     \/ UNCHANGED <<money, order>> /\ Raises("finally")
  /\ UNCHANGED <<fault, redis, stuck, alert, cleanup, saved>>

-------------------------------------------------------------------------------
(***************************************************************************)
(* The finally block, which swallows what fails.                           *)
(***************************************************************************)

RestartsRedis ==
  /\ At("finally")
  /\ redis' \in IF fragile THEN {redis, TRUE} ELSE {TRUE}
  /\ Goes("cleanup")
  /\ UNCHANGED <<money, fault, order, stuck, alert, cleanup, saved>>

\* A bug to catch: the stack is run through from the bottom.
NextCleanupFirst == cleanup[1]

\* reversed(cleanup).
NextCleanup == Top

CleansUp ==
  /\ At("cleanup") /\ cleanup # <<>>
  /\ Undoes(NextCleanup) \/ UndoFails(NextCleanup)
  /\ cleanup' = IF NextCleanup = Top THEN SubSeq(cleanup, 1, Len(cleanup) - 1) ELSE Tail(cleanup)
  /\ UNCHANGED <<script, alert, saved>>

WritesReport ==
  /\ At("cleanup") /\ cleanup = <<>>
  /\ Goes("end")
  /\ UNCHANGED <<world, alert, cleanup, saved>>

Drill ==
  \/ ChecksWiring \/ ReadsMint \/ InjectsFault \/ InjectsDrift \/ InjectsStuck
  \/ DetectsDrift \/ RecoversFromDrift \/ AlertFires \/ Repairs \/ RepairsQueue \/ AlertResolves
  \/ Registers \/ RechargesPublisher \/ CreatesOrder \/ KeepsIds \/ StopsRedis \/ Grabs
  \/ StartsRedis \/ CancelsOrder \/ RestartsRedis \/ CleansUp \/ WritesReport

-------------------------------------------------------------------------------
(***************************************************************************)
(* The system meanwhile.                                                   *)
(***************************************************************************)

CustomerRecharges(k) ==
  /\ Fresh(ledger, <<"RECHARGE", k, AvailableOfMint>>)
  /\ Moves("RECHARGE", k, AvailableOfMint, Available(Customer), 1)
  /\ UNCHANGED <<fault, redis, order, stuck>>

\* timeoutClaim.
OrderExpires ==
  /\ order = "PUBLISHED"
  /\ order' = "CANCELLED"
  /\ Moves("TIMEOUT", "order", Frozen(Publisher), Available(Publisher), Reward)
  /\ UNCHANGED <<fault, redis, stuck>>

\* The reconciliation of every minute, which INV-5 may fail as well, and the minute
\* after which one that failed is forgotten; the degraded operations, while Redis is
\* away.
MetricsMove ==
  /\ \/ fault' = (IF BooksBalance THEN fault \ {"recon"} ELSE fault \cup {"recon"})
     \/ fault' = fault \cup {"recon"}
     \/ fault' = (IF redis THEN fault \ {"redis"} ELSE fault \cup {"redis"})
  /\ UNCHANGED <<money, redis, order, stuck>>

Others ==
  /\ (\E k \in Recharges : CustomerRecharges(k)) \/ OrderExpires \/ MetricsMove
  /\ UNCHANGED <<script, alert, cleanup, saved>>

-------------------------------------------------------------------------------
Undisturbed == \A k \in DOMAIN ledger : k[3][1] # Customer

\* Wherever the script gives up, the finally block undoes all that was injected:
\* the books balance, Redis runs, and no injected row or member is left, as long
\* as nobody else moves the mint's money, the statements work and the process is
\* not killed.
InjectionsAreUndone ==
  At("end") /\ Undisturbed /\ ~fragile /\ verdict # "killed" =>
    BooksBalance /\ redis /\ ~stuck /\ fault \cap {"dead", "late", "settlement"} = {}

\* Statements that fail, and repairs that left the stack before they ran, never
\* leave books that do not balance behind a report that says PASS.
PassedMeansBooksBalance == At("end") /\ verdict = "passed" /\ Undisturbed => BooksBalance
===============================================================================
