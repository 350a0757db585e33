---------------------------- MODULE PaymentReplay ----------------------------
(***************************************************************************)
(* scripts/replay_payment_events.py against Payments: the script sends its *)
(* calls one after the other, each after the answer to the one before,     *)
(* compares every answer with what it expects, reconciles the books,       *)
(* counts rows, decides, and deletes what it made, statement by statement, *)
(* while other users go on.                                                *)
(***************************************************************************)
EXTENDS Payments, FailureCommon

CONSTANTS
  Subject,       \* the user the run registers
  Client,        \* the request that serves the script
  Amount         \* --amount-cents

\* Every name the run hands out carries the time it began, in nanoseconds, and
\* its user is registered by it: no other call has one of these.
OwnPids == {"primary", "unsigned", "normal", "reverse"}
OwnEvents ==
  {"primary", "unsigned", "normal_original", "normal_late", "reverse_late", "reverse_original"}
OwnKeys == {"refund", "second_refund", "compensation"}

ASSUME PaymentReplayAssumption ==
  /\ Subject \in Business
  /\ Client \in Requests
  /\ Amount \in Nat \ {0}
  /\ \A c \in Traffic :
       /\ c.op # "compensate" => c.user # Subject
       /\ c.op = "callback" => c.pid \notin OwnPids /\ c.event \notin OwnEvents
       /\ c.op = "recharge" => c.key \notin {PaymentKey(e) : e \in OwnEvents}
       /\ c.op \in {"refund", "compensate"} => c.key \notin OwnKeys

VARIABLES
  turn,          \* the next call, and later the next statement
  waiting,       \* it was sent
  asExpected,    \* the checks so far
  excused        \* a call broke, or an order was overdue at the reconciliation

drill == <<script, turn, waiting, asExpected, excused>>
drillVars == <<vars, drill>>

Webhook(pid, event, amount, signed) ==
  [op |-> "callback", pid |-> pid, event |-> event, user |-> Subject, amount |-> amount, signed |-> signed]

\* The ids that the first callback, refund and dispute were answered with.
TheOne(S) == IF S = {} THEN 0 ELSE CHOOSE i \in S : TRUE
Primary == TheOne({i \in DOMAIN payments : payments[i].pid = "primary"})
PrimaryDispute == TheOne({i \in DOMAIN disputes : disputes[i].user = Subject})

RefundCall(key) == [op |-> "refund", payment |-> Primary, key |-> key, user |-> Subject, amount |-> Amount]
CompensateCall == [op |-> "compensate", dispute |-> PrimaryDispute, key |-> "compensation"]

\* The calls and the answers that count as right.  Of the --duplicates that
\* repeat a call, one; "stop" tells the calls whose failure raises.
Plan ==
  <<[call |-> Webhook("primary", "primary", Amount, TRUE), right |-> "ok", stop |-> TRUE],
    [call |-> Webhook("primary", "primary", Amount, TRUE), right |-> "ok", stop |-> FALSE],
    [call |-> Webhook("primary", "primary", Amount + 1, TRUE), right |-> "conflict", stop |-> FALSE],
    [call |-> Webhook("unsigned", "unsigned", Amount, FALSE), right |-> "unauthorized", stop |-> FALSE],
    [call |-> Webhook("normal", "normal_original", Amount, TRUE), right |-> "ok", stop |-> TRUE],
    [call |-> Webhook("normal", "normal_late", Amount, TRUE), right |-> "ok", stop |-> TRUE],
    [call |-> Webhook("reverse", "reverse_late", Amount, TRUE), right |-> "ok", stop |-> TRUE],
    [call |-> Webhook("reverse", "reverse_original", Amount, TRUE), right |-> "ok", stop |-> TRUE],
    [call |-> RefundCall("refund"), right |-> "ok", stop |-> TRUE],
    [call |-> RefundCall("refund"), right |-> "ok", stop |-> FALSE],
    [call |-> RefundCall("second_refund"), right |-> "illegal", stop |-> FALSE],
    [call |-> [op |-> "dispute", payment |-> Primary, user |-> Subject], right |-> "ok", stop |-> TRUE],
    [call |-> CompensateCall, right |-> "resolved", stop |-> FALSE],
    [call |-> CompensateCall, right |-> "resolved", stop |-> FALSE]>>

DrillInit ==
  /\ Init
  /\ step = "setup" /\ verdict = "open"
  /\ turn = 1 /\ waiting = FALSE /\ asExpected = TRUE /\ excused = FALSE

\* A connection, or the database, that breaks raises.
Breaks == Raises("cleanup") /\ turn' = 1 /\ excused' = TRUE

\* register_and_login, and the login of the administrator.
Setup ==
  /\ At("setup")
  /\ \/ Goes("calls") /\ UNCHANGED <<turn, excused>>
     \/ Breaks
  /\ UNCHANGED <<vars, waiting, asExpected>>

\* callback and request_json.
Sends ==
  /\ At("calls") /\ ~waiting
  /\ Begins(Client, Plan[turn].call)
  /\ waiting' = TRUE
  /\ UNCHANGED <<script, turn, asExpected, excused>>

Receives ==
  LET answer == request[Client].state
      right == answer = Plan[turn].right
  IN  /\ At("calls") /\ waiting
      /\ answer # "begun"
      /\ asExpected' = (asExpected /\ right)
      /\ \/ answer = "lost" /\ Breaks
         \/ /\ answer # "lost"
            /\ IF ~right /\ Plan[turn].stop
               THEN Raises("cleanup") /\ turn' = 1
               ELSE /\ turn' = turn + 1
                    /\ Goes(IF turn = Len(Plan) THEN "recon" ELSE "calls")
            /\ UNCHANGED excused
      /\ waiting' = FALSE
      /\ UNCHANGED vars

\* The users with an open order, which froze its reward.
OpenOrders == {u \in Business : <<"FREEZE", <<"ORDER", u>>, Available(u)>> \in DOMAIN ledger}

\* INV-3, escrowMismatch: what is frozen is what the open orders are worth.
EscrowMatches ==
  LET Escrows == Users \X {"FROZEN"}
      Reward == [a \in Escrows |-> IF a[1] \in OpenOrders THEN Spending ELSE 0]
  IN  SumFunctionOnSet(balance, Escrows) = SumFunctionOnSet(Reward, Escrows)

\* ReconService.run.  INV-5 fails of any open order that is past its deadline; an
\* answer other than 200 counts as not passed.
Reconciles ==
  /\ At("recon")
  /\ \/ \E overdue \in BOOLEAN :
          /\ overdue => OpenOrders # {}
          /\ asExpected' = (asExpected /\ LedgerSumsToZero /\ BalancesMatchLedger /\ EscrowMatches
                                        /\ OnlyMintNegative /\ ~overdue)
          /\ excused' = (excused \/ overdue)
          /\ Goes("counts") /\ UNCHANGED turn
     \/ asExpected' = FALSE /\ excused' = TRUE /\ Goes("counts") /\ UNCHANGED turn
     \/ Breaks /\ UNCHANGED asExpected
  /\ UNCHANGED <<vars, waiting>>

\* What the script counts in the database.
CountsAreRight ==
  /\ Cardinality({i \in DOMAIN payments : payments[i].pid = "primary"}) = 1
  /\ Cardinality({i \in DOMAIN refunds : refunds[i].key = "refund"}) = 1
  /\ <<"PAYMENT", Primary>> \in DOMAIN notices
  /\ Cardinality({k \in DOMAIN ledger : k[1] = "RECHARGE" /\ k[3][1] = Subject}) = 3
  /\ Cardinality({k \in DOMAIN ledger : k[1] = "COMPENSATION" /\ k[2] = Id(PrimaryDispute)}) = 2

Decides ==
  /\ At("counts")
  /\ \/ /\ asExpected' = (asExpected /\ CountsAreRight)
        /\ verdict' = IF asExpected' THEN "passed" ELSE "failed"
        /\ step' = "cleanup" /\ turn' = 1
        /\ UNCHANGED excused
     \/ Breaks /\ UNCHANGED asExpected
  /\ UNCHANGED <<vars, waiting>>

-------------------------------------------------------------------------------
(***************************************************************************)
(* cleanup.  A row that is deleted from a table with an id of its own      *)
(* keeps its place, which AUTO_INCREMENT never hands out again.            *)
(***************************************************************************)

Mine(rs) == {i \in DOMAIN rs : rs[i].user = Subject}
Deleted(rs) == [i \in DOMAIN rs |-> IF i \in Mine(rs) THEN [rs[i] EXCEPT !.status = "DELETED"] ELSE rs[i]]

\* The entries of any user that share a biz_id with an entry of the run's user.
SelectedEntries ==
  LET selected_biz == {k[2] : k \in {j \in DOMAIN ledger : j[3][1] = Subject}}
  IN  {k \in DOMAIN ledger : k[1] \in {"RECHARGE", "REFUND", "COMPENSATION"} /\ k[2] \in selected_biz}

DeletesCompensations ==
  /\ compensations' = Restrict(compensations, {k \in DOMAIN compensations : compensations[k] \notin Mine(disputes)})
  /\ UNCHANGED <<balance, ledger, payments, refunds, disputes, ops, notices, request>>

DeletesDisputes ==
  /\ disputes' = Deleted(disputes)
  /\ UNCHANGED <<balance, ledger, payments, refunds, compensations, ops, notices, request>>

\* With their outbox events.
DeletesNotifications ==
  /\ notices' = Restrict(notices, {k \in DOMAIN notices :
       ~ \/ k[1] = "PAYMENT" /\ k[2] \in Mine(payments)
         \/ k[1] = "REFUND" /\ refunds[k[2]].payment \in Mine(payments)
         \/ k[1] = "DISPUTE" /\ k[2] \in Mine(disputes)})
  /\ UNCHANGED <<balance, ledger, payments, refunds, disputes, compensations, ops, request>>

\* The refunds go with the payments they refer to.
DeletesPayments ==
  /\ payments' = Deleted(payments)
  /\ UNCHANGED <<balance, ledger, refunds, disputes, compensations, ops, notices, request>>

DeletesEntries ==
  /\ ledger' = Restrict(ledger, DOMAIN ledger \ SelectedEntries)
  /\ UNCHANGED <<balance, rows, request>>

\* The keys of the run, which all carry its prefix.
DeletesKeys ==
  /\ ops' = Restrict(ops, {k \in DOMAIN ops : ops[k][1] # Subject})
  /\ UNCHANGED <<balance, ledger, payments, refunds, disputes, compensations, notices, request>>

\* The account rows, and then the row of the user.
DeletesAccounts ==
  /\ balance' = [balance EXCEPT ![Available(Subject)] = 0, ![Frozen(Subject)] = 0]
  /\ UNCHANGED <<ledger, rows, request>>

CleansUp ==
  /\ At("cleanup")
  /\ \/ /\ \/ turn = 1 /\ DeletesCompensations
           \/ turn = 2 /\ DeletesDisputes
           \/ turn = 3 /\ DeletesNotifications
           \/ turn = 4 /\ DeletesPayments
           \/ turn = 5 /\ DeletesEntries
           \/ turn = 6 /\ DeletesKeys
           \/ turn = 7 /\ DeletesAccounts
        /\ turn' = turn + 1
        /\ Goes(IF turn = 7 THEN "end" ELSE "cleanup")
     \/ step' = "end" /\ UNCHANGED <<vars, turn, verdict>>
  /\ UNCHANGED <<waiting, asExpected, excused>>

Drill == Setup \/ Sends \/ Receives \/ Reconciles \/ Decides \/ CleansUp

-------------------------------------------------------------------------------
\* The application, which serves the script and other users.
Others ==
  /\ \/ \E r \in Requests : Finishes(r) \/ Dies(r)
     \/ \E r \in Requests \ {Client}, c \in Traffic :
          /\ c.op = "compensate" => c.dispute \notin Mine(disputes)
          /\ Begins(r, c)
     \/ \E k \in DOMAIN notices : MarkSent(k)
     \/ \E u \in Business \ {Subject} : Spends(u)
  /\ UNCHANGED drill

DrillNext == Drill \/ Others

DrillSpec == DrillInit /\ [][DrillNext]_drillVars

-------------------------------------------------------------------------------
\* No answer or count ever differs from what the script expects, and the books
\* always balance, whatever other users do between its calls (PaymentService,
\* RefundService, DisputeService): a FAIL only comes of a call that broke, or of
\* an order of somebody else that was overdue when the script reconciled.
NoFalseAlarm == verdict = "failed" => excused

\* A PASS means that the wallet of the run's user holds what three payments, one
\* refund and one compensation leave there, although the script counts entries
\* and never looks at the wallet (replay_payment_events.main).
PassedMeansRightMoney ==
  verdict = "passed" /\ At("cleanup") => balance[Available(Subject)] = 2 * Amount + Compensation
===============================================================================
