------------------------------- MODULE Payments -------------------------------
(***************************************************************************)
(* Payments, refunds, disputes and compensations: PaymentService,          *)
(* RefundService, DisputeService, UserService.recharge and the             *)
(* notifications they enqueue, over the wallets of Accounts.               *)
(*                                                                         *)
(* A request runs in a transaction under REPEATABLE READ, in two steps: it *)
(* begins, which fixes its snapshot, and either answers from what the      *)
(* snapshot shows or goes on to insert; then its INSERT meets the rows     *)
(* committed by now, and it commits or rolls back.  The locks it takes     *)
(* with the INSERT are held until then.  What a handler re-reads after a   *)
(* duplicate key is the snapshot again, which does not show the row that   *)
(* caused it: the handler throws, and the request is answered "error".     *)
(***************************************************************************)
EXTENDS Accounts, Sequences

CONSTANTS
  Traffic,       \* the calls clients, the provider and administrators may make
  Requests,      \* the requests the application serves at the same time
  Compensation,  \* amountCents of the compensations
  Spending,      \* what a user freezes for an order of hers
  MaxDisputes    \* bound: the disputes that are opened

ASSUME PaymentsAssumption ==
  /\ \A c \in Traffic :
       /\ c.op \in {"callback", "recharge", "refund", "dispute", "compensate"}
       /\ c.op \in {"callback", "recharge"} => c.amount \in Nat \ {0}   \* @Min(1)
  /\ Compensation \in Nat \ {0}
  /\ Spending \in Nat \ {0}
  /\ MaxDisputes \in Nat

VARIABLES
  payments,      \* t_payment, its id the place in the sequence
  refunds,       \* t_refund
  disputes,      \* t_dispute
  compensations, \* t_compensation: the dispute of each request_key
  ops,           \* t_idempotent_op: the fingerprint of each key
  notices,       \* t_notification: the status by event_key
  request        \* what each request does, and how it was answered last

rows == <<payments, refunds, disputes, compensations, ops, notices>>
vars == <<balance, ledger, rows, request>>

NoCall == [op |-> "none"]
Business == Users \ {Mint, Platform}

\* The biz_id of a row is its id.  That of a recharge, an instant, is named by
\* the key of the recharge.
Id(n) == <<"ID", n>>
PaymentKey(event) == <<"PAYMENT", event>>

Init ==
  /\ balance = [a \in Account |-> 0]
  /\ ledger = [k \in {} |-> 0]
  /\ payments = <<>>
  /\ refunds = <<>>
  /\ disputes = <<>>
  /\ compensations = [k \in {} |-> 0]
  /\ ops = [k \in {} |-> <<>>]
  /\ notices = [k \in {} |-> "PENDING"]
  /\ request = [r \in Requests |-> [state |-> "idle", call |-> NoCall, seen |-> FALSE]]

Answers(r, answer) ==
  request' = [request EXCEPT ![r] = [state |-> answer, call |-> NoCall, seen |-> FALSE]]

\* The transaction goes on after its reads, or answers right away; seen: the
\* snapshot shows the key of the recharge it is about to make.
Reads(r, c, answer, seen) ==
  /\ IF answer = "begun"
     THEN request' = [request EXCEPT ![r] = [state |-> "begun", call |-> c, seen |-> seen]]
     ELSE Answers(r, answer)
  /\ UNCHANGED <<balance, ledger, rows>>

\* The transaction is rolled back.
Throws(r, answer) == Answers(r, answer) /\ UNCHANGED <<balance, ledger, rows>>

\* A bug to catch: the second account is not credited.
PostUncredited(type, biz, from, to, amount) ==
  /\ balance' = Change(balance, from, -amount)
  /\ ledger' = Insert(Insert(ledger, <<type, biz, from>>, -amount), <<type, biz, to>>, amount)

\* change and insert for the two halves of a business event.
Post(type, biz, from, to, amount) ==
  /\ balance' = Change(Change(balance, from, -amount), to, amount)
  /\ ledger' = Insert(Insert(ledger, <<type, biz, from>>, -amount), <<type, biz, to>>, amount)

\* NotificationService.enqueue.
Notify(type, n) == notices' = Insert(notices, <<type, n>>, "PENDING")

\* NotificationService.markSent, by the outbox worker.
MarkSent(k) ==
  /\ notices[k] # "SENT"
  /\ notices' = [notices EXCEPT ![k] = "SENT"]
  /\ UNCHANGED <<balance, ledger, payments, refunds, disputes, compensations, ops, request>>

-------------------------------------------------------------------------------
(***************************************************************************)
(* Recharges.                                                              *)
(***************************************************************************)

\* IdempotencyRepository.start: a key that was taken since the snapshot is a
\* duplicate that the re-read does not find.
Start(c, key, seen) ==
  IF key \notin DOMAIN ops THEN "new"
  ELSE IF ~seen THEN "error"
  ELSE IF ops[key] # <<c.user, c.amount>> THEN "conflict"
  ELSE "replay"

\* UserService.recharge, up to start.
RechargeReads(r, c) ==
  Reads(r, c, IF c.user \in Business THEN "begun" ELSE "forbidden", c.key \in DOMAIN ops)

\* What a recharge writes.
Recharge(c, key, start) ==
  IF start = "new"
  THEN /\ Post("RECHARGE", key, Available(Mint), Available(c.user), c.amount)
       /\ ops' = Insert(ops, key, <<c.user, c.amount>>)
  ELSE UNCHANGED <<balance, ledger, ops>>

RechargeCommits(r, c, seen) ==
  LET start == Start(c, c.key, seen)
  IN  \/ /\ start \in {"new", "replay"}
         /\ Recharge(c, c.key, start)
         /\ Answers(r, "ok")
         /\ UNCHANGED <<payments, refunds, disputes, compensations, notices>>
      \/ start \notin {"new", "replay"} /\ Throws(r, start)

-------------------------------------------------------------------------------
(***************************************************************************)
(* Payments.                                                               *)
(***************************************************************************)

\* PaymentService.sameRequest.
SameRequest(p, c) == p.user = c.user /\ p.amount = c.amount /\ p.pid = c.pid

WithEvent(c) == {i \in DOMAIN payments : payments[i].event = c.event}
WithProviderId(c) == {i \in DOMAIN payments : payments[i].pid = c.pid}

\* A bug to catch: findByProviderId is not called.
ExistingByEvent(c) == WithEvent(c)

\* findByEvent, and then findByProviderId.
Existing(c) == IF WithEvent(c) # {} THEN WithEvent(c) ELSE WithProviderId(c)

\* PaymentService.callback, up to the INSERT.
CallbackReads(r, c) ==
  LET existing == Existing(c)
      answer == CASE ~c.signed -> "unauthorized"
                  [] c.signed /\ existing # {} ->
                       IF \A i \in existing : SameRequest(payments[i], c) THEN "ok" ELSE "conflict"
                  [] OTHER -> IF c.user \in Business THEN "begun" ELSE "forbidden"
  IN  Reads(r, c, answer, PaymentKey(c.event) \in DOMAIN ops)

\* A bug to catch: uk_payment_provider_id is dropped.
PaymentExistsByEvent(c) == WithEvent(c) # {}

\* uk_payment_provider_id and uk_payment_callback_event.
PaymentExists(c) == WithEvent(c) \cup WithProviderId(c) # {}

\* PaymentService.callback from the INSERT on.
CallbackCommits(r, c, seen) ==
  LET start == Start(c, PaymentKey(c.event), seen)
  IN  \/ PaymentExists(c) /\ Throws(r, "error")
      \/ /\ ~PaymentExists(c)
         /\ start \in {"new", "replay"}
         /\ payments' = Append(payments, [pid |-> c.pid, event |-> c.event, user |-> c.user,
                                          amount |-> c.amount, status |-> "SETTLED"])
         /\ Recharge(c, PaymentKey(c.event), start)
         /\ Notify("PAYMENT", Len(payments'))
         /\ Answers(r, "ok")
         /\ UNCHANGED <<refunds, disputes, compensations>>
      \/ ~PaymentExists(c) /\ start \notin {"new", "replay"} /\ Throws(r, start)

-------------------------------------------------------------------------------
(***************************************************************************)
(* Refunds.                                                                *)
(***************************************************************************)

\* RefundService.refund, up to the INSERT.
RefundReads(r, c) ==
  LET p == payments[c.payment]
      replays == {i \in DOMAIN refunds : refunds[i].key = c.key}
      answer == CASE c.payment \notin DOMAIN payments -> "not found"
                  [] c.payment \in DOMAIN payments /\ p.user # c.user -> "forbidden"
                  [] c.payment \in DOMAIN payments /\ p.user = c.user /\ p.amount # c.amount -> "invalid"
                  [] OTHER ->
                       IF replays # {}
                       THEN IF \A i \in replays : refunds[i].payment = c.payment THEN "ok" ELSE "conflict"
                       ELSE IF p.status = "SETTLED" THEN "begun" ELSE "illegal"
  IN  Reads(r, c, answer, FALSE)

\* A bug to catch: V7__one_refund_per_payment.sql is not applied.
RefundExistsByKey(c) == \E i \in DOMAIN refunds : refunds[i].key = c.key

\* uk_refund_request and uk_refund_payment.
RefundExists(c) ==
  \E i \in DOMAIN refunds : refunds[i].key = c.key \/ refunds[i].payment = c.payment

\* PaymentRepository.markRefunded.
MarkRefunded(i) == payments' = [payments EXCEPT ![i].status = "REFUNDED"]

\* A bug to catch: a fee is kept back.
RefundAmountWithFee(p) == p.amount - 1

\* The sandbox refunds all of the payment.
RefundAmount(p) == p.amount

\* RefundService.refund from the INSERT on.
RefundCommits(r, c) ==
  LET p == payments[c.payment]
  IN  \/ RefundExists(c) /\ Throws(r, "error")
      \/ ~RefundExists(c) /\ ~Covers(balance, Available(p.user), p.amount) /\ Throws(r, "insufficient")
      \/ /\ ~RefundExists(c)
         /\ Covers(balance, Available(p.user), p.amount)
         /\ refunds' = Append(refunds, [payment |-> c.payment, key |-> c.key])
         /\ Post("REFUND", Id(Len(refunds')), Available(p.user), Available(Mint), RefundAmount(p))
         /\ MarkRefunded(c.payment)
         /\ Notify("REFUND", Len(refunds'))
         /\ Answers(r, "ok")
         /\ UNCHANGED <<disputes, compensations, ops>>

-------------------------------------------------------------------------------
(***************************************************************************)
(* Disputes and their compensation.                                        *)
(***************************************************************************)

\* DisputeService.open.
DisputeReads(r, c) ==
  /\ Len(disputes) + Cardinality({q \in Requests : request[q].call.op = "dispute"}) < MaxDisputes
  /\ Reads(r, c, CASE c.payment \notin DOMAIN payments -> "not found"
                   [] OTHER -> IF payments[c.payment].user = c.user THEN "begun" ELSE "forbidden", FALSE)

DisputeCommits(r, c) ==
  /\ disputes' = Append(disputes, [payment |-> c.payment, user |-> c.user, status |-> "OPEN"])
  /\ Answers(r, "ok")
  /\ UNCHANGED <<balance, ledger, payments, refunds, compensations, ops, notices>>

\* DisputeService.compensate, up to the INSERT.  A key that exists answers with
\* the dispute as it is.
CompensateReads(r, c) ==
  LET answer == CASE c.dispute \notin DOMAIN disputes -> "not found"
                  [] c.dispute \in DOMAIN disputes /\ disputes[c.dispute].status # "OPEN" -> "resolved"
                  [] OTHER -> IF c.key \in DOMAIN compensations THEN "still open" ELSE "begun"
  IN  Reads(r, c, answer, FALSE)

\* DisputeService.compensate from the INSERT on: after a duplicate key it answers
\* with the dispute of the snapshot, and uk_biz_account stops a second
\* compensation before resolve could find the dispute resolved.
CompensateCommits(r, c) ==
  LET to == Available(disputes[c.dispute].user)
      fresh == Fresh(ledger, <<"COMPENSATION", Id(c.dispute), Available(Mint)>>)
  IN  \/ c.key \in DOMAIN compensations /\ Throws(r, "still open")
      \/ c.key \notin DOMAIN compensations /\ ~fresh /\ Throws(r, "error")
      \/ /\ c.key \notin DOMAIN compensations
         /\ fresh
         /\ compensations' = Insert(compensations, c.key, c.dispute)
         /\ Post("COMPENSATION", Id(c.dispute), Available(Mint), to, Compensation)
         /\ disputes' = [disputes EXCEPT ![c.dispute].status = "RESOLVED"]
         /\ Notify("DISPUTE", c.dispute)
         /\ Answers(r, "resolved")
         /\ UNCHANGED <<payments, refunds, ops>>

-------------------------------------------------------------------------------
Begins(r, c) ==
  /\ request[r].state # "begun"
  /\ \/ c.op = "recharge" /\ RechargeReads(r, c)
     \/ c.op = "callback" /\ CallbackReads(r, c)
     \/ c.op = "refund" /\ RefundReads(r, c)
     \/ c.op = "dispute" /\ DisputeReads(r, c)
     \/ c.op = "compensate" /\ CompensateReads(r, c)

Finishes(r) ==
  LET c == request[r].call
  IN  /\ request[r].state = "begun"
      /\ \/ c.op = "recharge" /\ RechargeCommits(r, c, request[r].seen)
         \/ c.op = "callback" /\ CallbackCommits(r, c, request[r].seen)
         \/ c.op = "refund" /\ RefundCommits(r, c)
         \/ c.op = "dispute" /\ DisputeCommits(r, c)
         \/ c.op = "compensate" /\ CompensateCommits(r, c)

\* The instance dies with the transaction: it is rolled back.
Dies(r) == request[r].state = "begun" /\ Throws(r, "lost")

\* OrderService.create, for the money it freezes.
Spends(u) ==
  LET key == <<"FREEZE", <<"ORDER", u>>, Available(u)>>
  IN  /\ Covers(balance, Available(u), Spending)
      /\ Fresh(ledger, key)
      /\ Post("FREEZE", <<"ORDER", u>>, Available(u), Frozen(u), Spending)
      /\ UNCHANGED <<rows, request>>

Next ==
  \/ \E r \in Requests : (\E c \in Traffic : Begins(r, c)) \/ Finishes(r) \/ Dies(r)
  \/ \E k \in DOMAIN notices : MarkSent(k)
  \/ \E u \in Business : Spends(u)

Spec == Init /\ [][Next]_vars

-------------------------------------------------------------------------------
(***************************************************************************)
(* What a team relies on.                                                  *)
(***************************************************************************)

CallsOf(op) == {c \in Traffic : c.op = op}

PaymentType == [pid : {c.pid : c \in CallsOf("callback")},
                event : {c.event : c \in CallsOf("callback")},
                user : Business, amount : Nat \ {0}, status : {"SETTLED", "REFUNDED"}]

RefundType == [payment : Nat, key : {c.key : c \in CallsOf("refund")}]

DisputeType == [payment : Nat, user : Business, status : {"OPEN", "RESOLVED"}]

\* The types of the rows; ids refer to rows that exist.
TypeOK ==
  /\ balance \in [Account -> Int]
  /\ IsFiniteSet(DOMAIN ledger)
  /\ \A k \in DOMAIN ledger : k[3] \in Account /\ ledger[k] \in Int
  /\ payments \in Seq(PaymentType)
  /\ refunds \in Seq(RefundType)
  /\ \A i \in DOMAIN refunds : refunds[i].payment \in DOMAIN payments
  /\ disputes \in Seq(DisputeType)
  /\ \A i \in DOMAIN disputes : disputes[i].payment \in DOMAIN payments
  /\ \A k \in DOMAIN compensations : compensations[k] \in DOMAIN disputes
  /\ \A k \in DOMAIN notices : notices[k] \in {"PENDING", "SENT"}
  /\ DOMAIN request = Requests
  /\ \A r \in Requests : request[r].state = "begun" => request[r].call \in Traffic

Resolved == {d \in DOMAIN disputes : disputes[d].status = "RESOLVED"}

\* The tables agree with each other although each transaction writes them one by
\* one and checks them in a snapshot that may be stale: a payment is REFUNDED if
\* and only if it has a refund, a dispute is RESOLVED if and only if it has a
\* compensation, neither has two, and each event has its one notification
\* (RefundService.refund, DisputeService.compensate, NotificationService.enqueue).
RowsAgree ==
  /\ \A i \in DOMAIN payments :
       Cardinality({j \in DOMAIN refunds : refunds[j].payment = i})
         = IF payments[i].status = "REFUNDED" THEN 1 ELSE 0
  /\ \A d \in DOMAIN disputes :
       Cardinality({k \in DOMAIN compensations : compensations[k] = d})
         = IF disputes[d].status = "RESOLVED" THEN 1 ELSE 0
  /\ DOMAIN notices = {<<"PAYMENT", i>> : i \in DOMAIN payments}
                      \cup {<<"REFUND", i>> : i \in DOMAIN refunds}
                      \cup {<<"DISPUTE", d>> : d \in Resolved}

\* The payments as their users see them: see PaymentLifecycle.  The recharge that a
\* callback makes, or finds made under its key, is no deposit of its own.
Wealth == [u \in Business |-> balance[Available(u)] + balance[Frozen(u)]]
Deposits ==
  {[key |-> k, user |-> ops[k][1], amount |-> ops[k][2]] :
     k \in DOMAIN ops \ {PaymentKey(payments[i].event) : i \in DOMAIN payments}}
PaymentWith(pid) == CHOOSE i \in DOMAIN payments : payments[i].pid = pid
Credited ==
  [pid \in {payments[i].pid : i \in DOMAIN payments} |->
     [user |-> payments[PaymentWith(pid)].user, amount |-> payments[PaymentWith(pid)].amount]]
Returned == {payments[i].pid : i \in {j \in DOMAIN payments : payments[j].status = "REFUNDED"}}

Lifecycle ==
  INSTANCE PaymentLifecycle WITH
    money <- Wealth, deposits <- Deposits, settled <- Credited, refunded <- Returned, resolved <- Resolved

\* Whatever is retried, reordered or sent twice at once, a provider payment is
\* settled once and refunded once and a dispute is compensated once, each by a
\* transaction that moves exactly that money (callback, refund, compensate).  Any user
\* may recharge an account of hers under the key of a callback: then the payment is
\* not credited again, and no second payment can take the same recharge over.
MoneyMovesOnce == Lifecycle!Spec
===============================================================================
