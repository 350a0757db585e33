-------------------------------- MODULE Escrow --------------------------------
(***************************************************************************)
(* The money behind the errand orders: what the committed transactions of  *)
(* OrderService, SettlementService and UserService do to the rows of       *)
(* t_user, t_account, t_ledger_entry, t_errand_order, t_idempotent_op and  *)
(* t_outbox_event.                                                         *)
(*                                                                         *)
(* An action is one transaction that commits.  Every transaction locks the *)
(* order it moves (SELECT ... FOR UPDATE, or the conditional UPDATE itself)*)
(* and holds the locks of the accounts it changes until it commits, so     *)
(* concurrent transactions take effect one after the other.  A transaction *)
(* that throws is rolled back and leaves this state as it was, which is a  *)
(* stuttering step.  The Redis calls the handlers make outside the         *)
(* transaction's protection are no part of this state.                     *)
(***************************************************************************)
EXTENDS Accounts

CONSTANTS
  Orders,            \* the values AUTO_INCREMENT hands out for t_errand_order.id
  NoUser,            \* SQL NULL in taker_id
  Admin,             \* the account app.admin.username names
  Rewards,           \* rewardCents of the requests
  Deposits,          \* amountCents of the recharge requests
  RequestKeys,       \* idempotency keys of the recharge requests
  Instants,          \* values of System.nanoTime(), the biz_id of a recharge
  RateNum, RateDen   \* app.commission.rate, as a fraction

ASSUME EscrowAssumption ==
  /\ IsFiniteSet(Orders)
  /\ NoUser \notin Users
  /\ Admin \in Users \ {Mint, Platform}
  /\ Rewards \subseteq Nat \ {0}       \* create and ck_order_reward reject the others
  /\ Deposits \subseteq Nat \ {0}      \* recharge rejects the others
  /\ RateNum \in Nat
  /\ RateDen \in Nat \ {0}
  /\ RateNum <= RateDen                \* CommissionMath rejects the others

VARIABLES
  role,        \* t_user.role, "NONE" before the user exists
  status,      \* the columns of t_errand_order, "NONE" before the INSERT
  publisher,
  taker,
  reward,
  commission,
  overdue,     \* NOW(3) has reached the deadline of the current status
  ops,         \* the keys of t_idempotent_op
  outbox       \* the (event_type, biz_id) of t_outbox_event

orderVars == <<status, publisher, taker, reward, commission, overdue>>
vars == <<balance, ledger, role, orderVars, ops, outbox>>

Roles == {"NONE", "USER", "ADMIN", "MINT", "PLATFORM"}
Statuses == {"NONE", "PUBLISHED", "TAKEN", "DELIVERED", "SETTLED", "CANCELLED"}
Open == {"PUBLISHED", "TAKEN", "DELIVERED"}

\* CommissionMath.commission: floor(reward * rate).
Commission(r) == (r * RateNum) \div RateDen

RechargeKey(k) == <<"RECHARGE", k>>
SettleKey(o) == <<"SETTLE", o>>

Init ==
  /\ balance = [a \in Account |-> 0]
  /\ ledger = [k \in {} |-> 0]
  /\ role = [u \in Users |-> CASE u = Mint -> "MINT"
                               [] u = Platform -> "PLATFORM"
                               [] OTHER -> "NONE"]
  /\ status = [o \in Orders |-> "NONE"]
  /\ publisher = [o \in Orders |-> NoUser]
  /\ taker = [o \in Orders |-> NoUser]
  /\ reward = [o \in Orders |-> 0]
  /\ commission = [o \in Orders |-> 0]
  /\ overdue = [o \in Orders |-> FALSE]
  /\ ops = {}
  /\ outbox = {}

-------------------------------------------------------------------------------
(***************************************************************************)
(* Users and recharges.                                                    *)
(***************************************************************************)

\* UserService.register and UserService.create.
Register(u) ==
  /\ role[u] = "NONE"
  /\ role' = [role EXCEPT ![u] = "USER"]
  /\ UNCHANGED <<balance, ledger, orderVars, ops, outbox>>

\* AdminBootstrap.ensureAdmin, at the start of an instance: creates the
\* administrator, or promotes the user who already has the configured name,
\* whatever orders that user has open.
EnsureAdmin ==
  /\ role[Admin] # "ADMIN"
  /\ role' = [role EXCEPT ![Admin] = "ADMIN"]
  /\ UNCHANGED <<balance, ledger, orderVars, ops, outbox>>

\* UserService.recharge.  A key that is already there is replayed, without
\* effect; two recharges of the same nanoTime collide on uk_biz_account.
Recharge(u, amount, k, t) ==
  LET fromMint == <<"RECHARGE", t, Available(Mint)>>
      toUser == <<"RECHARGE", t, Available(u)>>
  IN  /\ role[u] = "USER"
      /\ RechargeKey(k) \notin ops
      /\ Fresh(ledger, fromMint)
      /\ Fresh(ledger, toUser)
      /\ ops' = ops \cup {RechargeKey(k)}
      /\ balance' = Change(Change(balance, Available(Mint), -amount), Available(u), amount)
      /\ ledger' = Insert(Insert(ledger, fromMint, -amount), toUser, amount)
      /\ UNCHANGED <<role, orderVars, outbox>>

-------------------------------------------------------------------------------
(***************************************************************************)
(* The life of an order.                                                   *)
(***************************************************************************)

\* OutboxEventService.enqueue: uk_outbox_event rejects a second event of a type.
Enqueue(event, o) ==
  /\ <<event, o>> \notin outbox
  /\ outbox' = outbox \cup {<<event, o>>}

\* OrderService.create.
Create(o, u, r) ==
  LET debit == <<"FREEZE", o, Available(u)>>
      credit == <<"FREEZE", o, Frozen(u)>>
  IN  /\ role[u] = "USER"
      /\ status[o] = "NONE"
      /\ Covers(balance, Available(u), r)
      /\ Fresh(ledger, debit)
      /\ Fresh(ledger, credit)
      /\ balance' = Change(Change(balance, Available(u), -r), Frozen(u), r)
      /\ ledger' = Insert(Insert(ledger, debit, -r), credit, r)
      /\ status' = [status EXCEPT ![o] = "PUBLISHED"]
      /\ publisher' = [publisher EXCEPT ![o] = u]
      /\ reward' = [reward EXCEPT ![o] = r]
      /\ Enqueue("ORDER_PUBLISHED", o)
      /\ UNCHANGED <<role, taker, commission, overdue, ops>>

\* A bug to catch: the claim does not record who took the order.
GrabWithoutTaker(o, u) ==
  /\ role[u] = "USER"
  /\ status[o] = "PUBLISHED"
  /\ publisher[o] # u
  /\ ~ overdue[o]
  /\ status' = [status EXCEPT ![o] = "TAKEN"]
  /\ Enqueue("ORDER_TAKEN", o)
  /\ UNCHANGED <<balance, ledger, role, publisher, taker, reward, commission, overdue, ops>>

\* GrabService.grab with OrderRepository.claim, when the UPDATE changes a row.
Grab(o, u) ==
  /\ role[u] = "USER"
  /\ status[o] = "PUBLISHED"
  /\ taker[o] = NoUser
  /\ publisher[o] # u
  /\ ~ overdue[o]
  /\ status' = [status EXCEPT ![o] = "TAKEN"]
  /\ taker' = [taker EXCEPT ![o] = u]
  /\ Enqueue("ORDER_TAKEN", o)
  /\ UNCHANGED <<balance, ledger, role, publisher, reward, commission, overdue, ops>>

\* A bug to catch: delivery already announces the end of the order.
MarkDeliveredIsTerminal(o, u) ==
  /\ status[o] = "TAKEN"
  /\ taker[o] = u
  /\ ~ overdue[o]
  /\ status' = [status EXCEPT ![o] = "DELIVERED"]
  /\ Enqueue("ORDER_TERMINAL", o)
  /\ UNCHANGED <<balance, ledger, role, publisher, taker, reward, commission, overdue, ops>>

\* OrderRepository.markDelivered, which commits on its own in OrderService.deliver.
MarkDelivered(o, u) ==
  /\ status[o] = "TAKEN"
  /\ taker[o] = u
  /\ ~ overdue[o]
  /\ status' = [status EXCEPT ![o] = "DELIVERED"]
  /\ UNCHANGED <<balance, ledger, role, publisher, taker, reward, commission, overdue, ops, outbox>>

SettleEntry(o, a) == <<"SETTLE", o, a>>

\* A bug to catch: the taker's share is posted to the publisher's account.
InsertEntriesToPublisher(o, c) ==
  Insert(Insert(Insert(ledger, SettleEntry(o, Frozen(publisher[o])), -reward[o]),
                SettleEntry(o, Available(publisher[o])), reward[o] - c),
         SettleEntry(o, Available(Platform)), c)

\* SettlementService.insertEntries.  It merges the entries of one account; the
\* three accounts are different, as settle requires their roles to be.
InsertEntries(o, c) ==
  Insert(Insert(Insert(ledger, SettleEntry(o, Frozen(publisher[o])), -reward[o]),
                SettleEntry(o, Available(taker[o])), reward[o] - c),
         SettleEntry(o, Available(Platform)), c)

\* SettlementService.settle, called by OrderService.deliver and by SettleRetryJob.
Settle(o) ==
  LET p == publisher[o]
      t == taker[o]
      c == Commission(reward[o])
  IN  /\ status[o] = "DELIVERED"
      /\ t # NoUser
      /\ role[p] = "USER"
      /\ role[t] = "USER"
      /\ SettleKey(o) \notin ops
      /\ role[Platform] = "PLATFORM"
      /\ Covers(balance, Frozen(p), reward[o])
      /\ \A a \in {Frozen(p), Available(t), Available(Platform)} : Fresh(ledger, SettleEntry(o, a))
      /\ ops' = ops \cup {SettleKey(o)}
      /\ balance' = Change(Change(Change(balance, Frozen(p), -reward[o]),
                                  Available(t), reward[o] - c),
                           Available(Platform), c)
      /\ status' = [status EXCEPT ![o] = "SETTLED"]
      /\ commission' = [commission EXCEPT ![o] = c]
      /\ ledger' = InsertEntries(o, c)
      /\ Enqueue("ORDER_TERMINAL", o)
      /\ UNCHANGED <<role, publisher, taker, reward, overdue>>

\* OrderService.refund and the CANCELLED update before it.
CancelAndRefund(o) ==
  LET p == publisher[o]
      debit == <<"CANCEL", o, Frozen(p)>>
      credit == <<"CANCEL", o, Available(p)>>
  IN  /\ Covers(balance, Frozen(p), reward[o])
      /\ Fresh(ledger, debit)
      /\ Fresh(ledger, credit)
      /\ status' = [status EXCEPT ![o] = "CANCELLED"]
      /\ balance' = Change(Change(balance, Frozen(p), -reward[o]), Available(p), reward[o])
      /\ ledger' = Insert(Insert(ledger, debit, -reward[o]), credit, reward[o])
      /\ Enqueue("ORDER_TERMINAL", o)
      /\ UNCHANGED <<role, publisher, taker, reward, commission, overdue, ops>>

\* A bug to catch: the publisher can also cancel after the delivery.
CancelDelivered(o, u) ==
  /\ publisher[o] = u
  /\ status[o] \in Open
  /\ CancelAndRefund(o)

\* OrderService.cancel, asked for by user u.
Cancel(o, u) ==
  /\ publisher[o] = u
  /\ status[o] \in {"PUBLISHED", "TAKEN"}
  /\ CancelAndRefund(o)

\* A bug to catch: the timeout cancels the order and forgets the refund.
TimeoutClaimWithoutRefund(o) ==
  /\ status[o] = "PUBLISHED"
  /\ overdue[o]
  /\ status' = [status EXCEPT ![o] = "CANCELLED"]
  /\ Enqueue("ORDER_TERMINAL", o)
  /\ UNCHANGED <<balance, ledger, role, publisher, taker, reward, commission, overdue, ops>>

\* OrderService.timeoutClaim, from DelayQueuePoller or TimeoutScanJob.
TimeoutClaim(o) ==
  /\ status[o] = "PUBLISHED"
  /\ overdue[o]
  /\ CancelAndRefund(o)

\* OrderService.timeoutDeliver, from the same jobs.
TimeoutDeliver(o) ==
  /\ status[o] = "TAKEN"
  /\ overdue[o]
  /\ CancelAndRefund(o)

\* The database clock reaches claim_deadline_at or deliver_deadline_at.
DeadlinePasses(o) ==
  /\ status[o] \in {"PUBLISHED", "TAKEN"}
  /\ ~ overdue[o]
  /\ overdue' = [overdue EXCEPT ![o] = TRUE]
  /\ UNCHANGED <<balance, ledger, role, status, publisher, taker, reward, commission, ops, outbox>>

Next ==
  \/ \E u \in Users : Register(u)
  \/ EnsureAdmin
  \/ \E u \in Users, amount \in Deposits, k \in RequestKeys, t \in Instants :
       Recharge(u, amount, k, t)
  \/ \E o \in Orders, u \in Users :
       \/ \E r \in Rewards : Create(o, u, r)
       \/ Grab(o, u)
       \/ MarkDelivered(o, u)
       \/ Cancel(o, u)
  \/ \E o \in Orders :
       \/ Settle(o)
       \/ TimeoutClaim(o)
       \/ TimeoutDeliver(o)
       \/ DeadlinePasses(o)

Spec == Init /\ [][Next]_vars

-------------------------------------------------------------------------------
(***************************************************************************)
(* Properties.                                                             *)
(***************************************************************************)

\* The types of the tables' columns, the users that the columns of an order
\* hold in each status, and the roles of the system accounts.
TypeOK ==
  /\ balance \in [Account -> Int]
  /\ IsFiniteSet(DOMAIN ledger)
  /\ \A k \in DOMAIN ledger : k[3] \in Account /\ ledger[k] \in Int
  /\ role \in [Users -> Roles]
  /\ role[Mint] = "MINT" /\ role[Platform] = "PLATFORM"
  /\ status \in [Orders -> Statuses]
  /\ publisher \in [Orders -> Users \cup {NoUser}]
  /\ taker \in [Orders -> Users \cup {NoUser}]
  /\ \A o \in Orders :
       /\ status[o] # "NONE" => publisher[o] \in Users
       /\ status[o] \in {"TAKEN", "DELIVERED", "SETTLED"} => taker[o] \in Users
  /\ reward \in [Orders -> Nat]
  /\ commission \in [Orders -> Nat]
  /\ overdue \in [Orders -> BOOLEAN]
  /\ ops \subseteq {RechargeKey(k) : k \in RequestKeys} \cup {SettleKey(o) : o \in Orders}
  /\ outbox \subseteq {"ORDER_PUBLISHED", "ORDER_TAKEN", "ORDER_TERMINAL"} \X Orders

OpenOrdersOf(u) == {o \in Orders : status[o] \in Open /\ publisher[o] = u}

\* INV-3, escrowMismatch, per publisher: what a user has frozen is exactly the
\* rewards of that user's open orders.  So debitFrozen never comes up short in
\* settle or refund, and one order is never paid from another's escrow.
EscrowMatchesOpenOrders ==
  \A u \in Users : balance[Frozen(u)] = SumFunctionOnSet(reward, OpenOrdersOf(u))

\* The keys of the ledger entries an order must have in its status.
EntriesDue(o) ==
  LET p == publisher[o]
      frozen == {<<"FREEZE", o, Available(p)>>, <<"FREEZE", o, Frozen(p)>>}
  IN  CASE status[o] = "NONE" -> {}
        [] status[o] \in Open -> frozen
        [] status[o] = "CANCELLED" ->
             frozen \cup {<<"CANCEL", o, Frozen(p)>>, <<"CANCEL", o, Available(p)>>}
        [] status[o] = "SETTLED" ->
             frozen \cup {<<"SETTLE", o, Frozen(p)>>, <<"SETTLE", o, Available(taker[o])>>,
                          <<"SETTLE", o, Available(Platform)>>}

OrderEntries(o) == {k \in DOMAIN ledger : k[1] # "RECHARGE" /\ k[2] = o}

\* An order's entries are those its status calls for: frozen once, and then
\* either settled once or refunded once, never both, whichever of deliver, the
\* retry job, cancel, the poller and the scan came first.
EntriesMatchStatus == \A o \in Orders : OrderEntries(o) = EntriesDue(o)

\* The rows a transaction writes next to the order agree with its status: the
\* settlement key is there exactly when the order is settled (so a replayed
\* settle that returns false never hides an unpaid taker), and each lifecycle
\* event is enqueued exactly when its transition happened.
RowsMatchStatus ==
  \A o \in Orders :
    /\ SettleKey(o) \in ops <=> status[o] = "SETTLED"
    /\ <<"ORDER_PUBLISHED", o>> \in outbox <=> status[o] # "NONE"
    /\ <<"ORDER_TAKEN", o>> \in outbox <=> taker[o] # NoUser
    /\ <<"ORDER_TERMINAL", o>> \in outbox <=> status[o] \in {"SETTLED", "CANCELLED"}

\* Where the reward of each order is, read off the ledger alone.
Custody ==
  [o \in Orders |->
     LET posted == {k[1] : k \in OrderEntries(o)}
     IN  IF "SETTLE" \in posted THEN "taker"
         ELSE IF "FREEZE" \in posted /\ "CANCEL" \notin posted THEN "escrow"
         ELSE "publisher"]

Lifecycle == INSTANCE OrderLifecycle WITH custody <- Custody

\* The transactions implement the life of an order as users understand it,
\* with custody of the reward as the ledger tells it.
ImplementsLifecycle == Lifecycle!Spec
===============================================================================
