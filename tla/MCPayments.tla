------------------------------ MODULE MCPayments ------------------------------
EXTENDS Payments, TLC

CONSTANTS mint, platform, alice, bob, r1, r2

Callback(event, pid, user, amount) ==
  [op |-> "callback", event |-> event, pid |-> pid, user |-> user, amount |-> amount, signed |-> TRUE]

\* One provider payment under two events, and an event that comes back with
\* another amount.
Callbacks == {Callback("e1", "p1", alice, 2), Callback("e2", "p1", alice, 2), Callback("e1", "p1", alice, 3)}

\* A key of the client's own, and the key of an event, with the amount of the callback
\* and with another one.
RechargeCall(key, amount) == [op |-> "recharge", key |-> key, user |-> alice, amount |-> amount]
Recharges ==
  {RechargeCall(<<"CLIENT", "k">>, 1), RechargeCall(PaymentKey("e1"), 1), RechargeCall(PaymentKey("e1"), 2)}

Refunds == {[op |-> "refund", payment |-> 1, key |-> k, user |-> alice, amount |-> 2] : k \in {"f1", "f2"}}

Disputes == {[op |-> "dispute", payment |-> 1, user |-> alice]}

Compensations == {[op |-> "compensate", dispute |-> 1, key |-> k] : k \in {"c1", "c2"}}

MCCalls == Callbacks \cup Recharges \cup Refunds \cup Disputes \cup Compensations
===============================================================================
