--------------------------- MODULE PaymentLifecycle ---------------------------
(***************************************************************************)
(* What docs/payment-state-machine.md promises of a provider payment, a    *)
(* refund and a dispute, without requests, keys or tables: money moves     *)
(* when one of them takes its one step, and by that amount.                *)
(***************************************************************************)
EXTENDS Integers, FiniteSets, Functions

CONSTANTS
  Business,      \* the users who pay
  Compensation   \* what a resolved dispute pays

VARIABLES
  money,         \* what each user has, frozen money included
  deposits,      \* the recharges that stand for themselves: key, user and amount
  settled,       \* user and amount of each provider payment that was credited
  refunded,      \* the provider payments that were returned
  resolved       \* the disputes that were compensated

vars == <<money, deposits, settled, refunded, resolved>>

Init ==
  /\ money = [u \in Business |-> 0]
  /\ deposits = {}
  /\ settled = [p \in {} |-> [user |-> "", amount |-> 0]]
  /\ refunded = {}
  /\ resolved = {}

Pays(u, amount) == money' = [money EXCEPT ![u] = @ + amount]

Deposit ==
  /\ \E d \in deposits' \ deposits :
       /\ deposits' = deposits \cup {d}
       /\ d.user \in Business /\ d.amount > 0
       /\ Pays(d.user, d.amount)
  /\ UNCHANGED <<settled, refunded, resolved>>

\* The payment is credited; or a recharge of the same user and amount was made under
\* its key before, and the payment takes it over: that money came once, and the
\* recharge is used up.
Settle ==
  /\ \E p \in DOMAIN settled' \ DOMAIN settled :
       /\ Restrict(settled', DOMAIN settled) = settled
       /\ DOMAIN settled' = DOMAIN settled \cup {p}
       /\ \/ Pays(settled'[p].user, settled'[p].amount) /\ UNCHANGED deposits
          \/ \E d \in deposits :
               /\ d.user = settled'[p].user /\ d.amount = settled'[p].amount
               /\ deposits' = deposits \ {d}
               /\ UNCHANGED money
  /\ UNCHANGED <<refunded, resolved>>

Refund ==
  /\ \E p \in DOMAIN settled \ refunded :
       /\ refunded' = refunded \cup {p}
       /\ money[settled[p].user] >= settled[p].amount
       /\ Pays(settled[p].user, -settled[p].amount)
  /\ UNCHANGED <<deposits, settled, resolved>>

Compensate ==
  /\ \E d \in resolved' \ resolved : resolved' = resolved \cup {d}
  /\ \E u \in Business : Pays(u, Compensation)
  /\ UNCHANGED <<deposits, settled, refunded>>

Next == Deposit \/ Settle \/ Refund \/ Compensate

Spec == Init /\ [][Next]_vars
===============================================================================
