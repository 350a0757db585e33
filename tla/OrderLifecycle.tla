---------------------------- MODULE OrderLifecycle ----------------------------
(***************************************************************************)
(* What an errand order promises, whatever the tables, transactions and    *)
(* caches that carry it: the transitions of the order's status, who took   *)
(* it, and where its reward is.  The reward leaves the publisher when the  *)
(* order is published, stays in escrow while the order is open, and        *)
(* leaves escrow exactly once, to the taker or back to the publisher.      *)
(***************************************************************************)
CONSTANTS Users, Orders, NoUser

VARIABLES
  status,      \* the status of each order, "NONE" before it is published
  publisher,
  taker,
  custody      \* who holds the reward

vars == <<status, publisher, taker, custody>>

Open == {"PUBLISHED", "TAKEN", "DELIVERED"}

Init ==
  /\ status = [o \in Orders |-> "NONE"]
  /\ publisher = [o \in Orders |-> NoUser]
  /\ taker = [o \in Orders |-> NoUser]
  /\ custody = [o \in Orders |-> "publisher"]

\* The order leaves a status in "from"; nothing else decides its next status.
Becomes(o, from, to) ==
  /\ status[o] \in from
  /\ status' = [status EXCEPT ![o] = to]

Publish(o, u) ==
  /\ Becomes(o, {"NONE"}, "PUBLISHED")
  /\ publisher' = [publisher EXCEPT ![o] = u]
  /\ custody' = [custody EXCEPT ![o] = "escrow"]
  /\ UNCHANGED taker

Take(o, u) ==
  /\ u # publisher[o]
  /\ Becomes(o, {"PUBLISHED"}, "TAKEN")
  /\ taker' = [taker EXCEPT ![o] = u]
  /\ UNCHANGED <<publisher, custody>>

Deliver(o) ==
  /\ Becomes(o, {"TAKEN"}, "DELIVERED")
  /\ UNCHANGED <<publisher, taker, custody>>

Settle(o) ==
  /\ Becomes(o, {"DELIVERED"}, "SETTLED")
  /\ custody' = [custody EXCEPT ![o] = "taker"]
  /\ UNCHANGED <<publisher, taker>>

Cancel(o) ==
  /\ Becomes(o, {"PUBLISHED", "TAKEN"}, "CANCELLED")
  /\ custody' = [custody EXCEPT ![o] = "publisher"]
  /\ UNCHANGED <<publisher, taker>>

Next ==
  \E o \in Orders :
    \/ \E u \in Users : Publish(o, u) \/ Take(o, u)
    \/ Deliver(o)
    \/ Settle(o)
    \/ Cancel(o)

Spec == Init /\ [][Next]_vars
===============================================================================
