------------------------------ MODULE SettleRetry ------------------------------
(***************************************************************************)
(* Delivery and payment.  OrderService.deliver commits DELIVERED and       *)
(* settles in a transaction of its own; when that fails, or the instance   *)
(* dies, SettleRetryJob tries again with a growing delay until the order   *)
(* is SETTLED or the job gives up and marks it dead.  The counts are       *)
(* written from stale reads: by the deliver request, which always writes   *)
(* 1, and by every instance that runs the job.                             *)
(***************************************************************************)
EXTENDS Integers, FiniteSets, FiniteSetsExt

CONSTANTS
  Orders,        \* ids: ORDER BY id compares them
  Clients,
  Requests,      \* deliver requests: <<order, client>>
  Jobs,          \* instances that run SettleRetryJob
  MaxRetries,    \* MAX_RETRIES, 12 in the code
  PageLimit,     \* orders per run of the job, 100 in the code
  Faulty         \* TRUE: a settlement may fail for a passing reason

ASSUME SettleRetryAssumption ==
  /\ IsFiniteSet(Orders) /\ Orders \subseteq Nat
  /\ Requests \subseteq Orders \X Clients
  /\ MaxRetries \in Nat \ {0, 1} /\ PageLimit \in Nat \ {0}
  /\ Faulty \in BOOLEAN

VARIABLES
  status,
  count,         \* settlement_retry_count
  dead,          \* settlement_dead
  due,           \* settlement_next_retry_at and delivered_at + 1 s have passed
  role,          \* the taker's role; only a USER is paid
  paid,          \* settlement transactions that moved the money
  request,       \* what each deliver request does next
  answer,        \* its HTTP status
  page,          \* per job, the orders still to settle with the count it read
  failed,        \* jobs whose settle has just thrown
  failures       \* history: settlements of each order that threw, up to MaxRetries

orders == <<status, count, dead, due>>
requests == <<request, answer>>
jobs == <<page, failed>>
vars == <<orders, role, paid, requests, jobs, failures>>

OrderOf(r) == r[1]

TypeOK ==
  /\ status \in [Orders -> {"TAKEN", "DELIVERED", "SETTLED", "CANCELLED"}]
  /\ count \in [Orders -> 0 .. MaxRetries - 1]
  /\ dead \in [Orders -> BOOLEAN] /\ due \in [Orders -> BOOLEAN]
  /\ role \in [Orders -> {"USER", "PLATFORM"}]
  /\ paid \in [Orders -> Nat]
  /\ request \in [Requests -> {"ready", "settle", "record", "done"}]
  /\ answer \in [Requests -> {0, 200, 409, 500}]
  /\ page \in [Jobs -> SUBSET (Orders \X (0 .. MaxRetries - 1))]
  /\ failed \subseteq Jobs
  /\ failures \in [Orders -> 0 .. MaxRetries]

Init ==
  /\ status = [o \in Orders |-> "TAKEN"]
  /\ count = [o \in Orders |-> 0]
  /\ dead = [o \in Orders |-> FALSE]
  /\ due = [o \in Orders |-> FALSE]
  /\ role \in [Orders -> {"USER", "PLATFORM"}]
  /\ paid = [o \in Orders |-> 0]
  /\ request = [r \in Requests |-> "ready"]
  /\ answer = [r \in Requests |-> 0]
  /\ page = [j \in Jobs |-> {}]
  /\ failed = {}
  /\ failures = [o \in Orders |-> 0]

-------------------------------------------------------------------------------
(***************************************************************************)
(* SettlementService.settle, one transaction under the order's row lock.   *)
(***************************************************************************)

\* Neither SETTLED nor answered by the key SETTLE:ORDER:<id>.
Unsettled(o) == status[o] # "SETTLED" /\ paid[o] = 0

\* It returns true and pays, or false for an order that is settled.
Settles(o) ==
  IF Unsettled(o)
  THEN /\ status[o] = "DELIVERED" /\ role[o] = "USER"
       /\ status' = [status EXCEPT ![o] = "SETTLED"]
       /\ paid' = [paid EXCEPT ![o] = @ + 1]
  ELSE UNCHANGED <<status, paid>>

\* It throws: the order cannot be settled, or the database fails.
Throws(o) ==
  /\ \/ Faulty
     \/ Unsettled(o) /\ (status[o] # "DELIVERED" \/ role[o] # "USER")
  /\ failures' = [failures EXCEPT ![o] = IF @ < MaxRetries THEN @ + 1 ELSE @]

\* OrderRepository.recordSettlementFailure.
RecordSettlementFailure(o, retry) ==
  IF status[o] = "DELIVERED"
  THEN /\ count' = [count EXCEPT ![o] = retry]
       /\ due' = [due EXCEPT ![o] = FALSE]
  ELSE UNCHANGED <<count, due>>

\* OrderRepository.markSettlementDead.
MarkSettlementDead(o) ==
  dead' = [dead EXCEPT ![o] = @ \/ status[o] = "DELIVERED"]

-------------------------------------------------------------------------------
(***************************************************************************)
(* OrderService.deliver.                                                   *)
(***************************************************************************)

Answers(r, code) ==
  /\ request' = [request EXCEPT ![r] = "done"]
  /\ answer' = [answer EXCEPT ![r] = code]

\* A bug to catch: deliver trusts a status it read before.
DeliverableStill(o) == status[o] \in {"TAKEN", "DELIVERED"}

Deliverable(o) == status[o] = "TAKEN"

\* markDelivered matches the row, or deliveryFailure answers 409.
DeliverMarks(r) ==
  /\ request[r] = "ready"
  /\ IF Deliverable(OrderOf(r))
     THEN /\ status' = [status EXCEPT ![OrderOf(r)] = "DELIVERED"]
          /\ due' = [due EXCEPT ![OrderOf(r)] = FALSE]
          /\ request' = [request EXCEPT ![r] = "settle"]
          /\ UNCHANGED answer
     ELSE Answers(r, 409) /\ UNCHANGED <<status, due>>
  /\ UNCHANGED <<count, dead, role, paid, jobs, failures>>

DeliverSettles(r) ==
  /\ request[r] = "settle"
  /\ \/ Settles(OrderOf(r)) /\ Answers(r, 200) /\ UNCHANGED failures
     \/ /\ Throws(OrderOf(r))
        /\ request' = [request EXCEPT ![r] = "record"]
        /\ UNCHANGED <<status, paid, answer>>
  /\ UNCHANGED <<count, dead, due, role, jobs>>

DeliverRecords(r) ==
  /\ request[r] = "record"
  /\ RecordSettlementFailure(OrderOf(r), 1)
  /\ Answers(r, 200)
  /\ UNCHANGED <<status, dead, role, paid, jobs, failures>>

\* The instance dies, or the connection to the database does.
DeliverAborts(r) ==
  /\ Faulty
  /\ request[r] # "done"
  /\ Answers(r, 500)
  /\ UNCHANGED <<orders, role, paid, jobs, failures>>

\* timeoutDeliver, or the publisher's cancel.
Cancel(o) ==
  /\ status[o] = "TAKEN"
  /\ status' = [status EXCEPT ![o] = "CANCELLED"]
  /\ UNCHANGED <<count, dead, due, role, paid, requests, jobs, failures>>

-------------------------------------------------------------------------------
(***************************************************************************)
(* SettleRetryJob.retry.                                                   *)
(***************************************************************************)

\* settlement_next_retry_at <= NOW(3) and delivered_at < NOW(3) - 1 s.
DelayPasses(o) ==
  /\ status[o] = "DELIVERED" /\ ~due[o]
  /\ due' = [due EXCEPT ![o] = TRUE]
  /\ UNCHANGED <<status, count, dead, role, paid, requests, jobs, failures>>

NextRetry(read) == read + 1

\* A bug to catch: dead orders keep their place in the page.
DeliveredForRetryWithDead ==
  LET retryable == {o \in Orders : status[o] = "DELIVERED" /\ due[o]}
  IN {o \in retryable : Cardinality({x \in retryable : x < o}) < PageLimit
                          /\ ~dead[o]}

\* OrderRepository.deliveredForRetry: ORDER BY id LIMIT.
DeliveredForRetry ==
  LET retryable == {o \in Orders : /\ status[o] = "DELIVERED" /\ ~dead[o]
                                   /\ count[o] < MaxRetries /\ due[o]}
  IN {o \in retryable : Cardinality({x \in retryable : x < o}) < PageLimit}

JobReads(j) ==
  /\ page[j] = {}
  /\ DeliveredForRetry # {}
  /\ page' = [page EXCEPT ![j] = {<<o, count[o]>> : o \in DeliveredForRetry}]
  /\ UNCHANGED <<orders, role, paid, requests, failed, failures>>

\* forEach: the order of the page with the lowest id.
Current(j) == CHOOSE e \in page[j] : \A x \in page[j] : e[1] <= x[1]

Handled(j) == page' = [page EXCEPT ![j] = @ \ {Current(j)}]

JobSettles(j) ==
  /\ page[j] # {} /\ j \notin failed
  /\ \/ Settles(Current(j)[1]) /\ Handled(j) /\ UNCHANGED <<failed, failures>>
     \/ /\ Throws(Current(j)[1])
        /\ failed' = failed \cup {j}
        /\ UNCHANGED <<status, paid, page>>
  /\ UNCHANGED <<count, dead, due, role, requests>>

\* A bug to catch: it gives up one attempt too early.
ExhaustedEarly(retry) == retry + 1 >= MaxRetries

Exhausted(retry) == retry >= MaxRetries

JobRecords(j) ==
  /\ j \in failed
  /\ failed' = failed \ {j}
  /\ Handled(j)
  /\ LET o == Current(j)[1]
         retry == NextRetry(Current(j)[2])
     IN IF Exhausted(retry)
        THEN MarkSettlementDead(o) /\ UNCHANGED <<count, due>>
        ELSE RecordSettlementFailure(o, retry) /\ UNCHANGED dead
  /\ UNCHANGED <<status, role, paid, requests, failures>>

\* The instance restarts, or the catch block itself throws and forEach ends.
JobDies(j) ==
  /\ Faulty
  /\ page[j] # {}
  /\ page' = [page EXCEPT ![j] = {}]
  /\ failed' = failed \ {j}
  /\ UNCHANGED <<orders, role, paid, requests, failures>>

-------------------------------------------------------------------------------
RequestStep(r) == DeliverMarks(r) \/ DeliverSettles(r) \/ DeliverRecords(r) \/ DeliverAborts(r)

JobStep(j) == JobReads(j) \/ JobSettles(j) \/ JobRecords(j) \/ JobDies(j)

\* Roles change while orders are open: AdminBootstrap, or an operator.
RoleChanges(o) ==
  /\ role' = [role EXCEPT ![o] = IF @ = "USER" THEN "PLATFORM" ELSE "USER"]
  /\ UNCHANGED <<orders, paid, requests, jobs, failures>>

Next ==
  \/ \E r \in Requests : RequestStep(r)
  \/ \E j \in Jobs : JobStep(j)
  \/ \E o \in Orders : Cancel(o) \/ DelayPasses(o) \/ RoleChanges(o)

Spec == Init /\ [][Next]_vars

\* Time passes, and the scheduler runs the job on every instance; an instance
\* may die in any step, but not each time in the same one.
Fairness ==
  /\ \A o \in Orders : WF_vars(DelayPasses(o))
  /\ \A j \in Jobs :
       /\ WF_vars(JobReads(j))
       /\ SF_vars(JobSettles(j))
       /\ SF_vars(JobRecords(j))

LiveSpec == Spec /\ Fairness

-------------------------------------------------------------------------------
\* However many requests deliver the order at once, one of them wins, and a
\* settled order was paid exactly once, whoever settled it (deliver and
\* SettlementService.settle).
DeliveredOncePaidOnce ==
  \A o \in Orders :
    /\ Cardinality({r \in Requests : OrderOf(r) = o /\ answer[r] = 200}) <= 1
    /\ paid[o] = IF status[o] = "SETTLED" THEN 1 ELSE 0

\* No order is given up before MAX_RETRIES of its settlements have failed:
\* stale writes of the count can only postpone that (SettleRetryJob.retry,
\* deliver's catch block).
DeadOnlyWhenExhausted ==
  \A o \in Orders : count[o] <= failures[o] /\ (dead[o] => failures[o] = MaxRetries)

\* A delivered order is settled or given up, after a crash between the two
\* transactions of deliver as well, however the counts are overwritten and
\* whatever other orders fail in front of it (SettleRetryJob.retry).
DeliveredIsResolved ==
  \A o \in Orders : status[o] = "DELIVERED" ~> status[o] = "SETTLED" \/ dead[o]
===============================================================================
