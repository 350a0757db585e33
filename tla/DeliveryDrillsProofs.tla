------------------------- MODULE DeliveryDrillsProofs -------------------------
(***************************************************************************)
(* Delivery and its retries, for any number of orders, requests, jobs and  *)
(* retries, with the drills or without: one delivery wins, a settled order *)
(* was paid once, an order is given up only when its settlements have      *)
(* failed often enough, and a drill that passes has seen what it reports.  *)
(*                                                                         *)
(* The count of an order is written from stale reads.  What bounds it is   *)
(* the history of its failures: every copy of the count, in the row, in a  *)
(* job's page or in a deliver request that is about to write 1, is at most *)
(* the number of failures, and a job that has just seen its settlement     *)
(* throw holds a copy that is strictly smaller.                            *)
(***************************************************************************)
EXTENDS DeliveryDrills, FiniteSetTheorems, WellFoundedInduction, TLAPS

\* The request is the one whose update matched the row.
Won(r) == request[r] \in {"settle", "record"} \/ answer[r] = 200

OneDelivery ==
  /\ \A r \in Requests : Won(r) => status[OrderOf(r)] \in {"DELIVERED", "SETTLED"}
  /\ \A r, s \in Requests : Won(r) /\ Won(s) /\ OrderOf(r) = OrderOf(s) => r = s

PaidWhenSettled == \A o \in Orders : paid[o] = IF status[o] = "SETTLED" THEN 1 ELSE 0

CountsAreFailures ==
  /\ DeadOnlyWhenExhausted
  /\ \A r \in Requests : request[r] = "record" => failures[OrderOf(r)] >= 1
  /\ \A j \in Jobs : \A e \in page[j] : e[2] <= failures[e[1]]
  /\ \A j \in failed : page[j] # {} /\ Current(j)[2] < failures[Current(j)[1]]

SInv == TypeOK /\ OneDelivery /\ PaidWhenSettled /\ CountsAreFailures

-------------------------------------------------------------------------------
\* Every non-empty set of naturals has a least element.
LEMMA LeastNat ==
  ASSUME NEW T \in SUBSET Nat, T # {}
  PROVE  \E n \in T : \A m \in T : n <= m
<1> DEFINE R == OpToRel(<, Nat)
<1>1. IsWellFoundedOn(R, Nat)
  BY NatLessThanWellFounded
<1>2. \A x, y \in Nat : y < x => <<y, x>> \in R
  BY DEF OpToRel
<1> HIDE DEF R
<1>3. PICK n \in T : \A y \in T : ~ (<<y, n>> \in R)
  BY <1>1, WFMin, Zenon
<1>4. \A m \in T : ~ (m < n)
  BY <1>2, <1>3
<1>5. \A m \in T : n <= m
  BY <1>4
<1> QED BY <1>5

\* A page with orders in it has one with the lowest id.
LEMMA CurrentInPage ==
  ASSUME TypeOK, NEW j \in Jobs, page[j] # {}
  PROVE  /\ Current(j) \in page[j]
         /\ Current(j)[1] \in Orders
         /\ Current(j)[2] \in 0 .. MaxRetries - 1
<1> DEFINE ids == {e[1] : e \in page[j]}
<1>1. page[j] \subseteq Orders \X (0 .. MaxRetries - 1)
  BY DEF TypeOK
<1>2. ids \in SUBSET Nat /\ ids # {}
  BY <1>1, SettleRetryAssumption
<1>3. PICK n \in ids : \A m \in ids : n <= m
  <2> HIDE DEF ids
  <2> QED BY <1>2, LeastNat
<1>4. PICK e \in page[j] : e[1] = n
  BY <1>3
<1>5. \A x \in page[j] : e[1] <= x[1]
  BY <1>3, <1>4
<1>6. Current(j) \in page[j]
  BY <1>4, <1>5 DEF Current
<1> QED BY <1>1, <1>6

\* The order of a request is an order.
LEMMA OrderOfType ==
  ASSUME NEW r \in Requests
  PROVE  OrderOf(r) \in Orders
BY SettleRetryAssumption DEF OrderOf

\* What the steps need of the bound on the retries.
LEMMA MaxRetriesType == MaxRetries \in Nat /\ 1 \in 0 .. MaxRetries - 1
BY SettleRetryAssumption

LEMMA InitSInv ==
  ASSUME Init
  PROVE  SInv
<1> USE SettleRetryAssumption
<1>1. TypeOK
  BY DEF Init, TypeOK
<1>2. OneDelivery
  BY DEF Init, OneDelivery, Won
<1>3. PaidWhenSettled
  BY OrderOfType DEF Init, PaidWhenSettled
<1>4. CountsAreFailures
  BY OrderOfType DEF Init, CountsAreFailures, DeadOnlyWhenExhausted
<1> QED BY <1>1, <1>2, <1>3, <1>4 DEF SInv

-------------------------------------------------------------------------------
\* The provers need a hand with functions to BOOLEAN.
LEMMA BooleanUpdate ==
  ASSUME NEW S, NEW f \in [S -> BOOLEAN], NEW x \in S, NEW b \in BOOLEAN
  PROVE  [f EXCEPT ![x] = b] \in [S -> BOOLEAN]
OBVIOUS

\* settle pays an order once, and moves it from DELIVERED to SETTLED or not at all.
LEMMA SettlesOnce ==
  ASSUME TypeOK, PaidWhenSettled, NEW o \in Orders, Settles(o)
  PROVE  /\ status' \in [Orders -> {"TAKEN", "DELIVERED", "SETTLED", "CANCELLED"}]
         /\ paid' \in [Orders -> Nat]
         /\ \A p \in Orders : \/ status'[p] = status[p]
                              \/ status[p] = "DELIVERED" /\ status'[p] = "SETTLED"
         /\ PaidWhenSettled'
<1>1. CASE Unsettled(o)
  <2>1. /\ status[o] = "DELIVERED"
        /\ status' = [status EXCEPT ![o] = "SETTLED"]
        /\ paid' = [paid EXCEPT ![o] = @ + 1]
    BY <1>1 DEF Settles
  <2> QED BY <2>1 DEF TypeOK, PaidWhenSettled
<1>2. CASE ~ Unsettled(o)
  BY <1>2 DEF Settles, TypeOK, PaidWhenSettled
<1> QED BY <1>1, <1>2

\* A settlement that throws leaves the order with more failures than any count.
LEMMA ThrowsCounts ==
  ASSUME TypeOK, NEW o \in Orders, Throws(o)
  PROVE  /\ failures' \in [Orders -> 0 .. MaxRetries]
         /\ \A p \in Orders : failures[p] <= failures'[p]
         /\ \A n \in 0 .. MaxRetries - 1 : n <= failures[o] => n < failures'[o]
BY SettleRetryAssumption DEF TypeOK, Throws

\* An order that was delivered stays so, or is settled, and no new winner appears.
LEMMA OneDeliveryKept ==
  ASSUME OneDelivery,
         \A r \in Requests : Won(r)' => Won(r),
         \A o \in Orders : status[o] \in {"DELIVERED", "SETTLED"} => status'[o] \in {"DELIVERED", "SETTLED"}
  PROVE  OneDelivery'
BY OrderOfType DEF OneDelivery

\* The counts stay where they are, and the failures only grow.
LEMMA CountsKept ==
  ASSUME TypeOK, TypeOK', CountsAreFailures,
         UNCHANGED <<count, dead, page, failed>>,
         \A o \in Orders : failures[o] <= failures'[o],
         \A r \in Requests : request'[r] = "record" =>
           request[r] = "record" \/ failures'[OrderOf(r)] >= 1
  PROVE  CountsAreFailures'
<1> USE MaxRetriesType
<1>1. \A o \in Orders : /\ count[o] \in Nat /\ failures[o] \in 0 .. MaxRetries
                        /\ failures'[o] \in 0 .. MaxRetries
  BY DEF TypeOK
<1>2. DeadOnlyWhenExhausted'
  <2> SUFFICES ASSUME NEW o \in Orders
               PROVE  count[o] <= failures'[o] /\ (dead[o] => failures'[o] = MaxRetries)
    BY DEF DeadOnlyWhenExhausted
  <2>1. count[o] <= failures[o] /\ (dead[o] => failures[o] = MaxRetries)
    BY DEF CountsAreFailures, DeadOnlyWhenExhausted
  <2> QED BY <1>1, <2>1
<1>3. \A r \in Requests : request'[r] = "record" => failures'[OrderOf(r)] >= 1
  BY <1>1, OrderOfType DEF CountsAreFailures
<1>4. ASSUME NEW j \in Jobs, NEW e \in page[j]
      PROVE  e[2] <= failures'[e[1]]
  <2>1. e[1] \in Orders /\ e[2] \in 0 .. MaxRetries - 1
    BY DEF TypeOK
  <2>2. e[2] <= failures[e[1]]
    BY DEF CountsAreFailures
  <2> QED BY <1>1, <2>1, <2>2
<1>5. ASSUME NEW j \in failed
      PROVE  page[j] # {} /\ Current(j)[2] < failures'[Current(j)[1]]
  <2>1. j \in Jobs
    BY DEF TypeOK
  <2>2. page[j] # {} /\ Current(j)[2] < failures[Current(j)[1]]
    BY DEF CountsAreFailures
  <2>3. Current(j)[1] \in Orders /\ Current(j)[2] \in 0 .. MaxRetries - 1
    BY <2>1, <2>2, CurrentInPage
  <2> QED BY <1>1, <2>2, <2>3
<1>6. \A j \in Jobs : Current(j)' = Current(j)
  BY DEF Current
<1>7. failed' \subseteq Jobs
  BY DEF TypeOK
<1> QED BY <1>2, <1>3, <1>4, <1>5, <1>6, <1>7 DEF CountsAreFailures

-------------------------------------------------------------------------------
LEMMA DeliverMarksStep ==
  ASSUME SInv, NEW r \in Requests, DeliverMarks(r)
  PROVE  SInv'
<1> USE SettleRetryAssumption, OrderOfType DEF SInv
<1>1. TypeOK'
  <2>1. OrderOf(r) \in Orders
    OBVIOUS
  <2>2. CASE Deliverable(OrderOf(r))
    <3>1. status' \in [Orders -> {"TAKEN", "DELIVERED", "SETTLED", "CANCELLED"}]
      BY <2>1, <2>2 DEF TypeOK, DeliverMarks
    <3>2. due' \in [Orders -> BOOLEAN]
      <4>1. due' = [due EXCEPT ![OrderOf(r)] = FALSE]
        BY <2>2 DEF DeliverMarks
      <4>2. due \in [Orders -> BOOLEAN]
        BY DEF TypeOK
      <4> QED BY <2>1, <4>1, <4>2, BooleanUpdate
    <3>3. request' \in [Requests -> {"ready", "settle", "record", "done"}]
      BY <2>1, <2>2 DEF TypeOK, DeliverMarks
    <3>4. UNCHANGED <<count, dead, role, paid, answer, page, failed, failures>>
      BY <2>1, <2>2 DEF TypeOK, DeliverMarks, jobs
    <3> QED BY <3>1, <3>2, <3>3, <3>4 DEF TypeOK
  <2>3. CASE ~ Deliverable(OrderOf(r))
    BY <2>3 DEF TypeOK, DeliverMarks, Answers, jobs
  <2> QED BY <2>2, <2>3
<1>2. OneDelivery'
  <2>1. CASE Deliverable(OrderOf(r))
    <3>1. \A s \in Requests : OrderOf(s) = OrderOf(r) => ~ Won(s)
      BY <2>1 DEF OneDelivery, Deliverable
    <3>2. \A s \in Requests : s # r => Won(s)' = Won(s)
      BY <2>1 DEF DeliverMarks, Won, TypeOK
    <3>3. \A o \in Orders : o # OrderOf(r) => status'[o] = status[o]
      BY <2>1 DEF DeliverMarks, TypeOK
    <3>4. status'[OrderOf(r)] = "DELIVERED"
      BY <2>1 DEF DeliverMarks, TypeOK
    <3> QED BY <3>1, <3>2, <3>3, <3>4 DEF OneDelivery
  <2>2. CASE ~ Deliverable(OrderOf(r))
    <3>1. \A s \in Requests : Won(s)' => Won(s)
      BY <2>2 DEF DeliverMarks, Answers, Won, TypeOK
    <3>2. UNCHANGED status
      BY <2>2 DEF DeliverMarks
    <3> QED BY <3>1, <3>2, OneDeliveryKept
  <2> QED BY <2>1, <2>2
<1>3. PaidWhenSettled'
  BY DEF PaidWhenSettled, DeliverMarks, TypeOK, Deliverable
<1>4. CountsAreFailures'
  <2>1. UNCHANGED <<count, dead, page, failed, failures>>
    BY DEF DeliverMarks, jobs
  <2>2. \A s \in Requests : request'[s] = "record" => request[s] = "record"
    BY DEF DeliverMarks, Answers, TypeOK
  <2> QED BY <1>1, <2>1, <2>2, CountsKept DEF TypeOK
<1> QED BY <1>1, <1>2, <1>3, <1>4
LEMMA DeliverSettlesStep ==
  ASSUME SInv, NEW r \in Requests, DeliverSettles(r)
  PROVE  SInv'
<1> USE OrderOfType DEF SInv
<1>1. OrderOf(r) \in Orders /\ request[r] = "settle" /\ UNCHANGED <<count, dead, due, role, page, failed>>
  BY DEF DeliverSettles, jobs
<1>2. CASE Settles(OrderOf(r)) /\ Answers(r, 200) /\ UNCHANGED failures
  <2>1. TypeOK'
    BY <1>1, <1>2, SettlesOnce DEF TypeOK, Answers
  <2>2. \A s \in Requests : Won(s)' => Won(s)
    BY <1>1, <1>2 DEF Won, Answers, TypeOK
  <2>3. OneDelivery'
    BY <1>1, <1>2, <2>2, SettlesOnce, OneDeliveryKept
  <2>4. \A s \in Requests : request'[s] = "record" => request[s] = "record"
    BY <1>2 DEF Answers, TypeOK
  <2>5. CountsAreFailures'
    BY <1>1, <1>2, <2>1, <2>4, CountsKept DEF TypeOK
  <2> QED BY <1>1, <1>2, <2>1, <2>3, <2>5, SettlesOnce
<1>3. CASE /\ Throws(OrderOf(r))
           /\ request' = [request EXCEPT ![r] = "record"]
           /\ UNCHANGED <<status, paid, answer>>
  <2>1. TypeOK'
    BY <1>1, <1>3, ThrowsCounts DEF TypeOK
  <2>2. \A s \in Requests : Won(s)' => Won(s)
    BY <1>1, <1>3 DEF Won, TypeOK
  <2>3. OneDelivery'
    BY <1>3, <2>2, OneDeliveryKept
  <2>4. failures'[OrderOf(r)] >= 1
    <3>1. 0 \in 0 .. MaxRetries - 1 /\ 0 <= failures[OrderOf(r)]
      BY <1>1, MaxRetriesType DEF TypeOK
    <3>2. failures' \in [Orders -> 0 .. MaxRetries] /\ 0 < failures'[OrderOf(r)]
      BY <1>1, <1>3, <3>1, ThrowsCounts
    <3> QED BY <1>1, <3>2, MaxRetriesType
  <2>5. CountsAreFailures'
    BY <1>1, <1>3, <2>1, <2>4, ThrowsCounts, CountsKept DEF TypeOK
  <2> QED BY <1>3, <2>1, <2>3, <2>5 DEF PaidWhenSettled
<1> QED BY <1>2, <1>3 DEF DeliverSettles

\* RecordSettlementFailure, with a count that the failures cover.
LEMMA RecordTypes ==
  ASSUME TypeOK, NEW o \in Orders, NEW n \in 0 .. MaxRetries - 1, RecordSettlementFailure(o, n)
  PROVE  /\ count' \in [Orders -> 0 .. MaxRetries - 1]
         /\ due' \in [Orders -> BOOLEAN]
         /\ \A p \in Orders : count'[p] = count[p] \/ (p = o /\ count'[p] = n)
<1>1. CASE status[o] = "DELIVERED"
  <2>1. count' = [count EXCEPT ![o] = n] /\ due' = [due EXCEPT ![o] = FALSE]
    BY <1>1 DEF RecordSettlementFailure
  <2>2. count \in [Orders -> 0 .. MaxRetries - 1] /\ due \in [Orders -> BOOLEAN]
    BY DEF TypeOK
  <2>3. due' \in [Orders -> BOOLEAN]
    BY <2>1, <2>2, BooleanUpdate
  <2> QED BY <2>1, <2>2, <2>3
<1>2. CASE status[o] # "DELIVERED"
  BY <1>2 DEF RecordSettlementFailure, TypeOK
<1> QED BY <1>1, <1>2

LEMMA DeliverRecordsStep ==
  ASSUME SInv, NEW r \in Requests, DeliverRecords(r)
  PROVE  SInv'
<1> USE OrderOfType, SettleRetryAssumption DEF SInv
<1>1. /\ OrderOf(r) \in Orders /\ 1 \in 0 .. MaxRetries - 1
      /\ RecordSettlementFailure(OrderOf(r), 1)
      /\ request[r] = "record" /\ Answers(r, 200)
      /\ UNCHANGED <<status, dead, role, paid, page, failed, failures>>
  BY DEF DeliverRecords, jobs
<1>2. TypeOK'
  <2>1. TypeOK
    OBVIOUS
  <2>2. count' \in [Orders -> 0 .. MaxRetries - 1] /\ due' \in [Orders -> BOOLEAN]
    BY <1>1, <2>1, RecordTypes
  <2>3. /\ request' \in [Requests -> {"ready", "settle", "record", "done"}]
        /\ answer' \in [Requests -> {0, 200, 409, 500}]
    BY <1>1, <2>1 DEF TypeOK, Answers
  <2> HIDE DEF SInv
  <2> QED BY <1>1, <2>1, <2>2, <2>3 DEF TypeOK
<1>3. \A s \in Requests : Won(s)' => Won(s)
  BY <1>1 DEF Won, Answers, TypeOK
<1>4. OneDelivery'
  BY <1>1, <1>3, OneDeliveryKept
<1>5. PaidWhenSettled'
  BY <1>1 DEF PaidWhenSettled
<1>6. failures[OrderOf(r)] >= 1
  BY <1>1 DEF CountsAreFailures
<1>7. DeadOnlyWhenExhausted'
  <2>1. TypeOK /\ DeadOnlyWhenExhausted
    BY DEF CountsAreFailures
  <2>2. \A p \in Orders : count'[p] = count[p] \/ (p = OrderOf(r) /\ count'[p] = 1)
    BY <1>1, <2>1, RecordTypes
  <2>3. UNCHANGED <<dead, failures>>
    BY <1>1
  <2> HIDE DEF SInv
  <2> QED BY <1>6, <2>1, <2>2, <2>3 DEF DeadOnlyWhenExhausted
<1>8. \A s \in Requests : request'[s] = "record" => request[s] = "record"
  BY <1>1 DEF Answers, TypeOK
<1>9. \A j \in Jobs : Current(j)' = Current(j)
  BY <1>1 DEF Current
<1>10. CountsAreFailures'
  BY <1>1, <1>7, <1>8, <1>9 DEF CountsAreFailures, TypeOK
<1> QED BY <1>2, <1>4, <1>5, <1>10

LEMMA DeliverAbortsStep ==
  ASSUME SInv, NEW r \in Requests, DeliverAborts(r)
  PROVE  SInv'
<1> USE DEF SInv
<1>1. Answers(r, 500) /\ UNCHANGED <<status, count, dead, due, role, paid, page, failed, failures>>
  BY DEF DeliverAborts, orders, jobs
<1>2. TypeOK'
  BY <1>1 DEF TypeOK, Answers
<1>3. \A s \in Requests : Won(s)' => Won(s)
  BY <1>1 DEF Won, Answers, TypeOK
<1>4. \A s \in Requests : request'[s] = "record" => request[s] = "record"
  BY <1>1 DEF Answers, TypeOK
<1>5. CountsAreFailures'
  BY <1>1, <1>2, <1>4, OrderOfType, CountsKept DEF TypeOK
<1> QED BY <1>1, <1>2, <1>3, <1>5, OneDeliveryKept DEF PaidWhenSettled
LEMMA CancelStep ==
  ASSUME SInv, NEW o \in Orders, Cancel(o)
  PROVE  SInv'
<1> USE DEF SInv
<1>1. /\ status[o] = "TAKEN" /\ status' = [status EXCEPT ![o] = "CANCELLED"]
      /\ UNCHANGED <<count, dead, due, role, paid, request, answer, page, failed, failures>>
  BY DEF Cancel, requests, jobs
<1>2. TypeOK'
  BY <1>1 DEF TypeOK
<1>3. OneDelivery'
  BY <1>1, OneDeliveryKept DEF Won, TypeOK
<1>4. PaidWhenSettled'
  BY <1>1 DEF PaidWhenSettled, TypeOK
<1>5. CountsAreFailures'
  BY <1>1, <1>2, CountsKept DEF TypeOK
<1> QED BY <1>2, <1>3, <1>4, <1>5

\* The order's due date or the taker's role changes, and nothing else.
LEMMA DueOrRoleStep ==
  ASSUME SInv, due' \in [Orders -> BOOLEAN], role' \in [Orders -> {"USER", "PLATFORM"}],
         UNCHANGED <<status, count, dead, paid, requests, jobs, failures>>
  PROVE  SInv'
<1> USE DEF SInv, requests, jobs
<1>1. TypeOK'
  BY DEF TypeOK
<1>2. OneDelivery'
  BY OneDeliveryKept DEF Won
<1>3. CountsAreFailures'
  BY <1>1, CountsKept DEF TypeOK
<1> QED BY <1>1, <1>2, <1>3 DEF PaidWhenSettled

LEMMA DelayPassesStep ==
  ASSUME SInv, NEW o \in Orders, DelayPasses(o)
  PROVE  SInv'
<1>1. due' = [due EXCEPT ![o] = TRUE] /\ due \in [Orders -> BOOLEAN]
  BY DEF DelayPasses, SInv, TypeOK
<1>2. due' \in [Orders -> BOOLEAN]
  BY <1>1, BooleanUpdate
<1> QED BY <1>2, DueOrRoleStep DEF DelayPasses, SInv, TypeOK

LEMMA RoleChangesStep ==
  ASSUME SInv, NEW o \in Orders, RoleChanges(o)
  PROVE  SInv'
<1>1. role' \in [Orders -> {"USER", "PLATFORM"}]
  BY DEF RoleChanges, SInv, TypeOK
<1> QED BY <1>1, DueOrRoleStep DEF RoleChanges, orders, SInv, TypeOK

LEMMA JobReadsStep ==
  ASSUME SInv, NEW j \in Jobs, JobReads(j)
  PROVE  SInv'
<1> USE DEF SInv
<1>1. /\ page[j] = {}
      /\ page' = [page EXCEPT ![j] = {<<o, count[o]>> : o \in DeliveredForRetry}]
      /\ UNCHANGED <<status, count, dead, due, role, paid, request, answer, failed, failures>>
  BY DEF JobReads, orders, requests
<1>2. DeliveredForRetry \subseteq Orders
  BY DEF DeliveredForRetry
<1>3. TypeOK'
  <2>1. page' \in [Jobs -> SUBSET (Orders \X (0 .. MaxRetries - 1))]
    BY <1>1, <1>2 DEF TypeOK
  <2> QED BY <1>1, <2>1 DEF TypeOK
<1>4. OneDelivery'
  BY <1>1, OneDeliveryKept DEF Won
<1>5. j \notin failed
  BY <1>1 DEF CountsAreFailures
<1>6. \A i \in Jobs : i # j => page'[i] = page[i] /\ Current(i)' = Current(i)
  BY <1>1 DEF TypeOK, Current
<1>7. \A e \in page'[j] : e[2] <= failures[e[1]]
  BY <1>1, <1>2 DEF TypeOK, CountsAreFailures, DeadOnlyWhenExhausted
<1>8. CountsAreFailures'
  BY <1>1, <1>5, <1>6, <1>7 DEF CountsAreFailures, DeadOnlyWhenExhausted, TypeOK
<1> QED BY <1>1, <1>3, <1>4, <1>8 DEF PaidWhenSettled

\* A job that drops an order from its page, or all of them, is not failed any more.
LEMMA PageShrinks ==
  ASSUME SInv, NEW j \in Jobs, NEW q \in SUBSET page[j],
         page' = [page EXCEPT ![j] = q], failed' = failed \ {j}, UNCHANGED failures
  PROVE  /\ page' \in [Jobs -> SUBSET (Orders \X (0 .. MaxRetries - 1))]
         /\ failed' \subseteq Jobs
         /\ \A i \in Jobs : \A e \in page'[i] : e[2] <= failures'[e[1]]
         /\ \A i \in failed' : /\ page'[i] # {}
                               /\ Current(i)'[2] < failures'[Current(i)'[1]]
<1> USE DEF SInv
<1>1. \A i \in Jobs : i # j => page'[i] = page[i] /\ Current(i)' = Current(i)
  BY DEF TypeOK, Current
<1>2. page'[j] = q
  BY DEF TypeOK
<1>3. page' \in [Jobs -> SUBSET (Orders \X (0 .. MaxRetries - 1))] /\ failed' \subseteq Jobs
  BY DEF TypeOK
<1>4. \A i \in Jobs : \A e \in page'[i] : e[2] <= failures[e[1]]
  BY <1>1, <1>2 DEF CountsAreFailures
<1>5. \A i \in failed' : page'[i] # {} /\ Current(i)'[2] < failures[Current(i)'[1]]
  BY <1>1, <1>3 DEF CountsAreFailures
<1> QED BY <1>3, <1>4, <1>5
LEMMA JobSettlesStep ==
  ASSUME SInv, NEW j \in Jobs, JobSettles(j)
  PROVE  SInv'
<1> USE DEF SInv
<1> DEFINE o == Current(j)[1]
<1>1. /\ page[j] # {} /\ j \notin failed
      /\ UNCHANGED <<count, dead, due, role, request, answer>>
  BY DEF JobSettles, requests
<1>2. Current(j) \in page[j] /\ o \in Orders /\ Current(j)[2] \in 0 .. MaxRetries - 1
  BY <1>1, CurrentInPage
<1>3. CASE Settles(o) /\ Handled(j) /\ UNCHANGED <<failed, failures>>
  <2>1. /\ page' = [page EXCEPT ![j] = page[j] \ {Current(j)}]
        /\ failed' = failed \ {j}
    BY <1>1, <1>3 DEF Handled, TypeOK
  <2>2. /\ page' \in [Jobs -> SUBSET (Orders \X (0 .. MaxRetries - 1))]
        /\ failed' \subseteq Jobs
        /\ \A i \in Jobs : \A e \in page'[i] : e[2] <= failures'[e[1]]
        /\ \A i \in failed' : /\ page'[i] # {}
                              /\ Current(i)'[2] < failures'[Current(i)'[1]]
    <3>1. page[j] \ {Current(j)} \in SUBSET page[j]
      OBVIOUS
    <3> QED BY <1>3, <2>1, <3>1, PageShrinks
  <2>3. TypeOK'
    <3> HIDE DEF o
    <3> QED BY <1>1, <1>2, <1>3, <2>2, SettlesOnce DEF TypeOK
  <2>4. OneDelivery'
    <3> HIDE DEF o
    <3> QED BY <1>1, <1>2, <1>3, SettlesOnce, OneDeliveryKept DEF Won
  <2>5. CountsAreFailures'
    BY <1>1, <1>3, <2>2 DEF CountsAreFailures, DeadOnlyWhenExhausted
  <2>6. PaidWhenSettled'
    <3> HIDE DEF o
    <3> QED BY <1>2, <1>3, SettlesOnce
  <2> QED BY <2>3, <2>4, <2>5, <2>6
<1>4. CASE /\ Throws(o)
           /\ failed' = failed \cup {j}
           /\ UNCHANGED <<status, paid, page>>
  <2>1. /\ failures' \in [Orders -> 0 .. MaxRetries]
        /\ \A p \in Orders : failures[p] <= failures'[p]
        /\ \A n \in 0 .. MaxRetries - 1 : n <= failures[o] => n < failures'[o]
    <3> HIDE DEF o
    <3> QED BY <1>2, <1>4, ThrowsCounts
  <2>2. TypeOK'
    BY <1>1, <1>4, <2>1 DEF TypeOK
  <2>3. OneDelivery'
    BY <1>1, <1>4, OneDeliveryKept DEF Won
  <2>4. Current(j)[2] < failures'[o]
    BY <1>1, <1>2, <2>1 DEF CountsAreFailures
  <2>5. \A i \in Jobs : Current(i)' = Current(i)
    BY <1>4 DEF Current
  <2>6. failures \in [Orders -> 0 .. MaxRetries] /\ MaxRetries \in Nat
    BY MaxRetriesType DEF TypeOK
  <2>7. DeadOnlyWhenExhausted'
    <3> SUFFICES ASSUME NEW x \in Orders
                 PROVE  count[x] <= failures'[x] /\ (dead[x] => failures'[x] = MaxRetries)
      BY <1>1 DEF DeadOnlyWhenExhausted
    <3>1. count[x] <= failures[x] /\ (dead[x] => failures[x] = MaxRetries)
      BY DEF CountsAreFailures, DeadOnlyWhenExhausted
    <3>2. count[x] \in Nat /\ failures[x] \in 0 .. MaxRetries /\ failures'[x] \in 0 .. MaxRetries
      BY <2>1, <2>6 DEF TypeOK
    <3> QED BY <2>1, <2>6, <3>1, <3>2
  <2>8. \A r \in Requests : request'[r] = "record" => failures'[OrderOf(r)] >= 1
    BY <1>1, <2>1, <2>6, OrderOfType DEF CountsAreFailures
  <2>9. ASSUME NEW i \in Jobs, NEW e \in page[i]
        PROVE  e[2] <= failures'[e[1]]
    <3>1. e[1] \in Orders /\ e[2] \in 0 .. MaxRetries - 1 /\ e[2] <= failures[e[1]]
      BY DEF TypeOK, CountsAreFailures
    <3> QED BY <2>1, <2>6, <3>1
  <2>10. ASSUME NEW i \in failed
         PROVE  page[i] # {} /\ Current(i)[2] < failures'[Current(i)[1]]
    <3>1. i \in Jobs /\ page[i] # {} /\ Current(i)[2] < failures[Current(i)[1]]
      BY DEF TypeOK, CountsAreFailures
    <3>2. Current(i)[1] \in Orders /\ Current(i)[2] \in 0 .. MaxRetries - 1
      BY <3>1, CurrentInPage
    <3> QED BY <2>1, <2>6, <3>1, <3>2
  <2>11. failed \subseteq Jobs
    BY DEF TypeOK
  <2>12. CountsAreFailures'
    BY <1>1, <1>4, <2>4, <2>5, <2>7, <2>8, <2>9, <2>10, <2>11 DEF CountsAreFailures
  <2> QED BY <1>4, <2>2, <2>3, <2>12 DEF PaidWhenSettled
<1> QED BY <1>3, <1>4 DEF JobSettles

LEMMA JobRecordsStep ==
  ASSUME SInv, NEW j \in Jobs, JobRecords(j)
  PROVE  SInv'
<1> USE DEF SInv
<1> DEFINE o == Current(j)[1]
           n == NextRetry(Current(j)[2])
<1>1. /\ j \in failed /\ failed' = failed \ {j}
      /\ page' = [page EXCEPT ![j] = page[j] \ {Current(j)}]
      /\ UNCHANGED <<status, role, paid, request, answer, failures>>
      /\ IF Exhausted(n)
         THEN MarkSettlementDead(o) /\ UNCHANGED <<count, due>>
         ELSE RecordSettlementFailure(o, n) /\ UNCHANGED dead
  BY DEF JobRecords, Handled, requests, TypeOK
<1>2. /\ Current(j) \in page[j] /\ o \in Orders /\ Current(j)[2] \in 0 .. MaxRetries - 1
      /\ Current(j)[2] < failures[o]
  BY <1>1, CurrentInPage DEF CountsAreFailures
<1>3. n \in 1 .. MaxRetries /\ n <= failures[o] /\ failures[o] \in 0 .. MaxRetries /\ MaxRetries \in Nat
  BY <1>2, MaxRetriesType DEF NextRetry, TypeOK
<1>4. /\ page' \in [Jobs -> SUBSET (Orders \X (0 .. MaxRetries - 1))]
      /\ failed' \subseteq Jobs
      /\ \A i \in Jobs : \A e \in page'[i] : e[2] <= failures'[e[1]]
      /\ \A i \in failed' : /\ page'[i] # {}
                            /\ Current(i)'[2] < failures'[Current(i)'[1]]
  <2>1. page[j] \ {Current(j)} \in SUBSET page[j]
    OBVIOUS
  <2> QED BY <1>1, <2>1, PageShrinks
<1>5. OneDelivery'
  BY <1>1, OneDeliveryKept DEF Won
<1> HIDE DEF o, n
<1>6. TypeOK' /\ DeadOnlyWhenExhausted'
  <2>1. DeadOnlyWhenExhausted
    BY DEF CountsAreFailures
  <2>2. CASE Exhausted(n)
    <3>1. dead' = [dead EXCEPT ![o] = dead[o] \/ status[o] = "DELIVERED"]
      BY <1>1, <2>2 DEF MarkSettlementDead
    <3>2. dead \in [Orders -> BOOLEAN]
      BY DEF TypeOK
    <3>3. (dead[o] \/ status[o] = "DELIVERED") \in BOOLEAN
      OBVIOUS
    <3>4. dead' \in [Orders -> BOOLEAN]
      BY <1>2, <3>1, <3>2, BooleanUpdate
    <3>5. TypeOK'
      BY <1>1, <1>4, <2>2, <3>4 DEF TypeOK
    <3>6. failures[o] = MaxRetries
      BY <1>3, <2>2 DEF Exhausted
    <3>7. \A p \in Orders : p # o => dead'[p] = dead[p]
      BY <3>1, <3>2
    <3> QED BY <1>1, <2>1, <2>2, <3>5, <3>6, <3>7 DEF DeadOnlyWhenExhausted
  <2>3. CASE ~ Exhausted(n)
    <3>1. n \in 0 .. MaxRetries - 1 /\ RecordSettlementFailure(o, n) /\ UNCHANGED dead
      BY <1>1, <1>3, <2>3 DEF Exhausted
    <3>2. /\ count' \in [Orders -> 0 .. MaxRetries - 1] /\ due' \in [Orders -> BOOLEAN]
          /\ \A p \in Orders : count'[p] = count[p] \/ (p = o /\ count'[p] = n)
      BY <1>2, <3>1, RecordTypes
    <3>3. TypeOK'
      BY <1>1, <1>4, <3>1, <3>2 DEF TypeOK
    <3> QED BY <1>1, <1>3, <2>1, <3>1, <3>2, <3>3 DEF DeadOnlyWhenExhausted
  <2> QED BY <2>2, <2>3
<1>7. CountsAreFailures'
  BY <1>1, <1>4, <1>6 DEF CountsAreFailures
<1> QED BY <1>1, <1>5, <1>6, <1>7 DEF PaidWhenSettled

LEMMA JobDiesStep ==
  ASSUME SInv, NEW j \in Jobs, JobDies(j)
  PROVE  SInv'
<1> USE DEF SInv
<1>1. /\ failed' = failed \ {j} /\ page' = [page EXCEPT ![j] = {}]
      /\ UNCHANGED <<status, count, dead, due, role, paid, request, answer, failures>>
  BY DEF JobDies, orders, requests
<1>2. /\ page' \in [Jobs -> SUBSET (Orders \X (0 .. MaxRetries - 1))]
      /\ failed' \subseteq Jobs
      /\ \A i \in Jobs : \A e \in page'[i] : e[2] <= failures'[e[1]]
      /\ \A i \in failed' : /\ page'[i] # {}
                            /\ Current(i)'[2] < failures'[Current(i)'[1]]
  <2>1. {} \in SUBSET page[j]
    OBVIOUS
  <2> QED BY <1>1, <2>1, PageShrinks
<1>3. TypeOK'
  BY <1>1, <1>2 DEF TypeOK
<1>4. OneDelivery'
  BY <1>1, OneDeliveryKept DEF Won
<1>5. CountsAreFailures'
  BY <1>1, <1>2 DEF CountsAreFailures, DeadOnlyWhenExhausted
<1> QED BY <1>1, <1>3, <1>4, <1>5 DEF PaidWhenSettled

LEMMA StutterStep ==
  ASSUME SInv, UNCHANGED vars
  PROVE  SInv'
BY DueOrRoleStep DEF SInv, TypeOK, vars, orders

LEMMA RequestStepStep ==
  ASSUME SInv, NEW r \in Requests, RequestStep(r)
  PROVE  SInv'
BY DeliverMarksStep, DeliverSettlesStep, DeliverRecordsStep, DeliverAbortsStep DEF RequestStep

LEMMA NextStep ==
  ASSUME SInv, [Next]_vars
  PROVE  SInv'
BY RequestStepStep, JobReadsStep, JobSettlesStep, JobRecordsStep, JobDiesStep,
   CancelStep, DelayPassesStep, RoleChangesStep, StutterStep
   DEF Next, JobStep

\* The invariant says what the properties say.
LEMMA SInvImplies ==
  ASSUME SInv
  PROVE  TypeOK /\ DeliveredOncePaidOnce /\ DeadOnlyWhenExhausted
<1>1. ASSUME NEW o \in Orders
      PROVE  Cardinality({r \in Requests : OrderOf(r) = o /\ answer[r] = 200}) <= 1
  <2> DEFINE told == {r \in Requests : OrderOf(r) = o /\ answer[r] = 200}
  <2>1. \A r, s \in told : r = s
    BY DEF SInv, OneDelivery, Won
  <2>2. CASE told = {}
    BY <2>2, FS_EmptySet
  <2>3. CASE told # {}
    <3>1. PICK r \in told : TRUE
      BY <2>3
    <3>2. told = {r}
      BY <2>1, <3>1
    <3>3. Cardinality(told) = 1
      <4> HIDE DEF told
      <4> QED BY <3>2, FS_Singleton
    <3> QED BY <3>3
  <2> QED BY <2>2, <2>3
<1>2. DeliveredOncePaidOnce
  BY <1>1 DEF DeliveredOncePaidOnce, SInv, PaidWhenSettled
<1> QED BY <1>2 DEF SInv, CountsAreFailures

-------------------------------------------------------------------------------
\* The invariant of deliver and of the retry job is inductive.
LEMMA DeliveryInvariant == Spec => []SInv
<1>1. Init => SInv
  BY InitSInv
<1>2. SInv /\ [Next]_vars => SInv'
  BY NextStep
<1> QED BY <1>1, <1>2, PTL DEF Spec

\* Types are kept by every step of deliver and of the retry job, alone or under
\* fair scheduling.
THEOREM DeliveryTyping == Spec => []TypeOK
<1>1. SInv => TypeOK
  BY DEF SInv
<1> QED BY <1>1, DeliveryInvariant, PTL

\* However many requests deliver an order at once, at most one is told 200, and
\* the order was paid exactly once when it is SETTLED, whoever settled it: the
\* request, or any of the jobs (deliver and SettlementService.settle).
THEOREM OneDeliveryOnePayment == Spec => []DeliveredOncePaidOnce
<1>1. SInv => DeliveredOncePaidOnce
  BY SInvImplies
<1> QED BY <1>1, DeliveryInvariant, PTL
-------------------------------------------------------------------------------
(***************************************************************************)
(* The two scripts.  What the first one reports when it passes is what it  *)
(* has looked at on the way, and what nobody undoes later: failures only   *)
(* grow, SETTLED is final and nobody else changes its taker's role.        *)
(***************************************************************************)

LookedAt ==
  /\ step \in {"retried", "settled", "check"} => failures[Subject] >= 1
  /\ step = "restore" /\ verdict # "failed" => failures[Subject] >= 1
  /\ step \in {"settled", "check"} => role[Subject] = "USER"
  /\ step \in {"duplicate", "burst", "database", "reconcile"} => name = "duplicate"
  /\ verdict = "passed" => step = "end"

DInv == SInv /\ LookedAt /\ PassedMeansRecovered

LEMMA SubjectType == Subject \in Orders /\ Delivery \in Requests /\ Deliveries \subseteq Requests
BY SettleRetryAssumption, DeliveryDrillsAssumption DEF Delivery, Deliveries

\* The failures of an order only grow.
LEMMA FailuresGrow ==
  ASSUME SInv, [Next]_vars
  PROVE  \A o \in Orders : failures[o] <= failures'[o]
<1> USE DEF SInv
<1>0. \A o \in Orders : failures[o] \in Nat
  BY MaxRetriesType DEF TypeOK
<1> USE <1>0
<1>1. ASSUME NEW r \in Requests, RequestStep(r)
      PROVE  \A o \in Orders : failures[o] <= failures'[o]
  BY <1>1, OrderOfType, ThrowsCounts
     DEF RequestStep, DeliverMarks, DeliverSettles, DeliverRecords, DeliverAborts
<1>2. ASSUME NEW j \in Jobs, JobStep(j)
      PROVE  \A o \in Orders : failures[o] <= failures'[o]
  BY <1>2, CurrentInPage, ThrowsCounts DEF JobStep, JobReads, JobSettles, JobRecords, JobDies
<1>3. ASSUME NEW o \in Orders, Cancel(o) \/ DelayPasses(o) \/ RoleChanges(o)
      PROVE  UNCHANGED failures
  BY <1>3 DEF Cancel, DelayPasses, RoleChanges
<1> QED BY <1>1, <1>2, <1>3 DEF Next, vars

\* A settled order stays settled, and is not marked dead any more.
LEMMA SettledIsFinal ==
  ASSUME SInv, [Next]_vars, NEW o \in Orders, status[o] = "SETTLED"
  PROVE  status'[o] = "SETTLED" /\ dead'[o] = dead[o]
<1> USE DEF SInv
<1>1. ASSUME NEW r \in Requests, RequestStep(r)
      PROVE  status'[o] = "SETTLED" /\ UNCHANGED dead
  <2>1. CASE DeliverMarks(r)
    BY <2>1, OrderOfType DEF DeliverMarks, Deliverable, TypeOK
  <2>2. CASE DeliverSettles(r)
    BY <2>2, OrderOfType, SettlesOnce DEF DeliverSettles
  <2>3. CASE DeliverRecords(r) \/ DeliverAborts(r)
    BY <2>3 DEF DeliverRecords, DeliverAborts, orders
  <2> QED BY <1>1, <2>1, <2>2, <2>3 DEF RequestStep
<1>2. ASSUME NEW j \in Jobs, JobStep(j)
      PROVE  status'[o] = "SETTLED" /\ dead'[o] = dead[o]
  <2>1. CASE JobReads(j) \/ JobDies(j)
    BY <2>1 DEF JobReads, JobDies, orders
  <2>2. CASE JobSettles(j)
    BY <2>2, CurrentInPage, SettlesOnce DEF JobSettles
  <2>3. CASE JobRecords(j)
    <3>1. UNCHANGED status /\ (MarkSettlementDead(Current(j)[1]) \/ UNCHANGED dead)
      BY <2>3 DEF JobRecords
    <3>2. ASSUME NEW p, MarkSettlementDead(p)
          PROVE  dead'[o] = dead[o]
      <4>1. dead' = [dead EXCEPT ![p] = dead[p] \/ status[p] = "DELIVERED"]
        BY <3>2 DEF MarkSettlementDead
      <4>2. dead \in [Orders -> BOOLEAN]
        BY DEF TypeOK
      <4>3. CASE p = o
        <5>1. dead'[o] = (dead[o] \/ status[o] = "DELIVERED")
          BY <4>1, <4>2, <4>3
        <5>2. status[o] # "DELIVERED" /\ dead[o] \in BOOLEAN
          BY <4>2
        <5> QED BY <5>1, <5>2
      <4>4. CASE p # o
        BY <4>1, <4>2, <4>4
      <4> QED BY <4>3, <4>4
    <3> QED BY <3>1, <3>2
  <2> QED BY <1>2, <2>1, <2>2, <2>3 DEF JobStep
<1>3. ASSUME NEW p \in Orders, Cancel(p) \/ DelayPasses(p) \/ RoleChanges(p)
      PROVE  status'[o] = "SETTLED" /\ UNCHANGED dead
  BY <1>3 DEF Cancel, DelayPasses, RoleChanges, orders, TypeOK
<1> QED BY <1>1, <1>2, <1>3 DEF Next, vars, orders

\* A step of the application that leaves the script and its taker's role alone.
LEMMA AppStep ==
  ASSUME DInv, [Next]_vars, role'[Subject] = role[Subject], UNCHANGED <<step, verdict, name>>
  PROVE  DInv'
<1>1. SInv'
  BY NextStep DEF DInv
<1>2. failures[Subject] <= failures'[Subject]
  BY SubjectType, FailuresGrow DEF DInv
<1>3. failures[Subject] \in Nat /\ failures'[Subject] \in Nat
  BY <1>1, SubjectType, MaxRetriesType DEF DInv, SInv, TypeOK
<1>4. LookedAt'
  BY <1>2, <1>3 DEF DInv, LookedAt
<1>5. PassedMeansRecovered'
  <2> SUFFICES ASSUME name = "retry", verdict = "passed"
               PROVE  PassedMeansRecovered'
    BY DEF PassedMeansRecovered
  <2>1. status[Subject] = "SETTLED" /\ ~ dead[Subject] /\ failures[Subject] >= 1
        /\ role[Subject] = "USER"
    BY DEF DInv, PassedMeansRecovered
  <2>2. status'[Subject] = "SETTLED" /\ dead'[Subject] = dead[Subject]
    BY <2>1, SubjectType, SettledIsFinal DEF DInv
  <2>3. paid'[Subject] = 1
    BY <1>1, <2>2, SubjectType DEF SInv, PaidWhenSettled
  <2> QED BY <1>2, <1>3, <2>1, <2>2, <2>3 DEF PassedMeansRecovered
<1> QED BY <1>1, <1>4, <1>5 DEF DInv
\* A step of the script in which it looks, calls, asserts or gives up.
LEMMA ScriptStep ==
  ASSUME DInv, UNCHANGED <<vars, name>>,
         \/ Setup \/ ReadsMetric \/ ChecksAnswer \/ ChecksCount \/ WaitsForRetry
         \/ WaitsForSettlement \/ ChecksFinalState
         \/ PreparesOrder \/ ChecksAnswers \/ ChecksDatabase \/ Reconciles \/ Killed
  PROVE  DInv'
<1> USE DEF DInv
<1>1. SInv'
  BY NextStep
<1>2. UNCHANGED <<status, paid, count, dead, failures, role, name>>
  BY DEF vars, orders
<1>3. count[Subject] >= 1 => failures[Subject] >= 1
  BY SubjectType, MaxRetriesType DEF SInv, TypeOK, CountsAreFailures, DeadOnlyWhenExhausted
<1>4. Clean => status[Subject] = "SETTLED" /\ ~ dead[Subject] /\ paid[Subject] = 1
  BY SubjectType DEF Clean, SInv, PaidWhenSettled
<1> USE DEF At, Goes, Raises, Calls, Asserts, WaitsUntil, Passes
<1>5. ASSUME Setup \/ ReadsMetric \/ PreparesOrder \/ ChecksAnswer \/ ChecksAnswers \/ Killed
      PROVE  LookedAt' /\ PassedMeansRecovered'
  BY <1>2, <1>5 DEF LookedAt, PassedMeansRecovered, Setup, ReadsMetric, PreparesOrder,
     ChecksAnswer, ChecksAnswers, Killed
<1>6. ASSUME ChecksCount \/ WaitsForRetry \/ WaitsForSettlement
      PROVE  LookedAt' /\ PassedMeansRecovered'
  BY <1>2, <1>3, <1>6 DEF LookedAt, PassedMeansRecovered, ChecksCount, WaitsForRetry, WaitsForSettlement
<1>7. ASSUME ChecksFinalState
      PROVE  LookedAt' /\ PassedMeansRecovered'
  BY <1>2, <1>4, <1>7 DEF LookedAt, PassedMeansRecovered, ChecksFinalState
<1>8. ASSUME ChecksDatabase \/ Reconciles
      PROVE  LookedAt' /\ PassedMeansRecovered'
  BY <1>2, <1>8 DEF LookedAt, PassedMeansRecovered, ChecksDatabase, Reconciles
<1> QED BY <1>1, <1>5, <1>6, <1>7, <1>8

\* The script turns the taker into a PLATFORM user, and back.
LEMMA SetRoleStep ==
  ASSUME DInv, RefusesTaker \/ RestoresTaker
  PROVE  DInv'
<1> USE DEF DInv
<1>1. PICK value \in {"USER", "PLATFORM"} : SetRole(value)
  BY DEF RefusesTaker, RestoresTaker
<1>2. /\ role' = [role EXCEPT ![Subject] = value]
      /\ UNCHANGED <<status, count, dead, due, paid, request, answer, page, failed, failures, name>>
  BY <1>1 DEF SetRole, orders, requests, jobs
<1>3. role' \in [Orders -> {"USER", "PLATFORM"}]
  BY <1>2, SubjectType DEF SInv, TypeOK
<1>4. SInv'
  BY <1>2, <1>3, DueOrRoleStep DEF SInv, TypeOK, requests, jobs
<1>5. LookedAt' /\ PassedMeansRecovered'
  <2>1. CASE RefusesTaker
    BY <1>2, <2>1 DEF RefusesTaker, At, Goes, LookedAt, PassedMeansRecovered
  <2>2. CASE RestoresTaker
    <3>1. role'[Subject] = "USER"
      BY <2>2, SubjectType DEF RestoresTaker, SetRole, SInv, TypeOK
    <3> QED BY <1>2, <2>2, <3>1 DEF RestoresTaker, At, AfterFinally, LookedAt, PassedMeansRecovered
  <2> QED BY <2>1, <2>2
<1> QED BY <1>4, <1>5

LEMMA DrillNextStep ==
  ASSUME DInv, [DrillNext]_drillVars
  PROVE  DInv'
<1> USE SubjectType
<1>1. ASSUME NEW r \in Requests, RequestStep(r)
      PROVE  Next /\ UNCHANGED role
  BY <1>1 DEF Next, RequestStep, DeliverMarks, DeliverSettles, DeliverRecords, DeliverAborts
<1>2. ASSUME NEW j \in Jobs, JobStep(j)
      PROVE  Next /\ UNCHANGED role
  BY <1>2 DEF Next, JobStep, JobReads, JobSettles, JobRecords, JobDies
<1>3. CASE Others
  <2>1. /\ UNCHANGED <<step, verdict, name>>
        /\ \/ \E j \in Jobs : JobStep(j)
           \/ \E o \in Orders : DelayPasses(o)
           \/ \E o \in Orders \ {Subject} : Cancel(o) \/ RoleChanges(o)
           \/ \E r \in Requests : RequestStep(r)
    BY <1>3 DEF Others, JobStep, drill, script
  <2>2. CASE \E j \in Jobs : JobStep(j)
    BY <1>2, <2>1, <2>2, AppStep
  <2>3. CASE \E r \in Requests : RequestStep(r)
    BY <1>1, <2>1, <2>3, AppStep
  <2>4. CASE \E o \in Orders : DelayPasses(o)
    BY <2>1, <2>4, AppStep DEF Next, DelayPasses
  <2>5. CASE \E o \in Orders \ {Subject} : Cancel(o) \/ RoleChanges(o)
    <3>1. Next
      BY <2>5 DEF Next
    <3>2. role'[Subject] = role[Subject]
      BY <2>5 DEF Cancel, RoleChanges, DInv, SInv, TypeOK
    <3> QED BY <2>1, <3>1, <3>2, AppStep
  <2> QED BY <2>1, <2>2, <2>3, <2>4, <2>5
<1>4. CASE Delivers \/ DeliversAtOnce
  <2>1. (\E r \in Requests : RequestStep(r)) /\ UNCHANGED <<step, verdict, name>>
    BY <1>4 DEF Delivers, DeliversAtOnce, drill, script
  <2> QED BY <1>1, <2>1, AppStep
<1>5. CASE RefusesTaker \/ RestoresTaker
  BY <1>5, SetRoleStep
<1>6. CASE UNCHANGED drillVars
  BY <1>6, AppStep DEF drillVars, drill, script, vars
<1>7. CASE \/ Setup \/ ReadsMetric \/ ChecksAnswer \/ ChecksCount \/ WaitsForRetry
           \/ WaitsForSettlement \/ ChecksFinalState
           \/ PreparesOrder \/ ChecksAnswers \/ ChecksDatabase \/ Reconciles \/ DrillDies
  <2>1. UNCHANGED <<vars, name>>
    BY <1>7 DEF Setup, ReadsMetric, ChecksAnswer, ChecksCount, WaitsForRetry, WaitsForSettlement,
       ChecksFinalState, PreparesOrder, ChecksAnswers, ChecksDatabase, Reconciles, DrillDies
  <2> QED BY <1>7, <2>1, ScriptStep DEF DrillDies
<1> QED BY <1>3, <1>4, <1>5, <1>6, <1>7 DEF DrillNext, RetryDrill, DuplicateDrill

LEMMA InitDInv ==
  ASSUME DrillInit
  PROVE  DInv
<1>1. SInv
  BY InitSInv DEF DrillInit
<1>2. LookedAt /\ PassedMeansRecovered
  BY DEF DrillInit, LookedAt, PassedMeansRecovered
<1> QED BY <1>1, <1>2 DEF DInv

\* And so it is with the scripts.
LEMMA DrillInvariant == DrillSpec => []DInv
<1>1. DrillInit => DInv
  BY InitDInv
<1>2. DInv /\ [DrillNext]_drillVars => DInv'
  BY DrillNextStep
<1> QED BY <1>1, <1>2, PTL DEF DrillSpec

\* No order is given up before MAX_RETRIES of its settlements have failed: the
\* stale counts that requests and jobs write can only postpone that, and so can
\* the drills (SettleRetryJob.retry, deliver's catch block).
THEOREM DeadAfterMaxRetries == DrillSpec => []DeadOnlyWhenExhausted
<1>1. DInv => DeadOnlyWhenExhausted
  BY SInvImplies DEF DInv
<1> QED BY <1>1, DrillInvariant, PTL

\* A report of benchmark_settlement_retry.py that says passed describes an order
\* that failed to settle at least once, is settled and was paid once, is not dead,
\* and has its taker back.
THEOREM RetryReportIsTrue == DrillSpec => []PassedMeansRecovered
<1>1. DInv => PassedMeansRecovered
  BY DEF DInv
<1> QED BY <1>1, DrillInvariant, PTL

\* One delivery and one payment, under the drills as well.
THEOREM OneDeliveryUnderDrills == DrillSpec => []DeliveredOncePaidOnce
<1>1. DInv => DeliveredOncePaidOnce
  BY SInvImplies DEF DInv
<1> QED BY <1>1, DrillInvariant, PTL
===============================================================================
