------------------------------- MODULE Timeouts -------------------------------
(***************************************************************************)
(* The deadlines of the orders and the three jobs that watch them.  The    *)
(* row's deadline, read by the database's clock, is the truth.  The ZSets  *)
(* delay:claim and delay:deliver only wake DelayQueuePoller up, by the     *)
(* application's clock; entries are written in the transactions of create  *)
(* and grab, which may still roll back, and again by the outbox worker.    *)
(* TimeoutScanJob reads the overdue rows themselves.                       *)
(***************************************************************************)
EXTENDS Integers, FiniteSets, Functions, FiniteSetsExt

CONSTANTS
  Orders,        \* ids: ORDER BY id compares them
  MaxTime,       \* bound: the clocks stop here
  Ttls,          \* claimTtlSeconds of the requests, in ticks
  DeliverTtl,    \* app.order.deliver-ttl-seconds
  Skew,          \* how far the two clocks may be apart
  Pollers,       \* instances that run DelayQueuePoller
  PollLimit,     \* the pollers' page, 100 in the code
  ScanLimit,     \* the scan's page, 500 in the code
  Malformed      \* members of delay:claim that name no order

ASSUME TimeoutsAssumption ==
  /\ IsFiniteSet(Orders) /\ Orders \subseteq Nat
  /\ MaxTime \in Nat /\ Skew \in Nat
  /\ Ttls \subseteq Nat \ {0} /\ DeliverTtl \in Nat \ {0}
  /\ PollLimit \in Nat \ {0} /\ ScanLimit \in Nat \ {0}
  /\ Malformed \cap Orders = {} /\ Cardinality(Malformed) < PollLimit

VARIABLES
  status,
  claimBy,       \* claim_deadline_at
  deliverBy,     \* deliver_deadline_at
  now,           \* the database's clock
  app,           \* the clock of the instances
  queue,         \* the ZSets: the score of each member
  events,        \* outbox events not published yet
  adding,        \* what a worker is about to add for an event: <<event, member, score>>
  page,          \* the members each poller has still to handle
  polling,       \* the ZSet that page was read from
  overdue,       \* the rows the scan has still to handle
  excused        \* history: orders whose wake-up calls a failure may have removed

rows == <<status, claimBy, deliverBy>>
jobs == <<page, polling, overdue>>
vars == <<rows, now, app, queue, events, adding, jobs, excused>>

Kinds == {"CLAIM", "DELIVER"}
EventTypes == {"ORDER_PUBLISHED", "ORDER_TAKEN", "ORDER_TERMINAL"}
Member(kind, o) == <<kind, o>>
Members == Kinds \X (Orders \cup Malformed)
Other(kind) == IF kind = "CLAIM" THEN "DELIVER" ELSE "CLAIM"

Init ==
  /\ status = [o \in Orders |-> "NONE"]
  /\ claimBy = [o \in Orders |-> 0]
  /\ deliverBy = [o \in Orders |-> 0]
  /\ now = 0 /\ app = 0
  /\ queue = [m \in {Member("CLAIM", x) : x \in Malformed} |-> 0]
  /\ events = {} /\ adding = {}
  /\ page = [p \in Pollers |-> {}]
  /\ polling = [p \in Pollers |-> "DELIVER"]
  /\ overdue = {}
  /\ excused = {}

Add(q, m, score) == [x \in DOMAIN q \cup {m} |-> IF x = m THEN score ELSE q[x]]
Without(q, ms) == Restrict(q, DOMAIN q \ ms)

\* DelayQueue.add: Redis takes the entry or the failure is swallowed.
AddOrNot(m, score) ==
  \/ queue' = Add(queue, m, score)
  \/ UNCHANGED queue

-------------------------------------------------------------------------------
(***************************************************************************)
(* Orders and their transactions.                                          *)
(***************************************************************************)

\* OrderService.create.
Create(o, ttl) ==
  /\ status[o] = "NONE"
  /\ now + ttl <= MaxTime
  /\ status' = [status EXCEPT ![o] = "PUBLISHED"]
  /\ claimBy' = [claimBy EXCEPT ![o] = now + ttl]
  /\ AddOrNot(Member("CLAIM", o), now + ttl)
  /\ events' = events \cup {<<"ORDER_PUBLISHED", o>>}
  /\ UNCHANGED <<deliverBy, now, app, adding, jobs, excused>>

\* GrabService.grab, when the UPDATE matches.
Grab(o) ==
  /\ status[o] = "PUBLISHED"
  /\ claimBy[o] > now
  /\ now + DeliverTtl <= MaxTime
  /\ status' = [status EXCEPT ![o] = "TAKEN"]
  /\ deliverBy' = [deliverBy EXCEPT ![o] = now + DeliverTtl]
  /\ AddOrNot(Member("DELIVER", o), now + DeliverTtl)
  /\ events' = events \cup {<<"ORDER_TAKEN", o>>}
  /\ UNCHANGED <<claimBy, now, app, adding, jobs, excused>>

\* The same, rolled back after delayQueue.addDeliver: the entry stays, with the
\* deadline of a claim that never was.
GrabRollsBack(o) ==
  /\ status[o] = "PUBLISHED"
  /\ claimBy[o] > now
  /\ now + DeliverTtl <= MaxTime
  /\ queue' = Add(queue, Member("DELIVER", o), now + DeliverTtl)
  /\ excused' = excused \cup {Member("DELIVER", o)}
  /\ UNCHANGED <<rows, now, app, events, adding, jobs>>

\* OrderRepository.markDelivered.
Deliver(o) ==
  /\ status[o] = "TAKEN"
  /\ deliverBy[o] > now
  /\ status' = [status EXCEPT ![o] = "DELIVERED"]
  /\ UNCHANGED <<claimBy, deliverBy, now, app, queue, events, adding, jobs, excused>>

Close(o) ==
  /\ status' = [status EXCEPT ![o] = "CANCELLED"]
  /\ events' = events \cup {<<"ORDER_TERMINAL", o>>}

\* OrderService.cancel.
Cancel(o) ==
  /\ status[o] \in {"PUBLISHED", "TAKEN"}
  /\ Close(o)
  /\ UNCHANGED <<claimBy, deliverBy, now, app, queue, adding, jobs, excused>>

\* The WHERE of dueClaimIds, dueDeliverIds and of the timeouts themselves.
Overdue(kind, o) ==
  \/ kind = "CLAIM" /\ status[o] = "PUBLISHED" /\ claimBy[o] <= now
  \/ kind = "DELIVER" /\ status[o] = "TAKEN" /\ deliverBy[o] <= now

\* OrderService.timeoutClaim and timeoutDeliver: they return false, and throw
\* nothing, when the row is not overdue.
Timeout(kind, o) ==
  IF Overdue(kind, o) THEN Close(o) ELSE UNCHANGED <<status, events>>

Tick ==
  /\ \/ now < MaxTime /\ now' = now + 1 /\ UNCHANGED app
     \/ app < MaxTime /\ app' = app + 1 /\ UNCHANGED now
  /\ now' - app' \in -Skew .. Skew
  /\ UNCHANGED <<rows, queue, events, adding, jobs, excused>>

\* A Redis restart or FLUSHDB.
RedisLosesQueues ==
  /\ queue # << >>
  /\ queue' = << >>
  /\ excused' = Kinds \X Orders
  /\ UNCHANGED <<rows, now, app, events, adding, jobs>>

-------------------------------------------------------------------------------
(***************************************************************************)
(* OutboxWorker.publish(event), as far as the ZSets go.                    *)
(***************************************************************************)

\* The worker reads the order ...
WorkerReads(e) ==
  LET o == e[2]
  IN  /\ e \in events
      /\ \A a \in adding : a[1] # e
      /\ CASE e[1] = "ORDER_PUBLISHED" /\ status[o] = "PUBLISHED" ->
                adding' = adding \cup {<<e, Member("CLAIM", o), claimBy[o]>>} /\ UNCHANGED <<queue, events>>
           [] e[1] = "ORDER_TAKEN" /\ status[o] = "TAKEN" ->
                adding' = adding \cup {<<e, Member("DELIVER", o), deliverBy[o]>>} /\ UNCHANGED <<queue, events>>
           [] e[1] = "ORDER_TERMINAL" ->
                /\ queue' = Without(queue, {Member(k, o) : k \in Kinds})
                /\ events' = events \ {e}
                /\ UNCHANGED adding
           [] OTHER -> events' = events \ {e} /\ UNCHANGED <<queue, adding>>
      /\ UNCHANGED <<rows, now, app, jobs, excused>>

\* A bug to catch: a failed event counts as published.
WorkerDropsFailed(a) ==
  /\ a \in adding
  /\ adding' = adding \ {a}
  /\ events' = events \ {a[1]}
  /\ AddOrNot(a[2], a[3])
  /\ UNCHANGED <<rows, now, app, jobs, excused>>

\* ... and adds the entry, or fails and leaves the event to a later attempt.
WorkerAdds(a) ==
  /\ a \in adding
  /\ adding' = adding \ {a}
  /\ \/ queue' = Add(queue, a[2], a[3]) /\ events' = events \ {a[1]}
     \/ UNCHANGED <<queue, events>>
  /\ UNCHANGED <<rows, now, app, jobs, excused>>

\* After its last attempt the event is DEAD.
EventDies(a) ==
  /\ a \in adding
  /\ adding' = adding \ {a}
  /\ events' = events \ {a[1]}
  /\ excused' = excused \cup {a[2]}
  /\ UNCHANGED <<rows, now, app, queue, jobs>>

-------------------------------------------------------------------------------
(***************************************************************************)
(* DelayQueuePoller.poll.                                                  *)
(***************************************************************************)

\* DelayQueue.due: the members with the lowest scores.  Members of one score are
\* ordered by name; every member below the limit is in the page here.
LowestPage(ms) ==
  {m \in ms : Cardinality({x \in ms : queue[x] < queue[m]}) < PollLimit}

Due(kind) == {m \in DOMAIN queue : m[1] = kind /\ queue[m] <= app}

\* The poller reads the ZSets in turn; a failing read is an empty page.
PollReads(p) ==
  /\ page[p] = {}
  /\ polling' = [polling EXCEPT ![p] = Other(@)]
  /\ \/ page' = [page EXCEPT ![p] = LowestPage(Due(polling'[p]))]
     \/ UNCHANGED page
  /\ UNCHANGED <<rows, now, app, queue, events, adding, overdue, excused>>

\* A bug to catch: the poller keeps the member unless its timeout took effect.
PollKeepsOthers(p, m) ==
  /\ m \in page[p]
  /\ m[2] \in Orders
  /\ page' = [page EXCEPT ![p] = @ \ {m}]
  /\ Timeout(m[1], m[2])
  /\ queue' \in {queue, IF Overdue(m[1], m[2]) THEN Without(queue, {m}) ELSE queue}
  /\ UNCHANGED <<claimBy, deliverBy, now, app, adding, polling, overdue, excused>>

\* It runs the timeout and removes the member, whatever the timeout returned;
\* when Redis fails the member stays.
PollHandles(p, m) ==
  /\ m \in page[p]
  /\ m[2] \in Orders
  /\ page' = [page EXCEPT ![p] = @ \ {m}]
  /\ Timeout(m[1], m[2])
  /\ queue' \in {queue, Without(queue, {m})}
  /\ UNCHANGED <<claimBy, deliverBy, now, app, adding, polling, overdue, excused>>

\* An exception: the member does not parse, or its transaction failed.
PollFails(p, m) ==
  /\ m \in page[p]
  /\ page' = [page EXCEPT ![p] = @ \ {m}]
  /\ UNCHANGED <<rows, now, app, queue, events, adding, polling, overdue, excused>>

-------------------------------------------------------------------------------
(***************************************************************************)
(* TimeoutScanJob.scan.                                                    *)
(***************************************************************************)

\* A bug to catch: only the orders that wait for a taker are scanned.
DueRowsClaimOnly == {<<"CLAIM", o>> : o \in {x \in Orders : Overdue("CLAIM", x)}}

\* The overdue rows.
DueRows == {m \in Kinds \X Orders : Overdue(m[1], m[2])}

\* dueClaimIds and dueDeliverIds: the first rows of each kind, by id.
ScanReads ==
  /\ overdue = {}
  /\ DueRows # {}
  /\ overdue' = {m \in DueRows :
                   Cardinality({x \in DueRows : x[1] = m[1] /\ x[2] < m[2]}) < ScanLimit}
  /\ UNCHANGED <<rows, now, app, queue, events, adding, page, polling, excused>>

ScanHandles(m) ==
  /\ m \in overdue
  /\ overdue' = overdue \ {m}
  /\ Timeout(m[1], m[2])
  /\ UNCHANGED <<claimBy, deliverBy, now, app, queue, adding, page, polling, excused>>

\* A transaction that fails, or an instance that dies.
ScanFails(m) ==
  /\ m \in overdue
  /\ overdue' = overdue \ {m}
  /\ UNCHANGED <<rows, now, app, queue, events, adding, page, polling, excused>>

Next ==
  \/ \E o \in Orders :
       \/ \E ttl \in Ttls : Create(o, ttl)
       \/ Grab(o)
       \/ GrabRollsBack(o)
       \/ Deliver(o)
       \/ Cancel(o)
  \/ Tick
  \/ RedisLosesQueues
  \/ \E e \in events : WorkerReads(e)
  \/ \E a \in adding : WorkerAdds(a) \/ EventDies(a)
  \/ \E p \in Pollers :
       \/ PollReads(p)
       \/ \E m \in page[p] : PollHandles(p, m) \/ PollFails(p, m)
  \/ ScanReads
  \/ \E m \in overdue : ScanHandles(m) \/ ScanFails(m)

Spec == Init /\ [][Next]_vars

\* The scan is scheduled for ever, and its transactions do not fail each time.
\* Redis, the pollers and the outbox owe nothing.
ScanFairness ==
  /\ WF_vars(ScanReads)
  /\ \A m \in Kinds \X Orders : SF_vars(ScanHandles(m))

\* Time passes, and the pollers and the worker run; Redis does not fail them
\* each time.
QueueFairness ==
  /\ WF_vars(Tick)
  /\ WF_vars(\E e \in events : WorkerReads(e))
  /\ SF_vars(\E a \in adding : WorkerAdds(a) /\ events' # events)
  /\ \A p \in Pollers :
       /\ WF_vars(PollReads(p) \/ \E m \in page[p] : PollHandles(p, m) \/ PollFails(p, m))
       /\ \A k \in Kinds :
            /\ SF_vars(PollReads(p) /\ polling'[p] = k /\ page'[p] # {})
            /\ SF_vars(\E m \in page[p] : m[1] = k /\ PollHandles(p, m) /\ queue' # queue)

FairSpec == Spec /\ ScanFairness

-------------------------------------------------------------------------------
(***************************************************************************)
(* Properties.                                                             *)
(***************************************************************************)

\* The types, and the deadlines a status needs.
TypeOK ==
  /\ status \in [Orders -> {"NONE", "PUBLISHED", "TAKEN", "DELIVERED", "CANCELLED"}]
  /\ \A o \in Orders : /\ status[o] # "NONE" => claimBy[o] > 0
                       /\ status[o] \in {"TAKEN", "DELIVERED"} => deliverBy[o] > 0
  /\ claimBy \in [Orders -> 0 .. MaxTime] /\ deliverBy \in [Orders -> 0 .. MaxTime]
  /\ now \in 0 .. MaxTime /\ app \in 0 .. MaxTime
  /\ DOMAIN queue \subseteq Members
  /\ \A m \in DOMAIN queue : queue[m] \in 0 .. MaxTime
  /\ events \subseteq EventTypes \X Orders
  /\ \A a \in adding : a[1] \in events
  /\ page \in [Pollers -> SUBSET Members]
  /\ polling \in [Pollers -> Kinds]
  /\ overdue \subseteq Kinds \X Orders

\* An order that is open past its deadline is cancelled in the end, whatever
\* becomes of Redis, the pollers and the outbox.
OverdueIsCancelled ==
  \A kind \in Kinds, o \in Orders : Overdue(kind, o) ~> status[o] = "CANCELLED"

\* An open order keeps a wake-up call until its deadline: an entry of its ZSet, or
\* an outbox event that will write one.  Only lost ZSets, an event that died and
\* the entry of a grab that was rolled back can take it away.
WakeUpCall(kind, o) ==
  \/ Member(kind, o) \in DOMAIN queue
  \/ <<IF kind = "CLAIM" THEN "ORDER_PUBLISHED" ELSE "ORDER_TAKEN", o>> \in events
WakeUpKept ==
  \A o \in Orders :
    /\ (status[o] = "PUBLISHED" /\ app < claimBy[o]) =>
         WakeUpCall("CLAIM", o) \/ Member("CLAIM", o) \in excused
    /\ (status[o] = "TAKEN" /\ app < deliverBy[o]) =>
         WakeUpCall("DELIVER", o) \/ Member("DELIVER", o) \in excused

\* The ZSets do not grow for ever: what late workers and rolled-back grabs leave
\* for a closed order is drained, although malformed members stay at the head.
QueueDrains ==
  QueueFairness =>
    \A o \in Orders :
      <>(status[o] \in {"DELIVERED", "CANCELLED"}) =>
         <>[](\A kind \in Kinds : Member(kind, o) \notin DOMAIN queue)
===============================================================================
