------------------------------ MODULE GrabFilter ------------------------------
(***************************************************************************)
(* Grabbing an order through the Redis filter.  A marker (grab:stock:<id>) *)
(* is consumed by the first grab that passes; a second key (grab:known:    *)
(* <id>) tells a consumed marker from one that Redis lost.  A grab that    *)
(* passes runs the conditional UPDATE of OrderRepository.claim, which      *)
(* alone decides who wins.                                                 *)
(*                                                                         *)
(* A grab is a transaction with Redis calls inside: it reads its snapshot  *)
(* first (REPEATABLE READ), holds the row lock from the UPDATE to its end, *)
(* and may be rolled back after it has consumed the marker.  Around it run *)
(* the MarkerResyncJob, the outbox workers that arm and remove the keys,   *)
(* cancellations, key expiry, and Redis calls that fail or lose all keys.  *)
(***************************************************************************)
EXTENDS FiniteSets

CONSTANTS
  Users, Orders,
  Publishers,  \* the users who publish orders: all of them, or a smaller instance
  NoUser,      \* SQL NULL in taker_id
  Requests,    \* grab requests that may be in flight at the same time
  Workers      \* outbox workers, one per instance

ASSUME GrabAssumption == NoUser \notin Users /\ Publishers \subseteq Users

VARIABLES
  status, publisher, taker,   \* the committed columns of t_errand_order
  overdue,     \* claim_deadline_at has passed
  marker,      \* grab:stock:<id> exists
  known,       \* grab:known:<id> exists
  request,     \* the state of each grab request
  won,         \* the answers "WON" given, as <<order, user>>
  events,      \* outbox events not yet published or dead
  worker,      \* the event each outbox worker is on, and its next step
  todo         \* the orders of MarkerResyncJob's page it has still to re-arm

row == <<status, publisher, taker, overdue>>
redis == <<marker, known>>
jobs == <<events, worker, todo>>
vars == <<row, redis, request, won, jobs>>

EventTypes == {"ORDER_PUBLISHED", "ORDER_TERMINAL"}
Steps == {"filter", "claim", "won", "lost"}
Idle == [step |-> "idle"]

Init ==
  /\ status = [o \in Orders |-> "NONE"]
  /\ publisher = [o \in Orders |-> NoUser]
  /\ taker = [o \in Orders |-> NoUser]
  /\ overdue = [o \in Orders |-> FALSE]
  /\ marker = [o \in Orders |-> FALSE]
  /\ known = [o \in Orders |-> FALSE]
  /\ request = [r \in Requests |-> Idle]
  /\ won = {}
  /\ events = {}
  /\ worker = [w \in Workers |-> Idle]
  /\ todo = {}

\* A bug to catch: the claim checks the row without locking it.
LockedByNobody(o) == FALSE

\* Requests in these steps have run their UPDATE and hold the row's lock.
Locked(o) == \E r \in Requests : request[r].step \in {"won", "lost"} /\ request[r].order = o

\* lua/grab_marker_rearm: sets both keys unless the marker is there.
Rearm(o) ==
  /\ marker' = [marker EXCEPT ![o] = TRUE]
  /\ known' = IF marker[o] THEN known ELSE [known EXCEPT ![o] = TRUE]

Goto(r, step) == request' = [request EXCEPT ![r].step = step]
End(r) == request' = [request EXCEPT ![r] = Idle]

-------------------------------------------------------------------------------
(***************************************************************************)
(* Orders come and go.                                                     *)
(***************************************************************************)

\* OrderService.create.  GrabMarker.arm swallows Redis failures: it sets both
\* keys, only the first, or none.  Nobody knows the order's id before it returns.
Create(o, u) ==
  /\ status[o] = "NONE"
  /\ status' = [status EXCEPT ![o] = "PUBLISHED"]
  /\ publisher' = [publisher EXCEPT ![o] = u]
  /\ \E armed \in {{}, {"marker"}, {"marker", "known"}} :
       /\ marker' = [marker EXCEPT ![o] = "marker" \in armed]
       /\ known' = [known EXCEPT ![o] = "known" \in armed]
  /\ events' = events \cup {<<"ORDER_PUBLISHED", o>>}
  /\ UNCHANGED <<taker, overdue, request, won, worker, todo>>

\* OrderService.cancel and the timeouts, which wait for the row's lock.
Cancel(o) ==
  /\ status[o] \in {"PUBLISHED", "TAKEN"}
  /\ ~ Locked(o)
  /\ status' = [status EXCEPT ![o] = "CANCELLED"]
  /\ events' = events \cup {<<"ORDER_TERMINAL", o>>}
  /\ UNCHANGED <<publisher, taker, overdue, redis, request, won, worker, todo>>

\* claim_deadline_at passes.
DeadlinePasses(o) ==
  /\ status[o] # "NONE"
  /\ ~ overdue[o]
  /\ overdue' = [overdue EXCEPT ![o] = TRUE]
  /\ UNCHANGED <<status, publisher, taker, redis, request, won, jobs>>

\* A key outlives the claim deadline by markerTtlSlackSeconds, or by one second
\* when it is set later.
KeysExpire(o) ==
  /\ overdue[o]
  /\ \/ marker[o] /\ marker' = [marker EXCEPT ![o] = FALSE] /\ UNCHANGED known
     \/ known[o] /\ known' = [known EXCEPT ![o] = FALSE] /\ UNCHANGED marker
  /\ UNCHANGED <<row, request, won, jobs>>

\* A Redis restart or FLUSHDB.
RedisLosesKeys ==
  /\ \E o \in Orders : marker[o] \/ known[o]
  /\ marker' = [o \in Orders |-> FALSE]
  /\ known' = [o \in Orders |-> FALSE]
  /\ UNCHANGED <<row, request, won, jobs>>

-------------------------------------------------------------------------------
(***************************************************************************)
(* GrabService.grab.                                                       *)
(***************************************************************************)

\* requireBusinessUser is the transaction's first read: it fixes the snapshot
\* in which the request sees the order until it ends.
Begin(r, o, u) ==
  /\ request[r] = Idle
  /\ status[o] # "NONE"
  /\ request' = [request EXCEPT ![r] =
                   [step |-> "filter", order |-> o, user |-> u, seen |-> status[o]]]
  /\ UNCHANGED <<row, redis, won, jobs>>

\* GrabMarker.tryPass with lua/grab_filter: FILTERED, SELF_GRAB and EXPIRED end
\* the request; only PASS consumes the marker.
Filtered(r) ==
  LET o == request[r].order
  IN  /\ request[r].step = "filter"
      /\ \/ ~ marker[o] /\ known[o]
         \/ marker[o] /\ (request[r].user = publisher[o] \/ overdue[o])
      /\ End(r)
      /\ UNCHANGED <<row, redis, won, jobs>>

Pass(r) ==
  LET o == request[r].order
  IN  /\ request[r].step = "filter"
      /\ marker[o]
      /\ request[r].user # publisher[o]
      /\ ~ overdue[o]
      /\ marker' = [marker EXCEPT ![o] = FALSE]
      /\ Goto(r, "claim")
      /\ UNCHANGED <<row, known, won, jobs>>

\* MISSING: neither key is there.
Missing(r) ==
  /\ request[r].step = "filter"
  /\ ~ marker[request[r].order] /\ ~ known[request[r].order]
  /\ Goto(r, "claim")
  /\ UNCHANGED <<row, redis, won, jobs>>

\* A bug to catch: a grab is turned away when Redis does not answer.
UnavailableRejects(r) ==
  /\ request[r].step = "filter"
  /\ End(r)
  /\ UNCHANGED <<row, redis, won, jobs>>

\* UNAVAILABLE: the call failed; the script may have run all the same.
Unavailable(r) ==
  LET o == request[r].order
  IN  /\ request[r].step = "filter"
      /\ \/ UNCHANGED marker
         \/ /\ request[r].user # publisher[o] /\ ~ overdue[o]
            /\ marker' = [marker EXCEPT ![o] = FALSE]
      /\ Goto(r, "claim")
      /\ UNCHANGED <<row, known, won, jobs>>

\* A bug to catch: the UPDATE loses "status='PUBLISHED' AND taker_id IS NULL".
ClaimableUnchecked(o, u) == publisher[o] # u /\ ~ overdue[o]

\* The WHERE of OrderRepository.claim, which reads the committed row.
Claimable(o, u) ==
  /\ status[o] = "PUBLISHED"
  /\ taker[o] = NoUser
  /\ publisher[o] # u
  /\ ~ overdue[o]

\* OrderRepository.claim waits for the row's lock; it keeps the lock whether or
\* not the row matched.
Claim(r) ==
  LET o == request[r].order
  IN  /\ request[r].step = "claim"
      /\ ~ Locked(o)
      /\ Goto(r, IF Claimable(o, request[r].user) THEN "won" ELSE "lost")
      /\ UNCHANGED <<row, redis, won, jobs>>

\* A bug to catch: the winner is answered, but not recorded.
CommitWithoutTaker(r) ==
  LET o == request[r].order
  IN  /\ request[r].step = "won"
      /\ status' = [status EXCEPT ![o] = "TAKEN"]
      /\ won' = won \cup {<<o, request[r].user>>}
      /\ End(r)
      /\ UNCHANGED <<publisher, taker, overdue, redis, jobs>>

\* The winner's transaction commits and its request is answered.
Commit(r) ==
  LET o == request[r].order
      u == request[r].user
  IN  /\ request[r].step = "won"
      /\ status' = [status EXCEPT ![o] = "TAKEN"]
      /\ taker' = [taker EXCEPT ![o] = u]
      /\ won' = won \cup {<<o, u>>}
      /\ End(r)
      /\ UNCHANGED <<publisher, overdue, redis, jobs>>

\* A bug to catch: every loser re-arms the marker, whatever the order's status.
RearmsAlways(q) == TRUE

\* The loser looks at the order in its snapshot, at the deadline in the present.
Rearms(q) ==
  /\ q.seen = "PUBLISHED"
  /\ publisher[q.order] = q.user \/ ~ overdue[q.order]

\* The loser re-arms the marker, if Redis lets it, and is rejected.
Lose(r) ==
  /\ request[r].step = "lost"
  /\ \/ Rearms(request[r]) /\ Rearm(request[r].order)
     \/ UNCHANGED redis
  /\ End(r)
  /\ UNCHANGED <<row, won, jobs>>

\* The instance dies, or the transaction fails: it is rolled back, and what it
\* did to Redis stays.
Abort(r) ==
  /\ request[r].step \in Steps
  /\ End(r)
  /\ UNCHANGED <<row, redis, won, jobs>>

-------------------------------------------------------------------------------
(***************************************************************************)
(* The jobs that bring the keys back and take them away.                   *)
(***************************************************************************)

\* MarkerResyncJob.resync: the page of orders that can still be grabbed ...
ResyncReads ==
  LET active == {o \in Orders : status[o] = "PUBLISHED" /\ ~ overdue[o]}
  IN  /\ todo = {}
      /\ active # {}
      /\ todo' = active
      /\ UNCHANGED <<row, redis, request, won, events, worker>>

\* A bug to catch: the job believes the known key and leaves such orders alone.
ResyncRearmsUnknown(o) ==
  /\ o \in todo
  /\ todo' = todo \ {o}
  /\ IF known[o] THEN UNCHANGED redis ELSE Rearm(o)
  /\ UNCHANGED <<row, request, won, events, worker>>

\* ... each re-armed in turn, even if it was taken in the meantime ...
ResyncRearms(o) ==
  /\ o \in todo
  /\ todo' = todo \ {o}
  /\ Rearm(o)
  /\ UNCHANGED <<row, request, won, events, worker>>

\* ... or skipped, when Redis or the instance fails.
ResyncFails(o) ==
  /\ o \in todo
  /\ todo' = todo \ {o}
  /\ UNCHANGED <<row, redis, request, won, events, worker>>

\* OutboxWorker.publish reads the order ...
WorkerReads(w, e) ==
  /\ worker[w] = Idle
  /\ e \in events
  /\ IF e[1] = "ORDER_PUBLISHED" /\ status[e[2]] # "PUBLISHED"
     THEN events' = events \ {e} /\ UNCHANGED worker
     ELSE /\ worker' = [worker EXCEPT ![w] =
                          [step |-> IF e[1] = "ORDER_PUBLISHED" THEN "marker" ELSE "remove",
                           event |-> e]]
          /\ UNCHANGED events
  /\ UNCHANGED <<row, redis, request, won, todo>>

\* ... and on what it read sets the two keys, one after the other ...
WorkerSetsMarker(w) ==
  /\ worker[w].step = "marker"
  /\ marker' = [marker EXCEPT ![worker[w].event[2]] = TRUE]
  /\ worker' = [worker EXCEPT ![w].step = "known"]
  /\ UNCHANGED <<row, known, request, won, events, todo>>

WorkerSetsKnown(w) ==
  /\ worker[w].step = "known"
  /\ known' = [known EXCEPT ![worker[w].event[2]] = TRUE]
  /\ events' = events \ {worker[w].event}
  /\ worker' = [worker EXCEPT ![w] = Idle]
  /\ UNCHANGED <<row, marker, request, won, todo>>

\* ... or removes both.
WorkerRemoves(w) ==
  LET o == worker[w].event[2]
  IN  /\ worker[w].step = "remove"
      /\ marker' = [marker EXCEPT ![o] = FALSE]
      /\ known' = [known EXCEPT ![o] = FALSE]
      /\ events' = events \ {worker[w].event}
      /\ worker' = [worker EXCEPT ![w] = Idle]
      /\ UNCHANGED <<row, request, won, todo>>

\* A failed event is tried again later, or given up for DEAD; a crashed worker
\* leaves it to the next.
WorkerFails(w) ==
  /\ worker[w] # Idle
  /\ worker' = [worker EXCEPT ![w] = Idle]
  /\ events' \in {events, events \ {worker[w].event}}
  /\ UNCHANGED <<row, redis, request, won, todo>>

RequestStep(r) == Filtered(r) \/ Pass(r) \/ Missing(r) \/ Unavailable(r)

WorkerStep(w) == WorkerSetsMarker(w) \/ WorkerSetsKnown(w) \/ WorkerRemoves(w)

Next ==
  \/ \E o \in Orders :
       \/ \E u \in Publishers : Create(o, u)
       \/ Cancel(o)
       \/ DeadlinePasses(o)
       \/ KeysExpire(o)
       \/ ResyncRearms(o)
       \/ ResyncFails(o)
  \/ RedisLosesKeys
  \/ ResyncReads
  \/ \E r \in Requests :
       \/ \E o \in Orders, u \in Users : Begin(r, o, u)
       \/ RequestStep(r)
       \/ Claim(r)
       \/ Commit(r)
       \/ Lose(r)
       \/ Abort(r)
  \/ \E w \in Workers :
       \/ \E e \in events : WorkerReads(w, e)
       \/ WorkerStep(w)
       \/ WorkerFails(w)

Spec == Init /\ [][Next]_vars

\* Requests and jobs run on, the queue for the row's lock is fair, users keep
\* asking for an order they may take, and keys expire in time.  Redis may fail
\* the jobs again and again, but not every single time.  Nothing makes deadlines
\* pass, publishers cancel or keys get lost.
Fairness ==
  /\ \A r \in Requests :
       /\ WF_vars(RequestStep(r) \/ Commit(r) \/ Lose(r))
       /\ SF_vars(Claim(r))
  /\ \A o \in Orders :
       /\ SF_vars(\E r \in Requests, u \in Users : u # publisher[o] /\ Begin(r, o, u))
       /\ SF_vars(ResyncRearms(o))
       /\ WF_vars(KeysExpire(o))
  /\ WF_vars(ResyncReads)
  /\ WF_vars(\E w \in Workers, e \in events : WorkerReads(w, e))
  /\ \A w \in Workers : SF_vars(WorkerStep(w))

FairSpec == Spec /\ Fairness

-------------------------------------------------------------------------------
(***************************************************************************)
(* Properties.                                                             *)
(***************************************************************************)

RequestStates ==
  [step : Steps, order : Orders, user : Users, seen : {"PUBLISHED", "TAKEN", "CANCELLED"}]
WorkerStates == [step : {"marker", "known", "remove"}, event : EventTypes \X Orders]

\* The types, and which columns a status fills.
TypeOK ==
  /\ status \in [Orders -> {"NONE", "PUBLISHED", "TAKEN", "CANCELLED"}]
  /\ publisher \in [Orders -> Users \cup {NoUser}]
  /\ taker \in [Orders -> Users \cup {NoUser}]
  /\ \A o \in Orders : /\ status[o] # "NONE" => publisher[o] \in Users
                       /\ status[o] = "TAKEN" => taker[o] \in Users
  /\ overdue \in [Orders -> BOOLEAN]
  /\ marker \in [Orders -> BOOLEAN] /\ known \in [Orders -> BOOLEAN]
  /\ request \in [Requests -> RequestStates \cup {Idle}]
  /\ won \subseteq Orders \X Users
  /\ events \subseteq EventTypes \X Orders
  /\ worker \in [Workers -> WorkerStates \cup {Idle}]
  /\ todo \subseteq Orders

\* Whoever was told WON is the taker on record, so an order has one winner at
\* most, whatever the filter let through, lost or re-armed.
WonIsTaker == \A a \in won : taker[a[1]] = a[2]

\* No two transactions that ran their UPDATE on an order are open at a time,
\* and one that will commit as the winner still matches the WHERE it matched,
\* but for the deadline.
WinnerStillMatches ==
  \A r, s \in Requests :
    request[r].step = "won" =>
      /\ status[request[r].order] = "PUBLISHED"
      /\ (r # s /\ request[s].step \in {"won", "lost"}) => request[s].order # request[r].order

\* A consumed marker never shuts an order off: when the one who consumed it
\* fails, the marker is re-armed, or lost, or the order leaves the market.
ConsumedMarkerReturns ==
  \A o \in Orders :
    (status[o] = "PUBLISHED" /\ ~ marker[o] /\ known[o])
      ~> (status[o] # "PUBLISHED" \/ overdue[o] \/ marker[o] \/ ~ known[o])

\* Transactions are not rolled back and Redis does not lose its keys any more.
\* (A filtered request, or a loser Redis did not let re-arm, ends like an aborted
\* one: that is not a failure.)
Failure ==
  \/ RedisLosesKeys
  \/ \E r \in Requests : Abort(r) /\ ~ Filtered(r) /\ ~ Lose(r)
FailuresStop == <>[][~ Failure]_vars

\* When failures stop, an order people keep asking for is taken, unless its
\* deadline passes or its publisher cancels first: whatever the failures left
\* in Redis, the filter starves nobody.
WantedOrderIsTaken ==
  FailuresStop =>
    \A o \in Orders : (status[o] = "PUBLISHED") ~> (status[o] # "PUBLISHED" \/ overdue[o])

\* Once an order is off the market and past its deadline its keys vanish for
\* good: no late worker, resync or loser with an old snapshot keeps bringing
\* them back.
KeysVanish ==
  \A o \in Orders :
    <>(status[o] \in {"TAKEN", "CANCELLED"} /\ overdue[o]) => <>[](~ marker[o] /\ ~ known[o])

\* To the outside the grab is one step of the order's life: by somebody else than
\* the publisher, from PUBLISHED, with the reward in escrow all along.
Custody == [o \in Orders |-> IF status[o] \in {"PUBLISHED", "TAKEN"} THEN "escrow" ELSE "publisher"]
Lifecycle == INSTANCE OrderLifecycle WITH custody <- Custody
GrabImplementsLifecycle == Lifecycle!Spec
===============================================================================
