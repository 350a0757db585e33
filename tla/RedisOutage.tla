------------------------------ MODULE RedisOutage ------------------------------
(***************************************************************************)
(* scripts/verify_redis_outage_recovery.py and                             *)
(* scripts/benchmark_redis_fault.py, which are the same drill: Redis is    *)
(* stopped, all takers grab one order at the same time, Redis is started   *)
(* again, and an order that was created meanwhile is grabbed through the   *)
(* filter once its marker has come back.                                   *)
(*                                                                         *)
(* The two orders of the drill meet nowhere in the grab's protocol, so the *)
(* model follows one of them: the "hot" order or the "recovery" order.     *)
(***************************************************************************)
EXTENDS RedisRebuild

VARIABLES
  up,            \* Redis answers
  name,          \* the order the model follows, "none" without a drill, or "killed"
  subject,       \* that order, once it is created
  asked,         \* the takers who have asked for it
  calls,         \* their requests that are not answered yet
  spoilt,        \* a request failed, the order went away, or Redis lost its keys once more
  raised         \* an exception is on its way through the finally block

outage == <<up, name, subject, asked, calls, spoilt, raised>>
outageVars == <<rebuildVars, outage>>

OutageInit ==
  /\ RebuildInit
  /\ up = TRUE /\ name = "none" /\ subject = {} /\ asked = {} /\ calls = {}
  /\ spoilt = FALSE /\ raised = FALSE

Winners == {u \in asked : \E o \in subject : <<o, u>> \in won}

-------------------------------------------------------------------------------
(***************************************************************************)
(* The drill.                                                              *)
(***************************************************************************)

Continues(next) == Goes(next) /\ UNCHANGED <<back, rows, half, disturbed>>

Forgets ==
  subject' = {} /\ asked' = {} /\ calls' = {} /\ spoilt' = FALSE /\ raised' = FALSE

\* The script is over; the requests it has not awaited go on.
Leaves == Continues("idle") /\ Forgets /\ name' = "none"

\* Users and money, and for the hot order the order itself.
Prepares ==
  /\ At("idle") /\ name = "none"
  /\ \/ /\ name' = "hot"
        /\ \E o \in Orders, u \in Publishers : Create(o, u) /\ subject' = {o}
     \/ name' = "recovery" /\ UNCHANGED <<vars, subject>>
  /\ Continues("stop")
  /\ UNCHANGED <<up, asked, calls, spoilt, raised>>

StopsRedis ==
  /\ At("stop")
  /\ up' = FALSE
  /\ Continues(IF name = "hot" THEN "grab" ELSE "create")
  /\ UNCHANGED <<vars, name, subject, asked, calls, spoilt, raised>>

\* No key can be armed; or the call fails.
CreatesRecoveryOrder ==
  /\ At("create")
  /\ \/ /\ \E o \in Orders, u \in Publishers : Create(o, u) /\ subject' = {o}
        /\ UNCHANGED <<redis, raised>>
     \/ raised' = TRUE /\ UNCHANGED <<vars, subject>>
  /\ Continues("start")
  /\ UNCHANGED <<up, name, asked, calls, spoilt>>

\* All takers at once, during the outage.
Takers == {u \in Users : \A o \in subject : u # publisher[o]}

Asks(r, u) ==
  /\ At("grab") \/ (At("grab again") /\ asked = {})
  /\ u \in Takers \ asked
  /\ \E o \in subject : Begin(r, o, u)
  /\ asked' = asked \cup {u}
  /\ calls' = calls \cup {r}
  /\ Continues(step)
  /\ UNCHANGED <<up, name, subject, spoilt, raised>>

Answered == calls = {} /\ asked # {} /\ (At("grab") => asked = Takers)

\* "expected exactly one winner", and none of the answers is an HTTP 5xx.
ChecksAnswers ==
  /\ At("grab") /\ Answered
  /\ raised' = (Cardinality(Winners) # 1)
  /\ Continues("start")
  /\ UNCHANGED <<vars, up, name, subject, asked, calls, spoilt>>

\* The finally block.  What Redis had on its disk may be gone.
StartsRedis ==
  /\ At("start")
  /\ up' = TRUE
  /\ \/ UNCHANGED redis
     \/ marker' = [o \in Orders |-> FALSE] /\ known' = [o \in Orders |-> FALSE]
  /\ Kept
  /\ \/ raised /\ Leaves
     \/ ~raised /\ Continues(IF name = "hot" THEN "deliver" ELSE "marker")
                /\ UNCHANGED <<name, subject, asked, calls, spoilt, raised>>

\* wait_until the key exists; the deadline may pass first.
WaitsForMarker ==
  /\ At("marker")
  /\ \/ (\E o \in subject : marker[o]) /\ Continues("grab again")
                                       /\ UNCHANGED <<name, subject, asked, calls, spoilt, raised>>
     \/ Leaves
  /\ UNCHANGED <<vars, up>>

ChecksRecovery ==
  /\ At("grab again") /\ Answered
  /\ \/ Winners = asked /\ Continues("deliver")
                        /\ UNCHANGED <<name, subject, asked, calls, spoilt, raised>>
     \/ Winners # asked /\ Leaves
  /\ UNCHANGED <<vars, up>>

\* The winner delivers, or is refused, and the books are reconciled.
Delivers == At("deliver") /\ Leaves /\ UNCHANGED <<vars, up>>

\* An exception between two steps, which leads through the finally block while
\* Redis is stopped.
DrillRaises ==
  /\ step \in {"stop", "grab", "marker", "grab again"}
  /\ \/ up /\ Leaves
     \/ /\ ~up
        /\ Continues("start")
        /\ raised' = TRUE
        /\ UNCHANGED <<name, subject, asked, calls, spoilt>>
  /\ UNCHANGED <<vars, up>>

\* Redis stays down until an operator starts it.
DrillIsKilled ==
  /\ name \in {"hot", "recovery"}
  /\ Continues("idle") /\ Forgets
  /\ name' = IF up THEN "none" ELSE "killed"
  /\ UNCHANGED <<vars, up>>

OperatorStartsRedis ==
  /\ name = "killed"
  /\ up' = TRUE /\ name' = "none"
  /\ UNCHANGED <<rebuildVars, subject, asked, calls, spoilt, raised>>

Drill ==
  \/ Prepares \/ StopsRedis \/ CreatesRecoveryOrder
  \/ \E r \in Requests, u \in Users : Asks(r, u)
  \/ ChecksAnswers \/ StartsRedis \/ WaitsForMarker \/ ChecksRecovery \/ Delivers
  \/ DrillRaises \/ DrillIsKilled \/ OperatorStartsRedis

-------------------------------------------------------------------------------
(***************************************************************************)
(* The application meanwhile.                                              *)
(***************************************************************************)

\* Every call of Redis fails.
WithoutRedis ==
  /\ \/ \E o \in Orders :
          \/ \E u \in Publishers : Create(o, u)
          \/ Cancel(o) \/ DeadlinePasses(o) \/ ResyncFails(o)
     \/ ResyncReads
     \/ \E r \in Requests :
          \/ \E o \in Orders, u \in Users : Begin(r, o, u)
          \/ Unavailable(r) \/ Claim(r) \/ Commit(r) \/ Lose(r) \/ Abort(r)
     \/ \E w \in Workers : WorkerFails(w) \/ \E e \in events : WorkerReads(w, e)
  /\ UNCHANGED redis

\* Nobody but the drill asks for its order.
NoStranger ==
  \A r \in Requests : request[r] = Idle /\ request'[r] # Idle => request'[r].order \notin subject

\* The request does what GrabService does, and not just fail.
Proceeds(r) == Lose(r) \/ (IF up THEN RequestStep(r) ELSE Unavailable(r))

Spoils ==
  \/ \E r \in calls : Abort(r) /\ ~ Proceeds(r)
  \/ \E o \in subject : status'[o] = "CANCELLED" \/ overdue'[o]
  \/ RedisLosesKeys

Serves ==
  /\ IF up THEN Next ELSE WithoutRedis
  /\ NoStranger
  /\ calls' = {r \in calls : request'[r] # Idle}
  /\ spoilt' = (spoilt \/ Spoils)
  /\ Continues(step)
  /\ UNCHANGED <<up, name, subject, asked, raised>>

\* Bounds what goes on next to the drill and its requests.
Calm == Cardinality(Busy \ calls) <= Meanwhile

OutageNext ==
  \/ name = "none" /\ RebuildNext /\ UNCHANGED outage
  \/ (Drill \/ (name # "none" /\ Serves)) /\ ((name = "none")' \/ Calm')

OutageSpec == OutageInit /\ [][OutageNext]_outageVars

-------------------------------------------------------------------------------
(***************************************************************************)
(* Properties.                                                             *)
(***************************************************************************)

\* Of all who ask for the order while Redis is down, exactly one wins, and the
\* one who asks for the order of the outage after it wins too, unless the order
\* went away, one of the requests failed or Redis fails again (between the two
\* keys a worker sets, which leaves only the known one): the filter lets them
\* through while it is gone, and comes back in a state that lets them through
\* (GrabService, "expected exactly one winner", "new order did not recover").
OneWinnerOfThoseAsked ==
  (step \in {"grab", "grab again"} /\ Answered /\ ~ spoilt) => Cardinality(Winners) = 1
===============================================================================
