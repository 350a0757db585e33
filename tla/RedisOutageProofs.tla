-------------------------- MODULE RedisOutageProofs --------------------------
(***************************************************************************)
(* One winner per order, for any number of users, orders, requests in      *)
(* flight and outbox workers: the row lock that OrderRepository.claim      *)
(* keeps until its transaction ends is all it takes, whatever Redis does.  *)
(*                                                                         *)
(* The first part speaks of the application alone (Spec of GrabFilter).    *)
(* The second adds the rebuild script, the disaster recovery and the       *)
(* outage drills (OutageSpec), which do not harm the grab: most of their   *)
(* steps touch Redis only, which no part of the invariant speaks of; the   *)
(* restart of the application rolls back all transactions at once.         *)
(***************************************************************************)
EXTENDS RedisOutage, FiniteSetTheorems, TLAPS

\* An order somebody was told to have won is off the market.
WonIsClosed == \A a \in won : status[a[1]] \in {"TAKEN", "CANCELLED"}

IInv == TypeOK /\ WonIsTaker /\ WinnerStillMatches /\ WonIsClosed

LEMMA InitHolds == Init => IInv
BY GrabAssumption DEF Init, IInv, TypeOK, WonIsTaker, WinnerStillMatches, WonIsClosed, Idle,
                      RequestStates, Steps

\* Steps that leave the rows and the requests alone.
LEMMA JobStep ==
  ASSUME IInv, TypeOK', UNCHANGED <<status, taker, request, won>>
  PROVE  IInv'
BY DEF IInv, WonIsTaker, WinnerStillMatches, WonIsClosed

\* A request that starts, or ends without winning.
LEMMA RequestMoves ==
  ASSUME IInv, TypeOK', UNCHANGED <<status, taker, won>>,
         NEW r \in Requests, request'[r].step \notin {"won", "lost"},
         \A s \in Requests \ {r} : request'[s] = request[s]
  PROVE  IInv'
BY DEF IInv, WonIsTaker, WinnerStillMatches, WonIsClosed

\* The record of a request that is not idle.
LEMMA Active ==
  ASSUME TypeOK, NEW r \in Requests, request[r].step \in Steps
  PROVE  request[r] \in RequestStates
BY DEF TypeOK, Steps, Idle

LEMMA GotoType ==
  ASSUME TypeOK, NEW r \in Requests, request[r].step \in Steps,
         NEW next \in Steps, Goto(r, next)
  PROVE  /\ request' \in [Requests -> RequestStates \cup {Idle}]
         /\ request'[r] = [request[r] EXCEPT !.step = next]
         /\ \A s \in Requests \ {r} : request'[s] = request[s]
<1>1. request[r] \in RequestStates
  BY Active
<1>2. [request[r] EXCEPT !.step = next] \in RequestStates
  BY <1>1 DEF RequestStates
<1> QED BY <1>2 DEF TypeOK, Goto

LEMMA EndType ==
  ASSUME TypeOK, NEW r \in Requests, End(r)
  PROVE  /\ request' \in [Requests -> RequestStates \cup {Idle}]
         /\ request'[r] = Idle
         /\ \A s \in Requests \ {r} : request'[s] = request[s]
BY DEF TypeOK, End

LEMMA EndStep ==
  ASSUME IInv, NEW r \in Requests, End(r), UNCHANGED <<row, won, jobs>>,
         marker' \in [Orders -> BOOLEAN], known' \in [Orders -> BOOLEAN]
  PROVE  IInv'
<1>1. TypeOK'
  BY EndType DEF IInv, TypeOK, row, jobs
<1>2. request'[r].step \notin {"won", "lost"}
  BY EndType DEF IInv, Idle
<1> QED BY <1>1, <1>2, EndType, RequestMoves DEF IInv, row

\* The filter lets a request through to the UPDATE.
LEMMA PassStep ==
  ASSUME IInv, NEW r \in Requests, request[r].step = "filter", Goto(r, "claim"),
         UNCHANGED <<row, known, won, jobs>>, marker' \in [Orders -> BOOLEAN]
  PROVE  IInv'
<1>1. /\ request' \in [Requests -> RequestStates \cup {Idle}]
      /\ request'[r] = [request[r] EXCEPT !.step = "claim"]
      /\ \A s \in Requests \ {r} : request'[s] = request[s]
  BY GotoType DEF IInv, Steps
<1>2. TypeOK'
  BY <1>1 DEF IInv, TypeOK, row, jobs
<1>3. request'[r].step = "claim"
  BY <1>1, Active DEF IInv, Steps, RequestStates
<1> QED BY <1>1, <1>2, <1>3, RequestMoves DEF row

LEMMA ClaimStep ==
  ASSUME IInv, NEW r \in Requests, Claim(r)
  PROVE  IInv'
<1> DEFINE o == request[r].order
           next == IF Claimable(o, request[r].user) THEN "won" ELSE "lost"
<1>1. /\ request[r].step = "claim" /\ ~ Locked(o) /\ Goto(r, next)
      /\ UNCHANGED <<row, redis, won, jobs>>
  BY DEF Claim
<1>2. next \in Steps /\ request[r].step \in Steps
  BY <1>1 DEF Steps
<1>3. /\ request' \in [Requests -> RequestStates \cup {Idle}]
      /\ request'[r] = [request[r] EXCEPT !.step = next]
      /\ \A s \in Requests \ {r} : request'[s] = request[s]
  <2> HIDE DEF next
  <2> QED BY <1>1, <1>2, GotoType DEF IInv
<1>4. request'[r].step = next /\ request'[r].order = o
  <2> HIDE DEF next
  <2> QED BY <1>2, <1>3, Active DEF IInv, RequestStates
<1>5. TypeOK'
  BY <1>1, <1>3 DEF IInv, TypeOK, row, redis, jobs
<1>6. next = "won" => status[o] = "PUBLISHED"
  BY DEF Claimable
<1>7. \A s \in Requests \ {r} : request[s].step \in {"won", "lost"} => request[s].order # o
  BY <1>1 DEF Locked
<1>8. WinnerStillMatches'
  <2> SUFFICES ASSUME NEW q \in Requests, NEW s \in Requests, request'[q].step = "won"
               PROVE  /\ status'[request'[q].order] = "PUBLISHED"
                      /\ (q # s /\ request'[s].step \in {"won", "lost"})
                           => request'[s].order # request'[q].order
    BY DEF WinnerStillMatches
  <2>1. status' = status
    BY <1>1 DEF row
  <2> HIDE DEF next, o
  <2>2. CASE q = r
    <3>1. status'[request'[q].order] = "PUBLISHED" /\ request'[q].order = o
      BY <1>4, <1>6, <2>1, <2>2
    <3>2. CASE s # r
      <4>1. request'[s] = request[s]
        BY <1>3, <3>2
      <4> QED BY <1>7, <3>1, <3>2, <4>1
    <3> QED BY <2>2, <3>1, <3>2
  <2>3. CASE q # r
    <3>1. request'[q] = request[q]
      BY <1>3, <2>3
    <3>2. /\ status[request[q].order] = "PUBLISHED"
          /\ (q # s /\ request[s].step \in {"won", "lost"}) => request[s].order # request[q].order
      BY <3>1 DEF IInv, WinnerStillMatches
    <3>3. request[q].order # o
      BY <1>7, <2>3, <3>1
    <3>4. CASE s = r
      BY <1>4, <2>1, <3>1, <3>2, <3>3, <3>4
    <3>5. CASE s # r
      BY <1>3, <2>1, <3>1, <3>2, <3>5
    <3> QED BY <3>4, <3>5
  <2> QED BY <2>2, <2>3
<1> QED BY <1>1, <1>5, <1>8 DEF IInv, WonIsTaker, WonIsClosed, row

LEMMA CommitStep ==
  ASSUME IInv, NEW r \in Requests, Commit(r)
  PROVE  IInv'
<1> DEFINE o == request[r].order
           u == request[r].user
<1>1. /\ request[r].step = "won" /\ End(r)
      /\ status' = [status EXCEPT ![o] = "TAKEN"]
      /\ taker' = [taker EXCEPT ![o] = u]
      /\ won' = won \cup {<<o, u>>}
      /\ UNCHANGED <<publisher, overdue, redis, jobs>>
  BY DEF Commit
<1>2. o \in Orders /\ u \in Users
  BY <1>1, Active DEF IInv, Steps, RequestStates
<1>3. request'[r] = Idle /\ \A s \in Requests \ {r} : request'[s] = request[s]
  BY <1>1, EndType DEF IInv
<1>4. TypeOK'
  <2>1. request' \in [Requests -> RequestStates \cup {Idle}]
    BY <1>1, EndType DEF IInv
  <2> HIDE DEF o, u
  <2>2. /\ status' \in [Orders -> {"NONE", "PUBLISHED", "TAKEN", "CANCELLED"}]
        /\ taker' \in [Orders -> Users \cup {NoUser}]
        /\ won' \subseteq Orders \X Users
    BY <1>1, <1>2 DEF IInv, TypeOK
  <2>3. UNCHANGED <<publisher, overdue, marker, known, events, worker, todo>>
    BY <1>1 DEF redis, jobs
  <2>4. \A x \in Orders : /\ status'[x] # "NONE" => publisher'[x] \in Users
                          /\ status'[x] = "TAKEN" => taker'[x] \in Users
    <3>1. status[o] # "NONE"
      BY <1>1 DEF IInv, WinnerStillMatches, o
    <3> QED BY <1>1, <1>2, <2>3, <3>1 DEF IInv, TypeOK
  <2> QED BY <2>1, <2>2, <2>3, <2>4 DEF IInv, TypeOK
<1>5. \A a \in won : a[1] # o
  BY <1>1 DEF IInv, WinnerStillMatches, WonIsClosed
<1>6. WonIsTaker' /\ WonIsClosed'
  <2> HIDE DEF o, u
  <2> QED BY <1>1, <1>2, <1>5 DEF IInv, TypeOK, WonIsTaker, WonIsClosed
<1>7. WinnerStillMatches'
  <2>1. \A s \in Requests \ {r} : request[s].step \in {"won", "lost"} => request[s].order # o
    BY <1>1 DEF IInv, WinnerStillMatches
  <2>2. request'[r].step \notin {"won", "lost"}
    BY <1>3 DEF Idle
  <2> HIDE DEF o
  <2> QED BY <1>1, <1>3, <2>1, <2>2 DEF IInv, TypeOK, WinnerStillMatches
<1> QED BY <1>4, <1>6, <1>7 DEF IInv

LEMMA CreateStep ==
  ASSUME IInv, NEW o \in Orders, NEW u \in Users, Create(o, u)
  PROVE  IInv'
<1>1. TypeOK'
  <2>1. marker' \in [Orders -> BOOLEAN] /\ known' \in [Orders -> BOOLEAN]
    BY DEF IInv, TypeOK, Create
  <2>2. /\ status' \in [Orders -> {"NONE", "PUBLISHED", "TAKEN", "CANCELLED"}]
        /\ publisher' \in [Orders -> Users \cup {NoUser}]
        /\ events' \subseteq EventTypes \X Orders
    BY DEF IInv, TypeOK, Create, EventTypes
  <2>3. UNCHANGED <<taker, overdue, request, won, worker, todo>>
    BY DEF Create
  <2>4. \A x \in Orders : /\ status'[x] # "NONE" => publisher'[x] \in Users
                          /\ status'[x] = "TAKEN" => taker'[x] \in Users
    BY <2>3 DEF IInv, TypeOK, Create
  <2> QED BY <2>1, <2>2, <2>3, <2>4 DEF IInv, TypeOK
<1>2. /\ status[o] = "NONE" /\ status' = [status EXCEPT ![o] = "PUBLISHED"]
      /\ UNCHANGED <<taker, request, won>>
  BY DEF Create
<1>3. \A x \in Orders : status[x] # "NONE" => status'[x] = status[x]
  BY <1>2 DEF IInv, TypeOK
<1>4. WonIsTaker' /\ WonIsClosed'
  BY <1>2, <1>3 DEF IInv, TypeOK, WonIsTaker, WonIsClosed
<1>5. \A r \in Requests : request[r].step = "won" => request[r].order \in Orders
  BY Active DEF IInv, Steps, RequestStates
<1>6. WinnerStillMatches'
  BY <1>2, <1>3, <1>5 DEF IInv, WinnerStillMatches
<1> QED BY <1>1, <1>4, <1>6 DEF IInv

LEMMA CancelStep ==
  ASSUME IInv, NEW o \in Orders, Cancel(o)
  PROVE  IInv'
<1>1. TypeOK'
  BY DEF IInv, TypeOK, Cancel, redis, EventTypes
<1>2. /\ ~ Locked(o) /\ status' = [status EXCEPT ![o] = "CANCELLED"]
      /\ UNCHANGED <<taker, request, won>>
  BY DEF Cancel
<1> QED BY <1>1, <1>2 DEF IInv, TypeOK, WonIsTaker, WinnerStillMatches, WonIsClosed, Locked

LEMMA BeginStep ==
  ASSUME IInv, NEW r \in Requests, NEW o \in Orders, NEW u \in Users, Begin(r, o, u)
  PROVE  IInv'
<1> DEFINE q == [step |-> "filter", order |-> o, user |-> u, seen |-> status[o]]
<1>1. request' = [request EXCEPT ![r] = q] /\ UNCHANGED <<row, redis, won, jobs>>
  BY DEF Begin
<1>2. q \in RequestStates
  BY DEF Begin, IInv, TypeOK, RequestStates, Steps
<1>3. TypeOK' /\ request'[r] = q /\ \A s \in Requests \ {r} : request'[s] = request[s]
  <2> HIDE DEF q
  <2> QED BY <1>1, <1>2 DEF IInv, TypeOK, row, redis, jobs
<1>4. request'[r].step \notin {"won", "lost"}
  BY <1>3
<1> QED BY <1>1, <1>3, <1>4, RequestMoves DEF row

LEMMA NextStep ==
  ASSUME IInv, [Next]_vars
  PROVE  IInv'
<1>1. ASSUME NEW o \in Orders, NEW u \in Publishers, Create(o, u) PROVE IInv'
  BY <1>1, CreateStep, GrabAssumption
<1>2. ASSUME NEW o \in Orders, Cancel(o) PROVE IInv'
  BY <1>2, CancelStep
<1>3. ASSUME NEW o \in Orders, DeadlinePasses(o) \/ KeysExpire(o) \/ ResyncRearms(o) \/ ResyncFails(o)
      PROVE  IInv'
  <2>1. TypeOK' /\ UNCHANGED <<status, taker, request, won>>
    BY <1>3 DEF IInv, TypeOK, DeadlinePasses, KeysExpire, ResyncRearms, ResyncFails, Rearm,
                row, redis, jobs
  <2> QED BY <2>1, JobStep
<1>4. ASSUME RedisLosesKeys \/ ResyncReads PROVE IInv'
  <2>1. TypeOK' /\ UNCHANGED <<status, taker, request, won>>
    BY <1>4 DEF IInv, TypeOK, RedisLosesKeys, ResyncReads, row, redis, jobs
  <2> QED BY <2>1, JobStep
<1>5. ASSUME NEW r \in Requests, NEW o \in Orders, NEW u \in Users, Begin(r, o, u) PROVE IInv'
  BY <1>5, BeginStep
<1>6. ASSUME NEW r \in Requests, RequestStep(r) PROVE IInv'
  <2>1. CASE Filtered(r)
    BY <2>1, EndStep DEF Filtered, IInv, TypeOK, redis
  <2>2. CASE Pass(r)
    <3>1. marker' \in [Orders -> BOOLEAN]
      BY <2>2 DEF Pass, IInv, TypeOK
    <3> QED BY <2>2, <3>1, PassStep DEF Pass
  <2>3. CASE Missing(r)
    BY <2>3, PassStep DEF Missing, IInv, TypeOK, redis
  <2>4. CASE Unavailable(r)
    <3>1. marker' \in [Orders -> BOOLEAN]
      BY <2>4 DEF Unavailable, IInv, TypeOK
    <3> QED BY <2>4, <3>1, PassStep DEF Unavailable
  <2> QED BY <1>6, <2>1, <2>2, <2>3, <2>4 DEF RequestStep
<1>7. ASSUME NEW r \in Requests, Claim(r) PROVE IInv'
  BY <1>7, ClaimStep
<1>8. ASSUME NEW r \in Requests, Commit(r) PROVE IInv'
  BY <1>8, CommitStep
<1>9. ASSUME NEW r \in Requests, Lose(r) PROVE IInv'
  <2>1. marker' \in [Orders -> BOOLEAN] /\ known' \in [Orders -> BOOLEAN]
    BY <1>9 DEF Lose, Rearm, IInv, TypeOK, redis
  <2> QED BY <1>9, <2>1, EndStep DEF Lose
<1>10. ASSUME NEW r \in Requests, Abort(r) PROVE IInv'
  BY <1>10, EndStep DEF Abort, IInv, TypeOK, redis
<1>11. ASSUME NEW w \in Workers, (\E e \in events : WorkerReads(w, e)) \/ WorkerStep(w) \/ WorkerFails(w)
       PROVE  IInv'
  <2>1. worker[w] \in WorkerStates \cup {Idle}
    BY DEF IInv, TypeOK
  <2>2. worker[w] # Idle => worker[w].event \in EventTypes \X Orders
    BY <2>1 DEF WorkerStates
  <2>3. TypeOK' /\ UNCHANGED <<status, taker, request, won>>
    <3>1. CASE \E e \in events : WorkerReads(w, e)
      <4>1. PICK e \in events : WorkerReads(w, e)
        BY <3>1
      <4> DEFINE q == [step |-> IF e[1] = "ORDER_PUBLISHED" THEN "marker" ELSE "remove",
                       event |-> e]
      <4>2. q \in WorkerStates
        BY DEF IInv, TypeOK, WorkerStates
      <4>3. worker' \in [Workers -> WorkerStates \cup {Idle}]
        BY <4>1, <4>2 DEF WorkerReads, IInv, TypeOK
      <4> QED BY <4>1, <4>3 DEF WorkerReads, IInv, TypeOK, row, redis
    <3>2. CASE WorkerSetsMarker(w)
      <4>1. [worker[w] EXCEPT !.step = "known"] \in WorkerStates
        BY <2>1, <3>2 DEF WorkerSetsMarker, WorkerStates, Idle
      <4>2. worker' \in [Workers -> WorkerStates \cup {Idle}]
        BY <3>2, <4>1 DEF WorkerSetsMarker, IInv, TypeOK
      <4> QED BY <3>2, <4>2 DEF WorkerSetsMarker, IInv, TypeOK, row
    <3>3. CASE WorkerSetsKnown(w)
      BY <3>3 DEF WorkerSetsKnown, IInv, TypeOK, row
    <3>4. CASE WorkerRemoves(w)
      BY <3>4 DEF WorkerRemoves, IInv, TypeOK, row
    <3>5. CASE WorkerFails(w)
      BY <3>5 DEF WorkerFails, IInv, TypeOK, row, redis
    <3> QED BY <1>11, <3>1, <3>2, <3>3, <3>4, <3>5 DEF WorkerStep
  <2> QED BY <2>3, JobStep
<1>12. CASE UNCHANGED vars
  <2>1. TypeOK' /\ UNCHANGED <<status, taker, request, won>>
    BY <1>12 DEF IInv, TypeOK, vars, row, redis, jobs
  <2> QED BY <2>1, JobStep
<1> QED
  BY <1>1, <1>2, <1>3, <1>4, <1>5, <1>6, <1>7, <1>8, <1>9, <1>10, <1>11, <1>12 DEF Next

LEMMA Invariance == Spec => []IInv
<1>1. Init => IInv
  BY InitHolds
<1>2. IInv /\ [Next]_vars => IInv'
  BY NextStep
<1> QED BY <1>1, <1>2, PTL DEF Spec

\* Whoever was told WON is the taker on record, in every reachable state.
THEOREM OneWinner == Spec => []WonIsTaker
<1>1. IInv => WonIsTaker
  BY DEF IInv
<1> QED BY <1>1, Invariance, PTL

-------------------------------------------------------------------------------
(***************************************************************************)
(* The grab implements the abstract order life cycle.                      *)
(***************************************************************************)

\* Nobody wins an order of their own.
WinnerIsAnother ==
  \A r \in Requests : request[r].step = "won" => request[r].user # publisher[request[r].order]

LEMMA WinnerIsAnotherStep ==
  ASSUME IInv, WinnerIsAnother, [Next]_vars
  PROVE  WinnerIsAnother'
<1>1. ASSUME NEW o \in Orders, NEW u \in Publishers, Create(o, u) PROVE WinnerIsAnother'
  <2>1. /\ status[o] = "NONE" /\ UNCHANGED request
        /\ publisher' = [publisher EXCEPT ![o] = u]
    BY <1>1 DEF Create
  <2>2. \A r \in Requests : request[r].step = "won" => request[r].order # o
    BY <2>1 DEF IInv, WinnerStillMatches
  <2> QED BY <2>1, <2>2 DEF WinnerIsAnother, IInv, TypeOK
<1>2. ASSUME UNCHANGED publisher, NEW r \in Requests, request'[r].step # "won",
             \A s \in Requests \ {r} : request'[s] = request[s]
      PROVE  WinnerIsAnother'
  BY <1>2 DEF WinnerIsAnother
<1>3. ASSUME NEW r \in Requests, End(r), UNCHANGED publisher PROVE WinnerIsAnother'
  <2>1. request'[r].step # "won" /\ \A s \in Requests \ {r} : request'[s] = request[s]
    BY <1>3, EndType DEF IInv, Idle
  <2> QED BY <1>2, <1>3, <2>1
<1>4. ASSUME NEW r \in Requests, request[r].step = "filter", Goto(r, "claim"), UNCHANGED publisher
      PROVE  WinnerIsAnother'
  <2>1. /\ request'[r] = [request[r] EXCEPT !.step = "claim"]
        /\ \A s \in Requests \ {r} : request'[s] = request[s]
    BY <1>4, GotoType DEF IInv, Steps
  <2>2. request'[r].step # "won"
    BY <1>4, <2>1, Active DEF IInv, Steps, RequestStates
  <2> QED BY <1>2, <1>4, <2>1, <2>2
<1>5. ASSUME NEW r \in Requests, NEW o \in Orders, NEW u \in Users, Begin(r, o, u)
      PROVE  WinnerIsAnother'
  <2>1. request'[r].step # "won" /\ \A s \in Requests \ {r} : request'[s] = request[s]
    BY <1>5 DEF Begin, IInv, TypeOK
  <2> QED BY <1>2, <1>5, <2>1 DEF Begin, row
<1>6. ASSUME NEW r \in Requests, Claim(r) PROVE WinnerIsAnother'
  <2> DEFINE o == request[r].order
             u == request[r].user
             next == IF Claimable(o, u) THEN "won" ELSE "lost"
  <2>1. request[r].step = "claim" /\ Goto(r, next) /\ UNCHANGED publisher
    BY <1>6 DEF Claim, row
  <2>2. next \in Steps /\ request[r].step \in Steps
    BY <2>1 DEF Steps
  <2>3. next = "won" => u # publisher[o]
    BY DEF Claimable
  <2>4. /\ request'[r] = [request[r] EXCEPT !.step = next]
        /\ \A s \in Requests \ {r} : request'[s] = request[s]
    <3> HIDE DEF next
    <3> QED BY <2>1, <2>2, GotoType DEF IInv
  <2>5. request'[r].step = next /\ request'[r].order = o /\ request'[r].user = u
    <3> HIDE DEF next
    <3> QED BY <2>2, <2>4, Active DEF IInv, RequestStates
  <2> HIDE DEF next, o, u
  <2>6. SUFFICES ASSUME NEW s \in Requests, request'[s].step = "won"
                 PROVE  request'[s].user # publisher'[request'[s].order]
    BY DEF WinnerIsAnother
  <2>7. CASE s = r
    BY <2>1, <2>3, <2>5, <2>6, <2>7
  <2>8. CASE s # r
    <3>1. request'[s] = request[s]
      BY <2>4, <2>8
    <3> QED BY <2>1, <2>6, <3>1 DEF WinnerIsAnother
  <2> QED BY <2>7, <2>8
<1>7. ASSUME UNCHANGED <<publisher, request>> PROVE WinnerIsAnother'
  BY <1>7 DEF WinnerIsAnother
<1>8. ASSUME NEW r \in Requests, RequestStep(r) PROVE WinnerIsAnother'
  BY <1>3, <1>4, <1>8 DEF RequestStep, Filtered, Pass, Missing, Unavailable, row
<1>9. ASSUME NEW r \in Requests, Commit(r) \/ Lose(r) \/ Abort(r) PROVE WinnerIsAnother'
  BY <1>3, <1>9 DEF Commit, Lose, Abort, row
<1>10. ASSUME NEW o \in Orders, Cancel(o) \/ DeadlinePasses(o) \/ KeysExpire(o)
                                \/ ResyncRearms(o) \/ ResyncFails(o)
       PROVE  WinnerIsAnother'
  BY <1>7, <1>10 DEF Cancel, DeadlinePasses, KeysExpire, ResyncRearms, ResyncFails, row
<1>11. CASE RedisLosesKeys \/ ResyncReads \/ UNCHANGED vars
  BY <1>7, <1>11 DEF RedisLosesKeys, ResyncReads, vars, row
<1>12. ASSUME NEW w \in Workers, (\E e \in events : WorkerReads(w, e)) \/ WorkerStep(w) \/ WorkerFails(w)
       PROVE  WinnerIsAnother'
  BY <1>7, <1>12 DEF WorkerReads, WorkerStep, WorkerSetsMarker, WorkerSetsKnown, WorkerRemoves,
                     WorkerFails, row
<1> QED
  BY <1>1, <1>5, <1>6, <1>8, <1>9, <1>10, <1>11, <1>12 DEF Next

LEMMA LifecycleStep ==
  ASSUME IInv, WinnerIsAnother, [Next]_vars
  PROVE  [Lifecycle!Next]_(Lifecycle!vars)
<1>1. ASSUME UNCHANGED <<status, publisher, taker>> PROVE UNCHANGED Lifecycle!vars
  BY <1>1 DEF Lifecycle!vars, Custody
<1>2. ASSUME NEW o \in Orders, NEW u \in Publishers, Create(o, u)
      PROVE  \E p \in Users : Lifecycle!Publish(o, p)
  <2>1. Custody' = [Custody EXCEPT ![o] = "escrow"]
    BY <1>2 DEF Custody, Create, IInv, TypeOK
  <2> QED BY <1>2, <2>1, GrabAssumption DEF Create, Lifecycle!Publish, Lifecycle!Becomes
<1>3. ASSUME NEW r \in Requests, Commit(r)
      PROVE  \E o \in Orders, u \in Users : Lifecycle!Take(o, u)
  <2> DEFINE o == request[r].order
             u == request[r].user
  <2>1. o \in Orders /\ u \in Users
    BY <1>3, Active DEF Commit, IInv, Steps, RequestStates
  <2>2. u # publisher[o] /\ status[o] = "PUBLISHED"
    BY <1>3 DEF Commit, WinnerIsAnother, IInv, WinnerStillMatches
  <2>3. /\ status' = [status EXCEPT ![o] = "TAKEN"] /\ taker' = [taker EXCEPT ![o] = u]
        /\ UNCHANGED publisher
    BY <1>3 DEF Commit
  <2> HIDE DEF o, u
  <2>4. Custody' = Custody
    BY <2>1, <2>2, <2>3 DEF Custody, IInv, TypeOK
  <2> QED BY <2>1, <2>2, <2>3, <2>4 DEF Lifecycle!Take, Lifecycle!Becomes
<1>4. ASSUME NEW o \in Orders, Cancel(o) PROVE Lifecycle!Cancel(o)
  <2>1. Custody' = [Custody EXCEPT ![o] = "publisher"]
    BY <1>4 DEF Custody, Cancel, IInv, TypeOK
  <2> QED BY <1>4, <2>1 DEF Cancel, Lifecycle!Cancel, Lifecycle!Becomes
<1>5. ASSUME NEW o \in Orders, DeadlinePasses(o) \/ KeysExpire(o) \/ ResyncRearms(o) \/ ResyncFails(o)
      PROVE  UNCHANGED Lifecycle!vars
  BY <1>1, <1>5 DEF DeadlinePasses, KeysExpire, ResyncRearms, ResyncFails, row
<1>6. CASE RedisLosesKeys \/ ResyncReads \/ UNCHANGED vars
  BY <1>1, <1>6 DEF RedisLosesKeys, ResyncReads, vars, row
<1>7. ASSUME NEW r \in Requests, (\E o \in Orders, u \in Users : Begin(r, o, u))
                                 \/ RequestStep(r) \/ Claim(r) \/ Lose(r) \/ Abort(r)
      PROVE  UNCHANGED Lifecycle!vars
  BY <1>1, <1>7 DEF Begin, RequestStep, Filtered, Pass, Missing, Unavailable, Claim, Lose, Abort, row
<1>8. ASSUME NEW w \in Workers, (\E e \in events : WorkerReads(w, e)) \/ WorkerStep(w) \/ WorkerFails(w)
      PROVE  UNCHANGED Lifecycle!vars
  BY <1>1, <1>8 DEF WorkerReads, WorkerStep, WorkerSetsMarker, WorkerSetsKnown, WorkerRemoves,
                    WorkerFails, row
<1> QED
  BY <1>2, <1>3, <1>4, <1>5, <1>6, <1>7, <1>8 DEF Next, Lifecycle!Next

\* To the outside a grab, with all its requests, jobs and Redis calls, is the one
\* step Take of OrderLifecycle; everything else leaves the order alone.
THEOREM GrabIsOneStep == Spec => GrabImplementsLifecycle
<1>1. Init => IInv /\ WinnerIsAnother /\ Lifecycle!Init
  <2> SUFFICES ASSUME Init PROVE IInv /\ WinnerIsAnother /\ Lifecycle!Init
    OBVIOUS
  <2>1. Custody = [o \in Orders |-> "publisher"]
    BY DEF Init, Custody
  <2> QED BY <2>1, InitHolds DEF Init, WinnerIsAnother, Idle, Lifecycle!Init
<1>2. IInv /\ WinnerIsAnother /\ [Next]_vars => IInv' /\ WinnerIsAnother'
  BY NextStep, WinnerIsAnotherStep
<1>3. IInv /\ WinnerIsAnother /\ [Next]_vars => [Lifecycle!Next]_(Lifecycle!vars)
  BY LifecycleStep
<1> QED BY <1>1, <1>2, <1>3, PTL DEF Spec, GrabImplementsLifecycle, Lifecycle!Spec

-------------------------------------------------------------------------------
(***************************************************************************)
(* Next to the scripts and drills.                                         *)
(***************************************************************************)

\* The invariants of the grab, and the drill's order is an order.
OInv == IInv /\ WinnerIsAnother /\ subject \subseteq Orders

Grabbing == IInv /\ WinnerIsAnother

\* A step of the grab's module, or one that leaves its rows and requests alone.
Harmless == [Lifecycle!Next]_(Lifecycle!vars) /\ Grabbing'

LEMMA AppStep ==
  ASSUME Grabbing, [Next]_vars
  PROVE  Harmless
BY NextStep, WinnerIsAnotherStep, LifecycleStep DEF Grabbing, Harmless

\* What a script does to the keys, and to nothing else.
LEMMA KeysStep ==
  ASSUME Grabbing, Kept, marker' \in [Orders -> BOOLEAN], known' \in [Orders -> BOOLEAN]
  PROVE  Harmless
<1>1. TypeOK' /\ UNCHANGED <<status, publisher, taker, request, won>>
  BY DEF Grabbing, IInv, TypeOK, Kept, row, jobs
<1>2. IInv'
  BY <1>1, JobStep DEF Grabbing
<1>3. WinnerIsAnother' /\ UNCHANGED Lifecycle!vars
  BY <1>1 DEF Grabbing, WinnerIsAnother, Lifecycle!vars, Custody
<1> QED BY <1>2, <1>3 DEF Harmless, Grabbing

LEMMA NothingStep ==
  ASSUME Grabbing, UNCHANGED vars
  PROVE  Harmless
BY AppStep

\* All transactions are rolled back, and nobody is told anything.
LEMMA RestartStep ==
  ASSUME Grabbing, RestartsApp
  PROVE  Harmless
<1>1. TypeOK'
  BY DEF RestartsApp, Grabbing, IInv, TypeOK, row, redis
<1>2. \A r \in Requests : request'[r] = Idle
  BY DEF RestartsApp
<1>3. UNCHANGED <<status, publisher, taker, won>>
  BY DEF RestartsApp, row
<1>4. IInv'
  BY <1>1, <1>2, <1>3 DEF Grabbing, IInv, WonIsTaker, WinnerStillMatches, WonIsClosed, Idle
<1>5. WinnerIsAnother'
  BY <1>2 DEF WinnerIsAnother, Idle
<1>6. UNCHANGED Lifecycle!vars
  BY <1>3 DEF Lifecycle!vars, Custody
<1> QED BY <1>4, <1>5, <1>6 DEF Harmless, Grabbing

\* rebuild_redis_state.py and run_disaster_recovery_drill.py.
LEMMA ScriptStep ==
  ASSUME Grabbing, Script
  PROVE  Harmless
<1>1. marker \in [Orders -> BOOLEAN] /\ known \in [Orders -> BOOLEAN]
  BY DEF Grabbing, IInv, TypeOK
<1>2. CASE OperatorRebuilds \/ Rebuilt \/ Fails \/ BacksUp \/ Restores \/ EndsRound
  BY <1>2, NothingStep DEF OperatorRebuilds, Rebuilt, Fails, BacksUp, Restores, EndsRound
<1>3. CASE DeletesMarkers \/ DeletesKnown \/ Selects \/ Flushes \/ RestartsRedis
  <2>1. Kept /\ marker' \in [Orders -> BOOLEAN] /\ known' \in [Orders -> BOOLEAN]
    BY <1>1, <1>3 DEF DeletesMarkers, DeletesKnown, Selects, Flushes, RestartsRedis, redis
  <2> QED BY <2>1, KeysStep
<1>4. ASSUME NEW o \in Orders, SetsMarker(o) \/ SetsKnown(o)
      PROVE  Harmless
  <2>1. Kept /\ marker' \in [Orders -> BOOLEAN] /\ known' \in [Orders -> BOOLEAN]
    BY <1>1, <1>4 DEF SetsMarker, SetsKnown
  <2> QED BY <2>1, KeysStep
<1> QED BY <1>2, <1>3, <1>4, RestartStep DEF Script

\* Without Redis the application takes some of its steps.
LEMMA WithoutRedisStep == WithoutRedis => Next
BY DEF WithoutRedis, Next, RequestStep

\* verify_redis_outage_recovery.py and benchmark_redis_fault.py.
LEMMA DrillStep ==
  ASSUME Grabbing, subject \subseteq Orders, Drill
  PROVE  Harmless /\ subject' \subseteq Orders
<1>1. marker \in [Orders -> BOOLEAN] /\ known \in [Orders -> BOOLEAN]
  BY DEF Grabbing, IInv, TypeOK
<1>2. CASE Prepares \/ CreatesRecoveryOrder
  <2>1. [Next]_vars
    BY <1>2 DEF Prepares, CreatesRecoveryOrder, Next
  <2>2. subject' \subseteq Orders
    BY <1>2 DEF Prepares, CreatesRecoveryOrder
  <2> QED BY <2>1, <2>2, AppStep
<1>3. ASSUME NEW r \in Requests, NEW u \in Users, Asks(r, u)
      PROVE  Harmless /\ subject' \subseteq Orders
  <2>1. PICK o \in subject : Begin(r, o, u)
    BY <1>3 DEF Asks
  <2>2. Next /\ UNCHANGED subject
    BY <1>3, <2>1 DEF Asks, Next
  <2> QED BY <2>2, AppStep
<1>4. CASE StartsRedis
  <2>1. Kept /\ marker' \in [Orders -> BOOLEAN] /\ known' \in [Orders -> BOOLEAN]
    BY <1>1, <1>4 DEF StartsRedis, redis
  <2>2. subject' \subseteq Orders
    BY <1>4 DEF StartsRedis, Leaves, Forgets
  <2> QED BY <2>1, <2>2, KeysStep
<1>5. CASE \/ StopsRedis \/ ChecksAnswers \/ WaitsForMarker \/ ChecksRecovery \/ Delivers
           \/ DrillRaises \/ DrillIsKilled \/ OperatorStartsRedis
  <2>1. UNCHANGED vars
    BY <1>5 DEF StopsRedis, ChecksAnswers, WaitsForMarker, ChecksRecovery, Delivers,
                DrillRaises, DrillIsKilled, OperatorStartsRedis, rebuildVars
  <2>2. subject' \subseteq Orders
    BY <1>5 DEF StopsRedis, ChecksAnswers, WaitsForMarker, ChecksRecovery, Delivers,
                DrillRaises, DrillIsKilled, OperatorStartsRedis, Leaves, Forgets
  <2> QED BY <2>1, <2>2, NothingStep
<1> QED BY <1>2, <1>3, <1>4, <1>5 DEF Drill

LEMMA OutageStep ==
  ASSUME OInv, [OutageNext]_outageVars
  PROVE  Harmless /\ OInv'
<1>1. CASE RebuildNext /\ UNCHANGED outage
  <2>1. Harmless
    BY <1>1, ScriptStep, AppStep DEF RebuildNext, Others, OInv, Grabbing
  <2> QED BY <1>1, <2>1 DEF outage, OInv, Harmless, Grabbing
<1>2. CASE Drill
  BY <1>2, DrillStep DEF OInv, Harmless, Grabbing
<1>3. CASE Serves
  <2>1. Harmless
    BY <1>3, WithoutRedisStep, AppStep DEF Serves, OInv, Grabbing
  <2> QED BY <1>3, <2>1 DEF Serves, OInv, Harmless, Grabbing
<1>4. CASE UNCHANGED outageVars
  <2>1. Harmless
    BY <1>4, NothingStep DEF outageVars, rebuildVars, OInv, Grabbing
  <2> QED BY <1>4, <2>1 DEF outageVars, outage, OInv, Harmless, Grabbing
<1> QED BY <1>1, <1>2, <1>3, <1>4 DEF OutageNext

LEMMA OutageBegins ==
  ASSUME OutageInit
  PROVE  OInv /\ Lifecycle!Init
<1>1. Init /\ subject = {}
  BY DEF OutageInit, RebuildInit
<1>2. Custody = [o \in Orders |-> "publisher"]
  BY <1>1 DEF Init, Custody
<1> QED BY <1>1, <1>2, InitHolds DEF OInv, Init, WinnerIsAnother, Idle, Lifecycle!Init

LEMMA OutageInvariance == OutageSpec => []OInv
<1>1. OutageInit => OInv
  BY OutageBegins
<1>2. OInv /\ [OutageNext]_outageVars => OInv'
  BY OutageStep
<1> QED BY <1>1, <1>2, PTL DEF OutageSpec

\* The columns keep their types next to the scripts, too.
THEOREM OutageTypeCorrect == OutageSpec => []TypeOK
<1>1. OInv => TypeOK
  BY DEF OInv, IInv
<1> QED BY <1>1, OutageInvariance, PTL

\* An order has one winner at most, whoever stops, flushes, rebuilds or restarts
\* Redis and the application, and whenever (GrabService.grab).
THEOREM OneWinnerThroughOutages == OutageSpec => []WonIsTaker
<1>1. OInv => WonIsTaker
  BY DEF OInv, IInv
<1> QED BY <1>1, OutageInvariance, PTL

\* A transaction that will commit as the winner still matches what its UPDATE
\* matched, and is alone with the row, next to the scripts, too.
THEOREM WinnerMatchesThroughOutages == OutageSpec => []WinnerStillMatches
<1>1. OInv => WinnerStillMatches
  BY DEF OInv, IInv
<1> QED BY <1>1, OutageInvariance, PTL

\* Next to the scripts a grab stays the one step Take of OrderLifecycle, and what
\* the scripts do to Redis and the application is no step of an order at all.
THEOREM GrabIsOneStepThroughOutages == OutageSpec => GrabImplementsLifecycle
<1>1. OutageInit => Lifecycle!Init
  BY OutageBegins
<1>2. OInv /\ [OutageNext]_outageVars => [Lifecycle!Next]_(Lifecycle!vars)
  BY OutageStep DEF Harmless
<1> QED BY <1>1, <1>2, OutageInvariance, PTL
        DEF OutageSpec, GrabImplementsLifecycle, Lifecycle!Spec

-------------------------------------------------------------------------------
(***************************************************************************)
(* A rebuild leaves exactly the keys of the published orders.  The         *)
(* invariant says how far it has come, as long as nobody disturbs it.  The *)
(* outage drills do not run next to a rebuild.                             *)
(***************************************************************************)

DrillSteps == {"stop", "grab", "create", "start", "marker", "grab again", "deliver"}

Published(o) == status[o] = "PUBLISHED"

\* The keys of the rows that are handled are there, those of the others are not.
KeysSoFar ==
  /\ \A o \in rows : Published(o)
  /\ \A o \in Orders : /\ marker[o] <=> Published(o) /\ o \notin rows \ half
                       /\ known[o] <=> Published(o) /\ o \notin rows

KeysExact == \A o \in Orders : (marker[o] <=> Published(o)) /\ (known[o] <=> Published(o))

Progress ==
  ~ disturbed =>
    /\ At("known") => \A o \in Orders : ~ marker[o]
    /\ At("select") => \A o \in Orders : ~ marker[o] /\ ~ known[o]
    /\ At("set") => KeysSoFar
    /\ step \in {"restart", "app", "healthy"} => KeysExact

\* half is empty but between the two SETs of a row.
ScriptOrder ==
  /\ half \subseteq rows
  /\ ~ At("set") => half = {}
  /\ name # "none" => step \in DrillSteps \cup {"idle"}

BInv == OInv /\ Progress /\ ScriptOrder

\* The orders and the keys stand still.
LEMMA StillProgress ==
  ASSUME Progress, ~ disturbed' => ~ disturbed, UNCHANGED <<row, redis, step, rows, half>>
  PROVE  Progress'
BY DEF Progress, KeysSoFar, KeysExact, Published, At, row, redis

LEMMA ScriptProgress ==
  ASSUME Grabbing, Progress, ScriptOrder, name = "none", name' = name, Script
  PROVE  Progress' /\ ScriptOrder'
<1> USE DEF At, Goes
<1>1. marker \in [Orders -> BOOLEAN] /\ known \in [Orders -> BOOLEAN]
  BY DEF Grabbing, IInv, TypeOK
<1>2. CASE OperatorRebuilds \/ Flushes \/ RestartsRedis
  <2>1. step' = "stock" /\ UNCHANGED <<rows, half>> /\ ~ At("set")
    BY <1>2 DEF OperatorRebuilds, Flushes, RestartsRedis, Rebuilds
  <2> QED BY <2>1 DEF Progress, ScriptOrder
<1>3. CASE Fails \/ BacksUp \/ Restores
  <2>1. /\ step' \in {"idle", "restore", "flush"}
        /\ \/ UNCHANGED <<rows, half>> /\ ~ At("set")
           \/ half' = {} /\ rows' = {}
    BY <1>3 DEF Fails, Ends, BacksUp, Restores
  <2> QED BY <2>1 DEF Progress, ScriptOrder
<1>4. CASE DeletesMarkers
  <2>1. \A o \in Orders : ~ marker'[o]
    BY <1>4 DEF DeletesMarkers
  <2>2. step' = "known" /\ ~ At("set") /\ UNCHANGED <<rows, half>>
    BY <1>4 DEF DeletesMarkers
  <2> QED BY <2>1, <2>2 DEF Progress, ScriptOrder
<1>5. CASE DeletesKnown
  <2>1. /\ \A o \in Orders : ~ known'[o]
        /\ step' = "select" /\ ~ At("set") /\ At("known")
        /\ UNCHANGED <<marker, rows, half, disturbed>>
    BY <1>5 DEF DeletesKnown
  <2> QED BY <2>1 DEF Progress, ScriptOrder
<1>6. CASE Selects
  <2>1. /\ rows' = {o \in Orders : Published(o)} /\ half' = {} /\ At("select") /\ step' = "set"
        /\ UNCHANGED <<marker, known, status, disturbed>>
    BY <1>6 DEF Selects, Kept, row, redis, ScriptOrder, Published
  <2> QED BY <2>1 DEF Progress, ScriptOrder, KeysSoFar, Published
<1>7. ASSUME NEW o \in Orders, SetsMarker(o)
      PROVE  Progress' /\ ScriptOrder'
  <2>1. /\ At("set") /\ step' = step /\ half = {} /\ half' = {o} /\ o \in rows
        /\ marker' = [marker EXCEPT ![o] = TRUE]
        /\ UNCHANGED <<known, rows, status, disturbed>>
    BY <1>7 DEF SetsMarker, Kept, row
  <2>2. marker'[o] /\ \A p \in Orders \ {o} : marker'[p] <=> marker[p]
    BY <1>1, <2>1
  <2>3. KeysSoFar => KeysSoFar'
    BY <2>1, <2>2 DEF KeysSoFar, Published
  <2> QED BY <2>1, <2>3 DEF Progress, ScriptOrder
<1>8. ASSUME NEW o \in Orders, SetsKnown(o)
      PROVE  Progress' /\ ScriptOrder'
  <2>1. /\ At("set") /\ step' = step /\ half = {o} /\ half' = {} /\ rows' = rows \ {o}
        /\ known' = [known EXCEPT ![o] = TRUE]
        /\ UNCHANGED <<marker, status, disturbed>>
    BY <1>8 DEF SetsKnown, Kept, row
  <2>2. known'[o] /\ \A p \in Orders \ {o} : known'[p] <=> known[p]
    BY <1>1, <2>1
  <2>3. o \in rows
    BY <2>1 DEF ScriptOrder
  <2>4. KeysSoFar => KeysSoFar'
    BY <2>1, <2>2, <2>3 DEF KeysSoFar, Published
  <2> QED BY <2>1, <2>4 DEF Progress, ScriptOrder
<1>9. CASE Rebuilt
  <2>1. At("set") /\ rows = {} /\ half = {} /\ UNCHANGED <<marker, known, status>>
    BY <1>9 DEF Rebuilt, ScriptOrder, vars, row, redis
  <2>2. \/ step' = "idle" /\ rows' = {} /\ half' = {}
        \/ step' \in {"restart", "app"} /\ UNCHANGED <<rows, half, disturbed>>
    BY <1>9 DEF Rebuilt, Ends
  <2>3. KeysSoFar => KeysExact'
    BY <2>1 DEF KeysSoFar, KeysExact, Published
  <2> QED BY <2>1, <2>2, <2>3 DEF Progress, ScriptOrder
<1>10. CASE RestartsApp
  <2>1. At("app") /\ step' = "healthy" /\ UNCHANGED <<marker, known, status, rows, half, disturbed>>
    BY <1>10 DEF RestartsApp, row, redis
  <2> QED BY <2>1 DEF Progress, ScriptOrder, KeysExact, Published
<1>11. CASE EndsRound
  <2>1. \/ step' = "idle" /\ half' = {} /\ rows' = {}
        \/ At("healthy") /\ step' = "flush" /\ UNCHANGED <<rows, half>>
    BY <1>11 DEF EndsRound, Ends
  <2> QED BY <2>1 DEF Progress, ScriptOrder
<1> QED BY <1>2, <1>3, <1>4, <1>5, <1>6, <1>7, <1>8, <1>9, <1>10, <1>11 DEF Script

\* Next to a rebuild, others either disturb it or write nothing it looks at.
LEMMA OthersProgress ==
  ASSUME Progress, ScriptOrder, name' = name, Others
  PROVE  Progress' /\ ScriptOrder'
<1>1. /\ UNCHANGED <<step, rows, half>>
      /\ disturbed' <=> ~ At("idle") /\ (disturbed \/ <<row, redis>>' # <<row, redis>>)
  BY Zenon DEF Others
<1>2. CASE At("idle")
  BY <1>1, <1>2 DEF Progress, ScriptOrder, At
<1>3. CASE ~ At("idle")
  <2>1. ~ disturbed' => ~ disturbed /\ UNCHANGED <<row, redis>>
    BY <1>1, <1>3, Zenon
  <2>2. CASE disturbed'
    <3>1. Progress'
      BY <2>2 DEF Progress
    <3> QED BY <1>1, <3>1 DEF ScriptOrder, At
  <2>3. CASE ~ disturbed'
    <3>1. Progress'
      BY <1>1, <2>1, <2>3, StillProgress, Zenon
    <3> QED BY <1>1, <3>1 DEF ScriptOrder, At
  <2> QED BY <2>2, <2>3
<1> QED BY <1>2, <1>3

\* The drills run when no rebuild does.
LEMMA DrillProgress ==
  ASSUME ScriptOrder, Drill
  PROVE  Progress' /\ ScriptOrder'
<1> USE DEF At, Goes, Continues, DrillSteps
<1>1. step \in DrillSteps \cup {"idle"}
  BY DEF Drill, Prepares, StopsRedis, CreatesRecoveryOrder, Asks, ChecksAnswers, StartsRedis,
         WaitsForMarker, ChecksRecovery, Delivers, DrillRaises, DrillIsKilled, OperatorStartsRedis,
         ScriptOrder
<1>2. /\ step' \in DrillSteps \cup {"idle"}
      /\ UNCHANGED <<rows, half>>
  BY <1>1 DEF Drill, Prepares, StopsRedis, CreatesRecoveryOrder, Asks, ChecksAnswers, StartsRedis,
              WaitsForMarker, ChecksRecovery, Delivers, DrillRaises, DrillIsKilled,
              OperatorStartsRedis, Leaves, rebuildVars, script
<1> QED BY <1>1, <1>2 DEF Progress, ScriptOrder

LEMMA RebuildStep ==
  ASSUME BInv, [OutageNext]_outageVars
  PROVE  BInv'
<1>1. OInv'
  BY OutageStep DEF BInv
<1>2. Grabbing
  BY DEF BInv, OInv, Grabbing
<1>3. CASE name = "none" /\ RebuildNext /\ UNCHANGED outage
  <2>1. name' = name
    BY <1>3 DEF outage
  <2> QED BY <1>1, <1>2, <1>3, <2>1, ScriptProgress, OthersProgress DEF RebuildNext, BInv
<1>4. CASE Drill
  BY <1>1, <1>4, DrillProgress DEF BInv
<1>5. CASE name # "none" /\ Serves
  <2>1. step \in DrillSteps \cup {"idle"} /\ UNCHANGED <<step, rows, half, name>>
    BY <1>5 DEF BInv, ScriptOrder, Serves, Continues, Goes
  <2> QED BY <1>1, <2>1 DEF BInv, Progress, ScriptOrder, At, DrillSteps
<1>6. CASE UNCHANGED outageVars
  <2>1. UNCHANGED <<row, redis, step, rows, half, disturbed, name>>
    BY <1>6 DEF outageVars, rebuildVars, vars, script, outage
  <2> QED BY <1>1, <2>1, StillProgress DEF BInv, ScriptOrder, At
<1> QED BY <1>3, <1>4, <1>5, <1>6 DEF OutageNext

LEMMA RebuildInvariance == OutageSpec => []BInv
<1>1. OutageInit => BInv
  BY OutageBegins DEF BInv, OutageInit, RebuildInit, Progress, ScriptOrder, At
<1>2. BInv /\ [OutageNext]_outageVars => BInv'
  BY RebuildStep
<1> QED BY <1>1, <1>2, PTL DEF OutageSpec

\* Whatever mess Redis was in, a rebuild that nobody disturbs leaves exactly the
\* keys of the published orders, and so does the round of the recovery drill.
THEOREM RebuildLeavesExactKeys == OutageSpec => []RebuildIsExact
<1>1. BInv => RebuildIsExact
  <2> SUFFICES ASSUME BInv, ~ disturbed,
                      (At("set") /\ rows = {}) \/ step \in {"restart", "app", "healthy"},
                      NEW o \in Orders
               PROVE  marker[o] = (status[o] = "PUBLISHED") /\ known[o] = marker[o]
    BY DEF RebuildIsExact
  <2>1. marker[o] \in BOOLEAN /\ known[o] \in BOOLEAN
    BY DEF BInv, OInv, IInv, TypeOK
  <2>2. (marker[o] <=> Published(o)) /\ (known[o] <=> Published(o))
    BY DEF BInv, Progress, KeysSoFar, KeysExact
  <2> QED BY <2>1, <2>2 DEF Published
<1> QED BY <1>1, RebuildInvariance, PTL

-------------------------------------------------------------------------------
(***************************************************************************)
(* Of all who ask for the drill's order exactly one wins.  Facts is what   *)
(* the grab's own module keeps besides IInv; Followed says what becomes of *)
(* the order and its requests, as long as nothing spoils the round.        *)
(***************************************************************************)

Facts ==
  /\ \A o \in Orders : status[o] = "NONE" => ~ overdue[o]
  /\ \A o \in Orders : status[o] \in {"NONE", "PUBLISHED"} => taker[o] = NoUser
  /\ \A o \in Orders : status[o] = "TAKEN" => <<o, taker[o]>> \in won
  /\ \A r \in Requests : request[r].step \in Steps => status[request[r].order] # "NONE"
  /\ \A o \in Orders : <<"ORDER_TERMINAL", o>> \in events => status[o] = "CANCELLED"
  /\ \A w \in Workers : worker[w].step = "remove" => status[worker[w].event[2]] = "CANCELLED"

\* Steps that write no row and begin no request.
LEMMA FactsStay ==
  ASSUME Facts, UNCHANGED <<row, won>>, events' \subseteq events,
         \A r \in Requests : request'[r].step \in Steps =>
            request[r].step \in Steps /\ request'[r].order = request[r].order,
         \A w \in Workers : worker'[w].step = "remove" =>
            \/ worker'[w] = worker[w]
            \/ <<"ORDER_TERMINAL", worker'[w].event[2]>> \in events /\ worker'[w].event[2] \in Orders
  PROVE  Facts'
BY DEF Facts, row

\* A request's own steps; all others leave it alone.
OwnStep(r) ==
  \/ \E o \in Orders, u \in Users : Begin(r, o, u)
  \/ RequestStep(r) \/ Claim(r) \/ Commit(r) \/ Lose(r) \/ Abort(r)

\* What a step does to a request that was there before.
LEMMA OwnStepMoves ==
  ASSUME TypeOK, NEW r \in Requests, OwnStep(r)
  PROVE  /\ \A s \in Requests \ {r} : request'[s] = request[s]
         /\ request[r].step \in Steps =>
              \/ request'[r] = Idle
              \/ request'[r] = [request[r] EXCEPT !.step = request'[r].step]
                 /\ request'[r].step \in {"claim", "won", "lost"}
         /\ request[r].step \in Steps \/ request[r] = Idle
<1>1. CASE \E o \in Orders, u \in Users : Begin(r, o, u)
  BY <1>1 DEF Begin, TypeOK, Idle, Steps
<1>2. ASSUME request[r].step \in Steps, NEW next \in {"claim", "won", "lost"}, Goto(r, next)
      PROVE  /\ \A s \in Requests \ {r} : request'[s] = request[s]
             /\ request'[r] = [request[r] EXCEPT !.step = next]
             /\ request'[r].step = next
  <2>1. /\ \A s \in Requests \ {r} : request'[s] = request[s]
        /\ request'[r] = [request[r] EXCEPT !.step = next]
    BY <1>2, GotoType DEF Steps
  <2> QED BY <1>2, <2>1, Active DEF RequestStates
<1>3. CASE request[r].step \in Steps /\ End(r)
  BY <1>3, EndType
<1>4. CASE RequestStep(r) \/ Claim(r)
  <2>1. request[r].step \in Steps /\ (End(r) \/ \E next \in {"claim", "won", "lost"} : Goto(r, next))
    BY <1>4 DEF RequestStep, Filtered, Pass, Missing, Unavailable, Claim, Steps
  <2> QED BY <1>2, <1>3, <2>1
<1>5. CASE Commit(r) \/ Lose(r) \/ Abort(r)
  BY <1>3, <1>5 DEF Commit, Lose, Abort, Steps
<1> QED BY <1>1, <1>4, <1>5 DEF OwnStep

LEMMA RequestFrame ==
  ASSUME TypeOK, Next, NEW r \in Requests
  PROVE  request'[r] = request[r] \/ OwnStep(r)
<1>1. CASE \E s \in Requests : OwnStep(s)
  BY <1>1, OwnStepMoves
<1>2. CASE UNCHANGED request
  BY <1>2
<1> QED BY <1>1, <1>2 DEF Next, OwnStep, Create, Cancel, DeadlinePasses, KeysExpire, ResyncRearms,
           ResyncFails, RedisLosesKeys, ResyncReads, WorkerReads, WorkerStep, WorkerSetsMarker,
           WorkerSetsKnown, WorkerRemoves, WorkerFails

LEMMA FactsOfRequests ==
  ASSUME IInv, Facts, NEW r \in Requests, OwnStep(r)
  PROVE  Facts'
<1>1. TypeOK
  BY DEF IInv
<1>2. CASE \E o \in Orders, u \in Users : Begin(r, o, u)
  <2>1. PICK o \in Orders, u \in Users : Begin(r, o, u)
    BY <1>2
  <2>2. /\ \A s \in Requests \ {r} : request'[s] = request[s]
        /\ request'[r].order = o /\ status[o] # "NONE"
        /\ UNCHANGED <<row, won, events, worker>>
    BY <2>1 DEF Begin, IInv, TypeOK, jobs
  <2> QED BY <2>2 DEF Facts, row
<1>3. ASSUME ~ Commit(r), RequestStep(r) \/ Claim(r) \/ Lose(r) \/ Abort(r)
      PROVE  Facts'
  <2>1. UNCHANGED <<row, won, events, worker>> /\ request[r].step \in Steps
    BY <1>3 DEF RequestStep, Filtered, Pass, Missing, Unavailable, Claim, Lose, Abort, jobs, Steps
  <2>2. \A s \in Requests : request'[s].step \in Steps =>
            request[s].step \in Steps /\ request'[s].order = request[s].order
    <3>1. \A s \in Requests \ {r} : request'[s] = request[s]
      BY <1>1, <1>3, OwnStepMoves DEF OwnStep
    <3>2. request'[r] = Idle \/ request'[r] = [request[r] EXCEPT !.step = request'[r].step]
      BY <1>1, <1>3, <2>1, OwnStepMoves DEF OwnStep
    <3>3. request[r] \in RequestStates
      BY <1>1, <2>1, Active
    <3>4. request'[r].step \in Steps => request'[r].order = request[r].order
      BY <3>2, <3>3 DEF RequestStates, Idle, Steps
    <3> QED BY <2>1, <3>1, <3>4
  <2> QED BY <2>1, <2>2, FactsStay
<1>4. CASE Commit(r)
  <2> DEFINE o == request[r].order
             u == request[r].user
  <2>1. /\ request[r].step = "won"
        /\ status' = [status EXCEPT ![o] = "TAKEN"] /\ taker' = [taker EXCEPT ![o] = u]
        /\ won' = won \cup {<<o, u>>}
        /\ UNCHANGED <<overdue, events, worker>>
    BY <1>4 DEF Commit, jobs
  <2>2. o \in Orders /\ status[o] = "PUBLISHED"
    BY <1>1, <2>1, Active DEF IInv, WinnerStillMatches, Steps, RequestStates
  <2>3. /\ \A s \in Requests \ {r} : request'[s] = request[s]
        /\ request'[r] = Idle
    BY <1>1, <1>4, EndType DEF Commit
  <2> HIDE DEF o, u
  <2>4. \A p \in Orders \ {o} : status'[p] = status[p] /\ taker'[p] = taker[p]
    BY <2>1 DEF IInv, TypeOK
  <2>5. status'[o] = "TAKEN" /\ taker'[o] = u
    BY <2>1, <2>2 DEF IInv, TypeOK
  <2>6. \A s \in Requests : request'[s].step \in Steps => status'[request'[s].order] # "NONE"
    <3>1. \A s \in Requests \ {r} : request[s].step \in Steps =>
            request[s].order \in Orders /\ status[request[s].order] # "NONE"
      BY <1>1, Active DEF RequestStates, Facts
    <3> QED BY <2>3, <2>4, <2>5, <3>1 DEF Idle, Steps
  <2>7. \A w \in Workers : worker'[w].step = "remove" => status'[worker'[w].event[2]] = "CANCELLED"
    <3>1. \A w \in Workers : worker[w].step = "remove" =>
            worker[w].event[2] \in Orders /\ status[worker[w].event[2]] = "CANCELLED"
      BY DEF Facts, IInv, TypeOK, WorkerStates, Idle
    <3> QED BY <2>1, <2>2, <2>4, <3>1
  <2>8. \A p \in Orders : status'[p] = "TAKEN" => <<p, taker'[p]>> \in won'
    BY <2>1, <2>4, <2>5 DEF Facts
  <2> QED BY <2>1, <2>2, <2>4, <2>5, <2>6, <2>7, <2>8 DEF Facts
<1> QED BY <1>2, <1>3, <1>4 DEF OwnStep

LEMMA FactsStep ==
  ASSUME IInv, Facts, [Next]_vars
  PROVE  Facts'
<1>1. ASSUME NEW o \in Orders, NEW u \in Publishers, Create(o, u)
      PROVE  Facts'
  <2>1. /\ status[o] = "NONE" /\ status' = [status EXCEPT ![o] = "PUBLISHED"]
        /\ events' = events \cup {<<"ORDER_PUBLISHED", o>>}
        /\ UNCHANGED <<taker, overdue, request, won, worker>>
    BY <1>1 DEF Create
  <2>2. /\ status'[o] = "PUBLISHED"
        /\ \A p \in Orders \ {o} : status'[p] = status[p]
    BY <2>1 DEF IInv, TypeOK
  <2>3. \A r \in Requests : request[r].step \in Steps =>
          request[r].order \in Orders /\ status[request[r].order] # "NONE"
    BY Active DEF Facts, IInv, RequestStates
  <2>4. \A w \in Workers : worker[w].step = "remove" =>
          worker[w].event[2] \in Orders /\ status[worker[w].event[2]] = "CANCELLED"
    BY DEF Facts, IInv, TypeOK, WorkerStates, Idle
  <2> QED BY <2>1, <2>2, <2>3, <2>4 DEF Facts
<1>2. ASSUME NEW o \in Orders, Cancel(o)
      PROVE  Facts'
  <2>1. /\ status[o] # "NONE" /\ status' = [status EXCEPT ![o] = "CANCELLED"]
        /\ events' = events \cup {<<"ORDER_TERMINAL", o>>}
        /\ UNCHANGED <<taker, overdue, request, won, worker>>
    BY <1>2 DEF Cancel
  <2>2. /\ status'[o] = "CANCELLED"
        /\ \A p \in Orders \ {o} : status'[p] = status[p]
    BY <2>1 DEF IInv, TypeOK
  <2>3. \A r \in Requests : request[r].step \in Steps =>
          request[r].order \in Orders /\ status[request[r].order] # "NONE"
    BY Active DEF Facts, IInv, RequestStates
  <2>4. \A w \in Workers : worker[w].step = "remove" =>
          worker[w].event[2] \in Orders /\ status[worker[w].event[2]] = "CANCELLED"
    BY DEF Facts, IInv, TypeOK, WorkerStates, Idle
  <2> QED BY <2>1, <2>2, <2>3, <2>4 DEF Facts
<1>3. ASSUME NEW o \in Orders, DeadlinePasses(o)
      PROVE  Facts'
  BY <1>3 DEF DeadlinePasses, Facts, IInv, TypeOK, jobs
<1>4. ASSUME UNCHANGED <<row, won, request, events, worker>>
      PROVE  Facts'
  BY <1>4, FactsStay
<1>5. CASE \E o \in Orders : KeysExpire(o) \/ ResyncRearms(o) \/ ResyncFails(o)
  BY <1>4, <1>5 DEF KeysExpire, ResyncRearms, ResyncFails, jobs
<1>6. CASE RedisLosesKeys \/ ResyncReads \/ UNCHANGED vars
  BY <1>4, <1>6 DEF RedisLosesKeys, ResyncReads, vars, jobs
<1>7. ASSUME NEW r \in Requests, OwnStep(r)
      PROVE  Facts'
  BY <1>7, FactsOfRequests
<1>8. ASSUME NEW w \in Workers, (\E e \in events : WorkerReads(w, e)) \/ WorkerStep(w) \/ WorkerFails(w)
      PROVE  Facts'
  <2>1. UNCHANGED <<row, won, request>> /\ events' \subseteq events
    BY <1>8 DEF WorkerReads, WorkerStep, WorkerSetsMarker, WorkerSetsKnown, WorkerRemoves, WorkerFails
  <2>2. \A v \in Workers \ {w} : worker'[v] = worker[v]
    BY <1>8 DEF WorkerReads, WorkerStep, WorkerSetsMarker, WorkerSetsKnown, WorkerRemoves, WorkerFails,
                IInv, TypeOK
  <2>3. worker'[w].step = "remove" =>
          \/ worker'[w] = worker[w]
          \/ <<"ORDER_TERMINAL", worker'[w].event[2]>> \in events /\ worker'[w].event[2] \in Orders
    <3>1. CASE \E e \in events : WorkerReads(w, e)
      <4>1. PICK e \in events : WorkerReads(w, e)
        BY <3>1
      <4>2. e = <<e[1], e[2]>> /\ e[1] \in EventTypes /\ e[2] \in Orders
        BY DEF IInv, TypeOK
      <4>3. \/ worker' = worker
            \/ worker' = [worker EXCEPT ![w] =
                 [step |-> IF e[1] = "ORDER_PUBLISHED" THEN "marker" ELSE "remove", event |-> e]]
        BY <4>1 DEF WorkerReads
      <4>4. \/ worker'[w] = worker[w]
            \/ worker'[w] = [step |-> IF e[1] = "ORDER_PUBLISHED" THEN "marker" ELSE "remove",
                             event |-> e]
        BY <4>3 DEF IInv, TypeOK
      <4>5. e[1] = "ORDER_PUBLISHED" \/ e[1] = "ORDER_TERMINAL"
        BY <4>2 DEF EventTypes
      <4> QED BY <4>2, <4>4, <4>5
    <3>2. CASE WorkerSetsMarker(w)
      <4>1. worker[w].step = "marker" /\ worker' = [worker EXCEPT ![w].step = "known"]
        BY <3>2 DEF WorkerSetsMarker
      <4>2. worker[w] \in WorkerStates
        BY <4>1 DEF IInv, TypeOK, Idle
      <4>3. worker'[w] = [worker[w] EXCEPT !.step = "known"]
        BY <4>1 DEF IInv, TypeOK
      <4>4. worker'[w].step = "known"
        BY <4>2, <4>3 DEF WorkerStates
      <4> QED BY <4>4
    <3>3. CASE WorkerSetsKnown(w) \/ WorkerRemoves(w) \/ WorkerFails(w)
      <4>1. worker'[w] = Idle
        BY <3>3 DEF WorkerSetsKnown, WorkerRemoves, WorkerFails, IInv, TypeOK
      <4> QED BY <4>1 DEF Idle
    <3> QED BY <1>8, <3>1, <3>2, <3>3 DEF WorkerStep
  <2> QED BY <2>1, <2>2, <2>3, FactsStay
<1> QED
  BY <1>1, <1>2, <1>3, <1>5, <1>6, <1>7, <1>8 DEF Next, OwnStep

LEMMA FactsOutageStep ==
  ASSUME OInv, Facts, [OutageNext]_outageVars
  PROVE  Facts'
<1>1. ASSUME [Next]_vars PROVE Facts'
  BY <1>1, FactsStep DEF OInv
<1>2. ASSUME Kept PROVE Facts'
  <2>1. UNCHANGED <<row, won, request, events, worker>>
    BY <1>2 DEF Kept, jobs
  <2> QED BY <2>1, FactsStay
<1>3. ASSUME UNCHANGED vars PROVE Facts'
  BY <1>1, <1>3
<1>4. CASE Script
  <2>1. CASE OperatorRebuilds \/ Rebuilt \/ Fails \/ BacksUp \/ Restores \/ EndsRound
    BY <1>3, <2>1 DEF OperatorRebuilds, Rebuilt, Fails, BacksUp, Restores, EndsRound
  <2>2. CASE DeletesMarkers \/ DeletesKnown \/ Selects \/ Flushes \/ RestartsRedis
    BY <1>2, <2>2 DEF DeletesMarkers, DeletesKnown, Selects, Flushes, RestartsRedis
  <2>3. ASSUME NEW o \in Orders, SetsMarker(o) \/ SetsKnown(o)
        PROVE  Facts'
    BY <1>2, <2>3 DEF SetsMarker, SetsKnown
  <2>4. CASE RestartsApp
    BY <2>4, FactsStay DEF RestartsApp, Idle, Steps
  <2> QED BY <1>4, <2>1, <2>2, <2>3, <2>4 DEF Script
<1>5. CASE RebuildNext
  BY <1>1, <1>4, <1>5 DEF RebuildNext, Others
<1>6. CASE Serves
  BY <1>1, <1>6, WithoutRedisStep DEF Serves
<1>7. CASE Drill
  <2>1. CASE Prepares \/ CreatesRecoveryOrder
    BY <1>1, <2>1 DEF Prepares, CreatesRecoveryOrder, Next
  <2>2. ASSUME NEW r \in Requests, NEW u \in Users, Asks(r, u)
        PROVE  Facts'
    <3>1. PICK o \in subject : Begin(r, o, u)
      BY <2>2 DEF Asks
    <3> QED BY <1>1, <2>2, <3>1 DEF OInv, Next
  <2>3. CASE StartsRedis
    BY <1>2, <2>3 DEF StartsRedis
  <2>4. CASE \/ StopsRedis \/ ChecksAnswers \/ WaitsForMarker \/ ChecksRecovery \/ Delivers
             \/ DrillRaises \/ DrillIsKilled \/ OperatorStartsRedis
    BY <1>3, <2>4 DEF StopsRedis, ChecksAnswers, WaitsForMarker, ChecksRecovery, Delivers,
                DrillRaises, DrillIsKilled, OperatorStartsRedis, rebuildVars
  <2> QED BY <1>7, <2>1, <2>2, <2>3, <2>4 DEF Drill
<1>8. CASE UNCHANGED outageVars
  BY <1>3, <1>8 DEF outageVars, rebuildVars
<1> QED BY <1>5, <1>6, <1>7, <1>8 DEF OutageNext

\* Where the drill stands, and what it has at hand there.
Phases ==
  /\ calls \subseteq Requests /\ asked \subseteq Users
  /\ step \in DrillSteps => name \in {"hot", "recovery"}
  /\ name \in {"none", "killed"} => subject = {} /\ asked = {} /\ calls = {}
  /\ \A o, p \in subject : o = p
  /\ \/ step \in {"grab", "marker", "grab again"}
     \/ step = "start" /\ ~ raised
     \/ step = "stop" /\ name = "hot"
     => subject # {}
  /\ step = "stop" \/ step = "create" => asked = {} /\ calls = {}
  /\ step = "stop" /\ name = "recovery" => subject = {}
  /\ step \in {"start", "marker"} /\ name = "recovery" => asked = {} /\ calls = {}
  /\ step = "start" /\ ~ raised => calls = {}
  /\ step = "grab" => name = "hot" /\ ~ up
  /\ step = "start" => ~ up
  /\ step \in {"marker", "grab again"} => name = "recovery" /\ up
  /\ step = "create" => name = "recovery" /\ ~ up /\ subject = {}
  /\ up /\ calls # {} => step = "grab again"

LEMMA PhasesStep ==
  ASSUME ScriptOrder, Phases, [OutageNext]_outageVars
  PROVE  Phases'
<1> USE DEF At, Goes, Continues
<1>1. CASE name = "none" /\ RebuildNext /\ UNCHANGED outage
  <2>1. step \notin DrillSteps
    BY <1>1 DEF Phases
  <2>2. step' \notin DrillSteps
    BY <1>1, <2>1 DEF RebuildNext, Script, OperatorRebuilds, Rebuilds, DeletesMarkers, DeletesKnown,
                      Selects, SetsMarker, SetsKnown, Rebuilt, Fails, Ends, BacksUp, Restores,
                      Flushes, RestartsRedis, RestartsApp, EndsRound, Others, DrillSteps
  <2> QED BY <1>1, <2>2 DEF Phases, outage, DrillSteps
<1>2. CASE Serves
  BY <1>2 DEF Serves, Phases
<1>3. CASE Prepares
  BY <1>3 DEF Prepares, Phases, DrillSteps
<1>4. CASE StopsRedis
  BY <1>4 DEF StopsRedis, Phases, DrillSteps
<1>12. CASE CreatesRecoveryOrder
  <2>1. /\ step = "create" /\ step' = "start"
        /\ raised' \/ subject' # {}
        /\ \A o, p \in subject' : o = p
        /\ UNCHANGED <<up, name, asked, calls>>
    BY <1>12 DEF CreatesRecoveryOrder, Phases
  <2> QED BY <2>1 DEF Phases, DrillSteps
<1>5. ASSUME NEW r \in Requests, NEW u \in Users, Asks(r, u)
      PROVE  Phases'
  <2>1. /\ step \in {"grab", "grab again"}
        /\ asked' = asked \cup {u} /\ calls' = calls \cup {r}
        /\ UNCHANGED <<step, up, name, subject, raised>>
    BY <1>5 DEF Asks
  <2>2. calls' \subseteq Requests /\ asked' \subseteq Users
    BY <2>1 DEF Phases
  <2>3. name \notin {"none", "killed"} /\ (up /\ step # "grab again" => calls' = {})
    BY <2>1 DEF Phases, DrillSteps
  <2> QED BY <2>1, <2>2, <2>3 DEF Phases, DrillSteps
<1>6. CASE ChecksAnswers
  <2>1. /\ step = "grab" /\ calls = {} /\ step' = "start"
        /\ UNCHANGED <<up, name, subject, asked, calls>>
    BY <1>6 DEF ChecksAnswers, Answered
  <2> QED BY <2>1 DEF Phases, DrillSteps
<1>11. CASE StartsRedis
  <2>1. CASE raised /\ Leaves
    BY <2>1 DEF Leaves, Forgets, Phases, DrillSteps
  <2>2. CASE ~ raised /\ ~ Leaves
    <3>1. /\ step = "start" /\ up' = TRUE
          /\ step' = IF name = "hot" THEN "deliver" ELSE "marker"
          /\ UNCHANGED <<name, subject, asked, calls, raised>>
      BY <1>11, <2>2 DEF StartsRedis
    <3>2. calls = {} /\ subject # {} /\ name \in {"hot", "recovery"}
      BY <2>2, <3>1 DEF Phases, DrillSteps
    <3> QED BY <3>1, <3>2 DEF Phases, DrillSteps
  <2>3. (raised /\ Leaves) \/ ~ raised
    BY <1>11 DEF StartsRedis
  <2>4. CASE ~ raised /\ Leaves
    BY <2>4 DEF Leaves, Forgets, Phases, DrillSteps
  <2> QED BY <2>1, <2>2, <2>3, <2>4
<1>7. CASE WaitsForMarker \/ ChecksRecovery \/ Delivers
  BY <1>7 DEF WaitsForMarker, ChecksRecovery, Delivers, Answered, Leaves, Forgets, Phases, DrillSteps
<1>8. CASE DrillRaises
  BY <1>8 DEF DrillRaises, Leaves, Forgets, Phases, DrillSteps
<1>9. CASE DrillIsKilled \/ OperatorStartsRedis
  BY <1>9 DEF DrillIsKilled, OperatorStartsRedis, Forgets, Phases, DrillSteps, rebuildVars, script
<1>10. CASE UNCHANGED outageVars
  BY <1>10 DEF outageVars, outage, rebuildVars, script, Phases
<1> QED BY <1>1, <1>2, <1>3, <1>4, <1>5, <1>6, <1>7, <1>8, <1>9, <1>10, <1>11, <1>12
    DEF OutageNext, Drill

LEMMA PhasesBegin == OutageInit => Phases
BY DEF OutageInit, RebuildInit, Phases, DrillSteps
\* What Followed says of the drill's order: all requests for it are the drill's,
\* they lose to a winner only, and whoever may still be filtered finds the marker.
Round(o) ==
  /\ status[o] \in {"PUBLISHED", "TAKEN"} /\ ~ overdue[o]
  /\ \A r \in Requests : request[r].step \in Steps /\ request[r].order = o => r \in calls
  /\ \A r \in calls :
       /\ request[r].step \in Steps /\ request[r].order = o
       /\ request[r].user \in asked /\ request[r].user # publisher[o]
       /\ request[r].step = "lost" => status[o] = "TAKEN"
  /\ \A u \in Users : <<o, u>> \in won => u \in asked
  /\ asked # {} /\ calls = {} => status[o] = "TAKEN"
  /\ At("grab again") =>
       /\ \A r, s \in calls : r = s
       /\ asked = {} \/ (\E r \in calls : request[r].step = "filter") => marker[o]

Followed == ~ spoilt => \A o \in subject : Round(o)

LEMMA Forgotten == ASSUME subject' = {} PROVE Followed'
BY DEF Followed

LEMMA RoundStays ==
  ASSUME Followed, UNCHANGED <<row, request, won, subject, asked, calls, spoilt>>,
         step' = "grab again" => calls = {} /\ \A o \in subject : marker'[o]
  PROVE  Followed'
<1> SUFFICES ASSUME ~ spoilt, NEW o \in subject
             PROVE  Round(o)'
  BY DEF Followed
<1>1. Round(o)
  BY DEF Followed
<1> QED BY <1>1 DEF Round, row, At

\* The drill's order is created: nobody has asked for it yet.
LEMMA RoundStarts ==
  ASSUME OInv, Facts, NEW o \in Orders, NEW u \in Publishers, Create(o, u), subject' = {o},
         asked' = {}, calls' = {}, step' # "grab again"
  PROVE  Followed'
<1>1. /\ status[o] = "NONE" /\ status' = [status EXCEPT ![o] = "PUBLISHED"]
      /\ UNCHANGED <<overdue, request, won>>
  BY DEF Create
<1>2. status'[o] = "PUBLISHED" /\ ~ overdue'[o]
  BY <1>1 DEF OInv, IInv, TypeOK, Facts
<1>3. \A r \in Requests : request'[r].step \in Steps => request'[r].order # o
  BY <1>1 DEF Facts
<1>4. \A v \in Users : <<o, v>> \notin won'
  BY <1>1 DEF OInv, IInv, WonIsClosed
<1> QED BY <1>2, <1>3, <1>4 DEF Followed, Round, At

LEMMA AsksStep ==
  ASSUME OInv, Phases, Followed, NEW r \in Requests, NEW u \in Users, Asks(r, u)
  PROVE  Followed'
<1>1. /\ asked' = asked \cup {u} /\ calls' = calls \cup {r}
      /\ UNCHANGED <<subject, spoilt, step>>
      /\ At("grab again") => asked = {}
      /\ u \in Takers
  BY DEF Asks, Continues, Goes, At
<1> SUFFICES ASSUME ~ spoilt, NEW o \in subject
             PROVE  Round(o)'
  BY <1>1 DEF Followed
<1>2. Round(o)
  BY DEF Followed
<1>3. o \in Orders /\ Begin(r, o, u)
  BY DEF OInv, Phases, Asks
<1>4. /\ request' = [request EXCEPT ![r] =
                        [step |-> "filter", order |-> o, user |-> u, seen |-> status[o]]]
      /\ UNCHANGED <<row, redis, won>>
  BY <1>3 DEF Begin
<1>5. /\ request'[r] = [step |-> "filter", order |-> o, user |-> u, seen |-> status[o]]
      /\ \A s \in Requests \ {r} : request'[s] = request[s]
  BY <1>4 DEF OInv, IInv, TypeOK
<1>6. u # publisher[o] /\ UNCHANGED <<status, publisher>>
  BY <1>1, <1>4 DEF Takers, row
<1>7. calls \subseteq Requests
  BY DEF Phases
<1>8. /\ status'[o] \in {"PUBLISHED", "TAKEN"} /\ ~ overdue'[o]
      /\ \A v \in Users : <<o, v>> \in won' => v \in asked'
  BY <1>1, <1>2, <1>4 DEF Round, row
<1>9. \A s \in Requests : request'[s].step \in Steps /\ request'[s].order = o => s \in calls'
  BY <1>1, <1>2, <1>5 DEF Round
<1>10. ASSUME NEW s \in calls'
       PROVE  /\ request'[s].step \in Steps /\ request'[s].order = o
              /\ request'[s].user \in asked' /\ request'[s].user # publisher'[o]
              /\ request'[s].step = "lost" => status'[o] = "TAKEN"
  <2>1. CASE s = r
    <3>1. /\ request'[s].step = "filter" /\ request'[s].order = o /\ request'[s].user = u
      BY <1>5, <2>1
    <3>2. u \in asked'
      BY <1>1
    <3> QED BY <1>6, <3>1, <3>2 DEF Steps
  <2>2. CASE s # r
    <3>1. s \in calls /\ request'[s] = request[s]
      BY <1>1, <1>5, <1>7, <2>2
    <3>2. /\ request[s].step \in Steps /\ request[s].order = o
          /\ request[s].user \in asked /\ request[s].user # publisher[o]
          /\ request[s].step = "lost" => status[o] = "TAKEN"
      BY <1>2, <3>1 DEF Round
    <3>3. request'[s].user \in asked'
      BY <1>1, <3>1, <3>2
    <3> QED BY <1>6, <3>1, <3>2, <3>3
  <2> QED BY <2>1, <2>2
<1>11. At("grab again") => calls = {} /\ marker[o]
  BY <1>1, <1>2 DEF Round
<1>12. step' = "grab again" => calls' = {r} /\ marker'[o]
  BY <1>1, <1>4, <1>11 DEF At, redis
<1>13. calls' # {}
  BY <1>1
<1> QED BY <1>8, <1>9, <1>10, <1>12, <1>13 DEF Round, At

\* An order is not taken back, and keeps its publisher.
LEMMA StatusForward ==
  ASSUME IInv, Next, NEW o \in Orders, status[o] # "NONE"
  PROVE  /\ status'[o] # "NONE" /\ publisher'[o] = publisher[o]
         /\ status[o] = "TAKEN" => status'[o] # "PUBLISHED"
<1>1. ASSUME NEW p \in Orders, NEW u \in Publishers, Create(p, u)
      PROVE  UNCHANGED <<status[o], publisher[o]>>
  BY <1>1 DEF Create, IInv, TypeOK
<1>2. ASSUME NEW p \in Orders, Cancel(p)
      PROVE  publisher' = publisher /\ status'[o] \in {status[o], "CANCELLED"}
  BY <1>2 DEF Cancel, IInv, TypeOK
<1>3. ASSUME NEW r \in Requests, Commit(r)
      PROVE  publisher' = publisher /\ status'[o] \in {status[o], "TAKEN"}
  BY <1>3 DEF Commit, IInv, TypeOK
<1>4. CASE UNCHANGED row
  BY <1>4 DEF row
<1>5. ASSUME NEW p \in Orders, DeadlinePasses(p) \/ KeysExpire(p) \/ ResyncRearms(p) \/ ResyncFails(p)
      PROVE  UNCHANGED <<status, publisher>>
  BY <1>5 DEF DeadlinePasses, KeysExpire, ResyncRearms, ResyncFails, row
<1>6. CASE RedisLosesKeys \/ ResyncReads
  BY <1>4, <1>6 DEF RedisLosesKeys, ResyncReads
<1>7. ASSUME NEW r \in Requests, OwnStep(r), ~ Commit(r)
      PROVE  UNCHANGED row
  BY <1>7 DEF OwnStep, Begin, RequestStep, Filtered, Pass, Missing, Unavailable, Claim, Lose, Abort
<1>8. ASSUME NEW w \in Workers, (\E e \in events : WorkerReads(w, e)) \/ WorkerStep(w) \/ WorkerFails(w)
      PROVE  UNCHANGED row
  BY <1>8 DEF WorkerReads, WorkerStep, WorkerSetsMarker, WorkerSetsKnown, WorkerRemoves, WorkerFails
<1> QED BY <1>1, <1>2, <1>3, <1>4, <1>5, <1>6, <1>7, <1>8 DEF Next, OwnStep

\* Who takes a marker away.
LEMMA MarkerTaken ==
  ASSUME TypeOK, Next, NEW o \in Orders, marker[o], ~ marker'[o]
  PROVE  \/ overdue[o] \/ status[o] = "NONE" \/ RedisLosesKeys
         \/ \E r \in Requests : /\ request[r].step = "filter" /\ request[r].order = o
                               /\ request'[r] # request[r]
         \/ \E w \in Workers : worker[w].step = "remove" /\ worker[w].event[2] = o
<1>1. ASSUME NEW p \in Orders, NEW v \in BOOLEAN, marker' = [marker EXCEPT ![p] = v]
      PROVE  p = o
  BY <1>1 DEF TypeOK
<1>2. ASSUME NEW p \in Orders, NEW u \in Publishers, Create(p, u)
      PROVE  status[o] = "NONE"
  <2>1. PICK armed \in {{}, {"marker"}, {"marker", "known"}} :
          marker' = [marker EXCEPT ![p] = "marker" \in armed]
    BY <1>2 DEF Create
  <2>2. p = o
    BY <1>1, <2>1
  <2> QED BY <1>2, <2>2 DEF Create
<1>3. ASSUME NEW p \in Orders, KeysExpire(p)
      PROVE  overdue[o]
  <2>1. marker' = [marker EXCEPT ![p] = FALSE]
    BY <1>3 DEF KeysExpire
  <2> QED BY <1>1, <1>3, <2>1 DEF KeysExpire
<1>4. ASSUME NEW p \in Orders, Rearm(p)
      PROVE  FALSE
  BY <1>4 DEF Rearm, TypeOK
<1>5. ASSUME NEW r \in Requests, OwnStep(r)
      PROVE  \/ overdue[o] \/ status[o] = "NONE" \/ RedisLosesKeys
             \/ /\ request[r].step = "filter" /\ request[r].order = o
                /\ request'[r] # request[r]
  <2>1. CASE marker' = [marker EXCEPT ![request[r].order] = FALSE]
              /\ request[r].step = "filter" /\ Goto(r, "claim")
    <3>1. request[r] \in RequestStates
      BY <2>1, Active DEF Steps
    <3>2. request[r].order = o
      BY <1>1, <2>1, <3>1 DEF RequestStates
    <3>3. request'[r] = [request[r] EXCEPT !.step = "claim"]
      BY <2>1, GotoType DEF Steps
    <3>4. request'[r].step = "claim"
      BY <3>1, <3>3 DEF RequestStates
    <3> QED BY <2>1, <3>2, <3>4
  <2>2. CASE Lose(r)
    <3>1. request[r].order \in Orders
      BY <2>2, Active DEF Lose, Steps, RequestStates
    <3>2. Rearm(request[r].order)
      BY <2>2 DEF Lose, redis
    <3> QED BY <1>4, <3>1, <3>2
  <2> QED BY <1>5, <2>1, <2>2 DEF OwnStep, Begin, RequestStep, Filtered, Pass, Missing, Unavailable,
             Claim, Commit, Abort, redis
<1>6. ASSUME NEW w \in Workers, (\E e \in events : WorkerReads(w, e)) \/ WorkerStep(w) \/ WorkerFails(w)
      PROVE  worker[w].step = "remove" /\ worker[w].event[2] = o
  <2>1. ~ WorkerSetsMarker(w)
    <3>1. ASSUME WorkerSetsMarker(w) PROVE FALSE
      <4>1. worker[w] \in WorkerStates
        BY <3>1 DEF WorkerSetsMarker, TypeOK, Idle
      <4>2. worker[w].event[2] \in Orders
        BY <4>1 DEF WorkerStates
      <4>3. worker[w].event[2] = o
        BY <1>1, <3>1, <4>2 DEF WorkerSetsMarker
      <4> QED BY <3>1, <4>3 DEF WorkerSetsMarker, TypeOK
    <3> QED BY <3>1
  <2>2. CASE WorkerRemoves(w)
    <3>1. worker[w] \in WorkerStates
      BY <2>2 DEF WorkerRemoves, TypeOK, Idle
    <3>2. worker[w].event[2] \in Orders
      BY <3>1 DEF WorkerStates
    <3> QED BY <1>1, <2>2, <3>2 DEF WorkerRemoves
  <2> QED BY <1>6, <2>1, <2>2 DEF WorkerReads, WorkerStep, WorkerSetsKnown, WorkerFails, redis
<1>7. ASSUME NEW p \in Orders
      PROVE  ~ ResyncRearms(p) /\ ~ ResyncFails(p) /\ ~ Cancel(p) /\ ~ DeadlinePasses(p)
  BY <1>4 DEF ResyncRearms, ResyncFails, Cancel, DeadlinePasses, redis
<1>8. ~ ResyncReads
  BY DEF ResyncReads, redis
<1> QED BY <1>2, <1>3, <1>5, <1>6, <1>7, <1>8 DEF Next, OwnStep

\* How a request of the drill ends in a round that nothing spoils.
LEMMA EndsHow ==
  ASSUME TypeOK, Serves, ~ Spoils, NEW r \in Requests, r \in calls, request[r].step \in Steps,
         request'[r] = Idle
  PROVE  Commit(r) \/ Lose(r) \/ (up /\ Filtered(r))
<1>1. ~ Goto(r, "claim") /\ ~ Goto(r, "won") /\ ~ Goto(r, "lost")
  <2> SUFFICES ASSUME NEW next \in Steps, Goto(r, next)
               PROVE  FALSE
    BY DEF Steps
  <2>1. request'[r] = [request[r] EXCEPT !.step = next] /\ request[r] \in RequestStates
    BY GotoType, Active
  <2>2. request'[r].step = next
    BY <2>1 DEF RequestStates
  <2> QED BY <2>2 DEF Idle, Steps
<1>2. request'[r] # request[r]
  BY DEF Idle, Steps
<1>3. Next
  BY WithoutRedisStep DEF Serves
<1>4. OwnStep(r)
  BY <1>2, <1>3, RequestFrame
<1>5. ~ RequestStep(r) \/ Filtered(r)
  BY <1>1 DEF RequestStep, Pass, Missing, Unavailable
<1>6. ~ Claim(r)
  BY <1>1 DEF Claim
<1>7. \A o \in Orders, u \in Users : ~ Begin(r, o, u)
  BY DEF Begin, Idle, Steps
<1>8. Filtered(r) => Abort(r)
  BY DEF Filtered, Abort
<1>9. Abort(r) => Lose(r) \/ (up /\ Filtered(r))
  <2>1. Abort(r) => Lose(r) \/ (IF up THEN RequestStep(r) ELSE Unavailable(r))
    BY DEF Spoils, Proceeds
  <2>2. ~ Unavailable(r)
    BY <1>1 DEF Unavailable
  <2> QED BY <1>5, <2>1, <2>2
<1> QED BY <1>4, <1>5, <1>6, <1>7, <1>8, <1>9 DEF OwnStep

\* A claim loses when the row does not match.
LEMMA LosesHow ==
  ASSUME TypeOK, NEW r \in Requests, OwnStep(r), request'[r].step = "lost"
  PROVE  Claim(r) /\ ~ Claimable(request[r].order, request[r].user)
<1>1. request'[r] # Idle
  BY DEF Idle
<1>2. ~ Commit(r) /\ ~ Lose(r) /\ ~ Abort(r) /\ ~ Filtered(r)
  BY <1>1, EndType DEF Commit, Lose, Abort, Filtered
<1>3. ~ \E o \in Orders, u \in Users : Begin(r, o, u)
  BY DEF Begin, TypeOK
<1>4. ASSUME NEW next \in Steps, request[r].step \in Steps, Goto(r, next)
      PROVE  next = "lost"
  <2>1. request'[r] = [request[r] EXCEPT !.step = next] /\ request[r] \in RequestStates
    BY <1>4, GotoType, Active
  <2> QED BY <2>1 DEF RequestStates
<1>5. ~ RequestStep(r)
  BY <1>2, <1>4 DEF RequestStep, Pass, Missing, Unavailable, Steps
<1>6. Claim(r)
  BY <1>2, <1>3, <1>5 DEF OwnStep
<1> QED BY <1>4, <1>6 DEF Claim, Steps

LEMMA WinsHow ==
  ASSUME Next
  PROVE  won' = won \/ \E r \in Requests : Commit(r)
BY DEF Next, Create, Cancel, DeadlinePasses, KeysExpire, ResyncRearms, ResyncFails, RedisLosesKeys,
       ResyncReads, Begin, RequestStep, Filtered, Pass, Missing, Unavailable, Claim, Lose, Abort,
       WorkerReads, WorkerStep, WorkerSetsMarker, WorkerSetsKnown, WorkerRemoves, WorkerFails

LEMMA ServesStep ==
  ASSUME OInv, TypeOK', Facts, Phases, Followed, Serves
  PROVE  Followed'
<1>1. /\ Next /\ NoStranger
      /\ calls' = {r \in calls : request'[r] # Idle}
      /\ UNCHANGED <<step, subject, asked, up>>
      /\ ~ spoilt' => ~ spoilt /\ ~ Spoils
  BY WithoutRedisStep DEF Serves, Continues, Goes
<1> SUFFICES ASSUME ~ spoilt, ~ Spoils, NEW o \in subject
             PROVE  Round(o)'
  BY <1>1 DEF Followed
<1>2. Round(o) /\ o \in Orders /\ IInv /\ TypeOK /\ calls \subseteq Requests
  BY DEF Followed, OInv, IInv, Phases
<1>3. status'[o] # "CANCELLED" /\ ~ overdue'[o]
  BY DEF Spoils
<1>4. /\ status'[o] \in {"PUBLISHED", "TAKEN"}
      /\ publisher'[o] = publisher[o]
      /\ status[o] = "TAKEN" => status'[o] = "TAKEN"
  <2>1. status[o] # "NONE"
    BY <1>2 DEF Round
  <2>2. status'[o] \in {"NONE", "PUBLISHED", "TAKEN", "CANCELLED"}
    BY <1>2 DEF TypeOK
  <2> QED BY <1>1, <1>2, <1>3, <2>1, <2>2, StatusForward
<1>5. ASSUME NEW r \in Requests, request[r].step \in Steps, request'[r] # Idle
      PROVE  /\ request'[r].step \in Steps
             /\ request'[r].order = request[r].order /\ request'[r].user = request[r].user
             /\ request'[r] = request[r] \/ request'[r].step \in {"claim", "won", "lost"}
  <2>1. \/ request'[r] = request[r]
        \/ request'[r] = [request[r] EXCEPT !.step = request'[r].step]
           /\ request'[r].step \in {"claim", "won", "lost"}
    BY <1>1, <1>2, <1>5, RequestFrame, OwnStepMoves
  <2>2. request[r] \in RequestStates
    BY <1>2, <1>5, Active
  <2> QED BY <1>5, <2>1, <2>2 DEF RequestStates, Steps
<1>6. ASSUME NEW r \in Requests, request'[r].step \in Steps, request'[r].order = o
      PROVE  r \in calls'
  <2>1. request'[r] # Idle
    BY <1>6 DEF Idle, Steps
  <2>2. request[r] # Idle
    BY <1>1, <1>6, <2>1 DEF NoStranger
  <2>3. request[r].step \in Steps
    BY <1>2, <2>2 DEF TypeOK, RequestStates
  <2>4. request[r].order = o
    BY <1>5, <1>6, <2>1, <2>3
  <2> QED BY <1>1, <1>2, <2>1, <2>3, <2>4 DEF Round
<1>7. ASSUME NEW r \in calls'
      PROVE  /\ r \in calls /\ r \in Requests /\ request'[r] # Idle
             /\ request[r].step \in Steps /\ request[r].order = o
             /\ request[r].user \in asked /\ request[r].user # publisher[o]
             /\ request[r].step = "lost" => status[o] = "TAKEN"
  <2>1. r \in calls /\ r \in Requests /\ request'[r] # Idle
    BY <1>1, <1>2
  <2> QED BY <1>2, <2>1 DEF Round
<1>8. ASSUME NEW r \in calls'
      PROVE  /\ request'[r].step \in Steps /\ request'[r].order = o
             /\ request'[r].user \in asked' /\ request'[r].user # publisher'[o]
  BY <1>1, <1>4, <1>5, <1>7
<1>9. ASSUME NEW r \in calls', request'[r].step = "lost"
      PROVE  status'[o] = "TAKEN"
  <2>1. CASE request'[r] = request[r]
    BY <1>4, <1>7, <1>9, <2>1
  <2>2. CASE request'[r] # request[r]
    <3>1. Claim(r) /\ ~ Claimable(o, request[r].user)
      BY <1>1, <1>2, <1>7, <1>9, <2>2, RequestFrame, LosesHow
    <3>2. status[o] # "PUBLISHED" \/ taker[o] # NoUser
      BY <1>2, <1>7, <3>1 DEF Claimable, Round
    <3>3. status[o] = "TAKEN"
      BY <1>2, <3>2 DEF Facts, Round
    <3> QED BY <1>4, <3>3
  <2> QED BY <2>1, <2>2
<1>10. ASSUME NEW u \in Users, <<o, u>> \in won'
       PROVE  u \in asked'
  <2>1. CASE <<o, u>> \in won
    BY <1>1, <1>2, <2>1 DEF Round
  <2>2. CASE <<o, u>> \notin won
    <3>1. PICK r \in Requests : Commit(r)
      BY <1>1, <1>10, <2>2, WinsHow
    <3>2. request[r].order = o /\ request[r].user = u /\ request[r].step \in Steps
      BY <1>10, <2>2, <3>1 DEF Commit, Steps
    <3>3. r \in calls
      BY <1>2, <3>2 DEF Round
    <3> QED BY <1>1, <1>2, <3>2, <3>3 DEF Round
  <2> QED BY <2>1, <2>2
<1>11. ASSUME asked' # {}, calls' = {}
       PROVE  status'[o] = "TAKEN"
  <2>1. CASE calls = {}
    BY <1>1, <1>2, <1>4, <1>11, <2>1 DEF Round
  <2>2. CASE calls # {}
    <3>1. PICK r \in calls : TRUE
      BY <2>2
    <3>2. /\ request'[r] = Idle /\ r \in Requests
          /\ request[r].step \in Steps /\ request[r].order = o
          /\ request[r].user \in asked /\ request[r].user # publisher[o]
          /\ request[r].step = "lost" => status[o] = "TAKEN"
      BY <1>1, <1>2, <1>11, <3>1 DEF Round
    <3>3. CASE Commit(r)
      BY <1>2, <3>2, <3>3 DEF Commit, TypeOK
    <3>4. CASE Lose(r)
      BY <1>4, <3>2, <3>4 DEF Lose
    <3>5. ~ (up /\ Filtered(r))
      <4> SUFFICES ASSUME up, Filtered(r)
                   PROVE  FALSE
        OBVIOUS
      <4>1. request[r].step = "filter" /\ (~ marker[o] \/ overdue[o])
        BY <3>2 DEF Filtered
      <4>2. At("grab again")
        BY <2>2 DEF Phases, At
      <4> QED BY <1>2, <3>1, <4>1, <4>2 DEF Round
    <3> QED BY <1>2, <3>1, <3>2, <3>3, <3>4, <3>5, EndsHow
  <2> QED BY <2>1, <2>2
<1>12. ASSUME step' = "grab again"
       PROVE  /\ \A r, s \in calls' : r = s
              /\ asked' = {} \/ (\E r \in calls' : request'[r].step = "filter") => marker'[o]
  <2>1. /\ \A r, s \in calls : r = s
        /\ asked = {} \/ (\E r \in calls : request[r].step = "filter") => marker[o]
    BY <1>1, <1>2, <1>12 DEF Round, At
  <2>2. \A r, s \in calls' : r = s
    BY <1>7, <2>1
  <2>3. ASSUME asked' = {} \/ \E r \in calls' : request'[r].step = "filter"
        PROVE  marker'[o]
    <3>1. marker[o]
      <4>1. ASSUME NEW r \in calls', request'[r].step = "filter"
            PROVE  r \in calls /\ request[r].step = "filter"
        BY <1>5, <1>7, <4>1
      <4> QED BY <1>1, <2>1, <2>3, <4>1
    <3>2. ASSUME NEW s \in Requests, request[s].step = "filter", request[s].order = o,
                 request'[s] # request[s]
          PROVE  FALSE
      <4>1. s \in calls /\ request[s].user \in asked
        BY <1>2, <3>2 DEF Round, Steps
      <4>2. PICK r \in calls' : request'[r].step = "filter"
        BY <1>1, <2>3, <4>1
      <4>3. r = s
        BY <1>7, <2>1, <4>1, <4>2
      <4> QED BY <1>5, <1>7, <3>2, <4>2, <4>3
    <3>3. ~ \E w \in Workers : worker[w].step = "remove" /\ worker[w].event[2] = o
      BY <1>2 DEF Facts, Round
    <3>4. ~ overdue[o] /\ status[o] # "NONE" /\ ~ RedisLosesKeys
      BY <1>2 DEF Round, Spoils
    <3> QED BY <1>1, <1>2, <3>1, <3>2, <3>3, <3>4, MarkerTaken
  <2> QED BY <2>2, <2>3
<1> QED BY <1>3, <1>4, <1>6, <1>8, <1>9, <1>10, <1>11, <1>12 DEF Round, At

LEMMA FollowedStep ==
  ASSUME BInv, TypeOK', Facts, Phases, Phases', Followed, [OutageNext]_outageVars
  PROVE  Followed'
<1> USE DEF Goes, Continues
<1>1. CASE name = "none" /\ RebuildNext /\ UNCHANGED outage
  BY <1>1, Forgotten DEF Phases, outage
<1>2. CASE Serves
  BY <1>2, ServesStep DEF BInv
<1>3. CASE Prepares
  <2>1. name = "none" /\ step' = "stop" /\ UNCHANGED <<asked, calls>>
    BY <1>3 DEF Prepares
  <2>2. subject = {} /\ asked' = {} /\ calls' = {}
    BY <2>1 DEF Phases
  <2>3. \/ \E o \in Orders, u \in Publishers : Create(o, u) /\ subject' = {o}
        \/ subject' = {}
    BY <1>3, <2>2 DEF Prepares
  <2> QED BY <2>1, <2>2, <2>3, RoundStarts, Forgotten DEF BInv
<1>4. CASE CreatesRecoveryOrder
  <2>1. step = "create" /\ step' = "start" /\ UNCHANGED <<asked, calls>>
    BY <1>4 DEF CreatesRecoveryOrder, At
  <2>2. subject = {} /\ asked' = {} /\ calls' = {}
    BY <2>1 DEF Phases
  <2>3. \/ \E o \in Orders, u \in Publishers : Create(o, u) /\ subject' = {o}
        \/ subject' = {}
    BY <1>4, <2>2 DEF CreatesRecoveryOrder
  <2> QED BY <2>1, <2>2, <2>3, RoundStarts, Forgotten DEF BInv
<1>5. ASSUME NEW r \in Requests, NEW u \in Users, Asks(r, u)
      PROVE  Followed'
  BY <1>5, AsksStep DEF BInv
<1>6. CASE StartsRedis
  <2>1. CASE Leaves
    BY <2>1, Forgotten DEF Leaves, Forgets
  <2>2. CASE ~ Leaves
    <3>1. Kept /\ step' # "grab again" /\ UNCHANGED <<subject, asked, calls, spoilt>>
      BY <1>6, <2>2 DEF StartsRedis
    <3> QED BY <3>1, RoundStays DEF Kept
  <2> QED BY <2>1, <2>2
<1>7. CASE WaitsForMarker
  <2>1. CASE Leaves
    BY <2>1, Forgotten DEF Leaves, Forgets
  <2>2. CASE ~ Leaves
    <3>1. /\ step = "marker" /\ \E o \in subject : marker[o]
          /\ UNCHANGED <<vars, subject, asked, calls, spoilt>>
      BY <1>7, <2>2 DEF WaitsForMarker, At
    <3>2. calls = {} /\ \A o \in subject : marker[o]
      BY <3>1 DEF Phases
    <3>3. marker' = marker /\ UNCHANGED <<row, request, won>>
      BY <3>1 DEF vars, redis
    <3> QED BY <3>1, <3>2, <3>3, RoundStays
  <2> QED BY <2>1, <2>2
<1>8. CASE StopsRedis \/ ChecksAnswers \/ ChecksRecovery \/ Delivers \/ DrillRaises
  <2>1. CASE Leaves
    BY <2>1, Forgotten DEF Leaves, Forgets
  <2>2. CASE ~ Leaves
    <3>1. step' # "grab again" /\ UNCHANGED <<vars, subject, asked, calls, spoilt>>
      BY <1>8, <2>2 DEF StopsRedis, ChecksAnswers, ChecksRecovery, Delivers, DrillRaises
    <3> QED BY <3>1, RoundStays DEF vars
  <2> QED BY <2>1, <2>2
<1>9. CASE DrillIsKilled
  BY <1>9, Forgotten DEF DrillIsKilled, Forgets
<1>10. CASE OperatorStartsRedis
  <2>1. subject' = {}
    BY <1>10 DEF OperatorStartsRedis, Phases
  <2> QED BY <2>1, Forgotten
<1>11. CASE UNCHANGED outageVars
  <2>1. UNCHANGED <<row, request, won, marker, step, subject, asked, calls, spoilt>>
    BY <1>11 DEF outageVars, outage, rebuildVars, vars, script, redis
  <2> SUFFICES ASSUME ~ spoilt, NEW o \in subject
               PROVE  Round(o)'
    BY <2>1 DEF Followed
  <2>2. Round(o)
    BY DEF Followed
  <2> QED BY <2>1, <2>2 DEF Round, row, At
<1> QED BY <1>1, <1>2, <1>3, <1>4, <1>5, <1>6, <1>7, <1>8, <1>9, <1>10, <1>11
    DEF OutageNext, Drill

LEMMA DrillInvariance == OutageSpec => [](BInv /\ Facts /\ Phases /\ Followed)
<1>1. OutageInit => Facts /\ Followed
  BY DEF OutageInit, RebuildInit, Init, Facts, Followed, Idle, Steps
<1>2. BInv => TypeOK /\ OInv /\ ScriptOrder
  BY DEF BInv, OInv, IInv
<1>3. BInv /\ BInv' /\ Facts /\ Phases /\ Followed /\ [OutageNext]_outageVars
        => Facts' /\ Phases' /\ Followed'
  <2>1. BInv' => TypeOK'
    BY DEF BInv, OInv, IInv
  <2> QED BY <1>2, <2>1, FactsOutageStep, PhasesStep, FollowedStep
<1> QED BY <1>1, <1>3, PhasesBegin, RebuildInvariance, PTL DEF OutageSpec

\* Of all who ask for the drill's order while Redis is down exactly one wins, and
\* whoever asks for the order of the outage once its marker is back wins it, as
\* long as nothing spoils the round, for any number of takers and of requests in
\* flight ("expected exactly one winner", verify_redis_outage_recovery.py).
THEOREM OneWinnerOfTheDrill == OutageSpec => []OneWinnerOfThoseAsked
<1>1. BInv /\ Facts /\ Phases /\ Followed => OneWinnerOfThoseAsked
  <2> SUFFICES ASSUME BInv, Facts, Phases, Followed,
                      step \in {"grab", "grab again"}, Answered, ~ spoilt
               PROVE  Cardinality(Winners) = 1
    BY DEF OneWinnerOfThoseAsked
  <2>1. PICK o \in subject : TRUE
    BY DEF Phases
  <2>2. o \in Orders /\ TypeOK /\ WonIsTaker
    BY DEF BInv, OInv, IInv
  <2>3. status[o] = "TAKEN"
    BY DEF Followed, Round, Answered
  <2>4. <<o, taker[o]>> \in won /\ taker[o] \in Users
    BY <2>2, <2>3 DEF Facts, TypeOK
  <2>5. taker[o] \in asked
    BY <2>4 DEF Followed, Round
  <2>6. \A u : <<o, u>> \in won => u = taker[o]
    BY <2>2 DEF WonIsTaker
  <2>7. Winners = {taker[o]}
    <3>1. \A p \in subject : p = o
      BY DEF Phases
    <3> QED BY <2>4, <2>5, <2>6, <3>1 DEF Winners
  <2> QED BY <2>7, FS_Singleton
<1> QED BY <1>1, DrillInvariance, PTL

===============================================================================
