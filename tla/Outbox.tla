-------------------------------- MODULE Outbox --------------------------------
(***************************************************************************)
(* The events of t_outbox_event and the workers that publish them.  A      *)
(* worker claims a batch under one lease, publishes its events one after   *)
(* the other outside of any transaction, and marks each of them if it      *)
(* still holds the lease: locked_until is deadline and fence in one.       *)
(*                                                                         *)
(* Clocks are abstracted: a lease or a delay may have passed, by the       *)
(* database's clock, at any moment after it was set, however short that    *)
(* is.  What a lease has to be is new: unlike the earlier leases of its    *)
(* events.  As a claim needs the last lease to have passed and sets one 30 *)
(* seconds ahead, that holds while the instances' clocks are less than     *)
(* 30 seconds behind the database's.                                       *)
(***************************************************************************)
EXTENDS Integers, FiniteSets, FiniteSetsExt

CONSTANTS
  Events,        \* ids: ORDER BY id compares them
  Workers,       \* instances that run OutboxWorker
  BatchLimit,    \* events of one claim, 50 in the code
  MaxRetries,    \* MAX_RETRIES, 12 in the code
  Poison,        \* events whose publication always throws
  Faulty         \* TRUE: any publication may fail

ASSUME OutboxAssumption ==
  /\ IsFiniteSet(Events) /\ Events \subseteq Nat
  /\ IsFiniteSet(Workers)
  /\ BatchLimit \in Nat \ {0} /\ MaxRetries \in Nat \ {0}
  /\ Poison \subseteq Events
  /\ Faulty \in BOOLEAN

VARIABLES
  status,
  retry,         \* retry_count
  lockedUntil,   \* locked_until; 0 stands for NULL
  due,           \* next_retry_at, or the lease of a PROCESSING event, has passed
  batch,         \* per worker, the events still to handle with the count it read
  lease,         \* the lease of that batch
  attempt,       \* what became of the publication of its current event
  published,     \* events whose effects have taken place
  failures       \* history: failed attempts since the last replay, up to MaxRetries

rows == <<status, retry, lockedUntil, due>>
workers == <<batch, lease, attempt>>
vars == <<rows, workers, published, failures>>

\* Enough for a lease that no event and no worker has.
Leases == 1 .. Cardinality(Workers) + Cardinality(Events) + 1

TypeOK ==
  /\ status \in [Events -> {"PENDING", "PROCESSING", "RETRY", "PUBLISHED", "DEAD"}]
  /\ retry \in [Events -> 0 .. MaxRetries]
  /\ lockedUntil \in [Events -> Leases \cup {0}]
  /\ \A e \in Events : status[e] = "PROCESSING" <=> lockedUntil[e] # 0
  /\ due \in [Events -> BOOLEAN]
  /\ batch \in [Workers -> SUBSET (Events \X (0 .. MaxRetries - 1))]
  /\ lease \in [Workers -> Leases \cup {0}]
  /\ attempt \in [Workers -> {"none", "ok", "failed"}]
  /\ published \subseteq Events
  /\ failures \in [Events -> 0 .. MaxRetries]

Init ==
  /\ status = [e \in Events |-> "PENDING"]
  /\ retry = [e \in Events |-> 0]
  /\ lockedUntil = [e \in Events |-> 0]
  /\ due = [e \in Events |-> TRUE]
  /\ batch = [w \in Workers |-> {}]
  /\ lease = [w \in Workers |-> 0]
  /\ attempt = [w \in Workers |-> "none"]
  /\ published \in {{}, Events}   \* create and grab write the same keys, if Redis is up
  /\ failures = [e \in Events |-> 0]

-------------------------------------------------------------------------------
(***************************************************************************)
(* OutboxRepository.claimBatch.                                            *)
(***************************************************************************)

\* A bug to catch: events left in PROCESSING are never claimed again.
ClaimableWaitingOnly == {e \in Events : status[e] \in {"PENDING", "RETRY"} /\ due[e]}

Claimable == {e \in Events : status[e] \in {"PENDING", "RETRY", "PROCESSING"} /\ due[e]}

\* ORDER BY id LIMIT.
FirstClaimable == {e \in Claimable : Cardinality({x \in Claimable : x < e}) < BatchLimit}

NewLease ==
  CHOOSE l \in Leases : (\A e \in Events : lockedUntil[e] # l) /\ \A w \in Workers : lease[w] # l

Claim(w) ==
  /\ batch[w] = {}
  /\ Claimable # {}
  /\ batch' = [batch EXCEPT ![w] = {<<e, retry[e]>> : e \in FirstClaimable}]
  /\ lease' = [lease EXCEPT ![w] = NewLease]
  /\ status' = [e \in Events |-> IF e \in FirstClaimable THEN "PROCESSING" ELSE status[e]]
  /\ lockedUntil' = [e \in Events |-> IF e \in FirstClaimable THEN NewLease ELSE lockedUntil[e]]
  /\ due' = [e \in Events |-> due[e] /\ e \notin FirstClaimable]
  /\ UNCHANGED <<retry, attempt, published, failures>>

\* locked_until <= CURRENT_TIMESTAMP(3), or next_retry_at <= CURRENT_TIMESTAMP(3).
TimePasses(e) ==
  /\ status[e] \in {"RETRY", "PROCESSING"} /\ ~due[e]
  /\ due' = [due EXCEPT ![e] = TRUE]
  /\ UNCHANGED <<status, retry, lockedUntil, workers, published, failures>>

-------------------------------------------------------------------------------
(***************************************************************************)
(* OutboxWorker.publish.                                                   *)
(***************************************************************************)

\* The event of the batch with the lowest id.
Current(w) == CHOOSE b \in batch[w] : \A x \in batch[w] : b[1] <= x[1]

Fails(w) ==
  /\ attempt' = [attempt EXCEPT ![w] = "failed"]
  /\ failures' = [failures EXCEPT ![Current(w)[1]] = IF @ < MaxRetries THEN @ + 1 ELSE @]

\* publish(event): its effects are idempotent, and a failure may come after them.
Publish(w) ==
  /\ batch[w] # {} /\ attempt[w] = "none"
  /\ LET e == Current(w)[1]
     IN \/ /\ e \notin Poison
           /\ published' = published \cup {e}
           /\ attempt' = [attempt EXCEPT ![w] = "ok"]
           /\ UNCHANGED failures
        \/ /\ e \in Poison \/ Faulty
           /\ published' \in {published, published \cup ({e} \ Poison)}
           /\ Fails(w)
  /\ UNCHANGED <<rows, batch, lease>>

\* markPublished throws inside the try block: the attempt counts as failed.
MarkPublishedThrows(w) ==
  /\ attempt[w] = "ok"
  /\ Fails(w)
  /\ UNCHANGED <<rows, batch, lease, published>>

\* A bug to catch: the status alone is the fence.
HoldsStatus(w, e) == status[e] = "PROCESSING"

\* WHERE status='PROCESSING' AND locked_until=?
Holds(w, e) == status[e] = "PROCESSING" /\ lockedUntil[e] = lease[w]

\* The row leaves PROCESSING for another status.
Moves(e, to, count) ==
  /\ status' = [status EXCEPT ![e] = to]
  /\ retry' = [retry EXCEPT ![e] = count]
  /\ lockedUntil' = [lockedUntil EXCEPT ![e] = 0]
  /\ due' = [due EXCEPT ![e] = FALSE]

NextRetry(read) == read + 1

\* A bug to catch: the event goes DEAD one failure early.
ExhaustedEarly(count) == count + 1 >= MaxRetries

Exhausted(count) == count >= MaxRetries

\* markPublished, markRetry or markDead: an UPDATE that matches nothing when
\* the lease was lost.
Mark(w) ==
  /\ attempt[w] # "none"
  /\ LET e == Current(w)[1]
         next == NextRetry(Current(w)[2])
     IN /\ IF ~Holds(w, e) THEN UNCHANGED rows
           ELSE IF attempt[w] = "ok" THEN Moves(e, "PUBLISHED", retry[e])
           ELSE Moves(e, IF Exhausted(next) THEN "DEAD" ELSE "RETRY", next)
        /\ batch' = [batch EXCEPT ![w] = @ \ {Current(w)}]
        /\ lease' = [lease EXCEPT ![w] = IF batch'[w] = {} THEN 0 ELSE @]
  /\ attempt' = [attempt EXCEPT ![w] = "none"]
  /\ UNCHANGED <<published, failures>>

\* The instance dies, or marking the failure throws: the rest of the batch waits
\* for the lease to pass, and no attempt is counted.
WorkerDies(w) ==
  /\ batch[w] # {}
  /\ batch' = [batch EXCEPT ![w] = {}]
  /\ lease' = [lease EXCEPT ![w] = 0]
  /\ attempt' = [attempt EXCEPT ![w] = "none"]
  /\ UNCHANGED <<rows, published, failures>>

\* AdminReconController replays a dead event.
Replay(e) ==
  /\ status[e] = "DEAD"
  /\ status' = [status EXCEPT ![e] = "PENDING"]
  /\ retry' = [retry EXCEPT ![e] = 0]
  /\ due' = [due EXCEPT ![e] = TRUE]
  /\ failures' = [failures EXCEPT ![e] = 0]
  /\ UNCHANGED <<lockedUntil, workers, published>>

WorkerStep(w) == Claim(w) \/ Publish(w) \/ Mark(w) \/ WorkerDies(w)

Step ==
  \/ \E w \in Workers : WorkerStep(w)
  \/ \E e \in Events : TimePasses(e)

Next ==
  \/ Step
  \/ \E w \in Workers : MarkPublishedThrows(w)
  \/ \E e \in Events : Replay(e)

Spec == Init /\ [][Next]_vars

\* Time passes and the workers are scheduled.  An event does not meet the same
\* misfortune for ever: some worker gets to publish it, and to mark it, while it
\* holds the lease.  A replay begins the life of an event anew, and a database
\* that fails every mark keeps it open; what is live is what happens without them.
Holding(w, e) == batch[w] # {} /\ Current(w)[1] = e /\ Holds(w, e)
Fairness ==
  /\ \A w \in Workers : WF_vars(Claim(w) \/ Publish(w) \/ Mark(w))
  /\ \A e \in Events :
       /\ WF_vars(TimePasses(e))
       /\ SF_vars(\E w \in Workers : Holding(w, e) /\ Publish(w))
       /\ SF_vars(\E w \in Workers : Holding(w, e) /\ Mark(w))

LiveSpec == Init /\ [][Step]_vars /\ Fairness

-------------------------------------------------------------------------------
\* The lease of the last claim fences a slow worker off: once another worker has
\* claimed the event, the first one changes its row no more (the locked_until
\* of markPublished, markRetry and markDead).
SlowWorkerIsFenced ==
  [][\A w \in Workers, v \in Workers, e \in Events :
       /\ w # v /\ Mark(w) /\ e = Current(w)[1]
       /\ status[e] = "PROCESSING" /\ lockedUntil[e] = lease[v]
       => UNCHANGED <<status[e], retry[e], lockedUntil[e]>>]_vars

\* An event goes DEAD only after MAX_RETRIES failed attempts since it was written
\* or replayed, whoever made them and however often its lease passed.
DeadOnlyWhenExhausted ==
  \A e \in Events : retry[e] <= failures[e] /\ (status[e] = "DEAD" => failures[e] = MaxRetries)

\* Every event is published or given up, although workers die in the middle of
\* their batches and other events of the batch fail every time.
EventIsResolved ==
  \A e \in Events : []<>(status[e] \in {"PUBLISHED", "DEAD"})
===============================================================================
