---------------------------- MODULE ScriptsProofs ----------------------------
(***************************************************************************)
(* Two scripts that report, and what they report on.                       *)
(*                                                                         *)
(* The lease of the outbox is a fence, for any number of events, workers   *)
(* and retries: leases that are in use differ, a worker that has lost its  *)
(* lease changes the row no more, an event goes DEAD only when it failed   *)
(* often enough, and the crash recovery drill that passes has seen a       *)
(* worker claim the event anew.  The counts in a batch are stale as soon   *)
(* as the lease is lost: a replay may have reset the failures they         *)
(* counted.  They are bounded by the failures only as long as the worker   *)
(* holds the event, and the fence is why that suffices.                    *)
(*                                                                         *)
(* The benchmark and capacity reports rest on runs that were made.  What   *)
(* makes it so is that the runs of a session leave their files in order:   *)
(* each is preceded by all the earlier ones of its pass, and by a warm-up, *)
(* or the session has none; and that a raw directory is cleared as a       *)
(* whole, so an index leads to all of its files or to nothing.             *)
(***************************************************************************)
EXTENDS OutboxDrill, Evidence, FiniteSetTheorems, WellFoundedInduction, TLAPS

\* Two workers never have the same lease, and a worker with a batch has one.
LeasesDiffer ==
  /\ \A w, v \in Workers : w # v /\ lease[w] # 0 => lease[w] # lease[v]
  /\ \A w \in Workers : batch[w] # {} => lease[w] # 0
  /\ \A w \in Workers : attempt[w] # "none" => batch[w] # {}

RetriesLeft == \A e \in Events : status[e] # "DEAD" => retry[e] < MaxRetries

\* What a worker has read, and is still allowed to write back.
HeldCounts ==
  \A w \in Workers :
    /\ \A b \in batch[w] : lockedUntil[b[1]] = lease[w] => b[2] <= failures[b[1]]
    /\ attempt[w] = "failed" /\ lockedUntil[Current(w)[1]] = lease[w] =>
         Current(w)[2] < failures[Current(w)[1]]

OInv == TypeOK /\ LeasesDiffer /\ RetriesLeft /\ HeldCounts /\ DeadOnlyWhenExhausted

-------------------------------------------------------------------------------
\* The provers need a hand with functions to BOOLEAN.
LEMMA BooleanUpdate ==
  ASSUME NEW S, NEW f \in [S -> BOOLEAN], NEW x \in S, NEW b \in BOOLEAN
  PROVE  [f EXCEPT ![x] = b] \in [S -> BOOLEAN]
OBVIOUS

LEMMA MaxRetriesType == MaxRetries \in Nat \ {0}
BY OutboxAssumption

\* The values of a function are no more than its arguments.
LEMMA FewValues ==
  ASSUME NEW S, IsFiniteSet(S), NEW f
  PROVE  IsFiniteSet({f[x] : x \in S}) /\ Cardinality({f[x] : x \in S}) <= Cardinality(S)
<1> DEFINE T == {f[x] : x \in S}
           g == [x \in S |-> f[x]]
<1>1. g \in Surjection(S, T)
  BY DEF Surjection
<1> HIDE DEF T, g
<1>2. IsFiniteSet(T) /\ Cardinality(T) <= Cardinality(S)
  BY <1>1, FS_Surjection
<1> QED BY <1>2 DEF T

\* There are more leases than events and workers: one of them is not in use.
LEMMA NewLeaseIsNew ==
  ASSUME TypeOK
  PROVE  /\ NewLease \in Leases
         /\ \A e \in Events : lockedUntil[e] # NewLease
         /\ \A w \in Workers : lease[w] # NewLease
<1> DEFINE ofEvents == {lockedUntil[e] : e \in Events}
           ofWorkers == {lease[w] : w \in Workers}
           N == Cardinality(Workers) + Cardinality(Events)
<1>1. IsFiniteSet(Events) /\ IsFiniteSet(Workers)
  BY OutboxAssumption
<1>2. Cardinality(Events) \in Nat /\ Cardinality(Workers) \in Nat
  BY <1>1, FS_CardinalityType
<1>3. IsFiniteSet(ofEvents) /\ Cardinality(ofEvents) <= Cardinality(Events)
  BY <1>1, FewValues
<1>4. IsFiniteSet(ofWorkers) /\ Cardinality(ofWorkers) <= Cardinality(Workers)
  BY <1>1, FewValues
<1> HIDE DEF ofEvents, ofWorkers
<1>5. IsFiniteSet(ofEvents \cup ofWorkers) /\ Cardinality(ofEvents \cup ofWorkers) <= N
  <2>1. /\ IsFiniteSet(ofEvents \cup ofWorkers)
        /\ IsFiniteSet(ofEvents \cap ofWorkers)
        /\ Cardinality(ofEvents \cup ofWorkers) =
             Cardinality(ofEvents) + Cardinality(ofWorkers) - Cardinality(ofEvents \cap ofWorkers)
    BY <1>3, <1>4, FS_Union, FS_Intersection
  <2>2. /\ Cardinality(ofEvents) \in Nat /\ Cardinality(ofWorkers) \in Nat
        /\ Cardinality(ofEvents \cap ofWorkers) \in Nat
    BY <1>3, <1>4, <2>1, FS_CardinalityType
  <2> QED BY <1>2, <1>3, <1>4, <2>1, <2>2
<1>6. Cardinality(Leases) = N + 1
  BY <1>2, FS_Interval DEF Leases
<1>7. ~ (Leases \subseteq ofEvents \cup ofWorkers)
  <2> SUFFICES ASSUME Leases \subseteq ofEvents \cup ofWorkers PROVE FALSE
    OBVIOUS
  <2>1. Cardinality(Leases) <= Cardinality(ofEvents \cup ofWorkers)
    BY <1>5, FS_Subset
  <2>2. Cardinality(ofEvents \cup ofWorkers) \in Nat
    BY <1>5, FS_CardinalityType
  <2> QED BY <1>2, <1>5, <1>6, <2>1, <2>2
<1>8. PICK l \in Leases : l \notin ofEvents \cup ofWorkers
  BY <1>7
<1>9. (\A e \in Events : lockedUntil[e] # l) /\ \A w \in Workers : lease[w] # l
  BY <1>8 DEF ofEvents, ofWorkers
<1> QED BY <1>8, <1>9 DEF NewLease

LEMMA LeasesType == Leases \subseteq Nat \ {0}
BY OutboxAssumption, FS_CardinalityType DEF Leases

\* Every non-empty set of naturals has a least element.
LEMMA LeastNat ==
  ASSUME NEW T \in SUBSET Nat, T # {}
  PROVE  \E n \in T : \A m \in T : n <= m
<1> DEFINE R == OpToRel(<, Nat)
<1>1. IsWellFoundedOn(R, Nat)
  BY NatLessThanWellFounded
<1>2. \A x, y \in Nat : y < x => <<y, x>> \in R
  BY DEF OpToRel
<1> HIDE DEF R
<1>3. PICK n \in T : \A y \in T : ~ (<<y, n>> \in R)
  BY <1>1, WFMin, Zenon
<1>4. \A m \in T : ~ (m < n)
  BY <1>2, <1>3
<1>5. \A m \in T : n <= m
  BY <1>4
<1> QED BY <1>5

\* A batch with events in it has one with the lowest id.
LEMMA CurrentInBatch ==
  ASSUME TypeOK, NEW w \in Workers, batch[w] # {}
  PROVE  /\ Current(w) \in batch[w]
         /\ Current(w)[1] \in Events
         /\ Current(w)[2] \in 0 .. MaxRetries - 1
<1> DEFINE ids == {b[1] : b \in batch[w]}
<1>1. batch[w] \subseteq Events \X (0 .. MaxRetries - 1)
  BY DEF TypeOK
<1>2. ids \in SUBSET Nat /\ ids # {}
  BY <1>1, OutboxAssumption
<1>3. PICK n \in ids : \A m \in ids : n <= m
  <2> HIDE DEF ids
  <2> QED BY <1>2, LeastNat
<1>4. PICK b \in batch[w] : b[1] = n
  BY <1>3
<1>5. \A x \in batch[w] : b[1] <= x[1]
  BY <1>3, <1>4
<1>6. Current(w) \in batch[w]
  BY <1>4, <1>5 DEF Current
<1> QED BY <1>1, <1>6

LEMMA InitOInv ==
  ASSUME Init
  PROVE  OInv
<1> USE OutboxAssumption
<1>1. TypeOK
  BY DEF Init, TypeOK
<1>2. LeasesDiffer /\ RetriesLeft /\ HeldCounts /\ DeadOnlyWhenExhausted
  BY DEF Init, LeasesDiffer, RetriesLeft, HeldCounts, DeadOnlyWhenExhausted
<1> QED BY <1>1, <1>2 DEF OInv

-------------------------------------------------------------------------------
\* claimBatch takes a lease that nobody has: the counts it reads are those of the
\* rows, and no other worker holds the events any more.
LEMMA ClaimStep ==
  ASSUME OInv, NEW w \in Workers, Claim(w)
  PROVE  OInv'
<1> USE DEF OInv
<1> DEFINE l == NewLease
           F == FirstClaimable
<1>1. /\ batch[w] = {}
      /\ batch' = [batch EXCEPT ![w] = {<<e, retry[e]>> : e \in F}]
      /\ lease' = [lease EXCEPT ![w] = l]
      /\ status' = [e \in Events |-> IF e \in F THEN "PROCESSING" ELSE status[e]]
      /\ lockedUntil' = [e \in Events |-> IF e \in F THEN l ELSE lockedUntil[e]]
      /\ due' = [e \in Events |-> due[e] /\ e \notin F]
      /\ UNCHANGED <<retry, attempt, published, failures>>
  BY DEF Claim
<1>2. /\ l \in Leases /\ l # 0
      /\ \A e \in Events : lockedUntil[e] # l
      /\ \A v \in Workers : lease[v] # l
  BY NewLeaseIsNew, LeasesType
<1>3. F \subseteq Events /\ \A e \in F : status[e] \in {"PENDING", "RETRY", "PROCESSING"}
  BY DEF FirstClaimable, Claimable
<1> HIDE DEF l, F
<1>4. \A e \in Events : retry[e] \in Nat /\ failures[e] \in Nat
  BY MaxRetriesType DEF TypeOK
<1>5. \A e \in F : retry[e] \in 0 .. MaxRetries - 1
  BY <1>3, <1>4, MaxRetriesType DEF RetriesLeft
<1>6. TypeOK'
  <2>1. batch' \in [Workers -> SUBSET (Events \X (0 .. MaxRetries - 1))]
    BY <1>1, <1>3, <1>5 DEF TypeOK
  <2>2. lease' \in [Workers -> Leases \cup {0}]
    BY <1>1, <1>2 DEF TypeOK
  <2>3. /\ status' \in [Events -> {"PENDING", "PROCESSING", "RETRY", "PUBLISHED", "DEAD"}]
        /\ lockedUntil' \in [Events -> Leases \cup {0}]
        /\ \A e \in Events : status'[e] = "PROCESSING" <=> lockedUntil'[e] # 0
    BY <1>1, <1>2 DEF TypeOK
  <2>4. due' \in [Events -> BOOLEAN]
    BY <1>1
  <2> QED BY <1>1, <2>1, <2>2, <2>3, <2>4 DEF TypeOK
<1>7. attempt[w] = "none"
  BY <1>1 DEF LeasesDiffer
<1>8. /\ lease'[w] = l
      /\ \A v \in Workers : v # w =>
           lease'[v] = lease[v] /\ batch'[v] = batch[v] /\ Current(v)' = Current(v)
  BY <1>1 DEF TypeOK, Current
<1>9. LeasesDiffer'
  BY <1>1, <1>2, <1>7, <1>8 DEF LeasesDiffer
<1>10. RetriesLeft' /\ DeadOnlyWhenExhausted'
  BY <1>1, <1>3 DEF RetriesLeft, DeadOnlyWhenExhausted
<1>11. HeldCounts'
  <2>1. \A b \in batch'[w] : b[1] \in Events /\ b[2] = retry[b[1]]
    BY <1>1, <1>3 DEF TypeOK
  <2>2. \A b \in batch'[w] : b[2] <= failures[b[1]]
    BY <2>1 DEF DeadOnlyWhenExhausted
  <2>3. ASSUME NEW v \in Workers, v # w, NEW b \in batch[v], lockedUntil'[b[1]] = lease[v]
        PROVE  lockedUntil[b[1]] = lease[v]
    <3>1. b[1] \in Events
      BY DEF TypeOK
    <3> QED BY <1>1, <1>2, <2>3, <3>1
  <2>4. ASSUME NEW v \in Workers, v # w, attempt[v] = "failed"
        PROVE  Current(v) \in batch[v]
    BY <2>4, CurrentInBatch DEF LeasesDiffer
  <2> QED BY <1>1, <1>7, <1>8, <2>2, <2>3, <2>4 DEF HeldCounts
<1> QED BY <1>6, <1>9, <1>10, <1>11
LEMMA TimePassesStep ==
  ASSUME OInv, NEW e \in Events, TimePasses(e)
  PROVE  OInv'
<1> USE DEF OInv
<1>1. /\ due' = [due EXCEPT ![e] = TRUE] /\ due \in [Events -> BOOLEAN]
      /\ UNCHANGED <<status, retry, lockedUntil, batch, lease, attempt, published, failures>>
  BY DEF TimePasses, workers, TypeOK
<1>2. TypeOK'
  BY <1>1, BooleanUpdate DEF TypeOK
<1>3. LeasesDiffer' /\ RetriesLeft' /\ HeldCounts' /\ DeadOnlyWhenExhausted'
  BY <1>1 DEF LeasesDiffer, RetriesLeft, HeldCounts, DeadOnlyWhenExhausted, Current
<1> QED BY <1>2, <1>3

\* The failures grow, of one event and by one, and its worker knows.
LEMMA FailsStep ==
  ASSUME OInv, NEW w \in Workers, batch[w] # {}, Fails(w), UNCHANGED <<rows, batch, lease>>,
         published' \subseteq Events
  PROVE  OInv'
<1> USE DEF OInv
<1> DEFINE e == Current(w)[1]
<1>1. /\ attempt' = [attempt EXCEPT ![w] = "failed"]
      /\ failures' = [failures EXCEPT ![e] = IF failures[e] < MaxRetries THEN failures[e] + 1 ELSE failures[e]]
      /\ UNCHANGED <<status, retry, lockedUntil, due, batch, lease>>
  BY DEF Fails, rows
<1>2. Current(w) \in batch[w] /\ e \in Events /\ Current(w)[2] \in 0 .. MaxRetries - 1
  BY CurrentInBatch
<1>3. /\ failures \in [Events -> 0 .. MaxRetries] /\ MaxRetries \in Nat \ {0}
      /\ \A x \in Events : retry[x] \in 0 .. MaxRetries
  BY MaxRetriesType DEF TypeOK
<1>4. /\ failures' \in [Events -> 0 .. MaxRetries]
      /\ \A x \in Events : failures[x] <= failures'[x]
      /\ \A n \in 0 .. MaxRetries - 1 : n <= failures[e] => n < failures'[e]
  <2> HIDE DEF e
  <2> QED BY <1>1, <1>2, <1>3
<1>5. TypeOK'
  BY <1>1, <1>4 DEF TypeOK
<1>6. LeasesDiffer' /\ RetriesLeft'
  BY <1>1 DEF LeasesDiffer, RetriesLeft, TypeOK
<1>7. DeadOnlyWhenExhausted'
  BY <1>1, <1>3, <1>4 DEF DeadOnlyWhenExhausted
<1>8. HeldCounts'
  <2> SUFFICES ASSUME NEW v \in Workers
               PROVE  /\ \A b \in batch[v] : lockedUntil[b[1]] = lease[v] => b[2] <= failures'[b[1]]
                      /\ attempt'[v] = "failed" /\ lockedUntil[Current(v)[1]] = lease[v] =>
                           Current(v)[2] < failures'[Current(v)[1]]
    BY <1>1 DEF HeldCounts, Current
  <2>1. ASSUME NEW b \in batch[v], lockedUntil[b[1]] = lease[v]
        PROVE  b[2] <= failures'[b[1]]
    <3>1. b[1] \in Events /\ b[2] \in 0 .. MaxRetries - 1 /\ b[2] <= failures[b[1]]
      BY <2>1 DEF TypeOK, HeldCounts
    <3> QED BY <1>3, <1>4, <3>1
  <2>2. ASSUME attempt'[v] = "failed", lockedUntil[Current(v)[1]] = lease[v]
        PROVE  Current(v)[2] < failures'[Current(v)[1]]
    <3>1. CASE v = w
      BY <1>2, <1>4, <2>2, <3>1 DEF HeldCounts
    <3>2. CASE v # w
      <4>1. attempt[v] = "failed" /\ batch[v] # {}
        BY <1>1, <2>2, <3>2 DEF TypeOK, LeasesDiffer
      <4>2. /\ Current(v)[1] \in Events /\ Current(v)[2] \in 0 .. MaxRetries - 1
            /\ Current(v)[2] < failures[Current(v)[1]]
        BY <2>2, <4>1, CurrentInBatch DEF HeldCounts
      <4> QED BY <1>3, <1>4, <4>2
    <3> QED BY <3>1, <3>2
  <2> QED BY <2>1, <2>2
<1> QED BY <1>5, <1>6, <1>7, <1>8

LEMMA PublishStep ==
  ASSUME OInv, NEW w \in Workers, Publish(w)
  PROVE  OInv'
<1> USE DEF OInv
<1>1. /\ batch[w] # {} /\ UNCHANGED <<status, retry, lockedUntil, due, batch, lease>>
  BY DEF Publish, rows
<1>2. Current(w)[1] \in Events
  BY <1>1, CurrentInBatch
<1>3. published' \subseteq Events
  BY <1>2 DEF Publish, TypeOK
<1>4. CASE attempt' = [attempt EXCEPT ![w] = "ok"] /\ UNCHANGED failures
  <2>1. TypeOK'
    BY <1>1, <1>3, <1>4 DEF TypeOK
  <2>2. LeasesDiffer' /\ RetriesLeft' /\ DeadOnlyWhenExhausted'
    BY <1>1, <1>4 DEF LeasesDiffer, RetriesLeft, DeadOnlyWhenExhausted, TypeOK
  <2>3. HeldCounts'
    BY <1>1, <1>4 DEF HeldCounts, Current, TypeOK
  <2> QED BY <2>1, <2>2, <2>3
<1>5. CASE Fails(w)
  BY <1>1, <1>3, <1>5, FailsStep DEF rows
<1> QED BY <1>4, <1>5 DEF Publish

LEMMA MarkPublishedThrowsStep ==
  ASSUME OInv, NEW w \in Workers, MarkPublishedThrows(w)
  PROVE  OInv'
<1>1. batch[w] # {} /\ Fails(w) /\ UNCHANGED <<rows, batch, lease, published>>
  BY DEF MarkPublishedThrows, OInv, LeasesDiffer
<1>2. published' \subseteq Events
  BY <1>1 DEF OInv, TypeOK
<1> QED BY <1>1, <1>2, FailsStep

LEMMA WorkerDiesStep ==
  ASSUME OInv, NEW w \in Workers, WorkerDies(w)
  PROVE  OInv'
<1> USE DEF OInv
<1>1. /\ batch' = [batch EXCEPT ![w] = {}]
      /\ lease' = [lease EXCEPT ![w] = 0]
      /\ attempt' = [attempt EXCEPT ![w] = "none"]
      /\ UNCHANGED <<status, retry, lockedUntil, due, published, failures>>
  BY DEF WorkerDies, rows
<1>2. TypeOK'
  BY <1>1 DEF TypeOK
<1>3. /\ lease'[w] = 0 /\ batch'[w] = {} /\ attempt'[w] = "none"
      /\ \A v \in Workers : v # w => /\ lease'[v] = lease[v] /\ batch'[v] = batch[v]
                                     /\ attempt'[v] = attempt[v] /\ Current(v)' = Current(v)
  BY <1>1 DEF TypeOK, Current
<1>4. LeasesDiffer' /\ RetriesLeft' /\ DeadOnlyWhenExhausted'
  BY <1>1, <1>3 DEF LeasesDiffer, RetriesLeft, DeadOnlyWhenExhausted
<1>5. HeldCounts'
  BY <1>1, <1>3 DEF HeldCounts
<1> QED BY <1>2, <1>4, <1>5
LEMMA ReplayStep ==
  ASSUME OInv, NEW e \in Events, Replay(e)
  PROVE  OInv'
<1> USE DEF OInv
<1>1. /\ status[e] = "DEAD" /\ status' = [status EXCEPT ![e] = "PENDING"]
      /\ retry' = [retry EXCEPT ![e] = 0]
      /\ due' = [due EXCEPT ![e] = TRUE] /\ due \in [Events -> BOOLEAN]
      /\ failures' = [failures EXCEPT ![e] = 0]
      /\ UNCHANGED <<lockedUntil, batch, lease, attempt, published>>
  BY DEF Replay, workers, TypeOK
<1>2. lockedUntil[e] = 0 /\ MaxRetries \in Nat \ {0}
  BY <1>1, MaxRetriesType DEF TypeOK
<1>3. due' \in [Events -> BOOLEAN]
  BY <1>1, BooleanUpdate
<1>4. TypeOK'
  BY <1>1, <1>2, <1>3 DEF TypeOK
<1>5. LeasesDiffer' /\ RetriesLeft' /\ DeadOnlyWhenExhausted'
  BY <1>1, <1>2 DEF LeasesDiffer, RetriesLeft, DeadOnlyWhenExhausted, TypeOK
<1>6. HeldCounts'
  <2> SUFFICES ASSUME NEW v \in Workers
               PROVE  /\ \A b \in batch[v] : lockedUntil[b[1]] = lease[v] => b[2] <= failures'[b[1]]
                      /\ attempt[v] = "failed" /\ lockedUntil[Current(v)[1]] = lease[v] =>
                           Current(v)[2] < failures'[Current(v)[1]]
    BY <1>1 DEF HeldCounts, Current
  <2>1. \A b \in batch[v] : lockedUntil[b[1]] = lease[v] => b[1] # e /\ b[1] \in Events
    BY <1>2 DEF LeasesDiffer, TypeOK
  <2>2. attempt[v] = "failed" => Current(v) \in batch[v]
    BY CurrentInBatch DEF LeasesDiffer
  <2>3. \A x \in Events : x # e => failures'[x] = failures[x]
    BY <1>1 DEF TypeOK
  <2> QED BY <2>1, <2>2, <2>3 DEF HeldCounts
<1> QED BY <1>4, <1>5, <1>6

\* What Mark writes: nothing when the lease was lost, and otherwise a count that
\* the failures cover.
LEMMA MarkWrites ==
  ASSUME OInv, NEW w \in Workers, Mark(w)
  PROVE  LET e == Current(w)[1]
         IN  \/ ~ Holds(w, e) /\ UNCHANGED rows
             \/ /\ Holds(w, e)
                /\ \E to \in {"PUBLISHED", "RETRY", "DEAD"}, n \in 0 .. MaxRetries :
                     /\ Moves(e, to, n)
                     /\ n <= failures[e]
                     /\ IF to = "DEAD" THEN n = MaxRetries ELSE n < MaxRetries
<1> USE DEF OInv
<1> DEFINE e == Current(w)[1]
           next == NextRetry(Current(w)[2])
<1>1. /\ attempt[w] # "none" /\ batch[w] # {}
      /\ IF ~Holds(w, e) THEN UNCHANGED rows
         ELSE IF attempt[w] = "ok" THEN Moves(e, "PUBLISHED", retry[e])
         ELSE Moves(e, IF Exhausted(next) THEN "DEAD" ELSE "RETRY", next)
  BY DEF Mark, LeasesDiffer
<1>2. /\ e \in Events /\ Current(w)[2] \in 0 .. MaxRetries - 1
      /\ MaxRetries \in Nat \ {0}
      /\ failures[e] \in 0 .. MaxRetries /\ retry[e] \in 0 .. MaxRetries
  BY <1>1, CurrentInBatch, MaxRetriesType DEF TypeOK
<1>3. CASE ~ Holds(w, e)
  BY <1>1, <1>3
<1>4. CASE Holds(w, e) /\ attempt[w] = "ok"
  <2>1. Moves(e, "PUBLISHED", retry[e])
    BY <1>1, <1>4
  <2>2. retry[e] <= failures[e] /\ retry[e] < MaxRetries
    BY <1>2, <1>4 DEF DeadOnlyWhenExhausted, RetriesLeft, Holds
  <2> QED BY <1>2, <1>4, <2>1, <2>2
<1>5. CASE Holds(w, e) /\ attempt[w] # "ok"
  <2>1. attempt[w] = "failed" /\ lockedUntil[e] = lease[w]
    BY <1>1, <1>5 DEF TypeOK, Holds
  <2>2. Current(w)[2] < failures[e]
    BY <2>1 DEF HeldCounts
  <2>3. next \in 0 .. MaxRetries /\ next <= failures[e]
    BY <1>2, <2>2 DEF NextRetry
  <2>4. CASE Exhausted(next)
    <3>1. Moves(e, "DEAD", next)
      BY <1>1, <1>5, <2>4
    <3>2. next = MaxRetries
      BY <1>2, <2>3, <2>4 DEF Exhausted
    <3> QED BY <1>5, <2>3, <3>1, <3>2
  <2>5. CASE ~ Exhausted(next)
    <3>1. Moves(e, "RETRY", next)
      BY <1>1, <1>5, <2>5
    <3>2. next < MaxRetries
      BY <1>2, <2>3, <2>5 DEF Exhausted
    <3> QED BY <1>5, <2>3, <3>1, <3>2
  <2> QED BY <2>4, <2>5
<1> QED BY <1>3, <1>4, <1>5

LEMMA MarkStep ==
  ASSUME OInv, NEW w \in Workers, Mark(w)
  PROVE  OInv'
<1> USE DEF OInv
<1> DEFINE e == Current(w)[1]
<1>1. /\ attempt[w] # "none" /\ batch[w] # {}
      /\ batch' = [batch EXCEPT ![w] = batch[w] \ {Current(w)}]
      /\ lease' = [lease EXCEPT ![w] = IF batch'[w] = {} THEN 0 ELSE lease[w]]
      /\ attempt' = [attempt EXCEPT ![w] = "none"]
      /\ UNCHANGED <<published, failures>>
  BY DEF Mark, LeasesDiffer, TypeOK
<1>2. e \in Events
  BY <1>1, CurrentInBatch
<1>3. /\ attempt'[w] = "none" /\ batch'[w] \subseteq batch[w]
      /\ lease'[w] = IF batch'[w] = {} THEN 0 ELSE lease[w]
      /\ \A v \in Workers : v # w => /\ lease'[v] = lease[v] /\ batch'[v] = batch[v]
                                     /\ attempt'[v] = attempt[v] /\ Current(v)' = Current(v)
  BY <1>1 DEF TypeOK, Current
<1>4. /\ batch' \in [Workers -> SUBSET (Events \X (0 .. MaxRetries - 1))]
      /\ lease' \in [Workers -> Leases \cup {0}]
      /\ attempt' \in [Workers -> {"none", "ok", "failed"}]
  BY <1>1 DEF TypeOK
<1>5. LeasesDiffer'
  BY <1>3 DEF LeasesDiffer
<1>6. \A v \in Workers : batch'[v] # {} => lease'[v] = lease[v] /\ lease[v] # 0
  BY <1>1, <1>3 DEF LeasesDiffer
<1>7. \A v \in Workers : attempt'[v] = "failed" => batch[v] # {} /\ v # w
  BY <1>3 DEF LeasesDiffer
<1>8. \A v \in Workers : batch'[v] \subseteq batch[v]
  BY <1>3
<1> HIDE DEF e
<1>9. CASE UNCHANGED rows
  <2>1. TypeOK'
    BY <1>1, <1>4, <1>9 DEF TypeOK, rows
  <2>2. HeldCounts'
    BY <1>1, <1>3, <1>6, <1>7, <1>8, <1>9 DEF HeldCounts, rows
  <2>3. RetriesLeft' /\ DeadOnlyWhenExhausted'
    BY <1>1, <1>9 DEF RetriesLeft, DeadOnlyWhenExhausted, rows
  <2> QED BY <1>5, <2>1, <2>2, <2>3
<1>10. ASSUME NEW to \in {"PUBLISHED", "RETRY", "DEAD"}, NEW n \in 0 .. MaxRetries,
              Moves(e, to, n), n <= failures[e],
              IF to = "DEAD" THEN n = MaxRetries ELSE n < MaxRetries
       PROVE  OInv'
  <2>1. /\ status' = [status EXCEPT ![e] = to] /\ retry' = [retry EXCEPT ![e] = n]
        /\ lockedUntil' = [lockedUntil EXCEPT ![e] = 0] /\ due' = [due EXCEPT ![e] = FALSE]
    BY <1>10 DEF Moves
  <2>2. due' \in [Events -> BOOLEAN]
    BY <1>2, <2>1, BooleanUpdate DEF TypeOK
  <2>3. TypeOK'
    BY <1>1, <1>2, <1>4, <2>1, <2>2 DEF TypeOK
  <2>4. \A x \in Events : IF x = e THEN lockedUntil'[x] = 0 ELSE lockedUntil'[x] = lockedUntil[x]
    BY <2>1 DEF TypeOK
  <2>5. RetriesLeft' /\ DeadOnlyWhenExhausted'
    <3>1. failures[e] \in 0 .. MaxRetries /\ MaxRetries \in Nat
      BY <1>2, MaxRetriesType DEF TypeOK
    <3>2. /\ status'[e] = to /\ retry'[e] = n
          /\ \A x \in Events : x # e => status'[x] = status[x] /\ retry'[x] = retry[x]
      BY <1>2, <2>1 DEF TypeOK
    <3> QED BY <1>1, <1>10, <3>1, <3>2 DEF RetriesLeft, DeadOnlyWhenExhausted
  <2>6. HeldCounts'
    <3> SUFFICES ASSUME NEW v \in Workers
                 PROVE  /\ \A b \in batch'[v] : lockedUntil'[b[1]] = lease'[v] => b[2] <= failures[b[1]]
                        /\ attempt'[v] = "failed" /\ lockedUntil'[Current(v)'[1]] = lease'[v] =>
                             Current(v)'[2] < failures[Current(v)'[1]]
      BY <1>1 DEF HeldCounts
    <3>1. \A b \in batch'[v] : b[1] \in Events
      BY <1>4
    <3>2. \A b \in batch'[v] : lockedUntil'[b[1]] = lease'[v] => lockedUntil[b[1]] = lease[v]
      BY <1>6, <2>4, <3>1
    <3>3. \A b \in batch'[v] : lockedUntil'[b[1]] = lease'[v] => b[2] <= failures[b[1]]
      BY <1>8, <3>2 DEF HeldCounts
    <3>4. ASSUME attempt'[v] = "failed", lockedUntil'[Current(v)'[1]] = lease'[v]
          PROVE  Current(v)'[2] < failures[Current(v)'[1]]
      <4>1. v # w /\ batch[v] # {}
        BY <1>7, <3>4
      <4>2. Current(v)' = Current(v) /\ batch'[v] = batch[v] /\ attempt[v] = "failed"
        BY <1>3, <3>4, <4>1
      <4>3. Current(v) \in batch'[v]
        BY <4>1, <4>2, CurrentInBatch
      <4>4. lockedUntil[Current(v)[1]] = lease[v]
        BY <3>2, <3>4, <4>2, <4>3
      <4> QED BY <4>2, <4>4 DEF HeldCounts
    <3> QED BY <3>3, <3>4
  <2> QED BY <1>5, <2>3, <2>5, <2>6
<1> QED BY <1>9, <1>10, MarkWrites DEF e
LEMMA NextStep ==
  ASSUME OInv, [Next]_vars
  PROVE  OInv'
<1>1. CASE UNCHANGED vars
  BY <1>1 DEF vars, rows, workers, OInv, TypeOK, LeasesDiffer, RetriesLeft, HeldCounts,
     DeadOnlyWhenExhausted, Current
<1> QED BY <1>1, ClaimStep, PublishStep, MarkStep, WorkerDiesStep, TimePassesStep,
           MarkPublishedThrowsStep, ReplayStep DEF Next, Step, WorkerStep

\* The invariant of the outbox is inductive.
LEMMA OutboxInvariant == Spec => []OInv
<1>1. Init => OInv
  BY InitOInv
<1>2. OInv /\ [Next]_vars => OInv'
  BY NextStep
<1> QED BY <1>1, <1>2, PTL DEF Spec

\* What the fence is worth: a worker whose event another one has claimed holds it
\* no more, as their leases differ.
LEMMA FencedStep ==
  ASSUME OInv, NEW w \in Workers, NEW v \in Workers, w # v, Mark(w),
         status[Current(w)[1]] = "PROCESSING", lockedUntil[Current(w)[1]] = lease[v]
  PROVE  UNCHANGED rows
<1> USE DEF OInv
<1>1. batch[w] # {}
  BY DEF Mark, LeasesDiffer
<1>2. Current(w)[1] \in Events
  BY <1>1, CurrentInBatch
<1>3. lease[v] # 0 /\ lease[w] # lease[v]
  BY <1>2 DEF TypeOK, LeasesDiffer
<1>4. ~ Holds(w, Current(w)[1])
  BY <1>3 DEF Holds
<1> QED BY <1>4, MarkWrites

-------------------------------------------------------------------------------
\* Types are kept by every step of the workers, by replays, and by a database
\* that fails; a row is PROCESSING exactly as long as it carries a lease.
THEOREM OutboxTyping == Spec => []TypeOK
<1>1. OInv => TypeOK
  BY DEF OInv
<1> QED BY <1>1, OutboxInvariant, PTL

\* Once another worker has claimed an event, a slow one changes its row no more,
\* whatever it marks and however often leases were granted before (the
\* locked_until of markPublished, markRetry and markDead).
THEOREM LeaseIsAFence == Spec => SlowWorkerIsFenced
<1> DEFINE Fenced == \A w \in Workers, v \in Workers, e \in Events :
                       /\ w # v /\ Mark(w) /\ e = Current(w)[1]
                       /\ status[e] = "PROCESSING" /\ lockedUntil[e] = lease[v]
                       => UNCHANGED <<status[e], retry[e], lockedUntil[e]>>
<1>1. OInv => Fenced
  BY FencedStep DEF rows
<1>2. OInv /\ [Next]_vars => [Fenced]_vars
  BY <1>1
<1>3. Spec => [][Fenced]_vars
  <2> HIDE DEF Fenced
  <2> QED BY <1>2, OutboxInvariant, PTL DEF Spec
<1> QED BY <1>3 DEF SlowWorkerIsFenced

\* An event goes DEAD only after MAX_RETRIES failed attempts since it was written
\* or replayed, although the counts in the batches are stale (OutboxWorker.publish).
THEOREM DeadAfterMaxRetries == Spec => []DeadOnlyWhenExhausted
<1>1. OInv => DeadOnlyWhenExhausted
  BY DEF OInv
<1> QED BY <1>1, OutboxInvariant, PTL

-------------------------------------------------------------------------------
(***************************************************************************)
(* The drill.  After the injected crash nobody holds the event, and only a *)
(* claim changes that; so whoever marks it PUBLISHED has claimed it since. *)
(***************************************************************************)

NobodyHolds ==
  status[Subject] = "PROCESSING" /\ \A w \in Workers : lease[w] # lockedUntil[Subject]

LookedAt ==
  /\ reclaimed \in BOOLEAN
  /\ step = "recovery" => reclaimed \/ NobodyHolds
  /\ step \in {"order", "keys", "cancel"} => reclaimed
  /\ step = "cancel" => Subject \in published

DInv == OInv /\ LookedAt /\ PassedMeansReclaimed

Reclaims == \E w \in Workers : batch[w] = {} /\ \E b \in batch'[w] : b[1] = Subject

LEMMA NobodyHoldsKept ==
  ASSUME OInv, NobodyHolds, Next
  PROVE  NobodyHolds' \/ Reclaims
<1> USE OutboxDrillAssumption DEF OInv
<1>0. lockedUntil[Subject] # 0
  BY DEF NobodyHolds, TypeOK
<1>1. ASSUME NEW w \in Workers, Claim(w)
      PROVE  NobodyHolds' \/ Reclaims
  <2>1. CASE Subject \in FirstClaimable
    <3>1. <<Subject, retry[Subject]>> \in batch'[w] /\ batch[w] = {}
      BY <1>1, <2>1 DEF Claim, TypeOK
    <3> QED BY <3>1 DEF Reclaims
  <2>2. CASE Subject \notin FirstClaimable
    <3>1. status'[Subject] = status[Subject] /\ lockedUntil'[Subject] = lockedUntil[Subject]
      BY <1>1, <2>2 DEF Claim
    <3>2. \A v \in Workers : lease'[v] = lease[v] \/ lease'[v] = NewLease
      BY <1>1 DEF Claim, TypeOK
    <3> QED BY <3>1, <3>2, NewLeaseIsNew DEF NobodyHolds
  <2> QED BY <2>1, <2>2
<1>2. ASSUME NEW w \in Workers, Publish(w) \/ MarkPublishedThrows(w)
      PROVE  NobodyHolds'
  BY <1>2 DEF Publish, MarkPublishedThrows, rows, NobodyHolds
<1>3. ASSUME NEW w \in Workers, Mark(w)
      PROVE  NobodyHolds'
  <2>1. \A v \in Workers : lease'[v] \in {0, lease[v]}
    BY <1>3 DEF Mark, TypeOK
  <2>2. CASE UNCHANGED rows
    BY <1>0, <2>1, <2>2 DEF rows, NobodyHolds
  <2>3. ASSUME Holds(w, Current(w)[1]), NEW to, NEW n, Moves(Current(w)[1], to, n)
        PROVE  NobodyHolds'
    <3>1. Current(w)[1] # Subject
      BY <2>3 DEF Holds, NobodyHolds
    <3>2. status'[Subject] = status[Subject] /\ lockedUntil'[Subject] = lockedUntil[Subject]
      BY <2>3, <3>1 DEF Moves, TypeOK
    <3> QED BY <1>0, <2>1, <3>2 DEF NobodyHolds
  <2> QED BY <1>3, <2>2, <2>3, MarkWrites
<1>4. ASSUME NEW w \in Workers, WorkerDies(w)
      PROVE  NobodyHolds'
  BY <1>0, <1>4 DEF WorkerDies, rows, NobodyHolds, TypeOK
<1>5. ASSUME NEW e \in Events, TimePasses(e) \/ Replay(e)
      PROVE  NobodyHolds'
  BY <1>5 DEF TimePasses, Replay, workers, NobodyHolds, TypeOK
<1> QED BY <1>1, <1>2, <1>3, <1>4, <1>5 DEF Next, Step, WorkerStep

LEMMA PublishedGrows ==
  ASSUME [Next]_vars
  PROVE  published \subseteq published'
BY DEF Next, Step, WorkerStep, Claim, Publish, Mark, WorkerDies, TimePasses, MarkPublishedThrows,
   Replay, vars

\* The script's lease is unlike all the others: nobody holds the event after it.
LEMMA InjectsCrashStep ==
  ASSUME DInv, InjectsCrash
  PROVE  DInv'
<1> USE OutboxDrillAssumption DEF DInv, OInv
<1>1. /\ status[Subject] # "DEAD"
      /\ status' = [status EXCEPT ![Subject] = "PROCESSING"]
      /\ lockedUntil' = [lockedUntil EXCEPT ![Subject] = NewLease]
      /\ due' = [due EXCEPT ![Subject] = TRUE] /\ due \in [Events -> BOOLEAN]
      /\ step' = "recovery" /\ UNCHANGED verdict
      /\ UNCHANGED <<retry, batch, lease, attempt, published, failures, reclaimed>>
  BY DEF InjectsCrash, Goes, workers, TypeOK
<1>2. /\ NewLease \in Leases /\ NewLease # 0
      /\ \A w \in Workers : lease[w] # NewLease
  BY NewLeaseIsNew, LeasesType
<1>3. TypeOK'
  BY <1>1, <1>2, BooleanUpdate DEF TypeOK
<1>4. LeasesDiffer' /\ RetriesLeft' /\ DeadOnlyWhenExhausted'
  BY <1>1 DEF LeasesDiffer, RetriesLeft, DeadOnlyWhenExhausted, TypeOK
<1>5. HeldCounts'
  <2>1. \A x \in Events, v \in Workers : lockedUntil'[x] = lease[v] => lockedUntil[x] = lease[v]
    BY <1>1, <1>2 DEF TypeOK
  <2>2. \A v \in Workers : \A b \in batch[v] : b[1] \in Events
    BY DEF TypeOK
  <2>3. \A v \in Workers : attempt[v] = "failed" => Current(v)[1] \in Events
    BY CurrentInBatch DEF LeasesDiffer
  <2>4. \A v \in Workers : Current(v)' = Current(v)
    BY <1>1 DEF Current
  <2> QED BY <1>1, <2>1, <2>2, <2>3, <2>4 DEF HeldCounts
<1>6. NobodyHolds'
  BY <1>1, <1>2 DEF NobodyHolds, TypeOK
<1>7. LookedAt' /\ PassedMeansReclaimed'
  BY <1>1, <1>6 DEF LookedAt, PassedMeansReclaimed
<1> QED BY <1>3, <1>4, <1>5, <1>7

\* The script waits, asserts or gives up; or the claim deadline of its order passes.
LEMMA ScriptStep ==
  ASSUME DInv, UNCHANGED <<vars, reclaimed>>,
         Setup \/ WaitsForRecovery \/ ChecksOrder \/ WaitsForKeys \/ Cancels \/ UNCHANGED script
  PROVE  DInv'
<1> USE DEF DInv
<1>1. OInv'
  BY NextStep
<1>2. UNCHANGED <<status, lockedUntil, lease, published, reclaimed>> /\ (NobodyHolds => NobodyHolds')
  BY DEF vars, rows, workers, NobodyHolds
<1>3. status[Subject] = "PUBLISHED" => ~ NobodyHolds
  BY DEF NobodyHolds
<1> USE <1>2, <1>3 DEF LookedAt, PassedMeansReclaimed, At, Goes, Raises
<1>4. LookedAt' /\ PassedMeansReclaimed'
  <2>1. CASE Setup
    BY <2>1 DEF Setup, Calls
  <2>2. CASE WaitsForRecovery
    BY <2>2 DEF WaitsForRecovery, WaitsUntil
  <2>3. CASE ChecksOrder
    BY <2>3 DEF ChecksOrder, Asserts
  <2>4. CASE WaitsForKeys
    BY <2>4 DEF WaitsForKeys, WaitsUntil
  <2>5. CASE Cancels
    BY <2>5 DEF Cancels, Passes
  <2>6. CASE UNCHANGED script
    BY <2>6 DEF script
  <2> QED BY <2>1, <2>2, <2>3, <2>4, <2>5, <2>6
<1> QED BY <1>1, <1>4

LEMMA OthersStep ==
  ASSUME DInv, Others
  PROVE  DInv'
<1> USE DEF DInv
<1>1. /\ OInv' /\ published \subseteq published' /\ UNCHANGED <<step, verdict>>
  BY NextStep, PublishedGrows DEF Others, script
<1>2. reclaimed' \in BOOLEAN /\ (reclaimed => reclaimed')
  BY DEF Others
<1>3. ASSUME step = "recovery", Reclaims
      PROVE  reclaimed'
  <2>1. \E w \in Workers : step \notin {"setup", "crash"} /\ batch[w] = {}
                            /\ \E b \in batch'[w] : b[1] = Subject
    BY <1>3 DEF Reclaims
  <2> QED BY <2>1, Zenon DEF Others
<1>4. step' = "recovery" => reclaimed' \/ NobodyHolds'
  BY <1>1, <1>2, <1>3, NobodyHoldsKept DEF LookedAt, Others
<1>5. LookedAt' /\ PassedMeansReclaimed'
  BY <1>1, <1>2, <1>4 DEF LookedAt, PassedMeansReclaimed
<1> QED BY <1>1, <1>5

LEMMA DrillNextStep ==
  ASSUME DInv, [DrillNext]_drillVars
  PROVE  DInv'
<1>1. CASE Setup \/ WaitsForRecovery \/ ChecksOrder \/ WaitsForKeys \/ Cancels \/ Expires
  BY <1>1, ScriptStep DEF Setup, WaitsForRecovery, ChecksOrder, WaitsForKeys, Cancels, Expires
<1>2. CASE UNCHANGED drillVars
  BY <1>2, ScriptStep DEF drillVars, drill
<1> QED BY <1>1, <1>2, InjectsCrashStep, OthersStep DEF DrillNext, Drill

LEMMA DrillInvariant == DrillSpec => []DInv
<1>1. DrillInit => DInv
  BY InitOInv DEF DrillInit, DInv, LookedAt, PassedMeansReclaimed
<1>2. DInv /\ [DrillNext]_drillVars => DInv'
  BY DrillNextStep
<1> QED BY <1>1, <1>2, PTL DEF DrillSpec

\* A crash recovery drill that passes has seen a recovery: some worker claimed the
\* event after the crash was injected, and the event's effects have taken place
\* (verify_outbox_crash_recovery.scenario).
THEOREM RecoveryReportIsTrue == DrillSpec => []PassedMeansReclaimed
<1>1. DInv => PassedMeansReclaimed
  BY DEF DInv
<1> QED BY <1>1, DrillInvariant, PTL

\* The crash the script injects costs no event an attempt.
THEOREM DeadAfterMaxRetriesUnderDrill == DrillSpec => []DeadOnlyWhenExhausted
<1>1. DInv => DeadOnlyWhenExhausted
  BY DEF DInv, OInv
<1> QED BY <1>1, DrillInvariant, PTL

-------------------------------------------------------------------------------
(***************************************************************************)
(* Evidence: the files of benchmark sessions.                              *)
(***************************************************************************)

FileType ==
  [session : Nat, left : Nat, number : Int, label : Modes \cup {"current", "none"}, passed : BOOLEAN,
   ran : Modes, result : Results, warm : BOOLEAN]

BenchTyped ==
  /\ stage \in {"idle", "configure", "load", "label", "level", "environment", "baseline"}
  /\ started \in Nat
  /\ deployed \in Modes
  /\ command \in Command /\ command.runs >= Required
  /\ number \in Int
  /\ outcome \in Results
  /\ raw \in SUBSET FileType /\ IsFiniteSet(raw)
  /\ listed \in SUBSET raw
  /\ index \in [there : BOOLEAN, files : SUBSET FileType]

Benching == stage \in {"configure", "load", "label"}

\* What is written on a labelled file is true.
Honest(f) ==
  /\ f.label \in Modes => f.ran = f.label
  /\ f.passed => f.result = "ok"

\* Each run is on file with all that the same pass over its mode made before it.
Gapless(files) ==
  \A f \in files : \A n \in 1..f.number :
    \E g \in files : g.label = f.label /\ g.left = f.left /\ g.number = n

\* Run n of the pass the session is in is on file.
Listed(n) == \E g \in listed : g.label = Mode /\ g.left = Len(command.modes) /\ g.number = n

\* The files of one session, after which warm-ups.
OfSession(files) ==
  /\ \A f \in files : Honest(f)
  /\ \A f, g \in files : f.session = g.session
  /\ (\E g \in files : Warmup(g)) => \A f \in files : Warmup(f) \/ f.warm
  /\ Gapless(files)

\* The session so far.
ListedRight ==
  /\ ~Benching => listed = {}
  /\ \A f \in listed : f.session = started /\ f.label # "none" /\ f.number >= 1 - command.warmups
  /\ command.warmups > 0 => \A f \in listed : Warmup(f) \/ f.warm
  /\ OfSession(listed)

\* While a run is made, or waits for its label.
RunRight ==
  stage \in {"load", "label"} =>
    /\ command.modes # <<>>
    /\ Mode \in Modes => deployed = Mode
    /\ number \in (1 - command.warmups) .. command.runs
    /\ \A n \in (1 - command.warmups) .. (number - 1) : Listed(n)

\* The session the index is of; its files are in the directory, or were cleared.
IndexRight ==
  /\ OfSession(index.files)
  /\ \A f \in index.files : f.session <= started /\ (Benching => f.session < started)
  /\ index.files \subseteq raw \/ index.files \cap raw = {}

BInv ==
  /\ BenchTyped
  /\ \A f \in raw : Honest(f)
  /\ ListedRight
  /\ RunRight
  /\ IndexRight
  /\ ReportRestsOnRuns

LEMMA NoCommand == None \in Command /\ None.runs >= Required /\ "ok" \in Results /\ Required \in Nat \ {0}
BY EvidenceAssumption DEF None, Command, Results

LEMMA InitBInv == EvidenceInit => BInv
<1> SUFFICES ASSUME EvidenceInit PROVE BInv
  OBVIOUS
<1>1. BenchTyped
  BY NoCommand, FS_EmptySet DEF EvidenceInit, BenchTyped, NoIndex
<1>2. listed = {} /\ index.files = {} /\ raw = {} /\ stage = "idle" /\ report.status = "NONE"
  BY DEF EvidenceInit, NoIndex
<1> QED BY <1>1, <1>2
  DEF BInv, ListedRight, RunRight, IndexRight, OfSession, Gapless, Benching, ReportRestsOnRuns

\* While no session runs, nothing is added to the files.
LEMMA RestKeepsBInv ==
  ASSUME BInv,
         stage' \in {"idle", "level", "environment", "baseline"},
         started' \in Nat, started' >= started,
         deployed' = deployed, raw' = raw, index' = index, report' = report,
         listed' = {}, command' \in Command, command'.runs >= Required, number' \in Int, outcome' \in Results
  PROVE  BInv'
<1>1. BenchTyped'
  BY DEF BInv, BenchTyped
<1>2. ~Benching'
  BY DEF Benching
<1>3. ListedRight' /\ RunRight'
  BY <1>2 DEF ListedRight, RunRight, OfSession, Gapless, Benching
<1>4. IndexRight'
  <2>1. OfSession(index.files)'
    BY DEF BInv, IndexRight, OfSession, Gapless, Honest, Warmup
  <2>2. \A f \in index'.files : f.session <= started'
    BY DEF BInv, BenchTyped, IndexRight, FileType
  <2> QED BY <2>1, <2>2, <1>2 DEF BInv, IndexRight
<1>5. ReportRestsOnRuns'
  BY DEF BInv, ReportRestsOnRuns
<1> QED BY <1>1, <1>3, <1>4, <1>5 DEF BInv, Honest

LEMMA CapacityKeepsBInv ==
  BInv /\ (ScriptKilled \/ DryRun \/ StartsCapacity \/ RunsLevel \/ Aggregates \/ ChecksStability
           \/ WritesEnvironment \/ WritesBaseline) => BInv'
<1> SUFFICES ASSUME BInv,
                    ScriptKilled \/ DryRun \/ StartsCapacity \/ RunsLevel \/ Aggregates \/ ChecksStability
                      \/ WritesEnvironment \/ WritesBaseline
             PROVE  BInv'
  OBVIOUS
<1>1. BenchTyped /\ (~Benching => listed = {})
  BY DEF BInv, ListedRight
<1>2. CASE ScriptKilled \/ WritesBaseline
  <2>1. /\ stage' = "idle" /\ started' = started
        /\ deployed' = deployed /\ raw' = raw /\ index' = index /\ report' = report
        /\ listed' = {} /\ command' = None /\ number' = 1 /\ outcome' = "ok"
    BY <1>2 DEF ScriptKilled, WritesBaseline, ToStage, Forgets, bench, capacity
  <2> QED BY <2>1, <1>1, NoCommand, RestKeepsBInv DEF BenchTyped
<1>3. CASE DryRun \/ StartsCapacity \/ RunsLevel \/ Aggregates \/ ChecksStability \/ WritesEnvironment
  <2>1. bench' = bench
    BY <1>3 DEF DryRun, StartsCapacity, RunsLevel, Aggregates, ChecksStability, WritesEnvironment
  <2>2. /\ stage \in {"idle", "level", "environment"}
        /\ stage' \in {"idle", "level", "environment", "baseline"}
    BY <1>3 DEF DryRun, StartsCapacity, RunsLevel, Aggregates, ChecksStability, WritesEnvironment,
                AtStage, ToStage, Starts
  <2>3. started' = started \/ started' = started + 1
    BY <1>3 DEF DryRun, StartsCapacity, RunsLevel, Aggregates, ChecksStability, WritesEnvironment, Starts, Counts
  <2>4. listed = {}
    BY <1>1, <2>2 DEF Benching
  <2>5. started' \in Nat /\ started' >= started
    BY <2>3, <1>1 DEF BenchTyped
  <2>6. /\ deployed' = deployed /\ raw' = raw /\ index' = index /\ report' = report
        /\ listed' = {} /\ command' = command /\ number' = number /\ outcome' = outcome
    BY <2>1, <2>4 DEF bench
  <2> QED BY <2>2, <2>5, <2>6, <1>1, RestKeepsBInv DEF BenchTyped
<1> QED BY <1>2, <1>3

LEMMA StartsSessionKeepsBInv == BInv /\ StartsSession => BInv'
<1> SUFFICES ASSUME BInv, StartsSession PROVE BInv'
  OBVIOUS
<1>1. /\ stage = "idle" /\ stage' = "configure" /\ started' = started + 1 /\ command' \in Invocations
      /\ deployed' = deployed /\ number' = number /\ outcome' = outcome
      /\ listed' = listed /\ raw' = raw /\ index' = index /\ report' = report
  BY DEF StartsSession, Starts, AtStage, ToStage
<1>2. command' \in Command /\ command'.runs >= Required
  BY <1>1, EvidenceAssumption
<1>3. listed = {}
  BY <1>1 DEF BInv, ListedRight, Benching
<1>4. BenchTyped'
  BY <1>1, <1>2 DEF BInv, BenchTyped
<1>5. ListedRight' /\ RunRight'
  BY <1>1, <1>3 DEF ListedRight, RunRight, OfSession, Gapless
<1>6. IndexRight'
  <2>1. OfSession(index.files)'
    BY <1>1 DEF BInv, IndexRight, OfSession, Gapless, Honest, Warmup
  <2>2. \A f \in index'.files : f.session < started'
    BY <1>1 DEF BInv, BenchTyped, IndexRight, FileType
  <2>3. \A f \in index'.files : f.session <= started'
    BY <1>1 DEF BInv, BenchTyped, IndexRight, FileType
  <2> QED BY <1>1, <2>1, <2>2, <2>3 DEF BInv, IndexRight
<1>7. ReportRestsOnRuns'
  BY <1>1 DEF BInv, ReportRestsOnRuns
<1> QED BY <1>1, <1>4, <1>5, <1>6, <1>7 DEF BInv, Honest

LEMMA ConfiguresKeepsBInv == BInv /\ Configures => BInv'
<1> SUFFICES ASSUME BInv, Configures PROVE BInv'
  OBVIOUS
<1>1. /\ stage = "configure" /\ stage' = "load" /\ command.modes # <<>>
      /\ deployed' = Deployed /\ number' = 1 - command.warmups
      /\ started' = started /\ command' = command /\ outcome' = outcome
      /\ listed' = listed /\ raw' = raw /\ index' = index /\ report' = report
  BY DEF Configures, AtStage, ToStage
<1>2. BenchTyped
  BY DEF BInv
<1>3. command.warmups \in Nat /\ command.runs \in Nat /\ command.runs >= 1
  BY <1>2, NoCommand DEF BenchTyped, Command
<1>4. deployed' \in Modes /\ (Mode \in Modes => deployed' = Mode)
  BY <1>1, <1>2 DEF BenchTyped, Deployed
<1>5. BenchTyped'
  BY <1>1, <1>2, <1>3, <1>4 DEF BenchTyped
<1>6. ListedRight'
  BY <1>1 DEF BInv, ListedRight, OfSession, Gapless, Honest, Warmup, Benching
<1>7. RunRight'
  BY <1>1, <1>3, <1>4 DEF RunRight, Mode, Listed
<1>8. IndexRight'
  BY <1>1 DEF BInv, IndexRight, OfSession, Gapless, Honest, Warmup, Benching
<1>9. ReportRestsOnRuns'
  BY <1>1 DEF BInv, ReportRestsOnRuns
<1> QED BY <1>1, <1>5, <1>6, <1>7, <1>8, <1>9 DEF BInv, Honest

LEMMA LoadsKeepsBInv == BInv /\ Loads => BInv'
<1> SUFFICES ASSUME BInv, Loads PROVE BInv'
  OBVIOUS
<1> DEFINE fl == File(outcome')
<1>1. /\ stage = "load" /\ stage' = "label" /\ outcome' \in Results
      /\ raw' = raw \/ raw' = raw \cup {fl}
      /\ started' = started /\ command' = command /\ number' = number /\ deployed' = deployed
      /\ listed' = listed /\ index' = index /\ report' = report
  BY DEF Loads, AtStage, ToStage, Counts
<1>2. BenchTyped
  BY DEF BInv
<1>3. fl \in FileType
  <2>1. Len(command.modes) \in Nat
    BY <1>2 DEF BenchTyped, Command
  <2>2. (\E f \in listed : f.label = Mode /\ Warmup(f)) \in BOOLEAN
    OBVIOUS
  <2> QED BY <1>1, <1>2, <2>1, <2>2 DEF BenchTyped, FileType, File
<1>4. fl.session = started /\ Honest(fl)
  BY DEF File, Honest, Modes
<1> HIDE DEF fl
<1>5. BenchTyped'
  <2>1. raw' \in SUBSET FileType
    BY <1>1, <1>2, <1>3 DEF BenchTyped
  <2>2. IsFiniteSet(raw')
    BY <1>1, <1>2, FS_AddElement DEF BenchTyped
  <2>3. listed' \in SUBSET raw'
    BY <1>1, <1>2 DEF BenchTyped
  <2> QED BY <1>1, <1>2, <2>1, <2>2, <2>3 DEF BenchTyped
<1>6. ListedRight'
  BY <1>1 DEF BInv, ListedRight, OfSession, Gapless, Honest, Warmup, Benching
<1>7. RunRight'
  BY <1>1 DEF BInv, RunRight, Mode, Listed
<1>8. IndexRight'
  <2>1. \A f \in index.files : f.session < started
    BY <1>1 DEF BInv, IndexRight, Benching
  <2>2. fl \notin index.files
    BY <1>2, <1>4, <2>1 DEF BenchTyped
  <2>3. index'.files \subseteq raw' \/ index'.files \cap raw' = {}
    BY <1>1, <2>2 DEF BInv, IndexRight
  <2>4. OfSession(index.files)'
    BY <1>1 DEF BInv, IndexRight, OfSession, Gapless, Honest, Warmup
  <2> QED BY <1>1, <2>1, <2>3, <2>4 DEF BInv, IndexRight
<1>9. ReportRestsOnRuns'
  BY <1>1 DEF BInv, ReportRestsOnRuns
<1> QED BY <1>1, <1>4, <1>5, <1>6, <1>7, <1>8, <1>9 DEF BInv, Honest

LEMMA LabelsKeepsBInv == BInv /\ Labels => BInv'
<1> SUFFICES ASSUME BInv, Labels PROVE BInv'
  OBVIOUS
<1> DEFINE old == File(outcome)
           new == Labelled(outcome)
<1>1. /\ stage = "label" /\ outcome' = "ok"
      /\ raw' = (raw \ {old}) \cup {new}
      /\ listed' = listed \cup {new}
      /\ started' = started /\ deployed' = deployed /\ index' = index /\ report' = report
  BY DEF Labels, AtStage
<1>2. \/ number < command.runs /\ number' = number + 1 /\ stage' = "load" /\ command' = command
      \/ /\ command' = [command EXCEPT !.modes = Tail(@)] /\ stage' = "configure" /\ number' = number
  BY DEF Labels, ToStage
<1>3. /\ BenchTyped
      /\ command.modes # <<>> /\ command.modes \in Seq(Modes \cup {"current"})
      /\ command.warmups \in Nat /\ command.runs \in Nat
      /\ number \in (1 - command.warmups) .. command.runs
      /\ Mode \in Modes => deployed = Mode
  BY <1>1 DEF BInv, BenchTyped, RunRight, Command
<1>4. Mode \in Modes \cup {"current"}
  BY <1>3 DEF Mode
<1>5. /\ new \in FileType
      /\ new.session = started /\ new.label = Mode /\ new.number = number /\ new.ran = deployed
      /\ new.left = Len(command.modes)
      /\ new.passed <=> outcome = "ok"
      /\ new.result = outcome
      /\ new.warm <=> \E f \in listed : f.label = Mode /\ Warmup(f)
  <2>1. Len(command.modes) \in Nat
    BY <1>3
  <2>2. (\E f \in listed : f.label = Mode /\ Warmup(f)) \in BOOLEAN
    OBVIOUS
  <2> QED BY <1>3, <1>4, <2>1, <2>2 DEF BenchTyped, FileType, File, Labelled, Passed
<1>6. old.session = started /\ old.label = "none"
  BY DEF File
<1> HIDE DEF old, new
<1>7. Honest(new) /\ new.label # "none"
  BY <1>3, <1>4, <1>5 DEF Honest, Modes
<1>8. command' \in Command /\ command'.runs = command.runs /\ command'.warmups = command.warmups
  <2>1. CASE command' = command
    BY <1>3, <2>1 DEF BenchTyped
  <2>2. CASE command' = [command EXCEPT !.modes = Tail(@)]
    <3>1. Tail(command.modes) \in Seq(Modes \cup {"current"})
      BY <1>3
    <3> QED BY <1>3, <2>2, <3>1 DEF BenchTyped, Command
  <2> QED BY <1>2, <2>1, <2>2
<1>9. BenchTyped'
  <2>1. raw' \in SUBSET FileType
    BY <1>1, <1>3, <1>5 DEF BenchTyped
  <2>2. IsFiniteSet(raw')
    <3>1. IsFiniteSet(raw \ {old})
      BY <1>3, FS_RemoveElement DEF BenchTyped
    <3> QED BY <1>1, <3>1, FS_AddElement
  <2>3. listed' \in SUBSET raw'
    BY <1>1, <1>3, <1>6 DEF BInv, BenchTyped, ListedRight
  <2>4. stage' \in {"load", "configure"} /\ number' \in Int
    BY <1>2, <1>3
  <2> QED BY <1>1, <1>3, <1>8, <2>1, <2>2, <2>3, <2>4, NoCommand DEF BenchTyped
<1>10. \A n \in (1 - command.warmups) .. (number - 1) :
         \E g \in listed : g.label = Mode /\ g.left = Len(command.modes) /\ g.number = n
  BY <1>1 DEF BInv, RunRight, Listed
<1>11. ListedRight'
  <2>1. Benching'
    BY <1>2 DEF Benching
  <2>2. \A f \in listed : f.session = started /\ f.label # "none" /\ f.number >= 1 - command.warmups
    BY DEF BInv, ListedRight
  <2>3. \A f \in listed' : f.session = started' /\ f.label # "none" /\ f.number >= 1 - command'.warmups
    BY <1>1, <1>3, <1>5, <1>7, <1>8, <2>2
  <2>4. command.warmups > 0 => new.number < 1 \/ new.warm
    <3> SUFFICES ASSUME command.warmups > 0, ~ (new.number < 1) PROVE new.warm
      OBVIOUS
    <3>1. 0 \in (1 - command.warmups) .. (number - 1)
      BY <1>3, <1>5
    <3>2. PICK g \in listed : g.label = Mode /\ g.number = 0
      BY <1>10, <3>1
    <3> QED BY <1>5, <3>2 DEF Warmup
  <2>5. command'.warmups > 0 => \A f \in listed' : f.number < 1 \/ f.warm
    BY <1>1, <1>8, <2>4 DEF BInv, ListedRight, Warmup
  <2>6. \A f \in listed' : Honest(f)
    BY <1>1, <1>7 DEF BInv, ListedRight, OfSession
  <2>7. \A f, g \in listed' : f.session = g.session
    BY <2>3
  <2>8. (\E g \in listed' : g.number < 1) => \A f \in listed' : f.number < 1 \/ f.warm
    <3> SUFFICES ASSUME NEW g \in listed', g.number < 1
                 PROVE  \A f \in listed' : f.number < 1 \/ f.warm
      OBVIOUS
    <3>1. g \in FileType
      BY <1>9 DEF BenchTyped
    <3>2. g.number \in Int /\ g.number >= 1 - command'.warmups
      BY <2>3, <3>1 DEF FileType
    <3>3. command'.warmups > 0
      BY <3>2, <1>3, <1>8
    <3> QED BY <2>5, <3>3
  <2>9. Gapless(listed)'
    <3>1. SUFFICES ASSUME NEW f \in listed', NEW n \in 1..f.number
                   PROVE  \E g \in listed' : g.label = f.label /\ g.left = f.left /\ g.number = n
      BY DEF Gapless
    <3>2. CASE f \in listed
      BY <1>1, <3>2 DEF BInv, ListedRight, OfSession, Gapless
    <3>3. CASE f = new /\ n = number
      BY <1>1, <1>5, <3>3
    <3>4. CASE f = new /\ n # number
      <4>1. n \in (1 - command.warmups) .. (number - 1)
        BY <1>3, <1>5, <3>4
      <4> QED BY <1>1, <1>5, <1>10, <3>4, <4>1
    <3> QED BY <1>1, <3>2, <3>3, <3>4
  <2> QED BY <2>1, <2>3, <2>5, <2>6, <2>7, <2>8, <2>9 DEF ListedRight, OfSession, Honest, Warmup
<1>12. RunRight'
  <2>1. CASE stage' = "configure"
    BY <2>1 DEF RunRight
  <2>2. CASE stage' # "configure"
    <3>1. number < command.runs /\ number' = number + 1 /\ command' = command
      BY <1>2, <2>2
    <3>2. number' \in (1 - command.warmups) .. command.runs
      BY <1>3, <3>1
    <3>3. ASSUME NEW n \in (1 - command.warmups) .. (number' - 1)
          PROVE  \E g \in listed' : g.label = Mode /\ g.left = Len(command.modes) /\ g.number = n
      <4>1. CASE n = number
        BY <1>1, <1>5, <4>1
      <4>2. CASE n # number
        <5>1. n \in (1 - command.warmups) .. (number - 1)
          BY <1>3, <3>1, <4>2
        <5> QED BY <1>1, <1>10, <5>1
      <4> QED BY <4>1, <4>2
    <3> QED BY <1>1, <1>3, <3>1, <3>2, <3>3 DEF RunRight, Mode, Listed
  <2> QED BY <2>1, <2>2
<1>13. IndexRight'
  <2>1. \A f \in index.files : f.session <= started /\ f.session < started
    BY <1>1 DEF BInv, IndexRight, Benching
  <2>2. new \notin index.files /\ old \notin index.files
    BY <1>3, <1>5, <1>6, <2>1 DEF BenchTyped
  <2>3. index'.files \subseteq raw' \/ index'.files \cap raw' = {}
    BY <1>1, <2>2 DEF BInv, IndexRight
  <2>4. OfSession(index.files)'
    BY <1>1 DEF BInv, IndexRight, OfSession, Gapless, Honest, Warmup
  <2> QED BY <1>1, <2>1, <2>3, <2>4 DEF IndexRight
<1>14. ReportRestsOnRuns'
  BY <1>1 DEF BInv, ReportRestsOnRuns
<1>15. \A f \in raw' : Honest(f)
  BY <1>1, <1>7 DEF BInv
<1> QED BY <1>9, <1>11, <1>12, <1>13, <1>14, <1>15 DEF BInv, Honest

LEMMA WritesIndexKeepsBInv == BInv /\ WritesIndex => BInv'
<1> SUFFICES ASSUME BInv, WritesIndex PROVE BInv'
  OBVIOUS
<1>1. /\ stage' = "idle" /\ index' = [there |-> TRUE, files |-> listed]
      /\ command' = None /\ number' = 1 /\ outcome' = "ok" /\ listed' = {}
      /\ started' = started /\ deployed' = deployed /\ raw' = raw /\ report' = report
  BY DEF WritesIndex, ToStage, Forgets
<1>2. BenchTyped
  BY DEF BInv
<1>3. BenchTyped'
  BY <1>1, <1>2, NoCommand DEF BenchTyped
<1>4. ListedRight' /\ RunRight'
  BY <1>1 DEF ListedRight, RunRight, OfSession, Gapless, Benching
<1>5. IndexRight'
  <2>1. OfSession(index.files)'
    BY <1>1 DEF BInv, ListedRight, OfSession, Gapless, Honest, Warmup
  <2>2. \A f \in listed : f.session <= started
    BY <1>2 DEF BInv, ListedRight, BenchTyped
  <2> QED BY <1>1, <1>2, <2>1, <2>2 DEF IndexRight, BenchTyped, Benching
<1>6. ReportRestsOnRuns'
  BY <1>1 DEF BInv, ReportRestsOnRuns
<1> QED BY <1>1, <1>3, <1>4, <1>5, <1>6 DEF BInv, Honest

LEMMA ClearsKeepsBInv == BInv /\ Clears => BInv'
<1> SUFFICES ASSUME BInv, Clears PROVE BInv'
  OBVIOUS
<1>1. /\ stage = "idle" /\ stage' = "idle" /\ raw' = {} /\ index' \in {index, NoIndex}
      /\ started' = started /\ deployed' = deployed /\ command' = command /\ number' = number
      /\ outcome' = outcome /\ listed' = listed /\ report' = report
  BY DEF Clears, AtStage
<1>2. BenchTyped
  BY DEF BInv
<1>3. listed = {}
  BY <1>1 DEF BInv, ListedRight, Benching
<1>4. BenchTyped'
  <2>1. NoIndex \in [there : BOOLEAN, files : SUBSET FileType]
    BY DEF NoIndex
  <2>2. index' \in [there : BOOLEAN, files : SUBSET FileType]
    BY <1>1, <1>2, <2>1 DEF BenchTyped
  <2>3. IsFiniteSet(raw') /\ raw' \in SUBSET FileType /\ listed' \in SUBSET raw'
    BY <1>1, <1>3, FS_EmptySet
  <2> QED BY <1>1, <1>2, <2>2, <2>3 DEF BenchTyped
<1>5. ListedRight' /\ RunRight'
  BY <1>1, <1>3 DEF ListedRight, RunRight, OfSession, Gapless, Benching
<1>6. IndexRight'
  <2>1. index' = index \/ index'.files = {}
    BY <1>1 DEF NoIndex
  <2>2. OfSession(index.files)'
    BY <2>1 DEF BInv, IndexRight, OfSession, Gapless, Honest, Warmup
  <2> QED BY <1>1, <2>1, <2>2 DEF BInv, IndexRight, Benching
<1>7. ReportRestsOnRuns'
  BY <1>1 DEF BInv, ReportRestsOnRuns
<1> QED BY <1>1, <1>4, <1>5, <1>6, <1>7 DEF BInv, Honest

\* If an index leads to a measured file, all that it lists is still there.
LEMMA SelectedIsWhole ==
  ASSUME BInv, index.there, NEW mode \in Modes, NEW f \in Row(mode)
  PROVE  Selected = index.files
<1>1. f \in Selected /\ Selected = index.files \cap raw
  BY DEF Row, Measured, Selected
<1>2. index.files \subseteq raw \/ index.files \cap raw = {}
  BY DEF BInv, IndexRight
<1> QED BY <1>1, <1>2

LEMMA RowIsGapless ==
  ASSUME BInv, index.there, NEW mode \in Modes, NEW f \in Row(mode), NEW n \in 1..f.number
  PROVE  \E g \in Row(mode) : g.left = f.left /\ g.number = n
<1>1. Selected = index.files
  BY SelectedIsWhole
<1>2. f \in Measured(mode) /\ f \in index.files /\ f.label = mode
  BY <1>1 DEF Row, Measured
<1>3. f \in FileType /\ f.number \in Int
  BY <1>2 DEF BInv, BenchTyped, FileType
<1>4. CASE n = f.number
  BY <1>4
<1>5. CASE n # f.number
  <2>1. PICK g \in index.files : g.label = f.label /\ g.left = f.left /\ g.number = n
    BY <1>2 DEF BInv, IndexRight, OfSession, Gapless
  <2>2. n < f.number /\ n >= 1
    BY <1>3, <1>5
  <2>3. g \in Measured(mode)
    BY <1>1, <1>2, <2>1, <2>2 DEF Measured, Warmup
  <2> DEFINE B(x) == {h \in Measured(mode) : Before(h, x)}
  <2>4. B(g) \subseteq B(f)
    <3> SUFFICES ASSUME NEW h \in Measured(mode), Before(h, g) PROVE Before(h, f)
      OBVIOUS
    <3>1. h \in index.files
      BY <1>1 DEF Measured
    <3>2. h.number \in Int
      BY <3>1 DEF BInv, BenchTyped, FileType
    <3>3. h.number <= g.number
      BY <2>1, <2>2, <3>2 DEF Before
    <3> QED BY <1>3, <2>1, <2>2, <3>2, <3>3 DEF Before
  <2>5. IsFiniteSet(B(f))
    <3>1. B(f) \subseteq raw
      BY DEF Measured, Selected
    <3> QED BY <3>1, FS_Subset DEF BInv, BenchTyped
  <2>6. Cardinality(B(g)) <= Cardinality(B(f)) /\ Cardinality(B(g)) \in Nat /\ Cardinality(B(f)) \in Nat
    BY <2>4, <2>5, FS_Subset, FS_CardinalityType
  <2>7. Cardinality(B(f)) < Required
    BY DEF Row
  <2>8. Cardinality(B(g)) < Required
    BY <2>6, <2>7, NoCommand
  <2> QED BY <2>1, <2>3, <2>8 DEF Row
<1> QED BY <1>4, <1>5

\* What an acceptable row of a report is.
LEMMA ValidRow ==
  ASSUME BInv, NEW mode \in Modes, Valid(mode)
  PROVE  /\ Cardinality(Row(mode)) = Required
         /\ \A f \in Row(mode) : f.ran = mode /\ f.result = "ok"
         /\ index.there => \A f \in Row(mode) : f.warm
<1>1. Cardinality(Row(mode)) = Required /\ \A f \in Row(mode) : f.passed
  BY DEF Valid
<1>2. \A f \in Row(mode) : f \in raw /\ f.label = mode /\ ~Warmup(f)
  BY DEF Row, Measured, Selected
<1>3. \A f \in Row(mode) : Honest(f)
  BY <1>2 DEF BInv
<1>4. ASSUME index.there, NEW f \in Row(mode) PROVE f.warm
  <2>1. PICK g \in Selected : Warmup(g)
    BY DEF Valid, Warmups
  <2>2. f \in index.files /\ g \in index.files
    BY <1>4, <2>1, SelectedIsWhole DEF Selected, Row, Measured
  <2> QED BY <1>2, <2>1, <2>2 DEF BInv, IndexRight, OfSession
<1> QED BY <1>1, <1>2, <1>3, <1>4 DEF Honest

LEMMA ReportsKeepsBInv == BInv /\ Reports => BInv'
<1> SUFFICES ASSUME BInv, Reports PROVE BInv'
  OBVIOUS
<1>1. /\ stage' = stage /\ started' = started /\ deployed' = deployed /\ command' = command
      /\ number' = number /\ outcome' = outcome /\ listed' = listed /\ raw' = raw /\ index' = index
  BY DEF Reports
<1>2. PICK specials, allowIncomplete \in BOOLEAN :
        report' = [status |-> IF specials /\ (\A mode \in Modes : Valid(mode)) THEN "COMPLETE" ELSE "PARTIAL",
                   indexed |-> index.there,
                   rows |-> [mode \in Modes |-> Row(mode)]]
  BY DEF Reports
<1>3. ReportRestsOnRuns'
  <2> SUFFICES ASSUME report'.status = "COMPLETE", NEW mode \in Modes
               PROVE  LET row == report'.rows[mode]
                      IN  /\ Cardinality(row) = Required
                          /\ \A f \in row : f.ran = mode /\ f.result = "ok"
                          /\ report'.indexed =>
                               /\ \A f \in row : f.warm
                               /\ \A f \in row : \A n \in 1..f.number : \E g \in row : g.left = f.left /\ g.number = n
                               /\ \A f \in row, g \in report'.rows["on"] : f.session = g.session
    BY DEF ReportRestsOnRuns
  <2>1. /\ \A m \in Modes : Valid(m)
        /\ report'.indexed = index.there
        /\ \A m \in Modes : report'.rows[m] = Row(m)
    BY <1>2
  <2>2. /\ Cardinality(Row(mode)) = Required
        /\ \A f \in Row(mode) : f.ran = mode /\ f.result = "ok"
        /\ index.there => \A f \in Row(mode) : f.warm
    BY <2>1, ValidRow
  <2>3. index.there => \A f \in Row(mode) : \A n \in 1..f.number :
                         \E g \in Row(mode) : g.left = f.left /\ g.number = n
    BY RowIsGapless
  <2>4. index.there => \A f \in Row(mode), g \in Row("on") : f.session = g.session
    <3>1. ASSUME index.there, NEW m \in Modes, NEW f \in Row(m) PROVE f \in index.files
      BY <3>1 DEF Row, Measured, Selected
    <3> QED BY <3>1 DEF Modes, BInv, IndexRight, OfSession
  <2>5. "on" \in Modes
    BY DEF Modes
  <2> QED BY <2>1, <2>2, <2>3, <2>4, <2>5
<1>4. BenchTyped' /\ ListedRight' /\ RunRight' /\ IndexRight'
  BY <1>1 DEF BInv, BenchTyped, ListedRight, RunRight, IndexRight, OfSession, Gapless, Honest, Warmup,
              Benching, Mode, Listed
<1> QED BY <1>1, <1>3, <1>4 DEF BInv, Honest

-------------------------------------------------------------------------------
(***************************************************************************)
(* Evidence: the sessions of run_capacity_baseline.py.                     *)
(***************************************************************************)

CapacityTyped ==
  /\ tried \in SUBSET (Nat \X Nat \X {"ok", "failed"})
  /\ rates \in Seq(Rates) /\ Len(rates) <= Levels

\* The runs of a level are numbered from 1 on; the levels before the current one
\* are complete, and those after it have none.
LevelsRight ==
  \A level \in 1..Levels :
    /\ IsFiniteSet(RunsOf(level))
    /\ \A t \in RunsOf(level) : t[2] \in 1 .. Cardinality(RunsOf(level))
    /\ \A n \in 1 .. Cardinality(RunsOf(level)) : \E t \in RunsOf(level) : t[2] = n
    /\ level <= Len(rates) => Cardinality(RunsOf(level)) = Required

CInv ==
  /\ stage \in {"idle", "configure", "load", "label", "level", "environment", "baseline"}
  /\ CapacityTyped
  /\ LevelsRight
  /\ stage \in {"environment", "baseline"} => Len(rates) = Levels
  /\ stage \notin {"level", "environment", "baseline"} => tried = {} /\ rates = <<>>
  /\ CapacityIsMeasured

\* Measuring nothing is a beginning.
LEMMA NothingMeasured ==
  /\ tried = {} /\ rates = <<>> => CapacityTyped /\ LevelsRight
  /\ tried' = {} /\ rates' = <<>> => CapacityTyped' /\ LevelsRight'
<1>1. ASSUME tried = {}, rates = <<>> PROVE CapacityTyped /\ LevelsRight
  <2>1. CapacityTyped
    BY <1>1, EvidenceAssumption DEF CapacityTyped
  <2>2. \A level \in 1..Levels : RunsOf(level) = {}
    BY <1>1 DEF RunsOf
  <2>3. IsFiniteSet({}) /\ Cardinality({}) = 0
    BY FS_EmptySet
  <2>4. \A level \in 1..Levels : ~ (level <= Len(rates))
    BY <1>1, EvidenceAssumption
  <2>5. ASSUME NEW level \in 1..Levels
        PROVE  /\ IsFiniteSet(RunsOf(level))
               /\ \A t \in RunsOf(level) : t[2] \in 1 .. Cardinality(RunsOf(level))
               /\ \A n \in 1 .. Cardinality(RunsOf(level)) : \E t \in RunsOf(level) : t[2] = n
    <3>1. RunsOf(level) = {} /\ IsFiniteSet(RunsOf(level)) /\ Cardinality(RunsOf(level)) = 0
      BY <2>2, <2>3
    <3> QED BY <3>1
  <2> QED BY <2>1, <2>4, <2>5 DEF LevelsRight
<1>2. ASSUME tried' = {}, rates' = <<>> PROVE CapacityTyped' /\ LevelsRight'
  <2>1. CapacityTyped'
    BY <1>2, EvidenceAssumption DEF CapacityTyped
  <2>2. \A level \in 1..Levels : RunsOf(level)' = {}
    BY <1>2 DEF RunsOf
  <2>3. IsFiniteSet({}) /\ Cardinality({}) = 0
    BY FS_EmptySet
  <2>4. \A level \in 1..Levels : ~ (level <= Len(rates'))
    BY <1>2, EvidenceAssumption
  <2>5. ASSUME NEW level \in 1..Levels
        PROVE  /\ IsFiniteSet(RunsOf(level)')
               /\ \A t \in RunsOf(level)' : t[2] \in 1 .. Cardinality(RunsOf(level)')
               /\ \A n \in 1 .. Cardinality(RunsOf(level)') : \E t \in RunsOf(level)' : t[2] = n
    <3>1. RunsOf(level)' = {} /\ IsFiniteSet(RunsOf(level)') /\ Cardinality(RunsOf(level)') = 0
      BY <2>2, <2>3
    <3> QED BY <3>1
  <2> QED BY <2>1, <2>4, <2>5 DEF LevelsRight
<1> QED BY <1>1, <1>2

LEMMA InitCInv == EvidenceInit => CInv
<1> SUFFICES ASSUME EvidenceInit PROVE CInv
  OBVIOUS
<1>1. /\ stage = "idle" /\ tried = {} /\ rates = <<>>
      /\ environment.status = "NONE" /\ baseline.status = "NONE"
  BY DEF EvidenceInit
<1> QED BY <1>1, NothingMeasured DEF CInv, CapacityIsMeasured

\* The steps of the other scripts, the end of a session, and the dry run.
LEMMA OthersKeepCInv ==
  CInv /\ (StartsSession \/ Configures \/ Loads \/ Labels \/ WritesIndex \/ ScriptKilled
           \/ Reports \/ Clears \/ DryRun \/ StartsCapacity) => CInv'
<1> SUFFICES ASSUME CInv,
                    StartsSession \/ Configures \/ Loads \/ Labels \/ WritesIndex \/ ScriptKilled
                      \/ Reports \/ Clears \/ DryRun \/ StartsCapacity
             PROVE  CInv'
  OBVIOUS
<1>1. tried' = {} /\ rates' = <<>>
  BY DEF CInv, StartsSession, Configures, Loads, Labels, WritesIndex, ScriptKilled, Reports, Clears, DryRun,
         StartsCapacity, Starts, AtStage, Forgets, capacity
<1>2. stage' \in {"idle", "configure", "load", "label", "level"}
  BY DEF CInv, StartsSession, Configures, Loads, Labels, WritesIndex, ScriptKilled, Reports, Clears, DryRun,
         StartsCapacity, Starts, AtStage, ToStage
<1>3. /\ environment' = environment \/ environment'.status \in {"NOT_RUN", "IN_PROGRESS"}
      /\ baseline' = baseline \/ baseline'.status = "NOT_RUN"
  BY DEF StartsSession, Configures, Loads, Labels, WritesIndex, ScriptKilled, Reports, Clears, DryRun,
         StartsCapacity, capacity
<1>4. CapacityIsMeasured'
  BY <1>3 DEF CInv, CapacityIsMeasured
<1> QED BY <1>1, <1>2, <1>4, NothingMeasured DEF CInv

LEMMA CurrentLevel ==
  ASSUME CInv, Len(rates) < Levels
  PROVE  /\ Level \in 1..Levels /\ Level = Len(rates) + 1 /\ Len(rates) \in Nat
         /\ IsFiniteSet(RunsOf(Level)) /\ Cardinality(RunsOf(Level)) \in Nat
<1>1. Len(rates) \in Nat
  BY DEF CInv, CapacityTyped
<1>2. Level \in 1..Levels
  BY <1>1, EvidenceAssumption DEF Level
<1>3. IsFiniteSet(RunsOf(Level))
  BY <1>2 DEF CInv, LevelsRight
<1> QED BY <1>1, <1>2, <1>3, FS_CardinalityType DEF Level

LEMMA RunsLevelKeepsCInv == CInv /\ RunsLevel => CInv'
<1> SUFFICES ASSUME CInv, RunsLevel PROVE CInv'
  OBVIOUS
<1> DEFINE runs == RunsOf(Level)
           k == Cardinality(runs)
<1>1. /\ stage = "level" /\ stage' = "level" /\ rates' = rates
      /\ environment' = environment /\ baseline' = baseline
      /\ Len(rates) < Levels
  BY DEF RunsLevel, AtStage
<1>2. PICK result \in {"ok", "failed"} : tried' = tried \cup {<<Level, k + 1, result>>}
  BY DEF RunsLevel
<1>3. Level \in 1..Levels /\ Level = Len(rates) + 1 /\ IsFiniteSet(runs) /\ k \in Nat /\ Len(rates) \in Nat
  BY <1>1, CurrentLevel
<1> DEFINE new == <<Level, k + 1, result>>
<1>4. CapacityTyped'
  <2>1. new \in Nat \X Nat \X {"ok", "failed"}
    BY <1>3
  <2> QED BY <1>1, <1>2, <2>1 DEF CInv, CapacityTyped
<1>5. RunsOf(Level)' = runs \cup {new} /\ Level' = Level
  BY <1>1, <1>2 DEF RunsOf, Level
<1>6. \A level \in 1..Levels : level # Level => RunsOf(level)' = RunsOf(level)
  BY <1>2, <1>3 DEF RunsOf
<1>7. new \notin runs
  BY <1>3 DEF CInv, LevelsRight
<1>8. IsFiniteSet(runs \cup {new}) /\ Cardinality(runs \cup {new}) = k + 1
  BY <1>3, <1>7, FS_AddElement
<1>9. LevelsRight'
  <2> SUFFICES ASSUME NEW level \in 1..Levels
               PROVE  /\ IsFiniteSet(RunsOf(level)')
                      /\ \A t \in RunsOf(level)' : t[2] \in 1 .. Cardinality(RunsOf(level)')
                      /\ \A n \in 1 .. Cardinality(RunsOf(level)') : \E t \in RunsOf(level)' : t[2] = n
                      /\ level <= Len(rates') => Cardinality(RunsOf(level)') = Required
    BY DEF LevelsRight
  <2>1. CASE level # Level
    BY <1>1, <1>6, <2>1 DEF CInv, LevelsRight
  <2>2. CASE level = Level
    <3>1. RunsOf(level)' = runs \cup {new} /\ Cardinality(RunsOf(level)') = k + 1
      BY <1>5, <1>8, <2>2 DEF RunsOf
    <3>2. \A t \in runs : t[2] \in 1..k
      BY <1>3 DEF CInv, LevelsRight
    <3>3. \A n \in 1..k : \E t \in runs : t[2] = n
      BY <1>3 DEF CInv, LevelsRight
    <3>4. new[2] = k + 1
      OBVIOUS
    <3> HIDE DEF new, runs, k
    <3>5. \A t \in RunsOf(level)' : t[2] \in 1 .. (k + 1)
      BY <1>3, <3>1, <3>2, <3>4
    <3>6. \A n \in 1 .. (k + 1) : \E t \in RunsOf(level)' : t[2] = n
      <4> TAKE n \in 1 .. (k + 1)
      <4>1. CASE n = k + 1
        BY <3>1, <3>4, <4>1
      <4>2. CASE n # k + 1
        BY <1>3, <3>1, <3>3, <4>2
      <4> QED BY <4>1, <4>2
    <3>7. ~ (level <= Len(rates'))
      BY <1>1, <1>3, <2>2
    <3> QED BY <1>8, <3>1, <3>5, <3>6, <3>7
  <2> QED BY <2>1, <2>2
<1>10. CapacityIsMeasured'
  BY <1>1 DEF CInv, CapacityIsMeasured
<1> QED BY <1>1, <1>4, <1>9, <1>10 DEF CInv

LEMMA AggregatesKeepsCInv == CInv /\ Aggregates => CInv'
<1> SUFFICES ASSUME CInv, Aggregates PROVE CInv'
  OBVIOUS
<1>1. /\ stage = "level" /\ stage' = "level" /\ tried' = tried
      /\ environment' = environment /\ baseline' = baseline
      /\ Len(rates) < Levels /\ Cardinality(RunsOf(Level)) = Required
  BY DEF Aggregates, AtStage
<1>2. PICK rate \in Rates : rates' = Append(rates, rate)
  BY DEF Aggregates
<1>3. Level \in 1..Levels /\ Level = Len(rates) + 1 /\ Len(rates) \in Nat
  BY <1>1, CurrentLevel
<1>4. rates' \in Seq(Rates) /\ Len(rates') = Len(rates) + 1
  BY <1>2 DEF CInv, CapacityTyped
<1>5. CapacityTyped'
  BY <1>1, <1>3, <1>4, EvidenceAssumption DEF CInv, CapacityTyped
<1>6. \A level \in 1..Levels : RunsOf(level)' = RunsOf(level)
  BY <1>1 DEF RunsOf
<1>7. \A level \in 1..Levels : level <= Len(rates') => level <= Len(rates) \/ level = Level
  BY <1>3, <1>4
<1>8. LevelsRight'
  BY <1>1, <1>6, <1>7 DEF CInv, LevelsRight
<1>9. CapacityIsMeasured'
  BY <1>1 DEF CInv, CapacityIsMeasured
<1> QED BY <1>1, <1>5, <1>8, <1>9 DEF CInv

\* Levels have a best one: the most throughput, and the first of those with it.
IsBest(S, l) ==
  l \in S /\ \A k \in S : rates[l] > rates[k] \/ (rates[l] = rates[k] /\ l <= k)

HaveBest(m) == \A S \in SUBSET (1..m) : S \subseteq DOMAIN rates /\ S # {} => \E l \in S : IsBest(S, l)

LEMMA OneMoreHasBest ==
  ASSUME rates \in Seq(Rates), NEW m \in Nat \ {0}, HaveBest(m - 1)
  PROVE  HaveBest(m)
<1> SUFFICES ASSUME NEW S \in SUBSET (1..m), S \subseteq DOMAIN rates, S # {}
             PROVE  \E l \in S : IsBest(S, l)
  BY DEF HaveBest
<1>1. \A i \in S : rates[i] \in Nat /\ i \in Nat
  <2>1. \A i \in DOMAIN rates : rates[i] \in Rates
    OBVIOUS
  <2>2. \A i \in S : i \in Nat
    OBVIOUS
  <2> QED BY <2>1, <2>2, EvidenceAssumption
<1>2. S \ {m} \in SUBSET (1..(m - 1))
  OBVIOUS
<1>3. CASE S \ {m} = {}
  <2>1. m \in S /\ \A k \in S : k = m
    BY <1>3
  <2> QED BY <1>1, <2>1 DEF IsBest
<1>4. CASE S \ {m} # {}
  <2>1. PICK b \in S \ {m} : IsBest(S \ {m}, b)
    BY <1>2, <1>4 DEF HaveBest
  <2>2. b < m
    BY <1>2
  <2>3. CASE m \notin S
    BY <2>1, <2>3 DEF IsBest
  <2>4. CASE m \in S /\ rates[b] >= rates[m]
    <3>1. rates[b] > rates[m] \/ (rates[b] = rates[m] /\ b <= m)
      BY <1>1, <2>2, <2>4
    <3> QED BY <2>1, <3>1 DEF IsBest
  <2>5. CASE m \in S /\ rates[m] > rates[b]
    <3>1. ASSUME NEW k \in S PROVE rates[m] > rates[k] \/ (rates[m] = rates[k] /\ m <= k)
      <4>1. CASE k = m
        BY <1>1, <2>5, <4>1
      <4>2. CASE k # m
        <5>1. rates[b] >= rates[k]
          BY <1>1, <2>1, <4>2 DEF IsBest
        <5> QED BY <1>1, <2>1, <2>5, <5>1
      <4> QED BY <4>1, <4>2
    <3> QED BY <2>5, <3>1 DEF IsBest
  <2> QED BY <1>1, <2>1, <2>3, <2>4, <2>5
<1> QED BY <1>3, <1>4

LEMMA EveryLevelHasBest == rates \in Seq(Rates) => \A m \in Nat : HaveBest(m)
<1> SUFFICES ASSUME rates \in Seq(Rates) PROVE \A m \in Nat : HaveBest(m)
  OBVIOUS
<1> DEFINE T == {m \in Nat : ~HaveBest(m)}
<1>1. ASSUME T # {} PROVE FALSE
  <2>1. PICK m \in T : \A n \in T : m <= n
    BY <1>1, LeastNat
  <2>2. HaveBest(0)
    <3>1. 1..0 = {}
      OBVIOUS
    <3> QED BY <3>1 DEF HaveBest
  <2>3. m \in Nat \ {0} /\ ~HaveBest(m)
    BY <2>2
  <2>4. m - 1 \in Nat /\ ~ (m <= m - 1)
    BY <2>3
  <2>5. HaveBest(m - 1)
    BY <2>1, <2>4
  <2> QED BY <2>3, <2>5, OneMoreHasBest
<1> QED BY <1>1

LEMMA BestIsStable ==
  ASSUME CInv, Stable # {}
  PROVE  Best \in Stable
<1>1. rates \in Seq(Rates) /\ Len(rates) \in Nat /\ DOMAIN rates = 1 .. Len(rates)
  BY DEF CInv, CapacityTyped
<1>2. Stable \in SUBSET (1 .. Len(rates)) /\ Stable \subseteq DOMAIN rates
  BY <1>1 DEF Stable
<1>3. \E l \in Stable : IsBest(Stable, l)
  BY <1>1, <1>2, EveryLevelHasBest DEF HaveBest
<1> QED BY <1>3 DEF Best, IsBest

\* What is called complete was measured.
LEMMA CompleteIsMeasured ==
  ASSUME CInv, Len(rates) = Levels, Complete
  PROVE  /\ \A level \in 1..Levels, n \in 1..Required : <<level, n, "ok">> \in tried
         /\ Best \in 1..Levels /\ <<0, Best, "ok">> \in tried
<1>1. DOMAIN rates = 1..Levels /\ Levels \in Nat \ {0}
  BY EvidenceAssumption DEF CInv, CapacityTyped
<1>2. Stable = 1..Levels /\ <<0, Best, "ok">> \in tried
  BY <1>1 DEF Complete
<1>3. Stable # {}
  <2>1. 1 \in 1..Levels
    BY <1>1
  <2> QED BY <1>2, <2>1
<1>4. Best \in 1..Levels
  BY <1>2, <1>3, BestIsStable
<1>5. ASSUME NEW level \in 1..Levels, NEW n \in 1..Required PROVE <<level, n, "ok">> \in tried
  <2>1. Cardinality(RunsOf(level)) = Required
    <3>1. level <= Len(rates)
      BY <1>1
    <3> QED BY <3>1 DEF CInv, LevelsRight
  <2>2. PICK t \in RunsOf(level) : t[2] = n
    BY <2>1 DEF CInv, LevelsRight
  <2>3. t[3] = "ok"
    BY <1>2 DEF Stable, RowPassed
  <2>4. t \in tried /\ t[1] = level /\ t = <<t[1], t[2], t[3]>>
    BY DEF RunsOf, CInv, CapacityTyped
  <2> QED BY <2>2, <2>3, <2>4
<1> QED BY <1>2, <1>4, <1>5

\* The stability run is filed under level 0 and changes no row.
LEMMA ChecksStabilityKeepsCInv == CInv /\ ChecksStability => CInv'
<1> SUFFICES ASSUME CInv, ChecksStability PROVE CInv'
  OBVIOUS
<1>1. /\ stage' = "environment" /\ rates' = rates /\ Len(rates) = Levels
      /\ environment' = environment /\ baseline' = baseline
  BY DEF ChecksStability, ToStage
<1>2. \/ tried' = tried
      \/ Best \in Nat /\ \E result \in {"ok", "failed"} : tried' = tried \cup {<<0, Best, result>>}
  <2>1. CASE Stable = {}
    BY <2>1 DEF ChecksStability
  <2>2. CASE Stable # {}
    <3>1. Best \in DOMAIN rates
      BY <2>2, BestIsStable DEF Stable
    <3>2. Best \in Nat
      BY <3>1 DEF CInv, CapacityTyped
    <3> QED BY <2>2, <3>2 DEF ChecksStability
  <2> QED BY <2>1, <2>2
<1>3. CapacityTyped'
  BY <1>1, <1>2 DEF CInv, CapacityTyped
<1>4. \A level \in 1..Levels : RunsOf(level)' = RunsOf(level)
  BY <1>2, EvidenceAssumption DEF RunsOf
<1>5. LevelsRight'
  BY <1>1, <1>4 DEF CInv, LevelsRight
<1>6. CapacityIsMeasured'
  BY <1>1 DEF CInv, CapacityIsMeasured
<1> QED BY <1>1, <1>3, <1>5, <1>6 DEF CInv

LEMMA WritesEnvironmentKeepsCInv == CInv /\ WritesEnvironment => CInv'
<1> SUFFICES ASSUME CInv, WritesEnvironment PROVE CInv'
  OBVIOUS
<1>1. /\ stage = "environment" /\ stage' = "baseline" /\ tried' = tried /\ rates' = rates
      /\ environment' = [status |-> Status, on |-> tried] /\ baseline' = baseline
  BY DEF WritesEnvironment, AtStage, ToStage
<1>2. Len(rates) = Levels
  BY <1>1 DEF CInv
<1>3. environment'.status = "COMPLETE" => Complete
  BY <1>1 DEF Status
<1>4. CapacityIsMeasured'
  <2>1. ASSUME environment'.status = "COMPLETE"
        PROVE  /\ \A level \in 1..Levels, n \in 1..Required : <<level, n, "ok">> \in environment'.on
               /\ \E level \in 1..Levels : <<0, level, "ok">> \in environment'.on
    BY <1>1, <1>2, <1>3, <2>1, CompleteIsMeasured
  <2> QED BY <1>1, <2>1 DEF CInv, CapacityIsMeasured
<1>5. CapacityTyped' /\ LevelsRight'
  BY <1>1 DEF CInv, CapacityTyped, LevelsRight, RunsOf
<1> QED BY <1>1, <1>2, <1>4, <1>5 DEF CInv

LEMMA WritesBaselineKeepsCInv == CInv /\ WritesBaseline => CInv'
<1> SUFFICES ASSUME CInv, WritesBaseline PROVE CInv'
  OBVIOUS
<1>1. /\ stage = "baseline" /\ stage' = "idle" /\ tried' = {} /\ rates' = <<>>
      /\ environment' = environment
      /\ baseline' = IF Complete
                     THEN [status |-> Status, on |-> tried, best |-> Best, rate |-> rates[Best]]
                     ELSE [status |-> Status]
  BY DEF WritesBaseline, AtStage, ToStage, Forgets
<1>2. Len(rates) = Levels
  BY <1>1 DEF CInv
<1>3. CapacityIsMeasured'
  <2>1. ASSUME baseline'.status = "COMPLETE"
        PROVE  /\ \A level \in 1..Levels, n \in 1..Required : <<level, n, "ok">> \in baseline'.on
               /\ \E level \in 1..Levels : <<0, level, "ok">> \in baseline'.on
               /\ <<0, baseline'.best, "ok">> \in baseline'.on
    <3>1. Complete
      BY <1>1, <2>1 DEF Status
    <3>2. baseline'.on = tried /\ baseline'.best = Best
      BY <1>1, <3>1
    <3> QED BY <1>2, <3>1, <3>2, CompleteIsMeasured
  <2> QED BY <1>1, <2>1 DEF CInv, CapacityIsMeasured
<1> QED BY <1>1, <1>3, NothingMeasured DEF CInv

-------------------------------------------------------------------------------
\* What holds of the scripts and their files at any time.
THEOREM EvidenceInvariant == EvidenceSpec => [](BInv /\ CInv)
<1>1. EvidenceInit => BInv /\ CInv
  BY InitBInv, InitCInv
<1>2. BInv /\ CInv /\ [EvidenceNext]_evidenceVars => BInv' /\ CInv'
  <2> SUFFICES ASSUME BInv, CInv, [EvidenceNext]_evidenceVars PROVE BInv' /\ CInv'
    OBVIOUS
  <2>1. CASE StartsSession
    BY <2>1, StartsSessionKeepsBInv, OthersKeepCInv
  <2>2. CASE Configures
    BY <2>2, ConfiguresKeepsBInv, OthersKeepCInv
  <2>3. CASE Loads
    BY <2>3, LoadsKeepsBInv, OthersKeepCInv
  <2>4. CASE Labels
    BY <2>4, LabelsKeepsBInv, OthersKeepCInv
  <2>5. CASE WritesIndex
    BY <2>5, WritesIndexKeepsBInv, OthersKeepCInv
  <2>6. CASE ScriptKilled \/ DryRun \/ StartsCapacity
    BY <2>6, CapacityKeepsBInv, OthersKeepCInv
  <2>7. CASE Reports
    BY <2>7, ReportsKeepsBInv, OthersKeepCInv
  <2>8. CASE Clears
    BY <2>8, ClearsKeepsBInv, OthersKeepCInv
  <2>9. CASE RunsLevel
    BY <2>9, CapacityKeepsBInv, RunsLevelKeepsCInv
  <2>10. CASE Aggregates
    BY <2>10, CapacityKeepsBInv, AggregatesKeepsCInv
  <2>11. CASE ChecksStability
    BY <2>11, CapacityKeepsBInv, ChecksStabilityKeepsCInv
  <2>12. CASE WritesEnvironment
    BY <2>12, CapacityKeepsBInv, WritesEnvironmentKeepsCInv
  <2>13. CASE WritesBaseline
    BY <2>13, CapacityKeepsBInv, WritesBaselineKeepsCInv
  <2>14. CASE UNCHANGED evidenceVars
    <3>1. BInv'
      BY <2>14 DEF evidenceVars, bench, BInv, BenchTyped, ListedRight, RunRight, IndexRight, OfSession, Gapless,
                   Honest, Warmup, Benching, Mode, Listed, ReportRestsOnRuns
    <3>2. CInv'
      BY <2>14 DEF evidenceVars, capacity, CInv, CapacityTyped, LevelsRight, RunsOf, CapacityIsMeasured
    <3> QED BY <3>1, <3>2
  <2> QED BY <2>1, <2>2, <2>3, <2>4, <2>5, <2>6, <2>7, <2>8, <2>9, <2>10, <2>11, <2>12, <2>13, <2>14
      DEF EvidenceNext
<1> QED BY <1>1, <1>2, PTL DEF EvidenceSpec

\* A report that says COMPLETE rests on runs of the right mode that ended well, and
\* one that an index led to on runs of one session, each with all that were made
\* before it in the same pass over its mode (generate_benchmark_report.main): for
\* any number of required runs, any command lines, and sessions, kills and
\* clearings in any order.
THEOREM CompleteReportRestsOnRuns == EvidenceSpec => []ReportRestsOnRuns
<1>1. BInv => ReportRestsOnRuns
  BY DEF BInv
<1> QED BY <1>1, EvidenceInvariant, PTL

\* A capacity that is claimed was measured by one session at every level, and is
\* the level the stability run was made for (run_capacity_baseline.main): for any
\* number of levels, required runs and failures.
THEOREM ClaimedCapacityIsMeasured == EvidenceSpec => []CapacityIsMeasured
<1>1. CInv => CapacityIsMeasured
  BY DEF CInv
<1> QED BY <1>1, EvidenceInvariant, PTL
===============================================================================
