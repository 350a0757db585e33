---------------------------- MODULE TimeoutsProofs ----------------------------
(***************************************************************************)
(* An open order keeps its wake-up call until its deadline, for any number *)
(* of orders and pollers, any limits and any skew of the two clocks.       *)
(*                                                                         *)
(* WakeUpKept is not inductive: a poller takes a member away that it read  *)
(* some time ago, and adds of the outbox worker carry the deadline it read *)
(* some time ago.  The invariant says that both are still right: unless a  *)
(* failure excused it, a member has the deadline on its row for a score,   *)
(* and one that a poller holds was due when it was read, and is due still. *)
(***************************************************************************)
EXTENDS Timeouts, TLAPS

Deadline(kind, o) == IF kind = "CLAIM" THEN claimBy[o] ELSE deliverBy[o]
EventOf(kind, o) == <<IF kind = "CLAIM" THEN "ORDER_PUBLISHED" ELSE "ORDER_TAKEN", o>>
Open(kind, o) == status[o] = (IF kind = "CLAIM" THEN "PUBLISHED" ELSE "TAKEN")

\* The deadline is set, or the order went away without it.
Reached(kind, o) ==
  status[o] \notin (IF kind = "CLAIM" THEN {"NONE"} ELSE {"NONE", "PUBLISHED"})

\* What the entries of an order that no failure excused are worth.
Trusted(kind, o) ==
  Member(kind, o) \notin excused =>
    /\ Member(kind, o) \in DOMAIN queue =>
         Reached(kind, o) /\ queue[Member(kind, o)] = Deadline(kind, o)
    /\ \A p \in Pollers :
         Member(kind, o) \in page[p] => Reached(kind, o) /\ Deadline(kind, o) <= app
    /\ Open(kind, o) /\ app < Deadline(kind, o) => WakeUpCall(kind, o)

\* The events are about what has happened, and the worker adds what the rows say.
EventsTrue ==
  /\ \A kind \in Kinds, o \in Orders : EventOf(kind, o) \in events => Reached(kind, o)
  /\ \A o \in Orders : <<"ORDER_TERMINAL", o>> \in events => status[o] = "CANCELLED"
  /\ \A a \in adding : \E kind \in Kinds, o \in Orders :
       a = <<EventOf(kind, o), Member(kind, o), Deadline(kind, o)>>

AllTrusted == \A kind \in Kinds, o \in Orders : Trusted(kind, o)

TInv == TypeOK /\ AllTrusted /\ EventsTrue

LEMMA WithoutEntries ==
  ASSUME NEW q, NEW ms
  PROVE  /\ DOMAIN Without(q, ms) = DOMAIN q \ ms
         /\ \A x \in DOMAIN q \ ms : Without(q, ms)[x] = q[x]
BY DEF Without, Restrict

\* An order goes on: its deadlines stand once they are set.
GoesOn ==
  /\ \A kind \in Kinds, o \in Orders :
       /\ Reached(kind, o) => Reached(kind, o)' /\ Deadline(kind, o)' = Deadline(kind, o)
       /\ Open(kind, o)' => Open(kind, o) \/ ~ Reached(kind, o)
  /\ \A o \in Orders : status[o] = "CANCELLED" => status'[o] = "CANCELLED"

LEMMA RowsStand ==
  ASSUME UNCHANGED rows
  PROVE  GoesOn /\ \A kind \in Kinds, o \in Orders : Open(kind, o)' => Open(kind, o)
BY DEF GoesOn, rows, Reached, Deadline, Open

LEMMA OrderCloses ==
  ASSUME TypeOK, NEW x \in Orders, status[x] \in {"PUBLISHED", "TAKEN"},
         NEW s \in {"CANCELLED", "DELIVERED"}, s = "DELIVERED" => status[x] = "TAKEN",
         status' = [status EXCEPT ![x] = s], UNCHANGED <<claimBy, deliverBy>>
  PROVE  GoesOn /\ \A kind \in Kinds, o \in Orders : Open(kind, o)' => Open(kind, o)
<1>1. status'[x] = s /\ \A o \in Orders \ {x} : status'[o] = status[o]
  BY DEF TypeOK
<1> QED BY <1>1 DEF GoesOn, Reached, Deadline, Open, Kinds

\* Steps that add nothing, neither entry nor page nor deadline.
LEMMA TrustStays ==
  ASSUME TypeOK, TypeOK', GoesOn, NEW kind \in Kinds, NEW o \in Orders, Trusted(kind, o),
         excused \subseteq excused', app <= app', Open(kind, o)' => Open(kind, o),
         \A p \in Pollers : Member(kind, o) \in page'[p] => Member(kind, o) \in page[p],
         Member(kind, o) \in DOMAIN queue' =>
            Member(kind, o) \in DOMAIN queue /\ queue'[Member(kind, o)] = queue[Member(kind, o)],
         Open(kind, o) /\ app < Deadline(kind, o) /\ Member(kind, o) \notin excused'
            /\ WakeUpCall(kind, o) => WakeUpCall(kind, o)'
  PROVE  Trusted(kind, o)'
<1> SUFFICES ASSUME Member(kind, o) \notin excused'
             PROVE  Trusted(kind, o)'
  BY DEF Trusted, Member
<1>1. /\ Member(kind, o) \in DOMAIN queue =>
           Reached(kind, o) /\ queue[Member(kind, o)] = Deadline(kind, o)
      /\ \A p \in Pollers :
           Member(kind, o) \in page[p] => Reached(kind, o) /\ Deadline(kind, o) <= app
      /\ Open(kind, o) /\ app < Deadline(kind, o) => WakeUpCall(kind, o)
  BY DEF Trusted
<1>2. app \in Int /\ app' \in Int /\ Deadline(kind, o) \in Int
  BY DEF TypeOK, Deadline
<1>3. Reached(kind, o) => Reached(kind, o)' /\ Deadline(kind, o)' = Deadline(kind, o)
  BY DEF GoesOn
<1>4. Member(kind, o)' = Member(kind, o)
  BY DEF Member
<1>5. Open(kind, o) => Reached(kind, o)
  BY DEF Open, Reached
<1> QED BY <1>1, <1>2, <1>3, <1>4, <1>5 DEF Trusted

LEMMA EventsStay ==
  ASSUME TypeOK, EventsTrue, GoesOn, adding' \subseteq adding,
         \A e \in events' : \/ e \in events
                            \/ \E k \in Kinds, o \in Orders : e = EventOf(k, o) /\ Reached(k, o)'
                            \/ \E o \in Orders : e = <<"ORDER_TERMINAL", o>> /\ status'[o] = "CANCELLED"
  PROVE  EventsTrue'
<1>1. ASSUME NEW kind \in Kinds, NEW o \in Orders, EventOf(kind, o)' \in events'
      PROVE  Reached(kind, o)'
  <2>1. EventOf(kind, o)' = EventOf(kind, o)
    BY DEF EventOf
  <2>2. \A k \in Kinds, x \in Orders : EventOf(kind, o) = EventOf(k, x) => kind = k /\ o = x
    BY DEF EventOf, Kinds
  <2>3. \A x \in Orders : EventOf(kind, o) # <<"ORDER_TERMINAL", x>>
    BY DEF EventOf
  <2>4. EventOf(kind, o) \in events \/ Reached(kind, o)'
    BY <1>1, <2>1, <2>2, <2>3
  <2> QED BY <2>4 DEF EventsTrue, GoesOn
<1>2. ASSUME NEW o \in Orders, <<"ORDER_TERMINAL", o>> \in events'
      PROVE  status'[o] = "CANCELLED"
  <2>1. \A k \in Kinds, x \in Orders : EventOf(k, x) # <<"ORDER_TERMINAL", o>>
    BY DEF EventOf
  <2> QED BY <1>2, <2>1 DEF EventsTrue, GoesOn
<1>3. ASSUME NEW a \in adding'
      PROVE  \E kind \in Kinds, o \in Orders :
               a = <<EventOf(kind, o), Member(kind, o), Deadline(kind, o)>>'
  <2>1. PICK kind \in Kinds, o \in Orders :
               a = <<EventOf(kind, o), Member(kind, o), Deadline(kind, o)>>
    BY DEF EventsTrue
  <2>2. EventOf(kind, o) \in events
    BY <2>1 DEF TypeOK
  <2>3. Deadline(kind, o)' = Deadline(kind, o)
    BY <2>2 DEF EventsTrue, GoesOn
  <2> QED BY <2>1, <2>3 DEF EventOf, Member
<1> QED BY <1>1, <1>2, <1>3 DEF EventsTrue

-------------------------------------------------------------------------------
(***************************************************************************)
(* The types.                                                              *)
(***************************************************************************)

\* The range of what a set of entries may hold.
QueueType(q) == DOMAIN q \subseteq Members /\ \A m \in DOMAIN q : q[m] \in 0 .. MaxTime

LEMMA AddType ==
  ASSUME NEW q, QueueType(q), NEW m \in Members, NEW score \in 0 .. MaxTime
  PROVE  QueueType(Add(q, m, score))
<1> DEFINE r == Add(q, m, score)
<1>1. /\ DOMAIN r = DOMAIN q \cup {m}
      /\ r[m] = score
      /\ \A x \in DOMAIN q \ {m} : r[x] = q[x]
  BY DEF Add
<1> HIDE DEF r
<1>2. QueueType(r)
  BY <1>1 DEF QueueType
<1> QED BY <1>2 DEF r

LEMMA WithoutType ==
  ASSUME NEW q, QueueType(q), NEW ms
  PROVE  QueueType(Without(q, ms))
<1> DEFINE r == Without(q, ms)
<1>1. DOMAIN r = DOMAIN q \ ms /\ \A x \in DOMAIN q \ ms : r[x] = q[x]
  BY WithoutEntries
<1> HIDE DEF r
<1>2. QueueType(r)
  BY <1>1 DEF QueueType
<1> QED BY <1>2 DEF r

LEMMA MemberType == \A kind \in Kinds, o \in Orders : Member(kind, o) \in Members
BY DEF Member, Members

\* What the rows say of their deadlines.
RowType ==
  /\ status \in [Orders -> {"NONE", "PUBLISHED", "TAKEN", "DELIVERED", "CANCELLED"}]
  /\ \A o \in Orders : /\ status[o] # "NONE" => claimBy[o] > 0
                       /\ status[o] \in {"TAKEN", "DELIVERED"} => deliverBy[o] > 0
  /\ claimBy \in [Orders -> 0 .. MaxTime] /\ deliverBy \in [Orders -> 0 .. MaxTime]

LEMMA CloseType ==
  ASSUME TypeOK, NEW o \in Orders, status[o] # "NONE", Close(o), UNCHANGED <<claimBy, deliverBy>>
  PROVE  RowType' /\ events' \subseteq EventTypes \X Orders
BY DEF TypeOK, EventTypes, RowType, Close

LEMMA TimeoutType ==
  ASSUME TypeOK, NEW kind \in Kinds, NEW o \in Orders, Timeout(kind, o),
         UNCHANGED <<claimBy, deliverBy>>
  PROVE  /\ RowType' /\ events' \subseteq EventTypes \X Orders /\ events \subseteq events'
<1>1. CASE Overdue(kind, o)
  <2>1. status[o] # "NONE" /\ Close(o)
    BY <1>1 DEF Overdue, Timeout
  <2> QED BY <2>1, CloseType DEF Close
<1>2. CASE ~ Overdue(kind, o)
  BY <1>2 DEF Timeout, TypeOK, RowType
<1> QED BY <1>1, <1>2

LEMMA TypeSplit ==
  TypeOK <=> /\ RowType /\ QueueType(queue)
             /\ now \in 0 .. MaxTime /\ app \in 0 .. MaxTime
             /\ events \subseteq EventTypes \X Orders
             /\ \A a \in adding : a[1] \in events
             /\ page \in [Pollers -> SUBSET Members] /\ polling \in [Pollers -> Kinds]
             /\ overdue \subseteq Kinds \X Orders
BY DEF TypeOK, RowType, QueueType

\* What the worker is about to add can be added.
LEMMA AddingType ==
  ASSUME TypeOK, EventsTrue, NEW a \in adding
  PROVE  \E kind \in Kinds, o \in Orders :
           /\ a[1] = EventOf(kind, o) /\ a[2] = Member(kind, o) /\ a[3] = Deadline(kind, o)
           /\ a[2] \in Members /\ a[3] \in 0 .. MaxTime
           /\ EventOf(kind, o) \in events /\ Reached(kind, o)
<1>1. PICK kind \in Kinds, o \in Orders :
             a = <<EventOf(kind, o), Member(kind, o), Deadline(kind, o)>>
  BY DEF EventsTrue
<1>2. a[1] = EventOf(kind, o) /\ a[2] = Member(kind, o) /\ a[3] = Deadline(kind, o)
  BY <1>1
<1>3. EventOf(kind, o) \in events /\ Reached(kind, o)
  BY <1>2 DEF TypeOK, EventsTrue
<1>4. Deadline(kind, o) \in 0 .. MaxTime
  BY DEF TypeOK, Deadline
<1> QED BY <1>2, <1>3, <1>4, MemberType

\* What the worker adds for an event is for that event only.
LEMMA AddingApart ==
  ASSUME TypeOK, EventsTrue, NEW a \in adding, NEW b \in adding, a[1] = b[1]
  PROVE  a = b
<1>1. PICK kind \in Kinds, o \in Orders :
             a = <<EventOf(kind, o), Member(kind, o), Deadline(kind, o)>>
  BY DEF EventsTrue
<1>2. PICK k \in Kinds, p \in Orders :
             b = <<EventOf(k, p), Member(k, p), Deadline(k, p)>>
  BY DEF EventsTrue
<1>3. EventOf(kind, o) = EventOf(k, p)
  BY <1>1, <1>2
<1>4. kind = k /\ o = p
  BY <1>3 DEF EventOf, Kinds
<1> QED BY <1>1, <1>2, <1>4

\* The four ways the worker takes an event up.
LEMMA WorkerReadsHow ==
  ASSUME TypeOK, NEW e \in events, WorkerReads(e)
  PROVE  /\ e[2] \in Orders /\ (\A a \in adding : a[1] # e)
         /\ UNCHANGED <<rows, now, app, jobs, excused>>
         /\ \/ /\ e[1] = "ORDER_PUBLISHED" /\ status[e[2]] = "PUBLISHED"
               /\ adding' = adding \cup {<<e, Member("CLAIM", e[2]), claimBy[e[2]]>>}
               /\ UNCHANGED <<queue, events>>
            \/ /\ e[1] = "ORDER_TAKEN" /\ status[e[2]] = "TAKEN"
               /\ adding' = adding \cup {<<e, Member("DELIVER", e[2]), deliverBy[e[2]]>>}
               /\ UNCHANGED <<queue, events>>
            \/ /\ e[1] = "ORDER_TERMINAL"
               /\ queue' = Without(queue, {Member(k, e[2]) : k \in Kinds})
               /\ events' = events \ {e} /\ UNCHANGED adding
            \/ /\ ~ (e[1] = "ORDER_PUBLISHED" /\ status[e[2]] = "PUBLISHED")
               /\ ~ (e[1] = "ORDER_TAKEN" /\ status[e[2]] = "TAKEN")
               /\ events' = events \ {e} /\ UNCHANGED <<queue, adding>>
<1>1. e[2] \in Orders
  BY DEF TypeOK
<1> QED BY <1>1 DEF WorkerReads


-------------------------------------------------------------------------------
(***************************************************************************)
(* The steps.                                                              *)
(***************************************************************************)

LEMMA MembersDiffer ==
  \A k, l \in Kinds, o, x \in Orders : Member(k, o) = Member(l, x) => k = l /\ o = x
BY DEF Member

\* An entry that is added leaves the others as they are.
LEMMA OthersAdded ==
  ASSUME NEW m, NEW score, NEW x, x # m, queue' = Add(queue, m, score) \/ UNCHANGED queue,
         x \in DOMAIN queue'
  PROVE  x \in DOMAIN queue /\ queue'[x] = queue[x]
BY DEF Add

LEMMA NoneTaken ==
  ASSUME NEW m, NEW score, queue' = Add(queue, m, score) \/ UNCHANGED queue
  PROVE  DOMAIN queue \subseteq DOMAIN queue'
BY DEF Add

\* An order reaches a deadline, for which an entry may be added and an event is.
LEMMA DeadlineSet ==
  ASSUME TInv, TypeOK', GoesOn, NEW kind \in Kinds, NEW o \in Orders,
         ~ Reached(kind, o), Reached(kind, o)',
         \A k \in Kinds, x \in Orders : <<k, x>> # <<kind, o>> /\ Open(k, x)' => Open(k, x),
         AddOrNot(Member(kind, o), Deadline(kind, o)'),
         events' = events \cup {EventOf(kind, o)},
         UNCHANGED <<now, app, adding, jobs, excused>>
  PROVE  TInv'
<1>1. TypeOK /\ AllTrusted /\ EventsTrue
  BY DEF TInv
<1>2. EventsTrue'
  BY <1>1, EventsStay
<1>3. ASSUME NEW k \in Kinds, NEW x \in Orders, <<k, x>> # <<kind, o>>
      PROVE  Trusted(k, x)'
  <2>1. Member(k, x) # Member(kind, o)
    BY <1>3 DEF Member
  <2>2. Member(k, x) \in DOMAIN queue' =>
            Member(k, x) \in DOMAIN queue /\ queue'[Member(k, x)] = queue[Member(k, x)]
    BY <2>1, OthersAdded DEF AddOrNot
  <2>3. WakeUpCall(k, x) => WakeUpCall(k, x)'
    BY NoneTaken DEF AddOrNot, WakeUpCall, Member
  <2>4. Trusted(k, x) /\ (Open(k, x)' => Open(k, x))
    BY <1>1, <1>3 DEF AllTrusted
  <2>5. app \in Int /\ app <= app' /\ excused \subseteq excused' /\ page' = page
    BY <1>1 DEF TypeOK, jobs
  <2> QED BY <1>1, <2>2, <2>3, <2>4, <2>5, TrustStays
<1>4. Trusted(kind, o)'
  <2> SUFFICES ASSUME Member(kind, o) \notin excused
               PROVE  Trusted(kind, o)'
    BY DEF Trusted, Member
  <2>1. Member(kind, o) \notin DOMAIN queue /\ \A p \in Pollers : Member(kind, o) \notin page[p]
    BY <1>1 DEF AllTrusted, Trusted
  <2>2. Member(kind, o) \in DOMAIN queue' => queue'[Member(kind, o)] = Deadline(kind, o)'
    BY <2>1 DEF AddOrNot, Add
  <2>3. WakeUpCall(kind, o)'
    BY DEF WakeUpCall, EventOf
  <2>4. Member(kind, o)' = Member(kind, o) /\ page' = page
    BY DEF Member, jobs
  <2> QED BY <2>1, <2>2, <2>3, <2>4 DEF Trusted
<1>5. AllTrusted'
  <2> SUFFICES ASSUME NEW k \in Kinds, NEW x \in Orders
               PROVE  Trusted(k, x)'
    BY DEF AllTrusted
  <2>1. CASE <<k, x>> = <<kind, o>>
    BY <1>4, <2>1
  <2> QED BY <1>3, <2>1
<1> QED BY <1>2, <1>5 DEF TInv

LEMMA CreateStep ==
  ASSUME TInv, NEW o \in Orders, NEW ttl \in Ttls, Create(o, ttl)
  PROVE  TInv'
<1>1. TypeOK /\ ttl \in Nat \ {0}
  BY TimeoutsAssumption DEF TInv
<1>2. /\ status[o] = "NONE" /\ now + ttl \in 0 .. MaxTime /\ now + ttl > 0
      /\ status' = [status EXCEPT ![o] = "PUBLISHED"]
      /\ claimBy' = [claimBy EXCEPT ![o] = now + ttl]
      /\ AddOrNot(Member("CLAIM", o), now + ttl)
      /\ events' = events \cup {<<"ORDER_PUBLISHED", o>>}
      /\ UNCHANGED <<deliverBy, now, app, adding, jobs, excused>>
  BY <1>1, TimeoutsAssumption DEF Create, TypeOK
<1>3. /\ status'[o] = "PUBLISHED" /\ claimBy'[o] = now + ttl
      /\ \A x \in Orders \ {o} : status'[x] = status[x] /\ claimBy'[x] = claimBy[x]
  BY <1>1, <1>2 DEF TypeOK
<1>4. RowType'
  BY <1>1, <1>2, <1>3 DEF TypeOK, RowType
<1>5. QueueType(queue)'
  <2>1. QueueType(queue) /\ Member("CLAIM", o) \in Members
    BY <1>1, TypeSplit, MemberType DEF Kinds
  <2> QED BY <1>2, <2>1, AddType DEF AddOrNot
<1>6. TypeOK'
  <2>1. /\ now' \in 0 .. MaxTime /\ app' \in 0 .. MaxTime
        /\ events' \subseteq EventTypes \X Orders
        /\ \A a \in adding' : a[1] \in events'
        /\ page' \in [Pollers -> SUBSET Members] /\ polling' \in [Pollers -> Kinds]
        /\ overdue' \subseteq Kinds \X Orders
    BY <1>1, <1>2 DEF TypeOK, EventTypes, jobs
  <2> QED BY <1>4, <1>5, <2>1 DEF TypeOK, RowType, QueueType
<1>7. GoesOn /\ ~ Reached("CLAIM", o) /\ Reached("CLAIM", o)'
  BY <1>2, <1>3 DEF GoesOn, Reached, Deadline, Open, Kinds
<1>8. \A k \in Kinds, x \in Orders : <<k, x>> # <<"CLAIM", o>> /\ Open(k, x)' => Open(k, x)
  BY <1>2, <1>3 DEF Open, Kinds
<1>9. /\ AddOrNot(Member("CLAIM", o), Deadline("CLAIM", o)')
      /\ events' = events \cup {EventOf("CLAIM", o)}
  BY <1>2, <1>3 DEF Deadline, EventOf
<1> QED BY <1>2, <1>6, <1>7, <1>8, <1>9, DeadlineSet DEF Kinds

LEMMA GrabStep ==
  ASSUME TInv, NEW o \in Orders, Grab(o)
  PROVE  TInv'
<1>1. TypeOK
  BY DEF TInv
<1>2. /\ status[o] = "PUBLISHED" /\ now + DeliverTtl \in 0 .. MaxTime /\ now + DeliverTtl > 0
      /\ status' = [status EXCEPT ![o] = "TAKEN"]
      /\ deliverBy' = [deliverBy EXCEPT ![o] = now + DeliverTtl]
      /\ AddOrNot(Member("DELIVER", o), now + DeliverTtl)
      /\ events' = events \cup {<<"ORDER_TAKEN", o>>}
      /\ UNCHANGED <<claimBy, now, app, adding, jobs, excused>>
  BY <1>1, TimeoutsAssumption DEF Grab, TypeOK
<1>3. /\ status'[o] = "TAKEN" /\ deliverBy'[o] = now + DeliverTtl
      /\ \A x \in Orders \ {o} : status'[x] = status[x] /\ deliverBy'[x] = deliverBy[x]
  BY <1>1, <1>2 DEF TypeOK
<1>4. RowType'
  BY <1>1, <1>2, <1>3 DEF TypeOK, RowType
<1>5. QueueType(queue)'
  <2>1. QueueType(queue) /\ Member("DELIVER", o) \in Members
    BY <1>1, TypeSplit, MemberType DEF Kinds
  <2> QED BY <1>2, <2>1, AddType DEF AddOrNot
<1>6. TypeOK'
  <2>1. /\ now' \in 0 .. MaxTime /\ app' \in 0 .. MaxTime
        /\ events' \subseteq EventTypes \X Orders
        /\ \A a \in adding' : a[1] \in events'
        /\ page' \in [Pollers -> SUBSET Members] /\ polling' \in [Pollers -> Kinds]
        /\ overdue' \subseteq Kinds \X Orders
    BY <1>1, <1>2 DEF TypeOK, EventTypes, jobs
  <2> QED BY <1>4, <1>5, <2>1 DEF TypeOK, RowType, QueueType
<1>7. GoesOn /\ ~ Reached("DELIVER", o) /\ Reached("DELIVER", o)'
  BY <1>2, <1>3 DEF GoesOn, Reached, Deadline, Open, Kinds
<1>8. \A k \in Kinds, x \in Orders : <<k, x>> # <<"DELIVER", o>> /\ Open(k, x)' => Open(k, x)
  BY <1>2, <1>3 DEF Open, Kinds
<1>9. /\ AddOrNot(Member("DELIVER", o), Deadline("DELIVER", o)')
      /\ events' = events \cup {EventOf("DELIVER", o)}
  BY <1>2, <1>3 DEF Deadline, EventOf
<1> QED BY <1>2, <1>6, <1>7, <1>8, <1>9, DeadlineSet DEF Kinds


\* Steps that add nothing, neither entry nor page nor deadline.
LEMMA NothingAdded ==
  ASSUME TInv, TypeOK', EventsTrue', GoesOn, excused \subseteq excused', app <= app',
         \A k \in Kinds, x \in Orders : Open(k, x)' => Open(k, x),
         \A p \in Pollers : page'[p] \subseteq page[p],
         \A m \in DOMAIN queue' : m \in DOMAIN queue /\ queue'[m] = queue[m],
         \A k \in Kinds, x \in Orders :
           Open(k, x) /\ app < Deadline(k, x) /\ Member(k, x) \notin excused'
              /\ WakeUpCall(k, x) => WakeUpCall(k, x)'
  PROVE  TInv'
<1>1. ASSUME NEW k \in Kinds, NEW x \in Orders
      PROVE  Trusted(k, x)'
  <2>1. TypeOK /\ Trusted(k, x)
    BY DEF TInv, AllTrusted
  <2> QED BY <2>1, TrustStays
<1> QED BY <1>1 DEF TInv, AllTrusted

LEMMA GrabRollsBackStep ==
  ASSUME TInv, NEW o \in Orders, GrabRollsBack(o)
  PROVE  TInv'
<1>1. TypeOK /\ AllTrusted /\ EventsTrue
  BY DEF TInv
<1>2. /\ now + DeliverTtl \in 0 .. MaxTime
      /\ queue' = Add(queue, Member("DELIVER", o), now + DeliverTtl)
      /\ excused' = excused \cup {Member("DELIVER", o)}
      /\ UNCHANGED <<rows, now, app, events, adding, jobs>>
  BY <1>1, TimeoutsAssumption DEF GrabRollsBack, TypeOK
<1>3. TypeOK'
  <2>1. QueueType(queue) /\ Member("DELIVER", o) \in Members
    BY <1>1, TypeSplit, MemberType DEF Kinds
  <2>2. QueueType(queue)'
    BY <1>2, <2>1, AddType
  <2> QED BY <1>1, <1>2, <2>2 DEF TypeOK, QueueType, rows, jobs
<1>4. GoesOn /\ \A k \in Kinds, x \in Orders : Open(k, x)' => Open(k, x)
  BY <1>2, RowsStand
<1>5. EventsTrue'
  BY <1>1, <1>2, <1>4, EventsStay
<1>6. ASSUME NEW k \in Kinds, NEW x \in Orders
      PROVE  Trusted(k, x)'
  <2>1. CASE Member(k, x) = Member("DELIVER", o)
    BY <1>2, <2>1 DEF Trusted, Member
  <2>2. CASE Member(k, x) # Member("DELIVER", o)
    <3>1. Member(k, x) \in DOMAIN queue' =>
            Member(k, x) \in DOMAIN queue /\ queue'[Member(k, x)] = queue[Member(k, x)]
      BY <1>2, <2>2, OthersAdded
    <3>2. WakeUpCall(k, x) => WakeUpCall(k, x)'
      BY <1>2, NoneTaken DEF WakeUpCall, Member
    <3>3. Trusted(k, x) /\ app <= app' /\ excused \subseteq excused' /\ page' = page
      BY <1>1, <1>2 DEF AllTrusted, TypeOK, jobs
    <3> QED BY <1>1, <1>3, <1>4, <3>1, <3>2, <3>3, TrustStays
  <2> QED BY <2>1, <2>2
<1> QED BY <1>3, <1>5, <1>6 DEF TInv, AllTrusted

\* The order is delivered or cancelled, or nothing happens to it.
LEMMA TimeoutEffect ==
  ASSUME TypeOK, NEW kind \in Kinds, NEW o \in Orders, Timeout(kind, o),
         UNCHANGED <<claimBy, deliverBy>>
  PROVE  /\ GoesOn /\ (\A k \in Kinds, x \in Orders : Open(k, x)' => Open(k, x))
         /\ events \subseteq events'
         /\ \A e \in events' :
              \/ e \in events
              \/ \E x \in Orders : e = <<"ORDER_TERMINAL", x>> /\ status'[x] = "CANCELLED"
<1>1. CASE Overdue(kind, o)
  <2>1. /\ status[o] \in {"PUBLISHED", "TAKEN"}
        /\ status' = [status EXCEPT ![o] = "CANCELLED"]
        /\ events' = events \cup {<<"ORDER_TERMINAL", o>>}
    BY <1>1 DEF Overdue, Timeout, Close
  <2>2. status'[o] = "CANCELLED"
    BY <2>1 DEF TypeOK
  <2>3. GoesOn /\ \A k \in Kinds, x \in Orders : Open(k, x)' => Open(k, x)
    BY <2>1, OrderCloses
  <2> QED BY <2>1, <2>2, <2>3
<1>2. CASE ~ Overdue(kind, o)
  BY <1>2, RowsStand DEF Timeout, rows
<1> QED BY <1>1, <1>2

LEMMA CloseStep ==
  ASSUME TInv, NEW o \in Orders, Deliver(o) \/ Cancel(o)
  PROVE  TInv'
<1>1. TypeOK /\ AllTrusted /\ EventsTrue
  BY DEF TInv
<1>2. /\ UNCHANGED <<claimBy, deliverBy, now, app, queue, adding, jobs, excused>>
      /\ events \subseteq events'
  BY DEF Deliver, Cancel, Close
<1>3. PICK s \in {"CANCELLED", "DELIVERED"} :
         /\ status[o] \in {"PUBLISHED", "TAKEN"} /\ (s = "DELIVERED" => status[o] = "TAKEN")
         /\ status' = [status EXCEPT ![o] = s]
         /\ \A e \in events' : e \in events \/ (e = <<"ORDER_TERMINAL", o>> /\ s = "CANCELLED")
  BY DEF Deliver, Cancel, Close
<1>4. status'[o] = s
  BY <1>1, <1>3 DEF TypeOK
<1>5. GoesOn /\ \A k \in Kinds, x \in Orders : Open(k, x)' => Open(k, x)
  BY <1>1, <1>2, <1>3, OrderCloses
<1>6. TypeOK'
  <2>1. RowType' /\ events' \subseteq EventTypes \X Orders /\ \A a \in adding' : a[1] \in events'
    BY <1>1, <1>2, <1>3 DEF TypeOK, EventTypes, RowType
  <2> QED BY <1>1, <1>2, <2>1 DEF TypeOK, RowType, jobs
<1>7. EventsTrue'
  BY <1>1, <1>2, <1>3, <1>4, <1>5, EventsStay
<1>8. \A k \in Kinds, x \in Orders : WakeUpCall(k, x) => WakeUpCall(k, x)'
  BY <1>2 DEF WakeUpCall, Member
<1>9. app <= app' /\ page' = page /\ queue' = queue /\ excused' = excused
  BY <1>1, <1>2 DEF TypeOK, jobs
<1> QED BY <1>5, <1>6, <1>7, <1>8, <1>9, NothingAdded

LEMMA TickStep ==
  ASSUME TInv, Tick
  PROVE  TInv'
<1>1. TypeOK /\ EventsTrue
  BY DEF TInv
<1>2. UNCHANGED <<rows, queue, events, adding, jobs, excused>>
  BY DEF Tick
<1>3. TypeOK' /\ app <= app'
  BY <1>1, <1>2, TimeoutsAssumption DEF Tick, TypeOK, rows, jobs
<1>4. GoesOn /\ \A k \in Kinds, x \in Orders : Open(k, x)' => Open(k, x)
  BY <1>2, RowsStand
<1>5. EventsTrue'
  BY <1>1, <1>2, <1>4, EventsStay
<1>6. \A k \in Kinds, x \in Orders : WakeUpCall(k, x) => WakeUpCall(k, x)'
  BY <1>2 DEF WakeUpCall, Member
<1>7. page' = page /\ queue' = queue /\ excused' = excused
  BY <1>2 DEF jobs
<1> QED BY <1>3, <1>4, <1>5, <1>6, <1>7, NothingAdded

LEMMA RedisLosesQueuesStep ==
  ASSUME TInv, RedisLosesQueues
  PROVE  TInv'
<1>1. TypeOK /\ EventsTrue
  BY DEF TInv
<1>2. /\ queue' = << >> /\ excused' = Kinds \X Orders
      /\ UNCHANGED <<rows, now, app, events, adding, jobs>>
  BY DEF RedisLosesQueues
<1>3. TypeOK'
  BY <1>1, <1>2 DEF TypeOK, rows, jobs
<1>4. EventsTrue'
  BY <1>1, <1>2, RowsStand, EventsStay
<1>5. AllTrusted'
  BY <1>2 DEF AllTrusted, Trusted, Member
<1> QED BY <1>3, <1>4, <1>5 DEF TInv


LEMMA WorkerReadsStep ==
  ASSUME TInv, NEW e \in events, WorkerReads(e)
  PROVE  TInv'
<1>1. TypeOK /\ AllTrusted /\ EventsTrue
  BY DEF TInv
<1>2. /\ e[2] \in Orders /\ (\A a \in adding : a[1] # e)
      /\ UNCHANGED <<rows, now, app, jobs, excused>>
  BY <1>1, WorkerReadsHow
<1>3. GoesOn /\ \A k \in Kinds, x \in Orders : Open(k, x)' => Open(k, x)
  BY <1>2, RowsStand
<1>4. app <= app' /\ page' = page /\ excused' = excused
  BY <1>1, <1>2 DEF TypeOK, jobs
<1>5. e = <<e[1], e[2]>>
  BY <1>1 DEF TypeOK
<1>6. ASSUME NEW kind \in Kinds, e = EventOf(kind, e[2]),
             adding' = adding \cup {<<e, Member(kind, e[2]), Deadline(kind, e[2])>>},
             UNCHANGED <<queue, events>>
      PROVE  TInv'
  <2>1. TypeOK'
    <3>1. \A a \in adding' : a[1] \in events'
      BY <1>1, <1>6 DEF TypeOK
    <3> QED BY <1>1, <1>2, <1>6, <3>1 DEF TypeOK, rows, jobs
  <2>2. EventsTrue'
    <3>1. \A k \in Kinds, x \in Orders :
             /\ EventOf(k, x)' = EventOf(k, x) /\ Deadline(k, x)' = Deadline(k, x)
             /\ Reached(k, x)' = Reached(k, x) /\ Member(k, x)' = Member(k, x)
      BY <1>2 DEF EventOf, Deadline, Reached, Member, rows
    <3>2. status' = status
      BY <1>2 DEF rows
    <3>3. \A a \in adding' : \E k \in Kinds, x \in Orders :
             a = <<EventOf(k, x), Member(k, x), Deadline(k, x)>>
      BY <1>1, <1>2, <1>6 DEF EventsTrue
    <3> QED BY <1>1, <1>6, <3>1, <3>2, <3>3 DEF EventsTrue
  <2>3. \A k \in Kinds, x \in Orders : WakeUpCall(k, x) => WakeUpCall(k, x)'
    BY <1>6 DEF WakeUpCall, Member
  <2> QED BY <1>3, <1>4, <1>6, <2>1, <2>2, <2>3, NothingAdded
<1>7. ASSUME events' = events \ {e}, UNCHANGED adding, QueueType(queue)',
             \A m \in DOMAIN queue' : m \in DOMAIN queue /\ queue'[m] = queue[m],
             \A k \in Kinds, x \in Orders :
               Open(k, x) => e # EventOf(k, x)
                             /\ (Member(k, x) \in DOMAIN queue => Member(k, x) \in DOMAIN queue')
      PROVE  TInv'
  <2>1. TypeOK'
    <3>1. \A a \in adding' : a[1] \in events'
      BY <1>1, <1>2, <1>7 DEF TypeOK
    <3> QED BY <1>1, <1>2, <1>7, <3>1 DEF TypeOK, QueueType, rows, jobs
  <2>2. EventsTrue'
    BY <1>1, <1>3, <1>7, EventsStay
  <2>3. \A k \in Kinds, x \in Orders : Open(k, x) /\ WakeUpCall(k, x) => WakeUpCall(k, x)'
    BY <1>7 DEF WakeUpCall, Member, EventOf
  <2> QED BY <1>3, <1>4, <1>7, <2>1, <2>2, <2>3, NothingAdded
<1>8. QueueType(queue)
  BY <1>1, TypeSplit
<1>9. CASE /\ e[1] = "ORDER_PUBLISHED"
           /\ adding' = adding \cup {<<e, Member("CLAIM", e[2]), claimBy[e[2]]>>}
           /\ UNCHANGED <<queue, events>>
  <2>1. e = EventOf("CLAIM", e[2]) /\ Deadline("CLAIM", e[2]) = claimBy[e[2]] /\ "CLAIM" \in Kinds
    BY <1>5, <1>9 DEF EventOf, Deadline, Kinds
  <2> QED BY <1>6, <1>9, <2>1
<1>10. CASE /\ e[1] = "ORDER_TAKEN"
            /\ adding' = adding \cup {<<e, Member("DELIVER", e[2]), deliverBy[e[2]]>>}
            /\ UNCHANGED <<queue, events>>
  <2>1. e = EventOf("DELIVER", e[2]) /\ Deadline("DELIVER", e[2]) = deliverBy[e[2]] /\ "DELIVER" \in Kinds
    BY <1>5, <1>10 DEF EventOf, Deadline, Kinds
  <2> QED BY <1>6, <1>10, <2>1
<1>11. CASE /\ e[1] = "ORDER_TERMINAL"
            /\ queue' = Without(queue, {Member(k, e[2]) : k \in Kinds})
            /\ events' = events \ {e} /\ UNCHANGED adding
  <2> DEFINE gone == {Member(k, e[2]) : k \in Kinds}
  <2>1. DOMAIN queue' = DOMAIN queue \ gone /\ \A m \in DOMAIN queue \ gone : queue'[m] = queue[m]
    BY <1>11, WithoutEntries
  <2>2. QueueType(queue)'
    BY <1>8, <1>11, WithoutType
  <2>3. status[e[2]] = "CANCELLED"
    BY <1>1, <1>2, <1>5, <1>11 DEF EventsTrue
  <2>4. ASSUME NEW k \in Kinds, NEW x \in Orders, Open(k, x)
        PROVE  e # EventOf(k, x) /\ Member(k, x) \notin gone
    BY <1>11, <2>3, <2>4 DEF Open, EventOf, Member
  <2> HIDE DEF gone
  <2> QED BY <1>7, <1>11, <2>1, <2>2, <2>4
<1>12. CASE /\ ~ (e[1] = "ORDER_PUBLISHED" /\ status[e[2]] = "PUBLISHED")
            /\ ~ (e[1] = "ORDER_TAKEN" /\ status[e[2]] = "TAKEN")
            /\ events' = events \ {e} /\ UNCHANGED <<queue, adding>>
  <2>1. \A k \in Kinds, x \in Orders : Open(k, x) => e # EventOf(k, x)
    BY <1>12 DEF Open, EventOf, Kinds
  <2>2. QueueType(queue)'
    BY <1>8, <1>12 DEF QueueType
  <2> QED BY <1>7, <1>12, <2>1, <2>2
<1> QED BY <1>1, <1>9, <1>10, <1>11, <1>12, WorkerReadsHow

\* The worker adds an entry with the deadline it read, which is the one still.
LEMMA WorkerAddsStep ==
  ASSUME TInv, NEW a \in adding, WorkerAdds(a)
  PROVE  TInv'
<1>1. TypeOK /\ AllTrusted /\ EventsTrue
  BY DEF TInv
<1>2. adding' = adding \ {a} /\ UNCHANGED <<rows, now, app, jobs, excused>>
  BY DEF WorkerAdds
<1>3. GoesOn /\ \A k \in Kinds, x \in Orders : Open(k, x)' => Open(k, x)
  BY <1>2, RowsStand
<1>4. app <= app' /\ page' = page /\ excused' = excused
  BY <1>1, <1>2 DEF TypeOK, jobs
<1>5. CASE UNCHANGED <<queue, events>>
  <2>1. TypeOK'
    BY <1>1, <1>2, <1>5 DEF TypeOK, rows, jobs
  <2>2. EventsTrue'
    BY <1>1, <1>2, <1>3, <1>5, EventsStay
  <2>3. \A k \in Kinds, x \in Orders : WakeUpCall(k, x) => WakeUpCall(k, x)'
    BY <1>5 DEF WakeUpCall, Member
  <2> QED BY <1>3, <1>4, <1>5, <2>1, <2>2, <2>3, NothingAdded
<1>6. CASE queue' = Add(queue, a[2], a[3]) /\ events' = events \ {a[1]}
  <2>1. PICK kind \in Kinds, o \in Orders :
           /\ a[1] = EventOf(kind, o) /\ a[2] = Member(kind, o) /\ a[3] = Deadline(kind, o)
           /\ a[2] \in Members /\ a[3] \in 0 .. MaxTime
           /\ EventOf(kind, o) \in events /\ Reached(kind, o)
    BY <1>1, AddingType
  <2>2. TypeOK'
    <3>1. \A b \in adding' : b[1] \in events'
      BY <1>1, <1>2, <1>6, AddingApart DEF TypeOK
    <3>2. QueueType(queue)'
      BY <1>1, <1>6, <2>1, TypeSplit, AddType
    <3> QED BY <1>1, <1>2, <1>6, <3>1, <3>2 DEF TypeOK, QueueType, rows, jobs
  <2>3. EventsTrue'
    BY <1>1, <1>2, <1>3, <1>6, EventsStay
  <2>4. ASSUME NEW k \in Kinds, NEW x \in Orders, Member(k, x) # a[2]
        PROVE  Trusted(k, x)'
    <3>1. Member(k, x) \in DOMAIN queue' =>
            Member(k, x) \in DOMAIN queue /\ queue'[Member(k, x)] = queue[Member(k, x)]
      BY <1>6, <2>4, OthersAdded
    <3>2. WakeUpCall(k, x) => WakeUpCall(k, x)'
      <4>1. EventOf(k, x) # a[1]
        BY <2>1, <2>4 DEF EventOf, Kinds, Member
      <4>2. DOMAIN queue \subseteq DOMAIN queue'
        BY <1>6, NoneTaken
      <4> QED BY <1>6, <4>1, <4>2 DEF WakeUpCall, EventOf, Member
    <3> QED BY <1>1, <1>3, <1>4, <2>2, <3>1, <3>2, TrustStays DEF AllTrusted
  <2>5. Trusted(kind, o)'
    <3> SUFFICES ASSUME Member(kind, o) \notin excused
                 PROVE  Trusted(kind, o)'
      BY <1>4 DEF Trusted, Member
    <3>1. /\ Reached(kind, o)' /\ Deadline(kind, o)' = Deadline(kind, o)
          /\ Member(kind, o)' = Member(kind, o) /\ UNCHANGED <<app, page>>
      BY <1>2, <1>3, <2>1 DEF GoesOn, Member, jobs
    <3>2. Member(kind, o) \in DOMAIN queue' /\ queue'[Member(kind, o)] = Deadline(kind, o)
      BY <1>6, <2>1 DEF Add
    <3>3. WakeUpCall(kind, o)'
      BY <3>1, <3>2 DEF WakeUpCall
    <3>4. \A p \in Pollers :
            Member(kind, o) \in page[p] => Reached(kind, o) /\ Deadline(kind, o) <= app
      BY <1>1 DEF AllTrusted, Trusted
    <3> QED BY <3>1, <3>2, <3>3, <3>4 DEF Trusted
  <2>6. AllTrusted'
    <3> SUFFICES ASSUME NEW k \in Kinds, NEW x \in Orders
                 PROVE  Trusted(k, x)'
      BY DEF AllTrusted
    <3>1. Member(k, x) = a[2] => k = kind /\ x = o
      BY <2>1, MembersDiffer
    <3> QED BY <2>4, <2>5, <3>1
  <2> QED BY <2>2, <2>3, <2>6 DEF TInv
<1> QED BY <1>5, <1>6 DEF WorkerAdds

LEMMA EventDiesStep ==
  ASSUME TInv, NEW a \in adding, EventDies(a)
  PROVE  TInv'
<1>1. TypeOK /\ AllTrusted /\ EventsTrue
  BY DEF TInv
<1>2. /\ adding' = adding \ {a} /\ events' = events \ {a[1]} /\ excused' = excused \cup {a[2]}
      /\ UNCHANGED <<rows, now, app, queue, jobs>>
  BY DEF EventDies
<1>3. GoesOn /\ \A k \in Kinds, x \in Orders : Open(k, x)' => Open(k, x)
  BY <1>2, RowsStand
<1>4. TypeOK'
  <2>1. \A b \in adding' : b[1] \in events'
    BY <1>1, <1>2, AddingApart DEF TypeOK
  <2> QED BY <1>1, <1>2, <2>1 DEF TypeOK, rows, jobs
<1>5. EventsTrue'
  BY <1>1, <1>2, <1>3, EventsStay
<1>6. ASSUME NEW k \in Kinds, NEW x \in Orders, Member(k, x) \notin excused', WakeUpCall(k, x)
      PROVE  WakeUpCall(k, x)'
  <2>1. PICK kind \in Kinds, o \in Orders : a[1] = EventOf(kind, o) /\ a[2] = Member(kind, o)
    BY <1>1, AddingType
  <2>2. EventOf(k, x) # a[1]
    BY <1>2, <1>6, <2>1 DEF EventOf, Kinds, Member
  <2> QED BY <1>2, <1>6, <2>2 DEF WakeUpCall, EventOf, Member
<1>7. app <= app' /\ page' = page
  BY <1>1, <1>2 DEF TypeOK, jobs
<1> QED BY <1>2, <1>3, <1>4, <1>5, <1>6, <1>7, NothingAdded


\* A poller reads members that are due: so are their orders.
LEMMA PollReadsStep ==
  ASSUME TInv, NEW p \in Pollers, PollReads(p)
  PROVE  TInv'
<1>1. TypeOK /\ AllTrusted /\ EventsTrue
  BY DEF TInv
<1>2. /\ UNCHANGED <<rows, now, app, queue, events, adding, overdue, excused>>
      /\ polling' = [polling EXCEPT ![p] = Other(@)]
      /\ page[p] = {}
  BY DEF PollReads
<1>3. GoesOn /\ \A k \in Kinds, x \in Orders : Open(k, x)' => Open(k, x)
  BY <1>2, RowsStand
<1>4. \/ UNCHANGED page
      \/ \E kind : page' = [page EXCEPT ![p] = LowestPage(Due(kind))]
  BY DEF PollReads
<1>5. PICK ms : /\ ms \subseteq DOMAIN queue /\ \A m \in ms : queue[m] <= app
                /\ page' = [page EXCEPT ![p] = ms]
  <2>1. CASE UNCHANGED page
    <3>1. page' = [page EXCEPT ![p] = {}]
      BY <1>1, <1>2, <2>1 DEF TypeOK
    <3> QED BY <3>1
  <2>2. ASSUME NEW kind, page' = [page EXCEPT ![p] = LowestPage(Due(kind))]
        PROVE  \E ms : /\ ms \subseteq DOMAIN queue /\ \A m \in ms : queue[m] <= app
                       /\ page' = [page EXCEPT ![p] = ms]
    <3>1. LowestPage(Due(kind)) \subseteq Due(kind)
      BY DEF LowestPage
    <3>2. /\ LowestPage(Due(kind)) \subseteq DOMAIN queue
          /\ \A m \in LowestPage(Due(kind)) : queue[m] <= app
      BY <3>1 DEF Due
    <3> QED BY <2>2, <3>2
  <2> QED BY <1>4, <2>1, <2>2
<1>6. page'[p] = ms /\ \A q \in Pollers \ {p} : page'[q] = page[q]
  BY <1>1, <1>5 DEF TypeOK
<1>7. TypeOK'
  <2>1. ms \subseteq Members
    BY <1>1, <1>5 DEF TypeOK
  <2>2. page' \in [Pollers -> SUBSET Members]
    BY <1>1, <1>5, <2>1 DEF TypeOK
  <2>3. polling' \in [Pollers -> Kinds]
    BY <1>1, <1>2 DEF TypeOK, Other, Kinds
  <2> QED BY <1>1, <1>2, <2>2, <2>3 DEF TypeOK, rows
<1>8. EventsTrue'
  BY <1>1, <1>2, <1>3, EventsStay
<1>9. ASSUME NEW k \in Kinds, NEW x \in Orders
      PROVE  Trusted(k, x)'
  <2> SUFFICES ASSUME Member(k, x) \notin excused
               PROVE  Trusted(k, x)'
    BY <1>2 DEF Trusted, Member
  <2>1. /\ Member(k, x) \in DOMAIN queue =>
             Reached(k, x) /\ queue[Member(k, x)] = Deadline(k, x)
        /\ \A q \in Pollers : Member(k, x) \in page[q] => Reached(k, x) /\ Deadline(k, x) <= app
        /\ Open(k, x) /\ app < Deadline(k, x) => WakeUpCall(k, x)
    BY <1>1 DEF AllTrusted, Trusted
  <2>2. \A q \in Pollers : Member(k, x) \in page'[q] => Reached(k, x) /\ Deadline(k, x) <= app
    BY <1>5, <1>6, <2>1
  <2>3. /\ Reached(k, x)' = Reached(k, x) /\ Deadline(k, x)' = Deadline(k, x)
        /\ Open(k, x)' = Open(k, x) /\ WakeUpCall(k, x)' = WakeUpCall(k, x)
        /\ Member(k, x)' = Member(k, x) /\ app' = app /\ queue' = queue
    BY <1>2 DEF Reached, Deadline, Open, WakeUpCall, Member, rows
  <2> QED BY <2>1, <2>2, <2>3 DEF Trusted
<1> QED BY <1>7, <1>8, <1>9 DEF TInv, AllTrusted

\* A member that the poller handles is removed, whether its timeout took effect
\* or not.
LEMMA PollHandlesStep ==
  ASSUME TInv, NEW p \in Pollers, NEW m \in page[p], PollHandles(p, m) \/ PollFails(p, m)
  PROVE  TInv'
<1>1. TypeOK /\ AllTrusted /\ EventsTrue
  BY DEF TInv
<1>2. /\ page' = [page EXCEPT ![p] = @ \ {m}]
      /\ UNCHANGED <<claimBy, deliverBy, now, app, adding, polling, overdue, excused>>
      /\ queue' = queue \/ queue' = Without(queue, {m})
  BY DEF PollHandles, PollFails, rows
<1>3. /\ RowType' /\ events' \subseteq EventTypes \X Orders
      /\ GoesOn /\ (\A k \in Kinds, x \in Orders : Open(k, x)' => Open(k, x))
      /\ events \subseteq events'
      /\ \A e \in events' :
           \/ e \in events
           \/ \E x \in Orders : e = <<"ORDER_TERMINAL", x>> /\ status'[x] = "CANCELLED"
  <2>1. CASE PollHandles(p, m)
    <3>1. m[2] \in Orders /\ m[1] \in Kinds /\ Timeout(m[1], m[2])
      BY <1>1, <2>1 DEF PollHandles, TypeOK, Members
    <3> QED BY <1>1, <1>2, <3>1, TimeoutType, TimeoutEffect
  <2>2. CASE PollFails(p, m)
    BY <1>1, <2>2, RowsStand DEF PollFails, TypeOK, RowType, rows
  <2> QED BY <2>1, <2>2
<1>4. /\ \A x \in DOMAIN queue' : x \in DOMAIN queue /\ queue'[x] = queue[x]
      /\ DOMAIN queue \ {m} \subseteq DOMAIN queue'
      /\ QueueType(queue)'
  <2>1. CASE queue' = queue
    BY <1>1, <2>1, TypeSplit DEF QueueType
  <2>2. CASE queue' = Without(queue, {m})
    <3>1. /\ DOMAIN queue' = DOMAIN queue \ {m}
          /\ \A x \in DOMAIN queue \ {m} : queue'[x] = queue[x]
      BY <2>2, WithoutEntries
    <3>2. QueueType(queue)'
      BY <1>1, <2>2, TypeSplit, WithoutType
    <3> QED BY <3>1, <3>2
  <2> QED BY <1>2, <2>1, <2>2
<1>5. \A q \in Pollers : page'[q] \subseteq page[q]
  BY <1>1, <1>2 DEF TypeOK
<1>6. TypeOK'
  <2>1. page' \in [Pollers -> SUBSET Members]
    BY <1>1, <1>2 DEF TypeOK
  <2>2. \A a \in adding' : a[1] \in events'
    BY <1>1, <1>2, <1>3 DEF TypeOK
  <2> QED BY <1>1, <1>2, <1>3, <1>4, <2>1, <2>2 DEF TypeOK, RowType, QueueType
<1>7. EventsTrue'
  BY <1>1, <1>2, <1>3, EventsStay
<1>8. ASSUME NEW k \in Kinds, NEW x \in Orders, app < Deadline(k, x),
             Member(k, x) \notin excused', WakeUpCall(k, x)
      PROVE  WakeUpCall(k, x)'
  <2>1. Member(k, x) \notin page[p]
    <3>1. Member(k, x) \in page[p] => Deadline(k, x) <= app
      BY <1>1, <1>2, <1>8 DEF AllTrusted, Trusted
    <3>2. app \in Int /\ Deadline(k, x) \in Int
      BY <1>1 DEF TypeOK, Deadline
    <3> QED BY <1>8, <3>1, <3>2
  <2>2. Member(k, x) # m
    BY <2>1
  <2> QED BY <1>3, <1>4, <1>8, <2>2 DEF WakeUpCall, Member
<1>9. app <= app' /\ excused \subseteq excused'
  BY <1>1, <1>2 DEF TypeOK
<1> QED BY <1>3, <1>4, <1>5, <1>6, <1>7, <1>8, <1>9, NothingAdded

LEMMA ScanStep ==
  ASSUME TInv, ScanReads \/ \E m \in overdue : ScanHandles(m) \/ ScanFails(m)
  PROVE  TInv'
<1>1. TypeOK /\ AllTrusted /\ EventsTrue
  BY DEF TInv
<1>2. UNCHANGED <<claimBy, deliverBy, now, app, queue, adding, page, polling, excused>>
  BY DEF ScanReads, ScanHandles, ScanFails, rows
<1>3. /\ RowType' /\ events' \subseteq EventTypes \X Orders
      /\ GoesOn /\ (\A k \in Kinds, x \in Orders : Open(k, x)' => Open(k, x))
      /\ events \subseteq events' /\ overdue' \subseteq Kinds \X Orders
      /\ \A e \in events' :
           \/ e \in events
           \/ \E x \in Orders : e = <<"ORDER_TERMINAL", x>> /\ status'[x] = "CANCELLED"
  <2>1. CASE ScanReads
    <3>1. UNCHANGED <<rows, events>> /\ overdue' \subseteq DueRows
      BY <2>1 DEF ScanReads
    <3>2. DueRows \subseteq Kinds \X Orders
      BY DEF DueRows
    <3> QED BY <1>1, <3>1, <3>2, RowsStand DEF TypeOK, RowType, rows
  <2>2. ASSUME NEW m \in overdue, ScanHandles(m)
        PROVE  <1>3!:
    <3>1. /\ m[1] \in Kinds /\ m[2] \in Orders /\ Timeout(m[1], m[2])
          /\ overdue' \subseteq Kinds \X Orders
      BY <1>1, <2>2 DEF ScanHandles, TypeOK
    <3> QED BY <1>1, <1>2, <3>1, TimeoutType, TimeoutEffect
  <2>3. ASSUME NEW m \in overdue, ScanFails(m)
        PROVE  <1>3!:
    BY <1>1, <2>3, RowsStand DEF ScanFails, TypeOK, RowType, rows
  <2> QED BY <2>1, <2>2, <2>3
<1>4. TypeOK'
  <2>1. \A a \in adding' : a[1] \in events'
    BY <1>1, <1>2, <1>3 DEF TypeOK
  <2> QED BY <1>1, <1>2, <1>3, <2>1 DEF TypeOK, RowType
<1>5. EventsTrue'
  BY <1>1, <1>2, <1>3, EventsStay
<1>6. \A k \in Kinds, x \in Orders : WakeUpCall(k, x) => WakeUpCall(k, x)'
  BY <1>2, <1>3 DEF WakeUpCall, Member
<1>7. app <= app' /\ page' = page /\ queue' = queue /\ excused' = excused
  BY <1>1, <1>2 DEF TypeOK
<1> QED BY <1>3, <1>4, <1>5, <1>6, <1>7, NothingAdded

LEMMA TimeoutsStep ==
  ASSUME TInv, [Next]_vars
  PROVE  TInv'
<1>1. CASE UNCHANGED vars
  BY <1>1 DEF vars, rows, jobs, TInv, TypeOK, AllTrusted, EventsTrue, Trusted, Member, EventOf,
              Deadline, Reached, Open, WakeUpCall
<1>2. CASE \E o \in Orders : \/ \E ttl \in Ttls : Create(o, ttl)
                             \/ Grab(o) \/ GrabRollsBack(o) \/ Deliver(o) \/ Cancel(o)
  BY <1>2, CreateStep, GrabStep, GrabRollsBackStep, CloseStep
<1>3. CASE Tick \/ RedisLosesQueues \/ \E e \in events : WorkerReads(e)
  BY <1>3, TickStep, RedisLosesQueuesStep, WorkerReadsStep
<1>4. CASE \E a \in adding : WorkerAdds(a) \/ EventDies(a)
  BY <1>4, WorkerAddsStep, EventDiesStep
<1>5. CASE \E p \in Pollers : \/ PollReads(p)
                              \/ \E m \in page[p] : PollHandles(p, m) \/ PollFails(p, m)
  BY <1>5, PollReadsStep, PollHandlesStep
<1>6. CASE ScanReads \/ \E m \in overdue : ScanHandles(m) \/ ScanFails(m)
  BY <1>6, ScanStep
<1> QED BY <1>1, <1>2, <1>3, <1>4, <1>5, <1>6 DEF Next

LEMMA TimeoutsBegin == Init => TInv
<1> SUFFICES ASSUME Init
             PROVE  TInv
  OBVIOUS
<1>1. /\ DOMAIN queue = {Member("CLAIM", x) : x \in Malformed}
      /\ \A m \in DOMAIN queue : queue[m] = 0
      /\ \A o \in Orders : status[o] = "NONE"
  BY DEF Init
<1>2. DOMAIN queue \subseteq Members /\ \A k \in Kinds, o \in Orders : Member(k, o) \notin DOMAIN queue
  BY <1>1, TimeoutsAssumption DEF Member, Members, Kinds
<1>3. TypeOK
  BY <1>1, <1>2, TimeoutsAssumption DEF Init, TypeOK, Kinds
<1>4. AllTrusted /\ EventsTrue
  BY <1>1, <1>2 DEF Init, AllTrusted, Trusted, EventsTrue, Open
<1> QED BY <1>3, <1>4 DEF TInv

LEMMA TimeoutsInvariance == Spec => []TInv
BY TimeoutsBegin, TimeoutsStep, PTL DEF Spec

\* The types, for any number of orders, pollers and malformed members.
THEOREM TimeoutsTyping == Spec => []TypeOK
<1>1. TInv => TypeOK
  BY DEF TInv
<1> QED BY <1>1, TimeoutsInvariance, PTL

\* Until its deadline, by the clock of the instances, an open order has an entry
\* in its ZSet or an outbox event that will write one, whatever pollers with old
\* pages and workers with old rows do, and however far the clocks are apart; only
\* lost ZSets, a dead event or a grab that was rolled back excuse it
\* (DelayQueuePoller.poll, OutboxWorker.publish).
THEOREM OpenOrdersKeepTheirWakeUpCall == Spec => []WakeUpKept
<1>1. TInv => WakeUpKept
  <2> SUFFICES ASSUME TInv, NEW o \in Orders
               PROVE  /\ (status[o] = "PUBLISHED" /\ app < claimBy[o]) =>
                           WakeUpCall("CLAIM", o) \/ Member("CLAIM", o) \in excused
                      /\ (status[o] = "TAKEN" /\ app < deliverBy[o]) =>
                           WakeUpCall("DELIVER", o) \/ Member("DELIVER", o) \in excused
    BY DEF WakeUpKept
  <2>1. Trusted("CLAIM", o) /\ Trusted("DELIVER", o)
    BY DEF TInv, AllTrusted, Kinds
  <2> QED BY <2>1 DEF Trusted, Open, Deadline
<1> QED BY <1>1, TimeoutsInvariance, PTL

===============================================================================
