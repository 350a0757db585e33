---------------------------- MODULE PaymentsProofs ----------------------------
(***************************************************************************)
(* Payments, refunds, disputes and compensations keep the books and their  *)
(* tables in agreement, and move each payment's money once, for any users, *)
(* calls and number of concurrent requests.                                *)
(*                                                                         *)
(* A request acts on what it read in a snapshot; the invariant says which  *)
(* of it is still true when it commits: a row that exists goes on          *)
(* existing, with the same user and amount.  All the rest is found out     *)
(* again by the INSERT, and the unique keys tie the ledger to the tables:  *)
(* an entry exists if and only if the row does that it was written with.   *)
(*                                                                         *)
(* The last part is about the replay of payment events that calls them:    *)
(* its verdict is never wrong for what other users do.                     *)
(***************************************************************************)
EXTENDS PaymentReplay, AccountsProofs, SequenceTheorems

\* The payments, refunds and disputes that the calls of T may make.
CallsIn(T, op) == {c \in T : c.op = op}

PaymentTypeOf(T) == [pid : {c.pid : c \in CallsIn(T, "callback")},
                     event : {c.event : c \in CallsIn(T, "callback")},
                     user : Business, amount : Nat \ {0}, status : {"SETTLED", "REFUNDED"}]

RefundTypeOf(T) == [payment : Nat, key : {c.key : c \in CallsIn(T, "refund")}]

\* What PaymentsAssumption says of the calls of Traffic.
CallsTyped(T) ==
  \A c \in T :
    /\ c.op \in {"callback", "recharge", "refund", "dispute", "compensate"}
    /\ c.op \in {"callback", "recharge"} => c.amount \in Nat \ {0}

\* What a request that is about to commit knows.
Knows(T, c) ==
  /\ c \in T
  /\ c.op \in {"recharge", "callback"} => c.user \in Business
  /\ c.op \in {"refund", "dispute"} => c.payment \in DOMAIN payments
  /\ c.op = "dispute" => payments[c.payment].user = c.user
  /\ c.op = "compensate" => c.dispute \in DOMAIN disputes

CallsKnow(T) ==
  /\ DOMAIN request = Requests
  /\ \A r \in Requests : request[r].state = "begun" => Knows(T, request[r].call)

RowsTyped(T) ==
  /\ payments \in Seq(PaymentTypeOf(T))
  /\ refunds \in Seq(RefundTypeOf(T))
  /\ disputes \in Seq(DisputeType)
  /\ \A i \in DOMAIN refunds : refunds[i].payment \in DOMAIN payments
  /\ \A i \in DOMAIN disputes : disputes[i].payment \in DOMAIN payments
  /\ \A k \in DOMAIN compensations : compensations[k] \in DOMAIN disputes
  /\ \A k \in DOMAIN notices : notices[k] \in {"PENDING", "SENT"}

\* The entries of the ledger and the rows they were written with.
EntriesMatchRows ==
  /\ \A k, a : <<"RECHARGE", k, a>> \in DOMAIN ledger => k \in DOMAIN ops
  /\ \A n, a : <<"REFUND", Id(n), a>> \in DOMAIN ledger => n \in DOMAIN refunds
  /\ \A n, a : <<"COMPENSATION", Id(n), a>> \in DOMAIN ledger =>
                 n \in DOMAIN disputes /\ disputes[n].status = "RESOLVED"
  /\ \A d \in DOMAIN disputes : disputes[d].status = "RESOLVED" =>
       <<"COMPENSATION", Id(d), Available(Mint)>> \in DOMAIN ledger
  /\ \A u \in Business : <<"FREEZE", <<"ORDER", u>>, Frozen(u)>> \in DOMAIN ledger =>
                           <<"FREEZE", <<"ORDER", u>>, Available(u)>> \in DOMAIN ledger

RefundedOnce ==
  /\ \A i, j \in DOMAIN refunds : refunds[i].payment = refunds[j].payment => i = j
  /\ \A i \in DOMAIN payments :
       payments[i].status = "REFUNDED" <=> \E j \in DOMAIN refunds : refunds[j].payment = i

CompensatedOnce ==
  /\ \A k, l \in DOMAIN compensations : compensations[k] = compensations[l] => k = l
  /\ \A d \in DOMAIN disputes :
       disputes[d].status = "RESOLVED" <=> \E k \in DOMAIN compensations : compensations[k] = d

Notified ==
  DOMAIN notices = {<<"PAYMENT", i>> : i \in DOMAIN payments}
                   \cup {<<"REFUND", i>> : i \in DOMAIN refunds}
                   \cup {<<"DISPUTE", d>> : d \in Resolved}

\* The books match the ledger, which sums to zero, and only the mint is overdrawn.
SoundBooks(b, l) ==
  /\ Books(b, l)
  /\ SumFunction(l) = 0
  /\ \A a \in Account : a[1] # Mint => b[a] >= 0

PInvOf(T) ==
  /\ SoundBooks(balance, ledger)
  /\ RowsTyped(T)
  /\ CallsKnow(T)
  /\ EntriesMatchRows
  /\ RefundedOnce
  /\ CompensatedOnce
  /\ Notified

PInv == PInvOf(Traffic)

-------------------------------------------------------------------------------
LEMMA AccountsType ==
  /\ \A u \in Users : Available(u) \in Account /\ Frozen(u) \in Account
  /\ \A u \in Business : u \in Users /\ u # Mint
  /\ Mint \in Users
BY UsersAssumption DEF Available, Frozen, Account, AccountTypes, Business

\* Both halves of an event, under keys that are not taken, keep the books.
LEMMA PostKeepsBooks ==
  ASSUME SoundBooks(balance, ledger), NEW type, NEW biz, NEW from \in Account, NEW to \in Account,
         NEW amount \in Nat, from # to,
         <<type, biz, from>> \notin DOMAIN ledger, <<type, biz, to>> \notin DOMAIN ledger,
         from[1] = Mint \/ Covers(balance, from, amount),
         Post(type, biz, from, to, amount)
  PROVE  /\ SoundBooks(balance', ledger')
         /\ DOMAIN ledger' = DOMAIN ledger \cup {<<type, biz, from>>, <<type, biz, to>>}
<1> DEFINE k1 == <<type, biz, from>>
           k2 == <<type, biz, to>>
<1>1. k1 # k2 /\ k1[3] = from /\ k2[3] = to /\ Fresh(ledger, k1) /\ Fresh(ledger, k2)
  BY DEF Fresh
<1>2. /\ balance' = Change(Change(balance, from, -amount), to, amount)
      /\ ledger' = Insert(Insert(ledger, k1, -amount), k2, amount)
  BY DEF Post
<1>3. -amount \in Int /\ amount \in Int
  OBVIOUS
<1> HIDE DEF k1, k2
<1>4. Books(balance', ledger') /\ SumFunction(ledger') = SumFunction(ledger) + (-amount) + amount
  BY <1>1, <1>2, <1>3, TwoPostings DEF SoundBooks
<1>5. \A a \in Account : a[1] # Mint => balance'[a] >= 0
  <2>1. \A a \in Account : balance[a] \in Int
    BY DEF SoundBooks, Books
  <2>2. \A a \in Account : balance'[a] = IF a = from THEN balance[a] + (-amount)
                                        ELSE IF a = to THEN balance[a] + amount ELSE balance[a]
    BY <1>2, <2>1 DEF Change, SoundBooks, Books
  <2> QED BY <2>1, <2>2 DEF Covers, SoundBooks
<1>6. SoundBooks(balance', ledger')
  BY <1>4, <1>5 DEF SoundBooks
<1>7. DOMAIN ledger' = DOMAIN ledger \cup {k1, k2}
  BY <1>2 DEF Insert
<1> QED BY <1>6, <1>7 DEF k1, k2

\* A row that was read goes on existing, with the same user.
RowsStay ==
  /\ \A i \in DOMAIN payments : i \in DOMAIN payments' /\ payments'[i].user = payments[i].user
  /\ \A d \in DOMAIN disputes : d \in DOMAIN disputes'

\* So what the other requests know stays true.
LEMMA OthersStillKnow ==
  ASSUME NEW T, CallsKnow(T), RowsStay, NEW r \in Requests, NEW answer, answer # "begun", Answers(r, answer)
  PROVE  CallsKnow(T)'
<1>1. DOMAIN request' = Requests /\ request'[r].state = answer
  BY DEF CallsKnow, Answers
<1>2. \A q \in Requests : q # r => request'[q] = request[q]
  BY DEF CallsKnow, Answers
<1>3. ASSUME NEW c, Knows(T, c)
      PROVE  Knows(T, c)'
  BY <1>3 DEF Knows, RowsStay
<1> QED BY <1>1, <1>2, <1>3 DEF CallsKnow

\* A transaction that is rolled back, or answers without writing.
LEMMA ThrowsStep ==
  ASSUME NEW T, CallsTyped(T), PInvOf(T), NEW r \in Requests, NEW answer, answer # "begun", Throws(r, answer)
  PROVE  PInvOf(T)'
<1>1. UNCHANGED <<balance, ledger, payments, refunds, disputes, compensations, ops, notices>>
  BY DEF Throws, rows
<1>2. CallsKnow(T)'
  BY <1>1, OthersStillKnow DEF PInvOf, Throws, RowsStay
<1> QED BY <1>1, <1>2 DEF PInvOf, SoundBooks, Books, RowsTyped, EntriesMatchRows, RefundedOnce, CompensatedOnce,
           Notified, Resolved

\* A transaction that goes on, with what its snapshot showed.
LEMMA BeginsStep ==
  ASSUME NEW T, CallsTyped(T), PInvOf(T), NEW r \in Requests, NEW c \in T, Begins(r, c)
  PROVE  PInvOf(T)'
<1> DEFINE going(seen) == request' = [request EXCEPT ![r] = [state |-> "begun", call |-> c, seen |-> seen]]
<1>1. UNCHANGED <<balance, ledger, payments, refunds, disputes, compensations, ops, notices>>
  BY DEF Begins, RechargeReads, CallbackReads, RefundReads, DisputeReads, CompensateReads, Reads, rows
<1>2. \/ \E answer : answer # "begun" /\ Throws(r, answer)
      \/ Knows(T, c) /\ \E seen : going(seen)
  <2>1. ASSUME NEW answer, NEW seen, Reads(r, c, answer, seen), answer = "begun" => Knows(T, c)
        PROVE  <1>2
    BY <2>1 DEF Reads, Throws
  <2>2. CASE c.op = "recharge" /\ RechargeReads(r, c)
    BY <2>1, <2>2 DEF RechargeReads, Knows
  <2>3. CASE c.op = "callback" /\ CallbackReads(r, c)
    BY <2>1, <2>3 DEF CallbackReads, Knows
  <2>4. CASE c.op = "refund" /\ RefundReads(r, c)
    BY <2>1, <2>4 DEF RefundReads, Knows
  <2>5. CASE c.op = "dispute" /\ DisputeReads(r, c)
    BY <2>1, <2>5 DEF DisputeReads, Knows
  <2>6. CASE c.op = "compensate" /\ CompensateReads(r, c)
    BY <2>1, <2>6 DEF CompensateReads, Knows
  <2> QED BY <2>2, <2>3, <2>4, <2>5, <2>6 DEF Begins
<1>3. ASSUME Knows(T, c), NEW seen, going(seen)
      PROVE  CallsKnow(T)'
  <2>1. DOMAIN request' = Requests /\ request'[r].call = c
    BY <1>3 DEF PInvOf, CallsKnow
  <2>2. \A q \in Requests : q # r => request'[q] = request[q]
    BY <1>3 DEF PInvOf, CallsKnow
  <2>3. ASSUME NEW d, Knows(T, d)
        PROVE  Knows(T, d)'
    BY <1>1, <2>3 DEF Knows
  <2> QED BY <1>3, <2>1, <2>2, <2>3 DEF PInvOf, CallsKnow
<1>4. ASSUME Knows(T, c), NEW seen, going(seen)
      PROVE  PInvOf(T)'
  <2>1. CallsKnow(T)'
    BY <1>3, <1>4
  <2> HIDE DEF going
  <2> QED BY <1>1, <2>1 DEF PInvOf, SoundBooks, Books, RowsTyped, EntriesMatchRows, RefundedOnce,
             CompensatedOnce, Notified, Resolved
<1> QED BY <1>2, <1>4, ThrowsStep
LEMMA MarkSentStep ==
  ASSUME NEW T, CallsTyped(T), PInvOf(T), NEW k \in DOMAIN notices, MarkSent(k)
  PROVE  PInvOf(T)'
<1>1. /\ notices' = [notices EXCEPT ![k] = "SENT"]
      /\ UNCHANGED <<balance, ledger, payments, refunds, disputes, compensations, ops, request>>
  BY DEF MarkSent
<1>2. DOMAIN notices' = DOMAIN notices /\ \A n \in DOMAIN notices : notices'[n] \in {"PENDING", "SENT"}
  BY <1>1 DEF PInvOf, RowsTyped
<1>3. CallsKnow(T)'
  BY <1>1 DEF PInvOf, CallsKnow, Knows
<1> QED BY <1>1, <1>2, <1>3 DEF PInvOf, SoundBooks, Books, RowsTyped, EntriesMatchRows, RefundedOnce, CompensatedOnce,
           Notified, Resolved

\* Entries of one event are added: what the others say about the tables stays true.
LEMMA SpendsStep ==
  ASSUME NEW T, CallsTyped(T), PInvOf(T), NEW u \in Business, Spends(u)
  PROVE  PInvOf(T)'
<1> DEFINE biz == <<"ORDER", u>>
<1>1. /\ <<"FREEZE", biz, Available(u)>> \notin DOMAIN ledger
      /\ Post("FREEZE", biz, Available(u), Frozen(u), Spending)
      /\ UNCHANGED <<payments, refunds, disputes, compensations, ops, notices, request>>
      /\ Covers(balance, Available(u), Spending)
  BY DEF Spends, Fresh, rows
<1>2. <<"FREEZE", biz, Frozen(u)>> \notin DOMAIN ledger
  BY <1>1 DEF PInvOf, EntriesMatchRows
<1>3. Available(u) \in Account /\ Frozen(u) \in Account /\ Available(u) # Frozen(u) /\ Spending \in Nat
  BY AccountsType, PaymentsAssumption DEF Available, Frozen
<1> HIDE DEF biz
<1>4. /\ SoundBooks(balance', ledger')
      /\ DOMAIN ledger' = DOMAIN ledger \cup {<<"FREEZE", biz, Available(u)>>, <<"FREEZE", biz, Frozen(u)>>}
  BY <1>1, <1>2, <1>3, PostKeepsBooks DEF PInvOf
<1>5. EntriesMatchRows'
  <2>1. \A type, n, a : type # "FREEZE" /\ <<type, n, a>> \in DOMAIN ledger' => <<type, n, a>> \in DOMAIN ledger
    BY <1>4
  <2>2. \A v \in Business : <<"FREEZE", <<"ORDER", v>>, Frozen(v)>> \in DOMAIN ledger' =>
                             <<"FREEZE", <<"ORDER", v>>, Available(v)>> \in DOMAIN ledger'
    BY <1>4 DEF PInvOf, EntriesMatchRows, biz, Available, Frozen
  <2> QED BY <1>1, <1>4, <2>1, <2>2 DEF PInvOf, EntriesMatchRows
<1>6. CallsKnow(T)'
  BY <1>1 DEF PInvOf, CallsKnow, Knows
<1> QED BY <1>1, <1>4, <1>5, <1>6 DEF PInvOf, RowsTyped, RefundedOnce, CompensatedOnce, Notified, Resolved

\* What a recharge writes, for any key that is not taken.
LEMMA RechargeWrites ==
  ASSUME NEW T, CallsTyped(T), PInvOf(T), NEW c, c.user \in Business, c.amount \in Nat, NEW key, NEW seen,
         NEW start, start = Start(c, key, seen), start \in {"new", "replay"}, Recharge(c, key, start)
  PROVE  /\ SoundBooks(balance', ledger')
         /\ DOMAIN ops \subseteq DOMAIN ops'
         /\ \/ start = "replay" /\ UNCHANGED <<balance, ledger, ops>>
            \/ /\ start = "new" /\ key \notin DOMAIN ops
               /\ ops' = Insert(ops, key, <<c.user, c.amount>>)
               /\ Post("RECHARGE", key, Available(Mint), Available(c.user), c.amount)
         /\ \A type, n, a : <<type, n, a>> \in DOMAIN ledger' =>
              <<type, n, a>> \in DOMAIN ledger \/ (type = "RECHARGE" /\ n \in DOMAIN ops')
         /\ DOMAIN ledger \subseteq DOMAIN ledger'
<1>1. CASE start = "new"
  <2>1. key \notin DOMAIN ops
    BY <1>1 DEF Start
  <2>2. /\ Post("RECHARGE", key, Available(Mint), Available(c.user), c.amount)
        /\ ops' = Insert(ops, key, <<c.user, c.amount>>)
    BY <1>1 DEF Recharge
  <2>3. DOMAIN ops' = DOMAIN ops \cup {key}
    BY <2>2 DEF Insert
  <2>4. /\ Available(Mint) \in Account /\ Available(c.user) \in Account /\ Available(Mint) # Available(c.user)
        /\ Available(Mint)[1] = Mint
    BY AccountsType DEF Available
  <2>5. \A a : <<"RECHARGE", key, a>> \notin DOMAIN ledger
    BY <2>1 DEF PInvOf, EntriesMatchRows
  <2>6. /\ SoundBooks(balance', ledger')
        /\ DOMAIN ledger' = DOMAIN ledger \cup {<<"RECHARGE", key, Available(Mint)>>,
                                               <<"RECHARGE", key, Available(c.user)>>}
    BY <2>2, <2>4, <2>5, PostKeepsBooks DEF PInvOf
  <2> QED BY <1>1, <2>1, <2>2, <2>3, <2>6
<1>2. CASE start = "replay"
  BY <1>2 DEF Recharge, PInvOf
<1> QED BY <1>1, <1>2

LEMMA RechargeCommitsStep ==
  ASSUME NEW T, CallsTyped(T), PInvOf(T), NEW r \in Requests, NEW c, Knows(T, c), c.op = "recharge", NEW seen,
         RechargeCommits(r, c, seen)
  PROVE  PInvOf(T)'
<1> DEFINE start == Start(c, c.key, seen)
<1>1. start # "begun"
  BY DEF Start
<1>2. CASE start \in {"new", "replay"}
  <2>1. c.user \in Business /\ c.amount \in Nat
    BY DEF CallsTyped, Knows
  <2>2. /\ Recharge(c, c.key, start) /\ Answers(r, "ok")
        /\ UNCHANGED <<payments, refunds, disputes, compensations, notices>>
    BY <1>2 DEF RechargeCommits
  <2>3. /\ SoundBooks(balance', ledger')
        /\ DOMAIN ops \subseteq DOMAIN ops'
        /\ \A type, n, a : <<type, n, a>> \in DOMAIN ledger' =>
              <<type, n, a>> \in DOMAIN ledger \/ (type = "RECHARGE" /\ n \in DOMAIN ops')
        /\ DOMAIN ledger \subseteq DOMAIN ledger'
    <3> DEFINE s == start
    <3>1. s = Start(c, c.key, seen) /\ s \in {"new", "replay"} /\ Recharge(c, c.key, s)
      BY <1>2, <2>2
    <3> HIDE DEF s
    <3> QED BY <2>1, <3>1, RechargeWrites
  <2>4. EntriesMatchRows'
    BY <2>2, <2>3 DEF PInvOf, EntriesMatchRows
  <2>5. CallsKnow(T)'
    BY <2>2, OthersStillKnow DEF PInvOf, RowsStay
  <2> QED BY <2>2, <2>3, <2>4, <2>5 DEF PInvOf, RowsTyped, RefundedOnce, CompensatedOnce, Notified, Resolved
<1>3. CASE start \notin {"new", "replay"}
  <2>1. Throws(r, start)
    BY <1>3 DEF RechargeCommits
  <2> QED BY <1>1, <2>1, ThrowsStep
<1> QED BY <1>2, <1>3

LEMMA AppendRow ==
  ASSUME NEW S, NEW seq \in Seq(S), NEW e \in S
  PROVE  /\ Append(seq, e) \in Seq(S)
         /\ Len(Append(seq, e)) = Len(seq) + 1
         /\ DOMAIN Append(seq, e) = DOMAIN seq \cup {Len(seq) + 1}
         /\ Len(seq) + 1 \notin DOMAIN seq
         /\ Append(seq, e)[Len(seq) + 1] = e
         /\ \A i \in DOMAIN seq : Append(seq, e)[i] = seq[i]
<1> DEFINE app == Append(seq, e)
<1>1. Len(seq) \in Nat /\ DOMAIN seq = 1 .. Len(seq)
  BY LenProperties
<1>2. /\ app \in Seq(S)
      /\ Len(app) = Len(seq) + 1
      /\ \A i \in 1 .. Len(seq) : app[i] = seq[i]
      /\ app[Len(seq) + 1] = e
  BY AppendProperties
<1> HIDE DEF app
<1>3. DOMAIN app = 1 .. (Len(seq) + 1)
  BY <1>2, LenProperties
<1> QED BY <1>1, <1>2, <1>3 DEF app

\* A row of a table gets another status.
LEMMA StatusOfRow ==
  ASSUME NEW S, NEW seq \in Seq(S), NEW i \in DOMAIN seq, NEW status,
         [seq[i] EXCEPT !.status = status] \in S
  PROVE  LET new == [seq EXCEPT ![i].status = status]
         IN  /\ new \in Seq(S)
             /\ DOMAIN new = DOMAIN seq
             /\ Len(new) = Len(seq)
             /\ new[i] = [seq[i] EXCEPT !.status = status]
             /\ \A j \in DOMAIN seq : j # i => new[j] = seq[j]
<1> DEFINE row == [seq[i] EXCEPT !.status = status]
           new == [seq EXCEPT ![i] = row]
<1>1. Len(seq) \in Nat /\ DOMAIN seq = 1 .. Len(seq)
  BY LenProperties
<1> HIDE DEF row
<1>2. /\ new \in Seq(S)
      /\ Len(new) = Len(seq)
      /\ \A j \in 1 .. Len(seq) : new[j] = IF j = i THEN row ELSE seq[j]
  BY <1>1, ExceptSeq DEF row
<1>3. DOMAIN new = DOMAIN seq
  OBVIOUS
<1>4. [seq EXCEPT ![i].status = status] = new
  BY DEF row
<1> QED BY <1>1, <1>2, <1>3, <1>4 DEF row

LEMMA CallbackCommitsStep ==
  ASSUME NEW T, CallsTyped(T), PInvOf(T), NEW r \in Requests, NEW c, Knows(T, c), c.op = "callback", NEW seen,
         CallbackCommits(r, c, seen)
  PROVE  PInvOf(T)'
<1> DEFINE start == Start(c, PaymentKey(c.event), seen)
           row == [pid |-> c.pid, event |-> c.event, user |-> c.user, amount |-> c.amount,
                   status |-> "SETTLED"]
           n == Len(payments) + 1
<1>1. start # "begun"
  BY DEF Start
<1>2. CASE Throws(r, "error") \/ Throws(r, start)
  BY <1>1, <1>2, ThrowsStep
<1>3. CASE /\ start \in {"new", "replay"}
           /\ payments' = Append(payments, row)
           /\ Recharge(c, PaymentKey(c.event), start)
           /\ Notify("PAYMENT", Len(payments'))
           /\ Answers(r, "ok")
           /\ UNCHANGED <<refunds, disputes, compensations>>
  <2>1. c.user \in Business /\ c.amount \in Nat \ {0} /\ c \in CallsIn(T, "callback")
    BY DEF CallsTyped, Knows, CallsIn
  <2>2. row \in PaymentTypeOf(T)
    BY <2>1 DEF PaymentTypeOf
  <2>3. /\ payments' \in Seq(PaymentTypeOf(T))
        /\ Len(payments') = n
        /\ DOMAIN payments' = DOMAIN payments \cup {n}
        /\ n \notin DOMAIN payments
        /\ payments'[n].status = "SETTLED"
        /\ \A i \in DOMAIN payments : payments'[i] = payments[i]
    BY <1>3, <2>2, AppendRow DEF PInvOf, RowsTyped
  <2>4. /\ SoundBooks(balance', ledger')
        /\ DOMAIN ops \subseteq DOMAIN ops'
        /\ \A type, m, a : <<type, m, a>> \in DOMAIN ledger' =>
              <<type, m, a>> \in DOMAIN ledger \/ (type = "RECHARGE" /\ m \in DOMAIN ops')
        /\ DOMAIN ledger \subseteq DOMAIN ledger'
    <3> DEFINE s == start
    <3>1. s = Start(c, PaymentKey(c.event), seen) /\ s \in {"new", "replay"} /\ Recharge(c, PaymentKey(c.event), s)
      BY <1>3
    <3> HIDE DEF s
    <3> QED BY <2>1, <3>1, RechargeWrites
  <2> HIDE DEF n
  <2>5. EntriesMatchRows'
    BY <1>3, <2>4 DEF PInvOf, EntriesMatchRows
  <2>6. CallsKnow(T)'
    BY <1>3, <2>3, OthersStillKnow DEF PInvOf, RowsStay
  <2>7. RefundedOnce'
    <3>1. refunds' = refunds /\ \A j \in DOMAIN refunds : refunds[j].payment # n
      BY <1>3, <2>3 DEF PInvOf, RowsTyped
    <3>2. payments'[n].status = "REFUNDED" <=> \E j \in DOMAIN refunds : refunds[j].payment = n
      BY <2>3, <3>1
    <3>3. \A i \in DOMAIN payments :
            payments'[i].status = "REFUNDED" <=> \E j \in DOMAIN refunds : refunds[j].payment = i
      BY <2>3 DEF PInvOf, RefundedOnce
    <3>4. \A i \in DOMAIN payments' :
            payments'[i].status = "REFUNDED" <=> \E j \in DOMAIN refunds : refunds[j].payment = i
      BY <2>3, <3>2, <3>3
    <3> QED BY <3>1, <3>4 DEF PInvOf, RefundedOnce
  <2>8. DOMAIN notices' = DOMAIN notices \cup {<<"PAYMENT", n>>}
        /\ \A k \in DOMAIN notices' : notices'[k] \in {"PENDING", "SENT"}
    BY <1>3, <2>3 DEF Notify, Insert, PInvOf, RowsTyped
  <2>9. Notified'
    BY <1>3, <2>3, <2>8 DEF PInvOf, Notified, Resolved
  <2>10. RowsTyped(T)'
    BY <1>3, <2>3, <2>8 DEF PInvOf, RowsTyped
  <2> QED BY <1>3, <2>4, <2>5, <2>6, <2>7, <2>9, <2>10 DEF PInvOf, CompensatedOnce
<1> QED BY <1>2, <1>3 DEF CallbackCommits

LEMMA DisputeCommitsStep ==
  ASSUME NEW T, CallsTyped(T), PInvOf(T), NEW r \in Requests, NEW c, Knows(T, c), c.op = "dispute", DisputeCommits(r, c)
  PROVE  PInvOf(T)'
<1> DEFINE row == [payment |-> c.payment, user |-> c.user, status |-> "OPEN"]
           n == Len(disputes) + 1
<1>1. /\ disputes' = Append(disputes, row)
      /\ Answers(r, "ok")
      /\ UNCHANGED <<balance, ledger, payments, refunds, compensations, ops, notices>>
  BY DEF DisputeCommits
<1>2. c.payment \in DOMAIN payments /\ c.payment \in Nat /\ c.user \in Business
  <2>1. c.payment \in DOMAIN payments /\ payments[c.payment].user = c.user
    BY DEF Knows
  <2>2. payments[c.payment] \in PaymentTypeOf(T) /\ c.payment \in Nat
    BY <2>1, LenProperties, ElementOfSeq DEF PInvOf, RowsTyped
  <2> QED BY <2>1, <2>2 DEF PaymentTypeOf
<1>3. row \in DisputeType
  BY <1>2 DEF DisputeType
<1>4. /\ disputes' \in Seq(DisputeType)
      /\ DOMAIN disputes' = DOMAIN disputes \cup {n}
      /\ n \notin DOMAIN disputes
      /\ disputes'[n] = row
      /\ \A i \in DOMAIN disputes : disputes'[i] = disputes[i]
  BY <1>1, <1>3, AppendRow DEF PInvOf, RowsTyped
<1> HIDE DEF n
<1>5. disputes'[n].status = "OPEN" /\ disputes'[n].payment = c.payment
  BY <1>4
<1>6. EntriesMatchRows'
  BY <1>1, <1>4, <1>5 DEF PInvOf, EntriesMatchRows
<1>7. CallsKnow(T)'
  BY <1>1, <1>4, OthersStillKnow DEF PInvOf, RowsStay
<1>8. CompensatedOnce'
  BY <1>1, <1>4, <1>5 DEF PInvOf, CompensatedOnce, RowsTyped
<1>9. Resolved' = Resolved
  BY <1>4, <1>5 DEF Resolved
<1>10. RowsTyped(T)'
  BY <1>1, <1>2, <1>4, <1>5 DEF PInvOf, RowsTyped
<1> QED BY <1>1, <1>6, <1>7, <1>8, <1>9, <1>10 DEF PInvOf, SoundBooks, Books, RefundedOnce, Notified

\* A payment is refunded at most once because the refund's row, the payment's
\* status and the entries of the ledger stand or fall together.
LEMMA RefundCommitsStep ==
  ASSUME NEW T, CallsTyped(T), PInvOf(T), NEW r \in Requests, NEW c, Knows(T, c), c.op = "refund", RefundCommits(r, c)
  PROVE  PInvOf(T)'
<1> DEFINE p == payments[c.payment]
           row == [payment |-> c.payment, key |-> c.key]
           n == Len(refunds) + 1
<1>1. CASE Throws(r, "error") \/ Throws(r, "insufficient")
  BY <1>1, ThrowsStep
<1>2. CASE /\ ~RefundExists(c)
           /\ Covers(balance, Available(p.user), p.amount)
           /\ refunds' = Append(refunds, row)
           /\ Post("REFUND", Id(Len(refunds')), Available(p.user), Available(Mint), RefundAmount(p))
           /\ MarkRefunded(c.payment)
           /\ Notify("REFUND", Len(refunds'))
           /\ Answers(r, "ok")
           /\ UNCHANGED <<disputes, compensations, ops>>
  <2>1. c.payment \in DOMAIN payments /\ c.payment \in Nat /\ p \in PaymentTypeOf(T)
    BY LenProperties, ElementOfSeq DEF PInvOf, RowsTyped, Knows
  <2>2. p.user \in Business /\ p.amount \in Nat /\ [p EXCEPT !.status = "REFUNDED"] \in PaymentTypeOf(T)
    BY <2>1 DEF PaymentTypeOf
  <2>3. row \in RefundTypeOf(T)
    <3>1. c \in CallsIn(T, "refund")
      BY DEF Knows, CallsIn
    <3> QED BY <2>1, <3>1 DEF RefundTypeOf
  <2>4. /\ refunds' \in Seq(RefundTypeOf(T))
        /\ Len(refunds') = n
        /\ DOMAIN refunds' = DOMAIN refunds \cup {n}
        /\ n \notin DOMAIN refunds
        /\ refunds'[n].payment = c.payment
        /\ \A j \in DOMAIN refunds : refunds'[j] = refunds[j]
    BY <1>2, <2>3, AppendRow DEF PInvOf, RowsTyped
  <2>5. /\ payments' \in Seq(PaymentTypeOf(T))
        /\ DOMAIN payments' = DOMAIN payments
        /\ payments'[c.payment] = [p EXCEPT !.status = "REFUNDED"]
        /\ \A j \in DOMAIN payments : j # c.payment => payments'[j] = payments[j]
    BY <1>2, <2>1, <2>2, StatusOfRow DEF MarkRefunded, PInvOf, RowsTyped
  <2>6. payments'[c.payment].status = "REFUNDED" /\ payments'[c.payment].user = p.user
    BY <2>1, <2>5 DEF PaymentTypeOf
  <2>7. \A a : <<"REFUND", Id(n), a>> \notin DOMAIN ledger
    BY <2>4 DEF PInvOf, EntriesMatchRows
  <2>8. /\ Available(p.user) \in Account /\ Available(Mint) \in Account
        /\ Available(p.user) # Available(Mint)
    BY <2>2, AccountsType DEF Available
  <2>9. /\ Post("REFUND", Id(n), Available(p.user), Available(Mint), p.amount)
        /\ Covers(balance, Available(p.user), p.amount)
    BY <1>2, <2>4 DEF RefundAmount
  <2> HIDE DEF n, p
  <2>10. /\ SoundBooks(balance', ledger')
         /\ DOMAIN ledger' = DOMAIN ledger \cup {<<"REFUND", Id(n), Available(p.user)>>,
                                                 <<"REFUND", Id(n), Available(Mint)>>}
    BY <2>2, <2>7, <2>8, <2>9, PostKeepsBooks DEF PInvOf
  <2>11. EntriesMatchRows'
    <3>1. \A type, m, a : <<type, m, a>> \in DOMAIN ledger' =>
            <<type, m, a>> \in DOMAIN ledger \/ (type = "REFUND" /\ m = Id(n))
      BY <2>10
    <3>2. \A m : Id(m) = Id(n) => m = n
      BY DEF Id
    <3>3. \A m, a : <<"REFUND", Id(m), a>> \in DOMAIN ledger' => m \in DOMAIN refunds'
      BY <2>4, <3>1, <3>2 DEF PInvOf, EntriesMatchRows
    <3> QED BY <1>2, <2>10, <3>1, <3>3 DEF PInvOf, EntriesMatchRows
  <2>12. CallsKnow(T)'
    BY <1>2, <2>5, <2>6, OthersStillKnow DEF PInvOf, RowsStay, p
  <2>13. RefundedOnce'
    <3>1. \A j \in DOMAIN refunds : refunds[j].payment # c.payment
      BY <1>2 DEF RefundExists
    <3>2. \A i, j \in DOMAIN refunds' : refunds'[i].payment = refunds'[j].payment => i = j
      BY <2>4, <3>1 DEF PInvOf, RefundedOnce
    <3>3. \A i \in DOMAIN payments' :
            payments'[i].status = "REFUNDED" <=> \E j \in DOMAIN refunds' : refunds'[j].payment = i
      <4>1. ASSUME NEW i \in DOMAIN payments, i # c.payment
            PROVE  /\ payments'[i].status = "REFUNDED" <=> payments[i].status = "REFUNDED"
                   /\ (\E j \in DOMAIN refunds' : refunds'[j].payment = i)
                        <=> (\E j \in DOMAIN refunds : refunds[j].payment = i)
        BY <2>4, <2>5, <4>1
      <4>2. \E j \in DOMAIN refunds' : refunds'[j].payment = c.payment
        BY <2>4
      <4> QED BY <2>5, <2>6, <4>1, <4>2 DEF PInvOf, RefundedOnce
    <3> QED BY <3>2, <3>3 DEF RefundedOnce
  <2>14. DOMAIN notices' = DOMAIN notices \cup {<<"REFUND", n>>}
         /\ \A k \in DOMAIN notices' : notices'[k] \in {"PENDING", "SENT"}
    BY <1>2, <2>4 DEF Notify, Insert, PInvOf, RowsTyped
  <2>15. Notified'
    BY <1>2, <2>4, <2>5, <2>14 DEF PInvOf, Notified, Resolved
  <2>16. RowsTyped(T)'
    BY <1>2, <2>1, <2>4, <2>5, <2>14 DEF PInvOf, RowsTyped
  <2> QED BY <1>2, <2>10, <2>11, <2>12, <2>13, <2>15, <2>16 DEF PInvOf, CompensatedOnce
<1> QED BY <1>1, <1>2 DEF RefundCommits

\* A second compensation of a dispute, under whatever key, meets the entry of
\* the first one.
LEMMA CompensateCommitsStep ==
  ASSUME NEW T, CallsTyped(T), PInvOf(T), NEW r \in Requests, NEW c, Knows(T, c), c.op = "compensate", CompensateCommits(r, c)
  PROVE  PInvOf(T)'
<1> DEFINE d == c.dispute
           to == Available(disputes[d].user)
           biz == Id(d)
<1>1. CASE Throws(r, "still open") \/ Throws(r, "error")
  BY <1>1, ThrowsStep
<1>2. CASE /\ c.key \notin DOMAIN compensations
           /\ Fresh(ledger, <<"COMPENSATION", Id(d), Available(Mint)>>)
           /\ compensations' = Insert(compensations, c.key, d)
           /\ Post("COMPENSATION", Id(d), Available(Mint), to, Compensation)
           /\ disputes' = [disputes EXCEPT ![d].status = "RESOLVED"]
           /\ Notify("DISPUTE", d)
           /\ Answers(r, "resolved")
           /\ UNCHANGED <<payments, refunds, ops>>
  <2>1. d \in DOMAIN disputes /\ disputes[d] \in DisputeType
    BY LenProperties, ElementOfSeq DEF PInvOf, RowsTyped, Knows
  <2>2. disputes[d].user \in Business /\ [disputes[d] EXCEPT !.status = "RESOLVED"] \in DisputeType
    BY <2>1 DEF DisputeType
  <2>3. /\ disputes' \in Seq(DisputeType)
        /\ DOMAIN disputes' = DOMAIN disputes
        /\ disputes'[d] = [disputes[d] EXCEPT !.status = "RESOLVED"]
        /\ \A j \in DOMAIN disputes : j # d => disputes'[j] = disputes[j]
    BY <1>2, <2>1, <2>2, StatusOfRow DEF PInvOf, RowsTyped
  <2>4. /\ disputes'[d].status = "RESOLVED"
        /\ \A j \in DOMAIN disputes : disputes'[j].payment = disputes[j].payment
    BY <2>1, <2>3 DEF DisputeType
  <2>5. disputes[d].status # "RESOLVED"
    BY <1>2, <2>1 DEF PInvOf, EntriesMatchRows, Fresh
  <2>6. \A a : <<"COMPENSATION", biz, a>> \notin DOMAIN ledger
    BY <2>5 DEF PInvOf, EntriesMatchRows
  <2>7. /\ to \in Account /\ Available(Mint) \in Account /\ Available(Mint) # to /\ Compensation \in Nat
        /\ Available(Mint)[1] = Mint
    BY <2>2, AccountsType, PaymentsAssumption DEF Available
  <2> HIDE DEF d, to, biz
  <2>8. Post("COMPENSATION", biz, Available(Mint), to, Compensation)
    BY <1>2 DEF biz
  <2>9. /\ SoundBooks(balance', ledger')
        /\ DOMAIN ledger' = DOMAIN ledger \cup {<<"COMPENSATION", biz, Available(Mint)>>,
                                                <<"COMPENSATION", biz, to>>}
    BY <2>6, <2>7, <2>8, PostKeepsBooks DEF PInvOf
  <2>10. EntriesMatchRows'
    <3>1. \A type, m, a : <<type, m, a>> \in DOMAIN ledger' =>
            <<type, m, a>> \in DOMAIN ledger \/ (type = "COMPENSATION" /\ m = biz)
      BY <2>9
    <3>2. \A m : Id(m) = biz => m = d
      BY DEF Id, biz
    <3>3. \A m, a : <<"COMPENSATION", Id(m), a>> \in DOMAIN ledger' =>
            m \in DOMAIN disputes' /\ disputes'[m].status = "RESOLVED"
      <4>1. ASSUME NEW m, NEW a, <<"COMPENSATION", Id(m), a>> \in DOMAIN ledger
            PROVE  m \in DOMAIN disputes /\ disputes[m].status = "RESOLVED" /\ m # d
        BY <2>5, <4>1 DEF PInvOf, EntriesMatchRows
      <4>2. \A m, a : <<"COMPENSATION", Id(m), a>> \in DOMAIN ledger' =>
              <<"COMPENSATION", Id(m), a>> \in DOMAIN ledger \/ m = d
        BY <3>1, <3>2
      <4> QED BY <2>1, <2>3, <2>4, <4>1, <4>2
    <3>4. \A e \in DOMAIN disputes' : disputes'[e].status = "RESOLVED" =>
            <<"COMPENSATION", Id(e), Available(Mint)>> \in DOMAIN ledger'
      <4>1. <<"COMPENSATION", Id(d), Available(Mint)>> \in DOMAIN ledger'
        BY <2>9 DEF biz
      <4>2. ASSUME NEW e \in DOMAIN disputes, e # d, disputes'[e].status = "RESOLVED"
            PROVE  <<"COMPENSATION", Id(e), Available(Mint)>> \in DOMAIN ledger'
        BY <2>3, <2>9, <4>2 DEF PInvOf, EntriesMatchRows
      <4> QED BY <2>3, <4>1, <4>2
    <3> QED BY <1>2, <2>9, <3>1, <3>3, <3>4 DEF PInvOf, EntriesMatchRows
  <2>11. CallsKnow(T)'
    BY <1>2, <2>3, OthersStillKnow DEF PInvOf, RowsStay
  <2>12. /\ DOMAIN compensations' = DOMAIN compensations \cup {c.key}
         /\ compensations'[c.key] = d
         /\ \A k \in DOMAIN compensations : compensations'[k] = compensations[k]
    BY <1>2 DEF Insert
  <2>13. CompensatedOnce'
    <3>1. \A k \in DOMAIN compensations : compensations[k] # d
      BY <2>1, <2>5 DEF PInvOf, CompensatedOnce
    <3>2. \A k, l \in DOMAIN compensations' : compensations'[k] = compensations'[l] => k = l
      BY <2>12, <3>1 DEF PInvOf, CompensatedOnce
    <3>3. ASSUME NEW e \in DOMAIN disputes, e # d
          PROVE  /\ disputes'[e].status = "RESOLVED" <=> disputes[e].status = "RESOLVED"
                 /\ (\E k \in DOMAIN compensations' : compensations'[k] = e)
                      <=> (\E k \in DOMAIN compensations : compensations[k] = e)
      BY <2>3, <2>12, <3>3
    <3>4. \E k \in DOMAIN compensations' : compensations'[k] = d
      BY <2>12
    <3>5. \A e \in DOMAIN disputes' :
            disputes'[e].status = "RESOLVED" <=> \E k \in DOMAIN compensations' : compensations'[k] = e
      BY <2>3, <2>4, <3>3, <3>4 DEF PInvOf, CompensatedOnce
    <3> QED BY <3>2, <3>5 DEF CompensatedOnce
  <2>14. DOMAIN notices' = DOMAIN notices \cup {<<"DISPUTE", d>>}
         /\ \A k \in DOMAIN notices' : notices'[k] \in {"PENDING", "SENT"}
    BY <1>2 DEF Notify, Insert, PInvOf, RowsTyped
  <2>15. Resolved' = Resolved \cup {d}
    BY <2>1, <2>3, <2>4 DEF Resolved
  <2>16. Notified'
    BY <1>2, <2>14, <2>15 DEF PInvOf, Notified
  <2>17. RowsTyped(T)'
    BY <1>2, <2>1, <2>3, <2>4, <2>12, <2>14 DEF PInvOf, RowsTyped
  <2> QED BY <1>2, <2>9, <2>10, <2>11, <2>13, <2>16, <2>17 DEF PInvOf, RefundedOnce
<1> QED BY <1>1, <1>2 DEF CompensateCommits

LEMMA FinishesStep ==
  ASSUME NEW T, CallsTyped(T), PInvOf(T), NEW r \in Requests, Finishes(r)
  PROVE  PInvOf(T)'
<1> DEFINE c == request[r].call
           seen == request[r].seen
<1>1. Knows(T, c)
  BY DEF Finishes, PInvOf, CallsKnow
<1>2. CASE c.op = "recharge" /\ RechargeCommits(r, c, seen)
  <2> HIDE DEF c, seen
  <2> QED BY <1>1, <1>2, RechargeCommitsStep
<1>3. CASE c.op = "callback" /\ CallbackCommits(r, c, seen)
  <2> HIDE DEF c, seen
  <2> QED BY <1>1, <1>3, CallbackCommitsStep
<1>4. CASE c.op = "refund" /\ RefundCommits(r, c)
  <2> HIDE DEF c
  <2> QED BY <1>1, <1>4, RefundCommitsStep
<1>5. CASE c.op = "dispute" /\ DisputeCommits(r, c)
  <2> HIDE DEF c
  <2> QED BY <1>1, <1>5, DisputeCommitsStep
<1>6. CASE c.op = "compensate" /\ CompensateCommits(r, c)
  <2> HIDE DEF c
  <2> QED BY <1>1, <1>6, CompensateCommitsStep
<1> QED BY <1>2, <1>3, <1>4, <1>5, <1>6 DEF Finishes

\* Nothing changes but what the payments do not look at.
LEMMA PauseStep ==
  ASSUME NEW T, PInvOf(T), UNCHANGED vars
  PROVE  PInvOf(T)'
BY DEF vars, rows, PInvOf, SoundBooks, Books, RowsTyped, CallsKnow, Knows, EntriesMatchRows, RefundedOnce,
   CompensatedOnce, Notified, Resolved

\* Whatever the application does with the calls of T keeps the invariant.
LEMMA AnyStep ==
  ASSUME NEW T, CallsTyped(T), PInvOf(T),
         \/ \E r \in Requests : (\E c \in T : Begins(r, c)) \/ Finishes(r) \/ Dies(r)
         \/ \E k \in DOMAIN notices : MarkSent(k)
         \/ \E u \in Business : Spends(u)
         \/ UNCHANGED vars
  PROVE  PInvOf(T)'
<1>1. ASSUME NEW r \in Requests, NEW c \in T, Begins(r, c)
      PROVE  PInvOf(T)'
  BY <1>1, BeginsStep
<1>2. ASSUME NEW r \in Requests, Finishes(r)
      PROVE  PInvOf(T)'
  BY <1>2, FinishesStep
<1>3. ASSUME NEW r \in Requests, Dies(r)
      PROVE  PInvOf(T)'
  BY <1>3, ThrowsStep DEF Dies
<1>4. ASSUME NEW k \in DOMAIN notices, MarkSent(k)
      PROVE  PInvOf(T)'
  BY <1>4, MarkSentStep
<1>5. ASSUME NEW u \in Business, Spends(u)
      PROVE  PInvOf(T)'
  BY <1>5, SpendsStep
<1>6. CASE UNCHANGED vars
  BY <1>6, PauseStep
<1> QED BY <1>1, <1>2, <1>3, <1>4, <1>5, <1>6

LEMMA StepKeepsInv ==
  ASSUME PInv, [Next]_vars
  PROVE  PInv'
<1>1. CallsTyped(Traffic)
  BY PaymentsAssumption DEF CallsTyped
<1> QED BY <1>1, AnyStep DEF PInv, Next

LEMMA InitPInv == ASSUME NEW T, Init PROVE PInvOf(T)
<1> USE DEF Init
<1>1. balance = [a \in Account |-> 0] /\ DOMAIN ledger = {}
  OBVIOUS
<1>2. LedgerOK(ledger)
  BY <1>1, FS_EmptySet DEF LedgerOK
<1>3. Match(balance, ledger)
  <2>1. \A a : EntriesOf(ledger, a) = {}
    BY <1>1 DEF EntriesOf
  <2> QED BY <2>1, SumEmpty DEF Match
<1>4. SumFunction(ledger) = 0 /\ \A a \in Account : balance[a] = 0
  BY <1>1, SumEmpty DEF SumFunction
<1>5. /\ payments \in Seq(PaymentTypeOf(T)) /\ refunds \in Seq(RefundTypeOf(T)) /\ disputes \in Seq(DisputeType)
      /\ DOMAIN payments = {} /\ DOMAIN refunds = {} /\ DOMAIN disputes = {}
  OBVIOUS
<1>6. CallsKnow(T)
  BY DEF CallsKnow
<1> QED BY <1>1, <1>2, <1>3, <1>4, <1>5, <1>6 DEF PInvOf, SoundBooks, Books, RowsTyped, EntriesMatchRows, RefundedOnce,
           CompensatedOnce, Notified, Resolved

\* The invariant from which the rest follows.
THEOREM PaymentsInvariant == Spec => []PInv
<1>1. Init => PInv
  BY InitPInv DEF PInv
<1> QED BY <1>1, StepKeepsInv, PTL DEF Spec

-------------------------------------------------------------------------------
\* At most one element satisfies the condition, so there are as many as it says.
LEMMA OneOrNone ==
  ASSUME NEW S, \A x, y \in S : x = y, NEW some, some <=> S # {}
  PROVE  Cardinality(S) = IF some THEN 1 ELSE 0
<1>1. CASE S = {}
  BY <1>1, FS_EmptySet
<1>2. CASE S # {}
  <2>1. PICK x \in S : TRUE
    BY <1>2
  <2>2. S = {x}
    BY <2>1
  <2> QED BY <1>2, <2>2, FS_Singleton
<1> QED BY <1>1, <1>2

LEMMA InvImplies ==
  ASSUME NEW T, PInvOf(T)
  PROVE  BalancesMatchLedger /\ LedgerSumsToZero /\ OnlyMintNegative /\ RowsAgree
<1>1. LedgerSumsToZero /\ OnlyMintNegative
  BY DEF PInvOf, SoundBooks, LedgerSumsToZero, OnlyMintNegative
<1>2. BalancesMatchLedger
  BY DEF PInvOf, SoundBooks, Books, Match, BalancesMatchLedger
<1>3. ASSUME NEW i \in DOMAIN payments
      PROVE  Cardinality({j \in DOMAIN refunds : refunds[j].payment = i})
               = IF payments[i].status = "REFUNDED" THEN 1 ELSE 0
  <2> DEFINE its == {j \in DOMAIN refunds : refunds[j].payment = i}
             back == payments[i].status = "REFUNDED"
  <2>1. \A j, k \in its : j = k
    BY DEF PInvOf, RefundedOnce
  <2>2. back <=> its # {}
    BY DEF PInvOf, RefundedOnce
  <2> HIDE DEF its, back
  <2>3. Cardinality(its) = IF back THEN 1 ELSE 0
    BY <2>1, <2>2, OneOrNone
  <2> QED BY <2>3 DEF its, back
<1>4. ASSUME NEW d \in DOMAIN disputes
      PROVE  Cardinality({k \in DOMAIN compensations : compensations[k] = d})
               = IF disputes[d].status = "RESOLVED" THEN 1 ELSE 0
  <2> DEFINE its == {k \in DOMAIN compensations : compensations[k] = d}
             done == disputes[d].status = "RESOLVED"
  <2>1. \A j, k \in its : j = k
    BY DEF PInvOf, CompensatedOnce
  <2>2. done <=> its # {}
    BY DEF PInvOf, CompensatedOnce
  <2> HIDE DEF its, done
  <2>3. Cardinality(its) = IF done THEN 1 ELSE 0
    BY <2>1, <2>2, OneOrNone
  <2> QED BY <2>3 DEF its, done
<1>5. RowsAgree
  BY <1>3, <1>4 DEF PInvOf, Notified, Resolved, RowsAgree
<1> QED BY <1>1, <1>2, <1>5

\* The rows keep their types, and the ids in them refer to rows that exist.
THEOREM PaymentsTyping == Spec => []TypeOK
<1>1. PInv => TypeOK
  BY DEF PInv, PInvOf, SoundBooks, Books, LedgerOK, RowsTyped, CallsKnow, Knows, TypeOK,
     PaymentTypeOf, PaymentType, RefundTypeOf, RefundType, CallsIn, CallsOf
<1> QED BY <1>1, PaymentsInvariant, PTL

\* INV-1 and INV-4: the ledger sums to zero, and only the mint is overdrawn.
THEOREM PaymentsSumToZero == Spec => [](LedgerSumsToZero /\ OnlyMintNegative)
<1>1. PInv => LedgerSumsToZero /\ OnlyMintNegative
  BY InvImplies DEF PInv
<1> QED BY <1>1, PaymentsInvariant, PTL

\* INV-2 of the recon report: every balance is the sum of its account's
\* entries, whatever recharges, callbacks, refunds and compensations commit.
THEOREM PaymentBooks == Spec => []BalancesMatchLedger
<1>1. PInv => BalancesMatchLedger
  BY InvImplies DEF PInv
<1> QED BY <1>1, PaymentsInvariant, PTL

\* A payment is REFUNDED exactly if it has a refund, a dispute RESOLVED exactly
\* if it has a compensation, neither has two, and every event is notified.
THEOREM TablesAgree == Spec => []RowsAgree
<1>1. PInv => RowsAgree
  BY InvImplies DEF PInv
<1> QED BY <1>1, PaymentsInvariant, PTL

-------------------------------------------------------------------------------
(***************************************************************************)
(* The requests implement PaymentLifecycle.  A payment has a provider id   *)
(* and an idempotency key of its own; a key that no payment has is that of *)
(* a recharge; and nobody's frozen money is negative, so a refund that the *)
(* available balance covers is covered by all that the user has.           *)
(***************************************************************************)

KeysApart ==
  /\ \A i, j \in DOMAIN payments : payments[i].pid = payments[j].pid => i = j
  /\ \A i \in DOMAIN payments : PaymentKey(payments[i].event) \in DOMAIN ops
  /\ \A k \in DOMAIN ops :
       \/ \E i \in DOMAIN payments : PaymentKey(payments[i].event) = k
       \/ \E d \in CallsOf("recharge") : d.key = k /\ ops[k] = <<d.user, d.amount>>

FrozenCovered == \A u \in Business : balance[Frozen(u)] >= 0

LInv == PInv /\ KeysApart /\ FrozenCovered

LifecycleStep == [Lifecycle!Next]_(Lifecycle!vars)

\* What a transfer means for what its users have.
LEMMA WealthMoves ==
  ASSUME balance \in [Account -> Int], FrozenCovered, NEW u \in Business, NEW amount \in Nat,
         NEW type, NEW biz
  PROVE  /\ Post(type, biz, Available(Mint), Available(u), amount) =>
              Wealth' = [Wealth EXCEPT ![u] = @ + amount] /\ FrozenCovered'
         /\ Post(type, biz, Available(u), Available(Mint), amount) =>
              Wealth' = [Wealth EXCEPT ![u] = @ + (-amount)] /\ FrozenCovered'
         /\ Post(type, biz, Available(u), Frozen(u), amount) => Wealth' = Wealth /\ FrozenCovered'
<1>1. /\ \A v \in Business : v # Mint /\ Available(v) \in Account /\ Frozen(v) \in Account
      /\ Available(Mint) \in Account
  BY AccountsType
<1>2. /\ \A v \in Business : balance[Available(v)] \in Int /\ balance[Frozen(v)] \in Int
      /\ -amount \in Int
  BY <1>1
<1>3. /\ \A v, w : Available(v) # Frozen(w)
      /\ \A v, w : Available(v) = Available(w) => v = w
      /\ \A v, w : Frozen(v) = Frozen(w) => v = w
  BY DEF Available, Frozen
<1>4. ASSUME Post(type, biz, Available(Mint), Available(u), amount)
      PROVE  Wealth' = [Wealth EXCEPT ![u] = @ + amount] /\ FrozenCovered'
  <2>1. /\ balance'[Available(u)] = balance[Available(u)] + amount
        /\ \A v \in Business : v # u => balance'[Available(v)] = balance[Available(v)]
        /\ \A v \in Business : balance'[Frozen(v)] = balance[Frozen(v)]
    BY <1>1, <1>2, <1>3, <1>4 DEF Post, Change
  <2>2. \A v \in Business : balance'[Available(v)] + balance'[Frozen(v)]
          = IF v = u THEN (balance[Available(v)] + balance[Frozen(v)]) + amount
            ELSE balance[Available(v)] + balance[Frozen(v)]
    BY <1>2, <2>1
  <2>3. Wealth' = [Wealth EXCEPT ![u] = @ + amount]
    BY <2>2 DEF Wealth
  <2> QED BY <2>1, <2>3 DEF FrozenCovered
<1>5. ASSUME Post(type, biz, Available(u), Available(Mint), amount)
      PROVE  Wealth' = [Wealth EXCEPT ![u] = @ + (-amount)] /\ FrozenCovered'
  <2>1. /\ balance'[Available(u)] = balance[Available(u)] + (-amount)
        /\ \A v \in Business : v # u => balance'[Available(v)] = balance[Available(v)]
        /\ \A v \in Business : balance'[Frozen(v)] = balance[Frozen(v)]
    BY <1>1, <1>2, <1>3, <1>5 DEF Post, Change
  <2>2. \A v \in Business : balance'[Available(v)] + balance'[Frozen(v)]
          = IF v = u THEN (balance[Available(v)] + balance[Frozen(v)]) + (-amount)
            ELSE balance[Available(v)] + balance[Frozen(v)]
    BY <1>2, <2>1
  <2>3. Wealth' = [Wealth EXCEPT ![u] = @ + (-amount)]
    BY <2>2 DEF Wealth
  <2> QED BY <2>1, <2>3 DEF FrozenCovered
<1>6. ASSUME Post(type, biz, Available(u), Frozen(u), amount)
      PROVE  Wealth' = Wealth /\ FrozenCovered'
  <2>1. /\ balance'[Available(u)] = balance[Available(u)] + (-amount)
        /\ balance'[Frozen(u)] = balance[Frozen(u)] + amount
        /\ \A v \in Business : v # u => balance'[Available(v)] = balance[Available(v)]
        /\ \A v \in Business : v # u => balance'[Frozen(v)] = balance[Frozen(v)]
    BY <1>1, <1>2, <1>3, <1>6 DEF Post, Change
  <2>2. \A v \in Business : balance'[Available(v)] + balance'[Frozen(v)]
          = balance[Available(v)] + balance[Frozen(v)]
    BY <1>2, <2>1
  <2>3. FrozenCovered'
    BY <1>2, <2>1 DEF FrozenCovered
  <2> QED BY <2>2, <2>3 DEF Wealth
<1> QED BY <1>4, <1>5, <1>6

\* Each provider id shows the user and amount of its payment; table stands for
\* the payments before or after a step.
LEMMA CreditedOfTable ==
  ASSUME NEW table, \A i, j \in DOMAIN table : table[i].pid = table[j].pid => i = j,
         NEW credited,
         credited = [pid \in {table[i].pid : i \in DOMAIN table} |->
           [user |-> table[CHOOSE i \in DOMAIN table : table[i].pid = pid].user,
            amount |-> table[CHOOSE i \in DOMAIN table : table[i].pid = pid].amount]]
  PROVE  /\ DOMAIN credited = {table[i].pid : i \in DOMAIN table}
         /\ \A i \in DOMAIN table :
              credited[table[i].pid] = [user |-> table[i].user, amount |-> table[i].amount]
<1>1. ASSUME NEW i \in DOMAIN table
      PROVE  credited[table[i].pid] = [user |-> table[i].user, amount |-> table[i].amount]
  <2> DEFINE found == CHOOSE j \in DOMAIN table : table[j].pid = table[i].pid
  <2>1. found = i
    OBVIOUS
  <2>2. credited[table[i].pid] = [user |-> table[found].user, amount |-> table[found].amount]
    OBVIOUS
  <2> QED BY <2>1, <2>2
<1> QED BY <1>1

LEMMA CreditedOf ==
  ASSUME KeysApart
  PROVE  /\ DOMAIN Credited = {payments[i].pid : i \in DOMAIN payments}
         /\ \A i \in DOMAIN payments :
              Credited[payments[i].pid] = [user |-> payments[i].user, amount |-> payments[i].amount]
BY CreditedOfTable DEF KeysApart, Credited, PaymentWith

LEMMA CreditedNext ==
  ASSUME KeysApart'
  PROVE  /\ DOMAIN Credited' = {payments'[i].pid : i \in DOMAIN payments'}
         /\ \A i \in DOMAIN payments' :
              Credited'[payments'[i].pid] = [user |-> payments'[i].user, amount |-> payments'[i].amount]
BY CreditedOfTable DEF KeysApart, Credited, PaymentWith

\* Steps that write to no table the lifecycle looks at.
LEMMA QuietStep ==
  ASSUME LInv, UNCHANGED <<payments, ops>>, Resolved' = Resolved, Wealth' = Wealth, FrozenCovered'
  PROVE  KeysApart' /\ FrozenCovered' /\ LifecycleStep
<1>1. KeysApart'
  BY DEF LInv, KeysApart
<1>2. UNCHANGED <<Wealth, Deposits, Credited, Returned, Resolved>>
  BY DEF Deposits, Credited, PaymentWith, Returned
<1> QED BY <1>1, <1>2 DEF LifecycleStep, Lifecycle!vars

LEMMA SameBooksStep ==
  ASSUME LInv, UNCHANGED <<balance, payments, ops>>, Resolved' = Resolved
  PROVE  KeysApart' /\ FrozenCovered' /\ LifecycleStep
<1>1. Wealth' = Wealth /\ FrozenCovered'
  BY DEF LInv, Wealth, FrozenCovered
<1> QED BY <1>1, QuietStep

\* A recharge under a key of the client's own is a deposit.
LEMMA RechargeIsDeposit ==
  ASSUME LInv, NEW r \in Requests, NEW c, Knows(Traffic, c), c.op = "recharge", NEW seen,
         RechargeCommits(r, c, seen)
  PROVE  KeysApart' /\ FrozenCovered' /\ LifecycleStep
<1> DEFINE start == Start(c, c.key, seen)
<1>1. CASE start # "new"
  <2>1. UNCHANGED <<balance, payments, disputes, ops>>
    BY <1>1 DEF RechargeCommits, Recharge, Throws, rows
  <2> QED BY <2>1, SameBooksStep DEF Resolved
<1>2. CASE start = "new"
  <2>1. /\ Post("RECHARGE", c.key, Available(Mint), Available(c.user), c.amount)
        /\ ops' = Insert(ops, c.key, <<c.user, c.amount>>)
        /\ UNCHANGED <<payments, disputes>>
        /\ c.key \notin DOMAIN ops
    BY <1>2 DEF RechargeCommits, Recharge, Start
  <2>2. c.user \in Business /\ c.amount \in Nat \ {0} /\ c \in CallsOf("recharge")
    BY PaymentsAssumption DEF Knows, CallsOf
  <2>3. Wealth' = [Wealth EXCEPT ![c.user] = @ + c.amount] /\ FrozenCovered'
    BY <2>1, <2>2, WealthMoves DEF LInv, PInv, PInvOf, SoundBooks, Books
  <2>4. /\ DOMAIN ops' = DOMAIN ops \cup {c.key}
        /\ ops'[c.key] = <<c.user, c.amount>>
        /\ \A k \in DOMAIN ops : ops'[k] = ops[k]
    BY <2>1 DEF Insert
  <2>5. KeysApart'
    BY <2>1, <2>2, <2>4 DEF LInv, KeysApart
  <2>6. c.key \notin {PaymentKey(payments[i].event) : i \in DOMAIN payments}
    BY <2>1 DEF LInv, KeysApart
  <2> DEFINE d == [key |-> c.key, user |-> c.user, amount |-> c.amount]
             keys == DOMAIN ops \ {PaymentKey(payments[i].event) : i \in DOMAIN payments}
             keys2 == DOMAIN ops' \ {PaymentKey(payments'[i].event) : i \in DOMAIN payments'}
  <2>7. Deposits' = Deposits \cup {d} /\ d \notin Deposits
    <3>1. keys2 = keys \cup {c.key} /\ c.key \notin keys
      BY <2>1, <2>4, <2>6
    <3>2. /\ Deposits = {[key |-> k, user |-> ops[k][1], amount |-> ops[k][2]] : k \in keys}
          /\ Deposits' = {[key |-> k, user |-> ops'[k][1], amount |-> ops'[k][2]] : k \in keys2}
      BY DEF Deposits
    <3>3. ops'[c.key][1] = c.user /\ ops'[c.key][2] = c.amount /\ \A k \in keys : ops'[k] = ops[k]
      BY <2>4
    <3> HIDE DEF keys, keys2
    <3> QED BY <3>1, <3>2, <3>3
  <2>8. UNCHANGED <<Credited, Returned, Resolved>>
    BY <2>1 DEF Credited, PaymentWith, Returned, Resolved
  <2>9. d.user \in Business /\ d.amount > 0 /\ Lifecycle!Pays(d.user, d.amount)
    BY <2>2, <2>3 DEF Lifecycle!Pays
  <2>10. Lifecycle!Deposit
    BY <2>7, <2>8, <2>9 DEF Lifecycle!Deposit
  <2> QED BY <2>3, <2>5, <2>10 DEF LifecycleStep, Lifecycle!Next
<1> QED BY <1>1, <1>2

\* A callback that commits settles a payment that was not there before, under
\* whatever event or provider id: it credits it, or takes a recharge over that was
\* made under its key.
LEMMA CallbackSettles ==
  ASSUME LInv, NEW r \in Requests, NEW c, Knows(Traffic, c), c.op = "callback", NEW seen,
         CallbackCommits(r, c, seen)
  PROVE  KeysApart' /\ FrozenCovered' /\ LifecycleStep
<1> DEFINE key == PaymentKey(c.event)
           start == Start(c, key, seen)
           row == [pid |-> c.pid, event |-> c.event, user |-> c.user, amount |-> c.amount,
                   status |-> "SETTLED"]
           n == Len(payments) + 1
<1>1. CASE Throws(r, "error") \/ Throws(r, start)
  <2>1. UNCHANGED <<balance, payments, disputes, ops>>
    BY <1>1 DEF Throws, rows
  <2> QED BY <2>1, SameBooksStep DEF Resolved
<1>2. CASE /\ ~PaymentExists(c)
           /\ start \in {"new", "replay"}
           /\ payments' = Append(payments, row)
           /\ Recharge(c, key, start)
           /\ UNCHANGED <<refunds, disputes, compensations>>
  <2>1. c.user \in Business /\ c.amount \in Nat \ {0} /\ c \in CallsOf("callback") /\ c \in CallsIn(Traffic, "callback")
    BY PaymentsAssumption DEF Knows, CallsOf, CallsIn
  <2>2. row \in PaymentTypeOf(Traffic)
    BY <2>1 DEF PaymentTypeOf
  <2>3. /\ DOMAIN payments' = DOMAIN payments \cup {n}
        /\ n \notin DOMAIN payments
        /\ payments'[n] = row
        /\ \A i \in DOMAIN payments : payments'[i] = payments[i]
    BY <1>2, <2>2, AppendRow DEF LInv, PInv, PInvOf, RowsTyped
  <2>4. \A i \in DOMAIN payments : payments[i].event # c.event /\ payments[i].pid # c.pid
    BY <1>2 DEF PaymentExists, WithEvent, WithProviderId
  <2>5. \A i \in DOMAIN payments : PaymentKey(payments[i].event) # key
    BY <2>4 DEF PaymentKey
  <2>6. /\ start = "new" => key \notin DOMAIN ops
        /\ start = "replay" => key \in DOMAIN ops /\ ops[key] = <<c.user, c.amount>>
    BY DEF Start
  <2>7. start = "new" => /\ Post("RECHARGE", key, Available(Mint), Available(c.user), c.amount)
                         /\ ops' = Insert(ops, key, <<c.user, c.amount>>)
    BY <1>2 DEF Recharge
  <2>8. /\ start = "new" => Wealth' = [Wealth EXCEPT ![c.user] = @ + c.amount]
        /\ start = "replay" => Wealth' = Wealth /\ UNCHANGED ops
        /\ FrozenCovered'
    <3>1. CASE start = "new"
      BY <2>1, <2>7, <3>1, WealthMoves DEF LInv, PInv, PInvOf, SoundBooks, Books
    <3>2. CASE start = "replay"
      <4>1. UNCHANGED <<balance, ops>>
        BY <1>2, <3>2 DEF Recharge
      <4> QED BY <3>2, <4>1 DEF Wealth, FrozenCovered, LInv
    <3> QED BY <1>2, <3>1, <3>2
  <2>9. /\ DOMAIN ops' = DOMAIN ops \cup {key}
        /\ \A k \in DOMAIN ops : ops'[k] = ops[k]
    <3>1. CASE start = "new"
      BY <2>6, <2>7, <3>1 DEF Insert
    <3>2. CASE start = "replay"
      BY <2>6, <2>8, <3>2
    <3> QED BY <1>2, <3>1, <3>2
  <2>10. payments'[n].pid = c.pid /\ payments'[n].event = c.event /\ payments'[n].user = c.user
         /\ payments'[n].amount = c.amount /\ payments'[n].status = "SETTLED"
    BY <2>3
  <2> HIDE DEF n, key, row
  <2>11. KeysApart'
    <3>1. \A i, j \in DOMAIN payments' : payments'[i].pid = payments'[j].pid => i = j
      BY <2>3, <2>4, <2>10 DEF LInv, KeysApart
    <3>2. \A i \in DOMAIN payments' : PaymentKey(payments'[i].event) \in DOMAIN ops'
      BY <2>3, <2>9, <2>10 DEF LInv, KeysApart, key
    <3>3. \A k \in DOMAIN ops' :
            \/ \E i \in DOMAIN payments' : PaymentKey(payments'[i].event) = k
            \/ \E d \in CallsOf("recharge") : d.key = k /\ ops'[k] = <<d.user, d.amount>>
      <4>1. PaymentKey(payments'[n].event) = key
        BY <2>10 DEF key
      <4> QED BY <2>3, <2>9, <4>1 DEF LInv, KeysApart
    <3> QED BY <3>1, <3>2, <3>3 DEF KeysApart
  <2> DEFINE d == [key |-> key, user |-> c.user, amount |-> c.amount]
             keys == DOMAIN ops \ {PaymentKey(payments[i].event) : i \in DOMAIN payments}
             keys2 == DOMAIN ops' \ {PaymentKey(payments'[i].event) : i \in DOMAIN payments'}
  <2>12. /\ start = "new" => Deposits' = Deposits
         /\ start = "replay" => d \in Deposits /\ Deposits' = Deposits \ {d}
    <3>1. {PaymentKey(payments'[i].event) : i \in DOMAIN payments'}
            = {PaymentKey(payments[i].event) : i \in DOMAIN payments} \cup {key}
      BY <2>3, <2>10 DEF key
    <3>2. keys2 = keys \ {key} /\ (key \in keys <=> key \in DOMAIN ops)
      <4>1. key \notin {PaymentKey(payments[i].event) : i \in DOMAIN payments}
        BY <2>5 DEF key
      <4> QED BY <2>9, <3>1, <4>1
    <3>3. /\ Deposits = {[key |-> k, user |-> ops[k][1], amount |-> ops[k][2]] : k \in keys}
          /\ Deposits' = {[key |-> k, user |-> ops'[k][1], amount |-> ops'[k][2]] : k \in keys2}
      BY DEF Deposits
    <3>4. \A k \in keys2 : ops'[k] = ops[k]
      BY <2>9, <3>2
    <3> HIDE DEF keys, keys2, start
    <3>5. Deposits' = {[key |-> k, user |-> ops[k][1], amount |-> ops[k][2]] : k \in keys2}
      BY <3>3, <3>4
    <3>6. CASE start = "new"
      <4>1. keys2 = keys
        BY <2>6, <3>2, <3>6
      <4> QED BY <3>3, <3>5, <3>6, <4>1
    <3>7. CASE start = "replay"
      <4>1. key \in keys /\ ops[key][1] = c.user /\ ops[key][2] = c.amount
        BY <2>6, <3>2, <3>7
      <4> QED BY <3>2, <3>3, <3>5, <3>7, <4>1
    <3> QED BY <3>6, <3>7
  <2>13. Returned' = Returned
    BY <2>3, <2>10 DEF Returned
  <2>14. Resolved' = Resolved
    BY <1>2 DEF Resolved
  <2>15. /\ c.pid \in DOMAIN Credited' \ DOMAIN Credited
         /\ DOMAIN Credited' = DOMAIN Credited \cup {c.pid}
         /\ Credited'[c.pid] = [user |-> c.user, amount |-> c.amount]
    <3>1. DOMAIN Credited = {payments[i].pid : i \in DOMAIN payments}
      BY DEF Credited
    <3>2. DOMAIN Credited' = {payments'[i].pid : i \in DOMAIN payments'}
      BY DEF Credited
    <3>3. Credited'[c.pid] = [user |-> c.user, amount |-> c.amount]
      BY <2>3, <2>10, <2>11, CreditedNext
    <3>4. c.pid \notin DOMAIN Credited
      BY <2>4, <3>1
    <3> QED BY <2>3, <2>10, <3>1, <3>2, <3>3, <3>4
  <2>16. Restrict(Credited', DOMAIN Credited) = Credited
    <3>1. ASSUME NEW i \in DOMAIN payments
          PROVE  Credited'[payments[i].pid] = Credited[payments[i].pid]
      <4>1. i \in DOMAIN payments' /\ payments'[i] = payments[i]
        BY <2>3
      <4>2. Credited'[payments'[i].pid] = [user |-> payments'[i].user, amount |-> payments'[i].amount]
        BY <2>11, <4>1, CreditedNext
      <4>3. Credited[payments[i].pid] = [user |-> payments[i].user, amount |-> payments[i].amount]
        BY CreditedOf DEF LInv
      <4> QED BY <4>1, <4>2, <4>3
    <3>2. \A p \in DOMAIN Credited : Credited'[p] = Credited[p]
      BY <3>1 DEF Credited
    <3>3. Credited = [p \in DOMAIN Credited |-> Credited[p]]
      BY DEF Credited
    <3> QED BY <3>2, <3>3 DEF Restrict
  <2>17. \/ Lifecycle!Pays(Credited'[c.pid].user, Credited'[c.pid].amount) /\ UNCHANGED Deposits
         \/ /\ d \in Deposits
            /\ d.user = Credited'[c.pid].user /\ d.amount = Credited'[c.pid].amount
            /\ Deposits' = Deposits \ {d}
            /\ UNCHANGED Wealth
    <3>1. CASE start = "new"
      BY <2>8, <2>12, <2>15, <3>1 DEF Lifecycle!Pays
    <3>2. CASE start = "replay"
      BY <2>8, <2>12, <2>15, <3>2
    <3> QED BY <1>2, <3>1, <3>2
  <2>18. Lifecycle!Settle
    BY <2>13, <2>14, <2>15, <2>16, <2>17 DEF Lifecycle!Settle, Lifecycle!Restrict, Restrict
  <2> QED BY <2>8, <2>11, <2>18 DEF LifecycleStep, Lifecycle!Next
<1> QED BY <1>1, <1>2 DEF CallbackCommits

\* A refund that commits takes back all of a payment that was not refunded.
LEMMA RefundReturns ==
  ASSUME LInv, NEW r \in Requests, NEW c, Knows(Traffic, c), c.op = "refund", RefundCommits(r, c)
  PROVE  KeysApart' /\ FrozenCovered' /\ LifecycleStep
<1> DEFINE p == payments[c.payment]
           biz == Id(Len(refunds'))
<1>1. CASE Throws(r, "error") \/ Throws(r, "insufficient")
  <2>1. UNCHANGED <<balance, payments, disputes, ops>>
    BY <1>1 DEF Throws, rows
  <2> QED BY <2>1, SameBooksStep DEF Resolved
<1>2. CASE /\ ~RefundExists(c)
           /\ Covers(balance, Available(p.user), p.amount)
           /\ Post("REFUND", biz, Available(p.user), Available(Mint), RefundAmount(p))
           /\ MarkRefunded(c.payment)
           /\ UNCHANGED <<disputes, compensations, ops>>
  <2>1. c.payment \in DOMAIN payments /\ p \in PaymentTypeOf(Traffic)
    BY LenProperties, ElementOfSeq DEF LInv, PInv, PInvOf, RowsTyped, Knows
  <2>2. p.user \in Business /\ p.amount \in Nat /\ [p EXCEPT !.status = "REFUNDED"] \in PaymentTypeOf(Traffic)
    BY <2>1 DEF PaymentTypeOf
  <2>3. p.status # "REFUNDED"
    BY <1>2, <2>1 DEF LInv, PInv, PInvOf, RefundedOnce, RefundExists
  <2>4. /\ DOMAIN payments' = DOMAIN payments
        /\ payments'[c.payment] = [p EXCEPT !.status = "REFUNDED"]
        /\ \A j \in DOMAIN payments : j # c.payment => payments'[j] = payments[j]
    BY <1>2, <2>1, <2>2, StatusOfRow DEF MarkRefunded, LInv, PInv, PInvOf, RowsTyped
  <2>5. /\ payments'[c.payment].status = "REFUNDED"
        /\ \A i \in DOMAIN payments :
             /\ payments'[i].pid = payments[i].pid
             /\ payments'[i].event = payments[i].event
             /\ payments'[i].user = payments[i].user
             /\ payments'[i].amount = payments[i].amount
    BY <2>1, <2>4 DEF PaymentTypeOf
  <2>6. Post("REFUND", biz, Available(p.user), Available(Mint), p.amount)
    BY <1>2 DEF RefundAmount
  <2> HIDE DEF p, biz
  <2>7. Wealth' = [Wealth EXCEPT ![p.user] = @ + (-p.amount)] /\ FrozenCovered'
    BY <2>2, <2>6, WealthMoves DEF LInv, PInv, PInvOf, SoundBooks, Books
  <2>8. KeysApart'
    BY <1>2, <2>4, <2>5 DEF LInv, KeysApart
  <2>9. Deposits' = Deposits
    BY <1>2, <2>4, <2>5 DEF Deposits
  <2>10. Resolved' = Resolved
    BY <1>2 DEF Resolved
  <2>11. Credited' = Credited
    <3>1. DOMAIN Credited = {payments[i].pid : i \in DOMAIN payments}
          /\ DOMAIN Credited' = {payments'[i].pid : i \in DOMAIN payments'}
      BY DEF Credited
    <3>2. DOMAIN Credited' = DOMAIN Credited
      BY <2>4, <2>5, <3>1
    <3>3. ASSUME NEW i \in DOMAIN payments
          PROVE  Credited'[payments[i].pid] = Credited[payments[i].pid]
      <4>1. Credited'[payments'[i].pid] = [user |-> payments'[i].user, amount |-> payments'[i].amount]
        BY <2>4, <2>8, CreditedNext
      <4>2. Credited[payments[i].pid] = [user |-> payments[i].user, amount |-> payments[i].amount]
        BY CreditedOf DEF LInv
      <4> QED BY <2>5, <4>1, <4>2
    <3>4. \A pid \in DOMAIN Credited : Credited'[pid] = Credited[pid]
      BY <3>1, <3>3
    <3>5. /\ Credited = [pid \in DOMAIN Credited |-> Credited[pid]]
          /\ Credited' = [pid \in DOMAIN Credited' |-> Credited'[pid]]
      BY DEF Credited
    <3> QED BY <3>2, <3>4, <3>5
  <2>12. Returned' = Returned \cup {p.pid}
    <3> DEFINE back == {j \in DOMAIN payments : payments[j].status = "REFUNDED"}
               back2 == {j \in DOMAIN payments' : payments'[j].status = "REFUNDED"}
    <3>1. back2 = back \cup {c.payment} /\ p.pid = payments[c.payment].pid
      <4>1. \A j \in DOMAIN payments : j # c.payment => (j \in back2 <=> j \in back)
        BY <2>4
      <4>2. c.payment \in back2 /\ back \subseteq DOMAIN payments /\ back2 \subseteq DOMAIN payments
        BY <2>1, <2>4, <2>5
      <4> HIDE DEF back, back2
      <4>3. \A j : j \in back2 <=> j \in back \cup {c.payment}
        BY <4>1, <4>2
      <4> QED BY <4>3 DEF p
    <3>2. Returned = {payments[i].pid : i \in back} /\ Returned' = {payments'[i].pid : i \in back2}
      BY DEF Returned
    <3>3. \A i \in back2 : payments'[i].pid = payments[i].pid
      BY <2>4, <2>5
    <3> HIDE DEF back, back2
    <3> QED BY <3>1, <3>2, <3>3
  <2>13. p.pid \in DOMAIN Credited \ Returned
    <3>1. p.pid \in DOMAIN Credited
      BY <2>1 DEF Credited, p
    <3>2. p.pid \notin Returned
      BY <2>1, <2>3 DEF Returned, LInv, KeysApart, p
    <3> QED BY <3>1, <3>2
  <2>14. Credited[p.pid].user = p.user /\ Credited[p.pid].amount = p.amount
    <3>1. Credited[payments[c.payment].pid] =
            [user |-> payments[c.payment].user, amount |-> payments[c.payment].amount]
      BY <2>1, CreditedOf DEF LInv
    <3> QED BY <3>1 DEF p
  <2>15. Wealth[p.user] >= p.amount
    <3>1. Wealth[p.user] = balance[Available(p.user)] + balance[Frozen(p.user)]
      BY <2>2 DEF Wealth
    <3>2. balance[Available(p.user)] \in Int /\ balance[Frozen(p.user)] \in Int
      BY <2>2, AccountsType DEF LInv, PInv, PInvOf, SoundBooks, Books
    <3>3. balance[Available(p.user)] >= p.amount /\ balance[Frozen(p.user)] >= 0
      BY <1>2, <2>2 DEF Covers, LInv, FrozenCovered, p
    <3> QED BY <2>2, <3>1, <3>2, <3>3
  <2>16. Lifecycle!Pays(Credited[p.pid].user, -Credited[p.pid].amount)
    BY <2>7, <2>14 DEF Lifecycle!Pays
  <2>17. Lifecycle!Refund
    BY <2>9, <2>10, <2>11, <2>12, <2>13, <2>14, <2>15, <2>16 DEF Lifecycle!Refund
  <2> QED BY <2>7, <2>8, <2>17 DEF LifecycleStep, Lifecycle!Next
<1> QED BY <1>1, <1>2 DEF RefundCommits

\* A compensation that commits resolves a dispute that was open, and pays once.
LEMMA CompensationPays ==
  ASSUME LInv, NEW r \in Requests, NEW c, Knows(Traffic, c), c.op = "compensate", CompensateCommits(r, c)
  PROVE  KeysApart' /\ FrozenCovered' /\ LifecycleStep
<1> DEFINE d == c.dispute
           u == disputes[d].user
<1>1. CASE Throws(r, "still open") \/ Throws(r, "error")
  <2>1. UNCHANGED <<balance, payments, disputes, ops>>
    BY <1>1 DEF Throws, rows
  <2> QED BY <2>1, SameBooksStep DEF Resolved
<1>2. CASE /\ Fresh(ledger, <<"COMPENSATION", Id(d), Available(Mint)>>)
           /\ Post("COMPENSATION", Id(d), Available(Mint), Available(u), Compensation)
           /\ disputes' = [disputes EXCEPT ![d].status = "RESOLVED"]
           /\ UNCHANGED <<payments, refunds, ops>>
  <2>1. d \in DOMAIN disputes /\ disputes[d] \in DisputeType
    BY LenProperties, ElementOfSeq DEF LInv, PInv, PInvOf, RowsTyped, Knows
  <2>2. u \in Business /\ [disputes[d] EXCEPT !.status = "RESOLVED"] \in DisputeType
    BY <2>1 DEF DisputeType
  <2>3. /\ DOMAIN disputes' = DOMAIN disputes
        /\ disputes'[d] = [disputes[d] EXCEPT !.status = "RESOLVED"]
        /\ \A j \in DOMAIN disputes : j # d => disputes'[j] = disputes[j]
    BY <1>2, <2>1, <2>2, StatusOfRow DEF LInv, PInv, PInvOf, RowsTyped
  <2>4. disputes'[d].status = "RESOLVED"
    BY <2>1, <2>3 DEF DisputeType
  <2>5. disputes[d].status # "RESOLVED"
    BY <1>2, <2>1 DEF LInv, PInv, PInvOf, EntriesMatchRows, Fresh
  <2>6. Compensation \in Nat
    BY PaymentsAssumption
  <2> HIDE DEF d, u
  <2>7. Wealth' = [Wealth EXCEPT ![u] = @ + Compensation] /\ FrozenCovered'
    BY <1>2, <2>2, <2>6, WealthMoves DEF LInv, PInv, PInvOf, SoundBooks, Books
  <2>8. KeysApart'
    BY <1>2 DEF LInv, KeysApart
  <2>9. UNCHANGED <<Deposits, Credited, Returned>>
    BY <1>2 DEF Deposits, Credited, PaymentWith, Returned
  <2>10. Resolved' = Resolved \cup {d} /\ d \notin Resolved
    BY <2>1, <2>3, <2>4, <2>5 DEF Resolved
  <2>11. Lifecycle!Compensate
    BY <2>2, <2>7, <2>9, <2>10 DEF Lifecycle!Compensate, Lifecycle!Pays
  <2> QED BY <2>7, <2>8, <2>11 DEF LifecycleStep, Lifecycle!Next
<1> QED BY <1>1, <1>2 DEF CompensateCommits

LEMMA DisputeOpens ==
  ASSUME LInv, NEW r \in Requests, NEW c, DisputeCommits(r, c), PInv'
  PROVE  KeysApart' /\ FrozenCovered' /\ LifecycleStep
<1> DEFINE row == [payment |-> c.payment, user |-> c.user, status |-> "OPEN"]
<1>1. disputes' = Append(disputes, row) /\ UNCHANGED <<balance, payments, ops>>
  BY DEF DisputeCommits
<1>2. Len(disputes) \in Nat /\ DOMAIN disputes = 1 .. Len(disputes)
  BY LenProperties DEF LInv, PInv, PInvOf, RowsTyped
<1>3. /\ DOMAIN disputes' = DOMAIN disputes \cup {Len(disputes) + 1}
      /\ disputes'[Len(disputes) + 1] = row
      /\ \A i \in DOMAIN disputes : disputes'[i] = disputes[i]
  BY <1>1, <1>2
<1>4. row.status = "OPEN"
  OBVIOUS
<1>5. Resolved' = Resolved
  BY <1>3, <1>4 DEF Resolved
<1> QED BY <1>1, <1>5, SameBooksStep

LEMMA StepIsLifecycleStep ==
  ASSUME LInv, [Next]_vars
  PROVE  LInv' /\ LifecycleStep
<1>1. PInv'
  BY StepKeepsInv DEF LInv
<1>2. ASSUME NEW r \in Requests, Finishes(r)
      PROVE  KeysApart' /\ FrozenCovered' /\ LifecycleStep
  <2> DEFINE c == request[r].call
             seen == request[r].seen
  <2>1. Knows(Traffic, c)
    BY <1>2 DEF Finishes, LInv, PInv, PInvOf, CallsKnow
  <2>2. \/ c.op = "recharge" /\ RechargeCommits(r, c, seen)
        \/ c.op = "callback" /\ CallbackCommits(r, c, seen)
        \/ c.op = "refund" /\ RefundCommits(r, c)
        \/ c.op = "dispute" /\ DisputeCommits(r, c)
        \/ c.op = "compensate" /\ CompensateCommits(r, c)
    BY <1>2 DEF Finishes
  <2> HIDE DEF c, seen
  <2> QED BY <1>1, <2>1, <2>2, RechargeIsDeposit, CallbackSettles, RefundReturns, DisputeOpens,
             CompensationPays
<1>3. ASSUME NEW r \in Requests, NEW c \in Traffic, Begins(r, c)
      PROVE  UNCHANGED <<balance, payments, ops, disputes>>
  BY <1>3 DEF Begins, RechargeReads, CallbackReads, RefundReads, DisputeReads, CompensateReads, Reads, rows
<1>4. ASSUME NEW r \in Requests, Dies(r)
      PROVE  UNCHANGED <<balance, payments, ops, disputes>>
  BY <1>4 DEF Dies, Throws, rows
<1>5. ASSUME NEW k \in DOMAIN notices, MarkSent(k)
      PROVE  UNCHANGED <<balance, payments, ops, disputes>>
  BY <1>5 DEF MarkSent
<1>6. CASE UNCHANGED <<balance, payments, ops, disputes>>
  <2>1. KeysApart' /\ FrozenCovered' /\ LifecycleStep
    BY <1>6, SameBooksStep DEF Resolved
  <2> QED BY <1>1, <2>1 DEF LInv
<1>7. ASSUME NEW u \in Business, Spends(u)
      PROVE  KeysApart' /\ FrozenCovered' /\ LifecycleStep
  <2>1. /\ Post("FREEZE", <<"ORDER", u>>, Available(u), Frozen(u), Spending)
        /\ UNCHANGED <<payments, ops, disputes>>
    BY <1>7 DEF Spends, rows
  <2>2. Wealth' = Wealth /\ FrozenCovered'
    BY <2>1, WealthMoves, PaymentsAssumption DEF LInv, PInv, PInvOf, SoundBooks, Books
  <2> QED BY <2>1, <2>2, QuietStep DEF Resolved
<1>8. CASE UNCHANGED vars
  BY <1>6, <1>8 DEF vars, rows
<1> QED BY <1>1, <1>2, <1>3, <1>4, <1>5, <1>6, <1>7, <1>8 DEF Next, LInv

LEMMA InitLInv == Init => LInv /\ Lifecycle!Init
<1> SUFFICES ASSUME Init PROVE LInv /\ Lifecycle!Init
  OBVIOUS
<1>1. PInv
  BY InitPInv DEF PInv
<1>2. /\ balance = [a \in Account |-> 0] /\ payments = <<>> /\ disputes = <<>>
      /\ DOMAIN ops = {} /\ DOMAIN payments = {} /\ DOMAIN disputes = {}
  BY DEF Init
<1>3. KeysApart
  BY <1>2 DEF KeysApart
<1>4. FrozenCovered
  BY <1>2, AccountsType DEF FrozenCovered
<1>5. Wealth = [u \in Business |-> 0]
  BY <1>2, AccountsType DEF Wealth
<1>6. Deposits = {} /\ Returned = {} /\ Resolved = {}
  BY <1>2 DEF Deposits, Returned, Resolved
<1>7. Credited = [p \in {} |-> [user |-> "", amount |-> 0]]
  <2>1. {payments[i].pid : i \in DOMAIN payments} = {}
    BY <1>2
  <2> QED BY <2>1 DEF Credited
<1> QED BY <1>1, <1>3, <1>4, <1>5, <1>6, <1>7 DEF LInv, Lifecycle!Init

\* Whatever is retried, reordered or sent twice at once, and whatever key a recharge
\* takes, a provider payment is settled once and refunded once and a dispute is
\* compensated once, each by a transaction that moves exactly that money; a payment
\* that finds its recharge made moves none, and uses that recharge up.
THEOREM PaymentsImplementLifecycle == Spec => MoneyMovesOnce
<1>1. Init => LInv /\ Lifecycle!Init
  BY InitLInv
<1>2. LInv /\ [Next]_vars => LInv' /\ [Lifecycle!Next]_(Lifecycle!vars)
  BY StepIsLifecycleStep DEF LifecycleStep
<1> QED BY <1>1, <1>2, PTL DEF Spec, MoneyMovesOnce, Lifecycle!Spec
-------------------------------------------------------------------------------
(***************************************************************************)
(* The replay of PaymentReplay.  As long as the script makes its calls,    *)
(* nobody else can touch what its user owns, so the rows, keys, entries    *)
(* and money of that user are, after each call, what the calls so far      *)
(* make of them: Own says what that is.  Each call of the plan is answered *)
(* as expected in the state the one before left, and one that waits for    *)
(* its commit still finds that state then.  While the script deletes its   *)
(* rows the tables no longer agree, and all that is claimed is that the    *)
(* wallet stays as it is.                                                  *)
(***************************************************************************)

ScriptCalls ==
  [op : {"callback"}, pid : OwnPids, event : OwnEvents, user : {Subject}, amount : {Amount, Amount + 1},
   signed : BOOLEAN]
  \cup [op : {"refund"}, payment : Nat, key : {"refund", "second_refund"}, user : {Subject}, amount : {Amount}]
  \cup [op : {"dispute"}, payment : Nat, user : {Subject}]
  \cup [op : {"compensate"}, dispute : Nat, key : {"compensation"}]

AllCalls == Traffic \cup ScriptCalls

\* The answers that count as right.
Right ==
  <<"ok", "ok", "conflict", "unauthorized", "ok", "ok", "ok", "ok", "ok", "ok", "illegal", "ok", "resolved", "resolved">>

\* The provider ids that are credited before call n, each by its event.
Paid(n) ==
  (IF n > 1 THEN {<<"primary", "primary">>} ELSE {})
  \cup (IF n > 5 THEN {<<"normal", "normal_original">>} ELSE {})
  \cup (IF n > 7 THEN {<<"reverse", "reverse_late">>} ELSE {})

Worth(n) ==
  CASE n > 13 -> 2 * Amount + Compensation
    [] n > 9 /\ n <= 13 -> 2 * Amount
    [] n > 7 /\ n <= 9 -> 3 * Amount
    [] n > 5 /\ n <= 7 -> 2 * Amount
    [] n > 1 /\ n <= 5 -> Amount
    [] OTHER -> 0

OwnPayments(n) ==
  /\ \A i \in DOMAIN payments :
       payments[i].user = Subject \/ payments[i].pid \in OwnPids \/ payments[i].event \in OwnEvents =>
         /\ <<payments[i].pid, payments[i].event>> \in Paid(n)
         /\ payments[i].user = Subject
         /\ payments[i].amount = Amount
  /\ \A p \in Paid(n) : \E i \in DOMAIN payments : payments[i].pid = p[1]
  /\ \A i, j \in DOMAIN payments :
       payments[i].user = Subject /\ payments[i].pid = payments[j].pid => i = j

OwnOps(n) ==
  \A e \in OwnEvents : PaymentKey(e) \in DOMAIN ops => \E p \in Paid(n) : p[2] = e

OwnRefunds(n) ==
  /\ \A j \in DOMAIN refunds :
       refunds[j].key \in OwnKeys \/ payments[refunds[j].payment].user = Subject =>
         n > 9 /\ refunds[j].key = "refund" /\ payments[refunds[j].payment].pid = "primary"
  /\ n > 9 => \E j \in DOMAIN refunds : refunds[j].key = "refund"

OwnDisputes(n) ==
  /\ \A d, e \in Mine(disputes) : d = e
  /\ Mine(disputes) # {} <=> n > 12
  /\ \A d \in Mine(disputes) : disputes[d].status = "RESOLVED" <=> n > 13
  /\ "compensation" \in DOMAIN compensations => n > 13

OwnRecharges == {k \in DOMAIN ledger : k[1] = "RECHARGE" /\ k[3][1] = Subject}
Compensations(d) == {k \in DOMAIN ledger : k[1] = "COMPENSATION" /\ k[2] = Id(d)}

OwnEntries(n) ==
  /\ \A k \in DOMAIN ledger : k = <<k[1], k[2], k[3]>>
  /\ OwnRecharges = {<<"RECHARGE", PaymentKey(p[2]), Available(Subject)>> : p \in Paid(n)}
  /\ n > 13 => \A d \in Mine(disputes) :
       Compensations(d) = {<<"COMPENSATION", Id(d), Available(u)>> : u \in {Mint, Subject}}

\* What the user of the run owns before call n.
Own(n) ==
  /\ OwnPayments(n)
  /\ OwnOps(n)
  /\ OwnRefunds(n)
  /\ OwnDisputes(n)
  /\ OwnEntries(n)
  /\ balance[Available(Subject)] = Worth(n)

\* The requests of the others are about rows of others.
OthersKnow ==
  \A r \in Requests \ {Client} : request[r].state = "begun" =>
    LET c == request[r].call
    IN  /\ c \in Traffic
        /\ c.op = "refund" => payments[c.payment].user # Subject
        /\ c.op = "compensate" => disputes[c.dispute].user # Subject

\* Rows before and after they were deleted.
AnyPayment ==
  [pid : {c.pid : c \in CallsIn(AllCalls, "callback")},
   event : {c.event : c \in CallsIn(AllCalls, "callback")},
   user : Business, amount : Nat \ {0}, status : {"SETTLED", "REFUNDED", "DELETED"}]
AnyDispute == [payment : Nat, user : Business, status : {"OPEN", "RESOLVED", "DELETED"}]

\* What keeps others away from the wallet of the run's user, at any time.
Apart ==
  /\ CallsKnow(AllCalls)
  /\ OthersKnow
  /\ payments \in Seq(AnyPayment)
  /\ refunds \in Seq(RefundTypeOf(AllCalls))
  /\ disputes \in Seq(AnyDispute)
  /\ DOMAIN balance = Account

\* The calls that get as far as their commit, by their place in the plan.
Committing(n, c) ==
  \/ n = 1 /\ c = Webhook("primary", "primary", Amount, TRUE)
  \/ n = 5 /\ c = Webhook("normal", "normal_original", Amount, TRUE)
  \/ n = 7 /\ c = Webhook("reverse", "reverse_late", Amount, TRUE)
  \/ n = 9 /\ c.op = "refund" /\ c.key = "refund" /\ payments[c.payment].pid = "primary"
  \/ n = 12 /\ c.op = "dispute" /\ c.user = Subject
  \/ n = 13 /\ c.op = "compensate" /\ c.key = "compensation" /\ c.dispute \in Mine(disputes)

\* What a user has frozen is what her open order is worth.
FrozenForOrders ==
  \A u \in Users : balance[Frozen(u)] = IF u \in OpenOrders THEN Spending ELSE 0

\* Where call n of the script stands.
Stands(n) ==
  LET answer == request[Client].state
  IN  \/ ~waiting /\ answer # "begun" /\ Own(n)
      \/ waiting /\ n \in 1 .. 14 /\ answer = "begun" /\ Committing(n, request[Client].call) /\ Own(n)
      \/ waiting /\ n \in 1 .. 14 /\ answer = Right[n] /\ Own(n + 1)
      \/ waiting /\ answer = "lost"

\* Before the script cleans up.
Calling ==
  /\ PInvOf(AllCalls)
  /\ FrozenForOrders
  /\ verdict = "open"
  /\ \/ step = "setup" /\ turn = 1 /\ ~waiting
     \/ step = "calls" /\ turn \in 1 .. 14
     \/ step \in {"recon", "counts"} /\ turn = 15 /\ ~waiting
  /\ \A n \in 1 .. 15 : n = turn => Stands(n)

\* And then: the wallet stays as it is until its row is deleted.
Cleaning ==
  /\ step = "cleanup"
  /\ ~waiting
  /\ request[Client].state # "begun"
  /\ verdict = "passed" => balance[Available(Subject)] = 2 * Amount + Compensation

RInv ==
  /\ asExpected \/ excused
  /\ verdict = "failed" => excused
  /\ \/ Apart /\ (Calling \/ Cleaning)
     \/ step = "end"

LEMMA CallsAreTyped == CallsTyped(AllCalls) /\ Traffic \subseteq AllCalls
<1>1. /\ Amount \in Nat \ {0} /\ Amount + 1 \in Nat \ {0}
      /\ CallsTyped(Traffic)
  BY PaymentsAssumption, PaymentReplayAssumption DEF CallsTyped
<1> QED BY <1>1 DEF CallsTyped, AllCalls, ScriptCalls

\* What an action of others may do to the tables.
Elsewhere ==
  /\ \A i \in DOMAIN payments :
       /\ i \in DOMAIN payments'
       /\ payments'[i].pid = payments[i].pid
       /\ payments'[i].event = payments[i].event
       /\ payments'[i].user = payments[i].user
       /\ payments'[i].amount = payments[i].amount
  /\ \A i \in DOMAIN payments' : i \in DOMAIN payments \/
       /\ payments'[i].user # Subject
       /\ payments'[i].pid \notin OwnPids
       /\ payments'[i].event \notin OwnEvents
  /\ \A k \in DOMAIN ops' : k \in DOMAIN ops \/ \A e \in OwnEvents : k # PaymentKey(e)
  /\ \A j \in DOMAIN refunds : j \in DOMAIN refunds' /\ refunds'[j] = refunds[j]
  /\ \A j \in DOMAIN refunds' : j \in DOMAIN refunds \/
       /\ refunds'[j].key \notin OwnKeys
       /\ refunds'[j].payment \in DOMAIN payments
       /\ payments[refunds'[j].payment].user # Subject
  /\ \A d \in DOMAIN disputes : d \in DOMAIN disputes' /\ disputes'[d].user = disputes[d].user
  /\ \A d \in DOMAIN disputes' : d \in DOMAIN disputes \/ disputes'[d].user # Subject
  /\ \A d \in Mine(disputes) : disputes'[d] = disputes[d]
  /\ "compensation" \in DOMAIN compensations' => "compensation" \in DOMAIN compensations
  /\ \A k \in DOMAIN ledger : k \in DOMAIN ledger'
  /\ \A k \in DOMAIN ledger' : k \in DOMAIN ledger \/
       /\ k = <<k[1], k[2], k[3]>>
       /\ k[1] = "RECHARGE" => k[3][1] # Subject
       /\ k[1] = "COMPENSATION" => \A d \in Mine(disputes) : k[2] # Id(d)
  /\ balance'[Available(Subject)] = balance[Available(Subject)]

LEMMA PaidPairs ==
  ASSUME NEW n, NEW p \in Paid(n)
  PROVE  /\ p[1] \in OwnPids /\ p[2] \in OwnEvents
         /\ \/ p[1] = "primary" /\ p[2] = "primary"
            \/ p[1] = "normal" /\ p[2] = "normal_original"
            \/ p[1] = "reverse" /\ p[2] = "reverse_late"
<1>1. \/ p = <<"primary", "primary">>
      \/ p = <<"normal", "normal_original">>
      \/ p = <<"reverse", "reverse_late">>
  BY DEF Paid
<1>2. CASE p = <<"primary", "primary">>
  BY <1>2 DEF OwnPids, OwnEvents
<1>3. CASE p = <<"normal", "normal_original">>
  BY <1>3 DEF OwnPids, OwnEvents
<1>4. CASE p = <<"reverse", "reverse_late">>
  BY <1>4 DEF OwnPids, OwnEvents
<1> QED BY <1>1, <1>2, <1>3, <1>4

\* So it leaves alone what the run's user owns.
LEMMA OwnStays ==
  ASSUME NEW n, Own(n), Elsewhere, \A j \in DOMAIN refunds : refunds[j].payment \in DOMAIN payments
  PROVE  Own(n)'
<1>1. OwnPayments(n)'
  <2>1. ASSUME NEW i \in DOMAIN payments',
               payments'[i].user = Subject \/ payments'[i].pid \in OwnPids \/ payments'[i].event \in OwnEvents
        PROVE  /\ i \in DOMAIN payments
               /\ payments[i].user = Subject \/ payments[i].pid \in OwnPids \/ payments[i].event \in OwnEvents
               /\ <<payments'[i].pid, payments'[i].event>> = <<payments[i].pid, payments[i].event>>
               /\ payments'[i].user = payments[i].user /\ payments'[i].amount = payments[i].amount
    BY <2>1 DEF Elsewhere
  <2>2. \A i \in DOMAIN payments' :
          payments'[i].user = Subject \/ payments'[i].pid \in OwnPids \/ payments'[i].event \in OwnEvents =>
            /\ <<payments'[i].pid, payments'[i].event>> \in Paid(n)
            /\ payments'[i].user = Subject
            /\ payments'[i].amount = Amount
    BY <2>1 DEF Own, OwnPayments
  <2>3. \A p \in Paid(n) : \E i \in DOMAIN payments' : payments'[i].pid = p[1]
    BY DEF Own, OwnPayments, Elsewhere
  <2>4. \A p \in Paid(n) : p[1] \in OwnPids
    BY PaidPairs
  <2>5. \A i, j \in DOMAIN payments' :
          payments'[i].user = Subject /\ payments'[i].pid = payments'[j].pid => i = j
    <3> SUFFICES ASSUME NEW i \in DOMAIN payments', NEW j \in DOMAIN payments',
                        payments'[i].user = Subject, payments'[i].pid = payments'[j].pid
                 PROVE  i = j
      OBVIOUS
    <3>1. payments'[j].pid \in OwnPids
      BY <2>2, <2>4
    <3>2. i \in DOMAIN payments /\ j \in DOMAIN payments
      BY <2>1, <3>1
    <3> QED BY <3>2 DEF Own, OwnPayments, Elsewhere
  <2> QED BY <2>2, <2>3, <2>5 DEF OwnPayments
<1>2. OwnOps(n)'
  BY DEF Own, OwnOps, Elsewhere
<1>3. OwnRefunds(n)'
  <2>1. ASSUME NEW j \in DOMAIN refunds',
               refunds'[j].key \in OwnKeys \/ payments'[refunds'[j].payment].user = Subject
        PROVE  /\ n > 9 /\ refunds'[j].key = "refund"
               /\ payments'[refunds'[j].payment].pid = "primary"
    <3>1. j \in DOMAIN refunds /\ refunds'[j] = refunds[j] /\ refunds[j].payment \in DOMAIN payments
      BY <2>1 DEF Elsewhere
    <3>2. /\ payments'[refunds[j].payment].user = payments[refunds[j].payment].user
          /\ payments'[refunds[j].payment].pid = payments[refunds[j].payment].pid
      BY <3>1 DEF Elsewhere
    <3> QED BY <2>1, <3>1, <3>2 DEF Own, OwnRefunds
  <2>2. n > 9 => \E j \in DOMAIN refunds' : refunds'[j].key = "refund"
    BY DEF Own, OwnRefunds, Elsewhere
  <2> QED BY <2>1, <2>2 DEF OwnRefunds
<1>4. Mine(disputes)' = Mine(disputes)
  BY DEF Elsewhere, Mine
<1>5. OwnDisputes(n)'
  BY <1>4 DEF Own, OwnDisputes, Elsewhere, Mine
<1>6. OwnEntries(n)'
  <2>1. \A k \in DOMAIN ledger' : k = <<k[1], k[2], k[3]>>
    BY DEF Own, OwnEntries, Elsewhere
  <2>2. OwnRecharges' = OwnRecharges
    BY DEF OwnRecharges, Elsewhere
  <2>3. \A d \in Mine(disputes) : {k \in DOMAIN ledger' : k[1] = "COMPENSATION" /\ k[2] = Id(d)} = Compensations(d)
    BY DEF Compensations, Elsewhere
  <2>4. \A d \in Mine(disputes) : n > 13 =>
          {k \in DOMAIN ledger' : k[1] = "COMPENSATION" /\ k[2] = Id(d)}
             = {<<"COMPENSATION", Id(d), Available(u)>> : u \in {Mint, Subject}}
    BY <2>3 DEF Own, OwnEntries
  <2>5. OwnRecharges = {<<"RECHARGE", PaymentKey(p[2]), Available(Subject)>> : p \in Paid(n)}
    BY DEF Own, OwnEntries
  <2> QED BY <1>4, <2>1, <2>2, <2>4, <2>5 DEF OwnEntries, Compensations
<1>7. balance'[Available(Subject)] = Worth(n)
  BY DEF Own, Elsewhere
<1> QED BY <1>1, <1>2, <1>3, <1>5, <1>6, <1>7 DEF Own

LEMMA SubjectType ==
  /\ Subject \in Business /\ Subject # Mint /\ Subject \in Users
  /\ Available(Subject) \in Account
  /\ \A u : u # Subject => Available(u) # Available(Subject)
  /\ \A u : Frozen(u) # Available(Subject)
BY PaymentReplayAssumption, AccountsType DEF Available, Frozen

LEMMA PostElsewhere ==
  ASSUME DOMAIN balance = Account, NEW type, NEW biz, NEW from, NEW to, NEW amount,
         Post(type, biz, from, to, amount), from # Available(Subject), to # Available(Subject)
  PROVE  /\ DOMAIN balance' = Account
         /\ balance'[Available(Subject)] = balance[Available(Subject)]
         /\ DOMAIN ledger' = DOMAIN ledger \cup {<<type, biz, from>>, <<type, biz, to>>}
BY SubjectType DEF Post, Change, Insert

\* The users of rows never change, so a call goes on being about others' rows.
UsersStay ==
  /\ \A i \in DOMAIN payments : i \in DOMAIN payments' /\ payments'[i].user = payments[i].user
  /\ \A d \in DOMAIN disputes : d \in DOMAIN disputes' /\ disputes'[d].user = disputes[d].user

LEMMA ApartStays ==
  ASSUME Apart, UsersStay,
         payments' \in Seq(AnyPayment), refunds' \in Seq(RefundTypeOf(AllCalls)), disputes' \in Seq(AnyDispute),
         DOMAIN balance' = Account,
         \/ UNCHANGED request
         \/ \E r \in Requests : \E answer : answer # "begun" /\ Answers(r, answer)
  PROVE  Apart'
<1>1. /\ DOMAIN request' = Requests
      /\ \A q \in Requests : request'[q] = request[q] \/ request'[q].state # "begun"
  BY DEF Answers, Apart, CallsKnow
<1>2. ASSUME NEW q \in Requests, request'[q].state = "begun"
      PROVE  /\ request[q].state = "begun" /\ request'[q] = request[q]
             /\ Knows(AllCalls, request[q].call)
  BY <1>1, <1>2 DEF Apart, CallsKnow
<1>3. ASSUME NEW c, Knows(AllCalls, c)
      PROVE  Knows(AllCalls, c)'
  BY <1>3 DEF Knows, UsersStay
<1>4. CallsKnow(AllCalls)'
  BY <1>1, <1>2, <1>3 DEF CallsKnow
<1>5. OthersKnow'
  <2> SUFFICES ASSUME NEW q \in Requests \ {Client}, request'[q].state = "begun"
               PROVE  /\ request'[q].call \in Traffic
                      /\ request'[q].call.op = "refund" => payments'[request'[q].call.payment].user # Subject
                      /\ request'[q].call.op = "compensate" => disputes'[request'[q].call.dispute].user # Subject
    BY DEF OthersKnow
  <2> DEFINE c == request[q].call
  <2>1. request[q].state = "begun" /\ request'[q].call = c /\ Knows(AllCalls, c)
    BY <1>2
  <2>2. /\ c \in Traffic
        /\ c.op = "refund" => payments[c.payment].user # Subject
        /\ c.op = "compensate" => disputes[c.dispute].user # Subject
    BY <2>1 DEF Apart, OthersKnow
  <2>3. /\ c.op = "refund" => c.payment \in DOMAIN payments
        /\ c.op = "compensate" => c.dispute \in DOMAIN disputes
    BY <2>1 DEF Knows
  <2> HIDE DEF c
  <2> QED BY <2>1, <2>2, <2>3 DEF UsersStay
<1> QED BY <1>4, <1>5 DEF Apart

LEMMA PaymentRows ==
  ASSUME payments \in Seq(AnyPayment), NEW i \in DOMAIN payments
  PROVE  payments[i] \in AnyPayment /\ payments[i].user \in Business /\ payments[i].amount \in Nat \ {0} /\ i \in Nat
<1>1. payments[i] \in AnyPayment /\ i \in Nat
  BY LenProperties, ElementOfSeq
<1> QED BY <1>1 DEF AnyPayment

LEMMA DisputeRows ==
  ASSUME disputes \in Seq(AnyDispute), NEW d \in DOMAIN disputes
  PROVE  disputes[d] \in AnyDispute /\ disputes[d].user \in Business /\ d \in Nat
<1>1. disputes[d] \in AnyDispute /\ d \in Nat
  BY LenProperties, ElementOfSeq
<1> QED BY <1>1 DEF AnyDispute

\* An action of another request that writes nothing.
LEMMA QuietElsewhere ==
  ASSUME UNCHANGED <<balance, ledger, payments, refunds, disputes, compensations, ops>>
  PROVE  Elsewhere
BY DEF Elsewhere, Mine

LEMMA OthersAnswer ==
  ASSUME Apart, NEW r \in Requests \ {Client}, NEW answer, Answers(r, answer)
  PROVE  request'[Client] = request[Client]
BY PaymentReplayAssumption DEF Answers, Apart, CallsKnow

LEMMA OtherThrows ==
  ASSUME Apart, NEW r \in Requests \ {Client}, NEW answer, answer # "begun", Throws(r, answer)
  PROVE  Apart' /\ Elsewhere /\ request'[Client] = request[Client]
<1>1. UNCHANGED <<balance, ledger, payments, refunds, disputes, compensations, ops, notices>> /\ Answers(r, answer)
  BY DEF Throws, rows
<1>2. Elsewhere /\ request'[Client] = request[Client]
  BY <1>1, QuietElsewhere, OthersAnswer
<1>3. UsersStay
  BY <1>1 DEF UsersStay
<1>4. Apart'
  BY <1>1, <1>3, ApartStays DEF Apart
<1> QED BY <1>2, <1>4

\* What the recharge of another user writes.
LEMMA RechargeElsewhere ==
  ASSUME DOMAIN balance = Account, NEW c, c.user # Subject, NEW key, \A e \in OwnEvents : key # PaymentKey(e),
         NEW start, Recharge(c, key, start)
  PROVE  /\ DOMAIN balance' = Account
         /\ balance'[Available(Subject)] = balance[Available(Subject)]
         /\ \A k \in DOMAIN ops' : k \in DOMAIN ops \/ \A e \in OwnEvents : k # PaymentKey(e)
         /\ \A k \in DOMAIN ledger : k \in DOMAIN ledger'
         /\ \A k \in DOMAIN ledger' : k \in DOMAIN ledger \/
              /\ k = <<k[1], k[2], k[3]>>
              /\ k[1] = "RECHARGE" => k[3][1] # Subject
              /\ k[1] # "COMPENSATION"
<1>1. CASE start = "new"
  <2>1. Available(Mint) # Available(Subject) /\ Available(c.user) # Available(Subject)
    BY SubjectType
  <2>2. /\ DOMAIN balance' = Account
        /\ balance'[Available(Subject)] = balance[Available(Subject)]
        /\ DOMAIN ledger' = DOMAIN ledger \cup {<<"RECHARGE", key, Available(Mint)>>,
                                               <<"RECHARGE", key, Available(c.user)>>}
    BY <1>1, <2>1, PostElsewhere DEF Recharge
  <2>3. DOMAIN ops' = DOMAIN ops \cup {key}
    BY <1>1 DEF Recharge, Insert
  <2>4. Available(Mint)[1] # Subject /\ Available(c.user)[1] # Subject
    BY SubjectType DEF Available
  <2> QED BY <2>2, <2>3, <2>4
<1>2. CASE start # "new"
  BY <1>2 DEF Recharge
<1> QED BY <1>1, <1>2

LEMMA OtherRecharges ==
  ASSUME Apart, NEW r \in Requests \ {Client}, NEW c \in Traffic, c.op = "recharge", NEW seen,
         RechargeCommits(r, c, seen)
  PROVE  Apart' /\ Elsewhere /\ request'[Client] = request[Client]
<1> DEFINE start == Start(c, c.key, seen)
<1>1. start # "begun"
  BY DEF Start
<1>2. CASE Throws(r, start)
  BY <1>1, <1>2, OtherThrows
<1>3. CASE /\ Recharge(c, c.key, start)
           /\ Answers(r, "ok")
           /\ UNCHANGED <<payments, refunds, disputes, compensations, notices>>
  <2>1. c.user # Subject /\ \A e \in OwnEvents : c.key # PaymentKey(e)
    BY PaymentReplayAssumption
  <2> HIDE DEF start
  <2>2. /\ DOMAIN balance' = Account
        /\ balance'[Available(Subject)] = balance[Available(Subject)]
        /\ \A k \in DOMAIN ops' : k \in DOMAIN ops \/ \A e \in OwnEvents : k # PaymentKey(e)
        /\ \A k \in DOMAIN ledger : k \in DOMAIN ledger'
        /\ \A k \in DOMAIN ledger' : k \in DOMAIN ledger \/
             /\ k = <<k[1], k[2], k[3]>>
             /\ k[1] = "RECHARGE" => k[3][1] # Subject
             /\ k[1] # "COMPENSATION"
    BY <1>3, <2>1, RechargeElsewhere DEF Apart
  <2>3. Elsewhere
    BY <1>3, <2>2 DEF Elsewhere, Mine
  <2>4. UsersStay
    BY <1>3 DEF UsersStay
  <2>5. Apart'
    BY <1>3, <2>2, <2>4, ApartStays DEF Apart
  <2> QED BY <1>3, <2>3, <2>5, OthersAnswer
<1> QED BY <1>2, <1>3 DEF RechargeCommits

LEMMA OtherCallbacks ==
  ASSUME Apart, NEW r \in Requests \ {Client}, NEW c \in Traffic, c.op = "callback", Knows(AllCalls, c), NEW seen,
         CallbackCommits(r, c, seen)
  PROVE  Apart' /\ Elsewhere /\ request'[Client] = request[Client]
<1> DEFINE start == Start(c, PaymentKey(c.event), seen)
           row == [pid |-> c.pid, event |-> c.event, user |-> c.user, amount |-> c.amount,
                   status |-> "SETTLED"]
           n == Len(payments) + 1
<1>1. start # "begun"
  BY DEF Start
<1>2. CASE Throws(r, "error") \/ Throws(r, start)
  BY <1>1, <1>2, OtherThrows
<1>3. CASE /\ payments' = Append(payments, row)
           /\ Recharge(c, PaymentKey(c.event), start)
           /\ Answers(r, "ok")
           /\ UNCHANGED <<refunds, disputes, compensations>>
  <2>1. /\ c.user # Subject /\ c.pid \notin OwnPids /\ c.event \notin OwnEvents
        /\ \A e \in OwnEvents : PaymentKey(c.event) # PaymentKey(e)
    BY PaymentReplayAssumption DEF PaymentKey
  <2>2. row \in AnyPayment
    BY CallsAreTyped DEF AnyPayment, CallsIn, CallsTyped, Knows
  <2>3. /\ payments' \in Seq(AnyPayment)
        /\ DOMAIN payments' = DOMAIN payments \cup {n}
        /\ payments'[n] = row
        /\ \A i \in DOMAIN payments : payments'[i] = payments[i]
    BY <1>3, <2>2, AppendRow DEF Apart
  <2>4. payments'[n].user # Subject /\ payments'[n].pid \notin OwnPids /\ payments'[n].event \notin OwnEvents
    BY <2>1, <2>3
  <2> HIDE DEF start, n, row
  <2>5. /\ DOMAIN balance' = Account
        /\ balance'[Available(Subject)] = balance[Available(Subject)]
        /\ \A k \in DOMAIN ops' : k \in DOMAIN ops \/ \A e \in OwnEvents : k # PaymentKey(e)
        /\ \A k \in DOMAIN ledger : k \in DOMAIN ledger'
        /\ \A k \in DOMAIN ledger' : k \in DOMAIN ledger \/
             /\ k = <<k[1], k[2], k[3]>>
             /\ k[1] = "RECHARGE" => k[3][1] # Subject
             /\ k[1] # "COMPENSATION"
    BY <1>3, <2>1, RechargeElsewhere DEF Apart
  <2>6. Elsewhere
    BY <1>3, <2>3, <2>4, <2>5 DEF Elsewhere, Mine
  <2>7. UsersStay
    BY <1>3, <2>3 DEF UsersStay
  <2>8. Apart'
    BY <1>3, <2>3, <2>5, <2>7, ApartStays DEF Apart
  <2> QED BY <1>3, <2>6, <2>8, OthersAnswer
<1> QED BY <1>2, <1>3 DEF CallbackCommits

LEMMA OtherRefunds ==
  ASSUME Apart, NEW r \in Requests \ {Client}, NEW c \in Traffic, c.op = "refund", Knows(AllCalls, c),
         payments[c.payment].user # Subject, RefundCommits(r, c)
  PROVE  Apart' /\ Elsewhere /\ request'[Client] = request[Client]
<1> DEFINE p == payments[c.payment]
           row == [payment |-> c.payment, key |-> c.key]
           n == Len(refunds) + 1
<1>1. CASE Throws(r, "error") \/ Throws(r, "insufficient")
  BY <1>1, OtherThrows
<1>2. CASE /\ refunds' = Append(refunds, row)
           /\ Post("REFUND", Id(Len(refunds')), Available(p.user), Available(Mint), RefundAmount(p))
           /\ MarkRefunded(c.payment)
           /\ Answers(r, "ok")
           /\ UNCHANGED <<disputes, compensations, ops>>
  <2>1. c.payment \in DOMAIN payments /\ c.key \notin OwnKeys
    BY PaymentReplayAssumption DEF Knows
  <2>2. payments[c.payment] \in AnyPayment /\ c.payment \in Nat
    BY <2>1, PaymentRows DEF Apart
  <2>3. row \in RefundTypeOf(AllCalls)
    BY <2>2, CallsAreTyped DEF RefundTypeOf, CallsIn
  <2>4. /\ refunds' \in Seq(RefundTypeOf(AllCalls))
        /\ DOMAIN refunds' = DOMAIN refunds \cup {n}
        /\ refunds'[n] = row
        /\ \A j \in DOMAIN refunds : refunds'[j] = refunds[j]
    BY <1>2, <2>3, AppendRow DEF Apart
  <2>5. [p EXCEPT !.status = "REFUNDED"] \in AnyPayment
    BY <2>2 DEF AnyPayment
  <2>6. /\ payments' \in Seq(AnyPayment)
        /\ DOMAIN payments' = DOMAIN payments
        /\ payments'[c.payment] = [p EXCEPT !.status = "REFUNDED"]
        /\ \A i \in DOMAIN payments : i # c.payment => payments'[i] = payments[i]
    BY <1>2, <2>1, <2>5, StatusOfRow DEF Apart, MarkRefunded
  <2>7. \A i \in DOMAIN payments :
          /\ payments'[i].pid = payments[i].pid
          /\ payments'[i].event = payments[i].event
          /\ payments'[i].user = payments[i].user
          /\ payments'[i].amount = payments[i].amount
    BY <2>2, <2>6 DEF AnyPayment
  <2>8. /\ DOMAIN balance' = Account
        /\ balance'[Available(Subject)] = balance[Available(Subject)]
        /\ DOMAIN ledger' = DOMAIN ledger \cup {<<"REFUND", Id(Len(refunds')), Available(p.user)>>,
                                               <<"REFUND", Id(Len(refunds')), Available(Mint)>>}
    <3>1. Available(p.user) # Available(Subject) /\ Available(Mint) # Available(Subject)
      BY SubjectType
    <3> QED BY <1>2, <3>1, PostElsewhere DEF Apart
  <2>9. refunds'[n].key \notin OwnKeys /\ refunds'[n].payment = c.payment
    BY <2>1, <2>4
  <2> HIDE DEF n, row, p
  <2>10. Elsewhere
    BY <1>2, <2>1, <2>4, <2>6, <2>7, <2>8, <2>9 DEF Elsewhere, Mine
  <2>11. UsersStay
    BY <1>2, <2>6, <2>7 DEF UsersStay
  <2>12. Apart'
    BY <1>2, <2>4, <2>6, <2>8, <2>11, ApartStays DEF Apart
  <2> QED BY <1>2, <2>10, <2>12, OthersAnswer
<1> QED BY <1>1, <1>2 DEF RefundCommits

LEMMA OtherDisputes ==
  ASSUME Apart, NEW r \in Requests \ {Client}, NEW c \in Traffic, c.op = "dispute", Knows(AllCalls, c),
         DisputeCommits(r, c)
  PROVE  Apart' /\ Elsewhere /\ request'[Client] = request[Client]
<1> DEFINE row == [payment |-> c.payment, user |-> c.user, status |-> "OPEN"]
           n == Len(disputes) + 1
<1>1. /\ disputes' = Append(disputes, row)
      /\ Answers(r, "ok")
      /\ UNCHANGED <<balance, ledger, payments, refunds, compensations, ops, notices>>
  BY DEF DisputeCommits
<1>2. c.payment \in DOMAIN payments /\ payments[c.payment].user = c.user /\ c.user # Subject
  BY PaymentReplayAssumption DEF Knows
<1>3. row \in AnyDispute
  <2>1. c.payment \in Nat /\ c.user \in Business
    BY <1>2, PaymentRows DEF Apart
  <2> QED BY <2>1 DEF AnyDispute
<1>4. /\ disputes' \in Seq(AnyDispute)
      /\ DOMAIN disputes' = DOMAIN disputes \cup {n}
      /\ n \notin DOMAIN disputes
      /\ disputes'[n] = row
      /\ \A i \in DOMAIN disputes : disputes'[i] = disputes[i]
  BY <1>1, <1>3, AppendRow DEF Apart
<1>5. disputes'[n].user # Subject
  BY <1>2, <1>4
<1> HIDE DEF n, row
<1>6. Elsewhere
  BY <1>1, <1>4, <1>5 DEF Elsewhere, Mine
<1>7. UsersStay
  BY <1>1, <1>4 DEF UsersStay
<1>8. Apart'
  BY <1>1, <1>4, <1>7, ApartStays DEF Apart
<1> QED BY <1>1, <1>6, <1>8, OthersAnswer

LEMMA OtherCompensates ==
  ASSUME Apart, NEW r \in Requests \ {Client}, NEW c \in Traffic, c.op = "compensate", Knows(AllCalls, c),
         disputes[c.dispute].user # Subject, CompensateCommits(r, c)
  PROVE  Apart' /\ Elsewhere /\ request'[Client] = request[Client]
<1> DEFINE to == Available(disputes[c.dispute].user)
<1>1. CASE Throws(r, "still open") \/ Throws(r, "error")
  BY <1>1, OtherThrows
<1>2. CASE /\ compensations' = Insert(compensations, c.key, c.dispute)
           /\ Post("COMPENSATION", Id(c.dispute), Available(Mint), to, Compensation)
           /\ disputes' = [disputes EXCEPT ![c.dispute].status = "RESOLVED"]
           /\ Answers(r, "resolved")
           /\ UNCHANGED <<payments, refunds, ops>>
  <2>1. c.dispute \in DOMAIN disputes /\ c.key \notin OwnKeys
    BY PaymentReplayAssumption DEF Knows
  <2>2. disputes[c.dispute] \in AnyDispute
    BY <2>1, DisputeRows DEF Apart
  <2>3. [disputes[c.dispute] EXCEPT !.status = "RESOLVED"] \in AnyDispute
    BY <2>2 DEF AnyDispute
  <2>4. /\ disputes' \in Seq(AnyDispute)
        /\ DOMAIN disputes' = DOMAIN disputes
        /\ disputes'[c.dispute] = [disputes[c.dispute] EXCEPT !.status = "RESOLVED"]
        /\ \A d \in DOMAIN disputes : d # c.dispute => disputes'[d] = disputes[d]
    BY <1>2, <2>1, <2>3, StatusOfRow DEF Apart
  <2>5. disputes'[c.dispute].user = disputes[c.dispute].user
    BY <2>2, <2>4 DEF AnyDispute
  <2>6. c.dispute \notin Mine(disputes) /\ \A d \in Mine(disputes) : Id(d) # Id(c.dispute)
    BY DEF Mine, Id
  <2>7. /\ DOMAIN balance' = Account
        /\ balance'[Available(Subject)] = balance[Available(Subject)]
        /\ DOMAIN ledger' = DOMAIN ledger \cup {<<"COMPENSATION", Id(c.dispute), Available(Mint)>>,
                                               <<"COMPENSATION", Id(c.dispute), to>>}
    <3>1. Available(Mint) # Available(Subject) /\ to # Available(Subject)
      BY SubjectType
    <3> QED BY <1>2, <3>1, PostElsewhere DEF Apart
  <2>8. "compensation" \in DOMAIN compensations' => "compensation" \in DOMAIN compensations
    BY <1>2, <2>1 DEF Insert, OwnKeys
  <2> HIDE DEF to
  <2>9. Elsewhere
    BY <1>2, <2>4, <2>5, <2>6, <2>7, <2>8 DEF Elsewhere, Mine
  <2>10. UsersStay
    BY <1>2, <2>4, <2>5 DEF UsersStay
  <2>11. Apart'
    BY <1>2, <2>4, <2>7, <2>10, ApartStays DEF Apart
  <2> QED BY <1>2, <2>9, <2>11, OthersAnswer
<1> QED BY <1>1, <1>2 DEF CompensateCommits

LEMMA OtherBegins ==
  ASSUME Apart, NEW r \in Requests \ {Client}, NEW c \in Traffic, c.op = "compensate" => c.dispute \notin Mine(disputes),
         Begins(r, c)
  PROVE  Apart' /\ Elsewhere /\ request'[Client] = request[Client]
<1> DEFINE going(seen) == request' = [request EXCEPT ![r] = [state |-> "begun", call |-> c, seen |-> seen]]
<1>1. UNCHANGED <<balance, ledger, payments, refunds, disputes, compensations, ops, notices>>
  BY DEF Begins, RechargeReads, CallbackReads, RefundReads, DisputeReads, CompensateReads, Reads, rows
<1>2. \/ \E answer : answer # "begun" /\ Throws(r, answer)
      \/ /\ Knows(AllCalls, c) /\ \E seen : going(seen)
         /\ c.op = "refund" => payments[c.payment].user = c.user
  <2>1. ASSUME NEW answer, NEW seen, Reads(r, c, answer, seen),
               answer = "begun" => Knows(AllCalls, c) /\ (c.op = "refund" => payments[c.payment].user = c.user)
        PROVE  <1>2
    BY <2>1 DEF Reads, Throws
  <2>2. c \in AllCalls
    BY DEF AllCalls
  <2>3. CASE c.op = "recharge" /\ RechargeReads(r, c)
    BY <2>1, <2>2, <2>3 DEF RechargeReads, Knows
  <2>4. CASE c.op = "callback" /\ CallbackReads(r, c)
    BY <2>1, <2>2, <2>4 DEF CallbackReads, Knows
  <2>5. CASE c.op = "refund" /\ RefundReads(r, c)
    BY <2>1, <2>2, <2>5 DEF RefundReads, Knows
  <2>6. CASE c.op = "dispute" /\ DisputeReads(r, c)
    BY <2>1, <2>2, <2>6 DEF DisputeReads, Knows
  <2>7. CASE c.op = "compensate" /\ CompensateReads(r, c)
    BY <2>1, <2>2, <2>7 DEF CompensateReads, Knows
  <2> QED BY <2>3, <2>4, <2>5, <2>6, <2>7 DEF Begins
<1>3. ASSUME Knows(AllCalls, c), NEW seen, going(seen), c.op = "refund" => payments[c.payment].user = c.user
      PROVE  Apart' /\ request'[Client] = request[Client]
  <2>1. DOMAIN request' = Requests /\ request'[r].call = c
    BY <1>3 DEF Apart, CallsKnow
  <2>2. \A q \in Requests : q # r => request'[q] = request[q]
    BY <1>3 DEF Apart, CallsKnow
  <2> HIDE DEF going
  <2>3. ASSUME NEW d, Knows(AllCalls, d)
        PROVE  Knows(AllCalls, d)'
    BY <1>1, <2>3 DEF Knows
  <2>4. CallsKnow(AllCalls)'
    BY <1>3, <2>1, <2>2, <2>3 DEF Apart, CallsKnow
  <2>5. /\ c.op = "refund" => payments[c.payment].user # Subject
        /\ c.op = "compensate" => disputes[c.dispute].user # Subject
    BY <1>3, PaymentReplayAssumption DEF Knows, Mine
  <2>6. OthersKnow'
    BY <1>1, <2>1, <2>2, <2>5 DEF OthersKnow, Apart
  <2> QED BY <1>1, <2>2, <2>4, <2>6, PaymentReplayAssumption DEF Apart
<1>4. Elsewhere
  BY <1>1, QuietElsewhere
<1> QED BY <1>2, <1>3, <1>4, OtherThrows

LEMMA OtherSpends ==
  ASSUME Apart, NEW u \in Business \ {Subject}, Spends(u)
  PROVE  Apart' /\ Elsewhere /\ request'[Client] = request[Client]
<1> DEFINE biz == <<"ORDER", u>>
<1>1. /\ Post("FREEZE", biz, Available(u), Frozen(u), Spending)
      /\ UNCHANGED <<payments, refunds, disputes, compensations, ops, notices, request>>
  BY DEF Spends, rows
<1> HIDE DEF biz
<1>2. /\ DOMAIN balance' = Account
      /\ balance'[Available(Subject)] = balance[Available(Subject)]
      /\ DOMAIN ledger' = DOMAIN ledger \cup {<<"FREEZE", biz, Available(u)>>, <<"FREEZE", biz, Frozen(u)>>}
  <2>1. Available(u) # Available(Subject) /\ Frozen(u) # Available(Subject)
    BY SubjectType
  <2> QED BY <1>1, <2>1, PostElsewhere DEF Apart
<1>3. Elsewhere
  BY <1>1, <1>2 DEF Elsewhere, Mine
<1>4. Apart'
  BY <1>1, <1>2, ApartStays DEF UsersStay, Apart
<1> QED BY <1>1, <1>3, <1>4

LEMMA OtherMarksSent ==
  ASSUME Apart, NEW k, MarkSent(k)
  PROVE  Apart' /\ Elsewhere /\ request'[Client] = request[Client]
<1>1. UNCHANGED <<balance, ledger, payments, refunds, disputes, compensations, ops, request>>
  BY DEF MarkSent
<1>2. Elsewhere
  BY <1>1, QuietElsewhere
<1>3. Apart'
  BY <1>1, ApartStays DEF UsersStay, Apart
<1> QED BY <1>1, <1>2, <1>3

LEMMA OtherFinishes ==
  ASSUME Apart, NEW r \in Requests \ {Client}, Finishes(r)
  PROVE  Apart' /\ Elsewhere /\ request'[Client] = request[Client]
<1> DEFINE c == request[r].call
<1>1. /\ Knows(AllCalls, c)
      /\ c \in Traffic
      /\ c.op = "refund" => payments[c.payment].user # Subject
      /\ c.op = "compensate" => disputes[c.dispute].user # Subject
  BY DEF Finishes, Apart, CallsKnow, OthersKnow
<1>2. \/ c.op = "recharge" /\ RechargeCommits(r, c, request[r].seen)
      \/ c.op = "callback" /\ CallbackCommits(r, c, request[r].seen)
      \/ c.op = "refund" /\ RefundCommits(r, c)
      \/ c.op = "dispute" /\ DisputeCommits(r, c)
      \/ c.op = "compensate" /\ CompensateCommits(r, c)
  BY DEF Finishes
<1> HIDE DEF c
<1> QED BY <1>1, <1>2, OtherRecharges, OtherCallbacks, OtherRefunds, OtherDisputes, OtherCompensates

\* Whatever the others do, they keep away from the user of the run.
LEMMA OthersStep ==
  ASSUME Apart, Others, ~ (Finishes(Client) \/ Dies(Client))
  PROVE  Apart' /\ Elsewhere /\ request'[Client] = request[Client]
<1>1. CASE \E r \in Requests : Finishes(r) \/ Dies(r)
  BY <1>1, OtherFinishes, OtherThrows DEF Dies
<1>2. CASE \E r \in Requests \ {Client}, c \in Traffic :
             /\ c.op = "compensate" => c.dispute \notin Mine(disputes)
             /\ Begins(r, c)
  BY <1>2, OtherBegins
<1>3. CASE \E k \in DOMAIN notices : MarkSent(k)
  BY <1>3, OtherMarksSent
<1>4. CASE \E u \in Business \ {Subject} : Spends(u)
  BY <1>4, OtherSpends
<1> QED BY <1>1, <1>2, <1>3, <1>4 DEF Others

LEMMA PlanIs ==
  /\ Len(Plan) = 14
  /\ \A n \in 1 .. 14 : Plan[n].right = Right[n] /\ Right[n] # "begun" /\ Right[n] # "lost"
  /\ Plan[1].call = Webhook("primary", "primary", Amount, TRUE)
  /\ Plan[2].call = Webhook("primary", "primary", Amount, TRUE)
  /\ Plan[3].call = Webhook("primary", "primary", Amount + 1, TRUE)
  /\ Plan[4].call = Webhook("unsigned", "unsigned", Amount, FALSE)
  /\ Plan[5].call = Webhook("normal", "normal_original", Amount, TRUE)
  /\ Plan[6].call = Webhook("normal", "normal_late", Amount, TRUE)
  /\ Plan[7].call = Webhook("reverse", "reverse_late", Amount, TRUE)
  /\ Plan[8].call = Webhook("reverse", "reverse_original", Amount, TRUE)
  /\ Plan[9].call = RefundCall("refund")
  /\ Plan[10].call = RefundCall("refund")
  /\ Plan[11].call = RefundCall("second_refund")
  /\ Plan[12].call = [op |-> "dispute", payment |-> Primary, user |-> Subject]
  /\ Plan[13].call = CompensateCall
  /\ Plan[14].call = CompensateCall
<1>1. Len(Plan) = 14
  BY DEF Plan
<1>2. /\ Plan[1].right = Right[1] /\ Plan[2].right = Right[2] /\ Plan[3].right = Right[3]
      /\ Plan[4].right = Right[4] /\ Plan[5].right = Right[5]
  BY DEF Plan, Right
<1>3. /\ Plan[6].right = Right[6] /\ Plan[7].right = Right[7] /\ Plan[8].right = Right[8]
      /\ Plan[9].right = Right[9] /\ Plan[10].right = Right[10]
  BY DEF Plan, Right
<1>4. /\ Plan[11].right = Right[11] /\ Plan[12].right = Right[12] /\ Plan[13].right = Right[13]
      /\ Plan[14].right = Right[14]
  BY DEF Plan, Right
<1>5. \A n \in 1 .. 14 : Right[n] # "begun" /\ Right[n] # "lost"
  <2> SUFFICES ASSUME NEW n \in 1 .. 14
               PROVE  Right[n] # "begun" /\ Right[n] # "lost"
    OBVIOUS
  <2>1. n \in {1, 2, 3, 4, 5, 6, 7} \/ n \in {8, 9, 10, 11, 12, 13, 14}
    OBVIOUS
  <2> QED BY <2>1 DEF Right
<1>6. \A n \in 1 .. 14 : Plan[n].right = Right[n]
  <2> SUFFICES ASSUME NEW n \in 1 .. 14
               PROVE  Plan[n].right = Right[n]
    OBVIOUS
  <2>1. n \in {1, 2, 3, 4, 5} \/ n \in {6, 7, 8, 9, 10} \/ n \in {11, 12, 13, 14}
    OBVIOUS
  <2> QED BY <1>2, <1>3, <1>4, <2>1
<1>7. /\ Plan[1].call = Webhook("primary", "primary", Amount, TRUE)
      /\ Plan[2].call = Webhook("primary", "primary", Amount, TRUE)
      /\ Plan[3].call = Webhook("primary", "primary", Amount + 1, TRUE)
      /\ Plan[4].call = Webhook("unsigned", "unsigned", Amount, FALSE)
      /\ Plan[5].call = Webhook("normal", "normal_original", Amount, TRUE)
      /\ Plan[6].call = Webhook("normal", "normal_late", Amount, TRUE)
      /\ Plan[7].call = Webhook("reverse", "reverse_late", Amount, TRUE)
      /\ Plan[8].call = Webhook("reverse", "reverse_original", Amount, TRUE)
  BY DEF Plan
<1>8. /\ Plan[9].call = RefundCall("refund")
      /\ Plan[10].call = RefundCall("refund")
      /\ Plan[11].call = RefundCall("second_refund")
      /\ Plan[12].call = [op |-> "dispute", payment |-> Primary, user |-> Subject]
      /\ Plan[13].call = CompensateCall
      /\ Plan[14].call = CompensateCall
  BY DEF Plan
<1> QED BY <1>1, <1>5, <1>6, <1>7, <1>8

LEMMA PaidIs ==
  /\ Paid(1) = {}
  /\ \A n \in {2, 3, 4, 5} : Paid(n) = {<<"primary", "primary">>}
  /\ \A n \in {6, 7} : Paid(n) = {<<"primary", "primary">>, <<"normal", "normal_original">>}
  /\ \A n \in {8, 9, 10, 11, 12, 13, 14, 15} :
       Paid(n) = {<<"primary", "primary">>, <<"normal", "normal_original">>, <<"reverse", "reverse_late">>}
BY DEF Paid

LEMMA WorthIs ==
  /\ Worth(1) = 0
  /\ \A n \in {2, 3, 4, 5} : Worth(n) = Amount
  /\ \A n \in {6, 7} : Worth(n) = 2 * Amount
  /\ \A n \in {8, 9} : Worth(n) = 3 * Amount
  /\ \A n \in {10, 11, 12, 13} : Worth(n) = 2 * Amount
  /\ \A n \in {14, 15} : Worth(n) = 2 * Amount + Compensation
BY PaymentReplayAssumption DEF Worth

\* The id that the first callback was answered with.
LEMMA PrimaryIs ==
  ASSUME PInvOf(AllCalls), NEW n \in 2 .. 15, Own(n)
  PROVE  /\ Primary \in DOMAIN payments /\ Primary \in Nat
         /\ payments[Primary].pid = "primary"
         /\ payments[Primary].event = "primary"
         /\ payments[Primary].user = Subject
         /\ payments[Primary].amount = Amount
         /\ \A i \in DOMAIN payments : payments[i].pid = "primary" => i = Primary
<1>1. n \in {2, 3, 4, 5, 6, 7, 8, 9, 10, 11, 12, 13, 14, 15}
  OBVIOUS
<1>2. <<"primary", "primary">> \in Paid(n) /\ \A p \in Paid(n) : p[1] = "primary" => p[2] = "primary"
  BY <1>1, PaidIs, PaidPairs
<1>3. PICK i \in DOMAIN payments : payments[i].pid = "primary"
  BY <1>2 DEF Own, OwnPayments
<1>4. Primary \in DOMAIN payments /\ payments[Primary].pid = "primary"
  BY <1>3 DEF Primary, TheOne
<1>5. /\ <<payments[Primary].pid, payments[Primary].event>> \in Paid(n)
      /\ payments[Primary].user = Subject /\ payments[Primary].amount = Amount
  BY <1>4 DEF Own, OwnPayments, OwnPids
<1>6. \A j \in DOMAIN payments : payments[j].pid = "primary" => j = Primary
  BY <1>4, <1>5 DEF Own, OwnPayments
<1>7. Primary \in Nat
  BY <1>4, LenProperties DEF PInvOf, RowsTyped
<1> QED BY <1>2, <1>4, <1>5, <1>6, <1>7

LEMMA DisputeIs ==
  ASSUME PInvOf(AllCalls), NEW n \in 13 .. 15, Own(n)
  PROVE  /\ PrimaryDispute \in Mine(disputes) /\ PrimaryDispute \in Nat
         /\ \A d \in Mine(disputes) : d = PrimaryDispute
<1>1. n > 12
  OBVIOUS
<1>2. Mine(disputes) # {} /\ \A d, e \in Mine(disputes) : d = e
  BY <1>1 DEF Own, OwnDisputes
<1>3. PrimaryDispute \in Mine(disputes)
  BY <1>2 DEF PrimaryDispute, TheOne, Mine
<1>4. PrimaryDispute \in Nat
  BY <1>3, LenProperties DEF PInvOf, RowsTyped, Mine
<1> QED BY <1>2, <1>3, <1>4

\* Calls that only repeat what was done leave what the user owns.
LEMMA SameOwn ==
  ASSUME NEW n \in {2, 3, 4, 6, 8, 10, 11, 14}, Own(n)
  PROVE  Own(n + 1)
<1>1. n \in Nat
  OBVIOUS
<1>2. /\ n > 1 <=> n + 1 > 1
      /\ n > 5 <=> n + 1 > 5
      /\ n > 7 <=> n + 1 > 7
      /\ n > 9 <=> n + 1 > 9
      /\ n > 12 <=> n + 1 > 12
      /\ n > 13 <=> n + 1 > 13
  OBVIOUS
<1>3. Paid(n + 1) = Paid(n)
  BY <1>2 DEF Paid
<1>4. Worth(n + 1) = Worth(n)
  <2>1. CASE n \in {2, 3, 4}
    BY <2>1, WorthIs
  <2>2. CASE n = 6
    BY <2>2, WorthIs
  <2>3. CASE n = 8
    BY <2>3, WorthIs
  <2>4. CASE n \in {10, 11}
    BY <2>4, WorthIs
  <2>5. CASE n = 14
    BY <2>5, WorthIs
  <2> QED BY <2>1, <2>2, <2>3, <2>4, <2>5
<1> QED BY <1>2, <1>3, <1>4 DEF Own, OwnPayments, OwnOps, OwnRefunds, OwnDisputes, OwnEntries

\* Call n is this callback.
Callback(n, pid, event, amount, signed) ==
  /\ Plan[n].call.op = "callback"
  /\ Plan[n].call.pid = pid
  /\ Plan[n].call.event = event
  /\ Plan[n].call.user = Subject
  /\ Plan[n].call.amount = amount
  /\ Plan[n].call.signed = signed

LEMMA PlanCallbacks ==
  /\ Callback(1, "primary", "primary", Amount, TRUE)
  /\ Callback(2, "primary", "primary", Amount, TRUE)
  /\ Callback(3, "primary", "primary", Amount + 1, TRUE)
  /\ Callback(4, "unsigned", "unsigned", Amount, FALSE)
  /\ Callback(5, "normal", "normal_original", Amount, TRUE)
  /\ Callback(6, "normal", "normal_late", Amount, TRUE)
  /\ Callback(7, "reverse", "reverse_late", Amount, TRUE)
  /\ Callback(8, "reverse", "reverse_original", Amount, TRUE)
<1>1. Callback(1, "primary", "primary", Amount, TRUE)
  <2>1. Plan[1].call = Webhook("primary", "primary", Amount, TRUE)
    BY PlanIs
  <2> QED BY <2>1 DEF Webhook, Callback
<1>2. Callback(2, "primary", "primary", Amount, TRUE)
  <2>1. Plan[2].call = Webhook("primary", "primary", Amount, TRUE)
    BY PlanIs
  <2> QED BY <2>1 DEF Webhook, Callback
<1>3. Callback(3, "primary", "primary", Amount + 1, TRUE)
  <2>1. Plan[3].call = Webhook("primary", "primary", Amount + 1, TRUE)
    BY PlanIs
  <2> QED BY <2>1 DEF Webhook, Callback
<1>4. Callback(4, "unsigned", "unsigned", Amount, FALSE)
  <2>1. Plan[4].call = Webhook("unsigned", "unsigned", Amount, FALSE)
    BY PlanIs
  <2> QED BY <2>1 DEF Webhook, Callback
<1>5. Callback(5, "normal", "normal_original", Amount, TRUE)
  <2>1. Plan[5].call = Webhook("normal", "normal_original", Amount, TRUE)
    BY PlanIs
  <2> QED BY <2>1 DEF Webhook, Callback
<1>6. Callback(6, "normal", "normal_late", Amount, TRUE)
  <2>1. Plan[6].call = Webhook("normal", "normal_late", Amount, TRUE)
    BY PlanIs
  <2> QED BY <2>1 DEF Webhook, Callback
<1>7. Callback(7, "reverse", "reverse_late", Amount, TRUE)
  <2>1. Plan[7].call = Webhook("reverse", "reverse_late", Amount, TRUE)
    BY PlanIs
  <2> QED BY <2>1 DEF Webhook, Callback
<1>8. Callback(8, "reverse", "reverse_original", Amount, TRUE)
  <2>1. Plan[8].call = Webhook("reverse", "reverse_original", Amount, TRUE)
    BY PlanIs
  <2> QED BY <2>1 DEF Webhook, Callback
<1> QED BY <1>1, <1>2, <1>3, <1>4, <1>5, <1>6, <1>7, <1>8

LEMMA RefundCallIs ==
  ASSUME NEW key
  PROVE  LET c == RefundCall(key)
         IN  c.op = "refund" /\ c.payment = Primary /\ c.key = key /\ c.user = Subject /\ c.amount = Amount
BY DEF RefundCall

\* A call that is answered at once.
LEMMA AnswersAtOnce ==
  ASSUME DOMAIN request = Requests, NEW c, NEW answer, answer # "begun", NEW seen, Reads(Client, c, answer, seen)
  PROVE  request'[Client].state = answer
BY PaymentReplayAssumption DEF Reads, Answers

\* A call that goes on.
LEMMA GoesOn ==
  ASSUME DOMAIN request = Requests, NEW c, NEW seen, Reads(Client, c, "begun", seen)
  PROVE  request'[Client].state = "begun" /\ request'[Client].call = c
BY PaymentReplayAssumption DEF Reads

\* Nothing has the ids of a payment of the run that was not credited yet.
LEMMA NothingExists ==
  ASSUME NEW n, Own(n), NEW c, c.pid \in OwnPids, c.event \in OwnEvents,
         \A p \in Paid(n) : p[1] # c.pid /\ p[2] # c.event
  PROVE  WithEvent(c) = {} /\ WithProviderId(c) = {} /\ PaymentKey(c.event) \notin DOMAIN ops
<1>1. ASSUME NEW i \in DOMAIN payments, payments[i].event = c.event \/ payments[i].pid = c.pid
      PROVE  FALSE
  <2>1. <<payments[i].pid, payments[i].event>> \in Paid(n)
    BY <1>1 DEF Own, OwnPayments
  <2> QED BY <1>1, <2>1
<1>2. PaymentKey(c.event) \notin DOMAIN ops
  BY DEF Own, OwnOps
<1> QED BY <1>1, <1>2 DEF WithEvent, WithProviderId

LEMMA FirstCallbackSent ==
  ASSUME CallsKnow(AllCalls), NEW n, Own(n), NEW c, c.op = "callback", c.pid \in OwnPids, c.event \in OwnEvents,
         c.user = Subject, c.signed = TRUE, \A p \in Paid(n) : p[1] # c.pid /\ p[2] # c.event, Begins(Client, c)
  PROVE  request'[Client].state = "begun" /\ request'[Client].call = c
<1>1. Existing(c) = {}
  BY NothingExists DEF Existing
<1>2. Subject \in Business
  BY PaymentReplayAssumption
<1>3. Reads(Client, c, "begun", PaymentKey(c.event) \in DOMAIN ops)
  BY <1>1, <1>2 DEF Begins, CallbackReads
<1> QED BY <1>3, GoesOn DEF CallsKnow

\* A callback whose payment exists already.
LEMMA RepeatedCallbackSent ==
  ASSUME CallsKnow(AllCalls), NEW c, c.op = "callback", c.signed = TRUE, Existing(c) # {}, Begins(Client, c)
  PROVE  request'[Client].state
           = IF \A i \in Existing(c) : SameRequest(payments[i], c) THEN "ok" ELSE "conflict"
<1> DEFINE answer == IF \A i \in Existing(c) : SameRequest(payments[i], c) THEN "ok" ELSE "conflict"
<1>1. Reads(Client, c, answer, PaymentKey(c.event) \in DOMAIN ops)
  BY DEF Begins, CallbackReads
<1>2. answer # "begun"
  OBVIOUS
<1> HIDE DEF answer
<1> QED BY <1>1, <1>2, AnswersAtOnce DEF CallsKnow, answer

\* What a callback finds under a provider id that was credited.
LEMMA ExistingOf ==
  ASSUME NEW n, Own(n), NEW p \in Paid(n), NEW c, c.pid = p[1],
         c.event \in OwnEvents, \A q \in Paid(n) : q[2] = c.event => q[1] = c.pid
  PROVE  /\ Existing(c) # {}
         /\ \A i \in Existing(c) : payments[i].pid = c.pid /\ payments[i].user = Subject /\ payments[i].amount = Amount
<1>1. p[1] \in OwnPids
  BY PaidPairs
<1>2. WithProviderId(c) # {}
  BY DEF Own, OwnPayments, WithProviderId
<1>3. Existing(c) # {}
  BY <1>2 DEF Existing
<1>4. ASSUME NEW i \in Existing(c)
      PROVE  payments[i].pid = c.pid /\ payments[i].user = Subject /\ payments[i].amount = Amount
  <2>1. i \in DOMAIN payments /\ (payments[i].event = c.event \/ payments[i].pid = c.pid)
    BY <1>4 DEF Existing, WithEvent, WithProviderId
  <2>2. /\ <<payments[i].pid, payments[i].event>> \in Paid(n)
        /\ payments[i].user = Subject /\ payments[i].amount = Amount
    BY <1>1, <2>1 DEF Own, OwnPayments
  <2> QED BY <2>1, <2>2
<1> QED BY <1>3, <1>4

\* Each call, as the state before it has it answered.
Sent(n) ==
  \/ /\ request'[Client].state = "begun" /\ request'[Client].call = Plan[n].call
     /\ Committing(n, Plan[n].call)
  \/ request'[Client].state = Right[n] /\ Own(n + 1)

LEMMA SendsCredits ==
  ASSUME PInvOf(AllCalls), NEW n \in {1, 5, 7}, Own(n), Begins(Client, Plan[n].call)
  PROVE  Sent(n)
<1>1. /\ Plan[n].call.op = "callback" /\ Plan[n].call.pid \in OwnPids /\ Plan[n].call.event \in OwnEvents
      /\ Plan[n].call.user = Subject /\ Plan[n].call.signed = TRUE
  BY PlanCallbacks DEF Callback, OwnPids, OwnEvents
<1>2. \A p \in Paid(n) : p[1] # Plan[n].call.pid /\ p[2] # Plan[n].call.event
  <2>1. CASE n = 1
    BY <2>1, PaidIs
  <2>2. CASE n = 5
    BY <2>2, PaidIs, PlanCallbacks DEF Callback
  <2>3. CASE n = 7
    BY <2>3, PaidIs, PlanCallbacks DEF Callback
  <2> QED BY <2>1, <2>2, <2>3
<1>3. request'[Client].state = "begun" /\ request'[Client].call = Plan[n].call
  <2> DEFINE c == Plan[n].call
  <2>1. /\ c.op = "callback" /\ c.pid \in OwnPids /\ c.event \in OwnEvents
        /\ c.user = Subject /\ c.signed = TRUE
        /\ \A p \in Paid(n) : p[1] # c.pid /\ p[2] # c.event
        /\ Begins(Client, c)
    BY <1>1, <1>2
  <2> HIDE DEF c
  <2>2. request'[Client].state = "begun" /\ request'[Client].call = c
    BY <2>1, FirstCallbackSent DEF PInvOf
  <2> QED BY <2>2 DEF c
<1>4. Committing(n, Plan[n].call)
  BY PlanIs DEF Committing
<1> QED BY <1>3, <1>4 DEF Sent

LEMMA SendsRepeats ==
  ASSUME PInvOf(AllCalls), NEW n \in {2, 3, 6, 8}, Own(n), Begins(Client, Plan[n].call)
  PROVE  Sent(n)
<1> DEFINE c == Plan[n].call
<1>1. /\ c.op = "callback" /\ c.event \in OwnEvents /\ c.user = Subject /\ c.signed = TRUE
      /\ c.amount = IF n = 3 THEN Amount + 1 ELSE Amount
  BY PlanCallbacks DEF Callback, OwnEvents
<1>2. \E p \in Paid(n) : c.pid = p[1] /\ \A q \in Paid(n) : q[2] = c.event => q[1] = c.pid
  <2>1. CASE n \in {2, 3}
    <3>1. c.pid = "primary" /\ <<"primary", "primary">> \in Paid(n)
      BY <2>1, PaidIs, PlanCallbacks DEF Callback
    <3>2. \A q \in Paid(n) : q[1] = "primary"
      BY <2>1, PaidIs
    <3> QED BY <3>1, <3>2
  <2>2. CASE n = 6
    <3>1. c.pid = "normal" /\ c.event = "normal_late" /\ <<"normal", "normal_original">> \in Paid(n)
      BY <2>2, PaidIs, PlanCallbacks DEF Callback
    <3> QED BY <3>1, PaidPairs
  <2>3. CASE n = 8
    <3>1. c.pid = "reverse" /\ c.event = "reverse_original" /\ <<"reverse", "reverse_late">> \in Paid(n)
      BY <2>3, PaidIs, PlanCallbacks DEF Callback
    <3> QED BY <3>1, PaidPairs
  <2> QED BY <2>1, <2>2, <2>3
<1> HIDE DEF c
<1>3. /\ Existing(c) # {}
      /\ \A i \in Existing(c) : payments[i].pid = c.pid /\ payments[i].user = Subject /\ payments[i].amount = Amount
  BY <1>1, <1>2, ExistingOf
<1>4. (\A i \in Existing(c) : SameRequest(payments[i], c)) <=> n # 3
  BY <1>1, <1>3, PaymentReplayAssumption DEF SameRequest
<1>5. Right[n] = IF n = 3 THEN "conflict" ELSE "ok"
  BY DEF Right
<1>6. request'[Client].state = Right[n]
  BY <1>1, <1>3, <1>4, <1>5, RepeatedCallbackSent DEF PInvOf, c
<1> QED BY <1>6, SameOwn DEF Sent

LEMMA SendsUnsigned ==
  ASSUME PInvOf(AllCalls), Own(4), Begins(Client, Plan[4].call)
  PROVE  Sent(4)
<1> DEFINE c == Plan[4].call
<1>1. c.op = "callback" /\ c.signed = FALSE /\ Right[4] = "unauthorized"
  BY PlanCallbacks DEF Callback, Right
<1> HIDE DEF c
<1>2. Reads(Client, c, "unauthorized", PaymentKey(c.event) \in DOMAIN ops)
  BY <1>1 DEF Begins, CallbackReads, c
<1>3. request'[Client].state = Right[4]
  BY <1>1, <1>2, AnswersAtOnce DEF PInvOf, CallsKnow
<1> QED BY <1>3, SameOwn DEF Sent

\* The refunds that the run asks for are about the payment that it made first.
LEMMA RefundOfPrimary ==
  ASSUME PInvOf(AllCalls), NEW n \in 2 .. 15, Own(n), NEW j \in DOMAIN refunds
  PROVE  /\ refunds[j].payment \in DOMAIN payments
         /\ refunds[j].key \in OwnKeys \/ refunds[j].payment = Primary =>
              n > 9 /\ refunds[j].key = "refund" /\ refunds[j].payment = Primary
<1>1. refunds[j].payment \in DOMAIN payments
  BY DEF PInvOf, RowsTyped
<1> QED BY <1>1, PrimaryIs DEF Own, OwnRefunds

\* Whether the payment that was made first is refunded.
LEMMA StatusOfPrimary ==
  ASSUME PInvOf(AllCalls), NEW n \in 2 .. 15, Own(n)
  PROVE  payments[Primary].status = IF n > 9 THEN "REFUNDED" ELSE "SETTLED"
<1>1. Primary \in DOMAIN payments
  BY PrimaryIs
<1>2. payments[Primary].status \in {"SETTLED", "REFUNDED"}
  <2>1. payments[Primary] \in PaymentTypeOf(AllCalls)
    BY <1>1, ElementOfSeq, LenProperties DEF PInvOf, RowsTyped
  <2> QED BY <2>1 DEF PaymentTypeOf
<1>3. n > 9 <=> \E j \in DOMAIN refunds : refunds[j].payment = Primary
  <2>1. ASSUME n > 9
        PROVE  \E j \in DOMAIN refunds : refunds[j].payment = Primary
    <3>1. PICK j \in DOMAIN refunds : refunds[j].key = "refund"
      BY <2>1 DEF Own, OwnRefunds
    <3> QED BY <3>1, RefundOfPrimary DEF OwnKeys
  <2> QED BY <2>1, RefundOfPrimary
<1> QED BY <1>1, <1>2, <1>3 DEF PInvOf, RefundedOnce

LEMMA SendsRefund ==
  ASSUME PInvOf(AllCalls), Own(9), Begins(Client, Plan[9].call)
  PROVE  Sent(9)
<1> DEFINE c == RefundCall("refund")
<1>1. c.op = "refund" /\ c.payment = Primary /\ c.key = "refund" /\ c.user = Subject /\ c.amount = Amount
  BY RefundCallIs
<1>2. Begins(Client, c) /\ Plan[9].call = c
  BY PlanIs
<1> HIDE DEF c
<1>3. /\ Primary \in DOMAIN payments /\ payments[Primary].user = Subject /\ payments[Primary].amount = Amount
      /\ payments[Primary].pid = "primary"
  BY PrimaryIs
<1>4. payments[Primary].status = "SETTLED"
  BY StatusOfPrimary
<1>5. {i \in DOMAIN refunds : refunds[i].key = c.key} = {}
  BY <1>1, RefundOfPrimary DEF OwnKeys
<1>6. Reads(Client, c, "begun", FALSE)
  BY <1>1, <1>2, <1>3, <1>4, <1>5 DEF Begins, RefundReads
<1>7. request'[Client].state = "begun" /\ request'[Client].call = c
  BY <1>6, GoesOn DEF PInvOf, CallsKnow
<1>8. Committing(9, c)
  BY <1>1, <1>3 DEF Committing
<1> QED BY <1>2, <1>7, <1>8 DEF Sent

LEMMA SendsRefundAgain ==
  ASSUME PInvOf(AllCalls), Own(10), Begins(Client, Plan[10].call)
  PROVE  Sent(10)
<1> DEFINE c == RefundCall("refund")
           replays == {i \in DOMAIN refunds : refunds[i].key = c.key}
<1>1. c.op = "refund" /\ c.payment = Primary /\ c.key = "refund" /\ c.user = Subject /\ c.amount = Amount
  BY RefundCallIs
<1>2. Begins(Client, c)
  BY PlanIs
<1> HIDE DEF c
<1>3. Primary \in DOMAIN payments /\ payments[Primary].user = Subject /\ payments[Primary].amount = Amount
  BY PrimaryIs
<1>4. replays # {}
  BY <1>1 DEF Own, OwnRefunds
<1>5. \A i \in replays : refunds[i].payment = c.payment
  BY <1>1, RefundOfPrimary DEF OwnKeys
<1>6. Reads(Client, c, "ok", FALSE)
  BY <1>1, <1>2, <1>3, <1>4, <1>5 DEF Begins, RefundReads
<1>7. request'[Client].state = "ok"
  BY <1>6, AnswersAtOnce DEF PInvOf, CallsKnow
<1>8. Right[10] = "ok"
  BY DEF Right
<1> QED BY <1>7, <1>8, SameOwn DEF Sent

LEMMA SendsSecondRefund ==
  ASSUME PInvOf(AllCalls), Own(11), Begins(Client, Plan[11].call)
  PROVE  Sent(11)
<1> DEFINE c == RefundCall("second_refund")
<1>1. c.op = "refund" /\ c.payment = Primary /\ c.key = "second_refund" /\ c.user = Subject /\ c.amount = Amount
  BY RefundCallIs
<1>2. Begins(Client, c)
  BY PlanIs
<1> HIDE DEF c
<1>3. Primary \in DOMAIN payments /\ payments[Primary].user = Subject /\ payments[Primary].amount = Amount
  BY PrimaryIs
<1>4. payments[Primary].status = "REFUNDED"
  BY StatusOfPrimary
<1>5. {i \in DOMAIN refunds : refunds[i].key = c.key} = {}
  BY <1>1, RefundOfPrimary DEF OwnKeys
<1>6. Reads(Client, c, "illegal", FALSE)
  BY <1>1, <1>2, <1>3, <1>4, <1>5 DEF Begins, RefundReads
<1>7. request'[Client].state = "illegal"
  BY <1>6, AnswersAtOnce DEF PInvOf, CallsKnow
<1>8. Right[11] = "illegal"
  BY DEF Right
<1> QED BY <1>7, <1>8, SameOwn DEF Sent

LEMMA SendsDispute ==
  ASSUME PInvOf(AllCalls), Own(12), Begins(Client, Plan[12].call)
  PROVE  Sent(12)
<1> DEFINE c == [op |-> "dispute", payment |-> Primary, user |-> Subject]
<1>1. c.op = "dispute" /\ c.payment = Primary /\ c.user = Subject
  OBVIOUS
<1>2. Begins(Client, c) /\ Plan[12].call = c
  BY PlanIs
<1> HIDE DEF c
<1>3. Primary \in DOMAIN payments /\ payments[Primary].user = Subject
  BY PrimaryIs
<1>4. Reads(Client, c, "begun", FALSE)
  BY <1>1, <1>2, <1>3 DEF Begins, DisputeReads
<1>5. request'[Client].state = "begun" /\ request'[Client].call = c
  BY <1>4, GoesOn DEF PInvOf, CallsKnow
<1>6. Committing(12, c)
  BY <1>1 DEF Committing
<1> QED BY <1>2, <1>5, <1>6 DEF Sent

LEMMA CompensateCallIs ==
  CompensateCall.op = "compensate" /\ CompensateCall.dispute = PrimaryDispute /\ CompensateCall.key = "compensation"
BY DEF CompensateCall

LEMMA StatusOfDispute ==
  ASSUME PInvOf(AllCalls), NEW n \in 13 .. 15, Own(n)
  PROVE  /\ PrimaryDispute \in DOMAIN disputes
         /\ disputes[PrimaryDispute].status = IF n > 13 THEN "RESOLVED" ELSE "OPEN"
<1>1. PrimaryDispute \in Mine(disputes) /\ PrimaryDispute \in DOMAIN disputes
  BY DisputeIs DEF Mine
<1>2. disputes[PrimaryDispute].status \in {"OPEN", "RESOLVED"}
  <2>1. disputes[PrimaryDispute] \in DisputeType
    BY <1>1, ElementOfSeq, LenProperties DEF PInvOf, RowsTyped
  <2> QED BY <2>1 DEF DisputeType
<1> QED BY <1>1, <1>2 DEF Own, OwnDisputes

LEMMA SendsCompensation ==
  ASSUME PInvOf(AllCalls), Own(13), Begins(Client, Plan[13].call)
  PROVE  Sent(13)
<1> DEFINE c == CompensateCall
<1>1. c.op = "compensate" /\ c.dispute = PrimaryDispute /\ c.key = "compensation"
  BY CompensateCallIs
<1>2. Begins(Client, c) /\ Plan[13].call = c
  BY PlanIs
<1> HIDE DEF c
<1>3. /\ PrimaryDispute \in Mine(disputes)
      /\ PrimaryDispute \in DOMAIN disputes /\ disputes[PrimaryDispute].status = "OPEN"
  BY DisputeIs, StatusOfDispute
<1>4. c.key \notin DOMAIN compensations
  BY <1>1 DEF Own, OwnDisputes
<1>5. Reads(Client, c, "begun", FALSE)
  BY <1>1, <1>2, <1>3, <1>4 DEF Begins, CompensateReads
<1>6. request'[Client].state = "begun" /\ request'[Client].call = c
  BY <1>5, GoesOn DEF PInvOf, CallsKnow
<1>7. Committing(13, c)
  BY <1>1, <1>3 DEF Committing
<1> QED BY <1>2, <1>6, <1>7 DEF Sent

LEMMA SendsCompensationAgain ==
  ASSUME PInvOf(AllCalls), Own(14), Begins(Client, Plan[14].call)
  PROVE  Sent(14)
<1> DEFINE c == CompensateCall
<1>1. c.op = "compensate" /\ c.dispute = PrimaryDispute /\ c.key = "compensation"
  BY CompensateCallIs
<1>2. Begins(Client, c)
  BY PlanIs
<1> HIDE DEF c
<1>3. PrimaryDispute \in DOMAIN disputes /\ disputes[PrimaryDispute].status = "RESOLVED"
  BY StatusOfDispute
<1>4. Reads(Client, c, "resolved", FALSE)
  BY <1>1, <1>2, <1>3 DEF Begins, CompensateReads
<1>5. request'[Client].state = "resolved"
  BY <1>4, AnswersAtOnce DEF PInvOf, CallsKnow
<1>6. Right[14] = "resolved"
  BY DEF Right
<1> QED BY <1>5, <1>6, SameOwn DEF Sent

\* The script's calls are calls.
LEMMA PlannedCalls ==
  ASSUME PInvOf(AllCalls), NEW n \in 1 .. 14, Own(n)
  PROVE  Plan[n].call \in AllCalls
<1>1. CASE n \in {1, 2, 3, 4, 5, 6, 7, 8}
  <2>1. \E pid \in OwnPids, event \in OwnEvents, amount \in {Amount, Amount + 1}, signed \in BOOLEAN :
          Plan[n].call = Webhook(pid, event, amount, signed)
    BY <1>1, PlanIs DEF OwnPids, OwnEvents
  <2> QED BY <2>1 DEF AllCalls, ScriptCalls, Webhook
<1>2. CASE n \in {9, 10, 11}
  <2>1. Primary \in Nat
    BY <1>2, PrimaryIs
  <2> QED BY <1>2, <2>1, PlanIs DEF AllCalls, ScriptCalls, RefundCall
<1>3. CASE n = 12
  <2>1. Primary \in Nat
    BY <1>3, PrimaryIs
  <2> QED BY <1>3, <2>1, PlanIs DEF AllCalls, ScriptCalls
<1>4. CASE n \in {13, 14}
  <2>1. PrimaryDispute \in Nat
    BY <1>4, DisputeIs
  <2> QED BY <1>4, <2>1, PlanIs DEF AllCalls, ScriptCalls, CompensateCall
<1> QED BY <1>1, <1>2, <1>3, <1>4

LEMMA Unread ==
  ASSUME DOMAIN request = Requests, NEW answer, Answers(Client, answer)
  PROVE  request'[Client].state = answer /\ \A q \in Requests : q # Client => request'[q] = request[q]
BY PaymentReplayAssumption DEF Answers

\* Two halves of an event, one of them in the wallet of the run's user.
LEMMA PostOwn ==
  ASSUME DOMAIN balance = Account, balance[Available(Subject)] \in Int, NEW type, NEW biz,
         NEW from \in Account, NEW to \in Account, from # to, NEW amount \in Nat, Post(type, biz, from, to, amount)
  PROVE  /\ DOMAIN ledger' = DOMAIN ledger \cup {<<type, biz, from>>, <<type, biz, to>>}
         /\ from = Available(Subject) => balance'[Available(Subject)] = balance[Available(Subject)] - amount
         /\ to = Available(Subject) => balance'[Available(Subject)] = balance[Available(Subject)] + amount
BY SubjectType DEF Post, Change, Insert

\* A callback of the script credits what it is for, under its own ids.
LEMMA Credits ==
  ASSUME PInvOf(AllCalls), NEW n \in {1, 5, 7}, Own(n), NEW c, NEW seen, CallbackCommits(Client, c, seen),
         c.pid \in OwnPids, c.event \in OwnEvents, c.user = Subject, c.amount = Amount,
         \A p \in Paid(n) : p[1] # c.pid /\ p[2] # c.event,
         Paid(n + 1) = Paid(n) \cup {<<c.pid, c.event>>},
         Worth(n + 1) = Worth(n) + Amount
  PROVE  request'[Client].state = "ok" /\ Own(n + 1)'
<1> DEFINE row == [pid |-> c.pid, event |-> c.event, user |-> c.user, amount |-> c.amount,
                   status |-> "SETTLED"]
           i == Len(payments) + 1
           key == PaymentKey(c.event)
           new == <<c.pid, c.event>>
<1>0. Paid(n + 1) = Paid(n) \cup {new} /\ new[1] = c.pid /\ new[2] = c.event
  OBVIOUS
<1>1. /\ WithEvent(c) = {} /\ WithProviderId(c) = {} /\ key \notin DOMAIN ops
  BY NothingExists
<1>2. ~PaymentExists(c) /\ Start(c, key, seen) = "new"
  BY <1>1 DEF PaymentExists, Start
<1>3. /\ payments' = Append(payments, row)
      /\ Recharge(c, key, "new")
      /\ Answers(Client, "ok")
      /\ UNCHANGED <<refunds, disputes, compensations>>
  BY <1>2 DEF CallbackCommits
<1>4. request'[Client].state = "ok"
  BY <1>3, Unread DEF PInvOf, CallsKnow
<1>5. payments \in Seq(PaymentTypeOf(AllCalls) \cup {row})
  BY SeqMonotonic DEF PInvOf, RowsTyped
<1>6. /\ DOMAIN payments' = DOMAIN payments \cup {i}
      /\ i \notin DOMAIN payments
      /\ payments'[i] = row
      /\ \A j \in DOMAIN payments : payments'[j] = payments[j]
  BY <1>3, <1>5, AppendRow
<1>7. /\ payments'[i].pid = c.pid /\ payments'[i].event = c.event
      /\ payments'[i].user = Subject /\ payments'[i].amount = Amount
  BY <1>6
<1> HIDE DEF i, row
<1>8. OwnPayments(n + 1)'
  <2>1. \A j \in DOMAIN payments' :
          payments'[j].user = Subject \/ payments'[j].pid \in OwnPids \/ payments'[j].event \in OwnEvents =>
            /\ <<payments'[j].pid, payments'[j].event>> \in Paid(n + 1)
            /\ payments'[j].user = Subject
            /\ payments'[j].amount = Amount
    BY <1>6, <1>7 DEF Own, OwnPayments
  <2>2. \A p \in Paid(n + 1) : \E j \in DOMAIN payments' : payments'[j].pid = p[1]
    BY <1>6, <1>7 DEF Own, OwnPayments
  <2>3. \A j \in DOMAIN payments : payments[j].pid # c.pid
    BY <1>1 DEF WithProviderId
  <2>4. \A j, k \in DOMAIN payments' :
          payments'[j].user = Subject /\ payments'[j].pid = payments'[k].pid => j = k
    BY <1>6, <1>7, <2>3 DEF Own, OwnPayments
  <2> QED BY <2>1, <2>2, <2>4 DEF OwnPayments
<1>9. OwnOps(n + 1)'
  <2>1. DOMAIN ops' = DOMAIN ops \cup {key}
    BY <1>3 DEF Recharge, Insert
  <2>2. \A e : PaymentKey(e) = key => e = c.event
    BY DEF PaymentKey
  <2> HIDE DEF key, new
  <2>3. \E p \in Paid(n + 1) : p[2] = c.event
    BY <1>0
  <2> QED BY <2>1, <2>2, <2>3 DEF Own, OwnOps
<1>10. OwnRefunds(n + 1)'
  <2>1. \A j \in DOMAIN refunds : refunds[j].payment \in DOMAIN payments
    BY DEF PInvOf, RowsTyped
  <2>2. ~(n > 9) /\ ~(n + 1 > 9)
    OBVIOUS
  <2> QED BY <1>3, <1>6, <2>1, <2>2 DEF Own, OwnRefunds
<1>11. OwnDisputes(n + 1)'
  <2>1. ~(n > 12) /\ ~(n + 1 > 12) /\ ~(n > 13) /\ ~(n + 1 > 13)
    OBVIOUS
  <2>2. Mine(disputes)' = Mine(disputes)
    BY <1>3 DEF Mine
  <2> QED BY <1>3, <2>1, <2>2 DEF Own, OwnDisputes
<1>12. /\ DOMAIN ledger' = DOMAIN ledger \cup {<<"RECHARGE", key, Available(Mint)>>,
                                              <<"RECHARGE", key, Available(Subject)>>}
       /\ balance'[Available(Subject)] = balance[Available(Subject)] + Amount
  <2>1. /\ Available(Mint) \in Account /\ Available(Subject) \in Account
        /\ Available(Mint) # Available(Subject) /\ Amount \in Nat
    BY SubjectType, AccountsType, PaymentReplayAssumption
  <2>2. DOMAIN balance = Account /\ balance[Available(Subject)] \in Int
    BY <2>1 DEF PInvOf, SoundBooks, Books
  <2>3. Post("RECHARGE", key, Available(Mint), Available(Subject), Amount)
    BY <1>3 DEF Recharge
  <2> QED BY <2>1, <2>2, <2>3, PostOwn
<1>13. OwnEntries(n + 1)'
  <2>1. ~(n + 1 > 13)
    OBVIOUS
  <2>2. \A k \in DOMAIN ledger' : k = <<k[1], k[2], k[3]>>
    BY <1>12 DEF Own, OwnEntries
  <2>3. Available(Mint)[1] # Subject /\ Available(Subject)[1] = Subject
    BY SubjectType DEF Available
  <2>4. OwnRecharges' = OwnRecharges \cup {<<"RECHARGE", key, Available(Subject)>>}
    BY <1>12, <2>3 DEF OwnRecharges
  <2>5. OwnRecharges = {<<"RECHARGE", PaymentKey(p[2]), Available(Subject)>> : p \in Paid(n)}
    BY DEF Own, OwnEntries
  <2>6. {<<"RECHARGE", PaymentKey(p[2]), Available(Subject)>> : p \in Paid(n + 1)}
          = {<<"RECHARGE", PaymentKey(p[2]), Available(Subject)>> : p \in Paid(n)}
              \cup {<<"RECHARGE", key, Available(Subject)>>}
    <3> HIDE DEF new
    <3> QED BY <1>0
  <2> QED BY <2>1, <2>2, <2>4, <2>5, <2>6 DEF OwnEntries
<1>14. balance'[Available(Subject)] = Worth(n + 1)
  BY <1>12 DEF Own
<1> QED BY <1>4, <1>8, <1>9, <1>10, <1>11, <1>13, <1>14 DEF Own

\* The refund gives the first payment back.
LEMMA GivesBack ==
  ASSUME PInvOf(AllCalls), Own(9), NEW c, c.payment \in DOMAIN payments, payments[c.payment].pid = "primary",
         c.key = "refund", RefundCommits(Client, c)
  PROVE  request'[Client].state = "ok" /\ Own(10)'
<1> DEFINE p == payments[c.payment]
           row == [payment |-> c.payment, key |-> c.key]
           j == Len(refunds) + 1
<1>1. /\ c.payment = Primary /\ p.pid = "primary" /\ p.event = "primary" /\ p.user = Subject /\ p.amount = Amount
  BY PrimaryIs
<1>2. ~RefundExists(c)
  BY <1>1, RefundOfPrimary DEF RefundExists, OwnKeys
<1>3. /\ Available(Mint) \in Account /\ Available(Subject) \in Account
      /\ Available(Mint) # Available(Subject) /\ Amount \in Nat
      /\ DOMAIN balance = Account /\ balance[Available(Subject)] = 3 * Amount
  BY SubjectType, AccountsType, PaymentReplayAssumption, WorthIs DEF PInvOf, SoundBooks, Books, Own
<1>4. Covers(balance, Available(p.user), p.amount)
  BY <1>1, <1>3 DEF Covers
<1>5. /\ refunds' = Append(refunds, row)
      /\ Post("REFUND", Id(Len(refunds')), Available(p.user), Available(Mint), RefundAmount(p))
      /\ MarkRefunded(c.payment)
      /\ Answers(Client, "ok")
      /\ UNCHANGED <<disputes, compensations, ops>>
  BY <1>2, <1>4 DEF RefundCommits
<1>6. request'[Client].state = "ok"
  BY <1>5, Unread DEF PInvOf, CallsKnow
<1>7. refunds \in Seq(RefundTypeOf(AllCalls) \cup {row})
  BY SeqMonotonic DEF PInvOf, RowsTyped
<1>8. /\ DOMAIN refunds' = DOMAIN refunds \cup {j}
      /\ refunds'[j] = row
      /\ \A k \in DOMAIN refunds : refunds'[k] = refunds[k]
  BY <1>5, <1>7, AppendRow
<1>9. refunds'[j].payment = Primary /\ refunds'[j].key = "refund"
  BY <1>1, <1>8
<1>10. p \in PaymentTypeOf(AllCalls)
  BY ElementOfSeq, LenProperties DEF PInvOf, RowsTyped
<1>11. [p EXCEPT !.status = "REFUNDED"] \in PaymentTypeOf(AllCalls)
  BY <1>10 DEF PaymentTypeOf
<1>12. /\ DOMAIN payments' = DOMAIN payments
       /\ payments'[c.payment] = [p EXCEPT !.status = "REFUNDED"]
       /\ \A i \in DOMAIN payments : i # c.payment => payments'[i] = payments[i]
  BY <1>5, <1>11, StatusOfRow DEF PInvOf, RowsTyped, MarkRefunded
<1>13. \A i \in DOMAIN payments :
         /\ payments'[i].pid = payments[i].pid
         /\ payments'[i].event = payments[i].event
         /\ payments'[i].user = payments[i].user
         /\ payments'[i].amount = payments[i].amount
  BY <1>10, <1>12 DEF PaymentTypeOf
<1> HIDE DEF j, row
<1>14. Paid(10) = Paid(9) /\ Worth(10) = 2 * Amount /\ 10 > 9 /\ ~(9 > 12) /\ ~(10 > 12) /\ ~(9 > 13) /\ ~(10 > 13)
  BY PaidIs, WorthIs
<1>15. OwnPayments(10)'
  BY <1>12, <1>13, <1>14 DEF Own, OwnPayments
<1>16. OwnOps(10)'
  BY <1>5, <1>14 DEF Own, OwnOps
<1>17. OwnRefunds(10)'
  <2>1. \A k \in DOMAIN refunds : refunds[k].key \notin OwnKeys /\ payments[refunds[k].payment].user # Subject
    BY DEF Own, OwnRefunds
  <2>2. \A k \in DOMAIN refunds : refunds[k].payment \in DOMAIN payments
    BY DEF PInvOf, RowsTyped
  <2>3. payments'[Primary].pid = "primary"
    BY <1>1, <1>13
  <2> QED BY <1>8, <1>9, <1>13, <2>1, <2>2, <2>3 DEF OwnRefunds
<1>18. OwnDisputes(10)'
  <2>1. Mine(disputes)' = Mine(disputes)
    BY <1>5 DEF Mine
  <2> QED BY <1>5, <1>14, <2>1 DEF Own, OwnDisputes
<1>19. /\ DOMAIN ledger' = DOMAIN ledger \cup {<<"REFUND", Id(Len(refunds')), Available(Subject)>>,
                                              <<"REFUND", Id(Len(refunds')), Available(Mint)>>}
       /\ balance'[Available(Subject)] = 2 * Amount
  <2>1. Post("REFUND", Id(Len(refunds')), Available(Subject), Available(Mint), Amount)
    BY <1>1, <1>5 DEF RefundAmount
  <2>2. /\ DOMAIN ledger' = DOMAIN ledger \cup {<<"REFUND", Id(Len(refunds')), Available(Subject)>>,
                                               <<"REFUND", Id(Len(refunds')), Available(Mint)>>}
        /\ balance'[Available(Subject)] = balance[Available(Subject)] - Amount
    <3> DEFINE biz == Id(Len(refunds'))
    <3>1. Post("REFUND", biz, Available(Subject), Available(Mint), Amount) /\ 3 * Amount \in Int
      BY <1>3, <2>1
    <3> HIDE DEF biz
    <3>2. /\ DOMAIN ledger' = DOMAIN ledger \cup {<<"REFUND", biz, Available(Subject)>>,
                                                 <<"REFUND", biz, Available(Mint)>>}
          /\ balance'[Available(Subject)] = balance[Available(Subject)] - Amount
      BY <1>3, <3>1, PostOwn
    <3> QED BY <3>2 DEF biz
  <2> QED BY <1>3, <2>2
<1>20. OwnEntries(10)'
  <2>1. OwnRecharges' = OwnRecharges
    BY <1>19 DEF OwnRecharges
  <2>2. \A k \in DOMAIN ledger' : k = <<k[1], k[2], k[3]>>
    BY <1>19 DEF Own, OwnEntries
  <2> QED BY <1>14, <2>1, <2>2 DEF Own, OwnEntries
<1> QED BY <1>6, <1>14, <1>15, <1>16, <1>17, <1>18, <1>19, <1>20 DEF Own

\* The dispute of the run's user is her only one.
LEMMA Opens ==
  ASSUME PInvOf(AllCalls), Own(12), NEW c, c.user = Subject, DisputeCommits(Client, c)
  PROVE  request'[Client].state = "ok" /\ Own(13)'
<1> DEFINE row == [payment |-> c.payment, user |-> c.user, status |-> "OPEN"]
           d == Len(disputes) + 1
<1>1. /\ disputes' = Append(disputes, row)
      /\ Answers(Client, "ok")
      /\ UNCHANGED <<balance, ledger, payments, refunds, compensations, ops, notices>>
  BY DEF DisputeCommits
<1>2. request'[Client].state = "ok"
  BY <1>1, Unread DEF PInvOf, CallsKnow
<1>3. disputes \in Seq(DisputeType \cup {row})
  BY SeqMonotonic DEF PInvOf, RowsTyped
<1>4. /\ DOMAIN disputes' = DOMAIN disputes \cup {d}
      /\ disputes'[d] = row
      /\ \A e \in DOMAIN disputes : disputes'[e] = disputes[e]
  BY <1>1, <1>3, AppendRow
<1>5. disputes'[d].user = Subject /\ disputes'[d].status = "OPEN"
  BY <1>4
<1> HIDE DEF d, row
<1>6. /\ Paid(13) = Paid(12) /\ Worth(13) = Worth(12)
      /\ 12 > 9 /\ 13 > 9 /\ 13 > 12 /\ ~(12 > 12) /\ ~(12 > 13) /\ ~(13 > 13)
  BY PaidIs, WorthIs
<1>7. OwnPayments(13)'
  BY <1>1, <1>6 DEF Own, OwnPayments
<1>8. OwnOps(13)'
  BY <1>1, <1>6 DEF Own, OwnOps
<1>9. OwnRefunds(13)'
  BY <1>1, <1>6 DEF Own, OwnRefunds
<1>10. OwnDisputes(13)'
  <2>1. Mine(disputes) = {}
    BY <1>6 DEF Own, OwnDisputes
  <2>2. Mine(disputes)' = {d}
    BY <1>4, <1>5, <2>1 DEF Mine
  <2> QED BY <1>1, <1>5, <1>6, <2>2 DEF Own, OwnDisputes
<1>11. OwnEntries(13)'
  <2>1. OwnRecharges' = OwnRecharges
    BY <1>1 DEF OwnRecharges
  <2> QED BY <1>1, <1>6, <2>1 DEF Own, OwnEntries
<1>12. balance'[Available(Subject)] = Worth(13)
  BY <1>1, <1>6 DEF Own
<1> QED BY <1>2, <1>7, <1>8, <1>9, <1>10, <1>11, <1>12 DEF Own

\* The compensation is paid, once.
LEMMA Compensates ==
  ASSUME PInvOf(AllCalls), Own(13), NEW c, c.key = "compensation", c.dispute \in Mine(disputes),
         CompensateCommits(Client, c)
  PROVE  request'[Client].state = "resolved" /\ Own(14)'
<1> DEFINE d == c.dispute
           biz == Id(d)
<1>1. /\ d = PrimaryDispute /\ d \in DOMAIN disputes /\ disputes[d].user = Subject /\ disputes[d].status = "OPEN"
      /\ \A e \in Mine(disputes) : e = d
  BY DisputeIs, StatusOfDispute DEF Mine
<1>2. c.key \notin DOMAIN compensations
  BY DEF Own, OwnDisputes
<1>3. \A a : <<"COMPENSATION", biz, a>> \notin DOMAIN ledger
  BY <1>1 DEF PInvOf, EntriesMatchRows
<1>4. /\ compensations' = Insert(compensations, c.key, d)
      /\ Post("COMPENSATION", biz, Available(Mint), Available(Subject), Compensation)
      /\ disputes' = [disputes EXCEPT ![d].status = "RESOLVED"]
      /\ Answers(Client, "resolved")
      /\ UNCHANGED <<payments, refunds, ops>>
  BY <1>1, <1>2, <1>3 DEF CompensateCommits, Fresh
<1>5. request'[Client].state = "resolved"
  BY <1>4, Unread DEF PInvOf, CallsKnow
<1>6. disputes[d] \in DisputeType
  BY <1>1, ElementOfSeq, LenProperties DEF PInvOf, RowsTyped
<1>7. [disputes[d] EXCEPT !.status = "RESOLVED"] \in DisputeType
  BY <1>6 DEF DisputeType
<1>8. /\ DOMAIN disputes' = DOMAIN disputes
      /\ disputes'[d] = [disputes[d] EXCEPT !.status = "RESOLVED"]
      /\ \A e \in DOMAIN disputes : e # d => disputes'[e] = disputes[e]
  BY <1>1, <1>4, <1>7, StatusOfRow DEF PInvOf, RowsTyped
<1>9. disputes'[d].user = disputes[d].user /\ disputes'[d].status = "RESOLVED"
  BY <1>6, <1>8 DEF DisputeType
<1>10. /\ Paid(14) = Paid(13) /\ Worth(13) = 2 * Amount /\ Worth(14) = 2 * Amount + Compensation
       /\ 13 > 9 /\ 14 > 9 /\ 14 > 12 /\ 14 > 13
  BY PaidIs, WorthIs
<1> HIDE DEF biz
<1>11. /\ DOMAIN ledger' = DOMAIN ledger \cup {<<"COMPENSATION", biz, Available(Mint)>>,
                                              <<"COMPENSATION", biz, Available(Subject)>>}
       /\ balance'[Available(Subject)] = balance[Available(Subject)] + Compensation
  <2>1. /\ Available(Mint) \in Account /\ Available(Subject) \in Account
        /\ Available(Mint) # Available(Subject) /\ Compensation \in Nat
    BY SubjectType, AccountsType, PaymentsAssumption
  <2>2. DOMAIN balance = Account /\ balance[Available(Subject)] \in Int
    BY <2>1 DEF PInvOf, SoundBooks, Books
  <2> QED BY <1>4, <2>1, <2>2, PostOwn
<1>12. Mine(disputes)' = {d}
  <2>1. \A e \in DOMAIN disputes : disputes'[e].user = disputes[e].user
    BY <1>8, <1>9
  <2>2. Mine(disputes) = {d}
    BY <1>1
  <2> HIDE DEF d
  <2> QED BY <1>8, <2>1, <2>2 DEF Mine
<1> HIDE DEF d
<1>13. OwnPayments(14)'
  BY <1>4, <1>10 DEF Own, OwnPayments
<1>14. OwnOps(14)'
  BY <1>4, <1>10 DEF Own, OwnOps
<1>15. OwnRefunds(14)'
  BY <1>4, <1>10 DEF Own, OwnRefunds
<1>16. OwnDisputes(14)'
  BY <1>9, <1>10, <1>12 DEF OwnDisputes
<1>17. OwnEntries(14)'
  <2>1. OwnRecharges' = OwnRecharges
    BY <1>11 DEF OwnRecharges
  <2>2. \A k \in DOMAIN ledger' : k = <<k[1], k[2], k[3]>>
    BY <1>11 DEF Own, OwnEntries
  <2>3. {k \in DOMAIN ledger : k[1] = "COMPENSATION" /\ k[2] = biz} = {}
    BY <1>3 DEF Own, OwnEntries
  <2>4. {k \in DOMAIN ledger' : k[1] = "COMPENSATION" /\ k[2] = biz}
          = {<<"COMPENSATION", biz, Available(Mint)>>, <<"COMPENSATION", biz, Available(Subject)>>}
    BY <1>11, <2>3
  <2>5. Compensations(d)' = {<<"COMPENSATION", Id(d), Available(u)>> : u \in {Mint, Subject}}
    BY <2>4 DEF Compensations, biz
  <2> QED BY <1>10, <1>12, <2>1, <2>2, <2>5 DEF Own, OwnEntries
<1>18. balance'[Available(Subject)] = Worth(14)
  BY <1>10, <1>11 DEF Own
<1> QED BY <1>5, <1>13, <1>14, <1>15, <1>16, <1>17, <1>18 DEF Own

\* Each call that goes as far as its commit is answered as expected then.
LEMMA ClientFinishes ==
  ASSUME PInvOf(AllCalls), NEW n \in 1 .. 14, Own(n), request[Client].state = "begun",
         Committing(n, request[Client].call), Finishes(Client)
  PROVE  request'[Client].state = Right[n] /\ Own(n + 1)'
<1> DEFINE c == request[Client].call
<1>1. Knows(AllCalls, c)
  BY PaymentReplayAssumption DEF PInvOf, CallsKnow
<1>2. \/ c.op = "recharge" /\ RechargeCommits(Client, c, request[Client].seen)
      \/ c.op = "callback" /\ CallbackCommits(Client, c, request[Client].seen)
      \/ c.op = "refund" /\ RefundCommits(Client, c)
      \/ c.op = "dispute" /\ DisputeCommits(Client, c)
      \/ c.op = "compensate" /\ CompensateCommits(Client, c)
  BY DEF Finishes
<1>3. Committing(n, c)
  OBVIOUS
<1> HIDE DEF c
<1>4. CASE n \in {1, 5, 7}
  <2>1. /\ c.op = "callback" /\ c.pid \in OwnPids /\ c.event \in OwnEvents
        /\ c.user = Subject /\ c.amount = Amount
        /\ <<c.pid, c.event>> = CASE n = 1 -> <<"primary", "primary">>
                                  [] n = 5 -> <<"normal", "normal_original">>
                                  [] n = 7 -> <<"reverse", "reverse_late">>
    BY <1>3, <1>4 DEF Committing, Webhook, OwnPids, OwnEvents
  <2>2. Paid(n + 1) = Paid(n) \cup {<<c.pid, c.event>>}
    <3>1. CASE n = 1
      BY <2>1, <3>1, PaidIs
    <3>2. CASE n = 5
      BY <2>1, <3>2, PaidIs
    <3>3. CASE n = 7
      BY <2>1, <3>3, PaidIs
    <3> QED BY <1>4, <3>1, <3>2, <3>3
  <2>3. \A p \in Paid(n) : p[1] # c.pid /\ p[2] # c.event
    <3>1. CASE n = 1
      BY <3>1, PaidIs
    <3>2. CASE n = 5
      BY <2>1, <3>2, PaidIs
    <3>3. CASE n = 7
      BY <2>1, <3>3, PaidIs
    <3> QED BY <1>4, <3>1, <3>2, <3>3
  <2>4. Worth(n + 1) = Worth(n) + Amount
    BY <1>4, WorthIs, PaymentReplayAssumption
  <2>5. CallbackCommits(Client, c, request[Client].seen)
    BY <1>2, <2>1
  <2>6. request'[Client].state = "ok" /\ Own(n + 1)'
    BY <1>4, <2>1, <2>2, <2>3, <2>4, <2>5, Credits
  <2>7. Right[n] = "ok"
    BY <1>4 DEF Right
  <2> QED BY <2>6, <2>7
<1>5. CASE n = 9
  <2>1. c.op = "refund" /\ c.key = "refund" /\ payments[c.payment].pid = "primary"
    BY <1>3, <1>5 DEF Committing
  <2>2. c.payment \in DOMAIN payments /\ RefundCommits(Client, c)
    BY <1>1, <1>2, <2>1 DEF Knows
  <2>3. request'[Client].state = "ok" /\ Own(10)'
    BY <1>5, <2>1, <2>2, GivesBack
  <2> QED BY <1>5, <2>3 DEF Right
<1>6. CASE n = 12
  <2>1. c.op = "dispute" /\ c.user = Subject
    BY <1>3, <1>6 DEF Committing
  <2>2. request'[Client].state = "ok" /\ Own(13)'
    BY <1>2, <1>6, <2>1, Opens
  <2> QED BY <1>6, <2>2 DEF Right
<1>7. CASE n = 13
  <2>1. c.op = "compensate" /\ c.key = "compensation" /\ c.dispute \in Mine(disputes)
    BY <1>3, <1>7 DEF Committing
  <2>2. request'[Client].state = "resolved" /\ Own(14)'
    BY <1>2, <1>7, <2>1, Compensates
  <2> QED BY <1>7, <2>2 DEF Right
<1> QED BY <1>3, <1>4, <1>5, <1>6, <1>7 DEF Committing

-------------------------------------------------------------------------------
LEMMA SendsStep ==
  ASSUME PInvOf(AllCalls), NEW n \in 1 .. 14, Own(n), Begins(Client, Plan[n].call)
  PROVE  Sent(n)
<1>1. n \in {1, 5, 7} \/ n \in {2, 3, 6, 8} \/ n = 4 \/ n = 9 \/ n = 10 \/ n = 11 \/ n = 12 \/ n = 13 \/ n = 14
  OBVIOUS
<1> QED BY <1>1, SendsCredits, SendsRepeats, SendsUnsigned, SendsRefund, SendsRefundAgain, SendsSecondRefund,
           SendsDispute, SendsCompensation, SendsCompensationAgain

\* The invariant of the tables says more than that others keep apart.
LEMMA ApartOf == PInvOf(AllCalls) /\ OthersKnow => Apart
<1>1. PaymentTypeOf(AllCalls) \subseteq AnyPayment
  BY DEF PaymentTypeOf, AnyPayment
<1>2. DisputeType \subseteq AnyDispute
  BY DEF DisputeType, AnyDispute
<1> QED BY <1>1, <1>2, SeqMonotonic DEF PInvOf, RowsTyped, SoundBooks, Books, Apart

LEMMA ApartNext == PInvOf(AllCalls)' /\ OthersKnow' => Apart'
BY ApartOf, PTL

LEMMA OthersGoOnKnowing ==
  ASSUME Apart, UsersStay, \A q \in Requests \ {Client} : request'[q] = request[q]
  PROVE  OthersKnow'
<1> SUFFICES ASSUME NEW q \in Requests \ {Client}, request'[q].state = "begun"
             PROVE  /\ request'[q].call \in Traffic
                    /\ request'[q].call.op = "refund" => payments'[request'[q].call.payment].user # Subject
                    /\ request'[q].call.op = "compensate" => disputes'[request'[q].call.dispute].user # Subject
  BY DEF OthersKnow
<1> DEFINE c == request[q].call
<1>1. request[q].state = "begun" /\ request'[q].call = c
  OBVIOUS
<1>2. /\ c \in Traffic
      /\ c.op = "refund" => payments[c.payment].user # Subject
      /\ c.op = "compensate" => disputes[c.dispute].user # Subject
      /\ Knows(AllCalls, c)
  BY <1>1 DEF Apart, OthersKnow, CallsKnow
<1>3. /\ c.op = "refund" => c.payment \in DOMAIN payments
      /\ c.op = "compensate" => c.dispute \in DOMAIN disputes
  BY <1>2 DEF Knows
<1> HIDE DEF c
<1> QED BY <1>1, <1>2, <1>3 DEF UsersStay

\* No transaction gives a row to another user.
LEMMA FinishesUsers ==
  ASSUME PInvOf(AllCalls), NEW r \in Requests, Finishes(r)
  PROVE  UsersStay /\ \A q \in Requests : q # r => request'[q] = request[q]
<1> DEFINE c == request[r].call
<1>1. /\ Knows(AllCalls, c)
      /\ \/ c.op = "recharge" /\ RechargeCommits(r, c, request[r].seen)
         \/ c.op = "callback" /\ CallbackCommits(r, c, request[r].seen)
         \/ c.op = "refund" /\ RefundCommits(r, c)
         \/ c.op = "dispute" /\ DisputeCommits(r, c)
         \/ c.op = "compensate" /\ CompensateCommits(r, c)
  BY DEF Finishes, PInvOf, CallsKnow
<1> HIDE DEF c
<1>2. \E answer : Answers(r, answer)
  BY <1>1 DEF RechargeCommits, CallbackCommits, RefundCommits, DisputeCommits, CompensateCommits, Throws
<1>3. \A q \in Requests : q # r => request'[q] = request[q]
  BY <1>2 DEF Answers, PInvOf, CallsKnow
<1>4. \A i \in DOMAIN payments : i \in DOMAIN payments' /\ payments'[i].user = payments[i].user
  <2>1. CASE payments' = payments
    BY <2>1
  <2>2. CASE \E row : payments' = Append(payments, row)
    <3>1. PICK row : payments' = Append(payments, row)
      BY <2>2
    <3>2. payments \in Seq(PaymentTypeOf(AllCalls) \cup {row})
      BY SeqMonotonic DEF PInvOf, RowsTyped
    <3>3. \A i \in DOMAIN payments : i \in DOMAIN payments' /\ payments'[i] = payments[i]
      BY <3>1, <3>2, AppendRow
    <3> QED BY <3>3
  <2>3. CASE c.op = "refund" /\ MarkRefunded(c.payment)
    <3>1. c.payment \in DOMAIN payments
      BY <1>1, <2>3 DEF Knows
    <3>2. payments[c.payment] \in PaymentTypeOf(AllCalls)
      BY <3>1, ElementOfSeq, LenProperties DEF PInvOf, RowsTyped
    <3>3. [payments[c.payment] EXCEPT !.status = "REFUNDED"].user = payments[c.payment].user
      BY <3>2 DEF PaymentTypeOf
    <3> QED BY <2>3, <3>1, <3>3 DEF MarkRefunded
  <2> QED BY <1>1, <2>1, <2>2, <2>3
      DEF RechargeCommits, CallbackCommits, RefundCommits, DisputeCommits, CompensateCommits, Throws, rows
<1>5. \A d \in DOMAIN disputes : d \in DOMAIN disputes' /\ disputes'[d].user = disputes[d].user
  <2>1. CASE disputes' = disputes
    BY <2>1
  <2>2. CASE \E row : disputes' = Append(disputes, row)
    <3>1. PICK row : disputes' = Append(disputes, row)
      BY <2>2
    <3>2. disputes \in Seq(DisputeType \cup {row})
      BY SeqMonotonic DEF PInvOf, RowsTyped
    <3>3. \A d \in DOMAIN disputes : d \in DOMAIN disputes' /\ disputes'[d] = disputes[d]
      BY <3>1, <3>2, AppendRow
    <3> QED BY <3>3
  <2>3. CASE c.op = "compensate" /\ disputes' = [disputes EXCEPT ![c.dispute].status = "RESOLVED"]
    <3>1. c.dispute \in DOMAIN disputes
      BY <1>1, <2>3 DEF Knows
    <3>2. disputes[c.dispute] \in DisputeType
      BY <3>1, ElementOfSeq, LenProperties DEF PInvOf, RowsTyped
    <3>3. [disputes[c.dispute] EXCEPT !.status = "RESOLVED"].user = disputes[c.dispute].user
      BY <3>2 DEF DisputeType
    <3> QED BY <2>3, <3>1, <3>3
  <2> QED BY <1>1, <2>1, <2>2, <2>3
      DEF RechargeCommits, CallbackCommits, RefundCommits, DisputeCommits, CompensateCommits, Throws, rows
<1> QED BY <1>3, <1>4, <1>5 DEF UsersStay

\* What stands stays, whatever others do.
LEMMA StandsStays ==
  ASSUME PInvOf(AllCalls), Elsewhere, request'[Client] = request[Client], waiting' = waiting, NEW n \in 1 .. 15,
         Stands(n)
  PROVE  Stands(n)'
<1>1. \A j \in DOMAIN refunds : refunds[j].payment \in DOMAIN payments
  BY DEF PInvOf, RowsTyped
<1>2. Own(n) => Own(n)'
  BY <1>1, OwnStays
<1>3. Own(n + 1) => Own(n + 1)'
  BY <1>1, OwnStays
<1>4. ASSUME request[Client].state = "begun", Committing(n, request[Client].call)
      PROVE  Committing(n, request[Client].call)'
  <2> DEFINE c == request[Client].call
  <2>1. request'[Client].call = c /\ Committing(n, c) /\ Knows(AllCalls, c)
    BY <1>4, PaymentReplayAssumption DEF PInvOf, CallsKnow
  <2>2. c.op = "refund" => c.payment \in DOMAIN payments
    BY <2>1 DEF Knows
  <2>3. Mine(disputes) \subseteq Mine(disputes')
    BY DEF Mine, Elsewhere
  <2> HIDE DEF c
  <2>4. c.op = "refund" => payments'[c.payment].pid = payments[c.payment].pid
    BY <2>2 DEF Elsewhere
  <2> QED BY <2>1, <2>3, <2>4 DEF Committing
<1> QED BY <1>2, <1>3, <1>4 DEF Stands

\* Only an order freezes money, and nothing of this module ends one.
LEMMA QuietFrozen ==
  ASSUME FrozenForOrders, UNCHANGED <<balance, ledger>>
  PROVE  FrozenForOrders'
BY DEF FrozenForOrders, OpenOrders

LEMMA PostAvailable ==
  ASSUME FrozenForOrders, DOMAIN balance = Account, NEW type, type # "FREEZE", NEW biz, NEW u, NEW v, NEW amount,
         Post(type, biz, Available(u), Available(v), amount)
  PROVE  FrozenForOrders'
<1>0. \A w \in Users : Frozen(w) \in Account
  BY AccountsType
<1>1. \A w \in Users : balance'[Frozen(w)] = balance[Frozen(w)]
  BY <1>0 DEF Post, Change, Available, Frozen
<1>2. DOMAIN ledger' = DOMAIN ledger \cup {<<type, biz, Available(u)>>, <<type, biz, Available(v)>>}
  BY DEF Post, Insert
<1>3. OpenOrders' = OpenOrders
  BY <1>2 DEF OpenOrders
<1> QED BY <1>1, <1>3 DEF FrozenForOrders

LEMMA FreezesForOrder ==
  ASSUME FrozenForOrders, PInvOf(AllCalls), NEW u \in Business, Spends(u)
  PROVE  FrozenForOrders'
<1> DEFINE biz == <<"ORDER", u>>
<1>1. /\ <<"FREEZE", biz, Available(u)>> \notin DOMAIN ledger
      /\ Post("FREEZE", biz, Available(u), Frozen(u), Spending)
  BY DEF Spends, Fresh
<1>2. /\ DOMAIN balance = Account /\ Spending \in Nat
      /\ \A w \in Users : Frozen(w) \in Account
      /\ u \in Users
  BY AccountsType, PaymentsAssumption DEF PInvOf, SoundBooks, Books
<1>3. \A w \in Users : balance'[Frozen(w)] = IF w = u THEN balance[Frozen(w)] + Spending ELSE balance[Frozen(w)]
  BY <1>1, <1>2 DEF Post, Change, Available, Frozen
<1>4. DOMAIN ledger' = DOMAIN ledger \cup {<<"FREEZE", biz, Available(u)>>, <<"FREEZE", biz, Frozen(u)>>}
  BY <1>1 DEF Post, Insert
<1>5. \A w : <<"FREEZE", <<"ORDER", w>>, Available(w)>> \in DOMAIN ledger' <=>
              w = u \/ <<"FREEZE", <<"ORDER", w>>, Available(w)>> \in DOMAIN ledger
  BY <1>4 DEF Available, Frozen
<1>6. u \notin OpenOrders /\ \A w : w \in OpenOrders' <=> w = u \/ w \in OpenOrders
  BY <1>1, <1>5 DEF OpenOrders
<1> QED BY <1>2, <1>3, <1>6 DEF FrozenForOrders

LEMMA OrdersStay ==
  ASSUME FrozenForOrders, PInvOf(AllCalls),
         \/ \E r \in Requests : (\E c \in AllCalls : Begins(r, c)) \/ Finishes(r) \/ Dies(r)
         \/ \E k \in DOMAIN notices : MarkSent(k)
         \/ \E u \in Business : Spends(u)
  PROVE  FrozenForOrders'
<1>1. ASSUME NEW r \in Requests, NEW c \in AllCalls, Begins(r, c)
      PROVE  UNCHANGED <<balance, ledger>>
  BY <1>1 DEF Begins, RechargeReads, CallbackReads, RefundReads, DisputeReads, CompensateReads, Reads
<1>2. ASSUME NEW r \in Requests, Finishes(r)
      PROVE  FrozenForOrders'
  <2>1. DOMAIN balance = Account
    BY DEF PInvOf, SoundBooks, Books
  <2>2. \/ UNCHANGED <<balance, ledger>>
        \/ \E type, biz, u, v, amount : type # "FREEZE" /\ Post(type, biz, Available(u), Available(v), amount)
    <3> DEFINE c == request[r].call
    <3>1. \/ RechargeCommits(r, c, request[r].seen) \/ CallbackCommits(r, c, request[r].seen)
          \/ RefundCommits(r, c) \/ DisputeCommits(r, c) \/ CompensateCommits(r, c)
      BY <1>2 DEF Finishes
    <3> HIDE DEF c
    <3>2. CASE \E key, start : Recharge(c, key, start)
      BY <3>2 DEF Recharge
    <3>3. CASE \E answer : Throws(r, answer)
      BY <3>3 DEF Throws
    <3>4. CASE RefundCommits(r, c)
      BY <3>3, <3>4 DEF RefundCommits
    <3>5. CASE CompensateCommits(r, c)
      BY <3>3, <3>5 DEF CompensateCommits
    <3>6. CASE DisputeCommits(r, c)
      BY <3>6 DEF DisputeCommits
    <3>7. CASE RechargeCommits(r, c, request[r].seen) \/ CallbackCommits(r, c, request[r].seen)
      BY <3>2, <3>3, <3>7 DEF RechargeCommits, CallbackCommits
    <3> QED BY <3>1, <3>4, <3>5, <3>6, <3>7
  <2> QED BY <2>1, <2>2, QuietFrozen, PostAvailable
<1>3. ASSUME NEW r \in Requests, Dies(r)
      PROVE  UNCHANGED <<balance, ledger>>
  BY <1>3 DEF Dies, Throws
<1>4. ASSUME NEW k \in DOMAIN notices, MarkSent(k)
      PROVE  UNCHANGED <<balance, ledger>>
  BY <1>4 DEF MarkSent
<1> QED BY <1>1, <1>2, <1>3, <1>4, QuietFrozen, FreezesForOrder

\* So the escrow audit passes.
LEMMA EscrowAgrees == FrozenForOrders => EscrowMatches
<1> SUFFICES ASSUME FrozenForOrders
             PROVE  EscrowMatches
  OBVIOUS
<1> DEFINE Escrows == Users \X {"FROZEN"}
           Reward == [a \in Escrows |-> IF a[1] \in OpenOrders THEN Spending ELSE 0]
<1>1. IsFiniteSet(Escrows)
  BY UsersAssumption, FS_Singleton, FS_Product
<1>2. \A a \in Escrows : a[1] \in Users /\ a = Frozen(a[1])
  BY DEF Frozen
<1>3. \A a \in Escrows : balance[a] = Reward[a]
  BY <1>2 DEF FrozenForOrders
<1> HIDE DEF Escrows, Reward
<1>4. SumFunctionOnSet(balance, Escrows) = SumFunctionOnSet(Reward, Escrows)
  BY <1>1, <1>3, SumEqual
<1> QED BY <1>4 DEF EscrowMatches, Escrows, Reward

\* Before the script cleans up.
LEMMA CallingByOthers ==
  ASSUME Apart, Calling, Others, ~ (Finishes(Client) \/ Dies(Client))
  PROVE  Apart' /\ Calling'
<1>1. Apart' /\ Elsewhere /\ request'[Client] = request[Client]
  BY OthersStep
<1>2. UNCHANGED <<step, verdict, turn, waiting, asExpected, excused>>
  BY DEF Others, drill, script
<1>3. PInvOf(AllCalls)' /\ FrozenForOrders'
  <2>1. \/ \E r \in Requests : (\E c \in AllCalls : Begins(r, c)) \/ Finishes(r) \/ Dies(r)
        \/ \E k \in DOMAIN notices : MarkSent(k)
        \/ \E u \in Business : Spends(u)
    BY CallsAreTyped DEF Others
  <2> QED BY <2>1, CallsAreTyped, AnyStep, OrdersStay DEF Calling
<1>4. \A n \in 1 .. 15 : n = turn' => Stands(n)'
  BY <1>1, <1>2, StandsStays DEF Calling
<1> QED BY <1>1, <1>2, <1>3, <1>4 DEF Calling

\* The call that the script waits for is answered as expected, or is lost.
LEMMA CallingAnswered ==
  ASSUME Apart, Calling, Others, Finishes(Client) \/ Dies(Client)
  PROVE  Apart' /\ Calling'
<1>1. UNCHANGED <<step, verdict, turn, waiting, asExpected, excused>>
  BY DEF Others, drill, script
<1>2. PInvOf(AllCalls) /\ FrozenForOrders /\ Client \in Requests /\ request[Client].state = "begun"
  BY PaymentReplayAssumption DEF Calling, Finishes, Dies
<1>3. PInvOf(AllCalls)' /\ FrozenForOrders'
  BY <1>2, CallsAreTyped, AnyStep, OrdersStay
<1>4. UsersStay /\ \A q \in Requests : q # Client => request'[q] = request[q]
  <2>1. CASE Finishes(Client)
    BY <1>2, <2>1, FinishesUsers
  <2>2. CASE Dies(Client)
    BY <1>2, <2>2 DEF Dies, Throws, rows, UsersStay, Answers, PInvOf, CallsKnow
  <2> QED BY <2>1, <2>2
<1>5. Apart'
  <2>1. OthersKnow'
    BY <1>4, OthersGoOnKnowing
  <2> QED BY <1>3, <2>1, ApartNext
<1>6. ASSUME NEW n \in 1 .. 15, n = turn
      PROVE  Stands(n)'
  <2>1. waiting /\ n \in 1 .. 14 /\ Committing(n, request[Client].call) /\ Own(n)
    <3>1. Stands(n)
      BY <1>6 DEF Calling
    <3>2. \A m \in 1 .. 14 : Right[m] # "begun"
      BY PlanIs
    <3> QED BY <1>2, <3>1, <3>2 DEF Stands
  <2>2. CASE Finishes(Client)
    <3>1. request'[Client].state = Right[n] /\ Own(n + 1)'
      BY <1>2, <2>1, <2>2, ClientFinishes
    <3> QED BY <1>1, <2>1, <3>1 DEF Stands
  <2>3. CASE Dies(Client)
    <3>1. request'[Client].state = "lost"
      BY <1>2, <2>3, Unread DEF Dies, Throws, PInvOf, CallsKnow
    <3> QED BY <1>1, <2>1, <3>1 DEF Stands
  <2> QED BY <2>2, <2>3
<1> QED BY <1>1, <1>3, <1>5, <1>6 DEF Calling

LEMMA CallingSends ==
  ASSUME Apart, Calling, Sends
  PROVE  Apart' /\ Calling'
<1>1. /\ step = "calls" /\ ~waiting /\ waiting' = TRUE /\ Begins(Client, Plan[turn].call)
      /\ UNCHANGED <<step, verdict, turn, asExpected, excused>> /\ turn \in 1 .. 14
  BY DEF Sends, Calling, At, script
<1> DEFINE c == Plan[turn].call
<1>2. PInvOf(AllCalls) /\ Own(turn) /\ Client \in Requests /\ DOMAIN request = Requests
  <2>1. \A n \in 1 .. 15 : n = turn => Stands(n)
    BY DEF Calling
  <2>2. turn \in 1 .. 15
    BY <1>1
  <2>3. Stands(turn)
    BY <2>1, <2>2
  <2> QED BY <1>1, <2>3, PaymentReplayAssumption DEF Stands, Calling, PInvOf, CallsKnow
<1>3. c \in AllCalls
  BY <1>1, <1>2, PlannedCalls
<1>4. PInvOf(AllCalls)'
  BY <1>1, <1>2, <1>3, CallsAreTyped, AnyStep
<1>5. UNCHANGED <<balance, ledger, payments, refunds, disputes, compensations, ops, notices>>
  BY <1>1 DEF Begins, RechargeReads, CallbackReads, RefundReads, DisputeReads, CompensateReads, Reads, rows
<1>6. \A q \in Requests : q # Client => request'[q] = request[q]
  <2> HIDE DEF c
  <2>1. \E x : request' = [request EXCEPT ![Client] = x]
    BY <1>1 DEF c, Begins, RechargeReads, CallbackReads, RefundReads, DisputeReads, CompensateReads, Reads, Answers
  <2> QED BY <1>2, <2>1
<1>7. Apart'
  <2>1. UsersStay
    BY <1>5 DEF UsersStay
  <2>2. OthersKnow'
    BY <1>6, <2>1, OthersGoOnKnowing
  <2> QED BY <1>4, <2>2, ApartNext
<1>8. FrozenForOrders'
  BY <1>5, QuietFrozen DEF Calling
<1>9. ASSUME NEW n \in 1 .. 15, n = turn
      PROVE  Stands(n)'
  <2>1. n \in 1 .. 14 /\ Own(n) /\ Begins(Client, Plan[n].call)
    BY <1>1, <1>2, <1>9
  <2>2. Sent(n)
    BY <1>2, <2>1, SendsStep
  <2>3. Own(n + 1) => Own(n + 1)'
    BY <1>5 DEF Own, OwnPayments, OwnOps, OwnRefunds, OwnDisputes, OwnEntries, OwnRecharges, Compensations, Mine
  <2>4. Own(n)'
    BY <1>5, <2>1 DEF Own, OwnPayments, OwnOps, OwnRefunds, OwnDisputes, OwnEntries, OwnRecharges, Compensations, Mine
  <2>5. ASSUME request'[Client].state = "begun", request'[Client].call = Plan[n].call, Committing(n, Plan[n].call)
        PROVE  Committing(n, request[Client].call)'
    <3> DEFINE d == Plan[n].call
    <3>1. request'[Client].call = d /\ Committing(n, d)
      BY <2>5
    <3> HIDE DEF d
    <3> QED BY <1>5, <3>1 DEF Committing, Mine
  <2> QED BY <1>1, <2>1, <2>2, <2>3, <2>4, <2>5 DEF Sent, Stands
<1> QED BY <1>1, <1>4, <1>7, <1>8, <1>9 DEF Calling

\* The tables stay as they are while the script looks at an answer or decides.
LEMMA PausedOwn ==
  ASSUME UNCHANGED vars, NEW n, Own(n)
  PROVE  Own(n)'
BY DEF vars, rows, Own, OwnPayments, OwnOps, OwnRefunds, OwnDisputes, OwnEntries, OwnRecharges, Compensations, Mine

LEMMA PausedApart ==
  ASSUME UNCHANGED vars, Apart
  PROVE  Apart'
BY DEF vars, rows, Apart, CallsKnow, Knows, OthersKnow

LEMMA CallingSetsUp ==
  ASSUME Apart, Calling, Setup
  PROVE  /\ Apart' /\ (Calling' \/ Cleaning')
         /\ (verdict' = "open" /\ UNCHANGED <<asExpected, excused>>) \/ excused'
<1>1. /\ step = "setup" /\ turn = 1 /\ ~waiting /\ PInvOf(AllCalls) /\ verdict = "open"
      /\ UNCHANGED <<vars, waiting, asExpected>>
  BY DEF Setup, At, Calling
<1>2. Apart' /\ PInvOf(AllCalls)' /\ FrozenForOrders'
  BY <1>1, PausedApart, PauseStep, QuietFrozen DEF vars, Calling
<1>3. ~waiting /\ request[Client].state # "begun" /\ Own(1)
  BY <1>1 DEF Calling, Stands
<1>4. Own(1)' /\ request' = request
  BY <1>1, <1>3, PausedOwn DEF vars
<1>5. CASE Goes("calls") /\ UNCHANGED <<turn, excused>>
  BY <1>1, <1>2, <1>3, <1>4, <1>5 DEF Goes, Calling, Stands
<1>6. CASE Breaks
  BY <1>1, <1>2, <1>3, <1>4, <1>6 DEF Breaks, Raises, Cleaning
<1> QED BY <1>2, <1>5, <1>6 DEF Setup

LEMMA CallingReceives ==
  ASSUME Apart, Calling, Receives
  PROVE  /\ Apart' /\ (Calling' \/ Cleaning')
         /\ (verdict' = "open" /\ (asExpected => asExpected') /\ (excused => excused')) \/ excused'
<1>1. /\ step = "calls" /\ waiting /\ waiting' = FALSE /\ UNCHANGED vars /\ turn \in 1 .. 14
      /\ request[Client].state # "begun" /\ PInvOf(AllCalls) /\ verdict = "open"
  BY DEF Receives, At, Calling
<1>2. Apart' /\ PInvOf(AllCalls)' /\ FrozenForOrders' /\ request' = request
  BY <1>1, PausedApart, PauseStep, QuietFrozen DEF vars, Calling
<1>3. /\ Plan[turn].right = Right[turn] /\ Right[turn] # "lost"
      /\ Len(Plan) = 14
  BY <1>1, PlanIs
<1>4. Stands(turn)
  <2>1. \A n \in 1 .. 15 : n = turn => Stands(n)
    BY DEF Calling
  <2>2. turn \in 1 .. 15
    BY <1>1
  <2> QED BY <2>1, <2>2
<1>5. CASE request[Client].state = "lost"
  <2>1. Breaks
    BY <1>5 DEF Receives
  <2> QED BY <1>1, <1>2, <2>1 DEF Breaks, Raises, Cleaning
<1>6. CASE request[Client].state # "lost"
  <2>1. request[Client].state = Right[turn] /\ Own(turn + 1)
    BY <1>1, <1>4, <1>6 DEF Stands
  <2>2. asExpected => asExpected'
    <3>1. asExpected' = (asExpected /\ request[Client].state = Plan[turn].right)
      BY DEF Receives
    <3> QED BY <1>3, <2>1, <3>1
  <2>3. turn' = turn + 1 /\ Goes(IF turn = Len(Plan) THEN "recon" ELSE "calls") /\ UNCHANGED excused
    BY <1>3, <1>6, <2>1 DEF Receives
  <2>4. turn' \in 2 .. 15 /\ (turn' = 15 <=> turn = 14)
    BY <1>1, <2>3
  <2>5. step' = (IF turn = 14 THEN "recon" ELSE "calls") /\ verdict' = "open"
    BY <1>1, <1>3, <2>3 DEF Goes
  <2>6. ASSUME NEW n \in 1 .. 15, n = turn'
        PROVE  Stands(n)'
    <3>1. Own(n)
      BY <2>1, <2>3, <2>6
    <3>2. Own(n)'
      BY <1>1, <3>1, PausedOwn
    <3> QED BY <1>1, <1>2, <3>2 DEF Stands
  <2> QED BY <1>1, <1>2, <2>2, <2>3, <2>4, <2>5, <2>6 DEF Calling
<1> QED BY <1>5, <1>6

\* What reconciliation and the counts find at the end.
LEMMA Reckons ==
  ASSUME Calling, step \in {"recon", "counts"}
  PROVE  /\ PInvOf(AllCalls) /\ FrozenForOrders /\ turn = 15 /\ ~waiting /\ request[Client].state # "begun"
         /\ Own(15)
         /\ verdict = "open"
BY DEF Calling, Stands

LEMMA CallingReconciles ==
  ASSUME Apart, Calling, Reconciles
  PROVE  /\ Apart' /\ (Calling' \/ Cleaning')
         /\ (verdict' = "open" /\ (asExpected => asExpected') /\ (excused => excused')) \/ excused'
<1>1. step = "recon" /\ UNCHANGED <<vars, waiting>>
  BY DEF Reconciles, At
<1>2. /\ PInvOf(AllCalls) /\ FrozenForOrders /\ turn = 15 /\ ~waiting /\ request[Client].state # "begun"
      /\ Own(15) /\ verdict = "open"
  BY <1>1, Reckons
<1>3. Apart' /\ PInvOf(AllCalls)' /\ FrozenForOrders' /\ request' = request
  BY <1>1, <1>2, PausedApart, PauseStep, QuietFrozen DEF vars
<1>4. Own(15)'
  BY <1>1, <1>2, PausedOwn
<1>5. LedgerSumsToZero /\ BalancesMatchLedger /\ EscrowMatches /\ OnlyMintNegative
  BY <1>2, InvImplies, EscrowAgrees
<1>6. CASE Breaks
  BY <1>1, <1>2, <1>3, <1>6 DEF Breaks, Raises, Cleaning
<1>7. CASE ~Breaks
  <2>1. Goes("counts") /\ UNCHANGED turn
    BY <1>7 DEF Reconciles
  <2>2. Calling'
    BY <1>1, <1>2, <1>3, <1>4, <2>1 DEF Goes, Calling, Stands
  <2>3. excused' \/ ((asExpected => asExpected') /\ (excused => excused'))
    <3>1. CASE excused' = TRUE
      BY <3>1
    <3>2. ASSUME NEW overdue \in BOOLEAN,
                 asExpected' = (asExpected /\ LedgerSumsToZero /\ BalancesMatchLedger /\ EscrowMatches
                                /\ OnlyMintNegative /\ ~overdue),
                 excused' = (excused \/ overdue)
          PROVE  (excused => excused') /\ ((asExpected => asExpected') \/ excused')
      BY <1>5, <3>2
    <3> QED BY <1>7, <3>1, <3>2 DEF Reconciles
  <2> QED BY <1>2, <1>3, <2>1, <2>2, <2>3 DEF Goes
<1> QED BY <1>6, <1>7

LEMMA CountsRight ==
  ASSUME PInvOf(AllCalls), Own(15)
  PROVE  CountsAreRight
<1>1. Cardinality({i \in DOMAIN payments : payments[i].pid = "primary"}) = 1
  <2>1. {i \in DOMAIN payments : payments[i].pid = "primary"} = {Primary}
    BY PrimaryIs
  <2> QED BY <2>1, FS_Singleton
<1>2. Cardinality({j \in DOMAIN refunds : refunds[j].key = "refund"}) = 1
  <2>1. PICK j \in DOMAIN refunds : refunds[j].key = "refund"
    BY DEF Own, OwnRefunds
  <2>2. \A k \in DOMAIN refunds : refunds[k].key = "refund" => refunds[k].payment = Primary
    BY RefundOfPrimary DEF OwnKeys
  <2>3. {k \in DOMAIN refunds : refunds[k].key = "refund"} = {j}
    BY <2>1, <2>2 DEF PInvOf, RefundedOnce
  <2> QED BY <2>3, FS_Singleton
<1>3. <<"PAYMENT", Primary>> \in DOMAIN notices
  BY PrimaryIs DEF PInvOf, Notified
<1>4. Cardinality(OwnRecharges) = 3
  <2> DEFINE entry(e) == <<"RECHARGE", PaymentKey(e), Available(Subject)>>
             first == entry("primary")
             second == entry("normal_original")
             third == entry("reverse_late")
  <2>1. OwnRecharges = {first, second, third}
    <3>1. Paid(15) = {<<"primary", "primary">>, <<"normal", "normal_original">>, <<"reverse", "reverse_late">>}
      BY PaidIs
    <3>2. OwnRecharges = {<<"RECHARGE", PaymentKey(p[2]), Available(Subject)>> : p \in Paid(15)}
      BY DEF Own, OwnEntries
    <3> DEFINE a == <<"primary", "primary">>
               b == <<"normal", "normal_original">>
               c == <<"reverse", "reverse_late">>
    <3>3. Paid(15) = {a, b, c} /\ first = entry(a[2]) /\ second = entry(b[2]) /\ third = entry(c[2])
      BY <3>1
    <3> HIDE DEF a, b, c, first, second, third
    <3> QED BY <3>2, <3>3
  <2>2. first # second /\ first # third /\ second # third
    BY DEF PaymentKey
  <2> HIDE DEF first, second, third
  <2>3. IsFiniteSet({first}) /\ Cardinality({first}) = 1 /\ second \notin {first}
    BY <2>2, FS_Singleton
  <2>4. IsFiniteSet({first} \cup {second}) /\ Cardinality({first} \cup {second}) = 2 /\ third \notin {first} \cup {second}
    BY <2>2, <2>3, FS_AddElement
  <2>5. Cardinality(({first} \cup {second}) \cup {third}) = 3
    BY <2>4, FS_AddElement
  <2>6. ({first} \cup {second}) \cup {third} = {first, second, third}
    OBVIOUS
  <2> QED BY <2>1, <2>5, <2>6
<1>5. Cardinality(Compensations(PrimaryDispute)) = 2
  <2> DEFINE half(u) == <<"COMPENSATION", Id(PrimaryDispute), Available(u)>>
             one == half(Mint)
             other == half(Subject)
  <2>1. Compensations(PrimaryDispute) = {one, other}
    <3>1. PrimaryDispute \in Mine(disputes)
      BY DisputeIs
    <3>2. Compensations(PrimaryDispute) = {<<"COMPENSATION", Id(PrimaryDispute), Available(u)>> : u \in {Mint, Subject}}
      BY <3>1 DEF Own, OwnEntries
    <3> QED BY <3>2
  <2>2. one # other
    BY SubjectType
  <2> HIDE DEF one, other
  <2>3. IsFiniteSet({one}) /\ Cardinality({one}) = 1 /\ other \notin {one}
    BY <2>2, FS_Singleton
  <2>4. Cardinality({one} \cup {other}) = 2
    BY <2>3, FS_AddElement
  <2>5. {one} \cup {other} = {one, other}
    OBVIOUS
  <2> QED BY <2>1, <2>4, <2>5
<1> QED BY <1>1, <1>2, <1>3, <1>4, <1>5 DEF CountsAreRight, OwnRecharges, Compensations

LEMMA CallingDecides ==
  ASSUME Apart, Calling, asExpected \/ excused, Decides
  PROVE  Apart' /\ Cleaning' /\ (excused' \/ (verdict' = "passed" /\ asExpected'))
<1>1. step = "counts" /\ UNCHANGED <<vars, waiting>> /\ step' = "cleanup"
  BY DEF Decides, At, Breaks, Raises
<1>2. PInvOf(AllCalls) /\ ~waiting /\ request[Client].state # "begun" /\ Own(15)
  BY <1>1, Reckons
<1>3. Apart' /\ request' = request /\ balance' = balance
  BY <1>1, PausedApart DEF vars
<1>4. balance[Available(Subject)] = 2 * Amount + Compensation
  BY <1>2, WorthIs DEF Own
<1>5. excused' \/ (verdict' = "passed" /\ asExpected')
  <2>1. CASE Breaks
    BY <2>1 DEF Breaks
  <2>2. CASE ~Breaks
    <3>1. /\ asExpected' = (asExpected /\ CountsAreRight)
          /\ verdict' = IF asExpected' THEN "passed" ELSE "failed"
          /\ excused' = excused
      BY <2>2 DEF Decides
    <3>2. CASE asExpected
      BY <1>2, <3>1, <3>2, CountsRight
    <3> QED BY <3>1, <3>2
  <2> QED BY <2>1, <2>2
<1> QED BY <1>1, <1>2, <1>3, <1>4, <1>5 DEF Cleaning

\* While the script cleans up.
LEMMA DeletedPayments ==
  ASSUME payments \in Seq(AnyPayment)
  PROVE  /\ Deleted(payments) \in Seq(AnyPayment)
         /\ DOMAIN Deleted(payments) = DOMAIN payments
         /\ \A i \in DOMAIN payments : Deleted(payments)[i].user = payments[i].user
<1>1. \A i \in DOMAIN payments :
        /\ Deleted(payments)[i] \in AnyPayment
        /\ Deleted(payments)[i].user = payments[i].user
  <2> SUFFICES ASSUME NEW i \in DOMAIN payments
               PROVE  /\ Deleted(payments)[i] \in AnyPayment
                      /\ Deleted(payments)[i].user = payments[i].user
    OBVIOUS
  <2>1. payments[i] \in AnyPayment
    BY PaymentRows
  <2>2. /\ [payments[i] EXCEPT !.status = "DELETED"] \in AnyPayment
        /\ [payments[i] EXCEPT !.status = "DELETED"].user = payments[i].user
    BY <2>1 DEF AnyPayment
  <2> QED BY <2>1, <2>2 DEF Deleted
<1>2. DOMAIN Deleted(payments) = 1 .. Len(payments) /\ Len(payments) \in Nat /\ DOMAIN payments = 1 .. Len(payments)
  BY LenProperties DEF Deleted
<1>3. Deleted(payments) = [i \in 1 .. Len(payments) |-> Deleted(payments)[i]]
  BY <1>2 DEF Deleted
<1>4. Deleted(payments) \in [1 .. Len(payments) -> AnyPayment]
  BY <1>1, <1>2, <1>3
<1> QED BY <1>1, <1>2, <1>4, SeqDef

LEMMA DeletedDisputes ==
  ASSUME disputes \in Seq(AnyDispute)
  PROVE  /\ Deleted(disputes) \in Seq(AnyDispute)
         /\ DOMAIN Deleted(disputes) = DOMAIN disputes
         /\ \A d \in DOMAIN disputes : Deleted(disputes)[d].user = disputes[d].user
<1>1. \A d \in DOMAIN disputes :
        /\ Deleted(disputes)[d] \in AnyDispute
        /\ Deleted(disputes)[d].user = disputes[d].user
  <2> SUFFICES ASSUME NEW d \in DOMAIN disputes
               PROVE  /\ Deleted(disputes)[d] \in AnyDispute
                      /\ Deleted(disputes)[d].user = disputes[d].user
    OBVIOUS
  <2>1. disputes[d] \in AnyDispute
    BY DisputeRows
  <2>2. /\ [disputes[d] EXCEPT !.status = "DELETED"] \in AnyDispute
        /\ [disputes[d] EXCEPT !.status = "DELETED"].user = disputes[d].user
    BY <2>1 DEF AnyDispute
  <2> QED BY <2>1, <2>2 DEF Deleted
<1>2. DOMAIN Deleted(disputes) = 1 .. Len(disputes) /\ Len(disputes) \in Nat /\ DOMAIN disputes = 1 .. Len(disputes)
  BY LenProperties DEF Deleted
<1>3. Deleted(disputes) = [d \in 1 .. Len(disputes) |-> Deleted(disputes)[d]]
  BY <1>2 DEF Deleted
<1>4. Deleted(disputes) \in [1 .. Len(disputes) -> AnyDispute]
  BY <1>1, <1>2, <1>3
<1> QED BY <1>1, <1>2, <1>4, SeqDef

LEMMA CleaningDeletes ==
  ASSUME Apart, Cleaning, CleansUp
  PROVE  /\ UNCHANGED <<verdict, asExpected, excused>>
         /\ (Apart' /\ Cleaning') \/ step' = "end"
<1>0. UNCHANGED <<verdict, asExpected, excused>>
  BY DEF CleansUp, Goes
<1> SUFFICES ASSUME step' # "end"
             PROVE  Apart' /\ Cleaning'
  BY <1>0
<1>1. /\ \/ turn = 1 /\ DeletesCompensations
         \/ turn = 2 /\ DeletesDisputes
         \/ turn = 3 /\ DeletesNotifications
         \/ turn = 4 /\ DeletesPayments
         \/ turn = 5 /\ DeletesEntries
         \/ turn = 6 /\ DeletesKeys
         \/ turn = 7 /\ DeletesAccounts
      /\ Goes(IF turn = 7 THEN "end" ELSE "cleanup")
      /\ waiting' = waiting
  BY DEF CleansUp
<1>2. turn # 7 /\ step' = "cleanup" /\ verdict' = verdict
  BY <1>1 DEF Goes
<1>3. balance' = balance /\ refunds' = refunds /\ request' = request
  BY <1>1, <1>2 DEF DeletesCompensations, DeletesDisputes, DeletesNotifications, DeletesPayments, DeletesEntries,
                    DeletesKeys, rows
<1>4. /\ payments' = payments \/ payments' = Deleted(payments)
      /\ disputes' = disputes \/ disputes' = Deleted(disputes)
  BY <1>1, <1>2 DEF DeletesCompensations, DeletesDisputes, DeletesNotifications, DeletesPayments, DeletesEntries,
                    DeletesKeys, rows
<1>5. UsersStay /\ payments' \in Seq(AnyPayment) /\ disputes' \in Seq(AnyDispute)
  BY <1>4, DeletedPayments, DeletedDisputes DEF Apart, UsersStay
<1>6. Apart'
  BY <1>3, <1>5, ApartStays DEF Apart
<1> QED BY <1>1, <1>2, <1>3, <1>6 DEF Cleaning

LEMMA CleaningByOthers ==
  ASSUME Apart, Cleaning, Others
  PROVE  Apart' /\ Cleaning' /\ UNCHANGED <<verdict, asExpected, excused>>
<1>1. UNCHANGED <<step, verdict, turn, waiting, asExpected, excused>>
  BY DEF Others, drill, script
<1>2. ~ (Finishes(Client) \/ Dies(Client))
  BY DEF Cleaning, Finishes, Dies
<1>3. Apart' /\ Elsewhere /\ request'[Client] = request[Client]
  BY <1>2, OthersStep
<1> QED BY <1>1, <1>3 DEF Cleaning, Elsewhere

LEMMA ReplayStep == RInv /\ [DrillNext]_drillVars => RInv'
<1> SUFFICES ASSUME RInv, [DrillNext]_drillVars
             PROVE  RInv'
  OBVIOUS
<1>1. CASE step = "end"
  <2>1. step' = "end" /\ UNCHANGED <<verdict, asExpected, excused>>
    BY <1>1 DEF DrillNext, Drill, Setup, Sends, Receives, Reconciles, Decides, CleansUp, At, Others, drillVars, drill, script
  <2> QED BY <2>1 DEF RInv
<1>2. CASE Apart /\ Calling
  <2>0. verdict = "open" /\ (asExpected \/ excused)
    BY <1>2 DEF Calling, RInv
  <2>1. CASE Others
    <3>1. UNCHANGED <<verdict, asExpected, excused>>
      BY <2>1 DEF Others, drill, script
    <3> QED BY <1>2, <2>1, <3>1, CallingByOthers, CallingAnswered DEF RInv
  <2>2. CASE Setup
    BY <1>2, <2>0, <2>2, CallingSetsUp DEF RInv
  <2>3. CASE Sends
    <3>1. UNCHANGED <<verdict, asExpected, excused>>
      BY <2>3 DEF Sends, script
    <3> QED BY <1>2, <2>3, <3>1, CallingSends DEF RInv
  <2>4. CASE Receives
    BY <1>2, <2>0, <2>4, CallingReceives DEF RInv
  <2>5. CASE Reconciles
    BY <1>2, <2>0, <2>5, CallingReconciles DEF RInv
  <2>6. CASE Decides
    BY <1>2, <2>0, <2>6, CallingDecides DEF RInv
  <2>7. CASE CleansUp
    BY <1>2, <2>7 DEF CleansUp, At, Calling
  <2>8. CASE UNCHANGED drillVars
    <3>1. UNCHANGED <<vars, step, verdict, turn, waiting, asExpected, excused>>
      BY <2>8 DEF drillVars, drill, script
    <3>2. Apart' /\ PInvOf(AllCalls)' /\ FrozenForOrders' /\ request' = request
      BY <1>2, <3>1, PausedApart, PauseStep, QuietFrozen DEF Calling, vars
    <3>3. ASSUME NEW n, Stands(n)
          PROVE  Stands(n)'
      <4>1. (Own(n) => Own(n)') /\ (Own(n + 1) => Own(n + 1)')
        BY <3>1, PausedOwn
      <4>2. Committing(n, request[Client].call) => Committing(n, request[Client].call)'
        BY <3>1 DEF vars, rows, Committing, Mine
      <4> QED BY <3>1, <3>2, <3>3, <4>1, <4>2 DEF Stands
    <3>4. \A n \in 1 .. 15 : n = turn' => Stands(n)'
      BY <1>2, <3>1, <3>3 DEF Calling
    <3> QED BY <1>2, <3>1, <3>2, <3>4 DEF Calling, RInv
  <2> QED BY <2>1, <2>2, <2>3, <2>4, <2>5, <2>6, <2>7, <2>8 DEF DrillNext, Drill
<1>3. CASE Apart /\ Cleaning
  <2>1. CASE Others
    BY <1>3, <2>1, CleaningByOthers DEF RInv
  <2>2. CASE CleansUp
    BY <1>3, <2>2, CleaningDeletes DEF RInv
  <2>3. CASE Setup \/ Sends \/ Receives \/ Reconciles \/ Decides
    BY <1>3, <2>3 DEF Setup, Sends, Receives, Reconciles, Decides, At, Cleaning
  <2>4. CASE UNCHANGED drillVars
    <3>1. UNCHANGED <<vars, step, verdict, turn, waiting, asExpected, excused>>
      BY <2>4 DEF drillVars, drill, script
    <3>2. Apart' /\ request' = request /\ balance' = balance
      BY <1>3, <3>1, PausedApart DEF vars
    <3> QED BY <1>3, <3>1, <3>2 DEF Cleaning, RInv
  <2> QED BY <2>1, <2>2, <2>3, <2>4 DEF DrillNext, Drill
<1> QED BY <1>1, <1>2, <1>3 DEF RInv

LEMMA ReplayBegins == DrillInit => RInv
<1> SUFFICES ASSUME DrillInit
             PROVE  RInv
  OBVIOUS
<1>1. PInvOf(AllCalls)
  BY InitPInv DEF DrillInit
<1>2. /\ DOMAIN payments = {} /\ DOMAIN refunds = {} /\ DOMAIN disputes = {} /\ DOMAIN ops = {}
      /\ DOMAIN ledger = {} /\ DOMAIN compensations = {}
      /\ balance[Available(Subject)] = 0
      /\ \A r \in Requests : request[r].state = "idle"
  BY SubjectType DEF DrillInit, Init
<1>3. Own(1)
  <2>1. Paid(1) = {} /\ Worth(1) = 0 /\ ~(1 > 9) /\ ~(1 > 12) /\ ~(1 > 13)
    BY PaidIs, WorthIs
  <2> QED BY <1>2, <2>1 DEF Own, OwnPayments, OwnOps, OwnRefunds, OwnDisputes, OwnEntries, OwnRecharges, Mine
<1>4. Apart
  BY <1>1, <1>2, ApartOf DEF OthersKnow
<1>5. FrozenForOrders
  BY <1>2, AccountsType DEF FrozenForOrders, OpenOrders, DrillInit, Init
<1>6. Calling
  BY <1>1, <1>2, <1>3, <1>5, PaymentReplayAssumption DEF Calling, Stands, DrillInit
<1> QED BY <1>4, <1>6 DEF RInv, DrillInit

\* What is true of the replay at each of its steps, whatever other users do.
THEOREM ReplayInvariant == DrillSpec => []RInv
BY ReplayBegins, ReplayStep, PTL DEF DrillSpec

\* Every answer and count is what the script expects, and the books balance, up to
\* the first call that breaks: a FAIL only comes of such a call, or of an order
\* of somebody else that was overdue when the script reconciled.
THEOREM ReplayRaisesNoFalseAlarm == DrillSpec => []NoFalseAlarm
<1>1. RInv => NoFalseAlarm
  BY DEF RInv, NoFalseAlarm
<1> QED BY <1>1, ReplayInvariant, PTL

\* A PASS means that the wallet of the run's user holds what three payments, one
\* refund and one compensation leave there, although nothing looks at it.
THEOREM ReplayPassMeansRightMoney == DrillSpec => []PassedMeansRightMoney
<1>1. RInv => PassedMeansRightMoney
  BY DEF RInv, PassedMeansRightMoney, Calling, Cleaning, At
<1> QED BY <1>1, ReplayInvariant, PTL
===============================================================================
