----------------------------- MODULE EscrowProofs -----------------------------
(***************************************************************************)
(* The audits of Escrow hold for every set of users, orders, amounts,      *)
(* request keys and instants, and for every commission rate.               *)
(*                                                                         *)
(* The audits are inductive together but not one by one: that the entries  *)
(* of a transaction are fresh and the frozen balance covers them is a      *)
(* guard, but that the entries left are the ones the new status calls for  *)
(* needs EntriesMatchStatus, and the escrow sum needs the status.  The     *)
(* strengthening is therefore their conjunction with the type invariant.   *)
(***************************************************************************)
EXTENDS Escrow, AccountsProofs

IInv ==
  /\ TypeOK
  /\ BalancesMatchLedger
  /\ LedgerSumsToZero
  /\ OnlyMintNegative
  /\ EscrowMatchesOpenOrders
  /\ EntriesMatchStatus
  /\ RowsMatchStatus

LEMMA BooksHold ==
  ASSUME TypeOK, BalancesMatchLedger
  PROVE  Books(balance, ledger)
BY DEF TypeOK, BalancesMatchLedger, Books, LedgerOK, Match

\* Only a fraction of the reward goes to the platform.
LEMMA CommissionBounds ==
  ASSUME NEW r \in Nat
  PROVE  Commission(r) \in 0 .. r
<1>1. RateNum \in Nat /\ RateDen \in Nat \ {0} /\ RateNum <= RateDen
  BY EscrowAssumption
<1> DEFINE x == r * RateNum
           q == x \div RateDen
<1>2. x \in Nat /\ x <= r * RateDen
  BY <1>1, SMTT(30)
<1>3. q \in Nat /\ q * RateDen <= x
  BY <1>1, <1>2, SMTT(30)
<1>4. q <= r
  <2> SUFFICES ASSUME q > r PROVE FALSE
    BY <1>3
  <2> HIDE DEF x, q
  <2>1. (r + 1) * RateDen <= q * RateDen
    BY <1>1, <1>3, SMTT(30)
  <2>2. (r + 1) * RateDen = r * RateDen + RateDen
    BY <1>1, SMTT(30)
  <2>3. r * RateDen \in Nat /\ q * RateDen \in Nat
    BY <1>1, <1>3, SMTT(30)
  <2> QED BY <1>1, <1>2, <1>3, <2>1, <2>2, <2>3
<1> QED BY <1>3, <1>4 DEF Commission

\* The accounts of different users, and the two of one user, are different.
LEMMA AccountsDiffer ==
  /\ \A u \in Users : Available(u) \in Account /\ Frozen(u) \in Account
  /\ \A u, v \in Users : Available(u) # Frozen(v)
  /\ \A u, v \in Users : Available(u) = Available(v) => u = v
  /\ \A u, v \in Users : Frozen(u) = Frozen(v) => u = v
BY DEF Account, AccountTypes, Available, Frozen

LEMMA InitHolds == Init => IInv
<1> SUFFICES ASSUME Init PROVE IInv
  OBVIOUS
<1> USE DEF Init
<1>1. IsFiniteSet(DOMAIN ledger) /\ DOMAIN ledger = {}
  BY FS_EmptySet
<1>2. TypeOK
  BY <1>1, UsersAssumption, EscrowAssumption DEF TypeOK, Roles, Statuses
<1>3. BalancesMatchLedger
  BY <1>1, SumEmpty DEF BalancesMatchLedger, EntriesOf
<1>4. LedgerSumsToZero
  BY <1>1, SumEmpty DEF LedgerSumsToZero, SumFunction
<1>5. OnlyMintNegative
  BY DEF OnlyMintNegative
<1>6. EscrowMatchesOpenOrders
  <2>1. \A u \in Users : OpenOrdersOf(u) = {}
    BY DEF OpenOrdersOf, Open
  <2>2. \A u \in Users : balance[Frozen(u)] = 0
    BY AccountsDiffer
  <2> QED BY <2>1, <2>2, SumEmpty DEF EscrowMatchesOpenOrders
<1>7. EntriesMatchStatus
  <2>1. \A o \in Orders : OrderEntries(o) = {} /\ EntriesDue(o) = {}
    BY <1>1 DEF OrderEntries, EntriesDue, Open
  <2> QED BY <2>1 DEF EntriesMatchStatus
<1>8. RowsMatchStatus
  BY DEF RowsMatchStatus
<1> QED BY <1>2, <1>3, <1>4, <1>5, <1>6, <1>7, <1>8 DEF IInv

\* A step that touches no account, ledger entry, publisher or reward, and
\* leaves open orders open, keeps the audits of the money.
LEMMA MoneyUntouched ==
  ASSUME IInv, UNCHANGED <<balance, ledger, publisher, reward>>,
         \A o \in Orders : status'[o] \in Open <=> status[o] \in Open
  PROVE  /\ BalancesMatchLedger'
         /\ LedgerSumsToZero'
         /\ OnlyMintNegative'
         /\ EscrowMatchesOpenOrders'
<1>1. \A u \in Users : OpenOrdersOf(u)' = OpenOrdersOf(u)
  BY DEF OpenOrdersOf
<1>2. EscrowMatchesOpenOrders'
  BY <1>1 DEF IInv, EscrowMatchesOpenOrders
<1> QED BY <1>2 DEF IInv, BalancesMatchLedger, LedgerSumsToZero, OnlyMintNegative

LEMMA RegisterStep ==
  ASSUME IInv, NEW u \in Users, Register(u)
  PROVE  IInv'
<1> USE DEF Register, orderVars
<1>1. TypeOK'
  BY DEF IInv, TypeOK, Roles
<1>2. EntriesMatchStatus' /\ RowsMatchStatus'
  BY DEF IInv, EntriesMatchStatus, OrderEntries, EntriesDue, RowsMatchStatus
<1> QED BY <1>1, <1>2, MoneyUntouched DEF IInv

LEMMA EnsureAdminStep ==
  ASSUME IInv, EnsureAdmin
  PROVE  IInv'
<1> USE DEF EnsureAdmin, orderVars
<1>1. TypeOK'
  BY EscrowAssumption DEF IInv, TypeOK, Roles
<1>2. EntriesMatchStatus' /\ RowsMatchStatus'
  BY DEF IInv, EntriesMatchStatus, OrderEntries, EntriesDue, RowsMatchStatus
<1> QED BY <1>1, <1>2, MoneyUntouched DEF IInv

LEMMA GrabStep ==
  ASSUME IInv, NEW o \in Orders, NEW u \in Users, Grab(o, u)
  PROVE  IInv'
<1> USE DEF Grab
<1>1. TypeOK'
  BY DEF IInv, TypeOK, Statuses, Enqueue
<1>2. EntriesMatchStatus'
  BY DEF IInv, TypeOK, EntriesMatchStatus, OrderEntries, EntriesDue, Open
<1>3. RowsMatchStatus'
  BY EscrowAssumption DEF IInv, TypeOK, RowsMatchStatus, Enqueue
<1>4. \A x \in Orders : status'[x] \in Open <=> status[x] \in Open
  BY DEF IInv, TypeOK, Open
<1> QED BY <1>1, <1>2, <1>3, <1>4, MoneyUntouched DEF IInv

LEMMA MarkDeliveredStep ==
  ASSUME IInv, NEW o \in Orders, NEW u \in Users, MarkDelivered(o, u)
  PROVE  IInv'
<1> USE DEF MarkDelivered
<1>1. TypeOK'
  BY DEF IInv, TypeOK, Statuses
<1>2. EntriesMatchStatus'
  BY DEF IInv, TypeOK, EntriesMatchStatus, OrderEntries, EntriesDue, Open
<1>3. RowsMatchStatus'
  BY DEF IInv, TypeOK, RowsMatchStatus
<1>4. \A x \in Orders : status'[x] \in Open <=> status[x] \in Open
  BY DEF IInv, TypeOK, Open
<1> QED BY <1>1, <1>2, <1>3, <1>4, MoneyUntouched DEF IInv

LEMMA DeadlinePassesStep ==
  ASSUME IInv, NEW o \in Orders, DeadlinePasses(o)
  PROVE  IInv'
<1> USE DEF DeadlinePasses
<1>1. TypeOK'
  BY DEF IInv, TypeOK
<1>2. EntriesMatchStatus' /\ RowsMatchStatus'
  BY DEF IInv, EntriesMatchStatus, OrderEntries, EntriesDue, RowsMatchStatus
<1> QED BY <1>1, <1>2, MoneyUntouched DEF IInv
\* The open orders of the publishers a step does not concern keep their sum.
LEMMA SameOpenOrders ==
  ASSUME IInv, NEW u \in Users, OpenOrdersOf(u)' = OpenOrdersOf(u),
         \A o \in OpenOrdersOf(u) : reward'[o] = reward[o]
  PROVE  SumFunctionOnSet(reward, OpenOrdersOf(u))' = balance[Frozen(u)]
<1> DEFINE D == OpenOrdersOf(u)
<1>1. IsFiniteSet(D)
  BY FS_Subset, EscrowAssumption DEF OpenOrdersOf
<1>2. SumFunctionOnSet(reward', D) = SumFunctionOnSet(reward, D)
  <2> HIDE DEF D
  <2>1. \A o \in D : reward'[o] = reward[o]
    BY DEF D
  <2> QED BY <1>1, <2>1, SumEqual
<1>3. balance[Frozen(u)] = SumFunctionOnSet(reward, D)
  BY DEF IInv, EscrowMatchesOpenOrders
<1> QED BY <1>2, <1>3

LEMMA RechargeStep ==
  ASSUME IInv, NEW u \in Users, NEW amount \in Deposits, NEW k \in RequestKeys,
         NEW t \in Instants, Recharge(u, amount, k, t)
  PROVE  IInv'
<1> DEFINE k1 == <<"RECHARGE", t, Available(Mint)>>
           k2 == <<"RECHARGE", t, Available(u)>>
<1>1. /\ role[u] = "USER"
      /\ Fresh(ledger, k1) /\ Fresh(ledger, k2)
      /\ ops' = ops \cup {RechargeKey(k)}
      /\ balance' = Change(Change(balance, Available(Mint), -amount), Available(u), amount)
      /\ ledger' = Insert(Insert(ledger, k1, -amount), k2, amount)
      /\ UNCHANGED <<role, orderVars, outbox>>
  BY DEF Recharge
<1>2. amount \in Nat \ {0}
  BY EscrowAssumption
<1>3. u # Mint /\ Mint \in Users
  BY <1>1, UsersAssumption DEF IInv, TypeOK
<1>4. /\ Available(Mint) \in Account /\ Available(u) \in Account
      /\ Available(Mint) # Available(u)
  BY <1>3, AccountsDiffer
<1>5. k1 # k2 /\ k1[3] = Available(Mint) /\ k2[3] = Available(u)
  BY <1>4
<1>6. Books(balance, ledger) /\ SumFunction(ledger) = 0
  BY BooksHold DEF IInv, LedgerSumsToZero
<1>7. -amount \in Int /\ amount \in Int
  BY <1>2
<1>8. Books(balance', ledger') /\ SumFunction(ledger') = 0 + (-amount) + amount
  <2> HIDE DEF k1, k2
  <2> QED BY <1>1, <1>4, <1>5, <1>6, <1>7, TwoPostings
<1>9. TypeOK'
  BY <1>1, <1>8 DEF IInv, TypeOK, Books, LedgerOK, orderVars
<1>10. BalancesMatchLedger' /\ LedgerSumsToZero'
  BY <1>2, <1>8 DEF BalancesMatchLedger, LedgerSumsToZero, Books, Match
<1>11. OnlyMintNegative'
  <2>1. \A a \in Account : a[1] # Mint => balance'[a] >= balance[a]
    BY <1>1, <1>2, <1>4 DEF IInv, TypeOK, Change, Available
  <2>2. \A a \in Account : balance[a] \in Int /\ balance'[a] \in Int
    BY <1>6, <1>8 DEF Books
  <2> QED BY <2>1, <2>2 DEF IInv, OnlyMintNegative
<1>12. EscrowMatchesOpenOrders'
  <2> SUFFICES ASSUME NEW v \in Users
               PROVE  balance'[Frozen(v)] = SumFunctionOnSet(reward, OpenOrdersOf(v))'
    BY DEF EscrowMatchesOpenOrders
  <2>1. balance'[Frozen(v)] = balance[Frozen(v)]
    BY <1>1, <1>3, AccountsDiffer DEF IInv, TypeOK, Change
  <2>2. OpenOrdersOf(v)' = OpenOrdersOf(v)
    BY <1>1 DEF OpenOrdersOf, orderVars
  <2> QED BY <1>1, <2>1, <2>2, SameOpenOrders DEF orderVars
<1>13. EntriesMatchStatus'
  <2>1. DOMAIN ledger' = DOMAIN ledger \cup {k1, k2}
    BY <1>1 DEF Insert
  <2>2. \A o \in Orders : OrderEntries(o)' = OrderEntries(o)
    BY <2>1 DEF OrderEntries
  <2>3. \A o \in Orders : EntriesDue(o)' = EntriesDue(o)
    BY <1>1 DEF EntriesDue, orderVars
  <2> QED BY <2>2, <2>3 DEF IInv, EntriesMatchStatus
<1>14. RowsMatchStatus'
  BY <1>1 DEF IInv, RowsMatchStatus, RechargeKey, SettleKey, orderVars
<1> QED BY <1>9, <1>10, <1>11, <1>12, <1>13, <1>14 DEF IInv
\* An order joins, or leaves, the open orders of its publisher.
LEMMA OrderOpens ==
  ASSUME IInv, NEW u \in Users, NEW o \in Orders, o \notin OpenOrdersOf(u),
         OpenOrdersOf(u)' = OpenOrdersOf(u) \cup {o},
         \A x \in Orders \ {o} : reward'[x] = reward[x],
         reward'[o] \in Int
  PROVE  SumFunctionOnSet(reward, OpenOrdersOf(u))' = balance[Frozen(u)] + reward'[o]
<1> DEFINE D == OpenOrdersOf(u)
<1>1. IsFiniteSet(D) /\ D \subseteq Orders
  BY FS_Subset, EscrowAssumption DEF OpenOrdersOf
<1>2. balance[Frozen(u)] = SumFunctionOnSet(reward, D)
  BY DEF IInv, EscrowMatchesOpenOrders
<1>3. \A x \in D : reward'[x] = reward[x] /\ reward[x] \in Int
  BY <1>1 DEF IInv, TypeOK
<1>4. o \notin D /\ reward'[o] \in Int
  OBVIOUS
<1> HIDE DEF D
<1>5. SumFunctionOnSet(reward', D) = SumFunctionOnSet(reward, D)
  BY <1>1, <1>3, SumEqual
<1>6. SumFunctionOnSet(reward', D \cup {o}) = reward'[o] + SumFunctionOnSet(reward', D)
  BY <1>1, <1>3, <1>4, SumAdd
<1>7. SumFunctionOnSet(reward, D) \in Int
  BY <1>1, <1>3, SumType
<1>8. SumFunctionOnSet(reward', D \cup {o}) = balance[Frozen(u)] + reward'[o]
  BY <1>2, <1>4, <1>5, <1>6, <1>7
<1> QED BY <1>8 DEF D

LEMMA OrderCloses ==
  ASSUME IInv, NEW u \in Users, NEW o \in OpenOrdersOf(u),
         OpenOrdersOf(u)' = OpenOrdersOf(u) \ {o},
         UNCHANGED reward
  PROVE  SumFunctionOnSet(reward, OpenOrdersOf(u))' = balance[Frozen(u)] - reward[o]
<1> DEFINE D == OpenOrdersOf(u)
<1>1. IsFiniteSet(D) /\ D \subseteq Orders
  BY FS_Subset, EscrowAssumption DEF OpenOrdersOf
<1>2. balance[Frozen(u)] = SumFunctionOnSet(reward, D)
  BY DEF IInv, EscrowMatchesOpenOrders
<1>3. \A x \in D : reward[x] \in Int
  BY <1>1 DEF IInv, TypeOK
<1> HIDE DEF D
<1>4. o \in D /\ reward[o] \in Int
  BY <1>3 DEF D
<1>5. SumFunctionOnSet(reward, D) = reward[o] + SumFunctionOnSet(reward, D \ {o})
  BY <1>1, <1>3, <1>4, SumRemove
<1>6. IsFiniteSet(D \ {o})
  BY <1>1, FS_Subset
<1>7. SumFunctionOnSet(reward, D \ {o}) \in Int
  BY <1>3, <1>6, SumType
<1>8. SumFunctionOnSet(reward, D \ {o}) = balance[Frozen(u)] - reward[o]
  BY <1>2, <1>4, <1>5, <1>7
<1> QED BY <1>8 DEF D

LEMMA CreateStep ==
  ASSUME IInv, NEW o \in Orders, NEW u \in Users, NEW r \in Rewards, Create(o, u, r)
  PROVE  IInv'
<1> DEFINE k1 == <<"FREEZE", o, Available(u)>>
           k2 == <<"FREEZE", o, Frozen(u)>>
<1>1. /\ status[o] = "NONE"
      /\ Covers(balance, Available(u), r)
      /\ Fresh(ledger, k1) /\ Fresh(ledger, k2)
      /\ balance' = Change(Change(balance, Available(u), -r), Frozen(u), r)
      /\ ledger' = Insert(Insert(ledger, k1, -r), k2, r)
      /\ status' = [status EXCEPT ![o] = "PUBLISHED"]
      /\ publisher' = [publisher EXCEPT ![o] = u]
      /\ reward' = [reward EXCEPT ![o] = r]
      /\ outbox' = outbox \cup {<<"ORDER_PUBLISHED", o>>}
      /\ UNCHANGED <<role, taker, commission, overdue, ops>>
  BY DEF Create, Enqueue
<1>2. r \in Nat \ {0}
  BY EscrowAssumption
<1>3. /\ Available(u) \in Account /\ Frozen(u) \in Account
      /\ Available(u) # Frozen(u)
  BY AccountsDiffer
<1>4. k1 # k2 /\ k1[3] = Available(u) /\ k2[3] = Frozen(u)
  BY <1>3
<1>5. Books(balance, ledger) /\ SumFunction(ledger) = 0
  BY BooksHold DEF IInv, LedgerSumsToZero
<1>6. -r \in Int /\ r \in Int
  BY <1>2
<1>7. Books(balance', ledger') /\ SumFunction(ledger') = 0 + (-r) + r
  <2> HIDE DEF k1, k2
  <2> QED BY <1>1, <1>3, <1>4, <1>5, <1>6, TwoPostings
<1>8. TypeOK'
  BY <1>1, <1>2, <1>7 DEF IInv, TypeOK, Books, LedgerOK, Statuses
<1>9. BalancesMatchLedger' /\ LedgerSumsToZero'
  BY <1>2, <1>7 DEF BalancesMatchLedger, LedgerSumsToZero, Books, Match
<1>10. OnlyMintNegative'
  <2>1. balance \in [Account -> Int] /\ balance[Available(u)] >= r
    BY <1>1, <1>5 DEF Books, Covers
  <2>2. /\ balance'[Available(u)] = balance[Available(u)] - r
        /\ balance'[Frozen(u)] = balance[Frozen(u)] + r
        /\ \A a \in Account : a # Available(u) /\ a # Frozen(u) => balance'[a] = balance[a]
    BY <1>1, <1>3, <1>6, <2>1 DEF Change
  <2> QED BY <1>2, <1>3, <2>1, <2>2 DEF IInv, OnlyMintNegative
<1>11. EscrowMatchesOpenOrders'
  <2> SUFFICES ASSUME NEW v \in Users
               PROVE  balance'[Frozen(v)] = SumFunctionOnSet(reward, OpenOrdersOf(v))'
    BY DEF EscrowMatchesOpenOrders
  <2>1. balance \in [Account -> Int] /\ Frozen(v) \in Account /\ Frozen(v) # Available(u)
    BY <1>5, AccountsDiffer DEF Books
  <2>2. CASE v = u
    <3>1. balance'[Frozen(u)] = balance[Frozen(u)] + r
      BY <1>1, <1>3, <1>6, <2>1 DEF Change
    <3>2. o \notin OpenOrdersOf(u) /\ OpenOrdersOf(u)' = OpenOrdersOf(u) \cup {o}
      BY <1>1 DEF IInv, TypeOK, OpenOrdersOf, Open
    <3>3. reward'[o] = r /\ \A x \in Orders \ {o} : reward'[x] = reward[x]
      BY <1>1 DEF IInv, TypeOK
    <3>4. SumFunctionOnSet(reward, OpenOrdersOf(u))' = balance[Frozen(u)] + r
      BY <1>6, <3>2, <3>3, OrderOpens
    <3> QED BY <2>2, <3>1, <3>4
  <2>3. CASE v # u
    <3>1. balance'[Frozen(v)] = balance[Frozen(v)]
      BY <1>1, <1>3, <2>1, <2>3, AccountsDiffer DEF Change
    <3>2. o \notin OpenOrdersOf(v) /\ OpenOrdersOf(v)' = OpenOrdersOf(v)
      BY <1>1, <2>3 DEF IInv, TypeOK, OpenOrdersOf, Open
    <3>3. \A x \in OpenOrdersOf(v) : reward'[x] = reward[x]
      BY <1>1, <3>2 DEF IInv, TypeOK, OpenOrdersOf
    <3> QED BY <3>1, <3>2, <3>3, SameOpenOrders
  <2> QED BY <2>2, <2>3
<1>12. EntriesMatchStatus'
  <2>1. DOMAIN ledger' = DOMAIN ledger \cup {k1, k2}
    BY <1>1 DEF Insert
  <2>2. ASSUME NEW x \in Orders, x # o
        PROVE  OrderEntries(x)' = EntriesDue(x)'
    <3>1. OrderEntries(x)' = OrderEntries(x)
      BY <2>1, <2>2 DEF OrderEntries
    <3>2. EntriesDue(x)' = EntriesDue(x)
      BY <1>1, <2>2 DEF EntriesDue, IInv, TypeOK
    <3> QED BY <3>1, <3>2 DEF IInv, EntriesMatchStatus
  <2>3. OrderEntries(o)' = EntriesDue(o)'
    <3>1. OrderEntries(o) = {}
      BY <1>1 DEF IInv, EntriesMatchStatus, EntriesDue, Open
    <3>2. OrderEntries(o)' = {k1, k2}
      BY <2>1, <3>1 DEF OrderEntries
    <3>3. status'[o] = "PUBLISHED" /\ publisher'[o] = u
      BY <1>1 DEF IInv, TypeOK
    <3>4. EntriesDue(o)' = {k1, k2}
      BY <3>3 DEF EntriesDue, Open
    <3> QED BY <3>2, <3>4
  <2> QED BY <2>2, <2>3 DEF EntriesMatchStatus
<1>13. RowsMatchStatus'
  BY <1>1 DEF IInv, TypeOK, RowsMatchStatus
<1> QED BY <1>8, <1>9, <1>10, <1>11, <1>12, <1>13 DEF IInv
\* An order that closes leaves its publisher's open orders and nobody else's.
LEMMA EscrowReleased ==
  ASSUME IInv, NEW o \in Orders, status[o] \in Open,
         NEW s \in {"SETTLED", "CANCELLED"}, status' = [status EXCEPT ![o] = s],
         UNCHANGED <<publisher, reward>>,
         balance'[Frozen(publisher[o])] = balance[Frozen(publisher[o])] - reward[o],
         \A v \in Users \ {publisher[o]} : balance'[Frozen(v)] = balance[Frozen(v)]
  PROVE  EscrowMatchesOpenOrders'
<1> SUFFICES ASSUME NEW v \in Users
             PROVE  balance'[Frozen(v)] = SumFunctionOnSet(reward, OpenOrdersOf(v))'
  BY DEF EscrowMatchesOpenOrders
<1>1. CASE v = publisher[o]
  <2>1. o \in OpenOrdersOf(v) /\ OpenOrdersOf(v)' = OpenOrdersOf(v) \ {o}
    BY <1>1 DEF IInv, TypeOK, OpenOrdersOf, Open
  <2> QED BY <1>1, <2>1, OrderCloses
<1>2. CASE v # publisher[o]
  <2>1. OpenOrdersOf(v)' = OpenOrdersOf(v)
    BY <1>2 DEF IInv, TypeOK, OpenOrdersOf, Open
  <2> QED BY <1>2, <2>1, SameOpenOrders
<1> QED BY <1>1, <1>2

\* A transaction that posts only to order o leaves the other orders' entries.
LEMMA OtherEntries ==
  ASSUME IInv, NEW o \in Orders, NEW s, status' = [status EXCEPT ![o] = s],
         UNCHANGED <<publisher, taker>>,
         NEW K, DOMAIN ledger' = DOMAIN ledger \cup K,
         \A k \in K : k[2] = o,
         NEW x \in Orders, x # o
  PROVE  OrderEntries(x)' = EntriesDue(x)'
<1>1. OrderEntries(x)' = OrderEntries(x)
  BY DEF OrderEntries
<1>2. EntriesDue(x)' = EntriesDue(x)
  BY DEF EntriesDue, IInv, TypeOK
<1> QED BY <1>1, <1>2 DEF IInv, EntriesMatchStatus

LEMMA CancelAndRefundStep ==
  ASSUME IInv, NEW o \in Orders, status[o] \in {"PUBLISHED", "TAKEN"}, CancelAndRefund(o)
  PROVE  IInv'
<1> DEFINE p == publisher[o]
           r == reward[o]
           k1 == <<"CANCEL", o, Frozen(p)>>
           k2 == <<"CANCEL", o, Available(p)>>
<1>1. /\ Covers(balance, Frozen(p), r)
      /\ Fresh(ledger, k1) /\ Fresh(ledger, k2)
      /\ status' = [status EXCEPT ![o] = "CANCELLED"]
      /\ balance' = Change(Change(balance, Frozen(p), -r), Available(p), r)
      /\ ledger' = Insert(Insert(ledger, k1, -r), k2, r)
      /\ outbox' = outbox \cup {<<"ORDER_TERMINAL", o>>}
      /\ UNCHANGED <<role, publisher, taker, reward, commission, overdue, ops>>
  BY DEF CancelAndRefund, Enqueue
<1>2. r \in Nat /\ p \in Users
  BY DEF IInv, TypeOK
<1>3. /\ Available(p) \in Account /\ Frozen(p) \in Account
      /\ Available(p) # Frozen(p)
  BY <1>2, AccountsDiffer
<1>4. k1 # k2 /\ k1[3] = Frozen(p) /\ k2[3] = Available(p)
  BY <1>3
<1>5. Books(balance, ledger) /\ SumFunction(ledger) = 0
  BY BooksHold DEF IInv, LedgerSumsToZero
<1>6. -r \in Int /\ r \in Int
  BY <1>2
<1>7. Books(balance', ledger') /\ SumFunction(ledger') = 0 + (-r) + r
  <2> HIDE DEF k1, k2, p, r
  <2> QED BY <1>1, <1>3, <1>4, <1>5, <1>6, TwoPostings
<1>8. TypeOK'
  BY <1>1, <1>7 DEF IInv, TypeOK, Books, LedgerOK, Statuses
<1>9. BalancesMatchLedger' /\ LedgerSumsToZero'
  BY <1>2, <1>7 DEF BalancesMatchLedger, LedgerSumsToZero, Books, Match
<1>10. /\ balance \in [Account -> Int]
       /\ balance'[Frozen(p)] = balance[Frozen(p)] - r
       /\ balance'[Available(p)] = balance[Available(p)] + r
       /\ \A a \in Account : a # Available(p) /\ a # Frozen(p) => balance'[a] = balance[a]
  <2>1. balance \in [Account -> Int]
    BY <1>5 DEF Books
  <2> HIDE DEF p, r
  <2> QED BY <1>1, <1>3, <1>6, <2>1 DEF Change
<1>11. OnlyMintNegative'
  <2>1. balance[Frozen(p)] >= r
    BY <1>1 DEF Covers
  <2> HIDE DEF p, r
  <2> QED BY <1>2, <1>3, <1>10, <2>1 DEF IInv, OnlyMintNegative
<1>12. EscrowMatchesOpenOrders'
  <2>1. \A v \in Users \ {p} : balance'[Frozen(v)] = balance[Frozen(v)]
    BY <1>2, <1>10, AccountsDiffer
  <2>2. status[o] \in Open
    BY DEF Open
  <2> QED BY <1>1, <1>10, <2>1, <2>2, EscrowReleased
<1>13. EntriesMatchStatus'
  <2> DEFINE K == {k1, k2}
  <2>1. DOMAIN ledger' = DOMAIN ledger \cup K
    BY <1>1 DEF Insert
  <2>2. ASSUME NEW x \in Orders, x # o
        PROVE  OrderEntries(x)' = EntriesDue(x)'
    <3>1. \A k \in K : k[2] = o
      OBVIOUS
    <3> HIDE DEF K
    <3> QED BY <1>1, <2>1, <2>2, <3>1, OtherEntries
  <2>3. OrderEntries(o)' = EntriesDue(o)'
    <3>1. OrderEntries(o) = {<<"FREEZE", o, Available(p)>>, <<"FREEZE", o, Frozen(p)>>}
      BY DEF IInv, EntriesMatchStatus, EntriesDue, Open
    <3>2. OrderEntries(o)' = OrderEntries(o) \cup {k1, k2}
      BY <2>1 DEF OrderEntries
    <3>3. status'[o] = "CANCELLED" /\ publisher'[o] = p
      BY <1>1 DEF IInv, TypeOK
    <3>4. EntriesDue(o)' = {<<"FREEZE", o, Available(p)>>, <<"FREEZE", o, Frozen(p)>>} \cup {k1, k2}
      BY <3>3 DEF EntriesDue, Open
    <3> QED BY <3>1, <3>2, <3>4
  <2> QED BY <2>2, <2>3 DEF EntriesMatchStatus
<1>14. RowsMatchStatus'
  BY <1>1 DEF IInv, TypeOK, RowsMatchStatus
<1> QED BY <1>8, <1>9, <1>11, <1>12, <1>13, <1>14 DEF IInv

LEMMA SettleStep ==
  ASSUME IInv, NEW o \in Orders, Settle(o)
  PROVE  IInv'
<1> DEFINE p == publisher[o]
           t == taker[o]
           r == reward[o]
           c == Commission(r)
           k1 == <<"SETTLE", o, Frozen(p)>>
           k2 == <<"SETTLE", o, Available(t)>>
           k3 == <<"SETTLE", o, Available(Platform)>>
<1>1. /\ status[o] = "DELIVERED"
      /\ role[t] = "USER" /\ role[Platform] = "PLATFORM"
      /\ Covers(balance, Frozen(p), r)
      /\ Fresh(ledger, k1) /\ Fresh(ledger, k2) /\ Fresh(ledger, k3)
      /\ ops' = ops \cup {SettleKey(o)}
      /\ balance' = Change(Change(Change(balance, Frozen(p), -r), Available(t), r - c),
                           Available(Platform), c)
      /\ status' = [status EXCEPT ![o] = "SETTLED"]
      /\ commission' = [commission EXCEPT ![o] = c]
      /\ ledger' = Insert(Insert(Insert(ledger, k1, -r), k2, r - c), k3, c)
      /\ outbox' = outbox \cup {<<"ORDER_TERMINAL", o>>}
      /\ UNCHANGED <<role, publisher, taker, reward, overdue>>
  BY DEF Settle, Enqueue, InsertEntries, SettleEntry
<1>2. /\ r \in Nat /\ p \in Users /\ t \in Users
      /\ Platform \in Users /\ t # Platform
  BY <1>1, UsersAssumption DEF IInv, TypeOK
<1>3. c \in Nat /\ c <= r
  BY <1>2, CommissionBounds
<1>4. /\ Frozen(p) \in Account /\ Available(t) \in Account /\ Available(Platform) \in Account
      /\ Frozen(p) # Available(t) /\ Frozen(p) # Available(Platform)
      /\ Available(t) # Available(Platform)
  BY <1>2, AccountsDiffer
<1>5. /\ k1 # k2 /\ k1 # k3 /\ k2 # k3
      /\ k1[3] = Frozen(p) /\ k2[3] = Available(t) /\ k3[3] = Available(Platform)
  BY <1>4
<1>6. Books(balance, ledger) /\ SumFunction(ledger) = 0
  BY BooksHold DEF IInv, LedgerSumsToZero
<1>7. -r \in Int /\ r - c \in Int /\ c \in Int
  BY <1>2, <1>3
<1>8. Books(balance', ledger') /\ SumFunction(ledger') = 0 + (-r) + (r - c) + c
  <2> DEFINE x == r - c
             y == -r
             b == Change(Change(balance, Frozen(p), y), Available(t), x)
             l == Insert(Insert(ledger, k1, y), k2, x)
  <2>1. Books(balance, ledger) /\ x \in Int /\ y \in Int /\ c \in Int
    BY <1>6, <1>7
  <2>2. Books(b, l) /\ SumFunction(l) = SumFunction(ledger) + y + x
    <3> HIDE DEF k1, k2, k3, p, t, r, c, x, y
    <3> QED BY <1>1, <1>4, <1>5, <2>1, TwoPostings
  <2>3. Fresh(l, k3)
    <3> HIDE DEF k1, k2, k3
    <3> QED BY <1>1, <1>5 DEF Fresh, Insert
  <2>4. /\ Books(Change(b, Available(Platform), c), Insert(l, k3, c))
        /\ SumFunction(Insert(l, k3, c)) = SumFunction(l) + c
    <3> HIDE DEF k3, c, b, l
    <3> QED BY <1>4, <1>5, <2>1, <2>2, <2>3, Posting
  <2>5. /\ balance' = Change(b, Available(Platform), c)
        /\ ledger' = Insert(l, k3, c)
    BY <1>1
  <2> HIDE DEF b, l
  <2> QED BY <1>6, <2>2, <2>4, <2>5
<1>9. TypeOK'
  <2> HIDE DEF c
  <2> QED BY SMTT(20), <1>1, <1>3, <1>8 DEF IInv, TypeOK, Books, LedgerOK, Statuses
<1>10. BalancesMatchLedger' /\ LedgerSumsToZero'
  <2> HIDE DEF c, r
  <2> QED BY <1>2, <1>3, <1>8 DEF BalancesMatchLedger, LedgerSumsToZero, Books, Match
<1>11. /\ balance \in [Account -> Int]
       /\ balance'[Frozen(p)] = balance[Frozen(p)] - r
       /\ balance'[Available(t)] = balance[Available(t)] + (r - c)
       /\ balance'[Available(Platform)] = balance[Available(Platform)] + c
       /\ \A a \in Account \ {Frozen(p), Available(t), Available(Platform)} :
            balance'[a] = balance[a]
  <2>1. balance \in [Account -> Int]
    BY <1>6 DEF Books
  <2> HIDE DEF p, t, r, c
  <2> QED BY <1>1, <1>4, <1>7, <2>1 DEF Change
<1>12. OnlyMintNegative'
  <2>1. balance[Frozen(p)] >= r
    BY <1>1 DEF Covers
  <2> HIDE DEF p, t, r, c
  <2> QED BY <1>2, <1>3, <1>4, <1>11, <2>1 DEF IInv, OnlyMintNegative
<1>13. EscrowMatchesOpenOrders'
  <2>1. \A v \in Users \ {p} : /\ Frozen(v) \in Account
                               /\ Frozen(v) \notin {Frozen(p), Available(t), Available(Platform)}
    BY <1>2, AccountsDiffer
  <2>2. \A v \in Users \ {p} : balance'[Frozen(v)] = balance[Frozen(v)]
    BY <1>11, <2>1
  <2>3. status[o] \in Open
    BY <1>1 DEF Open
  <2> QED BY <1>1, <1>11, <2>2, <2>3, EscrowReleased
<1>14. EntriesMatchStatus'
  <2> DEFINE K == {k1, k2, k3}
  <2>1. DOMAIN ledger' = DOMAIN ledger \cup K
    BY <1>1 DEF Insert
  <2>2. ASSUME NEW x \in Orders, x # o
        PROVE  OrderEntries(x)' = EntriesDue(x)'
    <3>1. \A k \in K : k[2] = o
      OBVIOUS
    <3> HIDE DEF K
    <3> QED BY <1>1, <2>1, <2>2, <3>1, OtherEntries
  <2>3. OrderEntries(o)' = EntriesDue(o)'
    <3>1. OrderEntries(o) = {<<"FREEZE", o, Available(p)>>, <<"FREEZE", o, Frozen(p)>>}
      BY <1>1 DEF IInv, EntriesMatchStatus, EntriesDue, Open
    <3>2. OrderEntries(o)' = OrderEntries(o) \cup {k1, k2, k3}
      BY <2>1 DEF OrderEntries
    <3>3. status'[o] = "SETTLED" /\ publisher'[o] = p /\ taker'[o] = t
      BY <1>1 DEF IInv, TypeOK
    <3>4. EntriesDue(o)' = {<<"FREEZE", o, Available(p)>>, <<"FREEZE", o, Frozen(p)>>}
                           \cup {k1, k2, k3}
      BY <3>3 DEF EntriesDue, Open
    <3> QED BY <3>1, <3>2, <3>4
  <2> QED BY <2>2, <2>3 DEF EntriesMatchStatus
<1>15. RowsMatchStatus'
  BY <1>1 DEF IInv, TypeOK, RowsMatchStatus, SettleKey
<1> QED BY <1>9, <1>10, <1>12, <1>13, <1>14, <1>15 DEF IInv

LEMMA NextStep ==
  ASSUME IInv, [Next]_vars
  PROVE  IInv'
<1>1. CASE \E u \in Users : Register(u)
  BY <1>1, RegisterStep
<1>2. CASE EnsureAdmin
  BY <1>2, EnsureAdminStep
<1>3. CASE \E u \in Users, amount \in Deposits, k \in RequestKeys, t \in Instants :
             Recharge(u, amount, k, t)
  BY <1>3, RechargeStep
<1>4. CASE \E o \in Orders, u \in Users : \E r \in Rewards : Create(o, u, r)
  BY <1>4, CreateStep
<1>5. CASE \E o \in Orders, u \in Users : Grab(o, u)
  BY <1>5, GrabStep
<1>6. CASE \E o \in Orders, u \in Users : MarkDelivered(o, u)
  BY <1>6, MarkDeliveredStep
<1>7. CASE \E o \in Orders, u \in Users : Cancel(o, u)
  BY <1>7, CancelAndRefundStep DEF Cancel
<1>8. CASE \E o \in Orders : Settle(o)
  BY <1>8, SettleStep
<1>9. CASE \E o \in Orders : TimeoutClaim(o)
  BY <1>9, CancelAndRefundStep DEF TimeoutClaim
<1>10. CASE \E o \in Orders : TimeoutDeliver(o)
  BY <1>10, CancelAndRefundStep DEF TimeoutDeliver
<1>11. CASE \E o \in Orders : DeadlinePasses(o)
  BY <1>11, DeadlinePassesStep
<1>12. CASE UNCHANGED vars
  <2>1. TypeOK'
    BY <1>12 DEF vars, orderVars, IInv, TypeOK
  <2>2. EntriesMatchStatus' /\ RowsMatchStatus'
    BY <1>12 DEF vars, orderVars, IInv, EntriesMatchStatus, OrderEntries, EntriesDue,
                 RowsMatchStatus
  <2> QED BY <1>12, <2>1, <2>2, MoneyUntouched DEF vars, orderVars, IInv
<1> QED
  BY <1>1, <1>2, <1>3, <1>4, <1>5, <1>6, <1>7, <1>8, <1>9, <1>10, <1>11, <1>12 DEF Next

LEMMA Invariance == Spec => []IInv
<1>1. Init => IInv
  BY InitHolds
<1>2. IInv /\ [Next]_vars => IInv'
  BY NextStep
<1> QED BY <1>1, <1>2, PTL DEF Spec

\* The columns keep their types and the system accounts their roles.
THEOREM TypeCorrect == Spec => []TypeOK
<1>1. IInv => TypeOK
  BY DEF IInv
<1> QED BY <1>1, Invariance, PTL

\* INV-2 of the recon report never fails on account of the order flow: every
\* balance is the sum of its account's entries.
THEOREM BooksBalance == Spec => []BalancesMatchLedger
<1>1. IInv => BalancesMatchLedger
  BY DEF IInv
<1> QED BY <1>1, Invariance, PTL

\* INV-1: what one account loses another gains, commission and escrow included.
THEOREM NoMoneyIsMade == Spec => []LedgerSumsToZero
<1>1. IInv => LedgerSumsToZero
  BY DEF IInv
<1> QED BY <1>1, Invariance, PTL

\* INV-4: no wallet is overdrawn, whatever a user orders or is settled or refunded.
THEOREM NobodyOverdraws == Spec => []OnlyMintNegative
<1>1. IInv => OnlyMintNegative
  BY DEF IInv
<1> QED BY <1>1, Invariance, PTL

\* INV-3, for each publisher: frozen money is exactly the open orders' rewards.
THEOREM EscrowCorrect == Spec => []EscrowMatchesOpenOrders
<1>1. IInv => EscrowMatchesOpenOrders
  BY DEF IInv
<1> QED BY <1>1, Invariance, PTL

\* No order is refunded and settled, or either of them twice: its entries are
\* those of its status.
THEOREM SettledOrRefundedOnce == Spec => []EntriesMatchStatus
<1>1. IInv => EntriesMatchStatus
  BY DEF IInv
<1> QED BY <1>1, Invariance, PTL

\* The settlement key and the events of an order are those of its status: a settle
\* that answers from the key alone answers for a settlement that was made.
THEOREM KeysAndEventsMatch == Spec => []RowsMatchStatus
<1>1. IInv => RowsMatchStatus
  BY DEF IInv
<1> QED BY <1>1, Invariance, PTL

-------------------------------------------------------------------------------
(***************************************************************************)
(* The transactions implement OrderLifecycle.  Custody is read off the     *)
(* ledger; by EntriesMatchStatus it is a function of the status.           *)
(***************************************************************************)

CustodyByStatus ==
  [o \in Orders |-> IF status[o] \in Open THEN "escrow"
                    ELSE IF status[o] = "SETTLED" THEN "taker" ELSE "publisher"]

LEMMA CustodyOfOrder ==
  ASSUME IInv, NEW o \in Orders
  PROVE  Custody[o] = IF status[o] \in Open THEN "escrow"
                      ELSE IF status[o] = "SETTLED" THEN "taker" ELSE "publisher"
<1> DEFINE posted == {k[1] : k \in OrderEntries(o)}
<1>1. OrderEntries(o) = EntriesDue(o) /\ status[o] \in Statuses
  BY DEF IInv, EntriesMatchStatus, TypeOK
<1>2. Custody[o] = IF "SETTLE" \in posted THEN "taker"
                   ELSE IF "FREEZE" \in posted /\ "CANCEL" \notin posted THEN "escrow"
                   ELSE "publisher"
  BY DEF Custody
<1>3. CASE status[o] = "NONE"
  <2>1. posted = {}
    BY <1>1, <1>3 DEF EntriesDue, Open
  <2> HIDE DEF posted
  <2> QED BY <1>2, <1>3, <2>1 DEF Open
<1>4. CASE status[o] \in Open
  <2>1. OrderEntries(o) = {<<"FREEZE", o, Available(publisher[o])>>,
                           <<"FREEZE", o, Frozen(publisher[o])>>}
    BY <1>1, <1>4 DEF EntriesDue, Open
  <2>2. posted = {"FREEZE"}
    BY <2>1
  <2> HIDE DEF posted
  <2> QED BY <1>2, <1>4, <2>2
<1>5. CASE status[o] = "CANCELLED"
  <2>1. posted = {"FREEZE", "CANCEL"}
    BY <1>1, <1>5 DEF EntriesDue, Open
  <2> HIDE DEF posted
  <2> QED BY <1>2, <1>5, <2>1 DEF Open
<1>6. CASE status[o] = "SETTLED"
  <2>1. posted = {"FREEZE", "SETTLE"}
    BY <1>1, <1>6 DEF EntriesDue, Open
  <2> HIDE DEF posted
  <2> QED BY <1>2, <1>6, <2>1 DEF Open
<1> QED BY <1>1, <1>3, <1>4, <1>5, <1>6 DEF Statuses, Open

CustodyAgrees == Custody = CustodyByStatus

LEMMA CustodyIs == IInv => CustodyAgrees
BY CustodyOfOrder DEF CustodyAgrees, Custody, CustodyByStatus

LEMMA LifecycleInit == Init => Lifecycle!Init
<1> SUFFICES ASSUME Init PROVE Lifecycle!Init
  OBVIOUS
<1>1. Custody = [o \in Orders |-> "publisher"]
  BY InitHolds, CustodyIs DEF CustodyAgrees, CustodyByStatus, Init, Open
<1> QED BY <1>1 DEF Init, Lifecycle!Init

LEMMA LifecycleStep ==
  ASSUME IInv, CustodyAgrees, CustodyAgrees', [Next]_vars
  PROVE  [Lifecycle!Next]_(Lifecycle!vars)
<1>1. Custody = CustodyByStatus /\ Custody' = CustodyByStatus'
  BY DEF CustodyAgrees
<1>2. ASSUME UNCHANGED <<status, publisher, taker>>
      PROVE  UNCHANGED Lifecycle!vars
  BY <1>1, <1>2 DEF CustodyByStatus, Lifecycle!vars
<1>3. CASE \E u \in Users : Register(u)
  BY <1>2, <1>3 DEF Register, orderVars
<1>4. CASE EnsureAdmin
  BY <1>2, <1>4 DEF EnsureAdmin, orderVars
<1>5. CASE \E u \in Users, amount \in Deposits, k \in RequestKeys, t \in Instants :
             Recharge(u, amount, k, t)
  BY <1>2, <1>5 DEF Recharge, orderVars
<1>6. ASSUME NEW o \in Orders, NEW u \in Users, NEW r \in Rewards, Create(o, u, r)
      PROVE  Lifecycle!Publish(o, u)
  <2>1. Custody' = [Custody EXCEPT ![o] = "escrow"]
    BY <1>1, <1>6 DEF CustodyByStatus, Create, IInv, TypeOK, Open
  <2> QED BY <1>6, <2>1 DEF Create, Lifecycle!Publish, Lifecycle!Becomes
<1>7. ASSUME NEW o \in Orders, NEW u \in Users, Grab(o, u)
      PROVE  Lifecycle!Take(o, u)
  <2>1. Custody' = Custody
    BY <1>1, <1>7 DEF CustodyByStatus, Grab, IInv, TypeOK, Open
  <2> QED BY <1>7, <2>1 DEF Grab, Lifecycle!Take, Lifecycle!Becomes
<1>8. ASSUME NEW o \in Orders, NEW u \in Users, MarkDelivered(o, u)
      PROVE  Lifecycle!Deliver(o)
  <2>1. Custody' = Custody
    BY <1>1, <1>8 DEF CustodyByStatus, MarkDelivered, IInv, TypeOK, Open
  <2> QED BY <1>8, <2>1 DEF MarkDelivered, Lifecycle!Deliver, Lifecycle!Becomes
<1>9. ASSUME NEW o \in Orders, Settle(o)
      PROVE  Lifecycle!Settle(o)
  <2>1. Custody' = [Custody EXCEPT ![o] = "taker"]
    BY <1>1, <1>9 DEF CustodyByStatus, Settle, IInv, TypeOK, Open
  <2> QED BY <1>9, <2>1 DEF Settle, Lifecycle!Settle, Lifecycle!Becomes
<1>10. ASSUME NEW o \in Orders, status[o] \in {"PUBLISHED", "TAKEN"}, CancelAndRefund(o)
       PROVE  Lifecycle!Cancel(o)
  <2>1. Custody' = [Custody EXCEPT ![o] = "publisher"]
    BY <1>1, <1>10 DEF CustodyByStatus, CancelAndRefund, IInv, TypeOK, Open
  <2> QED BY <1>10, <2>1 DEF CancelAndRefund, Lifecycle!Cancel, Lifecycle!Becomes
<1>11. CASE \E o \in Orders : DeadlinePasses(o)
  BY <1>2, <1>11 DEF DeadlinePasses
<1>12. CASE UNCHANGED vars
  BY <1>2, <1>12 DEF vars, orderVars
<1>13. ASSUME NEW o \in Orders, NEW u \in Users, Cancel(o, u)
       PROVE  Lifecycle!Cancel(o)
  BY <1>10, <1>13 DEF Cancel
<1>14. ASSUME NEW o \in Orders, TimeoutClaim(o) \/ TimeoutDeliver(o)
       PROVE  Lifecycle!Cancel(o)
  BY <1>10, <1>14 DEF TimeoutClaim, TimeoutDeliver
<1> QED
  BY <1>3, <1>4, <1>5, <1>6, <1>7, <1>8, <1>9, <1>11, <1>12, <1>13, <1>14
     DEF Next, Lifecycle!Next

\* The transactions carry every order through the life OrderLifecycle allows,
\* its reward in escrow exactly while it is open.
THEOREM LifecycleImplemented == Spec => ImplementsLifecycle
<1>1. Init => Lifecycle!Init
  BY LifecycleInit
<1>2. IInv /\ CustodyAgrees /\ CustodyAgrees' /\ [Next]_vars
        => [Lifecycle!Next]_(Lifecycle!vars)
  BY LifecycleStep
<1>3. Spec => []CustodyAgrees
  BY CustodyIs, Invariance, PTL
<1> QED BY <1>1, <1>2, <1>3, Invariance, PTL DEF Spec, ImplementsLifecycle, Lifecycle!Spec
===============================================================================
