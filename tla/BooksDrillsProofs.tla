---------------------------- MODULE BooksDrillsProofs ----------------------------
(***************************************************************************)
(* The scripts that put the books out of balance, whatever fails in them   *)
(* and whenever: both undo what they did, and a report that says PASS is   *)
(* about books that balance, for any users, amounts and recharges.         *)
(*                                                                         *)
(* The books of the application are never wrong; a script writes into them *)
(* and must take back exactly that.  So the invariant names, for each      *)
(* content of the stack of what undoes, the books that would be there      *)
(* without the writes of the script, and says of those that they are       *)
(* sound (Sound, UsersBooks).  The drift script has no stack, but the      *)
(* balance it read.                                                        *)
(***************************************************************************)
EXTENDS BooksDrills, AccountsProofs, SequenceTheorems

(***************************************************************************)
(* Sums.                                                                   *)
(***************************************************************************)

LEMMA SumOfZeros ==
  ASSUME NEW S, IsFiniteSet(S), NEW f, \A x \in S : f[x] = 0
  PROVE  SumFunctionOnSet(f, S) = 0
<1> DEFINE Bad == {s \in SUBSET S : SumFunctionOnSet(f, s) # 0}
<1> SUFFICES ASSUME Bad # {} PROVE FALSE
  OBVIOUS
<1>1. PICK s \in Bad : \A t \in Bad : Cardinality(s) <= Cardinality(t)
  <2>1. Bad \in SUBSET SUBSET S
    OBVIOUS
  <2> HIDE DEF Bad
  <2> QED BY <2>1, SmallestSubset
<1>2. s # {}
  BY <1>1, SumEmpty
<1> DEFINE r == s \ {Pick(s)}
<1>3. /\ Pick(s) \in s
      /\ r \in SUBSET S
      /\ Cardinality(r) = Cardinality(s) - 1 /\ Cardinality(s) \in Nat
  BY <1>2, PickSmaller
<1>4. r \notin Bad
  <2> HIDE DEF r, Bad
  <2> QED BY <1>1, <1>3
<1>5. SumFunctionOnSet(f, s) = f[Pick(s)] + SumFunctionOnSet(f, r)
  BY <1>2, SumPick, FS_Subset
<1>6. f[Pick(s)] = 0 /\ SumFunctionOnSet(f, r) = 0
  BY <1>3, <1>4
<1> QED BY <1>1, <1>5, <1>6

\* One summand only.
LEMMA SumOfOne ==
  ASSUME NEW S, IsFiniteSet(S), NEW y \in S, NEW f, f[y] \in Int, \A x \in S \ {y} : f[x] = 0
  PROVE  SumFunctionOnSet(f, S) = f[y]
<1>1. SumFunctionOnSet(f, S) = f[y] + SumFunctionOnSet(f, S \ {y})
  BY SumRemove
<1>2. SumFunctionOnSet(f, S \ {y}) = 0
  BY SumOfZeros, FS_Subset
<1> QED BY <1>1, <1>2

-------------------------------------------------------------------------------
(***************************************************************************)
(* Books on which the five checks of the reconciliation pass.              *)
(***************************************************************************)

Open == {"PUBLISHED", "TAKEN"}
Held(o) == IF o \in Open THEN Reward ELSE 0

Sound(b, l, o) ==
  /\ Books(b, l)
  /\ SumFunction(l) = 0
  /\ \A u \in Users : b[Frozen(u)] = IF u = Publisher THEN Held(o) ELSE 0
  /\ \A u \in Users \ {Mint} : b[Available(u)] >= 0

LEMMA Members ==
  /\ Publisher \in Users /\ Customer \in Users /\ Mint \in Users
  /\ Publisher # Mint /\ Customer # Mint /\ Publisher # Customer
  /\ Deposit \in Nat /\ Reward \in Nat /\ 1 <= Reward /\ Reward <= Deposit
BY MonitoringAssumption, UsersAssumption

LEMMA AccountsOf ==
  /\ \A u \in Users : Available(u) \in Account /\ Frozen(u) \in Account
  /\ \A u, v : Available(u) # Frozen(v)
  /\ \A u, v : Available(u) = Available(v) => u = v
  /\ \A u, v : Frozen(u) = Frozen(v) => u = v
  /\ \A a \in Account : a[1] \in Users /\ (a = Available(a[1]) \/ a = Frozen(a[1]))
BY DEF Available, Frozen, Account, AccountTypes

LEMMA SoundBalances ==
  ASSUME Sound(balance, ledger, order), ~ stuck
  PROVE  BooksBalance
<1> DEFINE F == {a \in Account : a[2] = "FROZEN"}
<1>1. IsFiniteSet(F)
  <2>1. IsFiniteSet(AccountTypes)
    <3>1. IsFiniteSet({"AVAILABLE"} \cup {"FROZEN"})
      BY FS_Singleton, FS_AddElement
    <3> QED BY <3>1 DEF AccountTypes
  <2>2. IsFiniteSet(Account)
    BY <2>1, FS_Product, UsersAssumption DEF Account
  <2> QED BY <2>2, FS_Subset
<1>2. \A a \in F : a[1] \in Users /\ a = Frozen(a[1])
  BY DEF Account, AccountTypes, Frozen
<1>3. Frozen(Publisher) \in F
  BY Members DEF Account, AccountTypes, Frozen
<1>4. /\ balance[Frozen(Publisher)] = Held(order)
      /\ \A a \in F \ {Frozen(Publisher)} : balance[a] = 0
  <2> HIDE DEF F
  <2> QED BY <1>2, Members, AccountsOf DEF Sound
<1>5. SumFunctionOnSet(balance, F) = Held(order)
  <2>1. Held(order) \in Int
    BY Members DEF Held
  <2> HIDE DEF F
  <2> QED BY <1>1, <1>3, <1>4, <2>1, SumOfOne
<1>6. EscrowMatches
  BY <1>5, Members DEF EscrowMatches, Held, Open
<1>7. OnlyMintNegative
  <2> SUFFICES ASSUME NEW a \in Account, a[1] # Mint PROVE balance[a] >= 0
    BY DEF OnlyMintNegative
  <2>1. a[1] \in Users /\ (a = Available(a[1]) \/ a = Frozen(a[1]))
    BY AccountsOf
  <2>2. Held(order) >= 0
    BY Members DEF Held
  <2> QED BY <2>1, <2>2 DEF Sound
<1> QED BY <1>6, <1>7 DEF BooksBalance, Sound, Books, Match, LedgerSumsToZero, BalancesMatchLedger

\* The two entries and the two changes of a business event.
Moved(b, from, to, v) == Change(Change(b, from, -v), to, v)
Posted(l, type, biz, from, to, v) ==
  Insert(Insert(l, <<type, biz, from>>, -v), <<type, biz, to>>, v)

LEMMA Transfer ==
  ASSUME NEW b, NEW l, Books(b, l), SumFunction(l) = 0,
         NEW type, NEW biz, NEW from \in Account, NEW to \in Account, from # to, NEW v \in Int,
         Fresh(l, <<type, biz, from>>), Fresh(l, <<type, biz, to>>)
  PROVE  /\ Books(Moved(b, from, to, v), Posted(l, type, biz, from, to, v))
         /\ SumFunction(Posted(l, type, biz, from, to, v)) = 0
<1> DEFINE k1 == <<type, biz, from>>
           k2 == <<type, biz, to>>
<1>1. k1 # k2 /\ k1[3] = from /\ k2[3] = to /\ -v \in Int
  OBVIOUS
<1> HIDE DEF k1, k2
<1>2. /\ Books(Change(Change(b, from, -v), to, v), Insert(Insert(l, k1, -v), k2, v))
      /\ SumFunction(Insert(Insert(l, k1, -v), k2, v)) = SumFunction(l) + (-v) + v
  BY <1>1, TwoPostings DEF k1, k2
<1> QED BY <1>2 DEF Moved, Posted, k1, k2

LEMMA MovedAt ==
  ASSUME NEW b \in [Account -> Int], NEW from \in Account, NEW to \in Account, from # to, NEW v \in Int
  PROVE  /\ Moved(b, from, to, v) \in [Account -> Int]
         /\ Moved(b, from, to, v)[from] = b[from] - v
         /\ Moved(b, from, to, v)[to] = b[to] + v
         /\ \A a \in Account \ {from, to} : Moved(b, from, to, v)[a] = b[a]
BY DEF Moved, Change

\* No entries, no money.
LEMMA EmptyBooks ==
  ASSUME NEW b \in [Account -> Int], \A a \in Account : b[a] = 0, NEW l, DOMAIN l = {}
  PROVE  Sound(b, l, "none")
<1>1. LedgerOK(l)
  BY FS_EmptySet DEF LedgerOK
<1>2. \A a : EntriesOf(l, a) = {}
  BY DEF EntriesOf
<1>3. Match(b, l)
  BY <1>2, SumEmpty DEF Match
<1>4. SumFunction(l) = 0
  BY SumEmpty DEF SumFunction
<1>5. Held("none") = 0
  BY DEF Held, Open
<1> QED BY <1>1, <1>3, <1>4, <1>5, AccountsOf DEF Sound, Books

-------------------------------------------------------------------------------
(***************************************************************************)
(* verify_reconciliation_drift_detection.py.  The cent is in the wallet of *)
(* a user who has no entries, so the books without it (the ones that       *)
(* restoring the balance leaves) are those with an empty wallet.           *)
(***************************************************************************)

Injected == {"dead", "late", "settlement"}
NoneInjected == fault \cap Injected = {}

DriftSteps == {"setup", "remember", "drift", "detect", "restore", "recover", "end"}

WithoutDrift == [balance EXCEPT ![Available(Publisher)] = 0]

\* The UPDATE of the finally block may have raised: the cent may still be there.
RestoreFailed == fragile /\ verdict = "failed"

\* The entries are those of the customer's recharges, in pairs.
RechargesOnly ==
  \A k \in DOMAIN ledger :
    /\ k[1] = "RECHARGE"
    /\ k[3] \in {AvailableOfMint, Available(Customer)}
    /\ <<"RECHARGE", k[2], AvailableOfMint>> \in DOMAIN ledger

Drifting ==
  /\ step \in DriftSteps
  /\ order = "none" /\ ~ stuck /\ redis /\ NoneInjected
  /\ old_balance \in {None, 0}
  /\ step \in {"drift", "detect"} => old_balance = 0
  /\ balance[Available(Publisher)] # 0 =>
       \/ step \in {"detect", "restore"} /\ old_balance = 0
       \/ step = "end" /\ RestoreFailed
  /\ RechargesOnly
  /\ balance \in [Account -> Int]
  /\ Sound(WithoutDrift, ledger, order)

\* The customer's recharge keeps the books, the cent aside.
LEMMA RechargeInDrift ==
  ASSUME Drifting, NEW r \in Recharges, CustomerRecharges(r), UNCHANGED <<script, fragile, old_balance>>
  PROVE  Drifting'
<1> DEFINE m == AvailableOfMint
           c == Available(Customer)
           b == WithoutDrift
<1>1. /\ m \in Account /\ c \in Account /\ m # c
      /\ Available(Publisher) \in Account \ {m, c}
  BY Members, AccountsOf DEF AvailableOfMint
<1>2. Fresh(ledger, <<"RECHARGE", r, m>>) /\ Fresh(ledger, <<"RECHARGE", r, c>>)
  BY <1>1 DEF Drifting, RechargesOnly, CustomerRecharges, Fresh
<1>3. /\ balance' = Moved(balance, m, c, 1)
      /\ ledger' = Posted(ledger, "RECHARGE", r, m, c, 1)
  BY DEF CustomerRecharges, Moves, Moved, Posted
<1>4. Books(Moved(b, m, c, 1), ledger') /\ SumFunction(ledger') = 0
  <2> HIDE DEF m, c, b
  <2> QED BY <1>1, <1>2, <1>3, Transfer DEF Drifting, Sound, b
<1>5. /\ balance' \in [Account -> Int]
      /\ balance'[Available(Publisher)] = balance[Available(Publisher)]
  <2> HIDE DEF m, c
  <2> QED BY <1>1, <1>3, MovedAt DEF Drifting
<1>6. WithoutDrift' = Moved(b, m, c, 1)
  <2>1. b \in [Account -> Int]
    BY DEF Drifting, Sound, Books
  <2> HIDE DEF m, c
  <2> QED BY <1>1, <1>3, <2>1 DEF WithoutDrift, Moved, Change, Drifting
<1>7. /\ Moved(b, m, c, 1)[c] = b[c] + 1
      /\ \A a \in Account \ {m, c} : Moved(b, m, c, 1)[a] = b[a]
  <2>1. b \in [Account -> Int]
    BY DEF Drifting, Sound, Books
  <2> HIDE DEF m, c, b
  <2> QED BY <1>1, <2>1 DEF Moved, Change
<1>8. order' = order /\ stuck' = stuck /\ redis' = redis /\ fault' = fault
  BY DEF CustomerRecharges
<1>9. Sound(WithoutDrift', ledger', order')
  <2>1. ASSUME NEW u \in Users
        PROVE  WithoutDrift'[Frozen(u)] = IF u = Publisher THEN Held(order') ELSE 0
    <3>1. Frozen(u) \in Account \ {m, c}
      BY AccountsOf DEF AvailableOfMint
    <3> QED BY <1>6, <1>7, <1>8, <3>1 DEF Drifting, Sound
  <2>2. ASSUME NEW u \in Users \ {Mint}
        PROVE  WithoutDrift'[Available(u)] >= 0
    <3>1. Available(u) \in Account \ {m}
      BY AccountsOf, Members DEF AvailableOfMint
    <3>2. b[Available(u)] >= 0 /\ b[Available(u)] \in Int
      BY <3>1 DEF Drifting, Sound, Books
    <3> HIDE DEF b
    <3> QED BY <1>6, <1>7, <3>1, <3>2
  <2> QED BY <1>4, <1>6, <2>1, <2>2 DEF Sound
<1>10. RechargesOnly'
  <2>1. DOMAIN ledger' = DOMAIN ledger \cup {<<"RECHARGE", r, m>>, <<"RECHARGE", r, c>>}
    <3> HIDE DEF m, c
    <3> QED BY <1>3 DEF Posted, Insert
  <2> QED BY <2>1 DEF Drifting, RechargesOnly, AvailableOfMint
<1> QED BY <1>5, <1>8, <1>9, <1>10 DEF Drifting, script, NoneInjected, RestoreFailed

\* Steps that leave the money alone.
LEMMA DriftKeeps ==
  ASSUME Drifting, UNCHANGED <<money, order, stuck, redis>>, NoneInjected',
         step' \in DriftSteps, old_balance' \in {None, 0},
         step' \in {"drift", "detect"} => old_balance' = 0,
         balance[Available(Publisher)] # 0 =>
           \/ step' \in {"detect", "restore"} /\ old_balance' = 0
           \/ step' = "end" /\ RestoreFailed'
  PROVE  Drifting'
BY DEF Drifting, money, RechargesOnly, WithoutDrift

LEMMA OwnStepInDrift ==
  ASSUME Drifting, Drift, UNCHANGED fragile
  PROVE  Drifting'
<1> USE DEF DriftSteps, At, Goes, Raises, Calls, Asserts, Passes, AfterFinally
<1>0. UNCHANGED <<order, stuck, redis, fault>> /\ (NoneInjected => NoneInjected')
  BY DEF Drift, NoneInjected
<1>a. NoneInjected'
  BY <1>0 DEF Drifting
<1>b. Available(Publisher) \in Account
  BY Members, AccountsOf
<1>e. balance \in [Account -> Int]
  BY DEF Drifting
<1>1. CASE Setup
  BY <1>0, <1>1, <1>a, DriftKeeps DEF Setup, Drifting
<1>2. CASE ReadsBalance
  BY <1>0, <1>2, <1>a, DriftKeeps DEF ReadsBalance, Drifting
<1>3. CASE Drifts
  <2>1. CASE UNCHANGED balance
    BY <1>0, <1>3, <1>a, <2>1, DriftKeeps DEF Drifts, Drifting, money
  <2>2. CASE balance' = Change(balance, Available(Publisher), 1)
    <3>a. WithoutDrift' = WithoutDrift
      BY <1>b, <1>e, <2>2 DEF WithoutDrift, Change
    <3>b. balance' \in [Account -> Int]
      BY <1>b, <1>e, <2>2 DEF Change
    <3>1. WithoutDrift' = WithoutDrift /\ balance' \in [Account -> Int]
      BY <3>a, <3>b
    <3>2. step' \in {"detect", "restore"} /\ UNCHANGED <<ledger, old_balance>> /\ old_balance = 0
      BY <1>3, <2>2 DEF Drifts, Drifting
    <3>3. RechargesOnly'
      BY <3>2 DEF Drifting, RechargesOnly
    <3> QED BY <1>0, <1>a, <3>1, <3>2, <3>3 DEF Drifting
  <2> QED BY <1>3, <2>1, <2>2 DEF Drifts
<1>4. CASE Detects
  BY <1>0, <1>4, <1>a, DriftKeeps DEF Detects, Drifting
<1>5. CASE Restores /\ UNCHANGED balance /\ fragile /\ Raises("end")
  <2>1. RestoreFailed' /\ step' = "end" /\ UNCHANGED <<ledger, old_balance>>
    BY <1>5 DEF Restores, RestoreFailed
  <2> QED BY <1>0, <1>5, <1>a, <2>1, DriftKeeps DEF Drifting, money
<1>6. CASE Restores /\ balance' = IF RestoreIsDue THEN [balance EXCEPT ![Available(Publisher)] = old_balance] ELSE balance
  <2>1. /\ WithoutDrift' = WithoutDrift
        /\ balance' \in [Account -> Int]
        /\ balance'[Available(Publisher)] = 0
    <3>1. balance' = [balance EXCEPT ![Available(Publisher)] = 0]
      <4>1. CASE old_balance = None
        BY <1>6, <1>b, <1>e, <4>1 DEF Restores, RestoreIsDue, Drifting, None
      <4>2. CASE old_balance = 0
        BY <1>6, <4>2 DEF Restores, RestoreIsDue, None
      <4> QED BY <4>1, <4>2 DEF Drifting
    <3>2. balance' \in [Account -> Int]
      BY <1>b, <1>e, <3>1
    <3>3. balance'[Available(Publisher)] = 0
      BY <1>b, <1>e, <3>1
    <3>4. WithoutDrift' = WithoutDrift
      BY <1>b, <1>e, <3>1 DEF WithoutDrift
    <3> QED BY <3>2, <3>3, <3>4
  <2>2. step' \in {"end", "recover"} /\ UNCHANGED <<ledger, old_balance>>
    BY <1>6 DEF Restores
  <2>3. RechargesOnly'
    BY <2>2 DEF Drifting, RechargesOnly
  <2> QED BY <1>0, <1>a, <2>1, <2>2, <2>3 DEF Drifting
<1>7. CASE Recovers
  BY <1>0, <1>7, <1>a, DriftKeeps DEF Recovers, Drifting
<1>8. CASE Restores
  BY <1>5, <1>6, <1>8 DEF Restores
<1> QED BY <1>1, <1>2, <1>3, <1>4, <1>7, <1>8 DEF Drift

LEMMA DriftStep ==
  ASSUME Drifting, [BooksNext]_booksVars, ~ DrillDies
  PROVE  Drifting'
<1>1. CASE Drift /\ UNCHANGED fragile
  BY <1>1, OwnStepInDrift
<1>2. CASE Others /\ UNCHANGED <<old_balance, fragile>>
  <2>1. CASE \E r \in Recharges : CustomerRecharges(r)
    BY <1>2, <2>1, RechargeInDrift DEF Others
  <2>2. ~ OrderExpires
    BY DEF OrderExpires, Drifting
  <2>3. CASE MetricsMove
    <3>1. NoneInjected' /\ UNCHANGED <<money, order, stuck, redis>>
      BY <2>3 DEF MetricsMove, Drifting, NoneInjected, Injected
    <3> QED BY <1>2, <3>1, DriftKeeps DEF Others, Drifting, script, RestoreFailed
  <2> QED BY <1>2, <2>1, <2>2, <2>3 DEF Others
<1>3. CASE UNCHANGED booksVars
  BY <1>3, DriftKeeps DEF booksVars, drillVars, world, script, Drifting, NoneInjected, money, RestoreFailed
<1>4. ~ Drill
  BY DEF Drifting, DriftSteps, Drill, At, ChecksWiring, ReadsMint, InjectsFault, InjectsDrift,
         InjectsStuck, DetectsDrift, RecoversFromDrift, AlertFires, Repairs, RepairsQueue,
         AlertResolves, Registers, RechargesPublisher, CreatesOrder, KeepsIds, StopsRedis, Grabs,
         StartsRedis, CancelsOrder, RestartsRedis, CleansUp, WritesReport
<1> QED BY <1>1, <1>2, <1>3, <1>4 DEF BooksNext

LEMMA DriftBegins ==
  ASSUME DriftInit, old_balance = None
  PROVE  Drifting
<1>1. /\ balance = [a \in Account |-> 0] /\ DOMAIN ledger = {} /\ order = "none"
      /\ fault = {} /\ redis /\ ~ stuck /\ step = "setup"
  BY DEF DriftInit, WorldInit
<1>2. Available(Publisher) \in Account
  BY Members, AccountsOf
<1>3. /\ balance \in [Account -> Int] /\ WithoutDrift \in [Account -> Int]
      /\ \A a \in Account : WithoutDrift[a] = 0
      /\ balance[Available(Publisher)] = 0
  BY <1>1, <1>2 DEF WithoutDrift
<1>4. Sound(WithoutDrift, ledger, order)
  BY <1>1, <1>3, EmptyBooks
<1> QED BY <1>1, <1>3, <1>4 DEF Drifting, DriftSteps, NoneInjected, RechargesOnly

\* Where the script ends the cent is gone, unless its last statement raised.
LEMMA DriftEnds ==
  ASSUME Drifting, step = "end", ~ RestoreFailed
  PROVE  BooksBalance /\ redis /\ ~ stuck /\ NoneInjected
<1>1. WithoutDrift = balance
  BY Members, AccountsOf DEF WithoutDrift, Drifting
<1> QED BY <1>1, SoundBalances DEF Drifting

-------------------------------------------------------------------------------
(***************************************************************************)
(* validate_monitoring.py.                                                 *)
(***************************************************************************)

LEMMA Pops ==
  ASSUME NEW x, NEW y
  PROVE  /\ SubSeq(<<x>>, 1, Len(<<x>>) - 1) = <<>>
         /\ SubSeq(<<x, y>>, 1, Len(<<x, y>>) - 1) = <<x>>
         /\ <<x>>[Len(<<x>>)] = x
         /\ <<x, y>>[Len(<<x, y>>)] = y
         /\ <<x>> # <<>> /\ <<x, y>> # <<>>
<1>1. Len(<<x>>) = 1 /\ Len(<<x, y>>) = 2
  OBVIOUS
<1> DEFINE s == SubSeq(<<x, y>>, 1, 1)
           t == <<x>>
<1>2. t \in Seq({x, y}) /\ Len(t) = 1 /\ t[1] = x
  OBVIOUS
<1>3. s \in Seq({x, y}) /\ Len(s) = 1 /\ s[1] = x
  <2>1. \A i \in 1..1 : <<x, y>>[i] \in {x, y}
    OBVIOUS
  <2>2. \A i \in 1..1 : s[i] = <<x, y>>[i]
    BY <2>1, SubSeqProperties
  <2> QED BY <2>1, <2>2, SubSeqProperties
<1>4. s = t
  <2> HIDE DEF s, t
  <2>1. \A i \in 1..Len(s) : s[i] = t[i]
    BY <1>2, <1>3
  <2> QED BY <1>2, <1>3, <2>1, SeqEqual
<1> QED BY <1>1, <1>4

LEMMA Pushes ==
  ASSUME NEW x, NEW y
  PROVE  Append(<<>>, x) = <<x>> /\ Append(<<x>>, y) = <<x, y>>
<1> DEFINE s == Append(<<x>>, y)
           t == <<x, y>>
<1>1. Len(<<x>>) = 1 /\ <<x>> \in Seq({x, y}) /\ <<x>>[1] = x
  OBVIOUS
<1>2. t \in Seq({x, y}) /\ Len(t) = 2 /\ t[1] = x /\ t[2] = y
  OBVIOUS
<1>3. s \in Seq({x, y}) /\ Len(s) = 2 /\ s[1] = x /\ s[2] = y
  BY <1>1, AppendProperties
<1>4. s = t
  <2> HIDE DEF s, t
  <2>1. \A i \in 1..Len(s) : s[i] = t[i]
    BY <1>2, <1>3
  <2> QED BY <1>2, <1>3, <2>1, SeqEqual
<1> QED BY <1>4

\* The entries of the order follow its status.
OrderStates == {"none", "PUBLISHED", "TAKEN", "CANCELLED"}
OrderKeys(l, o) ==
  \A k \in DOMAIN l :
    /\ k[1] = "FREEZE" => o # "none"
    /\ k[1] \in {"CANCEL", "TIMEOUT"} => o = "CANCELLED"

\* Books in which nobody but the script's users has moved money.
UsersBooks(b, l, o) ==
  /\ Sound(b, l, o)
  /\ l = [k \in DOMAIN l |-> l[k]]
  /\ \A k \in DOMAIN l : OfUsers(k) /\ k[1] # "MONITOR"
  /\ \A u \in Users \ {Mint, Publisher} : b[Available(u)] = 0
  /\ o \in OrderStates
  /\ OrderKeys(l, o)

TheirBooks == UsersBooks(balance, ledger, order)

\* Before anything happened.
NoBooks == TheirBooks /\ DOMAIN ledger = {} /\ order = "none"

LEMMA NothingYet ==
  ASSUME NEW b, NEW l, Books(b, l), DOMAIN l = {}
  PROVE  \A a \in Account : b[a] = 0
<1>1. \A a : EntriesOf(l, a) = {}
  BY DEF EntriesOf
<1> QED BY <1>1, SumEmpty DEF Books, Match

\* What the transactions of the script's users do, Publisher standing for them.
LEMMA UsersMove ==
  ASSUME TheirBooks, NEW type \in {"RECHARGE", "FREEZE", "CANCEL", "TIMEOUT"}, NEW biz,
         NEW from \in Account, NEW to \in Account, from # to, NEW v \in Int,
         Fresh(ledger, <<type, biz, from>>), Fresh(ledger, <<type, biz, to>>),
         OfUsers(<<type, biz, from>>), OfUsers(<<type, biz, to>>),
         Moves(type, biz, from, to, v),
         \A u \in Users : balance'[Frozen(u)] = IF u = Publisher THEN Held(order') ELSE 0,
         \A u \in Users \ {Mint, Publisher} : balance'[Available(u)] = 0,
         balance'[Available(Publisher)] >= 0,
         order' \in OrderStates, OrderKeys(ledger', order')
  PROVE  TheirBooks'
<1>1. /\ balance' = Moved(balance, from, to, v)
      /\ ledger' = Posted(ledger, type, biz, from, to, v)
  BY DEF Moves, Moved, Posted
<1>2. Books(balance', ledger') /\ SumFunction(ledger') = 0
  BY <1>1, Transfer DEF TheirBooks, UsersBooks, Sound
<1>3. \A u \in Users \ {Mint} : balance'[Available(u)] >= 0
  OBVIOUS
<1>4. Sound(balance', ledger', order')
  BY <1>2, <1>3 DEF Sound
<1>5. /\ DOMAIN ledger' = DOMAIN ledger \cup {<<type, biz, from>>, <<type, biz, to>>}
      /\ ledger' = [k \in DOMAIN ledger' |-> ledger'[k]]
  BY <1>1 DEF Posted, Insert
<1>6. \A k \in DOMAIN ledger' : OfUsers(k) /\ k[1] # "MONITOR"
  BY <1>5 DEF TheirBooks, UsersBooks
<1> QED BY <1>4, <1>5, <1>6 DEF TheirBooks, UsersBooks

\* The accounts that take part.
LEMMA Accounts3 ==
  /\ AvailableOfMint \in Account /\ FrozenOfMint \in Account
  /\ Available(Publisher) \in Account /\ Frozen(Publisher) \in Account
  /\ AvailableOfMint # Available(Publisher) /\ Available(Publisher) # Frozen(Publisher)
  /\ AvailableOfMint # FrozenOfMint /\ AvailableOfMint # Frozen(Publisher)
  /\ FrozenOfMint # Available(Publisher) /\ FrozenOfMint # Frozen(Publisher)
BY Members, AccountsOf DEF AvailableOfMint, FrozenOfMint

LEMMA RechargeMoves ==
  ASSUME NoBooks, Moves("RECHARGE", "script", AvailableOfMint, Available(Publisher), Deposit),
         order' = order
  PROVE  /\ TheirBooks' /\ balance'[AvailableOfMint] = -Deposit
         /\ balance'[Available(Publisher)] = Deposit
<1> DEFINE m == AvailableOfMint
           p == Available(Publisher)
<1>1. /\ balance \in [Account -> Int] /\ \A a \in Account : balance[a] = 0
  BY NothingYet DEF NoBooks, TheirBooks, UsersBooks, Sound, Books
<1>2. balance' = Moved(balance, m, p, Deposit) /\ ledger' = Posted(ledger, "RECHARGE", "script", m, p, Deposit)
  BY DEF Moves, Moved, Posted
<1>3. m \in Account /\ p \in Account /\ m # p
  BY Accounts3
<1>4. /\ balance'[m] = -Deposit /\ balance'[p] = Deposit
      /\ \A a \in Account \ {m, p} : balance'[a] = 0
  <2> HIDE DEF m, p
  <2> QED BY <1>1, <1>2, <1>3, Members DEF Moved, Change
<1>5. \A u \in Users : balance'[Frozen(u)] = IF u = Publisher THEN Held(order') ELSE 0
  BY <1>4, AccountsOf DEF NoBooks, Held, Open, AvailableOfMint
<1>6. \A u \in Users \ {Mint, Publisher} : balance'[Available(u)] = 0
  BY <1>4, AccountsOf DEF AvailableOfMint
<1>7. DOMAIN ledger' = {<<"RECHARGE", "script", m>>, <<"RECHARGE", "script", p>>}
  <2> HIDE DEF m, p
  <2> QED BY <1>2 DEF Posted, Insert, NoBooks
<1>8. OrderKeys(ledger', order') /\ order' \in OrderStates
  BY <1>7 DEF OrderKeys, NoBooks, OrderStates
<1>9. OfUsers(<<"RECHARGE", "script", m>>) /\ OfUsers(<<"RECHARGE", "script", p>>)
  BY DEF OfUsers
<1>10. Fresh(ledger, <<"RECHARGE", "script", m>>) /\ Fresh(ledger, <<"RECHARGE", "script", p>>)
  BY DEF Fresh, NoBooks
<1>11. TheirBooks'
  <2>1. balance'[p] >= 0 /\ Deposit \in Int
    BY <1>4, Members
  <2> QED BY <1>3, <1>5, <1>6, <1>8, <1>9, <1>10, <2>1, UsersMove DEF NoBooks
<1> QED BY <1>4, <1>11

LEMMA FreezeMoves ==
  ASSUME TheirBooks, order = "none", order' = "PUBLISHED", balance[Available(Publisher)] = Deposit,
         Moves("FREEZE", "order", Available(Publisher), Frozen(Publisher), Reward)
  PROVE  TheirBooks' /\ balance'[AvailableOfMint] = balance[AvailableOfMint]
<1> DEFINE p == Available(Publisher)
           f == Frozen(Publisher)
<1>1. balance \in [Account -> Int]
  BY DEF TheirBooks, UsersBooks, Sound, Books
<1>2. balance' = Moved(balance, p, f, Reward) /\ ledger' = Posted(ledger, "FREEZE", "order", p, f, Reward)
  BY DEF Moves, Moved, Posted
<1>3. p \in Account /\ f \in Account /\ p # f
  BY Accounts3
<1>4. /\ balance'[p] = balance[p] - Reward /\ balance'[f] = balance[f] + Reward
      /\ \A a \in Account \ {p, f} : balance'[a] = balance[a]
  <2> HIDE DEF p, f
  <2> QED BY <1>1, <1>2, <1>3, Members DEF Moved, Change
<1>a. /\ \A u \in Users : balance[Frozen(u)] = 0
      /\ \A u \in Users \ {Mint, Publisher} : balance[Available(u)] = 0
  BY DEF TheirBooks, UsersBooks, Sound, Held, Open
<1>5. \A u \in Users : balance'[Frozen(u)] = IF u = Publisher THEN Held(order') ELSE 0
  <2>1. balance'[f] = Held(order')
    BY <1>4, <1>a, Members DEF Held, Open
  <2>2. ASSUME NEW u \in Users \ {Publisher} PROVE balance'[Frozen(u)] = 0
    <3>1. Frozen(u) \in Account \ {p, f}
      BY AccountsOf
    <3> QED BY <1>4, <1>a, <3>1
  <2> QED BY <2>1, <2>2
<1>6. \A u \in Users \ {Mint, Publisher} : balance'[Available(u)] = 0
  <2> SUFFICES ASSUME NEW u \in Users \ {Mint, Publisher} PROVE balance'[Available(u)] = 0
    OBVIOUS
  <2>1. Available(u) \in Account \ {p, f}
    BY AccountsOf
  <2> QED BY <1>4, <1>a, <2>1
<1>7. DOMAIN ledger' = DOMAIN ledger \cup {<<"FREEZE", "order", p>>, <<"FREEZE", "order", f>>}
  <2> HIDE DEF p, f
  <2> QED BY <1>2 DEF Posted, Insert
<1>8. OrderKeys(ledger', order') /\ order' \in OrderStates
  BY <1>7 DEF TheirBooks, UsersBooks, OrderKeys, OrderStates
<1>9. OfUsers(<<"FREEZE", "order", p>>) /\ OfUsers(<<"FREEZE", "order", f>>)
  BY DEF OfUsers, Available, Frozen
<1>10. Fresh(ledger, <<"FREEZE", "order", p>>) /\ Fresh(ledger, <<"FREEZE", "order", f>>)
  BY DEF Fresh, TheirBooks, UsersBooks, OrderKeys
<1>11. TheirBooks'
  <2>1. balance'[p] >= 0 /\ Reward \in Int
    BY <1>4, Members
  <2> QED BY <1>3, <1>5, <1>6, <1>8, <1>9, <1>10, <2>1, UsersMove
<1>12. balance'[AvailableOfMint] = balance[AvailableOfMint]
  BY <1>4, Accounts3
<1> QED BY <1>11, <1>12

\* cancel and timeoutClaim.
LEMMA ReturnMoves ==
  ASSUME TheirBooks, order \in Open, order' = "CANCELLED", NEW type \in {"CANCEL", "TIMEOUT"},
         Moves(type, "order", Frozen(Publisher), Available(Publisher), Reward)
  PROVE  TheirBooks' /\ balance'[AvailableOfMint] = balance[AvailableOfMint]
<1> DEFINE p == Available(Publisher)
           f == Frozen(Publisher)
<1>1. balance \in [Account -> Int]
  BY DEF TheirBooks, UsersBooks, Sound, Books
<1>2. balance' = Moved(balance, f, p, Reward) /\ ledger' = Posted(ledger, type, "order", f, p, Reward)
  BY DEF Moves, Moved, Posted
<1>3. p \in Account /\ f \in Account /\ p # f
  BY Accounts3
<1>4. /\ balance'[p] = balance[p] + Reward /\ balance'[f] = balance[f] - Reward
      /\ \A a \in Account \ {p, f} : balance'[a] = balance[a]
  <2> HIDE DEF p, f
  <2> QED BY <1>1, <1>2, <1>3, Members DEF Moved, Change
<1>a. /\ \A u \in Users \ {Publisher} : balance[Frozen(u)] = 0
      /\ balance[f] = Reward /\ balance[p] >= 0 /\ balance[p] \in Int
      /\ \A u \in Users \ {Mint, Publisher} : balance[Available(u)] = 0
  BY <1>1, <1>3, Members DEF TheirBooks, UsersBooks, Sound, Held
<1>5. \A u \in Users : balance'[Frozen(u)] = IF u = Publisher THEN Held(order') ELSE 0
  <2>1. balance'[f] = Held(order')
    BY <1>4, <1>a, Members DEF Held, Open
  <2>2. ASSUME NEW u \in Users \ {Publisher} PROVE balance'[Frozen(u)] = 0
    <3>1. Frozen(u) \in Account \ {p, f}
      BY AccountsOf
    <3> QED BY <1>4, <1>a, <3>1
  <2> QED BY <2>1, <2>2
<1>6. \A u \in Users \ {Mint, Publisher} : balance'[Available(u)] = 0
  <2> SUFFICES ASSUME NEW u \in Users \ {Mint, Publisher} PROVE balance'[Available(u)] = 0
    OBVIOUS
  <2>1. Available(u) \in Account \ {p, f}
    BY AccountsOf
  <2> QED BY <1>4, <1>a, <2>1
<1>7. DOMAIN ledger' = DOMAIN ledger \cup {<<type, "order", f>>, <<type, "order", p>>}
  <2> HIDE DEF p, f
  <2> QED BY <1>2 DEF Posted, Insert
<1>8. OrderKeys(ledger', order') /\ order' \in OrderStates
  BY <1>7 DEF TheirBooks, UsersBooks, OrderKeys, OrderStates
<1>9. OfUsers(<<type, "order", f>>) /\ OfUsers(<<type, "order", p>>)
  BY DEF OfUsers, Available, Frozen
<1>10. Fresh(ledger, <<type, "order", f>>) /\ Fresh(ledger, <<type, "order", p>>)
  BY DEF Fresh, TheirBooks, UsersBooks, OrderKeys, Open
<1>11. TheirBooks'
  <2>1. balance'[p] >= 0 /\ Reward \in Int
    BY <1>4, <1>a, Members
  <2> QED BY <1>3, <1>5, <1>6, <1>8, <1>9, <1>10, <2>1, UsersMove
<1>12. balance'[AvailableOfMint] = balance[AvailableOfMint]
  BY <1>4, Accounts3
<1> QED BY <1>11, <1>12

UsersRow == [name |-> "users", available |-> 0]
DriftRow == [name |-> "drift", available |-> 0]
StuckRow == [name |-> "settlement", available |-> -Deposit, frozen |-> 0]

\* The rows of the users go: nothing is left.
LEMMA RemovalMoves ==
  ASSUME TheirBooks, RemovesUsers(UsersRow)
  PROVE  NoBooks'
<1> DEFINE m == AvailableOfMint
           p == Available(Publisher)
           f == Frozen(Publisher)
<1>1. balance \in [Account -> Int]
  BY DEF TheirBooks, UsersBooks, Sound, Books
<1>2. balance' = [balance EXCEPT ![p] = 0, ![f] = 0, ![m] = 0] /\ order' = "none"
  BY DEF RemovesUsers, UsersRow
<1>3. DOMAIN ledger' = {}
  BY DEF RemovesUsers, TheirBooks, UsersBooks, Restrict
<1>4. balance' \in [Account -> Int]
  <2>1. m \in Account /\ p \in Account /\ f \in Account
    BY Accounts3
  <2> DEFINE b1 == [balance EXCEPT ![p] = 0]
             b2 == [b1 EXCEPT ![f] = 0]
  <2> HIDE DEF m, p, f
  <2>2. b1 \in [Account -> Int]
    BY <1>1, <2>1
  <2>3. b2 \in [Account -> Int]
    <3> HIDE DEF b1
    <3> QED BY <2>1, <2>2
  <2>4. balance' = [b2 EXCEPT ![m] = 0]
    BY <1>2
  <2> HIDE DEF b1, b2
  <2> QED BY <2>1, <2>3, <2>4
<1>5. balance'[m] = 0 /\ balance'[p] = 0 /\ balance'[f] = 0
  <2>1. m \in Account /\ p \in Account /\ f \in Account /\ m # p /\ m # f /\ p # f
    BY Accounts3
  <2> HIDE DEF m, p, f
  <2> QED BY <1>1, <1>2, <2>1
<1>6. ASSUME NEW a \in Account PROVE balance'[a] = 0
  <2>1. CASE a \in {m, p, f}
    BY <1>5, <2>1
  <2>2. CASE a \notin {m, p, f}
    <3>1. balance'[a] = balance[a]
      <4> HIDE DEF m, p, f
      <4> QED BY <1>1, <1>2, <2>2
    <3>2. \/ a[1] \in Users \ {Mint, Publisher} /\ a = Available(a[1])
          \/ a[1] \in Users \ {Publisher} /\ a = Frozen(a[1])
      BY <2>2, AccountsOf DEF AvailableOfMint
    <3> QED BY <3>1, <3>2 DEF TheirBooks, UsersBooks, Sound
  <2> QED BY <2>1, <2>2
<1>7. Sound(balance', ledger', order')
  BY <1>2, <1>3, <1>4, <1>6, EmptyBooks
<1>8. ledger' = [k \in DOMAIN ledger' |-> ledger'[k]]
  BY DEF RemovesUsers, Restrict
<1>9. UsersBooks(balance', ledger', order')
  BY <1>2, <1>3, <1>6, <1>7, <1>8, AccountsOf DEF UsersBooks, OrderStates, OrderKeys
<1> QED BY <1>2, <1>3, <1>9 DEF NoBooks, TheirBooks

(***************************************************************************)
(* Where the script stands, by its stack.                                  *)
(***************************************************************************)

Closing == {"finally", "cleanup", "end"}
MonitorSteps ==
  {"wiring", "inject", "read", "detects", "recovers", "fires", "repair", "resolves", "register",
   "recharge", "create", "ids", "stop", "grab", "cancel"}

\* The mint without the cent, and without the order that is stuck.
WithoutCent == [balance EXCEPT ![AvailableOfMint] = 0]
WithoutStuck == [balance EXCEPT ![AvailableOfMint] = -Deposit, ![FrozenOfMint] = 0]
WithoutMonitor == Restrict(ledger, {k \in DOMAIN ledger : k[1] # "MONITOR"})

\* Nothing is injected, and the script's users are not there yet.
Quiet ==
  /\ \/ alert = "dead" /\ step \in {"wiring", "inject", "resolves"} \cup Closing
     \/ alert = "recon" /\ step \in {"read", "inject", "recovers", "resolves"} \cup Closing
     \/ alert = "late" /\ step \in {"inject", "resolves"} \cup Closing
  /\ cleanup = <<>> /\ verdict # "passed" /\ ~ stuck /\ NoneInjected /\ NoBooks
  /\ alert = "recon" /\ step = "inject" => saved.available = 0

\* The dead event, or the overdue member.
Marked ==
  /\ alert \in {"dead", "late"} /\ step \in {"fires", "repair"} \cup Closing
  /\ cleanup = <<[name |-> alert]>> /\ verdict # "passed" /\ ~ stuck /\ NoBooks
  /\ fault \cap Injected = {alert}

Drifted ==
  /\ alert = "recon" /\ step \in {"detects", "fires", "repair"} \cup Closing
  /\ cleanup = <<DriftRow>> /\ verdict # "passed" /\ ~ stuck /\ NoneInjected
  /\ UsersBooks(WithoutCent, ledger, order) /\ DOMAIN ledger = {} /\ order = "none"

\* The script's users come, and their ids are not known yet.
Serving ==
  /\ alert = "redis"
  /\ step \in {"register", "read", "recharge", "create", "ids"} \cup Closing
  /\ cleanup = <<>> /\ verdict # "passed" /\ ~ stuck /\ NoneInjected /\ TheirBooks
  /\ step \in {"register", "read", "recharge"} => NoBooks
  /\ step = "create" => order = "none" /\ balance[Available(Publisher)] = Deposit
  /\ step \in {"create", "ids"} => balance[AvailableOfMint] = -Deposit
  /\ step \in {"recharge", "create", "ids"} => saved.available = 0

\* They can be removed.
Listed ==
  /\ \/ /\ alert = "redis" /\ verdict # "passed"
        /\ step \in {"stop", "grab", "fires", "repair", "cancel", "resolves"} \cup Closing
        /\ step = "resolves" => order \notin Open
     \/ /\ alert = "settlement" /\ order \notin Open
        /\ step \in {"read", "inject", "resolves"} \cup Closing
        /\ step = "inject" => saved.available = -Deposit /\ saved.frozen = 0
  /\ cleanup = <<UsersRow>> /\ ~ stuck /\ NoneInjected
  /\ TheirBooks /\ balance[AvailableOfMint] = -Deposit

\* The order that cannot be settled.
Blocked ==
  /\ alert = "settlement" /\ order \notin Open
  /\ step \in {"fires", "repair"} \cup Closing
  /\ cleanup = <<UsersRow, StuckRow>> /\ verdict # "passed"
  /\ fault \cap Injected = {"settlement"}
  /\ UsersBooks(WithoutStuck, WithoutMonitor, order)
  /\ balance \in [Account -> Int]

\* The stack is empty, whether the users were removed or not.
Cleaned ==
  /\ alert \in {"redis", "settlement"} /\ step \in {"cleanup", "end"}
  /\ cleanup = <<>> /\ ~ stuck /\ NoneInjected /\ TheirBooks

Swept ==
  /\ step \in {"cleanup", "end"} /\ ~ fragile => redis
  /\ step = "end" => cleanup = <<>>

Situation == Quiet \/ Marked \/ Drifted \/ Serving \/ Listed \/ Blocked \/ Cleaned

Tidy == Situation /\ Swept

\* Nobody else moved the mint's money, and no statement of the script failed.
Clear == Undisturbed /\ ~ (fragile /\ verdict = "failed")

CustomersKeys ==
  \A k \in DOMAIN ledger : k[3][1] = Customer => k[1] = "RECHARGE" /\ k[2] \in Recharges

Alerts == {"dead", "recon", "late", "redis", "settlement"}

Control ==
  /\ old_balance = None
  /\ alert \in Alerts
  /\ step \in MonitorSteps \cup Closing
  /\ verdict \in {"open", "failed", "passed"}
  /\ verdict = "open" <=> step \notin Closing
  /\ CustomersKeys

Watching == Control /\ (Clear => Tidy)

\* Once a customer has recharged, or a statement has failed, nothing is claimed.
LEMMA ControlKept ==
  ASSUME Control, step \in MonitorSteps, UNCHANGED <<old_balance, fragile>>,
         UNCHANGED alert \/ alert' \in Alerts,
         CustomersKeys', Undisturbed' => Undisturbed,
         \/ step' \in MonitorSteps /\ verdict' = verdict
         \/ step' = "finally" /\ verdict' \in {"failed", "passed"}
  PROVE  Control' /\ (Clear' => Clear)
<1>1. verdict = "open"
  BY DEF Control, MonitorSteps, Closing
<1>2. Control'
  BY <1>1 DEF Control, MonitorSteps, Closing
<1>3. Clear' => Clear
  BY <1>1 DEF Clear
<1> QED BY <1>2, <1>3

LEMMA SameKeys ==
  ASSUME Control, UNCHANGED ledger
  PROVE  CustomersKeys' /\ (Undisturbed' => Undisturbed)
BY DEF Control, CustomersKeys, Undisturbed

LEMMA KeysAdded ==
  ASSUME Control, NEW K, DOMAIN ledger' = DOMAIN ledger \cup K, \A k \in K : k[3][1] # Customer
  PROVE  CustomersKeys' /\ (Undisturbed' => Undisturbed)
BY DEF Control, CustomersKeys, Undisturbed

LEMMA KeysRemoved ==
  ASSUME Control, NEW K, DOMAIN ledger' = DOMAIN ledger \ K,
         \A k \in K : OfUsers(k) \/ k[1] = "MONITOR"
  PROVE  CustomersKeys' /\ (Undisturbed' => Undisturbed)
<1>1. \A k \in DOMAIN ledger : k[3][1] = Customer => k \notin K
  BY Members, MonitoringAssumption DEF Control, CustomersKeys, OfUsers
<1> QED BY <1>1 DEF Control, CustomersKeys, Undisturbed

\* An exception leads to the finally block, and leaves the stack as it is.
LEMMA Raising ==
  ASSUME Watching, step \in MonitorSteps, Raises("finally"),
         UNCHANGED <<money, order, stuck, alert, cleanup, fragile, old_balance>>,
         fault' \cap Injected = fault \cap Injected
  PROVE  Watching'
<1>1. Control' /\ (Clear' => Clear)
  BY ControlKept, SameKeys DEF Watching, Raises, money
<1>2. ASSUME Situation PROVE Situation'
  <2> USE DEF Raises, money, NoneInjected, NoBooks, TheirBooks, Closing
  <2>1. CASE Quiet
    BY <2>1 DEF Quiet, Situation
  <2>2. CASE Marked
    BY <2>2 DEF Marked, Situation
  <2>3. CASE Drifted
    BY <2>3 DEF Drifted, Situation, WithoutCent
  <2>4. CASE Serving
    BY <2>4 DEF Serving, Situation
  <2>5. CASE Listed
    BY <2>5 DEF Listed, Situation
  <2>6. CASE Blocked
    BY <2>6 DEF Blocked, Situation, WithoutStuck, WithoutMonitor
  <2>7. ~ Cleaned
    BY DEF Cleaned, MonitorSteps
  <2> QED BY <1>2, <2>1, <2>2, <2>3, <2>4, <2>5, <2>6, <2>7 DEF Situation
<1>3. Swept'
  BY DEF Swept, Raises
<1> QED BY <1>1, <1>2, <1>3 DEF Watching, Tidy

\* After a statement that failed nothing is claimed.
LEMMA Failing ==
  ASSUME Watching, step \in MonitorSteps, fragile, Raises("finally"),
         UNCHANGED <<alert, old_balance, fragile>>, CustomersKeys', Undisturbed' => Undisturbed
  PROVE  Watching'
<1>1. Control'
  BY ControlKept DEF Watching, Raises
<1>2. ~ Clear'
  BY DEF Clear, Raises
<1> QED BY <1>1, <1>2 DEF Watching

\* A step inside the try block, or out of it.
LEMMA GoingOn ==
  ASSUME Watching, step \in MonitorSteps, UNCHANGED <<old_balance, fragile>>,
         \/ step' \in MonitorSteps /\ verdict' = verdict
         \/ step' = "finally" /\ verdict' \in {"failed", "passed"},
         UNCHANGED alert \/ alert' \in Alerts,
         CustomersKeys', Undisturbed' => Undisturbed, Clear /\ Tidy => Situation'
  PROVE  Watching'
<1>1. Control' /\ (Clear' => Clear)
  BY ControlKept DEF Watching
<1>2. Swept'
  BY DEF Swept, MonitorSteps
<1> QED BY <1>1, <1>2 DEF Watching, Tidy

\* The situation is known from the step.
LEMMA Whereabouts ==
  ASSUME Situation
  PROVE  /\ step = "wiring" => Quiet /\ alert = "dead"
         /\ step = "inject" => IF alert = "settlement" THEN Listed ELSE Quiet
         /\ step = "read" => \/ alert = "recon" /\ Quiet
                             \/ alert = "redis" /\ Serving
                             \/ alert = "settlement" /\ Listed
         /\ step = "detects" => Drifted
         /\ step = "recovers" => Quiet /\ alert = "recon"
         /\ step \in {"fires", "repair"} => \/ alert \in {"dead", "late"} /\ Marked
                                            \/ alert = "recon" /\ Drifted
                                            \/ alert = "redis" /\ Listed
                                            \/ alert = "settlement" /\ Blocked
         /\ step = "resolves" => \/ alert \in {"dead", "recon", "late"} /\ Quiet
                                 \/ alert \in {"redis", "settlement"} /\ Listed
         /\ step \in {"register", "recharge", "create", "ids"} => Serving
         /\ step \in {"stop", "grab", "cancel"} => Listed /\ alert = "redis"
BY DEF Situation, Quiet, Marked, Drifted, Serving, Listed, Blocked, Cleaned, Closing

LEMMA ChecksWiringStep ==
  ASSUME Watching, ChecksWiring, UNCHANGED <<old_balance, fragile>>
  PROVE  Watching'
<1>1. step = "wiring" /\ UNCHANGED <<world, alert, cleanup, saved>> /\ step \in MonitorSteps
  BY DEF ChecksWiring, At, MonitorSteps
<1>2. CASE Raises("finally")
  BY <1>1, <1>2, Raising DEF world
<1>3. CASE Goes("inject")
  <2>1. ASSUME Tidy PROVE Situation'
    <3>1. Quiet /\ alert = "dead"
      BY <1>1, <2>1, Whereabouts DEF Tidy
    <3>2. Quiet'
      BY <1>1, <1>3, <3>1 DEF Quiet, Goes, world, money, NoneInjected, NoBooks, TheirBooks
    <3> QED BY <3>2 DEF Situation
  <2> QED BY <1>1, <1>3, <2>1, GoingOn, SameKeys DEF Watching, Goes, MonitorSteps, world, money
<1> QED BY <1>2, <1>3 DEF ChecksWiring, Calls

LEMMA ReadsMintStep ==
  ASSUME Watching, ReadsMint, UNCHANGED <<old_balance, fragile>>
  PROVE  Watching'
<1>1. /\ step = "read" /\ UNCHANGED <<world, alert, cleanup, verdict>> /\ step \in MonitorSteps
      /\ saved'.available = balance[AvailableOfMint] /\ saved'.frozen = balance[FrozenOfMint]
      /\ step' = IF alert = "redis" THEN "recharge" ELSE "inject"
  BY DEF ReadsMint, At, MonitorSteps, Goes
<1>2. ASSUME Tidy PROVE Situation'
  <2> USE DEF NoneInjected, TheirBooks, NoBooks, world, money
  <2>1. CASE alert = "recon" /\ Quiet
    <3>1. saved'.available = 0
      BY <1>1, <2>1, NothingYet, Accounts3 DEF Quiet, UsersBooks, Sound
    <3>2. Quiet'
      BY <1>1, <2>1, <3>1 DEF Quiet
    <3> QED BY <3>2 DEF Situation
  <2>2. CASE alert = "redis" /\ Serving
    <3>1. NoBooks /\ saved'.available = 0
      BY <1>1, <2>2, NothingYet, Accounts3 DEF Serving, UsersBooks, Sound
    <3>2. Serving'
      BY <1>1, <2>2, <3>1 DEF Serving
    <3> QED BY <3>2 DEF Situation
  <2>3. CASE alert = "settlement" /\ Listed
    <3>1. saved'.frozen = 0
      BY <1>1, <2>3, Members DEF Listed, UsersBooks, Sound, FrozenOfMint
    <3>2. Listed'
      BY <1>1, <2>3, <3>1 DEF Listed
    <3> QED BY <3>2 DEF Situation
  <2> QED BY <1>1, <1>2, <2>1, <2>2, <2>3, Whereabouts DEF Tidy
<1> QED BY <1>1, <1>2, GoingOn, SameKeys DEF Watching, MonitorSteps, world, money

LEMMA InjectsFaultStep ==
  ASSUME Watching, InjectsFault, UNCHANGED <<old_balance, fragile>>
  PROVE  Watching'
<1>1. /\ step = "inject" /\ alert \in {"dead", "late"} /\ step \in MonitorSteps
      /\ UNCHANGED <<money, redis, order, stuck, alert, saved>>
  BY DEF InjectsFault, At, MonitorSteps
<1>2. CASE Fails
  BY <1>1, <1>2, Failing, SameKeys DEF Fails, Watching, money
<1>3. CASE fault' = fault \cup {alert} /\ Push([name |-> alert]) /\ Goes("fires")
  <2>1. ASSUME Tidy PROVE Situation'
    <3>1. Quiet
      BY <1>1, <2>1, Whereabouts DEF Tidy
    <3>2. cleanup' = <<[name |-> alert]>>
      BY <1>3, <3>1, Pushes DEF Push, Quiet
    <3>3. fault' \cap Injected = {alert}
      BY <1>1, <1>3, <3>1 DEF Quiet, NoneInjected, Injected
    <3>4. NoBooks'
      BY <1>1, <3>1 DEF Quiet, NoBooks, TheirBooks, money
    <3>5. Marked'
      BY <1>1, <1>3, <3>1, <3>2, <3>3, <3>4 DEF Marked, Quiet, Goes
    <3> QED BY <3>5 DEF Situation
  <2> QED BY <1>1, <1>3, <2>1, GoingOn, SameKeys DEF Watching, Goes, MonitorSteps, money
<1> QED BY <1>2, <1>3 DEF InjectsFault

LEMMA InjectsDriftStep ==
  ASSUME Watching, InjectsDrift, UNCHANGED <<old_balance, fragile>>
  PROVE  Watching'
<1>1. /\ step = "inject" /\ alert = "recon" /\ step \in MonitorSteps
      /\ UNCHANGED <<ledger, fault, redis, order, stuck, alert, saved>>
  BY DEF InjectsDrift, At, MonitorSteps
<1>2. CASE Fails
  BY <1>1, <1>2, Failing, SameKeys DEF Fails, Watching
<1>3. CASE /\ balance' = Change(balance, AvailableOfMint, 1)
           /\ Push([name |-> "drift", available |-> saved.available])
           /\ Goes("detects")
  <2>1. ASSUME Tidy PROVE Situation'
    <3>1. Quiet /\ saved.available = 0
      BY <1>1, <2>1, Whereabouts DEF Tidy, Quiet
    <3>2. cleanup' = <<DriftRow>>
      BY <1>3, <3>1, Pushes DEF Push, Quiet, DriftRow
    <3>3. balance \in [Account -> Int] /\ balance[AvailableOfMint] = 0
      BY <3>1, NothingYet, Accounts3 DEF Quiet, NoBooks, TheirBooks, UsersBooks, Sound, Books
    <3>4. WithoutCent' = balance
      BY <1>3, <3>3, Accounts3 DEF WithoutCent, Change
    <3>5. UsersBooks(WithoutCent', ledger', order')
      BY <1>1, <3>1, <3>4 DEF Quiet, NoBooks, TheirBooks
    <3>6. Drifted'
      BY <1>1, <1>3, <3>1, <3>2, <3>5 DEF Drifted, Quiet, Goes, NoneInjected, NoBooks
    <3> QED BY <3>6 DEF Situation
  <2> QED BY <1>1, <1>3, <2>1, GoingOn, SameKeys DEF Watching, Goes, MonitorSteps
<1> QED BY <1>2, <1>3 DEF InjectsDrift

LEMMA InjectsStuckStep ==
  ASSUME Watching, InjectsStuck, UNCHANGED <<old_balance, fragile>>
  PROVE  Watching'
<1> DEFINE a == AvailableOfMint
           f == FrozenOfMint
           l == Insert(Insert(ledger, <<"MONITOR", "stuck", a>>, -1), <<"MONITOR", "stuck", f>>, 1)
<1>1. /\ step = "inject" /\ alert = "settlement" /\ step \in MonitorSteps
      /\ UNCHANGED <<redis, order, alert, saved>>
      /\ ledger' \in {ledger, l}
  BY DEF InjectsStuck, At, MonitorSteps
<1>2. CustomersKeys' /\ (Undisturbed' => Undisturbed)
  <2>1. CASE ledger' = ledger
    BY <2>1, SameKeys DEF Watching
  <2>2. CASE ledger' = l
    <3> DEFINE K == {<<"MONITOR", "stuck", a>>, <<"MONITOR", "stuck", f>>}
    <3>1. DOMAIN ledger' = DOMAIN ledger \cup K
      BY <2>2 DEF Insert
    <3>2. \A k \in K : k[3][1] # Customer
      BY Members DEF AvailableOfMint, FrozenOfMint, Available, Frozen
    <3>3. Control
      BY DEF Watching
    <3> HIDE DEF K
    <3> QED BY <3>1, <3>2, <3>3, KeysAdded
  <2> QED BY <1>1, <2>1, <2>2
<1>3. CASE Fails
  BY <1>1, <1>2, <1>3, Failing DEF Fails
<1>4. CASE ~ Fails
  <2>1. /\ stuck' /\ fault' = fault \cup {"settlement"}
        /\ balance' = [balance EXCEPT ![a] = saved.available - 1, ![f] = saved.frozen + 1]
        /\ ledger' = l
        /\ Push([name |-> "settlement", available |-> saved.available, frozen |-> saved.frozen])
        /\ Goes("fires")
    <3>1. PICK n \in IF fragile THEN 0..4 ELSE {4} :
            /\ stuck' = (n >= 1)
            /\ fault' = IF n >= 1 THEN fault \cup {"settlement"} ELSE fault
            /\ SetsMint(IF n >= 2 THEN saved.available - 1 ELSE balance[AvailableOfMint],
                        IF n >= 3 THEN saved.frozen + 1 ELSE balance[FrozenOfMint])
            /\ ledger' = IF n = 4 THEN l ELSE ledger
            /\ n = 4
            /\ Push([name |-> "settlement", available |-> saved.available, frozen |-> saved.frozen])
            /\ Goes("fires")
      BY <1>4 DEF InjectsStuck
    <3>2. n = 4
      BY <3>1
    <3>3. SetsMint(saved.available - 1, saved.frozen + 1)
      BY <3>1, <3>2
    <3>4. balance' = [balance EXCEPT ![a] = saved.available - 1, ![f] = saved.frozen + 1]
      BY <3>3 DEF SetsMint
    <3>5. stuck'
      <4>1. n >= 1
        BY <3>2
      <4> QED BY <3>1, <4>1
    <3>6. fault' = fault \cup {"settlement"}
      BY <3>1, <3>2
    <3>7. ledger' = l
      <4> HIDE DEF l
      <4> QED BY <3>1, <3>2
    <3> QED BY <3>1, <3>4, <3>5, <3>6, <3>7
  <2>2. ASSUME Tidy PROVE Situation'
    <3>1. Listed /\ saved.available = -Deposit /\ saved.frozen = 0
      BY <1>1, <2>2, Whereabouts DEF Tidy, Listed
    <3>2. cleanup' = <<UsersRow, StuckRow>>
      BY <2>1, <3>1, Pushes DEF Push, Listed, StuckRow
    <3>3. fault' \cap Injected = {"settlement"}
      BY <2>1, <3>1 DEF Listed, NoneInjected, Injected
    <3>4. balance \in [Account -> Int] /\ balance[a] = -Deposit /\ balance[f] = 0
      BY <3>1, Members DEF Listed, TheirBooks, UsersBooks, Sound, Books, FrozenOfMint
    <3>5. a \in Account /\ f \in Account /\ a # f
      BY Accounts3
    <3>6. balance' = [balance EXCEPT ![a] = -Deposit - 1, ![f] = 1]
      BY <2>1, <3>1
    <3>7. WithoutStuck' = balance /\ balance' \in [Account -> Int]
      <4>1. WithoutStuck' = [balance' EXCEPT ![a] = -Deposit, ![f] = 0]
        BY DEF WithoutStuck
      <4> HIDE DEF a, f
      <4>2. balance' \in [Account -> Int] /\ \A c \in Account \ {a, f} : balance'[c] = balance[c]
        BY <3>4, <3>5, <3>6, Members
      <4>3. /\ WithoutStuck' \in [Account -> Int]
            /\ WithoutStuck'[a] = -Deposit /\ WithoutStuck'[f] = 0
            /\ \A c \in Account \ {a, f} : WithoutStuck'[c] = balance'[c]
        BY <3>5, <4>1, <4>2, Members
      <4>4. \A c \in Account : WithoutStuck'[c] = balance[c]
        BY <3>4, <4>2, <4>3
      <4>5. WithoutStuck' = balance
        BY <3>4, <4>3, <4>4
      <4> QED BY <4>2, <4>5
    <3>8. WithoutMonitor' = ledger
      <4>1. /\ ledger = [k \in DOMAIN ledger |-> ledger[k]]
            /\ \A k \in DOMAIN ledger : k[1] # "MONITOR"
        BY <3>1 DEF Listed, TheirBooks, UsersBooks
      <4>2. /\ DOMAIN l = DOMAIN ledger \cup {<<"MONITOR", "stuck", a>>, <<"MONITOR", "stuck", f>>}
            /\ \A k \in DOMAIN ledger : l[k] = ledger[k]
        BY <4>1 DEF Insert
      <4> HIDE DEF l
      <4>3. {k \in DOMAIN l : k[1] # "MONITOR"} = DOMAIN ledger
        <5>1. \A k \in DOMAIN ledger : k \in DOMAIN l /\ k[1] # "MONITOR"
          BY <4>1, <4>2
        <5>2. ASSUME NEW k \in DOMAIN l, k[1] # "MONITOR" PROVE k \in DOMAIN ledger
          <6>1. k # <<"MONITOR", "stuck", a>> /\ k # <<"MONITOR", "stuck", f>>
            BY <5>2
          <6> QED BY <4>2, <6>1
        <5> QED BY <5>1, <5>2
      <4>4. WithoutMonitor' = [k \in DOMAIN ledger |-> l[k]]
        BY <2>1, <4>3 DEF WithoutMonitor, Restrict
      <4> QED BY <4>1, <4>2, <4>4
    <3>9. UsersBooks(WithoutStuck', WithoutMonitor', order')
      BY <1>1, <3>1, <3>7, <3>8 DEF Listed, TheirBooks
    <3>10. Blocked'
      <4>1. verdict' # "passed" /\ order' \notin Open /\ step' = "fires" /\ alert' = "settlement"
        BY <1>1, <2>1, <3>1 DEF Goes, Listed, Watching, Control, MonitorSteps, Closing
      <4> QED BY <3>2, <3>3, <3>7, <3>9, <4>1 DEF Blocked
    <3> QED BY <3>10 DEF Situation
  <2> QED BY <1>1, <1>2, <2>1, <2>2, GoingOn DEF Goes, MonitorSteps
<1> QED BY <1>3, <1>4

LEMMA DetectsDriftStep ==
  ASSUME Watching, DetectsDrift, UNCHANGED <<old_balance, fragile>>
  PROVE  Watching'
<1>1. /\ step = "detects" /\ step \in MonitorSteps
      /\ UNCHANGED <<money, order, stuck, alert, cleanup>>
      /\ fault' \cap Injected = fault \cap Injected
      /\ Goes("fires") \/ Raises("finally")
  BY DEF DetectsDrift, Reconciles, At, MonitorSteps, Injected, Asserts
<1>2. CASE Raises("finally")
  BY <1>1, <1>2, Raising
<1>3. CASE Goes("fires")
  <2>1. ASSUME Tidy PROVE Situation'
    <3>1. Drifted
      BY <1>1, <2>1, Whereabouts DEF Tidy
    <3>2. Drifted'
      BY <1>1, <1>3, <3>1 DEF Drifted, Goes, money, NoneInjected, WithoutCent
    <3> QED BY <3>2 DEF Situation
  <2> QED BY <1>1, <1>3, <2>1, GoingOn, SameKeys DEF Watching, Goes, MonitorSteps, money
<1> QED BY <1>1, <1>2, <1>3

LEMMA RecoversFromDriftStep ==
  ASSUME Watching, RecoversFromDrift, UNCHANGED <<old_balance, fragile>>
  PROVE  Watching'
<1>1. /\ step = "recovers" /\ step \in MonitorSteps
      /\ UNCHANGED <<money, order, stuck, alert, cleanup>>
      /\ fault' \cap Injected = fault \cap Injected
      /\ Goes("resolves") \/ Raises("finally")
  BY DEF RecoversFromDrift, Reconciles, At, MonitorSteps, Injected, Asserts
<1>2. CASE Raises("finally")
  BY <1>1, <1>2, Raising
<1>3. CASE Goes("resolves")
  <2>1. ASSUME Tidy PROVE Situation'
    <3>1. Quiet /\ alert = "recon"
      BY <1>1, <2>1, Whereabouts DEF Tidy
    <3>2. Quiet'
      BY <1>1, <1>3, <3>1 DEF Quiet, Goes, money, NoneInjected, NoBooks, TheirBooks
    <3> QED BY <3>2 DEF Situation
  <2> QED BY <1>1, <1>3, <2>1, GoingOn, SameKeys DEF Watching, Goes, MonitorSteps, money
<1> QED BY <1>1, <1>2, <1>3

LEMMA AlertFiresStep ==
  ASSUME Watching, AlertFires, UNCHANGED <<old_balance, fragile>>
  PROVE  Watching'
<1>1. /\ step = "fires" /\ step \in MonitorSteps
      /\ UNCHANGED <<world, alert, cleanup, saved>>
      /\ Goes("repair") \/ Raises("finally")
  BY DEF AlertFires, At, MonitorSteps, WaitsUntil
<1>2. CASE Raises("finally")
  BY <1>1, <1>2, Raising DEF world
<1>3. CASE Goes("repair")
  <2>1. ASSUME Tidy PROVE Situation'
    <3> USE DEF NoneInjected, NoBooks, TheirBooks, world, money, Goes
    <3>1. CASE Marked /\ alert \in {"dead", "late"}
      BY <1>1, <1>3, <3>1 DEF Marked, Situation
    <3>2. CASE Drifted /\ alert = "recon"
      BY <1>1, <1>3, <3>2 DEF Drifted, Situation, WithoutCent
    <3>3. CASE Listed /\ alert = "redis"
      BY <1>1, <1>3, <3>3 DEF Listed, Situation
    <3>4. CASE Blocked /\ alert = "settlement"
      BY <1>1, <1>3, <3>4 DEF Blocked, Situation, WithoutStuck, WithoutMonitor
    <3> QED BY <1>1, <2>1, <3>1, <3>2, <3>3, <3>4, Whereabouts DEF Tidy
  <2> QED BY <1>1, <1>3, <2>1, GoingOn, SameKeys DEF Watching, Goes, MonitorSteps, world, money
<1> QED BY <1>1, <1>2, <1>3

\* What undoes removes no entry of the customer's, whether it fails or not.
LEMMA UndoKeys ==
  ASSUME Control, NEW s, Undoes(s) \/ UndoFails(s)
  PROVE  CustomersKeys' /\ (Undisturbed' => Undisturbed)
<1> DEFINE U == {k \in DOMAIN ledger : OfUsers(k)}
           M == {k \in DOMAIN ledger : k[1] = "MONITOR"}
<1>1. \/ ledger' = ledger
      \/ ledger' = Restrict(ledger, {k \in DOMAIN ledger : ~OfUsers(k)})
      \/ ledger' = Restrict(ledger, {k \in DOMAIN ledger : k[1] # "MONITOR"})
  BY DEF Undoes, UndoFails, RemovesUsers, RemovesStuck, world, money
<1>2. \/ ledger' = ledger
      \/ DOMAIN ledger' = DOMAIN ledger \ U
      \/ DOMAIN ledger' = DOMAIN ledger \ M
  BY <1>1 DEF Restrict
<1>3. (\A k \in U : OfUsers(k) \/ k[1] = "MONITOR") /\ (\A k \in M : OfUsers(k) \/ k[1] = "MONITOR")
  OBVIOUS
<1> HIDE DEF U, M
<1>4. CASE ledger' = ledger
  BY <1>4, SameKeys
<1>5. CASE DOMAIN ledger' = DOMAIN ledger \ U
  BY <1>3, <1>5, KeysRemoved
<1>6. CASE DOMAIN ledger' = DOMAIN ledger \ M
  BY <1>3, <1>6, KeysRemoved
<1> QED BY <1>2, <1>4, <1>5, <1>6

\* What undoing the last fault leaves.
LEMMA UndoMark ==
  ASSUME Marked, Undoes([name |-> alert])
  PROVE  NoBooks' /\ NoneInjected' /\ ~ stuck' /\ UNCHANGED redis
<1>1. fault' = fault \ {alert} /\ UNCHANGED <<money, redis, order, stuck>>
  BY DEF Undoes, Marked
<1>2. NoneInjected' /\ ~ stuck'
  BY <1>1 DEF Marked, NoneInjected
<1> QED BY <1>1, <1>2 DEF Marked, NoBooks, TheirBooks, money

LEMMA UndoDrift ==
  ASSUME Drifted, Undoes(DriftRow)
  PROVE  NoBooks' /\ NoneInjected' /\ ~ stuck' /\ UNCHANGED redis
<1>1. balance' = WithoutCent /\ UNCHANGED <<ledger, fault, redis, order, stuck>>
  BY DEF Undoes, DriftRow, WithoutCent
<1> QED BY <1>1 DEF Drifted, NoneInjected, NoBooks, TheirBooks

LEMMA UndoStuck ==
  ASSUME Blocked, Undoes(StuckRow)
  PROVE  /\ TheirBooks' /\ NoneInjected' /\ ~ stuck' /\ UNCHANGED <<redis, order>>
         /\ balance'[AvailableOfMint] = -Deposit
<1>1. RemovesStuck(StuckRow, 4)
  BY DEF Undoes, StuckRow
<1>2. /\ ledger' = WithoutMonitor /\ ~ stuck' /\ fault' = fault \ {"settlement"}
      /\ UNCHANGED <<redis, order>>
  <2>1. ~ (4 < 4) /\ ~ (4 < 1)
    OBVIOUS
  <2>2. ~ stuck'
    <3>1. stuck' = (stuck /\ 4 < 4)
      BY <1>1 DEF RemovesStuck
    <3> QED BY <2>1, <3>1
  <2>3. ledger' = WithoutMonitor
    BY <1>1, <2>1 DEF RemovesStuck, WithoutMonitor
  <2>4. fault' = fault \ {"settlement"} /\ UNCHANGED <<redis, order>>
    BY <1>1, <2>1 DEF RemovesStuck
  <2> QED BY <2>2, <2>3, <2>4
<1>3. balance' = WithoutStuck
  BY <1>1 DEF RemovesStuck, WithoutStuck, StuckRow
<1>4. balance'[AvailableOfMint] = -Deposit
  <2> DEFINE a == AvailableOfMint
             f == FrozenOfMint
  <2>1. a \in Account /\ f \in Account /\ a # f
    BY Accounts3
  <2>2. balance \in [Account -> Int] /\ balance' = [balance EXCEPT ![a] = -Deposit, ![f] = 0]
    BY <1>3 DEF WithoutStuck, Blocked
  <2> HIDE DEF a, f
  <2>3. balance'[a] = -Deposit
    BY <2>1, <2>2
  <2> QED BY <2>3 DEF a
<1>5. NoneInjected'
  BY <1>2 DEF Blocked, NoneInjected
<1>6. TheirBooks'
  BY <1>2, <1>3 DEF Blocked, TheirBooks
<1> QED BY <1>2, <1>4, <1>5, <1>6

LEMMA UndoUsers ==
  ASSUME TheirBooks, NoneInjected, ~ stuck, Undoes(UsersRow)
  PROVE  NoBooks' /\ NoneInjected' /\ ~ stuck' /\ UNCHANGED redis
<1>1. RemovesUsers(UsersRow)
  BY DEF Undoes, UsersRow
<1>2. NoBooks'
  BY <1>1, RemovalMoves
<1> QED BY <1>1, <1>2 DEF RemovesUsers, NoneInjected

LEMMA RepairsStep ==
  ASSUME Watching, Repairs, UNCHANGED <<old_balance, fragile>>
  PROVE  Watching'
<1>1. /\ step = "repair" /\ step \in MonitorSteps /\ alert \in {"dead", "recon", "settlement"}
      /\ Pop /\ UNCHANGED <<alert, saved>>
  BY DEF Repairs, At, MonitorSteps
<1>2. CASE UndoFails(Top) /\ Raises("finally")
  <2>1. fragile
    BY <1>2 DEF UndoFails
  <2> QED BY <1>1, <1>2, <2>1, Failing, UndoKeys DEF Watching
<1>3. CASE Undoes(Top) /\ Goes(IF alert = "recon" THEN "recovers" ELSE "resolves")
  <2>1. ASSUME Tidy PROVE Situation'
    <3>1. CASE Marked /\ alert = "dead"
      <4>1. Top = [name |-> alert] /\ cleanup' = <<>>
        BY <1>1, <3>1, Pops DEF Marked, Top, Pop
      <4>2. NoBooks' /\ NoneInjected' /\ ~ stuck'
        BY <1>3, <3>1, <4>1, UndoMark
      <4>3. Quiet'
        BY <1>1, <1>3, <3>1, <4>1, <4>2 DEF Quiet, Marked, Goes
      <4> QED BY <4>3 DEF Situation
    <3>2. CASE Drifted /\ alert = "recon"
      <4>1. Top = DriftRow /\ cleanup' = <<>>
        BY <1>1, <3>2, Pops DEF Drifted, Top, Pop
      <4>2. NoBooks' /\ NoneInjected' /\ ~ stuck'
        BY <1>3, <3>2, <4>1, UndoDrift
      <4>3. Quiet'
        BY <1>1, <1>3, <3>2, <4>1, <4>2 DEF Quiet, Drifted, Goes
      <4> QED BY <4>3 DEF Situation
    <3>3. CASE Blocked /\ alert = "settlement"
      <4>1. Top = StuckRow /\ cleanup' = <<UsersRow>>
        BY <1>1, <3>3, Pops DEF Blocked, Top, Pop
      <4>2. /\ TheirBooks' /\ NoneInjected' /\ ~ stuck' /\ order' = order
            /\ balance'[AvailableOfMint] = -Deposit
        BY <1>3, <3>3, <4>1, UndoStuck
      <4>3. AvailableOfMint' = AvailableOfMint /\ step' = "resolves" /\ verdict' = verdict
        BY <1>1, <1>3, <3>3 DEF Goes, AvailableOfMint
      <4>4. Listed'
        BY <1>1, <3>3, <4>1, <4>2, <4>3 DEF Listed, Blocked
      <4> QED BY <4>4 DEF Situation
    <3> QED BY <1>1, <2>1, <3>1, <3>2, <3>3, Whereabouts DEF Tidy
  <2>2. step' \in MonitorSteps /\ verdict' = verdict
    BY <1>3 DEF Goes, MonitorSteps
  <2> QED BY <1>1, <1>3, <2>1, <2>2, GoingOn, UndoKeys DEF Watching
<1> QED BY <1>2, <1>3 DEF Repairs

LEMMA RepairsQueueStep ==
  ASSUME Watching, RepairsQueue, UNCHANGED <<old_balance, fragile>>
  PROVE  Watching'
<1>1. step = "repair" /\ step \in MonitorSteps /\ alert = "late" /\ UNCHANGED <<alert, saved>>
  BY DEF RepairsQueue, At, MonitorSteps
<1>2. CASE Fails /\ UNCHANGED <<world, cleanup>>
  BY <1>1, <1>2, Failing, SameKeys DEF Fails, Watching, world, money
<1>3. CASE Undoes(Top) /\ Pop /\ Goes("resolves")
  <2>1. ASSUME Tidy PROVE Situation'
    <3>1. Marked
      BY <1>1, <2>1, Whereabouts DEF Tidy
    <3>2. Top = [name |-> alert] /\ cleanup' = <<>>
      BY <1>3, <3>1, Pops DEF Marked, Top, Pop
    <3>3. NoBooks' /\ NoneInjected' /\ ~ stuck'
      BY <1>3, <3>1, <3>2, UndoMark
    <3>4. Quiet'
      BY <1>1, <1>3, <3>1, <3>2, <3>3 DEF Quiet, Marked, Goes
    <3> QED BY <3>4 DEF Situation
  <2>2. step' \in MonitorSteps /\ verdict' = verdict
    BY <1>3 DEF Goes, MonitorSteps
  <2> QED BY <1>1, <1>3, <2>1, <2>2, GoingOn, UndoKeys DEF Watching
<1> QED BY <1>2, <1>3 DEF RepairsQueue

LEMMA AlertResolvesStep ==
  ASSUME Watching, AlertResolves, UNCHANGED <<old_balance, fragile>>
  PROVE  Watching'
<1>1. /\ step = "resolves" /\ step \in MonitorSteps /\ alert \in Alerts
      /\ UNCHANGED <<world, cleanup, saved>>
  BY DEF AlertResolves, At, MonitorSteps, Watching, Control
<1>2. CASE Raises("finally") /\ UNCHANGED alert
  BY <1>1, <1>2, Raising DEF world
<1>3. CASE alert # "settlement" /\ alert' = NextAlert[alert] /\ Goes(FirstStep[alert'])
  <2>1. \/ alert = "dead" /\ alert' = "recon" /\ step' = "read"
        \/ alert = "recon" /\ alert' = "late" /\ step' = "inject"
        \/ alert = "late" /\ alert' = "redis" /\ step' = "register"
        \/ alert = "redis" /\ alert' = "settlement" /\ step' = "read"
    BY <1>1, <1>3 DEF NextAlert, FirstStep, Goes, Alerts
  <2>2. verdict' = verdict
    BY <1>3 DEF Goes
  <2>3. ASSUME Tidy PROVE Situation'
    <3> USE DEF NoneInjected, NoBooks, TheirBooks, world, money
    <3>1. CASE Quiet /\ alert \in {"dead", "recon"}
      <4>1. Quiet'
        BY <1>1, <2>1, <2>2, <3>1 DEF Quiet
      <4> QED BY <4>1 DEF Situation
    <3>2. CASE Quiet /\ alert = "late"
      <4>1. Serving'
        BY <1>1, <2>1, <2>2, <3>2 DEF Quiet, Serving
      <4> QED BY <4>1 DEF Situation
    <3>3. CASE Listed /\ alert = "redis"
      <4>1. Listed'
        BY <1>1, <2>1, <2>2, <3>3 DEF Listed
      <4> QED BY <4>1 DEF Situation
    <3> QED BY <1>1, <1>3, <2>3, <3>1, <3>2, <3>3, Whereabouts DEF Tidy
  <2>4. step' \in MonitorSteps /\ alert' \in Alerts
    BY <2>1 DEF MonitorSteps, Alerts
  <2> QED BY <1>1, <2>2, <2>3, <2>4, GoingOn, SameKeys DEF Watching, world, money
<1>4. CASE alert = "settlement" /\ step' = "finally" /\ verdict' = "passed" /\ UNCHANGED alert
  <2>1. ASSUME Tidy PROVE Situation'
    <3>1. Listed
      BY <1>1, <1>4, <2>1, Whereabouts DEF Tidy
    <3>2. Listed'
      BY <1>1, <1>4, <3>1 DEF Listed, Closing, world, money, TheirBooks, NoneInjected
    <3> QED BY <3>2 DEF Situation
  <2> QED BY <1>1, <1>4, <2>1, GoingOn, SameKeys DEF Watching, world, money
<1> QED BY <1>2, <1>3, <1>4 DEF AlertResolves

LEMMA RegistersStep ==
  ASSUME Watching, Registers, UNCHANGED <<old_balance, fragile>>
  PROVE  Watching'
<1>1. /\ step = "register" /\ step \in MonitorSteps
      /\ UNCHANGED <<world, alert, cleanup, saved>>
      /\ Goes("read") \/ Raises("finally")
  BY DEF Registers, At, MonitorSteps, Calls
<1>2. CASE Raises("finally")
  BY <1>1, <1>2, Raising DEF world
<1>3. CASE Goes("read")
  <2>1. ASSUME Tidy PROVE Situation'
    <3>1. Serving
      BY <1>1, <2>1, Whereabouts DEF Tidy
    <3>2. Serving'
      BY <1>1, <1>3, <3>1 DEF Serving, Goes, world, money, NoneInjected, NoBooks, TheirBooks
    <3> QED BY <3>2 DEF Situation
  <2> QED BY <1>1, <1>3, <2>1, GoingOn, SameKeys DEF Watching, Goes, MonitorSteps, world, money
<1> QED BY <1>1, <1>2, <1>3

\* The entries of a transaction between the mint and the script's users.
LEMMA UsersKeys ==
  ASSUME Control, NEW type, NEW biz, NEW from, NEW to, NEW v, Moves(type, biz, from, to, v),
         from[1] # Customer, to[1] # Customer
  PROVE  CustomersKeys' /\ (Undisturbed' => Undisturbed)
<1> DEFINE K == {<<type, biz, from>>, <<type, biz, to>>}
<1>1. DOMAIN ledger' = DOMAIN ledger \cup K
  BY DEF Moves, Insert
<1>2. \A k \in K : k[3][1] # Customer
  OBVIOUS
<1> HIDE DEF K
<1> QED BY <1>1, <1>2, KeysAdded

LEMMA RechargesPublisherStep ==
  ASSUME Watching, RechargesPublisher, UNCHANGED <<old_balance, fragile>>
  PROVE  Watching'
<1>1. /\ step = "recharge" /\ step \in MonitorSteps
      /\ UNCHANGED <<fault, redis, order, stuck, alert, cleanup, saved>>
  BY DEF RechargesPublisher, At, MonitorSteps
<1>2. CASE UNCHANGED money /\ Raises("finally")
  BY <1>1, <1>2, Raising
<1>3. CASE /\ Moves("RECHARGE", "script", AvailableOfMint, Available(Publisher), Deposit)
           /\ Goes("create") \/ Raises("finally")
  <2>1. CustomersKeys' /\ (Undisturbed' => Undisturbed)
    <3>1. AvailableOfMint[1] # Customer /\ Available(Publisher)[1] # Customer
      BY Members DEF AvailableOfMint, Available
    <3> QED BY <1>3, <3>1, UsersKeys DEF Watching
  <2>2. ASSUME Tidy PROVE Situation'
    <3>1. Serving /\ NoBooks /\ saved.available = 0
      BY <1>1, <2>2, Whereabouts DEF Tidy, Serving
    <3>2. TheirBooks' /\ balance'[AvailableOfMint] = -Deposit /\ balance'[Available(Publisher)] = Deposit
      BY <1>1, <1>3, <3>1, RechargeMoves
    <3>3. step' \in {"create", "finally"} /\ verdict' # "passed" /\ order' = "none"
      BY <1>1, <1>3, <3>1 DEF Goes, Raises, Serving, NoBooks
    <3>4. AvailableOfMint' = AvailableOfMint /\ Available(Publisher)' = Available(Publisher)
      BY DEF AvailableOfMint, Available
    <3>5. Serving'
      BY <1>1, <3>1, <3>2, <3>3, <3>4 DEF Serving, NoneInjected, Closing
    <3> QED BY <3>5 DEF Situation
  <2>3. \/ step' \in MonitorSteps /\ verdict' = verdict
        \/ step' = "finally" /\ verdict' \in {"failed", "passed"}
    BY <1>3 DEF Goes, Raises, MonitorSteps
  <2> QED BY <1>1, <2>1, <2>2, <2>3, GoingOn
<1> QED BY <1>2, <1>3 DEF RechargesPublisher, Calls

LEMMA CreatesOrderStep ==
  ASSUME Watching, CreatesOrder, UNCHANGED <<old_balance, fragile>>
  PROVE  Watching'
<1>1. /\ step = "create" /\ step \in MonitorSteps
      /\ UNCHANGED <<fault, redis, stuck, alert, cleanup, saved>>
  BY DEF CreatesOrder, At, MonitorSteps
<1>2. CASE UNCHANGED <<money, order>> /\ Raises("finally")
  BY <1>1, <1>2, Raising
<1>3. CASE /\ Moves("FREEZE", "order", Available(Publisher), Frozen(Publisher), Reward)
           /\ order' = "PUBLISHED"
           /\ Goes("ids") \/ Raises("finally")
  <2>1. CustomersKeys' /\ (Undisturbed' => Undisturbed)
    <3>1. Frozen(Publisher)[1] # Customer /\ Available(Publisher)[1] # Customer
      BY Members DEF Frozen, Available
    <3> QED BY <1>3, <3>1, UsersKeys DEF Watching
  <2>2. ASSUME Tidy PROVE Situation'
    <3>1. Serving
      BY <1>1, <2>2, Whereabouts DEF Tidy
    <3>2. TheirBooks' /\ balance'[AvailableOfMint] = -Deposit
      BY <1>1, <1>3, <3>1, FreezeMoves DEF Serving
    <3>3. step' \in {"ids", "finally"} /\ verdict' # "passed"
      BY <1>1, <1>3, <3>1 DEF Goes, Raises, Serving
    <3>4. AvailableOfMint' = AvailableOfMint
      BY DEF AvailableOfMint
    <3>5. Serving'
      BY <1>1, <3>1, <3>2, <3>3, <3>4 DEF Serving, NoneInjected, Closing
    <3> QED BY <3>5 DEF Situation
  <2>3. \/ step' \in MonitorSteps /\ verdict' = verdict
        \/ step' = "finally" /\ verdict' \in {"failed", "passed"}
    BY <1>3 DEF Goes, Raises, MonitorSteps
  <2> QED BY <1>1, <2>1, <2>2, <2>3, GoingOn
<1> QED BY <1>2, <1>3 DEF CreatesOrder, Calls

LEMMA KeepsIdsStep ==
  ASSUME Watching, KeepsIds, UNCHANGED <<old_balance, fragile>>
  PROVE  Watching'
<1>1. step = "ids" /\ step \in MonitorSteps /\ UNCHANGED <<world, alert, saved>>
  BY DEF KeepsIds, At, MonitorSteps
<1>2. CASE Fails
  BY <1>1, <1>2, Failing, SameKeys DEF Fails, Watching, world, money
<1>3. CASE Push([name |-> "users", available |-> saved.available]) /\ Goes("stop")
  <2>1. ASSUME Tidy PROVE Situation'
    <3>1. Serving /\ saved.available = 0 /\ alert = "redis"
      BY <1>1, <2>1, Whereabouts DEF Tidy, Serving
    <3>2. cleanup' = <<UsersRow>>
      BY <1>3, <3>1, Pushes DEF Push, Serving, UsersRow
    <3>3. Listed'
      BY <1>1, <1>3, <3>1, <3>2 DEF Serving, Listed, Goes, world, money, NoneInjected, TheirBooks
    <3> QED BY <3>3 DEF Situation
  <2> QED BY <1>1, <1>3, <2>1, GoingOn, SameKeys DEF Watching, Goes, MonitorSteps, world, money
<1> QED BY <1>2, <1>3 DEF KeepsIds

\* Redis comes and goes while the users can be removed.
LEMMA ListedGoesOn ==
  ASSUME Listed, alert = "redis", UNCHANGED <<money, fault, order, stuck, alert, cleanup>>,
         step' \in {"grab", "cancel"}, verdict' = verdict
  PROVE  Situation'
<1>1. Listed'
  BY DEF Listed, money, NoneInjected, TheirBooks
<1> QED BY <1>1 DEF Situation

LEMMA StopsRedisStep ==
  ASSUME Watching, StopsRedis, UNCHANGED <<old_balance, fragile>>
  PROVE  Watching'
<1>1. /\ step = "stop" /\ step \in MonitorSteps
      /\ UNCHANGED <<money, fault, order, stuck, alert, cleanup, saved>>
  BY DEF StopsRedis, At, MonitorSteps
<1>2. CASE Fails
  BY <1>1, <1>2, Failing, SameKeys DEF Fails, Watching, money
<1>3. CASE Goes("grab")
  <2>1. ASSUME Tidy PROVE Situation'
    BY <1>1, <1>3, <2>1, Whereabouts, ListedGoesOn DEF Tidy, Goes
  <2> QED BY <1>1, <1>3, <2>1, GoingOn, SameKeys DEF Watching, Goes, MonitorSteps, money
<1> QED BY <1>2, <1>3 DEF StopsRedis

LEMMA StartsRedisStep ==
  ASSUME Watching, StartsRedis, UNCHANGED <<old_balance, fragile>>
  PROVE  Watching'
<1>1. /\ step = "repair" /\ step \in MonitorSteps /\ alert = "redis"
      /\ UNCHANGED <<money, fault, order, stuck, alert, cleanup, saved>>
  BY DEF StartsRedis, At, MonitorSteps
<1>2. CASE Fails
  BY <1>1, <1>2, Failing, SameKeys DEF Fails, Watching, money
<1>3. CASE Raises("finally")
  BY <1>1, <1>3, Raising
<1>4. CASE Goes("cancel")
  <2>1. ASSUME Tidy PROVE Situation'
    BY <1>1, <1>4, <2>1, Whereabouts, ListedGoesOn DEF Tidy, Goes
  <2> QED BY <1>1, <1>4, <2>1, GoingOn, SameKeys DEF Watching, Goes, MonitorSteps, money
<1> QED BY <1>2, <1>3, <1>4 DEF StartsRedis, Calls

LEMMA GrabsStep ==
  ASSUME Watching, Grabs, UNCHANGED <<old_balance, fragile>>
  PROVE  Watching'
<1>1. /\ step = "grab" /\ step \in MonitorSteps
      /\ UNCHANGED <<money, fault, redis, stuck, alert, cleanup, saved>>
  BY DEF Grabs, At, MonitorSteps
<1>2. CASE UNCHANGED order /\ Raises("finally")
  BY <1>1, <1>2, Raising
<1>3. CASE order = "PUBLISHED" /\ order' = "TAKEN" /\ (Goes("fires") \/ Raises("finally"))
  <2>1. step' \in {"fires", "finally"} /\ verdict' \in {verdict, "failed"}
    BY <1>3 DEF Goes, Raises
  <2>2. ASSUME Tidy PROVE Situation'
    <3>1. Listed /\ alert = "redis"
      BY <1>1, <2>2, Whereabouts DEF Tidy
    <3>2. Held(order') = Held(order) /\ order' \in OrderStates
      BY <1>3 DEF Held, Open, OrderStates
    <3>3. OrderKeys(ledger, "TAKEN")
      BY <1>3, <3>1 DEF Listed, TheirBooks, UsersBooks, OrderKeys
    <3>4. Sound(balance, ledger, order')
      BY <3>1, <3>2 DEF Listed, TheirBooks, UsersBooks, Sound
    <3>5. TheirBooks'
      BY <1>1, <1>3, <3>1, <3>2, <3>3, <3>4 DEF Listed, TheirBooks, UsersBooks, money
    <3>6. Listed'
      BY <1>1, <2>1, <3>1, <3>5 DEF Listed, Closing, NoneInjected, money
    <3> QED BY <3>6 DEF Situation
  <2>3. \/ step' \in MonitorSteps /\ verdict' = verdict
        \/ step' = "finally" /\ verdict' \in {"failed", "passed"}
    BY <1>3 DEF Goes, Raises, MonitorSteps
  <2> QED BY <1>1, <2>2, <2>3, GoingOn, SameKeys DEF Watching, money
<1> QED BY <1>2, <1>3 DEF Grabs, Calls

LEMMA CancelsOrderStep ==
  ASSUME Watching, CancelsOrder, UNCHANGED <<old_balance, fragile>>
  PROVE  Watching'
<1>1. /\ step = "cancel" /\ step \in MonitorSteps
      /\ UNCHANGED <<fault, redis, stuck, alert, cleanup, saved>>
  BY DEF CancelsOrder, At, MonitorSteps
<1>2. CASE UNCHANGED <<money, order>> /\ Raises("finally")
  BY <1>1, <1>2, Raising
<1>3. CASE /\ order = "TAKEN" /\ order' = "CANCELLED"
           /\ Moves("CANCEL", "order", Frozen(Publisher), Available(Publisher), Reward)
           /\ Goes("resolves") \/ Raises("finally")
  <2>1. CustomersKeys' /\ (Undisturbed' => Undisturbed)
    <3>1. Frozen(Publisher)[1] # Customer /\ Available(Publisher)[1] # Customer
      BY Members DEF Frozen, Available
    <3> QED BY <1>3, <3>1, UsersKeys DEF Watching
  <2>2. ASSUME Tidy PROVE Situation'
    <3>1. Listed /\ alert = "redis"
      BY <1>1, <2>2, Whereabouts DEF Tidy
    <3>2. TheirBooks' /\ balance'[AvailableOfMint] = -Deposit
      BY <1>3, <3>1, ReturnMoves DEF Listed, Open
    <3>3. step' \in {"resolves", "finally"} /\ verdict' \in {verdict, "failed"} /\ order' \notin Open
      BY <1>3 DEF Goes, Raises, Open
    <3>4. AvailableOfMint' = AvailableOfMint
      BY DEF AvailableOfMint
    <3>5. Listed'
      BY <1>1, <3>1, <3>2, <3>3, <3>4 DEF Listed, Closing, NoneInjected
    <3> QED BY <3>5 DEF Situation
  <2>3. \/ step' \in MonitorSteps /\ verdict' = verdict
        \/ step' = "finally" /\ verdict' \in {"failed", "passed"}
    BY <1>3 DEF Goes, Raises, MonitorSteps
  <2> QED BY <1>1, <2>1, <2>2, <2>3, GoingOn
<1> QED BY <1>2, <1>3 DEF CancelsOrder, Calls

\* From the finally block on the verdict stands.
LEMMA ClosingKept ==
  ASSUME Control, step \in Closing, step' \in Closing, UNCHANGED <<old_balance, fragile, verdict, alert>>,
         CustomersKeys', Undisturbed' => Undisturbed
  PROVE  Control' /\ (Clear' => Clear)
BY DEF Control, Clear

LEMMA RestartsRedisStep ==
  ASSUME Watching, RestartsRedis, UNCHANGED <<old_balance, fragile>>
  PROVE  Watching'
<1>1. /\ step = "finally" /\ step' = "cleanup" /\ verdict' = verdict
      /\ step \in Closing /\ step' \in Closing
      /\ UNCHANGED <<money, fault, order, stuck, alert, cleanup, saved>>
      /\ ~ fragile => redis'
  BY DEF RestartsRedis, At, Goes, Closing
<1>2. Control' /\ (Clear' => Clear)
  BY <1>1, ClosingKept, SameKeys DEF Watching, money
<1>3. ASSUME Situation PROVE Situation'
  <2> USE DEF money, NoneInjected, NoBooks, TheirBooks
  <2>1. CASE Quiet
    BY <1>1, <2>1 DEF Quiet, Situation
  <2>2. CASE Marked
    BY <1>1, <2>2 DEF Marked, Situation
  <2>3. CASE Drifted
    BY <1>1, <2>3 DEF Drifted, Situation, WithoutCent
  <2>4. CASE Serving
    BY <1>1, <2>4 DEF Serving, Situation, Closing
  <2>5. CASE Listed
    BY <1>1, <2>5 DEF Listed, Situation
  <2>6. CASE Blocked
    BY <1>1, <2>6 DEF Blocked, Situation, WithoutStuck, WithoutMonitor
  <2>7. ~ Cleaned
    BY <1>1 DEF Cleaned
  <2> QED BY <1>3, <2>1, <2>2, <2>3, <2>4, <2>5, <2>6, <2>7 DEF Situation
<1>4. Swept'
  BY <1>1 DEF Swept
<1> QED BY <1>2, <1>3, <1>4 DEF Watching, Tidy

LEMMA CleansUpStep ==
  ASSUME Watching, CleansUp, UNCHANGED <<old_balance, fragile>>
  PROVE  Watching'
<1>1. /\ step = "cleanup" /\ cleanup # <<>> /\ step' = "cleanup" /\ verdict' = verdict
      /\ step \in Closing /\ step' \in Closing
      /\ Pop /\ UNCHANGED <<alert, saved>>
  BY DEF CleansUp, At, Closing, script, NextCleanup, Pop
<1>2. Control' /\ (Clear' => Clear)
  BY <1>1, ClosingKept, UndoKeys DEF Watching, CleansUp
<1>3. CASE Undoes(Top)
  <2>1. ASSUME Situation PROVE Situation' /\ redis' = redis
    <3>1. CASE Marked
      <4>1. Top = [name |-> alert] /\ cleanup' = <<>>
        BY <1>1, <3>1, Pops DEF Marked, Top, Pop
      <4>2. NoBooks' /\ NoneInjected' /\ ~ stuck' /\ redis' = redis
        BY <1>3, <3>1, <4>1, UndoMark
      <4>3. Quiet'
        BY <1>1, <3>1, <4>1, <4>2 DEF Quiet, Marked
      <4> QED BY <4>2, <4>3 DEF Situation
    <3>2. CASE Drifted
      <4>1. Top = DriftRow /\ cleanup' = <<>>
        BY <1>1, <3>2, Pops DEF Drifted, Top, Pop
      <4>2. NoBooks' /\ NoneInjected' /\ ~ stuck' /\ redis' = redis
        BY <1>3, <3>2, <4>1, UndoDrift
      <4>3. Quiet'
        BY <1>1, <3>2, <4>1, <4>2 DEF Quiet, Drifted
      <4> QED BY <4>2, <4>3 DEF Situation
    <3>3. CASE Listed
      <4>1. Top = UsersRow /\ cleanup' = <<>>
        BY <1>1, <3>3, Pops DEF Listed, Top, Pop
      <4>2. NoBooks' /\ NoneInjected' /\ ~ stuck' /\ redis' = redis
        BY <1>3, <3>3, <4>1, UndoUsers DEF Listed
      <4>3. Cleaned'
        BY <1>1, <3>3, <4>1, <4>2 DEF Cleaned, Listed, NoBooks
      <4> QED BY <4>2, <4>3 DEF Situation
    <3>4. CASE Blocked
      <4>1. Top = StuckRow /\ cleanup' = <<UsersRow>>
        BY <1>1, <3>4, Pops DEF Blocked, Top, Pop
      <4>2. /\ TheirBooks' /\ NoneInjected' /\ ~ stuck' /\ order' = order /\ redis' = redis
            /\ balance'[AvailableOfMint] = -Deposit
        BY <1>3, <3>4, <4>1, UndoStuck
      <4>3. AvailableOfMint' = AvailableOfMint
        BY DEF AvailableOfMint
      <4>4. Listed'
        BY <1>1, <3>4, <4>1, <4>2, <4>3 DEF Listed, Blocked
      <4> QED BY <4>2, <4>4 DEF Situation
    <3>5. cleanup = <<>> \/ Marked \/ Drifted \/ Listed \/ Blocked
      BY <2>1 DEF Situation, Quiet, Serving, Cleaned
    <3> QED BY <1>1, <3>1, <3>2, <3>3, <3>4, <3>5
  <2>2. Tidy => Swept'
    BY <1>1, <2>1 DEF Tidy, Swept
  <2> QED BY <1>2, <2>1, <2>2 DEF Watching, Tidy
<1>4. CASE UndoFails(Top)
  <2>1. fragile /\ verdict \in {"failed", "passed"}
    BY <1>1, <1>4 DEF UndoFails, Watching, Control
  <2>2. ASSUME Tidy, verdict = "passed" PROVE Tidy'
    <3>1. Listed
      BY <1>1, <2>2 DEF Tidy, Situation, Quiet, Marked, Drifted, Serving, Blocked, Cleaned
    <3>2. Top = UsersRow /\ cleanup' = <<>>
      BY <1>1, <3>1, Pops DEF Listed, Top, Pop
    <3>3. UNCHANGED world
      BY <1>4, <3>2 DEF UndoFails, UsersRow
    <3>4. Cleaned'
      BY <1>1, <3>1, <3>2, <3>3 DEF Cleaned, Listed, world, money, NoneInjected, TheirBooks
    <3> QED BY <1>1, <2>1, <3>4 DEF Tidy, Situation, Swept
  <2>3. ~ (fragile /\ verdict = "failed") <=> verdict = "passed"
    BY <2>1
  <2>4. Clear => verdict = "passed"
    BY <2>3 DEF Clear
  <2> QED BY <1>2, <2>2, <2>4 DEF Watching
<1> QED BY <1>3, <1>4 DEF CleansUp, NextCleanup

LEMMA WritesReportStep ==
  ASSUME Watching, WritesReport, UNCHANGED <<old_balance, fragile>>
  PROVE  Watching'
<1>1. /\ step = "cleanup" /\ cleanup = <<>> /\ step' = "end" /\ verdict' = verdict
      /\ step \in Closing /\ step' \in Closing
      /\ UNCHANGED <<world, alert, cleanup, saved>>
  BY DEF WritesReport, At, Goes, Closing
<1>2. Control' /\ (Clear' => Clear)
  BY <1>1, ClosingKept, SameKeys DEF Watching, world, money
<1>3. ASSUME Tidy PROVE Tidy'
  <2> USE DEF world, money, NoneInjected, NoBooks, TheirBooks
  <2>1. Quiet \/ Serving \/ Cleaned
    BY <1>1, <1>3, Pops DEF Tidy, Situation, Marked, Drifted, Listed, Blocked
  <2>2. Quiet => Quiet'
    BY <1>1 DEF Quiet
  <2>3. Serving => Serving'
    BY <1>1 DEF Serving, Closing
  <2>4. Cleaned => Cleaned'
    BY <1>1 DEF Cleaned
  <2>5. Swept'
    BY <1>1, <1>3 DEF Tidy, Swept
  <2> QED BY <2>1, <2>2, <2>3, <2>4, <2>5 DEF Tidy, Situation
<1> QED BY <1>2, <1>3 DEF Watching

-------------------------------------------------------------------------------
(***************************************************************************)
(* The system meanwhile.                                                   *)
(***************************************************************************)

LEMMA CustomerRechargesStep ==
  ASSUME Watching, NEW r \in Recharges, CustomerRecharges(r),
         UNCHANGED <<script, alert, old_balance, fragile>>
  PROVE  Watching'
<1> DEFINE k1 == <<"RECHARGE", r, AvailableOfMint>>
           k2 == <<"RECHARGE", r, Available(Customer)>>
<1>1. DOMAIN ledger' = DOMAIN ledger \cup {k1, k2}
  BY DEF CustomerRecharges, Moves, Insert
<1>2. CustomersKeys'
  BY <1>1 DEF Watching, Control, CustomersKeys
<1>3. k2 \in DOMAIN ledger' /\ k2[3][1] = Customer
  BY <1>1 DEF Available
<1>4. ~ Undisturbed'
  <2> HIDE DEF k2
  <2> QED BY <1>3 DEF Undisturbed
<1>5. Control'
  BY <1>2 DEF Watching, Control, script
<1> QED BY <1>4, <1>5 DEF Watching, Clear

LEMMA OrderExpiresStep ==
  ASSUME Watching, OrderExpires, UNCHANGED <<script, alert, cleanup, saved, old_balance, fragile>>
  PROVE  Watching'
<1>1. /\ order = "PUBLISHED" /\ order' = "CANCELLED" /\ UNCHANGED <<fault, redis, stuck>>
      /\ Moves("TIMEOUT", "order", Frozen(Publisher), Available(Publisher), Reward)
  BY DEF OrderExpires
<1>2. CustomersKeys' /\ (Undisturbed' => Undisturbed)
  <2>1. Frozen(Publisher)[1] # Customer /\ Available(Publisher)[1] # Customer
    BY Members DEF Frozen, Available
  <2> QED BY <1>1, <2>1, UsersKeys DEF Watching
<1>3. Control' /\ (Clear' => Clear)
  BY <1>2 DEF Watching, Control, Clear, script
<1>4. ASSUME Situation PROVE Situation'
  <2>1. Serving \/ Listed \/ Cleaned
    BY <1>1, <1>4 DEF Situation, Quiet, Marked, Drifted, Blocked, NoBooks, Open
  <2>2. TheirBooks' /\ balance'[AvailableOfMint] = balance[AvailableOfMint]
    BY <1>1, <2>1, ReturnMoves DEF Serving, Listed, Cleaned, Open
  <2>3. AvailableOfMint' = AvailableOfMint /\ order' \notin Open
    BY <1>1 DEF AvailableOfMint, Open
  <2>4. CASE Serving
    <3>1. step \notin {"register", "read", "recharge", "create"}
      BY <1>1, <2>4 DEF Serving, NoBooks
    <3>2. Serving'
      BY <1>1, <2>2, <2>3, <2>4, <3>1 DEF Serving, NoneInjected, script
    <3> QED BY <3>2 DEF Situation
  <2>5. CASE Listed
    <3>1. Listed'
      BY <1>1, <2>2, <2>3, <2>5 DEF Listed, NoneInjected, script
    <3> QED BY <3>1 DEF Situation
  <2>6. CASE Cleaned
    <3>1. Cleaned'
      BY <1>1, <2>2, <2>6 DEF Cleaned, NoneInjected, script
    <3> QED BY <3>1 DEF Situation
  <2> QED BY <2>1, <2>4, <2>5, <2>6
<1>5. Swept => Swept'
  BY <1>1 DEF Swept, script
<1> QED BY <1>3, <1>4, <1>5 DEF Watching, Tidy

\* The alerts that come and go by themselves, and a step that changes nothing.
LEMMA MetricsStep ==
  ASSUME Watching, UNCHANGED <<money, redis, order, stuck, script, alert, cleanup, saved, old_balance, fragile>>,
         fault' \cap Injected = fault \cap Injected
  PROVE  Watching'
<1>1. Control' /\ (Clear' => Clear)
  BY DEF Watching, Control, Clear, CustomersKeys, Undisturbed, money, script
<1>2. ASSUME Situation PROVE Situation'
  <2> USE DEF script, money, NoneInjected, NoBooks, TheirBooks
  <2>1. CASE Quiet
    BY <2>1 DEF Quiet, Situation
  <2>2. CASE Marked
    BY <2>2 DEF Marked, Situation
  <2>3. CASE Drifted
    BY <2>3 DEF Drifted, Situation, WithoutCent
  <2>4. CASE Serving
    BY <2>4 DEF Serving, Situation
  <2>5. CASE Listed
    BY <2>5 DEF Listed, Situation
  <2>6. CASE Blocked
    BY <2>6 DEF Blocked, Situation, WithoutStuck, WithoutMonitor
  <2>7. CASE Cleaned
    BY <2>7 DEF Cleaned, Situation
  <2> QED BY <1>2, <2>1, <2>2, <2>3, <2>4, <2>5, <2>6, <2>7 DEF Situation
<1>3. Swept => Swept'
  BY DEF Swept, script
<1> QED BY <1>1, <1>2, <1>3 DEF Watching, Tidy

LEMMA WatchingStep ==
  ASSUME Watching, [BooksNext]_booksVars, ~ DrillDies
  PROVE  Watching'
<1>1. CASE Drill /\ UNCHANGED <<old_balance, fragile>>
  BY <1>1, ChecksWiringStep, ReadsMintStep, InjectsFaultStep, InjectsDriftStep, InjectsStuckStep,
     DetectsDriftStep, RecoversFromDriftStep, AlertFiresStep, RepairsStep, RepairsQueueStep,
     AlertResolvesStep, RegistersStep, RechargesPublisherStep, CreatesOrderStep, KeepsIdsStep,
     StopsRedisStep, GrabsStep, StartsRedisStep, CancelsOrderStep, RestartsRedisStep,
     CleansUpStep, WritesReportStep DEF Drill
<1>2. CASE Others /\ UNCHANGED <<old_balance, fragile>>
  <2>0. UNCHANGED <<script, alert, cleanup, saved>>
    BY <1>2 DEF Others
  <2>1. CASE \E r \in Recharges : CustomerRecharges(r)
    BY <1>2, <2>0, <2>1, CustomerRechargesStep
  <2>2. CASE OrderExpires
    BY <1>2, <2>0, <2>2, OrderExpiresStep
  <2>3. CASE MetricsMove
    <3>1. fault' \cap Injected = fault \cap Injected /\ UNCHANGED <<money, redis, order, stuck>>
      BY <2>3 DEF MetricsMove, Injected
    <3> QED BY <1>2, <2>0, <3>1, MetricsStep
  <2> QED BY <1>2, <2>1, <2>2, <2>3 DEF Others
<1>3. CASE UNCHANGED booksVars
  BY <1>3, MetricsStep DEF booksVars, drillVars, world
<1>4. ~ Drift
  BY DEF Watching, Control, MonitorSteps, Closing, Drift, At, Setup, ReadsBalance, Drifts, Detects,
         Restores, Recovers
<1> QED BY <1>1, <1>2, <1>3, <1>4 DEF BooksNext

LEMMA WatchingBegins ==
  ASSUME DrillInit, old_balance = None
  PROVE  Watching
<1>1. /\ balance = [a \in Account |-> 0] /\ ledger = [k \in {} |-> 0] /\ order = "none"
      /\ fault = {} /\ redis = TRUE /\ stuck = FALSE /\ alert = "dead" /\ cleanup = <<>>
      /\ step = "wiring" /\ verdict = "open"
  BY DEF DrillInit, WorldInit
<1>2. DOMAIN ledger = {}
  BY <1>1
<1>3. balance \in [Account -> Int] /\ \A a \in Account : balance[a] = 0
  BY <1>1
<1>4. Sound(balance, ledger, order)
  BY <1>1, <1>2, <1>3, EmptyBooks
<1>5. ledger = [k \in DOMAIN ledger |-> ledger[k]]
  BY <1>1
<1>6. NoBooks
  BY <1>1, <1>2, <1>3, <1>4, <1>5, AccountsOf DEF NoBooks, TheirBooks, UsersBooks, OrderStates, OrderKeys
<1>7. Quiet
  BY <1>1, <1>6 DEF Quiet, NoneInjected
<1>8. Swept
  BY <1>1 DEF Swept
<1>9. Control
  BY <1>1, <1>2 DEF Control, Alerts, MonitorSteps, Closing, CustomersKeys
<1> QED BY <1>7, <1>8, <1>9 DEF Watching, Tidy, Situation

\* The stack is empty where the script ends, so the books are sound.
LEMMA WatchingEnds ==
  ASSUME Watching, Clear, step = "end"
  PROVE  BooksBalance /\ ~ stuck /\ NoneInjected /\ (~ fragile => redis)
<1>1. Tidy /\ cleanup = <<>>
  BY DEF Watching, Tidy, Swept
<1>2. Quiet \/ Serving \/ Cleaned
  BY <1>1, Pops DEF Tidy, Situation, Marked, Drifted, Listed, Blocked
<1>3. TheirBooks /\ ~ stuck /\ NoneInjected
  BY <1>2 DEF Quiet, Serving, Cleaned, NoBooks
<1>4. BooksBalance
  BY <1>3, SoundBalances DEF TheirBooks, UsersBooks
<1> QED BY <1>1, <1>3, <1>4 DEF Tidy, Swept

-------------------------------------------------------------------------------
(***************************************************************************)
(* The theorems.                                                           *)
(***************************************************************************)

\* A script that is killed does nothing any more, and promises nothing.
Dead == step = "end" /\ verdict = "killed"

LEMMA DeadStays ==
  ASSUME Dead, [BooksNext]_booksVars
  PROVE  Dead'
<1>1. ~ Drift /\ ~ DrillDies
  BY DEF Dead, Drift, DrillDies, Killed, At, Setup, ReadsBalance, Drifts, Detects, Restores, Recovers
<1>2. ~ Drill
  BY DEF Dead, Drill, At, ChecksWiring, ReadsMint, InjectsFault, InjectsDrift, InjectsStuck,
         DetectsDrift, RecoversFromDrift, AlertFires, Repairs, RepairsQueue, AlertResolves,
         Registers, RechargesPublisher, CreatesOrder, KeepsIds, StopsRedis, Grabs, StartsRedis,
         CancelsOrder, RestartsRedis, CleansUp, WritesReport
<1>3. UNCHANGED script
  BY <1>1, <1>2 DEF BooksNext, Others, booksVars, drillVars
<1> QED BY <1>3 DEF Dead, script

\* In every state one of the scripts is under way, or was killed, and its invariant
\* holds: what it wrote into the wallets with plain SQL is what undoing its writes
\* takes out.
THEOREM BooksInvariant == BooksSpec => [](Drifting \/ Watching \/ Dead)
<1>1. BooksInit => Drifting \/ Watching
  BY DriftBegins, WatchingBegins DEF BooksInit
<1>2. (Drifting \/ Watching \/ Dead) /\ [BooksNext]_booksVars => (Drifting \/ Watching \/ Dead)'
  <2>1. DrillDies => Dead'
    BY DEF DrillDies, Killed, Dead
  <2> QED BY <2>1, DriftStep, WatchingStep, DeadStays
<1> QED BY <1>1, <1>2, PTL DEF BooksSpec

\* Wherever verify_reconciliation_drift_detection.py gives up after it read the
\* balance, it leaves books on which the reconciliation passes, and the recharges
\* that came meanwhile are in them, unless it is killed or its last UPDATE raises.
THEOREM TheDriftIsUndone == BooksSpec => []DriftIsUndone
<1>1. Drifting \/ Watching \/ Dead => DriftIsUndone
  BY DriftEnds DEF DriftIsUndone, At, Watching, Control, Dead, RestoreFailed
<1> QED BY <1>1, BooksInvariant, PTL

\* Wherever validate_monitoring.py gives up, its finally block undoes all that it
\* injected, as long as the statements work, nobody else moves the mint's money and
\* it is not killed.
THEOREM TheInjectionsAreUndone == BooksSpec => []InjectionsAreUndone
<1>1. ASSUME Drifting, At("end"), ~ fragile PROVE InjectionsAreUndone
  BY <1>1, DriftEnds DEF InjectionsAreUndone, At, NoneInjected, Injected, RestoreFailed
<1>2. ASSUME Watching, At("end"), Undisturbed, ~ fragile PROVE InjectionsAreUndone
  BY <1>2, WatchingEnds DEF InjectionsAreUndone, At, NoneInjected, Injected, Clear
<1>3. Drifting \/ Watching \/ Dead => InjectionsAreUndone
  BY <1>1, <1>2 DEF InjectionsAreUndone, Dead
<1> QED BY <1>3, BooksInvariant, PTL

\* A report of validate_monitoring.py, or of the drift script, that says PASS is
\* about a system whose books balance, whatever statement of the cleanup failed.
THEOREM PassedIsAboutBooks == BooksSpec => []PassedMeansBooksBalance
<1>1. ASSUME Drifting, At("end"), verdict = "passed" PROVE PassedMeansBooksBalance
  BY <1>1, DriftEnds DEF PassedMeansBooksBalance, At, RestoreFailed
<1>2. ASSUME Watching, At("end"), Undisturbed, verdict = "passed" PROVE PassedMeansBooksBalance
  BY <1>2, WatchingEnds DEF PassedMeansBooksBalance, At, Clear
<1>3. Drifting \/ Watching \/ Dead => PassedMeansBooksBalance
  BY <1>1, <1>2 DEF PassedMeansBooksBalance, Dead
<1> QED BY <1>3, BooksInvariant, PTL
===============================================================================
