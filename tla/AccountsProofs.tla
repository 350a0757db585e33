---------------------------- MODULE AccountsProofs ----------------------------
(***************************************************************************)
(* What SumFunctionOnSet of the community module Functions computes, for   *)
(* every finite index set: the sum over {} is 0, an element adds its own   *)
(* value, and the sum depends on the values at the indices only.  And,     *)
(* since the audits of the recon report are sums of this kind, what a      *)
(* posting does to them: one ledger.insert together with the               *)
(* accounts.change of the same account and amount.  Every transaction that *)
(* moves money is a sequence of postings.                                  *)
(*                                                                         *)
(* SumFunctionOnSet is a recursive function on the subsets of its index    *)
(* set that removes the element CHOOSE picks.  It exists because functions *)
(* with the same recursion exist on the subsets of every bounded size; the *)
(* element removed does not matter because integers are added.  Both       *)
(* inductions are made by minimal counterexample (lemma LeastNat).         *)
(***************************************************************************)
EXTENDS Accounts, FiniteSetTheorems, WellFoundedInduction, TLAPS

Pick(s) == CHOOSE x \in s : TRUE

\* One step of the recursion of SumFunctionOnSet; "it" is the recursive call.
IterBody(f, it, s) == IF s = {} THEN 0 ELSE f[Pick(s)] + it[s \ {Pick(s)}]

IsIter(D, f, it) == it = [s \in D |-> IterBody(f, it, s)]

UpTo(S, n) == {s \in SUBSET S : Cardinality(s) <= n}

\* Every non-empty set of naturals has a least element.
LEMMA LeastNat ==
  ASSUME NEW T \in SUBSET Nat, T # {}
  PROVE  \E n \in T : \A m \in T : n <= m
<1> DEFINE R == OpToRel(<, Nat)
<1>1. IsWellFoundedOn(R, Nat)
  BY NatLessThanWellFounded
<1>2. \A x, y \in Nat : y < x => <<y, x>> \in R
  BY DEF OpToRel
<1> HIDE DEF R
<1>3. PICK n \in T : \A y \in T : ~ (<<y, n>> \in R)
  BY <1>1, WFMin, Zenon
<1>4. \A m \in T : ~ (m < n)
  BY <1>2, <1>3
<1>5. \A m \in T : n <= m
  BY <1>4
<1> QED BY <1>5

\* Removing the picked element leaves a smaller finite set.
LEMMA PickSmaller ==
  ASSUME NEW S, IsFiniteSet(S), NEW s \in SUBSET S, s # {}
  PROVE  /\ Pick(s) \in s
         /\ s \ {Pick(s)} \in SUBSET S
         /\ Cardinality(s) \in Nat \ {0}
         /\ Cardinality(s \ {Pick(s)}) = Cardinality(s) - 1
<1>1. Pick(s) \in s
  BY DEF Pick
<1>2. IsFiniteSet(s)
  BY FS_Subset
<1>3. Cardinality(s) \in Nat /\ Cardinality(s) # 0
  BY <1>2, FS_CardinalityType, FS_EmptySet
<1>4. Cardinality(s \ {Pick(s)}) = Cardinality(s) - 1
  BY <1>1, <1>2, FS_RemoveElement
<1> QED BY <1>1, <1>3, <1>4

\* The recursion has a solution on the subsets of every bounded size.
LEMMA IterUpToExists ==
  ASSUME NEW S, IsFiniteSet(S), NEW f
  PROVE  \A n \in Nat : \E it : IsIter(UpTo(S, n), f, it)
<1> DEFINE Bad == {n \in Nat : ~ \E it : IsIter(UpTo(S, n), f, it)}
<1> SUFFICES ASSUME Bad # {} PROVE FALSE
  OBVIOUS
<1>1. PICK n \in Bad : \A m \in Bad : n <= m
  <2>1. Bad \in SUBSET Nat
    OBVIOUS
  <2> HIDE DEF Bad
  <2> QED BY <2>1, LeastNat
<1>2. ASSUME NEW g
      PROVE  \E it : it = [s \in UpTo(S, n) |-> IterBody(f, g, s)]
  OBVIOUS
<1>3. CASE n = 0
  <2>1. ASSUME NEW s \in UpTo(S, 0), s # {}
        PROVE  FALSE
    <3>1. s \in SUBSET S /\ Cardinality(s) <= 0
      BY DEF UpTo
    <3>2. Cardinality(s) \in Nat \ {0}
      BY <2>1, <3>1, PickSmaller
    <3> QED BY <3>1, <3>2
  <2> DEFINE it == [s \in UpTo(S, 0) |-> 0]
  <2>2. IsIter(UpTo(S, 0), f, it)
    BY <2>1 DEF IsIter, IterBody
  <2> QED BY <1>1, <1>3, <2>2
<1>4. CASE n # 0
  <2>1. n - 1 \in Nat /\ n - 1 \notin Bad
    BY <1>1, <1>4
  <2>2. PICK g : IsIter(UpTo(S, n - 1), f, g)
    BY <2>1
  <2> DEFINE it == [s \in UpTo(S, n) |-> IterBody(f, g, s)]
  <2>3. \A s \in UpTo(S, n - 1) : s \in UpTo(S, n)
    <3> SUFFICES ASSUME NEW s \in UpTo(S, n - 1) PROVE s \in UpTo(S, n)
      OBVIOUS
    <3>1. Cardinality(s) \in Nat
      BY FS_Subset, FS_CardinalityType DEF UpTo
    <3> QED BY <2>1, <3>1 DEF UpTo
  <2>4. \A s \in UpTo(S, n - 1) : it[s] = g[s]
    BY <2>2, <2>3 DEF IsIter
  <2>5. ASSUME NEW s \in UpTo(S, n), s # {}
        PROVE  s \ {Pick(s)} \in UpTo(S, n - 1)
    <3>1. s \in SUBSET S /\ Cardinality(s) <= n
      BY DEF UpTo
    <3> QED BY <2>1, <2>5, <3>1, PickSmaller DEF UpTo
  <2>6. ASSUME NEW s \in UpTo(S, n)
        PROVE  IterBody(f, g, s) = IterBody(f, it, s)
    <3> HIDE DEF it
    <3> QED BY <2>4, <2>5 DEF IterBody
  <2>7. IsIter(UpTo(S, n), f, it)
    BY <2>6 DEF IsIter
  <2> QED BY <1>1, <2>7
<1> QED BY <1>3, <1>4

\* SumFunctionOnSet satisfies the recursion that defines it.
LEMMA IterExists ==
  ASSUME NEW S, IsFiniteSet(S), NEW f
  PROVE  \E it : IsIter(SUBSET S, f, it)
<1> DEFINE N == Cardinality(S)
<1>1. N \in Nat
  BY FS_CardinalityType
<1>2. \A s \in SUBSET S : Cardinality(s) <= N
  BY FS_Subset
<1>3. UpTo(S, N) = SUBSET S
  BY <1>2 DEF UpTo
<1>4. \E it : IsIter(UpTo(S, N), f, it)
  <2> HIDE DEF N
  <2> QED BY <1>1, IterUpToExists
<1> QED BY <1>3, <1>4

LEMMA SumIsIter ==
  ASSUME NEW S, NEW f
  PROVE  SumFunctionOnSet(f, S) = (CHOOSE it : IsIter(SUBSET S, f, it))[S]
BY DEF SumFunctionOnSet, FoldFunctionOnSet, MapThenFoldSet, IsIter, IterBody, Pick

\* A non-empty family of subsets of a finite set has a smallest member.
LEMMA SmallestSubset ==
  ASSUME NEW S, IsFiniteSet(S), NEW Bad \in SUBSET SUBSET S, Bad # {}
  PROVE  \E s \in Bad : \A t \in Bad : Cardinality(s) <= Cardinality(t)
<1> DEFINE Sizes == {Cardinality(s) : s \in Bad}
<1>1. \A s \in Bad : Cardinality(s) \in Nat
  BY FS_Subset, FS_CardinalityType
<1>2. Sizes \in SUBSET Nat /\ Sizes # {}
  BY <1>1
<1>3. PICK n \in Sizes : \A m \in Sizes : n <= m
  <2> HIDE DEF Sizes
  <2> QED BY <1>2, LeastNat
<1> QED BY <1>3

\* Solutions on two index sets agree on their common subsets.
LEMMA IterUnique ==
  ASSUME NEW S, IsFiniteSet(S), NEW T, NEW f, NEW g, NEW it, NEW jt,
         IsIter(SUBSET S, f, it), IsIter(SUBSET T, g, jt),
         \A x \in S \cap T : f[x] = g[x]
  PROVE  \A s \in SUBSET (S \cap T) : it[s] = jt[s]
<1> DEFINE Bad == {s \in SUBSET (S \cap T) : it[s] # jt[s]}
<1> SUFFICES ASSUME Bad # {} PROVE FALSE
  OBVIOUS
<1>1. PICK s \in Bad : \A t \in Bad : Cardinality(s) <= Cardinality(t)
  <2>1. Bad \in SUBSET SUBSET S
    OBVIOUS
  <2> HIDE DEF Bad
  <2> QED BY <2>1, SmallestSubset
<1>2. /\ s \in SUBSET S
      /\ s \in SUBSET T
      /\ it[s] = IterBody(f, it, s)
      /\ jt[s] = IterBody(g, jt, s)
  BY DEF IsIter
<1>3. s # {}
  BY <1>1, <1>2 DEF IterBody
<1> DEFINE r == s \ {Pick(s)}
<1>4. Pick(s) \in s /\ Cardinality(r) = Cardinality(s) - 1 /\ Cardinality(s) \in Nat
  BY <1>2, <1>3, PickSmaller
<1>5. r \notin Bad
  <2> HIDE DEF r, Bad
  <2> QED BY <1>1, <1>4
<1>6. it[r] = jt[r]
  BY <1>5
<1>7. f[Pick(s)] = g[Pick(s)]
  BY <1>2, <1>4
<1> QED BY <1>1, <1>2, <1>3, <1>6, <1>7 DEF IterBody

THEOREM SumEmpty ==
  ASSUME NEW f
  PROVE  SumFunctionOnSet(f, {}) = 0
<1>1. PICK it : IsIter(SUBSET {}, f, it)
  BY IterExists, FS_EmptySet
<1> DEFINE jt == CHOOSE jt : IsIter(SUBSET {}, f, jt)
<1>2. IsIter(SUBSET {}, f, jt)
  BY <1>1
<1>3. jt[{}] = 0
  <2> HIDE DEF jt
  <2> QED BY <1>2 DEF IsIter, IterBody
<1> QED BY <1>3, SumIsIter

LEMMA SumPick ==
  ASSUME NEW S, IsFiniteSet(S), S # {}, NEW f
  PROVE  SumFunctionOnSet(f, S) = f[Pick(S)] + SumFunctionOnSet(f, S \ {Pick(S)})
<1> DEFINE T == S \ {Pick(S)}
           it == CHOOSE i : IsIter(SUBSET S, f, i)
           jt == CHOOSE i : IsIter(SUBSET T, f, i)
<1>1. IsIter(SUBSET S, f, it)
  BY IterExists
<1>2. IsFiniteSet(T)
  BY FS_Subset
<1>3. IsIter(SUBSET T, f, jt)
  BY <1>2, IterExists
<1>4. SumFunctionOnSet(f, S) = it[S] /\ SumFunctionOnSet(f, T) = jt[T]
  BY SumIsIter
<1>5. T \in SUBSET (S \cap T)
  OBVIOUS
<1>6. it[T] = jt[T]
  <2> HIDE DEF it, jt, T
  <2> QED BY <1>1, <1>3, <1>5, IterUnique
<1>7. it[S] = f[Pick(S)] + it[T]
  <2> HIDE DEF it, jt
  <2> QED BY <1>1 DEF IsIter, IterBody
<1> QED BY <1>4, <1>6, <1>7

\* The sum depends on the values at the indices only.
THEOREM SumEqual ==
  ASSUME NEW S, IsFiniteSet(S), NEW f, NEW g, \A x \in S : f[x] = g[x]
  PROVE  SumFunctionOnSet(f, S) = SumFunctionOnSet(g, S)
<1> DEFINE it == CHOOSE i : IsIter(SUBSET S, f, i)
           jt == CHOOSE i : IsIter(SUBSET S, g, i)
<1>1. IsIter(SUBSET S, f, it) /\ IsIter(SUBSET S, g, jt)
  BY IterExists
<1>2. SumFunctionOnSet(f, S) = it[S] /\ SumFunctionOnSet(g, S) = jt[S]
  BY SumIsIter
<1>3. it[S] = jt[S]
  <2> HIDE DEF it, jt
  <2>1. S \in SUBSET (S \cap S) /\ \A x \in S \cap S : f[x] = g[x]
    OBVIOUS
  <2> QED BY <1>1, <2>1, IterUnique
<1> QED BY <1>2, <1>3

THEOREM SumType ==
  ASSUME NEW S, IsFiniteSet(S), NEW f, \A x \in S : f[x] \in Int
  PROVE  SumFunctionOnSet(f, S) \in Int
<1> DEFINE Bad == {s \in SUBSET S : SumFunctionOnSet(f, s) \notin Int}
<1> SUFFICES ASSUME Bad # {} PROVE FALSE
  OBVIOUS
<1>1. PICK s \in Bad : \A t \in Bad : Cardinality(s) <= Cardinality(t)
  <2>1. Bad \in SUBSET SUBSET S
    OBVIOUS
  <2> HIDE DEF Bad
  <2> QED BY <2>1, SmallestSubset
<1>2. s # {}
  BY <1>1, SumEmpty
<1> DEFINE r == s \ {Pick(s)}
<1>3. /\ Pick(s) \in s
      /\ r \in SUBSET S
      /\ Cardinality(r) = Cardinality(s) - 1 /\ Cardinality(s) \in Nat
  BY <1>2, PickSmaller
<1>4. r \notin Bad
  <2> HIDE DEF r, Bad
  <2> QED BY <1>1, <1>3
<1>5. SumFunctionOnSet(f, s) = f[Pick(s)] + SumFunctionOnSet(f, r)
  BY <1>2, SumPick, FS_Subset
<1>6. f[Pick(s)] \in Int
  BY <1>3
<1>7. SumFunctionOnSet(f, r) \in Int
  BY <1>3, <1>4
<1> QED BY <1>1, <1>5, <1>6, <1>7

\* Any element may be taken out first, not only the one Pick selects.
THEOREM SumRemove ==
  ASSUME NEW S, IsFiniteSet(S), NEW f, \A x \in S : f[x] \in Int, NEW y \in S
  PROVE  SumFunctionOnSet(f, S) = f[y] + SumFunctionOnSet(f, S \ {y})
<1> DEFINE Sum(s) == SumFunctionOnSet(f, s)
           Bad == {s \in SUBSET S : \E x \in s : Sum(s) # f[x] + Sum(s \ {x})}
<1> SUFFICES ASSUME Bad # {} PROVE FALSE
  OBVIOUS
<1>0. \A s \in SUBSET S : Sum(s) \in Int /\ IsFiniteSet(s)
  BY SumType, FS_Subset
<1>1. PICK s \in Bad : \A t \in Bad : Cardinality(s) <= Cardinality(t)
  <2>1. Bad \in SUBSET SUBSET S
    OBVIOUS
  <2> HIDE DEF Bad
  <2> QED BY <2>1, SmallestSubset
<1>2. PICK x \in s : Sum(s) # f[x] + Sum(s \ {x})
  OBVIOUS
<1> DEFINE p == Pick(s)
<1>3. p \in s /\ s \in SUBSET S /\ s # {}
  BY PickSmaller
<1>4. Sum(s) = f[p] + Sum(s \ {p})
  BY <1>0, <1>3, SumPick
<1>5. x # p
  BY <1>2, <1>4
<1>6. ASSUME NEW z \in s
      PROVE  s \ {z} \notin Bad
  <2>1. IsFiniteSet(s) /\ Cardinality(s) \in Nat
    BY <1>0, <1>3, FS_CardinalityType
  <2>2. Cardinality(s \ {z}) = Cardinality(s) - 1
    BY <2>1, FS_RemoveElement
  <2> HIDE DEF Bad
  <2> QED BY <1>1, <2>1, <2>2
<1>7. Sum(s \ {p}) = f[x] + Sum((s \ {p}) \ {x})
  <2>1. s \ {p} \in SUBSET S /\ x \in s \ {p}
    BY <1>3, <1>5
  <2>2. s \ {p} \notin Bad
    BY <1>3, <1>6
  <2> QED BY <2>1, <2>2
<1>8. Sum(s \ {x}) = f[p] + Sum((s \ {x}) \ {p})
  <2>1. s \ {x} \in SUBSET S /\ p \in s \ {x}
    BY <1>3, <1>5
  <2>2. s \ {x} \notin Bad
    BY <1>6
  <2> QED BY <2>1, <2>2
<1>9. (s \ {p}) \ {x} = (s \ {x}) \ {p}
  OBVIOUS
<1>10. f[x] \in Int /\ f[p] \in Int /\ Sum((s \ {p}) \ {x}) \in Int
  BY <1>0, <1>3
<1> HIDE DEF Sum, p
<1> QED BY SMTT(20), <1>2, <1>4, <1>7, <1>8, <1>9, <1>10

THEOREM SumAdd ==
  ASSUME NEW S, IsFiniteSet(S), NEW y, y \notin S,
         NEW f, \A x \in S \cup {y} : f[x] \in Int
  PROVE  SumFunctionOnSet(f, S \cup {y}) = f[y] + SumFunctionOnSet(f, S)
<1>1. IsFiniteSet(S \cup {y}) /\ y \in S \cup {y}
  BY FS_AddElement
<1>2. (S \cup {y}) \ {y} = S
  OBVIOUS
<1> QED BY <1>1, <1>2, SumRemove

\* Changing the value at one index changes the sum by the difference.
THEOREM SumChange ==
  ASSUME NEW S, IsFiniteSet(S), NEW y \in S, NEW f, NEW g,
         \A x \in S : f[x] \in Int /\ g[x] \in Int,
         \A x \in S \ {y} : g[x] = f[x]
  PROVE  SumFunctionOnSet(g, S) = SumFunctionOnSet(f, S) + (g[y] - f[y])
<1> DEFINE R == S \ {y}
<1>1. IsFiniteSet(R)
  BY FS_Subset
<1>2. SumFunctionOnSet(g, R) = SumFunctionOnSet(f, R)
  BY <1>1, SumEqual
<1>3. SumFunctionOnSet(f, R) \in Int
  BY <1>1, SumType
<1>4. /\ SumFunctionOnSet(f, S) = f[y] + SumFunctionOnSet(f, R)
      /\ SumFunctionOnSet(g, S) = g[y] + SumFunctionOnSet(g, R)
  BY SumRemove
<1> QED BY <1>2, <1>3, <1>4

-------------------------------------------------------------------------------
(***************************************************************************)
(* Postings.                                                               *)
(***************************************************************************)
LedgerOK(l) ==
  /\ IsFiniteSet(DOMAIN l)
  /\ \A k \in DOMAIN l : k[3] \in Account /\ l[k] \in Int

\* BalancesMatchLedger for any balances and ledger.
Match(b, l) ==
  \A a \in Account : b[a] = SumFunctionOnSet(l, EntriesOf(l, a))

LEMMA InsertLedgerOK ==
  ASSUME NEW l, LedgerOK(l), NEW k, Fresh(l, k), k[3] \in Account, NEW v \in Int
  PROVE  LedgerOK(Insert(l, k, v))
<1> DEFINE m == Insert(l, k, v)
<1>1. /\ DOMAIN m = DOMAIN l \cup {k}
      /\ m[k] = v
      /\ \A j \in DOMAIN l : m[j] = l[j]
  BY DEF Insert, Fresh
<1>2. IsFiniteSet(DOMAIN l \cup {k})
  BY FS_AddElement DEF LedgerOK
<1> HIDE DEF m
<1>3. LedgerOK(m)
  BY <1>1, <1>2 DEF LedgerOK
<1> QED BY <1>3 DEF m

\* The ledger's total grows by the amount inserted.
LEMMA InsertTotal ==
  ASSUME NEW l, LedgerOK(l), NEW k, Fresh(l, k), NEW v \in Int
  PROVE  SumFunction(Insert(l, k, v)) = SumFunction(l) + v
<1> DEFINE m == Insert(l, k, v)
           D == DOMAIN l
<1>1. /\ DOMAIN m = D \cup {k}
      /\ m[k] = v
      /\ \A j \in D : m[j] = l[j]
  BY DEF Insert, Fresh
<1>2. IsFiniteSet(D) /\ k \notin D /\ \A j \in D : l[j] \in Int
  BY DEF LedgerOK, Fresh
<1> HIDE DEF m, D
<1>3. SumFunctionOnSet(m, D \cup {k}) = m[k] + SumFunctionOnSet(m, D)
  BY <1>1, <1>2, SumAdd
<1>4. SumFunctionOnSet(m, D) = SumFunctionOnSet(l, D)
  BY <1>1, <1>2, SumEqual
<1>5. SumFunctionOnSet(l, D) \in Int
  BY <1>2, SumType
<1>6. SumFunctionOnSet(m, DOMAIN m) = SumFunctionOnSet(l, D) + v
  BY <1>1, <1>3, <1>4, <1>5
<1> QED BY <1>6 DEF SumFunction, m, D

\* The sum of an account's entries grows by an amount posted to that account.
LEMMA InsertAccountSum ==
  ASSUME NEW l, LedgerOK(l), NEW k, Fresh(l, k), NEW v \in Int, NEW a
  PROVE  SumFunctionOnSet(Insert(l, k, v), EntriesOf(Insert(l, k, v), a)) =
           SumFunctionOnSet(l, EntriesOf(l, a)) + (IF k[3] = a THEN v ELSE 0)
<1> DEFINE m == Insert(l, k, v)
           E == EntriesOf(l, a)
<1>1. /\ DOMAIN m = DOMAIN l \cup {k}
      /\ m[k] = v
      /\ \A j \in DOMAIN l : m[j] = l[j]
  BY DEF Insert, Fresh
<1>2. /\ IsFiniteSet(E)
      /\ k \notin E
      /\ \A j \in E : l[j] \in Int
      /\ \A j \in E : m[j] = l[j]
  <2>1. E \in SUBSET DOMAIN l
    BY DEF EntriesOf
  <2>2. IsFiniteSet(E)
    BY <2>1, FS_Subset DEF LedgerOK
  <2> HIDE DEF m, E
  <2> QED BY <1>1, <2>1, <2>2 DEF LedgerOK, Fresh
<1>3. EntriesOf(m, a) = IF k[3] = a THEN E \cup {k} ELSE E
  <2> HIDE DEF m
  <2> QED BY <1>1 DEF EntriesOf
<1> HIDE DEF m, E
<1>4. SumFunctionOnSet(m, E) = SumFunctionOnSet(l, E)
  BY <1>2, SumEqual
<1>5. SumFunctionOnSet(l, E) \in Int
  BY <1>2, SumType
<1>6. SumFunctionOnSet(m, E \cup {k}) = m[k] + SumFunctionOnSet(m, E)
  BY <1>1, <1>2, SumAdd
<1>7. SumFunctionOnSet(m, EntriesOf(m, a)) =
        SumFunctionOnSet(l, E) + (IF k[3] = a THEN v ELSE 0)
  BY <1>1, <1>3, <1>4, <1>5, <1>6
<1> QED BY <1>7 DEF m, E

\* The books: well-typed balances and ledger that agree.
Books(b, l) ==
  /\ b \in [Account -> Int]
  /\ LedgerOK(l)
  /\ Match(b, l)

\* A posting keeps the books and adds its amount to the ledger's total.
LEMMA Posting ==
  ASSUME NEW b, NEW l, Books(b, l),
         NEW k, Fresh(l, k), NEW a \in Account, k[3] = a, NEW v \in Int
  PROVE  /\ Books(Change(b, a, v), Insert(l, k, v))
         /\ SumFunction(Insert(l, k, v)) = SumFunction(l) + v
<1>1. Change(b, a, v) \in [Account -> Int]
  BY DEF Change, Books
<1>2. ASSUME NEW c \in Account
      PROVE  Change(b, a, v)[c] = SumFunctionOnSet(Insert(l, k, v), EntriesOf(Insert(l, k, v), c))
  <2>1. Change(b, a, v)[c] = b[c] + (IF a = c THEN v ELSE 0)
    BY DEF Change, Books
  <2>2. b[c] = SumFunctionOnSet(l, EntriesOf(l, c))
    BY DEF Match, Books
  <2> QED BY <2>1, <2>2, InsertAccountSum DEF Books
<1>3. Match(Change(b, a, v), Insert(l, k, v))
  BY <1>2 DEF Match
<1>4. LedgerOK(Insert(l, k, v))
  BY InsertLedgerOK DEF Books
<1>5. SumFunction(Insert(l, k, v)) = SumFunction(l) + v
  BY InsertTotal DEF Books
<1> QED BY <1>1, <1>3, <1>4, <1>5 DEF Books

LEMMA LedgerTotalType ==
  ASSUME NEW l, LedgerOK(l)
  PROVE  SumFunction(l) \in Int
BY SumType DEF SumFunction, LedgerOK

\* Two postings in a row; settle adds a third.
LEMMA TwoPostings ==
  ASSUME NEW b, NEW l, Books(b, l),
         NEW k1, Fresh(l, k1), NEW a1 \in Account, k1[3] = a1, NEW v1 \in Int,
         NEW k2, Fresh(l, k2), NEW a2 \in Account, k2[3] = a2, NEW v2 \in Int,
         k1 # k2
  PROVE  /\ Books(Change(Change(b, a1, v1), a2, v2), Insert(Insert(l, k1, v1), k2, v2))
         /\ SumFunction(Insert(Insert(l, k1, v1), k2, v2)) = SumFunction(l) + v1 + v2
<1> DEFINE b1 == Change(b, a1, v1)
           l1 == Insert(l, k1, v1)
<1>1. Books(b1, l1) /\ SumFunction(l1) = SumFunction(l) + v1
  BY Posting
<1>2. Fresh(l1, k2)
  BY DEF Fresh, Insert
<1>3. SumFunction(l) \in Int
  BY LedgerTotalType DEF Books
<1> HIDE DEF b1, l1
<1>4. /\ Books(Change(b1, a2, v2), Insert(l1, k2, v2))
      /\ SumFunction(Insert(l1, k2, v2)) = SumFunction(l1) + v2
  BY <1>1, <1>2, Posting
<1>5. SumFunction(Insert(l1, k2, v2)) = SumFunction(l) + v1 + v2
  BY <1>1, <1>3, <1>4
<1> QED BY <1>4, <1>5 DEF b1, l1
===============================================================================
