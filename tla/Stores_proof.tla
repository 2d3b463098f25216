---------------------------- MODULE Stores_proof ----------------------------
(***************************************************************************)
(* What is proved of the stores that MCStores runs together, for every     *)
(* value of the constants: the ledger, the freelist, the versioned sets,   *)
(* the permissions, the sharded and the bitmap allocator, the transactions,*)
(* the expiring stores, the LRU list and the hit counters.  Each part has  *)
(* the invariant of one component and the lemma that its steps keep it;    *)
(* StoresTakeSteps says that a step of the whole is one of the component   *)
(* or leaves it alone.                                                     *)
(***************************************************************************)
EXTENDS MCStores, FiniteSetsExt, FiniteSetTheorems, WellFoundedInduction, TLAPS, FunctionTheorems

\* A set of numbers that is not empty has a least member.
LEMMA Least ==
    ASSUME NEW P \in SUBSET Nat, P # {}
    PROVE  \E v \in P : \A u \in P : v <= u
<1> DEFINE R == OpToRel(<, Nat)
<1>1. IsWellFoundedOn(R, Nat)
  BY NatLessThanWellFounded
<1>2. PICK v \in P : \A u \in P : ~(<<u, v>> \in R)
  <2> HIDE DEF R
  <2> QED BY <1>1, WFMin
<1>3. \A u \in P : <<u, v>> \in R <=> u < v
  BY DEF OpToRel
<1>4. \A u \in P : ~(u < v)
  <2> HIDE DEF R
  <2> QED BY <1>2, <1>3
<1> QED BY <1>4

\* Of some subsets of a finite set one has no other of them inside.
LEMMA Smallest ==
    ASSUME NEW S, IsFiniteSet(S), NEW C \in SUBSET (SUBSET S), C # {}
    PROVE  \E T \in C : \A U \in C : U \subseteq T => U = T
<1>1. \A T \in C : IsFiniteSet(T) /\ Cardinality(T) \in Nat
  BY FS_Subset, FS_CardinalityType
<1>2. PICK T \in C : \A U \in C : Cardinality(T) <= Cardinality(U)
  <2> DEFINE P == {Cardinality(T) : T \in C}
  <2>1. P \in SUBSET Nat /\ P # {}
    BY <1>1
  <2>2. PICK v \in P : \A u \in P : v <= u
    <3> HIDE DEF P
    <3> QED BY <2>1, Least
  <2> QED BY <2>2
<1>3. ASSUME NEW U \in C, U \subseteq T, U # T PROVE FALSE
  <2>1. Cardinality(U) < Cardinality(T)
    BY <1>1, <1>3, FS_Subset
  <2> QED BY <1>1, <1>2, <1>3, <2>1
<1> QED BY <1>3

-----------------------------------------------------------------------------
(* Sums over finite sets *)

SumOf(f, S) == MapThenSumSet(LAMBDA x : f[x], S)

Some(S) == CHOOSE x \in S : TRUE

\* What the sum is folded with.
SumFold(f, S, iter) ==
    iter = [s \in SUBSET S |-> IF s = {} THEN 0 ELSE f[Some(s)] + iter[s \ {Some(s)}]]

\* A sum is what a fold over the subsets says of the whole set.
LEMMA SumFolds ==
    ASSUME NEW f, NEW S
    PROVE  SumOf(f, S) = (CHOOSE iter : SumFold(f, S, iter))[S]
BY DEF SumOf, MapThenSumSet, MapThenFoldSet, SumFold, Some

\* A fold takes one member of a set at a time.
LEMMA FoldOf ==
    ASSUME NEW f, NEW S, NEW iter, SumFold(f, S, iter), NEW T \in SUBSET S
    PROVE  iter[T] = IF T = {} THEN 0 ELSE f[Some(T)] + iter[T \ {Some(T)}]
BY DEF SumFold

\* A set that is not empty has the member that the fold takes.
LEMMA SomeOf ==
    ASSUME NEW S, S # {}
    PROVE  Some(S) \in S
BY DEF Some

\* Two folds over finite sets agree where both are defined.
LEMMA FoldsAgree ==
    ASSUME NEW f, NEW S, IsFiniteSet(S), NEW R, NEW i, NEW j, SumFold(f, S, i), SumFold(f, R, j)
    PROVE  \A T \in SUBSET (S \intersect R) : i[T] = j[T]
<1> DEFINE C == {T \in SUBSET (S \intersect R) : i[T] # j[T]}
<1>1. CASE C # {}
  <2>1. C \in SUBSET (SUBSET S)
    OBVIOUS
  <2>2. PICK T \in C : \A U \in C : U \subseteq T => U = T
    <3> HIDE DEF C
    <3> QED BY <1>1, <2>1, Smallest
  <2>3. T \in SUBSET S /\ T \in SUBSET R /\ i[T] # j[T]
    BY <2>2
  <2>4. T # {}
    BY <2>3, FoldOf
  <2>5. Some(T) \in T
    BY <2>4, SomeOf
  <2>6. i[T \ {Some(T)}] = j[T \ {Some(T)}]
    <3>1. T \ {Some(T)} \notin C
      BY <2>2, <2>5
    <3> QED BY <2>3, <3>1
  <2> QED BY <2>3, <2>4, <2>6, FoldOf
<1> QED BY <1>1

\* Every finite set has a fold: the least one without would have one.
LEMMA FoldExists ==
    ASSUME NEW f, NEW S, IsFiniteSet(S)
    PROVE  \E iter : SumFold(f, S, iter)
<1> DEFINE C == {T \in SUBSET S : ~ \E iter : SumFold(f, T, iter)}
<1>1. CASE C # {}
  <2>1. C \in SUBSET (SUBSET S)
    OBVIOUS
  <2>2. PICK T \in C : \A U \in C : U \subseteq T => U = T
    <3> HIDE DEF C
    <3> QED BY <1>1, <2>1, Smallest
  <2> DEFINE H(U) == CHOOSE iter : SumFold(f, U, iter)
             V(U) == IF U = {} THEN 0 ELSE f[Some(U)] + H(U \ {Some(U)})[U \ {Some(U)}]
             h == [U \in SUBSET T |-> V(U)]
  <2>3. ASSUME NEW U \in SUBSET T, U # T PROVE SumFold(f, U, H(U))
    <3>1. U \notin C /\ U \in SUBSET S
      BY <2>2, <2>3
    <3> QED BY <3>1
  <2>4. ASSUME NEW U \in SUBSET T, U # {} PROVE H(U \ {Some(U)})[U \ {Some(U)}] = h[U \ {Some(U)}]
    <3>1. PICK W : W = U \ {Some(U)}
      OBVIOUS
    <3>2. W \in SUBSET T /\ W # T /\ IsFiniteSet(W)
      BY <2>2, <2>4, <3>1, SomeOf, FS_Subset
    <3>3. SumFold(f, W, H(W))
      BY <2>3, <3>2
    <3>4. CASE W = {}
      <4>1. H(W)[W] = 0
        <5> HIDE DEF H
        <5> QED BY <3>3, <3>4, FoldOf
      <4> QED BY <3>1, <3>4, <3>2, <4>1
    <3>5. CASE W # {}
      <4>1. PICK Y : Y = W \ {Some(W)}
        OBVIOUS
      <4>2. Y \in SUBSET T /\ Y # T /\ Y \in SUBSET W /\ IsFiniteSet(Y)
        BY <3>2, <3>5, <4>1, SomeOf, FS_Subset
      <4>3. SumFold(f, Y, H(Y))
        BY <2>3, <4>2
      <4>4. H(W)[W] = f[Some(W)] + H(W)[Y]
        <5> HIDE DEF H
        <5> QED BY <3>3, <3>5, <4>1, FoldOf
      <4>5. H(W)[Y] = H(Y)[Y]
        <5> HIDE DEF H
        <5>1. Y \in SUBSET (W \intersect Y)
          BY <4>2
        <5> QED BY <3>2, <3>3, <4>3, <5>1, FoldsAgree
      <4>6. h[W] = f[Some(W)] + H(Y)[Y]
        BY <3>2, <3>5, <4>1
      <4> HIDE DEF H, h
      <4> QED BY <3>1, <4>4, <4>5, <4>6
    <3> QED BY <3>4, <3>5
  <2>5. SumFold(f, T, h)
    <3>1. h = [U \in SUBSET T |-> IF U = {} THEN 0 ELSE f[Some(U)] + h[U \ {Some(U)}]]
      <4>1. ASSUME NEW U \in SUBSET T PROVE V(U) = IF U = {} THEN 0 ELSE f[Some(U)] + h[U \ {Some(U)}]
        <5> HIDE DEF h, H
        <5> QED BY <2>4
      <4> HIDE DEF V
      <4> QED BY <4>1
    <3> HIDE DEF h
    <3> QED BY <3>1 DEF SumFold
  <2> HIDE DEF h
  <2> QED BY <2>2, <2>5
<1>2. S \notin C
  BY <1>1
<1> QED BY <1>2

\* The sum of a finite set, one step of the fold at a time.
LEMMA SumFirst ==
    ASSUME NEW f, NEW S, IsFiniteSet(S)
    PROVE  SumOf(f, S) = IF S = {} THEN 0 ELSE f[Some(S)] + SumOf(f, S \ {Some(S)})
<1> DEFINE H(U) == CHOOSE iter : SumFold(f, U, iter)
<1>1. \A U \in SUBSET S : SumFold(f, U, H(U)) /\ SumOf(f, U) = H(U)[U]
  <2> TAKE U \in SUBSET S
  <2>1. \E iter : SumFold(f, U, iter)
    BY FS_Subset, FoldExists
  <2> QED BY <2>1, SumFolds
<1>2. PICK W : W = S \ {Some(S)}
  OBVIOUS
<1>3. W \in SUBSET S /\ W \in SUBSET (S \intersect W)
  BY <1>2
<1> HIDE DEF H
<1>4. H(S)[W] = H(W)[W]
  BY <1>1, <1>3, FoldsAgree
<1>5. H(S)[S] = IF S = {} THEN 0 ELSE f[Some(S)] + H(S)[W]
  BY <1>1, <1>2, FoldOf
<1> QED BY <1>1, <1>2, <1>3, <1>4, <1>5

\* The sum of nothing.
LEMMA SumEmpty == ASSUME NEW f PROVE SumOf(f, {}) = 0
BY SumFirst, FS_EmptySet

\* Sums of integers are integers, and of natural numbers natural.
LEMMA SumType ==
    ASSUME NEW f, NEW S, IsFiniteSet(S), NEW Numbers \in {Nat, Int}, \A x \in S : f[x] \in Numbers
    PROVE  SumOf(f, S) \in Numbers
<1> DEFINE C == {T \in SUBSET S : SumOf(f, T) \notin Numbers}
<1>1. CASE C # {}
  <2>1. PICK T \in C : \A U \in C : U \subseteq T => U = T
    <3>1. C \in SUBSET (SUBSET S)
      OBVIOUS
    <3> HIDE DEF C
    <3> QED BY <1>1, <3>1, Smallest
  <2>2. T \in SUBSET S /\ SumOf(f, T) \notin Numbers /\ IsFiniteSet(T)
    BY <2>1, FS_Subset
  <2>3. T # {}
    BY <2>2, SumEmpty
  <2>4. Some(T) \in T
    BY <2>3, SomeOf
  <2>5. T \ {Some(T)} \notin C
    BY <2>1, <2>4
  <2>6. SumOf(f, T \ {Some(T)}) \in Numbers /\ f[Some(T)] \in Numbers
    BY <2>2, <2>4, <2>5
  <2>7. SumOf(f, T) = f[Some(T)] + SumOf(f, T \ {Some(T)})
    BY <2>2, <2>3, SumFirst
  <2>8. \A n, m \in Numbers : n + m \in Numbers
    OBVIOUS
  <2> QED BY <2>2, <2>6, <2>7, <2>8
<1> QED BY <1>1

\* Any member of the set may be added last.
LEMMA SumRemove ==
    ASSUME NEW f, NEW S, IsFiniteSet(S), \A x \in S : f[x] \in Int, NEW x \in S
    PROVE  SumOf(f, S) = f[x] + SumOf(f, S \ {x})
<1> DEFINE C == {T \in SUBSET S : \E y \in T : SumOf(f, T) # f[y] + SumOf(f, T \ {y})}
<1>1. CASE C # {}
  <2>1. PICK T \in C : \A U \in C : U \subseteq T => U = T
    <3>1. C \in SUBSET (SUBSET S)
      OBVIOUS
    <3> HIDE DEF C
    <3> QED BY <1>1, <3>1, Smallest
  <2>2. PICK y \in T : SumOf(f, T) # f[y] + SumOf(f, T \ {y})
    BY <2>1
  <2>3. T \in SUBSET S /\ IsFiniteSet(T) /\ T # {}
    BY <2>1, <2>2, FS_Subset
  <2>4. PICK z : z = Some(T)
    OBVIOUS
  <2>5. z \in T /\ SumOf(f, T) = f[z] + SumOf(f, T \ {z})
    BY <2>3, <2>4, SomeOf, SumFirst
  <2>6. y # z
    BY <2>2, <2>5
  <2>7. PICK R : R = T \ {y, z}
    OBVIOUS
  <2>8. T \ {z} \notin C /\ T \ {y} \notin C
    BY <2>1, <2>2, <2>5
  <2>9. SumOf(f, T \ {z}) = f[y] + SumOf(f, R)
    <3>1. (T \ {z}) \ {y} = R /\ y \in T \ {z} /\ T \ {z} \in SUBSET S
      BY <2>2, <2>3, <2>6, <2>7
    <3> QED BY <2>8, <3>1
  <2>10. SumOf(f, T \ {y}) = f[z] + SumOf(f, R)
    <3>1. (T \ {y}) \ {z} = R /\ z \in T \ {y} /\ T \ {y} \in SUBSET S
      BY <2>5, <2>3, <2>6, <2>7
    <3> QED BY <2>8, <3>1
  <2>11. SumOf(f, R) \in Int /\ f[y] \in Int /\ f[z] \in Int
    <3>1. IsFiniteSet(R) /\ \A u \in R : f[u] \in Int
      BY <2>3, <2>7, FS_Subset
    <3> QED BY <2>2, <2>3, <2>5, <3>1, SumType
  <2> QED BY ONLY <2>2, <2>5, <2>9, <2>10, <2>11
<1>2. CASE C = {}
  BY <1>2
<1> QED BY <1>1, <1>2

\* Sums of functions that agree on the set are the same.
LEMMA SumSame ==
    ASSUME NEW f, NEW g, NEW S, IsFiniteSet(S), \A x \in S : f[x] = g[x]
    PROVE  SumOf(f, S) = SumOf(g, S)
<1> DEFINE C == {T \in SUBSET S : SumOf(f, T) # SumOf(g, T)}
<1>1. CASE C # {}
  <2>1. PICK T \in C : \A U \in C : U \subseteq T => U = T
    <3>1. C \in SUBSET (SUBSET S)
      OBVIOUS
    <3> HIDE DEF C
    <3> QED BY <1>1, <3>1, Smallest
  <2>2. T \in SUBSET S /\ SumOf(f, T) # SumOf(g, T) /\ IsFiniteSet(T)
    BY <2>1, FS_Subset
  <2>3. T # {}
    BY <2>2, SumEmpty
  <2>4. Some(T) \in T
    BY <2>3, SomeOf
  <2>5. T \ {Some(T)} \notin C
    BY <2>1, <2>4
  <2>6. SumOf(f, T \ {Some(T)}) = SumOf(g, T \ {Some(T)}) /\ f[Some(T)] = g[Some(T)]
    BY <2>2, <2>4, <2>5
  <2> QED BY <2>2, <2>3, <2>6, SumFirst
<1> QED BY <1>1

\* A sum of zeros is zero.
LEMMA SumZero ==
    ASSUME NEW f, NEW S, IsFiniteSet(S), \A x \in S : f[x] = 0
    PROVE  SumOf(f, S) = 0
<1> DEFINE C == {T \in SUBSET S : SumOf(f, T) # 0}
<1>1. CASE C # {}
  <2>1. PICK T \in C : \A U \in C : U \subseteq T => U = T
    <3>1. C \in SUBSET (SUBSET S)
      OBVIOUS
    <3> HIDE DEF C
    <3> QED BY <1>1, <3>1, Smallest
  <2>2. T \in SUBSET S /\ SumOf(f, T) # 0 /\ IsFiniteSet(T) /\ T # {}
    BY <2>1, FS_Subset, SumEmpty
  <2>3. Some(T) \in T
    BY <2>2, SomeOf
  <2>4. SumOf(f, T \ {Some(T)}) = 0 /\ f[Some(T)] = 0
    BY <2>1, <2>2, <2>3
  <2> QED BY <2>2, <2>4, SumFirst
<1> QED BY <1>1

\* A change at one place changes the sum by as much.
LEMMA SumChange ==
    ASSUME NEW f, NEW g, NEW S, IsFiniteSet(S), NEW x \in S,
           \A y \in S : f[y] \in Int /\ g[y] \in Int,
           \A y \in S \ {x} : g[y] = f[y]
    PROVE  SumOf(g, S) = SumOf(f, S) + g[x] - f[x]
<1>1. SumOf(f, S) = f[x] + SumOf(f, S \ {x}) /\ SumOf(g, S) = g[x] + SumOf(g, S \ {x})
  BY SumRemove
<1>2. IsFiniteSet(S \ {x})
  BY FS_Subset
<1>3. SumOf(f, S \ {x}) = SumOf(g, S \ {x})
  BY <1>2, SumSame
<1>4. SumOf(f, S \ {x}) \in Int
  BY <1>2, SumType
<1> QED BY <1>1, <1>3, <1>4

-----------------------------------------------------------------------------
(* The ledger *)

\* Of a transfer under way the lock of the smaller account is taken first.
LEMMA TwoAccounts ==
    ASSUME Book!TypeOK, NEW c \in Clients, order[c].src # order[c].dst
    PROVE  /\ Book!First(c) \in Accounts /\ Book!Second(c) \in Accounts
           /\ Book!First(c) < Book!Second(c)
           /\ {Book!First(c), Book!Second(c)} = {order[c].src, order[c].dst}
<1>1. PICK s, d : s = order[c].src /\ d = order[c].dst
  OBVIOUS
<1>2. s \in Accounts /\ d \in Accounts /\ s \in Int /\ d \in Int /\ s # d
  BY <1>1, TierConstants DEF Book!TypeOK, Book!Transfers, Book!LedgerConstants
<1>3. Book!First(c) = CHOOSE x \in {s, d} : \A y \in {s, d} : x <= y
  BY <1>1 DEF Book!First, Book!Both, Book!Min
<1>4. \E x \in {s, d} : \A y \in {s, d} : x <= y
  <2>1. CASE s <= d
    BY <1>2, <2>1
  <2>2. CASE d <= s
    BY <1>2, <2>2
  <2> QED BY <1>2, <2>1, <2>2
<1>5. PICK f : f = Book!First(c) /\ f \in {s, d} /\ \A y \in {s, d} : f <= y
  BY <1>3, <1>4
<1>6. Book!Second(c) = CHOOSE x \in {s, d} : x # f
  BY <1>1, <1>5 DEF Book!Second, Book!Both
<1>7. PICK g : g = Book!Second(c) /\ g \in {s, d} /\ g # f
  BY <1>2, <1>6
<1> QED BY <1>1, <1>2, <1>5, <1>7

\* Whoever holds a lock took it on its way and has not given it back, and an
\* account that was found to have the money keeps it until the debit.
Inside(c) == stage[c] \in {"checks", "debits", "credits", "unlocks"}

LocksFollowStages ==
    /\ \A c \in Clients :
        /\ stage[c] # "idle" => order[c].src # order[c].dst
        /\ Inside(c) \/ stage[c] \in {"second", "unlocks_first"} => holder[Book!First(c)] = c
        /\ Inside(c) => holder[Book!Second(c)] = c
        /\ stage[c] = "debits" => balance[order[c].src] >= order[c].amount
    /\ \A x \in Accounts : \A c \in Clients : holder[x] = c =>
        \/ x = Book!First(c) /\ (Inside(c) \/ stage[c] \in {"second", "unlocks_first"})
        \/ x = Book!Second(c) /\ Inside(c)

BookInv == Book!TypeOK /\ LocksFollowStages /\ Book!MoneyIsConserved

\* The sums of MoneyIsConserved.
MoneySums(b, m) ==
    /\ \A x \in Accounts : b[x] >= 0
    /\ SumOf(b, Accounts) + SumOf(m, Clients) = SumOf(Opening, Accounts)

\* The property, now and in the next state.
LEMMA MoneyIsMoney ==
    /\ Book!MoneyIsConserved <=> MoneySums(balance, Book!Moving)
    /\ Book!MoneyIsConserved' <=> MoneySums(balance', Book!Moving')
BY DEF Book!MoneyIsConserved, MoneySums, SumOf, MapThenSumSet, MapThenFoldSet,
   Book!MapThenSumSet, Book!MapThenFoldSet

\* What the transfers of a step do to the money, one account and one client at
\* a time.
LEMMA MoneyMoves ==
    ASSUME NEW b \in [Accounts -> Int], NEW m \in [Clients -> Int], MoneySums(b, m),
           NEW x \in Accounts, NEW c \in Clients, NEW d \in Int, b[x] + d >= 0
    PROVE  MoneySums([b EXCEPT ![x] = b[x] + d], [m EXCEPT ![c] = m[c] - d])
<1> DEFINE nb == [b EXCEPT ![x] = b[x] + d]
           nm == [m EXCEPT ![c] = m[c] - d]
<1>1. /\ nb \in [Accounts -> Int] /\ nm \in [Clients -> Int]
      /\ nb[x] = b[x] + d /\ nm[c] = m[c] - d
      /\ \A y \in Accounts \ {x} : nb[y] = b[y]
      /\ \A y \in Clients \ {c} : nm[y] = m[y]
  OBVIOUS
<1>2. IsFiniteSet(Accounts) /\ IsFiniteSet(Clients)
  BY TierConstants DEF Book!LedgerConstants, Book!IsFiniteSet, IsFiniteSet
<1> HIDE DEF nb, nm
<1>3. SumOf(nb, Accounts) = SumOf(b, Accounts) + nb[x] - b[x]
  BY <1>1, <1>2, SumChange
<1>4. SumOf(nm, Clients) = SumOf(m, Clients) + nm[c] - m[c]
  BY <1>1, <1>2, SumChange
<1>5. SumOf(b, Accounts) \in Int /\ SumOf(m, Clients) \in Int
  BY <1>2, SumType
<1>6. SumOf(nb, Accounts) + SumOf(nm, Clients) = SumOf(b, Accounts) + SumOf(m, Clients)
  <2>1. b[x] \in Int /\ m[c] \in Int
    OBVIOUS
  <2> QED BY ONLY <1>1, <1>3, <1>4, <1>5, <2>1, d \in Int
<1>7. \A y \in Accounts : nb[y] >= 0
  BY <1>1 DEF MoneySums
<1> QED BY <1>6, <1>7 DEF MoneySums, nb, nm

\* An order that stays names the same two accounts.
LEMMA OrderKept ==
    ASSUME NEW c, order'[c] = order[c]
    PROVE  /\ Book!First(c)' = Book!First(c) /\ Book!Second(c)' = Book!Second(c)
BY DEF Book!First, Book!Second, Book!Both

\* LocksFollowStages, of one client and of one account and client.
Keeps(c) ==
    /\ stage[c] # "idle" => order[c].src # order[c].dst
    /\ Inside(c) \/ stage[c] \in {"second", "unlocks_first"} => holder[Book!First(c)] = c
    /\ Inside(c) => holder[Book!Second(c)] = c
    /\ stage[c] = "debits" => balance[order[c].src] >= order[c].amount

Holds(x, c) == holder[x] = c =>
    \/ x = Book!First(c) /\ (Inside(c) \/ stage[c] \in {"second", "unlocks_first"})
    \/ x = Book!Second(c) /\ Inside(c)

\* The locks follow the stages when they do so for each client.
LEMMA LocksFollow ==
    /\ LocksFollowStages <=> \A c \in Clients : Keeps(c) /\ \A x \in Accounts : Holds(x, c)
    /\ LocksFollowStages' <=> \A c \in Clients : Keeps(c)' /\ \A x \in Accounts : Holds(x, c)'
BY DEF LocksFollowStages, Keeps, Holds, Inside

\* A step that takes no lock and gives none back.
LEMMA LocksStay ==
    ASSUME BookInv, NEW c \in Clients, NEW from, NEW to, Book!Goes(c, from, to),
           Book!TypeOK', holder' = holder, order' = order,
           \/ from \in {"checks", "debits", "credits"} /\ to \in {"debits", "credits", "unlocks"},
           to = "debits" => balance'[order[c].src] >= order[c].amount,
           \A x \in Accounts \ {order[c].src, order[c].dst} : balance'[x] = balance[x]
    PROVE  LocksFollowStages'
<1>1. stage[c] = from /\ stage' = [stage EXCEPT ![c] = to] /\ stage \in [Clients -> Book!Stages]
  BY DEF Book!Goes, BookInv, Book!TypeOK
<1>2. ASSUME NEW d \in Clients, NEW x \in Accounts PROVE Keeps(d)' /\ Holds(x, d)'
  <2>1. Book!First(d)' = Book!First(d) /\ Book!Second(d)' = Book!Second(d)
    BY OrderKept
  <2>2. Keeps(d) /\ Holds(x, d)
    BY LocksFollow DEF BookInv
  <2>3. CASE d = c
    <3>1. stage'[d] = to /\ stage[d] = from
      BY <1>1, <2>3
    <3> QED BY <2>1, <2>2, <2>3, <3>1 DEF Keeps, Holds, Inside
  <2>4. CASE d # c
    <3>1. stage'[d] = stage[d]
      BY <1>1, <2>4
    <3>2. stage[d] = "debits" => balance'[order[d].src] = balance[order[d].src]
      <4>1. SUFFICES ASSUME stage[d] = "debits" PROVE balance'[order[d].src] = balance[order[d].src]
        OBVIOUS
      <4>2. Keeps(c)
        BY LocksFollow DEF BookInv
      <4>3. /\ order[d].src # order[d].dst /\ order[c].src # order[c].dst
            /\ holder[Book!First(d)] = d /\ holder[Book!Second(d)] = d
            /\ holder[Book!First(c)] = c /\ holder[Book!Second(c)] = c
        BY <1>1, <2>2, <4>1, <4>2 DEF Keeps, Inside
      <4>4. order[d].src \in Accounts /\ order[d].src \notin {order[c].src, order[c].dst}
        BY <2>4, <4>3, TwoAccounts DEF BookInv
      <4> QED BY <4>4
    <3> QED BY <2>1, <2>2, <3>1, <3>2 DEF Keeps, Holds, Inside
  <2> QED BY <2>3, <2>4
<1> QED
  <2>1. Accounts # {}
    BY TierConstants DEF Book!LedgerConstants
  <2> QED BY <1>2, <2>1, LocksFollow

\* A step that takes a lock or gives one back touches no other lock, and what
\* it leaves is what the new stage says.
LEMMA LocksMove ==
    ASSUME BookInv, NEW c \in Clients, NEW from, NEW to, Book!Goes(c, from, to),
           NEW y \in Accounts, NEW h, holder' = [holder EXCEPT ![y] = h],
           order' = [order EXCEPT ![c] = order'[c]], balance' = balance,
           \A d \in Clients \ {c} : holder[y] # d /\ h # d,
           Keeps(c)', \A x \in Accounts : Holds(x, c)'
    PROVE  LocksFollowStages'
<1>1. /\ stage' = [stage EXCEPT ![c] = to] /\ stage \in [Clients -> Book!Stages]
      /\ order \in [Clients -> Book!Transfers] /\ DOMAIN holder = Accounts
  BY DEF Book!Goes, BookInv, Book!TypeOK
<1>2. ASSUME NEW d \in Clients \ {c} PROVE Keeps(d)' /\ \A x \in Accounts : Holds(x, d)'
  <2>1. stage'[d] = stage[d] /\ order'[d] = order[d]
    BY <1>1
  <2>2. Book!First(d)' = Book!First(d) /\ Book!Second(d)' = Book!Second(d)
    BY <2>1, OrderKept
  <2>3. \A x \in Accounts : holder[x] = d <=> holder'[x] = d
    BY <1>1
  <2>4. Keeps(d) /\ \A x \in Accounts : Holds(x, d)
    BY LocksFollow DEF BookInv
  <2>5. Keeps(d)'
    <3>1. stage[d] # "idle" => Book!First(d) \in Accounts /\ Book!Second(d) \in Accounts
      BY <2>4, TwoAccounts DEF Keeps, BookInv
    <3> QED BY <2>1, <2>2, <2>3, <2>4, <3>1 DEF Keeps, Inside
  <2>6. \A x \in Accounts : Holds(x, d)'
    BY <2>1, <2>2, <2>3, <2>4 DEF Holds, Inside
  <2> QED BY <2>5, <2>6
<1> QED BY <1>2, LocksFollow

\* A transfer that begins holds no lock and moves no money.
LEMMA CallTransferInv ==
    ASSUME BookInv, NEW c \in Clients, NEW o \in Book!Transfers, Book!CallTransfer(c, o)
    PROVE  BookInv'
<1>1. /\ Book!Goes(c, "idle", "first") /\ order' = [order EXCEPT ![c] = o] /\ o.src # o.dst
      /\ balance' = balance /\ holder' = holder
      /\ stage[c] = "idle" /\ stage' = [stage EXCEPT ![c] = "first"]
      /\ stage \in [Clients -> Book!Stages] /\ order \in [Clients -> Book!Transfers]
  BY DEF Book!CallTransfer, Book!Goes, BookInv, Book!TypeOK
<1>2. Book!TypeOK'
  BY <1>1 DEF BookInv, Book!TypeOK, Book!Stages
<1>3. ASSUME NEW d \in Clients, NEW x \in Accounts PROVE Keeps(d)' /\ Holds(x, d)'
  <2>1. Keeps(d) /\ Holds(x, d)
    BY LocksFollow DEF BookInv
  <2>2. CASE d = c
    <3>1. stage'[d] = "first" /\ stage[d] = "idle" /\ order'[d] = o
      BY <1>1, <2>2
    <3>2. holder[x] # d
      BY <2>1, <3>1 DEF Holds, Inside
    <3> QED BY <1>1, <3>1, <3>2 DEF Keeps, Holds, Inside
  <2>3. CASE d # c
    <3>1. stage'[d] = stage[d] /\ order'[d] = order[d]
      BY <1>1, <2>3
    <3>2. Book!First(d)' = Book!First(d) /\ Book!Second(d)' = Book!Second(d)
      BY <3>1, OrderKept
    <3> QED BY <1>1, <2>1, <3>1, <3>2 DEF Keeps, Holds, Inside
  <2> QED BY <2>2, <2>3
<1>4. LocksFollowStages'
  <2>1. Accounts # {}
    BY TierConstants DEF Book!LedgerConstants
  <2> QED BY <1>3, <2>1, LocksFollow
<1>5. Book!Moving' = Book!Moving
  <2>1. \A d \in Clients : Book!Moving[d]' = Book!Moving[d]
    BY <1>1 DEF Book!Moving
  <2> QED BY <2>1 DEF Book!Moving
<1>6. Book!MoneyIsConserved'
  BY <1>1, <1>5, MoneyIsMoney DEF BookInv
<1> QED BY <1>2, <1>4, <1>6 DEF BookInv

\* The lock of the lesser account is taken while it is free.
LEMMA TakeFirstInv ==
    ASSUME BookInv, NEW c \in Clients, Book!TakeFirst(c)
    PROVE  BookInv'
<1>1. /\ Book!Goes(c, "first", "second") /\ holder[Book!First(c)] = Nobody
      /\ holder' = [holder EXCEPT ![Book!First(c)] = c]
      /\ balance' = balance /\ order' = order
      /\ stage[c] = "first" /\ stage' = [stage EXCEPT ![c] = "second"]
      /\ stage \in [Clients -> Book!Stages] /\ order \in [Clients -> Book!Transfers]
      /\ holder \in [Accounts -> Clients \union {Nobody}] /\ Nobody \notin Clients
  BY TierConstants DEF Book!TakeFirst, Book!Take, Book!Goes, BookInv, Book!TypeOK, Book!LedgerConstants
<1>2. Book!TypeOK'
  BY <1>1 DEF BookInv, Book!TypeOK, Book!Stages
<1>3. Keeps(c) /\ \A x \in Accounts : Holds(x, c)
  BY LocksFollow DEF BookInv
<1>4. Book!First(c) \in Accounts /\ Book!First(c)' = Book!First(c) /\ Book!Second(c)' = Book!Second(c)
  BY <1>1, <1>3, TwoAccounts, OrderKept DEF Keeps, BookInv
<1>5. Keeps(c)' /\ \A x \in Accounts : Holds(x, c)'
  BY <1>1, <1>3, <1>4 DEF Keeps, Holds, Inside
<1>6. LocksFollowStages'
  BY <1>1, <1>4, <1>5, LocksMove
<1>7. Book!Moving' = Book!Moving
  <2>1. \A d \in Clients : Book!Moving[d]' = Book!Moving[d]
    BY <1>1 DEF Book!Moving
  <2> QED BY <2>1 DEF Book!Moving
<1>8. Book!MoneyIsConserved'
  BY <1>1, <1>7, MoneyIsMoney DEF BookInv
<1> QED BY <1>2, <1>6, <1>8 DEF BookInv

\* A client without a transfer has one that moves nothing.
LEMMA NoOrderIsOne == Book!NoOrder \in Book!Transfers
<1>1. PICK x \in Accounts, m \in Amounts : TRUE
  BY TierConstants DEF Book!LedgerConstants
<1>2. [src |-> x, dst |-> x, amount |-> m] \in Book!Transfers
  BY <1>1 DEF Book!Transfers
<1>3. \E o \in Book!Transfers : o.src = o.dst
  BY <1>2
<1> QED BY <1>3 DEF Book!NoOrder

\* A step that debits and credits nothing keeps the money where it is.
LEMMA MoneyStays ==
    ASSUME BookInv, NEW c \in Clients, NEW from, NEW to, Book!Goes(c, from, to),
           from # "credits", to # "credits", balance' = balance,
           order' = [order EXCEPT ![c] = order'[c]]
    PROVE  Book!MoneyIsConserved'
<1>1. /\ stage[c] = from /\ stage' = [stage EXCEPT ![c] = to] /\ stage \in [Clients -> Book!Stages]
      /\ order \in [Clients -> Book!Transfers]
  BY DEF Book!Goes, BookInv, Book!TypeOK
<1>2. \A d \in Clients : Book!Moving[d]' = Book!Moving[d]
  <2> TAKE d \in Clients
  <2>1. CASE d = c
    BY <1>1, <2>1 DEF Book!Moving
  <2>2. CASE d # c
    <3>1. stage'[d] = stage[d] /\ order'[d] = order[d]
      BY <1>1, <2>2
    <3> QED BY <3>1 DEF Book!Moving
  <2> QED BY <2>1, <2>2
<1>3. Book!Moving' = Book!Moving
  BY <1>2 DEF Book!Moving
<1> QED BY <1>3, MoneyIsMoney DEF BookInv

\* The lock of the greater account is taken by who holds the lesser.
LEMMA TakeSecondInv ==
    ASSUME BookInv, NEW c \in Clients, Book!TakeSecond(c)
    PROVE  BookInv'
<1>1. /\ Book!Goes(c, "second", "checks") /\ holder[Book!Second(c)] = Nobody
      /\ holder' = [holder EXCEPT ![Book!Second(c)] = c]
      /\ balance' = balance /\ order' = order
      /\ stage[c] = "second" /\ stage' = [stage EXCEPT ![c] = "checks"]
      /\ stage \in [Clients -> Book!Stages] /\ order \in [Clients -> Book!Transfers]
      /\ holder \in [Accounts -> Clients \union {Nobody}] /\ Nobody \notin Clients
  BY TierConstants DEF Book!TakeSecond, Book!Take, Book!Goes, BookInv, Book!TypeOK, Book!LedgerConstants
<1>2. Book!TypeOK'
  BY <1>1 DEF BookInv, Book!TypeOK, Book!Stages
<1>3. Keeps(c) /\ \A x \in Accounts : Holds(x, c)
  BY LocksFollow DEF BookInv
<1>4. /\ Book!First(c) \in Accounts /\ Book!Second(c) \in Accounts
      /\ Book!First(c)' = Book!First(c) /\ Book!Second(c)' = Book!Second(c)
  BY <1>1, <1>3, TwoAccounts, OrderKept DEF Keeps, BookInv
<1>5. Keeps(c)' /\ \A x \in Accounts : Holds(x, c)'
  BY <1>1, <1>3, <1>4 DEF Keeps, Holds, Inside
<1>6. LocksFollowStages'
  BY ZenonT(60), <1>1, <1>4, <1>5, LocksMove
<1>7. Book!MoneyIsConserved'
  BY <1>1, MoneyStays
<1> QED BY <1>2, <1>6, <1>7 DEF BookInv

\* The inner lock goes free when the transfer is through.
LEMMA UnlockSecondInv ==
    ASSUME BookInv, NEW c \in Clients, Book!UnlockSecond(c)
    PROVE  BookInv'
<1>1. /\ Book!Goes(c, "unlocks", "unlocks_first")
      /\ holder' = [holder EXCEPT ![Book!Second(c)] = Nobody]
      /\ balance' = balance /\ order' = order
      /\ stage[c] = "unlocks" /\ stage' = [stage EXCEPT ![c] = "unlocks_first"]
      /\ stage \in [Clients -> Book!Stages] /\ order \in [Clients -> Book!Transfers]
      /\ holder \in [Accounts -> Clients \union {Nobody}] /\ Nobody \notin Clients
  BY TierConstants DEF Book!UnlockSecond, Book!Goes, BookInv, Book!TypeOK, Book!LedgerConstants
<1>2. Book!TypeOK'
  BY <1>1 DEF BookInv, Book!TypeOK, Book!Stages
<1>3. Keeps(c) /\ \A x \in Accounts : Holds(x, c)
  BY LocksFollow DEF BookInv
<1>4. /\ Book!First(c) \in Accounts /\ Book!Second(c) \in Accounts /\ Book!First(c) # Book!Second(c)
      /\ Book!First(c)' = Book!First(c) /\ Book!Second(c)' = Book!Second(c)
      /\ \A x \in Accounts : x < x => FALSE
  <2>1. order[c].src # order[c].dst
    BY <1>1, <1>3 DEF Keeps
  <2>2. Book!First(c) \in Int /\ Book!Second(c) \in Int
    BY <2>1, TwoAccounts, TierConstants DEF BookInv, Book!LedgerConstants
  <2>3. \A x \in Int : ~(x < x)
    OBVIOUS
  <2>4. Accounts \subseteq Int
    BY TierConstants DEF Book!LedgerConstants
  <2> QED BY <1>1, <2>1, <2>2, <2>3, <2>4, TwoAccounts, OrderKept DEF BookInv
<1>5. Keeps(c)' /\ \A x \in Accounts : Holds(x, c)'
  BY <1>1, <1>3, <1>4 DEF Keeps, Holds, Inside
<1>6. \A d \in Clients \ {c} : holder[Book!Second(c)] # d /\ Nobody # d
  BY <1>1, <1>3 DEF Keeps, Inside
<1>7. LocksFollowStages'
  BY ZenonT(60), <1>1, <1>4, <1>5, <1>6, LocksMove
<1>8. Book!MoneyIsConserved'
  BY <1>1, MoneyStays
<1> QED BY <1>2, <1>7, <1>8 DEF BookInv

\* The outer lock goes free after the inner one.
LEMMA UnlockFirstInv ==
    ASSUME BookInv, NEW c \in Clients, Book!UnlockFirst(c)
    PROVE  BookInv'
<1>1. /\ Book!Goes(c, "unlocks_first", "idle")
      /\ holder' = [holder EXCEPT ![Book!First(c)] = Nobody]
      /\ balance' = balance /\ order' = [order EXCEPT ![c] = Book!NoOrder]
      /\ stage[c] = "unlocks_first" /\ stage' = [stage EXCEPT ![c] = "idle"]
      /\ stage \in [Clients -> Book!Stages] /\ order \in [Clients -> Book!Transfers]
      /\ holder \in [Accounts -> Clients \union {Nobody}] /\ Nobody \notin Clients
  BY TierConstants DEF Book!UnlockFirst, Book!Goes, BookInv, Book!TypeOK, Book!LedgerConstants
<1>2. Book!TypeOK'
  BY <1>1, NoOrderIsOne DEF BookInv, Book!TypeOK, Book!Stages
<1>3. Keeps(c) /\ \A x \in Accounts : Holds(x, c)
  BY LocksFollow DEF BookInv
<1>4. Book!First(c) \in Accounts /\ holder[Book!First(c)] = c
  BY <1>1, <1>3, TwoAccounts DEF Keeps, BookInv
<1>5. \A x \in Accounts : holder'[x] # c
  <2> TAKE x \in Accounts
  <2>1. CASE x = Book!First(c)
    BY <1>1, <1>4, <2>1
  <2>2. CASE x # Book!First(c)
    BY <1>1, <1>3, <2>2 DEF Holds, Inside
  <2> QED BY <2>1, <2>2
<1>6. Keeps(c)' /\ \A x \in Accounts : Holds(x, c)'
  <2>1. stage'[c] = "idle"
    BY <1>1
  <2> QED BY <1>5, <2>1 DEF Keeps, Holds, Inside
<1>7. order' = [order EXCEPT ![c] = order'[c]]
  BY <1>1
<1>8. \A d \in Clients \ {c} : holder[Book!First(c)] # d /\ Nobody # d
  BY <1>1, <1>4
<1>9. LocksFollowStages'
  BY ZenonT(60), <1>1, <1>4, <1>6, <1>7, <1>8, LocksMove
<1>10. Book!MoneyIsConserved'
  BY <1>1, <1>7, MoneyStays
<1> QED BY <1>2, <1>9, <1>10 DEF BookInv

\* Who holds both locks finds a balance that no other changes.
LEMMA CheckBalanceInv ==
    ASSUME BookInv, NEW c \in Clients, Book!CheckBalance(c)
    PROVE  BookInv'
<1> DEFINE to == IF balance[order[c].src] < order[c].amount THEN "unlocks" ELSE "debits"
<1>1. /\ Book!Goes(c, "checks", to)
      /\ balance' = balance /\ order' = order /\ holder' = holder
      /\ stage[c] = "checks" /\ stage' = [stage EXCEPT ![c] = to]
      /\ stage \in [Clients -> Book!Stages] /\ order \in [Clients -> Book!Transfers]
  BY DEF Book!CheckBalance, Book!Goes, BookInv, Book!TypeOK
<1>2. to \in {"unlocks", "debits"}
  OBVIOUS
<1>3. Book!TypeOK'
  BY <1>1, <1>2 DEF BookInv, Book!TypeOK, Book!Stages
<1>4. to = "debits" => balance'[order[c].src] >= order[c].amount
  <2>1. /\ order[c] \in Book!Transfers /\ Accounts \subseteq Int /\ Amounts \subseteq Nat
        /\ balance \in [Accounts -> Int]
    BY <1>1, TierConstants DEF Book!LedgerConstants, BookInv, Book!TypeOK
  <2>2. balance[order[c].src] \in Int /\ order[c].amount \in Int
    BY <2>1 DEF Book!Transfers
  <2> QED BY <1>1, <2>2
<1> HIDE DEF to
<1>5. LocksFollowStages'
  BY <1>1, <1>2, <1>3, <1>4, LocksStay
<1>6. Book!MoneyIsConserved'
  <2>1. order' = [order EXCEPT ![c] = order'[c]] /\ to # "credits"
    BY <1>1, <1>2
  <2> QED BY <1>1, <2>1, MoneyStays
<1> QED BY <1>3, <1>5, <1>6 DEF BookInv

\* The fields of an order.
LEMMA OrderFields ==
    ASSUME Book!TypeOK, NEW c \in Clients
    PROVE  /\ order[c].src \in Accounts /\ order[c].dst \in Accounts
           /\ order[c].amount \in Nat /\ order[c].amount > 0
<1>1. order[c] \in Book!Transfers /\ Amounts \subseteq Nat \ {0}
  BY TierConstants DEF Book!TypeOK, Book!LedgerConstants
<1>2. order[c].amount \in Amounts /\ order[c].src \in Accounts /\ order[c].dst \in Accounts
  BY <1>1 DEF Book!Transfers
<1>3. order[c].amount \in Nat \ {0}
  BY <1>1, <1>2
<1>4. \A n \in Nat \ {0} : n > 0
  OBVIOUS
<1> QED BY <1>2, <1>3, <1>4

\* What a client has in its hands is an integer.
LEMMA MovingType ==
    ASSUME Book!TypeOK
    PROVE  Book!Moving \in [Clients -> Int] /\ Book!Moving = [c \in Clients |-> Book!Moving[c]]
BY OrderFields DEF Book!Moving

\* What is debited is counted as in flight.
LEMMA DebitInv ==
    ASSUME BookInv, NEW c \in Clients, Book!Debit(c)
    PROVE  BookInv'
<1> DEFINE src == order[c].src
           amount == order[c].amount
<1>1. /\ Book!Goes(c, "debits", "credits")
      /\ balance' = [balance EXCEPT ![src] = balance[src] - amount]
      /\ order' = order /\ holder' = holder
      /\ stage[c] = "debits" /\ stage' = [stage EXCEPT ![c] = "credits"]
      /\ stage \in [Clients -> Book!Stages] /\ order \in [Clients -> Book!Transfers]
      /\ balance \in [Accounts -> Int]
  BY DEF Book!Debit, Book!Goes, BookInv, Book!TypeOK
<1>2. src \in Accounts /\ amount \in Nat /\ balance[src] \in Int /\ balance[src] >= amount
  <2>1. Keeps(c)
    BY LocksFollow DEF BookInv
  <2> QED BY <1>1, <2>1, OrderFields DEF BookInv, Keeps
<1> HIDE DEF src, amount
<1>3. Book!TypeOK'
  BY <1>1, <1>2 DEF BookInv, Book!TypeOK, Book!Stages
<1>4. LocksFollowStages'
  <2>1. \A x \in Accounts \ {order[c].src, order[c].dst} : balance'[x] = balance[x]
    BY <1>1 DEF src
  <2> QED BY <1>1, <1>3, <2>1, LocksStay
<1>5. Book!Moving' = [Book!Moving EXCEPT ![c] = Book!Moving[c] - (0 - amount)]
  <2>1. Book!Moving = [d \in Clients |-> IF stage[d] = "credits" THEN order[d].amount ELSE 0]
    BY DEF Book!Moving
  <2>2. Book!Moving' = [d \in Clients |-> IF stage'[d] = "credits" THEN order[d].amount ELSE 0]
    BY <1>1 DEF Book!Moving
  <2>3. Book!Moving[c] = 0 /\ 0 - (0 - amount) = amount
    BY <1>1, <1>2, <2>1
  <2> QED BY <1>1, <2>1, <2>2, <2>3 DEF amount
<1>6. MoneySums(balance, Book!Moving) /\ Book!Moving \in [Clients -> Int]
  BY MoneyIsMoney, MovingType DEF BookInv
<1>7. balance[src] + (0 - amount) = balance[src] - amount /\ balance[src] + (0 - amount) >= 0
      /\ 0 - amount \in Int
  BY <1>2
<1>8. MoneySums(balance', Book!Moving')
  BY <1>1, <1>2, <1>5, <1>6, <1>7, MoneyMoves
<1> QED BY <1>3, <1>4, <1>8, MoneyIsMoney DEF BookInv

\* What is credited was in flight.
LEMMA CreditInv ==
    ASSUME BookInv, NEW c \in Clients, Book!Credit(c)
    PROVE  BookInv'
<1> DEFINE dst == order[c].dst
           amount == order[c].amount
<1>1. /\ Book!Goes(c, "credits", "unlocks")
      /\ balance' = [balance EXCEPT ![dst] = balance[dst] + amount]
      /\ order' = order /\ holder' = holder
      /\ stage[c] = "credits" /\ stage' = [stage EXCEPT ![c] = "unlocks"]
      /\ stage \in [Clients -> Book!Stages] /\ order \in [Clients -> Book!Transfers]
      /\ balance \in [Accounts -> Int]
  BY DEF Book!Credit, Book!Goes, BookInv, Book!TypeOK
<1>2. dst \in Accounts /\ amount \in Nat /\ balance[dst] \in Int
  BY <1>1, OrderFields DEF BookInv
<1> HIDE DEF dst, amount
<1>3. Book!TypeOK'
  BY <1>1, <1>2 DEF BookInv, Book!TypeOK, Book!Stages
<1>4. LocksFollowStages'
  <2>1. \A x \in Accounts \ {order[c].src, order[c].dst} : balance'[x] = balance[x]
    BY <1>1 DEF dst
  <2> QED BY <1>1, <1>3, <2>1, LocksStay
<1>5. Book!Moving' = [Book!Moving EXCEPT ![c] = Book!Moving[c] - amount]
  <2>1. Book!Moving = [d \in Clients |-> IF stage[d] = "credits" THEN order[d].amount ELSE 0]
    BY DEF Book!Moving
  <2>2. Book!Moving' = [d \in Clients |-> IF stage'[d] = "credits" THEN order[d].amount ELSE 0]
    BY <1>1 DEF Book!Moving
  <2>3. Book!Moving[c] = amount /\ amount - amount = 0
    BY <1>1, <1>2, <2>1 DEF amount
  <2> QED BY <1>1, <2>1, <2>2, <2>3
<1>6. MoneySums(balance, Book!Moving) /\ Book!Moving \in [Clients -> Int]
  BY MoneyIsMoney, MovingType DEF BookInv
<1>7. balance[dst] + amount >= 0 /\ amount \in Int
  BY <1>2, <1>6 DEF MoneySums
<1>8. MoneySums(balance', Book!Moving')
  BY <1>1, <1>2, <1>5, <1>6, <1>7, MoneyMoves
<1> QED BY <1>3, <1>4, <1>8, MoneyIsMoney DEF BookInv

\* Before the first transfer all the money is in the accounts.
LEMMA BookInitInv == Book!Init => BookInv
<1> SUFFICES ASSUME Book!Init PROVE BookInv
  OBVIOUS
<1>1. /\ balance = Opening /\ Opening \in [Accounts -> Nat] /\ Nobody \notin Clients
      /\ holder = [x \in Accounts |-> Nobody] /\ stage = [c \in Clients |-> "idle"]
      /\ order = [c \in Clients |-> Book!NoOrder]
      /\ IsFiniteSet(Accounts) /\ IsFiniteSet(Clients)
  BY TierConstants DEF Book!Init, Book!LedgerConstants, Book!IsFiniteSet, IsFiniteSet
<1>2. Book!TypeOK
  BY <1>1, NoOrderIsOne DEF Book!TypeOK, Book!Stages
<1>3. LocksFollowStages
  BY <1>1 DEF LocksFollowStages, Inside
<1>4. MoneySums(balance, Book!Moving)
  <2>1. \A c \in Clients : Book!Moving[c] = 0
    BY <1>1 DEF Book!Moving
  <2>2. SumOf(Book!Moving, Clients) = 0
    BY <1>1, <2>1, SumZero
  <2>3. SumOf(Opening, Accounts) \in Int
    BY <1>1, SumType
  <2> QED BY <1>1, <2>2, <2>3 DEF MoneySums
<1> QED BY <1>2, <1>3, <1>4, MoneyIsMoney DEF BookInv

\* Some number of a finite set is the greatest.
LEMMA Greatest ==
    ASSUME NEW S, IsFiniteSet(S), S \subseteq Int, S # {}
    PROVE  \E x \in S : \A y \in S : y <= x
<1> DEFINE Over(x) == {y \in S : y > x}
           C == {Over(x) : x \in S}
<1>1. C \in SUBSET (SUBSET S) /\ C # {}
  OBVIOUS
<1>2. PICK T \in C : \A U \in C : U \subseteq T => U = T
  <2> HIDE DEF C, Over
  <2> QED BY ONLY <1>1, Smallest, IsFiniteSet(S)
<1>3. PICK x \in S : T = Over(x)
  BY <1>2
<1>4. ASSUME NEW y \in S, ~(y <= x) PROVE FALSE
  <2>1. x \in Int /\ y \in Int /\ y > x
    BY <1>4
  <2>2. y \in T /\ y \notin Over(y)
    BY <1>3, <2>1
  <2>3. Over(y) \subseteq T
    <3>1. \A z \in S : z > y => z > x
      BY <2>1, S \subseteq Int
    <3> QED BY <1>3, <3>1
  <2>4. Over(y) \in C
    OBVIOUS
  <2> QED BY <1>2, <2>2, <2>3, <2>4
<1> QED BY <1>4

\* The locks are taken in the order of the accounts: of the clients that wait
\* for a second lock, the one that holds the greatest account can go on.
LEMMA SomebodyGoes == BookInv => Book!SomebodyGoesOn
<1> SUFFICES ASSUME BookInv, NEW e \in Clients, stage[e] # "idle",
                    \A c \in Clients :
                       /\ stage[c] = "first" => holder[Book!First(c)] # Nobody
                       /\ stage[c] = "second" => holder[Book!Second(c)] # Nobody
                       /\ stage[c] \in {"idle", "first", "second"}
             PROVE  FALSE
  BY DEF Book!SomebodyGoesOn
<1>1. \A c \in Clients : Keeps(c) /\ \A x \in Accounts : Holds(x, c)
  BY LocksFollow DEF BookInv
<1>2. \A x \in Accounts : holder[x] # Nobody => holder[x] \in Clients
  BY DEF BookInv, Book!TypeOK
<1>3. \A c \in Clients : stage[c] # "idle" =>
        /\ Book!First(c) \in Accounts /\ Book!Second(c) \in Accounts /\ Book!First(c) < Book!Second(c)
  BY <1>1, TwoAccounts DEF Keeps, BookInv
<1>4. ASSUME NEW x \in Accounts, holder[x] # Nobody
      PROVE  \E c \in Clients : stage[c] = "second" /\ Book!First(c) = x
  BY <1>1, <1>2, <1>4 DEF Holds, Inside
<1>5. \E c \in Clients : stage[c] = "second"
  <2>1. CASE stage[e] = "second"
    BY <2>1
  <2>2. CASE stage[e] # "second"
    BY <2>2, <1>3, <1>4
  <2> QED BY <2>1, <2>2
<1> DEFINE Waited == {Book!First(c) : c \in {d \in Clients : stage[d] = "second"}}
<1>6. Waited \subseteq Accounts /\ Waited # {}
  BY <1>3, <1>5
<1>7. IsFiniteSet(Accounts) /\ Accounts \subseteq Int
  BY TierConstants DEF Book!LedgerConstants, Book!IsFiniteSet, IsFiniteSet
<1>8. PICK x \in Waited : \A y \in Waited : y <= x
  <2> HIDE DEF Waited
  <2>1. IsFiniteSet(Waited) /\ Waited \subseteq Int
    BY <1>6, <1>7, FS_Subset
  <2> QED BY <1>6, <2>1, Greatest
<1>9. PICK c \in Clients : stage[c] = "second" /\ Book!First(c) = x
  BY <1>8
<1>10. PICK d \in Clients : stage[d] = "second" /\ Book!First(d) = Book!Second(c)
  BY <1>3, <1>4, <1>9
<1>11. Book!Second(c) <= x /\ x < Book!Second(c) /\ x \in Int /\ Book!Second(c) \in Int
  BY <1>3, <1>7, <1>8, <1>9, <1>10
<1> QED BY <1>11

\* The whole invariant of the ledger.
LEMMA BookInductive == BookInv /\ [Book!Next]_(Book!vars) => BookInv'
<1> SUFFICES ASSUME BookInv, [Book!Next]_(Book!vars) PROVE BookInv'
  OBVIOUS
<1>1. CASE UNCHANGED Book!vars
  <2>1. balance' = balance /\ holder' = holder /\ stage' = stage /\ order' = order
    BY <1>1 DEF Book!vars
  <2>2. Book!Moving' = Book!Moving
    BY <2>1 DEF Book!Moving
  <2>3. Book!MoneyIsConserved'
    BY <2>1, <2>2, MoneyIsMoney DEF BookInv
  <2>4. Book!TypeOK'
    BY <2>1 DEF BookInv, Book!TypeOK
  <2>5. LocksFollowStages'
    <3>1. \A c \in Clients : Keeps(c) /\ \A x \in Accounts : Holds(x, c)
      BY LocksFollow DEF BookInv
    <3>2. ASSUME NEW c \in Clients PROVE Keeps(c)' /\ \A x \in Accounts : Holds(x, c)'
      <4>1. Book!First(c)' = Book!First(c) /\ Book!Second(c)' = Book!Second(c)
        BY <2>1, OrderKept
      <4> QED BY <2>1, <3>1, <4>1 DEF Keeps, Holds, Inside
    <3> QED BY <3>2, LocksFollow
  <2> QED BY <2>3, <2>4, <2>5 DEF BookInv
<1>2. CASE Book!Next
  <2>1. PICK c \in Clients : Book!Transfer(c) \/ \E o \in Book!Transfers : Book!CallTransfer(c, o)
    BY <1>2 DEF Book!Next
  <2> QED BY <2>1, CallTransferInv, TakeFirstInv, TakeSecondInv, CheckBalanceInv, DebitInv,
             CreditInv, UnlockSecondInv, UnlockFirstInv DEF Book!Transfer
<1> QED BY <1>1, <1>2
-----------------------------------------------------------------------------
(* The freelist *)

Pooled(p) == {p[i] : i \in 1 .. Len(p)}

\* The freelist holds, each once, the ids that were minted and are not in use.
FreelistInv ==
    /\ Freelist!TypeOK
    /\ \A i, j \in 1 .. Len(pool) : pool[i] = pool[j] => i = j
    /\ Pooled(pool) \intersect in_use = {}
    /\ Pooled(pool) \union in_use = 0 .. max_seen - 1

\* Taking the first and putting one behind the last.
LEMMA PoolEnds ==
    ASSUME NEW S, NEW p \in Seq(S)
    PROVE  /\ p # <<>> => /\ Head(p) = p[1] /\ Tail(p) \in Seq(S) /\ Len(Tail(p)) = Len(p) - 1
                          /\ Len(p) > 0
                          /\ \A i \in 1 .. Len(p) - 1 : Tail(p)[i] = p[i + 1]
           /\ \A x \in S : /\ Append(p, x) \in Seq(S) /\ Len(Append(p, x)) = Len(p) + 1
                           /\ Append(p, x)[Len(p) + 1] = x
                           /\ \A i \in 1 .. Len(p) : Append(p, x)[i] = p[i]
OBVIOUS

\* An id that is reused was released, and leaves the pool.
LEMMA ReuseKeeps ==
    ASSUME FreelistInv, Freelist!Reuse
    PROVE  FreelistInv' /\ Freelist!Promise!Allocate(Head(pool))
<1>1. /\ pool \in Seq(Freelist!Ids) /\ pool # <<>> /\ pool' = Tail(pool) /\ max_seen' = max_seen
      /\ in_use' = in_use \union {Head(pool)} /\ freelist_answer' = Head(pool)
      /\ in_use \subseteq Freelist!Ids /\ max_seen \in 0 .. freelist_max_id
  BY DEF FreelistInv, Freelist!TypeOK, Freelist!Reuse
<1>2. PICK n : n = Len(pool) /\ n \in Nat
  BY <1>1
<1>3. /\ Head(pool) = pool[1] /\ Tail(pool) \in Seq(Freelist!Ids) /\ Len(Tail(pool)) = n - 1
      /\ n > 0 /\ \A i \in 1 .. n - 1 : Tail(pool)[i] = pool[i + 1]
  BY <1>1, <1>2, PoolEnds
<1>4. pool[1] \in Freelist!Ids /\ pool[1] \notin in_use
  BY <1>1, <1>2, <1>3 DEF FreelistInv, Pooled
<1>5. Pooled(pool') = Pooled(pool) \ {pool[1]}
  <2>1. ASSUME NEW i \in 1 .. n - 1 PROVE pool'[i] \in Pooled(pool) /\ pool'[i] # pool[1]
    <3>1. i + 1 \in 1 .. n /\ i + 1 # 1 /\ 1 \in 1 .. n
      BY <1>2, <1>3
    <3> QED BY <1>1, <1>2, <1>3, <3>1 DEF Pooled, FreelistInv
  <2>2. ASSUME NEW i \in 1 .. n, pool[i] # pool[1] PROVE pool[i] \in Pooled(pool')
    <3>1. i - 1 \in 1 .. n - 1 /\ (i - 1) + 1 = i
      BY <1>2, <2>2
    <3>2. pool'[i - 1] = pool[i]
      BY <1>1, <1>3, <3>1
    <3> QED BY <1>1, <1>3, <3>1, <3>2 DEF Pooled
  <2> QED BY <1>1, <1>2, <1>3, <2>1, <2>2 DEF Pooled
<1>6. \A i, j \in 1 .. Len(pool') : pool'[i] = pool'[j] => i = j
  <2>1. Len(pool') = n - 1
    BY <1>1, <1>3
  <2>2. ASSUME NEW i \in 1 .. n - 1, NEW j \in 1 .. n - 1, pool'[i] = pool'[j] PROVE i = j
    <3>1. i + 1 \in 1 .. n /\ j + 1 \in 1 .. n
      BY <1>2
    <3>2. pool[i + 1] = pool[j + 1]
      BY <1>1, <1>3, <2>2
    <3>3. i + 1 = j + 1
      BY <1>2, <3>1, <3>2 DEF FreelistInv
    <3> QED BY <3>3
  <2> QED BY <2>1, <2>2
<1>7. pool[1] \in Pooled(pool)
  BY <1>2, <1>3 DEF Pooled
<1>8. FreelistInv'
  <2>1. Freelist!TypeOK'
    BY <1>1, <1>3, <1>4 DEF Freelist!TypeOK
  <2> QED BY <1>1, <1>3, <1>5, <1>6, <1>7, <2>1 DEF FreelistInv
<1>9. Freelist!Promise!Allocate(Head(pool))
  BY <1>1, <1>3, <1>4 DEF Freelist!Promise!Allocate, Freelist!Ids, Freelist!Promise!Ids
<1> QED BY <1>8, <1>9

\* A fresh id is the next number, and neither in use nor released.
LEMMA MintKeeps ==
    ASSUME FreelistInv, Freelist!Mint, freelist_max_id \in Nat
    PROVE  FreelistInv' /\ Freelist!Promise!Allocate(max_seen)
<1>1. /\ pool = <<>> /\ pool' = <<>> /\ max_seen < freelist_max_id /\ max_seen' = max_seen + 1
      /\ in_use' = in_use \union {max_seen} /\ freelist_answer' = max_seen
      /\ in_use \subseteq Freelist!Ids /\ max_seen \in Nat /\ pool' = pool
  BY DEF FreelistInv, Freelist!TypeOK, Freelist!Mint
<1>2. Pooled(pool) = {}
  BY <1>1 DEF Pooled
<1>3. in_use = 0 .. max_seen - 1
  BY <1>2 DEF FreelistInv
<1>4. max_seen \in Freelist!Ids /\ max_seen \notin in_use
  BY <1>1, <1>3 DEF Freelist!Ids
<1>5. in_use' = 0 .. max_seen' - 1
  BY <1>1, <1>3
<1>6. Pooled(pool') = {} /\ \A i, j \in 1 .. Len(pool') : pool'[i] = pool'[j] => i = j
  BY <1>1, <1>2
<1>7. Freelist!TypeOK'
  BY <1>1, <1>4 DEF Freelist!TypeOK, FreelistInv
<1>8. FreelistInv'
  BY <1>5, <1>6, <1>7 DEF FreelistInv
<1>9. Freelist!Promise!Allocate(max_seen)
  BY <1>1, <1>4 DEF Freelist!Promise!Allocate, Freelist!Ids, Freelist!Promise!Ids
<1> QED BY <1>8, <1>9

\* None is answered only when every id is in use.
LEMMA ExhaustedKeeps ==
    ASSUME FreelistInv, Freelist!Exhausted, freelist_max_id \in Nat
    PROVE  FreelistInv' /\ Freelist!Promise!Exhausted
<1>1. /\ pool = <<>> /\ pool' = pool /\ max_seen >= freelist_max_id /\ max_seen' = max_seen
      /\ in_use' = in_use /\ freelist_answer' = Freelist!None
      /\ in_use \subseteq Freelist!Ids /\ max_seen \in 0 .. freelist_max_id
  BY DEF FreelistInv, Freelist!TypeOK, Freelist!Exhausted
<1>2. Pooled(pool) = {}
  BY <1>1 DEF Pooled
<1>3. in_use = 0 .. max_seen - 1
  BY <1>2 DEF FreelistInv
<1>4. FreelistInv'
  BY <1>1 DEF FreelistInv, Freelist!TypeOK, Pooled
<1>5. Freelist!Promise!Exhausted
  <2>1. max_seen = freelist_max_id
    BY <1>1
  <2> QED BY <1>1, <1>3, <2>1 DEF Freelist!Promise!Exhausted, Freelist!Promise!Ids, Freelist!None,
                 Freelist!Promise!None
<1> QED BY <1>4, <1>5

\* A released id goes behind the others, and was not among them.
LEMMA ReleaseKeeps ==
    ASSUME FreelistInv, NEW id \in Freelist!Ids, Freelist!Release(id)
    PROVE  FreelistInv' /\ Freelist!Promise!Release(id)
<1>1. /\ pool \in Seq(Freelist!Ids) /\ pool' = Append(pool, id) /\ max_seen' = max_seen
      /\ id \in in_use /\ in_use' = in_use \ {id} /\ freelist_answer' = freelist_answer
      /\ in_use \subseteq Freelist!Ids /\ max_seen \in 0 .. freelist_max_id
  BY DEF FreelistInv, Freelist!TypeOK, Freelist!Release
<1>2. PICK n : n = Len(pool) /\ n \in Nat
  BY <1>1
<1>3. /\ pool' \in Seq(Freelist!Ids) /\ Len(pool') = n + 1 /\ pool'[n + 1] = id
      /\ \A i \in 1 .. n : pool'[i] = pool[i]
  BY <1>1, <1>2, PoolEnds
<1>4. \A i \in 1 .. n + 1 : i = n + 1 \/ i \in 1 .. n
  BY <1>2
<1>5. n + 1 \in 1 .. n + 1 /\ 1 .. n \subseteq 1 .. n + 1
  BY <1>2
<1>6. Pooled(pool') = Pooled(pool) \union {id}
  BY <1>2, <1>3, <1>4, <1>5 DEF Pooled
<1>7. \A i \in 1 .. n : pool[i] # id
  BY <1>1, <1>2 DEF FreelistInv, Pooled
<1>8. ASSUME NEW i \in 1 .. n + 1, NEW j \in 1 .. n + 1, pool'[i] = pool'[j] PROVE i = j
  BY <1>2, <1>3, <1>4, <1>7, <1>8 DEF FreelistInv
<1>9. Freelist!TypeOK'
  BY <1>1, <1>3 DEF Freelist!TypeOK, FreelistInv
<1>10. Pooled(pool') \intersect in_use' = {} /\ Pooled(pool') \union in_use' = 0 .. max_seen - 1
  BY <1>1, <1>6 DEF FreelistInv
<1>11. FreelistInv'
  BY <1>1, <1>3, <1>8, <1>9, <1>10 DEF FreelistInv
<1>12. Freelist!Promise!Release(id)
  BY <1>1 DEF Freelist!Promise!Release
<1> QED BY <1>11, <1>12

\* Every step of the freelist keeps its invariant and is one of a set of ids.
LEMMA FreelistStepsPromise ==
    ASSUME Freelist!AllocatorConstants, FreelistInv, [Freelist!Next]_(Freelist!vars)
    PROVE  FreelistInv' /\ [Freelist!Promise!Next]_(Freelist!Promise!vars)
<1> freelist_max_id \in Nat
  BY DEF Freelist!AllocatorConstants
<1>1. CASE Freelist!Reuse
  <2>1. pool[1] \in Freelist!Ids /\ Head(pool) = pool[1]
    BY <1>1, PoolEnds DEF Freelist!Reuse, FreelistInv, Freelist!TypeOK
  <2> QED BY <1>1, <2>1, ReuseKeeps DEF Freelist!Promise!Next, Freelist!Promise!Ids, Freelist!Ids
<1>2. CASE Freelist!Mint
  <2>1. max_seen \in Freelist!Ids
    BY <1>2, MintKeeps DEF Freelist!Promise!Allocate, Freelist!Promise!Ids, Freelist!Ids
  <2> QED BY <1>2, <2>1, MintKeeps DEF Freelist!Promise!Next, Freelist!Promise!Ids, Freelist!Ids
<1>3. CASE Freelist!Exhausted
  BY <1>3, ExhaustedKeeps DEF Freelist!Promise!Next
<1>4. ASSUME NEW id \in Freelist!Ids, Freelist!Release(id)
      PROVE  FreelistInv' /\ [Freelist!Promise!Next]_(Freelist!Promise!vars)
  BY <1>4, ReleaseKeeps DEF Freelist!Promise!Next, Freelist!Promise!Ids, Freelist!Ids
<1>5. CASE UNCHANGED Freelist!vars
  BY <1>5 DEF FreelistInv, Freelist!TypeOK, Freelist!vars, Freelist!Promise!vars, Pooled
<1> QED BY <1>1, <1>2, <1>3, <1>4, <1>5 DEF Freelist!Next

\* The freelist starts with nothing minted.
LEMMA FreelistStarts ==
    ASSUME Freelist!AllocatorConstants, Freelist!Init
    PROVE  FreelistInv /\ Freelist!Promise!Init
<1>1. freelist_max_id \in Nat /\ pool = <<>> /\ in_use = {} /\ max_seen = 0 /\ freelist_answer = -1
  BY DEF Freelist!AllocatorConstants, Freelist!Init, Freelist!None
<1>2. Pooled(pool) = {} /\ Len(pool) = 0
  BY <1>1 DEF Pooled
<1>3. Freelist!TypeOK
  BY <1>1 DEF Freelist!TypeOK, Freelist!None
<1>4. 0 .. max_seen - 1 = {} /\ 1 .. Len(pool) = {}
  BY <1>1, <1>2
<1> QED BY <1>1, <1>2, <1>3, <1>4 DEF FreelistInv, Freelist!Promise!Init, Freelist!Promise!None
-----------------------------------------------------------------------------
(* The versioned set with collection *)

\* A collection at a horizon keeps the order of a history, and what every
\* version from the horizon on reads.
LEMMA KeptReads ==
    ASSUME NEW h \in Seq(Record), version \in Nat, Ordered(h), NEW horizon \in Nat
    PROVE  /\ Kept(h, horizon) \in Seq(Record)
           /\ Ordered(Kept(h, horizon))
           /\ Kept(h, horizon) = <<>> <=> h = <<>>
           /\ h # <<>> => Kept(h, horizon)[Len(Kept(h, horizon))] = h[Len(h)]
           /\ \A v \in Nat : v >= horizon =>
                (PresentAt(Kept(h, horizon), v) <=> PresentAt(h, v))
<1>1. CASE \E i \in 1 .. Len(h) : Last(h, horizon, i)
  <2>1. PICK i \in 1 .. Len(h) : Last(h, horizon, i) /\ Kept(h, horizon) = SubSeq(h, i, Len(h))
    BY <1>1 DEF Kept
  <2> DEFINE k == SubSeq(h, i, Len(h))
  <2>2. /\ k \in Seq(Record) /\ Len(k) = Len(h) - i + 1
        /\ Len(k) \in Nat /\ Len(h) \in Nat /\ i \in Nat
        /\ \A j \in 1 .. Len(k) : j + i - 1 \in 1 .. Len(h) /\ k[j] = h[j + i - 1]
    OBVIOUS
  <2> HIDE DEF k
  <2>3. Ordered(k)
    <3>1. ASSUME NEW m \in 1 .. Len(k), NEW n \in 1 .. Len(k), m < n
          PROVE  k[m].version < k[n].version
      <4>1. m + i - 1 < n + i - 1
        BY <2>2, <3>1
      <4> QED BY <2>2, <4>1 DEF Ordered
    <3>2. \A m \in 1 .. Len(k) : k[m].version <= version
      BY <2>2 DEF Ordered
    <3> QED BY <3>1, <3>2 DEF Ordered
  <2>4. k # <<>> /\ h # <<>> /\ k[Len(k)] = h[Len(h)]
    BY <2>1, <2>2
  <2>5. ASSUME NEW v \in Nat, v >= horizon
        PROVE  PresentAt(k, v) <=> PresentAt(h, v)
    <3>1. ASSUME NEW j \in 1 .. Len(k), Last(k, v, j), k[j].present
          PROVE  PresentAt(h, v)
      <4>1. j + i - 1 \in 1 .. Len(h) /\ h[j + i - 1] = k[j]
        BY <2>2
      <4>2. ASSUME NEW l \in 1 .. Len(h), l > j + i - 1
            PROVE  h[l].version > v
        <5>1. l - i + 1 \in 1 .. Len(k) /\ l - i + 1 > j /\ k[l - i + 1] = h[l]
          BY <2>1, <2>2, <4>2
        <5> QED BY <3>1, <5>1 DEF Last
      <4> QED BY <3>1, <4>1, <4>2 DEF Last, PresentAt
    <3>2. ASSUME NEW j \in 1 .. Len(h), Last(h, v, j), h[j].present
          PROVE  PresentAt(k, v)
      <4>1. j >= i
        BY <2>1, <2>5, <3>2, Fields DEF Last
      <4>2. j - i + 1 \in 1 .. Len(k) /\ k[j - i + 1] = h[j]
        BY SMTT(30), <2>1, <2>2, <4>1
      <4>3. ASSUME NEW l \in 1 .. Len(k), l > j - i + 1
            PROVE  k[l].version > v
        <5>1. l + i - 1 \in 1 .. Len(h) /\ l + i - 1 > j /\ k[l] = h[l + i - 1]
          BY SMTT(30), <2>1, <2>2, <4>3
        <5> QED BY <3>2, <5>1 DEF Last
      <4> QED BY <3>2, <4>2, <4>3 DEF Last, PresentAt
    <3> QED BY <3>1, <3>2 DEF PresentAt
  <2> QED BY <2>1, <2>2, <2>3, <2>4, <2>5 DEF k
<1>2. CASE ~\E i \in 1 .. Len(h) : Last(h, horizon, i)
  BY <1>2 DEF Kept
<1> QED BY <1>1, <1>2

\* Dropping the single "absent" record changes nothing that is read.
LEMMA CollectedReads ==
    ASSUME NEW x, NEW h \in Seq(Record), Ordered(h),
           x \in live <=> h # <<>> /\ h[Len(h)].present
    PROVE  /\ Collected(x, h) \in Seq(Record)
           /\ Ordered(Collected(x, h))
           /\ LET c == Collected(x, h) IN x \in live <=> c # <<>> /\ c[Len(c)].present
           /\ \A v \in Nat : PresentAt(Collected(x, h), v) <=> PresentAt(h, v)
<1>1. CASE Len(h) = 1 /\ ~h[1].present /\ x \notin live
  BY <1>1 DEF Collected, PresentAt, Last, Ordered
<1>2. CASE ~(Len(h) = 1 /\ ~h[1].present /\ x \notin live)
  BY <1>2 DEF Collected
<1> QED BY <1>1, <1>2

\* Each handle that is held is the only one of its version, so every count is
\* one.
OnePinEach ==
    /\ released \subseteq 1 .. Len(handles)
    /\ pins = [v \in {handles[n] : n \in Held} |-> 1]

GCInv == CoWInv /\ OnePinEach

\* The horizon is no later than any pinned version.
LEMMA HorizonFirst ==
    ASSUME NEW P \in SUBSET Nat, version \in Nat
    PROVE  Horizon(P) \in Nat /\ \A v \in P : Horizon(P) <= v
BY Least DEF Horizon

\* A handle that is released unpins its version and leaves the other pins.
LEMMA ReleaseUnpins ==
    ASSUME GCInv, NEW n \in 1 .. Len(handles), Release(n)
    PROVE  OnePinEach' /\ Held' = Held \ {n}
<1>1. /\ n \in Held /\ handles' = handles /\ released' = released \union {n}
      /\ pins' = Unpinned(handles[n])
  BY DEF Release, Held
<1>2. Held' = Held \ {n}
  BY <1>1 DEF Held
<1>3. handles[n] \in DOMAIN pins /\ pins[handles[n]] = 1
  BY <1>1 DEF GCInv, OnePinEach
<1>4. pins' = [u \in (DOMAIN pins) \ {handles[n]} |-> pins[u]]
  BY <1>1, <1>3 DEF Unpinned
<1>5. \A m \in Held : handles[m] = handles[n] <=> m = n
  BY <1>1 DEF GCInv, CoWInv, CapturedAreClosed, Held
<1>6. (DOMAIN pins) \ {handles[n]} = {handles[m] : m \in Held \ {n}}
  BY <1>1, <1>5 DEF GCInv, OnePinEach
<1>7. pins' = [u \in {handles[m] : m \in Held \ {n}} |-> 1]
  BY <1>4, <1>6 DEF GCInv, OnePinEach
<1> QED BY <1>1, <1>2, <1>7 DEF GCInv, OnePinEach

\* The collection a release runs keeps the invariant, and the view of every
\* handle that is still held.
LEMMA ReleaseStep ==
    ASSUME GCInv, NEW n \in 1 .. Len(handles), Release(n)
    PROVE  /\ GCInv'
           /\ \A m \in Held \ {n} : ItemsAt(handles[m])' = ItemsAt(handles[m])
<1> DEFINE P == {handles[m] : m \in Held \ {n}}
           H == Horizon(P)
           keptOf(x) == Kept(history[x], H)
<1>1. UNCHANGED <<version, live, handles>> /\ DOMAIN pins' = P
  BY ReleaseUnpins DEF Release, OnePinEach
<1>2. /\ history' = [x \in Elements |-> Collected(x, Kept(history[x], Horizon(DOMAIN pins')))]
      /\ \A x \in Elements : history'[x] = Collected(x, keptOf(x))
  <2>1. Horizon(DOMAIN pins') = H
    BY <1>1
  <2> QED BY <2>1 DEF Release
<1>3. P \in SUBSET Nat /\ version \in Nat
  BY DEF GCInv, CoWInv, TypeOK, Held
<1>4. H \in Nat /\ \A v \in P : H <= v
  BY <1>3, HorizonFirst
<1> HIDE DEF H
<1>5. ASSUME NEW x \in Elements
      PROVE  /\ history'[x] \in Seq(Record) /\ Ordered(history'[x])
             /\ x \in live <=> history'[x] # <<>> /\ history'[x][Len(history'[x])].present
             /\ \A v \in P : PresentAt(history'[x], v) <=> PresentAt(history[x], v)
  <2>1. /\ history[x] \in Seq(Record) /\ Ordered(history[x])
        /\ x \in live <=> history[x] # <<>> /\ history[x][Len(history[x])].present
    BY DEF GCInv, CoWInv, TypeOK, Sorted, LiveIsLatest
  <2>2. /\ keptOf(x) \in Seq(Record) /\ Ordered(keptOf(x))
        /\ x \in live <=> keptOf(x) # <<>> /\ keptOf(x)[Len(keptOf(x))].present
        /\ \A v \in P : PresentAt(keptOf(x), v) <=> PresentAt(history[x], v)
    BY <1>3, <1>4, <2>1, KeptReads
  <2> HIDE DEF keptOf
  <2>3. history'[x] = Collected(x, keptOf(x))
    BY <1>2
  <2> DEFINE c == Collected(x, keptOf(x))
  <2>4. /\ c \in Seq(Record) /\ Ordered(c)
        /\ x \in live <=> c # <<>> /\ c[Len(c)].present
        /\ \A v \in Nat : PresentAt(c, v) <=> PresentAt(keptOf(x), v)
    BY <2>2, CollectedReads
  <2> HIDE DEF c, P
  <2>5. \A v \in P : PresentAt(c, v) <=> PresentAt(history[x], v)
    BY <1>3, <2>2, <2>4
  <2>6. history'[x] = c
    BY <2>3 DEF c
  <2> QED BY <2>4, <2>5, <2>6
<1>6. CoWInv'
  <2>1. TypeOK'
    <3>1. history' = [x \in Elements |-> history'[x]]
      BY <1>2
    <3>2. history' \in [Elements -> Seq(Record)]
      BY <1>5, <3>1
    <3> QED BY <1>1, <3>2 DEF GCInv, CoWInv, TypeOK
  <2>2. Sorted'
    BY <1>1, <1>5 DEF Sorted, Ordered
  <2>3. LiveIsLatest'
    BY <1>1, <1>5 DEF LiveIsLatest
  <2>4. CapturedAreClosed'
    BY <1>1 DEF GCInv, CoWInv, CapturedAreClosed
  <2> QED BY <2>1, <2>2, <2>3, <2>4 DEF CoWInv
<1>7. \A m \in Held \ {n} : ItemsAt(handles[m])' = ItemsAt(handles[m])
  <2> SUFFICES ASSUME NEW m \in Held \ {n}
               PROVE  ItemsAt(handles[m])' = ItemsAt(handles[m])
    OBVIOUS
  <2>1. handles[m] \in P /\ handles' = handles
    BY <1>1
  <2>2. \A x \in Elements : PresentAt(history'[x], handles[m]) <=> PresentAt(history[x], handles[m])
    BY <1>5, <2>1
  <2> QED BY <2>1, <2>2 DEF ItemsAt, PresentAt, Last
<1> QED BY <1>6, <1>7, ReleaseUnpins DEF GCInv

\* A snapshot pins the version it captures, once.
LEMMA SnapshotPins ==
    ASSUME GCInv, GCSnapshot
    PROVE  GCInv' /\ Held' = Held \union {Len(handles) + 1}
<1>1. /\ CoWInv' /\ Len(handles') = Len(handles) + 1 /\ Len(handles) \in Nat
      /\ handles'[Len(handles) + 1] = version
      /\ \A m \in 1 .. Len(handles) : handles'[m] = handles[m] /\ handles[m] < version
      /\ released' = released
  BY SnapshotStep DEF GCInv, CoWInv, TypeOK, GCSnapshot
<1>2. Held' = Held \union {Len(handles) + 1}
  BY <1>1 DEF Held, GCInv, OnePinEach
<1>3. \A m \in Held : handles[m] \in Nat /\ handles[m] # version
  BY SMTT(30), <1>1 DEF Held, GCInv, CoWInv, TypeOK
<1>4. version \notin DOMAIN pins
  BY <1>3 DEF GCInv, OnePinEach
<1>5. pins' = [v \in (DOMAIN pins) \union {version} |-> 1]
  BY <1>4 DEF GCSnapshot, GCInv, OnePinEach
<1>6. {handles'[m] : m \in Held'} = (DOMAIN pins) \union {version}
  <2>1. \A m \in Held : handles'[m] = handles[m]
    BY <1>1 DEF Held
  <2> QED BY <1>1, <1>2, <2>1 DEF GCInv, OnePinEach
<1>7. OnePinEach'
  BY <1>1, <1>5, <1>6 DEF GCInv, OnePinEach
<1> QED BY <1>1, <1>2, <1>7 DEF GCInv

\* Initially nothing is pinned.
LEMMA GCInitInv == GCInit => GCInv
<1> SUFFICES ASSUME GCInit PROVE OnePinEach
  BY CoWInitInv DEF GCInit, GCInv
<1>1. Held = {} /\ handles = <<>>
  BY DEF GCInit, Init, Held
<1> QED BY <1>1 DEF GCInit, OnePinEach

\* Every step keeps the invariant of tier 3.
LEMMA GCInductive == GCInv /\ [GCNext]_gcvars => GCInv'
<1> SUFFICES ASSUME GCInv, [GCNext]_gcvars PROVE GCInv'
  OBVIOUS
<1>1. ASSUME NEW x \in Elements, GCAdd(x) \/ GCRemove(x) PROVE GCInv'
  <2>1. CoWInv' /\ UNCHANGED <<handles, pins, released>>
    BY <1>1, WriteStep DEF GCInv, GCAdd, GCRemove, Add, Remove
  <2> QED BY <2>1 DEF GCInv, OnePinEach, Held
<1>2. CASE UNCHANGED gcvars
  BY <1>2 DEF gcvars, vars, GCInv, OnePinEach, Held, CoWInv, TypeOK, Sorted, Ordered,
              LiveIsLatest, CapturedAreClosed
<1> QED BY <1>1, <1>2, SnapshotPins, ReleaseStep DEF GCNext

\* The invariant of tier 3.
THEOREM GCInvariance == GCSpec => []GCInv
BY GCInitInv, GCInductive, PTL DEF GCSpec

\* Reference counts and collection do not show: a handle that is held reads
\* the set as it was when it was taken, whatever was released and collected
\* since (GCSnapshotSet, "GC is safe").
THEOREM GCRefinement == GCSpec => ImplementsHeldCopies
<1> DEFINE Views == [n \in Held |-> ItemsAt(handles[n])]
<1>1. GCInit => HeldCopies!Init
  BY DEF GCInit, Init, Held, HeldCopies!Init
<1>2. GCInv /\ [GCNext]_gcvars => [HeldCopies!Next]_(HeldCopies!vars)
  <2> SUFFICES ASSUME GCInv, [GCNext]_gcvars PROVE [HeldCopies!Next]_(HeldCopies!vars)
    OBVIOUS
  <2>1. ASSUME NEW x \in Elements, GCAdd(x) \/ GCRemove(x)
        PROVE  HeldCopies!Next
    <3>1. \A n \in 1 .. Len(handles) : ItemsAt(handles[n])' = ItemsAt(handles[n])
      BY <2>1, WriteStep DEF GCInv, GCAdd, GCRemove
    <3>2. handles' = handles /\ Held' = Held /\ Held \subseteq 1 .. Len(handles)
      BY <2>1 DEF GCAdd, GCRemove, Add, Remove, Held
    <3>3. Views' = Views
      BY <3>1, <3>2
    <3>4. HeldCopies!Add(x) \/ HeldCopies!Remove(x)
      BY <2>1, <3>2, <3>3 DEF GCAdd, GCRemove, Add, Remove, HeldCopies!Add, HeldCopies!Remove
    <3> QED BY <3>4 DEF HeldCopies!Next
  <2>2. ASSUME GCSnapshot
        PROVE  HeldCopies!Next
    <3>1. /\ Len(handles') = Len(handles) + 1 /\ Len(handles) \in Nat
          /\ ItemsAt(handles[Len(handles)])' = live
          /\ \A n \in 1 .. Len(handles) : ItemsAt(handles[n])' = ItemsAt(handles[n])
      BY <2>2, SnapshotStep DEF GCInv, CoWInv, TypeOK, GCSnapshot
    <3>2. Held' = Held \union {Len(handles) + 1} /\ Held \subseteq 1 .. Len(handles)
      BY <2>2, SnapshotPins DEF Held
    <3>3. Views' = [h \in (DOMAIN Views) \union {Len(handles) + 1} |->
                      IF h = Len(handles) + 1 THEN live ELSE Views[h]]
      BY <3>1, <3>2
    <3>4. HeldCopies!Snapshot
      BY <2>2, <3>1, <3>3 DEF GCSnapshot, Snapshot, HeldCopies!Snapshot
    <3> QED BY <3>4 DEF HeldCopies!Next
  <2>3. ASSUME NEW n \in 1 .. Len(handles), Release(n)
        PROVE  HeldCopies!Next
    <3>1. /\ Held' = Held \ {n} /\ n \in Held /\ UNCHANGED <<live, handles>>
          /\ \A m \in Held \ {n} : ItemsAt(handles[m])' = ItemsAt(handles[m])
      BY <2>3, ReleaseUnpins, ReleaseStep DEF Release, Held
    <3>2. Views' = [g \in (DOMAIN Views) \ {n} |-> Views[g]]
      BY <3>1
    <3>3. HeldCopies!Release(n) /\ n \in DOMAIN Views
      BY <3>1, <3>2 DEF HeldCopies!Release
    <3> QED BY <3>3 DEF HeldCopies!Next
  <2>4. CASE UNCHANGED gcvars
    BY <2>4 DEF gcvars, vars, HeldCopies!vars, Held, ItemsAt, PresentAt, Last
  <2> QED BY <2>1, <2>2, <2>3, <2>4 DEF GCNext
<1> QED BY <1>1, <1>2, GCInvariance, PTL DEF GCSpec, ImplementsHeldCopies, HeldCopies!Spec

\* The pins are exactly the versions that can still be read.
THEOREM PinsMatchHandles == GCSpec => []PinsAreHeld
<1>1. GCInv => PinsAreHeld
  <2> SUFFICES ASSUME GCInv, NEW v \in DOMAIN pins
               PROVE  pins[v] = Cardinality({n \in Held : handles[n] = v})
    BY DEF GCInv, OnePinEach, PinsAreHeld
  <2>1. PICK n \in Held : handles[n] = v
    BY DEF GCInv, OnePinEach
  <2>2. {m \in Held : handles[m] = v} = {n}
    BY <2>1 DEF GCInv, CoWInv, CapturedAreClosed, Held
  <2>3. pins[v] = 1
    BY DEF GCInv, OnePinEach
  <2> QED BY <2>2, <2>3, FS_Singleton
<1> QED BY <1>1, GCInvariance, PTL
-----------------------------------------------------------------------------
(* The cached permissions *)

PermissionsTypeOK ==
    /\ access \subseteq Folders /\ DOMAIN kept \subseteq Folders
    /\ kept = [f \in DOMAIN kept |-> kept[f]]

\* The walk up from g comes to f only if the walk down from f comes to g: what
\* invalidation reaches is what has_access depends on.
LEMMA AboveIsInverseOfBelow ==
    ASSUME NEW f \in Folders, NEW g \in Folders, f \in Above(g)
    PROVE  g \in Below(f)
<1>1. SUFFICES ASSUME NEW S \in SUBSET Folders,
                      f \in S, \A h \in S : Children(h) \subseteq S,
                      g \notin S
               PROVE  FALSE
  BY DEF Below
<1> DEFINE T == Folders \ S
<1>2. T \in SUBSET Folders /\ g \in T
  BY <1>1
<1>3. ASSUME NEW h \in T PROVE Parent[h] \in T \union {NoFolder}
  <2>1. Parent[h] \in Folders \union {NoFolder}
    BY <1>3, PermissionsAssumption
  <2>2. CASE Parent[h] \in S
    <3>1. h \in Children(Parent[h])
      BY <1>3 DEF Children
    <3> QED BY <3>1, <2>2, <1>1
  <2> QED BY <2>1, <2>2
<1>4. f \in T
  BY <1>2, <1>3 DEF Above
<1> QED BY <1>4, <1>1

\* A change of access to f leaves every walk alone that is not invalidated.
LEMMA ChangeStaysBelow ==
    ASSUME NEW f \in Folders, NEW g \in Folders, g \notin Below(f),
           access' \ {f} = access \ {f}
    PROVE  Walk(g)' = Walk(g)
<1>1. f \notin Above(g)
  BY AboveIsInverseOfBelow
<1>2. Above(g) \intersect access' = Above(g) \intersect access
  BY <1>1
<1>3. Above(g)' = Above(g)
  BY DEF Above
<1> QED BY <1>2, <1>3 DEF Walk

\* An invalidation keeps only answers that the change of access leaves alone.
LEMMA KeptAfterInvalidation ==
    ASSUME NEW f \in Folders, PermissionsTypeOK, CacheAgreesWithWalk,
           access' \subseteq Folders, access' \ {f} = access \ {f}, InvalidateSubtree(f)
    PROVE  PermissionsTypeOK' /\ CacheAgreesWithWalk'
<1>1. DOMAIN kept' = DOMAIN kept \ Below(f)
  BY DEF InvalidateSubtree
<1>2. PermissionsTypeOK'
  BY <1>1 DEF PermissionsTypeOK, InvalidateSubtree
<1>3. ASSUME NEW g \in DOMAIN kept' PROVE kept'[g] = Walk(g)'
  <2>1. g \in DOMAIN kept /\ g \in Folders /\ g \notin Below(f)
    BY <1>1, <1>3 DEF PermissionsTypeOK
  <2>2. kept'[g] = kept[g]
    BY <2>1 DEF InvalidateSubtree
  <2>3. Walk(g)' = Walk(g)
    BY <2>1, ChangeStaysBelow
  <2>4. kept[g] = Walk(g)
    BY <2>1 DEF CacheAgreesWithWalk
  <2> QED BY <2>2, <2>3, <2>4
<1>4. CacheAgreesWithWalk'
  BY <1>3 DEF CacheAgreesWithWalk
<1> QED BY <1>2, <1>4

\* Every kept answer is the one the walk would give now, for every tree of
\* folders and every sequence of grants, revocations and reads.
THEOREM CacheIsRight == PermissionsSpec => [](PermissionsTypeOK /\ CacheAgreesWithWalk)
<1>1. PermissionsInit => PermissionsTypeOK /\ CacheAgreesWithWalk
  BY DEF PermissionsInit, PermissionsTypeOK, CacheAgreesWithWalk
<1>2. ASSUME PermissionsTypeOK, CacheAgreesWithWalk, [PermissionsNext]_permissions
      PROVE  PermissionsTypeOK' /\ CacheAgreesWithWalk'
  <2>1. ASSUME NEW f \in Folders, AddAccess(f)
        PROVE  PermissionsTypeOK' /\ CacheAgreesWithWalk'
    <3>1. access' \subseteq Folders /\ access' \ {f} = access \ {f} /\ InvalidateSubtree(f)
      BY <2>1, <1>2 DEF AddAccess, PermissionsTypeOK
    <3> QED BY <3>1, <1>2, KeptAfterInvalidation
  <2>2. ASSUME NEW f \in Folders, RemoveAccess(f)
        PROVE  PermissionsTypeOK' /\ CacheAgreesWithWalk'
    <3>1. access' \subseteq Folders /\ access' \ {f} = access \ {f} /\ InvalidateSubtree(f)
      BY <2>2, <1>2 DEF RemoveAccess, PermissionsTypeOK
    <3> QED BY <3>1, <1>2, KeptAfterInvalidation
  <2>3. ASSUME NEW f \in Folders, HasAccess(f)
        PROVE  PermissionsTypeOK' /\ CacheAgreesWithWalk'
    <3>1. PermissionsTypeOK'
      BY <2>3, <1>2 DEF HasAccess, PermissionsTypeOK
    <3>2. ASSUME NEW g \in DOMAIN kept' PROVE kept'[g] = Walk(g)'
      <4>1. Walk(g)' = Walk(g)
        BY <2>3 DEF HasAccess, Walk, Above
      <4>2. CASE g = f
        BY <4>1, <4>2, <2>3 DEF HasAccess
      <4>3. CASE g # f
        <5>1. g \in DOMAIN kept /\ kept'[g] = kept[g]
          BY <4>3, <3>2, <2>3 DEF HasAccess
        <5> QED BY <5>1, <4>1, <1>2 DEF CacheAgreesWithWalk
      <4> QED BY <4>2, <4>3
    <3>3. CacheAgreesWithWalk'
      BY <3>2 DEF CacheAgreesWithWalk
    <3> QED BY <3>1, <3>3
  <2>4. CASE UNCHANGED permissions
    <3>1. PermissionsTypeOK'
      BY <2>4, <1>2 DEF permissions, PermissionsTypeOK
    <3>2. CacheAgreesWithWalk'
      BY <2>4, <1>2 DEF permissions, CacheAgreesWithWalk, Walk, Above
    <3> QED BY <3>1, <3>2
  <2> QED BY <2>1, <2>2, <2>3, <2>4, <1>2 DEF PermissionsNext
<1> QED BY <1>1, <1>2, PTL DEF PermissionsSpec
-----------------------------------------------------------------------------
(* The structures of one program *)

\* A step of the program is, for every structure in it, one of its steps or
\* none of its variables change.
LEMMA StoresTakeSteps ==
    /\ StoresInit =>
          /\ GCInit /\ CoW!Init /\ PermissionsInit /\ Freelist!Init /\ Bitmap!Init
          /\ Sharded!Init /\ Transactional!Init /\ Book!Init
    /\ [StoresNext]_all =>
          /\ [GCNext]_gcvars /\ [CoW!Next]_(CoW!vars) /\ [PermissionsNext]_permissions
          /\ [Freelist!Next]_(Freelist!vars) /\ [Bitmap!Next]_(Bitmap!vars)
          /\ [Sharded!Next]_(Sharded!vars) /\ [Transactional!Next]_(Transactional!vars)
          /\ [Book!Next]_(Book!vars)
<1>1. StoresInit =>
          /\ GCInit /\ CoW!Init /\ PermissionsInit /\ Freelist!Init /\ Bitmap!Init
          /\ Sharded!Init /\ Transactional!Init /\ Book!Init
  BY DEF StoresInit
<1>2. UNCHANGED all => UNCHANGED <<gcvars, cow_vars, permissions, freelist_vars, bitmap_vars,
                                   shards_vars, transactional_vars, ledger_vars>>
  BY DEF all
<1>3. /\ CoW!vars = cow_vars /\ Freelist!vars = freelist_vars /\ Bitmap!vars = bitmap_vars
      /\ Sharded!vars = shards_vars /\ Transactional!vars = transactional_vars
      /\ Book!vars = ledger_vars
      /\ CoW!vars' = cow_vars' /\ Freelist!vars' = freelist_vars' /\ Bitmap!vars' = bitmap_vars'
      /\ Sharded!vars' = shards_vars' /\ Transactional!vars' = transactional_vars'
      /\ Book!vars' = ledger_vars'
  BY DEF CoW!vars, Freelist!vars, Bitmap!vars, Sharded!vars, Transactional!vars, Book!vars,
     cow_vars, freelist_vars, bitmap_vars, shards_vars, transactional_vars, ledger_vars
<1>4. ASSUME StoresNext
      PROVE  /\ [GCNext]_gcvars /\ [CoW!Next]_cow_vars /\ [PermissionsNext]_permissions
             /\ [Freelist!Next]_freelist_vars /\ [Bitmap!Next]_bitmap_vars
             /\ [Sharded!Next]_shards_vars /\ [Transactional!Next]_transactional_vars
             /\ [Book!Next]_ledger_vars
  BY <1>4 DEF StoresNext, OthersRest, CoWStep, GCStep, FreelistStep, BitmapStep, TreeStep,
     ShardsStep, TransactionalStep, ExpiringStep, HeapStep, DequeStep, RingsStep, LRUStep,
     LedgerStep, PermissionsStep
<1> QED BY <1>1, <1>2, <1>3, <1>4

\* Transfers keep the money, and somebody always goes on, for any clients,
\* accounts and amounts.
THEOREM LedgerIsSoundAlways == StoresSpec => []LedgerIsSound
<1>1. StoresInit => BookInv
  BY StoresTakeSteps, TierConstants, BookInitInv
<1>2. BookInv /\ [StoresNext]_all => BookInv'
  BY StoresTakeSteps, TierConstants, BookInductive
<1>3. BookInv => LedgerIsSound
  BY SomebodyGoes DEF BookInv, LedgerIsSound, Book!LedgerIsSound
<1> QED BY <1>1, <1>2, <1>3, PTL DEF StoresSpec

\* What the freelist keeps, for every max_id: its variables have their types,
\* and the ids it minted are in use or released, each once.
THEOREM FreelistInvariance == StoresSpec => []FreelistInv
<1>1. StoresInit => FreelistInv
  BY StoresTakeSteps, TierConstants, FreelistStarts
<1>2. FreelistInv /\ [StoresNext]_all => FreelistInv'
  BY StoresTakeSteps, TierConstants, FreelistStepsPromise
<1> QED BY <1>1, <1>2, PTL DEF StoresSpec

\* The snapshots of the versioned set read what copies would have kept, and
\* the freelist hands no id out twice, for any elements and any number of ids.
THEOREM SetsImplementAlways == StoresSpec => SetsImplementTheirSpecs
<1>1. StoresInit => CoW!Init /\ Freelist!Promise!Init
  BY StoresTakeSteps, TierConstants, FreelistStarts
<1>2. [StoresNext]_all => [CoW!Next]_(CoW!vars)
  BY StoresTakeSteps
<1>3. FreelistInv /\ [StoresNext]_all => [Freelist!Promise!Next]_(Freelist!Promise!vars)
  BY StoresTakeSteps, TierConstants, FreelistStepsPromise
<1>4. CoW!Spec => CoW!ImplementsCopies
  BY CoW!CoWRefinement, SnapshotAssumption, PTL
<1> QED BY <1>1, <1>2, <1>3, <1>4, FreelistInvariance, PTL
        DEF StoresSpec, SetsImplementTheirSpecs, CoW!Spec, Freelist!ImplementsIdAllocator,
            Freelist!Promise!Spec

-----------------------------------------------------------------------------
(* What a collection leaves *)

\* Only the first record may be from before the horizon.
Since(h, horizon) == \A i \in 2 .. Len(h) : h[i].version >= horizon

ReclaimInv == GCInv /\ \A x \in Elements : Since(history[x], Horizon(DOMAIN pins))

\* The horizon is a version, and no later than the running one or any pinned.
LEMMA HorizonIsPast ==
    ASSUME GCInv
    PROVE  /\ DOMAIN pins \in SUBSET Nat /\ version \in Nat
           /\ \A v \in DOMAIN pins : v < version
           /\ Horizon(DOMAIN pins) \in Nat /\ Horizon(DOMAIN pins) <= version
           /\ \A v \in DOMAIN pins : Horizon(DOMAIN pins) <= v
<1>1. DOMAIN pins \in SUBSET Nat /\ version \in Nat /\ \A v \in DOMAIN pins : v < version
  BY DEF GCInv, CoWInv, OnePinEach, CapturedAreClosed, TypeOK, Held
<1>2. Horizon(DOMAIN pins) \in Nat /\ \A v \in DOMAIN pins : Horizon(DOMAIN pins) <= v
  BY <1>1, HorizonFirst
<1>3. CASE DOMAIN pins = {}
  BY <1>1, <1>2, <1>3 DEF Horizon
<1>4. CASE DOMAIN pins # {}
  <2>1. PICK v \in DOMAIN pins : TRUE
    BY <1>4
  <2> QED BY <1>1, <1>2, <2>1
<1> QED BY <1>1, <1>2, <1>3, <1>4

\* A change is recorded at the running version.
LEMMA RecordedSince ==
    ASSUME NEW h \in Seq(Record), NEW p \in BOOLEAN, version \in Nat,
           NEW horizon \in Nat, horizon <= version, Since(h, horizon)
    PROVE  Since(Recorded(h, p), horizon)
<1> DEFINE r == [version |-> version, present |-> p]
<1>1. r \in Record /\ r.version = version
  BY DEF Record
<1> HIDE DEF r
<1>2. CASE h # <<>> /\ h[Len(h)].version = version
  <2>1. Recorded(h, p) = [h EXCEPT ![Len(h)] = r]
    BY <1>2 DEF Recorded, r
  <2> QED BY <1>1, <1>2, <2>1, Fields DEF Since
<1>3. CASE ~(h # <<>> /\ h[Len(h)].version = version)
  <2>1. Recorded(h, p) = Append(h, r)
    BY <1>3 DEF Recorded, r
  <2> QED BY <1>1, <2>1, Fields DEF Since
<1> QED BY <1>2, <1>3

\* A history of which some record is from the horizon or before has a last one.
LEMMA LastExists ==
    ASSUME NEW h \in Seq(Record), NEW horizon \in Nat, NEW j \in 1 .. Len(h), h[j].version <= horizon
    PROVE  \E i \in 1 .. Len(h) : Last(h, horizon, i)
<1>1. PICK n : n = Len(h) /\ n \in Nat
  OBVIOUS
<1>2. PICK m \in {d \in 0 .. n : n - d \in 1 .. n /\ h[n - d].version <= horizon} :
             \A d \in {d \in 0 .. n : n - d \in 1 .. n /\ h[n - d].version <= horizon} : m <= d
  <2> DEFINE P == {d \in 0 .. n : n - d \in 1 .. n /\ h[n - d].version <= horizon}
  <2>1. n - j \in 0 .. n /\ n - (n - j) = j
    BY <1>1
  <2>2. P # {}
    BY <1>1, <2>1
  <2>3. P \in SUBSET Nat
    OBVIOUS
  <2>4. \E v \in P : \A u \in P : v <= u
    <3> HIDE DEF P
    <3> QED BY <2>2, <2>3, Least
  <2> QED BY <2>4
<1>3. n - m \in 1 .. n /\ h[n - m].version <= horizon
  BY <1>2
<1>4. ASSUME NEW k \in 1 .. n, k > n - m PROVE h[k].version > horizon
  <2>1. n - k \in 0 .. n /\ n - (n - k) = k /\ ~(m <= n - k)
    BY <1>1, <1>2, <1>4
  <2>2. ~(h[k].version <= horizon)
    BY <1>2, <2>1
  <2>3. h[k].version \in Nat
    BY <1>1, Fields
  <2> QED BY <2>2, <2>3
<1> QED BY <1>1, <1>3, <1>4 DEF Last

\* A collection leaves at most one record from the horizon or before.
LEMMA KeptSince ==
    ASSUME NEW h \in Seq(Record), NEW horizon \in Nat
    PROVE  Since(Kept(h, horizon), horizon)
<1>1. CASE \E i \in 1 .. Len(h) : Last(h, horizon, i)
  <2>1. PICK i \in 1 .. Len(h) : Last(h, horizon, i) /\ Kept(h, horizon) = SubSeq(h, i, Len(h))
    BY <1>1 DEF Kept
  <2> DEFINE k == SubSeq(h, i, Len(h))
  <2>2. /\ Len(k) = Len(h) - i + 1 /\ Len(k) \in Nat /\ Len(h) \in Nat /\ i \in Nat
        /\ \A j \in 1 .. Len(k) : j + i - 1 \in 1 .. Len(h) /\ k[j] = h[j + i - 1]
    OBVIOUS
  <2> HIDE DEF k
  <2>3. ASSUME NEW j \in 2 .. Len(k) PROVE k[j].version >= horizon
    <3>1. j \in 1 .. Len(k) /\ j + i - 1 > i
      BY <2>2
    <3>2. k[j] = h[j + i - 1] /\ h[j + i - 1].version > horizon /\ h[j + i - 1].version \in Nat
      BY <2>1, <2>2, <3>1, Fields DEF Last
    <3> QED BY <3>2
  <2> QED BY <2>1, <2>3 DEF Since, k
<1>2. CASE ~\E i \in 1 .. Len(h) : Last(h, horizon, i)
  <2>1. \A i \in 1 .. Len(h) : h[i].version > horizon
    <3>1. \A i \in 1 .. Len(h) : ~(h[i].version <= horizon) /\ h[i].version \in Nat
      BY <1>2, LastExists, Fields
    <3> QED BY <3>1
  <2>2. Kept(h, horizon) = h
    BY <1>2 DEF Kept
  <2> QED BY <2>1, <2>2, Fields DEF Since
<1> QED BY <1>1, <1>2

\* One record for each version from the horizon on, and one from before.
LEMMA SinceBounds ==
    ASSUME NEW h \in Seq(Record), version \in Nat, Ordered(h),
           NEW horizon \in Nat, horizon <= version, Since(h, horizon)
    PROVE  Len(h) <= version - horizon + 2
<1>1. PICK n : n = Len(h) /\ n \in Nat
  OBVIOUS
<1> DEFINE P == {i \in 2 .. n : h[i].version < horizon + (i - 2)}
<1>2. CASE P = {}
  <2>1. CASE n < 2
    BY <1>1, <2>1
  <2>2. CASE n >= 2
    <3>1. n \in 2 .. n /\ n \in 1 .. n /\ h[n].version \in Nat
      BY <1>1, <2>2, Fields
    <3>2. ~(h[n].version < horizon + (n - 2)) /\ h[n].version <= version
      BY <1>1, <1>2, <3>1 DEF Ordered
    <3> QED BY <1>1, <3>1, <3>2
  <2> QED BY <1>1, <2>1, <2>2
<1>3. CASE P # {}
  <2>1. PICK i \in P : \A j \in P : i <= j
    <3>1. P \in SUBSET Nat
      BY <1>1
    <3> HIDE DEF P
    <3> QED BY <1>3, <3>1, Least
  <2>2. i \in 2 .. n /\ h[i].version < horizon + (i - 2) /\ h[i].version >= horizon
        /\ h[i].version \in Nat
    BY <1>1, <2>1, Fields DEF Since
  <2>3. i - 1 \in 2 .. n /\ i - 1 < i /\ i \in 1 .. n /\ i - 1 \in 1 .. n
    BY <1>1, <2>2
  <2>4. i - 1 \notin P
    BY <2>1, <2>3
  <2>5. ~(h[i - 1].version < horizon + ((i - 1) - 2)) /\ h[i - 1].version \in Nat
    BY <1>1, <2>3, <2>4, Fields
  <2>6. h[i - 1].version < h[i].version
    BY <1>1, <2>3 DEF Ordered
  <2> QED BY <1>1, <2>2, <2>3, <2>5, <2>6
<1> QED BY <1>2, <1>3

\* Every step keeps the history that way.
LEMMA ReclaimStep ==
    ASSUME ReclaimInv, [GCNext]_gcvars
    PROVE  ReclaimInv'
<1> DEFINE Z == Horizon(DOMAIN pins)
<1>1. GCInv /\ GCInv'
  BY GCInductive DEF ReclaimInv
<1>2. /\ DOMAIN pins \in SUBSET Nat /\ version \in Nat /\ \A v \in DOMAIN pins : v < version
      /\ Z \in Nat /\ Z <= version /\ \A v \in DOMAIN pins : Z <= v
  BY <1>1, HorizonIsPast
<1>3. \A x \in Elements : history[x] \in Seq(Record) /\ Since(history[x], Z)
  BY <1>1 DEF ReclaimInv, GCInv, CoWInv, TypeOK
<1> HIDE DEF Z
<1>4. ASSUME NEW y \in Elements, GCAdd(y) \/ GCRemove(y) PROVE ReclaimInv'
  <2>1. PICK p \in BOOLEAN : history' = [history EXCEPT ![y] = Recorded(@, p)]
    BY <1>4 DEF GCAdd, GCRemove, Add, Remove
  <2>2. UNCHANGED <<version, pins>> /\ history \in [Elements -> Seq(Record)]
    BY <1>1, <1>4 DEF GCAdd, GCRemove, Add, Remove, GCInv, CoWInv, TypeOK
  <2>3. Horizon(DOMAIN pins)' = Z
    BY <2>2 DEF Z, Horizon
  <2>4. \A x \in Elements : history'[x] = IF x = y THEN Recorded(history[x], p) ELSE history[x]
    BY <2>1, <2>2
  <2>5. \A x \in Elements : Since(history'[x], Z)
    BY <1>2, <1>3, <2>4, RecordedSince
  <2> QED BY <1>1, <2>3, <2>5 DEF ReclaimInv, Since
<1>5. ASSUME GCSnapshot PROVE ReclaimInv'
  <2>1. history' = history /\ DOMAIN pins' = (DOMAIN pins) \union {version} /\ version' = version + 1
    BY <1>5 DEF GCSnapshot, Snapshot
  <2>2. Horizon(DOMAIN pins)' = Z
    <3>1. CASE DOMAIN pins = {}
      <4>1. Z = version /\ DOMAIN pins' = {version}
        BY <2>1, <3>1 DEF Horizon, Z
      <4> QED BY <1>2, <4>1 DEF Horizon
    <3>2. CASE DOMAIN pins # {}
      <4>1. Z \in DOMAIN pins
        <5>1. \E v \in DOMAIN pins : \A u \in DOMAIN pins : v <= u
          BY <1>2, <3>2, Least
        <5> QED BY <3>2, <5>1 DEF Horizon, Z
      <4>2. PICK D : D = DOMAIN pins' /\ D = (DOMAIN pins) \union {version}
        BY <2>1
      <4>3. Z \in D /\ \A v \in D : Z <= v
        BY <1>2, <4>1, <4>2
      <4>4. \A w \in D : (\A v \in D : w <= v) => w = Z
        BY <1>2, <4>2, <4>3
      <4>5. (CHOOSE v \in D : \A u \in D : v <= u) = Z
        BY <4>3, <4>4
      <4> QED BY <4>2, <4>3, <4>5 DEF Horizon
    <3> QED BY <3>1, <3>2
  <2> QED BY <1>1, <1>3, <2>1, <2>2 DEF ReclaimInv, Since
<1>6. ASSUME NEW n \in 1 .. Len(handles), Release(n) PROVE ReclaimInv'
  <2>1. PICK new : new = Horizon(DOMAIN pins)'
    OBVIOUS
  <2>2. DOMAIN pins' \in SUBSET Nat
    BY <1>1 DEF GCInv, CoWInv, TypeOK, OnePinEach, Held
  <2>3. new = Horizon(DOMAIN pins') /\ version' = version /\ live' = live
    BY <1>6, <2>1 DEF Release, Horizon
  <2>4. new \in Nat
    BY <1>2, <2>2, <2>3, HorizonFirst
  <2>5. \A x \in Elements : history'[x] = Collected(x, Kept(history[x], new))
    BY <1>6, <2>3 DEF Release
  <2>6. \A x \in Elements : Since(Kept(history[x], new), new)
    BY <1>3, <2>4, KeptSince
  <2>7. \A x \in Elements : Since(history'[x], new)
    BY <2>5, <2>6 DEF Since, Collected
  <2> QED BY <1>1, <2>1, <2>7 DEF ReclaimInv, Since
<1>7. CASE UNCHANGED gcvars
  <2>1. UNCHANGED <<version, pins, history>>
    BY <1>7 DEF gcvars, vars
  <2>2. Horizon(DOMAIN pins)' = Z
    BY <2>1 DEF Z, Horizon
  <2> QED BY <1>1, <1>3, <2>1, <2>2 DEF ReclaimInv, Since
<1> QED BY <1>4, <1>5, <1>6, <1>7 DEF GCNext

\* The release that unpins the last version keeps one record of every member.
LEMMA LastCollapses ==
    ASSUME GCInv, GCInv', [GCNext]_gcvars, pins # pins', DOMAIN pins' = {}, NEW x \in Elements
    PROVE  Len(history'[x]) = IF x \in live THEN 1 ELSE 0
<1>1. PICK n \in 1 .. Len(handles) : Release(n)
  BY DEF GCNext, gcvars, GCAdd, GCRemove, GCSnapshot
<1>2. Horizon(DOMAIN pins') = version /\ history'[x] = Collected(x, Kept(history[x], version))
  BY <1>1 DEF Release, Horizon
<1> DEFINE h == history[x]
           k == Kept(h, version)
<1>3. /\ h \in Seq(Record) /\ Ordered(h) /\ version \in Nat
      /\ x \in live <=> h # <<>> /\ h[Len(h)].present
  BY DEF GCInv, CoWInv, TypeOK, Sorted, LiveIsLatest
<1> HIDE DEF h
<1>4. CASE h = <<>>
  BY <1>2, <1>3, <1>4 DEF Kept, Collected, h
<1>5. CASE h # <<>>
  <2>1. Len(h) \in 1 .. Len(h) /\ Last(h, version, Len(h))
    BY <1>3, <1>5 DEF Last, Ordered
  <2>2. \A i \in 1 .. Len(h) : Last(h, version, i) => i = Len(h)
    <3> SUFFICES ASSUME NEW i \in 1 .. Len(h), Last(h, version, i), i # Len(h)
                 PROVE  FALSE
      OBVIOUS
    <3>1. Len(h) > i /\ h[Len(h)].version <= version /\ h[Len(h)].version \in Nat
      BY <1>3, <2>1, Fields DEF Last
    <3> QED BY <1>3, <2>1, <3>1 DEF Last
  <2>3. k = SubSeq(h, Len(h), Len(h))
    BY <2>1, <2>2 DEF Kept
  <2>4. Len(k) = 1 /\ k[1] = h[Len(h)]
    BY <1>3, <1>5, <2>3
  <2> HIDE DEF k
  <2>5. history'[x] = Collected(x, k)
    BY <1>2 DEF h, k
  <2> QED BY <1>3, <1>5, <2>4, <2>5 DEF Collected
<1> QED BY <1>4, <1>5

\* History older than every held snapshot is reclaimed, and after the last
\* release only the live set is left ("GC-ing Snapshots").
THEOREM CollectionReclaimsAlways ==
    (GCSpec => CollectionReclaims) /\ (StoresSpec => CollectionReclaims)
<1> DEFINE Collapsed ==
      pins # pins' /\ DOMAIN pins' = {} =>
         \A x \in Elements : Len(history'[x]) = IF x \in live THEN 1 ELSE 0
<1>1. GCInit => ReclaimInv
  BY GCInitInv DEF ReclaimInv, GCInit, Init, Since
<1>2. ReclaimInv /\ [GCNext]_gcvars => ReclaimInv'
  BY ReclaimStep
<1>3. ReclaimInv => GCInv
  BY DEF ReclaimInv
<1>4. ReclaimInv => HistorySinceHorizon
  <2> SUFFICES ASSUME ReclaimInv, NEW x \in Elements
               PROVE  Len(history[x]) <= version - Horizon(DOMAIN pins) + 2
    BY DEF HistorySinceHorizon
  <2>1. GCInv /\ history[x] \in Seq(Record) /\ Ordered(history[x]) /\ version \in Nat
    BY DEF ReclaimInv, GCInv, CoWInv, TypeOK, Sorted
  <2> QED BY <2>1, HorizonIsPast, SinceBounds DEF ReclaimInv
<1>5. GCInv /\ GCInv' /\ [GCNext]_gcvars => [Collapsed]_gcvars
  BY LastCollapses
<1>6. StoresInit => GCInit
  BY StoresTakeSteps
<1>7. [StoresNext]_all => [GCNext]_gcvars
  BY StoresTakeSteps
<1> QED BY <1>1, <1>2, <1>3, <1>4, <1>5, <1>6, <1>7, PTL
        DEF GCSpec, StoresSpec, CollectionReclaims, LastReleaseCollapses

\* The versioned set keeps its snapshots and its pins, and the cache of the
\* permissions its answers, beside the other structures of the program.
THEOREM SetsAreSoundAlways ==
    StoresSpec => []PinsAreHeld /\ ImplementsHeldCopies /\ []CacheAgreesWithWalk
<1>1. StoresInit => GCInit /\ PermissionsInit
  BY StoresTakeSteps
<1>2. [StoresNext]_all => [GCNext]_gcvars /\ [PermissionsNext]_permissions
  BY StoresTakeSteps
<1> QED BY <1>1, <1>2, PinsMatchHandles, GCRefinement, CacheIsRight, PTL
        DEF StoresSpec, GCSpec, PermissionsSpec
-----------------------------------------------------------------------------
(* The threads over shards *)

\* Every id is one local id of one shard.
LEMMA IdsSplit ==
    ASSUME NEW z \in Nat \ {0}, NEW id \in Nat
    PROVE  /\ id \div z \in Nat /\ id % z \in 0 .. z - 1
           /\ id = (id \div z) * z + (id % z)
OBVIOUS

\* Shard and local id of a global id.
LEMMA IdsJoin ==
    ASSUME NEW z \in Nat \ {0}, NEW s \in Nat, NEW l \in 0 .. z - 1
    PROVE  (s * z + l) \div z = s /\ (s * z + l) % z = l
OBVIOUS

\* Shards are told by their division.
LEMMA ShardsCover ==
    ASSUME NEW z \in Nat \ {0}, NEW m \in Nat \ {0}, NEW id \in 0 .. m - 1
    PROVE  id \div z \in 0 .. (m - 1) \div z
<1>1. /\ id \in Nat /\ m - 1 \in Nat /\ id <= m - 1
  OBVIOUS
<1>2. PICK q : q = id \div z /\ q \in Nat
  BY <1>1, IdsSplit
<1>3. PICK p : p = (m - 1) \div z /\ p \in Nat
  BY <1>1, IdsSplit
<1>4. PICK l \in 0 .. z - 1 : id = q * z + l
  BY <1>1, <1>2, IdsSplit
<1>5. PICK k \in 0 .. z - 1 : m - 1 = p * z + k
  BY <1>1, <1>3, IdsSplit
<1>6. ~(p < q)
  <2> SUFFICES ASSUME p + 1 <= q PROVE FALSE
    BY <1>2, <1>3
  <2>1. p * z + z <= q * z
    BY <1>2, <1>3
  <2>2. p * z \in Nat /\ q * z \in Nat
    BY <1>2, <1>3
  <2> QED BY <1>1, <1>4, <1>5, <2>1, <2>2
<1> QED BY <1>2, <1>3, <1>6

\* Where a thread may be.
Places ==
    {Sharded!Idle, Sharded!Scanning} \union
    [pc : {"claiming"}, shard : AllocatorShards, local : 0 .. ShardSize - 1]

ShardTypes ==
    /\ used \in [AllocatorShards -> SUBSET (0 .. ShardSize - 1)]
    /\ \A s \in AllocatorShards : used[s] \subseteq Sharded!LocalIds(s)
    /\ lock \in [AllocatorShards -> Threads \union {Nobody}]
    /\ unvisited \in [Threads -> SUBSET AllocatorShards]
    /\ at \in [Threads -> Places]
    /\ held \in [Threads -> SUBSET (0 .. sharded_max_id - 1)]

\* Who is about to claim a local id holds the lock of its shard, and the id is
\* free.
ClaimsAreLocked ==
    \A th \in Threads : at[th].pc = "claiming" =>
        /\ at[th].shard \in AllocatorShards
        /\ lock[at[th].shard] = th
        /\ at[th].local \in Sharded!LocalIds(at[th].shard) \ used[at[th].shard]

HeldApart == \A th, v \in Threads : th # v => held[th] \intersect held[v] = {}

\* A local id is marked exactly while a thread holds the id it stands for.
Marked ==
    \A s \in AllocatorShards : \A l \in Sharded!LocalIds(s) :
        l \in used[s] <=> \E th \in Threads : Sharded!Global(s, l) \in held[th]

ShardsInv == ShardTypes /\ ClaimsAreLocked /\ HeldApart /\ Marked

\* Global ids, and the shard and local id of each.
LEMMA ShardIds ==
    /\ \A s \in AllocatorShards : \A l \in Sharded!LocalIds(s) :
         /\ l \in 0 .. ShardSize - 1
         /\ Sharded!Global(s, l) \in 0 .. sharded_max_id - 1
         /\ Sharded!ShardOf(Sharded!Global(s, l)) = s
         /\ Sharded!LocalOf(Sharded!Global(s, l)) = l
    /\ \A id \in 0 .. sharded_max_id - 1 :
         /\ Sharded!ShardOf(id) \in AllocatorShards
         /\ Sharded!LocalOf(id) \in Sharded!LocalIds(Sharded!ShardOf(id))
         /\ Sharded!Global(Sharded!ShardOf(id), Sharded!LocalOf(id)) = id
<1>1. /\ ShardSize \in Nat \ {0} /\ sharded_max_id \in Nat \ {0}
      /\ AllocatorShards = 0 .. (sharded_max_id - 1) \div ShardSize
  BY TierConstants DEF Sharded!ThreadSafeConstants
<1>2. ASSUME NEW s \in AllocatorShards, NEW l \in Sharded!LocalIds(s)
      PROVE  /\ l \in 0 .. ShardSize - 1
             /\ Sharded!Global(s, l) \in 0 .. sharded_max_id - 1
             /\ Sharded!ShardOf(Sharded!Global(s, l)) = s
             /\ Sharded!LocalOf(Sharded!Global(s, l)) = l
  <2>1. s \in Nat /\ l \in 0 .. ShardSize - 1 /\ s * ShardSize + l < sharded_max_id
    BY <1>1, IdsSplit DEF Sharded!LocalIds
  <2>2. s * ShardSize + l \in Nat
    BY <1>1, <2>1
  <2> QED BY SMTT(30), <1>1, <2>1, <2>2, IdsJoin DEF Sharded!Global, Sharded!ShardOf, Sharded!LocalOf
<1>3. ASSUME NEW id \in 0 .. sharded_max_id - 1
      PROVE  /\ Sharded!ShardOf(id) \in AllocatorShards
             /\ Sharded!LocalOf(id) \in Sharded!LocalIds(Sharded!ShardOf(id))
             /\ Sharded!Global(Sharded!ShardOf(id), Sharded!LocalOf(id)) = id
  <2>1. id \in Nat /\ id < sharded_max_id
    BY <1>1
  <2>2. id = (id \div ShardSize) * ShardSize + (id % ShardSize) /\ id % ShardSize \in 0 .. ShardSize - 1
    BY <1>1, <2>1, IdsSplit
  <2>3. id \div ShardSize \in AllocatorShards
    BY <1>1, ShardsCover
  <2> QED BY <2>1, <2>2, <2>3 DEF Sharded!Global, Sharded!ShardOf, Sharded!LocalOf, Sharded!LocalIds
<1> QED BY <1>2, <1>3

\* What the property says of the marks.
LEMMA MarkedIsUsed ==
    ASSUME ShardsInv
    PROVE  Sharded!TypeOK /\ Sharded!HeldIsUsed
<1> DEFINE G == UNION {held[th] : th \in Threads}
<1>1. ASSUME NEW s \in AllocatorShards
      PROVE  used[s] = {Sharded!LocalOf(id) : id \in {i \in G : Sharded!ShardOf(i) = s}}
  <2>1. ASSUME NEW l \in used[s]
        PROVE  \E id \in G : Sharded!ShardOf(id) = s /\ Sharded!LocalOf(id) = l
    <3>1. l \in Sharded!LocalIds(s)
      BY <2>1 DEF ShardsInv, ShardTypes
    <3>2. PICK th \in Threads : Sharded!Global(s, l) \in held[th]
      BY <2>1, <3>1 DEF ShardsInv, Marked
    <3>3. Sharded!Global(s, l) \in G
      BY <3>2
    <3> QED BY <3>1, <3>3, ShardIds
  <2>2. ASSUME NEW id \in G, Sharded!ShardOf(id) = s
        PROVE  Sharded!LocalOf(id) \in used[s]
    <3>1. PICK th \in Threads : id \in held[th]
      OBVIOUS
    <3>2. id \in 0 .. sharded_max_id - 1
      BY <3>1 DEF ShardsInv, ShardTypes
    <3>3. Sharded!LocalOf(id) \in Sharded!LocalIds(s) /\ Sharded!Global(s, Sharded!LocalOf(id)) = id
      BY <2>2, <3>2, ShardIds
    <3> QED BY <3>1, <3>3 DEF ShardsInv, Marked
  <2> HIDE DEF G
  <2> QED BY <2>1, <2>2
<1>2. Sharded!TypeOK
  BY DEF ShardsInv, ShardTypes, Places, Sharded!TypeOK
<1> QED BY <1>1, <1>2 DEF ShardsInv, HeldApart, Sharded!HeldIsUsed

\* The lowest free id of a shard that is not full is free.
LEMMA LowestIsFree ==
    ASSUME ShardTypes, NEW s \in AllocatorShards, used[s] # Sharded!LocalIds(s)
    PROVE  Sharded!Lowest(s) \in Sharded!LocalIds(s) \ used[s]
<1> DEFINE F == Sharded!LocalIds(s) \ used[s]
<1>1. F # {} /\ F \in SUBSET Nat
  BY DEF ShardTypes, Sharded!LocalIds
<1>2. \E v \in F : \A w \in F : v <= w
  <2> HIDE DEF F
  <2> QED BY <1>1, Least
<1> QED BY <1>2 DEF Sharded!Lowest

\* A thread that is idle or scanning is not about to claim.
LEMMA NotClaiming ==
    /\ Sharded!Idle.pc # "claiming" /\ Sharded!Scanning.pc # "claiming"
    /\ Sharded!Idle \in Places /\ Sharded!Scanning \in Places
BY DEF Sharded!Idle, Sharded!Scanning, Places

\* A call of allocate, and one that found nothing, mark and hold nothing.
LEMMA CallKeepsShards ==
    ASSUME ShardsInv, NEW t \in Threads, Sharded!CallAllocate(t) \/ Sharded!ReturnNone(t)
    PROVE  ShardsInv'
<1>1. /\ UNCHANGED <<used, lock, held>>
      /\ unvisited' = unvisited \/ unvisited' = [unvisited EXCEPT ![t] = AllocatorShards]
  BY DEF Sharded!CallAllocate, Sharded!ReturnNone
<1>2. PICK place \in {Sharded!Idle, Sharded!Scanning} : at' = [at EXCEPT ![t] = place]
  BY DEF Sharded!CallAllocate, Sharded!ReturnNone
<1>3. place.pc # "claiming" /\ place \in Places
  BY NotClaiming
<1>4. ShardTypes'
  BY <1>1, <1>2, <1>3 DEF ShardsInv, ShardTypes
<1>5. \A th \in Threads : at'[th] = IF th = t THEN place ELSE at[th]
  BY <1>2 DEF ShardsInv, ShardTypes
<1>6. ClaimsAreLocked'
  BY <1>1, <1>3, <1>5 DEF ShardsInv, ClaimsAreLocked
<1>7. HeldApart' /\ Marked'
  BY <1>1 DEF ShardsInv, HeldApart, Marked
<1> QED BY <1>4, <1>6, <1>7 DEF ShardsInv

\* A search that finds a free id keeps the lock of its shard.
LEMMA SearchKeepsShards ==
    ASSUME ShardsInv, NEW t \in Threads, NEW s \in AllocatorShards, Sharded!Search(t, s)
    PROVE  ShardsInv'
<1>1. /\ lock[s] = Nobody /\ at[t] = Sharded!Scanning
      /\ unvisited' = [unvisited EXCEPT ![t] = @ \ {s}] /\ UNCHANGED <<used, held>>
  BY DEF Sharded!Search
<1>2. HeldApart' /\ Marked'
  BY <1>1 DEF ShardsInv, HeldApart, Marked
<1>3. CASE used[s] = Sharded!LocalIds(s)
  <2>1. UNCHANGED <<at, lock>>
    BY <1>3 DEF Sharded!Search
  <2> QED BY <1>1, <1>2, <2>1 DEF ShardsInv, ShardTypes, ClaimsAreLocked
<1>4. CASE used[s] # Sharded!LocalIds(s)
  <2>1. PICK l : l = Sharded!Lowest(s)
    OBVIOUS
  <2>2. l \in Sharded!LocalIds(s) \ used[s] /\ l \in 0 .. ShardSize - 1
    BY <1>4, <2>1, LowestIsFree, ShardIds DEF ShardsInv
  <2>3. PICK place : place = [pc |-> "claiming", shard |-> s, local |-> l]
    OBVIOUS
  <2>4. /\ place \in Places /\ place.pc = "claiming" /\ place.shard = s /\ place.local = l
    BY <2>2, <2>3 DEF Places
  <2>5. at' = [at EXCEPT ![t] = place] /\ lock' = [lock EXCEPT ![s] = t]
    BY <1>4, <2>1, <2>3 DEF Sharded!Search
  <2>6. ShardTypes'
    BY <1>1, <2>4, <2>5 DEF ShardsInv, ShardTypes
  <2>7. /\ \A th \in Threads : at'[th] = IF th = t THEN place ELSE at[th]
        /\ \A r \in AllocatorShards : lock'[r] = IF r = s THEN t ELSE lock[r]
    BY <2>5 DEF ShardsInv, ShardTypes
  <2>8. ASSUME NEW th \in Threads, at'[th].pc = "claiming"
        PROVE  /\ at'[th].shard \in AllocatorShards
               /\ lock'[at'[th].shard] = th
               /\ at'[th].local \in Sharded!LocalIds(at'[th].shard) \ used'[at'[th].shard]
    <3>1. CASE th = t
      BY <1>1, <2>2, <2>4, <2>7, <3>1
    <3>2. CASE th # t
      <4>1. /\ at[th].shard \in AllocatorShards /\ lock[at[th].shard] = th /\ at'[th] = at[th]
            /\ at[th].local \in Sharded!LocalIds(at[th].shard) \ used[at[th].shard]
        BY <2>7, <2>8, <3>2 DEF ShardsInv, ClaimsAreLocked
      <4>2. th # Nobody
        BY TierConstants DEF Sharded!ThreadSafeConstants
      <4>3. at[th].shard # s
        BY <1>1, <4>1, <4>2
      <4> QED BY <1>1, <2>7, <4>1, <4>3
    <3> QED BY <3>1, <3>2
  <2> QED BY <1>2, <2>6, <2>8 DEF ShardsInv, ClaimsAreLocked
<1> QED BY <1>3, <1>4

\* A claim marks the id that its thread is given.
LEMMA ClaimKeepsShards ==
    ASSUME ShardsInv, NEW t \in Threads, Sharded!Claim(t)
    PROVE  ShardsInv'
<1>1. PICK s, l, g : s = at[t].shard /\ l = at[t].local /\ g = Sharded!Global(s, l)
  OBVIOUS
<1>2. /\ s \in AllocatorShards /\ lock[s] = t /\ l \in Sharded!LocalIds(s) /\ l \notin used[s]
  BY <1>1 DEF ShardsInv, ClaimsAreLocked, Sharded!Claim
<1>3. /\ used' = [used EXCEPT ![s] = @ \union {l}] /\ lock' = [lock EXCEPT ![s] = Nobody]
      /\ held' = [held EXCEPT ![t] = @ \union {g}] /\ at' = [at EXCEPT ![t] = Sharded!Idle]
      /\ unvisited' = unvisited
  BY <1>1 DEF Sharded!Claim
<1>4. g \in 0 .. sharded_max_id - 1 /\ l \in 0 .. ShardSize - 1
  BY <1>1, <1>2, ShardIds
<1>5. ShardTypes'
  BY <1>2, <1>3, <1>4, NotClaiming DEF ShardsInv, ShardTypes
<1>6. /\ \A th \in Threads : at'[th] = IF th = t THEN Sharded!Idle ELSE at[th]
      /\ \A r \in AllocatorShards : lock'[r] = IF r = s THEN Nobody ELSE lock[r]
      /\ \A r \in AllocatorShards : used'[r] = IF r = s THEN used[s] \union {l} ELSE used[r]
      /\ \A th \in Threads : held'[th] = IF th = t THEN held[t] \union {g} ELSE held[th]
  BY <1>3 DEF ShardsInv, ShardTypes
<1>7. \A th \in Threads : g \notin held[th]
  BY <1>1, <1>2 DEF ShardsInv, Marked
<1>8. ClaimsAreLocked'
  <2> SUFFICES ASSUME NEW th \in Threads, at'[th].pc = "claiming"
               PROVE  /\ at'[th].shard \in AllocatorShards
                      /\ lock'[at'[th].shard] = th
                      /\ at'[th].local \in Sharded!LocalIds(at'[th].shard) \ used'[at'[th].shard]
    BY DEF ClaimsAreLocked
  <2>1. th # t /\ at'[th] = at[th]
    BY <1>6, NotClaiming
  <2>2. /\ at[th].shard \in AllocatorShards /\ lock[at[th].shard] = th
        /\ at[th].local \in Sharded!LocalIds(at[th].shard) \ used[at[th].shard]
    BY <2>1 DEF ShardsInv, ClaimsAreLocked
  <2>3. at[th].shard # s
    BY <1>2, <2>1, <2>2
  <2> QED BY <1>6, <2>1, <2>2, <2>3
<1>9. HeldApart'
  BY <1>6, <1>7 DEF ShardsInv, HeldApart
<1>10. Marked'
  <2> SUFFICES ASSUME NEW r \in AllocatorShards, NEW k \in Sharded!LocalIds(r)
               PROVE  k \in used'[r] <=> \E th \in Threads : Sharded!Global(r, k) \in held'[th]
    BY DEF Marked
  <2>1. k \in used[r] <=> \E th \in Threads : Sharded!Global(r, k) \in held[th]
    BY DEF ShardsInv, Marked
  <2>2. Sharded!Global(r, k) = g <=> r = s /\ k = l
    BY <1>1, <1>2, ShardIds
  <2>3. k \in used'[r] <=> k \in used[r] \/ (r = s /\ k = l)
    BY <1>6
  <2>4. (\E th \in Threads : Sharded!Global(r, k) \in held'[th]) <=>
        (\E th \in Threads : Sharded!Global(r, k) \in held[th]) \/ Sharded!Global(r, k) = g
    BY <1>6
  <2> QED BY <2>1, <2>2, <2>3, <2>4
<1> QED BY <1>5, <1>8, <1>9, <1>10 DEF ShardsInv

\* A release unmarks the id that its thread gives back.
LEMMA ReleaseKeepsShards ==
    ASSUME ShardsInv, NEW t \in Threads, NEW g \in held[t], Sharded!Release(t, g)
    PROVE  ShardsInv'
<1>1. PICK s, l : s = Sharded!ShardOf(g) /\ l = Sharded!LocalOf(g)
  OBVIOUS
<1>2. g \in 0 .. sharded_max_id - 1
  BY DEF ShardsInv, ShardTypes
<1>3. s \in AllocatorShards /\ l \in Sharded!LocalIds(s) /\ Sharded!Global(s, l) = g
  BY <1>1, <1>2, ShardIds
<1>4. /\ lock[s] = Nobody /\ used' = [used EXCEPT ![s] = @ \ {l}]
      /\ held' = [held EXCEPT ![t] = @ \ {g}] /\ UNCHANGED <<lock, unvisited, at>>
  BY <1>1 DEF Sharded!Release
<1>5. ShardTypes'
  BY <1>3, <1>4 DEF ShardsInv, ShardTypes
<1>6. /\ \A r \in AllocatorShards : used'[r] = IF r = s THEN used[s] \ {l} ELSE used[r]
      /\ \A th \in Threads : held'[th] = IF th = t THEN held[t] \ {g} ELSE held[th]
  BY <1>4 DEF ShardsInv, ShardTypes
<1>7. \A th \in Threads : th # t => g \notin held[th]
  BY DEF ShardsInv, HeldApart
<1>8. ClaimsAreLocked'
  BY <1>4, <1>6 DEF ShardsInv, ClaimsAreLocked
<1>9. HeldApart'
  BY <1>6 DEF ShardsInv, HeldApart
<1>10. Marked'
  <2> SUFFICES ASSUME NEW r \in AllocatorShards, NEW k \in Sharded!LocalIds(r)
               PROVE  k \in used'[r] <=> \E th \in Threads : Sharded!Global(r, k) \in held'[th]
    BY DEF Marked
  <2>1. k \in used[r] <=> \E th \in Threads : Sharded!Global(r, k) \in held[th]
    BY DEF ShardsInv, Marked
  <2>2. Sharded!Global(r, k) = g <=> r = s /\ k = l
    BY <1>3, ShardIds
  <2>3. k \in used'[r] <=> k \in used[r] /\ ~(r = s /\ k = l)
    BY <1>6
  <2>4. (\E th \in Threads : Sharded!Global(r, k) \in held'[th]) <=>
        (\E th \in Threads : Sharded!Global(r, k) \in held[th]) /\ Sharded!Global(r, k) # g
    BY <1>6, <1>7
  <2> QED BY <2>1, <2>2, <2>3, <2>4
<1> QED BY <1>5, <1>8, <1>9, <1>10 DEF ShardsInv

\* Every step of the threads keeps the invariant.
LEMMA ShardsInductive == ShardsInv /\ [Sharded!Next]_(Sharded!vars) => ShardsInv'
<1> SUFFICES ASSUME ShardsInv, [Sharded!Next]_(Sharded!vars) PROVE ShardsInv'
  OBVIOUS
<1>1. CASE UNCHANGED Sharded!vars
  BY <1>1 DEF Sharded!vars, ShardsInv, ShardTypes, ClaimsAreLocked, HeldApart, Marked
<1>2. CASE Sharded!Next
  <2>1. PICK t \in Threads :
          \/ Sharded!CallAllocate(t) \/ Sharded!Claim(t) \/ Sharded!ReturnNone(t)
          \/ \E s \in AllocatorShards : Sharded!Search(t, s)
          \/ \E g \in held[t] : Sharded!Release(t, g)
    BY <1>2 DEF Sharded!Next
  <2> QED BY <2>1, CallKeepsShards, SearchKeepsShards, ClaimKeepsShards, ReleaseKeepsShards
<1> QED BY <1>1, <1>2

\* Initially nothing is marked and nothing held.
LEMMA ShardsStart == Sharded!Init => ShardsInv
BY NotClaiming DEF Sharded!Init, ShardsInv, ShardTypes, ClaimsAreLocked, HeldApart, Marked

-----------------------------------------------------------------------------
(* The bitmap *)

\* No release counts more free ids than there are: no bit is ever set.
BitmapInv == Bitmap!TypeOK /\ bits = [i \in Bitmap!Ids |-> 0]

\* Every step of the bitmap allocator keeps that.
LEMMA BitmapInductive ==
    ASSUME Bitmap!BitmapConstants, BitmapInv, [Bitmap!Next]_(Bitmap!vars)
    PROVE  BitmapInv'
<1>1. CASE Bitmap!Exhausted
  BY <1>1 DEF Bitmap!Exhausted, BitmapInv, Bitmap!TypeOK
<1>2. ASSUME NEW i \in Bitmap!Ids, Bitmap!Allocate(i) PROVE BitmapInv'
  BY <1>2 DEF Bitmap!Allocate, BitmapInv, Bitmap!TypeOK, Bitmap!BitmapConstants
<1>3. ASSUME NEW i \in Bitmap!Ids, Bitmap!Release(i) PROVE BitmapInv'
  BY <1>3 DEF Bitmap!Release, BitmapInv, Bitmap!TypeOK
<1>4. CASE UNCHANGED Bitmap!vars
  BY <1>4 DEF Bitmap!vars, BitmapInv, Bitmap!TypeOK
<1> QED BY <1>1, <1>2, <1>3, <1>4 DEF Bitmap!Next

\* Threads hold distinct ids, exactly those their shards have marked, for any
\* threads, shard size and number of ids, and every allocator keeps its types.
THEOREM ShardedHeldIsUsedAlways == StoresSpec => []ShardedHeldIsUsed
<1> DEFINE Inv == FreelistInv /\ BitmapInv /\ ShardsInv
<1>1. StoresInit => Inv
  <2>1. Bitmap!BitmapConstants /\ Bitmap!Init => BitmapInv
    BY DEF Bitmap!BitmapConstants, Bitmap!Init, BitmapInv, Bitmap!TypeOK
  <2> QED BY <2>1, StoresTakeSteps, TierConstants, FreelistStarts, ShardsStart
<1>2. Inv /\ [StoresNext]_all => Inv'
  BY StoresTakeSteps, TierConstants, FreelistStepsPromise, BitmapInductive, ShardsInductive
<1>3. Inv => ShardedHeldIsUsed
  BY MarkedIsUsed DEF FreelistInv, BitmapInv, ShardedHeldIsUsed
<1> QED BY <1>1, <1>2, <1>3, PTL DEF StoresSpec
-----------------------------------------------------------------------------
(* The store with transactions *)

Plain == StoreValues \union {Nothing}

\* The base and the overlay map keys to what may be put into them.
TxnInv ==
    /\ DOMAIN base \subseteq StoreKeys /\ base \in [DOMAIN base -> Plain]
    /\ txn # Nothing => /\ DOMAIN txn \subseteq StoreKeys
                        /\ txn \in [DOMAIN txn -> Plain \union {Tombstone}]

\* An overlay is no None, and a tombstone no value.
LEMMA OverlaysAreOpen ==
    /\ \A K \in SUBSET StoreKeys : \A f \in [K -> Plain \union {Tombstone}] : f # Nothing
    /\ Tombstone \notin Plain
BY TierConstants DEF Transactional!TransactionalConstants, Plain

\* What reads answer, and what they would answer after a rollback.
Reads == [k \in StoreKeys |-> Transactional!Get(k)]
Rests == [k \in StoreKeys |-> Transactional!InBase(k)]

\* A put or a delete is one write.
LEMMA WritesAreWrites ==
    ASSUME TxnInv, NEW k \in StoreKeys, NEW v \in Plain,
           Transactional!Put(k, v) \/ (Transactional!Delete(k) /\ v = Nothing)
    PROVE  /\ TxnInv' /\ (txn' # Nothing <=> txn # Nothing)
           /\ Reads' = [Reads EXCEPT ![k] = v]
           /\ Rests' = IF txn # Nothing THEN Rests ELSE Reads'
           /\ txn_asked' = <<k, v>>
<1>1. txn_asked' = <<k, v>>
  BY DEF Transactional!Put, Transactional!Delete
<1>2. CASE txn # Nothing
  <2>1. PICK w \in Plain \union {Tombstone} :
              /\ txn' = Transactional!With(txn, k, w) /\ base' = base
              /\ v = IF w = Tombstone THEN Nothing ELSE w
    BY <1>2, OverlaysAreOpen DEF Transactional!Put, Transactional!Delete, Transactional!InTransaction
  <2>2. /\ DOMAIN txn' = (DOMAIN txn) \union {k}
        /\ txn' \in [(DOMAIN txn) \union {k} -> Plain \union {Tombstone}]
        /\ \A j \in (DOMAIN txn) \union {k} : txn'[j] = IF j = k THEN w ELSE txn[j]
    BY <1>2, <2>1 DEF TxnInv, Transactional!With
  <2>3. TxnInv' /\ txn' # Nothing
    BY <2>1, <2>2, <1>2, OverlaysAreOpen DEF TxnInv
  <2>4. Rests' = Rests
    BY <2>1 DEF Rests, Transactional!InBase
  <2>5. \A j \in StoreKeys : Transactional!Get(j)' = IF j = k THEN v ELSE Transactional!Get(j)
    BY <1>2, <2>1, <2>2, <2>3 DEF Transactional!Get, Transactional!InTransaction, Transactional!InBase
  <2> QED BY <1>1, <1>2, <2>3, <2>4, <2>5 DEF Reads
<1>3. CASE txn = Nothing
  <2>1. /\ txn' = txn
        /\ \/ base' = Transactional!With(base, k, v)
           \/ base' = Transactional!Without(base, k) /\ v = Nothing
    BY <1>3 DEF Transactional!Put, Transactional!Delete, Transactional!InTransaction
  <2>2. /\ DOMAIN base' \subseteq StoreKeys /\ base' \in [DOMAIN base' -> Plain]
        /\ \A j \in StoreKeys : Transactional!InBase(j)' = IF j = k THEN v ELSE Transactional!InBase(j)
    <3>1. CASE base' = Transactional!With(base, k, v)
      BY <3>1 DEF TxnInv, Transactional!InBase, Transactional!With
    <3>2. CASE base' = Transactional!Without(base, k) /\ v = Nothing
      BY <3>2 DEF TxnInv, Transactional!InBase, Transactional!Without, Plain
    <3> QED BY <2>1, <3>1, <3>2
  <2>3. TxnInv' /\ txn' = Nothing
    BY <1>3, <2>1, <2>2 DEF TxnInv
  <2>4. /\ \A j \in StoreKeys : Transactional!Get(j) = Transactional!InBase(j)
        /\ \A j \in StoreKeys : Transactional!Get(j)' = Transactional!InBase(j)'
    BY <1>3, <2>3 DEF Transactional!Get, Transactional!InTransaction
  <2> QED BY <1>1, <1>3, <2>2, <2>3, <2>4 DEF Reads, Rests
<1> QED BY <1>2, <1>3

\* A begin opens an overlay that covers nothing.
LEMMA BeginsAreBegins ==
    ASSUME TxnInv, Transactional!Begin
    PROVE  /\ TxnInv' /\ txn = Nothing /\ txn' # Nothing
           /\ Reads' = Reads /\ Rests' = Rests /\ txn_asked' = txn_asked
<1>1. /\ txn = Nothing /\ txn' = Transactional!Empty /\ base' = base /\ txn_asked' = txn_asked
  BY DEF Transactional!Begin, Transactional!InTransaction
<1>2. DOMAIN txn' = {} /\ txn' \in [{} -> Plain \union {Tombstone}]
  BY <1>1 DEF Transactional!Empty
<1>3. TxnInv' /\ txn' # Nothing
  BY <1>1, <1>2, OverlaysAreOpen DEF TxnInv
<1>4. /\ \A j \in StoreKeys : Transactional!Get(j)' = Transactional!Get(j)
      /\ \A j \in StoreKeys : Transactional!InBase(j)' = Transactional!InBase(j)
  BY <1>1, <1>2 DEF Transactional!Get, Transactional!InTransaction, Transactional!InBase
<1> QED BY <1>1, <1>3, <1>4 DEF Reads, Rests

\* A rollback leaves what reads answered before.
LEMMA RollbacksAreRollbacks ==
    ASSUME TxnInv, Transactional!Rollback
    PROVE  /\ TxnInv' /\ txn # Nothing /\ txn' = Nothing
           /\ Reads' = Rests /\ Rests' = Rests /\ txn_asked' = txn_asked
<1>1. txn # Nothing /\ txn' = Nothing /\ base' = base /\ txn_asked' = txn_asked
  BY DEF Transactional!Rollback, Transactional!InTransaction
<1>2. \A j \in StoreKeys : /\ Transactional!Get(j)' = Transactional!InBase(j)
                           /\ Transactional!InBase(j)' = Transactional!InBase(j)
  BY <1>1 DEF Transactional!Get, Transactional!InTransaction, Transactional!InBase
<1> QED BY <1>1, <1>2 DEF TxnInv, Reads, Rests

\* A commit keeps what reads answer.
LEMMA CommitsAreCommits ==
    ASSUME TxnInv, Transactional!Commit
    PROVE  /\ TxnInv' /\ txn # Nothing /\ txn' = Nothing
           /\ Reads' = Reads /\ Rests' = Reads /\ txn_asked' = txn_asked
<1>1. txn # Nothing /\ txn' = Nothing /\ txn_asked' = txn_asked
  BY DEF Transactional!Commit, Transactional!InTransaction
<1> DEFINE deleted == {k \in DOMAIN txn : txn[k] = Tombstone}
           left == (DOMAIN txn \union DOMAIN base) \ deleted
<1>2. base' = [k \in left |-> IF k \in DOMAIN txn THEN txn[k] ELSE base[k]]
  BY DEF Transactional!Commit
<1>3. /\ DOMAIN txn \subseteq StoreKeys /\ txn \in [DOMAIN txn -> Plain \union {Tombstone}]
      /\ DOMAIN base \subseteq StoreKeys /\ base \in [DOMAIN base -> Plain]
  BY <1>1 DEF TxnInv
<1>4. DOMAIN base' = left /\ \A k \in left : base'[k] = IF k \in DOMAIN txn THEN txn[k] ELSE base[k]
  BY <1>2
<1>5. \A k \in left : base'[k] \in Plain
  BY <1>3, <1>4
<1>6. base' \in [left -> Plain] /\ left \subseteq StoreKeys
  BY <1>2, <1>3, <1>5
<1>7. TxnInv'
  BY <1>1, <1>4, <1>6 DEF TxnInv
<1>8. ASSUME NEW j \in StoreKeys
      PROVE  Transactional!InBase(j)' = Transactional!Get(j) /\ Transactional!Get(j)' = Transactional!Get(j)
  <2>1. Transactional!Get(j)' = Transactional!InBase(j)'
    BY <1>1 DEF Transactional!Get, Transactional!InTransaction
  <2>2. Transactional!InBase(j)' = IF j \in left THEN base'[j] ELSE Nothing
    BY <1>4 DEF Transactional!InBase
  <2>3. Transactional!Get(j) =
          IF j \in DOMAIN txn THEN IF txn[j] = Tombstone THEN Nothing ELSE txn[j]
          ELSE IF j \in DOMAIN base THEN base[j] ELSE Nothing
    BY <1>1 DEF Transactional!Get, Transactional!InTransaction, Transactional!InBase
  <2> QED BY <1>4, <2>1, <2>2, <2>3
<1> QED BY <1>1, <1>7, <1>8 DEF Reads, Rests

\* Every step of the store is one of the atomic store.
LEMMA TxnStepsAreAtomic ==
    ASSUME TxnInv, [Transactional!Next]_(Transactional!vars)
    PROVE  TxnInv' /\ [Transactional!Atomic!Next]_(Transactional!Atomic!vars)
<1>1. ASSUME NEW k \in StoreKeys, NEW v \in Plain,
             Transactional!Put(k, v) \/ (Transactional!Delete(k) /\ v = Nothing)
      PROVE  TxnInv' /\ Transactional!Atomic!Next
  <2>1. /\ TxnInv' /\ (txn' # Nothing <=> txn # Nothing)
        /\ Reads' = [Reads EXCEPT ![k] = v]
        /\ Rests' = IF txn # Nothing THEN Rests ELSE Reads'
        /\ txn_asked' = <<k, v>>
    BY <1>1, WritesAreWrites
  <2>2. Transactional!Atomic!Write(k, v)
    BY <2>1 DEF Transactional!Atomic!Write, Transactional!InTransaction, Reads, Rests
  <2> QED BY <2>1, <2>2 DEF Transactional!Atomic!Next, Plain
<1>2. CASE Transactional!Begin
  <2>1. Transactional!Atomic!Begin
    BY <1>2, BeginsAreBegins DEF Transactional!Atomic!Begin, Transactional!InTransaction, Reads, Rests
  <2> QED BY <1>2, <2>1, BeginsAreBegins DEF Transactional!Atomic!Next
<1>3. CASE Transactional!Commit
  <2>1. Transactional!Atomic!Commit
    BY <1>3, CommitsAreCommits DEF Transactional!Atomic!Commit, Transactional!InTransaction, Reads, Rests
  <2> QED BY <1>3, <2>1, CommitsAreCommits DEF Transactional!Atomic!Next
<1>4. CASE Transactional!Rollback
  <2>1. Transactional!Atomic!Rollback
    BY <1>4, RollbacksAreRollbacks DEF Transactional!Atomic!Rollback, Transactional!InTransaction, Reads, Rests
  <2> QED BY <1>4, <2>1, RollbacksAreRollbacks DEF Transactional!Atomic!Next
<1>5. CASE UNCHANGED Transactional!vars
  BY <1>5 DEF Transactional!vars, Transactional!Atomic!vars, TxnInv, Transactional!InTransaction,
              Transactional!InBase, Transactional!Get
<1>6. ASSUME NEW k \in StoreKeys, Transactional!Delete(k)
      PROVE  TxnInv' /\ Transactional!Atomic!Next
  <2>1. Nothing \in Plain
    BY DEF Plain
  <2> QED BY <1>1, <1>6, <2>1
<1> QED BY <1>1, <1>2, <1>3, <1>4, <1>5, <1>6 DEF Transactional!Next, Plain

\* Initially the store is empty and no transaction open.
LEMMA TxnStarts == Transactional!Init => TxnInv /\ Transactional!Atomic!Init
BY DEF Transactional!Init, TxnInv, Transactional!Atomic!Init, Transactional!Empty,
       Transactional!InTransaction, Transactional!InBase, Transactional!Get

-----------------------------------------------------------------------------
(* The stores that expire *)

Times == Int \union {Nothing}

\* What every tier does to the clock.
ClockStep == now' = now \/ now' = now + 1

TTLInv ==
    /\ now \in Int
    /\ store \in [StoreKeys -> [value : StoreValues, expires_at : Times] \union {Nothing}]

\* An entry is over from the time it expires at.
LEMMA Overs ==
    ASSUME NEW e \in [value : StoreValues, expires_at : Times], NEW t \in Int
    PROVE  /\ e # Nothing
           /\ Expiring!Eager!Over(e, t) <=> e.expires_at # Nothing /\ t >= e.expires_at
           /\ ~Expiring!Eager!Over(Nothing, t)
<1>1. e # Nothing /\ Nothing \notin Int
  BY TierConstants DEF Expiring!TTLConstants, Times
<1>2. e.expires_at # Nothing => e.expires_at \in Int
  BY DEF Times
<1> QED BY <1>1, <1>2 DEF Expiring!Eager!Over

\* What a read answers, and what it answers later.
LEMMA Answers ==
    ASSUME TTLInv, NEW k \in StoreKeys
    PROVE  Expiring!Answer(k) = IF Expiring!Eager!Over(store[k], now) THEN Nothing ELSE store[k]
<1>1. CASE store[k] = Nothing
  BY <1>1 DEF Expiring!Answer, Expiring!Missing
<1>2. CASE store[k] \in [value : StoreValues, expires_at : Times]
  BY <1>2, Overs DEF TTLInv, Expiring!Answer, Expiring!Missing, Expiring!IsExpired
<1> QED BY <1>1, <1>2 DEF TTLInv

\* The new entry of a put.
LEMMA NewEntry ==
    ASSUME now \in Int, NEW v \in StoreValues, NEW ttl \in StoreTtls
    PROVE  Expiring!Eager!Entry(v, ttl) \in [value : StoreValues, expires_at : Times]
BY TierConstants DEF Expiring!TTLConstants, Expiring!Eager!Entry, Times

\* What reads of the store answer.
Live(e, t) == IF Expiring!Eager!Over(e, t) THEN Nothing ELSE e

\* It is what is live of its entries.
LEMMA LiveIs ==
    TTLInv => Expiring!Live = [k \in StoreKeys |-> Live(store[k], now)]
BY Answers DEF Expiring!Live, Live

\* The same of the next state.
LEMMA LiveIsNext ==
    TTLInv' => Expiring!Live' = [k \in StoreKeys |-> Live(store'[k], now')]
<1>1. (TTLInv => Expiring!Live = [k \in StoreKeys |-> Live(store[k], now)])'
  BY LiveIs, PTL
<1> QED BY <1>1 DEF Live, Expiring!Eager!Over

\* A second passes.
LEMMA TTLTickExpires ==
    ASSUME TTLInv, now' = now + 1, UNCHANGED <<store, store_asked>>
    PROVE  TTLInv' /\ Expiring!Eager!Tick
<1>1. TTLInv'
  BY DEF TTLInv
<1>2. \A k \in StoreKeys : Live(store[k], now + 1) =
         IF Expiring!Eager!Over(Live(store[k], now), now + 1) THEN Nothing ELSE Live(store[k], now)
  <2> SUFFICES ASSUME NEW k \in StoreKeys
               PROVE  Live(store[k], now + 1) =
                        IF Expiring!Eager!Over(Live(store[k], now), now + 1) THEN Nothing
                        ELSE Live(store[k], now)
    OBVIOUS
  <2>1. CASE store[k] = Nothing
    BY <2>1 DEF Live
  <2>2. CASE store[k] \in [value : StoreValues, expires_at : Times]
    <3>1. now \in Int /\ now + 1 \in Int
      BY DEF TTLInv
    <3>2. Expiring!Eager!Over(store[k], now) => Expiring!Eager!Over(store[k], now + 1)
      <4>1. store[k].expires_at # Nothing => store[k].expires_at \in Int
        BY <2>2 DEF Times
      <4> QED BY <2>2, <3>1, <4>1, Overs
    <3>3. ~Expiring!Eager!Over(Nothing, now + 1)
      BY <2>2, <3>1, Overs
    <3> QED BY <3>2, <3>3 DEF Live
  <2> QED BY <2>1, <2>2 DEF TTLInv
<1> QED BY <1>1, <1>2, LiveIs, LiveIsNext DEF Expiring!Eager!Tick

\* The store keeps its types, and what reads answer changes as it should.
LEMMA TTLStepsExpire ==
    ASSUME TTLInv, Expiring!Next
    PROVE  TTLInv' /\ [Expiring!Eager!Next]_(Expiring!Eager!vars)
<1> DEFINE E(k, s, t) == Live(s[k], t)
<1>1. Expiring!Live = [k \in StoreKeys |-> E(k, store, now)]
  BY LiveIs
<1>2. ASSUME TTLInv' PROVE Expiring!Live' = [k \in StoreKeys |-> E(k, store', now')]
  BY <1>2, LiveIsNext
<1>3. CASE Expiring!Tick
  BY <1>3, TTLTickExpires DEF Expiring!Tick, Expiring!Eager!Next
<1>4. ASSUME /\ now' = now /\ store_asked' = store_asked
             /\ store' \in [StoreKeys -> [value : StoreValues, expires_at : Times] \union {Nothing}]
             /\ \A k \in StoreKeys : store'[k] = store[k] \/ store'[k] = Expiring!Answer(k)
      PROVE  TTLInv' /\ UNCHANGED Expiring!Eager!vars
  <2>1. TTLInv'
    BY <1>4 DEF TTLInv
  <2>2. \A k \in StoreKeys : E(k, store', now') = E(k, store, now)
    <3> SUFFICES ASSUME NEW k \in StoreKeys PROVE E(k, store', now') = E(k, store, now)
      OBVIOUS
    <3>1. Expiring!Answer(k) = E(k, store, now)
      BY Answers DEF Live
    <3>2. CASE Expiring!Eager!Over(store[k], now)
      BY <1>4, <3>1, <3>2 DEF Live
    <3>3. CASE ~Expiring!Eager!Over(store[k], now)
      BY <1>4, <3>1, <3>3 DEF Live
    <3> QED BY <3>2, <3>3
  <2> QED BY <1>1, <1>2, <1>4, <2>1, <2>2 DEF Expiring!Eager!vars
<1>5. CASE Expiring!SweepExpired
  <2>1. \A k \in StoreKeys : Expiring!Answer(k) = store[k] \/ Expiring!Answer(k) = Nothing
    BY Answers
  <2>2. /\ now' = now /\ store_asked' = store_asked
        /\ store' = [k \in StoreKeys |-> Expiring!Answer(k)]
    BY <1>5 DEF Expiring!SweepExpired
  <2> QED BY <1>4, <2>1, <2>2 DEF TTLInv
<1>6. ASSUME NEW j \in StoreKeys, Expiring!Get(j)
      PROVE  TTLInv' /\ UNCHANGED Expiring!Eager!vars
  <2>1. Expiring!Answer(j) = store[j] \/ Expiring!Answer(j) = Nothing
    BY Answers
  <2>2. /\ now' = now /\ store_asked' = store_asked
        /\ store' = [store EXCEPT ![j] = Expiring!Answer(j)]
    BY <1>6 DEF Expiring!Get
  <2> QED BY <1>4, <2>1, <2>2 DEF TTLInv
<1>7. ASSUME NEW j \in StoreKeys, Expiring!Delete(j)
      PROVE  TTLInv' /\ Expiring!Eager!Next
  <2>1. now' = now /\ store_asked' = <<j>> /\ store' = [store EXCEPT ![j] = Nothing]
    BY <1>7 DEF Expiring!Delete
  <2>2. TTLInv'
    BY <2>1 DEF TTLInv
  <2>3. \A k \in StoreKeys : E(k, store', now') = IF k = j THEN Nothing ELSE E(k, store, now)
    BY <2>1 DEF TTLInv, Live, Expiring!Eager!Over
  <2>4. Expiring!Eager!Delete(j)
    BY <1>1, <1>2, <2>1, <2>2, <2>3 DEF Expiring!Eager!Delete
  <2> QED BY <2>2, <2>4 DEF Expiring!Eager!Next
<1>8. ASSUME NEW j \in StoreKeys, NEW v \in StoreValues, NEW ttl \in StoreTtls,
             Expiring!Put(j, v, ttl)
      PROVE  TTLInv' /\ Expiring!Eager!Next
  <2>1. PICK e : e = Expiring!Eager!Entry(v, ttl)
    OBVIOUS
  <2>2. /\ now' = now /\ store_asked' = <<j, v, ttl>> /\ store' = [store EXCEPT ![j] = e]
    BY <1>8, <2>1 DEF Expiring!Put, Expiring!Eager!Entry
  <2>3. e \in [value : StoreValues, expires_at : Times]
    BY <2>1, NewEntry DEF TTLInv
  <2>4. TTLInv'
    BY <2>2, <2>3 DEF TTLInv
  <2>5. \A k \in StoreKeys : E(k, store', now') =
           IF k = j THEN IF Expiring!Eager!Over(e, now) THEN Nothing ELSE e ELSE E(k, store, now)
    BY <2>2 DEF TTLInv, Live
  <2>6. Expiring!Eager!Put(j, v, ttl)
    BY <1>1, <1>2, <2>1, <2>2, <2>4, <2>5 DEF Expiring!Eager!Put
  <2> QED BY <2>4, <2>6 DEF Expiring!Eager!Next
<1> QED BY <1>3, <1>5, <1>6, <1>7, <1>8 DEF Expiring!Next

-----------------------------------------------------------------------------
(* The store with the heap *)

HeapEntry == [value : StoreValues, expires_at : Times, version : Nat]
HeapItem == [at : Int, key : StoreKeys, version : Nat]

\* An entry that expires has its item in the heap, no other item has its key
\* and version, and no item is newer than the last put of its key.
KeyOK(e, newest, items, k) ==
    /\ \A i \in items : i.key = k => i.version <= newest
    /\ e # Nothing =>
         /\ e.version <= newest
         /\ e.expires_at # Nothing => [at |-> e.expires_at, key |-> k, version |-> e.version] \in items
         /\ \A i \in items : i.key = k /\ i.version = e.version => i.at = e.expires_at

HeapInv ==
    /\ now \in Int
    /\ entries \in [StoreKeys -> HeapEntry \union {Nothing}]
    /\ versions \in [StoreKeys -> Nat]
    /\ heap \subseteq HeapItem
    /\ \A k \in StoreKeys : KeyOK(entries[k], versions[k], heap, k)

Gone(e, t) == e = Nothing \/ (e.expires_at # Nothing /\ t >= e.expires_at)
StillThere(e, t) == IF Gone(e, t) THEN Nothing ELSE e

\* The sweep drops exactly the entries whose time is up.
LEMMA SweptIs ==
    ASSUME HeapInv, NEW k \in StoreKeys
    PROVE  Expiring!Swept[k] = StillThere(entries[k], now)
<1>1. Expiring!Swept[k] =
         IF \E i \in heap : i.at <= now /\ i.key = k /\ entries[k] # Nothing /\ entries[k].version = i.version
         THEN Nothing ELSE entries[k]
  BY DEF Expiring!Swept, Expiring!Due, Expiring!Current
<1>2. CASE entries[k] = Nothing
  BY <1>1, <1>2 DEF StillThere, Gone
<1>3. CASE entries[k] # Nothing
  <2>1. entries[k] \in HeapEntry /\ KeyOK(entries[k], versions[k], heap, k) /\ now \in Int
    BY <1>3 DEF HeapInv
  <2>2. Nothing \notin Int /\ \A i \in heap : i.at \in Int
    BY TierConstants DEF Expiring!TTLConstants, HeapInv, HeapItem
  <2>3. ASSUME NEW i \in heap, i.at <= now, i.key = k, entries[k].version = i.version
        PROVE  Gone(entries[k], now)
    <3>1. i.at = entries[k].expires_at /\ i.at \in Int /\ i.at # Nothing
      BY <1>3, <2>1, <2>2, <2>3 DEF KeyOK
    <3> QED BY <2>1, <2>3, <3>1 DEF Gone
  <2>4. ASSUME Gone(entries[k], now)
        PROVE  \E i \in heap : i.at <= now /\ i.key = k /\ entries[k].version = i.version
    <3>1. entries[k].expires_at # Nothing /\ now >= entries[k].expires_at /\ entries[k].expires_at \in Int
      BY <1>3, <2>1, <2>4 DEF Gone, HeapEntry, Times
    <3>2. PICK i \in heap : i = [at |-> entries[k].expires_at, key |-> k, version |-> entries[k].version]
      BY <1>3, <2>1, <3>1 DEF KeyOK
    <3>3. i.at <= now /\ i.key = k /\ i.version = entries[k].version
      BY <2>1, <3>1, <3>2
    <3> QED BY <3>3
  <2> QED BY <1>1, <1>3, <2>3, <2>4 DEF StillThere
<1> QED BY <1>2, <1>3

\* An entry that stays keeps its item.
LEMMA KeySwept ==
    ASSUME now \in Int, heap \subseteq HeapItem, NEW k \in StoreKeys, NEW newest \in Nat,
           NEW e \in HeapEntry \union {Nothing}, KeyOK(e, newest, heap, k)
    PROVE  KeyOK(StillThere(e, now), newest, heap \ Expiring!Due, k)
<1>1. CASE Gone(e, now)
  BY <1>1 DEF StillThere, KeyOK
<1>2. CASE ~Gone(e, now)
  <2>1. StillThere(e, now) = e /\ e # Nothing /\ e \in HeapEntry
    BY <1>2 DEF StillThere, Gone
  <2>2. ASSUME e.expires_at # Nothing
        PROVE  [at |-> e.expires_at, key |-> k, version |-> e.version] \notin Expiring!Due
    BY <1>2, <2>2 DEF Gone, Expiring!Due, HeapEntry, Times
  <2> QED BY <2>1, <2>2 DEF KeyOK
<1> QED BY <1>1, <1>2

\* What reads of the store with the heap answer.
Shown(e, t) ==
    IF Gone(e, t) THEN Nothing ELSE [value |-> e.value, expires_at |-> e.expires_at]

\* It is what is shown of its entries.
LEMMA HeapShows ==
    HeapInv => Expiring!HeapLive = [k \in StoreKeys |-> Shown(entries[k], now)]
<1> SUFFICES ASSUME HeapInv, NEW k \in StoreKeys
             PROVE  Expiring!HeapLive[k] = Shown(entries[k], now)
  BY DEF Expiring!HeapLive
<1>1. Expiring!Swept[k] = StillThere(entries[k], now)
  BY SweptIs
<1> QED BY <1>1 DEF Expiring!HeapLive, StillThere, Gone, Shown

\* The same of the next state.
LEMMA HeapShowsNext ==
    HeapInv' => Expiring!HeapLive' = [k \in StoreKeys |-> Shown(entries'[k], now')]
<1>1. (HeapInv => Expiring!HeapLive = [k \in StoreKeys |-> Shown(entries[k], now)])'
  BY HeapShows, PTL
<1> QED BY <1>1 DEF Shown, Gone

\* An entry is over from the time it expires at.
LEMMA HeapOvers ==
    ASSUME NEW e \in HeapEntry \union {Nothing}, NEW t \in Int, NEW u \in Int, t <= u
    PROVE  /\ Shown(e, u) =
                IF Expiring!Heaped!Over(Shown(e, t), u) THEN Nothing ELSE Shown(e, t)
           /\ Shown(StillThere(e, t), t) = Shown(e, t)
           /\ StillThere(e, t) \in HeapEntry \union {Nothing}
<1>1. Shown(StillThere(e, t), t) = Shown(e, t) /\ StillThere(e, t) \in HeapEntry \union {Nothing}
  BY DEF StillThere, Shown, Gone
<1>2. CASE e = Nothing
  BY <1>1, <1>2 DEF Shown, Gone
<1>3. CASE e \in HeapEntry
  <2> DEFINE s == [value |-> e.value, expires_at |-> e.expires_at]
  <2>1. s \in [value : StoreValues, expires_at : Times] /\ s.expires_at = e.expires_at
    BY <1>3 DEF HeapEntry
  <2>2. s # Nothing /\ e # Nothing /\ Nothing \notin Int
    BY <1>3, <2>1, TierConstants DEF Expiring!TTLConstants, Times, HeapEntry
  <2>3. e.expires_at # Nothing => e.expires_at \in Int
    BY <1>3 DEF HeapEntry, Times
  <2>4. Gone(e, t) => Gone(e, u)
    BY <2>2, <2>3 DEF Gone
  <2>5. Expiring!Heaped!Over(s, u) <=> Gone(e, u)
    BY <2>1, <2>2, <2>3 DEF Expiring!Heaped!Over, Gone
  <2>6. CASE Gone(e, t)
    BY <1>1, <2>4, <2>6 DEF Shown
  <2>7. CASE ~Gone(e, t)
    <3>1. Shown(e, t) = s /\ Shown(e, u) = IF Gone(e, u) THEN Nothing ELSE s
      BY <2>7 DEF Shown
    <3> QED BY <1>1, <2>5, <3>1
  <2> QED BY <2>6, <2>7
<1> QED BY <1>2, <1>3

\* A call that sweeps, and then changes one key or none.
LEMMA HeapLookKeeps ==
    ASSUME HeapInv, Expiring!HeapLook
    PROVE  HeapInv' /\ UNCHANGED Expiring!Heaped!vars
<1>1. /\ now' = now /\ heap_asked' = heap_asked /\ versions' = versions
      /\ entries' = Expiring!Swept /\ heap' = heap \ Expiring!Due
  BY DEF Expiring!HeapLook
<1>2. \A k \in StoreKeys : entries'[k] = StillThere(entries[k], now)
  BY <1>1, SweptIs
<1>3. /\ now \in Int /\ heap \subseteq HeapItem /\ versions \in [StoreKeys -> Nat]
      /\ \A k \in StoreKeys : /\ entries[k] \in HeapEntry \union {Nothing}
                              /\ KeyOK(entries[k], versions[k], heap, k)
  BY DEF HeapInv
<1>4. \A k \in StoreKeys : KeyOK(entries'[k], versions[k], heap \ Expiring!Due, k)
  BY <1>2, <1>3, KeySwept
<1>5. \A k \in StoreKeys : /\ entries'[k] \in HeapEntry \union {Nothing}
                           /\ Shown(entries'[k], now) = Shown(entries[k], now)
  BY SMTT(30), <1>2, <1>3, HeapOvers
<1>6. HeapInv'
  <2>1. entries' = [k \in StoreKeys |-> entries'[k]]
    BY <1>1 DEF Expiring!Swept
  <2> QED BY <1>1, <1>3, <1>4, <1>5, <2>1 DEF HeapInv
<1> QED BY <1>1, <1>5, <1>6, HeapShows, HeapShowsNext DEF Expiring!Heaped!vars

\* A delete also removes its key.
LEMMA HeapDeleteKeeps ==
    ASSUME HeapInv, NEW j \in StoreKeys, Expiring!HeapDelete(j)
    PROVE  HeapInv' /\ Expiring!Heaped!Delete(j)
<1>1. /\ now' = now /\ heap_asked' = <<j>> /\ versions' = versions
      /\ entries' = [Expiring!Swept EXCEPT ![j] = Nothing] /\ heap' = heap \ Expiring!Due
  BY DEF Expiring!HeapDelete
<1>2. \A k \in StoreKeys : entries'[k] = IF k = j THEN Nothing ELSE StillThere(entries[k], now)
  <2>1. Expiring!Swept = [k \in StoreKeys |-> StillThere(entries[k], now)]
    BY SweptIs DEF Expiring!Swept
  <2> QED BY <1>1, <2>1
<1>3. /\ now \in Int /\ heap \subseteq HeapItem /\ versions \in [StoreKeys -> Nat]
      /\ \A k \in StoreKeys : /\ entries[k] \in HeapEntry \union {Nothing}
                              /\ KeyOK(entries[k], versions[k], heap, k)
  BY DEF HeapInv
<1>4. \A k \in StoreKeys : KeyOK(entries'[k], versions[k], heap \ Expiring!Due, k)
  <2>1. \A k \in StoreKeys : KeyOK(StillThere(entries[k], now), versions[k], heap \ Expiring!Due, k)
    BY <1>3, KeySwept
  <2>2. KeyOK(Nothing, versions[j], heap \ Expiring!Due, j)
    BY <2>1 DEF KeyOK
  <2> QED BY <1>2, <2>1, <2>2
<1>5. \A k \in StoreKeys :
         /\ entries'[k] \in HeapEntry \union {Nothing}
         /\ Shown(entries'[k], now) = IF k = j THEN Nothing ELSE Shown(entries[k], now)
  <2>1. Shown(Nothing, now) = Nothing
    BY DEF Shown, Gone
  <2> QED BY <1>2, <1>3, <2>1, HeapOvers
<1>6. HeapInv'
  <2>1. entries' = [k \in StoreKeys |-> entries'[k]]
    BY <1>1 DEF Expiring!Swept
  <2> QED BY <1>1, <1>3, <1>4, <1>5, <2>1 DEF HeapInv
<1>7. Expiring!HeapLive' = [Expiring!HeapLive EXCEPT ![j] = Nothing]
  BY <1>1, <1>5, <1>6, HeapShows, HeapShowsNext
<1> QED BY <1>1, <1>6, <1>7 DEF Expiring!Heaped!Delete

\* A new version of a key, with its item.
LEMMA KeyPut ==
    ASSUME NEW items, items \subseteq HeapItem, NEW j \in StoreKeys, NEW newest \in Nat,
           NEW e, KeyOK(e, newest, items, j),
           NEW v \in StoreValues, NEW when \in Times,
           NEW more, more = IF when = Nothing THEN {}
                            ELSE {[at |-> when, key |-> j, version |-> newest + 1]}
    PROVE  /\ KeyOK([value |-> v, expires_at |-> when, version |-> newest + 1], newest + 1,
                    items \union more, j)
           /\ \A k \in StoreKeys \ {j} : \A x, n : KeyOK(x, n, items, k) => KeyOK(x, n, items \union more, k)
<1>1. \A i \in more : i.key = j /\ i.version = newest + 1 /\ i.at = when
  OBVIOUS
<1>2. \A i \in items : i.version \in Nat /\ (i.key = j => i.version <= newest)
  BY DEF KeyOK, HeapItem
<1>3. \A i \in items : i.key = j => i.version < newest + 1
  BY <1>2
<1> DEFINE new == [value |-> v, expires_at |-> when, version |-> newest + 1]
<1>4. new.version = newest + 1 /\ new.expires_at = when
  OBVIOUS
<1> HIDE DEF new
<1>5. KeyOK(new, newest + 1, items \union more, j)
  <2>1. \A i \in items \union more : i.key = j => i.version <= newest + 1
    BY <1>1, <1>3, <1>2
  <2>2. new.expires_at # Nothing =>
          [at |-> new.expires_at, key |-> j, version |-> new.version] \in items \union more
    BY <1>4
  <2>3. \A i \in items \union more : i.key = j /\ i.version = new.version => i.at = new.expires_at
    BY <1>1, <1>2, <1>3, <1>4
  <2> QED BY <1>4, <2>1, <2>2, <2>3 DEF KeyOK
<1>6. \A k \in StoreKeys \ {j} : \A x, n : KeyOK(x, n, items, k) => KeyOK(x, n, items \union more, k)
  BY <1>1 DEF KeyOK
<1> QED BY <1>5, <1>6 DEF new

\* A put also writes its key.
LEMMA HeapPutKeeps ==
    ASSUME HeapInv, NEW j \in StoreKeys, NEW v \in StoreValues, NEW ttl \in StoreTtls,
           Expiring!HeapPut(j, v, ttl)
    PROVE  HeapInv' /\ \E given \in StoreTtls : Expiring!Heaped!Put(j, v, given)
<1> DEFINE mortal == ttl # Nothing /\ ttl # 0
<1>1. PICK given : given = IF mortal THEN ttl ELSE Nothing
  OBVIOUS
<1>2. PICK when : when = IF given = Nothing THEN Nothing ELSE now + given
  OBVIOUS
<1>3. PICK n : n = versions[j]
  OBVIOUS
<1>4. PICK e : e = [value |-> v, expires_at |-> when, version |-> n + 1]
  OBVIOUS
<1>5. PICK more : more = IF when = Nothing THEN {}
                         ELSE {[at |-> when, key |-> j, version |-> n + 1]}
  OBVIOUS
<1>6. PICK rest : rest = heap \ Expiring!Due
  OBVIOUS
<1>7. /\ now \in Int /\ heap \subseteq HeapItem /\ versions \in [StoreKeys -> Nat]
      /\ \A k \in StoreKeys : /\ entries[k] \in HeapEntry \union {Nothing}
                              /\ KeyOK(entries[k], versions[k], heap, k)
  BY DEF HeapInv
<1>8. /\ Nothing \in StoreTtls /\ StoreTtls \subseteq Int \union {Nothing} /\ Nothing \notin Int
  BY TierConstants DEF Expiring!TTLConstants
<1>9. /\ given \in StoreTtls /\ (given # Nothing <=> mortal) /\ (mortal => given = ttl)
      /\ when \in Times /\ (when # Nothing <=> mortal) /\ (mortal => when = now + ttl)
      /\ n \in Nat
  BY <1>1, <1>2, <1>3, <1>7, <1>8 DEF Times
<1>10. /\ now' = now /\ heap_asked' = <<j, v, given>>
       /\ versions' = [versions EXCEPT ![j] = n + 1]
       /\ entries' = [Expiring!Swept EXCEPT ![j] = e] /\ heap' = rest \union more
  BY <1>1, <1>3, <1>4, <1>5, <1>6, <1>9 DEF Expiring!HeapPut
<1>11. \A k \in StoreKeys : entries'[k] = IF k = j THEN e ELSE StillThere(entries[k], now)
  <2>1. Expiring!Swept = [k \in StoreKeys |-> StillThere(entries[k], now)]
    BY SweptIs DEF Expiring!Swept
  <2> QED BY <1>10, <2>1
<1>12. rest \subseteq HeapItem /\ more \subseteq HeapItem
  BY <1>5, <1>6, <1>7, <1>9 DEF HeapItem, Times
<1>13. \A k \in StoreKeys : KeyOK(StillThere(entries[k], now), versions[k], rest, k)
  BY <1>6, <1>7, KeySwept
<1>14. /\ KeyOK(e, n + 1, rest \union more, j)
       /\ \A k \in StoreKeys \ {j} : \A x, m : KeyOK(x, m, rest, k) => KeyOK(x, m, rest \union more, k)
  <2>1. KeyOK(StillThere(entries[j], now), n, rest, j)
    BY <1>3, <1>13
  <2> QED BY ZenonT(60), <1>4, <1>5, <1>9, <1>12, <2>1, KeyPut
<1>15. e \in HeapEntry
  BY <1>4, <1>9 DEF HeapEntry
<1>16. HeapInv'
  <2>1. entries' = [k \in StoreKeys |-> entries'[k]]
    BY <1>10 DEF Expiring!Swept
  <2>2. \A k \in StoreKeys : entries'[k] \in HeapEntry \union {Nothing}
    <3>1. \A k \in StoreKeys : StillThere(entries[k], now) \in HeapEntry \union {Nothing}
      BY <1>7, HeapOvers
    <3> QED BY <1>11, <1>15, <3>1
  <2>3. versions' \in [StoreKeys -> Nat] /\ \A k \in StoreKeys : versions'[k] = IF k = j THEN n + 1 ELSE versions[k]
    BY <1>7, <1>9, <1>10
  <2>4. \A k \in StoreKeys : KeyOK(entries'[k], versions'[k], heap', k)
    BY <1>10, <1>11, <1>13, <1>14, <2>3
  <2> QED BY <1>7, <1>10, <1>12, <2>1, <2>2, <2>3, <2>4 DEF HeapInv
<1> DEFINE entry == [value |-> v, expires_at |-> when]
<1>17. /\ Expiring!Heaped!Entry(v, given) = entry
       /\ Shown(e, now) = IF Expiring!Heaped!Over(entry, now) THEN Nothing ELSE entry
  <2>1. e # Nothing /\ entry # Nothing
    BY <1>9, <1>15, TierConstants DEF Expiring!TTLConstants, HeapEntry, Times
  <2>2. when # Nothing => when \in Int
    BY <1>9 DEF Times
  <2>3. Expiring!Heaped!Over(entry, now) <=> Gone(e, now)
    BY <1>4, <1>7, <2>1, <2>2 DEF Expiring!Heaped!Over, Gone
  <2> QED BY <1>2, <1>4, <2>3 DEF Expiring!Heaped!Entry, Shown
<1>18. \A k \in StoreKeys :
         Shown(entries'[k], now) = IF k = j THEN Shown(e, now) ELSE Shown(entries[k], now)
  BY <1>7, <1>11, HeapOvers
<1>19. Expiring!HeapLive' = [Expiring!HeapLive EXCEPT ![j] = Shown(e, now)]
  BY <1>10, <1>16, <1>18, HeapShows, HeapShowsNext
<1>20. Expiring!Heaped!Put(j, v, given)
  BY <1>10, <1>17, <1>19 DEF Expiring!Heaped!Put
<1> QED BY <1>9, <1>16, <1>20

\* A second passes.
LEMMA HeapTickKeeps ==
    ASSUME HeapInv, now' = now + 1, UNCHANGED <<entries, heap_asked, heap, versions>>
    PROVE  HeapInv' /\ Expiring!Heaped!Tick
<1>1. HeapInv'
  BY DEF HeapInv
<1>2. now \in Int /\ now + 1 \in Int /\ now <= now + 1
      /\ \A k \in StoreKeys : entries[k] \in HeapEntry \union {Nothing}
  BY DEF HeapInv
<1>3. \A k \in StoreKeys : Shown(entries[k], now + 1) =
         IF Expiring!Heaped!Over(Shown(entries[k], now), now + 1) THEN Nothing
         ELSE Shown(entries[k], now)
  BY <1>2, HeapOvers
<1>4. Expiring!Heaped!Tick
  BY <1>1, <1>3, HeapShows, HeapShowsNext DEF Expiring!Heaped!Tick
<1> QED BY <1>1, <1>4

\* Every step of the store with the heap is one of the expiring store.
LEMMA HeapStepsExpire ==
    ASSUME HeapInv, Expiring!HeapNext
    PROVE  HeapInv' /\ [Expiring!Heaped!Next]_(Expiring!Heaped!vars)
<1>1. CASE Expiring!Tick
  BY <1>1, HeapTickKeeps DEF Expiring!Tick, Expiring!heap_vars, Expiring!Heaped!Next
<1>2. CASE Expiring!HeapLook
  BY <1>2, HeapLookKeeps
<1>3. ASSUME NEW j \in StoreKeys, Expiring!HeapDelete(j)
      PROVE  HeapInv' /\ Expiring!Heaped!Next
  BY <1>3, HeapDeleteKeeps DEF Expiring!Heaped!Next
<1>4. ASSUME NEW j \in StoreKeys, NEW v \in StoreValues, NEW ttl \in StoreTtls,
             Expiring!HeapPut(j, v, ttl)
      PROVE  HeapInv' /\ Expiring!Heaped!Next
  BY <1>4, HeapPutKeeps DEF Expiring!Heaped!Next
<1> QED BY <1>1, <1>2, <1>3, <1>4 DEF Expiring!HeapNext

\* A second that passes while nothing else changes.
LEMMA TTLClockExpires ==
    ASSUME TTLInv, ClockStep, UNCHANGED <<store, store_asked>>
    PROVE  TTLInv' /\ [Expiring!Eager!Next]_(Expiring!Eager!vars)
<1>1. CASE now' = now
  BY <1>1 DEF TTLInv, Expiring!Eager!vars, Expiring!Live, Expiring!Answer, Expiring!Missing, Expiring!IsExpired
<1>2. CASE now' = now + 1
  BY <1>2, TTLTickExpires DEF Expiring!Eager!Next
<1> QED BY <1>1, <1>2 DEF ClockStep


\* What a step of the program is for the two stores with a clock.
LEMMA ClocksTakeSteps ==
    ASSUME [StoresNext]_all
    PROVE  /\ Expiring!Next \/ (ClockStep /\ UNCHANGED <<store, store_asked>>)
           /\ Expiring!HeapNext \/ (ClockStep /\ UNCHANGED <<entries, heap_asked, heap, versions>>)
<1>1. CASE tier = "expiring" /\ Expiring!Next
  BY <1>1 DEF Expiring!Next, Expiring!Tick, Expiring!SweepExpired, Expiring!Get, Expiring!Delete,
              Expiring!Put, Expiring!heap_vars, ClockStep
<1>2. CASE tier = "heap" /\ Expiring!HeapNext
  BY <1>2 DEF Expiring!HeapNext, Expiring!Tick, Expiring!HeapLook, Expiring!HeapDelete,
              Expiring!HeapPut, ClockStep
<1>3. ASSUME ClockStep, UNCHANGED expiring_vars
      PROVE  /\ ClockStep /\ UNCHANGED <<store, store_asked>>
             /\ UNCHANGED <<entries, heap_asked, heap, versions>>
  BY <1>3 DEF expiring_vars
<1>4. CASE UNCHANGED all
  BY <1>3, <1>4 DEF all, ClockStep
<1>5. CASE DequeStep \/ RingsStep \/ LRUStep
  <2>1. DequeStep \/ RingsStep => ClockStep
    BY DEF DequeStep, RingsStep, ClockStep, Counters!DequeNext, Counters!DequeTick, Counters!DequeHit,
           Counters!DequeGetHits, Counters!RingsNext, Counters!Tick, Counters!Step, Counters!CallHit,
           Counters!Hit, Counters!CallGetHits, Counters!ReadSlot, Counters!Return
  <2>2. LRUStep => ClockStep
    BY DEF LRUStep, ClockStep, LRU!Next, LRU!Tick, LRU!Get, LRU!Put
  <2>3. UNCHANGED expiring_vars
    BY <1>4, <1>5 DEF StoresNext, OthersRest, DequeStep, RingsStep, LRUStep, all, expiring_vars
  <2> QED BY <1>3, <1>5, <2>1, <2>2, <2>3
<1>6. CASE CoWStep \/ GCStep \/ FreelistStep \/ BitmapStep \/ TreeStep \/ ShardsStep
           \/ TransactionalStep \/ LedgerStep \/ PermissionsStep
  <2>1. UNCHANGED expiring_vars /\ (UNCHANGED now)
    BY <1>6 DEF StoresNext, OthersRest, CoWStep, GCStep, FreelistStep, BitmapStep, TreeStep, ShardsStep,
       TransactionalStep, LedgerStep, PermissionsStep, all, expiring_vars
  <2> QED BY <1>3, <2>1 DEF ClockStep
<1> QED BY <1>1, <1>2, <1>4, <1>5, <1>6 DEF StoresNext, ExpiringStep, HeapStep

\* The stores start empty.
LEMMA ExpiringStarts ==
    Expiring!Init => TTLInv /\ HeapInv /\ Expiring!Eager!Init /\ Expiring!Heaped!Init
<1> SUFFICES ASSUME Expiring!Init
             PROVE  TTLInv /\ HeapInv /\ Expiring!Eager!Init /\ Expiring!Heaped!Init
  OBVIOUS
<1>1. /\ now = 0 /\ store = [k \in StoreKeys |-> Nothing] /\ store_asked = Nothing
      /\ entries = store /\ heap_asked = Nothing
      /\ heap = {} /\ versions = [k \in StoreKeys |-> 0]
  BY DEF Expiring!Init
<1>2. TTLInv
  BY <1>1 DEF TTLInv
<1>3. HeapInv
  BY <1>1 DEF HeapInv, KeyOK
<1>4. Expiring!Eager!Init
  BY <1>1 DEF Expiring!Eager!Init, Expiring!Live, Expiring!Answer, Expiring!Missing
<1>5. Expiring!Heaped!Init
  BY <1>1, <1>3, HeapShows DEF Expiring!Heaped!Init, Shown, Gone
<1> QED BY <1>2, <1>3, <1>4, <1>5

\* Every step of the program is one of an expiring store.
LEMMA StepsExpire ==
    /\ TTLInv /\ [StoresNext]_all => TTLInv' /\ [Expiring!Eager!Next]_(Expiring!Eager!vars)
    /\ HeapInv /\ [StoresNext]_all => HeapInv' /\ [Expiring!Heaped!Next]_(Expiring!Heaped!vars)
<1>1. ASSUME TTLInv, [StoresNext]_all
      PROVE  TTLInv' /\ [Expiring!Eager!Next]_(Expiring!Eager!vars)
  BY <1>1, ClocksTakeSteps, TTLStepsExpire, TTLClockExpires
<1>2. ASSUME HeapInv, [StoresNext]_all
      PROVE  HeapInv' /\ [Expiring!Heaped!Next]_(Expiring!Heaped!vars)
  <2>1. CASE Expiring!HeapNext
    BY <1>2, <2>1, HeapStepsExpire
  <2>2. CASE now' = now + 1 /\ UNCHANGED <<entries, heap_asked, heap, versions>>
    BY <1>2, <2>2, HeapTickKeeps DEF Expiring!Heaped!Next
  <2>3. CASE now' = now /\ UNCHANGED <<entries, heap_asked, heap, versions>>
    <3>1. HeapInv'
      BY <1>2, <2>3 DEF HeapInv
    <3> QED BY <1>2, <2>3, <3>1, HeapShows, HeapShowsNext DEF Expiring!Heaped!vars
  <2> QED BY <1>2, <2>1, <2>2, <2>3, ClocksTakeSteps DEF ClockStep
<1> QED BY <1>1, <1>2

\* A transaction is seen at once and kept or dropped as a whole, and neither
\* lazy eviction nor a stale item of the heap is ever seen, for any keys,
\* values and times to live (kv_store, KVStore of preparation/probe5).
THEOREM StoresImplementAlways == StoresSpec => StoresImplementTheirSpecs
<1> DEFINE Inv == TxnInv /\ TTLInv /\ HeapInv
           Next3 == /\ [Transactional!Atomic!Next]_(Transactional!Atomic!vars)
                    /\ [Expiring!Eager!Next]_(Expiring!Eager!vars)
                    /\ [Expiring!Heaped!Next]_(Expiring!Heaped!vars)
<1>1. StoresInit => /\ Inv /\ Transactional!Atomic!Init
                    /\ Expiring!Eager!Init /\ Expiring!Heaped!Init
  <2>1. StoresInit => Transactional!Init /\ Expiring!Init
    BY DEF StoresInit
  <2> QED BY <2>1, TxnStarts, ExpiringStarts
<1>2. Inv /\ [StoresNext]_all => Inv' /\ Next3
  BY StoresTakeSteps, TxnStepsAreAtomic, StepsExpire
<1> QED BY <1>1, <1>2, PTL
        DEF StoresSpec, StoresImplementTheirSpecs, Transactional!TransactionsAreAtomic,
            Transactional!Atomic!Spec, Expiring!TTLImplementsExpiringStore,
            Expiring!HeapImplementsExpiringStore, Expiring!Eager!Spec, Expiring!Heaped!Spec
-----------------------------------------------------------------------------
(* The list of the LRU cache *)

CacheNodes == CacheKeys \union {Front, Back}

\* The sequence o of the nodes from Front to Back, with the n keys S between
\* them, is what the pointers of l say.
ListIs(l, o, n, S) ==
    /\ o \in [0 .. n + 1 -> CacheNodes]
    /\ o[0] = Front /\ o[n + 1] = Back
    /\ \A i, j \in 0 .. n + 1 : o[i] = o[j] => i = j
    /\ S = {o[i] : i \in 1 .. n}
    /\ \A i \in 0 .. n : l.next[o[i]] = o[i + 1] /\ l.prev[o[i + 1]] = o[i]

LinkType == [next : [CacheNodes -> CacheNodes], prev : [CacheNodes -> CacheNodes]]

\* The sentinels are no keys.
LEMMA Sentinels ==
    /\ Front \notin CacheKeys /\ Back \notin CacheKeys /\ Front # Back
    /\ Capacity \in Nat /\ Capacity > 0
BY TierConstants DEF LRU!LRUConstants

\* What is linked first has a new neighbour before it.
LEMMA AddedInFront ==
    ASSUME NEW l \in LinkType, NEW n \in Nat, NEW o, NEW S \in SUBSET CacheKeys, ListIs(l, o, n, S),
           NEW k \in CacheKeys, k \notin S
    PROVE  LET p == [i \in 0 .. n + 2 |-> IF i = 0 THEN Front ELSE IF i = 1 THEN k ELSE o[i - 1]]
           IN  /\ LRU!AddToFront(l, k) \in LinkType
               /\ ListIs(LRU!AddToFront(l, k), p, n + 1, S \union {k})
<1> DEFINE p == [i \in 0 .. n + 2 |-> IF i = 0 THEN Front ELSE IF i = 1 THEN k ELSE o[i - 1]]
           first == l.next[Front]
           m == LRU!AddToFront(l, k)
<1>1. /\ o \in [0 .. n + 1 -> CacheNodes] /\ o[0] = Front /\ o[n + 1] = Back
      /\ \A i, j \in 0 .. n + 1 : o[i] = o[j] => i = j
      /\ S = {o[i] : i \in 1 .. n}
      /\ \A i \in 0 .. n : l.next[o[i]] = o[i + 1] /\ l.prev[o[i + 1]] = o[i]
  BY DEF ListIs
<1>2. first = o[1]
  BY <1>1
<1>3. \A i \in 0 .. n + 1 : o[i] # k
  <2> SUFFICES ASSUME NEW i \in 0 .. n + 1, o[i] = k PROVE FALSE
    OBVIOUS
  <2>1. CASE i = 0 \/ i = n + 1
    BY <1>1, <2>1, Sentinels
  <2>2. CASE i \in 1 .. n
    BY <1>1, <2>2
  <2> QED BY <2>1, <2>2
<1>4. /\ m.next = [l.next EXCEPT ![k] = first, ![Front] = k]
      /\ m.prev = [l.prev EXCEPT ![k] = Front, ![first] = k]
  BY DEF LRU!AddToFront
<1>5. first \in CacheNodes /\ k \in CacheNodes /\ Front \in CacheNodes /\ k # Front /\ k # first
  BY <1>1, <1>2, <1>3 DEF CacheNodes, LinkType
<1>6. m \in LinkType
  BY <1>5 DEF LRU!AddToFront, LinkType
<1>7. /\ \A x \in CacheNodes : m.next[x] = IF x = Front THEN k ELSE IF x = k THEN first ELSE l.next[x]
      /\ \A x \in CacheNodes : m.prev[x] = IF x = first THEN k ELSE IF x = k THEN Front ELSE l.prev[x]
  BY <1>4, <1>5 DEF LinkType
<1> HIDE DEF m, first
<1>8. /\ p[0] = Front /\ p[1] = k /\ \A i \in 2 .. n + 2 : p[i] = o[i - 1] /\ i - 1 \in 1 .. n + 1
      /\ DOMAIN p = 0 .. n + 2
  OBVIOUS
<1>9. p = [i \in 0 .. n + 2 |-> p[i]] /\ \A i \in 0 .. n + 2 : i = 0 \/ i = 1 \/ i \in 2 .. n + 2
  OBVIOUS
<1> HIDE DEF p
<1>10. p \in [0 .. (n + 1) + 1 -> CacheNodes]
  <2>1. \A i \in 0 .. n + 2 : p[i] \in CacheNodes
    <3>1. \A i \in 2 .. n + 2 : p[i] \in CacheNodes
      BY <1>1, <1>8
    <3> QED BY <1>5, <1>8, <1>9, <3>1
  <2>2. (n + 1) + 1 = n + 2
    OBVIOUS
  <2> QED BY <1>9, <2>1, <2>2
<1>11. p[(n + 1) + 1] = Back
  BY <1>1, <1>8
<1>12. ASSUME NEW i \in 0 .. n + 2, NEW j \in 0 .. n + 2, p[i] = p[j] PROVE i = j
  <2>1. \A a \in 2 .. n + 2 : /\ p[a] # k /\ p[a] # Front
                              /\ a - 1 \in 0 .. n + 1 /\ p[a] = o[a - 1]
    <3> SUFFICES ASSUME NEW a \in 2 .. n + 2
                 PROVE  p[a] # k /\ p[a] # Front /\ a - 1 \in 0 .. n + 1 /\ p[a] = o[a - 1]
      OBVIOUS
    <3>1. a - 1 \in 0 .. n + 1 /\ a - 1 # 0 /\ 0 \in 0 .. n + 1
      OBVIOUS
    <3> QED BY <1>1, <1>3, <1>8, <3>1
  <2>2. CASE i \in 2 .. n + 2 /\ j \in 2 .. n + 2
    <3>1. i - 1 = j - 1
      BY <1>1, <1>12, <2>1, <2>2
    <3> QED BY <3>1
  <2>3. CASE ~(i \in 2 .. n + 2 /\ j \in 2 .. n + 2)
    BY <1>5, <1>8, <1>9, <1>12, <2>1, <2>3
  <2> QED BY <2>2, <2>3
<1>13. S \union {k} = {p[i] : i \in 1 .. n + 1}
  <2>1. \A i \in 1 .. n + 1 : p[i] \in S \union {k}
    BY <1>1, <1>8
  <2>2. \A i \in 1 .. n : o[i] = p[i + 1] /\ i + 1 \in 1 .. n + 1
    BY <1>8
  <2> QED BY <1>1, <1>8, <2>1, <2>2
<1>14. ASSUME NEW i \in 0 .. n + 1
       PROVE  m.next[p[i]] = p[i + 1] /\ m.prev[p[i + 1]] = p[i]
  <2>1. CASE i = 0
    BY <1>5, <1>7, <1>8, <2>1
  <2>2. CASE i = 1
    <3>1. p[2] = o[1]
      BY <1>8
    <3> QED BY <1>2, <1>5, <1>7, <1>8, <2>2, <3>1
  <2>3. CASE i \in 2 .. n + 1
    <3>1. /\ p[i] = o[i - 1] /\ p[i + 1] = o[i] /\ i - 1 \in 1 .. n
          /\ i \in 0 .. n + 1 /\ i - 1 \in 0 .. n + 1 /\ (i - 1) + 1 = i /\ 0 \in 0 .. n + 1 /\ 1 \in 0 .. n + 1
      BY <1>8, <2>3
    <3>2. o[i - 1] # Front /\ o[i] # first /\ o[i - 1] # k /\ o[i] # k
          /\ o[i] \in CacheNodes /\ o[i - 1] \in CacheNodes
      BY <1>1, <1>2, <1>3, <2>3, <3>1
    <3>3. l.next[o[i - 1]] = o[i] /\ l.prev[o[i]] = o[i - 1]
      BY <1>1, <3>1
    <3> QED BY <1>7, <3>1, <3>2, <3>3
  <2> QED BY <2>1, <2>2, <2>3
<1>15. ListIs(m, p, n + 1, S \union {k})
  BY <1>8, <1>10, <1>11, <1>12, <1>13, <1>14 DEF ListIs
<1> QED BY <1>6, <1>15 DEF m, p

\* What is unlinked leaves its neighbours to each other.
LEMMA UnlinkedBetween ==
    ASSUME NEW l \in LinkType, NEW n \in Nat, NEW o, NEW S \in SUBSET CacheKeys,
           ListIs(l, o, n + 1, S), NEW q \in 1 .. n + 1
    PROVE  LET p == [i \in 0 .. n + 1 |-> IF i < q THEN o[i] ELSE o[i + 1]]
           IN  /\ LRU!Unlink(l, o[q]) \in LinkType
               /\ ListIs(LRU!Unlink(l, o[q]), p, n, S \ {o[q]})
<1> DEFINE p == [i \in 0 .. n + 1 |-> IF i < q THEN o[i] ELSE o[i + 1]]
           m == LRU!Unlink(l, o[q])
<1>1. /\ o \in [0 .. n + 2 -> CacheNodes] /\ o[0] = Front /\ o[n + 2] = Back
      /\ \A i, j \in 0 .. n + 2 : o[i] = o[j] => i = j
      /\ S = {o[i] : i \in 1 .. n + 1}
      /\ \A i \in 0 .. n + 1 : l.next[o[i]] = o[i + 1] /\ l.prev[o[i + 1]] = o[i]
  <2>1. (n + 1) + 1 = n + 2
    OBVIOUS
  <2> QED BY <2>1 DEF ListIs
<1>2. /\ q - 1 \in 0 .. n + 1 /\ (q - 1) + 1 = q /\ q \in 0 .. n + 1 /\ q + 1 \in 0 .. n + 2
      /\ q \in 0 .. n + 2 /\ q - 1 \in 0 .. n + 2
  OBVIOUS
<1>3. l.prev[o[q]] = o[q - 1] /\ l.next[o[q]] = o[q + 1]
  BY <1>1, <1>2
<1>4. /\ m.next = [l.next EXCEPT ![o[q - 1]] = o[q + 1]]
      /\ m.prev = [l.prev EXCEPT ![o[q + 1]] = o[q - 1]]
  BY <1>3 DEF LRU!Unlink
<1>5. o[q - 1] \in CacheNodes /\ o[q + 1] \in CacheNodes
  BY <1>1, <1>2
<1>6. m \in LinkType
  BY <1>3, <1>5 DEF LRU!Unlink, LinkType
<1>7. /\ \A x \in CacheNodes : m.next[x] = IF x = o[q - 1] THEN o[q + 1] ELSE l.next[x]
      /\ \A x \in CacheNodes : m.prev[x] = IF x = o[q + 1] THEN o[q - 1] ELSE l.prev[x]
  BY <1>4, <1>5 DEF LinkType
<1> HIDE DEF m
<1>8. /\ DOMAIN p = 0 .. n + 1 /\ p = [i \in 0 .. n + 1 |-> p[i]]
      /\ \A i \in 0 .. n + 1 : i < q => p[i] = o[i] /\ i \in 0 .. n + 2
      /\ \A i \in 0 .. n + 1 : ~(i < q) => p[i] = o[i + 1] /\ i + 1 \in 0 .. n + 2
  OBVIOUS
<1> HIDE DEF p
<1>9. p \in [0 .. n + 1 -> CacheNodes]
  <2>1. \A i \in 0 .. n + 1 : p[i] \in CacheNodes
    BY <1>1, <1>8
  <2> QED BY <1>8, <2>1
<1>10. p[0] = Front /\ p[n + 1] = Back
  <2>1. 0 \in 0 .. n + 1 /\ 0 < q /\ n + 1 \in 0 .. n + 1 /\ ~(n + 1 < q) /\ (n + 1) + 1 = n + 2
    OBVIOUS
  <2> QED BY <1>1, <1>8, <2>1
<1>11. ASSUME NEW i \in 0 .. n + 1, NEW j \in 0 .. n + 1, p[i] = p[j] PROVE i = j
  <2>1. CASE i < q /\ j < q
    BY <1>1, <1>8, <1>11, <2>1
  <2>2. CASE i < q /\ ~(j < q)
    <3>1. i = j + 1
      BY <1>1, <1>8, <1>11, <2>2
    <3> QED BY <2>2, <3>1
  <2>3. CASE ~(i < q) /\ j < q
    <3>1. i + 1 = j
      BY <1>1, <1>8, <1>11, <2>3
    <3> QED BY <2>3, <3>1
  <2>4. CASE ~(i < q) /\ ~(j < q)
    <3>1. i + 1 = j + 1
      BY <1>1, <1>8, <1>11, <2>4
    <3> QED BY <3>1
  <2> QED BY <2>1, <2>2, <2>3, <2>4
<1>12. S \ {o[q]} = {p[i] : i \in 1 .. n}
  <2>1. \A i \in 1 .. n + 1 : i \in 0 .. n + 2 /\ o[i] \in S /\ (i # q => o[i] # o[q])
    BY <1>1, <1>2
  <2>2. ASSUME NEW i \in 1 .. n PROVE p[i] \in S \ {o[q]}
    <3>1. CASE i < q
      <4>1. i \in 1 .. n + 1 /\ i \in 0 .. n + 1 /\ i # q
        BY <3>1
      <4> QED BY ONLY <1>8, <2>1, <3>1, <4>1
    <3>2. CASE ~(i < q)
      <4>1. i + 1 \in 1 .. n + 1 /\ i \in 0 .. n + 1 /\ i + 1 # q /\ i + 1 \in 0 .. n + 2
        BY <3>2
      <4> QED BY ONLY <1>8, <2>1, <3>2, <4>1
    <3> QED BY <3>1, <3>2
  <2>3. ASSUME NEW i \in 1 .. n + 1, i # q PROVE \E j \in 1 .. n : p[j] = o[i]
    <3>1. CASE i < q
      <4>1. i \in 1 .. n /\ i \in 0 .. n + 1
        BY <3>1
      <4> QED BY <1>8, <3>1, <4>1
    <3>2. CASE i > q
      <4>1. i - 1 \in 1 .. n /\ i - 1 \in 0 .. n + 1 /\ ~(i - 1 < q) /\ (i - 1) + 1 = i
        BY <3>2
      <4>2. p[i - 1] = o[i]
        BY <1>8, <4>1
      <4> QED BY <4>1, <4>2
    <3> QED BY <2>3, <3>1, <3>2
  <2> QED BY SMTT(30), <1>1, <2>2, <2>3
<1>13. \A a, b \in 0 .. n + 2 : a # b => o[a] # o[b]
  BY <1>1
<1>14. ASSUME NEW i \in 0 .. n
       PROVE  m.next[p[i]] = p[i + 1] /\ m.prev[p[i + 1]] = p[i]
  <2>1. i \in 0 .. n + 1 /\ i + 1 \in 0 .. n + 1 /\ p[i] \in CacheNodes /\ p[i + 1] \in CacheNodes
    BY <1>9
  <2>2. CASE i < q - 1
    <3>1. p[i] = o[i] /\ p[i + 1] = o[i + 1] /\ i # q - 1 /\ i + 1 # q + 1
          /\ i \in 0 .. n + 2 /\ i + 1 \in 0 .. n + 2
      BY <1>8, <2>1, <2>2
    <3>2. o[i] # o[q - 1]
      BY ONLY <1>2, <1>13, <3>1
    <3>3. o[i + 1] # o[q + 1]
      BY ONLY <1>2, <1>13, <3>1
    <3>4. l.next[o[i]] = o[i + 1] /\ l.prev[o[i + 1]] = o[i]
      BY <1>1, <2>1
    <3> QED BY ONLY <1>7, <2>1, <3>1, <3>2, <3>3, <3>4
  <2>3. CASE i = q - 1
    <3>1. p[i] = o[q - 1] /\ p[i + 1] = o[q + 1]
      BY <1>8, <2>1, <2>3
    <3> QED BY <1>5, <1>7, <3>1
  <2>4. CASE i > q - 1
    <3>1. p[i] = o[i + 1] /\ p[i + 1] = o[(i + 1) + 1] /\ i + 1 # q - 1 /\ (i + 1) + 1 # q + 1
          /\ i + 1 \in 0 .. n + 2 /\ (i + 1) + 1 \in 0 .. n + 2
      BY <1>8, <2>1, <2>4
    <3>2. o[i + 1] # o[q - 1]
      BY ONLY <1>2, <1>13, <3>1
    <3>3. o[(i + 1) + 1] # o[q + 1]
      BY ONLY <1>2, <1>13, <3>1
    <3>4. l.next[o[i + 1]] = o[(i + 1) + 1] /\ l.prev[o[(i + 1) + 1]] = o[i + 1]
      BY <1>1, <2>1
    <3> QED BY ONLY <1>7, <2>1, <3>1, <3>2, <3>3, <3>4
  <2> QED BY <2>2, <2>3, <2>4
<1>15. ListIs(m, p, n, S \ {o[q]})
  BY <1>9, <1>10, <1>11, <1>12, <1>14 DEF ListIs
<1> QED BY <1>6, <1>15 DEF m, p

\* A node that is used comes to the front of the nodes before it.
LEMMA UsedIsFirst ==
    ASSUME NEW l \in LinkType, NEW n \in Nat, NEW o, NEW S \in SUBSET CacheKeys,
           ListIs(l, o, n + 1, S), NEW q \in 1 .. n + 1
    PROVE  LET p == [i \in 0 .. n + 2 |->
                        IF i = 0 THEN Front ELSE IF i = 1 THEN o[q]
                        ELSE IF i - 1 < q THEN o[i - 1] ELSE o[i]]
           IN  /\ LRU!MoveToFront(l, o[q]) \in LinkType
               /\ ListIs(LRU!MoveToFront(l, o[q]), p, n + 1, S)
<1> DEFINE p == [i \in 0 .. n + 1 |-> IF i < q THEN o[i] ELSE o[i + 1]]
           r == [i \in 0 .. n + 2 |-> IF i = 0 THEN Front ELSE IF i = 1 THEN o[q] ELSE p[i - 1]]
           s == [i \in 0 .. n + 2 |->
                        IF i = 0 THEN Front ELSE IF i = 1 THEN o[q]
                        ELSE IF i - 1 < q THEN o[i - 1] ELSE o[i]]
           m == LRU!Unlink(l, o[q])
<1>1. m \in LinkType /\ ListIs(m, p, n, S \ {o[q]})
  BY UnlinkedBetween
<1>2. o[q] \in S
  BY DEF ListIs
<1>3. o[q] \in CacheKeys /\ o[q] \notin S \ {o[q]} /\ (S \ {o[q]}) \union {o[q]} = S
      /\ S \ {o[q]} \in SUBSET CacheKeys
  BY <1>2
<1>4. LRU!AddToFront(m, o[q]) \in LinkType
      /\ ListIs(LRU!AddToFront(m, o[q]), r, n + 1, (S \ {o[q]}) \union {o[q]})
  <2> HIDE DEF m, p
  <2> QED BY <1>1, <1>3, AddedInFront
<1>5. r = s
  <2> SUFFICES ASSUME NEW i \in 0 .. n + 2, i # 0, i # 1
               PROVE  p[i - 1] = IF i - 1 < q THEN o[i - 1] ELSE o[i]
    OBVIOUS
  <2>1. i - 1 \in 0 .. n + 1 /\ (i - 1) + 1 = i
    OBVIOUS
  <2> QED BY <2>1
<1> HIDE DEF m, p, r, s
<1> QED BY <1>3, <1>4, <1>5 DEF LRU!MoveToFront, m, s

\* f takes N steps from x on, step i by g[i].
StepsBy(f, N, x, g) == f = [i \in 0 .. N |-> IF i = 0 THEN x ELSE g[i][f[i - 1]]]

\* Any number of steps can be taken.
LEMMA StepsExist ==
    ASSUME NEW N \in Nat, NEW x, NEW g
    PROVE  \E f : StepsBy(f, N, x, g)
<1> DEFINE Steps(M) == \E f : f = [i \in 0 .. M |-> IF i = 0 THEN x ELSE g[i][f[i - 1]]]
           Bad == {M \in Nat : ~Steps(M)}
<1>1. Steps(0)
  <2> DEFINE f == [i \in 0 .. 0 |-> x]
  <2>1. f = [i \in 0 .. 0 |-> IF i = 0 THEN x ELSE g[i][f[i - 1]]]
    OBVIOUS
  <2> QED BY <2>1
<1>2. ASSUME NEW M \in Nat, Steps(M) PROVE Steps(M + 1)
  <2>1. PICK f : f = [i \in 0 .. M |-> IF i = 0 THEN x ELSE g[i][f[i - 1]]]
    BY <1>2
  <2> DEFINE h == [i \in 0 .. M + 1 |-> IF i = M + 1 THEN g[M + 1][f[M]] ELSE f[i]]
  <2>2. \A i \in 0 .. M : h[i] = f[i]
    OBVIOUS
  <2>3. \A i \in 0 .. M + 1 : h[i] = IF i = 0 THEN x ELSE g[i][h[i - 1]]
    <3> SUFFICES ASSUME NEW i \in 0 .. M + 1 PROVE h[i] = IF i = 0 THEN x ELSE g[i][h[i - 1]]
      OBVIOUS
    <3>1. CASE i = 0
      BY <2>1, <3>1
    <3>2. CASE i \in 1 .. M
      <4>1. i - 1 \in 0 .. M /\ i \in 0 .. M /\ i # 0
        BY <3>2
      <4>2. f[i] = g[i][f[i - 1]]
        BY <2>1, <4>1
      <4> QED BY <2>2, <4>1, <4>2
    <3>3. CASE i = M + 1
      <4>1. i # 0 /\ i - 1 = M /\ M \in 0 .. M
        BY <3>3
      <4>2. h[i - 1] = f[M] /\ h[i] = g[M + 1][f[M]]
        BY <2>2, <3>3, <4>1
      <4> QED BY <3>3, <4>1, <4>2
    <3> QED BY <3>1, <3>2, <3>3
  <2>4. h = [i \in 0 .. M + 1 |-> h[i]]
    OBVIOUS
  <2> HIDE DEF h
  <2>5. h = [i \in 0 .. M + 1 |-> IF i = 0 THEN x ELSE g[i][h[i - 1]]]
    BY <2>3, <2>4
  <2> QED BY <2>5
<1> HIDE DEF Steps
<1>3. Bad = {}
  <2> SUFFICES ASSUME Bad # {} PROVE FALSE
    OBVIOUS
  <2>1. PICK v \in Bad : \A u \in Bad : v <= u
    BY Least
  <2>2. v \in Nat /\ ~Steps(v) /\ v # 0
    BY <1>1, <2>1
  <2>3. v - 1 \in Nat /\ ~(v <= v - 1) /\ (v - 1) + 1 = v
    BY <2>2
  <2>4. Steps(v - 1)
    BY <2>1, <2>3
  <2> QED BY <1>2, <2>2, <2>3, <2>4
<1> QED BY <1>3 DEF Steps, StepsBy

\* The steps along the pointers of a list.
StepsOf(l) ==
    CHOOSE f : f = [i \in 0 .. Capacity + 1 |-> IF i = 0 THEN Front ELSE l.next[f[i - 1]]]

\* They are its nodes.
LEMMA StepsAreNodes ==
    ASSUME NEW l, NEW n \in Nat, n <= Capacity, NEW o, NEW S, ListIs(l, o, n, S)
    PROVE  \A i \in 0 .. n + 1 : StepsOf(l)[i] = o[i]
<1> DEFINE f == StepsOf(l)
<1>1. Capacity + 1 \in Nat
  BY Sentinels
<1>2. f = [i \in 0 .. Capacity + 1 |-> IF i = 0 THEN Front ELSE l.next[f[i - 1]]]
  <2> DEFINE F(g) == [i \in 0 .. Capacity + 1 |-> IF i = 0 THEN Front ELSE l.next[g[i - 1]]]
  <2>1. \E g : g = F(g)
    <3> DEFINE along == [i \in 0 .. Capacity + 1 |-> l.next]
    <3>1. \A i \in 0 .. Capacity + 1 : along[i] = l.next
      OBVIOUS
    <3> HIDE DEF along
    <3>2. PICK g : StepsBy(g, Capacity + 1, Front, along)
      BY <1>1, StepsExist
    <3>3. g = [i \in 0 .. Capacity + 1 |-> IF i = 0 THEN Front ELSE l.next[g[i - 1]]]
      BY <3>1, <3>2 DEF StepsBy
    <3> QED BY <3>3
  <2>2. f = CHOOSE g : g = F(g)
    BY DEF StepsOf
  <2> HIDE DEF F, f
  <2>3. f = F(f)
    BY <2>1, <2>2
  <2> QED BY <2>3 DEF F
<1> HIDE DEF f
<1> DEFINE Bad == {i \in 0 .. n + 1 : f[i] # o[i]}
<1>3. f[0] = o[0]
  <2>1. 0 \in 0 .. Capacity + 1
    BY <1>1
  <2>2. f[0] = Front
    BY ONLY <1>2, <2>1
  <2>3. o[0] = Front
    BY DEF ListIs
  <2> QED BY ONLY <2>2, <2>3
<1>4. Bad = {}
  <2> SUFFICES ASSUME Bad # {} PROVE FALSE
    OBVIOUS
  <2>1. PICK v \in Bad : \A u \in Bad : v <= u
    <3>1. Bad \in SUBSET Nat
      OBVIOUS
    <3> HIDE DEF Bad
    <3> QED BY <3>1, Least
  <2>2. v \in 1 .. n + 1 /\ f[v] # o[v]
    BY <1>3, <2>1
  <2>3. v - 1 \in 0 .. n /\ ~(v <= v - 1) /\ (v - 1) + 1 = v /\ v - 1 \in 0 .. n + 1
        /\ v \in 0 .. Capacity + 1 /\ v # 0
    BY <2>2, Sentinels
  <2>4. f[v - 1] = o[v - 1]
    BY <2>1, <2>3
  <2>5. f[v] = l.next[o[v - 1]]
    BY <1>2, <2>3, <2>4
  <2>6. l.next[o[v - 1]] = o[v]
    BY <2>3 DEF ListIs
  <2> QED BY <2>2, <2>5, <2>6
<1> QED BY <1>4 DEF f

\* The nodes behind the front are the nodes of the list, in the next state too.
LEMMA NodesInOrder ==
    ASSUME NEW n \in Nat, n <= Capacity, NEW o, NEW S
    PROVE  /\ ListIs(links, o, n, S) => \A i \in 0 .. n + 1 : LRU!Nth[i] = o[i]
           /\ ListIs(links', o, n, S) => \A i \in 0 .. n + 1 : LRU!Nth'[i] = o[i]
<1>1. LRU!Nth = StepsOf(links) /\ LRU!Nth' = StepsOf(links')
  BY DEF LRU!Nth, StepsOf
<1> QED BY <1>1, StepsAreNodes

\* The pointers of l hold the keys C between the sentinels, in some order.
Linked(l, C) ==
    /\ l \in LinkType
    /\ C \in SUBSET CacheKeys /\ IsFiniteSet(C)
    /\ \E n \in Nat : n = Cardinality(C) /\ \E o : ListIs(l, o, n, C)

\* A node that is added is in the list.
LEMMA AddedIsLinked ==
    ASSUME NEW l, NEW C, Linked(l, C), NEW k \in CacheKeys, k \notin C
    PROVE  /\ Linked(LRU!AddToFront(l, k), C \union {k})
           /\ Cardinality(C \union {k}) = Cardinality(C) + 1
<1>1. l \in LinkType /\ C \in SUBSET CacheKeys /\ IsFiniteSet(C)
  BY DEF Linked
<1>2. PICK n \in Nat : n = Cardinality(C) /\ \E o : ListIs(l, o, n, C)
  BY DEF Linked
<1>3. PICK o : ListIs(l, o, n, C)
  BY <1>2
<1>4. IsFiniteSet(C \union {k}) /\ Cardinality(C \union {k}) = Cardinality(C) + 1
  BY <1>1, FS_AddElement
<1>5. LRU!AddToFront(l, k) \in LinkType
      /\ \E p : ListIs(LRU!AddToFront(l, k), p, n + 1, C \union {k})
  BY <1>1, <1>3, AddedInFront
<1>6. n + 1 \in Nat /\ C \union {k} \in SUBSET CacheKeys
  BY <1>1
<1> QED BY <1>2, <1>4, <1>5, <1>6 DEF Linked

\* A node that is unlinked leaves the list.
LEMMA UnlinkedIsGone ==
    ASSUME NEW l, NEW C, Linked(l, C), NEW k \in C
    PROVE  /\ Linked(LRU!Unlink(l, k), C \ {k})
           /\ Cardinality(C \ {k}) = Cardinality(C) - 1
<1>1. l \in LinkType /\ C \in SUBSET CacheKeys /\ IsFiniteSet(C)
  BY DEF Linked
<1>2. PICK n \in Nat : n = Cardinality(C) /\ \E o : ListIs(l, o, n, C)
  BY DEF Linked
<1>3. PICK o : ListIs(l, o, n, C)
  BY <1>2
<1>4. PICK q \in 1 .. n : o[q] = k
  BY <1>3 DEF ListIs
<1>5. IsFiniteSet(C \ {k}) /\ Cardinality(C \ {k}) = Cardinality(C) - 1
  BY <1>1, FS_RemoveElement
<1>6. PICK m \in Nat : n = m + 1
  <2>1. n - 1 \in Nat /\ n = (n - 1) + 1
    BY <1>4
  <2> QED BY <2>1
<1>7. ListIs(l, o, m + 1, C) /\ q \in 1 .. m + 1
  BY <1>3, <1>4, <1>6
<1>8. LRU!Unlink(l, o[q]) \in LinkType
      /\ \E p : ListIs(LRU!Unlink(l, o[q]), p, m, C \ {o[q]})
  BY <1>1, <1>7, UnlinkedBetween
<1>9. m = Cardinality(C \ {k}) /\ C \ {k} \in SUBSET CacheKeys
  BY <1>1, <1>2, <1>5, <1>6
<1> QED BY <1>4, <1>5, <1>8, <1>9 DEF Linked

\* A node that moves to the front stays in the list.
LEMMA MovedIsLinked ==
    ASSUME NEW l, NEW C, Linked(l, C), NEW k \in C
    PROVE  Linked(LRU!MoveToFront(l, k), C)
<1>1. k \in CacheKeys /\ k \notin C \ {k} /\ (C \ {k}) \union {k} = C
  BY DEF Linked
<1>2. Linked(LRU!Unlink(l, k), C \ {k})
  BY UnlinkedIsGone
<1> HIDE DEF Linked
<1>3. Linked(LRU!AddToFront(LRU!Unlink(l, k), k), (C \ {k}) \union {k})
  BY <1>1, <1>2, AddedIsLinked
<1> QED BY <1>1, <1>3 DEF LRU!MoveToFront

\* The last node of a list that holds one is a key of it.
LEMMA LastIsAKey ==
    ASSUME NEW l, NEW C, Linked(l, C), C # {}
    PROVE  l.prev[Back] \in C
<1>1. PICK n \in Nat : n = Cardinality(C) /\ \E o : ListIs(l, o, n, C)
  BY DEF Linked
<1>2. PICK o : ListIs(l, o, n, C)
  BY <1>1
<1>3. n \in 1 .. n
  <2>1. C = {o[i] : i \in 1 .. n}
    BY <1>2 DEF ListIs
  <2>2. PICK i \in 1 .. n : TRUE
    BY <2>1
  <2> QED BY <2>2
<1>4. l.prev[o[n + 1]] = o[n] /\ o[n + 1] = Back /\ o[n] \in C
  BY <1>2, <1>3 DEF ListIs
<1> QED BY <1>4

\* The nodes of the map, and no others, are in the list; the map keeps to its
\* capacity.
LRUInv == Linked(links, LRU!Cached) /\ Cardinality(LRU!Cached) <= Capacity

\* An empty list is a list.
LEMMA LRUInitInv == LRU!Init => LRUInv
<1> SUFFICES ASSUME LRU!Init PROVE LRUInv
  OBVIOUS
<1>1. LRU!Cached = {}
  BY DEF LRU!Init, LRU!Cached
<1>2. IsFiniteSet({}) /\ Cardinality({}) = 0
  BY FS_EmptySet
<1>3. links = [next |-> [n \in CacheNodes |-> Back], prev |-> [n \in CacheNodes |-> Front]]
  BY DEF LRU!Init, LRU!Nodes, CacheNodes
<1>4. links \in LinkType /\ Front \in CacheNodes /\ Back \in CacheNodes
  BY <1>3 DEF LinkType, CacheNodes
<1> DEFINE o == [i \in 0 .. 0 + 1 |-> IF i = 0 THEN Front ELSE Back]
<1>5. ListIs(links, o, 0, {})
  BY <1>3, <1>4, Sentinels DEF ListIs
<1>6. Linked(links, {})
  BY <1>2, <1>4, <1>5 DEF Linked
<1> QED BY <1>1, <1>2, <1>6, Sentinels DEF LRUInv

\* A step of the cache keeps the list.
LEMMA LRUStepInv ==
    ASSUME LRUInv, LRU!Next
    PROVE  LRUInv'
<1> DEFINE C == LRU!Cached
<1>1. Linked(links, C) /\ Cardinality(C) <= Capacity /\ C \in SUBSET CacheKeys
      /\ IsFiniteSet(C) /\ Cardinality(C) \in Nat /\ Capacity \in Nat
  BY Sentinels, FS_CardinalityType DEF LRUInv, Linked
<1>2. ASSUME LRU!Tick PROVE LRUInv'
  BY <1>2 DEF LRU!Tick, LRUInv, LRU!Cached
<1>3. ASSUME NEW l, NEW D, Linked(l, D), Cardinality(D) <= Capacity, links' = l, DOMAIN cache' = D
      PROVE  LRUInv'
  BY <1>3 DEF LRUInv, LRU!Cached
<1>4. ASSUME NEW k \in CacheKeys, LRU!Get(k) PROVE LRUInv'
  <2>1. k \in C
    BY <1>4 DEF LRU!Get
  <2>2. Linked(LRU!MoveToFront(links, k), C)
    BY <1>1, <2>1, MovedIsLinked
  <2>3. CASE LRU!Expired(k)
    <3>1. links' = LRU!Unlink(LRU!MoveToFront(links, k), k) /\ DOMAIN cache' = C \ {k}
      BY <1>4, <2>3 DEF LRU!Get, LRU!Without
    <3>2. Linked(LRU!Unlink(LRU!MoveToFront(links, k), k), C \ {k})
          /\ Cardinality(C \ {k}) = Cardinality(C) - 1
      BY <2>1, <2>2, UnlinkedIsGone
    <3>3. Cardinality(C \ {k}) <= Capacity
      BY <1>1, <3>2
    <3> HIDE DEF C
    <3> QED BY <1>3, <3>1, <3>2, <3>3
  <2>4. CASE ~LRU!Expired(k)
    <3>1. links' = LRU!MoveToFront(links, k) /\ DOMAIN cache' = C
      BY <1>4, <2>4 DEF LRU!Get, LRU!Cached
    <3> HIDE DEF C
    <3> QED BY <1>1, <1>3, <2>2, <3>1
  <2> QED BY <2>3, <2>4
<1>5. ASSUME NEW k \in CacheKeys, NEW ttl \in CacheTtls, LRU!Put(k, ttl) PROVE LRUInv'
  <2> DEFINE e == IF ttl = Nothing THEN Nothing ELSE now + ttl
             added == LRU!AddToFront(links, k)
             lru == added.prev[Back]
  <2>1. CASE k \in C /\ cache' = LRU!With(k, e) /\ links' = LRU!MoveToFront(links, k)
    <3>1. DOMAIN cache' = C
      BY <2>1 DEF LRU!With
    <3>2. Linked(LRU!MoveToFront(links, k), C)
      BY <1>1, <2>1, MovedIsLinked
    <3> HIDE DEF C
    <3> QED BY <1>1, <1>3, <2>1, <3>1, <3>2
  <2>2. CASE k \notin C /\ LRU!Cardinality(C) < Capacity /\ cache' = LRU!With(k, e) /\ links' = added
    <3>1. DOMAIN cache' = C \union {k}
      BY <2>2 DEF LRU!With
    <3>2. Linked(added, C \union {k}) /\ Cardinality(C \union {k}) = Cardinality(C) + 1
      BY <1>1, <2>2, AddedIsLinked
    <3>3. LRU!Cardinality(C) = Cardinality(C)
      BY DEF LRU!Cardinality, Cardinality
    <3>4. Cardinality(C \union {k}) <= Capacity
      BY <1>1, <2>2, <3>2, <3>3
    <3> HIDE DEF C, added
    <3> QED BY <1>3, <2>2, <3>1, <3>2, <3>4
  <2>3. CASE /\ k \notin C
             /\ cache' = [j \in DOMAIN LRU!With(k, e) \ {lru} |-> LRU!With(k, e)[j]]
             /\ links' = LRU!Unlink(added, lru)
    <3>1. DOMAIN cache' = (C \union {k}) \ {lru}
      BY <2>3 DEF LRU!With
    <3>2. Linked(added, C \union {k}) /\ Cardinality(C \union {k}) = Cardinality(C) + 1
      BY <1>1, <2>3, AddedIsLinked
    <3>3. lru \in C \union {k}
      BY <3>2, LastIsAKey
    <3>4. Linked(LRU!Unlink(added, lru), (C \union {k}) \ {lru})
          /\ Cardinality((C \union {k}) \ {lru}) = Cardinality(C \union {k}) - 1
      BY <3>2, <3>3, UnlinkedIsGone
    <3>5. Cardinality((C \union {k}) \ {lru}) <= Capacity
      BY <1>1, <3>2, <3>4
    <3> HIDE DEF C, added, lru
    <3> QED BY <1>3, <2>3, <3>1, <3>4, <3>5
  <2> QED BY <1>5, <2>1, <2>2, <2>3 DEF LRU!Put
<1> QED BY <1>2, <1>4, <1>5 DEF LRU!Next

\* The cache keeps its list in the composition.
LEMMA LRUInductive ==
    /\ StoresInit => LRUInv
    /\ LRUInv /\ [StoresNext]_all => LRUInv'
<1>1. StoresInit => LRUInv
  BY LRUInitInv DEF StoresInit
<1>2. LRUInv /\ [StoresNext]_all => LRUInv'
  <2>1. [StoresNext]_all => LRU!Next \/ UNCHANGED lru_vars
    <3>1. UNCHANGED all => UNCHANGED lru_vars
      BY DEF all
    <3>2. StoresNext => LRU!Next \/ UNCHANGED lru_vars
      BY Zenon DEF StoresNext, LRUStep, CoWStep, GCStep, FreelistStep, BitmapStep, TreeStep, ShardsStep,
         TransactionalStep, ExpiringStep, HeapStep, DequeStep, RingsStep, LedgerStep,
         PermissionsStep, OthersRest
    <3> QED BY <3>1, <3>2
  <2>2. LRUInv /\ UNCHANGED lru_vars => LRUInv'
    BY DEF LRUInv, lru_vars, LRU!Cached
  <2> QED BY <2>1, <2>2, LRUStepInv
<1> QED BY <1>1, <1>2

\* A list of the keys of the map mirrors it.
LEMMA LinkedMirrors == LRUInv => LinksMirrorTheMap
<1> SUFFICES ASSUME LRUInv PROVE LinksMirrorTheMap
  OBVIOUS
<1> DEFINE C == LRU!Cached
<1>1. Linked(links, C) /\ Cardinality(C) <= Capacity
  BY DEF LRUInv
<1>2. PICK n \in Nat : n = Cardinality(C) /\ \E o : ListIs(links, o, n, C)
  BY <1>1 DEF Linked
<1>3. PICK o : ListIs(links, o, n, C)
  BY <1>2
<1>4. \A i \in 0 .. n + 1 : LRU!Nth[i] = o[i]
  BY <1>1, <1>2, <1>3, NodesInOrder
<1>5. LRU!Cardinality(C) = n
  BY <1>2 DEF LRU!Cardinality, Cardinality
<1>6. LRU!Order = [i \in 1 .. n |-> LRU!Nth[i]]
  BY <1>5 DEF LRU!Order
<1>7. {LRU!Order[i] : i \in DOMAIN LRU!Order} = C
  <2>1. C = {o[i] : i \in 1 .. n}
    BY <1>3 DEF ListIs
  <2>2. DOMAIN LRU!Order = 1 .. n /\ \A i \in 1 .. n : LRU!Order[i] = o[i]
    BY <1>4, <1>6
  <2> HIDE DEF C
  <2> QED BY <2>1, <2>2
<1>8. links.next[LRU!Nth[n]] = Back
  BY <1>3, <1>4 DEF ListIs
<1>9. ASSUME NEW x \in C \union {Front} PROVE links.prev[links.next[x]] = x
  <2>1. PICK i \in 0 .. n : x = o[i]
    <3>1. C = {o[i] : i \in 1 .. n} /\ o[0] = Front /\ 0 \in 0 .. n
      BY <1>3 DEF ListIs
    <3>2. CASE x = Front
      BY <3>1, <3>2
    <3>3. CASE x \in C
      <4>1. PICK i \in 1 .. n : x = o[i]
        BY <3>1, <3>3
      <4> QED BY <4>1
    <3> QED BY <3>2, <3>3
  <2> QED BY <1>3, <2>1 DEF ListIs
<1> QED BY <1>1, <1>2, <1>5, <1>7, <1>8, <1>9 DEF LinksMirrorTheMap, LRU!LinksMirrorTheMap

\* The list and the map of the LRU cache hold the same keys, for any capacity:
\* whatever is read, written, expired or put out, every key of the map is once
\* in the list, which reads the same in both directions.
THEOREM LinksMirrorAlways == StoresSpec => []LinksMirrorTheMap
BY LRUInductive, LinkedMirrors, PTL DEF StoresSpec

\* Order is what the list holds between the sentinels.
LEMMA OrderIsTheList ==
    ASSUME NEW n \in Nat, n <= Capacity, NEW o, NEW S
    PROVE  /\ ListIs(links, o, n, S) /\ n = Cardinality(LRU!Cached)
                => LRU!Order = [i \in 1 .. n |-> o[i]]
           /\ ListIs(links', o, n, S) /\ n = Cardinality(LRU!Cached')
                => LRU!Order' = [i \in 1 .. n |-> o[i]]
<1>1. /\ n = Cardinality(LRU!Cached) => LRU!Order = [i \in 1 .. n |-> LRU!Nth[i]]
      /\ n = Cardinality(LRU!Cached') => LRU!Order' = [i \in 1 .. n |-> LRU!Nth'[i]]
  BY DEF LRU!Order, LRU!Cardinality, Cardinality
<1>2. \A i \in 1 .. n : i \in 0 .. n + 1
  OBVIOUS
<1> QED BY <1>1, <1>2, NodesInOrder
\* What is left of a sequence of different keys without one of them.
LEMMA OthersInOrder ==
    ASSUME NEW n \in Nat, NEW s \in [1 .. n -> CacheKeys],
           \A i, j \in 1 .. n : s[i] = s[j] => i = j, NEW k
    PROVE  /\ (\A i \in 1 .. n : s[i] # k) => LRU!Lists!RemoveFirst(s, k) = s
           /\ \A q \in 1 .. n : s[q] = k =>
                 LRU!Lists!RemoveFirst(s, k)
                    = [i \in 1 .. n - 1 |-> IF i < q THEN s[i] ELSE s[i + 1]]
<1>1. s \in Seq(CacheKeys) /\ Len(s) = n
  OBVIOUS
<1>2. (\A i \in 1 .. n : s[i] # k) => LRU!Lists!RemoveFirst(s, k) = s
  BY <1>1 DEF LRU!Lists!RemoveFirst
<1>3. ASSUME NEW q \in 1 .. n, s[q] = k
      PROVE  LRU!Lists!RemoveFirst(s, k)
                = [i \in 1 .. n - 1 |-> IF i < q THEN s[i] ELSE s[i + 1]]
  <2> DEFINE I == {i \in 1 .. Len(s) : s[i] = k}
             front == SubSeq(s, 1, q - 1)
             back == SubSeq(s, q + 1, Len(s))
  <2>1. I = {q}
    BY <1>1, <1>3
  <2>2. LRU!Lists!Min(I) = q
    <3>1. \A x : (x \in {q} /\ \A y \in {q} : x <= y) <=> x = q
      OBVIOUS
    <3>2. LRU!Lists!Min({q}) = q
      BY <3>1 DEF LRU!Lists!Min
    <3> QED BY <2>1, <3>2
  <2>3. LRU!Lists!RemoveFirst(s, k) = LRU!Lists!RemoveAt(s, q)
    <3>1. \E i \in 1 .. Len(s) : s[i] = k
      BY <1>1, <1>3
    <3>2. LRU!Lists!SelectInSeq(s, LAMBDA v : v = k) = q
      BY <2>1, <2>2 DEF LRU!Lists!SelectInSeq
    <3> QED BY <3>1, <3>2 DEF LRU!Lists!RemoveFirst
  <2>4. /\ front \in Seq(CacheKeys) /\ Len(front) = q - 1
        /\ \A i \in 1 .. q - 1 : front[i] = s[i]
    BY <1>1
  <2>5. /\ back \in Seq(CacheKeys) /\ Len(back) = n - q
        /\ \A i \in 1 .. n - q : back[i] = s[q + i]
    BY <1>1
  <2>6. LRU!Lists!RemoveFirst(s, k) = front \o back
    BY <2>3 DEF LRU!Lists!RemoveAt
  <2> HIDE DEF front, back
  <2>7. front \o back \in Seq(CacheKeys) /\ Len(front \o back) = n - 1
    <3>1. front \o back \in Seq(CacheKeys) /\ Len(front \o back) = Len(front) + Len(back)
      <4>1. \A x, y \in Seq(CacheKeys) : x \o y \in Seq(CacheKeys) /\ Len(x \o y) = Len(x) + Len(y)
        OBVIOUS
      <4> QED BY <2>4, <2>5, <4>1, Zenon
    <3>2. (q - 1) + (n - q) = n - 1
      OBVIOUS
    <3> QED BY <2>4, <2>5, <3>1, <3>2
  <2>8. ASSUME NEW i \in 1 .. n - 1
        PROVE  (front \o back)[i] = IF i < q THEN s[i] ELSE s[i + 1]
    <3>1. CASE i < q
      BY <2>4, <2>5, <3>1
    <3>2. CASE ~(i < q)
      <4>1. i - (q - 1) \in 1 .. n - q /\ (front \o back)[i] = back[i - (q - 1)]
        BY <2>4, <2>5, <3>2
      <4>2. q + (i - (q - 1)) = i + 1
        OBVIOUS
      <4> QED BY <2>5, <3>2, <4>1, <4>2
    <3> QED BY <3>1, <3>2
  <2>9. front \o back = [i \in 1 .. n - 1 |-> (front \o back)[i]]
    <3> DEFINE t == front \o back
    <3>1. t \in Seq(CacheKeys) /\ Len(t) = n - 1
      BY <2>7
    <3> HIDE DEF t
    <3>2. t = [i \in 1 .. Len(t) |-> t[i]]
      BY <3>1
    <3> QED BY <3>1, <3>2 DEF t
  <2> QED BY <2>6, <2>8, <2>9
<1> QED BY <1>2, <1>3

\* A key before some others, and the first few of these.
LEMMA KeyBefore ==
    ASSUME NEW n \in Nat, NEW s \in [1 .. n -> CacheKeys], NEW k \in CacheKeys
    PROVE  /\ <<k>> \o s = [i \in 1 .. n + 1 |-> IF i = 1 THEN k ELSE s[i - 1]]
           /\ \A m \in 0 .. n + 1 :
                 SubSeq(<<k>> \o s, 1, m) = [i \in 1 .. m |-> IF i = 1 THEN k ELSE s[i - 1]]
<1>1. s \in Seq(CacheKeys) /\ Len(s) = n /\ <<k>> \in Seq(CacheKeys) /\ Len(<<k>>) = 1
  OBVIOUS
<1>2. /\ <<k>> \o s \in Seq(CacheKeys) /\ Len(<<k>> \o s) = n + 1
      /\ \A i \in 1 .. n + 1 : (<<k>> \o s)[i] = IF i = 1 THEN k ELSE s[i - 1]
  BY <1>1
<1>3. <<k>> \o s = [i \in 1 .. n + 1 |-> IF i = 1 THEN k ELSE s[i - 1]]
  BY <1>2
<1>4. ASSUME NEW m \in 0 .. n + 1
      PROVE  SubSeq(<<k>> \o s, 1, m) = [i \in 1 .. m |-> IF i = 1 THEN k ELSE s[i - 1]]
  <2> DEFINE t == <<k>> \o s
  <2> HIDE DEF t
  <2>1. SubSeq(t, 1, m) \in Seq(CacheKeys) /\ Len(SubSeq(t, 1, m)) = m
        /\ \A i \in 1 .. m : SubSeq(t, 1, m)[i] = t[i]
    BY <1>2 DEF t
  <2>2. \A i \in 1 .. m : i \in 1 .. n + 1
    OBVIOUS
  <2>3. \A i \in 1 .. m : SubSeq(t, 1, m)[i] = IF i = 1 THEN k ELSE s[i - 1]
    BY <1>2, <2>1, <2>2 DEF t
  <2> QED BY <2>1, <2>3 DEF t
<1> QED BY <1>3, <1>4

\* A call brings its key before the others, and who leaves is that key, if it
\* is over, or the last one.
LEMMA UsesMove ==
    ASSUME LRUInv, NEW k \in CacheKeys
    PROVE  /\ LRU!Get(k) => LRU!Order' = IF LRU!Expired(k) THEN LRU!Apart(k)
                                         ELSE <<k>> \o LRU!Apart(k)
           /\ \A ttl \in CacheTtls : LRU!Put(k, ttl) =>
                 LRU!Order' = SubSeq(<<k>> \o LRU!Apart(k), 1, LRU!Cardinality(LRU!Cached'))
<1> DEFINE C == LRU!Cached
           uses == LRU!Order
<1>1. links \in LinkType /\ C \in SUBSET CacheKeys /\ IsFiniteSet(C)
  BY DEF LRUInv, Linked
<1>2. PICK n \in Nat : n = Cardinality(C) /\ n <= Capacity /\ \E o : ListIs(links, o, n, C)
  BY DEF LRUInv, Linked
<1>3. PICK o : ListIs(links, o, n, C)
  BY <1>2
<1>4. uses = [i \in 1 .. n |-> o[i]]
  BY <1>2, <1>3, OrderIsTheList
<1>5. C = {o[i] : i \in 1 .. n} /\ \A i, j \in 0 .. n + 1 : o[i] = o[j] => i = j
  BY <1>3 DEF ListIs
<1>6. uses \in [1 .. n -> CacheKeys] /\ \A i, j \in 1 .. n : uses[i] = uses[j] => i = j
  BY <1>1, <1>4, <1>5
<1>7. Capacity \in Nat /\ Capacity > 0 /\ \A D : LRU!Cardinality(D) = Cardinality(D)
  BY Sentinels DEF LRU!Cardinality, Cardinality
<1>8. ASSUME NEW m \in Nat, m <= Capacity, NEW p, NEW D, IsFiniteSet(D), m = Cardinality(D),
             ListIs(links', p, m, D), DOMAIN cache' = D
      PROVE  LRU!Order' = [i \in 1 .. m |-> p[i]] /\ LRU!Cardinality(LRU!Cached') = m
  BY <1>7, <1>8, OrderIsTheList DEF LRU!Cached
<1> HIDE DEF uses
\* where the key is in the list, and the list once it moved to the front
<1>9. ASSUME k \in C
      PROVE  \E q \in 1 .. n :
               /\ LRU!Apart(k) = [i \in 1 .. n - 1 |-> IF i < q THEN o[i] ELSE o[i + 1]]
               /\ LRU!Apart(k) \in [1 .. n - 1 -> CacheKeys] /\ n - 1 \in Nat
               /\ LRU!MoveToFront(links, k) \in LinkType
               /\ ListIs(LRU!MoveToFront(links, k),
                         [i \in 0 .. n + 1 |->
                            IF i = 0 THEN Front ELSE IF i = 1 THEN k
                            ELSE IF i - 1 < q THEN o[i - 1] ELSE o[i]], n, C)
  <2>1. PICK q \in 1 .. n : o[q] = k
    BY <1>5, <1>9
  <2>2. PICK m \in Nat : n = m + 1 /\ m = n - 1 /\ n + 1 = m + 2
    <3>1. n - 1 \in Nat /\ n = (n - 1) + 1 /\ n + 1 = (n - 1) + 2
      BY <2>1
    <3> QED BY <3>1
  <2>3. /\ LRU!MoveToFront(links, o[q]) \in LinkType
        /\ ListIs(LRU!MoveToFront(links, o[q]),
                  [i \in 0 .. m + 2 |->
                     IF i = 0 THEN Front ELSE IF i = 1 THEN o[q]
                     ELSE IF i - 1 < q THEN o[i - 1] ELSE o[i]], m + 1, C)
    <3>1. ListIs(links, o, m + 1, C) /\ q \in 1 .. m + 1
      BY <1>3, <2>2
    <3> HIDE DEF C
    <3> QED BY <1>1, <3>1, UsedIsFirst
  <2>4. uses[q] = k
    BY <1>4, <2>1
  <2>5. LRU!Lists!RemoveFirst(uses, k)
           = [i \in 1 .. n - 1 |-> IF i < q THEN uses[i] ELSE uses[i + 1]]
    BY <1>6, <2>4, OthersInOrder
  <2>6. ASSUME NEW i \in 1 .. n - 1
        PROVE  uses[i] = o[i] /\ uses[i + 1] = o[i + 1]
               /\ uses[i] \in CacheKeys /\ uses[i + 1] \in CacheKeys
    <3>1. i \in 1 .. n /\ i + 1 \in 1 .. n
      OBVIOUS
    <3> QED BY <1>4, <1>6, <3>1
  <2>7. LRU!Apart(k) = [i \in 1 .. n - 1 |-> IF i < q THEN o[i] ELSE o[i + 1]]
        /\ LRU!Apart(k) \in [1 .. n - 1 -> CacheKeys]
    BY <2>5, <2>6 DEF LRU!Apart, uses
  <2> HIDE DEF C
  <2> QED BY <2>1, <2>2, <2>3, <2>7
\* a key that is only used
<1>10. ASSUME k \in C, links' = LRU!MoveToFront(links, k), DOMAIN cache' = C
       PROVE  /\ LRU!Order' = <<k>> \o LRU!Apart(k)
              /\ LRU!Order' = SubSeq(<<k>> \o LRU!Apart(k), 1, LRU!Cardinality(LRU!Cached'))
  <2> DEFINE P(q) == [i \in 0 .. n + 1 |->
                        IF i = 0 THEN Front ELSE IF i = 1 THEN k
                        ELSE IF i - 1 < q THEN o[i - 1] ELSE o[i]]
             moved == LRU!MoveToFront(links, k)
             rest == LRU!Apart(k)
  <2>1. PICK q \in 1 .. n :
          /\ rest = [i \in 1 .. n - 1 |-> IF i < q THEN o[i] ELSE o[i + 1]]
          /\ rest \in [1 .. n - 1 -> CacheKeys] /\ n - 1 \in Nat
          /\ moved \in LinkType /\ ListIs(moved, P(q), n, C)
    BY <1>9, <1>10
  <2>2. PICK m \in Nat : n = m + 1 /\ m = n - 1
    BY <2>1
  <2>3. LRU!Order' = [i \in 1 .. n |-> P(q)[i]] /\ LRU!Cardinality(LRU!Cached') = n
    <3> HIDE DEF C, P, moved
    <3>1. links' = moved
      BY <1>10 DEF moved
    <3> QED BY <1>1, <1>2, <1>8, <1>10, <2>1, <3>1
  <2>4. ASSUME NEW i \in 1 .. n PROVE P(q)[i] = IF i = 1 THEN k ELSE rest[i - 1]
    <3>1. i \in 0 .. n + 1 /\ i # 0 /\ (i # 1 => i - 1 \in 1 .. n - 1 /\ (i - 1) + 1 = i)
      OBVIOUS
    <3> HIDE DEF rest
    <3> QED BY <2>1, <3>1
  <2>5. /\ <<k>> \o rest = [i \in 1 .. m + 1 |-> IF i = 1 THEN k ELSE rest[i - 1]]
        /\ SubSeq(<<k>> \o rest, 1, n) = [i \in 1 .. n |-> IF i = 1 THEN k ELSE rest[i - 1]]
    <3>1. n \in 0 .. m + 1 /\ rest \in [1 .. m -> CacheKeys]
      BY <2>1, <2>2
    <3> HIDE DEF rest
    <3> QED BY <3>1, KeyBefore
  <2> HIDE DEF P, rest
  <2> QED BY <2>2, <2>3, <2>4, <2>5 DEF rest
<1>11. ASSUME LRU!Get(k)
       PROVE  LRU!Order' = IF LRU!Expired(k) THEN LRU!Apart(k) ELSE <<k>> \o LRU!Apart(k)
  <2>1. k \in C
    BY <1>11 DEF LRU!Get
  <2> DEFINE P(q) == [i \in 0 .. n + 1 |->
                        IF i = 0 THEN Front ELSE IF i = 1 THEN k
                        ELSE IF i - 1 < q THEN o[i - 1] ELSE o[i]]
             moved == LRU!MoveToFront(links, k)
             rest == LRU!Apart(k)
  <2>2. PICK q \in 1 .. n :
          /\ rest = [i \in 1 .. n - 1 |-> IF i < q THEN o[i] ELSE o[i + 1]]
          /\ rest \in [1 .. n - 1 -> CacheKeys] /\ n - 1 \in Nat
          /\ moved \in LinkType /\ ListIs(moved, P(q), n, C)
    BY <1>9, <2>1
  <2>3. PICK m \in Nat : n = m + 1 /\ m = n - 1
    BY <2>2
  <2>4. \A i \in 1 .. m : P(q)[i + 1] = rest[i]
    <3> SUFFICES ASSUME NEW i \in 1 .. m PROVE P(q)[i + 1] = rest[i]
      OBVIOUS
    <3>1. i + 1 \in 0 .. n + 1 /\ i + 1 # 0 /\ i + 1 # 1 /\ (i + 1) - 1 = i
      BY <2>3
    <3> QED BY <2>2, <2>3, <3>1
  <2>5. P(q)[1] = k
    BY <2>3
  <2>6. CASE LRU!Expired(k)
    <3> DEFINE R == [i \in 0 .. m + 1 |-> IF i < 1 THEN P(q)[i] ELSE P(q)[i + 1]]
    <3>1. links' = LRU!Unlink(moved, k) /\ DOMAIN cache' = C \ {k}
      BY <1>11, <2>6 DEF LRU!Get, LRU!Without
    <3>2. ListIs(LRU!Unlink(moved, k), R, m, C \ {k})
      <4>1. ListIs(moved, P(q), m + 1, C) /\ 1 \in 1 .. m + 1
        BY <2>2, <2>3
      <4> HIDE DEF C, P, moved
      <4> QED BY <1>1, <2>2, <2>5, <4>1, UnlinkedBetween
    <3>3. m = Cardinality(C \ {k}) /\ IsFiniteSet(C \ {k}) /\ m <= Capacity
      <4>1. IsFiniteSet(C \ {k}) /\ Cardinality(C \ {k}) = Cardinality(C) - 1
        BY <1>1, <2>1, FS_RemoveElement
      <4> QED BY <1>2, <1>7, <2>3, <4>1
    <3>4. LRU!Order' = [i \in 1 .. m |-> R[i]]
      <4> HIDE DEF C, R, moved
      <4> QED BY <1>8, <3>1, <3>2, <3>3
    <3>5. \A i \in 1 .. m : R[i] = rest[i]
      <4> HIDE DEF P
      <4> QED BY <2>4
    <3> HIDE DEF R, rest
    <3> QED BY <2>2, <2>3, <2>6, <3>4, <3>5 DEF rest
  <2>7. CASE ~LRU!Expired(k)
    <3>1. links' = moved /\ DOMAIN cache' = C
      BY <1>11, <2>7 DEF LRU!Get, LRU!Cached
    <3> QED BY <1>10, <2>1, <2>7, <3>1
  <2> QED BY <2>6, <2>7
\* a key that is new, and perhaps one too many
<1>12. ASSUME k \notin C, NEW ttl \in CacheTtls, LRU!Put(k, ttl)
       PROVE  LRU!Order' = SubSeq(<<k>> \o LRU!Apart(k), 1, LRU!Cardinality(LRU!Cached'))
  <2> DEFINE e == IF ttl = Nothing THEN Nothing ELSE now + ttl
             added == LRU!AddToFront(links, k)
             lru == added.prev[Back]
             P == [i \in 0 .. n + 2 |-> IF i = 0 THEN Front ELSE IF i = 1 THEN k ELSE o[i - 1]]
             D == C \union {k}
             R == [i \in 0 .. n + 1 |-> IF i < n + 1 THEN P[i] ELSE P[i + 1]]
  <2>1. LRU!Apart(k) = uses
    <3>1. \A i \in 1 .. n : uses[i] # k
      BY <1>4, <1>5, <1>12
    <3> QED BY <1>6, <3>1, OthersInOrder DEF LRU!Apart, uses
  <2>2. added \in LinkType /\ ListIs(added, P, n + 1, D)
    <3> HIDE DEF C
    <3> QED BY <1>1, <1>3, <1>12, AddedInFront
  <2>3. /\ IsFiniteSet(D) /\ Cardinality(D) = n + 1 /\ D \in SUBSET CacheKeys
        /\ DOMAIN LRU!With(k, e) = D /\ n + 1 \in Nat
    BY <1>1, <1>2, <1>12, FS_AddElement DEF LRU!With
  <2>4. \A i \in 1 .. n + 1 : P[i] = IF i = 1 THEN k ELSE uses[i - 1]
    <3> SUFFICES ASSUME NEW i \in 1 .. n + 1 PROVE P[i] = IF i = 1 THEN k ELSE uses[i - 1]
      OBVIOUS
    <3>1. i \in 0 .. n + 2 /\ i # 0 /\ (i # 1 => i - 1 \in 1 .. n)
      OBVIOUS
    <3> QED BY <1>4, <3>1
  <2>5. \A m \in 0 .. n + 1 :
           SubSeq(<<k>> \o uses, 1, m) = [i \in 1 .. m |-> IF i = 1 THEN k ELSE uses[i - 1]]
    BY <1>6, KeyBefore
  <2>6. CASE n < Capacity
    <3>1. links' = added /\ DOMAIN cache' = D
      BY <1>2, <1>7, <1>12, <2>3, <2>6 DEF LRU!Put
    <3>2. LRU!Order' = [i \in 1 .. n + 1 |-> P[i]] /\ LRU!Cardinality(LRU!Cached') = n + 1
      <4>1. n + 1 <= Capacity
        BY <1>7, <2>6
      <4> HIDE DEF C, D, P, added
      <4> QED BY <1>8, <2>2, <2>3, <3>1, <4>1
    <3>3. n + 1 \in 0 .. n + 1
      OBVIOUS
    <3> HIDE DEF P
    <3> QED BY <2>1, <2>4, <2>5, <3>2, <3>3
  <2>7. CASE ~(n < Capacity)
    <3>1. links' = LRU!Unlink(added, lru) /\ DOMAIN cache' = D \ {lru}
      <4>1. ~(LRU!Cardinality(LRU!Cached) < Capacity)
        BY <1>2, <1>7, <2>7
      <4> QED BY <1>12, <2>3, <4>1 DEF LRU!Put
    <3>2. lru = P[n + 1] /\ lru \in D
      <4>1. n + 1 \in 0 .. n + 1 /\ n + 1 \in 1 .. n + 1 /\ (n + 1) + 1 = n + 2
        OBVIOUS
      <4> HIDE DEF P, added, D
      <4> QED BY <2>2, <4>1 DEF ListIs
    <3>3. ListIs(LRU!Unlink(added, lru), R, n, D \ {lru})
      <4>1. n + 1 \in 1 .. n + 1
        OBVIOUS
      <4> HIDE DEF P, added, D, C, lru
      <4> QED BY <2>2, <2>3, <3>2, <4>1, UnlinkedBetween
    <3>4. IsFiniteSet(D \ {lru}) /\ n = Cardinality(D \ {lru})
      <4> HIDE DEF D, lru, P, R, added
      <4>1. IsFiniteSet(D) /\ Cardinality(D) = n + 1
        BY <2>3
      <4>2. \A x \in D : IsFiniteSet(D \ {x}) /\ Cardinality(D \ {x}) = Cardinality(D) - 1
        BY <4>1, FS_RemoveElement
      <4>3. (n + 1) - 1 = n
        OBVIOUS
      <4> QED BY <3>2, <4>1, <4>2, <4>3
    <3>5. LRU!Order' = [i \in 1 .. n |-> R[i]] /\ LRU!Cardinality(LRU!Cached') = n
      <4> HIDE DEF R, D, added, lru, C
      <4> QED BY <1>2, <1>8, <3>1, <3>3, <3>4
    <3>6. \A i \in 1 .. n : R[i] = IF i = 1 THEN k ELSE uses[i - 1]
      <4>1. \A i \in 1 .. n : i \in 1 .. n + 1 /\ i \in 0 .. n + 1 /\ i < n + 1
        OBVIOUS
      <4> HIDE DEF P
      <4> QED BY <2>4, <4>1
    <3>7. n \in 0 .. n + 1
      OBVIOUS
    <3> HIDE DEF R, P, D, added, lru
    <3>8. SubSeq(<<k>> \o uses, 1, n) = [i \in 1 .. n |-> IF i = 1 THEN k ELSE uses[i - 1]]
      BY <2>5, <3>7
    <3>9. LRU!Order' = [i \in 1 .. n |-> IF i = 1 THEN k ELSE uses[i - 1]]
      BY <3>5, <3>6
    <3> QED BY <2>1, <3>5, <3>8, <3>9
  <2> QED BY <2>6, <2>7
<1>13. ASSUME k \in C, NEW ttl \in CacheTtls, LRU!Put(k, ttl)
       PROVE  LRU!Order' = SubSeq(<<k>> \o LRU!Apart(k), 1, LRU!Cardinality(LRU!Cached'))
  <2>1. links' = LRU!MoveToFront(links, k) /\ DOMAIN cache' = C \union {k}
    BY <1>13 DEF LRU!Put, LRU!With
  <2>2. C \union {k} = C
    BY <1>13
  <2> HIDE DEF C
  <2> QED BY <1>10, <1>13, <2>1, <2>2
<1> QED BY <1>11, <1>12, <1>13

\* The list of the LRU cache is in the order of the last uses, for any keys and
\* capacity: whatever is called, the key that is used comes to the front, the
\* others keep their order, and the one that leaves for want of room is the
\* last of them.
THEOREM LeastRecentGoesAlways == StoresSpec => LeastRecentGoes
<1>1. LRUInv => [\A k \in CacheKeys :
                   /\ LRU!Get(k) => LRU!Order' = IF LRU!Expired(k) THEN LRU!Apart(k)
                                                 ELSE <<k>> \o LRU!Apart(k)
                   /\ (\E ttl \in CacheTtls : LRU!Put(k, ttl)) =>
                         LRU!Order' = SubSeq(<<k>> \o LRU!Apart(k), 1,
                                             LRU!Cardinality(LRU!Cached'))]_(LRU!vars)
  BY UsesMove
<1> QED BY <1>1, LRUInductive, PTL DEF StoresSpec, LeastRecentGoes, LRU!LeastRecentGoes

-----------------------------------------------------------------------------
(* The hit counters *)

\* Two seconds of one window have two slots.
LEMMA SlotsDiffer ==
    ASSUME NEW x \in Nat, NEW y \in Nat, NEW z \in Nat \ {0}, x % z = y % z,
           x - y < z, y - x < z
    PROVE  x = y
<1>1. PICK p \in Nat, q \in Nat, r \in 0 .. z - 1 : x = p * z + r /\ y = q * z + r
  <2>1. x \div z \in Nat /\ x % z \in 0 .. z - 1 /\ x = (x \div z) * z + (x % z)
    BY IdsSplit
  <2>2. y \div z \in Nat /\ y = (y \div z) * z + (y % z)
    BY IdsSplit
  <2> QED BY <2>1, <2>2, Zenon
<1>2. ~(p < q)
  <2> SUFFICES ASSUME p + 1 <= q PROVE FALSE
    BY <1>1
  <2>1. p * z + z <= q * z
    BY <1>1
  <2>2. p * z \in Nat /\ q * z \in Nat
    BY <1>1
  <2> QED BY <1>1, <2>1, <2>2
<1>3. ~(q < p)
  <2> SUFFICES ASSUME q + 1 <= p PROVE FALSE
    BY <1>1
  <2>1. q * z + z <= p * z
    BY <1>1
  <2>2. p * z \in Nat /\ q * z \in Nat
    BY <1>1
  <2> QED BY <1>1, <2>1, <2>2
<1> QED BY <1>1, <1>2, <1>3

\* What both counters count, and what the answers are compared with.
Recent(t) == {s \in Counters!Seconds : s > t}
HitsSince(t) == SumOf(hits, Recent(t))

ClockAndHits ==
    /\ now \in Nat /\ now <= MaxTime
    /\ hits \in [Counters!Seconds -> Nat]

\* The sums of the properties.
LEMMA HistoriesAreSums == \A h, t : Counters!HitsAfter(h, t) = SumOf(h, Recent(t))
BY DEF Counters!HitsAfter, Recent, SumOf, MapThenSumSet, MapThenFoldSet,
       Counters!MapThenSumSet, Counters!MapThenFoldSet

\* Those of the rings and of the hits, now and in the next state.
LEMMA CountsAreSums ==
    /\ \A t : Counters!HitsAfter(hits, t) = HitsSince(t)
    /\ Counters!HitsInWindow = HitsSince(now - Window)
    /\ \A ring, t : Counters!GetHits(ring, t) = SumOf(Counters!Readings(ring, t), Counters!Slots)
    /\ Counters!RingsAreExact <=>
          SumOf(Counters!ShardHits, Counters!Shards) = HitsSince(now - Window)
<1>1. \A t : Counters!HitsAfter(hits, t) = HitsSince(t)
  BY DEF Counters!HitsAfter, HitsSince, Recent, SumOf, MapThenSumSet, MapThenFoldSet,
         Counters!MapThenSumSet, Counters!MapThenFoldSet
<1>2. \A ring, t : Counters!GetHits(ring, t) = SumOf(Counters!Readings(ring, t), Counters!Slots)
  BY DEF Counters!GetHits, SumOf, MapThenSumSet, MapThenFoldSet,
         Counters!MapThenSumSet, Counters!MapThenFoldSet
<1>3. Counters!RingsAreExact <=>
          SumOf(Counters!ShardHits, Counters!Shards) = Counters!HitsInWindow
  BY DEF Counters!RingsAreExact, SumOf, MapThenSumSet, MapThenFoldSet,
         Counters!MapThenSumSet, Counters!MapThenFoldSet
<1> QED BY <1>1, <1>2, <1>3 DEF Counters!HitsInWindow

\* A hit of a second that is recent is one more, and no other sum changes.
LEMMA OneMoreHit ==
    ASSUME ClockAndHits, NEW t \in Counters!Seconds, NEW u \in Int, Counters!HitAt(t)
    PROVE  /\ hits' \in [Counters!Seconds -> Nat]
           /\ HitsSince(u) \in Nat
           /\ HitsSince(u)' = HitsSince(u) + (IF t > u THEN 1 ELSE 0)
<1>1. /\ hits' \in [Counters!Seconds -> Nat] /\ hits'[t] = hits[t] + 1
      /\ \A s \in Counters!Seconds : s # t => hits'[s] = hits[s]
  BY DEF Counters!HitAt, ClockAndHits
<1>2. IsFiniteSet(Recent(u)) /\ Recent(u) \subseteq Counters!Seconds
  <2>1. IsFiniteSet(Counters!Seconds)
    BY FS_Interval, TierConstants DEF Counters!Seconds, Counters!HitCountersConstants
  <2> QED BY <2>1, FS_Subset DEF Recent
<1>3. \A s \in Recent(u) : hits[s] \in Nat /\ hits'[s] \in Nat
  BY <1>1, <1>2 DEF ClockAndHits
<1>4. SumOf(hits, Recent(u)) \in Nat
  BY <1>2, <1>3, SumType
<1>5. CASE t > u
  <2>1. t \in Recent(u)
    BY <1>5 DEF Recent
  <2>2. SumOf(hits', Recent(u)) = SumOf(hits, Recent(u)) + hits'[t] - hits[t]
    BY <1>1, <1>2, <1>3, <2>1, SumChange
  <2> QED BY <1>1, <1>3, <1>4, <1>5, <2>1, <2>2 DEF HitsSince, Recent
<1>6. CASE ~(t > u)
  <2>1. \A s \in Recent(u) : hits'[s] = hits[s]
    BY <1>1, <1>6 DEF Recent
  <2>2. SumOf(hits', Recent(u)) = SumOf(hits, Recent(u))
    BY <1>2, <2>1, SumSame
  <2> QED BY <1>1, <1>4, <1>6, <2>2 DEF HitsSince, Recent
<1> QED BY <1>5, <1>6

\* The deque is in order, not ahead of the clock, and holds what may still be
\* asked for.
Later(q, t) == {i \in 1 .. Len(q) : q[i] > t}

DequeInv ==
    /\ ts \in Seq(Nat)
    /\ \A i \in 1 .. Len(ts) : ts[i] <= now
    /\ \A i, j \in 1 .. Len(ts) : i <= j => ts[i] <= ts[j]
    /\ \A t \in Int : t >= now - Window => HitsSince(t) = Cardinality(Later(ts, t))

\* Nothing is later when nothing is recorded.
LEMMA DequeStarts ==
    ASSUME Counters!Init
    PROVE  ClockAndHits /\ DequeInv
<1>1. Window \in Nat /\ MaxTime \in Nat /\ IsFiniteSet(Counters!Seconds)
  BY FS_Interval, TierConstants DEF Counters!Seconds, Counters!HitCountersConstants
<1>2. ClockAndHits
  BY <1>1 DEF Counters!Init, ClockAndHits
<1>3. ts = <<>> /\ Len(ts) = 0
  BY DEF Counters!Init
<1>4. ASSUME NEW t \in Int PROVE HitsSince(t) = Cardinality(Later(ts, t))
  <2>1. Later(ts, t) = {} /\ Cardinality({}) = 0
    BY <1>3, FS_EmptySet DEF Later
  <2>2. IsFiniteSet(Recent(t)) /\ \A s \in Recent(t) : hits[s] = 0
    BY <1>1, FS_Subset DEF Recent, Counters!Init
  <2> QED BY <2>1, <2>2, SumZero DEF HitsSince
<1> QED BY <1>2, <1>3, <1>4 DEF DequeInv

\* A hit goes to the end of the deque.
LEMMA DequeHits ==
    ASSUME ClockAndHits, DequeInv, Counters!DequeHit
    PROVE  ClockAndHits' /\ DequeInv'
<1>1. /\ now \in Nat /\ now \in Counters!Seconds /\ now' = now
      /\ Counters!HitAt(now) /\ ts' = Append(ts, now) /\ Window \in Nat
  BY TierConstants
     DEF ClockAndHits, Counters!DequeHit, Counters!Seconds, Counters!HitCountersConstants
<1>2. PICK n \in Nat : n = Len(ts) /\ ts \in Seq(Nat)
  BY DEF DequeInv
<1>3. /\ ts' \in Seq(Nat) /\ Len(ts') = n + 1 /\ ts'[n + 1] = now
      /\ \A i \in 1 .. n : ts'[i] = ts[i]
  BY <1>1, <1>2
<1>4. ClockAndHits'
  <2>1. hits' \in [Counters!Seconds -> Nat]
    BY <1>1, OneMoreHit
  <2> QED BY <1>1, <2>1 DEF ClockAndHits, Counters!Seconds
<1>5. \A i \in 1 .. n + 1 : i \in 1 .. n \/ i = n + 1
  BY <1>2
<1>6. \A i \in 1 .. n + 1 : ts'[i] <= now
  BY <1>1, <1>2, <1>3, <1>5 DEF DequeInv
<1>7. \A i, j \in 1 .. n + 1 : i <= j => ts'[i] <= ts'[j]
  BY <1>1, <1>2, <1>3, <1>5, <1>6 DEF DequeInv
<1>8. ASSUME NEW t \in Int, t >= now - Window PROVE HitsSince(t)' = Cardinality(Later(ts', t))
  <2>1. HitsSince(t) = Cardinality(Later(ts, t)) /\ HitsSince(t) \in Nat
        /\ HitsSince(t)' = HitsSince(t) + (IF now > t THEN 1 ELSE 0)
    BY <1>1, <1>8, OneMoreHit DEF DequeInv
  <2>2. IsFiniteSet(Later(ts, t)) /\ n + 1 \notin Later(ts, t)
    <3>1. IsFiniteSet(1 .. n) /\ Later(ts, t) \subseteq 1 .. n
      BY <1>2, FS_Interval DEF Later
    <3>2. n + 1 \notin 1 .. n
      BY <1>2
    <3> QED BY <3>1, <3>2, FS_Subset
  <2>3. CASE now > t
    <3>1. Later(ts', t) = Later(ts, t) \union {n + 1}
      BY <1>2, <1>3, <1>5, <2>3 DEF Later
    <3>2. Cardinality(Later(ts, t) \union {n + 1}) = Cardinality(Later(ts, t)) + 1
      BY <2>2, FS_AddElement
    <3> QED BY <2>1, <2>3, <3>1, <3>2
  <2>4. CASE ~(now > t)
    <3>1. Later(ts', t) = Later(ts, t)
      BY <1>2, <1>3, <1>5, <2>4 DEF Later
    <3> QED BY <2>1, <2>4, <3>1
  <2> QED BY <2>3, <2>4
<1>9. \A t \in Int : t >= now' - Window => HitsSince(t)' = Cardinality(Later(ts, t))'
  <2>1. \A t : Cardinality(Later(ts, t))' = Cardinality(Later(ts', t))
    BY DEF Later
  <2> QED BY <1>1, <1>8, <2>1
<1>10. \A i \in 1 .. Len(ts') : ts'[i] <= now'
  BY <1>1, <1>3, <1>6
<1>11. \A i, j \in 1 .. Len(ts') : i <= j => ts'[i] <= ts'[j]
  BY <1>3, <1>7
<1> QED BY <1>3, <1>4, <1>9, <1>10, <1>11 DEF DequeInv

\* The front that get_hits takes off is what is too old, and the rest is new
\* enough.
LEMMA PurgedIsRecent ==
    ASSUME ClockAndHits, DequeInv
    PROVE  \E k \in 1 .. Len(ts) + 1 :
             /\ \A i \in 1 .. Len(ts) : ts[i] > now - Window <=> i >= k
             /\ Counters!Purged \in Seq(Nat) /\ Len(Counters!Purged) = Len(ts) - k + 1
             /\ \A i \in 1 .. Len(ts) - k + 1 : Counters!Purged[i] = ts[i + k - 1]
<1>1. /\ ts \in Seq(Nat) /\ Len(ts) \in Nat /\ now \in Nat /\ Window \in Nat \ {0}
      /\ \A i \in 1 .. Len(ts) : ts[i] \in Nat
      /\ \A i, j \in 1 .. Len(ts) : i <= j => ts[i] <= ts[j]
  BY TierConstants DEF ClockAndHits, DequeInv, Counters!HitCountersConstants
<1> DEFINE I == {i \in 1 .. Len(ts) : now - ts[i] < Window}
<1>2. CASE I = {}
  <2>1. Counters!Purged = <<>>
    BY <1>2 DEF Counters!Purged, Counters!SelectInSeq
  <2>2. PICK k \in 1 .. Len(ts) + 1 : k = Len(ts) + 1
    BY <1>1
  <2>3. ASSUME NEW i \in 1 .. Len(ts) PROVE ts[i] > now - Window <=> i >= k
    <3>1. ~(now - ts[i] < Window)
      BY <1>2
    <3> QED BY <1>1, <2>2, <3>1
  <2>4. Len(ts) - k + 1 = 0 /\ <<>> \in Seq(Nat) /\ Len(<<>>) = 0
    BY <1>1, <2>2
  <2> QED BY <2>1, <2>3, <2>4
<1>3. CASE I # {}
  <2>1. I \in SUBSET Nat
    OBVIOUS
  <2>2. PICK k \in I : k = Counters!Min(I) /\ \A i \in I : k <= i
    <3>1. \E k \in I : \A i \in I : k <= i
      <4> HIDE DEF I
      <4> QED BY <1>3, <2>1, Least
    <3> HIDE DEF I
    <3> QED BY <3>1 DEF Counters!Min
  <2>3. k \in 1 .. Len(ts) /\ k # 0 /\ now - ts[k] < Window
    OBVIOUS
  <2>4. Counters!SelectInSeq(ts, LAMBDA s : now - s < Window) = k
    BY <1>3, <2>2 DEF Counters!SelectInSeq
  <2>5. Counters!Purged = SubSeq(ts, k, Len(ts))
    BY <2>3, <2>4 DEF Counters!Purged
  <2>6. ASSUME NEW i \in 1 .. Len(ts) PROVE ts[i] > now - Window <=> i >= k
    <3>1. ts[i] > now - Window <=> now - ts[i] < Window
      BY SMTT(30), <1>1
    <3>2. i >= k => ts[k] <= ts[i]
      BY <1>1, <2>3
    <3>3. i >= k => now - ts[i] < Window
      BY SMTT(30), <1>1, <2>3, <3>2
    <3>4. now - ts[i] < Window => k <= i
      BY <2>2
    <3> QED BY <2>3, <3>1, <3>3, <3>4
  <2> HIDE DEF I
  <2>7. /\ SubSeq(ts, k, Len(ts)) \in Seq(Nat) /\ Len(SubSeq(ts, k, Len(ts))) = Len(ts) - k + 1
        /\ \A i \in 1 .. Len(ts) - k + 1 : SubSeq(ts, k, Len(ts))[i] = ts[i + k - 1]
    BY <1>1, <2>3
  <2>8. k \in 1 .. Len(ts) + 1
    BY <1>1, <2>3
  <2> QED BY <2>5, <2>6, <2>7, <2>8
<1> QED BY <1>2, <1>3

\* So its length is the number of hits in the window.
LEMMA DequeCounts ==
    ASSUME ClockAndHits, DequeInv
    PROVE  Counters!DequeIsExact
<1>1. PICK k \in 1 .. Len(ts) + 1 :
        /\ \A i \in 1 .. Len(ts) : ts[i] > now - Window <=> i >= k
        /\ Len(Counters!Purged) = Len(ts) - k + 1
  BY PurgedIsRecent
<1>2. Len(ts) \in Nat /\ now - Window \in Int /\ now - Window >= now - Window
  BY TierConstants DEF ClockAndHits, DequeInv, Counters!HitCountersConstants
<1>3. Later(ts, now - Window) = k .. Len(ts)
  BY <1>1, <1>2 DEF Later
<1>4. Cardinality(k .. Len(ts)) = Len(ts) - k + 1
  <2>1. k \in Int /\ k <= Len(ts) + 1
    BY <1>2
  <2>2. Cardinality(k .. Len(ts)) = IF k > Len(ts) THEN 0 ELSE Len(ts) - k + 1
    <3>1. ASSUME NEW m \in Int, NEW n \in Int
          PROVE  Cardinality(m .. n) = IF m > n THEN 0 ELSE n - m + 1
      BY FS_Interval
    <3>2. PICK m \in Int, n \in Int : m = k /\ n = Len(ts)
      BY <1>2, <2>1
    <3>3. Cardinality(m .. n) = IF m > n THEN 0 ELSE n - m + 1
      BY <3>1
    <3> QED BY <3>2, <3>3
  <2> QED BY <1>2, <2>1, <2>2
<1>5. HitsSince(now - Window) = Cardinality(Later(ts, now - Window))
  BY <1>2 DEF DequeInv
<1> QED BY <1>1, <1>3, <1>4, <1>5, CountsAreSums DEF Counters!DequeIsExact

\* What get_hits takes off is too old for any later answer.
LEMMA DequeGets ==
    ASSUME ClockAndHits, DequeInv, Counters!DequeGetHits
    PROVE  ClockAndHits' /\ DequeInv'
<1>1. PICK k \in 1 .. Len(ts) + 1 :
        /\ \A i \in 1 .. Len(ts) : ts[i] > now - Window <=> i >= k
        /\ Counters!Purged \in Seq(Nat) /\ Len(Counters!Purged) = Len(ts) - k + 1
        /\ \A i \in 1 .. Len(ts) - k + 1 : Counters!Purged[i] = ts[i + k - 1]
  BY PurgedIsRecent
<1>2. ts' = Counters!Purged /\ now' = now /\ hits' = hits
  BY DEF Counters!DequeGetHits
<1>3. ClockAndHits'
  BY <1>2 DEF ClockAndHits, Counters!Seconds
<1>4. Len(ts) \in Nat /\ now \in Nat /\ Window \in Nat /\ \A i \in 1 .. Len(ts) : ts[i] \in Nat
  BY TierConstants DEF ClockAndHits, DequeInv, Counters!HitCountersConstants
<1>5. PICK n \in Nat : n = Len(ts) - k + 1 /\ n + k - 1 = Len(ts)
  BY <1>4
<1>6. /\ ts' \in Seq(Nat) /\ Len(ts') = n
      /\ \A i \in 1 .. n : i + k - 1 \in 1 .. Len(ts) /\ ts'[i] = ts[i + k - 1]
  BY <1>1, <1>2, <1>4, <1>5
<1>7. \A i \in 1 .. n : ts'[i] <= now
  BY <1>6 DEF DequeInv
<1>8. \A i, j \in 1 .. n : i <= j => ts'[i] <= ts'[j]
  <2>1. \A i, j \in 1 .. n : i <= j => i + k - 1 <= j + k - 1
    OBVIOUS
  <2> QED BY <1>6, <2>1 DEF DequeInv
<1>9. ASSUME NEW t \in Int, t >= now - Window
      PROVE  Cardinality(Later(ts', t)) = Cardinality(Later(ts, t))
  <2> DEFINE New == Later(ts', t)
             Old == Later(ts, t)
             f == [i \in New |-> i + k - 1]
  <2>1. \A i \in Old : i - (k - 1) \in New /\ i = (i - (k - 1)) + k - 1
    <3>1. ASSUME NEW i \in Old PROVE i - (k - 1) \in New /\ i = (i - (k - 1)) + k - 1
      <4>1. i \in 1 .. Len(ts) /\ ts[i] > t
        BY DEF Later
      <4>2. i >= k
        <5>1. ts[i] > now - Window
          BY <1>4, <1>9, <4>1
        <5> QED BY <1>1, <4>1, <5>1
      <4>3. i - (k - 1) \in 1 .. n /\ i = (i - (k - 1)) + k - 1
        BY <1>4, <1>5, <4>1, <4>2
      <4>4. ts'[i - (k - 1)] = ts[i]
        BY <1>6, <4>3
      <4> QED BY <1>6, <4>1, <4>3, <4>4 DEF Later
    <3> QED BY <3>1
  <2>2. f \in [New -> Old]
    BY <1>6 DEF Later
  <2>3. \A i, j \in New : f[i] = f[j] => i = j
    BY <1>6 DEF Later
  <2>4. \A i \in Old : \E j \in New : f[j] = i
    <3>1. \A j \in New : f[j] = j + k - 1
      OBVIOUS
    <3> HIDE DEF New, Old, f
    <3> QED BY <2>1, <3>1
  <2>5. f \in Bijection(New, Old)
    <3> HIDE DEF New, Old, f
    <3> QED BY <2>2, <2>3, <2>4, Fun_IsBij
  <2>6. IsFiniteSet(New)
    <3>1. IsFiniteSet(1 .. n) /\ New \subseteq 1 .. n
      BY <1>6, FS_Interval DEF Later
    <3> QED BY <3>1, FS_Subset
  <2> HIDE DEF New, Old, f
  <2>7. ExistsBijection(New, Old)
    BY <2>5 DEF ExistsBijection
  <2>8. Cardinality(Old) = Cardinality(New)
    BY <2>6, <2>7, FS_Bijection
  <2> QED BY <2>8 DEF New, Old
<1>10. ASSUME NEW t \in Int, t >= now - Window PROVE HitsSince(t)' = Cardinality(Later(ts, t))'
  <2>1. HitsSince(t)' = HitsSince(t) /\ HitsSince(t) = Cardinality(Later(ts, t))
    BY <1>2, <1>10 DEF HitsSince, Recent, DequeInv, Counters!Seconds
  <2>2. Cardinality(Later(ts, t))' = Cardinality(Later(ts', t))
    BY DEF Later
  <2> QED BY <1>9, <1>10, <2>1, <2>2
<1> QED BY <1>2, <1>3, <1>6, <1>7, <1>8, <1>10 DEF DequeInv

\* Time asks for less.
LEMMA DequeTicks ==
    ASSUME ClockAndHits, DequeInv, Counters!DequeTick
    PROVE  ClockAndHits' /\ DequeInv'
<1>1. /\ now \in Nat /\ now' = now + 1 /\ now' <= MaxTime /\ ts' = ts /\ hits' = hits
      /\ Window \in Nat
  BY TierConstants DEF ClockAndHits, Counters!DequeTick, Counters!HitCountersConstants
<1>2. ClockAndHits'
  BY <1>1 DEF ClockAndHits, Counters!Seconds
<1>3. \A t \in Int : t >= now' - Window => t >= now - Window
  BY <1>1
<1>4. \A t \in Int : HitsSince(t)' = HitsSince(t) /\ Cardinality(Later(ts, t))' = Cardinality(Later(ts, t))
  BY <1>1 DEF HitsSince, Recent, Later
<1>5. \A i \in 1 .. Len(ts) : ts[i] <= now'
  <2>1. \A i \in 1 .. Len(ts) : ts[i] \in Nat /\ ts[i] <= now
    BY DEF DequeInv
  <2> QED BY <1>1, <2>1
<1> QED BY <1>1, <1>2, <1>3, <1>4, <1>5 DEF DequeInv

\* What is summed over two sets that have nothing in common.
LEMMA SumUnion ==
    ASSUME NEW f, NEW S, IsFiniteSet(S), NEW V, IsFiniteSet(V), S \intersect V = {},
           \A x \in S \union V : f[x] \in Int
    PROVE  SumOf(f, S \union V) = SumOf(f, S) + SumOf(f, V)
<1> DEFINE C == {T \in SUBSET V : SumOf(f, S \union T) # SumOf(f, S) + SumOf(f, T)}
<1>1. SumOf(f, S) \in Int
  BY SumType
<1>2. CASE C # {}
  <2>1. PICK T \in C : \A U \in C : U \subseteq T => U = T
    <3>1. C \in SUBSET (SUBSET V)
      OBVIOUS
    <3> HIDE DEF C
    <3> QED BY <1>2, <3>1, Smallest
  <2>2. T \in SUBSET V /\ SumOf(f, S \union T) # SumOf(f, S) + SumOf(f, T) /\ IsFiniteSet(T)
    BY <2>1, FS_Subset
  <2>3. T # {}
    <3> SUFFICES ASSUME T = {} PROVE FALSE
      OBVIOUS
    <3>1. SumOf(f, T) = 0
      BY SumEmpty
    <3>2. S \union T = S
      OBVIOUS
    <3>3. SumOf(f, S \union T) = SumOf(f, S)
      BY ONLY <3>2
    <3> QED BY <1>1, <2>2, <3>1, <3>3
  <2>4. PICK x \in T : TRUE
    BY <2>3
  <2> DEFINE R == T \ {x}
  <2>5. R \in SUBSET V /\ R \subseteq T /\ R # T /\ IsFiniteSet(R)
    BY <2>2, FS_Subset
  <2>6. (S \union T) \ {x} = S \union R
    BY <2>2, <2>4
  <2>7. SumOf(f, S \union T) = f[x] + SumOf(f, (S \union T) \ {x})
    <3>1. IsFiniteSet(S \union T) /\ x \in S \union T /\ \A y \in S \union T : f[y] \in Int
      BY <2>2, FS_Union
    <3> QED BY ONLY <3>1, SumRemove
  <2>8. SumOf(f, T) = f[x] + SumOf(f, R)
    <3>1. \A y \in T : f[y] \in Int
      BY <2>2
    <3> QED BY <2>2, <3>1, SumRemove
  <2>9. f[x] \in Int /\ SumOf(f, R) \in Int
    <3>1. \A y \in R : f[y] \in Int
      BY <2>2
    <3> QED BY <2>2, <2>5, <3>1, SumType
  <2>10. R \notin C
    BY <2>1, <2>5
  <2> HIDE DEF R
  <2>11. SumOf(f, S \union R) = SumOf(f, S) + SumOf(f, R)
    BY <2>5, <2>10
  <2>12. SumOf(f, S \union T) = f[x] + SumOf(f, S \union R)
    BY ONLY <2>6, <2>7
  <2> QED BY <1>1, <2>2, <2>8, <2>9, <2>11, <2>12
<1>3. V \notin C => SumOf(f, S \union V) = SumOf(f, S) + SumOf(f, V)
  OBVIOUS
<1> HIDE DEF C
<1> QED BY <1>2, <1>3

\* What is summed over shifted numbers.
LEMMA SumShifted ==
    ASSUME NEW f, NEW g, NEW d \in Int, NEW S, IsFiniteSet(S),
           NEW V, IsFiniteSet(V), \A x \in S : x \in Int /\ f[x] \in Int /\ g[x + d] = f[x] /\ x + d \in V
    PROVE  SumOf(g, {x + d : x \in S}) = SumOf(f, S)
<1> DEFINE Shift(T) == {x + d : x \in T}
           C == {T \in SUBSET S : SumOf(g, Shift(T)) # SumOf(f, T)}
<1>1. CASE C # {}
  <2>1. PICK T \in C : \A U \in C : U \subseteq T => U = T
    <3>1. C \in SUBSET (SUBSET S) /\ IsFiniteSet(S)
      OBVIOUS
    <3> HIDE DEF C
    <3> QED BY ONLY <1>1, <3>1, Smallest
  <2>2. T \in SUBSET S /\ SumOf(g, Shift(T)) # SumOf(f, T) /\ IsFiniteSet(T)
    BY <2>1, FS_Subset
  <2>3. T # {}
    <3>1. SumOf(f, {}) = 0 /\ SumOf(g, {}) = 0 /\ Shift({}) = {}
      BY SumEmpty
    <3> HIDE DEF Shift
    <3> QED BY <2>2, <3>1
  <2>4. PICK x \in T : TRUE
    BY <2>3
  <2> DEFINE R == T \ {x}
  <2>5. R \in SUBSET S /\ R \subseteq T /\ R # T
    BY <2>2
  <2>6. Shift(T) \ {x + d} = Shift(R) /\ x + d \in Shift(T)
    <3>1. x \in Int /\ \A y \in T : y \in Int
      BY <2>2
    <3>2. \A y \in T : y + d = x + d => y = x
      BY <3>1
    <3> QED BY <3>1, <3>2
  <2>7. IsFiniteSet(Shift(T)) /\ \A y \in Shift(T) : g[y] \in Int
    <3>1. IsFiniteSet(Shift(T))
      <4>1. Shift(T) \subseteq V
        BY <2>2
      <4> HIDE DEF Shift
      <4> QED BY <4>1, FS_Subset
    <3>2. \A y \in T : g[y + d] \in Int
      BY <2>2
    <3> QED BY <3>1, <3>2
  <2>8. SumOf(f, T) = f[x] + SumOf(f, R)
    <3>1. IsFiniteSet(T) /\ \A y \in T : f[y] \in Int
      BY <2>2
    <3>2. \A y \in T : SumOf(f, T) = f[y] + SumOf(f, T \ {y})
      BY ONLY <3>1, SumRemove
    <3> QED BY <3>2
  <2>9. g[x + d] = f[x]
    BY <2>2
  <2> HIDE DEF Shift
  <2>10. SumOf(g, Shift(T)) = g[x + d] + SumOf(g, Shift(T) \ {x + d})
    <3>1. \A z \in Shift(T) : SumOf(g, Shift(T)) = g[z] + SumOf(g, Shift(T) \ {z})
      BY ONLY <2>7, SumRemove
    <3> QED BY <2>6, <3>1
  <2>11. SumOf(g, Shift(R)) = SumOf(f, R)
    BY <2>1, <2>5
  <2> QED BY <2>2, <2>6, <2>8, <2>9, <2>10, <2>11
<1> QED BY <1>1

\* The constants, as far as they matter here.
LEMMA RingConstants ==
    /\ Window \in Nat \ {0} /\ MaxTime \in Nat /\ NumShards \in Nat
    /\ Counters!Slots = 0 .. Window - 1 /\ Counters!Seconds = 0 .. MaxTime
    /\ Counters!Shards = 0 .. NumShards - 1
    /\ IsFiniteSet(Counters!Slots) /\ IsFiniteSet(Counters!Shards) /\ IsFiniteSet(Counters!Seconds)
    /\ \A th \in Threads : PickedShard[th] \in Counters!Shards
    /\ \A s \in Nat : s % Window \in Counters!Slots
<1>1. Window \in Nat \ {0} /\ MaxTime \in Nat /\ NumShards \in Nat
  BY TierConstants DEF Counters!HitCountersConstants
<1>2. Window - 1 \in Int /\ NumShards - 1 \in Int
  BY <1>1
<1>3. IsFiniteSet(0 .. Window - 1) /\ IsFiniteSet(0 .. NumShards - 1) /\ IsFiniteSet(0 .. MaxTime)
  BY <1>1, <1>2, FS_Interval
<1>4. \A s \in Nat : s % Window \in 0 .. Window - 1
  BY <1>1
<1>5. \A th \in Threads : PickedShard[th] \in Counters!Shards
  BY TierConstants DEF Counters!HitCountersConstants
<1> QED BY <1>1, <1>3, <1>4, <1>5 DEF Counters!Slots, Counters!Shards, Counters!Seconds

\* A position is a shard and a slot of it.
LEMMA PositionsSplit ==
    /\ IsFiniteSet(Counters!Positions) /\ Counters!Positions \subseteq Nat
    /\ \A p \in Counters!Positions :
          /\ p \div Window \in Counters!Shards /\ p % Window \in Counters!Slots
          /\ p = (p % Window) + (p \div Window) * Window
    /\ \A shard \in Counters!Shards, slot \in Counters!Slots :
          /\ slot + shard * Window \in Counters!Positions
          /\ (slot + shard * Window) \div Window = shard
          /\ (slot + shard * Window) % Window = slot
<1>1. PICK w \in Nat \ {0}, n \in Nat : w = Window /\ n = NumShards
  <2>1. Window \in Nat \ {0} /\ NumShards \in Nat
    BY RingConstants
  <2> QED BY ONLY <2>1, Zenon
<1>2. n * w \in Nat /\ n * w - 1 \in Int
  BY <1>1
<1>3. Counters!Positions = 0 .. n * w - 1
  BY <1>1 DEF Counters!Positions
<1>4. IsFiniteSet(0 .. n * w - 1) /\ 0 .. n * w - 1 \subseteq Nat
  <2>1. 0 .. n * w - 1 \subseteq Nat
    BY <1>2
  <2> QED BY <1>2, <2>1, FS_Interval
<1>5. ASSUME NEW p \in 0 .. n * w - 1
      PROVE  p \div w \in 0 .. n - 1 /\ p % w \in 0 .. w - 1 /\ p = (p % w) + (p \div w) * w
  <2>1. PICK x \in Nat : x = p
    BY <1>2
  <2>2. /\ x \div w \in Nat /\ x % w \in 0 .. w - 1 /\ x = (x \div w) * w + (x % w)
    BY IdsSplit
  <2>3. PICK q \in Nat, r \in 0 .. w - 1 : q = x \div w /\ r = x % w
    BY <2>2
  <2>4. q < n
    <3> SUFFICES ASSUME n <= q PROVE FALSE
      OBVIOUS
    <3>1. n * w <= q * w /\ q * w \in Nat
      OBVIOUS
    <3>2. x = q * w + r /\ x < n * w
      BY <1>2, <2>1, <2>2, <2>3
    <3> QED BY <1>2, <3>1, <3>2
  <2>5. q \in 0 .. n - 1 /\ q * w \in Nat
    BY <2>4
  <2>6. x = r + q * w
    BY <2>2, <2>3, <2>5
  <2> QED BY <2>1, <2>3, <2>5, <2>6
<1>6. ASSUME NEW s \in 0 .. n - 1, NEW l \in 0 .. w - 1
      PROVE  l + s * w \in 0 .. n * w - 1 /\ (l + s * w) \div w = s /\ (l + s * w) % w = l
  <2>1. s \in Nat /\ s + 1 <= n /\ s * w \in Nat
    OBVIOUS
  <2>2. s * w + w <= n * w
    BY <2>1
  <2>3. l + s * w = s * w + l /\ s * w + l \in 0 .. n * w - 1
    BY <1>2, <2>1, <2>2
  <2>4. (s * w + l) \div w = s /\ (s * w + l) % w = l
    BY <2>1, IdsJoin
  <2> QED BY <2>3, <2>4
<1>7. \A p \in Counters!Positions :
        /\ p \div Window \in Counters!Shards /\ p % Window \in Counters!Slots
        /\ p = (p % Window) + (p \div Window) * Window
  BY <1>1, <1>3, <1>5, RingConstants
<1>8. \A shard \in Counters!Shards, slot \in Counters!Slots :
        /\ slot + shard * Window \in Counters!Positions
        /\ (slot + shard * Window) \div Window = shard
        /\ (slot + shard * Window) % Window = slot
  <2>1. \A s \in 0 .. n - 1 : \A l \in 0 .. w - 1 :
           l + s * w \in 0 .. n * w - 1 /\ (l + s * w) \div w = s /\ (l + s * w) % w = l
    BY <1>6
  <2>2. Counters!Shards = 0 .. n - 1 /\ Counters!Slots = 0 .. w - 1
    BY <1>1, RingConstants
  <2>3. ASSUME NEW shard \in Counters!Shards, NEW slot \in Counters!Slots
        PROVE  /\ slot + shard * Window \in Counters!Positions
               /\ (slot + shard * Window) \div Window = shard
               /\ (slot + shard * Window) % Window = slot
    <3>1. PICK s \in 0 .. n - 1 : s = shard
      BY <2>2
    <3>2. PICK l \in 0 .. w - 1 : l = slot
      BY <2>2
    <3>3. l + s * w \in 0 .. n * w - 1 /\ (l + s * w) \div w = s /\ (l + s * w) % w = l
      BY <2>1
    <3> QED BY ONLY <1>1, <1>3, <3>1, <3>2, <3>3, Zenon
  <2> QED BY <2>3
<1> QED BY <1>3, <1>4, <1>7, <1>8

\* What is summed position by position is summed shard by shard.
LEMMA SumByShard ==
    ASSUME NEW f \in [Counters!Positions -> Nat], NEW g, NEW rows,
           \A shard \in Counters!Shards :
              /\ g[shard] = SumOf(rows[shard], Counters!Slots)
              /\ \A slot \in Counters!Slots : rows[shard][slot] = f[slot + shard * Window]
    PROVE  SumOf(f, Counters!Positions) = SumOf(g, Counters!Shards)
<1> DEFINE Of(T) == {p \in Counters!Positions : p \div Window \in T}
           C == {T \in SUBSET Counters!Shards : SumOf(f, Of(T)) # SumOf(g, T)}
<1>1. \A T : IsFiniteSet(Of(T)) /\ \A p \in Of(T) : f[p] \in Int
  <2>1. \A p \in Counters!Positions : f[p] \in Int
    OBVIOUS
  <2> QED BY <2>1, PositionsSplit, FS_Subset
<1>2. ASSUME NEW shard \in Counters!Shards
      PROVE  SumOf(f, Of({shard})) = g[shard] /\ g[shard] \in Int
  <2>1. PICK s \in Nat, w \in Nat : s = shard /\ w = Window
    <3>1. shard \in 0 .. NumShards - 1 /\ NumShards \in Nat /\ Window \in Nat
      BY RingConstants
    <3>2. shard \in Nat
      BY <3>1
    <3> QED BY ONLY <3>1, <3>2, Zenon
  <2>2. PICK d \in Int : d = shard * Window
    BY <2>1
  <2>3. Of({shard}) = {slot + d : slot \in Counters!Slots}
    <3>1. \A p \in Of({shard}) : p % Window \in Counters!Slots /\ p = (p % Window) + d
      BY <2>2, PositionsSplit
    <3>2. \A slot \in Counters!Slots : slot + d \in Of({shard})
      BY <2>2, PositionsSplit
    <3> HIDE DEF Of
    <3> QED BY <3>1, <3>2
  <2>4. \A slot \in Counters!Slots : rows[shard][slot] \in Int /\ f[slot + d] = rows[shard][slot]
    <3>1. ASSUME NEW slot \in Counters!Slots
          PROVE  rows[shard][slot] \in Int /\ f[slot + d] = rows[shard][slot]
      <4>1. slot + shard * Window \in Counters!Positions
        BY PositionsSplit
      <4>2. rows[shard][slot] = f[slot + shard * Window]
        OBVIOUS
      <4>3. f[slot + shard * Window] \in Int
        BY <4>1
      <4> QED BY <2>2, <4>2, <4>3
    <3> QED BY <3>1
  <2>5. IsFiniteSet(Counters!Slots) /\ \A slot \in Counters!Slots : slot \in Int
    BY RingConstants
  <2> HIDE DEF Of
  <2>6. SumOf(f, {slot + d : slot \in Counters!Slots}) = SumOf(rows[shard], Counters!Slots)
    <3>1. \A slot \in Counters!Slots : slot + d \in Counters!Positions
      BY <2>2, PositionsSplit
    <3>2. IsFiniteSet(Counters!Positions)
      BY PositionsSplit
    <3> QED BY <2>4, <2>5, <3>1, <3>2, SumShifted
  <2>7. SumOf(rows[shard], Counters!Slots) \in Int
    BY <2>4, <2>5, SumType
  <2> QED BY <2>3, <2>6, <2>7
<1>3. CASE C # {}
  <2>1. PICK T \in C : \A U \in C : U \subseteq T => U = T
    <3>1. C \in SUBSET (SUBSET Counters!Shards)
      OBVIOUS
    <3>2. IsFiniteSet(Counters!Shards)
      BY RingConstants
    <3> HIDE DEF C
    <3> QED BY <1>3, <3>1, <3>2, Smallest
  <2>2. T \in SUBSET Counters!Shards /\ SumOf(f, Of(T)) # SumOf(g, T) /\ IsFiniteSet(T)
    BY <2>1, RingConstants, FS_Subset
  <2>3. T # {}
    <3>1. SumOf(f, {}) = 0 /\ SumOf(g, {}) = 0 /\ Of({}) = {}
      BY SumEmpty
    <3> HIDE DEF Of
    <3> QED BY <2>2, <3>1
  <2>4. PICK x \in T : TRUE
    BY <2>3
  <2> DEFINE R == T \ {x}
  <2>5. R \in SUBSET Counters!Shards /\ R \subseteq T /\ R # T
    BY <2>2
  <2>6. Of(T) = Of({x}) \union Of(R) /\ Of({x}) \intersect Of(R) = {}
    BY <2>2, <2>4
  <2>7. SumOf(f, Of(R)) = SumOf(g, R)
    <3>1. R \notin C
      BY <2>1, <2>5
    <3> QED BY <2>5, <3>1
  <2>8. SumOf(g, T) = g[x] + SumOf(g, R)
    <3>1. \A y \in T : g[y] \in Int
      BY <1>2, <2>2
    <3> QED BY <2>2, <3>1, SumRemove
  <2>9. SumOf(f, Of({x}) \union Of(R)) = SumOf(f, Of({x})) + SumOf(f, Of(R))
    <3>1. \A p \in Of({x}) \union Of(R) : f[p] \in Int
      BY <1>1
    <3>2. IsFiniteSet(Of({x})) /\ IsFiniteSet(Of(R))
      BY <1>1
    <3> HIDE DEF Of, R
    <3> QED BY ZenonT(60), <2>6, <3>1, <3>2, SumUnion
  <2>10. SumOf(f, Of({x})) = g[x]
    BY <1>2, <2>2
  <2> HIDE DEF Of, R
  <2> QED BY <2>2, <2>6, <2>7, <2>8, <2>9, <2>10
<1>4. CASE C = {}
  <2>1. Of(Counters!Shards) = Counters!Positions
    BY PositionsSplit
  <2> QED BY <1>4, <2>1
<1> QED BY <1>3, <1>4

\* What a ring holds.
RingTypes == [times : [Counters!Slots -> Nat], counts : [Counters!Slots -> Nat]]

\* A slot that counts anything holds a second of its own, which is past.
RingIsPast(ring, t) ==
    /\ ring \in RingTypes
    /\ \A i \in Counters!Slots :
          ring.times[i] <= t /\ (ring.counts[i] # 0 => ring.times[i] % Window = i)

\* What of a history is in the window of a time.
InWindowOf(h, t) == SumOf(h, Recent(t - Window))

\* What the rings answer for a time, shard by shard.
CountedBy(r, t) == [shard \in Counters!Shards |-> Counters!GetHits(r[shard], t)]

\* The rings hold the hits of every window that is still to come.
RingsHold(r, h, t) ==
    /\ DOMAIN r = Counters!Shards
    /\ \A shard \in Counters!Shards : RingIsPast(r[shard], t)
    /\ \A u \in Nat : u >= t => SumOf(CountedBy(r, u), Counters!Shards) = InWindowOf(h, u)

\* What a read for a time finds at each position, and from one position on.
ReadingsAt(r, t) ==
    [p \in Counters!Positions |-> Counters!InWindow(r[p \div Window], p % Window, t)]
From(p) == {q \in Counters!Positions : q >= p}
Left(r, t, p) == SumOf(ReadingsAt(r, t), From(p))

\* What a read has found and what is left for it are no more than what its
\* window and later seconds hold, and no less than what was recorded before
\* it for any window that is still to come.
ReadIsBounded(c, r, h, t) ==
    /\ c \in [op : {"get"}, t : Nat, position : Nat, ans : Nat, before : [Counters!Seconds -> Nat]]
    /\ c.t <= t
    /\ c.ans + Left(r, c.t, c.position) <= InWindowOf(h, c.t)
    /\ \A u \in Nat : u >= t => InWindowOf(c.before, u) <= c.ans + Left(r, u, c.position)

\* Hits come in any order within the window.
HitIsRecent(c, t) == c.t \in Nat /\ c.t <= t /\ t - c.t < Window

CallsInv ==
    /\ DOMAIN call = Threads
    /\ \A th \in Threads : call[th] # NoCall =>
          /\ call[th].op = "hit" => HitIsRecent(call[th], now)
          /\ call[th].op = "get" => ReadIsBounded(call[th], rings, hits, now)

RingsInv == RingsHold(rings, hits, now) /\ CallsInv

\* What is read of a ring are numbers, of which a later time sees no more.
LEMMA ReadingsAreNumbers ==
    ASSUME NEW ring \in RingTypes
    PROVE  /\ \A i \in Counters!Slots : \A u : Counters!InWindow(ring, i, u) \in Nat
           /\ \A i \in Counters!Slots : \A t, u \in Nat : t <= u =>
                 Counters!InWindow(ring, i, u) <= Counters!InWindow(ring, i, t)
           /\ \A u : Counters!GetHits(ring, u) \in Nat
<1>1. ring \in RingTypes /\ \A i \in Counters!Slots : ring.times[i] \in Nat /\ ring.counts[i] \in Nat
  BY DEF RingTypes
<1>2. \A i \in Counters!Slots : \A u : Counters!InWindow(ring, i, u) \in Nat
  BY <1>1 DEF Counters!InWindow
<1>3. ASSUME NEW i \in Counters!Slots, NEW t \in Nat, NEW u \in Nat, t <= u
      PROVE  Counters!InWindow(ring, i, u) <= Counters!InWindow(ring, i, t)
  <2>1. PICK x \in Nat, k \in Nat, w \in Nat :
          x = ring.times[i] /\ k = ring.counts[i] /\ w = Window
    BY <1>1, RingConstants
  <2>2. /\ Counters!InWindow(ring, i, u) = IF u - x < w THEN k ELSE 0
        /\ Counters!InWindow(ring, i, t) = IF t - x < w THEN k ELSE 0
    BY <2>1 DEF Counters!InWindow
  <2>3. u - x < w => t - x < w
    BY <1>3
  <2> QED BY <2>2, <2>3
<1>4. ASSUME NEW u PROVE Counters!GetHits(ring, u) \in Nat
  <2>1. Counters!Readings(ring, u) \in [Counters!Slots -> Nat]
    BY <1>2 DEF Counters!Readings
  <2>2. SumOf(Counters!Readings(ring, u), Counters!Slots) \in Nat
    BY <2>1, RingConstants, SumType
  <2> QED BY <2>2, CountsAreSums
<1> QED BY <1>2, <1>3, <1>4

\* A hit within the window is one more for the windows to come, whatever its
\* slot held, and no more than one more for any other.
LEMMA RecordedCounts ==
    ASSUME NEW now_ \in Nat, NEW ring, RingIsPast(ring, now_),
           NEW t \in Nat, t <= now_, now_ - t < Window
    PROVE  /\ RingIsPast(Counters!Recorded(ring, t), now_)
           /\ \A i \in Counters!Slots \ {t % Window} : \A u :
                 Counters!InWindow(Counters!Recorded(ring, t), i, u) = Counters!InWindow(ring, i, u)
           /\ \A u \in Nat : u >= now_ =>
                 Counters!InWindow(Counters!Recorded(ring, t), t % Window, u)
                    = Counters!InWindow(ring, t % Window, u) + (IF t > u - Window THEN 1 ELSE 0)
           /\ \A u \in Nat :
                 Counters!InWindow(Counters!Recorded(ring, t), t % Window, u)
                    <= Counters!InWindow(ring, t % Window, u) + 1
<1> DEFINE slot == t % Window
           new == Counters!Recorded(ring, t)
<1>1. /\ slot \in Counters!Slots /\ ring \in RingTypes /\ Window \in Nat \ {0}
      /\ \A i \in Counters!Slots : ring.times[i] \in Nat /\ ring.counts[i] \in Nat
      /\ \A i \in Counters!Slots :
            ring.times[i] <= now_ /\ (ring.counts[i] # 0 => ring.times[i] % Window = i)
  BY RingConstants DEF RingIsPast, RingTypes
<1>2. /\ new \in RingTypes /\ new.times[slot] = t
      /\ new.counts[slot] = IF ring.times[slot] = t THEN ring.counts[slot] + 1 ELSE 1
      /\ \A i \in Counters!Slots : i # slot =>
            new.times[i] = ring.times[i] /\ new.counts[i] = ring.counts[i]
  BY <1>1 DEF Counters!Recorded, RingTypes
<1> HIDE DEF new
<1>3. RingIsPast(new, now_)
  BY <1>1, <1>2 DEF RingIsPast
<1>4. \A i \in Counters!Slots \ {slot} : \A u :
         Counters!InWindow(new, i, u) = Counters!InWindow(ring, i, u)
  BY <1>2 DEF Counters!InWindow
<1>5. PICK old \in Nat, k \in Nat : old = ring.times[slot] /\ k = ring.counts[slot]
  BY <1>1
<1>6. ASSUME NEW u \in Nat
      PROVE  /\ Counters!InWindow(ring, slot, u) = IF u - old < Window THEN k ELSE 0
             /\ Counters!InWindow(new, slot, u)
                   = IF u - t < Window THEN (IF old = t THEN k + 1 ELSE 1) ELSE 0
  BY <1>2, <1>5 DEF Counters!InWindow
\* a slot that holds another second holds none of the windows to come
<1>7. ASSUME NEW u \in Nat, u >= now_, old # t, k # 0, u - old < Window PROVE FALSE
  <2>1. old % Window = t % Window /\ old <= now_
    BY <1>1, <1>5, <1>7
  <2>2. now_ - old < Window
    BY <1>1, <1>7
  <2>3. old - t < Window /\ t - old < Window
    <3>1. old - t <= now_ - t /\ t - old <= now_ - old
      BY <2>1
    <3> QED BY <1>1, <2>2, <3>1
  <2>4. old = t
    BY <1>1, <2>1, <2>3, SlotsDiffer
  <2> QED BY <1>7, <2>4
<1>8. ASSUME NEW u \in Nat, u >= now_
      PROVE  Counters!InWindow(new, slot, u)
                = Counters!InWindow(ring, slot, u) + (IF t > u - Window THEN 1 ELSE 0)
  <2>1. u - t < Window <=> t > u - Window
    BY <1>1
  <2> HIDE DEF slot
  <2>2. CASE old = t
    BY <1>6, <2>1, <2>2
  <2>3. CASE old # t
    <3>1. Counters!InWindow(ring, slot, u) = 0
      BY <1>6, <1>7, <1>8, <2>3
    <3> QED BY <1>6, <2>1, <2>3, <3>1
  <2> QED BY <2>2, <2>3
<1>9. ASSUME NEW u \in Nat
      PROVE  Counters!InWindow(new, slot, u) <= Counters!InWindow(ring, slot, u) + 1
  <2> HIDE DEF slot
  <2> QED BY <1>6
<1> QED BY <1>3, <1>4, <1>8, <1>9 DEF new

\* What is left for a read are numbers, from the first position on all of what
\* the rings answer, at the last nothing, and at each its reading.
LEMMA LeftOfARead ==
    ASSUME NEW r, NEW t, \A shard \in Counters!Shards : RingIsPast(r[shard], t), NEW u
    PROVE  /\ ReadingsAt(r, u) \in [Counters!Positions -> Nat]
           /\ \A p : Left(r, u, p) \in Nat /\ IsFiniteSet(From(p))
           /\ Left(r, u, 0) = SumOf(CountedBy(r, u), Counters!Shards)
           /\ \A p \in Nat \ Counters!Positions : Left(r, u, p) = 0
           /\ \A p \in Counters!Positions :
                 Left(r, u, p) = ReadingsAt(r, u)[p] + Left(r, u, p + 1)
<1> DEFINE f == ReadingsAt(r, u)
<1>1. f \in [Counters!Positions -> Nat]
  BY PositionsSplit, ReadingsAreNumbers DEF ReadingsAt, RingIsPast
<1>2. \A p : IsFiniteSet(From(p)) /\ From(p) \subseteq Counters!Positions
  BY PositionsSplit, FS_Subset DEF From
<1>3. \A p : Left(r, u, p) \in Nat
  BY <1>1, <1>2, SumType DEF Left
<1>4. Left(r, u, 0) = SumOf(CountedBy(r, u), Counters!Shards)
  <2> DEFINE rows == [shard \in Counters!Shards |-> Counters!Readings(r[shard], u)]
             g == CountedBy(r, u)
  <2>1. From(0) = Counters!Positions
    <3>1. \A p \in Counters!Positions : p \in Nat
      BY PositionsSplit
    <3>2. \A p \in Counters!Positions : p >= 0
      BY <3>1
    <3> QED BY <3>2 DEF From
  <2>2. ASSUME NEW shard \in Counters!Shards
        PROVE  /\ g[shard] = SumOf(rows[shard], Counters!Slots)
               /\ \A slot \in Counters!Slots : rows[shard][slot] = f[slot + shard * Window]
    <3>1. g[shard] = SumOf(rows[shard], Counters!Slots)
      BY CountsAreSums DEF CountedBy
    <3>2. \A slot \in Counters!Slots : rows[shard][slot] = Counters!InWindow(r[shard], slot, u)
      BY DEF Counters!Readings
    <3>3. \A slot \in Counters!Slots :
             f[slot + shard * Window] = Counters!InWindow(r[shard], slot, u)
      BY PositionsSplit DEF ReadingsAt
    <3> HIDE DEF f, g, rows
    <3> QED BY <3>1, <3>2, <3>3
  <2> HIDE DEF rows, g, f
  <2>3. SumOf(f, Counters!Positions) = SumOf(g, Counters!Shards)
    BY <1>1, <2>2, SumByShard
  <2> QED BY SMTT(30), <2>1, <2>3 DEF Left, f, g
<1>5. ASSUME NEW p \in Nat \ Counters!Positions PROVE Left(r, u, p) = 0
  <2>1. From(p) = {}
    <3>1. PICK m \in Int : Counters!Positions = 0 .. m
      <4>1. NumShards * Window - 1 \in Int
        <5>1. NumShards \in Nat /\ Window \in Nat
          BY RingConstants
        <5> QED BY <5>1
      <4> QED BY <4>1 DEF Counters!Positions
    <3> QED BY <3>1 DEF From
  <2> QED BY <2>1, SumEmpty DEF Left
<1>6. ASSUME NEW p \in Counters!Positions PROVE Left(r, u, p) = f[p] + Left(r, u, p + 1)
  <2>1. p \in Nat /\ \A q \in Counters!Positions : q \in Nat
    BY PositionsSplit
  <2>2. p \in From(p) /\ From(p) \ {p} = From(p + 1)
    <3>1. \A q \in Nat : (q >= p /\ q # p) <=> q >= p + 1
      BY <2>1
    <3>2. \A q \in Counters!Positions : (q >= p /\ q # p) <=> q >= p + 1
      BY <2>1, <3>1
    <3>3. p >= p
      BY <2>1
    <3> QED BY <3>2, <3>3, Zenon DEF From
  <2>3. \A q \in From(p) : f[q] \in Int
    BY <1>1, <1>2
  <2>4. \A q \in From(p) : SumOf(f, From(p)) = f[q] + SumOf(f, From(p) \ {q})
    <3> HIDE DEF f
    <3> QED BY <1>2, <2>3, SumRemove
  <2> HIDE DEF f
  <2> QED BY <2>2, <2>4 DEF Left, f
<1> QED BY <1>1, <1>2, <1>3, <1>4, <1>5, <1>6

\* The rings begin empty, and nobody reads them.
LEMMA RingsStart ==
    ASSUME Counters!Init
    PROVE  RingsInv
<1>1. /\ now = 0 /\ rings = [s \in Counters!Shards |-> Counters!EmptyRing]
      /\ call = [th \in Threads |-> NoCall] /\ \A s \in Counters!Seconds : hits[s] = 0
  BY DEF Counters!Init
<1>2. RingIsPast(Counters!EmptyRing, 0)
  BY RingConstants DEF Counters!EmptyRing, RingIsPast, RingTypes
<1>3. \A shard \in Counters!Shards : RingIsPast(rings[shard], now)
  BY <1>1, <1>2
<1>4. ASSUME NEW u \in Nat PROVE SumOf(CountedBy(rings, u), Counters!Shards) = InWindowOf(hits, u)
  <2>1. \A i \in Counters!Slots : Counters!Readings(Counters!EmptyRing, u)[i] = 0
    BY DEF Counters!Readings, Counters!InWindow, Counters!EmptyRing
  <2>2. SumOf(Counters!Readings(Counters!EmptyRing, u), Counters!Slots) = 0
    BY <2>1, RingConstants, SumZero
  <2>3. Counters!GetHits(Counters!EmptyRing, u) = 0
    BY <2>2, CountsAreSums
  <2>4. \A shard \in Counters!Shards : CountedBy(rings, u)[shard] = 0
    BY <1>1, <2>3 DEF CountedBy
  <2>5. SumOf(CountedBy(rings, u), Counters!Shards) = 0
    BY <2>4, RingConstants, SumZero
  <2>6. IsFiniteSet(Recent(u - Window)) /\ \A s \in Recent(u - Window) : hits[s] = 0
    BY <1>1, RingConstants, FS_Subset DEF Recent
  <2> QED BY <2>5, <2>6, SumZero DEF InWindowOf
<1>5. CallsInv
  BY <1>1 DEF CallsInv
<1> QED BY <1>1, <1>3, <1>4, <1>5 DEF RingsInv, RingsHold

\* What holds of the windows to come holds of fewer of them when time passes.
LEMMA RingsTick ==
    ASSUME ClockAndHits, RingsInv, Counters!Tick
    PROVE  ClockAndHits' /\ RingsInv'
<1>1. /\ hits' = hits /\ rings' = rings /\ call' = call /\ now' = now + 1 /\ now < MaxTime
      /\ \A th \in Threads : Counters!Doing(th, "hit") => now' - call[th].t < Window
  BY DEF Counters!Tick
<1>2. PICK n \in Nat, next \in Nat, w \in Nat, m \in Nat :
        n = now /\ next = n + 1 /\ next = now' /\ w = Window /\ m = MaxTime
  BY <1>1, RingConstants DEF ClockAndHits
<1>3. n <= next /\ (n < m => next <= m) /\ \A u \in Nat : u >= next => u >= n
  BY <1>2
<1>4. ClockAndHits'
  <2>1. now' \in Nat /\ now' <= MaxTime
    BY <1>1, <1>2, <1>3
  <2> QED BY <1>1, <2>1 DEF ClockAndHits, Counters!Seconds
<1>5. \A shard \in Counters!Shards : RingIsPast(rings[shard], next)
  <2>1. ASSUME NEW shard \in Counters!Shards PROVE RingIsPast(rings[shard], next)
    <3>1. RingIsPast(rings[shard], n)
      BY <1>2 DEF RingsInv, RingsHold
    <3>2. \A i \in Counters!Slots : rings[shard].times[i] \in Nat
      BY <3>1 DEF RingIsPast, RingTypes
    <3> QED BY <1>2, <3>1, <3>2 DEF RingIsPast
  <2> QED BY <2>1
<1>6. RingsHold(rings, hits, next)
  BY <1>2, <1>3, <1>5 DEF RingsInv, RingsHold
<1>7. ASSUME NEW th \in Threads, call[th] # NoCall, call[th].op = "hit"
      PROVE  HitIsRecent(call[th], next)
  <2>1. PICK t \in Nat : t = call[th].t /\ t <= n
    BY <1>2, <1>7 DEF RingsInv, CallsInv, HitIsRecent
  <2>2. next - t < w
    BY <1>1, <1>2, <1>7, <2>1 DEF Counters!Doing
  <2> QED BY <1>2, <1>3, <2>1, <2>2 DEF HitIsRecent
<1>8. ASSUME NEW th \in Threads, call[th] # NoCall, call[th].op = "get"
      PROVE  ReadIsBounded(call[th], rings, hits, next)
  <2>1. ReadIsBounded(call[th], rings, hits, n)
    BY <1>2, <1>8 DEF RingsInv, CallsInv
  <2>2. call[th].t <= next
    <3>1. call[th].t \in Nat /\ call[th].t <= n
      BY <2>1 DEF ReadIsBounded
    <3> QED BY <1>2, <3>1
  <2> QED BY <1>3, <2>1, <2>2 DEF ReadIsBounded
<1>9. RingsHold(rings', hits', now') /\ CallsInv'
  BY <1>1, <1>2, <1>6, <1>7, <1>8 DEF CallsInv, RingsInv
<1> QED BY <1>4, <1>9 DEF RingsInv

\* What the calls that are under way do before and after the locks leaves the
\* rings alone; a read begins with all of the rings left, and takes what it
\* finds from what is left.
LEMMA CallsCountNothing ==
    ASSUME ClockAndHits, RingsInv, NEW th \in Threads,
           Counters!CallHit(th) \/ Counters!CallGetHits(th) \/ Counters!ReadSlot(th) \/ Counters!Return(th)
    PROVE  ClockAndHits' /\ RingsInv'
<1> DEFINE Sound(c) ==
      c # NoCall => /\ c.op = "hit" => HitIsRecent(c, now)
                    /\ c.op = "get" => ReadIsBounded(c, rings, hits, now)
<1>1. /\ now' = now /\ hits' = hits /\ rings' = rings
      /\ now \in Nat /\ Window \in Nat \ {0}
      /\ \E c : call' = [call EXCEPT ![th] = c]
  <2>1. ASSUME Counters!ReadSlot(th) PROVE \E c : call' = [call EXCEPT ![th] = c]
    BY <2>1 DEF Counters!ReadSlot
  <2>2. now \in Nat /\ Window \in Nat \ {0}
    BY RingConstants DEF ClockAndHits
  <2> QED BY <2>1, <2>2
       DEF Counters!CallHit, Counters!CallGetHits, Counters!ReadSlot, Counters!Return
<1>2. DOMAIN call' = Threads /\ \A x \in Threads \ {th} : call'[x] = call[x]
  BY <1>1 DEF RingsInv, CallsInv
<1>3. RingsHold(rings, hits, now) /\ \A shard \in Counters!Shards : RingIsPast(rings[shard], now)
  BY DEF RingsInv, RingsHold
<1>4. Sound(call'[th])
  <2>1. CASE Counters!CallHit(th)
    <3>1. call'[th] = [op |-> "hit", t |-> now]
      BY <2>1 DEF Counters!CallHit, RingsInv, CallsInv
    <3>2. HitIsRecent([op |-> "hit", t |-> now], now)
      BY <1>1 DEF HitIsRecent
    <3> QED BY <3>1, <3>2
  <2>2. CASE Counters!CallGetHits(th)
    <3> DEFINE c == [op |-> "get", t |-> now, position |-> 0, ans |-> 0, before |-> hits]
    <3>1. call'[th] = c
      BY <2>2 DEF Counters!CallGetHits, RingsInv, CallsInv
    <3>2. ASSUME NEW u \in Nat, u >= now
          PROVE  Left(rings, u, 0) = InWindowOf(hits, u) /\ Left(rings, u, 0) \in Nat
      BY <1>3, <3>2, LeftOfARead DEF RingsHold
    <3>3. /\ c \in [op : {"get"}, t : Nat, position : Nat, ans : Nat,
                    before : [Counters!Seconds -> Nat]]
          /\ c.t = now /\ c.position = 0 /\ c.ans = 0 /\ c.before = hits
      BY <1>1 DEF ClockAndHits
    <3>4. 0 + Left(rings, now, 0) <= InWindowOf(hits, now)
      <4>1. now >= now
        BY <1>1
      <4> QED BY <1>1, <3>2, <4>1
    <3>5. \A u \in Nat : u >= now => InWindowOf(hits, u) <= 0 + Left(rings, u, 0)
      <4>1. ASSUME NEW u \in Nat, u >= now PROVE InWindowOf(hits, u) <= 0 + Left(rings, u, 0)
        BY <3>2, <4>1
      <4> QED BY <4>1
    <3> HIDE DEF c
    <3>6. ReadIsBounded(c, rings, hits, now)
      BY <1>1, <3>3, <3>4, <3>5 DEF ReadIsBounded
    <3> QED BY <3>1, <3>3, <3>6
  <2>3. CASE Counters!ReadSlot(th)
    <3> DEFINE c == call[th]
    <3>1. /\ c \in [op : {"get"}, t : Nat, position : Nat, ans : Nat,
                    before : [Counters!Seconds -> Nat]]
          /\ c.t <= now /\ c.position \in Counters!Positions
          /\ ReadIsBounded(c, rings, hits, now)
      BY <2>3 DEF Counters!ReadSlot, Counters!Doing, RingsInv, CallsInv, ReadIsBounded
    <3>2. PICK p \in Nat, t \in Nat, a \in Nat : p = c.position /\ t = c.t /\ a = c.ans
      BY <3>1
    <3> DEFINE found == ReadingsAt(rings, t)[p]
    <3>3. found \in Nat /\ found = Counters!InWindow(rings[p \div Window], p % Window, t)
      <4>1. ReadingsAt(rings, t) \in [Counters!Positions -> Nat]
        BY <1>3, LeftOfARead
      <4>2. p \in Counters!Positions
        BY <3>1, <3>2
      <4>3. ReadingsAt(rings, t)[p] = Counters!InWindow(rings[p \div Window], p % Window, t)
        BY <4>2 DEF ReadingsAt
      <4> QED BY <4>1, <4>2, <4>3
    <3> HIDE DEF found
    <3>4. call'[th] = [[c EXCEPT !.position = p + 1] EXCEPT !.ans = a + found]
      BY <2>3, <3>2, <3>3 DEF Counters!ReadSlot, RingsInv, CallsInv
    <3> HIDE DEF c
    <3>5. PICK d : /\ d = call'[th]
                   /\ d \in [op : {"get"}, t : Nat, position : Nat, ans : Nat,
                             before : [Counters!Seconds -> Nat]]
                   /\ d.t = t /\ d.position = p + 1 /\ d.ans = a + found /\ d.before = c.before
      <4>1. c.op = "get" /\ c = [op |-> c.op, t |-> t, position |-> p, ans |-> a, before |-> c.before]
        BY <3>1, <3>2
      <4>2. PICK b \in [Counters!Seconds -> Nat] : b = c.before
        BY <3>1
      <4>3. call'[th] = [op |-> "get", t |-> t, position |-> p + 1, ans |-> a + found, before |-> b]
        <5>1. c = [op |-> "get", t |-> t, position |-> p, ans |-> a, before |-> b]
          BY ONLY <4>1, <4>2
        <5>2. PICK e : e = [c EXCEPT !.position = p + 1]
          OBVIOUS
        <5>3. e = [op |-> "get", t |-> t, position |-> p + 1, ans |-> a, before |-> b]
          BY ONLY <5>1, <5>2
        <5>4. [e EXCEPT !.ans = a + found]
                 = [op |-> "get", t |-> t, position |-> p + 1, ans |-> a + found, before |-> b]
          BY ONLY <5>3
        <5> QED BY ONLY <3>4, <5>2, <5>4, Zenon
      <4> QED BY <3>3, <4>2, <4>3
    <3>6. a + found + Left(rings, t, p + 1) <= InWindowOf(hits, t)
      <4>1. a + Left(rings, t, p) <= InWindowOf(hits, t)
        BY <3>1, <3>2 DEF ReadIsBounded
      <4>2. Left(rings, t, p) = found + Left(rings, t, p + 1) /\ Left(rings, t, p + 1) \in Nat
        BY <1>3, <3>1, <3>2, LeftOfARead DEF found
      <4>3. a + found + Left(rings, t, p + 1) = a + Left(rings, t, p)
        BY <3>2, <3>3, <4>2
      <4> QED BY ONLY <4>1, <4>3
    <3>7. ASSUME NEW u \in Nat, u >= now
          PROVE  InWindowOf(c.before, u) <= a + found + Left(rings, u, p + 1)
      <4>1. InWindowOf(c.before, u) <= a + Left(rings, u, p)
        BY <3>1, <3>2, <3>7 DEF ReadIsBounded
      <4>2. /\ Left(rings, u, p) = ReadingsAt(rings, u)[p] + Left(rings, u, p + 1)
            /\ Left(rings, u, p + 1) \in Nat /\ ReadingsAt(rings, u)[p] \in Nat
        BY <1>3, <3>1, <3>2, LeftOfARead
      <4>3. ReadingsAt(rings, u)[p] <= found
        <5>1. PICK shard \in Counters!Shards, slot \in Counters!Slots :
                shard = p \div Window /\ slot = p % Window
          BY <3>1, <3>2, PositionsSplit
        <5>2. ReadingsAt(rings, u)[p] = Counters!InWindow(rings[shard], slot, u)
          BY <3>1, <3>2, <5>1 DEF ReadingsAt
        <5>3. t <= u /\ rings[shard] \in RingTypes
          <6>1. PICK n \in Nat : n = now
            BY <1>1
          <6>2. t <= n /\ n <= u
            BY <3>1, <3>2, <3>7, <6>1
          <6> QED BY <1>3, <6>2 DEF RingIsPast
        <5> QED BY <3>3, <5>1, <5>2, <5>3, ReadingsAreNumbers
      <4>4. InWindowOf(c.before, u) \in Nat
        <5>1. IsFiniteSet(Recent(u - Window)) /\ \A s \in Recent(u - Window) : c.before[s] \in Nat
          BY <3>1, RingConstants, FS_Subset DEF Recent
        <5> QED BY <5>1, SumType DEF InWindowOf
      <4> QED BY <3>2, <3>3, <4>1, <4>2, <4>3, <4>4
    <3>8. ReadIsBounded(d, rings, hits, now)
      BY <3>1, <3>2, <3>5, <3>6, <3>7 DEF ReadIsBounded
    <3>9. d.op = "get"
      BY <3>5
    <3> QED BY <3>5, <3>8, <3>9
  <2>4. CASE Counters!Return(th)
    <3>1. call'[th] = NoCall
      BY <2>4 DEF Counters!Return, RingsInv, CallsInv
    <3> QED BY <3>1
  <2> QED BY <2>1, <2>2, <2>3, <2>4
<1>5. \A x \in Threads : Sound(call'[x])
  <2>1. \A x \in Threads : Sound(call[x])
    BY DEF RingsInv, CallsInv
  <2> HIDE DEF Sound
  <2> QED BY <1>2, <1>4, <2>1
<1>6. CallsInv'
  BY <1>1, <1>2, <1>5 DEF CallsInv
<1>7. ClockAndHits'
  BY <1>1 DEF ClockAndHits, Counters!Seconds
<1> QED BY <1>1, <1>3, <1>6, <1>7 DEF RingsInv

\* A sum of which one number changes, if that one is summed at all.
LEMMA SumOfSome ==
    ASSUME NEW f, NEW g, NEW S, IsFiniteSet(S), NEW x,
           \A y \in S : f[y] \in Int /\ g[y] \in Int,
           \A y \in S \ {x} : g[y] = f[y]
    PROVE  SumOf(f, S) \in Int /\ SumOf(g, S) = SumOf(f, S) + (IF x \in S THEN g[x] - f[x] ELSE 0)
<1>1. SumOf(f, S) \in Int
  BY SumType
<1>2. CASE x \in S
  <2>1. \A y \in S : (\A z \in S \ {y} : g[z] = f[z]) => SumOf(g, S) = SumOf(f, S) + g[y] - f[y]
    BY ONLY IsFiniteSet(S), \A y \in S : f[y] \in Int /\ g[y] \in Int, SumChange
  <2>2. SumOf(g, S) = SumOf(f, S) + g[x] - f[x] /\ f[x] \in Int /\ g[x] \in Int
    BY <1>2, <2>1
  <2> QED BY <1>1, <1>2, <2>2
<1>3. CASE x \notin S
  <2>1. SumOf(g, S) = SumOf(f, S)
    BY <1>3, SumSame
  <2> QED BY <1>1, <1>3, <2>1
<1> QED BY <1>2, <1>3

\* A hit counts once for every window to come that its second is in, and in no
\* read that is under way more than once.
LEMMA RingsHit ==
    ASSUME ClockAndHits, RingsInv, NEW th \in Threads, Counters!Hit(th)
    PROVE  ClockAndHits' /\ RingsInv'
<1>1. PICK t \in Nat, n \in Nat, w \in Nat \ {0}, m \in Nat :
        /\ t = call[th].t /\ n = now /\ w = Window /\ m = MaxTime
        /\ t <= n /\ n - t < w /\ n <= m
  <2>1. HitIsRecent(call[th], now)
    BY DEF RingsInv, CallsInv, Counters!Hit, Counters!Doing
  <2>2. now \in Nat /\ now <= MaxTime
    BY DEF ClockAndHits
  <2> QED BY <2>1, <2>2, RingConstants DEF HitIsRecent
<1>2. PICK shard \in Counters!Shards : shard = PickedShard[th]
  BY RingConstants
<1> DEFINE slot == t % Window
           new == Counters!Recorded(rings[shard], t)
<1>3. /\ now' = n /\ rings' = [rings EXCEPT ![shard] = new]
      /\ Counters!HitAt(t) /\ call' = [call EXCEPT ![th] = NoCall]
  BY <1>1, <1>2 DEF Counters!Hit
<1>4. /\ DOMAIN rings' = Counters!Shards /\ rings'[shard] = new
      /\ \A i \in Counters!Shards \ {shard} : rings'[i] = rings[i]
      /\ \A i \in Counters!Shards : RingIsPast(rings[i], n)
  BY <1>1, <1>3 DEF RingsInv, RingsHold
<1>5. slot \in Counters!Slots
  BY RingConstants
<1>6. /\ RingIsPast(new, n)
      /\ \A i \in Counters!Slots \ {slot} : \A u :
            Counters!InWindow(new, i, u) = Counters!InWindow(rings[shard], i, u)
      /\ \A u \in Nat : u >= n =>
            Counters!InWindow(new, slot, u)
               = Counters!InWindow(rings[shard], slot, u) + (IF t > u - Window THEN 1 ELSE 0)
      /\ \A u \in Nat :
            Counters!InWindow(new, slot, u) <= Counters!InWindow(rings[shard], slot, u) + 1
  <2>1. n - t < Window
    BY <1>1
  <2> QED BY <1>1, <1>4, <2>1, RecordedCounts
<1> HIDE DEF new
<1>7. t \in Counters!Seconds
  <2>1. t \in 0 .. m
    BY <1>1
  <2> QED BY <1>1, <2>1, RingConstants
<1>8. hits' \in [Counters!Seconds -> Nat]
  <2>1. 0 \in Int
    OBVIOUS
  <2> QED BY <1>3, <1>7, <2>1, OneMoreHit
<1>9. ASSUME NEW u \in Nat
      PROVE  /\ InWindowOf(hits, u) \in Nat
             /\ InWindowOf(hits', u) = InWindowOf(hits, u) + (IF t > u - Window THEN 1 ELSE 0)
  <2>1. PICK v \in Int : v = u - Window
    BY <1>1
  <2>2. HitsSince(v) \in Nat /\ HitsSince(v)' = HitsSince(v) + (IF t > v THEN 1 ELSE 0)
    BY <1>3, <1>7, OneMoreHit
  <2>3. HitsSince(v) = InWindowOf(hits, u)
    BY <2>1 DEF HitsSince, InWindowOf
  <2>4. HitsSince(v)' = InWindowOf(hits', u)
    <3>1. HitsSince(v)' = SumOf(hits', {s \in Counters!Seconds : s > v})
      BY DEF HitsSince, Recent, Counters!Seconds
    <3> QED BY <2>1, <3>1 DEF InWindowOf, Recent
  <2> QED BY <2>1, <2>2, <2>3, <2>4
<1>10. ClockAndHits'
  <2>1. now' \in Nat /\ now' <= MaxTime
    BY <1>1, <1>3
  <2> QED BY <1>8, <2>1 DEF ClockAndHits, Counters!Seconds
<1>11. \A i \in Counters!Shards : RingIsPast(rings'[i], n)
  BY <1>4, <1>6
<1>12. ASSUME NEW u \in Nat
       PROVE  /\ ReadingsAt(rings, u) \in [Counters!Positions -> Nat]
              /\ ReadingsAt(rings', u) \in [Counters!Positions -> Nat]
              /\ \A q \in Counters!Positions \ {slot + shard * Window} :
                    ReadingsAt(rings', u)[q] = ReadingsAt(rings, u)[q]
              /\ slot + shard * Window \in Counters!Positions
              /\ ReadingsAt(rings, u)[slot + shard * Window] = Counters!InWindow(rings[shard], slot, u)
              /\ ReadingsAt(rings', u)[slot + shard * Window] = Counters!InWindow(new, slot, u)
  <2> DEFINE f == ReadingsAt(rings, u)
             g == ReadingsAt(rings', u)
  <2>1. f \in [Counters!Positions -> Nat] /\ g \in [Counters!Positions -> Nat]
    BY <1>4, <1>11, LeftOfARead
  <2>2. ASSUME NEW q \in Counters!Positions, q # slot + shard * Window PROVE g[q] = f[q]
    <3>1. /\ q \div Window \in Counters!Shards /\ q % Window \in Counters!Slots
          /\ q = (q % Window) + (q \div Window) * Window
      BY PositionsSplit
    <3>2. g[q] = Counters!InWindow(rings'[q \div Window], q % Window, u)
          /\ f[q] = Counters!InWindow(rings[q \div Window], q % Window, u)
      BY DEF ReadingsAt
    <3>3. CASE q \div Window = shard
      <4>1. q % Window # slot
        BY <2>2, <3>1, <3>3
      <4> HIDE DEF slot
      <4> QED BY <1>4, <1>6, <3>1, <3>2, <3>3, <4>1
    <3>4. CASE q \div Window # shard
      BY <1>4, <3>1, <3>2, <3>4
    <3> QED BY <3>3, <3>4
  <2>3. /\ slot + shard * Window \in Counters!Positions
        /\ (slot + shard * Window) \div Window = shard
        /\ (slot + shard * Window) % Window = slot
    <3>1. \A s \in Counters!Shards, l \in Counters!Slots :
             /\ l + s * Window \in Counters!Positions
             /\ (l + s * Window) \div Window = s /\ (l + s * Window) % Window = l
      BY PositionsSplit
    <3> HIDE DEF slot
    <3> QED BY <1>5, <3>1
  <2>4. f[slot + shard * Window] = Counters!InWindow(rings[shard], slot, u)
        /\ g[slot + shard * Window] = Counters!InWindow(new, slot, u)
    <3> HIDE DEF slot
    <3> QED BY <1>4, <2>3 DEF ReadingsAt
  <2> QED BY <2>1, <2>2, <2>3, <2>4
<1> DEFINE here == slot + shard * Window
<1>13. ASSUME NEW u \in Nat, NEW p
       PROVE  /\ Left(rings, u, p) \in Nat /\ Left(rings', u, p) \in Nat
              /\ Left(rings', u, p) <= Left(rings, u, p) + 1
              /\ u >= n => Left(rings', u, p) >= Left(rings, u, p)
              /\ u >= n /\ p = 0 =>
                    Left(rings', u, p) = Left(rings, u, p) + (IF t > u - Window THEN 1 ELSE 0)
  <2> DEFINE f == ReadingsAt(rings, u)
             g == ReadingsAt(rings', u)
  <2>1. PICK x \in Nat, y \in Nat : x = f[here] /\ y = g[here]
    BY <1>12
  <2>2. /\ y <= x + 1
        /\ u >= n => y >= x
        /\ u >= n => y = x + (IF t > u - Window THEN 1 ELSE 0)
    <3>1. x = Counters!InWindow(rings[shard], slot, u) /\ y = Counters!InWindow(new, slot, u)
      BY <1>12, <2>1
    <3> HIDE DEF slot, f, g
    <3> QED BY <1>6, <3>1
  <2>3. IsFiniteSet(From(p)) /\ Left(rings, u, p) \in Nat /\ Left(rings', u, p) \in Nat
    BY <1>4, <1>11, LeftOfARead
  <2>4. From(p) \subseteq Counters!Positions
    BY DEF From
  <2>5. /\ \A q \in From(p) : f[q] \in Int /\ g[q] \in Int
        /\ \A q \in From(p) \ {here} : g[q] = f[q]
    BY <1>12, <2>4
  <2> HIDE DEF f, g, here
  <2>6. SumOf(g, From(p)) = SumOf(f, From(p)) + (IF here \in From(p) THEN g[here] - f[here] ELSE 0)
    BY <2>3, <2>5, SumOfSome
  <2>7. Left(rings', u, p) = Left(rings, u, p) + (IF here \in From(p) THEN y - x ELSE 0)
    BY <2>1, <2>6 DEF Left, f, g
  <2>8. p = 0 => here \in From(p)
    <3>1. here \in Counters!Positions /\ here \in Nat
      BY <1>12, PositionsSplit DEF here
    <3> QED BY <3>1 DEF From
  <2> DEFINE more == IF t > u - Window THEN 1 ELSE 0
  <2>9. PICK a \in Nat, b \in Nat : a = Left(rings, u, p) /\ b = Left(rings', u, p)
    BY <2>3
  <2>10. b = a + (IF here \in From(p) THEN y - x ELSE 0)
    BY <2>7, <2>9
  <2>11. y <= x + 1 /\ (u >= n => y >= x) /\ (u >= n => y = x + more) /\ more \in Nat
    BY <2>2
  <2> HIDE DEF more
  <2>12. b <= a + 1 /\ (u >= n => b >= a) /\ (u >= n /\ here \in From(p) => b = a + more)
    BY <2>10, <2>11
  <2>13. u >= n /\ p = 0 => b = a + more
    BY <2>8, <2>12
  <2> QED BY <2>3, <2>9, <2>12, <2>13 DEF more
<1>14. ASSUME NEW u \in Nat, u >= n
       PROVE  SumOf(CountedBy(rings', u), Counters!Shards) = InWindowOf(hits', u)
  <2>1. Left(rings, u, 0) = SumOf(CountedBy(rings, u), Counters!Shards)
        /\ Left(rings', u, 0) = SumOf(CountedBy(rings', u), Counters!Shards)
    BY <1>4, <1>11, LeftOfARead
  <2>2. SumOf(CountedBy(rings, u), Counters!Shards) = InWindowOf(hits, u)
    BY <1>1, <1>14 DEF RingsInv, RingsHold
  <2> QED BY <1>9, <1>13, <1>14, <2>1, <2>2
<1>15. RingsHold(rings', hits', n)
  BY <1>4, <1>11, <1>14 DEF RingsHold
<1>16. ASSUME NEW c, ReadIsBounded(c, rings, hits, n)
       PROVE  ReadIsBounded(c, rings', hits', n)
  <2>1. PICK a \in Nat, p \in Nat, u \in Nat : a = c.ans /\ p = c.position /\ u = c.t
    BY <1>16 DEF ReadIsBounded
  <2>2. u <= n /\ a + Left(rings, u, p) <= InWindowOf(hits, u)
    BY <1>16, <2>1 DEF ReadIsBounded
  <2>3. InWindowOf(hits', u) = InWindowOf(hits, u) + 1
    <3>1. t > u - Window
      BY <1>1, <2>2
    <3> QED BY <1>9, <3>1
  <2>4. a + Left(rings', u, p) <= InWindowOf(hits', u)
    BY <1>9, <1>13, <2>2, <2>3
  <2>5. ASSUME NEW v \in Nat, v >= n PROVE InWindowOf(c.before, v) <= a + Left(rings', v, p)
    <3>1. InWindowOf(c.before, v) <= a + Left(rings, v, p)
      BY <1>16, <2>1, <2>5 DEF ReadIsBounded
    <3>2. InWindowOf(c.before, v) \in Nat
      <4>1. IsFiniteSet(Recent(v - Window)) /\ \A s \in Recent(v - Window) : c.before[s] \in Nat
        BY <1>16, RingConstants, FS_Subset DEF Recent, ReadIsBounded
      <4> QED BY <4>1, SumType DEF InWindowOf
    <3>3. Left(rings, v, p) <= Left(rings', v, p) /\ Left(rings, v, p) \in Nat
          /\ Left(rings', v, p) \in Nat
      BY <1>13, <2>5
    <3> QED BY <3>1, <3>2, <3>3
  <2> QED BY <1>16, <2>1, <2>4, <2>5 DEF ReadIsBounded
<1>17. CallsInv'
  <2>1. /\ DOMAIN call' = Threads /\ call'[th] = NoCall
        /\ \A x \in Threads \ {th} : call'[x] = call[x]
    BY <1>3 DEF RingsInv, CallsInv
  <2>2. ASSUME NEW x \in Threads, call'[x] # NoCall
        PROVE  /\ call'[x].op = "hit" => HitIsRecent(call'[x], n)
               /\ call'[x].op = "get" => ReadIsBounded(call'[x], rings', hits', n)
    <3>1. call'[x] = call[x] /\ call[x] # NoCall
      BY <2>1, <2>2
    <3>2. /\ call[x].op = "hit" => HitIsRecent(call[x], n)
          /\ call[x].op = "get" => ReadIsBounded(call[x], rings, hits, n)
      BY <1>1, <3>1 DEF RingsInv, CallsInv
    <3> QED BY <1>16, <3>1, <3>2
  <2> QED BY <1>3, <2>1, <2>2 DEF CallsInv
<1> QED BY <1>3, <1>10, <1>15, <1>17 DEF RingsInv

\* What holds of the tier that a program constructs.
CountersInv ==
    /\ tier \in {"deque", "rings"} => ClockAndHits
    /\ tier = "deque" => DequeInv
    /\ tier = "rings" => RingsInv
    /\ tier # "rings" => call = [th \in Threads |-> NoCall]

\* A step of the deque keeps what holds of it.
LEMMA DequeStepInv ==
    ASSUME ClockAndHits, DequeInv, Counters!DequeNext
    PROVE  ClockAndHits' /\ DequeInv' /\ call' = call
<1>1. call' = call
  BY DEF Counters!DequeNext, Counters!DequeTick, Counters!DequeHit, Counters!DequeGetHits
<1> QED BY <1>1, DequeTicks, DequeHits, DequeGets DEF Counters!DequeNext

\* So does a step of the rings.
LEMMA RingsStepInv ==
    ASSUME ClockAndHits, RingsInv, Counters!RingsNext
    PROVE  ClockAndHits' /\ RingsInv'
<1>1. CASE Counters!Tick
  BY <1>1, RingsTick
<1>2. CASE \E th \in Threads : Counters!Step(th)
  <2>1. PICK th \in Threads : Counters!Step(th)
    BY <1>2
  <2>2. CASE Counters!Hit(th)
    BY <2>2, RingsHit
  <2>3. CASE Counters!CallHit(th) \/ Counters!CallGetHits(th) \/ Counters!ReadSlot(th) \/ Counters!Return(th)
    BY <2>3, CallsCountNothing
  <2> QED BY <2>1, <2>2, <2>3 DEF Counters!Step
<1> QED BY <1>1, <1>2 DEF Counters!RingsNext

\* The invariant of the counters is inductive in the composition.
LEMMA CountersInductive ==
    /\ StoresInit => CountersInv
    /\ CountersInv /\ [StoresNext]_all => CountersInv'
<1>1. StoresInit => CountersInv
  BY DequeStarts, RingsStart DEF StoresInit, CountersInv, Counters!Init
<1>2. CountersInv /\ [StoresNext]_all => CountersInv'
  <2> SUFFICES ASSUME CountersInv, [StoresNext]_all PROVE CountersInv'
    OBVIOUS
  <2>1. /\ tier' = tier
        /\ tier = "deque" => Counters!DequeNext \/ UNCHANGED <<now, counter_vars>>
        /\ tier = "rings" => Counters!RingsNext \/ UNCHANGED <<now, counter_vars>>
        /\ tier \notin {"deque", "rings"} => UNCHANGED counter_vars
    <3>1. CASE UNCHANGED all
      BY <3>1 DEF all
    <3>2. CASE StoresNext
      BY <3>2 DEF StoresNext, LRUStep, CoWStep, GCStep, FreelistStep, BitmapStep, TreeStep, ShardsStep,
         TransactionalStep, ExpiringStep, HeapStep, DequeStep, RingsStep, LedgerStep,
         PermissionsStep, OthersRest
    <3> QED BY <3>1, <3>2
  <2>2. ASSUME UNCHANGED <<now, counter_vars>> PROVE CountersInv'
    <3>1. now' = now /\ hits' = hits /\ ts' = ts /\ rings' = rings /\ call' = call
      BY <2>2 DEF counter_vars
    <3>2. tier \in {"deque", "rings"} => ClockAndHits'
      BY <3>1 DEF CountersInv, ClockAndHits, Counters!Seconds
    <3>3. tier = "deque" => DequeInv'
      <4>1. \A t : HitsSince(t)' = HitsSince(t) /\ Later(ts, t)' = Later(ts, t)
        BY <3>1 DEF HitsSince, Recent, Later, Counters!Seconds
      <4> QED BY <3>1, <4>1 DEF CountersInv, DequeInv
    <3>4. tier = "rings" => RingsInv'
      BY <3>1 DEF CountersInv, RingsInv, CallsInv
    <3> QED BY <2>1, <3>1, <3>2, <3>3, <3>4 DEF CountersInv
  <2>3. CASE tier = "deque" /\ Counters!DequeNext
    BY <2>1, <2>3, DequeStepInv DEF CountersInv
  <2>4. CASE tier = "rings" /\ Counters!RingsNext
    BY <2>1, <2>4, RingsStepInv DEF CountersInv
  <2>5. CASE tier \notin {"deque", "rings"}
    <3>1. call' = call
      BY <2>1, <2>5 DEF counter_vars
    <3> QED BY <2>1, <2>5, <3>1 DEF CountersInv
  <2> QED BY <2>1, <2>2, <2>3, <2>4, <2>5
<1> QED BY <1>1, <1>2

\* Both counters are exact when nothing interrupts the reader, for any window,
\* any number of shards and threads, any history: the length of the deque that
\* get_hits leaves, and the sum of the counts of the slots that it reads, are
\* the number of the hits recorded for the seconds of the window, in whatever
\* order they were recorded.
THEOREM CountersAreExactAlways == StoresSpec => []CountersAreExact
<1>1. CountersInv => CountersAreExact
  <2> SUFFICES ASSUME CountersInv PROVE CountersAreExact
    OBVIOUS
  <2>1. tier = "deque" => Counters!DequeIsExact
    BY DequeCounts DEF CountersInv
  <2>2. tier = "rings" => Counters!RingsAreExact
    <3> SUFFICES ASSUME tier = "rings" PROVE Counters!RingsAreExact
      OBVIOUS
    <3>1. now \in Nat /\ now >= now
      BY DEF CountersInv, ClockAndHits
    <3>2. SumOf(CountedBy(rings, now), Counters!Shards) = InWindowOf(hits, now)
      BY <3>1 DEF CountersInv, RingsInv, RingsHold
    <3>3. Counters!ShardHits = CountedBy(rings, now)
      BY DEF Counters!ShardHits, CountedBy
    <3> QED BY <3>2, <3>3, CountsAreSums DEF InWindowOf, HitsSince
  <2> QED BY <2>1, <2>2 DEF CountersAreExact
<1> QED BY <1>1, CountersInductive, PTL DEF StoresSpec

\* A read of the sharded counter that hits and the clock interrupt answers no
\* less than the hits recorded before it that are in the window to its end, and
\* no more than those recorded to its end that are in the window of its second
\* or came later, for any window, number of shards and threads.
THEOREM InterruptedReadsAreBoundedAlways == StoresSpec => []InterruptedReadsAreBounded
<1>1. CountersInv => InterruptedReadsAreBounded
  <2> SUFFICES ASSUME CountersInv, NEW th \in Threads, Counters!Answered(th)
               PROVE  /\ call[th].ans >= Counters!HitsAfter(call[th].before, now - Window)
                      /\ call[th].ans <= Counters!HitsAfter(hits, call[th].t - Window)
    BY DEF InterruptedReadsAreBounded, Counters!ScansAreBounded
  <2>1. call[th] # NoCall /\ call[th].op = "get" /\ call[th].position \notin Counters!Positions
    BY DEF Counters!Answered, Counters!Doing
  <2>2. tier = "rings"
    BY <2>1 DEF CountersInv
  <2>3. /\ ReadIsBounded(call[th], rings, hits, now) /\ now \in Nat /\ now >= now
        /\ \A shard \in Counters!Shards : RingIsPast(rings[shard], now)
    BY <2>1, <2>2 DEF CountersInv, RingsInv, RingsHold, CallsInv, ClockAndHits
  <2>4. PICK a \in Nat, p \in Nat, t \in Nat :
          a = call[th].ans /\ p = call[th].position /\ t = call[th].t
    BY <2>3 DEF ReadIsBounded
  <2>5. \A u \in Nat : Left(rings, u, p) = 0
    BY <2>1, <2>3, <2>4, LeftOfARead
  <2>6. a + 0 <= InWindowOf(hits, t) /\ InWindowOf(call[th].before, now) <= a + 0
    BY <2>3, <2>4, <2>5 DEF ReadIsBounded
  <2>7. InWindowOf(call[th].before, now) \in Nat /\ InWindowOf(hits, t) \in Nat
    <3>1. hits \in [Counters!Seconds -> Nat] /\ call[th].before \in [Counters!Seconds -> Nat]
      BY <2>2, <2>3 DEF CountersInv, ClockAndHits, ReadIsBounded
    <3>2. ASSUME NEW h \in [Counters!Seconds -> Nat], NEW u PROVE InWindowOf(h, u) \in Nat
      <4>1. IsFiniteSet(Recent(u - Window)) /\ \A s \in Recent(u - Window) : h[s] \in Nat
        BY RingConstants, FS_Subset DEF Recent
      <4> QED BY <4>1, SumType DEF InWindowOf
    <3> QED BY <3>1, <3>2
  <2>8. \A h, u : Counters!HitsAfter(h, u - Window) = InWindowOf(h, u)
    BY HistoriesAreSums DEF InWindowOf
  <2> QED BY <2>4, <2>6, <2>7, <2>8
<1> QED BY <1>1, CountersInductive, PTL DEF StoresSpec
-----------------------------------------------------------------------------
(* The segment tree *)

\* The frames of the tree are those in every set that has the root and, with a
\* frame that is no leaf, what it may call.
CallsOwn(S) ==
    /\ Tree!Root \in S
    /\ \A x \in S : ~Tree!IsLeaf(x) => Tree!Left(x) \in S /\ Tree!Right(x) \in S

InTree == {x \in Tree!Frames : \A S \in SUBSET Tree!Frames : CallsOwn(S) => x \in S}

\* The constant of the tree.
LEMMA TreeConstants == tree_max_id \in Nat /\ tree_max_id >= 1
BY TierConstants DEF Tree!SegmentTreeConstants

\* Both halves of a range have at most half of what it has beyond one id.
LEMMA Halves ==
    ASSUME NEW lo \in Nat, NEW hi \in Nat
    PROVE  /\ (lo + hi) \div 2 \in Nat
           /\ lo < hi => /\ lo <= (lo + hi) \div 2 /\ (lo + hi) \div 2 < hi
                         /\ 2 * ((lo + hi) \div 2 - lo) <= hi - lo
                         /\ 2 * (hi - ((lo + hi) \div 2 + 1)) <= hi - lo
OBVIOUS

\* What a frame calls is a frame.
LEMMA CallsAreFrames ==
    ASSUME NEW x \in Tree!Frames
    PROVE  /\ x.node \in Nat /\ x.lo \in Nat /\ x.hi \in Nat /\ Tree!Mid(x) \in Nat
           /\ Tree!Left(x) \in Tree!Frames /\ Tree!Right(x) \in Tree!Frames
           /\ x = [node |-> x.node, lo |-> x.lo, hi |-> x.hi]
           /\ Tree!Left(x).node = 2 * x.node /\ Tree!Left(x).lo = x.lo /\ Tree!Left(x).hi = Tree!Mid(x)
           /\ Tree!Right(x).node = 2 * x.node + 1 /\ Tree!Right(x).lo = Tree!Mid(x) + 1
           /\ Tree!Right(x).hi = x.hi
<1>1. x.node \in Nat /\ x.lo \in Nat /\ x.hi \in Nat /\ x = [node |-> x.node, lo |-> x.lo, hi |-> x.hi]
  BY DEF Tree!Frames
<1>2. Tree!Mid(x) \in Nat
  BY <1>1, Halves DEF Tree!Mid
<1> QED BY <1>1, <1>2 DEF Tree!Left, Tree!Right, Tree!Frames

\* The root is a frame of the tree, and so is what a frame of it calls.
LEMMA TreeCallsOwn ==
    /\ InTree \subseteq Tree!Frames /\ CallsOwn(InTree)
    /\ Tree!Root \in Tree!Frames /\ Tree!Root.node = 1 /\ Tree!Root.lo = 0
    /\ Tree!Root.hi = tree_max_id - 1
<1>1. /\ Tree!Root \in Tree!Frames /\ Tree!Root.node = 1 /\ Tree!Root.lo = 0
      /\ Tree!Root.hi = tree_max_id - 1
  BY TreeConstants DEF Tree!Root, Tree!Frames
<1>2. Tree!Root \in InTree
  BY <1>1 DEF InTree, CallsOwn
<1>3. ASSUME NEW x \in InTree, ~Tree!IsLeaf(x) PROVE Tree!Left(x) \in InTree /\ Tree!Right(x) \in InTree
  <2>1. x \in Tree!Frames
    BY DEF InTree
  <2>2. Tree!Left(x) \in Tree!Frames /\ Tree!Right(x) \in Tree!Frames
    BY <2>1, CallsAreFrames
  <2>3. ASSUME NEW S \in SUBSET Tree!Frames, CallsOwn(S) PROVE Tree!Left(x) \in S /\ Tree!Right(x) \in S
    BY <1>3, <2>3 DEF CallsOwn, InTree
  <2> QED BY <2>2, <2>3 DEF InTree
<1> QED BY <1>1, <1>2, <1>3 DEF InTree, CallsOwn

\* A frame of the tree covers some ids, and its node and those that it may look
\* at are cells: a node at a depth of 2^d nodes has at most (max_id - 1) / 2^d
\* ids beyond one.
LEMMA FramesFit ==
    ASSUME NEW x \in InTree
    PROVE  /\ x.lo <= x.hi /\ x.hi <= tree_max_id - 1 /\ x.node >= 1
           /\ x.node \in Tree!Nodes
           /\ ~Tree!IsLeaf(x) => 2 * x.node \in Tree!Nodes /\ 2 * x.node + 1 \in Tree!Nodes
<1> DEFINE N == tree_max_id
           Fits(y, p) == /\ y.lo <= y.hi /\ y.hi <= N - 1
                         /\ y.node >= 1 /\ y.node <= 4 * N - 1
                         /\ p <= y.node /\ y.node < 2 * p /\ (y.hi - y.lo) * p <= N - 1
           S == {y \in Tree!Frames : \E p \in Nat : Fits(y, p)}
<1>1. N \in Nat /\ N >= 1
  BY TreeConstants
<1>2. Tree!Root \in S
  <2>1. Fits(Tree!Root, 1)
    BY <1>1, TreeCallsOwn
  <2> QED BY <2>1, TreeCallsOwn
<1>3. ASSUME NEW y \in Tree!Frames, NEW p \in Nat, Fits(y, p), ~Tree!IsLeaf(y)
      PROVE  /\ Fits(Tree!Left(y), 2 * p) /\ Fits(Tree!Right(y), 2 * p)
             /\ 2 * y.node + 1 <= 4 * N - 1
  <2>1. PICK i \in Nat, lo \in Nat, hi \in Nat, mid \in Nat :
          i = y.node /\ lo = y.lo /\ hi = y.hi /\ mid = Tree!Mid(y)
    BY CallsAreFrames
  <2>2. lo < hi /\ lo <= mid /\ mid < hi /\ 2 * (mid - lo) <= hi - lo /\ 2 * (hi - (mid + 1)) <= hi - lo
    BY <1>3, <2>1, Halves DEF Tree!IsLeaf, Tree!Mid
  <2>3. p >= 1 /\ p <= i /\ i < 2 * p /\ (hi - lo) * p <= N - 1
    BY <1>3, <2>1
  <2>4. \A d \in Nat : 2 * d <= hi - lo => d * (2 * p) <= N - 1
    <3> SUFFICES ASSUME NEW d \in Nat, 2 * d <= hi - lo PROVE d * (2 * p) <= N - 1
      OBVIOUS
    <3>1. PICK e \in Nat : e = hi - lo
      BY <2>2
    <3>2. (2 * d) * p <= e * p
      <4>1. PICK r \in Nat : e = 2 * d + r
        <5>1. e - 2 * d \in Nat /\ e = 2 * d + (e - 2 * d)
          BY <3>1
        <5> QED BY <5>1
      <4>2. e * p = (2 * d) * p + r * p /\ r * p \in Nat /\ (2 * d) * p \in Nat
        BY <4>1
      <4> QED BY <4>2
    <3>3. d * (2 * p) = (2 * d) * p
      OBVIOUS
    <3>4. e * p \in Nat /\ (2 * d) * p \in Nat
      OBVIOUS
    <3> QED BY <1>1, <2>3, <3>1, <3>2, <3>3, <3>4
  <2>5. p <= N - 1
    <3>1. PICK r \in Nat : hi - lo = r + 1
      <4>1. (hi - lo) - 1 \in Nat /\ hi - lo = ((hi - lo) - 1) + 1
        BY <2>2
      <4> QED BY <4>1
    <3>2. (hi - lo) * p = r * p + p /\ r * p \in Nat
      BY <3>1
    <3> QED BY <1>1, <2>3, <3>2
  <2>6. 2 * i + 1 <= 4 * N - 1 /\ 2 * i <= 4 * N - 1 /\ 2 * p <= 2 * i /\ 2 * i + 1 < 2 * (2 * p)
    BY <1>1, <2>3, <2>5
  <2>7. mid - lo \in Nat /\ hi - (mid + 1) \in Nat
    BY <2>2
  <2>8. (mid - lo) * (2 * p) <= N - 1 /\ (hi - (mid + 1)) * (2 * p) <= N - 1
    BY <2>2, <2>4, <2>7
  <2>9. /\ Tree!Left(y).node = 2 * i /\ Tree!Left(y).lo = lo /\ Tree!Left(y).hi = mid
        /\ Tree!Right(y).node = 2 * i + 1 /\ Tree!Right(y).lo = mid + 1 /\ Tree!Right(y).hi = hi
        /\ hi <= N - 1 /\ mid <= N - 1 /\ mid + 1 <= hi /\ 2 * i >= 1 /\ 2 * i + 1 >= 1
        /\ 2 * p <= 2 * i + 1 /\ 2 * i < 2 * (2 * p)
    BY <1>1, <1>3, <2>1, <2>2, <2>3, CallsAreFrames
  <2> QED BY <1>1, <2>1, <2>2, <2>6, <2>8, <2>9
<1>4. CallsOwn(S)
  <2>1. ASSUME NEW y \in S, ~Tree!IsLeaf(y) PROVE Tree!Left(y) \in S /\ Tree!Right(y) \in S
    <3>1. PICK p \in Nat : Fits(y, p)
      OBVIOUS
    <3>2. 2 * p \in Nat
      OBVIOUS
    <3>3. Fits(Tree!Left(y), 2 * p) /\ Fits(Tree!Right(y), 2 * p)
      BY <1>3, <2>1, <3>1
    <3> HIDE DEF Fits
    <3> QED BY <3>2, <3>3, CallsAreFrames
  <2> QED BY <1>2, <2>1 DEF CallsOwn
<1>5. x \in S
  BY <1>4 DEF InTree
<1>6. PICK p \in Nat : Fits(x, p)
  BY <1>5
<1>7. x \in Tree!Frames /\ x.node \in Nat /\ x.node <= 4 * N - 1 /\ 4 * N - 1 \in Nat
  BY <1>1, <1>5, <1>6, CallsAreFrames
<1>8. ~Tree!IsLeaf(x) => 2 * x.node + 1 <= 4 * N - 1
  BY <1>3, <1>6, <1>7
<1> QED BY <1>6, <1>7, <1>8 DEF Tree!Nodes

\* A frame of the tree that is not the root is called by one that is no leaf.
LEMMA FramesAreCalled ==
    ASSUME NEW x \in InTree
    PROVE  \/ x = Tree!Root
           \/ \E y \in InTree : ~Tree!IsLeaf(y) /\ x \in {Tree!Left(y), Tree!Right(y)}
<1> DEFINE S == {z \in InTree :
                   \/ z = Tree!Root
                   \/ \E y \in InTree : ~Tree!IsLeaf(y) /\ z \in {Tree!Left(y), Tree!Right(y)}}
<1>1. S \in SUBSET Tree!Frames
  BY TreeCallsOwn
<1>2. CallsOwn(S)
  BY TreeCallsOwn DEF CallsOwn
<1>3. x \in S
  BY <1>1, <1>2 DEF InTree
<1> QED BY <1>3

\* A node has one range.
LEMMA NodesAreFrames ==
    ASSUME NEW x \in InTree, NEW y \in InTree, x.node = y.node
    PROVE  x = y
<1> DEFINE Twice == {i \in Nat : \E v, z \in InTree : v.node = i /\ z.node = i /\ v # z}
<1>1. Twice = {}
  <2> SUFFICES ASSUME Twice # {} PROVE FALSE
    OBVIOUS
  <2>1. PICK i \in Twice : \A j \in Twice : i <= j
    <3>1. Twice \in SUBSET Nat
      OBVIOUS
    <3> HIDE DEF Twice
    <3> QED BY <3>1, Least
  <2>2. PICK v \in InTree, z \in InTree : v.node = i /\ z.node = i /\ v # z
    BY <2>1
  <2>3. ASSUME NEW u \in InTree, u = Tree!Root \/ u.node = 1 PROVE u = Tree!Root
    <3>1. CASE u.node = 1 /\ u # Tree!Root
      <4>1. PICK w \in InTree : ~Tree!IsLeaf(w) /\ u \in {Tree!Left(w), Tree!Right(w)}
        BY <3>1, FramesAreCalled
      <4>2. w.node \in Nat /\ w.node >= 1 /\ (u.node = 2 * w.node \/ u.node = 2 * w.node + 1)
        BY <4>1, TreeCallsOwn, CallsAreFrames, FramesFit
      <4> QED BY <3>1, <4>2
    <3> QED BY <2>3, <3>1
  <2>4. v # Tree!Root /\ z # Tree!Root
    BY <2>2, <2>3, TreeCallsOwn
  <2>5. PICK a \in InTree, b \in InTree :
          /\ ~Tree!IsLeaf(a) /\ v \in {Tree!Left(a), Tree!Right(a)}
          /\ ~Tree!IsLeaf(b) /\ z \in {Tree!Left(b), Tree!Right(b)}
    BY <2>4, FramesAreCalled
  <2>6. /\ a.node \in Nat /\ a.node >= 1 /\ b.node \in Nat
        /\ (v = Tree!Left(a) /\ i = 2 * a.node) \/ (v = Tree!Right(a) /\ i = 2 * a.node + 1)
        /\ (z = Tree!Left(b) /\ i = 2 * b.node) \/ (z = Tree!Right(b) /\ i = 2 * b.node + 1)
    BY <2>2, <2>5, TreeCallsOwn, CallsAreFrames, FramesFit
  <2>7. /\ a.node = b.node /\ ~(i <= a.node)
        /\ (v = Tree!Left(a) /\ z = Tree!Left(b)) \/ (v = Tree!Right(a) /\ z = Tree!Right(b))
    <3>1. PICK m \in Nat, n \in Nat : m = a.node /\ n = b.node /\ m >= 1
      BY <2>6
    <3>2. /\ (v = Tree!Left(a) /\ i = 2 * m) \/ (v = Tree!Right(a) /\ i = 2 * m + 1)
          /\ (z = Tree!Left(b) /\ i = 2 * n) \/ (z = Tree!Right(b) /\ i = 2 * n + 1)
      BY <2>6, <3>1
    <3>3. \A j \in Nat : /\ ~(j = 2 * m /\ j = 2 * n + 1)
                         /\ ~(j = 2 * m + 1 /\ j = 2 * n)
                         /\ (j = 2 * m \/ j = 2 * m + 1) => ~(j <= m)
                         /\ (j = 2 * m /\ j = 2 * n) => m = n
                         /\ (j = 2 * m + 1 /\ j = 2 * n + 1) => m = n
      BY <3>1
    <3>4. i \in Nat
      BY <2>1
    <3> QED BY <3>1, <3>2, <3>3, <3>4
  <2>8. a # b
    BY <2>2, <2>7
  <2>9. a.node \in Twice
    BY <2>6, <2>7, <2>8
  <2> QED BY <2>1, <2>7, <2>9
<1>2. x.node \in Nat
  BY TreeCallsOwn, CallsAreFrames
<1> QED BY <1>1, <1>2

-----------------------------------------------------------------------------
(* Its descents *)

\* What holds at the root and goes on a step holds all along.
LEMMA DepthByDepth ==
    ASSUME NEW S \in SUBSET Tree!Depths, 0 \in S,
           \A k \in Nat : k \in S /\ k + 1 \in Tree!Depths => k + 1 \in S
    PROVE  S = Tree!Depths
<1> DEFINE Bad == Tree!Depths \ S
<1>1. Tree!Depths \in SUBSET Nat
  BY TreeConstants DEF Tree!Depths
<1>2. Bad = {}
  <2> SUFFICES ASSUME Bad # {} PROVE FALSE
    OBVIOUS
  <2>1. PICK v \in Bad : \A u \in Bad : v <= u
    <3>1. Bad \in SUBSET Nat
      BY <1>1
    <3> HIDE DEF Bad
    <3> QED BY <3>1, Least
  <2>2. v \in Nat /\ v \in Tree!Depths /\ v \notin S /\ v # 0
    BY <1>1, <2>1
  <2>3. v - 1 \in Nat /\ ~(v <= v - 1) /\ (v - 1) + 1 = v /\ v - 1 \in Tree!Depths
    BY TreeConstants, <2>2 DEF Tree!Depths
  <2>4. v - 1 \in S
    BY <2>1, <2>3
  <2> QED BY <2>2, <2>3, <2>4
<1> QED BY <1>2

\* A descent begins at the root and goes on to what a frame calls, or stays at
\* its leaf.
IsDescent(path) ==
    /\ path[0] = Tree!Root
    /\ \A k \in Nat : k + 1 \in Tree!Depths =>
          IF Tree!IsLeaf(path[k]) THEN path[k + 1] = path[k]
          ELSE path[k + 1] \in {Tree!Left(path[k]), Tree!Right(path[k])}

\* What a descent is.
LEMMA DescentsUnfold ==
    ASSUME NEW below
    PROVE  /\ Tree!Descent(below)[0] = Tree!Root
           /\ \A k \in Nat : k + 1 \in Tree!Depths =>
                 Tree!Descent(below)[k + 1] = below[Tree!Descent(below)[k]]
<1> DEFINE F(f) == [k \in Tree!Depths |-> IF k = 0 THEN Tree!Root ELSE below[f[k - 1]]]
           path == Tree!Descent(below)
<1>1. \E f : f = F(f)
  <2>1. tree_max_id - 1 \in Nat
    BY TreeConstants
  <2> DEFINE g == [k \in 0 .. tree_max_id - 1 |-> below]
  <2>2. \A k \in 0 .. tree_max_id - 1 : g[k] = below
    OBVIOUS
  <2> HIDE DEF g
  <2>3. PICK f : StepsBy(f, tree_max_id - 1, Tree!Root, g)
    BY <2>1, StepsExist
  <2>4. f = [k \in 0 .. tree_max_id - 1 |-> IF k = 0 THEN Tree!Root ELSE below[f[k - 1]]]
    BY <2>2, <2>3 DEF StepsBy
  <2> QED BY <2>4 DEF Tree!Depths
<1>2. path = CHOOSE f : f = F(f)
  BY DEF Tree!Descent
<1> HIDE DEF F, path
<1>3. path = F(path)
  BY <1>1, <1>2
<1>4. path = [k \in Tree!Depths |-> IF k = 0 THEN Tree!Root ELSE below[path[k - 1]]]
  BY <1>3 DEF F
<1>5. 0 \in Tree!Depths
  BY TreeConstants DEF Tree!Depths
<1>6. ASSUME NEW k \in Nat, k + 1 \in Tree!Depths PROVE path[k + 1] = below[path[k]]
  <2>1. k + 1 # 0 /\ (k + 1) - 1 = k
    OBVIOUS
  <2> QED BY <1>4, <1>6, <2>1
<1> QED BY <1>4, <1>5, <1>6 DEF path

\* The frames of a descent are of the tree, each called with fewer ids.
LEMMA DescentsGoDown ==
    ASSUME NEW path, IsDescent(path), NEW k \in Tree!Depths
    PROVE  /\ path[k] \in InTree /\ k \in Nat
           /\ Tree!IsLeaf(path[k]) \/ path[k].hi - path[k].lo <= tree_max_id - 1 - k
<1> DEFINE N == tree_max_id
           Down(j) == path[j] \in InTree /\
                      (Tree!IsLeaf(path[j]) \/ path[j].hi - path[j].lo <= N - 1 - j)
           S == {j \in Tree!Depths : Down(j)}
<1>1. N \in Nat /\ N >= 1 /\ Tree!Depths \in SUBSET Nat
  BY TreeConstants DEF Tree!Depths
<1>2. Down(0)
  BY <1>1, TreeCallsOwn DEF IsDescent, CallsOwn
<1>3. ASSUME NEW j \in Nat, j + 1 \in Tree!Depths, Down(j) PROVE Down(j + 1)
  <2>1. CASE Tree!IsLeaf(path[j])
    BY <1>3, <2>1 DEF IsDescent
  <2>2. CASE ~Tree!IsLeaf(path[j])
    <3>1. path[j] \in Tree!Frames /\ path[j + 1] \in {Tree!Left(path[j]), Tree!Right(path[j])}
      BY <1>3, <2>2, TreeCallsOwn DEF IsDescent
    <3>2. path[j + 1] \in InTree
      BY <1>3, <2>2, <3>1, TreeCallsOwn DEF CallsOwn
    <3>3. PICK lo \in Nat, hi \in Nat, mid \in Nat :
            lo = path[j].lo /\ hi = path[j].hi /\ mid = Tree!Mid(path[j])
      BY <3>1, CallsAreFrames
    <3>4. lo < hi /\ lo <= mid /\ mid < hi
      <4>1. lo <= hi /\ lo # hi
        BY <1>3, <2>2, <3>3, FramesFit DEF Tree!IsLeaf
      <4> QED BY <3>3, <4>1, Halves DEF Tree!Mid
    <3>5. hi - lo <= N - 1 - j
      BY <1>3, <2>2, <3>3
    <3>6. \/ path[j + 1].lo = lo /\ path[j + 1].hi = mid
          \/ path[j + 1].lo = mid + 1 /\ path[j + 1].hi = hi
      BY <3>1, <3>3, CallsAreFrames
    <3>7. mid - lo <= N - 1 - (j + 1) /\ hi - (mid + 1) <= N - 1 - (j + 1)
      BY <1>1, <3>4, <3>5
    <3> QED BY <3>2, <3>6, <3>7
  <2> QED BY <2>1, <2>2
<1>4. S = Tree!Depths
  <2>1. S \in SUBSET Tree!Depths /\ 0 \in S
    BY <1>1, <1>2, TreeConstants DEF Tree!Depths
  <2>2. \A j \in Nat : j \in S /\ j + 1 \in Tree!Depths => j + 1 \in S
    BY <1>3
  <2> HIDE DEF S
  <2> QED BY <2>1, <2>2, DepthByDepth
<1> QED BY <1>1, <1>4

\* So it ends in a leaf.
LEMMA DescentsEnd ==
    ASSUME NEW path, IsDescent(path)
    PROVE  Tree!Leaf(path) \in InTree /\ Tree!IsLeaf(Tree!Leaf(path))
<1> DEFINE x == Tree!Leaf(path)
<1>1. tree_max_id - 1 \in Tree!Depths
  BY TreeConstants DEF Tree!Depths
<1>2. x \in InTree /\ (Tree!IsLeaf(x) \/ x.hi - x.lo <= tree_max_id - 1 - (tree_max_id - 1))
  BY <1>1, DescentsGoDown DEF Tree!Leaf
<1>3. x.lo \in Nat /\ x.hi \in Nat /\ x.lo <= x.hi
  BY <1>2, TreeCallsOwn, CallsAreFrames, FramesFit
<1>4. x.hi - x.lo <= 0 => x.lo = x.hi
  BY <1>3
<1> QED BY <1>2, <1>4, TreeConstants DEF Tree!IsLeaf

\* A parent in the tree of a frame on a descent is on it, higher up.
LEMMA ParentsAreOnTheWay ==
    ASSUME NEW path, IsDescent(path), NEW x \in InTree, ~Tree!IsLeaf(x),
           NEW k \in Tree!Depths, path[k] \in {Tree!Left(x), Tree!Right(x)}
    PROVE  \E m \in Tree!Depths : m < k /\ path[m] = x
<1> DEFINE Met(j) == path[j] \in {Tree!Left(x), Tree!Right(x)} =>
                        \E m \in Tree!Depths : m < j /\ path[m] = x
           S == {j \in Tree!Depths : Met(j)}
<1>1. Tree!Depths \in SUBSET Nat /\ 0 \in Tree!Depths
  BY TreeConstants DEF Tree!Depths
<1>2. x \in Tree!Frames /\ x.node \in Nat /\ x.node >= 1
  BY TreeCallsOwn, CallsAreFrames, FramesFit
<1>3. 0 \in S
  <2>1. path[0].node = 1
    BY TreeCallsOwn DEF IsDescent
  <2>2. Tree!Left(x).node # 1 /\ Tree!Right(x).node # 1
    BY <1>2, CallsAreFrames
  <2> QED BY <1>1, <2>1, <2>2
<1>4. ASSUME NEW j \in Nat, j \in S, j + 1 \in Tree!Depths PROVE j + 1 \in S
  <2> SUFFICES ASSUME path[j + 1] \in {Tree!Left(x), Tree!Right(x)}
               PROVE  \E m \in Tree!Depths : m < j + 1 /\ path[m] = x
    BY <1>4
  <2>1. CASE Tree!IsLeaf(path[j])
    <3>1. path[j + 1] = path[j]
      BY <1>4, <2>1 DEF IsDescent
    <3>2. PICK m \in Tree!Depths : m < j /\ path[m] = x
      BY <1>4, <3>1
    <3>3. m < j + 1
      BY <1>1, <3>2
    <3> QED BY <3>2, <3>3
  <2>2. CASE ~Tree!IsLeaf(path[j])
    <3>1. path[j + 1] \in {Tree!Left(path[j]), Tree!Right(path[j])}
      BY <1>4, <2>2 DEF IsDescent
    <3>2. path[j] \in InTree
      BY <1>4, DescentsGoDown
    <3>3. path[j].node \in Nat /\ path[j] \in Tree!Frames
      BY <3>2, TreeCallsOwn, CallsAreFrames
    <3>4. PICK m \in Nat, n \in Nat : m = path[j].node /\ n = x.node
      BY <1>2, <3>3
    <3>5. /\ path[j + 1].node = 2 * m \/ path[j + 1].node = 2 * m + 1
          /\ path[j + 1].node = 2 * n \/ path[j + 1].node = 2 * n + 1
      BY <1>2, <3>1, <3>3, <3>4, CallsAreFrames
    <3>6. PICK i \in Nat : i = path[j + 1].node
      BY <3>5
    <3>7. m = n
      BY <3>5, <3>6
    <3>8. path[j] = x
      BY <3>2, <3>4, <3>7, NodesAreFrames
    <3>9. j < j + 1 /\ j \in Tree!Depths
      BY <1>4
    <3> QED BY <3>8, <3>9
  <2> QED BY <2>1, <2>2
<1>5. S = Tree!Depths
  <2>1. S \in SUBSET Tree!Depths
    OBVIOUS
  <2> HIDE DEF S
  <2> QED BY <1>3, <1>4, <2>1, DepthByDepth
<1> QED BY <1>5

\* What a way down that keeps to the frames visits.
LEMMA WaysDescend ==
    ASSUME NEW below,
           \A x \in Tree!Frames : IF Tree!IsLeaf(x) THEN below[x] = x
                                  ELSE below[x] \in {Tree!Left(x), Tree!Right(x)}
    PROVE  IsDescent(Tree!Descent(below))
<1> DEFINE path == Tree!Descent(below)
           S == {k \in Tree!Depths : path[k] \in Tree!Frames}
<1>1. Tree!Depths \in SUBSET Nat /\ 0 \in Tree!Depths
  BY TreeConstants DEF Tree!Depths
<1>2. /\ path[0] = Tree!Root
      /\ \A k \in Nat : k + 1 \in Tree!Depths => path[k + 1] = below[path[k]]
  BY DescentsUnfold
<1> HIDE DEF path
<1>3. \A x \in Tree!Frames : below[x] \in Tree!Frames
  BY CallsAreFrames
<1>4. S = Tree!Depths
  <2>1. S \in SUBSET Tree!Depths /\ 0 \in S
    BY <1>1, <1>2, TreeCallsOwn
  <2>2. \A k \in Nat : k \in S /\ k + 1 \in Tree!Depths => k + 1 \in S
    BY <1>2, <1>3
  <2> HIDE DEF S
  <2> QED BY <2>1, <2>2, DepthByDepth
<1>5. \A k \in Nat : k + 1 \in Tree!Depths => k \in Tree!Depths
  BY TreeConstants DEF Tree!Depths
<1> QED BY <1>2, <1>4, <1>5 DEF IsDescent, path

\* Both ways down are descents, by the comparisons they make.
LEMMA WaysAreDescents ==
    /\ \A t : /\ IsDescent(Tree!ClaimPath(t))
              /\ \A k \in Nat : k + 1 \in Tree!Depths /\ ~Tree!IsLeaf(Tree!ClaimPath(t)[k]) =>
                   Tree!ClaimPath(t)[k + 1] =
                      IF t[2 * Tree!ClaimPath(t)[k].node] = 0 THEN Tree!Left(Tree!ClaimPath(t)[k])
                      ELSE Tree!Right(Tree!ClaimPath(t)[k])
    /\ \A id : /\ IsDescent(Tree!FreePath(id))
               /\ \A k \in Nat : k + 1 \in Tree!Depths /\ ~Tree!IsLeaf(Tree!FreePath(id)[k]) =>
                    Tree!FreePath(id)[k + 1] =
                       IF id <= Tree!Mid(Tree!FreePath(id)[k]) THEN Tree!Left(Tree!FreePath(id)[k])
                       ELSE Tree!Right(Tree!FreePath(id)[k])
<1>0. \A k \in Nat : k + 1 \in Tree!Depths => k \in Tree!Depths
  BY TreeConstants DEF Tree!Depths
<1>1. ASSUME NEW t
      PROVE  /\ IsDescent(Tree!ClaimPath(t))
             /\ \A k \in Nat : k + 1 \in Tree!Depths /\ ~Tree!IsLeaf(Tree!ClaimPath(t)[k]) =>
                   Tree!ClaimPath(t)[k + 1] =
                      IF t[2 * Tree!ClaimPath(t)[k].node] = 0 THEN Tree!Left(Tree!ClaimPath(t)[k])
                      ELSE Tree!Right(Tree!ClaimPath(t)[k])
  <2> DEFINE below == Tree!ClaimBelow(t)
  <2>1. \A x \in Tree!Frames : below[x] = IF Tree!IsLeaf(x) THEN x
                                          ELSE IF t[2 * x.node] = 0 THEN Tree!Left(x) ELSE Tree!Right(x)
    BY DEF Tree!ClaimBelow
  <2> HIDE DEF below
  <2>2. IsDescent(Tree!Descent(below))
    BY <2>1, WaysDescend
  <2>3. \A k \in Tree!Depths : Tree!Descent(below)[k] \in Tree!Frames
    BY <2>2, DescentsGoDown, TreeCallsOwn
  <2>4. \A k \in Nat : k + 1 \in Tree!Depths => Tree!Descent(below)[k + 1] = below[Tree!Descent(below)[k]]
    BY DescentsUnfold
  <2>5. Tree!ClaimPath(t) = Tree!Descent(below)
    BY DEF Tree!ClaimPath, below
  <2> QED BY <1>0, <2>1, <2>2, <2>3, <2>4, <2>5
<1>2. ASSUME NEW id
      PROVE  /\ IsDescent(Tree!FreePath(id))
             /\ \A k \in Nat : k + 1 \in Tree!Depths /\ ~Tree!IsLeaf(Tree!FreePath(id)[k]) =>
                    Tree!FreePath(id)[k + 1] =
                       IF id <= Tree!Mid(Tree!FreePath(id)[k]) THEN Tree!Left(Tree!FreePath(id)[k])
                       ELSE Tree!Right(Tree!FreePath(id)[k])
  <2> DEFINE below == Tree!FreeBelow(id)
  <2>1. \A x \in Tree!Frames : below[x] = IF Tree!IsLeaf(x) THEN x
                                          ELSE IF id <= Tree!Mid(x) THEN Tree!Left(x) ELSE Tree!Right(x)
    BY DEF Tree!FreeBelow
  <2> HIDE DEF below
  <2>2. IsDescent(Tree!Descent(below))
    BY <2>1, WaysDescend
  <2>3. \A k \in Tree!Depths : Tree!Descent(below)[k] \in Tree!Frames
    BY <2>2, DescentsGoDown, TreeCallsOwn
  <2>4. \A k \in Nat : k + 1 \in Tree!Depths => Tree!Descent(below)[k + 1] = below[Tree!Descent(below)[k]]
    BY DescentsUnfold
  <2>5. Tree!FreePath(id) = Tree!Descent(below)
    BY DEF Tree!FreePath, below
  <2> QED BY <1>0, <2>1, <2>2, <2>3, <2>4, <2>5
<1> QED BY <1>1, <1>2

\* The ids of a range are those of its halves.
LEMMA HalvesCover ==
    ASSUME NEW x \in InTree, ~Tree!IsLeaf(x)
    PROVE  /\ x.lo \in Nat /\ x.hi \in Nat /\ x.node \in Nat /\ x.node >= 1 /\ Tree!Mid(x) \in Nat
           /\ x.lo <= Tree!Mid(x) /\ Tree!Mid(x) < x.hi /\ x.hi <= tree_max_id - 1
           /\ x.lo .. x.hi = (x.lo .. Tree!Mid(x)) \union (Tree!Mid(x) + 1 .. x.hi)
<1>1. /\ x.lo \in Nat /\ x.hi \in Nat /\ x.node \in Nat /\ x.node >= 1 /\ Tree!Mid(x) \in Nat
      /\ x.lo <= x.hi /\ x.hi <= tree_max_id - 1
  BY TreeCallsOwn, CallsAreFrames, FramesFit
<1>2. x.lo < x.hi
  BY <1>1 DEF Tree!IsLeaf
<1>3. x.lo <= Tree!Mid(x) /\ Tree!Mid(x) < x.hi
  BY <1>1, <1>2, Halves DEF Tree!Mid
<1>4. PICK lo \in Nat, hi \in Nat, mid \in Nat : lo = x.lo /\ hi = x.hi /\ mid = Tree!Mid(x)
  BY <1>1
<1>5. lo .. hi = (lo .. mid) \union (mid + 1 .. hi)
  BY <1>3, <1>4
<1> QED BY <1>1, <1>3, <1>4, <1>5

\* The descent to an id visits every frame of the tree whose range has it.
LEMMA FreePathVisits ==
    ASSUME NEW x \in InTree, NEW id \in x.lo .. x.hi
    PROVE  \E k \in Tree!Depths : Tree!FreePath(id)[k] = x
<1> DEFINE N == tree_max_id
           Visited(y) == \A i \in y.lo .. y.hi : \E k \in Tree!Depths :
                            Tree!FreePath(i)[k] = y /\ k <= N - 1 - (y.hi - y.lo)
           S == {y \in InTree : Visited(y)}
<1>1. N \in Nat /\ N >= 1 /\ Tree!Depths = 0 .. N - 1
  BY TreeConstants DEF Tree!Depths
<1>2. Tree!Root \in S
  <2>1. ASSUME NEW i \in Tree!Root.lo .. Tree!Root.hi
        PROVE  Tree!FreePath(i)[0] = Tree!Root /\ 0 <= N - 1 - (Tree!Root.hi - Tree!Root.lo)
    BY <1>1, WaysAreDescents, TreeCallsOwn DEF IsDescent
  <2>2. 0 \in Tree!Depths
    BY <1>1
  <2> QED BY <2>1, <2>2, TreeCallsOwn DEF CallsOwn
<1>3. ASSUME NEW y \in S, ~Tree!IsLeaf(y) PROVE Tree!Left(y) \in S /\ Tree!Right(y) \in S
  <2>1. y \in InTree /\ y \in Tree!Frames /\ Tree!Left(y) \in InTree /\ Tree!Right(y) \in InTree
    BY <1>3, TreeCallsOwn DEF CallsOwn
  <2>2. PICK lo \in Nat, hi \in Nat, mid \in Nat : lo = y.lo /\ hi = y.hi /\ mid = Tree!Mid(y)
    BY SMTT(30), <1>3, <2>1, HalvesCover
  <2>3. lo <= mid /\ mid < hi /\ hi <= N - 1 /\ lo .. hi = (lo .. mid) \union (mid + 1 .. hi)
    BY <1>3, <2>1, <2>2, HalvesCover
  <2>4. ASSUME NEW i \in lo .. hi
        PROVE  \E k \in Tree!Depths : /\ k <= N - 1 - (mid - lo) /\ k <= N - 1 - (hi - (mid + 1))
                                      /\ Tree!FreePath(i)[k] = IF i <= mid THEN Tree!Left(y) ELSE Tree!Right(y)
    <3>1. PICK k \in Tree!Depths : Tree!FreePath(i)[k] = y /\ k <= N - 1 - (hi - lo)
      BY <2>2
    <3>2. /\ k \in Nat /\ k + 1 \in Tree!Depths
          /\ k + 1 <= N - 1 - (mid - lo) /\ k + 1 <= N - 1 - (hi - (mid + 1))
      BY SMTT(30), <1>1, <2>3, <3>1
    <3>3. Tree!FreePath(i)[k + 1] = IF i <= mid THEN Tree!Left(y) ELSE Tree!Right(y)
      BY <1>3, <2>2, <3>1, <3>2, WaysAreDescents
    <3> QED BY <3>2, <3>3
  <2>5. Visited(Tree!Left(y))
    <3>1. Tree!Left(y).lo = lo /\ Tree!Left(y).hi = mid
      BY <2>1, <2>2, CallsAreFrames
    <3>2. \A i \in lo .. mid : i \in lo .. hi /\ i <= mid
      BY <2>3
    <3> QED BY <2>4, <3>1, <3>2
  <2>6. Visited(Tree!Right(y))
    <3>1. Tree!Right(y).lo = mid + 1 /\ Tree!Right(y).hi = hi
      BY <2>1, <2>2, CallsAreFrames
    <3>2. \A i \in mid + 1 .. hi : i \in lo .. hi /\ ~(i <= mid)
      BY <2>3
    <3> QED BY <2>4, <3>1, <3>2
  <2> QED BY <2>1, <2>5, <2>6
<1>4. S \in SUBSET Tree!Frames /\ CallsOwn(S)
  <2> HIDE DEF Visited
  <2> QED BY <1>2, <1>3, TreeCallsOwn DEF CallsOwn
<1>5. x \in S
  BY <1>4 DEF InTree
<1> QED BY <1>5

\* From a leaf on, a descent stays there.
LEMMA LeavesStay ==
    ASSUME NEW path, IsDescent(path), NEW k \in Tree!Depths, Tree!IsLeaf(path[k])
    PROVE  Tree!Leaf(path) = path[k]
<1> DEFINE S == {j \in Tree!Depths : k <= j => path[j] = path[k]}
<1>1. Tree!Depths = 0 .. tree_max_id - 1 /\ tree_max_id \in Nat /\ tree_max_id >= 1 /\ k \in Nat
  BY TreeConstants DEF Tree!Depths
<1>2. S = Tree!Depths
  <2>1. S \in SUBSET Tree!Depths /\ 0 \in S
    BY <1>1
  <2>2. ASSUME NEW j \in Nat, j \in S, j + 1 \in Tree!Depths PROVE j + 1 \in S
    <3>1. CASE k <= j
      BY <2>2, <3>1 DEF IsDescent
    <3>2. CASE ~(k <= j)
      <4>1. k <= j + 1 => k = j + 1
        BY <1>1, <3>2
      <4> QED BY <2>2, <4>1
    <3> QED BY <3>1, <3>2
  <2> HIDE DEF S
  <2> QED BY <2>1, <2>2, DepthByDepth
<1>3. tree_max_id - 1 \in Tree!Depths /\ k <= tree_max_id - 1
  BY <1>1
<1>4. path[tree_max_id - 1] = path[k]
  BY <1>2, <1>3
<1> QED BY <1>4 DEF Tree!Leaf

LeafOf(id) == Tree!Leaf(Tree!FreePath(id))

\* The descent to an id ends in its leaf, the only one.
LEMMA EveryIdHasItsLeaf ==
    ASSUME NEW id \in Tree!Ids
    PROVE  /\ LeafOf(id) \in InTree /\ Tree!IsLeaf(LeafOf(id))
           /\ LeafOf(id).lo = id /\ LeafOf(id).hi = id
           /\ \A x \in InTree : Tree!IsLeaf(x) /\ x.lo = id => x = LeafOf(id)
<1> DEFINE path == Tree!FreePath(id)
           S == {k \in Tree!Depths : path[k].lo <= id /\ id <= path[k].hi}
<1>1. /\ Tree!Depths = 0 .. tree_max_id - 1 /\ tree_max_id \in Nat /\ tree_max_id >= 1
      /\ id \in Nat /\ id <= tree_max_id - 1
  BY TreeConstants DEF Tree!Depths, Tree!Ids
<1>2. IsDescent(path)
  BY WaysAreDescents
<1>3. S = Tree!Depths
  <2>1. S \in SUBSET Tree!Depths /\ 0 \in S
    BY <1>1, <1>2, TreeCallsOwn DEF IsDescent
  <2>2. ASSUME NEW j \in Nat, j \in S, j + 1 \in Tree!Depths PROVE j + 1 \in S
    <3>1. CASE Tree!IsLeaf(path[j])
      BY <1>2, <2>2, <3>1 DEF IsDescent
    <3>2. CASE ~Tree!IsLeaf(path[j])
      <4>1. path[j] \in InTree /\ path[j] \in Tree!Frames
        BY <1>2, <2>2, DescentsGoDown, TreeCallsOwn
      <4>2. path[j + 1] = IF id <= Tree!Mid(path[j]) THEN Tree!Left(path[j]) ELSE Tree!Right(path[j])
        BY <2>2, <3>2, WaysAreDescents
      <4>3. PICK lo \in Nat, hi \in Nat, mid \in Nat :
              lo = path[j].lo /\ hi = path[j].hi /\ mid = Tree!Mid(path[j])
        BY <3>2, <4>1, HalvesCover
      <4>4. lo <= id /\ id <= hi
        BY <2>2, <4>3
      <4>5. CASE id <= mid
        <5>1. path[j + 1].lo = lo /\ path[j + 1].hi = mid
          BY <4>1, <4>2, <4>3, <4>5, CallsAreFrames
        <5> QED BY <2>2, <4>4, <4>5, <5>1
      <4>6. CASE ~(id <= mid)
        <5>1. path[j + 1].lo = mid + 1 /\ path[j + 1].hi = hi
          BY <4>1, <4>2, <4>3, <4>6, CallsAreFrames
        <5>2. mid + 1 <= id
          BY <1>1, <4>6
        <5> QED BY <2>2, <4>4, <5>1, <5>2
      <4> QED BY <4>5, <4>6
    <3> QED BY <3>1, <3>2
  <2> HIDE DEF S
  <2> QED BY <2>1, <2>2, DepthByDepth
<1>4. LeafOf(id) \in InTree /\ Tree!IsLeaf(LeafOf(id))
  BY <1>2, DescentsEnd DEF LeafOf
<1>5. LeafOf(id).lo <= id /\ id <= LeafOf(id).hi
  <2>1. tree_max_id - 1 \in Tree!Depths
    BY <1>1
  <2> QED BY <1>3, <2>1 DEF LeafOf, Tree!Leaf
<1>6. LeafOf(id).lo = id /\ LeafOf(id).hi = id
  <2>1. LeafOf(id).lo \in Nat /\ LeafOf(id).lo = LeafOf(id).hi
    BY <1>4, TreeCallsOwn, CallsAreFrames DEF Tree!IsLeaf
  <2> QED BY <1>1, <1>5, <2>1
<1>7. ASSUME NEW x \in InTree, Tree!IsLeaf(x), x.lo = id PROVE x = LeafOf(id)
  <2>1. id \in x.lo .. x.hi
    BY <1>1, <1>7 DEF Tree!IsLeaf
  <2>2. PICK k \in Tree!Depths : path[k] = x
    BY <2>1, FreePathVisits
  <2> QED BY <1>2, <1>7, <2>2, LeavesStay DEF LeafOf
<1> QED BY <1>4, <1>6, <1>7
-----------------------------------------------------------------------------
(* What a call leaves of its summaries *)

Trees == [Tree!Nodes -> {0, 1}]

\* The trees on the way back: the leaf is set first, then each frame refreshes
\* its summary.
IsWayBack(after, t, path, bit) ==
    /\ after[0] = [t EXCEPT ![Tree!Leaf(path).node] = bit]
    /\ \A k \in Nat : k + 1 \in Tree!Depths =>
          after[k + 1] = Tree!Summarised[path[tree_max_id - 1 - (k + 1)]][after[k]]

\* The way back leads to the refreshed tree.
LEMMA RefreshedUnfolds ==
    ASSUME NEW t, NEW path, NEW bit
    PROVE  \E after : /\ Tree!Refreshed(t, path, bit) = after[tree_max_id - 1]
                      /\ IsWayBack(after, t, path, bit)
<1> DEFINE N == tree_max_id
           F(f) == [k \in Tree!Depths |->
                      IF k = 0 THEN [t EXCEPT ![Tree!Leaf(path).node] = bit]
                      ELSE Tree!Summarised[path[N - 1 - k]][f[k - 1]]]
           after == CHOOSE f : f = F(f)
<1>1. \E f : f = F(f)
  <2> DEFINE g == [k \in 0 .. N - 1 |-> Tree!Summarised[path[N - 1 - k]]]
             x == [t EXCEPT ![Tree!Leaf(path).node] = bit]
  <2>1. N - 1 \in Nat
    BY TreeConstants
  <2>2. \A k \in 0 .. N - 1 : g[k] = Tree!Summarised[path[N - 1 - k]]
    OBVIOUS
  <2> HIDE DEF g, x
  <2>3. PICK f : StepsBy(f, N - 1, x, g)
    BY <2>1, StepsExist
  <2>4. f = [i \in 0 .. N - 1 |-> IF i = 0 THEN x ELSE Tree!Summarised[path[N - 1 - i]][f[i - 1]]]
    BY <2>2, <2>3 DEF StepsBy
  <2> QED BY <2>4 DEF x, Tree!Depths
<1>2. Tree!Refreshed(t, path, bit) = after[N - 1]
  BY DEF Tree!Refreshed
<1> HIDE DEF F
<1>3. after = F(after)
  BY <1>1
<1> HIDE DEF after
<1>4. after = [k \in Tree!Depths |->
                 IF k = 0 THEN [t EXCEPT ![Tree!Leaf(path).node] = bit]
                 ELSE Tree!Summarised[path[N - 1 - k]][after[k - 1]]]
  BY <1>3 DEF F
<1>5. 0 \in Tree!Depths
  BY TreeConstants DEF Tree!Depths
<1>6. after[0] = [t EXCEPT ![Tree!Leaf(path).node] = bit]
  BY <1>4, <1>5
<1>7. ASSUME NEW k \in Nat, k + 1 \in Tree!Depths
      PROVE  after[k + 1] = Tree!Summarised[path[N - 1 - (k + 1)]][after[k]]
  <2>1. k + 1 # 0 /\ (k + 1) - 1 = k
    OBVIOUS
  <2> QED BY <1>4, <1>7, <2>1
<1>8. IsWayBack(after, t, path, bit)
  BY <1>6, <1>7 DEF IsWayBack
<1> QED BY <1>2, <1>8

\* The summary of a frame that is no leaf says whether those below it are full.
SaysWhatIsBelow(t, x) == t[x.node] = t[2 * x.node] * t[2 * x.node + 1]

SummariesFollow(t) == \A x \in InTree : ~Tree!IsLeaf(x) => SaysWhatIsBelow(t, x)

\* A change at one frame disturbs the summaries of it and of its parent.
LEMMA ChangesStayLocal ==
    ASSUME NEW t \in Trees, NEW y \in InTree, NEW bit \in {0, 1},
           NEW u, u = [t EXCEPT ![y.node] = bit]
    PROVE  /\ u \in Trees /\ u[y.node] = bit
           /\ \A x \in InTree : x # y => u[x.node] = t[x.node]
           /\ \A x \in InTree : /\ ~Tree!IsLeaf(x) /\ x # y /\ y \notin {Tree!Left(x), Tree!Right(x)}
                                /\ SaysWhatIsBelow(t, x)
                                => SaysWhatIsBelow(u, x)
<1>1. y.node \in Tree!Nodes
  BY FramesFit
<1>2. u \in Trees /\ u[y.node] = bit /\ \A i \in Tree!Nodes : i # y.node => u[i] = t[i]
  BY <1>1 DEF Trees
<1>3. \A x \in InTree : x # y => x.node \in Tree!Nodes /\ x.node # y.node
  BY FramesFit, NodesAreFrames
<1>4. ASSUME NEW x \in InTree, ~Tree!IsLeaf(x), x # y, y \notin {Tree!Left(x), Tree!Right(x)},
             SaysWhatIsBelow(t, x)
      PROVE  SaysWhatIsBelow(u, x)
  <2>1. Tree!Left(x) \in InTree /\ Tree!Right(x) \in InTree /\ x \in Tree!Frames
    BY <1>4, TreeCallsOwn DEF CallsOwn
  <2>2. Tree!Left(x).node = 2 * x.node /\ Tree!Right(x).node = 2 * x.node + 1
    BY <2>1, CallsAreFrames
  <2>3. /\ x.node \in Tree!Nodes /\ x.node # y.node
        /\ 2 * x.node \in Tree!Nodes /\ 2 * x.node # y.node
        /\ 2 * x.node + 1 \in Tree!Nodes /\ 2 * x.node + 1 # y.node
    BY <1>3, <1>4, <2>1, <2>2
  <2>4. u[x.node] = t[x.node] /\ u[2 * x.node] = t[2 * x.node] /\ u[2 * x.node + 1] = t[2 * x.node + 1]
    BY <1>2, <2>3
  <2> QED BY <1>4, <2>4 DEF SaysWhatIsBelow
<1> QED BY <1>2, <1>3, <1>4

\* What a frame does on the way back.
LEMMA SummarisedSays ==
    ASSUME NEW t \in Trees, NEW y \in InTree
    PROVE  /\ Tree!IsLeaf(y) => Tree!Summarised[y][t] = t
           /\ ~Tree!IsLeaf(y) =>
                 /\ t[2 * y.node] * t[2 * y.node + 1] \in {0, 1}
                 /\ Tree!Summarised[y][t] = [t EXCEPT ![y.node] = t[2 * y.node] * t[2 * y.node + 1]]
                 /\ SaysWhatIsBelow(Tree!Summarised[y][t], y)
<1>1. /\ y \in Tree!Frames /\ y.node \in Tree!Nodes /\ y.node \in Nat /\ y.node >= 1
      /\ ~Tree!IsLeaf(y) => 2 * y.node \in Tree!Nodes /\ 2 * y.node + 1 \in Tree!Nodes
  BY FramesFit, TreeCallsOwn, CallsAreFrames
<1>2. Tree!Summarised[y][t] =
        IF Tree!IsLeaf(y) THEN t ELSE [t EXCEPT ![y.node] = t[2 * y.node] * t[2 * y.node + 1]]
  BY <1>1 DEF Tree!Summarised, Trees
<1>3. ASSUME ~Tree!IsLeaf(y)
      PROVE  /\ t[2 * y.node] * t[2 * y.node + 1] \in {0, 1}
             /\ SaysWhatIsBelow([t EXCEPT ![y.node] = t[2 * y.node] * t[2 * y.node + 1]], y)
  <2>1. t[2 * y.node] \in {0, 1} /\ t[2 * y.node + 1] \in {0, 1}
    BY <1>1, <1>3 DEF Trees
  <2>2. PICK b : b = t[2 * y.node] * t[2 * y.node + 1]
    OBVIOUS
  <2>3. b \in {0, 1}
    BY <2>1, <2>2
  <2>4. 2 * y.node # y.node /\ 2 * y.node + 1 # y.node
    BY <1>1
  <2>5. [t EXCEPT ![y.node] = b][y.node] = b
    BY <1>1 DEF Trees
  <2>6. /\ [t EXCEPT ![y.node] = b][2 * y.node] = t[2 * y.node]
        /\ [t EXCEPT ![y.node] = b][2 * y.node + 1] = t[2 * y.node + 1]
    BY <1>1, <1>3, <2>4 DEF Trees
  <2> QED BY <2>2, <2>3, <2>5, <2>6 DEF SaysWhatIsBelow
<1> QED BY <1>2, <1>3

\* After a descent and the way back every summary follows again, and of the
\* leaves only the one at its end has changed.
LEMMA RefreshedFollows ==
    ASSUME NEW t \in Trees, SummariesFollow(t), NEW path, IsDescent(path), NEW bit \in {0, 1}
    PROVE  /\ Tree!Refreshed(t, path, bit) \in Trees
           /\ SummariesFollow(Tree!Refreshed(t, path, bit))
           /\ \A x \in InTree : Tree!IsLeaf(x) =>
                 Tree!Refreshed(t, path, bit)[x.node] = IF x = Tree!Leaf(path) THEN bit ELSE t[x.node]
<1> DEFINE N == tree_max_id
           leaf == Tree!Leaf(path)
           LeavesKept(u) == \A x \in InTree : Tree!IsLeaf(x) => u[x.node] = IF x = leaf THEN bit ELSE t[x.node]
           Done(u, j) == \A x \in InTree :
                            /\ ~Tree!IsLeaf(x)
                            /\ \A m \in Tree!Depths : path[m] = x => ~(m < N - 1 - j)
                            => SaysWhatIsBelow(u, x)
<1>1. /\ N \in Nat /\ N >= 1 /\ Tree!Depths = 0 .. N - 1
      /\ leaf \in InTree /\ Tree!IsLeaf(leaf) /\ leaf = path[N - 1]
  BY TreeConstants, DescentsEnd DEF Tree!Depths, Tree!Leaf
<1>2. PICK after : /\ Tree!Refreshed(t, path, bit) = after[tree_max_id - 1]
                   /\ IsWayBack(after, t, path, bit)
  BY RefreshedUnfolds
<1> HIDE DEF leaf
<1> DEFINE S == {j \in Tree!Depths : after[j] \in Trees /\ LeavesKept(after[j]) /\ Done(after[j], j)}
<1>3. 0 \in S
  <2>0. after[0] = [t EXCEPT ![leaf.node] = bit]
    BY <1>2 DEF leaf, IsWayBack
  <2>1. after[0] \in Trees /\ LeavesKept(after[0])
    <3>1. leaf \in InTree
      BY <1>1
    <3> HIDE DEF LeavesKept, Done
    <3>2. after[0] \in Trees /\ after[0][leaf.node] = bit
      BY <2>0, <3>1, ChangesStayLocal
    <3>3. \A x \in InTree : x # leaf => after[0][x.node] = t[x.node]
      BY <2>0, <3>1, ChangesStayLocal
    <3> QED BY <3>2, <3>3 DEF LeavesKept
  <2>2. ASSUME NEW x \in InTree, ~Tree!IsLeaf(x),
               \A m \in Tree!Depths : path[m] = x => ~(m < N - 1 - 0)
        PROVE  SaysWhatIsBelow(after[0], x)
    <3>1. N - 1 \in Tree!Depths /\ N - 1 - 0 = N - 1
      BY <1>1
    <3>2. leaf \notin {Tree!Left(x), Tree!Right(x)}
      BY <1>1, <2>2, <3>1, ParentsAreOnTheWay
    <3>3. x # leaf /\ SaysWhatIsBelow(t, x)
      BY <1>1, <2>2 DEF SummariesFollow
    <3> QED BY <1>1, <2>0, <2>2, <3>2, <3>3, ChangesStayLocal
  <2> QED BY <1>1, <2>1, <2>2
<1>4. ASSUME NEW j \in Nat, j \in S, j + 1 \in Tree!Depths PROVE j + 1 \in S
  <2> DEFINE y == path[N - 1 - (j + 1)]
             n == N - 1 - (j + 1)
  <2>0. after[j] \in Trees /\ LeavesKept(after[j]) /\ Done(after[j], j)
    BY <1>4
  <2> HIDE DEF S, LeavesKept, Done
  <2>1. n \in Tree!Depths /\ n \in Nat /\ N - 1 - j = n + 1
    <3>1. PICK M \in Nat : M = N
      BY <1>1
    <3>2. j + 1 <= M - 1 /\ Tree!Depths = 0 .. M - 1
      BY <1>1, <1>4, <3>1
    <3>3. M - 1 - (j + 1) \in 0 .. M - 1 /\ M - 1 - (j + 1) \in Nat /\ M - 1 - j = M - 1 - (j + 1) + 1
      BY <3>2
    <3> QED BY <3>1, <3>2, <3>3
  <2>2. y \in InTree /\ y = path[n]
    BY <2>1, DescentsGoDown
  <2>3. after[j + 1] = Tree!Summarised[y][after[j]]
    BY <1>2, <1>4 DEF IsWayBack
  <2>5. \A m \in Tree!Depths : m < n + 1 => m < n \/ m = n
    BY <1>1, <2>1
  <2> HIDE DEF y, n
  <2>6. CASE Tree!IsLeaf(y)
    <3>1. after[j + 1] = after[j]
      BY <2>2, <2>3, <2>0, <2>6, SummarisedSays
    <3>2. ASSUME NEW x \in InTree, ~Tree!IsLeaf(x), \A m \in Tree!Depths : path[m] = x => ~(m < n)
          PROVE  SaysWhatIsBelow(after[j], x)
      <4>1. path[n] # x
        BY <2>2, <2>6, <3>2
      <4>2. \A m \in Tree!Depths : path[m] = x => ~(m < n + 1)
        BY <2>5, <3>2, <4>1
      <4> QED BY <2>1, <2>0, <3>2, <4>2 DEF Done
    <3>3. Done(after[j + 1], j + 1)
      BY <3>1, <3>2 DEF n, Done
    <3> QED BY <1>4, <2>0, <3>1, <3>3 DEF S
  <2>7. CASE ~Tree!IsLeaf(y)
    <3>1. PICK b \in {0, 1} : after[j + 1] = [after[j] EXCEPT ![y.node] = b]
      <4>1. PICK b : b = after[j][2 * y.node] * after[j][2 * y.node + 1]
        OBVIOUS
      <4>2. b \in {0, 1} /\ Tree!Summarised[y][after[j]] = [after[j] EXCEPT ![y.node] = b]
        BY <2>2, <2>0, <2>7, <4>1, SummarisedSays
      <4> QED BY <2>3, <4>2
    <3>2. SaysWhatIsBelow(after[j + 1], y)
      BY <2>2, <2>3, <2>0, <2>7, SummarisedSays
    <3>3. after[j + 1] \in Trees
      BY <2>2, <2>0, <3>1, ChangesStayLocal
    <3>4. \A x \in InTree : x # y => after[j + 1][x.node] = after[j][x.node]
      BY <2>2, <2>0, <3>1, ChangesStayLocal
    <3>5. LeavesKept(after[j + 1])
      BY <2>0, <2>7, <3>4 DEF LeavesKept
    <3>6. ASSUME NEW x \in InTree, ~Tree!IsLeaf(x), \A m \in Tree!Depths : path[m] = x => ~(m < n)
          PROVE  SaysWhatIsBelow(after[j + 1], x)
      <4>1. CASE x = y
        BY <3>2, <4>1
      <4>2. CASE x # y
        <5>1. \A m \in Tree!Depths : path[m] = x => ~(m < n + 1)
          BY <2>2, <2>5, <3>6, <4>2
        <5>2. SaysWhatIsBelow(after[j], x)
          BY <2>1, <2>0, <3>6, <5>1 DEF Done
        <5>3. y \notin {Tree!Left(x), Tree!Right(x)}
          BY <2>1, <2>2, <3>6, ParentsAreOnTheWay
        <5> QED BY <2>2, <2>0, <3>1, <3>6, <4>2, <5>2, <5>3, ChangesStayLocal
      <4> QED BY <4>1, <4>2
    <3>7. Done(after[j + 1], j + 1)
      BY <3>6 DEF n, Done
    <3> QED BY <1>4, <3>3, <3>5, <3>7 DEF S
  <2> QED BY <2>6, <2>7
<1>5. N - 1 \in S
  <2>1. S \in SUBSET Tree!Depths
    OBVIOUS
  <2>2. N - 1 \in Tree!Depths
    BY <1>1
  <2> HIDE DEF S
  <2> QED BY <1>3, <1>4, <2>1, <2>2, DepthByDepth
<1>6. SummariesFollow(after[N - 1])
  <2>1. \A m \in Tree!Depths : ~(m < N - 1 - (N - 1))
    BY <1>1
  <2> QED BY <1>5, <2>1 DEF SummariesFollow
<1> QED BY <1>2, <1>5, <1>6 DEF leaf

\* In a tree whose summaries follow, a node is full when every id of its range
\* is in use.
LEMMA SummariesAreOfIds ==
    ASSUME NEW t \in Trees, SummariesFollow(t), NEW x \in InTree
    PROVE  t[x.node] = 1 <=> \A id \in x.lo .. x.hi : t[LeafOf(id).node] = 1
<1> DEFINE Exact(y) == t[y.node] = 1 <=> \A id \in y.lo .. y.hi : t[LeafOf(id).node] = 1
           Bad == {n \in Nat : \E y \in InTree : y.hi - y.lo = n /\ ~Exact(y)}
<1>1. \A y \in InTree : /\ y.lo \in Nat /\ y.hi \in Nat /\ y.hi - y.lo \in Nat /\ y.hi <= tree_max_id - 1
                        /\ y.lo <= y.hi /\ y.node \in Tree!Nodes
  BY TreeCallsOwn, CallsAreFrames, FramesFit
<1>2. Bad = {}
  <2> SUFFICES ASSUME Bad # {} PROVE FALSE
    OBVIOUS
  <2>1. PICK n \in Bad : \A m \in Bad : n <= m
    <3>1. Bad \in SUBSET Nat
      OBVIOUS
    <3> HIDE DEF Bad
    <3> QED BY <3>1, Least
  <2>2. PICK y \in InTree : y.hi - y.lo = n /\ ~Exact(y)
    BY <2>1
  <2>3. CASE Tree!IsLeaf(y)
    <3>1. PICK lo \in Nat : lo = y.lo /\ lo = y.hi /\ lo <= tree_max_id - 1
      BY <1>1, <2>3 DEF Tree!IsLeaf
    <3>2. lo \in Tree!Ids /\ lo .. lo = {lo}
      BY <3>1, TreeConstants DEF Tree!Ids
    <3>3. y = LeafOf(lo)
      BY <2>3, <3>1, <3>2, EveryIdHasItsLeaf
    <3> QED BY <2>2, <3>1, <3>2, <3>3
  <2>4. CASE ~Tree!IsLeaf(y)
    <3>1. /\ Tree!Left(y) \in InTree /\ Tree!Right(y) \in InTree /\ y \in Tree!Frames
          /\ SaysWhatIsBelow(t, y)
      BY <2>4, TreeCallsOwn DEF CallsOwn, SummariesFollow
    <3>2. PICK lo \in Nat, hi \in Nat, mid \in Nat : lo = y.lo /\ hi = y.hi /\ mid = Tree!Mid(y)
      BY <2>4, HalvesCover
    <3>3. lo <= mid /\ mid < hi /\ lo .. hi = (lo .. mid) \union (mid + 1 .. hi)
      BY <2>4, <3>2, HalvesCover
    <3>4. /\ Tree!Left(y).lo = lo /\ Tree!Left(y).hi = mid /\ Tree!Left(y).node = 2 * y.node
          /\ Tree!Right(y).lo = mid + 1 /\ Tree!Right(y).hi = hi /\ Tree!Right(y).node = 2 * y.node + 1
      BY <3>1, <3>2, CallsAreFrames
    <3>5. /\ mid - lo \in Nat /\ ~(n <= mid - lo)
          /\ hi - (mid + 1) \in Nat /\ ~(n <= hi - (mid + 1))
      BY <2>2, <3>2, <3>3
    <3> HIDE DEF Exact
    <3>6. Exact(Tree!Left(y))
      BY <2>1, <3>1, <3>4, <3>5
    <3>7. Exact(Tree!Right(y))
      BY <2>1, <3>1, <3>4, <3>5
    <3>8. /\ t[2 * y.node] = 1 <=> \A id \in lo .. mid : t[LeafOf(id).node] = 1
          /\ t[2 * y.node + 1] = 1 <=> \A id \in mid + 1 .. hi : t[LeafOf(id).node] = 1
      BY <3>4, <3>6, <3>7 DEF Exact
    <3>9. t[y.node] = 1 <=> t[2 * y.node] = 1 /\ t[2 * y.node + 1] = 1
      <4>1. t[2 * y.node] \in {0, 1} /\ t[2 * y.node + 1] \in {0, 1}
        BY <1>1, <3>1, <3>4 DEF Trees
      <4>2. PICK b \in {0, 1}, c \in {0, 1} : b = t[2 * y.node] /\ c = t[2 * y.node + 1]
        BY <4>1
      <4>3. b * c = 1 <=> b = 1 /\ c = 1
        BY <4>2
      <4> QED BY <3>1, <4>2, <4>3 DEF SaysWhatIsBelow
    <3>10. \A id : id \in lo .. hi <=> id \in lo .. mid \/ id \in mid + 1 .. hi
      BY <3>3
    <3>11. Exact(y)
      BY <3>2, <3>8, <3>9, <3>10 DEF Exact
    <3> QED BY <2>2, <3>11
  <2> QED BY <2>3, <2>4
<1> QED BY <1>1, <1>2

\* The ids whose leaf a tree has set.
UsedIn(t) == {id \in Tree!Ids : t[LeafOf(id).node] = 1}

\* The claim ends at the lowest id that is not in use.
LEMMA ClaimEndsAtTheLowest ==
    ASSUME NEW t \in Trees, SummariesFollow(t), t[1] = 0
    PROVE  LET id == Tree!Leaf(Tree!ClaimPath(t)).lo IN
           /\ id \in Tree!Ids /\ Tree!Leaf(Tree!ClaimPath(t)) = LeafOf(id) /\ id \notin UsedIn(t)
           /\ \A i \in Tree!Ids : i \notin UsedIn(t) => id <= i
<1> DEFINE path == Tree!ClaimPath(t)
           leaf == Tree!Leaf(path)
           FullBelow(x) == \A i \in Tree!Ids : i < x.lo => t[LeafOf(i).node] = 1
           S == {k \in Tree!Depths : t[path[k].node] = 0 /\ FullBelow(path[k])}
<1>1. /\ Tree!Depths = 0 .. tree_max_id - 1 /\ tree_max_id \in Nat /\ tree_max_id >= 1
      /\ Tree!Ids = 0 .. tree_max_id - 1
  BY TreeConstants DEF Tree!Depths, Tree!Ids
<1>2. IsDescent(path)
  BY WaysAreDescents
<1>3. 0 \in S
  BY <1>1, <1>2, TreeCallsOwn DEF IsDescent
<1>4. ASSUME NEW j \in Nat, j \in S, j + 1 \in Tree!Depths PROVE j + 1 \in S
  <2>1. CASE Tree!IsLeaf(path[j])
    BY <1>2, <1>4, <2>1 DEF IsDescent
  <2>2. CASE ~Tree!IsLeaf(path[j])
    <3>1. PICK x \in InTree : x = path[j]
      BY <1>2, <1>4, DescentsGoDown
    <3>2. /\ x \in Tree!Frames /\ Tree!Left(x) \in InTree /\ Tree!Right(x) \in InTree
          /\ SaysWhatIsBelow(t, x) /\ t[x.node] = 0 /\ FullBelow(x)
      BY <1>4, <2>2, <3>1, TreeCallsOwn DEF CallsOwn, SummariesFollow
    <3>3. path[j + 1] = IF t[2 * x.node] = 0 THEN Tree!Left(x) ELSE Tree!Right(x)
      BY <1>4, <2>2, <3>1, WaysAreDescents
    <3> HIDE DEF path
    <3>4. /\ Tree!Left(x).node = 2 * x.node /\ Tree!Left(x).lo = x.lo /\ Tree!Left(x).hi = Tree!Mid(x)
          /\ Tree!Right(x).node = 2 * x.node + 1 /\ Tree!Right(x).lo = Tree!Mid(x) + 1
      BY <3>2, CallsAreFrames
    <3>5. CASE t[2 * x.node] = 0
      BY <1>4, <3>2, <3>3, <3>4, <3>5
    <3>6. CASE t[2 * x.node] # 0
      <4>1. t[2 * x.node] = 1 /\ t[2 * x.node + 1] \in {0, 1}
        BY <3>2, <3>4, <3>6, FramesFit DEF Trees
      <4>2. t[2 * x.node + 1] = 0
        <5>1. PICK b \in {0, 1} : b = t[2 * x.node + 1]
          BY <4>1
        <5>2. 1 * b = 0 => b = 0
          OBVIOUS
        <5> QED BY <3>2, <4>1, <5>1, <5>2 DEF SaysWhatIsBelow
      <4>3. \A i \in x.lo .. Tree!Mid(x) : t[LeafOf(i).node] = 1
        BY <3>2, <3>4, <4>1, SummariesAreOfIds
      <4>4. FullBelow(Tree!Right(x))
        <5>1. x.lo \in Nat /\ Tree!Mid(x) \in Nat
          BY <3>2, CallsAreFrames
        <5>2. ASSUME NEW i \in Tree!Ids, i < Tree!Mid(x) + 1 PROVE i < x.lo \/ i \in x.lo .. Tree!Mid(x)
          BY <1>1, <5>1, <5>2
        <5> QED BY <3>2, <3>4, <4>3, <5>2
      <4> QED BY <1>4, <3>3, <3>4, <3>6, <4>2, <4>4
    <3> QED BY <3>5, <3>6
  <2> QED BY <2>1, <2>2
<1>5. t[leaf.node] = 0 /\ FullBelow(leaf)
  <2>1. S \in SUBSET Tree!Depths
    OBVIOUS
  <2>2. tree_max_id - 1 \in Tree!Depths
    BY <1>1
  <2>3. tree_max_id - 1 \in S
    <3> HIDE DEF S
    <3> QED BY <1>3, <1>4, <2>1, <2>2, DepthByDepth
  <2> QED BY <2>3 DEF Tree!Leaf
<1>6. leaf \in InTree /\ Tree!IsLeaf(leaf)
  BY <1>2, DescentsEnd
<1> HIDE DEF leaf
<1>7. leaf.lo \in Tree!Ids
  <2>1. leaf.lo \in Nat /\ leaf.lo <= tree_max_id - 1
    BY <1>6, TreeCallsOwn, CallsAreFrames, FramesFit DEF Tree!IsLeaf
  <2> QED BY <1>1, <2>1
<1>8. leaf = LeafOf(leaf.lo)
  BY <1>6, <1>7, EveryIdHasItsLeaf
<1>9. \A i \in Tree!Ids : i \notin UsedIn(t) => leaf.lo <= i
  BY <1>1, <1>5, <1>7 DEF UsedIn
<1>10. leaf.lo \notin UsedIn(t)
  BY <1>5, <1>7, <1>8 DEF UsedIn
<1> QED BY <1>7, <1>8, <1>9, <1>10 DEF leaf, path

\* A descent to the leaf of an id puts it into use, or takes it out of use.
LEMMA OneIdChanges ==
    ASSUME NEW t \in Trees, SummariesFollow(t), NEW path, IsDescent(path), NEW id \in Tree!Ids,
           Tree!Leaf(path) = LeafOf(id)
    PROVE  /\ UsedIn(Tree!Refreshed(t, path, 1)) = UsedIn(t) \union {id}
           /\ UsedIn(Tree!Refreshed(t, path, 0)) = UsedIn(t) \ {id}
<1>1. \A i \in Tree!Ids : /\ LeafOf(i) \in InTree /\ Tree!IsLeaf(LeafOf(i))
                          /\ LeafOf(i) = LeafOf(id) <=> i = id
  BY EveryIdHasItsLeaf
<1>2. \A i \in Tree!Ids :
        Tree!Refreshed(t, path, 1)[LeafOf(i).node] = IF i = id THEN 1 ELSE t[LeafOf(i).node]
  BY <1>1, RefreshedFollows
<1>3. \A i \in Tree!Ids :
        Tree!Refreshed(t, path, 0)[LeafOf(i).node] = IF i = id THEN 0 ELSE t[LeafOf(i).node]
  BY <1>1, RefreshedFollows
<1> QED BY <1>2, <1>3 DEF UsedIn

\* Exact summaries of the frames on the descents to ids.
ExactIn(t) ==
    \A id \in Tree!Ids : \A k \in Tree!Depths :
        t[Tree!FreePath(id)[k].node] = 1 <=>
            Tree!FreePath(id)[k].lo .. Tree!FreePath(id)[k].hi \subseteq UsedIn(t)

\* Where the summaries follow they are exact.
LEMMA FollowingIsExact ==
    ASSUME NEW t \in Trees, SummariesFollow(t)
    PROVE  ExactIn(t) /\ (t[1] = 1 <=> UsedIn(t) = Tree!Ids)
<1>1. ASSUME NEW x \in InTree PROVE t[x.node] = 1 <=> x.lo .. x.hi \subseteq UsedIn(t)
  <2>1. x.lo \in Nat /\ x.hi \in Nat /\ x.hi <= tree_max_id - 1
    BY TreeCallsOwn, CallsAreFrames, FramesFit
  <2>2. \A i \in x.lo .. x.hi : i \in Tree!Ids
    BY <2>1, TreeConstants DEF Tree!Ids
  <2>3. t[x.node] = 1 <=> \A i \in x.lo .. x.hi : t[LeafOf(i).node] = 1
    BY SummariesAreOfIds
  <2> QED BY <2>2, <2>3 DEF UsedIn
<1>2. \A id \in Tree!Ids : \A k \in Tree!Depths : Tree!FreePath(id)[k] \in InTree
  BY WaysAreDescents, DescentsGoDown
<1>3. t[1] = 1 <=> Tree!Ids \subseteq UsedIn(t)
  <2>1. Tree!Root \in InTree /\ Tree!Root.lo .. Tree!Root.hi = Tree!Ids
    BY TreeCallsOwn DEF CallsOwn, Tree!Ids
  <2> QED BY <1>1, <2>1, TreeCallsOwn
<1> QED BY <1>1, <1>2, <1>3 DEF ExactIn, UsedIn

\* The inductive invariant of the tree.
TreeInv ==
    /\ tree \in Trees /\ SummariesFollow(tree)
    /\ tree_answer \in Tree!Ids \union {Tree!None}

\* What the properties say in these words.
LEMMA TreeInWords ==
    /\ Tree!InUse = UsedIn(tree) /\ Tree!InUse' = UsedIn(tree')
    /\ Tree!SummariesAreExact <=> ExactIn(tree)
    /\ Tree!SummariesAreExact' <=> ExactIn(tree')
    /\ TreeInv' <=> /\ tree' \in Trees /\ SummariesFollow(tree')
                    /\ tree_answer' \in Tree!Ids \union {Tree!None}
<1>1. Tree!InUse = UsedIn(tree) /\ Tree!InUse' = UsedIn(tree')
  BY DEF Tree!InUse, UsedIn, LeafOf
<1>2. /\ Tree!SummariesAreExact <=> ExactIn(tree)
      /\ Tree!SummariesAreExact' <=> ExactIn(tree')
  BY <1>1 DEF Tree!SummariesAreExact, ExactIn
<1>3. TreeInv' <=> /\ tree' \in Trees /\ SummariesFollow(tree')
                   /\ tree_answer' \in Tree!Ids \union {Tree!None}
  BY DEF TreeInv, Trees, SummariesFollow
<1> QED BY <1>1, <1>2, <1>3

\* The tree begins with no id in use.
LEMMA TreeBegins ==
    ASSUME Tree!Init
    PROVE  TreeInv /\ Tree!Promise!Init
<1>1. tree = [i \in Tree!Nodes |-> 0] /\ tree_answer = Tree!None
  BY DEF Tree!Init
<1>2. tree \in Trees
  BY <1>1 DEF Trees
<1>3. SummariesFollow(tree)
  <2>1. ASSUME NEW x \in InTree, ~Tree!IsLeaf(x) PROVE SaysWhatIsBelow(tree, x)
    <3>1. tree[x.node] = 0 /\ tree[2 * x.node] = 0 /\ tree[2 * x.node + 1] = 0
      BY <1>1, <2>1, FramesFit
    <3> QED BY <3>1 DEF SaysWhatIsBelow
  <2> QED BY <2>1 DEF SummariesFollow
<1>4. UsedIn(tree) = {}
  <2>1. ASSUME NEW id \in Tree!Ids PROVE tree[LeafOf(id).node] = 0
    BY <1>1, EveryIdHasItsLeaf, FramesFit
  <2> QED BY <2>1 DEF UsedIn
<1> QED BY <1>1, <1>2, <1>3, <1>4, TreeInWords DEF TreeInv, Tree!Promise!Init, Tree!None, Tree!Promise!None

\* A step of the tree is one that the ids promise, and leaves the summaries
\* exact; the id that it puts into use is the lowest that was free.
LEMMA TreeStepKeeps ==
    ASSUME TreeInv, [Tree!Next]_(Tree!vars)
    PROVE  /\ TreeInv' /\ [Tree!Promise!Next]_(Tree!Promise!vars)
           /\ [tree' # tree => Tree!SummariesAreExact' /\ Tree!LowestFirst]_(Tree!vars)
<1>1. CASE Tree!Allocate
  <2> DEFINE path == Tree!ClaimPath(tree)
             id == Tree!Leaf(path).lo
  <2>1. tree[1] = 0 /\ tree' = Tree!Refreshed(tree, path, 1) /\ tree_answer' = id
    BY <1>1 DEF Tree!Allocate
  <2>2. /\ id \in Tree!Ids /\ Tree!Leaf(path) = LeafOf(id) /\ id \notin UsedIn(tree)
        /\ \A i \in Tree!Ids : i \notin UsedIn(tree) => id <= i
    BY <2>1, ClaimEndsAtTheLowest DEF TreeInv
  <2>3. IsDescent(path)
    BY WaysAreDescents
  <2> HIDE DEF path, id
  <2>4. tree' \in Trees /\ SummariesFollow(tree')
    BY <2>1, <2>3, RefreshedFollows DEF TreeInv
  <2>5. UsedIn(tree') = UsedIn(tree) \union {id}
    BY <2>1, <2>2, <2>3, OneIdChanges DEF TreeInv
  <2>6. TreeInv'
    BY <2>1, <2>2, <2>4, TreeInWords
  <2>7. Tree!Promise!Allocate(id)
    BY <2>1, <2>2, <2>5, TreeInWords DEF Tree!Promise!Allocate, Tree!Promise!Ids, Tree!Ids
  <2>8. Tree!SummariesAreExact'
    BY <2>4, FollowingIsExact, TreeInWords
  <2>9. Tree!LowestFirst
    BY <2>2, <2>5, TreeInWords DEF Tree!LowestFirst
  <2> QED BY <2>2, <2>6, <2>7, <2>8, <2>9 DEF Tree!Promise!Next, Tree!Promise!Ids, Tree!Ids
<1>2. CASE Tree!Exhausted
  <2>1. tree[1] = 1 /\ tree_answer' = Tree!None /\ tree' = tree
    BY <1>2 DEF Tree!Exhausted
  <2>2. UsedIn(tree) = Tree!Ids
    BY <2>1, FollowingIsExact DEF TreeInv
  <2>3. TreeInv'
    BY <2>1, TreeInWords DEF TreeInv
  <2>4. Tree!InUse = Tree!Ids /\ Tree!InUse' = Tree!InUse
    BY <2>1, <2>2, TreeInWords
  <2>5. Tree!Promise!Exhausted
    BY <2>1, <2>4 DEF Tree!Promise!Exhausted, Tree!Promise!Ids, Tree!Ids, Tree!Promise!None, Tree!None
  <2> QED BY <2>1, <2>3, <2>5 DEF Tree!Promise!Next
<1>3. ASSUME NEW id \in Tree!Ids, Tree!Release(id)
      PROVE  /\ TreeInv' /\ [Tree!Promise!Next]_(Tree!Promise!vars)
             /\ [tree' # tree => Tree!SummariesAreExact' /\ Tree!LowestFirst]_(Tree!vars)
  <2> DEFINE path == Tree!FreePath(id)
  <2>1. tree' = Tree!Refreshed(tree, path, 0) /\ tree_answer' = tree_answer
    BY <1>3 DEF Tree!Release
  <2>2. IsDescent(path) /\ Tree!Leaf(path) = LeafOf(id)
    BY WaysAreDescents DEF LeafOf
  <2> HIDE DEF path
  <2>3. tree' \in Trees /\ SummariesFollow(tree')
    BY <2>1, <2>2, RefreshedFollows DEF TreeInv
  <2>4. UsedIn(tree') = UsedIn(tree) \ {id}
    BY <2>1, <2>2, OneIdChanges DEF TreeInv
  <2>5. TreeInv'
    BY <2>1, <2>3, TreeInWords DEF TreeInv
  <2>6. Tree!Promise!Release(id)
    BY <2>1, <2>4, TreeInWords DEF Tree!Promise!Release
  <2>7. Tree!SummariesAreExact'
    BY <2>3, FollowingIsExact, TreeInWords
  <2>8. Tree!LowestFirst
    BY <2>4, TreeInWords DEF Tree!LowestFirst
  <2> QED BY <2>5, <2>6, <2>7, <2>8 DEF Tree!Promise!Next, Tree!Promise!Ids, Tree!Ids
<1>4. CASE UNCHANGED Tree!vars
  <2>1. tree' = tree /\ tree_answer' = tree_answer
    BY <1>4 DEF Tree!vars
  <2>2. TreeInv'
    BY <2>1, TreeInWords DEF TreeInv
  <2>3. UNCHANGED Tree!Promise!vars
    BY <2>1, TreeInWords DEF Tree!Promise!vars
  <2> QED BY <2>1, <2>2, <2>3
<1> QED BY <1>1, <1>2, <1>3, <1>4 DEF Tree!Next

\* The invariant types the tree.
LEMMA TreeInvTypes == TreeInv => Tree!TypeOK
BY DEF TreeInv, Tree!TypeOK, Trees

\* The tree's part of the program.
LEMMA TreeTakesSteps ==
    /\ StoresInit => Tree!Init
    /\ [StoresNext]_all => [Tree!Next]_(Tree!vars)
<1>1. Tree!vars = tree_vars /\ Tree!vars' = tree_vars'
  BY DEF Tree!vars, tree_vars
<1>2. UNCHANGED all => UNCHANGED tree_vars
  BY DEF all
<1>3. StoresNext => [Tree!Next]_tree_vars
  BY DEF StoresNext, OthersRest, CoWStep, GCStep, FreelistStep, BitmapStep, TreeStep,
     ShardsStep, TransactionalStep, ExpiringStep, HeapStep, DequeStep, RingsStep, LRUStep,
     LedgerStep, PermissionsStep
<1> QED BY <1>1, <1>2, <1>3 DEF StoresInit

\* The segment tree hands no id out twice, and None only when all are in use:
\* every summary is exact, and the smallest free id comes first, for any number
\* of ids.
THEOREM TreeIsSoundAlways == StoresSpec => TreeIsSound
<1>1. StoresInit => TreeInv /\ Tree!Promise!Init
  BY TreeTakesSteps, TreeBegins
<1>2. TreeInv /\ [StoresNext]_all =>
        /\ TreeInv' /\ [Tree!Promise!Next]_(Tree!Promise!vars)
        /\ [tree' # tree => Tree!SummariesAreExact' /\ Tree!LowestFirst]_(Tree!vars)
  BY TreeTakesSteps, TreeStepKeeps
<1>3. TreeInv => Tree!TypeOK
  BY TreeInvTypes
<1> QED BY <1>1, <1>2, <1>3, PTL
        DEF StoresSpec, TreeIsSound, Tree!ImplementsIdAllocator, Tree!Promise!Spec, Tree!StaysSound
==============================================================================
