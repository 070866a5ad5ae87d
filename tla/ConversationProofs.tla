------------------------- MODULE ConversationProofs -------------------------
(***************************************************************************)
(* Theorems about the conversation store on disk, for every set of keys,   *)
(* groups and scopes and every bound: its transactions are the steps of    *)
(* the in-memory store, the migration of an old file shows a reader        *)
(* nothing, and every query answers what the in-memory store answers, but  *)
(* for the times of the listings.                                          *)
(***************************************************************************)
EXTENDS ConversationSqlite, SequenceTheorems, FiniteSetTheorems, FunctionTheorems, TLAPS

---------------------------------------------------------------------------
(* Sets of numbers in order: what ORDER BY returns.                        *)

\* InOrder is a function.
LEMMA InOrderIsFunction ==
  ASSUME NEW S
  PROVE  /\ DOMAIN InOrder(S) = 1 .. Cardinality(S)
         /\ InOrder(S) = [n \in 1 .. Cardinality(S) |-> InOrder(S)[n]]
<1> DEFINE F(n) == CHOOSE x \in S : Cardinality({y \in S : y < x}) = n - 1
           N == Cardinality(S)  f == InOrder(S)
<1>1. f = [n \in 1 .. N |-> F(n)]
  BY Zenon DEF InOrder
<1> HIDE DEF F, f, N
<1>2. DOMAIN f = 1 .. N /\ f = [n \in 1 .. N |-> f[n]]
  BY <1>1
<1> QED BY <1>2 DEF f, N

\* How many come before x.
Rank(S, x) == Cardinality({y \in S : y < x})

\* A one-to-one correspondence with a finite set counts it.
LEMMA SameSize ==
  ASSUME NEW S, IsFiniteSet(S), NEW T, NEW f \in [S -> T],
         \A x, y \in S : f[x] = f[y] => x = y, \A t \in T : \E x \in S : f[x] = t
  PROVE  IsFiniteSet(T) /\ Cardinality(T) = Cardinality(S)
<1>1. f \in Bijection(S, T)
  BY Fun_IsBij
<1> QED BY <1>1, FS_Bijection DEF ExistsBijection

\* Ranks grow with the numbers and stay below the size of the set.
LEMMA RankIncreases ==
  ASSUME NEW S \in SUBSET Int, IsFiniteSet(S), NEW x \in S
  PROVE  /\ Rank(S, x) \in 0 .. Cardinality(S) - 1
         /\ \A y \in S : x < y => Rank(S, x) < Rank(S, y)
<1>1. \A z \in Int : /\ {y \in S : y < z} \in SUBSET S /\ IsFiniteSet({y \in S : y < z})
                     /\ Cardinality({y \in S : y < z}) \in Nat
  BY FS_Subset, FS_CardinalityType
<1>2. Rank(S, x) \in Nat /\ Rank(S, x) < Cardinality(S) /\ Cardinality(S) \in Nat
  <2>1. {y \in S : y < x} # S
    OBVIOUS
  <2>2. Cardinality(S) \in Nat /\ x \in Int
    BY FS_CardinalityType
  <2>3. Cardinality({y \in S : y < x}) <= Cardinality(S) /\ Cardinality({y \in S : y < x}) # Cardinality(S)
    BY <1>1, <2>1, FS_Subset
  <2> QED BY <1>1, <2>2, <2>3 DEF Rank
<1>3. ASSUME NEW y \in S, x < y  PROVE Rank(S, x) < Rank(S, y)
  <2> DEFINE X == {z \in S : z < x}  Y == {z \in S : z < y}
  <2>1. X \in SUBSET Y /\ x \in Y /\ x \notin X
    <3>1. x \in Int /\ y \in Int /\ \A z \in S : z \in Int
      OBVIOUS
    <3>2. \A z \in Int : z < x => z < y
      BY <1>3, <3>1
    <3>3. \A z \in X : z \in Y
      BY <3>1, <3>2
    <3>4. x \in Y /\ x \notin X
      BY <1>3, <3>1
    <3> QED BY <3>3, <3>4
  <2>2. IsFiniteSet(Y) /\ Cardinality(X) \in Nat /\ Cardinality(Y) \in Nat
    BY <1>1
  <2> HIDE DEF X, Y
  <2>3. Cardinality(X) <= Cardinality(Y) /\ Cardinality(X) # Cardinality(Y)
    BY <2>1, <2>2, FS_Subset
  <2> QED BY <2>2, <2>3 DEF Rank, X, Y
<1> QED BY <1>2, <1>3

\* No two numbers have the same rank.
LEMMA RanksDiffer ==
  ASSUME NEW S \in SUBSET Int, IsFiniteSet(S), NEW x \in S, NEW y \in S, Rank(S, x) = Rank(S, y)
  PROVE  x = y
<1>1. x \in Int /\ y \in Int /\ Rank(S, x) \in Int /\ Rank(S, y) \in Int
  BY RankIncreases
<1>2. ~(x < y) /\ ~(y < x)
  BY <1>1, RankIncreases
<1> QED BY <1>1, <1>2

\* InOrder lists the set, in the order of the ranks.
LEMMA InOrderLists ==
  ASSUME NEW S \in SUBSET Int, IsFiniteSet(S)
  PROVE  /\ Cardinality(S) \in Nat /\ InOrder(S) \in [1 .. Cardinality(S) -> S]
         /\ \A n \in 1 .. Cardinality(S) : Rank(S, InOrder(S)[n]) = n - 1
         /\ \A x \in S : Rank(S, x) + 1 \in 1 .. Cardinality(S) /\ InOrder(S)[Rank(S, x) + 1] = x
<1> DEFINE N == Cardinality(S)  D == 0 .. N - 1  r == [x \in S |-> Rank(S, x)]
<1>1. N \in Nat
  BY FS_CardinalityType
<1>2. r \in [S -> D]
  BY RankIncreases
<1>3. \A x, y \in S : r[x] = r[y] => x = y
  BY RanksDiffer
<1>4. r \in Injection(S, D)
  BY <1>2, <1>3, Fun_IsInj
<1>5. IsFiniteSet(D) /\ Cardinality(D) = N
  BY <1>1, FS_Interval, SMTT(40)
<1>6. r \in Surjection(S, D)
  BY <1>4, <1>5, FS_Injection
<1>7. \A d \in D : \E x \in S : r[x] = d
  <2> HIDE DEF r, D
  <2> QED BY <1>6, Fun_SurjectionProperties
<1>8. ASSUME NEW n \in 1 .. N
      PROVE  InOrder(S)[n] \in S /\ Rank(S, InOrder(S)[n]) = n - 1
  <2>1. n - 1 \in D
    BY <1>1
  <2>2. \E x \in S : Rank(S, x) = n - 1
    BY <1>7, <2>1
  <2>3. InOrder(S)[n] = CHOOSE x \in S : Rank(S, x) = n - 1
    BY DEF InOrder, Rank
  <2> QED BY <2>2, <2>3
<1>9. InOrder(S) \in [1 .. N -> S]
  <2>1. InOrder(S) = [n \in 1 .. N |-> InOrder(S)[n]]
    BY InOrderIsFunction
  <2> QED BY <1>8, <2>1
<1>10. ASSUME NEW x \in S
       PROVE  Rank(S, x) + 1 \in 1 .. N /\ InOrder(S)[Rank(S, x) + 1] = x
  <2>1. Rank(S, x) + 1 \in 1 .. N /\ Rank(S, x) \in Int /\ (Rank(S, x) + 1) - 1 = Rank(S, x)
    BY <1>1, RankIncreases
  <2>2. InOrder(S)[Rank(S, x) + 1] \in S /\ Rank(S, InOrder(S)[Rank(S, x) + 1]) = Rank(S, x)
    BY <1>8, <2>1
  <2> DEFINE z == InOrder(S)[Rank(S, x) + 1]
  <2> HIDE DEF z
  <2>3. z = x
    <3>1. z \in S /\ Rank(S, z) = Rank(S, x)
      BY <2>2 DEF z
    <3> QED BY <3>1, RanksDiffer
  <2> QED BY <2>1, <2>3 DEF z
<1> QED BY <1>1, <1>8, <1>9, <1>10

\* A list that gives each element its rank is the one InOrder makes.
LEMMA InOrderIs ==
  ASSUME NEW S \in SUBSET Int, IsFiniteSet(S), NEW n \in 1 .. Cardinality(S),
         NEW x \in S, Rank(S, x) = n - 1
  PROVE  InOrder(S)[n] = x
<1>1. Rank(S, x) + 1 = n
  BY InOrderLists
<1> QED BY <1>1, InOrderLists

\* The order of the list is the order of the numbers.
LEMMA InOrderIncreases ==
  ASSUME NEW S \in SUBSET Int, IsFiniteSet(S),
         NEW m \in 1 .. Cardinality(S), NEW n \in 1 .. Cardinality(S)
  PROVE  m < n <=> InOrder(S)[m] < InOrder(S)[n]
<1> DEFINE f == InOrder(S)
<1>1. /\ Cardinality(S) \in Nat /\ f[m] \in S /\ f[n] \in S /\ f[m] \in Int /\ f[n] \in Int
      /\ Rank(S, f[m]) = m - 1 /\ Rank(S, f[n]) = n - 1 /\ m \in Int /\ n \in Int
  <2>1. /\ Cardinality(S) \in Nat /\ f[m] \in S /\ f[n] \in S
        /\ Rank(S, f[m]) = m - 1 /\ Rank(S, f[n]) = n - 1
    BY InOrderLists
  <2>2. m \in Int /\ n \in Int
    BY <2>1
  <2> HIDE DEF f
  <2>3. f[m] \in Int /\ f[n] \in Int
    BY <2>1
  <2> QED BY <2>1, <2>2, <2>3
<1>2. f[m] < f[n] => m - 1 < n - 1
  BY <1>1, RankIncreases
<1>3. f[n] < f[m] => n - 1 < m - 1
  BY <1>1, RankIncreases
<1> HIDE DEF f
<1>4. f[m] = f[n] => m = n
  BY <1>1
<1> QED BY <1>1, <1>2, <1>3, <1>4 DEF f

\* The last of the list is the largest.
LEMMA LargestIsLast ==
  ASSUME NEW S \in SUBSET Int, IsFiniteSet(S), S # {}
  PROVE  /\ Cardinality(S) \in Nat \ {0} /\ \A none : MaxOf(S, none) = InOrder(S)[Cardinality(S)]
         /\ \A none : MaxOf(S, none) \in S /\ \A x \in S : x <= MaxOf(S, none)
<1> DEFINE N == Cardinality(S)  f == InOrder(S)
<1>1. N \in Nat \ {0}
  BY FS_EmptySet, FS_CardinalityType
<1>2. N \in 1 .. N /\ f[N] \in S
  BY <1>1, InOrderLists
<1>3. ASSUME NEW x \in S  PROVE x <= f[N]
  <2>1. PICK n \in 1 .. N : f[n] = x
    BY InOrderLists
  <2>2. CASE n = N
    <3>1. x = f[N] /\ x \in Int
      BY <2>1, <2>2
    <3> QED BY <3>1
  <2>3. CASE n < N
    <3>1. f[n] < f[N]
      BY <1>2, <2>3, InOrderIncreases
    <3>2. x \in Int /\ f[N] \in Int
      BY <1>2
    <3> HIDE DEF f
    <3> QED BY <2>1, <3>1, <3>2
  <2> QED BY <1>1, <2>2, <2>3
<1>4. ASSUME NEW none  PROVE MaxOf(S, none) = f[N]
  <2>1. MaxOf(S, none) = CHOOSE x \in S : \A y \in S : y <= x
    BY DEF MaxOf
  <2> HIDE DEF f, N
  <2>2. \A x \in S : (\A y \in S : y <= x) => x = f[N]
    <3>1. \A x \in S : x \in Int
      OBVIOUS
    <3>2. ASSUME NEW x \in S, \A y \in S : y <= x  PROVE x = f[N]
      <4>1. f[N] <= x /\ x <= f[N] /\ x \in Int /\ f[N] \in Int
        BY <1>2, <1>3, <3>1, <3>2
      <4> QED BY <4>1
    <3> QED BY <3>2
  <2> QED BY <1>2, <1>3, <2>1, <2>2
<1> QED BY <1>1, <1>2, <1>3, <1>4

\* f carries A onto B without changing the order.
Carries(f, A, B) ==
  /\ A \in SUBSET Int /\ IsFiniteSet(A) /\ B \in SUBSET Int
  /\ f \in [A -> B] /\ \A x, y \in A : x < y => f[x] < f[y]
  /\ \A b \in B : \E x \in A : f[x] = b

\* A set carried onto another keeps the ranks.
LEMMA RanksCarry ==
  ASSUME NEW A, NEW B, NEW f, Carries(f, A, B)
  PROVE  /\ IsFiniteSet(B) /\ Cardinality(B) = Cardinality(A)
         /\ \A n \in 1 .. Cardinality(A) : InOrder(B)[n] = f[InOrder(A)[n]]
<1>0. f \in [A -> B] /\ \A x \in A : x \in Int /\ f[x] \in B /\ f[x] \in Int
  BY DEF Carries
<1>3. A \in SUBSET Int /\ IsFiniteSet(A) /\ B \in SUBSET Int
  BY DEF Carries
<1>1. ASSUME NEW x \in A, NEW y \in A  PROVE x < y <=> f[x] < f[y]
  <2>1. x < y => f[x] < f[y]
    BY DEF Carries
  <2>2. y < x => f[y] < f[x]
    BY DEF Carries
  <2> QED BY <1>0, <2>1, <2>2
<1>2. \A x, y \in A : f[x] = f[y] => x = y
  BY <1>0, <1>1
<1>4. IsFiniteSet(B) /\ Cardinality(B) = Cardinality(A)
  BY <1>0, <1>2, <1>3, SameSize DEF Carries
<1>5. ASSUME NEW x \in A  PROVE Rank(B, f[x]) = Rank(A, x)
  <2> DEFINE X == {y \in A : y < x}  Y == {y \in B : y < f[x]}  g == [y \in X |-> f[y]]
  <2>1. IsFiniteSet(X)
    BY <1>3, FS_Subset
  <2>2. g \in [X -> Y]
    BY <1>0, <1>1
  <2>3. \A y, z \in X : g[y] = g[z] => y = z
    BY <1>2
  <2>4. ASSUME NEW b \in Y PROVE \E y \in X : g[y] = b
    <3>1. PICK y \in A : f[y] = b
      BY DEF Carries
    <3>2. y \in X
      BY <1>1, <3>1
    <3> QED BY <3>1, <3>2
  <2> HIDE DEF g, X, Y
  <2>6. Cardinality(Y) = Cardinality(X)
    BY <2>1, <2>2, <2>3, <2>4, SameSize
  <2> QED BY <2>6 DEF Rank, X, Y
<1>6. ASSUME NEW n \in 1 .. Cardinality(A)  PROVE InOrder(B)[n] = f[InOrder(A)[n]]
  <2>1. InOrder(A)[n] \in A /\ Rank(A, InOrder(A)[n]) = n - 1
    BY <1>3, InOrderLists
  <2>2. f[InOrder(A)[n]] \in B /\ Rank(B, f[InOrder(A)[n]]) = n - 1 /\ n \in 1 .. Cardinality(B)
    BY <1>0, <1>4, <1>5, <2>1
  <2> DEFINE b == f[InOrder(A)[n]]
  <2> HIDE DEF b
  <2>3. b \in B /\ Rank(B, b) = n - 1
    BY <2>2 DEF b
  <2>4. InOrder(B)[n] = b
    BY <1>3, <1>4, <2>2, <2>3, InOrderIs
  <2> QED BY <2>4 DEF b
<1> QED BY <1>4, <1>6

\* Zero to n - 1, in order.
LEMMA InOrderFromZero ==
  ASSUME NEW n \in Nat
  PROVE  InOrder(0 .. n - 1) = [i \in 1 .. n |-> i - 1]
<1> DEFINE S == 0 .. n - 1
<1>1. IsFiniteSet(S) /\ Cardinality(S) = n /\ S \in SUBSET Int
  BY FS_Interval
<1>2. ASSUME NEW i \in 1 .. n  PROVE InOrder(S)[i] = i - 1
  <2>1. {y \in S : y < i - 1} = 0 .. (i - 1) - 1 /\ i - 1 \in S
    OBVIOUS
  <2>2. Cardinality(0 .. (i - 1) - 1) = i - 1
    BY FS_Interval
  <2>3. Rank(S, i - 1) = i - 1
    BY <2>1, <2>2 DEF Rank
  <2> HIDE DEF S
  <2> QED BY <1>1, <2>1, <2>3, InOrderIs
<1> HIDE DEF S
<1>3. InOrder(S) = [i \in 1 .. n |-> InOrder(S)[i]]
  BY <1>1, InOrderIsFunction
<1> QED BY <1>2, <1>3 DEF S

\* A number above all the others comes after them.
LEMMA InOrderAdds ==
  ASSUME NEW S \in SUBSET Int, IsFiniteSet(S), NEW m \in Int, \A x \in S : x < m
  PROVE  /\ IsFiniteSet(S \cup {m}) /\ Cardinality(S \cup {m}) = Cardinality(S) + 1
         /\ Cardinality(S) \in Nat
         /\ InOrder(S \cup {m})[Cardinality(S) + 1] = m
         /\ \A n \in 1 .. Cardinality(S) : InOrder(S \cup {m})[n] = InOrder(S)[n]
<1> DEFINE T == S \cup {m}  N == Cardinality(S)
<1>1. IsFiniteSet(T) /\ Cardinality(T) = N + 1 /\ N \in Nat /\ T \in SUBSET Int
  <2>1. m \notin S
    OBVIOUS
  <2> QED BY <2>1, FS_AddElement, FS_CardinalityType
<1>2. {y \in T : y < m} = S
  <2>1. ~(m < m)
    OBVIOUS
  <2> QED BY <2>1
<1>3. Rank(T, m) = (N + 1) - 1 /\ N + 1 \in 1 .. N + 1 /\ m \in T
  BY <1>1, <1>2 DEF Rank
<1>4. InOrder(T)[N + 1] = m
  <2> HIDE DEF T, N
  <2> QED BY <1>1, <1>3, InOrderIs
<1>5. ASSUME NEW n \in 1 .. N  PROVE InOrder(T)[n] = InOrder(S)[n]
  <2>1. InOrder(S)[n] \in S /\ Rank(S, InOrder(S)[n]) = n - 1
    BY InOrderLists
  <2> DEFINE x == InOrder(S)[n]
  <2> HIDE DEF x
  <2>2. {y \in T : y < x} = {y \in S : y < x}
    <3>1. x \in Int /\ x < m
      BY <2>1 DEF x
    <3>2. ~(m < x)
      BY <3>1
    <3> QED BY <3>2
  <2>3. x \in T /\ Rank(T, x) = n - 1 /\ n \in 1 .. Cardinality(T)
    BY <1>1, <2>1, <2>2 DEF Rank, x
  <2> HIDE DEF T, N
  <2>4. InOrder(T)[n] = x
    BY <1>1, <2>3, InOrderIs
  <2> QED BY <2>4 DEF x
<1> QED BY <1>1, <1>4, <1>5

---------------------------------------------------------------------------
(* The rows of a session, and what a read makes of them.                   *)

\* The turns stamped by time w.
Turns(w) == [role : STRING, at : 1 .. w]

\* The rows of a session, numbered from zero.
Histories(w) == UNION {[0 .. n - 1 -> Turns(w)] : n \in Nat}

\* A history has a length.
LEMMA HistoryIs ==
  ASSUME NEW w, NEW rows
  PROVE  rows \in Histories(w) <=> \E n \in Nat : rows \in [0 .. n - 1 -> Turns(w)]
BY DEF Histories

\* A session without turns is one.
LEMMA EmptyIsHistory ==
  ASSUME NEW w PROVE <<>> \in Histories(w)
<1>1. <<>> \in [0 .. 0 - 1 -> Turns(w)]
  OBVIOUS
<1> QED BY <1>1, HistoryIs

\* A history without keys is the empty one.
LEMMA NoRows ==
  ASSUME NEW w, NEW rows \in Histories(w)
  PROVE  rows = <<>> <=> DOMAIN rows = {}
<1>1. DOMAIN <<>> = {}
  OBVIOUS
<1>2. PICK n \in Nat : rows \in [0 .. n - 1 -> Turns(w)]
  BY HistoryIs
<1>3. ASSUME DOMAIN rows = {} PROVE rows = <<>>
  <2>1. rows = [x \in {} |-> rows[x]]
    BY <1>2, <1>3
  <2>2. <<>> = [x \in {} |-> <<>>[x]]
    OBVIOUS
  <2>3. [x \in {} |-> rows[x]] = [x \in {} |-> <<>>[x]]
    OBVIOUS
  <2> QED BY <2>1, <2>2, <2>3
<1> QED BY <1>1, <1>3

\* What a read makes of rows.
Loaded(rows) == [i \in DOMAIN InOrder(DOMAIN rows) |-> rows[InOrder(DOMAIN rows)[i]]]

\* Rows numbered from zero are read in their order.
LEMMA LoadedRows ==
  ASSUME NEW T, NEW n \in Nat, NEW rows \in [0 .. n - 1 -> T]
  PROVE  Loaded(rows) = [i \in 1 .. n |-> rows[i - 1]]
<1>1. DOMAIN rows = 0 .. n - 1
  OBVIOUS
<1>2. InOrder(DOMAIN rows) = [i \in 1 .. n |-> i - 1]
  BY <1>1, InOrderFromZero
<1> QED BY <1>2 DEF Loaded

\* What a read of n rows returns.
LEMMA LoadedIs ==
  ASSUME NEW w, NEW n \in Nat, NEW rows \in [0 .. n - 1 -> Turns(w)]
  PROVE  /\ Loaded(rows) = [i \in 1 .. n |-> rows[i - 1]]
         /\ Loaded(rows) \in Seq(Turns(w)) /\ Len(Loaded(rows)) = n
         /\ Cardinality(DOMAIN rows) = n /\ DOMAIN InOrder(DOMAIN rows) = 1 .. n
         /\ \A i \in 1 .. n : InOrder(DOMAIN rows)[i] = i - 1
<1>1. DOMAIN rows = 0 .. n - 1
  OBVIOUS
<1>2. InOrder(DOMAIN rows) = [i \in 1 .. n |-> i - 1]
  BY <1>1, InOrderFromZero
<1>3. Loaded(rows) = [i \in 1 .. n |-> rows[i - 1]]
  BY LoadedRows
<1>4. \A i \in 1 .. n : rows[i - 1] \in Turns(w)
  OBVIOUS
<1>5. Loaded(rows) \in [1 .. n -> Turns(w)]
  BY <1>3, <1>4
<1>6. Loaded(rows) \in Seq(Turns(w)) /\ Len(Loaded(rows)) = n
  BY <1>5
<1>7. Cardinality(0 .. n - 1) = n
  BY FS_Interval
<1> QED BY <1>1, <1>2, <1>3, <1>6, <1>7

\* The first n of all the m are the old rows, the others the group.
IsAppended(all, m, rows, n, g, v) ==
  /\ m = n + Len(g)
  /\ \A q \in 0 .. n - 1 : all[q] = rows[q]
  /\ \A q \in n .. m - 1 : all[q] = [role |-> g[q - n + 1], at |-> v]

\* The rows with those an append adds.
Joined(rows, added) ==
  [q \in DOMAIN rows \cup DOMAIN added |-> IF q \in DOMAIN added THEN added[q] ELSE rows[q]]

MayAppend(all, rows, n, g, w, v) ==
  /\ w \in Nat \ {0} /\ v \in 1 .. w /\ g \in Seq(STRING)
  /\ n \in Nat /\ rows \in [0 .. n - 1 -> Turns(w)] /\ all = Joined(rows, Rows(g, n, v))

\* The rows after an append: the old ones, then the group.
LEMMA AppendedRows ==
  ASSUME NEW w, NEW v, NEW g, NEW n, NEW rows, NEW all, MayAppend(all, rows, n, g, w, v)
  PROVE  \E m \in Nat : all \in [0 .. m - 1 -> Turns(w)] /\ IsAppended(all, m, rows, n, g, v)
<1>15. /\ w \in Nat \ {0} /\ v \in 1 .. w /\ g \in Seq(STRING)
       /\ n \in Nat /\ rows \in [0 .. n - 1 -> Turns(w)] /\ all = Joined(rows, Rows(g, n, v))
  BY DEF MayAppend
<1> DEFINE m == n + Len(g)  add == Rows(g, n, v)
<1> USE <1>15
<1>1. Len(g) \in Nat /\ m \in Nat
  OBVIOUS
<1>2. add = [q \in n .. m - 1 |-> [role |-> g[q - n + 1], at |-> v]]
  BY DEF Rows
<1>3. DOMAIN rows = 0 .. n - 1 /\ DOMAIN add = n .. m - 1
  BY <1>2
<1>4. DOMAIN rows \cup DOMAIN add = 0 .. m - 1
  BY <1>1, <1>3
<1>14. all = [q \in DOMAIN rows \cup DOMAIN add |-> IF q \in DOMAIN add THEN add[q] ELSE rows[q]]
  BY DEF Joined
<1>5. \A q \in n .. m - 1 : all[q] = [role |-> g[q - n + 1], at |-> v]
  BY <1>1, <1>2, <1>3, <1>14
<1>6. \A q \in 0 .. n - 1 : all[q] = rows[q]
  BY <1>1, <1>3, <1>14
<1>7. \A q \in n .. m - 1 : g[q - n + 1] \in STRING /\ q - n + 1 \in 1 .. Len(g)
  BY <1>1
<1>8. \A q \in n .. m - 1 : all[q] \in Turns(w)
  <2>1. \A r \in STRING : [role |-> r, at |-> v] \in Turns(w)
    BY DEF Turns
  <2> HIDE DEF m
  <2> SUFFICES ASSUME NEW q \in n .. m - 1 PROVE all[q] \in Turns(w)
    OBVIOUS
  <2> DEFINE r == g[q - n + 1]
  <2>2. r \in STRING /\ all[q] = [role |-> r, at |-> v]
    BY <1>5, <1>7
  <2> HIDE DEF r
  <2> QED BY <2>1, <2>2
<1>9. \A q \in 0 .. n - 1 : all[q] \in Turns(w)
  BY <1>6
<1>10. all = [q \in 0 .. m - 1 |-> all[q]]
  BY <1>4, <1>14
<1>11. \A q \in 0 .. m - 1 : q \in 0 .. n - 1 \/ q \in n .. m - 1
  BY <1>1
<1>12. all \in [0 .. m - 1 -> Turns(w)]
  BY <1>8, <1>9, <1>10, <1>11
<1>13. IsAppended(all, m, rows, n, g, v)
  BY <1>5, <1>6 DEF IsAppended
<1> HIDE DEF m
<1> QED BY <1>1, <1>12, <1>13

\* Two sequences one after the other, place by place.
LEMMA ConcatIs ==
  ASSUME NEW T, NEW s \in Seq(T), NEW t \in Seq(T)
  PROVE  s \o t = [i \in 1 .. Len(s) + Len(t) |-> IF i <= Len(s) THEN s[i] ELSE t[i - Len(s)]]
<1> DEFINE u == s \o t
<1>1. /\ u \in Seq(T) /\ Len(u) = Len(s) + Len(t)
      /\ \A i \in 1 .. Len(s) + Len(t) : u[i] = IF i <= Len(s) THEN s[i] ELSE t[i - Len(s)]
  BY ConcatProperties
<1> HIDE DEF u
<1>2. u = [i \in 1 .. Len(u) |-> u[i]]
  BY <1>1
<1>3. u = [i \in 1 .. Len(s) + Len(t) |-> IF i <= Len(s) THEN s[i] ELSE t[i - Len(s)]]
  BY <1>1, <1>2
<1> QED BY <1>3 DEF u

\* A group with its time.
LEMMA StampedIs ==
  ASSUME NEW w \in Nat, NEW v \in 1 .. w, NEW g \in Seq(STRING)
  PROVE  /\ StampedGroup(g, v) = [i \in 1 .. Len(g) |-> [role |-> g[i], at |-> v]]
         /\ StampedGroup(g, v) \in Seq(Turns(w)) /\ Len(StampedGroup(g, v)) = Len(g)
<1> DEFINE G == StampedGroup(g, v)
<1>1. G = [i \in 1 .. Len(g) |-> [role |-> g[i], at |-> v]]
  BY DEF StampedGroup
<1>2. \A i \in 1 .. Len(g) : [role |-> g[i], at |-> v] \in Turns(w)
  BY DEF Turns
<1>3. G \in [1 .. Len(g) -> Turns(w)] /\ Len(g) \in Nat
  BY <1>1, <1>2
<1> HIDE DEF G
<1>4. G \in Seq(Turns(w)) /\ Len(G) = Len(g)
  BY <1>3
<1> QED BY <1>1, <1>4 DEF G

\* What a read then finds.
Appending(all, m, rows, n, g, w, v) ==
  /\ w \in Nat /\ v \in 1 .. w /\ g \in Seq(STRING)
  /\ n \in Nat /\ rows \in [0 .. n - 1 -> Turns(w)]
  /\ m \in Nat /\ all \in [0 .. m - 1 -> Turns(w)]
  /\ IsAppended(all, m, rows, n, g, v)

LEMMA AppendedIsRead ==
  ASSUME NEW w, NEW v, NEW g, NEW n, NEW rows, NEW m, NEW all, Appending(all, m, rows, n, g, w, v)
  PROVE  /\ StampedGroup(g, v) \in Seq(Turns(w)) /\ Len(StampedGroup(g, v)) = Len(g)
         /\ Loaded(all) = Loaded(rows) \o StampedGroup(g, v)
<1> USE DEF Appending
<1> DEFINE G == StampedGroup(g, v)  H == Loaded(rows)
<1>1. Len(g) \in Nat /\ m = n + Len(g)
  BY DEF IsAppended
<1>13. G = [i \in 1 .. Len(g) |-> [role |-> g[i], at |-> v]]
  BY StampedIs
<1>14. G \in Seq(Turns(w)) /\ Len(G) = Len(g)
  BY StampedIs
<1>15. /\ H = [i \in 1 .. n |-> rows[i - 1]] /\ H \in Seq(Turns(w)) /\ Len(H) = n
  BY LoadedIs
<1>16. Loaded(all) = [i \in 1 .. m |-> all[i - 1]]
  BY LoadedIs
<1>17. H \o G = [i \in 1 .. m |-> IF i <= n THEN H[i] ELSE G[i - n]]
  <2> HIDE DEF G, H
  <2>1. H \in Seq(Turns(w)) /\ G \in Seq(Turns(w))
    BY <1>14, <1>15
  <2>2. H \o G = [i \in 1 .. Len(H) + Len(G) |-> IF i <= Len(H) THEN H[i] ELSE G[i - Len(H)]]
    BY <2>1, ConcatIs
  <2> QED BY <1>1, <1>14, <1>15, <2>2
<1>18. ASSUME NEW i \in 1 .. m  PROVE all[i - 1] = IF i <= n THEN H[i] ELSE G[i - n]
  <2>1. CASE i <= n
    <3>1. i - 1 \in 0 .. n - 1 /\ i \in 1 .. n
      BY <1>1, <2>1
    <3>2. all[i - 1] = rows[i - 1] /\ H[i] = rows[i - 1]
      BY <1>15, <3>1 DEF IsAppended
    <3> QED BY <2>1, <3>2
  <2>2. CASE ~(i <= n)
    <3>1. i - 1 \in n .. m - 1 /\ i - n \in 1 .. Len(g) /\ (i - 1) - n + 1 = i - n
      BY <1>1, <2>2
    <3>2. all[i - 1] = [role |-> g[i - n], at |-> v]
      BY <3>1 DEF IsAppended
    <3>3. G[i - n] = [role |-> g[i - n], at |-> v]
      BY <1>13, <3>1
    <3> QED BY <2>2, <3>2, <3>3
  <2> QED BY <2>1, <2>2
<1>19. Loaded(all) = H \o G
  <2> HIDE DEF G, H
  <2> QED BY <1>16, <1>17, <1>18
<1> QED BY <1>14, <1>19

---------------------------------------------------------------------------
(* The conversation that the tables of a key stand for.                    *)

\* The conversation that sessions S with rows R stand for.
Session(S, R, i) == [id |-> InOrder(S)[i], turns |-> Loaded(R[InOrder(S)[i]])]
Conv(S, R) == [i \in 1 .. Cardinality(S) |-> Session(S, R, i)]

Talks(w) == [id : SessionIds, turns : Seq(Turns(w))]

\* A read returns as many turns as there are rows.
LEMMA LoadedHistory ==
  ASSUME NEW w, NEW rows \in Histories(w)
  PROVE  /\ Loaded(rows) \in Seq(Turns(w)) /\ Len(Loaded(rows)) = Cardinality(DOMAIN rows)
         /\ Loaded(rows) = <<>> <=> rows = <<>>
<1>1. PICK n \in Nat : rows \in [0 .. n - 1 -> Turns(w)]
  BY HistoryIs
<1>2. Loaded(rows) \in Seq(Turns(w)) /\ Len(Loaded(rows)) = n /\ Cardinality(DOMAIN rows) = n
  BY <1>1, LoadedIs
<1>3. Loaded(rows) = <<>> <=> n = 0
  BY <1>2, EmptySeq
<1>4. DOMAIN rows = {} <=> n = 0
  BY <1>1
<1> QED BY <1>2, <1>3, <1>4, NoRows

\* The ids of a key are finitely many numbers.
LEMMA SessionSets ==
  ASSUME NEW S \in SUBSET SessionIds
  PROVE  /\ IsFiniteSet(S) /\ S \in SUBSET Int /\ Cardinality(S) \in Nat
         /\ InOrder(S) \in [1 .. Cardinality(S) -> S]
<1>1. SessionIds \in SUBSET Int /\ IsFiniteSet(SessionIds)
  BY FS_Interval, ConversationAssumption DEF SessionIds
<1>2. IsFiniteSet(S) /\ S \in SUBSET Int
  BY <1>1, FS_Subset
<1> QED BY <1>2, InOrderLists

\* The session at one place of the conversation.
LEMMA ConvAt ==
  ASSUME NEW w, NEW S \in SUBSET SessionIds, NEW R \in [SessionIds -> Histories(w)],
         NEW i \in 1 .. Cardinality(S)
  PROVE  /\ InOrder(S)[i] \in S
         /\ Conv(S, R)[i] = Session(S, R, i) /\ Conv(S, R)[i] \in Talks(w)
         /\ Conv(S, R)[i].id = InOrder(S)[i]
         /\ Conv(S, R)[i].turns = Loaded(R[InOrder(S)[i]])
<1>1. InOrder(S)[i] \in S /\ InOrder(S)[i] \in SessionIds /\ R[InOrder(S)[i]] \in Histories(w)
  BY SessionSets
<1>2. Loaded(R[InOrder(S)[i]]) \in Seq(Turns(w))
  BY <1>1, LoadedHistory
<1>3. Conv(S, R)[i] = Session(S, R, i)
  BY DEF Conv
<1>4. /\ Session(S, R, i) \in Talks(w)
      /\ Session(S, R, i).id = InOrder(S)[i]
      /\ Session(S, R, i).turns = Loaded(R[InOrder(S)[i]])
  BY <1>1, <1>2 DEF Session, Talks
<1> QED BY <1>1, <1>3, <1>4

\* A conversation has one place for every registered session.
LEMMA ConvIs ==
  ASSUME NEW w, NEW S \in SUBSET SessionIds, NEW R \in [SessionIds -> Histories(w)]
  PROVE  /\ Conv(S, R) \in Seq(Talks(w)) /\ Len(Conv(S, R)) = Cardinality(S)
         /\ DOMAIN Conv(S, R) = 1 .. Cardinality(S)
<1>1. \A i \in 1 .. Cardinality(S) : Conv(S, R)[i] \in Talks(w)
  BY ConvAt
<1>2. DOMAIN Conv(S, R) = 1 .. Cardinality(S)
  BY DEF Conv
<1>3. Conv(S, R) \in [1 .. Cardinality(S) -> Talks(w)]
  BY <1>1 DEF Conv
<1>4. Conv(S, R) \in Seq(Talks(w)) /\ Len(Conv(S, R)) = Cardinality(S)
  BY <1>3, SessionSets
<1> QED BY <1>2, <1>4

\* It is empty when no session is registered; its last session is the active one.
LEMMA ConvIsEmpty ==
  ASSUME NEW w, NEW S \in SUBSET SessionIds, NEW R \in [SessionIds -> Histories(w)]
  PROVE  /\ Conv(S, R) = <<>> <=> S = {}
         /\ S # {} => /\ LastOf(Conv(S, R)).id = MaxOf(S, 0)
                      /\ LastOf(Conv(S, R)).turns = Loaded(R[MaxOf(S, 0)])
                      /\ MaxOf(S, 0) \in S /\ \A x \in S : x <= MaxOf(S, 0)
<1>1. Conv(S, R) = <<>> <=> S = {}
  <2>1. Conv(S, R) = <<>> <=> Cardinality(S) = 0
    BY ConvIs, EmptySeq
  <2> QED BY <2>1, SessionSets, FS_EmptySet
<1>2. ASSUME S # {}
      PROVE  /\ LastOf(Conv(S, R)).id = MaxOf(S, 0)
             /\ LastOf(Conv(S, R)).turns = Loaded(R[MaxOf(S, 0)])
             /\ MaxOf(S, 0) \in S /\ \A x \in S : x <= MaxOf(S, 0)
  <2> DEFINE N == Cardinality(S)
  <2>1. IsFiniteSet(S) /\ S \in SUBSET Int
    BY SessionSets
  <2>2. /\ N \in Nat \ {0} /\ MaxOf(S, 0) = InOrder(S)[N]
        /\ MaxOf(S, 0) \in S /\ \A x \in S : x <= MaxOf(S, 0)
    BY <1>2, <2>1, LargestIsLast
  <2>3. N \in 1 .. N
    BY <2>2
  <2>4. LastOf(Conv(S, R)) = Conv(S, R)[N]
    BY ConvIs DEF LastOf
  <2>5. Conv(S, R)[N].id = InOrder(S)[N] /\ Conv(S, R)[N].turns = Loaded(R[InOrder(S)[N]])
    BY <2>3, ConvAt
  <2> HIDE DEF N
  <2> QED BY <2>2, <2>4, <2>5
<1> QED BY <1>1, <1>2

\* NewSession registers a session after all others.
MayGrow(S, R, m, w) ==
  /\ S \in SUBSET SessionIds /\ R \in [SessionIds -> Histories(w)]
  /\ m \in SessionIds /\ (\A x \in S : x < m) /\ R[m] = <<>>

LEMMA ConvGrows ==
  ASSUME NEW w, NEW S, NEW R, NEW m, MayGrow(S, R, m, w)
  PROVE  Conv(S \cup {m}, R) = Append(Conv(S, R), [id |-> m, turns |-> <<>>])
<1> USE DEF MayGrow
<1> DEFINE T == S \cup {m}  N == Cardinality(S)  c == Conv(S, R)  d == Conv(T, R)
           e == [id |-> m, turns |-> <<>>]
<1>1. T \in SUBSET SessionIds
  OBVIOUS
<1>2. IsFiniteSet(S) /\ S \in SUBSET Int /\ m \in Int
  BY SessionSets DEF SessionIds
<1>3. /\ Cardinality(T) = N + 1 /\ N \in Nat /\ InOrder(T)[N + 1] = m
      /\ \A n \in 1 .. N : InOrder(T)[n] = InOrder(S)[n]
  BY <1>2, InOrderAdds
<1>4. Loaded(R[m]) = <<>> /\ e \in Talks(w)
  <2>1. Loaded(R[m]) = <<>>
    BY LoadedHistory
  <2>2. <<>> \in Seq(Turns(w))
    OBVIOUS
  <2> QED BY <2>1, <2>2 DEF Talks
<1>5. c \in Seq(Talks(w)) /\ Len(c) = N /\ \A i \in 1 .. N : c[i] = Session(S, R, i)
  BY ConvIs, ConvAt
<1>6. d \in Seq(Talks(w)) /\ Len(d) = N + 1 /\ \A i \in 1 .. N + 1 : d[i] = Session(T, R, i)
  <2> HIDE DEF T
  <2>1. d \in Seq(Talks(w)) /\ Len(d) = Cardinality(T)
    BY <1>1, ConvIs
  <2>2. \A i \in 1 .. Cardinality(T) : d[i] = Session(T, R, i)
    BY <1>1, ConvAt
  <2> QED BY <1>3, <2>1, <2>2
<1>7. \A i \in 1 .. N : d[i] = c[i]
  <2> SUFFICES ASSUME NEW i \in 1 .. N PROVE d[i] = c[i]
    OBVIOUS
  <2>1. i \in 1 .. N + 1
    BY <1>3
  <2> HIDE DEF c, d, T
  <2> QED BY <1>3, <1>5, <1>6, <2>1 DEF Session
<1>8. d[N + 1] = e
  <2>1. N + 1 \in 1 .. N + 1
    BY <1>3
  <2> HIDE DEF c, d, T
  <2> QED BY <1>3, <1>4, <1>6, <2>1 DEF Session
<1>9. /\ Append(c, e) \in Seq(Talks(w)) /\ Len(Append(c, e)) = N + 1
      /\ Append(c, e)[N + 1] = e /\ \A i \in 1 .. N : Append(c, e)[i] = c[i]
  <2> HIDE DEF c, e
  <2> QED BY <1>4, <1>5, AppendProperties
<1>10. \A i \in 1 .. N + 1 : d[i] = Append(c, e)[i]
  <2>1. \A i \in 1 .. N + 1 : i \in 1 .. N \/ i = N + 1
    BY <1>3
  <2> HIDE DEF c, d, e, N
  <2> QED BY <1>7, <1>8, <1>9, <2>1
<1> HIDE DEF c, d, e, N
<1>11. d = Append(c, e)
  BY <1>3, <1>6, <1>9, <1>10, SeqEqual
<1> QED BY <1>11 DEF c, d, e

\* A session with other turns keeps its id.
LEMMA TurnsReplaced ==
  ASSUME NEW x, NEW y, NEW z
  PROVE  /\ [[id |-> x, turns |-> y] EXCEPT !.turns = z] = [id |-> x, turns |-> z]
         /\ [id |-> x, turns |-> y].turns = y
OBVIOUS

\* The rows of the other sessions are the same.
SameBut(Q, R, x) == \A s \in SessionIds : s # x => Q[s] = R[s]

\* An append goes to the last session.
Tells(S, R, Q, G, w) ==
  /\ S \in SUBSET SessionIds /\ S # {}
  /\ R \in [SessionIds -> Histories(w)] /\ Q \in [SessionIds -> Histories(w)]
  /\ SameBut(Q, R, MaxOf(S, 0)) /\ Loaded(Q[MaxOf(S, 0)]) = Loaded(R[MaxOf(S, 0)]) \o G

LEMMA ConvIsTold ==
  ASSUME NEW w, NEW S, NEW R, NEW Q, NEW G, Tells(S, R, Q, G, w)
  PROVE  Conv(S, Q) = [Conv(S, R) EXCEPT ![Len(Conv(S, R))].turns = @ \o G]
<1> USE DEF Tells
<1> DEFINE N == Cardinality(S)  c == Conv(S, R)  d == Conv(S, Q)
           u == [c EXCEPT ![N].turns = @ \o G]
<1>1. /\ IsFiniteSet(S) /\ S \in SUBSET Int /\ N \in Nat /\ Len(c) = N
      /\ DOMAIN c = 1 .. N /\ DOMAIN d = 1 .. N
      /\ \A i \in 1 .. N : c[i] = Session(S, R, i) /\ d[i] = Session(S, Q, i) /\ InOrder(S)[i] \in S
  <2>1. \A i \in 1 .. N : c[i] = Session(S, R, i) /\ InOrder(S)[i] \in S
    BY ConvAt
  <2>2. \A i \in 1 .. N : d[i] = Session(S, Q, i)
    BY ConvAt
  <2>3. IsFiniteSet(S) /\ S \in SUBSET Int /\ N \in Nat
    BY SessionSets
  <2>4. Len(c) = N /\ DOMAIN c = 1 .. N
    BY ConvIs
  <2>5. DOMAIN d = 1 .. N
    BY ConvIs
  <2> QED BY <2>1, <2>2, <2>3, <2>4, <2>5
<1>2. N \in 1 .. N /\ InOrder(S)[N] = MaxOf(S, 0)
  BY <1>1, LargestIsLast
<1>3. \A i \in 1 .. N : i # N => InOrder(S)[i] # MaxOf(S, 0)
  <2> SUFFICES ASSUME NEW i \in 1 .. N, i # N PROVE InOrder(S)[i] # MaxOf(S, 0)
    OBVIOUS
  <2>1. i < N
    BY <1>1
  <2>2. InOrder(S)[i] < InOrder(S)[N]
    BY <1>1, <1>2, <2>1, InOrderIncreases
  <2>3. InOrder(S)[i] \in Int
    BY <1>1
  <2> QED BY <1>2, <2>2, <2>3
<1>4. ASSUME NEW i \in 1 .. N, i # N  PROVE d[i] = c[i]
  <2>1. Q[InOrder(S)[i]] = R[InOrder(S)[i]]
    BY <1>1, <1>3, <1>4 DEF SameBut
  <2> HIDE DEF c, d
  <2> QED BY <1>1, <2>1 DEF Session
<1>5. d[N] = [c[N] EXCEPT !.turns = @ \o G]
  <2>1. c[N] = [id |-> MaxOf(S, 0), turns |-> Loaded(R[MaxOf(S, 0)])]
        /\ d[N] = [id |-> MaxOf(S, 0), turns |-> Loaded(R[MaxOf(S, 0)]) \o G]
    <3> HIDE DEF c, d
    <3> QED BY <1>1, <1>2 DEF Session
  <2> DEFINE x == MaxOf(S, 0)  y == Loaded(R[MaxOf(S, 0)])  z == y \o G
  <2>2. c[N] = [id |-> x, turns |-> y] /\ d[N] = [id |-> x, turns |-> z]
    BY <2>1
  <2> HIDE DEF c, d, x, y
  <2>3. c[N].turns = y
    BY <2>2, TurnsReplaced
  <2> HIDE DEF z
  <2>4. [c[N] EXCEPT !.turns = z] = [id |-> x, turns |-> z]
    BY <2>2, TurnsReplaced
  <2> QED BY <2>2, <2>3, <2>4 DEF z
<1>6. d = [i \in 1 .. N |-> d[i]] /\ c = [i \in 1 .. N |-> c[i]]
  BY DEF Conv
<1> HIDE DEF c, d
<1>7. u = [i \in 1 .. N |-> IF i = N THEN [c[N] EXCEPT !.turns = @ \o G] ELSE c[i]]
  BY <1>1, <1>2, <1>6
<1> HIDE DEF u
<1>8. d = u
  BY <1>4, <1>5, <1>6, <1>7
<1> QED BY <1>1, <1>8 DEF u, c, d

\* DeleteSession takes one of the earlier sessions out.
LEMMA ConvForgets ==
  ASSUME NEW w, NEW S \in SUBSET SessionIds, S # {}, NEW id, id # MaxOf(S, 0),
         NEW R \in [SessionIds -> Histories(w)], NEW Q \in [SessionIds -> Histories(w)],
         SameBut(Q, R, id)
  PROVE  Conv(S \ {id}, Q) = DeleteSessionOf(Conv(S, R), id)
<1> DEFINE N == Cardinality(S)  c == Conv(S, R)  T == S \ {id}  d == Conv(T, Q)
           f == InOrder(S)  K == {i \in 1 .. N : f[i] # id}
<1>1. /\ IsFiniteSet(S) /\ S \in SUBSET Int /\ N \in Nat /\ f \in [1 .. N -> S]
      /\ T \in SUBSET SessionIds /\ T \in SUBSET Int
  BY SessionSets
<1>2. DOMAIN c = 1 .. N /\ DOMAIN d = 1 .. Cardinality(T)
  BY <1>1, ConvIs DEF Conv
<1>3. \A i \in 1 .. N : c[i] = Session(S, R, i) /\ c[i].id = f[i]
  BY ConvAt
<1>4. {i \in DOMAIN c : c[i].id # id} = K
  <2> HIDE DEF c, f
  <2> QED BY <1>2, <1>3
<1>5. K \in SUBSET Int /\ IsFiniteSet(K)
  <2>1. IsFiniteSet(1 .. N)
    BY <1>1, FS_Interval
  <2>2. K \in SUBSET (1 .. N) /\ (1 .. N) \in SUBSET Int
    BY <1>1
  <2> HIDE DEF K
  <2>3. IsFiniteSet(K)
    BY <2>1, <2>2, FS_Subset
  <2> QED BY <2>2, <2>3
<1> DEFINE h == [i \in K |-> f[i]]
<1>6. h \in [K -> T]
  BY <1>1
<1>7. \A x, y \in K : x < y => h[x] < h[y]
  <2> SUFFICES ASSUME NEW x \in K, NEW y \in K, x < y PROVE h[x] < h[y]
    OBVIOUS
  <2>1. x \in 1 .. N /\ y \in 1 .. N
    OBVIOUS
  <2>2. f[x] < f[y]
    BY <1>1, <2>1, InOrderIncreases
  <2> QED BY <2>2
<1>8. \A b \in T : \E x \in K : h[x] = b
  <2> SUFFICES ASSUME NEW b \in T PROVE \E x \in K : h[x] = b
    OBVIOUS
  <2>1. PICK x \in 1 .. N : f[x] = b
    BY <1>1, InOrderLists
  <2>2. x \in K
    BY <2>1
  <2> QED BY <2>1, <2>2
<1> HIDE DEF T, h
<1>9. /\ Cardinality(T) = Cardinality(K)
      /\ \A n \in 1 .. Cardinality(K) : InOrder(T)[n] = h[InOrder(K)[n]]
  <2> HIDE DEF K, c, d, f, N
  <2>1. T \in SUBSET Int
    BY <1>1
  <2>2. Carries(h, K, T)
    BY <1>5, <1>6, <1>7, <1>8, <2>1 DEF Carries
  <2> QED BY <2>2, RanksCarry
<1>10. InOrder(K) \in [1 .. Cardinality(K) -> K]
  <2> HIDE DEF K
  <2> QED BY <1>5, InOrderLists
<1>11. ASSUME NEW n \in 1 .. Cardinality(K)  PROVE d[n] = c[InOrder(K)[n]]
  <2> DEFINE i == InOrder(K)[n]
  <2>1. i \in K
    BY <1>10
  <2>2. i \in 1 .. N /\ f[i] # id /\ InOrder(T)[n] = f[i] /\ f[i] \in SessionIds
    BY <1>1, <1>9, <2>1 DEF h
  <2> HIDE DEF i
  <2>3. Q[f[i]] = R[f[i]]
    BY <2>2 DEF SameBut
  <2>4. d[n] = Session(T, Q, n)
    BY <1>1, <1>9, ConvAt
  <2>5. Session(T, Q, n) = Session(S, R, i)
    BY <2>2, <2>3 DEF Session
  <2>6. c[i] = Session(S, R, i)
    BY <1>3, <2>2
  <2> QED BY <2>4, <2>5, <2>6 DEF i
<1>12. d = [n \in 1 .. Cardinality(T) |-> d[n]]
  BY DEF Conv
<1>13. DOMAIN InOrder(K) = 1 .. Cardinality(K)
  BY <1>10
<1>14. d = [n \in DOMAIN InOrder(K) |-> c[InOrder(K)[n]]]
  <2> HIDE DEF d, c, K
  <2> QED BY <1>9, <1>11, <1>12, <1>13
<1>15. ~(c = <<>> \/ LastOf(c).id = id)
  BY ConvIsEmpty
<1> HIDE DEF c, d, K
<1>16. DeleteSessionOf(c, id) = [n \in DOMAIN InOrder(K) |-> c[InOrder(K)[n]]]
  BY <1>4, <1>15 DEF DeleteSessionOf
<1> QED BY <1>14, <1>16 DEF c, d, T

---------------------------------------------------------------------------
(* The inductive invariant.                                                *)

\* The tables hold values of their kind.
ConvTypes ==
  /\ dbSchema \in {"none", "v1", "v2"} /\ dbOpen \in BOOLEAN /\ (dbOpen = TRUE => dbSchema = "v2")
  /\ sessionRows \in [ConvKeys -> SUBSET (1 .. MaxSessions)]
  /\ turnRows \in [ConvKeys -> [SessionIds -> Histories(MaxWall)]]
  /\ noteRows \in [NoteScopes -> SUBSET Nat] /\ \A s \in NoteScopes : IsFiniteSet(noteRows[s])

\* Only a registered session has turns; before the migration, only session zero.
Registered(k) ==
  IF dbSchema = "v2"
  THEN \A s \in SessionIds : s \notin sessionRows[k] => turnRows[k][s] = <<>>
  ELSE /\ sessionRows[k] = {}
       /\ \A s \in SessionIds : s # 0 \/ dbSchema = "none" => turnRows[k][s] = <<>>

ConvInv ==
  /\ ConvTypes
  /\ \A k \in ConvKeys : Registered(k)

\* NextSeq continues the numbering.
LEMMA NextSeqIs ==
  ASSUME NEW n \in Nat  PROVE MaxOf(0 .. n - 1, -1) + 1 = n
<1>1. CASE n = 0
  <2>1. 0 .. n - 1 = {}
    BY <1>1
  <2>2. MaxOf(0 .. n - 1, -1) = -1
    BY <2>1 DEF MaxOf
  <2> QED BY <1>1, <2>2
<1>2. CASE n > 0
  <2> DEFINE S == 0 .. n - 1
  <2>1. n - 1 \in S /\ \A x \in S : x \in Int /\ x <= n - 1
    BY <1>2
  <2>2. IsFiniteSet(S)
    BY FS_Interval
  <2>5. S # {} /\ S \in SUBSET Int
    BY <2>1
  <2> HIDE DEF S
  <2>3. MaxOf(S, -1) \in S /\ n - 1 <= MaxOf(S, -1)
    BY <2>1, <2>2, <2>5, LargestIsLast
  <2>4. MaxOf(S, -1) = n - 1
    BY <2>1, <2>3
  <2> QED BY <2>4 DEF S
<1> QED BY <1>1, <1>2

---------------------------------------------------------------------------
(* Every transaction keeps it.                                             *)

\* What the invariant says of one key.
LEMMA KeyOf ==
  ASSUME ConvInv, NEW k \in ConvKeys
  PROVE  /\ MaxWall \in Nat \ {0} /\ sessionRows[k] \in SUBSET (1 .. MaxSessions)
         /\ sessionRows[k] \in SUBSET SessionIds /\ turnRows[k] \in [SessionIds -> Histories(MaxWall)]
         /\ Registered(k)
         /\ IsFiniteSet(sessionRows[k]) /\ sessionRows[k] \in SUBSET Int
         /\ 1 .. MaxSessions \in SUBSET SessionIds /\ 0 \in SessionIds /\ 1 \in SessionIds
<1>1. 1 .. MaxSessions \in SUBSET SessionIds /\ 0 \in SessionIds /\ 1 \in SessionIds
  BY ConversationAssumption DEF SessionIds
<1>2. /\ MaxWall \in Nat \ {0} /\ sessionRows[k] \in SUBSET (1 .. MaxSessions)
      /\ turnRows[k] \in [SessionIds -> Histories(MaxWall)]
      /\ Registered(k)
  BY ConversationAssumption DEF ConvInv, ConvTypes
<1>3. sessionRows[k] \in SUBSET SessionIds
  BY <1>1, <1>2
<1> QED BY <1>1, <1>2, <1>3, SessionSets

\* activeSession is the latest registered session, zero when there is none.
LEMMA ActiveIs ==
  ASSUME ConvInv, NEW k \in ConvKeys
  PROVE  /\ activeSession(k) \in 0 .. MaxSessions
         /\ activeSession(k) = 0 <=> sessionRows[k] = {}
         /\ sessionRows[k] # {} => /\ activeSession(k) = MaxOf(sessionRows[k], 0)
                                   /\ activeSession(k) \in sessionRows[k]
         /\ \A s \in sessionRows[k] : s <= activeSession(k)
<1> DEFINE S == sessionRows[k]
<1>1. S \in SUBSET (1 .. MaxSessions) /\ IsFiniteSet(S) /\ S \in SUBSET Int /\ MaxSessions \in Nat
  BY KeyOf, ConversationAssumption
<1>2. CASE S = {}
  <2>1. activeSession(k) = 0
    BY <1>2 DEF activeSession, MaxOf
  <2> QED BY <1>1, <1>2, <2>1
<1>3. CASE S # {}
  <2> HIDE DEF S
  <2>1. MaxOf(S, 0) \in S /\ \A x \in S : x <= MaxOf(S, 0)
    BY <1>1, <1>3, LargestIsLast
  <2>2. activeSession(k) = MaxOf(S, 0)
    BY DEF activeSession, S
  <2>3. MaxOf(S, 0) \in 1 .. MaxSessions
    BY <1>1, <2>1
  <2> QED BY <1>1, <1>3, <2>1, <2>2, <2>3 DEF S
<1> QED BY <1>2, <1>3

\* What AppendTurns does to the rows of its key.
AppendsTo(k, g, v, a, n, m, all) ==
  /\ a \in SessionIds /\ a > 0
  /\ a = IF sessionRows[k] = {} THEN 1 ELSE MaxOf(sessionRows[k], 0)
  /\ \A s \in SessionIds : a < s => turnRows[k][s] = <<>>
  /\ n \in Nat /\ turnRows[k][a] \in [0 .. n - 1 -> Turns(MaxWall)]
  /\ m \in Nat /\ all \in [0 .. m - 1 -> Turns(MaxWall)] /\ IsAppended(all, m, turnRows[k][a], n, g, v)
  /\ turnRows' = [turnRows EXCEPT ![k] = [turnRows[k] EXCEPT ![a] = all]]
  /\ sessionRows' = [sessionRows EXCEPT ![k] = @ \cup {a}]

\* AppendTurns appends to the active session, or opens the first.
LEMMA AppendEffect ==
  ASSUME ConvInv, NEW k \in ConvKeys, NEW g \in TurnGroups, NEW v \in 1 .. MaxWall, AppendTurns(k, g, v)
  PROVE  /\ dbSchema = "v2" /\ g \in Seq(STRING)
         /\ \E a, n, m, all : AppendsTo(k, g, v, a, n, m, all)
<1> DEFINE S == sessionRows[k]  R == turnRows[k]  a == ActiveOrFirst(k)
<1>1. dbSchema = "v2" /\ MaxWall \in Nat \ {0} /\ g \in Seq(STRING)
  BY ConversationAssumption DEF ConvInv, ConvTypes, AppendTurns
<1>3. R \in [SessionIds -> Histories(MaxWall)] /\ \A s \in SessionIds : s \notin S => R[s] = <<>>
  BY <1>1, KeyOf DEF Registered
<1>4. /\ a \in SessionIds /\ a > 0 /\ a = IF S = {} THEN 1 ELSE MaxOf(S, 0)
      /\ \A s \in S : s <= a
  <2>1. CASE S = {}
    <3>1. a = 1
      BY <2>1, ActiveIs DEF ActiveOrFirst
    <3> QED BY <2>1, <3>1, KeyOf
  <2>2. CASE S # {}
    <3>1. a = activeSession(k) /\ a = MaxOf(S, 0) /\ a \in S /\ \A s \in S : s <= a
      BY <2>2, ActiveIs DEF ActiveOrFirst
    <3>2. a \in 1 .. MaxSessions
      BY <3>1, KeyOf
    <3>3. a \in SessionIds /\ a > 0
      BY <3>2, KeyOf
    <3> HIDE DEF a, S
    <3> QED BY <2>2, <3>1, <3>3
  <2> QED BY <2>1, <2>2
<1>5. \A s \in SessionIds : a < s => R[s] = <<>>
  <2>1. \A s \in SessionIds : s \in Int /\ a \in Int
    BY <1>4 DEF SessionIds
  <2> HIDE DEF a, S, R
  <2>2. \A s \in SessionIds : a < s => s \notin S
    BY <1>4, <2>1
  <2> QED BY <1>3, <2>2
<1>6. PICK n \in Nat : R[a] \in [0 .. n - 1 -> Turns(MaxWall)]
  <2>1. R[a] \in Histories(MaxWall)
    BY <1>3, <1>4
  <2> QED BY <2>1, HistoryIs
<1>7. NextSeq(k, a) = n
  <2>1. DOMAIN turnRows[k][a] = 0 .. n - 1
    BY <1>6
  <2> HIDE DEF a
  <2> QED BY <2>1, NextSeqIs DEF NextSeq
<1> DEFINE rows == R[a]  all == Joined(rows, Rows(g, n, v))
<1>8. /\ turnRows' = [turnRows EXCEPT ![k] = [R EXCEPT ![a] = all]]
      /\ sessionRows' = [sessionRows EXCEPT ![k] = @ \cup {a}]
  <2>1. /\ turnRows' = [turnRows EXCEPT ![k][a] = all]
        /\ sessionRows' = [sessionRows EXCEPT ![k] = @ \cup {a}]
    BY <1>7 DEF AppendTurns, Joined
  <2> QED BY <2>1
<1>9. PICK m \in Nat : all \in [0 .. m - 1 -> Turns(MaxWall)] /\ IsAppended(all, m, rows, n, g, v)
  <2> HIDE DEF R, a
  <2>1. rows \in [0 .. n - 1 -> Turns(MaxWall)]
    BY <1>6
  <2> HIDE DEF rows
  <2>2. all = Joined(rows, Rows(g, n, v))
    OBVIOUS
  <2> HIDE DEF all
  <2>3. MayAppend(all, rows, n, g, MaxWall, v)
    BY <1>1, <2>1, <2>2 DEF MayAppend
  <2> QED BY <2>3, AppendedRows
<1> HIDE DEF all, a
<1>10. AppendsTo(k, g, v, a, n, m, all)
  BY <1>4, <1>5, <1>6, <1>8, <1>9 DEF AppendsTo
<1> QED BY <1>1, <1>10

\* AppendTurns keeps the invariant.
LEMMA AppendKeepsInv ==
  ASSUME ConvInv, NEW k \in ConvKeys, NEW g \in TurnGroups, NEW v \in 1 .. MaxWall, AppendTurns(k, g, v)
  PROVE  ConvInv'
<1>1. dbSchema = "v2" /\ g \in Seq(STRING) /\ UNCHANGED <<dbSchema, dbOpen, noteRows>>
  BY AppendEffect DEF ConvInv, ConvTypes, AppendTurns
<1>2. PICK a, n, m, all : AppendsTo(k, g, v, a, n, m, all)
  BY AppendEffect
<1> DEFINE R == turnRows[k]  Q == [R EXCEPT ![a] = all]  S == sessionRows[k]
<1>3. /\ a \in SessionIds /\ a > 0 /\ turnRows' = [turnRows EXCEPT ![k] = Q]
      /\ sessionRows' = [sessionRows EXCEPT ![k] = S \cup {a}]
  BY <1>2 DEF AppendsTo
<1>4. Q \in [SessionIds -> Histories(MaxWall)]
  <2>1. R \in [SessionIds -> Histories(MaxWall)]
    BY KeyOf
  <2>2. all \in Histories(MaxWall)
    BY <1>2, HistoryIs DEF AppendsTo
  <2> HIDE DEF R
  <2> QED BY <2>1, <2>2
<1>5. ASSUME NEW j \in ConvKeys
      PROVE  /\ turnRows'[j] \in [SessionIds -> Histories(MaxWall)]
             /\ sessionRows'[j] \in SUBSET (1 .. MaxSessions) /\ Registered(j)'
  <2>1. CASE j = k
    <3>1. turnRows'[j] = Q /\ sessionRows'[j] = S \cup {a}
      BY <1>3, <2>1 DEF ConvInv, ConvTypes
    <3>2. a \in 1 .. MaxSessions
      BY <1>3, ConversationAssumption DEF SessionIds
    <3>3. S \in SUBSET (1 .. MaxSessions) /\ \A s \in SessionIds : s \notin S => R[s] = <<>>
      BY <1>1, KeyOf DEF Registered
    <3>4. \A s \in SessionIds : s # a => Q[s] = R[s]
      BY KeyOf
    <3> HIDE DEF Q, R, S
    <3>5. \A s \in SessionIds : s \notin S \cup {a} => Q[s] = <<>>
      BY <3>3, <3>4
    <3>6. Registered(j)'
      BY <1>1, <3>1, <3>5 DEF Registered
    <3> QED BY <1>4, <3>1, <3>2, <3>3, <3>6
  <2>2. CASE j # k
    <3>1. turnRows'[j] = turnRows[j] /\ sessionRows'[j] = sessionRows[j]
      BY <1>3, <2>2 DEF ConvInv, ConvTypes
    <3>2. /\ turnRows[j] \in [SessionIds -> Histories(MaxWall)]
          /\ sessionRows[j] \in SUBSET (1 .. MaxSessions) /\ Registered(j)
      BY KeyOf
    <3>3. Registered(j)'
      BY <1>1, <3>1, <3>2 DEF Registered
    <3> QED BY <3>1, <3>2, <3>3
  <2> QED BY <2>1, <2>2
<1>6. /\ turnRows' = [j \in ConvKeys |-> turnRows'[j]]
      /\ sessionRows' = [j \in ConvKeys |-> sessionRows'[j]]
  <2> HIDE DEF Q, S
  <2> QED BY <1>3 DEF ConvInv, ConvTypes
<1>7. /\ turnRows' \in [ConvKeys -> [SessionIds -> Histories(MaxWall)]]
      /\ sessionRows' \in [ConvKeys -> SUBSET (1 .. MaxSessions)]
  BY <1>5, <1>6
<1>8. ConvTypes'
  BY <1>1, <1>7 DEF ConvInv, ConvTypes
<1> QED BY <1>5, <1>8 DEF ConvInv

\* The tables of one key change, the schema does not.
KeyBecomes(k, S, Q) ==
  /\ turnRows' = [turnRows EXCEPT ![k] = Q] /\ sessionRows' = [sessionRows EXCEPT ![k] = S]
  /\ UNCHANGED <<dbSchema, dbOpen>> /\ dbSchema = "v2"
  /\ noteRows' \in [NoteScopes -> SUBSET Nat] /\ \A s \in NoteScopes : IsFiniteSet(noteRows'[s])
  /\ S \in SUBSET (1 .. MaxSessions) /\ Q \in [SessionIds -> Histories(MaxWall)]
  /\ \A s \in SessionIds : s \notin S => Q[s] = <<>>

LEMMA KeyKeepsInv ==
  ASSUME ConvInv, NEW k \in ConvKeys, NEW S, NEW Q, KeyBecomes(k, S, Q)
  PROVE  ConvInv'
<1> USE DEF KeyBecomes
<1>1. ASSUME NEW j \in ConvKeys
      PROVE  /\ turnRows'[j] \in [SessionIds -> Histories(MaxWall)]
             /\ sessionRows'[j] \in SUBSET (1 .. MaxSessions) /\ Registered(j)'
  <2>1. CASE j = k
    <3>1. turnRows'[j] = Q /\ sessionRows'[j] = S
      BY <2>1 DEF ConvInv, ConvTypes
    <3>2. Registered(j)'
      BY <3>1 DEF Registered
    <3> QED BY <3>1, <3>2
  <2>2. CASE j # k
    <3>1. turnRows'[j] = turnRows[j] /\ sessionRows'[j] = sessionRows[j]
      BY <2>2 DEF ConvInv, ConvTypes
    <3>2. /\ turnRows[j] \in [SessionIds -> Histories(MaxWall)]
          /\ sessionRows[j] \in SUBSET (1 .. MaxSessions) /\ Registered(j)
      BY KeyOf
    <3>3. Registered(j)'
      BY <3>1, <3>2 DEF Registered
    <3> QED BY <3>1, <3>2, <3>3
  <2> QED BY <2>1, <2>2
<1>2. /\ turnRows' = [j \in ConvKeys |-> turnRows'[j]]
      /\ sessionRows' = [j \in ConvKeys |-> sessionRows'[j]]
  BY DEF ConvInv, ConvTypes
<1>3. /\ turnRows' \in [ConvKeys -> [SessionIds -> Histories(MaxWall)]]
      /\ sessionRows' \in [ConvKeys -> SUBSET (1 .. MaxSessions)]
  BY <1>1, <1>2
<1>4. ConvTypes'
  BY <1>3 DEF ConvInv, ConvTypes
<1> QED BY <1>1, <1>4 DEF ConvInv

\* The tables of a key without turns.
LEMMA NoTurnsIs ==
  ASSUME NEW w
  PROVE  NoTurns \in [SessionIds -> Histories(w)] /\ \A s \in SessionIds : NoTurns[s] = <<>>
BY EmptyIsHistory DEF NoTurns

\* The rows of a database of the first version.
LEMMA FirstRows ==
  ASSUME NEW g \in Seq(STRING)
  PROVE  /\ Rows(g, 0, 1) \in [0 .. Len(g) - 1 -> Turns(MaxWall)] /\ Len(g) \in Nat
         /\ Rows(g, 0, 1) \in Histories(MaxWall)
         /\ Loaded(Rows(g, 0, 1)) = StampedGroup(g, 1)
         /\ Rows(g, 0, 1) = <<>> <=> g = <<>>
<1> DEFINE rows == Rows(g, 0, 1)  L == Len(g)
<1>1. L \in Nat
  OBVIOUS
<1>2. rows = [q \in 0 .. L - 1 |-> [role |-> g[q + 1], at |-> 1]]
  BY <1>1 DEF Rows
<1>3. \A q \in 0 .. L - 1 : g[q + 1] \in STRING
  BY <1>1
<1>4. \A r \in STRING : [role |-> r, at |-> 1] \in Turns(MaxWall)
  BY ConversationAssumption DEF Turns
<1> HIDE DEF rows, L
<1>5. rows \in [0 .. L - 1 -> Turns(MaxWall)]
  BY <1>2, <1>3, <1>4
<1>6. rows \in Histories(MaxWall)
  BY <1>1, <1>5, HistoryIs
<1>7. Loaded(rows) = [i \in 1 .. L |-> rows[i - 1]]
  BY <1>1, <1>5, LoadedIs
<1>13. \A i \in 1 .. L : rows[i - 1] = [role |-> g[i], at |-> 1]
  <2> SUFFICES ASSUME NEW i \in 1 .. L PROVE rows[i - 1] = [role |-> g[i], at |-> 1]
    OBVIOUS
  <2>1. i - 1 \in 0 .. L - 1 /\ (i - 1) + 1 = i
    BY <1>1
  <2> QED BY <1>2, <2>1
<1>8. Loaded(rows) = [i \in 1 .. L |-> [role |-> g[i], at |-> 1]]
  BY <1>7, <1>13
<1>9. Loaded(rows) = StampedGroup(g, 1)
  BY <1>8 DEF StampedGroup, L
<1>10. DOMAIN rows = {} <=> L = 0
  BY <1>1, <1>5
<1>11. L = 0 <=> g = <<>>
  BY EmptySeq DEF L
<1>12. rows = <<>> <=> g = <<>>
  BY <1>6, <1>10, <1>11, NoRows
<1> QED BY <1>1, <1>5, <1>6, <1>9, <1>12 DEF rows, L

\* A new database and one of the first version satisfy the invariant.
LEMMA ConvStarts == ConvInit => ConvInv
<1> SUFFICES ASSUME ConvInit PROVE ConvInv
  OBVIOUS
<1>1. /\ dbOpen = FALSE /\ noteRows = [s \in NoteScopes |-> {}]
      /\ sessionRows = [k \in ConvKeys |-> {}]
  BY DEF ConvInit
<1>2. noteRows \in [NoteScopes -> SUBSET Nat] /\ \A s \in NoteScopes : IsFiniteSet(noteRows[s])
  BY <1>1, FS_EmptySet
<1>3. sessionRows \in [ConvKeys -> SUBSET (1 .. MaxSessions)]
  BY <1>1
<1>4. 0 \in SessionIds
  BY ConversationAssumption DEF SessionIds
<1>7. dbOpen \in BOOLEAN /\ dbOpen # TRUE
  BY <1>1, Zenon
<1>5. CASE dbSchema = "none" /\ turnRows = [k \in ConvKeys |-> NoTurns]
  <2>1. turnRows \in [ConvKeys -> [SessionIds -> Histories(MaxWall)]]
    BY <1>5, NoTurnsIs
  <2>2. ConvTypes
    BY <1>1, <1>2, <1>3, <1>5, <1>7, <2>1 DEF ConvTypes
  <2>3. ASSUME NEW k \in ConvKeys PROVE Registered(k)
    <3>1. \A s \in SessionIds : turnRows[k][s] = <<>>
      BY <1>5, NoTurnsIs
    <3> QED BY <1>1, <1>5, <3>1 DEF Registered
  <2> QED BY <2>2, <2>3 DEF ConvInv
<1>6. ASSUME dbSchema = "v1", NEW g \in TurnGroups, NEW k \in ConvKeys,
             turnRows = [[j \in ConvKeys |-> NoTurns] EXCEPT ![k][0] = Rows(g, 0, 1)]
      PROVE  ConvInv
  <2> DEFINE R == Rows(g, 0, 1)  Q == [NoTurns EXCEPT ![0] = R]
  <2>1. R \in Histories(MaxWall)
    BY FirstRows, ConversationAssumption
  <2>2. turnRows = [[j \in ConvKeys |-> NoTurns] EXCEPT ![k] = Q]
    BY <1>6
  <2> HIDE DEF R
  <2>3. /\ Q \in [SessionIds -> Histories(MaxWall)] /\ Q[0] = R
        /\ \A s \in SessionIds : s # 0 => Q[s] = <<>>
    BY <1>4, <2>1, NoTurnsIs
  <2> HIDE DEF Q
  <2>4. turnRows \in [ConvKeys -> [SessionIds -> Histories(MaxWall)]]
    BY <2>2, <2>3, NoTurnsIs
  <2>5. ConvTypes
    BY <1>1, <1>2, <1>3, <1>6, <1>7, <2>4 DEF ConvTypes
  <2>6. ASSUME NEW j \in ConvKeys PROVE Registered(j)
    <3>1. \A s \in SessionIds : s # 0 => turnRows[j][s] = <<>>
      <4>1. CASE j = k
        BY <2>2, <2>3, <4>1
      <4>2. CASE j # k
        BY <1>4, <2>2, <4>2, NoTurnsIs
      <4> QED BY <4>1, <4>2
    <3> QED BY <1>1, <1>6, <3>1 DEF Registered
  <2> QED BY <2>5, <2>6 DEF ConvInv
<1> QED BY <1>5, <1>6 DEF ConvInit

\* The migration: the old rows become session one.
LEMMA OpenKeepsInv == ASSUME ConvInv, Open PROVE ConvInv'
<1>1. UNCHANGED noteRows /\ dbOpen' = TRUE /\ dbSchema' = "v2"
  BY DEF Open
<1>2. CASE dbSchema = "v1"
  <2>1. /\ turnRows' = [k \in ConvKeys |-> [NoTurns EXCEPT ![1] = turnRows[k][0]]]
        /\ sessionRows' = [k \in ConvKeys |-> IF turnRows[k][0] = <<>> THEN {} ELSE {1}]
    BY <1>2 DEF Open, migrateIfV1
  <2>2. ASSUME NEW k \in ConvKeys
        PROVE  /\ turnRows'[k] \in [SessionIds -> Histories(MaxWall)]
               /\ sessionRows'[k] \in SUBSET (1 .. MaxSessions) /\ Registered(k)'
    <3> DEFINE R == turnRows[k]  Q == [NoTurns EXCEPT ![1] = R[0]]
    <3>1. /\ R \in [SessionIds -> Histories(MaxWall)] /\ 0 \in SessionIds /\ 1 \in SessionIds
      BY KeyOf
    <3>2. turnRows'[k] = Q /\ sessionRows'[k] = IF R[0] = <<>> THEN {} ELSE {1}
      BY <2>1
    <3> HIDE DEF R
    <3>3. /\ Q \in [SessionIds -> Histories(MaxWall)] /\ Q[1] = R[0]
          /\ \A s \in SessionIds : s # 1 => Q[s] = <<>>
      BY <3>1, NoTurnsIs
    <3> HIDE DEF Q
    <3>5. sessionRows'[k] \in SUBSET (1 .. MaxSessions)
      BY <3>2, ConversationAssumption
    <3>6. \A s \in SessionIds : s \notin sessionRows'[k] => Q[s] = <<>>
      BY <3>2, <3>3
    <3>7. Registered(k)'
      BY <1>1, <3>2, <3>6 DEF Registered
    <3> QED BY <3>2, <3>3, <3>5, <3>7
  <2>3. turnRows' = [k \in ConvKeys |-> turnRows'[k]] /\ sessionRows' = [k \in ConvKeys |-> sessionRows'[k]]
    BY <2>1
  <2>4. /\ turnRows' \in [ConvKeys -> [SessionIds -> Histories(MaxWall)]]
        /\ sessionRows' \in [ConvKeys -> SUBSET (1 .. MaxSessions)]
    BY <2>2, <2>3
  <2>5. ConvTypes'
    BY <1>1, <2>4 DEF ConvInv, ConvTypes
  <2> QED BY <2>2, <2>5 DEF ConvInv
<1>3. CASE dbSchema # "v1"
  <2>1. UNCHANGED <<turnRows, sessionRows>>
    BY <1>3 DEF Open, migrateIfV1
  <2>2. ConvTypes'
    BY <1>1, <2>1 DEF ConvInv, ConvTypes
  <2>3. ASSUME NEW k \in ConvKeys PROVE Registered(k)'
    <3>1. Registered(k) /\ dbSchema \in {"none", "v2"}
      BY <1>3 DEF ConvInv, ConvTypes
    <3> QED BY <1>1, <2>1, <3>1 DEF Registered
  <2> QED BY <2>2, <2>3 DEF ConvInv
<1> QED BY <1>2, <1>3

\* What the invariant says of an open database.
LEMMA OpenIsV2 ==
  ASSUME ConvInv, dbOpen
  PROVE  /\ dbSchema = "v2" /\ noteRows \in [NoteScopes -> SUBSET Nat]
         /\ \A s \in NoteScopes : IsFiniteSet(noteRows[s])
         /\ turnRows \in [ConvKeys -> [SessionIds -> Histories(MaxWall)]]
         /\ sessionRows \in [ConvKeys -> SUBSET (1 .. MaxSessions)]
         /\ \A k \in ConvKeys : \A s \in SessionIds : s \notin sessionRows[k] => turnRows[k][s] = <<>>
<1>1. dbSchema = "v2"
  BY DEF ConvInv, ConvTypes
<1> QED BY <1>1 DEF ConvInv, ConvTypes, Registered

\* What NewSession does to the registrations of its key.
LEMMA NewSessionEffect ==
  ASSUME ConvInv, NEW k \in ConvKeys, NewSession(k)
  PROVE  /\ activeSession(k) + 1 \in 1 .. MaxSessions
         /\ turnRows' = turnRows
         /\ \/ /\ sessionRows' = sessionRows /\ sessionRows[k] # {}
               /\ turnRows[k][activeSession(k)] = <<>>
            \/ /\ sessionRows' = [sessionRows EXCEPT ![k] = sessionRows[k] \cup {activeSession(k) + 1}]
               /\ sessionRows[k] = {} \/ turnRows[k][activeSession(k)] # <<>>
<1>1. activeSession(k) \in 0 .. MaxSessions /\ activeSession(k) < MaxSessions /\ MaxSessions \in Nat
  BY ActiveIs, ConversationAssumption DEF NewSession
<1>2. activeSession(k) > 0 <=> sessionRows[k] # {}
  BY <1>1, ActiveIs
<1>3. activeSession(k) + 1 \in 1 .. MaxSessions
  BY <1>1
<1> QED BY <1>2, <1>3 DEF NewSession

\* NewSession keeps the invariant.
LEMMA NewSessionKeepsInv ==
  ASSUME ConvInv, NEW k \in ConvKeys, NewSession(k)
  PROVE  ConvInv'
<1>0. dbOpen /\ UNCHANGED <<dbSchema, dbOpen, turnRows, noteRows>>
  BY DEF NewSession
<1>1. /\ dbSchema = "v2" /\ noteRows' \in [NoteScopes -> SUBSET Nat]
      /\ \A s \in NoteScopes : IsFiniteSet(noteRows'[s])
      /\ turnRows \in [ConvKeys -> [SessionIds -> Histories(MaxWall)]]
      /\ sessionRows \in [ConvKeys -> SUBSET (1 .. MaxSessions)]
      /\ \A s \in SessionIds : s \notin sessionRows[k] => turnRows[k][s] = <<>>
  BY <1>0, OpenIsV2
<1>2. turnRows' = [turnRows EXCEPT ![k] = turnRows[k]]
  BY <1>0, <1>1
<1>3. PICK S : /\ sessionRows' = [sessionRows EXCEPT ![k] = S]
               /\ S \in SUBSET (1 .. MaxSessions) /\ \A s \in sessionRows[k] : s \in S
  <2>1. CASE sessionRows' = sessionRows
    <3>1. sessionRows' = [sessionRows EXCEPT ![k] = sessionRows[k]]
      BY <1>1, <2>1
    <3> QED BY <1>1, <3>1
  <2>2. CASE sessionRows' = [sessionRows EXCEPT ![k] = sessionRows[k] \cup {activeSession(k) + 1}]
    <3>1. sessionRows[k] \cup {activeSession(k) + 1} \in SUBSET (1 .. MaxSessions)
      BY <1>1, NewSessionEffect
    <3> QED BY <2>2, <3>1
  <2> QED BY <2>1, <2>2, NewSessionEffect
<1>4. \A s \in SessionIds : s \notin S => turnRows[k][s] = <<>>
  BY <1>1, <1>3
<1> DEFINE Q == turnRows[k]
<1>5. /\ Q \in [SessionIds -> Histories(MaxWall)] /\ turnRows' = [turnRows EXCEPT ![k] = Q]
      /\ \A s \in SessionIds : s \notin S => Q[s] = <<>>
  BY <1>1, <1>2, <1>4
<1> HIDE DEF Q
<1>7. KeyBecomes(k, S, Q)
  BY <1>0, <1>1, <1>3, <1>5 DEF KeyBecomes
<1> QED BY <1>7, KeyKeepsInv

\* DeleteConversation keeps the invariant.
LEMMA DeleteConversationKeepsInv ==
  ASSUME ConvInv, NEW k \in ConvKeys, DeleteConversation(k)
  PROVE  ConvInv'
<1>0. dbOpen /\ UNCHANGED <<dbSchema, dbOpen>>
  BY DEF DeleteConversation
<1>1. /\ dbSchema = "v2" /\ noteRows \in [NoteScopes -> SUBSET Nat]
      /\ \A s \in NoteScopes : IsFiniteSet(noteRows[s])
  BY <1>0, OpenIsV2
<1>2. /\ turnRows' = [turnRows EXCEPT ![k] = NoTurns]
      /\ sessionRows' = [sessionRows EXCEPT ![k] = {}]
      /\ noteRows' = [s \in NoteScopes |-> IF s[2] = k THEN {} ELSE noteRows[s]]
  BY DEF DeleteConversation
<1>3. \A s \in NoteScopes : noteRows'[s] = {} \/ noteRows'[s] = noteRows[s]
  BY <1>2
<1>4. \A s \in NoteScopes : IsFiniteSet(noteRows'[s])
  BY <1>1, <1>3, FS_EmptySet
<1>5. noteRows' \in [NoteScopes -> SUBSET Nat]
  BY <1>1, <1>2
<1> DEFINE Q == NoTurns  S == {}
<1>6. /\ S \in SUBSET (1 .. MaxSessions) /\ Q \in [SessionIds -> Histories(MaxWall)]
      /\ \A s \in SessionIds : s \notin S => Q[s] = <<>>
      /\ turnRows' = [turnRows EXCEPT ![k] = Q] /\ sessionRows' = [sessionRows EXCEPT ![k] = S]
  BY <1>2, NoTurnsIs
<1> HIDE DEF Q, S
<1>7. KeyBecomes(k, S, Q)
  BY <1>0, <1>1, <1>4, <1>5, <1>6 DEF KeyBecomes
<1> QED BY <1>7, KeyKeepsInv

\* What DeleteSession does to the rows of its key.
LEMMA DeleteSessionEffect ==
  ASSUME ConvInv, NEW k \in ConvKeys, NEW id \in 1 .. MaxSessions, DeleteSession(k, id)
  PROVE  /\ turnRows' = [turnRows EXCEPT ![k] = [turnRows[k] EXCEPT ![id] = <<>>]]
         /\ [turnRows[k] EXCEPT ![id] = <<>>] \in [SessionIds -> Histories(MaxWall)]
         /\ [turnRows[k] EXCEPT ![id] = <<>>][id] = <<>>
         /\ \A s \in SessionIds : s # id => [turnRows[k] EXCEPT ![id] = <<>>][s] = turnRows[k][s]
         /\ sessionRows' = [sessionRows EXCEPT ![k] = sessionRows[k] \ {id}]
         /\ sessionRows[k] # {} /\ activeSession(k) # id
<1>1. turnRows[k] \in [SessionIds -> Histories(MaxWall)] /\ id \in SessionIds
  BY KeyOf
<1>2. <<>> \in Histories(MaxWall)
  BY EmptyIsHistory
<1>3. turnRows' = [turnRows EXCEPT ![k] = [turnRows[k] EXCEPT ![id] = <<>>]]
  BY DEF DeleteSession
<1>4. /\ sessionRows' = [sessionRows EXCEPT ![k] = sessionRows[k] \ {id}]
      /\ activeSession(k) # 0 /\ activeSession(k) # id
  BY DEF DeleteSession
<1> QED BY <1>1, <1>2, <1>3, <1>4, ActiveIs

\* DeleteSession keeps the invariant.
LEMMA DeleteSessionKeepsInv ==
  ASSUME ConvInv, NEW k \in ConvKeys, NEW id \in 1 .. MaxSessions, DeleteSession(k, id)
  PROVE  ConvInv'
<1>0. dbOpen /\ UNCHANGED <<dbSchema, dbOpen, noteRows>>
  BY DEF DeleteSession
<1>1. /\ dbSchema = "v2" /\ noteRows' \in [NoteScopes -> SUBSET Nat]
      /\ \A s \in NoteScopes : IsFiniteSet(noteRows'[s])
      /\ \A s \in SessionIds : s \notin sessionRows[k] => turnRows[k][s] = <<>>
  BY <1>0, OpenIsV2
<1> DEFINE Q == [turnRows[k] EXCEPT ![id] = <<>>]  S == sessionRows[k] \ {id}
<1>2. /\ turnRows' = [turnRows EXCEPT ![k] = Q] /\ sessionRows' = [sessionRows EXCEPT ![k] = S]
      /\ Q \in [SessionIds -> Histories(MaxWall)] /\ Q[id] = <<>>
      /\ \A s \in SessionIds : s # id => Q[s] = turnRows[k][s]
  BY DeleteSessionEffect
<1>3. S \in SUBSET (1 .. MaxSessions)
  BY KeyOf
<1>4. \A s \in SessionIds : s \notin S => s \notin sessionRows[k] \/ s = id
  OBVIOUS
<1> HIDE DEF Q, S
<1>6. \A s \in SessionIds : s \notin S => Q[s] = <<>>
  BY <1>1, <1>2, <1>4
<1>7. KeyBecomes(k, S, Q)
  BY <1>0, <1>1, <1>2, <1>3, <1>6 DEF KeyBecomes
<1> QED BY <1>7, KeyKeepsInv

\* The tables of turns and sessions as they were.
LEMMA NotesKeepInv ==
  ASSUME ConvInv, UNCHANGED <<dbSchema, sessionRows, turnRows>>,
         dbOpen' \in BOOLEAN, dbOpen' = TRUE => dbSchema = "v2",
         noteRows' \in [NoteScopes -> SUBSET Nat], \A s \in NoteScopes : IsFiniteSet(noteRows'[s])
  PROVE  ConvInv'
<1>1. ConvTypes'
  BY DEF ConvInv, ConvTypes
<1>2. \A k \in ConvKeys : Registered(k)'
  BY DEF ConvInv, Registered
<1> QED BY <1>1, <1>2 DEF ConvInv

\* AppendNote numbers the note after the last.
LEMMA AppendNoteEffect ==
  ASSUME ConvInv, NEW s \in NoteScopes, AppendNote(s)
  PROVE  /\ noteRows' \in [NoteScopes -> SUBSET Nat] /\ \A t \in NoteScopes : IsFiniteSet(noteRows'[t])
<1> DEFINE N == noteRows[s]  x == MaxOf(N, 0) + 1
<1>0. dbOpen
  BY DEF AppendNote
<1>1. /\ noteRows \in [NoteScopes -> SUBSET Nat] /\ \A t \in NoteScopes : IsFiniteSet(noteRows[t])
  BY <1>0, OpenIsV2
<1>2. noteRows' = [noteRows EXCEPT ![s] = N \cup {x}]
  BY DEF AppendNote
<1>3. x \in Nat /\ x \notin N
  <2>1. CASE N = {}
    <3>1. x = 1
      BY <2>1 DEF MaxOf
    <3> QED BY <2>1, <3>1
  <2>2. CASE N # {}
    <3>0. IsFiniteSet(N) /\ \A y \in N : y \in Nat
      BY <1>1
    <3>1. N \in SUBSET Int
      BY <3>0
    <3>2. MaxOf(N, 0) \in N /\ \A y \in N : y <= MaxOf(N, 0)
      BY <2>2, <3>0, <3>1, LargestIsLast
    <3> HIDE DEF N
    <3> QED BY <3>0, <3>2
  <2> QED BY <2>1, <2>2
<1> HIDE DEF x
<1>4. IsFiniteSet(N \cup {x})
  BY <1>1, <1>3, FS_AddElement
<1>5. noteRows'[s] = N \cup {x} /\ \A t \in NoteScopes : t # s => noteRows'[t] = noteRows[t]
  BY <1>1, <1>2
<1>6. \A t \in NoteScopes : IsFiniteSet(noteRows'[t])
  BY <1>1, <1>4, <1>5
<1>7. noteRows' \in [NoteScopes -> SUBSET Nat]
  BY <1>1, <1>2, <1>3
<1> QED BY <1>6, <1>7

\* ClearNotes empties one scope.
LEMMA ClearNotesEffect ==
  ASSUME ConvInv, NEW s \in NoteScopes, ClearNotes(s)
  PROVE  /\ noteRows' \in [NoteScopes -> SUBSET Nat] /\ \A t \in NoteScopes : IsFiniteSet(noteRows'[t])
<1>0. dbOpen /\ noteRows' = [noteRows EXCEPT ![s] = {}]
  BY DEF ClearNotes
<1>1. /\ noteRows \in [NoteScopes -> SUBSET Nat] /\ \A t \in NoteScopes : IsFiniteSet(noteRows[t])
  BY <1>0, OpenIsV2
<1>2. noteRows'[s] = {} /\ \A t \in NoteScopes : t # s => noteRows'[t] = noteRows[t]
  BY <1>0, <1>1
<1>3. \A t \in NoteScopes : IsFiniteSet(noteRows'[t])
  BY <1>1, <1>2, FS_EmptySet
<1>4. noteRows' \in [NoteScopes -> SUBSET Nat]
  BY <1>0, <1>1
<1> QED BY <1>3, <1>4

\* The invariant is inductive.
LEMMA ConvSteps ==
  ASSUME ConvInv, [ConvNext]_convVars
  PROVE  ConvInv'
<1>0. /\ noteRows \in [NoteScopes -> SUBSET Nat] /\ \A s \in NoteScopes : IsFiniteSet(noteRows[s])
      /\ dbOpen \in BOOLEAN /\ (dbOpen = TRUE => dbSchema = "v2")
  BY DEF ConvInv, ConvTypes
<1>1. CASE Close
  <2>1. dbOpen' = FALSE /\ UNCHANGED <<dbSchema, sessionRows, turnRows, noteRows>>
    BY <1>1 DEF Close
  <2>2. dbOpen' \in BOOLEAN /\ dbOpen' # TRUE
    BY <2>1, Zenon
  <2> QED BY <1>0, <2>1, <2>2, NotesKeepInv
<1>2. ASSUME NEW s \in NoteScopes, AppendNote(s) PROVE ConvInv'
  <2>1. UNCHANGED <<dbSchema, dbOpen, sessionRows, turnRows>>
    BY <1>2 DEF AppendNote
  <2> QED BY <1>0, <1>2, <2>1, AppendNoteEffect, NotesKeepInv
<1>3. ASSUME NEW s \in NoteScopes, ClearNotes(s) PROVE ConvInv'
  <2>1. UNCHANGED <<dbSchema, dbOpen, sessionRows, turnRows>>
    BY <1>3 DEF ClearNotes
  <2> QED BY <1>0, <1>3, <2>1, ClearNotesEffect, NotesKeepInv
<1>4. CASE UNCHANGED convVars
  <2>1. UNCHANGED <<dbSchema, dbOpen, sessionRows, turnRows, noteRows>>
    BY <1>4 DEF convVars
  <2> QED BY <1>0, <2>1, NotesKeepInv
<1>5. ASSUME NEW k \in ConvKeys, NEW g \in TurnGroups, NEW at \in 1 .. MaxWall, AppendTurns(k, g, at)
      PROVE  ConvInv'
  BY <1>5, AppendKeepsInv
<1> QED BY <1>1, <1>2, <1>3, <1>4, <1>5, OpenKeepsInv, NewSessionKeepsInv,
           DeleteConversationKeepsInv, DeleteSessionKeepsInv DEF ConvNext

\* The invariant holds in every reachable state.
LEMMA ConvHolds == ConvSpec => []ConvInv
<1>1. ConvInv /\ [ConvNext]_convVars => ConvInv'
  BY ConvSteps
<1> QED BY <1>1, ConvStarts, PTL DEF ConvSpec

---------------------------------------------------------------------------
(* Every transaction is a step of the in-memory store.                     *)

\* The conversation of a key, migrated or not.
LEMMA ConversationIs ==
  ASSUME NEW k \in ConvKeys, dbSchema # "v1"
  PROVE  ConversationOf(k) = Conv(sessionRows[k], turnRows[k])
<1> DEFINE S == sessionRows[k]  R == turnRows[k]
           f == InOrder(S)  L == ListSessions(k)
<1>1. DOMAIN f = 1 .. Cardinality(S) /\ DOMAIN L = DOMAIN f
  BY InOrderIsFunction, SMTT(40) DEF ListSessions
<1>2. \A i \in DOMAIN f : L[i].id = f[i]
  BY DEF ListSessions
<1>3. \A id : LoadSession(k, id) = Loaded(R[id])
  BY DEF LoadSession, Loaded
<1>4. ConversationOf(k) = [i \in DOMAIN L |-> [id |-> L[i].id, turns |-> LoadSession(k, L[i].id)]]
  BY DEF ConversationOf
<1> HIDE DEF L
<1>6. \A i \in DOMAIN L : L[i].id = f[i] /\ LoadSession(k, L[i].id) = Loaded(R[f[i]])
  BY <1>1, <1>2, <1>3
<1>5. ConversationOf(k) = [i \in 1 .. Cardinality(S) |-> [id |-> f[i], turns |-> Loaded(R[f[i]])]]
  <2> HIDE DEF f, R, S
  <2> QED BY <1>1, <1>4, <1>6
<1> QED BY <1>5, SMTT(40) DEF Conv, Session

RowsAreTold ==
  dbSchema # "v1" => \A k \in ConvKeys : ConversationOf(k) = Conv(sessionRows[k], turnRows[k])

\* The same of the state after a step.
LEMMA ThenRowsAreTold == RowsAreTold'
<1>1. RowsAreTold
  BY ConversationIs DEF RowsAreTold
<1> QED BY <1>1, PTL

\* Before the migration a key with turns has one session.
LEMMA OldConversationIs ==
  ASSUME NEW k \in ConvKeys, dbSchema = "v1"
  PROVE  ConversationOf(k) = IF turnRows[k][0] = <<>> THEN <<>>
                             ELSE <<[id |-> 1, turns |-> Loaded(turnRows[k][0])]>>
<1>1. LoadSession(k, 0) = Loaded(turnRows[k][0])
  BY DEF LoadSession, Loaded
<1> QED BY <1>1 DEF ConversationOf

\* A conversation of one session.
LEMMA OneSession ==
  ASSUME NEW m \in SessionIds, NEW R
  PROVE  Conv({m}, R) = <<[id |-> m, turns |-> Loaded(R[m])]>>
<1>1. Cardinality({m}) = 1 /\ {m} \in SUBSET SessionIds
  BY FS_Singleton
<1>2. InOrder({m}) \in [1 .. 1 -> {m}]
  BY <1>1, SessionSets
<1>3. InOrder({m})[1] = m
  BY <1>2
<1>4. Conv({m}, R) = [i \in 1 .. 1 |-> Session({m}, R, i)]
  BY <1>1 DEF Conv
<1>5. Session({m}, R, 1) = [id |-> m, turns |-> Loaded(R[m])]
  BY <1>3 DEF Session
<1> DEFINE s == Session({m}, R, 1)
<1>6. Conv({m}, R) = <<s>>
  BY <1>4
<1> QED BY <1>5, <1>6

\* The migration changes nothing a reader sees.
LEMMA OpenShowsTheSame ==
  ASSUME ConvInv, Open, NEW k \in ConvKeys
  PROVE  ConversationOf(k)' = ConversationOf(k)
<1>1. dbSchema' = "v2" /\ ConversationOf(k)' = Conv(sessionRows'[k], turnRows'[k])
  <2>1. dbSchema' = "v2"
    BY DEF Open
  <2> QED BY <2>1, ThenRowsAreTold DEF RowsAreTold
<1>2. CASE dbSchema = "v1"
  <2> DEFINE R == turnRows[k]  Q == turnRows'[k]  S == sessionRows'[k]
  <2>1. Q = [NoTurns EXCEPT ![1] = R[0]] /\ S = IF R[0] = <<>> THEN {} ELSE {1}
    BY <1>2 DEF Open, migrateIfV1
  <2>2. Q[1] = R[0] /\ Q \in [SessionIds -> Histories(MaxWall)]
    BY <2>1, NoTurnsIs, KeyOf
  <2>3. CASE R[0] = <<>>
    <3>1. Conv({}, Q) = <<>>
      BY <2>2, ConvIsEmpty
    <3> QED BY <1>1, <1>2, <2>1, <2>3, <3>1, OldConversationIs
  <2>4. CASE R[0] # <<>>
    <3>1. Conv({1}, Q) = <<[id |-> 1, turns |-> Loaded(Q[1])]>>
      BY OneSession, KeyOf
    <3> QED BY <1>1, <1>2, <2>1, <2>2, <2>4, <3>1, OldConversationIs
  <2> QED BY <2>3, <2>4
<1>3. CASE dbSchema # "v1"
  <2>1. UNCHANGED <<turnRows, sessionRows>>
    BY <1>3 DEF Open, migrateIfV1
  <2> QED BY <1>1, <1>3, <2>1, ConversationIs
<1> QED BY <1>2, <1>3

\* The abstract store's table.
Told == [k \in ConvKeys |-> ConversationOf(k)]

\* A transaction on one key moves that conversation only.
LEMMA OneKeyMoves ==
  ASSUME ConvInv, dbSchema = "v2", dbSchema' = "v2", NEW k \in ConvKeys,
         \A j \in ConvKeys : j # k => turnRows'[j] = turnRows[j] /\ sessionRows'[j] = sessionRows[j]
  PROVE  /\ Told' = [Told EXCEPT ![k] = Conv(sessionRows'[k], turnRows'[k])]
         /\ Told[k] = Conv(sessionRows[k], turnRows[k])
<1>1. ASSUME NEW j \in ConvKeys PROVE /\ ConversationOf(j) = Conv(sessionRows[j], turnRows[j])
                                      /\ ConversationOf(j)' = Conv(sessionRows'[j], turnRows'[j])
  <2>1. ConversationOf(j) = Conv(sessionRows[j], turnRows[j])
    BY ConversationIs
  <2> QED BY <2>1, ThenRowsAreTold DEF RowsAreTold
<1>2. Told' = [j \in ConvKeys |-> Conv(sessionRows'[j], turnRows'[j])]
  BY <1>1 DEF Told
<1>3. Told = [j \in ConvKeys |-> Conv(sessionRows[j], turnRows[j])]
  BY <1>1 DEF Told
<1> QED BY <1>2, <1>3

\* An append, seen from the abstract store.
LEMMA AppendIsTold ==
  ASSUME ConvInv, NEW k \in ConvKeys, NEW g \in TurnGroups, NEW v \in 1 .. MaxWall, AppendTurns(k, g, v)
  PROVE  Told' = [Told EXCEPT ![k] = AppendTurnsTo(Told[k], StampedGroup(g, v))]
<1> DEFINE R == turnRows[k]  S == sessionRows[k]  G == StampedGroup(g, v)
<1>1. /\ dbSchema = "v2" /\ g \in Seq(STRING) /\ g # <<>>
      /\ MaxWall \in Nat /\ dbSchema' = "v2"
  BY AppendEffect, ConversationAssumption DEF ConvInv, ConvTypes, AppendTurns
<1>2. PICK a, n, m, all : AppendsTo(k, g, v, a, n, m, all)
  BY AppendEffect
<1> DEFINE Q == [R EXCEPT ![a] = all]
<1>3. /\ a \in SessionIds /\ turnRows' = [turnRows EXCEPT ![k] = Q]
      /\ sessionRows' = [sessionRows EXCEPT ![k] = S \cup {a}]
      /\ a = IF S = {} THEN 1 ELSE MaxOf(S, 0)
      /\ n \in Nat /\ R[a] \in [0 .. n - 1 -> Turns(MaxWall)]
      /\ m \in Nat /\ all \in [0 .. m - 1 -> Turns(MaxWall)] /\ IsAppended(all, m, R[a], n, g, v)
  BY <1>2 DEF AppendsTo
<1>4. G \in Seq(Turns(MaxWall)) /\ Len(G) = Len(g) /\ Loaded(all) = Loaded(R[a]) \o G
  <2>1. Appending(all, m, R[a], n, g, MaxWall, v)
    BY <1>1, <1>3 DEF Appending
  <2> QED BY <2>1, AppendedIsRead
<1>5. G # <<>>
  <2>1. Len(g) # 0
    BY <1>1, EmptySeq
  <2> HIDE DEF G
  <2> QED BY <1>4, <2>1, EmptySeq
<1>6. turnRows'[k] = Q /\ sessionRows'[k] = S \cup {a}
  BY <1>3 DEF ConvInv, ConvTypes
<1>7. \A j \in ConvKeys : j # k => turnRows'[j] = turnRows[j] /\ sessionRows'[j] = sessionRows[j]
  BY <1>3 DEF ConvInv, ConvTypes
<1>8. Told' = [Told EXCEPT ![k] = Conv(S \cup {a}, Q)] /\ Told[k] = Conv(S, R)
  BY <1>1, <1>6, <1>7, OneKeyMoves
<1>9. /\ R \in [SessionIds -> Histories(MaxWall)] /\ S \in SUBSET SessionIds
      /\ \A s \in SessionIds : s \notin S => R[s] = <<>>
  BY <1>1, KeyOf DEF Registered
<1>10. /\ Q \in [SessionIds -> Histories(MaxWall)] /\ Q[a] = all
       /\ \A s \in SessionIds : s # a => Q[s] = R[s]
  <2>1. all \in Histories(MaxWall)
    BY <1>3, HistoryIs
  <2> HIDE DEF R
  <2> QED BY <1>3, <1>9, <2>1
<1> HIDE DEF Q, R, S, G
<1>11. Conv(S \cup {a}, Q) = AppendTurnsTo(Conv(S, R), G)
  <2>1. CASE S = {}
    <3>1. a = 1 /\ R[a] = <<>> /\ Conv(S, R) = <<>>
      BY <1>3, <1>9, <2>1, ConvIsEmpty
    <3>2. Loaded(R[a]) = <<>>
      BY <1>3, <1>9, <3>1, LoadedHistory
    <3>3. Loaded(all) = G
      BY <1>4, <3>2
    <3>4. S \cup {a} = {a}
      BY <2>1
    <3>5. Conv({a}, Q) = <<[id |-> a, turns |-> Loaded(Q[a])]>>
      BY <1>3, OneSession
    <3> QED BY <1>5, <1>10, <3>1, <3>3, <3>4, <3>5 DEF AppendTurnsTo
  <2>2. CASE S # {}
    <3>1. a = MaxOf(S, 0) /\ a \in S
      BY <1>3, <1>9, <2>2, ConvIsEmpty
    <3>2. S \cup {a} = S
      BY <3>1
    <3>3. Conv(S, R) # <<>>
      BY <1>9, <2>2, ConvIsEmpty
    <3>4. Loaded(Q[MaxOf(S, 0)]) = Loaded(R[MaxOf(S, 0)]) \o G
      BY <1>4, <1>10, <3>1
    <3>5. SameBut(Q, R, MaxOf(S, 0))
      BY <1>10, <3>1 DEF SameBut
    <3>6. Conv(S, Q) = [Conv(S, R) EXCEPT ![Len(Conv(S, R))].turns = @ \o G]
      <4>1. Tells(S, R, Q, G, MaxWall)
        BY <1>9, <1>10, <2>2, <3>4, <3>5 DEF Tells
      <4> QED BY <4>1, ConvIsTold
    <3> QED BY <1>5, <3>2, <3>3, <3>6 DEF AppendTurnsTo
  <2> QED BY <2>1, <2>2
<1> QED BY <1>8, <1>11 DEF G

\* A reset, seen from the abstract store.
LEMMA NewSessionIsTold ==
  ASSUME ConvInv, NEW k \in ConvKeys, NewSession(k)
  PROVE  Told' = [Told EXCEPT ![k] = NewSessionOf(Told[k])]
<1> DEFINE R == turnRows[k]  S == sessionRows[k]  a == activeSession(k)
<1>0. dbOpen /\ dbSchema' = dbSchema
  BY DEF NewSession
<1>1. dbSchema = "v2" /\ dbSchema' = "v2"
  BY <1>0, OpenIsV2
<1>2. /\ R \in [SessionIds -> Histories(MaxWall)] /\ S \in SUBSET SessionIds
      /\ \A s \in SessionIds : s \notin S => R[s] = <<>>
      /\ 1 .. MaxSessions \in SUBSET SessionIds
  BY <1>1, KeyOf DEF Registered
<1>3. /\ a + 1 \in 1 .. MaxSessions /\ turnRows' = turnRows
      /\ \/ sessionRows' = sessionRows /\ S # {} /\ R[a] = <<>>
         \/ /\ sessionRows' = [sessionRows EXCEPT ![k] = S \cup {a + 1}]
            /\ S = {} \/ R[a] # <<>>
  BY NewSessionEffect
<1>4. /\ a \in 0 .. MaxSessions /\ (S # {} => a = MaxOf(S, 0) /\ a \in S) /\ (S = {} => a = 0)
      /\ \A s \in S : s <= a
  BY ActiveIs
<1>5. \A j \in ConvKeys : j # k => turnRows'[j] = turnRows[j] /\ sessionRows'[j] = sessionRows[j]
  BY <1>3 DEF ConvInv, ConvTypes
<1>6. turnRows'[k] = R /\ (sessionRows'[k] = S \/ sessionRows'[k] = S \cup {a + 1})
  BY <1>3 DEF ConvInv, ConvTypes
<1>7. Told' = [Told EXCEPT ![k] = Conv(sessionRows'[k], R)] /\ Told[k] = Conv(S, R)
  BY <1>1, <1>5, <1>6, OneKeyMoves
<1>8. CASE sessionRows' = sessionRows /\ S # {} /\ R[a] = <<>>
  <2>1. sessionRows'[k] = S
    BY <1>8
  <2> HIDE DEF R, S, a
  <2>2. LastOf(Conv(S, R)).turns = Loaded(R[a]) /\ Conv(S, R) # <<>>
    BY <1>2, <1>4, <1>8, ConvIsEmpty
  <2>3. Loaded(R[a]) = <<>>
    BY <1>2, <1>4, <1>8, LoadedHistory
  <2>4. NewSessionOf(Conv(S, R)) = Conv(S, R)
    BY <2>2, <2>3 DEF NewSessionOf
  <2> QED BY <1>7, <2>1, <2>4
<1>9. CASE sessionRows' = [sessionRows EXCEPT ![k] = S \cup {a + 1}] /\ (S = {} \/ R[a] # <<>>)
  <2>1. sessionRows'[k] = S \cup {a + 1}
    BY <1>9 DEF ConvInv, ConvTypes
  <2> HIDE DEF R, S, a
  <2>2. a + 1 \in SessionIds /\ \A s \in S : s < a + 1
    <3>1. \A s \in S : s \in Int
      BY <1>2 DEF SessionIds
    <3> QED BY <1>2, <1>3, <1>4, <3>1
  <2>3. R[a + 1] = <<>>
    <3>1. a + 1 \notin S
      BY <1>4, <2>2
    <3> QED BY <1>2, <2>2, <3>1
  <2>4. Conv(S \cup {a + 1}, R) = Append(Conv(S, R), [id |-> a + 1, turns |-> <<>>])
    <3>1. MayGrow(S, R, a + 1, MaxWall)
      BY <1>2, <2>2, <2>3 DEF MayGrow
    <3> QED BY <3>1, ConvGrows
  <2>5. NewSessionOf(Conv(S, R)) = Append(Conv(S, R), [id |-> a + 1, turns |-> <<>>])
    <3>1. CASE S = {}
      <4>1. Conv(S, R) = <<>>
        BY <1>2, <3>1, ConvIsEmpty
      <4>3. a + 1 = 1
        BY <1>4, <3>1
      <4>2. Append(<<>>, [id |-> 1, turns |-> <<>>]) = <<[id |-> 1, turns |-> <<>>]>>
        <5> DEFINE e == [id |-> 1, turns |-> <<>>]
        <5> HIDE DEF e
        <5>1. Append(<<>>, e) = <<e>>
          OBVIOUS
        <5> QED BY <5>1 DEF e
      <4> QED BY <4>1, <4>2, <4>3 DEF NewSessionOf
    <3>2. CASE S # {}
      <4>1. Conv(S, R) # <<>> /\ LastOf(Conv(S, R)).id = a /\ LastOf(Conv(S, R)).turns = Loaded(R[a])
        BY <1>2, <1>4, <3>2, ConvIsEmpty
      <4>2. Loaded(R[a]) # <<>>
        BY <1>2, <1>4, <1>9, <3>2, LoadedHistory
      <4> QED BY <4>1, <4>2 DEF NewSessionOf
    <3> QED BY <3>1, <3>2
  <2> QED BY <1>7, <2>1, <2>4, <2>5
<1> QED BY <1>3, <1>8, <1>9

\* A deletion, seen from the abstract store.
LEMMA DeleteConversationIsTold ==
  ASSUME ConvInv, NEW k \in ConvKeys, DeleteConversation(k)
  PROVE  Told' = [Told EXCEPT ![k] = <<>>]
<1>0. dbOpen /\ dbSchema' = dbSchema
  BY DEF DeleteConversation
<1>1. dbSchema = "v2" /\ dbSchema' = "v2"
  BY <1>0, OpenIsV2
<1>2. /\ turnRows'[k] = NoTurns /\ sessionRows'[k] = {}
      /\ \A j \in ConvKeys : j # k => turnRows'[j] = turnRows[j] /\ sessionRows'[j] = sessionRows[j]
  BY DEF DeleteConversation, ConvInv, ConvTypes
<1>3. Told' = [Told EXCEPT ![k] = Conv({}, NoTurns)]
  BY <1>1, <1>2, OneKeyMoves
<1>4. Conv({}, NoTurns) = <<>>
  BY NoTurnsIs, ConvIsEmpty
<1> QED BY <1>3, <1>4

\* The deletion of an archived session, seen from the abstract store.
LEMMA DeleteSessionIsTold ==
  ASSUME ConvInv, NEW k \in ConvKeys, NEW id \in 1 .. MaxSessions, DeleteSession(k, id)
  PROVE  Told' = [Told EXCEPT ![k] = DeleteSessionOf(Told[k], id)]
<1> DEFINE R == turnRows[k]  S == sessionRows[k]  Q == [R EXCEPT ![id] = <<>>]
<1>0. dbOpen /\ dbSchema' = dbSchema
  BY DEF DeleteSession
<1>1. dbSchema = "v2" /\ dbSchema' = "v2"
  BY <1>0, OpenIsV2
<1>2. /\ turnRows' = [turnRows EXCEPT ![k] = Q] /\ sessionRows' = [sessionRows EXCEPT ![k] = S \ {id}]
      /\ Q \in [SessionIds -> Histories(MaxWall)] /\ \A s \in SessionIds : s # id => Q[s] = R[s]
      /\ S # {} /\ activeSession(k) # id
  BY DeleteSessionEffect
<1>3. R \in [SessionIds -> Histories(MaxWall)] /\ S \in SUBSET SessionIds
  BY KeyOf
<1>4. id # MaxOf(S, 0)
  BY <1>2, ActiveIs
<1>5. turnRows'[k] = Q /\ sessionRows'[k] = S \ {id}
  BY <1>2 DEF ConvInv, ConvTypes
<1>6. \A j \in ConvKeys : j # k => turnRows'[j] = turnRows[j] /\ sessionRows'[j] = sessionRows[j]
  BY <1>2 DEF ConvInv, ConvTypes
<1>7. Told' = [Told EXCEPT ![k] = Conv(S \ {id}, Q)] /\ Told[k] = Conv(S, R)
  BY <1>1, <1>5, <1>6, OneKeyMoves
<1> HIDE DEF Q, R, S
<1>8. Conv(S \ {id}, Q) = DeleteSessionOf(Conv(S, R), id)
  <2>1. SameBut(Q, R, id)
    BY <1>2 DEF SameBut
  <2> QED BY <1>2, <1>3, <1>4, <2>1, ConvForgets
<1> QED BY <1>7, <1>8

\* A step that leaves turns and sessions leaves the table.
LEMMA NothingTold ==
  ASSUME UNCHANGED <<dbSchema, sessionRows, turnRows>>
  PROVE  Told' = Told
<1>1. \A k : ConversationOf(k)' = ConversationOf(k)
  BY DEF ConversationOf, LoadSession, ListSessions
<1> QED BY <1>1 DEF Told

\* The abstract store's operators on sessions are the same.
LEMMA SameSessions ==
  /\ \A g, v : Mem!StampedGroup(g, v) = StampedGroup(g, v)
  /\ \A c, t : Mem!AppendTurnsTo(c, t) = AppendTurnsTo(c, t)
  /\ \A c : Mem!NewSessionOf(c) = NewSessionOf(c)
  /\ \A c, id : Mem!DeleteSessionOf(c, id) = DeleteSessionOf(c, id)
<1>1. \A g, v : Mem!StampedGroup(g, v) = StampedGroup(g, v)
  BY DEF StampedGroup, Mem!StampedGroup
<1>2. \A c, t : Mem!AppendTurnsTo(c, t) = AppendTurnsTo(c, t)
  BY DEF AppendTurnsTo, Mem!AppendTurnsTo
<1>3. \A c : Mem!NewSessionOf(c) = NewSessionOf(c)
  BY DEF NewSessionOf, Mem!NewSessionOf, LastOf, Mem!LastOf
<1>4. \A c, id : Mem!DeleteSessionOf(c, id) = DeleteSessionOf(c, id)
  <2>1. \A S : Mem!InOrder(S) = InOrder(S)
    BY Zenon DEF InOrder, Mem!InOrder, Cardinality, Mem!Cardinality
  <2>2. \A c : Mem!LastOf(c) = LastOf(c)
    BY DEF LastOf, Mem!LastOf
  <2> QED BY <2>1, <2>2 DEF DeleteSessionOf, Mem!DeleteSessionOf
<1> QED BY <1>1, <1>2, <1>3, <1>4

\* Initial states map to initial states.
LEMMA MemStarts == ConvInit => Mem!MemInit
<1> SUFFICES ASSUME ConvInit PROVE Mem!MemInit
  OBVIOUS
<1>1. sessionRows = [k \in ConvKeys |-> {}]
  BY DEF ConvInit
<1> DEFINE Starts == {<<>>} \cup {<<[id |-> 1, turns |-> StampedGroup(g, 1)]>> : g \in TurnGroups}
<1>3. ASSUME NEW k \in ConvKeys PROVE ConversationOf(k) \in Starts
  <2>1. CASE dbSchema = "none" /\ turnRows = [j \in ConvKeys |-> NoTurns]
    <3>1. ConversationOf(k) = Conv({}, NoTurns)
      BY <1>1, <2>1, ConversationIs
    <3>2. Conv({}, NoTurns) = <<>>
      BY NoTurnsIs, ConvIsEmpty
    <3> QED BY <3>1, <3>2
  <2>2. ASSUME dbSchema = "v1", NEW g \in TurnGroups, NEW j \in ConvKeys,
               turnRows = [[i \in ConvKeys |-> NoTurns] EXCEPT ![j][0] = Rows(g, 0, 1)]
        PROVE  ConversationOf(k) \in Starts
    <3> DEFINE R == Rows(g, 0, 1)
    <3>0. 0 \in SessionIds
      BY ConversationAssumption DEF SessionIds
    <3>1. turnRows[k][0] = IF k = j THEN R ELSE <<>>
      <4>1. NoTurns = [s \in SessionIds |-> <<>>]
        BY DEF NoTurns
      <4> HIDE DEF R
      <4>2. turnRows = [[i \in ConvKeys |-> NoTurns] EXCEPT ![j][0] = R]
        BY <2>2 DEF R
      <4> QED BY <3>0, <4>1, <4>2
    <3>2. R # <<>> /\ Loaded(R) = StampedGroup(g, 1)
      BY FirstRows, ConversationAssumption
    <3> HIDE DEF R
    <3>3. CASE k = j
      <4>1. ConversationOf(k) = <<[id |-> 1, turns |-> StampedGroup(g, 1)]>>
        BY <2>2, <3>1, <3>2, <3>3, OldConversationIs
      <4> QED BY <4>1
    <3>4. CASE k # j
      <4>1. ConversationOf(k) = <<>>
        BY <2>2, <3>1, <3>4, OldConversationIs
      <4> QED BY <4>1
    <3> QED BY <3>3, <3>4
  <2> QED BY <2>1, <2>2 DEF ConvInit
<1>4. Told \in [ConvKeys -> Starts]
  BY <1>3 DEF Told
<1>5. Starts = {<<>>} \cup {<<[id |-> 1, turns |-> Mem!StampedGroup(g, 1)]>> : g \in TurnGroups}
  BY SameSessions
<1> QED BY <1>4, <1>5 DEF Mem!MemInit, Told

\* Every step maps to a step or to a stutter.
LEMMA MemSteps ==
  ASSUME ConvInv, [ConvNext]_convVars
  PROVE  [Mem!MemNext]_Told
<1>1. CASE Open
  BY <1>1, OpenShowsTheSame DEF Told
<1>2. CASE Close
  BY <1>2, NothingTold DEF Close
<1>3. CASE UNCHANGED convVars
  BY <1>3, NothingTold DEF convVars
<1>4. ASSUME NEW k \in ConvKeys, NEW g \in TurnGroups, NEW at \in 1 .. MaxWall, AppendTurns(k, g, at)
      PROVE  Mem!AppendTurns(k, g, at)
  <2>1. Told' = [Told EXCEPT ![k] = AppendTurnsTo(Told[k], StampedGroup(g, at))]
    BY <1>4, AppendIsTold
  <2> QED BY <2>1, SameSessions DEF Mem!AppendTurns, Mem!Becomes, Told
<1>5. ASSUME NEW k \in ConvKeys, NewSession(k)
      PROVE  Mem!NewSession(k)
  <2>1. Told' = [Told EXCEPT ![k] = NewSessionOf(Told[k])]
    BY <1>5, NewSessionIsTold
  <2> QED BY <2>1, SameSessions DEF Mem!NewSession, Mem!Becomes, Told
<1>6. ASSUME NEW k \in ConvKeys, DeleteConversation(k)
      PROVE  Mem!DeleteConversation(k)
  <2>1. Told' = [Told EXCEPT ![k] = <<>>]
    BY <1>6, DeleteConversationIsTold
  <2> QED BY <2>1 DEF Mem!DeleteConversation, Mem!Becomes, Told
<1>7. ASSUME NEW k \in ConvKeys, NEW id \in 1 .. MaxSessions, DeleteSession(k, id)
      PROVE  Mem!DeleteSession(k, id)
  <2>1. Told' = [Told EXCEPT ![k] = DeleteSessionOf(Told[k], id)]
    BY <1>7, DeleteSessionIsTold
  <2> QED BY <2>1, SameSessions DEF Mem!DeleteSession, Mem!Becomes, Told
<1>8. ASSUME NEW s \in NoteScopes, AppendNote(s) \/ ClearNotes(s)
      PROVE  Told' = Told
  BY <1>8, NothingTold DEF AppendNote, ClearNotes
<1> QED BY <1>1, <1>2, <1>3, <1>4, <1>5, <1>6, <1>7, <1>8 DEF ConvNext, Mem!MemNext

\* The conversation store on disk (sqlite.go) takes the steps of the in-memory store
\* (memstore.go) on turns and sessions and no other, for every set of keys and groups
\* and every time the callers stamp: an append is whole and goes to the session a
\* reset opened last, an archived session leaves nothing behind, and the migration of
\* an old file changes no conversation.
THEOREM DiskImplementsMemory == ConvSpec => SqliteImplementsMem
<1>1. ConvInv /\ [ConvNext]_convVars => [Mem!MemNext]_Told
  BY MemSteps
<1> QED BY <1>1, MemStarts, ConvHolds, PTL DEF ConvSpec, SqliteImplementsMem, Mem!MemSpec, Told

---------------------------------------------------------------------------
(* Every query answers what the in-memory store answers.                   *)

\* The tables of a key, once the file is migrated.
Kept(S, R, w) ==
  /\ w \in Nat /\ S \in SUBSET SessionIds /\ R \in [SessionIds -> Histories(w)]
  /\ \A s \in SessionIds : s \notin S => R[s] = <<>>

\* ORDER BY seq DESC LIMIT n, turned round, is the tail of the session.
LEMMA TailIsRead ==
  ASSUME NEW w, NEW rows \in Histories(w), NEW n \in Nat
  PROVE  LastRows(rows, n) = TailOf(Loaded(rows), n)
<1> DEFINE seqs == InOrder(DOMAIN rows)  h == Loaded(rows)
<1>1. PICK m \in Nat : rows \in [0 .. m - 1 -> Turns(w)]
  BY HistoryIs
<1>2. DOMAIN seqs = 1 .. m /\ \A i \in 1 .. m : seqs[i] = i - 1
  BY <1>1, LoadedIs
<1>3. h = [i \in 1 .. m |-> rows[i - 1]] /\ h \in Seq(Turns(w)) /\ Len(h) = m
  BY <1>1, LoadedIs, SMTT(40)
<1>4. Len(seqs) = m
  <2>1. seqs = [i \in 1 .. m |-> i - 1]
    BY <1>1, InOrderFromZero
  <2>2. \A i \in 1 .. m : i - 1 \in Int
    OBVIOUS
  <2>3. seqs \in [1 .. m -> Int]
    BY <2>1, <2>2
  <2> HIDE DEF seqs
  <2> QED BY <2>3
<1> DEFINE skip == IF m > n THEN m - n ELSE 0
<1>5. LastRows(rows, n) = [i \in 1 .. m - skip |-> rows[seqs[i + skip]]]
  BY <1>4 DEF LastRows
<1> HIDE DEF seqs, h
<1>6. skip \in 0 .. m /\ \A i \in 1 .. m - skip : i + skip \in 1 .. m
  OBVIOUS
<1>7. LastRows(rows, n) = [i \in 1 .. m - skip |-> h[i + skip]]
  <2> HIDE DEF skip
  <2>1. \A i \in 1 .. m - skip : rows[seqs[i + skip]] = h[i + skip]
    BY <1>2, <1>3, <1>6
  <2> QED BY <1>5, <2>1
<1>8. CASE n >= m
  <2>1. TailOf(h, n) = h /\ skip = 0
    BY <1>3, <1>8 DEF TailOf
  <2>2. [i \in 1 .. m - skip |-> h[i + skip]] = [i \in 1 .. m |-> h[i]]
    BY <2>1
  <2>3. h = [i \in 1 .. m |-> h[i]]
    BY <1>3
  <2> QED BY <1>7, <2>1, <2>2, <2>3 DEF h
<1>9. CASE ~(n >= m)
  <2>1. TailOf(h, n) = SubSeq(h, m - n + 1, m) /\ skip = m - n
    BY <1>3, <1>9 DEF TailOf
  <2>2. SubSeq(h, m - n + 1, m) = [i \in 1 .. n |-> h[i + (m - n)]]
    <3>1. SubSeq(h, m - n + 1, m) = [i \in 1 .. (1 + m - (m - n + 1)) |-> h[(m - n + 1) + i - 1]]
      BY <1>3, <1>9
    <3>2. 1 + m - (m - n + 1) = n /\ \A i \in 1 .. n : (m - n + 1) + i - 1 = i + (m - n)
      BY <1>9
    <3> QED BY <3>1, <3>2
  <2>3. m - skip = n
    BY <2>1
  <2> QED BY <1>7, <2>1, <2>2, <2>3 DEF h
<1> QED BY <1>8, <1>9

\* A session is found by its id; one that is not registered is empty.
LEMMA SessionIsFound ==
  ASSUME NEW w, NEW S, NEW R, Kept(S, R, w), NEW id \in SessionIds
  PROVE  LoadSessionOf(Conv(S, R), id) = Loaded(R[id])
<1> USE DEF Kept
<1> DEFINE c == Conv(S, R)  N == Cardinality(S)
<1>1. /\ DOMAIN c = 1 .. N
      /\ \A i \in 1 .. N : c[i].id = InOrder(S)[i] /\ c[i].turns = Loaded(R[InOrder(S)[i]])
      /\ \A i \in 1 .. N : InOrder(S)[i] \in S
  BY ConvIs, ConvAt
<1>2. CASE \E i \in DOMAIN c : c[i].id = id
  <2> DEFINE j == CHOOSE i \in DOMAIN c : c[i].id = id
  <2>1. j \in DOMAIN c /\ c[j].id = id
    BY <1>2
  <2>2. LoadSessionOf(c, id) = c[j].turns
    BY <1>2 DEF LoadSessionOf
  <2> HIDE DEF j, c
  <2> QED BY <1>1, <2>1, <2>2 DEF c
<1>3. CASE ~\E i \in DOMAIN c : c[i].id = id
  <2>1. id \notin S
    <3>1. SUFFICES ASSUME id \in S PROVE FALSE
      OBVIOUS
    <3>2. IsFiniteSet(S) /\ S \in SUBSET Int
      BY SessionSets
    <3>3. PICK i \in 1 .. N : InOrder(S)[i] = id
      BY <3>1, <3>2, InOrderLists
    <3> QED BY <1>1, <1>3, <3>3
  <2>2. R[id] = <<>>
    BY <2>1
  <2>3. Loaded(R[id]) = <<>>
    BY <2>2, LoadedHistory
  <2> QED BY <1>3, <2>3 DEF LoadSessionOf
<1> QED BY <1>2, <1>3

\* ListSessions agrees on the sessions and how many turns each has.
LEMMA SessionsAreListed ==
  ASSUME ConvInv, NEW k \in ConvKeys, Kept(sessionRows[k], turnRows[k], MaxWall)
  PROVE  Untimed(ListSessions(k)) = Untimed(ListSessionsOf(Conv(sessionRows[k], turnRows[k])))
<1> DEFINE S == sessionRows[k]  R == turnRows[k]  c == Conv(S, R)  f == InOrder(S)  N == Cardinality(S)
           L == ListSessions(k)  M == ListSessionsOf(c)
<1>0. S \in SUBSET SessionIds /\ R \in [SessionIds -> Histories(MaxWall)]
  BY DEF Kept
<1>1. /\ DOMAIN c = 1 .. N
      /\ \A i \in 1 .. N : c[i].id = f[i] /\ c[i].turns = Loaded(R[f[i]]) /\ f[i] \in S
  BY <1>0, ConvIs, ConvAt, SMTT(40)
<1>2. DOMAIN f = 1 .. N
  BY DEF InOrder
<1>3. /\ DOMAIN L = 1 .. N
      /\ \A i \in 1 .. N : L[i].id = f[i] /\ L[i].turns = Cardinality(DOMAIN R[f[i]])
  BY <1>2 DEF ListSessions
<1>4. ASSUME NEW i \in 1 .. N
      PROVE  Cardinality(DOMAIN R[f[i]]) = Len(c[i].turns)
  <2> DEFINE rows == R[f[i]]
  <2>1. f[i] \in SessionIds
    BY <1>0, <1>1
  <2>2. rows \in Histories(MaxWall)
    BY <1>0, <2>1
  <2>3. c[i].turns = Loaded(rows)
    BY <1>1
  <2> HIDE DEF rows, c
  <2>4. Cardinality(DOMAIN rows) = Len(Loaded(rows))
    BY <2>2, LoadedHistory
  <2> QED BY <2>3, <2>4 DEF rows
<1> HIDE DEF c
<1>5. /\ DOMAIN M = 1 .. N
      /\ \A i \in 1 .. N : M[i].id = c[i].id /\ M[i].turns = Len(c[i].turns)
  BY <1>1 DEF ListSessionsOf
<1> HIDE DEF L, M, f
<1>6. \A i \in 1 .. N : L[i].id = M[i].id /\ L[i].turns = M[i].turns
  BY <1>1, <1>3, <1>4, <1>5
<1>7. Untimed(L) = Untimed(M)
  BY <1>3, <1>5, <1>6 DEF Untimed
<1> QED BY <1>7 DEF L, M, c

\* The places of a conversation's turns, and the primary keys of its rows.
Places(c) == UNION {{i} \X DOMAIN c[i].turns : i \in DOMAIN c}
RowKeys(R) == UNION {{s} \X DOMAIN R[s] : s \in SessionIds}

\* A place is a session and a turn of it.
LEMMA PlaceIs ==
  ASSUME NEW c, NEW t
  PROVE  t \in Places(c) <=> \E i \in DOMAIN c : \E p \in DOMAIN c[i].turns : t = <<i, p>>
BY DEF Places

\* A primary key is a session and a number of it.
LEMMA RowKeyIs ==
  ASSUME NEW R, NEW t
  PROVE  t \in RowKeys(R) <=> \E s \in SessionIds : \E q \in DOMAIN R[s] : t = <<s, q>>
BY DEF RowKeys

\* The session at place i of a conversation holds the rows of its id, one place later.
LEMMA PlaceOfRow ==
  ASSUME NEW w, NEW S, NEW R, Kept(S, R, w), NEW i \in 1 .. Cardinality(S)
  PROVE  LET s == InOrder(S)[i]  c == Conv(S, R) IN
         /\ s \in S /\ s \in SessionIds
         /\ \E n \in Nat : /\ R[s] \in [0 .. n - 1 -> Turns(w)] /\ DOMAIN R[s] = 0 .. n - 1
                           /\ Len(c[i].turns) = n /\ DOMAIN c[i].turns = 1 .. n
                           /\ \A p \in 1 .. n : c[i].turns[p] = R[s][p - 1]
                           /\ (c[i].turns = <<>> <=> n = 0)
<1> USE DEF Kept
<1> DEFINE s == InOrder(S)[i]  c == Conv(S, R)
<1>1. s \in S /\ s \in SessionIds /\ c[i].turns = Loaded(R[s])
  BY ConvAt
<1> HIDE DEF s, c
<1>2. PICK n \in Nat : R[s] \in [0 .. n - 1 -> Turns(w)]
  BY <1>1, HistoryIs
<1>3. /\ Loaded(R[s]) = [p \in 1 .. n |-> R[s][p - 1]] /\ Len(Loaded(R[s])) = n
      /\ Loaded(R[s]) \in Seq(Turns(w))
  <2> DEFINE rows == R[s]
  <2>1. rows \in [0 .. n - 1 -> Turns(w)]
    BY <1>2
  <2> HIDE DEF rows
  <2>2. /\ Loaded(rows) = [p \in 1 .. n |-> rows[p - 1]] /\ Len(Loaded(rows)) = n
        /\ Loaded(rows) \in Seq(Turns(w))
    BY <2>1, LoadedIs, SMTT(40)
  <2> QED BY <2>2 DEF rows
<1>4. Loaded(R[s]) = <<>> <=> n = 0
  BY <1>3, EmptySeq
<1>5. DOMAIN R[s] = 0 .. n - 1
  BY <1>2
<1>6. DOMAIN c[i].turns = 1 .. n /\ \A p \in 1 .. n : c[i].turns[p] = R[s][p - 1]
  BY <1>1, <1>3
<1> QED BY <1>1, <1>2, <1>3, <1>4, <1>5, <1>6 DEF s, c

\* A conversation has finitely many turns.
LEMMA FinitePlaces ==
  ASSUME NEW c, NEW N \in Nat, DOMAIN c = 1 .. N, \A i \in 1 .. N : IsFiniteSet(DOMAIN c[i].turns)
  PROVE  IsFiniteSet(Places(c))
<1> DEFINE A == {{i} \X DOMAIN c[i].turns : i \in DOMAIN c}
           g == [i \in 1 .. N |-> {i} \X DOMAIN c[i].turns]
<1>1. g \in Surjection(1 .. N, A)
  <2>1. g \in [1 .. N -> A] /\ \A T \in A : \E i \in 1 .. N : g[i] = T
    OBVIOUS
  <2> HIDE DEF g, A
  <2> QED BY <2>1, Fun_IsSurj
<1>2. IsFiniteSet(1 .. N)
  BY FS_Interval
<1>3. \A i \in 1 .. N : IsFiniteSet({i} \X DOMAIN c[i].turns)
  BY FS_Singleton, FS_Product
<1>4. \A T \in A : IsFiniteSet(T)
  BY <1>3
<1> HIDE DEF g, A
<1>5. IsFiniteSet(A)
  BY <1>1, <1>2, FS_Surjection
<1>6. IsFiniteSet(UNION A)
  BY <1>4, <1>5, FS_UNION
<1> QED BY <1>6 DEF A, Places

\* Both count the same turns.
LEMMA TurnsAreCounted ==
  ASSUME NEW w, NEW S, NEW R, Kept(S, R, w)
  PROVE  Cardinality(RowKeys(R)) = TurnCountOf(Conv(S, R))
<1> DEFINE c == Conv(S, R)  N == Cardinality(S)  f == InOrder(S)  P == Places(c)  K == RowKeys(R)
           h == [t \in P |-> <<f[t[1]], t[2] - 1>>]
<1>0. /\ S \in SUBSET SessionIds /\ R \in [SessionIds -> Histories(w)]
      /\ \A s \in SessionIds : s \notin S => R[s] = <<>>
  BY DEF Kept
<1>1. IsFiniteSet(S) /\ S \in SUBSET Int /\ N \in Nat
  BY <1>0, SessionSets
<1>2. DOMAIN c = 1 .. N
  BY <1>0, ConvIs
<1>3. ASSUME NEW i \in 1 .. N
      PROVE  /\ f[i] \in SessionIds
             /\ \E n \in Nat : DOMAIN R[f[i]] = 0 .. n - 1 /\ DOMAIN c[i].turns = 1 .. n
  BY PlaceOfRow, SMTT(40)
<1>4. \A i \in 1 .. N : IsFiniteSet(DOMAIN c[i].turns)
  BY <1>3, FS_Interval, SMTT(40)
<1> HIDE DEF c, f
<1>5. IsFiniteSet(P)
  BY <1>1, <1>2, <1>4, FinitePlaces
<1>6. ASSUME NEW t \in P
      PROVE  t[1] \in 1 .. N /\ t[2] \in Nat /\ t = <<t[1], t[2]>> /\ h[t] \in K
             /\ h[t] = <<f[t[1]], t[2] - 1>>
  <2>0. PICK i \in 1 .. N : \E p \in DOMAIN c[i].turns : t = <<i, p>>
    <3>1. \E i \in DOMAIN c : \E p \in DOMAIN c[i].turns : t = <<i, p>>
      BY PlaceIs
    <3> QED BY <1>2, <3>1
  <2>1. PICK p \in DOMAIN c[i].turns : t = <<i, p>>
    BY <2>0
  <2>2. t[1] = i /\ t[2] = p
    BY <2>1
  <2>3. PICK n \in Nat : DOMAIN R[f[i]] = 0 .. n - 1 /\ DOMAIN c[i].turns = 1 .. n
    BY <1>3
  <2>4. p \in Nat /\ p - 1 \in DOMAIN R[f[i]]
    BY <2>3
  <2>5. <<f[i], p - 1>> \in K
    BY <1>3, <2>4, RowKeyIs
  <2>6. h[t] = <<f[t[1]], t[2] - 1>>
    OBVIOUS
  <2> HIDE DEF h, K, P
  <2> QED BY <2>1, <2>2, <2>4, <2>5, <2>6
<1>7. h \in [P -> K]
  BY <1>6
<1>8. ASSUME NEW t \in P, NEW u \in P, h[t] = h[u]  PROVE t = u
  <2> HIDE DEF h, P, K, N
  <2>0. t[1] \in 1 .. N /\ u[1] \in 1 .. N /\ t[2] \in Nat /\ u[2] \in Nat
    BY <1>6
  <2>1. f[t[1]] = f[u[1]] /\ t[2] - 1 = u[2] - 1
    BY <1>6, <1>8
  <2>2. t[2] = u[2]
    BY <2>0, <2>1
  <2>3. t[1] = u[1]
    <3>1. ~(t[1] < u[1]) /\ ~(u[1] < t[1])
      <4>1. t[1] \in 1 .. N /\ u[1] \in 1 .. N
        BY <2>0
      <4>2. f[t[1]] \in Int /\ f[u[1]] \in Int
        BY <1>3, <4>1 DEF SessionIds
      <4>3. /\ t[1] < u[1] <=> f[t[1]] < f[u[1]]
            /\ u[1] < t[1] <=> f[u[1]] < f[t[1]]
        BY <1>1, <4>1, InOrderIncreases DEF f, N
      <4> QED BY <2>1, <4>2, <4>3
    <3>2. t[1] \in Int /\ u[1] \in Int
      BY <1>1, <2>0
    <3> QED BY <3>1, <3>2
  <2> QED BY <1>6, <2>2, <2>3
<1>9. ASSUME NEW z \in K  PROVE \E t \in P : h[t] = z
  <2>0. PICK s \in SessionIds : \E q \in DOMAIN R[s] : z = <<s, q>>
    BY RowKeyIs
  <2>1. PICK q \in DOMAIN R[s] : z = <<s, q>>
    BY <2>0
  <2>2. s \in S
    <3>1. DOMAIN <<>> = {}
      OBVIOUS
    <3> QED BY <1>0, <2>1, <3>1
  <2>3. PICK i \in 1 .. N : f[i] = s
    BY <1>1, <2>2, InOrderLists DEF f
  <2>4. PICK n \in Nat : DOMAIN R[f[i]] = 0 .. n - 1 /\ DOMAIN c[i].turns = 1 .. n
    BY <1>3
  <2>5. q + 1 \in DOMAIN c[i].turns /\ (q + 1) - 1 = q
    BY <2>1, <2>3, <2>4
  <2> DEFINE t == <<i, q + 1>>
  <2>6. t \in P
    BY <1>2, <2>5, PlaceIs
  <2>7. h[t] = <<f[i], (q + 1) - 1>>
    BY <2>6
  <2> QED BY <2>1, <2>3, <2>5, <2>6, <2>7
<1> HIDE DEF h, P, K
<1>10. Cardinality(K) = Cardinality(P)
  BY <1>5, <1>7, <1>8, <1>9, SameSize
<1> QED BY <1>10 DEF K, P, c, TurnCountOf, Places

\* The places of the sessions with turns, and the row that comes last.
Talking(c) == {i \in DOMAIN c : c[i].turns # <<>>}
LatestKey(K) == CHOOSE t \in K : \A u \in K : u[1] < t[1] \/ (u[1] = t[1] /\ u[2] <= t[2])

\* x is the last of the rows, y the turn there.
IsLatest(R, x, y) ==
  /\ x \in RowKeys(R) /\ R[x[1]][x[2]] = y
  /\ \A u \in RowKeys(R) : u[1] < x[1] \/ (u[1] = x[1] /\ u[2] <= x[2])

\* What a row of the key is.
LEMMA RowKeyParts ==
  ASSUME NEW w, NEW S, NEW R, Kept(S, R, w), NEW u \in RowKeys(R)
  PROVE  /\ u = <<u[1], u[2]>> /\ u[1] \in S /\ u[1] \in SessionIds /\ u[1] \in Int
         /\ u[2] \in DOMAIN R[u[1]] /\ u[2] \in Int
<1> USE DEF Kept
<1>0. PICK s \in SessionIds : \E q \in DOMAIN R[s] : u = <<s, q>>
  BY RowKeyIs
<1>1. PICK q \in DOMAIN R[s] : u = <<s, q>>
  BY <1>0
<1>2. u[1] = s /\ u[2] = q
  BY <1>1
<1>3. s \in S
  <2>1. DOMAIN <<>> = {}
    OBVIOUS
  <2> QED BY <1>1, <2>1
<1>4. PICK n \in Nat : R[s] \in [0 .. n - 1 -> Turns(w)]
  BY HistoryIs
<1>5. q \in Int
  BY <1>1, <1>4
<1>6. s \in Int
  BY DEF SessionIds
<1> QED BY <1>1, <1>2, <1>3, <1>5, <1>6

\* There is one latest row.
LEMMA LatestIs ==
  ASSUME NEW w, NEW S, NEW R, Kept(S, R, w), NEW x, NEW y, IsLatest(R, x, y)
  PROVE  LatestKey(RowKeys(R)) = x
<1> DEFINE K == RowKeys(R)  z == LatestKey(K)
<1>1. x \in K /\ \A u \in K : u[1] < x[1] \/ (u[1] = x[1] /\ u[2] <= x[2])
  BY DEF IsLatest
<1>2. ASSUME NEW u \in K  PROVE u = <<u[1], u[2]>> /\ u[1] \in Int /\ u[2] \in Int
  BY RowKeyParts
<1> HIDE DEF K
<1>3. z \in K /\ \A u \in K : u[1] < z[1] \/ (u[1] = z[1] /\ u[2] <= z[2])
  BY <1>1 DEF LatestKey
<1> HIDE DEF z
<1>4. x[1] = z[1] /\ x[2] = z[2]
  <2>1. x[1] < z[1] \/ (x[1] = z[1] /\ x[2] <= z[2])
    BY <1>1, <1>3
  <2>2. z[1] < x[1] \/ (z[1] = x[1] /\ z[2] <= x[2])
    BY <1>1, <1>3
  <2>3. x[1] \in Int /\ x[2] \in Int /\ z[1] \in Int /\ z[2] \in Int
    BY <1>1, <1>2, <1>3
  <2> QED BY <2>1, <2>2, <2>3
<1>5. z = x
  BY <1>1, <1>2, <1>3, <1>4
<1> QED BY <1>5 DEF z, K

\* The latest row is the last turn of the latest session that has one.
LEMMA TalkingIs ==
  ASSUME NEW w, NEW S, NEW R, Kept(S, R, w)
  PROVE  LET c == Conv(S, R)  T == Talking(c) IN
         /\ T = {} <=> RowKeys(R) = {}
         /\ T # {} => \E x : IsLatest(R, x, LastOf(c[MaxOf(T, 0)].turns))
<1> DEFINE c == Conv(S, R)  T == Talking(c)  N == Cardinality(S)  f == InOrder(S)  K == RowKeys(R)
<1>1. IsFiniteSet(S) /\ S \in SUBSET Int /\ N \in Nat /\ DOMAIN c = 1 .. N
  BY SessionSets, ConvIs DEF Kept
<1>2. ASSUME NEW i \in 1 .. N
      PROVE  /\ f[i] \in S /\ f[i] \in SessionIds
             /\ \E n \in Nat : /\ DOMAIN R[f[i]] = 0 .. n - 1 /\ Len(c[i].turns) = n
                               /\ \A p \in 1 .. n : c[i].turns[p] = R[f[i]][p - 1]
                               /\ (c[i].turns = <<>> <=> n = 0)
  BY PlaceOfRow
<1>3. ASSUME NEW u \in K
      PROVE  \E i \in T : f[i] = u[1] /\ u[2] \in DOMAIN R[f[i]]
  <2>1. u[1] \in S /\ u[2] \in DOMAIN R[u[1]]
    BY RowKeyParts
  <2>2. PICK i \in 1 .. N : f[i] = u[1]
    BY <1>1, <2>1, InOrderLists
  <2> HIDE DEF c, f, N
  <2>3. c[i].turns # <<>>
    <3>1. PICK n \in Nat : /\ DOMAIN R[f[i]] = 0 .. n - 1 /\ (c[i].turns = <<>> <=> n = 0)
      BY <1>2
    <3> QED BY <2>1, <2>2, <3>1
  <2> QED BY <1>1, <2>1, <2>2, <2>3 DEF Talking
<1> HIDE DEF c, f
<1>4. ASSUME NEW i \in T
      PROVE  /\ i \in 1 .. N /\ \E n \in Nat \ {0} : /\ DOMAIN R[f[i]] = 0 .. n - 1
                                                     /\ Len(c[i].turns) = n
                                                     /\ LastOf(c[i].turns) = R[f[i]][n - 1]
                                                     /\ <<f[i], n - 1>> \in K
  <2>1. i \in 1 .. N /\ c[i].turns # <<>>
    BY <1>1 DEF Talking
  <2>2. PICK n \in Nat : /\ DOMAIN R[f[i]] = 0 .. n - 1 /\ Len(c[i].turns) = n
                         /\ \A p \in 1 .. n : c[i].turns[p] = R[f[i]][p - 1]
                         /\ (c[i].turns = <<>> <=> n = 0)
    BY <1>2, <2>1
  <2>3. n \in Nat \ {0} /\ n \in 1 .. n /\ n - 1 \in DOMAIN R[f[i]]
    BY <2>1, <2>2
  <2>4. LastOf(c[i].turns) = R[f[i]][n - 1]
    BY <2>2, <2>3 DEF LastOf
  <2>5. <<f[i], n - 1>> \in K
    BY <1>2, <2>1, <2>3, RowKeyIs
  <2> HIDE DEF K, T
  <2> QED BY <2>1, <2>2, <2>3, <2>4, <2>5
<1> HIDE DEF T, K
<1>5. T = {} <=> K = {}
  BY <1>3, <1>4
<1>6. ASSUME T # {}  PROVE \E x : IsLatest(R, x, LastOf(c[MaxOf(T, 0)].turns))
  <2> DEFINE m == MaxOf(T, 0)
  <2>1. T \in SUBSET (1 .. N)
    BY <1>4
  <2>2. IsFiniteSet(1 .. N) /\ (1 .. N) \in SUBSET Int
    BY <1>1, FS_Interval
  <2>3. IsFiniteSet(T) /\ T \in SUBSET Int
    BY <2>1, <2>2, FS_Subset
  <2>4. m \in T /\ \A i \in T : i <= m
    BY <1>6, <2>3, LargestIsLast
  <2> HIDE DEF m
  <2>5. PICK n \in Nat \ {0} : /\ DOMAIN R[f[m]] = 0 .. n - 1
                               /\ LastOf(c[m].turns) = R[f[m]][n - 1] /\ <<f[m], n - 1>> \in K
    BY <1>4, <2>4
  <2> DEFINE x == <<f[m], n - 1>>
  <2>6. x[1] = f[m] /\ x[2] = n - 1
    OBVIOUS
  <2> HIDE DEF x
  <2>7. ASSUME NEW u \in K  PROVE u[1] < x[1] \/ (u[1] = x[1] /\ u[2] <= x[2])
    <3>1. PICK i \in T : f[i] = u[1] /\ u[2] \in DOMAIN R[f[i]]
      BY <1>3
    <3>2. i <= m /\ i \in 1 .. N /\ m \in 1 .. N
      BY <2>1, <2>4
    <3>3. i \in Int /\ m \in Int
      BY <1>1, <3>2
    <3>4. CASE i = m
      <4>1. u[2] \in 0 .. n - 1
        BY <2>5, <3>1, <3>4
      <4> QED BY <2>5, <2>6, <3>1, <3>4, <4>1
    <3>5. CASE i < m
      <4>1. f[i] < f[m]
        BY <1>1, <3>2, <3>5, InOrderIncreases DEF f
      <4> QED BY <2>6, <3>1, <4>1
    <3> QED BY <3>2, <3>3, <3>4, <3>5
  <2>8. x \in K
    BY <2>5 DEF x
  <2>9. IsLatest(R, x, LastOf(c[m].turns))
    BY <2>5, <2>6, <2>7, <2>8 DEF IsLatest, K
  <2> QED BY <2>9 DEF m
<1> QED BY <1>5, <1>6 DEF T, K, c

\* A row of ListConversations agrees, but for its time.
LEMMA InfoIsTold ==
  ASSUME ConvInv, NEW k \in ConvKeys, Kept(sessionRows[k], turnRows[k], MaxWall), sessionRows[k] # {}
  PROVE  UntimedInfo(InfoRow(k)) = UntimedInfo(ConversationInfo(Conv(sessionRows[k], turnRows[k])))
<1> DEFINE S == sessionRows[k]  R == turnRows[k]  c == Conv(S, R)  T == Talking(c)  K == RowKeys(R)
<1>1. LastOf(c).id = activeSession(k) /\ Len(c) = Cardinality(S)
  BY ConvIsEmpty, ConvIs DEF Kept, activeSession
<1>2. Cardinality(K) = TurnCountOf(c)
  BY TurnsAreCounted
<1>3. T = {} <=> K = {}
  BY TalkingIs, SMTT(40)
<1>4. UntimedInfo(InfoRow(k)) =
        [active |-> activeSession(k), sessions |-> Cardinality(S), turns |-> Cardinality(K),
         role |-> IF K = {} THEN "" ELSE R[LatestKey(K)[1]][LatestKey(K)[2]].role]
  BY DEF UntimedInfo, InfoRow, TurnKeys, RowKeys, LatestKey
<1> DEFINE last == LastOf(c[CHOOSE i \in T : \A j \in T : j <= i].turns)
<1>5. UntimedInfo(ConversationInfo(c)) =
        [active |-> LastOf(c).id, sessions |-> Len(c), turns |-> TurnCountOf(c),
         role |-> IF T = {} THEN "" ELSE last.role]
  BY DEF UntimedInfo, ConversationInfo, Talking
<1> SUFFICES UntimedInfo(InfoRow(k)) = UntimedInfo(ConversationInfo(c))
  OBVIOUS
<1>6. CASE T = {}
  <2> HIDE DEF c, T, K, S, R, last
  <2> QED BY <1>1, <1>2, <1>3, <1>4, <1>5, <1>6
<1>7. CASE T # {}
  <2>1. last = LastOf(c[MaxOf(T, 0)].turns)
    BY <1>7 DEF MaxOf
  <2>2. PICK x : IsLatest(R, x, LastOf(c[MaxOf(T, 0)].turns))
    BY <1>7, TalkingIs
  <2> HIDE DEF last, c, T, K
  <2>3. IsLatest(R, x, last)
    BY <2>1, <2>2
  <2>4. LatestKey(K) = x
    BY <2>3, LatestIs DEF K
  <2>5. R[LatestKey(K)[1]][LatestKey(K)[2]] = last
    BY <2>3, <2>4 DEF IsLatest
  <2> HIDE DEF S, R
  <2> QED BY <1>1, <1>2, <1>3, <1>4, <1>5, <1>7, <2>5
<1> QED BY <1>6, <1>7

\* The invariant implies that the reads agree.
LEMMA ConvReads == ConvInv => ReadsAgree
<1> SUFFICES ASSUME ConvInv, dbOpen, NEW k \in ConvKeys
             PROVE  LET c == ConversationOf(k) IN
                    /\ \A n \in 0 .. MaxTurns :
                         /\ LoadRecent(k, n) = LoadRecentOf(c, n)
                         /\ \A id \in 1 .. MaxSessions :
                              LoadSessionTail(k, id, n) = LoadSessionTailOf(c, id, n)
                    /\ Untimed(ListSessions(k)) = Untimed(ListSessionsOf(c))
                    /\ k \in Listed => UntimedInfo(InfoRow(k)) = UntimedInfo(ConversationInfo(c))
                    /\ k \in Listed <=> c # <<>>
  BY DEF ReadsAgree
<1> DEFINE S == sessionRows[k]  R == turnRows[k]  c == Conv(S, R)
<1>1. dbSchema = "v2" /\ ConversationOf(k) = c
  BY OpenIsV2, ConversationIs
<1>2. Kept(S, R, MaxWall)
  BY <1>1, KeyOf DEF Kept, Registered
<1>3. /\ S \in SUBSET SessionIds /\ R \in [SessionIds -> Histories(MaxWall)]
      /\ \A s \in SessionIds : s \notin S => R[s] = <<>>
      /\ 1 .. MaxSessions \in SUBSET SessionIds /\ 0 \in SessionIds /\ S \in SUBSET (1 .. MaxSessions)
  BY <1>2, KeyOf DEF Kept
<1>4. ASSUME NEW n \in 0 .. MaxTurns  PROVE LoadRecent(k, n) = LoadRecentOf(c, n)
  <2>1. LoadRecent(k, n) = LastRows(R[activeSession(k)], n) /\ n \in Nat
    BY ConversationAssumption DEF LoadRecent
  <2>2. CASE S = {}
    <3>1. activeSession(k) = 0 /\ R[0] = <<>> /\ c = <<>>
      BY <1>3, <2>2, ActiveIs, ConvIsEmpty
    <3>2. Loaded(<<>>) = <<>> /\ <<>> \in Histories(MaxWall)
      BY EmptyIsHistory, LoadedHistory
    <3>3. LastRows(<<>>, n) = TailOf(<<>>, n)
      BY <2>1, <3>2, TailIsRead
    <3>4. TailOf(<<>>, n) = <<>>
      BY <2>1 DEF TailOf
    <3> QED BY <2>1, <3>1, <3>3, <3>4 DEF LoadRecentOf
  <2>3. CASE S # {}
    <3>1. c # <<>> /\ LastOf(c).turns = Loaded(R[activeSession(k)])
      BY <1>3, <2>3, ActiveIs, ConvIsEmpty
    <3>2. R[activeSession(k)] \in Histories(MaxWall)
      BY <1>3, <2>3, ActiveIs
    <3>3. LastRows(R[activeSession(k)], n) = TailOf(Loaded(R[activeSession(k)]), n)
      BY <2>1, <3>2, TailIsRead
    <3> QED BY <2>1, <3>1, <3>3 DEF LoadRecentOf
  <2> QED BY <2>2, <2>3
<1>5. ASSUME NEW n \in 0 .. MaxTurns, NEW id \in 1 .. MaxSessions
      PROVE  LoadSessionTail(k, id, n) = LoadSessionTailOf(c, id, n)
  <2>1. n \in Nat /\ id \in SessionIds /\ R[id] \in Histories(MaxWall)
    BY <1>3, ConversationAssumption
  <2>2. LoadSessionTail(k, id, n) = TailOf(Loaded(R[id]), n)
    BY <2>1, TailIsRead DEF LoadSessionTail
  <2>3. LoadSessionOf(c, id) = Loaded(R[id])
    BY <1>2, <2>1, SessionIsFound
  <2> QED BY <2>2, <2>3 DEF LoadSessionTailOf
<1>6. Untimed(ListSessions(k)) = Untimed(ListSessionsOf(c))
  BY <1>2, SessionsAreListed
<1>7. k \in Listed <=> S # {}
  BY DEF Listed
<1>8. k \in Listed => UntimedInfo(InfoRow(k)) = UntimedInfo(ConversationInfo(c))
  BY <1>2, <1>7, InfoIsTold
<1>9. k \in Listed <=> c # <<>>
  BY <1>3, <1>7, ConvIsEmpty
<1> HIDE DEF c
<1> QED BY <1>1, <1>4, <1>5, <1>6, <1>8, <1>9

\* LoadRecent, LoadSessionTail, ListSessions and ListConversations of the tables
\* answer what the in-memory store answers, but for the times of the two listings, in
\* every state an open database can reach, whatever the order of the callers' stamps.
THEOREM EveryReadAgrees == ConvSpec => []ReadsAgree
BY ConvHolds, ConvReads, PTL
=============================================================================
