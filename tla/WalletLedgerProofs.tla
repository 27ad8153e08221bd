-------------------------- MODULE WalletLedgerProofs --------------------------
(***************************************************************************)
(* For any calls, accounts and commands: the books balance, and the        *)
(* statements of concurrent postEntry calls implement the ledger book.     *)
(***************************************************************************)
EXTENDS WalletLedger, FiniteSetTheorems, WellFoundedInduction, TLAPS

-----------------------------------------------------------------------------
(* Sums.  MapThenSumSet takes the terms one by one, in an order of its own: what  *)
(* it adds up is the same in any other.                                          *)

\* Sum(f, S) adds f[x] up for the x of S.
First(s) == CHOOSE x \in s : TRUE
Adds(it, f, S) == it = [s \in SUBSET S |-> IF s = {} THEN 0 ELSE f[First(s)] + it[s \ {First(s)}]]
Sum(f, S) == (CHOOSE it : Adds(it, f, S))[S]

\* Of some finite sets one has none of the others in it.
LEMMA LeastSet ==
    ASSUME NEW D, IsFiniteSet(D), NEW Bad \in SUBSET SUBSET D, Bad # {}
    PROVE  \E T \in Bad : \A U \in SUBSET T : U # T => U \notin Bad
<1> DEFINE sizes == {Cardinality(T) : T \in Bad}
<1>1. \A T \in SUBSET D : IsFiniteSet(T) /\ Cardinality(T) \in Nat
    BY FS_Subset, FS_CardinalityType
<1>2. sizes \in SUBSET Nat /\ sizes # {}
    BY <1>1
<1> HIDE DEF sizes
<1>6. \A m, n \in Nat : <<m, n>> \in OpToRel(<, Nat) <=> m < n
    BY DEF OpToRel
<1>7. PICK n \in sizes : \A m \in sizes : <<m, n>> \notin OpToRel(<, Nat)
    BY <1>2, NatLessThanWellFounded, WFMin
<1>3. \A m \in sizes : ~(m < n) /\ m \in Nat /\ n \in Nat
    BY <1>2, <1>6, <1>7
<1>4. PICK T \in Bad : n = Cardinality(T)
    BY <1>7 DEF sizes
<1>5. ASSUME NEW U \in SUBSET T, U # T, U \in Bad PROVE FALSE
  <2>1. IsFiniteSet(T) /\ Cardinality(T) \in Nat /\ Cardinality(U) \in Nat
      BY <1>1, <1>5
  <2>2. Cardinality(U) <= Cardinality(T) /\ (Cardinality(T) = Cardinality(U) => T = U)
      BY <1>5, <2>1, FS_Subset
  <2>3. Cardinality(U) \in sizes
      BY <1>5 DEF sizes
  <2> QED BY <1>3, <1>4, <1>5, <2>1, <2>2, <2>3
<1> QED BY <1>4, <1>5

\* What the folds of two sets have in common they add up alike.
LEMMA SumsAgree ==
    ASSUME NEW D, IsFiniteSet(D), NEW f, NEW S \in SUBSET D, NEW U \in SUBSET D,
           NEW i, Adds(i, f, S), NEW j, Adds(j, f, U), NEW T \in SUBSET (S \intersect U)
    PROVE  i[T] = j[T]
<1> DEFINE Bad == {R \in SUBSET (S \intersect U) : i[R] # j[R]}
<1>1. SUFFICES ASSUME Bad # {} PROVE FALSE
    OBVIOUS
<1>2. PICK R \in Bad : \A Q \in SUBSET R : Q # R => Q \notin Bad
  <2>1. Bad \in SUBSET SUBSET D
      OBVIOUS
  <2> HIDE DEF Bad
  <2> QED BY <1>1, <2>1, LeastSet
<1>3. /\ R \in SUBSET S /\ R \in SUBSET U
      /\ i[R] = IF R = {} THEN 0 ELSE f[First(R)] + i[R \ {First(R)}]
      /\ j[R] = IF R = {} THEN 0 ELSE f[First(R)] + j[R \ {First(R)}]
    BY DEF Adds
<1>4. R # {} => First(R) \in R
    BY DEF First
<1>5. R # {} => i[R \ {First(R)}] = j[R \ {First(R)}]
    BY <1>2, <1>4
<1> QED BY <1>2, <1>3, <1>5

\* There is such a fold over every finite set.
LEMMA SumExists ==
    ASSUME NEW D, IsFiniteSet(D), NEW f
    PROVE  \E it : Adds(it, f, D)
<1> DEFINE Bad == {T \in SUBSET D : ~ \E it : Adds(it, f, T)}
<1>1. SUFFICES ASSUME Bad # {} PROVE FALSE
    OBVIOUS
<1>2. PICK T \in Bad : \A U \in SUBSET T : U # T => U \notin Bad
  <2>1. Bad \in SUBSET SUBSET D
      OBVIOUS
  <2> HIDE DEF Bad
  <2> QED BY <1>1, <2>1, LeastSet
<1> DEFINE part(s) == CHOOSE it : Adds(it, f, s)
           below(s) == IF s = {} THEN 0 ELSE f[First(s)] + part(s \ {First(s)})[s \ {First(s)}]
           it == [s \in SUBSET T |-> below(s)]
<1>3. ASSUME NEW U \in SUBSET T, U # T PROVE Adds(part(U), f, U)
  <2>1. \E x : Adds(x, f, U)
      BY <1>2, <1>3
  <2> QED BY <2>1
<1>4. ASSUME NEW s \in SUBSET T
      PROVE  it[s] = IF s = {} THEN 0 ELSE f[First(s)] + it[s \ {First(s)}]
  <2>1. CASE s = {}
      BY <2>1
  <2>2. CASE s # {}
    <3> DEFINE u == s \ {First(s)}
    <3>1. First(s) \in s
        BY <2>2 DEF First
    <3>2. u \in SUBSET T /\ u # T /\ u \in SUBSET D
        BY <3>1
    <3>3. Adds(part(u), f, u)
        BY <1>3, <3>2
    <3>4. it[s] = f[First(s)] + part(u)[u] /\ it[u] = below(u)
        BY <2>2, <3>2
    <3>5. part(u)[u] = below(u)
      <4>1. CASE u = {}
          BY <3>3, <4>1 DEF Adds
      <4>2. CASE u # {}
        <5> DEFINE v == u \ {First(u)}
        <5>1. First(u) \in u
            BY <4>2 DEF First
        <5>2. part(u)[u] = f[First(u)] + part(u)[v]
            BY <3>3, <4>2 DEF Adds
        <5>3. v \in SUBSET T /\ v # T /\ v \in SUBSET D /\ v \in SUBSET (u \intersect v)
            BY <3>2, <5>1
        <5>4. Adds(part(v), f, v)
            BY <1>3, <5>3
        <5>5. part(u)[v] = part(v)[v]
          <6>1. PICK i, j : i = part(u) /\ j = part(v)
              OBVIOUS
          <6> HIDE DEF part, below, it, Bad, u, v
          <6>2. Adds(i, f, u) /\ Adds(j, f, v)
              BY <3>3, <5>4, <6>1
          <6>3. i[v] = j[v]
              BY <3>2, <5>3, <6>2, SumsAgree
          <6> QED BY <6>1, <6>3
        <5> QED BY <4>2, <5>2, <5>5
      <4> QED BY <4>1, <4>2
    <3> QED BY <2>2, <3>4, <3>5
  <2> QED BY <2>1, <2>2
<1>5. Adds(it, f, T)
  <2>1. it = [s \in SUBSET T |-> it[s]]
      OBVIOUS
  <2> HIDE DEF it
  <2>2. it = [s \in SUBSET T |-> IF s = {} THEN 0 ELSE f[First(s)] + it[s \ {First(s)}]]
      BY <1>4, <2>1
  <2> QED BY <2>2 DEF Adds
<1> QED BY <1>2, <1>5

\* Every function that adds up as Sum does has the sums of the subsets as its values.
LEMMA SumIsFold ==
    ASSUME NEW S, IsFiniteSet(S), NEW f
    PROVE  \E it : Adds(it, f, S) /\ \A T \in SUBSET S : Sum(f, T) = it[T]
<1>1. PICK it : Adds(it, f, S)
    BY SumExists
<1>2. ASSUME NEW T \in SUBSET S PROVE Sum(f, T) = it[T]
  <2>1. PICK j : j = CHOOSE x : Adds(x, f, T)
      OBVIOUS
  <2>2. Adds(j, f, T)
      BY <2>1, FS_Subset, SumExists
  <2>3. j[T] = it[T]
      BY <1>1, <2>2, SumsAgree
  <2> QED BY <2>1, <2>3 DEF Sum
<1> QED BY <1>1, <1>2

\* The empty sum, and a sum less its first term.
LEMMA SumFirst ==
    ASSUME NEW f
    PROVE  /\ Sum(f, {}) = 0
           /\ \A S : IsFiniteSet(S) /\ S # {} =>
                 First(S) \in S /\ Sum(f, S) = f[First(S)] + Sum(f, S \ {First(S)})
<1>1. Sum(f, {}) = 0
  <2>1. PICK it : Adds(it, f, {}) /\ \A T \in SUBSET {} : Sum(f, T) = it[T]
      BY FS_EmptySet, SumIsFold
  <2> QED BY <2>1 DEF Adds
<1>2. ASSUME NEW S, IsFiniteSet(S), S # {}
      PROVE  First(S) \in S /\ Sum(f, S) = f[First(S)] + Sum(f, S \ {First(S)})
  <2>1. PICK it : Adds(it, f, S) /\ \A T \in SUBSET S : Sum(f, T) = it[T]
      BY <1>2, SumIsFold
  <2>2. it[S] = f[First(S)] + it[S \ {First(S)}]
      BY <1>2, <2>1 DEF Adds
  <2>3. First(S) \in S
      BY <1>2 DEF First
  <2> QED BY <2>1, <2>2, <2>3
<1> QED BY <1>1, <1>2

\* Sums of the same terms are the same.
LEMMA SumSame ==
    ASSUME NEW S, IsFiniteSet(S), NEW f, NEW g, \A x \in S : f[x] = g[x]
    PROVE  Sum(f, S) = Sum(g, S)
<1> DEFINE Bad == {T \in SUBSET S : ~(Sum(f, T) = Sum(g, T))}
<1>1. SUFFICES ASSUME Bad # {} PROVE FALSE
    OBVIOUS
<1>2. PICK T \in Bad : \A U \in SUBSET T : U # T => U \notin Bad
  <2>1. Bad \in SUBSET SUBSET S
      OBVIOUS
  <2> HIDE DEF Bad
  <2> QED BY <1>1, <2>1, LeastSet
<1>3. IsFiniteSet(T)
    BY FS_Subset
<1>4. CASE T = {}
    BY <1>2, <1>4, SumFirst
<1>5. CASE T # {}
  <2>1. /\ First(T) \in T /\ Sum(f, T) = f[First(T)] + Sum(f, T \ {First(T)})
        /\ Sum(g, T) = g[First(T)] + Sum(g, T \ {First(T)})
      BY <1>3, <1>5, SumFirst
  <2>2. Sum(f, T \ {First(T)}) = Sum(g, T \ {First(T)})
      BY <1>2, <2>1
  <2> QED BY <1>2, <2>1, <2>2
<1> QED BY <1>4, <1>5

\* A sum of whole numbers is one.
LEMMA SumIsWhole ==
    ASSUME NEW S, IsFiniteSet(S), NEW f, \A x \in S : f[x] \in Int
    PROVE  Sum(f, S) \in Int
<1> DEFINE Bad == {T \in SUBSET S : ~(Sum(f, T) \in Int)}
<1>1. SUFFICES ASSUME Bad # {} PROVE FALSE
    OBVIOUS
<1>2. PICK T \in Bad : \A U \in SUBSET T : U # T => U \notin Bad
  <2>1. Bad \in SUBSET SUBSET S
      OBVIOUS
  <2> HIDE DEF Bad
  <2> QED BY <1>1, <2>1, LeastSet
<1>3. IsFiniteSet(T)
    BY FS_Subset
<1>4. CASE T = {}
    BY <1>2, <1>4, SumFirst
<1>5. CASE T # {}
  <2>1. First(T) \in T /\ Sum(f, T) = f[First(T)] + Sum(f, T \ {First(T)})
      BY <1>3, <1>5, SumFirst
  <2>2. Sum(f, T \ {First(T)}) \in Int
      BY <1>2, <2>1
  <2>3. f[First(T)] \in Int
      BY <2>1
  <2> QED BY <1>2, <2>1, <2>2, <2>3
<1> QED BY <1>4, <1>5

\* The terms may be added in any order.
LEMMA SumTakes ==
    ASSUME NEW S, IsFiniteSet(S), NEW f, \A x \in S : f[x] \in Int, NEW w \in S
    PROVE  Sum(f, S) = f[w] + Sum(f, S \ {w})
<1>a. \A r \in S : f[r] \in Int
    OBVIOUS
<1> DEFINE Bad == {T \in SUBSET S : ~(\A y \in T : Sum(f, T) = f[y] + Sum(f, T \ {y}))}
<1>1. SUFFICES ASSUME Bad # {} PROVE FALSE
  <2>1. S \notin Bad => \A y \in S : Sum(f, S) = f[y] + Sum(f, S \ {y})
      OBVIOUS
  <2> QED BY <2>1
<1>2. PICK T \in Bad : \A U \in SUBSET T : U # T => U \notin Bad
  <2>1. Bad \in SUBSET SUBSET S
      OBVIOUS
  <2> HIDE DEF Bad
  <2> QED BY <1>1, <2>1, LeastSet
<1>3. IsFiniteSet(T)
    BY FS_Subset
<1>4. PICK y \in T : Sum(f, T) # f[y] + Sum(f, T \ {y})
    BY <1>2
<1>5. PICK z : z = First(T) /\ z \in T /\ Sum(f, T) = f[z] + Sum(f, T \ {z})
    BY <1>3, <1>4, SumFirst
<1>6. y # z
    BY <1>4, <1>5
<1>7. Sum(f, T \ {z}) = f[y] + Sum(f, (T \ {z}) \ {y})
    BY <1>2, <1>5, <1>6
<1>8. Sum(f, T \ {y}) = f[z] + Sum(f, (T \ {y}) \ {z})
    BY <1>2, <1>4, <1>5, <1>6
<1>9. PICK R : R = (T \ {z}) \ {y} /\ R = (T \ {y}) \ {z}
    OBVIOUS
<1>10. f[y] \in Int /\ f[z] \in Int /\ Sum(f, R) \in Int
  <2>1. R \in SUBSET S /\ IsFiniteSet(R)
      BY <1>9, FS_Subset
  <2>2. \A r \in R : f[r] \in Int
      BY <2>1
  <2>3. Sum(f, R) \in Int
      BY <2>1, <2>2, SumIsWhole
  <2>4. y \in S /\ z \in S
      BY <1>2, <1>4, <1>5
  <2> HIDE DEF Bad
  <2>5. f[y] \in Int /\ f[z] \in Int
      BY <2>4, <1>a
  <2> QED BY <2>3, <2>5
<1>11. Sum(f, T) = f[z] + (f[y] + Sum(f, R))
    BY <1>5, <1>7, <1>9
<1>12. f[y] + Sum(f, T \ {y}) = f[y] + (f[z] + Sum(f, R))
    BY <1>8, <1>9
<1>13. f[z] + (f[y] + Sum(f, R)) = f[y] + (f[z] + Sum(f, R))
    BY <1>10
<1> QED BY <1>4, <1>11, <1>12, <1>13

\* Sums are added term by term.
LEMMA SumPlus ==
    ASSUME NEW S, IsFiniteSet(S), NEW f, NEW g, NEW h,
           \A x \in S : f[x] \in Int /\ g[x] \in Int /\ h[x] = f[x] + g[x]
    PROVE  Sum(h, S) = Sum(f, S) + Sum(g, S)
<1> DEFINE Bad == {T \in SUBSET S : ~(Sum(h, T) = Sum(f, T) + Sum(g, T))}
<1>1. SUFFICES ASSUME Bad # {} PROVE FALSE
    OBVIOUS
<1>2. PICK T \in Bad : \A U \in SUBSET T : U # T => U \notin Bad
  <2>1. Bad \in SUBSET SUBSET S
      OBVIOUS
  <2> HIDE DEF Bad
  <2> QED BY <1>1, <2>1, LeastSet
<1>3. IsFiniteSet(T)
    BY FS_Subset
<1>4. CASE T = {}
    BY <1>2, <1>4, SumFirst
<1>5. CASE T # {}
  <2> DEFINE x == First(T)
             R == T \ {x}
  <2>1. /\ x \in T /\ Sum(f, T) = f[x] + Sum(f, R) /\ Sum(g, T) = g[x] + Sum(g, R)
        /\ Sum(h, T) = h[x] + Sum(h, R)
      BY <1>3, <1>5, SumFirst
  <2>2. Sum(h, R) = Sum(f, R) + Sum(g, R)
      BY <1>2, <2>1
  <2>3. Sum(f, R) \in Int /\ Sum(g, R) \in Int
    <3>1. IsFiniteSet(R) /\ \A y \in R : f[y] \in Int /\ g[y] \in Int
        BY FS_Subset
    <3> QED BY <3>1, SumIsWhole
  <2>4. f[x] \in Int /\ g[x] \in Int /\ h[x] = f[x] + g[x]
      BY <2>1
  <2> QED BY <1>2, <2>1, <2>2, <2>3, <2>4
<1> QED BY <1>4, <1>5

\* A sum over two sets that have nothing in common.
LEMMA SumOfBoth ==
    ASSUME NEW A, NEW S, IsFiniteSet(A), IsFiniteSet(S), A \intersect S = {}, NEW f,
           \A x \in A \union S : f[x] \in Int
    PROVE  Sum(f, A \union S) = Sum(f, A) + Sum(f, S)
<1> DEFINE Bad == {T \in SUBSET S : ~(Sum(f, A \union T) = Sum(f, A) + Sum(f, T))}
<1>1. SUFFICES ASSUME Bad # {} PROVE FALSE
    OBVIOUS
<1>2. PICK T \in Bad : \A U \in SUBSET T : U # T => U \notin Bad
  <2>1. Bad \in SUBSET SUBSET S
      OBVIOUS
  <2> HIDE DEF Bad
  <2> QED BY <1>1, <2>1, LeastSet
<1>3. IsFiniteSet(T)
    BY FS_Subset
<1>6. Sum(f, A) \in Int
    BY SumIsWhole
<1>4. CASE T = {}
  <2>1. A \union T = A /\ Sum(f, T) = 0
      BY <1>4, SumFirst
  <2>2. Sum(f, A \union T) = Sum(f, A)
      BY <2>1
  <2>3. Sum(f, A) + Sum(f, T) = Sum(f, A)
      BY <1>6, <2>1
  <2> QED BY <1>2, <2>2, <2>3
<1>5. CASE T # {}
  <2> DEFINE x == First(T)
             R == T \ {x}
  <2>1. x \in T /\ Sum(f, T) = f[x] + Sum(f, R)
      BY <1>3, <1>5, SumFirst
  <2>2. Sum(f, A \union T) = f[x] + Sum(f, A \union R)
    <3>1. IsFiniteSet(A \union T) /\ x \in A \union T /\ (A \union T) \ {x} = A \union R
        BY <1>3, <2>1, FS_Union
    <3>2. \A y \in A \union T : f[y] \in Int
        OBVIOUS
    <3> HIDE DEF x, R
    <3> QED BY <3>1, <3>2, SumTakes
  <2>3. Sum(f, A \union R) = Sum(f, A) + Sum(f, R)
      BY <1>2, <2>1
  <2>4. Sum(f, R) \in Int /\ f[x] \in Int
    <3>1. IsFiniteSet(R) /\ \A y \in R : f[y] \in Int
        BY FS_Subset
    <3> QED BY <2>1, <3>1, SumIsWhole
  <2> QED BY <1>2, <1>6, <2>1, <2>2, <2>3, <2>4
<1> QED BY <1>4, <1>5

\* What is added up by kinds is all that is of these kinds.
LEMMA SumOfKinds ==
    ASSUME NEW I, IsFiniteSet(I), NEW f, \A i \in I : f[i] \in Int, NEW kind,
           NEW S, IsFiniteSet(S), NEW g, \A a \in S : g[a] = Sum(f, {i \in I : kind[i] = a})
    PROVE  Sum(g, S) = Sum(f, {i \in I : kind[i] \in S})
<1> DEFINE Bad == {T \in SUBSET S : ~(Sum(g, T) = Sum(f, {i \in I : kind[i] \in T}))}
<1>1. SUFFICES ASSUME Bad # {} PROVE FALSE
    OBVIOUS
<1>2. PICK T \in Bad : \A U \in SUBSET T : U # T => U \notin Bad
  <2>1. Bad \in SUBSET SUBSET S
      OBVIOUS
  <2> HIDE DEF Bad
  <2> QED BY <1>1, <2>1, LeastSet
<1>3. IsFiniteSet(T)
    BY FS_Subset
<1>4. CASE T = {}
  <2>1. {i \in I : kind[i] \in T} = {}
      BY <1>4
  <2> QED BY <1>2, <1>4, <2>1, SumFirst
<1>5. CASE T # {}
  <2> DEFINE a == First(T)
             R == T \ {a}
             one == {i \in I : kind[i] = a}
             others == {i \in I : kind[i] \in R}
  <2>1. a \in T /\ Sum(g, T) = g[a] + Sum(g, R)
      BY <1>3, <1>5, SumFirst
  <2>2. Sum(g, R) = Sum(f, others)
      BY <1>2, <2>1
  <2>3. g[a] = Sum(f, one)
      BY <2>1
  <2>4. {i \in I : kind[i] \in T} = one \union others
      BY <2>1
  <2>5. /\ IsFiniteSet(one) /\ IsFiniteSet(others) /\ one \intersect others = {}
        /\ \A i \in one \union others : f[i] \in Int
      BY FS_Subset
  <2> HIDE DEF one, others
  <2>6. Sum(f, one \union others) = Sum(f, one) + Sum(f, others)
      BY <2>5, SumOfBoth
  <2> QED BY <1>2, <2>1, <2>2, <2>3, <2>4, <2>6
<1> QED BY <1>4, <1>5

-----------------------------------------------------------------------------
(* What a command adds up to. *)

\* Whatever function adds f up over S arrives at Sum(f, S).
LEMMA FoldIsSum ==
    ASSUME NEW S, IsFiniteSet(S), NEW f, NEW it, Adds(it, f, S)
    PROVE  it[S] = Sum(f, S)
<1>1. PICK j : Adds(j, f, S) /\ \A T \in SUBSET S : Sum(f, T) = j[T]
    BY SumIsFold
<1>2. it[S] = j[S]
    BY <1>1, SumsAgree
<1> QED BY <1>1, <1>2

\* Nothing adds up to 0.
LEMMA SumIsZero ==
    ASSUME NEW S, IsFiniteSet(S), NEW f, \A x \in S : f[x] = 0
    PROVE  Sum(f, S) = 0
<1>1. Sum(f, S) \in Int
    BY SumIsWhole
<1>2. Sum(f, S) = Sum(f, S) + Sum(f, S)
  <2>1. \A x \in S : f[x] \in Int /\ f[x] \in Int /\ f[x] = f[x] + f[x]
      OBVIOUS
  <2> QED BY <2>1, SumPlus
<1>3. \A n \in Int : n = n + n => n = 0
    OBVIOUS
<1> QED BY <1>1, <1>2, <1>3

\* The opposite terms add up to the opposite.
LEMMA SumIsOpposite ==
    ASSUME NEW S, IsFiniteSet(S), NEW f, NEW g, \A x \in S : f[x] \in Int /\ g[x] = -f[x]
    PROVE  Sum(g, S) = -Sum(f, S) /\ Sum(f, S) \in Int /\ Sum(g, S) \in Int
<1>1. PICK zero : zero = [x \in S |-> 0]
    OBVIOUS
<1>2. \A x \in S : f[x] \in Int /\ g[x] \in Int /\ zero[x] = f[x] + g[x] /\ zero[x] = 0
    BY <1>1
<1>3. Sum(f, S) \in Int /\ Sum(g, S) \in Int
    BY <1>2, SumIsWhole
<1>4. Sum(zero, S) = Sum(f, S) + Sum(g, S)
    BY <1>2, SumPlus
<1>5. Sum(zero, S) = 0
    BY <1>2, SumIsZero
<1> QED BY <1>3, <1>4, <1>5

Places(c) == DOMAIN Postings(c)
Amounts(c) == [i \in Places(c) |-> Postings(c)[i].amount]
Effects(c) == [i \in Places(c) |-> BalanceImpact(Postings(c)[i])]
AccountOf(c) == [i \in Places(c) |-> Postings(c)[i].account]

\* A command has finitely many postings, of whole amounts.
LEMMA PostingsAreTyped ==
    ASSUME NEW c \in Calls
    PROVE  /\ IsFiniteSet(Places(c)) /\ \A X \in SUBSET Places(c) : IsFiniteSet(X)
           /\ \A i \in Places(c) :
                 /\ Amounts(c)[i] \in Int /\ Effects(c)[i] \in Int
                 /\ Postings(c)[i].direction \in {"debit", "credit"}
<1>1. IsFiniteSet(Places(c)) /\ \A X \in SUBSET Places(c) : IsFiniteSet(X)
    BY PostingsAssumption, FS_Subset DEF Places, Postings
<1>2. \A i \in Places(c) : Postings(c)[i].amount \in Int /\ Postings(c)[i].direction \in {"debit", "credit"}
    BY PostingsAssumption DEF Places, Postings
<1>3. \A i \in Places(c) : BalanceImpact(Postings(c)[i]) \in Int
    BY <1>2 DEF BalanceImpact
<1> QED BY <1>1, <1>2, <1>3 DEF Amounts, Effects

\* What a command does to an account is the sum of what its postings to it do.
LEMMA ImpactIsSum ==
    ASSUME NEW c \in Calls, NEW a
    PROVE  /\ Impact(c, a) = Sum(Effects(c), {i \in Places(c) : AccountOf(c)[i] = a})
           /\ Impact(c, a) \in Int
<1> DEFINE X == {i \in DOMAIN Postings(c) : Postings(c)[i].account = a}
           Folds(it) == it = [s \in SUBSET X |-> IF s = {} THEN 0
                                 ELSE BalanceImpact(Postings(c)[First(s)]) + it[s \ {First(s)}]]
<1>1. Impact(c, a) = (CHOOSE it : Folds(it))[X]
    BY DEF Impact, MapThenSumSet, MapThenFoldSet, First
<1>2. X = {i \in Places(c) : AccountOf(c)[i] = a} /\ X \in SUBSET Places(c) /\ IsFiniteSet(X)
    BY PostingsAreTyped DEF Places, AccountOf
<1>3. ASSUME NEW it PROVE Folds(it) <=> Adds(it, Effects(c), X)
  <2>1. \A s \in SUBSET X : s # {} => BalanceImpact(Postings(c)[First(s)]) = Effects(c)[First(s)]
      BY <1>2 DEF First, Effects
  <2> HIDE DEF X
  <2> QED BY <2>1 DEF Adds
<1> HIDE DEF X, Folds
<1>4. \E it : Folds(it)
    BY <1>2, <1>3, SumExists
<1>5. PICK it : it = (CHOOSE j : Folds(j)) /\ Folds(it)
    BY <1>4
<1>6. it[X] = Sum(Effects(c), X)
    BY <1>2, <1>3, <1>5, FoldIsSum
<1>7. Sum(Effects(c), X) \in Int
    BY <1>2, PostingsAreTyped, SumIsWhole
<1> QED BY <1>1, <1>2, <1>5, <1>6, <1>7

\* What a command debits, or credits, is a sum over its postings.
LEMMA TotalIsSum ==
    ASSUME NEW c \in Calls, NEW direction
    PROVE  Total(c, direction) = Sum(Amounts(c), {i \in Places(c) : Postings(c)[i].direction = direction})
<1> DEFINE X == {i \in DOMAIN Postings(c) : Postings(c)[i].direction = direction}
           Folds(it) == it = [s \in SUBSET X |-> IF s = {} THEN 0
                                 ELSE Postings(c)[First(s)].amount + it[s \ {First(s)}]]
<1>1. Total(c, direction) = (CHOOSE it : Folds(it))[X]
    BY DEF Total, MapThenSumSet, MapThenFoldSet, First
<1>2. X = {i \in Places(c) : Postings(c)[i].direction = direction} /\ X \in SUBSET Places(c) /\ IsFiniteSet(X)
    BY PostingsAreTyped DEF Places
<1>3. ASSUME NEW it PROVE Folds(it) <=> Adds(it, Amounts(c), X)
  <2>1. \A s \in SUBSET X : s # {} => Postings(c)[First(s)].amount = Amounts(c)[First(s)]
      BY <1>2 DEF First, Amounts
  <2> HIDE DEF X
  <2> QED BY <2>1 DEF Adds
<1> HIDE DEF X, Folds
<1>4. \E it : Folds(it)
    BY <1>2, <1>3, SumExists
<1>5. PICK it : it = (CHOOSE j : Folds(j)) /\ Folds(it)
    BY <1>4
<1>6. it[X] = Sum(Amounts(c), X)
    BY <1>2, <1>3, <1>5, FoldIsSum
<1> QED BY <1>1, <1>2, <1>5, <1>6

\* What the book derives for an account grows by what an entry adds to it.
LEMMA DerivedGrows ==
    ASSUME NEW book \in SUBSET Calls, IsFiniteSet(book), NEW c \in Calls \ book, NEW a
    PROVE  DerivedBalance(book \cup {c}, a) = DerivedBalance(book, a) + Impact(c, a)
<1>1. PICK impact : impact = [d \in Calls |-> Impact(d, a)]
    OBVIOUS
<1>2. ASSUME NEW X \in SUBSET Calls, IsFiniteSet(X) PROVE DerivedBalance(X, a) = Sum(impact, X)
  <2> DEFINE Folds(it) == it = [s \in SUBSET X |-> IF s = {} THEN 0 ELSE Impact(First(s), a) + it[s \ {First(s)}]]
  <2>1. DerivedBalance(X, a) = (CHOOSE it : Folds(it))[X]
      BY DEF DerivedBalance, MapThenSumSet, MapThenFoldSet, First
  <2>2. ASSUME NEW it PROVE Folds(it) <=> Adds(it, impact, X)
    <3>1. \A s \in SUBSET X : s # {} => Impact(First(s), a) = impact[First(s)]
        BY <1>1, <1>2 DEF First
    <3> QED BY <3>1 DEF Adds
  <2> HIDE DEF Folds
  <2>3. \E it : Folds(it)
      BY <1>2, <2>2, SumExists
  <2>4. PICK it : it = (CHOOSE j : Folds(j)) /\ Folds(it)
      BY <2>3
  <2>5. it[X] = Sum(impact, X)
      BY <1>2, <2>2, <2>4, FoldIsSum
  <2> QED BY <2>1, <2>4, <2>5
<1>3. \A d \in Calls : impact[d] \in Int /\ impact[d] = Impact(d, a)
    BY <1>1, ImpactIsSum
<1>4. PICK more : /\ more = book \cup {c} /\ IsFiniteSet(more)
                  /\ more \in SUBSET Calls /\ c \in more /\ more \ {c} = book
  <2>1. IsFiniteSet(book \cup {c})
      BY FS_AddElement
  <2>2. book \cup {c} \in SUBSET Calls /\ c \in book \cup {c} /\ (book \cup {c}) \ {c} = book
      OBVIOUS
  <2> QED BY <2>1, <2>2
<1>5. Sum(impact, more) = impact[c] + Sum(impact, book)
    BY <1>3, <1>4, SumTakes
<1>6. Sum(impact, book) \in Int
    BY <1>3, SumIsWhole
<1> QED BY <1>2, <1>3, <1>4, <1>5, <1>6

\* Of no entries it derives nothing.
LEMMA DerivedOfNothing == ASSUME NEW a PROVE DerivedBalance({}, a) = 0
<1> DEFINE Folds(it) == it = [s \in SUBSET {} |-> IF s = {} THEN 0 ELSE Impact(First(s), a) + it[s \ {First(s)}]]
<1>1. DerivedBalance({}, a) = (CHOOSE it : Folds(it))[{}]
    BY DEF DerivedBalance, MapThenSumSet, MapThenFoldSet, First
<1>2. ASSUME NEW it PROVE Folds(it) <=> it = [s \in SUBSET {} |-> 0]
    OBVIOUS
<1> HIDE DEF Folds
<1>3. PICK it : it = (CHOOSE j : Folds(j)) /\ Folds(it)
    BY <1>2
<1> QED BY <1>1, <1>2, <1>3

-----------------------------------------------------------------------------
(* An entry moves both sides of the books alike. *)

SideOf(scope, side) == {a \in Accounts : Account[a].scope = scope /\ Account[a].normalSide = side}
PostedTo(c, X) == {i \in Places(c) : AccountOf(c)[i] \in X}
ImpactOf(c) == [a \in Accounts |-> Impact(c, a)]
\* A posting as a change of the debit side.
Signed(c) == [i \in Places(c) |-> IF Postings(c)[i].direction = "debit" THEN Amounts(c)[i] ELSE -Amounts(c)[i]]

LEMMA AccountsAreFinite == \A X \in SUBSET Accounts : IsFiniteSet(X)
<1>1. PICK n \in Accounts \cup {0} : \A a \in Accounts : a <= n
    BY LedgerAssumption
<1>2. n \in Nat /\ Accounts \subseteq 0..n
    BY <1>1, LedgerAssumption
<1>3. IsFiniteSet(0..n)
    BY <1>2, FS_Interval
<1>4. \A X \in SUBSET Accounts : X \in SUBSET (0..n)
    BY <1>2
<1> QED BY <1>3, <1>4, FS_Subset

\* What a command does to some accounts is the sum over all its postings to them.
LEMMA SideIsPosted ==
    ASSUME NEW c \in Calls, NEW X \in SUBSET Accounts
    PROVE  Sum(ImpactOf(c), X) = Sum(Effects(c), PostedTo(c, X))
<1>1. IsFiniteSet(X) /\ IsFiniteSet(Places(c)) /\ \A i \in Places(c) : Effects(c)[i] \in Int
    BY AccountsAreFinite, PostingsAreTyped
<1>2. \A a \in X : ImpactOf(c)[a] = Sum(Effects(c), {i \in Places(c) : AccountOf(c)[i] = a})
    BY ImpactIsSum DEF ImpactOf
<1>3. Sum(ImpactOf(c), X) = Sum(Effects(c), {i \in Places(c) : AccountOf(c)[i] \in X})
    BY <1>1, <1>2, SumOfKinds
<1> QED BY <1>3 DEF PostedTo

\* The debits of a command come to its credits.
LEMMA SignedIsZero ==
    ASSUME NEW c \in Calls, Valid(c)
    PROVE  Sum(Signed(c), Places(c)) = 0
<1> DEFINE debits == {i \in Places(c) : Postings(c)[i].direction = "debit"}
           credits == {i \in Places(c) : Postings(c)[i].direction = "credit"}
<1>1. \A i \in Places(c) : Amounts(c)[i] \in Int /\ Signed(c)[i] \in Int
                              /\ Postings(c)[i].direction \in {"debit", "credit"}
    BY PostingsAreTyped DEF Signed
<1>2. /\ Places(c) = debits \union credits /\ debits \intersect credits = {}
      /\ IsFiniteSet(debits) /\ IsFiniteSet(credits)
      /\ \A i \in debits : Amounts(c)[i] \in Int /\ Signed(c)[i] = Amounts(c)[i]
      /\ \A i \in credits : Amounts(c)[i] \in Int /\ Signed(c)[i] = -Amounts(c)[i]
      /\ \A i \in debits \union credits : Signed(c)[i] \in Int
    BY <1>1, PostingsAreTyped DEF Signed
<1>3. Sum(Amounts(c), debits) = Sum(Amounts(c), credits)
    BY TotalIsSum DEF Valid
<1> HIDE DEF debits, credits
<1>4. Sum(Signed(c), Places(c)) = Sum(Signed(c), debits) + Sum(Signed(c), credits)
    BY <1>2, SumOfBoth
<1>5. Sum(Signed(c), debits) = Sum(Amounts(c), debits)
    BY <1>2, SumSame
<1>6. Sum(Signed(c), credits) = -Sum(Amounts(c), credits) /\ Sum(Amounts(c), credits) \in Int
    BY <1>2, SumIsOpposite
<1> QED BY <1>3, <1>4, <1>5, <1>6

\* A balanced command of one scope moves both sides of every scope by the same amount: its total
\* of the debits is that of the credits, and each posting counts with the sign of its account's side.
LEMMA SidesMoveAlike ==
    ASSUME NEW c \in Calls, Valid(c), AccountsPostable(c), NEW scope
    PROVE  Sum(ImpactOf(c), SideOf(scope, "debit")) = Sum(ImpactOf(c), SideOf(scope, "credit"))
<1> DEFINE debit == PostedTo(c, SideOf(scope, "debit"))
           credit == PostedTo(c, SideOf(scope, "credit"))
<1>1. /\ Sum(ImpactOf(c), SideOf(scope, "debit")) = Sum(Effects(c), debit)
      /\ Sum(ImpactOf(c), SideOf(scope, "credit")) = Sum(Effects(c), credit)
    BY SideIsPosted DEF SideOf
<1>2. ASSUME NEW i \in Places(c)
      PROVE  /\ AccountOf(c)[i] \in Accounts /\ Account[AccountOf(c)[i]].scope = Command[c].scope
             /\ Account[AccountOf(c)[i]].normalSide \in {"debit", "credit"}
             /\ Effects(c)[i] = IF Postings(c)[i].direction = Account[AccountOf(c)[i]].normalSide
                                THEN Amounts(c)[i] ELSE -Amounts(c)[i]
  <2>1. AccountOf(c)[i] = Postings(c)[i].account /\ Postings(c)[i].account \in TouchedAccounts(c)
      BY DEF AccountOf, TouchedAccounts, Places
  <2>2. AccountOf(c)[i] \in Accounts /\ Account[AccountOf(c)[i]].scope = Command[c].scope
      BY <2>1 DEF AccountsPostable
  <2>3. Account[AccountOf(c)[i]].normalSide \in {"debit", "credit"}
      BY <2>2, PostingsAssumption
  <2> QED BY <2>1, <2>2, <2>3 DEF Effects, BalanceImpact, Amounts
<1>3. CASE scope # Command[c].scope
  <2>1. debit = {} /\ credit = {}
      BY <1>2, <1>3 DEF PostedTo, SideOf
  <2> QED BY <1>1, <2>1
<1>4. CASE scope = Command[c].scope
  <2>1. \A i \in Places(c) : /\ Amounts(c)[i] \in Int /\ Signed(c)[i] \in Int
                              /\ Postings(c)[i].direction \in {"debit", "credit"}
      BY PostingsAreTyped DEF Signed
  <2>2. debit \union credit = Places(c) /\ debit \intersect credit = {}
      BY <1>2, <1>4 DEF PostedTo, SideOf
  <2>3. IsFiniteSet(debit) /\ IsFiniteSet(credit)
      BY PostingsAreTyped DEF PostedTo
  <2>4. \A i \in debit : Effects(c)[i] = Signed(c)[i]
      BY <1>2, <2>1 DEF PostedTo, SideOf, Signed
  <2>5. \A i \in credit : Signed(c)[i] \in Int /\ Effects(c)[i] = -Signed(c)[i]
      BY <1>2, <2>1 DEF PostedTo, SideOf, Signed
  <2> HIDE DEF debit, credit
  <2>6. Sum(Effects(c), debit) = Sum(Signed(c), debit)
      BY <2>3, <2>4, SumSame
  <2>7. Sum(Effects(c), credit) = -Sum(Signed(c), credit) /\ Sum(Signed(c), credit) \in Int
      BY <2>3, <2>5, SumIsOpposite
  <2>8. Sum(Signed(c), debit \union credit) = Sum(Signed(c), debit) + Sum(Signed(c), credit)
    <3>1. \A i \in debit \union credit : Signed(c)[i] \in Int
        BY <2>1, <2>2
    <3> QED BY <2>2, <2>3, <3>1, SumOfBoth
  <2>9. Sum(Signed(c), debit) \in Int
    <3>1. \A i \in debit : Signed(c)[i] \in Int
        BY <2>1, <2>2
    <3> QED BY <2>3, <3>1, SumIsWhole
  <2> QED BY <1>1, <2>2, <2>6, <2>7, <2>8, <2>9, SignedIsZero
<1> QED BY <1>3, <1>4

-----------------------------------------------------------------------------
(* The statements of the calls. *)

\* What a call that has come to a place has learned, and what the book knows of it.
Learned(c) ==
    /\ pc[c] \in {"ENSURE", "LOCK", "INSERT", "BALANCES"} =>
           Valid(c) /\ AccountsPostable(c) /\ ReversalAllowed(c, posted)
    /\ pc[c] = "CHECK" => Valid(c)
    /\ pc[c] = "LOOKUP_AGAIN" => \E b \in posted : Clash(c, b)
    /\ pc[c] = "COMMITTED" => c \in posted
    /\ c \in posted => pc[c] \in {"COMMITTED", "DONE"}

\* The entry that is inserted clashes with no entry, committed or not.
InsertsClashFree ==
    \A c \in inserting : /\ \A b \in posted : ~Clash(c, b)
                         /\ \A b \in inserting \ {c} : ~Clash(c, b)

\* What has been answered stays true.
AnswersTrue ==
    \A c \in Calls :
        /\ pc[c] = "IDLE" => answer[c] = [kind |-> "NONE", entry |-> Null]
        /\ answer[c].kind = "POSTED" => answer[c].entry \in posted /\ answer[c].entry = c
        /\ answer[c].kind = "REPLAYED" => answer[c].entry \in posted /\ SameHash(c, answer[c].entry)
        /\ answer[c].kind = "UNIQUE_CONFLICT" => \E b \in posted \ {c} : SameReversal(c, b)

\* A call inserts and locks rows upwards: what it holds lies below what it still has to come to,
\* and the rows it still has to lock are committed or its own.
RowsGoUpOf(c, a) ==
    /\ pc[c] = "ENSURE" =>
           /\ holder[a] = c => a \notin rows /\ \A b \in todo[c] : a < b
           /\ a \in TouchedAccounts(c) \ todo[c] => a \in rows \/ holder[a] = c
    /\ pc[c] = "LOCK" =>
           /\ holder[a] = c /\ a \in rows => \A b \in todo[c] : a < b
           /\ a \in todo[c] => a \in rows \/ holder[a] = c

RowsGoUp == \A c \in Calls, a \in Accounts : RowsGoUpOf(c, a)

LedgerInv ==
    /\ LedgerTypeOK
    /\ RowsGoUp
    /\ \A c \in Calls : Learned(c)
    /\ InsertsClashFree
    /\ NoDoublePosting
    /\ outbox = posted
    /\ AnswersTrue

LEMMA ClashSymmetric == \A c, b \in Calls : Clash(c, b) <=> Clash(b, c)
BY DEF Clash, SameRef, SameReversal

LEMMA RefClashes == \A c, b \in Calls : SameRef(c, b) => Clash(c, b)
BY DEF Clash

\* A reversal that the book allows is allowed by every larger book.
LEMMA AllowedStays ==
    ASSUME NEW c \in Calls, NEW book, NEW more, ReversalAllowed(c, book)
    PROVE  ReversalAllowed(c, book \cup more)
BY DEF ReversalAllowed

LEMMA LedgerInitInv == LedgerInit => LedgerInv
<1> SUFFICES ASSUME LedgerInit PROVE LedgerInv
    OBVIOUS
<1> USE DEF LedgerInit
<1>1. LedgerTypeOK
    BY LedgerAssumption DEF LedgerTypeOK, CallPCs, InTransaction, Replies, ReplyKinds
<1>2. \A c \in Calls : Learned(c)
    BY DEF Learned
<1>3. InsertsClashFree /\ NoDoublePosting /\ outbox = posted
    BY DEF InsertsClashFree, NoDoublePosting
<1>4. AnswersTrue
    BY DEF AnswersTrue
<1>5. RowsGoUp
    BY DEF RowsGoUp, RowsGoUpOf
<1> QED BY <1>1, <1>2, <1>3, <1>4, <1>5 DEF LedgerInv

-----------------------------------------------------------------------------
(***************************************************************************)
(* Every statement keeps the invariant.                                    *)
(***************************************************************************)
LEMMA PlacesAre ==
    /\ InTransaction = {"LOOKUP", "CHECK", "ENSURE", "LOCK", "INSERT", "BALANCES"}
    /\ CallPCs = {"LOOKUP", "CHECK", "ENSURE", "LOCK", "INSERT", "BALANCES", "IDLE", "COMMITTED",
                  "LOOKUP_AGAIN", "DONE"}
BY DEF InTransaction, CallPCs

\* A set of natural numbers that is not empty has a smallest one.
LEMMA SmallestNumber ==
    ASSUME NEW S \in SUBSET Nat, S # {}
    PROVE  \E n \in S : \A m \in S : n <= m
<1>1. \A m, n \in Nat : <<m, n>> \in OpToRel(<, Nat) <=> m < n
    BY DEF OpToRel
<1>2. PICK n \in S : \A m \in S : <<m, n>> \notin OpToRel(<, Nat)
    BY NatLessThanWellFounded, WFMin
<1>3. \A m \in S : ~(m < n)
    BY <1>1, <1>2
<1> QED BY <1>3

\* The next row that a call ensures or locks is the first it still has to do.
LEMMA NextRowIsNext ==
    ASSUME LedgerTypeOK, NEW c \in Calls, todo[c] # {}
    PROVE  NextRow(c) \in todo[c] /\ \A b \in todo[c] : NextRow(c) <= b
<1>1. todo[c] \in SUBSET Nat
    BY LedgerAssumption DEF LedgerTypeOK
<1>2. PICK a \in todo[c] : \A b \in todo[c] : a <= b
    BY <1>1, SmallestNumber
<1> QED BY <1>2 DEF NextRow

\* A call that only moves on, inside its transaction or with its answer, and locks nothing.
LEMMA MovesOn ==
    ASSUME LedgerInv, NEW c \in Calls, UNCHANGED <<tables, holder, inserting>>,
           \A d \in Calls \ {c} : pc'[d] = pc[d] /\ todo'[d] = todo[d] /\ answer'[d] = answer[d],
           LedgerTypeOK', Learned(c)',
           pc[c] # "COMMITTED" => c \notin posted,
           pc'[c] \notin {"ENSURE", "LOCK"},
           AnswersTrue'
    PROVE  LedgerInv'
<1>1. \A d \in Calls : Learned(d)'
    BY DEF LedgerInv, Learned, tables
<1>2. RowsGoUp'
    BY DEF LedgerInv, RowsGoUp, RowsGoUpOf, tables
<1>3. (InsertsClashFree /\ NoDoublePosting /\ outbox = posted)'
    BY DEF LedgerInv, InsertsClashFree, NoDoublePosting, tables
<1> QED BY <1>1, <1>2, <1>3 DEF LedgerInv

LEMMA CallKeeps ==
    ASSUME LedgerInv, NEW c \in Calls, Call(c)
    PROVE  LedgerInv'
<1> USE DEF LedgerInv, Call, GoTo, tables
<1>1. LedgerTypeOK'
    BY PlacesAre DEF LedgerTypeOK
<1>2. \A d \in Calls \ {c} : pc'[d] = pc[d]
    BY DEF LedgerTypeOK
<1>3. pc'[c] = "LOOKUP"
    BY DEF LedgerTypeOK
<1>4. Learned(c)' /\ AnswersTrue'
    BY <1>2, <1>3 DEF Learned, AnswersTrue
<1> QED BY <1>1, <1>2, <1>3, <1>4, MovesOn DEF Learned

\* An answer that is true ends a call which holds nothing.
LEMMA AnswerKeeps ==
    ASSUME LedgerInv, NEW c \in Calls, NEW kind, NEW entry, Answer(c, kind, entry),
           UNCHANGED <<tables, todo, holder, inserting>>,
           pc[c] \notin {"IDLE", "DONE", "ENSURE", "LOCK", "INSERT", "BALANCES"},
           [kind |-> kind, entry |-> entry] \in Replies,
           kind = "POSTED" => entry \in posted /\ entry = c,
           kind = "REPLAYED" => entry \in posted /\ SameHash(c, entry),
           kind = "UNIQUE_CONFLICT" => \E b \in posted \ {c} : SameReversal(c, b)
    PROVE  LedgerInv'
<1> USE DEF LedgerInv, Answer, GoTo, tables
<1>1. /\ pc'[c] = "DONE"
      /\ answer'[c] = [kind |-> kind, entry |-> entry]
      /\ \A d \in Calls \ {c} : pc'[d] = pc[d] /\ answer'[d] = answer[d]
    BY DEF LedgerTypeOK
<1>2. LedgerTypeOK'
    BY <1>1, PlacesAre DEF LedgerTypeOK
<1>3. Learned(c)' /\ AnswersTrue'
    BY <1>1 DEF Learned, AnswersTrue
<1> QED BY <1>1, <1>2, <1>3, MovesOn DEF Learned

LEMMA LookupKeeps ==
    ASSUME LedgerInv, NEW c \in Calls, Lookup(c)
    PROVE  LedgerInv'
<1>1. CASE ~Valid(c)
    BY <1>1, AnswerKeeps DEF Lookup, Replies, ReplyKinds
<1>2. CASE Valid(c) /\ \E b \in posted : SameRef(c, b) /\ AnswerFor(c, b)
    BY <1>2, AnswerKeeps DEF Lookup, AnswerFor, Replies, ReplyKinds, LedgerInv, LedgerTypeOK
<1>3. CASE Valid(c) /\ GoTo(c, "CHECK") /\ UNCHANGED answer
    <2> USE <1>3 DEF LedgerInv, Lookup, GoTo, tables
    <2>1. pc'[c] = "CHECK" /\ \A d \in Calls \ {c} : pc'[d] = pc[d]
        BY DEF LedgerTypeOK
    <2>2. LedgerTypeOK'
        BY <2>1, PlacesAre DEF LedgerTypeOK
    <2>3. Learned(c)' /\ AnswersTrue'
        BY <2>1 DEF Learned, AnswersTrue
    <2> QED BY <2>1, <2>2, <2>3, MovesOn DEF Learned
<1> QED BY <1>1, <1>2, <1>3 DEF Lookup

\* A step of c leaves what the other calls hold and have learned alone.
LEMMA OthersRowsGoUp ==
    ASSUME LedgerInv, NEW c \in Calls, UNCHANGED tables,
           \A d \in Calls \ {c} : pc'[d] = pc[d] /\ todo'[d] = todo[d],
           \A a \in Accounts : holder'[a] # holder[a] => holder[a] \in {c, Null} /\ holder'[a] \in {c, Null},
           NEW d \in Calls \ {c}, NEW a \in Accounts
    PROVE  RowsGoUpOf(d, a)'
<1>1. holder'[a] = d <=> holder[a] = d
    BY LedgerAssumption
<1> QED BY <1>1 DEF LedgerInv, RowsGoUp, RowsGoUpOf, tables

LEMMA CheckKeeps ==
    ASSUME LedgerInv, NEW c \in Calls, Check(c)
    PROVE  LedgerInv'
<1>1. CASE ~(AccountsPostable(c) /\ ReversalAllowed(c, posted))
    BY <1>1, AnswerKeeps DEF Check, Replies, ReplyKinds
<1>2. CASE AccountsPostable(c) /\ ReversalAllowed(c, posted)
    <2> USE <1>2 DEF LedgerInv, Check, GoTo
    <2>1. /\ pc'[c] = "ENSURE" /\ todo'[c] = TouchedAccounts(c)
          /\ \A d \in Calls \ {c} : pc'[d] = pc[d] /\ todo'[d] = todo[d]
          /\ \A a \in Accounts : holder[a] # c
        BY LedgerAssumption DEF LedgerTypeOK
    <2>2. LedgerTypeOK'
        BY <2>1, PlacesAre DEF LedgerTypeOK, AccountsPostable, tables
    <2>3. RowsGoUp'
        BY <2>1, OthersRowsGoUp DEF RowsGoUp, RowsGoUpOf
    <2>4. (\A d \in Calls : Learned(d))' /\ AnswersTrue'
        BY <2>1 DEF Learned, AnswersTrue, tables
    <2>5. (InsertsClashFree /\ NoDoublePosting /\ outbox = posted)'
        BY DEF InsertsClashFree, NoDoublePosting, tables
    <2> QED BY <2>2, <2>3, <2>4, <2>5
<1> QED BY <1>1, <1>2 DEF Check

\* What no step before the insert of the entry disturbs.
LEMMA BookUntouched ==
    ASSUME LedgerInv, NEW c \in Calls, UNCHANGED <<tables, inserting, answer>>,
           pc[c] \in {"ENSURE", "LOCK"}, pc'[c] \in {"ENSURE", "LOCK", "INSERT"},
           \A d \in Calls \ {c} : pc'[d] = pc[d]
    PROVE  /\ \A d \in Calls : Learned(d)'
           /\ (InsertsClashFree /\ NoDoublePosting /\ outbox = posted)'
           /\ AnswersTrue'
BY DEF LedgerInv, Learned, InsertsClashFree, NoDoublePosting, AnswersTrue, tables

LEMMA EnsureRowKeeps ==
    ASSUME LedgerInv, NEW c \in Calls, EnsureRow(c)
    PROVE  LedgerInv'
<1> USE DEF LedgerInv, EnsureRow
<1>0. NextRow(c) \in todo[c] /\ NextRow(c) \in Accounts /\ \A b \in todo[c] : NextRow(c) <= b
    BY NextRowIsNext DEF LedgerTypeOK
<1>a. todo[c] \in SUBSET Nat /\ NextRow(c) \in Nat
    BY <1>0, LedgerAssumption DEF LedgerTypeOK
<1>1. /\ todo'[c] = todo[c] \ {NextRow(c)}
      /\ \A d \in Calls \ {c} : todo'[d] = todo[d]
      /\ \A a \in Accounts : holder'[a] = IF a = NextRow(c) /\ a \notin rows THEN c ELSE holder[a]
    BY <1>0 DEF LedgerTypeOK
<1>2. LedgerTypeOK'
    BY <1>0, <1>1, LedgerAssumption DEF LedgerTypeOK, tables
<1>3. RowsGoUp'
    <2>1. ASSUME NEW a \in Accounts PROVE RowsGoUpOf(c, a)'
        <3>1. \A b \in todo'[c] : NextRow(c) < b
            BY <1>0, <1>a, <1>1
        <3>2. CASE a = NextRow(c)
            BY <3>1, <3>2, <1>1 DEF RowsGoUp, RowsGoUpOf, tables
        <3>3. CASE a # NextRow(c)
            BY <3>3, <1>1 DEF RowsGoUp, RowsGoUpOf, tables
        <3> QED BY <3>2, <3>3
    <2>2. \A a \in Accounts : holder'[a] # holder[a] => holder[a] \in {c, Null} /\ holder'[a] \in {c, Null}
        BY <1>0, <1>1
    <2> QED BY <2>1, <2>2, <1>1, OthersRowsGoUp DEF RowsGoUp, RowsGoUpOf
<1> QED BY <1>2, <1>3, BookUntouched

LEMMA RowsEnsuredKeeps ==
    ASSUME LedgerInv, NEW c \in Calls, RowsEnsured(c)
    PROVE  LedgerInv'
<1> USE DEF LedgerInv, RowsEnsured, GoTo
<1>1. /\ pc'[c] = "LOCK" /\ todo'[c] = TouchedAccounts(c)
      /\ \A d \in Calls \ {c} : pc'[d] = pc[d] /\ todo'[d] = todo[d]
    BY DEF LedgerTypeOK
<1>2. LedgerTypeOK'
    BY <1>1, PlacesAre DEF LedgerTypeOK, Learned, AccountsPostable, tables
<1>3. RowsGoUp'
    BY <1>1, OthersRowsGoUp DEF RowsGoUp, RowsGoUpOf, tables
<1> QED BY <1>1, <1>2, <1>3, BookUntouched

LEMMA LockRowKeeps ==
    ASSUME LedgerInv, NEW c \in Calls, LockRow(c)
    PROVE  LedgerInv'
<1> USE DEF LedgerInv, LockRow
<1>0. NextRow(c) \in todo[c] /\ NextRow(c) \in Accounts /\ \A b \in todo[c] : NextRow(c) <= b
    BY NextRowIsNext DEF LedgerTypeOK
<1>a. todo[c] \in SUBSET Nat /\ NextRow(c) \in Nat
    BY <1>0, LedgerAssumption DEF LedgerTypeOK
<1>1. /\ todo'[c] = todo[c] \ {NextRow(c)}
      /\ \A d \in Calls \ {c} : todo'[d] = todo[d]
      /\ \A a \in Accounts : holder'[a] = IF a = NextRow(c) THEN c ELSE holder[a]
    BY <1>0 DEF LedgerTypeOK
<1>2. LedgerTypeOK'
    BY <1>0, <1>1, LedgerAssumption DEF LedgerTypeOK, tables
<1>3. RowsGoUp'
    <2>1. ASSUME NEW a \in Accounts PROVE RowsGoUpOf(c, a)'
        <3>1. \A b \in todo'[c] : NextRow(c) < b
            BY <1>0, <1>a, <1>1
        <3>2. CASE a = NextRow(c)
            BY <3>1, <3>2, <1>1 DEF RowsGoUp, RowsGoUpOf, tables
        <3>3. CASE a # NextRow(c)
            BY <3>3, <1>1 DEF RowsGoUp, RowsGoUpOf, tables
        <3> QED BY <3>2, <3>3
    <2>2. \A a \in Accounts : holder'[a] # holder[a] => holder[a] \in {c, Null} /\ holder'[a] \in {c, Null}
        BY <1>0, <1>1
    <2> QED BY <2>1, <2>2, <1>1, OthersRowsGoUp DEF RowsGoUp, RowsGoUpOf
<1> QED BY <1>2, <1>3, BookUntouched

LEMMA RowsLockedKeeps ==
    ASSUME LedgerInv, NEW c \in Calls, RowsLocked(c)
    PROVE  LedgerInv'
<1> USE DEF LedgerInv, RowsLocked, GoTo
<1>1. pc'[c] = "INSERT" /\ \A d \in Calls \ {c} : pc'[d] = pc[d]
    BY DEF LedgerTypeOK
<1>2. LedgerTypeOK'
    BY <1>1, PlacesAre DEF LedgerTypeOK, tables
<1>3. RowsGoUp'
    BY <1>1, OthersRowsGoUp DEF RowsGoUp, RowsGoUpOf
<1> QED BY <1>1, <1>2, <1>3, BookUntouched

LEMMA Releases ==
    ASSUME LedgerTypeOK, NEW c \in Calls, Release(c)
    PROVE  /\ \A a \in Accounts : holder'[a] = IF holder[a] = c THEN Null ELSE holder[a]
           /\ holder' \in [Accounts -> Calls \cup {Null}]
           /\ inserting' = inserting \ {c}
           /\ todo' \in [Calls -> SUBSET Accounts]
           /\ todo'[c] = {} /\ \A d \in Calls \ {c} : todo'[d] = todo[d]
BY DEF Release, LedgerTypeOK

LEMMA InsertEntryKeeps ==
    ASSUME LedgerInv, NEW c \in Calls, InsertEntry(c)
    PROVE  LedgerInv'
<1> USE DEF LedgerInv, InsertEntry, GoTo
<1>1. CASE /\ \A b \in posted : ~Clash(c, b)
           /\ inserting' = inserting \cup {c}
           /\ GoTo(c, "BALANCES")
           /\ UNCHANGED <<todo, holder>>
    <2>1. pc'[c] = "BALANCES" /\ \A d \in Calls \ {c} : pc'[d] = pc[d]
        BY <1>1 DEF LedgerTypeOK
    <2>2. LedgerTypeOK'
        BY <1>1, <2>1, PlacesAre DEF LedgerTypeOK, tables
    <2>3. RowsGoUp'
        BY <1>1, <2>1, OthersRowsGoUp DEF RowsGoUp, RowsGoUpOf
    <2>4. InsertsClashFree'
        <3>1. \A b \in inserting : b \in Calls
            BY DEF LedgerTypeOK
        <3> QED BY <1>1, <3>1, ClashSymmetric DEF InsertsClashFree, tables
    <2>5. (\A d \in Calls : Learned(d))' /\ AnswersTrue' /\ (NoDoublePosting /\ outbox = posted)'
        BY <1>1, <2>1 DEF Learned, AnswersTrue, NoDoublePosting, tables
    <2> QED BY <2>2, <2>3, <2>4, <2>5
<1>2. CASE /\ \E b \in posted : Clash(c, b)
           /\ GoTo(c, "LOOKUP_AGAIN")
           /\ Release(c)
    <2>1. pc'[c] = "LOOKUP_AGAIN" /\ \A d \in Calls \ {c} : pc'[d] = pc[d]
        BY <1>2 DEF LedgerTypeOK
    <2>2. LedgerTypeOK'
        BY <1>2, <2>1, PlacesAre, Releases, LedgerAssumption DEF LedgerTypeOK, tables
    <2>a. /\ UNCHANGED tables
          /\ \A d \in Calls \ {c} : todo'[d] = todo[d]
          /\ \A a \in Accounts : holder'[a] # holder[a] => holder[a] \in {c, Null} /\ holder'[a] \in {c, Null}
        BY <1>2, Releases
    <2>3. RowsGoUp'
        <3> SUFFICES ASSUME NEW d \in Calls, NEW a \in Accounts PROVE RowsGoUpOf(d, a)'
            BY DEF RowsGoUp
        <3>1. CASE d = c
            BY <2>1, <3>1 DEF RowsGoUpOf
        <3>2. CASE d # c
            BY <2>a, <2>1, <3>2, OthersRowsGoUp
        <3> QED BY <3>1, <3>2
    <2>4. (InsertsClashFree /\ NoDoublePosting /\ outbox = posted)'
        BY <1>2, Releases DEF InsertsClashFree, NoDoublePosting, tables
    <2>5. (\A d \in Calls : Learned(d))' /\ AnswersTrue'
        BY <1>2, <2>1 DEF Learned, AnswersTrue, tables
    <2> QED BY <2>2, <2>3, <2>4, <2>5
<1> QED BY <1>1, <1>2

LEMMA CommitEntryKeeps ==
    ASSUME LedgerInv, NEW c \in Calls, CommitEntry(c)
    PROVE  LedgerInv'
<1> USE DEF LedgerInv, CommitEntry, GoTo
<1>1. /\ pc'[c] = "COMMITTED" /\ \A d \in Calls \ {c} : pc'[d] = pc[d]
      /\ c \in inserting
    BY DEF LedgerTypeOK
<1>2. LedgerTypeOK'
    <2>1. balance' \in [Accounts -> Int]
      <3>1. \A a \in Accounts : Impact(c, a) \in Int
          BY ImpactIsSum
      <3> QED BY <3>1 DEF LedgerTypeOK
    <2>2. /\ inserting' = {d \in Calls : pc'[d] = "BALANCES"}
          /\ pc' \in [Calls -> CallPCs]
        BY <1>1, Releases, PlacesAre DEF LedgerTypeOK
    <2>3. \A a \in Accounts : holder'[a] # Null => pc'[holder'[a]] \in {"ENSURE", "LOCK", "INSERT", "BALANCES"}
        BY <1>1, Releases DEF LedgerTypeOK
    <2> QED BY <2>1, <2>2, <2>3, Releases DEF LedgerTypeOK
<1>3. RowsGoUp'
    <2> SUFFICES ASSUME NEW d \in Calls, NEW a \in Accounts PROVE RowsGoUpOf(d, a)'
        BY DEF RowsGoUp
    <2>3. RowsGoUpOf(d, a)
        BY DEF RowsGoUp
    <2>4. CASE d = c
        BY <1>1, <2>4 DEF RowsGoUpOf
    <2>5. CASE d # c
        <3>1. pc'[d] = pc[d] /\ todo'[d] = todo[d]
            BY <1>1, <2>5, Releases
        <3>2. holder'[a] = d <=> holder[a] = d
            BY <2>5, Releases, LedgerAssumption
        <3>3. holder[a] = d => (a \in rows' <=> a \in rows)
            BY <2>5
        <3>4. a \in rows => a \in rows'
            OBVIOUS
        <3> HIDE DEF LedgerInv, CommitEntry, GoTo
        <3> QED BY <2>3, <3>1, <3>2, <3>3, <3>4 DEF RowsGoUpOf
    <2> QED BY <2>4, <2>5
<1>4. \A d \in Calls : Learned(d)'
    <2>1. \A d \in Calls : ReversalAllowed(d, posted) => ReversalAllowed(d, posted')
        BY AllowedStays
    <2> QED BY <1>1, <2>1 DEF Learned
<1>5. InsertsClashFree' /\ NoDoublePosting'
    <2>1. \A d \in posted \cup inserting : d \in Calls
        BY DEF LedgerTypeOK
    <2> QED BY <1>1, <2>1, Releases, ClashSymmetric DEF InsertsClashFree, NoDoublePosting
<1>6. (outbox = posted)'
    OBVIOUS
<1>7. AnswersTrue'
    BY <1>1 DEF AnswersTrue
<1> QED BY <1>2, <1>3, <1>4, <1>5, <1>6, <1>7

LEMMA ReturnKeeps ==
    ASSUME LedgerInv, NEW c \in Calls, Return(c)
    PROVE  LedgerInv'
BY AnswerKeeps DEF Return, Replies, ReplyKinds, LedgerInv, Learned

LEMMA LookupAgainKeeps ==
    ASSUME LedgerInv, NEW c \in Calls, LookupAgain(c)
    PROVE  LedgerInv'
<1>1. CASE \E b \in posted : SameRef(c, b) /\ AnswerFor(c, b)
    BY <1>1, AnswerKeeps DEF LookupAgain, AnswerFor, Replies, ReplyKinds, LedgerInv, LedgerTypeOK
<1>2. CASE (\A b \in posted : ~SameRef(c, b)) /\ Answer(c, "UNIQUE_CONFLICT", Null)
    <2>1. \E b \in posted \ {c} : SameReversal(c, b)
        BY <1>2 DEF LookupAgain, LedgerInv, Learned, Clash
    <2> QED BY <1>2, <2>1, AnswerKeeps DEF LookupAgain, Replies, ReplyKinds
<1> QED BY <1>1, <1>2 DEF LookupAgain

LEMMA LoseKeeps ==
    ASSUME LedgerInv, NEW c \in Calls, Lose(c)
    PROVE  LedgerInv'
<1> USE DEF LedgerInv, Lose, Answer, GoTo
<1>1. /\ pc'[c] = "DONE" /\ \A d \in Calls \ {c} : pc'[d] = pc[d] /\ answer'[d] = answer[d]
      /\ answer'[c] = [kind |-> "FAILED", entry |-> Null]
    BY DEF LedgerTypeOK
<1>2. LedgerTypeOK'
    <2>1. /\ inserting' = {d \in Calls : pc'[d] = "BALANCES"}
          /\ pc' \in [Calls -> CallPCs]
          /\ answer' \in [Calls -> Replies]
        BY <1>1, Releases, PlacesAre DEF LedgerTypeOK, Replies, ReplyKinds
    <2>2. \A a \in Accounts : holder'[a] # Null => pc'[holder'[a]] \in {"ENSURE", "LOCK", "INSERT", "BALANCES"}
        BY <1>1, Releases DEF LedgerTypeOK
    <2> QED BY <2>1, <2>2, Releases DEF LedgerTypeOK, tables
<1>3. RowsGoUp'
    BY <1>1, OthersRowsGoUp, Releases DEF RowsGoUp, RowsGoUpOf
<1>4. (InsertsClashFree /\ NoDoublePosting /\ outbox = posted)'
    BY Releases DEF InsertsClashFree, NoDoublePosting, tables
<1>5. (\A d \in Calls : Learned(d))' /\ AnswersTrue'
    BY <1>1 DEF Learned, AnswersTrue, tables
<1> QED BY <1>2, <1>3, <1>4, <1>5

(***************************************************************************)
(* The invariant of any number of concurrent posts, over any accounts.     *)
(***************************************************************************)
THEOREM LedgerInvariant == LedgerSpec => []LedgerInv
<1>1. ASSUME LedgerInv, [LedgerNext]_ledgerVars PROVE LedgerInv'
    <2>1. CASE UNCHANGED ledgerVars
        BY <1>1, <2>1 DEF ledgerVars, tables, LedgerInv, LedgerTypeOK, RowsGoUp, RowsGoUpOf, Learned, InsertsClashFree,
                          NoDoublePosting, AnswersTrue
    <2>2. ASSUME NEW c \in Calls, Call(c) \/ CallStep(c) \/ Lose(c) PROVE LedgerInv'
        BY <1>1, <2>2, CallKeeps, LookupKeeps, CheckKeeps, EnsureRowKeeps, RowsEnsuredKeeps, LockRowKeeps,
           RowsLockedKeeps, InsertEntryKeeps, CommitEntryKeeps, ReturnKeeps, LookupAgainKeeps, LoseKeeps
           DEF CallStep
    <2> QED BY <1>1, <2>1, <2>2 DEF LedgerNext
<1> QED BY <1>1, LedgerInitInv, PTL DEF LedgerSpec

(***************************************************************************)
(* For any calls and commands, in any interleaving and with any losses, a  *)
(* reference is entered once and an entry reversed at most once.           *)
(***************************************************************************)
THEOREM PostedOnce == LedgerSpec => []NoDoublePosting
<1>1. LedgerInv => NoDoublePosting
    BY DEF LedgerInv
<1> QED BY <1>1, LedgerInvariant, PTL

(***************************************************************************)
(* Only open transactions hold rows, and everything keeps its type.        *)
(***************************************************************************)
THEOREM LedgerTypeCorrect == LedgerSpec => []LedgerTypeOK
<1>1. LedgerInv => LedgerTypeOK
    BY DEF LedgerInv
<1> QED BY <1>1, LedgerInvariant, PTL

(***************************************************************************)
(* The loser of a race for a reference is told the winner's entry.         *)
(***************************************************************************)
THEOREM LosersAreTold == LedgerSpec => []LosersKnowWhy
<1>1. LedgerInv => LosersKnowWhy
    BY DEF LedgerInv, LosersKnowWhy, AnswersTrue, SameHash
<1> QED BY <1>1, LedgerInvariant, PTL

-----------------------------------------------------------------------------
(* The books. *)

\* Both sides of a scope are the same, and the balances are what the book derives.
BooksInv ==
    /\ IsFiniteSet(posted)
    /\ \A scope : Sum(balance, SideOf(scope, "debit")) = Sum(balance, SideOf(scope, "credit"))
    /\ \A a \in Accounts : balance[a] = DerivedBalance(posted, a)

\* The one step that moves balances adds the impact of its command to both sides.
LEMMA CommitKeepsBooks ==
    ASSUME LedgerInv, BooksInv, NEW c \in Calls, CommitEntry(c)
    PROVE  BooksInv'
<1>1. /\ c \notin posted /\ Valid(c) /\ AccountsPostable(c)
      /\ posted \in SUBSET Calls /\ \A a \in Accounts : balance[a] \in Int
    BY DEF CommitEntry, LedgerInv, Learned, LedgerTypeOK
<1>2. posted' = posted \cup {c} /\ balance' = [a \in Accounts |-> balance[a] + Impact(c, a)]
    BY DEF CommitEntry
<1>3. IsFiniteSet(posted) /\ IsFiniteSet(posted')
    BY <1>2, FS_AddElement DEF BooksInv
<1>4. PICK old, impact, new : old = balance /\ impact = ImpactOf(c) /\ new = balance'
    OBVIOUS
<1>5. \A a \in Accounts : old[a] \in Int /\ impact[a] \in Int /\ new[a] = old[a] + impact[a]
                           /\ impact[a] = Impact(c, a)
    BY <1>1, <1>2, <1>4, ImpactIsSum DEF ImpactOf
<1>6. ASSUME NEW X \in SUBSET Accounts PROVE Sum(new, X) = Sum(old, X) + Sum(impact, X)
  <2>1. IsFiniteSet(X) /\ \A a \in X : old[a] \in Int /\ impact[a] \in Int /\ new[a] = old[a] + impact[a]
      BY <1>5, AccountsAreFinite
  <2> QED BY <2>1, SumPlus
<1>7. ASSUME NEW scope PROVE Sum(new, SideOf(scope, "debit")) = Sum(new, SideOf(scope, "credit"))
  <2>1. SideOf(scope, "debit") \in SUBSET Accounts /\ SideOf(scope, "credit") \in SUBSET Accounts
      BY DEF SideOf
  <2>2. Sum(old, SideOf(scope, "debit")) = Sum(old, SideOf(scope, "credit"))
      BY <1>4 DEF BooksInv
  <2>3. Sum(impact, SideOf(scope, "debit")) = Sum(impact, SideOf(scope, "credit"))
      BY <1>1, <1>4, SidesMoveAlike
  <2> QED BY <1>6, <2>1, <2>2, <2>3
<1>8. ASSUME NEW a \in Accounts PROVE new[a] = DerivedBalance(posted', a)
  <2>1. old[a] = DerivedBalance(posted, a)
      BY <1>4 DEF BooksInv
  <2>2. DerivedBalance(posted \cup {c}, a) = DerivedBalance(posted, a) + Impact(c, a)
      BY <1>1, <1>3, DerivedGrows
  <2> QED BY <1>2, <1>5, <2>1, <2>2
<1> QED BY <1>3, <1>4, <1>7, <1>8 DEF BooksInv

\* The sums of the property are those of the invariant.
LEMMA BooksBalance ==
    BooksInv => TrialBalance
<1> SUFFICES ASSUME BooksInv PROVE TrialBalance
    OBVIOUS
<1>1. \A X : MapThenSumSet(LAMBDA a : balance[a], X) = Sum(balance, X)
    BY DEF MapThenSumSet, MapThenFoldSet, Sum, Adds, First
<1>2. ASSUME NEW scope \in {Account[a].scope : a \in Accounts}
      PROVE  MapThenSumSet(LAMBDA a : balance[a], SideOf(scope, "debit"))
                 = MapThenSumSet(LAMBDA a : balance[a], SideOf(scope, "credit"))
    BY <1>1 DEF BooksInv
<1> QED BY <1>2 DEF TrialBalance, BooksInv, SideOf

\* Debits and credits of every scope come to the same, and every balance is what its postings come
\* to, whatever commands are posted and however the calls interleave and fail (postEntry).
THEOREM BooksAlwaysBalance == LedgerSpec => []TrialBalance
<1>1. LedgerInit => BooksInv
  <2> SUFFICES ASSUME LedgerInit PROVE BooksInv
      OBVIOUS
  <2>1. posted = {} /\ balance = [a \in Accounts |-> 0]
      BY DEF LedgerInit
  <2>2. IsFiniteSet(posted)
      BY <2>1, FS_EmptySet
  <2>3. \A X \in SUBSET Accounts : Sum(balance, X) = 0
    <3>1. PICK zero : zero = balance
        OBVIOUS
    <3>2. ASSUME NEW X \in SUBSET Accounts PROVE Sum(zero, X) = 0
      <4>1. IsFiniteSet(X) /\ \A a \in X : zero[a] = 0
          BY <2>1, <3>1, AccountsAreFinite
      <4> QED BY <4>1, SumIsZero
    <3> QED BY <3>1, <3>2
  <2>4. \A scope : Sum(balance, SideOf(scope, "debit")) = Sum(balance, SideOf(scope, "credit"))
    <3>1. \A scope : SideOf(scope, "debit") \in SUBSET Accounts /\ SideOf(scope, "credit") \in SUBSET Accounts
        BY DEF SideOf
    <3> QED BY <2>3, <3>1
  <2>5. \A a \in Accounts : DerivedBalance({}, a) = 0
      BY DerivedOfNothing
  <2> QED BY <2>1, <2>2, <2>4, <2>5 DEF BooksInv
<1>2. LedgerInv /\ BooksInv /\ [LedgerNext]_ledgerVars => BooksInv'
  <2> SUFFICES ASSUME LedgerInv, BooksInv, [LedgerNext]_ledgerVars PROVE BooksInv'
      OBVIOUS
  <2>1. CASE \E c \in Calls : CommitEntry(c)
      BY <2>1, CommitKeepsBooks
  <2>2. CASE UNCHANGED <<posted, balance>>
      BY <2>2 DEF BooksInv
  <2> QED BY <2>1, <2>2 DEF LedgerNext, CallStep, Call, Lookup, Check, EnsureRow, RowsEnsured, LockRow,
                           RowsLocked, InsertEntry, Return, LookupAgain, Lose, ledgerVars, tables
<1> QED BY <1>1, <1>2, LedgerInvariant, BooksBalance, PTL DEF LedgerSpec

-----------------------------------------------------------------------------
(***************************************************************************)
(* No circle of waiting transactions.  Whoever waits for a committed row   *)
(* waits for a transaction that has locked it and, if that waits too, does *)
(* so for a committed row further up; whoever waits for an uncommitted row *)
(* waits for the transaction that inserted it, which waits for a row       *)
(* further up or for a committed one.                                      *)
(***************************************************************************)
WaitsForCommitted(c, b) ==
    /\ pc[c] = "LOCK" /\ todo[c] # {}
    /\ holder[NextRow(c)] = b /\ b # c

WaitsForUncommitted(c, b) ==
    /\ pc[c] = "ENSURE" /\ todo[c] # {}
    /\ NextRow(c) \notin rows /\ holder[NextRow(c)] = b

\* A set of accounts has a last one.
LEMMA LastAccount ==
    ASSUME NEW S \in SUBSET Accounts, S # {}
    PROVE  \E a \in S : \A b \in S : b <= a
<1>1. PICK n \in Nat : \A a \in Accounts : a <= n
    BY LedgerAssumption
<1>2. S \subseteq Nat
    BY LedgerAssumption
<1> DEFINE D == {n - a : a \in S}
<1>3. D \in SUBSET Nat /\ D # {}
    <2>1. ASSUME NEW a \in S PROVE n - a \in Nat
        <3>1. a \in Nat /\ a <= n
            BY <1>1, <1>2
        <3> QED BY <3>1
    <2> QED BY <2>1
<1> HIDE DEF D
<1>4. PICK d \in D : \A m \in D : d <= m
    BY <1>3, SmallestNumber
<1>5. PICK a \in S : d = n - a
    BY <1>4 DEF D
<1>6. \A b \in S : n - b \in D
    BY DEF D
<1>7. \A b \in S : n - a <= n - b
    BY <1>4, <1>5, <1>6
<1>8. \A b \in S : b <= a
    BY <1>1, <1>2, <1>7
<1> QED BY <1>8

LEMMA WaitForCommittedGoesUp ==
    ASSUME LedgerInv, NEW c \in Calls, NEW b \in Calls, WaitsForCommitted(c, b), NEW d \in Calls, WaitsFor(b, d)
    PROVE  \/ WaitsForCommitted(b, d) /\ NextRow(c) < NextRow(b)
           \/ pc[b] = "INSERT"
<1>1. NextRow(c) \in todo[c] /\ NextRow(c) \in Accounts
    BY NextRowIsNext DEF LedgerInv, LedgerTypeOK, WaitsForCommitted
<1>2. NextRow(c) \in rows
    BY <1>1 DEF LedgerInv, RowsGoUp, RowsGoUpOf, WaitsForCommitted
<1>3. CASE pc[b] = "ENSURE"
    BY <1>1, <1>2, <1>3 DEF LedgerInv, RowsGoUp, RowsGoUpOf, WaitsForCommitted
<1>4. CASE pc[b] = "LOCK"
    <2>1. todo[b] # {} /\ holder[NextRow(b)] = d /\ d # b
        BY <1>4 DEF WaitsFor
    <2>2. NextRow(b) \in todo[b]
        BY <2>1, NextRowIsNext DEF LedgerInv
    <2> QED BY <1>1, <1>2, <1>4, <2>1, <2>2 DEF LedgerInv, RowsGoUp, RowsGoUpOf, WaitsForCommitted
<1> QED BY <1>3, <1>4 DEF WaitsFor

LEMMA WaitForUncommittedGoesUp ==
    ASSUME LedgerInv, NEW c \in Calls, NEW b \in Calls, WaitsForUncommitted(c, b), NEW d \in Calls, WaitsFor(b, d)
    PROVE  \/ WaitsForUncommitted(b, d) /\ NextRow(c) < NextRow(b)
           \/ WaitsForCommitted(b, d)
           \/ pc[b] = "INSERT"
<1>1. NextRow(c) \in todo[c] /\ NextRow(c) \in Accounts
    BY NextRowIsNext DEF LedgerInv, LedgerTypeOK, WaitsForUncommitted
<1>2. CASE pc[b] = "ENSURE"
    <2>1. WaitsForUncommitted(b, d)
        BY <1>2 DEF WaitsFor, WaitsForUncommitted
    <2>2. NextRow(b) \in todo[b]
        BY <2>1, NextRowIsNext DEF LedgerInv, WaitsForUncommitted
    <2> QED BY <1>1, <1>2, <2>1, <2>2 DEF LedgerInv, RowsGoUp, RowsGoUpOf, WaitsForUncommitted
<1>3. CASE pc[b] = "LOCK"
    BY <1>3 DEF WaitsFor, WaitsForCommitted
<1> QED BY <1>2, <1>3 DEF WaitsFor

LEMMA NoCircle == LedgerInv => NoWaitCycle
<1> SUFFICES ASSUME LedgerInv, NEW W \in (SUBSET Calls) \ {{}},
                    \A c \in W : \E b \in W : WaitsFor(c, b)
             PROVE  FALSE
    BY DEF NoWaitCycle
<1>0. W # {} /\ W \subseteq Calls
    OBVIOUS
<1>1. \A c \in W : pc[c] # "INSERT"
    <2>1. ASSUME NEW c \in W, pc[c] = "INSERT" PROVE FALSE
        <3>1. PICK b \in W : WaitsFor(c, b)
            OBVIOUS
        <3>2. pc[b] = "BALANCES"
            BY <2>1, <3>1 DEF WaitsFor, LedgerInv, LedgerTypeOK
        <3> QED BY <3>2 DEF WaitsFor
    <2> QED BY <2>1
<1>2. \A c, b \in W : ~WaitsForCommitted(c, b)
    <2> DEFINE L == {c \in W : \E b \in W : WaitsForCommitted(c, b)}
               A == {NextRow(c) : c \in L}
    <2>1. A \in SUBSET Accounts
        BY NextRowIsNext DEF LedgerInv, LedgerTypeOK, WaitsForCommitted
    <2>2. ASSUME A # {} PROVE FALSE
        <3>1. PICK a \in A : \A e \in A : e <= a
            BY <2>1, <2>2, LastAccount
        <3>2. PICK c \in L : a = NextRow(c)
            BY <3>1
        <3>3. PICK b \in W : WaitsForCommitted(c, b)
            BY <3>2
        <3>4. PICK d \in W : WaitsFor(b, d)
            OBVIOUS
        <3>5. WaitsForCommitted(b, d) /\ NextRow(c) < NextRow(b)
            BY <1>1, <3>3, <3>4, WaitForCommittedGoesUp
        <3>6. NextRow(b) \in A
            BY <3>5
        <3>7. NextRow(c) \in Nat /\ NextRow(b) \in Nat /\ NextRow(b) <= NextRow(c)
            BY <2>1, <3>1, <3>2, <3>6, LedgerAssumption
        <3> QED BY <3>5, <3>7
    <2> QED BY <2>2
<1>3. \A c, b \in W : WaitsFor(c, b) => WaitsForUncommitted(c, b)
    BY <1>1, <1>2 DEF WaitsFor, WaitsForCommitted, WaitsForUncommitted
<1> DEFINE A == {NextRow(c) : c \in W}
<1>4. A \in SUBSET Accounts /\ A # {}
    <2>1. ASSUME NEW c \in W PROVE NextRow(c) \in Accounts
        <3>1. PICK b \in W : WaitsForUncommitted(c, b)
            BY <1>3
        <3> QED BY <3>1, NextRowIsNext DEF LedgerInv, LedgerTypeOK, WaitsForUncommitted
    <2> QED BY <1>0, <2>1
<1>5. PICK a \in A : \A e \in A : e <= a
    BY <1>4, LastAccount
<1>6. PICK c \in W : a = NextRow(c)
    BY <1>5
<1>7. PICK b \in W : WaitsFor(c, b)
    OBVIOUS
<1>8. PICK d \in W : WaitsFor(b, d)
    OBVIOUS
<1>9. NextRow(c) < NextRow(b) /\ NextRow(b) \in A
    BY <1>1, <1>2, <1>3, <1>7, <1>8, WaitForUncommittedGoesUp
<1>10. NextRow(c) \in Nat /\ NextRow(b) \in Nat /\ NextRow(b) <= NextRow(c)
    BY <1>4, <1>5, <1>6, <1>9, LedgerAssumption
<1> QED BY <1>9, <1>10

(***************************************************************************)
(* However many posts run over however many accounts, the order in which   *)
(* they insert and lock the balance rows keeps them from waiting in a      *)
(* circle.                                                                 *)
(***************************************************************************)
THEOREM PostsNeverDeadlock == LedgerSpec => []NoWaitCycle
BY LedgerInvariant, NoCircle, PTL

-----------------------------------------------------------------------------
(***************************************************************************)
(* Refinement: the commit enters the command in the book, an answer is a   *)
(* response, and every other statement changes nothing of the book.        *)
(***************************************************************************)
BookReply == [c \in Calls |-> Reply(c)]

LEMMA QuietStep ==
    ASSUME LedgerInv, NEW c \in Calls, UNCHANGED <<posted, balance, answer>>,
           pc[c] \notin {"IDLE", "DONE"}, pc'[c] \notin {"IDLE", "DONE"},
           \A d \in Calls \ {c} : pc'[d] = pc[d]
    PROVE  UNCHANGED Book!bookVars
<1>1. \A d \in Calls : Reply(d)' = Reply(d)
    BY DEF Reply
<1>2. BookReply' = BookReply
    BY <1>1 DEF BookReply
<1> QED BY <1>2 DEF Book!bookVars, BookReply

LEMMA AnswerStep ==
    ASSUME LedgerInv, NEW c \in Calls, NEW kind, NEW entry, Answer(c, kind, entry),
           UNCHANGED <<posted, balance>>,
           pc[c] \notin {"IDLE", "DONE"},
           [kind |-> kind, entry |-> entry] \in Replies,
           Book!Truthful(c, [kind |-> kind, entry |-> entry])
    PROVE  Book!Respond(c)
<1> DEFINE r == [kind |-> kind, entry |-> entry]
<1>1. /\ pc'[c] = "DONE" /\ answer'[c] = r
      /\ \A d \in Calls \ {c} : pc'[d] = pc[d] /\ answer'[d] = answer[d]
    BY DEF LedgerInv, LedgerTypeOK, Answer, GoTo
<1>2. Reply(c) = [kind |-> "PENDING", entry |-> Null] /\ Reply(c)' = r
    BY <1>1 DEF Reply
<1>3. \A d \in Calls \ {c} : Reply(d)' = Reply(d)
    BY <1>1 DEF Reply
<1>4. BookReply' = [BookReply EXCEPT ![c] = r]
    BY <1>2, <1>3 DEF BookReply
<1>5. BookReply[c].kind = "PENDING"
    BY <1>2 DEF BookReply
<1>6. r \in Book!Replies
    BY DEF Book!Replies, Book!ReplyKinds, Replies, ReplyKinds
<1> QED BY <1>4, <1>5, <1>6 DEF Book!Respond, BookReply

LEMMA CommandsAgree ==
    ASSUME NEW c \in Calls, NEW b
    PROVE  /\ Book!SameRef(c, b) <=> SameRef(c, b)
           /\ Book!SameHash(c, b) <=> SameHash(c, b)
           /\ Book!SameReversal(c, b) <=> SameReversal(c, b)
           /\ Book!Clash(c, b) <=> Clash(c, b)
           /\ Book!ReversalAllowed(c, posted) <=> ReversalAllowed(c, posted)
<1>1. Book!SameRef(c, b) <=> SameRef(c, b)
    BY DEF Book!SameRef, SameRef
<1>2. Book!SameHash(c, b) <=> SameHash(c, b)
    BY DEF Book!SameHash, SameHash
<1>3. Book!SameReversal(c, b) <=> SameReversal(c, b)
    BY DEF Book!SameReversal, SameReversal
<1>4. Book!Clash(c, b) <=> Clash(c, b)
    BY <1>1, <1>3 DEF Book!Clash, Clash
<1>5. Book!ReversalAllowed(c, posted) <=> ReversalAllowed(c, posted)
    BY DEF Book!ReversalAllowed, ReversalAllowed
<1> QED BY <1>1, <1>2, <1>3, <1>4, <1>5

LEMMA EnterStep ==
    ASSUME LedgerInv, NEW c \in Calls, CommitEntry(c)
    PROVE  Book!Enter(c)
<1> USE DEF LedgerInv, CommitEntry, GoTo
<1>1. pc'[c] = "COMMITTED" /\ \A d \in Calls \ {c} : pc'[d] = pc[d]
    BY DEF LedgerTypeOK
<1>2. \A d \in Calls : Reply(d)' = Reply(d)
    BY <1>1 DEF Reply
<1>3. BookReply' = BookReply
    BY <1>2 DEF BookReply
<1>4. BookReply[c].kind = "PENDING"
    BY DEF BookReply, Reply
<1>5. \A b \in posted : ~Book!Clash(c, b)
    BY CommandsAgree DEF InsertsClashFree, LedgerTypeOK
<1>6. Valid(c) /\ AccountsPostable(c) /\ Book!ReversalAllowed(c, posted)
    BY CommandsAgree DEF Learned
<1> QED BY <1>3, <1>4, <1>5, <1>6 DEF Book!Enter, BookReply

LEMMA AnswerForStep ==
    ASSUME LedgerInv, NEW c \in Calls, NEW b \in posted, SameRef(c, b), AnswerFor(c, b),
           UNCHANGED <<posted, balance>>, pc[c] \in {"LOOKUP", "LOOKUP_AGAIN"}
    PROVE  Book!Respond(c)
<1>1. b \in Calls /\ b # c
    BY DEF LedgerInv, LedgerTypeOK, Learned
<1>2. CASE SameHash(c, b)
    <2>1. Book!Truthful(c, [kind |-> "REPLAYED", entry |-> b])
        BY <1>1, <1>2, CommandsAgree DEF Book!Truthful
    <2> QED BY <1>1, <1>2, <2>1, AnswerStep DEF AnswerFor, Replies, ReplyKinds
<1>3. CASE ~SameHash(c, b)
    <2>1. Book!Truthful(c, [kind |-> "REF_CONFLICT", entry |-> Null])
        BY <1>1, <1>3, CommandsAgree DEF Book!Truthful
    <2> QED BY <1>3, <2>1, AnswerStep DEF AnswerFor, Replies, ReplyKinds
<1> QED BY <1>2, <1>3

LEMMA RefusedStep ==
    ASSUME LedgerInv, NEW c \in Calls, Answer(c, "REFUSED", Null), UNCHANGED <<posted, balance>>,
           pc[c] \in {"LOOKUP", "CHECK"}
    PROVE  Book!Respond(c)
<1>1. Book!Truthful(c, [kind |-> "REFUSED", entry |-> Null])
    BY DEF Book!Truthful, LedgerInv, Learned
<1> QED BY <1>1, AnswerStep DEF Replies, ReplyKinds

LEMMA AskStep ==
    ASSUME LedgerInv, NEW c \in Calls, Call(c)
    PROVE  Book!Ask(c)
<1>1. pc'[c] = "LOOKUP" /\ (\A d \in Calls \ {c} : pc'[d] = pc[d])
    BY DEF LedgerInv, LedgerTypeOK, Call, GoTo
<1>2. Reply(c) = [kind |-> "NONE", entry |-> Null] /\ Reply(c)' = [kind |-> "PENDING", entry |-> Null]
    BY <1>1 DEF Reply, Call, LedgerInv, AnswersTrue
<1>3. \A d \in Calls \ {c} : Reply(d)' = Reply(d)
    BY <1>1 DEF Reply, Call
<1>4. BookReply' = [BookReply EXCEPT ![c] = [kind |-> "PENDING", entry |-> Null]]
    BY <1>2, <1>3 DEF BookReply
<1>5. BookReply[c].kind = "NONE"
    BY <1>2 DEF BookReply
<1> QED BY <1>4, <1>5 DEF Book!Ask, BookReply, Call, tables

LEMMA StepMapsToBook ==
    ASSUME LedgerInv, NEW c \in Calls, Call(c) \/ CallStep(c) \/ Lose(c)
    PROVE  Book!Ask(c) \/ Book!Enter(c) \/ Book!Respond(c) \/ UNCHANGED Book!bookVars
<1>1. CASE Call(c)
    BY <1>1, AskStep
<1>2. CASE Lookup(c)
    <2>1. CASE GoTo(c, "CHECK") /\ UNCHANGED answer
        BY <1>2, <2>1, QuietStep DEF Lookup, GoTo, tables, LedgerInv, LedgerTypeOK
    <2>2. CASE Answer(c, "REFUSED", Null)
        BY <1>2, <2>2, RefusedStep DEF Lookup, tables
    <2>3. CASE \E b \in posted : SameRef(c, b) /\ AnswerFor(c, b)
        BY <1>2, <2>3, AnswerForStep DEF Lookup, tables
    <2> QED BY <1>2, <2>1, <2>2, <2>3 DEF Lookup
<1>3. CASE Check(c)
    <2>1. CASE GoTo(c, "ENSURE") /\ UNCHANGED answer
        BY <1>3, <2>1, QuietStep DEF Check, GoTo, tables, LedgerInv, LedgerTypeOK
    <2>2. CASE Answer(c, "REFUSED", Null)
        BY <1>3, <2>2, RefusedStep DEF Check, tables
    <2> QED BY <1>3, <2>1, <2>2 DEF Check
<1>4. CASE EnsureRow(c) \/ LockRow(c)
    BY <1>4, QuietStep DEF EnsureRow, LockRow, tables
<1>5. CASE RowsEnsured(c) \/ RowsLocked(c)
    BY <1>5, QuietStep DEF RowsEnsured, RowsLocked, GoTo, tables, LedgerInv, LedgerTypeOK
<1>6. CASE InsertEntry(c)
    BY <1>6, QuietStep DEF InsertEntry, GoTo, tables, LedgerInv, LedgerTypeOK
<1>7. CASE CommitEntry(c)
    BY <1>7, EnterStep
<1>8. CASE Return(c)
    <2>1. Book!Truthful(c, [kind |-> "POSTED", entry |-> c])
        BY <1>8 DEF Book!Truthful, Return, LedgerInv, Learned
    <2> QED BY <1>8, <2>1, AnswerStep DEF Return, tables, Replies, ReplyKinds
<1>9. CASE LookupAgain(c)
    <2>1. CASE \E b \in posted : SameRef(c, b) /\ AnswerFor(c, b)
        BY <1>9, <2>1, AnswerForStep DEF LookupAgain, tables
    <2>2. CASE (\A b \in posted : ~SameRef(c, b)) /\ Answer(c, "UNIQUE_CONFLICT", Null)
        <3>1. \E b \in posted \ {c} : SameReversal(c, b)
            BY <1>9, <2>2 DEF LookupAgain, LedgerInv, Learned, Clash
        <3>2. Book!Truthful(c, [kind |-> "UNIQUE_CONFLICT", entry |-> Null])
            BY <3>1, CommandsAgree DEF Book!Truthful
        <3> QED BY <1>9, <2>2, <3>2, AnswerStep DEF LookupAgain, tables, Replies, ReplyKinds
    <2> QED BY <1>9, <2>1, <2>2 DEF LookupAgain
<1>10. CASE Lose(c)
    <2>1. Book!Truthful(c, [kind |-> "FAILED", entry |-> Null])
        BY DEF Book!Truthful
    <2> QED BY <1>10, <2>1, PlacesAre, AnswerStep DEF Lose, tables, Replies, ReplyKinds
<1> QED BY <1>1, <1>2, <1>3, <1>4, <1>5, <1>6, <1>7, <1>8, <1>9, <1>10 DEF CallStep

(***************************************************************************)
(* For any calls, accounts and commands, the interleaved statements of     *)
(* postEntry implement the ledger book.                                    *)
(***************************************************************************)
THEOREM LedgerImplementsBook == LedgerSpec => ImplementsBook
<1>1. LedgerInit => Book!BookInit
    BY DEF LedgerInit, Book!BookInit, Reply
<1>2. ASSUME LedgerInv, [LedgerNext]_ledgerVars
      PROVE  [Book!BookNext]_(Book!bookVars)
    <2>1. CASE UNCHANGED ledgerVars
        <3>1. \A d \in Calls : Reply(d)' = Reply(d)
            BY <2>1 DEF ledgerVars, Reply
        <3>2. BookReply' = BookReply
            BY <3>1 DEF BookReply
        <3> QED BY <2>1, <3>2 DEF ledgerVars, tables, Book!bookVars, BookReply
    <2>2. CASE LedgerNext
        BY <1>2, <2>2, StepMapsToBook DEF LedgerNext, Book!BookNext
    <2> QED BY <1>2, <2>1, <2>2
<1> QED BY <1>1, <1>2, LedgerInvariant, PTL DEF LedgerSpec, ImplementsBook, Book!BookSpec
=============================================================================
