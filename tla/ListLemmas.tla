----------------------------- MODULE ListLemmas ----------------------------
(***************************************************************************)
(* Facts about numbers, finite sets of positions and the operators on      *)
(* lists that the proofs of other modules cite. Induction is by the least  *)
(* number that is not in a set.                                            *)
(***************************************************************************)
EXTENDS Lists, Integers, SequencesExt, FiniteSetTheorems, FunctionTheorems, TLAPS

\* A set of natural numbers has a least element.
LEMMA LeastNumber ==
  ASSUME NEW T, T \subseteq Nat, T # {}
  PROVE  \E n \in T : \A m \in T : n <= m
<1> DEFINE R == {ss \in Nat \X Nat : ss[1] < ss[2]}
<1>1. R = OpToRel(<, Nat)
  BY DEF OpToRel
<1>2. IsWellFoundedOn(R, Nat)
  BY <1>1, NatLessThanWellFounded
<1> HIDE DEF R
<1>3. PICK n \in T : \A m \in T : <<m, n>> \notin R
  BY <1>2, WFMin
<1>4. n \in Nat /\ \A m \in T : m \in Nat /\ ~(m < n)
  BY <1>3 DEF R
<1>5. \A m \in T : n <= m
  BY <1>4
<1> QED
  BY <1>5

\* Induction: a set of numbers with 0 and the successors of its elements.
LEMMA AllNumbers ==
  ASSUME NEW T, T \subseteq Nat, 0 \in T, \A n \in T : n + 1 \in T
  PROVE  T = Nat
<1>1. SUFFICES ASSUME Nat \ T # {} PROVE FALSE
  OBVIOUS
<1>2. PICK n \in Nat \ T : \A m \in Nat \ T : n <= m
  BY <1>1, LeastNumber
<1>3. n # 0 /\ n - 1 \in Nat /\ n - 1 \notin Nat \ T
  BY <1>2
<1> QED
  BY <1>2, <1>3

\* Induction over the positions of a list.
LEMMA AllPositions ==
  ASSUME NEW N \in Nat, NEW T, N # 0 => 1 \in T,
         \A n \in 1..N : n \in T /\ n + 1 \in 1..N => n + 1 \in T
  PROVE  \A n \in 1..N : n \in T
<1> DEFINE U == {n \in Nat : n \in 1..N => n \in T}
<1>1. 0 \in U /\ U \subseteq Nat
  OBVIOUS
<1>2. ASSUME NEW n \in U PROVE n + 1 \in U
  <2>1. n \in Nat /\ n + 1 \in Nat
    OBVIOUS
  <2>2. SUFFICES ASSUME n + 1 \in 1..N PROVE n + 1 \in T
    BY <2>1
  <2>3. CASE n = 0
    BY <2>2, <2>3
  <2>4. CASE n # 0
    <3>1. n \in 1..N
      BY <2>1, <2>2, <2>4
    <3> QED
      BY <2>2, <3>1
  <2> QED
    BY <2>3, <2>4
<1>3. U = Nat
  <2> HIDE DEF U
  <2> QED
    BY <1>1, <1>2, AllNumbers
<1> QED
  BY <1>3

\* A finite set of positions can be numbered in order: Nth is the numbering.
LEMMA NthOrder ==
  ASSUME NEW S, S \subseteq Nat, IsFiniteSet(S)
  PROVE  /\ Cardinality(S) \in Nat
         /\ \A n \in 1..Cardinality(S) : Nth(S, n) \in S
         /\ \A m, n \in 1..Cardinality(S) : m < n => Nth(S, m) < Nth(S, n)
         /\ \A i \in S : \E n \in 1..Cardinality(S) : Nth(S, n) = i
<1> DEFINE upTo(i) == {j \in S : j <= i}
           rank == [i \in S |-> Cardinality(upTo(i))]
           N == Cardinality(S)
<1>1. N \in Nat
  BY FS_CardinalityType
<1>2. \A i : upTo(i) \in SUBSET S
  OBVIOUS
<1>3. \A i : IsFiniteSet(upTo(i)) /\ Cardinality(upTo(i)) \in Nat /\ Cardinality(upTo(i)) <= N
  <2> SUFFICES ASSUME NEW i
               PROVE  IsFiniteSet(upTo(i)) /\ Cardinality(upTo(i)) \in Nat
                      /\ Cardinality(upTo(i)) <= N
    OBVIOUS
  <2>1. IsFiniteSet(upTo(i)) /\ Cardinality(upTo(i)) <= N
    BY <1>2, FS_Subset
  <2> QED
    BY <2>1, FS_CardinalityType
<1>4. \A i \in S : rank[i] \in 1..N
  <2> SUFFICES ASSUME NEW i \in S PROVE Cardinality(upTo(i)) \in 1..N
    OBVIOUS
  <2>1. i \in upTo(i)
    OBVIOUS
  <2>2. Cardinality(upTo(i)) # 0
    BY <2>1, <1>3, FS_EmptySet
  <2> HIDE DEF upTo, N
  <2> QED
    BY <1>1, <1>3, <2>2
<1>5. \A i, j \in S : i < j => rank[i] < rank[j]
  <2> SUFFICES ASSUME NEW i \in S, NEW j \in S, i < j
               PROVE  Cardinality(upTo(i)) < Cardinality(upTo(j))
    OBVIOUS
  <2>1. upTo(i) \in SUBSET upTo(j) /\ j \in upTo(j) /\ j \notin upTo(i)
    <3>1. i \in Nat /\ j \in Nat
      OBVIOUS
    <3>2. \A k \in S : k <= i => k <= j
      BY <3>1
    <3>3. upTo(i) \subseteq upTo(j)
      BY <3>2
    <3>4. j \in upTo(j) /\ j \notin upTo(i)
      BY <3>1
    <3> QED
      BY <3>3, <3>4
  <2>2. /\ Cardinality(upTo(i)) <= Cardinality(upTo(j))
        /\ Cardinality(upTo(i)) # Cardinality(upTo(j))
    <3> HIDE DEF upTo
    <3> QED
      BY <1>3, <2>1, FS_Subset
  <2> HIDE DEF upTo
  <2> QED
    BY <1>3, <2>2
<1> HIDE DEF rank, upTo
<1>6. rank \in [S -> 1..N]
  BY <1>4 DEF rank
<1>7. \A i, j \in S : rank[i] = rank[j] => i = j
  <2> SUFFICES ASSUME NEW i \in S, NEW j \in S, rank[i] = rank[j], i # j PROVE FALSE
    OBVIOUS
  <2>1. rank[i] \in Nat
    BY <1>1, <1>4
  <2>2. i < j \/ j < i
    OBVIOUS
  <2> QED
    BY <1>5, <2>1, <2>2
<1>8. rank \in Injection(S, 1..N)
  BY <1>6, <1>7, Fun_IsInj
<1>9. rank \in Surjection(S, 1..N)
  <2>1. IsFiniteSet(1..N) /\ Cardinality(1..N) = N
    <3> HIDE DEF N
    <3>1. 1 \in Int /\ N \in Int /\ N >= 0
      BY <1>1
    <3> QED
      BY <3>1, FS_Interval
  <2> QED
    BY <1>8, <2>1, FS_Injection
<1>10. \A n \in 1..N : \E i \in S : rank[i] = n
  BY <1>9, Fun_SurjectionProperties
<1>11. \A n \in 1..N : Nth(S, n) \in S /\ rank[Nth(S, n)] = n
  <2> SUFFICES ASSUME NEW n \in 1..N PROVE Nth(S, n) \in S /\ rank[Nth(S, n)] = n
    OBVIOUS
  <2>1. Nth(S, n) = CHOOSE i \in S : rank[i] = n
    BY DEF Nth, rank, upTo
  <2> QED
    BY <1>10, <2>1
<1>12. \A m, n \in 1..N : m < n => Nth(S, m) < Nth(S, n)
  <2> SUFFICES ASSUME NEW m \in 1..N, NEW n \in 1..N, m < n, ~(Nth(S, m) < Nth(S, n))
               PROVE  FALSE
    OBVIOUS
  <2> DEFINE a == Nth(S, m)
             b == Nth(S, n)
  <2>1. a \in S /\ b \in S /\ rank[a] = m /\ rank[b] = n
    BY <1>11
  <2>2. a = b \/ b < a
    <3>1. a \in Nat /\ b \in Nat /\ ~(a < b)
      BY <2>1
    <3> HIDE DEF a, b
    <3> QED
      BY <3>1
  <2> HIDE DEF a, b
  <2>3. m \in Nat /\ n \in Nat
    BY <1>1
  <2> QED
    BY <1>5, <2>1, <2>2, <2>3
<1>13. \A i \in S : Nth(S, rank[i]) = i
  BY <1>4, <1>7, <1>11
<1> QED
  BY <1>1, <1>4, <1>11, <1>12, <1>13

\* What At returns: the elements at the positions S, each once, in order.
LEMMA AtElements ==
  ASSUME NEW s, NEW N \in Nat, DOMAIN s = 1..N, NEW S \in SUBSET (1..N)
  PROVE  \E p \in [1..Cardinality(S) -> S] :
           /\ Cardinality(S) \in Nat
           /\ DOMAIN At(s, S) = 1..Cardinality(S)
           /\ \A n \in 1..Cardinality(S) : At(s, S)[n] = s[p[n]]
           /\ \A m, n \in 1..Cardinality(S) : m < n => p[m] < p[n]
           /\ \A i \in S : \E n \in 1..Cardinality(S) : p[n] = i
<1>1. IsFiniteSet(S) /\ S \subseteq Nat
  <2>1. 1 \in Int /\ N \in Int
    OBVIOUS
  <2>2. IsFiniteSet(1..N)
    BY <2>1, FS_Interval
  <2>3. IsFiniteSet(S)
    BY <2>2, FS_Subset
  <2> QED
    BY <2>3
<1>2. /\ Cardinality(S) \in Nat
      /\ \A n \in 1..Cardinality(S) : Nth(S, n) \in S
      /\ \A m, n \in 1..Cardinality(S) : m < n => Nth(S, m) < Nth(S, n)
      /\ \A i \in S : \E n \in 1..Cardinality(S) : Nth(S, n) = i
  BY <1>1, NthOrder
<1> DEFINE p == [n \in 1..Cardinality(S) |-> Nth(S, n)]
<1>3. p \in [1..Cardinality(S) -> S]
  BY <1>2
<1>4. \A n \in 1..Cardinality(S) : At(s, S)[n] = s[p[n]]
  BY DEF At
<1>5. DOMAIN At(s, S) = 1..Cardinality(S)
  BY DEF At
<1> HIDE DEF p
<1>6. /\ \A m, n \in 1..Cardinality(S) : m < n => p[m] < p[n]
      /\ \A i \in S : \E n \in 1..Cardinality(S) : p[n] = i
  BY <1>2 DEF p
<1> QED
  BY <1>2, <1>3, <1>4, <1>5, <1>6

\* The list a holds the elements of s at the positions S, in their order.
Copies(a, s, S) ==
  \E K \in Nat : \E p \in [1..K -> S] :
    /\ DOMAIN a = 1..K
    /\ \A n \in 1..K : a[n] = s[p[n]]
    /\ \A m, n \in 1..K : m < n => p[m] < p[n]
    /\ \A i \in S : \E n \in 1..K : p[n] = i

LEMMA AtCopies ==
  ASSUME NEW s, NEW N \in Nat, DOMAIN s = 1..N, NEW S \in SUBSET (1..N)
  PROVE  Copies(At(s, S), s, S)
<1>1. PICK p \in [1..Cardinality(S) -> S] :
           /\ Cardinality(S) \in Nat
           /\ DOMAIN At(s, S) = 1..Cardinality(S)
           /\ \A n \in 1..Cardinality(S) : At(s, S)[n] = s[p[n]]
           /\ \A m, n \in 1..Cardinality(S) : m < n => p[m] < p[n]
           /\ \A i \in S : \E n \in 1..Cardinality(S) : p[n] = i
  BY AtElements
<1> QED
  BY <1>1 DEF Copies

LEMMA AtKeeps ==
  ASSUME NEW X, NEW s, NEW N \in Nat, DOMAIN s = 1..N, NEW S \in SUBSET (1..N),
         \A i \in 1..N : s[i] \in X
  PROVE  At(s, S) \in Seq(X)
<1>0. Copies(At(s, S), s, S)
  BY AtCopies
<1>1. PICK K \in Nat : \E p \in [1..K -> S] :
           /\ DOMAIN At(s, S) = 1..K
           /\ \A n \in 1..K : At(s, S)[n] = s[p[n]]
  BY <1>0 DEF Copies
<1>2. \A n \in 1..K : At(s, S)[n] \in X
  BY <1>1
<1>3. At(s, S) = [n \in DOMAIN At(s, S) |-> At(s, S)[n]]
  BY DEF At
<1>4. At(s, S) \in [1..K -> X]
  BY <1>1, <1>2, <1>3
<1> QED
  BY <1>4

LEMMA AtType ==
  ASSUME NEW X, NEW s \in Seq(X), NEW S \in SUBSET DOMAIN s
  PROVE  At(s, S) \in Seq(X)
<1>1. PICK N \in Nat : DOMAIN s = 1..N
  OBVIOUS
<1>2. S \in SUBSET (1..N) /\ \A i \in 1..N : s[i] \in X
  BY <1>1
<1> QED
  BY <1>1, <1>2, AtKeeps

\* An injective map of a finite set of positions into itself reaches them all.
LEMMA InjectiveOnto ==
  ASSUME NEW S, NEW T, IsFiniteSet(S), IsFiniteSet(T), Cardinality(S) = Cardinality(T),
         NEW f \in [S -> T], \A i, j \in S : f[i] = f[j] => i = j
  PROVE  \A t \in T : \E i \in S : f[i] = t
<1>1. f \in Injection(S, T)
  BY Fun_IsInj
<1>2. f \in Surjection(S, T)
  BY <1>1, FS_Injection
<1> QED
  BY <1>2, Fun_SurjectionProperties

LEMMA PermutationOnto ==
  ASSUME NEW S, IsFiniteSet(S), NEW f \in [S -> S], \A i, j \in S : f[i] = f[j] => i = j
  PROVE  \A t \in S : \E i \in S : f[i] = t
<1>1. f \in Injection(S, S)
  BY Fun_IsInj
<1>2. f \in Surjection(S, S)
  BY <1>1, FS_Injection
<1> QED
  BY <1>2, Fun_SurjectionProperties

\* Elements that are ranked by how many there are up to each: of two, one is up to
\* the other and not the other way round, so there is one of every rank.
LEMMA Ranking ==
  ASSUME NEW N \in Nat, NEW upTo \in [1..N -> SUBSET (1..N)],
         \A f \in 1..N : f \in upTo[f],
         \A f, g \in 1..N : f # g => \/ (upTo[f] \subseteq upTo[g] /\ g \notin upTo[f])
                                     \/ (upTo[g] \subseteq upTo[f] /\ f \notin upTo[g])
  PROVE  /\ \A f \in 1..N : Cardinality(upTo[f]) \in 1..N
         /\ \A f, g \in 1..N :
              upTo[f] \subseteq upTo[g] /\ g \notin upTo[f] =>
                Cardinality(upTo[f]) < Cardinality(upTo[g])
         /\ \A f, g \in 1..N : Cardinality(upTo[f]) = Cardinality(upTo[g]) => f = g
         /\ \A r \in 1..N : \E f \in 1..N : Cardinality(upTo[f]) = r
<1> DEFINE U == 1..N
           rank == [f \in U |-> Cardinality(upTo[f])]
<1>1. IsFiniteSet(U) /\ Cardinality(U) = N
  <2>1. 1 \in Int /\ N \in Int
    OBVIOUS
  <2> QED
    BY <2>1, FS_Interval
<1> HIDE DEF U
<1>2. \A f \in U : /\ upTo[f] \in SUBSET U /\ IsFiniteSet(upTo[f])
                   /\ Cardinality(upTo[f]) \in Nat /\ Cardinality(upTo[f]) <= N
                   /\ Cardinality(upTo[f]) # 0
  <2> SUFFICES ASSUME NEW f \in U
               PROVE  /\ upTo[f] \in SUBSET U /\ IsFiniteSet(upTo[f])
                      /\ Cardinality(upTo[f]) \in Nat /\ Cardinality(upTo[f]) <= N
                      /\ Cardinality(upTo[f]) # 0
    OBVIOUS
  <2>1. upTo[f] \in SUBSET U /\ upTo[f] # {}
    BY DEF U
  <2>2. IsFiniteSet(upTo[f]) /\ Cardinality(upTo[f]) <= N
    BY <1>1, <2>1, FS_Subset
  <2>3. Cardinality(upTo[f]) \in Nat
    BY <2>2, FS_CardinalityType
  <2>4. Cardinality(upTo[f]) # 0
    BY <2>1, <2>2, FS_EmptySet
  <2> QED
    BY <2>1, <2>2, <2>3, <2>4
<1>3. \A f, g \in U : upTo[f] \subseteq upTo[g] /\ g \notin upTo[f] =>
                        Cardinality(upTo[f]) < Cardinality(upTo[g])
  <2> SUFFICES ASSUME NEW f \in U, NEW g \in U, upTo[f] \subseteq upTo[g], g \notin upTo[f]
               PROVE  Cardinality(upTo[f]) < Cardinality(upTo[g])
    OBVIOUS
  <2>1. upTo[f] \in SUBSET upTo[g] /\ upTo[f] # upTo[g]
    BY DEF U
  <2>2. /\ Cardinality(upTo[f]) <= Cardinality(upTo[g])
        /\ Cardinality(upTo[f]) # Cardinality(upTo[g])
    BY <1>2, <2>1, FS_Subset
  <2> QED
    BY <1>2, <2>2
<1>4. \A f, g \in U : Cardinality(upTo[f]) = Cardinality(upTo[g]) => f = g
  <2> SUFFICES ASSUME NEW f \in U, NEW g \in U, f # g,
                      Cardinality(upTo[f]) = Cardinality(upTo[g])
               PROVE  FALSE
    OBVIOUS
  <2>1. \/ (upTo[f] \subseteq upTo[g] /\ g \notin upTo[f])
        \/ (upTo[g] \subseteq upTo[f] /\ f \notin upTo[g])
    BY DEF U
  <2>2. \/ Cardinality(upTo[f]) < Cardinality(upTo[g])
        \/ Cardinality(upTo[g]) < Cardinality(upTo[f])
    BY <1>3, <2>1
  <2> QED
    BY <1>2, <2>2
<1>5. \A f \in U : Cardinality(upTo[f]) \in U
  BY <1>2 DEF U
<1>6. rank \in [U -> U] /\ \A f, g \in U : rank[f] = rank[g] => f = g
  BY <1>4, <1>5
<1> HIDE DEF rank
<1>7. \A r \in U : \E f \in U : rank[f] = r
  BY <1>1, <1>6, PermutationOnto
<1>8. \A r \in U : \E f \in U : Cardinality(upTo[f]) = r
  BY <1>7 DEF rank
<1> QED
  BY <1>3, <1>4, <1>5, <1>8 DEF U

-----------------------------------------------------------------------------
(* Loops *)

\* The states f of a loop over N elements that begins in v0 and whose turn k takes
\* the state v to step[k][v].
LoopRun(N, v0, step, f) ==
  f[0] = v0 /\ \A k \in 1..N : f[k] = step[k][f[k - 1]]

\* They exist.
LEMMA LoopStates ==
  ASSUME NEW N \in Nat, NEW V, NEW v0 \in V, NEW step \in [1..N -> [V -> V]]
  PROVE  \E f \in [0..N -> V] : LoopRun(N, v0, step, f)
<1> DEFINE Up(f, n) == f[0] = v0 /\ \A k \in 1..N : k <= n => f[k] = step[k][f[k - 1]]
           T == {n \in Nat : \E f \in [0..N -> V] : Up(f, n)}
<1>1. 0 \in T
  <2> DEFINE f == [k \in 0..N |-> v0]
  <2>1. f \in [0..N -> V] /\ f[0] = v0
    OBVIOUS
  <2>2. Up(f, 0)
    BY <2>1
  <2> QED
    BY <2>1, <2>2
<1>2. \A n \in T : n + 1 \in T
  <2> SUFFICES ASSUME NEW n \in T PROVE n + 1 \in T
    OBVIOUS
  <2>0. PICK f \in [0..N -> V] : Up(f, n)
    OBVIOUS
  <2> n \in Nat
    OBVIOUS
  <2> SUFFICES \E g \in [0..N -> V] : Up(g, n + 1)
    BY n + 1 \in Nat
  <2>1. CASE n + 1 \notin 1..N
    <3>1. \A k \in 1..N : k <= n + 1 => k <= n
      BY <2>1
    <3> QED
      BY <2>0, <3>1
  <2>2. CASE n + 1 \in 1..N
    <3> DEFINE new == step[n + 1][f[n]]
               g == [f EXCEPT ![n + 1] = new]
    <3>1. n \in 0..N /\ f[n] \in V
      BY <2>2
    <3>2. new \in V
      BY <2>2, <3>1
    <3> HIDE DEF new
    <3>3. g \in [0..N -> V] /\ g[0] = f[0] /\ g[n + 1] = new
      BY <2>2, <3>2
    <3>4. \A k \in 0..N : k <= n => g[k] = f[k]
      BY <2>2
    <3> HIDE DEF g
    <3>5. ASSUME NEW k \in 1..N, k <= n + 1 PROVE g[k] = step[k][g[k - 1]]
      <4>1. k - 1 \in 0..N /\ k - 1 <= n
        BY <3>5
      <4>2. g[k - 1] = f[k - 1]
        BY <3>4, <4>1
      <4>3. CASE k = n + 1
        <5>1. k - 1 = n
          BY <4>3
        <5> QED
          BY <3>3, <4>2, <4>3, <5>1 DEF new
      <4>4. CASE k <= n
        BY <2>0, <3>4, <4>2, <4>4
      <4> QED
        BY <3>5, <4>3, <4>4
    <3> QED
      BY <2>0, <3>3, <3>5
  <2> QED
    BY <2>1, <2>2
<1>3. T = Nat
  <2>1. T \subseteq Nat
    OBVIOUS
  <2> HIDE DEF T
  <2> QED
    BY <1>1, <1>2, <2>1, AllNumbers
<1>4. PICK f \in [0..N -> V] : Up(f, N)
  BY <1>3
<1>5. \A k \in 1..N : f[k] = step[k][f[k - 1]]
  BY <1>4
<1> QED
  BY <1>4, <1>5 DEF LoopRun

\* Behind each other: F[n] is the first n lists of ss joined, M[n] its length and
\* L[n] that of list n.
Stages(N, ss, L, F, M) ==
  /\ L \in [1..N -> Nat] /\ M \in [1..N -> Nat]
  /\ M[1] = L[1] /\ \A i \in 1..L[1] : F[1][i] = ss[1][i]
  /\ \A n \in 1..N : n + 1 \in 1..N =>
       /\ M[n + 1] = M[n] + L[n + 1]
       /\ \A q \in 1..M[n] : F[n + 1][q] = F[n][q]
       /\ \A i \in 1..L[n + 1] : F[n + 1][M[n] + i] = ss[n + 1][i]

\* List k lies behind position at[k] of the lists joined up to n, and nothing else.
Lies(at, n, ss, L, F, M) ==
  /\ \A k \in 1..n : \A i \in 1..L[k] : at[k] + i \in 1..M[n] /\ F[n][at[k] + i] = ss[k][i]
  /\ \A q \in 1..M[n] : \E k \in 1..n : \E i \in 1..L[k] : q = at[k] + i

LEMMA JoinedPieces ==
  ASSUME NEW N \in Nat, N # 0, NEW ss, NEW L, NEW F, NEW M, Stages(N, ss, L, F, M)
  PROVE  \E at \in [1..N -> Nat] : Lies(at, N, ss, L, F, M)
<1> DEFINE at == [k \in 1..N |-> IF k = 1 THEN 0 ELSE M[k - 1]]
<1>0. L \in [1..N -> Nat] /\ M \in [1..N -> Nat]
  BY DEF Stages
<1>1. at \in [1..N -> Nat]
  <2>1. \A k \in 1..N : k # 1 => k - 1 \in 1..N
    OBVIOUS
  <2> QED
    BY <1>0, <2>1
<1>2. at[1] = 0
  OBVIOUS
<1>3. \A n \in 1..N : n + 1 \in 1..N => at[n + 1] = M[n]
  OBVIOUS
<1> HIDE DEF at
<1>4. Lies(at, 1, ss, L, F, M)
  <2>1. M[1] = L[1] /\ L[1] \in Nat /\ \A i \in 1..L[1] : F[1][i] = ss[1][i]
    BY <1>0 DEF Stages
  <2>2. \A i \in 1..L[1] : at[1] + i = i
    BY <1>2, <2>1
  <2>3. \A k \in 1..1 : k = 1
    OBVIOUS
  <2>4. 1 \in 1..1
    OBVIOUS
  <2> QED
    BY <2>1, <2>2, <2>3, <2>4 DEF Lies
<1>5. ASSUME NEW n \in 1..N, Lies(at, n, ss, L, F, M), n + 1 \in 1..N
      PROVE  Lies(at, n + 1, ss, L, F, M)
  <2>1. /\ M[n + 1] = M[n] + L[n + 1]
        /\ \A q \in 1..M[n] : F[n + 1][q] = F[n][q]
        /\ \A i \in 1..L[n + 1] : F[n + 1][M[n] + i] = ss[n + 1][i]
    BY <1>5 DEF Stages
  <2>2. M[n] \in Nat /\ L[n + 1] \in Nat /\ at[n + 1] = M[n] /\ n + 1 \in 1..(n + 1)
    BY <1>0, <1>3, <1>5
  <2>3. \A k \in 1..(n + 1) : k \in 1..n \/ k = n + 1
    OBVIOUS
  <2>4. ASSUME NEW k \in 1..(n + 1), NEW i \in 1..L[k]
        PROVE  at[k] + i \in 1..M[n + 1] /\ F[n + 1][at[k] + i] = ss[k][i]
    <3>1. CASE k = n + 1
      <4>1. i \in 1..L[n + 1] /\ at[k] = M[n]
        BY <2>2, <3>1
      <4>2. M[n] + i \in 1..M[n + 1]
        BY <2>1, <2>2, <4>1
      <4> QED
        BY <2>1, <3>1, <4>1, <4>2
    <3>2. CASE k \in 1..n
      <4>1. at[k] + i \in 1..M[n] /\ F[n][at[k] + i] = ss[k][i]
        BY <1>5, <3>2 DEF Lies
      <4>2. at[k] + i \in 1..M[n + 1]
        BY <2>1, <2>2, <4>1
      <4> QED
        BY <2>1, <4>1, <4>2
    <3> QED
      BY <2>3, <3>1, <3>2
  <2>5. ASSUME NEW q \in 1..M[n + 1]
        PROVE  \E k \in 1..(n + 1) : \E i \in 1..L[k] : q = at[k] + i
    <3>1. CASE q \in 1..M[n]
      <4>1. \A k \in 1..n : k \in 1..(n + 1)
        OBVIOUS
      <4> QED
        BY <1>5, <3>1, <4>1 DEF Lies
    <3>2. CASE q \notin 1..M[n]
      <4>1. q - M[n] \in 1..L[n + 1] /\ q = M[n] + (q - M[n])
        BY <2>1, <2>2, <3>2
      <4> QED
        BY <2>2, <4>1
    <3> QED
      BY <3>1, <3>2
  <2> QED
    BY <2>4, <2>5 DEF Lies
<1> DEFINE T == {n \in 1..N : Lies(at, n, ss, L, F, M)}
<1>6. 1 \in 1..N /\ N \in 1..N
  OBVIOUS
<1>7. N \in T
  <2>1. 1 \in T /\ \A n \in 1..N : n \in T /\ n + 1 \in 1..N => n + 1 \in T
    BY <1>4, <1>5, <1>6
  <2> HIDE DEF T
  <2> QED
    BY <1>6, <2>1, AllPositions
<1> QED
  BY <1>1, <1>7

\* Concatenation.
LEMMA Joined ==
  ASSUME NEW X, NEW s \in Seq(X), NEW t \in Seq(X)
  PROVE  /\ s \o t \in Seq(X) /\ Len(s \o t) = Len(s) + Len(t)
         /\ \A q \in 1..Len(s) : (s \o t)[q] = s[q]
         /\ \A i \in 1..Len(t) : (s \o t)[Len(s) + i] = t[i]
  OBVIOUS

\* The recursive function of FlattenSeq.
Flattening(N, ss, F) ==
  /\ F[1] = ss[1]
  /\ \A n \in 1..N : n + 1 \in 1..N => F[n + 1] = F[n] \o ss[n + 1]

LEMMA FlattenSteps ==
  ASSUME NEW N \in Nat, N # 0, NEW X, NEW ss \in [1..N -> Seq(X)]
  PROVE  \E F : FlattenSeq(ss) = F[N] /\ Flattening(N, ss, F)
<1> DEFINE Turn(f, i) == IF i = 1 THEN ss[i] ELSE f[i - 1] \o ss[i]
           Equation(f) == f = [i \in 1..N |-> Turn(f, i)]
           F == CHOOSE f : Equation(f)
<1>1. FlattenSeq(ss) = F[N]
  <2>1. Len(ss) = N
    OBVIOUS
  <2> QED
    BY <2>1 DEF FlattenSeq
<1>2. \E f : Equation(f)
  <2> DEFINE V == Seq(X)
             step == [k \in 1..N |-> [v \in V |-> IF k = 1 THEN ss[k] ELSE v \o ss[k]]]
  <2>1. ASSUME NEW k \in 1..N, NEW v \in V
        PROVE  (IF k = 1 THEN ss[k] ELSE v \o ss[k]) \in V
    BY Joined
  <2>2. << >> \in V
    OBVIOUS
  <2> HIDE DEF V
  <2>3. step \in [1..N -> [V -> V]]
    BY <2>1
  <2>4. \A k \in 1..N : \A v \in V :
          step[k][v] = IF k = 1 THEN ss[k] ELSE v \o ss[k]
    OBVIOUS
  <2> HIDE DEF step
  <2>5. PICK f \in [0..N -> V] : LoopRun(N, << >>, step, f)
    BY <2>2, <2>3, LoopStates
  <2>6. \A k \in 1..N : f[k] = step[k][f[k - 1]]
    BY <2>5 DEF LoopRun
  <2> DEFINE g == [i \in 1..N |-> f[i]]
  <2>7. ASSUME NEW i \in 1..N PROVE g[i] = Turn(g, i)
    <3>1. i - 1 \in 0..N /\ f[i - 1] \in V
      OBVIOUS
    <3>2. f[i] = Turn(f, i)
      BY <2>4, <2>6, <3>1
    <3>3. i # 1 => i - 1 \in 1..N
      OBVIOUS
    <3> QED
      BY <3>2, <3>3
  <2>8. Equation(g)
    <3> HIDE DEF Turn
    <3> QED
      BY <2>7
  <2> HIDE DEF g, Equation
  <2> QED
    BY <2>8
<1>3. Equation(F)
  <2> HIDE DEF Equation
  <2> QED
    BY <1>2
<1>4. \A i \in 1..N : F[i] = Turn(F, i)
  <2> HIDE DEF F, Turn
  <2> QED
    BY <1>3
<1> HIDE DEF F, Equation
<1>5. F[1] = ss[1]
  BY <1>4
<1>6. ASSUME NEW n \in 1..N, n + 1 \in 1..N PROVE F[n + 1] = F[n] \o ss[n + 1]
  <2>1. PICK i \in 1..N : i = n + 1
    BY <1>6
  <2>2. i # 1 /\ i - 1 = n
    BY <2>1
  <2>3. F[i] = F[i - 1] \o ss[i]
    BY <1>4, <2>2
  <2> QED
    BY <2>1, <2>2, <2>3, Zenon
<1>7. Flattening(N, ss, F)
  BY <1>5, <1>6 DEF Flattening
<1> QED
  BY <1>1, <1>7

\* FlattenSeq keeps every element of every list: list k lies behind position at[k].
Flattened(at, N, ss, flat) ==
  /\ \A k \in 1..N : \A i \in 1..Len(ss[k]) :
       at[k] + i \in 1..Len(flat) /\ flat[at[k] + i] = ss[k][i]
  /\ \A q \in 1..Len(flat) : \E k \in 1..N : \E i \in 1..Len(ss[k]) : q = at[k] + i

LEMMA FlattenElements ==
  ASSUME NEW N \in Nat, NEW X, NEW ss \in [1..N -> Seq(X)]
  PROVE  /\ FlattenSeq(ss) \in Seq(X)
         /\ \E at \in [1..N -> Nat] : Flattened(at, N, ss, FlattenSeq(ss))
<1>1. CASE N = 0
  <2>1. ss = << >>
    BY <1>1
  <2>2. FlattenSeq(ss) = << >>
    BY <2>1 DEF FlattenSeq
  <2>3. [k \in 1..N |-> 0] \in [1..N -> Nat]
    OBVIOUS
  <2>4. << >> \in Seq(X) /\ Len(<< >>) = 0
    OBVIOUS
  <2>5. \A q : q \notin 1..N /\ q \notin 1..Len(FlattenSeq(ss))
    BY <1>1, <2>2, <2>4
  <2>6. \A at : Flattened(at, N, ss, FlattenSeq(ss))
    BY <2>5 DEF Flattened
  <2> QED
    BY <2>2, <2>3, <2>4, <2>6
<1>2. CASE N # 0
  <2>0. PICK F : FlattenSeq(ss) = F[N] /\ Flattening(N, ss, F)
    BY <1>2, FlattenSteps
  <2>1. F[1] = ss[1] /\ \A n \in 1..N : n + 1 \in 1..N => F[n + 1] = F[n] \o ss[n + 1]
    BY <2>0 DEF Flattening
  <2>2. 1 \in 1..N /\ N \in 1..N
    BY <1>2
  <2> DEFINE T == {n \in 1..N : F[n] \in Seq(X)}
  <2>3. \A n \in 1..N : F[n] \in Seq(X)
    <3>1. 1 \in T
      BY <2>1, <2>2
    <3>2. ASSUME NEW n \in 1..N, n \in T, n + 1 \in 1..N PROVE n + 1 \in T
      <4>1. F[n] \in Seq(X) /\ ss[n + 1] \in Seq(X)
        BY <3>2
      <4>2. F[n] \o ss[n + 1] \in Seq(X)
        BY <4>1, Joined
      <4> QED
        BY <2>1, <3>2, <4>2
    <3>3. \A n \in 1..N : n \in T
      <4> HIDE DEF T
      <4> QED
        BY <3>1, <3>2, AllPositions
    <3> QED
      BY <3>3
  <2> DEFINE L == [n \in 1..N |-> Len(ss[n])]
             M == [n \in 1..N |-> Len(F[n])]
  <2>4. \A t \in Seq(X) : Len(t) \in Nat
    OBVIOUS
  <2>5. L \in [1..N -> Nat] /\ M \in [1..N -> Nat]
    BY <2>3, <2>4
  <2>6. \A n \in 1..N : L[n] = Len(ss[n]) /\ M[n] = Len(F[n])
    OBVIOUS
  <2> HIDE DEF L, M
  <2>7. M[1] = L[1] /\ \A i \in 1..L[1] : F[1][i] = ss[1][i]
    BY <2>1, <2>6, <2>2
  <2>8. ASSUME NEW n \in 1..N, NEW m \in 1..N, m = n + 1
        PROVE  /\ M[m] = M[n] + L[m]
               /\ \A q \in 1..M[n] : F[m][q] = F[n][q]
               /\ \A i \in 1..L[m] : F[m][M[n] + i] = ss[m][i]
    <3>1. F[n] \in Seq(X) /\ ss[m] \in Seq(X) /\ F[m] = F[n] \o ss[m]
      BY <2>1, <2>3, <2>8
    <3>2. M[n] = Len(F[n]) /\ M[m] = Len(F[m]) /\ L[m] = Len(ss[m])
      BY <2>6
    <3> QED
      BY <3>1, <3>2, Joined
  <2>9. Stages(N, ss, L, F, M)
    BY <2>5, <2>7, <2>8 DEF Stages
  <2>10. PICK at \in [1..N -> Nat] : Lies(at, N, ss, L, F, M)
    BY <1>2, <2>9, JoinedPieces
  <2>11. FlattenSeq(ss) \in Seq(X) /\ M[N] = Len(FlattenSeq(ss))
    BY <2>0, <2>2, <2>3, <2>6
  <2>12. Flattened(at, N, ss, FlattenSeq(ss))
    <3>1. ASSUME NEW k \in 1..N, NEW i \in 1..Len(ss[k])
          PROVE  /\ at[k] + i \in 1..Len(FlattenSeq(ss))
                 /\ FlattenSeq(ss)[at[k] + i] = ss[k][i]
      <4>1. i \in 1..L[k]
        BY <2>6
      <4> QED
        BY <2>0, <2>10, <2>11, <4>1 DEF Lies
    <3>2. ASSUME NEW q \in 1..Len(FlattenSeq(ss))
          PROVE  \E k \in 1..N : \E i \in 1..Len(ss[k]) : q = at[k] + i
      <4>1. PICK k \in 1..N : \E i \in 1..L[k] : q = at[k] + i
        BY <2>10, <2>11 DEF Lies
      <4> QED
        BY <2>6, <4>1
    <3> QED
      BY <3>1, <3>2 DEF Flattened
  <2> QED
    BY <2>11, <2>12
<1> QED
  BY <1>1, <1>2

LEMMA FlattenEmpty == FlattenSeq(<< >>) = << >>
<1>1. ASSUME NEW ss, ss = << >> PROVE FlattenSeq(ss) = << >>
  BY <1>1 DEF FlattenSeq
<1> QED
  BY <1>1

LEMMA FlattenType ==
  ASSUME NEW X, NEW ss \in Seq(Seq(X))
  PROVE  FlattenSeq(ss) \in Seq(X)
<1>1. PICK N \in Nat : ss \in [1..N -> Seq(X)]
  OBVIOUS
<1> QED
  BY <1>1, FlattenElements

-----------------------------------------------------------------------------
(* More of FlattenSeq *)

\* A list more behind the others.
LEMMA FlattenAppend ==
  ASSUME NEW X, NEW ss \in Seq(Seq(X)), NEW s \in Seq(X)
  PROVE  FlattenSeq(Append(ss, s)) = FlattenSeq(ss) \o s
<1> DEFINE N == Len(ss)
           tt == Append(ss, s)
<1>1. N \in Nat /\ ss \in [1..N -> Seq(X)]
  OBVIOUS
<1>2. /\ tt \in [1..(N + 1) -> Seq(X)] /\ N + 1 \in Nat /\ N + 1 # 0
      /\ \A n \in 1..N : tt[n] = ss[n]
      /\ tt[N + 1] = s
  <2>1. N + 1 \in Nat /\ N + 1 # 0
    BY <1>1
  <2>2. tt \in Seq(Seq(X)) /\ Len(tt) = N + 1
    OBVIOUS
  <2>3. \A n \in 1..N : tt[n] = ss[n]
    OBVIOUS
  <2>4. tt[N + 1] = s
    OBVIOUS
  <2> HIDE DEF tt, N
  <2> QED
    BY <2>1, <2>2, <2>3, <2>4
<1> HIDE DEF tt, N
<1>3. PICK G : FlattenSeq(tt) = G[N + 1] /\ Flattening(N + 1, tt, G)
  BY <1>2, FlattenSteps
<1>4. CASE N = 0
  <2>1. ss = << >>
    BY <1>1, <1>4
  <2>2. FlattenSeq(ss) = << >>
    BY <2>1, FlattenEmpty
  <2>3. G[1] = s
    BY <1>2, <1>3, <1>4 DEF Flattening
  <2>4. << >> \o s = s
    OBVIOUS
  <2> QED
    BY <1>3, <1>4, <2>2, <2>3, <2>4 DEF tt
<1>5. CASE N # 0
  <2>1. PICK F : FlattenSeq(ss) = F[N] /\ Flattening(N, ss, F)
    BY <1>1, <1>5, FlattenSteps
  <2> DEFINE T == {n \in 1..N : F[n] = G[n]}
  <2>2. 1 \in 1..N
    BY <1>1, <1>5
  <2>3. 1 \in T
    BY <1>2, <1>3, <2>1, <2>2 DEF Flattening
  <2>4. ASSUME NEW n \in 1..N, n \in T, n + 1 \in 1..N PROVE n + 1 \in T
    <3>1. n \in 1..(N + 1) /\ n + 1 \in 1..(N + 1)
      BY <1>1, <2>4
    <3>2. F[n + 1] = F[n] \o ss[n + 1] /\ G[n + 1] = G[n] \o tt[n + 1]
      BY <1>3, <2>1, <2>4, <3>1 DEF Flattening
    <3> QED
      BY <1>2, <2>4, <3>2
  <2> HIDE DEF T
  <2>5. N \in T
    <3>1. \A n \in 1..N : n \in T /\ n + 1 \in 1..N => n + 1 \in T
      BY <2>4
    <3>2. \A n \in 1..N : n \in T
      BY <1>1, <2>3, <3>1, AllPositions
    <3>3. N \in 1..N
      BY <1>1, <1>5
    <3> QED
      BY <3>2, <3>3
  <2>6. G[N + 1] = G[N] \o tt[N + 1]
    <3>1. N \in 1..(N + 1) /\ N + 1 \in 1..(N + 1)
      BY <1>1, <1>5
    <3> QED
      BY <1>3, <3>1 DEF Flattening
  <2> QED
    BY <1>2, <1>3, <2>1, <2>5, <2>6 DEF T, tt
<1> QED
  BY <1>4, <1>5

\* The first n elements, and one more.
LEMMA FirstElements ==
  ASSUME NEW X, NEW s \in Seq(X), NEW n \in 0..Len(s)
  PROVE  /\ SubSeq(s, 1, n) \in Seq(X)
         /\ n # 0 => SubSeq(s, 1, n) = Append(SubSeq(s, 1, n - 1), s[n])
         /\ SubSeq(s, 1, Len(s)) = s
         /\ SubSeq(s, 1, 0) = << >>
OBVIOUS

\* Two lists of lists.
LEMMA FlattenJoinedStep ==
  ASSUME NEW X, NEW ss \in Seq(Seq(X)), NEW pp \in Seq(Seq(X)), NEW s \in Seq(X),
         FlattenSeq(ss \o pp) = FlattenSeq(ss) \o FlattenSeq(pp)
  PROVE  FlattenSeq(ss \o Append(pp, s)) = FlattenSeq(ss) \o FlattenSeq(Append(pp, s))
<1>1. FlattenSeq(Append(pp, s)) = FlattenSeq(pp) \o s
  BY FlattenAppend
<1>2. ss \o Append(pp, s) = Append(ss \o pp, s) /\ ss \o pp \in Seq(Seq(X))
  OBVIOUS
<1>3. FlattenSeq(ss \o Append(pp, s)) = (FlattenSeq(ss) \o FlattenSeq(pp)) \o s
  BY <1>2, FlattenAppend
<1>4. PICK u \in Seq(X), v \in Seq(X) : u = FlattenSeq(ss) /\ v = FlattenSeq(pp)
  BY FlattenType
<1>5. (u \o v) \o s = u \o (v \o s)
  OBVIOUS
<1> QED
  BY <1>1, <1>3, <1>4, <1>5

LEMMA FlattenJoined ==
  ASSUME NEW X, NEW ss \in Seq(Seq(X)), NEW tt \in Seq(Seq(X))
  PROVE  FlattenSeq(ss \o tt) = FlattenSeq(ss) \o FlattenSeq(tt)
<1> DEFINE part(n) == SubSeq(tt, 1, n)
           T == {n \in Nat : n <= Len(tt) =>
                   FlattenSeq(ss \o part(n)) = FlattenSeq(ss) \o FlattenSeq(part(n))}
<1>1. FlattenSeq(ss) \in Seq(X) /\ Len(tt) \in Nat
  BY FlattenType
<1>2. 0 \in T
  <2>1. part(0) = << >> /\ FlattenSeq(part(0)) = << >>
    <3>1. part(0) = << >>
      OBVIOUS
    <3> HIDE DEF part
    <3> QED
      BY <3>1, FlattenEmpty
  <2>2. ss \o << >> = ss /\ FlattenSeq(ss) \o << >> = FlattenSeq(ss)
    BY <1>1
  <2> QED
    BY <2>1, <2>2
<1>3. ASSUME NEW n \in T PROVE n + 1 \in T
  <2>1. n \in Nat /\ n + 1 \in Nat
    OBVIOUS
  <2> SUFFICES ASSUME n + 1 <= Len(tt)
               PROVE  FlattenSeq(ss \o part(n + 1)) = FlattenSeq(ss) \o FlattenSeq(part(n + 1))
    BY <2>1
  <2>2. FlattenSeq(ss \o part(n)) = FlattenSeq(ss) \o FlattenSeq(part(n))
    BY <1>1, <2>1
  <2>3. part(n) \in Seq(Seq(X)) /\ tt[n + 1] \in Seq(X)
    BY <1>1, <2>1
  <2>4. part(n + 1) = Append(part(n), tt[n + 1])
    BY <1>1, <2>1, FirstElements
  <2> HIDE DEF part
  <2>5. FlattenSeq(ss \o Append(part(n), tt[n + 1]))
          = FlattenSeq(ss) \o FlattenSeq(Append(part(n), tt[n + 1]))
    BY <2>2, <2>3, FlattenJoinedStep, Zenon
  <2> QED
    BY <2>4, <2>5, Zenon
<1>4. Len(tt) \in T
  <2>1. T \subseteq Nat
    OBVIOUS
  <2> HIDE DEF T
  <2> QED
    BY <1>1, <1>2, <1>3, <2>1, AllNumbers
<1>5. part(Len(tt)) = tt
  OBVIOUS
<1> HIDE DEF part
<1> QED
  BY <1>1, <1>4, <1>5

\* Lists of one element.
LEMMA FlattenSingles ==
  ASSUME NEW X, NEW ss \in Seq(Seq(X)), \A n \in DOMAIN ss : Len(ss[n]) = 1
  PROVE  FlattenSeq(ss) = [n \in DOMAIN ss |-> ss[n][1]]
<1> DEFINE part(n) == SubSeq(ss, 1, n)
           T == {n \in Nat : n <= Len(ss) => FlattenSeq(part(n)) = [i \in 1..n |-> ss[i][1]]}
<1>1. 0 \in T
  <2>1. part(0) = << >> /\ FlattenSeq(part(0)) = << >>
    <3>1. part(0) = << >>
      OBVIOUS
    <3> HIDE DEF part
    <3> QED
      BY <3>1, FlattenEmpty
  <2>2. [i \in 1..0 |-> ss[i][1]] = << >>
    OBVIOUS
  <2> QED
    BY <2>1, <2>2
<1>2. ASSUME NEW n \in T PROVE n + 1 \in T
  <2>1. n \in Nat /\ n + 1 \in Nat
    OBVIOUS
  <2> SUFFICES ASSUME n + 1 <= Len(ss)
               PROVE  FlattenSeq(part(n + 1)) = [i \in 1..(n + 1) |-> ss[i][1]]
    BY <2>1
  <2>2. FlattenSeq(part(n)) = [i \in 1..n |-> ss[i][1]]
    BY <2>1
  <2>3. part(n) \in Seq(Seq(X)) /\ ss[n + 1] \in Seq(X) /\ Len(ss[n + 1]) = 1
    BY <2>1
  <2>4. part(n + 1) = Append(part(n), ss[n + 1])
    BY <2>1, FirstElements
  <2> HIDE DEF part
  <2>40. FlattenSeq(Append(part(n), ss[n + 1])) = FlattenSeq(part(n)) \o ss[n + 1]
    BY <2>3, FlattenAppend, Zenon
  <2>5. FlattenSeq(part(n + 1)) = [i \in 1..n |-> ss[i][1]] \o ss[n + 1]
    BY <2>2, <2>4, <2>40, Zenon
  <2>6. \A i \in 1..n : ss[i][1] \in X
    <3>1. \A i \in 1..n : ss[i] \in Seq(X) /\ Len(ss[i]) = 1
      BY <2>1
    <3> QED
      BY <3>1
  <2>7. [i \in 1..n |-> ss[i][1]] \in Seq(X)
    BY <2>1, <2>6
  <2>8. [i \in 1..n |-> ss[i][1]] \o ss[n + 1] = [i \in 1..(n + 1) |-> ss[i][1]]
    <3>1. PICK x \in X : ss[n + 1] = <<x>> /\ x = ss[n + 1][1]
      BY <2>3
    <3>2. /\ Len([i \in 1..n |-> ss[i][1]]) = n
          /\ \A i \in 1..n : [j \in 1..n |-> ss[j][1]][i] = ss[i][1]
      BY <2>1
    <3>3. \A u \in Seq(X) : u \o <<x>> =
            [i \in 1..(Len(u) + 1) |-> IF i \in 1..Len(u) THEN u[i] ELSE x]
      OBVIOUS
    <3>4. \A i \in 1..(n + 1) : i \notin 1..n => i = n + 1
      BY <2>1
    <3>5. [i \in 1..n |-> ss[i][1]] \o <<x>> =
            [i \in 1..(n + 1) |-> IF i \in 1..n THEN ss[i][1] ELSE x]
      BY <2>7, <3>2, <3>3
    <3> QED
      BY <3>1, <3>4, <3>5
  <2> QED
    BY <2>5, <2>8
<1>3. Len(ss) \in T
  <2>1. T \subseteq Nat
    OBVIOUS
  <2>2. Len(ss) \in Nat
    OBVIOUS
  <2> HIDE DEF T
  <2> QED
    BY <1>1, <1>2, <2>1, <2>2, AllNumbers
<1>4. part(Len(ss)) = ss /\ DOMAIN ss = 1..Len(ss)
  OBVIOUS
<1> HIDE DEF part
<1> QED
  BY <1>3, <1>4

-----------------------------------------------------------------------------
(* How often an element occurs in a list *)

Occurrences(s, x) == Cardinality({f \in DOMAIN s : s[f] = x})

\* A map that is one to one and onto.
LEMMA SameNumber ==
  ASSUME NEW S, NEW T, IsFiniteSet(T), NEW f \in [S -> T],
         \A i, j \in S : f[i] = f[j] => i = j,
         \A t \in T : \E i \in S : f[i] = t
  PROVE  Cardinality(S) = Cardinality(T)
<1>1. f \in Injection(S, T) /\ f \in Surjection(S, T)
  BY Fun_IsInj, Fun_IsSurj
<1> QED
  BY <1>1, FS_Injection

LEMMA OccurrencesType ==
  ASSUME NEW X, NEW s \in Seq(X), NEW x
  PROVE  /\ IsFiniteSet({f \in DOMAIN s : s[f] = x})
         /\ Occurrences(s, x) \in Nat
<1>1. IsFiniteSet(DOMAIN s)
  <2>1. DOMAIN s = 1..Len(s) /\ 1 \in Int /\ Len(s) \in Int
    OBVIOUS
  <2> QED
    BY <2>1, FS_Interval
<1>2. IsFiniteSet({f \in DOMAIN s : s[f] = x})
  BY <1>1, FS_Subset
<1> QED
  BY <1>2, FS_CardinalityType DEF Occurrences

LEMMA OccurrencesJoined ==
  ASSUME NEW X, NEW s \in Seq(X), NEW t \in Seq(X), NEW x
  PROVE  Occurrences(s \o t, x) = Occurrences(s, x) + Occurrences(t, x)
<1> DEFINE n == Len(s)
           A == {f \in DOMAIN s : s[f] = x}
           B == {f \in DOMAIN t : t[f] = x}
           C == {f \in DOMAIN (s \o t) : (s \o t)[f] = x}
           D == C \ A
           shift == [f \in B |-> n + f]
<1>1. n \in Nat /\ DOMAIN s = 1..n /\ DOMAIN t = 1..Len(t) /\ Len(t) \in Nat
  OBVIOUS
<1>2. /\ DOMAIN (s \o t) = 1..(n + Len(t))
      /\ \A q \in 1..n : (s \o t)[q] = s[q]
      /\ \A f \in 1..Len(t) : (s \o t)[n + f] = t[f]
  <2>1. s \o t \in Seq(X) /\ Len(s \o t) = n + Len(t)
    BY Joined
  <2> QED
    BY <2>1, Joined
<1>3. IsFiniteSet(A) /\ IsFiniteSet(B) /\ IsFiniteSet(C)
  <2>1. s \o t \in Seq(X)
    BY Joined
  <2> HIDE DEF n
  <2>2. IsFiniteSet(A) /\ IsFiniteSet(B)
    BY OccurrencesType
  <2>3. \A u \in Seq(X) : IsFiniteSet({f \in DOMAIN u : u[f] = x})
    BY OccurrencesType
  <2>4. IsFiniteSet(C)
    BY <2>1, <2>3, Zenon
  <2> QED
    BY <2>2, <2>4
<1> HIDE DEF n
<1>4. A \subseteq C
  BY <1>1, <1>2
<1>5. \A f \in B : n + f \in D
  BY <1>1, <1>2
<1>6. \A d \in D : \E f \in B : n + f = d
  <2> SUFFICES ASSUME NEW d \in D PROVE \E f \in B : n + f = d
    OBVIOUS
  <2>1. d \in 1..(n + Len(t)) /\ (s \o t)[d] = x /\ d \notin A
    BY <1>2
  <2>2. d \notin 1..n
    BY <1>1, <1>2, <2>1
  <2>3. d - n \in 1..Len(t) /\ n + (d - n) = d
    BY <1>1, <2>1, <2>2
  <2> QED
    BY <1>1, <1>2, <2>1, <2>3
<1>7. IsFiniteSet(D) /\ Cardinality(D) = Cardinality(C) - Cardinality(A)
  <2>1. C \cap A = A
    BY <1>4
  <2> HIDE DEF A, C
  <2>2. /\ IsFiniteSet(C \ A)
        /\ Cardinality(C \ A) = Cardinality(C) - Cardinality(C \cap A)
    BY <1>3, FS_Difference, Zenon
  <2> QED
    BY <2>1, <2>2, Zenon
<1>8. Cardinality(B) = Cardinality(D)
  <2>1. shift \in [B -> D]
    BY <1>5
  <2>2. \A f \in B : shift[f] = n + f /\ f \in Nat
    BY <1>1
  <2> HIDE DEF shift, D, B
  <2>3. \A f, g \in B : shift[f] = shift[g] => f = g
    BY <1>1, <2>2
  <2>4. \A d \in D : \E f \in B : shift[f] = d
    BY <1>6, <2>2
  <2> QED
    BY <1>7, <2>1, <2>3, <2>4, SameNumber
<1>9. Cardinality(A) \in Nat /\ Cardinality(B) \in Nat /\ Cardinality(C) \in Nat
  BY <1>3, FS_CardinalityType
<1>10. /\ Occurrences(s, x) = Cardinality(A)
       /\ Occurrences(t, x) = Cardinality(B)
       /\ Occurrences(s \o t, x) = Cardinality(C)
  BY DEF Occurrences
<1> HIDE DEF A, B, C, D
<1> QED
  BY <1>7, <1>8, <1>9, <1>10

\* Another order changes nothing.
LEMMA OccurrencesPermuted ==
  ASSUME NEW X, NEW s \in Seq(X), NEW order \in [1..Len(s) -> 1..Len(s)],
         \A i, j \in 1..Len(s) : order[i] = order[j] => i = j, NEW x
  PROVE  Occurrences([r \in 1..Len(s) |-> s[order[r]]], x) = Occurrences(s, x)
<1> DEFINE U == 1..Len(s)
           A == {r \in U : s[order[r]] = x}
           B == {f \in U : s[f] = x}
           map == [r \in A |-> order[r]]
<1>1. IsFiniteSet(U) /\ DOMAIN s = U
  <2>1. 1 \in Int /\ Len(s) \in Int /\ DOMAIN s = 1..Len(s)
    OBVIOUS
  <2> QED
    BY <2>1, FS_Interval
<1>2. \A f \in U : \E r \in U : order[r] = f
  BY <1>1, PermutationOnto
<1>3. IsFiniteSet(B)
  BY <1>1, FS_Subset
<1>4. map \in [A -> B] /\ \A i, j \in A : map[i] = map[j] => i = j
  OBVIOUS
<1>5. \A f \in B : \E r \in A : map[r] = f
  BY <1>2
<1>6. Cardinality(A) = Cardinality(B)
  <2> HIDE DEF A, B, map
  <2> QED
    BY <1>3, <1>4, <1>5, SameNumber
<1>7. Occurrences(s, x) = Cardinality(B)
  BY <1>1 DEF Occurrences
<1>8. Occurrences([r \in U |-> s[order[r]]], x) = Cardinality(A)
  <2>1. {f \in DOMAIN [r \in U |-> s[order[r]]] : [r \in U |-> s[order[r]]][f] = x} = A
    OBVIOUS
  <2> QED
    BY <2>1 DEF Occurrences
<1> QED
  BY <1>6, <1>7, <1>8

\* Joined lists of which each has x as often as its counterpart.
LEMMA OccurrencesFlattened ==
  ASSUME NEW X, NEW ss \in Seq(Seq(X)), NEW tt \in Seq(Seq(X)), Len(ss) = Len(tt), NEW x,
         \A n \in 1..Len(ss) : Occurrences(ss[n], x) = Occurrences(tt[n], x)
  PROVE  Occurrences(FlattenSeq(ss), x) = Occurrences(FlattenSeq(tt), x)
<1> DEFINE T == {n \in Nat : n <= Len(ss) =>
                   Occurrences(FlattenSeq(SubSeq(ss, 1, n)), x)
                     = Occurrences(FlattenSeq(SubSeq(tt, 1, n)), x)}
<1>1. Len(ss) \in Nat
  OBVIOUS
<1>2. 0 \in T
  <2>1. SubSeq(ss, 1, 0) = << >> /\ SubSeq(tt, 1, 0) = << >>
    OBVIOUS
  <2> QED
    BY <2>1
<1>3. ASSUME NEW n \in T PROVE n + 1 \in T
  <2>1. n \in Nat /\ n + 1 \in Nat
    OBVIOUS
  <2> SUFFICES ASSUME n + 1 <= Len(ss)
               PROVE  Occurrences(FlattenSeq(SubSeq(ss, 1, n + 1)), x)
                        = Occurrences(FlattenSeq(SubSeq(tt, 1, n + 1)), x)
    BY <2>1
  <2>2. Occurrences(FlattenSeq(SubSeq(ss, 1, n)), x)
          = Occurrences(FlattenSeq(SubSeq(tt, 1, n)), x)
    BY <1>1, <2>1
  <2>3. n + 1 \in 0..Len(ss) /\ n + 1 \in 1..Len(ss) /\ n \in 0..Len(ss)
        /\ n + 1 # 0 /\ (n + 1) - 1 = n
    BY <1>1, <2>1
  <2>4. ASSUME NEW aa \in Seq(Seq(X)), Len(aa) = Len(ss)
        PROVE  Occurrences(FlattenSeq(SubSeq(aa, 1, n + 1)), x)
                 = Occurrences(FlattenSeq(SubSeq(aa, 1, n)), x) + Occurrences(aa[n + 1], x)
    <3>1. SubSeq(aa, 1, n + 1) = Append(SubSeq(aa, 1, n), aa[n + 1])
      BY <2>3, <2>4, FirstElements
    <3>2. SubSeq(aa, 1, n) \in Seq(Seq(X))
      BY <2>3, <2>4, FirstElements
    <3>3. aa[n + 1] \in Seq(X)
      BY <2>3, <2>4
    <3>4. FlattenSeq(SubSeq(aa, 1, n + 1)) = FlattenSeq(SubSeq(aa, 1, n)) \o aa[n + 1]
      BY <3>1, <3>2, <3>3, FlattenAppend
    <3>5. FlattenSeq(SubSeq(aa, 1, n)) \in Seq(X)
      BY <3>2, FlattenType
    <3>6. PICK u \in Seq(X), v \in Seq(X) :
            u = FlattenSeq(SubSeq(aa, 1, n)) /\ v = aa[n + 1]
      BY <3>3, <3>5
    <3>7. Occurrences(u \o v, x) = Occurrences(u, x) + Occurrences(v, x)
      BY OccurrencesJoined
    <3> HIDE DEF T
    <3> QED
      BY <3>4, <3>6, <3>7
  <2> QED
    BY <2>2, <2>3, <2>4
<1>4. Len(ss) \in T
  <2>1. T \subseteq Nat
    OBVIOUS
  <2> HIDE DEF T
  <2> QED
    BY <1>1, <1>2, <1>3, <2>1, AllNumbers
<1>5. SubSeq(ss, 1, Len(ss)) = ss /\ SubSeq(tt, 1, Len(ss)) = tt
  <2>1. SubSeq(ss, 1, Len(ss)) = ss
    OBVIOUS
  <2>2. SubSeq(tt, 1, Len(tt)) = tt
    OBVIOUS
  <2> QED
    BY <2>1, <2>2
<1>6. Occurrences(FlattenSeq(SubSeq(ss, 1, Len(ss))), x)
        = Occurrences(FlattenSeq(SubSeq(tt, 1, Len(ss))), x)
  BY <1>1, <1>4
<1> HIDE DEF T
<1> QED
  BY <1>5, <1>6, Zenon

=============================================================================
