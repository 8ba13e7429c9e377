-------------------------- MODULE AlgorithmProofs --------------------------
(***************************************************************************)
(* Theorems on the algorithms of Ranking and TokenBudget: what ranking,    *)
(* evidence and budgets promise, for every input the callers may pass.     *)
(* Those on Chunking are in ChunkingProofs.                                *)
(*                                                                         *)
(* The state machine contributes one invariant, that a call returns what   *)
(* its algorithm computes; everything else is about the algorithms.  Each  *)
(* is a loop, and its proof has the same shape: the fold or the recursive  *)
(* function is a run (Run, Descent), a predicate says what holds after k   *)
(* rounds, one lemma shows that a round keeps it, and UpTo, which is the   *)
(* induction on the rounds, carries it to the end.                         *)
(***************************************************************************)
EXTENDS AlgorithmInvariants, FiniteSetTheorems, SequenceTheorems, WellFoundedInduction, TLAPS

-----------------------------------------------------------------------------
(* Loops.  A fold of the library is defined by a recursion over the sets of
   positions; here it is shown to be a run, a value after every round, about
   which one can argue by induction on the rounds. *)

(* Induction over 0 .. n, with the cases in which it holds as a set. *)
LEMMA UpTo ==
    ASSUME NEW n \in Nat, NEW T, 0 \in T, \A k \in 0 .. n - 1 : k \in T => k + 1 \in T
    PROVE  \A k \in 0 .. n : k \in T
<1>. SUFFICES ASSUME \E k \in 0 .. n : k \notin T
              PROVE  FALSE
    OBVIOUS
<1>. DEFINE R == OpToRel(<, Nat)
<1>1. PICK k \in (0 .. n) \ T : \A j \in (0 .. n) \ T : ~(<<j, k>> \in R)
  <2>1. IsWellFoundedOn(R, Nat)
    BY NatLessThanWellFounded
  <2>2. (0 .. n) \ T \subseteq Nat
    OBVIOUS
  <2>. HIDE DEF R
  <2>. QED  BY <2>1, <2>2, WFMin
<1>2. k # 0 /\ k - 1 \in 0 .. n - 1 /\ k - 1 \in Nat /\ k \in Nat
    OBVIOUS
<1>3. <<k - 1, k>> \in R
    BY <1>2 DEF OpToRel
<1>. HIDE DEF R
<1>4. k - 1 \in T
    BY <1>1, <1>2, <1>3
<1>. QED  BY <1>2, <1>4

(* A loop of n rounds over values of V has a value after every round. *)
LEMMA Rounds ==
    ASSUME NEW n \in Nat, NEW V, NEW start \in V, NEW step \in [1 .. n -> [V -> V]]
    PROVE  \E f : Run(f, n, V, start, step)
<1>. DEFINE T == {k \in 0 .. n : \E f : Run(f, k, V, start, step)}
<1>1. 0 \in T
  <2>1. Run([i \in 0 .. 0 |-> start], 0, V, start, step)
    BY DEF Run
  <2>. QED  BY <2>1
<1>2. ASSUME NEW k \in 0 .. n - 1, k \in T
      PROVE  k + 1 \in T
  <2>1. PICK f : Run(f, k, V, start, step)
    BY <1>2
  <2>. DEFINE g == [i \in 0 .. k + 1 |-> IF i = k + 1 THEN step[k + 1][f[k]] ELSE f[i]]
  <2>2. g \in [0 .. k + 1 -> V]
    <3>1. step[k + 1] \in [V -> V] /\ f[k] \in V
      BY <2>1 DEF Run
    <3>. QED  BY <2>1, <3>1 DEF Run
  <2>3. g[0] = start /\ \A i \in 1 .. k + 1 : g[i] = step[i][g[i - 1]]
    BY <2>1 DEF Run
  <2>. HIDE DEF g
  <2>4. Run(g, k + 1, V, start, step)
    BY <2>2, <2>3 DEF Run
  <2>. QED  BY <2>4
<1>. HIDE DEF T
<1>3. n \in T
  <2>1. \A k \in 0 .. n - 1 : k \in T => k + 1 \in T
    BY <1>2
  <2>2. \A k \in 0 .. n : k \in T
    BY <1>1, <2>1, UpTo
  <2>. QED  BY <2>2
<1>. QED  BY <1>3 DEF T

(* A set of positions that is not empty has a largest one, and Max is it. *)
LEMMA MaxOf ==
    ASSUME NEW n \in Nat, NEW S \in SUBSET (1 .. n), S # {}
    PROVE  Max(S) \in S /\ \A y \in S : y <= Max(S)
<1>. DEFINE T == {k \in 0 .. n : \A U \in SUBSET (1 .. k) : U # {} => \E x \in U : \A y \in U : x >= y}
<1>1. 0 \in T
  <2>1. 1 .. 0 = {} /\ 0 \in 0 .. n
    OBVIOUS
  <2>2. \A U \in SUBSET (1 .. 0) : U # {} => \E x \in U : \A y \in U : x >= y
    BY <2>1
  <2>. QED  BY <2>1, <2>2
<1>2. ASSUME NEW k \in 0 .. n - 1, k \in T
      PROVE  k + 1 \in T
  <2>. SUFFICES ASSUME NEW U \in SUBSET (1 .. k + 1), U # {}
                PROVE  \E x \in U : \A y \in U : x >= y
    OBVIOUS
  <2>1. CASE k + 1 \in U
    BY <2>1
  <2>2. CASE k + 1 \notin U
    <3>1. U \in SUBSET (1 .. k)
      BY <2>2
    <3>. QED  BY <1>2, <3>1
  <2>. QED  BY <2>1, <2>2
<1>. HIDE DEF T
<1>3. n \in T
  <2>1. \A k \in 0 .. n - 1 : k \in T => k + 1 \in T
    BY <1>2
  <2>2. \A k \in 0 .. n : k \in T
    BY <1>1, <2>1, UpTo
  <2>. QED  BY <2>2
<1>4. \E x \in S : \A y \in S : x >= y
    BY <1>3 DEF T
<1>5. Max(S) \in S /\ \A y \in S : Max(S) >= y
    BY <1>4 DEF Max
<1>. QED  BY <1>5

(* Such a fold exists for every start and every step. *)
LEMMA FoldExists ==
    ASSUME NEW n \in Nat, NEW V, NEW start \in V, NEW step \in [1 .. n -> [V -> V]]
    PROVE  \E it : Folded(it, n, V, start, step)
<1>. DEFINE P(s, f) == /\ f \in [0 .. n -> V] /\ f[0] = start
                       /\ \A i \in 1 .. n : f[i] = IF i \in s THEN step[i][f[i - 1]] ELSE f[i - 1]
            run(s) == CHOOSE f : P(s, f)
            it == [s \in SUBSET (1 .. n) |-> run(s)[n]]
<1>1. ASSUME NEW s \in SUBSET (1 .. n)
      PROVE  P(s, run(s))
  <2>. DEFINE only == [i \in 1 .. n |-> IF i \in s THEN step[i] ELSE [v \in V |-> v]]
  <2>1. only \in [1 .. n -> [V -> V]]
    OBVIOUS
  <2>2. PICK f : Run(f, n, V, start, only)
    <3>. HIDE DEF only
    <3>. QED  BY <2>1, Rounds
  <2>3. P(s, f)
    <3>1. f \in [0 .. n -> V] /\ \A i \in 1 .. n : f[i - 1] \in V
      BY <2>2 DEF Run
    <3>. QED  BY <2>2, <3>1 DEF Run
  <2>. QED  BY <2>3
<1>. HIDE DEF run
<1>2. it \in [SUBSET (1 .. n) -> V]
    BY <1>1
<1>3. ASSUME NEW s \in SUBSET (1 .. n)
      PROVE  it[s] = IF s = {} THEN start ELSE step[Max(s)][it[s \ {Max(s)}]]
  <2>1. P(s, run(s))
    BY <1>1
  <2>2. CASE s = {}
    <3>. DEFINE T == {k \in 0 .. n : run(s)[k] = start}
    <3>1. 0 \in T /\ \A k \in 0 .. n - 1 : k \in T => k + 1 \in T
      BY <2>1, <2>2
    <3>. HIDE DEF T
    <3>2. \A k \in 0 .. n : k \in T
      BY <3>1, UpTo
    <3>. QED  BY <2>2, <3>2 DEF T
  <2>3. CASE s # {}
    <3>. DEFINE m == Max(s)
                r == s \ {m}
    <3>1. m \in s /\ m \in 1 .. n /\ (\A y \in s : y <= m) /\ r \in SUBSET (1 .. n)
      BY <2>3, MaxOf
    <3>. HIDE DEF m
    <3>2. P(r, run(r))
      BY <1>1, <3>1
    <3>. DEFINE T == {k \in 0 .. n : /\ k < m => run(s)[k] = run(r)[k]
                                     /\ k >= m => /\ run(r)[k] = run(r)[m - 1]
                                                  /\ run(s)[k] = step[m][run(r)[m - 1]]}
    <3>3. 0 \in T
      BY <2>1, <3>1, <3>2
    <3>4. ASSUME NEW k \in 0 .. n - 1, k \in T
          PROVE  k + 1 \in T
      <4>1. CASE k + 1 < m
        <5>1. run(s)[k] = run(r)[k] /\ k + 1 \in 1 .. n /\ (k + 1 \in s <=> k + 1 \in r)
          BY <3>1, <3>4, <4>1
        <5>2. run(s)[k + 1] = IF k + 1 \in s THEN step[k + 1][run(s)[k]] ELSE run(s)[k]
          BY <2>1, <5>1
        <5>. HIDE DEF r
        <5>3. run(r)[k + 1] = IF k + 1 \in r THEN step[k + 1][run(r)[k]] ELSE run(r)[k]
          BY <3>2, <5>1
        <5>4. run(s)[k + 1] = run(r)[k + 1]
          BY <5>1, <5>2, <5>3
        <5>. QED  BY <3>1, <4>1, <5>4
      <4>2. CASE k + 1 = m
        <5>1. run(s)[k] = run(r)[k] /\ k + 1 \in 1 .. n /\ k + 1 \in s /\ k + 1 \notin r
          BY <3>1, <3>4, <4>2
        <5>2. run(s)[k + 1] = step[k + 1][run(s)[k]]
          BY <2>1, <5>1
        <5>. HIDE DEF r
        <5>3. run(r)[k + 1] = run(r)[k]
          BY <3>2, <5>1
        <5>4. m - 1 = k /\ k + 1 = m
          BY <3>1, <4>2
        <5>. QED  BY <4>2, <5>1, <5>2, <5>3, <5>4
      <4>3. CASE k + 1 > m
        <5>1. k + 1 \in 1 .. n /\ k + 1 \notin s /\ k + 1 \notin r /\ k >= m
          BY <3>1, <4>3
        <5>2. run(s)[k + 1] = run(s)[k]
          BY <2>1, <5>1
        <5>. HIDE DEF r
        <5>3. run(r)[k + 1] = run(r)[k]
          BY <3>2, <5>1
        <5>. QED  BY <3>1, <3>4, <4>3, <5>1, <5>2, <5>3
      <4>. QED  BY <3>1, <4>1, <4>2, <4>3
    <3>. HIDE DEF T
    <3>5. n \in T
      <4>1. \A k \in 0 .. n - 1 : k \in T => k + 1 \in T
        BY <3>4
      <4>2. \A k \in 0 .. n : k \in T
        BY <3>3, <4>1, UpTo
      <4>. QED  BY <4>2
    <3>6. run(s)[n] = step[m][run(r)[n]]
      BY <3>1, <3>5 DEF T
    <3>. QED  BY <2>3, <3>1, <3>6 DEF m
  <2>. QED  BY <2>2, <2>3
<1>. HIDE DEF it
<1>. QED  BY <1>2, <1>3 DEF Folded

(* The positions behind a prefix. *)
LEMMA UpToPosition ==
    ASSUME NEW n \in Nat, NEW k \in 1 .. n
    PROVE  /\ 1 .. k \in SUBSET (1 .. n) /\ 1 .. k # {} /\ Max(1 .. k) = k
           /\ (1 .. k) \ {k} = 1 .. k - 1 /\ 1 .. 0 = {}
<1>1. 1 .. k \in SUBSET (1 .. n) /\ k \in 1 .. k /\ \A y \in 1 .. k : y <= k
    OBVIOUS
<1>2. Max(1 .. k) = k
  <2>1. Max(1 .. k) \in 1 .. k /\ \A y \in 1 .. k : y <= Max(1 .. k)
    BY <1>1, MaxOf
  <2>. QED  BY <1>1, <2>1
<1>. QED  BY <1>1, <1>2

(* What a fold has made of the prefixes is such a loop. *)
LEMMA FoldRuns ==
    ASSUME NEW n \in Nat, NEW V, NEW start \in V, NEW step \in [1 .. n -> [V -> V]],
           NEW iter, FoldSteps(iter, n, V, start, step)
    PROVE  EndsAt(n, V, start, step, iter[1 .. n])
<1>1. ASSUME NEW k \in 1 .. n, iter[1 .. k - 1] \in V
      PROVE  iter[1 .. k] = step[k][iter[1 .. k - 1]] /\ iter[1 .. k] \in V
  <2>1. iter[1 .. k] = step[k][iter[1 .. k - 1]]
    BY <1>1, UpToPosition, ZenonT(40) DEF FoldSteps
  <2>2. step[k] \in [V -> V]
    OBVIOUS
  <2>. QED  BY <1>1, <2>1, <2>2
<1>. DEFINE T == {k \in 0 .. n : iter[1 .. k] \in V}
<1>2. 0 \in T
  <2>1. 1 .. 0 = {} /\ 0 \in 0 .. n
    OBVIOUS
  <2>. QED  BY <2>1 DEF FoldSteps
<1>3. \A k \in 0 .. n - 1 : k \in T => k + 1 \in T
  <2>. SUFFICES ASSUME NEW k \in 0 .. n - 1, k \in T
                PROVE  k + 1 \in T
    OBVIOUS
  <2>1. k + 1 \in 1 .. n /\ (k + 1) - 1 = k /\ k + 1 \in 0 .. n
    OBVIOUS
  <2>2. iter[1 .. k + 1] \in V
    BY <1>1, <2>1
  <2>. QED  BY <2>1, <2>2
<1>4. \A k \in 0 .. n : iter[1 .. k] \in V
  <2>. HIDE DEF T
  <2>1. \A k \in 0 .. n : k \in T
    BY <1>2, <1>3, UpTo
  <2>. QED  BY <2>1 DEF T
<1>. DEFINE f == [k \in 0 .. n |-> iter[1 .. k]]
<1>5. f \in [0 .. n -> V]
    BY <1>4
<1>6. f[0] = start
  <2>1. 1 .. 0 = {} /\ 0 \in 0 .. n
    OBVIOUS
  <2>. QED  BY <2>1 DEF FoldSteps
<1>7. ASSUME NEW i \in 1 .. n
      PROVE  f[i] = step[i][f[i - 1]]
  <2>1. i - 1 \in 0 .. n /\ i \in 0 .. n
    OBVIOUS
  <2>. QED  BY <1>1, <1>4, <2>1
<1>. HIDE DEF f
<1>8. Run(f, n, V, start, step)
    BY <1>5, <1>6, <1>7 DEF Run
<1>9. f[n] = iter[1 .. n]
    BY DEF f
<1>. QED  BY <1>8, <1>9 DEF EndsAt

-----------------------------------------------------------------------------
(* Sorting, and the fusion of two ranked lists. *)

(* The place of an element is the number of those before it: these numbers
   are all different, so every one of 1..n is the place of an element.     *)
LEMMA Arrangeable ==
    ASSUME NEW S, IsFiniteSet(S), NEW R, Order(S, R)
    PROVE  \E s : Arranges(s, S, R)
<1>. DEFINE n == Cardinality(S)
            before(x) == {y \in S : <<y, x>> \in R}
            place == [x \in S |-> Cardinality(before(x)) + 1]
            s == [i \in 1 .. n |-> CHOOSE x \in S : place[x] = i]
<1>1. n \in Nat
    BY FS_CardinalityType
<1>2. ASSUME NEW x \in S
      PROVE  IsFiniteSet(before(x)) /\ Cardinality(before(x)) \in Nat /\ place[x] \in 1 .. n
  <2>1. before(x) \in SUBSET S /\ x \notin before(x)
    BY DEF Order
  <2>2. IsFiniteSet(before(x)) /\ Cardinality(before(x)) <= n /\ (n = Cardinality(before(x)) => S = before(x))
    BY <2>1, FS_Subset
  <2>3. Cardinality(before(x)) \in Nat
    BY <2>2, FS_CardinalityType
  <2>. HIDE DEF before, n
  <2>. QED  BY <1>1, <2>1, <2>2, <2>3
<1>3. ASSUME NEW x \in S, NEW y \in S, <<x, y>> \in R
      PROVE  place[x] < place[y]
  <2>1. before(x) \subseteq before(y) /\ x \in before(y) /\ x \notin before(x)
    BY <1>3 DEF Order
  <2>2. Cardinality(before(x)) <= Cardinality(before(y))
           /\ (Cardinality(before(y)) = Cardinality(before(x)) => before(y) = before(x))
    BY <1>2, <2>1, FS_Subset
  <2>3. Cardinality(before(x)) \in Nat /\ Cardinality(before(y)) \in Nat
    BY <1>2
  <2>. HIDE DEF before
  <2>. QED  BY <2>1, <2>2, <2>3
<1>. HIDE DEF n, before
<1>4. place \in Injection(S, 1 .. n)
  <2>1. place \in [S -> 1 .. n]
    BY <1>2
  <2>2. ASSUME NEW x \in S, NEW y \in S, x # y
        PROVE  place[x] # place[y]
    <3>1. place[x] < place[y] \/ place[y] < place[x]
      BY <1>3, <2>2 DEF Order
    <3>2. place[x] \in Int /\ place[y] \in Int
      BY <2>1
    <3>. QED  BY <3>1, <3>2
  <2>. HIDE DEF place
  <2>. QED  BY <2>1, <2>2 DEF Injection, IsInjective
<1>5. place \in Surjection(S, 1 .. n)
  <2>1. IsFiniteSet(1 .. n) /\ Cardinality(1 .. n) = n
    BY <1>1, FS_Interval
  <2>. HIDE DEF place
  <2>. QED  BY <1>4, <2>1, FS_Injection DEF n
<1>6. ASSUME NEW i \in 1 .. n
      PROVE  s[i] \in S /\ place[s[i]] = i
  <2>1. \E x \in S : place[x] = i
    <3>. HIDE DEF place
    <3>. QED  BY <1>5 DEF Surjection
  <2>. HIDE DEF place
  <2>. QED  BY <2>1
<1>7. ASSUME NEW i \in 1 .. n, NEW j \in 1 .. n, i < j
      PROVE  <<s[i], s[j]>> \in R
  <2>1. s[i] \in S /\ s[j] \in S /\ place[s[i]] = i /\ place[s[j]] = j
    BY <1>6
  <2>. HIDE DEF place, s
  <2>2. s[i] # s[j]
    BY <2>1, <1>7
  <2>3. ~(<<s[j], s[i]>> \in R)
    BY <1>3, <1>7, <2>1
  <2>. QED  BY <2>1, <2>2, <2>3 DEF Order
<1>8. s \in [1 .. n -> S]
    BY <1>6
<1>. HIDE DEF s
<1>9. Arranges(s, S, R)
    BY <1>7, <1>8 DEF Arranges, n
<1>. QED  BY <1>9

(* What is so arranged has every element exactly once. *)
LEMMA ArrangedIsAll ==
    ASSUME NEW S, IsFiniteSet(S), NEW R, Order(S, R), NEW s, Arranges(s, S, R)
    PROVE  /\ s \in Seq(S) /\ Len(s) = Cardinality(S) /\ DOMAIN s = 1 .. Cardinality(S)
           /\ IsInjective(s) /\ ToSet(s) = S
<1>. DEFINE n == Cardinality(S)
<1>1. n \in Nat
    BY FS_CardinalityType
<1>2. s \in Seq(S) /\ Len(s) = n /\ DOMAIN s = 1 .. n /\ s \in [1 .. n -> S]
    BY <1>1 DEF Arranges
<1>. HIDE DEF n
<1>3. IsInjective(s)
  <2>. SUFFICES ASSUME NEW i \in 1 .. n, NEW j \in 1 .. n, s[i] = s[j], i # j
                PROVE  FALSE
    BY <1>2 DEF IsInjective
  <2>1. s[i] \in S /\ s[j] \in S
    BY <1>2
  <2>2. i < j \/ j < i
    OBVIOUS
  <2>. QED  BY <2>1, <2>2 DEF Order, Arranges, n
<1>4. ToSet(s) = S
  <2>1. s \in Injection(1 .. n, S)
    BY <1>2, <1>3 DEF Injection
  <2>2. IsFiniteSet(1 .. n) /\ Cardinality(1 .. n) = n
    BY <1>1, FS_Interval
  <2>3. s \in Surjection(1 .. n, S)
    BY <2>1, <2>2, FS_Injection DEF n
  <2>. QED  BY <1>2, <2>3 DEF Surjection, ToSet
<1>. QED  BY <1>2, <1>3, <1>4 DEF n

(* A set of natural numbers that is not empty has a least one, and Min is
   it.                                                                     *)
LEMMA MinOf ==
    ASSUME NEW S \in SUBSET Nat, S # {}
    PROVE  Min(S) \in S /\ \A y \in S : Min(S) <= y
<1>. DEFINE R == OpToRel(<, Nat)
<1>1. PICK m \in S : \A y \in S : ~(<<y, m>> \in R)
  <2>1. IsWellFoundedOn(R, Nat)
    BY NatLessThanWellFounded
  <2>. HIDE DEF R
  <2>. QED  BY <2>1, WFMin
<1>2. ASSUME NEW y \in S PROVE m <= y
  <2>1. ~(<<y, m>> \in R)
    BY <1>1
  <2>2. y \in Nat /\ m \in Nat /\ ~(y < m)
    BY <2>1 DEF OpToRel
  <2>. QED  BY <2>2
<1>. QED  BY <1>2 DEF Min

(* Min and Max of two numbers. *)
LEMMA MinOfTwo ==
    ASSUME NEW a \in Int, NEW b \in Int
    PROVE  /\ Min({a, b}) = IF a <= b THEN a ELSE b
           /\ Max({a, b}) = IF a <= b THEN b ELSE a
<1>1. (IF a <= b THEN a ELSE b) \in {a, b} /\ \A y \in {a, b} : (IF a <= b THEN a ELSE b) <= y
    OBVIOUS
<1>2. (IF a <= b THEN b ELSE a) \in {a, b} /\ \A y \in {a, b} : (IF a <= b THEN b ELSE a) >= y
    OBVIOUS
<1>3. Min({a, b}) = IF a <= b THEN a ELSE b
    BY <1>1 DEF Min
<1>4. Max({a, b}) = IF a <= b THEN b ELSE a
    BY <1>2 DEF Max
<1>. QED  BY <1>3, <1>4

(* In a list without repetitions a chunk has one rank. *)
LEMMA RankIsPosition ==
    ASSUME NEW list \in Seq(Nat), IsInjective(list), NEW i \in DOMAIN list
    PROVE  Rank(list, list[i]) = i
<1>. DEFINE I == {j \in 1 .. Len(list) : list[j] = list[i]}
<1>1. I = {i} /\ i \in Nat
    BY DEF IsInjective
<1>2. Min({i}) = i
    BY <1>1 DEF Min
<1>. QED  BY <1>1, <1>2 DEF Rank, SelectInSeq

(* The rank of a listed chunk is its position. *)
LEMMA RankType ==
    ASSUME NEW list \in Seq(Nat), IsInjective(list), NEW c \in ToSet(list)
    PROVE  Rank(list, c) \in 1 .. Len(list) /\ list[Rank(list, c)] = c
<1>1. PICK i \in DOMAIN list : list[i] = c
    BY DEF ToSet
<1>2. Rank(list, c) = i
    BY <1>1, RankIsPosition
<1>. QED  BY <1>1, <1>2

(* A better rank gives a larger reciprocal. *)
LEMMA ReciprocalFalls ==
    ASSUME NEW p \in 1 .. Depth, NEW q \in 1 .. Depth, p < q
    PROVE  /\ Scale \div (60 + p) \in Nat /\ Scale \div (60 + q) \in Nat
           /\ Scale \div (60 + p) > Scale \div (60 + q)
           /\ Scale \div (60 + q) > 0
<1>. DEFINE a == Scale \div (60 + p)
            b == Scale \div (60 + q)
<1>1. Depth \in Nat /\ Scale \in Nat /\ Scale > 0 /\ Scale % (60 + p) = 0 /\ Scale % (60 + q) = 0
    BY RankingAssumption
<1>2. a \in Nat /\ b \in Nat /\ p \in Nat /\ q \in Nat
    BY <1>1
<1>3. Scale = (60 + p) * a /\ Scale = (60 + q) * b
    BY <1>1, <1>2
<1>. HIDE DEF a, b
<1>4. b > 0
    BY <1>1, <1>2, <1>3
<1>5. ASSUME a <= b PROVE FALSE
  <2>1. (60 + p) * a <= (60 + p) * b
    BY <1>2, <1>5
  <2>2. (60 + p) * b < (60 + q) * b
    BY <1>2, <1>4
  <2>. QED  BY <1>1, <1>2, <1>3, <2>1, <2>2
<1>. QED  BY <1>2, <1>4, <1>5 DEF a, b

(* A reciprocal rank is a natural number, and positive for a listed chunk. *)
LEMMA ReciprocalType ==
    ASSUME NEW list, Ranked(list), NEW c
    PROVE  /\ Reciprocal(list, c) \in Nat
           /\ c \in ToSet(list) => Reciprocal(list, c) > 0
<1>1. CASE c \in ToSet(list)
  <2>1. Rank(list, c) \in 1 .. Depth /\ Depth \in Nat
    BY <1>1, RankType, RankingAssumption DEF Ranked
  <2>. DEFINE p == Rank(list, c)
              a == Scale \div (60 + p)
  <2>2. Scale \in Nat /\ Scale > 0 /\ Scale % (60 + p) = 0 /\ p \in Nat
    BY <2>1, RankingAssumption
  <2>. HIDE DEF p
  <2>3. a \in Nat /\ Scale = (60 + p) * a
    BY <2>2
  <2>4. a > 0
    BY <2>2, <2>3
  <2>. QED  BY <1>1, <2>3, <2>4 DEF Reciprocal, p
<1>2. CASE c \notin ToSet(list)
    BY <1>2 DEF Reciprocal
<1>. QED  BY <1>1, <1>2

(* To be ahead of a chunk is to be listed, and above it if that is listed
   too.                                                                    *)
LEMMA AheadIsRank ==
    ASSUME NEW list, Ranked(list), NEW a, NEW b
    PROVE  Ahead(list, a, b) <=> /\ a \in ToSet(list)
                                 /\ b \in ToSet(list) => Rank(list, a) < Rank(list, b)
<1>1. \A i \in DOMAIN list : Rank(list, list[i]) = i
    BY RankIsPosition DEF Ranked
<1>2. \A c \in ToSet(list) : Rank(list, c) \in DOMAIN list /\ list[Rank(list, c)] = c
    BY RankType DEF Ranked
<1>. QED  BY <1>1, <1>2 DEF Ahead, ToSet

(* What a list puts ahead gets more of it, and what it does not put behind
   gets no less.                                                           *)
LEMMA AheadGivesMore ==
    ASSUME NEW list, Ranked(list), NEW a, NEW b
    PROVE  /\ Ahead(list, a, b) => Reciprocal(list, a) > Reciprocal(list, b)
           /\ ~Ahead(list, b, a) => Reciprocal(list, a) >= Reciprocal(list, b)
<1>1. \A c \in ToSet(list) : Rank(list, c) \in 1 .. Depth /\ list[Rank(list, c)] = c
  <2>1. \A c \in ToSet(list) : Rank(list, c) \in 1 .. Len(list) /\ list[Rank(list, c)] = c
    BY RankType DEF Ranked
  <2>. QED  BY <2>1, RankingAssumption DEF Ranked
<1>2. Reciprocal(list, a) \in Nat /\ Reciprocal(list, b) \in Nat
         /\ (a \in ToSet(list) => Reciprocal(list, a) > 0)
    BY ReciprocalType
<1>3. ASSUME Ahead(list, a, b)
      PROVE  Reciprocal(list, a) > Reciprocal(list, b)
  <2>1. a \in ToSet(list) /\ (b \in ToSet(list) => Rank(list, a) < Rank(list, b))
    BY <1>3, AheadIsRank
  <2>2. CASE b \in ToSet(list)
    <3>1. Scale \div (60 + Rank(list, a)) > Scale \div (60 + Rank(list, b))
      BY <1>1, <2>1, <2>2, ReciprocalFalls
    <3>. QED  BY <2>1, <2>2, <3>1 DEF Reciprocal
  <2>3. CASE b \notin ToSet(list)
    BY <1>2, <2>1, <2>3 DEF Reciprocal
  <2>. QED  BY <2>2, <2>3
<1>4. ASSUME ~Ahead(list, b, a)
      PROVE  Reciprocal(list, a) >= Reciprocal(list, b)
  <2>1. CASE b \notin ToSet(list)
    BY <1>2, <2>1 DEF Reciprocal
  <2>2. CASE b \in ToSet(list)
    <3>1. a \in ToSet(list) /\ ~(Rank(list, b) < Rank(list, a))
      BY <1>4, <2>2, AheadIsRank
    <3>2. CASE Rank(list, a) = Rank(list, b)
      BY <1>2, <2>2, <3>1, <3>2 DEF Reciprocal
    <3>3. CASE Rank(list, a) # Rank(list, b)
      <4>1. Rank(list, a) < Rank(list, b)
        BY <1>1, <2>2, <3>1, <3>3
      <4>2. Scale \div (60 + Rank(list, a)) > Scale \div (60 + Rank(list, b))
        BY <1>1, <2>2, <3>1, <4>1, ReciprocalFalls
      <4>3. Reciprocal(list, a) > Reciprocal(list, b)
        BY <2>2, <3>1, <4>2 DEF Reciprocal
      <4>. QED  BY <1>2, <4>3
    <3>. QED  BY <3>2, <3>3
  <2>. QED  BY <2>1, <2>2
<1>. QED  BY <1>3, <1>4

(* A fused score is a natural number. *)
LEMMA ScoreType ==
    ASSUME NEW bm25, NEW dense, NEW weight, Fusible(bm25, dense, weight), NEW c
    PROVE  Score(bm25, dense, weight, c) \in Nat
<1>1. Reciprocal(bm25, c) \in Nat /\ Reciprocal(dense, c) \in Nat
    BY ReciprocalType DEF Fusible
<1>2. weight \in Nat /\ 5 - weight \in Nat
    BY DEF Fusible
<1>. QED  BY <1>1, <1>2 DEF Score

(* A chunk that no list puts behind another, and a list of some weight
   puts ahead, has the higher score.                                       *)
LEMMA AheadScoresMore ==
    ASSUME NEW bm25, NEW dense, NEW weight, Fusible(bm25, dense, weight), NEW a, NEW b,
           ~Ahead(bm25, b, a), ~Ahead(dense, b, a),
           \/ weight > 0 /\ Ahead(bm25, a, b)
           \/ weight < 5 /\ Ahead(dense, a, b)
    PROVE  Score(bm25, dense, weight, a) > Score(bm25, dense, weight, b)
<1>. DEFINE ka == Reciprocal(bm25, a)
            kb == Reciprocal(bm25, b)
            va == Reciprocal(dense, a)
            vb == Reciprocal(dense, b)
<1>1. ka \in Nat /\ kb \in Nat /\ va \in Nat /\ vb \in Nat /\ weight \in 0 .. 5
    BY ReciprocalType DEF Fusible
<1>2. ka >= kb /\ va >= vb
    BY AheadGivesMore DEF Fusible
<1>3. (weight > 0 /\ ka > kb) \/ (weight < 5 /\ va > vb)
    BY AheadGivesMore DEF Fusible
<1>. HIDE DEF ka, kb, va, vb
<1>4. weight * ka + (5 - weight) * va > weight * kb + (5 - weight) * vb
  <2>1. weight = 0 \/ weight = 1 \/ weight = 2 \/ weight = 3 \/ weight = 4 \/ weight = 5
    BY <1>1
  <2>2. CASE weight = 0  BY <1>1, <1>2, <1>3, <2>2
  <2>3. CASE weight = 1  BY <1>1, <1>2, <1>3, <2>3
  <2>4. CASE weight = 2  BY <1>1, <1>2, <1>3, <2>4
  <2>5. CASE weight = 3  BY <1>1, <1>2, <1>3, <2>5
  <2>6. CASE weight = 4  BY <1>1, <1>2, <1>3, <2>6
  <2>7. CASE weight = 5  BY <1>1, <1>2, <1>3, <2>7
  <2>. QED  BY <2>1, <2>2, <2>3, <2>4, <2>5, <2>6, <2>7
<1>. QED  BY <1>4 DEF Score, ka, kb, va, vb

(* A list names finitely many things, as many as it is long if it names
   none twice.                                                             *)
LEMMA ListIsFinite ==
    ASSUME NEW T, NEW list \in Seq(T)
    PROVE  IsFiniteSet(ToSet(list)) /\ Cardinality(ToSet(list)) <= Len(list)
           /\ (IsInjective(list) => Cardinality(ToSet(list)) = Len(list))
<1>1. IsFiniteSet(1 .. Len(list)) /\ Cardinality(1 .. Len(list)) = Len(list)
  <2>1. Len(list) \in Nat
    OBVIOUS
  <2>. DEFINE n == Len(list)
  <2>2. n \in Int /\ 1 \in Int /\ (n < 1 => n = 0) /\ n - 1 + 1 = n
    BY <2>1
  <2>. HIDE DEF n
  <2>3. IsFiniteSet(1 .. n) /\ Cardinality(1 .. n) = IF 1 > n THEN 0 ELSE n - 1 + 1
    BY <2>2, FS_Interval
  <2>4. Cardinality(1 .. n) = n
    BY <2>2, <2>3
  <2>. QED  BY <2>3, <2>4 DEF n
<1>2. list \in Surjection(1 .. Len(list), ToSet(list))
    BY DEF Surjection, ToSet
<1>3. IsFiniteSet(ToSet(list)) /\ Cardinality(ToSet(list)) <= Len(list)
         /\ (Cardinality(ToSet(list)) = Len(list) <=> list \in Injection(1 .. Len(list), ToSet(list)))
    BY <1>1, <1>2, FS_Surjection
<1>4. IsInjective(list) => list \in Injection(1 .. Len(list), ToSet(list))
    BY DEF Injection, ToSet
<1>. QED  BY <1>3, <1>4

(* Fusion arranges everything that was found by falling score. *)
LEMMA FuseArranges ==
    ASSUME NEW bm25, NEW dense, NEW weight, Fusible(bm25, dense, weight)
    PROVE  LET f == Fuse(bm25, dense, weight)
               S == ToSet(bm25) \cup ToSet(dense)
           IN  /\ f \in Seq(Nat) /\ Len(f) = Cardinality(S) /\ IsInjective(f) /\ ToSet(f) = S
               /\ IsFiniteSet(S)
               /\ \A i, j \in DOMAIN f : i < j =>
                     Score(bm25, dense, weight, f[i]) >= Score(bm25, dense, weight, f[j])
<1>. DEFINE S == ToSet(bm25) \cup ToSet(dense)
            score(c) == Score(bm25, dense, weight, c)
            place(c) == IF c \in ToSet(bm25) THEN Rank(bm25, c) ELSE Len(bm25) + Rank(dense, c)
            before(a, b) == score(a) > score(b) \/ (score(a) = score(b) /\ place(a) < place(b))
            R == {p \in S \X S : before(p[1], p[2])}
            f == Fuse(bm25, dense, weight)
            n == Cardinality(S)
<1>1. bm25 \in Seq(Nat) /\ dense \in Seq(Nat) /\ IsInjective(bm25) /\ IsInjective(dense)
    BY DEF Fusible, Ranked
<1>2. IsFiniteSet(S) /\ S \subseteq Nat /\ n \in Nat
  <2>1. IsFiniteSet(ToSet(bm25)) /\ IsFiniteSet(ToSet(dense))
    BY <1>1, ListIsFinite
  <2>2. IsFiniteSet(S)
    BY <2>1, FS_Union
  <2>3. S \subseteq Nat
    BY <1>1 DEF ToSet
  <2>. QED  BY <2>2, <2>3, FS_CardinalityType
<1>3. \A c \in S : score(c) \in Nat
    BY ScoreType
<1>4. \A c \in S : place(c) \in Nat /\ place(c) > 0
  <2>1. Len(bm25) \in Nat /\ Len(dense) \in Nat
    BY <1>1
  <2>2. \A c \in ToSet(bm25) : Rank(bm25, c) \in 1 .. Len(bm25)
    BY <1>1, RankType
  <2>3. \A c \in ToSet(dense) : Rank(dense, c) \in 1 .. Len(dense)
    BY <1>1, RankType
  <2>. QED  BY <2>1, <2>2, <2>3
<1>5. \A a, b \in S : place(a) = place(b) => a = b
  <2>1. Len(bm25) \in Nat /\ Len(dense) \in Nat
    BY <1>1
  <2>2. \A c \in ToSet(bm25) : Rank(bm25, c) \in 1 .. Len(bm25) /\ bm25[Rank(bm25, c)] = c
    BY <1>1, RankType
  <2>3. \A c \in ToSet(dense) : Rank(dense, c) \in 1 .. Len(dense) /\ dense[Rank(dense, c)] = c
    BY <1>1, RankType
  <2>. QED  BY <2>1, <2>2, <2>3
<1>. HIDE DEF S, score, place
<1>6. Order(S, R)
  <2>1. \A x \in S : ~before(x, x)
    BY <1>3, <1>4
  <2>2. \A x, y, z \in S : before(x, y) /\ before(y, z) => before(x, z)
    BY <1>3, <1>4
  <2>3. \A x, y \in S : x # y => before(x, y) \/ before(y, x)
    BY <1>3, <1>4, <1>5
  <2>. HIDE DEF before
  <2>. QED  BY <2>1, <2>2, <2>3 DEF Order
<1>. HIDE DEF n
<1>7. \E s \in [1 .. n -> S] : \A i, j \in 1 .. Len(s) : i < j => before(s[i], s[j])
  <2>. HIDE DEF R
  <2>1. PICK s : Arranges(s, S, R)
    BY <1>2, <1>6, Arrangeable
  <2>. USE DEF R
  <2>. HIDE DEF before
  <2>2. s \in [1 .. n -> S] /\ \A i, j \in 1 .. n : i < j => before(s[i], s[j])
    BY <2>1 DEF Arranges, n
  <2>3. Len(s) = n
    BY <1>2, <2>2
  <2>. QED  BY <2>2, <2>3
<1>8. f = CHOOSE s \in [1 .. n -> S] : \A i, j \in 1 .. Len(s) : i < j => before(s[i], s[j])
    BY DEF Fuse, Sorted, IsSorted, S, score, place, n
<1>. HIDE DEF f
<1>9. f \in [1 .. n -> S] /\ \A i, j \in 1 .. Len(f) : i < j => before(f[i], f[j])
  <2>. HIDE DEF before, R
  <2>. QED  BY <1>7, <1>8
<1>10. Len(f) = n
    BY <1>2, <1>9
<1>11. Arranges(f, S, R)
  <2>. HIDE DEF before
  <2>1. f \in [1 .. n -> S] /\ \A i, j \in 1 .. n : i < j => before(f[i], f[j])
    BY <1>9, <1>10
  <2>2. \A i, j \in 1 .. n : f[i] \in S /\ f[j] \in S
    BY <2>1
  <2>3. \A i, j \in 1 .. n : i < j => <<f[i], f[j]>> \in R
    BY <2>1, <2>2
  <2>. QED  BY <2>1, <2>3 DEF Arranges, n
<1>12. f \in Seq(S) /\ Len(f) = n /\ DOMAIN f = 1 .. n /\ IsInjective(f) /\ ToSet(f) = S
  <2>. HIDE DEF R
  <2>. QED  BY <1>2, <1>6, <1>11, ArrangedIsAll DEF n
<1>13. f \in Seq(Nat)
    BY <1>2, <1>12, SeqMonotonic
<1>14. \A i, j \in DOMAIN f : i < j => score(f[i]) >= score(f[j])
  <2>. SUFFICES ASSUME NEW i \in 1 .. n, NEW j \in 1 .. n, i < j
                PROVE  score(f[i]) >= score(f[j])
    BY <1>12
  <2>1. before(f[i], f[j]) /\ f[i] \in S /\ f[j] \in S
    BY <1>9, <1>12
  <2>. QED  BY <1>3, <2>1
<1>. QED  BY <1>2, <1>12, <1>13, <1>14 DEF f, S, n, score

(* Fusion keeps every chunk once and puts what is ahead in the lists ahead
   (embeddings.py, 381-424).                                               *)
LEMMA FuseIsMonotone ==
    ASSUME NEW bm25, NEW dense, NEW weight, Fusible(bm25, dense, weight)
    PROVE  FusedInOrder(bm25, dense, weight, Fuse(bm25, dense, weight))
<1>. DEFINE f == Fuse(bm25, dense, weight)
<1>1. /\ f \in Seq(Nat) /\ IsInjective(f) /\ ToSet(f) = ToSet(bm25) \cup ToSet(dense)
      /\ \A i, j \in DOMAIN f : i < j =>
            Score(bm25, dense, weight, f[i]) >= Score(bm25, dense, weight, f[j])
    BY FuseArranges
<1>. HIDE DEF f
<1>2. ASSUME NEW i \in DOMAIN f, NEW j \in DOMAIN f,
             ~Ahead(bm25, f[j], f[i]), ~Ahead(dense, f[j], f[i]),
             \/ weight > 0 /\ Ahead(bm25, f[i], f[j])
             \/ weight < 5 /\ Ahead(dense, f[i], f[j])
      PROVE  i < j
  <2>1. Score(bm25, dense, weight, f[i]) > Score(bm25, dense, weight, f[j])
    BY <1>2, AheadScoresMore
  <2>2. Score(bm25, dense, weight, f[i]) \in Nat /\ Score(bm25, dense, weight, f[j]) \in Nat
    BY ScoreType
  <2>3. ~(j < i) /\ i # j /\ i \in Int /\ j \in Int
    BY <1>1, <2>1, <2>2
  <2>. QED  BY <2>3
<1>3. FusedInOrder(bm25, dense, weight, f)
    BY <1>1, <1>2 DEF FusedInOrder
<1>. QED  BY <1>3 DEF f

(* The head of a list. *)
LEMMA HeadOfList ==
    ASSUME NEW list \in Seq(Nat), NEW k \in 0 .. Len(list)
    PROVE  LET h == SubSeq(list, 1, k)
           IN  /\ h \in Seq(Nat) /\ Len(h) = k /\ ToSet(h) \subseteq ToSet(list)
               /\ \A i \in 1 .. k : h[i] = list[i]
               /\ IsInjective(list) => IsInjective(h)
               /\ IsPrefix(h, list)
<1>. DEFINE h == SubSeq(list, 1, k)
<1>1. h \in Seq(Nat) /\ Len(h) = k /\ DOMAIN h = 1 .. k /\ \A i \in 1 .. k : h[i] = list[i]
    OBVIOUS
<1>. HIDE DEF h
<1>2. ToSet(h) \subseteq ToSet(list)
    BY <1>1 DEF ToSet
<1>5. IsInjective(list) => IsInjective(h)
  <2>1. \A i \in 1 .. k : i \in DOMAIN list
    OBVIOUS
  <2>. QED  BY <1>1, <2>1 DEF IsInjective
<1>3. SubSeq(h, 1, Len(h)) = h
    BY <1>1
<1>4. IsPrefix(h, list)
    BY <1>1, <1>3 DEF IsPrefix, h
<1>. QED  BY <1>1, <1>2, <1>4, <1>5 DEF h

-----------------------------------------------------------------------------
(* Reranking and searching. *)

(* Reranking keeps as many candidates as were asked for, the most relevant
   ones when the model works and the first ones when it does not
   (embeddings.py, 626-643).                                               *)
LEMMA RerankIsSound ==
    ASSUME NEW list \in Seq(Nat), IsInjective(list), NEW topK \in Nat, NEW relevance,
           NEW works \in BOOLEAN, \A x \in ToSet(list) : relevance[x] \in Int
    PROVE  RerankedWell(Rerank(list, topK, relevance, works), list, topK, relevance, works)
<1>. DEFINE r == Rerank(list, topK, relevance, works)
            S == ToSet(list)
            n == Cardinality(S)
            before(a, b) == relevance[a] > relevance[b]
                        \/ (relevance[a] = relevance[b] /\ Rank(list, a) < Rank(list, b))
            R == {p \in S \X S : before(p[1], p[2])}
            order == CHOOSE s \in [1 .. n -> S] : \A i, j \in 1 .. Len(s) : i < j => before(s[i], s[j])
<1>. SUFFICES RerankedWell(r, list, topK, relevance, works)
    OBVIOUS
<1>1. CASE Len(list) <= topK
  <2>1. r = list
    BY <1>1 DEF Rerank
  <2>2. Len(list) = Min({Len(list), topK})
    BY <1>1, MinOfTwo
  <2>3. IsPrefix(list, list)
    BY DEF IsPrefix
  <2>. HIDE DEF r
  <2>. QED  BY <2>1, <2>2, <2>3 DEF RerankedWell
<1>2. CASE ~(Len(list) <= topK)
  <2>0. topK \in 0 .. Len(list) /\ Min({Len(list), topK}) = topK
    BY <1>2, MinOfTwo
  <2>1. CASE ~works
    <3>1. r = SubSeq(list, 1, topK)
      BY <1>2, <2>1 DEF Rerank
    <3>. HIDE DEF r
    <3>. QED  BY <2>0, <2>1, <3>1, HeadOfList DEF RerankedWell
  <2>2. CASE works
    <3>1. r = SubSeq(order, 1, topK)
      BY <1>2, <2>2 DEF Rerank, Sorted, IsSorted
    <3>2. IsFiniteSet(S) /\ n = Len(list) /\ n \in Nat /\ S \subseteq Nat
      <4>1. IsFiniteSet(S) /\ n = Len(list)
        BY ListIsFinite
      <4>. QED  BY <4>1 DEF ToSet
    <3>3. \A a \in S : Rank(list, a) \in 1 .. Len(list) /\ list[Rank(list, a)] = a
      BY RankType
    <3>4. \A a, b \in S : Rank(list, a) = Rank(list, b) => a = b
      BY <3>3
    <3>5. Order(S, R)
      <4>. HIDE DEF S
      <4>1. \A a \in S : Rank(list, a) \in Int /\ relevance[a] \in Int
        BY <3>3 DEF S
      <4>2. \A x \in S : ~before(x, x)
        BY <4>1
      <4>3. \A x, y, z \in S : before(x, y) /\ before(y, z) => before(x, z)
        BY <4>1
      <4>4. \A x, y \in S : x # y => before(x, y) \/ before(y, x)
        BY <4>1, <3>4
      <4>. HIDE DEF before
      <4>. QED  BY <4>2, <4>3, <4>4 DEF Order
    <3>. HIDE DEF n, r, S
    <3>6. \E s \in [1 .. n -> S] : \A i, j \in 1 .. Len(s) : i < j => before(s[i], s[j])
      <4>. HIDE DEF R
      <4>1. PICK s : Arranges(s, S, R)
        BY <3>2, <3>5, Arrangeable
      <4>. USE DEF R
      <4>. HIDE DEF before
      <4>2. s \in [1 .. n -> S] /\ \A i, j \in 1 .. n : i < j => before(s[i], s[j])
        BY <4>1 DEF Arranges, n
      <4>3. Len(s) = n
        BY <3>2, <4>2
      <4>. QED  BY <4>2, <4>3
    <3>7. order \in [1 .. n -> S] /\ \A i, j \in 1 .. Len(order) : i < j => before(order[i], order[j])
      <4>. HIDE DEF before, R
      <4>. QED  BY <3>6
    <3>. HIDE DEF order
    <3>8. Len(order) = n
      BY <3>2, <3>7
    <3>9. Arranges(order, S, R)
      <4>. HIDE DEF before
      <4>1. \A i, j \in 1 .. n : i < j => before(order[i], order[j])
        BY <3>7, <3>8
      <4>2. \A i \in 1 .. n : order[i] \in S
        BY <3>7
      <4>3. \A i, j \in 1 .. n : i < j => <<order[i], order[j]>> \in R
        BY <4>1, <4>2
      <4>. QED  BY <3>7, <4>3 DEF Arranges, n
    <3>10. /\ order \in Seq(S) /\ Len(order) = n /\ DOMAIN order = 1 .. n
           /\ IsInjective(order) /\ ToSet(order) = S
      <4>. HIDE DEF R
      <4>. QED  BY <3>2, <3>5, <3>9, ArrangedIsAll DEF n
    <3>11. order \in Seq(Nat)
      BY <3>2, <3>10, SeqMonotonic
    <3>12. topK \in 0 .. Len(order)
      BY <2>0, <3>2, <3>10
    <3>13. /\ r \in Seq(Nat) /\ Len(r) = topK /\ ToSet(r) \subseteq ToSet(order)
           /\ \A i \in 1 .. topK : r[i] = order[i]
           /\ IsInjective(r)
      BY <3>1, <3>10, <3>11, <3>12, HeadOfList
    <3>14. ASSUME NEW c \in S \ ToSet(r), NEW h \in ToSet(r)
           PROVE  relevance[c] <= relevance[h]
      <4>1. PICK i \in 1 .. n : order[i] = c
        BY <3>10 DEF ToSet
      <4>2. PICK j \in 1 .. topK : r[j] = h
        BY <3>13 DEF ToSet
      <4>3. order[j] = h /\ j \in 1 .. n /\ j < i
        <5>1. i \notin 1 .. topK
          BY <4>1, <3>13 DEF ToSet
        <5>2. j \in 1 .. n /\ j < i
          BY <5>1, <4>1, <4>2, <3>10, <3>12
        <5>. QED  BY <5>2, <4>2, <3>13
      <4>4. before(h, c)
        <5>. HIDE DEF before
        <5>. QED  BY <3>7, <3>8, <4>1, <4>2, <4>3
      <4>5. relevance[c] \in Int /\ relevance[h] \in Int
        BY <3>10, <3>13 DEF S
      <4>. QED  BY <4>4, <4>5
    <3>. HIDE DEF before
    <3>. QED  BY <2>0, <2>2, <3>10, <3>13, <3>14 DEF RerankedWell, S
  <2>. QED  BY <2>1, <2>2
<1>. QED  BY <1>1, <1>2

(* A search gives the best of what the parts that are up have found
   (embeddings.py, 426-474).                                               *)
LEMMA SearchIsSound ==
    ASSUME NEW bm25, NEW dense, NEW weight, Fusible(bm25, dense, weight),
           NEW topK \in Nat, NEW limit \in Nat, NEW relevance,
           NEW up \in [vectors : BOOLEAN, keywords : BOOLEAN, model : BOOLEAN],
           \A x \in ToSet(bm25) \cup ToSet(dense) : relevance[x] \in Int
    PROVE  FoundBest(bm25, dense, weight, topK, limit, relevance, up,
                     Search(bm25, dense, weight, topK, limit, relevance, up))
<1>. DEFINE res == Search(bm25, dense, weight, topK, limit, relevance, up)
            b == IF up.keywords THEN bm25 ELSE <<>>
            d == IF up.vectors THEN dense ELSE <<>>
            w == IF up.keywords THEN weight ELSE 0
            found == (IF up.keywords THEN ToSet(bm25) ELSE {})
                       \cup (IF up.vectors THEN ToSet(dense) ELSE {})
            fused == Fused(bm25, dense, weight, up)
            m == Min({Len(fused), Max({topK, limit})})
            considered == SubSeq(fused, 1, m)
<1>. SUFFICES FoundBest(bm25, dense, weight, topK, limit, relevance, up, res)
    OBVIOUS
<1>1. Fusible(b, d, w)
  <2>1. Ranked(<<>>)
    BY RankingAssumption DEF Ranked, IsInjective
  <2>. QED  BY <2>1 DEF Fusible
<1>2. ToSet(b) \cup ToSet(d) = found /\ fused = Fuse(b, d, w)
  <2>1. ToSet(<<>>) = {}
    BY DEF ToSet
  <2>. QED  BY <2>1 DEF Fused
<1>. HIDE DEF b, d, w, fused, found
<1>3. /\ fused \in Seq(Nat) /\ Len(fused) = Cardinality(found) /\ IsInjective(fused)
      /\ ToSet(fused) = found /\ IsFiniteSet(found)
    BY <1>1, <1>2, FuseArranges
<1>4. m \in 0 .. Len(fused) /\ m = IF Len(fused) <= topK \/ Len(fused) <= limit THEN Len(fused)
                                   ELSE IF topK <= limit THEN limit ELSE topK
  <2>1. Len(fused) \in Nat
    BY <1>3
  <2>2. Max({topK, limit}) = IF topK <= limit THEN limit ELSE topK
    BY MinOfTwo
  <2>3. Max({topK, limit}) \in Nat
    BY <2>2
  <2>4. m = IF Len(fused) <= Max({topK, limit}) THEN Len(fused) ELSE Max({topK, limit})
    <3>. DEFINE k == Max({topK, limit})
                l == Len(fused)
    <3>1. k \in Int /\ l \in Int
      BY <2>1, <2>3
    <3>. HIDE DEF k, l
    <3>2. Min({l, k}) = IF l <= k THEN l ELSE k
      BY <3>1, MinOfTwo
    <3>. QED  BY <3>2 DEF k, l
  <2>. QED  BY <2>1, <2>2, <2>3, <2>4
<1>. HIDE DEF m
<1>5. /\ considered \in Seq(Nat) /\ Len(considered) = m /\ ToSet(considered) \subseteq found
      /\ IsInjective(considered) /\ \A i \in 1 .. m : considered[i] = fused[i]
    BY <1>3, <1>4, HeadOfList
<1>. HIDE DEF considered
<1>6. \A x \in found : relevance[x] \in Int
    BY DEF found
<1>7. CASE ~up.vectors /\ ~up.keywords
  <2>1. res = [ok |-> FALSE, hits |-> <<>>]
    BY <1>7 DEF Search
  <2>2. found = {} /\ Len(fused) = 0
    BY <1>3, <1>7, FS_EmptySet DEF found
  <2>3. fused = <<>> /\ considered = <<>>
    BY <2>2, <1>3, <1>5, <1>4
  <2>. HIDE DEF res
  <2>4. ToSet(res.hits) = {} /\ IsInjective(res.hits) /\ Len(res.hits) = 0 /\ ~res.ok
    BY <2>1 DEF ToSet, IsInjective
  <2>5. Min({0, topK}) = 0
    BY MinOfTwo
  <2>6. IsPrefix(res.hits, fused)
    BY <2>1, <2>3 DEF IsPrefix
  <2>7. Cardinality(found) = 0
    BY <2>2, <1>3
  <2>. QED  BY <1>7, <2>4, <2>5, <2>6, <2>7 DEF FoundBest, found, fused, considered, m
<1>8. CASE up.vectors \/ up.keywords
  <2>. DEFINE hits == Rerank(considered, topK, relevance, up.model)
  <2>1. res = [ok |-> TRUE, hits |-> hits]
    BY <1>8 DEF Search, considered, m, fused
  <2>. HIDE DEF res
  <2>2. RerankedWell(hits, considered, topK, relevance, up.model)
    <3>1. up.model \in BOOLEAN /\ \A x \in ToSet(considered) : relevance[x] \in Int
      BY <1>5, <1>6
    <3>. QED  BY <1>5, <3>1, RerankIsSound
  <2>. HIDE DEF hits
  <2>3. Len(hits) = Min({Cardinality(found), topK})
    <3>1. Len(hits) = Min({m, topK})
      BY <1>5, <2>2 DEF RerankedWell
    <3>2. Len(fused) \in Nat /\ m \in Nat
      BY <1>3, <1>4
    <3>3. Min({m, topK}) = Min({Len(fused), topK})
      BY <1>4, <3>2, MinOfTwo
    <3>. QED  BY <1>3, <3>1, <3>3
  <2>4. ~up.model => IsPrefix(hits, fused)
    <3>. SUFFICES ASSUME ~up.model PROVE IsPrefix(hits, fused)
      OBVIOUS
    <3>1. IsPrefix(hits, considered) /\ hits \in Seq(Nat)
      BY <2>2 DEF RerankedWell
    <3>2. Len(hits) \in Nat /\ Len(hits) <= m /\ Len(hits) <= Len(fused)
      BY <3>1, <1>4, <1>5, <1>3 DEF IsPrefix
    <3>3. SubSeq(considered, 1, Len(hits)) = SubSeq(fused, 1, Len(hits))
      BY <3>2, <1>3, <1>4, <1>5
    <3>. QED  BY <3>1, <3>2, <3>3 DEF IsPrefix
  <2>5. /\ ToSet(hits) \subseteq found /\ IsInjective(hits)
        /\ up.model => \A c \in ToSet(considered) \ ToSet(hits) : \A h \in ToSet(hits) :
                          relevance[c] <= relevance[h]
    BY <1>5, <2>2 DEF RerankedWell
  <2>6. res.ok = TRUE /\ res.hits = hits
    BY <2>1
  <2>. QED  BY <1>8, <2>3, <2>4, <2>5, <2>6 DEF FoundBest, found, fused, considered, m
<1>. QED  BY <1>7, <1>8

-----------------------------------------------------------------------------
(* Sums over finite sets. *)

(* A sum over a set goes over to the set with one more element. *)
LEMMA AddOne ==
    ASSUME NEW f, NEW S, NEW g, Additive(g, f, S), NEW y, y \notin S, f[y] \in Nat,
           \A x \in S : f[x] \in Nat
    PROVE  \E h : Additive(h, f, S \cup {y})
<1>. DEFINE h == [s \in SUBSET (S \cup {y}) |-> IF y \in s THEN f[y] + g[s \ {y}] ELSE g[s]]
<1>1. h \in [SUBSET (S \cup {y}) -> Nat]
  <2>. SUFFICES ASSUME NEW s \in SUBSET (S \cup {y})
                PROVE  (IF y \in s THEN f[y] + g[s \ {y}] ELSE g[s]) \in Nat
    OBVIOUS
  <2>1. s \ {y} \in SUBSET S /\ (y \notin s => s \in SUBSET S)
    OBVIOUS
  <2>2. g[s \ {y}] \in Nat /\ (y \notin s => g[s] \in Nat)
    BY <2>1 DEF Additive
  <2>. QED  BY <2>2
<1>2. h[{}] = 0
    BY DEF Additive
<1>3. ASSUME NEW s \in SUBSET (S \cup {y}), NEW x \in s
      PROVE  h[s] = f[x] + h[s \ {x}]
  <2>1. s \ {y} \in SUBSET S /\ s \ {x} \in SUBSET (S \cup {y}) /\ (y \notin s => s \in SUBSET S)
    OBVIOUS
  <2>2. CASE x = y
    <3>1. h[s] = f[y] + g[s \ {y}] /\ h[s \ {x}] = g[s \ {y}]
      BY <2>1, <2>2
    <3>. QED  BY <2>2, <3>1
  <2>3. CASE x # y /\ y \in s
    <3>1. x \in s \ {y} /\ (s \ {y}) \ {x} \in SUBSET S /\ (s \ {x}) \ {y} = (s \ {y}) \ {x}
      BY <2>1, <2>3
    <3>2. g[s \ {y}] = f[x] + g[(s \ {y}) \ {x}]
      BY <2>1, <3>1 DEF Additive
    <3>3. h[s] = f[y] + g[s \ {y}] /\ h[s \ {x}] = f[y] + g[(s \ {x}) \ {y}]
      BY <2>1, <2>3
    <3>4. g[(s \ {y}) \ {x}] \in Nat /\ f[x] \in Nat
      <4>1. g[(s \ {y}) \ {x}] \in Nat
        BY <3>1 DEF Additive
      <4>2. x \in S
        BY <2>1, <3>1
      <4>. QED  BY <4>1, <4>2
    <3>5. f[y] \in Nat
      OBVIOUS
    <3>. DEFINE r == g[(s \ {y}) \ {x}]
    <3>6. h[s] = f[y] + g[s \ {y}] /\ h[s \ {x}] = f[y] + r /\ g[s \ {y}] = f[x] + r /\ r \in Nat
      BY <3>1, <3>2, <3>3, <3>4
    <3>. HIDE DEF h, r
    <3>. QED  BY <3>4, <3>5, <3>6
  <2>4. CASE y \notin s
    <3>1. h[s] = g[s] /\ h[s \ {x}] = g[s \ {x}]
      BY <2>1, <2>4
    <3>2. g[s] = f[x] + g[s \ {x}]
      BY <2>1, <2>4 DEF Additive
    <3>. QED  BY <3>1, <3>2
  <2>. QED  BY <2>2, <2>3, <2>4
<1>. HIDE DEF h
<1>4. Additive(h, f, S \cup {y})
    BY <1>1, <1>2, <1>3 DEF Additive
<1>. QED  BY <1>4

(* Every finite set of natural numbers has its sums. *)
LEMMA SumsExist ==
    ASSUME NEW S, IsFiniteSet(S), NEW f, \A x \in S : f[x] \in Nat
    PROVE  \E g : Additive(g, f, S)
<1>. DEFINE n == Cardinality(S)
<1>1. n \in Nat /\ ExistsBijection(1 .. n, S)
    BY FS_CardinalityType
<1>. HIDE DEF n
<1>2. PICK e \in [1 .. n -> S] : /\ \A i, j \in 1 .. n : e[i] = e[j] => i = j
                                 /\ \A x \in S : \E i \in 1 .. n : e[i] = x
  <2>1. PICK e \in Bijection(1 .. n, S) : TRUE
    BY <1>1 DEF ExistsBijection
  <2>. QED  BY <2>1 DEF Bijection, Injection, Surjection, IsInjective
<1>. DEFINE part(k) == {e[i] : i \in 1 .. k}
            T == {k \in 0 .. n : \E g : Additive(g, f, part(k))}
<1>3. 0 \in T
  <2>1. part(0) = {} /\ SUBSET {} = {{}}
    OBVIOUS
  <2>2. \E g : Additive(g, f, {})
    <3>. DEFINE g == [s \in SUBSET {} |-> 0]
    <3>1. g \in [SUBSET {} -> Nat] /\ g[{}] = 0 /\ \A s \in SUBSET {} : s = {}
      BY <2>1
    <3>. HIDE DEF g
    <3>2. Additive(g, f, {})
      BY <3>1 DEF Additive
    <3>. QED  BY <3>2
  <2>3. \E g : Additive(g, f, part(0))
    BY <2>1, <2>2
  <2>4. 0 \in 0 .. n
    BY <1>1
  <2>. HIDE DEF part
  <2>. QED  BY <2>3, <2>4
<1>4. \A k \in 0 .. n - 1 : k \in T => k + 1 \in T
  <2>. SUFFICES ASSUME NEW k \in 0 .. n - 1, k \in T
                PROVE  k + 1 \in T
    OBVIOUS
  <2>1. PICK g : Additive(g, f, part(k))
    OBVIOUS
  <2>2. k + 1 \in 1 .. n /\ k + 1 \in 0 .. n /\ \A i \in 1 .. k : i \in 1 .. n /\ i # k + 1
    BY <1>1
  <2>3. part(k + 1) = part(k) \cup {e[k + 1]}
    OBVIOUS
  <2>4. e[k + 1] \notin part(k) /\ e[k + 1] \in S /\ part(k) \subseteq S
    BY <1>2, <2>2
  <2>5. f[e[k + 1]] \in Nat /\ \A x \in part(k) : f[x] \in Nat
    BY <2>4
  <2>. HIDE DEF part
  <2>6. \E h : Additive(h, f, part(k) \cup {e[k + 1]})
    BY <2>1, <2>4, <2>5, AddOne
  <2>. QED  BY <2>2, <2>3, <2>6
<1>5. n \in T
  <2>. HIDE DEF T
  <2>1. \A k \in 0 .. n : k \in T
    BY <1>1, <1>3, <1>4, UpTo
  <2>. QED  BY <1>1, <2>1
<1>6. part(n) = S
    BY <1>2
<1>. HIDE DEF part
<1>. QED  BY <1>5, <1>6

(* The sum of the library, which picks the elements in an order of its
   own, is that sum.                                                       *)
LEMMA SumIsAdditive ==
    ASSUME NEW S, IsFiniteSet(S), NEW f, NEW g, Additive(g, f, S)
    PROVE  SumFunctionOnSet(f, S) = g[S]
<1>. DEFINE iter == CHOOSE it : it = [s \in SUBSET S |->
                        IF s = {} THEN 0 ELSE f[CHOOSE x \in s : TRUE] + it[s \ {CHOOSE x \in s : TRUE}]]
            n == Cardinality(S)
<1>1. SumFunctionOnSet(f, S) = iter[S]
    BY DEF SumFunctionOnSet, FoldFunctionOnSet, MapThenFoldSet
<1>. HIDE DEF iter
<1>2. iter = [s \in SUBSET S |->
                  IF s = {} THEN 0 ELSE f[CHOOSE x \in s : TRUE] + iter[s \ {CHOOSE x \in s : TRUE}]]
  <2>1. g = [s \in SUBSET S |->
                  IF s = {} THEN 0 ELSE f[CHOOSE x \in s : TRUE] + g[s \ {CHOOSE x \in s : TRUE}]]
    <3>1. \A s \in SUBSET S : s # {} => (CHOOSE x \in s : TRUE) \in s
      OBVIOUS
    <3>2. \A s \in SUBSET S : g[s] = IF s = {} THEN 0 ELSE f[CHOOSE x \in s : TRUE] + g[s \ {CHOOSE x \in s : TRUE}]
      BY <3>1 DEF Additive
    <3>3. g \in [SUBSET S -> Nat]
      BY DEF Additive
    <3>. QED  BY <3>2, <3>3
  <2>. QED  BY <2>1 DEF iter
<1>. DEFINE T == {k \in 0 .. n : \A s \in SUBSET S : Cardinality(s) <= k => iter[s] = g[s]}
<1>3. n \in Nat /\ \A s \in SUBSET S : IsFiniteSet(s) /\ Cardinality(s) \in Nat
                                       /\ (Cardinality(s) = 0 <=> s = {})
  <2>1. ASSUME NEW s \in SUBSET S PROVE IsFiniteSet(s) /\ Cardinality(s) \in Nat
    <3>1. IsFiniteSet(s)
      BY FS_Subset
    <3>. QED  BY <3>1, FS_CardinalityType
  <2>. QED  BY <2>1, FS_EmptySet
<1>. HIDE DEF n
<1>4. 0 \in T
  <2>1. \A s \in SUBSET S : Cardinality(s) <= 0 => s = {}
    BY <1>3
  <2>2. iter[{}] = 0 /\ g[{}] = 0
    BY <1>2 DEF Additive
  <2>. QED  BY <1>3, <2>1, <2>2
<1>5. \A k \in 0 .. n - 1 : k \in T => k + 1 \in T
  <2>. SUFFICES ASSUME NEW k \in 0 .. n - 1, k \in T, NEW s \in SUBSET S, Cardinality(s) <= k + 1
                PROVE  iter[s] = g[s]
    BY <1>3
  <2>1. CASE s = {}
    BY <1>2, <2>1 DEF Additive
  <2>2. CASE s # {}
    <3>. DEFINE x == CHOOSE x \in s : TRUE
    <3>1. x \in s
      BY <2>2
    <3>2. iter[s] = f[x] + iter[s \ {x}]
      BY <1>2, <2>2
    <3>. HIDE DEF x
    <3>3. g[s] = f[x] + g[s \ {x}]
      BY <3>1 DEF Additive
    <3>4. Cardinality(s \ {x}) <= k
      <4>1. Cardinality(s \ {x}) = Cardinality(s) - 1
        BY <1>3, <3>1, FS_RemoveElement
      <4>. QED  BY <1>3, <4>1
    <3>5. iter[s \ {x}] = g[s \ {x}]
      BY <3>4
    <3>. QED  BY <3>2, <3>3, <3>5
  <2>. QED  BY <2>1, <2>2
<1>6. n \in T
  <2>. HIDE DEF T
  <2>1. \A k \in 0 .. n : k \in T
    BY <1>3, <1>4, <1>5, UpTo
  <2>. QED  BY <1>3, <2>1
<1>7. Cardinality(S) <= n
    BY <1>3 DEF n
<1>. QED  BY <1>1, <1>6, <1>7

(* The sum over a finite set, an element at a time. *)
LEMMA SumOf ==
    ASSUME NEW S, IsFiniteSet(S), NEW f, \A x \in S : f[x] \in Nat
    PROVE  /\ SumFunctionOnSet(f, S) \in Nat
           /\ SumFunctionOnSet(f, {}) = 0
           /\ \A x \in S : SumFunctionOnSet(f, S) = f[x] + SumFunctionOnSet(f, S \ {x})
<1>1. PICK g : Additive(g, f, S)
    BY SumsExist
<1>2. ASSUME NEW s \in SUBSET S PROVE SumFunctionOnSet(f, s) = g[s]
  <2>1. IsFiniteSet(s)
    BY FS_Subset
  <2>. DEFINE h == [t \in SUBSET s |-> g[t]]
  <2>2. Additive(h, f, s)
    <3>1. h \in [SUBSET s -> Nat] /\ h[{}] = 0
      BY <1>1 DEF Additive
    <3>2. ASSUME NEW t \in SUBSET s, NEW x \in t PROVE h[t] = f[x] + h[t \ {x}]
      <4>1. t \in SUBSET S /\ t \ {x} \in SUBSET s
        OBVIOUS
      <4>. QED  BY <1>1, <4>1 DEF Additive
    <3>. HIDE DEF h
    <3>. QED  BY <3>1, <3>2 DEF Additive
  <2>3. h[s] = g[s]
    OBVIOUS
  <2>. HIDE DEF h
  <2>. QED  BY <2>1, <2>2, <2>3, SumIsAdditive
<1>3. S \in SUBSET S /\ {} \in SUBSET S /\ \A x \in S : S \ {x} \in SUBSET S
    OBVIOUS
<1>. QED  BY <1>1, <1>2, <1>3 DEF Additive

(* Equal values have equal sums. *)
LEMMA SumSame ==
    ASSUME NEW S, IsFiniteSet(S), NEW f, NEW h, \A x \in S : f[x] \in Nat, \A x \in S : f[x] = h[x]
    PROVE  SumFunctionOnSet(f, S) = SumFunctionOnSet(h, S)
<1>1. PICK g : Additive(g, f, S)
    BY SumsExist
<1>2. Additive(g, h, S)
  <2>1. \A s \in SUBSET S : \A x \in s : f[x] = h[x]
    OBVIOUS
  <2>. QED  BY <1>1, <2>1 DEF Additive
<1>. QED  BY <1>1, <1>2, SumIsAdditive

(* The sum over an interval, its last or its first element apart. *)
LEMMA SumInterval ==
    ASSUME NEW a \in Int, NEW b \in Int, a <= b, NEW f, \A i \in a .. b : f[i] \in Nat
    PROVE  /\ SumFunctionOnSet(f, a .. b) \in Nat
           /\ SumFunctionOnSet(f, a .. b - 1) \in Nat
           /\ SumFunctionOnSet(f, a + 1 .. b) \in Nat
           /\ SumFunctionOnSet(f, a .. b) = SumFunctionOnSet(f, a .. b - 1) + f[b]
           /\ SumFunctionOnSet(f, a .. b) = f[a] + SumFunctionOnSet(f, a + 1 .. b)
<1>1. IsFiniteSet(a .. b) /\ IsFiniteSet(a .. b - 1) /\ IsFiniteSet(a + 1 .. b)
    BY FS_Interval
<1>2. (a .. b) \ {b} = a .. b - 1 /\ (a .. b) \ {a} = a + 1 .. b /\ a \in a .. b /\ b \in a .. b
    OBVIOUS
<1>3. (\A i \in a .. b - 1 : f[i] \in Nat) /\ (\A i \in a + 1 .. b : f[i] \in Nat)
    OBVIOUS
<1>4. /\ SumFunctionOnSet(f, a .. b) \in Nat
      /\ \A x \in a .. b : SumFunctionOnSet(f, a .. b) = f[x] + SumFunctionOnSet(f, (a .. b) \ {x})
    BY <1>1, SumOf
<1>5. SumFunctionOnSet(f, a .. b - 1) \in Nat
    BY <1>1, <1>3, SumOf
<1>6. SumFunctionOnSet(f, a + 1 .. b) \in Nat
    BY <1>1, <1>3, SumOf
<1>7. SumFunctionOnSet(f, a .. b) = f[b] + SumFunctionOnSet(f, a .. b - 1)
    BY <1>2, <1>4
<1>8. SumFunctionOnSet(f, a .. b) = f[a] + SumFunctionOnSet(f, a + 1 .. b)
    BY <1>2, <1>4
<1>9. f[b] \in Nat
    BY <1>2
<1>. QED  BY <1>4, <1>5, <1>6, <1>7, <1>8, <1>9

(* The sum over nothing. *)
LEMMA SumNothing ==
    ASSUME NEW f PROVE SumFunctionOnSet(f, {}) = 0
<1>1. IsFiniteSet({}) /\ \A x \in {} : f[x] \in Nat
    BY FS_EmptySet
<1>. QED  BY <1>1, SumOf

(* The sum over a stretch of positions is that of the stretch moved to 1. *)
LEMMA SumShift ==
    ASSUME NEW n \in Nat, NEW d \in Int, NEW f, NEW h,
           \A i \in 1 .. n : f[d + i] \in Nat /\ h[i] = f[d + i]
    PROVE  SumFunctionOnSet(h, 1 .. n) = SumFunctionOnSet(f, d + 1 .. d + n)
<1>. DEFINE T == {k \in 0 .. n : SumFunctionOnSet(h, 1 .. k) = SumFunctionOnSet(f, d + 1 .. d + k)}
<1>1. 0 \in T
  <2>1. 1 .. 0 = {} /\ d + 1 .. d + 0 = {} /\ 0 \in 0 .. n
    OBVIOUS
  <2>2. SumFunctionOnSet(h, 1 .. 0) = 0
    BY <2>1, SumNothing
  <2>3. SumFunctionOnSet(f, d + 1 .. d + 0) = 0
    BY <2>1, SumNothing
  <2>. QED  BY <2>1, <2>2, <2>3
<1>2. \A k \in 0 .. n - 1 : k \in T => k + 1 \in T
  <2>. SUFFICES ASSUME NEW k \in 0 .. n - 1, k \in T
                PROVE  k + 1 \in T
    OBVIOUS
  <2>1. \A i \in 1 .. k + 1 : h[i] \in Nat
    OBVIOUS
  <2>2. \A i \in d + 1 .. d + (k + 1) : f[i] \in Nat
    <3>. SUFFICES ASSUME NEW i \in d + 1 .. d + (k + 1) PROVE f[i] \in Nat
      OBVIOUS
    <3>1. i - d \in 1 .. n /\ d + (i - d) = i
      OBVIOUS
    <3>. QED  BY <3>1
  <2>3. 1 <= k + 1 /\ (k + 1) - 1 = k /\ d + 1 <= d + (k + 1) /\ (d + (k + 1)) - 1 = d + k
           /\ k + 1 \in Int /\ d + 1 \in Int /\ d + (k + 1) \in Int
    OBVIOUS
  <2>4. SumFunctionOnSet(h, 1 .. k + 1) = SumFunctionOnSet(h, 1 .. k) + h[k + 1]
    <3>1. SumFunctionOnSet(h, 1 .. k + 1) = SumFunctionOnSet(h, 1 .. (k + 1) - 1) + h[k + 1]
      BY <2>1, <2>3, SumInterval
    <3>. QED  BY <2>3, <3>1
  <2>5. SumFunctionOnSet(f, d + 1 .. d + (k + 1)) = SumFunctionOnSet(f, d + 1 .. d + k) + f[d + (k + 1)]
    <3>. DEFINE b == d + (k + 1)
                a == d + 1
    <3>1. a \in Int /\ b \in Int /\ a <= b /\ \A i \in a .. b : f[i] \in Nat
      BY <2>2, <2>3
    <3>. HIDE DEF a, b
    <3>2. SumFunctionOnSet(f, a .. b) = SumFunctionOnSet(f, a .. b - 1) + f[b]
      BY <3>1, SumInterval
    <3>. QED  BY <2>3, <3>2 DEF a, b
  <2>6. h[k + 1] = f[d + (k + 1)] /\ k + 1 \in 0 .. n
    OBVIOUS
  <2>. QED  BY <2>4, <2>5, <2>6
<1>3. n \in T
  <2>. HIDE DEF T
  <2>1. \A k \in 0 .. n : k \in T
    BY <1>1, <1>2, UpTo
  <2>. QED  BY <2>1
<1>. QED  BY <1>3

(* The sums over the ends of a list grow with every element. *)
LEMMA SumOfTails ==
    ASSUME NEW n \in Nat, NEW f, \A i \in 1 .. n : f[i] \in Nat
    PROVE  /\ \A k \in 0 .. n : SumFunctionOnSet(f, n - k + 1 .. n) \in Nat
           /\ \A k \in 0 .. n - 1 : SumFunctionOnSet(f, n - (k + 1) + 1 .. n)
                                      = f[n - k] + SumFunctionOnSet(f, n - k + 1 .. n)
           /\ \A k, l \in 0 .. n : k <= l =>
                 SumFunctionOnSet(f, n - k + 1 .. n) <= SumFunctionOnSet(f, n - l + 1 .. n)
<1>. DEFINE c(k) == SumFunctionOnSet(f, n - k + 1 .. n)
<1>1. ASSUME NEW k \in 0 .. n PROVE c(k) \in Nat
  <2>1. IsFiniteSet(n - k + 1 .. n) /\ \A i \in n - k + 1 .. n : f[i] \in Nat
    BY FS_Interval
  <2>. QED  BY <2>1, SumOf
<1>2. ASSUME NEW k \in 0 .. n - 1 PROVE c(k + 1) = f[n - k] + c(k)
  <2>1. n - k <= n /\ n - k \in Int /\ n \in Int /\ (\A i \in n - k .. n : f[i] \in Nat) /\ n - (k + 1) + 1 = n - k
    OBVIOUS
  <2>2. SumFunctionOnSet(f, n - k .. n) = f[n - k] + SumFunctionOnSet(f, n - k + 1 .. n)
    BY <2>1, SumInterval
  <2>. QED  BY <2>1, <2>2
<1>3. ASSUME NEW k \in 0 .. n, NEW l \in 0 .. n, k <= l PROVE c(k) <= c(l)
  <2>. DEFINE T == {j \in 0 .. n : k <= j => c(k) <= c(j)}
  <2>. HIDE DEF c
  <2>1. 0 \in T
    BY <1>1
  <2>2. \A j \in 0 .. n - 1 : j \in T => j + 1 \in T
    <3>. SUFFICES ASSUME NEW j \in 0 .. n - 1, j \in T, k <= j + 1 PROVE c(k) <= c(j + 1)
      OBVIOUS
    <3>1. c(j + 1) = f[n - j] + c(j) /\ c(j) \in Nat /\ c(k) \in Nat /\ f[n - j] \in Nat
      <4>1. n - j \in 1 .. n /\ j \in 0 .. n
        OBVIOUS
      <4>. QED  BY <4>1, <1>1, <1>2
    <3>. QED  BY <3>1
  <2>. HIDE DEF T
  <2>3. \A j \in 0 .. n : j \in T
    BY <2>1, <2>2, UpTo
  <2>. QED  BY <2>3, <1>3 DEF T
<1>. QED  BY <1>1, <1>2, <1>3

-----------------------------------------------------------------------------
(* Tokens. *)

(* The start of a word is known by what stands before it. *)
LEMMA WordStartIs ==
    ASSUME NEW text \in Seq(Char), NEW i \in 1 .. Len(text), NEW m \in 1 .. i,
           \A k \in m .. i : text[k] = "w", m = 1 \/ text[m - 1] # "w"
    PROVE  WordStart(text, i) = m
<1>. DEFINE W == {j \in 1 .. i : \A k \in j .. i : text[k] = "w"}
<1>1. m \in W /\ W \subseteq Nat
    OBVIOUS
<1>2. ASSUME NEW j \in W PROVE m <= j
  <2>. SUFFICES ASSUME j < m PROVE FALSE
    OBVIOUS
  <2>1. m - 1 \in j .. i /\ m # 1
    OBVIOUS
  <2>. QED  BY <2>1
<1>3. Min(W) \in W /\ Min(W) <= m
    BY <1>1, MinOf
<1>4. Min(W) = m
    BY <1>1, <1>2, <1>3
<1>. QED  BY <1>4 DEF WordStart

(* The letter at i belongs to the word that starts at its WordStart. *)
LEMMA WordStartOf ==
    ASSUME NEW text \in Seq(Char), NEW i \in 1 .. Len(text), text[i] = "w"
    PROVE  LET m == WordStart(text, i)
           IN  m \in 1 .. i /\ (\A k \in m .. i : text[k] = "w") /\ (m = 1 \/ text[m - 1] # "w")
<1>. DEFINE W == {j \in 1 .. i : \A k \in j .. i : text[k] = "w"}
<1>1. i \in W /\ W \subseteq Nat
    OBVIOUS
<1>2. Min(W) \in W /\ \A j \in W : Min(W) <= j
    BY <1>1, MinOf
<1>3. ASSUME Min(W) # 1, text[Min(W) - 1] = "w" PROVE FALSE
  <2>. DEFINE j == Min(W) - 1
  <2>1. j \in 1 .. i /\ Min(W) \in 1 .. i
    BY <1>2, <1>3
  <2>2. \A k \in j .. i : text[k] = "w"
    BY <1>2, <1>3, <2>1
  <2>. QED  BY <1>2, <2>1, <2>2
<1>. QED  BY <1>2, <1>3 DEF WordStart

(* What is put behind a text changes no token of it. *)
LEMMA TokenBefore ==
    ASSUME NEW a \in Seq(Char), NEW b \in Seq(Char), NEW i \in 1 .. Len(a)
    PROVE  TokenAt(a \o b, i) <=> TokenAt(a, i)
<1>1. \A k \in 1 .. i : (a \o b)[k] = a[k]
    OBVIOUS
<1>2. {j \in 1 .. i : \A k \in j .. i : (a \o b)[k] = "w"} = {j \in 1 .. i : \A k \in j .. i : a[k] = "w"}
    BY <1>1
<1>3. WordStart(a \o b, i) = WordStart(a, i)
    BY <1>2 DEF WordStart
<1>. QED  BY <1>1, <1>3 DEF TokenAt

(* Behind a text that is apart the tokens of a text are those it has
   alone.                                                                  *)
LEMMA TokenBehind ==
    ASSUME NEW a \in Seq(Char), NEW b \in Seq(Char), Apart(a, b), NEW i \in 1 .. Len(b)
    PROVE  TokenAt(a \o b, Len(a) + i) <=> TokenAt(b, i)
<1>. DEFINE t == a \o b
            l == Len(a)
<1>1. /\ t \in Seq(Char) /\ Len(t) = l + Len(b) /\ l \in Nat /\ Len(b) \in Nat
      /\ \A k \in 1 .. Len(b) : t[l + k] = b[k]
      /\ \A k \in 1 .. l : t[k] = a[k]
    OBVIOUS
<1>2. l > 0 /\ b[1] = "w" => a[l] # "w"
    BY DEF Apart
<1>. HIDE DEF t, l
<1>3. CASE b[i] = "w"
  <2>. DEFINE m == WordStart(b, i)
  <2>1. m \in 1 .. i /\ (\A k \in m .. i : b[k] = "w") /\ (m = 1 \/ b[m - 1] # "w")
    BY <1>3, WordStartOf
  <2>. HIDE DEF m
  <2>2. l + i \in 1 .. Len(t) /\ l + m \in 1 .. l + i
    BY <1>1, <2>1
  <2>3. ASSUME NEW k \in l + m .. l + i PROVE t[k] = "w"
    <3>1. k - l \in m .. i /\ k - l \in 1 .. Len(b) /\ l + (k - l) = k
      BY <1>1, <2>1
    <3>. QED  BY <1>1, <2>1, <3>1
  <2>4. l + m = 1 \/ t[(l + m) - 1] # "w"
    <3>1. CASE m = 1 /\ l > 0
      <4>1. b[1] = "w" /\ (l + m) - 1 = l /\ l \in 1 .. l
        BY <1>1, <2>1, <3>1
      <4>. QED  BY <1>1, <1>2, <3>1, <4>1
    <3>2. CASE m # 1
      <4>1. m - 1 \in 1 .. Len(b) /\ (l + m) - 1 = l + (m - 1)
        BY <1>1, <2>1, <3>2
      <4>. QED  BY <1>1, <2>1, <3>2, <4>1
    <3>. QED  BY <1>1, <3>1, <3>2
  <2>5. WordStart(t, l + i) = l + m
    BY <1>1, <2>2, <2>3, <2>4, WordStartIs
  <2>6. (l + i) - (l + m) = i - m
    BY <1>1, <2>1
  <2>. QED  BY <1>1, <1>3, <2>5, <2>6 DEF TokenAt, m, t, l
<1>4. CASE b[i] # "w"
    BY <1>1, <1>4 DEF TokenAt, t, l
<1>. QED  BY <1>3, <1>4

(* Moved positions are as many. *)
LEMMA ShiftedSize ==
    ASSUME NEW S, IsFiniteSet(S), S \subseteq Int, NEW d \in Int
    PROVE  IsFiniteSet(Shifted(S, d)) /\ Cardinality(Shifted(S, d)) = Cardinality(S)
<1>. DEFINE U == {d + i : i \in S}
            f == [i \in S |-> d + i]
<1>1. f \in Bijection(S, U)
  <2>1. f \in [S -> U] /\ (\A i, j \in S : f[i] = f[j] => i = j) /\ (\A u \in U : \E i \in S : f[i] = u)
    OBVIOUS
  <2>. HIDE DEF f, U
  <2>. QED  BY <2>1 DEF Bijection, Injection, Surjection, IsInjective
<1>2. ExistsBijection(S, U)
    BY <1>1 DEF ExistsBijection
<1>. HIDE DEF f, U
<1>3. IsFiniteSet(U) /\ Cardinality(U) = Cardinality(S)
    BY <1>2, FS_Bijection
<1>. QED  BY <1>3 DEF U, Shifted

(* A text has finitely many tokens, no more than characters. *)
LEMMA CountType ==
    ASSUME NEW text \in Seq(Char)
    PROVE  /\ IsFiniteSet(Tokens(text)) /\ Cardinality(Tokens(text)) = CountTokens(text)
           /\ CountTokens(text) \in Nat /\ CountTokens(text) <= Len(text)
<1>1. Len(text) \in Nat
    OBVIOUS
<1>2. IsFiniteSet(1 .. Len(text)) /\ Cardinality(1 .. Len(text)) = Len(text)
    BY <1>1, FS_Interval
<1>3. Tokens(text) \in SUBSET (1 .. Len(text))
    BY DEF Tokens
<1>4. IsFiniteSet(Tokens(text)) /\ Cardinality(Tokens(text)) <= Len(text)
    BY <1>2, <1>3, FS_Subset
<1>5. Cardinality(Tokens(text)) \in Nat
    BY <1>4, FS_CardinalityType
<1>. QED  BY <1>4, <1>5 DEF CountTokens, Tokens

(* Texts that are apart count what they count by themselves. *)
LEMMA CountConcat ==
    ASSUME NEW a \in Seq(Char), NEW b \in Seq(Char), Apart(a, b)
    PROVE  CountTokens(a \o b) = CountTokens(a) + CountTokens(b)
<1>. DEFINE t == a \o b
            l == Len(a)
            A == Tokens(a)
            B == Tokens(b)
            U == Shifted(B, l)
<1>1. t \in Seq(Char) /\ Len(t) = l + Len(b) /\ l \in Nat /\ Len(b) \in Nat
    OBVIOUS
<1>2. \A i \in 1 .. l : TokenAt(t, i) <=> TokenAt(a, i)
    BY TokenBefore
<1>3. \A i \in 1 .. Len(b) : TokenAt(t, l + i) <=> TokenAt(b, i)
    BY TokenBehind
<1>. HIDE DEF t, l
<1>4. Tokens(t) = A \cup U
  <2>1. A \subseteq Tokens(t)
    BY <1>1, <1>2 DEF Tokens, l
  <2>2. U \subseteq Tokens(t)
    BY <1>1, <1>3 DEF Tokens, Shifted
  <2>3. ASSUME NEW i \in Tokens(t) PROVE i \in A \cup U
    <3>1. CASE i <= l
      BY <1>1, <1>2, <3>1 DEF Tokens, l
    <3>2. CASE i > l
      <4>1. i - l \in 1 .. Len(b) /\ l + (i - l) = i /\ TokenAt(t, i)
        BY <1>1, <3>2 DEF Tokens
      <4>2. i - l \in B
        BY <1>3, <4>1 DEF Tokens
      <4>. QED  BY <4>1, <4>2 DEF Shifted
    <3>. QED  BY <1>1, <3>1, <3>2 DEF Tokens
  <2>. QED  BY <2>1, <2>2, <2>3
<1>5. A \cap U = {}
  <2>1. \A i \in A : i <= l
    BY DEF Tokens, l
  <2>2. \A u \in U : u > l
    BY <1>1 DEF Tokens, Shifted
  <2>3. \A i \in A : i \in Int
    BY DEF Tokens
  <2>. QED  BY <1>1, <2>1, <2>2, <2>3
<1>6. /\ IsFiniteSet(A) /\ Cardinality(A) = CountTokens(a) /\ CountTokens(a) \in Nat
      /\ IsFiniteSet(B) /\ Cardinality(B) = CountTokens(b) /\ CountTokens(b) \in Nat
      /\ Cardinality(Tokens(t)) = CountTokens(t)
    BY <1>1, CountType
<1>7. IsFiniteSet(U) /\ Cardinality(U) = Cardinality(B)
  <2>1. B \subseteq Int
    BY DEF Tokens
  <2>2. IsFiniteSet(B) /\ l \in Int
    BY <1>1, <1>6
  <2>. HIDE DEF B
  <2>. QED  BY <2>1, <2>2, ShiftedSize
<1>. HIDE DEF A, B, U
<1>8. Cardinality(A \cup U) = Cardinality(A) + Cardinality(U) - Cardinality(A \cap U)
    BY <1>6, <1>7, FS_Union
<1>9. Cardinality(A \cap U) = 0
    BY <1>5, FS_EmptySet
<1>. QED  BY <1>4, <1>6, <1>7, <1>8, <1>9 DEF t

(* Ideographs and marks are a token each. *)
LEMMA CountOfInk ==
    ASSUME NEW text \in Seq(Char), \A i \in 1 .. Len(text) : text[i] \in {"c", "p"}
    PROVE  CountTokens(text) = Len(text)
<1>1. Tokens(text) = 1 .. Len(text) /\ Len(text) \in Nat
    BY DEF Tokens, TokenAt
<1>2. Cardinality(1 .. Len(text)) = Len(text)
  <2>. DEFINE n == Len(text)
  <2>1. n \in Int /\ n >= 0
    BY <1>1
  <2>. HIDE DEF n
  <2>2. Cardinality(1 .. n) = n
    BY <2>1, FS_Interval
  <2>. QED  BY <2>2 DEF n
<1>. QED  BY <1>1, <1>2, CountType

(* White space is no token. *)
LEMMA CountOfBlank ==
    ASSUME NEW text \in Seq(Char), \A i \in 1 .. Len(text) : text[i] = "s"
    PROVE  CountTokens(text) = 0
<1>1. Tokens(text) = {}
    BY DEF Tokens, TokenAt
<1>. QED  BY <1>1, CountType, FS_EmptySet

(* Nothing has no token. *)
LEMMA CountOfNothing ==
    CountTokens(<<>>) = 0
<1>1. <<>> \in Seq(Char) /\ \A i \in 1 .. Len(<<>>) : <<>>[i] = "s"
    OBVIOUS
<1>. QED  BY <1>1, CountOfBlank

(* White space around a text does not count, and nothing else is stripped. *)
LEMMA StripOf ==
    ASSUME NEW text \in Seq(Char)
    PROVE  /\ Strip(text) \in Seq(Char)
           /\ CountTokens(Strip(text)) = CountTokens(text)
           /\ \A i \in 1 .. Len(Strip(text)) : \E j \in 1 .. Len(text) : Strip(text)[i] = text[j]
           /\ text # <<>> /\ text[Len(text)] # "s" =>
                 Strip(text) # <<>> /\ Strip(text)[Len(Strip(text))] = text[Len(text)]
           /\ (\A i \in 1 .. Len(text) : text[i] # "s") => Strip(text) = text
<1>. DEFINE ink == {i \in 1 .. Len(text) : text[i] # "s"}
            l == Len(text)
            s == Strip(text)
<1>1. l \in Nat /\ \A i \in 1 .. l : text[i] \in Char
    OBVIOUS
<1>. SUFFICES /\ s \in Seq(Char)
              /\ CountTokens(s) = CountTokens(text)
              /\ \A i \in 1 .. Len(s) : \E j \in 1 .. l : s[i] = text[j]
              /\ text # <<>> /\ text[l] # "s" => s # <<>> /\ s[Len(s)] = text[l]
              /\ (\A i \in 1 .. l : text[i] # "s") => s = text
    OBVIOUS
<1>2. CASE ink = {}
  <2>1. s = <<>>
    BY <1>2 DEF Strip
  <2>2. \A i \in 1 .. Len(text) : text[i] = "s"
    BY <1>2
  <2>3. CountTokens(text) = 0 /\ CountTokens(<<>>) = 0
    BY <2>2, CountOfBlank, CountOfNothing
  <2>4. text # <<>> => l \in 1 .. l
    BY <1>1
  <2>. HIDE DEF s
  <2>5. s \in Seq(Char) /\ Len(s) = 0
    BY <2>1
  <2>6. (\A i \in 1 .. l : text[i] # "s") => s = text
    <3>. SUFFICES ASSUME \A i \in 1 .. l : text[i] # "s" PROVE text = <<>>
      BY <2>1
    <3>. QED  BY <2>2, <2>4
  <2>. QED  BY <2>1, <2>2, <2>3, <2>4, <2>5, <2>6
<1>3. CASE ink # {}
  <2>. DEFINE m == Min(ink)
              n == Max(ink)
              a == SubSeq(text, 1, m - 1)
              b == SubSeq(text, m, n)
              c == SubSeq(text, n + 1, l)
  <2>1. s = b
    BY <1>3 DEF Strip
  <2>2. m \in ink /\ \A y \in ink : m <= y
    <3>1. ink \in SUBSET Nat
      OBVIOUS
    <3>. HIDE DEF ink
    <3>. QED  BY <1>3, <3>1, MinOf
  <2>3. n \in ink /\ \A y \in ink : y <= n
    <3>1. ink \in SUBSET (1 .. l)
      OBVIOUS
    <3>. HIDE DEF ink, l
    <3>. QED  BY <1>1, <1>3, <3>1, MaxOf
  <2>. HIDE DEF m, n, s
  <2>4. m \in 1 .. l /\ n \in m .. l /\ text[m] # "s" /\ text[n] # "s"
    BY <2>2, <2>3
  <2>5. \A i \in 1 .. l : (i < m \/ i > n) => text[i] = "s"
    BY <2>2, <2>3, <2>4
  <2>6. a \in Seq(Char) /\ Len(a) = m - 1 /\ \A i \in 1 .. m - 1 : a[i] = text[i]
    BY <2>4
  <2>7. b \in Seq(Char) /\ Len(b) = n - m + 1 /\ \A i \in 1 .. n - m + 1 : b[i] = text[m + i - 1]
    BY <2>4
  <2>8. c \in Seq(Char) /\ Len(c) = l - n /\ \A i \in 1 .. l - n : c[i] = text[n + i]
    BY <2>4
  <2>9. CountTokens(a) = 0
    <3>1. \A i \in 1 .. Len(a) : a[i] = "s"
      BY <2>4, <2>5, <2>6
    <3>. HIDE DEF a
    <3>. QED  BY <2>6, <3>1, CountOfBlank
  <2>10. CountTokens(c) = 0
    <3>1. ASSUME NEW i \in 1 .. Len(c) PROVE c[i] = "s"
      <4>1. i \in 1 .. l - n /\ n + i \in 1 .. l /\ n + i > n
        BY <1>1, <2>4, <2>8
      <4>. QED  BY <2>5, <2>8, <4>1
    <3>. HIDE DEF c
    <3>. QED  BY <2>8, <3>1, CountOfBlank
  <2>11. text = a \o (b \o c)
    <3>1. m \in 1 .. l + 1 /\ n \in m - 1 .. l /\ l \in n .. l
             /\ 1 \in 1 .. l + 1 /\ m - 1 \in 1 - 1 .. l /\ l \in m - 1 .. l /\ (m - 1) + 1 = m
      BY <1>1, <2>4
    <3>2. b \o c = SubSeq(text, m, l)
      BY <3>1, ConcatAdjacentSubSeq
    <3>3. a \o SubSeq(text, (m - 1) + 1, l) = SubSeq(text, 1, l)
      BY <3>1, ConcatAdjacentSubSeq
    <3>4. SubSeq(text, 1, l) = text
      BY SubSeqFull
    <3>. HIDE DEF a, b, c, l
    <3>. QED  BY <3>1, <3>2, <3>3, <3>4
  <2>12. CountTokens(text) = CountTokens(b)
    <3>1. Apart(b, c)
      <4>1. c # <<>> => c[1] = "s"
        <5>1. Len(c) # 0 => 1 \in 1 .. l - n /\ n + 1 \in 1 .. l
          BY <1>1, <2>4, <2>8
        <5>2. c # <<>> => Len(c) # 0
          BY <2>8
        <5>. QED  BY <2>4, <2>5, <2>8, <5>1, <5>2
      <4>. QED  BY <4>1 DEF Apart
    <3>2. Apart(a, b \o c)
      <4>1. a # <<>> => a[Len(a)] = "s"
        <5>1. Len(a) # 0 => Len(a) \in 1 .. m - 1 /\ m - 1 \in 1 .. l
          BY <1>1, <2>4, <2>6
        <5>2. a # <<>> => Len(a) # 0
          BY <2>6
        <5>. QED  BY <2>4, <2>5, <2>6, <5>1, <5>2
      <4>. QED  BY <4>1 DEF Apart
    <3>. HIDE DEF a, b, c
    <3>3. CountTokens(b \o c) = CountTokens(b) + CountTokens(c)
      BY <2>7, <2>8, <3>1, CountConcat
    <3>4. b \o c \in Seq(Char)
      BY <2>7, <2>8
    <3>5. CountTokens(a \o (b \o c)) = CountTokens(a) + CountTokens(b \o c)
      BY <2>6, <3>2, <3>4, CountConcat
    <3>6. CountTokens(b) \in Nat
      BY <2>7, CountType
    <3>. QED  BY <2>9, <2>10, <2>11, <3>3, <3>5, <3>6
  <2>13. \A i \in 1 .. Len(b) : \E j \in 1 .. l : b[i] = text[j]
    <3>. SUFFICES ASSUME NEW i \in 1 .. Len(b) PROVE m + i - 1 \in 1 .. l /\ b[i] = text[m + i - 1]
      OBVIOUS
    <3>. QED  BY <1>1, <2>4, <2>7
  <2>14. text # <<>> /\ text[l] # "s" => b # <<>> /\ b[Len(b)] = text[l]
    <3>. SUFFICES ASSUME text # <<>>, text[l] # "s" PROVE b # <<>> /\ b[Len(b)] = text[l]
      OBVIOUS
    <3>1. n = l /\ m \in Nat /\ n \in Nat
      <4>1. l \in 1 .. l
        BY <1>1
      <4>2. ~(l > n)
        BY <2>5, <4>1
      <4>. QED  BY <2>4, <4>2
    <3>2. Len(b) \in 1 .. n - m + 1 /\ m + Len(b) - 1 = l
      BY <2>4, <2>7, <3>1
    <3>. QED  BY <2>7, <3>2
  <2>15. (\A i \in 1 .. l : text[i] # "s") => b = text
    <3>. SUFFICES ASSUME \A i \in 1 .. l : text[i] # "s" PROVE b = text
      OBVIOUS
    <3>1. 1 \in 1 .. l /\ l \in 1 .. l
      BY <2>4
    <3>2. m = 1 /\ n = l
      <4>1. ~(1 < m) /\ ~(l > n)
        BY <2>5, <3>1
      <4>. QED  BY <2>4, <4>1
    <3>. QED  BY <3>2, SubSeqFull
  <2>. HIDE DEF b
  <2>. QED  BY <2>1, <2>7, <2>12, <2>13, <2>14, <2>15
<1>. QED  BY <1>2, <1>3

-----------------------------------------------------------------------------
(* Cutting a text. *)

(* A recursion that only goes down has a value at every number. *)
LEMMA DescentExists ==
    ASSUME NEW n \in Nat, NEW stop, NEW down, Downwards(n, stop, down)
    PROVE  \E f : Falls(f, n, stop, down)
<1>. USE DEF Downwards
<1>. DEFINE Good(f, m) == f = [k \in 0 .. m |-> IF k \in stop THEN k ELSE f[down[k]]]
            T == {m \in 0 .. n : \E f : Good(f, m)}
<1>1. 0 \in T
  <2>1. Good([k \in 0 .. 0 |-> 0], 0)
    OBVIOUS
  <2>. HIDE DEF Good
  <2>. QED  BY <2>1
<1>2. \A m \in 0 .. n - 1 : m \in T => m + 1 \in T
  <2>. SUFFICES ASSUME NEW m \in 0 .. n - 1, m \in T
                PROVE  m + 1 \in T
    OBVIOUS
  <2>1. PICK f : Good(f, m)
    OBVIOUS
  <2>. DEFINE g == [k \in 0 .. m + 1 |-> IF k = m + 1 THEN (IF k \in stop THEN k ELSE f[down[k]]) ELSE f[k]]
  <2>2. ASSUME NEW k \in 0 .. m + 1
        PROVE  g[k] = IF k \in stop THEN k ELSE g[down[k]]
    <3>1. k \notin stop => down[k] \in 0 .. k - 1 /\ down[k] \in 0 .. m /\ down[k] # m + 1
      <4>. SUFFICES ASSUME k \notin stop PROVE down[k] \in 0 .. k - 1
        OBVIOUS
      <4>1. k # 0
        OBVIOUS
      <4>2. k \in 1 .. n
        BY <4>1
      <4>. QED  BY <4>2
    <3>2. k \notin stop => g[down[k]] = f[down[k]]
      BY <3>1
    <3>3. CASE k = m + 1
      BY <3>2, <3>3
    <3>4. CASE k # m + 1
      <4>1. k \in 0 .. m
        BY <3>4
      <4>2. f[k] = IF k \in stop THEN k ELSE f[down[k]]
        BY <2>1, <4>1
      <4>3. g[k] = f[k]
        BY <4>1
      <4>. QED  BY <4>2, <4>3, <3>2
    <3>. QED  BY <3>3, <3>4
  <2>3. g = [k \in 0 .. m + 1 |-> g[k]]
    OBVIOUS
  <2>. HIDE DEF g
  <2>4. Good(g, m + 1)
    BY <2>2, <2>3
  <2>. HIDE DEF Good
  <2>. QED  BY <2>4
<1>3. n \in T
  <2>. HIDE DEF T
  <2>1. \A k \in 0 .. n : k \in T
    BY <1>1, <1>2, UpTo
  <2>. QED  BY <2>1
<1>. QED  BY <1>3 DEF Falls

(* It ends at a number where it stops, no higher than where it started. *)
LEMMA DescentEnds ==
    ASSUME NEW n \in Nat, NEW stop, NEW down, Downwards(n, stop, down),
           NEW f, Descent(f, n, stop, down)
    PROVE  /\ \A k \in 0 .. n : f[k] \in stop /\ f[k] \in 0 .. k
           /\ 1 \in stop /\ (\A k \in 2 .. n : k \notin stop => down[k] # 0) =>
                 \A k \in 1 .. n : f[k] # 0
<1>. USE DEF Downwards
<1>. DEFINE P(k) == f[k] \in stop /\ f[k] \in 0 .. k
            T == {m \in 0 .. n : \A k \in 0 .. m : P(k)}
            U == {m \in 0 .. n : \A k \in 1 .. m : f[k] # 0}
<1>1. \A k \in 0 .. n : k \in stop => P(k)
    BY DEF Descent
<1>2. 0 \in T
    BY <1>1
<1>3. \A m \in 0 .. n - 1 : m \in T => m + 1 \in T
  <2>. SUFFICES ASSUME NEW m \in 0 .. n - 1, m \in T
                PROVE  P(m + 1)
    OBVIOUS
  <2>1. CASE m + 1 \in stop
    BY <1>1, <2>1
  <2>2. CASE m + 1 \notin stop
    <3>1. m + 1 \in 1 .. n
      OBVIOUS
    <3>2. down[m + 1] \in 0 .. m
      BY <2>2, <3>1
    <3>3. f[m + 1] = f[down[m + 1]]
      BY <2>2 DEF Descent
    <3>4. P(down[m + 1])
      BY <3>2
    <3>. QED  BY <3>2, <3>3, <3>4
  <2>. QED  BY <2>1, <2>2
<1>4. \A k \in 0 .. n : P(k)
  <2>. HIDE DEF T
  <2>1. \A k \in 0 .. n : k \in T
    BY <1>2, <1>3, UpTo
  <2>2. n \in T
    BY <2>1
  <2>. QED  BY <2>2 DEF T
<1>5. ASSUME 1 \in stop, \A k \in 2 .. n : k \notin stop => down[k] # 0
      PROVE  \A k \in 1 .. n : f[k] # 0
  <2>1. 0 \in U
    OBVIOUS
  <2>2. \A m \in 0 .. n - 1 : m \in U => m + 1 \in U
    <3>. SUFFICES ASSUME NEW m \in 0 .. n - 1, m \in U
                  PROVE  f[m + 1] # 0
      OBVIOUS
    <3>0. m + 1 \in 1 .. n /\ m + 1 \in 0 .. n
      OBVIOUS
    <3>1. CASE m + 1 \in stop
      BY <3>0, <3>1 DEF Descent
    <3>2. CASE m + 1 \notin stop
      <4>1. m + 1 \in 2 .. n
        BY <1>5, <3>2
      <4>2. down[m + 1] \in 0 .. m /\ down[m + 1] # 0
        BY <1>5, <3>0, <3>2, <4>1
      <4>3. down[m + 1] \in 1 .. m
        BY <4>2
      <4>4. f[m + 1] = f[down[m + 1]]
        BY <3>0, <3>2 DEF Descent
      <4>. QED  BY <4>3, <4>4
    <3>. QED  BY <3>1, <3>2
  <2>. HIDE DEF U
  <2>3. \A k \in 0 .. n : k \in U
    BY <2>1, <2>2, UpTo
  <2>4. n \in U
    BY <2>3
  <2>. QED  BY <2>4 DEF U
<1>. QED  BY <1>4, <1>5

(* Max of one and a number. *)
LEMMA AtLeastOne ==
    ASSUME NEW q \in Nat
    PROVE  Max({1, q}) = IF 1 <= q THEN q ELSE 1
<1>1. (IF 1 <= q THEN q ELSE 1) \in {1, q} /\ \A y \in {1, q} : (IF 1 <= q THEN q ELSE 1) >= y
    OBVIOUS
<1>. QED  BY <1>1 DEF Max

(* A part of n characters, from either end. *)
LEMMA PartOf ==
    ASSUME NEW text \in Seq(Char), NEW n \in 0 .. Len(text), NEW keep
    PROVE  /\ Part(text, n, keep) \in Seq(Char) /\ Len(Part(text, n, keep)) = n
           /\ \A i \in 1 .. n : Part(text, n, keep)[i] =
                 IF keep = "end" THEN text[Len(text) - n + i] ELSE text[i]
<1>1. Len(text) \in Nat
    OBVIOUS
<1>2. CASE keep = "end"
  <2>. DEFINE p == SubSeq(text, Len(text) - n + 1, Len(text))
              a == Len(text) - n + 1
              b == Len(text)
  <2>1. a \in Int /\ b \in Int /\ \A i \in a .. b : text[i] \in Char
    BY <1>1
  <2>2. b - a + 1 = n /\ (a <= b \/ n = 0)
    BY <1>1
  <2>. HIDE DEF a, b
  <2>3. /\ SubSeq(text, a, b) \in Seq(Char)
        /\ Len(SubSeq(text, a, b)) = IF a <= b THEN b - a + 1 ELSE 0
        /\ \A i \in 1 .. b - a + 1 : SubSeq(text, a, b)[i] = text[a + i - 1]
    BY <2>1, SubSeqProperties
  <2>4. Len(SubSeq(text, a, b)) = n /\ \A i \in 1 .. n : SubSeq(text, a, b)[i] = text[a + i - 1]
    BY <2>1, <2>2, <2>3
  <2>5. \A i \in 1 .. n : a + i - 1 = Len(text) - n + i
    BY <1>1 DEF a
  <2>6. Part(text, n, keep) = SubSeq(text, a, b)
    BY <1>2 DEF Part, a, b
  <2>. QED  BY <1>2, <2>3, <2>4, <2>5, <2>6
<1>3. CASE keep # "end"
  <2>1. Part(text, n, keep) = SubSeq(text, 1, n)
    BY <1>3 DEF Part
  <2>. QED  BY <1>3, <2>1
<1>. QED  BY <1>2, <1>3

(* The first guess is a length of the text, and the budget where every
   character is a token.                                                   *)
LEMMA GuessOf ==
    ASSUME NEW text \in Seq(Char), NEW max \in Nat, CountTokens(text) > max
    PROVE  /\ Guess(text, max) \in 1 .. Len(text)
           /\ max > 0 /\ CountTokens(text) = Len(text) => Guess(text, max) = max
<1>. DEFINE l == Len(text)
            t == CountTokens(text)
            q == (l * max) \div t
<1>1. l \in Nat /\ t \in Nat /\ t > 0 /\ t <= l /\ max < t
  <2>1. t \in Nat /\ t <= l /\ l \in Nat
    BY CountType
  <2>. QED  BY <2>1
<1>. HIDE DEF l, t
<1>2. q \in Nat /\ t * q <= l * max
  <2>. DEFINE x == l * max
  <2>1. x \in Nat
    BY <1>1
  <2>. HIDE DEF x
  <2>2. x \div t \in Nat /\ t * (x \div t) <= x
    BY <1>1, <2>1
  <2>. QED  BY <2>2 DEF x
<1>3. q <= l
  <2>. SUFFICES ASSUME q > l PROVE FALSE
    BY <1>1, <1>2
  <2>. HIDE DEF q
  <2>1. t * q >= t * l
    BY <1>1, <1>2
  <2>2. t * l > max * l
    BY <1>1
  <2>3. max * l = l * max
    BY <1>1
  <2>. QED  BY <1>1, <1>2, <2>1, <2>2, <2>3
<1>4. Max({1, q}) = IF 1 <= q THEN q ELSE 1
    BY <1>2, AtLeastOne
<1>5. t = l => q = max
  <2>. SUFFICES ASSUME t = l PROVE (l * max) \div l = max
    OBVIOUS
  <2>. QED  BY <1>1
<1>6. Guess(text, max) = Max({1, q})
    BY DEF Guess, l, t
<1>. HIDE DEF q
<1>. QED  BY <1>1, <1>2, <1>3, <1>4, <1>5, <1>6 DEF l, t

(* What a text is cut to. *)
LEMMA TruncateOf ==
    ASSUME NEW text \in Seq(Char), NEW max \in Int, NEW keep
    PROVE  /\ max <= 0 => TruncateTokens(text, max, keep) = <<>>
           /\ max > 0 /\ CountTokens(text) <= max => TruncateTokens(text, max, keep) = text
           /\ max > 0 /\ CountTokens(text) > max =>
                \E n \in 0 .. Len(text) :
                   /\ TruncateTokens(text, max, keep) = Strip(Part(text, n, keep))
                   /\ n = 0 \/ CountTokens(Part(text, n, keep)) <= max
                   /\ CountTokens(Part(text, Guess(text, max), keep)) <= max => n = Guess(text, max)
                   /\ CountTokens(Part(text, 1, keep)) <= max => n # 0
<1>. DEFINE l == Len(text)
            fits(k) == k = 0 \/ CountTokens(Part(text, k, keep)) <= max
            stop == {k \in 0 .. l : fits(k)}
            down == [k \in 0 .. l |-> k - Max({1, k \div 10})]
            Shrink == CHOOSE f : f = [k \in 0 .. l |-> IF k = 0 \/ CountTokens(Part(text, k, keep)) <= max
                                                       THEN k ELSE f[k - Max({1, k \div 10})]]
            g == Guess(text, max)
<1>. SUFFICES ASSUME max > 0, CountTokens(text) > max
              PROVE  \E n \in 0 .. l :
                       /\ TruncateTokens(text, max, keep) = Strip(Part(text, n, keep))
                       /\ fits(n)
                       /\ CountTokens(Part(text, g, keep)) <= max => n = g
                       /\ CountTokens(Part(text, 1, keep)) <= max => n # 0
  <2>1. max <= 0 => TruncateTokens(text, max, keep) = <<>>
    BY DEF TruncateTokens
  <2>2. max > 0 /\ CountTokens(text) <= max => TruncateTokens(text, max, keep) = text
    BY DEF TruncateTokens
  <2>. QED  BY <2>1, <2>2
<1>1. l \in Nat /\ g \in 1 .. l /\ CountTokens(text) \in Nat
    BY CountType, GuessOf
<1>2. TruncateTokens(text, max, keep) = Strip(Part(text, Shrink[g], keep))
  <2>1. ~(CountTokens(text) <= max) /\ ~(max <= 0)
    BY <1>1
  <2>. QED  BY <2>1 DEF TruncateTokens, Guess
<1>. HIDE DEF g, l
<1>3. 0 \in stop /\ \A k \in 1 .. l : down[k] \in 0 .. k - 1
  <2>1. 0 \in stop
    BY <1>1
  <2>2. ASSUME NEW k \in 1 .. l PROVE down[k] \in 0 .. k - 1 /\ (k >= 2 => down[k] # 0)
    <3>1. k \div 10 \in Nat /\ k \div 10 <= k /\ (k >= 2 => k \div 10 < k) /\ k \in 0 .. l
      BY <1>1
    <3>2. Max({1, k \div 10}) = IF 1 <= k \div 10 THEN k \div 10 ELSE 1
      BY <3>1, AtLeastOne
    <3>. HIDE DEF stop
    <3>3. down[k] = k - Max({1, k \div 10})
      BY <3>1
    <3>. HIDE DEF down
    <3>. QED  BY <3>1, <3>2, <3>3
  <2>. QED  BY <2>1, <2>2
<1>4. \A k \in 2 .. l : down[k] # 0
  <2>. SUFFICES ASSUME NEW k \in 2 .. l PROVE down[k] # 0
    OBVIOUS
  <2>1. k \div 10 \in Nat /\ k \div 10 < k /\ k \in 0 .. l
    BY <1>1
  <2>2. Max({1, k \div 10}) = IF 1 <= k \div 10 THEN k \div 10 ELSE 1
    BY <2>1, AtLeastOne
  <2>3. down[k] = k - Max({1, k \div 10})
    BY <2>1
  <2>. HIDE DEF down
  <2>. QED  BY <2>1, <2>2, <2>3
<1>5. \E f : f = [k \in 0 .. l |-> IF k = 0 \/ CountTokens(Part(text, k, keep)) <= max
                                    THEN k ELSE f[k - Max({1, k \div 10})]]
  <2>0. Downwards(l, stop, down)
    <3>. HIDE DEF stop, down
    <3>. QED  BY <1>3 DEF Downwards
  <2>1. \E f : f = [k \in 0 .. l |-> IF k \in stop THEN k ELSE f[down[k]]]
    <3>. HIDE DEF stop, down
    <3>1. \E f : Falls(f, l, stop, down)
      BY <1>1, <2>0, DescentExists
    <3>. QED  BY <3>1 DEF Falls
  <2>2. \A k \in 0 .. l : (k \in stop <=> fits(k)) /\ down[k] = k - Max({1, k \div 10})
    OBVIOUS
  <2>. HIDE DEF stop, down
  <2>3. PICK f : f = [k \in 0 .. l |-> IF k \in stop THEN k ELSE f[down[k]]]
    BY <2>1
  <2>4. ASSUME NEW k \in 0 .. l
        PROVE  f[k] = IF fits(k) THEN k ELSE f[k - Max({1, k \div 10})]
    <3>1. f[k] = IF k \in stop THEN k ELSE f[down[k]]
      BY <2>3
    <3>2. (k \in stop <=> fits(k)) /\ down[k] = k - Max({1, k \div 10})
      BY <2>2
    <3>. HIDE DEF fits
    <3>. QED  BY <3>1, <3>2
  <2>5. f = [k \in 0 .. l |-> f[k]]
    BY <2>3
  <2>6. f = [k \in 0 .. l |-> IF fits(k) THEN k ELSE f[k - Max({1, k \div 10})]]
    <3>. HIDE DEF fits
    <3>. QED  BY <2>4, <2>5
  <2>. QED  BY <2>6
<1>6. Shrink = [k \in 0 .. l |-> IF k = 0 \/ CountTokens(Part(text, k, keep)) <= max
                                    THEN k ELSE Shrink[k - Max({1, k \div 10})]]
    BY <1>5
<1>. HIDE DEF Shrink
<1>7. Descent(Shrink, l, stop, down)
  <2>1. \A k \in 0 .. l : (k \in stop <=> fits(k)) /\ down[k] = k - Max({1, k \div 10})
    OBVIOUS
  <2>2. \A k \in 0 .. l : Shrink[k] = IF k = 0 \/ CountTokens(Part(text, k, keep)) <= max
                                    THEN k ELSE Shrink[k - Max({1, k \div 10})]
    BY <1>6
  <2>. HIDE DEF stop, down
  <2>. QED  BY <2>1, <2>2 DEF Descent
<1>8. (\A k \in 0 .. l : k \in stop <=> fits(k)) /\ stop \subseteq 0 .. l
    OBVIOUS
<1>. HIDE DEF stop, down
<1>9. /\ \A k \in 0 .. l : Shrink[k] \in stop /\ Shrink[k] \in 0 .. k
      /\ 1 \in stop => \A k \in 1 .. l : Shrink[k] # 0
  <2>1. Downwards(l, stop, down) /\ \A k \in 2 .. l : k \notin stop => down[k] # 0
    BY <1>3, <1>4 DEF Downwards
  <2>. QED  BY <1>1, <1>7, <2>1, DescentEnds
<1>10. g \in 0 .. l /\ 1 \in 0 .. l
    BY <1>1
<1>11. fits(g) => Shrink[g] = g
    BY <1>7, <1>8, <1>10 DEF Descent
<1>12. fits(1) => Shrink[g] # 0
    BY <1>1, <1>8, <1>9, <1>10
<1>13. Shrink[g] \in 0 .. l /\ fits(Shrink[g])
    BY <1>8, <1>9, <1>10
<1>. QED  BY <1>2, <1>11, <1>12, <1>13

(* A cut text fits. *)
LEMMA TruncateType ==
    ASSUME NEW text \in Seq(Char), NEW max \in Int, NEW keep
    PROVE  /\ TruncateTokens(text, max, keep) \in Seq(Char)
           /\ max >= 0 => CountTokens(TruncateTokens(text, max, keep)) <= max
           /\ CountTokens(TruncateTokens(text, max, keep)) \in Nat
<1>. DEFINE r == TruncateTokens(text, max, keep)
<1>. SUFFICES r \in Seq(Char) /\ (max >= 0 => CountTokens(r) <= max)
  <2>. HIDE DEF r
  <2>. QED  BY CountType DEF r
<1>1. CASE max <= 0
  <2>1. r = <<>>
    BY <1>1, TruncateOf
  <2>. HIDE DEF r
  <2>. QED  BY <2>1, CountOfNothing
<1>2. CASE max > 0 /\ CountTokens(text) <= max
  <2>1. r = text
    BY <1>2, TruncateOf
  <2>. HIDE DEF r
  <2>. QED  BY <1>2, <2>1
<1>3. CASE max > 0 /\ CountTokens(text) > max
  <2>1. PICK n \in 0 .. Len(text) : /\ r = Strip(Part(text, n, keep))
                                    /\ n = 0 \/ CountTokens(Part(text, n, keep)) <= max
    BY <1>3, TruncateOf
  <2>. DEFINE p == Part(text, n, keep)
  <2>2. p \in Seq(Char) /\ Len(p) = n
    BY PartOf
  <2>. HIDE DEF p
  <2>3. Strip(p) \in Seq(Char) /\ CountTokens(Strip(p)) = CountTokens(p)
    BY <2>2, StripOf
  <2>4. CountTokens(p) \in Nat /\ CountTokens(p) <= n
    BY <2>2, CountType
  <2>. HIDE DEF r
  <2>. QED  BY <1>3, <2>1, <2>3, <2>4 DEF p
<1>4. CountTokens(text) \in Nat
    BY CountType
<1>. QED  BY <1>1, <1>2, <1>3, <1>4

(* A cut text is an end of the text, fits, and is the text if that fits
   (token_budget.py, 77-116).                                              *)
LEMMA TruncateIsSound ==
    ASSUME NEW text \in Seq(Char), NEW max \in Nat, NEW keep
    PROVE  CutWell(TruncateTokens(text, max, keep), text, max, keep)
<1>. DEFINE r == TruncateTokens(text, max, keep)
<1>1. CountTokens(r) <= max
    BY TruncateType
<1>2. max > 0 /\ CountTokens(text) <= max => r = text
    BY TruncateOf
<1>3. CASE max <= 0
  <2>1. r = <<>>
    BY <1>3, TruncateOf
  <2>2. 0 \in 0 .. Len(text) /\ Part(text, 0, keep) \in Seq(Char) /\ Len(Part(text, 0, keep)) = 0
    BY PartOf
  <2>3. Part(text, 0, keep) = <<>>
    BY <2>2
  <2>4. Strip(<<>>) = <<>>
    <3>1. <<>> \in Seq(Char) /\ \A i \in 1 .. Len(<<>>) : <<>>[i] # "s"
      OBVIOUS
    <3>. QED  BY <3>1, StripOf
  <2>5. \E n \in 0 .. Len(text) : r = Strip(Part(text, n, keep))
    BY <2>1, <2>2, <2>3, <2>4
  <2>. HIDE DEF r
  <2>. QED  BY <1>1, <1>2, <2>5 DEF CutWell, r
<1>4. CASE max > 0 /\ CountTokens(text) > max
  <2>1. \E n \in 0 .. Len(text) : r = Strip(Part(text, n, keep))
    BY <1>4, TruncateOf
  <2>. HIDE DEF r
  <2>. QED  BY <1>1, <1>2, <2>1 DEF CutWell, r
<1>5. CASE max > 0 /\ CountTokens(text) <= max
  <2>. HIDE DEF r
  <2>. QED  BY <1>1, <1>2, <1>5 DEF CutWell, r
<1>6. CountTokens(text) \in Nat
    BY CountType
<1>. QED  BY <1>3, <1>4, <1>5, <1>6

(* Of a text of marks just its end is left. *)
LEMMA TruncateMarks ==
    ASSUME NEW text \in Seq({"p"}), NEW max \in Nat, max > 0, Len(text) > max
    PROVE  LET r == TruncateTokens(text, max, "end")
           IN  r \in Seq({"p"}) /\ Len(r) = max /\ CountTokens(r) = max
<1>. DEFINE p == Part(text, max, "end")
<1>1. text \in Seq(Char) /\ Len(text) \in Nat /\ \A i \in 1 .. Len(text) : text[i] = "p"
    BY DEF Char
<1>2. CountTokens(text) = Len(text)
    BY <1>1, CountOfInk
<1>3. Guess(text, max) = max /\ max \in 0 .. Len(text)
    BY <1>1, <1>2, GuessOf
<1>4. p \in Seq(Char) /\ Len(p) = max /\ \A i \in 1 .. max : p[i] = "p"
  <2>1. p \in Seq(Char) /\ Len(p) = max /\ \A i \in 1 .. max : p[i] = text[Len(text) - max + i]
    BY <1>1, <1>3, PartOf
  <2>2. \A i \in 1 .. max : Len(text) - max + i \in 1 .. Len(text)
    BY <1>1, <1>3
  <2>. QED  BY <1>1, <2>1, <2>2
<1>5. CountTokens(p) = max /\ Strip(p) = p
  <2>. HIDE DEF p
  <2>1. CountTokens(p) = max
    BY <1>4, CountOfInk
  <2>2. Strip(p) = p
    BY <1>4, StripOf
  <2>. QED  BY <2>1, <2>2
<1>6. TruncateTokens(text, max, "end") = p
  <2>1. \E n \in 0 .. Len(text) :
                   /\ TruncateTokens(text, max, "end") = Strip(Part(text, n, "end"))
                   /\ CountTokens(Part(text, Guess(text, max), "end")) <= max => n = Guess(text, max)
    BY <1>1, <1>2, TruncateOf
  <2>. QED  BY <1>3, <1>5, <2>1
<1>. HIDE DEF p
<1>7. p \in Seq({"p"})
    BY <1>4
<1>. QED  BY <1>4, <1>5, <1>6, <1>7

(* The end of a text that ends with a letter stays. *)
LEMMA TruncateKeepsEnd ==
    ASSUME NEW text \in Seq(Char), text # <<>>, text[Len(text)] = "w", NEW max \in Nat, max > 0
    PROVE  LET r == TruncateTokens(text, max, "end")
           IN  r # <<>> /\ r[Len(r)] = "w"
<1>. DEFINE r == TruncateTokens(text, max, "end")
            l == Len(text)
<1>1. l \in Nat /\ l > 0
    OBVIOUS
<1>2. CASE CountTokens(text) <= max
  <2>1. r = text
    BY <1>2, TruncateOf
  <2>. QED  BY <2>1
<1>3. CASE CountTokens(text) > max
  <2>1. PICK n \in 0 .. l : /\ r = Strip(Part(text, n, "end"))
                            /\ CountTokens(Part(text, 1, "end")) <= max => n # 0
    BY <1>3, TruncateOf
  <2>2. CountTokens(Part(text, 1, "end")) <= max
    <3>1. Part(text, 1, "end") \in Seq(Char) /\ Len(Part(text, 1, "end")) = 1
      <4>1. 1 \in 0 .. Len(text)
        BY <1>1
      <4>. QED  BY <4>1, PartOf
    <3>2. CountTokens(Part(text, 1, "end")) <= 1 /\ CountTokens(Part(text, 1, "end")) \in Nat
      BY <3>1, CountType
    <3>. QED  BY <3>2
  <2>. DEFINE p == Part(text, n, "end")
  <2>3. p \in Seq(Char) /\ Len(p) = n /\ \A i \in 1 .. n : p[i] = text[l - n + i]
    BY PartOf
  <2>. HIDE DEF p
  <2>4. n \in 1 .. n /\ l - n + n = l
    BY <1>1, <2>1, <2>2
  <2>5. p # <<>> /\ p[Len(p)] = "w"
    BY <2>3, <2>4
  <2>6. Strip(p) # <<>> /\ Strip(p)[Len(Strip(p))] = p[Len(p)]
    BY <2>3, <2>5, StripOf
  <2>. HIDE DEF r
  <2>. QED  BY <2>1, <2>5, <2>6 DEF p, r
<1>4. CountTokens(text) \in Nat
    BY CountType
<1>. QED  BY <1>2, <1>3, <1>4

(* Up to two parts, joined. *)
LEMMA JoinedOf ==
    ASSUME NEW a, NEW b
    PROVE  /\ Joined(<<>>) = <<>>
           /\ Joined(<<a>>) = a
           /\ Joined(<<a, b>>) = a \o (<<"s">> \o b)
<1>1. Joined(<<>>) = <<>>
  <2>1. Len(<<>>) = 0 /\ [i \in 1 .. 0 |-> IF i = 1 THEN <<>>[i] ELSE <<"s">> \o <<>>[i]] = <<>>
    OBVIOUS
  <2>. QED  BY <2>1 DEF Joined, FlattenSeq
<1>2. Joined(<<a>>) = a
  <2>. DEFINE s == [i \in 1 .. Len(<<a>>) |-> IF i = 1 THEN <<a>>[i] ELSE <<"s">> \o <<a>>[i]]
              flatten == CHOOSE f : f = [i \in 1 .. Len(s) |-> IF i = 1 THEN s[i] ELSE f[i - 1] \o s[i]]
  <2>1. Joined(<<a>>) = IF Len(s) = 0 THEN s ELSE flatten[Len(s)]
    BY DEF Joined, FlattenSeq
  <2>2. Len(s) = 1 /\ s[1] = a
    OBVIOUS
  <2>. HIDE DEF s
  <2>3. \E f : f = [i \in 1 .. Len(s) |-> IF i = 1 THEN s[i] ELSE f[i - 1] \o s[i]]
    <3>. DEFINE f == [i \in 1 .. 1 |-> a]
    <3>1. f = [i \in 1 .. Len(s) |-> IF i = 1 THEN s[i] ELSE f[i - 1] \o s[i]]
      BY <2>2
    <3>. HIDE DEF f
    <3>. QED  BY <3>1
  <2>4. flatten = [i \in 1 .. Len(s) |-> IF i = 1 THEN s[i] ELSE flatten[i - 1] \o s[i]]
    BY <2>3
  <2>. HIDE DEF flatten
  <2>. QED  BY <2>1, <2>2, <2>4
<1>3. Joined(<<a, b>>) = a \o (<<"s">> \o b)
  <2>. DEFINE s == [i \in 1 .. Len(<<a, b>>) |-> IF i = 1 THEN <<a, b>>[i] ELSE <<"s">> \o <<a, b>>[i]]
              flatten == CHOOSE f : f = [i \in 1 .. Len(s) |-> IF i = 1 THEN s[i] ELSE f[i - 1] \o s[i]]
  <2>1. Joined(<<a, b>>) = IF Len(s) = 0 THEN s ELSE flatten[Len(s)]
    BY DEF Joined, FlattenSeq
  <2>2. Len(s) = 2 /\ s[1] = a /\ s[2] = <<"s">> \o b
    OBVIOUS
  <2>. HIDE DEF s
  <2>3. \E f : f = [i \in 1 .. Len(s) |-> IF i = 1 THEN s[i] ELSE f[i - 1] \o s[i]]
    <3>. DEFINE c == s[1] \o s[2]
                f == [i \in 1 .. 2 |-> IF i = 1 THEN s[1] ELSE c]
    <3>0. f[1] = s[1] /\ f[2] = c
      <4>1. 1 \in 1 .. 2 /\ 2 \in 1 .. 2 /\ 2 # 1
        OBVIOUS
      <4>. HIDE DEF c
      <4>. QED  BY <4>1
    <3>. DEFINE g(i) == IF i = 1 THEN s[i] ELSE f[i - 1] \o s[i]
    <3>2. ASSUME NEW i \in 1 .. 2 PROVE f[i] = g(i)
      <4>1. CASE i = 1
        BY <3>0, <4>1
      <4>2. CASE i = 2
        <5>1. i - 1 = 1 /\ i # 1
          BY <4>2
        <5>2. g(i) = f[1] \o s[2]
          BY <4>2, <5>1
        <5>. HIDE DEF f, g
        <5>. QED  BY <3>0, <4>2, <5>2
      <4>. QED  BY <4>1, <4>2
    <3>3. f = [i \in 1 .. 2 |-> f[i]]
      <4>. HIDE DEF c
      <4>. QED  OBVIOUS
    <3>1. f = [i \in 1 .. Len(s) |-> g(i)]
      <4>. HIDE DEF f, g
      <4>. QED  BY <2>2, <3>2, <3>3
    <3>. HIDE DEF f
    <3>. QED  BY <3>1
  <2>4. flatten = [i \in 1 .. Len(s) |-> IF i = 1 THEN s[i] ELSE flatten[i - 1] \o s[i]]
    BY <2>3
  <2>. HIDE DEF flatten
  <2>5. flatten[1] = s[1] /\ flatten[2] = flatten[1] \o s[2]
    <3>1. 1 \in 1 .. Len(s) /\ 2 \in 1 .. Len(s) /\ 2 - 1 = 1 /\ 2 # 1
      BY <2>2
    <3>2. flatten[2] = IF 2 = 1 THEN s[2] ELSE flatten[2 - 1] \o s[2]
      BY <2>4, <3>1
    <3>3. flatten[1] = s[1]
      BY <2>4, <3>1
    <3>. QED  BY <3>1, <3>2, <3>3
  <2>6. Joined(<<a, b>>) = flatten[2]
    BY <2>1, <2>2
  <2>. QED  BY <2>2, <2>5, <2>6
<1>. QED  BY <1>1, <1>2, <1>3

-----------------------------------------------------------------------------
(* The newest lines that fit. *)

(* An element that none exceeds is the Max. *)
LEMMA MaxIs ==
    ASSUME NEW S \in SUBSET Int, NEW k \in S, \A y \in S : y <= k
    PROVE  Max(S) = k
<1>1. Max(S) \in S /\ \A y \in S : Max(S) >= y
    BY DEF Max
<1>2. Max(S) >= k /\ Max(S) <= k /\ k \in Int /\ Max(S) \in Int
    BY <1>1
<1>. QED  BY <1>2

(* A line taken leaves a state of that type. *)
LEMMA TakeLineType ==
    ASSUME NEW s \in FittingState, NEW item \in Seq(Char), NEW max \in Nat, NEW mark \in Seq(Char)
    PROVE  TakeLine(s, item, max, mark) \in FittingState
<1>. DEFINE n == CountTokens(mark \o item)
            x == IF n > max THEN TruncateTokens(item, max, "end") ELSE item
<1>1. n \in Nat
  <2>1. mark \o item \in Seq(Char)
    OBVIOUS
  <2>. QED  BY <2>1, CountType
<1>2. x \in Seq(Char)
    BY TruncateType
<1>3. mark \o x \in Seq(Char) /\ <<mark \o x>> \o s.lines \in Seq(Seq(Char))
  <2>1. mark \o x \in Seq(Char)
    BY <1>2
  <2>. DEFINE y == mark \o x
  <2>. HIDE DEF y
  <2>2. s.lines \in Seq(Seq(Char)) /\ y \in Seq(Char)
    BY <2>1 DEF FittingState, y
  <2>3. <<y>> \in Seq(Seq(Char))
    BY <2>2
  <2>4. <<y>> \o s.lines \in Seq(Seq(Char))
    BY <2>2, <2>3
  <2>. QED  BY <2>1, <2>4 DEF y
<1>4. TakeLine(s, item, max, mark) =
          IF s.full \/ (s.lines # <<>> /\ s.used + n > max) THEN [s EXCEPT !.full = TRUE]
          ELSE [lines |-> <<mark \o x>> \o s.lines, used |-> s.used + n, full |-> n > max]
    BY DEF TakeLine
<1>. HIDE DEF n, x
<1>5. s.used \in Nat /\ s.full \in BOOLEAN /\ s.lines \in Seq(Seq(Char))
    BY DEF FittingState
<1>6. [s EXCEPT !.full = TRUE] \in FittingState
    BY DEF FittingState
<1>7. [lines |-> <<mark \o x>> \o s.lines, used |-> s.used + n, full |-> n > max] \in FittingState
  <2>1. (n > max) \in BOOLEAN /\ s.used + n \in Nat
    BY <1>1, <1>5
  <2>. QED  BY <1>3, <2>1 DEF FittingState
<1>. QED  BY <1>4, <1>6, <1>7

(* The lines that fit are found by a run over the lines. *)
LEMMA FitNewestRuns ==
    ASSUME NEW items \in Seq(Seq(Char)), NEW max \in Nat, NEW mark \in Seq(Char)
    PROVE  \E f : /\ Run(f, Len(items), FittingState, NoLine, LineStep(items, max, mark))
                  /\ FitNewest(items, max, mark) = f[Len(items)].lines
<1>. DEFINE n == Len(items)
            V == FittingState
            seq == Reverse(items)
            step == LineStep(items, max, mark)
            iter == CHOOSE it : it = [s \in SUBSET (1 .. n) |->
                       IF s = {} THEN NoLine ELSE TakeLine(it[s \ {Max(s)}], seq[Max(s)], max, mark)]
<1>1. n \in Nat /\ DOMAIN seq = 1 .. n /\ Len(seq) = n /\ \A i \in 1 .. n : seq[i] \in Seq(Char)
    BY DEF Reverse
<1>2. NoLine \in V /\ step \in [1 .. n -> [V -> V]]
  <2>1. NoLine \in V
    BY DEF NoLine, FittingState
  <2>2. \A i \in 1 .. n : \A v \in V : TakeLine(v, seq[i], max, mark) \in V
    BY <1>1, TakeLineType
  <2>. HIDE DEF V
  <2>. QED  BY <2>1, <2>2 DEF LineStep, V
<1>3. FitNewest(items, max, mark) = iter[1 .. n].lines
    BY <1>1 DEF FitNewest, FoldLeft, MapThenFoldSet, NoLine
<1>. HIDE DEF n, V, seq
<1>4. iter = [s \in SUBSET (1 .. n) |->
                       IF s = {} THEN NoLine ELSE TakeLine(iter[s \ {Max(s)}], seq[Max(s)], max, mark)]
  <2>1. PICK it : Folded(it, n, V, NoLine, step)
    <3>1. n \in Nat
      BY <1>1
    <3>. HIDE DEF step
    <3>. QED  BY <3>1, <1>2, FoldExists
  <2>2. ASSUME NEW s \in SUBSET (1 .. n), s # {}
        PROVE  it[s] = TakeLine(it[s \ {Max(s)}], seq[Max(s)], max, mark)
    <3>1. Max(s) \in 1 .. n /\ s \ {Max(s)} \in SUBSET (1 .. n)
      BY <1>1, <2>2, MaxOf
    <3>2. it[s \ {Max(s)}] \in V
      BY <2>1, <3>1 DEF Folded
    <3>3. it[s] = step[Max(s)][it[s \ {Max(s)}]]
      BY <2>1, <2>2 DEF Folded
    <3>. QED  BY <3>1, <3>2, <3>3 DEF LineStep, n, V, seq
  <2>3. it = [s \in SUBSET (1 .. n) |-> it[s]] /\ it[{}] = NoLine
    BY <2>1 DEF Folded
  <2>4. it = [s \in SUBSET (1 .. n) |->
                       IF s = {} THEN NoLine ELSE TakeLine(it[s \ {Max(s)}], seq[Max(s)], max, mark)]
    BY <2>2, <2>3
  <2>. QED  BY <2>4
<1>. HIDE DEF iter
<1>5. FoldSteps(iter, n, V, NoLine, step)
  <2>1. ASSUME NEW s \in SUBSET (1 .. n), s # {}, iter[s \ {Max(s)}] \in V
        PROVE  iter[s] = step[Max(s)][iter[s \ {Max(s)}]]
    <3>1. Max(s) \in 1 .. n
      BY <1>1, <2>1, MaxOf
    <3>2. iter[s] = TakeLine(iter[s \ {Max(s)}], seq[Max(s)], max, mark)
      BY <1>4, <2>1
    <3>. QED  BY <2>1, <3>1, <3>2 DEF LineStep, n, V, seq
  <2>2. iter[{}] = NoLine
    BY <1>4
  <2>. HIDE DEF step
  <2>. QED  BY <2>1, <2>2 DEF FoldSteps
<1>6. EndsAt(n, V, NoLine, step, iter[1 .. n])
  <2>1. n \in Nat
    BY <1>1
  <2>2. NoLine \in V
    BY <1>2
  <2>. HIDE DEF step
  <2>3. step \in [1 .. n -> [V -> V]]
    BY <1>2
  <2>4. FoldSteps(iter, n, V, NoLine, step)
    BY <1>5
  <2>. QED  BY <2>1, <2>2, <2>3, <2>4, FoldRuns
<1>. HIDE DEF step
<1>7. PICK f : Run(f, n, V, NoLine, step) /\ f[n] = iter[1 .. n]
    BY <1>6 DEF EndsAt
<1>8. FitNewest(items, max, mark) = f[n].lines
    BY <1>3, <1>7
<1>9. Run(f, Len(items), FittingState, NoLine, LineStep(items, max, mark))
    BY <1>7 DEF n, V, step
<1>10. FitNewest(items, max, mark) = f[Len(items)].lines
    BY <1>8 DEF n
<1>. QED  BY <1>9, <1>10

(* Every line that is taken costs its own tokens. *)
LEMMA CostOf ==
    ASSUME NEW items \in Seq(Seq(Char)), NEW mark \in Seq(Char)
    PROVE  /\ \A i \in 1 .. Len(items) : Weights(items, mark)[i] \in Nat
           /\ Cost(items, mark, 0) = 0
           /\ \A k \in 0 .. Len(items) : Cost(items, mark, k) \in Nat
           /\ \A k \in 0 .. Len(items) - 1 :
                 Cost(items, mark, k + 1) = Weights(items, mark)[Len(items) - k] + Cost(items, mark, k)
           /\ \A k, l \in 0 .. Len(items) : k <= l => Cost(items, mark, k) <= Cost(items, mark, l)
<1>. DEFINE n == Len(items)
            w == Weights(items, mark)
<1>1. n \in Nat
    OBVIOUS
<1>2. \A i \in 1 .. n : w[i] \in Nat
  <2>. SUFFICES ASSUME NEW i \in 1 .. n PROVE CountTokens(mark \o items[i]) \in Nat
    BY DEF Weights
  <2>1. mark \o items[i] \in Seq(Char)
    OBVIOUS
  <2>. QED  BY <2>1, CountType
<1>3. Cost(items, mark, 0) = 0
  <2>1. n - 0 + 1 .. n = {}
    BY <1>1
  <2>. HIDE DEF w
  <2>2. SumFunctionOnSet(w, {}) = 0
    BY SumNothing
  <2>. QED  BY <2>1, <2>2 DEF Cost, w
<1>. HIDE DEF n, w
<1>4. /\ \A k \in 0 .. n : SumFunctionOnSet(w, n - k + 1 .. n) \in Nat
      /\ \A k \in 0 .. n - 1 : SumFunctionOnSet(w, n - (k + 1) + 1 .. n)
                                      = w[n - k] + SumFunctionOnSet(w, n - k + 1 .. n)
      /\ \A k, l \in 0 .. n : k <= l =>
                 SumFunctionOnSet(w, n - k + 1 .. n) <= SumFunctionOnSet(w, n - l + 1 .. n)
    BY <1>1, <1>2, SumOfTails
<1>. QED  BY <1>2, <1>3, <1>4 DEF Cost, n, w

(* The newest lines, one more at a time. *)
LEMMA NewestOf ==
    ASSUME NEW items \in Seq(Seq(Char)), NEW mark \in Seq(Char), NEW j \in 0 .. Len(items)
    PROVE  /\ Newest(items, mark, j) \in Seq(Seq(Char)) /\ Len(Newest(items, mark, j)) = j
           /\ j = 0 => Newest(items, mark, j) = <<>>
           /\ j < Len(items) =>
                 <<mark \o items[Len(items) - j]>> \o Newest(items, mark, j) = Newest(items, mark, j + 1)
<1>. DEFINE n == Len(items)
            at(i) == mark \o items[i]
<1>1. n \in Nat /\ \A i \in 1 .. n : at(i) \in Seq(Char)
    OBVIOUS
<1>. HIDE DEF at
<1>2. ASSUME NEW k \in 0 .. n
      PROVE  /\ Newest(items, mark, k) \in Seq(Seq(Char)) /\ Len(Newest(items, mark, k)) = k
             /\ \A i \in 1 .. k : Newest(items, mark, k)[i] = at(n - k + i)
  <2>1. \A i \in 1 .. k : n - k + i \in 1 .. n
    BY <1>1
  <2>2. Newest(items, mark, k) = [i \in 1 .. k |-> at(n - k + i)]
    BY DEF Newest, at
  <2>3. \A i \in 1 .. k : at(n - k + i) \in Seq(Char)
    BY <1>1, <2>1
  <2>. HIDE DEF n
  <2>. QED  BY <2>2, <2>3
<1>3. j = 0 => Newest(items, mark, j) = <<>>
    BY <1>2
<1>4. ASSUME j < n
      PROVE  <<at(n - j)>> \o Newest(items, mark, j) = Newest(items, mark, j + 1)
  <2>. DEFINE a == <<at(n - j)>> \o Newest(items, mark, j)
              b == Newest(items, mark, j + 1)
  <2>1. n - j \in 1 .. n /\ j + 1 \in 0 .. n /\ j \in 0 .. n
    BY <1>1, <1>4
  <2>2. at(n - j) \in Seq(Char)
    BY <1>1, <2>1
  <2>3. Newest(items, mark, j) \in Seq(Seq(Char)) /\ Len(Newest(items, mark, j)) = j
           /\ \A i \in 1 .. j : Newest(items, mark, j)[i] = at(n - j + i)
    BY <1>2, <2>1
  <2>4. b \in Seq(Seq(Char)) /\ Len(b) = j + 1 /\ \A i \in 1 .. j + 1 : b[i] = at(n - (j + 1) + i)
    BY <1>2, <2>1
  <2>. HIDE DEF n, b
  <2>5. a \in Seq(Seq(Char)) /\ Len(a) = j + 1 /\ a[1] = at(n - j)
           /\ \A i \in 2 .. j + 1 : a[i] = Newest(items, mark, j)[i - 1]
    BY <2>2, <2>3
  <2>. HIDE DEF a
  <2>6. ASSUME NEW i \in 1 .. j + 1 PROVE a[i] = b[i]
    <3>1. CASE i = 1
      <4>1. n - (j + 1) + i = n - j
        BY <1>1, <3>1
      <4>. QED  BY <2>4, <2>5, <3>1, <4>1
    <3>2. CASE i # 1
      <4>1. i - 1 \in 1 .. j /\ i \in 2 .. j + 1 /\ n - j + (i - 1) = n - (j + 1) + i
        BY <1>1, <3>2
      <4>. QED  BY <2>3, <2>4, <2>5, <4>1
    <3>. QED  BY <3>1, <3>2
  <2>7. Len(a) = Len(b) /\ \A i \in 1 .. Len(a) : a[i] = b[i]
    BY <2>4, <2>5, <2>6
  <2>8. a = b
    BY <2>4, <2>5, <2>7, SeqEqual
  <2>. QED  BY <2>8 DEF a, b
<1>. QED  BY <1>2, <1>3, <1>4 DEF n, at

(* One more line, or none. *)
LEMMA TakeLineKeeps ==
    ASSUME NEW items \in Seq(Seq(Char)), NEW max \in Nat, NEW mark \in Seq(Char),
           NEW j \in 0 .. Len(items) - 1, NEW s \in FittingState, Fitted(s, items, max, mark, j)
    PROVE  Fitted(TakeLine(s, items[Len(items) - j], max, mark), items, max, mark, j + 1)
<1>. DEFINE n == Len(items)
            item == items[n - j]
            m == CountTokens(mark \o item)
            x == IF m > max THEN TruncateTokens(item, max, "end") ELSE item
            t == TakeLine(s, item, max, mark)
            c(k) == Cost(items, mark, k)
            new(k) == Newest(items, mark, k)
<1>1. n \in Nat /\ n - j \in 1 .. n /\ j \in Nat
    OBVIOUS
<1>2. /\ m \in Nat /\ c(j) \in Nat /\ c(j + 1) = m + c(j) /\ c(j + 1) \in Nat
      /\ j = 0 => c(j) = 0
      /\ c(0) = 0
  <2>1. Weights(items, mark)[n - j] = m
    BY <1>1 DEF Weights
  <2>2. j \in 0 .. n /\ j + 1 \in 0 .. n
    BY <1>1
  <2>. HIDE DEF m
  <2>3. Weights(items, mark)[n - j] \in Nat /\ c(j) \in Nat /\ c(j + 1) \in Nat /\ c(0) = 0
    BY <1>1, <2>2, CostOf
  <2>4. c(j + 1) = Weights(items, mark)[n - j] + c(j)
    BY <1>1, <2>2, CostOf
  <2>. QED  BY <2>1, <2>3, <2>4
<1>3. /\ new(j) \in Seq(Seq(Char)) /\ Len(new(j)) = j
      /\ j = 0 => new(j) = <<>>
      /\ <<mark \o item>> \o new(j) = new(j + 1)
  <2>1. j \in 0 .. n /\ j < n
    BY <1>1
  <2>. QED  BY <2>1, NewestOf
<1>4. t = IF s.full \/ (s.lines # <<>> /\ s.used + m > max) THEN [s EXCEPT !.full = TRUE]
          ELSE [lines |-> <<mark \o x>> \o s.lines, used |-> s.used + m, full |-> m > max]
    BY DEF TakeLine
<1>5. s.full \in BOOLEAN /\ s.used \in Nat /\ s.lines \in Seq(Seq(Char))
    BY DEF FittingState
<1>6. j = 0 => item = items[n]
    BY <1>1
<1>. HIDE DEF t, m, c, new, n
<1>. SUFFICES Fitted(t, items, max, mark, j + 1)
    BY DEF t, n
<1>7. CASE s.full
  <2>1. t.full /\ t.lines = s.lines
    BY <1>4, <1>5, <1>7 DEF FittingState
  <2>2. 1 .. j - 1 \subseteq 1 .. (j + 1) - 1 /\ (j > 0 => j + 1 > 0)
    BY <1>1
  <2>. HIDE DEF x, item
  <2>. QED  BY <1>7, <2>1, <2>2 DEF Fitted
<1>8. CASE ~s.full
  <2>1. s.lines = new(j) /\ s.used = c(j) /\ c(j) <= max
    BY <1>8 DEF Fitted, new, c
  <2>2. s.lines # <<>> <=> j > 0
    BY <1>1, <1>3, <2>1
  <2>3. CASE j > 0 /\ c(j) + m > max
    <3>1. t.full /\ t.lines = new(j)
      BY <1>4, <1>8, <2>1, <2>2, <2>3 DEF FittingState
    <3>2. j \in 1 .. (j + 1) - 1 /\ c(j + 1) > max
      BY <1>1, <1>2, <2>3
    <3>. HIDE DEF x, item
    <3>3. \E k \in 1 .. (j + 1) - 1 : t.lines = new(k) /\ c(k) <= max /\ c(k + 1) > max
      BY <2>1, <3>1, <3>2
    <3>. QED  BY <3>1, <3>3 DEF Fitted, c, new
  <2>4. CASE ~(j > 0 /\ c(j) + m > max)
    <3>1. t = [lines |-> <<mark \o x>> \o new(j), used |-> c(j) + m, full |-> m > max]
      BY <1>4, <1>8, <2>1, <2>2, <2>4
    <3>2. CASE m > max
      <4>1. j = 0
        BY <1>1, <1>2, <2>4, <3>2
      <4>2. x = TruncateTokens(items[n], max, "end")
        BY <1>6, <3>2, <4>1
      <4>3. TruncateTokens(items[n], max, "end") \in Seq(Char)
        <5>1. items[n] \in Seq(Char) /\ max \in Int
          <6>1. n \in 1 .. n
            BY <1>1
          <6>. QED  BY <6>1 DEF n
        <5>. QED  BY <5>1, TruncateType
      <4>4. t.full /\ t.lines = <<mark \o x>> \o new(j)
        BY <3>1, <3>2
      <4>. HIDE DEF x, item
      <4>5. <<mark \o x>> \o new(j) = <<mark \o x>>
        <5>1. mark \o x \in Seq(Char) /\ new(j) = <<>>
          BY <1>3, <4>1, <4>2, <4>3
        <5>. DEFINE y == mark \o x
        <5>. HIDE DEF y
        <5>2. <<y>> \o <<>> = <<y>>
          OBVIOUS
        <5>. QED  BY <5>1, <5>2 DEF y
      <4>6. t.lines = CutLine(items, max, mark)
        BY <4>2, <4>4, <4>5 DEF CutLine, n
      <4>7. c(1) > max /\ j + 1 > 0
        BY <1>1, <1>2, <3>2, <4>1
      <4>. QED  BY <4>4, <4>6, <4>7 DEF Fitted, c
    <3>3. CASE ~(m > max)
      <4>1. x = item
        BY <3>3
      <4>. HIDE DEF x, item
      <4>2. t.lines = new(j + 1) /\ t.used = c(j + 1) /\ ~t.full
        <5>1. t.lines = <<mark \o x>> \o new(j) /\ t.used = c(j) + m
          BY <3>1
        <5>4. ~t.full
          BY <3>1, <3>3
        <5>2. c(j) + m = c(j + 1)
          BY <1>2
        <5>3. <<mark \o x>> \o new(j) = new(j + 1)
          BY <1>3, <4>1
        <5>. QED  BY <5>1, <5>2, <5>3, <5>4
      <4>3. c(j + 1) <= max
        BY <1>1, <1>2, <2>4, <3>3
      <4>. QED  BY <4>2, <4>3 DEF Fitted, c, new
    <3>. QED  BY <3>2, <3>3
  <2>. QED  BY <2>3, <2>4
<1>. QED  BY <1>5, <1>7, <1>8

(* What is taken is the longest run of newest items that fits. *)
LEMMA FitNewestOf ==
    ASSUME NEW items \in Seq(Seq(Char)), NEW max \in Nat, NEW mark \in Seq(Char)
    PROVE  \/ \E k \in 0 .. Len(items) :
                 /\ FitNewest(items, max, mark) = Newest(items, mark, k)
                 /\ Cost(items, mark, k) <= max
                 /\ k < Len(items) => k > 0 /\ Cost(items, mark, k + 1) > max
           \/ /\ Len(items) > 0 /\ Cost(items, mark, 1) > max
              /\ FitNewest(items, max, mark) = CutLine(items, max, mark)
<1>. DEFINE n == Len(items)
            rev == Reverse(items)
<1>1. PICK f : /\ Run(f, n, FittingState, NoLine, LineStep(items, max, mark))
               /\ FitNewest(items, max, mark) = f[n].lines
    BY FitNewestRuns
<1>2. n \in Nat /\ \A i \in 1 .. n : rev[i] = items[n - (i - 1)]
  <2>1. \A i \in 1 .. n : n - (i - 1) = (n - i) + 1
    OBVIOUS
  <2>. QED  BY <2>1 DEF Reverse
<1>3. /\ f[0] = NoLine
      /\ \A i \in 0 .. n : f[i] \in FittingState
      /\ \A i \in 1 .. n : f[i] = TakeLine(f[i - 1], rev[i], max, mark)
  <2>1. f \in [0 .. n -> FittingState] /\ f[0] = NoLine
          /\ \A i \in 1 .. n : f[i] = LineStep(items, max, mark)[i][f[i - 1]]
    BY <1>1 DEF Run
  <2>2. \A i \in 1 .. n : f[i - 1] \in FittingState
    BY <2>1
  <2>. QED  BY <2>1, <2>2 DEF LineStep
<1>. HIDE DEF rev
<1>. DEFINE T == {j \in 0 .. n : Fitted(f[j], items, max, mark, j)}
<1>4. 0 \in T
  <2>1. Cost(items, mark, 0) = 0
    BY CostOf
  <2>2. Newest(items, mark, 0) = <<>>
    <3>1. 0 \in 0 .. Len(items)
      BY <1>2
    <3>. QED  BY <3>1, NewestOf
  <2>. QED  BY <1>2, <1>3, <2>1, <2>2 DEF Fitted, NoLine
<1>5. \A j \in 0 .. n - 1 : j \in T => j + 1 \in T
  <2>. SUFFICES ASSUME NEW j \in 0 .. n - 1, j \in T
                PROVE  Fitted(f[j + 1], items, max, mark, j + 1)
    OBVIOUS
  <2>1. j + 1 \in 1 .. n /\ (j + 1) - 1 = j /\ j \in 0 .. n
    OBVIOUS
  <2>2. f[j + 1] = TakeLine(f[j], items[n - j], max, mark)
    <3>1. f[j + 1] = TakeLine(f[(j + 1) - 1], rev[j + 1], max, mark) /\ rev[j + 1] = items[n - ((j + 1) - 1)]
      BY <1>2, <1>3, <2>1
    <3>. QED  BY <2>1, <3>1
  <2>3. f[j] \in FittingState /\ Fitted(f[j], items, max, mark, j)
    BY <1>3, <2>1
  <2>. QED  BY <2>2, <2>3, TakeLineKeeps
<1>6. Fitted(f[n], items, max, mark, n)
  <2>. HIDE DEF T
  <2>1. \A j \in 0 .. n : j \in T
    BY <1>2, <1>4, <1>5, UpTo
  <2>2. n \in T
    BY <1>2, <2>1
  <2>. QED  BY <2>2 DEF T
<1>7. CASE ~f[n].full
  <2>1. f[n].lines = Newest(items, mark, n) /\ Cost(items, mark, n) <= max /\ n \in 0 .. n
    BY <1>2, <1>6, <1>7 DEF Fitted
  <2>. QED  BY <1>1, <1>2, <2>1
<1>8. CASE f[n].full
  <2>1. CASE \E k \in 1 .. n - 1 : /\ f[n].lines = Newest(items, mark, k)
                                   /\ Cost(items, mark, k) <= max /\ Cost(items, mark, k + 1) > max
    BY <1>1, <1>2, <2>1
  <2>2. CASE n > 0 /\ Cost(items, mark, 1) > max /\ f[n].lines = CutLine(items, max, mark)
    BY <1>1, <2>2
  <2>. QED  BY <1>6, <1>8, <2>1, <2>2 DEF Fitted
<1>. QED  BY <1>7, <1>8

(* A bullet is one token. *)
LEMMA CountBullet ==
    ASSUME NEW t \in Seq(Char)
    PROVE  Bullet \o t \in Seq(Char) /\ CountTokens(Bullet \o t) = 1 + CountTokens(t)
<1>1. <<"p">> \in Seq(Char) /\ <<"s">> \in Seq(Char) /\ Bullet = <<"p">> \o <<"s">> /\ Bullet \in Seq(Char)
    BY DEF Bullet, Char
<1>2. CountTokens(<<"p">>) = 1
  <2>1. \A i \in 1 .. Len(<<"p">>) : <<"p">>[i] \in {"c", "p"}
    OBVIOUS
  <2>. QED  BY <1>1, <2>1, CountOfInk
<1>3. CountTokens(<<"s">>) = 0
  <2>1. \A i \in 1 .. Len(<<"s">>) : <<"s">>[i] = "s"
    OBVIOUS
  <2>. QED  BY <1>1, <2>1, CountOfBlank
<1>4. Apart(<<"p">>, <<"s">>) /\ Apart(Bullet, t)
    BY DEF Apart, Bullet
<1>5. CountTokens(Bullet) = 1
  <2>1. CountTokens(<<"p">> \o <<"s">>) = CountTokens(<<"p">>) + CountTokens(<<"s">>)
    BY <1>1, <1>4, CountConcat
  <2>. QED  BY <1>1, <1>2, <1>3, <2>1
<1>6. CountTokens(Bullet \o t) = CountTokens(Bullet) + CountTokens(t)
    BY <1>1, <1>4, CountConcat
<1>7. Bullet \o t \in Seq(Char)
    BY <1>1
<1>. QED  BY <1>5, <1>6, <1>7

(* The size of the newest lines is their cost. *)
LEMMA SizedNewest ==
    ASSUME NEW items \in Seq(Seq(Char)), NEW mark \in Seq(Char), NEW k \in 0 .. Len(items)
    PROVE  Sized(Newest(items, mark, k)) = Cost(items, mark, k)
<1>. DEFINE n == Len(items)
            w == Weights(items, mark)
            h == [i \in DOMAIN Newest(items, mark, k) |-> CountTokens(Newest(items, mark, k)[i])]
<1>1. n \in Nat /\ k \in Nat /\ n - k \in Int
    OBVIOUS
<1>2. DOMAIN h = 1 .. k
    BY DEF Newest
<1>3. ASSUME NEW i \in 1 .. k
      PROVE  w[(n - k) + i] \in Nat /\ h[i] = w[(n - k) + i]
  <2>1. (n - k) + i \in 1 .. n /\ n - k + i = (n - k) + i
    BY <1>1
  <2>2. h[i] = CountTokens(mark \o items[n - k + i])
    BY DEF Newest
  <2>3. w[(n - k) + i] = CountTokens(mark \o items[(n - k) + i])
    BY <2>1 DEF Weights
  <2>4. w[(n - k) + i] \in Nat
    BY <2>1, CostOf
  <2>. QED  BY <2>1, <2>2, <2>3, <2>4
<1>. HIDE DEF h, w, n
<1>4. SumFunctionOnSet(h, 1 .. k) = SumFunctionOnSet(w, (n - k) + 1 .. (n - k) + k)
    BY <1>1, <1>3, SumShift
<1>5. (n - k) + 1 = n - k + 1 /\ (n - k) + k = n
    BY <1>1
<1>6. Sized(Newest(items, mark, k)) = SumFunctionOnSet(h, 1 .. k)
    BY <1>2 DEF Sized, SumFunction, h
<1>. QED  BY <1>4, <1>5, <1>6 DEF Cost, n, w

(* The size of one line. *)
LEMMA SizedOne ==
    ASSUME NEW t, CountTokens(t) \in Nat
    PROVE  Sized(<<t>>) = CountTokens(t)
<1>. DEFINE h == [i \in DOMAIN <<t>> |-> CountTokens(<<t>>[i])]
<1>1. DOMAIN h = 1 .. 1 /\ h[1] = CountTokens(t) /\ 1 .. 0 = {}
    OBVIOUS
<1>. HIDE DEF h
<1>. DEFINE a == 1
<1>2. a \in Int /\ a <= a /\ a .. a = 1 .. 1 /\ a .. a - 1 = {} /\ \A i \in a .. a : h[i] \in Nat
    BY <1>1
<1>. HIDE DEF a
<1>3. SumFunctionOnSet(h, a .. a) = SumFunctionOnSet(h, a .. a - 1) + h[a]
    BY <1>2, SumInterval
<1>4. SumFunctionOnSet(h, {}) = 0
    BY SumNothing
<1>. QED  BY <1>1, <1>2, <1>3, <1>4 DEF Sized, SumFunction, h, a

(* Recent lines are the longest run of newest lines that fits
   (conversation_context.py, 229-247).                                     *)
LEMMA FitIsSound ==
    ASSUME NEW lines \in Seq(Seq(Char)), NEW max \in Nat
    PROVE  RecentWell(FitRecentLines(lines, max), SectionLines(lines, max), lines, max)
<1>. DEFINE n == Len(lines)
            tail(k) == SubSeq(lines, n - k + 1, n)
            S == {k \in 0 .. n : Sized(tail(k)) <= max}
            best == Max(S)
            recent == FitRecentLines(lines, max)
            section == SectionLines(lines, max)
            c(k) == Cost(lines, <<>>, k)
<1>0. n \in Nat /\ <<>> \in Seq(Char) /\ Bullet \in Seq(Char) /\ (n > 0 => lines[n] \in Seq(Char))
    BY DEF Bullet, Char
<1>1. ASSUME NEW k \in 0 .. n PROVE tail(k) = Newest(lines, <<>>, k)
  <2>. DEFINE new == Newest(lines, <<>>, k)
  <2>1. /\ tail(k) \in Seq(Seq(Char)) /\ Len(tail(k)) = k
        /\ \A i \in 1 .. k : tail(k)[i] = lines[n - k + i]
    <3>. DEFINE a == n - k + 1
    <3>1. a \in Int /\ n \in Int /\ \A i \in a .. n : lines[i] \in Seq(Char)
      BY <1>0
    <3>2. /\ SubSeq(lines, a, n) \in Seq(Seq(Char))
          /\ Len(SubSeq(lines, a, n)) = IF a <= n THEN n - a + 1 ELSE 0
          /\ \A i \in 1 .. n - a + 1 : SubSeq(lines, a, n)[i] = lines[a + i - 1]
      <4>. HIDE DEF a, n
      <4>. QED  BY <3>1, SubSeqProperties
    <3>3. n - a + 1 = k /\ (a <= n \/ k = 0) /\ \A i \in 1 .. k : a + i - 1 = n - k + i
      BY <1>0
    <3>. HIDE DEF a, n
    <3>4. SubSeq(lines, a, n) \in Seq(Seq(Char)) /\ Len(SubSeq(lines, a, n)) = k
            /\ \A i \in 1 .. k : SubSeq(lines, a, n)[i] = lines[n - k + i]
      BY <3>1, <3>2, <3>3
    <3>. QED  BY <3>4 DEF a
  <2>2. new \in Seq(Seq(Char)) /\ Len(new) = k
    BY <1>0, NewestOf
  <2>3. \A i \in 1 .. k : new[i] = lines[n - k + i]
    <3>. SUFFICES ASSUME NEW i \in 1 .. k PROVE <<>> \o lines[n - k + i] = lines[n - k + i]
      BY DEF Newest
    <3>1. n - k + i \in 1 .. n
      BY <1>0
    <3>2. lines[n - k + i] \in Seq(Char)
      BY <3>1
    <3>. QED  BY <3>2, ConcatEmptySeq
  <2>. HIDE DEF new, tail
  <2>4. tail(k) = new
    BY <2>1, <2>2, <2>3, SeqEqual
  <2>. QED  BY <2>4 DEF new
<1>2. ASSUME NEW k \in 0 .. n PROVE Sized(tail(k)) = c(k)
    BY <1>0, <1>1, SizedNewest
<1>3. /\ c(0) = 0 /\ \A k \in 0 .. n : c(k) \in Nat
      /\ \A k, l \in 0 .. n : k <= l => c(k) <= c(l)
    BY <1>0, CostOf
<1>. HIDE DEF tail, c
<1>4. S = {k \in 0 .. n : c(k) <= max}
    BY <1>2
<1>5. ASSUME NEW k \in 0 .. n, c(k) <= max, k < n => c(k + 1) > max
      PROVE  best = k
  <2>1. k \in S /\ S \in SUBSET Int
    BY <1>4, <1>5
  <2>2. ASSUME NEW y \in S PROVE y <= k
    <3>. SUFFICES ASSUME y > k PROVE FALSE
      BY <1>4
    <3>0. y \in 0 .. n /\ c(y) <= max
      BY <1>4
    <3>1. y \in 0 .. n /\ c(y) <= max /\ k < n /\ k + 1 \in 0 .. n /\ k + 1 <= y
      <4>. HIDE DEF S
      <4>. QED  BY <1>0, <3>0
    <3>2. c(k + 1) <= c(y) /\ c(k + 1) \in Nat /\ c(y) \in Nat
      BY <1>3, <3>1
    <3>. QED  BY <1>5, <3>1, <3>2
  <2>. HIDE DEF S
  <2>. QED  BY <2>1, <2>2, MaxIs
<1>. HIDE DEF S, best
<1>6. Sized(section) <= max + 1
  <2>. DEFINE d(k) == Cost(lines, Bullet, k)
  <2>1. section = FitNewest(lines, max, Bullet)
    BY DEF SectionLines
  <2>2. CASE \E k \in 0 .. n : section = Newest(lines, Bullet, k) /\ d(k) <= max
    <3>1. PICK k \in 0 .. n : section = Newest(lines, Bullet, k) /\ d(k) <= max
      BY <2>2
    <3>2. k \in 0 .. Len(lines)
      OBVIOUS
    <3>3. Sized(Newest(lines, Bullet, k)) = d(k)
      BY <1>0, <3>2, SizedNewest
    <3>4. d(k) \in Nat
      BY <1>0, <3>2, CostOf
    <3>. HIDE DEF d
    <3>. QED  BY <3>1, <3>3, <3>4
  <2>3. CASE n > 0 /\ section = CutLine(lines, max, Bullet)
    <3>. DEFINE t == TruncateTokens(lines[n], max, "end")
    <3>1. t \in Seq(Char) /\ CountTokens(t) <= max /\ CountTokens(t) \in Nat
      BY <1>0, <2>3, TruncateType
    <3>2. section = <<Bullet \o t>>
      BY <2>3 DEF CutLine
    <3>. HIDE DEF t
    <3>3. CountTokens(Bullet \o t) = 1 + CountTokens(t)
      BY <3>1, CountBullet
    <3>4. Sized(<<Bullet \o t>>) = CountTokens(Bullet \o t)
      <4>. DEFINE u == Bullet \o t
      <4>1. CountTokens(u) \in Nat
        BY <3>1, <3>3
      <4>. HIDE DEF u
      <4>2. Sized(<<u>>) = CountTokens(u)
        BY <4>1, SizedOne
      <4>. QED  BY <4>2 DEF u
    <3>. QED  BY <3>1, <3>2, <3>3, <3>4
  <2>. QED  BY <1>0, <2>1, <2>2, <2>3, FitNewestOf
<1>7. CASE max = 0
  <2>1. recent = <<>>
    BY <1>7 DEF FitRecentLines
  <2>2. Sized(<<>>) = 0
    <3>1. tail(0) = <<>>
      <4>1. 0 \in 0 .. n /\ 0 \in 0 .. Len(lines)
        BY <1>0
      <4>. DEFINE z == 0
      <4>2. z \in 0 .. Len(lines) /\ z = 0
        BY <4>1
      <4>. HIDE DEF z
      <4>3. Newest(lines, <<>>, z) = <<>>
        BY <1>0, <4>2, NewestOf
      <4>. QED  BY <1>1, <4>1, <4>2, <4>3
    <3>2. 0 \in 0 .. n
      BY <1>0
    <3>. QED  BY <1>2, <1>3, <3>1, <3>2
  <2>. QED  BY <1>6, <1>7, <2>1, <2>2 DEF RecentWell
<1>8. CASE max > 0
  <2>1. recent = FitNewest(lines, max, <<>>)
    BY <1>8 DEF FitRecentLines
  <2>2. CASE \E k \in 0 .. n : /\ recent = Newest(lines, <<>>, k) /\ c(k) <= max
                               /\ k < n => k > 0 /\ c(k + 1) > max
    <3>1. PICK k \in 0 .. n : /\ recent = Newest(lines, <<>>, k) /\ c(k) <= max
                              /\ k < n => k > 0 /\ c(k + 1) > max
      BY <2>2
    <3>a. best = k
      BY <1>5, <3>1
    <3>b. recent = tail(k) /\ Sized(tail(k)) = c(k)
      BY <1>1, <1>2, <3>1
    <3>2. best = k /\ recent = tail(k) /\ Sized(recent) = c(k)
      BY <3>a, <3>b
    <3>3. ~(best = 0 /\ n > 0)
      BY <1>0, <3>1, <3>2
    <3>. QED  BY <1>6, <3>1, <3>2, <3>3 DEF RecentWell, best, S, tail
  <2>3. CASE n > 0 /\ c(1) > max /\ recent = CutLine(lines, max, <<>>)
    <3>. DEFINE t == TruncateTokens(lines[n], max, "end")
    <3>1. t \in Seq(Char) /\ CountTokens(t) <= max /\ CountTokens(t) \in Nat
      BY <1>0, <2>3, TruncateType
    <3>2. recent = <<<<>> \o t>>
      BY <2>3 DEF CutLine
    <3>3. recent = <<t>>
      <4>. HIDE DEF t
      <4>1. <<>> \o t = t
        BY <3>1, ConcatEmptySeq
      <4>. QED  BY <3>2, <4>1
    <3>4. Sized(recent) = CountTokens(t)
      <4>. HIDE DEF t, recent
      <4>. QED  BY <3>1, <3>3, SizedOne
    <3>5. 0 \in 0 .. n /\ c(0) <= max /\ 0 + 1 = 1
      BY <1>0, <1>3
    <3>6. best = 0
      BY <1>5, <2>3, <3>5
    <3>. HIDE DEF recent, section
    <3>7. RecentWell(recent, section, lines, max)
      BY <1>6, <3>1, <3>3, <3>4, <3>6 DEF RecentWell, best, S, tail, t
    <3>. QED  BY <3>7 DEF recent, section
  <2>. QED  BY <1>0, <2>1, <2>2, <2>3, FitNewestOf DEF c
<1>. QED  BY <1>7, <1>8

-----------------------------------------------------------------------------
(* Summaries and the history of the prompt. *)

(* A text that ends with m marks has at least m marks. *)
LEMMA MarksAtEnd ==
    ASSUME NEW r \in Seq(Char), NEW d \in Nat, NEW m \in Nat, Len(r) = d + m,
           \A i \in 1 .. m : r[d + i] = "p"
    PROVE  Cardinality({i \in DOMAIN r : r[i] = "p"}) >= m
<1>. DEFINE K == {i \in DOMAIN r : r[i] = "p"}
            I == d + 1 .. d + m
<1>1. IsFiniteSet(1 .. Len(r)) /\ K \in SUBSET (1 .. Len(r))
  <2>1. Len(r) \in Nat /\ DOMAIN r = 1 .. Len(r)
    OBVIOUS
  <2>. QED  BY <2>1, FS_Interval
<1>2. IsFiniteSet(K)
  <2>. HIDE DEF K
  <2>. QED  BY <1>1, FS_Subset
<1>3. I \in SUBSET K
  <2>. SUFFICES ASSUME NEW j \in I PROVE j \in DOMAIN r /\ r[j] = "p"
    OBVIOUS
  <2>1. j - d \in 1 .. m /\ j = d + (j - d)
    OBVIOUS
  <2>. QED  BY <2>1
<1>4. Cardinality(I) = m
  <2>. DEFINE a == d + 1
              b == d + m
  <2>1. a \in Int /\ b \in Int /\ (a <= b => b - a + 1 = m) /\ (~(a <= b) => m = 0)
    OBVIOUS
  <2>. HIDE DEF a, b
  <2>2. Cardinality(a .. b) = IF a > b THEN 0 ELSE b - a + 1
    BY <2>1, FS_Interval
  <2>3. Cardinality(a .. b) = m
    BY <2>1, <2>2
  <2>. QED  BY <2>3 DEF a, b
<1>. HIDE DEF I, K
<1>5. Cardinality(I) <= Cardinality(K) /\ Cardinality(K) \in Nat
  <2>1. Cardinality(I) <= Cardinality(K)
    BY <1>2, <1>3, FS_Subset
  <2>2. Cardinality(K) \in Nat
    BY <1>2, FS_CardinalityType
  <2>. QED  BY <2>1, <2>2
<1>. QED  BY <1>4, <1>5 DEF K

(* Nothing, joined. *)
LEMMA JoinedNone == Joined(<<>>) = <<>>
<1>. DEFINE a == 0
<1>. HIDE DEF a
<1>1. Joined(<<>>) = <<>> /\ Joined(<<a>>) = a
    BY JoinedOf
<1>. QED  BY <1>1

(* One part and two parts, joined. *)
LEMMA JoinedMore ==
    ASSUME NEW a, NEW b
    PROVE  Joined(<<a>>) = a /\ Joined(<<a, b>>) = a \o (<<"s">> \o b)
<1>. QED  BY JoinedOf

(* A part put behind at most one other stands at the end of the section
   and adds its own tokens.                                                *)
LEMMA JoinBehind ==
    ASSUME NEW o \in Seq(Char), NEW parts \in {<<>>, <<o>>}, NEW x \in Seq(Char)
    PROVE  /\ Joined(parts) \in Seq(Char) /\ Joined(Append(parts, x)) \in Seq(Char)
           /\ CountTokens(Joined(Append(parts, x))) = CountTokens(Joined(parts)) + CountTokens(x)
           /\ Behind(Joined(Append(parts, x)), x)
           /\ CountTokens(Joined(parts)) = IF parts = <<>> THEN 0 ELSE CountTokens(o)
<1>0. CountTokens(o) \in Nat /\ CountTokens(x) \in Nat /\ CountTokens(<<>>) = 0 /\ <<>> \in Seq(Char)
    BY CountType, CountOfNothing
<1>1. CASE parts = <<>>
  <2>0. Append(parts, x) = <<x>>
    BY <1>1
  <2>1. Append(parts, x) = <<x>> /\ Joined(parts) = <<>> /\ Joined(<<x>>) = x
    BY <1>1, <2>0, JoinedNone, JoinedMore
  <2>2. Behind(x, x)
    <3>1. 0 \in Nat /\ Len(x) = 0 + Len(x) /\ \A i \in 1 .. Len(x) : x[0 + i] = x[i]
      OBVIOUS
    <3>. QED  BY <3>1 DEF Behind
  <2>3. Joined(Append(parts, x)) = x /\ Joined(parts) = <<>>
    BY <1>1, <2>0, <2>1
  <2>4. CountTokens(Joined(Append(parts, x))) = CountTokens(Joined(parts)) + CountTokens(x)
    BY <1>0, <2>3
  <2>. QED  BY <1>0, <1>1, <2>2, <2>3, <2>4
<1>2. CASE parts = <<o>>
  <2>. DEFINE y == <<"s">> \o x
              z == o \o y
  <2>a. <<o>> # <<>>
    <3>1. Len(<<o>>) = 1 /\ Len(<<>>) = 0
      OBVIOUS
    <3>. QED  BY <3>1
  <2>b. Append(<<o>>, x) = <<o, x>>
    <3>. DEFINE l == Append(<<o>>, x)
                r == <<o, x>>
    <3>1. /\ l \in Seq(Seq(Char)) /\ Len(l) = 2 /\ l[1] = o /\ l[2] = x
      <4>1. <<o>> \in Seq(Seq(Char)) /\ Len(<<o>>) = 1 /\ <<o>>[1] = o
        OBVIOUS
      <4>. QED  BY <4>1, AppendProperties
    <3>2. /\ r \in Seq(Seq(Char)) /\ Len(r) = 2 /\ r[1] = o /\ r[2] = x
      OBVIOUS
    <3>. HIDE DEF l, r
    <3>3. Len(l) = Len(r) /\ \A i \in 1 .. Len(l) : l[i] = r[i]
      BY <3>1, <3>2
    <3>4. l = r
      BY <3>1, <3>2, <3>3, SeqEqual
    <3>. QED  BY <3>4 DEF l, r
  <2>0. Append(parts, x) = <<o, x>> /\ parts # <<>>
    BY <1>2, <2>a, <2>b
  <2>1. Append(parts, x) = <<o, x>> /\ Joined(parts) = o /\ Joined(<<o, x>>) = z /\ parts # <<>>
    BY <1>2, <2>0, JoinedMore
  <2>2. <<"s">> \in Seq(Char) /\ y \in Seq(Char) /\ Len(y) = 1 + Len(x) /\ y[1] = "s"
        /\ \A i \in 1 .. Len(x) : y[1 + i] = x[i]
    <3>1. <<"s">> \in Seq(Char) /\ Len(<<"s">>) = 1
      BY DEF Char
    <3>. QED  BY <3>1
  <2>3. CountTokens(<<"s">>) = 0
    <3>1. \A i \in 1 .. Len(<<"s">>) : <<"s">>[i] = "s"
      OBVIOUS
    <3>. QED  BY <2>2, <3>1, CountOfBlank
  <2>4. CountTokens(y) = CountTokens(<<"s">>) + CountTokens(x)
    <3>. DEFINE q == <<"s">>
    <3>1. q[Len(q)] # "w"
      OBVIOUS
    <3>2. Apart(q, x)
      BY <3>1 DEF Apart
    <3>. HIDE DEF q
    <3>3. q \in Seq(Char)
      BY <2>2 DEF q
    <3>4. CountTokens(q \o x) = CountTokens(q) + CountTokens(x)
      BY <3>2, <3>3, CountConcat
    <3>. QED  BY <3>4 DEF q, y
  <2>. HIDE DEF y
  <2>5. CountTokens(z) = CountTokens(o) + CountTokens(y)
    <3>1. Apart(o, y)
      BY <2>2 DEF Apart
    <3>. QED  BY <2>2, <3>1, CountConcat
  <2>6. z \in Seq(Char) /\ Len(z) = (Len(o) + 1) + Len(x) /\ Len(o) + 1 \in Nat
    <3>1. z \in Seq(Char) /\ Len(z) = Len(o) + Len(y)
      BY <2>2, ConcatProperties
    <3>2. Len(o) \in Nat /\ Len(x) \in Nat
      OBVIOUS
    <3>. HIDE DEF z
    <3>. QED  BY <2>2, <3>1, <3>2
  <2>7. ASSUME NEW i \in 1 .. Len(x) PROVE z[(Len(o) + 1) + i] = x[i]
    <3>1. 1 + i \in 1 .. Len(y) /\ (Len(o) + 1) + i = Len(o) + (1 + i)
      BY <2>2
    <3>2. z[Len(o) + (1 + i)] = y[1 + i]
      BY <2>2, <3>1
    <3>. QED  BY <2>2, <3>1, <3>2
  <2>8. Behind(z, x)
    <3>. HIDE DEF z
    <3>. QED  BY <2>6, <2>7 DEF Behind
  <2>9. Joined(Append(parts, x)) = z /\ Joined(parts) = o
    BY <1>2, <2>0, <2>1
  <2>. HIDE DEF z
  <2>10. CountTokens(z) = CountTokens(o) + CountTokens(x)
    BY <1>0, <2>3, <2>4, <2>5
  <2>. QED  BY <1>0, <2>6, <2>8, <2>9, <2>10, <2>0
<1>. QED  BY <1>1, <1>2

(* At most one part adds up with any other put behind it. *)
LEMMA PartsAddUp ==
    ASSUME NEW o \in Seq(Char), NEW parts \in {<<>>, <<o>>}
    PROVE  AddsUp(parts)
<1>. SUFFICES ASSUME NEW x \in Seq(Char)
              PROVE  /\ Joined(parts) \in Seq(Char) /\ Joined(Append(parts, x)) \in Seq(Char)
                     /\ CountTokens(Joined(Append(parts, x))) = CountTokens(Joined(parts)) + CountTokens(x)
                     /\ Behind(Joined(Append(parts, x)), x)
    BY DEF AddsUp
<1>. QED  BY JoinBehind, ZenonT(40)

(* What the previous summary leaves in the section that the notes go to. *)
LEMMA OldShare ==
    ASSUME NEW previous \in Seq(Char), NEW max \in Nat, NEW share \in Nat
    PROVE  LET old == TruncateTokens(Strip(previous), share, "end")
               sections == IF previous = <<>> THEN <<>> ELSE AppendWithBudget(<<>>, old, max)
           IN  \E o \in Seq(Char) : /\ sections \in {<<>>, <<o>>}
                                    /\ CountTokens(o) <= share /\ CountTokens(o) <= max
<1>. DEFINE strip == Strip(previous)
            old == TruncateTokens(strip, share, "end")
            sections == IF previous = <<>> THEN <<>> ELSE AppendWithBudget(<<>>, old, max)
            e == Joined(<<>>)
<1>0. strip \in Seq(Char)
    BY StripOf
<1>1. old \in Seq(Char) /\ CountTokens(old) <= share /\ CountTokens(old) \in Nat
  <2>. HIDE DEF strip
  <2>. QED  BY <1>0, TruncateType
<1>2. e = <<>> /\ CountTokens(e) = 0 /\ <<>> \in Seq(Char) /\ max - CountTokens(e) = max
  <2>1. e = <<>> /\ <<>> \in Seq(Char)
    BY JoinedNone
  <2>2. CountTokens(e) = 0
    BY <2>1, CountOfNothing
  <2>. HIDE DEF e
  <2>. QED  BY <2>1, <2>2
<1>. HIDE DEF old
<1>3. Joined(Append(<<>>, old)) = old /\ Append(<<>>, old) = <<old>>
  <2>1. Append(<<>>, old) = <<old>>
    OBVIOUS
  <2>2. Joined(<<old>>) = old
    BY JoinedMore
  <2>. QED  BY <2>1, <2>2
<1>4. CASE previous = <<>> \/ old = <<>>
  <2>1. sections = <<>>
    BY <1>4 DEF AppendWithBudget
  <2>2. <<>> \in Seq(Char) /\ CountTokens(<<>>) <= share /\ CountTokens(<<>>) <= max
    BY CountOfNothing
  <2>. QED  BY <2>1, <2>2 DEF old
<1>5. CASE previous # <<>> /\ old # <<>> /\ CountTokens(old) <= max
  <2>1. sections = <<old>>
    BY <1>2, <1>3, <1>5 DEF AppendWithBudget
  <2>. HIDE DEF sections
  <2>2. \E o \in Seq(Char) : sections \in {<<>>, <<o>>} /\ CountTokens(o) <= share /\ CountTokens(o) <= max
    BY <1>1, <1>5, <2>1
  <2>. QED  BY <2>2 DEF sections, old
<1>6. CASE previous # <<>> /\ old # <<>> /\ ~(CountTokens(old) <= max)
  <2>. DEFINE c == TruncateTokens(old, max, "end")
  <2>1. sections = IF c = <<>> THEN <<>> ELSE <<c>>
    <3>1. sections = IF c = <<>> THEN <<>> ELSE Append(<<>>, c)
      BY <1>2, <1>3, <1>6 DEF AppendWithBudget
    <3>. HIDE DEF c
    <3>2. Append(<<>>, c) = <<c>>
      OBVIOUS
    <3>. QED  BY <3>1, <3>2
  <2>2. c \in Seq(Char) /\ CountTokens(c) <= max /\ CountTokens(c) \in Nat
    BY <1>1, TruncateType
  <2>3. CountTokens(c) <= share
    BY <1>1, <1>6, <2>2
  <2>. HIDE DEF c, sections
  <2>4. \E o \in Seq(Char) : sections \in {<<>>, <<o>>} /\ CountTokens(o) <= share /\ CountTokens(o) <= max
    BY <2>1, <2>2, <2>3
  <2>. QED  BY <2>4 DEF sections, old
<1>. QED  BY <1>4, <1>5, <1>6

(* A text that ends with notes has at least these. *)
LEMMA MarksBehind ==
    ASSUME NEW r \in Seq(Char), NEW x \in Seq({"p"}), Behind(r, x)
    PROVE  MarksIn(r) >= Len(x)
<1>1. PICK d \in Nat : Len(r) = d + Len(x) /\ \A i \in 1 .. Len(x) : r[d + i] = x[i]
    BY DEF Behind
<1>2. Len(x) \in Nat /\ \A i \in 1 .. Len(x) : x[i] = "p"
    OBVIOUS
<1>. DEFINE m == Len(x)
<1>3. m \in Nat /\ Len(r) = d + m /\ \A i \in 1 .. m : r[d + i] = "p"
    BY <1>1, <1>2
<1>. HIDE DEF m
<1>4. Cardinality({i \in DOMAIN r : r[i] = "p"}) >= m
    BY <1>3, MarksAtEnd
<1>. QED  BY <1>4 DEF MarksIn, m

(* What a summary keeps of the notes. *)
LEMMA MergeKeepsNotes ==
    ASSUME NEW previous \in Seq(Char), NEW notes \in Seq({"p"}), notes # <<>>,
           NEW max \in Nat \ {0}, NEW least \in Nat
    PROVE  LET r == MergeSummary(previous, notes, max, least)
           IN  /\ CountTokens(r) <= max
               /\ MarksIn(r) >= Min({Len(notes), max - PreviousShare(max, least)})
<1>. DEFINE share == PreviousShare(max, least)
            old == TruncateTokens(Strip(previous), share, "end")
            sections == IF previous = <<>> THEN <<>> ELSE AppendWithBudget(<<>>, old, max)
            whole == AppendWithBudget(sections, notes, max)
            r == TruncateTokens(Joined(whole), max, "end")
            kept == MarksIn(r)
            N == Len(notes)
            low == Min({N, max - share})
<1>0. MergeSummary(previous, notes, max, least) = r
    BY DEF MergeSummary
<1>1. share \in Nat /\ max \in Nat /\ max > 0 /\ max \in Int
  <2>1. max \div 4 \in Nat /\ max \in Nat /\ max > 0 /\ max \in Int
    OBVIOUS
  <2>. DEFINE q == max \div 4
  <2>. HIDE DEF q
  <2>2. q \in Int /\ least \in Int /\ q \in Nat
    BY <2>1 DEF q
  <2>3. Max({least, q}) \in Nat
    BY <2>2, MinOfTwo
  <2>. QED  BY <2>1, <2>3 DEF PreviousShare, q
<1>. HIDE DEF share
<1>2. PICK o \in Seq(Char) : /\ sections \in {<<>>, <<o>>}
                             /\ CountTokens(o) <= share /\ CountTokens(o) <= max
  <2>. HIDE DEF sections
  <2>1. \E o \in Seq(Char) : /\ sections \in {<<>>, <<o>>}
                             /\ CountTokens(o) <= share /\ CountTokens(o) <= max
    BY <1>1, OldShare DEF sections
  <2>. QED  BY <2>1
<1>. HIDE DEF sections
<1>. DEFINE b == CountTokens(Joined(sections))
<1>3. /\ notes \in Seq(Char) /\ N \in Nat /\ CountTokens(notes) = N /\ N > 0
  <2>1. notes \in Seq(Char) /\ N \in Nat /\ \A i \in 1 .. Len(notes) : notes[i] \in {"c", "p"}
    BY DEF Char
  <2>2. N > 0
    BY <2>1, EmptySeq
  <2>. QED  BY <2>1, <2>2, CountOfInk
<1>4. b \in Nat /\ b <= share /\ b <= max
  <2>1. CountTokens(o) \in Nat
    BY CountType
  <2>2. b = IF sections = <<>> THEN 0 ELSE CountTokens(o)
    BY <1>2, <1>3, JoinBehind
  <2>. QED  BY <1>1, <1>2, <2>1, <2>2
<1>. HIDE DEF N
<1>5. low \in Int /\ low <= N /\ low <= max - share
  <2>. DEFINE x == max - share
  <2>1. x \in Int /\ N \in Int
    BY <1>1, <1>3
  <2>. HIDE DEF x
  <2>2. Min({N, x}) = IF N <= x THEN N ELSE x
    BY <2>1, MinOfTwo
  <2>. QED  BY <2>1, <2>2 DEF x
<1>. HIDE DEF low
<1>. DEFINE w == Joined(whole)
            left == max - b
            c == TruncateTokens(notes, left, "end")
<1>6. left \in Nat /\ left = max - b /\ left \in Int
    BY <1>1, <1>4
<1>. HIDE DEF left
<1>7. c \in Seq(Char)
    BY <1>3, <1>6, TruncateType
<1>8. \A x \in Seq(Char) : /\ Joined(sections) \in Seq(Char) /\ Joined(Append(sections, x)) \in Seq(Char)
                           /\ CountTokens(Joined(Append(sections, x))) = b + CountTokens(x)
                           /\ Behind(Joined(Append(sections, x)), x)
  <2>1. sections \in {<<>>, <<o>>}
    BY <1>2
  <2>. HIDE DEF sections
  <2>2. AddsUp(sections)
    BY <2>1, PartsAddUp
  <2>. QED  BY <2>2 DEF AddsUp
<1>9. /\ b + N <= max => whole = Append(sections, notes)
      /\ b + N > max => whole = IF c = <<>> THEN sections ELSE Append(sections, c)
  <2>0. CountTokens(Joined(Append(sections, notes))) = b + CountTokens(notes)
    BY <1>3, <1>8
  <2>1. CountTokens(Joined(Append(sections, notes))) = b + N /\ b + N \in Nat
    <3>. HIDE DEF b
    <3>. QED  BY <1>3, <1>4, <2>0
  <2>2. max - CountTokens(Joined(sections)) = left
    BY DEF left
  <2>. HIDE DEF c, b
  <2>. QED  BY <1>1, <2>1, <2>2 DEF AppendWithBudget, c
<1>. HIDE DEF whole, c
<1>10. w \in Seq(Char)
  <2>1. /\ Joined(sections) \in Seq(Char)
        /\ Joined(Append(sections, notes)) \in Seq(Char) /\ Joined(Append(sections, c)) \in Seq(Char)
    BY <1>3, <1>7, <1>8
  <2>2. whole \in {sections, Append(sections, notes), Append(sections, c)}
    <3>. HIDE DEF b
    <3>. QED  BY <1>1, <1>3, <1>4, <1>9
  <2>. QED  BY <2>1, <2>2
<1>. HIDE DEF w, b
<1>11. CountTokens(r) <= max /\ r \in Seq(Char) /\ (CountTokens(w) <= max => r = w)
  <2>1. r = TruncateTokens(w, max, "end")
    BY DEF w
  <2>. HIDE DEF r
  <2>2. TruncateTokens(w, max, "end") \in Seq(Char) /\ CountTokens(TruncateTokens(w, max, "end")) <= max
    BY <1>1, <1>10, TruncateType
  <2>3. CountTokens(w) <= max => TruncateTokens(w, max, "end") = w
    BY <1>1, <1>10, TruncateOf
  <2>. QED  BY <2>1, <2>2, <2>3
<1>. HIDE DEF r
<1>12. kept \in Nat
  <2>1. IsFiniteSet(DOMAIN r) /\ {i \in DOMAIN r : r[i] = "p"} \in SUBSET (DOMAIN r)
    <3>1. Len(r) \in Nat /\ DOMAIN r = 1 .. Len(r)
      BY <1>11
    <3>. QED  BY <3>1, FS_Interval
  <2>. DEFINE K == {i \in DOMAIN r : r[i] = "p"}
  <2>. HIDE DEF K
  <2>2. K \in SUBSET (DOMAIN r)
    BY DEF K
  <2>3. IsFiniteSet(K)
    BY <2>1, <2>2, FS_Subset
  <2>4. Cardinality(K) \in Nat
    BY <2>3, FS_CardinalityType
  <2>. QED  BY <2>4 DEF MarksIn, K
<1>13. CASE b + N <= max
  <2>1. whole = Append(sections, notes)
    BY <1>9, <1>13
  <2>2. CountTokens(w) = b + N /\ Behind(w, notes)
    BY <1>3, <1>8, <2>1 DEF w
  <2>3. r = w
    BY <1>11, <1>13, <2>2
  <2>4. kept >= Len(notes)
    BY <1>10, <2>2, <2>3, MarksBehind
  <2>5. kept >= low
    BY <1>3, <1>5, <1>12, <2>4 DEF N
  <2>. QED  BY <1>0, <1>11, <2>5 DEF low, N, share, r
<1>14. CASE left = 0
  <2>1. kept >= low
    BY <1>1, <1>4, <1>5, <1>6, <1>12, <1>14
  <2>. QED  BY <1>0, <1>11, <2>1 DEF low, N, share, r
<1>15. CASE b + N > max /\ left > 0
  <2>1. c \in Seq({"p"}) /\ Len(c) = left /\ CountTokens(c) = left
    <3>1. Len(notes) > left
      BY <1>1, <1>3, <1>4, <1>6, <1>15 DEF N
    <3>. QED  BY <1>6, <1>15, <3>1, TruncateMarks DEF c
  <2>2. whole = Append(sections, c)
    <3>1. c # <<>>
      BY <1>6, <1>15, <2>1
    <3>. QED  BY <1>9, <1>15, <3>1
  <2>3. CountTokens(w) = b + left /\ Behind(w, c)
    BY <1>7, <1>8, <2>1, <2>2 DEF w
  <2>4. r = w
    BY <1>1, <1>4, <1>6, <1>11, <2>3
  <2>5. kept >= Len(c)
    BY <1>10, <2>1, <2>3, <2>4, MarksBehind
  <2>6. kept >= low
    BY <1>1, <1>4, <1>5, <1>6, <1>12, <2>1, <2>5
  <2>. QED  BY <1>0, <1>11, <2>6 DEF low, N, share, r
<1>16. b + N <= max \/ left = 0 \/ (b + N > max /\ left > 0)
    BY <1>1, <1>3, <1>4, <1>6
<1>. QED  BY <1>13, <1>14, <1>15, <1>16

(* The history ends with the newest line. *)
LEMMA HistoryKeepsNewest ==
    ASSUME NEW previous \in Seq(Char), NEW notes \in Seq({"p"}), NEW max \in Nat \ {0}
    PROVE  LET r == BoundedHistory(previous, <<notes, <<"w">>>>, max, max, max)
           IN  CountTokens(r) <= max /\ Last(r) = "w"
<1>. DEFINE items == <<notes, <<"w">>>>
            lines == FitRecentLines(items, max)
            tail == Joined(lines)
            head == IF previous = <<>> THEN <<>> ELSE <<TruncateTokens(previous, max, "end")>>
            w == <<"w">>
            z == notes \o (<<"s">> \o w)
<1>1. max \in Nat /\ max > 0 /\ max \in Int /\ ~(max <= 0)
    OBVIOUS
<1>2. /\ notes \in Seq(Char) /\ w \in Seq(Char) /\ <<"s">> \in Seq(Char) /\ <<>> \in Seq(Char)
      /\ Len(w) = 1 /\ w[1] = "w"
    BY DEF Char
<1>3. /\ items \in Seq(Seq(Char)) /\ Len(items) = 2 /\ items[1] = notes /\ items[2] = w
    BY <1>2
<1>4. /\ z \in Seq(Char) /\ z # <<>> /\ z[Len(z)] = "w"
  <2>. DEFINE y == <<"s">> \o w
  <2>1. y \in Seq(Char) /\ Len(y) = 2 /\ y[2] = "w"
    BY <1>2
  <2>. HIDE DEF y
  <2>2. notes \o y \in Seq(Char) /\ Len(notes \o y) = Len(notes) + 2 /\ (notes \o y)[Len(notes) + 2] = "w"
    BY <1>2, <2>1, ConcatProperties
  <2>3. notes \o y # <<>>
    <3>1. Len(notes) \in Nat
      OBVIOUS
    <3>. QED  BY <2>2, <3>1
  <2>. QED  BY <2>2, <2>3 DEF y
<1>5. lines = <<w>> \/ lines = <<notes, w>>
  <2>. HIDE DEF items, w
  <2>1. lines = FitNewest(items, max, <<>>)
    BY <1>1 DEF FitRecentLines
  <2>2. Cost(items, <<>>, 1) <= max
    <3>1. Weights(items, <<>>)[2] = CountTokens(w)
      <4>1. <<>> \o w = w
        BY <1>2, ConcatEmptySeq
      <4>. QED  BY <1>3, <4>1 DEF Weights
    <3>2. CountTokens(w) \in Nat /\ CountTokens(w) <= 1
      BY <1>2, CountType
    <3>3. Cost(items, <<>>, 0) = 0
      BY <1>2, <1>3, CostOf
    <3>4. Cost(items, <<>>, 1) = Weights(items, <<>>)[2] + Cost(items, <<>>, 0)
      <4>. DEFINE k == 0
      <4>1. k \in 0 .. Len(items) - 1 /\ k + 1 = 1 /\ Len(items) - k = 2
        BY <1>3
      <4>. HIDE DEF k
      <4>2. Cost(items, <<>>, k + 1) = Weights(items, <<>>)[Len(items) - k] + Cost(items, <<>>, k)
        BY <1>2, <1>3, <4>1, CostOf
      <4>. QED  BY <4>1, <4>2 DEF k
    <3>. QED  BY <1>1, <3>1, <3>2, <3>3, <3>4
  <2>3. Cost(items, <<>>, 1) \in Nat
    <3>1. 1 \in 0 .. Len(items)
      BY <1>3
    <3>. QED  BY <1>2, <1>3, <3>1, CostOf
  <2>4. PICK k \in 0 .. Len(items) : lines = Newest(items, <<>>, k) /\ (k < Len(items) => k > 0)
    <3>. DEFINE e == <<>>
                m == max
    <3>1. e \in Seq(Char) /\ m \in Nat
      BY <1>1, <1>2
    <3>2. ~(Cost(items, e, 1) > m)
      BY <1>1, <2>2, <2>3
    <3>. HIDE DEF e, m
    <3>3. \E k \in 0 .. Len(items) : FitNewest(items, m, e) = Newest(items, e, k) /\ (k < Len(items) => k > 0)
      BY <1>3, <3>1, <3>2, FitNewestOf
    <3>. QED  BY <2>1, <3>3 DEF e, m
  <2>5. k = 1 \/ k = 2
    BY <1>3, <2>4
  <2>6. <<>> \o w = w /\ <<>> \o notes = notes
    BY <1>2, ConcatEmptySeq
  <2>7. CASE k = 1
    <3>1. Newest(items, <<>>, k) = [i \in 1 .. 1 |-> w]
      BY <1>3, <2>6, <2>7 DEF Newest
    <3>2. [i \in 1 .. 1 |-> w] = <<w>>
      OBVIOUS
    <3>. QED  BY <2>4, <3>1, <3>2
  <2>8. CASE k = 2
    <3>1. Newest(items, <<>>, k) = [i \in 1 .. 2 |-> items[i]]
      <4>1. \A i \in 1 .. 2 : <<>> \o items[Len(items) - k + i] = items[i]
        BY <1>3, <2>6, <2>8
      <4>. QED  BY <1>3, <2>8, <4>1 DEF Newest
    <3>2. [i \in 1 .. 2 |-> items[i]] = <<notes, w>>
      BY <1>3 DEF items
    <3>. QED  BY <2>4, <3>1, <3>2
  <2>. QED  BY <2>5, <2>7, <2>8
<1>6. tail \in Seq(Char) /\ tail # <<>> /\ tail[Len(tail)] = "w"
  <2>. HIDE DEF lines, w
  <2>1. Joined(<<w>>) = w /\ Joined(<<notes, w>>) = z
    BY JoinedMore
  <2>2. w # <<>> /\ w[Len(w)] = "w"
    <3>1. w # <<>>
      BY DEF w
    <3>2. w[Len(w)] = "w"
      BY <1>2
    <3>. QED  BY <3>1, <3>2
  <2>. HIDE DEF z
  <2>. QED  BY <1>2, <1>4, <1>5, <2>1, <2>2
<1>7. lines # <<>>
  <2>. HIDE DEF lines
  <2>1. \A a, b : <<a>> # <<>> /\ <<a, b>> # <<>>
    <3>. TAKE a, b
    <3>1. Len(<<a>>) = 1 /\ Len(<<a, b>>) = 2 /\ Len(<<>>) = 0
      OBVIOUS
    <3>. QED  BY <3>1
  <2>. QED  BY <1>5, <2>1
<1>. DEFINE parts == head \o <<tail>>
            j == Joined(parts)
<1>8. BoundedHistory(previous, items, max, max, max) = TruncateTokens(j, max, "end")
    BY <1>7 DEF BoundedHistory
<1>. HIDE DEF tail, lines
<1>9. j \in Seq(Char) /\ j # <<>> /\ j[Len(j)] = "w"
  <2>1. CASE previous = <<>>
    <3>1. parts = <<tail>>
      <4>1. <<tail>> \in Seq(Seq(Char))
        BY <1>6
      <4>. QED  BY <2>1, <4>1, ConcatEmptySeq
    <3>2. j = tail
      BY <3>1, JoinedMore
    <3>. QED  BY <1>6, <3>2
  <2>2. CASE previous # <<>>
    <3>. DEFINE t == TruncateTokens(previous, max, "end")
                y == <<"s">> \o tail
    <3>1. t \in Seq(Char)
      BY <1>1, TruncateType
    <3>. HIDE DEF t
    <3>2. <<t>> \o <<tail>> = <<t, tail>>
      <4>. DEFINE l == <<t>> \o <<tail>>
                  r == <<t, tail>>
      <4>1. <<t>> \in Seq(Seq(Char)) /\ <<tail>> \in Seq(Seq(Char)) /\ Len(<<t>>) = 1 /\ Len(<<tail>>) = 1
        BY <1>6, <3>1
      <4>2. l \in Seq(Seq(Char)) /\ Len(l) = 2
        BY <4>1, ConcatProperties
      <4>a. l[1] = t
        BY <4>1, ConcatProperties
      <4>b. l[2] = tail
        BY <4>1, ConcatProperties
      <4>3. r \in Seq(Seq(Char)) /\ Len(r) = 2 /\ r[1] = t /\ r[2] = tail
        BY <1>6, <3>1
      <4>. HIDE DEF l, r
      <4>4. Len(l) = Len(r) /\ \A i \in 1 .. Len(l) : l[i] = r[i]
        BY <4>2, <4>3, <4>a, <4>b
      <4>5. l = r
        BY <4>2, <4>3, <4>4, SeqEqual, ZenonT(40)
      <4>. QED  BY <4>5 DEF l, r
    <3>3. j = t \o y
      BY <2>2, <3>2, JoinedMore DEF t
    <3>4. y \in Seq(Char) /\ Len(y) = 1 + Len(tail) /\ Len(tail) > 0 /\ y[Len(y)] = "w"
      <4>1. Len(tail) \in Nat /\ Len(tail) > 0
        BY <1>6, EmptySeq
      <4>. QED  BY <1>2, <1>6, <4>1
    <3>. HIDE DEF y
    <3>6. Len(t) \in Nat /\ Len(y) \in Nat /\ Len(y) > 0 /\ Len(<<>>) = 0
      BY <1>6, <3>1, <3>4
    <3>a. Len(t) + Len(y) \in Len(t) + 1 .. Len(t) + Len(y) /\ (Len(t) + Len(y)) - Len(t) = Len(y)
      BY <3>6
    <3>b. t \o y \in Seq(Char) /\ Len(t \o y) = Len(t) + Len(y)
      BY <3>1, <3>4, ConcatProperties
    <3>c. (t \o y)[Len(t) + Len(y)] = y[(Len(t) + Len(y)) - Len(t)]
      BY <3>1, <3>4, <3>a, <3>6, <3>b, ConcatProperties
    <3>5. t \o y \in Seq(Char) /\ Len(t \o y) = Len(t) + Len(y) /\ (t \o y)[Len(t) + Len(y)] = "w"
      BY <3>4, <3>a, <3>b, <3>c
    <3>7. t \o y # <<>>
      BY <3>5, <3>6
    <3>. HIDE DEF j
    <3>. QED  BY <3>3, <3>5, <3>7
  <2>. QED  BY <2>1, <2>2
<1>. HIDE DEF j
<1>10. CountTokens(TruncateTokens(j, max, "end")) <= max
    BY <1>1, <1>9, TruncateType
<1>11. TruncateTokens(j, max, "end")[Len(TruncateTokens(j, max, "end"))] = "w"
    BY <1>1, <1>9, TruncateKeepsEnd
<1>. QED  BY <1>8, <1>10, <1>11 DEF Last, items

-----------------------------------------------------------------------------
(* Citations. *)

(* What the loops over an answer's numbers give stays a list of numbers. *)
LEMMA OnceType ==
    ASSUME NEW s \in Seq(Nat), NEW x \in Nat
    PROVE  Once(s, x) \in Seq(Nat)
<1>1. Append(s, x) \in Seq(Nat)
    OBVIOUS
<1>. QED  BY <1>1 DEF Once

(* It leaves a list of numbers. *)
LEMMA KeepType ==
    ASSUME NEW s \in Seq(Nat), NEW x \in Nat, NEW valid
    PROVE  Keep(s, x, valid) \in Seq(Nat)
<1>1. Append(s, x) \in Seq(Nat)
    OBVIOUS
<1>. QED  BY <1>1 DEF Keep

(* The citations of a text are found by a run over its numbers. *)
LEMMA OnceRuns ==
    ASSUME NEW seq \in Seq(Nat)
    PROVE  \E f : /\ Run(f, Len(seq), Seq(Nat), <<>>, OnceStep(seq))
                  /\ FoldLeft(Once, <<>>, seq) = f[Len(seq)]
<1>. DEFINE n == Len(seq)
            V == Seq(Nat)
            step == OnceStep(seq)
            iter == CHOOSE it : it = [s \in SUBSET (1 .. n) |->
                       IF s = {} THEN <<>> ELSE Once(it[s \ {Max(s)}], seq[Max(s)])]
<1>1. n \in Nat /\ DOMAIN seq = 1 .. n /\ \A i \in 1 .. n : seq[i] \in Nat
    OBVIOUS
<1>2. <<>> \in V /\ step \in [1 .. n -> [V -> V]]
  <2>1. <<>> \in V
    OBVIOUS
  <2>2. \A i \in 1 .. n : \A v \in V : Once(v, seq[i]) \in V
    BY <1>1, OnceType
  <2>. HIDE DEF V
  <2>. QED  BY <2>1, <2>2 DEF OnceStep, V
<1>3. FoldLeft(Once, <<>>, seq) = iter[1 .. n]
    BY <1>1 DEF FoldLeft, MapThenFoldSet
<1>. HIDE DEF n, V
<1>4. iter = [s \in SUBSET (1 .. n) |->
                       IF s = {} THEN <<>> ELSE Once(iter[s \ {Max(s)}], seq[Max(s)])]
  <2>1. PICK it : Folded(it, n, V, <<>>, step)
    <3>1. n \in Nat
      BY <1>1
    <3>. HIDE DEF step
    <3>. QED  BY <3>1, <1>2, FoldExists
  <2>2. ASSUME NEW s \in SUBSET (1 .. n), s # {}
        PROVE  it[s] = Once(it[s \ {Max(s)}], seq[Max(s)])
    <3>1. Max(s) \in 1 .. n /\ s \ {Max(s)} \in SUBSET (1 .. n)
      BY <1>1, <2>2, MaxOf
    <3>2. it[s \ {Max(s)}] \in V
      BY <2>1, <3>1 DEF Folded
    <3>3. it[s] = step[Max(s)][it[s \ {Max(s)}]]
      BY <2>1, <2>2 DEF Folded
    <3>. QED  BY <3>1, <3>2, <3>3 DEF OnceStep, n, V
  <2>3. it = [s \in SUBSET (1 .. n) |-> it[s]] /\ it[{}] = <<>>
    BY <2>1 DEF Folded
  <2>4. it = [s \in SUBSET (1 .. n) |->
                       IF s = {} THEN <<>> ELSE Once(it[s \ {Max(s)}], seq[Max(s)])]
    BY <2>2, <2>3
  <2>. QED  BY <2>4
<1>. HIDE DEF iter
<1>5. FoldSteps(iter, n, V, <<>>, step)
  <2>1. ASSUME NEW s \in SUBSET (1 .. n), s # {}, iter[s \ {Max(s)}] \in V
        PROVE  iter[s] = step[Max(s)][iter[s \ {Max(s)}]]
    <3>1. Max(s) \in 1 .. n
      BY <1>1, <2>1, MaxOf
    <3>2. iter[s] = Once(iter[s \ {Max(s)}], seq[Max(s)])
      BY <1>4, <2>1
    <3>. QED  BY <2>1, <3>1, <3>2 DEF OnceStep, n, V
  <2>2. iter[{}] = <<>>
    BY <1>4
  <2>. HIDE DEF step
  <2>. QED  BY <2>1, <2>2 DEF FoldSteps
<1>6. EndsAt(n, V, <<>>, step, iter[1 .. n])
  <2>1. n \in Nat
    BY <1>1
  <2>2. <<>> \in V
    BY <1>2
  <2>. HIDE DEF step
  <2>3. step \in [1 .. n -> [V -> V]]
    BY <1>2
  <2>4. FoldSteps(iter, n, V, <<>>, step)
    BY <1>5
  <2>. QED  BY <2>1, <2>2, <2>3, <2>4, FoldRuns
<1>. HIDE DEF step
<1>7. PICK f : Run(f, n, V, <<>>, step) /\ f[n] = iter[1 .. n]
    BY <1>6 DEF EndsAt
<1>8. FoldLeft(Once, <<>>, seq) = f[n]
    BY <1>3, <1>7
<1>9. Run(f, Len(seq), Seq(Nat), <<>>, OnceStep(seq))
    BY <1>7 DEF n, V, step
<1>10. FoldLeft(Once, <<>>, seq) = f[Len(seq)]
    BY <1>8 DEF n
<1>. QED  BY <1>9, <1>10

(* The numbers that name a record are kept by a run over the text. *)
LEMMA KeepRuns ==
    ASSUME NEW seq \in Seq(Nat), NEW valid
    PROVE  \E f : /\ Run(f, Len(seq), Seq(Nat), <<>>, KeepStep(seq, valid))
                  /\ KeptIn(seq, valid) = f[Len(seq)]
<1>. DEFINE n == Len(seq)
            V == Seq(Nat)
            step == KeepStep(seq, valid)
            iter == CHOOSE it : it = [s \in SUBSET (1 .. n) |->
                       IF s = {} THEN <<>> ELSE Keep(it[s \ {Max(s)}], seq[Max(s)], valid)]
<1>1. n \in Nat /\ DOMAIN seq = 1 .. n /\ \A i \in 1 .. n : seq[i] \in Nat
    OBVIOUS
<1>2. <<>> \in V /\ step \in [1 .. n -> [V -> V]]
  <2>1. <<>> \in V
    OBVIOUS
  <2>2. \A i \in 1 .. n : \A v \in V : Keep(v, seq[i], valid) \in V
    BY <1>1, KeepType
  <2>. HIDE DEF V
  <2>. QED  BY <2>1, <2>2 DEF KeepStep, V
<1>3. KeptIn(seq, valid) = iter[1 .. n]
    BY <1>1 DEF KeptIn, Keep, FoldLeft, MapThenFoldSet
<1>. HIDE DEF n, V
<1>4. iter = [s \in SUBSET (1 .. n) |->
                       IF s = {} THEN <<>> ELSE Keep(iter[s \ {Max(s)}], seq[Max(s)], valid)]
  <2>1. PICK it : Folded(it, n, V, <<>>, step)
    <3>1. n \in Nat
      BY <1>1
    <3>. HIDE DEF step
    <3>. QED  BY <3>1, <1>2, FoldExists
  <2>2. ASSUME NEW s \in SUBSET (1 .. n), s # {}
        PROVE  it[s] = Keep(it[s \ {Max(s)}], seq[Max(s)], valid)
    <3>1. Max(s) \in 1 .. n /\ s \ {Max(s)} \in SUBSET (1 .. n)
      BY <1>1, <2>2, MaxOf
    <3>2. it[s \ {Max(s)}] \in V
      BY <2>1, <3>1 DEF Folded
    <3>3. it[s] = step[Max(s)][it[s \ {Max(s)}]]
      BY <2>1, <2>2 DEF Folded
    <3>. QED  BY <3>1, <3>2, <3>3 DEF KeepStep, n, V
  <2>3. it = [s \in SUBSET (1 .. n) |-> it[s]] /\ it[{}] = <<>>
    BY <2>1 DEF Folded
  <2>4. it = [s \in SUBSET (1 .. n) |->
                       IF s = {} THEN <<>> ELSE Keep(it[s \ {Max(s)}], seq[Max(s)], valid)]
    BY <2>2, <2>3
  <2>. QED  BY <2>4
<1>. HIDE DEF iter
<1>5. FoldSteps(iter, n, V, <<>>, step)
  <2>1. ASSUME NEW s \in SUBSET (1 .. n), s # {}, iter[s \ {Max(s)}] \in V
        PROVE  iter[s] = step[Max(s)][iter[s \ {Max(s)}]]
    <3>1. Max(s) \in 1 .. n
      BY <1>1, <2>1, MaxOf
    <3>2. iter[s] = Keep(iter[s \ {Max(s)}], seq[Max(s)], valid)
      BY <1>4, <2>1
    <3>. QED  BY <2>1, <3>1, <3>2 DEF KeepStep, n, V
  <2>2. iter[{}] = <<>>
    BY <1>4
  <2>. HIDE DEF step
  <2>. QED  BY <2>1, <2>2 DEF FoldSteps
<1>6. EndsAt(n, V, <<>>, step, iter[1 .. n])
  <2>1. n \in Nat
    BY <1>1
  <2>2. <<>> \in V
    BY <1>2
  <2>. HIDE DEF step
  <2>3. step \in [1 .. n -> [V -> V]]
    BY <1>2
  <2>4. FoldSteps(iter, n, V, <<>>, step)
    BY <1>5
  <2>. QED  BY <2>1, <2>2, <2>3, <2>4, FoldRuns
<1>. HIDE DEF step
<1>7. PICK f : Run(f, n, V, <<>>, step) /\ f[n] = iter[1 .. n]
    BY <1>6 DEF EndsAt
<1>8. KeptIn(seq, valid) = f[n]
    BY <1>3, <1>7
<1>9. Run(f, Len(seq), Seq(Nat), <<>>, KeepStep(seq, valid))
    BY <1>7 DEF n, V, step
<1>10. KeptIn(seq, valid) = f[Len(seq)]
    BY <1>8 DEF n
<1>. QED  BY <1>9, <1>10

(* A run over one element more goes through the same values. *)
LEMMA RunsAgree ==
    ASSUME NEW n \in Nat, NEW V, NEW start, NEW step, NEW more, NEW f, NEW g,
           Run(f, n, V, start, step), Run(g, n + 1, V, start, more),
           \A i \in 1 .. n : step[i] = more[i]
    PROVE  g[n + 1] = more[n + 1][f[n]] /\ f[n] \in V
<1>. DEFINE T == {k \in 0 .. n : g[k] = f[k]}
<1>1. 0 \in T
    BY DEF Run
<1>2. ASSUME NEW k \in 0 .. n - 1, k \in T PROVE k + 1 \in T
  <2>1. k + 1 \in 1 .. n /\ k + 1 \in 1 .. n + 1 /\ (k + 1) - 1 = k
    BY <1>2
  <2>2. f[k + 1] = step[k + 1][f[k]] /\ g[k + 1] = more[k + 1][g[k]]
    BY <2>1 DEF Run
  <2>3. g[k + 1] = f[k + 1]
    BY <1>2, <2>1, <2>2
  <2>. QED  BY <2>1, <2>3
<1>. HIDE DEF T
<1>3. n \in T
  <2>1. n \in 0 .. n
    OBVIOUS
  <2>. QED  BY <1>1, <1>2, <2>1, UpTo
<1>4. g[n] = f[n] /\ f[n] \in V
    BY <1>3 DEF T, Run
<1>5. n + 1 \in 1 .. n + 1 /\ (n + 1) - 1 = n
    OBVIOUS
<1>6. g[n + 1] = more[n + 1][g[n]]
    BY <1>5 DEF Run
<1>. QED  BY <1>4, <1>6

(* A number at the end of a text is cited if it is not cited before. *)
LEMMA CitedInOf ==
    ASSUME NEW text \in Seq(Nat)
    PROVE  /\ CitedIn(text) \in Seq(Nat)
           /\ CitedIn(<<>>) = <<>>
           /\ \A x \in Nat : CitedIn(Append(text, x)) = Once(CitedIn(text), x)
<1>1. PICK f : Run(f, Len(text), Seq(Nat), <<>>, OnceStep(text)) /\ CitedIn(text) = f[Len(text)]
    BY OnceRuns DEF CitedIn
<1>2. CitedIn(text) \in Seq(Nat)
  <2>1. Len(text) \in 0 .. Len(text)
    OBVIOUS
  <2>. QED  BY <1>1, <2>1 DEF Run
<1>3. CitedIn(<<>>) = <<>>
  <2>. DEFINE e == <<>>
  <2>0. e \in Seq(Nat) /\ Len(e) = 0 /\ e = <<>>
    OBVIOUS
  <2>. HIDE DEF e
  <2>1. PICK g : Run(g, Len(e), Seq(Nat), <<>>, OnceStep(e)) /\ CitedIn(e) = g[Len(e)]
    BY <2>0, OnceRuns DEF CitedIn
  <2>2. g[0] = <<>>
    BY <2>1 DEF Run
  <2>. QED  BY <2>0, <2>1, <2>2
<1>4. ASSUME NEW x \in Nat PROVE CitedIn(Append(text, x)) = Once(CitedIn(text), x)
  <2>. DEFINE t == Append(text, x)
              n == Len(text)
  <2>1. n \in Nat /\ t \in Seq(Nat) /\ Len(t) = n + 1 /\ t[n + 1] = x /\ \A i \in 1 .. n : t[i] = text[i]
    OBVIOUS
  <2>. HIDE DEF t
  <2>2. PICK g : Run(g, Len(t), Seq(Nat), <<>>, OnceStep(t)) /\ CitedIn(t) = g[Len(t)]
    BY <2>1, OnceRuns DEF CitedIn
  <2>. HIDE DEF n
  <2>3. \A i \in 1 .. n : OnceStep(text)[i] = OnceStep(t)[i]
    BY <2>1 DEF OnceStep, n
  <2>4. Run(f, n, Seq(Nat), <<>>, OnceStep(text)) /\ Run(g, n + 1, Seq(Nat), <<>>, OnceStep(t))
    BY <1>1, <2>1, <2>2 DEF n
  <2>. DEFINE V == Seq(Nat)
              e == <<>>
              s == OnceStep(text)
              m == OnceStep(t)
  <2>5. Run(f, n, V, e, s) /\ Run(g, n + 1, V, e, m) /\ \A i \in 1 .. n : s[i] = m[i]
    BY <2>3, <2>4
  <2>. HIDE DEF V, e, s, m
  <2>6. g[n + 1] = m[n + 1][f[n]] /\ f[n] \in V
    BY <2>1, <2>5, RunsAgree
  <2>7. n + 1 \in 1 .. Len(t)
    BY <2>1
  <2>8. m[n + 1][f[n]] = Once(f[n], t[n + 1])
    BY <2>6, <2>7 DEF OnceStep, m, V
  <2>9. CitedIn(t) = Once(CitedIn(text), x)
    BY <1>1, <2>1, <2>2, <2>6, <2>8 DEF n
  <2>. QED  BY <2>9 DEF t
<1>. QED  BY <1>2, <1>3, <1>4

(* Where a list first names what it names at i. *)
LEMMA FirstOf ==
    ASSUME NEW list \in Seq(Nat), NEW i \in 1 .. Len(list)
    PROVE  /\ First(list, list[i]) \in 1 .. i
           /\ list[First(list, list[i])] = list[i]
           /\ (\A j \in 1 .. i - 1 : list[j] # list[i]) => First(list, list[i]) = i
<1>. DEFINE x == list[i]
            S == {j \in 1 .. Len(list) : list[j] = x}
            m == Min(S)
<1>1. S \in SUBSET Nat /\ i \in S
    OBVIOUS
<1>2. m \in S /\ \A y \in S : m <= y
  <2>. HIDE DEF S
  <2>. QED  BY <1>1, MinOf
<1>3. m \in DOMAIN list /\ list[m] = x /\ \A j \in 1 .. m - 1 : list[j] # x
  <2>1. m \in 1 .. Len(list) /\ list[m] = x
    BY <1>2
  <2>2. ASSUME NEW j \in 1 .. m - 1, list[j] = x PROVE FALSE
    <3>1. j \in S
      BY <2>1, <2>2
    <3>2. m <= j
      BY <1>2, <3>1
    <3>. HIDE DEF m
    <3>. QED  BY <2>1, <3>2
  <2>. QED  BY <2>1, <2>2
<1>. HIDE DEF m
<1>. DEFINE c == First(list, x)
<1>4. c \in DOMAIN list /\ list[c] = x /\ \A j \in 1 .. c - 1 : list[j] # x
    BY <1>3 DEF First
<1>5. c \in S
    BY <1>4
<1>. HIDE DEF c
<1>6. c <= i
  <2>. SUFFICES ASSUME c > i PROVE FALSE
    BY <1>4
  <2>1. i \in 1 .. c - 1
    BY <1>4
  <2>. QED  BY <1>4, <2>1
<1>7. (\A j \in 1 .. i - 1 : list[j] # x) => c = i
  <2>. SUFFICES ASSUME \A j \in 1 .. i - 1 : list[j] # x, c < i PROVE FALSE
    BY <1>4, <1>6
  <2>1. c \in 1 .. i - 1
    BY <1>4
  <2>. QED  BY <1>4, <2>1
<1>. QED  BY <1>4, <1>6, <1>7 DEF c

(* A list of numbers with one more behind it. *)
LEMMA AppendOf ==
    ASSUME NEW s \in Seq(Nat), NEW x \in Nat
    PROVE  LET t == Append(s, x)
           IN  /\ t \in Seq(Nat) /\ DOMAIN t = 1 .. Len(s) + 1 /\ DOMAIN s = 1 .. Len(s)
               /\ t[Len(s) + 1] = x /\ \A i \in 1 .. Len(s) : t[i] = s[i]
               /\ ToSet(t) = ToSet(s) \cup {x}
<1>. DEFINE t == Append(s, x)
<1>1. /\ t \in Seq(Nat) /\ DOMAIN t = 1 .. Len(s) + 1 /\ DOMAIN s = 1 .. Len(s) /\ Len(s) \in Nat
      /\ t[Len(s) + 1] = x /\ \A i \in 1 .. Len(s) : t[i] = s[i]
    OBVIOUS
<1>. HIDE DEF t
<1>2. ToSet(t) = ToSet(s) \cup {x}
  <2>1. ASSUME NEW y \in ToSet(t) PROVE y \in ToSet(s) \cup {x}
    <3>1. PICK i \in 1 .. Len(s) + 1 : t[i] = y
      BY <1>1, <2>1 DEF ToSet
    <3>2. i \in 1 .. Len(s) \/ i = Len(s) + 1
      BY <1>1
    <3>. QED  BY <1>1, <3>1, <3>2 DEF ToSet
  <2>2. ASSUME NEW y \in ToSet(s) \cup {x} PROVE y \in ToSet(t)
    <3>1. \E i \in 1 .. Len(s) + 1 : t[i] = y
      <4>1. CASE y = x
        <5>1. Len(s) + 1 \in 1 .. Len(s) + 1
          BY <1>1
        <5>. QED  BY <1>1, <4>1, <5>1
      <4>2. CASE y \in ToSet(s)
        <5>1. PICK i \in 1 .. Len(s) : s[i] = y
          BY <1>1, <4>2 DEF ToSet
        <5>2. i \in 1 .. Len(s) + 1
          BY <1>1
        <5>. QED  BY <1>1, <5>1, <5>2
      <4>. QED  BY <2>2, <4>1, <4>2
    <3>. QED  BY <1>1, <3>1 DEF ToSet
  <2>. QED  BY <2>1, <2>2
<1>. QED  BY <1>1, <1>2 DEF t

(* Another number of the answer keeps what is cited in order. *)
LEMMA CitedStep ==
    ASSUME NEW written \in Seq(Nat), NEW valid, NEW i \in 0 .. Len(written) - 1,
           NEW text, CitedUpTo(text, written, valid, i)
    PROVE  CitedUpTo(Keep(text, written[i + 1], valid), written, valid, i + 1)
<1>. DEFINE x == written[i + 1]
            c == CitedIn(text)
            d == CitedIn(Append(text, x))
            W(k) == {written[j] : j \in 1 .. k}
<1>1. i + 1 \in 1 .. Len(written) /\ x \in Nat /\ i \in Nat /\ i + 1 \in Nat
    OBVIOUS
<1>2. W(i + 1) = W(i) \cup {x}
  <2>1. \A j \in 1 .. i + 1 : j \in 1 .. i \/ j = i + 1
    BY <1>1
  <2>2. \A j \in 1 .. i : j \in 1 .. i + 1
    BY <1>1
  <2>3. i + 1 \in 1 .. i + 1
    BY <1>1
  <2>. QED  BY <2>1, <2>2, <2>3
<1>3. /\ text \in Seq(Nat) /\ c \in Seq(Nat) /\ IsInjective(c)
      /\ ToSet(c) = W(i) \cap valid
      /\ ToSet(text) = ToSet(c)
      /\ \A p, q \in DOMAIN c : p < q => First(written, c[p]) < First(written, c[q])
    BY DEF CitedUpTo
<1>4. Append(text, x) \in Seq(Nat) /\ ToSet(Append(text, x)) = ToSet(text) \cup {x}
    BY <1>1, <1>3, AppendOf
<1>5. d = Once(c, x)
    BY <1>1, <1>3, CitedInOf
<1>6. Contains(c, x) <=> x \in ToSet(c)
  <2>1. DOMAIN c = 1 .. Len(c)
    BY <1>3
  <2>. HIDE DEF c, x
  <2>. QED  BY <2>1 DEF Contains, ToSet
<1>. HIDE DEF W, c, x, d
<1>7. CASE x \notin valid
  <2>1. Keep(text, x, valid) = text /\ W(i + 1) \cap valid = W(i) \cap valid
    BY <1>2, <1>7 DEF Keep
  <2>. QED  BY <1>3, <2>1 DEF CitedUpTo, c, W, x
<1>8. CASE x \in valid /\ x \in ToSet(c)
  <2>1. Keep(text, x, valid) = Append(text, x) /\ d = c
    BY <1>5, <1>6, <1>8 DEF Keep, Once
  <2>2. ToSet(c) = W(i + 1) \cap valid /\ ToSet(Append(text, x)) = ToSet(c)
    BY <1>2, <1>3, <1>4, <1>8
  <2>3. CitedUpTo(Append(text, x), written, valid, i + 1)
    <3>1. CitedIn(Append(text, x)) = c
      BY <2>1 DEF d
    <3>. QED  BY <1>3, <1>4, <2>2, <3>1 DEF CitedUpTo, W
  <2>. QED  BY <2>1, <2>3 DEF x
<1>9. CASE x \in valid /\ x \notin ToSet(c)
  <2>1. Keep(text, x, valid) = Append(text, x) /\ d = Append(c, x)
    BY <1>5, <1>6, <1>9 DEF Keep, Once
  <2>2. /\ d \in Seq(Nat) /\ DOMAIN d = 1 .. Len(c) + 1 /\ DOMAIN c = 1 .. Len(c)
        /\ d[Len(c) + 1] = x /\ \A p \in 1 .. Len(c) : d[p] = c[p]
        /\ ToSet(d) = ToSet(c) \cup {x}
    BY <1>1, <1>3, <2>1, AppendOf
  <2>0. Len(c) \in Nat
    BY <1>3
  <2>3. ToSet(d) = W(i + 1) \cap valid /\ ToSet(Append(text, x)) = ToSet(d)
    BY <1>2, <1>3, <1>4, <1>9, <2>2
  <2>4. \A p \in 1 .. Len(c) : c[p] # x /\ c[p] \in W(i)
    <3>. SUFFICES ASSUME NEW p \in 1 .. Len(c) PROVE c[p] \in ToSet(c)
      BY <1>3, <1>9
    <3>. QED  BY <2>2 DEF ToSet
  <2>5. IsInjective(d)
    <3>. SUFFICES ASSUME NEW p \in 1 .. Len(c) + 1, NEW q \in 1 .. Len(c) + 1, d[p] = d[q]
                  PROVE  p = q
      BY <2>2 DEF IsInjective
    <3>1. (p \in 1 .. Len(c) \/ p = Len(c) + 1) /\ (q \in 1 .. Len(c) \/ q = Len(c) + 1)
      BY <2>0
    <3>. QED  BY <1>3, <2>2, <2>4, <3>1 DEF IsInjective
  <2>6. First(written, x) = i + 1
    <3>1. ASSUME NEW j \in 1 .. (i + 1) - 1 PROVE written[j] # x
      <4>1. j \in 1 .. i
        BY <1>1
      <4>2. written[j] \in W(i)
        BY <4>1 DEF W
      <4>. QED  BY <1>3, <1>9, <4>2
    <3>. QED  BY <1>1, <3>1, FirstOf DEF x
  <2>7. \A p \in 1 .. Len(c) : First(written, c[p]) <= i
    <3>. SUFFICES ASSUME NEW p \in 1 .. Len(c) PROVE First(written, c[p]) <= i
      OBVIOUS
    <3>1. PICK j \in 1 .. i : c[p] = written[j]
      BY <2>4 DEF W
    <3>2. j \in 1 .. Len(written)
      BY <1>1
    <3>3. First(written, written[j]) \in 1 .. j
      BY <3>2, FirstOf
    <3>. QED  BY <1>1, <3>1, <3>3
  <2>8. ASSUME NEW p \in 1 .. Len(c) + 1, NEW q \in 1 .. Len(c) + 1, p < q
        PROVE  First(written, d[p]) < First(written, d[q])
    <3>1. p \in 1 .. Len(c) /\ d[p] = c[p]
      <4>1. p < Len(c) + 1
        BY <2>0, <2>8
      <4>2. p \in 1 .. Len(c)
        BY <2>0, <4>1
      <4>. QED  BY <2>2, <4>2
    <3>2. CASE q \in 1 .. Len(c)
      BY <1>3, <2>2, <2>8, <3>1, <3>2
    <3>3. CASE q = Len(c) + 1
      <4>1. First(written, d[q]) = i + 1 /\ First(written, d[p]) <= i
        BY <2>2, <2>6, <2>7, <3>1, <3>3
      <4>2. First(written, d[p]) \in Int
        <5>1. PICK j \in 1 .. i : c[p] = written[j]
          BY <2>4, <3>1 DEF W
        <5>2. j \in 1 .. Len(written)
          BY <1>1
        <5>3. First(written, written[j]) \in 1 .. j
          BY <5>2, FirstOf
        <5>. QED  BY <3>1, <5>1, <5>3
      <4>. QED  BY <1>1, <4>1, <4>2
    <3>. QED  BY <2>0, <3>2, <3>3
  <2>9. CitedUpTo(Append(text, x), written, valid, i + 1)
    BY <1>4, <2>2, <2>3, <2>5, <2>8 DEF CitedUpTo, W, d
  <2>. QED  BY <2>1, <2>9 DEF x
<1>. QED  BY <1>7, <1>8, <1>9

(* So at the end of the answer. *)
LEMMA CitedAtEnd ==
    ASSUME NEW written \in Seq(Nat), NEW valid
    PROVE  CitedUpTo(KeptIn(written, valid), written, valid, Len(written))
<1>. DEFINE n == Len(written)
            V == Seq(Nat)
<1>1. PICK f : Run(f, n, V, <<>>, KeepStep(written, valid)) /\ KeptIn(written, valid) = f[n]
    BY KeepRuns
<1>. DEFINE T == {k \in 0 .. n : CitedUpTo(f[k], written, valid, k)}
<1>2. n \in Nat
    OBVIOUS
<1>3. 0 \in T
  <2>1. f[0] = <<>>
    BY <1>1 DEF Run
  <2>. DEFINE e == <<>>
  <2>2. e \in Seq(Nat) /\ CitedIn(e) = e
    BY CitedInOf
  <2>3. DOMAIN e = {} /\ ToSet(e) = {} /\ {written[j] : j \in 1 .. 0} = {}
    BY DEF ToSet
  <2>. HIDE DEF e
  <2>4. CitedUpTo(e, written, valid, 0)
    BY <2>2, <2>3 DEF CitedUpTo, IsInjective
  <2>. QED  BY <1>2, <2>1, <2>4 DEF e
<1>4. ASSUME NEW k \in 0 .. n - 1, k \in T PROVE k + 1 \in T
  <2>1. k + 1 \in 1 .. n /\ k \in 0 .. n /\ (k + 1) - 1 = k
    BY <1>2
  <2>2. f[k + 1] = KeepStep(written, valid)[k + 1][f[k]] /\ f[k] \in Seq(Nat)
    BY <1>1, <2>1 DEF Run
  <2>3. f[k + 1] = Keep(f[k], written[k + 1], valid)
    BY <2>1, <2>2 DEF KeepStep
  <2>4. CitedUpTo(f[k], written, valid, k)
    BY <1>4
  <2>5. CitedUpTo(Keep(f[k], written[k + 1], valid), written, valid, k + 1)
    BY <2>4, CitedStep
  <2>. QED  BY <2>1, <2>3, <2>5
<1>. HIDE DEF T
<1>5. n \in 0 .. n
    BY <1>2
<1>6. n \in T
  <2>. HIDE DEF n
  <2>. QED  BY <1>2, <1>3, <1>4, <1>5, UpTo
<1>. QED  BY <1>1, <1>6 DEF T

(* The evidence that is known has the numbers 1..n. *)
LEMMA RecordsOf ==
    ASSUME NEW n \in Nat
    PROVE  /\ Records(n) \in Seq([source : Nat]) /\ Len(Records(n)) = n /\ DOMAIN Records(n) = 1 .. n
           /\ \A i \in 1 .. n : Records(n)[i].source = i
<1>. QED  BY DEF Records

(* The fallback is the first two pieces of evidence. *)
LEMMA FallbackOf ==
    ASSUME NEW n \in Nat
    PROVE  LET f == Fallback(Records(n), 2)
           IN  Len(f) = Min({2, n}) /\ IsPrefix(f, Records(n))
<1>. DEFINE r == Records(n)
            k == Min({2, n})
            h == SubSeq(r, 1, k)
<1>1. r \in Seq([source : Nat]) /\ Len(r) = n
    BY RecordsOf
<1>2. Max({1, 2}) = 2 /\ Min({n, 2}) = k /\ k \in 0 .. n
  <2>. DEFINE a == 1
              b == 2
  <2>1. a \in Int /\ b \in Int /\ n \in Int /\ a <= b
    OBVIOUS
  <2>. HIDE DEF a, b
  <2>2. Max({a, b}) = b
    BY <2>1, MinOfTwo
  <2>3. Min({b, n}) = IF b <= n THEN b ELSE n
    BY <2>1, MinOfTwo
  <2>4. {n, b} = {b, n}
    OBVIOUS
  <2>. QED  BY <2>2, <2>3, <2>4 DEF a, b
<1>3. Fallback(r, 2) = h
  <2>. HIDE DEF k, r
  <2>. QED  BY <1>1, <1>2 DEF Fallback
<1>. HIDE DEF r, k
<1>4. Len(h) = k /\ h \in Seq([source : Nat])
  <2>. DEFINE R == [source : Nat]
  <2>1. r \in Seq(R) /\ Len(r) = n /\ k \in 0 .. n
    BY <1>1, <1>2
  <2>. HIDE DEF R
  <2>2. Len(h) = k /\ h \in Seq(R)
    BY <2>1
  <2>. QED  BY <2>2 DEF R
<1>5. SubSeq(h, 1, Len(h)) = h
  <2>. HIDE DEF h
  <2>. QED  BY <1>4
<1>6. IsPrefix(h, r)
  <2>1. Len(h) <= Len(r)
    BY <1>1, <1>2, <1>4
  <2>2. SubSeq(h, 1, Len(h)) = SubSeq(r, 1, Len(h))
    BY <1>4, <1>5
  <2>. HIDE DEF h
  <2>. QED  BY <2>1, <2>2 DEF IsPrefix
<1>. QED  BY <1>3, <1>4, <1>6 DEF r, k

(* An answer cites only evidence it was given, each piece once in the
   order of first use (answering.py, 74-103 and 210-227).                  *)
LEMMA CitingIsSound ==
    ASSUME NEW written \in Seq(Nat), NEW known \in Nat
    PROVE  CitesWell([answer |-> ValidCitations(written, Records(known)),
                      fallback |-> Fallback(Records(known), 2)], written, known)
<1>. DEFINE r == Records(known)
            valid == {r[i].source : i \in DOMAIN r}
            text == KeptIn(written, valid)
            c == CitedIn(text)
            found == [i \in DOMAIN c |-> r[CHOOSE j \in DOMAIN r : r[j].source = c[i]]]
            fallback == Fallback(r, 2)
            answer == ValidCitations(written, r)
            given == [answer |-> answer, fallback |-> fallback]
            cited == [i \in DOMAIN found |-> found[i].source]
<1>1. DOMAIN r = 1 .. known /\ \A i \in 1 .. known : r[i].source = i
    BY RecordsOf
<1>. HIDE DEF r
<1>2. valid = 1 .. known
    BY <1>1
<1>3. answer = [text |-> text, records |-> found]
    BY DEF ValidCitations, KeptIn, CitedIn
<1>. HIDE DEF answer, text, valid
<1>4. CitedUpTo(text, written, valid, Len(written))
    BY CitedAtEnd DEF text
<1>5. /\ c \in Seq(Nat) /\ IsInjective(c)
      /\ ToSet(c) = {written[j] : j \in 1 .. Len(written)} \cap 1 .. known
      /\ ToSet(text) = ToSet(c)
      /\ \A p, q \in DOMAIN c : p < q => First(written, c[p]) < First(written, c[q])
    BY <1>2, <1>4 DEF CitedUpTo
<1>6. ToSet(written) = {written[j] : j \in 1 .. Len(written)}
    BY SMTT(20) DEF ToSet
<1>. HIDE DEF c
<1>7. cited = c
  <2>1. DOMAIN found = DOMAIN c
    OBVIOUS
  <2>2. ASSUME NEW i \in DOMAIN c PROVE found[i].source = c[i]
    <3>1. c[i] \in 1 .. known
      BY <1>5 DEF ToSet
    <3>2. \E j \in DOMAIN r : r[j].source = c[i]
      BY <1>1, <3>1
    <3>. QED  BY <3>2
  <2>3. c = [i \in DOMAIN c |-> c[i]]
    BY <1>5
  <2>. HIDE DEF found
  <2>. QED  BY <2>1, <2>2, <2>3
<1>8. Len(fallback) = Min({2, known}) /\ IsPrefix(fallback, r)
    BY FallbackOf DEF r
<1>. HIDE DEF fallback, found
<1>9. cited = [i \in DOMAIN given.answer.records |-> given.answer.records[i].source]
      /\ given.answer.text = text /\ given.fallback = fallback
    BY <1>3
<1>. HIDE DEF cited, given
<1>10. CitesWell(given, written, known)
  <2>1. [i \in DOMAIN given.answer.records |-> given.answer.records[i].source] = c
    BY <1>7, <1>9
  <2>. QED  BY <1>5, <1>6, <1>8, <1>9, <2>1 DEF CitesWell, r
<1>. QED  BY <1>10 DEF given, answer, fallback, r

-----------------------------------------------------------------------------
(* Evidence. *)

(* A result is left out, fills the evidence, or is cited with as much of its
   text as there is room for.                                              *)
LEMMA CiteOf ==
    ASSUME NEW s \in EvidenceState, NEW r \in Result, NEW limit \in Nat
    PROVE  \/ (s.full \/ r.text = 0) /\ Cite(s, r, limit) = s
           \/ /\ ~s.full /\ r.text > 0 /\ s.used + r.header >= limit
              /\ Cite(s, r, limit) = [s EXCEPT !.full = TRUE]
           \/ /\ ~s.full /\ r.text > 0
              /\ \E t \in Nat \ {0} : /\ s.used + r.header + t <= limit
                                      /\ Cite(s, r, limit) = Cited(s, r, limit, t)
<1>. DEFINE remaining == limit - s.used - r.header
            t == Min({r.text, remaining})
<1>1. s.used \in Nat /\ s.full \in BOOLEAN /\ r.text \in Nat /\ r.header \in Nat /\ remaining \in Int
    BY DEF EvidenceState, Result
<1>2. CASE s.full \/ r.text = 0
    BY <1>2 DEF Cite
<1>3. CASE ~s.full /\ r.text > 0 /\ remaining <= 0
  <2>1. Cite(s, r, limit) = [s EXCEPT !.full = TRUE]
    BY <1>1, <1>3 DEF Cite
  <2>. QED  BY <1>1, <1>3, <2>1
<1>4. CASE ~s.full /\ r.text > 0 /\ remaining > 0
  <2>1. t = IF r.text <= remaining THEN r.text ELSE remaining
    <3>. HIDE DEF remaining
    <3>1. r.text \in Int /\ remaining \in Int
      BY <1>1
    <3>. DEFINE a == r.text
    <3>2. a \in Int
      BY <3>1
    <3>. HIDE DEF a
    <3>3. Min({a, remaining}) = IF a <= remaining THEN a ELSE remaining
      BY <3>1, <3>2, MinOfTwo
    <3>. QED  BY <3>3 DEF a
  <2>2. t \in Nat \ {0} /\ t <= remaining
    <3>. HIDE DEF t, remaining
    <3>. QED  BY <1>1, <1>4, <2>1
  <2>3. Cite(s, r, limit) = Cited(s, r, limit, t)
    BY <1>1, <1>4 DEF Cite, Cited
  <2>4. s.used + r.header + t <= limit
    <3>. HIDE DEF t
    <3>. QED  BY <1>1, <2>2
  <2>. HIDE DEF t, remaining
  <2>. QED  BY <1>4, <2>2, <2>3, <2>4
<1>. HIDE DEF t
<1>. QED  BY <1>1, <1>2, <1>3, <1>4

(* A result cited leaves a state of that type. *)
LEMMA CiteType ==
    ASSUME NEW s \in EvidenceState, NEW r \in Result, NEW limit \in Nat
    PROVE  Cite(s, r, limit) \in EvidenceState
<1>1. [s EXCEPT !.full = TRUE] \in EvidenceState
    BY DEF EvidenceState
<1>2. ASSUME NEW t \in Nat PROVE Cited(s, r, limit, t) \in EvidenceState
  <2>. DEFINE R == [source : Nat, chunk : Nat, text : Nat]
              x == [source |-> Len(s.records) + 1, chunk |-> r.chunk, text |-> t]
  <2>1. /\ s.used \in Nat /\ s.length \in Nat /\ r.header \in Nat /\ r.chunk \in Nat
        /\ s.records \in Seq(R) /\ Separator = 2
    BY DEF EvidenceState, Result, Separator
  <2>2. x \in R
    BY <2>1
  <2>. HIDE DEF R, x
  <2>3. Append(s.records, x) \in Seq(R)
    BY <2>1, <2>2
  <2>4. /\ s.length + r.header + t + (IF s.records = <<>> THEN 0 ELSE 2) \in Nat
        /\ s.used + r.header + t + Separator \in Nat
        /\ (s.used + r.header + t + Separator >= limit) \in BOOLEAN
    <3>. DEFINE u == s.used
                l == s.length
                h == r.header
                g == IF s.records = <<>> THEN 0 ELSE 2
    <3>1. u \in Nat /\ l \in Nat /\ h \in Nat /\ g \in Nat
      BY <2>1
    <3>. HIDE DEF u, l, h, g
    <3>2. l + h + t + g \in Nat /\ u + h + t + Separator \in Nat
          /\ (u + h + t + Separator >= limit) \in BOOLEAN
      BY <2>1, <3>1
    <3>. QED  BY <3>2 DEF u, l, h, g
  <2>. QED  BY <2>3, <2>4 DEF Cited, EvidenceState, R, x
<1>3. Cite(s, r, limit) = s \/ Cite(s, r, limit) = [s EXCEPT !.full = TRUE]
      \/ \E t \in Nat : Cite(s, r, limit) = Cited(s, r, limit, t)
    BY CiteOf
<1>. QED  BY <1>1, <1>2, <1>3

(* The evidence is found by a run over the results. *)
LEMMA EvidenceRuns ==
    ASSUME NEW results \in Seq(Result), NEW limit \in Nat
    PROVE  \E f : /\ Run(f, Len(results), EvidenceState, NoEvidence, CiteStep(results, limit))
                  /\ BuildEvidence(results, limit) = f[Len(results)]
<1>. DEFINE n == Len(results)
            V == EvidenceState
            step == CiteStep(results, limit)
            iter == CHOOSE it : it = [s \in SUBSET (1 .. n) |->
                       IF s = {} THEN NoEvidence ELSE Cite(it[s \ {Max(s)}], results[Max(s)], limit)]
<1>1. n \in Nat /\ DOMAIN results = 1 .. n /\ \A i \in 1 .. n : results[i] \in Result
    OBVIOUS
<1>2. NoEvidence \in V /\ step \in [1 .. n -> [V -> V]]
  <2>1. NoEvidence \in V
    BY DEF NoEvidence, EvidenceState
  <2>2. \A i \in 1 .. n : \A v \in V : Cite(v, results[i], limit) \in V
    BY <1>1, CiteType
  <2>. HIDE DEF V
  <2>. QED  BY <2>1, <2>2 DEF CiteStep, V
<1>3. BuildEvidence(results, limit) = iter[1 .. n]
    BY <1>1 DEF BuildEvidence, NoEvidence, FoldLeft, MapThenFoldSet
<1>. HIDE DEF n, V
<1>4. iter = [s \in SUBSET (1 .. n) |->
                       IF s = {} THEN NoEvidence ELSE Cite(iter[s \ {Max(s)}], results[Max(s)], limit)]
  <2>1. PICK it : Folded(it, n, V, NoEvidence, step)
    <3>1. n \in Nat
      BY <1>1
    <3>. HIDE DEF step
    <3>. QED  BY <3>1, <1>2, FoldExists
  <2>2. ASSUME NEW s \in SUBSET (1 .. n), s # {}
        PROVE  it[s] = Cite(it[s \ {Max(s)}], results[Max(s)], limit)
    <3>1. Max(s) \in 1 .. n /\ s \ {Max(s)} \in SUBSET (1 .. n)
      BY <1>1, <2>2, MaxOf
    <3>2. it[s \ {Max(s)}] \in V
      BY <2>1, <3>1 DEF Folded
    <3>3. it[s] = step[Max(s)][it[s \ {Max(s)}]]
      BY <2>1, <2>2 DEF Folded
    <3>. QED  BY <3>1, <3>2, <3>3 DEF CiteStep, n, V
  <2>3. it = [s \in SUBSET (1 .. n) |-> it[s]] /\ it[{}] = NoEvidence
    BY <2>1 DEF Folded
  <2>4. it = [s \in SUBSET (1 .. n) |->
                       IF s = {} THEN NoEvidence ELSE Cite(it[s \ {Max(s)}], results[Max(s)], limit)]
    BY <2>2, <2>3
  <2>. QED  BY <2>4
<1>. HIDE DEF iter
<1>5. FoldSteps(iter, n, V, NoEvidence, step)
  <2>1. ASSUME NEW s \in SUBSET (1 .. n), s # {}, iter[s \ {Max(s)}] \in V
        PROVE  iter[s] = step[Max(s)][iter[s \ {Max(s)}]]
    <3>1. Max(s) \in 1 .. n
      BY <1>1, <2>1, MaxOf
    <3>2. iter[s] = Cite(iter[s \ {Max(s)}], results[Max(s)], limit)
      BY <1>4, <2>1
    <3>. QED  BY <2>1, <3>1, <3>2 DEF CiteStep, n, V
  <2>2. iter[{}] = NoEvidence
    BY <1>4
  <2>. HIDE DEF step
  <2>. QED  BY <2>1, <2>2 DEF FoldSteps
<1>6. EndsAt(n, V, NoEvidence, step, iter[1 .. n])
  <2>1. n \in Nat
    BY <1>1
  <2>2. NoEvidence \in V
    BY <1>2
  <2>. HIDE DEF step
  <2>3. step \in [1 .. n -> [V -> V]]
    BY <1>2
  <2>4. FoldSteps(iter, n, V, NoEvidence, step)
    BY <1>5
  <2>. QED  BY <2>1, <2>2, <2>3, <2>4, FoldRuns
<1>. HIDE DEF step
<1>7. PICK f : Run(f, n, V, NoEvidence, step) /\ f[n] = iter[1 .. n]
    BY <1>6 DEF EndsAt
<1>8. BuildEvidence(results, limit) = f[n]
    BY <1>3, <1>7
<1>9. Run(f, Len(results), EvidenceState, NoEvidence, CiteStep(results, limit))
    BY <1>7 DEF n, V, step
<1>10. BuildEvidence(results, limit) = f[Len(results)]
    BY <1>8 DEF n
<1>. QED  BY <1>9, <1>10

(* Another result keeps it known. *)
LEMMA EvidenceStep ==
    ASSUME NEW results \in Seq(Result), NEW limit \in Nat, NEW i \in 0 .. Len(results) - 1,
           NEW s, EvidenceUpTo(s, results, limit, i)
    PROVE  EvidenceUpTo(Cite(s, results[i + 1], limit), results, limit, i + 1)
<1>. DEFINE r == results[i + 1]
            n == Len(s.records)
<1>1. i + 1 \in 1 .. Len(results) /\ i \in Nat /\ i + 1 \in Nat /\ r \in Result
    OBVIOUS
<1>2. PICK at : EvidenceAt(s, results, limit, i, at)
    BY DEF EvidenceUpTo
<1>3. /\ s \in EvidenceState /\ n \in Nat /\ s.used \in Nat /\ s.length \in Nat /\ s.full \in BOOLEAN
      /\ s.records \in Seq([source : Nat, chunk : Nat, text : Nat])
  <2>1. s \in EvidenceState
    BY <1>2 DEF EvidenceAt
  <2>. QED  BY <2>1 DEF EvidenceState
<1>4. /\ at \in [1 .. n -> 1 .. i]
      /\ \A p \in 1 .. n : /\ s.records[p].source = p /\ s.records[p].text > 0
                           /\ results[at[p]].text > 0 /\ s.records[p].chunk = results[at[p]].chunk
      /\ \A p \in 1 .. n : \A j \in 1 .. i :
            results[j].text > 0 /\ j < at[p] => \E k \in 1 .. p - 1 : at[k] = j
      /\ \A j \in 1 .. i : results[j].text > 0 =>
            (\E p \in 1 .. n : at[p] = j) \/ (s.full /\ Filled(s, results, limit, j))
      /\ s.full => Filled(s, results, limit, i)
      /\ IF n = 0 THEN s.length = 0 /\ s.used = 0 ELSE s.length + 2 = s.used /\ s.used <= limit + 2
    BY <1>2 DEF EvidenceAt
<1>5. r.text \in Nat /\ r.header \in Nat /\ r.chunk \in Nat
    BY <1>1 DEF Result
<1>6. \A j \in 1 .. i + 1 : j \in 1 .. i \/ j = i + 1
    BY <1>1
<1>7. at \in [1 .. n -> 1 .. i + 1] /\ \A p \in 1 .. n : at[p] <= i /\ at[p] \in 1 .. i
  <2>1. \A p \in 1 .. n : at[p] \in 1 .. i
    BY <1>4
  <2>2. \A k \in 1 .. i : k \in 1 .. i + 1 /\ k <= i
    BY <1>1
  <2>. QED  BY <1>4, <2>1, <2>2
<1>. HIDE DEF n, r
<1>8. \A p \in 1 .. n : \A j \in 1 .. i + 1 :
          results[j].text > 0 /\ j < at[p] => \E k \in 1 .. p - 1 : at[k] = j
  <2>. SUFFICES ASSUME NEW p \in 1 .. n, NEW j \in 1 .. i + 1, results[j].text > 0, j < at[p]
                PROVE  \E k \in 1 .. p - 1 : at[k] = j
    OBVIOUS
  <2>1. j \in 1 .. i
    BY <1>1, <1>7
  <2>. QED  BY <1>4, <2>1
<1>9. Filled(s, results, limit, i) => Filled(s, results, limit, i + 1)
  <2>1. \A k \in 1 .. i : k \in 1 .. i + 1
    BY <1>1
  <2>. QED  BY <2>1 DEF Filled
<1>10. CASE (s.full \/ r.text = 0) /\ Cite(s, r, limit) = s
  <2>1. ASSUME NEW j \in 1 .. i + 1, results[j].text > 0
        PROVE  (\E p \in 1 .. n : at[p] = j) \/ (s.full /\ Filled(s, results, limit, j))
    <3>1. CASE j \in 1 .. i
      BY <1>4, <2>1, <3>1
    <3>2. CASE j = i + 1
      <4>1. s.full
        BY <1>5, <1>10, <2>1, <3>2 DEF r
      <4>. QED  BY <1>4, <1>9, <3>2, <4>1
    <3>. QED  BY <1>6, <3>1, <3>2
  <2>2. EvidenceAt(s, results, limit, i + 1, at)
    BY <1>3, <1>4, <1>7, <1>8, <1>9, <2>1 DEF EvidenceAt, n
  <2>. QED  BY <1>10, <2>2 DEF EvidenceUpTo, r
<1>11. CASE /\ ~s.full /\ r.text > 0 /\ s.used + r.header >= limit
            /\ Cite(s, r, limit) = [s EXCEPT !.full = TRUE]
  <2>. DEFINE q == [s EXCEPT !.full = TRUE]
  <2>1. q \in EvidenceState /\ q.records = s.records /\ q.used = s.used /\ q.length = s.length /\ q.full
    BY <1>3 DEF EvidenceState
  <2>. HIDE DEF q
  <2>2. Filled(q, results, limit, i + 1)
    <3>1. i + 1 \in 1 .. i + 1
      BY <1>1
    <3>. QED  BY <1>11, <2>1, <3>1 DEF Filled, r
  <2>3. ASSUME NEW j \in 1 .. i + 1, results[j].text > 0
        PROVE  (\E p \in 1 .. n : at[p] = j) \/ (q.full /\ Filled(q, results, limit, j))
    <3>1. CASE j \in 1 .. i
      BY <1>4, <1>11, <2>3, <3>1
    <3>2. CASE j = i + 1
      BY <2>1, <2>2, <3>2
    <3>. QED  BY <1>6, <3>1, <3>2
  <2>4. EvidenceAt(q, results, limit, i + 1, at)
    <3>1. Len(q.records) = n
      BY <2>1 DEF n
    <3>2. \A p \in 1 .. n : /\ q.records[p].source = p /\ q.records[p].text > 0
                            /\ results[at[p]].text > 0 /\ q.records[p].chunk = results[at[p]].chunk
      BY <1>4, <2>1
    <3>3. IF n = 0 THEN q.length = 0 /\ q.used = 0 ELSE q.length + 2 = q.used /\ q.used <= limit + 2
      BY <1>4, <2>1
    <3>. QED  BY <1>7, <1>8, <2>1, <2>2, <2>3, <3>1, <3>2, <3>3 DEF EvidenceAt
  <2>. QED  BY <1>11, <2>4 DEF EvidenceUpTo, q, r
<1>12. CASE /\ ~s.full /\ r.text > 0
            /\ \E t \in Nat \ {0} : /\ s.used + r.header + t <= limit
                                    /\ Cite(s, r, limit) = Cited(s, r, limit, t)
  <2>1. PICK t \in Nat \ {0} : /\ s.used + r.header + t <= limit
                               /\ Cite(s, r, limit) = Cited(s, r, limit, t)
    BY <1>12
  <2>. DEFINE q == Cited(s, r, limit, t)
              x == [source |-> n + 1, chunk |-> r.chunk, text |-> t]
              on == [p \in 1 .. n + 1 |-> IF p = n + 1 THEN i + 1 ELSE at[p]]
  <2>2. q \in EvidenceState
    BY <1>1, <1>3, <2>1, CiteType DEF r
  <2>3. /\ q.records = Append(s.records, x)
        /\ q.length = s.length + r.header + t + (IF s.records = <<>> THEN 0 ELSE 2)
        /\ q.used = s.used + r.header + t + 2
        /\ q.full <=> s.used + r.header + t + 2 >= limit
    BY DEF Cited, Separator, n
  <2>4. /\ Len(q.records) = n + 1 /\ q.records[n + 1] = x /\ \A p \in 1 .. n : q.records[p] = s.records[p]
    <3>. DEFINE R == [source : Nat, chunk : Nat, text : Nat]
    <3>1. x \in R
      BY <1>3, <1>5, <2>1
    <3>. DEFINE sr == s.records
                ap == Append(sr, x)
    <3>. HIDE DEF R, x
    <3>2. s.records \in Seq(R)
      BY <1>3 DEF R
    <3>. HIDE DEF sr
    <3>3. Len(ap) = Len(sr) + 1 /\ ap[Len(sr) + 1] = x /\ \A p \in 1 .. Len(sr) : ap[p] = sr[p]
      BY <3>1, <3>2, AppendProperties DEF sr
    <3>. HIDE DEF q, ap
    <3>. QED  BY <2>3, <3>3 DEF sr, n, ap
  <2>5. x.source = n + 1 /\ x.chunk = r.chunk /\ x.text = t /\ t > 0
    BY <2>1
  <2>6. \A p \in 1 .. n + 1 : p \in 1 .. n \/ p = n + 1
    BY <1>3
  <2>. HIDE DEF q, x
  <2>7. /\ on \in [1 .. n + 1 -> 1 .. i + 1] /\ on[n + 1] = i + 1 /\ \A p \in 1 .. n : on[p] = at[p]
    <3>1. n + 1 \in 1 .. n + 1 /\ i + 1 \in 1 .. i + 1 /\ \A p \in 1 .. n : p \in 1 .. n + 1 /\ p # n + 1
      BY <1>1, <1>3
    <3>2. \A p \in 1 .. n : at[p] \in 1 .. i + 1
      BY <1>7
    <3>. QED  BY <2>6, <3>1, <3>2
  <2>. HIDE DEF on
  <2>8. ASSUME NEW p \in 1 .. n + 1
        PROVE  /\ q.records[p].source = p /\ q.records[p].text > 0
               /\ results[on[p]].text > 0 /\ q.records[p].chunk = results[on[p]].chunk
    <3>1. CASE p \in 1 .. n
      BY <1>4, <2>4, <2>7, <3>1, SMTT(20)
    <3>2. CASE p = n + 1
      BY <1>12, <2>4, <2>5, <2>7, <3>2 DEF r
    <3>. QED  BY <2>6, <3>1, <3>2
  <2>9. ASSUME NEW p \in 1 .. n + 1, NEW j \in 1 .. i + 1, results[j].text > 0, j < on[p]
        PROVE  \E k \in 1 .. p - 1 : on[k] = j
    <3>1. CASE p \in 1 .. n
      <4>1. PICK k \in 1 .. p - 1 : at[k] = j
        BY <1>8, <2>7, <2>9, <3>1
      <4>2. k \in 1 .. n
        BY <1>3, <3>1
      <4>. QED  BY <2>7, <4>1, <4>2
    <3>2. CASE p = n + 1
      <4>1. j \in 1 .. i
        BY <1>1, <2>7, <2>9, <3>2
      <4>2. PICK k \in 1 .. n : at[k] = j
        BY <1>4, <1>12, <2>9, <4>1
      <4>3. k \in 1 .. p - 1
        BY <1>3, <3>2
      <4>. QED  BY <2>7, <4>2, <4>3
    <3>. QED  BY <2>6, <3>1, <3>2
  <2>10. ASSUME NEW j \in 1 .. i + 1, results[j].text > 0
         PROVE  \E p \in 1 .. n + 1 : on[p] = j
    <3>1. CASE j \in 1 .. i
      <4>1. PICK k \in 1 .. n : at[k] = j
        BY <1>4, <1>12, <2>10, <3>1
      <4>2. k \in 1 .. n + 1
        BY <1>3
      <4>. QED  BY <2>7, <4>1, <4>2
    <3>2. CASE j = i + 1
      <4>1. n + 1 \in 1 .. n + 1
        BY <1>3
      <4>. QED  BY <2>7, <3>2, <4>1
    <3>. QED  BY <1>6, <3>1, <3>2
  <2>11. q.full => Filled(q, results, limit, i + 1)
    <3>1. i + 1 \in 1 .. i + 1
      BY <1>1
    <3>2. ASSUME q.full PROVE results[i + 1].text > 0 /\ q.used + results[i + 1].header >= limit
      <4>. DEFINE u == s.used
                  h == r.header
      <4>1. u \in Nat /\ h \in Nat /\ q.used = u + h + t + 2 /\ u + h + t + 2 >= limit
        BY <1>3, <1>5, <2>3, <3>2
      <4>2. results[i + 1].text > 0 /\ h = results[i + 1].header
        BY <1>12 DEF r
      <4>. HIDE DEF u, h
      <4>3. q.used + h >= limit
        BY <2>1, <4>1
      <4>. QED  BY <4>2, <4>3
    <3>. QED  BY <3>1, <3>2 DEF Filled
  <2>12. q.length + 2 = q.used /\ q.used <= limit + 2 /\ n + 1 # 0
    <3>1. (s.records = <<>>) <=> n = 0
      BY <1>3, EmptySeq DEF n
    <3>. DEFINE u == s.used
                l == s.length
                h == r.header
    <3>2. u \in Nat /\ l \in Nat /\ h \in Nat /\ q.used = u + h + t + 2 /\ u + h + t <= limit
          /\ q.length = l + h + t + (IF n = 0 THEN 0 ELSE 2)
          /\ (n = 0 => l = 0 /\ u = 0) /\ (n # 0 => l + 2 = u)
      BY <1>3, <1>4, <1>5, <2>1, <2>3, <3>1
    <3>. HIDE DEF u, l, h
    <3>. QED  BY <1>3, <2>1, <3>2
  <2>13. EvidenceAt(q, results, limit, i + 1, on)
    BY <2>2, <2>4, <2>7, <2>8, <2>9, <2>10, <2>11, <2>12 DEF EvidenceAt
  <2>. QED  BY <2>1, <2>13 DEF EvidenceUpTo, q, r
<1>. QED  BY <1>1, <1>3, <1>10, <1>11, <1>12, CiteOf DEF r

(* So at the end of the results. *)
LEMMA EvidenceAtEnd ==
    ASSUME NEW results \in Seq(Result), NEW limit \in Nat
    PROVE  EvidenceUpTo(BuildEvidence(results, limit), results, limit, Len(results))
<1>. DEFINE n == Len(results)
<1>1. PICK f : Run(f, n, EvidenceState, NoEvidence, CiteStep(results, limit))
               /\ BuildEvidence(results, limit) = f[n]
    BY EvidenceRuns
<1>. DEFINE T == {k \in 0 .. n : EvidenceUpTo(f[k], results, limit, k)}
<1>2. n \in Nat
    OBVIOUS
<1>3. 0 \in T
  <2>1. f[0] = NoEvidence
    BY <1>1 DEF Run
  <2>. DEFINE e == NoEvidence
              at == [p \in 1 .. 0 |-> p]
  <2>2. /\ e \in EvidenceState /\ Len(e.records) = 0 /\ e.length = 0 /\ e.used = 0 /\ ~e.full
        /\ 1 .. 0 = {}
    BY DEF NoEvidence, EvidenceState
  <2>3. at \in [1 .. 0 -> 1 .. 0]
    BY <2>2
  <2>. HIDE DEF e, at
  <2>4. EvidenceAt(e, results, limit, 0, at)
    BY <2>2, <2>3 DEF EvidenceAt
  <2>. QED  BY <1>2, <2>1, <2>4 DEF e, EvidenceUpTo
<1>4. ASSUME NEW k \in 0 .. n - 1, k \in T PROVE k + 1 \in T
  <2>1. k + 1 \in 1 .. n /\ k \in 0 .. n /\ (k + 1) - 1 = k
    BY <1>2
  <2>2. f[k + 1] = CiteStep(results, limit)[k + 1][f[k]] /\ f[k] \in EvidenceState
    BY <1>1, <2>1 DEF Run
  <2>3. f[k + 1] = Cite(f[k], results[k + 1], limit)
    BY <2>1, <2>2 DEF CiteStep
  <2>4. EvidenceUpTo(f[k], results, limit, k)
    BY <1>4
  <2>5. EvidenceUpTo(Cite(f[k], results[k + 1], limit), results, limit, k + 1)
    BY <2>4, EvidenceStep
  <2>. QED  BY <2>1, <2>3, <2>5
<1>. HIDE DEF T
<1>5. n \in 0 .. n
    BY <1>2
<1>6. n \in T
  <2>. HIDE DEF n
  <2>. QED  BY <1>2, <1>3, <1>4, <1>5, UpTo
<1>. QED  BY <1>1, <1>6 DEF T

(* The evidence keeps to its length, takes the results in order and
   numbers them 1..n (answering.py, 46-71).                                *)
LEMMA ProvingIsSound ==
    ASSUME NEW results \in Seq(Result), NEW limit \in Nat
    PROVE  EvidenceWell(BuildEvidence(results, limit), results, limit)
<1>. DEFINE s == BuildEvidence(results, limit)
            n == Len(s.records)
            m == Len(results)
            texts == {j \in DOMAIN results : results[j].text > 0}
<1>1. PICK at : EvidenceAt(s, results, limit, m, at)
    BY EvidenceAtEnd DEF EvidenceUpTo
<1>. HIDE DEF s
<1>2. /\ s \in EvidenceState
      /\ at \in [1 .. n -> 1 .. m]
      /\ \A p \in 1 .. n : /\ s.records[p].source = p /\ s.records[p].text > 0
                           /\ results[at[p]].text > 0 /\ s.records[p].chunk = results[at[p]].chunk
      /\ \A p \in 1 .. n : \A j \in 1 .. m :
            results[j].text > 0 /\ j < at[p] => \E k \in 1 .. p - 1 : at[k] = j
      /\ \A j \in 1 .. m : results[j].text > 0 =>
            (\E p \in 1 .. n : at[p] = j) \/ (s.full /\ Filled(s, results, limit, j))
      /\ IF n = 0 THEN s.length = 0 /\ s.used = 0 ELSE s.length + 2 = s.used /\ s.used <= limit + 2
    BY <1>1 DEF EvidenceAt
<1>3. DOMAIN results = 1 .. m /\ m \in Nat
    OBVIOUS
<1>4. s.length \in Nat /\ s.used \in Nat
    BY <1>2 DEF EvidenceState
<1>. HIDE DEF n, m
<1>5. s.length <= limit
    BY <1>2, <1>4
<1>6. at \in [1 .. n -> texts]
    BY <1>2, <1>3
<1>7. ASSUME NEW j \in texts
      PROVE  \/ \E i \in 1 .. n : at[i] = j
             \/ \E k \in texts : k <= j /\ s.used + results[k].header >= limit
  <2>. SUFFICES ASSUME Filled(s, results, limit, j)
                PROVE  \E k \in texts : k <= j /\ s.used + results[k].header >= limit
    BY <1>2, <1>3
  <2>1. PICK k \in 1 .. j : results[k].text > 0 /\ s.used + results[k].header >= limit
    BY DEF Filled
  <2>2. k \in 1 .. m /\ k <= j
    BY <1>3
  <2>. QED  BY <1>3, <2>1, <2>2
<1>8. \A i \in 1 .. n : \A j \in texts : j < at[i] => \E k \in 1 .. i - 1 : at[k] = j
    BY <1>2, <1>3
<1>9. EvidenceWell(s, results, limit)
  <2>1. \A i \in 1 .. n : /\ s.records[i].source = i /\ s.records[i].text > 0
                           /\ s.records[i].chunk = results[at[i]].chunk
                           /\ \A j \in texts : j < at[i] => \E k \in 1 .. i - 1 : at[k] = j
    BY <1>2, <1>8
  <2>. HIDE DEF texts
  <2>. DEFINE Taken(e) ==
                 /\ \A i \in 1 .. n : /\ s.records[i].source = i /\ s.records[i].text > 0
                                      /\ s.records[i].chunk = results[e[i]].chunk
                                      /\ \A j \in texts : j < e[i] => \E k \in 1 .. i - 1 : e[k] = j
                 /\ \A j \in texts : \/ \E i \in 1 .. n : e[i] = j
                                     \/ \E k \in texts : k <= j /\ s.used + results[k].header >= limit
  <2>2. Taken(at)
    BY <1>7, <2>1
  <2>. HIDE DEF Taken
  <2>3. \E e \in [1 .. n -> texts] : Taken(e)
    BY <1>6, <2>2
  <2>. QED  BY <1>5, <2>3 DEF EvidenceWell, n, texts, Taken
<1>. QED  BY <1>9 DEF s

-----------------------------------------------------------------------------
(* Windows around hits. *)

(* A finite set of natural numbers that is not empty has a largest one,
   and Max is it.                                                          *)
LEMMA MaxOfFinite ==
    ASSUME NEW S \in SUBSET Nat, IsFiniteSet(S), S # {}
    PROVE  Max(S) \in S /\ \A y \in S : y <= Max(S)
<1>. DEFINE n == Cardinality(S)
<1>1. n \in Nat /\ ExistsBijection(1 .. n, S)
    BY FS_CardinalityType
<1>. HIDE DEF n
<1>2. PICK e \in [1 .. n -> S] : \A x \in S : \E i \in 1 .. n : e[i] = x
  <2>1. PICK e \in Bijection(1 .. n, S) : TRUE
    BY <1>1 DEF ExistsBijection
  <2>. QED  BY <2>1 DEF Bijection, Injection, Surjection
<1>. DEFINE T == {k \in 0 .. n : \E m \in Nat : \A i \in 1 .. k : e[i] <= m}
<1>3. 0 \in T
  <2>1. \A i \in 1 .. 0 : e[i] <= 0
    OBVIOUS
  <2>. QED  BY <1>1, <2>1
<1>4. ASSUME NEW k \in 0 .. n - 1, k \in T PROVE k + 1 \in T
  <2>1. PICK m \in Nat : \A i \in 1 .. k : e[i] <= m
    BY <1>4
  <2>2. k + 1 \in 1 .. n /\ k + 1 \in 0 .. n /\ \A i \in 1 .. k + 1 : i \in 1 .. k \/ i = k + 1
    BY <1>1
  <2>3. e[k + 1] \in Nat /\ \A i \in 1 .. k : e[i] \in Nat
    <3>1. \A i \in 1 .. k : i \in 1 .. n
      BY <1>1
    <3>. QED  BY <2>2, <3>1
  <2>. DEFINE u == m + e[k + 1]
  <2>4. u \in Nat /\ \A i \in 1 .. k + 1 : e[i] <= u
    BY <2>1, <2>2, <2>3
  <2>. HIDE DEF u
  <2>. QED  BY <2>2, <2>4
<1>. HIDE DEF T
<1>5. n \in T
  <2>1. n \in 0 .. n
    BY <1>1
  <2>. QED  BY <1>1, <1>3, <1>4, <2>1, UpTo
<1>6. PICK m \in Nat : \A y \in S : y <= m
    BY <1>2, <1>5 DEF T
<1>. DEFINE B == {b \in Nat : \A y \in S : y <= b}
            u == Min(B)
<1>7. u \in B /\ \A b \in B : u <= b
  <2>1. B \in SUBSET Nat /\ B # {}
    BY <1>6
  <2>. HIDE DEF B
  <2>. QED  BY <2>1, MinOf
<1>8. u \in S
  <2>. SUFFICES ASSUME u \notin S PROVE FALSE
    OBVIOUS
  <2>0. u \in Nat /\ \A y \in S : y <= u
    BY <1>7
  <2>. HIDE DEF u
  <2>1. u \in Nat /\ \A y \in S : y < u /\ y \in Nat
    BY <2>0
  <2>2. u - 1 \in B
    <3>1. PICK x \in S : TRUE
      OBVIOUS
    <3>2. u - 1 \in Nat
      BY <2>1, <3>1
    <3>3. \A y \in S : y <= u - 1
      BY <2>1
    <3>. QED  BY <3>2, <3>3
  <2>. QED  BY <1>7, <2>1, <2>2
<1>9. S \in SUBSET Int /\ \A y \in S : y <= u
    BY <1>7
<1>. HIDE DEF u
<1>10. Max(S) = u
    BY <1>8, <1>9, MaxIs
<1>. QED  BY <1>8, <1>9, <1>10

(* The first and the last chunk of a document, and the turns that reach
   both.                                                                   *)
LEMMA LengthsOf ==
    ASSUME NEW t, Lengths(t)
    PROVE  LET lo == Min(DOMAIN t)
               hi == Max(DOMAIN t)
           IN  /\ lo \in DOMAIN t /\ hi \in DOMAIN t /\ lo \in Nat /\ hi \in Nat /\ lo <= hi
               /\ \A i \in DOMAIN t : lo <= i /\ i <= hi
               /\ Turns(t) = 2 * (hi - lo) + 3 /\ Turns(t) \in Nat
<1>. DEFINE D == DOMAIN t
            lo == Min(D)
            hi == Max(D)
<1>1. D \in SUBSET Nat /\ IsFiniteSet(D) /\ D # {}
    BY DEF Lengths
<1>. HIDE DEF D
<1>2. lo \in D /\ \A i \in D : lo <= i
    BY <1>1, MinOf
<1>3. hi \in D /\ \A i \in D : i <= hi
    BY <1>1, MaxOfFinite
<1>4. Turns(t) = 2 * (hi - lo) + 3
    BY DEF Turns, D
<1>. HIDE DEF lo, hi
<1>5. lo \in Nat /\ hi \in Nat /\ lo <= hi
    BY <1>1, <1>2, <1>3
<1>6. 2 * (hi - lo) + 3 \in Nat
    BY <1>5
<1>. QED  BY <1>2, <1>3, <1>4, <1>5, <1>6 DEF D, lo, hi

(* A turn: stop, take the next chunk of the side, or step over the side. *)
LEMMA TurnOf ==
    ASSUME NEW t, Lengths(t), NEW w \in WindowState(t), NEW budget \in Nat
    PROVE  LET i == Side(w)
               next == Turn(w, t, budget)
           IN  \/ w.ended /\ next = w
               \/ /\ ~w.ended /\ i \in DOMAIN t /\ w.used + t[i] > budget
                  /\ next = [w EXCEPT !.ended = TRUE]
               \/ /\ ~w.ended /\ i \in DOMAIN t /\ w.used + t[i] <= budget
                  /\ next = [Moved(w) EXCEPT !.chosen = @ \cup {i}, !.used = @ + t[i]]
               \/ /\ ~w.ended /\ i \notin DOMAIN t
                  /\ w.left < Min(DOMAIN t) /\ w.right > Max(DOMAIN t)
                  /\ next = [w EXCEPT !.ended = TRUE]
               \/ ~w.ended /\ i \notin DOMAIN t /\ next = Moved(w)
<1>. DEFINE i == Side(w)
            moved == IF w.onLeft THEN [w EXCEPT !.onLeft = FALSE, !.left = @ - 1]
                             ELSE [w EXCEPT !.onLeft = TRUE, !.right = @ + 1]
<1>1. moved = Moved(w)
  <2>1. w.onLeft \in BOOLEAN
    BY DEF WindowState
  <2>2. CASE w.onLeft
    BY <2>2 DEF Moved, WindowState
  <2>3. CASE ~w.onLeft
    BY <2>3 DEF Moved, WindowState
  <2>. QED  BY <2>1, <2>2, <2>3
<1>2. w.used \in Nat /\ w.ended \in BOOLEAN /\ (i \in DOMAIN t => t[i] \in Nat)
    BY DEF WindowState, Lengths
<1>. HIDE DEF moved
<1>3. Turn(w, t, budget) = CASE w.ended -> w
          [] ~w.ended /\ i \in DOMAIN t ->
                IF w.used + t[i] > budget THEN [w EXCEPT !.ended = TRUE]
                ELSE [moved EXCEPT !.chosen = @ \cup {i}, !.used = @ + t[i]]
          [] ~w.ended /\ i \notin DOMAIN t ->
                IF w.left < Min(DOMAIN t) /\ w.right > Max(DOMAIN t)
                THEN [w EXCEPT !.ended = TRUE]
                ELSE moved
    BY DEF Turn, moved, Side
<1>. HIDE DEF i
<1>4. CASE w.ended
  <2>1. Turn(w, t, budget) = w
    BY <1>3, <1>4
  <2>. QED  BY <1>4, <2>1
<1>5. CASE ~w.ended /\ i \in DOMAIN t
  <2>1. Turn(w, t, budget) = IF w.used + t[i] > budget THEN [w EXCEPT !.ended = TRUE]
                ELSE [moved EXCEPT !.chosen = @ \cup {i}, !.used = @ + t[i]]
    BY <1>3, <1>5
  <2>2. w.used + t[i] > budget \/ w.used + t[i] <= budget
    BY <1>2, <1>5
  <2>. QED  BY <1>1, <1>2, <1>5, <2>1, <2>2 DEF i
<1>6. CASE ~w.ended /\ i \notin DOMAIN t
  <2>1. Turn(w, t, budget) = IF w.left < Min(DOMAIN t) /\ w.right > Max(DOMAIN t)
                THEN [w EXCEPT !.ended = TRUE] ELSE moved
    BY <1>3, <1>6
  <2>. QED  BY <1>1, <1>6, <2>1 DEF i
<1>. QED  BY <1>2, <1>4, <1>5, <1>6

(* A turn leaves a state of that type. *)
LEMMA TurnType ==
    ASSUME NEW t, Lengths(t), NEW w \in WindowState(t), NEW budget \in Nat
    PROVE  Turn(w, t, budget) \in WindowState(t)
<1>. DEFINE i == Side(w)
            more == [Moved(w) EXCEPT !.chosen = @ \cup {i}, !.used = @ + t[i]]
<1>1. [w EXCEPT !.ended = TRUE] \in WindowState(t)
    BY DEF WindowState
<1>2. Moved(w) \in WindowState(t) /\ Moved(w).chosen = w.chosen /\ Moved(w).used = w.used
  <2>. DEFINE b == ~w.onLeft
              l == IF w.onLeft THEN w.left - 1 ELSE w.left
              r == IF w.onLeft THEN w.right ELSE w.right + 1
  <2>1. b \in BOOLEAN /\ l \in Int /\ r \in Int
    BY DEF WindowState
  <2>2. Moved(w) = [w EXCEPT !.onLeft = b, !.left = l, !.right = r]
    BY DEF Moved, WindowState
  <2>. HIDE DEF b, l, r
  <2>. QED  BY <2>1, <2>2 DEF WindowState
<1>3. i \in DOMAIN t => more \in WindowState(t)
  <2>. SUFFICES ASSUME i \in DOMAIN t PROVE more \in WindowState(t)
    OBVIOUS
  <2>1. t[i] \in Nat /\ w.used \in Nat /\ w.chosen \in SUBSET (DOMAIN t)
    BY DEF Lengths, WindowState
  <2>2. w.chosen \cup {i} \in SUBSET (DOMAIN t) /\ w.used + t[i] \in Nat
    BY <2>1
  <2>. HIDE DEF i
  <2>. QED  BY <1>2, <2>2 DEF WindowState
<1>4. \/ Turn(w, t, budget) \in {w, [w EXCEPT !.ended = TRUE], Moved(w)}
      \/ i \in DOMAIN t /\ Turn(w, t, budget) = more
  <2>. HIDE DEF i
  <2>. QED  BY TurnOf DEF i
<1>. HIDE DEF more, i
<1>. QED  BY <1>1, <1>2, <1>3, <1>4

(* The window is found by a run of turns. *)
LEMMA WindowRuns ==
    ASSUME NEW t, Lengths(t), NEW center \in DOMAIN t, NEW budget \in Nat
    PROVE  \E f : /\ Run(f, Turns(t), WindowState(t), FirstWindow(t, center), TurnStep(t, budget))
                  /\ ParentWindow(t, center, budget) = f[Turns(t)].chosen
<1>. DEFINE N == Turns(t)
            V == WindowState(t)
            start == FirstWindow(t, center)
            step == TurnStep(t, budget)
            after == CHOOSE f : f = [k \in 0 .. N |-> IF k = 0 THEN start ELSE Turn(f[k - 1], t, budget)]
<1>1. N \in Nat
    BY LengthsOf
<1>2. start \in V
  <2>1. center \in Int /\ t[center] \in Nat
    BY DEF Lengths
  <2>. QED  BY <2>1 DEF FirstWindow, WindowState
<1>3. step \in [1 .. N -> [V -> V]]
  <2>1. \A w \in V : Turn(w, t, budget) \in V
    BY TurnType
  <2>. HIDE DEF V, N
  <2>. QED  BY <2>1 DEF TurnStep, V, N
<1>4. ParentWindow(t, center, budget) = after[N].chosen
    BY DEF ParentWindow, FirstWindow
<1>. HIDE DEF N, V, start
<1>5. PICK f : Run(f, N, V, start, step)
  <2>. HIDE DEF step
  <2>. QED  BY <1>1, <1>2, <1>3, Rounds
<1>6. f = [k \in 0 .. N |-> IF k = 0 THEN start ELSE Turn(f[k - 1], t, budget)]
  <2>1. f = [k \in 0 .. N |-> f[k]] /\ f[0] = start
    BY <1>5 DEF Run
  <2>2. ASSUME NEW k \in 0 .. N, k # 0 PROVE f[k] = Turn(f[k - 1], t, budget)
    <3>1. k \in 1 .. N /\ k - 1 \in 0 .. N
      BY <1>1, <2>2
    <3>2. f[k] = step[k][f[k - 1]] /\ f[k - 1] \in V
      BY <1>5, <3>1 DEF Run
    <3>. QED  BY <3>1, <3>2 DEF TurnStep, V, N
  <2>3. f = [k \in 0 .. N |-> IF k = 0 THEN start ELSE Turn(f[k - 1], t, budget)]
    BY <2>1, <2>2
  <2>. QED  BY <2>3
<1>7. after = [k \in 0 .. N |-> IF k = 0 THEN start ELSE Turn(after[k - 1], t, budget)]
    BY <1>6
<1>. HIDE DEF after
<1>. DEFINE T == {k \in 0 .. N : after[k] = f[k]}
<1>8. 0 \in T
    BY <1>1, <1>6, <1>7
<1>9. ASSUME NEW k \in 0 .. N - 1, k \in T PROVE k + 1 \in T
  <2>1. k + 1 \in 0 .. N /\ k + 1 # 0 /\ (k + 1) - 1 = k
    BY <1>1
  <2>2. after[k + 1] = Turn(after[k], t, budget)
    BY <1>7, <2>1
  <2>3. f[k + 1] = Turn(f[k], t, budget)
    BY <1>6, <2>1
  <2>4. after[k] = f[k]
    BY <1>9
  <2>. QED  BY <2>1, <2>2, <2>3, <2>4
<1>. HIDE DEF T
<1>10. N \in T
  <2>1. N \in 0 .. N
    BY <1>1
  <2>. QED  BY <1>1, <1>8, <1>9, <2>1, UpTo
<1>11. ParentWindow(t, center, budget) = f[N].chosen
    BY <1>4, <1>10 DEF T
<1>. QED  BY <1>5, <1>11 DEF N, V, start, step

(* A turn keeps a window what it is. *)
LEMMA WindowStep ==
    ASSUME NEW t, Lengths(t), NEW center \in DOMAIN t, NEW budget \in Nat, NEW k \in Nat,
           NEW w, WindowAt(w, t, center, budget, k)
    PROVE  WindowAt(Turn(w, t, budget), t, center, budget, k + 1)
<1>. DEFINE i == Side(w)
            l == w.left
            r == w.right
            D == DOMAIN t
            moved == Moved(w)
            ended == [w EXCEPT !.ended = TRUE]
            more == [moved EXCEPT !.chosen = @ \cup {i}, !.used = @ + t[i]]
            q == Turn(w, t, budget)
<1>1. /\ w \in WindowState(t) /\ l \in Int /\ r \in Int /\ w.onLeft \in BOOLEAN /\ w.used \in Nat
      /\ w.ended \in BOOLEAN /\ w.chosen \in SUBSET D /\ center \in Int
  <2>1. w \in WindowState(t)
    BY DEF WindowAt
  <2>. QED  BY <2>1 DEF WindowState, Lengths
<1>2. /\ l < center /\ center < r
      /\ w.chosen = Within(t, l, r)
      /\ w.used = SumFunctionOnSet(t, w.chosen)
      /\ w.chosen = {center} \/ w.used <= budget
      /\ center - l = IF w.onLeft THEN r - center ELSE r - center + 1
      /\ ~w.ended => r - l = k + 2
      /\ w.ended => \/ l < Min(D) /\ r > Max(D)
                    \/ i \in D /\ w.used + t[i] > budget
    BY DEF WindowAt
<1>3. i = IF w.onLeft THEN l ELSE r
    BY DEF Side
<1>4. /\ ended \in WindowState(t) /\ ended.left = l /\ ended.right = r /\ ended.onLeft = w.onLeft
      /\ ended.chosen = w.chosen /\ ended.used = w.used /\ ended.ended /\ Side(ended) = i
  <2>1. ended \in WindowState(t) /\ ended.left = l /\ ended.right = r /\ ended.onLeft = w.onLeft
        /\ ended.chosen = w.chosen /\ ended.used = w.used /\ ended.ended
    BY <1>1 DEF WindowState
  <2>. HIDE DEF ended
  <2>. QED  BY <1>3, <2>1 DEF Side
<1>5. /\ moved \in WindowState(t) /\ moved.chosen = w.chosen /\ moved.used = w.used
      /\ moved.ended = w.ended /\ moved.onLeft = ~w.onLeft
      /\ moved.left = (IF w.onLeft THEN l - 1 ELSE l)
      /\ moved.right = (IF w.onLeft THEN r ELSE r + 1)
  <2>. DEFINE b == ~w.onLeft
              x == IF w.onLeft THEN w.left - 1 ELSE w.left
              y == IF w.onLeft THEN w.right ELSE w.right + 1
  <2>1. b \in BOOLEAN /\ x \in Int /\ y \in Int
    BY <1>1
  <2>2. Moved(w) = [w EXCEPT !.onLeft = b, !.left = x, !.right = y]
    BY <1>1 DEF Moved, WindowState
  <2>. HIDE DEF b, x, y
  <2>3. /\ moved \in WindowState(t) /\ moved.chosen = w.chosen /\ moved.used = w.used
        /\ moved.ended = w.ended /\ moved.onLeft = b /\ moved.left = x /\ moved.right = y
    BY <1>1, <2>1, <2>2 DEF WindowState
  <2>. HIDE DEF moved
  <2>. QED  BY <2>3 DEF b, x, y
<1>. HIDE DEF moved, ended
(* The sides after a move are again as far out as their turns say. *)
<1>6. /\ moved.left < center /\ center < moved.right
      /\ center - moved.left = IF moved.onLeft THEN moved.right - center ELSE moved.right - center + 1
      /\ ~w.ended => moved.right - moved.left = k + 1 + 2
  <2>. HIDE DEF l, r
  <2>. DEFINE ml == moved.left
              mr == moved.right
  <2>1. CASE w.onLeft
    <3>1. ml = l - 1 /\ mr = r /\ ~moved.onLeft /\ center - l = r - center
      BY <1>2, <1>5, <2>1
    <3>. HIDE DEF ml, mr
    <3>2. /\ ml < center /\ center < mr /\ center - ml = mr - center + 1
          /\ ~w.ended => mr - ml = k + 1 + 2
      BY <1>1, <1>2, <3>1
    <3>. QED  BY <3>1, <3>2 DEF ml, mr
  <2>2. CASE ~w.onLeft
    <3>1. ml = l /\ mr = r + 1 /\ moved.onLeft /\ center - l = r - center + 1
      BY <1>2, <1>5, <2>2
    <3>. HIDE DEF ml, mr
    <3>2. /\ ml < center /\ center < mr /\ center - ml = mr - center
          /\ ~w.ended => mr - ml = k + 1 + 2
      BY <1>1, <1>2, <3>1
    <3>. QED  BY <3>1, <3>2 DEF ml, mr
  <2>. QED  BY <1>1, <2>1, <2>2
<1>7. Within(t, moved.left, moved.right) = IF i \in D THEN w.chosen \cup {i} ELSE w.chosen
  <2>1. D \subseteq Int
    BY DEF Lengths
  <2>2. CASE w.onLeft
    <3>1. moved.left = l - 1 /\ moved.right = r /\ i = l
      BY <1>3, <1>5, <2>2
    <3>. HIDE DEF l, r, D, i
    <3>2. \A j \in D : (l - 1 < j /\ j < r) <=> (l < j /\ j < r) \/ j = l
      BY <1>1, <1>2, <2>1
    <3>. QED  BY <1>2, <3>1, <3>2 DEF Within, D
  <2>3. CASE ~w.onLeft
    <3>1. moved.left = l /\ moved.right = r + 1 /\ i = r
      BY <1>3, <1>5, <2>3
    <3>. HIDE DEF l, r, D, i
    <3>2. \A j \in D : (l < j /\ j < r + 1) <=> (l < j /\ j < r) \/ j = r
      BY <1>1, <1>2, <2>1
    <3>. QED  BY <1>2, <3>1, <3>2 DEF Within, D
  <2>. QED  BY <1>1, <2>2, <2>3
<1>8. i \notin w.chosen
  <2>. HIDE DEF l, r, i
  <2>. QED  BY <1>1, <1>2, <1>3 DEF Within
<1>. HIDE DEF q
<1>9. CASE w.ended /\ q = w
    BY <1>1, <1>2, <1>9 DEF WindowAt, q
<1>10. CASE q = ended /\ \/ i \in D /\ w.used + t[i] > budget
                         \/ l < Min(D) /\ r > Max(D)
  <2>1. WindowAt(ended, t, center, budget, k + 1)
    BY <1>2, <1>4, <1>10 DEF WindowAt
  <2>. QED  BY <1>10, <2>1 DEF q
<1>11. CASE ~w.ended /\ i \in D /\ w.used + t[i] <= budget /\ q = more
  <2>1. q \in WindowState(t)
    BY <1>1, TurnType DEF q
  <2>2. /\ more.left = moved.left /\ more.right = moved.right /\ more.onLeft = moved.onLeft
        /\ more.ended = moved.ended /\ more.chosen = w.chosen \cup {i} /\ more.used = w.used + t[i]
    BY <1>5 DEF WindowState
  <2>. HIDE DEF more
  <2>3. w.used + t[i] = SumFunctionOnSet(t, w.chosen \cup {i})
    <3>. DEFINE S == w.chosen \cup {i}
    <3>1. S \in SUBSET D /\ i \in S /\ S \ {i} = w.chosen
      BY <1>1, <1>8, <1>11
    <3>2. IsFiniteSet(D) /\ \A x \in D : t[x] \in Nat
      BY DEF Lengths
    <3>. HIDE DEF S, D, i
    <3>3. IsFiniteSet(S) /\ \A x \in S : t[x] \in Nat
      BY <3>1, <3>2, FS_Subset
    <3>4. SumFunctionOnSet(t, S) = t[i] + SumFunctionOnSet(t, S \ {i})
      BY <3>1, <3>3, SumOf
    <3>5. SumFunctionOnSet(t, S) = t[i] + w.used /\ t[i] \in Nat
      BY <1>2, <3>1, <3>3, <3>4
    <3>. QED  BY <1>1, <3>5 DEF S
  <2>4. WindowAt(more, t, center, budget, k + 1)
    <3>1. /\ more.left < center /\ center < more.right
          /\ center - more.left = IF more.onLeft THEN more.right - center ELSE more.right - center + 1
          /\ ~more.ended => more.right - more.left = k + 1 + 2
      BY <1>6, <2>2, <1>11
    <3>2. more.chosen = Within(t, more.left, more.right)
      BY <1>7, <1>11, <2>2
    <3>3. more.used = SumFunctionOnSet(t, more.chosen) /\ more.used <= budget
      BY <1>11, <2>2, <2>3
    <3>4. ~more.ended
      BY <1>5, <1>11, <2>2
    <3>. QED  BY <1>11, <2>1, <3>1, <3>2, <3>3, <3>4 DEF WindowAt
  <2>. QED  BY <1>11, <2>4 DEF q
<1>12. CASE ~w.ended /\ i \notin D /\ q = moved
  <2>1. WindowAt(moved, t, center, budget, k + 1)
    <3>1. moved.chosen = Within(t, moved.left, moved.right) /\ ~moved.ended
      BY <1>5, <1>7, <1>12
    <3>2. moved.used = SumFunctionOnSet(t, moved.chosen)
          /\ (moved.chosen = {center} \/ moved.used <= budget)
      BY <1>2, <1>5
    <3>. QED  BY <1>5, <1>6, <1>12, <3>1, <3>2 DEF WindowAt
  <2>. QED  BY <1>12, <2>1 DEF q
<1>13. \/ w.ended /\ q = w
       \/ q = ended /\ \/ i \in D /\ w.used + t[i] > budget
                       \/ l < Min(D) /\ r > Max(D)
       \/ ~w.ended /\ i \in D /\ w.used + t[i] <= budget /\ q = more
       \/ ~w.ended /\ i \notin D /\ q = moved
    BY <1>1, TurnOf DEF q, ended, moved
<1>. HIDE DEF i, l, r, D, more
<1>. QED  BY <1>9, <1>10, <1>11, <1>12, <1>13

(* So is the hit alone. *)
LEMMA WindowStart ==
    ASSUME NEW t, Lengths(t), NEW center \in DOMAIN t, NEW budget \in Nat
    PROVE  WindowAt(FirstWindow(t, center), t, center, budget, 0)
<1>. DEFINE w == FirstWindow(t, center)
<1>1. center \in Int /\ t[center] \in Nat /\ DOMAIN t \subseteq Int
    BY DEF Lengths
<1>2. w \in WindowState(t) /\ ~w.ended /\ w.onLeft /\ w.left = center - 1 /\ w.right = center + 1
      /\ w.chosen = {center} /\ w.used = t[center]
    BY <1>1 DEF FirstWindow, WindowState
<1>. HIDE DEF w
<1>3. w.chosen = Within(t, w.left, w.right)
    BY <1>1, <1>2 DEF Within
<1>4. SumFunctionOnSet(t, {center}) = t[center]
  <2>. DEFINE S == {center}
  <2>1. IsFiniteSet(S) /\ center \in S /\ S \ {center} = {} /\ \A x \in S : t[x] \in Nat
    BY <1>1, FS_Singleton
  <2>. HIDE DEF S
  <2>2. SumFunctionOnSet(t, S) = t[center] + SumFunctionOnSet(t, S \ {center})
        /\ SumFunctionOnSet(t, {}) = 0
    BY <2>1, SumOf
  <2>. QED  BY <1>1, <2>1, <2>2 DEF S
<1>5. WindowAt(w, t, center, budget, 0)
    BY <1>1, <1>2, <1>3, <1>4 DEF WindowAt
<1>. QED  BY <1>5 DEF w

(* When the turns are over, the window has ended or holds every chunk. *)
LEMMA WindowAtEnd ==
    ASSUME NEW t, Lengths(t), NEW center \in DOMAIN t, NEW budget \in Nat
    PROVE  \E v : \E k \in Nat : /\ WindowAt(v, t, center, budget, k)
                                 /\ ParentWindow(t, center, budget) = v.chosen
                                 /\ v.ended \/ v.chosen = DOMAIN t
<1>. DEFINE N == Turns(t)
            D == DOMAIN t
            lo == Min(D)
            hi == Max(D)
<1>1. /\ N \in Nat /\ N = 2 * (hi - lo) + 3 /\ lo \in Nat /\ hi \in Nat /\ lo <= hi
      /\ \A i \in D : lo <= i /\ i <= hi
    BY LengthsOf
<1>2. PICK f : /\ Run(f, N, WindowState(t), FirstWindow(t, center), TurnStep(t, budget))
               /\ ParentWindow(t, center, budget) = f[N].chosen
    BY WindowRuns
<1>. DEFINE T == {k \in 0 .. N : WindowAt(f[k], t, center, budget, k)}
<1>3. 0 \in T
  <2>1. f[0] = FirstWindow(t, center)
    BY <1>2 DEF Run
  <2>2. WindowAt(FirstWindow(t, center), t, center, budget, 0)
    BY WindowStart
  <2>. HIDE DEF N
  <2>. QED  BY <1>1, <2>1, <2>2
<1>4. ASSUME NEW k \in 0 .. N - 1, k \in T PROVE k + 1 \in T
  <2>1. k + 1 \in 1 .. N /\ k \in 0 .. N /\ (k + 1) - 1 = k /\ k + 1 \in 0 .. N /\ k \in Nat
    <3>. HIDE DEF N
    <3>. QED  BY <1>1
  <2>2. f[k + 1] = TurnStep(t, budget)[k + 1][f[k]] /\ f[k] \in WindowState(t)
    BY <1>2, <2>1 DEF Run
  <2>3. f[k + 1] = Turn(f[k], t, budget)
    BY <2>1, <2>2 DEF TurnStep
  <2>4. WindowAt(f[k], t, center, budget, k)
    BY <1>4
  <2>5. WindowAt(Turn(f[k], t, budget), t, center, budget, k + 1)
    BY <2>1, <2>4, WindowStep
  <2>. HIDE DEF N
  <2>. QED  BY <2>1, <2>3, <2>5
<1>. HIDE DEF T, N
<1>5. N \in T
  <2>1. N \in 0 .. N
    BY <1>1
  <2>. QED  BY <1>1, <1>3, <1>4, <2>1, UpTo
<1>. DEFINE v == f[N]
            l == v.left
            r == v.right
<1>6. WindowAt(v, t, center, budget, N)
    BY <1>5 DEF T
<1>. HIDE DEF v
<1>7. ASSUME ~v.ended PROVE v.chosen = D
  <2>1. /\ v \in WindowState(t) /\ l < center /\ center < r /\ v.chosen = Within(t, l, r)
        /\ center - l = IF v.onLeft THEN r - center ELSE r - center + 1
        /\ r - l = N + 2
    BY <1>6, <1>7 DEF WindowAt
  <2>2. l \in Int /\ r \in Int /\ center \in Int /\ D \subseteq Int /\ center \in D
    BY <2>1 DEF WindowState, Lengths
  <2>. HIDE DEF l, r, lo, hi, D
  <2>3. l < lo /\ hi < r
    <3>1. lo <= center /\ center <= hi /\ r - l = 2 * (hi - lo) + 5
      BY <1>1, <2>1, <2>2
    <3>2. center - l = r - center \/ center - l = r - center + 1
      BY <2>1
    <3>. QED  BY <1>1, <2>2, <3>1, <3>2
  <2>4. \A i \in D : l < i /\ i < r
    BY <1>1, <2>2, <2>3
  <2>. QED  BY <2>1, <2>4 DEF Within, D
<1>. QED  BY <1>1, <1>2, <1>6, <1>7 DEF v

(* How many numbers an interval has. *)
LEMMA SpanSize ==
    ASSUME NEW a \in Int, NEW b \in Int, a <= b + 1
    PROVE  IsFiniteSet(a .. b) /\ Cardinality(a .. b) = b - a + 1 /\ Cardinality(a .. b) \in Nat
<1>1. Cardinality(a .. b) = IF a > b THEN 0 ELSE b - a + 1
    BY FS_Interval
<1>2. IsFiniteSet(a .. b)
    BY FS_Interval
<1>. DEFINE c == Cardinality(a .. b)
<1>. HIDE DEF c
<1>3. c = IF a > b THEN 0 ELSE b - a + 1
    BY <1>1 DEF c
<1>4. c = b - a + 1 /\ c \in Nat
    BY <1>3
<1>. QED  BY <1>2, <1>4 DEF c

(* On each side of the hit a window on a run of rows holds what its turns
   reached, or all of the side.                                            *)
LEMMA SidesOf ==
    ASSUME NEW lo \in Int, NEW hi \in Int, NEW h \in lo .. hi, NEW l \in Int, NEW r \in Int,
           l < h, h < r, NEW w, w = Between(lo, hi, l, r)
    PROVE  /\ Reaches(Cardinality(Below(w, h)), Cardinality(Below(lo .. hi, h)), h - l - 1)
           /\ Reaches(Cardinality(Beyond(w, h)), Cardinality(Beyond(lo .. hi, h)), r - h - 1)
<1>. DEFINE L == {i \in w : i < h}
            R == {i \in w : i > h}
            a == IF l < lo THEN lo ELSE l + 1
            b == IF r > hi THEN hi ELSE r - 1
<1>0. w = {i \in lo .. hi : l < i /\ i < r}
    BY DEF Between
<1>1. L = a .. h - 1 /\ R = h + 1 .. b
    BY <1>0
<1>2. a \in Int /\ a <= h /\ h - a <= h - l - 1 /\ b \in Int /\ h <= b /\ b - h <= r - h - 1
    OBVIOUS
<1>3. Cardinality(a .. h - 1) = h - a /\ Cardinality(a .. h - 1) \in Nat
  <2>. DEFINE c == h - 1
  <2>. HIDE DEF a
  <2>1. c \in Int /\ a <= c + 1 /\ c - a + 1 = h - a
    BY <1>2
  <2>. HIDE DEF c
  <2>2. Cardinality(a .. c) = c - a + 1 /\ Cardinality(a .. c) \in Nat
    BY <1>2, <2>1, SpanSize
  <2>. QED  BY <2>1, <2>2 DEF c
<1>4. Cardinality(h + 1 .. b) = b - h /\ Cardinality(h + 1 .. b) \in Nat
  <2>. DEFINE c == h + 1
  <2>. HIDE DEF b
  <2>1. c \in Int /\ c <= b + 1 /\ b - c + 1 = b - h
    BY <1>2
  <2>. HIDE DEF c
  <2>2. Cardinality(c .. b) = b - c + 1 /\ Cardinality(c .. b) \in Nat
    BY <1>2, <2>1, SpanSize
  <2>. QED  BY <2>1, <2>2 DEF c
<1>5. l < lo => L = {i \in lo .. hi : i < h}
    BY <1>0
<1>6. r > hi => R = {i \in lo .. hi : i > h}
    BY <1>0
<1>7. (~(l < lo) => h - a = h - l - 1) /\ (~(r > hi) => b - h = r - h - 1)
    OBVIOUS
<1>. HIDE DEF L, R, a, b
<1>8. Cardinality(L) = h - a /\ Cardinality(L) \in Nat /\ Cardinality(R) = b - h /\ Cardinality(R) \in Nat
    BY <1>1, <1>3, <1>4
<1>9. Cardinality(L) <= h - l - 1 /\ Cardinality(R) <= r - h - 1
  <2>1. h \in Int
    OBVIOUS
  <2>. QED  BY <1>2, <1>8, <2>1
<1>10. Cardinality(L) >= h - l - 1 \/ L = {i \in lo .. hi : i < h}
    BY <1>5, <1>7, <1>8
<1>11. Cardinality(R) >= r - h - 1 \/ R = {i \in lo .. hi : i > h}
    BY <1>6, <1>7, <1>8
<1>. QED  BY <1>8, <1>9, <1>10, <1>11 DEF L, R, Below, Beyond, Reaches

(* A window that could grow on one side has not grown further on the
   other.                                                                  *)
LEMMA BalanceOf ==
    ASSUME NEW lo \in Int, NEW hi \in Int, NEW h \in lo .. hi, NEW l \in Int, NEW r \in Int,
           l < h, h < r, NEW w, w = Between(lo, hi, l, r),
           h - l = r - h \/ h - l = r - h + 1, NEW left \in BOOLEAN
    PROVE  SideSize(w, h, left) < SideSize(lo .. hi, h, left) =>
              SideSize(w, h, ~left) <= SideSize(w, h, left) + 1
<1>. DEFINE D == lo .. hi
            L == Cardinality(Below(w, h))
            R == Cardinality(Beyond(w, h))
            LD == Cardinality(Below(D, h))
            RD == Cardinality(Beyond(D, h))
            side(S, on) == SideSize(S, h, on)
<1>0. Reaches(L, LD, h - l - 1) /\ Reaches(R, RD, r - h - 1)
    BY SidesOf
<1>1. side(w, TRUE) = L /\ side(w, FALSE) = R /\ side(D, TRUE) = LD /\ side(D, FALSE) = RD
    BY DEF SideSize, Below, Beyond
<1>. HIDE DEF side, L, R, LD, RD, D
<1>2. /\ L \in Nat /\ L <= h - l - 1 /\ R \in Nat /\ R <= r - h - 1
      /\ L >= h - l - 1 \/ L = LD
      /\ R >= r - h - 1 \/ R = RD
    BY <1>0 DEF Reaches
<1>3. CASE left = TRUE
  <2>1. L < LD => R <= L + 1
    <3>. SUFFICES ASSUME L < LD PROVE R <= L + 1
      OBVIOUS
    <3>1. L >= h - l - 1
      BY <1>2
    <3>2. h \in Int
      OBVIOUS
    <3>. QED  BY <1>2, <3>1, <3>2
  <2>. QED  BY <1>1, <1>3, <2>1 DEF side, D
<1>4. CASE left = FALSE
  <2>1. R < RD => L <= R + 1
    <3>. SUFFICES ASSUME R < RD PROVE L <= R + 1
      OBVIOUS
    <3>1. R >= r - h - 1
      BY <1>2
    <3>2. h \in Int
      OBVIOUS
    <3>. QED  BY <1>2, <3>1, <3>2
  <2>. QED  BY <1>1, <1>4, <2>1 DEF side, D
<1>. QED  BY <1>3, <1>4

(* The window around a hit is one run with the hit in it, within its
   budget, and grows on both sides alike (parent_context.py, 21-55).       *)
LEMMA WindowIsSound ==
    ASSUME NEW t, NEW rows, rows \subseteq DOMAIN t, IsFiniteSet(rows), rows \subseteq Nat,
           \A i \in rows : t[i] \in Nat, NEW h \in rows, NEW budget \in Nat
    PROVE  HitWell(t, rows, ParentWindow(Restrict(t, rows), h, budget), h, budget)
<1>. DEFINE u == Restrict(t, rows)
            w == ParentWindow(u, h, budget)
            next == {i \in rows \ w : \A j \in rows \ w : (i < h) = (j < h) =>
                        IF i < h THEN j <= i ELSE j >= i}
            side(S, left) == SideSize(S, h, left)
<1>1. DOMAIN u = rows /\ \A i \in rows : u[i] = t[i]
    BY DEF Restrict
<1>. HIDE DEF u
<1>2. Lengths(u) /\ h \in DOMAIN u
    BY <1>1 DEF Lengths
<1>3. PICK v : \E k \in Nat : /\ WindowAt(v, u, h, budget, k)
                              /\ w = v.chosen
                              /\ v.ended \/ v.chosen = DOMAIN u
    BY <1>2, WindowAtEnd
<1>4. PICK k \in Nat : /\ WindowAt(v, u, h, budget, k)
                       /\ w = v.chosen
                       /\ v.ended \/ v.chosen = DOMAIN u
    BY <1>3
<1>. HIDE DEF w
<1>. DEFINE l == v.left
            r == v.right
<1>5. /\ l \in Int /\ r \in Int /\ l < h /\ h < r /\ h \in Int
      /\ w = Within(u, l, r) /\ v.used = SumFunctionOnSet(u, w)
      /\ w = {h} \/ v.used <= budget
      /\ h - l = r - h \/ h - l = r - h + 1
      /\ v.ended => \/ l < Min(DOMAIN u) /\ r > Max(DOMAIN u)
                    \/ Side(v) \in DOMAIN u /\ v.used + u[Side(v)] > budget
  <2>1. v \in WindowState(u)
    BY <1>4 DEF WindowAt
  <2>2. l \in Int /\ r \in Int /\ h \in Int
    BY <2>1 DEF WindowState
  <2>. QED  BY <1>4, <2>2 DEF WindowAt
<1>6. w = {i \in rows : l < i /\ i < r}
    BY <1>1, <1>5 DEF Within
<1>. HIDE DEF l, r
<1>7. h \in w /\ w \subseteq rows
    BY <1>5, <1>6
<1>8. \A i \in w, j \in w, m \in rows : i < m /\ m < j => m \in w
  <2>. SUFFICES ASSUME NEW i \in w, NEW j \in w, NEW m \in rows, i < m, m < j PROVE m \in w
    OBVIOUS
  <2>1. l < i /\ j < r /\ i \in Int /\ j \in Int /\ m \in Int
    BY <1>6
  <2>2. l < m /\ m < r
    BY <1>5, <2>1
  <2>. QED  BY <1>6, <2>2
<1>9. SumFunctionOnSet(t, w) = v.used
  <2>1. IsFiniteSet(w)
    BY <1>7, FS_Subset
  <2>2. \A x \in w : u[x] \in Nat /\ u[x] = t[x]
    BY <1>1, <1>7
  <2>3. SumFunctionOnSet(u, w) = SumFunctionOnSet(t, w)
    BY <2>1, <2>2, SumSame
  <2>. QED  BY <1>5, <2>3
<1>10. w # {h} => SumFunctionOnSet(t, w) <= budget
    BY <1>5, <1>9
<1>11. w # rows => \E i \in next : SumFunctionOnSet(t, w) + t[i] > budget
  <2>. SUFFICES ASSUME w # rows PROVE \E i \in next : SumFunctionOnSet(t, w) + t[i] > budget
    OBVIOUS
  <2>1. v.ended
    BY <1>1, <1>4
  <2>2. ~(l < Min(DOMAIN u) /\ r > Max(DOMAIN u))
    <3>. SUFFICES ASSUME l < Min(DOMAIN u), r > Max(DOMAIN u) PROVE FALSE
      OBVIOUS
    <3>. DEFINE lo == Min(DOMAIN u)
                hi == Max(DOMAIN u)
    <3>1. lo \in Nat /\ hi \in Nat /\ \A i \in rows : lo <= i /\ i <= hi
      BY <1>1, <1>2, LengthsOf
    <3>2. l < lo /\ r > hi
      OBVIOUS
    <3>. HIDE DEF lo, hi
    <3>3. \A i \in rows : l < i /\ i < r
      BY <1>5, <3>1, <3>2
    <3>. QED  BY <1>6, <3>3
  <2>. DEFINE i == Side(v)
  <2>3. i \in rows /\ v.used + t[i] > budget
    BY <1>1, <1>5, <2>1, <2>2
  <2>4. i = l \/ i = r
    BY DEF Side, l, r
  <2>. HIDE DEF i
  <2>5. i \in next
    <3>1. i \in rows \ w
      BY <1>5, <1>6, <2>3, <2>4
    <3>2. ASSUME NEW j \in rows \ w, (i < h) = (j < h)
          PROVE  IF i < h THEN j <= i ELSE j >= i
      <4>1. j \in Int /\ i \in Int /\ (j <= l \/ r <= j)
        BY <1>5, <1>6, <2>3
      <4>2. CASE i = l
        <5>1. i < h /\ j < h
          BY <1>5, <3>2, <4>2
        <5>. QED  BY <1>5, <4>1, <4>2, <5>1
      <4>3. CASE i = r
        <5>1. ~(i < h) /\ ~(j < h)
          BY <1>5, <3>2, <4>1, <4>3
        <5>. QED  BY <1>5, <4>1, <4>3, <5>1
      <4>. QED  BY <2>4, <4>2, <4>3
    <3>. QED  BY <3>1, <3>2
  <2>. HIDE DEF next
  <2>. QED  BY <1>9, <2>3, <2>5
<1>12. rows = Min(rows) .. Max(rows) => \A left \in BOOLEAN :
          side(w, left) < side(rows, left) => side(w, ~left) <= side(w, left) + 1
  <2>. DEFINE lo == Min(rows)
              hi == Max(rows)
  <2>. SUFFICES ASSUME rows = lo .. hi, NEW left \in BOOLEAN
                PROVE  side(w, left) < side(rows, left) => side(w, ~left) <= side(w, left) + 1
    OBVIOUS
  <2>1. lo \in Int /\ hi \in Int
    BY <1>1, <1>2, LengthsOf
  <2>. HIDE DEF lo, hi
  <2>2. h \in lo .. hi /\ w = Between(lo, hi, l, r)
    BY <1>6 DEF Between
  <2>3. side(w, left) < side(lo .. hi, left) => side(w, ~left) <= side(w, left) + 1
    BY <1>5, <2>1, <2>2, BalanceOf
  <2>. QED  BY <2>3
<1>. HIDE DEF next, side
<1>13. HitWell(t, rows, w, h, budget)
    BY <1>7, <1>8, <1>10, <1>11, <1>12 DEF HitWell, next, side, SideSize
<1>. QED  BY <1>13 DEF w, u

(* So is the window around each of several hits. *)
LEMMA NeighbouringIsSound ==
    ASSUME NEW t, IsFiniteSet(DOMAIN t), DOMAIN t \subseteq Nat, \A i \in DOMAIN t : t[i] \in Nat,
           NEW hits, NEW h \in hits, NEW budget \in Nat
    PROVE  HitWell(t, Neighbours(DOMAIN t, hits, 1), NearOf(t, hits, budget)[h], h, budget)
<1>. DEFINE rows == Neighbours(DOMAIN t, hits, 1)
            u == Restrict(t, rows)
            w == IF DOMAIN u = {} THEN {} ELSE ParentWindow(u, h, budget)
<1>1. rows \subseteq DOMAIN t
    BY DEF Neighbours
<1>2. DOMAIN u = rows
    BY DEF Restrict
<1>3. NearOf(t, hits, budget)[h] = w
    BY DEF NearOf
<1>. HIDE DEF rows
<1>4. IsFiniteSet(rows) /\ rows \subseteq Nat /\ \A i \in rows : t[i] \in Nat
    BY <1>1, FS_Subset
<1>5. CASE h \notin rows
  <2>1. w = {}
    <3>1. DOMAIN u # {} => ParentWindow(u, h, budget) = {}
      BY <1>2, <1>5 DEF ParentWindow
    <3>. HIDE DEF u
    <3>. QED  BY <3>1
  <2>2. HitWell(t, rows, {}, h, budget)
    BY <1>5 DEF HitWell
  <2>. QED  BY <1>3, <2>1, <2>2 DEF rows
<1>6. CASE h \in rows
  <2>1. w = ParentWindow(u, h, budget)
    BY <1>2, <1>6
  <2>2. HitWell(t, rows, ParentWindow(u, h, budget), h, budget)
    BY <1>1, <1>4, <1>6, WindowIsSound
  <2>. QED  BY <1>3, <2>1, <2>2 DEF rows
<1>. QED  BY <1>5, <1>6

-----------------------------------------------------------------------------
(* The theorems. *)

(* A call returns what its algorithm computes, and its arguments stay what
   they were.                                                              *)
THEOREM Calculated == Spec => []IInv
<1>1. Init => IInv
    BY DEF Init, IInv, Given, Returned
<1>2. ASSUME IInv, [Next]_vars
      PROVE  IInv'
  <2>1. CASE Packing
    BY <1>2, <2>1 DEF Packing, Return, IInv, Given, Returned
  <2>2. CASE Splitting
    BY <1>2, <2>2 DEF Splitting, Return, IInv, Given, Returned
  <2>3. CASE Blocking
    BY <1>2, <2>3 DEF Blocking, Return, IInv, Given, Returned
  <2>4. CASE Chunking
    BY <1>2, <2>4 DEF Chunking, Return, IInv, Given, Returned
  <2>5. CASE Sectioning
    BY <1>2, <2>5 DEF Sectioning, Return, IInv, Given, Returned
  <2>6. CASE Converting
    BY <1>2, <2>6 DEF Converting, Return, IInv, Given, Returned
  <2>7. CASE Reading
    BY <1>2, <2>7 DEF Reading, Return, IInv, Given, Returned
  <2>8. CASE Fusing
    BY <1>2, <2>8 DEF Fusing, Return, IInv, Given, Returned
  <2>9. CASE Searching
    BY <1>2, <2>9 DEF Searching, Return, IInv, Given, Returned
  <2>10. CASE Neighbouring
    <3>1. /\ ~done /\ done' = TRUE /\ call' = call /\ call.op = "window"
          /\ result' = NearOf(call.tokens, call.hits, call.budget)
      BY <2>10 DEF Neighbouring, Return, NearOf
    <3>. QED  BY <1>2, <3>1 DEF IInv, Given, Returned
  <2>11. CASE Proving
    BY <1>2, <2>11 DEF Proving, Return, IInv, Given, Returned
  <2>12. CASE Citing
    BY <1>2, <2>12 DEF Citing, Return, IInv, Given, Returned
  <2>13. CASE Cutting
    BY <1>2, <2>13 DEF Cutting, Return, IInv, Given, Returned
  <2>14. CASE Fitting
    BY <1>2, <2>14 DEF Fitting, Return, IInv, Given, Returned
  <2>15. CASE Merging
    BY <1>2, <2>15 DEF Merging, Return, IInv, Given, Returned
  <2>16. CASE UNCHANGED vars
    BY <1>2, <2>16 DEF vars, IInv, Given, Returned
  <2>. QED  BY <1>2, <2>1, <2>2, <2>3, <2>4, <2>5, <2>6, <2>7, <2>8, <2>9, <2>10, <2>11, <2>12,
               <2>13, <2>14, <2>15, <2>16 DEF Next
<1>. QED  BY <1>1, <1>2, PTL DEF Spec

(* Fusion keeps every chunk once and in an order the lists agree with, and
   a search finds the best of what the rankers that are up give
   (embeddings.py, 381-474 and 626-643).                                   *)
THEOREM RankingIsRight == Spec => []RankingIsSound
<1>1. ASSUME IInv, Returned("fuse")
      PROVE  FusedInOrder(call.bm25, call.dense, call.weight, result)
  <2>1. Fusible(call.bm25, call.dense, call.weight)
    BY <1>1, AlgorithmsAssumption DEF IInv, Returned, FuseCall, Fusible
  <2>2. result = Fuse(call.bm25, call.dense, call.weight)
    BY <1>1 DEF IInv, Given
  <2>. QED  BY <2>1, <2>2, FuseIsMonotone
<1>2. ASSUME IInv, Returned("search")
      PROVE  FoundBest(call.bm25, call.dense, call.weight, call.topK, call.limit, call.relevance,
                       call.up, result)
  <2>1. SearchCall(call)
    BY <1>1, <1>2, AlgorithmsAssumption DEF IInv, Returned
  <2>2. result = Search(call.bm25, call.dense, call.weight, call.topK, call.limit,
                        call.relevance, call.up)
    BY <1>2 DEF IInv, Given
  <2>. DEFINE bm25 == call.bm25
              dense == call.dense
              weight == call.weight
              topK == call.topK
              limit == call.limit
              relevance == call.relevance
              up == call.up
  <2>3. /\ Fusible(bm25, dense, weight) /\ topK \in Nat /\ limit \in Nat
        /\ up \in [vectors : BOOLEAN, keywords : BOOLEAN, model : BOOLEAN]
        /\ \A x \in ToSet(bm25) \cup ToSet(dense) : relevance[x] \in Int
    BY <2>1 DEF SearchCall, FuseCall, Fusible
  <2>. HIDE DEF bm25, dense, weight, topK, limit, relevance, up
  <2>4. FoundBest(bm25, dense, weight, topK, limit, relevance, up,
                  Search(bm25, dense, weight, topK, limit, relevance, up))
    BY <2>3, SearchIsSound
  <2>. QED  BY <2>2, <2>4 DEF bm25, dense, weight, topK, limit, relevance, up
<1>3. IInv => RankingIsSound
  <2>1. IInv => FusionIsMonotone
    BY <1>1 DEF FusionIsMonotone, FusedInOrder
  <2>2. IInv => SearchFindsBest
    BY <1>2 DEF SearchFindsBest, FoundBest
  <2>. QED  BY <2>1, <2>2 DEF RankingIsSound
<1>. QED  BY <1>3, Calculated, PTL

(* Windows are balanced and within budget, the evidence keeps to its
   length and to the order of the results, and an answer cites only from
   it (parent_context.py, 21-55; answering.py, 46-103 and 210-227).        *)
THEOREM EvidenceIsRight == Spec => []EvidenceIsSound
<1>1. ASSUME IInv, Returned("window"), NEW h \in call.hits
      PROVE  HitWell(call.tokens, Neighbours(DOMAIN call.tokens, call.hits, 1), result[h], h,
                     call.budget)
  <2>1. WindowCall(call)
    BY <1>1, AlgorithmsAssumption DEF IInv, Returned
  <2>2. result = NearOf(call.tokens, call.hits, call.budget)
    BY <1>1 DEF IInv, Given
  <2>. DEFINE t == call.tokens
              hits == call.hits
              budget == call.budget
  <2>3. IsFiniteSet(DOMAIN t) /\ DOMAIN t \subseteq Nat /\ (\A i \in DOMAIN t : t[i] \in Nat)
        /\ budget \in Nat /\ h \in hits
    BY <1>1, <2>1 DEF WindowCall
  <2>. HIDE DEF t, hits, budget
  <2>4. HitWell(t, Neighbours(DOMAIN t, hits, 1), NearOf(t, hits, budget)[h], h, budget)
    BY <2>3, NeighbouringIsSound
  <2>. QED  BY <2>2, <2>4 DEF t, hits, budget
<1>2. ASSUME IInv, Returned("evidence")
      PROVE  EvidenceWell(result, call.results, call.limit)
  <2>1. EvidenceCall(call)
    BY <1>2, AlgorithmsAssumption DEF IInv, Returned
  <2>2. result = BuildEvidence(call.results, call.limit)
    BY <1>2 DEF IInv, Given
  <2>3. call.results \in Seq(Result) /\ call.limit \in Nat
    BY <2>1 DEF EvidenceCall, Result
  <2>. QED  BY <2>2, <2>3, ProvingIsSound
<1>3. ASSUME IInv, Returned("cite")
      PROVE  CitesWell(result, call.written, call.known)
  <2>1. call.written \in Seq(Nat) /\ call.known \in Nat
    BY <1>3, AlgorithmsAssumption DEF IInv, Returned, CiteCall
  <2>2. result = [answer   |-> ValidCitations(call.written, Records(call.known)),
                  fallback |-> Fallback(Records(call.known), 2)]
    BY <1>3 DEF IInv, Given
  <2>. QED  BY <2>1, <2>2, CitingIsSound
<1>4. IInv => EvidenceIsSound
  <2>1. IInv => WindowsAreBalanced
    BY <1>1 DEF WindowsAreBalanced, HitWell
  <2>2. IInv => EvidenceFits
    BY <1>2 DEF EvidenceFits, EvidenceWell
  <2>3. IInv => CitationsExist
    BY <1>3 DEF CitationsExist, CitesWell
  <2>. QED  BY <2>1, <2>2, <2>3 DEF EvidenceIsSound
<1>. QED  BY <1>4, Calculated, PTL

(* Cut texts, recent lines, summaries and the history keep to their
   budgets and to what is newest (token_budget.py, 77-116;
   conversation_context.py, 229-301).                                      *)
THEOREM BudgetsAreRight == Spec => []BudgetsAreKept
<1>1. ASSUME IInv, Returned("cut")
      PROVE  CutWell(result, call.text, call.max, call.keep)
  <2>1. call.text \in Seq(Char) /\ call.max \in Nat
    BY <1>1, AlgorithmsAssumption DEF IInv, Returned, CutCall
  <2>2. result = TruncateTokens(call.text, call.max, call.keep)
    BY <1>1 DEF IInv, Given
  <2>. QED  BY <2>1, <2>2, TruncateIsSound
<1>2. ASSUME IInv, Returned("fit")
      PROVE  RecentWell(result.recent, result.section, call.lines, call.max)
  <2>1. call.lines \in Seq(Seq(Char)) /\ call.max \in Nat
    BY <1>2, AlgorithmsAssumption DEF IInv, Returned, FitCall
  <2>2. result = [recent  |-> FitRecentLines(call.lines, call.max),
                  section |-> SectionLines(call.lines, call.max)]
    BY <1>2 DEF IInv, Given
  <2>3. RecentWell(FitRecentLines(call.lines, call.max), SectionLines(call.lines, call.max),
                   call.lines, call.max)
    BY <2>1, FitIsSound
  <2>. QED  BY <2>2, <2>3
<1>3. ASSUME IInv, Returned("merge")
      PROVE  /\ CountTokens(result.summary) <= call.max /\ CountTokens(result.history) <= call.max
             /\ MarksIn(result.summary) >= Min({Len(call.notes), call.max - Max({call.least, call.max \div 4})})
             /\ Last(result.history) = "w"
  <2>. DEFINE previous == call.previous
              notes == call.notes
              max == call.max
              least == call.least
              s == MergeSummary(previous, notes, max, least)
              t == BoundedHistory(previous, <<notes, <<"w">>>>, max, max, max)
  <2>1. MergeCall(call)
    BY <1>3, AlgorithmsAssumption DEF IInv, Returned
  <2>2. result = [summary |-> s, history |-> t]
    BY <1>3 DEF IInv, Given
  <2>3. /\ previous \in Seq(Char) /\ notes \in Seq({"p"}) /\ notes # <<>>
        /\ max \in Nat \ {0} /\ least \in Nat
    <3>1. previous \in Seq(Char \ {"p"})
      BY <2>1 DEF MergeCall
    <3>2. Char \ {"p"} \subseteq Char
      OBVIOUS
    <3>. HIDE DEF previous
    <3>3. previous \in Seq(Char)
      BY <3>1, <3>2, SeqMonotonic
    <3>. QED  BY <2>1, <3>3 DEF MergeCall
  <2>. HIDE DEF previous, notes, max, least
  <2>4. /\ CountTokens(s) <= max
        /\ MarksIn(s) >= Min({Len(notes), max - PreviousShare(max, least)})
    BY <2>3, MergeKeepsNotes
  <2>5. CountTokens(t) <= max /\ Last(t) = "w"
    BY <2>3, HistoryKeepsNewest
  <2>. HIDE DEF s, t
  <2>6. result.summary = s /\ result.history = t
    BY <2>2
  <2>7. PreviousShare(max, least) = Max({least, max \div 4})
    BY DEF PreviousShare
  <2>. QED  BY <2>4, <2>5, <2>6, <2>7 DEF notes, max, least
<1>4. IInv => BudgetsAreKept
  <2>1. IInv => TruncateFits
    BY <1>1 DEF TruncateFits, CutWell
  <2>2. IInv => RecentLinesFit
    BY <1>2 DEF RecentLinesFit, RecentWell
  <2>3. IInv => NewNotesSurvive
    BY <1>3 DEF NewNotesSurvive, MarksIn
  <2>. QED  BY <2>1, <2>2, <2>3 DEF BudgetsAreKept
<1>. QED  BY <1>4, Calculated, PTL
=============================================================================
