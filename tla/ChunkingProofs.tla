--------------------------- MODULE ChunkingProofs ---------------------------
(***************************************************************************)
(* Theorems on the algorithms of Chunking: what packing, splitting and the *)
(* structure of a document promise, for every input the callers may pass.  *)
(* The loops and what is known of them are those of AlgorithmProofs.       *)
(***************************************************************************)
EXTENDS AlgorithmProofs

-----------------------------------------------------------------------------
(* Packing. *)

(* A stretch of a list. *)
LEMMA SliceOf ==
    ASSUME NEW X, NEW t \in Seq(X), NEW a \in Nat \ {0}, NEW b \in Nat, a <= b + 1, b <= Len(t)
    PROVE  /\ SubSeq(t, a, b) \in Seq(X) /\ Len(SubSeq(t, a, b)) = b - a + 1
           /\ \A i \in 1 .. b - a + 1 : SubSeq(t, a, b)[i] = t[a + i - 1]
<1>1. a \in Int /\ b \in Int /\ \A i \in a .. b : t[i] \in X
    OBVIOUS
<1>2. /\ SubSeq(t, a, b) \in Seq(X)
      /\ Len(SubSeq(t, a, b)) = IF a <= b THEN b - a + 1 ELSE 0
      /\ \A i \in 1 .. b - a + 1 : SubSeq(t, a, b)[i] = t[a + i - 1]
    BY <1>1, SubSeqProperties
<1>. QED  BY <1>2

(* A stretch with the text that follows it. *)
LEMMA SliceGrows ==
    ASSUME NEW X, NEW t \in Seq(X), NEW a \in Nat \ {0}, NEW b \in Nat, a <= b + 1, b < Len(t)
    PROVE  Append(SubSeq(t, a, b), t[b + 1]) = SubSeq(t, a, b + 1)
<1>. DEFINE s == SubSeq(t, a, b)
            c == b + 1
            l == Append(s, t[c])
            r == SubSeq(t, a, c)
<1>1. s \in Seq(X) /\ Len(s) = b - a + 1 /\ \A i \in 1 .. b - a + 1 : s[i] = t[a + i - 1]
    BY SliceOf
<1>2. c \in Nat /\ a <= c + 1 /\ c <= Len(t) /\ c - a + 1 = (b - a + 1) + 1 /\ t[c] \in X
    OBVIOUS
<1>. HIDE DEF c
<1>3. r \in Seq(X) /\ Len(r) = c - a + 1 /\ \A i \in 1 .. c - a + 1 : r[i] = t[a + i - 1]
    BY <1>2, SliceOf
<1>. HIDE DEF s, r
<1>4. l \in Seq(X) /\ Len(l) = Len(s) + 1 /\ l[Len(s) + 1] = t[c] /\ \A i \in 1 .. Len(s) : l[i] = s[i]
  <2>. DEFINE x == t[c]
  <2>1. x \in X
    BY <1>2
  <2>. HIDE DEF x
  <2>2. /\ Append(s, x) \in Seq(X) /\ Len(Append(s, x)) = Len(s) + 1
        /\ Append(s, x)[Len(s) + 1] = x /\ \A i \in 1 .. Len(s) : Append(s, x)[i] = s[i]
    BY <1>1, <2>1, AppendProperties
  <2>. QED  BY <2>2 DEF x
<1>. HIDE DEF l
<1>5. ASSUME NEW i \in 1 .. Len(l) PROVE l[i] = r[i]
  <2>1. CASE i = Len(s) + 1
    <3>1. a + i - 1 = c
      <4>1. i = (b - a + 1) + 1
        BY <1>1, <2>1
      <4>. QED  BY <4>1 DEF c
    <3>. QED  BY <1>1, <1>2, <1>3, <1>4, <2>1, <3>1
  <2>2. CASE i # Len(s) + 1
    <3>1. i \in 1 .. Len(s)
      BY <1>1, <1>4, <2>2
    <3>. QED  BY <1>1, <1>2, <1>3, <1>4, <3>1
  <2>. QED  BY <2>1, <2>2
<1>6. l = r
  <2>1. Len(l) = Len(r)
    BY <1>1, <1>2, <1>3, <1>4
  <2>. QED  BY <1>3, <1>4, <1>5, <2>1, SeqEqual
<1>. QED  BY <1>6 DEF s, c, l, r

(* The end of a stretch is a stretch. *)
LEMMA SliceEnds ==
    ASSUME NEW X, NEW t \in Seq(X), NEW a \in Nat \ {0}, NEW b \in Nat, a <= b + 1, b <= Len(t),
           NEW q \in 0 .. b - a + 1
    PROVE  LastOf(SubSeq(t, a, b), q) = SubSeq(t, b - q + 1, b)
<1>. DEFINE s == SubSeq(t, a, b)
            n == b - a + 1
            c == n - q + 1
            p == b - q + 1
            l == SubSeq(s, c, n)
            r == SubSeq(t, p, b)
<1>1. s \in Seq(X) /\ Len(s) = n /\ \A i \in 1 .. n : s[i] = t[a + i - 1]
    BY SliceOf
<1>2. /\ n \in Nat /\ c \in Nat \ {0} /\ c <= n + 1 /\ n - c + 1 = q /\ q \in Nat
      /\ p \in Nat \ {0} /\ p <= b + 1 /\ b - p + 1 = q
    OBVIOUS
<1>3. \A i \in 1 .. q : c + i - 1 \in 1 .. n /\ a + (c + i - 1) - 1 = p + i - 1
    OBVIOUS
<1>4. LastOf(s, q) = l
    BY <1>1 DEF LastOf
<1>. HIDE DEF s, n, c, p
<1>5. l \in Seq(X) /\ Len(l) = q /\ \A i \in 1 .. q : l[i] = s[c + i - 1]
    BY <1>1, <1>2, SliceOf
<1>6. r \in Seq(X) /\ Len(r) = q /\ \A i \in 1 .. q : r[i] = t[p + i - 1]
    BY <1>2, SliceOf
<1>. HIDE DEF l, r
<1>7. \A i \in 1 .. Len(l) : l[i] = r[i]
  <2>. SUFFICES ASSUME NEW i \in 1 .. q PROVE l[i] = r[i]
    BY <1>5
  <2>1. l[i] = s[c + i - 1] /\ r[i] = t[p + i - 1]
    BY <1>5, <1>6
  <2>2. c + i - 1 \in 1 .. n /\ a + (c + i - 1) - 1 = p + i - 1
    BY <1>3
  <2>3. s[c + i - 1] = t[a + (c + i - 1) - 1]
    BY <1>1, <2>2
  <2>. QED  BY <2>1, <2>2, <2>3
<1>8. l = r
    BY <1>5, <1>6, <1>7, SeqEqual
<1>. QED  BY <1>4, <1>8 DEF s, p, r

(* A stretch of one text and of none. *)
LEMMA SliceOfOne ==
    ASSUME NEW X, NEW t \in Seq(X), NEW k \in 1 .. Len(t)
    PROVE  SubSeq(t, k, k) = <<t[k]>> /\ SubSeq(t, k, k - 1) = <<>>
<1>. DEFINE a == k - 1
<1>1. a \in Nat /\ k \in Nat \ {0} /\ k <= a + 1 /\ a <= Len(t) /\ a < Len(t) /\ a + 1 = k /\ a - k + 1 = 0
    OBVIOUS
<1>. HIDE DEF a
<1>2. SubSeq(t, k, a) \in Seq(X) /\ Len(SubSeq(t, k, a)) = a - k + 1
    BY <1>1, SliceOf
<1>3. SubSeq(t, k, a) = <<>>
    BY <1>1, <1>2
<1>4. Append(SubSeq(t, k, a), t[a + 1]) = SubSeq(t, k, a + 1)
    BY <1>1, SliceGrows
<1>5. Append(<<>>, t[k]) = <<t[k]>>
    OBVIOUS
<1>. QED  BY <1>1, <1>3, <1>4, <1>5 DEF a

(* The size of a list grows with every text. *)
LEMMA TotalOf ==
    ASSUME NEW X, Measured(X), NEW s \in Seq(X)
    PROVE  /\ Total(s) \in Nat
           /\ Total(<<>>) = 0
           /\ \A x \in X : Total(Append(s, x)) = Total(s) + Count(x)
<1>. DEFINE g == [i \in DOMAIN s |-> Count(s[i])]
            n == Len(s)
<1>1. n \in Nat /\ DOMAIN g = 1 .. n /\ \A i \in 1 .. n : g[i] \in Nat /\ g[i] = Count(s[i])
    BY DEF Measured
<1>2. Total(s) = SumFunctionOnSet(g, 1 .. n)
    BY <1>1 DEF Total, SumFunction
<1>. HIDE DEF g
<1>3. IsFiniteSet(1 .. n)
    BY <1>1, FS_Interval
<1>4. Total(s) \in Nat
    BY <1>1, <1>2, <1>3, SumOf
<1>5. Total(<<>>) = 0
  <2>. DEFINE h == [i \in DOMAIN <<>> |-> Count(<<>>[i])]
  <2>1. DOMAIN h = {}
    OBVIOUS
  <2>2. Total(<<>>) = SumFunctionOnSet(h, DOMAIN h)
    BY DEF Total, SumFunction
  <2>. HIDE DEF h
  <2>3. SumFunctionOnSet(h, {}) = 0
    BY SumNothing
  <2>. QED  BY <2>1, <2>2, <2>3
<1>6. ASSUME NEW x \in X PROVE Total(Append(s, x)) = Total(s) + Count(x)
  <2>. DEFINE l == Append(s, x)
              h == [i \in DOMAIN l |-> Count(l[i])]
              b == n + 1
              a == 1
  <2>1. l \in Seq(X) /\ Len(l) = b /\ l[b] = x /\ \A i \in 1 .. n : l[i] = s[i]
    BY AppendProperties
  <2>2. DOMAIN h = 1 .. b /\ h[b] = Count(x) /\ \A i \in 1 .. n : h[i] = g[i]
    <3>1. DOMAIN l = 1 .. b
      BY <2>1
    <3>2. DOMAIN h = DOMAIN l /\ \A i \in DOMAIN l : h[i] = Count(l[i])
      OBVIOUS
    <3>3. b \in 1 .. b /\ \A i \in 1 .. n : i \in 1 .. b
      BY <1>1
    <3>. HIDE DEF l, h, b
    <3>. QED  BY <1>1, <2>1, <3>1, <3>2, <3>3
  <2>3. Total(l) = SumFunctionOnSet(h, 1 .. b)
    BY <2>2 DEF Total, SumFunction
  <2>. HIDE DEF l, h
  <2>4. Count(x) \in Nat
    BY DEF Measured
  <2>5. \A i \in a .. b : h[i] \in Nat
    <3>. SUFFICES ASSUME NEW i \in 1 .. n + 1 PROVE h[i] \in Nat
      OBVIOUS
    <3>1. i = n + 1 \/ i \in 1 .. n
      BY <1>1
    <3>. QED  BY <1>1, <2>2, <2>4, <3>1
  <2>6. a \in Int /\ b \in Int /\ a <= b /\ b - 1 = n
    BY <1>1
  <2>. HIDE DEF a, b
  <2>7. SumFunctionOnSet(h, a .. b) = SumFunctionOnSet(h, a .. b - 1) + h[b]
    BY <2>5, <2>6, SumInterval
  <2>8. SumFunctionOnSet(g, 1 .. n) = SumFunctionOnSet(h, 1 .. n)
    <3>1. IsFiniteSet(1 .. n) /\ \A i \in 1 .. n : g[i] \in Nat /\ g[i] = h[i]
      BY <1>1, <1>3, <2>2
    <3>. HIDE DEF g, h, n
    <3>. QED  BY <3>1, SumSame
  <2>. QED  BY <1>2, <2>2, <2>3, <2>6, <2>7, <2>8 DEF a, l
<1>. QED  BY <1>4, <1>5, <1>6

(* The first text is a chunk. *)
LEMMA SlicesStart ==
    ASSUME NEW t, NEW size, NEW overlap
    PROVE  Slices([j \in 1 .. 1 |-> 1], [j \in 1 .. 1 |-> 1], 1, t, size, overlap, 1)
<1>. QED  BY DEF Slices

(* The last chunk takes one more text. *)
LEMMA SlicesGrow ==
    ASSUME NEW at, NEW to, NEW m, NEW t, NEW size, NEW overlap, NEW k \in Nat,
           Slices(at, to, m, t, size, overlap, k), Total(SubSeq(t, at[m], k + 1)) <= size
    PROVE  Slices(at, [to EXCEPT ![m] = k + 1], m, t, size, overlap, k + 1)
<1>. DEFINE u == [to EXCEPT ![m] = k + 1]
            c == k + 1
<1>1. /\ m \in Nat \ {0} /\ at \in [1 .. m -> 1 .. k] /\ to \in [1 .. m -> 1 .. k]
      /\ at[1] = 1 /\ to[m] = k
    BY DEF Slices
<1>2. c \in Nat /\ at \in [1 .. m -> 1 .. c] /\ u \in [1 .. m -> 1 .. c] /\ u[m] = c
      /\ m \in 1 .. m /\ \A j \in 1 .. m - 1 : u[j] = to[j] /\ j \in 1 .. m
    BY <1>1
<1>. HIDE DEF u
<1>3. ASSUME NEW j \in 1 .. m
      PROVE  at[j] <= u[j] /\ (at[j] < u[j] => Total(SubSeq(t, at[j], u[j])) <= size)
  <2>1. CASE j = m
    BY <1>1, <1>2, <2>1
  <2>2. CASE j # m
    <3>1. j \in 1 .. m - 1
      BY <1>1, <2>2
    <3>2. at[j] <= to[j] /\ (at[j] < to[j] => Total(SubSeq(t, at[j], to[j])) <= size)
      BY DEF Slices
    <3>. QED  BY <1>2, <3>1, <3>2
  <2>. QED  BY <2>1, <2>2
<1>4. ASSUME NEW j \in 1 .. m - 1
      PROVE  at[j] < at[j + 1] /\ at[j + 1] <= u[j] + 1 /\ Total(SubSeq(t, at[j + 1], u[j])) <= overlap
  <2>1. at[j] < at[j + 1] /\ at[j + 1] <= to[j] + 1 /\ Total(SubSeq(t, at[j + 1], to[j])) <= overlap
    BY DEF Slices
  <2>. QED  BY <1>2, <2>1
<1>. HIDE DEF c
<1>5. Slices(at, u, m, t, size, overlap, c)
    BY <1>1, <1>2, <1>3, <1>4 DEF Slices
<1>. QED  BY <1>5 DEF u, c

(* Another chunk starts. *)
LEMMA SlicesMore ==
    ASSUME NEW at, NEW to, NEW m, NEW t, NEW size, NEW overlap, NEW k \in Nat,
           Slices(at, to, m, t, size, overlap, k),
           NEW p \in 1 .. k + 1, at[m] < p, Total(SubSeq(t, p, k)) <= overlap,
           p < k + 1 => Total(SubSeq(t, p, k + 1)) <= size
    PROVE  Slices(More(at, m, p), More(to, m, k + 1), m + 1, t, size, overlap, k + 1)
<1>. DEFINE a == More(at, m, p)
            u == More(to, m, k + 1)
            c == k + 1
            n == m + 1
<1>1. /\ m \in Nat \ {0} /\ at \in [1 .. m -> 1 .. k] /\ to \in [1 .. m -> 1 .. k]
      /\ at[1] = 1 /\ to[m] = k
    BY DEF Slices
<1>2. /\ c \in Nat /\ c = k + 1 /\ n \in Nat \ {0} /\ n = m + 1 /\ n - 1 = m /\ 1 \in 1 .. m /\ m \in 1 .. m
      /\ \A j \in 1 .. n : j = n \/ j \in 1 .. m
    BY <1>1
<1>3. a = [j \in 1 .. n |-> IF j = n THEN p ELSE at[j]] /\ u = [j \in 1 .. n |-> IF j = n THEN c ELSE to[j]]
    BY DEF More
<1>. HIDE DEF a, u, c, n
<1>4. \A i \in 1 .. m : at[i] \in 1 .. c /\ to[i] \in 1 .. c
    BY <1>1, <1>2
<1>5. /\ a \in [1 .. n -> 1 .. c] /\ u \in [1 .. n -> 1 .. c] /\ a[n] = p /\ u[n] = c
      /\ \A j \in 1 .. m : a[j] = at[j] /\ u[j] = to[j]
  <2>1. p \in 1 .. c /\ c \in 1 .. c /\ n \in 1 .. n /\ n \notin 1 .. m /\ \A j \in 1 .. m : j \in 1 .. n
    BY <1>2
  <2>2. \A j \in 1 .. n : (IF j = n THEN p ELSE at[j]) \in 1 .. c /\ (IF j = n THEN c ELSE to[j]) \in 1 .. c
    BY <1>2, <1>4, <2>1
  <2>. QED  BY <1>3, <2>1, <2>2
<1>6. ASSUME NEW j \in 1 .. n
      PROVE  a[j] <= u[j] /\ (a[j] < u[j] => Total(SubSeq(t, a[j], u[j])) <= size)
  <2>1. CASE j = n
    <3>1. a[j] = p /\ u[j] = c /\ p <= c
      BY <1>2, <1>5, <2>1
    <3>. QED  BY <1>2, <3>1
  <2>2. CASE j # n
    <3>1. j \in 1 .. m
      BY <1>2, <2>2
    <3>2. at[j] <= to[j] /\ (at[j] < to[j] => Total(SubSeq(t, at[j], to[j])) <= size)
      BY <3>1 DEF Slices
    <3>. QED  BY <1>5, <3>1, <3>2
  <2>. QED  BY <2>1, <2>2
<1>7. ASSUME NEW j \in 1 .. n - 1
      PROVE  a[j] < a[j + 1] /\ a[j + 1] <= u[j] + 1 /\ Total(SubSeq(t, a[j + 1], u[j])) <= overlap
  <2>1. CASE j = m
    <3>1. a[j] = at[m] /\ u[j] = k /\ a[j + 1] = p /\ p <= k + 1
      BY <1>1, <1>2, <1>5, <2>1
    <3>. QED  BY <3>1
  <2>2. CASE j # m
    <3>1. j \in 1 .. m - 1 /\ j \in 1 .. m /\ j + 1 \in 1 .. m
      BY <1>1, <1>2, <2>2
    <3>2. at[j] < at[j + 1] /\ at[j + 1] <= to[j] + 1 /\ Total(SubSeq(t, at[j + 1], to[j])) <= overlap
      BY <3>1 DEF Slices
    <3>3. a[j] = at[j] /\ a[j + 1] = at[j + 1] /\ u[j] = to[j]
      BY <1>5, <3>1
    <3>. QED  BY <3>2, <3>3
  <2>. QED  BY <2>1, <2>2
<1>8. a[1] = 1
    BY <1>1, <1>2, <1>5
<1>9. Slices(a, u, n, t, size, overlap, c)
    BY <1>2, <1>5, <1>6, <1>7, <1>8 DEF Slices
<1>. QED  BY <1>9 DEF a, u, c, n

(* The overlap is an end of the chunk, and keeps to its limit. *)
LEMMA KeptOf ==
    ASSUME NEW X, Measured(X), NEW s \in Seq(X), NEW overlap \in Nat
    PROVE  \E q \in 0 .. Len(s) : Kept(s, overlap) = LastOf(s, q) /\ Total(LastOf(s, q)) <= overlap
<1>. DEFINE S == {n \in 0 .. Len(s) : Total(LastOf(s, n)) <= overlap}
            q == Max(S)
<1>1. Len(s) \in Nat /\ IsFiniteSet(0 .. Len(s))
  <2>1. Len(s) \in Nat /\ 0 \in Int
    OBVIOUS
  <2>. QED  BY <2>1, FS_Interval
<1>2. 0 \in S
  <2>. DEFINE a == Len(s) + 1
              b == Len(s)
  <2>1. a \in Nat \ {0} /\ b \in Nat /\ a <= b + 1 /\ b <= Len(s) /\ b - a + 1 = 0 /\ Len(s) - 0 + 1 = a
    BY <1>1
  <2>2. LastOf(s, 0) = SubSeq(s, a, b)
    BY <2>1 DEF LastOf
  <2>. HIDE DEF a, b
  <2>3. SubSeq(s, a, b) \in Seq(X) /\ Len(SubSeq(s, a, b)) = 0
    BY <2>1, SliceOf
  <2>4. LastOf(s, 0) = <<>>
    BY <2>2, <2>3
  <2>5. Total(<<>>) = 0
    BY TotalOf
  <2>. QED  BY <1>1, <2>4, <2>5
<1>3. S \in SUBSET Nat /\ IsFiniteSet(S) /\ S # {}
  <2>1. S \subseteq 0 .. Len(s)
    OBVIOUS
  <2>. HIDE DEF S
  <2>2. IsFiniteSet(S)
    BY <1>1, <2>1, FS_Subset
  <2>. QED  BY <1>2, <2>1, <2>2
<1>4. Kept(s, overlap) = LastOf(s, q)
    BY DEF Kept
<1>5. q \in S
  <2>. HIDE DEF S
  <2>. QED  BY <1>3, MaxOfFinite
<1>. HIDE DEF q
<1>. QED  BY <1>4, <1>5

(* The chunk that follows an overlap is an end of what has been packed. *)
LEMMA RestartOf ==
    ASSUME NEW X, Measured(X), NEW t \in Seq(X), NEW size \in Nat, NEW overlap \in Nat,
           NEW a \in Nat \ {0}, NEW k \in Nat, a <= k, k < Len(t),
           Total(SubSeq(t, a, k)) + Count(t[k + 1]) > size
    PROVE  \E p \in 1 .. k + 1 :
              /\ a < p
              /\ Restart(Kept(SubSeq(t, a, k), overlap), t[k + 1], size) = SubSeq(t, p, k + 1)
              /\ Total(SubSeq(t, p, k)) <= overlap
              /\ p < k + 1 => Total(SubSeq(t, p, k + 1)) <= size
<1>. DEFINE s == SubSeq(t, a, k)
            x == t[k + 1]
            c == k + 1
<1>1. a <= k + 1 /\ k <= Len(t) /\ c \in Nat \ {0} /\ c \in 1 .. Len(t) /\ c - 1 = k /\ k + 1 = c
      /\ k - a + 1 \in Nat
    OBVIOUS
<1>2. s \in Seq(X) /\ Len(s) = k - a + 1
    BY <1>1, SliceOf
<1>3. x \in X /\ Count(x) \in Nat
    BY <1>1 DEF Measured
<1>4. PICK q \in 0 .. Len(s) : Kept(s, overlap) = LastOf(s, q) /\ Total(LastOf(s, q)) <= overlap
  <2>. HIDE DEF s
  <2>. QED  BY <1>2, KeptOf
<1>. DEFINE p == k - q + 1
<1>5. LastOf(s, q) = SubSeq(t, p, k)
  <2>1. q \in 0 .. k - a + 1
    BY <1>2
  <2>. QED  BY <1>1, <2>1, SliceEnds
<1>6. p \in Nat \ {0} /\ p <= k + 1 /\ a <= p /\ p \in 1 .. c
    BY <1>1, <1>2
<1>. DEFINE e == SubSeq(t, p, k)
<1>7. e \in Seq(X) /\ Total(e) \in Nat /\ Total(Append(e, x)) = Total(e) + Count(x)
  <2>1. e \in Seq(X)
    <3>. HIDE DEF p
    <3>. QED  BY <1>1, <1>6, SliceOf
  <2>. HIDE DEF e, x
  <2>. QED  BY <1>3, <2>1, TotalOf
<1>8. Append(e, x) = SubSeq(t, p, c)
  <2>. HIDE DEF p
  <2>. QED  BY <1>1, <1>6, SliceGrows
<1>9. Total(s) \in Nat /\ Total(s) + Count(x) > size
  <2>1. Total(s) + Count(x) > size
    OBVIOUS
  <2>. HIDE DEF s
  <2>2. Total(s) \in Nat
    BY <1>2, TotalOf
  <2>. QED  BY <2>1, <2>2
<1>10. CASE Total(e) + Count(x) <= size
  <2>1. Restart(e, x, size) = Append(e, x)
    BY <1>10 DEF Restart
  <2>2. a # p
    <3>. SUFFICES ASSUME a = p PROVE FALSE
      OBVIOUS
    <3>1. e = s
      OBVIOUS
    <3>. HIDE DEF e, s, x, p
    <3>. QED  BY <1>3, <1>7, <1>9, <1>10, <3>1
  <2>. HIDE DEF e, s, x, p
  <2>3. a < p
    BY <1>6, <2>2
  <2>4. Restart(Kept(s, overlap), x, size) = SubSeq(t, p, c) /\ Total(e) <= overlap
         /\ Total(SubSeq(t, p, c)) <= size
    BY <1>4, <1>5, <1>7, <1>8, <1>10, <2>1 DEF e
  <2>. HIDE DEF c
  <2>5. /\ a < p /\ Restart(Kept(s, overlap), x, size) = SubSeq(t, p, c)
        /\ Total(SubSeq(t, p, k)) <= overlap /\ (p < c => Total(SubSeq(t, p, c)) <= size)
    BY <2>3, <2>4 DEF e
  <2>. QED  BY <1>6, <2>5 DEF s, x, c
<1>11. CASE ~(Total(e) + Count(x) <= size)
  <2>1. Restart(e, x, size) = <<x>>
    BY <1>11 DEF Restart
  <2>2. SubSeq(t, c, c) = <<x>> /\ SubSeq(t, c, k) = <<>>
    <3>. HIDE DEF c
    <3>1. SubSeq(t, c, c) = <<t[c]>> /\ SubSeq(t, c, c - 1) = <<>>
      BY <1>1, SliceOfOne
    <3>. QED  BY <1>1, <3>1 DEF c
  <2>3. Total(<<>>) = 0
    BY <1>2, TotalOf
  <2>. HIDE DEF e, s, x, p, c
  <2>4. Restart(Kept(s, overlap), x, size) = SubSeq(t, c, c) /\ Total(SubSeq(t, c, k)) <= overlap
    BY <1>4, <1>5, <2>1, <2>2, <2>3 DEF e
  <2>5. a < c /\ c \in 1 .. c /\ ~(c < c)
    BY <1>1
  <2>6. /\ a < c /\ Restart(Kept(s, overlap), x, size) = SubSeq(t, c, c)
        /\ Total(SubSeq(t, c, k)) <= overlap /\ (c < c => Total(SubSeq(t, c, c)) <= size)
    BY <2>4, <2>5
  <2>. QED  BY <2>5, <2>6 DEF s, x, c
<1>. QED  BY <1>10, <1>11

(* A text placed leaves a state of that type. *)
LEMMA PlaceType ==
    ASSUME NEW X, Measured(X), NEW s \in PackState(X), NEW x \in X, NEW size \in Nat, NEW overlap \in Nat
    PROVE  Place(s, x, size, overlap) \in PackState(X)
<1>1. s.chunks \in Seq(Seq(X)) /\ s.current \in Seq(X)
    BY DEF PackState
<1>2. Append(s.current, x) \in Seq(X) /\ Append(s.chunks, s.current) \in Seq(Seq(X)) /\ <<x>> \in Seq(X)
    BY <1>1
<1>3. Restart(Kept(s.current, overlap), x, size) \in Seq(X)
  <2>. DEFINE u == s.current
              n == Len(u)
  <2>1. u \in Seq(X) /\ n \in Nat
    BY <1>1
  <2>. HIDE DEF u
  <2>2. PICK q \in 0 .. n : Kept(u, overlap) = LastOf(u, q)
    BY <2>1, KeptOf
  <2>. DEFINE c == n - q + 1
  <2>3. c \in Nat \ {0} /\ c <= n + 1 /\ n <= Len(u)
    BY <2>1
  <2>4. LastOf(u, q) = SubSeq(u, c, n)
    BY DEF LastOf
  <2>. HIDE DEF c, n
  <2>5. SubSeq(u, c, n) \in Seq(X)
    BY <2>1, <2>3, SliceOf
  <2>. DEFINE e == Kept(u, overlap)
  <2>6. e \in Seq(X)
    BY <2>2, <2>4, <2>5
  <2>. HIDE DEF e
  <2>7. Append(e, x) \in Seq(X)
    BY <2>6
  <2>8. Restart(e, x, size) \in Seq(X)
    BY <1>2, <2>7 DEF Restart
  <2>. QED  BY <2>8 DEF e, u
<1>. DEFINE r == Restart(Kept(s.current, overlap), x, size)
<1>. HIDE DEF r
<1>4. [s EXCEPT !.current = Append(s.current, x)] \in PackState(X)
    BY <1>1, <1>2 DEF PackState
<1>5. [chunks |-> Append(s.chunks, s.current), current |-> r] \in PackState(X)
    BY <1>2, <1>3 DEF PackState, r
<1>. QED  BY <1>4, <1>5 DEF Place, r

(* The chunks are found by a run over the texts. *)
LEMMA PackRuns ==
    ASSUME NEW X, Measured(X), NEW t \in Seq(X), NEW size \in Nat, NEW overlap \in Nat
    PROVE  \E f : /\ Run(f, Len(t), PackState(X), NoChunks, PlaceStep(X, t, size, overlap))
                  /\ Packed(t, size, overlap) = f[Len(t)]
<1>. DEFINE n == Len(t)
            V == PackState(X)
            step == PlaceStep(X, t, size, overlap)
            iter == CHOOSE it : it = [s \in SUBSET (1 .. n) |->
                       IF s = {} THEN NoChunks ELSE Place(it[s \ {Max(s)}], t[Max(s)], size, overlap)]
<1>1. n \in Nat /\ DOMAIN t = 1 .. n /\ \A i \in 1 .. n : t[i] \in X
    OBVIOUS
<1>2. NoChunks \in V /\ step \in [1 .. n -> [V -> V]]
  <2>1. NoChunks \in V
    BY DEF NoChunks, PackState
  <2>2. \A i \in 1 .. n : \A v \in V : Place(v, t[i], size, overlap) \in V
    BY <1>1, PlaceType
  <2>. HIDE DEF V
  <2>. QED  BY <2>1, <2>2 DEF PlaceStep, V
<1>3. Packed(t, size, overlap) = iter[1 .. n]
    BY <1>1 DEF Packed, NoChunks, FoldLeft, MapThenFoldSet
<1>. HIDE DEF n, V
<1>4. iter = [s \in SUBSET (1 .. n) |->
                       IF s = {} THEN NoChunks ELSE Place(iter[s \ {Max(s)}], t[Max(s)], size, overlap)]
  <2>1. PICK it : Folded(it, n, V, NoChunks, step)
    <3>1. n \in Nat
      BY <1>1
    <3>. HIDE DEF step
    <3>. QED  BY <3>1, <1>2, FoldExists
  <2>2. ASSUME NEW s \in SUBSET (1 .. n), s # {}
        PROVE  it[s] = Place(it[s \ {Max(s)}], t[Max(s)], size, overlap)
    <3>1. Max(s) \in 1 .. n /\ s \ {Max(s)} \in SUBSET (1 .. n)
      BY <1>1, <2>2, MaxOf
    <3>2. it[s \ {Max(s)}] \in V
      BY <2>1, <3>1 DEF Folded
    <3>3. it[s] = step[Max(s)][it[s \ {Max(s)}]]
      BY <2>1, <2>2 DEF Folded
    <3>. QED  BY <3>1, <3>2, <3>3 DEF PlaceStep, n, V
  <2>3. it = [s \in SUBSET (1 .. n) |-> it[s]] /\ it[{}] = NoChunks
    BY <2>1 DEF Folded
  <2>4. it = [s \in SUBSET (1 .. n) |->
                       IF s = {} THEN NoChunks ELSE Place(it[s \ {Max(s)}], t[Max(s)], size, overlap)]
    BY <2>2, <2>3
  <2>. QED  BY <2>4
<1>. HIDE DEF iter
<1>5. FoldSteps(iter, n, V, NoChunks, step)
  <2>1. ASSUME NEW s \in SUBSET (1 .. n), s # {}, iter[s \ {Max(s)}] \in V
        PROVE  iter[s] = step[Max(s)][iter[s \ {Max(s)}]]
    <3>1. Max(s) \in 1 .. n
      BY <1>1, <2>1, MaxOf
    <3>2. iter[s] = Place(iter[s \ {Max(s)}], t[Max(s)], size, overlap)
      BY <1>4, <2>1
    <3>. QED  BY <2>1, <3>1, <3>2 DEF PlaceStep, n, V
  <2>2. iter[{}] = NoChunks
    BY <1>4
  <2>. HIDE DEF step
  <2>. QED  BY <2>1, <2>2 DEF FoldSteps
<1>6. EndsAt(n, V, NoChunks, step, iter[1 .. n])
  <2>1. n \in Nat
    BY <1>1
  <2>2. NoChunks \in V
    BY <1>2
  <2>. HIDE DEF step
  <2>3. step \in [1 .. n -> [V -> V]]
    BY <1>2
  <2>4. FoldSteps(iter, n, V, NoChunks, step)
    BY <1>5
  <2>. QED  BY <2>1, <2>2, <2>3, <2>4, FoldRuns
<1>. HIDE DEF step
<1>7. PICK f : Run(f, n, V, NoChunks, step) /\ f[n] = iter[1 .. n]
    BY <1>6 DEF EndsAt
<1>8. Packed(t, size, overlap) = f[n]
    BY <1>3, <1>7
<1>9. Run(f, Len(t), PackState(X), NoChunks, PlaceStep(X, t, size, overlap))
    BY <1>7 DEF n, V, step
<1>10. Packed(t, size, overlap) = f[Len(t)]
    BY <1>8 DEF n
<1>. QED  BY <1>9, <1>10

(* The sum over one element. *)
LEMMA SumOfOne ==
    ASSUME NEW f, f[1] \in Int
    PROVE  SumFunctionOnSet(f, {1}) = f[1]
<1>. DEFINE S == {1}
            iter == CHOOSE it : it = [s \in SUBSET S |->
                        IF s = {} THEN 0 ELSE f[CHOOSE x \in s : TRUE] + it[s \ {CHOOSE x \in s : TRUE}]]
            g == [s \in SUBSET S |-> IF s = {} THEN 0 ELSE f[1]]
<1>1. SumFunctionOnSet(f, S) = iter[S]
    BY DEF SumFunctionOnSet, FoldFunctionOnSet, MapThenFoldSet
<1>2. g = [s \in SUBSET S |->
                IF s = {} THEN 0 ELSE f[CHOOSE x \in s : TRUE] + g[s \ {CHOOSE x \in s : TRUE}]]
  <2>1. ASSUME NEW s \in SUBSET S
        PROVE  g[s] = IF s = {} THEN 0 ELSE f[CHOOSE x \in s : TRUE] + g[s \ {CHOOSE x \in s : TRUE}]
    <3>1. CASE s = {}
      BY <3>1
    <3>2. CASE s # {}
      <4>1. s = {1} /\ (CHOOSE x \in s : TRUE) = 1 /\ s \ {1} = {} /\ {} \in SUBSET S
        BY <3>2
      <4>2. g[s] = f[1] /\ g[{}] = 0
        BY <3>2
      <4>3. f[1] = f[1] + 0
        OBVIOUS
      <4>. HIDE DEF g
      <4>. QED  BY <3>2, <4>1, <4>2, <4>3
    <3>. QED  BY <3>1, <3>2
  <2>2. g = [s \in SUBSET S |-> g[s]]
    OBVIOUS
  <2>. HIDE DEF g
  <2>. QED  BY <2>1, <2>2
<1>3. iter = [s \in SUBSET S |->
                IF s = {} THEN 0 ELSE f[CHOOSE x \in s : TRUE] + iter[s \ {CHOOSE x \in s : TRUE}]]
  <2>. HIDE DEF g, S
  <2>. QED  BY <1>2
<1>. HIDE DEF iter
<1>4. iter[{}] = 0 /\ iter[S] = f[1] + iter[{}]
  <2>1. (CHOOSE x \in {1} : TRUE) = 1 /\ {1} \ {1} = {} /\ {1} # {} /\ S = {1}
    OBVIOUS
  <2>2. iter[S] = f[CHOOSE x \in S : TRUE] + iter[S \ {CHOOSE x \in S : TRUE}] /\ iter[{}] = 0
    BY <1>3
  <2>. QED  BY <2>1, <2>2
<1>. QED  BY <1>1, <1>4

(* A text counts at least one token. *)
LEMMA PiecesMeasured == Measured(Piece)
<1>. SUFFICES ASSUME NEW x \in Piece PROVE Count(x) \in Nat
    BY DEF Measured
<1>. DEFINE h == [i \in DOMAIN x |-> ApproxTokens(x[i])]
            q == TextTokens(x)
<1>1. DOMAIN x = {1} /\ x[1] \in StretchType
  <2>1. x \in Seq(StretchType) /\ Len(x) = 1
    BY DEF Piece
  <2>2. DOMAIN x = 1 .. 1
    BY <2>1
  <2>. QED  BY <2>1, <2>2
<1>2. ApproxTokens(x[1]) \in Int
  <2>. DEFINE s == x[1]
              D == {i \in s.from .. s.to - 1 : i < s.cjk}
              c == Cardinality(D)
  <2>1. s.from \in Nat /\ s.to \in Nat
    BY <1>1 DEF StretchType
  <2>2. c \in Nat
    <3>. DEFINE a == s.from
                b == s.to - 1
    <3>1. a \in Int /\ b \in Int /\ D \subseteq a .. b
      BY <2>1
    <3>. HIDE DEF a, b, D
    <3>2. IsFiniteSet(a .. b)
      BY <3>1, FS_Interval
    <3>3. IsFiniteSet(D)
      BY <3>1, <3>2, FS_Subset
    <3>. QED  BY <3>3, FS_CardinalityType
  <2>3. ApproxTokens(x[1]) = c + ((s.to - s.from) - c + 3) \div 4
    BY DEF ApproxTokens, Ideographs, Chars
  <2>. HIDE DEF c, s
  <2>4. (s.to - s.from) - c + 3 \in Int
    BY <2>1, <2>2
  <2>. QED  BY <2>2, <2>3, <2>4
<1>3. h[1] = ApproxTokens(x[1]) /\ DOMAIN h = {1}
    BY <1>1
<1>4. q = SumFunctionOnSet(h, {1})
    BY <1>3 DEF TextTokens, SumFunction
<1>. HIDE DEF h, q
<1>5. q \in Int
    BY <1>2, <1>3, <1>4, SumOfOne
<1>6. Count(x) = Max({1, q})
    BY DEF Count, q
<1>. DEFINE a == 1
<1>7. a \in Int
    OBVIOUS
<1>. HIDE DEF a
<1>8. Max({a, q}) = IF a <= q THEN q ELSE a
    BY <1>5, <1>7, MinOfTwo
<1>. QED  BY <1>5, <1>6, <1>8 DEF a

(* Putting texts of one stretch behind each other keeps them apart. *)
LEMMA FlattenOf ==
    ASSUME NEW S, NEW seqs \in Seq(Seq(S)), Len(seqs) > 0, \A i \in DOMAIN seqs : Len(seqs[i]) = 1
    PROVE  FlattenSeq(seqs) = [i \in 1 .. Len(seqs) |-> seqs[i][1]]
<1>. DEFINE n == Len(seqs)
            g == [i \in 1 .. n |-> [j \in 1 .. i |-> seqs[j][1]]]
            flatten == CHOOSE f : f = [i \in 1 .. n |-> IF i = 1 THEN seqs[i] ELSE f[i - 1] \o seqs[i]]
<1>1. n \in Nat /\ n > 0 /\ \A i \in 1 .. n : seqs[i] \in Seq(S) /\ Len(seqs[i]) = 1 /\ seqs[i][1] \in S
  <2>1. n \in Nat /\ n > 0 /\ DOMAIN seqs = 1 .. n
    OBVIOUS
  <2>2. ASSUME NEW i \in 1 .. n PROVE seqs[i] \in Seq(S) /\ Len(seqs[i]) = 1 /\ seqs[i][1] \in S
    <3>1. seqs[i] \in Seq(S)
      OBVIOUS
    <3>2. Len(seqs[i]) = 1
      <4>1. i \in DOMAIN seqs
        BY <2>1
      <4>. QED  BY <4>1
    <3>. DEFINE x == seqs[i]
    <3>3. x \in Seq(S) /\ Len(x) = 1
      BY <3>1, <3>2
    <3>. HIDE DEF x
    <3>4. x[1] \in S
      <4>. DEFINE one == 1
      <4>1. one \in 1 .. Len(x)
        BY <3>3
      <4>. HIDE DEF one
      <4>2. x[one] \in S
        BY <3>3, <4>1, ElementOfSeq
      <4>. QED  BY <4>2 DEF one
    <3>. QED  BY <3>3, <3>4 DEF x
  <2>. QED  BY <2>1, <2>2
<1>2. FlattenSeq(seqs) = flatten[n]
    BY <1>1 DEF FlattenSeq
<1>3. ASSUME NEW i \in 1 .. n PROVE g[i] \in Seq(S) /\ Len(g[i]) = i /\ \A j \in 1 .. i : g[i][j] = seqs[j][1]
  <2>1. g[i] = [j \in 1 .. i |-> seqs[j][1]]
    OBVIOUS
  <2>2. \A j \in 1 .. i : seqs[j][1] \in S
    BY <1>1
  <2>3. i \in Nat
    OBVIOUS
  <2>. HIDE DEF g
  <2>. QED  BY <2>1, <2>2, <2>3
<1>. HIDE DEF g
<1>4. ASSUME NEW i \in 1 .. n, i # 1 PROVE g[i] = g[i - 1] \o seqs[i]
  <2>. DEFINE a == g[i - 1]
              b == seqs[i]
              l == a \o b
              r == g[i]
              k == i - 1
  <2>1. i - 1 \in 1 .. n /\ i \in Nat /\ k + 1 = i /\ k \in Nat
    BY <1>4
  <2>2. a \in Seq(S) /\ Len(a) = k /\ \A j \in 1 .. k : a[j] = seqs[j][1]
    BY <1>3, <2>1
  <2>3. b \in Seq(S) /\ Len(b) = 1 /\ b[1] = seqs[i][1]
    BY <1>1
  <2>4. r \in Seq(S) /\ Len(r) = i /\ \A j \in 1 .. i : r[j] = seqs[j][1]
    BY <1>3
  <2>. HIDE DEF a, b, r, k
  <2>5. /\ a \o b \in Seq(S) /\ Len(a \o b) = Len(a) + Len(b)
        /\ \A j \in 1 .. Len(a) + Len(b) : (a \o b)[j] = IF j <= Len(a) THEN a[j] ELSE b[j - Len(a)]
    BY <2>2, <2>3, ConcatProperties
  <2>6. l \in Seq(S) /\ Len(l) = i /\ (\A j \in 1 .. k : l[j] = seqs[j][1]) /\ l[i] = seqs[i][1]
    <3>. HIDE DEF l
    <3>1. l \in Seq(S) /\ Len(l) = k + 1 /\ \A j \in 1 .. k + 1 : l[j] = IF j <= k THEN a[j] ELSE b[j - k]
      BY <2>2, <2>3, <2>5 DEF l
    <3>2. i \in 1 .. k + 1 /\ ~(i <= k) /\ i - k = 1 /\ \A j \in 1 .. k : j \in 1 .. k + 1 /\ j <= k
      BY <2>1
    <3>3. l[i] = b[1] /\ \A j \in 1 .. k : l[j] = a[j]
      BY <3>1, <3>2
    <3>. QED  BY <2>1, <2>2, <2>3, <3>1, <3>3
  <2>. HIDE DEF l
  <2>7. \A j \in 1 .. Len(l) : l[j] = r[j]
    <3>. SUFFICES ASSUME NEW j \in 1 .. i PROVE l[j] = r[j]
      BY <2>6
    <3>1. j = i \/ j \in 1 .. k
      BY <2>1
    <3>. QED  BY <2>4, <2>6, <3>1
  <2>8. l = r
    BY <2>4, <2>6, <2>7, SeqEqual
  <2>. QED  BY <2>8 DEF l, r, a, b
<1>5. g[1] = seqs[1]
  <2>. DEFINE a == g[1]
              b == seqs[1]
  <2>1. 1 \in 1 .. n
    BY <1>1
  <2>2. a \in Seq(S) /\ Len(a) = 1 /\ a[1] = seqs[1][1]
    BY <1>3, <2>1
  <2>3. b \in Seq(S) /\ Len(b) = 1 /\ b[1] = seqs[1][1]
    BY <1>1, <2>1
  <2>. HIDE DEF a, b
  <2>4. \A j \in 1 .. Len(a) : a[j] = b[j]
    BY <2>2, <2>3
  <2>5. a = b
    BY <2>2, <2>3, <2>4, SeqEqual
  <2>. QED  BY <2>5 DEF a, b
<1>6. flatten = [i \in 1 .. n |-> IF i = 1 THEN seqs[i] ELSE flatten[i - 1] \o seqs[i]]
  <2>1. g = [i \in 1 .. n |-> IF i = 1 THEN seqs[i] ELSE g[i - 1] \o seqs[i]]
    <3>1. \A i \in 1 .. n : g[i] = IF i = 1 THEN seqs[i] ELSE g[i - 1] \o seqs[i]
      BY <1>4, <1>5
    <3>2. g = [i \in 1 .. n |-> g[i]]
      BY DEF g
    <3>. HIDE DEF n
    <3>. QED  BY <3>1, <3>2
  <2>. HIDE DEF n
  <2>. QED  BY <2>1
<1>. HIDE DEF flatten
<1>. DEFINE T == {k \in 0 .. n : k > 0 => flatten[k] = g[k]}
<1>7. 0 \in T
    BY <1>1
<1>8. \A k \in 0 .. n - 1 : k \in T => k + 1 \in T
  <2>. SUFFICES ASSUME NEW k \in 0 .. n - 1, k \in T PROVE flatten[k + 1] = g[k + 1]
    BY <1>1
  <2>. DEFINE c == k + 1
  <2>1. c \in 1 .. n /\ (c = 1 \/ k > 0) /\ c - 1 = k /\ (k > 0 => c # 1)
    BY <1>1
  <2>. HIDE DEF c
  <2>2. flatten[c] = IF c = 1 THEN seqs[c] ELSE flatten[c - 1] \o seqs[c]
    BY <1>6, <2>1
  <2>3. CASE c = 1
    BY <1>5, <2>2, <2>3 DEF c
  <2>4. CASE c # 1
    <3>1. flatten[k] = g[k]
      BY <2>1, <2>4
    <3>2. g[c] = g[c - 1] \o seqs[c]
      BY <1>4, <2>1, <2>4
    <3>3. flatten[c] = g[c]
      BY <2>1, <2>2, <2>4, <3>1, <3>2
    <3>. QED  BY <3>3 DEF c
  <2>. QED  BY <2>3, <2>4
<1>9. flatten[n] = g[n]
  <2>. HIDE DEF T
  <2>1. \A k \in 0 .. n : k \in T
    BY <1>1, <1>7, <1>8, UpTo
  <2>2. n \in T
    BY <1>1, <2>1
  <2>. QED  BY <1>1, <2>2 DEF T
<1>10. g[n] = [i \in 1 .. n |-> seqs[i][1]]
    BY <1>1 DEF g
<1>. QED  BY <1>2, <1>9, <1>10

(* So chunks that say the same are the same. *)
LEMMA FlattenTells ==
    ASSUME NEW a \in Seq(Piece), NEW b \in Seq(Piece), a # <<>>, b # <<>>, FlattenSeq(a) = FlattenSeq(b)
    PROVE  a = b
<1>1. ASSUME NEW s \in Seq(Piece), s # <<>>
      PROVE  FlattenSeq(s) = [i \in 1 .. Len(s) |-> s[i][1]] /\ Len(s) \in Nat
  <2>1. s \in Seq(Seq(StretchType)) /\ Len(s) > 0 /\ Len(s) \in Nat /\ DOMAIN s = 1 .. Len(s)
        /\ \A i \in DOMAIN s : Len(s[i]) = 1
    BY <1>1 DEF Piece
  <2>. QED  BY <2>1, FlattenOf
<1>. DEFINE x == [i \in 1 .. Len(a) |-> a[i][1]]
            y == [i \in 1 .. Len(b) |-> b[i][1]]
<1>2. x = y
    BY <1>1
<1>3. Len(a) \in Nat /\ Len(b) \in Nat /\ Len(a) = Len(b)
  <2>1. Len(a) \in Nat /\ Len(b) \in Nat
    BY <1>1
  <2>2. 1 .. Len(a) = 1 .. Len(b)
    <3>1. DOMAIN x = 1 .. Len(a) /\ DOMAIN y = 1 .. Len(b)
      OBVIOUS
    <3>. HIDE DEF x, y
    <3>. QED  BY <1>2, <3>1
  <2>. DEFINE m == Len(a)
              n == Len(b)
  <2>. HIDE DEF m, n
  <2>3. m \in Nat /\ n \in Nat /\ 1 .. m = 1 .. n
    BY <2>1, <2>2 DEF m, n
  <2>4. m <= n
    <3>. SUFFICES ASSUME m > n PROVE FALSE
      BY <2>3
    <3>1. m \in 1 .. m /\ m \notin 1 .. n
      BY <2>3
    <3>. QED  BY <2>3, <3>1
  <2>5. n <= m
    <3>. SUFFICES ASSUME n > m PROVE FALSE
      BY <2>3
    <3>1. n \in 1 .. n /\ n \notin 1 .. m
      BY <2>3
    <3>. QED  BY <2>3, <3>1
  <2>. QED  BY <2>1, <2>3, <2>4, <2>5 DEF m, n
<1>4. ASSUME NEW i \in 1 .. Len(a) PROVE a[i] = b[i]
  <2>1. x[i] = y[i] /\ x[i] = a[i][1] /\ y[i] = b[i][1]
    BY <1>2, <1>3
  <2>2. a[i] \in Piece /\ b[i] \in Piece
    BY <1>3
  <2>. DEFINE u == a[i]
              v == b[i]
  <2>3. u \in Seq(StretchType) /\ v \in Seq(StretchType) /\ Len(u) = 1 /\ Len(v) = 1 /\ u[1] = v[1]
    BY <2>1, <2>2 DEF Piece
  <2>. HIDE DEF u, v
  <2>4. \A j \in 1 .. Len(u) : u[j] = v[j]
    BY <2>3
  <2>5. u = v
    BY <2>3, <2>4, SeqEqual
  <2>. QED  BY <2>5 DEF u, v
<1>. QED  BY <1>3, <1>4, SeqEqual

(* There are n of them. *)
LEMMA SlicesOfAre ==
    ASSUME NEW t, NEW at, NEW to, NEW n \in Nat
    PROVE  /\ Len(SlicesOf(t, at, to, n)) = n /\ DOMAIN SlicesOf(t, at, to, n) = 1 .. n
           /\ \A j \in 1 .. n : SlicesOf(t, at, to, n)[j] = SubSeq(t, at[j], to[j])
<1>. DEFINE q(j) == SubSeq(t, at[j], to[j])
<1>1. SlicesOf(t, at, to, n) = [j \in 1 .. n |-> q(j)]
    BY DEF SlicesOf
<1>. HIDE DEF q
<1>2. Len([j \in 1 .. n |-> q(j)]) = n
    OBVIOUS
<1>. QED  BY <1>1, <1>2 DEF q

(* The list of chunks with another one behind it. *)
LEMMA SlicesAppend ==
    ASSUME NEW X, NEW t, NEW at, NEW to, NEW n \in Nat,
           SlicesOf(t, at, to, n) \in Seq(X), SubSeq(t, at[n + 1], to[n + 1]) \in X
    PROVE  Append(SlicesOf(t, at, to, n), SubSeq(t, at[n + 1], to[n + 1])) = SlicesOf(t, at, to, n + 1)
<1>. DEFINE y == SlicesOf(t, at, to, n)
            m == n + 1
            z == SubSeq(t, at[m], to[m])
            l == Append(y, z)
            h == SlicesOf(t, at, to, m)
<1>1. y \in Seq(X) /\ z \in X /\ m \in Nat /\ \A j \in 1 .. m : j = m \/ j \in 1 .. n
    OBVIOUS
<1>2. Len(y) = n /\ \A j \in 1 .. n : y[j] = SubSeq(t, at[j], to[j])
    BY SlicesOfAre
<1>3. m = n + 1
    OBVIOUS
<1>. HIDE DEF y, z, m
<1>4. /\ Append(y, z) \in Seq(X) /\ Len(Append(y, z)) = Len(y) + 1
      /\ Append(y, z)[Len(y) + 1] = z /\ \A j \in 1 .. Len(y) : Append(y, z)[j] = y[j]
    BY <1>1, AppendProperties
<1>5. l \in Seq(X) /\ Len(l) = m /\ l[m] = z /\ \A j \in 1 .. n : l[j] = y[j]
    BY <1>2, <1>3, <1>4
<1>. HIDE DEF l
<1>6. \A j \in 1 .. m : l[j] = SubSeq(t, at[j], to[j])
    BY <1>1, <1>2, <1>5 DEF z
<1>7. l = [j \in 1 .. m |-> l[j]]
    BY <1>1, <1>5
<1>8. l = h
    BY <1>6, <1>7 DEF SlicesOf
<1>. QED  BY <1>8 DEF l, y, z, m

(* The first text starts the first chunk. *)
LEMMA PackingStarts ==
    ASSUME NEW X, NEW t \in Seq(X), Len(t) > 0, NEW size, NEW overlap
    PROVE  PackedAt(Place(NoChunks, t[1], size, overlap), t, size, overlap, 1)
<1>. DEFINE s == Place(NoChunks, t[1], size, overlap)
            f == [j \in 1 .. 1 |-> 1]
<1>1. NoChunks.current = <<>> /\ NoChunks = [chunks |-> <<>>, current |-> <<>>]
    BY DEF NoChunks
<1>2. s.chunks = <<>> /\ s.current = Append(<<>>, t[1])
    BY <1>1 DEF Place
<1>3. 1 \in 1 .. Len(t) /\ Append(<<>>, t[1]) = <<t[1]>>
    OBVIOUS
<1>4. SubSeq(t, 1, 1) = <<t[1]>>
  <2>. DEFINE k == 1
  <2>1. k \in 1 .. Len(t)
    BY <1>3
  <2>. HIDE DEF k
  <2>2. SubSeq(t, k, k) = <<t[k]>>
    BY <2>1, SliceOfOne
  <2>. QED  BY <2>2 DEF k
<1>5. Slices(f, f, 1, t, size, overlap, 1)
    BY SlicesStart
<1>6. f[1] = 1 /\ Len(<<>>) + 1 = 1 /\ Len(<<>>) = 0
    OBVIOUS
<1>7. SlicesOf(t, f, f, 0) = <<>>
    BY DEF SlicesOf
<1>. HIDE DEF s, f
<1>8. /\ Slices(f, f, Len(s.chunks) + 1, t, size, overlap, 1)
      /\ s.chunks = SlicesOf(t, f, f, Len(s.chunks))
      /\ s.current = SubSeq(t, f[Len(s.chunks) + 1], 1)
    BY <1>2, <1>3, <1>4, <1>5, <1>6, <1>7
<1>. DEFINE one == 1
<1>9. one # 0
    OBVIOUS
<1>10. PackedAt(s, t, size, overlap, one)
    BY <1>8, <1>9 DEF PackedAt
<1>. QED  BY <1>10 DEF s

(* Every other text goes on with a chunk or starts one. *)
LEMMA PackingGoesOn ==
    ASSUME NEW X, Measured(X), NEW t \in Seq(X), NEW size \in Nat, NEW overlap \in Nat,
           NEW k \in 1 .. Len(t) - 1, NEW s \in PackState(X), PackedAt(s, t, size, overlap, k)
    PROVE  PackedAt(Place(s, t[k + 1], size, overlap), t, size, overlap, k + 1)
<1>. DEFINE x == t[k + 1]
            c == k + 1
            n == Len(s.chunks)
            m == n + 1
<1>1. k \in Nat \ {0} /\ k < Len(t) /\ k # 0 /\ c # 0 /\ c \in Nat /\ k <= Len(t)
    OBVIOUS
<1>2. s.chunks \in Seq(Seq(X)) /\ s.current \in Seq(X) /\ n \in Nat /\ m \in Nat \ {0} /\ m - 1 = n
    BY DEF PackState
<1>3. PICK at, to : /\ Slices(at, to, m, t, size, overlap, k)
                    /\ s.chunks = SlicesOf(t, at, to, n)
                    /\ s.current = SubSeq(t, at[m], k)
    BY <1>1 DEF PackedAt
<1>. DEFINE a == at[m]
<1>4. a \in Nat \ {0} /\ a <= k /\ to[m] = k
  <2>1. at \in [1 .. m -> 1 .. k] /\ m \in 1 .. m /\ to[m] = k
    BY <1>2, <1>3 DEF Slices
  <2>2. a \in 1 .. k
    BY <2>1
  <2>. HIDE DEF a
  <2>. QED  BY <1>1, <2>1, <2>2
<1>5. a <= k + 1 /\ k - a + 1 > 0
  <2>. HIDE DEF a
  <2>. QED  BY <1>1, <1>4
<1>6. s.current # <<>> /\ Append(s.current, x) = SubSeq(t, a, c) /\ x \in X /\ Count(x) \in Nat
      /\ Total(s.current) \in Nat /\ Total(Append(s.current, x)) = Total(s.current) + Count(x)
  <2>. HIDE DEF a
  <2>1. s.current = SubSeq(t, a, k)
    BY <1>3 DEF a
  <2>2. Len(s.current) > 0
    <3>1. Len(SubSeq(t, a, k)) = k - a + 1
      BY <1>1, <1>4, <1>5, SliceOf
    <3>. QED  BY <1>5, <2>1, <3>1
  <2>3. Append(SubSeq(t, a, k), t[k + 1]) = SubSeq(t, a, k + 1)
    BY <1>1, <1>4, <1>5, SliceGrows
  <2>4. x \in X /\ Count(x) \in Nat
    BY <1>1 DEF Measured
  <2>. HIDE DEF x
  <2>. DEFINE u == s.current
  <2>5. u \in Seq(X)
    BY <1>2
  <2>. HIDE DEF u
  <2>6. Total(u) \in Nat /\ Total(Append(u, x)) = Total(u) + Count(x)
    BY <2>4, <2>5, TotalOf
  <2>7. Append(s.current, x) = SubSeq(t, a, c)
    BY <2>1, <2>3 DEF x
  <2>8. s.current # <<>>
    BY <2>2
  <2>9. Total(s.current) \in Nat /\ Total(Append(s.current, x)) = Total(s.current) + Count(x)
    BY <2>6 DEF u
  <2>. QED  BY <2>4, <2>7, <2>8, <2>9
<1>7. CASE Total(s.current) + Count(x) <= size
  <2>. DEFINE v == Place(s, x, size, overlap)
              u == [to EXCEPT ![m] = k + 1]
  <2>1. v = [s EXCEPT !.current = Append(s.current, x)]
    BY <1>7 DEF Place
  <2>2. v.chunks = s.chunks /\ v.current = SubSeq(t, a, c)
    BY <1>6, <2>1 DEF PackState
  <2>. HIDE DEF v
  <2>3. Total(SubSeq(t, at[m], k + 1)) <= size
    BY <1>6, <1>7
  <2>4. Slices(at, u, m, t, size, overlap, k + 1)
    <3>. HIDE DEF m, u
    <3>1. Slices(at, [to EXCEPT ![m] = k + 1], m, t, size, overlap, k + 1)
      BY <1>1, <1>3, <2>3, SlicesGrow
    <3>. QED  BY <3>1 DEF u
  <2>5. SlicesOf(t, at, u, n) = SlicesOf(t, at, to, n)
    <3>1. \A j \in 1 .. n : u[j] = to[j]
      <4>1. to \in [1 .. m -> 1 .. k]
        BY <1>3 DEF Slices
      <4>2. \A j \in 1 .. n : j \in 1 .. m /\ j # m
        BY <1>2
      <4>. HIDE DEF n, m
      <4>. QED  BY <4>1, <4>2
    <3>. HIDE DEF u, n
    <3>. QED  BY <3>1 DEF SlicesOf
  <2>6. /\ Slices(at, u, Len(v.chunks) + 1, t, size, overlap, c)
        /\ v.chunks = SlicesOf(t, at, u, Len(v.chunks))
        /\ v.current = SubSeq(t, at[Len(v.chunks) + 1], c)
    BY <1>3, <2>2, <2>4, <2>5
  <2>. HIDE DEF c, u
  <2>7. PackedAt(v, t, size, overlap, c)
    BY <1>1, <2>6 DEF PackedAt
  <2>. QED  BY <2>7 DEF v, c
<1>8. CASE ~(Total(s.current) + Count(x) <= size)
  <2>. DEFINE v == Place(s, x, size, overlap)
              r == Restart(Kept(s.current, overlap), x, size)
  <2>1. v = [chunks |-> Append(s.chunks, s.current), current |-> r]
    BY <1>6, <1>8 DEF Place
  <2>2. v.chunks = Append(s.chunks, s.current) /\ v.current = r
    BY <2>1
  <2>. HIDE DEF v
  <2>3. PICK p \in 1 .. c : /\ a < p /\ r = SubSeq(t, p, c)
                            /\ Total(SubSeq(t, p, k)) <= overlap
                            /\ p < c => Total(SubSeq(t, p, c)) <= size
    <3>1. Total(SubSeq(t, a, k)) + Count(t[k + 1]) > size
      BY <1>3, <1>6, <1>8
    <3>2. s.current = SubSeq(t, a, k)
      BY <1>3
    <3>. HIDE DEF a, r
    <3>3. \E p \in 1 .. k + 1 :
              /\ a < p
              /\ Restart(Kept(SubSeq(t, a, k), overlap), t[k + 1], size) = SubSeq(t, p, k + 1)
              /\ Total(SubSeq(t, p, k)) <= overlap
              /\ p < k + 1 => Total(SubSeq(t, p, k + 1)) <= size
      <4>1. k \in Nat /\ k < Len(t) /\ a \in Nat \ {0} /\ a <= k
        BY <1>1, <1>4
      <4>. QED  BY <4>1, <3>1, t \in Seq(X), Measured(X), size \in Nat, overlap \in Nat, RestartOf
    <3>4. r = Restart(Kept(SubSeq(t, a, k), overlap), t[k + 1], size)
      BY <3>2 DEF r
    <3>. QED  BY <3>3, <3>4
  <2>. DEFINE f == More(at, m, p)
              g == More(to, m, k + 1)
  <2>4. Slices(f, g, m + 1, t, size, overlap, k + 1)
    <3>. HIDE DEF m
    <3>1. at[m] < p /\ Total(SubSeq(t, p, k)) <= overlap /\ (p < k + 1 => Total(SubSeq(t, p, k + 1)) <= size)
          /\ p \in 1 .. k + 1
      BY <2>3
    <3>2. Slices(More(at, m, p), More(to, m, k + 1), m + 1, t, size, overlap, k + 1)
      BY <1>1, <1>3, <3>1, SlicesMore
    <3>. QED  BY <3>2
  <2>5. f[m + 1] = p /\ \A j \in 1 .. m : f[j] = at[j] /\ g[j] = to[j]
    <3>1. m + 1 \in 1 .. m + 1 /\ \A j \in 1 .. m : j \in 1 .. m + 1 /\ j # m + 1
      BY <1>2
    <3>. HIDE DEF m
    <3>. QED  BY <3>1 DEF More
  <2>6. Len(v.chunks) = m /\ v.chunks = SlicesOf(t, f, g, m)
    <3>1. v.chunks = Append(SlicesOf(t, at, to, n), SubSeq(t, at[m], to[m]))
      BY <1>3, <1>4, <2>2
    <3>2. SlicesOf(t, at, to, n) \in Seq(Seq(X)) /\ SubSeq(t, at[m], to[m]) \in Seq(X)
      BY <1>2, <1>3, <1>4
    <3>3. v.chunks = SlicesOf(t, at, to, m)
      <4>. DEFINE Y == Seq(X)
      <4>1. SlicesOf(t, at, to, n) \in Seq(Y) /\ SubSeq(t, at[n + 1], to[n + 1]) \in Y
        BY <3>2
      <4>. HIDE DEF Y, n
      <4>2. Append(SlicesOf(t, at, to, n), SubSeq(t, at[n + 1], to[n + 1])) = SlicesOf(t, at, to, n + 1)
        BY <1>2, <4>1, SlicesAppend
      <4>. QED  BY <3>1, <4>2
    <3>. HIDE DEF f, g, m
    <3>4. SlicesOf(t, at, to, m) = SlicesOf(t, f, g, m)
      BY <2>5 DEF SlicesOf
    <3>5. Len(SlicesOf(t, f, g, m)) = m
      BY <1>2, SlicesOfAre
    <3>. QED  BY <3>3, <3>4, <3>5
  <2>7. v.current = SubSeq(t, f[m + 1], c)
    BY <2>2, <2>3, <2>5
  <2>. HIDE DEF f, g, m
  <2>8. /\ Slices(f, g, Len(v.chunks) + 1, t, size, overlap, c)
        /\ v.chunks = SlicesOf(t, f, g, Len(v.chunks))
        /\ v.current = SubSeq(t, f[Len(v.chunks) + 1], c)
    BY <2>4, <2>6, <2>7
  <2>. HIDE DEF c
  <2>9. PackedAt(v, t, size, overlap, c)
    BY <1>1, <2>8 DEF PackedAt
  <2>. QED  BY <2>9 DEF v, c
<1>. QED  BY <1>7, <1>8

(* Chunks that go up to the end of the text are well packed. *)
LEMMA SlicesAreWell ==
    ASSUME NEW X, NEW t \in Seq(X), NEW size, NEW overlap, NEW at, NEW to, NEW m,
           Slices(at, to, m, t, size, overlap, Len(t)), NEW r \in 1 .. m,
           NEW given, given = SlicesOf(t, at, to, r), SubSeq(t, at[r], to[r]) = SubSeq(t, at[m], to[m])
    PROVE  PackedWell(given, t, size, overlap)
<1>. DEFINE n == Len(t)
            start == [j \in 1 .. r |-> at[j]]
            end(k) == start[k] + Len(given[k]) - 1
<1>1. n \in Nat /\ m \in Nat \ {0} /\ r \in Nat \ {0} /\ at[1] = 1 /\ to[m] = n
      /\ \A j \in 1 .. m : at[j] \in 1 .. n /\ to[j] \in 1 .. n /\ at[j] <= to[j]
  <2>1. m \in Nat \ {0} /\ at[1] = 1 /\ to[m] = n /\ n \in Nat
        /\ at \in [1 .. m -> 1 .. n] /\ to \in [1 .. m -> 1 .. n]
    BY DEF Slices
  <2>2. \A j \in 1 .. m : at[j] <= to[j]
    BY DEF Slices
  <2>. HIDE DEF n
  <2>. QED  BY <2>1, <2>2
<1>2. Len(given) = r /\ DOMAIN given = 1 .. r /\ \A k \in 1 .. r : given[k] = SubSeq(t, at[k], to[k])
    BY <1>1, SlicesOfAre
<1>3. ASSUME NEW k \in 1 .. m
      PROVE  Len(SubSeq(t, at[k], to[k])) = to[k] - at[k] + 1
  <2>. DEFINE a == at[k]
              b == to[k]
  <2>1. a \in Nat \ {0} /\ b \in Nat /\ a <= b + 1 /\ b <= Len(t)
    BY <1>1
  <2>. HIDE DEF a, b
  <2>2. Len(SubSeq(t, a, b)) = b - a + 1
    BY <2>1, SliceOf
  <2>. QED  BY <2>2 DEF a, b
<1>4. start \in [1 .. r -> 1 .. n] /\ start[1] = 1 /\ \A k \in 1 .. r : start[k] = at[k] /\ k \in 1 .. m
    BY <1>1
<1>. HIDE DEF start
<1>5. ASSUME NEW k \in 1 .. r PROVE end(k) = to[k]
  <2>1. k \in 1 .. m
    BY <1>1
  <2>2. Len(given[k]) = to[k] - at[k] + 1
    BY <1>2, <1>3, <2>1
  <2>3. start[k] = at[k] /\ at[k] \in Int /\ to[k] \in Int
    BY <1>1, <1>4, <2>1
  <2>. HIDE DEF start
  <2>4. end(k) = at[k] + (to[k] - at[k] + 1) - 1
    BY <2>2, <2>3
  <2>. QED  BY <2>3, <2>4
<1>6. LastOf(t, Len(Last(given))) = Last(given)
  <2>. DEFINE a == at[m]
              c == Len(Last(given))
  <2>1. Last(given) = given[r]
    BY <1>2 DEF Last
  <2>2. Last(given) = SubSeq(t, a, n)
    <3>1. r \in 1 .. r
      BY <1>1
    <3>2. given[r] = SubSeq(t, at[r], to[r])
      BY <1>2, <3>1
    <3>. HIDE DEF n
    <3>. QED  BY <1>1, <2>1, <3>2
  <2>3. m \in 1 .. m /\ a \in 1 .. n
    BY <1>1
  <2>4. c = n - a + 1
    BY <1>1, <1>3, <2>2, <2>3
  <2>. HIDE DEF a, c
  <2>5. n - c + 1 = a
    BY <1>1, <2>3, <2>4
  <2>6. LastOf(t, c) = SubSeq(t, n - c + 1, n)
    BY DEF LastOf
  <2>. QED  BY <2>2, <2>5, <2>6 DEF c
<1>. HIDE DEF end
<1>7. ASSUME NEW k \in 1 .. r PROVE end(k) <= n /\ given[k] = SubSeq(t, start[k], end(k))
  <2>1. k \in 1 .. m /\ start[k] = at[k]
    BY <1>4
  <2>2. end(k) = to[k] /\ given[k] = SubSeq(t, at[k], to[k]) /\ to[k] <= n
    BY <1>1, <1>2, <1>5, <2>1
  <2>. HIDE DEF n
  <2>. QED  BY <2>1, <2>2
<1>8. ASSUME NEW k \in 1 .. r - 1
      PROVE  start[k] < start[k + 1] /\ start[k + 1] <= end(k) + 1
             /\ Total(SubSeq(t, start[k + 1], end(k))) <= overlap
  <2>1. k \in 1 .. m - 1 /\ k \in 1 .. r /\ k + 1 \in 1 .. r
    BY <1>1
  <2>2. at[k] < at[k + 1] /\ at[k + 1] <= to[k] + 1 /\ Total(SubSeq(t, at[k + 1], to[k])) <= overlap
    BY <2>1 DEF Slices
  <2>. QED  BY <1>4, <1>5, <2>1, <2>2
<1>9. ASSUME NEW k \in 1 .. r, Len(given[k]) > 1 PROVE Total(given[k]) <= size
  <2>1. k \in 1 .. m
    BY <1>1
  <2>2. at[k] < to[k]
    <3>1. Len(SubSeq(t, at[k], to[k])) = to[k] - at[k] + 1
      BY <1>3, <2>1
    <3>2. given[k] = SubSeq(t, at[k], to[k])
      BY <1>2
    <3>3. at[k] \in 1 .. n /\ to[k] \in 1 .. n
      BY <1>1, <2>1
    <3>. DEFINE a == at[k]
                b == to[k]
    <3>4. a \in Int /\ b \in Int /\ b - a + 1 > 1
      <4>1. a \in Int /\ b \in Int
        BY <3>3
      <4>2. Len(given[k]) = b - a + 1
        BY <3>1, <3>2
      <4>. HIDE DEF a, b
      <4>. QED  BY <1>9, <4>1, <4>2
    <3>. HIDE DEF a, b
    <3>5. a < b
      BY <3>4
    <3>. QED  BY <3>5 DEF a, b
  <2>3. Total(SubSeq(t, at[k], to[k])) <= size
    BY <2>1, <2>2 DEF Slices
  <2>. QED  BY <1>2, <2>3
<1>10. given # <<>>
    BY <1>1, <1>2
<1>11. /\ given # <<>> /\ start[1] = 1
       /\ \A k \in DOMAIN given : end(k) <= Len(t) /\ given[k] = SubSeq(t, start[k], end(k))
       /\ \A k \in 1 .. Len(given) - 1 :
             /\ start[k] < start[k + 1] /\ start[k + 1] <= end(k) + 1
             /\ Total(SubSeq(t, start[k + 1], end(k))) <= overlap
       /\ LastOf(t, Len(Last(given))) = Last(given)
    BY <1>2, <1>4, <1>6, <1>7, <1>8, <1>10
<1>12. start \in [1 .. Len(given) -> 1 .. Len(t)]
    BY <1>2, <1>4
<1>13. \A k \in DOMAIN given : Len(given[k]) > 1 => Total(given[k]) <= size
    BY <1>2, <1>9
<1>. QED  BY <1>11, <1>12, <1>13 DEF PackedWell, end

(* So at the end of the texts. *)
LEMMA PackingEnds ==
    ASSUME NEW X, Measured(X), NEW t \in Seq(X), Len(t) > 0, NEW size \in Nat, NEW overlap \in Nat
    PROVE  /\ Packed(t, size, overlap) \in PackState(X)
           /\ PackedAt(Packed(t, size, overlap), t, size, overlap, Len(t))
<1>. DEFINE n == Len(t)
            V == PackState(X)
            P(s, k) == PackedAt(s, t, size, overlap, k)
            step == PlaceStep(X, t, size, overlap)
<1>1. n \in Nat /\ n > 0
    OBVIOUS
<1>2. PICK f : Run(f, n, V, NoChunks, step) /\ Packed(t, size, overlap) = f[n]
    BY PackRuns
<1>. HIDE DEF step
<1>3. /\ f \in [0 .. n -> V] /\ f[0] = NoChunks
      /\ \A k \in 1 .. n : f[k] = Place(f[k - 1], t[k], size, overlap)
  <2>1. f \in [0 .. n -> V] /\ f[0] = NoChunks /\ \A k \in 1 .. n : f[k] = step[k][f[k - 1]]
    BY <1>2 DEF Run
  <2>2. ASSUME NEW k \in 1 .. n PROVE step[k][f[k - 1]] = Place(f[k - 1], t[k], size, overlap)
    <3>1. k - 1 \in 0 .. n
      BY <1>1
    <3>2. f[k - 1] \in V
      BY <2>1, <3>1
    <3>. HIDE DEF V
    <3>. QED  BY <3>2 DEF step, PlaceStep, V
  <2>. QED  BY <2>1, <2>2
<1>. DEFINE T == {k \in 0 .. n : P(f[k], k)}
<1>. HIDE DEF V, P
<1>4. 0 \in T
    BY <1>1, <1>3 DEF P, PackedAt
<1>5. \A k \in 0 .. n - 1 : k \in T => k + 1 \in T
  <2>. SUFFICES ASSUME NEW k \in 0 .. n - 1, P(f[k], k) PROVE k + 1 \in 0 .. n /\ P(f[k + 1], k + 1)
    OBVIOUS
  <2>1. k + 1 \in 1 .. n /\ (k + 1) - 1 = k /\ k \in 0 .. n
    BY <1>1
  <2>2. f[k + 1] = Place(f[k], t[k + 1], size, overlap) /\ f[k] \in V
    BY <1>3, <2>1
  <2>3. CASE k = 0
    <3>1. PackedAt(Place(NoChunks, t[1], size, overlap), t, size, overlap, 1)
      BY PackingStarts
    <3>. QED  BY <1>3, <2>1, <2>2, <2>3, <3>1 DEF P
  <2>4. CASE k # 0
    <3>. DEFINE s == f[k]
    <3>1. k \in 1 .. Len(t) - 1 /\ s \in PackState(X) /\ PackedAt(s, t, size, overlap, k)
      BY <1>1, <2>2, <2>4 DEF V, P
    <3>. HIDE DEF s
    <3>2. PackedAt(Place(s, t[k + 1], size, overlap), t, size, overlap, k + 1)
      BY <3>1, PackingGoesOn
    <3>. QED  BY <2>1, <2>2, <3>2 DEF P, s
  <2>. QED  BY <2>3, <2>4
<1>6. n \in T
  <2>. HIDE DEF T, n
  <2>1. \A k \in 0 .. n : k \in T
    BY <1>1, <1>4, <1>5, UpTo
  <2>. QED  BY <1>1, <2>1
<1>7. f[n] \in V
    BY <1>1, <1>3
<1>. QED  BY <1>2, <1>6, <1>7 DEF P, V

(* Chunks are made of whole texts in their order, with no more overlap and
   no more tokens than was asked for (chunker.py, 162-202 and 636-668).    *)
LEMMA PackIsSound ==
    ASSUME NEW t \in Seq(Piece), Len(t) > 0, NEW size \in Nat, NEW overlap \in Nat
    PROVE  PackedWell(Pack(t, size, overlap), t, size, overlap)
<1>. DEFINE s == Packed(t, size, overlap)
            k == Len(t)
            n == Len(s.chunks)
            m == n + 1
            given == Pack(t, size, overlap)
            same == s.chunks # <<>> /\ FlattenSeq(Last(s.chunks)) = FlattenSeq(s.current)
<1>0. Measured(Piece)
    BY PiecesMeasured
<1>1. s \in PackState(Piece) /\ PackedAt(s, t, size, overlap, k)
    BY <1>0, PackingEnds
<1>2. given = IF s.current = <<>> \/ same THEN s.chunks ELSE Append(s.chunks, s.current)
    BY DEF Pack, Packed
<1>. HIDE DEF s, given
<1>3. s.chunks \in Seq(Seq(Piece)) /\ s.current \in Seq(Piece) /\ n \in Nat /\ m \in 1 .. m
      /\ k \in Nat \ {0} /\ k # 0
    BY <1>1 DEF PackState
<1>4. PICK at, to : /\ Slices(at, to, m, t, size, overlap, k)
                    /\ s.chunks = SlicesOf(t, at, to, n)
                    /\ s.current = SubSeq(t, at[m], k)
    BY <1>1, <1>3 DEF PackedAt
<1>5. to[m] = k /\ at \in [1 .. m -> 1 .. k] /\ to \in [1 .. m -> 1 .. k] /\ \A j \in 1 .. m : at[j] <= to[j]
    BY <1>4 DEF Slices
<1>6. s.current = SubSeq(t, at[m], to[m])
    BY <1>4, <1>5
<1>7. ASSUME NEW j \in 1 .. m PROVE SubSeq(t, at[j], to[j]) # <<>> /\ SubSeq(t, at[j], to[j]) \in Seq(Piece)
  <2>. DEFINE a == at[j]
              b == to[j]
  <2>1. a \in 1 .. k /\ b \in 1 .. k /\ a <= b
    BY <1>5
  <2>. HIDE DEF a, b
  <2>2. a \in Nat \ {0} /\ b \in Nat /\ a <= b + 1 /\ b <= Len(t) /\ b - a + 1 > 0
    BY <2>1
  <2>3. SubSeq(t, a, b) \in Seq(Piece) /\ Len(SubSeq(t, a, b)) = b - a + 1
    BY <2>2, SliceOf
  <2>4. SubSeq(t, a, b) # <<>>
    BY <2>2, <2>3
  <2>. QED  BY <2>3, <2>4 DEF a, b
<1>8. s.current # <<>>
    BY <1>3, <1>6, <1>7
<1>9. CASE same
  <2>1. given = SlicesOf(t, at, to, n) /\ Len(s.chunks) > 0 /\ n \in 1 .. m
    BY <1>2, <1>3, <1>4, <1>9
  <2>2. Last(s.chunks) = SubSeq(t, at[n], to[n])
    <3>1. Last(s.chunks) = s.chunks[n]
      BY DEF Last
    <3>2. n \in 1 .. n
      BY <1>3, <2>1
    <3>. HIDE DEF n
    <3>. QED  BY <1>4, <3>1, <3>2 DEF SlicesOf
  <2>3. SubSeq(t, at[n], to[n]) = SubSeq(t, at[m], to[m])
    <3>. DEFINE x == SubSeq(t, at[n], to[n])
                y == SubSeq(t, at[m], to[m])
    <3>1. x \in Seq(Piece) /\ y \in Seq(Piece) /\ x # <<>> /\ y # <<>> /\ FlattenSeq(x) = FlattenSeq(y)
      BY <1>3, <1>6, <1>7, <1>9, <2>1, <2>2
    <3>. HIDE DEF x, y
    <3>2. x = y
      BY <3>1, FlattenTells
    <3>. QED  BY <3>2 DEF x, y
  <2>. HIDE DEF m, n
  <2>4. PackedWell(given, t, size, overlap)
    BY <1>4, <2>1, <2>3, SlicesAreWell
  <2>. QED  BY <2>4 DEF given
<1>10. CASE ~same
  <2>1. given = Append(SlicesOf(t, at, to, n), SubSeq(t, at[n + 1], to[n + 1]))
    BY <1>2, <1>4, <1>6, <1>8, <1>10
  <2>2. SlicesOf(t, at, to, n) \in Seq(Seq(Piece)) /\ SubSeq(t, at[n + 1], to[n + 1]) \in Seq(Piece)
    BY <1>3, <1>4, <1>6
  <2>3. given = SlicesOf(t, at, to, m)
    <3>. DEFINE Y == Seq(Piece)
    <3>1. SlicesOf(t, at, to, n) \in Seq(Y) /\ SubSeq(t, at[n + 1], to[n + 1]) \in Y
      BY <2>2
    <3>. HIDE DEF Y, n
    <3>2. Append(SlicesOf(t, at, to, n), SubSeq(t, at[n + 1], to[n + 1])) = SlicesOf(t, at, to, n + 1)
      BY <1>3, <3>1, SlicesAppend
    <3>. QED  BY <2>1, <3>2
  <2>. HIDE DEF m, n
  <2>4. PackedWell(given, t, size, overlap)
    BY <1>3, <1>4, <2>3, SlicesAreWell
  <2>. QED  BY <2>4 DEF given
<1>. QED  BY <1>9, <1>10

-----------------------------------------------------------------------------
(* The structure of a document: sections, pages, images. *)

(* A sequence of sequences of S behind another: one more sequence adds its
   elements behind the others.                                             *)
LEMMA FlattenMore ==
    ASSUME NEW S
    PROVE  /\ FlattenSeq(<<>>) = <<>>
           /\ \A seqs \in Seq(Seq(S)) : FlattenSeq(seqs) \in Seq(S)
           /\ \A seqs \in Seq(Seq(S)), s \in Seq(S) : FlattenSeq(Append(seqs, s)) = FlattenSeq(seqs) \o s
<1>. DEFINE Steps(f, seqs) == \A i \in 1 .. Len(seqs) : f[i] = IF i = 1 THEN seqs[i] ELSE f[i - 1] \o seqs[i]
<1>1. FlattenSeq(<<>>) = <<>>
    BY DEF FlattenSeq
<1>2. ASSUME NEW seqs \in Seq(Seq(S)), Len(seqs) > 0
      PROVE  \E f \in [1 .. Len(seqs) -> Seq(S)] : Steps(f, seqs) /\ FlattenSeq(seqs) = f[Len(seqs)]
  <2>. DEFINE n == Len(seqs)
              flatten == CHOOSE f : f = [i \in 1 .. n |-> IF i = 1 THEN seqs[i] ELSE f[i - 1] \o seqs[i]]
              Upto(f, k) == /\ f \in [1 .. k -> Seq(S)]
                            /\ \A i \in 1 .. k : f[i] = IF i = 1 THEN seqs[i] ELSE f[i - 1] \o seqs[i]
              T == {k \in 0 .. n : \E f : Upto(f, k)}
  <2>1. n \in Nat /\ n > 0 /\ \A i \in 1 .. n : seqs[i] \in Seq(S)
    BY <1>2
  <2>2. FlattenSeq(seqs) = flatten[n]
    BY <2>1 DEF FlattenSeq
  <2>. HIDE DEF n
  <2>3. 0 \in T
    <3>1. Upto([i \in 1 .. 0 |-> <<>>], 0) /\ 0 \in 0 .. n
      BY <2>1
    <3>. QED  BY <3>1
  <2>4. ASSUME NEW k \in 0 .. n - 1, k \in T PROVE k + 1 \in T
    <3>1. PICK f : Upto(f, k)
      BY <2>4
    <3>. DEFINE x == IF k + 1 = 1 THEN seqs[k + 1] ELSE f[k] \o seqs[k + 1]
                g == [i \in 1 .. k + 1 |-> IF i = k + 1 THEN x ELSE f[i]]
    <3>2. k \in Nat /\ k + 1 \in 1 .. n /\ k + 1 \in 0 .. n /\ (k + 1 # 1 => k \in 1 .. k)
      BY <2>1
    <3>3. x \in Seq(S)
      <4>1. seqs[k + 1] \in Seq(S)
        BY <2>1, <3>2
      <4>2. k + 1 # 1 => f[k] \in Seq(S)
        BY <3>1, <3>2
      <4>. QED  BY <4>1, <4>2
    <3>. HIDE DEF x
    <3>4. g \in [1 .. k + 1 -> Seq(S)]
      BY <3>1, <3>2, <3>3
    <3>5. ASSUME NEW i \in 1 .. k + 1
          PROVE  g[i] = IF i = 1 THEN seqs[i] ELSE g[i - 1] \o seqs[i]
      <4>1. CASE i = k + 1
        <5>1. g[i] = x /\ (i # 1 => g[i - 1] = f[k])
          BY <3>2, <4>1
        <5>. QED  BY <4>1, <5>1 DEF x
      <4>2. CASE i # k + 1
        <5>1. g[i] = f[i] /\ i \in 1 .. k /\ (i # 1 => g[i - 1] = f[i - 1])
          BY <3>2, <4>2
        <5>. QED  BY <3>1, <5>1
      <4>. QED  BY <4>1, <4>2
    <3>. HIDE DEF g
    <3>6. Upto(g, k + 1)
      BY <3>4, <3>5
    <3>. QED  BY <3>2, <3>6
  <2>5. n \in T
    <3>. HIDE DEF T
    <3>1. \A k \in 0 .. n - 1 : k \in T => k + 1 \in T
      BY <2>4
    <3>2. \A k \in 0 .. n : k \in T
      BY <2>1, <2>3, <3>1, UpTo
    <3>. QED  BY <2>1, <3>2
  <2>6. PICK f : Upto(f, n)
    BY <2>5
  <2>7. f = [i \in 1 .. n |-> IF i = 1 THEN seqs[i] ELSE f[i - 1] \o seqs[i]]
    BY <2>6
  <2>8. flatten = [i \in 1 .. n |-> IF i = 1 THEN seqs[i] ELSE flatten[i - 1] \o seqs[i]]
    BY <2>7
  <2>. HIDE DEF flatten
  <2>. DEFINE R == {k \in 0 .. n : k > 0 => flatten[k] = f[k]}
  <2>9. \A k \in 0 .. n - 1 : k \in R => k + 1 \in R
    <3>. SUFFICES ASSUME NEW k \in 0 .. n - 1, k \in R PROVE flatten[k + 1] = f[k + 1]
      BY <2>1
    <3>. DEFINE c == k + 1
    <3>1. c \in 1 .. n /\ (c # 1 => c - 1 = k /\ k > 0)
      BY <2>1
    <3>. HIDE DEF c
    <3>2. /\ flatten[c] = IF c = 1 THEN seqs[c] ELSE flatten[c - 1] \o seqs[c]
          /\ f[c] = IF c = 1 THEN seqs[c] ELSE f[c - 1] \o seqs[c]
      BY <2>6, <2>8, <3>1
    <3>3. flatten[c] = f[c]
      BY <3>1, <3>2
    <3>. QED  BY <3>3 DEF c
  <2>10. n \in R
    <3>1. 0 \in R
      BY <2>1
    <3>. HIDE DEF R
    <3>2. \A k \in 0 .. n : k \in R
      BY <2>1, <2>9, <3>1, UpTo
    <3>. QED  BY <2>1, <3>2
  <2>11. FlattenSeq(seqs) = f[n]
    BY <2>1, <2>2, <2>10
  <2>. QED  BY <2>6, <2>11 DEF n
<1>3. ASSUME NEW seqs \in Seq(Seq(S)) PROVE FlattenSeq(seqs) \in Seq(S)
  <2>1. CASE Len(seqs) > 0
    BY <1>2, <2>1
  <2>2. CASE Len(seqs) = 0
    <3>1. seqs = <<>> /\ <<>> \in Seq(S)
      BY <2>2
    <3>. QED  BY <1>1, <3>1
  <2>. QED  BY <2>1, <2>2
<1>4. ASSUME NEW seqs \in Seq(Seq(S)), NEW s \in Seq(S)
      PROVE  FlattenSeq(Append(seqs, s)) = FlattenSeq(seqs) \o s
  <2>. DEFINE n == Len(seqs)
              more == Append(seqs, s)
  <2>1. n \in Nat /\ more \in Seq(Seq(S)) /\ Len(more) = n + 1 /\ more[n + 1] = s
        /\ \A i \in 1 .. n : more[i] = seqs[i]
    BY AppendProperties
  <2>. HIDE DEF more
  <2>2. PICK g \in [1 .. Len(more) -> Seq(S)] : Steps(g, more) /\ FlattenSeq(more) = g[n + 1]
    <3>1. Len(more) > 0
      BY <2>1
    <3>2. PICK g \in [1 .. Len(more) -> Seq(S)] : Steps(g, more) /\ FlattenSeq(more) = g[Len(more)]
      BY <1>2, <2>1, <3>1
    <3>. QED  BY <2>1, <3>2
  <2>3. CASE n = 0
    <3>1. FlattenSeq(more) = s
      BY <2>1, <2>2, <2>3
    <3>2. seqs = <<>> /\ <<>> \o s = s
      BY <2>3
    <3>. QED  BY <1>1, <3>1, <3>2 DEF more
  <2>4. CASE n > 0
    <3>1. PICK f \in [1 .. n -> Seq(S)] : Steps(f, seqs) /\ FlattenSeq(seqs) = f[n]
      BY <1>2, <2>4
    <3>. DEFINE R == {k \in 0 .. n : k > 0 => f[k] = g[k]}
    <3>2. 0 \in R
      BY <2>1
    <3>. HIDE DEF n
    <3>3. \A k \in 0 .. n - 1 : k \in R => k + 1 \in R
      <4>0. n \in Nat
        BY <2>1
      <4>. SUFFICES ASSUME NEW k \in 0 .. n - 1, k \in R PROVE f[k + 1] = g[k + 1]
        BY <4>0
      <4>. DEFINE c == k + 1
      <4>1. c \in 1 .. n /\ c \in 1 .. n + 1 /\ (c # 1 => c - 1 = k /\ k > 0)
        BY <2>1
      <4>. HIDE DEF c
      <4>2. /\ g[c] = IF c = 1 THEN seqs[c] ELSE g[c - 1] \o seqs[c]
            /\ f[c] = IF c = 1 THEN seqs[c] ELSE f[c - 1] \o seqs[c]
        BY <2>1, <2>2, <3>1, <4>1 DEF n
      <4>3. f[c] = g[c]
        BY <4>1, <4>2
      <4>. QED  BY <4>3 DEF c
    <3>4. n \in R
      <4>. HIDE DEF R
      <4>1. \A k \in 0 .. n : k \in R
        BY <2>1, <3>2, <3>3, UpTo
      <4>. QED  BY <2>1, <4>1
    <3>5. g[n + 1] = g[n] \o s
      <4>. DEFINE c == n + 1
      <4>1. c \in 1 .. n + 1 /\ c # 1 /\ c - 1 = n
        BY <2>1, <2>4
      <4>2. c \in 1 .. Len(more)
        BY <2>1, <4>1
      <4>. HIDE DEF c
      <4>3. g[c] = g[c - 1] \o more[c]
        BY <2>2, <4>1, <4>2
      <4>. QED  BY <2>1, <4>1, <4>3 DEF c
    <3>. QED  BY <2>2, <2>4, <3>1, <3>4, <3>5 DEF n, more
  <2>. QED  BY <2>1, <2>3, <2>4
<1>. QED  BY <1>1, <1>3, <1>4

(* A line that is a fence changes what is fenced behind it. *)
LEMMA FencedNext ==
    ASSUME NEW lines, NEW k \in Nat
    PROVE  /\ ~Fenced(lines, 1)
           /\ Fenced(lines, k + 2) <=> (Fenced(lines, k + 1) <=> lines[k + 1].kind # "fence")
<1>. DEFINE S(i) == {j \in 1 .. i - 1 : lines[j].kind = "fence"}
<1>1. ~Fenced(lines, 1)
  <2>1. S(1) = {} /\ Cardinality({}) = 0
    BY FS_EmptySet
  <2>2. Cardinality(S(1)) % 2 # 1
    BY <2>1
  <2>. QED  BY <2>2 DEF Fenced
<1>2. IsFiniteSet(S(k + 1)) /\ Cardinality(S(k + 1)) \in Nat
  <2>1. IsFiniteSet(1 .. (k + 1) - 1) /\ S(k + 1) \subseteq 1 .. (k + 1) - 1
    BY FS_Interval
  <2>2. IsFiniteSet(S(k + 1))
    BY <2>1, FS_Subset
  <2>. QED  BY <2>2, FS_CardinalityType
<1>3. CASE lines[k + 1].kind # "fence"
  <2>1. S(k + 2) = S(k + 1)
    BY <1>3
  <2>. QED  BY <1>1, <1>3, <2>1 DEF Fenced
<1>4. CASE lines[k + 1].kind = "fence"
  <2>1. S(k + 2) = S(k + 1) \cup {k + 1} /\ k + 1 \notin S(k + 1)
    BY <1>4
  <2>2. Cardinality(S(k + 2)) = Cardinality(S(k + 1)) + 1
    <3>. DEFINE a == S(k + 1)
    <3>. HIDE DEF a
    <3>1. IsFiniteSet(a) /\ k + 1 \notin a
      BY <1>2, <2>1 DEF a
    <3>2. Cardinality(a \cup {k + 1}) = Cardinality(a) + 1
      BY <3>1, FS_AddElement
    <3>. QED  BY <2>1, <3>2 DEF a
  <2>. DEFINE c == Cardinality(S(k + 1))
              e == Cardinality(S(k + 2))
  <2>3. (Fenced(lines, k + 1) <=> c % 2 = 1) /\ (Fenced(lines, k + 2) <=> e % 2 = 1)
    BY DEF Fenced
  <2>4. c \in Nat /\ e = c + 1
    BY <1>2, <2>2
  <2>. HIDE DEF c, e, S
  <2>5. c % 2 = 1 <=> ~(e % 2 = 1)
    BY <2>4
  <2>. QED  BY <1>1, <1>4, <2>3, <2>5
<1>. QED  BY <1>1, <1>3, <1>4

(* The headings around the next line. *)
LEMMA AroundNext ==
    ASSUME NEW lines, LineList(lines), NEW k \in 0 .. Len(lines) - 1
    PROVE  /\ Around(lines, 1) = {}
           /\ k + 1 \notin Headings(lines) => Around(lines, k + 2) = Around(lines, k + 1)
           /\ k + 1 \in Headings(lines) =>
                 Around(lines, k + 2) = {j \in Around(lines, k + 1) : lines[j].level < lines[k + 1].level}
                                          \cup {k + 1}
<1>. DEFINE H == Headings(lines)
<1>1. H \subseteq 1 .. Len(lines) /\ Len(lines) \in Nat /\ k \in Nat
      /\ \A j \in H : lines[j].level \in Nat
    BY DEF LineList, Headings
<1>2. \A i : Around(lines, i) = {j \in H : j < i /\ \A m \in H : m \in j + 1 .. i - 1 => lines[m].level > lines[j].level}
    BY DEF Around
<1>. HIDE DEF H
<1>3. Around(lines, 1) = {}
  <2>1. \A j \in H : ~(j < 1)
    BY <1>1
  <2>. QED  BY <1>2, <2>1
<1>4. ASSUME k + 1 \notin H PROVE Around(lines, k + 2) = Around(lines, k + 1)
  <2>1. ASSUME NEW j \in H
        PROVE  /\ j < k + 2 <=> j < k + 1
               /\ \A m \in H : m \in j + 1 .. (k + 2) - 1 <=> m \in j + 1 .. (k + 1) - 1
    BY <1>1, <1>4
  <2>. QED  BY <1>2, <2>1
<1>5. ASSUME k + 1 \in H
      PROVE  Around(lines, k + 2) = {j \in Around(lines, k + 1) : lines[j].level < lines[k + 1].level} \cup {k + 1}
  <2>. DEFINE L == Around(lines, k + 2)
              R == {j \in Around(lines, k + 1) : lines[j].level < lines[k + 1].level} \cup {k + 1}
  <2>1. ASSUME NEW j \in L PROVE j \in R
    <3>1. j \in H /\ j < k + 2 /\ \A m \in H : m \in j + 1 .. (k + 2) - 1 => lines[m].level > lines[j].level
      BY <1>2
    <3>2. CASE j = k + 1
      BY <3>2
    <3>3. CASE j # k + 1
      <4>1. j < k + 1 /\ k + 1 \in j + 1 .. (k + 2) - 1
            /\ \A m : m \in j + 1 .. (k + 1) - 1 => m \in j + 1 .. (k + 2) - 1
        BY <1>1, <3>1, <3>3
      <4>2. lines[k + 1].level > lines[j].level /\ j \in Around(lines, k + 1)
        BY <1>2, <1>5, <3>1, <4>1
      <4>3. lines[j].level < lines[k + 1].level
        BY <1>1, <1>5, <3>1, <4>2
      <4>. QED  BY <4>2, <4>3
    <3>. QED  BY <3>2, <3>3
  <2>2. ASSUME NEW j \in R PROVE j \in L
    <3>1. CASE j = k + 1
      <4>1. j \in H /\ j < k + 2 /\ \A m : ~(m \in j + 1 .. (k + 2) - 1)
        BY <1>1, <1>5, <3>1
      <4>. QED  BY <1>2, <4>1
    <3>2. CASE j # k + 1
      <4>1. /\ j \in H /\ j < k + 1 /\ lines[j].level < lines[k + 1].level
            /\ \A m \in H : m \in j + 1 .. (k + 1) - 1 => lines[m].level > lines[j].level
        BY <1>2, <3>2
      <4>2. j < k + 2 /\ \A m : m \in j + 1 .. (k + 2) - 1 => m = k + 1 \/ m \in j + 1 .. (k + 1) - 1
        BY <1>1, <4>1
      <4>3. lines[k + 1].level > lines[j].level
        BY <1>1, <1>5, <4>1
      <4>. QED  BY <1>2, <4>1, <4>2, <4>3
    <3>. QED  BY <3>1, <3>2
  <2>. HIDE DEF L, R
  <2>3. L = R
    BY <2>1, <2>2
  <2>. QED  BY <2>3 DEF L, R
<1>. QED  BY <1>3, <1>4, <1>5 DEF H

(* One more behind a list in rising order. *)
LEMMA ListsMore ==
    ASSUME NEW list \in Seq(Nat), NEW S, Lists(list, S), NEW x \in Nat, \A y \in S : y < x
    PROVE  Lists(Append(list, x), S \cup {x})
<1>. DEFINE more == Append(list, x)
            n == Len(list)
<1>1. n \in Nat /\ more \in Seq(Nat) /\ Len(more) = n + 1 /\ more[n + 1] = x
      /\ \A i \in 1 .. n : more[i] = list[i]
    BY AppendProperties
<1>2. DOMAIN list = 1 .. n /\ DOMAIN more = 1 .. n + 1
    BY <1>1
<1>. HIDE DEF more, n
<1>3. S = {list[i] : i \in 1 .. n}
    BY <1>2 DEF Lists, ToSet
<1>4. ToSet(more) = S \cup {x}
  <2>1. \A i \in 1 .. n + 1 : i = n + 1 \/ i \in 1 .. n
    BY <1>1
  <2>2. n + 1 \in 1 .. n + 1 /\ \A i \in 1 .. n : i \in 1 .. n + 1
    BY <1>1
  <2>. QED  BY <1>1, <1>2, <1>3, <2>1, <2>2 DEF ToSet
<1>5. ASSUME NEW i \in 1 .. n + 1, NEW j \in 1 .. n + 1, i < j PROVE more[i] < more[j]
  <2>1. i \in 1 .. n /\ (j = n + 1 \/ j \in 1 .. n)
    BY <1>1, <1>5
  <2>2. \A a, b \in 1 .. n : a < b => list[a] < list[b]
    BY <1>2 DEF Lists
  <2>3. list[i] < x
    BY <1>3, <2>1
  <2>. QED  BY <1>1, <1>5, <2>1, <2>2, <2>3
<1>6. Lists(more, S \cup {x})
    BY <1>2, <1>4, <1>5 DEF Lists
<1>. QED  BY <1>6 DEF more

-----------------------------------------------------------------------------
(* The sections. *)

(* A finished section takes over what was buffered. *)
LEMMA FlushOf ==
    ASSUME NEW s \in ReadState
    PROVE  /\ Flush(s) \in ReadState
           /\ Flush(s).stack = s.stack /\ Flush(s).fenced = s.fenced /\ Flush(s).buffer = <<>>
           /\ s.buffer # <<>> => Flush(s).sections = Append(s.sections, [path |-> s.stack, content |-> s.buffer])
           /\ s.buffer = <<>> => Flush(s).sections = s.sections
<1>. DEFINE x == [path |-> s.stack, content |-> s.buffer]
            ss == Append(s.sections, x)
<1>1. /\ s.sections \in Seq(Section) /\ s.stack \in Seq(Nat) /\ s.buffer \in Seq(Nat) /\ s.fenced \in BOOLEAN
      /\ s = [sections |-> s.sections, stack |-> s.stack, buffer |-> s.buffer, fenced |-> s.fenced]
    BY DEF ReadState
<1>2. x \in Section
    BY <1>1 DEF Section
<1>3. ss \in Seq(Section) /\ <<>> \in Seq(Nat)
    BY <1>1, <1>2
<1>4. CASE s.buffer = <<>>
    BY <1>4 DEF Flush
<1>5. CASE s.buffer # <<>>
  <2>1. Flush(s) = [s EXCEPT !.sections = ss, !.buffer = <<>>]
    BY <1>5 DEF Flush
  <2>. HIDE DEF ss
  <2>2. Flush(s) = [sections |-> ss, stack |-> s.stack, buffer |-> <<>>, fenced |-> s.fenced]
    BY <1>1, <2>1
  <2>3. Flush(s) \in ReadState
    BY <1>1, <1>3, <2>2 DEF ReadState
  <2>. QED  BY <1>5, <2>2, <2>3 DEF ss
<1>. QED  BY <1>4, <1>5

(* The contents of the sections are lists of lines. *)
LEMMA ContentsOf ==
    ASSUME NEW ss \in Seq(Section)
    PROVE  /\ Contents(ss) \in Seq(Seq(Nat)) /\ FlattenSeq(Contents(ss)) \in Seq(Nat)
           /\ \A x \in Section : Contents(Append(ss, x)) = Append(Contents(ss), x.content)
<1>. DEFINE n == Len(ss)
            cc == Contents(ss)
<1>1. n \in Nat /\ DOMAIN ss = 1 .. n /\ \A k \in 1 .. n : ss[k] \in Section
    BY ElementOfSeq
<1>2. \A k \in 1 .. n : ss[k].content \in Seq(Nat)
    BY <1>1 DEF Section
<1>3. cc = [k \in 1 .. n |-> ss[k].content]
    BY <1>1 DEF Contents
<1>. DEFINE c(k) == ss[k].content
<1>4. cc = [k \in 1 .. n |-> c(k)] /\ \A k \in 1 .. n : c(k) \in Seq(Nat)
    BY <1>2, <1>3
<1>. HIDE DEF n, cc, c
<1>5. cc \in Seq(Seq(Nat)) /\ Len(cc) = n
    BY <1>1, <1>4
<1>6. ASSUME NEW x \in Section PROVE Contents(Append(ss, x)) = Append(cc, x.content)
  <2>. DEFINE more == Append(ss, x)
              l == Contents(more)
              r == Append(cc, x.content)
  <2>1. more \in Seq(Section) /\ Len(more) = n + 1 /\ more[n + 1] = x /\ \A k \in 1 .. n : more[k] = ss[k]
    BY AppendProperties DEF n
  <2>2. DOMAIN more = 1 .. n + 1
    BY <2>1
  <2>. HIDE DEF more
  <2>3. l = [k \in 1 .. n + 1 |-> more[k].content]
    BY <2>2 DEF Contents
  <2>4. x.content \in Seq(Nat)
    BY DEF Section
  <2>5. r \in Seq(Seq(Nat)) /\ Len(r) = n + 1 /\ r[n + 1] = x.content /\ \A k \in 1 .. n : r[k] = cc[k]
    BY <1>5, <2>4, AppendProperties
  <2>6. r = [k \in 1 .. n + 1 |-> r[k]]
    BY <2>5
  <2>. HIDE DEF r
  <2>7. ASSUME NEW k \in 1 .. n + 1 PROVE r[k] = more[k].content
    <3>1. k = n + 1 \/ k \in 1 .. n
      BY <1>1
    <3>2. k \in 1 .. n => cc[k] = ss[k].content
      BY <1>4 DEF c
    <3>. QED  BY <2>1, <2>5, <3>1, <3>2
  <2>8. l = r
    BY <2>3, <2>6, <2>7
  <2>. QED  BY <2>8 DEF more, r
<1>. QED  BY <1>5, <1>6, FlattenMore DEF cc

(* It keeps what was read. *)
LEMMA FlushKeepsBody ==
    ASSUME NEW s \in ReadState
    PROVE  Body(s) \in Seq(Nat) /\ Body(Flush(s)) = Body(s)
<1>. DEFINE x == [path |-> s.stack, content |-> s.buffer]
            ss == s.sections
            b == s.buffer
            f == FlattenSeq(Contents(ss))
<1>1. ss \in Seq(Section) /\ b \in Seq(Nat) /\ x \in Section /\ x.content = b
    BY DEF ReadState, Section
<1>2. f \in Seq(Nat) /\ Contents(ss) \in Seq(Seq(Nat)) /\ Contents(Append(ss, x)) = Append(Contents(ss), b)
    BY <1>1, ContentsOf
<1>3. FlattenSeq(Contents(Append(ss, x))) = f \o b
  <2>. HIDE DEF ss, b, x
  <2>. QED  BY <1>1, <1>2, FlattenMore
<1>4. Body(s) = f \o b
    BY DEF Body
<1>. HIDE DEF f
<1>5. f \o b \in Seq(Nat) /\ (f \o b) \o <<>> = f \o b
    BY <1>1, <1>2
<1>6. CASE b = <<>>
  <2>1. Flush(s).sections = ss /\ Flush(s).buffer = b
    BY <1>6, FlushOf
  <2>2. Body(Flush(s)) = f \o b
    BY <2>1 DEF Body, f
  <2>. QED  BY <1>4, <1>5, <2>2
<1>7. CASE b # <<>>
  <2>1. Flush(s).sections = Append(ss, x) /\ Flush(s).buffer = <<>>
    BY <1>7, FlushOf
  <2>2. Body(Flush(s)) = (f \o b) \o <<>>
    BY <1>3, <2>1 DEF Body
  <2>. QED  BY <1>4, <1>5, <2>2
<1>. QED  BY <1>6, <1>7

(* Where no heading skips a level, a heading takes the place of its level. *)
LEMMA HeadingNests ==
    ASSUME NEW lines, LineList(lines), Regular(lines), NEW k \in 0 .. Len(lines) - 1,
           k + 1 \in Headings(lines), NEW stack \in Seq(Nat), Nested(stack, lines, k)
    PROVE  /\ Append(Above(stack, lines[k + 1].level), k + 1) \in Seq(Nat)
           /\ Nested(Append(Above(stack, lines[k + 1].level), k + 1), lines, k + 1)
<1>. DEFINE i == k + 1
            lv == lines[i].level
            m == Len(stack)
            p == Min({m, lv - 1})
            inner == {j \in Around(lines, i) : lines[j].level < lv}
            up == Above(stack, lv)
            new == Append(up, i)
<1>1. i \in Nat /\ lv \in Nat \ {0} /\ m \in Nat /\ DOMAIN stack = 1 .. m
    BY DEF LineList, Headings
<1>. HIDE DEF i, lv, m
<1>2. p = (IF m <= lv - 1 THEN m ELSE lv - 1)
  <2>1. lv - 1 \in Int /\ m \in Int
    BY <1>1
  <2>. QED  BY <2>1, MinOfTwo
<1>3. p \in Nat /\ p <= m /\ p <= lv - 1 /\ (p = m \/ p = lv - 1)
    BY <1>1, <1>2
<1>20. \A d \in 1 .. m : d < lv <=> d \in 1 .. p
  <2>. HIDE DEF p
  <2>. QED  BY <1>1, <1>3
<1>4. Around(lines, i) = {stack[d] : d \in 1 .. m} /\ \A d \in 1 .. m : lines[stack[d]].level = d
    BY <1>1 DEF Nested, ToSet, i, m
<1>5. up = SubSeq(stack, 1, p)
    BY DEF Above, m
<1>. HIDE DEF p, up
<1>6. up \in Seq(Nat) /\ Len(up) = p /\ \A d \in 1 .. p : up[d] = stack[d]
  <2>1. 1 \in Nat \ {0} /\ 1 <= p + 1 /\ p <= Len(stack) /\ p - 1 + 1 = p
    BY <1>3 DEF m
  <2>2. /\ SubSeq(stack, 1, p) \in Seq(Nat) /\ Len(SubSeq(stack, 1, p)) = p - 1 + 1
        /\ \A d \in 1 .. p - 1 + 1 : SubSeq(stack, 1, p)[d] = stack[1 + d - 1]
    BY <1>3, <2>1, SliceOf
  <2>3. \A d \in 1 .. p : 1 + d - 1 = d
    BY <1>3
  <2>. QED  BY <1>5, <2>1, <2>2, <2>3
<1>7. inner = {stack[d] : d \in 1 .. p}
  <2>1. \A d \in 1 .. p : d \in 1 .. m
    BY <1>1, <1>3
  <2>. QED  BY <1>20, <1>4, <2>1
<1>8. Cardinality(inner) = p
  <2>. DEFINE f == [d \in 1 .. p |-> stack[d]]
              U == {stack[d] : d \in 1 .. p}
  <2>1. \A d, e \in 1 .. p : stack[d] = stack[e] => d = e
    <3>1. \A d \in 1 .. p : d \in 1 .. m
      BY <1>1, <1>3
    <3>. QED  BY <1>4, <3>1
  <2>2. f \in Bijection(1 .. p, U)
    <3>1. f \in [1 .. p -> U] /\ (\A d, e \in 1 .. p : f[d] = f[e] => d = e)
          /\ (\A u \in U : \E d \in 1 .. p : f[d] = u)
      BY <2>1
    <3>. HIDE DEF f, U
    <3>. QED  BY <3>1 DEF Bijection, Injection, Surjection, IsInjective
  <2>3. ExistsBijection(1 .. p, U)
    BY <2>2 DEF ExistsBijection
  <2>4. IsFiniteSet(1 .. p) /\ Cardinality(1 .. p) = p
    BY <1>3, FS_Interval
  <2>. HIDE DEF f, U
  <2>5. Cardinality(U) = Cardinality(1 .. p)
    BY <2>3, <2>4, FS_Bijection
  <2>. QED  BY <1>7, <2>4, <2>5 DEF U
<1>9. p = lv - 1
  <2>1. Cardinality(inner) = lv - 1
    BY DEF Regular, i, lv
  <2>. QED  BY <1>8, <2>1
<1>10. Around(lines, i + 1) = {stack[d] : d \in 1 .. p} \cup {i}
  <2>1. Around(lines, k + 2) = inner \cup {k + 1}
    BY AroundNext DEF i, lv
  <2>2. k + 2 = i + 1
    BY DEF i
  <2>. QED  BY <1>7, <2>1, <2>2 DEF i
<1>11. new \in Seq(Nat) /\ Len(new) = p + 1 /\ new[p + 1] = i /\ \A d \in 1 .. p : new[d] = stack[d]
    BY <1>1, <1>6, AppendProperties
<1>. HIDE DEF new, inner
<1>12. \A d \in 1 .. p + 1 : d = p + 1 \/ d \in 1 .. p
    BY <1>3
<1>13. p + 1 \in 1 .. p + 1 /\ \A d \in 1 .. p : d \in 1 .. p + 1 /\ d \in 1 .. m
    BY <1>1, <1>3
<1>14. ToSet(new) = Around(lines, i + 1)
  <2>1. DOMAIN new = 1 .. p + 1
    BY <1>11
  <2>2. ToSet(new) = {new[d] : d \in 1 .. p + 1}
    BY <2>1 DEF ToSet
  <2>. QED  BY <1>10, <1>11, <1>12, <1>13, <2>2
<1>15. \A d \in 1 .. Len(new) : lines[new[d]].level = d
  <2>1. lines[i].level = p + 1
    BY <1>1, <1>9 DEF lv
  <2>2. \A d \in 1 .. p : lines[new[d]].level = d
    BY <1>4, <1>11, <1>13
  <2>. QED  BY <1>11, <1>12, <2>1, <2>2
<1>16. new \in Seq(Nat) /\ Nested(new, lines, i)
    BY <1>11, <1>14, <1>15 DEF Nested
<1>. QED  BY <1>16 DEF new, up, i, lv

(* Closing a section keeps the paths right. *)
LEMMA FlushKeepsPaths ==
    ASSUME NEW s \in ReadState, NEW lines, PathsRight(s, lines)
    PROVE  PathsRight(Flush(s), lines)
<1>. DEFINE x == [path |-> s.stack, content |-> s.buffer]
            ss == s.sections
            more == Append(ss, x)
<1>1. ss \in Seq(Section) /\ x \in Section /\ ToSet(<<>>) = {}
    BY DEF ReadState, Section, ToSet
<1>2. CASE s.buffer = <<>>
    BY <1>2, FlushOf DEF PathsRight
<1>3. CASE s.buffer # <<>>
  <2>. DEFINE n == Len(ss)
  <2>1. n \in Nat /\ more \in Seq(Section) /\ Len(more) = n + 1 /\ more[n + 1] = x /\ \A j \in 1 .. n : more[j] = ss[j]
    BY <1>1, AppendProperties
  <2>2. DOMAIN more = 1 .. n + 1 /\ DOMAIN ss = 1 .. n
    BY <1>1, <2>1
  <2>3. Flush(s).sections = more /\ Flush(s).buffer = <<>>
    BY <1>3, FlushOf
  <2>. HIDE DEF more, n
  <2>4. ASSUME NEW j \in 1 .. n + 1, NEW i \in ToSet(more[j].content)
        PROVE  ToSet(more[j].path) = Around(lines, i)
    <3>1. CASE j = n + 1
      BY <2>1, <2>4, <3>1 DEF PathsRight
    <3>2. CASE j # n + 1
      <4>1. j \in 1 .. n
        BY <2>1, <3>2
      <4>. QED  BY <2>1, <2>2, <2>4, <4>1 DEF PathsRight
    <3>. QED  BY <3>1, <3>2
  <2>. QED  BY <1>1, <2>2, <2>3, <2>4 DEF PathsRight
<1>. QED  BY <1>2, <1>3

(* One more line, a heading. *)
LEMMA ReadHeading ==
    ASSUME NEW lines, LineList(lines), NEW k \in 0 .. Len(lines) - 1, NEW s \in ReadState,
           ReadAt(s, lines, k), k + 1 \in Headings(lines)
    PROVE  /\ ReadLine(s, lines, k + 1) \in ReadState
           /\ ReadAt(ReadLine(s, lines, k + 1), lines, k + 1)
<1>. DEFINE i == k + 1
            lv == lines[i].level
            stack == Append(Above(s.stack, lv), i)
            f == Flush(s)
            new == ReadLine(s, lines, i)
<1>1. lines[i].kind = "heading" /\ ~Fenced(lines, i) /\ i \in Nat /\ lv \in Nat \ {0} /\ (k + 1) + 1 = k + 2 /\ k \in Nat
    BY DEF Headings, LineList
<1>2. new = [f EXCEPT !.stack = Append(Above(@, lv), i)]
    BY <1>1 DEF ReadLine, ReadAt
<1>3. /\ f \in ReadState /\ f.stack = s.stack /\ f.fenced = s.fenced /\ f.buffer = <<>>
      /\ s.stack \in Seq(Nat)
    BY FlushOf DEF ReadState
<1>4. stack \in Seq(Nat)
  <2>. DEFINE m == Len(s.stack)
              p == Min({m, lv - 1})
  <2>1. m \in Nat /\ m \in Int /\ lv - 1 \in Int /\ lv - 1 >= 0
    BY <1>1, <1>3
  <2>. HIDE DEF m
  <2>2. p \in Nat /\ p <= m
    BY <2>1, MinOfTwo
  <2>3. Above(s.stack, lv) = SubSeq(s.stack, 1, p)
    BY DEF Above, m
  <2>. HIDE DEF p
  <2>4. 1 \in Nat \ {0} /\ 1 <= p + 1 /\ p <= Len(s.stack)
    BY <2>2 DEF m
  <2>5. SubSeq(s.stack, 1, p) \in Seq(Nat)
    BY <1>3, <2>2, <2>4, SliceOf
  <2>. QED  BY <1>1, <2>3, <2>5
<1>5. new = [f EXCEPT !.stack = stack]
    BY <1>2, <1>3
<1>. HIDE DEF f, stack, new
<1>6. new = [sections |-> f.sections, stack |-> stack, buffer |-> f.buffer, fenced |-> f.fenced]
    BY <1>3, <1>5 DEF ReadState
<1>7. new \in ReadState
    BY <1>3, <1>4, <1>6 DEF ReadState
<1>8. Body(new) = Body(s)
  <2>1. Body(new) = Body(f)
    BY <1>6 DEF Body
  <2>. QED  BY <2>1, FlushKeepsBody DEF f
<1>9. Lists(Body(new), (1 .. i) \ Headings(lines))
  <2>1. (1 .. i) \ Headings(lines) = (1 .. k) \ Headings(lines)
    BY <1>1
  <2>. QED  BY <1>8, <2>1 DEF ReadAt
<1>10. new.fenced <=> Fenced(lines, i + 1)
  <2>1. lines[k + 1].kind # "fence"
    BY <1>1
  <2>2. Fenced(lines, k + 2) <=> Fenced(lines, k + 1)
    BY <1>1, <2>1, FencedNext
  <2>3. new.fenced = s.fenced /\ (s.fenced <=> Fenced(lines, k + 1)) /\ s.fenced \in BOOLEAN
    BY <1>3, <1>6 DEF ReadAt, ReadState
  <2>. QED  BY <1>1, <2>2, <2>3
<1>11. ASSUME Regular(lines) PROVE Nested(new.stack, lines, i) /\ PathsRight(new, lines)
  <2>1. Nested(stack, lines, i)
    BY <1>3, <1>11, HeadingNests DEF ReadAt, stack
  <2>2. PathsRight(f, lines)
    BY <1>11, FlushKeepsPaths DEF ReadAt, f
  <2>3. new.stack = stack /\ new.sections = f.sections /\ new.buffer = <<>> /\ ToSet(<<>>) = {}
    BY <1>3, <1>6 DEF ToSet
  <2>4. PathsRight(new, lines)
    BY <2>2, <2>3 DEF PathsRight
  <2>. QED  BY <2>1, <2>3, <2>4
<1>12. ReadAt(new, lines, i)
    BY <1>9, <1>10, <1>11 DEF ReadAt
<1>. QED  BY <1>7, <1>12 DEF new

(* One more line that is not a heading, or a fenced one. *)
LEMMA ReadOther ==
    ASSUME NEW lines, LineList(lines), NEW k \in 0 .. Len(lines) - 1, NEW s \in ReadState,
           ReadAt(s, lines, k), k + 1 \notin Headings(lines)
    PROVE  /\ ReadLine(s, lines, k + 1) \in ReadState
           /\ ReadAt(ReadLine(s, lines, k + 1), lines, k + 1)
<1>. DEFINE i == k + 1
            more == Append(s.buffer, i)
            flip == IF lines[i].kind = "fence" THEN ~s.fenced ELSE s.fenced
            new == ReadLine(s, lines, i)
<1>1. ~(lines[i].kind = "heading" /\ ~s.fenced) /\ i \in Nat /\ k \in Nat
  <2>1. i \in DOMAIN lines /\ k \in Nat /\ i \in Nat
    BY DEF LineList
  <2>. QED  BY <2>1 DEF Headings, ReadAt
<1>2. /\ s.sections \in Seq(Section) /\ s.stack \in Seq(Nat) /\ s.buffer \in Seq(Nat) /\ s.fenced \in BOOLEAN
      /\ s = [sections |-> s.sections, stack |-> s.stack, buffer |-> s.buffer, fenced |-> s.fenced]
    BY DEF ReadState
<1>3. more \in Seq(Nat) /\ flip \in BOOLEAN
  <2>1. more \in Seq(Nat)
    BY <1>1, <1>2
  <2>2. flip \in BOOLEAN
    BY <1>2
  <2>. QED  BY <2>1, <2>2
<1>4. new = [s EXCEPT !.buffer = more, !.fenced = flip]
    BY <1>1 DEF ReadLine
<1>. HIDE DEF more, flip, new
<1>5. new = [sections |-> s.sections, stack |-> s.stack, buffer |-> more, fenced |-> flip]
    BY <1>2, <1>4
<1>6. new \in ReadState
    BY <1>2, <1>3, <1>5 DEF ReadState
<1>7. Body(new) = Append(Body(s), i) /\ Body(s) \in Seq(Nat)
  <2>. DEFINE f == FlattenSeq(Contents(s.sections))
              b == s.buffer
  <2>1. f \in Seq(Nat) /\ b \in Seq(Nat)
    BY <1>2, ContentsOf
  <2>2. Body(new) = f \o Append(b, i) /\ Body(s) = f \o b
    BY <1>5 DEF Body, more
  <2>. HIDE DEF f, b
  <2>3. f \o Append(b, i) = Append(f \o b, i) /\ f \o b \in Seq(Nat)
    BY <1>1, <2>1
  <2>. QED  BY <2>2, <2>3
<1>8. Lists(Body(new), (1 .. i) \ Headings(lines))
  <2>. DEFINE S == (1 .. k) \ Headings(lines)
              b == Body(s)
  <2>1. (1 .. i) \ Headings(lines) = S \cup {i} /\ \A y \in S : y < i
    BY <1>1
  <2>2. Lists(b, S) /\ b \in Seq(Nat)
    BY <1>7 DEF ReadAt
  <2>. HIDE DEF S, b, i
  <2>3. Lists(Append(b, i), S \cup {i})
    BY <1>1, <2>1, <2>2, ListsMore
  <2>. QED  BY <1>7, <2>1, <2>3 DEF b
<1>9. new.fenced <=> Fenced(lines, i + 1)
  <2>1. Fenced(lines, k + 2) <=> (Fenced(lines, k + 1) <=> lines[i].kind # "fence")
    BY <1>1, FencedNext
  <2>2. new.fenced = flip /\ (s.fenced <=> Fenced(lines, k + 1)) /\ i + 1 = k + 2
    BY <1>1, <1>5 DEF ReadAt
  <2>3. flip <=> (s.fenced <=> lines[i].kind # "fence")
    BY <1>2 DEF flip
  <2>. HIDE DEF i
  <2>. QED  BY <2>1, <2>2, <2>3
<1>10. ASSUME Regular(lines) PROVE Nested(new.stack, lines, i) /\ PathsRight(new, lines)
  <2>1. Nested(s.stack, lines, k) /\ PathsRight(s, lines)
    BY <1>10 DEF ReadAt
  <2>2. Around(lines, i + 1) = Around(lines, k + 1)
    <3>1. i + 1 = k + 2 /\ Around(lines, k + 2) = Around(lines, k + 1)
      BY <1>1, AroundNext
    <3>. QED  BY <3>1
  <2>3. new.stack = s.stack /\ new.sections = s.sections /\ new.buffer = more
    BY <1>5
  <2>4. Nested(new.stack, lines, i)
    BY <2>1, <2>2, <2>3 DEF Nested
  <2>5. ASSUME NEW j \in ToSet(more) PROVE j = i \/ j \in ToSet(s.buffer)
    <3>. DEFINE n == Len(s.buffer)
                b == s.buffer
    <3>1. b \in Seq(Nat) /\ n \in Nat /\ DOMAIN b = 1 .. n
      BY <1>2
    <3>2. Len(more) = n + 1 /\ more[n + 1] = i /\ more \in Seq(Nat) /\ \A d \in 1 .. n : more[d] = b[d]
      BY <1>1, <1>2, AppendProperties DEF more
    <3>3. DOMAIN more = 1 .. n + 1
      BY <3>2
    <3>4. PICK d \in 1 .. n + 1 : j = more[d]
      BY <3>3 DEF ToSet
    <3>5. d = n + 1 \/ d \in 1 .. n
      BY <3>1
    <3>. QED  BY <3>1, <3>2, <3>4, <3>5 DEF ToSet
  <2>6. ToSet(s.stack) = Around(lines, i)
    BY <2>1 DEF Nested
  <2>7. PathsRight(new, lines)
    BY <2>1, <2>3, <2>5, <2>6 DEF PathsRight
  <2>. QED  BY <2>4, <2>7
<1>11. ReadAt(new, lines, i)
    BY <1>8, <1>9, <1>10 DEF ReadAt
<1>. QED  BY <1>6, <1>11 DEF new

(* A line that is read leaves a state of the loop. *)
LEMMA ReadLineType ==
    ASSUME NEW lines, LineList(lines), NEW i \in 1 .. Len(lines), NEW s \in ReadState
    PROVE  ReadLine(s, lines, i) \in ReadState
<1>1. /\ s.sections \in Seq(Section) /\ s.stack \in Seq(Nat) /\ s.buffer \in Seq(Nat) /\ s.fenced \in BOOLEAN
      /\ i \in Nat
    BY DEF ReadState
<1>2. CASE lines[i].kind = "heading" /\ ~s.fenced
  <2>. DEFINE f == Flush(s)
              lv == lines[i].level
              m == Len(f.stack)
              p == Min({m, lv - 1})
              up == Above(f.stack, lv)
              stack == Append(up, i)
  <2>1. f \in ReadState /\ f.stack \in Seq(Nat)
    BY FlushOf DEF ReadState
  <2>2. lv \in Nat \ {0} /\ lv - 1 \in Nat
    BY <1>2 DEF LineList
  <2>. HIDE DEF f, lv
  <2>3. m \in Nat /\ lv - 1 \in Int /\ m \in Int
    BY <2>1, <2>2
  <2>. HIDE DEF m
  <2>4. p \in Nat /\ p <= m
    BY <2>2, <2>3, MinOfTwo
  <2>5. up = SubSeq(f.stack, 1, p)
    BY DEF Above, m
  <2>. HIDE DEF p, up
  <2>6. 1 \in Nat \ {0} /\ 1 <= p + 1 /\ p <= Len(f.stack)
    BY <2>4 DEF m
  <2>7. up \in Seq(Nat)
    BY <2>1, <2>4, <2>5, <2>6, SliceOf
  <2>8. stack \in Seq(Nat)
    BY <1>1, <2>7
  <2>9. ReadLine(s, lines, i) = [f EXCEPT !.stack = stack]
    BY <1>2 DEF ReadLine, f, lv, up
  <2>. HIDE DEF stack
  <2>. QED  BY <2>1, <2>8, <2>9 DEF ReadState
<1>3. CASE ~(lines[i].kind = "heading" /\ ~s.fenced)
  <2>. DEFINE more == Append(s.buffer, i)
              flip == IF lines[i].kind = "fence" THEN ~s.fenced ELSE s.fenced
  <2>1. more \in Seq(Nat) /\ flip \in BOOLEAN
    <3>1. more \in Seq(Nat)
      BY <1>1
    <3>2. flip \in BOOLEAN
      BY <1>1
    <3>. QED  BY <3>1, <3>2
  <2>2. ReadLine(s, lines, i) = [s EXCEPT !.buffer = more, !.fenced = flip]
    BY <1>3 DEF ReadLine
  <2>. HIDE DEF more, flip
  <2>. QED  BY <2>1, <2>2 DEF ReadState
<1>. QED  BY <1>2, <1>3

(* The lines are read by a run over them. *)
LEMMA ReadRuns ==
    ASSUME NEW lines, LineList(lines)
    PROVE  \E f : /\ Run(f, Len(lines), ReadState, NothingRead, ReadStep(lines))
                  /\ ReadOver(lines) = f[Len(lines)]
<1>. DEFINE n == Len(lines)
            V == ReadState
            step == ReadStep(lines)
            all == [i \in 1 .. n |-> i]
            iter == CHOOSE it : it = [s \in SUBSET (1 .. n) |->
                       IF s = {} THEN NothingRead ELSE ReadLine(it[s \ {Max(s)}], lines, all[Max(s)])]
<1>1. n \in Nat /\ DOMAIN all = 1 .. n
    BY DEF LineList
<1>2. NothingRead \in V /\ step \in [1 .. n -> [V -> V]]
  <2>1. NothingRead \in V
    BY DEF NothingRead, ReadState
  <2>2. \A i \in 1 .. n : \A v \in V : ReadLine(v, lines, i) \in V
    BY ReadLineType
  <2>. HIDE DEF V
  <2>. QED  BY <2>1, <2>2 DEF ReadStep, V
<1>3. ReadOver(lines) = iter[1 .. n]
    BY <1>1 DEF ReadOver, NothingRead, FoldLeft, MapThenFoldSet
<1>4. \A i \in 1 .. n : all[i] = i
    OBVIOUS
<1>. HIDE DEF n, V, all
<1>5. iter = [s \in SUBSET (1 .. n) |->
                       IF s = {} THEN NothingRead ELSE ReadLine(iter[s \ {Max(s)}], lines, all[Max(s)])]
  <2>1. PICK it : Folded(it, n, V, NothingRead, step)
    <3>1. n \in Nat
      BY <1>1
    <3>. HIDE DEF step
    <3>. QED  BY <3>1, <1>2, FoldExists
  <2>2. ASSUME NEW s \in SUBSET (1 .. n), s # {}
        PROVE  it[s] = ReadLine(it[s \ {Max(s)}], lines, all[Max(s)])
    <3>1. Max(s) \in 1 .. n /\ s \ {Max(s)} \in SUBSET (1 .. n)
      BY <1>1, <2>2, MaxOf
    <3>2. it[s \ {Max(s)}] \in V
      BY <2>1, <3>1 DEF Folded
    <3>3. it[s] = step[Max(s)][it[s \ {Max(s)}]]
      BY <2>1, <2>2 DEF Folded
    <3>. QED  BY <1>4, <2>1, <3>1, <3>2, <3>3 DEF ReadStep, n, V
  <2>3. it = [s \in SUBSET (1 .. n) |-> it[s]] /\ it[{}] = NothingRead
    BY <2>1 DEF Folded
  <2>4. it = [s \in SUBSET (1 .. n) |->
                       IF s = {} THEN NothingRead ELSE ReadLine(it[s \ {Max(s)}], lines, all[Max(s)])]
    BY <2>2, <2>3
  <2>. QED  BY <2>4
<1>. HIDE DEF iter
<1>6. FoldSteps(iter, n, V, NothingRead, step)
  <2>1. ASSUME NEW s \in SUBSET (1 .. n), s # {}, iter[s \ {Max(s)}] \in V
        PROVE  iter[s] = step[Max(s)][iter[s \ {Max(s)}]]
    <3>1. Max(s) \in 1 .. n
      BY <1>1, <2>1, MaxOf
    <3>2. iter[s] = ReadLine(iter[s \ {Max(s)}], lines, all[Max(s)])
      BY <1>5, <2>1
    <3>. QED  BY <1>4, <2>1, <3>1, <3>2 DEF ReadStep, n, V
  <2>2. iter[{}] = NothingRead
    BY <1>5
  <2>. HIDE DEF step
  <2>. QED  BY <2>1, <2>2 DEF FoldSteps
<1>7. EndsAt(n, V, NothingRead, step, iter[1 .. n])
  <2>1. n \in Nat
    BY <1>1
  <2>2. NothingRead \in V
    BY <1>2
  <2>. HIDE DEF step
  <2>3. step \in [1 .. n -> [V -> V]]
    BY <1>2
  <2>4. FoldSteps(iter, n, V, NothingRead, step)
    BY <1>6
  <2>. QED  BY <2>1, <2>2, <2>3, <2>4, FoldRuns
<1>. HIDE DEF step
<1>8. PICK f : Run(f, n, V, NothingRead, step) /\ f[n] = iter[1 .. n]
    BY <1>7 DEF EndsAt
<1>9. ReadOver(lines) = f[n]
    BY <1>3, <1>8
<1>. QED  BY <1>8, <1>9 DEF n, V, step

(* In the end all lines are read. *)
LEMMA ReadEnds ==
    ASSUME NEW lines, LineList(lines)
    PROVE  ReadOver(lines) \in ReadState /\ ReadAt(ReadOver(lines), lines, Len(lines))
<1>. DEFINE n == Len(lines)
            step == ReadStep(lines)
<1>1. n \in Nat
    BY DEF LineList
<1>2. PICK f : Run(f, n, ReadState, NothingRead, step) /\ ReadOver(lines) = f[n]
    BY ReadRuns
<1>. DEFINE T == {k \in 0 .. n : ReadAt(f[k], lines, k)}
<1>3. 0 \in T
  <2>1. f[0] = NothingRead
    BY <1>2 DEF Run
  <2>2. FlattenSeq(Contents(<<>>)) = <<>>
    <3>1. Contents(<<>>) = <<>>
      BY DEF Contents
    <3>. QED  BY <3>1, FlattenMore
  <2>3. Body(NothingRead) = <<>>
    BY <2>2 DEF Body, NothingRead
  <2>4. Lists(<<>>, (1 .. 0) \ Headings(lines))
    BY DEF Lists, ToSet
  <2>5. ~NothingRead.fenced /\ NothingRead.stack = <<>> /\ NothingRead.sections = <<>> /\ NothingRead.buffer = <<>>
    BY DEF NothingRead
  <2>6. ~Fenced(lines, 0 + 1)
    BY FencedNext
  <2>7. PathsRight(NothingRead, lines)
    BY <2>5 DEF PathsRight, ToSet
  <2>8. Nested(<<>>, lines, 0)
    <3>1. Around(lines, 0 + 1) = {}
      <4>1. Headings(lines) \subseteq 1 .. n
        BY DEF Headings, LineList
      <4>2. \A j \in Headings(lines) : ~(j < 0 + 1)
        BY <4>1
      <4>. QED  BY <4>2 DEF Around
    <3>. QED  BY <3>1 DEF Nested, ToSet
  <2>9. ReadAt(NothingRead, lines, 0)
    BY <2>3, <2>4, <2>5, <2>6, <2>7, <2>8 DEF ReadAt
  <2>. QED  BY <1>1, <2>1, <2>9
<1>4. ASSUME NEW k \in 0 .. n - 1, k \in T PROVE k + 1 \in T
  <2>1. k + 1 \in 1 .. n /\ k + 1 \in 0 .. n /\ (k + 1) - 1 = k /\ k \in 0 .. n
    BY <1>1
  <2>2. f[k] \in ReadState /\ ReadAt(f[k], lines, k)
    BY <1>2, <1>4, <2>1 DEF Run
  <2>3. f[k + 1] = step[k + 1][f[k]]
    <3>. DEFINE c == k + 1
    <3>. HIDE DEF c, step
    <3>1. f[c] = step[c][f[c - 1]]
      BY <1>2, <2>1 DEF Run, c
    <3>. QED  BY <2>1, <3>1 DEF c
  <2>4. f[k + 1] = ReadLine(f[k], lines, k + 1)
    BY <2>1, <2>2, <2>3 DEF ReadStep
  <2>5. ReadAt(ReadLine(f[k], lines, k + 1), lines, k + 1)
    BY <2>2, ReadHeading, ReadOther
  <2>. QED  BY <2>1, <2>4, <2>5
<1>5. n \in T
  <2>. HIDE DEF T, n
  <2>1. \A k \in 0 .. n - 1 : k \in T => k + 1 \in T
    BY <1>4
  <2>2. \A k \in 0 .. n : k \in T
    BY <1>1, <1>3, <2>1, UpTo
  <2>. QED  BY <1>1, <2>2
<1>6. f[n] \in ReadState
    BY <1>1, <1>2 DEF Run
<1>. QED  BY <1>2, <1>5, <1>6

(* Only a text of nothing but headings is taken as it is. *)
LEMMA SectionsOf ==
    ASSUME NEW lines, LineList(lines)
    PROVE  /\ Sections(lines) \in Seq(Section)
           /\ \/ SectionsWell(Sections(lines), lines)
              \/ /\ Headings(lines) = DOMAIN lines
                 /\ Sections(lines) = <<[path |-> <<>>, content |-> [i \in 1 .. Len(lines) |-> i]]>>
<1>. DEFINE s == ReadOver(lines)
            end == Flush(s)
            all == [i \in 1 .. Len(lines) |-> i]
            whole == <<[path |-> <<>>, content |-> all]>>
<1>1. s \in ReadState /\ ReadAt(s, lines, Len(lines))
    BY ReadEnds
<1>2. Sections(lines) = IF end.sections = <<>> /\ lines # <<>> THEN whole ELSE end.sections
    BY DEF Sections, ReadOver
<1>. HIDE DEF s
<1>3. end \in ReadState /\ end.buffer = <<>> /\ Body(end) = Body(s)
    BY <1>1, FlushOf, FlushKeepsBody
<1>4. Body(end) = FlattenSeq(Contents(end.sections))
  <2>. DEFINE f == FlattenSeq(Contents(end.sections))
  <2>1. f \in Seq(Nat)
    BY <1>3, ContentsOf DEF ReadState
  <2>2. Body(end) = f \o <<>>
    BY <1>3 DEF Body
  <2>. HIDE DEF f
  <2>3. f \o <<>> = f
    BY <2>1
  <2>. QED  BY <2>2, <2>3 DEF f
<1>5. DOMAIN lines = 1 .. Len(lines) /\ Len(lines) \in Nat
    BY DEF LineList
<1>6. Lists(FlattenSeq(Contents(end.sections)), DOMAIN lines \ Headings(lines))
    BY <1>1, <1>3, <1>4, <1>5 DEF ReadAt
<1>7. Regular(lines) => PathsRight(end, lines)
    BY <1>1, FlushKeepsPaths DEF ReadAt
<1>8. CASE end.sections = <<>> /\ lines # <<>>
  <2>1. FlattenSeq(Contents(<<>>)) = <<>>
    <3>1. Contents(<<>>) = <<>>
      BY DEF Contents
    <3>. QED  BY <3>1, FlattenMore
  <2>2. ToSet(<<>>) = DOMAIN lines \ Headings(lines)
    BY <1>6, <1>8, <2>1 DEF Lists
  <2>3. Headings(lines) = DOMAIN lines
    BY <2>2 DEF ToSet, Headings
  <2>4. Sections(lines) = whole
    BY <1>2, <1>8
  <2>5. whole \in Seq(Section)
    <3>1. all \in Seq(Nat)
      BY <1>5
    <3>. HIDE DEF all
    <3>2. [path |-> <<>>, content |-> all] \in Section
      BY <3>1 DEF Section
    <3>. QED  BY <3>2
  <2>. QED  BY <2>3, <2>4, <2>5
<1>9. CASE ~(end.sections = <<>> /\ lines # <<>>)
  <2>1. Sections(lines) = end.sections
    BY <1>2, <1>9
  <2>2. end.sections \in Seq(Section)
    BY <1>3 DEF ReadState
  <2>3. SectionsWell(end.sections, lines)
    BY <1>6, <1>7 DEF SectionsWell, PathsRight
  <2>. QED  BY <2>1, <2>2, <2>3
<1>. QED  BY <1>8, <1>9

-----------------------------------------------------------------------------
(* Readings of images. *)

(* Each image gets a reading of its digest, and equal digests the same. *)
LEMMA ReadingIsSound ==
    ASSUME NEW digests \in Seq(STRING), NEW read, DOMAIN read = DOMAIN digests,
           NEW i \in DOMAIN digests, NEW j \in DOMAIN digests
    PROVE  LET given == ExtractImages(digests, read) IN
           /\ \E k \in DOMAIN read : digests[k] = digests[i] /\ given[i] = read[k]
           /\ digests[i] = digests[j] => given[i] = given[j]
<1>. DEFINE n == Len(digests)
            same(m) == {k \in 1 .. n : digests[k] = digests[m]}
            given == ExtractImages(digests, read)
<1>1. n \in Nat /\ DOMAIN digests = 1 .. n
    OBVIOUS
<1>2. given = [m \in 1 .. n |-> read[Min(same(m))]]
    BY DEF ExtractImages
<1>. HIDE DEF given
<1>3. same(i) \in SUBSET Nat /\ same(i) # {}
    BY <1>1
<1>4. Min(same(i)) \in same(i)
  <2>. HIDE DEF same
  <2>. QED  BY <1>3, MinOf
<1>5. given[i] = read[Min(same(i))] /\ given[j] = read[Min(same(j))]
    BY <1>1, <1>2
<1>6. digests[i] = digests[j] => same(i) = same(j)
    OBVIOUS
<1>7. Min(same(i)) \in DOMAIN read /\ digests[Min(same(i))] = digests[i]
  <2>. DEFINE x == Min(same(i))
  <2>. HIDE DEF x
  <2>1. x \in 1 .. n /\ digests[x] = digests[i]
    BY <1>4 DEF x
  <2>. QED  BY <1>1, <2>1 DEF x
<1>. HIDE DEF same
<1>8. /\ \E k \in DOMAIN read : digests[k] = digests[i] /\ given[i] = read[k]
      /\ digests[i] = digests[j] => given[i] = given[j]
    BY <1>5, <1>6, <1>7
<1>. QED  BY <1>8 DEF given

-----------------------------------------------------------------------------
(* The images of a PDF. *)

(* What is picked from a sequence: its elements at those positions. *)
LEMMA PickedOf ==
    ASSUME NEW X, NEW s \in Seq(X), NEW S \in SUBSET (1 .. Len(s))
    PROVE  /\ Picked(s, S) \in Seq(X) /\ ToSet(Picked(s, S)) = {s[i] : i \in S}
           /\ (\A i, j \in S : s[i] = s[j] => i = j) => IsInjective(Picked(s, S))
<1>. DEFINE n == Cardinality(S)
            R == {e \in S \X S : e[1] < e[2]}
            q == InOrder(S)
            p == Picked(s, S)
<1>1. IsFiniteSet(S) /\ n \in Nat
  <2>1. Len(s) \in Nat
    OBVIOUS
  <2>2. IsFiniteSet(1 .. Len(s))
    BY <2>1, FS_Interval
  <2>3. IsFiniteSet(S)
    BY <2>2, FS_Subset
  <2>. QED  BY <2>3, FS_CardinalityType
<1>2. Order(S, R)
  <2>1. S \subseteq Int
    OBVIOUS
  <2>. HIDE DEF R
  <2>2. R \in SUBSET (S \X S) /\ \A x, y \in S : <<x, y>> \in R <=> x < y
    BY DEF R
  <2>3. /\ \A x \in S : ~(<<x, x>> \in R)
        /\ \A x, y, z \in S : <<x, y>> \in R /\ <<y, z>> \in R => <<x, z>> \in R
        /\ \A x, y \in S : x # y => <<x, y>> \in R \/ <<y, x>> \in R
    BY <2>1, <2>2
  <2>. QED  BY <2>2, <2>3 DEF Order
<1>3. \A x, y \in S : <<x, y>> \in R <=> x < y
    OBVIOUS
<1>. HIDE DEF R, n
<1>4. \E f \in [1 .. n -> S] : \A i, j \in 1 .. n : i < j => f[i] < f[j]
  <2>1. PICK f : Arranges(f, S, R)
    BY <1>1, <1>2, Arrangeable
  <2>2. f \in [1 .. n -> S] /\ \A i, j \in 1 .. n : i < j => <<f[i], f[j]>> \in R
    BY <2>1 DEF Arranges, n
  <2>3. \A i \in 1 .. n : f[i] \in S
    BY <2>2
  <2>4. \A i, j \in 1 .. n : i < j => f[i] < f[j]
    BY <1>3, <2>2, <2>3
  <2>. QED  BY <2>2, <2>4
<1>5. q \in [1 .. n -> S] /\ \A i, j \in 1 .. n : i < j => q[i] < q[j]
  <2>1. q = CHOOSE f \in [1 .. n -> S] : \A i, j \in 1 .. n : i < j => f[i] < f[j]
    BY DEF InOrder, n
  <2>. HIDE DEF q
  <2>. QED  BY <1>4, <2>1
<1>6. p = [k \in 1 .. n |-> s[q[k]]]
    BY DEF Picked, n
<1>. HIDE DEF q, p
<1>7. Arranges(q, S, R)
  <2>1. \A i \in 1 .. n : q[i] \in S
    BY <1>5
  <2>. QED  BY <1>3, <1>5, <2>1 DEF Arranges, n
<1>8. IsInjective(q) /\ ToSet(q) = S /\ DOMAIN q = 1 .. n
    BY <1>1, <1>2, <1>7, ArrangedIsAll DEF n
<1>9. \A k \in 1 .. n : q[k] \in S /\ s[q[k]] \in X
  <2>1. \A x \in S : s[x] \in X
    BY ElementOfSeq
  <2>2. \A k \in 1 .. n : q[k] \in S
    BY <1>5
  <2>. QED  BY <2>1, <2>2
<1>10. p \in Seq(X) /\ DOMAIN p = 1 .. n /\ \A k \in 1 .. n : p[k] = s[q[k]]
  <2>. DEFINE c(k) == s[q[k]]
  <2>1. p = [k \in 1 .. n |-> c(k)] /\ \A k \in 1 .. n : c(k) \in X
    BY <1>6, <1>9
  <2>. HIDE DEF c
  <2>2. p \in Seq(X) /\ DOMAIN p = 1 .. n /\ \A k \in 1 .. n : p[k] = c(k)
    BY <1>1, <2>1
  <2>. QED  BY <2>2 DEF c
<1>11. ToSet(p) = {s[i] : i \in S}
  <2>1. S = {q[k] : k \in 1 .. n}
    BY <1>8 DEF ToSet
  <2>2. ToSet(p) = {s[q[k]] : k \in 1 .. n}
    BY <1>10 DEF ToSet
  <2>. QED  BY <1>9, <2>1, <2>2
<1>12. ASSUME \A i, j \in S : s[i] = s[j] => i = j PROVE IsInjective(p)
  <2>. SUFFICES ASSUME NEW a \in 1 .. n, NEW b \in 1 .. n, p[a] = p[b] PROVE a = b
    BY <1>10 DEF IsInjective
  <2>0. q[a] \in S /\ q[b] \in S /\ s[q[a]] = s[q[b]]
    BY <1>9, <1>10
  <2>1. q[a] = q[b]
    BY <1>12, <2>0
  <2>. QED  BY <1>8, <2>1 DEF IsInjective
<1>. QED  BY <1>10, <1>11, <1>12 DEF p

(* The page an image is on first. *)
LEMMA HomeOf ==
    ASSUME NEW pages, Len(pages) \in Nat, DOMAIN pages = 1 .. Len(pages), NEW d
    PROVE  /\ HomePage(pages, d) \in 1 .. Len(pages) + 1
           /\ HomePage(pages, d) <= Len(pages) => d \in ToSet(pages[HomePage(pages, d)].images)
           /\ \A r \in 1 .. Len(pages) : d \in ToSet(pages[r].images) => HomePage(pages, d) <= r
<1>. DEFINE n == Len(pages)
            on == {r \in DOMAIN pages : d \in ToSet(pages[r].images)}
            h == HomePage(pages, d)
<1>1. h = Min({n + 1} \cup on)
    BY DEF HomePage
<1>2. on \subseteq 1 .. n /\ n \in Nat
    OBVIOUS
<1>3. \A r \in 1 .. n : r \in on <=> d \in ToSet(pages[r].images)
    OBVIOUS
<1>. HIDE DEF on, h, n
<1>4. {n + 1} \cup on \in SUBSET Nat /\ {n + 1} \cup on # {}
    BY <1>2
<1>5. h \in {n + 1} \cup on /\ \A y \in {n + 1} \cup on : h <= y
    BY <1>1, <1>4, MinOf
<1>6. h \in 1 .. n + 1 /\ (h <= n => h \in on) /\ \A r \in on : h <= r
    BY <1>2, <1>5
<1>. QED  BY <1>2, <1>3, <1>6 DEF h, n

(* After deduplication an image is on the page it is on first, once. *)
LEMMA DedupOf ==
    ASSUME NEW pages \in Seq(PageType), NEW r \in 1 .. Len(pages)
    PROVE  LET kept == DedupPages(pages)[r] IN
           /\ kept \in Seq(STRING) /\ IsInjective(kept)
           /\ \A d : d \in ToSet(kept) <=> d \in ToSet(pages[r].images) /\ HomePage(pages, d) = r
<1>. DEFINE n == Len(pages)
            s == pages[r].images
            m == Len(s)
            before == UNION {ToSet(pages[q].images) : q \in 1 .. r - 1}
            fresh == {i \in DOMAIN s : s[i] \notin {s[j] : j \in 1 .. i - 1} \cup before}
            kept == DedupPages(pages)[r]
<1>1. n \in Nat /\ DOMAIN pages = 1 .. n /\ r \in 1 .. n
    OBVIOUS
<1>2. s \in Seq(STRING) /\ m \in Nat /\ DOMAIN s = 1 .. m
  <2>1. pages[r] \in PageType
    OBVIOUS
  <2>2. s \in Seq(STRING)
    BY <2>1 DEF PageType
  <2>. HIDE DEF s
  <2>. QED  BY <2>2
<1>3. kept = Picked(s, fresh)
  <2>. DEFINE seen(x, i) == {pages[x].images[j] : j \in 1 .. i - 1}
                              \cup UNION {ToSet(pages[q].images) : q \in 1 .. x - 1}
              new(x) == {i \in DOMAIN pages[x].images : pages[x].images[i] \notin seen(x, i)}
  <2>1. DedupPages(pages) = [x \in 1 .. n |-> Picked(pages[x].images, new(x))]
    BY DEF DedupPages
  <2>2. new(r) = fresh
    OBVIOUS
  <2>. HIDE DEF new, fresh, n
  <2>. QED  BY <1>1, <2>1, <2>2
<1>4. \A i \in 1 .. m : i \in fresh <=> s[i] \notin before /\ \A j \in 1 .. i - 1 : s[j] # s[i]
    BY <1>2
<1>5. fresh \in SUBSET (1 .. m)
    BY <1>2
<1>6. \A d : d \in before <=> \E q \in 1 .. r - 1 : d \in ToSet(pages[q].images)
    OBVIOUS
<1>. HIDE DEF s, m, fresh, kept, before
<1>7. /\ kept \in Seq(STRING) /\ ToSet(kept) = {s[i] : i \in fresh}
      /\ (\A i, j \in fresh : s[i] = s[j] => i = j) => IsInjective(kept)
    BY <1>2, <1>3, <1>5, PickedOf DEF m
<1>8. ASSUME NEW i \in fresh, NEW j \in fresh, s[i] = s[j] PROVE i = j
  <2>1. i \in 1 .. m /\ j \in 1 .. m
    BY <1>5
  <2>2. ~(i \in 1 .. j - 1) /\ ~(j \in 1 .. i - 1)
    BY <1>4, <1>8, <2>1
  <2>. QED  BY <1>2, <2>1, <2>2
<1>9. ASSUME NEW d PROVE d \in ToSet(kept) <=> d \in ToSet(s) /\ d \notin before
  <2>1. ToSet(s) = {s[i] : i \in 1 .. m}
    BY <1>2 DEF ToSet
  <2>2. d \in ToSet(kept) => d \in ToSet(s) /\ d \notin before
    BY <1>4, <1>5, <1>7, <2>1
  <2>3. ASSUME d \in ToSet(s), d \notin before PROVE d \in ToSet(kept)
    <3>. DEFINE U == {i \in 1 .. m : s[i] = d}
    <3>1. U \in SUBSET Nat /\ U # {}
      BY <2>1, <2>3
    <3>2. \A i \in U : i \in 1 .. m /\ s[i] = d
      OBVIOUS
    <3>3. \A i \in 1 .. m : s[i] = d => i \in U
      OBVIOUS
    <3>. HIDE DEF U
    <3>4. PICK a \in U : \A y \in U : a <= y
      BY <3>1, MinOf
    <3>5. a \in 1 .. m /\ s[a] = d
      BY <3>2
    <3>6. \A j \in 1 .. a - 1 : s[j] # s[a]
      <4>. SUFFICES ASSUME NEW j \in 1 .. a - 1, s[j] = d PROVE FALSE
        BY <3>5
      <4>1. j \in 1 .. m /\ j < a /\ a \in Int /\ j \in Int
        BY <1>2, <3>5
      <4>2. j \in U
        BY <3>3, <4>1
      <4>. QED  BY <3>4, <4>1, <4>2
    <3>7. a \in fresh
      BY <1>4, <2>3, <3>5, <3>6
    <3>. QED  BY <1>7, <3>5, <3>7
  <2>. QED  BY <2>2, <2>3
<1>10. ASSUME NEW d, d \in ToSet(s) PROVE d \notin before <=> HomePage(pages, d) = r
  <2>. DEFINE h == HomePage(pages, d)
  <2>1. /\ h \in 1 .. n + 1 /\ (h <= n => d \in ToSet(pages[h].images))
        /\ \A q \in 1 .. n : d \in ToSet(pages[q].images) => h <= q
    BY <1>1, HomeOf
  <2>. HIDE DEF h
  <2>2. h <= r
    BY <1>1, <1>10, <2>1 DEF s
  <2>3. ASSUME d \in before PROVE h # r
    <3>1. PICK q \in 1 .. r - 1 : d \in ToSet(pages[q].images)
      BY <1>6, <2>3
    <3>2. q \in 1 .. n /\ q < r /\ q \in Int
      BY <1>1
    <3>3. h <= q
      BY <2>1, <3>1, <3>2
    <3>. QED  BY <1>1, <2>1, <3>2, <3>3
  <2>4. ASSUME h # r PROVE d \in before
    <3>1. h <= n /\ h \in 1 .. r - 1
      BY <1>1, <2>1, <2>2, <2>4
    <3>. QED  BY <1>6, <2>1, <3>1
  <2>. QED  BY <2>3, <2>4 DEF h
<1>. QED  BY <1>7, <1>8, <1>9, <1>10 DEF kept, s

(* One more line, whatever it is. *)
LEMMA PdfMore ==
    ASSUME NEW lines, NEW r, NEW T, NEW P, NEW pages, PdfAt(lines, r, T, P, pages), NEW x \in PdfLine,
           NEW Q, P \subseteq Q
    PROVE  Grown(Append(lines, x), lines, Len(lines), x, Q, pages)
<1>. DEFINE more == Append(lines, x)
            n == Len(lines)
<1>1. lines \in Seq(PdfLine) /\ n \in Nat \ {0}
    BY DEF PdfAt
<1>2. more \in Seq(PdfLine) /\ Len(more) = n + 1 /\ more[n + 1] = x /\ \A i \in 1 .. n : more[i] = lines[i]
    BY <1>1, AppendProperties
<1>. HIDE DEF more, n
<1>3. ASSUME NEW i \in 2 .. n + 1, NEW p \in 2 .. i - 1
      PROVE  Under(more, i, p) <=> Under(lines, i, p)
  <2>1. \A m \in p .. i - 1 : m \in 1 .. n
    BY <1>1
  <2>2. p \in p .. i - 1 /\ \A m \in p + 1 .. i - 1 : m \in p .. i - 1
    OBVIOUS
  <2>3. more[p] = lines[p] /\ \A m \in p + 1 .. i - 1 : more[m] = lines[m]
    BY <1>2, <2>1, <2>2
  <2>. QED  BY <2>3 DEF Under
<1>4. ASSUME NEW i \in 2 .. n
      PROVE  Placed(more, i, Q, pages)
  <2>1. i \in 2 .. n + 1 /\ more[i] = lines[i] /\ \A p \in 2 .. i - 1 : more[p] = lines[p]
    BY <1>1, <1>2
  <2>2. Placed(lines, i, P, pages)
    BY <1>1 DEF PdfAt, n
  <2>. QED  BY <1>3, <2>1, <2>2 DEF Placed
<1>5. TextLines(more) = TextLines(lines) \cup (IF x.kind = "text" THEN {n + 1} ELSE {})
  <2>1. \A i \in 1 .. n + 1 : i = n + 1 \/ i \in 1 .. n
    BY <1>1
  <2>2. n + 1 \in 1 .. n + 1 /\ \A i \in 1 .. n : i \in 1 .. n + 1
    BY <1>1
  <2>3. TextLines(more) = {i \in 1 .. n + 1 : more[i].kind = "text"}
        /\ TextLines(lines) = {i \in 1 .. n : lines[i].kind = "text"}
    BY <1>2 DEF TextLines, n
  <2>. QED  BY <1>2, <2>1, <2>2, <2>3
<1>6. more[1] = lines[1]
    BY <1>1, <1>2
<1>7. more[1].kind = "heading" /\ more[1].level = 1 /\ more[1].page = 0 /\ more[1].of[1] = "name"
    BY <1>6 DEF PdfAt
<1>8. TextLines(lines) \subseteq 1 .. n
    BY DEF TextLines, n
<1>9. Grown(more, lines, n, x, Q, pages)
    BY <1>1, <1>2, <1>3, <1>4, <1>5, <1>7, <1>8 DEF Grown
<1>. QED  BY <1>9 DEF more, n

(* A page begins. *)
LEMMA PageBegins ==
    ASSUME NEW lines, NEW r, NEW T, NEW P, NEW pages, PdfAt(lines, r, T, P, pages), NEW q \in Nat \ {0}
    PROVE  PdfAt(Append(lines, Line("heading", 2, q, <<"page", q>>)), q, T, P, pages)
<1>. DEFINE x == Line("heading", 2, q, <<"page", q>>)
            more == Append(lines, x)
            n == Len(lines)
<1>1. /\ x \in PdfLine /\ x.kind = "heading" /\ x.level = 2 /\ x.page = q /\ x.of[1] = "page"
    BY DEF Line, PdfLine, OfType
<1>. HIDE DEF x
<1>2. Grown(more, lines, n, x, P, pages)
    BY <1>1, PdfMore
<1>. HIDE DEF more, n
<1>3. TextLines(more) = TextLines(lines) /\ TextLines(lines) \subseteq 1 .. n
    BY <1>1, <1>2 DEF Grown
<1>4. \A i \in 2 .. n + 1 : Placed(more, i, P, pages)
  <2>1. \A i \in 2 .. n + 1 : i = n + 1 \/ i \in 2 .. n
    BY <1>2 DEF Grown
  <2>2. Placed(more, n + 1, P, pages)
    BY <1>1, <1>2 DEF Placed, Grown
  <2>. QED  BY <1>2, <2>1, <2>2 DEF Grown
<1>5. Under(more, n + 2, n + 1) /\ more[n + 1].page = q /\ n + 1 \in 2 .. n + 1 /\ (n + 1) + 1 = n + 2
  <2>1. n + 1 \in 2 .. (n + 2) - 1 /\ \A m : ~(m \in (n + 1) + 1 .. (n + 2) - 1)
    BY <1>2 DEF Grown
  <2>. QED  BY <1>1, <1>2, <2>1 DEF Under, Grown
<1>6. /\ T = {more[i].of : i \in TextLines(more)}
      /\ \A i, j \in TextLines(more) : more[i].of = more[j].of => i = j
  <2>1. \A i \in TextLines(lines) : more[i] = lines[i]
    BY <1>2, <1>3 DEF Grown
  <2>2. /\ T = {lines[i].of : i \in TextLines(lines)}
        /\ \A i, j \in TextLines(lines) : lines[i].of = lines[j].of => i = j
    BY DEF PdfAt
  <2>. QED  BY <1>3, <2>1, <2>2
<1>7. PdfAt(more, q, T, P, pages)
  <2>1. Len(more) = n + 1 /\ Len(more) > 0 /\ Len(more) + 1 = n + 2
    BY <1>2 DEF Grown
  <2>2. \A i \in 2 .. Len(more) : Placed(more, i, P, pages)
    BY <1>4, <2>1
  <2>3. \E p \in 2 .. Len(more) : Under(more, Len(more) + 1, p) /\ more[p].page = q
    BY <1>2, <1>3, <1>5, <2>1
  <2>4. /\ more \in Seq(PdfLine) /\ more[1].kind = "heading" /\ more[1].level = 1
        /\ more[1].page = 0 /\ more[1].of[1] = "name"
    BY <1>2 DEF Grown
  <2>. QED  BY <1>6, <2>1, <2>2, <2>3, <2>4 DEF PdfAt
<1>. QED  BY <1>7 DEF more, x

(* Where page r ends is where it goes on. *)
LEMMA PageGoesOn ==
    ASSUME NEW lines, NEW r \in Nat \ {0}, NEW T, NEW P, NEW pages, PdfAt(lines, r, T, P, pages),
           NEW x \in PdfLine, x.kind = "text" \/ (x.kind = "heading" /\ x.level = 3), NEW Q, P \subseteq Q
    PROVE  LET more == Append(lines, x)
               n == Len(lines)
           IN  \E p \in 2 .. n : /\ Under(more, n + 1, p) /\ more[p].page = r
                                 /\ Under(more, n + 2, p)
<1>. DEFINE more == Append(lines, x)
            n == Len(lines)
<1>2. Grown(more, lines, n, x, Q, pages)
    BY PdfMore
<1>3. PICK p \in 2 .. n : Under(lines, n + 1, p) /\ lines[p].page = r
    BY DEF PdfAt
<1>. HIDE DEF more, n
<1>4. Under(more, n + 1, p) /\ more[p].page = r
  <2>1. n + 1 \in 2 .. n + 1 /\ p \in 2 .. (n + 1) - 1 /\ p \in 1 .. n
    BY <1>2 DEF Grown
  <2>. QED  BY <1>2, <1>3, <2>1 DEF Grown
<1>5. Under(more, n + 2, p)
  <2>1. p \in 2 .. (n + 2) - 1 /\ \A m \in p + 1 .. (n + 2) - 1 : m = n + 1 \/ m \in p + 1 .. (n + 1) - 1
    BY <1>2 DEF Grown
  <2>2. more[n + 1].kind = "heading" => more[n + 1].level = 3
    BY <1>2 DEF Grown
  <2>. QED  BY <1>4, <2>1, <2>2 DEF Under
<1>. QED  BY <1>4, <1>5 DEF more, n

(* A heading of the page. *)
LEMMA TitleAdded ==
    ASSUME NEW lines, NEW r \in Nat \ {0}, NEW T, NEW P, NEW pages, PdfAt(lines, r, T, P, pages), NEW of \in OfType
    PROVE  PdfAt(Append(lines, Line("heading", 3, 0, of)), r, T, P \cup {of}, pages)
<1>. DEFINE x == Line("heading", 3, 0, of)
            more == Append(lines, x)
            n == Len(lines)
            Q == P \cup {of}
<1>1. x \in PdfLine /\ x.kind = "heading" /\ x.level = 3 /\ x.page = 0 /\ x.of = of
    BY DEF Line, PdfLine
<1>. HIDE DEF x
<1>2. Grown(more, lines, n, x, Q, pages)
  <2>1. P \subseteq Q
    OBVIOUS
  <2>. HIDE DEF Q
  <2>. QED  BY <1>1, <2>1, PdfMore
<1>3. PICK p \in 2 .. n : Under(more, n + 1, p) /\ more[p].page = r /\ Under(more, n + 2, p)
    BY <1>1, PageGoesOn
<1>. HIDE DEF more, n
<1>4. TextLines(more) = TextLines(lines) /\ TextLines(lines) \subseteq 1 .. n
    BY <1>1, <1>2 DEF Grown
<1>5. p \in 2 .. (n + 1) - 1 /\ p \in 2 .. n + 1 /\ (n + 1) + 1 = n + 2
    BY <1>2 DEF Grown
<1>6. \A i \in 2 .. n + 1 : Placed(more, i, Q, pages)
  <2>1. \A i \in 2 .. n + 1 : i = n + 1 \/ i \in 2 .. n
    BY <1>2 DEF Grown
  <2>2. Placed(more, n + 1, Q, pages)
    BY <1>1, <1>2, <1>3, <1>5 DEF Placed, Grown
  <2>. QED  BY <1>2, <2>1, <2>2 DEF Grown
<1>7. /\ T = {more[i].of : i \in TextLines(more)}
      /\ \A i, j \in TextLines(more) : more[i].of = more[j].of => i = j
  <2>1. \A i \in TextLines(lines) : more[i] = lines[i]
    BY <1>2, <1>4 DEF Grown
  <2>2. /\ T = {lines[i].of : i \in TextLines(lines)}
        /\ \A i, j \in TextLines(lines) : lines[i].of = lines[j].of => i = j
    BY DEF PdfAt
  <2>. QED  BY <1>4, <2>1, <2>2
<1>8. PdfAt(more, r, T, Q, pages)
  <2>1. Len(more) = n + 1 /\ Len(more) > 0 /\ Len(more) + 1 = n + 2
    BY <1>2 DEF Grown
  <2>2. \A i \in 2 .. Len(more) : Placed(more, i, Q, pages)
    BY <1>6, <2>1
  <2>3. \E q \in 2 .. Len(more) : Under(more, Len(more) + 1, q) /\ more[q].page = r
    BY <1>2, <1>3, <1>5, <2>1
  <2>4. /\ more \in Seq(PdfLine) /\ more[1].kind = "heading" /\ more[1].level = 1
        /\ more[1].page = 0 /\ more[1].of[1] = "name"
    BY <1>2 DEF Grown
  <2>. QED  BY <1>7, <2>1, <2>2, <2>3, <2>4 DEF PdfAt
<1>. QED  BY <1>8 DEF more, x

(* A text of the page, which is on no line yet. *)
LEMMA TextAdded ==
    ASSUME NEW lines, NEW r \in Nat \ {0}, NEW T, NEW P, NEW pages, PdfAt(lines, r, T, P, pages), NEW of \in OfType,
           Home(pages, of) = r, of \notin T
    PROVE  PdfAt(Append(lines, Line("text", 0, 0, of)), r, T \cup {of}, P, pages)
<1>. DEFINE x == Line("text", 0, 0, of)
            more == Append(lines, x)
            n == Len(lines)
<1>1. x \in PdfLine /\ x.kind = "text" /\ x.of = of
    BY DEF Line, PdfLine
<1>. HIDE DEF x
<1>2. Grown(more, lines, n, x, P, pages)
    BY <1>1, PdfMore
<1>3. PICK p \in 2 .. n : Under(more, n + 1, p) /\ more[p].page = r /\ Under(more, n + 2, p)
    BY <1>1, PageGoesOn
<1>. HIDE DEF more, n
<1>4. TextLines(more) = TextLines(lines) \cup {n + 1} /\ TextLines(lines) \subseteq 1 .. n
    BY <1>1, <1>2 DEF Grown
<1>5. p \in 2 .. (n + 1) - 1 /\ p \in 2 .. n + 1 /\ (n + 1) + 1 = n + 2
    BY <1>2 DEF Grown
<1>6. \A i \in 2 .. n + 1 : Placed(more, i, P, pages)
  <2>1. \A i \in 2 .. n + 1 : i = n + 1 \/ i \in 2 .. n
    BY <1>2 DEF Grown
  <2>2. Placed(more, n + 1, P, pages)
    BY <1>1, <1>2, <1>3, <1>5 DEF Placed, Grown
  <2>. QED  BY <1>2, <2>1, <2>2 DEF Grown
<1>7. /\ T \cup {of} = {more[i].of : i \in TextLines(more)}
      /\ \A i, j \in TextLines(more) : more[i].of = more[j].of => i = j
  <2>1. \A i \in TextLines(lines) : more[i] = lines[i]
    BY <1>2, <1>4 DEF Grown
  <2>2. /\ T = {lines[i].of : i \in TextLines(lines)}
        /\ \A i, j \in TextLines(lines) : lines[i].of = lines[j].of => i = j
    BY DEF PdfAt
  <2>3. more[n + 1].of = of /\ \A i \in TextLines(lines) : more[i].of # of
    BY <1>1, <1>2, <2>1, <2>2 DEF Grown
  <2>. QED  BY <1>4, <2>1, <2>2, <2>3
<1>8. PdfAt(more, r, T \cup {of}, P, pages)
  <2>1. Len(more) = n + 1 /\ Len(more) > 0 /\ Len(more) + 1 = n + 2
    BY <1>2 DEF Grown
  <2>2. \A i \in 2 .. Len(more) : Placed(more, i, P, pages)
    BY <1>6, <2>1
  <2>3. \E q \in 2 .. Len(more) : Under(more, Len(more) + 1, q) /\ more[q].page = r
    BY <1>2, <1>3, <1>5, <2>1
  <2>4. /\ more \in Seq(PdfLine) /\ more[1].kind = "heading" /\ more[1].level = 1
        /\ more[1].page = 0 /\ more[1].of[1] = "name"
    BY <1>2 DEF Grown
  <2>. QED  BY <1>7, <2>1, <2>2, <2>3, <2>4 DEF PdfAt
<1>. QED  BY <1>8 DEF more, x

(* Flattening goes on with the next sequence. *)
LEMMA FlattenNext ==
    ASSUME NEW S, NEW n \in Nat, NEW F \in [1 .. n -> Seq(S)]
    PROVE  /\ UpToLast(F, 0) = <<>> /\ UpToLast(F, n) = FlattenSeq(F)
           /\ \A m \in 0 .. n : UpToLast(F, m) \in Seq(S)
           /\ \A m \in 0 .. n - 1 : UpToLast(F, m + 1) = UpToLast(F, m) \o F[m + 1]
<1>1. UpToLast(F, 0) = <<>>
  <2>1. [k \in 1 .. 0 |-> F[k]] = <<>>
    OBVIOUS
  <2>. QED  BY <2>1, FlattenMore DEF UpToLast
<1>2. UpToLast(F, n) = FlattenSeq(F)
  <2>1. [k \in 1 .. n |-> F[k]] = F
    OBVIOUS
  <2>. QED  BY <2>1 DEF UpToLast
<1>. DEFINE g(m) == [k \in 1 .. m |-> F[k]]
<1>3. ASSUME NEW m \in 0 .. n PROVE g(m) \in Seq(Seq(S)) /\ Len(g(m)) = m
  <2>1. m \in Nat /\ \A k \in 1 .. m : F[k] \in Seq(S)
    OBVIOUS
  <2>. DEFINE Y == Seq(S)
              c(k) == F[k]
  <2>2. g(m) = [k \in 1 .. m |-> c(k)] /\ \A k \in 1 .. m : c(k) \in Y
    BY <2>1
  <2>. HIDE DEF Y, c, g
  <2>3. g(m) \in Seq(Y) /\ Len(g(m)) = m
    BY <2>1, <2>2
  <2>. QED  BY <2>3 DEF Y
<1>4. ASSUME NEW m \in 0 .. n PROVE UpToLast(F, m) \in Seq(S)
  <2>1. g(m) \in Seq(Seq(S))
    BY <1>3
  <2>2. UpToLast(F, m) = FlattenSeq(g(m))
    BY DEF UpToLast
  <2>. HIDE DEF g
  <2>. QED  BY <2>1, <2>2, FlattenMore
<1>5. ASSUME NEW m \in 0 .. n - 1 PROVE UpToLast(F, m + 1) = UpToLast(F, m) \o F[m + 1]
  <2>. DEFINE l == g(m + 1)
              r == Append(g(m), F[m + 1])
  <2>1. m \in 0 .. n /\ m + 1 \in 0 .. n /\ m + 1 \in 1 .. n /\ F[m + 1] \in Seq(S)
    OBVIOUS
  <2>2. g(m) \in Seq(Seq(S)) /\ Len(g(m)) = m /\ \A k \in 1 .. m : g(m)[k] = F[k]
    BY <1>3, <2>1
  <2>3. r \in Seq(Seq(S)) /\ Len(r) = m + 1 /\ r[m + 1] = F[m + 1] /\ \A k \in 1 .. m : r[k] = g(m)[k]
    <3>. HIDE DEF g
    <3>. QED  BY <2>1, <2>2, AppendProperties, SMTT(20)
  <2>4. l = r
    <3>1. r = [k \in 1 .. m + 1 |-> r[k]]
      BY <2>3
    <3>. HIDE DEF r
    <3>2. \A k \in 1 .. m + 1 : k = m + 1 \/ k \in 1 .. m
      BY <2>1
    <3>3. \A k \in 1 .. m + 1 : r[k] = F[k]
      BY <2>2, <2>3, <3>2
    <3>. QED  BY <3>1, <3>3
  <2>5. UpToLast(F, m + 1) = FlattenSeq(l) /\ UpToLast(F, m) = FlattenSeq(g(m))
    BY DEF UpToLast
  <2>. HIDE DEF l, g
  <2>6. FlattenSeq(r) = FlattenSeq(g(m)) \o F[m + 1]
    BY <2>1, <2>2, FlattenMore
  <2>. QED  BY <2>4, <2>5, <2>6
<1>. QED  BY <1>1, <1>2, <1>4, <1>5

(* An image or a rendering of the page with its text. *)
LEMMA TitledAdded ==
    ASSUME NEW lines, NEW r \in Nat \ {0}, NEW T, NEW pages, PdfAt(lines, r, T, T, pages), NEW of \in OfType,
           Home(pages, of) = r, of \notin T
    PROVE  /\ Titled(of) \in Seq(PdfLine)
           /\ PdfAt(lines \o Titled(of), r, T \cup {of}, T \cup {of}, pages)
<1>. DEFINE a == Line("heading", 3, 0, of)
            b == Line("text", 0, 0, of)
<1>1. lines \in Seq(PdfLine) /\ a \in PdfLine /\ b \in PdfLine
    BY DEF PdfAt, Line, PdfLine
<1>2. PdfAt(Append(lines, a), r, T, T \cup {of}, pages)
    BY TitleAdded
<1>3. PdfAt(Append(Append(lines, a), b), r, T \cup {of}, T \cup {of}, pages)
    BY <1>2, TextAdded
<1>4. Titled(of) = <<a, b>>
    BY DEF Titled
<1>. HIDE DEF a, b
<1>5. lines \o <<a, b>> = Append(Append(lines, a), b) /\ <<a, b>> \in Seq(PdfLine)
    BY <1>1
<1>. QED  BY <1>3, <1>4, <1>5

(* The images of a page that are not there yet are added once each. *)
LEMMA ImagesAdded ==
    ASSUME NEW lines, NEW r \in Nat \ {0}, NEW T, NEW pages, PdfAt(lines, r, T, T, pages),
           NEW images \in Seq(STRING), IsInjective(images),
           \A k \in DOMAIN images : HomePage(pages, images[k]) = r /\ <<"image", images[k]>> \notin T
    PROVE  /\ ImageLines(images) \in Seq(PdfLine)
           /\ PdfAt(lines \o ImageLines(images), r, T \cup Shown(images), T \cup Shown(images), pages)
<1>. DEFINE n == Len(images)
            F == [k \in 1 .. n |-> Titled(<<"image", images[k]>>)]
            U(m) == T \cup {<<"image", images[k]>> : k \in 1 .. m}
            L(m) == lines \o UpToLast(F, m)
            G == {m \in 0 .. n : PdfAt(L(m), r, U(m), U(m), pages)}
<1>1. n \in Nat /\ DOMAIN images = 1 .. n /\ lines \in Seq(PdfLine)
    BY DEF PdfAt
<1>2. ASSUME NEW k \in 1 .. n
      PROVE  <<"image", images[k]>> \in OfType /\ Home(pages, <<"image", images[k]>>) = r
  <2>1. images[k] \in STRING
    BY <1>1, ElementOfSeq
  <2>2. HomePage(pages, images[k]) = r
    BY <1>1
  <2>. QED  BY <2>1, <2>2 DEF OfType, Home
<1>3. F \in [1 .. n -> Seq(PdfLine)]
  <2>1. ASSUME NEW k \in 1 .. n PROVE Titled(<<"image", images[k]>>) \in Seq(PdfLine)
    <3>. DEFINE of == <<"image", images[k]>>
    <3>1. of \in OfType
      BY <1>2
    <3>. HIDE DEF of
    <3>2. Line("heading", 3, 0, of) \in PdfLine /\ Line("text", 0, 0, of) \in PdfLine
      BY <3>1 DEF Line, PdfLine
    <3>3. Titled(of) \in Seq(PdfLine)
      BY <3>2 DEF Titled
    <3>. QED  BY <3>3 DEF of
  <2>. QED  BY <2>1
<1>4. \A k \in 1 .. n : F[k] = Titled(<<"image", images[k]>>)
    OBVIOUS
<1>. HIDE DEF n, F
<1>5. /\ UpToLast(F, 0) = <<>> /\ UpToLast(F, n) = FlattenSeq(F)
      /\ \A m \in 0 .. n : UpToLast(F, m) \in Seq(PdfLine)
      /\ \A m \in 0 .. n - 1 : UpToLast(F, m + 1) = UpToLast(F, m) \o F[m + 1]
    BY <1>1, <1>3, FlattenNext
<1>6. 0 \in G
  <2>1. U(0) = T
    OBVIOUS
  <2>2. L(0) = lines
    BY <1>1, <1>5
  <2>. HIDE DEF U, L
  <2>. QED  BY <1>1, <2>1, <2>2
<1>7. ASSUME NEW m \in 0 .. n - 1, m \in G PROVE m + 1 \in G
  <2>. DEFINE of == <<"image", images[m + 1]>>
  <2>1. m + 1 \in 1 .. n /\ m + 1 \in 0 .. n /\ m \in Nat /\ m \in 0 .. n
    BY <1>1
  <2>2. of \in OfType /\ Home(pages, of) = r /\ of \notin T
    BY <1>1, <1>2, <2>1
  <2>3. ASSUME NEW k \in 1 .. m PROVE <<"image", images[k]>> # of
    <3>1. k \in 1 .. n /\ k # m + 1
      BY <1>1, <2>1
    <3>2. images[k] # images[m + 1]
      BY <1>1, <2>1, <3>1 DEF IsInjective
    <3>. QED  BY <3>2
  <2>4. U(m + 1) = U(m) \cup {of}
    <3>1. \A k \in 1 .. m + 1 : k = m + 1 \/ k \in 1 .. m
      BY <2>1
    <3>2. m + 1 \in 1 .. m + 1 /\ \A k \in 1 .. m : k \in 1 .. m + 1
      BY <2>1
    <3>. QED  BY <3>1, <3>2
  <2>5. of \notin U(m)
    BY <2>2, <2>3
  <2>6. L(m + 1) = L(m) \o Titled(of)
    <3>. DEFINE u == UpToLast(F, m)
                v == F[m + 1]
    <3>1. u \in Seq(PdfLine) /\ v \in Seq(PdfLine)
      BY <1>3, <1>5, <2>1
    <3>2. UpToLast(F, m + 1) = u \o v /\ v = Titled(of)
      BY <1>4, <1>5, <2>1
    <3>. HIDE DEF u, v
    <3>3. lines \o (u \o v) = (lines \o u) \o v
      BY <1>1, <3>1, ConcatAssociative, SMTT(20)
    <3>. QED  BY <3>2, <3>3 DEF u
  <2>7. PdfAt(L(m), r, U(m), U(m), pages)
    BY <1>7
  <2>. HIDE DEF U, L, of
  <2>8. PdfAt(L(m) \o Titled(of), r, U(m) \cup {of}, U(m) \cup {of}, pages)
    BY <2>2, <2>5, <2>7, TitledAdded
  <2>. QED  BY <2>1, <2>4, <2>6, <2>8
<1>8. n \in G
  <2>. HIDE DEF G
  <2>1. \A m \in 0 .. n - 1 : m \in G => m + 1 \in G
    BY <1>7
  <2>2. \A m \in 0 .. n : m \in G
    BY <1>1, <1>6, <2>1, UpTo
  <2>. QED  BY <1>1, <2>2
<1>9. U(n) = T \cup Shown(images)
    BY <1>1 DEF Shown
<1>10. ImageLines(images) = FlattenSeq(F)
    BY DEF ImageLines, F, n
<1>11. ImageLines(images) \in Seq(PdfLine) /\ L(n) = lines \o ImageLines(images)
    BY <1>1, <1>5, <1>10
<1>12. PdfAt(L(n), r, U(n), U(n), pages)
    BY <1>8
<1>. HIDE DEF L, U
<1>. QED  BY <1>9, <1>11, <1>12

(* A page adds its own parts and no others. *)
LEMMA PageAdded ==
    ASSUME NEW lines, NEW q, NEW r \in Nat \ {0}, NEW T, NEW pages, PdfAt(lines, q, T, T, pages),
           NEW text \in BOOLEAN, NEW scan \in BOOLEAN, NEW shown \in Seq(STRING), IsInjective(shown),
           \A k \in DOMAIN shown : HomePage(pages, shown[k]) = r,
           \A x \in T : x \notin PageParts(r, TRUE, shown, TRUE)
    PROVE  /\ PageLines(r, text, shown, scan) \in Seq(PdfLine)
           /\ PdfAt(lines \o PageLines(r, text, shown, scan), r, T \cup PageParts(r, text, shown, scan),
                    T \cup PageParts(r, text, shown, scan), pages)
<1>. DEFINE tx == <<"text", r>>
            sc == <<"scan", r>>
            h == Line("heading", 2, r, <<"page", r>>)
            l == Line("text", 0, 0, tx)
            A == IF text THEN <<l>> ELSE <<>>
            B == ImageLines(shown)
            C == IF scan THEN Titled(sc) ELSE <<>>
            T1 == T \cup (IF text THEN {tx} ELSE {})
            T2 == T1 \cup Shown(shown)
            T3 == T2 \cup (IF scan THEN {sc} ELSE {})
<1>1. tx \in OfType /\ sc \in OfType /\ Home(pages, tx) = r /\ Home(pages, sc) = r /\ tx # sc
      /\ \A k : <<"image", shown[k]>> # tx /\ <<"image", shown[k]>> # sc
    BY DEF OfType, Home
<1>2. tx \notin T /\ sc \notin T /\ \A k \in DOMAIN shown : <<"image", shown[k]>> \notin T
    BY DEF PageParts, Shown
<1>3. sc \notin Shown(shown)
    BY <1>1 DEF Shown
<1>4. lines \in Seq(PdfLine) /\ h \in PdfLine /\ l \in PdfLine
  <2>1. <<"page", r>> \in OfType
    BY DEF OfType
  <2>. QED  BY <1>1, <2>1 DEF PdfAt, Line, PdfLine
<1>5. PdfAt(Append(lines, h), r, T, T, pages)
    BY PageBegins
<1>6. T \cup PageParts(r, text, shown, scan) = T3
    BY DEF PageParts
<1>7. PageLines(r, text, shown, scan) = <<h>> \o A \o B \o C
    BY DEF PageLines, ImageLines
<1>. HIDE DEF tx, sc, h, l
<1>8. PdfAt(Append(lines, h) \o A, r, T1, T1, pages) /\ A \in Seq(PdfLine)
  <2>1. CASE text
    <3>1. PdfAt(Append(lines, h), r, T, T \cup {tx}, pages)
      <4>1. \A i \in 2 .. Len(Append(lines, h)) : Placed(Append(lines, h), i, T, pages) =>
                Placed(Append(lines, h), i, T \cup {tx}, pages)
        BY DEF Placed
      <4>. QED  BY <1>5, <4>1 DEF PdfAt
    <3>2. PdfAt(Append(Append(lines, h), l), r, T \cup {tx}, T \cup {tx}, pages)
      BY <1>1, <1>2, <3>1, TextAdded DEF l
    <3>3. Append(lines, h) \o <<l>> = Append(Append(lines, h), l) /\ <<l>> \in Seq(PdfLine)
      BY <1>4
    <3>. QED  BY <2>1, <3>2, <3>3
  <2>2. CASE ~text
    <3>1. Append(lines, h) \o <<>> = Append(lines, h) /\ <<>> \in Seq(PdfLine)
      BY <1>4
    <3>2. A = <<>> /\ T1 = T
      BY <2>2
    <3>. HIDE DEF A, T1
    <3>. QED  BY <1>5, <3>1, <3>2
  <2>. QED  BY <2>1, <2>2
<1>9. sc \notin T2 /\ \A k \in DOMAIN shown : <<"image", shown[k]>> \notin T1
    BY <1>1, <1>2, <1>3
<1>. DEFINE L1 == Append(lines, h) \o A
<1>. HIDE DEF A, T1, B
<1>10. PdfAt(L1 \o B, r, T2, T2, pages) /\ B \in Seq(PdfLine)
  <2>. HIDE DEF L1
  <2>1. PdfAt(L1, r, T1, T1, pages)
    BY <1>8 DEF L1
  <2>. QED  BY <1>9, <2>1, ImagesAdded DEF B
<1>. DEFINE L2 == L1 \o B
<1>. HIDE DEF L1, T2
<1>11. PdfAt(L2 \o C, r, T3, T3, pages) /\ C \in Seq(PdfLine)
  <2>0. PdfAt(L2, r, T2, T2, pages)
    BY <1>10
  <2>. HIDE DEF L2
  <2>1. CASE scan
    <3>1. Titled(sc) \in Seq(PdfLine) /\ PdfAt(L2 \o Titled(sc), r, T2 \cup {sc}, T2 \cup {sc}, pages)
      BY <1>1, <1>9, <2>0, TitledAdded
    <3>. QED  BY <2>1, <3>1
  <2>2. CASE ~scan
    <3>1. L2 \in Seq(PdfLine)
      BY <2>0 DEF PdfAt
    <3>2. L2 \o <<>> = L2 /\ <<>> \in Seq(PdfLine)
      BY <3>1
    <3>3. C = <<>> /\ T3 = T2
      BY <2>2
    <3>. HIDE DEF C, T3
    <3>. QED  BY <2>0, <3>2, <3>3
  <2>. QED  BY <2>1, <2>2
<1>. HIDE DEF C
<1>12. L2 \o C = lines \o (<<h>> \o A \o B \o C) /\ <<h>> \o A \o B \o C \in Seq(PdfLine)
  <2>. DEFINE H == <<h>>
  <2>1. H \in Seq(PdfLine) /\ Append(lines, h) = lines \o H
    BY <1>4
  <2>2. A \in Seq(PdfLine) /\ B \in Seq(PdfLine) /\ C \in Seq(PdfLine) /\ lines \in Seq(PdfLine)
    BY <1>4, <1>8, <1>10, <1>11
  <2>. HIDE DEF H
  <2>. DEFINE HA == H \o A
              HAB == HA \o B
  <2>3. (lines \o H) \o A = lines \o HA /\ HA \in Seq(PdfLine)
    BY <2>1, <2>2, ConcatAssociative, SMTT(20)
  <2>. HIDE DEF HA
  <2>4. (lines \o HA) \o B = lines \o HAB /\ HAB \in Seq(PdfLine)
    BY <2>2, <2>3, ConcatAssociative, SMTT(20)
  <2>. HIDE DEF HAB
  <2>5. (lines \o HAB) \o C = lines \o (HAB \o C) /\ HAB \o C \in Seq(PdfLine)
    <3>1. lines \in Seq(PdfLine) /\ HAB \in Seq(PdfLine) /\ C \in Seq(PdfLine)
      BY <2>2, <2>4
    <3>2. (lines \o HAB) \o C = lines \o (HAB \o C)
      BY <3>1, ConcatAssociative
    <3>. QED  BY <3>1, <3>2
  <2>6. L2 \o C = (lines \o HAB) \o C
    BY <2>1, <2>3, <2>4 DEF L1, L2
  <2>. QED  BY <2>5, <2>6 DEF H, HA, HAB
<1>. HIDE DEF L2, T3
<1>. QED  BY <1>6, <1>7, <1>11, <1>12

(* They are the legible images whose first page it is. *)
LEMMA ShownOf ==
    ASSUME NEW pages \in Seq(PageType), NEW legible, NEW r \in 1 .. Len(pages)
    PROVE  LET shown == ShownOn(pages, legible, r) IN
           /\ shown \in Seq(STRING) /\ IsInjective(shown)
           /\ \A d : d \in ToSet(shown) <=> /\ d \in legible /\ d \in ToSet(pages[r].images)
                                            /\ HomePage(pages, d) = r
<1>. DEFINE kept == DedupPages(pages)[r]
            S == {k \in DOMAIN kept : kept[k] \in legible}
            shown == ShownOn(pages, legible, r)
<1>1. /\ kept \in Seq(STRING) /\ IsInjective(kept)
      /\ \A d : d \in ToSet(kept) <=> d \in ToSet(pages[r].images) /\ HomePage(pages, d) = r
    BY DedupOf
<1>2. shown = Picked(kept, S)
    BY DEF ShownOn
<1>. HIDE DEF kept, shown
<1>3. DOMAIN kept = 1 .. Len(kept) /\ S \in SUBSET (1 .. Len(kept))
    BY <1>1
<1>4. \A k \in DOMAIN kept : k \in S <=> kept[k] \in legible
    OBVIOUS
<1>. HIDE DEF S
<1>5. /\ shown \in Seq(STRING) /\ ToSet(shown) = {kept[k] : k \in S}
      /\ (\A i, j \in S : kept[i] = kept[j] => i = j) => IsInjective(shown)
    BY <1>1, <1>2, <1>3, PickedOf
<1>6. \A i, j \in S : kept[i] = kept[j] => i = j
    BY <1>1, <1>3 DEF IsInjective
<1>7. ToSet(kept) = {kept[k] : k \in DOMAIN kept}
    BY DEF ToSet
<1>8. \A d : d \in ToSet(shown) <=> d \in legible /\ d \in ToSet(kept)
    BY <1>3, <1>4, <1>5, <1>7
<1>. QED  BY <1>1, <1>5, <1>6, <1>8 DEF shown

(* It has the number of its page, or is at home there. *)
LEMMA PartsOf ==
    ASSUME NEW pages \in Seq(PageType), NEW legible, NEW scannable, NEW r \in 1 .. Len(pages), NEW x
    PROVE  x \in PartsOn(pages, legible, scannable, r) <=>
              \/ x = <<"text", r>> /\ pages[r].text
              \/ \E d \in legible : x = <<"image", d>> /\ d \in ToSet(pages[r].images) /\ HomePage(pages, d) = r
              \/ x = <<"scan", r>> /\ ScanOn(pages, legible, scannable, r)
<1>. DEFINE shown == ShownOn(pages, legible, r)
            scan == ScanOn(pages, legible, scannable, r)
<1>1. \A d : d \in ToSet(shown) <=> d \in legible /\ d \in ToSet(pages[r].images) /\ HomePage(pages, d) = r
    BY ShownOf
<1>. HIDE DEF shown, scan
<1>2. Shown(shown) = {<<"image", d>> : d \in ToSet(shown)}
    BY DEF Shown, ToSet
<1>3. x \in Shown(shown) <=> \E d \in legible : x = <<"image", d>> /\ d \in ToSet(pages[r].images)
                                                /\ HomePage(pages, d) = r
    BY <1>1, <1>2
<1>4. x \in PageParts(r, pages[r].text, shown, scan) <=>
         (x = <<"text", r>> /\ pages[r].text) \/ x \in Shown(shown) \/ (x = <<"scan", r>> /\ scan)
    BY DEF PageParts
<1>. QED  BY <1>3, <1>4 DEF PartsOn, shown, scan

(* The Markdown of a PDF. *)
LEMMA ConvertOf ==
    ASSUME NEW pages \in Seq(PageType), NEW legible, NEW scannable
    PROVE  PdfAt(ConvertPdf(pages, 0, legible, scannable), Len(pages),
                 PartsUpTo(pages, legible, scannable, Len(pages)),
                 PartsUpTo(pages, legible, scannable, Len(pages)), pages)
<1>. DEFINE n == Len(pages)
            shown(r) == ShownOn(pages, legible, r)
            scan(r) == ScanOn(pages, legible, scannable, r)
            F == [r \in 1 .. n |-> PageLines(r, pages[r].text, shown(r), scan(r))]
            name == Line("heading", 1, 0, <<"name">>)
            L(m) == <<name>> \o UpToLast(F, m)
            U(m) == PartsUpTo(pages, legible, scannable, m)
            G == {m \in 0 .. n : PdfAt(L(m), m, U(m), U(m), pages)}
<1>1. n \in Nat /\ \A r \in 1 .. n : pages[r].text \in BOOLEAN
  <2>1. \A r \in 1 .. n : pages[r] \in PageType
    BY ElementOfSeq
  <2>. QED  BY <2>1 DEF PageType
<1>2. ConvertPdf(pages, 0, legible, scannable) = <<name>> \o FlattenSeq(F)
    BY DEF ConvertPdf, ShownOn, ScanOn
<1>3. name \in PdfLine /\ name.kind = "heading" /\ name.level = 1 /\ name.page = 0 /\ name.of[1] = "name"
    BY DEF Line, PdfLine, OfType
<1>4. ASSUME NEW r \in 1 .. n
      PROVE  /\ shown(r) \in Seq(STRING) /\ IsInjective(shown(r))
             /\ \A k \in DOMAIN shown(r) : HomePage(pages, shown(r)[k]) = r
             /\ scan(r) \in BOOLEAN
  <2>1. /\ shown(r) \in Seq(STRING) /\ IsInjective(shown(r))
        /\ \A d : d \in ToSet(shown(r)) => HomePage(pages, d) = r
    BY ShownOf
  <2>2. scan(r) \in BOOLEAN
    BY DEF ScanOn
  <2>. QED  BY <2>1, <2>2 DEF ToSet
<1>5. PdfAt(<<name>>, 0, {}, {}, pages)
  <2>1. <<name>> \in Seq(PdfLine) /\ Len(<<name>>) = 1 /\ <<name>>[1] = name
    BY <1>3
  <2>. HIDE DEF name
  <2>2. TextLines(<<name>>) = {}
    BY <1>3, <2>1 DEF TextLines
  <2>. QED  BY <1>3, <2>1, <2>2 DEF PdfAt
<1>6. \A r \in 1 .. n : F[r] = PageLines(r, pages[r].text, shown(r), scan(r))
    OBVIOUS
<1>7. \A r \in 1 .. n : F[r] \in Seq(PdfLine)
  <2>. SUFFICES ASSUME NEW r \in 1 .. n PROVE PageLines(r, pages[r].text, shown(r), scan(r)) \in Seq(PdfLine)
    BY <1>6
  <2>. DEFINE none == {}
              first == <<name>>
              sh == shown(r)
              sc == scan(r)
              text == pages[r].text
  <2>1. r \in Nat \ {0} /\ text \in BOOLEAN /\ sc \in BOOLEAN /\ sh \in Seq(STRING) /\ IsInjective(sh)
        /\ \A k \in DOMAIN sh : HomePage(pages, sh[k]) = r
    BY <1>1, <1>4
  <2>2. PdfAt(first, 0, none, none, pages) /\ \A x \in none : x \notin PageParts(r, TRUE, sh, TRUE)
    BY <1>5
  <2>. HIDE DEF none, first, sh, sc, text
  <2>3. PageLines(r, text, sh, sc) \in Seq(PdfLine)
    BY <2>1, <2>2, PageAdded
  <2>. QED  BY <2>3 DEF sh, sc, text
<1>8. F \in [1 .. n -> Seq(PdfLine)]
    BY <1>7
<1>. HIDE DEF name, n, F
<1>9. /\ UpToLast(F, 0) = <<>> /\ UpToLast(F, n) = FlattenSeq(F)
      /\ \A m \in 0 .. n : UpToLast(F, m) \in Seq(PdfLine)
      /\ \A m \in 0 .. n - 1 : UpToLast(F, m + 1) = UpToLast(F, m) \o F[m + 1]
    BY <1>1, <1>8, FlattenNext
<1>10. 0 \in G
  <2>1. L(0) = <<name>>
    <3>. DEFINE w == <<name>>
    <3>1. w \in Seq(PdfLine)
      BY <1>3
    <3>. HIDE DEF w
    <3>2. w \o <<>> = w
      BY <3>1
    <3>. QED  BY <1>9, <3>2 DEF w
  <2>2. U(0) = {}
    <3>1. 1 .. 0 = {}
      OBVIOUS
    <3>. QED  BY <3>1 DEF PartsUpTo
  <2>. HIDE DEF L, U
  <2>3. PdfAt(L(0), 0, U(0), U(0), pages)
    BY <1>5, <2>1, <2>2
  <2>4. 0 \in 0 .. n
    BY <1>1
  <2>. QED  BY <2>3, <2>4
<1>11. ASSUME NEW m \in 0 .. n - 1, m \in G PROVE m + 1 \in G
  <2>. DEFINE r == m + 1
  <2>1. r \in 1 .. n /\ r \in 0 .. n /\ r \in Nat \ {0} /\ m \in 0 .. n /\ m \in Nat /\ \A q \in 1 .. m : q \in 1 .. n /\ q # r
    BY <1>1
  <2>2. U(r) = U(m) \cup PartsOn(pages, legible, scannable, r)
    <3>1. \A q : q \in 1 .. r <=> q = r \/ q \in 1 .. m
      BY <2>1
    <3>. HIDE DEF r
    <3>. QED  BY <3>1 DEF PartsUpTo
  <2>3. L(r) = L(m) \o F[r]
    <3>. DEFINE u == UpToLast(F, m)
                v == F[r]
                w == <<name>>
    <3>1. u \in Seq(PdfLine) /\ v \in Seq(PdfLine) /\ w \in Seq(PdfLine)
      <4>1. u \in Seq(PdfLine)
        BY <1>9, <2>1
      <4>2. v \in Seq(PdfLine)
        <5>. HIDE DEF r
        <5>. QED  BY <1>8, <2>1
      <4>3. w \in Seq(PdfLine)
        BY <1>3
      <4>. QED  BY <4>1, <4>2, <4>3
    <3>2. UpToLast(F, r) = u \o v
      BY <1>9, <2>1
    <3>. HIDE DEF u, v, w
    <3>3. w \o (u \o v) = (w \o u) \o v
      <4>1. u \in Seq(PdfLine) /\ v \in Seq(PdfLine) /\ w \in Seq(PdfLine)
        BY <3>1
      <4>2. \A a, b, c \in Seq(PdfLine) : a \o (b \o c) = (a \o b) \o c
        BY ConcatAssociative, SMTT(20)
      <4>. QED  BY <4>1, <4>2, Zenon
    <3>. QED  BY <3>2, <3>3 DEF u, v, w
  <2>4. PdfAt(L(m), m, U(m), U(m), pages)
    BY <1>11
  <2>5. F[r] = PageLines(r, pages[r].text, shown(r), scan(r))
    BY <1>6, <2>1
  <2>6. PartsOn(pages, legible, scannable, r) = PageParts(r, pages[r].text, shown(r), scan(r))
    BY DEF PartsOn
  <2>7. /\ shown(r) \in Seq(STRING) /\ IsInjective(shown(r)) /\ scan(r) \in BOOLEAN
        /\ \A k \in DOMAIN shown(r) : HomePage(pages, shown(r)[k]) = r
        /\ pages[r].text \in BOOLEAN
    BY <1>1, <1>4, <2>1
  <2>8. ASSUME NEW x \in U(m) PROVE x \notin PageParts(r, TRUE, shown(r), TRUE)
    <3>1. PICK q \in 1 .. m : x \in PartsOn(pages, legible, scannable, q)
      BY DEF PartsUpTo
    <3>2. q \in 1 .. Len(pages) /\ q # r
      BY <2>1, <3>1 DEF n
    <3>3. \/ x = <<"text", q>> \/ x = <<"scan", q>>
          \/ \E d \in legible : x = <<"image", d>> /\ HomePage(pages, d) = q
      BY <3>1, <3>2, PartsOf
    <3>4. SUFFICES ASSUME x \in PageParts(r, TRUE, shown(r), TRUE) PROVE FALSE
      OBVIOUS
    <3>. HIDE DEF shown, r
    <3>5. \/ x = <<"text", r>> \/ x = <<"scan", r>>
          \/ \E k \in DOMAIN shown(r) : x = <<"image", shown(r)[k]>>
      BY <3>4 DEF PageParts, Shown
    <3>. QED  BY <2>7, <3>2, <3>3, <3>5
  <2>. HIDE DEF L, U, shown, scan, r
  <2>9. PdfAt(L(m) \o F[r], r, U(m) \cup PartsOn(pages, legible, scannable, r),
              U(m) \cup PartsOn(pages, legible, scannable, r), pages)
    BY <2>1, <2>4, <2>5, <2>6, <2>7, <2>8, PageAdded
  <2>10. PdfAt(L(r), r, U(r), U(r), pages)
    BY <2>2, <2>3, <2>9
  <2>. QED  BY <2>1, <2>10 DEF r
<1>12. n \in G
  <2>. HIDE DEF G
  <2>1. \A m \in 0 .. n - 1 : m \in G => m + 1 \in G
    BY <1>11
  <2>2. \A m \in 0 .. n : m \in G
    BY <1>1, <1>10, <2>1, UpTo
  <2>. QED  BY <1>1, <2>2
<1>13. PdfAt(L(n), n, U(n), U(n), pages) /\ L(n) = <<name>> \o FlattenSeq(F)
    BY <1>9, <1>12
<1>. HIDE DEF L
<1>. QED  BY <1>2, <1>13 DEF n

(* The headings of a PDF are all lines but the texts, of three levels. *)
LEMMA PdfHeadings ==
    ASSUME NEW lines, NEW r, NEW T, NEW pages, PdfAt(lines, r, T, T, pages)
    PROVE  /\ LineList(lines) /\ Headings(lines) = (1 .. Len(lines)) \ TextLines(lines)
           /\ \A i \in 1 .. Len(lines) : i \in Headings(lines) <=> lines[i].kind = "heading"
           /\ 1 \in Headings(lines) /\ lines[1].level = 1 /\ lines[1].page = 0
           /\ \A i \in Headings(lines) : /\ lines[i].level \in {1, 2, 3} /\ (lines[i].level = 1 <=> i = 1)
                                         /\ lines[i].page > 0 <=> lines[i].level = 2
<1>. DEFINE n == Len(lines)
<1>1. lines \in Seq(PdfLine) /\ n \in Nat \ {0} /\ DOMAIN lines = 1 .. n /\ \A i \in 1 .. n : lines[i] \in PdfLine
    BY ElementOfSeq DEF PdfAt
<1>2. \A i \in 1 .. n : lines[i].kind \in {"heading", "text"} /\ lines[i].level \in Nat /\ lines[i].page \in Nat
    BY <1>1 DEF PdfLine
<1>3. ASSUME NEW i \in 1 .. n PROVE ~Fenced(lines, i)
  <2>. DEFINE S == {j \in 1 .. i - 1 : lines[j].kind = "fence"}
  <2>1. S = {}
    <3>1. \A j \in 1 .. i - 1 : j \in 1 .. n
      BY <1>1
    <3>. QED  BY <1>2, <3>1
  <2>2. Cardinality(S) = 0
    BY <2>1, FS_EmptySet
  <2>. HIDE DEF S
  <2>3. ~(Cardinality(S) % 2 = 1)
    BY <2>2
  <2>. QED  BY <2>3 DEF Fenced, S
<1>4. \A i \in 1 .. n : i \in Headings(lines) <=> lines[i].kind = "heading"
    BY <1>1, <1>3 DEF Headings
<1>5. Headings(lines) \subseteq 1 .. n
    BY <1>1 DEF Headings
<1>6. Headings(lines) = (1 .. n) \ TextLines(lines)
    BY <1>2, <1>4, <1>5 DEF TextLines
<1>7. lines[1].kind = "heading" /\ lines[1].level = 1 /\ lines[1].page = 0 /\ 1 \in 1 .. n
    BY <1>1 DEF PdfAt
<1>8. ASSUME NEW i \in Headings(lines), i # 1
      PROVE  lines[i].level \in {2, 3} /\ (lines[i].page > 0 <=> lines[i].level = 2)
  <2>1. i \in 1 .. n /\ i \in 2 .. n /\ lines[i].kind = "heading"
    BY <1>4, <1>5, <1>8
  <2>2. Placed(lines, i, T, pages)
    BY <2>1 DEF PdfAt
  <2>. QED  BY <2>1, <2>2 DEF Placed
<1>9. LineList(lines)
  <2>1. ASSUME NEW i \in 1 .. n, lines[i].kind = "heading" PROVE lines[i].level \in Nat \ {0}
    <3>1. i \in Headings(lines)
      BY <1>4, <2>1
    <3>. QED  BY <1>7, <1>8, <3>1
  <2>. QED  BY <1>1, <2>1 DEF LineList
<1>10. \A i \in Headings(lines) : /\ lines[i].level \in {1, 2, 3} /\ (lines[i].level = 1 <=> i = 1)
                                  /\ lines[i].page > 0 <=> lines[i].level = 2
  <2>. SUFFICES ASSUME NEW i \in Headings(lines)
                PROVE  /\ lines[i].level \in {1, 2, 3} /\ (lines[i].level = 1 <=> i = 1)
                       /\ lines[i].page > 0 <=> lines[i].level = 2
    OBVIOUS
  <2>1. CASE i = 1
    BY <1>7, <2>1
  <2>2. CASE i # 1
    BY <1>8, <2>2
  <2>. QED  BY <2>1, <2>2
<1>11. 1 \in Headings(lines)
    BY <1>4, <1>7
<1>. QED  BY <1>4, <1>6, <1>7, <1>9, <1>10, <1>11

(* Around a line under page heading p are the first line, p and perhaps
   the heading of an image.                                                *)
LEMMA PdfAround ==
    ASSUME NEW lines, NEW r, NEW T, NEW pages, PdfAt(lines, r, T, T, pages),
           NEW i \in 2 .. Len(lines), NEW p \in 2 .. i - 1, Under(lines, i, p)
    PROVE  /\ 1 \in Around(lines, i) /\ p \in Around(lines, i)
           /\ \A j \in Around(lines, i) : lines[j].level < 3 => j = 1 \/ j = p
           /\ \A j \in Around(lines, i) : lines[j].page > 0 <=> j = p
<1>. DEFINE H == Headings(lines)
            n == Len(lines)
<1>1. /\ n \in Nat \ {0} /\ H \subseteq 1 .. n /\ \A j \in 1 .. n : j \in H <=> lines[j].kind = "heading"
      /\ 1 \in H /\ lines[1].level = 1
      /\ \A j \in H : /\ lines[j].level \in {1, 2, 3} /\ (lines[j].level = 1 <=> j = 1)
                      /\ lines[j].page > 0 <=> lines[j].level = 2
  <2>1. n \in Nat \ {0}
    BY DEF PdfAt
  <2>. QED  BY <2>1, PdfHeadings
<1>2. \A j : j \in Around(lines, i) <=>
                /\ j \in H /\ j < i
                /\ \A m \in H : m \in j + 1 .. i - 1 => lines[m].level > lines[j].level
    BY DEF Around
<1>. HIDE DEF H, n
<1>3. /\ p \in 1 .. n /\ p \in H /\ lines[p].level = 2 /\ p \in Int /\ i \in Int /\ p < i /\ 1 < i /\ 1 < p
      /\ \A m \in H : m \in p + 1 .. i - 1 => lines[m].level = 3
  <2>1. p \in 1 .. n /\ p \in Int /\ i \in Int /\ p < i /\ 1 < i /\ 1 < p /\ \A m \in p + 1 .. i - 1 : m \in 1 .. n
    BY <1>1 DEF n
  <2>2. lines[p].kind = "heading" /\ lines[p].level = 2
        /\ \A m \in p + 1 .. i - 1 : lines[m].kind = "heading" => lines[m].level = 3
    BY DEF Under
  <2>. QED  BY <1>1, <2>1, <2>2
<1>4. 1 \in Around(lines, i)
  <2>1. ASSUME NEW m \in H, m \in 1 + 1 .. i - 1 PROVE lines[m].level > lines[1].level
    <3>1. m # 1 /\ lines[m].level \in {2, 3}
      BY <1>1, <2>1
    <3>. QED  BY <1>1, <3>1
  <2>. QED  BY <1>1, <1>2, <1>3, <2>1
<1>5. p \in Around(lines, i)
  <2>1. \A m \in H : m \in p + 1 .. i - 1 => lines[m].level > lines[p].level
    BY <1>3
  <2>. QED  BY <1>2, <1>3, <2>1
<1>6. ASSUME NEW j \in Around(lines, i), lines[j].level < 3, j # 1 PROVE j = p
  <2>0. j \in H /\ j < i
    BY <1>2
  <2>1. j \in H /\ j < i /\ j \in Int /\ lines[j].level = 2
    <3>1. lines[j].level \in {1, 2, 3} /\ lines[j].level # 1 /\ j \in 1 .. n
      BY <1>1, <1>6, <2>0
    <3>. QED  BY <1>1, <1>6, <2>0, <3>1
  <2>2. ~(p \in j + 1 .. i - 1)
    BY <1>2, <1>3, <1>6, <2>1
  <2>3. ~(j \in p + 1 .. i - 1)
    BY <1>3, <2>1
  <2>. QED  BY <1>3, <2>1, <2>2, <2>3
<1>7. ASSUME NEW j \in Around(lines, i) PROVE lines[j].page > 0 <=> j = p
  <2>1. j \in H
    BY <1>2
  <2>2. CASE j = p
    BY <1>1, <1>3, <2>2
  <2>3. CASE j # p
    <3>1. lines[j].level # 2
      BY <1>1, <1>6, <2>1, <2>3
    <3>. QED  BY <1>1, <2>1, <2>3, <3>1
  <2>. QED  BY <2>2, <2>3
<1>. QED  BY <1>4, <1>5, <1>6, <1>7

(* No heading of a PDF skips a level. *)
LEMMA PdfRegular ==
    ASSUME NEW lines, NEW r, NEW T, NEW pages, PdfAt(lines, r, T, T, pages)
    PROVE  Regular(lines)
<1>. DEFINE n == Len(lines)
            H == Headings(lines)
<1>1. /\ n \in Nat \ {0} /\ LineList(lines) /\ H \subseteq 1 .. n
      /\ \A j \in 1 .. n : j \in H <=> lines[j].kind = "heading"
      /\ 1 \in H /\ lines[1].level = 1
      /\ \A j \in H : lines[j].level \in {1, 2, 3} /\ (lines[j].level = 1 <=> j = 1)
  <2>1. n \in Nat \ {0}
    BY DEF PdfAt
  <2>. QED  BY <2>1, PdfHeadings
<1>2. \A i, j : j \in Around(lines, i) <=>
                /\ j \in H /\ j < i
                /\ \A m \in H : m \in j + 1 .. i - 1 => lines[m].level > lines[j].level
    BY DEF Around
<1>. HIDE DEF n, H
<1>3. SUFFICES ASSUME NEW i \in H
               PROVE  Cardinality({j \in Around(lines, i) : lines[j].level < lines[i].level}) = lines[i].level - 1
    BY DEF Regular, H
<1>. DEFINE S == {j \in Around(lines, i) : lines[j].level < lines[i].level}
<1>4. CASE i = 1
  <2>1. S = {}
    <3>1. \A j \in H : ~(j < 1)
      BY <1>1
    <3>. QED  BY <1>2, <1>4, <3>1
  <2>2. Cardinality({}) = 0
    BY FS_EmptySet
  <2>. HIDE DEF S
  <2>3. Cardinality(S) = lines[i].level - 1
    BY <1>1, <1>4, <2>1, <2>2
  <2>. QED  BY <2>3 DEF S
<1>5. CASE i # 1
  <2>1. i \in 2 .. n /\ lines[i].kind = "heading" /\ lines[i].level \in {2, 3} /\ i \in Int
    BY <1>1, <1>5
  <2>2. CASE lines[i].level = 2
    <3>1. 1 \in S
      <4>1. ASSUME NEW m \in H, m \in 1 + 1 .. i - 1 PROVE lines[m].level > lines[1].level
        <5>1. m # 1 /\ lines[m].level \in {2, 3}
          BY <1>1, <4>1
        <5>. QED  BY <1>1, <5>1
      <4>2. 1 \in Around(lines, i)
        BY <1>1, <1>2, <2>1, <4>1
      <4>. QED  BY <1>1, <2>2, <4>2
    <3>2. \A j \in S : j = 1
      <4>. SUFFICES ASSUME NEW j \in S PROVE j = 1
        OBVIOUS
      <4>1. j \in H /\ lines[j].level < 2
        BY <1>2, <2>2
      <4>. QED  BY <1>1, <4>1
    <3>. HIDE DEF S
    <3>3. S = {1}
      BY <3>1, <3>2
    <3>4. Cardinality(S) = 1
      BY <3>3, FS_Singleton
    <3>5. Cardinality(S) = lines[i].level - 1
      BY <2>2, <3>4
    <3>. QED  BY <3>5 DEF S
  <2>3. CASE lines[i].level = 3
    <3>1. PICK p \in 2 .. i - 1 : Under(lines, i, p)
      <4>1. Placed(lines, i, T, pages)
        BY <2>1 DEF PdfAt, n
      <4>. QED  BY <2>1, <2>3, <4>1 DEF Placed
    <3>2. /\ 1 \in Around(lines, i) /\ p \in Around(lines, i)
          /\ \A j \in Around(lines, i) : lines[j].level < 3 => j = 1 \/ j = p
      BY <2>1, <3>1, PdfAround DEF n
    <3>3. lines[p].level = 2 /\ p # 1
      BY <3>1 DEF Under
    <3>4. S = {1} \cup {p}
      <4>1. \A j : j \in S <=> j \in Around(lines, i) /\ lines[j].level < 3
        BY <2>3
      <4>2. lines[1].level < 3 /\ lines[p].level < 3
        BY <1>1, <3>3
      <4>. HIDE DEF S
      <4>. QED  BY <3>2, <4>1, <4>2
    <3>5. Cardinality({1} \cup {p}) = 2
      <4>1. IsFiniteSet({1}) /\ Cardinality({1}) = 1 /\ p \notin {1}
        BY <3>3, FS_Singleton
      <4>. DEFINE one == {1}
      <4>. HIDE DEF one
      <4>2. Cardinality(one \cup {p}) = Cardinality(one) + 1
        BY <4>1, FS_AddElement DEF one
      <4>. QED  BY <4>1, <4>2 DEF one
    <3>. HIDE DEF S
    <3>6. Cardinality(S) = lines[i].level - 1
      BY <2>3, <3>4, <3>5
    <3>. QED  BY <3>6 DEF S
  <2>. QED  BY <2>1, <2>2, <2>3
<1>. QED  BY <1>4, <1>5

(* The page number of a section of a PDF is that of the page its text is on. *)
LEMMA PdfPageNumber ==
    ASSUME NEW lines, NEW r, NEW T, NEW pages, PdfAt(lines, r, T, T, pages),
           NEW i \in TextLines(lines), NEW path \in Seq(Nat), ToSet(path) = Around(lines, i)
    PROVE  PageNumber(lines, path) = Home(pages, lines[i].of)
<1>. DEFINE numbered == {k \in DOMAIN path : lines[path[k]].page > 0}
            x == Min(numbered)
<1>1. i \in 1 .. Len(lines) /\ lines[i].kind = "text" /\ Len(lines) \in Nat
    BY DEF TextLines, PdfAt
<1>2. i \in 2 .. Len(lines)
  <2>1. i # 1
    BY <1>1 DEF PdfAt
  <2>. QED  BY <1>1, <2>1
<1>3. PICK p \in 2 .. i - 1 : Under(lines, i, p) /\ lines[p].page = Home(pages, lines[i].of)
  <2>1. Placed(lines, i, T, pages)
    BY <1>2 DEF PdfAt
  <2>. QED  BY <1>1, <2>1 DEF Placed
<1>4. p \in Around(lines, i) /\ \A j \in Around(lines, i) : lines[j].page > 0 <=> j = p
    BY <1>2, <1>3, PdfAround
<1>5. \A k \in DOMAIN path : path[k] \in Around(lines, i)
    BY DEF ToSet
<1>6. \A k \in numbered : path[k] = p
    BY <1>4, <1>5
<1>7. numbered # {}
  <2>1. \E k \in DOMAIN path : path[k] = p
    BY <1>4 DEF ToSet
  <2>. QED  BY <1>4, <2>1
<1>8. numbered \in SUBSET Nat
  <2>1. DOMAIN path = 1 .. Len(path) /\ Len(path) \in Nat
    OBVIOUS
  <2>. QED  BY <2>1
<1>9. PageNumber(lines, path) = IF numbered = {} THEN 0 ELSE lines[path[Min(numbered)]].page
    BY DEF PageNumber
<1>. HIDE DEF numbered
<1>10. x \in numbered
    BY <1>7, <1>8, MinOf
<1>. HIDE DEF x
<1>11. PageNumber(lines, path) = lines[path[x]].page /\ path[x] = p
    BY <1>6, <1>7, <1>9, <1>10 DEF x
<1>. QED  BY <1>3, <1>11

(* What is in one of the sequences is in all of them behind another. *)
LEMMA FlattenHolds ==
    ASSUME NEW S, NEW n \in Nat, NEW F \in [1 .. n -> Seq(S)], NEW k \in 1 .. n, NEW x \in ToSet(F[k])
    PROVE  x \in ToSet(FlattenSeq(F))
<1>. DEFINE G == {m \in 0 .. n : k <= m => x \in ToSet(UpToLast(F, m))}
<1>1. /\ UpToLast(F, 0) = <<>> /\ UpToLast(F, n) = FlattenSeq(F)
      /\ \A m \in 0 .. n : UpToLast(F, m) \in Seq(S)
      /\ \A m \in 0 .. n - 1 : UpToLast(F, m + 1) = UpToLast(F, m) \o F[m + 1]
    BY FlattenNext
<1>2. 0 \in G
    OBVIOUS
<1>3. ASSUME NEW m \in 0 .. n - 1, m \in G PROVE m + 1 \in G
  <2>. SUFFICES ASSUME k <= m + 1 PROVE x \in ToSet(UpToLast(F, m + 1))
    OBVIOUS
  <2>. DEFINE a == UpToLast(F, m)
              b == F[m + 1]
  <2>1. a \in Seq(S) /\ b \in Seq(S) /\ UpToLast(F, m + 1) = a \o b
    <3>1. m \in 0 .. n /\ m + 1 \in 1 .. n
      OBVIOUS
    <3>. QED  BY <1>1, <3>1
  <2>2. x \in ToSet(a) \/ x \in ToSet(b)
    <3>1. k <= m \/ k = m + 1
      OBVIOUS
    <3>. QED  BY <1>3, <3>1
  <2>. HIDE DEF a, b
  <2>3. DOMAIN a = 1 .. Len(a) /\ DOMAIN b = 1 .. Len(b) /\ DOMAIN (a \o b) = 1 .. Len(a) + Len(b)
        /\ (\A i \in 1 .. Len(a) : (a \o b)[i] = a[i])
        /\ (\A i \in 1 .. Len(b) : (a \o b)[Len(a) + i] = b[i])
        /\ Len(a) \in Nat /\ Len(b) \in Nat
    BY <2>1
  <2>4. ASSUME x \in ToSet(a) PROVE x \in ToSet(a \o b)
    <3>1. PICK i \in 1 .. Len(a) : x = a[i]
      BY <2>3, <2>4 DEF ToSet
    <3>2. i \in 1 .. Len(a) + Len(b) /\ (a \o b)[i] = x
      BY <2>3, <3>1
    <3>. QED  BY <2>3, <3>2 DEF ToSet
  <2>5. ASSUME x \in ToSet(b) PROVE x \in ToSet(a \o b)
    <3>1. PICK i \in 1 .. Len(b) : x = b[i]
      BY <2>3, <2>5 DEF ToSet
    <3>2. Len(a) + i \in 1 .. Len(a) + Len(b) /\ (a \o b)[Len(a) + i] = x
      BY <2>3, <3>1
    <3>. QED  BY <2>3, <3>2 DEF ToSet
  <2>. QED  BY <2>1, <2>2, <2>4, <2>5
<1>4. n \in G
  <2>. HIDE DEF G
  <2>1. \A m \in 0 .. n - 1 : m \in G => m + 1 \in G
    BY <1>3
  <2>2. \A m \in 0 .. n : m \in G
    BY <1>2, <2>1, UpTo
  <2>. QED  BY <2>2
<1>. QED  BY <1>1, <1>4

(* Everything a PDF holds is in its sections once, and nothing else is. *)
LEMMA PdfOrigin ==
    ASSUME NEW lines, NEW r, NEW T, NEW pages, PdfAt(lines, r, T, T, pages),
           NEW x, x[1] \in {"text", "image", "scan"}
    PROVE  /\ Contains(Origin(lines), x) <=> x \in T
           /\ x \in T => Times(Origin(lines), x) = 1
<1>. DEFINE kept == KeptLines(lines)
            origin == Origin(lines)
            n == Len(lines)
            m == Len(kept)
<1>1. LineList(lines) /\ n \in Nat /\ DOMAIN lines = 1 .. n
      /\ Headings(lines) = (1 .. n) \ TextLines(lines) /\ TextLines(lines) \subseteq 1 .. n
    BY PdfHeadings DEF LineList, TextLines
<1>2. Sections(lines) \in Seq(Section)
    BY <1>1, SectionsOf
<1>3. kept \in Seq(Nat) /\ m \in Nat /\ DOMAIN kept = 1 .. m
  <2>1. kept \in Seq(Nat)
    BY <1>2, ContentsOf DEF KeptLines
  <2>. HIDE DEF kept
  <2>. QED  BY <2>1
<1>4. origin = [i \in 1 .. m |-> lines[kept[i]].of]
    BY <1>3 DEF Origin
<1>5. DOMAIN origin = 1 .. m /\ Len(origin) = m /\ \A i \in 1 .. m : origin[i] = lines[kept[i]].of
  <2>. DEFINE c(i) == lines[kept[i]].of
  <2>1. origin = [i \in 1 .. m |-> c(i)]
    BY <1>4
  <2>. HIDE DEF c, origin, m
  <2>2. DOMAIN origin = 1 .. m /\ Len(origin) = m /\ \A i \in 1 .. m : origin[i] = c(i)
    BY <1>3, <2>1
  <2>. QED  BY <2>2 DEF c
<1>6. T = {lines[i].of : i \in TextLines(lines)}
      /\ \A i, j \in TextLines(lines) : lines[i].of = lines[j].of => i = j
    BY DEF PdfAt
<1>7. CASE SectionsWell(Sections(lines), lines)
  <2>1. Lists(kept, TextLines(lines))
    <3>1. DOMAIN lines \ Headings(lines) = TextLines(lines)
      BY <1>1
    <3>. QED  BY <1>7, <3>1 DEF SectionsWell, KeptLines
  <2>. HIDE DEF kept, origin, m
  <2>2. TextLines(lines) = {kept[i] : i \in 1 .. m} /\ \A i, j \in 1 .. m : i < j => kept[i] < kept[j]
    BY <1>3, <2>1 DEF Lists, ToSet
  <2>3. ASSUME NEW i \in 1 .. m, NEW j \in 1 .. m, kept[i] = kept[j] PROVE i = j
    <3>1. kept[i] \in Nat /\ kept[j] \in Nat
      BY <1>3
    <3>. QED  BY <1>3, <2>2, <2>3, <3>1
  <2>4. T = {origin[i] : i \in 1 .. m}
    BY <1>5, <1>6, <2>2
  <2>5. Contains(origin, x) <=> x \in T
    BY <1>5, <2>4 DEF Contains
  <2>6. ASSUME x \in T PROVE Times(origin, x) = 1
    <3>1. PICK j \in 1 .. m : origin[j] = x
      BY <2>4, <2>6
    <3>2. ASSUME NEW i \in 1 .. m, origin[i] = x PROVE i = j
      <4>1. kept[i] \in TextLines(lines) /\ kept[j] \in TextLines(lines)
            /\ lines[kept[i]].of = lines[kept[j]].of
        BY <1>5, <2>2, <3>1, <3>2
      <4>. QED  BY <1>6, <2>3, <4>1
    <3>. DEFINE U == {i \in DOMAIN origin : origin[i] = x}
    <3>3. U = {j}
      BY <1>5, <3>1, <3>2
    <3>. HIDE DEF U
    <3>4. Cardinality(U) = 1
      BY <3>3, FS_Singleton
    <3>. QED  BY <3>4 DEF U, Times
  <2>. QED  BY <2>5, <2>6 DEF origin
<1>8. CASE /\ Headings(lines) = DOMAIN lines
           /\ Sections(lines) = <<[path |-> <<>>, content |-> [i \in 1 .. Len(lines) |-> i]]>>
  <2>. DEFINE all == [i \in 1 .. n |-> i]
  <2>1. TextLines(lines) = {}
    BY <1>1, <1>8
  <2>2. T = {}
    BY <1>6, <2>1
  <2>3. kept = all
    <3>1. all \in Seq(Nat)
      BY <1>1
    <3>. HIDE DEF all
    <3>2. Contents(<<[path |-> <<>>, content |-> all]>>) = <<all>>
      BY DEF Contents
    <3>3. FlattenSeq(Append(<<>>, all)) = FlattenSeq(<<>>) \o all
      <4>1. <<>> \in Seq(Seq(Nat))
        OBVIOUS
      <4>. QED  BY <3>1, <4>1, FlattenMore
    <3>4. Append(<<>>, all) = <<all>> /\ <<>> \o all = all
      BY <3>1
    <3>5. FlattenSeq(<<>>) = <<>>
      BY FlattenMore
    <3>. QED  BY <1>8, <3>2, <3>3, <3>4, <3>5 DEF KeptLines, all
  <2>4. m = n /\ \A i \in 1 .. m : kept[i] = i
    BY <1>1, <2>3
  <2>. HIDE DEF kept, origin, m
  <2>5. ASSUME NEW i \in 1 .. m PROVE origin[i] # x
    <3>1. origin[i] = lines[i].of /\ lines[i].kind # "text"
      BY <1>5, <2>1, <2>4 DEF TextLines
    <3>2. lines[i].of[1] \in {"name", "page"}
      <4>1. CASE i = 1
        BY <4>1 DEF PdfAt
      <4>2. CASE i # 1
        <5>1. i \in 2 .. Len(lines)
          BY <1>1, <2>4, <4>2
        <5>2. Placed(lines, i, T, pages)
          BY <5>1 DEF PdfAt
        <5>. QED  BY <2>2, <3>1, <5>2 DEF Placed
      <4>. QED  BY <4>1, <4>2
    <3>. QED  BY <3>1, <3>2
  <2>6. ~Contains(origin, x)
    BY <1>5, <2>5 DEF Contains
  <2>. QED  BY <2>2, <2>6 DEF origin
<1>. QED  BY <1>1, <1>7, <1>8, SectionsOf

(* Every text in a section of a PDF is on the page of the section. *)
LEMMA PdfSections ==
    ASSUME NEW lines, NEW r, NEW T, NEW pages, PdfAt(lines, r, T, T, pages),
           NEW k \in DOMAIN Sections(lines), NEW i \in ToSet(Sections(lines)[k].content), lines[i].kind = "text"
    PROVE  PageNumber(lines, Sections(lines)[k].path) = Home(pages, lines[i].of)
<1>. DEFINE sections == Sections(lines)
            cc == Contents(sections)
            n == Len(lines)
<1>1. LineList(lines) /\ n \in Nat /\ DOMAIN lines = 1 .. n
      /\ Headings(lines) = (1 .. n) \ TextLines(lines) /\ TextLines(lines) \subseteq 1 .. n
    BY PdfHeadings DEF LineList, TextLines
<1>2. sections \in Seq(Section) /\ DOMAIN sections = 1 .. Len(sections) /\ Len(sections) \in Nat
  <2>1. sections \in Seq(Section)
    BY <1>1, SectionsOf
  <2>. HIDE DEF sections
  <2>. QED  BY <2>1
<1>3. CASE SectionsWell(sections, lines)
  <2>. HIDE DEF sections
  <2>1. cc \in Seq(Seq(Nat)) /\ cc = [j \in 1 .. Len(sections) |-> sections[j].content]
    BY <1>2, ContentsOf DEF Contents
  <2>2. i \in ToSet(cc[k]) /\ k \in 1 .. Len(sections)
    BY <1>2, <2>1 DEF sections
  <2>3. cc \in [1 .. Len(sections) -> Seq(Nat)]
    <3>1. \A j \in 1 .. Len(sections) : sections[j].content \in Seq(Nat)
      <4>1. \A j \in 1 .. Len(sections) : sections[j] \in Section
        BY <1>2, ElementOfSeq
      <4>. QED  BY <4>1 DEF Section
    <3>. QED  BY <2>1, <3>1
  <2>. HIDE DEF cc
  <2>4. i \in ToSet(FlattenSeq(cc))
    BY <1>2, <2>2, <2>3, FlattenHolds
  <2>5. i \in TextLines(lines)
    <3>1. ToSet(FlattenSeq(cc)) = DOMAIN lines \ Headings(lines)
      BY <1>3 DEF SectionsWell, Lists, cc
    <3>. QED  BY <1>1, <2>4, <3>1
  <2>6. ToSet(sections[k].path) = Around(lines, i)
    BY <1>3, PdfRegular DEF SectionsWell, sections
  <2>7. sections[k].path \in Seq(Nat)
    <3>1. sections[k] \in Section
      BY <1>2, <2>2, ElementOfSeq
    <3>. QED  BY <3>1 DEF Section
  <2>. QED  BY <2>5, <2>6, <2>7, PdfPageNumber DEF sections
<1>4. CASE /\ Headings(lines) = DOMAIN lines
           /\ sections = <<[path |-> <<>>, content |-> [j \in 1 .. Len(lines) |-> j]]>>
  <2>1. TextLines(lines) = {}
    BY <1>1, <1>4
  <2>2. k = 1
    <3>. HIDE DEF sections
    <3>1. DOMAIN sections = {1}
      BY <1>4
    <3>. QED  BY <3>1 DEF sections
  <2>3. i \in 1 .. n
    <3>1. sections[k].content = [j \in 1 .. n |-> j]
      <4>. HIDE DEF sections
      <4>. QED  BY <1>4, <2>2
    <3>. QED  BY <3>1 DEF ToSet
  <2>4. i \in TextLines(lines)
    BY <2>3 DEF TextLines
  <2>. QED  BY <2>1, <2>4
<1>. QED  BY <1>1, <1>3, <1>4, SectionsOf

(* What SectionsEnclose says of the sections of lines that are not all
   headings.                                                               *)
LEMMA SectionsAreSound ==
    ASSUME NEW lines, LineList(lines), Headings(lines) # DOMAIN lines
    PROVE  SectionsWell(Sections(lines), lines)
BY SectionsOf

(* The same in terms of the lemmas. *)
LEMMA PdfInOtherWords ==
    ASSUME NEW lines, NEW pages, NEW legible,
           \A k \in DOMAIN Sections(lines) : \A i \in ToSet(Sections(lines)[k].content) :
               lines[i].kind = "text" =>
                   PageNumber(lines, Sections(lines)[k].path) = Home(pages, lines[i].of),
           \A d \in legible \cap UNION {ToSet(pages[r].images) : r \in DOMAIN pages} :
               Cardinality({i \in DOMAIN Origin(lines) : Origin(lines)[i] = <<"image", d>>}) = 1,
           \A r \in DOMAIN pages :
               /\ pages[r].text <=> Contains(Origin(lines), <<"text", r>>)
               /\ Contains(Origin(lines), <<"scan", r>>) =>
                     ~pages[r].text /\ \A d \in legible : HomePage(pages, d) # r
    PROVE  PdfWell(lines, pages, legible)
<1>. DEFINE sections == Sections(lines)
<1>1. KeptLines(lines) = FlattenSeq([k \in DOMAIN sections |-> sections[k].content])
    BY DEF KeptLines, Contents
<1>2. Origin(lines) = [i \in DOMAIN KeptLines(lines) |-> lines[KeptLines(lines)[i]].of]
    BY DEF Origin
<1>3. \A of : Home(pages, of) = (IF of[1] = "image" THEN HomePage(pages, of[2]) ELSE of[2])
    BY DEF Home
<1>4. \A d : <<"image", d>>[1] = "image" /\ <<"image", d>>[2] = d
    OBVIOUS
<1>. DEFINE kept == FlattenSeq([k \in DOMAIN sections |-> sections[k].content])
            origin == [i \in DOMAIN kept |-> lines[kept[i]].of]
            home(of) == IF of[1] = "image" THEN HomePage(pages, of[2]) ELSE of[2]
<1>5. origin = Origin(lines)
    BY <1>1, <1>2
<1>6. \A d : home(<<"image", d>>) = HomePage(pages, d)
    BY <1>4
<1>7. \A k \in DOMAIN sections : \A i \in ToSet(sections[k].content) :
         lines[i].kind = "text" => PageNumber(lines, sections[k].path) = home(lines[i].of)
    BY <1>3
<1>. HIDE DEF sections, origin, home
<1>8. /\ \A d \in legible \cap UNION {ToSet(pages[r].images) : r \in DOMAIN pages} :
            Cardinality({i \in DOMAIN origin : origin[i] = <<"image", d>>}) = 1
      /\ \A r \in DOMAIN pages :
            /\ pages[r].text <=> Contains(origin, <<"text", r>>)
            /\ Contains(origin, <<"scan", r>>) =>
                  ~pages[r].text /\ \A d \in legible : home(<<"image", d>>) # r
    BY <1>5, <1>6, Zenon
<1>. QED  BY <1>7, <1>8, Zenon DEF PdfWell, sections, kept, origin, home

(* The chunks of a PDF carry the page they are of, every text and legible
   image once, and a rendering only of a page nothing else is read from.   *)
LEMMA PdfIsSound ==
    ASSUME NEW pages \in Seq(PageType), NEW legible, NEW scannable
    PROVE  PdfWell(ConvertPdf(pages, 0, legible, scannable), pages, legible)
<1>. DEFINE lines == ConvertPdf(pages, 0, legible, scannable)
            n == Len(pages)
            on(r) == PartsOn(pages, legible, scannable, r)
            T == PartsUpTo(pages, legible, scannable, n)
            origin == Origin(lines)
<1>1. PdfAt(lines, n, T, T, pages)
    BY ConvertOf
<1>2. n \in Nat /\ DOMAIN pages = 1 .. n
    OBVIOUS
<1>3. \A x : x \in T <=> \E r \in 1 .. n : x \in on(r)
    BY DEF PartsUpTo
<1>4. ASSUME NEW x, x[1] \in {"text", "image", "scan"}
      PROVE  /\ Contains(origin, x) <=> x \in T
             /\ x \in T => Times(origin, x) = 1
  <2>. HIDE DEF lines, T, n
  <2>. QED  BY <1>1, <1>4, PdfOrigin
<1>5. \A k \in DOMAIN Sections(lines) : \A i \in ToSet(Sections(lines)[k].content) :
          lines[i].kind = "text" => PageNumber(lines, Sections(lines)[k].path) = Home(pages, lines[i].of)
  <2>. HIDE DEF lines, T, n
  <2>. QED  BY <1>1, PdfSections
<1>6. \A r \in 1 .. n : \A x : x \in on(r) <=>
              \/ x = <<"text", r>> /\ pages[r].text
              \/ \E d \in legible : x = <<"image", d>> /\ d \in ToSet(pages[r].images) /\ HomePage(pages, d) = r
              \/ x = <<"scan", r>> /\ ScanOn(pages, legible, scannable, r)
  <2>. QED  BY PartsOf
<1>. HIDE DEF lines, T, on, origin
<1>7. ASSUME NEW d \in legible, NEW q \in 1 .. n, d \in ToSet(pages[q].images)
      PROVE  /\ HomePage(pages, d) \in 1 .. n
             /\ d \in ToSet(pages[HomePage(pages, d)].images)
  <2>1. HomePage(pages, d) \in 1 .. n + 1 /\ HomePage(pages, d) <= q
        /\ (HomePage(pages, d) <= n => d \in ToSet(pages[HomePage(pages, d)].images))
    BY <1>2, <1>7, HomeOf
  <2>. HIDE DEF n
  <2>2. HomePage(pages, d) <= n /\ HomePage(pages, d) \in 1 .. n
    BY <1>2, <2>1
  <2>. QED  BY <2>1, <2>2
<1>8. ASSUME NEW d \in legible \cap UNION {ToSet(pages[r].images) : r \in DOMAIN pages}
      PROVE  Cardinality({i \in DOMAIN origin : origin[i] = <<"image", d>>}) = 1
  <2>. DEFINE x == <<"image", d>>
  <2>1. PICK q \in 1 .. n : d \in ToSet(pages[q].images)
    BY <1>2
  <2>2. HomePage(pages, d) \in 1 .. n /\ d \in ToSet(pages[HomePage(pages, d)].images)
    BY <1>7, <2>1
  <2>3. x \in on(HomePage(pages, d))
    BY <1>6, <2>2
  <2>4. x \in T
    BY <1>3, <2>2, <2>3
  <2>5. x[1] \in {"text", "image", "scan"}
    OBVIOUS
  <2>. HIDE DEF x
  <2>6. Times(origin, x) = 1
    BY <1>4, <2>4, <2>5
  <2>. QED  BY <2>6 DEF Times, x
<1>9. ASSUME NEW r \in 1 .. n
      PROVE  /\ pages[r].text <=> Contains(origin, <<"text", r>>)
             /\ Contains(origin, <<"scan", r>>) =>
                   ~pages[r].text /\ \A d \in legible : HomePage(pages, d) # r
  <2>. DEFINE t == <<"text", r>>
              s == <<"scan", r>>
  <2>1. pages[r].text \in BOOLEAN
    <3>1. pages[r] \in PageType
      BY ElementOfSeq
    <3>. QED  BY <3>1 DEF PageType
  <2>2. Contains(origin, t) <=> t \in T
    <3>1. t[1] \in {"text", "image", "scan"}
      OBVIOUS
    <3>. HIDE DEF t
    <3>. QED  BY <1>4, <3>1
  <2>3. Contains(origin, s) <=> s \in T
    <3>1. s[1] \in {"text", "image", "scan"}
      OBVIOUS
    <3>. HIDE DEF s
    <3>. QED  BY <1>4, <3>1
  <2>4. t \in T <=> pages[r].text
    <3>1. ASSUME pages[r].text PROVE t \in T
      <4>1. t \in on(r)
        BY <1>6, <3>1
      <4>. QED  BY <1>3, <4>1
    <3>2. ASSUME t \in T PROVE pages[r].text
      <4>1. PICK q \in 1 .. n : t \in on(q)
        BY <1>3, <3>2
      <4>2. t = <<"text", q>> /\ pages[q].text
        BY <1>6, <4>1
      <4>. QED  BY <4>2
    <3>. QED  BY <2>1, <3>1, <3>2
  <2>5. ASSUME s \in T PROVE ScanOn(pages, legible, scannable, r)
    <3>1. PICK q \in 1 .. n : s \in on(q)
      BY <1>3, <2>5
    <3>2. s = <<"scan", q>> /\ ScanOn(pages, legible, scannable, q)
      BY <1>6, <3>1
    <3>3. q = r
      BY <3>2
    <3>. QED  BY <3>2, <3>3
  <2>6. ASSUME ScanOn(pages, legible, scannable, r), NEW d \in legible PROVE HomePage(pages, d) # r
    <3>. DEFINE shown == ShownOn(pages, legible, r)
    <3>. SUFFICES ASSUME HomePage(pages, d) = r PROVE FALSE
      OBVIOUS
    <3>1. shown = <<>>
      BY <2>6 DEF ScanOn
    <3>2. HomePage(pages, d) <= n => d \in ToSet(pages[HomePage(pages, d)].images)
      BY <1>2, HomeOf
    <3>3. r <= n
      BY <1>2
    <3>4. d \in ToSet(pages[r].images)
      BY <3>2, <3>3
    <3>5. d \in ToSet(shown)
      BY <3>4, ShownOf
    <3>6. ToSet(<<>>) = {}
      BY DEF ToSet
    <3>. HIDE DEF shown
    <3>. QED  BY <3>1, <3>5, <3>6
  <2>7. ScanOn(pages, legible, scannable, r) => ~pages[r].text
    BY DEF ScanOn
  <2>. HIDE DEF t, s
  <2>. QED  BY <2>1, <2>2, <2>3, <2>4, <2>5, <2>6, <2>7 DEF t, s
<1>10. PdfWell(lines, pages, legible)
    BY <1>2, <1>5, <1>8, <1>9, PdfInOtherWords DEF origin
<1>. QED  BY <1>10 DEF lines

-----------------------------------------------------------------------------
(* Splitting. *)

(* How many characters, ideographs and tokens a stretch has. *)
LEMMA TokensOf ==
    ASSUME NEW s \in Passage
    PROVE  /\ Chars(s) \in Nat /\ Ideographs(s) \in 0 .. Chars(s) /\ ApproxTokens(s) \in 0 .. Chars(s)
           /\ Ideographs(s) = 0 => ApproxTokens(s) = (Chars(s) + 3) \div 4
<1>. DEFINE I == {i \in s.from .. s.to - 1 : i < s.cjk}
            n == Chars(s)
            k == Cardinality(I)
<1>1. s.from \in Nat /\ s.to \in Nat /\ s.from <= s.to
    BY DEF Passage, StretchType
<1>2. n \in Nat /\ n = s.to - s.from
    BY <1>1 DEF Chars
<1>3. IsFiniteSet(s.from .. s.to - 1) /\ Cardinality(s.from .. s.to - 1) = n
  <2>. DEFINE a == s.from
              b == s.to - 1
  <2>1. a \in Int /\ b \in Int /\ a <= b + 1 /\ n = b - a + 1
    BY <1>1, <1>2
  <2>. HIDE DEF a, b, n
  <2>2. IsFiniteSet(a .. b) /\ Cardinality(a .. b) = IF a > b THEN 0 ELSE b - a + 1
    BY <2>1, FS_Interval
  <2>3. IsFiniteSet(a .. b) /\ Cardinality(a .. b) = n
    BY <2>1, <2>2
  <2>. QED  BY <2>3 DEF a, b
<1>4. k \in 0 .. n
  <2>1. I \in SUBSET (s.from .. s.to - 1)
    OBVIOUS
  <2>. HIDE DEF I, n
  <2>2. IsFiniteSet(I) /\ Cardinality(I) <= n
    BY <1>3, <2>1, FS_Subset
  <2>3. Cardinality(I) \in Nat
    BY <2>2, FS_CardinalityType
  <2>. QED  BY <1>2, <2>2, <2>3
<1>5. Ideographs(s) = k
    BY DEF Ideographs
<1>6. ApproxTokens(s) = k + (n - k + 3) \div 4
    BY <1>5 DEF ApproxTokens
<1>. HIDE DEF k, n
<1>7. k + (n - k + 3) \div 4 \in 0 .. n
  <2>1. PICK m \in Nat : m = n - k
    BY <1>2, <1>4
  <2>2. (m + 3) \div 4 \in Nat /\ (m + 3) \div 4 <= m
    OBVIOUS
  <2>. QED  BY <1>2, <1>4, <2>1, <2>2
<1>8. k = 0 => ApproxTokens(s) = (n + 3) \div 4
    BY <1>2, <1>6
<1>. QED  BY <1>2, <1>4, <1>5, <1>6, <1>7, <1>8 DEF n

(* A window of a uniform stretch keeps to its tokens. *)
LEMMA CutFits ==
    ASSUME NEW s \in Passage, Uniform(s), NEW size \in Nat \ {0}, NEW p,
           IsCut(p, s, Max({1, Window(s, size)}))
    PROVE  ApproxTokens(p) <= size
<1>1. /\ Chars(p) \in Nat /\ Ideographs(p) \in 0 .. Chars(p) /\ ApproxTokens(p) \in 0 .. Chars(p)
      /\ Ideographs(p) = 0 => ApproxTokens(p) = (Chars(p) + 3) \div 4
    BY TokensOf DEF IsCut
<1>2. Window(s, size) \in Nat \ {0}
    BY DEF Window
<1>3. Chars(p) <= Window(s, size)
  <2>. DEFINE w == Window(s, size)
  <2>1. Max({1, w}) = w
    <3>1. w \in Int /\ 1 \in Int /\ 1 <= w
      BY <1>2
    <3>. HIDE DEF w
    <3>. QED  BY <3>1, MinOfTwo
  <2>. QED  BY <2>1 DEF IsCut, Chars
<1>4. CASE 10 * Ideographs(s) >= 3 * Chars(s)
    BY <1>1, <1>3, <1>4 DEF Window
<1>5. CASE ~(10 * Ideographs(s) >= 3 * Chars(s))
  <2>1. Ideographs(s) = 0
    BY <1>5 DEF Uniform
  <2>2. Ideographs(p) = 0
    <3>. DEFINE I == {i \in s.from .. s.to - 1 : i < s.cjk}
                J == {i \in p.from .. p.to - 1 : i < p.cjk}
    <3>1. J \subseteq I
      BY DEF IsCut, Passage, StretchType
    <3>2. IsFiniteSet(I)
      <4>1. s.from \in Int /\ s.to - 1 \in Int
        BY DEF Passage, StretchType
      <4>2. IsFiniteSet(s.from .. s.to - 1)
        BY <4>1, FS_Interval
      <4>. QED  BY <4>2, FS_Subset
    <3>3. I = {}
      <4>1. Cardinality(I) = 0
        BY <2>1 DEF Ideographs
      <4>. HIDE DEF I
      <4>. QED  BY <3>2, <4>1, FS_EmptySet
    <3>4. J = {}
      BY <3>1, <3>3
    <3>5. Ideographs(p) = Cardinality(J)
      BY DEF Ideographs
    <3>. HIDE DEF I, J
    <3>. QED  BY <3>4, <3>5, FS_EmptySet
  <2>3. Chars(p) <= (7 * size) \div 2
    BY <1>3, <1>5 DEF Window
  <2>4. ApproxTokens(p) = (Chars(p) + 3) \div 4
    BY <1>1, <2>2
  <2>5. PICK c \in Nat : c = Chars(p)
    BY <1>1
  <2>6. c <= (7 * size) \div 2 => (c + 3) \div 4 <= size
    OBVIOUS
  <2>. QED  BY <2>3, <2>4, <2>5, <2>6
<1>. QED  BY <1>4, <1>5

(* Where a window ends and the next one starts. *)
LEMMA CutStep ==
    ASSUME NEW s \in Passage, NEW window \in Nat \ {0}, NEW back \in 0 .. window - 1,
           NEW start \in s.from .. s.to
    PROVE  LET end == CutEnd(s, window, start)
               next == CutNext(s, window, back, start)
           IN  /\ end \in start .. s.to /\ end - start <= window
               /\ IsCut(CutPart(s, window, start), s, window)
               /\ CutPart(s, window, start).from = start /\ CutPart(s, window, start).to = end
               /\ end # s.to => next \in start + 1 .. s.to /\ next <= end /\ end - next <= back
<1>. DEFINE end == CutEnd(s, window, start)
            next == CutNext(s, window, back, start)
<1>1. s.from \in Nat /\ s.to \in Nat /\ s.from <= s.to /\ start \in Nat /\ start + window \in Int
      /\ s.cjk \in Nat /\ s.id \in Ids
    BY DEF Passage, StretchType
<1>2. end = IF s.to <= start + window THEN s.to ELSE start + window
    BY <1>1, MinOfTwo DEF CutEnd
<1>3. end \in start .. s.to /\ end - start <= window /\ end \in Nat
    BY <1>1, <1>2
<1>4. next = IF start + 1 <= end - back THEN end - back ELSE start + 1
  <2>1. start + 1 \in Int /\ end - back \in Int
    BY <1>1, <1>3
  <2>. HIDE DEF end
  <2>. QED  BY <2>1, MinOfTwo DEF CutNext, end
<1>5. end # s.to => next \in start + 1 .. s.to /\ next <= end /\ end - next <= back
    BY <1>1, <1>2, <1>4
<1>6. /\ IsCut(CutPart(s, window, start), s, window)
      /\ CutPart(s, window, start).from = start /\ CutPart(s, window, start).to = end
  <2>. HIDE DEF end
  <2>. DEFINE p == CutPart(s, window, start)
  <2>1. p = [id |-> s.id, from |-> start, to |-> end, cjk |-> s.cjk]
    BY DEF CutPart, Stretch, end
  <2>. HIDE DEF p
  <2>2. p.id = s.id /\ p.from = start /\ p.to = end /\ p.cjk = s.cjk
    BY <2>1
  <2>3. p \in StretchType
    BY <1>1, <1>3, <2>1 DEF StretchType
  <2>4. p \in Passage
    BY <1>1, <1>3, <2>2, <2>3 DEF Passage
  <2>5. IsCut(p, s, window)
    BY <1>1, <1>3, <2>2, <2>4 DEF IsCut
  <2>. QED  BY <2>2, <2>5 DEF p
<1>. QED  BY <1>3, <1>5, <1>6

(* Windows can be found from any position on, *)
LEMMA CutsExist ==
    ASSUME NEW s \in Passage, NEW window \in Nat \ {0}, NEW back \in 0 .. window - 1
    PROVE  \E f : f = [start \in s.from .. s.to |-> CutFrom(f, s, window, back, start)]
<1>. DEFINE n == s.to - s.from
            Found(f, k) == \A start \in s.to - k .. s.to : f[start] = CutFrom(f, s, window, back, start)
            T == {k \in 0 .. n : \E f : Found(f, k)}
<1>1. s.from \in Nat /\ s.to \in Nat /\ s.from <= s.to /\ n \in Nat
    BY DEF Passage, StretchType
<1>2. 0 \in T
  <2>. DEFINE f == [start \in {s.to} |-> <<CutPart(s, window, s.to)>>]
  <2>1. CutEnd(s, window, s.to) = s.to
    <3>1. s.to \in s.from .. s.to
      BY <1>1
    <3>2. CutEnd(s, window, s.to) \in s.to .. s.to
      BY <3>1, CutStep
    <3>. QED  BY <3>2
  <2>2. f[s.to] = CutFrom(f, s, window, back, s.to)
    BY <2>1 DEF CutFrom
  <2>3. \A start \in s.to - 0 .. s.to : start = s.to
    BY <1>1
  <2>. HIDE DEF f
  <2>4. Found(f, 0)
    BY <2>2, <2>3
  <2>. HIDE DEF Found
  <2>. QED  BY <1>1, <2>4
<1>3. ASSUME NEW k \in 0 .. n - 1, k \in T
      PROVE  k + 1 \in T
  <2>1. PICK f : Found(f, k)
    BY <1>3
  <2>. DEFINE first == s.to - (k + 1)
              g == [start \in first .. s.to |-> IF start = first THEN CutFrom(f, s, window, back, first) ELSE f[start]]
  <2>2. first \in s.from .. s.to /\ first \in Nat /\ first + 1 = s.to - k
    BY <1>1
  <2>. HIDE DEF first
  <2>3. \A start \in first + 1 .. s.to : g[start] = f[start]
    BY <1>1, <2>2
  <2>4. ASSUME NEW start \in first .. s.to
        PROVE  CutFrom(g, s, window, back, start) = CutFrom(f, s, window, back, start)
    <3>1. start \in s.from .. s.to
      BY <1>1, <2>2
    <3>. DEFINE next == CutNext(s, window, back, start)
    <3>2. CutEnd(s, window, start) # s.to => next \in start + 1 .. s.to
      BY <3>1, CutStep
    <3>3. CutEnd(s, window, start) # s.to => g[next] = f[next]
      <4>. HIDE DEF next, g
      <4>1. start + 1 >= first + 1
        BY <1>1, <2>2, <3>1
      <4>. QED  BY <1>1, <2>2, <2>3, <3>1, <3>2, <4>1
    <3>. QED  BY <3>3 DEF CutFrom
  <2>5. ASSUME NEW start \in first .. s.to
        PROVE  g[start] = CutFrom(g, s, window, back, start)
    <3>1. CASE start = first
      BY <2>4, <3>1
    <3>2. CASE start # first
      <4>1. start \in first + 1 .. s.to /\ start \in s.to - k .. s.to
        BY <1>1, <2>2, <3>2
      <4>. HIDE DEF g
      <4>2. f[start] = CutFrom(f, s, window, back, start)
        BY <2>1, <4>1
      <4>. QED  BY <2>3, <2>4, <4>1, <4>2
    <3>. QED  BY <3>1, <3>2
  <2>. HIDE DEF g
  <2>6. Found(g, k + 1)
    BY <2>5 DEF first
  <2>. HIDE DEF Found
  <2>7. k + 1 \in 0 .. n
    BY <1>1
  <2>. QED  BY <2>6, <2>7
<1>4. PICK f : Found(f, n)
  <2>. HIDE DEF T, n
  <2>1. \A k \in 0 .. n - 1 : k \in T => k + 1 \in T
    BY <1>3
  <2>2. n \in T
    <3>1. \A k \in 0 .. n : k \in T
      BY <1>1, <1>2, <2>1, UpTo
    <3>. QED  BY <1>1, <3>1
  <2>. QED  BY <2>2 DEF T
<1>. DEFINE g == [start \in s.from .. s.to |-> f[start]]
<1>5. s.to - n = s.from
    BY <1>1
<1>6. ASSUME NEW start \in s.from .. s.to
      PROVE  g[start] = CutFrom(g, s, window, back, start)
  <2>1. f[start] = CutFrom(f, s, window, back, start)
    BY <1>4, <1>5
  <2>. DEFINE next == CutNext(s, window, back, start)
  <2>2. CutEnd(s, window, start) # s.to => next \in start + 1 .. s.to
    BY CutStep
  <2>3. CutEnd(s, window, start) # s.to => g[next] = f[next]
    <3>. HIDE DEF next
    <3>. QED  BY <1>1, <2>2
  <2>4. g[start] = f[start]
    OBVIOUS
  <2>. HIDE DEF g
  <2>. QED  BY <2>1, <2>3, <2>4 DEF CutFrom
<1>7. g = [start \in s.from .. s.to |-> CutFrom(g, s, window, back, start)]
  <2>1. g = [start \in s.from .. s.to |-> g[start]]
    OBVIOUS
  <2>. HIDE DEF g
  <2>. QED  BY <1>6, <2>1
<1>. QED  BY <1>7

(* and a window before such windows is one of them. *)
LEMMA CutBefore ==
    ASSUME NEW s \in Passage, NEW window \in Nat \ {0}, NEW back \in 0 .. window - 1,
           NEW start \in s.from .. s.to, CutEnd(s, window, start) # s.to,
           NEW q, CutRight(q, s, window, back, CutNext(s, window, back, start))
    PROVE  CutRight(<<CutPart(s, window, start)>> \o q, s, window, back, start)
<1>. DEFINE x == CutPart(s, window, start)
            end == CutEnd(s, window, start)
            next == CutNext(s, window, back, start)
            r == <<x>> \o q
            n == Len(q)
<1>1. s.to \in Nat /\ start \in Nat /\ s.from \in Nat
    BY DEF Passage, StretchType
<1>2. end \in start .. s.to /\ IsCut(x, s, window) /\ x.from = start /\ x.to = end
      /\ next \in start + 1 .. s.to /\ next <= end /\ end - next <= back
    BY CutStep
<1>. HIDE DEF x, end, next
<1>3. /\ q \in Seq(Passage) /\ n > 0 /\ q[1].from = next /\ q[n].to = s.to
      /\ \A k \in 1 .. n : IsCut(q[k], s, window)
      /\ \A k \in 1 .. n - 1 : /\ q[k].from < q[k + 1].from /\ q[k + 1].from <= q[k].to
                               /\ q[k].to - q[k + 1].from <= back
      /\ \A i \in next .. s.to - 1 : \E k \in 1 .. n : i \in q[k].from .. q[k].to - 1
    BY DEF CutRight, next
<1>4. n \in Nat \ {0} /\ x \in Passage
    BY <1>2, <1>3 DEF IsCut
<1>5. r \in Seq(Passage) /\ Len(r) = n + 1 /\ r[1] = x /\ \A k \in 1 .. n : r[k + 1] = q[k]
    BY <1>3, <1>4
<1>. HIDE DEF r, n
<1>6. \A k \in 2 .. n + 1 : k - 1 \in 1 .. n /\ r[k] = q[k - 1]
  <2>. SUFFICES ASSUME NEW k \in 2 .. n + 1 PROVE k - 1 \in 1 .. n /\ r[k] = q[k - 1]
    OBVIOUS
  <2>1. k - 1 \in 1 .. n /\ (k - 1) + 1 = k
    BY <1>4
  <2>. QED  BY <1>5, <2>1
<1>7. r[n + 1].to = s.to
  <2>1. n \in 1 .. n
    BY <1>4
  <2>. QED  BY <1>3, <1>5, <2>1
<1>8. \A k \in 1 .. n + 1 : IsCut(r[k], s, window)
  <2>1. \A k \in 1 .. n + 1 : k = 1 \/ k \in 2 .. n + 1
    BY <1>4
  <2>. QED  BY <1>2, <1>3, <1>5, <1>6, <2>1
<1>9. ASSUME NEW k \in 1 .. n
      PROVE  r[k].from < r[k + 1].from /\ r[k + 1].from <= r[k].to /\ r[k].to - r[k + 1].from <= back
  <2>1. CASE k = 1
    <3>1. r[k] = x /\ r[k + 1] = q[1] /\ q[1].from = next
      BY <1>3, <1>5, <2>1
    <3>2. start < next
      BY <1>1, <1>2
    <3>. QED  BY <1>2, <3>1, <3>2
  <2>2. CASE k # 1
    <3>1. k - 1 \in 1 .. n - 1 /\ (k - 1) + 1 = k /\ r[k] = q[k - 1] /\ r[k + 1] = q[k]
      BY <1>4, <1>5, <1>6, <2>2
    <3>. QED  BY <1>3, <3>1
  <2>. QED  BY <2>1, <2>2
<1>10. ASSUME NEW i \in start .. s.to - 1
       PROVE  \E k \in 1 .. n + 1 : i \in r[k].from .. r[k].to - 1
  <2>1. CASE i < next
    <3>1. i \in start .. end - 1 /\ 1 \in 1 .. n + 1
      BY <1>1, <1>2, <1>4, <2>1
    <3>. QED  BY <1>2, <1>5, <3>1
  <2>2. CASE ~(i < next)
    <3>1. i \in next .. s.to - 1
      BY <1>1, <1>2, <2>2
    <3>2. PICK k \in 1 .. n : i \in q[k].from .. q[k].to - 1
      BY <1>3, <3>1
    <3>3. k + 1 \in 1 .. n + 1
      BY <1>4
    <3>. QED  BY <1>5, <3>2, <3>3
  <2>. QED  BY <2>1, <2>2
<1>11. CutRight(r, s, window, back, start)
  <2>1. Len(r) > 0 /\ Len(r) - 1 = n
    BY <1>4, <1>5
  <2>2. \A k \in 1 .. Len(r) - 1 : /\ r[k].from < r[k + 1].from /\ r[k + 1].from <= r[k].to
                                   /\ r[k].to - r[k + 1].from <= back
    BY <1>9, <2>1
  <2>3. r[1].from = start
    BY <1>2, <1>5
  <2>. QED  BY <1>5, <1>7, <1>8, <1>10, <2>1, <2>2, <2>3 DEF CutRight
<1>. QED  BY <1>11 DEF r, x

(* So from every position on the windows are right, *)
LEMMA CutsAreRight ==
    ASSUME NEW s \in Passage, NEW window \in Nat \ {0}, NEW back \in 0 .. window - 1,
           NEW f, f = [start \in s.from .. s.to |-> CutFrom(f, s, window, back, start)]
    PROVE  \A start \in s.from .. s.to : CutRight(f[start], s, window, back, start)
<1>. DEFINE n == s.to - s.from
            T == {k \in 0 .. n : \A start \in s.to - k .. s.to : CutRight(f[start], s, window, back, start)}
<1>1. s.from \in Nat /\ s.to \in Nat /\ s.from <= s.to /\ n \in Nat /\ s.to - n = s.from
    BY DEF Passage, StretchType
<1>2. \A start \in s.from .. s.to : f[start] = CutFrom(f, s, window, back, start)
    OBVIOUS
<1>3. ASSUME NEW start \in s.from .. s.to,
             CutEnd(s, window, start) # s.to =>
                CutRight(f[CutNext(s, window, back, start)], s, window, back, CutNext(s, window, back, start))
      PROVE  CutRight(f[start], s, window, back, start)
  <2>1. CASE CutEnd(s, window, start) # s.to
    BY <1>2, <1>3, <2>1, CutBefore DEF CutFrom
  <2>2. CASE CutEnd(s, window, start) = s.to
    <3>. DEFINE x == CutPart(s, window, start)
    <3>1. f[start] = <<x>>
      BY <1>2, <2>2 DEF CutFrom
    <3>2. IsCut(x, s, window) /\ x.from = start /\ x.to = s.to
      BY <2>2, CutStep
    <3>. HIDE DEF x
    <3>3. x \in Passage
      BY <3>2 DEF IsCut
    <3>. DEFINE r == <<x>>
    <3>4. r \in Seq(Passage) /\ Len(r) = 1 /\ r[1] = x
      BY <3>3
    <3>. HIDE DEF r
    <3>5. CutRight(r, s, window, back, start)
      BY <3>2, <3>4 DEF CutRight
    <3>. QED  BY <3>1, <3>5 DEF r
  <2>. QED  BY <2>1, <2>2
<1>4. 0 \in T
  <2>1. s.to \in s.from .. s.to /\ \A start \in s.to - 0 .. s.to : start = s.to
    BY <1>1
  <2>2. CutEnd(s, window, s.to) = s.to
    <3>1. CutEnd(s, window, s.to) \in s.to .. s.to
      BY <2>1, CutStep
    <3>. QED  BY <3>1
  <2>3. CutRight(f[s.to], s, window, back, s.to)
    BY <1>3, <2>1, <2>2
  <2>. QED  BY <1>1, <2>1, <2>3
<1>5. ASSUME NEW k \in 0 .. n - 1, k \in T
      PROVE  k + 1 \in T
  <2>. DEFINE first == s.to - (k + 1)
  <2>0. first \in s.from .. s.to /\ first \in Nat /\ first + 1 = s.to - k
    BY <1>1
  <2>1. first \in s.from .. s.to /\ \A start \in first .. s.to : start = first \/ start \in s.to - k .. s.to
    <3>. HIDE DEF first
    <3>. QED  BY <1>1, <2>0
  <2>. HIDE DEF first
  <2>2. CutRight(f[first], s, window, back, first)
    <3>. DEFINE next == CutNext(s, window, back, first)
    <3>1. CutEnd(s, window, first) # s.to => next \in first + 1 .. s.to
      BY <2>1, CutStep
    <3>2. CutEnd(s, window, first) # s.to => next \in s.to - k .. s.to
      <4>. HIDE DEF next
      <4>. QED  BY <1>1, <3>1 DEF first
    <3>3. CutEnd(s, window, first) # s.to => CutRight(f[next], s, window, back, next)
      BY <1>5, <3>2
    <3>. QED  BY <1>3, <2>1, <3>3
  <2>3. \A start \in first .. s.to : CutRight(f[start], s, window, back, start)
    BY <1>5, <2>1, <2>2
  <2>4. k + 1 \in 0 .. n
    BY <1>1
  <2>. QED  BY <2>3, <2>4 DEF first
<1>6. n \in T
  <2>. HIDE DEF T, n
  <2>1. \A k \in 0 .. n - 1 : k \in T => k + 1 \in T
    BY <1>5
  <2>2. \A k \in 0 .. n : k \in T
    BY <1>1, <1>4, <2>1, UpTo
  <2>. QED  BY <1>1, <2>2
<1>. QED  BY <1>1, <1>6

(* and so HardSplit leaves nothing out. *)
LEMMA HardSplitOf ==
    ASSUME NEW s \in Passage, NEW size \in Nat \ {0}, NEW overlap \in Nat
    PROVE  \E back \in Nat : /\ back <= Window(s, overlap)
                             /\ CutRight(HardSplit(s, size, overlap), s, Max({1, Window(s, size)}), back, s.from)
<1>. DEFINE window == Max({1, Window(s, size)})
            back == Min({Window(s, overlap), window - 1})
            parts == CHOOSE f : f = [start \in s.from .. s.to |->
                        LET end == Min({s.to, start + window})
                            part == <<Stretch(s.id, start, end, s.cjk)>>
                        IN  IF end = s.to THEN part ELSE part \o f[Max({start + 1, end - back})]]
<1>1. HardSplit(s, size, overlap) = parts[s.from]
    BY DEF HardSplit
<1>2. window \in Nat \ {0}
  <2>. DEFINE w == Window(s, size)
  <2>1. w \in Int /\ 1 \in Int
    BY DEF Window
  <2>. HIDE DEF w
  <2>2. Max({1, w}) = IF 1 <= w THEN w ELSE 1
    BY <2>1, MinOfTwo
  <2>. QED  BY <2>1, <2>2 DEF w
<1>. HIDE DEF window
<1>3. back \in 0 .. window - 1 /\ back \in Nat /\ back <= Window(s, overlap)
  <2>. DEFINE w == Window(s, overlap)
  <2>1. w \in Nat /\ w \in Int /\ window - 1 \in Int
    BY <1>2 DEF Window
  <2>. HIDE DEF w
  <2>2. Min({w, window - 1}) = IF w <= window - 1 THEN w ELSE window - 1
    BY <2>1, MinOfTwo
  <2>. QED  BY <1>2, <2>1, <2>2 DEF w
<1>. HIDE DEF back
<1>4. parts = [start \in s.from .. s.to |-> CutFrom(parts, s, window, back, start)]
  <2>1. \E f : f = [start \in s.from .. s.to |-> CutFrom(f, s, window, back, start)]
    BY <1>2, <1>3, CutsExist
  <2>. QED  BY <2>1 DEF CutFrom, CutEnd, CutPart, CutNext
<1>. HIDE DEF parts
<1>5. s.from \in s.from .. s.to
    BY DEF Passage, StretchType
<1>6. CutRight(parts[s.from], s, window, back, s.from)
    BY <1>2, <1>3, <1>4, <1>5, CutsAreRight
<1>. QED  BY <1>1, <1>3, <1>6 DEF window

(* The tokens of a text, a stretch at a time. *)
LEMMA TextTokensOf ==
    ASSUME NEW t \in Seq(Passage)
    PROVE  /\ TextTokens(t) \in Nat
           /\ TextTokens(<<>>) = 0
           /\ \A x \in Passage : TextTokens(Append(t, x)) = TextTokens(t) + ApproxTokens(x)
<1>. DEFINE g == [i \in DOMAIN t |-> ApproxTokens(t[i])]
            n == Len(t)
<1>0. \A x \in Passage : ApproxTokens(x) \in Nat
    BY TokensOf
<1>1. n \in Nat /\ DOMAIN g = 1 .. n /\ \A i \in 1 .. n : g[i] \in Nat /\ g[i] = ApproxTokens(t[i])
    BY <1>0
<1>2. TextTokens(t) = SumFunctionOnSet(g, 1 .. n)
    BY <1>1 DEF TextTokens, SumFunction
<1>. HIDE DEF g
<1>3. IsFiniteSet(1 .. n)
    BY <1>1, FS_Interval
<1>4. TextTokens(t) \in Nat
    BY <1>1, <1>2, <1>3, SumOf
<1>5. TextTokens(<<>>) = 0
  <2>. DEFINE h == [i \in DOMAIN <<>> |-> ApproxTokens(<<>>[i])]
  <2>1. DOMAIN h = {}
    OBVIOUS
  <2>2. TextTokens(<<>>) = SumFunctionOnSet(h, DOMAIN h)
    BY DEF TextTokens, SumFunction
  <2>. HIDE DEF h
  <2>3. SumFunctionOnSet(h, {}) = 0
    BY SumNothing
  <2>. QED  BY <2>1, <2>2, <2>3
<1>6. ASSUME NEW x \in Passage PROVE TextTokens(Append(t, x)) = TextTokens(t) + ApproxTokens(x)
  <2>. DEFINE l == Append(t, x)
              h == [i \in DOMAIN l |-> ApproxTokens(l[i])]
              b == n + 1
              a == 1
  <2>1. l \in Seq(Passage) /\ Len(l) = b /\ l[b] = x /\ \A i \in 1 .. n : l[i] = t[i]
    BY AppendProperties
  <2>2. DOMAIN h = 1 .. b /\ h[b] = ApproxTokens(x) /\ \A i \in 1 .. n : h[i] = g[i]
    <3>1. DOMAIN l = 1 .. b
      BY <2>1
    <3>2. DOMAIN h = DOMAIN l /\ \A i \in DOMAIN l : h[i] = ApproxTokens(l[i])
      OBVIOUS
    <3>3. b \in 1 .. b /\ \A i \in 1 .. n : i \in 1 .. b
      BY <1>1
    <3>. HIDE DEF l, h, b
    <3>. QED  BY <1>1, <2>1, <3>1, <3>2, <3>3
  <2>3. TextTokens(l) = SumFunctionOnSet(h, 1 .. b)
    BY <2>2 DEF TextTokens, SumFunction
  <2>. HIDE DEF l, h
  <2>4. ApproxTokens(x) \in Nat
    BY <1>0
  <2>5. \A i \in a .. b : h[i] \in Nat
    <3>. SUFFICES ASSUME NEW i \in 1 .. n + 1 PROVE h[i] \in Nat
      OBVIOUS
    <3>1. i = n + 1 \/ i \in 1 .. n
      BY <1>1
    <3>. QED  BY <1>1, <2>2, <2>4, <3>1
  <2>6. a \in Int /\ b \in Int /\ a <= b /\ b - 1 = n
    BY <1>1
  <2>. HIDE DEF a, b
  <2>7. SumFunctionOnSet(h, a .. b) = SumFunctionOnSet(h, a .. b - 1) + h[b]
    BY <2>5, <2>6, SumInterval
  <2>8. SumFunctionOnSet(g, 1 .. n) = SumFunctionOnSet(h, 1 .. n)
    <3>1. IsFiniteSet(1 .. n) /\ \A i \in 1 .. n : g[i] \in Nat /\ g[i] = h[i]
      BY <1>1, <1>3, <2>2
    <3>. HIDE DEF g, h, n
    <3>. QED  BY <3>1, SumSame
  <2>. QED  BY <1>2, <2>2, <2>3, <2>6, <2>7, <2>8 DEF a, l
<1>. QED  BY <1>4, <1>5, <1>6

(* A stretch by itself, and two texts behind each other. *)
LEMMA TextOfOne ==
    ASSUME NEW x \in Passage
    PROVE  <<x>> \in Seq(Passage) /\ TextTokens(<<x>>) = ApproxTokens(x)
<1>. DEFINE e == <<>>
<1>1. e \in Seq(Passage) /\ Append(e, x) = <<x>> /\ <<x>> \in Seq(Passage)
    OBVIOUS
<1>2. ApproxTokens(x) \in Nat
    BY TokensOf
<1>. HIDE DEF e
<1>3. TextTokens(Append(e, x)) = TextTokens(e) + ApproxTokens(x)
    BY <1>1, TextTokensOf
<1>4. TextTokens(e) = 0
    BY <1>1, TextTokensOf DEF e
<1>5. TextTokens(<<x>>) = 0 + ApproxTokens(x)
    BY <1>1, <1>3, <1>4
<1>. QED  BY <1>1, <1>2, <1>5

LEMMA TokensJoined ==
    ASSUME NEW a \in Seq(Passage), NEW b \in Seq(Passage)
    PROVE  a \o b \in Seq(Passage) /\ TextTokens(a \o b) = TextTokens(a) + TextTokens(b)
<1>. DEFINE n == Len(b)
            to(k) == SubSeq(b, 1, k)
            T == {k \in 0 .. n : TextTokens(a \o to(k)) = TextTokens(a) + TextTokens(to(k))}
<1>1. n \in Nat /\ to(n) = b /\ to(0) = <<>> /\ a \o <<>> = a /\ a \o b \in Seq(Passage)
    OBVIOUS
<1>2. 0 \in T
  <2>1. TextTokens(a) \in Nat /\ TextTokens(<<>>) = 0
    BY TextTokensOf
  <2>2. TextTokens(a) = TextTokens(a) + 0
    BY <2>1
  <2>. HIDE DEF to, n
  <2>3. a \o to(0) = a /\ to(0) = <<>> /\ 0 \in 0 .. n
    BY <1>1
  <2>4. TextTokens(to(0)) = 0 /\ TextTokens(a \o to(0)) = TextTokens(a)
    BY <2>1, <2>3
  <2>. QED  BY <2>2, <2>3, <2>4
<1>3. ASSUME NEW k \in 0 .. n - 1, k \in T
      PROVE  k + 1 \in T
  <2>. DEFINE c == to(k)
              x == b[k + 1]
  <2>1. x \in Passage /\ c \in Seq(Passage) /\ k + 1 \in 0 .. n
    OBVIOUS
  <2>2. Append(c, x) = to(k + 1)
    <3>1. 1 \in Nat \ {0} /\ k \in Nat /\ 1 <= k + 1 /\ k < Len(b)
      OBVIOUS
    <3>. QED  BY <3>1, SliceGrows
  <2>. HIDE DEF c, x
  <2>3. a \o c \in Seq(Passage) /\ a \o Append(c, x) = Append(a \o c, x)
    BY <2>1
  <2>4. TextTokens(Append(a \o c, x)) = TextTokens(a \o c) + ApproxTokens(x)
    BY <2>1, <2>3, TextTokensOf
  <2>5. TextTokens(Append(c, x)) = TextTokens(c) + ApproxTokens(x)
    BY <2>1, TextTokensOf
  <2>6. TextTokens(a \o c) = TextTokens(a) + TextTokens(c)
    BY <1>3 DEF c
  <2>7. TextTokens(a) \in Nat /\ TextTokens(c) \in Nat /\ ApproxTokens(x) \in Nat
    BY <2>1, TextTokensOf, TokensOf
  <2>8. TextTokens(a \o Append(c, x)) = TextTokens(a) + TextTokens(Append(c, x))
    BY <2>3, <2>4, <2>5, <2>6, <2>7
  <2>. QED  BY <2>1, <2>2, <2>8
<1>4. n \in T
  <2>. HIDE DEF T, n
  <2>1. \A k \in 0 .. n - 1 : k \in T => k + 1 \in T
    BY <1>3
  <2>2. \A k \in 0 .. n : k \in T
    BY <1>1, <1>2, <2>1, UpTo
  <2>. QED  BY <1>1, <2>2
<1>. QED  BY <1>1, <1>4

(* A text counts at least as much as its tokens. *)
LEMMA TextsMeasured ==
    Measured(Seq(Passage)) /\ \A x \in Seq(Passage) : TextTokens(x) <= Count(x)
<1>. SUFFICES ASSUME NEW x \in Seq(Passage) PROVE Count(x) \in Nat /\ TextTokens(x) <= Count(x)
    BY DEF Measured
<1>. DEFINE c == TextTokens(x)
<1>1. c \in Nat /\ c \in Int /\ 1 \in Int
    BY TextTokensOf
<1>. HIDE DEF c
<1>2. Max({1, c}) = IF 1 <= c THEN c ELSE 1
    BY <1>1, MinOfTwo
<1>. QED  BY <1>1, <1>2 DEF Count, c

(* So what texts behind each other have, they count at least. *)
LEMMA FlattenFits ==
    ASSUME NEW c \in Seq(Seq(Passage))
    PROVE  FlattenSeq(c) \in Seq(Passage) /\ TextTokens(FlattenSeq(c)) <= Total(c)
<1>. DEFINE n == Len(c)
            X == Seq(Passage)
            to(k) == SubSeq(c, 1, k)
            T == {k \in 0 .. n : TextTokens(FlattenSeq(to(k))) <= Total(to(k))}
<1>0. Measured(X) /\ \A x \in X : TextTokens(x) <= Count(x)
    BY TextsMeasured
<1>1. n \in Nat /\ to(n) = c /\ to(0) = <<>> /\ FlattenSeq(c) \in X
    BY FlattenMore
<1>2. 0 \in T
  <2>1. TextTokens(<<>>) = 0 /\ FlattenSeq(<<>>) = <<>>
    BY TextTokensOf, FlattenMore
  <2>2. Total(<<>>) = 0
    <3>. HIDE DEF X
    <3>. QED  BY <1>0, TotalOf DEF X
  <2>. HIDE DEF to
  <2>. QED  BY <1>1, <2>1, <2>2
<1>3. ASSUME NEW k \in 0 .. n - 1, k \in T
      PROVE  k + 1 \in T
  <2>. DEFINE p == to(k)
              x == c[k + 1]
  <2>1. x \in X /\ p \in Seq(X) /\ k + 1 \in 0 .. n
    OBVIOUS
  <2>2. Append(p, x) = to(k + 1)
    <3>1. 1 \in Nat \ {0} /\ k \in Nat /\ 1 <= k + 1 /\ k < Len(c)
      OBVIOUS
    <3>. HIDE DEF X
    <3>. QED  BY <3>1, SliceGrows DEF X
  <2>3. TextTokens(FlattenSeq(p)) <= Total(p)
    BY <1>3
  <2>. HIDE DEF p, x
  <2>4. FlattenSeq(p) \in X /\ FlattenSeq(Append(p, x)) = FlattenSeq(p) \o x
    BY <2>1, FlattenMore
  <2>5. /\ TextTokens(FlattenSeq(p)) \in Nat /\ TextTokens(x) \in Nat
        /\ TextTokens(FlattenSeq(p) \o x) = TextTokens(FlattenSeq(p)) + TextTokens(x)
    BY <2>1, <2>4, TextTokensOf, TokensJoined
  <2>6. Total(p) \in Nat /\ Total(Append(p, x)) = Total(p) + Count(x) /\ Count(x) \in Nat
    <3>1. Count(x) \in Nat
      BY <1>0, <2>1 DEF Measured
    <3>. HIDE DEF X
    <3>. QED  BY <1>0, <2>1, <3>1, TotalOf
  <2>7. TextTokens(x) <= Count(x)
    BY <1>0, <2>1
  <2>8. TextTokens(FlattenSeq(Append(p, x))) <= Total(Append(p, x))
    BY <2>3, <2>4, <2>5, <2>6, <2>7
  <2>. QED  BY <2>1, <2>2, <2>8
<1>4. n \in T
  <2>. HIDE DEF T, n
  <2>1. \A k \in 0 .. n - 1 : k \in T => k + 1 \in T
    BY <1>3
  <2>2. \A k \in 0 .. n : k \in T
    BY <1>1, <1>2, <2>1, UpTo
  <2>. QED  BY <1>1, <2>2
<1>. QED  BY <1>1, <1>4

(* Chunks that follow each other leave out no position. *)
LEMMA SlicesCover ==
    ASSUME NEW at, NEW to, NEW m, NEW t, NEW size, NEW overlap, NEW k \in Nat,
           Slices(at, to, m, t, size, overlap, k), NEW i \in 1 .. k
    PROVE  \E j \in 1 .. m : i \in at[j] .. to[j]
<1>. DEFINE Covered(h) == \E j \in 1 .. m : h \in at[j] .. to[j]
            n == m - 1
            T == {l \in 0 .. n : \A h \in 1 .. to[l + 1] : Covered(h)}
<1>1. /\ m \in Nat \ {0} /\ at[1] = 1 /\ to[m] = k /\ n \in Nat /\ n + 1 = m
      /\ \A j \in 1 .. m : at[j] \in 1 .. k /\ to[j] \in 1 .. k
      /\ \A j \in 1 .. m - 1 : at[j + 1] <= to[j] + 1
    BY DEF Slices
<1>2. 0 \in T
  <2>1. 1 \in 1 .. m /\ 0 + 1 = 1 /\ 0 \in 0 .. n
    BY <1>1
  <2>2. \A h \in 1 .. to[1] : Covered(h)
    BY <1>1, <2>1
  <2>. QED  BY <2>1, <2>2
<1>3. ASSUME NEW l \in 0 .. n - 1, l \in T
      PROVE  l + 1 \in T
  <2>1. l + 1 \in 1 .. m - 1 /\ l + 2 \in 1 .. m /\ (l + 1) + 1 = l + 2 /\ l + 1 \in 0 .. n /\ l + 1 \in 1 .. m
    BY <1>1
  <2>. SUFFICES ASSUME NEW h \in 1 .. to[l + 2] PROVE Covered(h)
    BY <2>1
  <2>2. /\ at[l + 2] \in Nat /\ to[l + 2] \in Nat /\ to[l + 1] \in Nat /\ at[l + 2] <= to[l + 1] + 1
    BY <1>1, <2>1
  <2>3. h \in 1 .. to[l + 1] \/ h \in at[l + 2] .. to[l + 2]
    BY <2>2
  <2>4. \A g \in 1 .. to[l + 1] : Covered(g)
    BY <1>3
  <2>. QED  BY <2>1, <2>3, <2>4
<1>4. n \in T
  <2>. HIDE DEF T, n
  <2>1. \A l \in 0 .. n - 1 : l \in T => l + 1 \in T
    BY <1>3
  <2>2. \A l \in 0 .. n : l \in T
    BY <1>1, <1>2, <2>1, UpTo
  <2>. QED  BY <1>1, <2>2
<1>5. \A h \in 1 .. to[m] : Covered(h)
    BY <1>1, <1>4
<1>. QED  BY <1>1, <1>5

(* What is in one text of a chunk is in the chunk. *)
LEMMA SliceHolds ==
    ASSUME NEW S, NEW t \in Seq(Seq(S)), NEW a \in Nat \ {0}, NEW b \in Nat, b <= Len(t),
           NEW i \in a .. b, NEW x \in ToSet(t[i])
    PROVE  x \in ToSet(FlattenSeq(SubSeq(t, a, b)))
<1>. DEFINE X == Seq(S)
            F == SubSeq(t, a, b)
            n == b - a + 1
            k == i - a + 1
<1>1. n \in Nat /\ k \in 1 .. n /\ a + k - 1 = i /\ a <= b + 1
    OBVIOUS
<1>2. F \in Seq(X) /\ Len(F) = n /\ \A j \in 1 .. n : F[j] = t[a + j - 1]
  <2>. HIDE DEF X
  <2>. QED  BY <1>1, SliceOf DEF X
<1>. HIDE DEF F, n, k
<1>3. F \in [1 .. n -> Seq(S)]
    BY <1>2
<1>4. F[k] = t[i]
    BY <1>1, <1>2
<1>5. x \in ToSet(F[k])
    BY <1>4
<1>6. x \in ToSet(FlattenSeq(F))
    BY <1>1, <1>3, <1>5, FlattenHolds
<1>. QED  BY <1>6 DEF F

(* Packing nothing. *)
LEMMA PackNothing ==
    ASSUME NEW X, Measured(X), NEW t \in Seq(X), Len(t) = 0, NEW size \in Nat, NEW overlap \in Nat
    PROVE  Pack(t, size, overlap) = <<>>
<1>1. Packed(t, size, overlap) = NoChunks
  <2>1. PICK f : /\ Run(f, Len(t), PackState(X), NoChunks, PlaceStep(X, t, size, overlap))
                 /\ Packed(t, size, overlap) = f[Len(t)]
    BY PackRuns
  <2>. QED  BY <2>1 DEF Run
<1>2. NoChunks.current = <<>> /\ NoChunks.chunks = <<>>
    BY DEF NoChunks
<1>. QED  BY <1>1, <1>2 DEF Pack, Packed

(* Packing leaves nothing out: what is in a text is in a chunk, and a chunk
   of several texts fits.                                                  *)
LEMMA PackHolds ==
    ASSUME NEW S, NEW X, X \subseteq Seq(S), Measured(X), NEW t \in Seq(X),
           NEW size \in Nat, NEW overlap \in Nat
    PROVE  LET given == Pack(t, size, overlap)
           IN  /\ given \in Seq(Seq(X))
               /\ Len(t) > 0 => given # <<>>
               /\ \A j \in DOMAIN given : Len(given[j]) > 1 => Total(given[j]) <= size
               /\ Holds(given, t)
<1>. DEFINE Y == Seq(X)
            given == Pack(t, size, overlap)
            s == Packed(t, size, overlap)
            k == Len(t)
            n == Len(s.chunks)
            m == n + 1
            same == s.chunks # <<>> /\ FlattenSeq(Last(s.chunks)) = FlattenSeq(s.current)
            full == Append(s.chunks, s.current)
<1>1. CASE Len(t) = 0
  <2>1. given = <<>>
    BY <1>1, PackNothing
  <2>2. DOMAIN t = {}
    BY <1>1
  <2>3. <<>> \in Seq(Y) /\ DOMAIN <<>> = {}
    OBVIOUS
  <2>4. Holds(given, t)
    BY <2>2 DEF Holds
  <2>. QED  BY <1>1, <2>1, <2>2, <2>3, <2>4
<1>2. CASE Len(t) > 0
  <2>1. s \in PackState(X) /\ PackedAt(s, t, size, overlap, k)
    BY <1>2, PackingEnds
  <2>2. given = IF s.current = <<>> \/ same THEN s.chunks ELSE full
    BY DEF Pack, Packed
  <2>. HIDE DEF s, given
  <2>3. s.chunks \in Seq(Y) /\ s.current \in Y /\ n \in Nat /\ m \in Nat /\ k \in Nat \ {0} /\ k # 0
    BY <1>2, <2>1 DEF PackState
  <2>4. PICK at, to : /\ Slices(at, to, m, t, size, overlap, k)
                      /\ s.chunks = SlicesOf(t, at, to, n)
                      /\ s.current = SubSeq(t, at[m], k)
    BY <2>1, <2>3 DEF PackedAt
  <2>. HIDE DEF Y, k
  <2>5. /\ full \in Seq(Y) /\ Len(full) = m /\ full[m] = s.current
        /\ DOMAIN full = 1 .. m /\ DOMAIN s.chunks = 1 .. n /\ \A j \in 1 .. n : full[j] = s.chunks[j]
    BY <2>3
  <2>. HIDE DEF full
  <2>6. /\ to[m] = k /\ \A j \in 1 .. m : at[j] \in 1 .. k /\ to[j] \in 1 .. k /\ at[j] <= to[j]
        /\ \A j \in 1 .. m : at[j] < to[j] => Total(SubSeq(t, at[j], to[j])) <= size
    BY <2>4 DEF Slices
  <2>7. \A j \in 1 .. m : full[j] = SubSeq(t, at[j], to[j])
    <3>1. full[m] = SubSeq(t, at[m], to[m])
      BY <2>4, <2>5, <2>6
    <3>2. \A j \in 1 .. n : full[j] = SubSeq(t, at[j], to[j])
      BY <2>4, <2>5 DEF SlicesOf
    <3>3. \A j \in 1 .. m : j = m \/ j \in 1 .. n
      BY <2>3
    <3>. QED  BY <3>1, <3>2, <3>3
  <2>8. ASSUME NEW j \in 1 .. m
        PROVE  Len(full[j]) = to[j] - at[j] + 1 /\ full[j] # <<>>
    <3>. DEFINE a == at[j]
                b == to[j]
    <3>1. a \in Nat \ {0} /\ b \in Nat /\ a <= b + 1 /\ b <= Len(t) /\ a <= b
      BY <2>3, <2>6 DEF k
    <3>2. full[j] = SubSeq(t, a, b)
      BY <2>7
    <3>. HIDE DEF a, b
    <3>3. Len(SubSeq(t, a, b)) = b - a + 1
      BY <3>1, SliceOf
    <3>4. Len(full[j]) = b - a + 1 /\ b - a + 1 > 0
      BY <3>1, <3>2, <3>3
    <3>5. full[j] # <<>>
      BY <3>4
    <3>. QED  BY <3>4, <3>5 DEF a, b
  <2>9. \A j \in 1 .. m : Len(full[j]) > 1 => Total(full[j]) <= size
    <3>. SUFFICES ASSUME NEW j \in 1 .. m, Len(full[j]) > 1 PROVE Total(full[j]) <= size
      OBVIOUS
    <3>1. at[j] < to[j]
      <4>1. at[j] \in Int /\ to[j] \in Int
        BY <2>3, <2>6 DEF k
      <4>. QED  BY <2>8, <4>1
    <3>. QED  BY <2>6, <2>7, <3>1
  <2>10. \A i \in DOMAIN t : \A x \in ToSet(t[i]) : \E j \in 1 .. m : x \in ToSet(FlattenSeq(full[j]))
    <3>. SUFFICES ASSUME NEW i \in DOMAIN t, NEW x \in ToSet(t[i])
                  PROVE  \E j \in 1 .. m : x \in ToSet(FlattenSeq(full[j]))
      OBVIOUS
    <3>1. i \in 1 .. k /\ k \in Nat
      BY DEF k
    <3>2. PICK j \in 1 .. m : i \in at[j] .. to[j]
      BY <2>4, <3>1, SlicesCover
    <3>. DEFINE a == at[j]
                b == to[j]
    <3>3. a \in Nat \ {0} /\ b \in Nat /\ b <= Len(t) /\ i \in a .. b
      BY <2>3, <2>6, <3>2 DEF k
    <3>4. full[j] = SubSeq(t, a, b)
      BY <2>7
    <3>. HIDE DEF a, b
    <3>5. t \in Seq(Seq(S))
      OBVIOUS
    <3>6. x \in ToSet(FlattenSeq(SubSeq(t, a, b)))
      BY <3>3, <3>5, SliceHolds
    <3>. QED  BY <3>4, <3>6
  <2>11. s.current # <<>>
    <3>1. m \in 1 .. m
      BY <2>3
    <3>. QED  BY <2>5, <2>8, <3>1
  <2>12. CASE same
    <3>1. given = s.chunks /\ n \in 1 .. n /\ n \in 1 .. m /\ Len(s.chunks) > 0
      BY <2>2, <2>3, <2>12
    <3>2. FlattenSeq(full[m]) = FlattenSeq(full[n])
      <4>1. Last(s.chunks) = s.chunks[n]
        BY DEF Last
      <4>. QED  BY <2>5, <2>12, <3>1, <4>1
    <3>3. \A j \in 1 .. n : j \in 1 .. m
      BY <2>3
    <3>4. \A j \in 1 .. m : j = m \/ j \in 1 .. n
      BY <2>3
    <3>5. \A j \in DOMAIN given : Len(given[j]) > 1 => Total(given[j]) <= size
      BY <2>5, <2>9, <3>1, <3>3
    <3>6. \A i \in DOMAIN t : \A x \in ToSet(t[i]) : \E j \in DOMAIN given : x \in ToSet(FlattenSeq(given[j]))
      <4>. SUFFICES ASSUME NEW i \in DOMAIN t, NEW x \in ToSet(t[i])
                    PROVE  \E j \in 1 .. n : x \in ToSet(FlattenSeq(full[j]))
        BY <2>5, <3>1
      <4>1. PICK j \in 1 .. m : x \in ToSet(FlattenSeq(full[j]))
        BY <2>10
      <4>. QED  BY <3>1, <3>2, <3>4, <4>1
    <3>7. given \in Seq(Y) /\ given # <<>>
      BY <2>3, <2>12, <3>1
    <3>8. Holds(given, t)
      BY <3>6 DEF Holds
    <3>. QED  BY <3>5, <3>7, <3>8 DEF given, Y
  <2>13. CASE ~same
    <3>1. given = full
      BY <2>2, <2>11, <2>13
    <3>2. given # <<>>
      BY <2>3, <2>5, <3>1
    <3>3. \A j \in DOMAIN given : Len(given[j]) > 1 => Total(given[j]) <= size
      BY <2>5, <2>9, <3>1
    <3>4. \A i \in DOMAIN t : \A x \in ToSet(t[i]) : \E j \in DOMAIN given : x \in ToSet(FlattenSeq(given[j]))
      BY <2>5, <2>10, <3>1
    <3>5. given \in Seq(Y)
      BY <2>5, <3>1
    <3>6. Holds(given, t)
      BY <3>4 DEF Holds
    <3>. QED  BY <3>2, <3>3, <3>5, <3>6 DEF given, Y
  <2>. QED  BY <2>12, <2>13
<1>3. Len(t) = 0 \/ Len(t) > 0
    OBVIOUS
<1>. QED  BY <1>1, <1>2, <1>3

(* A single sequence behind nothing. *)
LEMMA FlattenOne ==
    ASSUME NEW S, NEW c \in Seq(Seq(S)), Len(c) = 1
    PROVE  c[1] \in Seq(S) /\ FlattenSeq(c) = c[1]
<1>. DEFINE e == <<>>
            x == c[1]
<1>1. x \in Seq(S) /\ e \in Seq(Seq(S)) /\ Append(e, x) = c
    OBVIOUS
<1>. HIDE DEF x, e
<1>2. FlattenSeq(Append(e, x)) = FlattenSeq(e) \o x
    BY <1>1, FlattenMore
<1>3. FlattenSeq(e) = <<>>
    BY FlattenMore DEF e
<1>4. <<>> \o x = x
    BY <1>1
<1>5. FlattenSeq(c) = x
    BY <1>1, <1>2, <1>3, <1>4
<1>. QED  BY <1>1, <1>5 DEF x

(* A sentence is kept or cut without loss, and if it is uniform it is cut
   into short stretches.                                                   *)
LEMMA CutShortOf ==
    ASSUME NEW s \in Passage, NEW size \in Nat \ {0}, NEW back \in Nat
    PROVE  LET c == CutShort(s, size, back)
           IN  /\ c \in Seq(Passage) /\ Len(c) > 0
               /\ Spans(ToSet(c), s)
               /\ Uniform(s) \/ ApproxTokens(s) <= size => \A k \in DOMAIN c : ApproxTokens(c[k]) <= size
<1>. DEFINE c == CutShort(s, size, back)
<1>0. ApproxTokens(s) \in Nat
    BY TokensOf
<1>1. CASE ApproxTokens(s) > size
  <2>1. c = HardSplit(s, size, back)
    BY <1>1 DEF CutShort
  <2>2. PICK b \in Nat : CutRight(c, s, Max({1, Window(s, size)}), b, s.from)
    BY <2>1, HardSplitOf
  <2>. HIDE DEF c
  <2>3. c \in Seq(Passage) /\ Len(c) > 0
    BY <2>2 DEF CutRight
  <2>4. Spans(ToSet(c), s)
    <3>1. ASSUME NEW i \in s.from .. s.to - 1
          PROVE  \E p \in ToSet(c) : p.id = s.id /\ i \in p.from .. p.to - 1
      <4>1. PICK k \in 1 .. Len(c) : i \in c[k].from .. c[k].to - 1
        BY <2>2 DEF CutRight
      <4>2. c[k].id = s.id
        BY <2>2 DEF CutRight, IsCut
      <4>3. c[k] \in ToSet(c)
        BY <2>3 DEF ToSet
      <4>. QED  BY <4>1, <4>2, <4>3
    <3>. QED  BY <3>1 DEF Spans
  <2>5. Uniform(s) \/ ApproxTokens(s) <= size => \A k \in DOMAIN c : ApproxTokens(c[k]) <= size
    <3>. SUFFICES ASSUME Uniform(s), NEW k \in 1 .. Len(c) PROVE ApproxTokens(c[k]) <= size
      BY <1>0, <1>1, <2>3
    <3>1. IsCut(c[k], s, Max({1, Window(s, size)}))
      BY <2>2 DEF CutRight
    <3>. QED  BY <3>1, CutFits
  <2>. QED  BY <2>3, <2>4, <2>5 DEF c
<1>2. CASE ~(ApproxTokens(s) > size)
  <2>1. c = <<s>>
    BY <1>2 DEF CutShort
  <2>2. c \in Seq(Passage) /\ Len(c) = 1 /\ DOMAIN c = {1} /\ c[1] = s
    BY <2>1
  <2>. HIDE DEF c
  <2>3. Spans(ToSet(c), s)
    BY <2>2 DEF Spans, ToSet
  <2>4. \A k \in DOMAIN c : ApproxTokens(c[k]) <= size
    BY <1>0, <1>2, <2>2
  <2>. QED  BY <2>2, <2>3, <2>4 DEF c
<1>. QED  BY <1>1, <1>2

(* What holds each stretch of P holds what P holds. *)
LEMMA SpansMore ==
    ASSUME NEW P, NEW Q, NEW s, Spans(P, s), \A p \in P : Spans(Q, p)
    PROVE  Spans(Q, s)
  BY DEF Spans

(* What is in a text is in the texts, and there is held. *)
LEMMA InTexts ==
    ASSUME NEW texts, NEW k \in DOMAIN texts, NEW x \in ToSet(texts[k])
    PROVE  x \in In(texts) /\ Spans(In(texts), x)
<1>1. x \in In(texts)
    BY DEF In
<1>. QED  BY <1>1 DEF Spans

(* A sequence of one. *)
LEMMA SingleText ==
    ASSUME NEW S, NEW d \in Seq(S), Len(d) = 1
    PROVE  d[1] \in S /\ d = <<d[1]>>
<1>1. \A l \in 1 .. Len(d) : d[l] \in S
    OBVIOUS
<1>2. d[1] \in S
    BY <1>1
<1>3. d = <<d[1]>>
    OBVIOUS
<1>. QED  BY <1>2, <1>3

(* chunk_text loses nothing; a chunk of it fits, or is a single stretch of
   those that sentences are cut into.                                      *)
LEMMA ChunkTextIn ==
    ASSUME NEW sentences \in Seq(Passage), NEW size \in Nat \ {0}, NEW overlap \in Nat,
           NEW S \in SUBSET Passage,
           \A i \in DOMAIN sentences : CutShort(sentences[i], size, Min({overlap, size - 1})) \in Seq(S)
    PROVE  LET r == ChunkText(sentences, size, overlap)
           IN  /\ r \in Seq(Seq(Passage))
               /\ Len(sentences) > 0 => Len(r) > 0
               /\ \A i \in DOMAIN sentences : Spans(In(r), sentences[i])
               /\ \A k \in DOMAIN r : TextTokens(r[k]) <= size \/ \E x \in S : r[k] = <<x>>
<1>. DEFINE n == Len(sentences)
            back == Min({overlap, size - 1})
            cuts == [i \in 1 .. n |-> CutShort(sentences[i], size, back)]
            whole == FlattenSeq(cuts)
            w == Len(whole)
            X == {x \in Seq(S) : Len(x) = 1}
            t == [i \in 1 .. w |-> <<whole[i]>>]
            packed == Pack(t, size, back)
            r == ChunkText(sentences, size, overlap)
<1>1. n \in Nat /\ DOMAIN sentences = 1 .. n
    OBVIOUS
<1>2. back \in Nat
  <2>1. overlap \in Int /\ size - 1 \in Int
    OBVIOUS
  <2>2. back = IF overlap <= size - 1 THEN overlap ELSE size - 1
    BY <2>1, MinOfTwo
  <2>. QED  BY <2>2
<1>3. r = [k \in 1 .. Len(packed) |-> FlattenSeq(packed[k])]
    BY DEF ChunkText, CutShort
<1>. HIDE DEF back, r
<1>4. cuts \in [1 .. n -> Seq(S)] /\ cuts \in Seq(Seq(S)) /\ Len(cuts) = n
      /\ \A i \in 1 .. n : cuts[i] = CutShort(sentences[i], size, back)
  <2>1. \A i \in 1 .. n : CutShort(sentences[i], size, back) \in Seq(S)
    BY <1>1 DEF back
  <2>2. cuts = [i \in 1 .. n |-> CutShort(sentences[i], size, back)]
    OBVIOUS
  <2>. HIDE DEF cuts, n
  <2>3. DOMAIN cuts = 1 .. n /\ \A i \in 1 .. n : cuts[i] = CutShort(sentences[i], size, back)
    BY <2>2
  <2>. DEFINE T == Seq(S)
  <2>4. \A i \in 1 .. n : cuts[i] \in T
    BY <2>1, <2>3
  <2>. HIDE DEF T
  <2>5. cuts \in [1 .. n -> T]
    BY <2>2, <2>3, <2>4
  <2>6. cuts \in Seq(T) /\ Len(cuts) = n
    BY <1>1, <2>5
  <2>. QED  BY <2>3, <2>5, <2>6 DEF T
<1>. HIDE DEF cuts
<1>5. whole \in Seq(S) /\ w \in Nat
    BY <1>4, FlattenMore
<1>. HIDE DEF whole, w
<1>6. t \in Seq(X) /\ Len(t) = w /\ DOMAIN t = 1 .. w /\ \A i \in 1 .. w : t[i] = <<whole[i]>>
  <2>1. ASSUME NEW i \in 1 .. w PROVE <<whole[i]>> \in X
    <3>1. whole[i] \in S
      BY <1>5 DEF w
    <3>. QED  BY <3>1
  <2>. HIDE DEF X
  <2>. QED  BY <1>5, <2>1
<1>7. X \subseteq Seq(Passage) /\ Measured(X)
  <2>1. X \subseteq Seq(Passage)
    OBVIOUS
  <2>. QED  BY <2>1, TextsMeasured DEF Measured
<1>. HIDE DEF t
<1>8. /\ packed \in Seq(Seq(X))
      /\ Len(t) > 0 => packed # <<>>
      /\ \A j \in DOMAIN packed : Len(packed[j]) > 1 => Total(packed[j]) <= size
      /\ Holds(packed, t)
  <2>. HIDE DEF X
  <2>1. X \subseteq Seq(Passage) /\ Measured(X) /\ t \in Seq(X) /\ size \in Nat
    BY <1>6, <1>7
  <2>2. packed = Pack(t, size, back)
    OBVIOUS
  <2>. HIDE DEF packed
  <2>3. /\ packed \in Seq(Seq(X))
        /\ Len(t) > 0 => packed # <<>>
    BY <1>2, <2>1, <2>2, PackHolds
  <2>4. \A j \in DOMAIN packed : Len(packed[j]) > 1 => Total(packed[j]) <= size
    BY <1>2, <2>1, <2>2, PackHolds
  <2>5. Holds(packed, t)
    BY <1>2, <2>1, <2>2, PackHolds
  <2>. QED  BY <2>3, <2>4, <2>5
<1>. HIDE DEF packed
<1>9. ASSUME NEW j \in DOMAIN packed
      PROVE  /\ packed[j] \in Seq(Seq(Passage)) /\ packed[j] \in Seq(X)
             /\ FlattenSeq(packed[j]) \in Seq(Passage)
  <2>1. packed[j] \in Seq(X)
    <3>. HIDE DEF X
    <3>. QED  BY <1>8
  <2>2. packed[j] \in Seq(Seq(Passage))
    BY <1>7, <2>1
  <2>. QED  BY <2>1, <2>2, FlattenMore
<1>10. Len(r) = Len(packed) /\ DOMAIN r = DOMAIN packed /\ r \in Seq(Seq(Passage))
       /\ \A j \in DOMAIN packed : r[j] = FlattenSeq(packed[j])
  <2>1. Len(packed) \in Nat /\ DOMAIN packed = 1 .. Len(packed)
    <3>. HIDE DEF X
    <3>. QED  BY <1>8
  <2>. HIDE DEF X
  <2>. QED  BY <1>3, <1>9, <2>1
<1>11. ASSUME NEW i \in 1 .. n
       PROVE  Spans(In(r), sentences[i])
  <2>1. sentences[i] \in Passage
    OBVIOUS
  <2>2. Spans(ToSet(cuts[i]), sentences[i])
    BY <1>2, <1>4, <2>1, CutShortOf
  <2>3. ASSUME NEW p \in ToSet(cuts[i])
        PROVE  Spans(In(r), p)
    <3>1. p \in ToSet(whole)
      BY <1>1, <1>4, FlattenHolds DEF whole
    <3>2. PICK l \in 1 .. w : whole[l] = p
      BY <1>5, <3>1 DEF ToSet, w
    <3>3. p \in ToSet(t[l])
      <4>1. t[l] = <<p>>
        BY <1>6, <3>2
      <4>. QED  BY <4>1 DEF ToSet
    <3>4. PICK j \in DOMAIN packed : p \in ToSet(FlattenSeq(packed[j]))
      BY <1>6, <1>8, <3>3 DEF Holds
    <3>5. j \in DOMAIN r /\ p \in ToSet(r[j])
      BY <1>10, <3>4
    <3>. QED  BY <3>5, InTexts
  <2>. QED  BY <2>2, <2>3, SpansMore
<1>12. ASSUME Len(sentences) > 0
       PROVE  Len(r) > 0
  <2>1. 1 \in 1 .. n /\ sentences[1] \in Passage
    BY <1>1, <1>12
  <2>2. cuts[1] \in Seq(Passage) /\ Len(cuts[1]) > 0
    BY <1>2, <1>4, <2>1, CutShortOf
  <2>3. cuts[1][1] \in ToSet(cuts[1])
    BY <2>2 DEF ToSet
  <2>4. cuts[1][1] \in ToSet(whole)
    BY <1>1, <1>4, <2>1, <2>3, FlattenHolds DEF whole
  <2>5. w > 0
    BY <1>5, <2>4 DEF ToSet, w
  <2>6. packed # <<>>
    BY <1>6, <1>8, <2>5
  <2>. HIDE DEF X
  <2>. QED  BY <1>8, <1>10, <2>6
<1>13. ASSUME NEW k \in DOMAIN packed
       PROVE  TextTokens(FlattenSeq(packed[k])) <= size \/ \E x \in S : FlattenSeq(packed[k]) = <<x>>
  <2>. DEFINE c == packed[k]
  <2>1. c \in Seq(Seq(Passage)) /\ c \in Seq(X) /\ (Len(c) > 1 => Total(c) <= size)
    BY <1>8, <1>9
  <2>. HIDE DEF c
  <2>8. Len(c) \in Nat
    BY <2>1
  <2>2. Len(c) \in Nat /\ Total(c) \in Nat
    <3>1. Len(c) \in Nat
      BY <2>1
    <3>. QED  BY <2>1, <3>1, TotalOf, TextsMeasured
  <2>3. FlattenSeq(c) \in Seq(Passage) /\ TextTokens(FlattenSeq(c)) <= Total(c) /\ TextTokens(FlattenSeq(c)) \in Nat
    BY <2>1, FlattenFits, TextTokensOf
  <2>4. CASE Len(c) > 1
    BY <2>1, <2>2, <2>3, <2>4 DEF c
  <2>5. CASE Len(c) = 1
    <3>1. FlattenSeq(c) = c[1]
      BY <2>1, <2>5, FlattenOne
    <3>2. c[1] \in X
      <4>. HIDE DEF X
      <4>1. c \in Seq(X)
        BY <2>1
      <4>2. \A l \in 1 .. Len(c) : c[l] \in X
        BY <4>1
      <4>3. 1 \in 1 .. Len(c)
        BY <2>5
      <4>. QED  BY <4>2, <4>3
    <3>3. PICK d : d = c[1]
      OBVIOUS
    <3>4. d \in Seq(S) /\ Len(d) = 1
      BY <3>2, <3>3
    <3>. HIDE DEF X
    <3>5. d[1] \in S /\ d = <<d[1]>>
      BY <3>4, SingleText
    <3>6. \E x \in S : FlattenSeq(c) = <<x>>
      BY <3>1, <3>3, <3>5
    <3>. QED  BY <3>6 DEF c
  <2>6. CASE Len(c) = 0
    <3>1. c = <<>>
      BY <2>1, <2>6
    <3>2. TextTokens(FlattenSeq(c)) = 0
      BY <3>1, FlattenMore, TextTokensOf
    <3>. QED  BY <3>2 DEF c
  <2>. HIDE DEF X
  <2>7. Len(c) > 1 \/ Len(c) = 1 \/ Len(c) = 0
    <3>1. \A m \in Nat : m > 1 \/ m = 1 \/ m = 0
      OBVIOUS
    <3>. QED  BY <2>8, <3>1
  <2>. QED  BY <2>4, <2>5, <2>6, <2>7
<1>14. \A k \in DOMAIN r : TextTokens(r[k]) <= size \/ \E x \in S : r[k] = <<x>>
  <2>. HIDE DEF X
  <2>. QED  BY <1>10, <1>13
<1>. HIDE DEF X
<1>. QED  BY <1>1, <1>10, <1>11, <1>12, <1>14 DEF r

(* chunk_text loses nothing, and its chunks fit if sentences can be cut. *)
LEMMA ChunkTextOf ==
    ASSUME NEW sentences \in Seq(Passage), NEW size \in Nat \ {0}, NEW overlap \in Nat
    PROVE  LET r == ChunkText(sentences, size, overlap)
           IN  /\ r \in Seq(Seq(Passage))
               /\ Len(sentences) > 0 => Len(r) > 0
               /\ \A i \in DOMAIN sentences : Spans(In(r), sentences[i])
               /\ (\A i \in DOMAIN sentences : Uniform(sentences[i]) \/ ApproxTokens(sentences[i]) <= size) =>
                     \A k \in DOMAIN r : TextTokens(r[k]) <= size
<1>. DEFINE back == Min({overlap, size - 1})
            r == ChunkText(sentences, size, overlap)
            fits == \A i \in DOMAIN sentences : Uniform(sentences[i]) \/ ApproxTokens(sentences[i]) <= size
            S == {p \in Passage : fits => ApproxTokens(p) <= size}
<1>1. back \in Nat
  <2>1. overlap \in Int /\ size - 1 \in Int
    OBVIOUS
  <2>2. back = IF overlap <= size - 1 THEN overlap ELSE size - 1
    BY <2>1, MinOfTwo
  <2>. QED  BY <2>2
<1>. HIDE DEF back
<1>2. ASSUME NEW i \in DOMAIN sentences
      PROVE  CutShort(sentences[i], size, back) \in Seq(S)
  <2>. DEFINE c == CutShort(sentences[i], size, back)
  <2>1. sentences[i] \in Passage
    OBVIOUS
  <2>2. /\ c \in Seq(Passage)
        /\ Uniform(sentences[i]) \/ ApproxTokens(sentences[i]) <= size =>
              \A k \in DOMAIN c : ApproxTokens(c[k]) <= size
    BY <1>1, <2>1, CutShortOf
  <2>. HIDE DEF c
  <2>3. \A k \in 1 .. Len(c) : c[k] \in S
    BY <2>2
  <2>. HIDE DEF S
  <2>4. c \in Seq(S)
    BY <2>2, <2>3
  <2>. QED  BY <2>4 DEF c
<1>3. S \in SUBSET Passage
    OBVIOUS
<1>4. \A x \in S : fits => TextTokens(<<x>>) <= size
    BY TextOfOne
<1>. HIDE DEF S, fits
<1>5. /\ r \in Seq(Seq(Passage))
      /\ Len(sentences) > 0 => Len(r) > 0
      /\ \A i \in DOMAIN sentences : Spans(In(r), sentences[i])
      /\ \A k \in DOMAIN r : TextTokens(r[k]) <= size \/ \E x \in S : r[k] = <<x>>
    BY <1>2, <1>3, ChunkTextIn DEF back
<1>. HIDE DEF r
<1>6. fits => \A k \in DOMAIN r : TextTokens(r[k]) <= size
    BY <1>4, <1>5
<1>. QED  BY <1>5, <1>6 DEF r, fits

(* A fence has three tokens. *)
LEMMA FenceOf ==
    Fence \in Passage /\ ApproxTokens(Fence) = 3 /\ <<Fence>> \in Seq(Passage) /\ TextTokens(<<Fence>>) = 3
<1>1. Fence \in Passage /\ Fence.from = 0 /\ Fence.to = 3 /\ Fence.cjk = 3
  <2>1. Fence = [id |-> "fence", from |-> 0, to |-> 3, cjk |-> 3]
    BY DEF Fence, Stretch
  <2>2. Fence.from = 0 /\ Fence.to = 3 /\ Fence.cjk = 3 /\ Fence = [id |-> Fence.id, from |-> 0, to |-> 3, cjk |-> 3]
    BY <2>1
  <2>3. Fence.id \in Ids
    BY DEF Ids
  <2>4. Fence \in StretchType
    BY <2>2, <2>3 DEF StretchType
  <2>. QED  BY <2>2, <2>4 DEF Passage
<1>2. Chars(Fence) = 3
    BY <1>1 DEF Chars
<1>3. Ideographs(Fence) = 3
  <2>1. {i \in Fence.from .. Fence.to - 1 : i < Fence.cjk} = 0 .. 2
    BY <1>1
  <2>2. Cardinality(0 .. 2) = 3
    <3>1. 0 \in Int /\ 2 \in Int /\ 0 <= 2
      OBVIOUS
    <3>2. Cardinality(0 .. 2) = IF 0 > 2 THEN 0 ELSE 2 - 0 + 1
      BY <3>1, FS_Interval
    <3>. QED  BY <3>2
  <2>. QED  BY <2>1, <2>2 DEF Ideographs
<1>4. ApproxTokens(Fence) = 3
    BY <1>2, <1>3 DEF ApproxTokens
<1>. QED  BY <1>1, <1>4, TextOfOne

(* A text between fences. *)
LEMMA BetweenFences ==
    ASSUME NEW x \in Seq(Passage)
    PROVE  LET y == <<Fence>> \o x \o <<Fence>>
           IN  /\ y \in Seq(Passage) /\ y # <<>> /\ Head(y) = Fence /\ Last(y) = Fence
               /\ TextTokens(y) = TextTokens(x) + 6
               /\ ToSet(y) = ToSet(x) \cup {Fence}
<1>. DEFINE f == <<Fence>>
            a == f \o x
            y == a \o f
            n == Len(x)
<1>1. f \in Seq(Passage) /\ Len(f) = 1 /\ f[1] = Fence /\ TextTokens(f) = 3 /\ Fence \in Passage
    BY FenceOf
<1>2. n \in Nat /\ DOMAIN x = 1 .. n
    OBVIOUS
<1>. HIDE DEF f, n
<1>3. a \in Seq(Passage) /\ TextTokens(a) = TextTokens(f) + TextTokens(x)
    BY <1>1, TokensJoined
<1>4. Len(a) = n + 1 /\ a[1] = Fence /\ \A i \in 1 .. n : a[i + 1] = x[i]
  <2>1. /\ Len(f \o x) = Len(f) + Len(x)
        /\ \A i \in 1 .. Len(f) : (f \o x)[i] = f[i]
        /\ \A i \in Len(f) + 1 .. Len(f) + Len(x) : (f \o x)[i] = x[i - Len(f)]
    BY <1>1, ConcatProperties
  <2>2. \A i \in 1 .. n : a[i + 1] = x[i]
    <3>. SUFFICES ASSUME NEW i \in 1 .. n PROVE a[i + 1] = x[i]
      OBVIOUS
    <3>1. i + 1 \in Len(f) + 1 .. Len(f) + Len(x) /\ (i + 1) - Len(f) = i
      BY <1>1, <1>2 DEF n
    <3>. QED  BY <2>1, <3>1
  <2>. QED  BY <1>1, <1>2, <2>1, <2>2 DEF n
<1>. HIDE DEF a
<1>5. y \in Seq(Passage) /\ TextTokens(y) = TextTokens(a) + TextTokens(f)
    BY <1>1, <1>3, TokensJoined
<1>6. Len(y) = n + 2 /\ y[n + 2] = Fence /\ \A i \in 1 .. n + 1 : y[i] = a[i]
  <2>1. /\ Len(a \o f) = Len(a) + Len(f)
        /\ \A i \in 1 .. Len(a) : (a \o f)[i] = a[i]
        /\ \A i \in Len(a) + 1 .. Len(a) + Len(f) : (a \o f)[i] = f[i - Len(a)]
    <3>1. a \in Seq(Passage) /\ f \in Seq(Passage)
      BY <1>1, <1>3
    <3>. QED  BY <3>1, ConcatProperties
  <2>2. n + 2 \in Len(a) + 1 .. Len(a) + Len(f) /\ (n + 2) - Len(a) = 1
    BY <1>1, <1>2, <1>4
  <2>. QED  BY <1>1, <1>2, <1>4, <2>1, <2>2
<1>7. TextTokens(f) = 3 /\ TextTokens(a) \in Nat /\ TextTokens(x) \in Nat
    BY <1>1, <1>3, TextTokensOf
<1>. HIDE DEF y
<1>8. Head(y) = Fence /\ Last(y) = Fence /\ y # <<>>
    BY <1>2, <1>4, <1>5, <1>6 DEF Last
<1>9. TextTokens(y) = TextTokens(x) + 6
    BY <1>3, <1>5, <1>7
<1>10. ToSet(y) = ToSet(x) \cup {Fence}
  <2>1. DOMAIN y = 1 .. n + 2
    BY <1>5, <1>6
  <2>2. ASSUME NEW p \in ToSet(y) PROVE p \in ToSet(x) \cup {Fence}
    <3>1. PICK i \in 1 .. n + 2 : y[i] = p
      BY <2>1, <2>2 DEF ToSet
    <3>2. CASE i = 1 \/ i = n + 2
      BY <1>2, <1>4, <1>6, <3>1, <3>2
    <3>3. CASE ~(i = 1 \/ i = n + 2)
      <4>1. i - 1 \in 1 .. n /\ (i - 1) + 1 = i /\ i \in 1 .. n + 1
        BY <1>2, <3>3
      <4>2. x[i - 1] = p
        BY <1>4, <1>6, <3>1, <4>1
      <4>. QED  BY <1>2, <4>1, <4>2 DEF ToSet
    <3>. QED  BY <3>2, <3>3
  <2>3. ASSUME NEW p \in ToSet(x) PROVE p \in ToSet(y)
    <3>1. PICK i \in 1 .. n : x[i] = p
      BY <1>2, <2>3 DEF ToSet
    <3>2. i + 1 \in 1 .. n + 1 /\ i + 1 \in 1 .. n + 2
      BY <1>2
    <3>3. y[i + 1] = p
      BY <1>4, <1>6, <3>1, <3>2
    <3>. QED  BY <2>1, <3>2, <3>3 DEF ToSet
  <2>4. Fence \in ToSet(y)
    <3>1. n + 2 \in 1 .. n + 2
      BY <1>2
    <3>. QED  BY <1>6, <2>1, <3>1 DEF ToSet
  <2>. QED  BY <2>2, <2>3, <2>4
<1>. QED  BY <1>5, <1>8, <1>9, <1>10 DEF y, a, f

(* The parts of a code block. *)
LEMMA SplitFenceOf ==
    ASSUME NEW text \in Seq(Passage), text # <<>>, text[1] = Fence,
           NEW size \in Nat, NEW overlap \in Nat
    PROVE  LET r == SplitFence(text, size, overlap)
           IN  /\ r \in Seq(Seq(Passage)) /\ Len(r) > 0
               /\ \A k \in DOMAIN r : Head(r[k]) = Fence /\ Last(r[k]) = Fence
               /\ (size >= 38 /\ \A s \in ToSet(text) : Uniform(s) \/ ApproxTokens(s) <= size - 8) =>
                     \A k \in DOMAIN r : TextTokens(r[k]) <= size
               /\ \A s \in ToSet(text) : Spans(In(r), s)
<1>. DEFINE n == Len(text)
            closed == n > 1 /\ Last(text) = Fence
            end == IF closed THEN n - 1 ELSE n
            body == SubSeq(text, 2, end)
            limit == Max({32, size - 8})
            back == Min({overlap, size \div 4})
            pieces == ChunkText(body, limit, back)
            r == SplitFence(text, size, overlap)
            fits == size >= 38 /\ \A s \in ToSet(text) : Uniform(s) \/ ApproxTokens(s) <= size - 8
<1>1. n \in Nat /\ n > 0 /\ DOMAIN text = 1 .. n /\ \A i \in 1 .. n : text[i] \in Passage
    OBVIOUS
<1>2. Last(text) = text[n]
    BY DEF Last
<1>3. limit \in Nat \ {0} /\ size - 8 <= limit /\ (size >= 38 => limit <= size - 6)
  <2>1. 32 \in Int /\ size - 8 \in Int
    OBVIOUS
  <2>2. limit = IF 32 <= size - 8 THEN size - 8 ELSE 32
    BY <2>1, MinOfTwo
  <2>. HIDE DEF limit
  <2>. QED  BY <2>2
<1>4. back \in Nat
  <2>1. overlap \in Int /\ size \div 4 \in Int /\ size \div 4 >= 0
    OBVIOUS
  <2>2. back = IF overlap <= size \div 4 THEN overlap ELSE size \div 4
    BY <2>1, MinOfTwo
  <2>. HIDE DEF back
  <2>. QED  BY <2>1, <2>2
<1>5. r = IF pieces = <<>> THEN <<text>>
          ELSE [i \in 1 .. Len(pieces) |-> <<Fence>> \o pieces[i] \o <<Fence>>]
    BY DEF SplitFence
<1>. HIDE DEF limit, back, r, closed
<1>13. (closed => end = n - 1) /\ (~closed => end = n)
    OBVIOUS
<1>6. end \in Nat /\ end >= 1 /\ end <= n
    BY <1>1 DEF closed
<1>7. /\ body \in Seq(Passage) /\ Len(body) = end - 1
      /\ \A i \in 1 .. end - 1 : body[i] = text[i + 1]
  <2>1. 2 \in Nat \ {0} /\ 2 <= end + 1
    BY <1>6
  <2>. HIDE DEF end
  <2>2. /\ body \in Seq(Passage) /\ Len(body) = end - 2 + 1
        /\ \A i \in 1 .. end - 2 + 1 : body[i] = text[2 + i - 1]
    BY <1>6, <2>1, SliceOf
  <2>3. end - 2 + 1 = end - 1 /\ \A i \in 1 .. end - 1 : 2 + i - 1 = i + 1
    BY <1>6
  <2>. HIDE DEF body
  <2>. QED  BY <2>2, <2>3
<1>. HIDE DEF end, body
<1>8. /\ pieces \in Seq(Seq(Passage))
      /\ Len(body) > 0 => Len(pieces) > 0
      /\ \A i \in DOMAIN body : Spans(In(pieces), body[i])
      /\ (\A i \in DOMAIN body : Uniform(body[i]) \/ ApproxTokens(body[i]) <= limit) =>
             \A k \in DOMAIN pieces : TextTokens(pieces[k]) <= limit
    BY <1>3, <1>4, <1>7, ChunkTextOf
<1>. HIDE DEF pieces
<1>9. \A i \in 1 .. n : text[i] = Fence \/ \E j \in DOMAIN body : text[i] = body[j]
  <2>. SUFFICES ASSUME NEW i \in 1 .. n, text[i] # Fence
                PROVE  \E j \in DOMAIN body : text[i] = body[j]
    OBVIOUS
  <2>1. i # 1 /\ (closed => i # n)
    BY <1>2 DEF closed
  <2>2. i - 1 \in 1 .. end - 1 /\ (i - 1) + 1 = i
    <3>1. i \in 2 .. end
      <4>. HIDE DEF n
      <4>1. CASE closed
        BY <1>1, <1>13, <2>1, <4>1
      <4>2. CASE ~closed
        BY <1>1, <1>13, <2>1, <4>2
      <4>. QED  BY <4>1, <4>2
    <3>. QED  BY <1>6, <3>1
  <2>3. body[i - 1] = text[i] /\ i - 1 \in DOMAIN body
    BY <1>6, <1>7, <2>2
  <2>. QED  BY <2>3
<1>10. ASSUME fits
       PROVE  \A i \in DOMAIN body : Uniform(body[i]) \/ ApproxTokens(body[i]) <= limit
  <2>. SUFFICES ASSUME NEW i \in DOMAIN body PROVE Uniform(body[i]) \/ ApproxTokens(body[i]) <= limit
    OBVIOUS
  <2>1. i \in 1 .. end - 1 /\ i + 1 \in 1 .. n /\ body[i] = text[i + 1]
    BY <1>1, <1>6, <1>7
  <2>2. body[i] \in ToSet(text) /\ body[i] \in Passage
    BY <1>1, <2>1 DEF ToSet
  <2>3. ApproxTokens(body[i]) \in Nat
    <3>1. ApproxTokens(body[i]) \in 0 .. Chars(body[i]) /\ Chars(body[i]) \in Nat
      BY <2>2, TokensOf
    <3>. QED  BY <3>1
  <2>4. Uniform(body[i]) \/ ApproxTokens(body[i]) <= size - 8
    BY <1>10, <2>2
  <2>. HIDE DEF fits
  <2>. QED  BY <1>3, <2>3, <2>4
<1>. HIDE DEF fits
<1>11. CASE pieces = <<>>
  <2>1. Len(body) = 0
    BY <1>6, <1>7, <1>8, <1>11
  <2>2. r = <<text>>
    BY <1>5, <1>11
  <2>3. end = 1
    BY <1>6, <1>7, <2>1
  <2>4. n = 1 \/ (n = 2 /\ text[2] = Fence)
    <3>1. CASE closed
      <4>1. n = 2
        <5>. HIDE DEF n
        <5>. QED  BY <1>1, <1>13, <2>3, <3>1
      <4>2. text[n] = Fence
        BY <1>2, <3>1 DEF closed
      <4>. QED  BY <4>1, <4>2
    <3>2. CASE ~closed
      BY <1>13, <2>3, <3>2
    <3>. QED  BY <3>1, <3>2
  <2>5. TextTokens(text) <= 6
    <3>1. CASE n = 1
      <4>1. text = <<Fence>>
        BY <1>1, <3>1
      <4>. QED  BY <4>1, FenceOf
    <3>2. CASE n = 2 /\ text[2] = Fence
      <4>1. text = <<Fence>> \o <<Fence>>
        BY <1>1, <3>2
      <4>2. TextTokens(<<Fence>> \o <<Fence>>) = 3 + 3
        BY FenceOf, TokensJoined
      <4>. QED  BY <4>1, <4>2
    <3>. QED  BY <2>4, <3>1, <3>2
  <2>6. Head(text) = Fence /\ Last(text) = Fence
    BY <1>1, <1>2, <2>4
  <2>7. Len(r) = 1 /\ DOMAIN r = {1} /\ r[1] = text /\ r \in Seq(Seq(Passage))
    <3>1. text \in Seq(Passage)
      OBVIOUS
    <3>. QED  BY <2>2, <3>1
  <2>8. size >= 38 => TextTokens(text) <= size
    <3>1. TextTokens(text) \in Nat
      BY TextTokensOf
    <3>. QED  BY <2>5, <3>1
  <2>9. ASSUME NEW s \in ToSet(text) PROVE Spans(In(r), s)
    BY <2>7, InTexts
  <2>. QED  BY <2>6, <2>7, <2>8, <2>9 DEF r, fits
<1>12. CASE pieces # <<>>
  <2>. DEFINE m == Len(pieces)
  <2>1. m \in Nat /\ m > 0 /\ DOMAIN pieces = 1 .. m /\ \A i \in 1 .. m : pieces[i] \in Seq(Passage)
    BY <1>8, <1>12
  <2>. HIDE DEF m
  <2>2. r = [i \in 1 .. m |-> <<Fence>> \o pieces[i] \o <<Fence>>]
    BY <1>5, <1>12 DEF m
  <2>3. ASSUME NEW i \in 1 .. m
        PROVE  /\ r[i] \in Seq(Passage) /\ Head(r[i]) = Fence /\ Last(r[i]) = Fence
               /\ TextTokens(r[i]) = TextTokens(pieces[i]) + 6
               /\ ToSet(r[i]) = ToSet(pieces[i]) \cup {Fence}
               /\ TextTokens(pieces[i]) \in Nat
    <3>. DEFINE x == pieces[i]
    <3>1. x \in Seq(Passage)
      BY <2>1
    <3>2. r[i] = <<Fence>> \o x \o <<Fence>>
      BY <2>2
    <3>. HIDE DEF x
    <3>3. TextTokens(x) \in Nat
      BY <3>1, TextTokensOf
    <3>4. /\ r[i] \in Seq(Passage) /\ Head(r[i]) = Fence /\ Last(r[i]) = Fence
          /\ TextTokens(r[i]) = TextTokens(x) + 6
          /\ ToSet(r[i]) = ToSet(x) \cup {Fence}
      BY <3>1, <3>2, BetweenFences
    <3>. QED  BY <3>3, <3>4 DEF x
  <2>4. r \in Seq(Seq(Passage)) /\ Len(r) = m /\ DOMAIN r = 1 .. m
    <3>1. \A i \in 1 .. m : <<Fence>> \o pieces[i] \o <<Fence>> \in Seq(Passage)
      BY <2>2, <2>3
    <3>. DEFINE P == Seq(Passage)
                F(i) == <<Fence>> \o pieces[i] \o <<Fence>>
    <3>2. r = [i \in 1 .. m |-> F(i)] /\ \A i \in 1 .. m : F(i) \in P
      BY <2>2, <3>1
    <3>. HIDE DEF P, F
    <3>3. r \in Seq(P) /\ Len(r) = m /\ DOMAIN r = 1 .. m
      BY <2>1, <3>2
    <3>. QED  BY <3>3 DEF P
  <2>5. ASSUME fits, NEW k \in 1 .. m
        PROVE  TextTokens(r[k]) <= size
    <3>1. TextTokens(pieces[k]) <= limit
      BY <1>8, <1>10, <2>1, <2>5
    <3>2. TextTokens(r[k]) = TextTokens(pieces[k]) + 6 /\ TextTokens(pieces[k]) \in Nat
      BY <2>3
    <3>3. size >= 38
      BY <2>5 DEF fits
    <3>. QED  BY <1>3, <3>1, <3>2, <3>3
  <2>6. ASSUME NEW s \in ToSet(text) PROVE Spans(In(r), s)
    <3>1. ASSUME NEW k \in 1 .. m, NEW p \in ToSet(pieces[k]) PROVE Spans(In(r), p)
      <4>1. k \in DOMAIN r /\ p \in ToSet(r[k])
        BY <2>3, <2>4
      <4>. QED  BY <4>1, InTexts
    <3>2. \A p \in In(pieces) : Spans(In(r), p)
      BY <2>1, <3>1 DEF In
    <3>3. CASE s = Fence
      <4>1. 1 \in DOMAIN r /\ Fence \in ToSet(r[1])
        BY <2>1, <2>3, <2>4
      <4>. QED  BY <3>3, <4>1, InTexts
    <3>4. CASE \E j \in DOMAIN body : s = body[j]
      <4>1. Spans(In(pieces), s)
        BY <1>8, <3>4
      <4>. QED  BY <3>2, <4>1, SpansMore
    <3>5. PICK i \in 1 .. n : text[i] = s
      BY <1>1, <2>6 DEF ToSet
    <3>. QED  BY <1>9, <3>3, <3>4, <3>5
  <2>7. Len(r) > 0 /\ \A k \in DOMAIN r : Head(r[k]) = Fence /\ Last(r[k]) = Fence
    BY <2>1, <2>3, <2>4
  <2>. QED  BY <2>4, <2>5, <2>6, <2>7 DEF fits, r
<1>. QED  BY <1>11, <1>12

(* A part of a table is a list of its rows under the head. *)
LEMMA PartOfTable ==
    ASSUME NEW head \in Seq(Passage), NEW rows \in Seq(Passage)
    PROVE  LET part == head \o rows
               h == Len(head)
           IN  /\ part \in Seq(Passage) /\ Len(part) = h + Len(rows)
               /\ SubSeq(part, 1, h) = head /\ RowsOf(part, h) = rows
<1>. DEFINE part == head \o rows
            h == Len(head)
            n == Len(rows)
<1>1. /\ part \in Seq(Passage) /\ Len(part) = h + n
      /\ \A i \in 1 .. h : part[i] = head[i]
      /\ \A i \in h + 1 .. h + n : part[i] = rows[i - h]
    BY ConcatProperties
<1>2. h \in Nat /\ n \in Nat
    OBVIOUS
<1>. HIDE DEF part
<1>3. SubSeq(part, 1, h) = head
  <2>. DEFINE q == SubSeq(part, 1, h)
  <2>1. 1 \in Nat \ {0} /\ 1 <= h + 1 /\ h <= Len(part)
    BY <1>1, <1>2
  <2>. HIDE DEF h
  <2>2. q \in Seq(Passage) /\ Len(q) = h - 1 + 1 /\ \A i \in 1 .. h - 1 + 1 : q[i] = part[1 + i - 1]
    BY <1>1, <1>2, <2>1, SliceOf
  <2>. HIDE DEF q
  <2>3. Len(q) = Len(head) /\ \A i \in 1 .. Len(q) : q[i] = head[i]
    BY <1>1, <1>2, <2>2 DEF h
  <2>4. q = head
    BY <2>2, <2>3, SeqEqual
  <2>. QED  BY <2>4 DEF q
<1>4. RowsOf(part, h) = rows
  <2>. DEFINE a == h + 1
              b == h + n
              q == SubSeq(part, a, b)
  <2>1. a \in Nat \ {0} /\ b \in Nat /\ a <= b + 1 /\ b <= Len(part) /\ b - a + 1 = n
        /\ \A i \in 1 .. n : a + i - 1 \in h + 1 .. h + n /\ (a + i - 1) - h = i
    BY <1>1, <1>2
  <2>2. RowsOf(part, h) = q
    BY <1>1 DEF RowsOf
  <2>. HIDE DEF a, b, h, n
  <2>3. q \in Seq(Passage) /\ Len(q) = n /\ \A i \in 1 .. n : q[i] = part[a + i - 1]
    BY <1>1, <2>1, SliceOf
  <2>. HIDE DEF q
  <2>4. \A i \in 1 .. n : q[i] = rows[i]
    BY <1>1, <2>1, <2>3
  <2>5. q = rows
    BY <2>3, <2>4, SeqEqual DEF n
  <2>. QED  BY <2>2, <2>5
<1>. QED  BY <1>1, <1>3, <1>4 DEF part

(* The loop of SplitTable stays in its states. *)
LEMMA AddRowType ==
    ASSUME NEW s \in TableParts, NEW row \in Passage, NEW head \in Seq(Passage), NEW size
    PROVE  AddRow(s, row, head, size) \in TableParts
<1>1. s.pieces \in Seq(Seq(Passage)) /\ s.current \in Seq(Passage)
    BY DEF TableParts
<1>2. Append(s.pieces, s.current) \in Seq(Seq(Passage)) /\ Append(s.current, row) \in Seq(Passage)
      /\ Append(head, row) \in Seq(Passage)
    BY <1>1
<1>3. [pieces |-> Append(s.pieces, s.current), current |-> Append(head, row)] \in TableParts
    BY <1>2 DEF TableParts
<1>4. [s EXCEPT !.current = Append(@, row)] \in TableParts
    BY <1>2 DEF TableParts
<1>. QED  BY <1>3, <1>4 DEF AddRow

(* SplitTable folds its rows. *)
LEMMA TableRuns ==
    ASSUME NEW rows \in Seq(Passage), NEW head \in Seq(Passage), NEW size \in Nat
    PROVE  \E f : /\ Run(f, Len(rows), TableParts, NoParts(head), RowStep(rows, head, size))
                  /\ TableEnd(rows, head, size) = f[Len(rows)]
<1>. DEFINE n == Len(rows)
            V == TableParts
            start == NoParts(head)
            step == RowStep(rows, head, size)
            iter == CHOOSE it : it = [s \in SUBSET (1 .. n) |->
                       IF s = {} THEN start ELSE AddRow(it[s \ {Max(s)}], rows[Max(s)], head, size)]
<1>1. n \in Nat /\ DOMAIN rows = 1 .. n /\ \A i \in 1 .. n : rows[i] \in Passage
    OBVIOUS
<1>2. start \in V /\ step \in [1 .. n -> [V -> V]]
  <2>1. start \in V
    BY DEF NoParts, TableParts
  <2>2. \A i \in 1 .. n : \A v \in V : AddRow(v, rows[i], head, size) \in V
    BY <1>1, AddRowType
  <2>. HIDE DEF V
  <2>. QED  BY <2>1, <2>2 DEF RowStep, V
<1>3. TableEnd(rows, head, size) = iter[1 .. n]
    BY <1>1 DEF TableEnd, FoldLeft, MapThenFoldSet
<1>. HIDE DEF n, V, start
<1>4. iter = [s \in SUBSET (1 .. n) |->
                       IF s = {} THEN start ELSE AddRow(iter[s \ {Max(s)}], rows[Max(s)], head, size)]
  <2>1. PICK it : Folded(it, n, V, start, step)
    <3>1. n \in Nat
      BY <1>1
    <3>. HIDE DEF step
    <3>. QED  BY <3>1, <1>2, FoldExists
  <2>2. ASSUME NEW s \in SUBSET (1 .. n), s # {}
        PROVE  it[s] = AddRow(it[s \ {Max(s)}], rows[Max(s)], head, size)
    <3>1. Max(s) \in 1 .. n /\ s \ {Max(s)} \in SUBSET (1 .. n)
      BY <1>1, <2>2, MaxOf
    <3>2. it[s \ {Max(s)}] \in V
      BY <2>1, <3>1 DEF Folded
    <3>3. it[s] = step[Max(s)][it[s \ {Max(s)}]]
      BY <2>1, <2>2 DEF Folded
    <3>. QED  BY <3>1, <3>2, <3>3 DEF RowStep, n, V
  <2>3. it = [s \in SUBSET (1 .. n) |-> it[s]] /\ it[{}] = start
    BY <2>1 DEF Folded
  <2>4. it = [s \in SUBSET (1 .. n) |->
                       IF s = {} THEN start ELSE AddRow(it[s \ {Max(s)}], rows[Max(s)], head, size)]
    BY <2>2, <2>3
  <2>. QED  BY <2>4
<1>. HIDE DEF iter
<1>5. FoldSteps(iter, n, V, start, step)
  <2>1. ASSUME NEW s \in SUBSET (1 .. n), s # {}, iter[s \ {Max(s)}] \in V
        PROVE  iter[s] = step[Max(s)][iter[s \ {Max(s)}]]
    <3>1. Max(s) \in 1 .. n
      BY <1>1, <2>1, MaxOf
    <3>2. iter[s] = AddRow(iter[s \ {Max(s)}], rows[Max(s)], head, size)
      BY <1>4, <2>1
    <3>. QED  BY <2>1, <3>1, <3>2 DEF RowStep, n, V
  <2>2. iter[{}] = start
    BY <1>4
  <2>. HIDE DEF step
  <2>. QED  BY <2>1, <2>2 DEF FoldSteps
<1>6. EndsAt(n, V, start, step, iter[1 .. n])
  <2>1. n \in Nat
    BY <1>1
  <2>2. start \in V
    BY <1>2
  <2>. HIDE DEF step
  <2>3. step \in [1 .. n -> [V -> V]]
    BY <1>2
  <2>4. FoldSteps(iter, n, V, start, step)
    BY <1>5
  <2>. QED  BY <2>1, <2>2, <2>3, <2>4, FoldRuns
<1>. HIDE DEF step
<1>7. PICK f : Run(f, n, V, start, step) /\ f[n] = iter[1 .. n]
    BY <1>6 DEF EndsAt
<1>8. TableEnd(rows, head, size) = f[n]
    BY <1>3, <1>7
<1>9. Run(f, Len(rows), TableParts, NoParts(head), RowStep(rows, head, size))
    BY <1>7 DEF n, V, start, step
<1>10. TableEnd(rows, head, size) = f[Len(rows)]
    BY <1>8 DEF n
<1>. QED  BY <1>9, <1>10

(* Appending to what stands behind a sequence. *)
LEMMA AppendBehind ==
    \A a \in Seq(Passage), b \in Seq(Passage), x \in Passage : Append(a \o b, x) = a \o Append(b, x)
<1>. SUFFICES ASSUME NEW a \in Seq(Passage), NEW b \in Seq(Passage), NEW x \in Passage
              PROVE  Append(a \o b, x) = a \o Append(b, x)
    OBVIOUS
<1>. DEFINE one == <<x>>
            ab == a \o b
<1>1. one \in Seq(Passage) /\ ab \in Seq(Passage)
    OBVIOUS
<1>2. Append(ab, x) = ab \o one
    BY <1>1, AppendIsConcat
<1>3. Append(b, x) = b \o one
    BY AppendIsConcat
<1>. HIDE DEF one
<1>4. (a \o b) \o one = a \o (b \o one)
    BY <1>1, ConcatAssociative
<1>. QED  BY <1>2, <1>3, <1>4

(* One more row keeps what the loop of SplitTable has in parts. *)
LEMMA TableGoesOn ==
    ASSUME NEW rows \in Seq(Passage), NEW head \in Seq(Passage), NEW size \in Nat,
           NEW k \in 0 .. Len(rows) - 1, NEW s, TableAt(s, rows, head, size, k)
    PROVE  TableAt(AddRow(s, rows[k + 1], head, size), rows, head, size, k + 1)
<1>. DEFINE row == rows[k + 1]
            T == Seq(Passage)
            n == k + 1
<1>1. PICK parts \in Seq(Seq(Passage)), last \in Seq(Passage) :
          /\ s = [pieces |-> Headed(head, parts), current |-> head \o last]
          /\ FlattenSeq(parts) \o last = SubSeq(rows, 1, k)
          /\ RowsFit(head, last, size) /\ \A j \in 1 .. Len(parts) : RowsFit(head, parts[j], size)
    BY DEF TableAt
<1>2. row \in Passage /\ k \in Nat /\ k < Len(rows)
    OBVIOUS
<1>3. Append(SubSeq(rows, 1, k), row) = SubSeq(rows, 1, n)
  <2>1. 1 \in Nat \ {0} /\ 1 <= k + 1
    BY <1>2
  <2>. QED  BY <1>2, <2>1, SliceGrows
<1>. HIDE DEF row
<1>4. s.pieces = Headed(head, parts) /\ s.current = head \o last
    BY <1>1
<1>5. head \o last \in Seq(Passage) /\ Len(head \o last) = Len(head) + Len(last)
    BY PartOfTable
<1>6. Append(last, row) \in Seq(Passage) /\ Len(Append(last, row)) = Len(last) + 1
      /\ Append(last, row) = last \o <<row>> /\ <<row>> \in Seq(Passage) /\ Len(<<row>>) = 1
      /\ Append(head, row) = head \o <<row>>
    BY <1>2, AppendIsConcat
<1>7. Append(head \o last, row) = head \o Append(last, row)
    BY <1>2, AppendBehind
<1>. DEFINE all == FlattenSeq(parts)
            new == s.current
<1>8. all \in Seq(Passage) /\ FlattenSeq(Append(parts, last)) = all \o last
    BY <1>1, FlattenMore
<1>9. CASE Len(new) > Len(head) /\ TextTokens(Append(new, row)) > size
  <2>. DEFINE more == Append(parts, last)
  <2>1. AddRow(s, row, head, size) = [pieces |-> Append(s.pieces, s.current), current |-> Append(head, row)]
    BY <1>9 DEF AddRow
  <2>2. /\ more \in Seq(Seq(Passage)) /\ Len(more) = Len(parts) + 1 /\ more[Len(parts) + 1] = last
        /\ \A j \in 1 .. Len(parts) : more[j] = parts[j]
        /\ Len(parts) \in Nat
    <3>. HIDE DEF T
    <3>1. parts \in Seq(T) /\ last \in T
      BY <1>1 DEF T
    <3>2. /\ more \in Seq(T) /\ Len(more) = Len(parts) + 1 /\ more[Len(parts) + 1] = last
          /\ \A j \in 1 .. Len(parts) : more[j] = parts[j]
      BY <3>1, AppendProperties
    <3>3. Len(parts) \in Nat
      BY <3>1
    <3>. QED  BY <3>2, <3>3 DEF T
  <2>. HIDE DEF more
  <2>3. Append(s.pieces, s.current) = Headed(head, more)
    <3>. DEFINE x == head \o last
                h == Headed(head, parts)
                m == Len(parts)
    <3>1. h = [j \in 1 .. m |-> head \o parts[j]]
      BY DEF Headed
    <3>2. Headed(head, more) = [j \in 1 .. m + 1 |-> head \o more[j]]
      BY <2>2 DEF Headed
    <3>3. \A j \in 1 .. m : head \o parts[j] \in T
      <4>1. \A j \in 1 .. m : parts[j] \in Seq(Passage)
        BY <1>1
      <4>. QED  BY <4>1, PartOfTable
    <3>4. x \in T
      BY <1>5
    <3>. DEFINE F(j) == head \o parts[j]
                G(j) == head \o more[j]
    <3>5. G(m + 1) = x /\ \A j \in 1 .. m : G(j) = F(j)
      BY <2>2
    <3>6. m \in Nat /\ h = [j \in 1 .. m |-> F(j)] /\ Headed(head, more) = [j \in 1 .. m + 1 |-> G(j)]
          /\ \A j \in 1 .. m : F(j) \in T
      BY <2>2, <3>1, <3>2, <3>3
    <3>. HIDE DEF T, F, G, x, h, m
    <3>7. h \in Seq(T) /\ Len(h) = m /\ \A j \in 1 .. m : h[j] = F(j)
      BY <3>6
    <3>. DEFINE g == Append(h, x)
    <3>8. g \in Seq(T) /\ Len(g) = m + 1 /\ g[m + 1] = x /\ \A j \in 1 .. m : g[j] = h[j]
      BY <3>4, <3>7, AppendProperties
    <3>. HIDE DEF g
    <3>9. g = [j \in 1 .. m + 1 |-> G(j)]
      <4>1. \A j \in 1 .. m + 1 : g[j] = G(j)
        <5>1. \A j \in 1 .. m + 1 : j = m + 1 \/ j \in 1 .. m
          BY <3>6
        <5>. QED  BY <3>5, <3>7, <3>8, <5>1
      <4>2. g = [j \in 1 .. m + 1 |-> g[j]]
        BY <3>8
      <4>. QED  BY <4>1, <4>2
    <3>10. Append(s.pieces, s.current) = g
      BY <1>4 DEF g, h, x
    <3>. QED  BY <3>6, <3>9, <3>10
  <2>4. FlattenSeq(more) \o <<row>> = SubSeq(rows, 1, n)
    <3>1. FlattenSeq(more) = SubSeq(rows, 1, k)
      BY <1>1, <1>8 DEF more
    <3>2. SubSeq(rows, 1, k) \in Seq(Passage)
      <4>1. all \o last \in Seq(Passage)
        BY <1>8, ConcatProperties
      <4>. QED  BY <1>1, <4>1
    <3>3. Append(SubSeq(rows, 1, k), row) = SubSeq(rows, 1, k) \o <<row>>
      BY <1>2, <3>2, AppendIsConcat
    <3>. QED  BY <1>3, <3>1, <3>3
  <2>5. RowsFit(head, <<row>>, size)
    BY <1>6 DEF RowsFit
  <2>6. \A j \in 1 .. Len(more) : RowsFit(head, more[j], size)
    <3>1. \A j \in 1 .. Len(more) : j = Len(parts) + 1 \/ j \in 1 .. Len(parts)
      BY <2>2
    <3>. QED  BY <1>1, <2>2, <3>1
  <2>7. AddRow(s, row, head, size) = [pieces |-> Headed(head, more), current |-> head \o <<row>>]
    BY <1>6, <2>1, <2>3
  <2>. HIDE DEF n
  <2>. QED  BY <1>6, <2>2, <2>4, <2>5, <2>6, <2>7 DEF TableAt, row, n
<1>10. CASE ~(Len(new) > Len(head) /\ TextTokens(Append(new, row)) > size)
  <2>. DEFINE more == Append(last, row)
  <2>1. AddRow(s, row, head, size) = [s EXCEPT !.current = Append(@, row)]
    BY <1>10 DEF AddRow
  <2>2. AddRow(s, row, head, size) = [pieces |-> Headed(head, parts), current |-> head \o more]
    BY <1>1, <1>7, <2>1
  <2>3. all \o more = SubSeq(rows, 1, n)
    <3>. HIDE DEF all
    <3>1. all \o more = Append(all \o last, row)
      <4>1. row \in Passage /\ all \in Seq(Passage) /\ last \in Seq(Passage)
        BY <1>1, <1>2, <1>8
      <4>2. all \o Append(last, row) = Append(all \o last, row)
        BY <4>1, AppendBehind
      <4>. QED  BY <4>2
    <3>. QED  BY <1>1, <1>3, <3>1 DEF all
  <2>4. RowsFit(head, more, size)
    <3>1. CASE Len(last) = 0
      BY <1>6, <3>1 DEF RowsFit
    <3>2. CASE Len(last) > 0
      <4>1. Len(new) > Len(head)
        BY <1>4, <1>5, <3>2
      <4>2. ~(TextTokens(Append(new, row)) > size)
        BY <1>10, <4>1
      <4>3. Append(new, row) = head \o more
        BY <1>4, <1>7
      <4>4. TextTokens(head \o more) \in Nat
        <5>1. head \o more \in Seq(Passage)
          BY <1>6, PartOfTable
        <5>. QED  BY <5>1, TextTokensOf
      <4>5. TextTokens(head \o more) <= size
        BY <4>2, <4>3, <4>4
      <4>. QED  BY <4>5 DEF RowsFit
    <3>. QED  BY <3>1, <3>2
  <2>5. more \in Seq(Passage)
    BY <1>6
  <2>. HIDE DEF n, more
  <2>. QED  BY <1>1, <2>2, <2>3, <2>4, <2>5 DEF TableAt, row, n
<1>. QED  BY <1>9, <1>10 DEF row

(* A member of a flattened sequence is a member of one of its parts. *)
LEMMA InFlat ==
    ASSUME NEW S, NEW c \in Seq(Seq(S)), NEW x \in ToSet(FlattenSeq(c))
    PROVE  \E k \in DOMAIN c : x \in ToSet(c[k])
<1>. DEFINE n == Len(c)
            U == In(c)
<1>1. n \in Nat /\ DOMAIN c = 1 .. n /\ \A k \in 1 .. n : c[k] \in Seq(S)
    OBVIOUS
<1>. HIDE DEF U, n
<1>2. ASSUME NEW k \in 1 .. n PROVE c[k] \in Seq(U)
  <2>. DEFINE a == c[k]
  <2>1. a \in Seq(S)
    BY <1>1
  <2>2. \A i \in DOMAIN a : a[i] \in U
    BY <1>1 DEF U, In, ToSet
  <2>. HIDE DEF a
  <2>3. Len(a) \in Nat /\ DOMAIN a = 1 .. Len(a) /\ a = [i \in 1 .. Len(a) |-> a[i]]
    BY <2>1
  <2>4. a \in Seq(U)
    BY <2>2, <2>3
  <2>. QED  BY <2>4 DEF a
<1>. DEFINE V == Seq(U)
<1>3. c \in Seq(V)
  <2>1. \A k \in 1 .. n : c[k] \in V
    BY <1>2
  <2>2. c = [k \in 1 .. n |-> c[k]]
    BY <1>1 DEF n
  <2>. HIDE DEF V
  <2>3. c \in [1 .. n -> V]
    BY <2>1, <2>2
  <2>. QED  BY <1>1, <2>3
<1>4. FlattenSeq(c) \in Seq(U)
    BY <1>3, FlattenMore
<1>5. x \in U
    BY <1>4 DEF ToSet
<1>. QED  BY <1>5 DEF U, In

(* What the loop of SplitTable ends with. *)
LEMMA TableEnds ==
    ASSUME NEW rows \in Seq(Passage), NEW head \in Seq(Passage), NEW size \in Nat
    PROVE  TableAt(TableEnd(rows, head, size), rows, head, size, Len(rows))
<1>. DEFINE n == Len(rows)
            V == TableParts
            start == NoParts(head)
            step == RowStep(rows, head, size)
            P(s, k) == TableAt(s, rows, head, size, k)
<1>1. n \in Nat
    OBVIOUS
<1>2. PICK f : Run(f, n, V, start, step) /\ TableEnd(rows, head, size) = f[n]
    BY TableRuns
<1>. HIDE DEF step, n, start
<1>3. /\ f \in [0 .. n -> V] /\ f[0] = start
      /\ \A k \in 1 .. n : f[k] = AddRow(f[k - 1], rows[k], head, size)
  <2>1. f \in [0 .. n -> V] /\ f[0] = start /\ \A k \in 1 .. n : f[k] = step[k][f[k - 1]]
    BY <1>2 DEF Run
  <2>2. ASSUME NEW k \in 1 .. n PROVE step[k][f[k - 1]] = AddRow(f[k - 1], rows[k], head, size)
    <3>1. k - 1 \in 0 .. n
      BY <1>1
    <3>2. f[k - 1] \in V
      BY <2>1, <3>1
    <3>. HIDE DEF V
    <3>. QED  BY <3>2 DEF step, RowStep, V, n
  <2>. QED  BY <2>1, <2>2
<1>. DEFINE T == {k \in 0 .. n : P(f[k], k)}
<1>4. P(start, 0)
  <2>. DEFINE e == <<>>
  <2>1. e \in Seq(Seq(Passage)) /\ e \in Seq(Passage) /\ Len(e) = 0 /\ FlattenSeq(e) = e
    BY FlattenMore
  <2>2. Headed(head, e) = e
    BY <2>1 DEF Headed
  <2>3. head \o e = head /\ e \o e = e
    BY ConcatEmptySeq
  <2>4. SubSeq(rows, 1, 0) = e
    <3>1. 1 \in Int /\ 0 \in Int /\ 0 < 1
      OBVIOUS
    <3>. QED  BY <3>1, SubSeqEmpty
  <2>5. start = [pieces |-> Headed(head, e), current |-> head \o e]
    BY <2>2, <2>3 DEF start, NoParts
  <2>6. RowsFit(head, e, size) /\ \A j \in 1 .. Len(e) : RowsFit(head, e[j], size)
    BY <2>1 DEF RowsFit
  <2>7. FlattenSeq(e) \o e = SubSeq(rows, 1, 0)
    BY <2>1, <2>3, <2>4
  <2>. HIDE DEF e
  <2>. QED  BY <2>1, <2>5, <2>6, <2>7 DEF TableAt
<1>5. 0 \in T
    BY <1>1, <1>3, <1>4
<1>6. \A k \in 0 .. n - 1 : k \in T => k + 1 \in T
  <2>. SUFFICES ASSUME NEW k \in 0 .. n - 1, P(f[k], k) PROVE k + 1 \in 0 .. n /\ P(f[k + 1], k + 1)
    OBVIOUS
  <2>1. k + 1 \in 1 .. n /\ (k + 1) - 1 = k /\ k + 1 \in 0 .. n
    BY <1>1
  <2>2. f[k + 1] = AddRow(f[k], rows[k + 1], head, size)
    BY <1>3, <2>1
  <2>3. k \in 0 .. Len(rows) - 1
    BY DEF n
  <2>4. TableAt(AddRow(f[k], rows[k + 1], head, size), rows, head, size, k + 1)
    BY <2>3, TableGoesOn
  <2>. QED  BY <2>1, <2>2, <2>4
<1>7. P(f[n], n)
  <2>. HIDE DEF T
  <2>1. \A k \in 0 .. n : k \in T
    BY <1>1, <1>5, <1>6, UpTo
  <2>2. n \in T
    BY <1>1, <2>1
  <2>. QED  BY <2>2 DEF T
<1>. QED  BY <1>2, <1>7 DEF n

(* The parts of a table: all rows, the head over every part. *)
LEMMA SplitTableOf ==
    ASSUME NEW text \in Seq(Passage), NEW header \in 0 .. Len(text), NEW size \in Nat
    PROVE  LET r == SplitTable(text, header, size)
           IN  /\ r \in Seq(Seq(Passage)) /\ Len(r) > 0
               /\ AllRows(r, header) = RowsOf(text, header)
               /\ \A k \in DOMAIN r : /\ SubSeq(r[k], 1, header) = SubSeq(text, 1, header)
                                      /\ Len(r[k]) > header + 1 => TextTokens(r[k]) <= size
               /\ \A s \in ToSet(text) : Spans(In(r), s)
<1>. DEFINE head == SubSeq(text, 1, header)
            rows == RowsOf(text, header)
            end == TableEnd(rows, head, size)
            r == SplitTable(text, header, size)
            n == Len(text)
<1>. SUFFICES /\ r \in Seq(Seq(Passage)) /\ Len(r) > 0
              /\ AllRows(r, header) = RowsOf(text, header)
              /\ \A k \in DOMAIN r : /\ SubSeq(r[k], 1, header) = SubSeq(text, 1, header)
                                     /\ Len(r[k]) > header + 1 => TextTokens(r[k]) <= size
              /\ \A s \in ToSet(text) : Spans(In(r), s)
    OBVIOUS
<1>1. header \in Nat /\ n \in Nat /\ header <= n /\ DOMAIN text = 1 .. n
    OBVIOUS
<1>2. /\ head \in Seq(Passage) /\ Len(head) = header
      /\ \A i \in 1 .. header : head[i] = text[i]
  <2>1. 1 \in Nat \ {0} /\ 1 <= header + 1 /\ header <= Len(text)
    BY <1>1
  <2>2. /\ SubSeq(text, 1, header) \in Seq(Passage) /\ Len(SubSeq(text, 1, header)) = header - 1 + 1
        /\ \A i \in 1 .. header - 1 + 1 : SubSeq(text, 1, header)[i] = text[1 + i - 1]
    BY <1>1, <2>1, SliceOf
  <2>3. header - 1 + 1 = header /\ \A i \in 1 .. header : 1 + i - 1 = i
    BY <1>1
  <2>. HIDE DEF n
  <2>. QED  BY <2>2, <2>3
<1>3. /\ rows \in Seq(Passage) /\ Len(rows) = n - header
      /\ \A i \in 1 .. n - header : rows[i] = text[header + i]
  <2>. DEFINE a == header + 1
  <2>1. a \in Nat \ {0} /\ a <= n + 1 /\ n - a + 1 = n - header /\ \A i \in 1 .. n - header : a + i - 1 = header + i
    BY <1>1
  <2>2. rows = SubSeq(text, a, n)
    BY DEF RowsOf
  <2>. HIDE DEF a
  <2>3. /\ SubSeq(text, a, n) \in Seq(Passage) /\ Len(SubSeq(text, a, n)) = n - a + 1
        /\ \A i \in 1 .. n - a + 1 : SubSeq(text, a, n)[i] = text[a + i - 1]
    BY <1>1, <2>1, SliceOf
  <2>. HIDE DEF n, rows
  <2>. QED  BY <2>1, <2>2, <2>3
<1>4. r = Append(end.pieces, end.current)
    BY DEF SplitTable, TableEnd, NoParts, RowsOf
<1>. HIDE DEF head, rows, r
<1>5. TableAt(end, rows, head, size, Len(rows))
    BY <1>2, <1>3, TableEnds
<1>. HIDE DEF end
<1>6. PICK parts \in Seq(Seq(Passage)), last \in Seq(Passage) :
          /\ end = [pieces |-> Headed(head, parts), current |-> head \o last]
          /\ FlattenSeq(parts) \o last = SubSeq(rows, 1, Len(rows))
          /\ RowsFit(head, last, size) /\ \A j \in 1 .. Len(parts) : RowsFit(head, parts[j], size)
    BY <1>5 DEF TableAt
<1>. DEFINE T == Seq(Passage)
            m == Len(parts)
            all == Append(parts, last)
<1>7. /\ m \in Nat /\ all \in Seq(T) /\ Len(all) = m + 1 /\ all[m + 1] = last
      /\ \A j \in 1 .. m : all[j] = parts[j]
  <2>1. parts \in Seq(T) /\ last \in T
    BY <1>6
  <2>. HIDE DEF T
  <2>2. m \in Nat
    BY <2>1
  <2>. QED  BY <2>1, <2>2, AppendProperties
<1>8. FlattenSeq(all) = rows
  <2>1. FlattenSeq(all) = FlattenSeq(parts) \o last
    BY FlattenMore
  <2>2. SubSeq(rows, 1, Len(rows)) = rows
    BY <1>3, SubSeqFull
  <2>. QED  BY <1>6, <2>1, <2>2
<1>. HIDE DEF m, all
<1>9. \A j \in 1 .. m + 1 : all[j] \in T /\ RowsFit(head, all[j], size)
  <2>1. \A j \in 1 .. m + 1 : j = m + 1 \/ j \in 1 .. m
    BY <1>7
  <2>2. \A j \in 1 .. m + 1 : all[j] \in T
    <3>. HIDE DEF T
    <3>. QED  BY <1>7
  <2>3. \A j \in 1 .. m : RowsFit(head, parts[j], size)
    BY <1>6 DEF m
  <2>. QED  BY <1>6, <1>7, <2>1, <2>2, <2>3
<1>10. /\ r \in Seq(T) /\ Len(r) = m + 1 /\ DOMAIN r = 1 .. m + 1
       /\ \A j \in 1 .. m + 1 : r[j] = head \o all[j]
  <2>. DEFINE h == Headed(head, parts)
              x == head \o last
              F(j) == head \o parts[j]
  <2>1. h = [j \in 1 .. m |-> F(j)]
    BY DEF Headed, m
  <2>2. x \in T /\ \A j \in 1 .. m : F(j) \in T
    <3>1. \A j \in 1 .. m : parts[j] \in Seq(Passage)
      BY <1>6 DEF m
    <3>. QED  BY <1>2, <1>6, <3>1, PartOfTable
  <2>3. r = Append(h, x)
    BY <1>4, <1>6
  <2>4. head \o all[m + 1] = x /\ \A j \in 1 .. m : head \o all[j] = F(j)
    BY <1>7
  <2>. HIDE DEF T, h, x, F
  <2>5. h \in Seq(T) /\ Len(h) = m /\ \A j \in 1 .. m : h[j] = F(j)
    BY <1>7, <2>1, <2>2
  <2>6. r \in Seq(T) /\ Len(r) = m + 1 /\ r[m + 1] = x /\ \A j \in 1 .. m : r[j] = h[j]
    BY <2>2, <2>3, <2>5, AppendProperties
  <2>7. \A j \in 1 .. m + 1 : j = m + 1 \/ j \in 1 .. m
    BY <1>7
  <2>8. \A j \in 1 .. m + 1 : r[j] = head \o all[j]
    BY <2>4, <2>5, <2>6, <2>7
  <2>9. DOMAIN r = 1 .. m + 1
    BY <2>6
  <2>. QED  BY <2>6, <2>8, <2>9
<1>11. ASSUME NEW j \in 1 .. m + 1
       PROVE  /\ r[j] \in T /\ Len(r[j]) = header + Len(all[j])
              /\ SubSeq(r[j], 1, header) = head /\ RowsOf(r[j], header) = all[j]
              /\ Len(r[j]) > header + 1 => TextTokens(r[j]) <= size
  <2>. DEFINE a == all[j]
  <2>1. a \in Seq(Passage) /\ RowsFit(head, a, size) /\ r[j] = head \o a
    BY <1>9, <1>10
  <2>. HIDE DEF a
  <2>2. /\ r[j] \in Seq(Passage) /\ Len(r[j]) = Len(head) + Len(a)
        /\ SubSeq(r[j], 1, Len(head)) = head /\ RowsOf(r[j], Len(head)) = a
    BY <1>2, <2>1, PartOfTable
  <2>3. Len(a) \in Nat
    BY <2>1
  <2>4. Len(r[j]) > header + 1 => TextTokens(r[j]) <= size
    BY <1>1, <1>2, <2>1, <2>2, <2>3 DEF RowsFit
  <2>. QED  BY <1>2, <2>2, <2>4 DEF a
<1>12. [k \in DOMAIN r |-> RowsOf(r[k], header)] = all
  <2>1. \A k \in 1 .. m + 1 : RowsOf(r[k], header) = all[k]
    BY <1>11
  <2>2. all = [k \in 1 .. m + 1 |-> all[k]]
    <3>. HIDE DEF T
    <3>. QED  BY <1>7
  <2>. QED  BY <1>10, <2>1, <2>2
<1>13. ASSUME NEW s \in ToSet(text) PROVE Spans(In(r), s)
  <2>1. PICK i \in 1 .. n : text[i] = s
    BY <1>1, <1>13 DEF ToSet
  <2>2. CASE i \in 1 .. header
    <3>1. m + 1 \in 1 .. m + 1
      BY <1>7
    <3>2. r[m + 1] = head \o all[m + 1] /\ all[m + 1] \in Seq(Passage)
      BY <1>9, <1>10, <3>1
    <3>3. r[m + 1][i] = s
      BY <1>2, <2>1, <2>2, <3>2, ConcatProperties
    <3>4. i \in DOMAIN r[m + 1]
      <4>1. r[m + 1] \in Seq(Passage) /\ Len(r[m + 1]) = header + Len(all[m + 1]) /\ Len(all[m + 1]) \in Nat
        <5>1. Len(all[m + 1]) \in Nat
          BY <3>2
        <5>. QED  BY <1>11, <3>1, <5>1
      <4>. QED  BY <1>1, <2>2, <4>1
    <3>5. m + 1 \in DOMAIN r /\ s \in ToSet(r[m + 1])
      BY <1>10, <3>1, <3>3, <3>4 DEF ToSet
    <3>. QED  BY <3>5, InTexts
  <2>3. CASE i \notin 1 .. header
    <3>1. i - header \in 1 .. n - header /\ header + (i - header) = i
      BY <1>1, <2>3
    <3>2. rows[i - header] = s /\ i - header \in DOMAIN rows
      BY <1>1, <1>3, <2>1, <3>1
    <3>3. s \in ToSet(rows)
      BY <3>2 DEF ToSet
    <3>4. \E k \in 1 .. m + 1 : s \in ToSet(all[k])
      <4>1. all \in Seq(Seq(Passage)) /\ s \in ToSet(FlattenSeq(all)) /\ DOMAIN all = 1 .. m + 1
        BY <1>7, <1>8, <3>3
      <4>. QED  BY <4>1, InFlat
    <3>5. PICK k \in 1 .. m + 1 : s \in ToSet(all[k])
      BY <3>4
    <3>6. s \in ToSet(r[k])
      <4>. DEFINE a == all[k]
      <4>1. a \in Seq(Passage) /\ r[k] = head \o a /\ s \in ToSet(a)
        BY <1>9, <1>10, <3>5
      <4>. HIDE DEF a
      <4>2. PICK l \in 1 .. Len(a) : a[l] = s
        BY <4>1 DEF ToSet
      <4>3. Len(a) \in Nat
        BY <4>1
      <4>4. header + l \in header + 1 .. header + Len(a) /\ (header + l) - header = l
            /\ header + l \in 1 .. header + Len(a)
        BY <1>1, <4>3
      <4>5. r[k][header + l] = s
        BY <1>2, <4>1, <4>2, <4>4, ConcatProperties
      <4>6. r[k] \in Seq(Passage) /\ Len(r[k]) = header + Len(a)
        BY <1>2, <4>1, PartOfTable, ZenonT(40)
      <4>7. header + l \in DOMAIN r[k]
        BY <4>4, <4>6
      <4>. QED  BY <4>5, <4>7 DEF ToSet
    <3>7. k \in DOMAIN r
      BY <1>10
    <3>. QED  BY <3>6, <3>7, InTexts
  <2>. QED  BY <2>2, <2>3
<1>14. r \in Seq(Seq(Passage)) /\ Len(r) > 0
    BY <1>7, <1>10
<1>15. AllRows(r, header) = RowsOf(text, header)
    BY <1>8, <1>12 DEF rows, AllRows
<1>16. \A k \in DOMAIN r : /\ SubSeq(r[k], 1, header) = SubSeq(text, 1, header)
                           /\ Len(r[k]) > header + 1 => TextTokens(r[k]) <= size
    BY <1>10, <1>11 DEF head
<1>17. \A s \in ToSet(text) : Spans(In(r), s)
    BY <1>13
<1>. QED  BY <1>14, <1>15, <1>16, <1>17

(* A block that is too long is split without loss. *)
LEMMA SplitOversizedOf ==
    ASSUME NEW b, IsBlock(b), NEW size \in Nat \ {0}, NEW overlap \in Nat
    PROVE  LET r == SplitOversized(b, size, overlap)
           IN  /\ r \in Seq(Seq(Passage))
               /\ Len(b.text) > 0 => Len(r) > 0
               /\ \A s \in ToSet(b.text) : Spans(In(r), s)
<1>. DEFINE r == SplitOversized(b, size, overlap)
<1>. SUFFICES /\ r \in Seq(Seq(Passage))
              /\ Len(b.text) > 0 => Len(r) > 0
              /\ \A s \in ToSet(b.text) : Spans(In(r), s)
    OBVIOUS
<1>1. b.text \in Seq(Passage) /\ size \in Nat
    BY DEF IsBlock
<1>2. CASE b.kind = "fence"
  <2>1. b.text # <<>> /\ b.text[1] = Fence
    BY <1>2 DEF IsBlock
  <2>2. r = SplitFence(b.text, size, overlap)
    BY <1>2 DEF SplitOversized
  <2>. HIDE DEF r
  <2>. QED  BY <1>1, <2>1, <2>2, SplitFenceOf
<1>3. CASE b.kind = "table"
  <2>1. b.header \in 0 .. Len(b.text)
    BY <1>3 DEF IsBlock
  <2>2. r = SplitTable(b.text, b.header, size)
    BY <1>3 DEF SplitOversized
  <2>. HIDE DEF r
  <2>. QED  BY <1>1, <2>1, <2>2, SplitTableOf
<1>4. CASE b.kind # "fence" /\ b.kind # "table"
  <2>1. r = ChunkText(b.text, size, overlap)
    BY <1>4 DEF SplitOversized
  <2>. HIDE DEF r
  <2>2. /\ r \in Seq(Seq(Passage))
        /\ Len(b.text) > 0 => Len(r) > 0
        /\ \A i \in DOMAIN b.text : Spans(In(r), b.text[i])
    BY <1>1, <2>1, ChunkTextOf
  <2>. QED  BY <2>2 DEF ToSet
<1>. QED  BY <1>2, <1>3, <1>4

(* What _chunk_markdown_blocks makes of a block. *)
LEMMA ExpandedOf ==
    ASSUME NEW b, IsBlock(b), NEW size \in Nat \ {0}, NEW overlap \in Nat
    PROVE  LET r == Expanded(b, size, overlap)
           IN  r \in Seq(Seq(Passage)) /\ \A s \in ToSet(b.text) : Spans(In(r), s)
<1>. DEFINE r == Expanded(b, size, overlap)
<1>1. CASE TextTokens(b.text) > size
  <2>1. r = SplitOversized(b, size, overlap)
    BY <1>1 DEF Expanded
  <2>. HIDE DEF r
  <2>2. r \in Seq(Seq(Passage)) /\ \A s \in ToSet(b.text) : Spans(In(r), s)
    BY <2>1, SplitOversizedOf
  <2>. QED  BY <2>2 DEF r
<1>2. CASE ~(TextTokens(b.text) > size)
  <2>1. r = <<b.text>> /\ b.text \in Seq(Passage)
    BY <1>2 DEF Expanded, IsBlock
  <2>2. r \in Seq(Seq(Passage)) /\ 1 \in DOMAIN r /\ r[1] = b.text
    BY <2>1
  <2>. HIDE DEF r
  <2>3. \A s \in ToSet(b.text) : Spans(In(r), s)
    BY <2>2, InTexts
  <2>. QED  BY <2>2, <2>3 DEF r
<1>. QED  BY <1>1, <1>2

(* The chunks of a section hold all of its blocks, and packed ones fit. *)
LEMMA ChunkBlocksOf ==
    ASSUME NEW blocks, Len(blocks) \in Nat, DOMAIN blocks = 1 .. Len(blocks),
           \A i \in DOMAIN blocks : IsBlock(blocks[i]),
           NEW size \in Nat \ {0}, NEW overlap \in Nat
    PROVE  LET r == ChunkBlocks(blocks, size, overlap)
           IN  /\ r \in Seq(Seq(Seq(Passage)))
               /\ \A k \in DOMAIN r : Len(r[k]) > 1 => TextTokens(FlattenSeq(r[k])) <= size
               /\ \A b \in ToSet(blocks) : \A s \in ToSet(b.text) :
                     Spans(In([k \in DOMAIN r |-> FlattenSeq(r[k])]), s)
<1>. DEFINE n == Len(blocks)
            T == Seq(Passage)
            F == [i \in 1 .. n |-> Expanded(blocks[i], size, overlap)]
            t == FlattenSeq(F)
            r == ChunkBlocks(blocks, size, overlap)
            chunks == [k \in DOMAIN r |-> FlattenSeq(r[k])]
<1>1. n \in Nat /\ DOMAIN blocks = 1 .. n
    OBVIOUS
<1>2. ASSUME NEW i \in 1 .. n
      PROVE  F[i] \in Seq(T) /\ \A s \in ToSet(blocks[i].text) : Spans(In(F[i]), s)
  <2>. DEFINE x == Expanded(blocks[i], size, overlap)
  <2>1. x \in Seq(Seq(Passage)) /\ \A s \in ToSet(blocks[i].text) : Spans(In(x), s)
    BY <1>1, ExpandedOf
  <2>2. F[i] = x
    OBVIOUS
  <2>. HIDE DEF x, F
  <2>. QED  BY <2>1, <2>2
<1>3. r = Pack(t, size, overlap)
    BY DEF ChunkBlocks
<1>. DEFINE V == Seq(T)
<1>4. F \in [1 .. n -> V] /\ F \in Seq(V)
  <2>1. \A i \in 1 .. n : F[i] \in V
    BY <1>2
  <2>2. DOMAIN F = 1 .. n /\ F = [i \in 1 .. n |-> F[i]]
    OBVIOUS
  <2>. HIDE DEF F, V, n
  <2>3. F \in [1 .. n -> V]
    BY <2>1, <2>2
  <2>. QED  BY <1>1, <2>3
<1>. HIDE DEF F, r, n
<1>5. t \in Seq(T)
  <2>. HIDE DEF T
  <2>. QED  BY <1>4, FlattenMore
<1>. HIDE DEF t
<1>6. /\ r \in Seq(Seq(T)) /\ Holds(r, t)
      /\ \A j \in DOMAIN r : Len(r[j]) > 1 => Total(r[j]) <= size
  <2>1. T \subseteq Seq(Passage) /\ Measured(T) /\ size \in Nat
    BY TextsMeasured
  <2>. HIDE DEF T
  <2>. QED  BY <1>3, <1>5, <2>1, PackHolds
<1>7. ASSUME NEW j \in DOMAIN r
      PROVE  /\ r[j] \in Seq(T) /\ FlattenSeq(r[j]) \in T
             /\ TextTokens(FlattenSeq(r[j])) <= Total(r[j])
  <2>1. r[j] \in Seq(T)
    <3>. HIDE DEF T
    <3>. QED  BY <1>6
  <2>. DEFINE c == r[j]
  <2>2. c \in Seq(Seq(Passage))
    BY <2>1
  <2>. HIDE DEF c
  <2>3. FlattenSeq(c) \in Seq(Passage) /\ TextTokens(FlattenSeq(c)) <= Total(c)
    BY <2>2, FlattenFits
  <2>. QED  BY <2>1, <2>3 DEF c
<1>8. ASSUME NEW j \in DOMAIN r, Len(r[j]) > 1
      PROVE  TextTokens(FlattenSeq(r[j])) <= size
  <2>. DEFINE c == r[j]
  <2>1. c \in Seq(T) /\ FlattenSeq(c) \in T /\ TextTokens(FlattenSeq(c)) <= Total(c) /\ Total(c) <= size
    BY <1>6, <1>7, <1>8
  <2>. HIDE DEF c
  <2>2. TextTokens(FlattenSeq(c)) \in Nat
    BY <2>1, TextTokensOf
  <2>3. Total(c) \in Nat
    <3>1. Len(c) \in Nat /\ Measured(T)
      BY <2>1, TextsMeasured
    <3>. HIDE DEF T
    <3>. QED  BY <2>1, <3>1, TotalOf
  <2>4. TextTokens(FlattenSeq(c)) <= size
    BY <2>1, <2>2, <2>3
  <2>. QED  BY <2>4 DEF c
<1>9. ASSUME NEW i \in 1 .. n, NEW s \in ToSet(blocks[i].text)
      PROVE  Spans(In(chunks), s)
  <2>1. Spans(In(F[i]), s) /\ F[i] \in Seq(T)
    BY <1>2
  <2>2. ASSUME NEW p \in In(F[i]) PROVE Spans(In(chunks), p)
    <3>1. PICK k \in DOMAIN F[i] : p \in ToSet(F[i][k])
      BY <2>2 DEF In
    <3>2. F[i][k] \in ToSet(F[i])
      BY <3>1 DEF ToSet
    <3>3. F[i][k] \in ToSet(t)
      <4>. HIDE DEF T
      <4>. QED  BY <1>1, <1>4, <3>2, FlattenHolds DEF t
    <3>4. PICK l \in DOMAIN t : t[l] = F[i][k]
      BY <3>3 DEF ToSet
    <3>5. p \in ToSet(t[l])
      BY <3>1, <3>4
    <3>6. PICK j \in DOMAIN r : p \in ToSet(FlattenSeq(r[j]))
      BY <1>6, <3>5 DEF Holds
    <3>7. j \in DOMAIN chunks /\ p \in ToSet(chunks[j])
      BY <3>6
    <3>. HIDE DEF chunks
    <3>. QED  BY <3>7, InTexts
  <2>. HIDE DEF chunks, F
  <2>. QED  BY <2>1, <2>2, SpansMore
<1>10. \A b \in ToSet(blocks) : \A s \in ToSet(b.text) : Spans(In(chunks), s)
  <2>. HIDE DEF chunks
  <2>. QED  BY <1>1, <1>9 DEF ToSet
<1>11. r \in Seq(Seq(Seq(Passage)))
    BY <1>6
<1>12. \A k \in DOMAIN r : Len(r[k]) > 1 => TextTokens(FlattenSeq(r[k])) <= size
    BY <1>8
<1>. QED  BY <1>10, <1>11, <1>12, Zenon DEF r

LEMMA SpansIn ==
    ASSUME NEW texts, NEW s, Spans(In(texts), s)
    PROVE  Whole(texts, s)
<1>. SUFFICES ASSUME NEW i \in s.from .. s.to - 1
              PROVE  \E k \in DOMAIN texts : \E p \in ToSet(texts[k]) : p.id = s.id /\ i \in p.from .. p.to - 1
    BY DEF Whole
<1>1. PICK p \in In(texts) : p.id = s.id /\ i \in p.from .. p.to - 1
    BY DEF Spans
<1>2. PICK k \in DOMAIN texts : p \in ToSet(texts[k])
    BY <1>1 DEF In
<1>. QED  BY <1>1, <1>2

-----------------------------------------------------------------------------
(* The theorems. *)

(* The chunks of a text are runs of it in its order, start at its head, go
   on where the one before ended or within its overlap, leave nothing out
   and keep to the token budget (chunker.py, 162-202 and 636-668).         *)
THEOREM PackingIsRight == Spec => []PackingIsSound
<1>1. ASSUME IInv, Returned("pack")
      PROVE  PackedWell(result, call.items, call.size, call.overlap)
  <2>1. PackCall(call)
    BY <1>1, AlgorithmsAssumption DEF IInv, Returned
  <2>2. result = Pack(call.items, call.size, call.overlap)
    BY <1>1 DEF IInv, Given
  <2>. DEFINE t == call.items
              size == call.size
              overlap == call.overlap
  <2>3. t \in Seq(Seq(StretchType)) /\ t # <<>> /\ (\A i \in DOMAIN t : Len(t[i]) = 1)
        /\ size \in Nat /\ overlap \in Nat
    BY <2>1 DEF PackCall
  <2>. HIDE DEF t, size, overlap
  <2>4. t \in Seq(Piece) /\ Len(t) > 0
    <3>1. DOMAIN t = 1 .. Len(t) /\ Len(t) \in Nat /\ Len(t) > 0
      BY <2>3
    <3>2. \A i \in 1 .. Len(t) : t[i] \in Piece
      BY <2>3, <3>1 DEF Piece
    <3>3. t = [i \in 1 .. Len(t) |-> t[i]]
      BY <2>3
    <3>. QED  BY <3>1, <3>2, <3>3
  <2>5. PackedWell(Pack(t, size, overlap), t, size, overlap)
    BY <2>3, <2>4, PackIsSound
  <2>. QED  BY <2>2, <2>5 DEF t, size, overlap
<1>2. IInv => PackingIsSound
  <2>1. IInv => PackedInOrder
    BY <1>1 DEF PackedInOrder, PackedWell
  <2>2. IInv => PackFits
    BY <1>1 DEF PackFits, PackedWell
  <2>. QED  BY <2>1, <2>2 DEF PackingIsSound
<1>. QED  BY <1>2, Calculated, PTL

(* Every line under headings is in one section, in order and under the path
   of the headings around it; the chunks of a PDF carry the page their text
   or their image's first occurrence is on, each text and legible image is
   there once, and only a page without any is rendered; and images get the
   reading of their own digest (chunker.py, 316-361, 401-473 and 605-633). *)
THEOREM StructureIsRight == Spec => []StructureIsKept
<1>1. ASSUME IInv, Returned("sections"), Headings(call.lines) # DOMAIN call.lines
      PROVE  SectionsWell(result, call.lines)
  <2>. DEFINE lines == call.lines
  <2>1. SectionCall(call)
    BY <1>1, AlgorithmsAssumption DEF IInv, Returned
  <2>2. result = Sections(call.lines)
    BY <1>1 DEF IInv, Given
  <2>3. /\ lines \in Seq([kind : {"heading", "text", "fence"}, level : Nat, page : Nat])
        /\ \A i \in DOMAIN lines : lines[i].kind = "heading" => lines[i].level > 0
    BY <2>1 DEF SectionCall
  <2>4. Headings(lines) # DOMAIN lines
    BY <1>1
  <2>. HIDE DEF lines
  <2>5. LineList(lines)
    <3>1. Len(lines) \in Nat /\ DOMAIN lines = 1 .. Len(lines)
      BY <2>3
    <3>. DEFINE R == [kind : {"heading", "text", "fence"}, level : Nat, page : Nat]
    <3>2. \A i \in 1 .. Len(lines) : lines[i].level \in Nat
      <4>1. \A x \in R : x.level \in Nat
        OBVIOUS
      <4>2. lines \in Seq(R)
        BY <2>3
      <4>. HIDE DEF R
      <4>3. \A i \in 1 .. Len(lines) : lines[i] \in R
        BY <4>2
      <4>. QED  BY <4>1, <4>3
    <3>3. \A i \in 1 .. Len(lines) : lines[i].kind = "heading" => lines[i].level \in Nat \ {0}
      BY <2>3, <3>1, <3>2
    <3>. QED  BY <3>1, <3>3 DEF LineList
  <2>6. SectionsWell(Sections(lines), lines)
    BY <2>4, <2>5, SectionsAreSound
  <2>. QED  BY <2>2, <2>6 DEF lines
<1>2. ASSUME IInv, Returned("pdf")
      PROVE  PdfWell(result, call.pages, call.legible)
  <2>1. call.pages \in Seq(PageType)
    BY <1>2, AlgorithmsAssumption DEF IInv, Returned, PdfCall, PageType
  <2>2. result = ConvertPdf(call.pages, 0, call.legible, call.scannable)
    BY <1>2 DEF IInv, Given
  <2>. QED  BY <2>1, <2>2, PdfIsSound
<1>3. ASSUME IInv, Returned("read"), NEW i \in DOMAIN call.digests, NEW j \in DOMAIN call.digests
      PROVE  /\ \E k \in DOMAIN call.read : call.digests[k] = call.digests[i] /\ result[i] = call.read[k]
             /\ call.digests[i] = call.digests[j] => result[i] = result[j]
  <2>. DEFINE digests == call.digests
              read == call.read
  <2>1. digests \in Seq(STRING) /\ DOMAIN read = DOMAIN digests
    BY <1>3, AlgorithmsAssumption DEF IInv, Returned, ReadCall
  <2>2. result = ExtractImages(digests, read)
    BY <1>3 DEF IInv, Given
  <2>3. i \in DOMAIN digests /\ j \in DOMAIN digests
    OBVIOUS
  <2>. HIDE DEF digests, read
  <2>4. /\ \E k \in DOMAIN read : digests[k] = digests[i] /\ result[i] = read[k]
        /\ digests[i] = digests[j] => result[i] = result[j]
    BY <2>1, <2>2, <2>3, ReadingIsSound
  <2>. QED  BY <2>4 DEF digests, read
<1>4. IInv => StructureIsKept
  <2>1. IInv => SectionsEnclose
    BY <1>1 DEF SectionsEnclose, SectionsWell, Contents
  <2>2. IInv => PdfPagesRight
    BY <1>2 DEF PdfPagesRight, PdfWell
  <2>3. IInv => ReadsAligned
    BY <1>3 DEF ReadsAligned
  <2>. QED  BY <2>1, <2>2, <2>3 DEF StructureIsKept
<1>. QED  BY <1>4, Calculated, PTL

(* What is too long for one chunk is split without loss: the windows of a
   sentence, the parts of a table or a code block and the chunks packed from
   them hold every character of it, and they fit wherever the rates allow
   (chunker.py, 136-159 and 671-698).                                       *)
THEOREM SplittingIsRight == Spec => []SplittingLosesNothing
<1>1. ASSUME IInv, Returned("split")
      PROVE  /\ Head(result).from = call.text.from /\ Last(result).to = call.text.to
             /\ \A k \in 1 .. Len(result) - 1 :
                   /\ result[k].from < result[k + 1].from /\ result[k + 1].from <= result[k].to
                   /\ result[k].to - result[k + 1].from <= Window(call.text, call.overlap)
             /\ 10 * Ideographs(call.text) >= 3 * Chars(call.text) =>
                   \A k \in DOMAIN result : ApproxTokens(result[k]) <= call.size
  <2>. DEFINE t == call.text
              size == call.size
              overlap == call.overlap
              window == Max({1, Window(t, size)})
              n == Len(result)
  <2>1. t \in Passage /\ size \in Nat \ {0} /\ overlap \in Nat
    BY <1>1, AlgorithmsAssumption DEF IInv, Returned, SplitCall
  <2>2. result = HardSplit(t, size, overlap)
    BY <1>1 DEF IInv, Given
  <2>. HIDE DEF t, size, overlap
  <2>3. PICK back \in Nat : back <= Window(t, overlap) /\ CutRight(result, t, window, back, t.from)
    BY <2>1, <2>2, HardSplitOf
  <2>. HIDE DEF window
  <2>4. /\ result \in Seq(Passage) /\ n > 0 /\ result[1].from = t.from /\ result[n].to = t.to
        /\ \A k \in 1 .. n : IsCut(result[k], t, window)
        /\ \A k \in 1 .. n - 1 : /\ result[k].from < result[k + 1].from /\ result[k + 1].from <= result[k].to
                                 /\ result[k].to - result[k + 1].from <= back
    BY <2>3 DEF CutRight
  <2>5. Head(result) = result[1] /\ Last(result) = result[n] /\ DOMAIN result = 1 .. n /\ n \in Nat
    BY <2>4 DEF Last
  <2>6. Window(t, overlap) \in Nat
    <3>1. Ideographs(t) \in Nat /\ Chars(t) \in Nat
      <4>1. Chars(t) \in Nat /\ Ideographs(t) \in 0 .. Chars(t)
        BY <2>1, TokensOf
      <4>. QED  BY <4>1
    <3>. QED  BY <2>1, <3>1 DEF Window
  <2>7. ASSUME NEW k \in 1 .. n - 1
        PROVE  result[k].to - result[k + 1].from <= Window(t, overlap)
    <3>1. k \in 1 .. n /\ k + 1 \in 1 .. n
      BY <2>5
    <3>2. result[k] \in Passage /\ result[k + 1] \in Passage
      BY <2>4, <3>1
    <3>3. result[k].to \in Nat /\ result[k + 1].from \in Nat
      BY <3>2 DEF Passage, StretchType
    <3>4. result[k].to - result[k + 1].from <= back
      BY <2>4
    <3>. QED  BY <2>3, <2>6, <3>3, <3>4
  <2>8. ASSUME 10 * Ideographs(t) >= 3 * Chars(t), NEW k \in 1 .. n
        PROVE  ApproxTokens(result[k]) <= size
    <3>1. Uniform(t)
      BY <2>8 DEF Uniform
    <3>2. IsCut(result[k], t, Max({1, Window(t, size)}))
      BY <2>4 DEF window
    <3>. QED  BY <2>1, <3>1, <3>2, CutFits
  <2>. HIDE DEF n
  <2>9. \A k \in 1 .. n - 1 : /\ result[k].from < result[k + 1].from /\ result[k + 1].from <= result[k].to
                              /\ result[k].to - result[k + 1].from <= Window(t, overlap)
    BY <2>4, <2>7
  <2>10. 10 * Ideographs(t) >= 3 * Chars(t) => \A k \in DOMAIN result : ApproxTokens(result[k]) <= size
    BY <2>5, <2>8
  <2>11. Head(result).from = t.from /\ Last(result).to = t.to
    BY <2>4, <2>5
  <2>. QED  BY <2>9, <2>10, <2>11 DEF t, size, overlap, n
<1>2. ASSUME IInv, Returned("block")
      PROVE  /\ IsBlock(call.block) /\ call.size \in Nat /\ call.size >= 38 /\ call.overlap \in Nat
             /\ result = SplitOversized(call.block, call.size, call.overlap)
  <2>1. BlockCall(call)
    BY <1>2, AlgorithmsAssumption DEF IInv, Returned
  <2>2. result = SplitOversized(call.block, call.size, call.overlap)
    BY <1>2 DEF IInv, Given
  <2>. QED  BY <2>1, <2>2 DEF BlockCall
<1>3. ASSUME IInv, Returned("block"), call.block.kind = "table"
      PROVE  /\ AllRows(result, call.block.header) = RowsOf(call.block.text, call.block.header)
             /\ \A k \in DOMAIN result :
                   /\ SubSeq(result[k], 1, call.block.header) = SubSeq(call.block.text, 1, call.block.header)
                   /\ Len(result[k]) > call.block.header + 1 => TextTokens(result[k]) <= call.size
  <2>. DEFINE text == call.block.text
              header == call.block.header
              size == call.size
  <2>1. text \in Seq(Passage) /\ header \in 0 .. Len(text) /\ size \in Nat
    BY <1>2, <1>3 DEF IsBlock
  <2>2. result = SplitTable(text, header, size)
    BY <1>2, <1>3 DEF SplitOversized
  <2>. HIDE DEF text, header, size
  <2>3. /\ AllRows(result, header) = RowsOf(text, header)
        /\ \A k \in DOMAIN result : /\ SubSeq(result[k], 1, header) = SubSeq(text, 1, header)
                                    /\ Len(result[k]) > header + 1 => TextTokens(result[k]) <= size
    BY <2>1, <2>2, SplitTableOf
  <2>. QED  BY <2>3 DEF text, header, size
<1>4. ASSUME IInv, Returned("block"), call.block.kind = "fence"
      PROVE  /\ \A k \in DOMAIN result : Head(result[k]) = Fence /\ Last(result[k]) = Fence
             /\ (\A s \in ToSet(call.block.text) : Uniform(s) \/ ApproxTokens(s) <= call.size - 8) =>
                   \A k \in DOMAIN result : TextTokens(result[k]) <= call.size
             /\ \A s \in ToSet(call.block.text) : Whole(result, s)
  <2>. DEFINE text == call.block.text
              size == call.size
              overlap == call.overlap
  <2>1. text \in Seq(Passage) /\ text # <<>> /\ text[1] = Fence /\ size \in Nat /\ size >= 38 /\ overlap \in Nat
    BY <1>2, <1>4 DEF IsBlock
  <2>2. result = SplitFence(text, size, overlap)
    BY <1>2, <1>4 DEF SplitOversized
  <2>. HIDE DEF text, size, overlap
  <2>3. /\ \A k \in DOMAIN result : Head(result[k]) = Fence /\ Last(result[k]) = Fence
        /\ (size >= 38 /\ \A s \in ToSet(text) : Uniform(s) \/ ApproxTokens(s) <= size - 8) =>
              \A k \in DOMAIN result : TextTokens(result[k]) <= size
        /\ \A s \in ToSet(text) : Spans(In(result), s)
    BY <2>1, <2>2, SplitFenceOf
  <2>4. \A s \in ToSet(text) : Whole(result, s)
    BY <2>3, SpansIn
  <2>5. (\A s \in ToSet(text) : Uniform(s) \/ ApproxTokens(s) <= size - 8) =>
              \A k \in DOMAIN result : TextTokens(result[k]) <= size
    BY <2>1, <2>3
  <2>. QED  BY <2>3, <2>4, <2>5 DEF text, size
<1>5. ASSUME IInv, Returned("chunk")
      PROVE  /\ \A k \in DOMAIN result : Len(result[k]) > 1 => TextTokens(FlattenSeq(result[k])) <= call.size
             /\ \A b \in ToSet(call.blocks) : \A s \in ToSet(b.text) :
                   Whole([k \in DOMAIN result |-> FlattenSeq(result[k])], s)
  <2>. DEFINE blocks == call.blocks
              size == call.size
              overlap == call.overlap
              chunks == [k \in DOMAIN result |-> FlattenSeq(result[k])]
  <2>1. ChunkCall(call)
    BY <1>5, AlgorithmsAssumption DEF IInv, Returned
  <2>2. result = ChunkBlocks(blocks, size, overlap)
    BY <1>5 DEF IInv, Given
  <2>3. /\ Len(blocks) \in Nat /\ DOMAIN blocks = 1 .. Len(blocks)
        /\ \A i \in DOMAIN blocks : IsBlock(blocks[i])
        /\ size \in Nat \ {0} /\ overlap \in Nat
    BY <2>1 DEF ChunkCall
  <2>. HIDE DEF blocks, size, overlap
  <2>4. /\ \A k \in DOMAIN result : Len(result[k]) > 1 => TextTokens(FlattenSeq(result[k])) <= size
        /\ \A b \in ToSet(blocks) : \A s \in ToSet(b.text) : Spans(In(chunks), s)
    BY <2>2, <2>3, ChunkBlocksOf
  <2>. HIDE DEF chunks
  <2>5. \A b \in ToSet(blocks) : \A s \in ToSet(b.text) : Whole(chunks, s)
    BY <2>4, SpansIn
  <2>. QED  BY <2>4, <2>5 DEF blocks, size, chunks
<1>6. IInv => SplittingLosesNothing
  <2>1. IInv => SplitCovers
    BY <1>1 DEF SplitCovers
  <2>2. IInv => TableRowsKept
    BY <1>3 DEF TableRowsKept, AllRows, RowsOf
  <2>3. IInv => FencedPartsFit
    BY <1>4 DEF FencedPartsFit, Whole
  <2>4. IInv => ChunksHoldAll
    <3>. SUFFICES ASSUME IInv, Returned("chunk") PROVE ChunksHoldAll
      BY DEF ChunksHoldAll
    <3>. DEFINE chunks == [k \in DOMAIN result |-> FlattenSeq(result[k])]
    <3>1. DOMAIN chunks = DOMAIN result /\ \A k \in DOMAIN result : chunks[k] = FlattenSeq(result[k])
      OBVIOUS
    <3>2. /\ \A k \in DOMAIN result : Len(result[k]) > 1 => TextTokens(FlattenSeq(result[k])) <= call.size
          /\ \A b \in ToSet(call.blocks) : \A s \in ToSet(b.text) : Whole(chunks, s)
      BY <1>5
    <3>. HIDE DEF chunks
    <3>3. /\ \A k \in DOMAIN result : Len(result[k]) > 1 => TextTokens(chunks[k]) <= call.size
          /\ \A b \in ToSet(call.blocks) : \A s \in ToSet(b.text) : \A i \in s.from .. s.to - 1 :
                \E k \in DOMAIN chunks : \E p \in ToSet(chunks[k]) : p.id = s.id /\ i \in p.from .. p.to - 1
      BY <3>1, <3>2 DEF Whole
    <3>. QED  BY <3>3 DEF ChunksHoldAll, chunks
  <2>. QED  BY <2>1, <2>2, <2>3, <2>4 DEF SplittingLosesNothing
<1>. QED  BY <1>6, Calculated, PTL

=============================================================================
