---------------------------- MODULE MemoryProofs ----------------------------
(***************************************************************************)
(* What the memory keeps of the turns of its sessions (MemoryIsKept of      *)
(* MemoryFacts), for any number of ingestions, whatever they distil, and    *)
(* any number of retries and erases.                                        *)
(*                                                                          *)
(* The operators first: what a filtered, ranked or embedded sequence is.    *)
(* Then the inductive invariant.  Rows are numbered in the order they were  *)
(* stored (Numbered) and the table holds rows that were stored (Recorded);  *)
(* an ingestion holds at each place what its next calls rely on (Held); two *)
(* that are under way have troubled each other (Apart), so that one nobody  *)
(* troubled meets a table that only it changes: it stores its rows once,    *)
(* and its hits are all that is left to retire (Undisturbed).               *)
(***************************************************************************)
EXTENDS MemoryFacts, FiniteSetTheorems, WellFoundedInduction, TLAPS

\* A nonempty set of numbers has a least one.
LEMMA Least ==
  ASSUME NEW S, S \subseteq Nat, S # {}
  PROVE  \E i \in S : \A j \in S : i <= j
<1> DEFINE R == OpToRel(<, Nat)
<1>1. IsWellFoundedOn(R, Nat)
  BY NatLessThanWellFounded
<1>2. \A i, j \in Nat : <<j, i>> \notin R => i <= j
  BY DEF OpToRel
<1> HIDE DEF R
<1>3. PICK i \in S : \A j \in S : ~(<<j, i>> \in R)
  BY <1>1, WFMin
<1>4. \A j \in S : i <= j
  <2> TAKE j \in S
  <2>1. i \in Nat /\ j \in Nat /\ <<j, i>> \notin R
    BY <1>3
  <2> QED BY <2>1, <1>2
<1> QED BY <1>4

\* Counting up to n, from zero.
LEMMA Counting ==
  ASSUME NEW n \in Nat, NEW good, 0 \in good, \A i \in 0 .. n - 1 : i \in good => i + 1 \in good
  PROVE  \A i \in 0 .. n : i \in good
<1> DEFINE bad == {i \in 0 .. n : i \notin good}
<1>1. ASSUME bad # {} PROVE FALSE
  <2>1. bad \subseteq Nat
    OBVIOUS
  <2>2. PICK i \in bad : \A j \in bad : i <= j
    BY <1>1, <2>1, Least
  <2>3. i \in 0 .. n /\ i # 0 /\ i - 1 \in 0 .. n - 1 /\ i - 1 \notin bad
    BY <2>2
  <2> QED BY <2>2, <2>3
<1> QED BY <1>1

Upto(s, some, m) ==
  CHOOSE f : f = [n \in 0 .. m |-> IF n = 0 THEN <<>> ELSE IF n \in some THEN Append(f[n - 1], s[n]) ELSE f[n - 1]]

\* ElementsAt is computed element by element.
LEMMA UptoIs ==
  ASSUME NEW S, NEW s \in Seq(S), NEW some
  PROVE  /\ Upto(s, some, Len(s))[0] = <<>> /\ ElementsAt(s, some) = Upto(s, some, Len(s))[Len(s)]
         /\ \A n \in 0 .. Len(s) - 1 :
              Upto(s, some, Len(s))[n + 1] =
                IF n + 1 \in some THEN Append(Upto(s, some, Len(s))[n], s[n + 1]) ELSE Upto(s, some, Len(s))[n]
<1> DEFINE More(x, n) == IF n \in some THEN Append(x, s[n]) ELSE x
           Is(m, f) == f = [n \in 0 .. m |-> IF n = 0 THEN <<>> ELSE IF n \in some THEN Append(f[n - 1], s[n]) ELSE f[n - 1]]
           good == {m \in Nat : \E f : Is(m, f)}
<1>0. Len(s) \in Nat
  OBVIOUS
<1>1. 0 \in good
  <2>1. Is(0, [n \in 0 .. 0 |-> <<>>])
    OBVIOUS
  <2> QED BY <2>1
<1>2. ASSUME NEW m \in 0 .. Len(s) - 1, m \in good PROVE m + 1 \in good
  <2>1. PICK f : Is(m, f)
    BY <1>2
  <2>2. m \in Nat /\ m + 1 \in Nat
    BY <1>0
  <2>3. \A n \in 0 .. m : f[n] = IF n = 0 THEN <<>> ELSE More(f[n - 1], n)
    BY <2>1, <2>2
  <2> DEFINE g == [n \in 0 .. m + 1 |-> IF n = m + 1 THEN More(f[m], m + 1) ELSE f[n]]
  <2> HIDE DEF More
  <2>4. \A n \in 0 .. m + 1 : g[n] = IF n = 0 THEN <<>> ELSE More(g[n - 1], n)
    <3> TAKE n \in 0 .. m + 1
    <3>1. CASE n = m + 1
      <4>1. g[n] = More(f[m], n) /\ g[n - 1] = f[m] /\ n # 0
        BY <2>2, <3>1
      <4> QED BY <4>1
    <3>2. CASE n # m + 1 /\ n # 0
      <4>1. n \in 0 .. m /\ n - 1 \in 0 .. m + 1 /\ n - 1 # m + 1
        BY <2>2, <3>2
      <4>2. g[n] = f[n] /\ g[n - 1] = f[n - 1]
        BY <3>2, <4>1
      <4> QED BY <2>3, <3>2, <4>1, <4>2
    <3>3. CASE n = 0
      BY <2>2, <2>3, <3>3
    <3> QED BY <3>1, <3>2, <3>3
  <2>5. g = [n \in 0 .. m + 1 |-> g[n]]
    OBVIOUS
  <2> HIDE DEF g
  <2>6. g = [n \in 0 .. m + 1 |-> IF n = 0 THEN <<>> ELSE More(g[n - 1], n)]
    BY <2>4, <2>5
  <2>7. Is(m + 1, g)
    BY <2>6 DEF More
  <2> QED BY <2>2, <2>7
<1> HIDE DEF good
<1>3. Len(s) \in good
  <2>1. \A m \in 0 .. Len(s) - 1 : m \in good => m + 1 \in good
    BY <1>2
  <2>2. \A m \in 0 .. Len(s) : m \in good
    BY <1>0, <1>1, <2>1, Counting
  <2> QED BY <1>0, <2>2
<1>4. PICK f : Is(Len(s), f)
  BY <1>3 DEF good
<1>5. Is(Len(s), Upto(s, some, Len(s)))
  BY <1>4 DEF Upto
<1>6. ElementsAt(s, some) = Upto(s, some, Len(s))[Len(s)]
  BY DEF ElementsAt, Upto
<1> DEFINE u == Upto(s, some, Len(s))
<1>7. \A n \in 0 .. Len(s) : u[n] = IF n = 0 THEN <<>> ELSE IF n \in some THEN Append(u[n - 1], s[n]) ELSE u[n - 1]
  BY <1>5
<1> HIDE DEF u
<1>8. u[0] = <<>>
  BY <1>0, <1>7
<1>9. ASSUME NEW n \in 0 .. Len(s) - 1
      PROVE  u[n + 1] = IF n + 1 \in some THEN Append(u[n], s[n + 1]) ELSE u[n]
  <2>1. n + 1 \in 0 .. Len(s) /\ n + 1 # 0 /\ (n + 1) - 1 = n
    BY <1>0
  <2> QED BY <1>7, <2>1
<1> QED BY <1>6, <1>8, <1>9 DEF u

\* A filtered sequence holds the elements at the places asked for, and only they.
LEMMA KeptIs ==
  ASSUME NEW S, NEW s \in Seq(S), NEW some
  PROVE  /\ ElementsAt(s, some) \in Seq(S)
         /\ \A k \in 1 .. Len(ElementsAt(s, some)) : \E n \in 1 .. Len(s) : n \in some /\ ElementsAt(s, some)[k] = s[n]
         /\ \A n \in 1 .. Len(s) : n \in some => \E k \in 1 .. Len(ElementsAt(s, some)) : ElementsAt(s, some)[k] = s[n]
<1> DEFINE f == Upto(s, some, Len(s))
           Right(x, m) == /\ x \in Seq(S)
                          /\ \A k \in 1 .. Len(x) : \E n \in 1 .. m : n \in some /\ x[k] = s[n]
                          /\ \A n \in 1 .. m : n \in some => \E k \in 1 .. Len(x) : x[k] = s[n]
           good == {m \in 0 .. Len(s) : Right(f[m], m)}
<1>0. Len(s) \in Nat
  OBVIOUS
<1>1. 0 \in good
  <2>1. f[0] = <<>>
    BY UptoIs
  <2> HIDE DEF f
  <2>2. Right(f[0], 0)
    BY <2>1
  <2> QED BY <1>0, <2>2
<1>2. ASSUME NEW m \in 0 .. Len(s) - 1, m \in good PROVE m + 1 \in good
  <2>0. m \in Nat /\ m + 1 \in 1 .. Len(s) /\ m + 1 \in 0 .. Len(s)
    BY <1>0
  <2>1. f[m + 1] = IF m + 1 \in some THEN Append(f[m], s[m + 1]) ELSE f[m]
    BY UptoIs
  <2> DEFINE x == f[m]
  <2>2. Right(x, m)
    BY <1>2
  <2> HIDE DEF f, x
  <2>3. CASE m + 1 \in some
    <3> DEFINE y == Append(x, s[m + 1])
    <3>0. x \in Seq(S) /\ s[m + 1] \in S /\ Len(x) \in Nat
      BY <2>0, <2>2
    <3>1. y \in Seq(S) /\ Len(y) = Len(x) + 1 /\ y[Len(x) + 1] = s[m + 1] /\ \A k \in 1 .. Len(x) : y[k] = x[k]
      BY <3>0
    <3> HIDE DEF y
    <3>2. \A k \in 1 .. Len(y) : \E n \in 1 .. m + 1 : n \in some /\ y[k] = s[n]
      <4> TAKE k \in 1 .. Len(y)
      <4>1. CASE k = Len(x) + 1
        BY <2>0, <2>3, <3>1, <4>1
      <4>2. CASE k \in 1 .. Len(x)
        <5>1. PICK n \in 1 .. m : n \in some /\ x[k] = s[n]
          BY <2>2, <4>2
        <5> QED BY <2>0, <3>1, <4>2, <5>1
      <4> QED BY <3>0, <3>1, <4>1, <4>2
    <3>3. \A n \in 1 .. m + 1 : n \in some => \E k \in 1 .. Len(y) : y[k] = s[n]
      <4> SUFFICES ASSUME NEW n \in 1 .. m + 1, n \in some PROVE \E k \in 1 .. Len(y) : y[k] = s[n]
        OBVIOUS
      <4>1. CASE n = m + 1
        BY <3>0, <3>1, <4>1
      <4>2. CASE n \in 1 .. m
        <5>1. PICK k \in 1 .. Len(x) : x[k] = s[n]
          BY <2>2, <4>2
        <5> QED BY <3>0, <3>1, <5>1
      <4> QED BY <2>0, <4>1, <4>2
    <3>4. Right(f[m + 1], m + 1)
      <4>1. f[m + 1] = y
        BY <2>1, <2>3 DEF x, y
      <4> QED BY <3>1, <3>2, <3>3, <4>1
    <3> QED BY <2>0, <3>4
  <2>4. CASE m + 1 \notin some
    <3>1. f[m + 1] = x
      BY <2>1, <2>4 DEF x
    <3>2. \A n \in 1 .. m + 1 : n \in some => n \in 1 .. m
      BY <2>0, <2>4
    <3>3. \A n \in 1 .. m : n \in 1 .. m + 1
      BY <2>0
    <3>4. Right(x, m + 1)
      BY <2>2, <3>2, <3>3
    <3> QED BY <2>0, <3>1, <3>4
  <2> QED BY <2>3, <2>4
<1> HIDE DEF good
<1>3. Len(s) \in good
  <2>1. \A m \in 0 .. Len(s) - 1 : m \in good => m + 1 \in good
    BY <1>2
  <2>2. \A m \in 0 .. Len(s) : m \in good
    BY <1>0, <1>1, <2>1, Counting
  <2> QED BY <1>0, <2>2
<1>4. ElementsAt(s, some) = f[Len(s)]
  BY UptoIs
<1> HIDE DEF f
<1> DEFINE x == f[Len(s)]
<1>5. Right(x, Len(s))
  BY <1>3 DEF good
<1> HIDE DEF x
<1>6. ElementsAt(s, some) = x
  BY <1>4 DEF x
<1> QED BY <1>5, <1>6

Rank(s, score, n) == Cardinality({m \in 1 .. Len(s) : Ahead(score, m, n)})

\* An element's place is the number of those that are not behind it.
LEMMA RankIs ==
  ASSUME NEW S, NEW s \in Seq(S), NEW score \in [1 .. Len(s) -> Int]
  PROVE  /\ \A n \in 1 .. Len(s) : Rank(s, score, n) \in 1 .. Len(s)
         /\ \A m, n \in 1 .. Len(s) : Rank(s, score, m) <= Rank(s, score, n) => Ahead(score, m, n)
         /\ \A k \in 1 .. Len(s) : \E n \in 1 .. Len(s) : Rank(s, score, n) = k
<1> DEFINE N == Len(s)
           InFront(n) == {m \in 1 .. N : Ahead(score, m, n)}
<1>0. N \in Nat /\ IsFiniteSet(1 .. N) /\ Cardinality(1 .. N) = N
  <2>1. N \in Nat
    OBVIOUS
  <2> HIDE DEF N
  <2> QED BY <2>1, FS_Interval
<1>00. score \in [1 .. N -> Int]
  OBVIOUS
<1> HIDE DEF N
<1>1. \A n \in 1 .. N : IsFiniteSet(InFront(n)) /\ Cardinality(InFront(n)) \in 1 .. N
  <2> TAKE n \in 1 .. N
  <2>1. InFront(n) \in SUBSET (1 .. N) /\ n \in InFront(n)
    BY <1>0 DEF Ahead
  <2> HIDE DEF InFront
  <2>2. IsFiniteSet(InFront(n)) /\ Cardinality(InFront(n)) <= N /\ Cardinality(InFront(n)) \in Nat
    BY <1>0, <2>1, FS_Subset, FS_CardinalityType
  <2>3. Cardinality(InFront(n)) # 0
    BY <2>1, <2>2, FS_EmptySet
  <2> QED BY <1>0, <2>2, <2>3
<1>2. ASSUME NEW m \in 1 .. N, NEW n \in 1 .. N, ~Ahead(score, m, n)
      PROVE  Cardinality(InFront(n)) < Cardinality(InFront(m))
  <2>1. score[m] \in Int /\ score[n] \in Int /\ m \in Int /\ n \in Int
    BY <1>0, <1>00
  <2>2. \A l \in 1 .. N : Ahead(score, l, n) => Ahead(score, l, m)
    <3> SUFFICES ASSUME NEW l \in 1 .. N, Ahead(score, l, n) PROVE Ahead(score, l, m)
      OBVIOUS
    <3>1. score[l] \in Int /\ l \in Int
      BY <1>0, <1>00
    <3> QED BY <1>2, <2>1, <3>1 DEF Ahead
  <2>3. InFront(n) \in SUBSET InFront(m)
    BY <2>2
  <2>4. m \in InFront(m) /\ m \notin InFront(n)
    BY <1>2, <2>1 DEF Ahead
  <2>5. IsFiniteSet(InFront(m)) /\ Cardinality(InFront(m)) \in 1 .. N /\ Cardinality(InFront(n)) \in 1 .. N
    BY <1>1
  <2> HIDE DEF InFront
  <2>6. Cardinality(InFront(n)) <= Cardinality(InFront(m)) /\ (Cardinality(InFront(m)) = Cardinality(InFront(n)) => InFront(m) = InFront(n))
    BY <2>3, <2>5, FS_Subset
  <2>7. Cardinality(InFront(m)) # Cardinality(InFront(n))
    BY <2>4, <2>6
  <2> QED BY <1>0, <2>5, <2>6, <2>7
<1> DEFINE f == [n \in 1 .. N |-> Cardinality(InFront(n))]
<1>3. \A m, n \in 1 .. N : Cardinality(InFront(m)) <= Cardinality(InFront(n)) => Ahead(score, m, n)
  <2> HIDE DEF InFront
  <2> SUFFICES ASSUME NEW m \in 1 .. N, NEW n \in 1 .. N, Cardinality(InFront(m)) <= Cardinality(InFront(n)), ~Ahead(score, m, n)
               PROVE  FALSE
    OBVIOUS
  <2>1. Cardinality(InFront(n)) < Cardinality(InFront(m))
    BY <1>2
  <2>2. Cardinality(InFront(n)) \in Int /\ Cardinality(InFront(m)) \in Int
    BY <1>0, <1>1
  <2> QED BY <2>1, <2>2
<1>4. f \in Injection(1 .. N, 1 .. N)
  <2> HIDE DEF InFront
  <2>1. f \in [1 .. N -> 1 .. N]
    BY <1>1
  <2>2. ASSUME NEW m \in 1 .. N, NEW n \in 1 .. N, f[m] = f[n] PROVE m = n
    <3>1. Cardinality(InFront(m)) = Cardinality(InFront(n)) /\ Cardinality(InFront(m)) \in Int
      BY <1>0, <1>1, <2>2
    <3>2. Ahead(score, m, n) /\ Ahead(score, n, m)
      BY <1>3, <3>1
    <3>3. score[m] \in Int /\ score[n] \in Int /\ m \in Int /\ n \in Int
      BY <1>0, <1>00
    <3> QED BY <3>2, <3>3 DEF Ahead
  <2> HIDE DEF f
  <2> QED BY <2>1, <2>2 DEF Injection, IsInjective
<1>5. \A k \in 1 .. N : \E n \in 1 .. N : Cardinality(InFront(n)) = k
  <2>1. f \in Surjection(1 .. N, 1 .. N)
    <3> HIDE DEF f
    <3> QED BY <1>0, <1>4, FS_Injection
  <2>2. \A k \in 1 .. N : \E n \in 1 .. N : f[n] = k
    <3> HIDE DEF f
    <3> QED BY <2>1 DEF Surjection
  <2> QED BY <2>2
<1>6. \A n \in 1 .. N : Rank(s, score, n) = Cardinality(InFront(n))
  BY DEF Rank, N
<1> HIDE DEF InFront, f
<1>7. /\ \A n \in 1 .. N : Rank(s, score, n) \in 1 .. N
      /\ \A m, n \in 1 .. N : Rank(s, score, m) <= Rank(s, score, n) => Ahead(score, m, n)
      /\ \A k \in 1 .. N : \E n \in 1 .. N : Rank(s, score, n) = k
  BY <1>1, <1>3, <1>5, <1>6
<1> QED BY <1>7 DEF N

\* A ranked sequence is the sequence in another order, by falling score.
LEMMA RankedIs ==
  ASSUME NEW S, NEW s \in Seq(S), NEW score \in [1 .. Len(s) -> Int]
  PROVE  /\ Ranked(s, score) \in Seq(S) /\ Len(Ranked(s, score)) = Len(s)
         /\ \E p \in [1 .. Len(s) -> 1 .. Len(s)] :
              /\ \A k \in 1 .. Len(s) : Ranked(s, score)[k] = s[p[k]] /\ Rank(s, score, p[k]) = k
              /\ \A k, l \in 1 .. Len(s) : k <= l => score[p[k]] >= score[p[l]]
              /\ \A n \in 1 .. Len(s) : p[Rank(s, score, n)] = n
<1> DEFINE N == Len(s)
           ranks == {<<n, Rank(s, score, n)>> : n \in 1 .. N}
           p == [k \in 1 .. N |-> (CHOOSE r \in ranks : r[2] = k)[1]]
<1>0. N \in Nat /\ DOMAIN s = 1 .. N /\ score \in [1 .. N -> Int] /\ \A n \in 1 .. N : s[n] \in S
  OBVIOUS
<1>a. /\ \A n \in 1 .. N : Rank(s, score, n) \in 1 .. N
      /\ \A m, n \in 1 .. N : Rank(s, score, m) <= Rank(s, score, n) => Ahead(score, m, n)
      /\ \A k \in 1 .. N : \E n \in 1 .. N : Rank(s, score, n) = k
  BY RankIs
<1>1. \A k \in 1 .. N : p[k] \in 1 .. N /\ Rank(s, score, p[k]) = k
  <2> HIDE DEF N
  <2> TAKE k \in 1 .. N
  <2>1. \E r \in ranks : r[2] = k
    <3>1. PICK n \in 1 .. N : Rank(s, score, n) = k
      BY <1>a
    <3>2. <<n, Rank(s, score, n)>> \in ranks
      OBVIOUS
    <3> QED BY <3>1, <3>2
  <2>2. PICK r \in ranks : r[2] = k /\ p[k] = r[1]
    BY <2>1
  <2> QED BY <2>2
<1>2. Ranked(s, score) = [k \in 1 .. N |-> s[p[k]]]
  <2>1. ranks = {<<n, Cardinality({m \in DOMAIN s : Ahead(score, m, n)})>> : n \in DOMAIN s}
    BY <1>0 DEF Rank
  <2> HIDE DEF ranks
  <2>2. \A k \in 1 .. N : p[k] = (CHOOSE r \in ranks : r[2] = k)[1]
    OBVIOUS
  <2> QED BY <2>1, <2>2 DEF Ranked
<1> HIDE DEF N, ranks
<1>3. Ranked(s, score) \in Seq(S) /\ Len(Ranked(s, score)) = N /\ \A k \in 1 .. N : Ranked(s, score)[k] = s[p[k]]
  <2>1. \A k \in 1 .. N : s[p[k]] \in S
    BY <1>0, <1>1
  <2> HIDE DEF p
  <2> QED BY <1>0, <1>2, <2>1
<1>4. p \in [1 .. N -> 1 .. N]
  BY <1>1
<1> HIDE DEF p
<1>5. \A k, l \in 1 .. N : k <= l => score[p[k]] >= score[p[l]]
  <2> SUFFICES ASSUME NEW k \in 1 .. N, NEW l \in 1 .. N, k <= l PROVE score[p[k]] >= score[p[l]]
    OBVIOUS
  <2>1. Rank(s, score, p[k]) = k /\ Rank(s, score, p[l]) = l /\ p[k] \in 1 .. N /\ p[l] \in 1 .. N
    BY <1>1
  <2>2. Ahead(score, p[k], p[l])
    BY <1>a, <2>1
  <2>3. score[p[k]] \in Int /\ score[p[l]] \in Int
    BY <1>0, <2>1
  <2> QED BY <2>2, <2>3 DEF Ahead
<1>6. \A n \in 1 .. N : p[Rank(s, score, n)] = n
  <2> TAKE n \in 1 .. N
  <2>1. Rank(s, score, n) \in 1 .. N
    BY <1>a
  <2> DEFINE m == p[Rank(s, score, n)]
  <2>2. m \in 1 .. N /\ Rank(s, score, m) = Rank(s, score, n)
    BY <1>1, <2>1
  <2> HIDE DEF m
  <2>3. Rank(s, score, m) <= Rank(s, score, n) /\ Rank(s, score, n) <= Rank(s, score, m)
    BY <1>0, <2>1, <2>2
  <2>4. Ahead(score, m, n) /\ Ahead(score, n, m)
    BY <1>a, <2>2, <2>3
  <2>5. score[m] \in Int /\ score[n] \in Int /\ m \in Int /\ n \in Int
    BY <1>0, <2>2
  <2>6. m = n
    BY <2>4, <2>5 DEF Ahead
  <2> QED BY <2>6 DEF m
<1>7. \E q \in [1 .. N -> 1 .. N] :
         /\ \A k \in 1 .. N : Ranked(s, score)[k] = s[q[k]] /\ Rank(s, score, q[k]) = k
         /\ \A k, l \in 1 .. N : k <= l => score[q[k]] >= score[q[l]]
         /\ \A n \in 1 .. N : q[Rank(s, score, n)] = n
  BY <1>1, <1>3, <1>4, <1>5, <1>6
<1> QED BY <1>3, <1>7 DEF N

(***************************************************************************)
(* The inductive invariant.                                                 *)
(***************************************************************************)

Told == {F1, F2, F3, Corrects}
Records == {parseRecord(raw) : raw \in Told}
Statuses == {"active", "historical", "superseded"}

\* A row of a record r of ingestion i.
Made(r, i, id, status, by) ==
    [id |-> id, line |-> r.line, tag |-> r.tag, at |-> PlaceOf[r.line], status |-> status,
     keys |-> r.keys, factDate |-> r.factDate, by |-> by, from |-> i]
Rows == {Made(r, i, id, status, by) :
           r \in Records, i \in Ingestion, id \in Nat, status \in Statuses, by \in Nat}

Lines == {"f1", "f2", "f3", "c"}
Stages == {"ready", "extract", "embed", "known", "probe", "quotes", "lookup", "retire", "failed", "done", "gone"}
Works == [records : Seq(Records), vectors : Seq(Int), known : SUBSET Lines, payload : Seq(Rows),
          next : Nat \ {0}, own : SUBSET Nat, quotes : Seq(Int), hits : Seq(Nat)]

MemoryTyped ==
    /\ said \in [Ingestion -> Seq(Told)]
    /\ stage \in [Ingestion -> Stages]
    /\ work \in [Ingestion -> Works]
    /\ troubled \in [Ingestion -> BOOLEAN]
    /\ retries \in Nat /\ wiped \in Nat /\ open \subseteq Ingestion
    /\ facts \in Seq(Rows)
    /\ stored \subseteq Rows /\ IsFiniteSet(stored)

\* The rows ever stored are numbered from 1.
Numbered ==
    /\ \A row \in stored : row.id \in 1 .. Cardinality(stored)
    /\ \A row, other \in stored : row.id = other.id => row = other

\* A row of the table is one that was stored.
Same(row, other) == row.id = other.id /\ row.line = other.line /\ row.from = other.from
Recorded == \A n \in DOMAIN facts : \E row \in stored : Same(facts[n], row)

\* What an ingestion holds while it is at a place, given the rows stored so far.
Says(rows, r) ==
    \E row \in rows : row.line = r.line
                      \/ (row.tag = r.tag /\ Similarity(row.at, PlaceOf[r.line]) >= 93)

Planned(w, row) == \E n \in DOMAIN w.records : w.records[n].line = row.line

Probing(i, w, rows) ==
    /\ \A line \in w.known : \E row \in rows : row.line = line
    /\ \A k \in DOMAIN w.payload :
          w.payload[k].from = i /\ w.payload[k].status # "superseded" /\ Planned(w, w.payload[k])
    /\ \A n \in DOMAIN w.records : n < w.next =>
          \/ Says(rows, w.records[n])
          \/ \E k \in DOMAIN w.payload : w.payload[k].line = w.records[n].line

Inserted(i, w, rows) ==
    /\ \A n \in DOMAIN w.records : Says(rows, w.records[n])
    /\ \A id \in w.own : \E row \in rows : row.id = id
    /\ \A row \in rows : row.id \in w.own => row.from = i /\ Planned(w, row)
    /\ \A row \in rows : row.from = i /\ row.id \notin w.own => \A id \in w.own : row.id < id

CorrectionsOf(w, rows) ==
    ElementsAt(w.records, {n \in DOMAIN w.records :
        /\ w.records[n].supersedes # Nothing
        /\ \E row \in rows : row.id \in w.own /\ row.line = w.records[n].line})

Quoting(w, rows) ==
    /\ Len(w.quotes) = Len(CorrectionsOf(w, rows))
    /\ \A n \in DOMAIN w.quotes : w.quotes[n] = PlaceOf["f1"]

Aiming(w, rows) ==
    /\ w.next <= Len(CorrectionsOf(w, rows))
    /\ \A k \in DOMAIN w.hits :
          /\ w.hits[k] \notin w.own
          /\ \E row \in rows : row.id = w.hits[k] /\ Similarity(row.at, PlaceOf["f1"]) >= 60

Held(i, place, w, rows) ==
    /\ place = "embed" => w.records # <<>>
    /\ place \in {"embed", "known"} => w.payload = <<>> /\ w.next = 1
    /\ place = "quotes" => w.next = 1
    /\ place \in {"known", "probe"} => w.vectors = Places(w.records)
    /\ place = "probe" => Probing(i, w, rows)
    /\ place \in {"quotes", "lookup", "retire"} => Inserted(i, w, rows)
    /\ place \in {"lookup", "retire"} => Quoting(w, rows)
    /\ place = "retire" => Aiming(w, rows)

AllHeld == \A i \in Ingestion : Held(i, stage[i], work[i], stored)

\* Two ingestions under way at once have troubled each other, and a failed one
\* is troubled.
Going == {"extract", "embed", "known", "probe", "quotes", "lookup", "retire"}
Apart == \A i, o \in Ingestion : i # o /\ stage[i] \in Going /\ stage[o] \in Going => troubled[i] /\ troubled[o]
FailedIsTroubled == \A i \in Ingestion : stage[i] = "failed" => troubled[i]

\* An ingestion that nothing disturbed stores its rows once.
OnceAt(i, place, w, rows) ==
    /\ place \in {"ready", "extract", "embed", "known", "probe"} => \A row \in rows : row.from # i
    /\ place \in {"quotes", "lookup", "retire"} => \A row \in rows : row.from = i => row.id \in w.own

\* What it still has to retire: the rows of others that are active and nearly
\* what a correction quotes.
QuotedIn(table) == {n \in DOMAIN table : Similarity(table[n].at, PlaceOf["f1"]) >= 85}
Few(table) == Cardinality(QuotedIn(table)) <= 5
Left(i, table) == {n \in QuotedIn(table) : table[n].from # i /\ table[n].status = "active"}
Settled(i, table) ==
    \A n \in DOMAIN table : table[n].from = i /\ table[n].tag = "CORRECTION" => \A m \in Left(i, table) : ~(m < n)
RetiredAt(i, place, w, table) ==
    Few(table) =>
        /\ place = "lookup" /\ w.next > 1 => Left(i, table) = {}
        /\ place = "retire" => \A n \in Left(i, table) : \E k \in DOMAIN w.hits : w.hits[k] = table[n].id
        /\ place = "done" => Settled(i, table)

Undisturbed ==
    \A i \in Ingestion : ~troubled[i] =>
        OnceAt(i, stage[i], work[i], stored) /\ RetiredAt(i, stage[i], work[i], facts)

OpenOnly == wiped > 0 => \A i \in Ingestion \ open : stage[i] \in {"gone", "done"}

MemoryInv ==
    /\ MemoryTyped /\ Numbered /\ Recorded /\ AllHeld
    /\ Apart /\ FailedIsTroubled /\ Undisturbed
    /\ RetiredForCause /\ EraseHolds /\ OpenOnly

\* The greatest of a nonempty set of places is one of them.
LEMMA LastPlace ==
  ASSUME NEW m \in Nat, NEW S \in SUBSET (1 .. m), S # {}
  PROVE  Max(S) \in S
<1> DEFINE T == {m - i : i \in S}
<1>1. T \subseteq Nat /\ T # {}
  <2>1. \A i \in S : m - i \in Nat
    OBVIOUS
  <2> QED BY <2>1
<1>2. PICK j \in T : \A l \in T : j <= l
  BY <1>1, Least
<1>3. PICK i \in S : j = m - i
  BY <1>2
<1>4. \A l \in S : i >= l
  <2> TAKE l \in S
  <2>1. m - i <= m - l
    BY <1>2, <1>3
  <2>2. i \in Nat /\ l \in Nat
    OBVIOUS
  <2> QED BY <2>1, <2>2
<1>5. \E x \in S : \A y \in S : x >= y
  BY <1>4
<1> QED BY <1>5 DEF Max

\* What is read of the lines a model may answer with.
LEMMA RecordsAre ==
  /\ \A r \in Records : /\ r.line \in {"f1", "f2", "f3", "c"} /\ r.status \in {"active", "historical"}
                        /\ r.tag = (IF r.line = "c" THEN "CORRECTION" ELSE "FACT")
                        /\ r.supersedes = (IF r.line = "c" THEN "f1" ELSE Nothing)
  /\ \A r, q \in Records : r.line = q.line => r = q
<1> DEFINE Named(raw, name) == {n \in DOMAIN raw.fields : raw.fields[n].name = name /\ raw.fields[n].value # <<>>}
<1>1. \A raw \in Told : parseRecord(raw).line = raw.id /\ parseRecord(raw).tag = raw.tag
                        /\ parseRecord(raw).status \in {"active", "historical"}
  BY DEF parseRecord
<1>2. \A raw \in {F1, F2, F3} : raw.id \in {"f1", "f2", "f3"} /\ raw.tag = "FACT"
  BY DEF F1, F2, F3, Raw
<1>3. Corrects.id = "c" /\ Corrects.tag = "CORRECTION"
  BY DEF Corrects, Raw
<1>4. \A raw, other \in Told : raw.id = other.id => raw = other
  <2>1. F1.id = "f1" /\ F2.id = "f2" /\ F3.id = "f3"
    BY DEF F1, F2, F3, Raw
  <2> QED BY <1>3, <2>1 DEF Told
<1>5. \A raw \in {F1, F2, F3} : Named(raw, "supersedes") = {}
  BY DEF F1, F2, F3, Raw, Field
<1>6. \A raw : Named(raw, "supersedes") = {} => parseRecord(raw).supersedes = Nothing
  BY DEF parseRecord
<1>7. parseRecord(Corrects).supersedes = "f1"
  <2>1. Named(Corrects, "supersedes") = {2}
    BY DEF Corrects, Raw, Field
  <2>2. Max({2}) = 2
    BY LastPlace
  <2>3. Corrects.fields[2].value = <<"f1">>
    BY DEF Corrects, Raw, Field
  <2>4. \A raw : parseRecord(raw).supersedes =
           LET quote == IF Named(raw, "supersedes") = {} THEN <<>> ELSE raw.fields[Max(Named(raw, "supersedes"))].value
           IN  IF quote = <<>> THEN Nothing ELSE quote[1]
    BY DEF parseRecord
  <2>5. <<"f1">> # <<>> /\ <<"f1">>[1] = "f1"
    OBVIOUS
  <2> HIDE DEF Named
  <2> QED BY <2>1, <2>2, <2>3, <2>4, <2>5
<1>8. \A r \in Records : \E raw \in Told : r = parseRecord(raw)
  BY DEF Records
<1>9. \A raw \in Told : raw = Corrects \/ raw \in {F1, F2, F3}
  BY DEF Told
<1>10. ASSUME NEW r \in Records
       PROVE  /\ r.line \in {"f1", "f2", "f3", "c"} /\ r.status \in {"active", "historical"}
              /\ r.tag = (IF r.line = "c" THEN "CORRECTION" ELSE "FACT")
              /\ r.supersedes = (IF r.line = "c" THEN "f1" ELSE Nothing)
  <2>1. PICK raw \in Told : r = parseRecord(raw)
    BY <1>8
  <2>2. CASE raw = Corrects
    BY <1>1, <1>3, <1>7, <2>1, <2>2
  <2>3. CASE raw \in {F1, F2, F3}
    BY <1>1, <1>2, <1>5, <1>6, <2>1, <2>3
  <2> QED BY <1>9, <2>2, <2>3
<1>11. \A r, q \in Records : r.line = q.line => r = q
  BY <1>1, <1>4, <1>8
<1> QED BY <1>10, <1>11

\* Every line has its place.
LEMMA PlacesAre == \A line \in Lines : PlaceOf[line] \in Int
BY DEF PlaceOf, Lines

\* A row's fields are those of its line, but for its number, its origin, its
\* status and what retired it.
LEMMA RowIs ==
  /\ \A row \in Rows : /\ row.id \in Nat /\ row.line \in Lines /\ row.at = PlaceOf[row.line] /\ row.at \in Int
                       /\ row.status \in Statuses /\ row.by \in Nat /\ row.from \in Ingestion
                       /\ row.tag = (IF row.line = "c" THEN "CORRECTION" ELSE "FACT")
  /\ \A row, other \in Rows : row.line = other.line =>
        row.at = other.at /\ row.tag = other.tag /\ row.keys = other.keys /\ row.factDate = other.factDate
<1>1. ASSUME NEW row \in Rows
      PROVE  \E r \in Records : /\ row.id \in Nat /\ row.line = r.line /\ row.at = PlaceOf[r.line] /\ row.status \in Statuses
                                /\ row.by \in Nat /\ row.from \in Ingestion /\ row.tag = r.tag
                                /\ row.keys = r.keys /\ row.factDate = r.factDate
  <2>1. PICK r \in Records, i \in Ingestion, id \in Nat, status \in Statuses, by \in Nat : row = Made(r, i, id, status, by)
    BY DEF Rows
  <2>2. /\ row.id = id /\ row.line = r.line /\ row.at = PlaceOf[r.line] /\ row.status = status
        /\ row.by = by /\ row.from = i /\ row.tag = r.tag /\ row.keys = r.keys /\ row.factDate = r.factDate
    BY <2>1 DEF Made
  <2> QED BY <2>2
<1>2. ASSUME NEW row \in Rows
      PROVE  /\ row.id \in Nat /\ row.line \in Lines /\ row.at = PlaceOf[row.line] /\ row.at \in Int
             /\ row.status \in Statuses /\ row.by \in Nat /\ row.from \in Ingestion
             /\ row.tag = (IF row.line = "c" THEN "CORRECTION" ELSE "FACT")
  <2>1. PICK r \in Records : /\ row.id \in Nat /\ row.line = r.line /\ row.at = PlaceOf[r.line] /\ row.status \in Statuses
                             /\ row.by \in Nat /\ row.from \in Ingestion /\ row.tag = r.tag
    BY <1>1
  <2>2. r.line \in Lines /\ r.tag = (IF r.line = "c" THEN "CORRECTION" ELSE "FACT")
    BY RecordsAre DEF Lines
  <2> QED BY <2>1, <2>2, PlacesAre
<1>3. ASSUME NEW row \in Rows, NEW other \in Rows, row.line = other.line
      PROVE  row.at = other.at /\ row.tag = other.tag /\ row.keys = other.keys /\ row.factDate = other.factDate
  <2>1. PICK r \in Records : /\ row.line = r.line /\ row.at = PlaceOf[r.line] /\ row.tag = r.tag
                             /\ row.keys = r.keys /\ row.factDate = r.factDate
    BY <1>1
  <2>2. PICK q \in Records : /\ other.line = q.line /\ other.at = PlaceOf[q.line] /\ other.tag = q.tag
                             /\ other.keys = q.keys /\ other.factDate = q.factDate
    BY <1>1
  <2>3. r.line = q.line
    BY <1>3, <2>1, <2>2
  <2>4. r = q
    BY <2>3, RecordsAre, ZenonT(60)
  <2> QED BY <2>1, <2>2, <2>4
<1> QED BY <1>2, <1>3

\* A row that gets its number,
LEMMA RowNumbered ==
  ASSUME NEW row \in Rows, NEW x \in Nat
  PROVE  LET other == [row EXCEPT !.id = x]
         IN  other \in Rows /\ other.id = x /\ other.line = row.line /\ other.from = row.from /\ other.status = row.status
<1>1. PICK r \in Records, i \in Ingestion, id \in Nat, status \in Statuses, by \in Nat : row = Made(r, i, id, status, by)
  BY DEF Rows
<1>2. [row EXCEPT !.id = x] = Made(r, i, x, status, by)
  BY <1>1 DEF Made
<1>3. Made(r, i, x, status, by) \in Rows
  BY DEF Rows
<1>4. /\ row.line = r.line /\ row.from = i /\ row.status = status
      /\ Made(r, i, x, status, by).id = x /\ Made(r, i, x, status, by).line = r.line
      /\ Made(r, i, x, status, by).from = i /\ Made(r, i, x, status, by).status = status
  BY <1>1 DEF Made
<1> QED BY <1>2, <1>3, <1>4

\* one that is retired,
LEMMA RowRetired ==
  ASSUME NEW row \in Rows, NEW x \in Nat
  PROVE  LET other == [row EXCEPT !.status = "superseded", !.by = x]
         IN  other \in Rows /\ Same(other, row) /\ other.status = "superseded" /\ other.by = x
<1>1. PICK r \in Records, i \in Ingestion, id \in Nat, status \in Statuses, by \in Nat : row = Made(r, i, id, status, by)
  BY DEF Rows
<1>2. [row EXCEPT !.status = "superseded", !.by = x] = Made(r, i, id, "superseded", x)
  <2>1. [row EXCEPT !.status = "superseded"] = Made(r, i, id, "superseded", by)
    BY <1>1 DEF Made
  <2>2. [Made(r, i, id, "superseded", by) EXCEPT !.by = x] = Made(r, i, id, "superseded", x)
    BY DEF Made
  <2>3. [row EXCEPT !.status = "superseded", !.by = x] = [[row EXCEPT !.status = "superseded"] EXCEPT !.by = x]
    OBVIOUS
  <2> QED BY <2>1, <2>2, <2>3
<1>3. Made(r, i, id, "superseded", x) \in Rows
  BY DEF Rows, Statuses
<1>4. /\ row.line = r.line /\ row.from = i /\ row.id = id
      /\ LET other == Made(r, i, id, "superseded", x)
         IN  other.id = id /\ other.line = r.line /\ other.from = i /\ other.status = "superseded" /\ other.by = x
  BY <1>1 DEF Made
<1> QED BY <1>2, <1>3, <1>4 DEF Same

\* and one that is planned.
LEMMA RowPlanned ==
  ASSUME NEW r \in Records, NEW i \in Ingestion
  PROVE  LET row == Row(r, PlaceOf[r.line], i)
         IN  row \in Rows /\ row.line = r.line /\ row.from = i /\ row.status # "superseded"
<1>1. r.status \in Statuses /\ r.status # "superseded"
  BY RecordsAre DEF Statuses
<1>2. Row(r, PlaceOf[r.line], i) = Made(r, i, 0, r.status, 0)
  BY DEF Row, Made
<1>3. Made(r, i, 0, r.status, 0) \in Rows
  BY <1>1 DEF Rows
<1>4. LET row == Made(r, i, 0, r.status, 0) IN row.line = r.line /\ row.from = i /\ row.status = r.status
  BY DEF Made
<1> QED BY <1>1, <1>2, <1>3, <1>4

\* What is known of a sequence.
LEMMA InSeq ==
  ASSUME NEW S, NEW s \in Seq(S)
  PROVE  Len(s) \in Nat /\ DOMAIN s = 1 .. Len(s) /\ \A n \in 1 .. Len(s) : s[n] \in S
OBVIOUS

\* A function with places from 1 is a sequence.
LEMMA IsSeq ==
  ASSUME NEW S, NEW n \in Nat, NEW f, DOMAIN f = 1 .. n, f = [k \in 1 .. n |-> f[k]], \A k \in 1 .. n : f[k] \in S
  PROVE  f \in Seq(S) /\ Len(f) = n
OBVIOUS

Parts == [partial : BOOLEAN, thought : BOOLEAN, line : Told \cup {Noise}]

\* A part of an answer.
LEMMA PartIs ==
  ASSUME NEW partial \in BOOLEAN, NEW thought \in BOOLEAN, NEW line \in Told \cup {Noise}
  PROVE  Part(partial, thought, line) \in Parts
BY DEF Part, Parts

\* A model's answers are sequences of parts.
LEMMA AnswersAre ==
  ASSUME NEW lines \in Seq(Told), NEW answer \in AnswersOf(lines) \cup {<<Part(FALSE, FALSE, Noise)>>}
  PROVE  answer \in Seq(Parts)
<1> DEFINE All(partial) == [n \in DOMAIN lines |-> Part(partial, FALSE, lines[n])]
<1>1. \A partial \in BOOLEAN : All(partial) \in Seq(Parts)
  <2> TAKE partial \in BOOLEAN
  <2>1. Len(lines) \in Nat /\ DOMAIN lines = 1 .. Len(lines) /\ \A n \in 1 .. Len(lines) : lines[n] \in Told
    BY InSeq
  <2>2. \A n \in 1 .. Len(lines) : Part(partial, FALSE, lines[n]) \in Parts
    <3> TAKE n \in 1 .. Len(lines)
    <3>1. lines[n] \in Told \cup {Noise}
      BY <2>1
    <3> QED BY <3>1, PartIs
  <2>3. DOMAIN All(partial) = 1 .. Len(lines) /\ \A n \in 1 .. Len(lines) : All(partial)[n] \in Parts
    BY <2>1, <2>2
  <2>4. All(partial) = [n \in 1 .. Len(lines) |-> All(partial)[n]]
    BY <2>1
  <2> HIDE DEF All
  <2> QED BY <2>1, <2>3, <2>4, IsSeq
<1> HIDE DEF All
<1>2. Part(FALSE, FALSE, Noise) \in Parts /\ Part(FALSE, TRUE, F3) \in Parts
  BY PartIs DEF Told
<1>3. All(TRUE) \o <<Part(FALSE, TRUE, F3), Part(FALSE, FALSE, Noise)>> \o All(FALSE) \in Seq(Parts)
  <2>1. <<Part(FALSE, TRUE, F3), Part(FALSE, FALSE, Noise)>> \in Seq(Parts)
    <3>1. \A S : \A x, y \in S : <<x, y>> \in Seq(S)
      OBVIOUS
    <3> QED BY <1>2, <3>1, Zenon
  <2>2. \A s, t \in Seq(Parts) : s \o t \in Seq(Parts)
    OBVIOUS
  <2> QED BY <1>1, <2>1, <2>2
<1>4. <<Part(FALSE, FALSE, Noise)>> \in Seq(Parts)
  <2>1. \A S : \A x \in S : <<x>> \in Seq(S)
    OBVIOUS
  <2> QED BY <1>2, <2>1, Zenon
<1>5. answer \in {All(FALSE), All(TRUE) \o <<Part(FALSE, TRUE, F3), Part(FALSE, FALSE, Noise)>> \o All(FALSE),
                  <<Part(FALSE, FALSE, Noise)>>}
  BY DEF AnswersOf, All
<1> QED BY <1>1, <1>3, <1>4, <1>5

\* What is extracted of an answer are records.
LEMMA ExtractIs ==
  ASSUME NEW answer \in Seq(Parts)
  PROVE  Parsed(Heard(answer)) \in Seq(Records)
<1> DEFINE heard == ElementsAt(answer, {n \in DOMAIN answer : ~answer[n].partial /\ ~answer[n].thought})
           lines == Heard(answer)
           good == ElementsAt(lines, {n \in DOMAIN lines : lines[n].tag # Nothing})
<1>1. heard \in Seq(Parts)
  BY KeptIs
<1>2. lines \in Seq(Told \cup {Noise})
  <2>1. lines = [n \in DOMAIN heard |-> heard[n].line]
    BY DEF Heard
  <2>2. Len(heard) \in Nat /\ DOMAIN heard = 1 .. Len(heard) /\ \A n \in 1 .. Len(heard) : heard[n].line \in Told \cup {Noise}
    <3> HIDE DEF heard
    <3>1. Len(heard) \in Nat /\ DOMAIN heard = 1 .. Len(heard) /\ \A n \in 1 .. Len(heard) : heard[n] \in Parts
      BY <1>1, InSeq
    <3>2. \A part \in Parts : part.line \in Told \cup {Noise}
      BY DEF Parts
    <3> QED BY <3>1, <3>2
  <2> HIDE DEF heard, lines
  <2>3. DOMAIN lines = 1 .. Len(heard) /\ lines = [n \in 1 .. Len(heard) |-> lines[n]] /\ \A n \in 1 .. Len(heard) : lines[n] \in Told \cup {Noise}
    BY <2>1, <2>2
  <2> QED BY <2>2, <2>3, IsSeq
<1> HIDE DEF lines
<1>3. good \in Seq(Told \cup {Noise}) /\ \A k \in 1 .. Len(good) : good[k] \in Told
  <2>1. /\ good \in Seq(Told \cup {Noise})
        /\ \A k \in 1 .. Len(good) : \E n \in 1 .. Len(lines) : n \in DOMAIN lines /\ lines[n].tag # Nothing /\ good[k] = lines[n]
    <3> DEFINE some == {n \in DOMAIN lines : lines[n].tag # Nothing}
               kept == ElementsAt(lines, some)
    <3>1. /\ kept \in Seq(Told \cup {Noise})
          /\ \A k \in 1 .. Len(kept) : \E n \in 1 .. Len(lines) : n \in some /\ kept[k] = lines[n]
      <4> HIDE DEF some
      <4> QED BY <1>2, KeptIs
    <3>2. good = kept
      OBVIOUS
    <3>3. \A n \in some : n \in DOMAIN lines /\ lines[n].tag # Nothing
      OBVIOUS
    <3> HIDE DEF good, kept, some
    <3> QED BY <3>1, <3>2, <3>3
  <2>2. Noise.tag = Nothing
    BY DEF Noise, Raw
  <2> HIDE DEF good
  <2>3. \A k \in 1 .. Len(good) : good[k] \in Told \cup {Noise} /\ good[k].tag # Nothing
    BY <2>1
  <2> QED BY <2>1, <2>2, <2>3
<1>4. Parsed(lines) = [n \in DOMAIN good |-> parseRecord(good[n])]
  BY DEF Parsed
<1> HIDE DEF good
<1>5. Len(good) \in Nat /\ DOMAIN good = 1 .. Len(good) /\ \A n \in 1 .. Len(good) : parseRecord(good[n]) \in Records
  BY <1>3 DEF Records
<1>6. Parsed(lines) \in Seq(Records)
  BY <1>4, <1>5
<1> QED BY <1>6 DEF lines

Vectors == [index : Int, at : Int, dimensions : Int]

Order(answer) == [n \in DOMAIN answer |-> -answer[n].index]

\* Vectors sorted by their index are in the order of the texts.
LEMMA SortedByIndex ==
  ASSUME NEW places \in Seq(Int), NEW answer \in Seq(Vectors), Len(answer) = Len(places),
         \A n \in 1 .. Len(places) :
            /\ answer[n].index \in 1 .. Len(places) /\ answer[n].at = places[answer[n].index]
            /\ Rank(answer, Order(answer), n) = answer[n].index
  PROVE  [n \in DOMAIN Ranked(answer, Order(answer)) |-> Ranked(answer, Order(answer))[n].at] = places
<1> DEFINE score == Order(answer)
           N == Len(places)
           sorted == Ranked(answer, score)
<1>0. N \in Nat /\ DOMAIN answer = 1 .. N /\ places = [n \in 1 .. N |-> places[n]]
  OBVIOUS
<1> USE DEF Order
<1>1. score \in [1 .. Len(answer) -> Int]
  <2>1. \A n \in 1 .. N : -answer[n].index \in Int
    <3> TAKE n \in 1 .. N
    <3>1. answer[n] \in Vectors
      BY <1>0, InSeq
    <3>2. answer[n].index \in Int
      BY <3>1 DEF Vectors
    <3> QED BY <3>2
  <2> QED BY <1>0, <2>1
<1>2. /\ sorted \in Seq(Vectors) /\ Len(sorted) = N
      /\ \E p \in [1 .. N -> 1 .. N] : \A k \in 1 .. N : sorted[k] = answer[p[k]] /\ Rank(answer, score, p[k]) = k
  <2>1. /\ sorted \in Seq(Vectors) /\ Len(sorted) = Len(answer)
        /\ \E p \in [1 .. Len(answer) -> 1 .. Len(answer)] :
             /\ \A k \in 1 .. Len(answer) : sorted[k] = answer[p[k]] /\ Rank(answer, score, p[k]) = k
             /\ \A k, l \in 1 .. Len(answer) : k <= l => score[p[k]] >= score[p[l]]
             /\ \A n \in 1 .. Len(answer) : p[Rank(answer, score, n)] = n
    BY <1>1, RankedIs
  <2> HIDE DEF sorted
  <2> QED BY <2>1
<1>3. PICK p \in [1 .. N -> 1 .. N] : \A k \in 1 .. N : sorted[k] = answer[p[k]] /\ Rank(answer, score, p[k]) = k
  BY <1>2
<1> HIDE DEF N, sorted
<1>4. \A k \in 1 .. N : sorted[k].at = places[k]
  <2> TAKE k \in 1 .. N
  <2>1. p[k] \in 1 .. N
    OBVIOUS
  <2>2. answer[p[k]].index = k /\ answer[p[k]].at = places[answer[p[k]].index]
    BY <1>3, <2>1 DEF N
  <2> QED BY <1>3, <2>2
<1>5. DOMAIN sorted = 1 .. N
  BY <1>2
<1> QED BY <1>0, <1>4, <1>5 DEF N, sorted

\* The embedder gives the texts' own vectors, whatever order the service
\* answered in, or fails.
LEMMA EmbedIs ==
  ASSUME NEW places \in Seq(Int), places # <<>>, NEW vectors \in embed(places), vectors # Wrong
  PROVE  vectors = places
<1> DEFINE N == Len(places)
           all == [n \in DOMAIN places |-> Vector(n, places[n], 1)]
<1>0. N \in Nat /\ N >= 1 /\ DOMAIN places = 1 .. N /\ \A n \in 1 .. N : places[n] \in Int
  OBVIOUS
<1>1. all \in Seq(Vectors) /\ Len(all) = N /\ \A n \in 1 .. N : all[n] = Vector(n, places[n], 1)
  <2>1. \A n \in 1 .. N : Vector(n, places[n], 1) \in Vectors
    BY <1>0 DEF Vector, Vectors
  <2> HIDE DEF N
  <2> QED BY <1>0, <2>1
<1> HIDE DEF all, N
<1>2. CASE embedder = "gemini"
  BY <1>2 DEF embed
<1>3. ASSUME NEW answer \in BatchAnswers(places), vectors = Embedded(places, answer) PROVE vectors = places
  <2>1. answer \in {all, Reverse(all), Tail(all), [all EXCEPT ![1] = [@ EXCEPT !.dimensions = 2]]}
    BY <1>3 DEF BatchAnswers, all
  <2>2. Embedded(places, Tail(all)) = Wrong
    <3>1. Len(Tail(all)) # Len(places)
      BY <1>0, <1>1 DEF N
    <3> QED BY <3>1 DEF Embedded
  <2>3. Embedded(places, [all EXCEPT ![1] = [@ EXCEPT !.dimensions = 2]]) = Wrong
    <3> DEFINE odd == [all EXCEPT ![1] = [@ EXCEPT !.dimensions = 2]]
    <3>1. all[1] = [index |-> 1, at |-> places[1], dimensions |-> 1]
      BY <1>0, <1>1 DEF Vector
    <3>2. [all[1] EXCEPT !.dimensions = 2].dimensions = 2
      BY <3>1
    <3>3. 1 \in DOMAIN all /\ odd = [all EXCEPT ![1] = [all[1] EXCEPT !.dimensions = 2]]
      BY <1>0, <1>1
    <3>4. 1 \in DOMAIN odd /\ odd[1].dimensions = 2
      BY <3>2, <3>3
    <3> HIDE DEF odd
    <3>5. \E n \in DOMAIN odd : odd[n].dimensions # 1
      BY <3>4
    <3>6. Embedded(places, odd) = Wrong
      BY <3>5 DEF Embedded
    <3> QED BY <3>6 DEF odd
  <2>4. ASSUME answer \in Seq(Vectors), Len(answer) = N, NEW index \in [1 .. N -> 1 .. N],
               \A n \in 1 .. N : answer[n] = Vector(index[n], places[index[n]], 1),
               \A n \in 1 .. N : Cardinality({m \in 1 .. N : index[m] < index[n] \/ (index[m] = index[n] /\ m <= n)}) = index[n]
        PROVE  Embedded(places, answer) = places
    <3> DEFINE score == Order(answer)
    <3>1. \A n \in 1 .. N : answer[n].index = index[n] /\ answer[n].at = places[index[n]] /\ answer[n].dimensions = 1
      BY <2>4 DEF Vector
    <3>2. DOMAIN answer = 1 .. N
      BY <2>4
    <3>3. Embedded(places, answer) = [n \in DOMAIN Ranked(answer, score) |-> Ranked(answer, score)[n].at]
      BY <2>4, <3>1, <3>2 DEF Embedded, N, Order
    <3>4. \A n \in 1 .. N : score[n] = -index[n]
      BY <3>1, <3>2 DEF Order
    <3> HIDE DEF score
    <3>5. ASSUME NEW n \in 1 .. N PROVE Rank(answer, score, n) = index[n]
      <4>1. ASSUME NEW m \in 1 .. N PROVE Ahead(score, m, n) <=> index[m] < index[n] \/ (index[m] = index[n] /\ m <= n)
        <5>1. index[m] \in 1 .. N /\ index[n] \in 1 .. N /\ score[m] = -index[m] /\ score[n] = -index[n]
          BY <2>4, <3>4
        <5>2. index[m] \in Int /\ index[n] \in Int
          BY <1>0, <5>1
        <5> QED BY <5>1, <5>2 DEF Ahead
      <4>2. {m \in 1 .. N : Ahead(score, m, n)} = {m \in 1 .. N : index[m] < index[n] \/ (index[m] = index[n] /\ m <= n)}
        BY <4>1
      <4> QED BY <2>4, <4>2 DEF Rank
    <3>6. \A n \in 1 .. Len(places) :
            /\ answer[n].index \in 1 .. Len(places) /\ answer[n].at = places[answer[n].index]
            /\ Rank(answer, score, n) = answer[n].index
      BY <3>1, <3>5 DEF N
    <3>7. [n \in DOMAIN Ranked(answer, score) |-> Ranked(answer, score)[n].at] = places
      <4> HIDE DEF Vectors
      <4>1. answer \in Seq(Vectors) /\ Len(answer) = Len(places)
        BY <2>4 DEF N
      <4> QED BY <3>6, <4>1, SortedByIndex DEF score
    <3> QED BY <3>3, <3>7
  <2>5. CASE answer = all
    <3> DEFINE index == [n \in 1 .. N |-> n]
    <3>1. \A n \in 1 .. N : all[n] = Vector(index[n], places[index[n]], 1)
      BY <1>1
    <3>2. ASSUME NEW n \in 1 .. N
          PROVE  Cardinality({m \in 1 .. N : index[m] < index[n] \/ (index[m] = index[n] /\ m <= n)}) = index[n]
      <4>1. {m \in 1 .. N : index[m] < index[n] \/ (index[m] = index[n] /\ m <= n)} = 1 .. n
        BY <1>0
      <4>2. Cardinality(1 .. n) = n
        BY <1>0, FS_Interval
      <4> QED BY <4>1, <4>2
    <3>3. index \in [1 .. N -> 1 .. N]
      OBVIOUS
    <3> HIDE DEF index
    <3> QED BY <1>1, <1>3, <2>4, <2>5, <3>1, <3>2, <3>3
  <2>6. CASE answer = Reverse(all)
    <3> DEFINE index == [n \in 1 .. N |-> N - n + 1]
    <3>1. \A n \in 1 .. N : index[n] = N - n + 1 /\ index[n] \in 1 .. N
      BY <1>0
    <3>2. answer = [n \in 1 .. N |-> all[N - n + 1]]
      BY <1>1, <2>6 DEF Reverse
    <3>3. ASSUME NEW n \in 1 .. N
          PROVE  Cardinality({m \in 1 .. N : index[m] < index[n] \/ (index[m] = index[n] /\ m <= n)}) = index[n]
      <4>1. \A m \in 1 .. N : (index[m] < index[n] \/ (index[m] = index[n] /\ m <= n)) <=> m >= n
        BY <1>0, <3>1
      <4>2. {m \in 1 .. N : index[m] < index[n] \/ (index[m] = index[n] /\ m <= n)} = n .. N
        BY <1>0, <4>1
      <4>3. Cardinality(n .. N) = N - n + 1
        BY <1>0, FS_Interval
      <4> QED BY <3>1, <4>2, <4>3
    <3>4. index \in [1 .. N -> 1 .. N]
      BY <3>1
    <3> HIDE DEF index
    <3>5. answer \in Seq(Vectors) /\ Len(answer) = N
      BY <1>0, <1>1, <3>1, <3>2
    <3>6. \A n \in 1 .. N : answer[n] = Vector(index[n], places[index[n]], 1)
      BY <1>1, <3>1, <3>2
    <3> QED BY <1>3, <2>4, <3>3, <3>4, <3>5, <3>6
  <2> QED BY <1>3, <2>1, <2>2, <2>3, <2>5, <2>6
<1> QED BY <1>2, <1>3 DEF embed

\* The lesser of two numbers.
LEMMA LesserOf ==
  ASSUME NEW a \in Int, NEW b \in Int
  PROVE  Min({a, b}) = IF a <= b THEN a ELSE b
<1>1. \E x \in {a, b} : \A y \in {a, b} : x <= y
  OBVIOUS
<1>2. Min({a, b}) \in {a, b} /\ Min({a, b}) <= a /\ Min({a, b}) <= b
  BY <1>1 DEF Min
<1> QED BY <1>2

\* The first so many of a sequence.
LEMMA FirstOnes ==
  ASSUME NEW S, NEW s \in Seq(S), NEW count \in Nat
  PROVE  LET first == SubSeq(s, 1, Min({count, Len(s)}))
         IN  /\ first \in Seq(S) /\ Len(first) <= Len(s)
             /\ \A k \in 1 .. Len(first) : k \in 1 .. Len(s) /\ first[k] = s[k]
             /\ \A k \in 1 .. Len(s) : k <= count => k \in 1 .. Len(first)
<1>1. Len(s) \in Nat
  OBVIOUS
<1> DEFINE m == Min({count, Len(s)})
<1>2. m \in Nat /\ m <= Len(s) /\ m <= count /\ (m = count \/ m = Len(s))
  BY <1>1, LesserOf
<1> HIDE DEF m
<1>3. SubSeq(s, 1, m) \in Seq(S) /\ Len(SubSeq(s, 1, m)) = m /\ \A k \in 1 .. m : SubSeq(s, 1, m)[k] = s[k]
  BY <1>1, <1>2
<1>4. /\ \A k \in 1 .. m : k \in 1 .. Len(s)
      /\ \A k \in 1 .. Len(s) : k <= count => k \in 1 .. m
  BY <1>1, <1>2
<1> DEFINE first == SubSeq(s, 1, m)
<1> HIDE DEF first
<1>5. /\ first \in Seq(S) /\ Len(first) <= Len(s)
      /\ \A k \in 1 .. Len(first) : k \in 1 .. Len(s) /\ first[k] = s[k]
      /\ \A k \in 1 .. Len(s) : k <= count => k \in 1 .. Len(first)
  BY <1>2, <1>3, <1>4 DEF first
<1> QED BY <1>5 DEF first, m

\* A similarity is a number.
LEMMA SimilarityIs == \A a, b \in Int : Similarity(a, b) \in Int
BY DEF Similarity

Nearness(at) == [n \in DOMAIN facts |-> Similarity(facts[n].at, at)]

\* The rows near a vector are rows of the table, and those with fewer than so
\* many as near before them are among them.
LEMMA NearestIs ==
  ASSUME facts \in Seq(Rows), NEW at \in Int, NEW count \in Nat
  PROVE  /\ Nearest(at, count) \in Seq(Rows)
         /\ \A k \in 1 .. Len(Nearest(at, count)) : \E n \in 1 .. Len(facts) : Nearest(at, count)[k] = facts[n]
         /\ \A n \in 1 .. Len(facts) : Rank(facts, Nearness(at), n) <= count =>
               \E k \in 1 .. Len(Nearest(at, count)) : Nearest(at, count)[k] = facts[n]
<1> DEFINE score == Nearness(at)
           ranked == Ranked(facts, score)
           near == Nearest(at, count)
<1>0. Len(facts) \in Nat /\ DOMAIN facts = 1 .. Len(facts) /\ \A n \in 1 .. Len(facts) : facts[n] \in Rows
  BY InSeq
<1>1. score \in [1 .. Len(facts) -> Int]
  <2>1. \A n \in 1 .. Len(facts) : Similarity(facts[n].at, at) \in Int
    BY <1>0, RowIs, SimilarityIs
  <2> QED BY <1>0, <2>1 DEF Nearness
<1> HIDE DEF score
<1>2. /\ ranked \in Seq(Rows) /\ Len(ranked) = Len(facts)
      /\ \E p \in [1 .. Len(facts) -> 1 .. Len(facts)] :
           /\ \A k \in 1 .. Len(facts) : ranked[k] = facts[p[k]] /\ Rank(facts, score, p[k]) = k
           /\ \A n \in 1 .. Len(facts) : p[Rank(facts, score, n)] = n
  <2> HIDE DEF ranked
  <2>1. /\ ranked \in Seq(Rows) /\ Len(ranked) = Len(facts)
        /\ \E p \in [1 .. Len(facts) -> 1 .. Len(facts)] :
              /\ \A k \in 1 .. Len(facts) : ranked[k] = facts[p[k]] /\ Rank(facts, score, p[k]) = k
              /\ \A k, l \in 1 .. Len(facts) : k <= l => score[p[k]] >= score[p[l]]
              /\ \A n \in 1 .. Len(facts) : p[Rank(facts, score, n)] = n
    BY <1>1, RankedIs DEF ranked
  <2> QED BY <2>1
<1>3. PICK p \in [1 .. Len(facts) -> 1 .. Len(facts)] :
        /\ \A k \in 1 .. Len(facts) : ranked[k] = facts[p[k]]
        /\ \A n \in 1 .. Len(facts) : p[Rank(facts, score, n)] = n
  <2> HIDE DEF ranked
  <2> QED BY <1>2
<1>4. \A n \in 1 .. Len(facts) : Rank(facts, score, n) \in 1 .. Len(facts)
  BY <1>1, RankIs
<1>5. near = SubSeq(ranked, 1, Min({count, Len(ranked)}))
  BY DEF Nearest, score, Nearness
<1> HIDE DEF ranked, near
<1>6. /\ near \in Seq(Rows)
      /\ \A k \in 1 .. Len(near) : k \in 1 .. Len(ranked) /\ near[k] = ranked[k]
      /\ \A k \in 1 .. Len(ranked) : k <= count => k \in 1 .. Len(near)
  BY <1>2, <1>5, FirstOnes
<1>7. \A k \in 1 .. Len(near) : \E n \in 1 .. Len(facts) : near[k] = facts[n]
  <2> TAKE k \in 1 .. Len(near)
  <2>1. near[k] = facts[p[k]] /\ p[k] \in 1 .. Len(facts)
    BY <1>2, <1>3, <1>6
  <2> QED BY <2>1
<1>8. \A n \in 1 .. Len(facts) : Rank(facts, score, n) <= count => \E k \in 1 .. Len(near) : near[k] = facts[n]
  <2> SUFFICES ASSUME NEW n \in 1 .. Len(facts), Rank(facts, score, n) <= count PROVE \E k \in 1 .. Len(near) : near[k] = facts[n]
    OBVIOUS
  <2> DEFINE k == Rank(facts, score, n)
  <2>1. k \in 1 .. Len(facts) /\ ranked[k] = facts[p[k]] /\ p[k] = n
    BY <1>3, <1>4
  <2> HIDE DEF k
  <2>2. k \in 1 .. Len(near) /\ near[k] = ranked[k]
    BY <1>2, <1>6, <2>1 DEF k
  <2> QED BY <2>1, <2>2
<1> QED BY <1>6, <1>7, <1>8 DEF near, score

\* The rows a correction is to retire: rows of the table that are active, not
\* its ingestion's own and near enough to the quote; where few are near, all the
\* nearest are among them.
LEMMA RetiredIs ==
  ASSUME facts \in Seq(Rows), NEW r, NEW own
  PROVE  LET hits == RetiredBy(r, PlaceOf["f1"], own)
         IN  /\ hits \in Seq(Nat)
             /\ \A k \in 1 .. Len(hits) : \E n \in 1 .. Len(facts) :
                  facts[n].id = hits[k] /\ hits[k] \notin own /\ Similarity(facts[n].at, PlaceOf["f1"]) >= 60
             /\ Few(facts) => \A n \in QuotedIn(facts) : facts[n].status = "active" /\ facts[n].id \notin own =>
                  \E k \in 1 .. Len(hits) : hits[k] = facts[n].id
<1> DEFINE at == PlaceOf["f1"]
           near == Nearest(at, 5)
           Retires(row) == /\ row.id \notin own
                           /\ row.status = "active"
                           /\ \/ Similarity(row.at, at) >= 85
                              \/ Similarity(row.at, at) >= 60 /\ row.keys \cap r.keys # {}
           some == {n \in DOMAIN near : Retires(near[n])}
           gone == ElementsAt(near, some)
           hits == RetiredBy(r, at, own)
<1>0. at \in Int /\ Len(facts) \in Nat /\ DOMAIN facts = 1 .. Len(facts) /\ \A n \in 1 .. Len(facts) : facts[n] \in Rows
  BY InSeq, PlacesAre DEF Lines
<1>1. /\ near \in Seq(Rows)
      /\ \A k \in 1 .. Len(near) : \E n \in 1 .. Len(facts) : near[k] = facts[n]
      /\ \A n \in 1 .. Len(facts) : Rank(facts, Nearness(at), n) <= 5 => \E k \in 1 .. Len(near) : near[k] = facts[n]
  <2> HIDE DEF at
  <2>1. 5 \in Nat
    OBVIOUS
  <2> QED BY <1>0, <2>1, NearestIs, ZenonT(60)
<1>2. hits = [n \in DOMAIN gone |-> gone[n].id]
  BY DEF RetiredBy
<1> HIDE DEF at, near
<1>3. \A k \in 1 .. Len(near) : near[k] \in Rows /\ k \in DOMAIN near
  BY <1>1, InSeq
<1>4. \A k \in some : Retires(near[k])
  OBVIOUS
<1>5. \A k \in 1 .. Len(near) : Retires(near[k]) => k \in some
  BY <1>3
<1> HIDE DEF some, gone, hits, Retires
<1>6. /\ gone \in Seq(Rows)
      /\ \A k \in 1 .. Len(gone) : \E n \in 1 .. Len(near) : n \in some /\ gone[k] = near[n]
      /\ \A n \in 1 .. Len(near) : n \in some => \E k \in 1 .. Len(gone) : gone[k] = near[n]
  <2>1. near \in Seq(Rows)
    BY <1>1
  <2>2. /\ ElementsAt(near, some) \in Seq(Rows)
        /\ \A k \in 1 .. Len(ElementsAt(near, some)) : \E n \in 1 .. Len(near) : n \in some /\ ElementsAt(near, some)[k] = near[n]
        /\ \A n \in 1 .. Len(near) : n \in some => \E k \in 1 .. Len(ElementsAt(near, some)) : ElementsAt(near, some)[k] = near[n]
    BY <2>1, KeptIs
  <2> QED BY <2>2 DEF gone
<1>7. Len(gone) \in Nat /\ DOMAIN gone = 1 .. Len(gone) /\ \A k \in 1 .. Len(gone) : gone[k] \in Rows /\ gone[k].id \in Nat
  BY <1>6, InSeq, RowIs
<1>8. hits \in Seq(Nat) /\ Len(hits) = Len(gone) /\ \A k \in 1 .. Len(gone) : hits[k] = gone[k].id
  <2>1. DOMAIN hits = 1 .. Len(gone) /\ hits = [n \in 1 .. Len(gone) |-> hits[n]] /\ \A k \in 1 .. Len(gone) : hits[k] = gone[k].id /\ hits[k] \in Nat
    BY <1>2, <1>7
  <2> QED BY <1>7, <2>1, IsSeq
<1>9. \A k \in 1 .. Len(hits) : \E n \in 1 .. Len(facts) :
        facts[n].id = hits[k] /\ hits[k] \notin own /\ Similarity(facts[n].at, at) >= 60
  <2> TAKE k \in 1 .. Len(hits)
  <2>1. PICK m \in 1 .. Len(near) : m \in some /\ gone[k] = near[m]
    BY <1>6, <1>8
  <2>2. PICK n \in 1 .. Len(facts) : near[m] = facts[n]
    BY <1>1
  <2>3. Retires(facts[n]) /\ facts[n].id = hits[k]
    BY <1>4, <1>8, <2>1, <2>2
  <2>4. Similarity(facts[n].at, at) \in Int
    BY <1>0, RowIs, SimilarityIs
  <2> QED BY <2>3, <2>4 DEF Retires
<1>10. ASSUME Few(facts), NEW n \in QuotedIn(facts), facts[n].status = "active", facts[n].id \notin own
       PROVE  \E k \in 1 .. Len(hits) : hits[k] = facts[n].id
  <2> DEFINE front == {m \in 1 .. Len(facts) : Ahead(Nearness(at), m, n)}
  <2>1. n \in 1 .. Len(facts) /\ Similarity(facts[n].at, at) >= 85
    BY <1>0 DEF QuotedIn, at
  <2>2. front \subseteq QuotedIn(facts)
    <3> SUFFICES ASSUME NEW m \in front PROVE m \in QuotedIn(facts)
      OBVIOUS
    <3>1. m \in 1 .. Len(facts) /\ Nearness(at)[m] = Similarity(facts[m].at, at) /\ Nearness(at)[n] = Similarity(facts[n].at, at)
      BY <1>0, <2>1 DEF Nearness
    <3>2. Similarity(facts[m].at, at) \in Int /\ Similarity(facts[n].at, at) \in Int
      BY <1>0, <2>1, <3>1, RowIs, SimilarityIs
    <3>3. Similarity(facts[m].at, at) >= 85
      BY <2>1, <3>1, <3>2 DEF Ahead
    <3> QED BY <1>0, <3>1, <3>3 DEF QuotedIn, at
  <2>3. IsFiniteSet(QuotedIn(facts))
    <3>1. QuotedIn(facts) \in SUBSET (1 .. Len(facts)) /\ IsFiniteSet(1 .. Len(facts))
      BY <1>0, FS_Interval DEF QuotedIn
    <3> QED BY <3>1, FS_Subset
  <2> HIDE DEF front
  <2>4. Cardinality(front) <= Cardinality(QuotedIn(facts)) /\ IsFiniteSet(front)
    BY <2>2, <2>3, FS_Subset
  <2>5. Cardinality(front) \in Nat /\ Cardinality(QuotedIn(facts)) \in Nat
    BY <2>3, <2>4, FS_CardinalityType
  <2>6. Rank(facts, Nearness(at), n) <= 5
    BY <1>10, <2>4, <2>5 DEF Rank, Few, front
  <2>7. PICK k \in 1 .. Len(near) : near[k] = facts[n]
    BY <1>1, <2>1, <2>6
  <2>8. k \in some
    BY <1>5, <1>10, <2>1, <2>7 DEF Retires
  <2>9. PICK l \in 1 .. Len(gone) : gone[l] = near[k]
    BY <1>6, <2>8
  <2> QED BY <1>8, <2>7, <2>9
<1> QED BY <1>8, <1>9, <1>10 DEF hits, at

\* A search ranks no retired row before the same words in an active one.
LEMMA SearchIs ==
  ASSUME facts \in Seq(Rows), NEW query \in Queries
  PROVE  LET found == searchSupabase(query)
         IN  \A m, n \in DOMAIN found :
               /\ found[n].label = found[n].row.status
               /\ (m < n /\ found[m].row.line = found[n].row.line
                     /\ found[n].row.status = "active") => found[m].row.status = "active"
<1> DEFINE Base(row) == Similarity(row.at, query.at)
                          + (IF row.keys \cap query.words # {} THEN 12 ELSE 0)
                          + (IF row.factDate \in query.dates THEN 18 ELSE 0)
           Score(row) == Similarity(row.at, query.at)
                        + (IF row.keys \cap query.words # {} THEN 12 ELSE 0)
                        + (IF row.factDate \in query.dates THEN 18 ELSE 0)
                        + (IF row.status = "active" THEN 5 ELSE 0)
           near == Nearest(query.at, 24)
           score == [n \in DOMAIN near |-> Score(near[n])]
           scored == Ranked(near, score)
           best == SubSeq(scored, 1, Min({10, Len(scored)}))
           found == searchSupabase(query)
<1>1. query.at \in Int
  BY DEF Queries, Query
<1>2. near \in Seq(Rows)
  BY <1>1, NearestIs
<1>3. found = [n \in DOMAIN best |-> [row |-> best[n], label |-> best[n].status]]
  BY DEF searchSupabase
<1> HIDE DEF near
<1>4. Len(near) \in Nat /\ DOMAIN near = 1 .. Len(near) /\ \A n \in 1 .. Len(near) : near[n] \in Rows
  BY <1>2, InSeq
<1>5. \A row \in Rows : Base(row) \in Int /\ Score(row) = (IF row.status = "active" THEN Base(row) + 5 ELSE Base(row))
  <2> TAKE row \in Rows
  <2>1. Similarity(row.at, query.at) \in Int
    BY <1>1, RowIs, SimilarityIs
  <2> QED BY <2>1
<1>6. \A row, other \in Rows : row.line = other.line => Base(row) = Base(other)
  <2> TAKE row, other \in Rows
  <2>1. row.line = other.line => row.at = other.at /\ row.keys = other.keys /\ row.factDate = other.factDate
    BY RowIs
  <2> QED BY <2>1
<1> HIDE DEF Base, Score
<1>7. score \in [1 .. Len(near) -> Int] /\ \A n \in 1 .. Len(near) : score[n] = Score(near[n])
  BY <1>4, <1>5
<1> HIDE DEF score
<1>8. /\ scored \in Seq(Rows) /\ Len(scored) = Len(near)
      /\ \E p \in [1 .. Len(near) -> 1 .. Len(near)] :
           /\ \A k \in 1 .. Len(near) : scored[k] = near[p[k]] /\ Rank(near, score, p[k]) = k
           /\ \A k, l \in 1 .. Len(near) : k <= l => score[p[k]] >= score[p[l]]
           /\ \A n \in 1 .. Len(near) : p[Rank(near, score, n)] = n
  BY <1>2, <1>7, RankedIs
<1> HIDE DEF scored
<1>9. PICK p \in [1 .. Len(near) -> 1 .. Len(near)] :
        /\ \A k \in 1 .. Len(near) : scored[k] = near[p[k]]
        /\ \A k, l \in 1 .. Len(near) : k <= l => score[p[k]] >= score[p[l]]
  BY <1>8
<1>10. best \in Seq(Rows) /\ \A k \in 1 .. Len(best) : k \in 1 .. Len(near) /\ best[k] = scored[k]
  <2>1. scored \in Seq(Rows) /\ Len(scored) = Len(near) /\ 10 \in Nat
    BY <1>8
  <2>2. best = SubSeq(scored, 1, Min({10, Len(scored)}))
    OBVIOUS
  <2>3. /\ best \in Seq(Rows) /\ Len(best) <= Len(scored)
        /\ \A k \in 1 .. Len(best) : k \in 1 .. Len(scored) /\ best[k] = scored[k]
        /\ \A k \in 1 .. Len(scored) : k <= 10 => k \in 1 .. Len(best)
    BY <2>1, FirstOnes, ZenonT(60)
  <2> HIDE DEF best
  <2> QED BY <2>1, <2>3
<1> HIDE DEF best, found
<1>11. DOMAIN found = 1 .. Len(best) /\ \A k \in 1 .. Len(best) : found[k].row = best[k] /\ found[k].label = best[k].status
  BY <1>3, <1>10, InSeq
<1>12. ASSUME NEW m \in DOMAIN found, NEW n \in DOMAIN found, m < n, found[m].row.line = found[n].row.line,
              found[n].row.status = "active", found[m].row.status # "active"
       PROVE  FALSE
  <2> DEFINE a == near[p[m]]
             b == near[p[n]]
  <2>1. m \in 1 .. Len(near) /\ n \in 1 .. Len(near) /\ p[m] \in 1 .. Len(near) /\ p[n] \in 1 .. Len(near)
    BY <1>10, <1>11
  <2>2. found[m].row = a /\ found[n].row = b /\ a \in Rows /\ b \in Rows
    BY <1>4, <1>9, <1>10, <1>11, <2>1
  <2>3. score[p[m]] = Score(a) /\ score[p[n]] = Score(b) /\ score[p[m]] >= score[p[n]]
    BY <1>4, <1>7, <1>9, <1>12, <2>1
  <2> HIDE DEF a, b
  <2>4. Base(a) = Base(b) /\ Base(a) \in Int /\ Score(a) = Base(a) /\ Score(b) = Base(b) + 5
    BY <1>5, <1>6, <1>12, <2>2
  <2> QED BY <2>3, <2>4
<1>13. \A m, n \in DOMAIN found :
         /\ found[n].label = found[n].row.status
         /\ (m < n /\ found[m].row.line = found[n].row.line
               /\ found[n].row.status = "active") => found[m].row.status = "active"
  BY <1>11, <1>12
<1> QED BY <1>13 DEF found

\* The corrections an ingestion has stored all quote f1.
LEMMA CorrectionsAre ==
  ASSUME NEW w \in Works, NEW rows
  PROVE  /\ CorrectionsOf(w, rows) \in Seq(Records)
         /\ \A k \in 1 .. Len(CorrectionsOf(w, rows)) :
              /\ CorrectionsOf(w, rows)[k].line = "c" /\ CorrectionsOf(w, rows)[k].supersedes = "f1"
              /\ \E row \in rows : row.id \in w.own /\ row.line = "c"
         /\ \A n \in DOMAIN w.records : \A row \in rows :
              w.records[n].line = "c" /\ row.line = "c" /\ row.id \in w.own => CorrectionsOf(w, rows) # <<>>
<1> DEFINE some == {n \in DOMAIN w.records : /\ w.records[n].supersedes # Nothing
                                              /\ \E row \in rows : row.id \in w.own /\ row.line = w.records[n].line}
           s == w.records
           c == ElementsAt(s, some)
<1>1. s \in Seq(Records)
  BY DEF Works
<1>2. Len(s) \in Nat /\ DOMAIN s = 1 .. Len(s) /\ \A n \in 1 .. Len(s) : s[n] \in Records
  BY <1>1, InSeq
<1>3. /\ \A n \in some : n \in 1 .. Len(s) /\ s[n].supersedes # Nothing /\ \E row \in rows : row.id \in w.own /\ row.line = s[n].line
      /\ \A n \in 1 .. Len(s) : s[n].supersedes # Nothing /\ (\E row \in rows : row.id \in w.own /\ row.line = s[n].line) => n \in some
  BY <1>2
<1>4. CorrectionsOf(w, rows) = c
  BY DEF CorrectionsOf
<1> HIDE DEF some, s
<1>5. /\ ElementsAt(s, some) \in Seq(Records)
      /\ \A k \in 1 .. Len(ElementsAt(s, some)) : \E n \in 1 .. Len(s) : n \in some /\ ElementsAt(s, some)[k] = s[n]
      /\ \A n \in 1 .. Len(s) : n \in some => \E k \in 1 .. Len(ElementsAt(s, some)) : ElementsAt(s, some)[k] = s[n]
  BY <1>1, KeptIs
<1> HIDE DEF c
<1>6. /\ c \in Seq(Records)
      /\ \A k \in 1 .. Len(c) : \E n \in 1 .. Len(s) : n \in some /\ c[k] = s[n]
      /\ \A n \in 1 .. Len(s) : n \in some => \E k \in 1 .. Len(c) : c[k] = s[n]
  BY <1>5 DEF c
<1>7. ASSUME NEW k \in 1 .. Len(c)
      PROVE  c[k].line = "c" /\ c[k].supersedes = "f1" /\ \E row \in rows : row.id \in w.own /\ row.line = "c"
  <2>1. PICK n \in 1 .. Len(s) : n \in some /\ c[k] = s[n]
    BY <1>6
  <2>2. s[n] \in Records /\ s[n].supersedes # Nothing /\ \E row \in rows : row.id \in w.own /\ row.line = s[n].line
    BY <1>2, <1>3, <2>1
  <2>3. s[n].line = "c" /\ s[n].supersedes = "f1"
    BY <2>2, RecordsAre
  <2> QED BY <2>1, <2>2, <2>3
<1>8. ASSUME NEW n \in DOMAIN s, NEW row \in rows, s[n].line = "c", row.line = "c", row.id \in w.own
      PROVE  c # <<>>
  <2>1. n \in 1 .. Len(s) /\ s[n].supersedes = "f1" /\ "f1" # Nothing
    BY <1>2, <1>8, RecordsAre DEF Nothing
  <2>2. n \in some
    BY <1>3, <1>8, <2>1
  <2>3. PICK k \in 1 .. Len(c) : c[k] = s[n]
    BY <1>6, <2>1, <2>2
  <2> QED BY <1>6, <2>3
<1> QED BY <1>4, <1>6, <1>7, <1>8 DEF s

\* What an ingestion holds stands while others store their rows.
LEMMA HeldGrows ==
  ASSUME NEW o \in Ingestion, NEW place, NEW w \in Works, NEW rows, NEW more, NEW last \in Nat,
         \A row \in rows : row.id <= last, \A row \in more : row.id \in Nat /\ row.id > last /\ row.from # o,
         \A row \in rows : row.id \in Nat,
         Held(o, place, w, rows)
  PROVE  Held(o, place, w, rows \cup more)
<1> DEFINE all == rows \cup more
<1>1. ASSUME NEW r, Says(rows, r) PROVE Says(all, r)
  BY <1>1 DEF Says
<1>2. CASE place = "probe"
  BY <1>1, <1>2 DEF Held, Probing
<1>3. CASE place \in {"quotes", "lookup", "retire"}
  <2>1. Inserted(o, w, rows)
    BY <1>3 DEF Held
  <2>2. \A row \in more : row.id \notin w.own
    <3> SUFFICES ASSUME NEW row \in more, row.id \in w.own PROVE FALSE
      OBVIOUS
    <3>1. PICK other \in rows : other.id = row.id
      BY <2>1 DEF Inserted
    <3> QED BY <3>1
  <2>3. Inserted(o, w, all)
    BY <1>1, <2>1, <2>2 DEF Inserted
  <2>4. CorrectionsOf(w, all) = CorrectionsOf(w, rows)
    <3>1. \A n \in DOMAIN w.records : (\E row \in all : row.id \in w.own /\ row.line = w.records[n].line)
                                       <=> (\E row \in rows : row.id \in w.own /\ row.line = w.records[n].line)
      BY <2>2
    <3>2. {n \in DOMAIN w.records : /\ w.records[n].supersedes # Nothing
                                    /\ \E row \in all : row.id \in w.own /\ row.line = w.records[n].line}
          = {n \in DOMAIN w.records : /\ w.records[n].supersedes # Nothing
                                      /\ \E row \in rows : row.id \in w.own /\ row.line = w.records[n].line}
      BY <3>1
    <3> HIDE DEF all
    <3> QED BY <3>2 DEF CorrectionsOf
  <2>5. place \in {"lookup", "retire"} => Quoting(w, all)
    <3> HIDE DEF all
    <3> QED BY <2>4 DEF Quoting, Held
  <2>6. Aiming(w, rows) => Aiming(w, all)
    BY <2>4 DEF Aiming
  <2>7. place = "retire" => Aiming(w, all)
    BY <2>6 DEF Held
  <2> HIDE DEF all
  <2>8. Held(o, place, w, all)
    BY <1>3, <2>3, <2>5, <2>7 DEF Held
  <2> QED BY <2>8 DEF all
<1>4. CASE place \notin {"probe", "quotes", "lookup", "retire"}
  BY <1>4 DEF Held
<1> QED BY <1>2, <1>3, <1>4

\* A step of one ingestion that neither stores nor retires.
LEMMA QuietStep ==
  ASSUME MemoryInv, NEW i \in Ingestion, NEW place \in Stages, NEW w \in Works, Step(i, place, w),
         facts' = facts, stored' = stored, wiped' = wiped, open' = open, said' = said, retries' \in Nat,
         troubled' \in [Ingestion -> BOOLEAN], \A o \in Ingestion : troubled[o] => troubled'[o],
         stage[i] \notin {"gone", "done"}, Held(i, place, w, stored),
         place \in Going => \/ stage[i] \in Going
                            \/ \A o \in Ingestion : o # i /\ stage[o] \in Going => troubled'[i] /\ troubled'[o],
         place = "failed" => troubled'[i],
         ~troubled'[i] => OnceAt(i, place, w, stored) /\ RetiredAt(i, place, w, facts)
  PROVE  MemoryInv'
<1>1. /\ stage \in [Ingestion -> Stages] /\ work \in [Ingestion -> Works]
      /\ stage' = [stage EXCEPT ![i] = place] /\ work' = [work EXCEPT ![i] = w]
  BY DEF MemoryInv, MemoryTyped, Step
<1>2. /\ stage'[i] = place /\ work'[i] = w
      /\ \A o \in Ingestion \ {i} : stage'[o] = stage[o] /\ work'[o] = work[o]
      /\ stage' \in [Ingestion -> Stages] /\ work' \in [Ingestion -> Works]
  BY <1>1
<1>3. MemoryTyped'
  BY <1>2 DEF MemoryInv, MemoryTyped
<1>4. Numbered' /\ Recorded' /\ RetiredForCause' /\ EraseHolds'
  BY DEF MemoryInv, Numbered, Recorded, RetiredForCause, EraseHolds
<1>5. AllHeld'
  <2>1. \A o \in Ingestion : Held(o, stage'[o], work'[o], stored)
    BY <1>2 DEF MemoryInv, AllHeld
  <2> QED BY <2>1 DEF AllHeld
<1>6. Apart' /\ FailedIsTroubled'
  <2>1. ASSUME NEW a \in Ingestion, NEW b \in Ingestion, a # b, stage'[a] \in Going, stage'[b] \in Going
        PROVE  troubled'[a] /\ troubled'[b]
    <3>1. CASE a # i /\ b # i
      BY <1>2, <2>1, <3>1 DEF MemoryInv, Apart
    <3>2. CASE a = i
      BY <1>2, <2>1, <3>2 DEF MemoryInv, Apart
    <3>3. CASE b = i
      BY <1>2, <2>1, <3>3 DEF MemoryInv, Apart
    <3> QED BY <3>1, <3>2, <3>3
  <2> QED BY <1>2, <2>1 DEF MemoryInv, Apart, FailedIsTroubled
<1>7. Undisturbed'
  <2>1. ASSUME NEW o \in Ingestion, ~troubled'[o]
        PROVE  OnceAt(o, stage'[o], work'[o], stored) /\ RetiredAt(o, stage'[o], work'[o], facts)
    <3>1. CASE o = i
      BY <1>2, <2>1, <3>1
    <3>2. CASE o # i
      BY <1>2, <2>1, <3>2 DEF MemoryInv, Undisturbed
    <3> QED BY <3>1, <3>2
  <2> QED BY <2>1 DEF Undisturbed
<1>8. OpenOnly'
  BY <1>2 DEF MemoryInv, OpenOnly
<1> QED BY <1>3, <1>4, <1>5, <1>6, <1>7, <1>8 DEF MemoryInv

\* What an ingestion holds when it begins.
LEMMA FreshIs == Fresh \in Works /\ Fresh.records = <<>> /\ Fresh.next = 1
<1>1. \A S : <<>> \in Seq(S)
  OBVIOUS
<1>2. {} \subseteq Lines /\ {} \subseteq Nat /\ 1 \in Nat \ {0}
  OBVIOUS
<1> QED BY <1>1, <1>2 DEF Fresh, Works

\* An ingestion is under way between its beginning and its end.
LEMMA GoingIs == ASSUME MemoryInv, NEW i \in Ingestion PROVE UnderWay(i) <=> stage[i] \in Going
<1>1. stage[i] \in Stages
  BY DEF MemoryInv, MemoryTyped
<1> QED BY <1>1 DEF UnderWay, Going, Stages

\* A failure leaves the turns pending and the ingestion troubled.
LEMMA FailStep ==
  ASSUME MemoryInv, NEW i \in Ingestion, Fail(i), stage[i] \in Going, UNCHANGED <<givenVars, storeVars, countVars>>
  PROVE  MemoryInv'
<1>1. /\ Step(i, "failed", Fresh) /\ troubled' = [troubled EXCEPT ![i] = TRUE]
      /\ facts' = facts /\ stored' = stored /\ wiped' = wiped /\ open' = open /\ said' = said /\ retries' = retries
  BY DEF Fail, Trouble, givenVars, storeVars, countVars
<1>2. /\ troubled \in [Ingestion -> BOOLEAN] /\ retries \in Nat
  BY DEF MemoryInv, MemoryTyped
<1>3. troubled' \in [Ingestion -> BOOLEAN] /\ troubled'[i] /\ \A o \in Ingestion : troubled[o] => troubled'[o]
  BY <1>1, <1>2
<1>4. "failed" \in Stages /\ "failed" \notin Going /\ stage[i] \notin {"gone", "done"}
  BY DEF Stages, Going
<1>5. Held(i, "failed", Fresh, stored)
  BY DEF Held
<1> QED BY <1>1, <1>2, <1>3, <1>4, <1>5, FreshIs, QuietStep

\* An ingestion that begins while others are under way troubles them and itself.
LEMMA BeginStep ==
  ASSUME MemoryInv, NEW i \in Ingestion, BeginIngestion(i)
  PROVE  MemoryInv'
<1>1. /\ stage[i] = "ready" /\ Step(i, "extract", Fresh)
      /\ facts' = facts /\ stored' = stored /\ wiped' = wiped /\ open' = open /\ said' = said /\ retries' = retries
  BY DEF BeginIngestion, givenVars, storeVars, countVars
<1>2. troubled \in [Ingestion -> BOOLEAN] /\ retries \in Nat
  BY DEF MemoryInv, MemoryTyped
<1>3. troubled' = [j \in Ingestion |-> troubled[j] \/ (IF j = i THEN \E o \in Ingestion : UnderWay(o) ELSE UnderWay(j))]
  BY DEF BeginIngestion
<1>4. /\ \A o \in Ingestion : troubled[o] => troubled'[o]
      /\ \A o \in Ingestion : o # i /\ stage[o] \in Going => troubled'[i] /\ troubled'[o]
  <2>1. \A o \in Ingestion : UnderWay(o) <=> stage[o] \in Going
    BY GoingIs
  <2> QED BY <1>3, <2>1
<1>5. troubled' \in [Ingestion -> BOOLEAN]
  <2> DEFINE Meets(j) == IF j = i THEN \E o \in Ingestion : UnderWay(o) ELSE UnderWay(j)
  <2>1. \A j \in Ingestion : (troubled[j] \/ Meets(j)) \in BOOLEAN
    OBVIOUS
  <2>2. troubled' = [j \in Ingestion |-> troubled[j] \/ Meets(j)]
    BY <1>3
  <2> HIDE DEF Meets
  <2> QED BY <2>1, <2>2
<1>6. "extract" \in Stages /\ Held(i, "extract", Fresh, stored) /\ stage[i] \notin {"gone", "done"} /\ "extract" # "failed"
  BY <1>1 DEF Stages, Held
<1>7. ~troubled'[i] => OnceAt(i, "extract", Fresh, stored) /\ RetiredAt(i, "extract", Fresh, facts)
  BY <1>1, <1>4 DEF MemoryInv, Undisturbed, OnceAt, RetiredAt
<1> QED BY <1>1, <1>2, <1>4, <1>5, <1>6, <1>7, FreshIs, QuietStep

\* A step that troubles nobody.
LEMMA CalmStep ==
  ASSUME MemoryInv, NEW i \in Ingestion, NEW place \in Stages, NEW w \in Works, Step(i, place, w),
         UNCHANGED <<givenVars, storeVars, countVars, troubled>>, stage[i] \in Going, place # "failed",
         Held(i, place, w, stored),
         ~troubled[i] => OnceAt(i, place, w, stored) /\ RetiredAt(i, place, w, facts)
  PROVE  MemoryInv'
<1>1. /\ facts' = facts /\ stored' = stored /\ wiped' = wiped /\ open' = open /\ said' = said /\ retries' = retries
      /\ troubled' = troubled
  BY DEF givenVars, storeVars, countVars
<1>2. troubled \in [Ingestion -> BOOLEAN] /\ retries \in Nat
  BY DEF MemoryInv, MemoryTyped
<1>3. stage[i] \notin {"gone", "done"}
  BY DEF Going
<1> QED BY <1>1, <1>2, <1>3, QuietStep

\* Before an ingestion that nothing disturbed has stored, no row is its own.
LEMMA NoneOfIts ==
  ASSUME MemoryInv, NEW i \in Ingestion, ~troubled[i], \A row \in stored : row.from # i
  PROVE  Settled(i, facts)
<1>1. \A n \in DOMAIN facts : facts[n].from # i
  BY DEF MemoryInv, Recorded, Same
<1> QED BY <1>1 DEF Settled

\* What the model answered are records, and without any the ingestion is over.
LEMMA ExtractStep ==
  ASSUME MemoryInv, NEW i \in Ingestion, Extract(i)
  PROVE  MemoryInv'
<1>1. stage[i] = "extract" /\ stage[i] \in Going /\ UNCHANGED <<givenVars, storeVars, countVars>>
  BY DEF Extract, Going
<1>2. CASE Fail(i)
  BY <1>1, <1>2, FailStep
<1>3. ASSUME NEW answer \in AnswersOf(said[i]) \cup {<<Part(FALSE, FALSE, Noise)>>},
             IF Parsed(Heard(answer)) = <<>> THEN Step(i, "done", Fresh)
             ELSE Step(i, "embed", [Fresh EXCEPT !.records = Parsed(Heard(answer))]),
             UNCHANGED troubled
      PROVE  MemoryInv'
  <2> DEFINE records == Parsed(Heard(answer))
             w == [Fresh EXCEPT !.records = records]
  <2>1. said[i] \in Seq(Told)
    BY DEF MemoryInv, MemoryTyped
  <2>2. records \in Seq(Records)
    BY <2>1, AnswersAre, ExtractIs
  <2> HIDE DEF records
  <2>3. UNCHANGED <<givenVars, storeVars, countVars, troubled>>
    BY <1>1, <1>3
  <2>4. ~troubled[i] => \A row \in stored : row.from # i
    BY <1>1 DEF MemoryInv, Undisturbed, OnceAt
  <2>5. CASE records = <<>>
    <3>1. Step(i, "done", Fresh)
      BY <1>3, <2>5 DEF records
    <3>2. "done" \in Stages /\ Held(i, "done", Fresh, stored) /\ OnceAt(i, "done", Fresh, stored)
      BY DEF Stages, Held, OnceAt
    <3>3. ~troubled[i] => RetiredAt(i, "done", Fresh, facts)
      BY <2>4, NoneOfIts DEF RetiredAt
    <3> QED BY <1>1, <2>3, <3>1, <3>2, <3>3, FreshIs, CalmStep
  <2>6. CASE records # <<>>
    <3>1. Step(i, "embed", w)
      BY <1>3, <2>6 DEF records
    <3>2. w \in Works /\ w.records = records /\ w.payload = <<>> /\ w.next = 1
      <4>1. Fresh.payload = <<>> /\ Fresh.next = 1
        BY DEF Fresh
      <4> QED BY <2>2, <4>1, FreshIs DEF Works
    <3> HIDE DEF w
    <3>3. "embed" \in Stages /\ Held(i, "embed", w, stored) /\ RetiredAt(i, "embed", w, facts)
      BY <2>6, <3>2 DEF Stages, Held, RetiredAt
    <3>4. ~troubled[i] => OnceAt(i, "embed", w, stored)
      BY <2>4 DEF OnceAt
    <3> QED BY <1>1, <2>3, <3>1, <3>2, <3>3, <3>4, CalmStep
  <2> QED BY <2>5, <2>6
<1> QED BY <1>2, <1>3 DEF Extract

\* The texts of a batch have their places.
LEMMA PlacesOf == ASSUME NEW records \in Seq(Records) PROVE Places(records) \in Seq(Int) /\ Len(Places(records)) = Len(records)
<1>1. Len(records) \in Nat /\ DOMAIN records = 1 .. Len(records) /\ \A n \in 1 .. Len(records) : PlaceOf[records[n].line] \in Int
  BY InSeq, RecordsAre, PlacesAre DEF Lines
<1> DEFINE f == Places(records)
<1>2. DOMAIN f = 1 .. Len(records) /\ f = [n \in 1 .. Len(records) |-> f[n]] /\ \A n \in 1 .. Len(records) : f[n] \in Int
  BY <1>1 DEF Places
<1> HIDE DEF f
<1>3. f \in Seq(Int) /\ Len(f) = Len(records)
  BY <1>1, <1>2, IsSeq
<1> QED BY <1>3 DEF f

\* The vectors an ingestion holds are those of its own records.
LEMMA EmbedStep ==
  ASSUME MemoryInv, NEW i \in Ingestion, Embed(i)
  PROVE  MemoryInv'
<1>1. stage[i] = "embed" /\ stage[i] \in Going /\ UNCHANGED <<givenVars, storeVars, countVars>>
  BY DEF Embed, Going
<1>2. CASE Fail(i)
  BY <1>1, <1>2, FailStep
<1>3. ASSUME NEW vectors \in embed(Places(work[i].records)), vectors # Wrong,
             Step(i, "known", [work[i] EXCEPT !.vectors = vectors]), UNCHANGED troubled
      PROVE  MemoryInv'
  <2> DEFINE w == [work[i] EXCEPT !.vectors = vectors]
  <2>1. work[i] \in Works /\ work[i].records \in Seq(Records) /\ work[i].records # <<>>
    <3>1. work[i] \in Works /\ work[i].records # <<>>
      BY <1>1 DEF MemoryInv, MemoryTyped, AllHeld, Held
    <3> QED BY <3>1 DEF Works
  <2>2. vectors = Places(work[i].records) /\ vectors \in Seq(Int)
    <3>1. Places(work[i].records) \in Seq(Int) /\ Len(Places(work[i].records)) = Len(work[i].records)
      BY <2>1, PlacesOf
    <3>2. Places(work[i].records) # <<>>
      BY <2>1, <3>1
    <3> QED BY <1>3, <3>1, <3>2, EmbedIs
  <2>3. UNCHANGED <<givenVars, storeVars, countVars, troubled>>
    BY <1>1, <1>3
  <2>4. w \in Works /\ w.records = work[i].records /\ w.vectors = vectors /\ w.payload = <<>> /\ w.next = 1
    <3>1. work[i].payload = <<>> /\ work[i].next = 1
      BY <1>1 DEF MemoryInv, AllHeld, Held
    <3> QED BY <2>1, <2>2, <3>1 DEF Works
  <2>5. Step(i, "known", w)
    BY <1>3
  <2> HIDE DEF w
  <2>6. "known" \in Stages /\ Held(i, "known", w, stored) /\ RetiredAt(i, "known", w, facts)
    BY <2>2, <2>4 DEF Stages, Held, RetiredAt
  <2>7. ~troubled[i] => OnceAt(i, "known", w, stored)
    BY <1>1 DEF MemoryInv, Undisturbed, OnceAt
  <2> QED BY <1>1, <2>3, <2>4, <2>5, <2>6, <2>7, CalmStep
<1> QED BY <1>2, <1>3 DEF Embed

\* The lines an ingestion knows of are those of rows that were stored.
LEMMA KnownStep ==
  ASSUME MemoryInv, NEW i \in Ingestion, ReadKnown(i)
  PROVE  MemoryInv'
<1>1. stage[i] = "known" /\ stage[i] \in Going /\ UNCHANGED <<givenVars, storeVars, countVars, troubled>>
  BY DEF ReadKnown, Going
<1>2. PICK known \in {{}, {facts[n].line : n \in DOMAIN facts}} : Step(i, "probe", [work[i] EXCEPT !.known = known])
  BY DEF ReadKnown
<1> DEFINE w == [work[i] EXCEPT !.known = known]
<1>3. \A line \in known : line \in Lines /\ \E row \in stored : row.line = line
  <2> TAKE line \in known
  <2>1. PICK n \in DOMAIN facts : line = facts[n].line
    BY <1>2
  <2>2. PICK row \in stored : row.line = line
    BY <2>1 DEF MemoryInv, Recorded, Same
  <2>3. row \in Rows
    BY DEF MemoryInv, MemoryTyped
  <2>4. row.line \in Lines
    BY <2>3, RowIs
  <2> QED BY <2>2, <2>4
<1>4. work[i] \in Works /\ work[i].vectors = Places(work[i].records) /\ work[i].payload = <<>> /\ work[i].next = 1
  BY <1>1 DEF MemoryInv, MemoryTyped, AllHeld, Held
<1>5. /\ w \in Works /\ w.records = work[i].records /\ w.vectors = work[i].vectors /\ w.known = known
      /\ w.payload = work[i].payload /\ w.next = work[i].next
  BY <1>3, <1>4 DEF Works
<1> HIDE DEF w
<1>6. Step(i, "probe", w)
  BY <1>2 DEF w
<1>7. Probing(i, w, stored)
  <2>1. w.payload = <<>> /\ w.next = 1 /\ \A line \in w.known : \E row \in stored : row.line = line
    BY <1>3, <1>4, <1>5
  <2>2. \A n \in DOMAIN w.records : ~(n < w.next)
    BY <1>5, <2>1, InSeq DEF Works
  <2> QED BY <2>1, <2>2 DEF Probing
<1>8. "probe" \in Stages /\ Held(i, "probe", w, stored) /\ RetiredAt(i, "probe", w, facts)
  BY <1>4, <1>5, <1>7 DEF Stages, Held, RetiredAt
<1>9. ~troubled[i] => OnceAt(i, "probe", w, stored)
  BY <1>1 DEF MemoryInv, Undisturbed, OnceAt
<1> QED BY <1>1, <1>5, <1>6, <1>8, <1>9, CalmStep

\* A record that is left out is one that a stored row says, and one that is kept
\* becomes a row of its own.
LEMMA ProbeStep ==
  ASSUME MemoryInv, NEW i \in Ingestion, Probe(i)
  PROVE  MemoryInv'
<1> DEFINE w == work[i]
           at == w.vectors[w.next]
           r == w.records[w.next]
           row == Row(r, at, i)
           kept == [w EXCEPT !.payload = Append(@, row), !.next = @ + 1]
           left == [w EXCEPT !.next = @ + 1]
           near == Nearest(at, 5)
<1>1. stage[i] = "probe" /\ stage[i] \in Going /\ UNCHANGED <<givenVars, storeVars, countVars, troubled>> /\ w.next <= Len(w.records)
  BY DEF Probe, Going
<1>2. \/ (r.line \in w.known \/ isSemanticDuplicate(r, near, at)) /\ Step(i, "probe", left)
      \/ Step(i, "probe", kept)
  BY DEF Probe
<1>3. /\ w \in Works /\ w.vectors = Places(w.records) /\ Probing(i, w, stored)
      /\ facts \in Seq(Rows) /\ stored \subseteq Rows
  BY <1>1 DEF MemoryInv, MemoryTyped, AllHeld, Held
<1> HIDE DEF w
<1>4. /\ w.records \in Seq(Records) /\ w.payload \in Seq(Rows) /\ w.next \in Nat \ {0}
  BY <1>3 DEF Works
<1>5. /\ Len(w.records) \in Nat /\ DOMAIN w.records = 1 .. Len(w.records) /\ \A n \in 1 .. Len(w.records) : w.records[n] \in Records
      /\ Len(w.payload) \in Nat /\ DOMAIN w.payload = 1 .. Len(w.payload) /\ \A n \in 1 .. Len(w.payload) : w.payload[n] \in Rows
  BY <1>4, InSeq
<1>6. w.next \in 1 .. Len(w.records) /\ r \in Records /\ at = PlaceOf[r.line] /\ at \in Int
  <2>1. w.next \in 1 .. Len(w.records) /\ r \in Records
    BY <1>1, <1>4, <1>5
  <2>2. at = PlaceOf[r.line]
    BY <1>3, <1>5, <2>1 DEF Places
  <2>3. r.line \in Lines
    BY <2>1, RecordsAre DEF Lines
  <2> QED BY <2>1, <2>2, <2>3, PlacesAre
<1>7. row \in Rows /\ row.line = r.line /\ row.from = i /\ row.status # "superseded"
  <2>1. row = Row(r, PlaceOf[r.line], i)
    BY <1>6
  <2> HIDE DEF row, r
  <2> QED BY <1>6, <2>1, RowPlanned
<1> HIDE DEF row, at
<1>8. \A n \in DOMAIN w.records : n < w.next + 1 => n < w.next \/ n = w.next
  BY <1>4, <1>5
<1>9. ASSUME NEW v \in Works, Step(i, "probe", v), v.records = w.records, v.vectors = w.vectors, Probing(i, v, stored)
      PROVE  MemoryInv'
  <2>1. "probe" \in Stages /\ Held(i, "probe", v, stored) /\ RetiredAt(i, "probe", v, facts)
    BY <1>3, <1>9 DEF Stages, Held, RetiredAt
  <2>2. ~troubled[i] => OnceAt(i, "probe", v, stored)
    BY <1>1 DEF MemoryInv, Undisturbed, OnceAt
  <2> QED BY <1>1, <1>9, <2>1, <2>2, CalmStep
<1>10. CASE (r.line \in w.known \/ isSemanticDuplicate(r, near, at)) /\ Step(i, "probe", left)
  <2>1. Says(stored, r)
    <3>1. CASE r.line \in w.known
      BY <1>3, <3>1 DEF Probing, Says
    <3>2. CASE isSemanticDuplicate(r, near, at)
      <4>2. /\ near \in Seq(Rows) /\ \A k \in 1 .. Len(near) : \E m \in 1 .. Len(facts) : near[k] = facts[m]
        <5>1. 5 \in Nat /\ facts \in Seq(Rows) /\ at \in Int
          BY <1>3, <1>6
        <5> HIDE DEF r
        <5> QED BY <5>1, NearestIs
      <4> HIDE DEF near, r
      <4>1. PICK n \in DOMAIN near : near[n].tag = r.tag /\ Similarity(near[n].at, at) >= 93
        BY <3>2 DEF isSemanticDuplicate
      <4>3. PICK m \in 1 .. Len(facts) : near[n] = facts[m]
        BY <4>2, InSeq
      <4>4. m \in DOMAIN facts /\ facts[m] \in Rows
        BY <1>3, InSeq
      <4>5. PICK other \in stored : other.line = facts[m].line
        BY <4>4 DEF MemoryInv, Recorded, Same
      <4>6. other.tag = facts[m].tag /\ other.at = facts[m].at
        BY <1>3, <4>4, <4>5, RowIs
      <4>7. other.tag = r.tag /\ Similarity(other.at, PlaceOf[r.line]) >= 93
        BY <1>6, <4>1, <4>3, <4>6
      <4> QED BY <4>7 DEF Says
    <3> QED BY <1>10, <3>1, <3>2
  <2>2. /\ left \in Works /\ left.records = w.records /\ left.vectors = w.vectors /\ left.known = w.known
        /\ left.payload = w.payload /\ left.next = w.next + 1
    <3>1. w.next + 1 \in Nat \ {0}
      BY <1>4
    <3> QED BY <1>3, <3>1 DEF Works
  <2> HIDE DEF left
  <2>3. Probing(i, left, stored)
    <3>1. \A n \in DOMAIN w.records : n < left.next =>
             Says(stored, w.records[n]) \/ \E k \in DOMAIN w.payload : w.payload[k].line = w.records[n].line
      BY <1>3, <1>8, <2>1, <2>2 DEF Probing
    <3>2. \A x : Planned(left, x) <=> Planned(w, x)
      BY <2>2 DEF Planned
    <3> QED BY <1>3, <2>2, <3>1, <3>2 DEF Probing
  <2> QED BY <1>9, <1>10, <2>2, <2>3
<1>11. CASE Step(i, "probe", kept)
  <2> DEFINE more == Append(w.payload, row)
  <2>1. /\ more \in Seq(Rows) /\ DOMAIN more = 1 .. Len(w.payload) + 1 /\ more[Len(w.payload) + 1] = row
        /\ \A k \in 1 .. Len(w.payload) : more[k] = w.payload[k] /\ k \in DOMAIN more
    BY <1>4, <1>5, <1>7
  <2> HIDE DEF more
  <2>2. /\ kept \in Works /\ kept.records = w.records /\ kept.vectors = w.vectors /\ kept.known = w.known
        /\ kept.payload = more /\ kept.next = w.next + 1
    <3>1. kept = [w EXCEPT !.payload = more, !.next = @ + 1]
      BY DEF more
    <3>2. w.next + 1 \in Nat \ {0}
      BY <1>4
    <3> HIDE DEF kept
    <3> QED BY <1>3, <2>1, <3>1, <3>2 DEF Works
  <2> HIDE DEF kept
  <2>3. Planned(w, row) /\ \A x : Planned(kept, x) <=> Planned(w, x)
    BY <1>5, <1>6, <1>7, <2>2 DEF Planned
  <2>4. \A k \in DOMAIN more : more[k].from = i /\ more[k].status # "superseded" /\ Planned(kept, more[k])
    <3> TAKE k \in DOMAIN more
    <3>1. k \in 1 .. Len(w.payload) \/ k = Len(w.payload) + 1
      BY <1>5, <2>1
    <3> QED BY <1>3, <1>5, <1>7, <2>1, <2>3, <3>1 DEF Probing
  <2>5. \A n \in DOMAIN w.records : n < kept.next =>
          Says(stored, w.records[n]) \/ \E k \in DOMAIN more : more[k].line = w.records[n].line
    <3> TAKE n \in DOMAIN w.records
    <3>1. CASE n = w.next
      <4>1. Len(w.payload) + 1 \in DOMAIN more
        BY <1>5, <2>1
      <4> QED BY <1>7, <2>1, <3>1, <4>1
    <3>2. CASE n < w.next
      BY <1>3, <1>5, <2>1, <3>2 DEF Probing
    <3> QED BY <1>8, <2>2, <3>1, <3>2
  <2>6. Probing(i, kept, stored)
    BY <1>3, <2>2, <2>4, <2>5 DEF Probing
  <2> QED BY <1>9, <1>11, <2>2, <2>6
<1> QED BY <1>2, <1>10, <1>11

\* The rows an ingestion inserts.
NewRows(i) == [n \in DOMAIN work[i].payload |-> [work[i].payload[n] EXCEPT !.id = Cardinality(stored) + 1 + n - 1]]

\* They are the planned ones, numbered on from those stored before.
LEMMA NewRowsAre ==
  ASSUME MemoryInv, NEW i \in Ingestion, stage[i] = "probe"
  PROVE  LET new == NewRows(i)
         IN  /\ new \in Seq(Rows) /\ Len(new) = Len(work[i].payload) /\ DOMAIN new = 1 .. Len(new)
             /\ \A k \in 1 .. Len(new) : /\ new[k].id = Cardinality(stored) + k /\ new[k].line = work[i].payload[k].line
                                         /\ new[k].from = i /\ new[k].status # "superseded" /\ Planned(work[i], new[k])
<1> DEFINE p == work[i].payload
           N == Cardinality(stored)
           new == NewRows(i)
<1>1. p \in Seq(Rows) /\ Probing(i, work[i], stored) /\ N \in Nat
  <2>1. work[i] \in Works /\ Probing(i, work[i], stored)
    BY DEF MemoryInv, MemoryTyped, AllHeld, Held
  <2>2. IsFiniteSet(stored)
    BY DEF MemoryInv, MemoryTyped
  <2> QED BY <2>1, <2>2, FS_CardinalityType DEF Works
<1>2. Len(p) \in Nat /\ DOMAIN p = 1 .. Len(p) /\ \A n \in 1 .. Len(p) : p[n] \in Rows
  BY <1>1, InSeq
<1>3. \A k \in 1 .. Len(p) : p[k].from = i /\ p[k].status # "superseded" /\ Planned(work[i], p[k])
  BY <1>1, <1>2 DEF Probing
<1>4. DOMAIN new = 1 .. Len(p) /\ new = [k \in 1 .. Len(p) |-> new[k]]
  BY <1>2 DEF NewRows
<1>5. \A k \in 1 .. Len(p) : new[k] = [p[k] EXCEPT !.id = N + k]
  <2> TAKE k \in 1 .. Len(p)
  <2>1. N + 1 + k - 1 = N + k
    BY <1>1, <1>2
  <2>2. new[k] = [p[k] EXCEPT !.id = N + 1 + k - 1]
    BY <1>2 DEF NewRows
  <2> QED BY <2>1, <2>2
<1> HIDE DEF new, p, N
<1>6. ASSUME NEW k \in 1 .. Len(p)
      PROVE  /\ new[k] \in Rows /\ new[k].id = N + k /\ new[k].line = p[k].line
             /\ new[k].from = i /\ new[k].status # "superseded" /\ Planned(work[i], new[k])
  <2>1. p[k] \in Rows /\ N + k \in Nat
    BY <1>1, <1>2
  <2> DEFINE other == [p[k] EXCEPT !.id = N + k]
  <2>2. /\ other \in Rows /\ other.id = N + k /\ other.line = p[k].line
        /\ other.from = p[k].from /\ other.status = p[k].status
    BY <2>1, RowNumbered
  <2>3. new[k] = other
    BY <1>5
  <2> HIDE DEF other
  <2>4. Planned(work[i], new[k])
    BY <1>3, <2>2, <2>3 DEF Planned
  <2> QED BY <1>3, <2>2, <2>3, <2>4
<1>7. new \in Seq(Rows) /\ Len(new) = Len(p)
  <2>1. \A k \in 1 .. Len(p) : new[k] \in Rows
    BY <1>6
  <2> QED BY <1>2, <1>4, <2>1, IsSeq
<1> QED BY <1>4, <1>6, <1>7 DEF new, p, N

\* They are numbered on from those stored before.
LEMMA MoreRowsAre ==
  ASSUME MemoryInv, NEW i \in Ingestion, stage[i] = "probe", stored' = stored \cup ToSet(NewRows(i))
  PROVE  /\ Numbered' /\ stored' \subseteq Rows /\ IsFiniteSet(stored')
         /\ \A row \in stored : row.id \in Nat /\ row.id <= Cardinality(stored)
         /\ \A row \in ToSet(NewRows(i)) : row.id \in Nat /\ row.id > Cardinality(stored) /\ row.from = i /\ Planned(work[i], row)
<1> DEFINE new == NewRows(i)
           more == ToSet(new)
           N == Cardinality(stored)
           L == Len(new)
<1>1. /\ new \in Seq(Rows) /\ DOMAIN new = 1 .. L
      /\ \A k \in 1 .. L : new[k].id = N + k /\ new[k].from = i /\ Planned(work[i], new[k])
  BY NewRowsAre
<1>2. L \in Nat /\ N \in Nat /\ IsFiniteSet(stored) /\ stored \subseteq Rows
  <2>1. IsFiniteSet(stored) /\ stored \subseteq Rows
    BY DEF MemoryInv, MemoryTyped
  <2> QED BY <1>1, <2>1, FS_CardinalityType, InSeq
<1>3. more = {new[k] : k \in 1 .. L}
  BY <1>1 DEF ToSet
<1> HIDE DEF new, more, N, L
<1>4. \A row \in stored : row.id \in Nat /\ row.id >= 1 /\ row.id <= N
  BY <1>2 DEF MemoryInv, Numbered, N
<1>5. \A row \in more : row \in Rows /\ row.id \in Nat /\ row.id > N /\ row.id <= N + L /\ row.from = i /\ Planned(work[i], row)
  <2> TAKE row \in more
  <2>1. PICK k \in 1 .. L : row = new[k]
    BY <1>3
  <2>2. row \in Rows
    BY <1>1, <1>2, <2>1, InSeq DEF L
  <2> QED BY <1>1, <1>2, <2>1, <2>2
<1>6. \A row, other \in more : row.id = other.id => row = other
  <2> SUFFICES ASSUME NEW row \in more, NEW other \in more, row.id = other.id PROVE row = other
    OBVIOUS
  <2>1. PICK k \in 1 .. L : row = new[k]
    BY <1>3
  <2>2. PICK l \in 1 .. L : other = new[l]
    BY <1>3
  <2>3. N + k = N + l
    BY <1>1, <2>1, <2>2
  <2>4. k = l
    BY <1>2, <2>3
  <2> QED BY <2>1, <2>2, <2>4
<1>7. IsFiniteSet(more) /\ Cardinality(more) = L
  <2> DEFINE f == [k \in 1 .. L |-> new[k]]
  <2>1. \A k \in 1 .. L : new[k] \in more
    BY <1>3
  <2>2. f \in [1 .. L -> more]
    BY <2>1
  <2>3. \A k, l \in 1 .. L : f[k] = f[l] => k = l
    <3> SUFFICES ASSUME NEW k \in 1 .. L, NEW l \in 1 .. L, new[k] = new[l] PROVE k = l
      OBVIOUS
    <3>1. N + k = N + l
      BY <1>1
    <3> QED BY <1>2, <3>1
  <2>4. \A row \in more : \E k \in 1 .. L : f[k] = row
    BY <1>3
  <2> HIDE DEF f
  <2>5. f \in Bijection(1 .. L, more)
    BY <2>2, <2>3, <2>4 DEF Bijection, Injection, Surjection, IsInjective
  <2>6. ExistsBijection(1 .. L, more)
    BY <2>5 DEF ExistsBijection
  <2>7. IsFiniteSet(1 .. L) /\ Cardinality(1 .. L) = L
    BY <1>2, FS_Interval
  <2> QED BY <2>6, <2>7, FS_Bijection
<1>8. stored \cap more = {}
  <2> SUFFICES ASSUME NEW row \in stored, row \in more PROVE FALSE
    OBVIOUS
  <2>1. row.id \in Nat /\ row.id <= N /\ row.id > N
    BY <1>4, <1>5
  <2> QED BY <1>2, <2>1
<1>9. IsFiniteSet(stored \cup more) /\ Cardinality(stored \cup more) = N + L
  <2>1. /\ IsFiniteSet(stored \cup more)
        /\ Cardinality(stored \cup more) = Cardinality(stored) + Cardinality(more) - Cardinality(stored \cap more)
    BY <1>2, <1>7, FS_Union
  <2>2. Cardinality(stored \cap more) = 0
    BY <1>8, FS_EmptySet
  <2> QED BY <1>2, <1>7, <2>1, <2>2 DEF N
<1>10. stored' = stored \cup more
  BY DEF more, new
<1>11. \A row \in stored \cup more : row.id \in 1 .. (N + L)
  <2> SUFFICES ASSUME NEW row \in stored \cup more PROVE row.id \in 1 .. (N + L)
    OBVIOUS
  <2>1. row.id \in Nat /\ row.id >= 1 /\ row.id <= N + L
    BY <1>2, <1>4, <1>5
  <2> QED BY <1>2, <2>1
<1>12. \A row, other \in stored \cup more : row.id = other.id => row = other
  <2> SUFFICES ASSUME NEW row \in stored \cup more, NEW other \in stored \cup more, row.id = other.id PROVE row = other
    OBVIOUS
  <2>1. \A a \in stored, b \in more : a.id # b.id
    <3> SUFFICES ASSUME NEW a \in stored, NEW b \in more, a.id = b.id PROVE FALSE
      OBVIOUS
    <3>1. a.id \in Nat /\ a.id <= N /\ b.id > N
      BY <1>4, <1>5
    <3> QED BY <1>2, <3>1
  <2>2. \A a, b \in stored : a.id = b.id => a = b
    BY DEF MemoryInv, Numbered
  <2> QED BY <1>6, <2>1, <2>2
<1>13. Numbered'
  <2>1. Cardinality(stored') = N + L
    BY <1>9, <1>10
  <2> QED BY <1>10, <1>11, <1>12, <2>1 DEF Numbered
<1>14. stored' \subseteq Rows
  BY <1>2, <1>5, <1>10
<1> QED BY <1>4, <1>5, <1>9, <1>10, <1>13, <1>14 DEF more, new, N

\* What follows the rows of a table.
LEMMA TableGrows ==
  ASSUME NEW table \in Seq(Rows), NEW new \in Seq(Rows)
  PROVE  LET all == table \o new
         IN  /\ all \in Seq(Rows) /\ DOMAIN all = 1 .. (Len(table) + Len(new))
             /\ \A n \in 1 .. Len(table) : n \in DOMAIN all /\ all[n] = table[n]
             /\ \A n \in DOMAIN all : n \in 1 .. Len(table) \/ \E k \in 1 .. Len(new) : all[n] = new[k]
<1> DEFINE all == table \o new
<1>1. Len(table) \in Nat /\ Len(new) \in Nat
  BY InSeq
<1>2. /\ all \in Seq(Rows) /\ DOMAIN all = 1 .. (Len(table) + Len(new))
      /\ \A n \in 1 .. (Len(table) + Len(new)) : all[n] = IF n <= Len(table) THEN table[n] ELSE new[n - Len(table)]
  <2>1. all \in Seq(Rows) /\ Len(all) = Len(table) + Len(new)
    OBVIOUS
  <2>2. \A n \in 1 .. (Len(table) + Len(new)) : all[n] = IF n <= Len(table) THEN table[n] ELSE new[n - Len(table)]
    OBVIOUS
  <2> HIDE DEF all
  <2> QED BY <2>1, <2>2, InSeq
<1> HIDE DEF all
<1>3. \A n \in 1 .. Len(table) : n \in DOMAIN all /\ all[n] = table[n]
  BY <1>1, <1>2
<1>4. ASSUME NEW n \in DOMAIN all, n \notin 1 .. Len(table) PROVE \E k \in 1 .. Len(new) : all[n] = new[k]
  <2>1. n - Len(table) \in 1 .. Len(new) /\ all[n] = new[n - Len(table)]
    BY <1>1, <1>2, <1>4
  <2> QED BY <2>1
<1> QED BY <1>2, <1>3, <1>4 DEF all

\* An ingestion that is over leaves as little to retire when others add rows.
LEMMA SettledGrows ==
  ASSUME NEW table \in Seq(Rows), NEW new \in Seq(Rows), NEW o, \A k \in 1 .. Len(new) : new[k].from # o,
         Few(table) => Settled(o, table)
  PROVE  Few(table \o new) => Settled(o, table \o new)
<1> DEFINE all == table \o new
<1>1. /\ all \in Seq(Rows) /\ DOMAIN all = 1 .. (Len(table) + Len(new)) /\ DOMAIN table = 1 .. Len(table)
      /\ \A n \in 1 .. Len(table) : n \in DOMAIN all /\ all[n] = table[n]
      /\ \A n \in DOMAIN all : n \in 1 .. Len(table) \/ \E k \in 1 .. Len(new) : all[n] = new[k]
  BY TableGrows, InSeq
<1>2. Len(table) \in Nat /\ Len(new) \in Nat
  BY InSeq
<1> HIDE DEF all
<1>3. ASSUME Few(all) PROVE Few(table)
  <2>1. QuotedIn(table) \in SUBSET QuotedIn(all)
    BY <1>1 DEF QuotedIn
  <2>2. QuotedIn(all) \in SUBSET (1 .. (Len(table) + Len(new))) /\ IsFiniteSet(1 .. (Len(table) + Len(new)))
    BY <1>1, <1>2, FS_Interval DEF QuotedIn
  <2>3. IsFiniteSet(QuotedIn(all))
    BY <2>2, FS_Subset
  <2>4. Cardinality(QuotedIn(table)) <= Cardinality(QuotedIn(all)) /\ IsFiniteSet(QuotedIn(table))
    BY <2>1, <2>3, FS_Subset
  <2>5. Cardinality(QuotedIn(table)) \in Nat /\ Cardinality(QuotedIn(all)) \in Nat
    BY <2>3, <2>4, FS_CardinalityType
  <2> QED BY <1>3, <2>4, <2>5 DEF Few
<1>4. ASSUME Settled(o, table) PROVE Settled(o, all)
  <2> SUFFICES ASSUME NEW n \in DOMAIN all, all[n].from = o, all[n].tag = "CORRECTION", NEW m \in Left(o, all), m < n
               PROVE  FALSE
    BY DEF Settled
  <2>1. n \in 1 .. Len(table) /\ all[n] = table[n]
    BY <1>1
  <2>2. m \in DOMAIN all
    BY DEF Left, QuotedIn
  <2>3. m \in 1 .. Len(table) /\ all[m] = table[m]
    BY <1>1, <1>2, <2>1, <2>2
  <2>4. m \in Left(o, table)
    BY <1>1, <2>3 DEF Left, QuotedIn
  <2> QED BY <1>1, <1>4, <2>1, <2>4 DEF Settled
<1> QED BY <1>3, <1>4 DEF all

\* The rows of an ingestion are stored, whatever becomes of it.
LEMMA StoreStep ==
  ASSUME MemoryInv, NEW i \in Ingestion, stage[i] = "probe",
         stored' = stored \cup ToSet(NewRows(i)), facts' = facts \o NewRows(i),
         UNCHANGED <<givenVars, countVars>>,
         NEW place \in Stages, NEW v \in Works, Step(i, place, v),
         troubled' \in [Ingestion -> BOOLEAN], \A o \in Ingestion \ {i} : troubled'[o] = troubled[o],
         troubled[i] => troubled'[i], place = "failed" => troubled'[i], Held(i, place, v, stored'),
         ~troubled'[i] => OnceAt(i, place, v, stored') /\ RetiredAt(i, place, v, facts')
  PROVE  MemoryInv'
<1> DEFINE new == NewRows(i)
           more == ToSet(new)
<1>1. /\ said' = said /\ retries' = retries /\ wiped' = wiped /\ open' = open
  BY DEF givenVars, countVars
<1>2. /\ stage \in [Ingestion -> Stages] /\ work \in [Ingestion -> Works]
      /\ stage' = [stage EXCEPT ![i] = place] /\ work' = [work EXCEPT ![i] = v]
      /\ facts \in Seq(Rows) /\ troubled \in [Ingestion -> BOOLEAN] /\ stored \subseteq Rows
  BY DEF MemoryInv, MemoryTyped, Step
<1>3. /\ stage'[i] = place /\ work'[i] = v
      /\ \A o \in Ingestion \ {i} : stage'[o] = stage[o] /\ work'[o] = work[o]
      /\ stage' \in [Ingestion -> Stages] /\ work' \in [Ingestion -> Works]
  BY <1>2
<1>4. /\ new \in Seq(Rows)
      /\ \A k \in 1 .. Len(new) : new[k].from = i /\ new[k].status # "superseded" /\ new[k] \in more
  <2>1. /\ new \in Seq(Rows) /\ DOMAIN new = 1 .. Len(new)
        /\ \A k \in 1 .. Len(new) : new[k].from = i /\ new[k].status # "superseded"
    BY NewRowsAre
  <2> HIDE DEF new
  <2> QED BY <2>1 DEF ToSet
<1>5. /\ Numbered' /\ stored' \subseteq Rows /\ IsFiniteSet(stored')
      /\ \A row \in stored : row.id \in Nat /\ row.id <= Cardinality(stored)
      /\ \A row \in more : row.id \in Nat /\ row.id > Cardinality(stored) /\ row.from = i /\ Planned(work[i], row)
  BY MoreRowsAre
<1>6. stored' = stored \cup more /\ facts' = facts \o new
  OBVIOUS
<1>7. Cardinality(stored) \in Nat
  BY FS_CardinalityType DEF MemoryInv, MemoryTyped
<1> HIDE DEF new, more
<1>8. /\ facts' \in Seq(Rows) /\ DOMAIN facts = 1 .. Len(facts)
      /\ \A n \in 1 .. Len(facts) : n \in DOMAIN facts' /\ facts'[n] = facts[n]
      /\ \A n \in DOMAIN facts' : n \in 1 .. Len(facts) \/ \E k \in 1 .. Len(new) : facts'[n] = new[k]
  <2> DEFINE all == facts \o new
  <2>1. /\ all \in Seq(Rows)
        /\ \A n \in 1 .. Len(facts) : n \in DOMAIN all /\ all[n] = facts[n]
        /\ \A n \in DOMAIN all : n \in 1 .. Len(facts) \/ \E k \in 1 .. Len(new) : all[n] = new[k]
    BY <1>2, <1>4, TableGrows
  <2>2. facts' = all
    BY <1>6
  <2> HIDE DEF all
  <2> QED BY <1>2, <2>1, <2>2, InSeq
<1>9. MemoryTyped'
  BY <1>1, <1>3, <1>5, <1>8 DEF MemoryInv, MemoryTyped
<1>10. Recorded'
  <2> SUFFICES ASSUME NEW n \in DOMAIN facts' PROVE \E row \in stored' : Same(facts'[n], row)
    BY DEF Recorded, Same
  <2>1. CASE n \in 1 .. Len(facts)
    BY <1>6, <1>8, <2>1 DEF MemoryInv, Recorded
  <2>2. CASE \E k \in 1 .. Len(new) : facts'[n] = new[k]
    BY <1>4, <1>6, <2>2 DEF Same
  <2> QED BY <1>8, <2>1, <2>2
<1>11. AllHeld'
  <2>1. ASSUME NEW o \in Ingestion PROVE Held(o, stage'[o], work'[o], stored')
    <3>1. CASE o = i
      BY <1>3, <3>1
    <3>2. CASE o # i
      <4>1. Held(o, stage[o], work[o], stored) /\ work[o] \in Works
        BY <1>2 DEF MemoryInv, AllHeld
      <4>2. \A row \in more : row.id \in Nat /\ row.id > Cardinality(stored) /\ row.from # o
        BY <1>5, <3>2
      <4>3. \A row \in stored : row.id <= Cardinality(stored)
        BY <1>5
      <4>4. \A row \in stored : row.id \in Nat
        BY <1>5
      <4>5. Held(o, stage[o], work[o], stored \cup more)
        BY <1>7, <4>1, <4>2, <4>3, <4>4, HeldGrows
      <4> QED BY <1>3, <1>6, <3>2, <4>5
    <3> QED BY <3>1, <3>2
  <2> QED BY <2>1 DEF AllHeld
<1>12. stage[i] \in Going /\ \A o \in Ingestion \ {i} : ~troubled'[o] => stage[o] \notin Going
  BY DEF Going, MemoryInv, Apart
<1>13. Apart' /\ FailedIsTroubled'
  <2>1. ASSUME NEW a \in Ingestion, NEW b \in Ingestion, a # b, stage'[a] \in Going, stage'[b] \in Going
        PROVE  troubled'[a] /\ troubled'[b]
    <3>1. CASE a # i /\ b # i
      BY <1>3, <2>1, <3>1 DEF MemoryInv, Apart
    <3>2. CASE a = i
      BY <1>3, <1>12, <2>1, <3>2 DEF MemoryInv, Apart
    <3>3. CASE b = i
      BY <1>3, <1>12, <2>1, <3>3 DEF MemoryInv, Apart
    <3> QED BY <3>1, <3>2, <3>3
  <2>2. \A o \in Ingestion : stage'[o] = "failed" => troubled'[o]
    BY <1>3 DEF MemoryInv, FailedIsTroubled
  <2> QED BY <2>1, <2>2 DEF Apart, FailedIsTroubled
<1>14. Undisturbed'
  <2>1. ASSUME NEW o \in Ingestion, ~troubled'[o]
        PROVE  OnceAt(o, stage'[o], work'[o], stored') /\ RetiredAt(o, stage'[o], work'[o], facts')
    <3>1. CASE o = i
      BY <1>3, <2>1, <3>1
    <3>2. CASE o # i
      <4>1. ~troubled[o] /\ stage[o] \notin Going /\ stage'[o] = stage[o] /\ work'[o] = work[o]
        BY <1>3, <1>12, <2>1, <3>2
      <4>2. OnceAt(o, stage[o], work[o], stored) /\ RetiredAt(o, stage[o], work[o], facts)
        BY <4>1 DEF MemoryInv, Undisturbed
      <4>3. OnceAt(o, stage[o], work[o], stored')
        BY <1>5, <1>6, <3>2, <4>1, <4>2 DEF OnceAt, Going
      <4>4. stage[o] = "done" => (Few(facts) => Settled(o, facts))
        BY <4>2 DEF RetiredAt
      <4>5. stage[o] = "done" => (Few(facts \o new) => Settled(o, facts \o new))
        <5> SUFFICES ASSUME stage[o] = "done" PROVE Few(facts \o new) => Settled(o, facts \o new)
          OBVIOUS
        <5>1. \A k \in 1 .. Len(new) : new[k].from # o
          BY <1>4, <3>2
        <5> QED BY <1>2, <1>4, <4>4, <5>1, SettledGrows
      <4>6. RetiredAt(o, stage[o], work[o], facts')
        BY <1>6, <4>1, <4>5 DEF RetiredAt, Going
      <4> QED BY <4>1, <4>3, <4>6
    <3> QED BY <3>1, <3>2
  <2> QED BY <2>1 DEF Undisturbed
<1>15. RetiredForCause'
  <2> SUFFICES ASSUME NEW n \in DOMAIN facts', facts'[n].status = "superseded"
               PROVE  \E c \in stored' : /\ c.id = facts'[n].by /\ c.tag = "CORRECTION"
                                         /\ Similarity(facts'[n].at, PlaceOf["f1"]) >= 60
                                         /\ facts'[n].id > c.id => facts'[n].from # c.from
    BY DEF RetiredForCause
  <2>1. \A k \in 1 .. Len(new) : facts'[n] # new[k]
    BY <1>4
  <2>2. n \in 1 .. Len(facts)
    BY <1>8, <2>1
  <2>3. n \in DOMAIN facts /\ facts'[n] = facts[n]
    BY <1>8, <2>2
  <2> QED BY <1>6, <2>3 DEF MemoryInv, RetiredForCause
<1>16. EraseHolds' /\ OpenOnly'
  <2>1. wiped > 0 => i \in open
    BY DEF MemoryInv, OpenOnly
  <2>2. wiped > 0 => \A n \in DOMAIN facts' : facts'[n].from \in open
    <3> SUFFICES ASSUME wiped > 0, NEW n \in DOMAIN facts' PROVE facts'[n].from \in open
      OBVIOUS
    <3> QED BY <1>4, <1>8, <2>1 DEF MemoryInv, EraseHolds
  <2>3. EraseHolds'
    BY <1>1, <2>2 DEF EraseHolds
  <2>4. OpenOnly'
    BY <1>1, <1>3, <2>1 DEF MemoryInv, OpenOnly
  <2> QED BY <2>3, <2>4
<1> QED BY <1>5, <1>9, <1>10, <1>11, <1>13, <1>14, <1>15, <1>16 DEF MemoryInv

\* An ingestion whose rows were inserted says, or knows said, all its records.
LEMMA InsertStep ==
  ASSUME MemoryInv, NEW i \in Ingestion, Insert(i)
  PROVE  MemoryInv'
<1> DEFINE w == work[i]
           new == NewRows(i)
           more == ToSet(new)
           own == {new[n].id : n \in DOMAIN new}
           v == [w EXCEPT !.own = own, !.next = 1]
<1>1. /\ stage[i] = "probe" /\ stage[i] \in Going /\ w.next > Len(w.records) /\ UNCHANGED <<givenVars, countVars>>
      /\ \/ Fail(i) /\ UNCHANGED storeVars
         \/ /\ facts' = facts \o new /\ stored' = stored \cup more
            /\ \/ Fail(i)
               \/ Step(i, IF own = {} THEN "done" ELSE "quotes", v) /\ UNCHANGED troubled
  BY DEF Insert, Going, NewRows
<1>2. troubled \in [Ingestion -> BOOLEAN] /\ w \in Works /\ facts \in Seq(Rows) /\ stored \subseteq Rows
  BY DEF MemoryInv, MemoryTyped
<1>3. CASE Fail(i) /\ UNCHANGED storeVars
  BY <1>1, <1>3, FailStep
<1>4. ASSUME facts' = facts \o new, stored' = stored \cup more, Fail(i) PROVE MemoryInv'
  <2>1. Step(i, "failed", Fresh) /\ troubled' = [troubled EXCEPT ![i] = TRUE]
    BY <1>4 DEF Fail, Trouble
  <2>2. troubled' \in [Ingestion -> BOOLEAN] /\ troubled'[i] /\ \A o \in Ingestion \ {i} : troubled'[o] = troubled[o]
    BY <1>2, <2>1
  <2>3. "failed" \in Stages /\ Held(i, "failed", Fresh, stored')
    BY DEF Stages, Held
  <2> QED BY <1>1, <1>4, <2>1, <2>2, <2>3, FreshIs, StoreStep
<1>5. ASSUME facts' = facts \o new, stored' = stored \cup more, UNCHANGED troubled,
             Step(i, IF own = {} THEN "done" ELSE "quotes", v)
      PROVE  MemoryInv'
  <2>1. /\ new \in Seq(Rows) /\ Len(new) = Len(w.payload) /\ DOMAIN new = 1 .. Len(new)
        /\ \A k \in 1 .. Len(new) : new[k].id = Cardinality(stored) + k /\ new[k].line = w.payload[k].line /\ new[k].from = i
    BY <1>1, NewRowsAre
  <2>2. /\ \A row \in stored : row.id \in Nat /\ row.id <= Cardinality(stored)
        /\ \A row \in more : row.id \in Nat /\ row.id > Cardinality(stored) /\ row.from = i /\ Planned(w, row)
    BY <1>1, <1>5, MoreRowsAre
  <2>3. Cardinality(stored) \in Nat
    BY FS_CardinalityType DEF MemoryInv, MemoryTyped
  <2>4. more = {new[k] : k \in 1 .. Len(new)}
    BY <2>1 DEF ToSet
  <2>5. \A id \in own : id \in Nat /\ id > Cardinality(stored) /\ \E row \in more : row.id = id
    <3> TAKE id \in own
    <3>1. PICK k \in 1 .. Len(new) : id = new[k].id
      BY <2>1
    <3>2. new[k] \in more
      BY <2>4
    <3> QED BY <2>2, <3>1, <3>2
  <2>6. \A row \in more : row.id \in own
    BY <2>1, <2>4
  <2>7. w.records \in Seq(Records) /\ w.payload \in Seq(Rows) /\ w.next \in Nat \ {0} /\ Probing(i, w, stored)
    BY <1>1, <1>2 DEF Works, MemoryInv, AllHeld, Held
  <2>8. \A n \in DOMAIN w.records : n < w.next
    BY <1>1, <2>7, InSeq
  <2> HIDE DEF own, new, more, w
  <2>9. v \in Works /\ v.own = own /\ v.records = w.records /\ v.next = 1
    <3> DEFINE u == [w EXCEPT !.own = own]
    <3>1. own \in SUBSET Nat /\ 1 \in Nat \ {0}
      BY <2>5
    <3>2. u \in Works /\ u.own = own /\ u.records = w.records
      BY <1>2, <3>1 DEF Works
    <3>3. v = [u EXCEPT !.next = 1]
      BY <1>2 DEF Works
    <3> HIDE DEF u, v
    <3> QED BY <3>1, <3>2, <3>3 DEF Works
  <2> HIDE DEF v
  <2>10. \A n \in DOMAIN v.records : Says(stored', v.records[n])
    <3> TAKE n \in DOMAIN v.records
    <3>1. CASE Says(stored, w.records[n])
      BY <1>5, <2>9, <3>1 DEF Says
    <3>2. CASE \E k \in DOMAIN w.payload : w.payload[k].line = w.records[n].line
      <4>1. PICK k \in DOMAIN w.payload : w.payload[k].line = w.records[n].line
        BY <3>2
      <4>2. k \in 1 .. Len(new)
        BY <2>1, <2>7, InSeq
      <4>3. new[k] \in stored' /\ new[k].line = w.records[n].line
        BY <1>5, <2>1, <2>4, <4>1, <4>2
      <4> QED BY <2>9, <4>3 DEF Says
    <3> QED BY <2>7, <2>8, <2>9, <3>1, <3>2 DEF Probing
  <2>11. Inserted(i, v, stored')
    <3>1. \A id \in v.own : \E row \in stored' : row.id = id
      BY <1>5, <2>5, <2>9
    <3>2. \A row \in stored' : row.id \in v.own => row \in more
      <4> SUFFICES ASSUME NEW row \in stored, row.id \in own PROVE FALSE
        BY <1>5, <2>9
      <4>1. row.id \in Nat /\ row.id <= Cardinality(stored) /\ row.id > Cardinality(stored)
        BY <2>2, <2>5
      <4> QED BY <2>3, <4>1
    <3>3. \A row \in stored' : row.id \in v.own => row.from = i /\ Planned(v, row)
      BY <2>2, <2>9, <3>2 DEF Planned
    <3>4. \A row \in stored' : row.from = i /\ row.id \notin v.own => \A id \in v.own : row.id < id
      <4> SUFFICES ASSUME NEW row \in stored', row.id \notin own, NEW id \in own PROVE row.id < id
        BY <2>9
      <4>1. row \in stored
        BY <1>5, <2>6
      <4>2. row.id \in Nat /\ row.id <= Cardinality(stored) /\ id \in Nat /\ id > Cardinality(stored)
        BY <2>2, <2>5, <4>1
      <4> QED BY <2>3, <4>2
    <3> QED BY <2>10, <3>1, <3>3, <3>4 DEF Inserted
  <2>12. ~troubled[i] => \A row \in stored : row.from # i
    BY <1>1 DEF MemoryInv, Undisturbed, OnceAt
  <2>13. troubled' \in [Ingestion -> BOOLEAN] /\ troubled' = troubled
    BY <1>2, <1>5
  <2>14. CASE own = {}
    <3>1. Step(i, "done", v)
      BY <1>5, <2>14
    <3>2. "done" \in Stages /\ Held(i, "done", v, stored') /\ OnceAt(i, "done", v, stored') /\ "done" # "failed"
      BY DEF Stages, Held, OnceAt
    <3>3. facts' = facts
      <4>1. Len(new) = 0
        <5>1. \A k \in DOMAIN new : new[k].id \in own
          BY DEF own
        <5>2. Len(new) \in Nat /\ DOMAIN new = 1 .. Len(new)
          BY <2>1, InSeq
        <5>3. \A k \in 1 .. Len(new) : FALSE
          BY <2>14, <5>1, <5>2
        <5> QED BY <5>2, <5>3
      <4>2. new = <<>>
        BY <2>1, <4>1
      <4> QED BY <1>2, <1>5, <4>2
    <3>4. ~troubled'[i] => RetiredAt(i, "done", v, facts')
      BY <2>12, <2>13, <3>3, NoneOfIts DEF RetiredAt
    <3>5. facts' = facts \o NewRows(i) /\ stored' = stored \cup ToSet(NewRows(i))
      BY <1>5 DEF new, more
    <3> QED BY <1>1, <2>9, <2>13, <3>1, <3>2, <3>4, <3>5, StoreStep
  <2>15. CASE own # {}
    <3>1. Step(i, "quotes", v)
      BY <1>5, <2>15
    <3>2. "quotes" \in Stages /\ Held(i, "quotes", v, stored') /\ RetiredAt(i, "quotes", v, facts') /\ "quotes" # "failed"
      BY <2>9, <2>11 DEF Stages, Held, RetiredAt
    <3>3. ~troubled'[i] => OnceAt(i, "quotes", v, stored')
      BY <1>5, <2>6, <2>9, <2>12, <2>13 DEF OnceAt
    <3>4. facts' = facts \o NewRows(i) /\ stored' = stored \cup ToSet(NewRows(i))
      BY <1>5 DEF new, more
    <3> QED BY <1>1, <2>9, <2>13, <3>1, <3>2, <3>3, <3>4, StoreStep
  <2> QED BY <2>14, <2>15
<1> QED BY <1>1, <1>3, <1>4, <1>5

\* What an ingestion still has to retire once nothing of it is a correction.
LEMMA NoCorrection ==
  ASSUME MemoryInv, NEW i \in Ingestion, ~troubled[i], stage[i] \in {"quotes", "lookup", "retire"},
         CorrectionsOf(work[i], stored) = <<>>
  PROVE  Settled(i, facts)
<1> SUFFICES ASSUME NEW n \in DOMAIN facts, facts[n].from = i, facts[n].tag = "CORRECTION" PROVE FALSE
  BY DEF Settled
<1>1. work[i] \in Works /\ facts \in Seq(Rows) /\ stored \subseteq Rows /\ Inserted(i, work[i], stored)
  BY DEF MemoryInv, MemoryTyped, AllHeld, Held
<1>2. facts[n] \in Rows
  BY <1>1, InSeq
<1>3. PICK row \in stored : row.id = facts[n].id /\ row.line = facts[n].line /\ row.from = i
  BY DEF MemoryInv, Recorded, Same
<1>4. row.line = "c"
  BY <1>2, <1>3, RowIs
<1>5. row.id \in work[i].own
  BY <1>3 DEF MemoryInv, Undisturbed, OnceAt
<1>6. PICK m \in DOMAIN work[i].records : work[i].records[m].line = row.line
  BY <1>1, <1>5 DEF Inserted, Planned
<1>7. CorrectionsOf(work[i], stored) # <<>>
  BY <1>1, <1>4, <1>5, <1>6, CorrectionsAre
<1> QED BY <1>7

\* The corrections an ingestion holds depend on what it holds and what is stored.
LEMMA CorrectionsOfIts == ASSUME NEW i PROVE Corrections(i) = CorrectionsOf(work[i], stored)
BY DEF Corrections, CorrectionsOf

\* A step among an ingestion's corrections keeps what it inserted.
LEMMA KeepsInserted ==
  ASSUME NEW i \in Ingestion, NEW w \in Works, NEW v \in Works, NEW rows,
         v.records = w.records, v.own = w.own, Inserted(i, w, rows)
  PROVE  Inserted(i, v, rows) /\ CorrectionsOf(v, rows) = CorrectionsOf(w, rows)
         /\ \A place \in {"quotes", "lookup", "retire"} : OnceAt(i, place, v, rows) <=> \A row \in rows : row.from = i => row.id \in w.own
BY DEF Inserted, Planned, CorrectionsOf, OnceAt

\* What an ingestion among its corrections holds.
LEMMA AmongCorrections ==
  ASSUME MemoryInv, NEW i \in Ingestion, stage[i] \in {"quotes", "lookup", "retire"}
  PROVE  /\ work[i] \in Works /\ facts \in Seq(Rows) /\ stored \subseteq Rows /\ Inserted(i, work[i], stored)
         /\ Corrections(i) = CorrectionsOf(work[i], stored) /\ Corrections(i) \in Seq(Records)
         /\ \A k \in 1 .. Len(Corrections(i)) : Corrections(i)[k].line = "c" /\ Corrections(i)[k].supersedes = "f1"
         /\ work[i].next \in Nat \ {0} /\ stage[i] \in Going
         /\ ~troubled[i] => \A row \in stored : row.from = i => row.id \in work[i].own
<1>1. work[i] \in Works /\ facts \in Seq(Rows) /\ stored \subseteq Rows /\ Inserted(i, work[i], stored)
  BY DEF MemoryInv, MemoryTyped, AllHeld, Held
<1>2. Corrections(i) = CorrectionsOf(work[i], stored)
  BY CorrectionsOfIts
<1>3. /\ Corrections(i) \in Seq(Records)
      /\ \A k \in 1 .. Len(Corrections(i)) : Corrections(i)[k].line = "c" /\ Corrections(i)[k].supersedes = "f1"
  BY <1>1, <1>2, CorrectionsAre
<1>4. work[i].next \in Nat \ {0} /\ stage[i] \in Going
  BY <1>1 DEF Works, Going
<1>5. ~troubled[i] => \A row \in stored : row.from = i => row.id \in work[i].own
  BY DEF MemoryInv, Undisturbed, OnceAt
<1> QED BY <1>1, <1>2, <1>3, <1>4, <1>5

\* What the corrections quote is embedded in their order.
LEMMA EmbedQuotesStep ==
  ASSUME MemoryInv, NEW i \in Ingestion, EmbedQuotes(i)
  PROVE  MemoryInv'
<1> DEFINE w == work[i]
           c == Corrections(i)
           places == [n \in DOMAIN c |-> PlaceOf[c[n].supersedes]]
<1>1. stage[i] = "quotes" /\ UNCHANGED <<givenVars, storeVars, countVars>>
  BY DEF EmbedQuotes
<1>2. /\ IF c = <<>>
         THEN Step(i, "done", Fresh) /\ UNCHANGED troubled
         ELSE \E quotes \in embed(places) :
                  IF quotes = Wrong
                  THEN Fail(i)
                  ELSE Step(i, "lookup", [w EXCEPT !.quotes = quotes]) /\ UNCHANGED troubled
  BY DEF EmbedQuotes
<1>3. /\ w \in Works /\ facts \in Seq(Rows) /\ stored \subseteq Rows /\ Inserted(i, w, stored)
      /\ c = CorrectionsOf(w, stored) /\ c \in Seq(Records)
      /\ \A k \in 1 .. Len(c) : c[k].line = "c" /\ c[k].supersedes = "f1"
      /\ stage[i] \in Going
      /\ ~troubled[i] => \A row \in stored : row.from = i => row.id \in w.own
  BY <1>1, AmongCorrections
<1>4. w.next = 1
  BY <1>1 DEF MemoryInv, AllHeld, Held
<1> HIDE DEF c
<1>5. CASE c = <<>>
  <2>1. Step(i, "done", Fresh) /\ UNCHANGED <<givenVars, storeVars, countVars, troubled>>
    BY <1>1, <1>2, <1>5
  <2>2. "done" \in Stages /\ Held(i, "done", Fresh, stored) /\ OnceAt(i, "done", Fresh, stored) /\ "done" # "failed"
    BY DEF Stages, Held, OnceAt
  <2>3. ~troubled[i] => RetiredAt(i, "done", Fresh, facts)
    BY <1>1, <1>3, <1>5, NoCorrection DEF RetiredAt
  <2> QED BY <1>3, <2>1, <2>2, <2>3, FreshIs, CalmStep
<1>6. CASE Fail(i)
  BY <1>1, <1>3, <1>6, FailStep
<1>7. ASSUME c # <<>>, NEW quotes \in embed(places), quotes # Wrong,
             Step(i, "lookup", [w EXCEPT !.quotes = quotes]), UNCHANGED troubled
      PROVE  MemoryInv'
  <2> DEFINE v == [w EXCEPT !.quotes = quotes]
  <2>1. Len(c) \in Nat /\ DOMAIN c = 1 .. Len(c) /\ Len(c) # 0
    <3>1. Len(c) \in Nat /\ DOMAIN c = 1 .. Len(c)
      BY <1>3, InSeq
    <3> QED BY <1>3, <1>7, <3>1
  <2>2. places = [n \in 1 .. Len(c) |-> PlaceOf["f1"]]
    BY <1>3, <2>1
  <2>3. PlaceOf["f1"] \in Int
    BY PlacesAre DEF Lines
  <2>4. places \in Seq(Int) /\ Len(places) = Len(c) /\ places # <<>> /\ \A n \in DOMAIN places : places[n] = PlaceOf["f1"]
    <3> HIDE DEF places
    <3>1. places \in Seq(Int) /\ Len(places) = Len(c)
      BY <2>1, <2>2, <2>3
    <3>2. \A n \in DOMAIN places : places[n] = PlaceOf["f1"]
      BY <2>2
    <3> QED BY <2>1, <3>1, <3>2
  <2> HIDE DEF places
  <2>5. quotes = places
    BY <1>7, <2>4, EmbedIs
  <2>6. v \in Works /\ v.quotes = quotes /\ v.records = w.records /\ v.own = w.own /\ v.next = 1
    BY <1>3, <1>4, <2>4, <2>5 DEF Works
  <2>7. Step(i, "lookup", v) /\ UNCHANGED <<givenVars, storeVars, countVars, troubled>>
    BY <1>1, <1>7
  <2> HIDE DEF v, w
  <2>8. /\ Inserted(i, v, stored) /\ CorrectionsOf(v, stored) = c
        /\ OnceAt(i, "lookup", v, stored) <=> \A row \in stored : row.from = i => row.id \in w.own
    BY <1>3, <2>6, KeepsInserted
  <2>9. Quoting(v, stored)
    BY <2>4, <2>5, <2>6, <2>8 DEF Quoting
  <2>10. "lookup" \in Stages /\ Held(i, "lookup", v, stored) /\ "lookup" # "failed"
    BY <2>8, <2>9 DEF Stages, Held
  <2>11. RetiredAt(i, "lookup", v, facts)
    BY <2>6 DEF RetiredAt
  <2> QED BY <1>3, <2>6, <2>7, <2>8, <2>10, <2>11, CalmStep
<1> QED BY <1>2, <1>5, <1>6, <1>7

\* A step within an ingestion's corrections that keeps what it inserted and
\* quotes.
LEMMA KeepsQuoting ==
  ASSUME MemoryInv, NEW i \in Ingestion, stage[i] \in {"lookup", "retire"}, NEW v \in Works,
         v.records = work[i].records, v.own = work[i].own, v.quotes = work[i].quotes
  PROVE  /\ Inserted(i, v, stored) /\ CorrectionsOf(v, stored) = Corrections(i) /\ Quoting(v, stored)
         /\ ~troubled[i] => OnceAt(i, "lookup", v, stored) /\ OnceAt(i, "retire", v, stored)
<1>1. /\ work[i] \in Works /\ Inserted(i, work[i], stored) /\ Corrections(i) = CorrectionsOf(work[i], stored)
      /\ ~troubled[i] => \A row \in stored : row.from = i => row.id \in work[i].own
  BY AmongCorrections
<1>2. /\ Inserted(i, v, stored) /\ CorrectionsOf(v, stored) = Corrections(i)
      /\ \A place \in {"quotes", "lookup", "retire"} :
            OnceAt(i, place, v, stored) <=> \A row \in stored : row.from = i => row.id \in work[i].own
  BY <1>1, KeepsInserted
<1>3. Quoting(work[i], stored)
  BY DEF MemoryInv, AllHeld, Held
<1>4. Quoting(v, stored)
  BY <1>1, <1>2, <1>3 DEF Quoting
<1> QED BY <1>1, <1>2, <1>4

\* The next correction is one further on.
LEMMA NextIs ==
  ASSUME NEW w \in Works
  PROVE  LET v == [w EXCEPT !.next = @ + 1]
         IN  /\ v \in Works /\ v.next = w.next + 1 /\ w.next \in Nat \ {0}
             /\ v.records = w.records /\ v.own = w.own /\ v.quotes = w.quotes /\ v.hits = w.hits
<1>1. w.next \in Nat \ {0} /\ w.next + 1 \in Nat \ {0}
  BY DEF Works
<1> QED BY <1>1 DEF Works

\* The rows looked up are no rows of the ingestion, and where few are near, all
\* that are to go.
LEMMA LookUpStep ==
  ASSUME MemoryInv, NEW i \in Ingestion, LookUp(i)
  PROVE  MemoryInv'
<1> DEFINE w == work[i]
           c == Corrections(i)
           r == c[w.next]
           hits == RetiredBy(r, w.quotes[w.next], w.own)
<1>1. stage[i] = "lookup" /\ w.next <= Len(c) /\ UNCHANGED <<givenVars, storeVars, countVars>>
  BY DEF LookUp
<1>2. \/ Step(i, "retire", [w EXCEPT !.hits = hits]) /\ UNCHANGED troubled
      \/ Step(i, "lookup", [w EXCEPT !.next = @ + 1]) /\ Trouble(i)
  BY DEF LookUp
<1>3. /\ w \in Works /\ facts \in Seq(Rows) /\ stored \subseteq Rows /\ Inserted(i, w, stored)
      /\ c = CorrectionsOf(w, stored) /\ c \in Seq(Records) /\ w.next \in Nat \ {0}
      /\ stage[i] \in Going
  BY <1>1, AmongCorrections
<1>4. Quoting(w, stored) /\ troubled \in [Ingestion -> BOOLEAN] /\ retries \in Nat
  BY <1>1 DEF MemoryInv, MemoryTyped, AllHeld, Held
<1>5. CASE Step(i, "lookup", [w EXCEPT !.next = @ + 1]) /\ Trouble(i)
  <2> DEFINE v == [w EXCEPT !.next = @ + 1]
  <2>1. v \in Works /\ v.records = w.records /\ v.own = w.own /\ v.quotes = w.quotes
    BY <1>3, NextIs
  <2>2. Step(i, "lookup", v)
    BY <1>5
  <2> HIDE DEF v
  <2>3. Inserted(i, v, stored) /\ Quoting(v, stored)
    BY <1>1, <2>1, KeepsQuoting
  <2>4. "lookup" \in Stages /\ Held(i, "lookup", v, stored) /\ "lookup" # "failed" /\ stage[i] \notin {"gone", "done"}
    BY <1>1, <2>3 DEF Stages, Held
  <2>5. troubled' = [troubled EXCEPT ![i] = TRUE]
    BY <1>5 DEF Trouble
  <2>6. troubled' \in [Ingestion -> BOOLEAN] /\ troubled'[i] /\ \A o \in Ingestion : troubled[o] => troubled'[o]
    BY <1>4, <2>5
  <2>7. /\ facts' = facts /\ stored' = stored /\ wiped' = wiped /\ open' = open /\ said' = said /\ retries' = retries
    BY <1>1 DEF givenVars, storeVars, countVars
  <2> QED BY <1>3, <1>4, <2>1, <2>2, <2>4, <2>6, <2>7, QuietStep
<1>6. CASE Step(i, "retire", [w EXCEPT !.hits = hits]) /\ UNCHANGED troubled
  <2> DEFINE v == [w EXCEPT !.hits = hits]
  <2>0. Len(c) \in Nat /\ w.next \in 1 .. Len(c)
    <3>1. Len(c) \in Nat
      BY <1>3, InSeq
    <3> QED BY <1>1, <1>3, <3>1
  <2>1. w.quotes[w.next] = PlaceOf["f1"]
    <3>1. w.quotes \in Seq(Int) /\ Len(w.quotes) = Len(c)
      BY <1>3, <1>4 DEF Quoting, Works
    <3>2. w.next \in DOMAIN w.quotes
      BY <2>0, <3>1, InSeq
    <3> QED BY <1>4, <3>2 DEF Quoting
  <2> DEFINE found == RetiredBy(r, PlaceOf["f1"], w.own)
  <2>2. hits = found
    BY <2>1
  <2>3. /\ found \in Seq(Nat)
        /\ \A k \in 1 .. Len(found) : \E n \in 1 .. Len(facts) :
              facts[n].id = found[k] /\ found[k] \notin w.own /\ Similarity(facts[n].at, PlaceOf["f1"]) >= 60
        /\ Few(facts) => \A n \in QuotedIn(facts) : facts[n].status = "active" /\ facts[n].id \notin w.own =>
              \E k \in 1 .. Len(found) : found[k] = facts[n].id
    <3> DEFINE own == w.own
    <3>1. facts \in Seq(Rows)
      BY <1>3
    <3> HIDE DEF r, own, w, c
    <3>2. LET all == RetiredBy(r, PlaceOf["f1"], own)
          IN  /\ all \in Seq(Nat)
              /\ \A k \in 1 .. Len(all) : \E n \in 1 .. Len(facts) :
                    facts[n].id = all[k] /\ all[k] \notin own /\ Similarity(facts[n].at, PlaceOf["f1"]) >= 60
              /\ Few(facts) => \A n \in QuotedIn(facts) : facts[n].status = "active" /\ facts[n].id \notin own =>
                    \E k \in 1 .. Len(all) : all[k] = facts[n].id
      BY <3>1, RetiredIs, SMTT(60)
    <3> QED BY <3>2, Zenon DEF own
  <2> HIDE DEF found, hits, r, c
  <2>4. v \in Works /\ v.records = w.records /\ v.own = w.own /\ v.quotes = w.quotes /\ v.next = w.next /\ v.hits = found
    BY <1>3, <2>2, <2>3 DEF Works
  <2>5. Step(i, "retire", v) /\ UNCHANGED <<givenVars, storeVars, countVars, troubled>>
    BY <1>1, <1>6
  <2> HIDE DEF v
  <2>6. /\ Inserted(i, v, stored) /\ CorrectionsOf(v, stored) = c /\ Quoting(v, stored)
        /\ ~troubled[i] => OnceAt(i, "retire", v, stored)
    <3>1. /\ Inserted(i, v, stored) /\ CorrectionsOf(v, stored) = Corrections(i) /\ Quoting(v, stored)
          /\ ~troubled[i] => OnceAt(i, "lookup", v, stored) /\ OnceAt(i, "retire", v, stored)
      BY <1>1, <2>4, KeepsQuoting
    <3> QED BY <3>1 DEF c
  <2> HIDE DEF w
  <2>7. DOMAIN found = 1 .. Len(found) /\ DOMAIN facts = 1 .. Len(facts) /\ \A n \in 1 .. Len(facts) : facts[n] \in Rows
    BY <1>3, <2>3, InSeq
  <2>8. Aiming(v, stored)
    <3>1. ASSUME NEW k \in DOMAIN found
          PROVE  found[k] \notin w.own /\ \E row \in stored : row.id = found[k] /\ Similarity(row.at, PlaceOf["f1"]) >= 60
      <4>1. PICK n \in 1 .. Len(facts) : /\ facts[n].id = found[k] /\ found[k] \notin w.own
                                         /\ Similarity(facts[n].at, PlaceOf["f1"]) >= 60
        BY <2>3, <2>7
      <4>2. PICK row \in stored : Same(facts[n], row)
        BY <2>7 DEF MemoryInv, Recorded
      <4>3. row \in Rows /\ row.line = facts[n].line /\ row.id = facts[n].id
        BY <1>3, <4>2 DEF Same
      <4>4. row.at = facts[n].at
        BY <2>7, <4>3, RowIs
      <4> QED BY <4>1, <4>3, <4>4
    <3> QED BY <1>1, <2>4, <2>6, <3>1 DEF Aiming
  <2>9. "retire" \in Stages /\ Held(i, "retire", v, stored) /\ "retire" # "failed"
    BY <2>6, <2>8 DEF Stages, Held
  <2>10. ASSUME Few(facts), NEW n \in Left(i, facts) PROVE \E k \in DOMAIN v.hits : v.hits[k] = facts[n].id
    <3>1. n \in QuotedIn(facts) /\ n \in 1 .. Len(facts) /\ facts[n].from # i /\ facts[n].status = "active"
      BY <2>7 DEF Left, QuotedIn
    <3>2. PICK row \in stored : row.id = facts[n].id /\ row.from = facts[n].from
      BY <2>7, <3>1 DEF MemoryInv, Recorded, Same
    <3>3. facts[n].id \notin w.own
      BY <1>3, <3>1, <3>2 DEF Inserted
    <3> QED BY <2>3, <2>4, <2>7, <2>10, <3>1, <3>3
  <2>11. RetiredAt(i, "retire", v, facts)
    BY <2>10 DEF RetiredAt
  <2> QED BY <1>3, <2>4, <2>5, <2>6, <2>9, <2>11, CalmStep
<1> QED BY <1>2, <1>5, <1>6

\* With its hits retired, a correction leaves nothing that it quotes.
LEMMA NextCorrectionStep ==
  ASSUME MemoryInv, NEW i \in Ingestion, NextCorrection(i)
  PROVE  MemoryInv'
<1> DEFINE w == work[i]
           v == [w EXCEPT !.next = @ + 1]
<1>1. /\ stage[i] = "retire" /\ w.hits = <<>> /\ Step(i, "lookup", v)
      /\ UNCHANGED <<givenVars, storeVars, countVars, troubled>>
  BY DEF NextCorrection
<1>2. w \in Works /\ stage[i] \in Going
  BY <1>1, AmongCorrections
<1>3. v \in Works /\ v.records = w.records /\ v.own = w.own /\ v.quotes = w.quotes
  BY <1>2, NextIs
<1>4. ~troubled[i] => RetiredAt(i, "lookup", v, facts)
  <2> SUFFICES ASSUME ~troubled[i], Few(facts) PROVE Left(i, facts) = {}
    BY DEF RetiredAt
  <2>1. \A n \in Left(i, facts) : \E k \in DOMAIN w.hits : w.hits[k] = facts[n].id
    BY <1>1 DEF MemoryInv, Undisturbed, RetiredAt
  <2> QED BY <1>1, <2>1
<1> HIDE DEF v
<1>5. Inserted(i, v, stored) /\ Quoting(v, stored) /\ (~troubled[i] => OnceAt(i, "lookup", v, stored))
  BY <1>1, <1>3, KeepsQuoting
<1>6. "lookup" \in Stages /\ Held(i, "lookup", v, stored) /\ "lookup" # "failed"
  BY <1>5 DEF Stages, Held
<1> QED BY <1>1, <1>2, <1>3, <1>4, <1>5, <1>6, CalmStep

\* An ingestion is over once each of its corrections is done.
LEMMA AdvanceStep ==
  ASSUME MemoryInv, NEW i \in Ingestion, Advance(i)
  PROVE  MemoryInv'
<1>1. /\ stage[i] = "lookup" /\ work[i].next > Len(Corrections(i)) /\ Step(i, "done", Fresh)
      /\ UNCHANGED <<givenVars, storeVars, countVars, troubled>>
  BY DEF Advance
<1>2. /\ Corrections(i) = CorrectionsOf(work[i], stored) /\ Corrections(i) \in Seq(Records)
      /\ work[i].next \in Nat \ {0} /\ stage[i] \in Going
  BY <1>1, AmongCorrections
<1>3. ASSUME ~troubled[i], Few(facts) PROVE Settled(i, facts)
  <2>1. CASE work[i].next > 1
    <3>1. Left(i, facts) = {}
      BY <1>1, <1>3, <2>1 DEF MemoryInv, Undisturbed, RetiredAt
    <3> QED BY <3>1 DEF Settled
  <2>2. CASE ~(work[i].next > 1)
    <3>1. Len(Corrections(i)) \in Nat
      BY <1>2, InSeq
    <3>2. Len(Corrections(i)) = 0
      BY <1>1, <1>2, <2>2, <3>1
    <3>3. Corrections(i) = <<>>
      BY <1>2, <3>2
    <3> QED BY <1>1, <1>2, <1>3, <3>3, NoCorrection
  <2> QED BY <2>1, <2>2
<1>4. ~troubled[i] => OnceAt(i, "done", Fresh, stored) /\ RetiredAt(i, "done", Fresh, facts)
  BY <1>3 DEF OnceAt, RetiredAt
<1>5. "done" \in Stages /\ Held(i, "done", Fresh, stored) /\ "done" # "failed"
  BY DEF Stages, Held
<1> QED BY <1>1, <1>2, <1>4, <1>5, FreshIs, CalmStep

\* A repeated ingestion has been troubled.
LEMMA RetryStep ==
  ASSUME MemoryInv, NEW i \in Ingestion, RetryIngestion(i)
  PROVE  MemoryInv'
<1>1. /\ stage[i] = "failed" /\ Step(i, "ready", Fresh) /\ retries' = retries + 1
      /\ facts' = facts /\ stored' = stored /\ wiped' = wiped /\ open' = open /\ said' = said /\ troubled' = troubled
  BY DEF RetryIngestion, givenVars, storeVars
<1>2. troubled \in [Ingestion -> BOOLEAN] /\ retries \in Nat /\ troubled[i]
  BY <1>1 DEF MemoryInv, MemoryTyped, FailedIsTroubled
<1>3. retries' \in Nat
  BY <1>1, <1>2
<1>4. /\ "ready" \in Stages /\ "ready" \notin Going /\ "ready" # "failed" /\ Held(i, "ready", Fresh, stored)
      /\ stage[i] \notin {"gone", "done"}
  BY <1>1 DEF Stages, Going, Held
<1> QED BY <1>1, <1>2, <1>3, <1>4, FreshIs, QuietStep

\* An erase empties the table, and what comes after is of ingestions under way.
LEMMA EraseStep ==
  ASSUME MemoryInv, EraseFacts
  PROVE  MemoryInv'
<1>1. /\ facts' = <<>> /\ wiped' = wiped + 1 /\ said' = said /\ work' = work /\ retries' = retries
      /\ stored' = stored /\ troubled' = troubled
      /\ stage' = [i \in Ingestion |-> IF stage[i] \in {"ready", "failed"} THEN "gone" ELSE stage[i]]
      /\ open' = {i \in Ingestion : UnderWay(i)}
  BY DEF EraseFacts, givenVars
<1>2. stage \in [Ingestion -> Stages] /\ wiped \in Nat
  BY DEF MemoryInv, MemoryTyped
<1>3. \A i \in Ingestion : stage'[i] = "gone" \/ (stage'[i] = stage[i] /\ stage[i] \notin {"ready", "failed"})
  BY <1>1
<1>4. MemoryTyped'
  <2>1. stage' \in [Ingestion -> Stages]
    BY <1>1, <1>2 DEF Stages
  <2>2. facts' \in Seq(Rows)
    BY <1>1
  <2>3. open' \subseteq Ingestion /\ wiped' \in Nat
    BY <1>1, <1>2
  <2> QED BY <1>1, <2>1, <2>2, <2>3 DEF MemoryInv, MemoryTyped
<1>5. DOMAIN facts' = {}
  BY <1>1
<1>6. Numbered' /\ Recorded' /\ RetiredForCause' /\ EraseHolds'
  BY <1>1, <1>5 DEF MemoryInv, Numbered, Recorded, RetiredForCause, EraseHolds
<1>7. AllHeld'
  <2>1. ASSUME NEW i \in Ingestion PROVE Held(i, stage'[i], work[i], stored)
    <3>1. CASE stage'[i] = "gone"
      BY <3>1 DEF Held
    <3>2. CASE stage'[i] = stage[i]
      BY <3>2 DEF MemoryInv, AllHeld
    <3> QED BY <1>3, <3>1, <3>2
  <2> QED BY <1>1, <2>1 DEF AllHeld
<1>8. Apart' /\ FailedIsTroubled'
  <2>1. \A i \in Ingestion : stage'[i] \in Going => stage[i] \in Going
    BY <1>3 DEF Going
  <2>2. \A i \in Ingestion : stage'[i] # "failed"
    BY <1>3
  <2> QED BY <1>1, <2>1, <2>2 DEF MemoryInv, Apart, FailedIsTroubled
<1>9. Undisturbed'
  <2>1. ASSUME NEW i \in Ingestion, ~troubled[i]
        PROVE  OnceAt(i, stage'[i], work[i], stored) /\ RetiredAt(i, stage'[i], work[i], facts')
    <3>1. Left(i, facts') = {} /\ Settled(i, facts')
      BY <1>5 DEF Left, QuotedIn, Settled
    <3>2. RetiredAt(i, stage'[i], work[i], facts')
      BY <3>1 DEF RetiredAt
    <3>3. CASE stage'[i] = "gone"
      BY <3>2, <3>3 DEF OnceAt
    <3>4. CASE stage'[i] = stage[i]
      BY <2>1, <3>2, <3>4 DEF MemoryInv, Undisturbed
    <3> QED BY <1>3, <3>3, <3>4
  <2> QED BY <1>1, <2>1 DEF Undisturbed
<1>10. OpenOnly'
  <2>1. ASSUME NEW i \in Ingestion, i \notin open' PROVE stage'[i] \in {"gone", "done"}
    <3>1. ~UnderWay(i)
      BY <1>1, <2>1
    <3> QED BY <1>1, <3>1 DEF UnderWay
  <2> QED BY <2>1 DEF OpenOnly
<1> QED BY <1>4, <1>6, <1>7, <1>8, <1>9, <1>10 DEF MemoryInv

\* One row is retired, whichever ingestion's it is.
RetiredIn(table, x, by) ==
  [n \in DOMAIN table |-> IF table[n].id = x THEN [table[n] EXCEPT !.status = "superseded", !.by = by] ELSE table[n]]

\* It keeps its number, its line and its origin, and the others are as they were.
LEMMA RetiredInIs ==
  ASSUME NEW table \in Seq(Rows), NEW x, NEW by \in Nat
  PROVE  LET all == RetiredIn(table, x, by)
         IN  /\ all \in Seq(Rows) /\ DOMAIN all = DOMAIN table
             /\ \A n \in DOMAIN table : Same(all[n], table[n]) /\ all[n].at = table[n].at /\ all[n].tag = table[n].tag
             /\ \A n \in DOMAIN table : table[n].id = x => all[n].status = "superseded" /\ all[n].by = by
             /\ \A n \in DOMAIN table : table[n].id # x => all[n] = table[n]
<1> DEFINE all == RetiredIn(table, x, by)
<1>1. Len(table) \in Nat /\ DOMAIN table = 1 .. Len(table) /\ \A n \in 1 .. Len(table) : table[n] \in Rows
  BY InSeq
<1>2. /\ DOMAIN all = DOMAIN table /\ all = [n \in 1 .. Len(table) |-> all[n]]
      /\ \A n \in DOMAIN table : all[n] = IF table[n].id = x THEN [table[n] EXCEPT !.status = "superseded", !.by = by] ELSE table[n]
  BY <1>1 DEF RetiredIn
<1> HIDE DEF all
<1>3. ASSUME NEW n \in DOMAIN table, table[n].id = x
      PROVE  all[n] \in Rows /\ Same(all[n], table[n]) /\ all[n].status = "superseded" /\ all[n].by = by
  <2> DEFINE other == [table[n] EXCEPT !.status = "superseded", !.by = by]
  <2>1. table[n] \in Rows
    BY <1>1
  <2>2. other \in Rows /\ Same(other, table[n]) /\ other.status = "superseded" /\ other.by = by
    BY <2>1, RowRetired
  <2>3. all[n] = other
    BY <1>2, <1>3
  <2> QED BY <2>2, <2>3
<1>4. ASSUME NEW n \in DOMAIN table, table[n].id # x
      PROVE  all[n] \in Rows /\ Same(all[n], table[n]) /\ all[n] = table[n]
  BY <1>1, <1>2, <1>4 DEF Same
<1>5. \A n \in DOMAIN table : all[n] \in Rows /\ Same(all[n], table[n])
  BY <1>3, <1>4
<1>6. \A n \in DOMAIN table : all[n].at = table[n].at /\ all[n].tag = table[n].tag
  <2> TAKE n \in DOMAIN table
  <2>1. all[n] \in Rows /\ table[n] \in Rows /\ all[n].line = table[n].line
    BY <1>1, <1>5 DEF Same
  <2> QED BY <2>1, RowIs
<1>7. all \in Seq(Rows)
  BY <1>1, <1>2, <1>5, IsSeq
<1> QED BY <1>2, <1>3, <1>4, <1>5, <1>6, <1>7 DEF all

\* A retired row is no row of the ingestion, and nearly what the correction quotes.
LEMMA RetireStep ==
  ASSUME MemoryInv, NEW i \in Ingestion, Retire(i)
  PROVE  MemoryInv'
<1> DEFINE w == work[i]
           c == Corrections(i)
           x == Head(w.hits)
           v == [w EXCEPT !.hits = Tail(@)]
           cid == CorrectionId(i)
           all == RetiredIn(facts, x, cid)
<1>1. /\ stage[i] = "retire" /\ w.hits # <<>> /\ Step(i, "retire", v) /\ stored' = stored
      /\ said' = said /\ retries' = retries /\ wiped' = wiped /\ open' = open
      /\ \/ facts' = all /\ troubled' = troubled
         \/ Trouble(i) /\ facts' = facts
  BY DEF Retire, RetiredIn, givenVars, countVars
<1>2. /\ w \in Works /\ facts \in Seq(Rows) /\ stored \subseteq Rows /\ Inserted(i, w, stored)
      /\ c = CorrectionsOf(w, stored) /\ c \in Seq(Records) /\ w.next \in Nat \ {0} /\ stage[i] \in Going
  BY <1>1, AmongCorrections
<1>3. /\ Quoting(w, stored) /\ Aiming(w, stored) /\ troubled \in [Ingestion -> BOOLEAN] /\ retries \in Nat
      /\ stage \in [Ingestion -> Stages] /\ work \in [Ingestion -> Works]
  BY <1>1 DEF MemoryInv, MemoryTyped, AllHeld, Held
<1>4. w.hits \in Seq(Nat) /\ Len(w.hits) \in Nat \ {0} /\ DOMAIN w.hits = 1 .. Len(w.hits) /\ x = w.hits[1]
  <2>1. w.hits \in Seq(Nat)
    BY <1>2 DEF Works
  <2> HIDE DEF w
  <2> QED BY <1>1, <2>1
<1>5. /\ v \in Works /\ v.records = w.records /\ v.own = w.own /\ v.quotes = w.quotes /\ v.next = w.next
      /\ v.hits = Tail(w.hits)
  <2>1. Tail(w.hits) \in Seq(Nat)
    BY <1>4
  <2> QED BY <1>2, <2>1 DEF Works
<1>6. /\ \A k \in DOMAIN v.hits : k + 1 \in DOMAIN w.hits /\ v.hits[k] = w.hits[k + 1]
      /\ \A k \in DOMAIN w.hits : k # 1 => k - 1 \in DOMAIN v.hits /\ v.hits[k - 1] = w.hits[k]
  <2> DEFINE h == w.hits
  <2>1. h \in Seq(Nat) /\ Len(h) \in Nat \ {0} /\ DOMAIN h = 1 .. Len(h)
    BY <1>4
  <2> HIDE DEF h
  <2>2. Len(Tail(h)) = Len(h) - 1 /\ DOMAIN Tail(h) = 1 .. (Len(h) - 1) /\ \A k \in 1 .. (Len(h) - 1) : Tail(h)[k] = h[k + 1]
    BY <2>1
  <2>3. v.hits = Tail(h)
    BY <1>5 DEF h
  <2>4. /\ \A k \in DOMAIN Tail(h) : k + 1 \in DOMAIN h /\ Tail(h)[k] = h[k + 1]
        /\ \A k \in DOMAIN h : k # 1 => k - 1 \in DOMAIN Tail(h) /\ Tail(h)[k - 1] = h[k]
    BY <2>1, <2>2
  <2> HIDE DEF v
  <2> QED BY <2>3, <2>4 DEF h
<1> HIDE DEF v
<1>7. /\ Inserted(i, v, stored) /\ CorrectionsOf(v, stored) = c /\ Quoting(v, stored)
      /\ ~troubled[i] => OnceAt(i, "lookup", v, stored) /\ OnceAt(i, "retire", v, stored)
  BY <1>1, <1>5, KeepsQuoting
<1>8. Held(i, "retire", v, stored)
  <2>1. Aiming(v, stored)
    BY <1>2, <1>3, <1>5, <1>6, <1>7 DEF Aiming
  <2> QED BY <1>7, <2>1 DEF Held
<1>9. "retire" \in Stages /\ "retire" # "failed" /\ stage[i] \notin {"gone", "done"}
  BY <1>1 DEF Stages
<1>10. CASE Trouble(i) /\ facts' = facts
  <2>1. troubled' = [troubled EXCEPT ![i] = TRUE]
    BY <1>10 DEF Trouble
  <2>2. troubled' \in [Ingestion -> BOOLEAN] /\ troubled'[i] /\ \A o \in Ingestion : troubled[o] => troubled'[o]
    BY <1>3, <2>1
  <2> HIDE DEF w
  <2> QED BY <1>1, <1>2, <1>3, <1>5, <1>8, <1>9, <1>10, <2>2, QuietStep
<1>11. PICK row0 \in stored : row0.id = cid /\ row0.id \in w.own /\ row0.line = "c"
  <2>1. Len(c) \in Nat /\ w.next \in 1 .. Len(c)
    <3>1. Len(c) \in Nat
      BY <1>2, InSeq
    <3> QED BY <1>2, <1>3, <3>1 DEF Aiming
  <2>2. c[w.next].line = "c" /\ \E row \in stored : row.id \in w.own /\ row.line = "c"
    <3> DEFINE s == CorrectionsOf(w, stored)
    <3>1. \A k \in 1 .. Len(s) : s[k].line = "c" /\ \E row \in stored : row.id \in w.own /\ row.line = "c"
      BY <1>2, CorrectionsAre
    <3> HIDE DEF s
    <3>2. c = s
      BY <1>2 DEF s
    <3> QED BY <2>1, <3>1, <3>2
  <2>3. cid = (CHOOSE row \in stored : row.id \in w.own /\ row.line = c[w.next].line).id
    BY DEF CorrectionId
  <2> HIDE DEF c, w, cid
  <2>4. \E row \in stored : row.id \in w.own /\ row.line = c[w.next].line
    BY <2>2
  <2> QED BY <2>2, <2>3, <2>4
<1>12. row0 \in Rows /\ cid \in Nat /\ row0.tag = "CORRECTION" /\ row0.from = i
  <2>1. row0 \in Rows
    BY <1>2
  <2>2. row0.id \in Nat /\ row0.tag = "CORRECTION"
    BY <1>11, <2>1, RowIs
  <2>3. row0.from = i
    BY <1>2, <1>11 DEF Inserted
  <2> QED BY <1>11, <2>1, <2>2, <2>3
<1> HIDE DEF w, c, cid, x
<1>13. /\ all \in Seq(Rows) /\ DOMAIN all = DOMAIN facts
       /\ \A n \in DOMAIN facts : Same(all[n], facts[n]) /\ all[n].at = facts[n].at /\ all[n].tag = facts[n].tag
       /\ \A n \in DOMAIN facts : facts[n].id = x => all[n].status = "superseded" /\ all[n].by = cid
       /\ \A n \in DOMAIN facts : facts[n].id # x => all[n] = facts[n]
  BY <1>2, <1>12, RetiredInIs
<1> HIDE DEF all
<1>14. ASSUME facts' = all, troubled' = troubled PROVE MemoryInv'
  <2>1. /\ stage' = [stage EXCEPT ![i] = "retire"] /\ work' = [work EXCEPT ![i] = v]
    BY <1>1 DEF Step
  <2>2. /\ stage' = stage /\ work'[i] = v /\ \A o \in Ingestion \ {i} : work'[o] = work[o]
        /\ work' \in [Ingestion -> Works]
    BY <1>1, <1>3, <1>5, <2>1
  <2>3. MemoryTyped'
    BY <1>1, <1>13, <1>14, <2>2 DEF MemoryInv, MemoryTyped
  <2>4. Numbered' /\ Apart' /\ FailedIsTroubled' /\ OpenOnly'
    BY <1>1, <1>14, <2>2 DEF MemoryInv, Numbered, Apart, FailedIsTroubled, OpenOnly
  <2>5. Recorded'
    <3> SUFFICES ASSUME NEW n \in DOMAIN all PROVE \E row \in stored : Same(all[n], row)
      BY <1>1, <1>14 DEF Recorded, Same
    <3>1. PICK row \in stored : Same(facts[n], row)
      BY <1>13 DEF MemoryInv, Recorded
    <3> QED BY <1>13, <3>1 DEF Same
  <2>6. AllHeld'
    <3>1. ASSUME NEW o \in Ingestion PROVE Held(o, stage[o], work'[o], stored)
      <4>1. CASE o = i
        BY <1>1, <1>8, <2>2, <4>1
      <4>2. CASE o # i
        BY <2>2, <4>2 DEF MemoryInv, AllHeld
      <4> QED BY <4>1, <4>2
    <3> QED BY <1>1, <2>2, <3>1 DEF AllHeld
  <2>7. QuotedIn(all) = QuotedIn(facts) /\ \A o : Left(o, all) \subseteq Left(o, facts)
    <3>1. QuotedIn(all) = QuotedIn(facts)
      BY <1>13 DEF QuotedIn
    <3>2. ASSUME NEW o, NEW n \in Left(o, all) PROVE n \in Left(o, facts)
      <4>1. n \in QuotedIn(facts) /\ n \in DOMAIN facts /\ all[n].from # o /\ all[n].status = "active"
        BY <3>1, <3>2 DEF Left, QuotedIn
      <4>2. all[n] = facts[n]
        BY <1>13, <4>1
      <4> QED BY <4>1, <4>2 DEF Left
    <3> QED BY <3>1, <3>2
  <2>8. Few(all) <=> Few(facts)
    BY <2>7 DEF Few
  <2>9. Undisturbed'
    <3>1. ASSUME NEW o \in Ingestion, ~troubled[o]
          PROVE  OnceAt(o, stage[o], work'[o], stored) /\ RetiredAt(o, stage[o], work'[o], all)
      <4>1. OnceAt(o, stage[o], work[o], stored) /\ RetiredAt(o, stage[o], work[o], facts)
        BY <3>1 DEF MemoryInv, Undisturbed
      <4>2. CASE o = i
        <5>1. ASSUME Few(all), NEW n \in Left(i, all) PROVE \E k \in DOMAIN v.hits : v.hits[k] = all[n].id
          <6>1. n \in Left(i, facts) /\ n \in DOMAIN facts /\ all[n].status = "active"
            BY <1>13, <2>7, <5>1 DEF Left, QuotedIn
          <6>2. facts[n].id # x /\ all[n].id = facts[n].id
            BY <1>13, <6>1
          <6>3. PICK k \in DOMAIN w.hits : w.hits[k] = facts[n].id
            BY <1>1, <2>8, <4>1, <4>2, <5>1, <6>1 DEF RetiredAt, w
          <6>4. k # 1
            BY <1>4, <6>2, <6>3
          <6> QED BY <1>6, <6>2, <6>3, <6>4
        <5>2. RetiredAt(i, "retire", v, all)
          BY <5>1 DEF RetiredAt
        <5> QED BY <1>1, <1>7, <2>2, <3>1, <4>2, <5>2
      <4>3. CASE o # i
        <5>1. stage[o] \notin Going
          BY <1>2, <3>1, <4>3 DEF MemoryInv, Apart
        <5>2. stage[o] = "done" /\ Few(all) => Settled(o, all)
          <6> SUFFICES ASSUME stage[o] = "done", Few(all), NEW n \in DOMAIN all, all[n].from = o, all[n].tag = "CORRECTION",
                              NEW m \in Left(o, all), m < n
                       PROVE  FALSE
            BY DEF Settled
          <6>1. Settled(o, facts)
            BY <2>8, <4>1 DEF RetiredAt
          <6>2. n \in DOMAIN facts /\ facts[n].from = o /\ facts[n].tag = "CORRECTION" /\ m \in Left(o, facts)
            BY <1>13, <2>7 DEF Same
          <6> QED BY <6>1, <6>2 DEF Settled
        <5>3. RetiredAt(o, stage[o], work[o], all)
          BY <5>1, <5>2 DEF RetiredAt, Going
        <5> QED BY <2>2, <4>1, <4>3, <5>3
      <4> QED BY <4>2, <4>3
    <3> QED BY <1>1, <1>14, <2>2, <3>1 DEF Undisturbed
  <2>10. RetiredForCause'
    <3>1. ASSUME NEW n \in DOMAIN all, all[n].status = "superseded"
          PROVE  \E d \in stored : /\ d.id = all[n].by /\ d.tag = "CORRECTION"
                                   /\ Similarity(all[n].at, PlaceOf["f1"]) >= 60
                                   /\ all[n].id > d.id => all[n].from # d.from
      <4>1. n \in DOMAIN facts /\ Same(all[n], facts[n]) /\ all[n].at = facts[n].at
        BY <1>13
      <4>2. CASE facts[n].id # x
        BY <1>13, <3>1, <4>1, <4>2 DEF MemoryInv, RetiredForCause
      <4>3. CASE facts[n].id = x
        <5>1. PICK row \in stored : row.id = x /\ Similarity(row.at, PlaceOf["f1"]) >= 60 /\ x \notin w.own
          BY <1>3, <1>4 DEF Aiming
        <5>2. PICK other \in stored : Same(facts[n], other)
          BY <4>1 DEF MemoryInv, Recorded
        <5>3. other = row
          BY <4>3, <5>1, <5>2 DEF MemoryInv, Numbered, Same
        <5>4. row \in Rows /\ facts[n] \in Rows /\ row.line = facts[n].line /\ row.from = facts[n].from
          BY <1>2, <4>1, <5>2, <5>3, InSeq DEF Same
        <5>5. facts[n].at = row.at /\ row.id \in Nat
          BY <5>4, RowIs
        <5>6. all[n].id = row.id /\ all[n].from = row.from /\ all[n].by = row0.id
          BY <1>11, <1>13, <4>1, <4>3, <5>1, <5>4 DEF Same
        <5>7. row.from = i => row.id < row0.id
          BY <1>2, <1>11, <5>1 DEF Inserted
        <5>8. row0.id \in Nat
          BY <1>11, <1>12
        <5>9. all[n].id > row0.id => all[n].from # row0.from
          <6> SUFFICES ASSUME row.id > row0.id, row.from = i PROVE FALSE
            BY <1>12, <5>6
          <6> QED BY <5>5, <5>7, <5>8
        <5> QED BY <1>12, <4>1, <5>1, <5>5, <5>6, <5>9
      <4> QED BY <4>2, <4>3
    <3> QED BY <1>1, <1>14, <3>1 DEF RetiredForCause
  <2>11. EraseHolds'
    <3>1. \A n \in DOMAIN all : all[n].from = facts[n].from /\ n \in DOMAIN facts
      BY <1>13 DEF Same
    <3> QED BY <1>1, <1>14, <3>1 DEF MemoryInv, EraseHolds
  <2> QED BY <2>3, <2>4, <2>5, <2>6, <2>9, <2>10, <2>11 DEF MemoryInv
<1> QED BY <1>1, <1>10, <1>14

\* The invariant holds at the start,
LEMMA FirstState ==
  ASSUME FactsInit
  PROVE  MemoryInv
<1>1. /\ said \in Sayings /\ facts = <<>> /\ stage = [i \in Ingestion |-> "ready"] /\ work = [i \in Ingestion |-> Fresh]
      /\ retries = 0 /\ wiped = 0 /\ stored = {} /\ open = {} /\ troubled = [i \in Ingestion |-> FALSE]
  BY DEF FactsInit
<1>2. MemoryTyped
  <2>1. said \in [Ingestion -> Seq(Told)]
    BY <1>1, SayingsAssumption DEF Told
  <2>2. stage \in [Ingestion -> Stages] /\ work \in [Ingestion -> Works] /\ troubled \in [Ingestion -> BOOLEAN]
    BY <1>1, FreshIs DEF Stages
  <2>3. facts \in Seq(Rows) /\ retries \in Nat /\ wiped \in Nat /\ open \subseteq Ingestion
    BY <1>1
  <2>4. stored \subseteq Rows /\ IsFiniteSet(stored)
    BY <1>1, FS_EmptySet
  <2> QED BY <2>1, <2>2, <2>3, <2>4 DEF MemoryTyped
<1>3. DOMAIN facts = {}
  BY <1>1
<1>4. Numbered /\ Recorded /\ RetiredForCause /\ EraseHolds /\ OpenOnly
  BY <1>1, <1>3 DEF Numbered, Recorded, RetiredForCause, EraseHolds, OpenOnly
<1>5. AllHeld /\ Apart /\ FailedIsTroubled
  BY <1>1 DEF AllHeld, Held, Apart, FailedIsTroubled, Going
<1>6. Undisturbed
  <2>1. \A i \in Ingestion : OnceAt(i, stage[i], work[i], stored) /\ RetiredAt(i, stage[i], work[i], facts)
    BY <1>1 DEF OnceAt, RetiredAt
  <2> QED BY <2>1 DEF Undisturbed
<1> QED BY <1>2, <1>4, <1>5, <1>6 DEF MemoryInv

\* and after every step.
LEMMA NextState ==
  ASSUME MemoryInv, [FactsNext]_factsVars
  PROVE  MemoryInv'
<1>1. ASSUME NEW i \in Ingestion,
             \/ BeginIngestion(i) \/ Extract(i) \/ Embed(i) \/ ReadKnown(i) \/ Probe(i) \/ Insert(i)
             \/ EmbedQuotes(i) \/ LookUp(i) \/ Retire(i) \/ NextCorrection(i) \/ Advance(i)
             \/ RetryIngestion(i)
      PROVE  MemoryInv'
  BY <1>1, BeginStep, ExtractStep, EmbedStep, KnownStep, ProbeStep, InsertStep, EmbedQuotesStep, LookUpStep,
     RetireStep, NextCorrectionStep, AdvanceStep, RetryStep
<1>2. CASE UNCHANGED factsVars
  <2>1. /\ said' = said /\ facts' = facts /\ stage' = stage /\ work' = work /\ retries' = retries /\ wiped' = wiped
        /\ stored' = stored /\ open' = open /\ troubled' = troubled
    BY <1>2 DEF factsVars
  <2>2. MemoryTyped' /\ Numbered' /\ Recorded' /\ AllHeld'
    BY <2>1 DEF MemoryInv, MemoryTyped, Numbered, Recorded, AllHeld
  <2>3. Apart' /\ FailedIsTroubled' /\ Undisturbed'
    BY <2>1 DEF MemoryInv, Apart, FailedIsTroubled, Undisturbed
  <2>4. RetiredForCause' /\ EraseHolds' /\ OpenOnly'
    BY <2>1 DEF MemoryInv, RetiredForCause, EraseHolds, OpenOnly
  <2> QED BY <2>2, <2>3, <2>4 DEF MemoryInv
<1>3. CASE EraseFacts
  BY <1>3, EraseStep
<1> QED BY <1>1, <1>2, <1>3 DEF FactsNext

\* The invariant holds whatever the sessions said, however many of a user's
\* ingestions overlap and whatever fails of them.
THEOREM MemoryStands == FactsSpec => []MemoryInv
<1>1. FactsInit => MemoryInv
  BY FirstState
<1>2. MemoryInv /\ [FactsNext]_factsVars => MemoryInv'
  BY NextState
<1> QED BY <1>1, <1>2, PTL DEF FactsSpec

\* The invariant says what the memory is to keep.
LEMMA KeptIsMeant ==
  ASSUME MemoryInv
  PROVE  MemoryIsKept
<1>1. stored \subseteq Rows /\ facts \in Seq(Rows)
  BY DEF MemoryInv, MemoryTyped
<1>2. VectorsAreTheirOwn
  BY <1>1, RowIs DEF VectorsAreTheirOwn
<1>3. KeptOrKnown
  <2> SUFFICES ASSUME NEW i \in Ingestion, stage[i] = "lookup", NEW n \in DOMAIN work[i].records
               PROVE  LET r == work[i].records[n]
                      IN  \E row \in stored : \/ row.line = r.line
                                              \/ /\ row.tag = r.tag
                                                 /\ Similarity(row.at, PlaceOf[r.line]) >= 93
    BY DEF KeptOrKnown
  <2>1. Says(stored, work[i].records[n])
    BY DEF MemoryInv, AllHeld, Held, Inserted
  <2> QED BY <2>1 DEF Says
<1>4. SearchTellsRetired
  <2> SUFFICES ASSUME NEW query \in Queries
               PROVE  LET found == searchSupabase(query)
                      IN  \A m, n \in DOMAIN found :
                            /\ found[n].label = found[n].row.status
                            /\ (m < n /\ found[m].row.line = found[n].row.line
                                  /\ found[n].row.status = "active") => found[m].row.status = "active"
    BY DEF SearchTellsRetired
  <2> QED BY <1>1, SearchIs
<1>5. CorrectionRetires
  <2>1. ASSUME NEW i \in Ingestion, stage[i] = "done", ~troubled[i], Cardinality(QuotedIn(facts)) <= 5,
               NEW n \in DOMAIN facts, facts[n].from = i, facts[n].tag = "CORRECTION",
               NEW m \in QuotedIn(facts), m < n, facts[m].from # i, facts[m].status = "active"
        PROVE  FALSE
    <3>1. Settled(i, facts)
      BY <2>1 DEF MemoryInv, Undisturbed, RetiredAt, Few
    <3>2. m \in Left(i, facts)
      BY <2>1 DEF Left
    <3> QED BY <2>1, <3>1, <3>2 DEF Settled
  <2>2. QuotedIn(facts) = {n \in DOMAIN facts : Similarity(facts[n].at, PlaceOf["f1"]) >= 85}
    BY DEF QuotedIn
  <2> QED BY <2>1, <2>2 DEF CorrectionRetires
<1>6. RetiredForCause /\ EraseHolds
  BY DEF MemoryInv
<1> QED BY <1>2, <1>3, <1>4, <1>5, <1>6 DEF MemoryIsKept, FactsSound

\* Of any number of ingestions of one user, with any of the sayings, any call of
\* which may fail, and with erases between: vectors belong to their rows, a row
\* is retired only for cause, no record is lost once its turn counts as
\* distilled, an erase holds, a search tells what is retired, and a correction
\* that nothing disturbed has retired what it quotes.
THEOREM MemoryStaysKept == FactsSpec => []MemoryIsKept
<1>1. MemoryInv => MemoryIsKept
  BY KeptIsMeant
<1> QED BY <1>1, MemoryStands, PTL
=============================================================================
