-------------------------- MODULE HashTableProofs --------------------------
(***************************************************************************)
(* The hash table is a map with an iterator, for any keys, any values, any *)
(* number of first buckets and any number of resizes.                      *)
(***************************************************************************)
EXTENDS HashTable, SequenceTheorems, FiniteSetTheorems, WellFoundedInduction, TLAPS

(* The remainder of a division by n is below n. *)
LEMMA ModRange == ASSUME NEW k \in Nat, NEW n \in Nat \ {0} PROVE k % n \in 0..(n - 1)
BY SMT

(* A set of numbers has a least one (SMT reasons about no well-founded *)
(* order).                                                             *)
LEMMA LeastNatural ==
    ASSUME NEW T \in SUBSET Nat, T # {} PROVE \E x \in T : \A y \in T : x <= y
<1> DEFINE R == {ss \in Nat \X Nat : ss[1] < ss[2]}
<1>1. IsWellFoundedOn(R, Nat)
  BY NatLessThanWellFounded DEF OpToRel
<1>2. \A x \in Nat, y \in Nat : y < x => <<y, x>> \in R
  OBVIOUS
<1> HIDE DEF R
<1>3. PICK x \in T : \A y \in T : ~(<<y, x>> \in R)
  BY <1>1, WFMin
<1>4. \A y \in T : ~(y < x)
  BY <1>2, <1>3
<1> QED
  BY <1>4

(* What holds at 0, and at i + 1 when at i, holds everywhere up to n. *)
LEMMA FromZero ==
    ASSUME NEW n \in Nat, NEW T \in SUBSET (0..n), 0 \in T,
           \A i \in 0..(n - 1) : i \in T => i + 1 \in T
    PROVE  T = 0..n
<1> SUFFICES ASSUME T # 0..n PROVE FALSE
  OBVIOUS
<1>1. PICK x \in (0..n) \ T : \A y \in (0..n) \ T : x <= y
  <2>1. T \subseteq 0..n
    OBVIOUS
  <2>2. \E x \in 0..n : x \notin T
    BY <2>1, T # 0..n, Zenon
  <2>3. (0..n) \ T \in SUBSET Nat /\ (0..n) \ T # {}
    BY <2>2
  <2> QED
    BY <2>3, LeastNatural
<1>2. x # 0 /\ x - 1 \in 0..(n - 1) /\ x - 1 \in 0..n
  BY <1>1
<1>3. x - 1 \in T
  BY <1>1, <1>2
<1> QED
  BY <1>1, <1>2, <1>3

(* FlattenSeq *)
Joined(q, g, n) == g = [i \in 1..n |-> IF i = 1 THEN q[i] ELSE g[i - 1] \o q[i]]

(* There is a function that joins the first sequences of q, for every n. *)
LEMMA JoinedExists ==
    ASSUME NEW q, NEW n \in Nat
    PROVE  \E g : Joined(q, g, n)
<1> DEFINE T == {i \in 0..n : \E g : Joined(q, g, i)}
<1>1. 0 \in T
  <2>1. Joined(q, << >>, 0)
    BY DEF Joined
  <2> QED
    BY <2>1
<1>2. ASSUME NEW i \in 0..(n - 1), i \in T PROVE i + 1 \in T
  <2>1. PICK g : Joined(q, g, i)
    BY <1>2
  <2> DEFINE h == [j \in 1..(i + 1) |-> IF j = 1 THEN q[j] ELSE g[j - 1] \o q[j]]
  <2>a. \A j \in 1..i : g[j] = IF j = 1 THEN q[j] ELSE g[j - 1] \o q[j]
    <3> DEFINE r == [j \in 1..i |-> IF j = 1 THEN q[j] ELSE g[j - 1] \o q[j]]
    <3>1. g = r
      BY <2>1 DEF Joined
    <3>2. \A j \in 1..i : r[j] = IF j = 1 THEN q[j] ELSE g[j - 1] \o q[j]
      OBVIOUS
    <3> HIDE DEF r
    <3> QED
      BY <3>1, <3>2
  <2>b. \A j \in 1..(i + 1) : h[j] = IF j = 1 THEN q[j] ELSE g[j - 1] \o q[j]
    OBVIOUS
  <2>2. \A j \in 1..i : h[j] = g[j]
    <3> HIDE DEF h
    <3> QED
      BY <2>a, <2>b
  <2>3. \A j \in 1..(i + 1) : h[j] = IF j = 1 THEN q[j] ELSE h[j - 1] \o q[j]
    <3> HIDE DEF h
    <3> SUFFICES ASSUME NEW j \in 1..(i + 1), j # 1 PROVE h[j - 1] = g[j - 1]
      BY <2>b
    <3> QED
      BY <2>2
  <2>4. h = [j \in 1..(i + 1) |-> h[j]]
    OBVIOUS
  <2>5. Joined(q, h, i + 1)
    <3> HIDE DEF h
    <3> QED
      BY <2>3, <2>4 DEF Joined
  <2> QED
    BY <2>5
<1>3. T = 0..n
  <2> HIDE DEF T
  <2>1. T \in SUBSET (0..n)
    BY DEF T
  <2> QED
    BY <1>1, <1>2, <2>1, FromZero
<1> QED
  BY <1>3

(* FlattenSeq is that function's value at the end. *)
LEMMA FlattenParts ==
    ASSUME NEW q, Len(q) \in Nat \ {0}
    PROVE  \E g : Joined(q, g, Len(q)) /\ FlattenSeq(q) = g[Len(q)]
<1> DEFINE f == CHOOSE g : g = [i \in 1..Len(q) |-> IF i = 1 THEN q[i] ELSE g[i - 1] \o q[i]]
<1>1. FlattenSeq(q) = f[Len(q)]
  BY DEF FlattenSeq
<1>2. Joined(q, f, Len(q))
  BY JoinedExists DEF Joined
<1> QED
  BY <1>1, <1>2

(* FoldLeft *)
Most(s) == CHOOSE x \in s : \A y \in s : x >= y

Folded(N, q, g, n) ==
    g = [s \in SUBSET (1..n) |-> IF s = {} THEN EmptyBuckets(N)
                                 ELSE Put(g[s \ {Most(s)}], N, q[Most(s)])]

Rehash(N, q) == FoldLeft(LAMBDA bs, e : Put(bs, N, e), EmptyBuckets(N), q)

(* The fold over the pairs is a function on sets of positions at the whole *)
(* set.                                                                    *)
LEMMA RehashIs ==
    ASSUME NEW N, NEW q, NEW S, NEW n \in Nat, q \in Seq(S), n = Len(q)
    PROVE  Rehash(N, q) = (CHOOSE g : Folded(N, q, g, n))[1..n]
<1>1. DOMAIN q = 1..n
  OBVIOUS
<1> QED
  BY <1>1, Zenon DEF Rehash, FoldLeft, MapThenFoldSet, Folded, Most, Max

(* The largest of some of the numbers to n + 1; without it they go to n. *)
LEMMA MostIs ==
    ASSUME NEW n \in Nat, NEW s \in SUBSET (1..n), s # {}
    PROVE  Most(s) \in s /\ \A y \in s : Most(s) >= y
<1> DEFINE T == {n - y : y \in s}
<1>0. s \subseteq 1..n
  OBVIOUS
<1>1. T \in SUBSET Nat /\ T # {}
  <2>1. \A y \in s : n - y \in Nat
    BY <1>0
  <2> QED
    BY <2>1
<1>2. PICK x \in T : \A y \in T : x <= y
  <2> HIDE DEF T
  <2> QED
    BY <1>1, LeastNatural
<1>3. n - x \in s /\ \A y \in s : n - x >= y
  <2>1. PICK z \in s : x = n - z
    OBVIOUS
  <2>2. n - x = z
    BY <2>1
  <2>3. \A y \in s : x <= n - y
    BY <1>2
  <2> QED
    BY <2>1, <2>2, <2>3
<1> QED
  BY <1>3 DEF Most

(* The largest of the numbers to n + 1, and what is left without it. *)
LEMMA MostOfPrefix ==
    ASSUME NEW n \in Nat PROVE Most(1..(n + 1)) = n + 1 /\ (1..(n + 1)) \ {n + 1} = 1..n
<1>1. Most(1..(n + 1)) \in 1..(n + 1) /\ \A y \in 1..(n + 1) : Most(1..(n + 1)) >= y
  <2>1. 1..(n + 1) \in SUBSET (1..(n + 1)) /\ 1..(n + 1) # {} /\ n + 1 \in Nat
    OBVIOUS
  <2> DEFINE s == 1..(n + 1)
  <2> HIDE DEF s
  <2>2. s \in SUBSET (1..(n + 1)) /\ s # {} /\ n + 1 \in Nat
    BY <2>1 DEF s
  <2>3. Most(s) \in s /\ \A y \in s : Most(s) >= y
    BY <2>2, MostIs
  <2> QED
    BY <2>3 DEF s
<1> QED
  BY <1>1

(* There is such a function, for every sequence and every n. *)
LEMMA FoldedExists ==
    ASSUME NEW N, NEW q, NEW n \in Nat
    PROVE  \E g : Folded(N, q, g, n)
<1> DEFINE T == {i \in 0..n : \E g : Folded(N, q, g, i)}
<1>1. 0 \in T
  <2> DEFINE g == [s \in {{}} |-> EmptyBuckets(N)]
  <2>0. SUBSET (1..0) = {{}}
    OBVIOUS
  <2>1. Folded(N, q, g, 0)
    BY <2>0 DEF Folded
  <2> QED
    BY <2>1
<1>2. ASSUME NEW i \in 0..(n - 1), i \in T PROVE i + 1 \in T
  <2>1. PICK g : Folded(N, q, g, i)
    BY <1>2
  <2> DEFINE Body(f, s) == IF s = {} THEN EmptyBuckets(N)
                           ELSE Put(f[s \ {Most(s)}], N, q[Most(s)])
             h == [s \in SUBSET (1..(i + 1)) |-> Body(g, s)]
  <2>2. \A s \in SUBSET (1..i) : g[s] = Body(g, s)
    <3> DEFINE r == [s \in SUBSET (1..i) |-> Body(g, s)]
    <3>1. g = r
      BY <2>1 DEF Folded
    <3>2. \A s \in SUBSET (1..i) : r[s] = Body(g, s)
      <4> HIDE DEF Body
      <4> QED
        OBVIOUS
    <3> HIDE DEF r
    <3> QED
      BY <3>1, <3>2
  <2>3. \A s \in SUBSET (1..(i + 1)) : h[s] = Body(g, s)
    <3> HIDE DEF Body
    <3> QED
      OBVIOUS
  <2>4. h = [s \in SUBSET (1..(i + 1)) |-> h[s]]
    <3> HIDE DEF Body
    <3> QED
      OBVIOUS
  <2>5. \A s \in SUBSET (1..i) : h[s] = g[s]
    <3> HIDE DEF h, Body
    <3>1. \A s \in SUBSET (1..i) : s \in SUBSET (1..(i + 1))
      OBVIOUS
    <3> QED
      BY <2>2, <2>3, <3>1
  <2>6. \A s \in SUBSET (1..(i + 1)) : h[s] = Body(h, s)
    <3> HIDE DEF h
    <3> SUFFICES ASSUME NEW s \in SUBSET (1..(i + 1)), s # {}
                 PROVE  h[s \ {Most(s)}] = g[s \ {Most(s)}]
      BY <2>3
    <3>1. Most(s) \in s /\ \A y \in s : Most(s) >= y
      BY SMTT(20), MostIs
    <3>2. s \ {Most(s)} \in SUBSET (1..i)
      <4>1. s \subseteq 1..(i + 1)
        OBVIOUS
      <4>2. ASSUME NEW y \in s, y # Most(s) PROVE y \in 1..i
        <5>1. y \in 1..(i + 1) /\ Most(s) \in 1..(i + 1) /\ Most(s) >= y
          BY <3>1, <4>1
        <5> HIDE DEF h, T
        <5>2. i \in Nat
          BY <1>2
        <5> QED
          BY <4>2, <5>1, <5>2
      <4> QED
        BY <4>2
    <3> QED
      BY <2>5, <3>2
  <2>7. Folded(N, q, h, i + 1)
    <3> HIDE DEF h
    <3> QED
      BY <2>4, <2>6 DEF Folded
  <2>8. i + 1 \in 0..n
    OBVIOUS
  <2> HIDE DEF h
  <2> QED
    BY <2>7, <2>8
<1>3. T = 0..n
  <2> HIDE DEF T
  <2>1. T \in SUBSET (0..n)
    BY DEF T
  <2> QED
    BY <1>1, <1>2, <2>1, FromZero
<1> QED
  BY <1>3

(* The tables a resize goes through. *)
LEMMA RehashSteps ==
    ASSUME NEW N, NEW S, NEW q \in Seq(S)
    PROVE  \E f : /\ f[0] = EmptyBuckets(N)
                  /\ \A i \in 0..(Len(q) - 1) : f[i + 1] = Put(f[i], N, q[i + 1])
                  /\ Rehash(N, q) = f[Len(q)]
<1> DEFINE n == Len(q)
           g == CHOOSE g : Folded(N, q, g, n)
           f == [i \in 0..n |-> g[1..i]]
<1>1. n \in Nat
  OBVIOUS
<1>2. Rehash(N, q) = g[1..n]
  BY <1>1, RehashIs
<1>3. Folded(N, q, g, n)
  <2> HIDE DEF n
  <2> QED
    BY <1>1, FoldedExists
<1> HIDE DEF n, g
<1>4. \A s \in SUBSET (1..n) : g[s] = IF s = {} THEN EmptyBuckets(N)
                                 ELSE Put(g[s \ {Most(s)}], N, q[Most(s)])
  <2> DEFINE r == [s \in SUBSET (1..n) |-> IF s = {} THEN EmptyBuckets(N)
                                 ELSE Put(g[s \ {Most(s)}], N, q[Most(s)])]
  <2>1. g = r
    BY <1>3 DEF Folded
  <2>2. \A s \in SUBSET (1..n) : r[s] = IF s = {} THEN EmptyBuckets(N)
                                 ELSE Put(g[s \ {Most(s)}], N, q[Most(s)])
    OBVIOUS
  <2> HIDE DEF r
  <2> QED
    BY <2>1, <2>2
<1>5. f[0] = EmptyBuckets(N)
  <2>1. 1..0 = {} /\ {} \in SUBSET (1..n)
    OBVIOUS
  <2>2. f[0] = g[{}]
    BY <1>1, <2>1
  <2> HIDE DEF f
  <2> QED
    BY <1>4, <2>1, <2>2
<1>6. ASSUME NEW i \in 0..(n - 1) PROVE f[i + 1] = Put(f[i], N, q[i + 1])
  <2>1. i \in Nat /\ i \in 0..n /\ i + 1 \in 0..n
    BY <1>1
  <2>2. Most(1..(i + 1)) = i + 1 /\ (1..(i + 1)) \ {i + 1} = 1..i
    BY <2>1, MostOfPrefix
  <2>3. 1..(i + 1) \in SUBSET (1..n) /\ 1..(i + 1) # {}
    <3>1. \A y \in 1..(i + 1) : y \in 1..n
      BY <1>1
    <3>2. i + 1 \in 1..(i + 1)
      BY <2>1
    <3> QED
      BY <3>1, <3>2
  <2>4. g[1..(i + 1)] = Put(g[1..i], N, q[i + 1])
    <3> DEFINE s == 1..(i + 1)
    <3> HIDE DEF s
    <3>1. g[s] = Put(g[s \ {Most(s)}], N, q[Most(s)])
      BY <1>4, <2>3 DEF s
    <3> QED
      BY <2>2, <3>1 DEF s
  <2>5. f[i + 1] = g[1..(i + 1)] /\ f[i] = g[1..i]
    BY <2>1
  <2> QED
    BY <2>4, <2>5
<1>7. f[n] = g[1..n]
  BY <1>1
<1> QED
  <2> HIDE DEF f
  <2> QED
    BY <1>2, <1>5, <1>6, <1>7 DEF n

----------------------------------------------------------------------------
Chained(bs, N) ==
    /\ N \in Nat \ {0}
    /\ bs \in [0..(N - 1) -> Seq(Pairs)]

Proper(bs, N) ==
    /\ Chained(bs, N)
    /\ \A b \in 0..(N - 1) : \A i \in 1..Len(bs[b]) : HashKeyToBucketNum(bs[b][i].key, N) = b
    /\ \A b \in 0..(N - 1) : \A i, j \in 1..Len(bs[b]) : bs[b][i].key = bs[b][j].key => i = j

(* The hash of a key names one of the buckets. *)
LEMMA BucketOfKey ==
    ASSUME NEW k \in Keys, NEW N \in Nat \ {0} PROVE HashKeyToBucketNum(k, N) \in 0..(N - 1)
<1>1. k \in Nat
  BY TableAssumption
<1> QED
  BY <1>1, ModRange DEF HashKeyToBucketNum

(* A bucket is a finite sequence of pairs. *)
LEMMA ChainIs ==
    ASSUME NEW bs, NEW N, Chained(bs, N), NEW b \in 0..(N - 1)
    PROVE  /\ bs[b] \in Seq(Pairs) /\ Len(bs[b]) \in Nat /\ DOMAIN bs[b] = 1..Len(bs[b])
           /\ \A i \in 1..Len(bs[b]) : bs[b][i] \in Pairs
BY DEF Chained

(* A pair is stored when it is at some place of some bucket. *)
LEMMA StoredIs ==
    ASSUME NEW bs, NEW N, Chained(bs, N), NEW p
    PROVE  p \in Stored(bs) <=> \E b \in 0..(N - 1) : \E i \in 1..Len(bs[b]) : bs[b][i] = p
<1>1. DOMAIN bs = 0..(N - 1)
  BY DEF Chained
<1>2. \A b \in 0..(N - 1) : DOMAIN bs[b] = 1..Len(bs[b])
  BY ChainIs
<1> QED
  BY <1>1, <1>2 DEF Stored, Range

(* If a chain has a key, PlaceOf names a place that has it. *)
LEMMA PlaceIs ==
    ASSUME NEW c, NEW k, Has_Key(c, k)
    PROVE  PlaceOf(c, k) \in DOMAIN c /\ c[PlaceOf(c, k)].key = k
BY DEF Has_Key, PlaceOf

(* A pair that is stored is where its key's hash says, and nowhere else. *)
LEMMA KeyHasBucket ==
    ASSUME NEW bs, NEW N, Proper(bs, N), NEW k \in Keys
    PROVE  LET c == bs[HashKeyToBucketNum(k, N)]
           IN  /\ Has_Key(c, k) <=> \E p \in Stored(bs) : p.key = k
               /\ Has_Key(c, k) => PairOf(c, k) \in Stored(bs) /\ PairOf(c, k).key = k
<1> DEFINE B == HashKeyToBucketNum(k, N)
<1>0. Chained(bs, N) /\ B \in 0..(N - 1)
  BY BucketOfKey DEF Proper, Chained
<1>2. \A b \in 0..(N - 1) : \A i \in 1..Len(bs[b]) : bs[b][i].key = k => b = B
  BY DEF Proper
<1> HIDE DEF B
<1>1. DOMAIN bs[B] = 1..Len(bs[B])
  BY <1>0, ChainIs
<1>3. Has_Key(bs[B], k) => PairOf(bs[B], k) \in Stored(bs) /\ PairOf(bs[B], k).key = k
  BY <1>0, <1>1, PlaceIs, StoredIs DEF PairOf
<1>4. ASSUME NEW p \in Stored(bs), p.key = k PROVE Has_Key(bs[B], k)
  <2>0. PICK b \in 0..(N - 1) : \E i \in 1..Len(bs[b]) : bs[b][i] = p
    BY <1>0, StoredIs
  <2>1. PICK i \in 1..Len(bs[b]) : bs[b][i] = p
    BY <2>0
  <2> QED
    BY <1>1, <1>2, <1>4, <2>1 DEF Has_Key
<1> QED
  BY <1>3, <1>4 DEF B

(* In a proper table a key has at most one pair. *)
LEMMA StoredKeys ==
    ASSUME NEW bs, NEW N, Proper(bs, N)
    PROVE  /\ Stored(bs) \subseteq Pairs
           /\ \A p, r \in Stored(bs) : p.key = r.key => p = r
<1>1. Chained(bs, N)
  BY DEF Proper
<1>2. ASSUME NEW p \in Stored(bs) PROVE p \in Pairs
  BY <1>1, <1>2, StoredIs, ChainIs
<1>3. ASSUME NEW p \in Stored(bs), NEW r \in Stored(bs), p.key = r.key PROVE p = r
  <2>a. PICK b \in 0..(N - 1) : \E i \in 1..Len(bs[b]) : bs[b][i] = p
    BY <1>1, StoredIs
  <2>1. PICK i \in 1..Len(bs[b]) : bs[b][i] = p
    BY <2>a
  <2>b. PICK c \in 0..(N - 1) : \E j \in 1..Len(bs[c]) : bs[c][j] = r
    BY <1>1, StoredIs
  <2>2. PICK j \in 1..Len(bs[c]) : bs[c][j] = r
    BY <2>b
  <2>3. b = c
    BY <1>3, <2>1, <2>2 DEF Proper
  <2> QED
    BY <1>3, <2>1, <2>2, <2>3 DEF Proper
<1> QED
  BY <1>2, <1>3

(* HashTable_Insert on a table that has its size: the pair takes the place *)
(* of the one with its key.                                                *)
LEMMA PutKeeps ==
    ASSUME NEW bs, NEW N, Proper(bs, N), NEW e \in Pairs
    PROVE  /\ Proper(Put(bs, N, e), N)
           /\ Stored(Put(bs, N, e)) = {p \in Stored(bs) : p.key # e.key} \cup {e}
<1> DEFINE B == HashKeyToBucketNum(e.key, N)
           c == bs[B]
           d == IF Has_Key(c, e.key) THEN [c EXCEPT ![PlaceOf(c, e.key)] = e] ELSE Append(c, e)
           new == [bs EXCEPT ![B] = d]
<1>0. e.key \in Keys /\ N \in Nat \ {0} /\ Chained(bs, N)
  BY DEF Pairs, Proper, Chained
<1>1. B \in 0..(N - 1)
  BY <1>0, BucketOfKey
<1>2. Put(bs, N, e) = new
  BY DEF Put, PutIn
<1>a. HashKeyToBucketNum(e.key, N) = B
  OBVIOUS
<1> HIDE DEF B
<1>3. c \in Seq(Pairs) /\ Len(c) \in Nat /\ DOMAIN c = 1..Len(c) /\ \A i \in 1..Len(c) : c[i] \in Pairs
  BY <1>0, <1>1, ChainIs
<1>4. /\ \A i \in 1..Len(c) : HashKeyToBucketNum(c[i].key, N) = B
      /\ \A i, j \in 1..Len(c) : c[i].key = c[j].key => i = j
  BY <1>1 DEF Proper
<1>5. /\ d \in Seq(Pairs)
      /\ \A i \in 1..Len(d) : HashKeyToBucketNum(d[i].key, N) = B
      /\ \A i, j \in 1..Len(d) : d[i].key = d[j].key => i = j
      /\ \A p : (\E i \in 1..Len(d) : d[i] = p) <=>
                   ((\E i \in 1..Len(c) : c[i] = p) /\ p.key # e.key) \/ p = e
  <2> HIDE DEF c
  <2>1. CASE Has_Key(c, e.key)
    <3> DEFINE P == PlaceOf(c, e.key)
    <3>1. P \in 1..Len(c) /\ c[P].key = e.key
      BY <1>3, <2>1, PlaceIs
    <3> HIDE DEF P
    <3>2. d = [c EXCEPT ![P] = e]
      BY <2>1 DEF P
    <3> HIDE DEF d
    <3>3. d \in Seq(Pairs) /\ Len(d) = Len(c) /\ d[P] = e /\ \A i \in 1..Len(c) : i # P => d[i] = c[i]
      BY <1>3, <3>1, <3>2
    <3> QED
      BY <1>3, <1>4, <3>1, <3>3, <1>a
  <2>2. CASE ~Has_Key(c, e.key)
    <3>1. d = Append(c, e)
      BY <2>2
    <3> HIDE DEF d
    <3>2. d \in Seq(Pairs) /\ Len(d) = Len(c) + 1 /\ d[Len(c) + 1] = e
          /\ \A i \in 1..Len(c) : d[i] = c[i]
      BY <1>3, <3>1
    <3>3. \A i \in 1..Len(c) : c[i].key # e.key
      BY <1>3, <2>2 DEF Has_Key
    <3> QED
      BY <1>3, <1>4, <3>2, <3>3, <1>a
  <2> QED
    BY <2>1, <2>2
<1> HIDE DEF d
<1>6. Chained(new, N) /\ new[B] = d /\ \A b \in 0..(N - 1) : b # B => new[b] = bs[b]
  BY <1>0, <1>1, <1>5 DEF Chained
<1> HIDE DEF new
<1>7. Proper(new, N)
  <2>1. ASSUME NEW b \in 0..(N - 1)
        PROVE  /\ \A i \in 1..Len(new[b]) : HashKeyToBucketNum(new[b][i].key, N) = b
               /\ \A i, j \in 1..Len(new[b]) : new[b][i].key = new[b][j].key => i = j
    <3>1. CASE b = B
      BY <1>5, <1>6, <3>1
    <3>2. CASE b # B
      BY <1>6, <3>2 DEF Proper
    <3> QED
      BY <3>1, <3>2
  <2> QED
    BY <1>6, <2>1 DEF Proper
<1>8. ASSUME NEW p
      PROVE  p \in Stored(new) <=> p \in {r \in Stored(bs) : r.key # e.key} \cup {e}
  <2>1. p \in Stored(new) <=> \E b \in 0..(N - 1) : \E i \in 1..Len(new[b]) : new[b][i] = p
    BY <1>6, StoredIs
  <2>2. p \in Stored(bs) <=> \E b \in 0..(N - 1) : \E i \in 1..Len(bs[b]) : bs[b][i] = p
    BY <1>0, StoredIs
  <2>3. \A b \in 0..(N - 1) : b # B => \A i \in 1..Len(bs[b]) : bs[b][i].key # e.key
    BY <1>a DEF Proper
  <2>4. ASSUME NEW b \in 0..(N - 1), \E i \in 1..Len(new[b]) : new[b][i] = p
        PROVE  ((\E x \in 0..(N - 1) : \E i \in 1..Len(bs[x]) : bs[x][i] = p) /\ p.key # e.key) \/ p = e
    <3>1. CASE b = B
      <4>1. \E i \in 1..Len(d) : d[i] = p
        BY <1>6, <2>4, <3>1
      <4> QED
        BY <1>1, <1>5, <4>1
    <3>2. CASE b # B
      BY <1>6, <2>3, <2>4, <3>2
    <3> QED
      BY <3>1, <3>2
  <2>5. ASSUME NEW b \in 0..(N - 1), \E i \in 1..Len(bs[b]) : bs[b][i] = p, p.key # e.key
        PROVE  \E x \in 0..(N - 1) : \E i \in 1..Len(new[x]) : new[x][i] = p
    <3>1. CASE b = B
      <4>1. \E i \in 1..Len(d) : d[i] = p
        BY <1>5, <2>5, <3>1
      <4> QED
        BY <1>1, <1>6, <4>1
    <3>2. CASE b # B
      BY <1>6, <2>5, <3>2
    <3> QED
      BY <3>1, <3>2
  <2>6. \E i \in 1..Len(new[B]) : new[B][i] = e
    BY <1>5, <1>6
  <2> QED
    BY <1>1, <2>1, <2>2, <2>4, <2>5, <2>6
<1> QED
  BY <1>2, <1>7, <1>8

(* Empty buckets are a proper table that stores nothing. *)
LEMMA EmptyIsProper ==
    ASSUME NEW N \in Nat \ {0}
    PROVE  Proper(EmptyBuckets(N), N) /\ Stored(EmptyBuckets(N)) = {}
<1> DEFINE bs == EmptyBuckets(N)
<1>1. Chained(bs, N) /\ \A b \in 0..(N - 1) : bs[b] = << >>
  BY DEF Chained, EmptyBuckets
<1> HIDE DEF bs
<1>2. \A b \in 0..(N - 1) : 1..Len(bs[b]) = {}
  BY <1>1
<1>3. Proper(bs, N)
  BY <1>1, <1>2 DEF Proper
<1>4. \A p : p \notin Stored(bs)
  BY <1>1, <1>2, StoredIs
<1> QED
  BY <1>3, <1>4 DEF bs

(* A resize: every pair is inserted again, and none takes another's place. *)
LEMMA RehashKeeps ==
    ASSUME NEW N \in Nat \ {0}, NEW q \in Seq(Pairs),
           \A i, j \in 1..Len(q) : q[i].key = q[j].key => q[i] = q[j]
    PROVE  Proper(Rehash(N, q), N) /\ Stored(Rehash(N, q)) = {q[i] : i \in 1..Len(q)}
<1> DEFINE n == Len(q)
<1>1. n \in Nat /\ \A i \in 1..n : q[i] \in Pairs
  OBVIOUS
<1>2. PICK f : /\ f[0] = EmptyBuckets(N)
               /\ \A i \in 0..(n - 1) : f[i + 1] = Put(f[i], N, q[i + 1])
               /\ Rehash(N, q) = f[n]
  BY RehashSteps
<1> DEFINE Good(i) == Proper(f[i], N) /\ Stored(f[i]) = {q[j] : j \in 1..i}
           T == {i \in 0..n : Good(i)}
<1> HIDE DEF n
<1>3. 0 \in T
  <2>1. {q[j] : j \in 1..0} = {}
    OBVIOUS
  <2> QED
    BY <1>1, <1>2, <2>1, EmptyIsProper
<1>4. ASSUME NEW i \in 0..(n - 1), i \in T PROVE i + 1 \in T
  <2>0. i + 1 \in 1..n /\ i + 1 \in 0..n /\ i \in 0..n
    BY <1>1
  <2>1. Proper(f[i], N) /\ Stored(f[i]) = {q[j] : j \in 1..i}
    BY <1>4
  <2> DEFINE e == q[i + 1]
  <2>2. e \in Pairs
    BY <1>1, <2>0
  <2> HIDE DEF e
  <2>3. /\ Proper(Put(f[i], N, e), N)
        /\ Stored(Put(f[i], N, e)) = {p \in Stored(f[i]) : p.key # e.key} \cup {e}
    BY <2>1, <2>2, PutKeeps
  <2>4. {p \in {q[j] : j \in 1..i} : p.key # e.key} \cup {e} = {q[j] : j \in 1..(i + 1)}
    <3>1. \A j \in 1..i : q[j].key = e.key => q[j] = e
      BY <2>0, <1>1 DEF e, n
    <3>2. \A j : j \in 1..(i + 1) <=> j \in 1..i \/ j = i + 1
      BY <2>0, <1>1
    <3> QED
      BY <3>1, <3>2 DEF e
  <2>5. f[i + 1] = Put(f[i], N, e)
    BY <1>2 DEF e
  <2> QED
    BY <2>0, <2>1, <2>3, <2>4, <2>5
<1>5. T = 0..n
  <2>1. T \in SUBSET (0..n)
    OBVIOUS
  <2> HIDE DEF T
  <2> QED
    BY <1>1, <1>3, <1>4, <2>1, FromZero
<1>6. n \in T
  <2> HIDE DEF T
  <2> QED
    BY <1>1, <1>5
<1> QED
  BY <1>2, <1>6 DEF n

(* Removing a key: its pair goes, the rest of its chain closes up. *)
LEMMA WithoutIs ==
    ASSUME NEW S, NEW c \in Seq(S), NEW k, Has_Key(c, k)
    PROVE  /\ Without(c, k) \in Seq(S) /\ Len(Without(c, k)) = Len(c) - 1
           /\ PlaceOf(c, k) \in 1..Len(c) /\ c[PlaceOf(c, k)].key = k
           /\ \A i \in 1..(PlaceOf(c, k) - 1) : Without(c, k)[i] = c[i]
           /\ \A i \in PlaceOf(c, k)..(Len(c) - 1) : Without(c, k)[i] = c[i + 1]
<1> DEFINE P == PlaceOf(c, k)
<1>1. P \in 1..Len(c) /\ c[P].key = k
  BY PlaceIs
<1>2. Without(c, k) = SubSeq(c, 1, P - 1) \o SubSeq(c, P + 1, Len(c))
  BY DEF Without, RemoveAt
<1> HIDE DEF P
<1> DEFINE a == SubSeq(c, 1, P - 1)
           b == SubSeq(c, P + 1, Len(c))
<1>3. a \in Seq(S) /\ Len(a) = P - 1 /\ \A i \in 1..(P - 1) : a[i] = c[i]
  BY <1>1
<1>4. b \in Seq(S) /\ Len(b) = Len(c) - P /\ \A i \in 1..(Len(c) - P) : b[i] = c[i + P]
  BY <1>1
<1> HIDE DEF a, b
<1>5. /\ a \o b \in Seq(S) /\ Len(a \o b) = Len(c) - 1
      /\ \A i \in 1..(P - 1) : (a \o b)[i] = c[i]
      /\ \A i \in P..(Len(c) - 1) : (a \o b)[i] = c[i + 1]
  <2>1. /\ a \o b \in Seq(S) /\ Len(a \o b) = Len(a) + Len(b)
        /\ \A i \in 1..(P - 1) : (a \o b)[i] = a[i]
        /\ \A i \in P..(Len(c) - 1) : (a \o b)[i] = b[i - (P - 1)]
    <3>1. a \o b \in Seq(S) /\ Len(a \o b) = Len(a) + Len(b)
      BY <1>3, <1>4
    <3>2. \A i \in 1..(P - 1) : (a \o b)[i] = a[i]
      BY <1>1, <1>3, <1>4
    <3>3. ASSUME NEW i \in P..(Len(c) - 1) PROVE (a \o b)[i] = b[i - (P - 1)]
      <4>1. i \in 1..(Len(a) + Len(b)) /\ ~(i <= Len(a)) /\ i - (P - 1) = i - Len(a)
        BY <1>1, <1>3, <1>4
      <4> QED
        BY <1>3, <1>4, <4>1
    <3> QED
      BY <3>1, <3>2, <3>3
  <2>2. \A i \in P..(Len(c) - 1) : i - (P - 1) \in 1..(Len(c) - P) /\ (i - (P - 1)) + P = i + 1
    BY <1>1
  <2>3. Len(a \o b) = Len(c) - 1
    BY <1>1, <1>3, <1>4, <2>1
  <2>4. \A i \in P..(Len(c) - 1) : (a \o b)[i] = c[i + 1]
    <3> SUFFICES ASSUME NEW i \in P..(Len(c) - 1) PROVE (a \o b)[i] = c[i + 1]
      OBVIOUS
    <3>1. b[i - (P - 1)] = c[(i - (P - 1)) + P]
      BY <1>4, <2>2
    <3> QED
      BY <2>1, <2>2, <3>1
  <2> QED
    BY <1>3, <2>1, <2>3, <2>4
<1> QED
  BY <1>1, <1>2, <1>5 DEF a, b, P

WithoutKey(bs, N, k) == [bs EXCEPT ![HashKeyToBucketNum(k, N)] = Without(@, k)]

(* A chain without the pair of a key: the table stays proper and loses *)
(* that pair alone.                                                    *)
LEMMA RemoveKeeps ==
    ASSUME NEW bs, NEW N, Proper(bs, N), NEW k \in Keys
    PROVE  /\ Proper(WithoutKey(bs, N, k), N)
           /\ Stored(WithoutKey(bs, N, k)) = {p \in Stored(bs) : p.key # k}
<1> DEFINE B == HashKeyToBucketNum(k, N)
           c == bs[B]
           d == Without(c, k)
           new == [bs EXCEPT ![B] = d]
<1>0. N \in Nat \ {0} /\ Chained(bs, N)
  BY DEF Proper, Chained
<1>1. B \in 0..(N - 1)
  BY <1>0, BucketOfKey
<1>a. HashKeyToBucketNum(k, N) = B
  OBVIOUS
<1> HIDE DEF B
<1>3. c \in Seq(Pairs) /\ Len(c) \in Nat /\ DOMAIN c = 1..Len(c) /\ \A i \in 1..Len(c) : c[i] \in Pairs
  BY <1>0, <1>1, ChainIs
<1>4. /\ \A i \in 1..Len(c) : HashKeyToBucketNum(c[i].key, N) = B
      /\ \A i, j \in 1..Len(c) : c[i].key = c[j].key => i = j
  BY <1>1 DEF Proper
<1>b. c = bs[B]
  OBVIOUS
<1> HIDE DEF c
<1>5. /\ d \in Seq(Pairs)
      /\ \A i \in 1..Len(d) : HashKeyToBucketNum(d[i].key, N) = B
      /\ \A i, j \in 1..Len(d) : d[i].key = d[j].key => i = j
      /\ \A p : (\E i \in 1..Len(d) : d[i] = p) <=> (\E i \in 1..Len(c) : c[i] = p) /\ p.key # k
  <2>1. CASE Has_Key(c, k)
    <3> DEFINE P == PlaceOf(c, k)
    <3>1. /\ d \in Seq(Pairs) /\ Len(d) = Len(c) - 1 /\ P \in 1..Len(c) /\ c[P].key = k
          /\ \A i \in 1..(P - 1) : d[i] = c[i]
          /\ \A i \in P..(Len(c) - 1) : d[i] = c[i + 1]
      <4>1. c \in Seq(Pairs)
        BY <1>3
      <4>2. /\ Without(c, k) \in Seq(Pairs) /\ Len(Without(c, k)) = Len(c) - 1
            /\ PlaceOf(c, k) \in 1..Len(c) /\ c[PlaceOf(c, k)].key = k
            /\ \A i \in 1..(PlaceOf(c, k) - 1) : Without(c, k)[i] = c[i]
            /\ \A i \in PlaceOf(c, k)..(Len(c) - 1) : Without(c, k)[i] = c[i + 1]
        BY <2>1, <4>1, WithoutIs
      <4> QED
        BY <4>2
    <3> HIDE DEF d, P
    <3>2. \A i \in 1..Len(d) : \E j \in 1..Len(c) : j # P /\ d[i] = c[j] /\ j = IF i < P THEN i ELSE i + 1
      <4> SUFFICES ASSUME NEW i \in 1..Len(d)
                   PROVE  \E j \in 1..Len(c) : j # P /\ d[i] = c[j] /\ j = IF i < P THEN i ELSE i + 1
        OBVIOUS
      <4>1. CASE i < P
        BY <1>3, <3>1, <4>1
      <4>2. CASE ~(i < P)
        BY <1>3, <3>1, <4>2
      <4> QED
        BY <4>1, <4>2
    <3>3. \A j \in 1..Len(c) : j # P => \E i \in 1..Len(d) : d[i] = c[j]
      <4> SUFFICES ASSUME NEW j \in 1..Len(c), j # P PROVE \E i \in 1..Len(d) : d[i] = c[j]
        OBVIOUS
      <4>1. CASE j < P
        BY <1>3, <3>1, <4>1
      <4>2. CASE j > P
        <5>1. j - 1 \in P..(Len(c) - 1) /\ j - 1 \in 1..Len(d) /\ (j - 1) + 1 = j
          BY <1>3, <3>1, <4>2
        <5> QED
          BY <3>1, <5>1
      <4> QED
        BY <1>3, <3>1, <4>1, <4>2
    <3>4. \A i \in 1..Len(d) : HashKeyToBucketNum(d[i].key, N) = B
      BY <1>4, <3>2
    <3>5. \A i, j \in 1..Len(d) : d[i].key = d[j].key => i = j
      <4> SUFFICES ASSUME NEW i \in 1..Len(d), NEW j \in 1..Len(d), d[i].key = d[j].key PROVE i = j
        OBVIOUS
      <4>1. PICK x \in 1..Len(c) : d[i] = c[x] /\ x = IF i < P THEN i ELSE i + 1
        BY <3>2
      <4>2. PICK y \in 1..Len(c) : d[j] = c[y] /\ y = IF j < P THEN j ELSE j + 1
        BY <3>2
      <4>3. x = y
        BY <1>4, <4>1, <4>2
      <4> QED
        BY <1>3, <3>1, <4>1, <4>2, <4>3
    <3>6. \A p : (\E i \in 1..Len(d) : d[i] = p) <=> (\E i \in 1..Len(c) : c[i] = p) /\ p.key # k
      <4>1. ASSUME NEW i \in 1..Len(d) PROVE (\E j \in 1..Len(c) : c[j] = d[i]) /\ d[i].key # k
        <5>1. PICK j \in 1..Len(c) : j # P /\ d[i] = c[j]
          BY <3>2
        <5>2. c[j].key # c[P].key
          BY <1>4, <3>1, <5>1
        <5> QED
          BY <3>1, <5>1, <5>2
      <4>2. ASSUME NEW j \in 1..Len(c), c[j].key # k PROVE \E i \in 1..Len(d) : d[i] = c[j]
        BY <3>1, <3>3, <4>2
      <4> QED
        BY <4>1, <4>2
    <3> QED
      BY <3>1, <3>4, <3>5, <3>6
  <2>2. CASE ~Has_Key(c, k)
    <3>1. d = c
      BY <2>2 DEF Without
    <3>2. \A i \in 1..Len(c) : c[i].key # k
      BY <1>3, <2>2 DEF Has_Key
    <3> HIDE DEF d
    <3> QED
      BY <1>3, <1>4, <3>1, <3>2
  <2> QED
    BY <2>1, <2>2
<1>2. WithoutKey(bs, N, k) = new
  BY <1>a DEF c, WithoutKey
<1> HIDE DEF d
<1>6. Chained(new, N) /\ new[B] = d /\ \A b \in 0..(N - 1) : b # B => new[b] = bs[b]
  BY <1>0, <1>1, <1>5 DEF Chained
<1> HIDE DEF new
<1>7. Proper(new, N)
  <2>1. ASSUME NEW b \in 0..(N - 1)
        PROVE  /\ \A i \in 1..Len(new[b]) : HashKeyToBucketNum(new[b][i].key, N) = b
               /\ \A i, j \in 1..Len(new[b]) : new[b][i].key = new[b][j].key => i = j
    <3>1. CASE b = B
      BY <1>5, <1>6, <3>1
    <3>2. CASE b # B
      BY <1>6, <3>2 DEF Proper
    <3> QED
      BY <3>1, <3>2
  <2> QED
    BY <1>6, <2>1 DEF Proper
<1>8. ASSUME NEW p
      PROVE  p \in Stored(new) <=> p \in {r \in Stored(bs) : r.key # k}
  <2>1. p \in Stored(new) <=> \E b \in 0..(N - 1) : \E i \in 1..Len(new[b]) : new[b][i] = p
    BY <1>6, StoredIs
  <2>2. p \in Stored(bs) <=> \E b \in 0..(N - 1) : \E i \in 1..Len(bs[b]) : bs[b][i] = p
    BY <1>0, StoredIs
  <2>3. \A b \in 0..(N - 1) : b # B => \A i \in 1..Len(bs[b]) : bs[b][i].key # k
    BY <1>a DEF Proper
  <2> QED
    <3>1. ASSUME NEW b \in 0..(N - 1), \E i \in 1..Len(new[b]) : new[b][i] = p
          PROVE  (\E x \in 0..(N - 1) : \E i \in 1..Len(bs[x]) : bs[x][i] = p) /\ p.key # k
      <4>1. CASE b = B
        <5>1. \E i \in 1..Len(d) : d[i] = p
          BY <1>6, <3>1, <4>1
        <5> QED
          BY <1>1, <1>5, <1>b, <5>1
      <4>2. CASE b # B
        BY <1>6, <2>3, <3>1, <4>2
      <4> QED
        BY <4>1, <4>2
    <3>2. ASSUME NEW b \in 0..(N - 1), \E i \in 1..Len(bs[b]) : bs[b][i] = p, p.key # k
          PROVE  \E x \in 0..(N - 1) : \E i \in 1..Len(new[x]) : new[x][i] = p
      <4>1. CASE b = B
        <5>1. \E i \in 1..Len(d) : d[i] = p
          BY <1>5, <1>b, <3>2, <4>1
        <5> QED
          BY <1>1, <1>6, <5>1
      <4>2. CASE b # B
        BY <1>6, <3>2, <4>2
      <4> QED
        BY <4>1, <4>2
    <3> QED
      BY <2>1, <2>2, <3>1, <3>2
<1> QED
  BY <1>2, <1>7, <1>8

(* The pairs an iteration over n buckets would meet. *)
LEMMA ElementsAre ==
    ASSUME NEW bs, NEW N, Chained(bs, N)
    PROVE  /\ Elements(bs, N) \in Seq(Pairs)
           /\ {Elements(bs, N)[i] : i \in 1..Len(Elements(bs, N))} = Stored(bs)
<1> DEFINE q == [i \in 1..N |-> bs[i - 1]]
<1>1. N \in Nat \ {0}
  BY DEF Chained
<1>2. q \in Seq(Seq(Pairs)) /\ Len(q) = N /\ \A i \in 1..N : q[i] = bs[i - 1] /\ q[i] \in Seq(Pairs)
  BY <1>1 DEF Chained
<1>3. Elements(bs, N) = FlattenSeq(q)
  BY DEF Elements
<1> HIDE DEF q
<1>4. PICK g : Joined(q, g, N) /\ FlattenSeq(q) = g[N]
  BY <1>1, <1>2, FlattenParts
<1>5. \A i \in 1..N : g[i] = IF i = 1 THEN q[i] ELSE g[i - 1] \o q[i]
  <2> DEFINE r == [i \in 1..N |-> IF i = 1 THEN q[i] ELSE g[i - 1] \o q[i]]
  <2>1. g = r
    BY <1>4 DEF Joined
  <2>2. \A i \in 1..N : r[i] = IF i = 1 THEN q[i] ELSE g[i - 1] \o q[i]
    OBVIOUS
  <2> HIDE DEF r
  <2> QED
    BY <2>1, <2>2
<1> DEFINE Good(i) == /\ g[i] \in Seq(Pairs)
                      /\ \A p : (\E x \in 1..Len(g[i]) : g[i][x] = p) <=>
                                 \E b \in 1..i : \E x \in 1..Len(q[b]) : q[b][x] = p
           T == {i \in 0..N : i = 0 \/ Good(i)}
<1>6. 0 \in T
  BY <1>1
<1>7. ASSUME NEW i \in 0..(N - 1), i \in T PROVE i + 1 \in T
  <2>0. i + 1 \in 1..N /\ i + 1 \in 0..N /\ i \in Nat /\ q[i + 1] \in Seq(Pairs)
    BY <1>1, <1>2
  <2>1. CASE i = 0
    <3>1. g[i + 1] = q[i + 1]
      BY <1>5, <2>0, <2>1
    <3>2. \A b : b \in 1..(i + 1) <=> b = i + 1
      BY <2>1
    <3>3. Good(i + 1)
      BY <2>0, <3>1, <3>2
    <3> HIDE DEF Good
    <3> QED
      BY <2>0, <3>3
  <2>2. CASE i # 0
    <3>1. g[i + 1] = g[i] \o q[i + 1]
      <4>1. g[i + 1] = IF i + 1 = 1 THEN q[i + 1] ELSE g[(i + 1) - 1] \o q[i + 1]
        BY <1>5, <2>0
      <4>2. (i + 1) - 1 = i /\ i + 1 # 1
        BY <2>0, <2>2
      <4> QED
        BY <4>1, <4>2
    <3>2. Good(i)
      BY <1>7, <2>2
    <3>3. \A b : b \in 1..(i + 1) <=> b \in 1..i \/ b = i + 1
      BY <2>0
    <3>4. \A s, t \in Seq(Pairs) : /\ s \o t \in Seq(Pairs)
                                    /\ \A p : (\E x \in 1..Len(s \o t) : (s \o t)[x] = p) <=>
                                              \/ \E x \in 1..Len(s) : s[x] = p
                                              \/ \E x \in 1..Len(t) : t[x] = p
      <4> SUFFICES ASSUME NEW s \in Seq(Pairs), NEW t \in Seq(Pairs)
                   PROVE  /\ s \o t \in Seq(Pairs)
                          /\ \A p : (\E x \in 1..Len(s \o t) : (s \o t)[x] = p) <=>
                                              \/ \E x \in 1..Len(s) : s[x] = p
                                              \/ \E x \in 1..Len(t) : t[x] = p
        OBVIOUS
      <4>1. /\ s \o t \in Seq(Pairs) /\ Len(s \o t) = Len(s) + Len(t)
            /\ \A x \in 1..Len(s) : (s \o t)[x] = s[x]
            /\ \A x \in 1..Len(t) : (s \o t)[Len(s) + x] = t[x]
            /\ Len(s) \in Nat /\ Len(t) \in Nat
        OBVIOUS
      <4>2. ASSUME NEW x \in 1..Len(s \o t)
            PROVE  x \in 1..Len(s) \/ \E y \in 1..Len(t) : x = Len(s) + y
        <5> DEFINE m == Len(s)
                   n == Len(t)
                   l == Len(s \o t)
        <5>1. l = m + n /\ m \in Nat /\ n \in Nat
          BY <4>1
        <5> HIDE DEF m, n, l
        <5>2. x \in 1..l
          BY DEF l
        <5>3. x \in 1..m \/ (x - m \in 1..n /\ x = m + (x - m))
          BY <5>1, <5>2
        <5> QED
          BY <5>3 DEF m, n
      <4>3. \A x \in 1..Len(s) : x \in 1..Len(s \o t)
        BY <4>1
      <4>4. \A x \in 1..Len(t) : Len(s) + x \in 1..Len(s \o t)
        BY <4>1
      <4> DEFINE st == s \o t
      <4> HIDE DEF st
      <4> QED
        BY ZenonT(40), <4>1, <4>2, <4>3, <4>4 DEF st
    <3>5. Good(i + 1)
      <4> DEFINE s == g[i]
                 t == q[i + 1]
      <4>1. s \in Seq(Pairs) /\ t \in Seq(Pairs)
        BY <2>0, <3>2
      <4>2. \A p : (\E x \in 1..Len(s) : s[x] = p) <=> \E b \in 1..i : \E x \in 1..Len(q[b]) : q[b][x] = p
        BY <3>2
      <4>3. \A p : (\E x \in 1..Len(t) : t[x] = p) <=> \E b \in {i + 1} : \E x \in 1..Len(q[b]) : q[b][x] = p
        OBVIOUS
      <4>4. g[i + 1] = s \o t
        BY <3>1
      <4> HIDE DEF s, t
      <4>5. /\ s \o t \in Seq(Pairs)
            /\ \A p : (\E x \in 1..Len(s \o t) : (s \o t)[x] = p) <=>
                       (\E x \in 1..Len(s) : s[x] = p) \/ (\E x \in 1..Len(t) : t[x] = p)
        BY <3>4, <4>1
      <4> DEFINE st == s \o t
      <4> HIDE DEF st
      <4>6. /\ g[i + 1] \in Seq(Pairs)
            /\ \A p : (\E x \in 1..Len(g[i + 1]) : g[i + 1][x] = p) <=>
                       (\E x \in 1..Len(s) : s[x] = p) \/ (\E x \in 1..Len(t) : t[x] = p)
        <5>1. g[i + 1] = st
          BY <4>4 DEF st
        <5> QED
          BY <4>5, <5>1 DEF st
      <4>7. \A p : (\E b \in 1..(i + 1) : \E x \in 1..Len(q[b]) : q[b][x] = p) <=>
                   \/ \E b \in 1..i : \E x \in 1..Len(q[b]) : q[b][x] = p
                   \/ \E b \in {i + 1} : \E x \in 1..Len(q[b]) : q[b][x] = p
        BY <3>3
      <4> QED
        BY <4>2, <4>3, <4>6, <4>7, Zenon
    <3> HIDE DEF Good
    <3> QED
      BY <2>0, <3>5
  <2> QED
    BY <2>1, <2>2
<1>8. T = 0..N
  <2> HIDE DEF Good
  <2>1. T \in SUBSET (0..N)
    OBVIOUS
  <2> HIDE DEF T
  <2> QED
    BY <1>1, <1>6, <1>7, <2>1, FromZero
<1>9. Good(N)
  <2> HIDE DEF Good
  <2>1. N \in T
    <3> HIDE DEF T
    <3> QED
      BY <1>1, <1>8
  <2> QED
    BY <1>1, <2>1
<1> DEFINE s == FlattenSeq(q)
<1>10. s = g[N]
  BY <1>4
<1> HIDE DEF s
<1>11. s \in Seq(Pairs) /\ \A p : (\E x \in 1..Len(s) : s[x] = p) <=>
                                   \E b \in 1..N : \E x \in 1..Len(q[b]) : q[b][x] = p
  BY <1>9, <1>10
<1>12. ASSUME NEW p PROVE p \in {s[x] : x \in 1..Len(s)} <=> p \in Stored(bs)
  <2>1. p \in Stored(bs) <=> \E b \in 0..(N - 1) : \E i \in 1..Len(bs[b]) : bs[b][i] = p
    BY StoredIs
  <2>2. \A b \in 0..(N - 1) : b + 1 \in 1..N /\ q[b + 1] = bs[b]
    <3> SUFFICES ASSUME NEW b \in 0..(N - 1) PROVE b + 1 \in 1..N /\ q[b + 1] = bs[b]
      OBVIOUS
    <3>1. b + 1 \in 1..N /\ (b + 1) - 1 = b
      BY <1>1
    <3> QED
      BY <1>2, <3>1
  <2>3. \A b \in 1..N : b - 1 \in 0..(N - 1) /\ q[b] = bs[b - 1]
    BY <1>1, <1>2
  <2>4. (\E b \in 1..N : \E x \in 1..Len(q[b]) : q[b][x] = p) <=>
        \E b \in 0..(N - 1) : \E i \in 1..Len(bs[b]) : bs[b][i] = p
    <3>1. ASSUME NEW b \in 1..N, \E x \in 1..Len(q[b]) : q[b][x] = p
          PROVE  \E c \in 0..(N - 1) : \E i \in 1..Len(bs[c]) : bs[c][i] = p
      BY <2>3, <3>1, Zenon
    <3>2. ASSUME NEW b \in 0..(N - 1), \E i \in 1..Len(bs[b]) : bs[b][i] = p
          PROVE  \E c \in 1..N : \E x \in 1..Len(q[c]) : q[c][x] = p
      BY <2>2, <3>2, Zenon
    <3> QED
      BY <3>1, <3>2
  <2>5. p \in {s[x] : x \in 1..Len(s)} <=> \E x \in 1..Len(s) : s[x] = p
    OBVIOUS
  <2> QED
    BY <1>11, <2>1, <2>4, <2>5, Zenon
<1> QED
  BY <1>3, <1>11, <1>12 DEF s

----------------------------------------------------------------------------
(* The pairs with a key in s are those up to place i of bucket b. *)
Upto(bs, N, s, b, i) ==
    \A x \in 0..(N - 1) : \A y \in 1..Len(bs[x]) :
        bs[x][y].key \in s <=> x < b \/ (x = b /\ y <= i)

AllIn(bs, s) == \A p \in Stored(bs) : p.key \in s

Counted ==
    /\ live => IsFiniteSet(Stored(buckets)) /\ num_elements = Cardinality(Stored(buckets))
    /\ num_elements <= 3 * num_buckets

IterOK ==
    /\ it.on = "none" => it = NoIter /\ seen = {}
    /\ it.on # "none" => live
    /\ it.on = "valid" => /\ it.bucket \in 0..(num_buckets - 1) /\ it.key \in Keys
                          /\ Has_Key(buckets[it.bucket], it.key)
    /\ it.on = "end" => it.key = None
    /\ it.on = "dangling" => tight
    /\ it.on \in {"valid", "end"} /\ ~tight => num_elements < 3 * num_buckets

Visited ==
    /\ it.on = "valid" =>
         Upto(buckets, num_buckets, seen, it.bucket, PlaceOf(buckets[it.bucket], it.key))
    /\ it.on = "end" => AllIn(buckets, seen)

IInv ==
    /\ TypeOK
    /\ Proper(buckets, num_buckets)
    /\ Counted
    /\ IterOK
    /\ Visited

(* A resize changes where the pairs are, and not which. *)
LEMMA Resized ==
    ASSUME TypeOK, Proper(buckets, num_buckets), num_elements <= 3 * num_buckets
    PROVE  /\ NewSize \in Nat \ {0} /\ NewSize >= num_buckets
           /\ num_elements < 3 * NewSize
           /\ Proper(NewBuckets, NewSize) /\ Stored(NewBuckets) = Stored(buckets)
           /\ ~MustResize => NewSize = num_buckets /\ NewBuckets = buckets
<1>1. num_buckets \in Nat \ {0} /\ num_elements \in Nat
  BY DEF TypeOK
<1>2. NewSize \in Nat \ {0} /\ NewSize >= num_buckets /\ num_elements < 3 * NewSize
  BY <1>1 DEF NewSize, MustResize
<1>3. ~MustResize => NewSize = num_buckets /\ NewBuckets = buckets
  BY DEF NewSize, NewBuckets
<1>4. CASE ~MustResize
  BY <1>2, <1>3, <1>4
<1>5. CASE MustResize
  <2> DEFINE q == Elements(buckets, num_buckets)
  <2>1. NewBuckets = Rehash(NewSize, q)
    BY <1>5 DEF NewBuckets, Rehash
  <2>2. q \in Seq(Pairs) /\ {q[i] : i \in 1..Len(q)} = Stored(buckets)
    BY ElementsAre DEF Proper
  <2>3. \A p, r \in Stored(buckets) : p.key = r.key => p = r
    BY StoredKeys
  <2> HIDE DEF q
  <2>4. \A i, j \in 1..Len(q) : q[i].key = q[j].key => q[i] = q[j]
    BY <2>2, <2>3
  <2>5. Proper(Rehash(NewSize, q), NewSize) /\ Stored(Rehash(NewSize, q)) = {q[i] : i \in 1..Len(q)}
    <3> DEFINE N == NewSize
    <3>1. N \in Nat \ {0}
      BY <1>2
    <3> HIDE DEF N
    <3>2. Proper(Rehash(N, q), N) /\ Stored(Rehash(N, q)) = {q[i] : i \in 1..Len(q)}
      BY <2>2, <2>4, <3>1, RehashKeeps
    <3> QED
      BY <3>2 DEF N
  <2> QED
    BY <1>2, <1>5, <2>1, <2>2, <2>5
<1> QED
  BY <1>4, <1>5

(* A lookup answers with the pair of the key if there is one, and says so *)
(* if not.                                                                *)
LEMMA LookupIs ==
    ASSUME TypeOK, Proper(buckets, num_buckets), num_elements <= 3 * num_buckets,
           NEW k \in Keys, Lookup(k)
    PROVE  /\ Present(k) <=> \E p \in Stored(buckets) : p.key = k
           /\ \A p \in Stored(buckets) : p.key = k => answer' = [ok |-> TRUE, out |-> p]
           /\ ~Present(k) => answer' = [ok |-> FALSE, out |-> None]
           /\ answer' \in [ok : BOOLEAN, out : Pairs \cup {None}]
<1> DEFINE c == NewBuckets[HashKeyToBucketNum(k, NewSize)]
<1>1. Proper(NewBuckets, NewSize) /\ Stored(NewBuckets) = Stored(buckets)
  BY Resized
<1>2. /\ Has_Key(c, k) <=> \E p \in Stored(NewBuckets) : p.key = k
      /\ Has_Key(c, k) => PairOf(c, k) \in Stored(NewBuckets) /\ PairOf(c, k).key = k
  <2> DEFINE bs == NewBuckets
             N == NewSize
  <2>1. Proper(bs, N)
    BY <1>1
  <2> HIDE DEF bs, N
  <2>2. LET d == bs[HashKeyToBucketNum(k, N)]
        IN  /\ Has_Key(d, k) <=> \E p \in Stored(bs) : p.key = k
            /\ Has_Key(d, k) => PairOf(d, k) \in Stored(bs) /\ PairOf(d, k).key = k
    BY <2>1, KeyHasBucket
  <2> QED
    BY <2>2 DEF bs, N
<1>3. Stored(buckets) \subseteq Pairs /\ \A p, r \in Stored(buckets) : p.key = r.key => p = r
  BY StoredKeys
<1>4. Present(k) <=> Has_Key(c, k)
  BY DEF Present
<1>5. answer' = IF Has_Key(c, k) THEN [ok |-> TRUE, out |-> PairOf(c, k)]
                                 ELSE [ok |-> FALSE, out |-> None]
  BY DEF Lookup, Answer
<1> HIDE DEF c
<1> QED
  BY <1>1, <1>2, <1>3, <1>4, <1>5

(* The first place of the first bucket that is not empty, from bucket lo *)
(* on.                                                                   *)
LEMMA FirstIs ==
    ASSUME Chained(buckets, num_buckets), NEW lo \in Nat,
           Filled(lo..(num_buckets - 1)) # {}
    PROVE  \E b \in lo..(num_buckets - 1) :
             /\ FirstOf(Filled(lo..(num_buckets - 1))) =
                  [on |-> "valid", bucket |-> b, key |-> buckets[b][1].key]
             /\ Len(buckets[b]) >= 1
             /\ \A x \in lo..(b - 1) : buckets[x] = << >>
<1> DEFINE F == Filled(lo..(num_buckets - 1))
<1>0. num_buckets \in Nat \ {0}
  BY DEF Chained
<1>1. /\ F \in SUBSET Nat /\ F # {}
      /\ \A x : x \in F <=> x \in lo..(num_buckets - 1) /\ buckets[x] # << >>
  <2>1. \A x : x \in F <=> x \in lo..(num_buckets - 1) /\ buckets[x] # << >>
    BY DEF Filled
  <2>2. \A x \in lo..(num_buckets - 1) : x \in Nat
    BY <1>0
  <2> QED
    BY <2>1, <2>2
<1> HIDE DEF F
<1> DEFINE b == CHOOSE x \in F : \A y \in F : x <= y
<1>2. b \in F /\ \A y \in F : b <= y
  BY <1>1, LeastNatural
<1>3. FirstOf(F) = [on |-> "valid", bucket |-> b, key |-> buckets[b][1].key]
  BY DEF FirstOf
<1> HIDE DEF b
<1>4. b \in lo..(num_buckets - 1) /\ buckets[b] # << >> /\ b \in 0..(num_buckets - 1)
  BY <1>0, <1>1, <1>2
<1>5. Len(buckets[b]) >= 1
  <2>1. buckets[b] \in Seq(Pairs)
    BY <1>4, ChainIs
  <2> QED
    BY <1>4, <2>1
<1>6. ASSUME NEW x \in lo..(b - 1) PROVE buckets[x] = << >>
  <2>1. x \in lo..(num_buckets - 1) /\ ~(b <= x)
    BY <1>0, <1>4
  <2> QED
    BY <1>1, <1>2, <2>1
<1> QED
  BY <1>3, <1>4, <1>5, <1>6 DEF F

(* One more key, that of the next place. *)
LEMMA UptoNext ==
    ASSUME NEW bs, NEW N, Proper(bs, N), NEW s, NEW b \in 0..(N - 1), NEW i \in Nat,
           Upto(bs, N, s, b, i), i <= Len(bs[b]),
           NEW c \in 0..(N - 1), NEW j \in 1..Len(bs[c]),
           \/ c = b /\ j = i + 1
           \/ c > b /\ i = Len(bs[b]) /\ j = 1 /\ \A x \in (b + 1)..(c - 1) : bs[x] = << >>
    PROVE  bs[c][j].key \notin s /\ Upto(bs, N, s \cup {bs[c][j].key}, c, j)
<1>0. N \in Nat \ {0} /\ Chained(bs, N)
  BY DEF Proper, Chained
<1>1. \A x \in 0..(N - 1) : Len(bs[x]) \in Nat
  BY <1>0, ChainIs
<1>2. bs[c][j].key \notin s
  BY <1>0, <1>1 DEF Upto
<1>3. ASSUME NEW x \in 0..(N - 1), NEW y \in 1..Len(bs[x])
      PROVE  bs[x][y].key \in s \cup {bs[c][j].key} <=> x < c \/ (x = c /\ y <= j)
  <2>1. bs[x][y].key = bs[c][j].key <=> x = c /\ y = j
    <3>1. bs[x][y].key = bs[c][j].key => x = c
      BY DEF Proper
    <3> QED
      BY <3>1 DEF Proper
  <2>2. bs[x][y].key \in s <=> x < b \/ (x = b /\ y <= i)
    BY DEF Upto
  <2>3. CASE c = b /\ j = i + 1
    BY SMTT(20), <1>0, <1>1, <2>1, <2>2, <2>3
  <2>4. CASE c > b /\ i = Len(bs[b]) /\ j = 1 /\ \A z \in (b + 1)..(c - 1) : bs[z] = << >>
    <3>1. ~(x \in (b + 1)..(c - 1))
      <4> SUFFICES ASSUME x \in (b + 1)..(c - 1) PROVE FALSE
        OBVIOUS
      <4>1. bs[x] = << >>
        BY <2>4
      <4> QED
        BY <4>1
    <3>2. y \in Nat /\ y >= 1 /\ (x = b => y <= i)
      BY <1>1, <2>4
    <3>3. c > b /\ j = 1 /\ c \in Nat /\ b \in Nat /\ x \in Nat
      BY <1>0, <2>4
    <3>4. CASE x <= b
      BY <2>1, <2>2, <3>2, <3>3, <3>4
    <3>5. CASE x > b
      <4>1. x >= c
        BY <3>1, <3>3, <3>5
      <4> QED
        BY <2>1, <2>2, <3>2, <3>3, <3>5, <4>1
    <3> QED
      BY <3>3, <3>4, <3>5
  <2> QED
    BY <2>3, <2>4
<1> QED
  BY <1>2, <1>3 DEF Upto

(* Nothing is left. *)
LEMMA UptoEnd ==
    ASSUME NEW bs, NEW N, Proper(bs, N), NEW s, NEW b \in 0..(N - 1), NEW i \in Nat,
           Upto(bs, N, s, b, i), i >= Len(bs[b]),
           \A x \in (b + 1)..(N - 1) : bs[x] = << >>
    PROVE  AllIn(bs, s)
<1>0. N \in Nat \ {0} /\ Chained(bs, N)
  BY DEF Proper, Chained
<1> SUFFICES ASSUME NEW p \in Stored(bs) PROVE p.key \in s
  BY DEF AllIn
<1>1. PICK x \in 0..(N - 1) : \E y \in 1..Len(bs[x]) : bs[x][y] = p
  BY <1>0, StoredIs
<1>2. PICK y \in 1..Len(bs[x]) : bs[x][y] = p
  BY <1>1
<1>3. ~(x \in (b + 1)..(N - 1))
  <2> SUFFICES ASSUME x \in (b + 1)..(N - 1) PROVE FALSE
    OBVIOUS
  <2>1. bs[x] = << >>
    OBVIOUS
  <2> QED
    BY <2>1
<1>4. x < b \/ (x = b /\ y <= i)
  <2>1. Len(bs[x]) \in Nat
    BY <1>0, ChainIs
  <2> QED
    BY <1>0, <1>3, <2>1
<1> QED
  BY <1>2, <1>4 DEF Upto

(* Without the pair at place i the ones before it are those seen. *)
LEMMA UptoWithout ==
    ASSUME NEW bs, NEW N, Proper(bs, N), NEW s, NEW k \in Keys,
           Has_Key(bs[HashKeyToBucketNum(k, N)], k),
           Upto(bs, N, s, HashKeyToBucketNum(k, N), PlaceOf(bs[HashKeyToBucketNum(k, N)], k))
    PROVE  Upto(WithoutKey(bs, N, k), N, s, HashKeyToBucketNum(k, N),
                PlaceOf(bs[HashKeyToBucketNum(k, N)], k) - 1)
<1> DEFINE B == HashKeyToBucketNum(k, N)
           c == bs[B]
           d == Without(c, k)
           P == PlaceOf(c, k)
           new == [bs EXCEPT ![B] = d]
<1>0. N \in Nat \ {0} /\ Chained(bs, N)
  BY DEF Proper, Chained
<1>1. B \in 0..(N - 1)
  BY <1>0, BucketOfKey
<1>a. Has_Key(c, k) /\ Upto(bs, N, s, B, P)
  OBVIOUS
<1>b. WithoutKey(bs, N, k) = new
  BY DEF WithoutKey
<1>d. HashKeyToBucketNum(k, N) = B /\ PlaceOf(bs[B], k) = P
  OBVIOUS
<1> HIDE DEF B
<1>2. c \in Seq(Pairs) /\ Len(c) \in Nat
  BY <1>0, <1>1, ChainIs
<1>c. c = bs[B]
  OBVIOUS
<1> HIDE DEF c
<1>3. /\ d \in Seq(Pairs) /\ Len(d) = Len(c) - 1
      /\ P \in 1..Len(c)
      /\ \A i \in 1..(P - 1) : d[i] = c[i]
      /\ \A i \in P..(Len(c) - 1) : d[i] = c[i + 1]
  <2>1. /\ Without(c, k) \in Seq(Pairs) /\ Len(Without(c, k)) = Len(c) - 1
        /\ PlaceOf(c, k) \in 1..Len(c) /\ c[PlaceOf(c, k)].key = k
        /\ \A i \in 1..(PlaceOf(c, k) - 1) : Without(c, k)[i] = c[i]
        /\ \A i \in PlaceOf(c, k)..(Len(c) - 1) : Without(c, k)[i] = c[i + 1]
    BY <1>2, <1>a, WithoutIs
  <2> QED
    BY <2>1
<1> HIDE DEF d, P
<1>4. new[B] = d /\ \A b \in 0..(N - 1) : b # B => new[b] = bs[b]
  BY <1>0, <1>1 DEF Chained
<1> HIDE DEF new
<1>5. ASSUME NEW x \in 0..(N - 1), NEW y \in 1..Len(new[x])
      PROVE  new[x][y].key \in s <=> x < B \/ (x = B /\ y <= P - 1)
  <2>1. CASE x # B
    BY <1>4, <1>a, <2>1 DEF Upto
  <2>2. CASE x = B /\ y < P
    <3>1. y \in 1..(P - 1) /\ y \in 1..Len(c)
      BY <1>2, <1>3, <1>4, <2>2
    <3>2. new[x][y] = c[y]
      BY <1>3, <1>4, <2>2, <3>1
    <3>3. c[y].key \in s <=> B < B \/ (B = B /\ y <= P)
      BY <1>1, <1>a, <1>c, <3>1 DEF Upto
    <3> QED
      BY <1>1, <1>3, <2>2, <3>1, <3>2, <3>3
  <2>3. CASE x = B /\ ~(y < P)
    <3>1. y \in P..(Len(c) - 1) /\ y + 1 \in 1..Len(c) /\ ~(y + 1 <= P)
      BY <1>2, <1>3, <1>4, <2>3
    <3>2. new[x][y] = c[y + 1]
      BY <1>3, <1>4, <2>3, <3>1
    <3>3. c[y + 1].key \in s <=> B < B \/ (B = B /\ y + 1 <= P)
      BY <1>1, <1>a, <1>c, <3>1 DEF Upto
    <3> QED
      BY <1>1, <1>3, <2>3, <3>1, <3>2, <3>3
  <2> QED
    BY <2>1, <2>2, <2>3
<1>6. Upto(new, N, s, B, P - 1)
  BY <1>5 DEF Upto
<1> QED
  BY <1>6, <1>b, <1>d

NextPlace(bs, N, b, i, c, j) ==
    /\ c \in 0..(N - 1) /\ j \in 1..Len(bs[c])
    /\ \/ c = b /\ j = i + 1
       \/ c > b /\ i = Len(bs[b]) /\ j = 1 /\ \A x \in (b + 1)..(c - 1) : bs[x] = << >>

(* In a proper table PlaceOf finds the place of a key, wherever that is. *)
LEMMA PlaceUnique ==
    ASSUME NEW bs, NEW N, Proper(bs, N), NEW b \in 0..(N - 1), NEW i \in 1..Len(bs[b])
    PROVE  Has_Key(bs[b], bs[b][i].key) /\ PlaceOf(bs[b], bs[b][i].key) = i
<1> DEFINE k == bs[b][i].key
<1>1. DOMAIN bs[b] = 1..Len(bs[b])
  BY ChainIs DEF Proper
<1>2. Has_Key(bs[b], k)
  BY <1>1 DEF Has_Key
<1>3. PlaceOf(bs[b], k) \in 1..Len(bs[b]) /\ bs[b][PlaceOf(bs[b], k)].key = k
  BY <1>1, <1>2, PlaceIs
<1>4. \A j \in 1..Len(bs[b]) : bs[b][j].key = k => i = j
  BY DEF Proper
<1> HIDE DEF k
<1>5. PlaceOf(bs[b], k) = i
  BY <1>3, <1>4
<1> QED
  BY <1>2, <1>5 DEF k

(* The place that follows a pair still follows when the pair is taken out, *)
(* with its key.                                                           *)
LEMMA NextWithout ==
    ASSUME NEW bs, NEW N, Proper(bs, N), NEW k \in Keys,
           NEW B, B = HashKeyToBucketNum(k, N), Has_Key(bs[B], k),
           NEW P, P = PlaceOf(bs[B], k),
           NEW c, NEW j, NextPlace(bs, N, B, P, c, j)
    PROVE  \E i : /\ NextPlace(WithoutKey(bs, N, k), N, B, P - 1, c, i)
                  /\ WithoutKey(bs, N, k)[c][i].key = bs[c][j].key
<1>0. N \in Nat \ {0} /\ Chained(bs, N)
  BY DEF Proper, Chained
<1>1. B \in 0..(N - 1)
  BY <1>0, BucketOfKey
<1> DEFINE a == bs[B]
           d == Without(a, k)
           new == WithoutKey(bs, N, k)
<1>2. a \in Seq(Pairs) /\ Len(a) \in Nat
  BY <1>0, <1>1, ChainIs
<1>3. /\ d \in Seq(Pairs) /\ Len(d) = Len(a) - 1
      /\ P \in 1..Len(a)
      /\ \A i \in P..(Len(a) - 1) : d[i] = a[i + 1]
  <2> HIDE DEF a, d
  <2>1. Has_Key(a, k) /\ P = PlaceOf(a, k) /\ d = Without(a, k)
    BY DEF a, d
  <2>2. /\ Without(a, k) \in Seq(Pairs) /\ Len(Without(a, k)) = Len(a) - 1
        /\ PlaceOf(a, k) \in 1..Len(a) /\ a[PlaceOf(a, k)].key = k
        /\ \A i \in 1..(PlaceOf(a, k) - 1) : Without(a, k)[i] = a[i]
        /\ \A i \in PlaceOf(a, k)..(Len(a) - 1) : Without(a, k)[i] = a[i + 1]
    BY <1>2, <2>1, WithoutIs
  <2> QED
    BY <2>1, <2>2
<1>4. new[B] = d /\ \A b \in 0..(N - 1) : b # B => new[b] = bs[b]
  BY <1>0, <1>1 DEF Chained, WithoutKey
<1>c. a = bs[B]
  OBVIOUS
<1> HIDE DEF a, d, new
<1>5. CASE c = B /\ j = P + 1
  <2>1. P \in P..(Len(a) - 1) /\ P \in 1..Len(d)
    BY <1>2, <1>3, <1>5, <1>c DEF NextPlace
  <2>2. NextPlace(new, N, B, P - 1, c, P)
    BY <1>1, <1>3, <1>4, <1>5, <2>1 DEF NextPlace
  <2>3. new[c][P] = bs[c][j]
    BY <1>3, <1>4, <1>5, <1>c, <2>1
  <2> QED
    BY <2>2, <2>3 DEF new
<1>6. CASE c > B /\ P = Len(bs[B]) /\ j = 1 /\ \A x \in (B + 1)..(c - 1) : bs[x] = << >>
  <2>1. c \in 0..(N - 1) /\ j \in 1..Len(bs[c])
    BY DEF NextPlace
  <2>2. c # B /\ new[c] = bs[c]
    BY <1>1, <1>4, <1>6, <2>1
  <2>3. \A x \in (B + 1)..(c - 1) : new[x] = << >>
    <3> SUFFICES ASSUME NEW x \in (B + 1)..(c - 1) PROVE new[x] = << >>
      OBVIOUS
    <3>1. x \in 0..(N - 1) /\ x # B
      BY <1>0, <1>1, <2>1
    <3> QED
      BY <1>4, <1>6, <3>1
  <2>4. P - 1 = Len(new[B])
    BY <1>3, <1>4, <1>6, <1>c
  <2>5. NextPlace(new, N, B, P - 1, c, j)
    BY <1>6, <2>1, <2>2, <2>3, <2>4 DEF NextPlace
  <2> QED
    BY <2>2, <2>5 DEF new
<1> QED
  BY <1>5, <1>6 DEF NextPlace, new

(* Where the iterator goes. *)
LEMMA AdvancedIs ==
    ASSUME IInv, it.on = "valid"
    PROVE  LET B == it.bucket
               P == PlaceOf(buckets[B], it.key)
           IN  /\ P \in 1..Len(buckets[B]) /\ buckets[B][P].key = it.key
               /\ B = HashKeyToBucketNum(it.key, num_buckets)
               /\ Upto(buckets, num_buckets, seen, B, P)
               /\ \/ \E c, j : /\ NextPlace(buckets, num_buckets, B, P, c, j)
                               /\ Advanced = [on |-> "valid", bucket |-> c, key |-> buckets[c][j].key]
                               /\ buckets[c][j].key \in Keys \ seen
                               /\ buckets[c][j] \in Stored(buckets)
                               /\ Upto(buckets, num_buckets, seen \cup {buckets[c][j].key}, c, j)
                  \/ Advanced = [on |-> "end", bucket |-> B, key |-> None] /\ AllIn(buckets, seen)
<1> DEFINE B == it.bucket
           P == PlaceOf(buckets[B], it.key)
           c == buckets[B]
<1>1. /\ it = [on |-> "valid", bucket |-> B, key |-> it.key]
      /\ num_buckets \in Nat \ {0} /\ Chained(buckets, num_buckets)
      /\ B \in 0..(num_buckets - 1) /\ Has_Key(c, it.key)
  BY DEF IInv, TypeOK, IterOK, Proper, Chained
<1>2. Proper(buckets, num_buckets) /\ Upto(buckets, num_buckets, seen, B, P)
  BY DEF IInv, Visited
<1>3. c \in Seq(Pairs) /\ Len(c) \in Nat /\ DOMAIN c = 1..Len(c)
  BY <1>1, ChainIs
<1>4. P \in 1..Len(c) /\ c[P].key = it.key
  BY <1>1, <1>3, PlaceIs
<1>5. B = HashKeyToBucketNum(it.key, num_buckets)
  BY <1>1, <1>2, <1>4 DEF Proper
<1>6. Advanced = IF P < Len(c) THEN [it EXCEPT !.key = c[P + 1].key]
                 ELSE IF NextBuckets # {} THEN FirstOf(NextBuckets)
                 ELSE [on |-> "end", bucket |-> it.bucket, key |-> None]
  BY DEF Advanced
<1>c. c = buckets[B]
  OBVIOUS
<1>g. ASSUME NEW x, NEW y, NextPlace(buckets, num_buckets, B, P, x, y)
      PROVE  /\ buckets[x][y].key \in Keys \ seen /\ buckets[x][y] \in Stored(buckets)
             /\ Upto(buckets, num_buckets, seen \cup {buckets[x][y].key}, x, y)
  <2> HIDE DEF B, P, c
  <2>0. x \in 0..(num_buckets - 1) /\ y \in 1..Len(buckets[x]) /\ P \in Nat /\ P <= Len(buckets[B])
    BY <1>3, <1>4, <1>c, <1>g DEF NextPlace
  <2>1. buckets[x][y] \in Pairs /\ buckets[x][y].key \in Keys
    BY <1>1, <2>0, ChainIs DEF Pairs
  <2>2. buckets[x][y] \in Stored(buckets)
    BY <1>1, <2>0, StoredIs
  <2>3. buckets[x][y].key \notin seen /\ Upto(buckets, num_buckets, seen \cup {buckets[x][y].key}, x, y)
    <3>1. \/ x = B /\ y = P + 1
          \/ x > B /\ P = Len(buckets[B]) /\ y = 1 /\ \A z \in (B + 1)..(x - 1) : buckets[z] = << >>
      BY <1>g DEF NextPlace
    <3> QED
      BY <1>1, <1>2, <2>0, <3>1, UptoNext
  <2> QED
    BY <2>1, <2>2, <2>3
<1>7. CASE P < Len(c)
  <2> HIDE DEF B, P, c
  <2>1. NextPlace(buckets, num_buckets, B, P, B, P + 1)
    BY <1>1, <1>3, <1>4, <1>7, <1>c DEF NextPlace
  <2>2. Advanced = [on |-> "valid", bucket |-> B, key |-> buckets[B][P + 1].key]
    BY <1>1, <1>6, <1>7, <1>c
  <2>3. \E x, y : /\ NextPlace(buckets, num_buckets, B, P, x, y)
                  /\ Advanced = [on |-> "valid", bucket |-> x, key |-> buckets[x][y].key]
                  /\ buckets[x][y].key \in Keys \ seen /\ buckets[x][y] \in Stored(buckets)
                  /\ Upto(buckets, num_buckets, seen \cup {buckets[x][y].key}, x, y)
    BY <2>1, <2>2, <1>g
  <2> QED
    BY <1>2, <1>4, <1>5, <1>c, <2>3 DEF B, P
<1>8. CASE ~(P < Len(c)) /\ NextBuckets # {}
  <2>1. PICK b \in (B + 1)..(num_buckets - 1) :
          /\ FirstOf(NextBuckets) = [on |-> "valid", bucket |-> b, key |-> buckets[b][1].key]
          /\ Len(buckets[b]) >= 1
          /\ \A x \in (B + 1)..(b - 1) : buckets[x] = << >>
    <3>1. B + 1 \in Nat
      BY <1>1
    <3>2. NextBuckets = Filled((B + 1)..(num_buckets - 1))
      BY DEF NextBuckets
    <3> HIDE DEF B
    <3> DEFINE lo == B + 1
    <3> HIDE DEF lo
    <3>3. \E b \in lo..(num_buckets - 1) :
             /\ FirstOf(Filled(lo..(num_buckets - 1))) =
                  [on |-> "valid", bucket |-> b, key |-> buckets[b][1].key]
             /\ Len(buckets[b]) >= 1
             /\ \A x \in lo..(b - 1) : buckets[x] = << >>
      <4>1. lo \in Nat /\ Filled(lo..(num_buckets - 1)) # {}
        BY <1>8, <3>1, <3>2 DEF lo
      <4> QED
        BY <1>1, <4>1, FirstIs
    <3> QED
      BY <3>2, <3>3 DEF lo
  <2> HIDE DEF B, P, c
  <2>2. b \in 0..(num_buckets - 1) /\ 1 \in 1..Len(buckets[b]) /\ b > B
    <3>1. b \in 0..(num_buckets - 1) /\ b > B
      BY <1>1
    <3>2. Len(buckets[b]) \in Nat
      BY <1>1, <3>1, ChainIs
    <3> QED
      BY <2>1, <3>1, <3>2
  <2>3. NextPlace(buckets, num_buckets, B, P, b, 1)
    BY <1>3, <1>4, <1>8, <1>c, <2>1, <2>2 DEF NextPlace
  <2>4. Advanced = [on |-> "valid", bucket |-> b, key |-> buckets[b][1].key]
    BY <1>6, <1>8, <2>1
  <2>5. \E x, y : /\ NextPlace(buckets, num_buckets, B, P, x, y)
                  /\ Advanced = [on |-> "valid", bucket |-> x, key |-> buckets[x][y].key]
                  /\ buckets[x][y].key \in Keys \ seen /\ buckets[x][y] \in Stored(buckets)
                  /\ Upto(buckets, num_buckets, seen \cup {buckets[x][y].key}, x, y)
    BY <2>3, <2>4, <1>g
  <2> QED
    BY <1>2, <1>4, <1>5, <1>c, <2>5 DEF B, P
<1>9. CASE ~(P < Len(c)) /\ NextBuckets = {}
  <2>1. \A x \in (B + 1)..(num_buckets - 1) : buckets[x] = << >>
    BY <1>9 DEF NextBuckets, Filled
  <2> HIDE DEF B, P, c
  <2>2. AllIn(buckets, seen)
    <3>1. P \in Nat /\ P >= Len(buckets[B])
      BY <1>3, <1>4, <1>9, <1>c
    <3> QED
      BY <1>1, <1>2, <2>1, <3>1, UptoEnd
  <2>3. Advanced = [on |-> "end", bucket |-> B, key |-> None]
    BY <1>6, <1>9 DEF B
  <2> QED
    BY <1>2, <1>4, <1>5, <1>c, <2>2, <2>3 DEF B, P
<1> QED
  BY <1>7, <1>8, <1>9

----------------------------------------------------------------------------
(* Putting a pair in adds one to the count unless its key was there. *)
LEMMA CardinalityOfPut ==
    ASSUME NEW S \in SUBSET Pairs, IsFiniteSet(S), \A p, r \in S : p.key = r.key => p = r,
           NEW e \in Pairs
    PROVE  LET new == {p \in S : p.key # e.key} \cup {e}
           IN  /\ IsFiniteSet(new)
               /\ Cardinality(new) = IF \E p \in S : p.key = e.key THEN Cardinality(S)
                                                                   ELSE Cardinality(S) + 1
<1> DEFINE R == {p \in S : p.key # e.key}
<1>1. Cardinality(S) \in Nat
  BY FS_CardinalityType
<1>2. e \notin R
  OBVIOUS
<1>3. CASE \E p \in S : p.key = e.key
  <2>1. PICK p \in S : p.key = e.key
    BY <1>3
  <2>2. R = S \ {p}
    BY <2>1
  <2> HIDE DEF R
  <2>3. IsFiniteSet(R) /\ Cardinality(R) = Cardinality(S) - 1
    BY <2>1, <2>2, FS_RemoveElement
  <2>4. IsFiniteSet(R \cup {e}) /\ Cardinality(R \cup {e}) = Cardinality(R) + 1
    BY <1>2, <2>3, FS_AddElement
  <2> QED
    BY <1>1, <1>3, <2>3, <2>4 DEF R
<1>4. CASE ~\E p \in S : p.key = e.key
  <2>1. R = S
    BY <1>4
  <2> HIDE DEF R
  <2>2. IsFiniteSet(R \cup {e}) /\ Cardinality(R \cup {e}) = Cardinality(S) + 1
    BY <1>2, <2>1, FS_AddElement
  <2> QED
    BY <1>4, <2>2 DEF R
<1> QED
  BY <1>3, <1>4

(* Taking a key out takes one off the count if it was there. *)
LEMMA CardinalityOfRemove ==
    ASSUME NEW S \in SUBSET Pairs, IsFiniteSet(S), \A p, r \in S : p.key = r.key => p = r,
           NEW k
    PROVE  LET new == {p \in S : p.key # k}
           IN  /\ IsFiniteSet(new)
               /\ Cardinality(new) = IF \E p \in S : p.key = k THEN Cardinality(S) - 1
                                                                ELSE Cardinality(S)
               /\ (\E p \in S : p.key = k) => Cardinality(S) >= 1
<1> DEFINE R == {p \in S : p.key # k}
<1>1. Cardinality(S) \in Nat
  BY FS_CardinalityType
<1>3. CASE \E p \in S : p.key = k
  <2>1. PICK p \in S : p.key = k
    BY <1>3
  <2>2. R = S \ {p}
    BY <2>1
  <2> HIDE DEF R
  <2>3. IsFiniteSet(R) /\ Cardinality(R) = Cardinality(S) - 1
    BY <2>1, <2>2, FS_RemoveElement
  <2>4. Cardinality(R) \in Nat
    BY <2>3, FS_CardinalityType
  <2> QED
    BY <1>1, <1>3, <2>3, <2>4 DEF R
<1>4. CASE ~\E p \in S : p.key = k
  <2>1. R = S
    BY <1>4
  <2> QED
    BY <1>4, <2>1
<1> QED
  BY <1>3, <1>4

----------------------------------------------------------------------------
(* A new table has its invariant. *)
LEMMA InitHolds == Init => IInv
<1> SUFFICES ASSUME Init PROVE IInv
  OBVIOUS
<1>0. FirstBuckets \in Nat \ {0}
  BY TableAssumption
<1>1. Proper(buckets, num_buckets) /\ Stored(buckets) = {}
  BY <1>0, EmptyIsProper DEF Init
<1>2. TypeOK
  <2>1. buckets \in [0..(num_buckets - 1) -> Seq(Pairs)]
    BY <1>1 DEF Proper, Chained
  <2>2. it \in [on : {"none", "valid", "end", "dangling"},
               bucket : -1..(num_buckets - 1), key : Keys \cup {None}]
    <3>1. -1 \in -1..(num_buckets - 1)
      BY <1>0 DEF Init
    <3> QED
      BY <3>1 DEF Init, NoIter
  <2> QED
    BY <1>0, <2>1, <2>2 DEF Init, TypeOK
<1>3. Counted
  BY <1>0, <1>1, FS_EmptySet DEF Init, Counted
<1>4. IterOK /\ Visited
  BY <1>0 DEF Init, IterOK, Visited, NoIter
<1> QED
  BY <1>1, <1>2, <1>3, <1>4 DEF IInv

(* HashTable_Insert keeps the invariant and stores the pair in place of *)
(* its key's, resized or not.                                           *)
LEMMA InsertKeeps ==
    ASSUME IInv, NEW k \in Keys, NEW v \in Values, Insert(k, v)
    PROVE  /\ IInv'
           /\ Stored(buckets') = {p \in Stored(buckets) : p.key # k} \cup {[key |-> k, value |-> v]}
<1> DEFINE e == [key |-> k, value |-> v]
           bs == NewBuckets
           N == NewSize
<1>0. /\ TypeOK /\ Proper(buckets, num_buckets) /\ num_elements <= 3 * num_buckets
      /\ num_elements \in Nat
  BY DEF IInv, Counted, TypeOK
<1>1. /\ N \in Nat \ {0} /\ N >= num_buckets /\ num_elements < 3 * N
      /\ Proper(bs, N) /\ Stored(bs) = Stored(buckets)
  BY <1>0, Resized
<1>2. e \in Pairs /\ e.key = k
  BY DEF Pairs
<1>3. /\ num_buckets' = N /\ buckets' = Put(bs, N, e)
      /\ num_elements' = IF Present(k) THEN num_elements ELSE num_elements + 1
      /\ live /\ it.on = "none" /\ live' = live /\ it' = it /\ seen' = seen /\ tight' = tight
  BY DEF Insert, TableCall
<1>4. /\ Present(k) <=> \E p \in Stored(buckets) : p.key = k
      /\ answer' \in [ok : BOOLEAN, out : Pairs \cup {None}]
  BY <1>0, LookupIs DEF Insert
<1> HIDE DEF e, bs, N
<1>5. /\ Proper(buckets', num_buckets')
      /\ Stored(buckets') = {p \in Stored(buckets) : p.key # k} \cup {e}
  BY <1>1, <1>2, <1>3, PutKeeps
<1>6. /\ IsFiniteSet(Stored(buckets')) /\ num_elements' = Cardinality(Stored(buckets'))
      /\ num_elements' \in Nat /\ num_elements' <= 3 * num_buckets'
  <2> DEFINE S == Stored(buckets)
  <2>1. S \in SUBSET Pairs /\ \A p, r \in S : p.key = r.key => p = r
    BY <1>0, StoredKeys
  <2>2. IsFiniteSet(S) /\ num_elements = Cardinality(S)
    BY <1>3 DEF IInv, Counted
  <2> HIDE DEF S
  <2>3. LET new == {p \in S : p.key # e.key} \cup {e}
        IN  /\ IsFiniteSet(new)
            /\ Cardinality(new) = IF \E p \in S : p.key = e.key THEN Cardinality(S)
                                                                ELSE Cardinality(S) + 1
    BY <1>2, <2>1, <2>2, CardinalityOfPut
  <2>4. Stored(buckets') = {p \in S : p.key # e.key} \cup {e}
    BY <1>2, <1>5 DEF S
  <2>5. Present(k) <=> \E p \in S : p.key = e.key
    BY <1>2, <1>4 DEF S
  <2>6. IsFiniteSet(Stored(buckets')) /\ num_elements' = Cardinality(Stored(buckets'))
    BY <1>3, <2>2, <2>3, <2>4, <2>5
  <2> QED
    BY <1>0, <1>1, <1>3, <2>6
<1>7. it = NoIter /\ it' = NoIter
  BY <1>3 DEF IInv, IterOK
<1>8. TypeOK'
  <2>1. buckets' \in [0..(num_buckets' - 1) -> Seq(Pairs)]
    BY <1>5 DEF Proper, Chained
  <2>2. it' \in [on : {"none", "valid", "end", "dangling"},
                 bucket : -1..(num_buckets' - 1), key : Keys \cup {None}]
    BY <1>1, <1>3, <1>7 DEF NoIter
  <2> QED
    BY <1>0, <1>1, <1>3, <1>4, <1>6, <2>1, <2>2 DEF TypeOK
<1>9. Counted'
  BY <1>3, <1>6 DEF Counted
<1>10. IterOK' /\ Visited'
  <2>1. seen' = {}
    BY <1>3 DEF IInv, IterOK
  <2>2. it'.on = "none"
    BY <1>7 DEF NoIter
  <2> QED
    BY <1>7, <2>1, <2>2 DEF IterOK, Visited
<1> QED
  BY <1>5, <1>8, <1>9, <1>10 DEF IInv, e

(* HashTable_Find, which may resize too, keeps the invariant and the *)
(* pairs.                                                            *)
LEMMA FindKeeps ==
    ASSUME IInv, NEW k \in Keys, Find(k)
    PROVE  IInv' /\ Stored(buckets') = Stored(buckets)
<1> DEFINE bs == NewBuckets
           N == NewSize
<1>0. /\ TypeOK /\ Proper(buckets, num_buckets) /\ num_elements <= 3 * num_buckets
      /\ num_elements \in Nat
  BY DEF IInv, Counted, TypeOK
<1>1. /\ N \in Nat \ {0} /\ N >= num_buckets /\ num_elements < 3 * N
      /\ Proper(bs, N) /\ Stored(bs) = Stored(buckets)
      /\ ~MustResize => N = num_buckets /\ bs = buckets
  BY <1>0, Resized
<1>3. /\ num_buckets' = N /\ buckets' = bs /\ num_elements' = num_elements
      /\ live /\ it.on # "dangling" /\ live' = live /\ it' = AfterResize(it)
      /\ seen' = seen /\ tight' = tight
  BY DEF Find
<1>4. answer' \in [ok : BOOLEAN, out : Pairs \cup {None}]
  BY <1>0, LookupIs DEF Find
<1> HIDE DEF bs, N
<1>5. Proper(buckets', num_buckets') /\ Stored(buckets') = Stored(buckets)
  BY <1>1, <1>3
<1>t. it \in [on : {"none", "valid", "end", "dangling"},
              bucket : -1..(num_buckets - 1), key : Keys \cup {None}]
  BY <1>0 DEF TypeOK
<1>6. /\ it'.on \in {"none", "valid", "end", "dangling"} /\ it'.bucket = it.bucket /\ it'.key = it.key
      /\ it' \in [on : {"none", "valid", "end", "dangling"},
                   bucket : -1..(num_buckets - 1), key : Keys \cup {None}]
      /\ it'.on = IF MustResize /\ it.on = "valid" THEN "dangling" ELSE it.on
      /\ ~(MustResize /\ it.on = "valid") => it' = it
  BY <1>3, <1>t DEF AfterResize
<1>8. TypeOK'
  <2>1. buckets' \in [0..(num_buckets' - 1) -> Seq(Pairs)]
    BY <1>5 DEF Proper, Chained
  <2>2. it' \in [on : {"none", "valid", "end", "dangling"},
                 bucket : -1..(num_buckets' - 1), key : Keys \cup {None}]
    <3>1. num_buckets \in Nat
      BY <1>0 DEF TypeOK
    <3>2. -1..(num_buckets - 1) \subseteq -1..(num_buckets' - 1)
      BY <1>1, <1>3, <3>1
    <3> QED
      BY <1>6, <3>2
  <2> QED
    BY <1>0, <1>1, <1>3, <1>4, <2>1, <2>2 DEF TypeOK
<1>9. Counted'
  BY <1>0, <1>1, <1>3, <1>5 DEF IInv, Counted
<1>10. IterOK'
  <2>1. CASE MustResize
    <3>1. it.on = "valid" => tight
      BY <1>0, <2>1 DEF IInv, IterOK, MustResize, TypeOK
    <3> QED
      BY <1>0, <1>1, <1>3, <1>6, <2>1, <3>1 DEF IInv, IterOK
  <2>2. CASE ~MustResize
    <3>1. it' = it /\ buckets' = buckets /\ num_buckets' = num_buckets
      BY <1>1, <1>3, <1>6, <2>2
    <3> QED
      BY <1>3, <3>1 DEF IInv, IterOK
  <2> QED
    BY <2>1, <2>2
<1>11. Visited'
  <2>1. CASE MustResize
    <3>1. it'.on # "valid"
      BY <1>6, <2>1
    <3>2. it'.on = "end" => AllIn(buckets', seen')
      BY <1>3, <1>5, <1>6, <2>1 DEF IInv, Visited, AllIn
    <3> QED
      BY <3>1, <3>2 DEF Visited
  <2>2. CASE ~MustResize
    <3>1. it' = it /\ buckets' = buckets /\ num_buckets' = num_buckets
      BY <1>1, <1>3, <1>6, <2>2
    <3> QED
      BY <1>3, <3>1 DEF IInv, Visited
  <2> QED
    BY <2>1, <2>2
<1> QED
  BY <1>5, <1>8, <1>9, <1>10, <1>11 DEF IInv

(* HashTable_Remove without the iterator: the table after it, and the *)
(* pairs that are left.                                               *)
LEMMA DeleteKeeps ==
    ASSUME IInv, NEW k \in Keys, Delete(k), live
    PROVE  /\ Proper(buckets', num_buckets')
           /\ Stored(buckets') = {p \in Stored(buckets) : p.key # k}
           /\ IsFiniteSet(Stored(buckets')) /\ num_elements' = Cardinality(Stored(buckets'))
           /\ num_elements' \in Nat /\ num_elements' <= num_elements /\ num_elements' < 3 * num_buckets'
           /\ num_buckets' \in Nat \ {0} /\ num_buckets' >= num_buckets
           /\ answer' \in [ok : BOOLEAN, out : Pairs \cup {None}]
           /\ ~MustResize => /\ num_buckets' = num_buckets
                             /\ buckets' = WithoutKey(buckets, num_buckets, k)
<1> DEFINE bs == NewBuckets
           N == NewSize
<1>0. /\ TypeOK /\ Proper(buckets, num_buckets) /\ num_elements <= 3 * num_buckets
      /\ num_elements \in Nat
  BY DEF IInv, Counted, TypeOK
<1>1. /\ N \in Nat \ {0} /\ N >= num_buckets /\ num_elements < 3 * N
      /\ Proper(bs, N) /\ Stored(bs) = Stored(buckets)
      /\ ~MustResize => N = num_buckets /\ bs = buckets
  BY <1>0, Resized
<1>3. /\ num_buckets' = N
      /\ buckets' = WithoutKey(bs, N, k)
      /\ num_elements' = IF Present(k) THEN num_elements - 1 ELSE num_elements
  BY DEF Delete, WithoutKey
<1>4. /\ Present(k) <=> \E p \in Stored(buckets) : p.key = k
      /\ answer' \in [ok : BOOLEAN, out : Pairs \cup {None}]
  BY <1>0, LookupIs DEF Delete
<1> HIDE DEF bs, N
<1>5. /\ Proper(buckets', num_buckets')
      /\ Stored(buckets') = {p \in Stored(buckets) : p.key # k}
  BY <1>1, <1>3, RemoveKeeps
<1>6. /\ IsFiniteSet(Stored(buckets')) /\ num_elements' = Cardinality(Stored(buckets'))
      /\ num_elements' \in Nat /\ num_elements' <= num_elements
  <2> DEFINE S == Stored(buckets)
  <2>1. S \in SUBSET Pairs /\ \A p, r \in S : p.key = r.key => p = r
    BY <1>0, StoredKeys
  <2>2. IsFiniteSet(S) /\ num_elements = Cardinality(S)
    BY DEF IInv, Counted
  <2> HIDE DEF S
  <2>3. LET new == {p \in S : p.key # k}
        IN  /\ IsFiniteSet(new)
            /\ Cardinality(new) = IF \E p \in S : p.key = k THEN Cardinality(S) - 1
                                                             ELSE Cardinality(S)
            /\ (\E p \in S : p.key = k) => Cardinality(S) >= 1
    BY <2>1, <2>2, CardinalityOfRemove
  <2>4. Stored(buckets') = {p \in S : p.key # k}
    BY <1>5 DEF S
  <2>5. Present(k) <=> \E p \in S : p.key = k
    BY <1>4 DEF S
  <2>6. IsFiniteSet(Stored(buckets')) /\ num_elements' = Cardinality(Stored(buckets'))
    BY <1>3, <2>2, <2>3, <2>4, <2>5
  <2> QED
    BY <1>0, <1>3, <2>2, <2>3, <2>5, <2>6
<1>7. num_elements' < 3 * num_buckets'
  BY <1>0, <1>1, <1>3, <1>6
<1>8. /\ num_buckets' \in Nat \ {0} /\ num_buckets' >= num_buckets
      /\ ~MustResize => /\ num_buckets' = num_buckets
                        /\ buckets' = WithoutKey(buckets, num_buckets, k)
  BY <1>1, <1>3
<1> QED
  BY <1>4, <1>5, <1>6, <1>7, <1>8

(* HashTable_Remove keeps the invariant. *)
LEMMA CallRemoveKeeps ==
    ASSUME IInv, NEW k \in Keys, CallRemove(k)
    PROVE  IInv'
<1>1. live /\ it.on = "none" /\ live' = live /\ it' = it /\ seen' = seen /\ tight' = tight /\ Delete(k)
  BY DEF CallRemove, TableCall
<1>2. /\ Proper(buckets', num_buckets')
      /\ IsFiniteSet(Stored(buckets')) /\ num_elements' = Cardinality(Stored(buckets'))
      /\ num_elements' \in Nat /\ num_elements' < 3 * num_buckets'
      /\ num_buckets' \in Nat \ {0}
      /\ answer' \in [ok : BOOLEAN, out : Pairs \cup {None}]
  BY <1>1, DeleteKeeps
<1>3. it' = NoIter /\ it'.on = "none" /\ seen' = {}
  BY <1>1 DEF IInv, IterOK
<1>4. TypeOK'
  <2>1. buckets' \in [0..(num_buckets' - 1) -> Seq(Pairs)]
    BY <1>2 DEF Proper, Chained
  <2>2. it' \in [on : {"none", "valid", "end", "dangling"},
                bucket : -1..(num_buckets' - 1), key : Keys \cup {None}]
    <3>1. -1 \in -1..(num_buckets' - 1)
      <4> DEFINE n == num_buckets'
      <4>1. n \in Nat \ {0}
        BY <1>2
      <4> HIDE DEF n
      <4>2. -1 \in -1..(n - 1)
        BY <4>1
      <4> QED
        BY <4>2 DEF n
    <3> QED
      BY <1>3, <3>1 DEF NoIter
  <2>3. live' \in BOOLEAN /\ seen' \subseteq Keys /\ tight' \in BOOLEAN
    BY <1>1 DEF IInv, TypeOK
  <2> QED
    BY <1>2, <2>1, <2>2, <2>3 DEF TypeOK
<1>5. Counted'
  BY <1>2 DEF Counted
<1>6. IterOK' /\ Visited'
  BY <1>3 DEF IterOK, Visited
<1> QED
  BY <1>2, <1>4, <1>5, <1>6 DEF IInv

(* HashTable_Free keeps the invariant and leaves no pair. *)
LEMMA FreeKeeps ==
    ASSUME IInv, Free
    PROVE  IInv' /\ Stored(buckets') = {}
<1>1. num_buckets \in Nat \ {0}
  BY DEF IInv, TypeOK
<1>2. /\ Proper(EmptyBuckets(num_buckets), num_buckets)
      /\ Stored(EmptyBuckets(num_buckets)) = {}
  BY <1>1, EmptyIsProper
<1>3. Proper(buckets', num_buckets') /\ Stored(buckets') = {}
  BY <1>2 DEF Free
<1>4. TypeOK'
  <2>1. buckets' \in [0..(num_buckets' - 1) -> Seq(Pairs)]
    BY <1>3 DEF Proper, Chained
  <2> QED
    BY <2>1 DEF Free, TypeOK, IInv
<1>5. Counted' /\ IterOK' /\ Visited'
  BY DEF Free, IInv, Counted, IterOK, Visited
<1> QED
  BY <1>3, <1>4, <1>5 DEF IInv

(* An iterator is made. *)
LEMMA IterAllocateKeeps ==
    ASSUME IInv, IterAllocate
    PROVE  /\ IInv'
           /\ IF Stored(buckets) = {} THEN it'.key = None
              ELSE \E p \in Stored(buckets) : it'.key = p.key
<1>0. /\ num_buckets \in Nat \ {0} /\ Chained(buckets, num_buckets) /\ Proper(buckets, num_buckets)
      /\ num_elements \in Nat /\ live /\ it.on = "none"
      /\ IsFiniteSet(Stored(buckets)) /\ num_elements = Cardinality(Stored(buckets))
  BY DEF IInv, TypeOK, Proper, Chained, Counted, IterAllocate
<1>1. /\ num_buckets' = num_buckets /\ num_elements' = num_elements /\ buckets' = buckets
      /\ live' = live /\ answer' = answer
      /\ seen' = {it'.key} \ {None} /\ tight' = (num_elements >= 3 * num_buckets)
      /\ it' = IF num_elements = 0 THEN [NoIter EXCEPT !.on = "end"]
                                   ELSE FirstOf(Filled(0..(num_buckets - 1)))
  BY DEF IterAllocate, table
<1>s. num_elements = 0 <=> Stored(buckets) = {}
  BY <1>0, FS_EmptySet
<1>2. CASE num_elements = 0
  <2>1. it' = [on |-> "end", bucket |-> -1, key |-> None]
    BY <1>1, <1>2 DEF NoIter
  <2>2. seen' = {} /\ it'.on = "end" /\ it'.key = None /\ it'.bucket = -1
    BY <1>1, <2>1
  <2>3. -1 \in -1..(num_buckets - 1)
    <3> DEFINE n == num_buckets
    <3>1. n \in Nat \ {0}
      BY <1>0
    <3> HIDE DEF n
    <3>2. -1 \in -1..(n - 1)
      BY <3>1
    <3> QED
      BY <3>2 DEF n
  <2>4. TypeOK'
    BY <1>0, <1>1, <2>1, <2>2, <2>3 DEF IInv, TypeOK
  <2>5. Counted'
    BY <1>1 DEF IInv, Counted
  <2>6. IterOK'
    BY <1>0, <1>1, <1>2, <2>2 DEF IterOK
  <2>7. Visited'
    BY <1>1, <1>2, <1>s, <2>2 DEF Visited, AllIn
  <2> QED
    BY <1>0, <1>1, <1>2, <1>s, <2>2, <2>4, <2>5, <2>6, <2>7 DEF IInv
<1>3. CASE num_elements # 0
  <2>0. Filled(0..(num_buckets - 1)) # {}
    <3>1. PICK p : p \in Stored(buckets)
      BY <1>3, <1>s
    <3>2. PICK b \in 0..(num_buckets - 1) : \E i \in 1..Len(buckets[b]) : buckets[b][i] = p
      BY <1>0, <3>1, StoredIs
    <3>3. buckets[b] # << >>
      <4> SUFFICES ASSUME buckets[b] = << >> PROVE FALSE
        OBVIOUS
      <4> QED
        BY <3>2
    <3> QED
      BY <3>2, <3>3 DEF Filled
  <2>1. PICK b \in 0..(num_buckets - 1) :
          /\ FirstOf(Filled(0..(num_buckets - 1))) =
               [on |-> "valid", bucket |-> b, key |-> buckets[b][1].key]
          /\ Len(buckets[b]) >= 1
          /\ \A x \in 0..(b - 1) : buckets[x] = << >>
    <3>1. 0 \in Nat
      OBVIOUS
    <3> QED
      BY <1>0, <2>0, <3>1, FirstIs
  <2> DEFINE k == buckets[b][1].key
  <2>2. Len(buckets[b]) \in Nat /\ 1 \in 1..Len(buckets[b])
    BY <1>0, <2>1, ChainIs
  <2>3. k \in Keys /\ k # None /\ buckets[b][1] \in Stored(buckets)
    <3>1. buckets[b][1] \in Pairs
      BY <1>0, <2>2, ChainIs
    <3>2. buckets[b][1] \in Stored(buckets)
      BY <1>0, <2>2, StoredIs
    <3> QED
      BY <3>1, <3>2, TableAssumption DEF Pairs
  <2>4. Has_Key(buckets[b], k) /\ PlaceOf(buckets[b], k) = 1
    BY <1>0, <2>2, PlaceUnique
  <2>5. Upto(buckets, num_buckets, {k}, b, 1)
    <3> SUFFICES ASSUME NEW x \in 0..(num_buckets - 1), NEW y \in 1..Len(buckets[x])
                 PROVE  buckets[x][y].key \in {k} <=> x < b \/ (x = b /\ y <= 1)
      BY DEF Upto
    <3>1. ~(x < b)
      <4> SUFFICES ASSUME x < b PROVE FALSE
        OBVIOUS
      <4>1. x \in 0..(b - 1)
        BY <1>0
      <4>2. buckets[x] = << >>
        BY <2>1, <4>1
      <4> QED
        BY <4>2
    <3>2. Len(buckets[x]) \in Nat
      BY <1>0, ChainIs
    <3>3. buckets[x][y].key = k <=> x = b /\ y = 1
      <4>1. buckets[x][y].key = k => x = b
        BY <1>0, <2>2 DEF Proper
      <4> QED
        BY <1>0, <2>2, <4>1 DEF Proper
    <3> QED
      BY <3>1, <3>2, <3>3
  <2> HIDE DEF k
  <2>6. it' = [on |-> "valid", bucket |-> b, key |-> k]
    BY <1>1, <1>3, <2>1 DEF k
  <2>7. it'.on = "valid" /\ it'.bucket = b /\ it'.key = k /\ seen' = {k}
    BY <1>1, <2>3, <2>6
  <2>8. b \in -1..(num_buckets - 1)
    BY <1>0
  <2>9. TypeOK'
    BY <1>0, <1>1, <2>3, <2>6, <2>7, <2>8 DEF IInv, TypeOK
  <2>10. Counted'
    BY <1>1 DEF IInv, Counted
  <2>11. IterOK'
    <3>1. ~tight' => num_elements' < 3 * num_buckets'
      <4>1. tight' = (num_elements >= 3 * num_buckets)
        BY <1>1
      <4>2. ~tight' => ~(num_elements >= 3 * num_buckets)
        BY <4>1, Zenon
      <4> QED
        BY <1>0, <1>1, <4>2
    <3>2. live' /\ Has_Key(buckets'[b], k) /\ b \in 0..(num_buckets' - 1)
      BY <1>0, <1>1, <2>4 DEF k
    <3> QED
      BY <2>3, <2>7, <3>1, <3>2 DEF IterOK
  <2>12. Visited'
    BY <1>1, <2>4, <2>5, <2>7 DEF Visited
  <2> QED
    BY <1>0, <1>1, <1>3, <1>s, <2>3, <2>7, <2>9, <2>10, <2>11, <2>12 DEF IInv, k
<1> QED
  BY <1>2, <1>3

(* Freeing the iterator keeps the invariant. *)
LEMMA IterFreeKeeps ==
    ASSUME IInv, IterFree
    PROVE  IInv'
<1>1. it' = NoIter /\ it'.on = "none" /\ seen' = {} /\ tight' = FALSE
  BY DEF IterFree, NoIter
<1>2. num_buckets \in Nat \ {0}
  BY DEF IInv, TypeOK
<1>3. -1 \in -1..(num_buckets - 1)
  <2> DEFINE n == num_buckets
  <2>1. n \in Nat \ {0}
    BY <1>2
  <2> HIDE DEF n
  <2>2. -1 \in -1..(n - 1)
    BY <2>1
  <2> QED
    BY <2>2 DEF n
<1>4. it' \in [on : {"none", "valid", "end", "dangling"},
              bucket : -1..(num_buckets - 1), key : Keys \cup {None}]
  BY <1>1, <1>3 DEF NoIter
<1>5. TypeOK' /\ Proper(buckets', num_buckets') /\ Counted'
  BY <1>1, <1>4 DEF IterFree, table, IInv, TypeOK, Counted
<1>6. IterOK' /\ Visited'
  BY <1>1 DEF IterOK, Visited
<1> QED
  BY <1>5, <1>6 DEF IInv

(* HTIterator_Next keeps the invariant: it goes to the pair after the last *)
(* it met.                                                                 *)
LEMMA IterNextKeeps ==
    ASSUME IInv, IterNext
    PROVE  IInv'
<1>0. /\ num_buckets' = num_buckets /\ num_elements' = num_elements /\ buckets' = buckets
      /\ live' = live /\ tight' = tight /\ it.on \in {"valid", "end"}
      /\ it' = IF it.on = "valid" THEN Advanced ELSE it
      /\ seen' = seen \cup ({it'.key} \ {None})
      /\ answer' = [ok |-> it'.on = "valid", out |-> None]
  BY DEF IterNext, table, Usable, Answer
<1>1. Counted' /\ Proper(buckets', num_buckets')
  BY <1>0 DEF IInv, Counted
<1>2. answer' \in [ok : BOOLEAN, out : Pairs \cup {None}]
  BY <1>0
<1>p. Proper(buckets, num_buckets)
  BY DEF IInv
<1>3. CASE it.on = "end"
  <2>1. it' = it /\ seen' = seen
    BY <1>0, <1>3 DEF IInv, IterOK
  <2> QED
    BY <1>0, <1>1, <1>2, <2>1 DEF IInv, TypeOK, IterOK, Visited
<1>4. CASE it.on = "valid"
  <2> DEFINE B == it.bucket
             P == PlaceOf(buckets[B], it.key)
  <2>a. it' = Advanced
    BY <1>0, <1>4
  <2>b. B \in 0..(num_buckets - 1) /\ num_buckets \in Nat \ {0}
    BY <1>4 DEF IInv, IterOK, TypeOK
  <2>c. live /\ (~tight => num_elements < 3 * num_buckets)
    BY <1>4 DEF IInv, IterOK
  <2>1. CASE \E c, j : /\ NextPlace(buckets, num_buckets, B, P, c, j)
                       /\ Advanced = [on |-> "valid", bucket |-> c, key |-> buckets[c][j].key]
                       /\ buckets[c][j].key \in Keys \ seen
                       /\ buckets[c][j] \in Stored(buckets)
                       /\ Upto(buckets, num_buckets, seen \cup {buckets[c][j].key}, c, j)
    <3>1. PICK c, j : /\ NextPlace(buckets, num_buckets, B, P, c, j)
                      /\ Advanced = [on |-> "valid", bucket |-> c, key |-> buckets[c][j].key]
                      /\ buckets[c][j].key \in Keys \ seen
                      /\ Upto(buckets, num_buckets, seen \cup {buckets[c][j].key}, c, j)
      BY <2>1
    <3> DEFINE k == buckets[c][j].key
    <3>2. c \in 0..(num_buckets - 1) /\ j \in 1..Len(buckets[c])
      BY <3>1 DEF NextPlace
    <3>3. Has_Key(buckets[c], k) /\ PlaceOf(buckets[c], k) = j
      BY <1>p, <3>2, PlaceUnique
    <3>4. k \in Keys /\ k # None
      BY <3>1, TableAssumption
    <3> HIDE DEF k
    <3>5. it' = [on |-> "valid", bucket |-> c, key |-> k]
      BY <2>a, <3>1 DEF k
    <3>6. it'.on = "valid" /\ it'.bucket = c /\ it'.key = k /\ seen' = seen \cup {k}
      BY <1>0, <3>4, <3>5
    <3>7. c \in -1..(num_buckets - 1)
      BY <2>b, <3>2
    <3>8. TypeOK'
      BY <1>0, <1>2, <3>4, <3>5, <3>6, <3>7 DEF IInv, TypeOK
    <3>9. IterOK'
      BY <1>0, <2>c, <3>2, <3>3, <3>4, <3>6 DEF IterOK
    <3>10. Visited'
      BY <1>0, <3>1, <3>3, <3>6 DEF Visited, k
    <3> QED
      BY <1>1, <3>8, <3>9, <3>10 DEF IInv
  <2>2. CASE Advanced = [on |-> "end", bucket |-> B, key |-> None] /\ AllIn(buckets, seen)
    <3>1. it' = [on |-> "end", bucket |-> B, key |-> None]
      BY <2>2, <2>a
    <3>2. it'.on = "end" /\ it'.key = None /\ seen' = seen
      BY <1>0, <3>1
    <3>3. B \in -1..(num_buckets - 1)
      BY <2>b
    <3>4. TypeOK'
      BY <1>0, <1>2, <3>1, <3>2, <3>3 DEF IInv, TypeOK
    <3>5. IterOK'
      BY <1>0, <2>c, <3>2 DEF IterOK
    <3>6. Visited'
      BY <1>0, <2>2, <3>2 DEF Visited
    <3> QED
      BY <1>1, <3>4, <3>5, <3>6 DEF IInv
  <2> QED
    BY <1>4, <2>1, <2>2, AdvancedIs
<1> QED
  BY <1>0, <1>3, <1>4

(* Getting the iterator's pair, and removing at its end, keep the *)
(* invariant.                                                     *)
LEMMA IterGetKeeps ==
    ASSUME IInv, IterGet \/ IterRemoveInvalid
    PROVE  IInv'
<1>0. /\ num_buckets' = num_buckets /\ num_elements' = num_elements /\ buckets' = buckets
      /\ live' = live /\ tight' = tight /\ it' = it /\ seen' = seen
  BY DEF IterGet, IterRemoveInvalid, table
<1>1. answer' \in [ok : BOOLEAN, out : Pairs \cup {None}]
  <2>1. CASE IterGet /\ it.on = "valid"
    <3> DEFINE c == buckets[it.bucket]
    <3>1. it.bucket \in 0..(num_buckets - 1) /\ Has_Key(c, it.key) /\ Chained(buckets, num_buckets)
      BY <2>1 DEF IInv, IterOK, Proper
    <3>2. PairOf(c, it.key) \in Pairs
      <4>1. PlaceOf(c, it.key) \in DOMAIN c
        BY <3>1, PlaceIs
      <4>2. DOMAIN c = 1..Len(c) /\ \A i \in 1..Len(c) : c[i] \in Pairs
        BY <3>1, ChainIs
      <4> QED
        BY <4>1, <4>2 DEF PairOf
    <3>3. answer' = [ok |-> TRUE, out |-> PairOf(c, it.key)]
      BY <2>1 DEF IterGet, Answer
    <3> QED
      BY <3>2, <3>3
  <2>2. CASE IterGet /\ it.on # "valid"
    <3>1. answer' = [ok |-> FALSE, out |-> None]
      BY <2>2 DEF IterGet, Answer
    <3> QED
      BY <3>1
  <2>3. CASE IterRemoveInvalid
    BY <2>3 DEF IterRemoveInvalid, Answer
  <2> QED
    BY <2>1, <2>2, <2>3
<1> QED
  BY <1>0, <1>1 DEF IInv, TypeOK, Counted, IterOK, Visited

(* More buckets have the numbers of fewer. *)
LEMMA Ranges ==
    ASSUME NEW n \in Nat, NEW m \in Nat, m >= n
    PROVE  0..(n - 1) \subseteq 0..(m - 1) /\ 0..(m - 1) \subseteq -1..(m - 1)
OBVIOUS

(* Where an iteration that removes goes on, if there was no resize. *)
LEMMA IterRemoveVisits ==
    ASSUME IInv, IterRemove, ~MustResize
    PROVE  IterOK' /\ Visited' /\ it'.bucket \in 0..(num_buckets - 1)
           /\ it' \in [on : {"valid", "end"}, bucket : 0..(num_buckets - 1), key : Keys \cup {None}]
<1> DEFINE B == it.bucket
           P == PlaceOf(buckets[B], it.key)
           new == WithoutKey(buckets, num_buckets, it.key)
<1>0. /\ it.on = "valid" /\ it.key \in Keys /\ Has_Key(buckets[B], it.key) /\ live
      /\ Proper(buckets, num_buckets) /\ num_buckets \in Nat \ {0}
      /\ B \in 0..(num_buckets - 1) /\ Delete(it.key) /\ (~tight => num_elements < 3 * num_buckets)
  BY DEF IterRemove, IInv, IterOK, TypeOK
<1>1. /\ live' = live /\ tight' = tight
      /\ it' = Advanced
      /\ seen' = seen \cup ({it'.key} \ {None})
  BY DEF IterRemove, AfterResize
<1>2. /\ num_buckets' = num_buckets /\ buckets' = new /\ num_elements' <= num_elements
      /\ Proper(buckets', num_buckets')
      /\ Stored(buckets') = {p \in Stored(buckets) : p.key # it.key}
      /\ num_elements' \in Nat /\ num_elements' < 3 * num_buckets'
  BY <1>0, DeleteKeeps
<1>3. /\ P \in 1..Len(buckets[B])
      /\ B = HashKeyToBucketNum(it.key, num_buckets)
      /\ Upto(buckets, num_buckets, seen, B, P)
  BY <1>0, AdvancedIs
<1>4. Upto(new, num_buckets, seen, B, P - 1)
  <2> HIDE DEF B, P
  <2>1. P = PlaceOf(buckets[B], it.key)
    BY DEF P
  <2>2. Upto(WithoutKey(buckets, num_buckets, it.key), num_buckets, seen,
             HashKeyToBucketNum(it.key, num_buckets),
             PlaceOf(buckets[HashKeyToBucketNum(it.key, num_buckets)], it.key) - 1)
    BY <1>0, <1>3, <2>1, UptoWithout
  <2> QED
    BY <1>3, <2>1, <2>2
<1>5. CASE \E c, j : /\ NextPlace(buckets, num_buckets, B, P, c, j)
                     /\ Advanced = [on |-> "valid", bucket |-> c, key |-> buckets[c][j].key]
                     /\ buckets[c][j].key \in Keys \ seen
  <2>1. PICK c, j : /\ NextPlace(buckets, num_buckets, B, P, c, j)
                    /\ Advanced = [on |-> "valid", bucket |-> c, key |-> buckets[c][j].key]
                    /\ buckets[c][j].key \in Keys \ seen
    BY <1>5
  <2> DEFINE k == buckets[c][j].key
  <2>2. PICK i : NextPlace(new, num_buckets, B, P - 1, c, i) /\ new[c][i].key = k
    <3> HIDE DEF B, P
    <3>1. P = PlaceOf(buckets[B], it.key)
      BY DEF P
    <3>2. NextPlace(buckets, num_buckets, B, P, c, j)
      BY <2>1
    <3>3. \E i : /\ NextPlace(WithoutKey(buckets, num_buckets, it.key), num_buckets, B, P - 1, c, i)
                 /\ WithoutKey(buckets, num_buckets, it.key)[c][i].key = buckets[c][j].key
      BY <1>0, <1>3, <3>1, <3>2, NextWithout
    <3> QED
      BY <3>3
  <2>k. k \in Keys /\ k # None
    BY <2>1, TableAssumption
  <2> HIDE DEF k
  <2>3. it' = [on |-> "valid", bucket |-> c, key |-> k]
    BY <1>1, <2>1 DEF k
  <2>4. it'.on = "valid" /\ it'.bucket = c /\ it'.key = k /\ seen' = seen \cup {k}
    BY <1>1, <2>3, <2>k
  <2>5. c \in 0..(num_buckets - 1) /\ i \in 1..Len(new[c])
    BY <2>2 DEF NextPlace
  <2> HIDE DEF new
  <2>6. Proper(new, num_buckets)
    BY <1>2
  <2>7. Has_Key(new[c], k) /\ PlaceOf(new[c], k) = i
    BY <2>2, <2>5, <2>6, PlaceUnique
  <2>8. Upto(new, num_buckets, seen \cup {k}, c, i)
    <3>1. P - 1 \in Nat /\ P - 1 <= Len(new[B])
      <4>1. Len(buckets[B]) \in Nat /\ Len(new[B]) \in Nat
        BY <1>0, <2>6, ChainIs DEF Proper
      <4>2. P - 1 \in Nat
        BY <1>3, <4>1
      <4>3. Len(new[B]) >= P - 1
        <5>1. buckets[B] \in Seq(Pairs)
          BY <1>0, ChainIs DEF Proper
        <5>2. new[B] = Without(buckets[B], it.key)
          <6>1. HashKeyToBucketNum(it.key, num_buckets) = B /\ buckets \in [0..(num_buckets - 1) -> Seq(Pairs)]
            BY <1>0, <1>3 DEF Proper, Chained
          <6> QED
            BY <1>0, <6>1 DEF new, WithoutKey
        <5>3. Len(Without(buckets[B], it.key)) = Len(buckets[B]) - 1
          BY <1>0, <5>1, WithoutIs
        <5> QED
          BY <1>3, <4>1, <5>2, <5>3
      <4> QED
        BY <4>1, <4>2, <4>3
    <3>2. \/ c = B /\ i = (P - 1) + 1
          \/ c > B /\ P - 1 = Len(new[B]) /\ i = 1 /\ \A x \in (B + 1)..(c - 1) : new[x] = << >>
      BY <2>2 DEF NextPlace
    <3> DEFINE q == P - 1
               b == B
    <3>3. q \in Nat /\ q <= Len(new[b]) /\ Upto(new, num_buckets, seen, b, q) /\ b \in 0..(num_buckets - 1)
      BY <1>0, <1>4, <3>1
    <3>4. \/ c = b /\ i = q + 1
          \/ c > b /\ q = Len(new[b]) /\ i = 1 /\ \A x \in (b + 1)..(c - 1) : new[x] = << >>
      BY <3>2
    <3> HIDE DEF q, b, B, P
    <3>5. Upto(new, num_buckets, seen \cup {new[c][i].key}, c, i)
      BY <2>5, <2>6, <3>3, <3>4, UptoNext
    <3> QED
      BY <2>2, <3>5
  <2>9. Visited'
    BY <1>2, <2>4, <2>7, <2>8 DEF Visited
  <2>10. IterOK'
    BY <1>0, <1>1, <1>2, <2>4, <2>5, <2>7, <2>k DEF IterOK
  <2> QED
    BY <2>3, <2>4, <2>5, <2>9, <2>10, <2>k
<1>6. CASE Advanced = [on |-> "end", bucket |-> B, key |-> None] /\ AllIn(buckets, seen)
  <2>1. it' = [on |-> "end", bucket |-> B, key |-> None]
    BY <1>1, <1>6
  <2>2. it'.on = "end" /\ it'.key = None /\ seen' = seen /\ it'.bucket = B
    BY <1>1, <2>1
  <2>3. AllIn(buckets', seen')
    BY <1>2, <1>6, <2>2 DEF AllIn
  <2>4. Visited'
    BY <2>2, <2>3 DEF Visited
  <2>5. IterOK'
    BY <1>0, <1>1, <1>2, <2>2 DEF IterOK
  <2> QED
    BY <1>0, <2>1, <2>2, <2>4, <2>5
<1> QED
  BY <1>0, <1>5, <1>6, AdvancedIs

(* HTIterator_Remove keeps the invariant, goes on and takes out the pair *)
(* it was at.                                                            *)
LEMMA IterRemoveKeeps ==
    ASSUME IInv, IterRemove
    PROVE  IInv' /\ it'.key = Advanced.key
           /\ Stored(buckets') = {p \in Stored(buckets) : p.key # it.key}
<1>0. /\ it.on = "valid" /\ it.key \in Keys /\ live /\ Delete(it.key)
      /\ num_buckets \in Nat \ {0} /\ num_elements \in Nat /\ it.bucket \in 0..(num_buckets - 1)
  BY DEF IterRemove, IInv, IterOK, TypeOK
<1>1. /\ live' = live /\ tight' = tight
      /\ it' = AfterResize(Advanced)
      /\ seen' = seen \cup ({it'.key} \ {None})
  BY DEF IterRemove
<1>2. /\ Proper(buckets', num_buckets')
      /\ Stored(buckets') = {p \in Stored(buckets) : p.key # it.key}
      /\ IsFiniteSet(Stored(buckets')) /\ num_elements' = Cardinality(Stored(buckets'))
      /\ num_elements' \in Nat /\ num_elements' <= num_elements /\ num_elements' < 3 * num_buckets'
      /\ num_buckets' \in Nat \ {0} /\ num_buckets' >= num_buckets
      /\ answer' \in [ok : BOOLEAN, out : Pairs \cup {None}]
      /\ ~MustResize => num_buckets' = num_buckets
  BY <1>0, DeleteKeeps
<1>3. Counted'
  BY <1>2 DEF Counted
<1>4. /\ it'.key = Advanced.key
      /\ it' \in [on : {"valid", "end", "dangling"}, bucket : 0..(num_buckets' - 1), key : Keys \cup {None}]
      /\ IterOK' /\ Visited'
  <2>1. CASE ~MustResize
    <3>1. it' = Advanced
      BY <1>1, <2>1 DEF AfterResize
    <3>2. /\ IterOK' /\ Visited'
          /\ it' \in [on : {"valid", "end"}, bucket : 0..(num_buckets - 1), key : Keys \cup {None}]
      BY <2>1, IterRemoveVisits
    <3> QED
      BY <1>2, <2>1, <3>1, <3>2
  <2>2. CASE MustResize
    <3>1. tight /\ tight'
      <4>1. num_elements >= 3 * num_buckets
        BY <2>2 DEF MustResize
      <4>2. ~tight => num_elements < 3 * num_buckets
        BY <1>0 DEF IInv, IterOK
      <4>3. tight
        BY <1>0, <4>1, <4>2
      <4> QED
        BY <1>1, <4>3
    <3>3. \A x \in 0..(num_buckets - 1) : x \in 0..(num_buckets' - 1)
      <4>1. num_buckets \in Nat /\ num_buckets' \in Nat /\ num_buckets' >= num_buckets
        BY <1>0, <1>2
      <4>2. 0..(num_buckets - 1) \subseteq 0..(num_buckets' - 1)
        BY <4>1, Ranges
      <4> QED
        BY <4>2
    <3>4. CASE \E c, j : /\ NextPlace(buckets, num_buckets, it.bucket, PlaceOf(buckets[it.bucket], it.key), c, j)
                         /\ Advanced = [on |-> "valid", bucket |-> c, key |-> buckets[c][j].key]
                         /\ buckets[c][j].key \in Keys \ seen
      <4>1. PICK c, j : /\ c \in 0..(num_buckets - 1)
                        /\ Advanced = [on |-> "valid", bucket |-> c, key |-> buckets[c][j].key]
                        /\ buckets[c][j].key \in Keys
        BY <3>4 DEF NextPlace
      <4>2. it' = [Advanced EXCEPT !.on = "dangling"]
        BY <1>1, <2>2, <4>1 DEF AfterResize
      <4>3. it' = [on |-> "dangling", bucket |-> c, key |-> buckets[c][j].key]
        BY <4>1, <4>2
      <4>4. it'.on = "dangling" /\ it'.key = Advanced.key
        BY <4>1, <4>3
      <4> QED
        BY <1>0, <1>1, <3>1, <3>3, <4>1, <4>3, <4>4 DEF IterOK, Visited
    <3>5. CASE Advanced = [on |-> "end", bucket |-> it.bucket, key |-> None] /\ AllIn(buckets, seen)
      <4>1. it' = Advanced
        BY <1>1, <3>5 DEF AfterResize
      <4>2. it'.on = "end" /\ it'.key = None /\ seen' = seen
        BY <1>1, <3>5, <4>1
      <4>3. AllIn(buckets', seen')
        BY <1>2, <3>5, <4>2 DEF AllIn
      <4> QED
        BY <1>0, <1>1, <3>1, <3>3, <3>5, <4>1, <4>2, <4>3 DEF IterOK, Visited
    <3> QED
      BY <1>0, <3>4, <3>5, AdvancedIs
  <2> QED
    BY <2>1, <2>2
<1>5. TypeOK'
  <2>1. buckets' \in [0..(num_buckets' - 1) -> Seq(Pairs)]
    BY <1>2 DEF Proper, Chained
  <2>2. 0..(num_buckets' - 1) \subseteq -1..(num_buckets' - 1)
    <3>1. num_buckets \in Nat /\ num_buckets' \in Nat /\ num_buckets' >= num_buckets
      BY <1>0, <1>2
    <3> QED
      BY <3>1, Ranges
  <2>3. it' \in [on : {"none", "valid", "end", "dangling"},
                 bucket : -1..(num_buckets' - 1), key : Keys \cup {None}]
    BY <1>4, <2>2
  <2>4. seen' \subseteq Keys
    BY <1>1, <1>4 DEF IInv, TypeOK
  <2>5. live' \in BOOLEAN /\ tight' \in BOOLEAN
    BY <1>1 DEF IInv, TypeOK
  <2> QED
    BY <1>2, <2>1, <2>3, <2>4, <2>5 DEF TypeOK
<1> QED
  BY <1>2, <1>3, <1>4, <1>5 DEF IInv

----------------------------------------------------------------------------
(* Every call keeps the invariant. *)
LEMMA NextHolds == IInv /\ [Next]_vars => IInv'
<1> SUFFICES ASSUME IInv, [Next]_vars PROVE IInv'
  OBVIOUS
<1>1. ASSUME NEW k \in Keys, NEW v \in Values, Insert(k, v) PROVE IInv'
  BY <1>1, InsertKeeps
<1>2. ASSUME NEW k \in Keys, Find(k) PROVE IInv'
  BY <1>2, FindKeeps
<1>3. ASSUME NEW k \in Keys, CallRemove(k) PROVE IInv'
  BY <1>3, CallRemoveKeeps
<1>4. CASE Free
  BY <1>4, FreeKeeps
<1>5. CASE Finished \/ UNCHANGED vars
  BY <1>5 DEF Finished, vars, table, IInv, TypeOK, Counted, IterOK, Visited
<1>6. CASE IterAllocate
  BY <1>6, IterAllocateKeeps
<1>7. CASE IterFree
  BY <1>7, IterFreeKeeps
<1>8. CASE IterNext
  BY <1>8, IterNextKeeps
<1>9. CASE IterGet \/ IterRemoveInvalid
  BY <1>9, IterGetKeeps
<1>10. CASE IterRemove
  BY <1>10, IterRemoveKeeps
<1> QED
  BY <1>1, <1>2, <1>3, <1>4, <1>5, <1>6, <1>7, <1>8, <1>9, <1>10 DEF Next

(* The invariant holds after any sequence of calls, on any keys, values *)
(* and first size.                                                      *)
THEOREM Inductive == Spec => []IInv
<1>1. Init => IInv
  BY InitHolds
<1>2. IInv /\ [Next]_vars => IInv'
  BY NextHolds
<1> QED
  BY <1>1, <1>2, PTL DEF Spec

(* The buckets, the iterator and the answers keep their types through *)
(* every call and resize.                                             *)
THEOREM TypeCorrect == Spec => []TypeOK
<1>1. IInv => TypeOK
  BY DEF IInv
<1> QED
  BY <1>1, Inductive, PTL

(* Every key is in the bucket its hash names, once in the whole table, and *)
(* num_elements counts the pairs, through every insertion, removal and     *)
(* resize.                                                                 *)
THEOREM KeysStayInTheirBuckets == Spec => []KeysInTheirBuckets
<1>1. ASSUME IInv PROVE KeysInTheirBuckets
  <2>0. Proper(buckets, num_buckets) /\ Chained(buckets, num_buckets) /\ DOMAIN buckets = 0..(num_buckets - 1)
    BY <1>1 DEF IInv, Proper, Chained
  <2>1. \A b \in 0..(num_buckets - 1) : DOMAIN buckets[b] = 1..Len(buckets[b])
    BY <2>0, ChainIs
  <2>2. \A b \in DOMAIN buckets : \A i \in DOMAIN buckets[b] :
          HashKeyToBucketNum(buckets[b][i].key, num_buckets) = b
    BY <2>0, <2>1 DEF Proper
  <2>3. \A b, c \in DOMAIN buckets : \A i \in DOMAIN buckets[b], j \in DOMAIN buckets[c] :
          buckets[b][i].key = buckets[c][j].key => b = c /\ i = j
    <3> SUFFICES ASSUME NEW b \in DOMAIN buckets, NEW c \in DOMAIN buckets,
                        NEW i \in DOMAIN buckets[b], NEW j \in DOMAIN buckets[c],
                        buckets[b][i].key = buckets[c][j].key
                 PROVE  b = c /\ i = j
      OBVIOUS
    <3>1. b = c
      BY <2>2
    <3> QED
      BY <2>0, <2>1, <3>1 DEF Proper
  <2> QED
    BY <1>1, <2>2, <2>3 DEF IInv, Counted, KeysInTheirBuckets
<1> QED
  BY <1>1, Inductive, PTL

(* An iterator is lost to a resize only if its table was at its limit when *)
(* the iterator was made: HTIterator_Remove and lookups, which resize too, *)
(* lose no other.                                                          *)
THEOREM OnlyFullTablesLose == Spec => []DanglesOnlyAtLimit
<1>1. IInv => DanglesOnlyAtLimit
  BY DEF IInv, IterOK, DanglesOnlyAtLimit
<1> QED
  BY <1>1, Inductive, PTL

----------------------------------------------------------------------------
ContentsOf(S) == [k \in {e.key : e \in S} |-> (CHOOSE e \in S : e.key = k).value]

(* The map of a set of pairs has their keys, and each key's value. *)
LEMMA ContentsIs ==
    ASSUME NEW S \in SUBSET Pairs, \A p, r \in S : p.key = r.key => p = r
    PROVE  /\ DOMAIN ContentsOf(S) = {e.key : e \in S}
           /\ \A p \in S : ContentsOf(S)[p.key] = p.value
           /\ \A p \in S : p = [key |-> p.key, value |-> ContentsOf(S)[p.key]]
<1>1. DOMAIN ContentsOf(S) = {e.key : e \in S}
  BY DEF ContentsOf
<1>2. ASSUME NEW p \in S PROVE ContentsOf(S)[p.key] = p.value
  <2>1. (CHOOSE e \in S : e.key = p.key) = p
    OBVIOUS
  <2> QED
    BY <2>1 DEF ContentsOf
<1>3. \A p \in S : p = [key |-> p.key, value |-> p.value]
  BY DEF Pairs
<1> QED
  BY <1>1, <1>2, <1>3

(* Putting a pair in is putting its value into the map. *)
LEMMA ContentsPut ==
    ASSUME NEW S \in SUBSET Pairs, \A p, r \in S : p.key = r.key => p = r, NEW e \in Pairs
    PROVE  ContentsOf({p \in S : p.key # e.key} \cup {e}) =
             [x \in DOMAIN ContentsOf(S) \cup {e.key} |->
                IF x = e.key THEN e.value ELSE ContentsOf(S)[x]]
<1> DEFINE T == {p \in S : p.key # e.key} \cup {e}
<1>1. T \in SUBSET Pairs /\ \A p, r \in T : p.key = r.key => p = r
  OBVIOUS
<1>2. \A p : p \in T <=> (p \in S /\ p.key # e.key) \/ p = e
  OBVIOUS
<1> HIDE DEF T
<1>3. DOMAIN ContentsOf(T) = {p.key : p \in T} /\ \A p \in T : ContentsOf(T)[p.key] = p.value
  BY <1>1, ContentsIs
<1>4. DOMAIN ContentsOf(S) = {p.key : p \in S} /\ \A p \in S : ContentsOf(S)[p.key] = p.value
  BY ContentsIs
<1>5. DOMAIN ContentsOf(T) = DOMAIN ContentsOf(S) \cup {e.key}
  BY <1>2, <1>3, <1>4
<1>6. ASSUME NEW x \in DOMAIN ContentsOf(T)
      PROVE  ContentsOf(T)[x] = IF x = e.key THEN e.value ELSE ContentsOf(S)[x]
  <2>1. PICK p \in T : x = p.key
    BY <1>3
  <2> QED
    BY <1>2, <1>3, <1>4, <2>1
<1>7. ContentsOf(T) = [x \in DOMAIN ContentsOf(T) |-> ContentsOf(T)[x]]
  BY DEF ContentsOf
<1>8. ContentsOf(T) = [x \in DOMAIN ContentsOf(T) |-> IF x = e.key THEN e.value ELSE ContentsOf(S)[x]]
  <2> DEFINE D == DOMAIN ContentsOf(T)
             g == ContentsOf(T)
  <2>1. g = [x \in D |-> g[x]] /\ \A x \in D : g[x] = IF x = e.key THEN e.value ELSE ContentsOf(S)[x]
    BY <1>6, <1>7
  <2> HIDE DEF D, g
  <2>2. g = [x \in D |-> IF x = e.key THEN e.value ELSE ContentsOf(S)[x]]
    BY <2>1
  <2> QED
    BY <2>2 DEF D, g
<1> QED
  BY <1>5, <1>8 DEF T

(* Taking a key's pair out is taking the key out of the map. *)
LEMMA ContentsRemove ==
    ASSUME NEW S \in SUBSET Pairs, \A p, r \in S : p.key = r.key => p = r, NEW k
    PROVE  ContentsOf({p \in S : p.key # k}) =
             [x \in DOMAIN ContentsOf(S) \ {k} |-> ContentsOf(S)[x]]
<1> DEFINE T == {p \in S : p.key # k}
<1>1. T \in SUBSET Pairs /\ \A p, r \in T : p.key = r.key => p = r
  OBVIOUS
<1>2. \A p : p \in T <=> p \in S /\ p.key # k
  OBVIOUS
<1> HIDE DEF T
<1>3. DOMAIN ContentsOf(T) = {p.key : p \in T} /\ \A p \in T : ContentsOf(T)[p.key] = p.value
  BY <1>1, ContentsIs
<1>4. DOMAIN ContentsOf(S) = {p.key : p \in S} /\ \A p \in S : ContentsOf(S)[p.key] = p.value
  BY ContentsIs
<1>5. DOMAIN ContentsOf(T) = DOMAIN ContentsOf(S) \ {k}
  BY <1>2, <1>3, <1>4
<1>6. ASSUME NEW x \in DOMAIN ContentsOf(T)
      PROVE  ContentsOf(T)[x] = ContentsOf(S)[x]
  <2>1. PICK p \in T : x = p.key
    BY <1>3
  <2> QED
    BY <1>2, <1>3, <1>4, <2>1
<1>7. ContentsOf(T) = [x \in DOMAIN ContentsOf(T) |-> ContentsOf(T)[x]]
  BY DEF ContentsOf
<1>8. ContentsOf(T) = [x \in DOMAIN ContentsOf(T) |-> ContentsOf(S)[x]]
  <2> DEFINE D == DOMAIN ContentsOf(T)
             g == ContentsOf(T)
  <2>1. g = [x \in D |-> g[x]] /\ \A x \in D : g[x] = ContentsOf(S)[x]
    BY <1>6, <1>7
  <2> HIDE DEF D, g
  <2>2. g = [x \in D |-> ContentsOf(S)[x]]
    BY <2>1
  <2> QED
    BY <2>2 DEF D, g
<1> QED
  BY <1>5, <1>8 DEF T

(* No pairs are the empty map. *)
LEMMA ContentsEmpty == ContentsOf({}) = [k \in {} |-> None]
BY DEF ContentsOf

(* What the map holds, and the answer to a look-up. *)
LEMMA MapHolds ==
    ASSUME IInv
    PROVE  /\ Stored(buckets) \in SUBSET Pairs
           /\ \A p, r \in Stored(buckets) : p.key = r.key => p = r
           /\ Contents = ContentsOf(Stored(buckets))
           /\ \A k : k \in DOMAIN Contents <=> \E p \in Stored(buckets) : p.key = k
           /\ \A p \in Stored(buckets) : Map!Pair(p.key) = p
<1> DEFINE S == Stored(buckets)
<1>1. S \in SUBSET Pairs /\ \A p, r \in S : p.key = r.key => p = r
  BY StoredKeys DEF IInv
<1>2. Contents = ContentsOf(S)
  BY DEF Contents, ContentsOf
<1> HIDE DEF S
<1>3. /\ DOMAIN ContentsOf(S) = {e.key : e \in S}
      /\ \A p \in S : p = [key |-> p.key, value |-> ContentsOf(S)[p.key]]
  BY <1>1, ContentsIs
<1>4. \A p \in S : Map!Pair(p.key) = p
  BY <1>2, <1>3 DEF Map!Pair
<1> QED
  BY <1>1, <1>2, <1>3, <1>4 DEF S

(* A lookup has the map's answer. *)
LEMMA MapLookup ==
    ASSUME IInv, NEW k \in Keys, Lookup(k)
    PROVE  IF k \in DOMAIN Contents THEN Map!Answer(TRUE, Map!Pair(k)) ELSE Map!Answer(FALSE, None)
<1>0. TypeOK /\ Proper(buckets, num_buckets) /\ num_elements <= 3 * num_buckets
  BY DEF IInv, Counted
<1>1. /\ Present(k) <=> \E p \in Stored(buckets) : p.key = k
      /\ \A p \in Stored(buckets) : p.key = k => answer' = [ok |-> TRUE, out |-> p]
      /\ ~Present(k) => answer' = [ok |-> FALSE, out |-> None]
  BY <1>0, LookupIs
<1>2. k \in DOMAIN Contents <=> \E p \in Stored(buckets) : p.key = k
  BY MapHolds
<1>3. CASE k \in DOMAIN Contents
  <2>1. PICK p \in Stored(buckets) : p.key = k
    BY <1>2, <1>3
  <2>2. Map!Pair(k) = p
    BY <2>1, MapHolds
  <2>3. answer' = [ok |-> TRUE, out |-> p]
    BY <1>1, <2>1
  <2>4. Map!Answer(TRUE, Map!Pair(k))
    BY <2>2, <2>3 DEF Map!Answer
  <2> QED
    BY <1>3, <2>4
<1>4. CASE k \notin DOMAIN Contents
  <2>1. answer' = [ok |-> FALSE, out |-> None]
    BY <1>1, <1>2, <1>4
  <2> QED
    BY <1>4, <2>1 DEF Map!Answer
<1> QED
  BY <1>3, <1>4

(* HashTable_Insert is the map's insertion, with its answer. *)
LEMMA MapInsert ==
    ASSUME IInv, NEW k \in Keys, NEW v \in Values, Insert(k, v)
    PROVE  Map!Next
<1> DEFINE e == [key |-> k, value |-> v]
<1>1. Stored(buckets') = {p \in Stored(buckets) : p.key # k} \cup {e}
  BY InsertKeeps
<1>2. e \in Pairs /\ e.key = k /\ e.value = v
  BY DEF Pairs
<1>3. Contents' = ContentsOf(Stored(buckets'))
  BY DEF Contents, ContentsOf
<1> HIDE DEF e
<1>4. ContentsOf(Stored(buckets')) =
        [x \in DOMAIN Contents \cup {k} |-> IF x = k THEN v ELSE Contents[x]]
  <2> DEFINE S == Stored(buckets)
  <2>1. S \in SUBSET Pairs /\ (\A p, r \in S : p.key = r.key => p = r) /\ Contents = ContentsOf(S)
    BY MapHolds
  <2>2. Stored(buckets') = {p \in S : p.key # e.key} \cup {e}
    BY <1>1, <1>2
  <2> HIDE DEF S
  <2>3. ContentsOf({p \in S : p.key # e.key} \cup {e}) =
             [x \in DOMAIN ContentsOf(S) \cup {e.key} |->
                IF x = e.key THEN e.value ELSE ContentsOf(S)[x]]
    BY <1>2, <2>1, ContentsPut
  <2> QED
    BY <1>2, <2>1, <2>2, <2>3
<1>5. IF k \in DOMAIN Contents THEN Map!Answer(TRUE, Map!Pair(k)) ELSE Map!Answer(FALSE, None)
  BY MapLookup DEF Insert
<1>6. live /\ it.on = "none" /\ live' = live /\ it' = it /\ seen' = seen
  BY DEF Insert, TableCall
<1>7. Map!Insert(k, v)
  BY <1>3, <1>4, <1>5, <1>6 DEF Map!Insert
<1> QED
  BY <1>6, <1>7 DEF Map!Next

(* HashTable_Remove is the map's removal, with its answer. *)
LEMMA MapDelete ==
    ASSUME IInv, NEW k \in Keys, Delete(k), live
    PROVE  Map!Delete(k)
<1>1. Stored(buckets') = {p \in Stored(buckets) : p.key # k}
  BY DeleteKeeps
<1>3. Contents' = ContentsOf(Stored(buckets'))
  BY DEF Contents, ContentsOf
<1>4. ContentsOf(Stored(buckets')) = [x \in DOMAIN Contents \ {k} |-> Contents[x]]
  <2> DEFINE S == Stored(buckets)
  <2>1. S \in SUBSET Pairs /\ (\A p, r \in S : p.key = r.key => p = r) /\ Contents = ContentsOf(S)
    BY MapHolds
  <2>2. Stored(buckets') = {p \in S : p.key # k}
    BY <1>1
  <2> HIDE DEF S
  <2>3. ContentsOf({p \in S : p.key # k}) = [x \in DOMAIN ContentsOf(S) \ {k} |-> ContentsOf(S)[x]]
    BY <2>1, ContentsRemove
  <2> QED
    BY <2>1, <2>2, <2>3
<1>5. IF k \in DOMAIN Contents THEN Map!Answer(TRUE, Map!Pair(k)) ELSE Map!Answer(FALSE, None)
  BY MapLookup DEF Delete
<1> QED
  BY <1>3, <1>4, <1>5 DEF Map!Delete

(* The iterator goes to a key not met, or past the end when there is none. *)
LEMMA MapAdvance ==
    ASSUME IInv, it.on = "valid", it'.key = Advanced.key,
           seen' = seen \cup ({it'.key} \ {None})
    PROVE  /\ Map!Advance
           /\ it.key \in Keys /\ it.key # None
           /\ Advanced.on = "valid" <=> Advanced.key # None
<1>0. it.key \in Keys /\ it.key # None
  BY TableAssumption DEF IInv, IterOK
<1>1. \A k : k \in DOMAIN Contents <=> \E p \in Stored(buckets) : p.key = k
  BY MapHolds
<1>2. CASE \E c, j : /\ Advanced = [on |-> "valid", bucket |-> c, key |-> buckets[c][j].key]
                     /\ buckets[c][j].key \in Keys \ seen
                     /\ buckets[c][j] \in Stored(buckets)
  <2>1. PICK c, j : /\ Advanced = [on |-> "valid", bucket |-> c, key |-> buckets[c][j].key]
                    /\ buckets[c][j].key \in Keys \ seen
                    /\ buckets[c][j] \in Stored(buckets)
    BY <1>2
  <2> DEFINE k == buckets[c][j].key
  <2>2. Advanced.key = k /\ Advanced.on = "valid"
    BY <2>1
  <2>3. k \in DOMAIN Contents \ seen /\ k # None
    BY <1>1, <2>1, TableAssumption
  <2> HIDE DEF k
  <2> QED
    BY <1>0, <2>2, <2>3 DEF Map!Advance
<1>3. CASE Advanced = [on |-> "end", bucket |-> it.bucket, key |-> None] /\ AllIn(buckets, seen)
  <2>1. Advanced.on = "end" /\ Advanced.key = None
    BY <1>3
  <2>2. DOMAIN Contents \ seen = {}
    BY <1>1, <1>3 DEF AllIn
  <2> QED
    BY <1>0, <2>1, <2>2 DEF Map!Advance
<1> QED
  BY <1>2, <1>3, AdvancedIs

(* An iterator that advances is at a pair or at the end, and remains an *)
(* iterator.                                                            *)
LEMMA AdvancedOn ==
    ASSUME IInv, it.on = "valid"
    PROVE  /\ Advanced.on \in {"valid", "end"}
           /\ AfterResize(Advanced).on # "none"
<1>1. PICK o \in {"valid", "end"} : \E b, k : Advanced = [on |-> o, bucket |-> b, key |-> k]
  <2>1. CASE \E c, j : Advanced = [on |-> "valid", bucket |-> c, key |-> buckets[c][j].key]
    BY <2>1
  <2>2. CASE Advanced = [on |-> "end", bucket |-> it.bucket, key |-> None]
    BY <2>2
  <2> QED
    BY <2>1, <2>2, AdvancedIs
<1>2. PICK b, k : Advanced = [on |-> o, bucket |-> b, key |-> k]
  BY <1>1
<1>3. Advanced.on \in {"valid", "end"}
  BY <1>2
<1> QED
  BY <1>2, <1>3 DEF AfterResize

(* Every step of the table is one of the map's, or leaves it as it is. *)
LEMMA MapStep ==
    ASSUME IInv, [Next]_vars
    PROVE  [Map!Next]_(Map!vars)
<1>1. ASSUME NEW k \in Keys, NEW v \in Values, Insert(k, v) PROVE Map!Next
  BY <1>1, MapInsert
<1>2. ASSUME NEW k \in Keys, Find(k) PROVE Map!Next
  <2>1. Stored(buckets') = Stored(buckets)
    BY <1>2, FindKeeps
  <2>2. Contents' = Contents
    BY <2>1 DEF Contents
  <2>3. IF k \in DOMAIN Contents THEN Map!Answer(TRUE, Map!Pair(k)) ELSE Map!Answer(FALSE, None)
    BY <1>2, MapLookup DEF Find
  <2>4. live /\ live' = live /\ seen' = seen /\ it' = AfterResize(it)
    BY <1>2 DEF Find
  <2>5. it'.key = it.key /\ (it'.on # "none") = (it.on # "none")
    <3>1. it \in [on : {"none", "valid", "end", "dangling"},
                  bucket : -1..(num_buckets - 1), key : Keys \cup {None}]
      BY DEF IInv, TypeOK
    <3> QED
      BY <2>4, <3>1 DEF AfterResize
  <2>6. Map!Find(k)
    BY <2>2, <2>3, <2>4, <2>5 DEF Map!Find
  <2> QED
    BY <2>4, <2>6 DEF Map!Next
<1>3. ASSUME NEW k \in Keys, CallRemove(k) PROVE Map!Next
  <2>1. live /\ it.on = "none" /\ live' = live /\ it' = it /\ seen' = seen /\ Delete(k)
    BY <1>3 DEF CallRemove, TableCall
  <2>2. Map!Delete(k)
    BY <2>1, MapDelete
  <2>3. Map!Remove(k)
    BY <2>1, <2>2 DEF Map!Remove
  <2> QED
    BY <2>1, <2>3 DEF Map!Next
<1>4. CASE Free
  <2>1. Stored(buckets') = {}
    BY <1>4, FreeKeeps
  <2>2. Contents' = ContentsOf({})
    BY <2>1 DEF Contents, ContentsOf
  <2>3. Map!Free
    BY <1>4, <2>2, ContentsEmpty DEF Free, Map!Free
  <2> QED
    BY <1>4, <2>3 DEF Free, Map!Next
<1>5. CASE Finished \/ UNCHANGED vars
  <2>1. UNCHANGED vars
    BY <1>5 DEF Finished
  <2>2. Contents' = Contents
    BY <2>1 DEF Contents, vars, table
  <2> QED
    BY <2>1, <2>2 DEF vars, Map!vars
<1>6. CASE IterAllocate
  <2>1. /\ live /\ it.on = "none" /\ live' = live /\ answer' = answer /\ buckets' = buckets
        /\ seen' = {it'.key} \ {None} /\ seen = {}
    BY <1>6 DEF IterAllocate, table, IInv, IterOK
  <2>2. Contents' = Contents
    BY <2>1 DEF Contents
  <2>3. \A k : k \in DOMAIN Contents <=> \E p \in Stored(buckets) : p.key = k
    BY MapHolds
  <2>4. /\ IInv' /\ IF Stored(buckets) = {} THEN it'.key = None
                   ELSE \E p \in Stored(buckets) : it'.key = p.key
    BY <1>6, IterAllocateKeeps
  <2>5. Map!Advance
    BY <2>1, <2>3, <2>4 DEF Map!Advance
  <2>6. it'.on # "none"
    <3>1. it' = [NoIter EXCEPT !.on = "end"] \/ it'.on = "valid"
      BY <1>6 DEF IterAllocate, FirstOf
    <3> QED
      BY <3>1 DEF NoIter
  <2>7. Map!Start
    BY <2>1, <2>2, <2>5, <2>6 DEF Map!Start
  <2> QED
    BY <2>1, <2>7 DEF Map!Next
<1>7. CASE IterFree
  <2>1. /\ it.on # "none" /\ live /\ live' = live /\ answer' = answer /\ buckets' = buckets
        /\ seen' = {} /\ it'.on = "none" /\ it'.key = None
    BY <1>7 DEF IterFree, table, IInv, IterOK, NoIter
  <2>2. Contents' = Contents
    BY <2>1 DEF Contents
  <2> QED
    BY <2>1, <2>2 DEF Map!Next, Map!Stop
<1>8. CASE IterNext
  <2>1. /\ it.on \in {"valid", "end"} /\ live /\ live' = live /\ buckets' = buckets
        /\ it' = IF it.on = "valid" THEN Advanced ELSE it
        /\ seen' = seen \cup ({it'.key} \ {None})
        /\ answer' = [ok |-> it'.on = "valid", out |-> None]
    BY <1>8 DEF IterNext, Usable, Answer, table, IInv, IterOK
  <2>2. Contents' = Contents
    BY <2>1 DEF Contents
  <2>3. CASE it.on = "valid"
    <3>1. it' = Advanced
      BY <2>1, <2>3
    <3>2. Map!Advance /\ (Advanced.on = "valid" <=> Advanced.key # None)
      BY <2>1, <2>3, <3>1, MapAdvance
    <3>3. answer' = [ok |-> it'.key # None, out |-> None]
      BY <2>1, <3>1, <3>2
    <3>4. it'.on # "none"
      <4>1. Advanced.on \in {"valid", "end"}
        BY <2>3, AdvancedOn
      <4> QED
        BY <3>1, <4>1
    <3>5. Map!IterNext
      BY <2>1, <2>2, <3>2, <3>3, <3>4 DEF Map!IterNext, Map!Answer
    <3> QED
      BY <2>1, <3>5 DEF Map!Next
  <2>4. CASE it.on = "end"
    <3>1. it' = it /\ it.key = None /\ AllIn(buckets, seen) /\ seen' = seen
      BY <2>1, <2>4 DEF IInv, IterOK, Visited
    <3>2. \A k : k \in DOMAIN Contents <=> \E p \in Stored(buckets) : p.key = k
      BY MapHolds
    <3>3. Map!Advance
      BY <2>1, <3>1, <3>2 DEF Map!Advance, AllIn
    <3>4. answer' = [ok |-> it'.key # None, out |-> None]
      BY <2>1, <2>4, <3>1
    <3>5. Map!IterNext
      BY <2>1, <2>2, <2>4, <3>1, <3>3, <3>4 DEF Map!IterNext, Map!Answer
    <3> QED
      BY <2>1, <2>4, <3>5 DEF Map!Next
  <2> QED
    BY <2>1, <2>3, <2>4
<1>9. CASE IterGet
  <2>1. /\ it.on \in {"valid", "end"} /\ live /\ live' = live /\ buckets' = buckets
        /\ it' = it /\ seen' = seen
    BY <1>9 DEF IterGet, Usable, table, IInv, IterOK
  <2>2. Contents' = Contents
    BY <2>1 DEF Contents
  <2>3. IF it.key = None THEN Map!Answer(FALSE, None) ELSE Map!Answer(TRUE, Map!Pair(it.key))
    <3>1. CASE it.on = "valid"
      <4>1. it.key \in Keys /\ it.key # None /\ Has_Key(buckets[it.bucket], it.key)
            /\ it.bucket \in 0..(num_buckets - 1) /\ Proper(buckets, num_buckets) /\ Chained(buckets, num_buckets)
        BY <3>1, TableAssumption DEF IInv, IterOK, Proper
      <4> DEFINE p == PairOf(buckets[it.bucket], it.key)
      <4>2. p \in Stored(buckets) /\ p.key = it.key
        <5>1. DOMAIN buckets[it.bucket] = 1..Len(buckets[it.bucket])
          BY <4>1, ChainIs
        <5>2. PlaceOf(buckets[it.bucket], it.key) \in 1..Len(buckets[it.bucket]) /\ p.key = it.key
          BY <4>1, <5>1, PlaceIs DEF PairOf
        <5> QED
          BY <4>1, <5>2, StoredIs DEF PairOf
      <4>3. answer' = [ok |-> TRUE, out |-> p]
        BY <1>9, <3>1 DEF IterGet, Answer
      <4> HIDE DEF p
      <4>4. Map!Pair(it.key) = p
        BY <4>2, MapHolds
      <4> QED
        BY <4>1, <4>3, <4>4 DEF Map!Answer
    <3>2. CASE it.on = "end"
      BY <1>9, <3>2 DEF IterGet, Answer, Map!Answer, IInv, IterOK
    <3> QED
      BY <2>1, <3>1, <3>2
  <2>4. Map!IterGet
    BY <2>1, <2>2, <2>3 DEF Map!IterGet
  <2> QED
    BY <2>1, <2>4 DEF Map!Next
<1>10. CASE IterRemoveInvalid
  <2>1. /\ it.on = "end" /\ it.key = None /\ live /\ live' = live /\ buckets' = buckets
        /\ it' = it /\ seen' = seen /\ answer' = [ok |-> FALSE, out |-> None]
    BY <1>10 DEF IterRemoveInvalid, table, IInv, IterOK, Answer
  <2>2. Contents' = Contents
    BY <2>1 DEF Contents
  <2>3. Map!IterRemove
    BY <2>1, <2>2 DEF Map!IterRemove, Map!Answer
  <2> QED
    BY <2>1, <2>3 DEF Map!Next
<1>11. CASE IterRemove
  <2>1. /\ it.on = "valid" /\ live /\ live' = live /\ Delete(it.key) /\ it.key \in Keys
        /\ seen' = seen \cup ({it'.key} \ {None}) /\ it' = AfterResize(Advanced)
    BY <1>11 DEF IterRemove, IInv, IterOK
  <2>2. it'.key = Advanced.key
    BY <1>11, IterRemoveKeeps
  <2>3. Map!Advance /\ it.key # None
    BY <2>1, <2>2, MapAdvance
  <2>4. Map!Delete(it.key)
    BY <2>1, MapDelete
  <2>5. it'.on # "none"
    BY <2>1, AdvancedOn
  <2>6. Map!IterRemove
    BY <2>1, <2>3, <2>4, <2>5 DEF Map!IterRemove
  <2> QED
    BY <2>1, <2>6 DEF Map!Next
<1> QED
  BY <1>1, <1>2, <1>3, <1>4, <1>5, <1>6, <1>7, <1>8, <1>9, <1>10, <1>11 DEF Next

(* The table implements a map: every call has the map's answer and effect, *)
(* and an iteration meets every pair once, also one that removes as it     *)
(* goes.                                                                   *)
THEOREM TableIsMap == Spec => IsMap
<1>1. Init => Map!Init
  <2> SUFFICES ASSUME Init PROVE Map!Init
    OBVIOUS
  <2>1. FirstBuckets \in Nat \ {0}
    BY TableAssumption
  <2>2. Stored(buckets) = {}
    BY <2>1, EmptyIsProper DEF Init
  <2>3. Contents = ContentsOf({})
    BY <2>2 DEF Contents, ContentsOf
  <2> QED
    BY <2>3, ContentsEmpty DEF Init, NoIter, Map!Init
<1>2. IInv /\ [Next]_vars => [Map!Next]_(Map!vars)
  BY MapStep
<1> QED
  BY <1>1, <1>2, Inductive, PTL DEF Spec, IsMap, Map!Spec
====
