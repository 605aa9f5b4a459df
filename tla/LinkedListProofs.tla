-------------------------- MODULE LinkedListProofs --------------------------
(***************************************************************************)
(* Theorems about LinkedList, for any payloads, comparator and number of   *)
(* nodes: the memory is one doubly linked list, and the operations are     *)
(* those of the sequence of SequenceList.                                  *)
(***************************************************************************)
EXTENDS LinkedList, SequenceTheorems, TLAPS

----------------------------------------------------------------------------
(* Chains of distinct nodes and the pointers along them. *)

NodesOf(c) == {c[i] : i \in 1..Len(c)}

Distinct(c) == \A i, j \in 1..Len(c) : c[i] = c[j] => i = j

Forward(c, nx) ==
    \A i \in 1..Len(c) : nx[c[i]] = IF i = Len(c) THEN NULL ELSE c[i + 1]

Backward(c, pv) ==
    \A i \in 1..Len(c) : pv[c[i]] = IF i = 1 THEN NULL ELSE c[i - 1]

First(c) == IF Len(c) = 0 THEN NULL ELSE c[1]

Final(c) == IF Len(c) = 0 THEN NULL ELSE c[Len(c)]

----------------------------------------------------------------------------
(* The inductive invariant. *)

(* The payloads have been permuted by p since the sort began, equal ones   *)
(* are where they were, and the pass has left the payloads up to node k in *)
(* order if it has swapped none.                                           *)
PassAt(k, p) ==
    /\ curnode = chain[k]
    /\ \A i, j \in 1..Len(chain) : p[i] = p[j] => i = j
    /\ \A i \in 1..Len(chain) : payload[chain[i]] = before[p[i]]
    /\ \A i, j \in 1..Len(chain) :
         i < j /\ Rank[payload[chain[i]]] = Rank[payload[chain[j]]] => p[i] < p[j]
    /\ ~swapped =>
         \A i, j \in 1..k : i < j => ~OutOfOrder(payload[chain[i]], payload[chain[j]])

Sorting ==
    pc = "sort" =>
      /\ Len(chain) >= 2
      /\ Len(before) = Len(chain)
      /\ \E k \in 1..Len(chain), p \in [1..Len(chain) -> 1..Len(chain)] : PassAt(k, p)

Chained ==
    /\ Distinct(chain)
    /\ Forward(chain, next)
    /\ allocated = NodesOf(chain)
    /\ \A i \in 1..Len(chain) : payload[chain[i]] \in Payloads

Ends ==
    pc \in {"idle", "sort"} =>
      /\ num_elements = Len(chain)
      /\ head = First(chain)
      /\ tail = Final(chain)
      /\ Backward(chain, prev)
      /\ node \in NodesOf(chain) \cup {NULL, NoIter}

Places ==
    /\ pc # "idle" => node = NoIter
    /\ pc = "freeing" => curnode = First(chain)
    /\ pc = "freed" => Len(chain) = 0

IInv == TypeOK /\ Chained /\ Ends /\ Places /\ Sorting

----------------------------------------------------------------------------
(* Sequences with one element less or more. *)

(* r is c without its k-th element. *)
Drops(r, c, k) ==
    /\ Len(r) = Len(c) - 1
    /\ \A i \in 1..Len(r) : r[i] = IF i < k THEN c[i] ELSE c[i + 1]

(* What stays of a sequence when one element is taken out. *)
LEMMA RemoveAtDrops ==
    ASSUME NEW S, NEW s \in Seq(S), NEW k \in 1..Len(s)
    PROVE  RemoveAt(s, k) \in Seq(S) /\ Drops(RemoveAt(s, k), s, k)
<1> DEFINE front == SubSeq(s, 1, k - 1)
           back  == SubSeq(s, k + 1, Len(s))
<1>1. Len(s) \in Nat /\ \A i \in 1..Len(s) : s[i] \in S
  BY LenProperties, ElementOfSeq
<1>2. /\ front \in Seq(S) /\ Len(front) = k - 1
      /\ \A i \in 1..(k - 1) : front[i] = s[i]
  BY <1>1, SubSeqProperties
<1>3. /\ back \in Seq(S) /\ Len(back) = Len(s) - k
      /\ \A i \in 1..(Len(s) - k) : back[i] = s[k + i]
  <2>1. /\ k + 1 \in Int /\ Len(s) \in Int
        /\ \A i \in (k + 1)..Len(s) : s[i] \in S
    BY <1>1
  <2>2. /\ back \in Seq(S)
        /\ Len(back) = IF k + 1 <= Len(s) THEN Len(s) - (k + 1) + 1 ELSE 0
        /\ \A i \in 1..(Len(s) - (k + 1) + 1) : back[i] = s[(k + 1) + i - 1]
    BY <2>1, SubSeqProperties
  <2> HIDE DEF back
  <2>3. Len(back) = Len(s) - k
    BY <1>1, <2>2
  <2>4. ASSUME NEW i \in 1..(Len(s) - k) PROVE back[i] = s[k + i]
    <3>1. i \in 1..(Len(s) - (k + 1) + 1) /\ (k + 1) + i - 1 = k + i
      BY <1>1
    <3>2. back[i] = s[(k + 1) + i - 1]
      BY <2>2, <3>1
    <3> QED
      BY <3>1, <3>2
  <2> QED
    BY <2>2, <2>3, <2>4
<1> DEFINE r == front \o back
<1>4. /\ r \in Seq(S)
      /\ Len(r) = Len(s) - 1
      /\ \A i \in 1..(Len(s) - 1) :
           r[i] = IF i <= k - 1 THEN front[i] ELSE back[i - (k - 1)]
  <2> HIDE DEF front, back
  <2>1. /\ r \in Seq(S)
        /\ Len(r) = Len(front) + Len(back)
        /\ \A i \in 1..(Len(front) + Len(back)) :
             r[i] = IF i <= Len(front) THEN front[i] ELSE back[i - Len(front)]
    BY <1>2, <1>3, ConcatProperties
  <2>2. Len(front) + Len(back) = Len(s) - 1
    BY <1>1, <1>2, <1>3
  <2> HIDE DEF r
  <2> QED
    BY <1>2, <2>1, <2>2
<1>5. RemoveAt(s, k) = r
  BY DEF RemoveAt
<1> HIDE DEF front, back, r
<1>6. ASSUME NEW i \in 1..(Len(s) - 1)
      PROVE  r[i] = IF i < k THEN s[i] ELSE s[i + 1]
  <2>1. CASE i < k
    <3>1. i \in 1..(k - 1) /\ i <= k - 1
      BY <1>1, <2>1
    <3> QED
      BY <1>2, <1>4, <2>1, <3>1
  <2>2. CASE i >= k
    <3> DEFINE j == i - (k - 1)
    <3>1. j \in 1..(Len(s) - k) /\ k + j = i + 1 /\ ~(i <= k - 1) /\ ~(i < k)
      BY <1>1, <2>2
    <3>2. r[i] = back[j]
      BY <1>4, <3>1
    <3> HIDE DEF j
    <3>3. back[j] = s[i + 1]
      BY <1>3, <3>1
    <3> QED
      BY <3>1, <3>2, <3>3
  <2>3. i \in Int /\ k \in Int
    BY <1>1
  <2> QED
    BY <2>1, <2>2, <2>3
<1> QED
  BY <1>1, <1>4, <1>5, <1>6 DEF Drops

(* Tail and Front leave out the first and the last element. *)
LEMMA EndsDrop ==
    ASSUME NEW S, NEW s \in Seq(S), Len(s) # 0
    PROVE  /\ Tail(s) \in Seq(S) /\ Drops(Tail(s), s, 1)
           /\ Front(s) \in Seq(S) /\ Drops(Front(s), s, Len(s))
           /\ 1 \in 1..Len(s) /\ Len(s) \in 1..Len(s)
<1>1. s # << >> /\ Len(s) \in Nat /\ \A i \in 1..Len(s) : s[i] \in S
  BY EmptySeq, LenProperties, ElementOfSeq
<1>2. /\ Tail(s) \in Seq(S) /\ Len(Tail(s)) = Len(s) - 1
      /\ \A i \in 1..Len(Tail(s)) : Tail(s)[i] = s[i + 1]
  BY <1>1, HeadTailProperties
<1>3. Drops(Tail(s), s, 1)
  BY <1>1, <1>2 DEF Drops
<1>4. /\ Front(s) \in Seq(S) /\ Len(Front(s)) = Len(s) - 1
      /\ \A i \in 1..(Len(s) - 1) : Front(s)[i] = s[i]
  <2> DEFINE r == SubSeq(s, 1, Len(s) - 1)
  <2>1. 1 \in Int /\ Len(s) - 1 \in Int /\ \A i \in 1..(Len(s) - 1) : s[i] \in S
    BY <1>1
  <2>2. /\ r \in Seq(S)
        /\ Len(r) = IF 1 <= Len(s) - 1 THEN Len(s) - 1 - 1 + 1 ELSE 0
        /\ \A i \in 1..(Len(s) - 1 - 1 + 1) : r[i] = s[1 + i - 1]
    BY <2>1, SubSeqProperties
  <2> HIDE DEF r
  <2>3. \A i \in 1..(Len(s) - 1) : r[i] = s[i]
    BY <1>1, <2>2
  <2>4. Len(s) = 1 => Len(r) = 0
    BY <2>2
  <2>5. Len(s) > 1 => Len(r) = Len(s) - 1
    BY <1>1, <2>2
  <2>6. Len(s) = 1 \/ Len(s) > 1
    <3>1. \A n \in Nat : n # 0 => n = 1 \/ n > 1
      OBVIOUS
    <3> QED
      BY <3>1
  <2>7. Len(r) = Len(s) - 1
    BY <2>4, <2>5, <2>6
  <2> QED
    BY <2>2, <2>3, <2>7 DEF Front, r
<1>5. Drops(Front(s), s, Len(s))
  BY <1>1, <1>4 DEF Drops
<1> QED
  BY <1>1, <1>2, <1>3, <1>4, <1>5

(* A node taken out of the chain: the nodes left, and the pointers when    *)
(* its neighbours are joined.                                              *)
LEMMA DropNode ==
    ASSUME NEW c \in Seq(Nodes), NEW r \in Seq(Nodes), NEW k \in 1..Len(c),
           Distinct(c), Drops(r, c, k)
    PROVE  /\ Distinct(r)
           /\ NodesOf(r) = NodesOf(c) \ {c[k]}
           /\ \A nx : Forward(c, nx) /\ nx \in [Nodes -> Nodes \cup {NULL, Freed}] =>
                Forward(r, [(IF k = 1 THEN nx ELSE [nx EXCEPT ![c[k - 1]] = nx[c[k]]])
                              EXCEPT ![c[k]] = Freed])
           /\ \A pv : Backward(c, pv) /\ pv \in [Nodes -> Nodes \cup {NULL, Freed}] =>
                Backward(r, [(IF k = Len(c) THEN pv
                              ELSE [pv EXCEPT ![c[k + 1]] = pv[c[k]]])
                              EXCEPT ![c[k]] = Freed])
<1>1. /\ Len(c) \in Nat /\ Len(r) = Len(c) - 1
      /\ \A i \in 1..Len(c) : c[i] \in Nodes
      /\ \A i, j \in 1..Len(c) : c[i] = c[j] => i = j
  BY DEF Distinct, Drops
<1>2. \A i \in 1..Len(r) : /\ i < k => r[i] = c[i] /\ i \in 1..Len(c)
                           /\ i >= k => r[i] = c[i + 1] /\ i + 1 \in 1..Len(c)
  BY <1>1 DEF Drops
<1>3. Distinct(r)
  BY <1>1, <1>2 DEF Distinct
<1>4. NodesOf(r) = NodesOf(c) \ {c[k]}
  <2>1. ASSUME NEW i \in 1..Len(r) PROVE r[i] \in NodesOf(c) \ {c[k]}
    BY <1>1, <1>2 DEF NodesOf
  <2>2. ASSUME NEW i \in 1..Len(c), c[i] # c[k] PROVE c[i] \in NodesOf(r)
    <3>1. CASE i < k
      <4>1. i \in 1..Len(r) /\ r[i] = c[i]
        BY <3>1, <1>1, <1>2
      <4> QED
        BY <4>1 DEF NodesOf
    <3>2. CASE i > k
      <4>1. i - 1 \in 1..Len(r) /\ r[i - 1] = c[i]
        BY <3>2, <1>1 DEF Drops
      <4> QED
        BY <4>1 DEF NodesOf
    <3> QED
      BY <2>2, <3>1, <3>2
  <2> QED
    BY <2>1, <2>2 DEF NodesOf
<1>5. ASSUME NEW nx \in [Nodes -> Nodes \cup {NULL, Freed}], Forward(c, nx)
      PROVE  Forward(r, [(IF k = 1 THEN nx ELSE [nx EXCEPT ![c[k - 1]] = nx[c[k]]])
                           EXCEPT ![c[k]] = Freed])
  <2> DEFINE joined == IF k = 1 THEN nx ELSE [nx EXCEPT ![c[k - 1]] = nx[c[k]]]
             nx2 == [joined EXCEPT ![c[k]] = Freed]
  <2> SUFFICES ASSUME NEW i \in 1..Len(r)
               PROVE  nx2[r[i]] = IF i = Len(r) THEN NULL ELSE r[i + 1]
    BY DEF Forward
  <2>1. joined \in [Nodes -> Nodes \cup {NULL, Freed}]
    BY <1>1, <1>5
  <2>2. r[i] \in Nodes /\ r[i] # c[k]
    BY <1>1, <1>2
  <2>3. nx2[r[i]] = joined[r[i]]
    BY <2>1, <2>2
  <2> HIDE DEF nx2
  <2>4. CASE i = k - 1
    <3>1. i \in 1..Len(c) /\ r[i] = c[k - 1] /\ k # 1
      BY <2>4, <1>1, <1>2
    <3>2. joined[r[i]] = nx[c[k]]
      BY <3>1, <2>2
    <3>3. nx[c[k]] = IF k = Len(c) THEN NULL ELSE c[k + 1]
      BY <1>5 DEF Forward
    <3>4. k = Len(c) <=> i = Len(r)
      BY <2>4, <1>1
    <3>5. k # Len(c) => r[k] = c[k + 1] /\ i + 1 = k
      BY <2>4, <1>1, <1>2
    <3> QED
      BY <2>3, <3>2, <3>3, <3>4, <3>5
  <2>5. CASE i < k - 1
    <3>1. i \in 1..Len(c) /\ k - 1 \in 1..Len(c) /\ r[i] = c[i] /\ r[i] # c[k - 1]
      <4>1. i \in 1..Len(c) /\ k - 1 \in 1..Len(c) /\ i # k - 1 /\ i < k
        BY <2>5, <1>1
      <4>2. r[i] = c[i]
        BY <4>1 DEF Drops
      <4>3. c[i] # c[k - 1]
        BY <4>1 DEF Distinct
      <4> QED
        BY <4>1, <4>2, <4>3
    <3>2. joined[r[i]] = nx[c[i]]
      BY <3>1, <2>2
    <3>3. nx[c[i]] = c[i + 1]
      BY <3>1, <2>5, <1>1, <1>5 DEF Forward
    <3>4. i # Len(r) /\ r[i + 1] = c[i + 1]
      BY <2>5, <1>1, <1>2
    <3> QED
      BY <2>3, <3>2, <3>3, <3>4
  <2>6. CASE i >= k
    <3>1. /\ i + 1 \in 1..Len(c) /\ r[i] = c[i + 1]
          /\ k # 1 => k - 1 \in 1..Len(c) /\ r[i] # c[k - 1]
      BY <2>6, <1>1, <1>2
    <3>2. joined[r[i]] = nx[c[i + 1]]
      BY <3>1, <2>2
    <3>3. nx[c[i + 1]] = IF i + 1 = Len(c) THEN NULL ELSE c[(i + 1) + 1]
      BY <3>1, <1>5 DEF Forward
    <3>4. i + 1 # Len(c) => i # Len(r) /\ r[i + 1] = c[(i + 1) + 1]
      BY <2>6, <1>1, <1>2
    <3> QED
      BY <2>3, <3>2, <3>3, <3>4, <1>1
  <2> QED
    BY <2>4, <2>5, <2>6, <1>1
<1>6. ASSUME NEW pv \in [Nodes -> Nodes \cup {NULL, Freed}], Backward(c, pv)
      PROVE  Backward(r, [(IF k = Len(c) THEN pv ELSE [pv EXCEPT ![c[k + 1]] = pv[c[k]]])
                            EXCEPT ![c[k]] = Freed])
  <2> DEFINE joined == IF k = Len(c) THEN pv ELSE [pv EXCEPT ![c[k + 1]] = pv[c[k]]]
             pv2 == [joined EXCEPT ![c[k]] = Freed]
  <2> SUFFICES ASSUME NEW i \in 1..Len(r)
               PROVE  pv2[r[i]] = IF i = 1 THEN NULL ELSE r[i - 1]
    BY DEF Backward
  <2>1. joined \in [Nodes -> Nodes \cup {NULL, Freed}]
    BY <1>1, <1>6
  <2>2. r[i] \in Nodes /\ r[i] # c[k]
    BY <1>1, <1>2
  <2>3. pv2[r[i]] = joined[r[i]]
    BY <2>1, <2>2
  <2> HIDE DEF pv2
  <2>4. CASE i = k
    <3>1. i \in 1..Len(r) /\ r[i] = c[k + 1] /\ k # Len(c)
      BY <2>4, <1>1, <1>2
    <3>2. joined[r[i]] = pv[c[k]]
      BY <3>1, <2>2
    <3>3. pv[c[k]] = IF k = 1 THEN NULL ELSE c[k - 1]
      BY <1>6 DEF Backward
    <3>4. k # 1 => r[i - 1] = c[k - 1]
      BY <2>4, <1>1, <1>2
    <3> QED
      BY <2>3, <2>4, <3>2, <3>3, <3>4
  <2>5. CASE i > k
    <3>1. /\ i + 1 \in 1..Len(c) /\ r[i] = c[i + 1]
          /\ k # Len(c) /\ k + 1 \in 1..Len(c) /\ r[i] # c[k + 1]
      BY <2>5, <1>1, <1>2
    <3>2. joined[r[i]] = pv[c[i + 1]]
      BY <3>1, <2>2
    <3>3. pv[c[i + 1]] = c[i]
      BY <3>1, <1>6 DEF Backward
    <3>4. i # 1 /\ r[i - 1] = c[i]
      BY <2>5, <1>1 DEF Drops
    <3> QED
      BY <2>3, <3>2, <3>3, <3>4
  <2>6. CASE i < k
    <3>1. /\ i \in 1..Len(c) /\ r[i] = c[i]
          /\ k # Len(c) => k + 1 \in 1..Len(c) /\ r[i] # c[k + 1]
      <4>1. i \in 1..Len(c) /\ r[i] = c[i]
        BY <2>6, <1>1, <1>2
      <4>2. k # Len(c) => k + 1 \in 1..Len(c) /\ i # k + 1
        BY <2>6, <1>1
      <4> QED
        BY <4>1, <4>2, <1>1
    <3>2. joined[r[i]] = pv[c[i]]
      BY <3>1, <2>2
    <3>3. pv[c[i]] = IF i = 1 THEN NULL ELSE c[i - 1]
      BY <3>1, <1>6 DEF Backward
    <3>4. i # 1 => r[i - 1] = c[i - 1]
      BY <2>6, <1>1 DEF Drops
    <3> QED
      BY <2>3, <3>2, <3>3, <3>4
  <2> QED
    BY <2>4, <2>5, <2>6, <1>1
<1> QED
  BY <1>3, <1>4, <1>5, <1>6

(* A new node in front of the first one. *)
LEMMA PushNode ==
    ASSUME NEW c \in Seq(Nodes), NEW n \in Nodes, Distinct(c), n \notin NodesOf(c)
    PROVE  LET r == <<n>> \o c IN
           /\ r \in Seq(Nodes) /\ Len(r) = Len(c) + 1
           /\ r[1] = n /\ \A i \in 1..Len(c) : r[i + 1] = c[i]
           /\ First(r) = n /\ Final(r) = IF Len(c) = 0 THEN n ELSE Final(c)
           /\ Distinct(r) /\ NodesOf(r) = NodesOf(c) \cup {n}
           /\ \A nx : Forward(c, nx) /\ nx \in [Nodes -> Nodes \cup {NULL, Freed}] =>
                Forward(r, [nx EXCEPT ![n] = First(c)])
           /\ \A pv : Backward(c, pv) /\ pv \in [Nodes -> Nodes \cup {NULL, Freed}] =>
                Backward(r, [m \in Nodes |-> CASE m = n        -> NULL
                                               [] m = First(c) -> n
                                               [] OTHER        -> pv[m]])
<1> DEFINE one == <<n>>
           r == one \o c
<1>1. one \in Seq(Nodes) /\ Len(one) = 1 /\ one[1] = n
  OBVIOUS
<1>2. /\ Len(c) \in Nat /\ \A i \in 1..Len(c) : c[i] \in Nodes /\ c[i] # n
      /\ \A i, j \in 1..Len(c) : c[i] = c[j] => i = j
  BY DEF NodesOf, Distinct
<1> HIDE DEF one
<1>3. /\ r \in Seq(Nodes) /\ Len(r) = Len(one) + Len(c)
      /\ \A i \in 1..(Len(one) + Len(c)) :
           r[i] = IF i <= Len(one) THEN one[i] ELSE c[i - Len(one)]
  BY <1>1, ConcatProperties
<1> HIDE DEF r
<1>4. Len(r) = Len(c) + 1 /\ r[1] = n
  BY <1>1, <1>2, <1>3
<1>5. \A i \in 1..Len(c) : r[i + 1] = c[i]
  BY <1>1, <1>2, <1>3
<1>6. \A i \in 1..Len(r) : i = 1 \/ (i - 1 \in 1..Len(c) /\ r[i] = c[i - 1])
  BY <1>1, <1>2, <1>3, <1>4
<1>7. First(r) = n /\ Final(r) = IF Len(c) = 0 THEN n ELSE Final(c)
  <2>1. Len(c) # 0 => r[Len(c) + 1] = c[Len(c)]
    BY <1>2, <1>5
  <2> QED
    BY <2>1, <1>2, <1>4 DEF First, Final
<1>8. Distinct(r)
  <2> SUFFICES ASSUME NEW i \in 1..Len(r), NEW j \in 1..Len(r), r[i] = r[j]
               PROVE  i = j
    BY DEF Distinct
  <2>1. CASE i = 1
    BY <2>1, <1>2, <1>4, <1>6
  <2>2. CASE j = 1
    BY <2>2, <1>2, <1>4, <1>6
  <2>3. CASE i # 1 /\ j # 1
    <3>1. i - 1 \in 1..Len(c) /\ j - 1 \in 1..Len(c) /\ c[i - 1] = c[j - 1]
      BY <2>3, <1>6
    <3> QED
      BY <3>1, <1>2
  <2> QED
    BY <2>1, <2>2, <2>3
<1>9. NodesOf(r) = NodesOf(c) \cup {n}
  <2>1. \A i \in 1..Len(r) : r[i] \in NodesOf(c) \cup {n}
    BY <1>4, <1>6 DEF NodesOf
  <2>2. \A i \in 1..Len(c) : i + 1 \in 1..Len(r) /\ r[i + 1] = c[i]
    BY <1>2, <1>4, <1>5
  <2>3. 1 \in 1..Len(r)
    BY <1>2, <1>4
  <2>4. n \in NodesOf(r)
    BY <2>3, <1>4 DEF NodesOf
  <2>5. \A i \in 1..Len(c) : c[i] \in NodesOf(r)
    BY <2>2 DEF NodesOf
  <2> QED
    BY <2>1, <2>4, <2>5 DEF NodesOf
<1>10. ASSUME NEW nx \in [Nodes -> Nodes \cup {NULL, Freed}], Forward(c, nx)
       PROVE  Forward(r, [nx EXCEPT ![n] = First(c)])
  <2> DEFINE nx2 == [nx EXCEPT ![n] = First(c)]
  <2> SUFFICES ASSUME NEW i \in 1..Len(r)
               PROVE  nx2[r[i]] = IF i = Len(r) THEN NULL ELSE r[i + 1]
    BY DEF Forward
  <2>1. CASE i = 1
    <3>1. nx2[r[i]] = First(c)
      BY <2>1, <1>4
    <3>2. Len(c) # 0 => r[1 + 1] = c[1]
      BY <1>2, <1>5
    <3> QED
      BY <3>1, <3>2, <2>1, <1>2, <1>4 DEF First
  <2>2. CASE i # 1
    <3>1. i - 1 \in 1..Len(c) /\ r[i] = c[i - 1]
      BY <2>2, <1>6
    <3>2. nx2[r[i]] = nx[c[i - 1]]
      BY <3>1, <1>2
    <3>3. nx[c[i - 1]] = IF i - 1 = Len(c) THEN NULL ELSE c[(i - 1) + 1]
      BY <3>1, <1>10 DEF Forward
    <3>4. i # Len(r) => i \in 1..Len(c) /\ r[i + 1] = c[i] /\ (i - 1) + 1 = i
      BY <1>2, <1>4, <1>5
    <3> QED
      BY <3>2, <3>3, <3>4, <1>2, <1>4
  <2> QED
    BY <2>1, <2>2
<1>11. ASSUME NEW pv \in [Nodes -> Nodes \cup {NULL, Freed}], Backward(c, pv)
       PROVE  Backward(r, [m \in Nodes |-> CASE m = n        -> NULL
                                             [] m = First(c) -> n
                                             [] OTHER        -> pv[m]])
  <2> DEFINE pv2 == [m \in Nodes |-> CASE m = n        -> NULL
                                        [] m = First(c) -> n
                                        [] OTHER        -> pv[m]]
  <2>0. \A m \in Nodes : pv2[m] = IF m = n THEN NULL ELSE IF m = First(c) THEN n ELSE pv[m]
    BY <1>2 DEF First
  <2> HIDE DEF pv2
  <2> SUFFICES ASSUME NEW i \in 1..Len(r)
               PROVE  pv2[r[i]] = IF i = 1 THEN NULL ELSE r[i - 1]
    BY DEF Backward, pv2
  <2>1. CASE i = 1
    BY <2>0, <2>1, <1>4
  <2>2. CASE i # 1
    <3>1. i - 1 \in 1..Len(c) /\ r[i] = c[i - 1] /\ c[i - 1] \in Nodes /\ c[i - 1] # n
      BY <2>2, <1>2, <1>6
    <3>2. CASE i = 2
      <4>1. c[i - 1] = First(c)
        BY <3>1, <3>2, <1>2 DEF First
      <4> QED
        BY <4>1, <3>1, <3>2, <2>0, <1>4
    <3>3. CASE i # 2
      <4>1. c[i - 1] # First(c) /\ i - 1 # 1
        BY <3>1, <3>3, <2>2, <1>2 DEF First
      <4>2. pv2[r[i]] = pv[c[i - 1]]
        BY <4>1, <3>1, <2>0
      <4>3. pv[c[i - 1]] = c[(i - 1) - 1]
        BY <4>1, <3>1, <1>11 DEF Backward
      <4>4. /\ i - 2 \in 1..Len(c) /\ (i - 1) - 1 = i - 2 /\ (i - 2) + 1 = i - 1
        BY <4>1, <3>1
      <4>5. r[i - 1] = c[i - 2]
        BY <4>4, <1>5
      <4> QED
        BY <4>2, <4>3, <4>4, <4>5, <2>2
    <3> QED
      BY <3>2, <3>3
  <2> QED
    BY <2>1, <2>2
<1> QED
  BY <1>3, <1>4, <1>5, <1>7, <1>8, <1>9, <1>10, <1>11 DEF r, one

(* A new node behind the last one. *)
LEMMA AppendNode ==
    ASSUME NEW c \in Seq(Nodes), NEW n \in Nodes, Distinct(c), n \notin NodesOf(c)
    PROVE  LET r == Append(c, n) IN
           /\ r \in Seq(Nodes) /\ Len(r) = Len(c) + 1
           /\ r[Len(c) + 1] = n /\ \A i \in 1..Len(c) : r[i] = c[i]
           /\ Final(r) = n /\ First(r) = IF Len(c) = 0 THEN n ELSE First(c)
           /\ Distinct(r) /\ NodesOf(r) = NodesOf(c) \cup {n}
           /\ \A nx : Forward(c, nx) /\ nx \in [Nodes -> Nodes \cup {NULL, Freed}] =>
                Forward(r, [m \in Nodes |-> CASE m = n        -> NULL
                                              [] m = Final(c) -> n
                                              [] OTHER        -> nx[m]])
           /\ \A pv : Backward(c, pv) /\ pv \in [Nodes -> Nodes \cup {NULL, Freed}] =>
                Backward(r, [pv EXCEPT ![n] = Final(c)])
<1> DEFINE r == Append(c, n)
<1>1. /\ r \in Seq(Nodes) /\ Len(r) = Len(c) + 1
      /\ r[Len(c) + 1] = n /\ \A i \in 1..Len(c) : r[i] = c[i]
  OBVIOUS
<1>2. /\ Len(c) \in Nat /\ \A i \in 1..Len(c) : c[i] \in Nodes /\ c[i] # n
      /\ \A i, j \in 1..Len(c) : c[i] = c[j] => i = j
  BY DEF NodesOf, Distinct
<1> HIDE DEF r
<1>3. \A i \in 1..Len(r) : i = Len(c) + 1 \/ i \in 1..Len(c)
  BY <1>1, <1>2
<1>4. Final(r) = n /\ First(r) = IF Len(c) = 0 THEN n ELSE First(c)
  BY <1>1, <1>2 DEF First, Final
<1>5. Distinct(r)
  BY <1>1, <1>2, <1>3 DEF Distinct
<1>6. NodesOf(r) = NodesOf(c) \cup {n}
  <2>1. \A i \in 1..Len(r) : r[i] \in NodesOf(c) \cup {n}
    BY <1>1, <1>3 DEF NodesOf
  <2>2. \A i \in 1..Len(c) : i \in 1..Len(r)
    BY <1>1, <1>2
  <2>3. Len(c) + 1 \in 1..Len(r)
    BY <1>1, <1>2
  <2> QED
    BY <2>1, <2>2, <2>3, <1>1 DEF NodesOf
<1>7. ASSUME NEW nx \in [Nodes -> Nodes \cup {NULL, Freed}], Forward(c, nx)
      PROVE  Forward(r, [m \in Nodes |-> CASE m = n        -> NULL
                                           [] m = Final(c) -> n
                                           [] OTHER        -> nx[m]])
  <2> DEFINE nx2 == [m \in Nodes |-> CASE m = n        -> NULL
                                        [] m = Final(c) -> n
                                        [] OTHER        -> nx[m]]
  <2>0. \A m \in Nodes : nx2[m] = IF m = n THEN NULL ELSE IF m = Final(c) THEN n ELSE nx[m]
    BY <1>2 DEF Final
  <2> HIDE DEF nx2
  <2> SUFFICES ASSUME NEW i \in 1..Len(r)
               PROVE  nx2[r[i]] = IF i = Len(r) THEN NULL ELSE r[i + 1]
    BY DEF Forward, nx2
  <2>1. CASE i = Len(c) + 1
    BY <2>0, <2>1, <1>1
  <2>2. CASE i = Len(c)
    <3>1. i \in 1..Len(c) /\ r[i] = c[Len(c)] /\ c[Len(c)] = Final(c)
      BY <2>2, <1>1, <1>2 DEF Final
    <3>2. nx2[r[i]] = n
      BY <3>1, <2>0, <2>2, <1>2
    <3> QED
      BY <3>2, <2>2, <1>1, <1>2
  <2>3. CASE i \in 1..Len(c) /\ i # Len(c)
    <3>1. /\ r[i] = c[i] /\ c[i] # Final(c) /\ c[i] \in Nodes /\ c[i] # n
      BY <2>3, <1>1, <1>2 DEF Final
    <3>2. nx2[r[i]] = nx[c[i]]
      BY <3>1, <2>0
    <3>3. nx[c[i]] = c[i + 1]
      BY <2>3, <1>7 DEF Forward
    <3>4. i + 1 \in 1..Len(c) /\ r[i + 1] = c[i + 1] /\ i # Len(r)
      BY <2>3, <1>1, <1>2
    <3> QED
      BY <3>2, <3>3, <3>4
  <2> QED
    BY <2>1, <2>2, <2>3, <1>3
<1>8. ASSUME NEW pv \in [Nodes -> Nodes \cup {NULL, Freed}], Backward(c, pv)
      PROVE  Backward(r, [pv EXCEPT ![n] = Final(c)])
  <2> DEFINE pv2 == [pv EXCEPT ![n] = Final(c)]
  <2> SUFFICES ASSUME NEW i \in 1..Len(r)
               PROVE  pv2[r[i]] = IF i = 1 THEN NULL ELSE r[i - 1]
    BY DEF Backward
  <2>1. CASE i = Len(c) + 1
    <3>1. pv2[r[i]] = Final(c)
      BY <2>1, <1>1
    <3>2. Len(c) # 0 => r[i - 1] = c[Len(c)]
      BY <2>1, <1>1, <1>2
    <3> QED
      BY <3>1, <3>2, <2>1, <1>2 DEF Final
  <2>2. CASE i \in 1..Len(c)
    <3>1. pv2[r[i]] = pv[c[i]]
      BY <2>2, <1>1, <1>2
    <3>2. pv[c[i]] = IF i = 1 THEN NULL ELSE c[i - 1]
      BY <2>2, <1>8 DEF Backward
    <3>3. i # 1 => i - 1 \in 1..Len(c) /\ r[i - 1] = c[i - 1]
      BY <2>2, <1>1, <1>2
    <3> QED
      BY <3>1, <3>2, <3>3
  <2> QED
    BY <2>1, <2>2, <1>3
<1> QED
  BY <1>1, <1>4, <1>5, <1>6, <1>7, <1>8 DEF r

----------------------------------------------------------------------------
(* Each operation keeps the invariant. *)

(* An empty list has its invariant. *)
LEMMA InitInv == Init => IInv
<1> SUFFICES ASSUME Init PROVE IInv
  OBVIOUS
<1> USE DEF Init
<1>1. Len(chain) = 0 /\ chain \in Seq(Nodes)
  OBVIOUS
<1>2. TypeOK
  <2>1. /\ next \in [Nodes -> Nodes \cup {NULL, Freed}]
        /\ prev \in [Nodes -> Nodes \cup {NULL, Freed}]
        /\ payload \in [Nodes -> Payloads \cup {Freed}]
    OBVIOUS
  <2>2. before \in Seq(Payloads) /\ num_elements \in Nat
    OBVIOUS
  <2>3. answer \in [ok : BOOLEAN, out : Payloads \cup {None}]
    OBVIOUS
  <2> QED
    BY <1>1, <2>1, <2>2, <2>3 DEF TypeOK
<1>3. Chained
  BY <1>1 DEF Chained, Distinct, Forward, NodesOf
<1>4. Ends /\ Places /\ Sorting
  BY <1>1 DEF Ends, First, Final, Backward, Places, Sorting
<1> QED
  BY <1>2, <1>3, <1>4 DEF IInv

(* The ends of a chain are nodes or null. *)
LEMMA EndsInNodes ==
    ASSUME NEW c \in Seq(Nodes)
    PROVE  /\ Len(c) \in Nat
           /\ First(c) \in Nodes \cup {NULL} /\ Final(c) \in Nodes \cup {NULL}
           /\ Len(c) # 0 => First(c) \in NodesOf(c) /\ Final(c) \in NodesOf(c)
           /\ NodesOf(c) \subseteq Nodes
<1>1. Len(c) # 0 => 1 \in 1..Len(c) /\ Len(c) \in 1..Len(c)
  OBVIOUS
<1>2. \A i \in 1..Len(c) : c[i] \in Nodes
  OBVIOUS
<1>3. Len(c) \in Nat
  OBVIOUS
<1> QED
  BY <1>1, <1>2, <1>3 DEF First, Final, NodesOf

(* LinkedList_Push keeps the invariant. *)
LEMMA PushInv ==
    ASSUME IInv, NEW n \in Nodes, NEW p \in Payloads, Push(n, p) PROVE IInv'
<1>1. /\ pc = "idle" /\ node = NoIter /\ UNCHANGED <<node, loop>>
      /\ n \in Nodes \ allocated
      /\ allocated' = allocated \cup {n}
      /\ payload' = [payload EXCEPT ![n] = p]
      /\ num_elements' = num_elements + 1
      /\ head' = n
      /\ tail' = IF head = NULL THEN n ELSE tail
      /\ next' = [next EXCEPT ![n] = head]
      /\ prev' = [m \in Nodes |-> CASE m = n    -> NULL
                                    [] m = head -> n
                                    [] OTHER    -> prev[m]]
      /\ chain' = <<n>> \o chain
      /\ answer' = answer
  BY DEF Push, ListCall, NewNode
<1>2. /\ chain \in Seq(Nodes) /\ Distinct(chain) /\ Forward(chain, next)
      /\ allocated = NodesOf(chain) /\ Backward(chain, prev)
      /\ num_elements = Len(chain) /\ head = First(chain) /\ tail = Final(chain)
      /\ \A i \in 1..Len(chain) : payload[chain[i]] \in Payloads /\ chain[i] # n
      /\ next \in [Nodes -> Nodes \cup {NULL, Freed}]
      /\ prev \in [Nodes -> Nodes \cup {NULL, Freed}]
      /\ payload \in [Nodes -> Payloads \cup {Freed}]
      /\ Len(chain) \in Nat
      /\ head \in Nodes \cup {NULL} /\ tail \in Nodes \cup {NULL}
      /\ \A i \in 1..Len(chain) : chain[i] \in Nodes
  BY <1>1 DEF IInv, TypeOK, Chained, Ends, NodesOf
<1>3. /\ chain' \in Seq(Nodes) /\ Len(chain') = Len(chain) + 1
      /\ chain'[1] = n /\ \A i \in 1..Len(chain) : chain'[i + 1] = chain[i]
      /\ First(chain') = n /\ Final(chain') = IF Len(chain) = 0 THEN n ELSE Final(chain)
      /\ Distinct(chain') /\ NodesOf(chain') = NodesOf(chain) \cup {n}
      /\ Forward(chain', next') /\ Backward(chain', prev')
  <2> DEFINE r == <<n>> \o chain
  <2>1. n \in Nodes /\ n \notin NodesOf(chain)
    BY <1>1, <1>2
  <2>2. /\ r \in Seq(Nodes) /\ Len(r) = Len(chain) + 1
        /\ r[1] = n /\ \A i \in 1..Len(chain) : r[i + 1] = chain[i]
        /\ First(r) = n /\ Final(r) = IF Len(chain) = 0 THEN n ELSE Final(chain)
        /\ Distinct(r) /\ NodesOf(r) = NodesOf(chain) \cup {n}
    BY <1>2, <2>1, PushNode
  <2>3. Forward(r, next')
    BY <1>1, <1>2, <2>1, PushNode
  <2>4. Backward(r, prev')
    <3>1. prev' = [m \in Nodes |-> CASE m = n            -> NULL
                                     [] m = First(chain) -> n
                                     [] OTHER            -> prev[m]]
      BY <1>1, <1>2
    <3>2. Backward(r, [m \in Nodes |-> CASE m = n            -> NULL
                                         [] m = First(chain) -> n
                                         [] OTHER            -> prev[m]])
      BY <1>2, <2>1, PushNode
    <3> QED
      BY <3>1, <3>2
  <2> HIDE DEF r
  <2>5. chain' = r
    BY <1>1 DEF r
  <2> QED
    BY <2>2, <2>3, <2>4, <2>5
<1>4. tail' = Final(chain')
  BY <1>1, <1>2, <1>3, ListAssumption DEF First, Final
<1>5. \A i \in 1..Len(chain') : payload'[chain'[i]] \in Payloads
  <2> SUFFICES ASSUME NEW i \in 1..Len(chain') PROVE payload'[chain'[i]] \in Payloads
    OBVIOUS
  <2>1. CASE i = 1
    BY <2>1, <1>1, <1>2, <1>3
  <2>2. CASE i # 1
    <3>1. i - 1 \in 1..Len(chain) /\ chain'[(i - 1) + 1] = chain[i - 1] /\ (i - 1) + 1 = i
      BY <2>2, <1>2, <1>3
    <3> QED
      BY <3>1, <1>1, <1>2
  <2> QED
    BY <2>1, <2>2
<1>6. TypeOK'
  <2>1. /\ next' \in [Nodes -> Nodes \cup {NULL, Freed}]
        /\ payload' \in [Nodes -> Payloads \cup {Freed}]
    BY <1>1, <1>2
  <2>2. prev' \in [Nodes -> Nodes \cup {NULL, Freed}]
    BY <1>1, <1>2
  <2>3. /\ head' \in Nodes \cup {NULL} /\ tail' \in Nodes \cup {NULL}
        /\ num_elements' \in Nat /\ allocated' \subseteq Nodes
    BY <1>1, <1>2 DEF IInv, TypeOK
  <2> QED
    BY <1>1, <1>3, <2>1, <2>2, <2>3 DEF IInv, TypeOK, loop
<1>7. Chained'
  BY <1>1, <1>2, <1>3, <1>5 DEF Chained
<1>8. Ends' /\ Places' /\ Sorting'
  BY <1>1, <1>2, <1>3, <1>4 DEF Ends, Places, Sorting, loop
<1> QED
  BY <1>6, <1>7, <1>8 DEF IInv

(* LinkedList_Append keeps the invariant. *)
LEMMA AppendInv ==
    ASSUME IInv, NEW n \in Nodes, NEW p \in Payloads, Append_(n, p) PROVE IInv'
<1>1. /\ pc = "idle" /\ node = NoIter /\ UNCHANGED <<node, loop>>
      /\ n \in Nodes \ allocated
      /\ allocated' = allocated \cup {n}
      /\ payload' = [payload EXCEPT ![n] = p]
      /\ num_elements' = num_elements + 1
      /\ tail' = n
      /\ head' = IF tail = NULL THEN n ELSE head
      /\ prev' = [prev EXCEPT ![n] = tail]
      /\ next' = [m \in Nodes |-> CASE m = n    -> NULL
                                    [] m = tail -> n
                                    [] OTHER    -> next[m]]
      /\ chain' = Append(chain, n)
      /\ answer' = answer
  BY DEF Append_, ListCall, NewNode
<1>2. /\ chain \in Seq(Nodes) /\ Distinct(chain) /\ Forward(chain, next)
      /\ allocated = NodesOf(chain) /\ Backward(chain, prev)
      /\ num_elements = Len(chain) /\ head = First(chain) /\ tail = Final(chain)
      /\ \A i \in 1..Len(chain) : payload[chain[i]] \in Payloads /\ chain[i] # n
      /\ next \in [Nodes -> Nodes \cup {NULL, Freed}]
      /\ prev \in [Nodes -> Nodes \cup {NULL, Freed}]
      /\ payload \in [Nodes -> Payloads \cup {Freed}]
      /\ Len(chain) \in Nat
      /\ head \in Nodes \cup {NULL} /\ tail \in Nodes \cup {NULL}
      /\ \A i \in 1..Len(chain) : chain[i] \in Nodes
  BY <1>1 DEF IInv, TypeOK, Chained, Ends, NodesOf
<1>3. /\ chain' \in Seq(Nodes) /\ Len(chain') = Len(chain) + 1
      /\ chain'[Len(chain) + 1] = n /\ \A i \in 1..Len(chain) : chain'[i] = chain[i]
      /\ Final(chain') = n /\ First(chain') = IF Len(chain) = 0 THEN n ELSE First(chain)
      /\ Distinct(chain') /\ NodesOf(chain') = NodesOf(chain) \cup {n}
      /\ Forward(chain', next') /\ Backward(chain', prev')
  <2> DEFINE r == Append(chain, n)
  <2>1. n \in Nodes /\ n \notin NodesOf(chain)
    BY <1>1, <1>2
  <2>2. /\ r \in Seq(Nodes) /\ Len(r) = Len(chain) + 1
        /\ r[Len(chain) + 1] = n /\ \A i \in 1..Len(chain) : r[i] = chain[i]
        /\ Final(r) = n /\ First(r) = IF Len(chain) = 0 THEN n ELSE First(chain)
        /\ Distinct(r) /\ NodesOf(r) = NodesOf(chain) \cup {n}
    BY <1>2, <2>1, AppendNode
  <2>3. Forward(r, next')
    BY SMTT(20), <1>1, <1>2, <2>1, AppendNode
  <2>4. Backward(r, prev')
    BY <1>1, <1>2, <2>1, AppendNode
  <2> HIDE DEF r
  <2>5. chain' = r
    BY <1>1 DEF r
  <2> QED
    BY <2>2, <2>3, <2>4, <2>5
<1>4. head' = First(chain')
  BY <1>1, <1>2, <1>3, ListAssumption DEF First, Final
<1>5. \A i \in 1..Len(chain') : payload'[chain'[i]] \in Payloads
  <2> SUFFICES ASSUME NEW i \in 1..Len(chain') PROVE payload'[chain'[i]] \in Payloads
    OBVIOUS
  <2>1. CASE i = Len(chain) + 1
    BY <2>1, <1>1, <1>2, <1>3
  <2>2. CASE i # Len(chain) + 1
    <3>1. i \in 1..Len(chain) /\ chain'[i] = chain[i]
      BY <2>2, <1>2, <1>3
    <3> QED
      BY <3>1, <1>1, <1>2
  <2> QED
    BY <2>1, <2>2
<1>6. TypeOK'
  <2>1. /\ prev' \in [Nodes -> Nodes \cup {NULL, Freed}]
        /\ payload' \in [Nodes -> Payloads \cup {Freed}]
    BY <1>1, <1>2
  <2>2. next' \in [Nodes -> Nodes \cup {NULL, Freed}]
    BY <1>1, <1>2
  <2>3. /\ head' \in Nodes \cup {NULL} /\ tail' \in Nodes \cup {NULL}
        /\ num_elements' \in Nat /\ allocated' \subseteq Nodes
    BY <1>1, <1>2 DEF IInv, TypeOK
  <2> QED
    BY <1>1, <1>3, <2>1, <2>2, <2>3 DEF IInv, TypeOK, loop
<1>7. Chained'
  BY <1>1, <1>2, <1>3, <1>5 DEF Chained
<1>8. Ends' /\ Places' /\ Sorting'
  BY <1>1, <1>2, <1>3, <1>4 DEF Ends, Places, Sorting, loop
<1> QED
  BY <1>6, <1>7, <1>8 DEF IInv

(* Taking out the k-th node, with its neighbours joined. *)
LEMMA RemoveInv ==
    ASSUME IInv, pc = "idle", NEW k \in 1..Len(chain),
           chain' \in Seq(Nodes), Drops(chain', chain, k),
           FreeNode(chain[k],
                    IF k = 1 THEN next ELSE [next EXCEPT ![chain[k - 1]] = next[chain[k]]],
                    IF k = Len(chain) THEN prev
                    ELSE [prev EXCEPT ![chain[k + 1]] = prev[chain[k]]]),
           num_elements' = num_elements - 1,
           head' = First(chain'), tail' = Final(chain'),
           node' \in NodesOf(chain') \cup {NULL, NoIter},
           answer' \in [ok : BOOLEAN, out : Payloads \cup {None}],
           UNCHANGED loop
    PROVE  IInv'
<1>1. /\ chain \in Seq(Nodes) /\ Distinct(chain) /\ Forward(chain, next)
      /\ allocated = NodesOf(chain) /\ Backward(chain, prev)
      /\ num_elements = Len(chain)
      /\ \A i \in 1..Len(chain) : payload[chain[i]] \in Payloads
      /\ next \in [Nodes -> Nodes \cup {NULL, Freed}]
      /\ prev \in [Nodes -> Nodes \cup {NULL, Freed}]
      /\ payload \in [Nodes -> Payloads \cup {Freed}]
  BY DEF IInv, TypeOK, Chained, Ends
<1>2. /\ \A i \in 1..Len(chain) : chain[i] \in Nodes
      /\ Len(chain) \in Nat
      /\ Len(chain') = Len(chain) - 1
  BY <1>1 DEF Drops
<1>3. /\ Distinct(chain')
      /\ NodesOf(chain') = NodesOf(chain) \ {chain[k]}
      /\ Forward(chain', next')
      /\ Backward(chain', prev')
  <2>1. Distinct(chain') /\ NodesOf(chain') = NodesOf(chain) \ {chain[k]}
    BY <1>1, DropNode
  <2>2. Forward(chain', next')
    BY <1>1, DropNode DEF FreeNode
  <2>3. Backward(chain', prev')
    BY <1>1, DropNode DEF FreeNode
  <2> QED
    BY <2>1, <2>2, <2>3
<1>4. allocated' = NodesOf(chain') /\ payload' = [payload EXCEPT ![chain[k]] = Freed]
  BY <1>1, <1>3 DEF FreeNode
<1>5. \A i \in 1..Len(chain') : payload'[chain'[i]] \in Payloads
  <2> SUFFICES ASSUME NEW i \in 1..Len(chain') PROVE payload'[chain'[i]] \in Payloads
    OBVIOUS
  <2>1. chain'[i] \in NodesOf(chain) \ {chain[k]}
    BY <1>3 DEF NodesOf
  <2>2. PICK j \in 1..Len(chain) : chain'[i] = chain[j]
    BY <2>1 DEF NodesOf
  <2> QED
    BY <2>1, <2>2, <1>1, <1>2, <1>4
<1>6. Chained'
  BY <1>3, <1>4, <1>5 DEF Chained
<1>7. TypeOK'
  <2>1. /\ next' \in [Nodes -> Nodes \cup {NULL, Freed}]
        /\ prev' \in [Nodes -> Nodes \cup {NULL, Freed}]
    <3> DEFINE nx == IF k = 1 THEN next ELSE [next EXCEPT ![chain[k - 1]] = next[chain[k]]]
               pv == IF k = Len(chain) THEN prev
                     ELSE [prev EXCEPT ![chain[k + 1]] = prev[chain[k]]]
    <3>1. nx \in [Nodes -> Nodes \cup {NULL, Freed}]
      BY <1>1, <1>2
    <3>2. pv \in [Nodes -> Nodes \cup {NULL, Freed}]
      BY <1>1, <1>2
    <3>3. next' = [nx EXCEPT ![chain[k]] = Freed] /\ prev' = [pv EXCEPT ![chain[k]] = Freed]
      BY DEF FreeNode
    <3> HIDE DEF nx, pv
    <3> QED
      BY <3>1, <3>2, <3>3
  <2>2. payload' \in [Nodes -> Payloads \cup {Freed}]
    BY <1>1, <1>4
  <2>3. /\ head' \in Nodes \cup {NULL} /\ tail' \in Nodes \cup {NULL}
        /\ allocated' \subseteq Nodes /\ node' \in Nodes \cup {NULL, NoIter}
    BY <1>4, EndsInNodes
  <2>4. num_elements' \in Nat
    BY <1>1, <1>2
  <2> QED
    BY <2>1, <2>2, <2>3, <2>4 DEF IInv, TypeOK, loop
<1>8. Ends' /\ Places' /\ Sorting'
  BY <1>1, <1>2, <1>3, <1>4 DEF Ends, Places, Sorting, loop
<1> QED
  BY <1>6, <1>7, <1>8 DEF IInv

(* The first and the last element when the k-th has gone. *)
LEMMA DropEnds ==
    ASSUME NEW S, NEW c \in Seq(S), NEW r \in Seq(S), NEW k \in 1..Len(c), Drops(r, c, k)
    PROVE  /\ First(r) = IF Len(c) = 1 THEN NULL ELSE IF k = 1 THEN c[2] ELSE c[1]
           /\ Final(r) = IF Len(c) = 1 THEN NULL
                        ELSE IF k = Len(c) THEN c[Len(c) - 1] ELSE c[Len(c)]
<1>1. Len(c) \in Nat /\ Len(c) >= 1 /\ Len(r) = Len(c) - 1
  BY DEF Drops
<1>2. ASSUME Len(c) # 1
      PROVE  /\ r[1] = IF k = 1 THEN c[2] ELSE c[1]
             /\ r[Len(r)] = IF k = Len(c) THEN c[Len(c) - 1] ELSE c[Len(c)]
  <2>1. 1 \in 1..Len(r) /\ Len(r) \in 1..Len(r)
    BY <1>1, <1>2
  <2>2. r[1] = IF 1 < k THEN c[1] ELSE c[1 + 1]
    BY <2>1 DEF Drops
  <2>3. r[Len(r)] = IF Len(r) < k THEN c[Len(r)] ELSE c[Len(r) + 1]
    BY <2>1 DEF Drops
  <2>4. (1 < k <=> k # 1) /\ (Len(r) < k <=> k = Len(c)) /\ Len(r) + 1 = Len(c)
        /\ Len(r) = Len(c) - 1 /\ 1 + 1 = 2
    BY <1>1
  <2>5. r[1] = IF k = 1 THEN c[2] ELSE c[1]
    BY <2>2, <2>4
  <2>6. r[Len(r)] = IF k = Len(c) THEN c[Len(r)] ELSE c[Len(r) + 1]
    BY <2>3, <2>4
  <2> QED
    BY <2>4, <2>5, <2>6
<1> QED
  BY <1>1, <1>2 DEF First, Final

(* Position finds a node of a chain of distinct ones where it is. *)
LEMMA AtPosition ==
    ASSUME Distinct(chain), NEW i \in 1..Len(chain) PROVE Position(chain[i]) = i
BY DEF Position, Distinct

(* The list as the operations of an idle list find it. *)
LEMMA IdleList ==
    ASSUME IInv, pc = "idle"
    PROVE  /\ chain \in Seq(Nodes) /\ Distinct(chain) /\ Len(chain) \in Nat
           /\ \A i \in 1..Len(chain) : /\ chain[i] \in Nodes
                                       /\ payload[chain[i]] \in Payloads
                                       /\ chain[i] \notin {NULL, NoIter}
           /\ \A i \in 1..Len(chain) :
                /\ next[chain[i]] = IF i = Len(chain) THEN NULL ELSE chain[i + 1]
                /\ prev[chain[i]] = IF i = 1 THEN NULL ELSE chain[i - 1]
           /\ num_elements = Len(chain) /\ head = First(chain) /\ tail = Final(chain)
           /\ num_elements # 0 =>
                /\ head = chain[1] /\ tail = chain[Len(chain)]
                /\ 1 \in 1..Len(chain) /\ Len(chain) \in 1..Len(chain)
           /\ num_elements = 1 \/ num_elements = 0 \/ num_elements > 1
           /\ node \in NodesOf(chain) \cup {NULL, NoIter}
<1>1. /\ chain \in Seq(Nodes) /\ Distinct(chain) /\ Forward(chain, next)
      /\ Backward(chain, prev)
      /\ num_elements = Len(chain) /\ head = First(chain) /\ tail = Final(chain)
      /\ node \in NodesOf(chain) \cup {NULL, NoIter}
      /\ \A i \in 1..Len(chain) : payload[chain[i]] \in Payloads
  BY DEF IInv, TypeOK, Chained, Ends
<1>2. /\ Len(chain) \in Nat /\ \A i \in 1..Len(chain) : chain[i] \in Nodes
      /\ Len(chain) # 0 => 1 \in 1..Len(chain) /\ Len(chain) \in 1..Len(chain)
  BY <1>1
<1>3. \A i \in 1..Len(chain) : chain[i] \notin {NULL, NoIter}
  BY <1>2, ListAssumption
<1>4. \A n \in Nat : n = 1 \/ n = 0 \/ n > 1
  OBVIOUS
<1> QED
  BY <1>1, <1>2, <1>3, <1>4 DEF First, Final, Forward, Backward

(* LinkedList_Pop keeps the invariant. *)
LEMMA PopInv == ASSUME IInv, Pop PROVE IInv'
<1>1. /\ pc = "idle" /\ node = NoIter /\ UNCHANGED <<node, loop>>
      /\ num_elements # 0
      /\ answer' = [ok |-> TRUE, out |-> payload[head]]
      /\ num_elements' = num_elements - 1
      /\ chain' = Tail(chain)
  BY DEF Pop, ListCall, Answer
<1>2. Len(chain) # 0 /\ head = chain[1] /\ 1 \in 1..Len(chain) /\ chain \in Seq(Nodes)
  BY <1>1, IdleList
<1>3. chain' \in Seq(Nodes) /\ Drops(chain', chain, 1)
  BY <1>1, <1>2, EndsDrop
<1>4. answer' \in [ok : BOOLEAN, out : Payloads \cup {None}]
  BY <1>1, <1>2, IdleList
<1>5. CASE num_elements = 1
  <2>1. Len(chain) = 1 /\ head' = NULL /\ tail' = NULL /\ FreeNode(chain[1], next, prev)
    BY <1>1, <1>2, <1>5, IdleList DEF Pop
  <2>2. First(chain') = NULL /\ Final(chain') = NULL
    BY <2>1, <1>2, <1>3, DropEnds
  <2> QED
    BY <1>1, <1>2, <1>3, <1>4, <2>1, <2>2, RemoveInv
<1>6. CASE num_elements # 1
  <2>1. Len(chain) # 1 /\ Len(chain) = num_elements /\ 1 # Len(chain)
    BY <1>1, <1>6, IdleList
  <2>2. /\ head' = next[head] /\ tail' = tail
        /\ FreeNode(chain[1], next, [prev EXCEPT ![next[chain[1]]] = NULL])
    BY <1>6, <1>2 DEF Pop
  <2>3. next[chain[1]] = chain[1 + 1] /\ prev[chain[1]] = NULL
    BY <2>1, <1>1, <1>2, IdleList
  <2>4. FreeNode(chain[1], next, [prev EXCEPT ![chain[1 + 1]] = prev[chain[1]]])
    BY <2>2, <2>3
  <2>5. First(chain') = chain[2] /\ Final(chain') = chain[Len(chain)]
    BY <2>1, <1>2, <1>3, DropEnds
  <2>6. head' = First(chain') /\ tail' = Final(chain')
    BY <2>2, <2>3, <2>5, <1>1, <1>2, IdleList
  <2> QED
    BY <1>1, <1>2, <1>3, <1>4, <2>1, <2>4, <2>6, RemoveInv
<1> QED
  BY <1>5, <1>6

(* LinkedList_Slice keeps the invariant. *)
LEMMA SliceInv == ASSUME IInv, Slice PROVE IInv'
<1> DEFINE len == Len(chain)
<1>1. /\ pc = "idle" /\ node = NoIter /\ UNCHANGED <<node, loop>>
      /\ num_elements # 0
      /\ answer' = [ok |-> TRUE, out |-> payload[tail]]
      /\ num_elements' = num_elements - 1
      /\ chain' = Front(chain)
  BY DEF Slice, ListCall, Answer
<1>2. /\ len # 0 /\ tail = chain[len] /\ 1 \in 1..len /\ len \in 1..len
      /\ len \in Nat /\ chain \in Seq(Nodes)
  BY <1>1, IdleList
<1>3. chain' \in Seq(Nodes) /\ Drops(chain', chain, len)
  BY <1>1, <1>2, EndsDrop
<1>4. answer' \in [ok : BOOLEAN, out : Payloads \cup {None}]
  BY <1>1, <1>2, IdleList
<1>5. CASE num_elements = 1
  <2>1. len = 1 /\ head' = NULL /\ tail' = NULL /\ FreeNode(chain[len], next, prev)
    BY <1>1, <1>2, <1>5, IdleList DEF Slice
  <2>2. First(chain') = NULL /\ Final(chain') = NULL
    BY <2>1, <1>2, <1>3, DropEnds
  <2> QED
    BY <1>1, <1>2, <1>3, <1>4, <2>1, <2>2, RemoveInv
<1>6. CASE num_elements # 1
  <2>1. len # 1 /\ len = num_elements
    BY <1>1, <1>6, IdleList
  <2>2. /\ tail' = prev[tail] /\ head' = head
        /\ FreeNode(chain[len], [next EXCEPT ![prev[chain[len]]] = NULL], prev)
    BY <1>6, <1>2 DEF Slice
  <2>3. prev[chain[len]] = chain[len - 1] /\ next[chain[len]] = NULL
    BY <2>1, <1>1, <1>2, IdleList
  <2>4. FreeNode(chain[len], [next EXCEPT ![chain[len - 1]] = next[chain[len]]], prev)
    BY <2>2, <2>3
  <2>5. First(chain') = chain[1] /\ Final(chain') = chain[len - 1]
    BY <2>1, <1>2, <1>3, DropEnds
  <2>6. head' = First(chain') /\ tail' = Final(chain')
    BY <2>2, <2>3, <2>5, <1>1, <1>2, IdleList
  <2> QED
    BY <1>1, <1>2, <1>3, <1>4, <2>1, <2>4, <2>6, RemoveInv
<1> QED
  BY <1>5, <1>6

(* The four cases of LLIterator_Remove. *)
LEMMA IterRemoveInv == ASSUME IInv, IterRemove PROVE IInv'
<1> DEFINE len == Len(chain)
<1>1. /\ pc = "idle" /\ node # NoIter /\ node # NULL /\ UNCHANGED loop
      /\ RemoveOnly \/ RemoveHead \/ RemoveTail \/ RemoveMiddle
      /\ num_elements' = num_elements - 1
      /\ chain' = RemoveAt(chain, Position(node))
      /\ answer' = [ok |-> num_elements > 1, out |-> None]
  BY DEF IterRemove, IterCall, IsValid, Answer
<1>2. PICK k \in 1..len : node = chain[k]
  BY <1>1, IdleList DEF NodesOf
<1>3. /\ chain \in Seq(Nodes) /\ len \in Nat /\ num_elements = len /\ len # 0
      /\ Distinct(chain)
      /\ head = chain[1] /\ tail = chain[len] /\ 1 \in 1..len /\ len \in 1..len
      /\ next[node] = IF k = len THEN NULL ELSE chain[k + 1]
      /\ prev[node] = IF k = 1 THEN NULL ELSE chain[k - 1]
      /\ (node = head <=> k = 1) /\ (node = tail <=> k = len)
  <2>1. /\ chain \in Seq(Nodes) /\ len \in Nat /\ num_elements = len /\ Distinct(chain)
    BY <1>1, IdleList
  <2>2. len # 0
    BY <2>1
  <2>3. head = chain[1] /\ tail = chain[len] /\ 1 \in 1..len /\ len \in 1..len
    BY <1>1, <2>1, <2>2, IdleList
  <2>4. /\ next[node] = IF k = len THEN NULL ELSE chain[k + 1]
        /\ prev[node] = IF k = 1 THEN NULL ELSE chain[k - 1]
    BY <1>1, <1>2, IdleList
  <2> QED
    BY <1>2, <2>1, <2>2, <2>3, <2>4 DEF Distinct
<1>4. chain' \in Seq(Nodes) /\ Drops(chain', chain, k)
  BY <1>1, <1>2, <1>3, AtPosition, RemoveAtDrops
<1>5. answer' \in [ok : BOOLEAN, out : Payloads \cup {None}]
  BY <1>1
<1>6. /\ First(chain') = IF len = 1 THEN NULL ELSE IF k = 1 THEN chain[2] ELSE chain[1]
      /\ Final(chain') = IF len = 1 THEN NULL
                        ELSE IF k = len THEN chain[len - 1] ELSE chain[len]
  BY <1>3, <1>4, DropEnds
<1>7. /\ k # 1 => chain[k - 1] \in NodesOf(chain')
      /\ k # len => chain[k + 1] \in NodesOf(chain')
  <2>1. NodesOf(chain') = NodesOf(chain) \ {chain[k]}
    BY <1>3, <1>4, DropNode
  <2>2. k # 1 => k - 1 \in 1..len /\ k - 1 # k
    BY <1>3
  <2>3. k # len => k + 1 \in 1..len /\ k + 1 # k
    BY <1>3
  <2>4. \A i \in 1..len : i # k => chain[i] # chain[k] /\ chain[i] \in NodesOf(chain)
    BY <1>3 DEF NodesOf, Distinct
  <2> QED
    BY <2>1, <2>2, <2>3, <2>4
<1>8. CASE RemoveOnly
  <2>1. len = 1 /\ k = 1 /\ FreeNode(chain[k], next, prev)
    BY <1>2, <1>3, <1>8 DEF RemoveOnly
  <2>2. head' = First(chain') /\ tail' = Final(chain') /\ node' = NULL
    BY <1>6, <1>8, <2>1 DEF RemoveOnly
  <2> QED
    BY <1>1, <1>4, <1>5, <2>1, <2>2, RemoveInv
<1>9. CASE RemoveHead
  <2>1. k = 1 /\ len # 1
    BY <1>3, <1>9 DEF RemoveHead
  <2>2. FreeNode(chain[k], next, [prev EXCEPT ![chain[k + 1]] = prev[chain[k]]])
    BY <1>2, <1>3, <1>9, <2>1 DEF RemoveHead
  <2>3. head' = First(chain') /\ tail' = Final(chain') /\ node' \in NodesOf(chain')
    BY <1>3, <1>6, <1>7, <1>9, <2>1 DEF RemoveHead
  <2> QED
    BY <1>1, <1>4, <1>5, <2>1, <2>2, <2>3, RemoveInv
<1>10. CASE RemoveTail
  <2>1. k = len /\ k # 1 /\ len # 1
    BY <1>3, <1>10 DEF RemoveTail
  <2>2. FreeNode(chain[k], [next EXCEPT ![chain[k - 1]] = next[chain[k]]], prev)
    BY <1>2, <1>3, <1>10, <2>1 DEF RemoveTail
  <2>3. head' = First(chain') /\ tail' = Final(chain') /\ node' \in NodesOf(chain')
    BY <1>3, <1>6, <1>7, <1>10, <2>1 DEF RemoveTail
  <2> QED
    BY <1>1, <1>4, <1>5, <2>1, <2>2, <2>3, RemoveInv
<1>11. CASE RemoveMiddle
  <2>1. k # len /\ k # 1 /\ len # 1
    BY <1>3, <1>11 DEF RemoveMiddle
  <2>2. FreeNode(chain[k], [next EXCEPT ![chain[k - 1]] = next[chain[k]]],
                           [prev EXCEPT ![chain[k + 1]] = prev[chain[k]]])
    BY <1>2, <1>3, <1>11, <2>1 DEF RemoveMiddle
  <2>3. head' = First(chain') /\ tail' = Final(chain') /\ node' \in NodesOf(chain')
    BY <1>3, <1>6, <1>7, <1>11, <2>1 DEF RemoveMiddle
  <2> QED
    BY <1>1, <1>4, <1>5, <2>1, <2>2, <2>3, RemoveInv
<1> QED
  BY <1>1, <1>8, <1>9, <1>10, <1>11

----------------------------------------------------------------------------
(* LinkedList_Sort *)

(* The payloads along the chain are a sequence as long. *)
LEMMA ContentsSeq ==
    ASSUME TypeOK, \A i \in 1..Len(chain) : payload[chain[i]] \in Payloads
    PROVE  /\ Contents \in Seq(Payloads) /\ Len(Contents) = Len(chain)
           /\ \A i \in 1..Len(chain) : Contents[i] = payload[chain[i]]
<1>1. Len(chain) \in Nat
  BY DEF TypeOK
<1>2. Contents \in [1..Len(chain) -> Payloads]
  BY DEF Contents
<1>3. Contents \in Seq(Payloads)
  BY <1>1, <1>2, SeqDef
<1>4. Len(Contents) = Len(chain)
  BY <1>1, <1>2, <1>3, LenProperties
<1> QED
  BY <1>3, <1>4 DEF Contents

(* The start of a sort keeps the invariant: nothing is permuted yet. *)
LEMMA SortStartInv ==
    ASSUME IInv, NEW up \in BOOLEAN, SortStart(up) PROVE IInv'
<1>1. /\ pc = "idle" /\ node = NoIter /\ num_elements >= 2
      /\ pc' = "sort" /\ curnode' = head /\ swapped' = FALSE /\ ascending' = up
      /\ before' = Contents
      /\ UNCHANGED <<num_elements, head, tail, allocated, next, prev, payload, chain,
                     node, answer>>
  BY DEF SortStart, fields, heap
<1>2. /\ chain \in Seq(Nodes) /\ Len(chain) \in Nat /\ Len(chain) >= 2
      /\ head = chain[1] /\ Len(chain) = num_elements /\ 1 \in 1..Len(chain)
  BY <1>1, IdleList
<1>3. /\ Contents \in Seq(Payloads) /\ Len(Contents) = Len(chain)
      /\ \A i \in 1..Len(chain) : Contents[i] = payload[chain[i]]
  BY ContentsSeq DEF IInv, Chained
<1>4. TypeOK'
  BY <1>1, <1>3 DEF IInv, TypeOK
<1>5. Chained' /\ Ends' /\ Places'
  BY <1>1 DEF IInv, Chained, Ends, Places
<1>6. Sorting'
  <2>1. [i \in 1..Len(chain) |-> i] \in [1..Len(chain) -> 1..Len(chain)]
    OBVIOUS
  <2>2. PICK p \in [1..Len(chain) -> 1..Len(chain)] : \A i \in 1..Len(chain) : p[i] = i
    BY <2>1
  <2>3. PICK k \in 1..Len(chain) : k = 1
    BY <1>2
  <2>4. PassAt(k, p)'
    BY <1>1, <1>2, <1>3, <2>2, <2>3 DEF PassAt
  <2>5. Len(chain') >= 2 /\ Len(before') = Len(chain') /\ chain' = chain
    BY <1>1, <1>2, <1>3
  <2> QED
    BY <2>4, <2>5 DEF Sorting
<1> QED
  BY <1>4, <1>5, <1>6 DEF IInv

(* One comparison: payloads that are out of order change places, and the   *)
(* permutation with them.                                                  *)
LEMMA SortStepInv == ASSUME IInv, SortStep PROVE IInv'
<1> DEFINE len == Len(chain)
<1>1. /\ pc = "sort" /\ next[curnode] # NULL
      /\ curnode' = next[curnode]
      /\ UNCHANGED <<num_elements, head, tail, allocated, next, prev, chain, node, pc,
                     ascending, before, answer>>
      /\ IF OutOfOrder(payload[curnode], payload[next[curnode]])
         THEN /\ payload' = [payload EXCEPT ![curnode] = payload[next[curnode]],
                                            ![next[curnode]] = payload[curnode]]
              /\ swapped' = TRUE
         ELSE UNCHANGED <<payload, swapped>>
  BY DEF SortStep, fields
<1>2. PICK k \in 1..len, p \in [1..len -> 1..len] : PassAt(k, p)
  BY <1>1 DEF IInv, Sorting
<1>3. /\ len \in Nat /\ len >= 2 /\ Len(before) = len
      /\ \A i \in 1..len : chain[i] \in Nodes /\ payload[chain[i]] \in Payloads
      /\ \A i, j \in 1..len : chain[i] = chain[j] => i = j
      /\ Forward(chain, next)
      /\ chain \in Seq(Nodes)
      /\ payload \in [Nodes -> Payloads \cup {Freed}]
  BY <1>1 DEF IInv, Sorting, TypeOK, Chained, Distinct
<1>4. /\ curnode = chain[k] /\ next[curnode] = chain[k + 1] /\ k + 1 \in 1..len
  <2>1. curnode = chain[k]
    BY <1>2 DEF PassAt
  <2>2. next[curnode] = IF k = len THEN NULL ELSE chain[k + 1]
    BY <1>3, <2>1 DEF Forward
  <2> QED
    BY <1>1, <1>3, <2>1, <2>2
<1> DEFINE x == payload[chain[k]]
           y == payload[chain[k + 1]]
<1>5. \A i \in 1..len : payload'[chain'[i]] =
         IF OutOfOrder(x, y) /\ i = k THEN y
         ELSE IF OutOfOrder(x, y) /\ i = k + 1 THEN x ELSE payload[chain[i]]
  BY <1>1, <1>3, <1>4
<1>6. x \in Payloads /\ y \in Payloads
  BY <1>3, <1>4
<1>7. TypeOK'
  <2>1. payload' \in [Nodes -> Payloads \cup {Freed}]
    BY <1>1, <1>3, <1>4, <1>6
  <2>2. swapped' \in BOOLEAN
    BY <1>1 DEF IInv, TypeOK
  <2>3. curnode' \in Nodes
    BY <1>1, <1>3, <1>4
  <2> QED
    BY <1>1, <2>1, <2>2, <2>3 DEF IInv, TypeOK
<1>8. Chained'
  <2>1. \A i \in 1..len : payload'[chain'[i]] \in Payloads
    BY <1>3, <1>5, <1>6
  <2> HIDE DEF x, y
  <2> QED
    BY <1>1, <2>1 DEF IInv, Chained
<1>9. Ends' /\ Places'
  BY <1>1 DEF IInv, Ends, Places
<1>10. Sorting'
  <2>1. Rank[x] \in Int /\ Rank[y] \in Int
        /\ \A i \in 1..len : Rank[payload[chain[i]]] \in Int
    BY <1>3, <1>6, ListAssumption
  <2>2. /\ \A i, j \in 1..len : p[i] = p[j] => i = j
        /\ \A i \in 1..len : payload[chain[i]] = before[p[i]]
        /\ \A i, j \in 1..len :
             i < j /\ Rank[payload[chain[i]]] = Rank[payload[chain[j]]] => p[i] < p[j]
        /\ ~swapped =>
             \A i, j \in 1..k : i < j => ~OutOfOrder(payload[chain[i]], payload[chain[j]])
    BY <1>2 DEF PassAt
  <2>3. CASE OutOfOrder(x, y)
    <3> DEFINE p2 == [p EXCEPT ![k] = p[k + 1], ![k + 1] = p[k]]
    <3>1. p2 \in [1..len -> 1..len]
      BY <1>4
    <3>2. \A i \in 1..len : p2[i] = IF i = k THEN p[k + 1] ELSE IF i = k + 1 THEN p[k] ELSE p[i]
      BY <1>4
    <3>3. Rank[x] # Rank[y]
      BY <2>1, <2>3 DEF OutOfOrder
    <3> HIDE DEF p2
    <3>4. \A i, j \in 1..len : p2[i] = p2[j] => i = j
      BY <2>2, <3>2, <1>4
    <3>5. \A i \in 1..len : payload'[chain'[i]] = before'[p2[i]]
      BY SMTT(20), <1>1, <1>4, <1>5, <2>2, <2>3, <3>2
    <3>6. ASSUME NEW i \in 1..len, NEW j \in 1..len, i < j,
                 Rank[payload'[chain'[i]]] = Rank[payload'[chain'[j]]]
          PROVE  p2[i] < p2[j]
      <4>0. k \in 1..len /\ k + 1 \in 1..len
        BY <1>4
      <4>1. CASE i = k /\ j = k + 1
        BY <4>1, <3>3, <3>6, <1>4, <1>5, <2>3
      <4>2. CASE i = k /\ j # k + 1
        <5>1. payload'[chain'[i]] = y /\ payload'[chain'[j]] = payload[chain[j]] /\ k + 1 < j
          BY <4>0, <4>2, <3>6, <1>5, <2>3
        <5>2. p[k + 1] < p[j]
          BY <5>1, <4>0, <3>6, <2>2
        <5> QED
          BY <5>2, <4>2, <3>2, <3>6
      <4>3. CASE i = k + 1
        <5>1. payload'[chain'[i]] = x /\ payload'[chain'[j]] = payload[chain[j]] /\ k < j
          BY <4>0, <4>3, <3>6, <1>5, <2>3
        <5>2. p[k] < p[j]
          BY <5>1, <4>0, <3>6, <2>2
        <5> QED
          BY <5>1, <5>2, <4>3, <3>2, <3>6
      <4>4. CASE i \notin {k, k + 1} /\ j = k
        <5>1. payload'[chain'[i]] = payload[chain[i]] /\ payload'[chain'[j]] = y /\ i < k + 1
          BY <4>0, <4>4, <3>6, <1>5, <2>3
        <5>2. p[i] < p[k + 1]
          BY <5>1, <4>0, <3>6, <2>2
        <5> QED
          BY <5>2, <4>4, <3>2
      <4>5. CASE i \notin {k, k + 1} /\ j = k + 1
        <5>1. payload'[chain'[i]] = payload[chain[i]] /\ payload'[chain'[j]] = x /\ i < k
          BY <4>0, <4>5, <3>6, <1>5, <2>3
        <5>2. p[i] < p[k]
          BY <5>1, <4>0, <3>6, <2>2
        <5> QED
          BY <5>2, <4>5, <3>2
      <4>6. CASE i \notin {k, k + 1} /\ j \notin {k, k + 1}
        <5>1. payload'[chain'[i]] = payload[chain[i]] /\ payload'[chain'[j]] = payload[chain[j]]
          BY <4>6, <1>5
        <5>2. p[i] < p[j]
          BY <5>1, <3>6, <2>2
        <5> QED
          BY <5>2, <4>6, <3>2
      <4> QED
        BY <4>1, <4>2, <4>3, <4>4, <4>5, <4>6
    <3>7. PassAt(k + 1, p2)'
      BY <1>1, <1>4, <2>3, <3>4, <3>5, <3>6 DEF PassAt
    <3> QED
      BY <1>1, <1>3, <1>4, <3>1, <3>7 DEF Sorting
  <2>4. CASE ~OutOfOrder(x, y)
    <3>1. payload' = payload /\ swapped' = swapped
      BY <1>1, <1>4, <2>4
    <3>2. ASSUME ~swapped, NEW i \in 1..(k + 1), NEW j \in 1..(k + 1), i < j
          PROVE  ~OutOfOrder(payload[chain[i]], payload[chain[j]])
      <4>1. CASE j # k + 1
        BY <3>2, <4>1, <2>2
      <4>2. CASE j = k + 1 /\ i = k
        BY <4>2, <2>4
      <4>3. CASE j = k + 1 /\ i # k
        <5>1. i \in 1..k /\ i \in 1..len /\ k \in 1..k /\ i < k
          BY <3>2, <4>3, <1>3
        <5>2. ~OutOfOrder(payload[chain[i]], x)
          BY <5>1, <3>2, <2>2
        <5> QED
          BY <5>1, <5>2, <4>3, <2>1, <2>4 DEF OutOfOrder
      <4> QED
        BY <4>1, <4>2, <4>3
    <3>3. PassAt(k + 1, p)'
      BY <1>1, <1>4, <2>2, <3>1, <3>2 DEF PassAt, OutOfOrder
    <3> QED
      BY <1>1, <1>3, <1>4, <3>3 DEF Sorting
  <2> QED
    BY <2>3, <2>4
<1> QED
  BY <1>7, <1>8, <1>9, <1>10 DEF IInv

(* The pass is over: another one from the head, or the list is sorted. *)
LEMMA SortPassDoneInv == ASSUME IInv, SortPassDone PROVE IInv'
<1>1. /\ pc = "sort"
      /\ UNCHANGED <<num_elements, head, tail, allocated, next, prev, payload, chain,
                     node, answer>>
      /\ IF swapped
         THEN curnode' = head /\ swapped' = FALSE /\ UNCHANGED <<pc, ascending, before>>
         ELSE /\ pc' = "idle" /\ curnode' = NULL /\ ascending' = TRUE
              /\ before' = << >> /\ UNCHANGED swapped
  BY DEF SortPassDone, fields, heap
<1>2. /\ node = NoIter /\ head = First(chain)
      /\ Len(chain) >= 2 /\ Len(before) = Len(chain) /\ chain \in Seq(Nodes)
  BY <1>1 DEF IInv, Places, Ends, Sorting, TypeOK
<1>3. TypeOK'
  <2>1. << >> \in Seq(Payloads)
    OBVIOUS
  <2> QED
    BY <1>1, <2>1 DEF IInv, TypeOK
<1>4. Chained' /\ Ends' /\ Places'
  BY <1>1, <1>2 DEF IInv, Chained, Ends, Places
<1>5. Sorting'
  <2>1. CASE ~swapped
    BY <1>1, <2>1 DEF Sorting
  <2>2. CASE swapped
    <3>1. PICK k \in 1..Len(chain), p \in [1..Len(chain) -> 1..Len(chain)] : PassAt(k, p)
      BY <1>1 DEF IInv, Sorting
    <3>2. PassAt(1, p)'
      BY <3>1, <2>2, <1>1, <1>2 DEF PassAt, First
    <3>3. 1 \in 1..Len(chain') /\ p \in [1..Len(chain') -> 1..Len(chain')]
      BY <3>1, <1>1, <1>2
    <3>4. Len(chain') >= 2 /\ Len(before') = Len(chain')
      BY <2>2, <1>1, <1>2
    <3> QED
      BY <3>2, <3>3, <3>4 DEF Sorting
  <2> QED
    BY <2>1, <2>2
<1> QED
  BY <1>3, <1>4, <1>5 DEF IInv

----------------------------------------------------------------------------
(* LinkedList_Free, and the operations that leave the list alone *)

(* LinkedList_Free keeps the invariant, node after node. *)
LEMMA FreeInv == ASSUME IInv, FreeStart \/ FreeStep \/ FreeDone PROVE IInv'
<1>1. CASE FreeStart
  <2>1. /\ pc = "idle" /\ node = NoIter /\ pc' = "freeing" /\ curnode' = head
        /\ UNCHANGED <<num_elements, head, tail, allocated, next, prev, payload, chain,
                       node, swapped, ascending, before, answer>>
    BY <1>1 DEF FreeStart, fields, heap
  <2>2. head = First(chain)
    BY <2>1 DEF IInv, Ends
  <2>3. TypeOK'
    BY <2>1 DEF IInv, TypeOK
  <2>4. Chained' /\ Ends' /\ Places' /\ Sorting'
    BY <2>1, <2>2 DEF IInv, Chained, Ends, Places, Sorting
  <2> QED
    BY <2>3, <2>4 DEF IInv
<1>2. CASE FreeStep
  <2>1. /\ pc = "freeing" /\ curnode # NULL /\ curnode' = next[curnode]
        /\ allocated' = allocated \ {curnode}
        /\ next' = [next EXCEPT ![curnode] = Freed]
        /\ prev' = [prev EXCEPT ![curnode] = Freed]
        /\ payload' = [payload EXCEPT ![curnode] = Freed]
        /\ chain' = Tail(chain)
        /\ UNCHANGED <<num_elements, head, tail, node, pc, swapped, ascending, before, answer>>
    BY <1>2 DEF FreeStep, FreeNode, fields
  <2>2. /\ chain \in Seq(Nodes) /\ curnode = First(chain)
        /\ Distinct(chain) /\ Forward(chain, next) /\ allocated = NodesOf(chain)
        /\ \A i \in 1..Len(chain) : payload[chain[i]] \in Payloads
        /\ next \in [Nodes -> Nodes \cup {NULL, Freed}]
        /\ prev \in [Nodes -> Nodes \cup {NULL, Freed}]
        /\ payload \in [Nodes -> Payloads \cup {Freed}]
    BY <2>1 DEF IInv, TypeOK, Chained, Places
  <2>3. Len(chain) # 0 /\ curnode = chain[1]
    BY <2>1, <2>2 DEF First
  <2>4. /\ chain' \in Seq(Nodes) /\ Drops(chain', chain, 1) /\ 1 \in 1..Len(chain)
    BY <2>1, <2>2, <2>3, EndsDrop
  <2>5. /\ Distinct(chain') /\ NodesOf(chain') = NodesOf(chain) \ {chain[1]}
        /\ Forward(chain', next')
    <3>1. Distinct(chain') /\ NodesOf(chain') = NodesOf(chain) \ {chain[1]}
      BY <2>2, <2>4, DropNode
    <3>2. Forward(chain', [(IF 1 = 1 THEN next ELSE [next EXCEPT ![chain[1 - 1]] = next[chain[1]]])
                             EXCEPT ![chain[1]] = Freed])
      BY <2>2, <2>4, DropNode
    <3> QED
      BY <3>1, <3>2, <2>1, <2>3
  <2>6. curnode' = First(chain')
    <3>1. /\ Len(chain') = Len(chain) - 1 /\ Len(chain) \in Nat
          /\ Len(chain') # 0 => chain'[1] = chain[1 + 1]
      BY <2>2, <2>4 DEF Drops
    <3>2. next[chain[1]] = IF 1 = Len(chain) THEN NULL ELSE chain[1 + 1]
      BY <2>2, <2>4 DEF Forward
    <3>3. curnode' = next[chain[1]]
      BY <2>1, <2>3
    <3>4. CASE Len(chain) = 1
      BY <3>1, <3>2, <3>3, <3>4 DEF First
    <3>5. CASE Len(chain) # 1
      <4>1. Len(chain') # 0
        BY <3>1, <3>5
      <4> QED
        BY <3>1, <3>2, <3>3, <3>5, <4>1 DEF First
    <3> QED
      BY <3>4, <3>5
  <2>7. \A i \in 1..Len(chain') : payload'[chain'[i]] \in Payloads
    <3> SUFFICES ASSUME NEW i \in 1..Len(chain') PROVE payload'[chain'[i]] \in Payloads
      OBVIOUS
    <3>1. chain'[i] \in NodesOf(chain) \ {chain[1]}
      BY <2>5 DEF NodesOf
    <3>2. PICK j \in 1..Len(chain) : chain'[i] = chain[j]
      BY <3>1 DEF NodesOf
    <3>3. chain[j] \in Nodes
      BY <2>2
    <3> QED
      BY <3>1, <3>2, <3>3, <2>1, <2>2, <2>3
  <2>8. TypeOK'
    <3>1. curnode' \in Nodes \cup {NULL}
      BY <2>4, <2>6, EndsInNodes
    <3>2. /\ next' \in [Nodes -> Nodes \cup {NULL, Freed}]
          /\ prev' \in [Nodes -> Nodes \cup {NULL, Freed}]
          /\ payload' \in [Nodes -> Payloads \cup {Freed}]
      BY <2>1, <2>2
    <3> QED
      BY <2>1, <2>4, <3>1, <3>2 DEF IInv, TypeOK
  <2>9. Chained' /\ Ends' /\ Places' /\ Sorting'
    BY <2>1, <2>2, <2>3, <2>5, <2>6, <2>7 DEF IInv, Chained, Ends, Places, Sorting
  <2> QED
    BY <2>8, <2>9 DEF IInv
<1>3. CASE FreeDone
  <2>1. /\ pc = "freeing" /\ curnode = NULL /\ pc' = "freed"
        /\ UNCHANGED <<num_elements, head, tail, allocated, next, prev, payload, chain,
                       node, curnode, swapped, ascending, before, answer>>
    BY <1>3 DEF FreeDone, fields, heap
  <2>2. Len(chain) = 0
    <3>1. Len(chain) # 0 => chain[1] \in Nodes
      BY DEF IInv, TypeOK
    <3> QED
      BY <2>1, <3>1, ListAssumption DEF IInv, Places, First
  <2>3. TypeOK'
    BY <2>1 DEF IInv, TypeOK
  <2>4. Chained' /\ Ends' /\ Places' /\ Sorting'
    BY <2>1, <2>2 DEF IInv, Chained, Ends, Places, Sorting
  <2> QED
    BY <2>3, <2>4 DEF IInv
<1> QED
  BY <1>1, <1>2, <1>3

(* Calls that leave the list as it is keep the invariant. *)
LEMMA QuietInv ==
    ASSUME IInv,
           \/ TakeNone \/ IterAllocate \/ IterFree \/ IterRewind \/ IterNext \/ IterGet
           \/ IterRemoveInvalid
    PROVE  IInv'
<1>1. /\ pc = "idle"
      /\ UNCHANGED <<num_elements, head, tail, allocated, next, prev, payload, chain,
                     pc, curnode, swapped, ascending, before>>
  BY DEF TakeNone, ListCall, IterAllocate, IterFree, IterRewind, IterNext, IterGet,
         IterRemoveInvalid, IterCall, fields, heap, loop
<1>2. node' \in NodesOf(chain) \cup {NULL, NoIter}
  <2>1. head \in NodesOf(chain) \cup {NULL} /\ node \in NodesOf(chain) \cup {NULL, NoIter}
    BY <1>1, IdleList DEF NodesOf, First
  <2>2. CASE IterNext /\ node # NULL
    <3>1. PICK i \in 1..Len(chain) : node = chain[i]
      BY <2>1, <2>2 DEF IterNext, IterCall, NodesOf
    <3>2. next[node] = IF i = Len(chain) THEN NULL ELSE chain[i + 1]
      BY <1>1, <3>1, IdleList
    <3>3. Len(chain) \in Nat /\ (i # Len(chain) => i + 1 \in 1..Len(chain))
      BY <1>1, <3>1, IdleList
    <3> QED
      BY <2>2, <3>1, <3>2, <3>3 DEF IterNext, IsValid, NodesOf
  <2> QED
    BY <2>1, <2>2 DEF TakeNone, ListCall, IterAllocate, IterFree, IterRewind, IterNext,
                      IterGet, IterRemoveInvalid, IsValid
<1>3. answer' \in [ok : BOOLEAN, out : Payloads \cup {None}]
  <2>1. CASE IterGet
    <3>1. PICK i \in 1..Len(chain) : node = chain[i]
      BY <1>1, <2>1, IdleList DEF IterGet, IterCall, IsValid, NodesOf
    <3>2. payload[node] \in Payloads
      BY <1>1, <3>1, IdleList
    <3>3. answer' = [ok |-> TRUE, out |-> payload[node]]
      BY <2>1 DEF IterGet, Answer
    <3> QED
      BY <3>2, <3>3
  <2>2. CASE TakeNone \/ IterNext \/ IterRemoveInvalid
    <3>1. (node' # NULL) \in BOOLEAN
      OBVIOUS
    <3>2. PICK b \in BOOLEAN : answer' = [ok |-> b, out |-> None]
      BY <2>2, <3>1 DEF TakeNone, IterNext, IterRemoveInvalid, Answer
    <3> QED
      BY <3>2
  <2>3. CASE IterAllocate \/ IterFree \/ IterRewind
    BY <2>3 DEF IterAllocate, IterFree, IterRewind, IInv, TypeOK
  <2> QED
    BY <2>1, <2>2, <2>3
<1>4. NodesOf(chain) \subseteq Nodes
  BY EndsInNodes DEF IInv, TypeOK
<1>5. TypeOK'
  BY <1>1, <1>2, <1>3, <1>4 DEF IInv, TypeOK
<1>6. Chained' /\ Ends' /\ Places' /\ Sorting'
  BY <1>1, <1>2 DEF IInv, Chained, Ends, Places, Sorting
<1> QED
  BY <1>5, <1>6 DEF IInv

(* So does no call at all. *)
LEMMA StutterInv == ASSUME IInv, UNCHANGED vars PROVE IInv'
<1> USE DEF IInv, vars, fields, heap, loop
<1>1. TypeOK'
  BY DEF TypeOK
<1>2. Chained' /\ Ends' /\ Places'
  BY DEF Chained, Ends, Places
<1>3. Sorting'
  BY DEF Sorting, PassAt, OutOfOrder
<1> QED
  BY <1>1, <1>2, <1>3

(* Every step keeps the invariant. *)
LEMMA NextInv == ASSUME IInv, [Next]_vars PROVE IInv'
<1>1. CASE \E n \in Nodes, p \in Payloads : Push(n, p) \/ Append_(n, p)
  BY <1>1, PushInv, AppendInv
<1>2. CASE Pop \/ Slice \/ IterRemove
  BY <1>2, PopInv, SliceInv, IterRemoveInv
<1>3. CASE \E up \in BOOLEAN : SortStart(up)
  BY <1>3, SortStartInv
<1>4. CASE FreeStart \/ LoopStep
  BY <1>4, FreeInv, SortStepInv, SortPassDoneInv DEF LoopStep
<1>5. CASE \/ TakeNone \/ IterAllocate \/ IterFree \/ IterRewind \/ IterNext \/ IterGet
           \/ IterRemoveInvalid
  BY <1>5, QuietInv
<1>6. CASE Finished \/ UNCHANGED vars
  BY <1>6, StutterInv DEF Finished
<1> QED
  BY <1>1, <1>2, <1>3, <1>4, <1>5, <1>6 DEF Next

(* IInv is inductive. *)
THEOREM Inductive == Spec => []IInv
BY InitInv, NextInv, PTL DEF Spec

(* Fields, nodes and answers keep their types: no operation returns what a *)
(* freed node holds.                                                       *)
THEOREM TypeCorrect == Spec => []TypeOK
<1>1. IInv => TypeOK
  BY DEF IInv
<1> QED
  BY <1>1, Inductive, PTL

(* The memory is one list in both directions after every operation, and    *)
(* every node is given back.                                               *)
THEOREM ListIsDoublyLinked == Spec => []DoublyLinked
<1>1. ASSUME IInv PROVE DoublyLinked
  <2>1. Range(chain) = NodesOf(chain)
    BY DEF IInv, TypeOK, Range, NodesOf
  <2>2. Len(chain) = 0 => NodesOf(chain) = {}
    BY DEF NodesOf
  <2> QED
    BY <1>1, <2>1, <2>2
      DEF DoublyLinked, IInv, Chained, Ends, Places, Distinct, Forward, Backward, First, Final
<1> QED
  BY <1>1, Inductive, PTL

----------------------------------------------------------------------------
(* The refinement of SequenceList, operation by operation. *)

(* The payloads of a chain, as a sequence. *)
PayloadsOf(c, pl) == [i \in 1..Len(c) |-> pl[c[i]]]

(* The payloads of a chain are a sequence if they agree with it place by *)
(* place.                                                                *)
LEMMA PayloadsAre ==
    ASSUME NEW c \in Seq(Nodes), NEW pl, NEW t \in Seq(Payloads),
           Len(t) = Len(c), \A i \in 1..Len(c) : pl[c[i]] = t[i]
    PROVE  PayloadsOf(c, pl) = t
<1>1. Len(c) \in Nat /\ t \in [1..Len(c) -> Payloads]
  BY LenProperties
<1>2. PayloadsOf(c, pl) \in [1..Len(c) -> Payloads]
  BY <1>1 DEF PayloadsOf
<1> QED
  BY <1>1, <1>2 DEF PayloadsOf

(* The sequence, and where the iterator stands in it, in an idle list. *)
LEMMA IdleSequence ==
    ASSUME IInv, pc = "idle"
    PROVE  /\ Contents \in Seq(Payloads) /\ Len(Contents) = Len(chain)
           /\ \A i \in 1..Len(chain) : Contents[i] = payload[chain[i]]
           /\ node = NoIter => Place = 0
           /\ node = NULL => Place = Len(chain) + 1
           /\ \A i \in 1..Len(chain) : node = chain[i] => Place = i
<1>1. /\ Contents \in Seq(Payloads) /\ Len(Contents) = Len(chain)
      /\ \A i \in 1..Len(chain) : Contents[i] = payload[chain[i]]
  BY ContentsSeq DEF IInv, Chained
<1>2. ASSUME NEW i \in 1..Len(chain), node = chain[i] PROVE Place = i
  <2>1. node \notin {NULL, NoIter} /\ Position(chain[i]) = i
    BY <1>2, IdleList, AtPosition
  <2> QED
    BY <1>2, <2>1 DEF Place
<1>3. node = NULL => node # NoIter
  BY ListAssumption
<1> QED
  BY <1>1, <1>2, <1>3 DEF Place

(* The same of the iterator after a step. *)
LEMMA PlaceAfter ==
    ASSUME IInv'
    PROVE  /\ node' = NoIter => Place' = 0
           /\ node' = NULL => Place' = Len(chain') + 1
           /\ \A i \in 1..Len(chain') : node' = chain'[i] => Place' = i
<1>1. Distinct(chain') /\ \A i \in 1..Len(chain') : chain'[i] \in Nodes
  BY DEF IInv, TypeOK, Chained
<1>2. ASSUME NEW i \in 1..Len(chain'), node' = chain'[i] PROVE Place' = i
  <2>1. node' \notin {NULL, NoIter}
    BY <1>1, <1>2, ListAssumption
  <2>2. Position(node)' = CHOOSE j \in 1..Len(chain') : chain'[j] = chain'[i]
    BY <1>2 DEF Position
  <2>3. (CHOOSE j \in 1..Len(chain') : chain'[j] = chain'[i]) = i
    BY <1>1 DEF Distinct
  <2> QED
    BY <2>1, <2>2, <2>3 DEF Place
<1>3. NULL # NoIter
  BY ListAssumption
<1> QED
  BY <1>2, <1>3 DEF Place

(* The node n joins the list with the payload p. *)
LEMMA JoinStep ==
    ASSUME IInv, pc = "idle", NEW n \in Nodes, NEW p \in Payloads, n \notin NodesOf(chain),
           payload' = [payload EXCEPT ![n] = p]
    PROVE  /\ chain' = <<n>> \o chain => Contents' = <<p>> \o Contents
           /\ chain' = Append(chain, n) => Contents' = Append(Contents, p)
<1> DEFINE c == Contents
<1>1. /\ chain \in Seq(Nodes) /\ Distinct(chain) /\ Len(chain) \in Nat
      /\ \A i \in 1..Len(chain) : chain[i] \in Nodes /\ payload[chain[i]] \in Payloads
      /\ payload \in [Nodes -> Payloads \cup {Freed}]
  BY IdleList DEF IInv, TypeOK
<1>2. /\ c \in Seq(Payloads) /\ Len(c) = Len(chain)
      /\ \A i \in 1..Len(chain) : c[i] = payload[chain[i]]
  BY IdleSequence
<1>3. payload'[n] = p /\ \A i \in 1..Len(chain) : payload'[chain[i]] = c[i]
  BY <1>1, <1>2 DEF NodesOf
<1>4. Contents' = PayloadsOf(chain', payload')
  BY DEF Contents, PayloadsOf
<1>5. \A i \in 1..Len(chain) : c[i] \in Payloads
  BY <1>1, <1>2
<1> HIDE DEF c
<1>6. ASSUME chain' = <<n>> \o chain PROVE Contents' = <<p>> \o c
  <2> DEFINE r == <<n>> \o chain
             t == <<p>> \o c
  <2>1. /\ r \in Seq(Nodes) /\ Len(r) = Len(chain) + 1
        /\ r[1] = n /\ \A i \in 1..Len(chain) : r[i + 1] = chain[i]
    BY <1>1, PushNode
  <2>2. <<p>> \in Seq(Payloads) /\ Len(<<p>>) = 1 /\ <<p>>[1] = p
    OBVIOUS
  <2>3. /\ t \in Seq(Payloads) /\ Len(t) = Len(<<p>>) + Len(c)
        /\ \A i \in 1..(Len(<<p>>) + Len(c)) :
             t[i] = IF i <= Len(<<p>>) THEN <<p>>[i] ELSE c[i - Len(<<p>>)]
    BY <1>2, <2>2, ConcatProperties
  <2> HIDE DEF r, t
  <2>4. /\ Len(t) = Len(chain) + 1
        /\ \A i \in 1..(Len(chain) + 1) : t[i] = IF i <= 1 THEN p ELSE c[i - 1]
    BY <1>1, <1>2, <2>2, <2>3
  <2>5. ASSUME NEW i \in 1..Len(r) PROVE payload'[r[i]] = t[i]
    <3>1. CASE i = 1
      BY <1>1, <1>3, <2>1, <2>4, <3>1
    <3>2. CASE i # 1
      <4>1. i - 1 \in 1..Len(chain) /\ (i - 1) + 1 = i /\ ~(i <= 1) /\ i \in 1..(Len(chain) + 1)
        BY <1>1, <2>1, <3>2
      <4> QED
        BY <4>1, <1>3, <2>1, <2>4
    <3> QED
      BY <3>1, <3>2
  <2>6. /\ r \in Seq(Nodes) /\ t \in Seq(Payloads) /\ Len(t) = Len(r)
        /\ \A i \in 1..Len(r) : payload'[r[i]] = t[i]
    BY <2>1, <2>3, <2>4, <2>5
  <2>7. PayloadsOf(r, payload') = t
    BY <2>6, PayloadsAre, Zenon
  <2> QED
    BY <1>4, <1>6, <2>7 DEF r, t
<1>7. ASSUME chain' = Append(chain, n) PROVE Contents' = Append(c, p)
  <2> DEFINE r == Append(chain, n)
             t == Append(c, p)
  <2>1. /\ r \in Seq(Nodes) /\ Len(r) = Len(chain) + 1
        /\ r[Len(chain) + 1] = n /\ \A i \in 1..Len(chain) : r[i] = chain[i]
    BY <1>1, AppendNode
  <2>2. /\ t \in Seq(Payloads) /\ Len(t) = Len(c) + 1
        /\ t[Len(c) + 1] = p /\ \A i \in 1..Len(c) : t[i] = c[i]
    BY <1>2, AppendProperties
  <2> HIDE DEF r, t
  <2>3. ASSUME NEW i \in 1..Len(r) PROVE payload'[r[i]] = t[i] /\ t[i] \in Payloads
    <3>1. CASE i = Len(chain) + 1
      BY <1>1, <1>2, <1>3, <2>1, <2>2, <3>1
    <3>2. CASE i # Len(chain) + 1
      <4>1. i \in 1..Len(chain)
        BY <1>1, <2>1, <3>2
      <4> QED
        BY <4>1, <1>2, <1>3, <1>5, <2>1, <2>2
    <3> QED
      BY <3>1, <3>2
  <2>4. /\ r \in Seq(Nodes) /\ t \in Seq(Payloads) /\ Len(t) = Len(r)
        /\ \A i \in 1..Len(r) : payload'[r[i]] = t[i]
    BY <1>2, <2>1, <2>2, <2>3
  <2>5. PayloadsOf(r, payload') = t
    BY <2>4, PayloadsAre, Zenon
  <2> QED
    BY <1>4, <1>7, <2>5 DEF r, t
<1> QED
  BY <1>6, <1>7 DEF c

(* The k-th node leaves the list and is freed. *)
LEMMA LeaveStep ==
    ASSUME IInv, pc = "idle", NEW k \in 1..Len(chain),
           chain' \in Seq(Nodes), Drops(chain', chain, k),
           payload' = [payload EXCEPT ![chain[k]] = Freed]
    PROVE  Contents' = RemoveAt(Contents, k)
<1> DEFINE c == Contents
           t == RemoveAt(c, k)
<1>1. /\ chain \in Seq(Nodes) /\ Distinct(chain) /\ Len(chain) \in Nat
      /\ \A i \in 1..Len(chain) : chain[i] \in Nodes /\ payload[chain[i]] \in Payloads
      /\ payload \in [Nodes -> Payloads \cup {Freed}]
  BY IdleList DEF IInv, TypeOK
<1>2. /\ c \in Seq(Payloads) /\ Len(c) = Len(chain)
      /\ \A i \in 1..Len(chain) : c[i] = payload[chain[i]]
  BY IdleSequence
<1>3. t \in Seq(Payloads) /\ Drops(t, c, k)
  BY <1>2, RemoveAtDrops
<1>4. Contents' = PayloadsOf(chain', payload')
  BY DEF Contents, PayloadsOf
<1> HIDE DEF c, t
<1>5. Len(t) = Len(chain) - 1 /\ Len(chain') = Len(chain) - 1
  BY <1>2, <1>3 DEF Drops
<1>6. ASSUME NEW i \in 1..Len(chain')
      PROVE  payload'[chain'[i]] = t[i] /\ t[i] \in Payloads
  <2> DEFINE j == IF i < k THEN i ELSE i + 1
  <2>1. j \in 1..Len(chain) /\ j # k
    BY <1>1, <1>5
  <2>2. chain'[i] = chain[j] /\ t[i] = c[j]
    BY <1>3, <1>5 DEF Drops
  <2> HIDE DEF j
  <2>3. chain[j] # chain[k] /\ chain[j] \in Nodes
    BY <1>1, <2>1 DEF Distinct
  <2> QED
    BY <1>1, <1>2, <2>1, <2>2, <2>3
<1>7. PayloadsOf(chain', payload') = t
  BY ZenonT(40), <1>3, <1>5, <1>6, PayloadsAre
<1> QED
  BY <1>4, <1>7 DEF c, t

(* LinkedList_Push and LinkedList_Append *)
LEMMA JoinIsAbstract ==
    ASSUME IInv, NEW n \in Nodes, NEW p \in Payloads, Push(n, p) \/ Append_(n, p)
    PROVE  Abstract!Next
<1>1. /\ pc = "idle" /\ node = NoIter /\ node' = node /\ pc' = pc /\ answer' = answer
      /\ n \notin allocated /\ payload' = [payload EXCEPT ![n] = p]
  BY DEF Push, Append_, ListCall, NewNode, loop
<1>2. n \notin NodesOf(chain)
  BY <1>1 DEF IInv, Chained
<1>3. Place = 0 /\ Place' = 0
  BY <1>1, ListAssumption DEF Place
<1>4. CASE Push(n, p)
  <2>1. Contents' = <<p>> \o Contents
    BY <1>1, <1>2, <1>4, JoinStep DEF Push
  <2>2. Abstract!Push(p)
    BY <1>1, <2>1 DEF Abstract!Push
  <2> QED
    BY <1>1, <1>3, <2>2 DEF Abstract!ListCall, Abstract!Next
<1>5. CASE Append_(n, p)
  <2>1. Contents' = Append(Contents, p)
    BY <1>1, <1>2, <1>5, JoinStep DEF Append_
  <2>2. Abstract!Append_(p)
    BY <1>1, <2>1 DEF Abstract!Append_
  <2> QED
    BY <1>1, <1>3, <2>2 DEF Abstract!ListCall, Abstract!Next
<1> QED
  BY <1>4, <1>5

(* LinkedList_Pop and LinkedList_Slice *)
LEMMA TakeIsAbstract ==
    ASSUME IInv, IInv', TakeNone \/ Pop \/ Slice PROVE Abstract!Next
<1>1. pc = "idle" /\ node = NoIter /\ node' = node /\ pc' = pc
  BY DEF TakeNone, Pop, Slice, ListCall, loop
<1>2. Place = 0 /\ Place' = 0
  BY <1>1, ListAssumption DEF Place
<1>3. /\ Contents \in Seq(Payloads) /\ Len(Contents) = Len(chain)
      /\ \A i \in 1..Len(chain) : Contents[i] = payload[chain[i]]
  BY <1>1, IdleSequence
<1>4. /\ chain \in Seq(Nodes) /\ num_elements = Len(chain) /\ chain' \in Seq(Nodes)
      /\ num_elements # 0 =>
           /\ head = chain[1] /\ tail = chain[Len(chain)]
           /\ 1 \in 1..Len(chain) /\ Len(chain) \in 1..Len(chain)
  BY <1>1, IdleList DEF IInv, TypeOK
<1>5. CASE TakeNone
  <2>1. Len(Contents) = 0 /\ Contents' = Contents /\ answer' = [ok |-> FALSE, out |-> None]
    BY <1>3, <1>4, <1>5 DEF TakeNone, Answer, heap, Contents
  <2>2. Contents = << >>
    BY <1>3, <2>1, EmptySeq
  <2>3. Abstract!Empty
    BY <1>1, <2>1, <2>2 DEF Abstract!Empty, Abstract!Answer
  <2> QED
    BY <1>1, <1>2, <2>3 DEF Abstract!ListCall, Abstract!Next
<1>6. ASSUME NEW k \in {1, Len(chain)}, num_elements # 0,
             answer' = [ok |-> TRUE, out |-> payload[chain[k]]],
             Drops(chain', chain, k), payload' = [payload EXCEPT ![chain[k]] = Freed]
      PROVE  Abstract!Next
  <2>1. k \in 1..Len(chain)
    BY <1>4, <1>6
  <2>2. Contents' = RemoveAt(Contents, k)
    BY <1>1, <1>4, <1>6, <2>1, LeaveStep
  <2>3. answer' = [ok |-> TRUE, out |-> Contents[k]]
    BY <1>3, <1>6, <2>1
  <2>4. Abstract!TakeAt(k)
    BY <1>1, <2>2, <2>3 DEF Abstract!TakeAt, Abstract!Without, Abstract!Answer, RemoveAt
  <2>5. Contents # << >>
    BY <1>3, <1>4, <1>6
  <2>6. Abstract!TakeAt(1) \/ Abstract!TakeAt(Len(Contents))
    BY <1>3, <2>4
  <2> QED
    BY <1>1, <1>2, <2>5, <2>6 DEF Abstract!ListCall, Abstract!Next
<1>7. CASE Pop
  <2>1. /\ num_elements # 0 /\ answer' = [ok |-> TRUE, out |-> payload[chain[1]]]
        /\ chain' = Tail(chain) /\ payload' = [payload EXCEPT ![chain[1]] = Freed]
    BY <1>4, <1>7 DEF Pop, Answer, FreeNode
  <2> QED
    BY <1>4, <1>6, <2>1, EndsDrop
<1>8. CASE Slice
  <2>1. /\ num_elements # 0 /\ answer' = [ok |-> TRUE, out |-> payload[chain[Len(chain)]]]
        /\ chain' = Front(chain) /\ payload' = [payload EXCEPT ![chain[Len(chain)]] = Freed]
    BY <1>4, <1>8 DEF Slice, Answer, FreeNode
  <2> QED
    BY <1>4, <1>6, <2>1, EndsDrop
<1> QED
  BY <1>5, <1>7, <1>8

(* LinkedList_Sort takes effect when its last pass has swapped nothing. *)
LEMMA SortIsAbstract ==
    ASSUME IInv, SortPassDone \/ SortStep \/ \E up \in BOOLEAN : SortStart(up)
    PROVE  [Abstract!Next]_(Abstract!vars)
<1>1. CASE \E up \in BOOLEAN : SortStart(up)
  BY <1>1 DEF SortStart, fields, heap, Abstract!vars, Place, Position
<1>2. CASE SortStep
  BY <1>2 DEF SortStep, Abstract!vars, Place, Position
<1>3. CASE SortPassDone /\ swapped
  BY <1>3 DEF SortPassDone, heap, Abstract!vars, Place, Position
<1>4. CASE SortPassDone /\ ~swapped
  <2> DEFINE len == Len(chain)
  <2>1. /\ pc = "sort" /\ pc' = "idle" /\ next[curnode] = NULL /\ node' = node
        /\ answer' = answer /\ chain' = chain /\ payload' = payload /\ node = NoIter
    BY <1>4 DEF SortPassDone, heap, IInv, Places
  <2>2. /\ chain \in Seq(Nodes) /\ len \in Nat /\ Len(before) = len
        /\ \A i \in 1..len : payload[chain[i]] \in Payloads /\ chain[i] \in Nodes
        /\ Forward(chain, next) /\ ascending \in BOOLEAN
    BY <2>1 DEF IInv, TypeOK, Sorting, Chained
  <2>3. PICK k \in 1..len, p \in [1..len -> 1..len] : PassAt(k, p)
    BY <2>1 DEF IInv, Sorting
  <2>4. k = len
    <3>1. next[chain[k]] = IF k = len THEN NULL ELSE chain[k + 1]
      BY <2>2 DEF Forward
    <3>2. curnode = chain[k]
      BY <2>3 DEF PassAt
    <3>3. k # len => k + 1 \in 1..len
      BY <2>2
    <3> QED
      BY <2>1, <2>2, <3>1, <3>2, <3>3, ListAssumption
  <2>5. Contents = [i \in 1..len |-> before[p[i]]] /\ Contents' = Contents
    BY <2>1, <2>3 DEF PassAt, Contents
  <2>6. ASSUME NEW i \in 1..len, NEW j \in 1..len, i < j
        PROVE  \/ Abstract!Before(Contents[i], Contents[j], ascending)
               \/ Rank[Contents[i]] = Rank[Contents[j]] /\ p[i] < p[j]
    <3>1. Contents[i] = payload[chain[i]] /\ Contents[j] = payload[chain[j]]
      BY DEF Contents
    <3>2. Rank[payload[chain[i]]] \in Int /\ Rank[payload[chain[j]]] \in Int
      BY <2>2, ListAssumption
    <3>3. ~OutOfOrder(payload[chain[i]], payload[chain[j]])
      BY <1>4, <2>3, <2>4, <2>6 DEF PassAt
    <3>4. Rank[payload[chain[i]]] = Rank[payload[chain[j]]] => p[i] < p[j]
      BY <2>3, <2>6 DEF PassAt
    <3> QED
      BY <3>1, <3>2, <3>3, <3>4 DEF OutOfOrder, Abstract!Before
  <2>7. \A i, j \in 1..len : p[i] = p[j] => i = j
    BY <2>3 DEF PassAt
  <2>8. Abstract!IsStableSort(Contents, ascending)
    <3> DEFINE s == CASE pc = "sort" -> before [] pc = "idle" -> Contents [] OTHER -> << >>
    <3>1. s = before
      BY <2>1
    <3> HIDE DEF s
    <3>2. /\ p \in [1..Len(s) -> 1..Len(s)]
          /\ \A i, j \in 1..Len(s) : p[i] = p[j] => i = j
          /\ Contents = [i \in 1..Len(s) |-> s[p[i]]]
          /\ \A i, j \in 1..Len(s) : i < j =>
               \/ Abstract!Before(Contents[i], Contents[j], ascending)
               \/ Rank[Contents[i]] = Rank[Contents[j]] /\ p[i] < p[j]
      BY <2>2, <2>3, <2>5, <2>6, <2>7, <3>1
    <3> QED
      BY <3>2, Zenon DEF Abstract!IsStableSort, s
  <2>9. Abstract!Sort
    BY <2>1, <2>2, <2>5, <2>8 DEF Abstract!Sort
  <2>10. Place = 0 /\ Place' = 0
    BY <2>1, ListAssumption DEF Place
  <2> QED
    BY <2>1, <2>9, <2>10 DEF Abstract!ListCall, Abstract!Next
<1> QED
  BY <1>1, <1>2, <1>3, <1>4

(* The abstract list is gone when LinkedList_Free begins. *)
LEMMA FreeIsAbstract ==
    ASSUME IInv, FreeStart \/ FreeStep \/ FreeDone
    PROVE  [Abstract!Next]_(Abstract!vars)
<1>1. CASE FreeStart
  <2>1. /\ pc = "idle" /\ pc' = "freeing" /\ node = NoIter /\ node' = node
        /\ answer' = answer
    BY <1>1 DEF FreeStart
  <2>2. Place = 0 /\ Place' = 0
    BY <2>1, ListAssumption DEF Place
  <2>3. Abstract!Free
    BY <2>1, <2>2 DEF Abstract!Free
  <2> QED
    BY <2>1, <2>3 DEF Abstract!Next
<1>2. CASE FreeStep \/ FreeDone
  <2>1. /\ pc = "freeing" /\ pc' \in {"freeing", "freed"} /\ node' = node
        /\ answer' = answer
    BY <1>2 DEF FreeStep, FreeDone
  <2>2. node = NoIter
    BY <2>1 DEF IInv, Places
  <2>3. Place = 0 /\ Place' = 0
    BY <2>1, <2>2, ListAssumption DEF Place
  <2> QED
    BY <2>1, <2>3 DEF Abstract!vars
<1> QED
  BY <1>1, <1>2

(* The iterator's functions that leave the list alone *)
LEMMA IterIsAbstract ==
    ASSUME IInv, IInv',
           IterAllocate \/ IterFree \/ IterRewind \/ IterNext \/ IterGet \/ IterRemoveInvalid
    PROVE  Abstract!Next
<1>1. /\ pc = "idle" /\ pc' = "idle" /\ Contents' = Contents
      /\ chain' = chain /\ num_elements' = num_elements /\ head' = head
  BY DEF IterAllocate, IterFree, IterRewind, IterNext, IterGet, IterRemoveInvalid,
         IterCall, fields, heap, loop, Contents
<1>2. /\ Contents \in Seq(Payloads) /\ Len(Contents) = Len(chain)
      /\ \A i \in 1..Len(chain) : Contents[i] = payload[chain[i]]
      /\ node = NoIter => Place = 0
      /\ node = NULL => Place = Len(chain) + 1
      /\ \A i \in 1..Len(chain) : node = chain[i] => Place = i
  BY <1>1, IdleSequence
<1>3. /\ node' = NoIter => Place' = 0
      /\ node' = NULL => Place' = Len(chain) + 1
      /\ \A i \in 1..Len(chain) : node' = chain[i] => Place' = i
  BY <1>1, PlaceAfter
<1>4. /\ Len(chain) \in Nat /\ num_elements = Len(chain) /\ head = First(chain)
      /\ \A i \in 1..Len(chain) :
           next[chain[i]] = IF i = Len(chain) THEN NULL ELSE chain[i + 1]
      /\ node \in NodesOf(chain) \cup {NULL, NoIter}
      /\ \A i \in 1..Len(chain) : chain[i] # NULL
  BY <1>1, IdleList
<1>5. node # NoIter => Place # 0
  <2>1. CASE node = NULL
    BY <2>1, <1>2, <1>4
  <2>2. CASE node # NoIter /\ node # NULL
    <3>1. PICK i \in 1..Len(chain) : node = chain[i]
      BY <2>2, <1>4 DEF NodesOf
    <3> QED
      BY <3>1, <1>2
  <2> QED
    BY <2>1, <2>2
<1>6. node' = head => Place' = 1
  <2>1. CASE Len(chain) = 0
    BY <2>1, <1>3, <1>4 DEF First
  <2>2. CASE Len(chain) # 0
    <3>1. 1 \in 1..Len(chain) /\ head = chain[1]
      BY <2>2, <1>4 DEF First
    <3> QED
      BY <3>1, <1>3
  <2> QED
    BY <2>1, <2>2
<1>7. CASE IterAllocate
  <2>1. node = NoIter /\ num_elements # 0 /\ node' = head /\ answer' = answer
    BY <1>7 DEF IterAllocate
  <2>2. Contents # << >>
    BY <2>1, <1>2, <1>4
  <2>3. Abstract!Start
    BY <1>1, <1>2, <1>6, <2>1, <2>2 DEF Abstract!Start
  <2> QED
    BY <1>1, <2>3 DEF Abstract!Next
<1>8. CASE IterFree
  <2>1. node # NoIter /\ node' = NoIter /\ answer' = answer
    BY <1>8 DEF IterFree, IterCall
  <2>2. Abstract!Stop
    BY <1>1, <1>3, <1>5, <2>1 DEF Abstract!Stop
  <2> QED
    BY <1>1, <2>2 DEF Abstract!Next
<1>9. CASE IterRewind
  <2>1. node # NoIter /\ node' = head /\ answer' = answer
    BY <1>9 DEF IterRewind, IterCall
  <2>2. Abstract!Rewind
    BY <1>1, <1>5, <1>6, <2>1 DEF Abstract!Rewind
  <2> QED
    BY <1>1, <2>2 DEF Abstract!Next
<1>10. CASE IterNext
  <2>1. /\ node # NoIter /\ node' = IF node # NULL THEN next[node] ELSE node
        /\ answer' = [ok |-> node' # NULL, out |-> None]
    BY <1>10 DEF IterNext, IterCall, IsValid, Answer
  <2>2. /\ Place' = IF Place > Len(Contents) THEN Place ELSE Place + 1
        /\ (node' # NULL) = (Place < Len(Contents))
    <3>1. CASE node = NULL
      BY <3>1, <2>1, <1>2, <1>3, <1>4
    <3>2. CASE node # NULL
      <4>1. PICK i \in 1..Len(chain) : node = chain[i]
        BY <3>2, <2>1, <1>4 DEF NodesOf
      <4>2. /\ Place = i
            /\ node' = IF i = Len(chain) THEN NULL ELSE chain[i + 1]
        BY <4>1, <3>2, <2>1, <1>2, <1>4
      <4>3. CASE i = Len(chain)
        BY <4>2, <4>3, <1>2, <1>3, <1>4
      <4>4. CASE i # Len(chain)
        <5>1. i + 1 \in 1..Len(chain) /\ node' = chain[i + 1]
          BY <4>2, <4>4, <1>4
        <5>2. Place' = i + 1 /\ node' # NULL
          BY <5>1, <1>3, <1>4
        <5> QED
          BY <4>2, <4>4, <5>2, <1>2, <1>4
      <4> QED
        BY <4>3, <4>4
    <3> QED
      BY <3>1, <3>2
  <2>3. Abstract!Advance
    BY <1>1, <1>5, <2>1, <2>2 DEF Abstract!Advance, Abstract!Answer
  <2> QED
    BY <1>1, <2>3 DEF Abstract!Next
<1>11. CASE IterGet
  <2>1. /\ node # NoIter /\ node # NULL /\ node' = node
        /\ answer' = [ok |-> TRUE, out |-> payload[node]]
    BY <1>11 DEF IterGet, IterCall, IsValid, Answer
  <2>2. PICK i \in 1..Len(chain) : node = chain[i]
    BY <2>1, <1>4 DEF NodesOf
  <2>3. Place = i /\ Place' = i /\ Contents[i] = payload[node] /\ i \in 1..Len(Contents)
    BY <2>1, <2>2, <1>2, <1>3
  <2>4. Abstract!Get
    BY <1>1, <2>1, <2>3 DEF Abstract!Get, Abstract!Answer
  <2> QED
    BY <1>1, <2>4 DEF Abstract!Next
<1>12. CASE IterRemoveInvalid
  <2>1. node = NULL /\ node' = node /\ answer' = [ok |-> FALSE, out |-> None]
    BY <1>12 DEF IterRemoveInvalid, IsValid, Answer
  <2>2. Place = Len(Contents) + 1 /\ Place' = Place /\ Place > Len(Contents) /\ Place # 0
    BY <2>1, <1>2, <1>3, <1>4
  <2>3. Abstract!Remove
    BY <1>1, <2>1, <2>2 DEF Abstract!Remove, Abstract!Answer
  <2> QED
    BY <1>1, <2>3 DEF Abstract!Next
<1> QED
  BY <1>7, <1>8, <1>9, <1>10, <1>11, <1>12

(* LLIterator_Remove: the iterator goes to the successor, from the tail to *)
(* the predecessor.                                                        *)
LEMMA RemoveIsAbstract == ASSUME IInv, IInv', IterRemove PROVE Abstract!Next
<1> DEFINE len == Len(chain)
<1>1. /\ pc = "idle" /\ pc' = "idle" /\ node # NoIter /\ node # NULL
      /\ RemoveOnly \/ RemoveHead \/ RemoveTail \/ RemoveMiddle
      /\ chain' = RemoveAt(chain, Position(node))
      /\ answer' = [ok |-> num_elements > 1, out |-> None]
      /\ payload' = [payload EXCEPT ![node] = Freed]
  BY DEF IterRemove, IterCall, IsValid, Answer, loop, RemoveOnly, RemoveHead, RemoveTail,
         RemoveMiddle, FreeNode
<1>2. PICK k \in 1..len : node = chain[k]
  BY <1>1, IdleList DEF NodesOf
<1>3. chain \in Seq(Nodes) /\ len \in Nat /\ num_elements = len /\ len # 0 /\ Distinct(chain)
  BY <1>1, <1>2, IdleList
<1>4. /\ head = chain[1] /\ tail = chain[len] /\ 1 \in 1..len /\ len \in 1..len
      /\ next[node] = IF k = len THEN NULL ELSE chain[k + 1]
      /\ prev[node] = IF k = 1 THEN NULL ELSE chain[k - 1]
  BY <1>1, <1>2, <1>3, IdleList
<1>5. chain' \in Seq(Nodes) /\ Drops(chain', chain, k)
  BY <1>1, <1>2, <1>3, AtPosition, RemoveAtDrops
<1>6. Contents' = RemoveAt(Contents, k)
  BY <1>1, <1>2, <1>5, LeaveStep
<1>7. Len(Contents) = len /\ Place = k
  BY <1>1, <1>2, IdleSequence
<1>8. Place' = IF k = len /\ k > 1 THEN k - 1 ELSE k
  <2>1. /\ node' = NULL => Place' = Len(chain') + 1
        /\ \A i \in 1..Len(chain') : node' = chain'[i] => Place' = i
    BY PlaceAfter
  <2>2. /\ Len(chain') = len - 1
        /\ \A i \in 1..(len - 1) : chain'[i] = IF i < k THEN chain[i] ELSE chain[i + 1]
    BY <1>5 DEF Drops
  <2>3. (node = head <=> k = 1) /\ (node = tail <=> k = len)
    BY <1>2, <1>4, <1>3 DEF Distinct
  <2>4. CASE RemoveOnly
    <3>1. node' = NULL /\ len = 1 /\ k = 1
      BY SMTT(20), <2>4, <1>2, <1>3 DEF RemoveOnly
    <3>2. Len(chain') + 1 = 1 /\ ~(k > 1)
      BY <3>1, <2>2
    <3> QED
      BY <3>1, <3>2, <2>1
  <2>5. CASE RemoveHead \/ RemoveMiddle
    <3>1. k # len /\ node' = chain[k + 1]
      BY <2>3, <2>5, <1>3, <1>4 DEF RemoveHead, RemoveMiddle
    <3>2. k \in 1..(len - 1) /\ ~(k < k)
      BY <3>1, <1>3
    <3>3. node' = chain'[k]
      BY <3>1, <3>2, <2>2
    <3> QED
      BY <2>1, <2>2, <3>1, <3>2, <3>3
  <2>6. CASE RemoveTail
    <3>1. k = len /\ k # 1 /\ node' = chain[k - 1]
      BY <2>3, <2>6, <1>3, <1>4 DEF RemoveTail
    <3>2. k - 1 \in 1..(len - 1) /\ k - 1 < k /\ k > 1
      BY <3>1, <1>3
    <3>3. node' = chain'[k - 1]
      BY <3>1, <3>2, <2>2
    <3> QED
      BY <2>1, <2>2, <3>1, <3>2, <3>3
  <2> QED
    BY <1>1, <2>4, <2>5, <2>6
<1>9. Abstract!Remove
  <2>1. ~(k > len) /\ k # 0
    BY <1>3
  <2> QED
    BY <1>1, <1>3, <1>6, <1>7, <1>8, <2>1
      DEF Abstract!Remove, Abstract!Without, Abstract!Answer, RemoveAt
<1> QED
  BY <1>1, <1>9 DEF Abstract!Next

(* The linked list implements the sequence of SequenceList: every          *)
(* operation does to the payloads, the iterator and the answer what        *)
(* LinkedList.h promises, and the sort returns the one stable order.       *)
THEOREM ListIsSequence == Spec => IsSequence
<1>1. Init => Abstract!Init
  <2> SUFFICES ASSUME Init PROVE Abstract!Init
    OBVIOUS
  <2>1. pc = "idle" /\ node = NoIter /\ chain = << >> /\ answer = [ok |-> FALSE, out |-> None]
    BY DEF Init
  <2>2. Place = 0
    BY <2>1, ListAssumption DEF Place
  <2>3. Contents = << >>
    BY <2>1 DEF Contents
  <2> QED
    BY <2>1, <2>2, <2>3 DEF Abstract!Init
<1>2. IInv /\ IInv' /\ [Next]_vars => [Abstract!Next]_(Abstract!vars)
  <2> SUFFICES ASSUME IInv, IInv', [Next]_vars PROVE [Abstract!Next]_(Abstract!vars)
    OBVIOUS
  <2>1. CASE \E n \in Nodes, p \in Payloads : Push(n, p) \/ Append_(n, p)
    BY <2>1, JoinIsAbstract
  <2>2. CASE TakeNone \/ Pop \/ Slice
    BY <2>2, TakeIsAbstract
  <2>3. CASE SortPassDone \/ SortStep \/ \E up \in BOOLEAN : SortStart(up)
    BY <2>3, SortIsAbstract
  <2>4. CASE FreeStart \/ FreeStep \/ FreeDone
    BY <2>4, FreeIsAbstract
  <2>5. CASE \/ IterAllocate \/ IterFree \/ IterRewind \/ IterNext \/ IterGet
             \/ IterRemoveInvalid \/ IterRemove
    BY <2>5, IterIsAbstract, RemoveIsAbstract
  <2>6. CASE Finished \/ UNCHANGED vars
    BY <2>6 DEF Finished, vars, fields, heap, loop, Abstract!vars, Place, Position, Contents
  <2> QED
    BY <2>1, <2>2, <2>3, <2>4, <2>5, <2>6 DEF Next, LoopStep
<1> QED
  BY <1>1, <1>2, Inductive, PTL DEF Spec, IsSequence, Abstract!Spec
=============================================================================
