----------------------------- MODULE HashTable -----------------------------
(***************************************************************************)
(* The hash table of "hw0 -- Linked List & Hash Table".  A bucket is the   *)
(* sequence LinkedList shows it to be.  One caller, so an operation is one *)
(* step, with the resizing that Insert, Find and Remove begin with.        *)
(*                                                                         *)
(* The iterator holds a pointer into a bucket's list: the key identifies   *)
(* the node, since no bucket has a key twice.  A resize frees the lists of *)
(* the old buckets, and an iterator that was on a node of one is           *)
(* "dangling": the caller can only free it.  With an iterator around the   *)
(* caller uses no function "to mutate the hash table" (HashTable.h), but   *)
(* may look keys up.                                                       *)
(*                                                                         *)
(* `seen' and `tight' are history.  MustResizeEarly, PutOldBucket,         *)
(* DeleteCountsAlways and NextBucketsSkipOne are mistakes in the           *)
(* definition that follows each: no action uses them.                      *)
(***************************************************************************)
EXTENDS Integers, Sequences, FiniteSets, SequencesExt

CONSTANTS
    Keys,           \* the hashes of the caller's keys: natural numbers
    Values,
    FirstBuckets,   \* the num_buckets of HashTable_Allocate
    None            \* no pair returned, or the iterator is at the end

ASSUME TableAssumption ==
    /\ Keys \subseteq Nat /\ None \notin Keys
    /\ FirstBuckets \in Nat \ {0}       \* "MUST be greater than zero"

VARIABLES
    num_buckets, num_elements, buckets,     \* the fields of HashTable
    it,             \* the iterator: where it is, bucket_idx, its node's key
    live,           \* FALSE once the table is freed
    answer,         \* what the call last returned
    seen,           \* history: the keys this iterator has been on
    tight           \* history: the table was at its limit when it was made

table == <<num_buckets, num_elements, buckets>>
vars  == <<table, it, live, answer, seen, tight>>

Pairs == [key : Keys, value : Values]

NoIter == [on |-> "none", bucket |-> -1, key |-> None]

EmptyBuckets(n) == [b \in 0..(n - 1) |-> << >>]

Init ==
    /\ num_buckets = FirstBuckets /\ num_elements = 0
    /\ buckets = EmptyBuckets(FirstBuckets)
    /\ it = NoIter /\ live = TRUE /\ seen = {} /\ tight = FALSE
    /\ answer = [ok |-> FALSE, out |-> None]

Answer(b, p) == answer' = [ok |-> b, out |-> p]

HashKeyToBucketNum(k, n) == k % n

Has_Key(c, k) == \E i \in DOMAIN c : c[i].key = k

PlaceOf(c, k) == CHOOSE i \in DOMAIN c : c[i].key = k

PairOf(c, k) == c[PlaceOf(c, k)]

(* The pair replaces the one with its key, or is appended to the chain. *)
PutIn(bs, b, e) ==
    [bs EXCEPT ![b] = IF Has_Key(@, e.key) THEN [@ EXCEPT ![PlaceOf(@, e.key)] = e]
                                           ELSE Append(@, e)]

(* The bucket chosen before the resize. *)
PutOldBucket(bs, n, e) == PutIn(bs, HashKeyToBucketNum(e.key, num_buckets), e)

Put(bs, n, e) == PutIn(bs, HashKeyToBucketNum(e.key, n), e)

----------------------------------------------------------------------------
(* MaybeResize: nine times the buckets, and every pair inserted again in   *)
(* the order of an iteration.                                              *)

MustResizeEarly == num_elements >= 2 * num_buckets

MustResize == num_elements >= 3 * num_buckets

Elements(bs, n) == FlattenSeq([i \in 1..n |-> bs[i - 1]])

NewSize == IF MustResize THEN 9 * num_buckets ELSE num_buckets

NewBuckets ==
    IF MustResize
    THEN FoldLeft(LAMBDA bs, e : Put(bs, NewSize, e), EmptyBuckets(NewSize),
                  Elements(buckets, num_buckets))
    ELSE buckets

AfterResize(i) == IF MustResize /\ i.on = "valid" THEN [i EXCEPT !.on = "dangling"] ELSE i

----------------------------------------------------------------------------
(* A table function is called while no iterator is around. *)
TableCall == live /\ it.on = "none" /\ UNCHANGED <<it, live, seen, tight>>

Lookup(k) ==
    LET c == NewBuckets[HashKeyToBucketNum(k, NewSize)]
    IN  IF Has_Key(c, k) THEN Answer(TRUE, PairOf(c, k)) ELSE Answer(FALSE, None)

Present(k) == Has_Key(NewBuckets[HashKeyToBucketNum(k, NewSize)], k)

Insert(k, v) ==
    /\ TableCall
    /\ Lookup(k)
    /\ num_buckets' = NewSize
    /\ buckets' = Put(NewBuckets, NewSize, [key |-> k, value |-> v])
    /\ num_elements' = IF Present(k) THEN num_elements ELSE num_elements + 1

Find(k) ==
    /\ live /\ it.on # "dangling"
    /\ Lookup(k)
    /\ num_buckets' = NewSize
    /\ buckets' = NewBuckets
    /\ it' = AfterResize(it)
    /\ UNCHANGED <<num_elements, live, seen, tight>>

(* The chain without its pair for k. *)
Without(c, k) == IF Has_Key(c, k) THEN RemoveAt(c, PlaceOf(c, k)) ELSE c

DeleteCountsAlways(k) ==
    /\ Lookup(k)
    /\ num_buckets' = NewSize
    /\ buckets' = [NewBuckets EXCEPT ![HashKeyToBucketNum(k, NewSize)] = Without(@, k)]
    /\ num_elements' = num_elements - 1

(* HashTable_Remove: a key is in one bucket at most, and there once. *)
Delete(k) ==
    /\ Lookup(k)
    /\ num_buckets' = NewSize
    /\ buckets' = [NewBuckets EXCEPT ![HashKeyToBucketNum(k, NewSize)] = Without(@, k)]
    /\ num_elements' = IF Present(k) THEN num_elements - 1 ELSE num_elements

CallRemove(k) == TableCall /\ Delete(k)

(* Every chain is emptied and freed. *)
Free ==
    /\ live /\ it.on = "none"
    /\ live' = FALSE
    /\ buckets' = EmptyBuckets(num_buckets)
    /\ UNCHANGED <<num_buckets, num_elements, it, answer, seen, tight>>

Finished == ~live /\ UNCHANGED vars

----------------------------------------------------------------------------
(* The iterator *)

(* The first pair of the first bucket of bs that has one. *)
FirstOf(bs) ==
    LET b == CHOOSE x \in bs : \A y \in bs : x <= y
    IN  [on |-> "valid", bucket |-> b, key |-> buckets[b][1].key]

Filled(bs) == {b \in bs : buckets[b] # << >>}

IterAllocate ==
    /\ live /\ it.on = "none"
    /\ it' = IF num_elements = 0 THEN [NoIter EXCEPT !.on = "end"]
                                 ELSE FirstOf(Filled(0..(num_buckets - 1)))
    /\ seen' = {it'.key} \ {None}
    /\ tight' = (num_elements >= 3 * num_buckets)
    /\ UNCHANGED <<table, live, answer>>

IterFree ==
    /\ it.on # "none"
    /\ it' = NoIter /\ seen' = {} /\ tight' = FALSE
    /\ UNCHANGED <<table, live, answer>>

Usable == it.on \in {"valid", "end"}

NextBucketsSkipOne == Filled((it.bucket + 2)..(num_buckets - 1))

NextBuckets == Filled((it.bucket + 1)..(num_buckets - 1))

(* HTIterator_Next of a valid iterator. *)
Advanced ==
    LET c == buckets[it.bucket]
        i == PlaceOf(c, it.key)
    IN  IF i < Len(c) THEN [it EXCEPT !.key = c[i + 1].key]
        ELSE IF NextBuckets # {} THEN FirstOf(NextBuckets)
        ELSE [on |-> "end", bucket |-> it.bucket, key |-> None]

IterNext ==
    /\ Usable
    /\ it' = IF it.on = "valid" THEN Advanced ELSE it
    /\ seen' = seen \cup ({it'.key} \ {None})
    /\ Answer(it'.on = "valid", None)
    /\ UNCHANGED <<table, live, tight>>

IterGet ==
    /\ Usable
    /\ IF it.on = "valid" THEN Answer(TRUE, PairOf(buckets[it.bucket], it.key))
                          ELSE Answer(FALSE, None)
    /\ UNCHANGED <<table, it, live, seen, tight>>

IterRemoveInvalid ==
    /\ it.on = "end"
    /\ Answer(FALSE, None)
    /\ UNCHANGED <<table, it, live, seen, tight>>

(* The iterator is advanced first; then HashTable_Remove, which may resize. *)
IterRemove ==
    /\ it.on = "valid"
    /\ it' = AfterResize(Advanced)
    /\ seen' = seen \cup ({it'.key} \ {None})
    /\ Delete(it.key)
    /\ UNCHANGED <<live, tight>>

----------------------------------------------------------------------------
Next ==
    \/ \E k \in Keys, v \in Values : Insert(k, v)
    \/ \E k \in Keys : Find(k) \/ CallRemove(k)
    \/ Free \/ Finished
    \/ IterAllocate \/ IterFree \/ IterNext \/ IterGet \/ IterRemoveInvalid \/ IterRemove

Spec == Init /\ [][Next]_vars

----------------------------------------------------------------------------
TypeOK ==
    /\ num_buckets \in Nat \ {0}
    /\ num_elements \in Nat
    /\ buckets \in [0..(num_buckets - 1) -> Seq(Pairs)]
    /\ it \in [on : {"none", "valid", "end", "dangling"},
               bucket : -1..(num_buckets - 1), key : Keys \cup {None}]
    /\ live \in BOOLEAN
    /\ answer \in [ok : BOOLEAN, out : Pairs \cup {None}]
    /\ seen \subseteq Keys /\ tight \in BOOLEAN

(* The pairs of the table. *)
Stored(bs) == UNION {Range(bs[b]) : b \in DOMAIN bs}

(* Every key is in the bucket its hash names, once in the whole table, and *)
(* num_elements counts them, also after any number of resizes; the load    *)
(* factor does not exceed three.                                           *)
KeysInTheirBuckets ==
    /\ \A b \in DOMAIN buckets : \A i \in DOMAIN buckets[b] :
         HashKeyToBucketNum(buckets[b][i].key, num_buckets) = b
    /\ \A b, c \in DOMAIN buckets : \A i \in DOMAIN buckets[b], j \in DOMAIN buckets[c] :
         buckets[b][i].key = buckets[c][j].key => b = c /\ i = j
    /\ live => num_elements = Cardinality(Stored(buckets))
    /\ num_elements <= 3 * num_buckets

(* An iterator is lost to a resize only if the table already held three    *)
(* pairs per bucket when it was made: lookups and HTIterator_Remove, which *)
(* resize too, are safe in every other iteration.                          *)
DanglesOnlyAtLimit == it.on = "dangling" => tight

----------------------------------------------------------------------------
(* Every behaviour is one of a map, with each operation's answer, and an   *)
(* iteration meets every pair once, also one that removes as it goes.  A   *)
(* dangling iterator counts as being where it should be.                   *)
Contents ==
    [k \in {e.key : e \in Stored(buckets)} |->
       (CHOOSE e \in Stored(buckets) : e.key = k).value]

Map == INSTANCE KeyMap
         WITH m <- Contents, cur <- it.key, iterating <- (it.on # "none")

IsMap == Map!Spec
=============================================================================
