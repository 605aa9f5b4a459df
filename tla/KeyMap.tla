------------------------------- MODULE KeyMap -------------------------------
(***************************************************************************)
(* What HashTable.h promises: a map, and an iterator that "visits each     *)
(* (key,value) exactly once" in an order nobody knows.                     *)
(***************************************************************************)
EXTENDS Integers, FiniteSets

CONSTANTS Keys, Values, None

VARIABLES
    m,          \* the map
    cur,        \* the key the iterator is on: None without one or at its end
    seen,       \* the keys it has been on
    iterating,
    live,
    answer      \* what the call last returned: success, and a pair

vars == <<m, cur, seen, iterating, live, answer>>

Pair(k) == [key |-> k, value |-> m[k]]

Answer(b, p) == answer' = [ok |-> b, out |-> p]

Init ==
    /\ m = [k \in {} |-> None]
    /\ cur = None /\ seen = {} /\ iterating = FALSE /\ live = TRUE
    /\ answer = [ok |-> FALSE, out |-> None]

Insert(k, v) ==
    /\ m' = [x \in DOMAIN m \cup {k} |-> IF x = k THEN v ELSE m[x]]
    /\ IF k \in DOMAIN m THEN Answer(TRUE, Pair(k)) ELSE Answer(FALSE, None)
    /\ UNCHANGED <<cur, seen, iterating, live>>

Find(k) ==
    /\ IF k \in DOMAIN m THEN Answer(TRUE, Pair(k)) ELSE Answer(FALSE, None)
    /\ UNCHANGED <<m, cur, seen, iterating, live>>

Delete(k) ==
    /\ m' = [x \in DOMAIN m \ {k} |-> m[x]]
    /\ IF k \in DOMAIN m THEN Answer(TRUE, Pair(k)) ELSE Answer(FALSE, None)

Remove(k) == Delete(k) /\ UNCHANGED <<cur, seen, iterating, live>>

Free == live' = FALSE /\ m' = [k \in {} |-> None]
        /\ UNCHANGED <<cur, seen, iterating, answer>>

(* To a key not met yet; past the end when there is none. *)
Advance ==
    LET left == DOMAIN m \ seen
    IN  /\ IF left = {} THEN cur' = None ELSE cur' \in left
        /\ seen' = seen \cup ({cur'} \ {None})

Start ==
    /\ iterating' = TRUE
    /\ Advance
    /\ UNCHANGED <<m, live, answer>>

Stop ==
    /\ iterating' = FALSE /\ cur' = None /\ seen' = {}
    /\ UNCHANGED <<m, live, answer>>

IterNext ==
    /\ Advance
    /\ Answer(cur' # None, None)
    /\ UNCHANGED <<m, iterating, live>>

IterGet ==
    /\ IF cur = None THEN Answer(FALSE, None) ELSE Answer(TRUE, Pair(cur))
    /\ UNCHANGED <<m, cur, seen, iterating, live>>

IterRemove ==
    /\ IF cur = None THEN Answer(FALSE, None) /\ UNCHANGED <<m, cur, seen>>
                     ELSE Delete(cur) /\ Advance
    /\ UNCHANGED <<iterating, live>>

Next ==
    /\ live
    /\ \/ \E k \in Keys : Find(k)
       \/ /\ ~iterating
          /\ \/ \E k \in Keys : Remove(k) \/ \E v \in Values : Insert(k, v)
             \/ Free \/ Start
       \/ iterating /\ (Stop \/ IterNext \/ IterGet \/ IterRemove)

Spec == Init /\ [][Next]_vars
=============================================================================
