---------------------------- MODULE SequenceList ----------------------------
(***************************************************************************)
(* What LinkedList.h promises: a sequence of payloads with an iterator on  *)
(* it, and operations that take effect at once.                            *)
(***************************************************************************)
EXTENDS Integers, Sequences

CONSTANTS Payloads, Rank, None

VARIABLES
    s,          \* the payloads, first to last
    at,         \* the iterator: 0 none, i on s[i], Len(s) + 1 past the end
    live,       \* FALSE once the list is freed
    answer      \* what the call last returned: success, and a payload

vars == <<s, at, live, answer>>

Init == s = << >> /\ at = 0 /\ live = TRUE /\ answer = [ok |-> FALSE, out |-> None]

Answer(b, p) == answer' = [ok |-> b, out |-> p]

Without(i) == SubSeq(s, 1, i - 1) \o SubSeq(s, i + 1, Len(s))

(* The functions of the list itself; an iterator does not survive them. *)
Push(p)   == s' = <<p>> \o s /\ UNCHANGED answer
Append_(p) == s' = Append(s, p) /\ UNCHANGED answer

TakeAt(i) == s' = Without(i) /\ Answer(TRUE, s[i])

Empty == s = << >> /\ UNCHANGED s /\ Answer(FALSE, None)

(* The sorted order is the one order that keeps equal payloads as they     *)
(* stood.                                                                  *)
Before(x, y, ascending) ==
    IF ascending THEN Rank[x] < Rank[y] ELSE Rank[x] > Rank[y]

IsStableSort(t, ascending) ==
    \E p \in [1..Len(s) -> 1..Len(s)] :
      /\ \A i, j \in 1..Len(s) : p[i] = p[j] => i = j
      /\ t = [i \in 1..Len(s) |-> s[p[i]]]
      /\ \A i, j \in 1..Len(s) : i < j =>
           \/ Before(t[i], t[j], ascending)
           \/ Rank[t[i]] = Rank[t[j]] /\ p[i] < p[j]

Sort == (\E ascending \in BOOLEAN : IsStableSort(s', ascending)) /\ UNCHANGED answer

ListCall ==
    /\ at = 0
    /\ \/ \E p \in Payloads : Push(p) \/ Append_(p)
       \/ s # << >> /\ (TakeAt(1) \/ TakeAt(Len(s)))
       \/ Empty
       \/ Sort
    /\ UNCHANGED <<at, live>>

Free == at = 0 /\ live' = FALSE /\ s' = << >> /\ UNCHANGED <<at, answer>>

(* The functions of the iterator. *)
Start  == at = 0 /\ s # << >> /\ at' = 1 /\ UNCHANGED <<s, live, answer>>
Stop   == at # 0 /\ at' = 0 /\ UNCHANGED <<s, live, answer>>
Rewind == at # 0 /\ at' = 1 /\ UNCHANGED <<s, live, answer>>

Advance ==
    /\ at # 0
    /\ at' = IF at > Len(s) THEN at ELSE at + 1
    /\ Answer(at < Len(s), None)
    /\ UNCHANGED <<s, live>>

Get == at \in 1..Len(s) /\ Answer(TRUE, s[at]) /\ UNCHANGED <<s, at, live>>

(* "if the deleted node had a successor, the iterator is now pointing at   *)
(* the successor; if it was the tail, at the predecessor".                 *)
Remove ==
    /\ at # 0
    /\ IF at > Len(s)
       THEN Answer(FALSE, None) /\ UNCHANGED <<s, at>>
       ELSE /\ s' = Without(at)
            /\ at' = IF at = Len(s) /\ at > 1 THEN at - 1 ELSE at
            /\ Answer(Len(s) > 1, None)
    /\ UNCHANGED live

Next == live /\ (ListCall \/ Free \/ Start \/ Stop \/ Rewind \/ Advance \/ Get \/ Remove)

Spec == Init /\ [][Next]_vars
=============================================================================
