----------------------------- MODULE LinkedList -----------------------------
(***************************************************************************)
(* The doubly linked list of "hw0 -- Linked List & Hash Table" and its     *)
(* iterator, node by node.  One caller, so an operation is one step; only  *)
(* the loops of LinkedList_Sort and LinkedList_Free take several.          *)
(*                                                                         *)
(* A list function makes "any iterators you have on that list undefined"   *)
(* (LinkedList.h): the caller uses them only without an iterator.  When    *)
(* malloc fails, Push, Append and LLIterator_Allocate change nothing: a    *)
(* stuttering step.                                                        *)
(*                                                                         *)
(* `chain' and `before' are history.  PopAfterFree, CompareEqualToo,       *)
(* RemoveTailGoesOn and RemoveMiddleOneWay are mistakes in the definition  *)
(* that follows each: no action uses them.                                 *)
(***************************************************************************)
EXTENDS Integers, Sequences, SequencesExt

CONSTANTS
    Payloads,       \* the pointers the caller stores
    Rank,           \* what the caller's comparator compares
    Nodes,          \* the addresses malloc can return
    NULL,
    NoIter,         \* no iterator is allocated
    Freed,          \* the content of freed memory
    None            \* no payload returned

ASSUME ListAssumption ==
    /\ Rank \in [Payloads -> Int]
    /\ NULL \notin Nodes /\ NoIter \notin Nodes \cup {NULL}
    /\ Freed \notin Nodes \cup Payloads \cup {NULL}

VARIABLES
    num_elements, head, tail,   \* the fields of LinkedList
    allocated,                  \* the nodes that are not free memory
    next, prev, payload,        \* the fields of LinkedListNode
    node,                       \* the node of the iterator
    pc,                         \* "idle", "sort", "freeing" or "freed"
    curnode, swapped, ascending,
    answer,                     \* what the call last returned
    chain,                      \* history: the linked nodes in order
    before                      \* history: the payloads when the sort began

fields == <<num_elements, head, tail>>
heap   == <<allocated, next, prev, payload, chain>>
loop   == <<pc, curnode, swapped, ascending, before>>
vars   == <<fields, heap, node, loop, answer>>

Init ==
    /\ num_elements = 0 /\ head = NULL /\ tail = NULL
    /\ allocated = {} /\ chain = << >>
    /\ next = [n \in Nodes |-> Freed]
    /\ prev = [n \in Nodes |-> Freed]
    /\ payload = [n \in Nodes |-> Freed]
    /\ node = NoIter
    /\ pc = "idle" /\ curnode = NULL /\ swapped = FALSE /\ ascending = TRUE
    /\ before = << >>
    /\ answer = [ok |-> FALSE, out |-> None]

Contents == [i \in 1..Len(chain) |-> payload[chain[i]]]

(* Where a linked node stands. *)
Position(n) == CHOOSE i \in 1..Len(chain) : chain[i] = n

Answer(b, p) == answer' = [ok |-> b, out |-> p]

(* A list function is called: no iterator is around. *)
ListCall == pc = "idle" /\ node = NoIter /\ UNCHANGED <<node, loop>>

(* The caller stores a pointer once: it owns what it points to. *)
NewNode(n, p) ==
    /\ n \in Nodes \ allocated
    /\ p \notin Range(Contents)
    /\ allocated' = allocated \cup {n}
    /\ payload' = [payload EXCEPT ![n] = p]
    /\ num_elements' = num_elements + 1
    /\ UNCHANGED answer

(* free(n), with the pointers nx and pv in the other nodes. *)
FreeNode(n, nx, pv) ==
    /\ allocated' = allocated \ {n}
    /\ next' = [nx EXCEPT ![n] = Freed]
    /\ prev' = [pv EXCEPT ![n] = Freed]
    /\ payload' = [payload EXCEPT ![n] = Freed]

Push(n, p) ==
    /\ ListCall
    /\ NewNode(n, p)
    /\ head' = n
    /\ tail' = IF head = NULL THEN n ELSE tail
    /\ next' = [next EXCEPT ![n] = head]
    /\ prev' = [m \in Nodes |-> CASE m = n    -> NULL
                                  [] m = head -> n
                                  [] OTHER    -> prev[m]]
    /\ chain' = <<n>> \o chain

Append_(n, p) ==
    /\ ListCall
    /\ NewNode(n, p)
    /\ tail' = n
    /\ head' = IF tail = NULL THEN n ELSE head
    /\ prev' = [prev EXCEPT ![n] = tail]
    /\ next' = [m \in Nodes |-> CASE m = n    -> NULL
                                  [] m = tail -> n
                                  [] OTHER    -> next[m]]
    /\ chain' = Append(chain, n)

(* LinkedList_Pop and LinkedList_Slice of an empty list. *)
TakeNone ==
    /\ ListCall
    /\ num_elements = 0
    /\ Answer(FALSE, None)
    /\ UNCHANGED <<fields, heap>>

(* The second node read through the first one when that is freed. *)
PopAfterFree ==
    /\ ListCall
    /\ num_elements # 0
    /\ Answer(TRUE, payload[head])
    /\ head' = IF num_elements = 1 THEN NULL ELSE Freed
    /\ tail' = IF num_elements = 1 THEN NULL ELSE tail
    /\ FreeNode(head, next, prev)
    /\ num_elements' = num_elements - 1
    /\ chain' = Tail(chain)

Pop ==
    /\ ListCall
    /\ num_elements # 0
    /\ Answer(TRUE, payload[head])
    /\ IF num_elements = 1
       THEN /\ head' = NULL /\ tail' = NULL
            /\ FreeNode(head, next, prev)
       ELSE /\ head' = next[head] /\ UNCHANGED tail
            /\ FreeNode(head, next, [prev EXCEPT ![next[head]] = NULL])
    /\ num_elements' = num_elements - 1
    /\ chain' = Tail(chain)

Slice ==
    /\ ListCall
    /\ num_elements # 0
    /\ Answer(TRUE, payload[tail])
    /\ IF num_elements = 1
       THEN /\ head' = NULL /\ tail' = NULL
            /\ FreeNode(tail, next, prev)
       ELSE /\ tail' = prev[tail] /\ UNCHANGED head
            /\ FreeNode(tail, [next EXCEPT ![prev[tail]] = NULL], prev)
    /\ num_elements' = num_elements - 1
    /\ chain' = Front(chain)

----------------------------------------------------------------------------
(* LinkedList_Sort: bubblesort of the payloads, until a pass swaps none.   *)

SortStart(up) ==
    /\ pc = "idle" /\ node = NoIter
    /\ num_elements >= 2
    /\ pc' = "sort"
    /\ curnode' = head /\ swapped' = FALSE /\ ascending' = up
    /\ before' = Contents
    /\ UNCHANGED <<fields, heap, node, answer>>

CompareEqualToo(p, q) == IF ascending THEN Rank[p] >= Rank[q] ELSE Rank[p] <= Rank[q]

(* The sign of the comparator, turned round for an ascending sort. *)
OutOfOrder(p, q) == IF ascending THEN Rank[p] > Rank[q] ELSE Rank[p] < Rank[q]

SortStep ==
    /\ pc = "sort" /\ next[curnode] # NULL
    /\ LET p == payload[curnode]
           q == payload[next[curnode]]
       IN  IF OutOfOrder(p, q)
           THEN /\ payload' = [payload EXCEPT ![curnode] = q, ![next[curnode]] = p]
                /\ swapped' = TRUE
           ELSE UNCHANGED <<payload, swapped>>
    /\ curnode' = next[curnode]
    /\ UNCHANGED <<fields, allocated, next, prev, chain, node, pc, ascending, before, answer>>

SortPassDone ==
    /\ pc = "sort" /\ next[curnode] = NULL
    /\ IF swapped
       THEN curnode' = head /\ swapped' = FALSE /\ UNCHANGED <<pc, ascending, before>>
       ELSE /\ pc' = "idle" /\ curnode' = NULL /\ ascending' = TRUE
            /\ before' = << >> /\ UNCHANGED swapped
    /\ UNCHANGED <<fields, heap, node, answer>>

----------------------------------------------------------------------------
(* LinkedList_Free *)

FreeStart ==
    /\ pc = "idle" /\ node = NoIter
    /\ pc' = "freeing" /\ curnode' = head
    /\ UNCHANGED <<fields, heap, node, swapped, ascending, before, answer>>

FreeStep ==
    /\ pc = "freeing" /\ curnode # NULL
    /\ curnode' = next[curnode]
    /\ FreeNode(curnode, next, prev)
    /\ chain' = Tail(chain)
    /\ UNCHANGED <<fields, node, pc, swapped, ascending, before, answer>>

FreeDone ==
    /\ pc = "freeing" /\ curnode = NULL
    /\ pc' = "freed"
    /\ UNCHANGED <<fields, heap, node, curnode, swapped, ascending, before, answer>>

Finished == pc = "freed" /\ UNCHANGED vars

----------------------------------------------------------------------------
(* The iterator *)

IterCall == pc = "idle" /\ node # NoIter /\ UNCHANGED loop

IsValid == node # NULL

IterAllocate ==
    /\ pc = "idle" /\ node = NoIter
    /\ num_elements # 0
    /\ node' = head
    /\ UNCHANGED <<fields, heap, loop, answer>>

IterFree == IterCall /\ node' = NoIter /\ UNCHANGED <<fields, heap, answer>>

IterRewind == IterCall /\ node' = head /\ UNCHANGED <<fields, heap, answer>>

IterNext ==
    /\ IterCall
    /\ node' = IF IsValid THEN next[node] ELSE node
    /\ Answer(node' # NULL, None)
    /\ UNCHANGED <<fields, heap>>

IterGet ==
    /\ IterCall /\ IsValid
    /\ Answer(TRUE, payload[node])
    /\ UNCHANGED <<fields, heap, node>>

IterRemoveInvalid ==
    /\ IterCall /\ ~IsValid
    /\ Answer(FALSE, None)
    /\ UNCHANGED <<fields, heap, node>>

(* The four cases of LLIterator_Remove. *)
RemoveOnly ==
    /\ num_elements = 1
    /\ head' = NULL /\ tail' = NULL /\ node' = NULL
    /\ FreeNode(node, next, prev)

RemoveHead ==
    /\ num_elements > 1 /\ node = head
    /\ head' = next[node] /\ node' = next[node]
    /\ FreeNode(node, next, [prev EXCEPT ![next[node]] = NULL])
    /\ UNCHANGED tail

RemoveTailGoesOn ==
    /\ num_elements > 1 /\ node # head /\ node = tail
    /\ tail' = prev[node] /\ node' = NULL
    /\ FreeNode(node, [next EXCEPT ![prev[node]] = NULL], prev)
    /\ UNCHANGED head

RemoveTail ==
    /\ num_elements > 1 /\ node # head /\ node = tail
    /\ tail' = prev[node] /\ node' = prev[node]
    /\ FreeNode(node, [next EXCEPT ![prev[node]] = NULL], prev)
    /\ UNCHANGED head

RemoveMiddleOneWay ==
    /\ num_elements > 1 /\ node \notin {head, tail}
    /\ node' = next[node]
    /\ FreeNode(node, [next EXCEPT ![prev[node]] = next[node]], prev)
    /\ UNCHANGED <<head, tail>>

RemoveMiddle ==
    /\ num_elements > 1 /\ node \notin {head, tail}
    /\ node' = next[node]
    /\ FreeNode(node, [next EXCEPT ![prev[node]] = next[node]],
                      [prev EXCEPT ![next[node]] = prev[node]])
    /\ UNCHANGED <<head, tail>>

IterRemove ==
    /\ IterCall /\ IsValid
    /\ RemoveOnly \/ RemoveHead \/ RemoveTail \/ RemoveMiddle
    /\ num_elements' = num_elements - 1
    /\ chain' = RemoveAt(chain, Position(node))
    /\ Answer(num_elements > 1, None)

----------------------------------------------------------------------------
LoopStep == SortStep \/ SortPassDone \/ FreeStep \/ FreeDone

Next ==
    \/ \E n \in Nodes, p \in Payloads : Push(n, p) \/ Append_(n, p)
    \/ TakeNone \/ Pop \/ Slice
    \/ \E up \in BOOLEAN : SortStart(up)
    \/ FreeStart
    \/ IterAllocate \/ IterFree \/ IterRewind \/ IterNext \/ IterGet
    \/ IterRemoveInvalid \/ IterRemove
    \/ LoopStep
    \/ Finished

Spec == Init /\ [][Next]_vars

(* A loop that can go on goes on; nothing makes the caller call. *)
FairSpec == Spec /\ WF_vars(LoopStep)

----------------------------------------------------------------------------
TypeOK ==
    /\ num_elements \in Nat
    /\ head \in Nodes \cup {NULL} /\ tail \in Nodes \cup {NULL}
    /\ node \in Nodes \cup {NULL, NoIter} /\ curnode \in Nodes \cup {NULL}
    /\ allocated \subseteq Nodes
    /\ chain \in Seq(Nodes)
    /\ next \in [Nodes -> Nodes \cup {NULL, Freed}]
    /\ prev \in [Nodes -> Nodes \cup {NULL, Freed}]
    /\ payload \in [Nodes -> Payloads \cup {Freed}]
    /\ pc \in {"idle", "sort", "freeing", "freed"}
    /\ swapped \in BOOLEAN /\ ascending \in BOOLEAN
    /\ before \in Seq(Payloads)
    /\ answer \in [ok : BOOLEAN, out : Payloads \cup {None}]

(* The memory is one list in both directions, counted and bounded by the   *)
(* fields, on whose nodes the iterator stands; no allocated node is off it *)
(* and no node on it is freed, and LinkedList_Free gives all of them back. *)
DoublyLinked ==
    LET len == Len(chain)
    IN  /\ allocated = Range(chain)
        /\ pc = "freed" => allocated = {}
        /\ \A i, j \in 1..len : chain[i] = chain[j] => i = j
        /\ \A i \in 1..len :
             next[chain[i]] = IF i = len THEN NULL ELSE chain[i + 1]
        /\ pc \in {"idle", "sort"} =>
             /\ num_elements = len
             /\ head = (IF len = 0 THEN NULL ELSE chain[1])
             /\ tail = (IF len = 0 THEN NULL ELSE chain[len])
             /\ \A i \in 1..len : prev[chain[i]] = IF i = 1 THEN NULL ELSE chain[i - 1]
             /\ node \in allocated \cup {NULL, NoIter}

(* The sort ends, however many payloads the comparator calls equal. *)
SortReturns == pc = "sort" ~> pc = "idle"

----------------------------------------------------------------------------
(* Every behaviour is one of a sequence with an iterator, with each        *)
(* operation's answer; a sort takes effect when it returns, stable and in  *)
(* the order asked for.                                                    *)
Place ==
    CASE node = NoIter -> 0
      [] node = NULL   -> Len(chain) + 1
      [] OTHER         -> Position(node)

Abstract == INSTANCE SequenceList
          WITH s <- CASE pc = "sort" -> before [] pc = "idle" -> Contents [] OTHER -> << >>,
               at <- Place, live <- (pc \in {"idle", "sort"})

IsSequence == Abstract!Spec
=============================================================================
