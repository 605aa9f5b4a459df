-------------------------- MODULE DoubleQueueProofs --------------------------
(***************************************************************************)
(* Theorems about DoubleQueue, for any number of threads, nodes and values *)
(* and any assignment of operations to threads.                            *)
(***************************************************************************)
EXTENDS DoubleQueue, SequenceTheorems, TLAPS

(* What a thread's place in the code says about its call. *)
Places ==
    \A t \in Threads :
      /\ pc[t] = "idle" => op[t] = "none"
      /\ pc[t] # "idle" => <<t, op[t]>> \in Calls
      /\ pc[t] \in {"lock", "locked", "count", "unlock"} =>
           op[t] \in {"add", "remove", "wait_remove"}
      /\ pc[t] \in {"asleep", "relock"} => op[t] = "wait_remove"
      /\ pc[t] \in {"read", "return"} => op[t] = "length"
      /\ op[t] = "add" => arg[t] \in Values

(* The destructor runs alone. *)
Alone == dtor # "live" => \A t \in Threads : pc[t] = "idle"

(* What CountMatches says, seen by the thread that holds the mutex. *)
CountSeen ==
    dtor = "live" =>
      /\ lock = Nobody => queue_length = Len(chain)
      /\ \A t \in Threads :
           /\ pc[t] \in {"locked", "unlock"} => queue_length = Len(chain)
           /\ pc[t] = "count" /\ op[t] = "add" => queue_length = Len(chain) - 1
           /\ pc[t] = "count" /\ op[t] # "add" => queue_length = Len(chain) + 1

Stopped == dtor = "destroyed" => cursor = NULL

IInv ==
    /\ TypeOK
    /\ MutualExclusion
    /\ Places
    /\ Alone
    /\ Stopped
    /\ HeapShape
    /\ CountSeen
    /\ NoSleepOverElements

USE QueueAssumption

----------------------------------------------------------------------------
(* The two operations on a list of distinct nodes. *)

(* Appending a fresh node keeps the nodes distinct. *)
LEMMA AppendNode ==
    ASSUME NEW s \in Seq(Nodes), NEW n \in Nodes,
           \A i, j \in 1..Len(s) : s[i] = s[j] => i = j,
           n \notin {s[i] : i \in 1..Len(s)}
    PROVE  LET r == Append(s, n) IN
           /\ r \in Seq(Nodes)
           /\ Len(r) = Len(s) + 1
           /\ r[Len(s) + 1] = n
           /\ \A i \in 1..Len(s) : r[i] = s[i]
           /\ {r[i] : i \in 1..Len(r)} = {s[i] : i \in 1..Len(s)} \cup {n}
           /\ \A i, j \in 1..Len(r) : r[i] = r[j] => i = j
<1> DEFINE r == Append(s, n)
<1>1. /\ r \in Seq(Nodes)
      /\ Len(r) = Len(s) + 1
      /\ r[Len(s) + 1] = n
      /\ \A i \in 1..Len(s) : r[i] = s[i]
      /\ Len(s) \in Nat
  OBVIOUS
<1> HIDE DEF r
<1>2. \A i \in 1..Len(r) : i = Len(s) + 1 \/ i \in 1..Len(s)
  BY <1>1
<1>3. {r[i] : i \in 1..Len(r)} = {s[i] : i \in 1..Len(s)} \cup {n}
  <2> DEFINE old == {s[i] : i \in 1..Len(s)}
             new == {r[i] : i \in 1..Len(r)}
  <2>1. \A i \in 1..Len(r) : r[i] \in old \cup {n}
    BY <1>1, <1>2
  <2>2. \A i \in 1..Len(s) : s[i] \in new
    BY <1>1
  <2>3. n \in new
    BY <1>1
  <2>4. \A x \in new : x \in old \cup {n}
    BY <2>1, Zenon
  <2>5. \A x \in old : x \in new
    BY <2>2, Zenon
  <2> HIDE DEF old, new
  <2>6. new = old \cup {n}
    BY <2>3, <2>4, <2>5
  <2> QED
    BY <2>6 DEF old, new
<1>4. \A i, j \in 1..Len(r) : r[i] = r[j] => i = j
  BY <1>1, <1>2
<1> QED
  BY <1>1, <1>3, <1>4 DEF r

(* Taking the first node off leaves the others, and only them. *)
LEMMA TailNodes ==
    ASSUME NEW s \in Seq(Nodes), s # << >>,
           \A i, j \in 1..Len(s) : s[i] = s[j] => i = j
    PROVE  LET r == Tail(s) IN
           /\ r \in Seq(Nodes)
           /\ Len(s) >= 1
           /\ Len(r) = Len(s) - 1
           /\ \A i \in 1..Len(r) : r[i] = s[i + 1]
           /\ {r[i] : i \in 1..Len(r)} = {s[i] : i \in 1..Len(s)} \ {s[1]}
           /\ \A i, j \in 1..Len(r) : r[i] = r[j] => i = j
<1> DEFINE r == Tail(s)
<1>1. /\ r \in Seq(Nodes)
      /\ Len(s) \in Nat
      /\ Len(s) >= 1
      /\ Len(r) = Len(s) - 1
      /\ \A i \in 1..Len(r) : r[i] = s[i + 1]
  OBVIOUS
<1> HIDE DEF r
<1>2. \A i \in 1..Len(r) : i + 1 \in 1..Len(s) /\ i + 1 # 1
  BY <1>1
<1>3. \A i \in 1..Len(s) : i = 1 \/ (i - 1 \in 1..Len(r) /\ (i - 1) + 1 = i)
  BY <1>1
<1>4. {r[i] : i \in 1..Len(r)} = {s[i] : i \in 1..Len(s)} \ {s[1]}
  <2>1. \A i \in 1..Len(r) : r[i] \in {s[k] : k \in 1..Len(s)} \ {s[1]}
    BY <1>1, <1>2
  <2>2. ASSUME NEW i \in 1..Len(s), s[i] # s[1]
        PROVE  s[i] \in {r[k] : k \in 1..Len(r)}
    <3>1. i - 1 \in 1..Len(r) /\ (i - 1) + 1 = i
      BY <1>3, <2>2
    <3>2. r[i - 1] = s[i]
      BY <3>1, <1>1
    <3> QED
      BY <3>1, <3>2
  <2> QED
    BY <2>1, <2>2
<1>5. \A i, j \in 1..Len(r) : r[i] = r[j] => i = j
  BY <1>1, <1>2
<1> QED
  BY <1>1, <1>4, <1>5 DEF r

----------------------------------------------------------------------------
(* The inductive invariant holds initially. *)
LEMMA InitInv == Init => IInv
<1> SUFFICES ASSUME Init PROVE IInv
  OBVIOUS
<1> USE DEF Init
<1>1. TypeOK
  BY DEF TypeOK, Operations
<1>2. MutualExclusion
  BY DEF MutualExclusion, Critical
<1>3. Places /\ Alone /\ Stopped
  BY DEF Places, Alone, Stopped
<1>4. HeapShape /\ CountSeen
  BY DEF HeapShape, CountSeen
<1>5. NoSleepOverElements
  BY DEF NoSleepOverElements, Sleepers
<1> QED
  BY <1>1, <1>2, <1>3, <1>4, <1>5 DEF IInv

(* Entering an operation touches nothing but the thread's own frame. *)
LEMMA EnterInv ==
    ASSUME IInv, NEW t \in Threads, NEW o \in Operations, NEW v, NEW l,
           \/ o = "add" /\ v \in Values /\ l = "lock"
           \/ o \in {"remove", "wait_remove"} /\ v = None /\ l = "lock"
           \/ o = "length" /\ v = None /\ l = "read",
           Enter(t, o, v, l)
    PROVE  IInv'
<1> USE DEF IInv, Enter, Goto, fields, heap
<1>1. TypeOK'
  BY DEF TypeOK
<1>2. MutualExclusion'
  BY DEF MutualExclusion, Critical, TypeOK
<1>3. Places'
  BY DEF Places, TypeOK
<1>4. Alone' /\ Stopped'
  BY DEF Alone, Stopped, TypeOK
<1>5. HeapShape'
  BY DEF HeapShape
<1>6. CountSeen'
  BY DEF CountSeen, TypeOK
<1>7. NoSleepOverElements'
  BY DEF NoSleepOverElements, Sleepers, OneWaiter, TypeOK
<1> QED
  BY <1>1, <1>2, <1>3, <1>4, <1>5, <1>6, <1>7

(* Starting a call keeps the invariant: the other threads are where they *)
(* were.                                                                 *)
LEMMA CallInv == ASSUME IInv, NEW t \in Threads, Call(t) PROVE IInv'
<1>1. ASSUME NEW v \in Values, CallAdd(t, v) PROVE IInv'
  BY <1>1, EnterInv DEF CallAdd, Operations
<1>2. CASE CallRemove(t)
  BY <1>2, EnterInv DEF CallRemove, Operations
<1>3. CASE CallWaitRemove(t)
  BY <1>3, EnterInv DEF CallWaitRemove, Operations
<1>4. CASE CallLength(t)
  BY <1>4, EnterInv DEF CallLength, Operations
<1> QED
  BY <1>1, <1>2, <1>3, <1>4 DEF Call

(* Taking the mutex, whether first or on the way out of pthread_cond_wait. *)
LEMMA LockInv == ASSUME IInv, NEW t \in Threads, LockStep(t) PROVE IInv'
<1> USE DEF IInv, LockStep, Lock, Relock, Goto, fields, heap, frame
<1>1. TypeOK'
  BY DEF TypeOK
<1>2. MutualExclusion'
  BY DEF MutualExclusion, Critical, TypeOK
<1>3. Places'
  BY DEF Places, TypeOK
<1>4. Alone' /\ Stopped'
  BY DEF Alone, Stopped, TypeOK
<1>5. HeapShape'
  BY DEF HeapShape
<1>6. CountSeen'
  BY DEF CountSeen, TypeOK, MutualExclusion, Critical
<1>7. NoSleepOverElements'
  BY DEF NoSleepOverElements, Sleepers, OneWaiter, TypeOK
<1> QED
  BY <1>1, <1>2, <1>3, <1>4, <1>5, <1>6, <1>7

(* The steps inside a call that leave the list alone. *)
LEMMA QuietInv ==
    ASSUME IInv, NEW t \in Threads,
           \/ Unlock(t) \/ AddCount(t) \/ RemoveEmpty(t) \/ RemoveCount(t)
           \/ CondWait(t) \/ ReadLength(t) \/ ReturnLength(t) \/ SpuriousWake(t)
    PROVE  IInv'
<1> USE DEF IInv, Unlock, AddCount, RemoveEmpty, RemoveCount, CondWait, ReadLength,
            ReturnLength, SpuriousWake, Goto, Leave, fields, heap, frame
<1>0. chain \in Seq(Nodes) /\ Len(chain) \in Nat
  BY DEF TypeOK
<1>1. TypeOK'
  <2>1. queue_length' \in Nat
    BY <1>0 DEF TypeOK, CountSeen, Alone, Places
  <2> QED
    BY SMTT(20), <2>1 DEF TypeOK
<1>2. MutualExclusion'
  BY DEF MutualExclusion, Critical, TypeOK
<1>3. Places'
  BY DEF Places, TypeOK
<1>4. Alone' /\ Stopped'
  BY DEF Alone, Stopped, TypeOK
<1>5. HeapShape'
  BY DEF HeapShape
<1>6. CountSeen'
  <2> USE <1>0 DEF CountSeen, TypeOK
  <2>1. \A u \in Threads : lock = t /\ u # t => ~Critical(u)
    BY DEF MutualExclusion
  <2>2. Critical(t) => lock = t
    BY DEF MutualExclusion
  <2> USE <2>1, <2>2 DEF Critical
  <2>3. CASE AddCount(t)
    BY <2>3
  <2>4. CASE RemoveCount(t)
    BY <2>4
  <2>5. CASE CondWait(t) \/ RemoveEmpty(t)
    BY <2>5
  <2>6. CASE Unlock(t)
    BY <2>6
  <2>7. CASE ReadLength(t) \/ ReturnLength(t) \/ SpuriousWake(t)
    BY <2>7
  <2> QED
    BY <2>3, <2>4, <2>5, <2>6, <2>7
<1>7. NoSleepOverElements'
  BY <1>0 DEF NoSleepOverElements, Sleepers, OneWaiter, TypeOK, CountSeen, Alone
<1> QED
  BY <1>1, <1>2, <1>3, <1>4, <1>5, <1>6, <1>7

----------------------------------------------------------------------------
(* Linking a new node, in an empty list (which may wake a sleeper) or      *)
(* behind the last node.                                                   *)
LEMMA AddLinkInv == ASSUME IInv, NEW t \in Threads, AddLink(t) PROVE IInv'
<1> USE DEF IInv
<1>1. PICK n \in Nodes \ allocated :
        /\ allocated' = allocated \cup {n}
        /\ value' = [value EXCEPT ![n] = arg[t]]
        /\ chain' = Append(chain, n)
        /\ LinkFirst(t, n) \/ LinkLast(t, n)
  BY DEF AddLink
<1>2. /\ pc[t] = "locked" /\ op[t] = "add"
      /\ UNCHANGED <<queue_length, lock, frame, dtor, cursor>>
  BY DEF AddLink
<1>3. /\ dtor = "live"
      /\ lock = t
      /\ queue_length = Len(chain)
      /\ arg[t] \in Values
      /\ chain \in Seq(Nodes) /\ Len(chain) \in Nat
  BY <1>2 DEF Alone, MutualExclusion, Critical, CountSeen, Places, TypeOK
<1>4. /\ allocated = {chain[i] : i \in 1..Len(chain)}
      /\ \A i, j \in 1..Len(chain) : chain[i] = chain[j] => i = j
      /\ \A i \in 1..Len(chain) :
           next[chain[i]] = IF i = Len(chain) THEN NULL ELSE chain[i + 1]
      /\ head = IF Len(chain) = 0 THEN NULL ELSE chain[1]
      /\ Len(chain) # 0 => tail = chain[Len(chain)]
  BY <1>3 DEF HeapShape
<1>5. /\ chain' \in Seq(Nodes)
      /\ Len(chain') = Len(chain) + 1
      /\ chain'[Len(chain) + 1] = n
      /\ \A i \in 1..Len(chain) : chain'[i] = chain[i]
      /\ {chain'[i] : i \in 1..Len(chain')} = allocated \cup {n}
      /\ \A i, j \in 1..Len(chain') : chain'[i] = chain'[j] => i = j
  BY <1>1, <1>3, <1>4, AppendNode
<1>6. \/ pc' = [pc EXCEPT ![t] = "count"]
      \/ \E w \in Sleepers : pc' = [pc EXCEPT ![t] = "count", ![w] = "relock"]
  BY <1>1 DEF LinkFirst, LinkLast, Signal, Goto
<1>7. pc' \in [Threads -> {"idle", "lock", "locked", "count", "unlock",
                           "asleep", "relock", "read", "return"}]
  BY <1>6 DEF TypeOK, Sleepers
<1>8. /\ pc'[t] = "count"
      /\ \A u \in Threads : u # t => \/ pc'[u] = pc[u]
                                     \/ pc[u] = "asleep" /\ pc'[u] = "relock"
  BY <1>2, <1>6 DEF TypeOK, Sleepers
<1>9. TypeOK'
  <2>1. /\ head' \in Nodes /\ tail' \in Nodes
        /\ next' \in [Nodes -> Nodes \cup {NULL}]
    <3>1. CASE LinkFirst(t, n)
      BY <3>1 DEF TypeOK, LinkFirst
    <3>2. CASE LinkLast(t, n)
      <4>1. head \in Nodes
        BY <3>2, <1>3, <1>4 DEF LinkLast
      <4> QED
        BY <3>2, <4>1 DEF TypeOK, LinkLast
    <3> QED
      BY <3>1, <3>2, <1>1
  <2> QED
    BY <2>1, <1>1, <1>2, <1>3, <1>5, <1>7 DEF TypeOK, frame
<1>10. MutualExclusion'
  BY <1>2, <1>8 DEF MutualExclusion, Critical, TypeOK
<1>11. Places'
  BY <1>2, <1>8 DEF Places, frame
<1>12. Alone' /\ Stopped'
  BY <1>2, <1>3 DEF Alone, Stopped
<1>13. HeapShape'
  <2>1. tail' = chain'[Len(chain')] /\ head' = chain'[1]
    BY <1>1, <1>3, <1>4, <1>5 DEF LinkFirst, LinkLast
  <2>2. ASSUME NEW i \in 1..Len(chain')
        PROVE  next'[chain'[i]] = IF i = Len(chain') THEN NULL ELSE chain'[i + 1]
    <3>1. n \notin {chain[k] : k \in 1..Len(chain)}
      BY <1>4
    <3>2. CASE LinkFirst(t, n)
      BY <3>2, <1>3, <1>5 DEF LinkFirst, TypeOK
    <3>3. CASE LinkLast(t, n)
      <4>1. Len(chain) # 0 /\ tail = chain[Len(chain)] /\ tail # n /\ tail \in Nodes
        BY <3>1, <3>3, <1>3, <1>4 DEF LinkLast
      <4>2. next' = [next EXCEPT ![n] = NULL, ![tail] = n]
        BY <3>3 DEF LinkLast
      <4>3. CASE i = Len(chain) + 1
        BY <4>1, <4>2, <4>3, <1>5 DEF TypeOK
      <4>4. CASE i = Len(chain)
        BY <4>1, <4>2, <4>4, <1>5, <1>3 DEF TypeOK
      <4>5. CASE i \in 1..(Len(chain) - 1)
        <5>1. /\ chain[i] # n /\ chain[i] # tail /\ chain[i] \in Nodes
              /\ i \in 1..Len(chain) /\ i + 1 \in 1..Len(chain)
          BY <3>1, <4>1, <4>5, <1>3, <1>4
        <5> QED
          BY <5>1, <4>2, <4>5, <1>3, <1>4, <1>5 DEF TypeOK
      <4> QED
        BY <4>3, <4>4, <4>5, <1>3, <1>5
    <3> QED
      BY <3>2, <3>3, <1>1
  <2>3. /\ dtor' = "live"
        /\ Len(chain') # 0
        /\ allocated' = {chain'[i] : i \in 1..Len(chain')}
        /\ \A i, j \in 1..Len(chain') : chain'[i] = chain'[j] => i = j
    BY <1>1, <1>2, <1>3, <1>5
  <2> HIDE DEF IInv
  <2> QED
    BY <2>1, <2>2, <2>3 DEF HeapShape
<1>14. CountSeen'
  BY <1>2, <1>3, <1>5, <1>8 DEF CountSeen, MutualExclusion, Critical, TypeOK, frame
<1>15. NoSleepOverElements'
  <2> SUFFICES ASSUME OneWaiter PROVE Sleepers' = {}
    BY DEF NoSleepOverElements, OneWaiter
  <2>1. CASE LinkFirst(t, n)
    <3>1. CASE Sleepers = {}
      BY <3>1, <1>8 DEF Sleepers
    <3>2. ASSUME NEW w \in Sleepers, pc' = [pc EXCEPT ![t] = "count", ![w] = "relock"]
          PROVE  Sleepers' = {}
      <4>1. \A u \in Sleepers : u = w
        BY DEF Sleepers, OneWaiter, Places
      <4> QED
        BY <3>2, <4>1, <1>2 DEF Sleepers, TypeOK
    <3> QED
      BY <2>1, <3>1, <3>2 DEF LinkFirst, Signal
  <2>2. CASE LinkLast(t, n)
    <3>1. Sleepers = {}
      BY <2>2, <1>3 DEF LinkLast, NoSleepOverElements
    <3> QED
      BY <3>1, <1>8 DEF Sleepers
  <2> QED
    BY <2>1, <2>2, <1>1
<1> QED
  BY <1>9, <1>10, <1>11, <1>12, <1>13, <1>14, <1>15

----------------------------------------------------------------------------
(* Taking the first node off, whatever tail points to. *)
LEMMA TakeInv == ASSUME IInv, NEW t \in Threads, Take(t) PROVE IInv'
<1> USE DEF IInv
<1>1. /\ pc[t] = "locked" /\ op[t] \in {"remove", "wait_remove"}
      /\ queue_length # 0
      /\ ret' = [ret EXCEPT ![t] = value[head]]
      /\ head' = next[head]
      /\ allocated' = allocated \ {head}
      /\ chain' = Tail(chain)
      /\ pc' = [pc EXCEPT ![t] = "count"]
      /\ UNCHANGED <<queue_length, tail, next, value, lock, op, arg, dtor, cursor>>
  BY DEF Take, Goto
<1>2. /\ dtor = "live"
      /\ lock = t
      /\ queue_length = Len(chain)
      /\ chain \in Seq(Nodes) /\ Len(chain) \in Nat
      /\ chain # << >>
  BY <1>1 DEF Alone, MutualExclusion, Critical, CountSeen, TypeOK
<1>3. /\ allocated = {chain[i] : i \in 1..Len(chain)}
      /\ \A i, j \in 1..Len(chain) : chain[i] = chain[j] => i = j
      /\ \A i \in 1..Len(chain) :
           next[chain[i]] = IF i = Len(chain) THEN NULL ELSE chain[i + 1]
      /\ head = chain[1]
      /\ tail = chain[Len(chain)]
  BY <1>1, <1>2 DEF HeapShape
<1>4. /\ chain' \in Seq(Nodes)
      /\ Len(chain) >= 1
      /\ Len(chain') = Len(chain) - 1
      /\ \A i \in 1..Len(chain') : chain'[i] = chain[i + 1]
      /\ {chain'[i] : i \in 1..Len(chain')} = allocated \ {head}
      /\ \A i, j \in 1..Len(chain') : chain'[i] = chain'[j] => i = j
  <2>1. {chain'[i] : i \in 1..Len(chain')} = {chain[i] : i \in 1..Len(chain)} \ {chain[1]}
    <3>1. {Tail(chain)[i] : i \in 1..Len(Tail(chain))}
            = {chain[i] : i \in 1..Len(chain)} \ {chain[1]}
      BY <1>2, <1>3, TailNodes
    <3> QED
      BY <3>1, <1>1
  <2>2. /\ chain' \in Seq(Nodes)
        /\ Len(chain) >= 1
        /\ Len(chain') = Len(chain) - 1
        /\ \A i \in 1..Len(chain') : chain'[i] = chain[i + 1]
        /\ \A i, j \in 1..Len(chain') : chain'[i] = chain'[j] => i = j
    BY <1>1, <1>2, <1>3, TailNodes
  <2> QED
    BY <2>1, <2>2, <1>3
<1>5. TypeOK'
  <2>1. head \in Nodes
    BY <1>2, <1>3, <1>4
  <2> QED
    BY <2>1, <1>1, <1>2, <1>4 DEF TypeOK
<1>6. MutualExclusion' /\ Places' /\ Alone' /\ Stopped'
  BY <1>1 DEF MutualExclusion, Critical, Places, Alone, Stopped, TypeOK
<1>7. HeapShape'
  <2>1. head' = IF Len(chain') = 0 THEN NULL ELSE chain'[1]
    BY <1>1, <1>2, <1>3, <1>4
  <2>2. \A i \in 1..Len(chain') :
          next'[chain'[i]] = IF i = Len(chain') THEN NULL ELSE chain'[i + 1]
    BY <1>1, <1>2, <1>3, <1>4
  <2>3. Len(chain') # 0 => tail' = chain'[Len(chain')]
    BY <1>1, <1>2, <1>3, <1>4
  <2> QED
    BY <2>1, <2>2, <2>3, <1>1, <1>2, <1>4 DEF HeapShape
<1>8. CountSeen'
  BY <1>1, <1>2, <1>4 DEF CountSeen, MutualExclusion, Critical, TypeOK
<1>9. NoSleepOverElements'
  <2>1. OneWaiter => Sleepers = {}
    BY <1>2 DEF NoSleepOverElements
  <2> QED
    BY <2>1, <1>1 DEF NoSleepOverElements, OneWaiter, Sleepers, TypeOK
<1> QED
  BY <1>5, <1>6, <1>7, <1>8, <1>9

(* The destructor walks the same list with its cursor for head. *)
LEMMA DestructorInv == ASSUME IInv, Destructor PROVE IInv'
<1> USE DEF IInv
<1>0. /\ chain \in Seq(Nodes) /\ Len(chain) \in Nat
      /\ \A t \in Threads : pc[t] = "idle"
  BY DEF TypeOK, Destructor, Destroy, FreeNode, Reset, Alone
<1>1. UNCHANGED <<lock, frame, pc>>
  BY DEF Destructor, Destroy, FreeNode, Reset
<1>2. /\ MutualExclusion' /\ Places' /\ CountSeen'
      /\ NoSleepOverElements'
  <2>1. dtor' # "live"
    BY DEF Destructor, Destroy, FreeNode, Reset
  <2> QED
    BY <1>0, <1>1, <2>1
      DEF MutualExclusion, Critical, Places, CountSeen, NoSleepOverElements, Sleepers,
          OneWaiter, frame
<1>3. Alone' /\ Stopped'
  BY <1>0, <1>1 DEF Alone, Stopped, Destructor, Destroy, FreeNode, Reset
<1>4. CASE Destroy
  <2>1. lock = Nobody
    BY <1>0 DEF MutualExclusion, Critical, TypeOK
  <2>2. queue_length = Len(chain)
    BY <1>4, <2>1 DEF Destroy, CountSeen
  <2>3. HeapShape'
    BY <1>0, <1>4, <2>2 DEF Destroy, HeapShape, fields, heap
  <2>4. TypeOK'
    BY <1>4 DEF Destroy, TypeOK, fields, heap, frame
  <2> QED
    BY <1>2, <1>3, <2>3, <2>4
<1>5. CASE FreeNode
  <2>1. /\ dtor = "freeing" /\ dtor' = "freeing"
        /\ cursor # NULL /\ cursor' = next[cursor]
        /\ next' = [next EXCEPT ![cursor] = NULL]
        /\ allocated' = allocated \ {cursor}
        /\ chain' = Tail(chain)
        /\ UNCHANGED <<fields, lock, value, frame, pc>>
    BY <1>5 DEF FreeNode
  <2>2. /\ allocated = {chain[i] : i \in 1..Len(chain)}
        /\ \A i, j \in 1..Len(chain) : chain[i] = chain[j] => i = j
        /\ \A i \in 1..Len(chain) :
             next[chain[i]] = IF i = Len(chain) THEN NULL ELSE chain[i + 1]
        /\ Len(chain) # 0
        /\ chain # << >>
        /\ cursor = chain[1]
        /\ cursor \in Nodes
    BY <1>0, <2>1 DEF HeapShape, TypeOK
  <2>3. /\ chain' \in Seq(Nodes)
        /\ Len(chain') = Len(chain) - 1
        /\ \A i \in 1..Len(chain') : chain'[i] = chain[i + 1]
        /\ {chain'[i] : i \in 1..Len(chain')} = allocated \ {cursor}
        /\ \A i, j \in 1..Len(chain') : chain'[i] = chain'[j] => i = j
    <3>1. {chain'[i] : i \in 1..Len(chain')} = {chain[i] : i \in 1..Len(chain)} \ {chain[1]}
      <4>1. {Tail(chain)[i] : i \in 1..Len(Tail(chain))}
              = {chain[i] : i \in 1..Len(chain)} \ {chain[1]}
        BY <1>0, <2>2, TailNodes
      <4> QED
        BY <4>1, <2>1
    <3>2. /\ chain' \in Seq(Nodes)
          /\ Len(chain') = Len(chain) - 1
          /\ \A i \in 1..Len(chain') : chain'[i] = chain[i + 1]
          /\ \A i, j \in 1..Len(chain') : chain'[i] = chain'[j] => i = j
      BY <1>0, <2>1, <2>2, TailNodes
    <3> QED
      BY <3>1, <3>2, <2>2
  <2>4. TypeOK'
    BY <2>1, <2>2, <2>3 DEF TypeOK, fields, frame
  <2>5. cursor' = IF Len(chain') = 0 THEN NULL ELSE chain'[1]
    BY <1>0, <2>1, <2>2, <2>3
  <2>6. ASSUME NEW i \in 1..Len(chain')
        PROVE  next'[chain'[i]] = IF i = Len(chain') THEN NULL ELSE chain'[i + 1]
    <3>1. /\ i + 1 \in 1..Len(chain)
          /\ chain'[i] = chain[i + 1]
          /\ chain[i + 1] # cursor
          /\ chain[i + 1] \in Nodes
      BY <1>0, <2>2, <2>3
    <3>2. next'[chain'[i]] = next[chain[i + 1]]
      BY <3>1, <2>1 DEF TypeOK
    <3>3. next[chain[i + 1]] = IF i + 1 = Len(chain) THEN NULL ELSE chain[i + 2]
      BY <3>1, <1>0, <2>2
    <3>4. i # Len(chain') => chain'[i + 1] = chain[i + 2]
      BY <1>0, <2>3
    <3> QED
      BY <3>2, <3>3, <3>4, <1>0, <2>3
  <2>7. HeapShape'
    BY <2>1, <2>3, <2>5, <2>6 DEF HeapShape
  <2> QED
    BY <1>2, <1>3, <2>4, <2>7
<1>6. CASE Reset
  <2>1. HeapShape'
    BY <1>6 DEF Reset, HeapShape, heap
  <2>2. TypeOK'
    BY <1>6 DEF Reset, TypeOK, heap, frame
  <2> QED
    BY <1>2, <1>3, <2>1, <2>2
<1> QED
  BY <1>4, <1>5, <1>6 DEF Destructor

(* Nothing the invariant speaks of changes in a stuttering step. *)
LEMMA StutterInv == ASSUME IInv, UNCHANGED vars PROVE IInv'
<1> USE DEF IInv, vars, fields, heap, frame
<1>1. TypeOK' /\ MutualExclusion' /\ Places'
  BY DEF TypeOK, MutualExclusion, Critical, Places
<1>2. Alone' /\ Stopped' /\ HeapShape'
  BY DEF Alone, Stopped, HeapShape
<1>3. CountSeen' /\ NoSleepOverElements'
  BY DEF CountSeen, NoSleepOverElements, OneWaiter, Sleepers
<1> QED
  BY <1>1, <1>2, <1>3

(* Every step of any thread, and of the destructor, keeps the invariant. *)
LEMMA NextInv == IInv /\ [Next]_vars => IInv'
<1> SUFFICES ASSUME IInv, [Next]_vars PROVE IInv'
  OBVIOUS
<1>1. ASSUME NEW t \in Threads,
             Call(t) \/ LockStep(t) \/ InsideStep(t) \/ SpuriousWake(t)
      PROVE  IInv'
  BY <1>1, CallInv, LockInv, QuietInv, AddLinkInv, TakeInv DEF InsideStep
<1>2. CASE Destructor
  BY <1>2, DestructorInv
<1>3. CASE Finished \/ UNCHANGED vars
  BY <1>3, StutterInv DEF Finished
<1> QED
  BY <1>1, <1>2, <1>3 DEF Next

(* IInv is inductive. *)
THEOREM Inductive == Spec => []IInv
<1>1. Init => IInv
  BY InitInv
<1>2. IInv /\ [Next]_vars => IInv'
  BY NextInv
<1> QED
  BY <1>1, <1>2, PTL DEF Spec

(* CountMatches in the form the model checker evaluates. *)
LEMMA CountFromSeen == IInv => CountMatches
<1> SUFFICES ASSUME IInv, dtor = "live"
             PROVE  queue_length = CASE InFlight = "none" -> Len(chain)
                                     [] InFlight = "add"  -> Len(chain) - 1
                                     [] OTHER             -> Len(chain) + 1
  BY DEF CountMatches
<1> USE DEF IInv
<1>1. CASE lock = Nobody
  BY <1>1 DEF InFlight, CountSeen
<1>2. CASE lock \in Threads
  <2>1. pc[lock] \in {"locked", "count", "unlock"}
    BY <1>2 DEF MutualExclusion, Critical
  <2>2. op[lock] # "none"
    BY <1>2, <2>1 DEF Places
  <2> QED
    BY <1>2, <2>1, <2>2 DEF InFlight, CountSeen
<1> QED
  BY <1>1, <1>2 DEF TypeOK

(* The list in memory, its count, the mutex and the destructor are right   *)
(* in every reachable state, for any threads, nodes and calls.             *)
THEOREM QueueIsSafe ==
    Spec => [](TypeOK /\ HeapShape /\ CountMatches /\ MutualExclusion /\ NothingLeaks)
<1>1. IInv => NothingLeaks
  BY DEF IInv, NothingLeaks, HeapShape, Stopped, TypeOK
<1>2. IInv => TypeOK /\ HeapShape /\ CountMatches /\ MutualExclusion /\ NothingLeaks
  BY <1>1, CountFromSeen DEF IInv
<1> QED
  BY <1>2, Inductive, PTL

(* One waiting thread never sleeps over an element, however many threads   *)
(* add and poll.                                                           *)
THEOREM OneWaiterIsWoken == Spec => []NoSleepOverElements
<1>1. IInv => NoSleepOverElements
  BY DEF IInv
<1> QED
  BY <1>1, Inductive, PTL

----------------------------------------------------------------------------
(* The abstract queue behind the list. *)

(* What the refinement needs besides IInv: only a call that has found its  *)
(* answer holds one, and the node an add has linked but not yet counted is *)
(* the last and carries its argument.                                      *)
Results ==
    \A t \in Threads :
      /\ ret[t] # None =>
           \/ pc[t] = "return"
           \/ pc[t] \in {"count", "unlock"} /\ op[t] \in {"remove", "wait_remove"}
      /\ pc[t] = "count" /\ op[t] = "add" => value[chain[Len(chain)]] = arg[t]

Held == Values \cup {None} \cup Int

(* Every step keeps what the refinement needs about answers and new nodes. *)
LEMMA ResultsInv == IInv /\ Results /\ [Next]_vars => Results'
<1> SUFFICES ASSUME IInv, Results, [Next]_vars PROVE Results'
  OBVIOUS
<1> USE DEF IInv
<1>0. chain \in Seq(Nodes) /\ Len(chain) \in Nat
  BY DEF TypeOK
<1>1. ASSUME NEW t \in Threads, AddLink(t) PROVE Results'
  <2>1. PICK n \in Nodes \ allocated :
          /\ value' = [value EXCEPT ![n] = arg[t]]
          /\ chain' = Append(chain, n)
          /\ LinkFirst(t, n) \/ LinkLast(t, n)
    BY <1>1 DEF AddLink
  <2>2. value'[chain'[Len(chain')]] = arg[t]
    BY <2>1, <1>0 DEF TypeOK
  <2>3. /\ pc[t] = "locked" /\ op[t] = "add" /\ lock = t
        /\ UNCHANGED frame
    BY <1>1 DEF AddLink, MutualExclusion, Critical
  <2>4. \A u \in Threads : u # t => \/ pc'[u] = pc[u]
                                    \/ pc[u] = "asleep" /\ pc'[u] = "relock"
    BY <2>1 DEF LinkFirst, LinkLast, Signal, Goto, TypeOK, Sleepers
  <2> QED
    BY <2>2, <2>3, <2>4 DEF Results, frame, MutualExclusion, Critical
<1>2. ASSUME NEW t \in Threads, Take(t) PROVE Results'
  BY <1>2 DEF Take, Goto, Results, MutualExclusion, Critical, TypeOK
<1>3. ASSUME NEW t \in Threads, Call(t) \/ LockStep(t) \/ SpuriousWake(t)
      PROVE  Results'
  BY <1>3 DEF Results, TypeOK, Call, CallAdd, CallRemove, CallWaitRemove, CallLength,
       Enter, LockStep, Lock, Relock, SpuriousWake, Goto, fields, heap, frame
<1>4. ASSUME NEW t \in Threads,
             \/ Unlock(t) \/ AddCount(t) \/ RemoveEmpty(t) \/ RemoveCount(t)
             \/ CondWait(t) \/ ReadLength(t) \/ ReturnLength(t)
      PROVE  Results'
  BY <1>4 DEF Results, TypeOK, Unlock, AddCount, RemoveEmpty, RemoveCount, CondWait,
       ReadLength, ReturnLength, Goto, Leave, fields, heap, frame
<1>5. CASE Destructor
  <2>1. \A t \in Threads : pc[t] = "idle"
    BY <1>5 DEF Destructor, Destroy, FreeNode, Reset, Alone
  <2> QED
    BY <1>5, <2>1 DEF Destructor, Destroy, FreeNode, Reset, Results, frame
<1>6. CASE Finished \/ UNCHANGED vars
  BY <1>6 DEF Finished, vars, Results, frame, heap
<1> QED
  BY <1>1, <1>2, <1>3, <1>4, <1>5, <1>6 DEF Next, InsideStep

(* A value put in front of a sequence is its head. *)
LEMMA InFront ==
    ASSUME NEW v \in Held, NEW s \in Seq(Held)
    PROVE  LET r == <<v>> \o s IN
           /\ r \in Seq(Held)
           /\ Len(r) = Len(s) + 1
           /\ r[1] = v
           /\ \A i \in 1..Len(s) : r[i + 1] = s[i]
           /\ r # << >> /\ Head(r) = v /\ Tail(r) = s
<1> DEFINE one == <<v>>
           r == one \o s
<1>1. one \in Seq(Held) /\ Len(one) = 1 /\ one[1] = v /\ Len(s) \in Nat
  OBVIOUS
<1> HIDE DEF one
<1>2. /\ r \in Seq(Held)
      /\ Len(r) = Len(s) + 1
      /\ \A i \in 1..(Len(s) + 1) : r[i] = IF i <= 1 THEN one[i] ELSE s[i - 1]
  <2>1. /\ r \in Seq(Held)
        /\ Len(r) = Len(one) + Len(s)
        /\ \A i \in 1..(Len(one) + Len(s)) :
             r[i] = IF i <= Len(one) THEN one[i] ELSE s[i - Len(one)]
    BY <1>1, ConcatProperties
  <2>2. Len(one) + Len(s) = Len(s) + 1
    BY <1>1
  <2> HIDE DEF r
  <2> QED
    BY <1>1, <2>1, <2>2
<1> HIDE DEF r
<1>3. r[1] = v /\ \A i \in 1..Len(s) : r[i + 1] = s[i]
  BY <1>1, <1>2
<1>4. r # << >> /\ Head(r) = v
  BY <1>1, <1>2, <1>3
<1>5. /\ Tail(r) \in Seq(Held) /\ Len(Tail(r)) = Len(s)
      /\ \A i \in 1..Len(s) : Tail(r)[i] = r[i + 1]
  BY <1>1, <1>2, <1>4, HeadTailProperties
<1>6. Tail(r) = s
  BY <1>3, <1>5, SeqEqual
<1> QED
  BY <1>2, <1>3, <1>4, <1>6 DEF r, one

(* The values along a sequence of nodes are a sequence as long. *)
LEMMA MappedSeq ==
    ASSUME NEW c \in Seq(Nodes), NEW v \in [Nodes -> Values \cup {None}]
    PROVE  LET r == [i \in 1..Len(c) |-> v[c[i]]] IN
           /\ r \in Seq(Held)
           /\ Len(r) = Len(c)
           /\ \A i \in 1..Len(c) : r[i] = v[c[i]]
<1> DEFINE r == [i \in 1..Len(c) |-> v[c[i]]]
<1>1. Len(c) \in Nat /\ \A i \in 1..Len(c) : v[c[i]] \in Held
  BY DEF Held
<1>2. r \in [1..Len(c) -> Held]
  BY <1>1
<1>3. r \in Seq(Held)
  BY <1>1, <1>2, SeqDef
<1>4. Len(r) = Len(c)
  BY <1>1, <1>2, <1>3, LenProperties
<1> QED
  BY <1>3, <1>4

(* So are the values along the list. *)
LEMMA LinkedSeq ==
    ASSUME TypeOK
    PROVE  /\ Linked \in Seq(Held)
           /\ Len(chain) \in Nat
           /\ Len(Linked) = Len(chain)
           /\ \A i \in 1..Len(chain) : Linked[i] = value[chain[i]]
<1>1. chain \in Seq(Nodes) /\ value \in [Nodes -> Values \cup {None}] /\ Len(chain) \in Nat
  BY DEF TypeOK
<1> QED
  BY <1>1, MappedSeq DEF Linked

(* What the mutex holder's place says about the abstract queue. *)
LEMMA ContentsNow ==
    ASSUME IInv, dtor = "live"
    PROVE  /\ (\A t \in Threads : pc[t] # "count") => Contents = Linked
           /\ \A t \in Threads :
                /\ pc[t] \in {"locked", "unlock"} => Contents = Linked
                /\ pc[t] = "count" /\ op[t] = "add" =>
                     Contents = SubSeq(Linked, 1, Len(Linked) - 1)
                /\ pc[t] = "count" /\ op[t] # "add" =>
                     Contents = <<ret[t]>> \o Linked
<1> USE DEF IInv
<1>1. ASSUME lock = Nobody \/ pc[lock] # "count" PROVE Contents = Linked
  BY <1>1 DEF Contents, InFlight
<1>2. ASSUME NEW t \in Threads, pc[t] = "count"
      PROVE  /\ lock = t /\ InFlight = op[t] /\ op[t] # "none"
  <2>1. lock = t
    BY <1>2 DEF MutualExclusion, Critical
  <2>2. lock # Nobody
    BY <2>1
  <2>3. op[t] # "none"
    BY <1>2 DEF Places
  <2> QED
    BY <2>1, <2>2, <2>3, <1>2 DEF InFlight
<1>3. ASSUME NEW t \in Threads, pc[t] = "count", op[t] = "add"
      PROVE  Contents = SubSeq(Linked, 1, Len(Linked) - 1)
  BY <1>2, <1>3 DEF Contents
<1>4. ASSUME NEW t \in Threads, pc[t] = "count", op[t] # "add"
      PROVE  Contents = <<ret[t]>> \o Linked
  BY <1>2, <1>4 DEF Contents
<1>5. ASSUME NEW t \in Threads, pc[t] \in {"locked", "unlock"}
      PROVE  Contents = Linked
  BY <1>1, <1>5 DEF MutualExclusion, Critical
<1>6. ASSUME \A t \in Threads : pc[t] # "count" PROVE Contents = Linked
  BY <1>1, <1>6 DEF TypeOK
<1> QED
  BY <1>3, <1>4, <1>5, <1>6

(* length() is exact: at every instant the count is the abstract length. *)
LEMMA LengthIsExact ==
    ASSUME IInv, dtor = "live" PROVE queue_length = Len(Contents)
<1> USE DEF IInv
<1>1. /\ Linked \in Seq(Held) /\ Len(chain) \in Nat
      /\ Len(Linked) = Len(chain) /\ queue_length \in Nat
  BY LinkedSeq DEF TypeOK
<1>2. ASSUME NEW t \in Threads, pc[t] = "count", op[t] = "add"
      PROVE  queue_length = Len(Contents)
  <2>1. /\ queue_length = Len(chain) - 1
        /\ Contents = SubSeq(Linked, 1, Len(Linked) - 1)
    BY <1>2, ContentsNow DEF CountSeen
  <2> QED
    BY <2>1, <1>1
<1>3. ASSUME NEW t \in Threads, pc[t] = "count", op[t] # "add"
      PROVE  queue_length = Len(Contents)
  <2>1. /\ queue_length = Len(chain) + 1
        /\ Contents = <<ret[t]>> \o Linked
    BY <1>3, ContentsNow DEF CountSeen
  <2>2. ret[t] \in Held
    BY DEF TypeOK, Held
  <2>3. <<ret[t]>> \in Seq(Held) /\ Len(<<ret[t]>>) = 1
    BY <2>2
  <2> QED
    BY <2>1, <2>3, <1>1, ConcatProperties
<1>4. CASE \A t \in Threads : pc[t] # "count"
  <2>1. Contents = Linked
    BY <1>4, ContentsNow
  <2>2. queue_length = Len(chain)
    BY <1>4 DEF CountSeen, MutualExclusion, Critical, TypeOK
  <2> QED
    BY <2>1, <2>2, <1>1
<1> QED
  BY <1>2, <1>3, <1>4

(* What a step has to show to be the abstract step A or a stutter. *)
LEMMA InvokeStep ==
    ASSUME IInv, Results, NEW t \in Threads, NEW o \in Operations, NEW v, NEW l,
           \/ o = "add" /\ v \in Values /\ l = "lock"
           \/ o \in {"remove", "wait_remove"} /\ v = None /\ l = "lock"
           \/ o = "length" /\ v = None /\ l = "read",
           Enter(t, o, v, l)
    PROVE  Fifo!Next /\ Contents' = Contents
<1> USE DEF IInv
<1>1. /\ dtor = "live" /\ pc[t] = "idle" /\ <<t, o>> \in Calls
      /\ op' = [op EXCEPT ![t] = o]
      /\ arg' = [arg EXCEPT ![t] = v]
      /\ pc' = [pc EXCEPT ![t] = l]
      /\ UNCHANGED <<fields, lock, heap, ret, dtor, cursor>>
  BY DEF Enter, Goto
<1>2. Phase[t] = "idle" /\ Phase' = [Phase EXCEPT ![t] = "called"]
  BY <1>1 DEF Phase, TypeOK
<1>3. Answer' = Answer
  BY <1>1 DEF Answer, Phase, TypeOK
<1>4. Contents' = Contents
  <2>1. lock # t
    BY <1>1 DEF MutualExclusion, Critical
  <2>2. InFlight' = InFlight /\ Linked' = Linked
    BY <1>1, <2>1 DEF InFlight, Linked, heap, TypeOK
  <2> QED
    BY <1>1, <2>2 DEF Contents
<1>5. Fifo!Invoke(t, o, v)
  BY <1>1, <1>2, <1>3, <1>4 DEF Fifo!Invoke
<1> QED
  BY <1>4, <1>5 DEF Fifo!Next

(* A call that starts is the abstract queue's, and leaves its contents. *)
LEMMA CallStep ==
    ASSUME IInv, Results, NEW t \in Threads, Call(t) PROVE Fifo!Next /\ Contents' = Contents
<1>1. ASSUME NEW v \in Values, CallAdd(t, v) PROVE Fifo!Next /\ Contents' = Contents
  BY <1>1, InvokeStep DEF CallAdd, Operations
<1>2. CASE CallRemove(t)
  BY <1>2, InvokeStep DEF CallRemove, Operations
<1>3. CASE CallWaitRemove(t)
  BY <1>3, InvokeStep DEF CallWaitRemove, Operations
<1>4. CASE CallLength(t)
  BY <1>4, InvokeStep DEF CallLength, Operations
<1> QED
  BY <1>1, <1>2, <1>3, <1>4 DEF Call

(* Getting the mutex, giving it up to sleep, waking up: nothing happens to *)
(* the abstract queue.                                                     *)
LEMMA WaitingStep ==
    ASSUME IInv, Results, NEW t \in Threads,
           LockStep(t) \/ CondWait(t) \/ SpuriousWake(t)
    PROVE  UNCHANGED Fifo!avars
<1> USE DEF IInv
<1>1. /\ UNCHANGED <<fields, heap, frame, dtor, cursor>>
      /\ \A u \in Threads : u # t => pc'[u] = pc[u]
      /\ pc[t] \in {"lock", "locked", "relock", "asleep"}
      /\ pc'[t] \in {"asleep", "relock", "locked"}
  BY DEF LockStep, Lock, Relock, CondWait, SpuriousWake, Goto, TypeOK
<1>2. Phase' = Phase /\ Answer' = Answer
  BY <1>1 DEF Phase, Answer, frame
<1>3. Contents' = Contents
  <2>1. InFlight' = InFlight
    <3>1. CASE Lock(t) \/ Relock(t)
      BY <3>1 DEF Lock, Relock, Goto, InFlight, TypeOK
    <3>2. CASE CondWait(t)
      BY <3>2 DEF CondWait, Goto, InFlight, TypeOK, MutualExclusion, Critical
    <3>3. CASE SpuriousWake(t)
      BY <3>3 DEF SpuriousWake, Goto, InFlight, TypeOK, frame
    <3> QED
      BY <3>1, <3>2, <3>3 DEF LockStep
  <2>2. Linked' = Linked
    BY <1>1 DEF Linked, heap
  <2>3. InFlight \in {"none", "add"} \/ lock' = lock
    BY DEF LockStep, Lock, Relock, CondWait, SpuriousWake, InFlight, MutualExclusion, Critical
  <2> QED
    BY <1>1, <2>1, <2>2, <2>3 DEF Contents, frame
<1> QED
  BY <1>1, <1>2, <1>3 DEF Fifo!avars, frame

(* A linked node is not in the queue before it is counted. *)
LEMMA AddLinkStep ==
    ASSUME IInv, Results, NEW t \in Threads, AddLink(t), IInv'
    PROVE  UNCHANGED Fifo!avars
<1>1. PICK n \in Nodes \ allocated :
        /\ value' = [value EXCEPT ![n] = arg[t]]
        /\ chain' = Append(chain, n)
        /\ LinkFirst(t, n) \/ LinkLast(t, n)
  BY DEF AddLink
<1>2. /\ pc[t] = "locked" /\ op[t] = "add" /\ dtor = "live"
      /\ op' = op /\ arg' = arg /\ ret' = ret /\ dtor' = dtor
  BY DEF AddLink, frame, IInv, Alone
<1>3. /\ pc'[t] = "count"
      /\ \A u \in Threads : u # t => \/ pc'[u] = pc[u]
                                     \/ pc[u] = "asleep" /\ pc'[u] = "relock"
  BY <1>1 DEF LinkFirst, LinkLast, Signal, Goto, TypeOK, Sleepers, IInv
<1>4. Phase' = Phase /\ Answer' = Answer
  BY <1>2, <1>3 DEF Phase, Answer
<1>5. /\ Contents = Linked
      /\ Contents' = SubSeq(Linked', 1, Len(Linked') - 1)
  <2>1. Contents = Linked
    BY <1>2, ContentsNow
  <2>3. InFlight' = "add"
    BY <1>2, <1>3 DEF InFlight, IInv, MutualExclusion, Critical
  <2> QED
    BY <2>1, <2>3, <1>2 DEF Contents
<1>6. /\ Linked \in Seq(Held) /\ Len(chain) \in Nat /\ Len(Linked) = Len(chain)
      /\ \A i \in 1..Len(chain) : Linked[i] = value[chain[i]]
  BY LinkedSeq DEF IInv
<1>7. /\ Linked' \in Seq(Held) /\ Len(Linked') = Len(chain')
      /\ \A i \in 1..Len(chain') : Linked'[i] = value'[chain'[i]]
  <2>1. chain' \in Seq(Nodes) /\ value' \in [Nodes -> Values \cup {None}]
    BY DEF IInv, TypeOK
  <2> QED
    BY <2>1, MappedSeq DEF Linked
<1>8. /\ Len(chain') = Len(chain) + 1
      /\ \A i \in 1..Len(chain) : chain'[i] = chain[i] /\ chain[i] # n /\ chain[i] \in Nodes
  BY <1>1, <1>6 DEF IInv, TypeOK, HeapShape
<1>9. \A i \in 1..Len(chain) : Linked'[i] = Linked[i]
  BY <1>1, <1>6, <1>7, <1>8 DEF IInv, TypeOK
<1>10. SubSeq(Linked', 1, Len(Linked') - 1) = Linked
  BY <1>6, <1>7, <1>8, <1>9, SubSeqProperties, SeqEqual
<1> QED
  BY <1>2, <1>4, <1>5, <1>10 DEF Fifo!avars

(* The list loses its first node before the count: the value is still in  *)
(* the queue until then.                                                   *)
LEMMA TakeStep ==
    ASSUME IInv, Results, NEW t \in Threads, Take(t), IInv'
    PROVE  UNCHANGED Fifo!avars
<1>1. /\ pc[t] = "locked" /\ op[t] \in {"remove", "wait_remove"}
      /\ queue_length # 0
      /\ ret' = [ret EXCEPT ![t] = value[head]]
      /\ chain' = Tail(chain)
      /\ pc' = [pc EXCEPT ![t] = "count"]
      /\ UNCHANGED <<value, lock, op, arg, dtor>>
  BY DEF Take, Goto
<1>2. /\ dtor = "live" /\ lock = t /\ queue_length = Len(chain) /\ t # Nobody
      /\ head = chain[1] /\ chain \in Seq(Nodes) /\ chain # << >>
      /\ value \in [Nodes -> Values \cup {None}]
  BY <1>1 DEF IInv, Alone, MutualExclusion, Critical, CountSeen, TypeOK, HeapShape
<1>3. Phase' = Phase /\ Answer' = Answer
  BY <1>1 DEF Phase, Answer, IInv, TypeOK
<1>4. Contents = Linked
  BY <1>1, <1>2, ContentsNow
<1>5. Contents' = <<value[chain[1]]>> \o Linked'
  BY <1>1, <1>2 DEF Contents, InFlight, IInv, TypeOK
<1>6. /\ Linked \in Seq(Held) /\ Len(Linked) = Len(chain)
      /\ \A i \in 1..Len(chain) : Linked[i] = value[chain[i]]
  BY LinkedSeq DEF IInv
<1>7. /\ chain' \in Seq(Nodes)
      /\ Len(chain') = Len(chain) - 1
      /\ Len(chain) \in Nat /\ Len(chain) >= 1
      /\ \A i \in 1..Len(chain') : chain'[i] = chain[i + 1]
  BY <1>1, <1>2
<1>8. /\ Linked' \in Seq(Held) /\ Len(Linked') = Len(chain')
      /\ \A i \in 1..Len(chain') : Linked'[i] = value[chain[i + 1]]
  BY <1>1, <1>2, <1>7, MappedSeq DEF Linked
<1>9. <<value[chain[1]]>> \o Linked' = Linked
  <2>1. value[chain[1]] \in Held
    BY <1>6, <1>7
  <2> DEFINE r == <<value[chain[1]]>> \o Linked'
  <2>2. /\ r \in Seq(Held) /\ Len(r) = Len(Linked)
        /\ r[1] = value[chain[1]]
        /\ \A i \in 1..Len(Linked') : r[i + 1] = Linked'[i]
    BY <2>1, <1>6, <1>7, <1>8, InFront
  <2> HIDE DEF r
  <2>3. ASSUME NEW i \in 1..Len(Linked) PROVE r[i] = Linked[i]
    <3>1. CASE i = 1
      BY <3>1, <2>2, <1>6
    <3>2. CASE i # 1
      <4>1. i - 1 \in 1..Len(Linked') /\ (i - 1) + 1 = i
        BY <3>2, <1>6, <1>7, <1>8
      <4>2. r[(i - 1) + 1] = Linked'[i - 1]
        BY <4>1, <2>2
      <4>3. i - 1 \in 1..Len(chain') /\ i \in 1..Len(chain)
        BY <4>1, <1>6, <1>8
      <4>4. Linked'[i - 1] = value[chain[(i - 1) + 1]]
        BY <4>3, <1>8
      <4> QED
        BY <4>1, <4>2, <4>3, <4>4, <1>6
    <3> QED
      BY <3>1, <3>2
  <2> QED
    BY <2>2, <2>3, <1>6, SeqEqual DEF r
<1> QED
  BY <1>1, <1>3, <1>4, <1>5, <1>9 DEF Fifo!avars

(* The update of the count is the instant at which an add happens ... *)
LEMMA AddCountStep ==
    ASSUME IInv, Results, NEW t \in Threads, AddCount(t)
    PROVE  Fifo!Next /\ Contents' = Append(Contents, arg[t])
<1>1. /\ pc[t] = "count" /\ op[t] = "add" /\ dtor = "live"
      /\ queue_length' = queue_length + 1
      /\ pc' = [pc EXCEPT ![t] = "unlock"]
      /\ UNCHANGED <<lock, chain, value, op, arg, ret, dtor>>
  BY DEF AddCount, Goto, heap, frame, IInv, Alone
<1>2. /\ queue_length = Len(chain) - 1 /\ queue_length \in Nat
      /\ lock = t
      /\ value[chain[Len(chain)]] = arg[t]
      /\ ret[t] = None
  BY <1>1 DEF IInv, CountSeen, TypeOK, MutualExclusion, Critical, Results
<1>3. /\ Linked \in Seq(Held) /\ Len(chain) \in Nat /\ Len(Linked) = Len(chain)
      /\ Linked' = Linked
      /\ \A i \in 1..Len(chain) : Linked[i] = value[chain[i]]
  BY <1>1, LinkedSeq DEF IInv, Linked
<1>4. Phase[t] = "called" /\ Phase' = [Phase EXCEPT ![t] = "done"]
  BY <1>1 DEF Phase, IInv, TypeOK
<1>5. Answer' = Answer
  BY <1>1, <1>2 DEF Answer, Phase, IInv, TypeOK
<1>6. Contents = SubSeq(Linked, 1, Len(Linked) - 1)
  BY <1>1, ContentsNow
<1>7. Contents' = Linked
  BY <1>1, <1>2, <1>3 DEF Contents, InFlight, IInv, TypeOK
<1>8. Linked = Append(SubSeq(Linked, 1, Len(Linked) - 1), arg[t])
  <2> DEFINE s == SubSeq(Linked, 1, Len(Linked) - 1)
  <2>1. /\ s \in Seq(Held) /\ Len(s) = Len(Linked) - 1
        /\ \A i \in 1..(Len(Linked) - 1) : s[i] = Linked[i]
    BY <1>2, <1>3, SubSeqProperties
  <2>2. arg[t] \in Held /\ arg[t] = Linked[Len(Linked)]
    BY <1>2, <1>3 DEF IInv, TypeOK, Held
  <2> HIDE DEF s
  <2>3. /\ Append(s, arg[t]) \in Seq(Held)
        /\ Len(Append(s, arg[t])) = Len(Linked)
        /\ \A i \in 1..Len(Linked) : Append(s, arg[t])[i] = Linked[i]
    BY <2>1, <2>2, <1>2, <1>3
  <2> QED
    BY <2>3, <1>3, SeqEqual DEF s
<1>9. Fifo!Add(t)
  BY <1>1, <1>4, <1>5, <1>6, <1>7, <1>8 DEF Fifo!Add, Fifo!Done
<1> QED
  BY <1>6, <1>7, <1>8, <1>9 DEF Fifo!Next

(* ... and a removal. *)
LEMMA RemoveCountStep ==
    ASSUME IInv, Results, NEW t \in Threads, RemoveCount(t)
    PROVE  /\ Fifo!Next
           /\ Contents # << >> /\ ret[t] = Head(Contents) /\ Contents' = Tail(Contents)
<1>1. /\ pc[t] = "count" /\ op[t] \in {"remove", "wait_remove"} /\ dtor = "live"
      /\ pc' = [pc EXCEPT ![t] = "unlock"]
      /\ UNCHANGED <<lock, chain, value, op, arg, ret, dtor>>
  BY DEF RemoveCount, Goto, heap, frame, IInv, Alone
<1>2. lock = t
  BY <1>1 DEF IInv, MutualExclusion, Critical
<1>3. /\ Linked \in Seq(Held) /\ Linked' = Linked
      /\ ret[t] \in Held
  BY <1>1, LinkedSeq DEF IInv, Linked, TypeOK, Held
<1>4. Phase[t] = "called" /\ Phase' = [Phase EXCEPT ![t] = "done"]
  BY <1>1 DEF Phase, IInv, TypeOK
<1>5. Answer' = [Answer EXCEPT ![t] = ret[t]]
  BY <1>1 DEF Answer, Phase, IInv, TypeOK
<1>6. Contents = <<ret[t]>> \o Linked
  BY <1>1, ContentsNow
<1>7. Contents' = Linked
  BY <1>1, <1>2, <1>3 DEF Contents, InFlight, IInv, TypeOK
<1>8. Contents # << >> /\ Head(Contents) = ret[t] /\ Tail(Contents) = Linked
  BY <1>3, <1>6, InFront
<1>9. Fifo!Take(t, op[t])
  BY <1>1, <1>4, <1>5, <1>7, <1>8 DEF Fifo!Take, Fifo!Done
<1> QED
  BY <1>1, <1>7, <1>8, <1>9 DEF Fifo!Next

(* The operations that find their answer under the mutex without changing  *)
(* the list, or read the count without the mutex.                          *)
LEMMA RemoveEmptyStep ==
    ASSUME IInv, Results, NEW t \in Threads, RemoveEmpty(t) PROVE Fifo!Next /\ Contents' = Contents
<1>1. /\ pc[t] = "locked" /\ op[t] = "remove" /\ dtor = "live"
      /\ queue_length = 0
      /\ pc' = [pc EXCEPT ![t] = "unlock"]
      /\ UNCHANGED <<lock, chain, value, op, arg, ret, dtor>>
  BY DEF RemoveEmpty, Goto, heap, frame, IInv, Alone
<1>2. lock = t /\ ret[t] = None
  BY <1>1 DEF IInv, MutualExclusion, Critical, Results
<1>3. Phase[t] = "called" /\ Phase' = [Phase EXCEPT ![t] = "done"]
  BY <1>1 DEF Phase, IInv, TypeOK
<1>4. Answer' = Answer
  BY <1>1, <1>2 DEF Answer, Phase, IInv, TypeOK
<1>5. Contents = Linked /\ Contents' = Linked
  <2>1. Contents = Linked
    BY <1>1, ContentsNow
  <2>2. Contents' = Linked
    BY <1>1, <1>2 DEF Contents, InFlight, IInv, TypeOK, Linked
  <2> QED
    BY <2>1, <2>2
<1>6. Linked = << >>
  BY <1>1, <1>5, LengthIsExact, LinkedSeq, EmptySeq DEF IInv
<1>7. Fifo!RemoveEmpty(t)
  BY <1>1, <1>3, <1>4, <1>5, <1>6 DEF Fifo!RemoveEmpty, Fifo!Done
<1> QED
  BY <1>5, <1>7 DEF Fifo!Next

(* Reading queue_length is an abstract step that leaves the contents. *)
LEMMA ReadLengthStep ==
    ASSUME IInv, Results, NEW t \in Threads, ReadLength(t) PROVE Fifo!Next /\ Contents' = Contents
<1>1. /\ pc[t] = "read" /\ op[t] = "length" /\ dtor = "live"
      /\ ret' = [ret EXCEPT ![t] = queue_length]
      /\ pc' = [pc EXCEPT ![t] = "return"]
      /\ UNCHANGED <<lock, chain, value, op, arg, dtor>>
  BY DEF ReadLength, Goto, heap, IInv, Alone, Places
<1>2. lock # t
  BY <1>1 DEF IInv, MutualExclusion, Critical
<1>3. Phase[t] = "called" /\ Phase' = [Phase EXCEPT ![t] = "done"]
  BY <1>1 DEF Phase, IInv, TypeOK
<1>4. queue_length = Len(Contents)
  BY <1>1, LengthIsExact
<1>5. Answer' = [Answer EXCEPT ![t] = Len(Contents)]
  BY <1>1, <1>4 DEF Answer, Phase, IInv, TypeOK
<1>6. Contents' = Contents
  <2>1. InFlight' = InFlight /\ Linked' = Linked
    BY <1>1, <1>2 DEF InFlight, Linked, IInv, TypeOK
  <2>2. lock # Nobody => ret'[lock] = ret[lock]
    BY <1>1, <1>2 DEF IInv, TypeOK
  <2>3. CASE lock = Nobody
    BY <1>1, <2>1, <2>3 DEF Contents, InFlight
  <2> QED
    BY <1>1, <2>1, <2>2, <2>3 DEF Contents
<1>7. Fifo!Length(t)
  BY <1>1, <1>3, <1>5, <1>6 DEF Fifo!Length, Fifo!Done
<1> QED
  BY <1>6, <1>7 DEF Fifo!Next

(* Returning is an abstract step that leaves the contents. *)
LEMMA ReturnStep ==
    ASSUME IInv, Results, NEW t \in Threads, Unlock(t) \/ ReturnLength(t)
    PROVE  Fifo!Next /\ Contents' = Contents
<1>1. /\ pc[t] \in {"unlock", "return"} /\ dtor = "live"
      /\ op' = [op EXCEPT ![t] = "none"]
      /\ arg' = [arg EXCEPT ![t] = None]
      /\ ret' = [ret EXCEPT ![t] = None]
      /\ pc' = [pc EXCEPT ![t] = "idle"]
      /\ UNCHANGED <<chain, value, dtor>>
  BY DEF Unlock, ReturnLength, Goto, Leave, heap, IInv, Alone
<1>2. Phase[t] = "done" /\ Phase' = [Phase EXCEPT ![t] = "idle"]
  BY <1>1 DEF Phase, IInv, TypeOK
<1>3. Answer' = [Answer EXCEPT ![t] = None]
  BY <1>1 DEF Answer, Phase, IInv, TypeOK
<1>4. Contents' = Contents
  <2>1. Linked' = Linked
    BY <1>1 DEF Linked
  <2>2. CASE Unlock(t)
    <3>1. lock = t /\ lock' = Nobody
      BY <2>2 DEF Unlock, IInv, MutualExclusion, Critical
    <3>2. InFlight = "none" /\ InFlight' = "none"
      BY <2>2, <3>1 DEF Unlock, InFlight
    <3> QED
      BY <1>1, <2>1, <3>2 DEF Contents
  <2>3. CASE ReturnLength(t)
    <3>1. lock # t /\ lock' = lock
      BY <2>3 DEF ReturnLength, IInv, MutualExclusion, Critical
    <3>2. InFlight' = InFlight
      BY <1>1, <3>1 DEF InFlight, IInv, TypeOK
    <3>3. lock # Nobody => ret'[lock] = ret[lock]
      BY <1>1, <3>1 DEF IInv, TypeOK
    <3>4. CASE lock = Nobody
      BY <1>1, <2>1, <3>1, <3>2, <3>4 DEF Contents, InFlight
    <3> QED
      BY <1>1, <2>1, <3>1, <3>2, <3>3, <3>4 DEF Contents
  <2> QED
    BY <2>2, <2>3
<1>5. Fifo!Return(t)
  BY <1>1, <1>2, <1>3, <1>4 DEF Fifo!Return
<1> QED
  BY <1>4, <1>5 DEF Fifo!Next

(* The abstract queue is gone at once; the destructor's walk is silent. *)
LEMMA DestructorStep ==
    ASSUME IInv, Results, Destructor PROVE [Fifo!Next]_(Fifo!avars)
<1>1. /\ UNCHANGED <<op, arg, ret, pc>>
      /\ \A t \in Threads : pc[t] = "idle"
      /\ dtor' # "live"
  BY DEF Destructor, Destroy, FreeNode, Reset, frame, IInv, Alone
<1>2. Phase' = Phase /\ Answer' = Answer /\ Contents' = << >>
  BY <1>1 DEF Phase, Answer, Contents
<1>3. CASE Destroy
  <2>1. \A t \in Threads : Phase[t] = "idle"
    BY <1>1 DEF Phase
  <2>2. Fifo!Destroy
    BY <1>1, <1>2, <1>3, <2>1 DEF Fifo!Destroy, Destroy
  <2> QED
    BY <2>2 DEF Fifo!Next
<1>4. CASE FreeNode \/ Reset
  <2>1. dtor # "live"
    BY <1>4 DEF FreeNode, Reset
  <2>2. Contents = << >>
    BY <2>1 DEF Contents
  <2> QED
    BY <1>1, <1>2, <2>1, <2>2 DEF Fifo!avars
<1> QED
  BY <1>3, <1>4 DEF Destructor

(* The instants at which a call changes the queue, and no other: what the  *)
(* programs that use it rely on.                                           *)
LEMMA CallsTakeEffect ==
    ASSUME IInv, IInv', Results, NEW t \in Threads
    PROVE  /\ Call(t) \/ LockStep(t) => Contents' = Contents
           /\ InsideStep(t) /\ ~AddCount(t) /\ ~RemoveCount(t) => Contents' = Contents
           /\ AddCount(t) => Contents' = Append(Contents, arg[t])
           /\ RemoveCount(t) => /\ Contents # << >> /\ ret[t] = Head(Contents)
                               /\ Contents' = Tail(Contents)
<1>1. Call(t) \/ LockStep(t) => Contents' = Contents
  BY CallStep, WaitingStep DEF Fifo!avars
<1>2. ASSUME InsideStep(t), ~AddCount(t), ~RemoveCount(t) PROVE Contents' = Contents
  <2>1. CASE Unlock(t) \/ ReturnLength(t)
    BY <2>1, ReturnStep
  <2>2. CASE AddLink(t) \/ Take(t) \/ CondWait(t)
    BY <2>2, AddLinkStep, TakeStep, WaitingStep DEF Fifo!avars
  <2>3. CASE RemoveEmpty(t) \/ ReadLength(t)
    BY <2>3, RemoveEmptyStep, ReadLengthStep
  <2> QED
    BY <1>2, <2>1, <2>2, <2>3 DEF InsideStep
<1> QED
  BY <1>1, <1>2, AddCountStep, RemoveCountStep

(* At first the queue is empty and no call has an answer. *)
LEMMA EmptyAtFirst == Init => Results /\ Contents = << >>
<1>1. Init => Results
  BY DEF Init, Results
<1>2. ASSUME Init PROVE Contents = << >>
  <2>1. dtor = "live" /\ IInv /\ queue_length = 0 /\ \A t \in Threads : pc[t] # "count"
    BY <1>2, InitInv DEF Init
  <2>2. Contents = Linked /\ Len(Contents) = 0
    BY <2>1, ContentsNow, LengthIsExact
  <2> QED
    BY <2>1, <2>2, LinkedSeq, EmptySeq DEF IInv
<1> QED
  BY <1>1, <1>2

(* The list under its mutex implements the atomic first-in first-out queue *)
(* of FifoQueue, for any threads, values, nodes and calls: every operation *)
(* takes effect at one instant between its call and its return.            *)
THEOREM QueueIsFifo == Spec => IsFifoQueue
<1>1. Init => Results /\ Fifo!Init
  <2>1. Init => Results
    BY EmptyAtFirst
  <2>2. ASSUME Init PROVE Fifo!Init
    <3>1. Phase = [t \in Threads |-> "idle"] /\ Answer = [t \in Threads |-> None]
      BY <2>2 DEF Init, Phase, Answer
    <3>2. Contents = << >>
      BY <2>2, EmptyAtFirst
    <3> QED
      BY <2>2, <3>1, <3>2 DEF Init, Fifo!Init
  <2> QED
    BY <2>1, <2>2
<1>2. IInv /\ IInv' /\ Results /\ [Next]_vars => [Fifo!Next]_(Fifo!avars)
  <2> SUFFICES ASSUME IInv, IInv', Results, [Next]_vars
               PROVE  [Fifo!Next]_(Fifo!avars)
    OBVIOUS
  <2>1. ASSUME NEW t \in Threads, Call(t) \/ LockStep(t) \/ SpuriousWake(t)
        PROVE  [Fifo!Next]_(Fifo!avars)
    BY <2>1, CallStep, WaitingStep
  <2>2. ASSUME NEW t \in Threads, InsideStep(t)
        PROVE  [Fifo!Next]_(Fifo!avars)
    BY <2>2, ReturnStep, AddLinkStep, AddCountStep, RemoveEmptyStep, TakeStep,
       RemoveCountStep, WaitingStep, ReadLengthStep DEF InsideStep
  <2>3. CASE Destructor
    BY <2>3, DestructorStep
  <2>4. CASE Finished \/ UNCHANGED vars
    <3>1. UNCHANGED vars
      BY <2>4 DEF Finished
    <3>2. Contents' = Contents /\ Phase' = Phase /\ Answer' = Answer
      BY <3>1 DEF vars, heap, frame, Contents, InFlight, Linked, Phase, Answer
    <3> QED
      BY <3>1, <3>2 DEF Fifo!avars, vars, frame
  <2> QED
    BY <2>1, <2>2, <2>3, <2>4 DEF Next
<1>3. Spec => []Results
  BY <1>1, Inductive, ResultsInv, PTL DEF Spec
<1> QED
  BY <1>1, <1>2, <1>3, Inductive, PTL DEF Spec, IsFifoQueue, Fifo!Spec

(* The node and its fields, the count, the threads' frames and the         *)
(* destructor's cursor keep their types.                                   *)
THEOREM TypeCorrect == Spec => []TypeOK
<1>1. IInv => TypeOK
  BY DEF IInv
<1> QED
  BY <1>1, Inductive, PTL

(* The count is right wherever a decision is taken on it. *)
THEOREM CountIsRight == Spec => []CountMatches
BY CountFromSeen, Inductive, PTL
=============================================================================
