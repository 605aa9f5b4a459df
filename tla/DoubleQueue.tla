---------------------------- MODULE DoubleQueue ----------------------------
(***************************************************************************)
(* The queue of "hw2 -- Threads": a singly linked list under one mutex and *)
(* one condition variable.  A step is what one thread does between two     *)
(* points where another thread can notice: the critical sections are split *)
(* at the write of queue_length, because length() reads it without the     *)
(* mutex.                                                                  *)
(*                                                                         *)
(* `chain' is a history variable: the linked nodes in order.  No guard     *)
(* reads it.  An operator that stands before another one with a similar    *)
(* name (SignalNobody before Signal) is that one with a mistake: no action *)
(* uses it, and the properties have to refuse it.                          *)
(***************************************************************************)
EXTENDS Integers, Sequences, FiniteSets

CONSTANTS
    Threads,        \* the threads that share the queue
    Values,         \* the doubles they add
    Calls,          \* <<t, o>>: the program of thread t calls operation o
    Nodes,          \* the addresses operator new can return
    NULL,           \* nullptr
    Nobody,         \* the owner of an unlocked mutex
    None            \* no argument, or the answer "false" of remove

Operations == {"add", "remove", "wait_remove", "length"}

ASSUME QueueAssumption ==
    /\ Calls \subseteq Threads \X Operations
    /\ IsFiniteSet(Nodes)
    /\ NULL \notin Nodes
    /\ Nobody \notin Threads

VARIABLES
    queue_length, head, tail,   \* the fields of DoubleQueue
    lock,                       \* the owner of the mutex
    allocated,                  \* the nodes that are not free memory
    next, value,                \* the fields of QueueNode, per address
    op, pc, arg, ret,           \* the call each thread is inside of
    dtor,                       \* "live", "freeing" or "destroyed"
    cursor,                     \* currNode of the destructor
    chain

fields == <<queue_length, head, tail>>
heap   == <<allocated, next, value, chain>>
frame  == <<op, arg, ret>>
vars   == <<fields, lock, heap, frame, pc, dtor, cursor>>

Init ==
    /\ queue_length = 0 /\ head = NULL /\ tail = NULL
    /\ lock = Nobody
    /\ allocated = {} /\ chain = << >>
    /\ next \in [Nodes -> {NULL}]
    /\ value \in [Nodes -> {None}]
    /\ op = [t \in Threads |-> "none"]
    /\ pc = [t \in Threads |-> "idle"]
    /\ arg = [t \in Threads |-> None]
    /\ ret = [t \in Threads |-> None]
    /\ dtor = "live" /\ cursor = NULL

Goto(t, l) == pc' = [pc EXCEPT ![t] = l]

(* The threads blocked inside pthread_cond_wait. *)
Sleepers == {t \in Threads : pc[t] = "asleep"}

(***************************************************************************)
(* A thread enters an operation.  HeapRoom is the model's bound: the       *)
(* program adds only while a node is left for every add already under way, *)
(* so that operator new never fails.                                       *)
(***************************************************************************)
HeapRoom ==
    Cardinality(allocated)
      + Cardinality({t \in Threads : op[t] = "add" /\ pc[t] \in {"lock", "locked"}})
      < Cardinality(Nodes)

Enter(t, o, v, l) ==
    /\ dtor = "live"
    /\ pc[t] = "idle"
    /\ <<t, o>> \in Calls
    /\ op' = [op EXCEPT ![t] = o]
    /\ arg' = [arg EXCEPT ![t] = v]
    /\ Goto(t, l)
    /\ UNCHANGED <<fields, lock, heap, ret, dtor, cursor>>

CallAdd(t, v)     == HeapRoom /\ Enter(t, "add", v, "lock")
CallRemove(t)     == Enter(t, "remove", None, "lock")
CallWaitRemove(t) == Enter(t, "wait_remove", None, "lock")
CallLength(t)     == Enter(t, "length", None, "read")

Lock(t) ==
    /\ pc[t] = "lock"
    /\ lock = Nobody
    /\ lock' = t
    /\ Goto(t, "locked")
    /\ UNCHANGED <<fields, heap, frame, dtor, cursor>>

(* The call returns: its frame is gone. *)
Leave(t) ==
    /\ op' = [op EXCEPT ![t] = "none"]
    /\ arg' = [arg EXCEPT ![t] = None]
    /\ ret' = [ret EXCEPT ![t] = None]

Unlock(t) ==
    /\ pc[t] = "unlock"
    /\ lock' = Nobody
    /\ Goto(t, "idle")
    /\ Leave(t)
    /\ UNCHANGED <<fields, heap, dtor, cursor>>

----------------------------------------------------------------------------
(* DoubleQueue::add *)

(* pthread_cond_signal: wakes one sleeper, if there is one, which then has *)
(* to get the mutex back.                                                  *)
SignalNobody(t) == Goto(t, "count")

Signal(t) ==
    LET moved == [pc EXCEPT ![t] = "count"]
    IN  \/ /\ Sleepers = {}
           /\ pc' = moved
        \/ \E w \in Sleepers : pc' = [moved EXCEPT ![w] = "relock"]

LinkFirstOldTail(t, n) ==
    /\ queue_length = 0
    /\ head' = n
    /\ next' = [next EXCEPT ![n] = NULL]
    /\ UNCHANGED tail
    /\ Signal(t)

LinkFirst(t, n) ==
    /\ queue_length = 0
    /\ head' = n
    /\ tail' = n
    /\ next' = [next EXCEPT ![n] = NULL]
    /\ Signal(t)

LinkLastInFront(t, n) ==
    /\ queue_length # 0
    /\ next' = [next EXCEPT ![n] = head]
    /\ head' = n
    /\ UNCHANGED tail
    /\ Goto(t, "count")

LinkLast(t, n) ==
    /\ queue_length # 0
    /\ next' = [next EXCEPT ![n] = NULL, ![tail] = n]
    /\ tail' = n
    /\ UNCHANGED head
    /\ Goto(t, "count")

AddLink(t) ==
    /\ pc[t] = "locked" /\ op[t] = "add"
    /\ \E n \in Nodes \ allocated :
         /\ allocated' = allocated \cup {n}
         /\ value' = [value EXCEPT ![n] = arg[t]]
         /\ chain' = Append(chain, n)
         /\ LinkFirst(t, n) \/ LinkLast(t, n)
    /\ UNCHANGED <<queue_length, lock, frame, dtor, cursor>>

AddCount(t) ==
    /\ pc[t] = "count" /\ op[t] = "add"
    /\ queue_length' = queue_length + 1
    /\ Goto(t, "unlock")
    /\ UNCHANGED <<head, tail, lock, heap, frame, dtor, cursor>>

----------------------------------------------------------------------------
(* DoubleQueue::remove and DoubleQueue::wait_remove *)

RemoveEmpty(t) ==
    /\ pc[t] = "locked" /\ op[t] = "remove"
    /\ queue_length = 0
    /\ Goto(t, "unlock")
    /\ UNCHANGED <<fields, lock, heap, frame, dtor, cursor>>

(* The head node is read, freed and unlinked; tail is left alone, so after *)
(* the last element it keeps the address of freed memory.                  *)
Take(t) ==
    /\ pc[t] = "locked" /\ op[t] \in {"remove", "wait_remove"}
    /\ queue_length # 0
    /\ ret' = [ret EXCEPT ![t] = value[head]]
    /\ head' = next[head]
    /\ allocated' = allocated \ {head}
    /\ chain' = Tail(chain)
    /\ Goto(t, "count")
    /\ UNCHANGED <<queue_length, tail, next, value, lock, op, arg, dtor, cursor>>

RemoveCountTwice(t) ==
    /\ pc[t] = "count" /\ op[t] \in {"remove", "wait_remove"}
    /\ queue_length' = queue_length - 2
    /\ Goto(t, "unlock")
    /\ UNCHANGED <<head, tail, lock, heap, frame, dtor, cursor>>

RemoveCountNotWaiting(t) ==
    /\ pc[t] = "count" /\ op[t] \in {"remove", "wait_remove"}
    /\ queue_length' = IF op[t] = "remove" THEN queue_length - 1 ELSE queue_length
    /\ Goto(t, "unlock")
    /\ UNCHANGED <<head, tail, lock, heap, frame, dtor, cursor>>

RemoveCount(t) ==
    /\ pc[t] = "count" /\ op[t] \in {"remove", "wait_remove"}
    /\ queue_length' = queue_length - 1
    /\ Goto(t, "unlock")
    /\ UNCHANGED <<head, tail, lock, heap, frame, dtor, cursor>>

(* pthread_cond_wait releases the mutex and sleeps in one step ... *)
CondWait(t) ==
    /\ pc[t] = "locked" /\ op[t] = "wait_remove"
    /\ queue_length = 0
    /\ lock' = Nobody
    /\ Goto(t, "asleep")
    /\ UNCHANGED <<fields, heap, frame, dtor, cursor>>

(* ... may wake up without a signal ... *)
SpuriousWake(t) ==
    /\ pc[t] = "asleep"
    /\ Goto(t, "relock")
    /\ UNCHANGED <<fields, lock, heap, frame, dtor, cursor>>

(* ... and holds the mutex again when it returns to the loop's test. *)
Relock(t) ==
    /\ pc[t] = "relock"
    /\ lock = Nobody
    /\ lock' = t
    /\ Goto(t, "locked")
    /\ UNCHANGED <<fields, heap, frame, dtor, cursor>>

----------------------------------------------------------------------------
(* DoubleQueue::length: no mutex *)

ReadLength(t) ==
    /\ pc[t] = "read"
    /\ ret' = [ret EXCEPT ![t] = queue_length]
    /\ Goto(t, "return")
    /\ UNCHANGED <<fields, lock, heap, op, arg, dtor, cursor>>

ReturnLength(t) ==
    /\ pc[t] = "return"
    /\ Goto(t, "idle")
    /\ Leave(t)
    /\ UNCHANGED <<fields, lock, heap, dtor, cursor>>

----------------------------------------------------------------------------
(* DoubleQueue::~DoubleQueue, run by the owner when no thread is inside a  *)
(* call (numbers.cc deletes the queue after joining its threads).          *)

Destroy ==
    /\ dtor = "live"
    /\ \A t \in Threads : pc[t] = "idle"
    /\ dtor' = "freeing"
    /\ cursor' = IF queue_length # 0 THEN head ELSE NULL
    /\ UNCHANGED <<fields, lock, heap, frame, pc>>

FreeNode ==
    /\ dtor = "freeing" /\ cursor # NULL
    /\ cursor' = next[cursor]
    /\ next' = [next EXCEPT ![cursor] = NULL]
    /\ allocated' = allocated \ {cursor}
    /\ chain' = Tail(chain)
    /\ UNCHANGED <<fields, lock, value, frame, pc, dtor>>

Reset ==
    /\ dtor = "freeing" /\ cursor = NULL
    /\ dtor' = "destroyed"
    /\ queue_length' = 0 /\ head' = NULL /\ tail' = NULL
    /\ UNCHANGED <<lock, heap, frame, pc, cursor>>

----------------------------------------------------------------------------
LockStep(t) == Lock(t) \/ Relock(t)

InsideStep(t) ==
    \/ Unlock(t)
    \/ AddLink(t) \/ AddCount(t)
    \/ RemoveEmpty(t) \/ Take(t) \/ RemoveCount(t) \/ CondWait(t)
    \/ ReadLength(t) \/ ReturnLength(t)

Call(t) ==
    \/ \E v \in Values : CallAdd(t, v)
    \/ CallRemove(t) \/ CallWaitRemove(t) \/ CallLength(t)

Destructor == Destroy \/ FreeNode \/ Reset

(* After the destructor nothing is left to do: not a deadlock. *)
Finished == dtor = "destroyed" /\ UNCHANGED vars

Next ==
    \/ \E t \in Threads :
         Call(t) \/ LockStep(t) \/ InsideStep(t) \/ SpuriousWake(t)
    \/ Destructor
    \/ Finished

Spec == Init /\ [][Next]_vars

(* A thread that can go on does: the scheduler runs every thread, and one  *)
(* that asks for the mutex again and again while others take turns with it *)
(* gets it in the end.  Nothing makes a program call, and nothing makes a  *)
(* sleeper wake without a signal.                                          *)
Fairness == \A t \in Threads : SF_vars(LockStep(t)) /\ WF_vars(InsideStep(t))

FairSpec == Spec /\ Fairness

----------------------------------------------------------------------------
Critical(t) == pc[t] \in {"locked", "count", "unlock"}

InFlight == IF lock # Nobody /\ pc[lock] = "count" THEN op[lock] ELSE "none"

TypeOK ==
    /\ queue_length \in Nat
    /\ head \in Nodes \cup {NULL}
    /\ tail \in Nodes \cup {NULL}
    /\ lock \in Threads \cup {Nobody}
    /\ allocated \subseteq Nodes
    /\ chain \in Seq(Nodes)
    /\ next \in [Nodes -> Nodes \cup {NULL}]
    /\ value \in [Nodes -> Values \cup {None}]
    /\ op \in [Threads -> Operations \cup {"none"}]
    /\ pc \in [Threads -> {"idle", "lock", "locked", "count", "unlock",
                           "asleep", "relock", "read", "return"}]
    /\ arg \in [Threads -> Values \cup {None}]
    /\ ret \in [Threads -> Values \cup {None} \cup Int]
    /\ dtor \in {"live", "freeing", "destroyed"}
    /\ cursor \in Nodes \cup {NULL}

(* The memory is exactly one list: distinct nodes, each pointing to the    *)
(* next, from head (from the destructor's cursor once it runs) to a node   *)
(* whose next is null; every allocated node is on it, so nothing leaks and *)
(* nothing is freed twice; tail is its last node whenever add may follow   *)
(* it, whatever freed address remove left there before.                    *)
HeapShape ==
    LET first == IF dtor = "live" THEN head ELSE cursor
        len   == Len(chain)
    IN  /\ allocated = {chain[i] : i \in 1..len}
        /\ \A i, j \in 1..len : chain[i] = chain[j] => i = j
        /\ \A i \in 1..len : next[chain[i]] = IF i = len THEN NULL ELSE chain[i + 1]
        /\ first = (IF len = 0 THEN NULL ELSE chain[1])
        /\ dtor = "live" /\ len # 0 => tail = chain[len]

(* queue_length counts the linked nodes, except in the one step between a  *)
(* change of the list and the update of the count: what every test for     *)
(* emptiness inside the mutex relies on.                                   *)
CountMatches ==
    dtor = "live" =>
      queue_length = CASE InFlight = "none" -> Len(chain)
                       [] InFlight = "add"  -> Len(chain) - 1
                       [] OTHER             -> Len(chain) + 1

(* Between pthread_mutex_lock and pthread_mutex_unlock a thread is alone,  *)
(* also when it gets the mutex back from pthread_cond_wait.                *)
MutualExclusion == \A t \in Threads : Critical(t) <=> lock = t

(* With one thread that calls wait_remove, it never sleeps while a node is *)
(* in the list: the signal on the change from empty to non-empty is        *)
(* enough, whoever else removes, and also when it is woken for nothing.    *)
OneWaiter ==
    \A t, u \in Threads :
      <<t, "wait_remove">> \in Calls /\ <<u, "wait_remove">> \in Calls => t = u

NoSleepOverElements == OneWaiter => (Sleepers # {} => chain = << >>)

(* The destructor gives back every node, however many were left. *)
NothingLeaks == dtor = "destroyed" => allocated = {}

----------------------------------------------------------------------------
(* Refinement: the values a caller can still get, oldest first.  A call    *)
(* takes effect when it updates queue_length (or finds it 0).              *)
Linked == [i \in 1..Len(chain) |-> value[chain[i]]]

Contents ==
    CASE dtor # "live"     -> << >>
      [] InFlight = "none" /\ dtor = "live" -> Linked
      [] InFlight = "add"  /\ dtor = "live" -> SubSeq(Linked, 1, Len(Linked) - 1)
      [] OTHER             -> <<ret[lock]>> \o Linked

Phase == [t \in Threads |->
            CASE pc[t] = "idle"                -> "idle"
              [] pc[t] \in {"unlock", "return"} -> "done"
              [] OTHER                         -> "called"]

Answer == [t \in Threads |-> IF Phase[t] = "done" THEN ret[t] ELSE None]

Fifo == INSTANCE FifoQueue
          WITH q <- Contents, live <- (dtor = "live"), phase <- Phase, ret <- Answer

(* Every behaviour of the threads on the list is one of atomic operations  *)
(* on a FIFO queue: no value is lost, duplicated, invented or overtaken,   *)
(* and even length(), read without the mutex, is an exact length of some   *)
(* instant of the call.                                                    *)
IsFifoQueue == Fifo!Spec

----------------------------------------------------------------------------
(* "if there is no double in the queue, calling thread will block or spin  *)
(* until there is one available" (DoubleQueue.h): a thread does not stay   *)
(* asleep in wait_remove while the queue stays non-empty.                  *)
SleepersAreWoken ==
    \A t \in Threads :
      (pc[t] = "asleep" /\ queue_length > 0) ~> (pc[t] # "asleep" \/ queue_length = 0)

(* A wait_remove that has been called returns once there is something in   *)
(* the queue, unless other removers empty it first.                        *)
WaitRemoveReturns ==
    \A t \in Threads :
      (op[t] = "wait_remove" /\ chain # << >>) ~> (op[t] = "none" \/ chain = << >>)
=============================================================================
