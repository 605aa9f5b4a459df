----------------------------- MODULE FifoQueue -----------------------------
(***************************************************************************)
(* What a DoubleQueue promises its callers: every call takes effect at one *)
(* instant between its invocation and its return, on a first-in first-out  *)
(* sequence of values.  remove answers None on an empty queue, wait_remove *)
(* takes effect only on a non-empty one, length answers the exact length.  *)
(* No thread owns anything and nothing is allocated here.                  *)
(***************************************************************************)
EXTENDS Naturals, Sequences

CONSTANTS
    Threads,        \* the threads that share the queue
    Values,         \* the doubles they add
    Calls,          \* <<t, o>>: thread t may call operation o
    None            \* no argument, or the answer "false" of remove

VARIABLES
    q,              \* the values in the queue, oldest first
    live,           \* the queue has not been destroyed
    op,             \* the operation each thread is inside of, or "none"
    phase,          \* "idle", "called" (not yet effective) or "done"
    arg,            \* the value passed to add
    ret             \* the answer, once the call is done

avars == <<q, live, op, phase, arg, ret>>

Init ==
    /\ q = << >>
    /\ live = TRUE
    /\ op = [t \in Threads |-> "none"]
    /\ phase = [t \in Threads |-> "idle"]
    /\ arg = [t \in Threads |-> None]
    /\ ret = [t \in Threads |-> None]

Invoke(t, o, v) ==
    /\ live
    /\ phase[t] = "idle"
    /\ <<t, o>> \in Calls
    /\ op' = [op EXCEPT ![t] = o]
    /\ phase' = [phase EXCEPT ![t] = "called"]
    /\ arg' = [arg EXCEPT ![t] = v]
    /\ UNCHANGED <<q, live, ret>>

Done(t, o) ==
    /\ op[t] = o
    /\ phase[t] = "called"
    /\ phase' = [phase EXCEPT ![t] = "done"]
    /\ UNCHANGED <<live, op, arg>>

Add(t) ==
    /\ Done(t, "add")
    /\ q' = Append(q, arg[t])
    /\ UNCHANGED ret

Take(t, o) ==
    /\ Done(t, o)
    /\ q # << >>
    /\ ret' = [ret EXCEPT ![t] = Head(q)]
    /\ q' = Tail(q)

RemoveEmpty(t) ==
    /\ Done(t, "remove")
    /\ q = << >>
    /\ UNCHANGED <<q, ret>>

Length(t) ==
    /\ Done(t, "length")
    /\ ret' = [ret EXCEPT ![t] = Len(q)]
    /\ UNCHANGED q

Return(t) ==
    /\ phase[t] = "done"
    /\ op' = [op EXCEPT ![t] = "none"]
    /\ phase' = [phase EXCEPT ![t] = "idle"]
    /\ arg' = [arg EXCEPT ![t] = None]
    /\ ret' = [ret EXCEPT ![t] = None]
    /\ UNCHANGED <<q, live>>

Destroy ==
    /\ live
    /\ \A t \in Threads : phase[t] = "idle"
    /\ live' = FALSE
    /\ q' = << >>
    /\ UNCHANGED <<op, phase, arg, ret>>

Next ==
    \/ \E t \in Threads :
         \/ \E v \in Values : Invoke(t, "add", v)
         \/ \E o \in {"remove", "wait_remove", "length"} : Invoke(t, o, None)
         \/ Add(t) \/ Take(t, "remove") \/ Take(t, "wait_remove")
         \/ RemoveEmpty(t) \/ Length(t) \/ Return(t)
    \/ Destroy

Spec == Init /\ [][Next]_avars
=============================================================================
