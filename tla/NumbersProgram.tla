--------------------------- MODULE NumbersProgram ---------------------------
(***************************************************************************)
(* numbers.cc: one thread reads numbers from cin into a DoubleQueue, one   *)
(* polls the queue and prints statistics, main joins both.  The queue is   *)
(* DoubleQueue with these two threads, at the grain of its own module; a   *)
(* second mutex, `lock' in the program and eof_lock here, guards is_EOF.   *)
(*                                                                         *)
(* ReadFailsForGood, PollForEver and JoinNobody are the actions that       *)
(* follow them with a mistake; nothing uses them, and the properties have  *)
(* to refuse them.                                                         *)
(***************************************************************************)
EXTENDS Integers, Sequences, SequencesExt, FiniteSets

CONSTANTS
    Reader, Printer,    \* the threads read_nums_thread and print_nums_thread
    Inputs,             \* the standard inputs considered: token sequences
    NL, Bad,            \* newline, unreadable word
    Nodes, NULL, Nobody, None

ASSUME NumbersAssumption ==
    /\ Reader # Printer /\ Nobody \notin {Reader, Printer}
    /\ IsFiniteSet(Nodes) /\ NULL \notin Nodes
    /\ NL # Bad /\ {NL, Bad, None} \cap Int = {}
    /\ Inputs \subseteq Seq(Int \cup {NL, Bad})

VARIABLES
    queue_length, head, tail, lock, allocated, next, value,
    op, pc, arg, ret, dtor, cursor, chain,      \* of DoubleQueue
    stdin, at,          \* the input and the index of the next token
    rpc, ppc, mpc,      \* where the reader, the printer and main are
    nums,               \* the printer's array
    printed,            \* what it wrote to cout
    is_EOF, eof_lock

Threads == {Reader, Printer}
Values  == (UNION {{s[i] : i \in DOMAIN s} : s \in Inputs}) \ {NL, Bad}
Calls   == {<<Reader, "add">>, <<Printer, "remove">>}

Queue == INSTANCE DoubleQueue
Sequential == INSTANCE SequentialNumbers

qvars == <<queue_length, head, tail, lock, allocated, next, value,
           op, pc, arg, ret, dtor, cursor, chain>>
pvars == <<nums, printed>>
evars == <<is_EOF, eof_lock>>
ivars == <<stdin, at>>
nvars == <<qvars, ivars, rpc, ppc, mpc, pvars, evars>>

NInit ==
    /\ Queue!Init
    /\ stdin \in Inputs /\ at = 1
    /\ rpc = "read" /\ ppc = "remove" /\ mpc = "join reader"
    /\ nums = << >> /\ printed = << >>
    /\ is_EOF = FALSE /\ eof_lock = Nobody

AtEnd == at > Len(stdin)
Token == stdin[at]

----------------------------------------------------------------------------
(* read_nums_thread *)

(* operator>> skips white space ... *)
SkipNewline ==
    /\ rpc = "read" /\ ~AtEnd /\ Token = NL
    /\ at' = at + 1
    /\ UNCHANGED <<qvars, stdin, rpc, ppc, mpc, pvars, evars>>

(* ... and delivers a number, which the thread adds to the queue ... *)
ReadNumber ==
    /\ rpc = "read" /\ ~AtEnd /\ Token \notin {NL, Bad}
    /\ Queue!CallAdd(Reader, Token)
    /\ at' = at + 1
    /\ rpc' = "adding"
    /\ UNCHANGED <<stdin, ppc, mpc, pvars, evars>>

ReadFailsForGood ==
    /\ rpc = "read" /\ ~AtEnd /\ Token = Bad
    /\ rpc' = "eof"
    /\ UNCHANGED <<qvars, ivars, ppc, mpc, pvars, evars>>

(* ... or fails, without end of file, before a word it cannot read. *)
ReadFails ==
    /\ rpc = "read" /\ ~AtEnd /\ Token = Bad
    /\ rpc' = "ignore"
    /\ UNCHANGED <<qvars, ivars, ppc, mpc, pvars, evars>>

(* cin.ignore drops everything up to the newline, or to the end. *)
IgnoreLine ==
    /\ rpc = "ignore"
    /\ \/ AtEnd /\ rpc' = "read" /\ UNCHANGED at
       \/ /\ ~AtEnd
          /\ at' = at + 1
          /\ rpc' = IF Token = NL THEN "read" ELSE "ignore"
    /\ UNCHANGED <<qvars, stdin, ppc, mpc, pvars, evars>>

ReadEof ==
    /\ rpc = "read" /\ AtEnd
    /\ rpc' = "eof"
    /\ UNCHANGED <<qvars, ivars, ppc, mpc, pvars, evars>>

AddStep ==
    /\ rpc = "adding"
    /\ \/ Queue!InsideStep(Reader) \/ Queue!LockStep(Reader)
    /\ rpc' = IF pc'[Reader] = "idle" THEN "sleep" ELSE "adding"
    /\ UNCHANGED <<ivars, ppc, mpc, pvars, evars>>

(* sleep(1) delays the thread; it promises nothing about the printer. *)
WakeUp ==
    /\ rpc = "sleep"
    /\ rpc' = "read"
    /\ UNCHANGED <<qvars, ivars, ppc, mpc, pvars, evars>>

ReaderLocks ==
    /\ rpc = "eof" /\ eof_lock = Nobody
    /\ eof_lock' = Reader
    /\ rpc' = "set"
    /\ UNCHANGED <<qvars, ivars, ppc, mpc, pvars, is_EOF>>

SetEofAndExit ==
    /\ rpc = "set"
    /\ is_EOF' = TRUE
    /\ eof_lock' = Nobody
    /\ rpc' = "exited"
    /\ UNCHANGED <<qvars, ivars, ppc, mpc, pvars>>

----------------------------------------------------------------------------
(* print_nums_thread *)

CallRemove ==
    /\ ppc = "remove"
    /\ Queue!CallRemove(Printer)
    /\ ppc' = "removing"
    /\ UNCHANGED <<ivars, rpc, mpc, pvars, evars>>

RemoveStep ==
    /\ ppc = "removing" /\ pc[Printer] # "unlock"
    /\ \/ Queue!InsideStep(Printer) \/ Queue!LockStep(Printer)
    /\ UNCHANGED <<ivars, rpc, ppc, mpc, pvars, evars>>

RemoveFails ==
    /\ ppc = "removing" /\ pc[Printer] = "unlock" /\ ret[Printer] = None
    /\ Queue!Unlock(Printer)
    /\ ppc' = "check"
    /\ UNCHANGED <<ivars, rpc, mpc, pvars, evars>>

(* remove returns a number: it enters the array, which is cut down to five,*)
(* and the statistics are printed.                                         *)
PrintNumber ==
    /\ ppc = "removing" /\ pc[Printer] = "unlock" /\ ret[Printer] # None
    /\ Queue!Unlock(Printer)
    /\ nums' = Sequential!Shift(Append(nums, ret[Printer]))
    /\ printed' = Append(printed, Sequential!Statistics(nums'))
    /\ ppc' = "remove"
    /\ UNCHANGED <<ivars, rpc, mpc, evars>>

PrinterLocks ==
    /\ ppc = "check" /\ eof_lock = Nobody
    /\ eof_lock' = Printer
    /\ ppc' = "checking"
    /\ UNCHANGED <<qvars, ivars, rpc, mpc, pvars, is_EOF>>

PollForEver ==
    /\ ppc = "checking"
    /\ eof_lock' = Nobody
    /\ ppc' = "remove"
    /\ UNCHANGED <<qvars, ivars, rpc, mpc, pvars, is_EOF>>

(* is_EOF is tested after remove has failed, in another critical section:  *)
(* what was added in between is not looked for again.                      *)
CheckEof ==
    /\ ppc = "checking"
    /\ eof_lock' = Nobody
    /\ ppc' = IF is_EOF THEN "exited" ELSE "remove"
    /\ UNCHANGED <<qvars, ivars, rpc, mpc, pvars, is_EOF>>

----------------------------------------------------------------------------
(* main *)

JoinReader ==
    /\ mpc = "join reader" /\ rpc = "exited"
    /\ mpc' = "join printer"
    /\ UNCHANGED <<qvars, ivars, rpc, ppc, pvars, evars>>

JoinNobody ==
    /\ mpc = "join printer"
    /\ mpc' = "delete"
    /\ UNCHANGED <<qvars, ivars, rpc, ppc, pvars, evars>>

JoinPrinter ==
    /\ mpc = "join printer" /\ ppc = "exited"
    /\ mpc' = "delete"
    /\ UNCHANGED <<qvars, ivars, rpc, ppc, pvars, evars>>

DeleteQueue ==
    /\ mpc = "delete"
    /\ Queue!Destructor
    /\ mpc' = IF dtor' = "destroyed" THEN "exited" ELSE "delete"
    /\ UNCHANGED <<ivars, rpc, ppc, pvars, evars>>

NFinished == mpc = "exited" /\ UNCHANGED nvars

----------------------------------------------------------------------------
ReaderStep ==
    SkipNewline \/ ReadNumber \/ ReadFails \/ IgnoreLine \/ ReadEof
      \/ AddStep \/ WakeUp \/ ReaderLocks \/ SetEofAndExit

PrinterStep ==
    CallRemove \/ RemoveStep \/ RemoveFails \/ PrintNumber \/ PrinterLocks \/ CheckEof

MainStep == JoinReader \/ JoinPrinter \/ DeleteQueue

NNext == ReaderStep \/ PrinterStep \/ MainStep \/ NFinished

NSpec == NInit /\ [][NNext]_nvars

(* Every thread keeps running.  The printer polls, taking both mutexes     *)
(* again and again, so the reader has to be granted each of them in the    *)
(* end: strong fairness of the two acquisitions, weak fairness of the rest.*)
NFairness ==
    /\ WF_nvars(ReaderStep) /\ WF_nvars(PrinterStep) /\ WF_nvars(MainStep)
    /\ SF_nvars(AddStep /\ Queue!LockStep(Reader))
    /\ SF_nvars(ReaderLocks)

NFairSpec == NSpec /\ NFairness

----------------------------------------------------------------------------
NTypeOK ==
    /\ Queue!TypeOK
    /\ stdin \in Inputs /\ at \in 1..(Len(stdin) + 1)
    /\ rpc \in {"read", "ignore", "adding", "sleep", "eof", "set", "exited"}
    /\ ppc \in {"remove", "removing", "check", "checking", "exited"}
    /\ mpc \in {"join reader", "join printer", "delete", "exited"}
    /\ Len(nums) <= Sequential!Window
    /\ is_EOF \in BOOLEAN
    /\ eof_lock \in {Nobody, Reader, Printer}

(* What the two threads print is the beginning of what the one-thread      *)
(* program prints for the same input, in every interleaving; and when both *)
(* are gone, what is missing is exactly what is still in the queue: the    *)
(* queue, the parsing and the hand-over lose and repeat nothing.           *)
PrintsLikeSequential ==
    /\ IsPrefix(printed, Sequential!Output(stdin))
    /\ mpc = "delete" /\ dtor = "live" =>
         LET all == Sequential!Numbers(stdin)
         IN  /\ Len(printed) <= Len(all)
             /\ SubSeq(all, 1, Len(printed)) \o Queue!Contents = all

(* main frees the queue only when neither thread can touch it again, nor   *)
(* holds a mutex.                                                          *)
DeletedUnused ==
    mpc \in {"delete", "exited"} =>
      /\ rpc = "exited" /\ ppc = "exited"
      /\ \A t \in Threads : pc[t] = "idle"
      /\ lock = Nobody /\ eof_lock = Nobody

(* The program ends once its input does. *)
Terminates == <>(mpc = "exited")
=============================================================================
