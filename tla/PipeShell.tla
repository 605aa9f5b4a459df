------------------------------ MODULE PipeShell ------------------------------
(***************************************************************************)
(* pipe_shell of "hw4 -- Pipe Shell": the shell, one process per command   *)
(* of a line, and the kernel objects they share: the descriptor tables     *)
(* that fork copies, the pipes, and the input's file offset.  A command is *)
(* the sequence of its words, one of which says what it does with its      *)
(* pipes: "source" writes Items items, "filter" passes on what it reads    *)
(* until the end, "head" reads nothing, and "bad" cannot be executed.  Two *)
(* programs are the repository's own: "stdin_echo", a filter with an item  *)
(* to say first, and "sh", which runs the command of its other words as a  *)
(* child.  The first command of a line reads no input.                     *)
(*                                                                         *)
(* OneWaitTooMany, ParentKeepsWriteEnd, WaitsForAllButOne, KeepsReadEnd    *)
(* and LastNotRedirected are mistakes in the definition that follows each: *)
(* nothing uses them, the properties refuse them.                          *)
(***************************************************************************)
EXTENDS Integers, Sequences, SequencesExt, FiniteSets, FiniteSetsExt

CONSTANTS
    Inputs,         \* the inputs: sequences of lines, each the commands of a line
    Items,          \* the items a source writes
    Capacity,       \* the items a pipe holds
    MaxCommands,    \* the commands of the longest line
    MaxFd,          \* the last descriptor a process may have
    MayFail,        \* whether pipe and fork may fail
    Seekable        \* whether the input is a file: it has an offset to put back

ASSUME ShellAssumption ==
    /\ Items \in Nat /\ Capacity \in Nat \ {0}
    /\ MaxCommands \in Nat \ {0} /\ MaxFd \in Nat /\ MaxFd >= 2
    /\ MayFail \in BOOLEAN /\ Seekable \in BOOLEAN
    /\ Inputs \subseteq Seq(Seq(Seq(STRING)))
    /\ \A s \in Inputs : \A l \in DOMAIN s :   \* a split line has a command, a command a word
         Len(s[l]) \in 1..MaxCommands /\ \A c \in DOMAIN s[l] : Len(s[l][c]) >= 1

Shell == 0
Children == 1..MaxCommands
Procs == {Shell} \cup Children
Fds == 0..MaxFd
PipeIds == 1..(MaxFd + MaxCommands)
Exit == <<<<"exit">>>>

(* What a descriptor refers to. *)
Free == <<0, "free">>
Std == <<0, "std">>
ReadEnd(p) == <<p, "read">>
WriteEnd(p) == <<p, "write">>
NoFds == [f \in Fds |-> Free]

VARIABLES
    input, offset,      \* the input, and the lines before its file offset
    at, limit,          \* the shell's buffer: the lines after at, up to limit
    pc, commands, i, k, \* main: its place, the line, the loops' variables
    in_pipe, out_pipe,
    fds,                \* every process's descriptors
    status,             \* children: "none", "forked", "running" or "zombie"; for
                        \* sh also "sh" and "waited": before and after its child
    copy,               \* a child's copies of the shell's pipes and unread lines
    left, content,      \* items a child has at hand, and a pipe has in it
    started, delivered  \* history: lines carried out, items that reached stdout

shell == <<pc, commands, i, k, in_pipe, out_pipe>>
reading == <<input, offset, at, limit>>
vars == <<reading, shell, fds, status, copy, left, content, started, delivered>>

Init ==
    /\ input \in Inputs
    /\ offset = 0 /\ at = 0 /\ limit = 0
    /\ pc = "prompt" /\ commands = << >> /\ i = 1 /\ k = 0
    /\ in_pipe = <<0, 0>> /\ out_pipe = <<0, 0>>
    /\ fds = [q \in Procs |-> IF q = Shell THEN [f \in Fds |-> IF f <= 2 THEN Std ELSE Free]
                                           ELSE NoFds]
    /\ status = [c \in Children |-> "none"]
    /\ copy = [c \in Children |-> << >>]
    /\ left = [c \in Children |-> 0]
    /\ content = [p \in PipeIds |-> 0]
    /\ started = << >> /\ delivered = 0

----------------------------------------------------------------------------
(* The kernel *)

Held(e) == \E q \in Procs, f \in Fds : fds[q][f] = e

Close(t, f) == [t EXCEPT ![f] = Free]

Open(t, f, e) == [t EXCEPT ![f] = e]

Dup2(t, from, to) == [t EXCEPT ![to] = t[from]]

Redirect(t, from, to) == Close(Dup2(t, from, to), from)

FreeFds(t) == {f \in Fds : t[f] = Free}

(* exit closes the process's descriptors. *)
Exits(c) ==
    /\ status' = [status EXCEPT ![c] = "zombie"]
    /\ fds' = [fds EXCEPT ![c] = NoFds]
    /\ left' = [left EXCEPT ![c] = 0]
    /\ UNCHANGED <<input, at, limit, shell, copy, content, started, delivered>>

----------------------------------------------------------------------------
(* main: the prompt *)

TakeLine ==
    /\ pc = "prompt" /\ at < limit
    /\ commands' = input[at + 1]
    /\ at' = at + 1
    /\ started' = Append(started, at + 1)
    /\ i' = 1 /\ delivered' = 0
    /\ pc' = IF commands' = Exit THEN "exited" ELSE "pipe"
    /\ fds' = IF commands' = Exit THEN [fds EXCEPT ![Shell] = NoFds] ELSE fds
    /\ UNCHANGED <<input, offset, limit, k, in_pipe, out_pipe, status, copy, left, content>>

(* getline reads what is there, from the file's offset on. *)
FillInput ==
    /\ pc = "prompt" /\ at = limit /\ offset < Len(input)
    /\ at' = offset /\ limit' = Len(input) /\ offset' = Len(input)
    /\ UNCHANGED <<input, shell, fds, status, copy, left, content, started, delivered>>

Stop ==
    /\ pc' = "exited"
    /\ fds' = [fds EXCEPT ![Shell] = NoFds]
    /\ UNCHANGED <<reading, commands, i, k, in_pipe, out_pipe, status, copy, left,
                   content, started, delivered>>

EndOfInput == pc = "prompt" /\ at = limit /\ offset = Len(input) /\ Stop

----------------------------------------------------------------------------
(* main: one process per command *)

process_num == Len(commands)
IsLast(c) == c = process_num

NeedsPipe == process_num # 1 /\ ~IsLast(i)

(* pipe takes the two lowest descriptors that are free. *)
Pipe ==
    /\ pc = "pipe" /\ NeedsPipe
    /\ Cardinality(FreeFds(fds[Shell])) >= 2
    /\ LET r == Min(FreeFds(fds[Shell]))
           w == Min(FreeFds(fds[Shell]) \ {r})
           p == Min({q \in PipeIds : ~Held(ReadEnd(q)) /\ ~Held(WriteEnd(q))})
       IN  /\ out_pipe' = <<r, w>>
           /\ fds' = [fds EXCEPT ![Shell] = Open(Open(@, r, ReadEnd(p)), w, WriteEnd(p))]
           /\ content' = [content EXCEPT ![p] = 0]
    /\ pc' = "fork"
    /\ UNCHANGED <<reading, commands, i, k, in_pipe, status, copy, left, started, delivered>>

NoPipe ==
    /\ pc = "pipe" /\ ~NeedsPipe
    /\ pc' = "fork"
    /\ UNCHANGED <<reading, commands, i, k, in_pipe, out_pipe, fds, status, copy, left,
                   content, started, delivered>>

PipeFails ==
    /\ pc = "pipe" /\ NeedsPipe
    /\ MayFail \/ Cardinality(FreeFds(fds[Shell])) < 2
    /\ Stop

Fork ==
    /\ pc = "fork"
    /\ status' = [status EXCEPT ![i] = "forked"]
    /\ fds' = [fds EXCEPT ![i] = fds[Shell]]
    /\ copy' = [copy EXCEPT ![i] = <<in_pipe, out_pipe, limit - at>>]
    /\ pc' = "close"
    /\ UNCHANGED <<reading, commands, i, k, in_pipe, out_pipe, left, content,
                   started, delivered>>

ForkFails == pc = "fork" /\ MayFail /\ Stop

OneWaitTooMany == process_num + 1

children_size == process_num

ParentKeepsWriteEnd(t) ==
    CASE process_num = 1 \/ i = 1 -> t
      [] OTHER -> Close(t, in_pipe[1])

(* What the shell is left with, of its descriptors t. *)
ParentEnds(t) ==
    CASE process_num = 1 -> t
      [] process_num # 1 /\ i = 1 -> Close(t, out_pipe[2])
      [] i # 1 /\ IsLast(i) -> Close(t, in_pipe[1])
      [] OTHER -> Close(Close(t, in_pipe[1]), out_pipe[2])

CloseEnds ==
    /\ pc = "close"
    /\ fds' = [fds EXCEPT ![Shell] = ParentEnds(fds[Shell])]
    /\ in_pipe' = out_pipe
    /\ i' = i + 1
    /\ pc' = IF IsLast(i) THEN "wait" ELSE "pipe"
    /\ k' = IF IsLast(i) THEN children_size ELSE k
    /\ UNCHANGED <<reading, commands, out_pipe, status, copy, left, content, started, delivered>>

----------------------------------------------------------------------------
(* main: the wait loop *)

(* wait() == -1 needs a shell without children: while k > 0 there are k of *)
(* them, so the exit on that error is never taken.                         *)
Wait ==
    /\ pc = "wait" /\ k > 0
    /\ \E c \in Children :
         /\ status[c] = "zombie"
         /\ status' = [status EXCEPT ![c] = "none"]
    /\ k' = k - 1
    /\ UNCHANGED <<reading, pc, commands, i, in_pipe, out_pipe, fds, copy, left, content,
                   started, delivered>>

WaitsForAllButOne == pc = "wait" /\ k <= 1

AllWaitedFor == pc = "wait" /\ k = 0

Prompt ==
    /\ AllWaitedFor
    /\ pc' = "prompt"
    /\ UNCHANGED <<reading, commands, i, k, in_pipe, out_pipe, fds, status, copy, left,
                   content, started, delivered>>

----------------------------------------------------------------------------
(* A command: what it does, and whether sh runs it *)

What(c) == Last(commands[c])

InSh(c) == Len(commands[c]) > 1

Filters(c) == What(c) \in {"filter", "stdin_echo"}

----------------------------------------------------------------------------
(* The child, up to execvp *)

KeepsReadEnd(c, t, in, out) ==
    CASE process_num = 1 -> t
      [] process_num # 1 /\ c = 1 -> Redirect(t, out[2], 1)
      [] c # 1 /\ IsLast(c) -> Redirect(Close(t, in[2]), in[1], 0)
      [] OTHER -> Redirect(Redirect(t, in[1], 0), out[2], 1)

LastNotRedirected(c, t, in, out) ==
    CASE process_num = 1 -> t
      [] process_num # 1 /\ c = 1 -> Redirect(Close(t, out[1]), out[2], 1)
      [] c # 1 /\ IsLast(c) -> Close(Close(t, in[2]), in[1])
      [] OTHER -> Redirect(Redirect(Close(t, out[1]), in[1], 0), out[2], 1)

(* What child c makes of its descriptors t before execvp. *)
ChildEnds(c, t, in, out) ==
    CASE process_num = 1 -> t
      [] process_num # 1 /\ c = 1 -> Redirect(Close(t, out[1]), out[2], 1)
      [] c # 1 /\ IsLast(c) -> Redirect(Close(t, in[2]), in[1], 0)
      [] OTHER -> Redirect(Redirect(Close(t, out[1]), in[1], 0), out[2], 1)

Wired(c) == ChildEnds(c, fds[c], copy[c][1], copy[c][2])

Starts(c) ==
    /\ status' = [status EXCEPT ![c] = "running"]
    /\ left' = [left EXCEPT ![c] = CASE What(c) = "source"     -> Items
                                     [] What(c) = "stdin_echo" -> 1
                                     [] OTHER                  -> 0]

Exec(c) ==
    /\ status[c] = "forked" /\ commands[c] # <<"bad">>
    /\ fds' = [fds EXCEPT ![c] = Wired(c)]
    /\ IF InSh(c) THEN /\ status' = [status EXCEPT ![c] = "sh"]
                       /\ UNCHANGED left
                  ELSE Starts(c)
    /\ UNCHANGED <<reading, shell, copy, content, started, delivered>>

(* The child returns from main.  The C library's exit moves the offset of  *)
(* an input that is a file back over what is unread in the child's copy of *)
(* the buffer (SEEK_CUR); where the file is not that long it stays.        *)
ExecFails(c) ==
    /\ status[c] = "forked" /\ commands[c] = <<"bad">>
    /\ Exits(c)
    /\ offset' = IF Seekable /\ Wired(c)[0] = Std /\ copy[c][3] <= offset
                 THEN offset - copy[c][3] ELSE offset

----------------------------------------------------------------------------
(* The commands at work.  Those of sh's child are taken by c, whose        *)
(* descriptors it shares.                                                  *)

Write(c) ==
    /\ status[c] = "running" /\ left[c] > 0
    /\ LET p == fds[c][1][1]
       IN  IF fds[c][1] = Std
           THEN delivered' = delivered + 1 /\ UNCHANGED content
           ELSE /\ Held(ReadEnd(p)) /\ content[p] < Capacity
                /\ content' = [content EXCEPT ![p] = @ + 1]
                /\ UNCHANGED delivered
    /\ left' = [left EXCEPT ![c] = @ - 1]
    /\ UNCHANGED <<reading, shell, fds, status, copy, started>>

(* sh keeps its descriptors until it has waited for its child. *)
Ends(c) ==
    IF InSh(c)
    THEN /\ status' = [status EXCEPT ![c] = "waited"]
         /\ left' = [left EXCEPT ![c] = 0]
         /\ UNCHANGED <<input, at, limit, shell, fds, copy, content, started, delivered>>
    ELSE Exits(c)

(* Nobody will read it: SIGPIPE. *)
Killed(c) ==
    /\ status[c] = "running" /\ left[c] > 0
    /\ fds[c][1] # Std /\ ~Held(ReadEnd(fds[c][1][1]))
    /\ Ends(c) /\ UNCHANGED offset

Read(c) ==
    /\ status[c] = "running" /\ Filters(c) /\ left[c] = 0
    /\ fds[c][0] # Std
    /\ LET p == fds[c][0][1]
       IN  content[p] > 0 /\ content' = [content EXCEPT ![p] = @ - 1]
    /\ left' = [left EXCEPT ![c] = 1]
    /\ UNCHANGED <<reading, shell, fds, status, copy, started, delivered>>

(* A filter ends at the end of what it reads, the others when they have    *)
(* nothing left to write.                                                  *)
Finish(c) ==
    /\ status[c] = "running" /\ left[c] = 0
    /\ Filters(c) /\ fds[c][0] # Std =>
         content[fds[c][0][1]] = 0 /\ ~Held(WriteEnd(fds[c][0][1]))
    /\ Ends(c) /\ UNCHANGED offset

(* sh: its child executes the command, or cannot; without a child there is *)
(* nothing to wait for.                                                    *)
ShForks(c) ==
    /\ status[c] = "sh" /\ What(c) # "bad"
    /\ Starts(c)
    /\ UNCHANGED <<reading, shell, fds, copy, content, started, delivered>>

ShFails(c) ==
    /\ status[c] = "sh" /\ (What(c) = "bad" \/ MayFail)
    /\ status' = [status EXCEPT ![c] = "waited"]
    /\ UNCHANGED <<reading, shell, fds, copy, left, content, started, delivered>>

ShEnds(c) ==
    /\ status[c] = "waited"
    /\ Exits(c) /\ UNCHANGED offset

----------------------------------------------------------------------------
ShellStep ==
    \/ TakeLine \/ FillInput \/ EndOfInput
    \/ Pipe \/ NoPipe \/ PipeFails \/ Fork \/ ForkFails \/ CloseEnds
    \/ Wait \/ Prompt

Child(c) ==
    \/ Exec(c) \/ ExecFails(c)
    \/ Write(c) \/ Killed(c) \/ Read(c) \/ Finish(c)
    \/ ShForks(c) \/ ShFails(c) \/ ShEnds(c)

Done == pc = "exited" /\ UNCHANGED vars

Next == ShellStep \/ (\E c \in Children : Child(c)) \/ Done

Spec == Init /\ [][Next]_vars

(* The kernel runs every process that can run. *)
FairSpec == Spec /\ WF_vars(ShellStep) /\ \A c \in Children : WF_vars(Child(c))

----------------------------------------------------------------------------
TypeOK ==
    /\ input \in Inputs /\ offset \in 0..Len(input)
    /\ limit \in 0..Len(input) /\ at \in 0..limit
    /\ pc \in {"prompt", "pipe", "fork", "close", "wait", "exited"}
    /\ process_num <= MaxCommands /\ i \in 1..(MaxCommands + 1) /\ k \in 0..MaxCommands
    /\ in_pipe \in Fds \X Fds /\ out_pipe \in Fds \X Fds
    /\ fds \in [Procs -> [Fds -> {Free, Std} \cup (PipeIds \X {"read", "write"})]]
    /\ status \in [Children -> {"none", "forked", "sh", "running", "waited", "zombie"}]
    /\ left \in [Children -> 0..(Items + 1)]
    /\ content \in [PipeIds -> 0..Capacity]

(* Between two lines the shell has no child and no end of a pipe: a shell  *)
(* that runs for long does not run out of descriptors.                     *)
NothingKept ==
    pc = "prompt" =>
      /\ \A c \in Children : status[c] = "none"
      /\ \A f \in Fds : (fds[Shell][f] = Std) <=> (f <= 2)
      /\ \A f \in Fds : (fds[Shell][f] = Free) <=> (f > 2)

Executed == {"sh", "running", "waited"}

(* A command runs with its standard streams and nothing else, connected to *)
(* its neighbours: no process holds a pipe open that it does not use.      *)
WiredInARow ==
    \A c \in Children : status[c] \in Executed =>
      /\ \A f \in Fds : f > 2 => fds[c][f] = Free
      /\ IF c = 1 THEN fds[c][0] = Std ELSE fds[c][0][2] = "read"
      /\ IF IsLast(c) THEN fds[c][1] = Std ELSE fds[c][1][2] = "write"
      /\ (c > 1 /\ status[c - 1] \in Executed) => fds[c - 1][1] = WriteEnd(fds[c][0][1])

(* What a source writes reaches the end of a row of filters, and what each *)
(* of them has to say itself: nothing is lost when a command ends before   *)
(* the next has read it all.                                               *)
OnlyFiltersAfterSource ==
    /\ commands # << >> /\ commands[1] = <<"source">>
    /\ \A c \in 2..process_num : Filters(c) /\ ~InSh(c)

AllDelivered ==
    pc = "prompt" /\ OnlyFiltersAfterSource =>
      delivered = Items + Quantify(2..process_num, LAMBDA c : What(c) = "stdin_echo")

(* The input's lines are carried out in their order, each once.            *)
EachLineOnce == \A n \in 1..Len(started) : started[n] = n

(* The shell comes back to its user: every command of a line ends, since   *)
(* each sees the end of its input when the one before it has ended.        *)
LineEnds == pc = "pipe" ~> pc \in {"prompt", "exited"}

(* A shell that stops half-way through a line, because pipe or fork fails, *)
(* leaves no process behind that waits for ever.                           *)
NobodyLeftWaiting ==
    pc = "exited" ~> \A c \in Children : status[c] \in {"none", "zombie"}
=============================================================================
