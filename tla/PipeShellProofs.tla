-------------------------- MODULE PipeShellProofs --------------------------
(***************************************************************************)
(* The shell connects the commands of a line to their neighbours alone,    *)
(* keeps nothing of a line and loses nothing that a source writes, for any *)
(* lines, any number of commands and of descriptors and any capacity of a  *)
(* pipe, while pipe and fork may fail at any time.                         *)
(***************************************************************************)
EXTENDS PipeShell, FiniteSetTheorems, WellFoundedInduction, TLAPS

(***************************************************************************)
(* Descriptor tables.  pid[c] is the pipe between the commands c and       *)
(* c + 1 of a line of n.                                                   *)
(***************************************************************************)

(* Command c before execvp: what it inherits. *)
Row(n, c, in, out, pid) ==
    [f \in Fds |-> IF f <= 2 THEN Std
                   ELSE IF c > 1 /\ f = in[1] THEN ReadEnd(pid[c - 1])
                   ELSE IF c < n /\ f = out[1] THEN ReadEnd(pid[c])
                   ELSE IF c < n /\ f = out[2] THEN WriteEnd(pid[c])
                   ELSE Free]

(* Command c after execvp. *)
ExecRow(n, c, pid) ==
    [f \in Fds |-> IF f = 0 /\ c > 1 THEN ReadEnd(pid[c - 1])
                   ELSE IF f = 1 /\ c < n THEN WriteEnd(pid[c])
                   ELSE IF f <= 2 THEN Std ELSE Free]

(* The numbers of the ends are beyond the standard streams and distinct. *)
Apart(n, c, in, out) ==
    /\ in \in Fds \X Fds /\ out \in Fds \X Fds
    /\ c > 1 => in[1] > 2 /\ in[2] > 2 /\ in[1] # in[2]
    /\ c < n => out[1] > 2 /\ out[2] > 2 /\ out[1] # out[2]
    /\ c > 1 /\ c < n => in[1] # out[1] /\ in[1] # out[2]

ChildTable(st, n, c, cp, pid) ==
    IF st = "forked" THEN Row(n, c, cp[1], cp[2], pid)
    ELSE IF st \in Executed THEN ExecRow(n, c, pid) ELSE NoFds

(* The shell has the reading end of the last pipe it made, and both ends   *)
(* of the new one until it has forked.                                     *)
ShellTable(p, n, j, in, out, pid) ==
    IF p = "exited" THEN NoFds
    ELSE IF p = "pipe" THEN Row(j, j, in, out, pid)
    ELSE IF p \in {"fork", "close"} THEN Row(n, j, in, out, pid)
    ELSE Row(1, 1, in, out, pid)

Ends2 == {Free, Std} \cup (PipeIds \X {"read", "write"})

Types ==
    /\ input \in Inputs /\ offset \in 0..Len(input)
    /\ limit \in {0, Len(input)} /\ at \in 0..limit
    /\ pc \in {"prompt", "pipe", "fork", "close", "wait", "exited"}
    /\ commands \in Seq(Seq(STRING)) /\ process_num <= MaxCommands
    /\ \A c \in 1..process_num : Len(commands[c]) >= 1
    /\ i \in 1..(MaxCommands + 1) /\ k \in 0..MaxCommands
    /\ in_pipe \in Fds \X Fds /\ out_pipe \in Fds \X Fds
    /\ fds \in [Procs -> [Fds -> Ends2]]
    /\ status \in [Children -> {"none", "forked", "sh", "running", "waited", "zombie"}]
    /\ DOMAIN copy = Children /\ copy = [c \in Children |-> copy[c]]
    /\ left \in [Children -> 0..(Items + 1)]
    /\ content \in [PipeIds -> 0..Capacity]
    /\ started \in Seq(Nat) /\ delivered \in Nat

InLine == {"pipe", "fork", "close"}

(* Which children there are, at each place of main. *)
Stages ==
    /\ pc = "prompt" => \A c \in Children : status[c] = "none"
    /\ pc \in InLine => i <= process_num /\ at >= 1 /\ commands = input[at]
    /\ pc \in {"pipe", "fork"} => \A c \in Children : (status[c] = "none") <=> (c >= i)
    /\ pc = "close" => \A c \in Children : (status[c] = "none") <=> (c > i)
    /\ pc = "wait" => /\ i = process_num + 1
                      /\ k = Cardinality({c \in Children : status[c] # "none"})
    /\ \A c \in Children : status[c] # "none" =>
         /\ c <= process_num /\ at >= 1 /\ commands = input[at]
         /\ status[c] \in {"sh", "waited"} => InSh(c)
         /\ status[c] # "running" => left[c] = 0
         /\ status[c] = "forked" => copy[c][3] = limit - at
    /\ \A c \in Children : status[c] = "none" => left[c] = 0

(* What each process holds. *)
Wires(pid) ==
    /\ pid \in [Children -> PipeIds]
    /\ fds[Shell] = ShellTable(pc, process_num, i, in_pipe, out_pipe, pid)
    /\ pc = "pipe" => Apart(i, i, in_pipe, out_pipe)
    /\ pc \in {"fork", "close"} => Apart(process_num, i, in_pipe, out_pipe)
    /\ \A c \in Children :
         /\ status[c] = "forked" => Apart(process_num, c, copy[c][1], copy[c][2])
         /\ fds[c] = ChildTable(status[c], process_num, c, copy[c], pid)

(***************************************************************************)
(* The items of a row of filters.  sent[c] is what command c has written;  *)
(* what it has been given to say is its own from when it starts.           *)
(***************************************************************************)
NotYet(c) == status[c] = "forked" \/ (status[c] = "none" /\ pc # "wait")

Over(c) == status[c] = "zombie" \/ (status[c] = "none" /\ pc = "wait")

Own(c) == IF c = 1 THEN Items ELSE IF What(c) = "stdin_echo" THEN 1 ELSE 0

Given(c) == IF NotYet(c) THEN 0 ELSE Own(c)

(* The pipe between c - 1 and c is there, and is still to be read. *)
Live(c) == 1 < c /\ (c <= i \/ (c = i + 1 /\ pc # "pipe")) /\ ~Over(c)

Flow(pid, sent) ==
    /\ sent \in [Children -> Nat]
    /\ sent[process_num] = delivered
    /\ \A c \in 1..process_num : NotYet(c) => sent[c] = 0
    /\ sent[1] + left[1] = Given(1)
    /\ \A c \in 2..process_num :
         /\ Live(c) => content[pid[c - 1]] + sent[c] + left[c] = sent[c - 1] + Given(c)
         /\ Over(c) => Over(c - 1) /\ sent[c] = sent[c - 1] + Own(c)
         /\ \A d \in 2..process_num : Live(c) /\ Live(d) /\ c # d => pid[c - 1] # pid[d - 1]

Flows == pc \in InLine \cup {"wait"} /\ OnlyFiltersAfterSource

IInv ==
    /\ Types
    /\ Stages
    /\ \E pid : Wires(pid) /\ (Flows => \E sent : Flow(pid, sent))
    /\ AllDelivered

----------------------------------------------------------------------------
(* Numbers *)

(* A set of numbers has a least one. *)
LEMMA LeastNatural ==
    ASSUME NEW T \in SUBSET Nat, T # {} PROVE \E x \in T : \A y \in T : x <= y
<1> DEFINE R == {ss \in Nat \X Nat : ss[1] < ss[2]}
<1>1. IsWellFoundedOn(R, Nat)
  BY NatLessThanWellFounded DEF OpToRel
<1>2. \A x \in Nat, y \in Nat : y < x => <<y, x>> \in R
  OBVIOUS
<1> HIDE DEF R
<1>3. PICK x \in T : \A y \in T : ~(<<y, x>> \in R)
  BY <1>1, WFMin
<1>4. \A y \in T : ~(y < x)
  BY <1>2, <1>3
<1> QED
  BY <1>4

(* What holds at 0, and at x + 1 when at x, holds everywhere up to n. *)
LEMMA FromZero ==
    ASSUME NEW n \in Nat, NEW T \in SUBSET (0..n), 0 \in T,
           \A x \in 0..(n - 1) : x \in T => x + 1 \in T
    PROVE  T = 0..n
<1> SUFFICES ASSUME T # 0..n PROVE FALSE
  OBVIOUS
<1>1. PICK x \in (0..n) \ T : \A y \in (0..n) \ T : x <= y
  <2>1. T \subseteq 0..n
    OBVIOUS
  <2>2. \E x \in 0..n : x \notin T
    BY <2>1, T # 0..n, Zenon
  <2>3. (0..n) \ T \in SUBSET Nat /\ (0..n) \ T # {}
    BY <2>2
  <2> QED
    BY <2>3, LeastNatural
<1>2. x # 0 /\ x - 1 \in 0..(n - 1) /\ x - 1 \in 0..n
  BY <1>1
<1>3. x - 1 \in T
  BY <1>1, <1>2
<1> QED
  BY <1>1, <1>2, <1>3

(* Min is one of the numbers. *)
LEMMA MinIs ==
    ASSUME NEW T \in SUBSET Nat, T # {} PROVE Min(T) \in T
BY LeastNatural DEF Min

----------------------------------------------------------------------------
(* The operations on a table *)

(* What the constants are, and that the standard streams have descriptors. *)
LEMMA ConstantsOK ==
    /\ Items \in Nat /\ Capacity \in Nat \ {0} /\ MaxCommands \in Nat \ {0}
    /\ MaxFd \in Nat /\ MaxFd >= 2
    /\ 0 \in Fds /\ 1 \in Fds /\ 2 \in Fds /\ \A f \in Fds : f \in Nat
BY ShellAssumption DEF ShellAssumption, Fds

(* Tables that agree on every descriptor are the same. *)
LEMMA SameTable ==
    ASSUME NEW t \in [Fds -> Ends2], NEW u \in [Fds -> Ends2], \A f \in Fds : t[f] = u[f]
    PROVE  t = u
OBVIOUS

(* Opening a descriptor changes that one. *)
LEMMA OpenIs ==
    ASSUME NEW t \in [Fds -> Ends2], NEW x \in Fds, NEW e \in Ends2
    PROVE  /\ Open(t, x, e) \in [Fds -> Ends2]
           /\ Open(t, x, e)[x] = e
           /\ \A f \in Fds : f # x => Open(t, x, e)[f] = t[f]
BY DEF Open

(* Closing a descriptor frees that one. *)
LEMMA CloseIs ==
    ASSUME NEW t \in [Fds -> Ends2], NEW x \in Fds
    PROVE  /\ Close(t, x) \in [Fds -> Ends2]
           /\ Close(t, x)[x] = Free
           /\ \A f \in Fds : f # x => Close(t, x)[f] = t[f]
BY DEF Close, Ends2

(* dup2 and close move what x names to y. *)
LEMMA RedirectIs ==
    ASSUME NEW t \in [Fds -> Ends2], NEW x \in Fds, NEW y \in Fds, x # y
    PROVE  /\ Redirect(t, x, y) \in [Fds -> Ends2]
           /\ Redirect(t, x, y)[x] = Free
           /\ Redirect(t, x, y)[y] = t[x]
           /\ \A f \in Fds : f # x /\ f # y => Redirect(t, x, y)[f] = t[f]
<1> DEFINE u == Dup2(t, x, y)
<1>1. u \in [Fds -> Ends2] /\ u[y] = t[x] /\ \A f \in Fds : f # y => u[f] = t[f]
  BY DEF Dup2
<1>2. Redirect(t, x, y) = Close(u, x)
  BY DEF Redirect
<1> HIDE DEF u
<1> QED
  BY <1>1, <1>2, CloseIs

(* No descriptors: all are free. *)
LEMMA NoFdsIs == NoFds \in [Fds -> Ends2] /\ \A f \in Fds : NoFds[f] = Free
BY DEF NoFds, Ends2

(* What each descriptor of command c names before execvp. *)
LEMMA RowIs ==
    ASSUME NEW n \in 1..MaxCommands, NEW c \in 1..n, NEW pid \in [Children -> PipeIds],
           NEW in, NEW out
    PROVE  /\ Row(n, c, in, out, pid) \in [Fds -> Ends2]
           /\ \A f \in Fds : Row(n, c, in, out, pid)[f]
                = IF f <= 2 THEN Std
                  ELSE IF c > 1 /\ f = in[1] THEN ReadEnd(pid[c - 1])
                  ELSE IF c < n /\ f = out[1] THEN ReadEnd(pid[c])
                  ELSE IF c < n /\ f = out[2] THEN WriteEnd(pid[c])
                  ELSE Free
<1>1. c \in Children /\ pid[c] \in PipeIds /\ (c > 1 => pid[c - 1] \in PipeIds)
  BY ConstantsOK DEF Children
<1>2. Free \in Ends2 /\ Std \in Ends2
      /\ \A p \in PipeIds : ReadEnd(p) \in Ends2 /\ WriteEnd(p) \in Ends2
  BY DEF Ends2, ReadEnd, WriteEnd
<1> QED
  BY <1>1, <1>2 DEF Row

(* What each names afterwards: two ends of pipes at most, as standard *)
(* streams.                                                           *)
LEMMA ExecRowIs ==
    ASSUME NEW n \in 1..MaxCommands, NEW c \in 1..n, NEW pid \in [Children -> PipeIds]
    PROVE  /\ ExecRow(n, c, pid) \in [Fds -> Ends2]
           /\ \A f \in Fds : ExecRow(n, c, pid)[f]
                = IF f = 0 /\ c > 1 THEN ReadEnd(pid[c - 1])
                  ELSE IF f = 1 /\ c < n THEN WriteEnd(pid[c])
                  ELSE IF f <= 2 THEN Std ELSE Free
<1>1. c \in Children /\ pid[c] \in PipeIds /\ (c > 1 => pid[c - 1] \in PipeIds)
  BY ConstantsOK DEF Children
<1>2. Free \in Ends2 /\ Std \in Ends2
      /\ \A p \in PipeIds : ReadEnd(p) \in Ends2 /\ WriteEnd(p) \in Ends2
  BY DEF Ends2, ReadEnd, WriteEnd
<1> QED
  BY <1>1, <1>2 DEF ExecRow

(* A command's descriptors are its own pipes on its standard streams. *)
LEMMA WiredIs ==
    ASSUME NEW n \in 1..MaxCommands, NEW c \in 1..n, NEW pid \in [Children -> PipeIds],
           NEW in, NEW out, Apart(n, c, in, out), n = process_num
    PROVE  ChildEnds(c, Row(n, c, in, out, pid), in, out) = ExecRow(n, c, pid)
<1> DEFINE t == Row(n, c, in, out, pid)
           u == Close(t, out[1])
           v == Close(t, in[2])
           w == Redirect(u, in[1], 0)
           x == ExecRow(n, c, pid)
<1>1. /\ t \in [Fds -> Ends2]
      /\ \A f \in Fds : t[f] = IF f <= 2 THEN Std
                  ELSE IF c > 1 /\ f = in[1] THEN ReadEnd(pid[c - 1])
                  ELSE IF c < n /\ f = out[1] THEN ReadEnd(pid[c])
                  ELSE IF c < n /\ f = out[2] THEN WriteEnd(pid[c])
                  ELSE Free
  BY RowIs
<1>2. in[1] \in Fds /\ in[2] \in Fds /\ out[1] \in Fds /\ out[2] \in Fds
  BY DEF Apart
<1>3. /\ x \in [Fds -> Ends2]
      /\ \A f \in Fds : x[f] = IF f = 0 /\ c > 1 THEN ReadEnd(pid[c - 1])
                  ELSE IF f = 1 /\ c < n THEN WriteEnd(pid[c])
                  ELSE IF f <= 2 THEN Std ELSE Free
  BY ExecRowIs
<1>u. u \in [Fds -> Ends2] /\ u[out[1]] = Free /\ \A f \in Fds : f # out[1] => u[f] = t[f]
  <2> HIDE DEF t
  <2> QED
    BY <1>1, <1>2, CloseIs
<1>v. v \in [Fds -> Ends2] /\ v[in[2]] = Free /\ \A f \in Fds : f # in[2] => v[f] = t[f]
  <2> HIDE DEF t
  <2> QED
    BY <1>1, <1>2, CloseIs
<1>4. CASE n = 1
  <2>1. c = 1
    BY <1>4
  <2>2. ChildEnds(c, t, in, out) = t
    BY <1>4 DEF ChildEnds
  <2>3. t = x
    <3> HIDE DEF t, x
    <3>1. \A f \in Fds : t[f] = x[f]
      BY <1>1, <1>3, <1>4, <2>1, ConstantsOK
    <3> QED
      BY <1>1, <1>3, <3>1, SameTable
  <2> QED
    BY <2>2, <2>3
<1>5. CASE n # 1 /\ c = 1
  <2> DEFINE y == Redirect(u, out[2], 1)
  <2>1. ChildEnds(c, t, in, out) = y
    BY <1>5 DEF ChildEnds
  <2>2. out[1] > 2 /\ out[2] > 2 /\ out[1] # out[2]
    BY <1>5 DEF Apart
  <2>3. /\ y \in [Fds -> Ends2] /\ y[out[2]] = Free /\ y[1] = u[out[2]]
        /\ \A f \in Fds : f # out[2] /\ f # 1 => y[f] = u[f]
    <3> HIDE DEF u
    <3> QED
      BY <1>u, <1>2, <2>2, RedirectIs, ConstantsOK
  <2>4. y = x
    <3> HIDE DEF t, u, v, w, x, y
    <3>1. \A f \in Fds : y[f] = x[f]
      BY <1>1, <1>2, <1>3, <1>u, <1>5, <2>2, <2>3, ConstantsOK
    <3> QED
      BY <1>3, <2>1, <2>3, <3>1, SameTable
  <2> QED
    BY <2>1, <2>4
<1>6. CASE c # 1 /\ c = n
  <2> DEFINE y == Redirect(v, in[1], 0)
  <2>1. ChildEnds(c, t, in, out) = y
    BY <1>6 DEF ChildEnds, IsLast
  <2>2. in[1] > 2 /\ in[2] > 2 /\ in[1] # in[2]
    BY <1>6 DEF Apart
  <2>3. /\ y \in [Fds -> Ends2] /\ y[in[1]] = Free /\ y[0] = v[in[1]]
        /\ \A f \in Fds : f # in[1] /\ f # 0 => y[f] = v[f]
    <3> HIDE DEF v
    <3> QED
      BY <1>v, <1>2, <2>2, RedirectIs, ConstantsOK
  <2>4. y = x
    <3> HIDE DEF t, u, v, w, x, y
    <3>1. \A f \in Fds : y[f] = x[f]
      BY <1>1, <1>2, <1>3, <1>v, <1>6, <2>2, <2>3, ConstantsOK
    <3> QED
      BY <1>3, <2>1, <2>3, <3>1, SameTable
  <2> QED
    BY <2>1, <2>4
<1>7. CASE c # 1 /\ c < n
  <2> DEFINE y == Redirect(w, out[2], 1)
  <2>1. ChildEnds(c, t, in, out) = y
    BY <1>7 DEF ChildEnds, IsLast
  <2>2. in[1] > 2 /\ in[2] > 2 /\ in[1] # in[2] /\ out[1] > 2 /\ out[2] > 2
        /\ out[1] # out[2] /\ in[1] # out[1] /\ in[1] # out[2]
    BY <1>7 DEF Apart
  <2>3. /\ w \in [Fds -> Ends2] /\ w[in[1]] = Free /\ w[0] = u[in[1]]
        /\ \A f \in Fds : f # in[1] /\ f # 0 => w[f] = u[f]
    <3> HIDE DEF u
    <3> QED
      BY <1>u, <1>2, <2>2, RedirectIs, ConstantsOK
  <2>4. /\ y \in [Fds -> Ends2] /\ y[out[2]] = Free /\ y[1] = w[out[2]]
        /\ \A f \in Fds : f # out[2] /\ f # 1 => y[f] = w[f]
    <3> HIDE DEF w
    <3> QED
      BY <1>2, <2>2, <2>3, RedirectIs, ConstantsOK
  <2>5. y = x
    <3> HIDE DEF t, u, v, w, x, y
    <3>1. \A f \in Fds : y[f] = x[f]
      BY <1>1, <1>2, <1>3, <1>u, <1>7, <2>2, <2>3, <2>4, ConstantsOK
    <3> QED
      BY <1>3, <2>1, <2>4, <3>1, SameTable
  <2> QED
    BY <1>7, <2>1, <2>5
<1> QED
  BY <1>4, <1>5, <1>6, <1>7

(* The shell keeps the reading end of its last pipe, then nothing. *)
LEMMA ParentIs ==
    ASSUME NEW n \in 1..MaxCommands, n = process_num, i \in 1..n,
           NEW pid \in [Children -> PipeIds], Apart(n, i, in_pipe, out_pipe)
    PROVE  ParentEnds(Row(n, i, in_pipe, out_pipe, pid))
             = IF i = n THEN Row(1, 1, out_pipe, out_pipe, pid)
                        ELSE Row(i + 1, i + 1, out_pipe, out_pipe, pid)
<1> DEFINE t == Row(n, i, in_pipe, out_pipe, pid)
           u == Close(t, in_pipe[1])
           x == Row(1, 1, out_pipe, out_pipe, pid)
           y == Row(i + 1, i + 1, out_pipe, out_pipe, pid)
<1>1. /\ t \in [Fds -> Ends2]
      /\ \A f \in Fds : t[f] = IF f <= 2 THEN Std
                  ELSE IF i > 1 /\ f = in_pipe[1] THEN ReadEnd(pid[i - 1])
                  ELSE IF i < n /\ f = out_pipe[1] THEN ReadEnd(pid[i])
                  ELSE IF i < n /\ f = out_pipe[2] THEN WriteEnd(pid[i])
                  ELSE Free
  BY RowIs
<1>2. in_pipe[1] \in Fds /\ out_pipe[1] \in Fds /\ out_pipe[2] \in Fds
  BY DEF Apart
<1>x. x \in [Fds -> Ends2] /\ \A f \in Fds : x[f] = IF f <= 2 THEN Std ELSE Free
  <2>1. 1 \in 1..MaxCommands /\ 1 \in 1..1 /\ ~(1 > 1) /\ ~(1 < 1)
    BY ConstantsOK
  <2> QED
    BY <2>1, RowIs
<1>y. i < n => /\ y \in [Fds -> Ends2]
               /\ \A f \in Fds : y[f] = IF f <= 2 THEN Std
                    ELSE IF f = out_pipe[1] THEN ReadEnd(pid[i]) ELSE Free
  <2> SUFFICES ASSUME i < n PROVE /\ y \in [Fds -> Ends2]
               /\ \A f \in Fds : y[f] = IF f <= 2 THEN Std
                    ELSE IF f = out_pipe[1] THEN ReadEnd(pid[i]) ELSE Free
    OBVIOUS
  <2>1. i + 1 \in 1..MaxCommands /\ i + 1 \in 1..(i + 1) /\ (i + 1) - 1 = i /\ i + 1 > 1
        /\ ~(i + 1 < i + 1)
    BY ConstantsOK
  <2> QED
    BY <2>1, RowIs
<1>u. u \in [Fds -> Ends2] /\ u[in_pipe[1]] = Free
      /\ \A f \in Fds : f # in_pipe[1] => u[f] = t[f]
  <2> HIDE DEF t
  <2> QED
    BY <1>1, <1>2, CloseIs
<1>4. CASE n = 1
  <2>1. ParentEnds(t) = t /\ i = 1
    BY <1>4 DEF ParentEnds
  <2>2. t = x
    <3> HIDE DEF t, u, x, y
    <3>1. \A f \in Fds : t[f] = x[f]
      BY <1>1, <1>x, <1>4, <2>1
    <3> QED
      BY <1>1, <1>x, <1>4, <2>1, <3>1, SameTable
  <2> QED
    BY <1>4, <2>1, <2>2
<1>5. CASE n # 1 /\ i = 1
  <2> DEFINE z == Close(t, out_pipe[2])
  <2>1. ParentEnds(t) = z
    BY <1>5 DEF ParentEnds
  <2>2. z \in [Fds -> Ends2] /\ z[out_pipe[2]] = Free
        /\ \A f \in Fds : f # out_pipe[2] => z[f] = t[f]
    <3> HIDE DEF t
    <3> QED
      BY <1>1, <1>2, CloseIs
  <2>3. out_pipe[1] > 2 /\ out_pipe[2] > 2 /\ out_pipe[1] # out_pipe[2] /\ i < n
    BY <1>5 DEF Apart
  <2>4. z = y
    <3> HIDE DEF t, u, x, y, z
    <3>1. \A f \in Fds : z[f] = y[f]
      BY <1>1, <1>2, <1>5, <1>y, <2>2, <2>3, ConstantsOK
    <3> QED
      BY <1>5, <1>y, <2>1, <2>2, <2>3, <3>1, SameTable
  <2> QED
    BY <1>5, <2>1, <2>4
<1>6. CASE i # 1 /\ i = n
  <2>1. ParentEnds(t) = u
    BY <1>6 DEF ParentEnds, IsLast
  <2>3. in_pipe[1] > 2 /\ i > 1
    BY <1>6 DEF Apart
  <2>4. u = x
    <3> HIDE DEF t, u, x, y
    <3>1. \A f \in Fds : u[f] = x[f]
      BY <1>1, <1>2, <1>6, <1>x, <1>u, <2>3, ConstantsOK
    <3> QED
      BY <1>6, <1>x, <1>u, <2>1, <3>1, SameTable
  <2> QED
    BY <1>6, <2>1, <2>4
<1>7. CASE i # 1 /\ i < n
  <2> DEFINE z == Close(u, out_pipe[2])
  <2>1. ParentEnds(t) = z
    BY <1>7 DEF ParentEnds, IsLast
  <2>2. z \in [Fds -> Ends2] /\ z[out_pipe[2]] = Free
        /\ \A f \in Fds : f # out_pipe[2] => z[f] = u[f]
    <3> HIDE DEF u
    <3> QED
      BY <1>2, <1>u, CloseIs
  <2>3. in_pipe[1] > 2 /\ out_pipe[1] > 2 /\ out_pipe[2] > 2 /\ out_pipe[1] # out_pipe[2]
        /\ in_pipe[1] # out_pipe[1] /\ in_pipe[1] # out_pipe[2]
    BY <1>7 DEF Apart
  <2>4. z = y
    <3> HIDE DEF t, u, x, y, z
    <3>1. \A f \in Fds : z[f] = y[f]
      BY <1>1, <1>2, <1>7, <1>u, <1>y, <2>2, <2>3, ConstantsOK
    <3> QED
      BY <1>7, <1>y, <2>1, <2>2, <3>1, SameTable
  <2> QED
    BY <1>7, <2>1, <2>4
<1> QED
  BY <1>4, <1>5, <1>6, <1>7

(* Which pipes the ends in a table are of. *)
LEMMA RowHolds ==
    ASSUME NEW n \in Nat, NEW c \in Nat, NEW in, NEW out, NEW pid, NEW f \in Fds, NEW p,
           p \in Nat \ {0},
           \/ Row(n, c, in, out, pid)[f] \in {ReadEnd(p), WriteEnd(p)}
           \/ ExecRow(n, c, pid)[f] \in {ReadEnd(p), WriteEnd(p)}
           \/ NoFds[f] \in {ReadEnd(p), WriteEnd(p)}
    PROVE  (c > 1 /\ p = pid[c - 1]) \/ (c < n /\ p = pid[c])
BY DEF Row, ExecRow, NoFds, Free, Std, ReadEnd, WriteEnd

----------------------------------------------------------------------------
(* What the invariant says of a command that was started *)

(* The number of commands of a line is within its bound. *)
LEMMA NumIs == ASSUME Types PROVE process_num \in Nat /\ process_num <= MaxCommands
<1>1. commands \in Seq(Seq(STRING)) /\ process_num <= MaxCommands
  BY DEF Types
<1>2. Len(commands) \in Nat
  BY <1>1
<1> QED
  BY <1>1, <1>2 DEF process_num

(* The command that main is at has a number. *)
LEMMA PlaceIs == ASSUME Types PROVE i \in Nat /\ i >= 1
<1>1. i \in 1..(MaxCommands + 1)
  BY DEF Types
<1> QED
  BY <1>1

(* A child that is there belongs to the line, and main has come as far. *)
LEMMA Commanded ==
    ASSUME Types, Stages, NEW c \in Children, status[c] # "none"
    PROVE  /\ pc # "prompt"
           /\ process_num \in 1..MaxCommands /\ c \in 1..process_num
           /\ pc \in InLine => c <= i
<1>1. c \in Nat /\ c >= 1 /\ process_num \in Nat /\ process_num <= MaxCommands /\ i \in Nat
  BY NumIs, PlaceIs, ConstantsOK DEF Children
<1>2. c <= process_num /\ pc # "prompt"
  BY DEF Stages
<1>3. pc \in InLine => c <= i
  BY <1>1 DEF Stages, InLine
<1> QED
  BY <1>1, <1>2, <1>3, ConstantsOK

(* While main makes the row it is at one of its commands. *)
LEMMA InLineIs ==
    ASSUME Types, Stages, pc \in InLine
    PROVE  process_num \in 1..MaxCommands /\ i \in 1..process_num
<1>1. process_num \in Nat /\ process_num <= MaxCommands /\ i \in Nat /\ i >= 1
  BY NumIs, PlaceIs
<1>2. i <= process_num
  BY DEF Stages
<1> QED
  BY <1>1, <1>2, ConstantsOK

(* Redirecting both streams of a command makes the table it runs with. *)
LEMMA WiredFds ==
    ASSUME Types, Stages, NEW pid, Wires(pid), NEW c \in Children, status[c] = "forked"
    PROVE  Wired(c) = ExecRow(process_num, c, pid)
<1>1. process_num \in 1..MaxCommands /\ c \in 1..process_num
  BY Commanded
<1>2. /\ pid \in [Children -> PipeIds]
      /\ Apart(process_num, c, copy[c][1], copy[c][2])
      /\ fds[c] = Row(process_num, c, copy[c][1], copy[c][2], pid)
  BY DEF Wires, ChildTable
<1> QED
  BY <1>1, <1>2, WiredIs DEF Wired

(* A command that runs has its standard streams and nothing else. *)
LEMMA ExecutedFds ==
    ASSUME Types, Stages, NEW pid, Wires(pid), NEW c \in Children, status[c] \in Executed
    PROVE  \A f \in Fds : fds[c][f] = IF f = 0 /\ c > 1 THEN ReadEnd(pid[c - 1])
                  ELSE IF f = 1 /\ c < process_num THEN WriteEnd(pid[c])
                  ELSE IF f <= 2 THEN Std ELSE Free
<1>1. process_num \in 1..MaxCommands /\ c \in 1..process_num
  BY Commanded DEF Executed
<1>2. pid \in [Children -> PipeIds] /\ fds[c] = ExecRow(process_num, c, pid)
  BY DEF Wires, ChildTable, Executed
<1> QED
  BY <1>1, <1>2, ExecRowIs

(* Somebody holds the reading end of a pipe that is still to be read ... *)
LEMMA ReaderThere ==
    ASSUME Types, Stages, NEW pid, Wires(pid), NEW c \in 2..process_num,
           pc \in InLine \cup {"wait"}, Live(c)
    PROVE  Held(ReadEnd(pid[c - 1]))
<1> DEFINE n == process_num
<1>1. n \in 1..MaxCommands /\ c \in Children /\ c \in 1..n /\ c > 1 /\ c \in Procs
  <2>1. process_num \in Nat /\ process_num <= MaxCommands /\ MaxCommands \in Nat
    BY NumIs, ConstantsOK
  <2> QED
    BY <2>1 DEF Children, Procs
<1>2. SUFFICES \E q \in Procs, f \in Fds : fds[q][f] = ReadEnd(pid[c - 1])
  BY DEF Held
<1>3. pid \in [Children -> PipeIds]
  BY DEF Wires
<1>4. CASE status[c] = "forked"
  <2>1. /\ Apart(n, c, copy[c][1], copy[c][2])
        /\ fds[c] = Row(n, c, copy[c][1], copy[c][2], pid)
    BY <1>1, <1>4 DEF Wires, ChildTable
  <2>2. copy[c][1][1] \in Fds /\ copy[c][1][1] > 2
    BY <1>1, <2>1 DEF Apart
  <2>3. ~(copy[c][1][1] <= 2)
    BY <2>2, ConstantsOK
  <2>4. fds[c][copy[c][1][1]] = ReadEnd(pid[c - 1])
    BY <1>1, <1>3, <2>1, <2>2, <2>3, RowIs
  <2> QED
    BY <1>1, <2>2, <2>4
<1>5. CASE status[c] \in Executed
  <2>1. fds[c][0] = ReadEnd(pid[c - 1])
    BY <1>1, <1>5, ExecutedFds, ConstantsOK
  <2> QED
    BY <1>1, <2>1, ConstantsOK
<1>6. CASE status[c] = "none"
  <2>1. pc \in InLine
    BY <1>6 DEF Live, Over
  <2>2. n \in 1..MaxCommands /\ i \in 1..n
    BY <2>1, InLineIs
  <2>3. Shell \in Procs
    BY DEF Procs
  <2>4. CASE c = i
    <3>0. pc \in {"pipe", "fork"}
      BY <1>1, <1>6, <2>1, <2>4 DEF Stages, InLine
    <3>1. Apart(i, i, in_pipe, out_pipe) \/ Apart(n, i, in_pipe, out_pipe)
      BY <3>0 DEF Wires
    <3>2. in_pipe[1] \in Fds /\ in_pipe[1] > 2
      BY <1>1, <2>4, <3>1 DEF Apart
    <3>3. ~(in_pipe[1] <= 2)
      BY <3>2, ConstantsOK
    <3>4. \/ fds[Shell] = Row(i, i, in_pipe, out_pipe, pid)
          \/ fds[Shell] = Row(n, i, in_pipe, out_pipe, pid)
      BY <3>0 DEF Wires, ShellTable
    <3>5. i \in 1..MaxCommands /\ i \in 1..i
      BY <2>2, ConstantsOK
    <3>6. fds[Shell][in_pipe[1]] = ReadEnd(pid[c - 1])
      BY <1>1, <1>3, <2>2, <2>4, <3>2, <3>3, <3>4, <3>5, RowIs
    <3> QED
      BY <2>3, <3>2, <3>6
  <2>5. CASE c = i + 1 /\ pc \in {"fork", "close"}
    <3>1. Apart(n, i, in_pipe, out_pipe) /\ fds[Shell] = Row(n, i, in_pipe, out_pipe, pid)
      BY <2>5 DEF Wires, ShellTable
    <3>2. out_pipe[1] \in Fds /\ out_pipe[1] > 2 /\ i < n /\ c - 1 = i
          /\ (i > 1 => out_pipe[1] # in_pipe[1])
      BY <1>1, <2>2, <2>5, <3>1 DEF Apart
    <3>3. ~(out_pipe[1] <= 2)
      BY <3>2, ConstantsOK
    <3>4. fds[Shell][out_pipe[1]] = ReadEnd(pid[i])
      BY <1>3, <2>2, <3>1, <3>2, <3>3, RowIs
    <3> QED
      BY <2>3, <3>2, <3>4
  <2> QED
    BY <1>1, <1>6, <2>1, <2>2, <2>4, <2>5 DEF Live, Stages, InLine
<1>7. status[c] \in {"none", "forked", "sh", "running", "waited", "zombie"}
      /\ status[c] # "zombie"
  BY <1>1 DEF Types, Live, Over
<1> QED
  BY <1>4, <1>5, <1>6, <1>7 DEF Executed

(* ... and the writing end, while the command before it is not over. *)
LEMMA WriterThere ==
    ASSUME Types, Stages, NEW pid, Wires(pid), NEW c \in 2..process_num,
           pc \in InLine \cup {"wait"}, status[c] = "running", ~Over(c - 1)
    PROVE  Held(WriteEnd(pid[c - 1]))
<1> DEFINE n == process_num
           d == c - 1
<1>1. n \in 1..MaxCommands /\ d \in Children /\ c \in Children /\ d \in 1..n /\ d < n /\ d \in Procs
  <2>1. process_num \in Nat /\ process_num <= MaxCommands /\ MaxCommands \in Nat
    BY NumIs, ConstantsOK
  <2> QED
    BY <2>1 DEF Children, Procs
<1>2. status[d] # "none" /\ status[d] # "zombie"
  <2>1. status[d] # "zombie" /\ ~(status[d] = "none" /\ pc = "wait")
    BY DEF Over
  <2>2. CASE pc \in {"pipe", "fork"}
    <3>1. ~(c >= i)
      BY <1>1, <2>2 DEF Stages
    <3>2. ~(d >= i)
      BY <1>1, <3>1 DEF Types
    <3> QED
      BY <1>1, <2>1, <2>2, <3>2 DEF Stages
  <2>3. CASE pc = "close"
    <3>1. ~(c > i)
      BY <1>1, <2>3 DEF Stages
    <3>2. ~(d > i)
      BY <1>1, <3>1 DEF Types
    <3> QED
      BY <1>1, <2>1, <2>3, <3>2 DEF Stages
  <2> QED
    BY <2>1, <2>2, <2>3 DEF InLine
<1>3. pid \in [Children -> PipeIds]
  BY DEF Wires
<1>4. SUFFICES \E q \in Procs, f \in Fds : fds[q][f] = WriteEnd(pid[d])
  BY DEF Held
<1> HIDE DEF d
<1>5. CASE status[d] = "forked"
  <2>1. /\ Apart(n, d, copy[d][1], copy[d][2])
        /\ fds[d] = Row(n, d, copy[d][1], copy[d][2], pid)
    BY <1>1, <1>5 DEF Wires, ChildTable
  <2>2. copy[d][2][2] \in Fds /\ copy[d][2][2] > 2 /\ copy[d][2][2] # copy[d][2][1]
        /\ (d > 1 => copy[d][2][2] # copy[d][1][1])
    BY <1>1, <2>1 DEF Apart
  <2>3. ~(copy[d][2][2] <= 2)
    BY <2>2, ConstantsOK
  <2>4. fds[d][copy[d][2][2]] = WriteEnd(pid[d])
    BY <1>1, <1>3, <2>1, <2>2, <2>3, RowIs
  <2> QED
    BY <1>1, <2>2, <2>4
<1>6. CASE status[d] \in Executed
  <2>1. fds[d][1] = WriteEnd(pid[d])
    BY <1>1, <1>6, ExecutedFds, ConstantsOK
  <2> QED
    BY <1>1, <2>1, ConstantsOK
<1>7. status[d] \in {"none", "forked", "sh", "running", "waited", "zombie"}
  BY <1>1 DEF Types
<1> QED
  BY <1>2, <1>5, <1>6, <1>7 DEF Executed

(* The commands of a row of filters are executed by the shell itself. *)
LEMMA PlainCommands ==
    ASSUME Types, OnlyFiltersAfterSource, NEW c \in 1..process_num
    PROVE  /\ ~InSh(c) /\ commands[c] # <<"bad">>
           /\ c = 1 => What(c) = "source" /\ ~Filters(c)
           /\ c # 1 => What(c) \in {"filter", "stdin_echo"} /\ Filters(c)
<1>1. CASE c = 1
  <2>1. commands[c] = <<"source">>
    BY <1>1 DEF OnlyFiltersAfterSource
  <2>2. What(c) = "source"
    BY <2>1 DEF What, Last
  <2> QED
    BY <1>1, <2>1, <2>2 DEF InSh, Filters
<1>2. CASE c # 1
  <2>1. c \in 2..process_num
    BY <1>2
  <2>2. Filters(c) /\ ~InSh(c)
    BY <2>1 DEF OnlyFiltersAfterSource
  <2>3. What(c) \in {"filter", "stdin_echo"}
    BY <2>2 DEF Filters
  <2>4. ASSUME commands[c] = <<"bad">> PROVE FALSE
    <3>1. What(c) = "bad"
      BY <2>4 DEF What, Last
    <3> QED
      BY <2>3, <3>1
  <2> QED
    BY <1>2, <2>2, <2>3, <2>4
<1> QED
  BY <1>1, <1>2

----------------------------------------------------------------------------
(* A step of a child *)

(* A step of a child that changes its own table and phase alone keeps the *)
(* rest.                                                                  *)
LEMMA ChildKeeps ==
    ASSUME Types, Stages, NEW pid, Wires(pid), NEW c \in Children, status[c] # "none",
           NEW s \in {"sh", "running", "waited", "zombie"}, NEW l \in 0..(Items + 1),
           status' = [status EXCEPT ![c] = s],
           fds' = [fds EXCEPT ![c] = ChildTable(s, process_num, c, copy[c], pid)],
           left' = [left EXCEPT ![c] = l],
           UNCHANGED <<input, at, limit, shell, copy, started>>,
           content' \in [PipeIds -> 0..Capacity], delivered' \in Nat,
           offset' \in 0..Len(input),
           s \in {"sh", "waited"} => InSh(c), s # "running" => l = 0
    PROVE  Types' /\ Stages' /\ Wires(pid)' /\ AllDelivered'
<1>1. /\ pc # "prompt" /\ process_num \in 1..MaxCommands /\ c \in 1..process_num
      /\ c # Shell /\ c \in Procs /\ Shell \in Procs
  BY Commanded DEF Children, Shell, Procs
<1>2. /\ input' = input /\ at' = at /\ limit' = limit /\ copy' = copy /\ started' = started
      /\ pc' = pc /\ commands' = commands /\ i' = i /\ k' = k
      /\ in_pipe' = in_pipe /\ out_pipe' = out_pipe /\ process_num' = process_num
  BY DEF shell, process_num
<1>3. /\ status'[c] = s /\ left'[c] = l
      /\ \A d \in Children : d # c => status'[d] = status[d] /\ left'[d] = left[d]
      /\ \A d \in Children : (status'[d] = "none") <=> (status[d] = "none")
  BY DEF Types
<1>4. /\ fds'[c] = ChildTable(s, process_num, c, copy[c], pid)
      /\ \A q \in Procs : q # c => fds'[q] = fds[q]
  BY <1>1 DEF Types
<1>5. pid \in [Children -> PipeIds]
  BY DEF Wires
<1>6. ChildTable(s, process_num, c, copy[c], pid) \in [Fds -> Ends2]
  <2>1. s # "forked"
    OBVIOUS
  <2> QED
    BY <1>1, <1>5, <2>1, ExecRowIs, NoFdsIs DEF ChildTable
<1>7. Types'
  <2>1. fds' \in [Procs -> [Fds -> Ends2]]
    BY <1>6 DEF Types
  <2>2. status' \in [Children -> {"none", "forked", "sh", "running", "waited", "zombie"}]
        /\ left' \in [Children -> 0..(Items + 1)]
    BY DEF Types
  <2>3. /\ input' \in Inputs /\ limit' \in {0, Len(input')} /\ at' \in 0..limit'
        /\ pc' \in {"prompt", "pipe", "fork", "close", "wait", "exited"}
        /\ commands' \in Seq(Seq(STRING)) /\ process_num' <= MaxCommands
        /\ i' \in 1..(MaxCommands + 1) /\ k' \in 0..MaxCommands
        /\ in_pipe' \in Fds \X Fds /\ out_pipe' \in Fds \X Fds
        /\ started' \in Seq(Nat)
    BY <1>2 DEF Types
  <2>4. /\ \A d \in 1..process_num' : Len(commands'[d]) >= 1
        /\ DOMAIN copy' = Children /\ copy' = [d \in Children |-> copy'[d]]
    BY <1>2 DEF Types
  <2>5. offset' \in 0..Len(input')
    BY <1>2
  <2> QED
    BY <2>1, <2>2, <2>3, <2>4, <2>5 DEF Types
<1>8. Stages'
  <2>1. {d \in Children : status'[d] # "none"} = {d \in Children : status[d] # "none"}
    BY <1>3
  <2>2. InSh(c)' <=> InSh(c)
    BY <1>2 DEF InSh
  <2>3. \A d \in Children : InSh(d)' <=> InSh(d)
    BY <1>2 DEF InSh
  <2>4. \A d \in Children : status'[d] # "none" =>
         /\ d <= process_num' /\ at' >= 1 /\ commands' = input'[at']
         /\ status'[d] \in {"sh", "waited"} => InSh(d)'
         /\ status'[d] # "running" => left'[d] = 0
         /\ status'[d] = "forked" => copy'[d][3] = limit' - at'
    <3> SUFFICES ASSUME NEW d \in Children, status'[d] # "none"
                 PROVE  /\ d <= process_num' /\ at' >= 1 /\ commands' = input'[at']
                        /\ status'[d] \in {"sh", "waited"} => InSh(d)'
                        /\ status'[d] # "running" => left'[d] = 0
                        /\ status'[d] = "forked" => copy'[d][3] = limit' - at'
      OBVIOUS
    <3>1. d <= process_num' /\ at' >= 1 /\ commands' = input'[at']
      BY <1>2, <1>3 DEF Stages
    <3>2. CASE d = c
      BY <1>3, <2>3, <3>1, <3>2
    <3>3. CASE d # c
      BY <1>2, <1>3, <2>3, <3>1, <3>3 DEF Stages
    <3> QED
      BY <3>2, <3>3
  <2>5. \A d \in Children : status'[d] = "none" => left'[d] = 0
    BY <1>3 DEF Stages
  <2>6. pc' = "wait" => i' = process_num' + 1
                        /\ k' = Cardinality({d \in Children : status'[d] # "none"})
    BY <1>2, <2>1 DEF Stages
  <2>7. pc' \in InLine => i' <= process_num' /\ at' >= 1 /\ commands' = input'[at']
    BY <1>2 DEF Stages
  <2>8. /\ pc' \in {"pipe", "fork"} => \A d \in Children : (status'[d] = "none") <=> (d >= i')
        /\ pc' = "close" => \A d \in Children : (status'[d] = "none") <=> (d > i')
    BY <1>2, <1>3 DEF Stages
  <2> QED
    BY <1>1, <1>2, <2>4, <2>5, <2>6, <2>7, <2>8 DEF Stages
<1>9. Wires(pid)'
  <2>1. \A d \in Children :
         /\ status'[d] = "forked" => Apart(process_num', d, copy'[d][1], copy'[d][2])
         /\ fds'[d] = ChildTable(status'[d], process_num', d, copy'[d], pid)
    <3> SUFFICES ASSUME NEW d \in Children
                 PROVE  /\ status'[d] = "forked" => Apart(process_num', d, copy'[d][1], copy'[d][2])
                        /\ fds'[d] = ChildTable(status'[d], process_num', d, copy'[d], pid)
      OBVIOUS
    <3>1. CASE d = c
      BY <1>2, <1>3, <1>4, <3>1
    <3>2. CASE d # c
      <4>1. d \in Procs
        BY DEF Procs
      <4> QED
        BY <1>2, <1>3, <1>4, <3>2, <4>1 DEF Wires
    <3> QED
      BY <3>1, <3>2
  <2>2. fds'[Shell] = ShellTable(pc', process_num', i', in_pipe', out_pipe', pid)
    BY <1>1, <1>2, <1>4 DEF Wires
  <2> QED
    BY <1>2, <1>5, <2>1, <2>2 DEF Wires
<1> QED
  BY <1>1, <1>2, <1>7, <1>8, <1>9 DEF AllDelivered

(* Whether the row is one of filters depends on the shell alone. *)
LEMMA FlowsKeeps ==
    ASSUME UNCHANGED shell
    PROVE  /\ Flows' <=> Flows
           /\ process_num' = process_num
           /\ \A c : Own(c)' = Own(c)
<1>1. pc' = pc /\ commands' = commands
  BY DEF shell
<1> QED
  BY <1>1 DEF Flows, OnlyFiltersAfterSource, process_num, Filters, InSh, What, Own

(* A child's new phase is no other child's. *)
LEMMA ChildPhases ==
    ASSUME Types, NEW c \in Children, NEW s \in {"sh", "running", "waited", "zombie"},
           status' = [status EXCEPT ![c] = s], UNCHANGED shell
    PROVE  /\ \A d \in Children : d # c =>
                /\ NotYet(d)' <=> NotYet(d)
                /\ Over(d)' <=> Over(d)
                /\ Live(d)' <=> Live(d)
                /\ Given(d)' = Given(d)
           /\ ~NotYet(c)' /\ Given(c)' = Own(c)
           /\ Over(c)' <=> s = "zombie"
           /\ Live(c)' => s # "zombie"
           /\ Live(c)' /\ ~Over(c) => Live(c)
<1>1. pc' = pc /\ commands' = commands /\ i' = i
  BY DEF shell
<1>2. /\ status'[c] = s
      /\ \A d \in Children : d # c => status'[d] = status[d]
  BY DEF Types
<1>3. \A d : Own(d)' = Own(d)
  BY FlowsKeeps
<1>4. \A d \in Children : d # c => /\ NotYet(d)' <=> NotYet(d)
                                   /\ Over(d)' <=> Over(d)
  BY <1>1, <1>2 DEF NotYet, Over
<1>5. ~NotYet(c)' /\ (Over(c)' <=> s = "zombie")
  BY <1>1, <1>2 DEF NotYet, Over
<1> QED
  BY <1>1, <1>3, <1>4, <1>5 DEF Live, Given

(* A command has a bounded number of items of its own. *)
LEMMA OwnNat == \A c : Own(c) \in 0..(Items + 1)
BY ConstantsOK DEF Own

(* The numbers that the flow of items speaks of. *)
LEMMA FlowTypes ==
    ASSUME Types, NEW pid, Wires(pid), NEW sent, Flow(pid, sent)
    PROVE  /\ sent \in [Children -> Nat]
           /\ \A c \in 1..process_num : c \in Children /\ sent[c] \in Nat /\ left[c] \in Nat
           /\ \A c \in 2..process_num : /\ c - 1 \in Children /\ c - 1 \in 1..process_num
                                        /\ pid[c - 1] \in PipeIds
                                        /\ sent[c - 1] \in Nat /\ content[pid[c - 1]] \in Nat
<1>1. sent \in [Children -> Nat] /\ left \in [Children -> 0..(Items + 1)]
      /\ content \in [PipeIds -> 0..Capacity] /\ pid \in [Children -> PipeIds]
  BY DEF Flow, Types, Wires
<1>2. process_num \in Nat /\ process_num <= MaxCommands /\ MaxCommands \in Nat
  BY NumIs, ConstantsOK
<1>3. \A c \in 1..process_num : c \in Children
  BY <1>2 DEF Children
<1>4. \A c \in 2..process_num : c - 1 \in 1..process_num
  BY <1>2
<1> QED
  BY <1>1, <1>3, <1>4, ConstantsOK

(* A command that starts has its own items to say. *)
LEMMA ExecFlow ==
    ASSUME Types, Stages, NEW pid, Wires(pid), NEW sent, Flow(pid, sent),
           NEW c \in Children, status[c] = "forked",
           status' = [status EXCEPT ![c] = "running"],
           left' = [left EXCEPT ![c] = Own(c)],
           UNCHANGED <<shell, content, delivered>>
    PROVE  Flow(pid, sent)'
<1>1. process_num' = process_num /\ \A d : Own(d)' = Own(d)
  BY FlowsKeeps
<1>2. /\ \A d \in Children : d # c =>
           /\ NotYet(d)' <=> NotYet(d)
           /\ Over(d)' <=> Over(d)
           /\ Live(d)' <=> Live(d)
           /\ Given(d)' = Given(d)
      /\ ~NotYet(c)' /\ Given(c)' = Own(c) /\ ~Over(c)'
      /\ Live(c)' /\ ~Over(c) => Live(c)
  BY ChildPhases
<1>3. ~Over(c) /\ NotYet(c) /\ Given(c) = 0 /\ left[c] = 0
  BY DEF Over, NotYet, Given, Stages
<1>4. /\ left'[c] = Own(c) /\ \A d \in Children : d # c => left'[d] = left[d]
      /\ content' = content /\ delivered' = delivered /\ Own(c) \in Nat
  BY OwnNat, ConstantsOK DEF Types
<1>5. /\ \A d \in 1..process_num : d \in Children /\ sent[d] \in Nat /\ left[d] \in Nat
      /\ \A d \in 2..process_num : /\ d - 1 \in Children /\ d - 1 \in 1..process_num
                                   /\ sent[d - 1] \in Nat /\ content[pid[d - 1]] \in Nat
  BY FlowTypes
<1>6. sent[1] + left'[1] = Given(1)'
  <2>1. 1 \in Children /\ sent[1] + left[1] = Given(1) /\ sent[1] \in Nat
    BY ConstantsOK DEF Flow, Children
  <2>2. CASE c = 1
    <3>1. sent[1] = 0
      BY <1>3, <2>1, <2>2
    <3> QED
      BY <1>2, <1>4, <2>2, <3>1
  <2>3. CASE c # 1
    BY <1>2, <1>4, <2>1, <2>3
  <2> QED
    BY <2>2, <2>3
<1>7. ASSUME NEW d \in 2..process_num
      PROVE  /\ Live(d)' => content'[pid[d - 1]] + sent[d] + left'[d] = sent[d - 1] + Given(d)'
             /\ Over(d)' => Over(d - 1)' /\ sent[d] = sent[d - 1] + Own(d)'
             /\ \A e \in 2..process_num : Live(d)' /\ Live(e)' /\ d # e => pid[d - 1] # pid[e - 1]
  <2>1. d \in Children /\ d - 1 \in Children /\ d \in 1..process_num
        /\ sent[d] \in Nat /\ sent[d - 1] \in Nat /\ content[pid[d - 1]] \in Nat
    BY <1>5
  <2>2. Live(d)' => content'[pid[d - 1]] + sent[d] + left'[d] = sent[d - 1] + Given(d)'
    <3>1. CASE d = c
      <4> SUFFICES ASSUME Live(c)'
                   PROVE  content[pid[d - 1]] + sent[d] + Own(c) = sent[d - 1] + Own(c)
        BY <1>2, <1>4, <3>1
      <4>1. content[pid[d - 1]] + sent[d] + left[d] = sent[d - 1] + Given(d)
        BY <1>2, <1>3, <3>1 DEF Flow
      <4> QED
        BY <1>3, <1>4, <2>1, <3>1, <4>1
    <3>2. CASE d # c
      BY <1>2, <1>4, <2>1, <3>2 DEF Flow
    <3> QED
      BY <3>1, <3>2
  <2>3. Over(d)' => Over(d - 1)' /\ sent[d] = sent[d - 1] + Own(d)'
    <3> SUFFICES ASSUME Over(d)' PROVE Over(d - 1)' /\ sent[d] = sent[d - 1] + Own(d)'
      OBVIOUS
    <3>1. Over(d) /\ Over(d - 1) /\ sent[d] = sent[d - 1] + Own(d)
      BY <1>2, <2>1 DEF Flow
    <3>2. d - 1 # c
      BY <1>3, <3>1
    <3>3. Over(d - 1)'
      BY <1>2, <2>1, <3>1, <3>2
    <3> QED
      BY <1>1, <3>1, <3>3
  <2>4. \A e \in 2..process_num : Live(d)' /\ Live(e)' /\ d # e => pid[d - 1] # pid[e - 1]
    <3>1. \A e \in 2..process_num : Live(e)' => Live(e)
      BY <1>2, <1>3, <1>5
    <3> QED
      BY <3>1 DEF Flow
  <2> QED
    BY <2>2, <2>3, <2>4
<1>8. \A d \in 1..process_num : NotYet(d)' => sent[d] = 0
  BY <1>2, <1>5 DEF Flow
<1>9. sent \in [Children -> Nat] /\ sent[process_num] = delivered'
  BY <1>4 DEF Flow
<1> QED
  BY <1>1, <1>6, <1>7, <1>8, <1>9 DEF Flow

(* If no phase changes, nothing that depends on the phases does. *)
LEMMA SamePhases ==
    ASSUME status' = status, UNCHANGED shell
    PROVE  \A d : /\ NotYet(d)' <=> NotYet(d)
                  /\ Over(d)' <=> Over(d)
                  /\ Live(d)' <=> Live(d)
                  /\ Given(d)' = Given(d)
                  /\ Own(d)' = Own(d)
<1>1. pc' = pc /\ commands' = commands /\ i' = i
  BY DEF shell
<1>2. \A d : Own(d)' = Own(d)
  BY FlowsKeeps
<1>3. \A d : (NotYet(d)' <=> NotYet(d)) /\ (Over(d)' <=> Over(d))
  BY <1>1 DEF NotYet, Over
<1> QED
  BY <1>1, <1>2, <1>3 DEF Live, Given

(* The pipes of a command that runs are there. *)
LEMMA LiveAround ==
    ASSUME Types, Stages, NEW c \in Children, status[c] = "running",
           pc \in InLine \cup {"wait"}
    PROVE  /\ ~Over(c) /\ ~NotYet(c)
           /\ c > 1 => Live(c)
           /\ c < process_num /\ ~Over(c + 1) => Live(c + 1)
<1>1. c \in 1..process_num /\ process_num \in Nat /\ (pc \in InLine => c <= i)
      /\ (pc = "wait" => i = process_num + 1) /\ i \in Nat
  <2>1. c \in 1..process_num /\ process_num \in Nat /\ (pc \in InLine => c <= i)
    BY Commanded, NumIs
  <2>2. i \in Nat
    BY PlaceIs
  <2>3. pc = "wait" => i = process_num + 1
    BY DEF Stages
  <2> QED
    BY <2>1, <2>2, <2>3
<1>2. pc \in {"pipe", "fork"} => c < i
  BY <1>1 DEF Stages
<1>3. ~Over(c) /\ ~NotYet(c)
  BY DEF Over, NotYet
<1> QED
  BY <1>1, <1>2, <1>3 DEF Live, InLine

(* An item written is in the next pipe, or delivered. *)
LEMMA WriteFlow ==
    ASSUME Types, Stages, NEW pid, Wires(pid), NEW sent, Flow(pid, sent),
           NEW c \in Children, status[c] = "running", left[c] > 0,
           pc \in InLine \cup {"wait"},
           left' = [left EXCEPT ![c] = left[c] - 1],
           c = process_num => delivered' = delivered + 1 /\ content' = content,
           c # process_num => /\ content' = [content EXCEPT ![pid[c]] = content[pid[c]] + 1]
                              /\ delivered' = delivered,
           UNCHANGED <<shell, status>>
    PROVE  Flow(pid, [sent EXCEPT ![c] = sent[c] + 1])'
<1> DEFINE sent2 == [sent EXCEPT ![c] = sent[c] + 1]
           n == process_num
<1>1. n' = n /\ n \in Nat /\ c \in 1..n /\ left[c] \in Nat
  BY FlowsKeeps, Commanded, NumIs, FlowTypes
<1>2. \A d : /\ NotYet(d)' <=> NotYet(d)
             /\ Over(d)' <=> Over(d)
             /\ Live(d)' <=> Live(d)
             /\ Given(d)' = Given(d)
             /\ Own(d)' = Own(d)
  BY SamePhases
<1>3. /\ ~Over(c) /\ ~NotYet(c)
      /\ c > 1 => Live(c)
      /\ c < n /\ ~Over(c + 1) => Live(c + 1)
  BY LiveAround
<1>4. left'[c] = left[c] - 1 /\ \A d \in Children : d # c => left'[d] = left[d]
  BY DEF Types
<1>5. /\ sent \in [Children -> Nat]
      /\ \A d \in 1..n : d \in Children /\ sent[d] \in Nat /\ left[d] \in Nat
      /\ \A d \in 2..n : /\ d - 1 \in Children /\ d - 1 \in 1..n
                         /\ pid[d - 1] \in PipeIds
                         /\ sent[d - 1] \in Nat /\ content[pid[d - 1]] \in Nat
  BY FlowTypes
<1>6. /\ sent2 \in [Children -> Nat] /\ sent2[c] = sent[c] + 1
      /\ \A d \in Children : d # c => sent2[d] = sent[d]
  BY <1>5
<1>7. c < n => Live(c + 1)
  <2> SUFFICES ASSUME c < n, Over(c + 1) PROVE FALSE
    BY <1>3
  <2>1. c + 1 \in 2..n /\ (c + 1) - 1 = c
    BY <1>1
  <2>2. Over(c)
    BY <2>1 DEF Flow
  <2> QED
    BY <1>3, <2>2
<1>8. ASSUME NEW d \in 2..n, Live(d)
      PROVE  content'[pid[d - 1]] = IF d = c + 1 THEN content[pid[c]] + 1 ELSE content[pid[d - 1]]
  <2>1. content \in [PipeIds -> 0..Capacity] /\ pid[d - 1] \in PipeIds
    BY <1>5 DEF Types
  <2>2. CASE c = n
    BY <1>1, <2>2
  <2>3. CASE c # n
    <3>1. c + 1 \in 2..n /\ (c + 1) - 1 = c /\ c < n
      BY <1>1, <2>3
    <3>2. pid[c] \in PipeIds
      BY <3>1, <1>5
    <3>3. d # c + 1 => pid[d - 1] # pid[c]
      <4>1. \A e \in 2..n : Live(d) /\ Live(e) /\ d # e => pid[d - 1] # pid[e - 1]
        BY DEF Flow
      <4> QED
        BY <1>7, <1>8, <3>1, <4>1
    <3>4. d = c + 1 => pid[d - 1] = pid[c]
      BY <3>1
    <3> QED
      BY <2>1, <2>3, <3>2, <3>3, <3>4
  <2> QED
    BY <2>2, <2>3
<1> HIDE DEF sent2
<1>9. sent2[n] = delivered'
  <2>1. sent[n] = delivered /\ n \in Children
    BY <1>1, <1>5 DEF Flow
  <2> QED
    BY <1>6, <2>1
<1>10. sent2[1] + left'[1] = Given(1)'
  <2>1. 1 \in Children /\ 1 \in 1..n /\ sent[1] + left[1] = Given(1)
    BY <1>1, ConstantsOK DEF Flow, Children
  <2>2. CASE c = 1
    BY <1>2, <1>4, <1>5, <1>6, <2>1, <2>2
  <2>3. CASE c # 1
    BY <1>2, <1>4, <1>6, <2>1, <2>3
  <2> QED
    BY <2>2, <2>3
<1>11. \A d \in 1..n : NotYet(d)' => sent2[d] = 0
  BY <1>2, <1>3, <1>5, <1>6 DEF Flow
<1>12. ASSUME NEW d \in 2..n
       PROVE  /\ Live(d)' => content'[pid[d - 1]] + sent2[d] + left'[d] = sent2[d - 1] + Given(d)'
              /\ Over(d)' => Over(d - 1)' /\ sent2[d] = sent2[d - 1] + Own(d)'
  <2>1. d \in 1..n /\ d \in Children /\ d - 1 \in Children /\ sent[d] \in Nat /\ sent[d - 1] \in Nat
        /\ content[pid[d - 1]] \in Nat /\ left[d] \in Nat
    BY <1>5
  <2>2. Live(d) => content[pid[d - 1]] + sent[d] + left[d] = sent[d - 1] + Given(d)
    BY DEF Flow
  <2>g. Given(d) \in Nat
    BY OwnNat, ConstantsOK DEF Given
  <2>3. Over(d) => Over(d - 1) /\ sent[d] = sent[d - 1] + Own(d)
    BY DEF Flow
  <2>4. Live(d)' => content'[pid[d - 1]] + sent2[d] + left'[d] = sent2[d - 1] + Given(d)'
    <3> SUFFICES ASSUME Live(d)
                 PROVE  content'[pid[d - 1]] + sent2[d] + left'[d] = sent2[d - 1] + Given(d)
      BY <1>2
    <3>1. CASE d = c
      <4>1. d - 1 # c /\ d # c + 1
        BY <3>1, <2>1
      <4>2. content'[pid[d - 1]] = content[pid[d - 1]] /\ sent2[d - 1] = sent[d - 1]
            /\ sent2[d] = sent[d] + 1 /\ left'[d] = left[d] - 1
        BY <1>4, <1>6, <1>8, <2>1, <3>1, <4>1
      <4> QED
        BY <2>1, <2>2, <2>g, <4>2
    <3>2. CASE d = c + 1
      <4>1. d - 1 = c /\ d # c
        BY <3>2, <1>1
      <4>2. content'[pid[d - 1]] = content[pid[d - 1]] + 1 /\ sent2[d - 1] = sent[d - 1] + 1
            /\ sent2[d] = sent[d] /\ left'[d] = left[d]
        BY <1>4, <1>6, <1>8, <2>1, <3>2, <4>1
      <4> QED
        BY <2>1, <2>2, <2>g, <4>2
    <3>3. CASE d # c /\ d # c + 1
      <4>1. d - 1 # c
        BY <3>3, <1>1
      <4>2. content'[pid[d - 1]] = content[pid[d - 1]] /\ sent2[d - 1] = sent[d - 1]
            /\ sent2[d] = sent[d] /\ left'[d] = left[d]
        BY <1>4, <1>6, <1>8, <2>1, <3>3, <4>1
      <4> QED
        BY <2>2, <4>2
    <3> QED
      BY <3>1, <3>2, <3>3
  <2>5. Over(d)' => Over(d - 1)' /\ sent2[d] = sent2[d - 1] + Own(d)'
    <3> SUFFICES ASSUME Over(d) PROVE Over(d - 1) /\ sent2[d] = sent2[d - 1] + Own(d)
      BY <1>2
    <3>1. d # c /\ d - 1 # c
      BY <1>3, <2>3
    <3> QED
      BY <1>6, <2>1, <2>3, <3>1
  <2> QED
    BY <2>4, <2>5
<1>13. \A d, e \in 2..n : Live(d)' /\ Live(e)' /\ d # e => pid[d - 1] # pid[e - 1]
  BY <1>2 DEF Flow
<1>14. Flow(pid, sent2)'
  BY <1>1, <1>6, <1>9, <1>10, <1>11, <1>12, <1>13 DEF Flow
<1> QED
  BY <1>14 DEF sent2

(* An item read is one that the command still has to write. *)
LEMMA ReadFlow ==
    ASSUME Types, Stages, NEW pid, Wires(pid), NEW sent, Flow(pid, sent),
           NEW c \in Children, status[c] = "running", left[c] = 0, c > 1,
           pc \in InLine \cup {"wait"}, content[pid[c - 1]] > 0,
           left' = [left EXCEPT ![c] = 1],
           content' = [content EXCEPT ![pid[c - 1]] = content[pid[c - 1]] - 1],
           UNCHANGED <<shell, status, delivered>>
    PROVE  Flow(pid, sent)'
<1> DEFINE n == process_num
<1>1. n' = n /\ n \in Nat /\ c \in 1..n /\ c \in 2..n
  BY FlowsKeeps, Commanded, NumIs
<1>2. \A d : /\ NotYet(d)' <=> NotYet(d)
             /\ Over(d)' <=> Over(d)
             /\ Live(d)' <=> Live(d)
             /\ Given(d)' = Given(d)
             /\ Own(d)' = Own(d)
  BY SamePhases
<1>3. Live(c)
  BY LiveAround
<1>4. left'[c] = 1 /\ \A d \in Children : d # c => left'[d] = left[d]
  BY DEF Types
<1>5. /\ \A d \in 1..n : d \in Children /\ sent[d] \in Nat /\ left[d] \in Nat
      /\ \A d \in 2..n : /\ d - 1 \in Children /\ d - 1 \in 1..n
                         /\ pid[d - 1] \in PipeIds
                         /\ sent[d - 1] \in Nat /\ content[pid[d - 1]] \in Nat
  BY FlowTypes
<1>6. ASSUME NEW d \in 2..n, Live(d)
      PROVE  content'[pid[d - 1]] + sent[d] + left'[d] = sent[d - 1] + Given(d)
  <2>1. content[pid[d - 1]] + sent[d] + left[d] = sent[d - 1] + Given(d)
    BY <1>6 DEF Flow
  <2>2. content \in [PipeIds -> 0..Capacity] /\ pid[d - 1] \in PipeIds /\ pid[c - 1] \in PipeIds
    BY <1>1, <1>5 DEF Types
  <2>3. d \in 1..n /\ sent[d] \in Nat /\ sent[d - 1] \in Nat /\ content[pid[d - 1]] \in Nat
        /\ Given(d) \in Nat
    BY <1>5, OwnNat, ConstantsOK DEF Given
  <2>4. CASE d = c
    <3>1. content'[pid[d - 1]] = content[pid[d - 1]] - 1 /\ left'[d] = left[d] + 1 /\ left[d] = 0
      BY <1>4, <2>2, <2>4
    <3> QED
      BY <2>1, <2>3, <3>1
  <2>5. CASE d # c
    <3>1. pid[d - 1] # pid[c - 1]
      BY <1>1, <1>3, <1>6, <2>5 DEF Flow
    <3>2. content'[pid[d - 1]] = content[pid[d - 1]] /\ left'[d] = left[d]
      BY <1>4, <1>5, <2>2, <2>3, <2>5, <3>1
    <3> QED
      BY <2>1, <3>2
  <2> QED
    BY <2>4, <2>5
<1>7. sent[1] + left'[1] = Given(1)'
  <2>1. 1 \in Children /\ sent[1] + left[1] = Given(1)
    BY ConstantsOK DEF Flow, Children
  <2> QED
    BY <1>2, <1>4, <2>1
<1> QED
  BY <1>1, <1>2, <1>6, <1>7 DEF Flow

(* A command that ends has said all that it was given and read all there *)
(* was.                                                                  *)
LEMMA FinishFlow ==
    ASSUME Types, Stages, NEW pid, Wires(pid), NEW sent, Flow(pid, sent),
           NEW c \in Children, status[c] = "running", left[c] = 0,
           pc \in InLine \cup {"wait"},
           c > 1 => content[pid[c - 1]] = 0 /\ Over(c - 1),
           status' = [status EXCEPT ![c] = "zombie"],
           left' = [left EXCEPT ![c] = 0],
           UNCHANGED <<shell, content, delivered>>
    PROVE  Flow(pid, sent)'
<1> DEFINE n == process_num
<1>1. n' = n /\ n \in Nat /\ c \in 1..n /\ \A d : Own(d)' = Own(d)
  BY FlowsKeeps, Commanded, NumIs
<1>2. /\ \A d \in Children : d # c =>
           /\ NotYet(d)' <=> NotYet(d)
           /\ Over(d)' <=> Over(d)
           /\ Live(d)' <=> Live(d)
           /\ Given(d)' = Given(d)
      /\ ~NotYet(c)' /\ Given(c)' = Own(c) /\ Over(c)' /\ ~Live(c)'
  BY ChildPhases
<1>3. ~Over(c) /\ ~NotYet(c) /\ (c > 1 => Live(c)) /\ Given(c) = Own(c)
  BY LiveAround DEF Given
<1>4. \A d \in Children : left'[d] = left[d]
  BY DEF Types
<1>5. /\ \A d \in 1..n : d \in Children /\ sent[d] \in Nat /\ left[d] \in Nat
      /\ \A d \in 2..n : /\ d - 1 \in Children /\ d - 1 \in 1..n
                         /\ sent[d - 1] \in Nat /\ content[pid[d - 1]] \in Nat
  BY FlowTypes
<1>6. sent[1] + left'[1] = Given(1)'
  <2>1. 1 \in Children /\ sent[1] + left[1] = Given(1)
    BY ConstantsOK DEF Flow, Children
  <2> QED
    BY <1>2, <1>3, <1>4, <2>1
<1>7. ASSUME NEW d \in 2..n
      PROVE  /\ Live(d)' => content'[pid[d - 1]] + sent[d] + left'[d] = sent[d - 1] + Given(d)'
             /\ Over(d)' => Over(d - 1)' /\ sent[d] = sent[d - 1] + Own(d)'
  <2>1. d \in 1..n /\ d \in Children /\ d - 1 \in Children /\ sent[d] \in Nat /\ sent[d - 1] \in Nat
        /\ Own(d) \in Nat
    BY <1>5, OwnNat, ConstantsOK
  <2>2. /\ Live(d) => content[pid[d - 1]] + sent[d] + left[d] = sent[d - 1] + Given(d)
        /\ Over(d) => Over(d - 1) /\ sent[d] = sent[d - 1] + Own(d)
    BY DEF Flow
  <2>3. CASE d = c
    <3>1. content[pid[d - 1]] = 0 /\ Over(d - 1) /\ left[d] = 0 /\ d - 1 # c
      BY <2>3, <2>1
    <3>2. sent[d] = sent[d - 1] + Own(d)
      BY <1>3, <2>1, <2>2, <2>3, <3>1
    <3>3. Over(d - 1)'
      BY <1>2, <2>1, <3>1
    <3> QED
      BY <1>1, <1>2, <2>3, <3>2, <3>3
  <2>4. CASE d # c
    <3>1. Over(d)' => Over(d - 1)'
      BY <1>2, <2>1, <2>2, <2>4
    <3> QED
      BY <1>1, <1>2, <1>4, <2>1, <2>2, <2>4, <3>1
  <2> QED
    BY <2>3, <2>4
<1>8. \A d, e \in 2..n : Live(d)' /\ Live(e)' /\ d # e => pid[d - 1] # pid[e - 1]
  <2>1. \A d \in 2..n : Live(d)' => Live(d)
    BY <1>2, <1>5
  <2> QED
    BY <2>1 DEF Flow
<1>9. \A d \in 1..n : NotYet(d)' => sent[d] = 0
  BY <1>2, <1>5 DEF Flow
<1> QED
  BY <1>1, <1>6, <1>7, <1>8, <1>9 DEF Flow

(* Writing one item leaves a number of items in the range. *)
LEMMA LeftRange ==
    0 \in 0..(Items + 1) /\ \A l \in 0..(Items + 1) : l > 0 => l - 1 \in 0..(Items + 1)
BY ConstantsOK

(* A filter starts with its own items and nothing else. *)
LEMMA StartsIs ==
    ASSUME NEW c \in Children, Starts(c)
    PROVE  \E l \in 0..(Items + 1) :
             /\ left' = [left EXCEPT ![c] = l]
             /\ Types /\ OnlyFiltersAfterSource /\ c <= process_num => l = Own(c)
<1> DEFINE l == CASE What(c) = "source"     -> Items
                  [] What(c) = "stdin_echo" -> 1
                  [] OTHER                  -> 0
<1>1. l \in 0..(Items + 1)
  BY ConstantsOK
<1>2. left' = [left EXCEPT ![c] = l]
  BY DEF Starts
<1>3. ASSUME Types, OnlyFiltersAfterSource, c <= process_num PROVE l = Own(c)
  <2>1. c \in 1..process_num
    BY <1>3, NumIs, ConstantsOK DEF Children
  <2>2. /\ c = 1 => What(c) = "source"
        /\ c # 1 => What(c) \in {"filter", "stdin_echo"}
    BY <1>3, <2>1, PlainCommands
  <2> QED
    BY <2>2 DEF Own
<1> QED
  BY <1>1, <1>2, <1>3

(* A command that ends is reaped by sh, or is a child of the shell. *)
LEMMA EndsIs ==
    ASSUME Types, Stages, NEW pid, Wires(pid), NEW c \in Children, status[c] = "running", Ends(c)
    PROVE  \E s \in {"waited", "zombie"} :
             /\ s = "waited" <=> InSh(c)
             /\ status' = [status EXCEPT ![c] = s]
             /\ fds' = [fds EXCEPT ![c] = ChildTable(s, process_num, c, copy[c], pid)]
             /\ left' = [left EXCEPT ![c] = 0]
             /\ UNCHANGED <<input, at, limit, shell, copy, content, started, delivered>>
<1>1. CASE InSh(c)
  <2>1. status' = [status EXCEPT ![c] = "waited"] /\ left' = [left EXCEPT ![c] = 0]
        /\ UNCHANGED <<input, at, limit, shell, fds, copy, content, started, delivered>>
    BY <1>1 DEF Ends
  <2>2. fds[c] = ChildTable("waited", process_num, c, copy[c], pid)
    BY DEF Wires, ChildTable, Executed
  <2>3. fds' = [fds EXCEPT ![c] = ChildTable("waited", process_num, c, copy[c], pid)]
    BY <2>1, <2>2 DEF Types
  <2> QED
    BY <1>1, <2>1, <2>3
<1>2. CASE ~InSh(c)
  <2>1. Exits(c)
    BY <1>2 DEF Ends
  <2>2. ChildTable("zombie", process_num, c, copy[c], pid) = NoFds
    BY DEF ChildTable, Executed
  <2> QED
    BY <1>2, <2>1, <2>2 DEF Exits
<1> QED
  BY <1>1, <1>2

(* execvp keeps the invariant: descriptors, stages and the items in the *)
(* pipes.                                                               *)
LEMMA ExecKeeps ==
    ASSUME Types, Stages, NEW pid, Wires(pid), Flows => \E sent : Flow(pid, sent),
           NEW c \in Children, Exec(c)
    PROVE  Types' /\ Stages' /\ Wires(pid)' /\ AllDelivered' /\ (Flows' => \E sent : Flow(pid, sent)')
<1>1. /\ status[c] = "forked" /\ Wired(c) = ExecRow(process_num, c, pid)
      /\ fds' = [fds EXCEPT ![c] = ExecRow(process_num, c, pid)]
      /\ UNCHANGED <<reading, shell, copy, content, started, delivered>>
  BY WiredFds DEF Exec
<1>2. /\ content' \in [PipeIds -> 0..Capacity] /\ delivered' \in Nat /\ offset' \in 0..Len(input)
      /\ UNCHANGED <<input, at, limit, shell, copy, started>>
  BY <1>1 DEF Types, reading
<1>3. Flows' <=> Flows
  BY <1>1, FlowsKeeps
<1>4. CASE InSh(c)
  <2>1. left' = [left EXCEPT ![c] = 0] /\ 0 \in 0..(Items + 1)
    <3>1. left[c] = 0 /\ left' = left
      BY <1>1, <1>4 DEF Exec, Stages
    <3> QED
      BY <3>1, ConstantsOK DEF Types
  <2>2. status' = [status EXCEPT ![c] = "sh"]
    BY <1>4 DEF Exec
  <2>3. ChildTable("sh", process_num, c, copy[c], pid) = ExecRow(process_num, c, pid)
    BY DEF ChildTable, Executed
  <2>4. Types' /\ Stages' /\ Wires(pid)' /\ AllDelivered'
    BY <1>1, <1>2, <1>4, <2>1, <2>2, <2>3, ChildKeeps
  <2>5. ~Flows
    <3>1. c \in 1..process_num
      BY <1>1, Commanded
    <3> QED
      BY <1>4, <3>1, PlainCommands DEF Flows
  <2> QED
    BY <1>3, <2>4, <2>5
<1>5. CASE ~InSh(c)
  <2>1. Starts(c)
    BY <1>5 DEF Exec
  <2>2. PICK l \in 0..(Items + 1) :
           /\ left' = [left EXCEPT ![c] = l]
           /\ Types /\ OnlyFiltersAfterSource /\ c <= process_num => l = Own(c)
    BY <2>1, StartsIs
  <2>3. status' = [status EXCEPT ![c] = "running"]
    BY <2>1 DEF Starts
  <2>4. ChildTable("running", process_num, c, copy[c], pid) = ExecRow(process_num, c, pid)
    BY DEF ChildTable, Executed
  <2>5. Types' /\ Stages' /\ Wires(pid)' /\ AllDelivered'
    BY <1>1, <1>2, <2>2, <2>3, <2>4, ChildKeeps
  <2>6. ASSUME Flows PROVE \E sent : Flow(pid, sent)'
    <3>1. PICK sent : Flow(pid, sent)
      BY <2>6
    <3>2. l = Own(c)
      BY <1>1, <2>2, <2>6, Commanded DEF Flows
    <3>3. Flow(pid, sent)'
      BY <1>1, <2>2, <2>3, <3>1, <3>2, ExecFlow
    <3> QED
      BY <3>3
  <2> QED
    BY <1>3, <2>5, <2>6
<1> QED
  BY <1>4, <1>5

(* The positions in the input are numbers. *)
LEMMA InputIs == ASSUME Types PROVE Len(input) \in Nat /\ at \in Nat /\ limit \in Nat
<1>1. Len(input) \in Nat
  BY ShellAssumption DEF Types, ShellAssumption
<1>2. limit \in {0, Len(input)} /\ at \in 0..limit
  BY DEF Types
<1> QED
  BY <1>1, <1>2

(* An execvp that fails keeps the invariant: descriptors, stages and the *)
(* items in the pipes.                                                   *)
LEMMA ExecFailsKeeps ==
    ASSUME Types, Stages, NEW pid, Wires(pid), Flows => \E sent : Flow(pid, sent),
           NEW c \in Children, ExecFails(c)
    PROVE  Types' /\ Stages' /\ Wires(pid)' /\ AllDelivered' /\ (Flows' => \E sent : Flow(pid, sent)')
<1>1. /\ status[c] = "forked" /\ commands[c] = <<"bad">>
      /\ status' = [status EXCEPT ![c] = "zombie"]
      /\ fds' = [fds EXCEPT ![c] = NoFds]
      /\ left' = [left EXCEPT ![c] = 0]
      /\ UNCHANGED <<input, at, limit, shell, copy, content, started, delivered>>
  BY DEF ExecFails, Exits
<1>2. offset' \in 0..Len(input)
  <2>1. (copy[c][3] <= offset /\ offset' = offset - copy[c][3]) \/ offset' = offset
    BY DEF ExecFails
  <2>2. copy[c][3] = limit - at
    BY <1>1 DEF Stages
  <2>3. /\ at \in 0..limit /\ limit \in {0, Len(input)} /\ offset \in 0..Len(input)
        /\ Len(input) \in Nat
    BY InputIs DEF Types
  <2> QED
    BY <2>1, <2>2, <2>3
<1>3. ChildTable("zombie", process_num, c, copy[c], pid) = NoFds
  BY DEF ChildTable, Executed
<1>4. content' \in [PipeIds -> 0..Capacity] /\ delivered' \in Nat /\ 0 \in 0..(Items + 1)
  <2>1. content' \in [PipeIds -> 0..Capacity] /\ delivered' \in Nat
    BY <1>1 DEF Types
  <2> QED
    BY <2>1, LeftRange
<1>5. Types' /\ Stages' /\ Wires(pid)' /\ AllDelivered'
  BY <1>1, <1>2, <1>3, <1>4, ChildKeeps
<1>6. ~Flows
  <2>1. c \in 1..process_num
    BY <1>1, Commanded
  <2> QED
    BY <1>1, <2>1, PlainCommands DEF Flows
<1> QED
  BY <1>1, <1>5, <1>6, FlowsKeeps

(* Writing an item keeps the invariant: descriptors, stages and the items *)
(* in the pipes.                                                          *)
LEMMA WriteKeeps ==
    ASSUME Types, Stages, NEW pid, Wires(pid), Flows => \E sent : Flow(pid, sent),
           NEW c \in Children, Write(c)
    PROVE  Types' /\ Stages' /\ Wires(pid)' /\ AllDelivered' /\ (Flows' => \E sent : Flow(pid, sent)')
<1> DEFINE n == process_num
<1>1. /\ status[c] = "running" /\ left[c] > 0
      /\ left' = [left EXCEPT ![c] = left[c] - 1]
      /\ UNCHANGED <<reading, shell, fds, status, copy, started>>
  BY DEF Write
<1>2. c \in 1..n /\ n \in 1..MaxCommands
  BY <1>1, Commanded
<1>3. pid \in [Children -> PipeIds] /\ pid[c] \in PipeIds
  BY DEF Wires
<1>4. fds[c][1] = IF c < n THEN WriteEnd(pid[c]) ELSE Std
  BY <1>1, ExecutedFds, ConstantsOK DEF Executed
<1>5. /\ c = n => delivered' = delivered + 1 /\ content' = content
      /\ c # n => /\ content' = [content EXCEPT ![pid[c]] = content[pid[c]] + 1]
                  /\ content[pid[c]] < Capacity /\ delivered' = delivered
  <2>1. CASE c = n
    BY <1>2, <1>4, <2>1 DEF Write
  <2>2. CASE c # n
    <3>1. fds[c][1] = WriteEnd(pid[c]) /\ fds[c][1] # Std /\ fds[c][1][1] = pid[c]
      BY <1>2, <1>4, <2>2 DEF WriteEnd, Std
    <3> QED
      BY <2>2, <3>1 DEF Write
  <2> QED
    BY <2>1, <2>2
<1>6. content' \in [PipeIds -> 0..Capacity] /\ delivered' \in Nat
  <2>1. content \in [PipeIds -> 0..Capacity] /\ delivered \in Nat
    BY DEF Types
  <2>2. CASE c = n
    BY <1>5, <2>1, <2>2
  <2>3. CASE c # n
    <3>1. content[pid[c]] + 1 \in 0..Capacity
      BY <1>3, <1>5, <2>1, <2>3, ConstantsOK
    <3> QED
      BY <1>5, <2>1, <2>3, <3>1
  <2> QED
    BY <2>2, <2>3
<1>7. left[c] - 1 \in 0..(Items + 1)
  <2>1. left[c] \in 0..(Items + 1)
    BY DEF Types
  <2> QED
    BY <1>1, <2>1, LeftRange
<1>8. /\ status' = [status EXCEPT ![c] = "running"]
      /\ fds' = [fds EXCEPT ![c] = ChildTable("running", n, c, copy[c], pid)]
      /\ UNCHANGED <<input, at, limit, shell, copy, started>> /\ offset' \in 0..Len(input)
  <2>1. fds[c] = ChildTable("running", n, c, copy[c], pid)
    BY <1>1 DEF Wires
  <2>2. c \in Procs
    BY DEF Procs
  <2>3. fds' = fds /\ status' = status
    BY <1>1
  <2>4. fds = [fds EXCEPT ![c] = fds[c]] /\ status = [status EXCEPT ![c] = status[c]]
    BY <2>2 DEF Types
  <2> HIDE DEF n
  <2>5. /\ status' = [status EXCEPT ![c] = "running"]
        /\ fds' = [fds EXCEPT ![c] = ChildTable("running", n, c, copy[c], pid)]
    BY <1>1, <2>1, <2>3, <2>4
  <2> QED
    BY <1>1, <2>5 DEF reading, Types
<1>9. Types' /\ Stages' /\ Wires(pid)' /\ AllDelivered'
  BY <1>1, <1>6, <1>7, <1>8, ChildKeeps
<1>10. ASSUME Flows PROVE \E sent : Flow(pid, sent)'
  <2>1. PICK sent : Flow(pid, sent)
    BY <1>10
  <2>2. pc \in InLine \cup {"wait"}
    BY <1>10 DEF Flows
  <2>3. Flow(pid, [sent EXCEPT ![c] = sent[c] + 1])'
    BY <1>1, <1>5, <2>1, <2>2, WriteFlow
  <2> QED
    BY <2>3
<1> QED
  BY <1>1, <1>9, <1>10, FlowsKeeps

(* A command that writes to a pipe nobody reads, and is killed, keeps the *)
(* invariant: descriptors, stages and the items in the pipes.             *)
LEMMA KilledKeeps ==
    ASSUME Types, Stages, NEW pid, Wires(pid), Flows => \E sent : Flow(pid, sent),
           NEW c \in Children, Killed(c)
    PROVE  Types' /\ Stages' /\ Wires(pid)' /\ AllDelivered' /\ (Flows' => \E sent : Flow(pid, sent)')
<1>1. /\ status[c] = "running" /\ Ends(c) /\ offset' = offset
      /\ fds[c][1] # Std /\ ~Held(ReadEnd(fds[c][1][1]))
  BY DEF Killed
<1>2. PICK s \in {"waited", "zombie"} :
             /\ s = "waited" <=> InSh(c)
             /\ status' = [status EXCEPT ![c] = s]
             /\ fds' = [fds EXCEPT ![c] = ChildTable(s, process_num, c, copy[c], pid)]
             /\ left' = [left EXCEPT ![c] = 0]
             /\ UNCHANGED <<input, at, limit, shell, copy, content, started, delivered>>
  BY <1>1, EndsIs
<1>3. content' \in [PipeIds -> 0..Capacity] /\ delivered' \in Nat /\ 0 \in 0..(Items + 1)
      /\ offset' \in 0..Len(input)
  <2>1. content' \in [PipeIds -> 0..Capacity] /\ delivered' \in Nat /\ offset' \in 0..Len(input)
    BY <1>1, <1>2 DEF Types
  <2> QED
    BY <2>1, LeftRange
<1>4. Types' /\ Stages' /\ Wires(pid)' /\ AllDelivered'
  BY <1>1, <1>2, <1>3, ChildKeeps
<1>5. ASSUME Flows PROVE FALSE
  <2>1. PICK sent : Flow(pid, sent)
    BY <1>5
  <2>2. pc \in InLine \cup {"wait"}
    BY <1>5 DEF Flows
  <2>3. c \in 1..process_num /\ process_num \in Nat
    BY <1>1, Commanded, NumIs
  <2>4. fds[c][1] = IF c < process_num THEN WriteEnd(pid[c]) ELSE Std
    BY <1>1, ExecutedFds, ConstantsOK DEF Executed
  <2>5. c < process_num /\ fds[c][1][1] = pid[c]
    BY <1>1, <2>4 DEF WriteEnd
  <2>6. c + 1 \in 2..process_num /\ (c + 1) - 1 = c
    BY <2>3, <2>5
  <2>7. ~Over(c + 1)
    BY <1>1, <2>1, <2>2, <2>6, LiveAround DEF Flow
  <2>8. Live(c + 1)
    BY <1>1, <2>2, <2>5, <2>7, LiveAround
  <2>9. Held(ReadEnd(pid[(c + 1) - 1]))
    BY <2>2, <2>6, <2>8, ReaderThere
  <2> QED
    BY <1>1, <2>5, <2>6, <2>9
<1> QED
  BY <1>2, <1>4, <1>5, FlowsKeeps

(* Reading an item keeps the invariant: descriptors, stages and the items *)
(* in the pipes.                                                          *)
LEMMA ReadKeeps ==
    ASSUME Types, Stages, NEW pid, Wires(pid), Flows => \E sent : Flow(pid, sent),
           NEW c \in Children, Read(c)
    PROVE  Types' /\ Stages' /\ Wires(pid)' /\ AllDelivered' /\ (Flows' => \E sent : Flow(pid, sent)')
<1> DEFINE n == process_num
<1>1. /\ status[c] = "running" /\ left[c] = 0 /\ fds[c][0] # Std
      /\ left' = [left EXCEPT ![c] = 1]
      /\ UNCHANGED <<reading, shell, fds, status, copy, started, delivered>>
      /\ content[fds[c][0][1]] > 0
      /\ content' = [content EXCEPT ![fds[c][0][1]] = content[fds[c][0][1]] - 1]
  BY DEF Read
<1>2. c \in 1..n /\ n \in 1..MaxCommands
  BY <1>1, Commanded
<1>3. fds[c][0] = IF c > 1 THEN ReadEnd(pid[c - 1]) ELSE Std
  BY <1>1, ExecutedFds, ConstantsOK DEF Executed
<1>4. c > 1 /\ fds[c][0][1] = pid[c - 1]
  BY <1>1, <1>3 DEF ReadEnd
<1>5. c - 1 \in Children /\ pid[c - 1] \in PipeIds
  BY <1>2, <1>4, ConstantsOK DEF Wires, Children
<1>6. content' \in [PipeIds -> 0..Capacity] /\ delivered' \in Nat
  <2>1. content \in [PipeIds -> 0..Capacity] /\ delivered \in Nat
    BY DEF Types
  <2>2. content[pid[c - 1]] - 1 \in 0..Capacity
    BY <1>1, <1>4, <1>5, <2>1, ConstantsOK
  <2> QED
    BY <1>1, <1>4, <2>1, <2>2
<1>7. 1 \in 0..(Items + 1)
  BY ConstantsOK
<1>8. /\ status' = [status EXCEPT ![c] = "running"]
      /\ fds' = [fds EXCEPT ![c] = ChildTable("running", n, c, copy[c], pid)]
      /\ UNCHANGED <<input, at, limit, shell, copy, started>> /\ offset' \in 0..Len(input)
  <2>1. fds[c] = ChildTable("running", n, c, copy[c], pid)
    BY <1>1 DEF Wires
  <2>2. c \in Procs
    BY DEF Procs
  <2>3. fds' = fds /\ status' = status
    BY <1>1
  <2>4. fds = [fds EXCEPT ![c] = fds[c]] /\ status = [status EXCEPT ![c] = status[c]]
    BY <2>2 DEF Types
  <2> HIDE DEF n
  <2>5. /\ status' = [status EXCEPT ![c] = "running"]
        /\ fds' = [fds EXCEPT ![c] = ChildTable("running", n, c, copy[c], pid)]
    BY <1>1, <2>1, <2>3, <2>4
  <2> QED
    BY <1>1, <2>5 DEF reading, Types
<1>9. Types' /\ Stages' /\ Wires(pid)' /\ AllDelivered'
  BY <1>1, <1>6, <1>7, <1>8, ChildKeeps
<1>10. ASSUME Flows PROVE \E sent : Flow(pid, sent)'
  <2>1. PICK sent : Flow(pid, sent)
    BY <1>10
  <2>2. pc \in InLine \cup {"wait"}
    BY <1>10 DEF Flows
  <2>3. Flow(pid, sent)'
    BY <1>1, <1>4, <2>1, <2>2, ReadFlow
  <2> QED
    BY <2>3
<1> QED
  BY <1>1, <1>9, <1>10, FlowsKeeps

(* A command that ends keeps the invariant: descriptors, stages and the *)
(* items in the pipes.                                                  *)
LEMMA FinishKeeps ==
    ASSUME Types, Stages, NEW pid, Wires(pid), Flows => \E sent : Flow(pid, sent),
           NEW c \in Children, Finish(c)
    PROVE  Types' /\ Stages' /\ Wires(pid)' /\ AllDelivered' /\ (Flows' => \E sent : Flow(pid, sent)')
<1>1. /\ status[c] = "running" /\ left[c] = 0 /\ Ends(c) /\ offset' = offset
      /\ Filters(c) /\ fds[c][0] # Std =>
           content[fds[c][0][1]] = 0 /\ ~Held(WriteEnd(fds[c][0][1]))
  BY DEF Finish
<1>2. PICK s \in {"waited", "zombie"} :
             /\ s = "waited" <=> InSh(c)
             /\ status' = [status EXCEPT ![c] = s]
             /\ fds' = [fds EXCEPT ![c] = ChildTable(s, process_num, c, copy[c], pid)]
             /\ left' = [left EXCEPT ![c] = 0]
             /\ UNCHANGED <<input, at, limit, shell, copy, content, started, delivered>>
  BY <1>1, EndsIs
<1>3. content' \in [PipeIds -> 0..Capacity] /\ delivered' \in Nat /\ 0 \in 0..(Items + 1)
      /\ offset' \in 0..Len(input)
  <2>1. content' \in [PipeIds -> 0..Capacity] /\ delivered' \in Nat /\ offset' \in 0..Len(input)
    BY <1>1, <1>2 DEF Types
  <2> QED
    BY <2>1, LeftRange
<1>4. Types' /\ Stages' /\ Wires(pid)' /\ AllDelivered'
  BY <1>1, <1>2, <1>3, ChildKeeps
<1>5. ASSUME Flows PROVE \E sent : Flow(pid, sent)'
  <2>1. PICK sent : Flow(pid, sent)
    BY <1>5
  <2>2. pc \in InLine \cup {"wait"} /\ OnlyFiltersAfterSource
    BY <1>5 DEF Flows
  <2>3. c \in 1..process_num /\ process_num \in Nat
    BY <1>1, Commanded, NumIs
  <2>4. ~InSh(c) /\ (c # 1 => Filters(c))
    BY <2>2, <2>3, PlainCommands
  <2>5. s = "zombie"
    BY <1>2, <2>4
  <2>6. ASSUME c > 1 PROVE content[pid[c - 1]] = 0 /\ Over(c - 1)
    <3>1. fds[c][0] = ReadEnd(pid[c - 1])
      BY <1>1, <2>6, ExecutedFds, ConstantsOK DEF Executed
    <3>2. fds[c][0] # Std /\ fds[c][0][1] = pid[c - 1]
      BY <3>1 DEF ReadEnd, Std
    <3>3. Filters(c)
      BY <2>4, <2>6
    <3>4. content[pid[c - 1]] = 0 /\ ~Held(WriteEnd(pid[c - 1]))
      BY <1>1, <3>2, <3>3
    <3>5. c \in 2..process_num
      BY <2>3, <2>6
    <3> QED
      BY <1>1, <2>2, <3>4, <3>5, WriterThere
  <2>7. Flow(pid, sent)'
    BY <1>1, <1>2, <2>1, <2>2, <2>5, <2>6, FinishFlow
  <2> QED
    BY <2>7
<1> QED
  BY <1>2, <1>4, <1>5, FlowsKeeps

(* The inner shell's steps keep descriptors and stages; such a row is none *)
(* of filters.                                                             *)
LEMMA ShKeeps ==
    ASSUME Types, Stages, NEW pid, Wires(pid), NEW c \in Children,
           ShForks(c) \/ ShFails(c) \/ ShEnds(c)
    PROVE  Types' /\ Stages' /\ Wires(pid)' /\ AllDelivered' /\ ~Flows'
<1>1. status[c] \in {"sh", "waited"} /\ status[c] # "none"
  BY DEF ShForks, ShFails, ShEnds
<1>2. InSh(c) /\ left[c] = 0 /\ c \in 1..process_num
  BY <1>1, Commanded DEF Stages
<1>3. ~Flows
  BY <1>2, PlainCommands DEF Flows
<1>4. UNCHANGED shell /\ UNCHANGED <<input, at, limit, shell, copy, started>>
      /\ content' = content /\ delivered' = delivered /\ offset' = offset
  BY DEF ShForks, ShFails, ShEnds, Exits, reading
<1>5. content' \in [PipeIds -> 0..Capacity] /\ delivered' \in Nat /\ 0 \in 0..(Items + 1)
      /\ offset' \in 0..Len(input)
  <2>1. content' \in [PipeIds -> 0..Capacity] /\ delivered' \in Nat /\ offset' \in 0..Len(input)
    BY <1>4 DEF Types
  <2> QED
    BY <2>1, LeftRange
<1>6. ~Flows'
  BY <1>3, <1>4, FlowsKeeps
<1>7. c \in Procs
  BY DEF Procs
<1>8. fds[c] = ExecRow(process_num, c, pid)
  BY <1>1 DEF Wires, ChildTable, Executed
<1>9. \A s \in {"running", "waited"} :
        ChildTable(s, process_num, c, copy[c], pid) = ExecRow(process_num, c, pid)
  BY DEF ChildTable, Executed
<1>10. fds = [fds EXCEPT ![c] = ExecRow(process_num, c, pid)]
  <2>1. fds = [fds EXCEPT ![c] = fds[c]]
    BY <1>7 DEF Types
  <2> QED
    BY <1>8, <2>1
<1>11. left = [left EXCEPT ![c] = 0]
  BY <1>2 DEF Types
<1>12. CASE ShForks(c)
  <2>1. Starts(c) /\ fds' = fds
    BY <1>12 DEF ShForks
  <2>2. PICK l \in 0..(Items + 1) : left' = [left EXCEPT ![c] = l]
    BY <2>1, StartsIs
  <2>3. status' = [status EXCEPT ![c] = "running"]
    BY <2>1 DEF Starts
  <2>4. fds' = [fds EXCEPT ![c] = ChildTable("running", process_num, c, copy[c], pid)]
    BY <1>9, <1>10, <2>1
  <2> QED
    BY <1>1, <1>4, <1>5, <1>6, <2>2, <2>3, <2>4, ChildKeeps
<1>13. CASE ShFails(c)
  <2>1. fds' = fds /\ left' = left /\ status' = [status EXCEPT ![c] = "waited"]
    BY <1>13 DEF ShFails
  <2>2. fds' = [fds EXCEPT ![c] = ChildTable("waited", process_num, c, copy[c], pid)]
    BY <1>9, <1>10, <2>1
  <2>3. left' = [left EXCEPT ![c] = 0]
    BY <1>11, <2>1
  <2> QED
    BY <1>1, <1>2, <1>4, <1>5, <1>6, <2>1, <2>2, <2>3, ChildKeeps
<1>14. CASE ShEnds(c)
  <2>1. /\ status' = [status EXCEPT ![c] = "zombie"]
        /\ fds' = [fds EXCEPT ![c] = NoFds]
        /\ left' = [left EXCEPT ![c] = 0]
    BY <1>14 DEF ShEnds, Exits
  <2>2. ChildTable("zombie", process_num, c, copy[c], pid) = NoFds
    BY DEF ChildTable, Executed
  <2> QED
    BY <1>1, <1>4, <1>5, <1>6, <2>1, <2>2, ChildKeeps
<1> QED
  BY <1>12, <1>13, <1>14

(* Every step of a child keeps the invariant. *)
LEMMA ChildHolds == ASSUME IInv, NEW c \in Children, Child(c) PROVE IInv'
<1>1. Types /\ Stages
  BY DEF IInv
<1>2. PICK pid : Wires(pid) /\ (Flows => \E sent : Flow(pid, sent))
  BY DEF IInv
<1>3. Types' /\ Stages' /\ Wires(pid)' /\ AllDelivered' /\ (Flows' => \E sent : Flow(pid, sent)')
  <2>1. CASE Exec(c)
    BY <1>1, <1>2, <2>1, ExecKeeps
  <2>2. CASE ExecFails(c)
    BY <1>1, <1>2, <2>2, ExecFailsKeeps
  <2>3. CASE Write(c)
    BY <1>1, <1>2, <2>3, WriteKeeps
  <2>4. CASE Killed(c)
    BY <1>1, <1>2, <2>4, KilledKeeps
  <2>5. CASE Read(c)
    BY <1>1, <1>2, <2>5, ReadKeeps
  <2>6. CASE Finish(c)
    BY <1>1, <1>2, <2>6, FinishKeeps
  <2>7. CASE ShForks(c) \/ ShFails(c) \/ ShEnds(c)
    BY <1>1, <1>2, <2>7, ShKeeps
  <2> QED
    BY <2>1, <2>2, <2>3, <2>4, <2>5, <2>6, <2>7 DEF Child
<1> QED
  BY <1>3 DEF IInv

----------------------------------------------------------------------------
(* A step of the shell *)

(* The shell starts with its invariant. *)
LEMMA InitHolds == Init => IInv
<1> SUFFICES ASSUME Init PROVE IInv
  OBVIOUS
<1> DEFINE pid == [c \in Children |-> 1]
<1>1. /\ input \in Inputs /\ offset = 0 /\ at = 0 /\ limit = 0
      /\ pc = "prompt" /\ commands = << >> /\ i = 1 /\ k = 0
      /\ in_pipe = <<0, 0>> /\ out_pipe = <<0, 0>>
      /\ status = [c \in Children |-> "none"]
      /\ copy = [c \in Children |-> << >>]
      /\ left = [c \in Children |-> 0]
      /\ content = [p \in PipeIds |-> 0]
      /\ started = << >> /\ delivered = 0
  BY DEF Init
<1>2. /\ fds[Shell] = Row(1, 1, in_pipe, out_pipe, pid)
      /\ \A c \in Children : fds[c] = NoFds
      /\ fds \in [Procs -> [Fds -> Ends2]]
  <2>1. Shell \in Procs /\ \A c \in Children : c \in Procs /\ c # Shell
    BY DEF Procs, Shell, Children
  <2>2. fds = [q \in Procs |-> IF q = Shell THEN [f \in Fds |-> IF f <= 2 THEN Std ELSE Free]
                                            ELSE NoFds]
    BY DEF Init
  <2>3. Row(1, 1, in_pipe, out_pipe, pid) = [f \in Fds |-> IF f <= 2 THEN Std ELSE Free]
    BY DEF Row
  <2>4. [f \in Fds |-> IF f <= 2 THEN Std ELSE Free] \in [Fds -> Ends2]
    BY DEF Ends2
  <2> QED
    BY <2>1, <2>2, <2>3, <2>4, NoFdsIs
<1>3. pid \in [Children -> PipeIds]
  BY ConstantsOK DEF PipeIds
<1>4. Len(input) \in Nat
  BY <1>1, ShellAssumption DEF ShellAssumption
<1>5. Types
  <2>1. /\ commands \in Seq(Seq(STRING)) /\ process_num = 0 /\ process_num <= MaxCommands
        /\ \A c \in 1..process_num : Len(commands[c]) >= 1
    BY <1>1, ConstantsOK DEF process_num
  <2>2. i \in 1..(MaxCommands + 1) /\ k \in 0..MaxCommands
    BY <1>1, ConstantsOK
  <2>3. in_pipe \in Fds \X Fds /\ out_pipe \in Fds \X Fds
    BY <1>1, ConstantsOK
  <2>4. left \in [Children -> 0..(Items + 1)]
    BY <1>1, LeftRange
  <2>5. content \in [PipeIds -> 0..Capacity]
    BY <1>1, ConstantsOK
  <2>6. offset \in 0..Len(input) /\ limit \in {0, Len(input)} /\ at \in 0..limit
    BY <1>1, <1>4
  <2>7. status \in [Children -> {"none", "forked", "sh", "running", "waited", "zombie"}]
        /\ DOMAIN copy = Children /\ copy = [c \in Children |-> copy[c]]
    BY <1>1
  <2> QED
    BY <1>1, <1>2, <2>1, <2>2, <2>3, <2>4, <2>5, <2>6, <2>7 DEF Types
<1>6. Stages
  BY <1>1 DEF Stages, InLine
<1>7. Wires(pid)
  <2> HIDE DEF pid
  <2> QED
    BY <1>1, <1>2, <1>3 DEF Wires, ShellTable, ChildTable, Executed
<1>8. ~Flows /\ AllDelivered
  BY <1>1 DEF Flows, InLine, AllDelivered, OnlyFiltersAfterSource
<1> QED
  BY <1>5, <1>6, <1>7, <1>8 DEF IInv

(* A line of the input. *)
LEMMA LineIs ==
    ASSUME NEW s \in Inputs, NEW n \in 1..Len(s)
    PROVE  /\ Len(s) \in Nat /\ s[n] \in Seq(Seq(STRING))
           /\ Len(s[n]) \in 1..MaxCommands
           /\ \A c \in 1..Len(s[n]) : Len(s[n][c]) >= 1
<1>1. s \in Seq(Seq(Seq(STRING)))
  BY ShellAssumption DEF ShellAssumption
<1>2. n \in DOMAIN s /\ s[n] \in Seq(Seq(STRING)) /\ Len(s) \in Nat
  BY <1>1
<1>3. DOMAIN s[n] = 1..Len(s[n])
  BY <1>2
<1> QED
  BY <1>2, <1>3, ShellAssumption DEF ShellAssumption

(* Taking the next line from the buffer keeps the invariant. *)
LEMMA TakeLineKeeps ==
    ASSUME Types, Stages, NEW pid, Wires(pid), TakeLine
    PROVE  Types' /\ Stages' /\ Wires(pid)' /\ AllDelivered' /\ (Flows' => \E sent : Flow(pid, sent)')
<1>1. /\ pc = "prompt" /\ at < limit /\ commands' = input[at + 1] /\ at' = at + 1
      /\ started' = Append(started, at + 1)
      /\ i' = 1 /\ delivered' = 0
      /\ pc' = IF commands' = Exit THEN "exited" ELSE "pipe"
      /\ fds' = IF commands' = Exit THEN [fds EXCEPT ![Shell] = NoFds] ELSE fds
      /\ input' = input /\ offset' = offset /\ limit' = limit /\ k' = k
      /\ in_pipe' = in_pipe /\ out_pipe' = out_pipe
      /\ status' = status /\ copy' = copy /\ left' = left /\ content' = content
  BY DEF TakeLine
<1>2. \A c \in Children : status[c] = "none" /\ left[c] = 0
  BY <1>1 DEF Stages
<1>3. /\ at \in Nat /\ limit = Len(input) /\ at + 1 \in 1..Len(input) /\ at + 1 \in 0..limit
      /\ Len(input) \in Nat
  <2>1. Len(input) \in Nat /\ at \in Nat /\ limit \in {0, Len(input)}
    BY InputIs DEF Types
  <2> QED
    BY <1>1, <2>1
<1>4. /\ commands' \in Seq(Seq(STRING)) /\ Len(commands') \in 1..MaxCommands
      /\ \A c \in 1..Len(commands') : Len(commands'[c]) >= 1
  <2>1. input \in Inputs
    BY DEF Types
  <2> QED
    BY <1>1, <1>3, <2>1, LineIs
<1>5. Shell \in Procs /\ \A c \in Children : c \in Procs /\ c # Shell
  BY DEF Procs, Shell, Children
<1>6. Types'
  <2>1. fds' \in [Procs -> [Fds -> Ends2]]
    BY <1>1, <1>5, NoFdsIs DEF Types
  <2>2. started' \in Seq(Nat) /\ delivered' \in Nat
    BY <1>1, <1>3 DEF Types
  <2>3. process_num' <= MaxCommands /\ \A c \in 1..process_num' : Len(commands'[c]) >= 1
    BY <1>4, ConstantsOK DEF process_num
  <2>4. i' \in 1..(MaxCommands + 1)
    BY <1>1, ConstantsOK
  <2> QED
    BY <1>1, <1>3, <1>4, <2>1, <2>2, <2>3, <2>4 DEF Types
<1>7. Stages'
  <2>1. pc' \in {"pipe", "exited"} /\ i' <= process_num' /\ at' >= 1 /\ commands' = input'[at']
    BY <1>1, <1>3, <1>4 DEF process_num
  <2>2. \A c \in Children : c >= i'
    BY <1>1, ConstantsOK DEF Children
  <2> QED
    BY <1>1, <1>2, <2>1, <2>2 DEF Stages, InLine
<1>8. Wires(pid)'
  <2>1. fds[Shell] = Row(1, 1, in_pipe, out_pipe, pid)
    BY <1>1 DEF Wires, ShellTable
  <2>2. fds'[Shell] = ShellTable(pc', process_num', i', in_pipe', out_pipe', pid)
    BY <1>1, <1>5, <2>1 DEF ShellTable, Types
  <2>3. \A c \in Children : fds'[c] = ChildTable(status'[c], process_num', c, copy'[c], pid)
    <3>1. \A c \in Children : fds[c] = NoFds
      BY <1>2 DEF Wires, ChildTable, Executed
    <3>2. \A c \in Children : fds'[c] = fds[c]
      BY <1>1, <1>5 DEF Types
    <3> QED
      BY <1>1, <1>2, <3>1, <3>2 DEF ChildTable, Executed
  <2>4. Apart(i', i', in_pipe', out_pipe')
    BY <1>1 DEF Apart, Types
  <2> QED
    BY <1>1, <1>2, <2>2, <2>3, <2>4 DEF Wires
<1>9. ASSUME Flows' PROVE \E sent : Flow(pid, sent)'
  <2> DEFINE sent == [c \in Children |-> 0]
  <2>1. pc' = "pipe"
    BY <1>1, <1>9 DEF Flows, InLine
  <2>2. process_num' \in 1..MaxCommands
    BY <1>4 DEF process_num
  <2>3. \A c \in 1..process_num' : c \in Children /\ NotYet(c)' /\ ~Over(c)' /\ Given(c)' = 0
                                   /\ left'[c] = 0 /\ sent[c] = 0
    BY <1>1, <1>2, <2>1, <2>2, ConstantsOK DEF NotYet, Over, Given, Children
  <2>4. \A c \in 2..process_num' : ~Live(c)'
    BY <1>1, <2>1, <2>2 DEF Live
  <2>5. sent \in [Children -> Nat]
    OBVIOUS
  <2> HIDE DEF sent
  <2>6. Flow(pid, sent)'
    BY <1>1, <2>2, <2>3, <2>4, <2>5 DEF Flow
  <2> QED
    BY <2>6
<1>10. AllDelivered'
  BY <1>1 DEF AllDelivered
<1> QED
  BY <1>6, <1>7, <1>8, <1>9, <1>10

(* Reading more of the input into the buffer keeps the invariant. *)
LEMMA FillInputKeeps ==
    ASSUME Types, Stages, NEW pid, Wires(pid), AllDelivered, FillInput
    PROVE  Types' /\ Stages' /\ Wires(pid)' /\ AllDelivered' /\ ~Flows'
<1>1. /\ pc = "prompt" /\ at' = offset /\ limit' = Len(input) /\ offset' = Len(input)
      /\ UNCHANGED <<input, pc, commands, i, k, in_pipe, out_pipe, fds, status, copy, left,
                     content, started, delivered>>
  BY DEF FillInput, shell
<1>2. \A c \in Children : status[c] = "none"
  BY <1>1 DEF Stages
<1>3. Len(input) \in Nat /\ offset \in 0..Len(input)
  BY InputIs DEF Types
<1>4. process_num' = process_num
  BY <1>1 DEF process_num
<1>5. Types'
  BY <1>1, <1>3, <1>4 DEF Types
<1>6. Stages'
  BY <1>1, <1>2 DEF Stages, InLine
<1>7. Wires(pid)'
  BY <1>1, <1>2, <1>4 DEF Wires
<1>8. AllDelivered'
  <2>1. UNCHANGED shell
    BY <1>1 DEF shell
  <2>2. OnlyFiltersAfterSource' <=> OnlyFiltersAfterSource
    BY <1>1, <1>4 DEF OnlyFiltersAfterSource, Filters, InSh, What
  <2>3. Quantify(2..process_num, LAMBDA c : What(c) = "stdin_echo")'
          = Quantify(2..process_num, LAMBDA c : What(c) = "stdin_echo")
    BY <1>1, <1>4 DEF Quantify, What
  <2> QED
    BY <1>1, <2>2, <2>3 DEF AllDelivered
<1>9. ~Flows'
  BY <1>1 DEF Flows, InLine
<1> QED
  BY <1>5, <1>6, <1>7, <1>8, <1>9

(* Leaving main, at the end of the input or when pipe or fork fails, keeps *)
(* the invariant.                                                          *)
LEMMA StopKeeps ==
    ASSUME Types, Stages, NEW pid, Wires(pid), Stop
    PROVE  Types' /\ Stages' /\ Wires(pid)' /\ AllDelivered' /\ ~Flows'
<1>1. /\ pc' = "exited" /\ fds' = [fds EXCEPT ![Shell] = NoFds]
      /\ UNCHANGED <<input, offset, at, limit, commands, i, k, in_pipe, out_pipe, status, copy,
                     left, content, started, delivered>>
  BY DEF Stop, reading
<1>2. Shell \in Procs /\ \A c \in Children : c \in Procs /\ c # Shell
  BY DEF Procs, Shell, Children
<1>3. process_num' = process_num /\ \A c : InSh(c)' <=> InSh(c)
  BY <1>1 DEF process_num, InSh
<1>4. fds' \in [Procs -> [Fds -> Ends2]] /\ fds'[Shell] = NoFds
      /\ \A c \in Children : fds'[c] = fds[c]
  BY <1>1, <1>2, NoFdsIs DEF Types
<1>5. Types'
  BY <1>1, <1>3, <1>4 DEF Types
<1>6. Stages'
  BY <1>1, <1>3 DEF Stages, InLine
<1>7. Wires(pid)'
  BY <1>1, <1>3, <1>4 DEF Wires, ShellTable
<1>8. AllDelivered' /\ ~Flows'
  BY <1>1 DEF AllDelivered, Flows, InLine
<1> QED
  BY <1>5, <1>6, <1>7, <1>8

(* Before a new pipe is made, the pipes in use are those of the commands   *)
(* that were started, and there is one more pipe than that.                *)
LEMMA HeldIs ==
    ASSUME Types, Stages, NEW pid, Wires(pid), pc = "pipe", NEW p \in PipeIds,
           Held(ReadEnd(p)) \/ Held(WriteEnd(p))
    PROVE  \E c \in 1..(i - 1) : p = pid[c]
<1> DEFINE n == process_num
<1>1. n \in 1..MaxCommands /\ i \in 1..n /\ n \in Nat
  BY InLineIs, NumIs DEF InLine
<1>2. PICK q \in Procs, f \in Fds : fds[q][f] \in {ReadEnd(p), WriteEnd(p)}
  BY DEF Held
<1>3. p \in Nat \ {0}
  BY ConstantsOK DEF PipeIds
<1>4. CASE q = Shell
  <2>1. fds[q] = Row(i, i, in_pipe, out_pipe, pid)
    BY <1>4 DEF Wires, ShellTable
  <2>2. i \in Nat
    BY <1>1
  <2>3. (i > 1 /\ p = pid[i - 1]) \/ (i < i /\ p = pid[i])
    BY <1>2, <1>3, <2>1, <2>2, RowHolds
  <2> QED
    BY <1>1, <2>3
<1>5. CASE q # Shell
  <2>1. q \in Children /\ q \in Nat
    BY <1>5, ConstantsOK DEF Procs, Children
  <2>2. status[q] # "none"
    <3>1. ASSUME status[q] = "none" PROVE FALSE
      <4>1. fds[q] = NoFds
        BY <2>1, <3>1 DEF Wires, ChildTable, Executed
      <4>2. fds[q][f] = Free
        BY <4>1, NoFdsIs
      <4> QED
        BY <1>2, <1>3, <4>2 DEF Free, ReadEnd, WriteEnd
    <3> QED
      BY <3>1
  <2>3. q \in 1..n /\ q < i
    <3>1. q \in 1..n
      BY <2>1, <2>2, Commanded
    <3>2. ~(q >= i)
      BY <2>1, <2>2 DEF Stages
    <3> QED
      BY <1>1, <3>1, <3>2
  <2>4. (q > 1 /\ p = pid[q - 1]) \/ (q < n /\ p = pid[q])
    <3>1. \/ fds[q] = Row(n, q, copy[q][1], copy[q][2], pid)
          \/ fds[q] = ExecRow(n, q, pid)
          \/ fds[q] = NoFds
      BY <2>1 DEF Wires, ChildTable
    <3> HIDE DEF n
    <3> QED
      BY <1>1, <1>2, <1>3, <2>1, <3>1, RowHolds
  <2> QED
    BY <1>1, <2>3, <2>4
<1> QED
  BY <1>4, <1>5

(* At pipe() there is a pipe that no process holds: there are enough for *)
(* every command.                                                        *)
LEMMA FreePipe ==
    ASSUME Types, Stages, NEW pid, Wires(pid), pc = "pipe"
    PROVE  \E p \in PipeIds : ~Held(ReadEnd(p)) /\ ~Held(WriteEnd(p))
<1> SUFFICES ASSUME \A p \in PipeIds : Held(ReadEnd(p)) \/ Held(WriteEnd(p)) PROVE FALSE
  OBVIOUS
<1>1. i \in Nat /\ i >= 1 /\ i <= MaxCommands
  BY InLineIs, ConstantsOK DEF InLine
<1> DEFINE g == [p \in PipeIds |-> CHOOSE c \in 1..(i - 1) : p = pid[c]]
<1>2. \A p \in PipeIds : \E c \in 1..(i - 1) : p = pid[c]
  BY HeldIs
<1>3. \A p \in PipeIds : g[p] \in 1..(i - 1) /\ p = pid[g[p]]
  BY <1>2
<1>4. g \in [PipeIds -> 1..(i - 1)]
  BY <1>3
<1>5. IsFiniteSet(PipeIds) /\ Cardinality(PipeIds) = MaxFd + MaxCommands
  <2>1. 1 \in Int /\ MaxFd + MaxCommands \in Int /\ ~(1 > MaxFd + MaxCommands)
        /\ (MaxFd + MaxCommands) - 1 + 1 = MaxFd + MaxCommands
    BY ConstantsOK
  <2> QED
    BY <2>1, FS_Interval DEF PipeIds
<1>6. IsFiniteSet(1..(i - 1)) /\ Cardinality(1..(i - 1)) = i - 1
  BY <1>1, FS_Interval
<1>7. i - 1 < MaxFd + MaxCommands
  BY <1>1, ConstantsOK
<1> HIDE DEF g
<1>8. PICK x \in PipeIds : \E y \in PipeIds : x # y /\ g[x] = g[y]
  BY <1>4, <1>5, <1>6, <1>7, FS_PigeonHole
<1>9. PICK y \in PipeIds : x # y /\ g[x] = g[y]
  BY <1>8
<1> QED
  BY <1>3, <1>9

(* If two descriptors are free there is one, and another without it. *)
LEMMA TwoFree ==
    ASSUME NEW T \in SUBSET Fds, Cardinality(T) >= 2
    PROVE  /\ T \in SUBSET Nat /\ T # {}
           /\ \A x : T \ {x} \in SUBSET Nat /\ T \ {x} # {}
<1>1. IsFiniteSet(Fds)
  BY ConstantsOK, FS_Interval DEF Fds
<1>2. IsFiniteSet(T)
  BY <1>1, FS_Subset
<1>3. T \in SUBSET Nat
  BY ConstantsOK
<1>4. T # {}
  BY FS_EmptySet
<1>5. ASSUME NEW x, T \ {x} = {} PROVE FALSE
  <2>1. T = {x}
    BY <1>4, <1>5
  <2> QED
    BY <2>1, FS_Singleton
<1> QED
  BY <1>3, <1>4, <1>5

(* A command's descriptors depend on its two pipes alone. *)
LEMMA RowSame ==
    ASSUME NEW n \in 1..MaxCommands, NEW c \in 1..n, NEW in, NEW out,
           NEW pid \in [Children -> PipeIds], NEW pid2 \in [Children -> PipeIds],
           c > 1 => pid2[c - 1] = pid[c - 1], c < n => pid2[c] = pid[c]
    PROVE  /\ Row(n, c, in, out, pid2) = Row(n, c, in, out, pid)
           /\ ExecRow(n, c, pid2) = ExecRow(n, c, pid)
<1> DEFINE x == Row(n, c, in, out, pid)
           x2 == Row(n, c, in, out, pid2)
           y == ExecRow(n, c, pid)
           y2 == ExecRow(n, c, pid2)
<1>1. /\ x \in [Fds -> Ends2]
      /\ \A f \in Fds : x[f] = IF f <= 2 THEN Std
                  ELSE IF c > 1 /\ f = in[1] THEN ReadEnd(pid[c - 1])
                  ELSE IF c < n /\ f = out[1] THEN ReadEnd(pid[c])
                  ELSE IF c < n /\ f = out[2] THEN WriteEnd(pid[c]) ELSE Free
  BY RowIs
<1>2. /\ x2 \in [Fds -> Ends2]
      /\ \A f \in Fds : x2[f] = IF f <= 2 THEN Std
                  ELSE IF c > 1 /\ f = in[1] THEN ReadEnd(pid2[c - 1])
                  ELSE IF c < n /\ f = out[1] THEN ReadEnd(pid2[c])
                  ELSE IF c < n /\ f = out[2] THEN WriteEnd(pid2[c]) ELSE Free
  BY RowIs
<1>3. /\ y \in [Fds -> Ends2]
      /\ \A f \in Fds : y[f] = IF f = 0 /\ c > 1 THEN ReadEnd(pid[c - 1])
                  ELSE IF f = 1 /\ c < n THEN WriteEnd(pid[c])
                  ELSE IF f <= 2 THEN Std ELSE Free
  BY ExecRowIs
<1>4. /\ y2 \in [Fds -> Ends2]
      /\ \A f \in Fds : y2[f] = IF f = 0 /\ c > 1 THEN ReadEnd(pid2[c - 1])
                  ELSE IF f = 1 /\ c < n THEN WriteEnd(pid2[c])
                  ELSE IF f <= 2 THEN Std ELSE Free
  BY ExecRowIs
<1>5. x2 = x /\ y2 = y
  <2> HIDE DEF x, x2, y, y2
  <2>1. \A f \in Fds : x2[f] = x[f] /\ y2[f] = y[f]
    BY <1>1, <1>2, <1>3, <1>4
  <2> QED
    BY <1>1, <1>2, <1>3, <1>4, <2>1, SameTable
<1> QED
  BY <1>5

(* The table with the two ends of a new pipe. *)
LEMMA PipedRow ==
    ASSUME NEW n \in 1..MaxCommands, NEW j \in 1..n, j < n, NEW in, NEW out,
           NEW pid \in [Children -> PipeIds], NEW p \in PipeIds, NEW r \in Fds, NEW w \in Fds,
           NEW pid2 \in [Children -> PipeIds], pid2[j] = p, j > 1 => pid2[j - 1] = pid[j - 1],
           Apart(j, j, in, out), r # w,
           Row(j, j, in, out, pid)[r] = Free, Row(j, j, in, out, pid)[w] = Free
    PROVE  /\ Open(Open(Row(j, j, in, out, pid), r, ReadEnd(p)), w, WriteEnd(p))
                = Row(n, j, in, <<r, w>>, pid2)
           /\ Apart(n, j, in, <<r, w>>)
<1> DEFINE t == Row(j, j, in, out, pid)
           u == Open(t, r, ReadEnd(p))
           v == Open(u, w, WriteEnd(p))
           x == Row(n, j, in, <<r, w>>, pid2)
<1>1. j \in 1..MaxCommands /\ j \in 1..j /\ j \in Children /\ j \in Nat
  BY ConstantsOK DEF Children
<1>2. /\ t \in [Fds -> Ends2]
      /\ \A f \in Fds : t[f] = IF f <= 2 THEN Std
                  ELSE IF j > 1 /\ f = in[1] THEN ReadEnd(pid[j - 1]) ELSE Free
  BY <1>1, RowIs
<1>3. pid2 \in [Children -> PipeIds] /\ pid2[j] = p /\ (j > 1 => pid2[j - 1] = pid[j - 1])
  OBVIOUS
<1>4. /\ x \in [Fds -> Ends2]
      /\ \A f \in Fds : x[f] = IF f <= 2 THEN Std
                  ELSE IF j > 1 /\ f = in[1] THEN ReadEnd(pid[j - 1])
                  ELSE IF f = r THEN ReadEnd(p)
                  ELSE IF f = w THEN WriteEnd(p)
                  ELSE Free
  <2> DEFINE o == <<r, w>>
  <2>1. o[1] = r /\ o[2] = w
    OBVIOUS
  <2>2. pid2 \in [Children -> PipeIds]
    BY <1>3
  <2> HIDE DEF o
  <2>3. /\ Row(n, j, in, o, pid2) \in [Fds -> Ends2]
        /\ \A f \in Fds : Row(n, j, in, o, pid2)[f] = IF f <= 2 THEN Std
                  ELSE IF j > 1 /\ f = in[1] THEN ReadEnd(pid2[j - 1])
                  ELSE IF j < n /\ f = o[1] THEN ReadEnd(pid2[j])
                  ELSE IF j < n /\ f = o[2] THEN WriteEnd(pid2[j])
                  ELSE Free
    BY <2>2, RowIs
  <2>4. x = Row(n, j, in, o, pid2)
    BY DEF o
  <2> HIDE DEF x
  <2> QED
    BY <1>3, <2>1, <2>3, <2>4
<1>5. ReadEnd(p) \in Ends2 /\ WriteEnd(p) \in Ends2
  BY DEF Ends2, ReadEnd, WriteEnd
<1>6. u \in [Fds -> Ends2] /\ u[r] = ReadEnd(p) /\ \A f \in Fds : f # r => u[f] = t[f]
  <2> HIDE DEF t
  <2> QED
    BY <1>2, <1>5, OpenIs
<1>7. v \in [Fds -> Ends2] /\ v[w] = WriteEnd(p) /\ \A f \in Fds : f # w => v[f] = u[f]
  <2> HIDE DEF u
  <2> QED
    BY <1>5, <1>6, OpenIs
<1>8. r \in Nat /\ w \in Nat /\ r > 2 /\ w > 2 /\ (j > 1 => r # in[1] /\ w # in[1])
  <2>1. r \in Nat /\ w \in Nat /\ t[r] = Free /\ t[w] = Free
    BY ConstantsOK
  <2>2. Free # Std /\ \A e : Free # ReadEnd(e)
    BY DEF Free, Std, ReadEnd
  <2> HIDE DEF t
  <2> QED
    BY <1>2, <2>1, <2>2
<1>9. v = x
  <2> HIDE DEF t, u, v, x
  <2>1. \A f \in Fds : v[f] = x[f]
    BY <1>2, <1>4, <1>6, <1>7, <1>8, ConstantsOK
  <2> QED
    BY <1>4, <1>7, <2>1, SameTable
<1>10. Apart(n, j, in, <<r, w>>)
  BY <1>1, <1>8 DEF Apart
<1> QED
  BY <1>9, <1>10

(* pipe() keeps the invariant, with the pipe that it makes as the new one. *)
LEMMA PipeKeeps ==
    ASSUME Types, Stages, NEW pid, Wires(pid), Flows => \E sent : Flow(pid, sent), Pipe
    PROVE  /\ Types' /\ Stages' /\ AllDelivered'
           /\ \E pid2 : Wires(pid2)' /\ (Flows' => \E sent : Flow(pid2, sent)')
<1> DEFINE n == process_num
           t == fds[Shell]
           r == Min(FreeFds(t))
           w == Min(FreeFds(t) \ {r})
           p == Min({q \in PipeIds : ~Held(ReadEnd(q)) /\ ~Held(WriteEnd(q))})
<1>1. /\ pc = "pipe" /\ NeedsPipe /\ Cardinality(FreeFds(t)) >= 2
      /\ out_pipe' = <<r, w>>
      /\ fds' = [fds EXCEPT ![Shell] = Open(Open(t, r, ReadEnd(p)), w, WriteEnd(p))]
      /\ content' = [content EXCEPT ![p] = 0]
      /\ pc' = "fork"
      /\ UNCHANGED <<reading, commands, i, k, in_pipe, status, copy, left, started, delivered>>
  BY DEF Pipe
<1>2. n \in 1..MaxCommands /\ i \in 1..n /\ i < n /\ i \in Children /\ n \in Nat /\ i \in Nat
  <2>1. n \in 1..MaxCommands /\ i \in 1..n /\ n \in Nat
    BY <1>1, InLineIs, NumIs DEF InLine
  <2>2. i # n
    BY <1>1 DEF NeedsPipe, IsLast
  <2> QED
    BY <2>1, <2>2, ConstantsOK DEF Children
<1>3. r \in Fds /\ w \in Fds /\ r # w /\ t[r] = Free /\ t[w] = Free
  <2>1. FreeFds(t) \in SUBSET Fds
    BY DEF FreeFds
  <2>2. /\ FreeFds(t) \in SUBSET Nat /\ FreeFds(t) # {}
        /\ FreeFds(t) \ {r} \in SUBSET Nat /\ FreeFds(t) \ {r} # {}
    BY <1>1, <2>1, TwoFree
  <2>3. r \in FreeFds(t)
    BY <2>2, MinIs
  <2> HIDE DEF r
  <2>4. w \in FreeFds(t) \ {r}
    BY <2>2, MinIs
  <2> QED
    BY <2>3, <2>4 DEF FreeFds
<1>4. p \in PipeIds /\ ~Held(ReadEnd(p)) /\ ~Held(WriteEnd(p))
  <2> DEFINE T == {q \in PipeIds : ~Held(ReadEnd(q)) /\ ~Held(WriteEnd(q))}
  <2>1. T # {}
    BY <1>1, FreePipe
  <2>2. T \in SUBSET Nat
    BY ConstantsOK DEF PipeIds
  <2> HIDE DEF T
  <2>3. Min(T) \in T
    BY <2>1, <2>2, MinIs
  <2> QED
    BY <2>3 DEF T
<1> HIDE DEF p, r, w
<1>p. PICK pid2 : pid2 = [pid EXCEPT ![i] = p]
  OBVIOUS
<1>5. /\ pid \in [Children -> PipeIds] /\ pid2 \in [Children -> PipeIds] /\ pid2[i] = p
      /\ \A c \in Children : c # i => pid2[c] = pid[c]
  BY <1>2, <1>4, <1>p DEF Wires
<1>6. t = Row(i, i, in_pipe, out_pipe, pid) /\ Apart(i, i, in_pipe, out_pipe)
  BY <1>1 DEF Wires, ShellTable
<1>7. /\ Open(Open(t, r, ReadEnd(p)), w, WriteEnd(p)) = Row(n, i, in_pipe, <<r, w>>, pid2)
      /\ Apart(n, i, in_pipe, <<r, w>>)
  <2>1. Row(i, i, in_pipe, out_pipe, pid)[r] = Free /\ Row(i, i, in_pipe, out_pipe, pid)[w] = Free
    BY <1>3, <1>6
  <2>2. pid \in [Children -> PipeIds] /\ pid2 \in [Children -> PipeIds] /\ pid2[i] = p
    BY <1>5
  <2>4. i > 1 => pid2[i - 1] = pid[i - 1]
    <3>1. i > 1 => i - 1 \in Children /\ i - 1 # i
      BY <1>2, ConstantsOK DEF Children
    <3> QED
      BY <1>5, <3>1
  <2> HIDE DEF t, n
  <2>3. /\ Open(Open(Row(i, i, in_pipe, out_pipe, pid), r, ReadEnd(p)), w, WriteEnd(p))
              = Row(n, i, in_pipe, <<r, w>>, pid2)
        /\ Apart(n, i, in_pipe, <<r, w>>)
    BY <1>2, <1>3, <1>4, <1>6, <2>1, <2>2, <2>4, PipedRow
  <2> QED
    BY <1>6, <2>3
<1>8. /\ input' = input /\ offset' = offset /\ at' = at /\ limit' = limit /\ commands' = commands
      /\ i' = i /\ k' = k /\ in_pipe' = in_pipe /\ status' = status /\ copy' = copy
      /\ left' = left /\ started' = started /\ delivered' = delivered
      /\ process_num' = n /\ \A c : InSh(c)' <=> InSh(c)
  BY <1>1 DEF reading, process_num, InSh
<1>9. fds' \in [Procs -> [Fds -> Ends2]] /\ fds'[Shell] = Row(n, i, in_pipe, <<r, w>>, pid2)
      /\ \A c \in Children : fds'[c] = fds[c]
  <2>1. Shell \in Procs /\ \A c \in Children : c \in Procs /\ c # Shell
    BY DEF Procs, Shell, Children
  <2>2. Row(n, i, in_pipe, <<r, w>>, pid2) \in [Fds -> Ends2]
    BY <1>2, <1>5, RowIs
  <2>3. fds \in [Procs -> [Fds -> Ends2]]
    BY DEF Types
  <2>4. fds' = [fds EXCEPT ![Shell] = Row(n, i, in_pipe, <<r, w>>, pid2)]
    BY <1>1, <1>7
  <2> QED
    BY <2>1, <2>2, <2>3, <2>4
<1>10. Types'
  <2>1. content' \in [PipeIds -> 0..Capacity]
    BY <1>1, <1>4, ConstantsOK DEF Types
  <2>2. out_pipe' \in Fds \X Fds
    BY <1>1, <1>3
  <2> QED
    BY <1>1, <1>8, <1>9, <2>1, <2>2 DEF Types
<1>11. Stages'
  BY <1>1, <1>8 DEF Stages, InLine
<1>12. \A c \in Children : status[c] # "none" => c < i
  <2>1. \A c \in Children : (status[c] = "none") <=> (c >= i)
    BY <1>1 DEF Stages
  <2> QED
    BY <1>2, <2>1, ConstantsOK DEF Children
<1>13. \A c \in Children : ChildTable(status[c], n, c, copy[c], pid2)
                             = ChildTable(status[c], n, c, copy[c], pid)
  <2> SUFFICES ASSUME NEW c \in Children
               PROVE  ChildTable(status[c], n, c, copy[c], pid2)
                        = ChildTable(status[c], n, c, copy[c], pid)
    OBVIOUS
  <2>1. CASE status[c] = "none"
    BY <2>1 DEF ChildTable, Executed
  <2>2. CASE status[c] # "none"
    <3>1. c < i /\ c \in 1..n
      BY <1>12, <2>2, Commanded
    <3>2. c > 1 => c - 1 \in Children /\ c - 1 # i
      BY <1>2, <3>1, ConstantsOK DEF Children
    <3>3. pid2[c] = pid[c] /\ (c > 1 => pid2[c - 1] = pid[c - 1])
      BY <1>2, <1>5, <3>1, <3>2
    <3>4. /\ Row(n, c, copy[c][1], copy[c][2], pid2) = Row(n, c, copy[c][1], copy[c][2], pid)
          /\ ExecRow(n, c, pid2) = ExecRow(n, c, pid)
      BY <1>2, <1>5, <3>1, <3>3, RowSame
    <3> QED
      BY <3>4 DEF ChildTable
  <2> QED
    BY <2>1, <2>2
<1>14. Wires(pid2)'
  <2>1. \A c \in Children :
         /\ status[c] = "forked" => Apart(n, c, copy[c][1], copy[c][2])
         /\ fds'[c] = ChildTable(status[c], n, c, copy[c], pid2)
    BY <1>9, <1>13 DEF Wires
  <2> QED
    BY <1>1, <1>5, <1>7, <1>8, <1>9, <2>1 DEF Wires, ShellTable
<1>15. ASSUME Flows' PROVE \E sent : Flow(pid2, sent)'
  <2>1. Flows
    BY <1>1, <1>8, <1>15 DEF Flows, InLine, OnlyFiltersAfterSource, Filters, InSh, What
  <2>2. PICK sent : Flow(pid, sent)
    BY <2>1
  <2>3. \A c : /\ NotYet(c)' <=> NotYet(c)
               /\ Over(c)' <=> Over(c)
               /\ Own(c)' = Own(c)
    BY <1>1, <1>8 DEF NotYet, Over, Own, What
  <2>4. \A c : Given(c)' = Given(c)
    BY <2>3 DEF Given
  <2>5. \A c \in 1..n : c \in Children /\ sent[c] \in Nat
    BY <2>2, FlowTypes
  <2>6. \A c \in Children : c >= i => NotYet(c) /\ left[c] = 0 /\ Given(c) = 0 /\ ~Over(c)
    BY <1>1 DEF Stages, NotYet, Given, Over
  <2>7. ASSUME NEW c \in 2..n, Live(c)' PROVE (c <= i /\ Live(c)) \/ c = i + 1
    BY <1>1, <1>2, <1>8, <2>3, <2>7 DEF Live
  <2>8. ASSUME NEW c \in 2..n, c <= i, Live(c)
        PROVE  pid2[c - 1] = pid[c - 1] /\ pid[c - 1] # p /\ content'[pid[c - 1]] = content[pid[c - 1]]
    <3>1. c - 1 \in Children /\ c - 1 # i
      BY <1>2, <2>8, ConstantsOK DEF Children
    <3>2. Held(ReadEnd(pid[c - 1]))
      BY <1>1, <2>8, ReaderThere DEF InLine
    <3>3. pid[c - 1] # p
      BY <1>4, <3>2
    <3> QED
      BY <1>1, <1>4, <1>5, <3>1, <3>3 DEF Types
  <2>9. ASSUME NEW c \in 2..n, Live(c)'
        PROVE  content'[pid2[c - 1]] + sent[c] + left'[c] = sent[c - 1] + Given(c)'
    <3>1. CASE c <= i /\ Live(c)
      <4>1. content[pid[c - 1]] + sent[c] + left[c] = sent[c - 1] + Given(c)
        BY <2>2, <3>1 DEF Flow
      <4> QED
        BY <1>8, <2>4, <2>8, <3>1, <4>1
    <3>2. CASE c = i + 1
      <4>1. c - 1 = i /\ c \in 1..n /\ i \in 1..n /\ c \in Children
        BY <1>2, <2>5, <3>2
      <4>2. sent[c] = 0 /\ sent[i] = 0 /\ left[c] = 0 /\ Given(c) = 0
        BY <1>2, <2>2, <2>6, <3>2, <4>1 DEF Flow
      <4>3. content'[pid2[c - 1]] = 0
        BY <1>1, <1>4, <1>5, <4>1 DEF Types
      <4> QED
        BY <1>8, <2>4, <4>1, <4>2, <4>3
    <3> QED
      BY <2>7, <2>9, <3>1, <3>2
  <2>10. ASSUME NEW c \in 2..n, NEW d \in 2..n, Live(c)', Live(d)', c # d
         PROVE  pid2[c - 1] # pid2[d - 1]
    <3>1. (c <= i /\ Live(c)) \/ c = i + 1
      BY <2>7, <2>10
    <3>2. (d <= i /\ Live(d)) \/ d = i + 1
      BY <2>7, <2>10
    <3>3. c = i + 1 => pid2[c - 1] = p
      BY <1>2, <1>5
    <3>4. d = i + 1 => pid2[d - 1] = p
      BY <1>2, <1>5
    <3>5. CASE c <= i /\ Live(c) /\ d <= i /\ Live(d)
      <4>1. pid[c - 1] # pid[d - 1]
        BY <2>2, <2>10, <3>5 DEF Flow
      <4> QED
        BY <2>8, <3>5, <4>1
    <3>6. CASE c = i + 1
      BY <2>8, <2>10, <3>2, <3>3, <3>6
    <3>7. CASE d = i + 1
      BY <2>8, <2>10, <3>1, <3>4, <3>7
    <3> QED
      BY <3>1, <3>2, <3>5, <3>6, <3>7
  <2>11. \A c \in 2..n : Over(c)' => Over(c - 1)' /\ sent[c] = sent[c - 1] + Own(c)'
    BY <2>2, <2>3 DEF Flow
  <2>12. sent[1] + left'[1] = Given(1)' /\ sent \in [Children -> Nat] /\ sent[n] = delivered'
    BY <1>8, <2>2, <2>4 DEF Flow
  <2>13. \A c \in 1..n : NotYet(c)' => sent[c] = 0
    BY <2>2, <2>3 DEF Flow
  <2>14. Flow(pid2, sent)'
    BY <1>8, <2>9, <2>10, <2>11, <2>12, <2>13 DEF Flow
  <2> QED
    BY <2>14
<1>16. AllDelivered'
  BY <1>1 DEF AllDelivered
<1> QED
  BY <1>10, <1>11, <1>14, <1>15, <1>16

(* The last command, which needs no pipe, keeps the invariant: *)
(* descriptors, stages and the items in the pipes.             *)
LEMMA NoPipeKeeps ==
    ASSUME Types, Stages, NEW pid, Wires(pid), Flows => \E sent : Flow(pid, sent), NoPipe
    PROVE  Types' /\ Stages' /\ Wires(pid)' /\ AllDelivered' /\ (Flows' => \E sent : Flow(pid, sent)')
<1> DEFINE n == process_num
<1>1. /\ pc = "pipe" /\ ~NeedsPipe /\ pc' = "fork"
      /\ input' = input /\ offset' = offset /\ at' = at /\ limit' = limit /\ commands' = commands
      /\ i' = i /\ k' = k /\ in_pipe' = in_pipe /\ out_pipe' = out_pipe /\ status' = status
      /\ copy' = copy /\ left' = left /\ started' = started /\ delivered' = delivered
      /\ fds' = fds /\ content' = content
  BY DEF NoPipe, reading
<1>2. n \in 1..MaxCommands /\ i \in 1..n /\ i = n /\ n \in Nat
  <2>1. n \in 1..MaxCommands /\ i \in 1..n /\ n \in Nat
    BY <1>1, InLineIs, NumIs DEF InLine
  <2>2. n = 1 \/ i = n
    BY <1>1 DEF NeedsPipe, IsLast
  <2> QED
    BY <2>1, <2>2
<1>3. process_num' = n /\ \A c : InSh(c)' <=> InSh(c)
  BY <1>1 DEF process_num, InSh
<1>4. Types'
  BY <1>1, <1>3 DEF Types
<1>5. Stages'
  BY <1>1, <1>3 DEF Stages, InLine
<1>6. Wires(pid)'
  <2>1. fds[Shell] = Row(n, i, in_pipe, out_pipe, pid) /\ Apart(n, i, in_pipe, out_pipe)
    BY <1>1, <1>2 DEF Wires, ShellTable
  <2> QED
    BY <1>1, <1>3, <2>1 DEF Wires, ShellTable
<1>7. ASSUME Flows' PROVE \E sent : Flow(pid, sent)'
  <2>1. Flows
    BY <1>1, <1>3, <1>7 DEF Flows, InLine, OnlyFiltersAfterSource, Filters, InSh, What
  <2>2. PICK sent : Flow(pid, sent)
    BY <2>1
  <2>3. \A c : /\ NotYet(c)' <=> NotYet(c)
               /\ Over(c)' <=> Over(c)
               /\ Own(c)' = Own(c)
    BY <1>1 DEF NotYet, Over, Own, What
  <2>4. \A c : Given(c)' = Given(c)
    BY <2>3 DEF Given
  <2>5. \A c \in 2..n : Live(c)' <=> Live(c)
    BY <1>1, <1>2, <2>3 DEF Live
  <2>6. Flow(pid, sent)'
    BY <1>1, <1>3, <2>2, <2>3, <2>4, <2>5 DEF Flow
  <2> QED
    BY <2>6
<1>8. AllDelivered'
  BY <1>1 DEF AllDelivered
<1> QED
  BY <1>4, <1>5, <1>6, <1>7, <1>8

(* fork() keeps the invariant: descriptors, stages and the items in the *)
(* pipes.                                                               *)
LEMMA ForkKeeps ==
    ASSUME Types, Stages, NEW pid, Wires(pid), Flows => \E sent : Flow(pid, sent), Fork
    PROVE  Types' /\ Stages' /\ Wires(pid)' /\ AllDelivered' /\ (Flows' => \E sent : Flow(pid, sent)')
<1> DEFINE n == process_num
<1>1. /\ pc = "fork" /\ pc' = "close"
      /\ status' = [status EXCEPT ![i] = "forked"]
      /\ fds' = [fds EXCEPT ![i] = fds[Shell]]
      /\ copy' = [copy EXCEPT ![i] = <<in_pipe, out_pipe, limit - at>>]
      /\ input' = input /\ offset' = offset /\ at' = at /\ limit' = limit /\ commands' = commands
      /\ i' = i /\ k' = k /\ in_pipe' = in_pipe /\ out_pipe' = out_pipe
      /\ left' = left /\ started' = started /\ delivered' = delivered /\ content' = content
  BY DEF Fork, reading
<1>2. n \in 1..MaxCommands /\ i \in 1..n /\ n \in Nat /\ i \in Children /\ i \in Nat
  BY <1>1, InLineIs, NumIs, ConstantsOK DEF InLine, Children
<1>3. process_num' = n /\ \A c : InSh(c)' <=> InSh(c)
  BY <1>1 DEF process_num, InSh
<1>4. /\ Shell \in Procs /\ i \in Procs /\ Shell # i
      /\ \A c \in Children : c \in Procs /\ c \in Nat
  BY <1>2, ConstantsOK DEF Procs, Shell, Children
<1>5. /\ fds' \in [Procs -> [Fds -> Ends2]] /\ fds'[i] = fds[Shell] /\ fds'[Shell] = fds[Shell]
      /\ \A c \in Children : c # i => fds'[c] = fds[c]
  BY <1>1, <1>4 DEF Types
<1>6. /\ status' \in [Children -> {"none", "forked", "sh", "running", "waited", "zombie"}]
      /\ status'[i] = "forked" /\ \A c \in Children : c # i => status'[c] = status[c]
  BY <1>1, <1>2 DEF Types
<1>7. /\ DOMAIN copy' = Children /\ copy' = [c \in Children |-> copy'[c]]
      /\ copy'[i] = <<in_pipe, out_pipe, limit - at>> /\ \A c \in Children : c # i => copy'[c] = copy[c]
  BY <1>1, <1>2 DEF Types
<1>8. Types'
  BY <1>1, <1>3, <1>5, <1>6, <1>7 DEF Types
<1>9. \A c \in Children : (status[c] = "none") <=> (c >= i)
  BY <1>1 DEF Stages
<1>10. Stages'
  <2>1. \A c \in Children : (status'[c] = "none") <=> (c > i)
    BY <1>2, <1>4, <1>6, <1>9
  <2>2. i <= n /\ at >= 1 /\ commands = input[at]
    BY <1>1 DEF Stages, InLine
  <2>3. \A c \in Children : status'[c] # "none" =>
         /\ c <= n /\ at >= 1 /\ commands = input[at]
         /\ status'[c] \in {"sh", "waited"} => InSh(c)
         /\ status'[c] # "running" => left[c] = 0
         /\ status'[c] = "forked" => copy'[c][3] = limit - at
    <3> SUFFICES ASSUME NEW c \in Children, status'[c] # "none"
                 PROVE  /\ c <= n /\ at >= 1 /\ commands = input[at]
                        /\ status'[c] \in {"sh", "waited"} => InSh(c)
                        /\ status'[c] # "running" => left[c] = 0
                        /\ status'[c] = "forked" => copy'[c][3] = limit - at
      OBVIOUS
    <3>1. CASE c = i
      <4>1. left[c] = 0
        BY <1>2, <1>9, <3>1 DEF Stages
      <4> QED
        BY <1>6, <1>7, <2>2, <3>1, <4>1
    <3>2. CASE c # i
      BY <1>6, <1>7, <3>2 DEF Stages
    <3> QED
      BY <3>1, <3>2
  <2>4. \A c \in Children : status'[c] = "none" => left[c] = 0
    BY <1>6 DEF Stages
  <2> QED
    BY <1>1, <1>3, <2>1, <2>2, <2>3, <2>4 DEF Stages, InLine
<1>11. fds[Shell] = Row(n, i, in_pipe, out_pipe, pid) /\ Apart(n, i, in_pipe, out_pipe)
  BY <1>1 DEF Wires, ShellTable
<1>12. Wires(pid)'
  <2>1. \A c \in Children :
         /\ status'[c] = "forked" => Apart(n, c, copy'[c][1], copy'[c][2])
         /\ fds'[c] = ChildTable(status'[c], n, c, copy'[c], pid)
    <3> SUFFICES ASSUME NEW c \in Children
                 PROVE  /\ status'[c] = "forked" => Apart(n, c, copy'[c][1], copy'[c][2])
                        /\ fds'[c] = ChildTable(status'[c], n, c, copy'[c], pid)
      OBVIOUS
    <3>1. CASE c = i
      <4>1. copy'[c][1] = in_pipe /\ copy'[c][2] = out_pipe
        BY <1>7, <3>1
      <4> QED
        BY <1>5, <1>6, <1>11, <3>1, <4>1 DEF ChildTable
    <3>2. CASE c # i
      BY <1>5, <1>6, <1>7, <3>2 DEF Wires
    <3> QED
      BY <3>1, <3>2
  <2> QED
    BY <1>1, <1>3, <1>5, <1>11, <2>1 DEF Wires, ShellTable
<1>13. ASSUME Flows' PROVE \E sent : Flow(pid, sent)'
  <2>1. Flows
    BY <1>1, <1>3, <1>13 DEF Flows, InLine, OnlyFiltersAfterSource, Filters, InSh, What
  <2>2. PICK sent : Flow(pid, sent)
    BY <2>1
  <2>3. \A c \in Children : /\ NotYet(c)' <=> NotYet(c)
                            /\ Over(c)' <=> Over(c)
                            /\ Own(c)' = Own(c)
    BY <1>1, <1>2, <1>6, <1>9 DEF NotYet, Over, Own, What
  <2>4. \A c \in Children : Given(c)' = Given(c)
    BY <2>3 DEF Given
  <2>5. \A c \in Children : Live(c)' <=> Live(c)
    BY <1>1, <2>3 DEF Live
  <2>6. /\ \A c \in 1..n : c \in Children
        /\ \A c \in 2..n : c \in Children /\ c - 1 \in Children
    BY <2>2, FlowTypes, <1>2, ConstantsOK DEF Children
  <2>7. Given(1)' = Given(1)
    BY <2>4, ConstantsOK DEF Children
  <2>8. \A c \in 2..n :
         /\ Live(c)' => content'[pid[c - 1]] + sent[c] + left'[c] = sent[c - 1] + Given(c)'
         /\ Over(c)' => Over(c - 1)' /\ sent[c] = sent[c - 1] + Own(c)'
         /\ \A d \in 2..n : Live(c)' /\ Live(d)' /\ c # d => pid[c - 1] # pid[d - 1]
    BY <1>1, <2>2, <2>3, <2>4, <2>5, <2>6 DEF Flow
  <2>9. Flow(pid, sent)'
    BY <1>1, <1>3, <2>2, <2>3, <2>6, <2>7, <2>8 DEF Flow
  <2> QED
    BY <2>9
<1>14. AllDelivered'
  BY <1>1 DEF AllDelivered
<1> QED
  BY <1>8, <1>10, <1>12, <1>13, <1>14

(* Closing the parent's ends keeps the invariant: descriptors, stages and *)
(* the items in the pipes.                                                *)
LEMMA CloseEndsKeeps ==
    ASSUME Types, Stages, NEW pid, Wires(pid), Flows => \E sent : Flow(pid, sent), CloseEnds
    PROVE  Types' /\ Stages' /\ Wires(pid)' /\ AllDelivered' /\ (Flows' => \E sent : Flow(pid, sent)')
<1> DEFINE n == process_num
<1>1. /\ pc = "close"
      /\ fds' = [fds EXCEPT ![Shell] = ParentEnds(fds[Shell])]
      /\ in_pipe' = out_pipe /\ i' = i + 1 /\ out_pipe' = out_pipe
      /\ pc' = IF i = n THEN "wait" ELSE "pipe"
      /\ k' = IF i = n THEN n ELSE k
      /\ input' = input /\ offset' = offset /\ at' = at /\ limit' = limit /\ commands' = commands
      /\ status' = status /\ copy' = copy
      /\ left' = left /\ started' = started /\ delivered' = delivered /\ content' = content
  BY DEF CloseEnds, reading, IsLast, children_size
<1>2. n \in 1..MaxCommands /\ i \in 1..n /\ n \in Nat /\ i \in Nat
  BY <1>1, InLineIs, NumIs DEF InLine
<1>3. process_num' = n /\ \A c : InSh(c)' <=> InSh(c)
  BY <1>1 DEF process_num, InSh
<1>4. Shell \in Procs /\ \A c \in Children : c \in Procs /\ c \in Nat /\ c # Shell /\ c <= MaxCommands
  BY ConstantsOK DEF Procs, Shell, Children
<1>5. fds[Shell] = Row(n, i, in_pipe, out_pipe, pid) /\ Apart(n, i, in_pipe, out_pipe)
      /\ pid \in [Children -> PipeIds]
  BY <1>1 DEF Wires, ShellTable
<1>6. ParentEnds(fds[Shell]) = IF i = n THEN Row(1, 1, out_pipe, out_pipe, pid)
                               ELSE Row(i + 1, i + 1, out_pipe, out_pipe, pid)
  BY <1>2, <1>5, ParentIs
<1>7. ParentEnds(fds[Shell]) \in [Fds -> Ends2]
  <2>1. 1 \in 1..MaxCommands /\ 1 \in 1..1
    BY ConstantsOK
  <2>2. i < n => i + 1 \in 1..MaxCommands /\ i + 1 \in 1..(i + 1)
    BY <1>2, ConstantsOK
  <2>3. Row(1, 1, out_pipe, out_pipe, pid) \in [Fds -> Ends2]
    BY <1>5, <2>1, RowIs
  <2>4. i < n => Row(i + 1, i + 1, out_pipe, out_pipe, pid) \in [Fds -> Ends2]
    BY <1>5, <2>2, RowIs
  <2> QED
    BY <1>2, <1>6, <2>3, <2>4
<1>8. /\ fds' \in [Procs -> [Fds -> Ends2]] /\ fds'[Shell] = ParentEnds(fds[Shell])
      /\ \A c \in Children : fds'[c] = fds[c]
  BY <1>1, <1>4, <1>7 DEF Types
<1>9. Types'
  <2>1. i' \in 1..(MaxCommands + 1) /\ k' \in 0..MaxCommands
    <3>1. n \in 0..MaxCommands /\ i + 1 \in 1..(MaxCommands + 1)
      BY <1>2, ConstantsOK
    <3> QED
      BY <1>1, <3>1 DEF Types
  <2> QED
    BY <1>1, <1>3, <1>8, <2>1 DEF Types
<1>10. \A c \in Children : (status[c] = "none") <=> (c > i)
  BY <1>1 DEF Stages
<1>11. Stages'
  <2>1. i < n => \A c \in Children : (status'[c] = "none") <=> (c >= i')
    BY <1>1, <1>2, <1>4, <1>10
  <2>2. i = n => k' = Cardinality({c \in Children : status'[c] # "none"})
    <3> SUFFICES ASSUME i = n PROVE Cardinality({c \in Children : status[c] # "none"}) = n
      BY <1>1
    <3>1. {c \in Children : status[c] # "none"} = 1..n
      BY <1>2, <1>4, <1>10, ConstantsOK DEF Children
    <3>2. 1 \in Int /\ n \in Int /\ ~(1 > n) /\ n - 1 + 1 = n
      BY <1>2
    <3> HIDE DEF n
    <3> QED
      BY <3>1, <3>2, FS_Interval
  <2>3. at >= 1 /\ commands = input[at]
    BY <1>1 DEF Stages, InLine
  <2>4. pc' \in {"pipe", "wait"} /\ (pc' = "pipe" => i < n) /\ (pc' = "wait" => i = n)
    BY <1>1, <1>2
  <2>5. i < n => i' <= n
    BY <1>1, <1>2
  <2>6. /\ \A c \in Children : status'[c] # "none" =>
             /\ c <= n /\ at >= 1 /\ commands = input[at]
             /\ status'[c] \in {"sh", "waited"} => InSh(c)
             /\ status'[c] # "running" => left[c] = 0
             /\ status'[c] = "forked" => copy[c][3] = limit - at
        /\ \A c \in Children : status'[c] = "none" => left[c] = 0
    BY <1>1 DEF Stages
  <2> QED
    BY <1>1, <1>3, <2>1, <2>2, <2>3, <2>4, <2>5, <2>6 DEF Stages, InLine
<1>12. Wires(pid)'
  <2>1. \A c \in Children :
         /\ status'[c] = "forked" => Apart(n, c, copy'[c][1], copy'[c][2])
         /\ fds'[c] = ChildTable(status'[c], n, c, copy'[c], pid)
    BY <1>1, <1>8 DEF Wires
  <2>2. i # n => Apart(i + 1, i + 1, out_pipe, out_pipe)
    BY <1>2, <1>5 DEF Apart
  <2>3. fds'[Shell] = ShellTable(pc', n, i', in_pipe', out_pipe', pid)
    <3>1. Row(1, 1, out_pipe, out_pipe, pid) = ShellTable("wait", n, i + 1, out_pipe, out_pipe, pid)
          /\ Row(i + 1, i + 1, out_pipe, out_pipe, pid)
               = ShellTable("pipe", n, i + 1, out_pipe, out_pipe, pid)
      BY DEF ShellTable
    <3> HIDE DEF n
    <3> QED
      BY <1>1, <1>6, <1>8, <3>1
  <2>4. pc' \notin {"fork", "close"} /\ (pc' = "pipe" => i # n)
    BY <1>1
  <2> QED
    BY <1>1, <1>3, <1>5, <2>1, <2>2, <2>3, <2>4 DEF Wires
<1>13. ASSUME Flows' PROVE \E sent : Flow(pid, sent)'
  <2>1. Flows
    BY <1>1, <1>3, <1>13 DEF Flows, InLine, OnlyFiltersAfterSource, Filters, InSh, What
  <2>2. PICK sent : Flow(pid, sent)
    BY <2>1
  <2>3. \A c \in 1..n : c \in Children
    BY <2>2, FlowTypes
  <2>4. \A c \in 1..n : /\ NotYet(c)' <=> NotYet(c)
                        /\ Over(c)' <=> Over(c)
                        /\ Own(c)' = Own(c)
    <3>1. \A c \in 1..n : status[c] = "none" => i # n
      BY <1>2, <1>10, <2>3
    <3> QED
      BY <1>1, <2>3, <3>1 DEF NotYet, Over, Own, What
  <2>5. \A c \in 1..n : Given(c)' = Given(c)
    BY <2>4 DEF Given
  <2>6. \A c \in 2..n : c \in 1..n /\ c - 1 \in 1..n
    BY <1>2
  <2>7. \A c \in 2..n : Live(c)' <=> Live(c)
    <3>1. \A c \in 2..n : c <= i + 1 \/ (c = (i + 1) + 1 /\ i # n) <=> c <= i + 2 /\ (i # n \/ c <= i + 1)
      BY <1>2
    <3>2. \A c \in 2..n : Live(c) <=> c <= i + 1 /\ ~Over(c)
      BY <1>1, <1>2 DEF Live
    <3>3. \A c \in 2..n : Live(c)' <=> c <= i + 1 /\ ~Over(c)'
      <4> SUFFICES ASSUME NEW c \in 2..n PROVE Live(c)' <=> c <= i + 1 /\ ~Over(c)'
        OBVIOUS
      <4>1. pc' # "pipe" => i = n /\ c <= i
        BY <1>1, <1>2
      <4>2. Live(c)' <=> 1 < c /\ (c <= i + 1 \/ (c = (i + 1) + 1 /\ pc' # "pipe")) /\ ~Over(c)'
        BY <1>1 DEF Live
      <4> QED
        BY <1>2, <4>1, <4>2
    <3> QED
      BY <2>4, <2>6, <3>2, <3>3
  <2>8. Given(1)' = Given(1)
    BY <1>2, <2>5
  <2>9. \A c \in 2..n :
         /\ Live(c)' => content'[pid[c - 1]] + sent[c] + left'[c] = sent[c - 1] + Given(c)'
         /\ Over(c)' => Over(c - 1)' /\ sent[c] = sent[c - 1] + Own(c)'
         /\ \A d \in 2..n : Live(c)' /\ Live(d)' /\ c # d => pid[c - 1] # pid[d - 1]
    BY <1>1, <2>2, <2>4, <2>5, <2>6, <2>7 DEF Flow
  <2>10. Flow(pid, sent)'
    BY <1>1, <1>3, <2>2, <2>4, <2>8, <2>9 DEF Flow
  <2> QED
    BY <2>10
<1>14. AllDelivered'
  BY <1>1 DEF AllDelivered
<1> QED
  BY <1>9, <1>11, <1>12, <1>13, <1>14

(* wait() keeps the invariant: descriptors, stages and the items in the *)
(* pipes.                                                               *)
LEMMA WaitKeeps ==
    ASSUME Types, Stages, NEW pid, Wires(pid), Flows => \E sent : Flow(pid, sent), Wait
    PROVE  Types' /\ Stages' /\ Wires(pid)' /\ AllDelivered' /\ (Flows' => \E sent : Flow(pid, sent)')
<1> DEFINE n == process_num
           alive == {d \in Children : status[d] # "none"}
<1>1. PICK c \in Children : status[c] = "zombie" /\ status' = [status EXCEPT ![c] = "none"]
  BY DEF Wait
<1>2. /\ pc = "wait" /\ k > 0 /\ k' = k - 1
      /\ input' = input /\ offset' = offset /\ at' = at /\ limit' = limit /\ commands' = commands
      /\ pc' = pc /\ i' = i /\ in_pipe' = in_pipe /\ out_pipe' = out_pipe /\ fds' = fds
      /\ copy' = copy
      /\ left' = left /\ started' = started /\ delivered' = delivered /\ content' = content
  BY DEF Wait, reading
<1>3. process_num' = n /\ \A d : InSh(d)' <=> InSh(d)
  BY <1>2 DEF process_num, InSh
<1>4. status'[c] = "none" /\ \A d \in Children : d # c => status'[d] = status[d]
  BY <1>1 DEF Types
<1>5. Types'
  <2>1. status' \in [Children -> {"none", "forked", "sh", "running", "waited", "zombie"}]
    BY <1>1 DEF Types
  <2>2. k' \in 0..MaxCommands
    <3>1. k \in 0..MaxCommands
      BY DEF Types
    <3> QED
      BY <1>2, <3>1, ConstantsOK
  <2> QED
    BY <1>2, <1>3, <2>1, <2>2 DEF Types
<1>6. Stages'
  <2>1. {d \in Children : status'[d] # "none"} = alive \ {c}
    BY <1>4
  <2>2. k = Cardinality(alive) /\ i = n + 1
    BY <1>2 DEF Stages
  <2>3. IsFiniteSet(alive) /\ c \in alive
    <3>1. IsFiniteSet(Children)
      BY ConstantsOK, FS_Interval DEF Children
    <3>2. alive \in SUBSET Children
      OBVIOUS
    <3>3. c \in alive
      BY <1>1
    <3> HIDE DEF alive
    <3> QED
      BY <3>1, <3>2, <3>3, FS_Subset
  <2>4. Cardinality(alive \ {c}) = Cardinality(alive) - 1
    <3> HIDE DEF alive
    <3> QED
      BY <2>3, FS_RemoveElement
  <2>5. k' = Cardinality({d \in Children : status'[d] # "none"})
    <3> HIDE DEF alive
    <3> QED
      BY <1>2, <2>1, <2>2, <2>4
  <2>6. left[c] = 0
    BY <1>1 DEF Stages
  <2>7. /\ \A d \in Children : status'[d] # "none" =>
             /\ d <= n /\ at >= 1 /\ commands = input[at]
             /\ status'[d] \in {"sh", "waited"} => InSh(d)
             /\ status'[d] # "running" => left[d] = 0
             /\ status'[d] = "forked" => copy[d][3] = limit - at
        /\ \A d \in Children : status'[d] = "none" => left[d] = 0
    BY <1>4, <2>6 DEF Stages
  <2> QED
    BY <1>2, <1>3, <2>2, <2>5, <2>7 DEF Stages, InLine
<1>7. Wires(pid)'
  <2>1. \A d \in Children :
         /\ status'[d] = "forked" => Apart(n, d, copy[d][1], copy[d][2])
         /\ fds[d] = ChildTable(status'[d], n, d, copy[d], pid)
    <3> SUFFICES ASSUME NEW d \in Children
                 PROVE  /\ status'[d] = "forked" => Apart(n, d, copy[d][1], copy[d][2])
                        /\ fds[d] = ChildTable(status'[d], n, d, copy[d], pid)
      OBVIOUS
    <3>1. CASE d = c
      BY <1>1, <1>4, <3>1 DEF Wires, ChildTable, Executed
    <3>2. CASE d # c
      BY <1>4, <3>2 DEF Wires
    <3> QED
      BY <3>1, <3>2
  <2> QED
    BY <1>2, <1>3, <2>1 DEF Wires
<1>8. ASSUME Flows' PROVE \E sent : Flow(pid, sent)'
  <2>1. Flows
    BY <1>2, <1>3, <1>8 DEF Flows, InLine, OnlyFiltersAfterSource, Filters, InSh, What
  <2>2. PICK sent : Flow(pid, sent)
    BY <2>1
  <2>3. \A d \in Children : /\ NotYet(d)' <=> NotYet(d)
                            /\ Over(d)' <=> Over(d)
                            /\ Own(d)' = Own(d)
    BY <1>1, <1>2, <1>4 DEF NotYet, Over, Own, What
  <2>4. \A d \in Children : Given(d)' = Given(d)
    BY <2>3 DEF Given
  <2>5. \A d \in Children : Live(d)' <=> Live(d)
    BY <1>2, <2>3 DEF Live
  <2>6. /\ \A d \in 1..n : d \in Children
        /\ \A d \in 2..n : d \in Children /\ d - 1 \in Children
    <3>1. n \in Nat /\ n <= MaxCommands
      BY NumIs
    <3> HIDE DEF n
    <3> QED
      BY <3>1, ConstantsOK DEF Children
  <2>7. Given(1)' = Given(1)
    BY <2>4, ConstantsOK DEF Children
  <2>8. \A d \in 2..n :
         /\ Live(d)' => content'[pid[d - 1]] + sent[d] + left'[d] = sent[d - 1] + Given(d)'
         /\ Over(d)' => Over(d - 1)' /\ sent[d] = sent[d - 1] + Own(d)'
         /\ \A e \in 2..n : Live(d)' /\ Live(e)' /\ d # e => pid[d - 1] # pid[e - 1]
    BY <1>2, <2>2, <2>3, <2>4, <2>5, <2>6 DEF Flow
  <2>9. Flow(pid, sent)'
    BY <1>2, <1>3, <2>2, <2>3, <2>6, <2>7, <2>8 DEF Flow
  <2> QED
    BY <2>9
<1>9. AllDelivered'
  BY <1>2 DEF AllDelivered
<1> QED
  BY <1>5, <1>6, <1>7, <1>8, <1>9

Echoes(c) == {d \in 2..c : What(d) = "stdin_echo"}

(* What arrives, when every command of a row of filters is over. *)
LEMMA RowDelivers ==
    ASSUME Types, NEW sent \in [Children -> Nat], process_num >= 1, sent[1] = Items,
           \A c \in 2..process_num : sent[c] = sent[c - 1] + Own(c)
    PROVE  sent[process_num] = Items + Cardinality(Echoes(process_num))
<1> DEFINE n == process_num
           T == {x \in 0..(n - 1) : sent[x + 1] = Items + Cardinality(Echoes(x + 1))}
<1>1. n \in Nat /\ n <= MaxCommands /\ n - 1 \in Nat /\ n >= 1
  BY NumIs
<1>2. 0 \in T
  <2>1. Echoes(0 + 1) = {}
    BY DEF Echoes
  <2>2. Cardinality(Echoes(0 + 1)) = 0
    BY <2>1, FS_EmptySet
  <2>3. Items + 0 = Items /\ 0 + 1 = 1 /\ 0 \in 0..(n - 1)
    BY <1>1, ConstantsOK
  <2> QED
    BY <2>2, <2>3
<1>3. ASSUME NEW x \in 0..((n - 1) - 1), x \in T PROVE x + 1 \in T
  <2> DEFINE c == x + 1
             d == c + 1
  <2>1. c \in 1..n /\ d \in 2..n /\ d - 1 = c /\ c \in Nat /\ c \in 0..(n - 1) /\ d \in Int
    BY <1>1
  <2>2. sent[c] = Items + Cardinality(Echoes(c))
    BY <1>3
  <2>3. sent[d] = sent[c] + Own(d)
    BY <2>1
  <2> HIDE DEF c
  <2>4. IsFiniteSet(Echoes(c)) /\ d \notin Echoes(c)
    <3>1. IsFiniteSet(2..c)
      BY <2>1, FS_Interval
    <3>2. Echoes(c) \in SUBSET (2..c)
      BY DEF Echoes
    <3>3. d \notin 2..c
      BY <2>1
    <3> QED
      BY <3>1, <3>2, <3>3, FS_Subset
  <2>5. Cardinality(Echoes(c)) \in Nat
    BY <2>4, FS_CardinalityType
  <2>6. Cardinality(Echoes(d)) = Cardinality(Echoes(c)) + Own(d)
    <3>1. CASE What(d) = "stdin_echo"
      <4>1. Echoes(d) = Echoes(c) \cup {d}
        BY <2>1, <3>1 DEF Echoes
      <4>2. Own(d) = 1
        BY <2>1, <3>1 DEF Own
      <4> HIDE DEF d
      <4> QED
        BY <2>4, <4>1, <4>2, FS_AddElement
    <3>2. CASE What(d) # "stdin_echo"
      <4>1. Echoes(d) = Echoes(c)
        BY <2>1, <3>2 DEF Echoes
      <4>2. Own(d) = 0
        BY <2>1, <3>2 DEF Own
      <4> QED
        BY <2>5, <4>1, <4>2
    <3> QED
      BY <3>1, <3>2
  <2>7. Own(d) \in Nat
    BY OwnNat, ConstantsOK
  <2>8. sent[d] = Items + Cardinality(Echoes(d))
    <3> HIDE DEF d
    <3> QED
      BY <2>2, <2>3, <2>5, <2>6, <2>7, ConstantsOK
  <2> QED
    BY <2>1, <2>8 DEF c
<1>4. T = 0..(n - 1)
  <2>1. T \in SUBSET (0..(n - 1))
    OBVIOUS
  <2> HIDE DEF T, n
  <2> QED
    BY <1>1, <1>2, <1>3, <2>1, FromZero
<1>5. n - 1 \in T /\ (n - 1) + 1 = n
  BY <1>1, <1>4
<1> QED
  BY <1>5

(* The prompt keeps the invariant: when all are waited for, all has *)
(* arrived.                                                         *)
LEMMA PromptKeeps ==
    ASSUME Types, Stages, NEW pid, Wires(pid), Flows => \E sent : Flow(pid, sent), Prompt
    PROVE  Types' /\ Stages' /\ Wires(pid)' /\ AllDelivered' /\ ~Flows'
<1> DEFINE n == process_num
<1>1. /\ pc = "wait" /\ k = 0 /\ pc' = "prompt"
      /\ input' = input /\ offset' = offset /\ at' = at /\ limit' = limit /\ commands' = commands
      /\ i' = i /\ k' = k /\ in_pipe' = in_pipe /\ out_pipe' = out_pipe /\ fds' = fds
      /\ copy' = copy /\ status' = status
      /\ left' = left /\ started' = started /\ delivered' = delivered /\ content' = content
  BY DEF Prompt, AllWaitedFor, reading
<1>2. process_num' = n
  BY <1>1 DEF process_num
<1>3. \A c \in Children : status[c] = "none"
  <2> DEFINE alive == {c \in Children : status[c] # "none"}
  <2>1. Cardinality(alive) = 0
    BY <1>1 DEF Stages
  <2>2. IsFiniteSet(alive)
    <3>1. IsFiniteSet(Children)
      BY ConstantsOK, FS_Interval DEF Children
    <3>2. alive \in SUBSET Children
      OBVIOUS
    <3> HIDE DEF alive
    <3> QED
      BY <3>1, <3>2, FS_Subset
  <2>3. alive = {}
    <3> HIDE DEF alive
    <3> QED
      BY <2>1, <2>2, FS_EmptySet
  <2> QED
    BY <2>3
<1>4. Types'
  BY <1>1, <1>2 DEF Types
<1>5. Stages'
  BY <1>1, <1>3 DEF Stages, InLine
<1>6. Wires(pid)'
  BY <1>1, <1>2, <1>3 DEF Wires, ShellTable
<1>7. AllDelivered'
  <2>1. OnlyFiltersAfterSource' <=> OnlyFiltersAfterSource
    BY <1>1, <1>2 DEF OnlyFiltersAfterSource, Filters, InSh, What
  <2>2. Quantify(2..process_num, LAMBDA c : What(c) = "stdin_echo")'
          = Cardinality(Echoes(n))
    BY <1>1, <1>2 DEF Quantify, What, Echoes
  <2>3. ASSUME OnlyFiltersAfterSource PROVE delivered = Items + Cardinality(Echoes(n))
    <3>1. Flows
      BY <1>1, <2>3 DEF Flows
    <3>2. PICK sent : Flow(pid, sent)
      BY <3>1
    <3>3. n \in Nat /\ n >= 1
      <4>1. n \in Nat /\ commands # << >> /\ commands \in Seq(Seq(STRING))
        BY <2>3, NumIs DEF OnlyFiltersAfterSource, Types
      <4> QED
        BY <4>1 DEF process_num
    <3>4. \A c \in 1..n : c \in Children /\ Over(c) /\ ~NotYet(c) /\ left[c] = 0 /\ sent[c] \in Nat
      <4>1. \A c \in 1..n : c \in Children /\ sent[c] \in Nat
        BY <3>2, FlowTypes
      <4> QED
        BY <1>1, <1>3, <4>1 DEF Over, NotYet, Stages
    <3>5. sent[1] = Items
      <4>1. 1 \in 1..n /\ sent[1] + left[1] = Given(1)
        BY <3>2, <3>3 DEF Flow
      <4>2. Given(1) = Items
        BY <3>4, <4>1 DEF Given, Own
      <4> QED
        BY <3>4, <4>1, <4>2
    <3>6. \A c \in 2..n : sent[c] = sent[c - 1] + Own(c)
      <4>1. \A c \in 2..n : c \in 1..n
        BY <3>3
      <4> QED
        BY <3>2, <3>4, <4>1 DEF Flow
    <3>7. sent \in [Children -> Nat] /\ sent[n] = delivered
      BY <3>2 DEF Flow
    <3> QED
      BY <3>3, <3>5, <3>6, <3>7, RowDelivers
  <2> QED
    BY <1>1, <2>1, <2>2, <2>3 DEF AllDelivered
<1>8. ~Flows'
  BY <1>1 DEF Flows, InLine
<1> QED
  BY <1>4, <1>5, <1>6, <1>7, <1>8

(* Every step of the shell and of its children keeps the invariant. *)
LEMMA NextHolds == IInv /\ [Next]_vars => IInv'
<1> SUFFICES ASSUME IInv, [Next]_vars PROVE IInv'
  OBVIOUS
<1>1. Types /\ Stages /\ AllDelivered
  BY DEF IInv
<1>2. PICK pid : Wires(pid) /\ (Flows => \E sent : Flow(pid, sent))
  BY DEF IInv
<1>3. CASE TakeLine
  BY <1>1, <1>2, <1>3, TakeLineKeeps DEF IInv
<1>4. CASE FillInput
  BY <1>1, <1>2, <1>4, FillInputKeeps DEF IInv
<1>5. CASE EndOfInput \/ PipeFails \/ ForkFails
  <2>1. Stop
    BY <1>5 DEF EndOfInput, PipeFails, ForkFails
  <2> QED
    BY <1>1, <1>2, <2>1, StopKeeps DEF IInv
<1>6. CASE Pipe
  BY <1>1, <1>2, <1>6, PipeKeeps DEF IInv
<1>7. CASE NoPipe
  BY <1>1, <1>2, <1>7, NoPipeKeeps DEF IInv
<1>8. CASE Fork
  BY <1>1, <1>2, <1>8, ForkKeeps DEF IInv
<1>9. CASE CloseEnds
  BY <1>1, <1>2, <1>9, CloseEndsKeeps DEF IInv
<1>10. CASE Wait
  BY <1>1, <1>2, <1>10, WaitKeeps DEF IInv
<1>11. CASE Prompt
  BY <1>1, <1>2, <1>11, PromptKeeps DEF IInv
<1>12. CASE \E c \in Children : Child(c)
  BY <1>12, ChildHolds
<1>13. CASE UNCHANGED vars
  <2>1. UNCHANGED <<input, offset, at, limit, pc, commands, i, k, in_pipe, out_pipe, fds, status,
                    copy, left, content, started, delivered>>
    BY <1>13 DEF vars, reading, shell
  <2>2. process_num' = process_num
    BY <2>1 DEF process_num
  <2>3. Types' /\ Stages'
    BY <1>1, <2>1, <2>2 DEF Types, Stages, InSh
  <2>4. Wires(pid)'
    BY <1>2, <2>1, <2>2 DEF Wires
  <2>5. AllDelivered'
    BY <1>1, <2>1, <2>2 DEF AllDelivered, OnlyFiltersAfterSource, Filters, InSh, What, Quantify
  <2>6. ASSUME Flows' PROVE \E sent : Flow(pid, sent)'
    <3>1. UNCHANGED shell /\ Flows
      BY <1>13, <2>6, FlowsKeeps DEF vars
    <3>2. PICK sent : Flow(pid, sent)
      BY <1>2, <3>1
    <3>3. Flow(pid, sent)'
      BY <2>1, <2>2, <3>1, <3>2, SamePhases DEF Flow
    <3> QED
      BY <3>3
  <2> QED
    BY <2>3, <2>4, <2>5, <2>6 DEF IInv
<1> QED
  BY <1>3, <1>4, <1>5, <1>6, <1>7, <1>8, <1>9, <1>10, <1>11, <1>12, <1>13
     DEF Next, ShellStep, Done

----------------------------------------------------------------------------
(* The invariant holds of every behaviour of the shell and its commands,   *)
(* whatever the lines, the capacity of a pipe and the descriptors.         *)
THEOREM Inductive == Spec => []IInv
<1>1. Init => IInv
  BY InitHolds
<1>2. IInv /\ [Next]_vars => IInv'
  BY NextHolds
<1> QED
  BY <1>1, <1>2, PTL DEF Spec

(* Every variable of the shell and the kernel keeps its type: the shell    *)
(* waits for as many children as it has, and no descriptor is beyond the   *)
(* table.                                                                  *)
THEOREM TypeCorrect == Spec => []TypeOK
<1>1. IInv => TypeOK
  <2> SUFFICES ASSUME Types PROVE TypeOK
    BY DEF IInv
  <2>1. limit \in 0..Len(input)
    <3>1. Len(input) \in Nat /\ limit \in {0, Len(input)}
      BY InputIs DEF Types
    <3> QED
      BY <3>1
  <2>2. fds \in [Procs -> [Fds -> {Free, Std} \cup (PipeIds \X {"read", "write"})]]
    BY DEF Types, Ends2
  <2> QED
    BY <2>1, <2>2 DEF Types, TypeOK
<1> QED
  BY <1>1, Inductive, PTL

(* Between two lines the shell has no child and no end of a pipe: it can   *)
(* run for ever with the descriptors of its longest line.                  *)
THEOREM ShellKeepsNothing == Spec => []NothingKept
<1>1. IInv => NothingKept
  <2> SUFFICES ASSUME IInv, pc = "prompt" PROVE
        /\ \A c \in Children : status[c] = "none"
        /\ \A f \in Fds : (fds[Shell][f] = Std) <=> (f <= 2)
        /\ \A f \in Fds : (fds[Shell][f] = Free) <=> (f > 2)
    BY DEF NothingKept
  <2>1. PICK pid : Wires(pid)
    BY DEF IInv
  <2>2. fds[Shell] = Row(1, 1, in_pipe, out_pipe, pid) /\ pid \in [Children -> PipeIds]
    BY <2>1 DEF Wires, ShellTable
  <2>3. 1 \in 1..MaxCommands /\ 1 \in 1..1 /\ ~(1 > 1) /\ ~(1 < 1)
    BY ConstantsOK
  <2>4. \A f \in Fds : fds[Shell][f] = IF f <= 2 THEN Std ELSE Free
    BY <2>2, <2>3, RowIs
  <2>5. \A f \in Fds : (f > 2) <=> ~(f <= 2)
    BY ConstantsOK
  <2>6. Std # Free
    BY DEF Std, Free
  <2>7. \A c \in Children : status[c] = "none"
    BY DEF IInv, Stages
  <2> QED
    BY <2>4, <2>5, <2>6, <2>7
<1> QED
  BY <1>1, Inductive, PTL

(* A command that runs has its standard streams and nothing else, and they *)
(* connect it to its neighbours.                                           *)
THEOREM CommandsAreWired == Spec => []WiredInARow
<1>1. IInv => WiredInARow
  <2> SUFFICES ASSUME IInv, NEW c \in Children, status[c] \in Executed PROVE
        /\ \A f \in Fds : f > 2 => fds[c][f] = Free
        /\ IF c = 1 THEN fds[c][0] = Std ELSE fds[c][0][2] = "read"
        /\ IF IsLast(c) THEN fds[c][1] = Std ELSE fds[c][1][2] = "write"
        /\ (c > 1 /\ status[c - 1] \in Executed) => fds[c - 1][1] = WriteEnd(fds[c][0][1])
    BY DEF WiredInARow
  <2>1. PICK pid : Wires(pid)
    BY DEF IInv
  <2>2. Types /\ Stages
    BY DEF IInv
  <2>3. c \in 1..process_num /\ process_num \in Nat
    BY <2>2, Commanded, NumIs DEF Executed
  <2>4. \A f \in Fds : fds[c][f] = IF f = 0 /\ c > 1 THEN ReadEnd(pid[c - 1])
                  ELSE IF f = 1 /\ c < process_num THEN WriteEnd(pid[c])
                  ELSE IF f <= 2 THEN Std ELSE Free
    BY <2>1, <2>2, ExecutedFds
  <2>5. \A f \in Fds : f > 2 => fds[c][f] = Free
    BY <2>4, ConstantsOK
  <2>6. fds[c][0] = IF c > 1 THEN ReadEnd(pid[c - 1]) ELSE Std
    BY <2>4, ConstantsOK
  <2>7. fds[c][1] = IF c < process_num THEN WriteEnd(pid[c]) ELSE Std
    BY <2>4, ConstantsOK
  <2>8. IF c = 1 THEN fds[c][0] = Std ELSE fds[c][0][2] = "read"
    BY <2>3, <2>6 DEF ReadEnd
  <2>9. IF IsLast(c) THEN fds[c][1] = Std ELSE fds[c][1][2] = "write"
    BY <2>3, <2>7 DEF WriteEnd, IsLast
  <2>10. ASSUME c > 1, status[c - 1] \in Executed PROVE fds[c - 1][1] = WriteEnd(fds[c][0][1])
    <3>1. c - 1 \in Children /\ c - 1 < process_num
      BY <2>3, <2>10, ConstantsOK DEF Children
    <3>2. fds[c - 1][1] = WriteEnd(pid[c - 1])
      BY <2>1, <2>2, <2>10, <3>1, ExecutedFds, ConstantsOK
    <3>3. fds[c][0][1] = pid[c - 1]
      BY <2>6, <2>10 DEF ReadEnd
    <3> QED
      BY <3>2, <3>3
  <2> QED
    BY <2>5, <2>8, <2>9, <2>10
<1> QED
  BY <1>1, Inductive, PTL

(* What a source writes, and what each filter has to say itself, reaches   *)
(* the end of the row: no command loses items of another.                  *)
THEOREM RowLosesNothing == Spec => []AllDelivered
<1>1. IInv => AllDelivered
  BY DEF IInv
<1> QED
  BY <1>1, Inductive, PTL
----------------------------------------------------------------------------
(* A first command that cannot be executed puts the offset of an input     *)
(* that is a file back to its own line: only the last line may have one.   *)
NoRerun == Seekable => \A s \in Inputs : \A l \in 1..(Len(s) - 1) : s[l][1] # <<"bad">>

InOrder ==
    /\ Len(started) = at /\ EachLineOnce
    /\ offset = limit

(* Every step keeps the lines in order if only the last can be carried out *)
(* again.                                                                  *)
LEMMA OrderHolds == ASSUME NoRerun, IInv, InOrder, [Next]_vars PROVE InOrder'
<1>1. Types /\ Stages
  BY DEF IInv
<1>2. /\ Len(input) \in Nat /\ at \in Nat /\ limit \in Nat
      /\ limit \in {0, Len(input)} /\ at \in 0..limit /\ started \in Seq(Nat)
  BY <1>1, InputIs DEF Types
<1>3. ASSUME UNCHANGED <<offset, at, limit, started>> PROVE InOrder'
  BY <1>3 DEF InOrder, EachLineOnce
<1>4. CASE TakeLine
  <2>1. started' = Append(started, at + 1) /\ at' = at + 1 /\ offset' = offset /\ limit' = limit
    BY <1>4 DEF TakeLine
  <2>2. Len(started') = at + 1
    BY <1>2, <2>1 DEF InOrder
  <2>3. \A n \in 1..(at + 1) : started'[n] = n
    BY <1>2, <2>1 DEF InOrder, EachLineOnce
  <2> QED
    BY <2>1, <2>2, <2>3 DEF InOrder, EachLineOnce
<1>5. CASE FillInput
  <2>1. /\ at = limit /\ offset < Len(input)
        /\ at' = offset /\ limit' = Len(input) /\ offset' = Len(input) /\ started' = started
    BY <1>5 DEF FillInput
  <2>2. at' = at
    BY <2>1 DEF InOrder
  <2> QED
    BY <2>1, <2>2 DEF InOrder, EachLineOnce
<1>6. ASSUME NEW c \in Children, ExecFails(c) PROVE InOrder'
  <2>1. /\ status[c] = "forked" /\ commands[c] = <<"bad">>
        /\ at' = at /\ limit' = limit /\ started' = started
        /\ offset' = IF Seekable /\ Wired(c)[0] = Std /\ copy[c][3] <= offset
                     THEN offset - copy[c][3] ELSE offset
    BY <1>6 DEF ExecFails, Exits
  <2>2. CASE Seekable /\ Wired(c)[0] = Std
    <3>1. PICK pid : Wires(pid)
      BY DEF IInv
    <3>2. c = 1
      <4>1. Wired(c) = ExecRow(process_num, c, pid)
        BY <1>1, <2>1, <3>1, WiredFds
      <4>2. process_num \in 1..MaxCommands /\ c \in 1..process_num /\ pid \in [Children -> PipeIds]
        BY <1>1, <2>1, <3>1, Commanded DEF Wires
      <4>3. c > 1 => Wired(c)[0] = ReadEnd(pid[c - 1])
        BY <4>1, <4>2, ExecRowIs, ConstantsOK
      <4>4. \A p : ReadEnd(p) # Std
        BY DEF ReadEnd, Std
      <4> QED
        BY <2>2, <4>2, <4>3, <4>4
    <3>3. copy[c][3] = limit - at /\ at >= 1 /\ commands = input[at] /\ input \in Inputs
      BY <1>1, <2>1 DEF Stages, Types
    <3>4. input[at][1] = <<"bad">>
      BY <2>1, <3>2, <3>3
    <3>5. at \notin 1..(Len(input) - 1)
      BY <2>2, <3>3, <3>4 DEF NoRerun
    <3>6. at = limit
      BY <1>2, <3>3, <3>5
    <3>7. offset' = offset
      <4>1. copy[c][3] = 0 /\ offset \in Nat
        BY <1>2, <3>3, <3>6 DEF InOrder
      <4> QED
        BY <2>1, <4>1
    <3> QED
      BY <1>3, <2>1, <3>7
  <2>3. CASE ~(Seekable /\ Wired(c)[0] = Std)
    BY <1>3, <2>1, <2>3
  <2> QED
    BY <2>2, <2>3
<1>7. ASSUME NEW c \in Children, Child(c), ~ExecFails(c) PROVE InOrder'
  <2>1. UNCHANGED <<offset, at, limit, started>>
    BY <1>7 DEF Child, Exec, Write, Killed, Read, Finish, ShForks, ShFails, ShEnds, Ends, Exits, reading
  <2> QED
    BY <1>3, <2>1
<1>8. CASE EndOfInput \/ Pipe \/ NoPipe \/ PipeFails \/ Fork \/ ForkFails \/ CloseEnds \/ Wait \/ Prompt
  <2>1. UNCHANGED <<offset, at, limit, started>>
    BY <1>8 DEF EndOfInput, Pipe, NoPipe, PipeFails, Fork, ForkFails, CloseEnds, Wait, Prompt, Stop, reading
  <2> QED
    BY <1>3, <2>1
<1>9. CASE UNCHANGED vars
  BY <1>3, <1>9 DEF vars, reading
<1> QED
  BY <1>4, <1>5, <1>6, <1>7, <1>8, <1>9 DEF Next, ShellStep, Done

(* The shell carries out the lines of its input in their order and each    *)
(* once, when no line but the last begins with a command that cannot be    *)
(* executed, or the input is not a file.                                   *)
THEOREM LinesCarriedOutOnce == ASSUME NoRerun PROVE Spec => []EachLineOnce
<1>1. Init => InOrder
  BY DEF Init, InOrder, EachLineOnce
<1>2. IInv /\ InOrder /\ [Next]_vars => InOrder'
  BY OrderHolds
<1>3. InOrder => EachLineOnce
  BY DEF InOrder
<1> QED
  BY <1>1, <1>2, <1>3, Inductive, PTL DEF Spec
=============================================================================
