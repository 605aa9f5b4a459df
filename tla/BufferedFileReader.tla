------------------------- MODULE BufferedFileReader -------------------------
(***************************************************************************)
(* The buffered reader of "hw1 -- File Readers", with read(2) of a regular *)
(* file as its environment: a read may return fewer bytes than asked for,  *)
(* and an interrupted one (EINTR) is repeated, a stuttering step here.     *)
(* A step is one read, or one call of get_char, the operation the others   *)
(* are loops around.                                                       *)
(*                                                                         *)
(* FillDoneKeepsIndex, TokenKeepsEnd, TokenOverDelimiter, RereadTwice and  *)
(* LineEndsAtDelimiter are mistakes in the definition that follows each:   *)
(* nothing uses them, the properties refuse them.                          *)
(***************************************************************************)
EXTENDS Integers, Sequences, FiniteSets, SequencesExt

CONSTANTS
    Bytes,          \* the characters of files
    Files,          \* the contents of the files opened
    DelimSets,      \* the sets of delimiters a reader is constructed with
    NewLine,
    EOF,            \* the char -1, which is also the byte 0xFF
    BufSize,        \* BUF_SIZE
    Closed          \* no file open: fd_ = -1

ASSUME ReaderAssumption ==
    /\ BufSize \in Nat \ {0}
    /\ Files \subseteq Seq(Bytes)
    /\ NewLine \in Bytes
    /\ DelimSets \subseteq SUBSET Bytes
    /\ Closed \notin Seq(Bytes)

VARIABLES
    file, offset,       \* the open file and the offset of its descriptor
    buffer_, curr_length_, curr_index_, fill_num_, good_,
    delims_,            \* the characters that end a token
    call, pc,           \* the operation called last, and where it is
    token, line,        \* the token and the line being built
    char_,              \* the char get_char returned last
    pos, start          \* history: characters delivered, now and at the call

fields == <<file, offset, buffer_, curr_length_, curr_index_, fill_num_, good_>>
locals == <<token, line, char_>>
ghosts == <<pos, start>>
vars == <<fields, delims_, call, pc, locals, ghosts>>

Init ==
    /\ file \in Files /\ offset = 0
    /\ buffer_ = [i \in 0..(BufSize - 1) |-> EOF]
    /\ curr_length_ = 0 /\ curr_index_ = 0 /\ fill_num_ = 0
    /\ good_ = TRUE
    /\ delims_ \in DelimSets
    /\ call = "open" /\ pc = "fill"
    /\ token = << >> /\ line = << >> /\ char_ = EOF
    /\ pos = 0 /\ start = 0

----------------------------------------------------------------------------
(* fill_buffer, entered with curr_length_ = 0 and pc = "fill" *)

(* read returns n bytes, which may be less than asked for. *)
Read(n) ==
    /\ pc = "fill"
    /\ n \in 1..(BufSize - curr_length_) /\ offset + n <= Len(file)
    /\ buffer_' = [i \in DOMAIN buffer_ |->
                     IF i \in curr_length_..(curr_length_ + n - 1)
                     THEN file[offset + (i - curr_length_) + 1] ELSE buffer_[i]]
    /\ offset' = offset + n
    /\ curr_length_' = curr_length_ + n
    /\ UNCHANGED <<file, curr_index_, fill_num_, good_, call, pc, locals, ghosts>>

(* The loop ends when the buffer is full or read returns 0. *)
LoopEnds == curr_length_ = BufSize \/ offset = Len(file)

AfterFill == IF call \in {"open", "rewind"} THEN "idle" ELSE "reread"

FillDoneKeepsIndex ==
    /\ pc = "fill" /\ LoopEnds
    /\ good_' = (curr_length_ # 0)
    /\ fill_num_' = IF curr_length_ = 0 THEN fill_num_ ELSE fill_num_ + 1
    /\ pc' = AfterFill
    /\ UNCHANGED <<file, offset, buffer_, curr_length_, curr_index_, call, locals, ghosts>>

FillDone ==
    /\ pc = "fill" /\ LoopEnds
    /\ curr_index_' = 0
    /\ buffer_' = IF curr_length_ # BufSize THEN [buffer_ EXCEPT ![curr_length_] = EOF]
                                            ELSE buffer_
    /\ good_' = (curr_length_ # 0)
    /\ fill_num_' = IF curr_length_ = 0 THEN fill_num_ ELSE fill_num_ + 1
    /\ pc' = AfterFill
    /\ UNCHANGED <<file, offset, curr_length_, call, locals, ghosts>>

(* open or read fails: the program exits. *)
Fail ==
    /\ pc = "fill"
    /\ pc' = "exited"
    /\ good_' = FALSE
    /\ UNCHANGED <<file, offset, buffer_, curr_length_, curr_index_, fill_num_, call,
                   locals, ghosts>>

----------------------------------------------------------------------------
(* What the operation does with the char get_char gave it. *)

TokenKeepsEnd(c) ==
    /\ token' = IF c \in delims_ THEN token ELSE Append(token, c)
    /\ pc' = IF c = EOF \/ c \in delims_ THEN "idle" ELSE "next"
    /\ UNCHANGED line

TokenOverDelimiter(c) ==
    /\ token' = IF c = EOF \/ c \in delims_ THEN token ELSE Append(token, c)
    /\ pc' = IF c = EOF THEN "idle" ELSE "next"
    /\ UNCHANGED line

TokenChar(c) ==
    /\ token' = IF c = EOF \/ c \in delims_ THEN token ELSE Append(token, c)
    /\ pc' = IF c = EOF \/ c \in delims_ THEN "idle" ELSE "next"
    /\ UNCHANGED line

LineEndsAtDelimiter(c) ==
    IF c = EOF \/ c \in delims_
    THEN /\ line' = Append(line, token) /\ token' = << >> /\ pc' = "idle"
    ELSE /\ token' = Append(token, c) /\ pc' = "next" /\ UNCHANGED line

(* The array line has 50 slots: no file has a line of more tokens. *)
LineChar(c) ==
    IF c \in delims_ \cup {NewLine, EOF}
    THEN /\ line' = Append(line, token)
         /\ token' = << >>
         /\ pc' = IF c \in {NewLine, EOF} THEN "idle" ELSE "next"
    ELSE /\ token' = Append(token, c)
         /\ pc' = "next"
         /\ UNCHANGED line

Deliver(c) ==
    /\ char_' = c
    /\ \/ call = "get_char" /\ pc' = "idle" /\ UNCHANGED <<token, line>>
       \/ call = "get_token" /\ TokenChar(c)
       \/ call = "get_line" /\ LineChar(c)
    /\ UNCHANGED <<call, start>>

(* The char at curr_index_; past the end of the array, anything. *)
At(i) == IF i \in DOMAIN buffer_ THEN {buffer_[i]} ELSE Bytes \cup {EOF}

----------------------------------------------------------------------------
(* get_char *)

CharClosed ==
    /\ pc = "next" /\ file = Closed
    /\ good_' = FALSE
    /\ Deliver(EOF)
    /\ UNCHANGED <<file, offset, buffer_, curr_length_, curr_index_, fill_num_, pos>>

CharFromBuffer ==
    /\ pc = "next" /\ file # Closed
    /\ curr_index_ # curr_length_
    /\ \E c \in At(curr_index_) : Deliver(c)
    /\ curr_index_' = curr_index_ + 1
    /\ pos' = pos + 1
    /\ UNCHANGED <<file, offset, buffer_, curr_length_, fill_num_, good_>>

CharAtEnd ==
    /\ pc = "next" /\ file # Closed
    /\ curr_index_ = curr_length_ /\ curr_length_ # BufSize
    /\ good_' = FALSE
    /\ Deliver(EOF)
    /\ UNCHANGED <<file, offset, buffer_, curr_length_, curr_index_, fill_num_, pos>>

CharNeedsFill ==
    /\ pc = "next" /\ file # Closed
    /\ curr_index_ = curr_length_ /\ curr_length_ = BufSize
    /\ curr_length_' = 0
    /\ pc' = "fill"
    /\ UNCHANGED <<file, offset, buffer_, curr_index_, fill_num_, good_, call, locals, ghosts>>

RereadTwice ==
    /\ pc = "reread"
    /\ Deliver(buffer_[curr_index_])
    /\ pos' = IF curr_length_ = 0 THEN pos ELSE pos + 1
    /\ UNCHANGED <<file, offset, buffer_, curr_length_, curr_index_, fill_num_, good_>>

(* After the fill the first char is taken, whether or not there is one. *)
CharReread ==
    /\ pc = "reread"
    /\ Deliver(buffer_[curr_index_])
    /\ curr_index_' = curr_index_ + 1
    /\ pos' = IF curr_length_ = 0 THEN pos ELSE pos + 1
    /\ UNCHANGED <<file, offset, buffer_, curr_length_, fill_num_, good_>>

----------------------------------------------------------------------------
(* The operations of the class. *)

Begin(o) ==
    /\ pc = "idle"
    /\ call' = o
    /\ token' = << >> /\ line' = << >>
    /\ start' = pos

GetSome(o) ==
    /\ Begin(o)
    /\ pc' = "next"
    /\ UNCHANGED <<fields, char_, pos>>

Rewind ==
    /\ Begin("rewind")
    /\ file # Closed
    /\ offset' = 0
    /\ curr_length_' = 0 /\ fill_num_' = 0
    /\ pc' = "fill" /\ good_' = TRUE
    /\ pos' = 0
    /\ UNCHANGED <<file, buffer_, curr_index_, char_>>

(* Closes the file that is open, if one is, and opens f. *)
OpenFile(f) ==
    /\ Begin("open")
    /\ file' = f /\ offset' = 0
    /\ curr_length_' = 0 /\ curr_index_' = 0 /\ fill_num_' = 0
    /\ pc' = "fill" /\ good_' = TRUE
    /\ pos' = 0
    /\ UNCHANGED <<buffer_, char_>>

CloseFile ==
    /\ Begin("close")
    /\ file' = Closed /\ offset' = 0
    /\ curr_length_' = 0 /\ curr_index_' = 0 /\ fill_num_' = 0
    /\ good_' = FALSE
    /\ pos' = 0
    /\ UNCHANGED <<buffer_, pc, char_>>

RewindClosed ==
    /\ Begin("rewind")
    /\ file = Closed
    /\ pc' = "exited" /\ good_' = FALSE
    /\ UNCHANGED <<file, offset, buffer_, curr_length_, curr_index_, fill_num_, char_,
                   pos>>

Exited == pc = "exited" /\ UNCHANGED vars

Step ==
    \/ \E n \in 1..BufSize : Read(n)
    \/ FillDone \/ Fail
    \/ CharClosed \/ CharFromBuffer \/ CharAtEnd \/ CharNeedsFill \/ CharReread
    \/ \E o \in {"get_char", "get_token", "get_line"} : GetSome(o)
    \/ Rewind \/ CloseFile \/ RewindClosed
    \/ \E f \in Files : OpenFile(f)

Next == (Step /\ UNCHANGED delims_) \/ Exited

Spec == Init /\ [][Next]_vars

----------------------------------------------------------------------------
Tell == (fill_num_ - 1) * BufSize + curr_index_

Open == pc = "idle" /\ file # Closed

TypeOK ==
    /\ file \in Files \cup {Closed} /\ delims_ \in DelimSets
    /\ offset \in Nat
    /\ buffer_ \in [0..(BufSize - 1) -> Bytes \cup {EOF}]
    /\ curr_length_ \in 0..BufSize
    /\ curr_index_ \in 0..BufSize
    /\ fill_num_ \in Nat
    /\ good_ \in BOOLEAN
    /\ pc \in {"idle", "fill", "reread", "next", "exited"}
    /\ char_ \in Bytes \cup {EOF}
    /\ token \in Seq(Bytes \ {EOF}) /\ line \in Seq(Seq(Bytes \ {EOF}))
    /\ pos \in Nat /\ start \in Nat

(* The buffer is a window of the file that ends at the descriptor's        *)
(* offset, however the reads were cut up, and tell() is the number of      *)
(* characters delivered since the file was opened or rewound: "the Offset  *)
(* from the start of the file".                                            *)
BufferIsWindow ==
    Open =>
      /\ offset = (fill_num_ - 1) * BufSize + curr_length_
      /\ \A i \in 0..(curr_length_ - 1) :
           buffer_[i] = file[(fill_num_ - 1) * BufSize + i + 1]
      /\ Tell = pos

(* get_char returns the next character of the file, and EOF at its end,    *)
(* every time it is asked.                                                 *)
CharIsNext ==
    Open /\ call = "get_char" =>
      char_ = IF start < Len(file) THEN file[start + 1] ELSE EOF

(* get_token returns the text up to the next delimiter or the end, and     *)
(* consumes that delimiter, across any number of refills.  The byte 0xFF   *)
(* ends a token like a delimiter, whether it is one or not: get_char's     *)
(* answer is the same as at the end of the file, but the file goes on.     *)
TokenIsNext ==
    Open /\ call = "get_token" =>
      LET end == start + Len(token)
          stops == delims_ \cup {EOF}
      IN  /\ token = SubSeq(file, start + 1, end)
          /\ Range(token) \cap stops = {}
          /\ \/ end = Len(file) /\ pos = end
             \/ end < Len(file) /\ file[end + 1] \in stops /\ pos = end + 1

(* The tokens of ln are the pieces of the file after from, cut at C: the   *)
(* n-th of them ends before the n-th cut and begins after the one before.  *)
Pieces(ln, C, from) ==
    /\ Len(ln) = Cardinality(C)
    /\ \A h \in C \cup {from}, i \in C :
         h < i /\ (\A j \in C : ~(h < j /\ j < i)) =>
           ln[Cardinality({j \in C : j <= i})] = SubSeq(file, h + 1, i - 1)

Stops == {NewLine, EOF}

Cuts == {i \in (start + 1)..pos : file[i] \in delims_ \cup Stops}

(* get_line stops after the first newline (or byte 0xFF), or at the end,   *)
(* and returns the text before that cut at every delimiter: between two of *)
(* them, before a first one and after a last one there is an empty piece.  *)
(*                                                                         *)
(* The exception is a call that finds no text at all, at the end of the    *)
(* file or on an empty line.  BufferedFileReader.h:117 and :142-143        *)
(* promise nullptr and 0 tokens then; the code returns one empty token     *)
(* (BufferedFileReader.cc:114-118).  Both answers are accepted there.      *)
LineIsNext ==
    Open /\ call = "get_line" =>
      LET stopped == pos > start /\ file[pos] \in Stops
          end     == IF stopped THEN pos - 1 ELSE pos
      IN  /\ pos = Len(file) \/ stopped
          /\ \A i \in (start + 1)..(pos - 1) : file[i] \notin Stops
          /\ IF end = start THEN line \in {<< >>, << << >> >>}
             ELSE Pieces(line, IF stopped THEN Cuts ELSE Cuts \cup {pos + 1}, start)

----------------------------------------------------------------------------
(* Every behaviour is one of the unbuffered reader: each char get_char     *)
(* delivers, alone or inside a token or a line, is one get_char there, and *)
(* filling the buffer is invisible.  A caller cannot tell the two classes  *)
(* apart by the operations they share.                                     *)
Simple == INSTANCE SimpleFileReader
            WITH offset <- pos, chars_ <- << >>, exited <- (pc = "exited"),
                 NUL <- EOF, MaxChars <- 0

IsSimpleReader == Simple!UninterruptedSpec
=============================================================================
