---------------------- MODULE BufferedFileReaderProofs ----------------------
(***************************************************************************)
(* Theorems about BufferedFileReader, for any buffer size, delimiters and  *)
(* files whose end is not the end of a buffer.                             *)
(***************************************************************************)
EXTENDS BufferedFileReader, SequenceTheorems, FiniteSetTheorems, TLAPS

(* No file ends where a buffer does; an empty one would.  At such an end   *)
(* fill_buffer leaves a buffer without characters, and get_char reads past *)
(* it: CharIsNext is violated there.                                       *)
EndsInside == \A f \in Files, k \in Nat : Len(f) # k * BufSize

----------------------------------------------------------------------------
(* The inductive invariant. *)

Gets == {"get_char", "get_token", "get_line"}

(* While a file is open the buffer holds the part of it that ends at the   *)
(* descriptor's offset and begins after a whole number of full buffers,    *)
(* and the reader stands in it at curr_index_.                             *)
Window ==
    file # Closed /\ pc # "exited" =>
      /\ offset <= Len(file) /\ curr_length_ <= offset
      /\ \A i \in 0..(curr_length_ - 1) : buffer_[i] = file[(offset - curr_length_) + i + 1]
      /\ pc = "fill" =>
           /\ offset - curr_length_ = fill_num_ * BufSize
           /\ pos = offset - curr_length_
           /\ good_
      /\ pc # "fill" =>
           /\ fill_num_ >= 1
           /\ offset - curr_length_ = (fill_num_ - 1) * BufSize
           /\ curr_length_ # 0 /\ curr_index_ <= curr_length_
           /\ pos = (offset - curr_length_) + curr_index_
           /\ curr_length_ # BufSize => offset = Len(file)
           /\ ~good_ => curr_index_ = curr_length_ /\ curr_length_ # BufSize
      /\ pc = "reread" => curr_index_ = 0

Shut ==
    file = Closed =>
      /\ pc \in {"idle", "next", "exited"}
      /\ pos = 0 /\ ~good_ /\ curr_index_ = 0 /\ curr_length_ = 0

Calls ==
    /\ pc \in {"next", "reread"} => call \in Gets
    /\ pc = "fill" => call \in Gets \cup {"open", "rewind"}

(* get_token has taken the characters from start on. *)
Tokens ==
    file # Closed /\ pc # "exited" /\ call = "get_token" =>
      LET end == start + Len(token)
      IN  /\ end <= Len(file)
          /\ \A i \in 1..Len(token) :
               token[i] = file[start + i] /\ token[i] \notin delims_ \cup {EOF}
          /\ pc # "idle" => pos = end
          /\ pc = "idle" =>
               \/ end = Len(file) /\ pos = end
               \/ end < Len(file) /\ file[end + 1] \in delims_ \cup {EOF} /\ pos = end + 1

Chars ==
    file # Closed /\ pc # "exited" /\ call = "get_char" =>
      /\ pc # "idle" => pos = start
      /\ pc = "idle" => char_ = IF start < Len(file) THEN file[start + 1] ELSE EOF

(* A line that get_line returns is what it read, cut at every delimiter.   *)
LineIsCut ==
    Open /\ call = "get_line" =>
      LET stopped == pos > start /\ file[pos] \in Stops
      IN  /\ pos = Len(file) \/ stopped
          /\ \A i \in (start + 1)..(pos - 1) : file[i] \notin Stops
          /\ Pieces(line, IF stopped THEN Cuts ELSE Cuts \cup {pos + 1}, start)

(* get_line has cut the characters from start on at each delimiter, and    *)
(* holds the piece after the last cut.                                     *)
Lines ==
    file # Closed /\ pc # "exited" /\ call = "get_line" =>
      /\ start <= pos
      /\ pc = "idle" => LineIsCut
      /\ pc # "idle" =>
           /\ \A i \in (start + 1)..pos : file[i] \notin Stops
           /\ Pieces(line, Cuts, start)
           /\ \E h \in Cuts \cup {start} :
                (\A j \in Cuts : j <= h) /\ token = SubSeq(file, h + 1, pos)

IInv == TypeOK /\ Window /\ Shut /\ Calls /\ Tokens /\ Chars /\ Lines

----------------------------------------------------------------------------
(* Pieces of a text. *)

(* Pieces, of the file f. *)
PiecesOf(f, ln, C, from) ==
    /\ Len(ln) = Cardinality(C)
    /\ \A h \in C \cup {from}, i \in C :
         h < i /\ (\A j \in C : ~(h < j /\ j < i)) =>
           ln[Cardinality({j \in C : j <= i})] = SubSeq(f, h + 1, i - 1)

(* The piece after the last cut is done when the next cut comes. *)
LEMMA AddCut ==
    ASSUME NEW T, NEW ln \in Seq(T), NEW t \in T, NEW f, NEW s \in Nat, NEW p \in Nat, s <= p,
           NEW C \in SUBSET ((s + 1)..p), PiecesOf(f, ln, C, s),
           NEW h0 \in C \cup {s}, \A j \in C : j <= h0, t = SubSeq(f, h0 + 1, p)
    PROVE  PiecesOf(f, Append(ln, t), C \cup {p + 1}, s)
<1> DEFINE D == C \cup {p + 1}
           r == Append(ln, t)
<1>1. IsFiniteSet(C) /\ Cardinality(C) \in Nat
  <2>1. IsFiniteSet((s + 1)..p)
    BY FS_Interval
  <2>2. IsFiniteSet(C)
    BY <2>1, FS_Subset
  <2> QED
    BY <2>2, FS_CardinalityType
<1>2. Cardinality(D) = Cardinality(C) + 1
  <2>1. p + 1 \notin C
    OBVIOUS
  <2> QED
    BY <1>1, <2>1, FS_AddElement
<1>3. Len(ln) = Cardinality(C)
  BY DEF PiecesOf
<1>4. /\ Len(r) = Cardinality(C) + 1 /\ r[Cardinality(C) + 1] = t
      /\ \A n \in 1..Cardinality(C) : r[n] = ln[n]
  BY <1>3, AppendProperties
<1> HIDE DEF r
<1>5. ASSUME NEW h \in D \cup {s}, NEW i \in D, h < i, \A j \in D : ~(h < j /\ j < i)
      PROVE  r[Cardinality({j \in D : j <= i})] = SubSeq(f, h + 1, i - 1)
  <2>1. h \in C \cup {s} /\ \A j \in C : ~(h < j /\ j < i) /\ j \in (s + 1)..p
    BY <1>5
  <2>2. CASE i = p + 1
    <3>1. {j \in D : j <= i} = D
      <4>1. \A j \in D : j <= p + 1
        BY <2>1
      <4> HIDE DEF D
      <4> QED
        BY <4>1, <2>2
    <3>2. h = h0
      <4>1. CASE h0 \in C
        <5>1. ~(h < h0)
          BY <4>1, <2>1, <2>2
        <5>2. h <= h0
          BY <4>1, <2>1
        <5> QED
          BY <4>1, <5>1, <5>2, <2>1
      <4>2. CASE h0 = s
        BY <4>2, <2>1
      <4> QED
        BY <4>1, <4>2
    <3>3. i - 1 = p
      BY <2>2
    <3> HIDE DEF D
    <3> QED
      BY <1>2, <1>4, <3>1, <3>2, <3>3
  <2>3. CASE i # p + 1
    <3>1. i \in C
      BY <2>3
    <3> DEFINE E == {j \in C : j <= i}
    <3>2. {j \in D : j <= i} = E
      BY <3>1
    <3>3. Cardinality(E) \in 1..Cardinality(C)
      <4>1. E \subseteq C /\ i \in E
        BY <3>1
      <4>2. IsFiniteSet(E) /\ Cardinality(E) \in Nat /\ Cardinality(E) <= Cardinality(C)
        BY <1>1, <4>1, FS_Subset, FS_CardinalityType
      <4>3. Cardinality(E) # 0
        BY <4>1, <4>2, FS_EmptySet
      <4> QED
        BY <1>1, <4>2, <4>3
    <3>4. ln[Cardinality(E)] = SubSeq(f, h + 1, i - 1)
      BY <3>1, <2>1, <1>5 DEF PiecesOf
    <3> HIDE DEF E
    <3> QED
      BY <1>4, <3>2, <3>3, <3>4
  <2> QED
    BY <2>2, <2>3
<1> QED
  BY <1>2, <1>4, <1>5 DEF PiecesOf, r

(* A piece grows by the character after it. *)
LEMMA GrowPiece ==
    ASSUME NEW S, NEW f \in Seq(S), NEW h \in Nat, NEW p \in Nat, h <= p, p < Len(f)
    PROVE  Append(SubSeq(f, h + 1, p), f[p + 1]) = SubSeq(f, h + 1, p + 1)
<1> DEFINE a == SubSeq(f, h + 1, p)
           b == SubSeq(f, h + 1, p + 1)
           c == f[p + 1]
           r == Append(a, c)
<1>1. Len(f) \in Nat /\ \A i \in 1..Len(f) : f[i] \in S
  BY LenProperties, ElementOfSeq
<1>2. /\ a \in Seq(S) /\ Len(a) = p - h
      /\ \A i \in 1..(p - h) : a[i] = f[h + i]
  <2>1. /\ h + 1 \in Int /\ p \in Int /\ \A i \in (h + 1)..p : f[i] \in S
    BY <1>1
  <2>2. /\ a \in Seq(S)
        /\ Len(a) = IF h + 1 <= p THEN p - (h + 1) + 1 ELSE 0
        /\ \A i \in 1..(p - (h + 1) + 1) : a[i] = f[(h + 1) + i - 1]
    BY <2>1, SubSeqProperties
  <2> HIDE DEF a
  <2>3. \A i \in 1..(p - h) : i \in 1..(p - (h + 1) + 1) /\ (h + 1) + i - 1 = h + i
    OBVIOUS
  <2>4. Len(a) = p - h
    BY <2>2
  <2> QED
    BY <2>2, <2>3, <2>4
<1>3. /\ b \in Seq(S) /\ Len(b) = p - h + 1
      /\ \A i \in 1..(p - h + 1) : b[i] = f[h + i]
  <2>1. /\ h + 1 \in Int /\ p + 1 \in Int /\ \A i \in (h + 1)..(p + 1) : f[i] \in S
    BY <1>1
  <2>2. /\ b \in Seq(S)
        /\ Len(b) = IF h + 1 <= p + 1 THEN (p + 1) - (h + 1) + 1 ELSE 0
        /\ \A i \in 1..((p + 1) - (h + 1) + 1) : b[i] = f[(h + 1) + i - 1]
    BY <2>1, SubSeqProperties
  <2> HIDE DEF b
  <2>3. \A i \in 1..(p - h + 1) : i \in 1..((p + 1) - (h + 1) + 1) /\ (h + 1) + i - 1 = h + i
    OBVIOUS
  <2>4. Len(b) = p - h + 1
    BY <2>2
  <2> QED
    BY <2>2, <2>3, <2>4
<1>4. c \in S
  BY <1>1
<1> HIDE DEF a, b, c
<1>5. /\ r \in Seq(S) /\ Len(r) = Len(a) + 1
      /\ r[Len(a) + 1] = c /\ \A i \in 1..Len(a) : r[i] = a[i]
  BY SMTT(20), <1>2, <1>4, AppendProperties
<1> HIDE DEF r
<1>6. ASSUME NEW i \in 1..Len(r) PROVE r[i] = b[i]
  <2>1. CASE i = p - h + 1
    <3>1. h + i = p + 1 /\ i \in 1..(p - h + 1) /\ i = Len(a) + 1
      BY <1>2, <2>1
    <3> QED
      BY <1>3, <1>5, <3>1 DEF c
  <2>2. CASE i # p - h + 1
    <3>1. i \in 1..(p - h) /\ i \in 1..(p - h + 1) /\ i \in 1..Len(a)
      BY <1>2, <1>5, <2>2
    <3> QED
      BY <1>2, <1>3, <1>5, <3>1
  <2> QED
    BY <2>1, <2>2
<1>7. Len(r) = Len(b)
  BY <1>2, <1>3, <1>5
<1>8. r = b
  BY <1>3, <1>5, <1>6, <1>7, SeqEqual
<1> QED
  BY <1>8 DEF a, b, c, r

----------------------------------------------------------------------------

(* At first no file is open and the buffer says so. *)
LEMMA InitInv == Init => IInv
<1> SUFFICES ASSUME Init PROVE IInv
  OBVIOUS
<1>1. file \in Seq(Bytes) /\ file \in Files /\ file # Closed /\ Len(file) \in Nat
  BY ReaderAssumption DEF Init
<1>2. /\ << >> \in Seq(Bytes \ {EOF}) /\ << >> \in Seq(Seq(Bytes \ {EOF}))
      /\ BufSize \in Nat /\ 0 * BufSize = 0
  BY ReaderAssumption
<1>3. TypeOK
  BY <1>1, <1>2 DEF Init, TypeOK
<1>4. Window /\ Shut /\ Calls /\ Tokens /\ Chars /\ Lines
  BY <1>1, <1>2 DEF Init, Window, Shut, Calls, Tokens, Chars, Lines, Gets
<1> QED
  BY <1>3, <1>4 DEF IInv

(* The file that is open, and the buffer while it has one. *)
LEMMA OpenFileFacts ==
    ASSUME IInv, file # Closed
    PROVE  /\ file \in Files /\ file \in Seq(Bytes) /\ Len(file) \in Nat
           /\ \A i \in 1..Len(file) : file[i] \in Bytes
BY ReaderAssumption, ElementOfSeq, LenProperties DEF IInv, TypeOK

(* What a line is made of stays. *)
LEMMA LinesKept ==
    ASSUME IInv, UNCHANGED <<file, call, start, pos, line, token, delims_>>,
           \/ pc' = pc
           \/ pc \notin {"idle", "exited"} /\ (pc' # "idle" \/ call # "get_line")
    PROVE  Lines'
<1>1. Cuts' = Cuts /\ (Cuts \cup {pos + 1})' = Cuts \cup {pos + 1}
  BY DEF Cuts
<1> DEFINE D == Cuts \cup {pos + 1}
<1>2. D' = D
  BY <1>1
<1> HIDE DEF D
<1>3. /\ Pieces(line, Cuts, start)' <=> Pieces(line, Cuts, start)
      /\ Pieces(line, D, start)' <=> Pieces(line, D, start)
  BY <1>1, <1>2 DEF Pieces
<1>4. ASSUME pc' = pc PROVE LineIsCut' <=> LineIsCut
  <2>1. CASE pos > start /\ file[pos] \in Stops
    BY <1>3, <1>4, <2>1 DEF LineIsCut, Open, Stops
  <2>2. CASE ~(pos > start /\ file[pos] \in Stops)
    BY <1>3, <1>4, <2>2 DEF LineIsCut, Open, Stops, D
  <2> QED
    BY <2>1, <2>2
<1>5. CASE pc' = pc
  BY <1>1, <1>3, <1>4, <1>5 DEF IInv, Lines, Stops
<1>6. CASE pc \notin {"idle", "exited"} /\ (pc' # "idle" \/ call # "get_line")
  BY <1>1, <1>3, <1>6 DEF IInv, Lines, Stops
<1> QED
  BY <1>5, <1>6

(* One read of fill_buffer's loop *)
LEMMA ReadInv ==
    ASSUME IInv, NEW n \in 1..BufSize, Read(n), delims_' = delims_ PROVE IInv'
<1>1. /\ pc = "fill"
      /\ n \in 1..(BufSize - curr_length_) /\ offset + n <= Len(file)
      /\ buffer_' = [i \in DOMAIN buffer_ |->
                       IF i \in curr_length_..(curr_length_ + n - 1)
                       THEN file[offset + (i - curr_length_) + 1] ELSE buffer_[i]]
      /\ offset' = offset + n
      /\ curr_length_' = curr_length_ + n
      /\ UNCHANGED <<file, curr_index_, fill_num_, good_, call, pc, token, line, char_, pos,
                     start, delims_>>
  BY DEF Read, locals, ghosts
<1>2. /\ BufSize \in Nat /\ curr_length_ \in 0..BufSize /\ offset \in Nat
      /\ buffer_ \in [0..(BufSize - 1) -> Bytes \cup {EOF}] /\ fill_num_ \in Nat
  BY ReaderAssumption DEF IInv, TypeOK
<1>3. file # Closed
  BY <1>1 DEF IInv, Shut
<1>4. /\ \A i \in 1..Len(file) : file[i] \in Bytes
      /\ Len(file) \in Nat
  BY <1>3, OpenFileFacts
<1>5. ASSUME NEW i \in 0..(BufSize - 1)
      PROVE  /\ i < curr_length_ => buffer_'[i] = buffer_[i]
             /\ i >= curr_length_ /\ i < curr_length_ + n =>
                  buffer_'[i] = file[offset + (i - curr_length_) + 1]
             /\ i >= curr_length_ + n => buffer_'[i] = buffer_[i]
  BY <1>1, <1>2
<1>6. buffer_' \in [0..(BufSize - 1) -> Bytes \cup {EOF}]
  <2> SUFFICES ASSUME NEW i \in 0..(BufSize - 1) PROVE buffer_'[i] \in Bytes \cup {EOF}
    BY <1>1, <1>2
  <2>1. CASE i >= curr_length_ /\ i < curr_length_ + n
    <3>1. offset + (i - curr_length_) + 1 \in 1..Len(file)
      BY <2>1, <1>1, <1>2, <1>4
    <3> QED
      BY <2>1, <3>1, <1>4, <1>5
  <2>2. CASE ~(i >= curr_length_ /\ i < curr_length_ + n)
    BY <2>2, <1>2, <1>5
  <2> QED
    BY <2>1, <2>2
<1>7. TypeOK'
  BY <1>1, <1>2, <1>6 DEF IInv, TypeOK
<1>8. Window'
  <2>1. offset' <= Len(file) /\ curr_length_' <= offset'
        /\ offset' - curr_length_' = offset - curr_length_
    BY <1>1, <1>2, <1>3, <1>4 DEF IInv, Window
  <2>2. ASSUME NEW i \in 0..(curr_length_' - 1)
        PROVE  buffer_'[i] = file[(offset' - curr_length_') + i + 1]
    <3>1. i \in 0..(BufSize - 1) /\ (i < curr_length_ \/ (i >= curr_length_ /\ i < curr_length_ + n))
      BY <1>1, <1>2
    <3>2. CASE i < curr_length_
      <4>1. i \in 0..(curr_length_ - 1)
        BY <3>2, <1>2
      <4>2. buffer_[i] = file[(offset - curr_length_) + i + 1]
        BY <4>1, <1>1, <1>3 DEF IInv, Window
      <4> QED
        BY <4>2, <3>1, <3>2, <2>1, <1>5
    <3>3. CASE i >= curr_length_
      <4>1. offset + (i - curr_length_) + 1 = (offset - curr_length_) + i + 1
        BY <1>2, <3>1
      <4> QED
        BY <4>1, <3>1, <3>3, <2>1, <1>5, <1>2
    <3> QED
      BY <3>2, <3>3, <1>2, <3>1
  <2> QED
    BY <1>1, <1>3, <2>1, <2>2 DEF IInv, Window
<1>9. Shut' /\ Calls' /\ Tokens' /\ Chars' /\ Lines'
  BY <1>1, <1>3, LinesKept DEF IInv, Shut, Calls, Tokens, Chars
<1> QED
  BY <1>7, <1>8, <1>9 DEF IInv

(* The loop has ended, with at least one character since the file does not *)
(* end where the buffer did.                                               *)
LEMMA FillDoneInv ==
    ASSUME EndsInside, IInv, FillDone, delims_' = delims_
    PROVE  IInv' /\ curr_length_ # 0 /\ good_' = good_
<1>1. /\ pc = "fill" /\ LoopEnds
      /\ curr_index_' = 0
      /\ buffer_' = IF curr_length_ # BufSize THEN [buffer_ EXCEPT ![curr_length_] = EOF]
                                              ELSE buffer_
      /\ good_' = (curr_length_ # 0)
      /\ fill_num_' = IF curr_length_ = 0 THEN fill_num_ ELSE fill_num_ + 1
      /\ pc' = AfterFill
      /\ UNCHANGED <<file, offset, curr_length_, call, token, line, char_, pos, start, delims_>>
  BY DEF FillDone, locals, ghosts
<1>2. /\ BufSize \in Nat \ {0} /\ curr_length_ \in 0..BufSize /\ offset \in Nat
      /\ buffer_ \in [0..(BufSize - 1) -> Bytes \cup {EOF}] /\ fill_num_ \in Nat
  BY ReaderAssumption DEF IInv, TypeOK
<1>3. file # Closed
  BY <1>1 DEF IInv, Shut
<1>4. file \in Files /\ Len(file) \in Nat
  BY <1>3, OpenFileFacts
<1>5. /\ offset <= Len(file) /\ curr_length_ <= offset
      /\ \A i \in 0..(curr_length_ - 1) : buffer_[i] = file[(offset - curr_length_) + i + 1]
      /\ offset - curr_length_ = fill_num_ * BufSize
      /\ pos = offset - curr_length_ /\ good_ = TRUE
  BY <1>1, <1>3 DEF IInv, Window, TypeOK
<1>6. curr_length_ # 0
  <2>1. Len(file) # fill_num_ * BufSize
    BY <1>2, <1>4 DEF EndsInside
  <2> QED
    BY <2>1, <1>1, <1>2, <1>5 DEF LoopEnds
<1>7. pc' = (IF call \in {"open", "rewind"} THEN "idle" ELSE "reread")
  BY <1>1 DEF AfterFill
<1>8. /\ buffer_' \in [0..(BufSize - 1) -> Bytes \cup {EOF}]
      /\ \A i \in 0..(curr_length_ - 1) : buffer_'[i] = buffer_[i]
  BY <1>1, <1>2
<1>9. TypeOK'
  BY <1>1, <1>2, <1>6, <1>7, <1>8 DEF IInv, TypeOK
<1>10. Window'
  <2>1. fill_num_' >= 1 /\ fill_num_' - 1 = fill_num_
    BY <1>1, <1>2, <1>6
  <2>2. curr_length_' # BufSize => offset' = Len(file')
    BY <1>1 DEF LoopEnds
  <2>3. (fill_num_' - 1) * BufSize = fill_num_ * BufSize
    BY <2>1
  <2>4. pos' = (offset' - curr_length_') + curr_index_' /\ curr_index_' <= curr_length_'
    BY <1>1, <1>2, <1>5
  <2> QED
    BY <1>1, <1>5, <1>6, <1>7, <1>8, <2>1, <2>2, <2>3, <2>4 DEF Window
<1>11. Shut' /\ Calls' /\ Tokens' /\ Chars' /\ Lines'
  BY <1>1, <1>3, <1>7, LinesKept DEF IInv, Shut, Calls, Tokens, Chars, Gets
<1> QED
  BY <1>1, <1>5, <1>6, <1>9, <1>10, <1>11 DEF IInv

----------------------------------------------------------------------------
(* A character reaches the operation that asked for it. *)

(* Handing a character to the caller changes nothing but what is returned. *)
LEMMA DeliverTypes ==
    ASSUME IInv, NEW c \in Bytes \cup {EOF}, Deliver(c)
    PROVE  /\ char_' = c /\ pc' \in {"idle", "next"}
           /\ call' = call /\ start' = start /\ call \in Gets
           /\ token' \in Seq(Bytes \ {EOF}) /\ line' \in Seq(Seq(Bytes \ {EOF}))
<1> DEFINE S == Bytes \ {EOF}
           L == Seq(S)
<1>1. token \in Seq(S) /\ line \in Seq(L) /\ << >> \in Seq(S)
  BY DEF IInv, TypeOK
<1>2. char_' = c /\ call' = call /\ start' = start
  BY DEF Deliver
<1>3. c # EOF => Append(token, c) \in Seq(S)
  <2>1. c # EOF => c \in S
    OBVIOUS
  <2> QED
    BY <1>1, <2>1, AppendProperties
<1>4. Append(line, token) \in Seq(L)
  BY <1>1, AppendProperties
<1> HIDE DEF S, L
<1>5. CASE call = "get_char" /\ pc' = "idle" /\ UNCHANGED <<token, line>>
  BY <1>1, <1>2, <1>5 DEF Gets, S, L
<1>6. CASE call = "get_token" /\ TokenChar(c)
  BY <1>1, <1>2, <1>3, <1>6 DEF Gets, TokenChar, S, L
<1>7. CASE call = "get_line" /\ LineChar(c)
  <2>1. CASE c \in delims_ \cup {NewLine, EOF}
    BY <1>1, <1>2, <1>4, <1>7, <2>1 DEF Gets, LineChar, S, L
  <2>2. CASE c \notin delims_ \cup {NewLine, EOF}
    BY <1>1, <1>2, <1>3, <1>7, <2>2 DEF Gets, LineChar, S, L
  <2> QED
    BY <2>1, <2>2
<1> QED
  BY <1>5, <1>6, <1>7 DEF Deliver

(* The character is the next one of the file, or EOF at its end. *)
LEMMA DeliverNext ==
    ASSUME IInv, NEW c \in Bytes \cup {EOF}, Deliver(c),
           file # Closed, pc \in {"next", "reread"}, UNCHANGED <<file, delims_>>,
           \/ pos < Len(file) /\ c = file[pos + 1] /\ pos' = pos + 1
           \/ pos = Len(file) /\ c = EOF /\ pos' = pos
    PROVE  Calls' /\ Tokens' /\ Chars'
<1>1. /\ char_' = c /\ pc' \in {"idle", "next"}
      /\ call' = call /\ start' = start /\ call \in Gets
  BY DeliverTypes
<1>2. Calls'
  BY <1>1 DEF Calls
<1>3. Chars'
  <2> SUFFICES ASSUME call = "get_char" PROVE Chars'
    BY <1>1 DEF Chars
  <2>1. pos = start
    BY DEF IInv, Chars
  <2>2. pc' = "idle"
    BY DEF Deliver
  <2> QED
    BY <1>1, <2>1, <2>2 DEF Chars
<1>4. Tokens'
  <2> SUFFICES ASSUME call = "get_token" PROVE Tokens'
    BY <1>1 DEF Tokens
  <2>1. /\ token' = IF c = EOF \/ c \in delims_ THEN token ELSE Append(token, c)
        /\ pc' = IF c = EOF \/ c \in delims_ THEN "idle" ELSE "next"
    BY DEF Deliver, TokenChar
  <2>2. /\ start + Len(token) <= Len(file) /\ pos = start + Len(token)
        /\ \A i \in 1..Len(token) :
             token[i] = file[start + i] /\ token[i] \notin delims_ \cup {EOF}
    BY DEF IInv, Tokens
  <2>3. /\ token \in Seq(Bytes \ {EOF}) /\ start \in Nat /\ pos \in Nat
        /\ Len(token) \in Nat /\ Len(file) \in Nat
    BY OpenFileFacts DEF IInv, TypeOK
  <2>4. CASE c = EOF \/ c \in delims_
    <3>1. token' = token /\ pc' = "idle"
      BY <2>1, <2>4
    <3> QED
      BY <1>1, <2>2, <2>3, <2>4, <3>1 DEF Tokens
  <2>5. CASE ~(c = EOF \/ c \in delims_)
    <3>1. token' = Append(token, c) /\ pc' = "next" /\ c \in Bytes \ {EOF}
      BY <2>1, <2>5
    <3>2. /\ Len(token') = Len(token) + 1 /\ token'[Len(token) + 1] = c
          /\ \A i \in 1..Len(token) : token'[i] = token[i]
      BY <2>3, <3>1, AppendProperties
    <3>3. pos < Len(file) /\ c = file[pos + 1] /\ pos' = pos + 1
      BY <2>5
    <3>4. ASSUME NEW i \in 1..Len(token')
          PROVE  token'[i] = file[start + i] /\ token'[i] \notin delims_ \cup {EOF}
      <4>1. CASE i = Len(token) + 1
        <5>1. start + i = pos + 1
          BY <2>2, <2>3, <4>1
        <5> QED
          BY <2>5, <3>2, <3>3, <4>1, <5>1
      <4>2. CASE i # Len(token) + 1
        <5>1. i \in 1..Len(token)
          BY <2>3, <3>2, <4>2
        <5> QED
          BY <5>1, <2>2, <3>2
      <4> QED
        BY <4>1, <4>2
    <3>5. start + Len(token') <= Len(file) /\ pos' = start + Len(token')
      BY <2>2, <2>3, <3>2, <3>3
    <3> QED
      BY <1>1, <3>1, <3>4, <3>5 DEF Tokens
  <2> QED
    BY <2>4, <2>5
<1> QED
  BY <1>2, <1>3, <1>4

(* The character is the next one of the file, or EOF at its end: the line  *)
(* grows by a character of a piece or by a piece.                          *)
LEMMA DeliverLine ==
    ASSUME IInv, NEW c \in Bytes \cup {EOF}, Deliver(c),
           file # Closed, pc \in {"next", "reread"}, UNCHANGED <<file, delims_>>,
           \/ pos < Len(file) /\ c = file[pos + 1] /\ pos' = pos + 1
           \/ pos = Len(file) /\ c = EOF /\ pos' = pos
    PROVE  Lines'
<1>1. /\ pc' \in {"idle", "next"} /\ call' = call /\ start' = start
  BY DeliverTypes
<1> SUFFICES ASSUME call = "get_line" PROVE Lines'
  BY <1>1 DEF Lines
<1>2. /\ IF c \in delims_ \cup Stops
         THEN line' = Append(line, token) /\ token' = << >>
         ELSE line' = line /\ token' = Append(token, c)
      /\ pc' = IF c \in Stops THEN "idle" ELSE "next"
  BY DEF Deliver, LineChar, Stops
<1>3. /\ file \in Seq(Bytes) /\ Len(file) \in Nat /\ start \in Nat /\ pos \in Nat
      /\ token \in Seq(Bytes \ {EOF}) /\ line \in Seq(Seq(Bytes \ {EOF}))
  BY OpenFileFacts DEF IInv, TypeOK
<1>4. /\ start <= pos
      /\ \A i \in (start + 1)..pos : file[i] \notin Stops
      /\ PiecesOf(file, line, Cuts, start)
  BY DEF IInv, Lines, Pieces, PiecesOf
<1>5. PICK h \in Cuts \cup {start} :
        (\A j \in Cuts : j <= h) /\ token = SubSeq(file, h + 1, pos)
  BY DEF IInv, Lines
<1>6. Cuts \subseteq (start + 1)..pos /\ h \in Nat /\ h <= pos
  BY <1>3, <1>4 DEF Cuts
<1>7. PiecesOf(file, Append(line, token), Cuts \cup {pos + 1}, start)
  BY <1>3, <1>4, <1>5, <1>6, AddCut
<1>8. /\ Pieces(line, Cuts, start)' <=> PiecesOf(file, line', Cuts', start)
      /\ Cuts' = {i \in (start + 1)..pos' : file[i] \in delims_ \cup Stops}
  BY <1>1 DEF Pieces, PiecesOf, Cuts, Stops
<1>9. CASE pos < Len(file) /\ c = file[pos + 1] /\ pos' = pos + 1
  <2>1. /\ (start + 1)..(pos + 1) = (start + 1)..pos \cup {pos + 1}
        /\ pos' > start /\ start <= pos' /\ pos' - 1 = pos
    BY <1>3, <1>4, <1>9
  <2>2. Cuts' = IF c \in delims_ \cup Stops THEN Cuts \cup {pos + 1} ELSE Cuts
    BY <1>8, <1>9, <2>1 DEF Cuts
  <2>3. CASE c \in Stops
    <3>1. pc' = "idle" /\ line' = Append(line, token) /\ Cuts' = Cuts \cup {pos + 1}
      BY <1>2, <2>2, <2>3
    <3>2. Pieces(line, Cuts, start)'
      BY <1>7, <1>8, <3>1
    <3>3. file'[pos'] \in Stops
      BY <1>9, <2>3
    <3>4. LineIsCut'
      BY <1>1, <1>4, <2>1, <3>2, <3>3 DEF LineIsCut, Stops
    <3> QED
      BY <1>1, <2>1, <3>1, <3>4 DEF Lines
  <2>4. CASE c \notin Stops
    <3>1. pc' = "next" /\ \A i \in (start + 1)..pos' : file[i] \notin Stops
      BY <1>2, <1>4, <1>9, <2>1, <2>4
    <3>2. CASE c \in delims_
      <4>1. line' = Append(line, token) /\ token' = << >> /\ Cuts' = Cuts \cup {pos + 1}
        BY <1>2, <2>2, <3>2
      <4>2. Pieces(line, Cuts, start)'
        BY <1>7, <1>8, <4>1
      <4>3. token' = SubSeq(file, (pos + 1) + 1, pos')
        <5>1. (pos + 1) + 1 > pos'
          BY <1>3, <1>9
        <5> QED
          BY <1>3, <1>9, <4>1, <5>1, SubSeqEmpty
      <4>4. \A j \in Cuts' : j <= pos + 1
        BY <1>3, <1>6, <4>1
      <4>5. pos + 1 \in Cuts'
        BY <4>1
      <4> QED
        BY <1>1, <2>1, <3>1, <4>2, <4>3, <4>4, <4>5 DEF Lines, Stops
    <3>3. CASE c \notin delims_
      <4>1. line' = line /\ token' = Append(token, c) /\ Cuts' = Cuts
        BY <1>2, <2>2, <2>4, <3>3
      <4>2. Pieces(line, Cuts, start)'
        BY <1>4, <1>8, <4>1
      <4>3. token' = SubSeq(file, h + 1, pos')
        BY <1>3, <1>5, <1>6, <1>9, <4>1, GrowPiece
      <4> QED
        BY <1>1, <1>5, <2>1, <3>1, <4>1, <4>2, <4>3 DEF Lines, Stops
    <3> QED
      BY <3>2, <3>3
  <2> QED
    BY <2>3, <2>4
<1>10. CASE pos = Len(file) /\ c = EOF /\ pos' = pos
  <2>1. pc' = "idle" /\ line' = Append(line, token) /\ Cuts' = Cuts
    BY <1>2, <1>8, <1>10 DEF Stops, Cuts
  <2>2. Pieces(line, Cuts \cup {pos + 1}, start)'
    <3> DEFINE D == Cuts \cup {pos + 1}
    <3>1. D' = D
      BY <1>10, <2>1
    <3>2. PiecesOf(file, line', D, start)
      BY <1>7, <2>1
    <3> HIDE DEF D
    <3>3. Pieces(line, D, start)'
      BY <1>1, <3>1, <3>2 DEF Pieces, PiecesOf
    <3> QED
      BY <3>3 DEF D
  <2>3. ~(pos > start /\ file[pos] \in Stops)
    <3>1. pos > start => pos \in (start + 1)..pos
      BY <1>3
    <3> QED
      BY <1>4, <3>1
  <2>4. \A i \in (start + 1)..(pos - 1) : file[i] \notin Stops
    BY <1>3, <1>4
  <2>5. LineIsCut'
    BY <1>1, <1>10, <2>2, <2>3, <2>4 DEF LineIsCut, Stops
  <2> QED
    BY <1>1, <1>4, <1>10, <2>1, <2>5 DEF Lines
<1> QED
  BY <1>9, <1>10

----------------------------------------------------------------------------
(* get_char *)

(* The next character of the file, from the buffer or after a fill: the    *)
(* invariant, and that it is the character.                                *)
LEMMA CharTaken ==
    ASSUME IInv, CharFromBuffer \/ CharReread, delims_' = delims_
    PROVE  /\ IInv' /\ good_ /\ good_' = good_ /\ file' = file /\ file # Closed
           /\ pos < Len(file) /\ char_' = file[pos + 1] /\ pos' = pos + 1
           /\ pc \in {"next", "reread"} /\ pc' \in {"idle", "next"}
<1>1. /\ file # Closed /\ pc \in {"next", "reread"}
      /\ curr_index_ # curr_length_ /\ curr_length_ # 0
      /\ curr_index_' = curr_index_ + 1
      /\ UNCHANGED <<file, offset, buffer_, curr_length_, fill_num_, good_, delims_>>
      /\ pos' = pos + 1
      /\ curr_index_ <= curr_length_
  <2>1. CASE CharFromBuffer
    <3>1. pc = "next" /\ file # Closed
      BY <2>1 DEF CharFromBuffer
    <3> QED
      BY <2>1, <3>1 DEF CharFromBuffer, IInv, Window
  <2>2. CASE CharReread
    <3>1. pc = "reread"
      BY <2>2 DEF CharReread
    <3>2. file # Closed
      BY <3>1 DEF IInv, Shut
    <3>3. curr_index_ = 0 /\ curr_length_ # 0
      BY <3>1, <3>2 DEF IInv, Window
    <3> QED
      BY <2>2, <3>1, <3>2, <3>3 DEF CharReread, IInv, Window
  <2> QED
    BY <2>1, <2>2
<1>2. /\ BufSize \in Nat /\ curr_length_ \in 0..BufSize /\ curr_index_ \in 0..BufSize
      /\ offset \in Nat /\ fill_num_ \in Nat /\ pos \in Nat
      /\ buffer_ \in [0..(BufSize - 1) -> Bytes \cup {EOF}]
  BY ReaderAssumption DEF IInv, TypeOK
<1>3. /\ offset <= Len(file) /\ curr_length_ <= offset
      /\ \A i \in 0..(curr_length_ - 1) : buffer_[i] = file[(offset - curr_length_) + i + 1]
      /\ fill_num_ >= 1
      /\ offset - curr_length_ = (fill_num_ - 1) * BufSize
      /\ pos = (offset - curr_length_) + curr_index_
      /\ curr_length_ # BufSize => offset = Len(file)
      /\ ~good_ => curr_index_ = curr_length_ /\ curr_length_ # BufSize
  BY <1>1 DEF IInv, Window
<1>4. Len(file) \in Nat /\ \A i \in 1..Len(file) : file[i] \in Bytes
  BY <1>1, OpenFileFacts
<1>5. curr_index_ \in 0..(curr_length_ - 1) /\ curr_index_ \in 0..(BufSize - 1)
  BY <1>1, <1>2
<1> DEFINE c == buffer_[curr_index_]
<1>6. c = file[pos + 1] /\ pos < Len(file)
  <2>1. c = file[(offset - curr_length_) + curr_index_ + 1]
    BY <1>3, <1>5
  <2> QED
    BY <2>1, <1>2, <1>3, <1>4, <1>5
<1>7. Deliver(c)
  <2>1. CASE CharFromBuffer
    <3>1. At(curr_index_) = {c}
      BY <1>2, <1>5 DEF At
    <3> QED
      BY <2>1, <3>1 DEF CharFromBuffer
  <2>2. CASE CharReread
    BY <2>2 DEF CharReread
  <2> QED
    BY <2>1, <2>2
<1>8. c \in Bytes \cup {EOF}
  BY <1>2, <1>5
<1> HIDE DEF c
<1>9. /\ char_' = c /\ pc' \in {"idle", "next"}
      /\ call' = call /\ start' = start /\ call \in Gets
      /\ token' \in Seq(Bytes \ {EOF}) /\ line' \in Seq(Seq(Bytes \ {EOF}))
  BY <1>7, <1>8, DeliverTypes
<1>10. Calls' /\ Tokens' /\ Chars' /\ Lines'
  BY <1>1, <1>6, <1>7, <1>8, DeliverNext, DeliverLine
<1>11. TypeOK'
  <2>1. curr_index_' \in 0..BufSize /\ pos' \in Nat
    BY <1>1, <1>2, <1>5
  <2> QED
    BY <1>1, <1>8, <1>9, <2>1 DEF IInv, TypeOK
<1>12. good_
  BY <1>1, <1>3
<1>13. Window'
  <2>1. curr_index_' <= curr_length_ /\ pos' = (offset - curr_length_) + curr_index_'
    BY <1>1, <1>2, <1>3, <1>5
  <2> QED
    BY <1>1, <1>3, <1>9, <1>12, <2>1 DEF Window
<1>14. Shut'
  BY <1>1 DEF Shut
<1> QED
  BY <1>1, <1>6, <1>9, <1>10, <1>11, <1>12, <1>13, <1>14 DEF IInv

(* There is none: the end of the file, or no file. *)
LEMMA CharMissing ==
    ASSUME IInv, CharAtEnd \/ CharClosed, delims_' = delims_
    PROVE  /\ IInv' /\ file' = file /\ ~good_' /\ char_' = EOF /\ pos' = pos
           /\ file # Closed => pos = Len(file)
           /\ pc = "next" /\ pc' \in {"idle", "next"}
<1>1. /\ pc = "next" /\ good_' = FALSE /\ Deliver(EOF)
      /\ UNCHANGED <<file, offset, buffer_, curr_length_, curr_index_, fill_num_, pos, delims_>>
  BY DEF CharAtEnd, CharClosed
<1>2. /\ char_' = EOF /\ pc' \in {"idle", "next"}
      /\ call' = call /\ start' = start /\ call \in Gets
      /\ token' \in Seq(Bytes \ {EOF}) /\ line' \in Seq(Seq(Bytes \ {EOF}))
  BY <1>1, DeliverTypes
<1>3. TypeOK'
  BY <1>1, <1>2 DEF IInv, TypeOK
<1>4. CASE file = Closed
  <2>1. Window' /\ Tokens' /\ Chars' /\ Lines'
    BY <1>1, <1>4 DEF Window, Tokens, Chars, Lines
  <2>2. Shut' /\ Calls'
    BY <1>1, <1>2, <1>4 DEF IInv, Shut, Calls
  <2> QED
    BY <1>1, <1>2, <1>3, <1>4, <2>1, <2>2 DEF IInv
<1>5. CASE file # Closed
  <2>1. curr_index_ = curr_length_ /\ curr_length_ # BufSize
    BY <1>5 DEF CharAtEnd, CharClosed
  <2>2. offset \in Nat /\ curr_length_ \in 0..BufSize /\ BufSize \in Nat
    BY ReaderAssumption DEF IInv, TypeOK
  <2>3. offset = Len(file) /\ pos = (offset - curr_length_) + curr_index_
    BY <1>1, <1>5, <2>1 DEF IInv, Window
  <2>4. pos = Len(file)
    BY <2>1, <2>2, <2>3
  <2>5. Calls' /\ Tokens' /\ Chars' /\ Lines'
    BY <1>1, <1>5, <2>4, DeliverNext, DeliverLine
  <2>6. Window'
    BY <1>1, <1>2, <1>5, <2>1 DEF IInv, Window
  <2>7. Shut'
    BY <1>1, <1>5 DEF Shut
  <2> QED
    BY <1>1, <1>2, <1>3, <1>5, <2>4, <2>5, <2>6, <2>7 DEF IInv
<1> QED
  BY <1>4, <1>5

(* The buffer is used up and was full. *)
LEMMA CharNeedsFillInv ==
    ASSUME IInv, CharNeedsFill, delims_' = delims_ PROVE IInv'
<1>1. /\ pc = "next" /\ file # Closed
      /\ curr_index_ = curr_length_ /\ curr_length_ = BufSize
      /\ curr_length_' = 0
      /\ pc' = "fill"
      /\ UNCHANGED <<file, offset, buffer_, curr_index_, fill_num_, good_, call, token, line,
                     char_, pos, start, delims_>>
  BY DEF CharNeedsFill, locals, ghosts
<1>2. /\ BufSize \in Nat \ {0} /\ offset \in Nat /\ fill_num_ \in Nat
  BY ReaderAssumption DEF IInv, TypeOK
<1>3. TypeOK'
  BY <1>1, <1>2 DEF IInv, TypeOK
<1>4. Window'
  <2>1. /\ offset <= Len(file) /\ fill_num_ >= 1
        /\ offset - BufSize = (fill_num_ - 1) * BufSize
        /\ pos = (offset - BufSize) + BufSize /\ (~good_ => BufSize # BufSize)
    BY <1>1 DEF IInv, Window
  <2>2. (fill_num_ - 1) * BufSize + BufSize = fill_num_ * BufSize
    BY <1>2
  <2>3. offset = fill_num_ * BufSize /\ pos = offset
    <3> DEFINE a == (fill_num_ - 1) * BufSize
    <3>1. a \in Int
      BY <1>2
    <3> HIDE DEF a
    <3>2. offset - BufSize = a
      BY <2>1 DEF a
    <3>3. offset = a + BufSize
      BY <1>2, <3>1, <3>2
    <3> QED
      BY <1>2, <2>1, <2>2, <3>3 DEF a
  <2>4. offset - 0 = offset /\ 0 <= offset /\ 0..(0 - 1) = {}
    BY <1>2
  <2> QED
    BY <1>1, <2>1, <2>3, <2>4 DEF Window
<1>5. Shut' /\ Calls' /\ Tokens' /\ Chars' /\ Lines'
  BY <1>1, LinesKept DEF IInv, Shut, Calls, Tokens, Chars
<1> QED
  BY <1>3, <1>4, <1>5 DEF IInv

----------------------------------------------------------------------------
(* The operations begin, or the program exits. *)

(* Opening, closing, rewinding and the start of a Get keep the invariant. *)
LEMMA CallInv ==
    ASSUME IInv, delims_' = delims_,
           \/ Rewind \/ CloseFile \/ RewindClosed \/ Fail
           \/ \E f \in Files : OpenFile(f)
           \/ \E o \in Gets : GetSome(o)
    PROVE  IInv'
<1>1. << >> \in Seq(Bytes \ {EOF}) /\ << >> \in Seq(Seq(Bytes \ {EOF}))
  OBVIOUS
<1>2. /\ BufSize \in Nat \ {0} /\ 0 * BufSize = 0
      /\ file \in Files \cup {Closed} /\ offset \in Nat /\ pos \in Nat
  BY ReaderAssumption DEF IInv, TypeOK
<1>3. \A f \in Files : f # Closed /\ f \in Seq(Bytes) /\ Len(f) \in Nat
  BY ReaderAssumption
<1>4. ASSUME NEW o \in Gets, GetSome(o) PROVE IInv'
  <2>1. /\ pc = "idle" /\ pc' = "next" /\ call' = o /\ token' = << >> /\ start' = pos
        /\ line' = << >>
        /\ UNCHANGED <<file, offset, buffer_, curr_length_, curr_index_, fill_num_, good_,
                       char_, pos, delims_>>
    BY <1>4 DEF GetSome, Begin, fields
  <2>2. TypeOK'
    BY <1>1, <2>1 DEF IInv, TypeOK
  <2>3. Window' /\ Shut' /\ Calls' /\ Chars'
    BY <2>1 DEF IInv, Window, Shut, Calls, Chars
  <2>4. Tokens'
    <3> SUFFICES ASSUME file # Closed PROVE Tokens'
      BY <2>1 DEF Tokens
    <3>1. /\ offset <= Len(file) /\ curr_index_ <= curr_length_
          /\ pos = (offset - curr_length_) + curr_index_
      BY <2>1 DEF IInv, Window
    <3>2. curr_length_ \in 0..BufSize /\ curr_index_ \in 0..BufSize /\ Len(file) \in Nat
      BY OpenFileFacts DEF IInv, TypeOK
    <3>3. pos <= Len(file) /\ pos + 0 = pos
      BY <1>2, <3>1, <3>2
    <3> QED
      BY <2>1, <3>3 DEF Tokens
  <2>5. Lines'
    <3> SUFFICES ASSUME file # Closed PROVE Lines'
      BY <2>1 DEF Lines
    <3>1. pos <= pos /\ (pos + 1)..pos = {} /\ pos + 1 > pos
      BY <1>2
    <3>2. Cuts' = {}
      BY <2>1, <3>1 DEF Cuts
    <3>3. token' = SubSeq(file, pos + 1, pos) /\ Len(line') = 0
      BY <1>2, <2>1, <3>1, OpenFileFacts, SubSeqEmpty
    <3>4. Pieces(line, Cuts, start)'
      BY <3>2, <3>3, FS_EmptySet DEF Pieces
    <3> QED
      BY <2>1, <3>1, <3>2, <3>3, <3>4 DEF Lines
  <2> QED
    BY <2>2, <2>3, <2>4, <2>5 DEF IInv
<1>5. ASSUME Rewind \/ \E f \in Files : OpenFile(f) PROVE IInv'
  <2>1. /\ pc' = "fill" /\ call' \in {"open", "rewind"} /\ token' = << >> /\ line' = << >>
        /\ start' = pos /\ offset' = 0 /\ curr_length_' = 0 /\ fill_num_' = 0
        /\ good_' = TRUE /\ pos' = 0 /\ file' \in Files /\ curr_index_' \in {0, curr_index_}
        /\ UNCHANGED <<buffer_, char_, delims_>>
    BY <1>2, <1>5 DEF Rewind, OpenFile, Begin
  <2>2. TypeOK'
    BY <1>1, <1>2, <2>1 DEF IInv, TypeOK
  <2>3. Window'
    BY <1>2, <1>3, <2>1 DEF Window
  <2>4. Shut' /\ Calls' /\ Tokens' /\ Chars' /\ Lines'
    BY <1>3, <2>1 DEF Shut, Calls, Tokens, Chars, Lines
  <2> QED
    BY <2>2, <2>3, <2>4 DEF IInv
<1>6. CASE CloseFile
  <2>1. /\ pc = "idle" /\ pc' = pc /\ call' = "close" /\ token' = << >> /\ line' = << >>
        /\ start' = pos /\ file' = Closed /\ offset' = 0
        /\ curr_length_' = 0 /\ curr_index_' = 0 /\ fill_num_' = 0
        /\ good_' = FALSE /\ pos' = 0
        /\ UNCHANGED <<buffer_, char_, delims_>>
    BY <1>6 DEF CloseFile, Begin
  <2>2. TypeOK'
    <3>1. 0 \in 0..BufSize /\ 0 \in Nat /\ FALSE \in BOOLEAN
      BY <1>2
    <3>2. /\ file' \in Files \cup {Closed} /\ offset' \in Nat /\ curr_length_' \in 0..BufSize
          /\ curr_index_' \in 0..BufSize /\ fill_num_' \in Nat /\ good_' \in BOOLEAN
          /\ pos' \in Nat /\ start' \in Nat
      BY <1>2, <2>1, <3>1
    <3>3. /\ token' \in Seq(Bytes \ {EOF}) /\ line' \in Seq(Seq(Bytes \ {EOF}))
      BY <1>1, <2>1
    <3> QED
      BY <2>1, <3>2, <3>3 DEF IInv, TypeOK
  <2>3. Window' /\ Shut' /\ Calls' /\ Tokens' /\ Chars' /\ Lines'
    BY <2>1 DEF Window, Shut, Calls, Tokens, Chars, Lines
  <2> QED
    BY <2>2, <2>3 DEF IInv
<1>7. CASE RewindClosed
  <2>1. /\ pc' = "exited" /\ token' = << >> /\ line' = << >>
        /\ start' = pos /\ good_' = FALSE
        /\ UNCHANGED <<file, offset, buffer_, curr_length_, curr_index_, fill_num_, char_,
                       pos, delims_>>
    BY <1>7 DEF RewindClosed, Begin
  <2>2. TypeOK'
    BY <1>1, <1>2, <2>1 DEF IInv, TypeOK
  <2>3. Window' /\ Shut' /\ Calls' /\ Tokens' /\ Chars' /\ Lines'
    BY <2>1 DEF IInv, Window, Shut, Calls, Tokens, Chars, Lines
  <2> QED
    BY <2>2, <2>3 DEF IInv
<1>8. CASE Fail
  <2>1. /\ pc' = "exited" /\ good_' = FALSE
        /\ UNCHANGED <<file, offset, buffer_, curr_length_, curr_index_, fill_num_, call,
                       token, line, char_, pos, start, delims_>>
    BY <1>8 DEF Fail, locals, ghosts
  <2>2. TypeOK'
    BY <2>1 DEF IInv, TypeOK
  <2>3. Window' /\ Shut' /\ Calls' /\ Tokens' /\ Chars' /\ Lines'
    BY <2>1 DEF IInv, Window, Shut, Calls, Tokens, Chars, Lines
  <2> QED
    BY <2>2, <2>3 DEF IInv
<1> QED
  BY <1>4, <1>5, <1>6, <1>7, <1>8

(* Every step keeps the invariant, of any file that does not end with the *)
(* buffer.                                                                *)
LEMMA NextInv == ASSUME EndsInside, IInv, [Next]_vars PROVE IInv'
<1>1. CASE Step /\ UNCHANGED delims_
  BY <1>1, ReadInv, FillDoneInv, CharTaken, CharMissing, CharNeedsFillInv, CallInv
     DEF Step, Gets
<1>2. CASE Exited \/ UNCHANGED vars
  <2>1. UNCHANGED vars
    BY <1>2 DEF Exited
  <2>2. TypeOK'
    BY <2>1 DEF IInv, TypeOK, vars, fields, locals, ghosts
  <2>3. Window' /\ Shut' /\ Calls' /\ Tokens' /\ Chars'
    BY <2>1 DEF IInv, Window, Shut, Calls, Tokens, Chars, vars, fields, locals, ghosts
  <2>4. Lines'
    BY <2>1, LinesKept DEF vars, fields, locals, ghosts
  <2> QED
    BY <2>2, <2>3, <2>4 DEF IInv
<1> QED
  BY <1>1, <1>2 DEF Next

(* IInv is inductive. *)
THEOREM Inductive == EndsInside => (Spec => []IInv)
<1> SUFFICES ASSUME EndsInside PROVE Spec => []IInv
  OBVIOUS
<1>1. IInv /\ [Next]_vars => IInv'
  BY NextInv
<1> QED
  BY InitInv, <1>1, PTL DEF Spec

(* Every field keeps its type: the index stays in the array and no token   *)
(* holds the char that ends the file.                                      *)
THEOREM TypeCorrect == EndsInside => (Spec => []TypeOK)
<1> SUFFICES ASSUME EndsInside PROVE Spec => []TypeOK
  OBVIOUS
<1>1. IInv => TypeOK
  BY DEF IInv
<1>2. Spec => []IInv
  BY Inductive
<1> QED
  BY <1>1, <1>2, PTL

(* Between calls the buffer is the part of the file that ends at the       *)
(* descriptor's offset, and tell() is the number of characters delivered.  *)
THEOREM BufferAndTell == EndsInside => (Spec => []BufferIsWindow)
<1> SUFFICES ASSUME EndsInside PROVE Spec => []BufferIsWindow
  OBVIOUS
<1>1. ASSUME IInv PROVE BufferIsWindow
  <2> SUFFICES ASSUME pc = "idle", file # Closed PROVE BufferIsWindow
    BY DEF BufferIsWindow, Open
  <2> DEFINE w == (fill_num_ - 1) * BufSize
  <2>1. /\ offset \in Nat /\ curr_length_ \in 0..BufSize /\ curr_index_ \in 0..BufSize
        /\ BufSize \in Nat /\ fill_num_ \in Nat
    BY <1>1, ReaderAssumption DEF IInv, TypeOK
  <2>2. w \in Int
    BY <2>1
  <2>3. /\ \A i \in 0..(curr_length_ - 1) : buffer_[i] = file[(offset - curr_length_) + i + 1]
        /\ offset - curr_length_ = w
        /\ pos = (offset - curr_length_) + curr_index_
    BY <1>1 DEF IInv, Window
  <2> HIDE DEF w
  <2>4. offset = w + curr_length_ /\ w + curr_index_ = pos
    BY <2>1, <2>2, <2>3
  <2>5. \A i \in 0..(curr_length_ - 1) : buffer_[i] = file[w + i + 1]
    BY <2>3
  <2> QED
    BY <2>4, <2>5 DEF BufferIsWindow, Tell, w
<1>2. Spec => []IInv
  BY Inductive
<1> QED
  BY <1>1, <1>2, PTL

(* get_token returns the text up to the next delimiter, byte 0xFF or end,  *)
(* across any number of refills, and consumes the delimiter.               *)
THEOREM TokenFollows == EndsInside => (Spec => []TokenIsNext)
<1> SUFFICES ASSUME EndsInside PROVE Spec => []TokenIsNext
  OBVIOUS
<1>1. ASSUME IInv PROVE TokenIsNext
  <2> SUFFICES ASSUME pc = "idle", file # Closed, call = "get_token" PROVE TokenIsNext
    BY DEF TokenIsNext, Open
  <2> DEFINE end == start + Len(token)
  <2>1. /\ end <= Len(file)
        /\ \A i \in 1..Len(token) :
             token[i] = file[start + i] /\ token[i] \notin delims_ \cup {EOF}
        /\ \/ end = Len(file) /\ pos = end
           \/ end < Len(file) /\ file[end + 1] \in delims_ \cup {EOF} /\ pos = end + 1
    BY <1>1 DEF IInv, Tokens
  <2>2. /\ token \in Seq(Bytes \ {EOF}) /\ Len(token) \in Nat /\ start \in Nat
        /\ file \in Seq(Bytes) /\ Len(file) \in Nat
        /\ \A i \in 1..Len(file) : file[i] \in Bytes
    BY <1>1, OpenFileFacts DEF IInv, TypeOK
  <2> DEFINE text == SubSeq(file, start + 1, end)
  <2>3. /\ text \in Seq(Bytes) /\ Len(text) = Len(token)
        /\ \A i \in 1..Len(token) : text[i] = token[i]
    <3>1. /\ start + 1 \in Int /\ end \in Int
          /\ \A i \in (start + 1)..end : file[i] \in Bytes
      BY <2>1, <2>2
    <3>2. /\ text \in Seq(Bytes)
          /\ Len(text) = IF start + 1 <= end THEN end - (start + 1) + 1 ELSE 0
          /\ \A i \in 1..(end - (start + 1) + 1) : text[i] = file[(start + 1) + i - 1]
      BY <3>1, SubSeqProperties
    <3> HIDE DEF text
    <3>3. Len(text) = Len(token)
      BY <2>2, <3>2
    <3>4. ASSUME NEW i \in 1..Len(token) PROVE text[i] = token[i]
      <4>1. i \in 1..(end - (start + 1) + 1) /\ (start + 1) + i - 1 = start + i
        BY <2>2
      <4> QED
        BY <2>1, <3>2, <4>1
    <3> QED
      BY <3>2, <3>3, <3>4
  <2> HIDE DEF text
  <2>4. token \in Seq(Bytes)
    BY <2>2
  <2>5. token = text
    BY <2>3, <2>4, SeqEqual
  <2>6. Range(token) \cap (delims_ \cup {EOF}) = {}
    BY <2>1, <2>2 DEF Range
  <2> QED
    BY <2>1, <2>5, <2>6 DEF TokenIsNext, text
<1>2. Spec => []IInv
  BY Inductive
<1> QED
  BY <1>1, <1>2, PTL

(* get_char returns the next character of the file, and EOF at its end. *)
THEOREM CharFollows == EndsInside => (Spec => []CharIsNext)
<1> SUFFICES ASSUME EndsInside PROVE Spec => []CharIsNext
  OBVIOUS
<1>1. IInv => CharIsNext
  BY DEF IInv, Chars, CharIsNext, Open
<1>2. Spec => []IInv
  BY Inductive
<1> QED
  BY <1>1, <1>2, PTL

(* Where nothing is cut the line is one empty token. *)
LEMMA EmptyPiece ==
    ASSUME NEW ln \in Seq(Seq(Bytes \ {EOF})), file \in Seq(Bytes), NEW from \in Nat,
           Pieces(ln, {from + 1}, from)
    PROVE  ln = << << >> >>
<1> DEFINE C == {from + 1}
<1>1. Cardinality(C) = 1 /\ Len(ln) = 1
  BY FS_Singleton DEF Pieces
<1>2. ln[Cardinality({j \in C : j <= from + 1})] = SubSeq(file, from + 1, from)
  <2>1. from < from + 1 /\ \A j \in C : ~(from < j /\ j < from + 1)
    OBVIOUS
  <2>2. (from + 1) - 1 = from
    OBVIOUS
  <2> QED
    BY <2>1, <2>2 DEF Pieces
<1>3. {j \in C : j <= from + 1} = C
  OBVIOUS
<1>4. SubSeq(file, from + 1, from) = << >>
  BY SubSeqEmpty
<1>5. ln[1] = << >>
  BY <1>1, <1>2, <1>3, <1>4
<1> QED
  BY <1>1, <1>5

(* get_line stops after the first newline, byte 0xFF or at the end, and    *)
(* its tokens are what it read, cut at every delimiter; a call that finds  *)
(* no text returns an empty token.                                         *)
THEOREM LineFollows == EndsInside => (Spec => []LineIsNext)
<1> SUFFICES ASSUME EndsInside PROVE Spec => []LineIsNext
  OBVIOUS
<1>1. ASSUME IInv PROVE LineIsNext
  <2> DEFINE stopped == pos > start /\ file[pos] \in Stops
             end == IF stopped THEN pos - 1 ELSE pos
             C == IF stopped THEN Cuts ELSE Cuts \cup {pos + 1}
  <2> SUFFICES ASSUME Open, call = "get_line", end = start PROVE line = << << >> >>
    BY <1>1 DEF IInv, Lines, LineIsNext, LineIsCut, Open
  <2>1. /\ start <= pos /\ Pieces(line, C, start) /\ file \in Seq(Bytes)
        /\ line \in Seq(Seq(Bytes \ {EOF})) /\ pos \in Nat /\ start \in Nat
    BY <1>1, OpenFileFacts DEF IInv, Lines, LineIsCut, Open, TypeOK
  <2>2. C = {start + 1}
    <3>1. CASE stopped
      <4>1. pos = start + 1 /\ (start + 1)..pos = {start + 1}
        BY <2>1, <3>1
      <4> QED
        BY <3>1, <4>1 DEF Cuts
    <3>2. CASE ~stopped
      <4>1. pos = start /\ (start + 1)..pos = {}
        BY <2>1, <3>2
      <4> QED
        BY <3>2, <4>1 DEF Cuts
    <3> QED
      BY <3>1, <3>2
  <2> HIDE DEF C
  <2> QED
    BY <2>1, <2>2, EmptyPiece
<1>2. Spec => []IInv
  BY Inductive
<1> QED
  BY <1>1, <1>2, PTL

----------------------------------------------------------------------------
(* The refinement of SimpleFileReader. *)

(* Every step is one of the unbuffered reader's, or leaves its state as it *)
(* is.                                                                     *)
LEMMA StepIsSimple ==
    ASSUME EndsInside, IInv, [Next]_vars PROVE [Simple!Uninterrupted]_(Simple!vars)
<1>1. CASE UNCHANGED vars \/ Exited
  BY <1>1 DEF Exited, vars, fields, locals, ghosts, Simple!vars
<1> SUFFICES ASSUME Step, delims_' = delims_
             PROVE  [Simple!Uninterrupted]_(Simple!vars)
  BY <1>1 DEF Next
<1>2. CASE \E n \in 1..BufSize : Read(n)
  BY <1>2 DEF Read, locals, ghosts, Simple!vars
<1>3. CASE FillDone
  <2>1. good_' = good_
    BY <1>3, FillDoneInv
  <2>2. pc = "fill" /\ pc' \in {"idle", "reread"} /\ UNCHANGED <<file, pos, char_>>
    BY <1>3 DEF FillDone, AfterFill, locals, ghosts
  <2> QED
    BY <2>1, <2>2 DEF Simple!vars
<1>4. CASE CharNeedsFill \/ \E o \in Gets : GetSome(o)
  BY <1>4 DEF CharNeedsFill, GetSome, Begin, fields, locals, ghosts, Simple!vars
<1>5. CASE CharFromBuffer \/ CharReread
  <2>1. /\ good_ = TRUE /\ good_' = good_ /\ file' = file /\ file # Closed
        /\ pos < Len(file) /\ char_' = file[pos + 1] /\ pos' = pos + 1
        /\ pc # "exited" /\ pc' # "exited"
    BY <1>5, CharTaken DEF IInv, TypeOK
  <2>2. Simple!GetChar
    BY <2>1 DEF Simple!GetChar
  <2> QED
    BY <2>1, <2>2 DEF Simple!Uninterrupted
<1>6. CASE CharAtEnd \/ CharClosed
  <2>1. /\ file' = file /\ char_' = EOF /\ pos' = pos
        /\ file # Closed => pos = Len(file)
        /\ pc # "exited" /\ pc' # "exited"
    BY <1>6, CharMissing
  <2>2. good_' = FALSE
    BY <1>6 DEF CharAtEnd, CharClosed
  <2>3. Simple!GetCharNone
    BY <2>1, <2>2 DEF Simple!GetCharNone
  <2> QED
    BY <2>1, <2>3 DEF Simple!Uninterrupted
<1>7. CASE Rewind
  <2>1. /\ pc = "idle" /\ pc' = "fill" /\ pos' = 0 /\ good_' = TRUE
        /\ UNCHANGED <<file, char_>>
    BY <1>7 DEF Rewind, Begin
  <2>2. Simple!Rewind
    BY <2>1 DEF Simple!Rewind
  <2> QED
    BY <2>1, <2>2 DEF Simple!Uninterrupted
<1>8. ASSUME NEW f \in Files, OpenFile(f) PROVE [Simple!Uninterrupted]_(Simple!vars)
  <2>1. /\ pc = "idle" /\ pc' = "fill" /\ pos' = 0 /\ good_' = TRUE
        /\ file' = f /\ char_' = char_
    BY <1>8 DEF OpenFile, Begin
  <2>2. Simple!OpenFile(f)
    BY <2>1 DEF Simple!OpenFile
  <2> QED
    BY <2>1, <2>2 DEF Simple!Uninterrupted
<1>9. CASE CloseFile
  <2>1. /\ pc = "idle" /\ pc' = "idle" /\ pos' = 0 /\ good_' = FALSE
        /\ file' = Closed /\ char_' = char_
    BY <1>9 DEF CloseFile, Begin
  <2>2. CASE file # Closed
    <3>1. Simple!CloseFile
      BY <2>1, <2>2 DEF Simple!CloseFile
    <3> QED
      BY <2>1, <3>1 DEF Simple!Uninterrupted
  <2>3. CASE file = Closed
    <3>1. pos = 0 /\ good_ = FALSE
      BY <2>3 DEF IInv, Shut, TypeOK
    <3> QED
      BY <2>1, <2>3, <3>1 DEF Simple!vars
  <2> QED
    BY <2>2, <2>3
<1>10. CASE RewindClosed \/ Fail
  <2>1. /\ pc # "exited" /\ pc' = "exited" /\ good_' = FALSE /\ UNCHANGED <<file, pos, char_>>
    BY <1>10 DEF RewindClosed, Begin, Fail, locals, ghosts
  <2>2. Simple!Exit
    BY <2>1 DEF Simple!Exit
  <2> QED
    BY <2>1, <2>2 DEF Simple!Uninterrupted
<1> QED
  BY <1>2, <1>3, <1>4, <1>5, <1>6, <1>7, <1>8, <1>9, <1>10 DEF Step, Gets

(* By the operations they share a caller cannot tell the buffered reader   *)
(* from the unbuffered one.                                                *)
THEOREM ReaderIsSimple == EndsInside => (Spec => IsSimpleReader)
<1> SUFFICES ASSUME EndsInside PROVE Spec => IsSimpleReader
  OBVIOUS
<1>1. Init => Simple!Init
  BY DEF Init, Simple!Init
<1>2. IInv /\ [Next]_vars => [Simple!Uninterrupted]_(Simple!vars)
  BY StepIsSimple
<1>3. Spec => []IInv
  BY Inductive
<1> QED
  BY <1>1, <1>2, <1>3, PTL DEF Spec, IsSimpleReader, Simple!UninterruptedSpec
=============================================================================
