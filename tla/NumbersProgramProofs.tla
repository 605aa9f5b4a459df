------------------------ MODULE NumbersProgramProofs ------------------------
(***************************************************************************)
(* The two threads print what the one-thread program prints, whatever the  *)
(* input and the schedule, and main frees the queue when they are gone.    *)
(***************************************************************************)
EXTENDS NumbersProgram, SequenceTheorems, WellFoundedInduction, TLAPS

(* The theorems about the queue, for these two threads. *)
QP == INSTANCE DoubleQueueProofs

----------------------------------------------------------------------------
(* Numbers *)

(* A set of numbers has a least one. *)
LEMMA LeastNatural ==
    ASSUME NEW T \in SUBSET Nat, T # {} PROVE \E x \in T : \A y \in T : x <= y
<1> DEFINE R == {ss \in Nat \X Nat : ss[1] < ss[2]}
<1>1. IsWellFoundedOn(R, Nat)
  BY NatLessThanWellFounded DEF OpToRel
<1>2. \A x \in Nat, y \in Nat : y < x => <<y, x>> \in R
  OBVIOUS
<1> HIDE DEF R
<1>3. PICK x \in T : \A y \in T : ~(<<y, x>> \in R)
  BY <1>1, WFMin
<1>4. \A y \in T : ~(y < x)
  BY <1>2, <1>3
<1> QED
  BY <1>4

(* What holds at 0, and at x + 1 when at x, holds everywhere up to n. *)
LEMMA FromZero ==
    ASSUME NEW n \in Nat, NEW T \in SUBSET (0..n), 0 \in T,
           \A x \in 0..(n - 1) : x \in T => x + 1 \in T
    PROVE  T = 0..n
<1> SUFFICES ASSUME T # 0..n PROVE FALSE
  OBVIOUS
<1>1. PICK x \in (0..n) \ T : \A y \in (0..n) \ T : x <= y
  <2>1. T \subseteq 0..n
    OBVIOUS
  <2>2. \E x \in 0..n : x \notin T
    BY <2>1, T # 0..n, Zenon
  <2>3. (0..n) \ T \in SUBSET Nat /\ (0..n) \ T # {}
    BY <2>2
  <2> QED
    BY <2>3, LeastNatural
<1>2. x # 0 /\ x - 1 \in 0..(n - 1) /\ x - 1 \in 0..n
  BY <1>1
<1>3. x - 1 \in T
  BY <1>1, <1>2
<1> QED
  BY <1>1, <1>2, <1>3

(* The largest of some of the numbers to n + 1; without it they go to n. *)
Most(s) == CHOOSE x \in s : \A y \in s : x >= y

(* Most is the largest of a set of positions. *)
LEMMA MostIs ==
    ASSUME NEW n \in Nat, NEW s \in SUBSET (1..n), s # {}
    PROVE  Most(s) \in s /\ \A y \in s : Most(s) >= y
<1> DEFINE T == {n - y : y \in s}
<1>0. s \subseteq 1..n
  OBVIOUS
<1>1. T \in SUBSET Nat /\ T # {}
  <2>1. \A y \in s : n - y \in Nat
    BY <1>0
  <2> QED
    BY <2>1
<1>2. PICK x \in T : \A y \in T : x <= y
  <2> HIDE DEF T
  <2> QED
    BY <1>1, LeastNatural
<1>3. n - x \in s /\ \A y \in s : n - x >= y
  <2>1. PICK z \in s : x = n - z
    OBVIOUS
  <2>2. n - x = z
    BY <2>1
  <2>3. \A y \in s : x <= n - y
    BY <1>2
  <2> QED
    BY <2>1, <2>2, <2>3
<1> QED
  BY <1>3 DEF Most

(* The largest of the numbers to n + 1, and what is left without it. *)
LEMMA MostOfPrefix ==
    ASSUME NEW n \in Nat PROVE Most(1..(n + 1)) = n + 1 /\ (1..(n + 1)) \ {n + 1} = 1..n
<1> DEFINE s == 1..(n + 1)
<1>1. s \in SUBSET (1..(n + 1)) /\ s # {} /\ n + 1 \in Nat
  OBVIOUS
<1> HIDE DEF s
<1>2. Most(s) \in s /\ \A y \in s : Most(s) >= y
  BY <1>1, MostIs
<1> QED
  BY <1>2 DEF s

----------------------------------------------------------------------------
(* The one-thread program, a token and a number at a time *)

ReadStep(s, x) ==
    IF x = NL THEN [s EXCEPT !.skip = FALSE]
    ELSE IF x = Bad THEN [s EXCEPT !.skip = TRUE]
    ELSE IF s.skip THEN s
    ELSE [s EXCEPT !.nums = Append(@, x)]

PrintStep(s, x) ==
    LET five == Sequential!Shift(Append(s.nums, x))
    IN  [nums |-> five, printed |-> Append(s.printed, Sequential!Statistics(five))]

Base(m) == IF m = "read" THEN [skip |-> FALSE, nums |-> << >>]
                         ELSE [nums |-> << >>, printed |-> << >>]

Step(m, s, x) == IF m = "read" THEN ReadStep(s, x) ELSE PrintStep(s, x)

Folded(m, s, g, n) ==
    g = [d \in SUBSET (1..n) |-> IF d = {} THEN Base(m)
                                 ELSE Step(m, g[d \ {Most(d)}], s[Most(d)])]

(* f goes through the steps one by one. *)
Folds(m, s, f) ==
    /\ f[0] = Base(m)
    /\ \A x \in 0..(Len(s) - 1) : f[x + 1] = Step(m, f[x], s[x + 1])

(* There is a function that folds the steps over s, up to every n. *)
LEMMA FoldedExists == ASSUME NEW m, NEW s, NEW n \in Nat PROVE \E g : Folded(m, s, g, n)
<1> DEFINE T == {i \in 0..n : \E g : Folded(m, s, g, i)}
<1>1. 0 \in T
  <2> DEFINE g == [d \in {{}} |-> Base(m)]
  <2>0. SUBSET (1..0) = {{}}
    OBVIOUS
  <2>1. Folded(m, s, g, 0)
    BY <2>0 DEF Folded
  <2> QED
    BY <2>1
<1>2. ASSUME NEW i \in 0..(n - 1), i \in T PROVE i + 1 \in T
  <2>1. PICK g : Folded(m, s, g, i)
    BY <1>2
  <2> DEFINE Body(f, d) == IF d = {} THEN Base(m) ELSE Step(m, f[d \ {Most(d)}], s[Most(d)])
             h == [d \in SUBSET (1..(i + 1)) |-> Body(g, d)]
  <2>2. \A d \in SUBSET (1..i) : g[d] = Body(g, d)
    <3> DEFINE r == [d \in SUBSET (1..i) |-> Body(g, d)]
    <3>1. g = r
      BY <2>1 DEF Folded
    <3>2. \A d \in SUBSET (1..i) : r[d] = Body(g, d)
      <4> HIDE DEF Body
      <4> QED
        OBVIOUS
    <3> HIDE DEF r
    <3> QED
      BY <3>1, <3>2
  <2>3. \A d \in SUBSET (1..(i + 1)) : h[d] = Body(g, d)
    <3> HIDE DEF Body
    <3> QED
      OBVIOUS
  <2>4. h = [d \in SUBSET (1..(i + 1)) |-> h[d]]
    <3> HIDE DEF Body
    <3> QED
      OBVIOUS
  <2>5. \A d \in SUBSET (1..i) : h[d] = g[d]
    <3> HIDE DEF h, Body
    <3>1. \A d \in SUBSET (1..i) : d \in SUBSET (1..(i + 1))
      OBVIOUS
    <3> QED
      BY <2>2, <2>3, <3>1
  <2>6. \A d \in SUBSET (1..(i + 1)) : h[d] = Body(h, d)
    <3> HIDE DEF h
    <3> SUFFICES ASSUME NEW d \in SUBSET (1..(i + 1)), d # {}
                 PROVE  h[d \ {Most(d)}] = g[d \ {Most(d)}]
      BY <2>3
    <3>0. i \in Nat /\ i + 1 \in Nat
      OBVIOUS
    <3> HIDE DEF T, Body
    <3>1. Most(d) \in d /\ \A y \in d : Most(d) >= y
      BY <3>0, MostIs
    <3>2. d \ {Most(d)} \in SUBSET (1..i)
      <4>1. d \subseteq 1..(i + 1)
        OBVIOUS
      <4>2. ASSUME NEW y \in d, y # Most(d) PROVE y \in 1..i
        <5>1. y \in 1..(i + 1) /\ Most(d) \in 1..(i + 1) /\ Most(d) >= y
          BY <3>1, <4>1
        <5> QED
          BY <3>0, <4>2, <5>1
      <4> QED
        BY <4>2
    <3> QED
      BY <2>5, <3>2
  <2>7. Folded(m, s, h, i + 1)
    <3> HIDE DEF h
    <3> QED
      BY <2>4, <2>6 DEF Folded
  <2>8. i + 1 \in 0..n
    OBVIOUS
  <2> HIDE DEF h
  <2> QED
    BY <2>7, <2>8
<1>3. T = 0..n
  <2> HIDE DEF T
  <2>1. T \in SUBSET (0..n)
    BY DEF T
  <2> QED
    BY <1>1, <1>2, <2>1, FromZero
<1> QED
  BY <1>3

(* Its values at the beginnings of s are the steps one by one. *)
LEMMA FoldSteps ==
    ASSUME NEW m, NEW s, NEW n \in Nat, n = Len(s), NEW g, Folded(m, s, g, n)
    PROVE  \E f : Folds(m, s, f) /\ f[n] = g[1..n]
<1> DEFINE f == [i \in 0..n |-> g[1..i]]
<1>1. \A d \in SUBSET (1..n) : g[d] = IF d = {} THEN Base(m)
                                 ELSE Step(m, g[d \ {Most(d)}], s[Most(d)])
  <2> DEFINE r == [d \in SUBSET (1..n) |-> IF d = {} THEN Base(m)
                                 ELSE Step(m, g[d \ {Most(d)}], s[Most(d)])]
  <2>1. g = r
    BY DEF Folded
  <2>2. \A d \in SUBSET (1..n) : r[d] = IF d = {} THEN Base(m)
                                 ELSE Step(m, g[d \ {Most(d)}], s[Most(d)])
    OBVIOUS
  <2> HIDE DEF r
  <2> QED
    BY <2>1, <2>2
<1>2. f[0] = Base(m)
  <2>1. 1..0 = {} /\ {} \in SUBSET (1..n)
    OBVIOUS
  <2>2. f[0] = g[{}]
    BY <2>1
  <2> HIDE DEF f
  <2> QED
    BY <1>1, <2>1, <2>2
<1>3. ASSUME NEW i \in 0..(n - 1) PROVE f[i + 1] = Step(m, f[i], s[i + 1])
  <2>1. i \in Nat /\ i \in 0..n /\ i + 1 \in 0..n
    OBVIOUS
  <2>2. Most(1..(i + 1)) = i + 1 /\ (1..(i + 1)) \ {i + 1} = 1..i
    BY <2>1, MostOfPrefix
  <2>3. 1..(i + 1) \in SUBSET (1..n) /\ 1..(i + 1) # {}
    <3>1. \A y \in 1..(i + 1) : y \in 1..n
      OBVIOUS
    <3>2. i + 1 \in 1..(i + 1)
      BY <2>1
    <3> QED
      BY <3>1, <3>2
  <2>4. g[1..(i + 1)] = Step(m, g[1..i], s[i + 1])
    <3> DEFINE d == 1..(i + 1)
    <3> HIDE DEF d
    <3>1. g[d] = Step(m, g[d \ {Most(d)}], s[Most(d)])
      BY <1>1, <2>3 DEF d
    <3> QED
      BY <2>2, <3>1 DEF d
  <2>5. f[i + 1] = g[1..(i + 1)] /\ f[i] = g[1..i]
    BY <2>1
  <2> QED
    BY <2>4, <2>5
<1>4. f[n] = g[1..n]
  OBVIOUS
<1> HIDE DEF f
<1> QED
  BY <1>2, <1>3, <1>4 DEF Folds

(* The numbers read, and what is printed for them. *)
LEMMA NumbersAre ==
    ASSUME NEW S, NEW s \in Seq(S)
    PROVE  \E f : Folds("read", s, f) /\ Sequential!Numbers(s) = f[Len(s)].nums
<1> DEFINE n == Len(s)
           F(g) == g = [d \in SUBSET (1..n) |->
                          IF d = {} THEN [skip |-> FALSE, nums |-> << >>]
                          ELSE ReadStep(g[d \ {Most(d)}], s[Most(d)])]
           c == CHOOSE g : F(g)
<1>1. n \in Nat /\ DOMAIN s = 1..n
  OBVIOUS
<1>2. Sequential!Numbers(s) = c[1..n].nums
  <2> HIDE DEF n
  <2> QED
    BY <1>1, Zenon DEF Sequential!Numbers, Sequential!FoldLeft, Sequential!MapThenFoldSet,
                       Sequential!Max, Most, ReadStep
<1>3. \A g : F(g) <=> Folded("read", s, g, n)
  BY DEF Folded, Base, Step
<1>4. \E g : F(g)
  <2> HIDE DEF n, F
  <2> QED
    BY <1>1, <1>3, FoldedExists
<1>5. F(c)
  <2> HIDE DEF F
  <2> QED
    BY <1>4
<1> HIDE DEF F, c
<1> QED
  BY <1>1, <1>2, <1>3, <1>5, FoldSteps

(* What the one-thread program prints is where the printing steps lead. *)
LEMMA OutputIs ==
    ASSUME NEW s, NEW S, Sequential!Numbers(s) \in Seq(S)
    PROVE  \E h : /\ Folds("print", Sequential!Numbers(s), h)
                  /\ Sequential!Output(s) = h[Len(Sequential!Numbers(s))].printed
<1> DEFINE all == Sequential!Numbers(s)
           n == Len(all)
           F(g) == g = [d \in SUBSET (1..n) |->
                          IF d = {} THEN [nums |-> << >>, printed |-> << >>]
                          ELSE PrintStep(g[d \ {Most(d)}], all[Most(d)])]
           c == CHOOSE g : F(g)
<1>1. n \in Nat /\ DOMAIN all = 1..n
  OBVIOUS
<1>2. Sequential!Output(s) = c[1..n].printed
  <2> HIDE DEF n
  <2> QED
    BY <1>1, Zenon DEF Sequential!Output, Sequential!FoldLeft, Sequential!MapThenFoldSet,
                       Sequential!Max, Most, PrintStep
<1>3. \A g : F(g) <=> Folded("print", all, g, n)
  BY DEF Folded, Base, Step
<1>4. \E g : F(g)
  <2> HIDE DEF n, F
  <2> QED
    BY <1>1, <1>3, FoldedExists
<1>5. F(c)
  <2> HIDE DEF F
  <2> QED
    BY <1>4
<1> HIDE DEF F, c, all
<1> QED
  BY <1>1, <1>2, <1>3, <1>5, FoldSteps DEF all
----------------------------------------------------------------------------
(* What the steps make *)

Begins(s, t) == Len(s) <= Len(t) /\ \A k \in 1..Len(s) : t[k] = s[k]

(* The two ways to say that s is the beginning of t agree. *)
LEMMA BeginsIsPrefix ==
    ASSUME NEW S, NEW s \in Seq(S), NEW t \in Seq(S), Begins(s, t) PROVE IsPrefix(s, t)
<1> DEFINE n == Len(s)
           a == SubSeq(s, 1, n)
           b == SubSeq(t, 1, n)
<1>1. n \in Nat /\ Len(t) \in Nat /\ n <= Len(t)
  BY DEF Begins
<1>2. a \in Seq(S) /\ Len(a) = n /\ \A k \in 1..n : a[k] = s[k]
  BY <1>1, SubSeqProperties
<1>3. b \in Seq(S) /\ Len(b) = n /\ \A k \in 1..n : b[k] = t[k]
  BY <1>1, SubSeqProperties
<1>4. a = b
  <2>1. \A k \in 1..n : a[k] = b[k]
    BY <1>2, <1>3 DEF Begins
  <2> HIDE DEF a, b, n
  <2> QED
    BY <1>2, <1>3, <2>1, SeqEqual
<1> QED
  BY <1>1, <1>4 DEF IsPrefix

(* A sequence that grows at its end begins with each of its earlier *)
(* values.                                                          *)
LEMMA Growing ==
    ASSUME NEW S, NEW n \in Nat, NEW F \in [0..n -> Seq(S)],
           \A x \in 0..(n - 1) : F[x + 1] = F[x] \/ \E e \in S : F[x + 1] = Append(F[x], e)
    PROVE  \A x \in 0..n : Begins(F[x], F[n])
<1> DEFINE T == {d \in 0..n : Begins(F[n - d], F[n])}
<1>1. 0 \in T
  <2>1. Len(F[n]) \in Nat /\ n - 0 = n
    OBVIOUS
  <2> QED
    BY <2>1 DEF Begins
<1>2. ASSUME NEW d \in 0..(n - 1), d \in T PROVE d + 1 \in T
  <2> DEFINE x == n - (d + 1)
  <2>1. x \in 0..(n - 1) /\ x \in 0..n /\ x + 1 = n - d /\ x + 1 \in 0..n /\ d + 1 \in 0..n
    OBVIOUS
  <2>2. Begins(F[x + 1], F[n])
    BY <1>2, <2>1
  <2> HIDE DEF x
  <2>3. F[x] \in Seq(S) /\ Len(F[x]) \in Nat /\ Len(F[n]) \in Nat /\ n \in 0..n
    BY <2>1
  <2>4. Begins(F[x], F[x + 1])
    <3>1. CASE F[x + 1] = F[x]
      BY <2>3, <3>1 DEF Begins
    <3>2. ASSUME NEW e \in S, F[x + 1] = Append(F[x], e) PROVE Begins(F[x], F[x + 1])
      BY <2>3, <3>2, AppendProperties DEF Begins
    <3> QED
      BY <2>1, <3>1, <3>2
  <2>5. Begins(F[x], F[n])
    <3>1. Len(F[x + 1]) \in Nat
      BY <2>1
    <3> QED
      BY <2>2, <2>3, <2>4, <3>1 DEF Begins
  <2> QED
    BY <2>1, <2>5 DEF x
<1>3. T = 0..n
  <2> HIDE DEF T
  <2>1. T \in SUBSET (0..n)
    BY DEF T
  <2> QED
    BY <1>1, <1>2, <2>1, FromZero
<1>4. \A d \in T : Begins(F[n - d], F[n])
  OBVIOUS
<1> HIDE DEF T
<1> SUFFICES ASSUME NEW x \in 0..n PROVE Begins(F[x], F[n])
  OBVIOUS
<1>5. n - x \in 0..n /\ n - (n - x) = x
  OBVIOUS
<1>6. Begins(F[n - (n - x)], F[n])
  BY <1>3, <1>4, <1>5
<1> QED
  BY <1>5, <1>6

Tokens == Int \cup {NL, Bad}
ReadStates == [skip : BOOLEAN, nums : Seq(Int)]

(* What reading one token does: a newline ends the skipping, a bad token *)
(* starts it, a number is taken.                                         *)
LEMMA ReadStepIs ==
    ASSUME NEW s \in ReadStates, NEW x \in Tokens
    PROVE  /\ ReadStep(s, x) \in ReadStates
           /\ x = NL  => ~ReadStep(s, x).skip /\ ReadStep(s, x).nums = s.nums
           /\ x = Bad => ReadStep(s, x).skip /\ ReadStep(s, x).nums = s.nums
           /\ x \notin {NL, Bad} /\ s.skip => ReadStep(s, x) = s
           /\ x \notin {NL, Bad} /\ ~s.skip =>
                /\ x \in Int
                /\ ~ReadStep(s, x).skip /\ ReadStep(s, x).nums = Append(s.nums, x)
<1>1. NL # Bad
  BY NumbersAssumption
<1>2. s.skip \in BOOLEAN /\ s.nums \in Seq(Int) /\ s = [skip |-> s.skip, nums |-> s.nums]
  BY DEF ReadStates
<1>3. CASE x = NL
  BY <1>1, <1>2, <1>3 DEF ReadStep, ReadStates
<1>4. CASE x = Bad
  BY <1>1, <1>2, <1>4 DEF ReadStep, ReadStates
<1>5. CASE x \notin {NL, Bad} /\ s.skip
  BY <1>2, <1>5 DEF ReadStep, ReadStates
<1>6. CASE x \notin {NL, Bad} /\ ~s.skip
  <2>1. x \in Int /\ Append(s.nums, x) \in Seq(Int)
    BY <1>2, <1>6 DEF Tokens
  <2> QED
    BY <1>2, <1>6, <2>1 DEF ReadStep, ReadStates
<1> QED
  BY <1>3, <1>4, <1>5, <1>6

(* The reading steps keep their types. *)
LEMMA ReadTypes ==
    ASSUME NEW s \in Seq(Tokens), NEW f, Folds("read", s, f)
    PROVE  \A x \in 0..Len(s) : f[x] \in ReadStates
<1> DEFINE n == Len(s)
           T == {x \in 0..n : f[x] \in ReadStates}
<1>1. n \in Nat
  OBVIOUS
<1>2. 0 \in T
  <2>1. f[0] = [skip |-> FALSE, nums |-> << >>]
    BY DEF Folds, Base
  <2>2. [skip |-> FALSE, nums |-> << >>] \in ReadStates
    BY DEF ReadStates
  <2> QED
    BY <1>1, <2>1, <2>2
<1>3. ASSUME NEW x \in 0..(n - 1), x \in T PROVE x + 1 \in T
  <2>1. x + 1 \in 1..n /\ x + 1 \in 0..n /\ s[x + 1] \in Tokens
    BY <1>1
  <2>2. f[x + 1] = ReadStep(f[x], s[x + 1])
    BY DEF Folds, Step
  <2>3. ReadStep(f[x], s[x + 1]) \in ReadStates
    BY <1>3, <2>1, ReadStepIs
  <2> QED
    BY <2>1, <2>2, <2>3
<1>4. T = 0..n
  <2> HIDE DEF T, n
  <2>1. T \in SUBSET (0..n)
    BY DEF T
  <2> QED
    BY <1>1, <1>2, <1>3, <2>1, FromZero
<1> QED
  BY <1>4

(* The numbers read after x tokens are the first of those read in the end. *)
LEMMA ReadGrows ==
    ASSUME NEW s \in Seq(Tokens), NEW f, Folds("read", s, f)
    PROVE  \A x \in 0..Len(s) : Begins(f[x].nums, f[Len(s)].nums)
<1> DEFINE n == Len(s)
           F == [x \in 0..n |-> f[x].nums]
<1>1. n \in Nat /\ \A x \in 0..n : f[x] \in ReadStates
  BY ReadTypes
<1>2. F \in [0..n -> Seq(Int)]
  BY <1>1 DEF ReadStates
<1>3. ASSUME NEW x \in 0..(n - 1)
      PROVE  F[x + 1] = F[x] \/ \E e \in Int : F[x + 1] = Append(F[x], e)
  <2>1. x \in 0..n /\ x + 1 \in 1..n /\ x + 1 \in 0..n /\ s[x + 1] \in Tokens
    BY <1>1
  <2>2. f[x + 1] = ReadStep(f[x], s[x + 1])
    BY DEF Folds, Step
  <2>3. F[x + 1] = ReadStep(f[x], s[x + 1]).nums /\ F[x] = f[x].nums
    BY <2>1, <2>2
  <2>4. f[x] \in ReadStates
    BY <1>1, <2>1
  <2> HIDE DEF F, n
  <2> DEFINE a == f[x]
             b == s[x + 1]
  <2>5. a \in ReadStates /\ b \in Tokens
    BY <2>1, <2>4
  <2> HIDE DEF a, b
  <2>6. ReadStep(a, b).nums = a.nums \/ \E e \in Int : ReadStep(a, b).nums = Append(a.nums, e)
    <3>1. CASE b \in {NL, Bad}
      BY <2>5, <3>1, ReadStepIs
    <3>2. CASE b \notin {NL, Bad} /\ a.skip
      <4>1. ReadStep(a, b) = a
        BY <2>5, <3>2 DEF ReadStep
      <4> QED
        BY <4>1
    <3>3. CASE b \notin {NL, Bad} /\ ~a.skip
      BY <2>5, <3>3, ReadStepIs
    <3> QED
      BY <3>1, <3>2, <3>3
  <2> QED
    BY <2>3, <2>6 DEF a, b
<1>4. \A x \in 0..n : Begins(F[x], F[n])
  <2> HIDE DEF F, n
  <2> QED
    BY <1>1, <1>2, <1>3, Growing
<1>5. n \in 0..n
  BY <1>1
<1> QED
  BY <1>4, <1>5

Blocks == {Sequential!Statistics(s) : s \in Seq(Int)}
PrintStates == [nums : {s \in Seq(Int) : Len(s) <= Sequential!Window}, printed : Seq(Blocks)]

(* What one number does: it joins the last five, and a block is printed. *)
LEMMA PrintStepIs ==
    ASSUME NEW s \in PrintStates, NEW x \in Int
    PROVE  /\ PrintStep(s, x) \in PrintStates
           /\ PrintStep(s, x).nums = Sequential!Shift(Append(s.nums, x))
           /\ \E e \in Blocks : PrintStep(s, x).printed = Append(s.printed, e)
<1> DEFINE five == Sequential!Shift(Append(s.nums, x))
           e == Sequential!Statistics(five)
<1>1. s.nums \in Seq(Int) /\ Len(s.nums) \in Nat /\ Len(s.nums) <= 5 /\ s.printed \in Seq(Blocks)
  BY DEF PrintStates, Sequential!Window
<1>2. five \in Seq(Int) /\ Len(five) <= 5
  <2> DEFINE more == Append(s.nums, x)
  <2>1. more \in Seq(Int) /\ Len(more) = Len(s.nums) + 1
    BY <1>1
  <2> HIDE DEF more
  <2>2. Len(more) > 5 => /\ Tail(more) \in Seq(Int)
                         /\ Len(Tail(more)) = Len(more) - 1
    <3>1. Len(more) > 5 => more # << >>
      BY <2>1, EmptySeq
    <3> QED
      BY <2>1, <3>1, HeadTailProperties
  <2>3. five = IF Len(more) > 5 THEN Tail(more) ELSE more
    BY DEF more, Sequential!Shift, Sequential!Window
  <2> HIDE DEF five
  <2> QED
    BY <1>1, <2>1, <2>2, <2>3
<1> HIDE DEF five
<1>3. e \in Blocks /\ Append(s.printed, e) \in Seq(Blocks)
  <2>1. e \in Blocks
    BY <1>2 DEF Blocks
  <2> HIDE DEF e
  <2> QED
    BY <1>1, <2>1
<1>4. PrintStep(s, x) = [nums |-> five, printed |-> Append(s.printed, e)]
  BY DEF PrintStep, five
<1> HIDE DEF e
<1>5. PrintStep(s, x) \in PrintStates
  BY <1>2, <1>3, <1>4 DEF PrintStates, Sequential!Window
<1>6. PrintStep(s, x).nums = five /\ PrintStep(s, x).printed = Append(s.printed, e)
  BY <1>4
<1> QED
  BY <1>3, <1>5, <1>6 DEF five

(* The printing steps keep their types and print a block for each number. *)
LEMMA PrintTypes ==
    ASSUME NEW s \in Seq(Int), NEW h, Folds("print", s, h)
    PROVE  \A x \in 0..Len(s) : h[x] \in PrintStates /\ Len(h[x].printed) = x
<1> DEFINE n == Len(s)
           T == {x \in 0..n : h[x] \in PrintStates /\ Len(h[x].printed) = x}
<1>1. n \in Nat
  OBVIOUS
<1>2. 0 \in T
  <2>1. << >> \in Seq(Int) /\ << >> \in Seq(Blocks) /\ Len(<< >>) = 0
    OBVIOUS
  <2>2. h[0] = [nums |-> << >>, printed |-> << >>]
    BY DEF Folds, Base
  <2>3. [nums |-> << >>, printed |-> << >>] \in PrintStates
    BY <2>1 DEF PrintStates, Sequential!Window
  <2>4. h[0].printed = << >>
    BY <2>2
  <2> QED
    BY <1>1, <2>1, <2>2, <2>3, <2>4
<1>3. ASSUME NEW x \in 0..(n - 1), x \in T PROVE x + 1 \in T
  <2>1. x + 1 \in 1..n /\ x + 1 \in 0..n /\ s[x + 1] \in Int
    BY <1>1
  <2>2. h[x + 1] = PrintStep(h[x], s[x + 1])
    BY DEF Folds, Step
  <2>3. h[x].printed \in Seq(Blocks) /\ Len(h[x].printed) = x
    BY <1>3 DEF PrintStates
  <2>4. h[x + 1] \in PrintStates
    BY <1>3, <2>1, <2>2, PrintStepIs
  <2>0. \E e \in Blocks : PrintStep(h[x], s[x + 1]).printed = Append(h[x].printed, e)
    <3> HIDE DEF n
    <3> QED
      BY <1>3, <2>1, PrintStepIs
  <2>5. PICK e \in Blocks : h[x + 1].printed = Append(h[x].printed, e)
    BY <2>0, <2>2
  <2>6. Len(h[x + 1].printed) = x + 1
    BY <2>3, <2>5
  <2> QED
    BY <2>1, <2>4, <2>6
<1>4. T = 0..n
  <2> HIDE DEF T, n
  <2>1. T \in SUBSET (0..n)
    BY DEF T
  <2> QED
    BY <1>1, <1>2, <1>3, <2>1, FromZero
<1> QED
  BY <1>4

(* What is printed after x numbers is the beginning of what is printed in *)
(* the end.                                                               *)
LEMMA PrintGrows ==
    ASSUME NEW s \in Seq(Int), NEW h, Folds("print", s, h)
    PROVE  \A x \in 0..Len(s) : Begins(h[x].printed, h[Len(s)].printed)
<1> DEFINE n == Len(s)
           F == [x \in 0..n |-> h[x].printed]
<1>1. n \in Nat /\ \A x \in 0..n : h[x] \in PrintStates
  BY PrintTypes
<1>2. F \in [0..n -> Seq(Blocks)]
  BY <1>1 DEF PrintStates
<1>3. ASSUME NEW x \in 0..(n - 1)
      PROVE  F[x + 1] = F[x] \/ \E e \in Blocks : F[x + 1] = Append(F[x], e)
  <2>1. x \in 0..n /\ x + 1 \in 1..n /\ x + 1 \in 0..n /\ s[x + 1] \in Int
    BY <1>1
  <2>2. h[x + 1] = PrintStep(h[x], s[x + 1])
    BY DEF Folds, Step
  <2>3. F[x + 1] = PrintStep(h[x], s[x + 1]).printed /\ F[x] = h[x].printed
    BY <2>1, <2>2
  <2> HIDE DEF F, n
  <2> QED
    BY <1>1, <2>1, <2>3, PrintStepIs
<1>4. \A x \in 0..n : Begins(F[x], F[n])
  <2> HIDE DEF F, n
  <2> QED
    BY <1>1, <1>2, <1>3, Growing
<1>5. n \in 0..n
  BY <1>1
<1> QED
  BY <1>4, <1>5
----------------------------------------------------------------------------
(* The queue the two threads share *)

(* What DoubleQueue assumes of its constants holds of these two threads. *)
LEMMA QueueAssumptionHolds ==
    /\ Calls \subseteq Threads \X QP!Operations
    /\ QP!IsFiniteSet(Nodes) /\ NULL \notin Nodes /\ Nobody \notin Threads
<1>1. Calls \subseteq Threads \X QP!Operations
  BY DEF QP!Operations, Calls, Threads
<1>2. IsFiniteSet(Nodes) /\ NULL \notin Nodes /\ Nobody \notin Threads
  BY NumbersAssumption DEF Threads
<1>3. QP!IsFiniteSet(Nodes)
  BY <1>2, Zenon DEF IsFiniteSet, QP!IsFiniteSet
<1> QED
  BY <1>1, <1>2, <1>3

(* An input is a finite sequence of tokens, whose numbers are values of *)
(* the queue.                                                           *)
LEMMA InputsAre ==
    ASSUME NEW s \in Inputs
    PROVE  /\ s \in Seq(Tokens) /\ Len(s) \in Nat
           /\ \A k \in 1..Len(s) : s[k] \in Tokens
           /\ \A k \in 1..Len(s) : s[k] \notin {NL, Bad} => s[k] \in Values /\ s[k] \in Int
<1>1. s \in Seq(Tokens)
  BY NumbersAssumption DEF Tokens
<1>2. Len(s) \in Nat /\ DOMAIN s = 1..Len(s) /\ \A k \in 1..Len(s) : s[k] \in Tokens
  BY <1>1
<1>3. ASSUME NEW k \in 1..Len(s), s[k] \notin {NL, Bad} PROVE s[k] \in Values /\ s[k] \in Int
  <2>1. s[k] \in {s[j] : j \in DOMAIN s}
    BY <1>2
  <2>2. s[k] \in UNION {{r[j] : j \in DOMAIN r} : r \in Inputs}
    BY <2>1, Zenon
  <2>3. s[k] \in Tokens
    BY <1>2
  <2>4. s[k] \in Values
    BY <1>3, <2>2, Zenon DEF Values
  <2> QED
    BY <1>3, <2>3, <2>4 DEF Tokens
<1> QED
  BY <1>1, <1>2, <1>3

(* The queue's steps are the same under both names. *)
LEMMA SameSteps ==
    ASSUME NEW t
    PROVE  /\ Queue!LockStep(t) <=> QP!LockStep(t)
           /\ Queue!InsideStep(t) <=> QP!InsideStep(t)
           /\ Queue!Unlock(t) <=> QP!Unlock(t)
           /\ Queue!CallRemove(t) <=> QP!CallRemove(t)
           /\ \A v : Queue!CallAdd(t, v) <=> QP!CallAdd(t, v)
<1>1. Queue!LockStep(t) <=> QP!LockStep(t)
  BY DEF Queue!LockStep, QP!LockStep, Queue!Lock, QP!Lock, Queue!Relock, QP!Relock,
    Queue!Goto, QP!Goto, Queue!fields, QP!fields, Queue!heap, QP!heap, Queue!frame, QP!frame
<1>2. Queue!Unlock(t) <=> QP!Unlock(t)
  BY DEF Queue!Unlock, QP!Unlock, Queue!Goto, QP!Goto, Queue!Leave, QP!Leave,
    Queue!fields, QP!fields, Queue!heap, QP!heap
<1>3. Queue!AddLink(t) <=> QP!AddLink(t)
  BY DEF Queue!AddLink, QP!AddLink, Queue!LinkFirst, QP!LinkFirst, Queue!LinkLast,
    QP!LinkLast, Queue!Signal, QP!Signal, Queue!Sleepers, QP!Sleepers,
    Queue!Goto, QP!Goto, Queue!frame, QP!frame
<1>4. Queue!AddCount(t) <=> QP!AddCount(t)
  BY DEF Queue!AddCount, QP!AddCount, Queue!Goto, QP!Goto, Queue!heap, QP!heap,
    Queue!frame, QP!frame
<1>5. Queue!RemoveEmpty(t) <=> QP!RemoveEmpty(t)
  BY DEF Queue!RemoveEmpty, QP!RemoveEmpty, Queue!Goto, QP!Goto, Queue!fields, QP!fields,
    Queue!heap, QP!heap, Queue!frame, QP!frame
<1>6. Queue!Take(t) <=> QP!Take(t)
  BY DEF Queue!Take, QP!Take, Queue!Goto, QP!Goto
<1>7. Queue!RemoveCount(t) <=> QP!RemoveCount(t)
  BY DEF Queue!RemoveCount, QP!RemoveCount, Queue!Goto, QP!Goto, Queue!heap, QP!heap,
    Queue!frame, QP!frame
<1>8. Queue!CondWait(t) <=> QP!CondWait(t)
  BY DEF Queue!CondWait, QP!CondWait, Queue!Goto, QP!Goto, Queue!fields, QP!fields,
    Queue!heap, QP!heap, Queue!frame, QP!frame
<1>9. Queue!ReadLength(t) <=> QP!ReadLength(t)
  BY DEF Queue!ReadLength, QP!ReadLength, Queue!Goto, QP!Goto, Queue!fields, QP!fields,
    Queue!heap, QP!heap
<1>10. Queue!ReturnLength(t) <=> QP!ReturnLength(t)
  BY DEF Queue!ReturnLength, QP!ReturnLength, Queue!Goto, QP!Goto, Queue!Leave, QP!Leave,
    Queue!fields, QP!fields, Queue!heap, QP!heap
<1>11. Queue!CallRemove(t) <=> QP!CallRemove(t)
  BY DEF Queue!CallRemove, QP!CallRemove, Queue!Enter, QP!Enter, Queue!Goto, QP!Goto,
    Queue!fields, QP!fields, Queue!heap, QP!heap
<1>12. ASSUME NEW v PROVE Queue!CallAdd(t, v) <=> QP!CallAdd(t, v)
  <2>1. Queue!HeapRoom <=> QP!HeapRoom
    BY Zenon DEF Queue!HeapRoom, QP!HeapRoom, Queue!Cardinality, QP!Cardinality
  <2> QED
    BY <2>1 DEF Queue!CallAdd, QP!CallAdd, Queue!Enter, QP!Enter,
      Queue!Goto, QP!Goto, Queue!fields, QP!fields, Queue!heap, QP!heap
<1>13. Queue!InsideStep(t) <=> QP!InsideStep(t)
  BY <1>2, <1>3, <1>4, <1>5, <1>6, <1>7, <1>8, <1>9, <1>10 DEF Queue!InsideStep, QP!InsideStep
<1> QED
  BY <1>1, <1>2, <1>11, <1>12, <1>13

(* So are its first state, its types, its contents and its stuttering. *)
LEMMA SameQueue ==
    /\ Queue!Init => QP!Init
    /\ Queue!Destructor <=> QP!Destructor
    /\ Queue!TypeOK <=> QP!TypeOK
    /\ Queue!Contents = QP!Contents
    /\ UNCHANGED qvars <=> UNCHANGED QP!vars
<1>1. Queue!Init => QP!Init
  BY DEF Queue!Init, QP!Init
<1>2. Queue!Destructor <=> QP!Destructor
  BY DEF Queue!Destructor, QP!Destructor, Queue!Destroy, QP!Destroy, Queue!FreeNode,
    QP!FreeNode, Queue!Reset, QP!Reset, Queue!fields, QP!fields, Queue!heap, QP!heap,
    Queue!frame, QP!frame
<1>3. Queue!TypeOK <=> QP!TypeOK
  BY DEF Queue!TypeOK, QP!TypeOK, Queue!Operations, QP!Operations
<1>4. Queue!Contents = QP!Contents
  BY DEF Queue!Contents, QP!Contents, Queue!InFlight, QP!InFlight, Queue!Linked, QP!Linked
<1>5. UNCHANGED qvars <=> UNCHANGED QP!vars
  BY DEF qvars, QP!vars, QP!fields, QP!heap, QP!frame
<1> QED
  BY <1>1, <1>2, <1>3, <1>4, <1>5

----------------------------------------------------------------------------
(* What each step of a program does with the queue *)

QueueInv == QP!IInv /\ QP!Results

Moves(t, from, to) == pc[t] = from /\ pc'[t] = to

(* The other thread is left where it is. *)
Spares(u) ==
    /\ pc'[u] = pc[u] /\ arg'[u] = arg[u] /\ ret'[u] = ret[u]
    /\ dtor' = dtor

(* There are two threads, and nobody is neither. *)
LEMMA ThreadsAre ==
    /\ Reader # Printer /\ Reader \in Threads /\ Printer \in Threads
    /\ Nobody \notin Threads
    /\ \A t \in Threads : t = Reader \/ t = Printer
BY NumbersAssumption DEF Threads

(* The reader only adds and the printer only takes, from the queue's *)
(* invariant.                                                        *)
LEMMA PlacesAre ==
    ASSUME QP!IInv
    PROVE  /\ pc[Reader] # "idle" => op[Reader] = "add" /\ arg[Reader] \in Values
           /\ pc[Printer] # "idle" => op[Printer] = "remove"
           /\ \A t \in Threads : pc[t] \in {"idle", "lock", "locked", "count", "unlock"}
<1>1. /\ pc[Reader] # "idle" => op[Reader] = "add"
      /\ pc[Printer] # "idle" => op[Printer] = "remove"
  BY ThreadsAre DEF QP!IInv, QP!Places, Calls
<1>2. op[Reader] = "add" => arg[Reader] \in Values
  BY ThreadsAre DEF QP!IInv, QP!Places
<1>3. ASSUME NEW t \in Threads PROVE pc[t] \in {"idle", "lock", "locked", "count", "unlock"}
  <2>1. pc[t] \in {"idle", "lock", "locked", "count", "unlock", "asleep", "relock",
                   "read", "return"}
    BY DEF QP!IInv, QP!TypeOK
  <2>2. pc[t] \notin {"asleep", "relock", "read", "return"}
    BY <1>1, ThreadsAre DEF QP!IInv, QP!Places
  <2> QED
    BY <2>1, <2>2
<1> QED
  BY <1>1, <1>2, <1>3

(* DoubleQueue's theorem on the instants at which a call takes effect. *)
LEMMA Effects ==
    ASSUME QueueInv, QueueInv', NEW t \in Threads
    PROVE  /\ QP!Call(t) \/ QP!LockStep(t) => QP!Contents' = QP!Contents
           /\ QP!InsideStep(t) /\ ~QP!AddCount(t) /\ ~QP!RemoveCount(t) => QP!Contents' = QP!Contents
           /\ QP!AddCount(t) => QP!Contents' = Append(QP!Contents, arg[t])
           /\ QP!RemoveCount(t) => /\ QP!Contents # << >> /\ ret[t] = Head(QP!Contents)
                               /\ QP!Contents' = Tail(QP!Contents)
<1>1. QP!IInv /\ QP!IInv' /\ QP!Results
  BY DEF QueueInv
<1> QED
  BY <1>1, QueueAssumptionHolds, QP!CallsTakeEffect

(* A call that starts spares the other thread and the queue's contents. *)
LEMMA CallSteps ==
    ASSUME QueueInv, QueueInv'
    PROVE  /\ \A v \in Values : QP!CallAdd(Reader, v) =>
                /\ Moves(Reader, "idle", "lock") /\ arg'[Reader] = v
                /\ Spares(Printer) /\ QP!Contents' = QP!Contents
           /\ QP!CallRemove(Printer) =>
                /\ Moves(Printer, "idle", "lock")
                /\ Spares(Reader) /\ QP!Contents' = QP!Contents
<1>0. /\ pc \in [Threads -> {"idle", "lock", "locked", "count", "unlock", "asleep", "relock",
                             "read", "return"}]
      /\ arg \in [Threads -> Values \cup {None}]
  BY DEF QueueInv, QP!IInv, QP!TypeOK
<1>1. ASSUME NEW v \in Values, QP!CallAdd(Reader, v)
      PROVE  /\ Moves(Reader, "idle", "lock") /\ arg'[Reader] = v
             /\ Spares(Printer) /\ QP!Contents' = QP!Contents
  <2>1. Moves(Reader, "idle", "lock") /\ arg'[Reader] = v /\ Spares(Printer)
    BY <1>0, <1>1, ThreadsAre DEF QP!CallAdd, QP!Enter, QP!Goto, Moves, Spares
  <2>2. QP!Call(Reader)
    BY <1>1 DEF QP!Call
  <2> QED
    BY <2>1, <2>2, ThreadsAre, Effects
<1>2. ASSUME QP!CallRemove(Printer)
      PROVE  /\ Moves(Printer, "idle", "lock")
             /\ Spares(Reader) /\ QP!Contents' = QP!Contents
  <2>1. Moves(Printer, "idle", "lock") /\ Spares(Reader)
    BY <1>0, <1>2, ThreadsAre DEF QP!CallRemove, QP!Enter, QP!Goto, Moves, Spares
  <2>2. QP!Call(Printer)
    BY <1>2 DEF QP!Call
  <2> QED
    BY <2>1, <2>2, ThreadsAre, Effects
<1> QED
  BY <1>1, <1>2

(* A step of the reader's Add: only counting makes the value part of the *)
(* contents.                                                             *)
LEMMA AddSteps ==
    ASSUME QueueInv, QueueInv', QP!InsideStep(Reader) \/ QP!LockStep(Reader)
    PROVE  /\ Spares(Printer)
           /\ \/ /\ Moves(Reader, "lock", "locked") \/ Moves(Reader, "locked", "count")
                 /\ arg'[Reader] = arg[Reader] /\ QP!Contents' = QP!Contents
              \/ /\ Moves(Reader, "count", "unlock")
                 /\ QP!Contents' = Append(QP!Contents, arg[Reader])
              \/ /\ Moves(Reader, "unlock", "idle") /\ QP!Unlock(Reader)
                 /\ QP!Contents' = QP!Contents
<1>0. /\ pc \in [Threads -> {"idle", "lock", "locked", "count", "unlock", "asleep", "relock",
                             "read", "return"}]
      /\ arg \in [Threads -> Values \cup {None}]
      /\ op \in [Threads -> QP!Operations \cup {"none"}]
      /\ ret \in [Threads -> Values \cup {None} \cup Int]
  BY DEF QueueInv, QP!IInv, QP!TypeOK
<1>1. /\ pc[Reader] # "idle" => op[Reader] = "add"
      /\ \A t \in Threads : pc[t] \in {"idle", "lock", "locked", "count", "unlock"}
  BY PlacesAre DEF QueueInv
<1>2. CASE QP!LockStep(Reader)
  <2>1. QP!Lock(Reader)
    BY <1>1, <1>2, ThreadsAre DEF QP!LockStep, QP!Relock
  <2>2. Moves(Reader, "lock", "locked") /\ arg'[Reader] = arg[Reader] /\ Spares(Printer)
    BY <1>0, <2>1, ThreadsAre DEF QP!Lock, QP!Goto, QP!frame, Moves, Spares
  <2> QED
    BY <1>2, <2>2, ThreadsAre, Effects
<1>3. CASE QP!Unlock(Reader)
  <2>1. Moves(Reader, "unlock", "idle") /\ Spares(Printer)
    BY <1>0, <1>3, ThreadsAre DEF QP!Unlock, QP!Goto, QP!Leave, Moves, Spares
  <2>2. QP!InsideStep(Reader) /\ ~QP!AddCount(Reader) /\ ~QP!RemoveCount(Reader)
    BY <1>3 DEF QP!InsideStep, QP!Unlock, QP!AddCount, QP!RemoveCount
  <2> QED
    BY <1>3, <2>1, <2>2, ThreadsAre, Effects
<1>4. CASE QP!AddLink(Reader)
  <2>1. QP!Sleepers = {}
    BY <1>1 DEF QP!Sleepers
  <2>2. pc[Reader] = "locked" /\ pc' = [pc EXCEPT ![Reader] = "count"]
    BY <1>4, <2>1 DEF QP!AddLink, QP!LinkFirst, QP!LinkLast, QP!Signal, QP!Goto
  <2>3. UNCHANGED <<op, arg, ret, dtor>>
    BY <1>4 DEF QP!AddLink, QP!frame
  <2>4. Moves(Reader, "locked", "count") /\ arg'[Reader] = arg[Reader] /\ Spares(Printer)
    BY <1>0, <2>2, <2>3, ThreadsAre DEF Moves, Spares
  <2>5. QP!InsideStep(Reader) /\ ~QP!AddCount(Reader) /\ ~QP!RemoveCount(Reader)
    BY <1>4 DEF QP!InsideStep, QP!AddLink, QP!AddCount, QP!RemoveCount
  <2> QED
    BY <2>4, <2>5, ThreadsAre, Effects
<1>5. CASE QP!AddCount(Reader)
  <2>1. Moves(Reader, "count", "unlock") /\ Spares(Printer)
    BY <1>0, <1>5, ThreadsAre DEF QP!AddCount, QP!Goto, QP!frame, Moves, Spares
  <2> QED
    BY <1>5, <2>1, ThreadsAre, Effects
<1>6. ~QP!RemoveEmpty(Reader) /\ ~QP!Take(Reader) /\ ~QP!RemoveCount(Reader)
  BY <1>1 DEF QP!RemoveEmpty, QP!Take, QP!RemoveCount
<1>7. ~QP!CondWait(Reader) /\ ~QP!ReadLength(Reader) /\ ~QP!ReturnLength(Reader)
  BY <1>1, ThreadsAre DEF QP!CondWait, QP!ReadLength, QP!ReturnLength
<1> QED
  BY <1>2, <1>3, <1>4, <1>5, <1>6, <1>7 DEF QP!InsideStep

(* A step of the printer's Remove: it finds nothing, or takes the first of *)
(* the contents.                                                           *)
LEMMA RemoveSteps ==
    ASSUME QueueInv, QueueInv', QP!InsideStep(Printer) \/ QP!LockStep(Printer)
    PROVE  /\ Spares(Reader)
           /\ \/ /\ Moves(Printer, "lock", "locked") \/ Moves(Printer, "locked", "count")
                 /\ QP!Contents' = QP!Contents
              \/ /\ Moves(Printer, "locked", "unlock") /\ ret'[Printer] = None
                 /\ QP!Contents' = QP!Contents
              \/ /\ Moves(Printer, "count", "unlock") /\ ret'[Printer] = ret[Printer]
                 /\ QP!Contents # << >> /\ ret[Printer] = Head(QP!Contents)
                 /\ QP!Contents' = Tail(QP!Contents)
              \/ /\ Moves(Printer, "unlock", "idle")
                 /\ QP!Contents' = QP!Contents
<1>0. /\ pc \in [Threads -> {"idle", "lock", "locked", "count", "unlock", "asleep", "relock",
                             "read", "return"}]
      /\ arg \in [Threads -> Values \cup {None}]
      /\ op \in [Threads -> QP!Operations \cup {"none"}]
      /\ ret \in [Threads -> Values \cup {None} \cup Int]
  BY DEF QueueInv, QP!IInv, QP!TypeOK
<1>1. /\ pc[Printer] # "idle" => op[Printer] = "remove"
      /\ \A t \in Threads : pc[t] \in {"idle", "lock", "locked", "count", "unlock"}
  BY PlacesAre DEF QueueInv
<1>2. CASE QP!LockStep(Printer)
  <2>1. QP!Lock(Printer)
    BY <1>1, <1>2, ThreadsAre DEF QP!LockStep, QP!Relock
  <2>2. Moves(Printer, "lock", "locked") /\ Spares(Reader)
    BY <1>0, <2>1, ThreadsAre DEF QP!Lock, QP!Goto, QP!frame, Moves, Spares
  <2> QED
    BY <1>2, <2>2, ThreadsAre, Effects
<1>3. CASE QP!Unlock(Printer)
  <2>1. Moves(Printer, "unlock", "idle") /\ Spares(Reader)
    BY <1>0, <1>3, ThreadsAre DEF QP!Unlock, QP!Goto, QP!Leave, Moves, Spares
  <2>2. QP!InsideStep(Printer) /\ ~QP!AddCount(Printer) /\ ~QP!RemoveCount(Printer)
    BY <1>3 DEF QP!InsideStep, QP!Unlock, QP!AddCount, QP!RemoveCount
  <2> QED
    BY <2>1, <2>2, ThreadsAre, Effects
<1>4. CASE QP!RemoveEmpty(Printer)
  <2>1. ret[Printer] = None
    BY <1>4, ThreadsAre DEF QueueInv, QP!Results, QP!RemoveEmpty
  <2>2. Moves(Printer, "locked", "unlock") /\ ret'[Printer] = None /\ Spares(Reader)
    BY <1>0, <1>4, <2>1, ThreadsAre DEF QP!RemoveEmpty, QP!Goto, QP!frame, Moves, Spares
  <2>3. QP!InsideStep(Printer) /\ ~QP!AddCount(Printer) /\ ~QP!RemoveCount(Printer)
    BY <1>4 DEF QP!InsideStep, QP!RemoveEmpty, QP!AddCount, QP!RemoveCount
  <2> QED
    BY <2>2, <2>3, ThreadsAre, Effects
<1>5. CASE QP!Take(Printer)
  <2>1. Moves(Printer, "locked", "count") /\ Spares(Reader)
    BY <1>0, <1>5, ThreadsAre DEF QP!Take, QP!Goto, Moves, Spares
  <2>2. QP!InsideStep(Printer) /\ ~QP!AddCount(Printer) /\ ~QP!RemoveCount(Printer)
    BY <1>5 DEF QP!InsideStep, QP!Take, QP!AddCount, QP!RemoveCount
  <2> QED
    BY <2>1, <2>2, ThreadsAre, Effects
<1>6. CASE QP!RemoveCount(Printer)
  <2>1. Moves(Printer, "count", "unlock") /\ ret'[Printer] = ret[Printer] /\ Spares(Reader)
    BY <1>0, <1>6, ThreadsAre DEF QP!RemoveCount, QP!Goto, QP!frame, Moves, Spares
  <2> QED
    BY <1>6, <2>1, ThreadsAre, Effects
<1>7. ~QP!AddLink(Printer) /\ ~QP!AddCount(Printer)
  BY <1>1 DEF QP!AddLink, QP!AddCount
<1>8. ~QP!CondWait(Printer) /\ ~QP!ReadLength(Printer) /\ ~QP!ReturnLength(Printer)
  BY <1>1, ThreadsAre DEF QP!CondWait, QP!ReadLength, QP!ReturnLength
<1> QED
  BY <1>2, <1>3, <1>4, <1>5, <1>6, <1>7, <1>8 DEF QP!InsideStep

(* The queue's destructor changes no thread's call. *)
LEMMA DestructorSteps ==
    ASSUME QP!Destructor
    PROVE  UNCHANGED <<pc, arg, ret>> /\ dtor' # "live"
BY DEF QP!Destructor, QP!Destroy, QP!FreeNode, QP!Reset, QP!frame

----------------------------------------------------------------------------
(* Where the threads and main are *)

Where ==
    /\ stdin \in Inputs /\ at \in 1..(Len(stdin) + 1)
    /\ rpc \in {"read", "ignore", "adding", "sleep", "eof", "set", "exited"}
    /\ ppc \in {"remove", "removing", "check", "checking", "exited"}
    /\ mpc \in {"join reader", "join printer", "delete", "exited"}
    /\ is_EOF \in BOOLEAN
    /\ eof_lock \in {Nobody, Reader, Printer}

(* A thread is inside a call exactly while it waits for it, holds eof_lock *)
(* exactly in its critical section, and is joined before main goes on.     *)
Stages ==
    /\ rpc = "adding" <=> pc[Reader] # "idle"
    /\ ppc = "removing" <=> pc[Printer] # "idle"
    /\ eof_lock = Reader <=> rpc = "set"
    /\ eof_lock = Printer <=> ppc = "checking"
    /\ rpc \in {"eof", "set", "exited"} => at = Len(stdin) + 1
    /\ mpc # "join reader" => rpc = "exited"
    /\ mpc \in {"delete", "exited"} => ppc = "exited"
    /\ dtor # "live" => mpc \in {"delete", "exited"}

(* At first both threads are at their start and the queue is empty. *)
LEMMA InitParts ==
    ASSUME NInit
    PROVE  QueueInv /\ Where /\ Stages
<1>1. QP!Init
  BY SameQueue DEF NInit
<1>2. QueueInv
  BY <1>1, QueueAssumptionHolds, QP!InitInv, QP!EmptyAtFirst DEF QueueInv
<1>3. pc[Reader] = "idle" /\ pc[Printer] = "idle" /\ dtor = "live"
  BY <1>1, ThreadsAre DEF QP!Init
<1>4. Where
  <2> DEFINE n == Len(stdin)
  <2>1. n \in Nat
    BY InputsAre DEF NInit
  <2>2. 1 \in 1..(n + 1)
    <3> HIDE DEF n
    <3> QED
      BY <2>1
  <2> QED
    BY <2>2 DEF NInit, Where
<1>5. Stages
  BY <1>3, NumbersAssumption DEF NInit, Stages
<1> QED
  BY <1>2, <1>4, <1>5

(* Before its end the input has a token where the reader is. *)
LEMMA TokenIs ==
    ASSUME Where, ~AtEnd
    PROVE  /\ at \in 1..Len(stdin) /\ Len(stdin) \in Nat /\ Token \in Tokens
           /\ at + 1 \in 1..(Len(stdin) + 1)
           /\ Token \notin {NL, Bad} => Token \in Values /\ Token \in Int
<1>1. Len(stdin) \in Nat
  BY InputsAre DEF Where
<1>2. at \in 1..Len(stdin) /\ at + 1 \in 1..(Len(stdin) + 1)
  <2> DEFINE n == Len(stdin)
  <2>1. n \in Nat /\ at \in 1..(n + 1) /\ ~(at > n)
    BY <1>1 DEF Where, AtEnd
  <2> HIDE DEF n
  <2>2. at \in 1..n /\ at + 1 \in 1..(n + 1)
    BY <2>1
  <2> QED
    BY <2>2 DEF n
<1> QED
  BY <1>1, <1>2, InputsAre DEF Where, Token

(* Every step of the program is one of the queue, or none. *)
LEMMA QueueMoves ==
    ASSUME QueueInv, Where, [NNext]_nvars
    PROVE  QueueInv'
<1>1. [QP!Next]_(QP!vars)
  <2>1. CASE ReadNumber
    <3>1. Token \in Values /\ QP!CallAdd(Reader, Token)
      BY <2>1, TokenIs, SameSteps DEF ReadNumber
    <3>2. QP!Call(Reader)
      BY <3>1 DEF QP!Call
    <3> QED
      BY <3>2, ThreadsAre DEF QP!Next
  <2>2. CASE AddStep
    <3>1. QP!InsideStep(Reader) \/ QP!LockStep(Reader)
      BY <2>2, SameSteps DEF AddStep
    <3> QED
      BY <3>1, ThreadsAre DEF QP!Next
  <2>3. CASE CallRemove
    <3>1. QP!Call(Printer)
      BY <2>3, SameSteps DEF CallRemove, QP!Call
    <3> QED
      BY <3>1, ThreadsAre DEF QP!Next
  <2>4. CASE RemoveStep \/ RemoveFails \/ PrintNumber
    <3>1. QP!InsideStep(Printer) \/ QP!LockStep(Printer)
      BY <2>4, SameSteps DEF RemoveStep, RemoveFails, PrintNumber, QP!InsideStep
    <3> QED
      BY <3>1, ThreadsAre DEF QP!Next
  <2>5. CASE DeleteQueue
    <3>1. QP!Destructor
      BY <2>5, SameQueue DEF DeleteQueue
    <3> QED
      BY <3>1 DEF QP!Next
  <2>6. ASSUME UNCHANGED qvars PROVE UNCHANGED QP!vars
    BY <2>6, SameQueue
  <2>7. CASE \/ SkipNewline \/ ReadFails \/ IgnoreLine \/ ReadEof
             \/ WakeUp \/ ReaderLocks \/ SetEofAndExit
    BY <2>6, <2>7 DEF SkipNewline, ReadFails, IgnoreLine, ReadEof, WakeUp, ReaderLocks,
       SetEofAndExit
  <2>8. CASE PrinterLocks \/ CheckEof \/ JoinReader \/ JoinPrinter \/ NFinished \/ UNCHANGED nvars
    BY <2>6, <2>8 DEF PrinterLocks, CheckEof, JoinReader, JoinPrinter, NFinished, nvars
  <2> QED
    BY <2>1, <2>2, <2>3, <2>4, <2>5, <2>7, <2>8 DEF NNext, ReaderStep, PrinterStep, MainStep
<1> QED
  BY <1>1, QueueAssumptionHolds, QP!NextInv, QP!ResultsInv DEF QueueInv

(* Every step keeps the threads and main at places they have. *)
LEMMA WhereNext ==
    ASSUME Where, [NNext]_nvars
    PROVE  Where'
<1>1. CASE SkipNewline \/ ReadNumber
  BY <1>1, TokenIs DEF SkipNewline, ReadNumber, Where, evars
<1>2. CASE IgnoreLine
  BY <1>2, TokenIs DEF IgnoreLine, Where, evars
<1>3. CASE ReadFails \/ ReadEof \/ AddStep \/ WakeUp
  BY <1>3 DEF ReadFails, ReadEof, AddStep, WakeUp, Where, ivars, evars
<1>4. CASE ReaderLocks \/ SetEofAndExit
  BY <1>4 DEF ReaderLocks, SetEofAndExit, Where, ivars
<1>5. CASE CallRemove \/ RemoveStep \/ RemoveFails
  BY <1>5 DEF CallRemove, RemoveStep, RemoveFails, Where, ivars, evars
<1>6. CASE PrintNumber
  BY <1>6 DEF PrintNumber, Where, ivars, evars
<1>7. CASE PrinterLocks \/ CheckEof
  BY <1>7 DEF PrinterLocks, CheckEof, Where, ivars
<1>8. CASE JoinReader \/ JoinPrinter \/ DeleteQueue
  BY <1>8 DEF JoinReader, JoinPrinter, DeleteQueue, Where, ivars, evars
<1>9. CASE NFinished \/ UNCHANGED nvars
  BY <1>9 DEF NFinished, nvars, Where, ivars, evars
<1> QED
  BY <1>1, <1>2, <1>3, <1>4, <1>5, <1>6, <1>7, <1>8, <1>9
  DEF NNext, ReaderStep, PrinterStep, MainStep

(* Every step keeps the two locks and the joins as the places of the *)
(* threads say.                                                      *)
LEMMA StagesNext ==
    ASSUME QueueInv, QueueInv', Where, Stages, [NNext]_nvars
    PROVE  Stages'
<1>0. Len(stdin) \in Nat /\ at \in 1..(Len(stdin) + 1)
  BY InputsAre DEF Where
<1>1. CASE SkipNewline \/ ReadFails \/ IgnoreLine \/ ReadEof \/ WakeUp
  <2>1. CASE SkipNewline \/ ReadFails \/ WakeUp
    BY <2>1 DEF SkipNewline, ReadFails, WakeUp, Stages, qvars, ivars, evars
  <2>2. CASE IgnoreLine
    BY <2>2 DEF IgnoreLine, Stages, qvars, evars
  <2>3. CASE ReadEof
    <3> DEFINE n == Len(stdin)
    <3>1. n \in Nat /\ at \in 1..(n + 1) /\ at > n
      BY <1>0, <2>3 DEF ReadEof, AtEnd
    <3> HIDE DEF n
    <3>2. at = n + 1
      BY <3>1
    <3> QED
      BY <2>3, <3>2 DEF ReadEof, Stages, qvars, ivars, evars, n
  <2> QED
    BY <1>1, <2>1, <2>2, <2>3
<1>2. CASE ReadNumber
  <2>1. Moves(Reader, "idle", "lock") /\ Spares(Printer)
    BY <1>2, TokenIs, SameSteps, CallSteps DEF ReadNumber
  <2> QED
    BY <1>2, <2>1 DEF ReadNumber, Stages, Moves, Spares, evars
<1>3. CASE AddStep
  <2>1. /\ Spares(Printer)
        /\ \/ Moves(Reader, "lock", "locked") \/ Moves(Reader, "locked", "count")
           \/ Moves(Reader, "count", "unlock") \/ Moves(Reader, "unlock", "idle")
    BY <1>3, SameSteps, AddSteps DEF AddStep
  <2> QED
    BY <1>3, <2>1 DEF AddStep, Stages, Moves, Spares, ivars, evars
<1>4. CASE ReaderLocks \/ SetEofAndExit
  BY <1>4, ThreadsAre DEF ReaderLocks, SetEofAndExit, Stages, qvars, ivars
<1>5. CASE CallRemove
  <2>1. Moves(Printer, "idle", "lock") /\ Spares(Reader)
    BY <1>5, SameSteps, CallSteps DEF CallRemove
  <2> QED
    BY <1>5, <2>1 DEF CallRemove, Stages, Moves, Spares, ivars, evars
<1>6. CASE RemoveStep \/ RemoveFails \/ PrintNumber
  <2>1. /\ Spares(Reader)
        /\ \/ Moves(Printer, "lock", "locked") \/ Moves(Printer, "locked", "count")
           \/ Moves(Printer, "locked", "unlock") \/ Moves(Printer, "count", "unlock")
           \/ Moves(Printer, "unlock", "idle")
    BY <1>6, SameSteps, RemoveSteps DEF RemoveStep, RemoveFails, PrintNumber, QP!InsideStep
  <2> QED
    BY <1>6, <2>1 DEF RemoveStep, RemoveFails, PrintNumber, Stages, Moves, Spares, ivars, evars
<1>7. CASE PrinterLocks \/ CheckEof
  BY <1>7, ThreadsAre DEF PrinterLocks, CheckEof, Stages, qvars, ivars
<1>8. CASE JoinReader \/ JoinPrinter
  BY <1>8 DEF JoinReader, JoinPrinter, Stages, qvars, ivars, evars
<1>9. CASE DeleteQueue
  <2>1. UNCHANGED <<pc, arg, ret>> /\ dtor' # "live"
    BY <1>9, SameQueue, DestructorSteps DEF DeleteQueue
  <2> QED
    BY <1>9, <2>1 DEF DeleteQueue, Stages, ivars, evars
<1>10. CASE NFinished \/ UNCHANGED nvars
  BY <1>10 DEF NFinished, nvars, Stages, qvars, ivars, evars
<1> QED
  BY <1>1, <1>2, <1>3, <1>4, <1>5, <1>6, <1>7, <1>8, <1>9, <1>10
  DEF NNext, ReaderStep, PrinterStep, MainStep

----------------------------------------------------------------------------
(* What has been read and what has been printed, position by position *)

Reading(s) ==
    CHOOSE f : Folds("read", s, f) /\ Sequential!Numbers(s) = f[Len(s)].nums
Printing(s) ==
    CHOOSE h : /\ Folds("print", Sequential!Numbers(s), h)
               /\ Sequential!Output(s) = h[Len(Sequential!Numbers(s))].printed

All(s)         == Sequential!Numbers(s)
Got(s, x)      == Reading(s)[x].nums
Dropping(s, x) == Reading(s)[x].skip
Array(s, x)    == Printing(s)[x].nums
Written(s, x)  == Printing(s)[x].printed

(* The one-thread program's reading, token by token. *)
LEMMA ReadingIs ==
    ASSUME NEW s \in Seq(Tokens)
    PROVE  /\ All(s) \in Seq(Int) /\ Got(s, Len(s)) = All(s)
           /\ Got(s, 0) = << >> /\ ~Dropping(s, 0)
           /\ \A x \in 0..Len(s) : Got(s, x) \in Seq(Int) /\ Begins(Got(s, x), All(s))
           /\ \A x \in 1..Len(s) :
                /\ s[x] = NL => ~Dropping(s, x) /\ Got(s, x) = Got(s, x - 1)
                /\ s[x] = Bad => Dropping(s, x) /\ Got(s, x) = Got(s, x - 1)
                /\ s[x] \notin {NL, Bad} /\ Dropping(s, x - 1) =>
                     Dropping(s, x) /\ Got(s, x) = Got(s, x - 1)
                /\ s[x] \notin {NL, Bad} /\ ~Dropping(s, x - 1) =>
                     ~Dropping(s, x) /\ Got(s, x) = Append(Got(s, x - 1), s[x])
<1> DEFINE f == Reading(s)
<1>1. Folds("read", s, f) /\ All(s) = f[Len(s)].nums
  <2>1. \E g : Folds("read", s, g) /\ Sequential!Numbers(s) = g[Len(s)].nums
    BY NumbersAre
  <2> QED
    BY <2>1 DEF Reading, All
<1> HIDE DEF f
<1>2. Len(s) \in Nat /\ 0 \in 0..Len(s) /\ Len(s) \in 0..Len(s)
  OBVIOUS
<1>3. \A x \in 0..Len(s) : f[x] \in ReadStates /\ Begins(f[x].nums, All(s))
  BY <1>1, ReadTypes, ReadGrows
<1>4. \A x \in 0..Len(s) : f[x].nums \in Seq(Int) /\ Begins(f[x].nums, All(s))
  BY <1>3 DEF ReadStates
<1>5. All(s) \in Seq(Int)
  BY <1>1, <1>2, <1>4
<1>6. f[0].nums = << >> /\ ~f[0].skip
  <2>1. f[0] = [skip |-> FALSE, nums |-> << >>]
    BY <1>1 DEF Folds, Base
  <2> QED
    BY <2>1
<1>7. ASSUME NEW x \in 1..Len(s)
      PROVE  /\ s[x] = NL => ~f[x].skip /\ f[x].nums = f[x - 1].nums
             /\ s[x] = Bad => f[x].skip /\ f[x].nums = f[x - 1].nums
             /\ s[x] \notin {NL, Bad} /\ f[x - 1].skip =>
                     f[x].skip /\ f[x].nums = f[x - 1].nums
             /\ s[x] \notin {NL, Bad} /\ ~f[x - 1].skip =>
                     ~f[x].skip /\ f[x].nums = Append(f[x - 1].nums, s[x])
  <2> DEFINE a == f[x - 1]
             b == s[x]
             c == f[x]
  <2>1. x - 1 \in 0..(Len(s) - 1) /\ x - 1 \in 0..Len(s) /\ (x - 1) + 1 = x
    BY <1>2
  <2>2. c = ReadStep(a, b)
    BY <1>1, <2>1 DEF Folds, Step
  <2>3. a \in ReadStates /\ b \in Tokens
    BY <1>3, <2>1
  <2> HIDE DEF a, b, c
  <2>4. b \notin {NL, Bad} /\ a.skip => c.skip /\ c.nums = a.nums
    BY <2>2 DEF ReadStep
  <2>5. /\ b = NL => ~c.skip /\ c.nums = a.nums
        /\ b = Bad => c.skip /\ c.nums = a.nums
        /\ b \notin {NL, Bad} /\ ~a.skip => ~c.skip /\ c.nums = Append(a.nums, b)
    BY <2>2, <2>3, ReadStepIs
  <2> QED
    BY <2>4, <2>5 DEF a, b, c
<1> QED
  BY <1>1, <1>4, <1>5, <1>6, <1>7 DEF Got, Dropping, f

(* The one-thread program's printing, number by number. *)
LEMMA PrintingIs ==
    ASSUME NEW s, All(s) \in Seq(Int)
    PROVE  /\ Written(s, 0) = << >> /\ Array(s, 0) = << >>
           /\ Written(s, Len(All(s))) = Sequential!Output(s)
           /\ \A x \in 0..Len(All(s)) :
                /\ Array(s, x) \in Seq(Int) /\ Len(Array(s, x)) <= Sequential!Window
                /\ Written(s, x) \in Seq(Blocks) /\ Len(Written(s, x)) = x
                /\ Begins(Written(s, x), Sequential!Output(s))
           /\ \A x \in 1..Len(All(s)) :
                LET five == Sequential!Shift(Append(Array(s, x - 1), All(s)[x]))
                IN  /\ Array(s, x) = five
                    /\ Written(s, x) = Append(Written(s, x - 1), Sequential!Statistics(five))
<1> DEFINE h == Printing(s)
           all == All(s)
<1>1. Folds("print", all, h) /\ Sequential!Output(s) = h[Len(all)].printed
  <2>1. \E g : /\ Folds("print", Sequential!Numbers(s), g)
               /\ Sequential!Output(s) = g[Len(Sequential!Numbers(s))].printed
    BY OutputIs DEF All
  <2> QED
    BY <2>1 DEF Printing, All
<1>2. all \in Seq(Int)
  OBVIOUS
<1> HIDE DEF h, all
<1>3. \A x \in 0..Len(all) : /\ h[x] \in PrintStates /\ Len(h[x].printed) = x
                             /\ Begins(h[x].printed, Sequential!Output(s))
  BY <1>1, <1>2, PrintTypes, PrintGrows
<1>4. \A x \in 0..Len(all) : /\ h[x].nums \in Seq(Int) /\ Len(h[x].nums) <= Sequential!Window
                             /\ h[x].printed \in Seq(Blocks)
  BY <1>3 DEF PrintStates
<1>5. h[0].printed = << >> /\ h[0].nums = << >>
  <2>1. h[0] = [nums |-> << >>, printed |-> << >>]
    BY <1>1 DEF Folds, Base
  <2> QED
    BY <2>1
<1>6. ASSUME NEW x \in 1..Len(all)
      PROVE  LET five == Sequential!Shift(Append(h[x - 1].nums, all[x]))
             IN  /\ h[x].nums = five
                 /\ h[x].printed = Append(h[x - 1].printed, Sequential!Statistics(five))
  <2> DEFINE a == h[x - 1]
             b == all[x]
             five == Sequential!Shift(Append(a.nums, b))
  <2>1. x - 1 \in 0..(Len(all) - 1) /\ (x - 1) + 1 = x
    BY <1>2
  <2>2. h[x] = PrintStep(a, b)
    BY <1>1, <2>1 DEF Folds, Step
  <2>3. h[x] = [nums |-> five, printed |-> Append(a.printed, Sequential!Statistics(five))]
    BY <2>2 DEF PrintStep
  <2> HIDE DEF five
  <2>4. h[x].nums = five /\ h[x].printed = Append(a.printed, Sequential!Statistics(five))
    BY <2>3
  <2> QED
    BY <2>4 DEF five
<1> QED
  BY <1>1, <1>3, <1>4, <1>5, <1>6 DEF Array, Written, h, all

----------------------------------------------------------------------------
(* The numbers between the input and the output: p of the r read are       *)
(* printed, one the printer may have taken (a = 1: it is v), some are in   *)
(* the queue q, and one the reader may be adding (b = 1: it is w).         *)
Line(r, p, a, v, q, b, w) ==
    /\ r \in Seq(Int) /\ p \in Nat /\ q \in Seq(Int)
    /\ Len(r) = p + a + Len(q) + b
    /\ a = 1 => r[p + 1] = v
    /\ \A k \in 1..Len(q) : q[k] = r[p + a + k]
    /\ b = 1 => r[Len(r)] = w

(* A number just read is the one that the reader may be adding. *)
LEMMA LineGives ==
    ASSUME NEW r, NEW p, NEW a \in {0, 1}, NEW v, NEW q, NEW w, NEW x \in Int,
           Line(r, p, a, v, q, 0, w)
    PROVE  Line(Append(r, x), p, a, v, q, 1, x)
<1> DEFINE m == Append(r, x)
<1>1. /\ r \in Seq(Int) /\ p \in Nat /\ q \in Seq(Int) /\ Len(r) \in Nat /\ Len(q) \in Nat
      /\ Len(r) = p + a + Len(q) + 0
      /\ a = 1 => r[p + 1] = v
      /\ \A k \in 1..Len(q) : q[k] = r[p + a + k]
  BY DEF Line
<1>2. /\ m \in Seq(Int) /\ Len(m) = Len(r) + 1 /\ m[Len(r) + 1] = x
      /\ \A k \in 1..Len(r) : m[k] = r[k]
  BY <1>1, AppendProperties
<1> HIDE DEF m
<1>3. Len(m) = p + a + Len(q) + 1 /\ m[Len(m)] = x
  BY <1>1, <1>2
<1>4. a = 1 => m[p + 1] = v
  <2> SUFFICES ASSUME a = 1 PROVE m[p + 1] = v
    OBVIOUS
  <2>1. p + 1 \in 1..Len(r)
    BY <1>1
  <2> QED
    BY <1>1, <1>2, <2>1
<1>5. ASSUME NEW k \in 1..Len(q) PROVE q[k] = m[p + a + k]
  <2>1. p + a + k \in 1..Len(r)
    BY <1>1
  <2> QED
    BY <1>1, <1>2, <2>1
<1>6. Line(m, p, a, v, q, 1, x)
  BY <1>1, <1>2, <1>3, <1>4, <1>5 DEF Line
<1> QED
  BY <1>6 DEF m

(* When the reader has added it, it is the last in the queue. *)
LEMMA LineAdds ==
    ASSUME NEW r, NEW p, NEW a \in {0, 1}, NEW v, NEW q, NEW w, NEW x,
           Line(r, p, a, v, q, 1, w)
    PROVE  Line(r, p, a, v, Append(q, w), 0, x)
<1> DEFINE m == Append(q, w)
<1>1. /\ r \in Seq(Int) /\ p \in Nat /\ q \in Seq(Int) /\ Len(r) \in Nat /\ Len(q) \in Nat
      /\ Len(r) = p + a + Len(q) + 1
      /\ a = 1 => r[p + 1] = v
      /\ \A k \in 1..Len(q) : q[k] = r[p + a + k]
      /\ r[Len(r)] = w
  BY DEF Line
<1>2. w \in Int
  <2>1. Len(r) \in 1..Len(r)
    BY <1>1
  <2> QED
    BY <1>1, <2>1
<1>3. /\ m \in Seq(Int) /\ Len(m) = Len(q) + 1 /\ m[Len(q) + 1] = w
      /\ \A k \in 1..Len(q) : m[k] = q[k]
  BY <1>1, <1>2, AppendProperties
<1> HIDE DEF m
<1>4. Len(r) = p + a + Len(m) + 0
  BY <1>1, <1>3
<1>5. ASSUME NEW k \in 1..Len(m) PROVE m[k] = r[p + a + k]
  <2>1. CASE k = Len(q) + 1
    <3>1. p + a + k = Len(r)
      BY <1>1, <2>1
    <3> QED
      BY <1>1, <1>3, <2>1, <3>1
  <2>2. CASE k # Len(q) + 1
    <3>1. k \in 1..Len(q)
      BY <1>1, <1>3, <2>2
    <3> QED
      BY <1>1, <1>3, <3>1
  <2> QED
    BY <2>1, <2>2
<1>6. Line(r, p, a, v, m, 0, x)
  BY <1>1, <1>3, <1>4, <1>5 DEF Line
<1> QED
  BY <1>6 DEF m

(* The first in the queue is the one that the printer takes. *)
LEMMA LineTakes ==
    ASSUME NEW r, NEW p, NEW v, NEW q, NEW b \in {0, 1}, NEW w,
           Line(r, p, 0, v, q, b, w), q # << >>
    PROVE  Head(q) \in Int /\ Line(r, p, 1, Head(q), Tail(q), b, w)
<1> DEFINE m == Tail(q)
<1>1. /\ r \in Seq(Int) /\ p \in Nat /\ q \in Seq(Int) /\ Len(r) \in Nat /\ Len(q) \in Nat
      /\ Len(r) = p + 0 + Len(q) + b
      /\ \A k \in 1..Len(q) : q[k] = r[p + 0 + k]
      /\ b = 1 => r[Len(r)] = w
  BY DEF Line
<1>2. /\ m \in Seq(Int) /\ Len(m) = Len(q) - 1 /\ Len(q) # 0
      /\ \A k \in 1..Len(m) : m[k] = q[k + 1]
  BY <1>1, HeadTailProperties, EmptySeq
<1>3. Head(q) = q[1] /\ q[1] \in Int /\ q[1] = r[p + 1]
  <2>1. 1 \in 1..Len(q)
    BY <1>1, <1>2
  <2> QED
    BY <1>1, <2>1
<1> HIDE DEF m
<1>4. Len(r) = p + 1 + Len(m) + b
  BY <1>1, <1>2
<1>5. ASSUME NEW k \in 1..Len(m) PROVE m[k] = r[p + 1 + k]
  <2>1. k + 1 \in 1..Len(q) /\ p + 0 + (k + 1) = p + 1 + k
    BY <1>1, <1>2
  <2> QED
    BY <1>1, <1>2, <2>1
<1>6. Line(r, p, 1, Head(q), m, b, w)
  BY <1>1, <1>2, <1>3, <1>4, <1>5 DEF Line
<1> QED
  BY <1>3, <1>6 DEF m

(* The one it has taken is the next to print. *)
LEMMA LinePrints ==
    ASSUME NEW r, NEW p, NEW v, NEW q, NEW b \in {0, 1}, NEW w, NEW x,
           Line(r, p, 1, v, q, b, w)
    PROVE  p + 1 <= Len(r) /\ r[p + 1] = v /\ Line(r, p + 1, 0, x, q, b, w)
<1>1. /\ r \in Seq(Int) /\ p \in Nat /\ q \in Seq(Int) /\ Len(r) \in Nat /\ Len(q) \in Nat
      /\ Len(r) = p + 1 + Len(q) + b
      /\ r[p + 1] = v
      /\ \A k \in 1..Len(q) : q[k] = r[p + 1 + k]
      /\ b = 1 => r[Len(r)] = w
  BY DEF Line
<1>2. p + 1 \in Nat /\ p + 1 <= Len(r) /\ Len(r) = (p + 1) + 0 + Len(q) + b
  BY <1>1
<1>3. ASSUME NEW k \in 1..Len(q) PROVE q[k] = r[(p + 1) + 0 + k]
  <2>1. (p + 1) + 0 + k = p + 1 + k
    BY <1>1
  <2> QED
    BY <1>1, <2>1
<1> QED
  BY <1>1, <1>2, <1>3 DEF Line

(* An argument that nobody holds does not matter. *)
LEMMA LineForgets ==
    ASSUME NEW r, NEW p, NEW a, NEW v, NEW q, NEW b, NEW w, NEW v2, NEW w2,
           Line(r, p, a, v, q, b, w), a = 1 => v2 = v, b = 1 => w2 = w
    PROVE  Line(r, p, a, v2, q, b, w2)
BY DEF Line

----------------------------------------------------------------------------
(* The coupling of the two threads *)

Taken == IF pc[Printer] = "unlock" /\ ret[Printer] # None THEN 1 ELSE 0
Given == IF pc[Reader] \in {"lock", "locked", "count"} THEN 1 ELSE 0

(* The reader ignores a line exactly while the one-thread program does. *)
Skips ==
    /\ rpc = "ignore" => Dropping(stdin, at - 1) \/ (at <= Len(stdin) /\ stdin[at] = Bad)
    /\ rpc # "ignore" => ~Dropping(stdin, at - 1) \/ at > Len(stdin)

(* Every number read is printed, or on its way, in the order of the input. *)
OnTheWay ==
    dtor = "live" => Line(Got(stdin, at - 1), Len(printed), Taken, ret[Printer],
                          QP!Contents, Given, arg[Reader])

(* The printer's array and output are those of the one-thread program      *)
(* after as many numbers.                                                  *)
PrintedSoFar ==
    /\ Len(printed) \in 0..Len(All(stdin))
    /\ nums = Array(stdin, Len(printed))
    /\ printed = Written(stdin, Len(printed))

(* What the one-thread program does with the token where the reader is. *)
LEMMA ReadsOne ==
    ASSUME Where, ~AtEnd
    PROVE  /\ (at + 1) - 1 = at
           /\ Token = NL => ~Dropping(stdin, at) /\ Got(stdin, at) = Got(stdin, at - 1)
           /\ Token = Bad => Dropping(stdin, at) /\ Got(stdin, at) = Got(stdin, at - 1)
           /\ Token \notin {NL, Bad} /\ Dropping(stdin, at - 1) =>
                Dropping(stdin, at) /\ Got(stdin, at) = Got(stdin, at - 1)
           /\ Token \notin {NL, Bad} /\ ~Dropping(stdin, at - 1) =>
                ~Dropping(stdin, at) /\ Got(stdin, at) = Append(Got(stdin, at - 1), Token)
<1>1. stdin \in Seq(Tokens) /\ at \in 1..Len(stdin)
  BY TokenIs, InputsAre DEF Where
<1>2. (at + 1) - 1 = at
  BY TokenIs
<1> QED
  BY <1>1, <1>2, ReadingIs DEF Token

(* Every step keeps the reader ignoring what the one-thread program *)
(* ignores.                                                         *)
LEMMA SkipsNext ==
    ASSUME Where, Skips, [NNext]_nvars
    PROVE  Skips'
<1>1. CASE SkipNewline
  <2>1. ~Dropping(stdin, at) /\ at' - 1 = at
    BY <1>1, ReadsOne DEF SkipNewline
  <2> QED
    BY <1>1, <2>1 DEF SkipNewline, Skips
<1>2. CASE ReadNumber
  <2>1. at' - 1 = at /\ ~Dropping(stdin, at - 1)
    BY <1>2, ReadsOne DEF ReadNumber, Skips, AtEnd
  <2>2. ~Dropping(stdin, at)
    BY <1>2, <2>1, ReadsOne DEF ReadNumber
  <2> QED
    BY <1>2, <2>1, <2>2 DEF ReadNumber, Skips
<1>3. CASE IgnoreLine
  <2>1. CASE AtEnd
    BY <1>3, <2>1 DEF IgnoreLine, Skips, AtEnd
  <2>2. CASE ~AtEnd
    <3>1. at' - 1 = at /\ stdin' = stdin
      BY <1>3, <2>2, ReadsOne DEF IgnoreLine
    <3>2. Token = NL => rpc' = "read" /\ ~Dropping(stdin, at)
      BY <1>3, <2>2, ReadsOne DEF IgnoreLine
    <3>3. Token # NL => rpc' = "ignore" /\ Dropping(stdin, at)
      BY <1>3, <2>2, ReadsOne DEF IgnoreLine, Skips, Token
    <3> QED
      BY <3>1, <3>2, <3>3 DEF Skips
  <2> QED
    BY <2>1, <2>2
<1>4. CASE ReadFails
  <2>1. at \in 1..Len(stdin) /\ Len(stdin) \in Nat /\ stdin[at] = Bad
    BY <1>4, TokenIs DEF ReadFails, Token
  <2>2. at <= Len(stdin)
    BY <2>1
  <2> QED
    BY <1>4, <2>1, <2>2 DEF ReadFails, Skips, ivars
<1>5. CASE ReadEof \/ AddStep \/ WakeUp \/ ReaderLocks \/ SetEofAndExit
  BY <1>5 DEF ReadEof, AddStep, WakeUp, ReaderLocks, SetEofAndExit, Skips, ivars
<1>6. CASE PrinterStep \/ MainStep \/ NFinished \/ UNCHANGED nvars
  <2>1. UNCHANGED <<stdin, at, rpc>>
    BY <1>6 DEF PrinterStep, MainStep, NFinished, nvars, CallRemove, RemoveStep, RemoveFails,
       PrintNumber, PrinterLocks, CheckEof, JoinReader, JoinPrinter, DeleteQueue, ivars
  <2> QED
    BY <2>1 DEF Skips
<1> QED
  BY <1>1, <1>2, <1>3, <1>4, <1>5, <1>6 DEF NNext, ReaderStep

(* A step that leaves the queue alone, and reads no number. *)
LEMMA QuietOnTheWay ==
    ASSUME OnTheWay, UNCHANGED qvars, UNCHANGED <<stdin, printed>>,
           Got(stdin, at' - 1) = Got(stdin, at - 1)
    PROVE  OnTheWay'
<1>1. UNCHANGED <<dtor, pc, ret, arg>>
  BY DEF qvars
<1>2. QP!Contents' = QP!Contents
  BY DEF qvars, QP!Contents, QP!InFlight, QP!Linked
<1>3. Taken' = Taken /\ Given' = Given
  BY <1>1 DEF Taken, Given
<1> QED
  BY <1>1, <1>2, <1>3 DEF OnTheWay

(* A step of the reader loses no number and keeps their order. *)
LEMMA ReaderOnTheWay ==
    ASSUME QueueInv, QueueInv', Where, Stages, Skips, OnTheWay, ReaderStep
    PROVE  OnTheWay'
<1>1. CASE SkipNewline \/ IgnoreLine
  <2>1. UNCHANGED qvars /\ UNCHANGED <<stdin, printed>>
    BY <1>1 DEF SkipNewline, IgnoreLine, pvars
  <2>2. Got(stdin, at' - 1) = Got(stdin, at - 1)
    <3>1. CASE SkipNewline
      BY <3>1, ReadsOne DEF SkipNewline
    <3>2. CASE IgnoreLine /\ AtEnd
      BY <3>2 DEF IgnoreLine
    <3>3. CASE IgnoreLine /\ ~AtEnd
      <4>1. at' - 1 = at
        BY <3>3, ReadsOne DEF IgnoreLine
      <4>2. Token \in {NL, Bad} \/ Dropping(stdin, at - 1)
        BY <3>3 DEF IgnoreLine, Skips, Token
      <4> QED
        BY <3>3, <4>1, <4>2, ReadsOne
    <3> QED
      BY <1>1, <3>1, <3>2, <3>3
  <2> QED
    BY <2>1, <2>2, QuietOnTheWay
<1>2. CASE ReadFails \/ ReadEof \/ WakeUp \/ ReaderLocks \/ SetEofAndExit
  <2>1. UNCHANGED qvars /\ UNCHANGED <<stdin, printed, at>>
    BY <1>2 DEF ReadFails, ReadEof, WakeUp, ReaderLocks, SetEofAndExit, ivars, pvars
  <2> QED
    BY <2>1, QuietOnTheWay
<1>3. CASE ReadNumber
  <2>1. /\ Token \in Values /\ Token \in Int /\ at' - 1 = at
        /\ UNCHANGED <<stdin, printed>>
    BY <1>3, TokenIs, ReadsOne DEF ReadNumber, pvars
  <2>2. /\ Moves(Reader, "idle", "lock") /\ arg'[Reader] = Token /\ Spares(Printer)
        /\ QP!Contents' = QP!Contents
    BY <1>3, <2>1, SameSteps, CallSteps DEF ReadNumber
  <2>3. Got(stdin, at) = Append(Got(stdin, at - 1), Token)
    <3>1. ~Dropping(stdin, at - 1)
      BY <1>3 DEF ReadNumber, Skips, AtEnd
    <3> QED
      BY <1>3, <3>1, ReadsOne DEF ReadNumber
  <2>4. Given = 0 /\ Given' = 1 /\ Taken' = Taken /\ ret'[Printer] = ret[Printer] /\ dtor' = dtor
    BY <2>2 DEF Given, Taken, Moves, Spares
  <2>5. Taken \in {0, 1}
    BY DEF Taken
  <2>6. ASSUME dtor = "live"
        PROVE  Line(Got(stdin, at), Len(printed), Taken, ret[Printer], QP!Contents, 1, Token)
    BY <2>1, <2>3, <2>4, <2>5, <2>6, LineGives DEF OnTheWay
  <2> QED
    BY <2>1, <2>2, <2>4, <2>6 DEF OnTheWay
<1>4. CASE AddStep
  <2>1. UNCHANGED <<stdin, printed, at>>
    BY <1>4 DEF AddStep, ivars, pvars
  <2>2. QP!InsideStep(Reader) \/ QP!LockStep(Reader)
    BY <1>4, SameSteps DEF AddStep
  <2>3. Spares(Printer) /\ Taken' = Taken /\ ret'[Printer] = ret[Printer] /\ dtor' = dtor
    BY <2>2, AddSteps DEF Taken, Spares
  <2>4. Taken \in {0, 1}
    BY DEF Taken
  <2>5. CASE /\ Moves(Reader, "lock", "locked") \/ Moves(Reader, "locked", "count")
             /\ arg'[Reader] = arg[Reader] /\ QP!Contents' = QP!Contents
    <3>1. Given = 1 /\ Given' = 1
      BY <2>5 DEF Given, Moves
    <3> QED
      BY <2>1, <2>3, <2>5, <3>1 DEF OnTheWay
  <2>6. CASE /\ Moves(Reader, "count", "unlock")
             /\ QP!Contents' = Append(QP!Contents, arg[Reader])
    <3>1. Given = 1 /\ Given' = 0
      BY <2>6 DEF Given, Moves
    <3>2. PICK x : x = arg'[Reader]
      OBVIOUS
    <3>3. ASSUME dtor = "live"
          PROVE  Line(Got(stdin, at - 1), Len(printed), Taken, ret[Printer],
                      Append(QP!Contents, arg[Reader]), 0, x)
      BY <2>4, <3>1, <3>3, LineAdds DEF OnTheWay
    <3> QED
      BY <2>1, <2>3, <2>6, <3>1, <3>2, <3>3 DEF OnTheWay
  <2>7. CASE Moves(Reader, "unlock", "idle") /\ QP!Contents' = QP!Contents
    <3>1. Given = 0 /\ Given' = 0
      BY <2>7 DEF Given, Moves
    <3>2. PICK x : x = arg'[Reader]
      OBVIOUS
    <3>3. ASSUME dtor = "live"
          PROVE  Line(Got(stdin, at - 1), Len(printed), Taken, ret[Printer], QP!Contents, 0, x)
      BY <3>1, <3>3, LineForgets DEF OnTheWay
    <3> QED
      BY <2>1, <2>3, <2>7, <3>1, <3>2, <3>3 DEF OnTheWay
  <2> QED
    BY <2>2, <2>5, <2>6, <2>7, AddSteps
<1> QED
  BY <1>1, <1>2, <1>3, <1>4 DEF ReaderStep

(* Every step keeps the array and the output those of the one-thread *)
(* program.                                                          *)
LEMMA PrintedNext ==
    ASSUME QueueInv, Where, OnTheWay, PrintedSoFar, [NNext]_nvars
    PROVE  PrintedSoFar' /\ (PrintNumber => Len(printed') = Len(printed) + 1)
<1> DEFINE p == Len(printed)
           all == All(stdin)
           r == Got(stdin, at - 1)
           y == ret[Printer]
<1>0. /\ stdin \in Seq(Tokens) /\ all \in Seq(Int) /\ p \in 0..Len(all) /\ Len(all) \in Nat
  <2>1. stdin \in Seq(Tokens)
    BY InputsAre DEF Where
  <2>2. all \in Seq(Int)
    BY <2>1, ReadingIs
  <2>3. Len(all) \in Nat
    BY <2>2
  <2> QED
    BY <2>1, <2>2, <2>3 DEF PrintedSoFar
<1>1. CASE PrintNumber
  <2>1. /\ pc[Printer] = "unlock" /\ y # None /\ stdin' = stdin
        /\ nums' = Sequential!Shift(Append(nums, y))
        /\ printed' = Append(printed, Sequential!Statistics(nums'))
    BY <1>1 DEF PrintNumber, ivars
  <2>2. dtor = "live"
    BY <2>1, ThreadsAre DEF QueueInv, QP!IInv, QP!Alone
  <2>3. Taken = 1 /\ Given \in {0, 1}
    BY <2>1 DEF Taken, Given
  <2>4. Line(r, p, 1, y, QP!Contents, Given, arg[Reader])
    BY <2>2, <2>3 DEF OnTheWay
  <2>5. p + 1 <= Len(r) /\ r[p + 1] = y
    <3> HIDE DEF p, r, y
    <3> DEFINE q == QP!Contents
               b == Given
               w == arg[Reader]
    <3>1. Line(r, p, 1, y, q, b, w) /\ b \in {0, 1}
      BY <2>3, <2>4
    <3> HIDE DEF q, b, w
    <3> QED
      BY <3>1, LinePrints
  <2>6. Begins(r, all) /\ r \in Seq(Int)
    <3>1. at - 1 \in 0..Len(stdin)
      <4> DEFINE n == Len(stdin)
      <4>1. n \in Nat /\ at \in 1..(n + 1)
        BY InputsAre DEF Where
      <4> HIDE DEF n
      <4>2. at - 1 \in 0..n
        BY <4>1
      <4> QED
        BY <4>2 DEF n
    <3> QED
      BY <1>0, <3>1, ReadingIs
  <2> HIDE DEF p, all, r, y
  <2>7. /\ Len(r) \in Nat /\ p + 1 \in 1..Len(all) /\ p + 1 \in 0..Len(all)
        /\ (p + 1) - 1 = p /\ all[p + 1] = y
    BY <1>0, <2>5, <2>6 DEF Begins
  <2>8. /\ nums = Array(stdin, p) /\ printed = Written(stdin, p)
    BY DEF PrintedSoFar, p
  <2>9. /\ nums' = Array(stdin, p + 1)
        /\ printed' = Written(stdin, p + 1)
    BY <1>0, <2>1, <2>7, <2>8, PrintingIs DEF all
  <2>10. Len(printed') = p + 1
    BY <1>0, <2>7, <2>9, PrintingIs DEF all
  <2> QED
    BY <2>1, <2>7, <2>9, <2>10 DEF PrintedSoFar, all, p
<1>2. CASE ~PrintNumber
  <2>1. UNCHANGED <<stdin, nums, printed>>
    <3>1. CASE ReaderStep
      BY <3>1 DEF ReaderStep, SkipNewline, ReadNumber, ReadFails, IgnoreLine, ReadEof, AddStep,
         WakeUp, ReaderLocks, SetEofAndExit, ivars, pvars
    <3>2. CASE PrinterStep
      BY <1>2, <3>2 DEF PrinterStep, CallRemove, RemoveStep, RemoveFails, PrinterLocks, CheckEof,
         ivars, pvars
    <3>3. CASE MainStep \/ NFinished \/ UNCHANGED nvars
      BY <3>3 DEF MainStep, JoinReader, JoinPrinter, DeleteQueue, NFinished, nvars, ivars, pvars
    <3> QED
      BY <3>1, <3>2, <3>3 DEF NNext
  <2> QED
    BY <1>2, <2>1 DEF PrintedSoFar
<1> QED
  BY <1>1, <1>2

(* A step of the printer loses no number and keeps their order. *)
LEMMA PrinterOnTheWay ==
    ASSUME QueueInv, QueueInv', Where, OnTheWay, PrintedSoFar, PrinterStep
    PROVE  OnTheWay'
<1>0. UNCHANGED <<stdin, at>>
  BY DEF PrinterStep, CallRemove, RemoveStep, RemoveFails, PrintNumber, PrinterLocks, CheckEof,
     ivars
<1>a. Given \in {0, 1}
  BY DEF Given
<1>1. CASE PrinterLocks \/ CheckEof
  <2>1. UNCHANGED qvars /\ UNCHANGED printed
    BY <1>1 DEF PrinterLocks, CheckEof, pvars
  <2> QED
    BY <1>0, <2>1, QuietOnTheWay
<1>2. CASE CallRemove
  <2>1. /\ Moves(Printer, "idle", "lock") /\ Spares(Reader) /\ QP!Contents' = QP!Contents
        /\ UNCHANGED printed
    BY <1>2, SameSteps, CallSteps DEF CallRemove, pvars
  <2>2. Taken = 0 /\ Taken' = 0 /\ Given' = Given /\ arg'[Reader] = arg[Reader] /\ dtor' = dtor
    BY <2>1 DEF Taken, Given, Moves, Spares
  <2>3. PICK x : x = ret'[Printer]
    OBVIOUS
  <2>4. ASSUME dtor = "live"
        PROVE  Line(Got(stdin, at - 1), Len(printed), 0, x, QP!Contents, Given, arg[Reader])
    BY <2>2, <2>4, LineForgets DEF OnTheWay
  <2> QED
    BY <1>0, <2>1, <2>2, <2>3, <2>4 DEF OnTheWay
<1>3. CASE RemoveStep
  <2>1. /\ UNCHANGED printed /\ pc[Printer] # "unlock"
        /\ QP!InsideStep(Printer) \/ QP!LockStep(Printer)
    BY <1>3, SameSteps DEF RemoveStep, pvars
  <2>2. Given' = Given /\ arg'[Reader] = arg[Reader] /\ dtor' = dtor
    BY <2>1, RemoveSteps DEF Given, Spares
  <2>3. CASE /\ Moves(Printer, "lock", "locked") \/ Moves(Printer, "locked", "count")
             /\ QP!Contents' = QP!Contents
    <3>1. Taken = 0 /\ Taken' = 0
      BY <2>3 DEF Taken, Moves
    <3>2. PICK x : x = ret'[Printer]
      OBVIOUS
    <3>3. ASSUME dtor = "live"
          PROVE  Line(Got(stdin, at - 1), Len(printed), 0, x, QP!Contents, Given, arg[Reader])
      BY <3>1, <3>3, LineForgets DEF OnTheWay
    <3> QED
      BY <1>0, <2>1, <2>2, <2>3, <3>1, <3>2, <3>3 DEF OnTheWay
  <2>4. CASE /\ Moves(Printer, "locked", "unlock") /\ ret'[Printer] = None
             /\ QP!Contents' = QP!Contents
    <3>1. Taken = 0 /\ Taken' = 0
      BY <2>4 DEF Taken, Moves
    <3>2. ASSUME dtor = "live"
          PROVE  Line(Got(stdin, at - 1), Len(printed), 0, None, QP!Contents, Given, arg[Reader])
      BY <3>1, <3>2, LineForgets DEF OnTheWay
    <3> QED
      BY <1>0, <2>1, <2>2, <2>4, <3>1, <3>2 DEF OnTheWay
  <2>5. CASE /\ Moves(Printer, "count", "unlock") /\ ret'[Printer] = ret[Printer]
             /\ QP!Contents # << >> /\ ret[Printer] = Head(QP!Contents)
             /\ QP!Contents' = Tail(QP!Contents)
    <3>1. Taken = 0
      BY <2>5 DEF Taken, Moves
    <3>2. ASSUME dtor = "live"
          PROVE  /\ ret[Printer] \in Int
                 /\ Line(Got(stdin, at - 1), Len(printed), 1, ret[Printer],
                         Tail(QP!Contents), Given, arg[Reader])
      BY <1>a, <2>5, <3>1, <3>2, LineTakes DEF OnTheWay
    <3>3. ASSUME dtor = "live" PROVE Taken' = 1
      <4>1. ret[Printer] # None
        BY <3>2, <3>3, NumbersAssumption
      <4> QED
        BY <2>5, <4>1 DEF Taken, Moves
    <3> QED
      BY <1>0, <2>1, <2>2, <2>5, <3>2, <3>3 DEF OnTheWay
  <2>6. ~Moves(Printer, "unlock", "idle")
    BY <2>1 DEF Moves
  <2> QED
    BY <2>1, <2>3, <2>4, <2>5, <2>6, RemoveSteps
<1>4. CASE RemoveFails
  <2>1. /\ QP!Unlock(Printer) /\ QP!InsideStep(Printer) /\ UNCHANGED printed
        /\ pc[Printer] = "unlock" /\ ret[Printer] = None
    BY <1>4, SameSteps DEF RemoveFails, QP!InsideStep, pvars
  <2>2. /\ Spares(Reader) /\ QP!Contents' = QP!Contents /\ Moves(Printer, "unlock", "idle")
    BY <2>1, RemoveSteps DEF Moves
  <2>3. Taken = 0 /\ Taken' = 0 /\ Given' = Given /\ arg'[Reader] = arg[Reader] /\ dtor' = dtor
    BY <2>1, <2>2 DEF Taken, Given, Moves, Spares
  <2>4. PICK x : x = ret'[Printer]
    OBVIOUS
  <2>5. ASSUME dtor = "live"
        PROVE  Line(Got(stdin, at - 1), Len(printed), 0, x, QP!Contents, Given, arg[Reader])
    BY <2>3, <2>5, LineForgets DEF OnTheWay
  <2> QED
    BY <1>0, <2>1, <2>2, <2>3, <2>4, <2>5 DEF OnTheWay
<1>5. CASE PrintNumber
  <2>1. /\ QP!Unlock(Printer) /\ QP!InsideStep(Printer)
        /\ pc[Printer] = "unlock" /\ ret[Printer] # None
        /\ printed' = Append(printed, Sequential!Statistics(nums'))
    BY <1>5, SameSteps DEF PrintNumber, QP!InsideStep
  <2>2. /\ Spares(Reader) /\ QP!Contents' = QP!Contents /\ Moves(Printer, "unlock", "idle")
    BY <2>1, RemoveSteps DEF Moves
  <2>3. Taken = 1 /\ Taken' = 0 /\ Given' = Given /\ arg'[Reader] = arg[Reader] /\ dtor' = dtor
    BY <2>1, <2>2 DEF Taken, Given, Moves, Spares
  <2>4. PICK x : x = ret'[Printer]
    OBVIOUS
  <2>5. ASSUME dtor = "live"
        PROVE  Line(Got(stdin, at - 1), Len(printed) + 1, 0, x, QP!Contents, Given, arg[Reader])
    BY <1>a, <2>3, <2>5, LinePrints DEF OnTheWay
  <2>6. Len(printed') = Len(printed) + 1
    BY <1>5, PrintedNext DEF NNext, PrinterStep
  <2> QED
    BY <1>0, <2>2, <2>3, <2>4, <2>5, <2>6 DEF OnTheWay
<1> QED
  BY <1>1, <1>2, <1>3, <1>4, <1>5 DEF PrinterStep

(* Nothing else touches the numbers on the way. *)
LEMMA OthersOnTheWay ==
    ASSUME OnTheWay, MainStep \/ NFinished \/ UNCHANGED nvars
    PROVE  OnTheWay'
<1>1. CASE DeleteQueue
  <2>1. dtor' # "live"
    BY <1>1, SameQueue, DestructorSteps DEF DeleteQueue
  <2> QED
    BY <2>1 DEF OnTheWay
<1>2. CASE JoinReader \/ JoinPrinter \/ NFinished \/ UNCHANGED nvars
  <2>1. UNCHANGED qvars /\ UNCHANGED <<stdin, printed, at>>
    BY <1>2 DEF JoinReader, JoinPrinter, NFinished, nvars, ivars, pvars
  <2> QED
    BY <2>1, QuietOnTheWay
<1> QED
  BY <1>1, <1>2 DEF MainStep

----------------------------------------------------------------------------
IInv ==
    /\ QueueInv
    /\ Where
    /\ Stages
    /\ Skips
    /\ OnTheWay
    /\ PrintedSoFar

(* The program's first states have the invariant. *)
LEMMA InitInv == NInit => IInv
<1> SUFFICES ASSUME NInit PROVE IInv
  OBVIOUS
<1>1. QueueInv /\ Where /\ Stages
  BY InitParts
<1>2. stdin \in Seq(Tokens) /\ at - 1 = 0
  <2>1. stdin \in Inputs /\ at = 1
    BY DEF NInit
  <2>2. stdin \in Seq(Tokens)
    BY <2>1, InputsAre
  <2> QED
    BY <2>1, <2>2
<1>3. /\ Got(stdin, 0) = << >> /\ ~Dropping(stdin, 0) /\ All(stdin) \in Seq(Int)
  BY <1>2, ReadingIs
<1>4. Skips
  BY <1>2, <1>3 DEF NInit, Skips
<1>5. OnTheWay
  <2>1. Taken = 0 /\ Given = 0 /\ QP!Contents = << >>
    <3>1. QP!Init
      BY SameQueue DEF NInit
    <3>2. pc[Reader] = "idle" /\ pc[Printer] = "idle"
      BY <3>1, ThreadsAre DEF QP!Init
    <3>3. QP!Contents = << >>
      BY <3>1, QueueAssumptionHolds, QP!EmptyAtFirst
    <3> QED
      BY <3>2, <3>3 DEF Taken, Given
  <2>2. Len(printed) = 0
    BY DEF NInit
  <2>3. \A v, w : Line(<< >>, 0, 0, v, << >>, 0, w)
    BY DEF Line
  <2> QED
    BY <1>2, <1>3, <2>1, <2>2, <2>3 DEF OnTheWay
<1>6. PrintedSoFar
  <2>1. Written(stdin, 0) = << >> /\ Array(stdin, 0) = << >>
    BY <1>3, PrintingIs
  <2>2. printed = << >> /\ nums = << >>
    BY DEF NInit
  <2>3. Len(printed) = 0 /\ Len(All(stdin)) \in Nat
    BY <1>3, <2>2
  <2>4. Len(printed) \in 0..Len(All(stdin))
    BY <2>3
  <2> QED
    BY <2>1, <2>2, <2>3, <2>4 DEF PrintedSoFar
<1> QED
  BY <1>1, <1>4, <1>5, <1>6 DEF IInv

(* Every step of either thread, of main and of the queue keeps it. *)
LEMMA NextInv == IInv /\ [NNext]_nvars => IInv'
<1> SUFFICES ASSUME IInv, [NNext]_nvars PROVE IInv'
  OBVIOUS
<1>1. QueueInv' /\ Where' /\ Stages' /\ Skips' /\ PrintedSoFar'
  BY QueueMoves, WhereNext, StagesNext, SkipsNext, PrintedNext DEF IInv
<1>2. OnTheWay'
  BY <1>1, ReaderOnTheWay, PrinterOnTheWay, OthersOnTheWay DEF IInv, NNext
<1> QED
  BY <1>1, <1>2 DEF IInv

(* IInv is inductive. *)
THEOREM Inductive == NSpec => []IInv
<1> QED
  BY InitInv, NextInv, PTL DEF NSpec

(* The variables of the program and of its queue keep their types, and the *)
(* printer's array never holds more than five numbers.                     *)
THEOREM TypeCorrect == NSpec => []NTypeOK
<1>1. ASSUME IInv PROVE NTypeOK
  <2>1. Queue!TypeOK
    BY <1>1, SameQueue DEF IInv, QueueInv, QP!IInv
  <2>2. stdin \in Seq(Tokens) /\ All(stdin) \in Seq(Int)
    BY <1>1, InputsAre, ReadingIs DEF IInv, Where
  <2>3. Len(nums) <= Sequential!Window
    BY <1>1, <2>2, PrintingIs DEF IInv, PrintedSoFar
  <2> QED
    BY <1>1, <2>1, <2>3 DEF IInv, Where, NTypeOK
<1> QED
  BY <1>1, Inductive, PTL

(* main frees the queue only when both threads are gone, outside every     *)
(* call and holding neither mutex.                                         *)
THEOREM DeletedAfterUse == NSpec => []DeletedUnused
<1>1. ASSUME IInv PROVE DeletedUnused
  <2>1. /\ pc[Reader] = "idle" /\ pc[Printer] = "idle" => lock \notin Threads
        /\ lock \in Threads \cup {Nobody}
    BY <1>1, ThreadsAre DEF IInv, QueueInv, QP!IInv, QP!TypeOK, QP!MutualExclusion, QP!Critical
  <2> QED
    BY <1>1, <2>1, ThreadsAre DEF IInv, DeletedUnused, Where, Stages
<1> QED
  BY <1>1, Inductive, PTL

(* At the end of the input all its numbers have been read. *)
LEMMA AllRead ==
    ASSUME IInv, mpc = "delete"
    PROVE  /\ Got(stdin, at - 1) = All(stdin) /\ All(stdin) \in Seq(Int)
           /\ Taken = 0 /\ Given = 0
<1>1. rpc = "exited" /\ ppc = "exited" /\ at = Len(stdin) + 1
  BY DEF IInv, Stages
<1>2. pc[Reader] = "idle" /\ pc[Printer] = "idle"
  BY <1>1 DEF IInv, Stages
<1>3. stdin \in Seq(Tokens) /\ Len(stdin) \in Nat
  BY InputsAre DEF IInv, Where
<1>4. at - 1 = Len(stdin)
  BY <1>1, <1>3
<1> QED
  BY <1>2, <1>3, <1>4, ReadingIs DEF Taken, Given

(* The first numbers, followed by those still queued, are all the numbers. *)
LEMMA LeftOver ==
    ASSUME NEW r, NEW p, NEW v, NEW q, NEW w, Line(r, p, 0, v, q, 0, w)
    PROVE  p <= Len(r) /\ SubSeq(r, 1, p) \o q = r
<1> DEFINE m == SubSeq(r, 1, p)
           c == m \o q
<1>1. /\ r \in Seq(Int) /\ p \in Nat /\ q \in Seq(Int) /\ Len(r) \in Nat /\ Len(q) \in Nat
      /\ Len(r) = p + 0 + Len(q) + 0
      /\ \A k \in 1..Len(q) : q[k] = r[p + 0 + k]
  BY DEF Line
<1>2. p <= Len(r)
  BY <1>1
<1>3. m \in Seq(Int) /\ Len(m) = p /\ \A k \in 1..p : m[k] = r[k]
  BY <1>1, <1>2, SubSeqProperties
<1> HIDE DEF m
<1>4. /\ c \in Seq(Int) /\ Len(c) = Len(m) + Len(q)
      /\ \A k \in 1..(Len(m) + Len(q)) : c[k] = IF k <= Len(m) THEN m[k] ELSE q[k - Len(m)]
  BY <1>1, <1>3, ConcatProperties
<1> HIDE DEF c
<1>5. ASSUME NEW k \in 1..Len(r) PROVE c[k] = r[k]
  <2>1. CASE k <= p
    BY <1>1, <1>3, <1>4, <2>1
  <2>2. CASE ~(k <= p)
    <3>1. k - p \in 1..Len(q) /\ p + 0 + (k - p) = k
      BY <1>1, <2>2
    <3>2. c[k] = q[k - p]
      BY <1>1, <1>3, <1>4, <2>2
    <3> QED
      BY <1>1, <3>1, <3>2
  <2> QED
    BY <2>1, <2>2
<1>6. Len(c) = Len(r)
  BY <1>1, <1>3, <1>4
<1>7. c = r
  BY <1>1, <1>4, <1>5, <1>6, SeqEqual
<1> QED
  BY <1>2, <1>7 DEF c, m

(* For every input and every schedule of the two threads: what is printed  *)
(* is a beginning of what the one-thread program prints, and when both     *)
(* threads are gone what is missing is exactly what is left in the queue.  *)
THEOREM PrintsTheSame == NSpec => []PrintsLikeSequential
<1>1. ASSUME IInv PROVE PrintsLikeSequential
  <2>1. stdin \in Seq(Tokens) /\ All(stdin) \in Seq(Int)
    BY <1>1, InputsAre, ReadingIs DEF IInv, Where
  <2>2. IsPrefix(printed, Sequential!Output(stdin))
    <3> DEFINE p == Len(printed)
               n == Len(All(stdin))
    <3>1. n \in Nat /\ p \in 0..n /\ n \in 0..n /\ printed = Written(stdin, p)
      BY <1>1, <2>1 DEF IInv, PrintedSoFar
    <3>2. /\ printed \in Seq(Blocks) /\ Begins(printed, Sequential!Output(stdin))
          /\ Sequential!Output(stdin) \in Seq(Blocks)
      <4> HIDE DEF p
      <4> QED
        BY <2>1, <3>1, PrintingIs
    <3> QED
      BY <3>2, BeginsIsPrefix
  <2>3. ASSUME mpc = "delete", dtor = "live"
        PROVE  /\ Len(printed) <= Len(All(stdin))
               /\ SubSeq(All(stdin), 1, Len(printed)) \o QP!Contents = All(stdin)
    <3>1. Line(All(stdin), Len(printed), 0, ret[Printer], QP!Contents, 0, arg[Reader])
      BY <1>1, <2>3, AllRead DEF IInv, OnTheWay
    <3> QED
      BY <3>1, LeftOver
  <2> QED
    BY <2>2, <2>3, SameQueue DEF PrintsLikeSequential, All
<1> QED
  BY <1>1, Inductive, PTL
=============================================================================
