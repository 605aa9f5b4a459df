-------------------------- MODULE PageTableProofs --------------------------
(***************************************************************************)
(* Theorems about PageTable, for any set of addresses, any contents and    *)
(* any capacity.                                                           *)
(***************************************************************************)
EXTENDS PageTable, TLAPS, FiniteSetTheorems, SequenceTheorems

----------------------------------------------------------------------------
(* The list of copies. *)

Numbers(l) == {l[i].pno : i \in 1..Len(l)}

Distinct(l) == \A i, j \in 1..Len(l) : l[i].pno = l[j].pno => i = j

Clean(l) == \A i \in 1..Len(l) : ~l[i].dirty

Ordered(l, order) ==
    \A i, j \in 1..Len(l) : i < j => <<l[i].pno, l[j].pno>> \in order

(* What stays of a sequence when one element is taken out. *)
LEMMA RemoveAtProperties ==
    ASSUME NEW S, NEW s \in Seq(S), NEW k \in 1..Len(s)
    PROVE  /\ RemoveAt(s, k) \in Seq(S)
           /\ Len(RemoveAt(s, k)) = Len(s) - 1
           /\ \A i \in 1..(Len(s) - 1) :
                RemoveAt(s, k)[i] = IF i < k THEN s[i] ELSE s[i + 1]
<1> DEFINE front == SubSeq(s, 1, k - 1)
           back  == SubSeq(s, k + 1, Len(s))
<1>1. Len(s) \in Nat /\ \A i \in 1..Len(s) : s[i] \in S
  BY LenProperties, ElementOfSeq
<1>2. /\ front \in Seq(S) /\ Len(front) = k - 1
      /\ \A i \in 1..(k - 1) : front[i] = s[i]
  BY <1>1, SubSeqProperties
<1>3. /\ back \in Seq(S) /\ Len(back) = Len(s) - k
      /\ \A i \in 1..(Len(s) - k) : back[i] = s[k + i]
  <2>1. /\ k + 1 \in Int /\ Len(s) \in Int
        /\ \A i \in (k + 1)..Len(s) : s[i] \in S
    BY <1>1
  <2>2. /\ back \in Seq(S)
        /\ Len(back) = IF k + 1 <= Len(s) THEN Len(s) - (k + 1) + 1 ELSE 0
        /\ \A i \in 1..(Len(s) - (k + 1) + 1) : back[i] = s[(k + 1) + i - 1]
    BY <2>1, SubSeqProperties
  <2> HIDE DEF back
  <2>3. Len(back) = Len(s) - k
    BY <1>1, <2>2
  <2>4. ASSUME NEW i \in 1..(Len(s) - k) PROVE back[i] = s[k + i]
    <3>1. i \in 1..(Len(s) - (k + 1) + 1) /\ (k + 1) + i - 1 = k + i
      BY <1>1
    <3>2. back[i] = s[(k + 1) + i - 1]
      BY <2>2, <3>1
    <3> QED
      BY <3>1, <3>2
  <2> QED
    BY <2>2, <2>3, <2>4
<1> DEFINE r == front \o back
<1>4. /\ r \in Seq(S)
      /\ Len(r) = Len(s) - 1
      /\ \A i \in 1..(Len(s) - 1) :
           r[i] = IF i <= k - 1 THEN front[i] ELSE back[i - (k - 1)]
  <2> HIDE DEF front, back
  <2>1. /\ r \in Seq(S)
        /\ Len(r) = Len(front) + Len(back)
        /\ \A i \in 1..(Len(front) + Len(back)) :
             r[i] = IF i <= Len(front) THEN front[i] ELSE back[i - Len(front)]
    BY <1>2, <1>3, ConcatProperties
  <2>2. Len(front) + Len(back) = Len(s) - 1
    BY <1>1, <1>2, <1>3
  <2> HIDE DEF r
  <2> QED
    BY <1>2, <2>1, <2>2
<1>5. RemoveAt(s, k) = r
  BY DEF RemoveAt
<1> HIDE DEF front, back, r
<1>6. ASSUME NEW i \in 1..(Len(s) - 1)
      PROVE  r[i] = IF i < k THEN s[i] ELSE s[i + 1]
  <2>1. CASE i < k
    <3>1. i \in 1..(k - 1) /\ i <= k - 1
      BY <1>1, <2>1
    <3> QED
      BY <1>2, <1>4, <2>1, <3>1
  <2>2. CASE i >= k
    <3> DEFINE j == i - (k - 1)
    <3>1. j \in 1..(Len(s) - k) /\ k + j = i + 1 /\ ~(i <= k - 1) /\ ~(i < k)
      BY <1>1, <2>2
    <3>2. r[i] = back[j]
      BY <1>4, <3>1
    <3> HIDE DEF j
    <3>3. back[j] = s[i + 1]
      BY <1>3, <3>1
    <3> QED
      BY <3>1, <3>2, <3>3
  <2>3. i \in Int /\ k \in Int
    BY <1>1
  <2> QED
    BY <2>1, <2>2, <2>3
<1> QED
  BY <1>4, <1>5, <1>6

(* Taking the copy of a page out of the list (line 50, line 108).          *)
LEMMA CopyRemoved ==
    ASSUME NEW l \in Seq(PageObjects), Distinct(l), NEW k \in 1..Len(l)
    PROVE  /\ RemoveAt(l, k) \in Seq(PageObjects)
           /\ Numbers(RemoveAt(l, k)) = Numbers(l) \ {l[k].pno}
           /\ Distinct(RemoveAt(l, k))
           /\ Clean(l) => Clean(RemoveAt(l, k))
           /\ \A order : Ordered(l, order) => Ordered(RemoveAt(l, k), order)
<1> DEFINE r == RemoveAt(l, k)
           from(i) == IF i < k THEN i ELSE i + 1
<1>1. /\ r \in Seq(PageObjects) /\ Len(r) = Len(l) - 1 /\ Len(l) \in Nat
      /\ \A i \in 1..(Len(l) - 1) : r[i] = IF i < k THEN l[i] ELSE l[i + 1]
  BY RemoveAtProperties, LenProperties
<1> HIDE DEF r
<1>2. \A i \in 1..Len(r) : r[i] = l[from(i)] /\ from(i) \in 1..Len(l) /\ from(i) # k
  BY <1>1
<1>3. \A i, j \in 1..Len(r) : /\ from(i) = from(j) => i = j
                              /\ i < j => from(i) < from(j)
  BY <1>1
<1>4. Numbers(r) = Numbers(l) \ {l[k].pno}
  <2>1. ASSUME NEW i \in 1..Len(r) PROVE r[i].pno \in Numbers(l) \ {l[k].pno}
    BY <1>2 DEF Distinct, Numbers
  <2>2. ASSUME NEW j \in 1..Len(l), j # k PROVE l[j].pno \in Numbers(r)
    <3>1. CASE j < k
      <4>1. j \in 1..Len(r) /\ r[j] = l[j]
        BY <1>1, <3>1
      <4> QED
        BY <4>1 DEF Numbers
    <3>2. CASE j > k
      <4>1. j - 1 \in 1..Len(r) /\ r[j - 1] = l[j]
        BY <1>1, <3>2
      <4> QED
        BY <4>1 DEF Numbers
    <3> QED
      BY <1>1, <2>2, <3>1, <3>2
  <2> QED
    BY <2>1, <2>2 DEF Numbers
<1> HIDE DEF from
<1>5. Distinct(r)
  BY <1>2, <1>3 DEF Distinct
<1>6. Clean(l) => Clean(r)
  BY <1>2 DEF Clean
<1>7. \A order : Ordered(l, order) => Ordered(r, order)
  BY <1>2, <1>3 DEF Ordered
<1> QED
  BY <1>1, <1>4, <1>5, <1>6, <1>7 DEF r

(* Putting a copy at the end, for a page whose copy the list does not hold. *)
LEMMA CopyAppended ==
    ASSUME NEW l \in Seq(PageObjects), Distinct(l),
           NEW e \in PageObjects, e.pno \notin Numbers(l)
    PROVE  /\ Append(l, e) \in Seq(PageObjects)
           /\ Numbers(Append(l, e)) = Numbers(l) \cup {e.pno}
           /\ Distinct(Append(l, e))
           /\ Clean(l) /\ ~e.dirty => Clean(Append(l, e))
<1> DEFINE r == Append(l, e)
<1>1. /\ r \in Seq(PageObjects) /\ Len(r) = Len(l) + 1 /\ Len(l) \in Nat
      /\ \A i \in 1..Len(l) : r[i] = l[i]
      /\ r[Len(l) + 1] = e
  BY AppendProperties, LenProperties
<1> HIDE DEF r
<1>2. \A i \in 1..Len(r) : i \in 1..Len(l) \/ i = Len(l) + 1
  BY <1>1
<1>3. Numbers(r) = Numbers(l) \cup {e.pno}
  <2>1. \A i \in 1..Len(r) : r[i].pno \in Numbers(l) \cup {e.pno}
    BY <1>1, <1>2 DEF Numbers
  <2>2. \A i \in 1..Len(l) : l[i].pno \in Numbers(r)
    BY <1>1 DEF Numbers
  <2>3. e.pno \in Numbers(r)
    BY <1>1 DEF Numbers
  <2> QED
    BY <2>1, <2>2, <2>3 DEF Numbers
<1>4. Distinct(r)
  BY <1>1, <1>2 DEF Distinct, Numbers
<1>5. Clean(l) /\ ~e.dirty => Clean(r)
  BY <1>1, <1>2 DEF Clean
<1> QED
  BY <1>1, <1>3, <1>4, <1>5 DEF r

(* The page of the copy at the end has been got after all others. *)
GotNow(order, p) == {b \in order : b[1] # p} \cup ((Pages \ {p}) \X {p})

(* A page got now goes to the end of the list, the last in the order of *)
(* use.                                                                 *)
LEMMA OrderAppended ==
    ASSUME NEW l \in Seq(PageObjects), NEW order,
           NEW e \in PageObjects, e.pno \notin Numbers(l), Ordered(l, order)
    PROVE  Ordered(Append(l, e), GotNow(order, e.pno))
<1> DEFINE r == Append(l, e)
<1>1. /\ Len(r) = Len(l) + 1 /\ Len(l) \in Nat
      /\ \A i \in 1..Len(l) : r[i] = l[i]
      /\ r[Len(l) + 1] = e
  BY AppendProperties, LenProperties
<1>2. \A i \in 1..Len(l) : l[i].pno \in Pages /\ l[i].pno # e.pno
  <2> SUFFICES ASSUME NEW i \in 1..Len(l) PROVE l[i].pno \in Pages /\ l[i].pno # e.pno
    OBVIOUS
  <2>1. l[i] \in PageObjects
    BY ElementOfSeq
  <2>2. l[i].pno \in Numbers(l)
    BY DEF Numbers
  <2> QED
    BY <2>1, <2>2 DEF PageObjects
<1> HIDE DEF r
<1>3. ASSUME NEW i \in 1..Len(r), NEW j \in 1..Len(r), i < j
      PROVE  <<r[i].pno, r[j].pno>> \in GotNow(order, e.pno)
  <2>1. i \in 1..Len(l) /\ r[i] = l[i]
    BY <1>1, <1>3
  <2>2. CASE j \in 1..Len(l)
    <3>1. <<l[i].pno, l[j].pno>> \in order
      BY <1>3, <2>1, <2>2 DEF Ordered
    <3> QED
      BY <1>1, <1>2, <2>1, <2>2, <3>1 DEF GotNow
  <2>3. CASE j = Len(l) + 1
    BY <1>1, <1>2, <2>1, <2>3 DEF GotNow
  <2> QED
    BY <1>1, <2>2, <2>3
<1> QED
  BY <1>3 DEF Ordered, r

----------------------------------------------------------------------------
(* The inductive invariant. *)

(* Eviction makes room: one page comes for one that goes. *)
Bounded ==
    /\ IsFiniteSet(Loaded)
    /\ Capacity # 0 => Cardinality(Loaded) <= Capacity

(* Only get_page of a dirty page makes a dirty copy, the kind whose        *)
(* destructor writes.                                                      *)
CopiesClean == ~reget => Clean(page_lst)

(* The copies are in the order in which their pages were got last. *)
InOrder == Ordered(page_lst, before)

Structure ==
    /\ TypeOK
    /\ Numbers(page_lst) = Loaded /\ Distinct(page_lst)
    /\ Bounded
    /\ InOrder

Contents == CopiesClean /\ CleanMeansSaved /\ NoStoreIsLost

IInv == Structure /\ Contents

(* What the list and the map agree on, in the form the proofs need. *)
LEMMA ListForm ==
    ASSUME TypeOK
    PROVE  ListMatchesMap <=> Numbers(page_lst) = Loaded /\ Distinct(page_lst)
<1>1. DOMAIN page_lst = 1..Len(page_lst)
  BY DEF TypeOK
<1> QED
  BY <1>1 DEF ListMatchesMap, Numbers, Distinct

(* A page that is loaded, its copy, and the list without it. *)
LEMMA LoadedPage ==
    ASSUME Structure, NEW p \in Loaded
    PROVE  /\ p \in Pages /\ page_map[p] \in PageObjects /\ page_map[p].pno = p
           /\ Copy(p) \in PageObjects /\ Copy(p).pno = p
           /\ CopiesClean /\ ~reget => ~Copy(p).dirty
           /\ Without(p) \in Seq(PageObjects)
           /\ Numbers(Without(p)) = Loaded \ {p}
           /\ Distinct(Without(p))
           /\ Clean(page_lst) => Clean(Without(p))
           /\ Ordered(Without(p), before)
<1>1. p \in Pages /\ page_map[p] \in PageObjects /\ page_map[p].pno = p
  BY DEF Structure, TypeOK, Loaded
<1>2. page_lst \in Seq(PageObjects) /\ DOMAIN page_lst = 1..Len(page_lst)
  BY DEF Structure, TypeOK
<1>3. \E k \in DOMAIN page_lst : page_lst[k].pno = p
  BY <1>2 DEF Structure, Numbers
<1>4. Position(p) \in 1..Len(page_lst) /\ page_lst[Position(p)].pno = p
  BY <1>2, <1>3 DEF Position
<1>5. Copy(p) \in PageObjects /\ Copy(p).pno = p
  BY <1>2, <1>4, ElementOfSeq DEF Copy
<1>6. CopiesClean /\ ~reget => ~Copy(p).dirty
  BY <1>4 DEF CopiesClean, Clean, Copy
<1> QED
  BY <1>1, <1>2, <1>4, <1>5, <1>6, CopyRemoved DEF Structure, InOrder, Without

(* Page::flush and ~Page change the bytes of their own page only. *)
LEMMA FlushedPage ==
    ASSUME NEW sw \in [Pages -> Data], NEW pg \in PageObjects
    PROVE  /\ Flushed(sw, pg) \in [Pages -> Data]
           /\ \A q \in Pages : Flushed(sw, pg)[q] =
                                 IF pg.dirty /\ q = pg.pno THEN pg.data ELSE sw[q]
  BY DEF Flushed, PageObjects

(* discard_page while no copy is dirty: the page's bytes are on disk.      *)
LEMMA DiscardSaves ==
    ASSUME IInv, NEW p \in Loaded
    PROVE  /\ SwapAfterDiscard(p) \in [Pages -> Data]
           /\ ~reget => /\ SwapAfterDiscard(p)[p] = page_map[p].data
                        /\ \A q \in Pages \ {p} : SwapAfterDiscard(p)[q] = swap_file[q]
<1> DEFINE sw == Flushed(swap_file, page_map[p])
<1>1. /\ p \in Pages /\ page_map[p] \in PageObjects /\ page_map[p].pno = p
      /\ Copy(p) \in PageObjects /\ Copy(p).pno = p
      /\ ~reget => ~Copy(p).dirty
  BY LoadedPage DEF IInv, Contents
<1>2. swap_file \in [Pages -> Data]
  BY DEF IInv, Structure, TypeOK
<1>3. /\ sw \in [Pages -> Data]
      /\ \A q \in Pages : sw[q] = IF page_map[p].dirty /\ q = page_map[p].pno
                                  THEN page_map[p].data ELSE swap_file[q]
  BY <1>1, <1>2, FlushedPage
<1> HIDE DEF sw
<1>4. /\ Flushed(sw, Copy(p)) \in [Pages -> Data]
      /\ ~reget => Flushed(sw, Copy(p)) = sw
  BY <1>1, <1>3, FlushedPage DEF Flushed
<1>5. ~reget /\ ~page_map[p].dirty => page_map[p].data = swap_file[p]
  BY DEF IInv, Contents, CleanMeansSaved
<1>6. ~reget => /\ sw[p] = page_map[p].data
                /\ \A q \in Pages \ {p} : sw[q] = swap_file[q]
  BY <1>1, <1>3, <1>5
<1> QED
  BY <1>4, <1>6 DEF SwapAfterDiscard, sw

(* A page read from disk has its number, the disk's data, and is not *)
(* dirty.                                                            *)
LEMMA NewPageType ==
    ASSUME NEW sw \in [Pages -> Data], NEW p \in Pages
    PROVE  /\ NewPage(sw, p) \in PageObjects
           /\ NewPage(sw, p).pno = p /\ ~NewPage(sw, p).dirty
           /\ NewPage(sw, p).data = sw[p]
  BY DEF NewPage, PageObjects

(* A fresh table. *)
LEMMA InitIInv == Init => IInv
<1> SUFFICES ASSUME Init PROVE IInv
  OBVIOUS
<1>1. Loaded = {}
  BY DEF Init, Loaded
<1>2. /\ page_lst \in Seq(PageObjects) /\ Len(page_lst) = 0
  BY DEF Init
<1>3. TypeOK
  BY <1>1, <1>2, TableAssumption DEF Init, TypeOK
<1>4. Numbers(page_lst) = Loaded /\ Distinct(page_lst) /\ InOrder /\ Clean(page_lst)
  BY <1>1, <1>2 DEF Numbers, Distinct, InOrder, Ordered, Clean
<1>5. Bounded
  BY <1>1, FS_EmptySet, TableAssumption DEF Bounded
<1>6. Contents
  BY <1>1, <1>4 DEF Init, Contents, CopiesClean, CleanMeansSaved, NoStoreIsLost,
                    LastStoreIsKept, Content
<1> QED
  BY <1>3, <1>4, <1>5, <1>6 DEF IInv, Structure

----------------------------------------------------------------------------
(* Every step keeps it.                                                    *)

(* get_page of a loaded page (line 31). *)
LEMMA HitStep ==
    ASSUME IInv, NEW va \in Addresses, GetPage(va), Hit(PageNumber(va))
    PROVE  IInv'
<1> DEFINE p == PageNumber(va)
<1> USE DEF IInv
<1>1. /\ p \in Loaded
      /\ swap_file' = Flushed(swap_file, Copy(p))
      /\ page_lst' = Append(Without(p), page_map[p])
      /\ UNCHANGED <<page_map, open, stored>>
      /\ reget' = (reget \/ (p \in Loaded /\ page_map[p].dirty))
      /\ before' = GotNow(before, p)
  BY DEF GetPage, Hit, GotNow
<1> HIDE DEF p
<1>2. /\ p \in Pages /\ page_map[p] \in PageObjects /\ page_map[p].pno = p
      /\ Copy(p) \in PageObjects
      /\ ~reget => ~Copy(p).dirty
      /\ Without(p) \in Seq(PageObjects) /\ Numbers(Without(p)) = Loaded \ {p}
      /\ Distinct(Without(p)) /\ Ordered(Without(p), before)
      /\ Clean(page_lst) => Clean(Without(p))
  BY <1>1, LoadedPage DEF Contents
<1>3. Loaded' = Loaded
  BY <1>1 DEF Loaded
<1>4. /\ page_lst' \in Seq(PageObjects)
      /\ Numbers(page_lst') = (Loaded \ {p}) \cup {p}
      /\ Distinct(page_lst')
      /\ Clean(Without(p)) /\ ~page_map[p].dirty => Clean(page_lst')
  BY <1>1, <1>2, CopyAppended
<1>5. InOrder'
  BY <1>1, <1>2, OrderAppended DEF InOrder
<1>6. TypeOK'
  <2>1. swap_file' \in [Pages -> Data]
    BY <1>1, <1>2, FlushedPage DEF Structure, TypeOK
  <2>2. reget' \in BOOLEAN /\ before' \subseteq Pages \X Pages
    BY <1>1, <1>2 DEF Structure, TypeOK, GotNow, PageObjects
  <2> QED
    BY <1>1, <1>3, <1>4, <2>1, <2>2 DEF Structure, TypeOK
<1>7. Structure'
  BY <1>1, <1>3, <1>4, <1>5, <1>6 DEF Structure, Bounded
<1>8. Contents'
  <2>1. CASE reget'
    BY <2>1 DEF Contents, CopiesClean, CleanMeansSaved, NoStoreIsLost
  <2>2. CASE ~reget'
    <3>1. ~reget /\ ~page_map[p].dirty
      BY <1>1, <2>2
    <3>2. swap_file' = swap_file
      BY <1>1, <1>2, <3>1 DEF Flushed
    <3>3. Clean(page_lst')
      BY <1>2, <1>4, <3>1 DEF Contents, CopiesClean
    <3> QED
      BY <1>1, <1>3, <3>1, <3>2, <3>3
      DEF Contents, CopiesClean, CleanMeansSaved, NoStoreIsLost, LastStoreIsKept, Content
  <2> QED
    BY <2>1, <2>2
<1> QED
  BY <1>7, <1>8

(* get_page of a page to load, with room for it (line 42). *)
LEMMA MissStep ==
    ASSUME IInv, NEW va \in Addresses, GetPage(va), Miss(PageNumber(va))
    PROVE  IInv'
<1> DEFINE p == PageNumber(va)
           e == NewPage(swap_file, p)
<1> USE DEF IInv
<1>1. /\ p \in Pages /\ p \notin Loaded /\ (~Full \/ Loaded = {})
      /\ page_map' = [page_map EXCEPT ![p] = e]
      /\ page_lst' = Append(page_lst, page_map'[p])
      /\ UNCHANGED <<swap_file, open, stored, reget>>
      /\ before' = GotNow(before, p)
  BY DEF GetPage, Miss, GotNow, Pages, Structure, TypeOK
<1> HIDE DEF p
<1>2. e \in PageObjects /\ e.pno = p /\ ~e.dirty /\ e.data = swap_file[p]
  BY <1>1, NewPageType DEF Structure, TypeOK
<1> HIDE DEF e
<1>3. page_map'[p] = e /\ \A q \in Pages \ {p} : page_map'[q] = page_map[q]
  BY <1>1 DEF Structure, TypeOK
<1>4. Loaded' = Loaded \cup {p}
  BY <1>1, <1>2, <1>3, NullAssumption DEF Loaded
<1>5. /\ page_lst' \in Seq(PageObjects)
      /\ Numbers(page_lst') = Loaded \cup {p}
      /\ Distinct(page_lst')
      /\ Clean(page_lst) => Clean(page_lst')
  <2>1. page_lst \in Seq(PageObjects) /\ Numbers(page_lst) = Loaded /\ Distinct(page_lst)
    BY DEF Structure, TypeOK
  <2> QED
    BY <1>1, <1>2, <1>3, <2>1, CopyAppended
<1>6. InOrder'
  <2>1. page_lst \in Seq(PageObjects) /\ Numbers(page_lst) = Loaded /\ Ordered(page_lst, before)
    BY DEF Structure, TypeOK, InOrder
  <2> QED
    BY <1>1, <1>2, <1>3, <2>1, OrderAppended DEF InOrder
<1>7. TypeOK'
  <2>1. page_map' \in [Pages -> PageObjects \cup {NULL}]
    BY <1>1, <1>2 DEF Structure, TypeOK
  <2>2. \A q \in Loaded' : page_map'[q].pno = q
    BY <1>2, <1>3, <1>4 DEF Structure, TypeOK, Loaded
  <2>3. before' \subseteq Pages \X Pages
    BY <1>1 DEF Structure, TypeOK, GotNow
  <2> QED
    BY <1>1, <1>5, <2>1, <2>2, <2>3 DEF Structure, TypeOK
<1>8. Bounded'
  <2>1. /\ IsFiniteSet(Loaded')
        /\ Cardinality(Loaded') = Cardinality(Loaded) + 1 /\ Cardinality(Loaded) \in Nat
    BY <1>1, <1>4, FS_AddElement, FS_CardinalityType DEF Structure, Bounded
  <2>2. Cardinality(Loaded) # Capacity \/ Cardinality(Loaded) = 0
    BY <1>1, FS_EmptySet DEF Full
  <2>3. Capacity # 0 => Cardinality(Loaded) <= Capacity
    BY DEF Structure, Bounded
  <2> QED
    BY <2>1, <2>2, <2>3, TableAssumption DEF Bounded
<1>9. Contents'
  <2> SUFFICES ASSUME ~reget
               PROVE  /\ Clean(page_lst')
                      /\ \A q \in Loaded' : ~page_map'[q].dirty => page_map'[q].data = swap_file[q]
                      /\ \A q \in Pages : Content(q)' = stored[q]
    BY <1>1 DEF Contents, CopiesClean, CleanMeansSaved, NoStoreIsLost, LastStoreIsKept
  <2>1. Clean(page_lst')
    BY <1>5 DEF Contents, CopiesClean
  <2>2. \A q \in Loaded' : ~page_map'[q].dirty => page_map'[q].data = swap_file[q]
    BY <1>2, <1>3, <1>4 DEF Contents, CleanMeansSaved, Loaded
  <2>3. \A q \in Pages : Content(q)' = Content(q)
    BY <1>1, <1>2, <1>3, <1>4 DEF Content
  <2> QED
    BY <2>1, <2>2, <2>3 DEF Contents, NoStoreIsLost, LastStoreIsKept
<1> QED
  BY <1>1, <1>4, <1>5, <1>6, <1>7, <1>8, <1>9 DEF Structure

(* get_page of a page to load when the table is full: evict_page first     *)
(* (line 40).                                                              *)
LEMMA MissFullStep ==
    ASSUME IInv, NEW va \in Addresses, GetPage(va), MissFull(PageNumber(va))
    PROVE  IInv'
<1> DEFINE p == PageNumber(va)
           victim == Head(page_lst).pno
           e == NewPage(swap_file', p)
<1> USE DEF IInv
<1>1. /\ p \in Pages /\ p \notin Loaded /\ Full /\ Loaded # {}
      /\ swap_file' = SwapAfterDiscard(victim)
      /\ page_map' = [page_map EXCEPT ![victim] = NULL, ![p] = e]
      /\ page_lst' = Append(Without(victim), page_map'[p])
      /\ UNCHANGED <<open, stored, reget>>
      /\ before' = GotNow(before, p)
  BY DEF GetPage, MissFull, GotNow, Pages, Structure, TypeOK
<1>2. victim \in Loaded
  <2>1. page_lst \in Seq(PageObjects) /\ Numbers(page_lst) = Loaded
    BY DEF Structure, TypeOK
  <2>2. 1 \in 1..Len(page_lst) /\ Head(page_lst) = page_lst[1]
    BY <1>1, <2>1 DEF Numbers
  <2> QED
    BY <2>1, <2>2 DEF Numbers
<1> HIDE DEF p, victim
<1>3. /\ victim \in Pages /\ page_map[victim] \in PageObjects /\ page_map[victim].pno = victim
      /\ Without(victim) \in Seq(PageObjects)
      /\ Numbers(Without(victim)) = Loaded \ {victim}
      /\ Distinct(Without(victim)) /\ Ordered(Without(victim), before)
      /\ Clean(page_lst) => Clean(Without(victim))
  BY <1>2, LoadedPage
<1>4. /\ swap_file' \in [Pages -> Data]
      /\ ~reget => /\ swap_file'[victim] = page_map[victim].data
                   /\ \A q \in Pages \ {victim} : swap_file'[q] = swap_file[q]
  BY <1>1, <1>2, DiscardSaves
<1>5. e \in PageObjects /\ e.pno = p /\ ~e.dirty /\ e.data = swap_file'[p]
  BY <1>1, <1>4, NewPageType
<1> HIDE DEF e
<1>6. /\ victim # p /\ page_map'[p] = e /\ page_map'[victim] = NULL
      /\ \A q \in Pages \ {p, victim} : page_map'[q] = page_map[q]
      /\ page_map' \in [Pages -> PageObjects \cup {NULL}]
  <2>1. page_map \in [Pages -> PageObjects \cup {NULL}]
    BY DEF Structure, TypeOK
  <2> QED
    BY <1>1, <1>2, <1>3, <1>5, <2>1
<1>7. Loaded' = (Loaded \ {victim}) \cup {p}
  BY <1>1, <1>5, <1>6, NullAssumption DEF Loaded
<1>8. /\ page_lst' \in Seq(PageObjects)
      /\ Numbers(page_lst') = (Loaded \ {victim}) \cup {p}
      /\ Distinct(page_lst')
      /\ Clean(Without(victim)) => Clean(page_lst')
  BY <1>1, <1>3, <1>5, <1>6, CopyAppended
<1>9. InOrder'
  BY <1>1, <1>3, <1>5, <1>6, OrderAppended DEF InOrder
<1>10. TypeOK'
  <2>1. \A q \in Loaded' : page_map'[q].pno = q
    BY <1>5, <1>6, <1>7 DEF Structure, TypeOK, Loaded
  <2>2. before' \subseteq Pages \X Pages
    BY <1>1 DEF Structure, TypeOK, GotNow
  <2> QED
    BY <1>1, <1>4, <1>6, <1>8, <2>1, <2>2 DEF Structure, TypeOK
<1>11. Bounded'
  <2>1. /\ IsFiniteSet(Loaded \ {victim})
        /\ Cardinality(Loaded \ {victim}) = Cardinality(Loaded) - 1
        /\ Cardinality(Loaded) \in Nat
    BY <1>2, FS_RemoveElement, FS_CardinalityType DEF Structure, Bounded
  <2>2. /\ IsFiniteSet(Loaded')
        /\ Cardinality(Loaded') = Cardinality(Loaded \ {victim}) + 1
    BY <1>1, <1>7, <2>1, FS_AddElement
  <2> QED
    BY <2>1, <2>2 DEF Structure, Bounded
<1>12. Contents'
  <2> SUFFICES ASSUME ~reget
               PROVE  /\ Clean(page_lst')
                      /\ \A q \in Loaded' : ~page_map'[q].dirty => page_map'[q].data = swap_file'[q]
                      /\ \A q \in Pages : Content(q)' = stored[q]
    BY <1>1 DEF Contents, CopiesClean, CleanMeansSaved, NoStoreIsLost, LastStoreIsKept
  <2>1. Clean(page_lst')
    BY <1>3, <1>8 DEF Contents, CopiesClean
  <2>2. \A q \in Loaded' : ~page_map'[q].dirty => page_map'[q].data = swap_file'[q]
    BY <1>4, <1>5, <1>6, <1>7 DEF Contents, CleanMeansSaved, Loaded
  <2>3. \A q \in Pages : Content(q)' = Content(q)
    BY <1>1, <1>2, <1>4, <1>5, <1>6, <1>7 DEF Content
  <2> QED
    BY <2>1, <2>2, <2>3 DEF Contents, NoStoreIsLost, LastStoreIsKept
<1> QED
  BY <1>7, <1>8, <1>9, <1>10, <1>11, <1>12 DEF Structure

(* A step that keeps the same pages loaded, in the same order. *)
LEMMA SameList ==
    ASSUME Structure, Loaded' = Loaded, UNCHANGED <<page_lst, before>>, TypeOK'
    PROVE  Structure'
  BY DEF Structure, Bounded, InOrder

(* The user's store makes the page dirty. *)
LEMMA StoreStep ==
    ASSUME IInv, NEW p \in Pages, NEW d \in Data, Store(p, d)
    PROVE  IInv'
<1> USE DEF IInv
<1>1. /\ p \in Loaded
      /\ page_map' = [page_map EXCEPT ![p] = [@ EXCEPT !.data = d, !.dirty = TRUE]]
      /\ stored' = [stored EXCEPT ![p] = d]
      /\ UNCHANGED <<swap_file, page_lst, open, reget, before>>
  BY DEF Store
<1>2. page_map[p] \in PageObjects /\ page_map[p].pno = p
  BY <1>1, LoadedPage
<1>3. page_map \in [Pages -> PageObjects \cup {NULL}] /\ stored \in [Pages -> Data]
  BY DEF Structure, TypeOK
<1>4. /\ page_map'[p] \in PageObjects /\ page_map'[p].pno = p
      /\ page_map'[p].data = d
      /\ page_map'[p].dirty = TRUE
      /\ \A q \in Pages \ {p} : page_map'[q] = page_map[q]
      /\ page_map' \in [Pages -> PageObjects \cup {NULL}]
  <2> DEFINE new == [page_map[p] EXCEPT !.data = d, !.dirty = TRUE]
  <2>1. page_map' = [page_map EXCEPT ![p] = new]
    BY <1>1
  <2>2. new \in PageObjects /\ new.pno = p /\ new.data = d /\ new.dirty = TRUE
    BY <1>2 DEF PageObjects
  <2> HIDE DEF new
  <2> QED
    BY <1>3, <2>1, <2>2
<1>5. Loaded' = Loaded
  BY <1>1, <1>4, NullAssumption DEF Loaded
<1>6. TypeOK'
  BY <1>1, <1>3, <1>4, <1>5 DEF Structure, TypeOK
<1>7. Contents'
  <2> SUFFICES ASSUME ~reget
               PROVE  /\ Clean(page_lst)
                      /\ \A q \in Loaded : ~page_map'[q].dirty => page_map'[q].data = swap_file[q]
                      /\ \A q \in Pages : Content(q)' = stored'[q]
    BY <1>1, <1>5 DEF Contents, CopiesClean, CleanMeansSaved, NoStoreIsLost, LastStoreIsKept
  <2>1. Clean(page_lst)
    BY DEF Contents, CopiesClean
  <2>2. \A q \in Loaded : ~page_map'[q].dirty => page_map'[q].data = swap_file[q]
    BY <1>4 DEF Contents, CleanMeansSaved, Loaded
  <2>3. \A q \in Pages : Content(q)' = stored'[q]
    BY <1>1, <1>3, <1>4, <1>5 DEF Content, Contents, NoStoreIsLost, LastStoreIsKept
  <2> QED
    BY <2>1, <2>2, <2>3
<1> QED
  BY <1>1, <1>5, <1>6, <1>7, SameList

(* flush_page: the page's bytes go to the swap file. *)
LEMMA FlushStep ==
    ASSUME IInv, NEW p \in Pages, FlushPage(p)
    PROVE  IInv'
<1> USE DEF IInv
<1>1. /\ p \in Loaded
      /\ swap_file' = Flushed(swap_file, page_map[p])
      /\ page_map' = [page_map EXCEPT ![p] = [@ EXCEPT !.dirty = FALSE]]
      /\ UNCHANGED <<page_lst, open, stored, reget, before>>
  BY DEF FlushPage
<1>2. page_map[p] \in PageObjects /\ page_map[p].pno = p
  BY <1>1, LoadedPage
<1>3. page_map \in [Pages -> PageObjects \cup {NULL}] /\ swap_file \in [Pages -> Data]
  BY DEF Structure, TypeOK
<1>4. /\ page_map'[p] \in PageObjects /\ page_map'[p].pno = p
      /\ page_map'[p].data = page_map[p].data
      /\ \A q \in Pages \ {p} : page_map'[q] = page_map[q]
      /\ page_map' \in [Pages -> PageObjects \cup {NULL}]
  <2> DEFINE new == [page_map[p] EXCEPT !.dirty = FALSE]
  <2>1. page_map' = [page_map EXCEPT ![p] = new]
    BY <1>1
  <2>2. new \in PageObjects /\ new.pno = p /\ new.data = page_map[p].data
    BY <1>2 DEF PageObjects
  <2> HIDE DEF new
  <2> QED
    BY <1>3, <2>1, <2>2
<1>5. Loaded' = Loaded
  BY <1>1, <1>4, NullAssumption DEF Loaded
<1>6. /\ swap_file' \in [Pages -> Data]
      /\ \A q \in Pages : swap_file'[q] = IF page_map[p].dirty /\ q = page_map[p].pno
                                          THEN page_map[p].data ELSE swap_file[q]
  BY <1>1, <1>2, <1>3, FlushedPage
<1>7. TypeOK'
  BY <1>1, <1>4, <1>5, <1>6 DEF Structure, TypeOK
<1>8. Contents'
  <2> SUFFICES ASSUME ~reget
               PROVE  /\ Clean(page_lst)
                      /\ \A q \in Loaded : ~page_map'[q].dirty => page_map'[q].data = swap_file'[q]
                      /\ \A q \in Pages : Content(q)' = stored[q]
    BY <1>1, <1>5 DEF Contents, CopiesClean, CleanMeansSaved, NoStoreIsLost, LastStoreIsKept
  <2>1. Clean(page_lst)
    BY DEF Contents, CopiesClean
  <2>2. swap_file'[p] = page_map[p].data /\ \A q \in Pages \ {p} : swap_file'[q] = swap_file[q]
    BY <1>1, <1>2, <1>6 DEF Contents, CleanMeansSaved
  <2>3. \A q \in Loaded : ~page_map'[q].dirty => page_map'[q].data = swap_file'[q]
    BY <1>4, <2>2 DEF Contents, CleanMeansSaved, Loaded
  <2>4. \A q \in Pages : Content(q)' = Content(q)
    BY <1>1, <1>4, <1>5, <2>2 DEF Content
  <2> QED
    BY <2>1, <2>3, <2>4 DEF Contents, NoStoreIsLost, LastStoreIsKept
<1> QED
  BY <1>1, <1>5, <1>7, <1>8, SameList

(* What flush_all_pages leaves on disk. *)
LEMMA AllFlushed ==
    ASSUME IInv
    PROVE  /\ SwapAfterFlushAll \in [Pages -> Data]
           /\ ~reget => \A q \in Pages : SwapAfterFlushAll[q] = Content(q)
<1>1. SwapAfterFlushAll \in [Pages -> Data]
  BY DEF IInv, Structure, TypeOK, SwapAfterFlushAll, Loaded, PageObjects
<1>2. ASSUME ~reget, NEW q \in Pages PROVE SwapAfterFlushAll[q] = Content(q)
  BY <1>2 DEF IInv, Contents, CleanMeansSaved, SwapAfterFlushAll, Content
<1> QED
  BY <1>1, <1>2

(* flush_all_pages *)
LEMMA FlushAllStep == IInv /\ FlushAllPages => IInv'
<1> SUFFICES ASSUME IInv, FlushAllPages PROVE IInv'
  OBVIOUS
<1> USE DEF IInv
<1>1. /\ swap_file' = SwapAfterFlushAll
      /\ page_map' = [q \in Pages |-> IF q \in Loaded THEN [page_map[q] EXCEPT !.dirty = FALSE]
                                                      ELSE NULL]
      /\ UNCHANGED <<page_lst, open, stored, reget, before>>
  BY DEF FlushAllPages
<1>2. ASSUME NEW q \in Loaded
      PROVE  /\ page_map'[q] \in PageObjects /\ page_map'[q].pno = q
             /\ page_map'[q].data = page_map[q].data
  <2>1. page_map[q] \in PageObjects /\ page_map[q].pno = q /\ q \in Pages
    BY LoadedPage
  <2>2. page_map'[q] = [page_map[q] EXCEPT !.dirty = FALSE]
    BY <1>1, <2>1
  <2> QED
    BY <2>1, <2>2 DEF PageObjects
<1>3. \A q \in Pages \ Loaded : page_map'[q] = NULL
  BY <1>1
<1>4. Loaded' = Loaded
  BY <1>2, <1>3, NullAssumption DEF Loaded
<1>5. page_map' \in [Pages -> PageObjects \cup {NULL}]
  <2>1. DOMAIN page_map' = Pages /\ page_map' = [q \in Pages |-> page_map'[q]]
    BY <1>1
  <2> QED
    BY <1>2, <1>3, <2>1
<1>6. TypeOK'
  BY <1>1, <1>2, <1>4, <1>5, AllFlushed DEF Structure, TypeOK
<1>7. Contents'
  <2> SUFFICES ASSUME ~reget
               PROVE  /\ Clean(page_lst)
                      /\ \A q \in Loaded : page_map'[q].data = swap_file'[q]
                      /\ \A q \in Pages : Content(q)' = stored[q]
    BY <1>1, <1>4 DEF Contents, CopiesClean, CleanMeansSaved, NoStoreIsLost, LastStoreIsKept
  <2>1. Clean(page_lst)
    BY DEF Contents, CopiesClean
  <2>2. \A q \in Pages : swap_file'[q] = Content(q)
    BY <1>1, AllFlushed
  <2>3. \A q \in Loaded : page_map'[q].data = swap_file'[q]
    BY <1>2, <2>2 DEF Content, Loaded
  <2>4. \A q \in Pages : Content(q)' = Content(q)
    BY <1>2, <1>4, <2>2 DEF Content
  <2> QED
    BY <2>1, <2>3, <2>4 DEF Contents, NoStoreIsLost, LastStoreIsKept
<1> QED
  BY <1>1, <1>4, <1>6, <1>7, SameList

(* discard_page, also as evict_page. *)
LEMMA DiscardStep ==
    ASSUME IInv, NEW p, DiscardPage(p)
    PROVE  IInv'
<1> USE DEF IInv
<1>1. /\ p \in Loaded
      /\ swap_file' = SwapAfterDiscard(p)
      /\ page_map' = [page_map EXCEPT ![p] = NULL]
      /\ page_lst' = Without(p)
      /\ UNCHANGED <<open, stored, reget, before>>
  BY DEF DiscardPage
<1>2. /\ p \in Pages
      /\ page_lst' \in Seq(PageObjects) /\ Numbers(page_lst') = Loaded \ {p}
      /\ Distinct(page_lst') /\ Ordered(page_lst', before)
      /\ Clean(page_lst) => Clean(page_lst')
  BY <1>1, LoadedPage
<1>3. /\ swap_file' \in [Pages -> Data]
      /\ ~reget => /\ swap_file'[p] = page_map[p].data
                   /\ \A q \in Pages \ {p} : swap_file'[q] = swap_file[q]
  BY <1>1, DiscardSaves
<1>4. /\ page_map'[p] = NULL /\ \A q \in Pages \ {p} : page_map'[q] = page_map[q]
      /\ page_map' \in [Pages -> PageObjects \cup {NULL}]
  BY <1>1, <1>2 DEF Structure, TypeOK
<1>5. Loaded' = Loaded \ {p}
  BY <1>1, <1>4 DEF Loaded
<1>6. TypeOK'
  BY <1>1, <1>2, <1>3, <1>4, <1>5 DEF Structure, TypeOK, Loaded
<1>7. Bounded'
  <2>1. /\ IsFiniteSet(Loaded')
        /\ Cardinality(Loaded') = Cardinality(Loaded) - 1 /\ Cardinality(Loaded) \in Nat
    BY <1>1, <1>5, FS_RemoveElement, FS_CardinalityType DEF Structure, Bounded
  <2> QED
    BY <2>1, TableAssumption DEF Structure, Bounded
<1>8. Structure'
  BY <1>1, <1>2, <1>5, <1>6, <1>7 DEF Structure, InOrder
<1>9. Contents'
  <2> SUFFICES ASSUME ~reget
               PROVE  /\ Clean(page_lst')
                      /\ \A q \in Loaded' : ~page_map'[q].dirty => page_map'[q].data = swap_file'[q]
                      /\ \A q \in Pages : Content(q)' = stored[q]
    BY <1>1 DEF Contents, CopiesClean, CleanMeansSaved, NoStoreIsLost, LastStoreIsKept
  <2>1. Clean(page_lst')
    BY <1>2 DEF Contents, CopiesClean
  <2>2. \A q \in Loaded' : ~page_map'[q].dirty => page_map'[q].data = swap_file'[q]
    BY <1>3, <1>4, <1>5 DEF Contents, CleanMeansSaved, Loaded
  <2>3. \A q \in Pages : Content(q)' = Content(q)
    BY <1>1, <1>3, <1>4, <1>5 DEF Content
  <2> QED
    BY <2>1, <2>2, <2>3 DEF Contents, NoStoreIsLost, LastStoreIsKept
<1> QED
  BY <1>8, <1>9

(* The destructor. *)
LEMMA DestroyStep == IInv /\ Destroy => IInv'
<1> SUFFICES ASSUME IInv, Destroy PROVE IInv'
  OBVIOUS
<1> USE DEF IInv
<1>1. /\ swap_file' = SwapAfterFlushAll
      /\ page_map' = [q \in Pages |-> NULL]
      /\ page_lst' = << >> /\ open' = FALSE
      /\ UNCHANGED <<stored, reget, before>>
  BY DEF Destroy
<1>2. Loaded' = {}
  BY <1>1 DEF Loaded
<1>3. page_lst' \in Seq(PageObjects) /\ Len(page_lst') = 0
  BY <1>1
<1>4. TypeOK'
  BY <1>1, <1>2, <1>3, AllFlushed DEF Structure, TypeOK
<1>5. Numbers(page_lst') = {} /\ Distinct(page_lst') /\ InOrder' /\ Clean(page_lst')
  BY <1>3 DEF Numbers, Distinct, InOrder, Ordered, Clean
<1>6. Bounded'
  BY <1>2, FS_EmptySet, TableAssumption DEF Bounded
<1>7. Contents'
  <2>1. ASSUME ~reget, NEW q \in Pages PROVE Content(q)' = stored[q]
    BY <1>1, <1>2, <2>1, AllFlushed DEF Content, Contents, NoStoreIsLost, LastStoreIsKept
  <2> QED
    BY <1>1, <1>2, <1>5, <2>1 DEF Contents, CopiesClean, CleanMeansSaved, NoStoreIsLost,
                                  LastStoreIsKept
<1> QED
  BY <1>2, <1>4, <1>5, <1>6, <1>7 DEF Structure

(* A step that changes nothing. *)
LEMMA StutterStep == IInv /\ UNCHANGED vars => IInv'
<1> SUFFICES ASSUME IInv, UNCHANGED <<swap_file, page_map, page_lst, open, stored, reget, before>>
             PROVE  IInv'
  BY DEF vars
<1>1. Loaded' = Loaded
  BY DEF Loaded
<1>2. TypeOK'
  BY <1>1 DEF IInv, Structure, TypeOK
<1>3. Contents'
  BY <1>1 DEF IInv, Contents, CopiesClean, CleanMeansSaved, NoStoreIsLost, LastStoreIsKept, Content
<1> QED
  BY <1>1, <1>2, <1>3, SameList DEF IInv

(* Every operation keeps the invariant. *)
LEMMA NextIInv == IInv /\ [Next]_vars => IInv'
<1> SUFFICES ASSUME IInv, [Next]_vars PROVE IInv'
  OBVIOUS
<1>1. CASE \E va \in Addresses : GetPage(va)
  <2>1. PICK va \in Addresses : GetPage(va)
    BY <1>1
  <2>2. Hit(PageNumber(va)) \/ Miss(PageNumber(va)) \/ MissFull(PageNumber(va))
    BY <2>1 DEF GetPage
  <2> QED
    BY <2>1, <2>2, HitStep, MissStep, MissFullStep
<1>2. CASE \E p \in Pages, d \in Data : Store(p, d)
  BY <1>2, StoreStep
<1>3. CASE \E p \in Pages : FlushPage(p) \/ DiscardPage(p)
  BY <1>3, FlushStep, DiscardStep
<1>4. CASE FlushAllPages
  BY <1>4, FlushAllStep
<1>5. CASE EvictPage
  BY <1>5, DiscardStep DEF EvictPage
<1>6. CASE Destroy
  BY <1>6, DestroyStep
<1>7. CASE UNCHANGED vars
  BY <1>7, StutterStep
<1> QED
  BY <1>1, <1>2, <1>3, <1>4, <1>5, <1>6, <1>7 DEF Next, Finished

(* The table's two containers, their order and the bytes are right after   *)
(* every sequence of operations.                                           *)
THEOREM Inductive == Spec => []IInv
  BY InitIInv, NextIInv, PTL DEF Spec

(* page_map_ and page_lst_ agree, whatever has been got, discarded and     *)
(* evicted.                                                                *)
THEOREM ContainersAgree == Spec => [](TypeOK /\ ListMatchesMap)
<1>1. IInv => TypeOK /\ ListMatchesMap
  BY ListForm DEF IInv, Structure
<1> QED
  BY <1>1, Inductive, PTL

(* Both containers hold pages under their own numbers, and the file one    *)
(* content per page.                                                       *)
THEOREM TypeCorrect == Spec => []TypeOK
<1>1. IInv => TypeOK
  BY DEF IInv, Structure
<1> QED
  BY <1>1, Inductive, PTL

(* The table keeps to its capacity, if that is not 0: a table of capacity  *)
(* 0 finds nothing to evict and loads the page all the same.               *)
THEOREM KeepsToCapacity == Capacity # 0 => (Spec => []WithinCapacity)
<1> SUFFICES ASSUME Capacity # 0 PROVE Spec => []WithinCapacity
  OBVIOUS
<1>1. IInv => WithinCapacity
  BY DEF IInv, Structure, Bounded, WithinCapacity
<1> QED
  BY <1>1, Inductive, PTL

(* Every page has its last content, loaded or on disk, while get_page is   *)
(* not called for a dirty page.                                            *)
THEOREM StoresAreKept == Spec => []NoStoreIsLost
<1>1. IInv => NoStoreIsLost
  BY DEF IInv, Contents
<1> QED
  BY <1>1, Inductive, PTL

(* Nothing but get_page loads a page. *)
LEMMA OnlyGetLoads ==
    ASSUME TypeOK, Next, ~\E va \in Addresses : GetPage(va)
    PROVE  Loaded' \subseteq Loaded
<1> SUFFICES ASSUME NEW q \in Pages, page_map[q] = NULL PROVE page_map'[q] = NULL
  BY DEF Loaded
<1>1. q \notin Loaded /\ page_map \in [Pages -> PageObjects \cup {NULL}]
  BY DEF Loaded, TypeOK
<1>2. CASE \E p \in Pages, d \in Data : Store(p, d)
  BY <1>1, <1>2 DEF Store
<1>3. CASE \E p \in Pages : FlushPage(p)
  BY <1>1, <1>3 DEF FlushPage
<1>4. CASE (\E p \in Pages : DiscardPage(p)) \/ EvictPage
  BY <1>1, <1>4 DEF DiscardPage, EvictPage
<1>5. CASE FlushAllPages
  BY <1>1, <1>5 DEF FlushAllPages
<1>6. CASE Destroy
  BY <1>6 DEF Destroy
<1>7. CASE Finished
  BY <1>7 DEF Finished, vars
<1> QED
  BY <1>2, <1>3, <1>4, <1>5, <1>6, <1>7 DEF Next

(* The page that makes room is the least recently got one. *)
THEOREM LeastRecentlyUsedGoes == Spec => EvictsLeastRecentlyUsed
<1> DEFINE Fair == \A p \in Loaded \ Loaded' : Loaded' \ Loaded # {} =>
                     /\ Cardinality(Loaded) = Capacity
                     /\ \A q \in Loaded' : <<p, q>> \in before'
<1>1. IInv /\ [Next]_vars => [Fair]_vars
  <2> SUFFICES ASSUME IInv, Next, NEW p \in Loaded \ Loaded', Loaded' \ Loaded # {}
               PROVE  /\ Cardinality(Loaded) = Capacity
                      /\ \A q \in Loaded' : <<p, q>> \in before'
    OBVIOUS
  <2>1. PICK va \in Addresses : GetPage(va)
    BY OnlyGetLoads DEF IInv, Structure
  <2>2. page_map \in [Pages -> PageObjects \cup {NULL}] /\ page_lst \in Seq(PageObjects)
        /\ Numbers(page_lst) = Loaded /\ Ordered(page_lst, before)
    BY DEF IInv, Structure, TypeOK, InOrder
  <2>3. ~Hit(PageNumber(va)) /\ ~Miss(PageNumber(va))
    BY <2>2 DEF Hit, Miss, Loaded
  <2> DEFINE victim == Head(page_lst).pno
             new == PageNumber(va)
  <2>4. /\ new \notin Loaded /\ Full
        /\ page_map' = [page_map EXCEPT ![victim] = NULL, ![new] = NewPage(swap_file', new)]
        /\ before' = {b \in before : b[1] # new} \cup ((Pages \ {new}) \X {new})
    BY <2>1, <2>3 DEF GetPage, MissFull
  <2>5. 1 \in 1..Len(page_lst) /\ victim = page_lst[1].pno /\ victim \in Loaded
    BY <2>2 DEF Numbers
  <2> HIDE DEF victim, new
  <2>6. p = victim /\ p # new /\ p \in Pages
    BY <2>2, <2>4, <2>5 DEF Loaded
  <2>7. ASSUME NEW q \in Loaded' PROVE <<p, q>> \in before'
    <3>1. CASE q = new
      BY <2>4, <2>6, <3>1
    <3>2. CASE q # new
      <4>1. q \in Loaded /\ q # victim
        BY <2>2, <2>4, <3>2 DEF Loaded
      <4>2. PICK j \in 1..Len(page_lst) : page_lst[j].pno = q
        BY <2>2, <4>1 DEF Numbers
      <4>3. 1 < j
        BY <2>2, <2>5, <4>1, <4>2
      <4>4. <<p, q>> \in before
        BY <2>2, <2>5, <2>6, <4>2, <4>3 DEF Ordered
      <4> QED
        BY <2>4, <2>6, <4>4
    <3> QED
      BY <3>1, <3>2
  <2> QED
    BY <2>4, <2>7 DEF Full
<1> QED
  BY <1>1, Inductive, PTL DEF Spec, EvictsLeastRecentlyUsed
=============================================================================
