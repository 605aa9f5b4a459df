----------------------------- MODULE PageTable -----------------------------
(***************************************************************************)
(* The page table of "hw3 -- LRU simplevm".  page_map_ owns one Page per   *)
(* loaded page; page_lst_ holds a second, independent copy of each, made   *)
(* when get_page returned it, in the order of use.  Only the page numbers  *)
(* of those copies are ever wanted, but they are Pages: they remember the  *)
(* bytes and the dirty flag of that moment, and Page's destructor writes a *)
(* dirty one to the swap file.                                             *)
(*                                                                         *)
(* Page is external (its source is not in the repository) and is modelled  *)
(* from Page.h: a copy copies bytes and flag, == compares page numbers,    *)
(* flush writes if dirty, the destructor flushes.  A page's bytes are one  *)
(* value.                                                                  *)
(*                                                                         *)
(* NewPageUnnumbered, HitNotMarked, SwapAfterDiscardUnflushed, FullTooLate *)
(* and DiscardKeepingCopy are mistakes in the definition that follows      *)
(* each: nothing uses them, the properties refuse them.                    *)
(***************************************************************************)
EXTENDS Integers, Sequences, SequencesExt, FiniteSets

CONSTANTS
    Addresses,      \* the virtual addresses used
    Data,           \* contents of a page
    Blank,          \* content of a page of a fresh swap file
    Capacity,       \* page_capacity
    NULL

PageSize == 4096

PageNumber(va) == va \div PageSize

Pages == {PageNumber(va) : va \in Addresses}

ASSUME TableAssumption ==
    /\ Addresses \subseteq Nat
    /\ Capacity \in Nat
    /\ Blank \in Data

PageObjects == [pno : Pages, data : Data, dirty : BOOLEAN]

ASSUME NullAssumption == NULL \notin PageObjects

VARIABLES
    swap_file,      \* the bytes of each page on disk
    page_map,       \* the Page that page_map_ owns, NULL if none
    page_lst,       \* the copies, least recently used first
    open,           \* the table has not been destroyed
    stored,         \* history: what the user stored last in each page
    reget,          \* history: get_page has been called for a dirty page
    before          \* history: <<p, q>> if q was got after the last get of p

vars == <<swap_file, page_map, page_lst, open, stored, reget, before>>

Init ==
    /\ swap_file = [p \in Pages |-> Blank]
    /\ page_map = [p \in Pages |-> NULL]
    /\ page_lst = << >>
    /\ open = TRUE
    /\ stored = swap_file /\ reget = FALSE
    /\ before = {}

Loaded == {p \in Pages : page_map[p] # NULL}

NewPageUnnumbered(sw, p) == [pno |-> 0, data |-> sw[p], dirty |-> FALSE]

NewPage(sw, p) == [pno |-> p, data |-> sw[p], dirty |-> FALSE]

(* Page::flush, also run by ~Page: the swap file afterwards. *)
Flushed(sw, pg) == IF pg.dirty THEN [sw EXCEPT ![pg.pno] = pg.data] ELSE sw

(* list::remove takes out every copy with this number; ListMatchesMap says *)
(* that there is exactly one for a loaded page.                            *)
Position(p) == CHOOSE i \in DOMAIN page_lst : page_lst[i].pno = p

Copy(p) == page_lst[Position(p)]

Without(p) == RemoveAt(page_lst, Position(p))

----------------------------------------------------------------------------
(* get_page, the page is loaded: the old copy is removed, and destroyed,   *)
(* and a new one goes to the end.                                          *)
HitNotMarked(p) ==
    /\ p \in Loaded
    /\ UNCHANGED <<swap_file, page_map, page_lst, open, stored>>

Hit(p) ==
    /\ p \in Loaded
    /\ swap_file' = Flushed(swap_file, Copy(p))
    /\ page_lst' = Append(Without(p), page_map[p])
    /\ UNCHANGED <<page_map, open, stored>>

(* discard_page flushes the page, then destroys its copy. *)
SwapAfterDiscardUnflushed(p) == swap_file

SwapAfterDiscard(p) == Flushed(Flushed(swap_file, page_map[p]), Copy(p))

FullTooLate == Cardinality(Loaded) = Capacity + 1

Full == Cardinality(Loaded) = Capacity

(* get_page, the page is not loaded: evict_page first if the table is full *)
(* (which does nothing if it is also empty), then load.                    *)
Miss(p) ==
    /\ p \notin Loaded
    /\ ~Full \/ Loaded = {}
    /\ page_map' = [page_map EXCEPT ![p] = NewPage(swap_file, p)]
    /\ page_lst' = Append(page_lst, page_map'[p])
    /\ UNCHANGED <<swap_file, open, stored>>

MissFull(p) ==
    /\ p \notin Loaded
    /\ Full /\ Loaded # {}
    /\ LET victim == Head(page_lst).pno
       IN  /\ swap_file' = SwapAfterDiscard(victim)
           /\ page_map' = [page_map EXCEPT ![victim] = NULL,
                                           ![p] = NewPage(swap_file', p)]
           /\ page_lst' = Append(Without(victim), page_map'[p])
    /\ UNCHANGED <<open, stored>>

GetPage(va) ==
    LET p == PageNumber(va)
    IN  /\ open
        /\ reget' = (reget \/ (p \in Loaded /\ page_map[p].dirty))
        /\ Hit(p) \/ Miss(p) \/ MissFull(p)
        /\ before' = {b \in before : b[1] # p} \cup ((Pages \ {p}) \X {p})

(* The user stores through the reference get_page returned, which is valid *)
(* while the page is loaded.                                               *)
Store(p, d) ==
    /\ open
    /\ p \in Loaded
    /\ page_map' = [page_map EXCEPT ![p] = [@ EXCEPT !.data = d, !.dirty = TRUE]]
    /\ stored' = [stored EXCEPT ![p] = d]
    /\ UNCHANGED <<swap_file, page_lst, open, reget, before>>

FlushPage(p) ==
    /\ open
    /\ p \in Loaded
    /\ swap_file' = Flushed(swap_file, page_map[p])
    /\ page_map' = [page_map EXCEPT ![p] = [@ EXCEPT !.dirty = FALSE]]
    /\ UNCHANGED <<page_lst, open, stored, reget, before>>

(* Every loaded page is flushed. *)
SwapAfterFlushAll ==
    [p \in Pages |-> IF p \in Loaded /\ page_map[p].dirty
                     THEN page_map[p].data ELSE swap_file[p]]

FlushAllPages ==
    /\ open
    /\ swap_file' = SwapAfterFlushAll
    /\ page_map' = [p \in Pages |-> IF p \in Loaded THEN [page_map[p] EXCEPT !.dirty = FALSE]
                                                    ELSE NULL]
    /\ UNCHANGED <<page_lst, open, stored, reget, before>>

DiscardKeepingCopy(p) ==
    /\ open
    /\ p \in Loaded
    /\ swap_file' = SwapAfterDiscard(p)
    /\ page_map' = [page_map EXCEPT ![p] = NULL]
    /\ UNCHANGED <<page_lst, open, stored, reget, before>>

DiscardPage(p) ==
    /\ open
    /\ p \in Loaded
    /\ swap_file' = SwapAfterDiscard(p)
    /\ page_map' = [page_map EXCEPT ![p] = NULL]
    /\ page_lst' = Without(p)
    /\ UNCHANGED <<open, stored, reget, before>>

EvictPage ==
    /\ Loaded # {}
    /\ DiscardPage(Head(page_lst).pno)

(* The pages are flushed and deleted and the file is closed before the     *)
(* copies are destroyed: what those write goes nowhere.                    *)
Destroy ==
    /\ open
    /\ swap_file' = SwapAfterFlushAll
    /\ page_map' = [p \in Pages |-> NULL]
    /\ page_lst' = << >>
    /\ open' = FALSE
    /\ UNCHANGED <<stored, reget, before>>

Finished == ~open /\ UNCHANGED vars

Next ==
    \/ \E va \in Addresses : GetPage(va)
    \/ \E p \in Pages, d \in Data : Store(p, d)
    \/ \E p \in Pages : FlushPage(p) \/ DiscardPage(p)
    \/ FlushAllPages \/ EvictPage \/ Destroy
    \/ Finished

Spec == Init /\ [][Next]_vars

----------------------------------------------------------------------------
TypeOK ==
    /\ swap_file \in [Pages -> Data]
    /\ page_map \in [Pages -> PageObjects \cup {NULL}]
    /\ \A p \in Loaded : page_map[p].pno = p
    /\ page_lst \in Seq(PageObjects)
    /\ open \in BOOLEAN
    /\ stored \in [Pages -> Data]
    /\ reget \in BOOLEAN
    /\ before \subseteq Pages \X Pages

(* The two containers agree: one copy per loaded page and none else.  The  *)
(* eviction discards the page whose copy is first, so a copy of a page     *)
(* that is not loaded would make it evict nothing.                         *)
ListMatchesMap ==
    /\ {page_lst[i].pno : i \in DOMAIN page_lst} = Loaded
    /\ \A i, j \in DOMAIN page_lst : page_lst[i].pno = page_lst[j].pno => i = j

(* "There cannot be more than page_capacity number of pages loaded"        *)
(* (PageTable.h).                                                          *)
WithinCapacity == Cardinality(Loaded) <= Capacity

(* A page that is not dirty needs no flush: its bytes are those on disk.   *)
(* It holds while nobody calls get_page for a dirty page.                  *)
CleanMeansSaved ==
    ~reget =>
      \A p \in Loaded : ~page_map[p].dirty => page_map[p].data = swap_file[p]

(* The reference that get_page returns stays valid (line 46) while no page *)
(* is discarded or evicted by hand, until get_page has to make room: then  *)
(* the table is as full as it may be, and every page it holds afterwards   *)
(* has been got since the one that goes.  Neither flushes nor discards nor *)
(* the destruction of copies disturb the order.                            *)
EvictsLeastRecentlyUsed ==
    [][\A p \in Loaded \ Loaded' : Loaded' \ Loaded # {} =>
         /\ Cardinality(Loaded) = Capacity
         /\ \A q \in Loaded' : <<p, q>> \in before']_vars

(* No operation but a store changes what a page contains: loading it again *)
(* finds the last content.                                                 *)
Content(p) == IF p \in Loaded THEN page_map[p].data ELSE swap_file[p]

(* "If the page is dirty, then it is flushed before it is discarded"       *)
(* (PageTable.h).                                                          *)
LastStoreIsKept == \A p \in Pages : Content(p) = stored[p]

(* That is so as long as nobody calls get_page for a page that is dirty,   *)
(* whatever is flushed, discarded, evicted and loaded again in between.    *)
NoStoreIsLost == ~reget => LastStoreIsKept
=============================================================================
