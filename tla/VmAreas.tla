------------------------------- MODULE VmAreas -------------------------------
(***************************************************************************)
(* The list of memory areas of a gemOS process, Assignment 4, mmap.c.      *)
(*                                                                         *)
(* mmap.c keeps the areas of a process in a linked list behind a dummy     *)
(* node that occupies the first page of the mmap region and is never       *)
(* removed.  Here the list is the sequence of the areas after the dummy.   *)
(* An operator below computes what one function of mmap.c does to that     *)
(* list.  Addresses and lengths are in bytes; PageSize and HugeSize stand  *)
(* for the 4 KB and the 2 MB of the code.                                  *)
(***************************************************************************)
EXTENDS Integers, Sequences

CONSTANTS
    PageSize,   \* bytes of a page
    HugeSize,   \* bytes of a huge page
    MmapStart,  \* MMAP_AREA_START, aligned to HugeSize like the 0x180200000 of the code
    IntSpan     \* number of values of a C int: overlap() takes its addresses as ints

ASSUME SizesAssumption ==
    /\ PageSize \in Nat \ {0} /\ HugeSize \in Nat \ {0} /\ IntSpan \in Nat \ {0}
    /\ HugeSize % PageSize = 0 /\ IntSpan % HugeSize = 0
    /\ MmapStart \in Nat \ {0} /\ MmapStart % HugeSize = 0

NULL == 0

\* A prot is the set of its flags: PROT_READ|PROT_WRITE is {"R", "W"}.
Prots == SUBSET {"R", "W", "X"}

Area(s, e, p, t) == [start |-> s, end |-> e, prot |-> p, type |-> t]

Dummy == Area(MmapStart, MmapStart + PageSize, {"X"}, "normal")

Up(n, unit)   == ((n + unit - 1) \div unit) * unit
Down(n, unit) == (n \div unit) * unit

Holds(a, addr) == a.start <= addr /\ addr < a.end

\* Not the code, but what a slip in it could be: areas are merged whatever their prot.
MergeableAnyProt(a, b) == a.end = b.start /\ a.type = b.type

Mergeable(a, b) == a.end = b.start /\ a.prot = b.prot /\ a.type = b.type

\* The lists ls[1], ls[2], ... one after another.
Joined(ls) ==
    LET upto[i \in 0 .. Len(ls)] == IF i = 0 THEN << >> ELSE upto[i - 1] \o ls[i]
    IN upto[Len(ls)]

EndOf(list, i) == IF i = 0 THEN Dummy.end ELSE list[i].end

\* The first i of 0 .. Len(list) such that the area after position i, if any, passes.
FirstPosition(list, Passes(_, _)) ==
    CHOOSE i \in 0 .. Len(list) :
        /\ i = Len(list) \/ Passes(i, list[i + 1])
        /\ \A j \in 0 .. i - 1 : ~Passes(j, list[j + 1])

(***************************************************************************)
(* sorted_Insert.  The new node goes before the first area that starts at  *)
(* or after its end and is merged with its neighbours.  When it is merged  *)
(* with the area on its right only, and is not at the front, the code      *)
(* relinks first and then frees cur->vm_next: not the area it absorbed but *)
(* the next one, which stays in the list, or NULL.  "stray" tells.         *)
(***************************************************************************)
sorted_Insert(list, node) ==
    LET i     == FirstPosition(list, LAMBDA j, next : next.start >= node.end)
        left  == i > 0 /\ Mergeable(list[i], node)
        right == i < Len(list) /\ Mergeable(node, list[i + 1])
        whole == [node EXCEPT !.start = IF left  THEN list[i].start   ELSE @,
                              !.end   = IF right THEN list[i + 1].end ELSE @]
    IN [ list  |-> SubSeq(list, 1, IF left THEN i - 1 ELSE i) \o <<whole>>
                     \o SubSeq(list, IF right THEN i + 2 ELSE i + 1, Len(list)),
         at    |-> i,
         whole |-> whole,
         left  |-> left,
         stray |-> right /\ ~left /\ i > 0 ]

(***************************************************************************)
(* vm_area_map.  Only the two ends of the requested range are looked up,   *)
(* and a taken hint always maps at the dummy's end: the loop that should   *)
(* look further has its condition inverted.  The subtraction of mmap(NULL) *)
(* is unsigned, so a negative gap is a huge one.  mmap(NULL) returns the   *)
(* end of the area before the new one, read after the insertion.           *)
(***************************************************************************)
Taken(list, s, e) ==
    \E i \in DOMAIN list : Holds(list[i], s) \/ (list[i].start < e /\ e <= list[i].end)

FirstGap(list, len) ==
    FirstPosition(list, LAMBDA i, next : next.start < EndOf(list, i) \/ next.start - EndOf(list, i) >= len)

\* A slip: MAP_FIXED does not look whether the range is taken.
MapFailsUnchecked(list, addr, length, flags) ==
    length <= 0 \/ (flags = "fixed" /\ (addr = NULL \/ addr % PageSize # 0))

MapFails(list, addr, length, flags) ==
    \/ length <= 0
    \/ flags = "fixed" /\ \/ addr = NULL \/ addr % PageSize # 0
                          \/ Taken(list, addr, addr + Up(length, PageSize))

vm_area_map(list, addr, length, prot, flags) ==
    LET len  == Up(length, PageSize)
        from == Up(addr, PageSize)
        prev == IF addr = NULL THEN FirstGap(list, len) ELSE 0
        s    == IF addr = NULL \/ (flags # "fixed" /\ Taken(list, from, from + len))
                THEN EndOf(list, prev) ELSE from
        ins  == sorted_Insert(list, Area(s, s + len, prot, "normal"))
    IN [ list  |-> ins.list,
         stray |-> ins.stray,
         ret   |-> IF addr = NULL /\ ins.left /\ ins.at = prev THEN ins.whole.end ELSE s ]

(***************************************************************************)
(* vm_area_unmap.  The length is rounded up to the page size of each area. *)
(* UnmapArea is what becomes of one area, FreedRange the range of it whose *)
(* pages are freed.                                                        *)
(***************************************************************************)
UnmapEnd(a, addr, length) ==
    addr + Up(length, IF a.type = "normal" THEN PageSize ELSE HugeSize)

UnmapArea(a, addr, length) ==
    LET e == UnmapEnd(a, addr, length)
    IN CASE a.start >= addr /\ a.end <= e -> << >>
         [] addr > a.start /\ e < a.end   -> <<[a EXCEPT !.end = addr], [a EXCEPT !.start = e]>>
         [] a.end <= e /\ a.end > addr /\ a.start < addr -> <<[a EXCEPT !.end = addr]>>
         [] a.start >= addr /\ a.start < e /\ a.end > e  -> <<[a EXCEPT !.start = e]>>
         [] OTHER -> <<a>>

\* A slip: the last page of the range is not freed.
FreedRangeShort(a, addr, length) ==
    [start |-> addr, end |-> addr + length - PageSize, type |-> a.type]

FreedRange(a, addr, length) ==
    LET lo == IF a.start >= addr THEN a.start ELSE addr
        e  == UnmapEnd(a, addr, length)
        hi == IF a.end <= e THEN a.end ELSE e
    IN [start |-> lo, end |-> hi, type |-> a.type]

vm_area_unmap(list, addr, length) ==
    Joined([i \in DOMAIN list |-> UnmapArea(list[i], addr, length)])

(***************************************************************************)
(* vm_area_make_hugepage.  overlap() compares addresses cut to a C int.    *)
(* The error codes are those of mmap.h.  The last area's end is not        *)
(* compared with the range, and an area that begins inside the range and   *)
(* ends after it is left where it is.                                      *)
(***************************************************************************)
ToInt(addr) == (addr - MmapStart + HugeSize) % IntSpan

overlap(s1, e1, s2, e2) == ToInt(e1) > ToInt(s2) /\ ToInt(e2) > ToInt(s1)

HugeError(list, addr, length, prot, force) ==
    LET Touched(i) == overlap(list[i].start, list[i].end, addr, addr + length)
    IN CASE addr = NULL \/ length <= 0 -> "EINVAL"
         [] \E i \in DOMAIN list :
              /\ list[i].start # EndOf(list, i - 1)
              /\ overlap(EndOf(list, i - 1), list[i].start, addr, addr + length) -> "ENOMAPPING"
         [] \E i \in DOMAIN list : list[i].type = "huge" /\ Touched(i) -> "EVMAOCCUPIED"
         [] ~force /\ \E i \in DOMAIN list : Touched(i) /\ list[i].prot # prot -> "EDIFFPROT"
         [] OTHER -> "none"

CutForHuge(a, x, l) ==
    CASE a.start >= x /\ a.end <= l -> << >>
      [] a.end > x /\ a.start <= x  ->
           (IF a.start # x THEN <<[a EXCEPT !.end = x]>> ELSE << >>)
             \o (IF a.end > l THEN <<[a EXCEPT !.start = l]>> ELSE << >>)
      [] OTHER -> <<a>>

\* With no whole huge page in the range (l <= x), the piece split off an area that
\* holds x holds x again: the loop never ends.
NeverEnds(list, x, l) == l <= x /\ \E i \in DOMAIN list : Holds(list[i], x)

vm_area_make_hugepage(list, addr, length, prot) ==
    LET x == Up(addr, HugeSize)
        l == Down(addr + length, HugeSize)
    IN sorted_Insert(Joined([i \in DOMAIN list |-> CutForHuge(list[i], x, l)]),
                     Area(x, l, prot, "huge"))

(***************************************************************************)
(* vm_area_break_hugepage.  prev stays at the dummy, so unlinking an area  *)
(* that is wholly inside the range also unlinks every area before it; an   *)
(* area that ends inside the range is cut, and the range after it, not the *)
(* part cut off, becomes a normal area.                                    *)
(***************************************************************************)
BreakFails(addr, length) ==
    addr = NULL \/ length <= 0 \/ length % HugeSize # 0 \/ addr % HugeSize # 0

\* The range that becomes a normal area because of huge area a, empty if there is none.
BrokenRange(a, x, l) ==
    LET Piece(s, e) == Area(s, e, a.prot, "normal")
    IN IF a.type # "huge" THEN Piece(x, x)
       ELSE CASE a.start >= x /\ a.end <= l -> Piece(a.start, a.end)
              [] a.start >= x /\ a.start < l /\ a.end > l -> Piece(a.start, l)
              [] a.start < x /\ a.end > x /\ a.end < l -> Piece(a.end, l)
              [] x > a.start /\ l < a.end -> Piece(x, l)
              [] OTHER -> Piece(x, x)

BreakArea(st, a, x, l) ==
    LET list == st.list
        k    == CHOOSE i \in DOMAIN list : list[i] = a
        v    == BrokenRange(a, x, l)
        Put(rest, lost) ==
            LET ins == sorted_Insert(rest, v)
            IN [list |-> ins.list, stray |-> st.stray \/ ins.stray, lost |-> st.lost + lost]
    IN IF v.start = v.end THEN st
       ELSE CASE a.start >= x /\ a.end <= l -> Put(SubSeq(list, k + 1, Len(list)), k - 1)
              [] a.start >= x /\ a.end > l  -> Put([list EXCEPT ![k].start = l], 0)
              [] a.start < x /\ a.end < l   -> Put([list EXCEPT ![k].end = x], 0)
              [] OTHER -> [st EXCEPT !.list = SubSeq(list, 1, k - 1)
                             \o <<[a EXCEPT !.end = x], v, [a EXCEPT !.start = l]>>
                             \o SubSeq(list, k + 1, Len(list))]

vm_area_break_hugepage(list, addr, length) ==
    LET after[i \in 0 .. Len(list)] ==
            IF i = 0 THEN [list |-> list, stray |-> FALSE, lost |-> 0]
            ELSE BreakArea(after[i - 1], list[i], addr, addr + length)
    IN after[Len(list)]
==============================================================================
