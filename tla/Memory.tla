------------------------------- MODULE Memory --------------------------------
(***************************************************************************)
(* The mmap region of one gemOS process (Assignment 4): its area list      *)
(* (VmAreas), its page tables, what its pages hold, and the system calls   *)
(* and page faults that change them (mmap.c and do_page_fault of entry.c). *)
(*                                                                         *)
(* The page tables below the PUD entry of the region have one PMD entry    *)
(* per huge-page range, absent, a table of small pages or a huge page, and *)
(* one PTE per page.  An entry made by a fault gets the write bit of that  *)
(* access only, at every level; a write goes through when the bit is set   *)
(* at every level.                                                         *)
(***************************************************************************)
EXTENDS VmAreas, FiniteSets

CONSTANTS
    Values,     \* what a program stores in a page
    Junk,       \* what a frame holds before it is written
    DataSeg, RoSeg, StackSeg    \* mms[]: [start, end, next] of the other segments

ASSUME JunkAssumption == Junk \notin Values

\* The stack lies above the data and is a whole number of pages.
ASSUME SegmentsAssumption ==
    /\ StackSeg.start \in Nat /\ StackSeg.next \in Nat /\ StackSeg.start <= StackSeg.next
    /\ StackSeg.start % PageSize = 0 /\ StackSeg.next % PageSize = 0
    /\ DataSeg.start \in Nat /\ DataSeg.next \in Nat /\ DataSeg.next <= StackSeg.start
    /\ RoSeg.start \in Nat /\ RoSeg.next \in Nat /\ RoSeg.next <= StackSeg.start

VARIABLES
    areas,      \* the list after the dummy
    hasDummy,   \* current->vm_area is not NULL
    lost,       \* areas unlinked without being freed: num_vm_area still counts them
    kernel,     \* "ok", or why the code's behaviour is not defined from here on
    alive,      \* FALSE once SIGSEGV has ended the process
    pud,        \* the PUD entry: "absent", "ro" or "rw"
    pmd,        \* range |-> [kind, w] for the PMD entries that are present
    pte,        \* page |-> write bit, for the small pages that are present
    mem,        \* page |-> content, for the pages that have memory
    faults,     \* stats->mmap_page_faults
    segPte,     \* page |-> write bit, for the pages of the other segments
    stackNext   \* mms[MM_SEG_STACK].next_free

segments == <<segPte, stackNext>>
tables == <<pud, pmd, pte, mem>>
vars   == <<areas, hasDummy, lost, kernel, alive, tables, faults, segments>>

Pages(s, e)  == {p \in (s \div PageSize) .. (e \div PageSize) : s <= p * PageSize /\ p * PageSize < e}
\* A slip: the last range is left out.
RangesShort(s, e) == {h \in (s \div HugeSize) .. (e \div HugeSize) : s <= h * HugeSize /\ (h + 1) * HugeSize < e}

Ranges(s, e) == {h \in (s \div HugeSize) .. (e \div HugeSize) : s <= h * HugeSize /\ h * HugeSize < e}
PageOf(addr)  == addr \div PageSize
RangeOf(addr) == addr \div HugeSize
\* A slip: the first page of the range is left out.
PagesOfRangeTail(h) == Pages(h * HugeSize + PageSize, (h + 1) * HugeSize)

PagesOfRange(h) == Pages(h * HugeSize, (h + 1) * HugeSize)

\* f with the points of S mapped to v, and f without the points of S.
Put(f, S, v)  == [x \in DOMAIN f \cup S |-> IF x \in S THEN v ELSE f[x]]
Without(f, S) == [x \in DOMAIN f \ S |-> f[x]]

Init ==
    /\ areas = << >> /\ hasDummy = FALSE /\ lost = 0
    /\ kernel = "ok" /\ alive = TRUE
    /\ pud = "absent" /\ pmd = << >> /\ pte = << >> /\ mem = << >>
    /\ faults = 0
    /\ segPte = << >> /\ stackNext = StackSeg.next

IsHuge(h)  == h \in DOMAIN pmd /\ pmd[h].kind = "huge"
IsTable(h) == h \in DOMAIN pmd /\ pmd[h].kind = "table"

Present(addr) == IsHuge(RangeOf(addr)) \/ (IsTable(RangeOf(addr)) /\ PageOf(addr) \in DOMAIN pte)

\* A slip: the write bit is not set at the first level.
PudEntryRead(w) == IF pud # "absent" THEN pud ELSE "ro"

PudEntry(w) == IF pud # "absent" THEN pud ELSE IF w THEN "rw" ELSE "ro"

Writable(addr) ==
    /\ pud = "rw" /\ pmd[RangeOf(addr)].w
    /\ IsTable(RangeOf(addr)) => pte[PageOf(addr)]

-------------------------------------------------------------------------------
(* make_entry, free and the two copies of huge-page conversion *)

\* Entries that are absent are made with the write bit w; a table entry where a
\* huge page is wanted only sets "present".
make_entry(addr, w, type) ==
    LET h == RangeOf(addr)  p == PageOf(addr)
        newPage  == type = "normal" /\ p \notin DOMAIN pte
        newRange == type = "huge" /\ h \notin DOMAIN pmd
    IN /\ pud' = PudEntry(w)
       /\ pmd' = IF h \in DOMAIN pmd THEN pmd
                 ELSE Put(pmd, {h}, [kind |-> IF type = "huge" THEN "huge" ELSE "table", w |-> w])
       /\ pte' = IF newPage THEN Put(pte, {p}, w) ELSE pte
       /\ mem' = IF newPage THEN Put(mem, {p}, Junk)
                 ELSE IF newRange THEN Put(mem, PagesOfRange(h), Junk) ELSE mem

\* free_range frees small pages; for a huge page free() returns before it does anything.
FreedPages(list, addr, length) ==
    UNION {LET r == FreedRange(list[i], addr, length)
           IN IF r.type = "normal" THEN Pages(r.start, r.end) ELSE {} : i \in DOMAIN list}

\* The walk to a page takes the PMD entry of a huge page for one of a table, and
\* the program's data for page table entries.
WalksIntoData(ps) == \E p \in ps : IsHuge(RangeOf(p * PageSize))

\* Each range becomes a huge page with the contents of its small pages.
copy_php(s, e, prot) ==
    LET hs == Ranges(s, e)
        ps == UNION {PagesOfRange(h) : h \in hs}
        w  == "W" \in prot
    IN IF hs = {} THEN UNCHANGED tables
       ELSE /\ pud' = PudEntry(w)
            /\ pmd' = Put(pmd, hs, [kind |-> "huge", w |-> w])
            /\ pte' = Without(pte, ps)
            /\ mem' = [p \in DOMAIN mem \cup ps |-> IF p \in DOMAIN mem THEN mem[p] ELSE Junk]

\* Each range that is a huge page, or has nothing yet, becomes a full table of small
\* pages with the same contents; a range that is a table already is left alone.
copy_hpp(broken) ==
    LET hs == {h \in UNION {Ranges(b.start, b.end) : b \in broken} : ~IsTable(h)}
        ps == UNION {PagesOfRange(h) : h \in hs}
        ProtOf(h) == (CHOOSE b \in broken : h \in Ranges(b.start, b.end)).prot
        W(h)   == IF h \in DOMAIN pmd THEN pmd[h].w ELSE "W" \in ProtOf(h)
        HOf(p) == RangeOf(p * PageSize)
    IN IF hs = {} THEN UNCHANGED tables
       ELSE /\ pud' = PudEntry("W" \in ProtOf(CHOOSE h \in hs : TRUE))
            /\ pmd' = [h \in DOMAIN pmd \cup hs |->
                         IF h \in hs THEN [kind |-> "table", w |-> W(h)] ELSE pmd[h]]
            /\ pte' = [p \in DOMAIN pte \cup ps |-> IF p \in ps THEN W(HOf(p)) ELSE pte[p]]
            /\ mem' = [p \in DOMAIN mem \cup ps |-> IF p \in DOMAIN mem THEN mem[p] ELSE Junk]

-------------------------------------------------------------------------------
(* The system calls (do_syscall, entry.c), and what they return *)

Running == alive /\ kernel = "ok"

SetKernel(stray) == kernel' = IF stray THEN "strayFree" ELSE "ok"

MmapResult(addr, length, prot, flags) ==
    IF MapFails(areas, addr, length, flags) THEN -1
    ELSE vm_area_map(areas, addr, length, prot, flags).ret

Mmap(addr, length, prot, flags) ==
    LET m == vm_area_map(areas, addr, length, prot, flags)
    IN /\ Running
       /\ hasDummy' = (hasDummy \/ length > 0)
       /\ IF MapFails(areas, addr, length, flags)
          THEN UNCHANGED <<areas, kernel>>
          ELSE areas' = m.list /\ SetKernel(m.stray)
       /\ UNCHANGED <<lost, alive, tables, faults, segments>>

\* Without the dummy every call below reads through a NULL pointer: no program
\* modelled here makes one before its first mmap.
MunmapFails(addr, length) == length <= 0 \/ addr % PageSize # 0
MunmapResult(addr, length) == IF MunmapFails(addr, length) THEN -1 ELSE 0

Munmap(addr, length) ==
    LET ps == FreedPages(areas, addr, length)
    IN /\ Running /\ hasDummy
       /\ IF MunmapFails(addr, length)
          THEN UNCHANGED <<areas, kernel, tables>>
          ELSE /\ areas' = vm_area_unmap(areas, addr, length)
               /\ pte' = Without(pte, ps)
               /\ mem' = Without(mem, ps \cap DOMAIN pte)
               /\ kernel' = IF WalksIntoData(ps) THEN "walksData" ELSE kernel
               /\ UNCHANGED <<pud, pmd>>
       /\ UNCHANGED <<hasDummy, lost, alive, faults, segments>>

MakeResult(addr, length, prot, force) ==
    IF HugeError(areas, addr, length, prot, force) # "none" THEN -1 ELSE Up(addr, HugeSize)

MakeHugepage(addr, length, prot, force) ==
    LET err == HugeError(areas, addr, length, prot, force)
        x == Up(addr, HugeSize)
        l == Down(addr + length, HugeSize)
        m == vm_area_make_hugepage(areas, addr, length, prot)
    IN /\ Running /\ hasDummy
       /\ \/ /\ err # "none"
             /\ UNCHANGED <<areas, kernel, tables>>
          \/ /\ err = "none" /\ NeverEnds(areas, x, l)
             /\ kernel' = "loops" /\ UNCHANGED <<areas, tables>>
          \/ /\ err = "none" /\ ~NeverEnds(areas, x, l)
             /\ IF \E h \in Ranges(x, l) : IsHuge(h)
                THEN kernel' = "walksData" /\ UNCHANGED <<areas, tables>>
                ELSE /\ areas' = m.list /\ SetKernel(m.stray)
                     /\ copy_php(x, l, prot)
       /\ UNCHANGED <<hasDummy, lost, alive, faults, segments>>

BreakResult(addr, length) == IF BreakFails(addr, length) THEN -1 ELSE 0

BreakHugepage(addr, length) ==
    LET b == vm_area_break_hugepage(areas, addr, length)
    IN /\ Running /\ hasDummy
       /\ IF BreakFails(addr, length)
          THEN UNCHANGED <<areas, lost, kernel, tables>>
          ELSE /\ areas' = b.list /\ lost' = lost + b.lost /\ SetKernel(b.stray)
               /\ copy_hpp({BrokenRange(areas[i], addr, addr + length) : i \in DOMAIN areas})
       /\ UNCHANGED <<hasDummy, alive, faults, segments>>

\* pmap: num_vm_area, the dummy left out.
PmapCount == Len(areas) + lost

-------------------------------------------------------------------------------
(* Accesses and page faults (do_page_fault, entry.c) *)

SegOf(addr) == CASE addr >= DataSeg.start /\ addr <= DataSeg.end -> "data"
                 [] addr >= RoSeg.start /\ addr <= RoSeg.end -> "rodata"
                 [] addr >= StackSeg.start /\ addr <= StackSeg.end -> "stack"
                 [] addr >= MmapStart -> "mmap"
                 [] OTHER -> "none"

InMmap(addr) == SegOf(addr) = "mmap"

IsPresent(addr) == IF InMmap(addr) THEN Present(addr) ELSE PageOf(addr) \in DOMAIN segPte

Allowed(addr, w) ==
    /\ IsPresent(addr)
    /\ w => IF InMmap(addr) THEN Writable(addr) ELSE segPte[PageOf(addr)]

Load(addr) == /\ Running /\ Allowed(addr, FALSE)
              /\ UNCHANGED vars

Store(addr, v) == /\ Running /\ Allowed(addr, TRUE)
                  /\ mem' = IF InMmap(addr) THEN [mem EXCEPT ![PageOf(addr)] = v] ELSE mem
                  /\ UNCHANGED <<areas, hasDummy, lost, kernel, alive, pud, pmd, pte,
                                 faults, segments>>

Sigsegv == alive' = FALSE /\ UNCHANGED <<tables, segments>>

\* A new frame for page p, whatever was there.
install_page_table(p, w) ==
    segPte' = Put(segPte, {p}, w)

\* A slip: only the page of the access is installed.
GrowStackOne(addr) ==
    /\ stackNext' = PageOf(addr) * PageSize
    /\ segPte' = Put(segPte, {PageOf(addr)}, TRUE)

\* The stack is grown page by page down to the page of addr, and that page is then
\* installed a second time: the frame of the first time is lost.
GrowStack(addr) ==
    LET low == PageOf(addr)
    IN /\ stackNext' = low * PageSize
       /\ segPte' = Put(segPte, low .. (stackNext \div PageSize) - 1, TRUE)

vm_area_pagefault(addr, w) ==
    LET held == {i \in DOMAIN areas : Holds(areas[i], addr)}
        v    == areas[CHOOSE i \in held : \A j \in held : i <= j]
    IN IF held = {} THEN Sigsegv
       ELSE make_entry(addr, w, v.type) /\ UNCHANGED <<alive, segments>>

\* The access of a page that is present and refuses it (bit 0 of the error code)
\* ends the process before any segment is looked at.
do_page_fault(addr, w) ==
    /\ Running /\ (InMmap(addr) => hasDummy) /\ ~Allowed(addr, w)
    /\ IF IsPresent(addr) THEN Sigsegv
       ELSE CASE SegOf(addr) = "data" ->
                   IF addr < DataSeg.next
                   THEN /\ install_page_table(PageOf(addr), w)
                        /\ UNCHANGED <<alive, pud, pmd, pte, mem, stackNext>>
                   ELSE Sigsegv
              [] SegOf(addr) = "rodata" ->
                   IF addr < RoSeg.next /\ ~w
                   THEN /\ install_page_table(PageOf(addr), w)
                        /\ UNCHANGED <<alive, pud, pmd, pte, mem, stackNext>>
                   ELSE Sigsegv
              [] SegOf(addr) = "stack" ->
                   IF addr < stackNext
                   THEN GrowStack(addr) /\ UNCHANGED <<alive, pud, pmd, pte, mem>>
                   ELSE Sigsegv
              [] SegOf(addr) = "mmap" -> vm_area_pagefault(addr, w)
              [] OTHER -> Sigsegv
    /\ faults' = faults + IF InMmap(addr) /\ ~IsPresent(addr) THEN 1 ELSE 0
    /\ UNCHANGED <<areas, hasDummy, lost, kernel>>
==============================================================================
