------------------------------- MODULE MCMemory -------------------------------
(***************************************************************************)
(* Module MemoryPrograms for TLC, and the properties of the memory system. *)
(* A huge page has four pages of 64 bytes; the other segments lie below    *)
(* the mmap region.                                                        *)
(***************************************************************************)
EXTENDS MemoryPrograms

CONSTANT MmapPages      \* the pages whose mapping and contents are looked at

ASSUME MmapPagesAssumption == MmapPages \subseteq Nat

MCData  == [start |-> 64,  end |-> 191, next |-> 128]
MCRo    == [start |-> 192, end |-> 255, next |-> 256]
MCStack == [start |-> 256, end |-> 575, next |-> 576]

MCAddrs == {1024 + 64, 1024 + 256, 1024 + 512, 1024+640}
MCLens   == {64, 256}
MCStores == {1024 + 256, 1024 + 320}
\* The twelve pages from the start of the mmap region on.
MCPages  == 1024 \div 64 .. 1024 \div 64 + 11
MCSegs   == {96, 160, 200, 300, 500}

SoundPrograms == (Tests \ {"Task1_2", "Task1_4"}) \cup {"free", "segments"}
HintTest == {"Task1_4"}

HeldBy(p) == {i \in DOMAIN areas : Holds(areas[i], p * PageSize)}

\* What the program sees: how each page is mapped, and what it holds.
PageMap ==
    [p \in MmapPages |->
        LET a == areas[CHOOSE i \in HeldBy(p) : TRUE]
        IN IF HeldBy(p) = {} THEN [mapped |-> FALSE, prot |-> {}, huge |-> FALSE]
           ELSE [mapped |-> TRUE, prot |-> a.prot, huge |-> a.type = "huge"]]

PageStore ==
    [p \in MmapPages |-> IF HeldBy(p) = {} \/ p \notin DOMAIN mem THEN Junk ELSE mem[p]]

A == INSTANCE AddressSpace WITH
        Page <- MmapPages, PerHuge <- HugeSize \div PageSize, Prot <- Prots,
        map <- PageMap, store <- PageStore

\* The state has the types of the code, and every page that has memory has it through
\* one entry of the tables: a PTE, or the PMD entry of its huge page.
TypeOK ==
    /\ \A i \in DOMAIN areas : /\ areas[i].start \in Nat /\ areas[i].end \in Nat
                               /\ areas[i].prot \in Prots /\ areas[i].type \in {"normal", "huge"}
    /\ hasDummy \in BOOLEAN /\ alive \in BOOLEAN /\ lost \in Nat
    /\ kernel \in {"ok", "strayFree", "walksData", "loops"}
    /\ pud \in {"absent", "ro", "rw"}
    /\ \A h \in DOMAIN pmd : pmd[h] \in [kind : {"table", "huge"}, w : BOOLEAN]
    /\ DOMAIN mem = DOMAIN pte \cup {p \in DOMAIN mem : IsHuge(RangeOf(p * PageSize))}
    /\ \A p \in DOMAIN pte : IsTable(RangeOf(p * PageSize))
    /\ \A p \in DOMAIN mem : mem[p] \in Values \cup {Junk}

\* The areas are in address order, none overlaps another or the dummy, and none
\* could be merged with its neighbour: what sorted_Insert and the splitting of
\* areas in munmap and in the huge-page calls must keep (mmap.c).
ListInOrder ==
    \A i \in DOMAIN areas :
        /\ EndOf(areas, i - 1) <= areas[i].start /\ areas[i].start < areas[i].end
        /\ i > 1 => ~Mergeable(areas[i - 1], areas[i])

\* A small page is present only inside a small-page area: munmap, make_hugepage and
\* the splitting of areas leave no page that a program could still reach.
NoStrayPage ==
    kernel = "ok" => \A p \in DOMAIN pte : \E i \in HeldBy(p) : areas[i].type = "normal"

\* The page tables agree with the list: a huge area has a huge page in each range,
\* and a small-page area none, so that free() and make_entry() walk real tables.
TablesAgree ==
    \A i \in DOMAIN areas : \A p \in Pages(areas[i].start, areas[i].end) :
        IsHuge(RangeOf(p * PageSize)) <=> areas[i].type = "huge"

\* The stack pages from next_free up are all present and writable: no hole is left
\* when an access below the stack makes it grow by several pages (do_page_fault).
StackWhole ==
    \A p \in PageOf(stackNext) .. PageOf(StackSeg.next) - 1 : p \in DOMAIN segPte /\ segPte[p]

\* Every test of user/Task1 and user/Task2 runs to its end and sees what its output
\* file shows: it is neither killed by a fault nor stopped in the kernel, and a legal
\* access that faults is served and goes through when it is tried again.
TestsPass == IsTest => <>(IsTest /\ pc = Len(Code[prog]) /\ ~failed)

\* The memory system implements AddressSpace: only free pages are mapped, only the
\* pages asked for are unmapped, and conversions keep contents.
ImplementsAddressSpace == A!ASpec

\* No two areas share a page (user/Task1/testcase4.c:33: a taken hint goes to the
\* next free addresses).
HintGoesElsewhere == \A i, j \in DOMAIN areas : i < j => areas[i].end <= areas[j].start
==============================================================================
