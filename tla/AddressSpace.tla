---------------------------- MODULE AddressSpace -----------------------------
(***************************************************************************)
(* What the memory system calls of Assignment 4 promise a program, page by *)
(* page: a page is free or mapped with a protection, in small pages or in  *)
(* huge ones; a mapped page keeps what was stored in it until it is        *)
(* unmapped; huge pages come and go by whole ranges.  Memory implements    *)
(* this specification.                                                     *)
(***************************************************************************)
EXTENDS Naturals

CONSTANTS
    Page,           \* page numbers
    PerHuge,        \* pages in a huge page
    Prot,           \* protections
    Values, Junk    \* contents, and the content of a page nobody has stored to

VARIABLES
    map,    \* page |-> Free or how it is mapped
    store   \* page |-> content

avars == <<map, store>>

Free == [mapped |-> FALSE, prot |-> {}, huge |-> FALSE]
As(prot, huge) == [mapped |-> TRUE, prot |-> prot, huge |-> huge]

Mapped(p) == map[p].mapped
InHuge(p) == map[p].mapped /\ map[p].huge

\* The pages of p's huge-page range.
RangeOfPage(p) == {q \in Page : q \div PerHuge = p \div PerHuge}

Whole(S) == \A p \in S : RangeOfPage(p) \subseteq S

AInit == map = [p \in Page |-> Free] /\ store = [p \in Page |-> Junk]

\* mmap takes free pages only, and gives them small pages.
AMap(S, prot) ==
    /\ S # {} /\ \A p \in S : ~Mapped(p)
    /\ map' = [p \in Page |-> IF p \in S THEN As(prot, FALSE) ELSE map[p]]
    /\ UNCHANGED store

\* munmap frees small pages one by one, and huge pages whole.
AUnmap(S) ==
    /\ \A p \in S : Mapped(p) /\ (InHuge(p) => RangeOfPage(p) \subseteq S)
    /\ map'   = [p \in Page |-> IF p \in S THEN Free ELSE map[p]]
    /\ store' = [p \in Page |-> IF p \in S THEN Junk ELSE store[p]]

\* make_hugepage turns whole ranges of small pages into huge ones, contents kept.
AMakeHuge(S, prot) ==
    /\ Whole(S) /\ \A p \in S : Mapped(p) /\ ~InHuge(p)
    /\ map' = [p \in Page |-> IF p \in S THEN As(prot, TRUE) ELSE map[p]]
    /\ UNCHANGED store

\* break_hugepage is its inverse, and keeps the protections.
ABreakHuge(S) ==
    /\ Whole(S) /\ \A p \in S : InHuge(p)
    /\ map' = [p \in Page |-> IF p \in S THEN [map[p] EXCEPT !.huge = FALSE] ELSE map[p]]
    /\ UNCHANGED store

AStore(p, v) ==
    /\ Mapped(p)
    /\ store' = [store EXCEPT ![p] = v]
    /\ UNCHANGED map

\* Each of the first four changes all the pages of its set and no other: S is the
\* set of the pages the step changes.
ANext == \/ \E S \in {{p \in Page : map'[p] # map[p]}} :
              AUnmap(S) \/ ABreakHuge(S) \/ \E prot \in Prot : AMap(S, prot) \/ AMakeHuge(S, prot)
         \/ \E p \in Page, v \in Values : AStore(p, v)

ASpec == AInit /\ [][ANext]_avars
==============================================================================
