--------------------------- MODULE MemoryPrograms ----------------------------
(***************************************************************************)
(* The programs that use the memory of module Memory: the tests of         *)
(* Assignment 4 (user/Task1, user/Task2), with the output files beside     *)
(* them, and one free program that makes any calls of a small set.         *)
(***************************************************************************)
EXTENDS Memory

CONSTANTS
    Programs,                           \* the programs run
    FreeAddrs, FreeLens, FreeProts,     \* what the free program asks for
    FreeStores,                         \* addresses it stores to and loads from
    SegStores,                          \* addresses of the other segments accessed
    MaxCalls                            \* system calls of the free program

ASSUME FreeAssumption ==
    /\ FreeAddrs \subseteq {a \in Nat : a >= Dummy.end}
    /\ FreeLens \subseteq Int /\ FreeProts \subseteq Prots
    /\ FreeStores \subseteq Nat /\ SegStores \subseteq Nat

VARIABLES
    prog,       \* a test, "free", or "segments", which only accesses the other segments
    pc,         \* calls made
    reg,        \* its variables: what earlier calls returned
    failed      \* it printed a failure, or pmap something else than the output file

pvars == <<prog, pc, reg, failed>>

MB == HugeSize \div 2
RW == {"R", "W"}
aligned == MmapStart + HugeSize

At(var, off) == [var |-> var, off |-> off]
Const(n)     == At("zero", n)
Eval(e)      == reg[e.var] + e.off

\* "want" is the program's check on the result.
Map(to, addr, len, prot, flags, want) ==
    [op |-> "mmap", to |-> to, addr |-> addr, len |-> len, prot |-> prot, flags |-> flags, want |-> want]
Unmap(addr, len) == [op |-> "munmap", to |-> "none", addr |-> addr, len |-> len, want |-> "ok"]
Huge(to, addr, len, prot, force, want) ==
    [op |-> "make", to |-> to, addr |-> addr, len |-> len, prot |-> prot, force |-> force, want |-> want]
Break(addr, len, want) == [op |-> "break", to |-> "none", addr |-> addr, len |-> len, want |-> want]
Write(addr, v) == [op |-> "store", addr |-> addr, value |-> v]
Read(addr, v)  == [op |-> "load", addr |-> addr, value |-> v]
\* pmap(0) prints two counts, pmap(1) the areas too.
Pmap(count, nfaults)        == [op |-> "pmap", count |-> count, faults |-> nfaults, list |-> << >>]
PmapAll(list, nfaults)      == [op |-> "pmap", count |-> Len(list), faults |-> nfaults, list |-> list]

Small(k, n, prot) == Area(aligned + k * MB, aligned + (k + n) * MB, prot, "normal")
Big(k, n, prot)   == Area(aligned + k * MB, aligned + (k + n) * MB, prot, "huge")

\* The first addresses handed out, and the area of page k after the dummy.
Low(k, n, prot) == Area(Dummy.end + k * PageSize, Dummy.end + (k + n) * PageSize, prot, "normal")

-------------------------------------------------------------------------------
(* user/Task1 *)

Task1_1 ==
    << Map("a1", Const(NULL), 22, RW, "none", "ok"), PmapAll(<<Low(0, 1, RW)>>, 0),
       Map("a2", Const(NULL), PageSize, {"W"}, "none", "ok"),
       PmapAll(<<Low(0, 1, RW), Low(1, 1, {"W"})>>, 0),
       Unmap(At("a2", 0), PageSize), Pmap(1, 0), Unmap(At("a1", 0), 22), Pmap(0, 0) >>

Task1_2 ==
    << Map("mm1", Const(NULL), 2 * PageSize, RW, "none", "ok"), Pmap(1, 0),
       Map("mm2", Const(NULL), 2 * PageSize, RW, "none", "ok"), Pmap(1, 0),
       Map("mm3", Const(NULL), 4 * PageSize, {"R"}, "none", "ok"), Pmap(2, 0),
       Unmap(At("mm3", 0), 2 * PageSize), Pmap(2, 0),
       Map("mm4", Const(NULL), 2 * PageSize, {"R"}, "none", "ok"), Pmap(2, 0),
       Unmap(At("mm4", PageSize), 2 * PageSize), Pmap(3, 0) >>

\* Every other page of fifty unmapped, then mapped again.
Task1_3 ==
    <<Map("mm1", Const(NULL), 50 * PageSize, RW, "none", "ok"), Pmap(1, 0)>>
      \o [k \in 1 .. 25 |-> Unmap(At("mm1", (2 * k - 1) * PageSize), PageSize)] \o <<Pmap(25, 0)>>
      \o [k \in 1 .. 25 |-> Map("mm2", Const(NULL), PageSize, RW, "none", "ok")] \o <<Pmap(1, 0)>>

Task1_4 ==
    << Map("mm1", Const(NULL), 2 * PageSize, RW, "none", "ok"), Pmap(1, 0),
       Map("mm2", At("mm1", 10 * PageSize), PageSize, RW, "none", "hint"), Pmap(2, 0),
       Map("mm3", At("mm1", 0), PageSize, {"R"}, "none", "ok"), Pmap(3, 0),
       Unmap(At("mm3", 0), PageSize), Pmap(2, 0), Unmap(At("mm2", 0), PageSize), Pmap(1, 0),
       Unmap(At("mm1", 0), 2 * PageSize), Pmap(0, 0) >>

Task1_5 ==
    << Map("mm1", Const(NULL), 2 * PageSize, RW, "none", "ok"), Pmap(1, 0),
       Map("mm2", At("mm1", 10 * PageSize), PageSize, RW, "fixed", "hint"), Pmap(2, 0),
       Map("mm3", At("mm1", 0), PageSize, {"R"}, "fixed", "error"), Pmap(2, 0) >>

Task1_6 ==
    <<Map("lazy", Const(NULL), 50 * PageSize, RW, "none", "ok")>>
      \o [i \in 1 .. 50 |-> Write(At("lazy", (i - 1) * PageSize), "X")] \o <<Pmap(1, 50)>>
      \o [i \in 1 .. 50 |-> Read(At("lazy", (i - 1) * PageSize), "X")] \o <<Pmap(1, 50)>>

Task1_7 ==
    << Map("a1", Const(NULL), PageSize, {"R"}, "none", "any"),
       Map("a2", At("a1", 2 * PageSize), PageSize, {"R"}, "none", "any"),
       PmapAll(<<Low(0, 1, {"R"}), Low(2, 1, {"R"})>>, 0),
       Unmap(At("a1", 0), 3 * PageSize), Pmap(0, 0) >>

\* The beginning of most tests with huge pages.
OneHuge == << Map("p", Const(aligned), 2 * MB, RW, "none", "any"), PmapAll(<<Small(0, 2, RW)>>, 0),
              Huge("h1", At("p", 0), 2 * MB, RW, FALSE, "any"), PmapAll(<<Big(0, 2, RW)>>, 0) >>

Apart == << Map("p", At("h1", 4 * MB), 2 * MB, RW, "none", "any"),
            PmapAll(<<Big(0, 2, RW), Small(4, 2, RW)>>, 0) >>

Task1_8 == OneHuge \o Apart
    \o << Huge("h2", At("p", 0), 2 * MB, RW, FALSE, "any"), PmapAll(<<Big(0, 2, RW), Big(4, 2, RW)>>, 0),
          Unmap(Const(aligned), 6 * MB), Pmap(0, 0) >>

Task1_9 == OneHuge \o Apart \o << Unmap(Const(aligned), 6 * MB), Pmap(0, 0) >>

-------------------------------------------------------------------------------
(* user/Task2 *)

Task2_1 ==
    << Map("p", Const(aligned), 2 * MB, RW, "none", "any"), PmapAll(<<Small(0, 2, RW)>>, 0),
       Write(At("p", 0), "X"), Huge("h", At("p", 0), 2 * MB, RW, FALSE, "any"),
       PmapAll(<<Big(0, 2, RW)>>, 1), Read(At("h", 0), "X") >>

Task2_2 == OneHuge \o << Break(At("h1", 0), 2 * MB, "ok"), PmapAll(<<Small(0, 2, RW)>>, 0) >>

Quarters == <<Small(0, 1, {"R"}), Small(1, 1, {"W"}), Small(2, 1, {"R"}), Small(3, 1, {"W"})>>

Task2_3 ==
    << Map("a1", Const(aligned), MB, {"R"}, "none", "any"), Map("a2", At("a1", MB), MB, {"W"}, "none", "any"),
       Map("a3", At("a2", MB), MB, {"R"}, "none", "any"), Map("a4", At("a3", MB), MB, {"W"}, "none", "any"),
       PmapAll(Quarters, 0), Huge("none", At("a1", 0), 4 * MB, {"R"}, FALSE, "error"), PmapAll(Quarters, 0),
       Huge("a5", At("a1", 0), 4 * MB, {"R"}, TRUE, "any"), PmapAll(<<Big(0, 4, {"R"})>>, 0) >>

Task2_4 == OneHuge \o << Break(At("h1", 0), 2 * MB, "any"), PmapAll(<<Small(0, 2, RW)>>, 0) >>

Task2_5 == OneHuge \o << Break(At("h1", 33), 2 * MB, "error"), Break(At("h1", 0), 10, "error"),
                         PmapAll(<<Big(0, 2, RW)>>, 0) >>

Task2_6 == OneHuge \o Apart
    \o << Huge("h2", At("p", 0), 2 * MB, RW, FALSE, "any"), PmapAll(<<Big(0, 2, RW), Big(4, 2, RW)>>, 0),
          Map("p", At("h1", 2 * MB), 2 * MB, RW, "none", "any"),
          PmapAll(<<Big(0, 2, RW), Small(2, 2, RW), Big(4, 2, RW)>>, 0),
          Huge("h3", At("p", 0), 2 * MB, RW, FALSE, "any"), PmapAll(<<Big(0, 6, RW)>>, 0) >>

Task2_7 == OneHuge \o << Write(At("h1", 0), "X"), Read(At("h1", 0), "X") >>

Task2_8 ==
    << Map("a", Const(NULL), 8 * MB, RW, "none", "any"),
       PmapAll(<<Area(Dummy.end, Dummy.end + 8 * MB, RW, "normal")>>, 0), Write(Const(aligned), "X"),
       Huge("h", At("a", 0), 8 * MB, RW, FALSE, "any"),
       PmapAll(<<Area(Dummy.end, aligned, RW, "normal"), Big(0, 6, RW),
                 Area(aligned + 6 * MB, Dummy.end + 8 * MB, RW, "normal")>>, 1),
       Read(At("h", 0), "X") >>

Code == [ Task1_1 |-> Task1_1, Task1_2 |-> Task1_2, Task1_3 |-> Task1_3, Task1_4 |-> Task1_4,
          Task1_5 |-> Task1_5, Task1_6 |-> Task1_6, Task1_7 |-> Task1_7, Task1_8 |-> Task1_8,
          Task1_9 |-> Task1_9, Task2_1 |-> Task2_1, Task2_2 |-> Task2_2, Task2_3 |-> Task2_3,
          Task2_4 |-> Task2_4, Task2_5 |-> Task2_5, Task2_6 |-> Task2_6, Task2_7 |-> Task2_7,
          Task2_8 |-> Task2_8 ]

Tests == DOMAIN Code

Registers == {"zero", "none", "a", "a1", "a2", "a3", "a4", "a5", "mm1", "mm2", "mm3", "mm4",
              "lazy", "p", "h", "h1", "h2", "h3"}

-------------------------------------------------------------------------------
(* The steps of a test *)

PInit == /\ Init
         /\ prog \in Programs
         /\ pc = 0 /\ reg = [r \in Registers |-> 0] /\ failed = FALSE

IsTest     == prog \in Tests
Op         == Code[prog][pc + 1]
Here(kind) == IsTest /\ pc < Len(Code[prog]) /\ Op.op = kind

\* A call stores its result in the program's variable and is checked as the test checks it.
Returns(result) ==
    /\ reg' = IF Op.to = "none" THEN reg ELSE [reg EXCEPT ![Op.to] = result]
    /\ failed' = (failed \/ CASE Op.want = "ok"    -> result < 0
                               [] Op.want = "error" -> result >= 0
                               [] Op.want = "hint"  -> result # Eval(Op.addr)
                               [] OTHER -> FALSE)

Advance == pc' = pc + 1 /\ UNCHANGED prog

TestCall ==
    /\ \/ /\ Here("mmap")
          /\ Mmap(Eval(Op.addr), Op.len, Op.prot, Op.flags)
          /\ Returns(MmapResult(Eval(Op.addr), Op.len, Op.prot, Op.flags))
       \/ /\ Here("munmap")
          /\ Munmap(Eval(Op.addr), Op.len) /\ Returns(MunmapResult(Eval(Op.addr), Op.len))
       \/ /\ Here("make")
          /\ MakeHugepage(Eval(Op.addr), Op.len, Op.prot, Op.force)
          /\ Returns(MakeResult(Eval(Op.addr), Op.len, Op.prot, Op.force))
       \/ /\ Here("break")
          /\ BreakHugepage(Eval(Op.addr), Op.len) /\ Returns(BreakResult(Eval(Op.addr), Op.len))
    /\ Advance

TestPmap ==
    /\ Here("pmap") /\ Running
    /\ failed' = \/ failed
                 \/ PmapCount # Op.count \/ faults # Op.faults
                 \/ Op.list # << >> /\ areas # Op.list
    /\ UNCHANGED <<vars, reg>> /\ Advance

TestAccess ==
    \/ Here("store") /\ Store(Eval(Op.addr), Op.value) /\ Advance /\ UNCHANGED <<reg, failed>>
    \/ /\ Here("load") /\ Load(Eval(Op.addr)) /\ Advance /\ UNCHANGED reg
       /\ failed' = (failed \/ mem[PageOf(Eval(Op.addr))] # Op.value)

\* The access is tried again after the fault.
TestFault ==
    /\ IsTest /\ pc < Len(Code[prog]) /\ Op.op \in {"store", "load"}
    /\ do_page_fault(Eval(Op.addr), Op.op = "store")
    /\ UNCHANGED pvars

-------------------------------------------------------------------------------
(* The free program.  It keeps to requests that mmap.c serves as it should: it asks
   for ranges that are free or whose ends are taken, converts ranges that are mapped
   throughout and lie in the span of an int, breaks huge areas whole or up to a point
   inside the last one, and unmaps nothing of a huge area.  What the
   code does with other requests is in the README. *)

Free(s, e) == \A i \in DOMAIN areas : areas[i].end <= s \/ e <= areas[i].start
MappedAll(s, e, t) == \A p \in Pages(s, e) :
                        \E i \in DOMAIN areas : Holds(areas[i], p * PageSize) /\ areas[i].type = t

\* No address up to this one wraps around when overlap() takes it as an int.
FitsInt(addr) == addr - MmapStart + HugeSize < IntSpan

FreeCall == prog = "free" /\ pc < MaxCalls /\ Advance /\ UNCHANGED <<reg, failed>>

FreeMmap ==
    FreeCall /\ \E len \in FreeLens, prot \in FreeProts :
        \/ Mmap(NULL, len, prot, "none")
        \/ \E a \in FreeAddrs :
             /\ Taken(areas, a, a + Up(len, PageSize)) \/ Free(a, a + Up(len, PageSize))
             /\ Mmap(a, len, prot, "fixed")
        \/ \E a \in FreeAddrs :
             Free(Up(a, PageSize), Up(a, PageSize) + Up(len, PageSize)) /\ Mmap(a, len, prot, "none")

FreeMunmap ==
    FreeCall /\ \E a \in FreeAddrs, len \in FreeLens :
        /\ \A i \in DOMAIN areas : areas[i].type = "huge" =>
              areas[i].end <= a \/ UnmapEnd(areas[i], a, len) <= areas[i].start
        /\ Munmap(a, len)

FreeHuge ==
    FreeCall /\ \E a \in FreeAddrs, len \in FreeLens :
        \/ \E prot \in FreeProts :
             /\ Up(a, HugeSize) < Down(a + len, HugeSize)
             /\ MappedAll(Up(a, HugeSize), Down(a + len, HugeSize), "normal")
             /\ FitsInt(a + len) /\ \A i \in DOMAIN areas : FitsInt(areas[i].end)
             /\ MakeHugepage(a, len, prot, FALSE)
        \/ /\ MappedAll(a, a + len, "huge") \/ BreakFails(a, len)
           /\ \A i \in DOMAIN areas : areas[i].type = "huge" =>
                /\ areas[i].start >= a /\ areas[i].end <= a + len => i = 1
                /\ areas[i].start < a /\ areas[i].end > a => areas[i].end >= a + len
           /\ BreakHugepage(a, len)

FreeAccess ==
    /\ ~IsTest /\ UNCHANGED pvars
    /\ \E a \in IF prog = "free" THEN FreeStores ELSE SegStores :
        \/ Load(a)
        \/ \E v \in Values : Store(a, v)
        \/ \E w \in BOOLEAN : do_page_fault(a, w)

TestStep == TestCall \/ TestPmap \/ TestAccess \/ TestFault

Next == TestStep \/ FreeMmap \/ FreeMunmap \/ FreeHuge \/ FreeAccess

\* A test runs on; the kernel does not stop it.
Spec == PInit /\ [][Next]_<<vars, pvars>> /\ WF_<<vars, pvars>>(TestStep)
==============================================================================
