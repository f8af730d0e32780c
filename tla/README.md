# Verification of the CS330 operating-system assignments

The repository holds four assignments of an operating-systems course: programs
for Linux (Assignment 1) and parts of the teaching kernel gemOS (Assignments
2, 3 and 4), each with its own copy of the kernel. This directory holds TLA+
models of them, model-checked with TLC and, where it says so, proved with
TLAPS. Paths below are relative to the repository's root; `A1` stands for
`Assignment 1`, and `A2`, `A3` and `A4` for `Assignment 2/gemOs/src`,
`Assignment 3/src` and `Assignment 4/GemOS/src`.

## 1. The system

gemOS runs on one CPU. A kernel entry (system call, exception or timer tick)
runs to completion with interrupts off, so **one kernel entry is one action**
in every gemOS model; concurrency is the interleaving of the entries of
different processes. Boot code, the memory allocator, context creation,
interrupts and pipes come as object files only: they are modelled by what the
sources rely on (the entries marked `external` in `PROJECT.json`). The programs
of Assignment 1 run on Linux: there an action is one system call, `read`,
`write`, `fork`, `exec`, `wait` or `exit`, with pipes as bounded or unbounded
sequences of bytes.

| component | state | operations | interacts with |
|---|---|---|---|
| message queue (`A2/msg_queue.c`) | per queue: member list, blocked pairs, one-page message buffer; per file object: a reference count | create, send (unicast, broadcast), receive, count, member info, block, close | fork and exit handlers in `A2/entry.c`, descriptor tables in `A2/file.c` |
| queue test programs (`A2/user/test_cases_part2`) | program counters, answers, printed lines | the system calls of a parent and its children | the message queue |
| files (`A2/file.c`, `A2/fs.c`) | descriptor tables, file objects with count and offset, inodes, bytes | open, read, write, lseek, dup2, close, sendfile | fork copies the tables, exit closes them; the tests of `test_cases_part1` |
| process table and scheduler (`A3/schedule.c`, `A4/entry.c`) | state and sleep count of every slot, the current context | tick, sleep, fork, exit, schedule | every kernel entry that blocks or exits |
| debugger (`A3/debug.c`) | breakpoint list, the opcode bytes it patches, saved `rax` | become_debugger, set/remove/enable/disable breakpoint, wait_and_continue, INT3, fork and exit hooks | the scheduler: debugger and debuggee write each other's process state |
| memory mapping (`A4/mmap.c`) | sorted list of areas, page tables, contents of pages | mmap, munmap, make_hugepage, break_hugepage, pmap, page fault | page faults enter through `A4/entry.c`; the tests of `user/Task1`, `user/Task2` |
| command execution (`A1/Part1`) | children, pipes, output file | run one command, run a list in parallel | Linux processes and pipes |
| umpire and players (`A1/Part2`) | pipes, scores, bracket | start players, ask for moves, score, eliminate | Linux processes and pipes |

What is hard in them:

* *Message queue.* Joins, leaves, sends and blocks of several processes come in
  any order; process ids and messages outlive their process; a leave moves
  entries; the last leave frees the pages. Correct means: the members are the
  processes that hold the queue, a message is delivered once, in order, to the
  members that do not refuse it, and freed pages are not used.
* *Files.* Objects are shared by descriptors and processes and counted, their
  pages are given out again, all files lie in one range of memory, and error
  codes are added to offsets. Correct means: counts follow the descriptors, an
  offset lies in its file, and nobody writes into another file. The code promises
  less (divergences 4 and 5), and the properties say how much is left.
* *Scheduler.* A wrap-around search with special cases at both ends, entered
  with processes parking, sleeping, waking and dying. Correct means: what is
  loaded can run, nobody starves, sleepers wake.
* *Debugger.* Two processes hand the CPU to each other by writing each other's
  state while the timer, sleeps and exits change it as well; the list of
  breakpoints has to agree with the bytes in the code. Correct means: never
  both running, every wait returns with what happened last, list and code agree.
* *Memory mapping.* A sorted list with merges and splits has to agree with the
  page tables over long sequences of calls, with small and huge pages. Correct
  means: the program sees a simple map from pages to protections and contents.
* *Assignment 1.* Pipes with both ends open in several processes: who sees the
  end of the input, who waits for whom, and whether what is read belongs to the
  question that was asked.

`PROJECT.json` lists the hazards at their lines with the properties that cover
them.

## 2. Modules

```
Mailboxes    <--refines-- MsgQueue <-- MCMsgQueue (TLC), QueuePrograms
                             ^-------- MsgQueueProofs
                          Files    <-- FilePrograms <-- FilesProofs
                          Scheduler <-- Debugger <-- DebuggerProofs
AddressSpace <--refines-- VmAreas <-- Memory <-- MemoryPrograms <-- MCMemory (TLC)
                                                                      ^-- MemoryProofs
RockPaperScissors <-- Players <-- Umpire <-- UmpireTests, UmpireProofs
                         ^------- Tournament <-- TournamentTests, TournamentProofs
Knockout     <--refines-- Tournament
                          Commands <-- CommandTests, CommandsProofs
DataFacts    used by DebuggerProofs, MsgQueueProofs, FilesProofs, MemoryProofs,
             TournamentProofs
```

Three of the detailed models implement an abstract specification (`Mailboxes`,
`AddressSpace`, `Knockout`), by `INSTANCE` with a refinement mapping. Four
modules hold the programs that drive the kernel or the umpires: the repository's
own tests, translated call by call, with the lines of their expected-output
files as liveness properties, beside programs that make arbitrary calls.

### Mailboxes, MsgQueue, MCMsgQueue, QueuePrograms

`Mailboxes` is what a queue promises: a group, one first-in first-out mailbox
per process, and a set of refused pairs. A process founds the group or joins it
as the child of a member, and only the process itself can leave.

`MsgQueue` is the code. `members` is `member_pid[0..member_count-1]`, `buf` is
`msg_buffer[0..qsize-1]`, `blocked` the pairs with `isblocked[from][to]`, `refs`
the count of the queue's file object, `fds` the descriptors that denote it, `st`
whether its pages are allocated. Every system call is an action; `Fork` and
`Exit` include the queue handlers and the closing of files. Reads
(`get_msg_count`, `get_member_info`) are the operators `MsgCount` and `Members`.
The helper `DropMember` is the loop of `do_msg_queue_close` including what it
does when the caller is not listed: the last entry is lost. `Select` is the loop
of a send over the member list, written as a recursive function so that it can be
reasoned about. Calls that fail return without an effect and are stutters.

Assumptions on programs, each a guard or a remark in the module: a process
fills in its own pid as sender, fork keeps the list within `MAX_MEMBERS`, a
member has at most 32 (`PerMember`) messages pending. The assignment states the
last two. After `member_count` has wrapped (`st = "wrecked"`) no send or fork
through the queue is followed any further.

`PlainSpec` has programs that leave a queue by exiting and duplicate no
descriptor; `Spec` adds `msg_queue_close` and `dup2`. Nearly everything the
queue promises is true of the first and some of it false of the second, which
is itself a result: see Divergences.

`QueuePrograms` puts the four tests (`send_rcv.c`, `bcast.c`, `add_on_fork.c`,
`block.c`) on top, one action per system call of the parent and of each child;
a poll that finds nothing is a stutter. `printed` is compared with the `.output`
files. In `block.c` the parent sleeps twenty ticks "till the child checks"; that
this is long enough is an assumption (`WakeUp`).

### Files, FilePrograms

`files` is `files[]` of each process, an entry being the page of a file object;
`obj` the objects in the pages (`ref_count`, `mode`, `offp`, inode), `inode`
and `disk` the flat file system with its `FileSize` bytes per file in one array,
as in `fs.c`. `open` of a name of a standard stream, or of a file with and
without `O_CREAT`, `read`, `write`, `lseek`, `close`, `dup2`, `sendfile`, `fork`
and `exit` are actions with all their error returns. Pages are given out lowest
first, so that a freed object's page comes back at once and stale descriptors
meet a new object. Where the code goes on with a freed object, without a page,
with a NULL inode, past `files[]` or at a byte before the first file, `kernel`
says which (`"freedObject"`, `"noPage"`, `"noInode"`, `"noDescriptor"`,
`"beforeStore"`) and the model stops: what follows is not defined by the source.
An offset may be negative, and `flat_read` and `flat_write` then reach into the
file before, as in the code. `copied` remembers that `dup2` or `fork`, neither of
which counts, has made a descriptor; only a property uses it.

`FilePrograms` holds the four tests of part 1 and a free program whose processes
make any `MaxCalls` calls, writes that fail at the start of a file included (each
adds -1 to the offset). It seeks, reads and sends regular files only: the inode of
a standard object is not initialised. `OffsetInFile` bounds the offset on both
sides: never past the end of the file, and before its start by no more than the
longest write is too long for a file, because a write that fits from there no
longer fails; for a program that never writes more than a file holds it lies in
the file. `OnlyWritersChange` says whose bytes a write can change: those of a file
that is open for writing, or of an earlier one that the negative offset of such a
file reaches (`Reaches`).

### Scheduler

`pstate`, `ticks`, `current` are `exec_context.state`, `ticks_to_sleep` and
`current_ctx`. `PickLoop` is the loop of `pick_next_context` as written,
`PickNext` what it computes (the READY user slot that comes next in cyclic
order, else the swapper); `LoopIsCyclic` compares them in every reachable table
from every slot. `Tick` is the whole of `handle_timer_tick`, including that a
process picked again stays READY. `Up` stops the clock when the last user
process is gone (`do_cleanup`).

### Debugger

Extends `Scheduler`'s variables with the debugger's. `bps`, `bp_num` and `code`
are the list, its counter and the opcode byte at every function; `rax` is the
saved return value the kernel writes into another process, `at` the function a
debuggee was last stopped in, which is only used to state properties. A call of
a function by a debuggee is `Call(a)`: INT3 if the byte says so, else nothing.
`Next` has everything an init-as-debugger may call. `SessionNext` is the use the
assignment describes: one debuggee at a time, waited for only while it lives.
Forks by debuggees are left out (their children park and nobody continues them).
`info_breakpoints`, `info_registers` and `backtrace` change nothing.

### VmAreas, Memory, AddressSpace, MemoryPrograms, MCMemory

`VmAreas` is the list of areas and nothing else: an operator per function of
`mmap.c` maps a list to the list that function leaves. The list is the sequence
after the dummy node. `sorted_Insert` keeps the code's merge rules, and says in
`stray` when it frees the wrong node; `Taken` is the end-point test the code
makes instead of an overlap test; `overlap` works on addresses cut to an `int`
(`IntSpan`); `BreakArea` has the `prev` that never advances.

`Memory` adds the page tables, one entry per huge-page range (`pmd`) and per
page (`pte`) below the region's PUD entry, each with its write bit, the contents
of pages, and the page-fault handler with the data, read-only, stack and mmap
segments. `Mmap`, `Munmap`, `MakeHugepage`, `BreakHugepage`, `Load`, `Store` and
`do_page_fault` are the actions. `kernel` stops the model where the code frees a
wrong node, walks user data as a page table or does not terminate.

`AddressSpace` is the promise, page by page: only free pages are mapped, only
the pages asked for are unmapped, huge pages come and go by whole ranges, a
conversion keeps contents, a store changes one page.

`MemoryPrograms` has all seventeen tests of the two tasks with their expected
`pmap` lines, a program that touches the other segments, and a free program,
which makes any calls of a small set as long as they are ones the code serves
properly: it maps at ranges that are refused or wholly free, unmaps nothing of a
huge area, converts whole ranges that are mapped with small pages and lie within
the span of a C `int` (`FitsInt`: beyond it `overlap` takes distant areas for
neighbours), and breaks whole huge pages; when the request covers a huge area, or
ends beyond one that it begins in, that area is the first or reaches to the end of
the request (the guards of `FreeMmap`, `FreeMunmap` and `FreeHuge`). The conditions
of `FitsInt` and of the area that a break begins in were found by the proofs: in an
instance as small as the run's no call violates them, in a larger one the list
would lose its order. What happens otherwise is in section 6;
huge areas are unmapped, as far as they are, in the tests.

### RockPaperScissors, Players, Umpire, UmpireTests

`RockPaperScissors` has the moves, the umpires' two comparisons as written
(`Wins`, `Loses`, which differ for a byte that is no move), the rules (`Beats`),
and what the player programs of the tests answer. `Players` is the players'
loop and the two pipes of each. A player whose program is not found (`Missing`)
exits at once, and what its copy of the umpire's stdout buffer held goes into
its output pipe (`Leftover`). `Umpire` is `umpire.c`; `UmpireTests` has the
programs and results of `Part2/2.1/tests`.

### Knockout, Tournament, TournamentTests

`Tournament` is `umpire2.c` with `getWalkOver` either the one of `gameUtils.c`
or any that returns a number in its range, as its comment says. `Knockout` is
the tournament seen by a reader of the printed lines: from stage to stage the
field is paired off in order, one player sitting out when it is odd, and of each
pair the one with more points in the *next* moves of both goes on. `Field`, the
last line printed, is its `field`. Both take a set of players in order by
`InOrder` (the k-th is the one with k - 1 before it), which says what the loop
over `active[]` collects and can be reasoned about. `GamesAssumption` is what a
player file gives: at least one player, each with a program or a missing one.

### Commands, CommandTests

`Commands` is both programs of `Part1`: the search of `CS330_PATH`, children,
pipes that hold `PipeSize` pieces, `wait`, and the one `read` of `ReadSize`
pieces per command. What the parent prints goes into the buffer of its stdout, a
regular file: `out` is what was written to the file, in whole buffers of `BufSize`
pieces until the exit writes the rest, `buffer` what is still held back (`Printf`).
A parent that waits in `read` may thus leave a file without the last texts, or one
that ends inside one. The file is not emptied when it is opened: `File` is what it
holds, with the rest of a longer old content behind. The commands inherit the list
as their standard input; that they do not read it is an assumption. `CommandTests` has the tests with their inputs and outputs,
and all lists of up to three commands that are silent, print little, more than
is read, or more than a pipe holds, cannot be found, or are an empty line, and a run over a longer
old file.

## 3. Runs

Deadlock is not checked in any run: all these systems stop when their last
process has exited, and some are shown to stop earlier (section 6).

| run | what it shows | instance | distinct states |
|---|---|---|---|
| `queue_plain` | `PlainSpec` implements `Mailboxes`; members are holders; no duplicates; no use after free | 3 processes that reuse their pids, 3 messages, 1 blocked pair | 329,380 |
| `queue_all` | `Spec`: a block is final, whatever closes, duplicates, exits and reuses pids | 3 processes, 2 descriptors, 1 message, 1 blocked pair | 1,026,928 |
| `queue_programs` | the four test programs print what their output files show, exit, and leave the queue freed | the programs as they are | 132 |
| `scheduler` | the six scheduler properties | 5 slots, sleeps up to 2 ticks | 427 |
| `debug_session` | hand-over, list, results, waits that return, dead slots stay dead | 3 slots, 2 functions, 3 breakpoints set, 2 steps per debuggee | 6,456 |
| `memory` | the tests see what they expect and finish; list and tables agree; implements `AddressSpace` | 4 pages per huge page, 15 of the 17 tests, free programs of 4 calls | 87,024 |
| `files` | the tests print what they should; counts, offsets and files are kept apart | 2 processes, 6 descriptors, 6 pages, 2 files of 3 bytes, free programs of 5 calls | 1,412,957 |
| `commands` | output in order under every order of the children; the parent ends exactly when each command prints something that fits its pipe | the tests and all lists of up to 3 commands | 135,256 |
| `umpire` | every order of the processes gives the score the moves deserve; a match with a missing player never ends | 10 rounds, any two of nine programs | 10,637 |
| `tournament` | what is printed is a knockout, also with players missing; it ends when none is | the tests; up to 5 players, up to 2 rounds, any walk-over | 190,646 |
| `queue_leave` | *violated*: only the caller leaves a queue | the smallest that reaches it | |
| `memory_hint` | *violated*: a taken hint is mapped elsewhere (`Task1/testcase4.c`) | that test | |

**Bounds.** `MaxPid`, `MaxProcesses`: three processes are the least with a
sender, a receiver and a third one whose entry is moved or whose pid is reused;
five slots give the scheduler a wrap with a scan start that is neither end.
`MaxBlocked` and `MaxLetters` are state constraints of `MCMsgQueue`: one blocked
pair and three messages are enough for a blocked and an unblocked receiver of
one broadcast and for a receive from the middle of the buffer. `Work` bounds the
steps of a debuggee, `MaxNum` the breakpoints ever set (more than
`MAX_BREAKPOINTS`, so that the list is full, shrinks and grows again),
`MaxSleep` the length of a sleep. Two descriptors (`MCFds`) are the least that
`dup2` of a queue needs.

*Files:* six descriptors are three standard ones and the three the tests use;
six pages let two processes hold three objects beside the standard ones and run
out; a text is two bytes (the tests' seventeen) and a file three, so that two
writes do not fit; five calls are enough to open a file twice, write through one
object and seek, send or read through the other, to copy a descriptor, close
it and reopen the page, or to open two files, fail to write at the start of the
second and then store in the last byte of the first (the longer of the two texts
is one byte too long for a file). *Memory:* a page is 64 bytes and a huge page four of
them, with the arithmetic of the code otherwise unchanged; `MaxCalls = 4` reaches
map, fault, convert, unmap or break; `MmapPages`, the pages looked at by the
refinement, are the twelve that the requests reach. *Commands:* a pipe of three
pieces, a read of two, a buffer of three: the programs print 0 to 4, so that a
buffer fills up in the middle of a text. *Tournament:* five players give an odd field
twice in a row and a walk-over at any position.

**Fairness.** `SchedSpec` assumes weak fairness of `Tick`: the timer interrupt
keeps coming while the machine is up. Nothing is assumed of the processes, which
may compute for ever. `SessionSpec` adds that a debuggee that has the CPU goes
on executing; its steps are bounded by `Work`, so it exits in the end, as the
test programs do. `PSpec` and the specifications of `FilePrograms` and
`MemoryPrograms` assume that a process of a test that can go on does;
`NoStarvation` of `Scheduler` is the reason. The programs of Assignment 1 rely on
Linux for the same: weak fairness of the umpire or parent and of each child. No
strong fairness is used.

**Mutants.** Each property has a mutated definition in the module it is about
(for example `DropMemberLast`, `FreedRangeShort`, `Peek`) under which TLC finds
it violated. They stand before the definitions they change, are introduced as
slips, and no specification uses them.

## 4. Proofs

All theorems hold for every value of the constants, from the named assumptions
of the modules only (`ConstAssumption`, `SchedAssumption`, `DebugAssumption`,
`FilesAssumption`, `ProgramsAssumption`, `CommandsAssumption`,
`OutputAssumption`, `UmpireAssumption`, `GamesAssumption`, and for the memory `SizesAssumption`,
`JunkAssumption`, `SegmentsAssumption`, the layout of the segments,
`FreeAssumption`, the ranges of the requests, and `MmapPagesAssumption`). Those of
`FilesProofs` have one more hypothesis, `Programs = {"free"}` (the tests are finite
programs and are left to TLC); those of `MemoryProofs` are about the programs that are not tests (`~IsTest`), for the
same reason.

Recursion over a list is reasoned about without an induction principle: `DataFacts`
has the least number of a set (`NatLeast`), so that a statement that fails for some
length fails for a least one, and from it what the removal of an entry and the
concatenation of lists do. The recursive operators of the models (`Select`, `Joined`,
the loop of `vm_area_break_hugepage`, `PickLoop`) are recursive functions, whose
defining equation is proved once in each proof module.

* `DebuggerProofs`, about the scheduler. `PickNextLemma`: what `PickNext` returns is
  the swapper or a READY slot that none precedes; it rests on the least element of a
  set of distances. `LoopIsCyclicAlways`: the loop of `pick_next_context`, with its
  special cases at both ends, returns just that, from every slot of every table.
  `OneRunningAlways`: `SchedTypeOK` and
  `OneRunning` are inductive together; the second conjunct of `OneRunning` (the
  loaded context can run) is what makes the first survive a tick, which turns
  the current process READY and no other. `SchedTypesAlways` is its first half.
  `TurnsApproachAlways`: every change of the current process brings the scan
  strictly closer to each process that stays READY. As distances are below the
  number of slots this bounds waiting; `NoStarvation` itself is a liveness
  property and stays with TLC.
* `MsgQueueProofs`. `MembershipAlways`, `NoDuplicatesAlways` and
  `NoUseAfterFreeAlways` for plain programs. `MemberInv` strengthens them with:
  a process has no descriptor but `FirstFd`, so that fork appends one entry and
  exit makes one call of `Close`; the queue is live exactly while it has a
  member, so that the one who finds the count at 1 is the last holder. The two
  list lemmas (`DropMemberLemma`, `JoinLemma`) say what a leave and a join do to
  the set of members. `TypesAlways` and `BlockIsFinalAlways` are about every program,
  those that close and duplicate included: a send appends one message per selected
  member, none of which has blocked the sender, and every other call only removes
  messages, so that no pair's number of messages grows once it is blocked.
  `MailboxesImplemented`: plain programs implement `Mailboxes`. The mailbox of a
  process is the subsequence of its messages; the proof says what appending to the
  buffer and removing an entry do to each such subsequence, and that a receive takes
  its first entry.
* `DebuggerProofs`, about the debugger. `ListAlways` and `DisabledRunsAlways`: whatever the debugger
  calls, the list is ordered, free of duplicates and within its bound, and a
  disabled breakpoint has its opcode back. `ListInv` adds that no number in the
  list exceeds `bp_num`, which is why an appended entry is the largest.
  `HandshakeAlways` and `OneAtATimeAlways`: debugger and debuggees never run
  together, with any number of debuggees and misdirected waits. `HandInv` makes
  it inductive. Its core is `OneAwake`: of any two user processes one at least
  has exited or is parked; an exit or a breakpoint may then wake the debugger,
  because the process that makes it stops and all others were idle already.
  Beside it: only a waiting process has a sleep count (else a parked process
  could be woken by a count that a fork copied), every user process but init is
  a child of init and no debugger, the swapper never waits, and there is no
  debuggee without a debugger. `TypesAlways` adds the types of the saved values
  (`SavedOK`). For sessions, in which all debuggees use slot 2 in turn
  (`SessionInv`): `DeadStayDeadAlways`, the child that `wait_and_continue` picks
  is the one that lives; and `ReportsLastStopAlways`, what it has left for the
  debugger is the last stop or the last exit. `ReportInv` says the same of every
  moment at which the debugger is not parked and adds that before there is a
  debugger nothing has been reported.
* `FilesProofs`, three invariants, each on top of the one before.
  `FInv`: types, and an object of a file has a *valid* inode and an offset within
  its bounds (`Within`: not past the size, and not too far before the start, `Low`).
  Validity is the point: it keeps a later `open` from taking the inode
  for a new file, which would set the size back to 0 under an open offset. A failed
  write keeps `Low` because a write of n bytes fails only at an offset above
  `FileSize - n`. From it follow `OffsetInFileAlways` and, because a write ends
  before its file does, `OnlyWritersChangeAlways`: a byte of file j that is written
  through a file i # j lies before it, as far as the offset is negative (`Overlap`).
  `CInv` adds the counts (`Counted`, by cardinalities of the sets of
  descriptors) and gives `RefsCountedAlways`; `TInv` adds that exited processes
  have no descriptors and names are unique, and gives `TypesAlways`.
* `MemoryProofs`. `MemInv` is the inductive invariant: the list consists of areas of
  whole pages of their type, after the dummy, each before the next and none
  mergeable with *any* later one (`ListOK`); a huge-page range has a huge page in
  the tables exactly if it lies in a huge area, a small page is present only inside
  a small-page area, and memory only behind one of the two (`TablesOK`); the stack
  from `next_free` up is present (`StackSound`). It is needed because the properties
  are not inductive: which pages `free_range` and the conversions touch is found
  from the list alone, so that tables that disagreed with it anywhere would lead a
  later call astray. The proof goes function by function. For each of
  `sorted_Insert`, `vm_area_map`, `vm_area_unmap`, `vm_area_make_hugepage` and
  `vm_area_break_hugepage` a lemma says that it keeps `ListOK`, and exactly which
  addresses are in an area of which protection and type afterwards (`InsertOK`,
  `MapOK`, `UnmapOK`, `MakeOK`, `BreakOK`); for the tables, `MapTables`,
  `UnmapTables`, `MakeTables`, `BreakTables` and `FaultTables` follow from that
  alone. `StepInv` combines them. From `MemInv` come `TypeOKAlways`,
  `ListInOrderAlways`, `NoStrayPageAlways`, `TablesAgreeAlways`, `StackWholeAlways`
  and `KernelSound` (the kernel neither loops nor walks data as a page table).
  `AddressSpaceImplemented` is the refinement: the same descriptions of the calls,
  read page by page, are the operations of `AddressSpace`, whatever the set
  `MmapPages` of pages looked at, all pages included; a fault is a stutter
  because a page of a small-page area that has memory has an entry as well, so that
  nothing is installed over it. In the conclusions "the kernel frees a wrong node"
  (`kernel = "strayFree"`) remains possible: `sorted_Insert` does that whenever it
  merges to the right only, and the model stops there.
* `CommandsProofs`. `CommandsInv` relates the parent's position (`ParentInv`:
  which children there are, what has been printed, in the file and in the buffer
  together) with each child's pipe
  (`PipeInv`: until it is read, what the child has written of its command's
  output). `OutputInOrderAlways` is the parent's half; `ExitOnlyIfModerate` the
  children's: when the parent is through, each command had printed something and
  no more than its pipe holds.
* `UmpireProofs`. `UmpireInv` counts questions and answers (`Asked`, `Taken`,
  `Owed`), says that the bytes in a pipe are the player's moves of the rounds to
  come, and that the score is the one of the rounds so far (`PointsUpTo`).
  `InStepAlways` and `ReportedIsFair` follow: what the umpire reports is the
  score of the r-th moves set against each other, for any number of rounds, and
  it reports nothing when a player is missing. This is the safety part of
  `FairScore`.
* `TournamentProofs`. `InStepAlways`: in any tournament the pipes of a player
  that exists hold a GO or a move only while the umpire waits for that player,
  so that no match is scored on a move thrown in another.
  `KnockoutImplemented` is the refinement, for any number of players, programs,
  rounds and walk-overs. Its invariant `KnockoutInv` has two halves that need each
  other. For each player (`PipeOK`): what the umpire has read from its pipe
  (`Taken`, `N` bytes for each match finished and one for each round so far) and
  what is still in it are its bytes in order (`Source`: its moves, or what a child
  that could not be started has left). For the bracket (`BracketOK`): the players
  drawn are the field in order, or all but one of it (`DrawOK`); those in play are
  the ones not drawn, those of later matches, and the winners (`In`), and there is
  one less for each match decided, so that `total` is their number when the stage
  ends; the points are those of the rounds read (`ScoreOK`). A byte read is thereby
  the one `Knockout` scores, and a stage is one of its steps when its survivors are
  printed; everything before is a stutter. `InOrderLemma`, `InOrderUnique` and
  `RemoveInOrder` show that a finite set of numbers has one list in order, and
  that skipping an entry of it gives the list of the others.

Only model-checked: all liveness (`NoStarvation`, `SleepersWake`, `WaitReturns`,
`MatchesEnd`, `TournamentEnds`, `EndsAsExpected`, `TestsPass`), which is outside
the prover's reach; and the repository's own tests of the memory and file systems,
straight-line programs with one run each.

## 5. What the checks found to hold

With the programs the assignments describe, nearly all of it: message queues
are mailboxes, the scheduler is fair, a debugging session is a strict hand-over,
files are kept apart and offsets in their file as long as no write is longer than
a file, an address space is a map, matches and tournaments are scored on the right
moves, and the outputs of commands never mix. Every test of the repository that is modelled passes under
every interleaving, but for two of Task 1.

## 6. Divergences

Places where the code does not do what its comments, tests or assignments
suggest. The first two have a run whose counterexample TLC prints; the models
follow the code in the others too, where that is defined.

Message queue (`A2/msg_queue.c`, `A2/file.c`):

1. `msg_queue_close` by a process that is not listed (a second close, or the
   exit after a close) drops the last member (`msg_queue.c:266`; run
   `queue_leave`).
2. A child that gets the pid of a process that exited with unread messages
   receives them (`msg_queue.c:228`).
3. A message to a process that is no member yields 0 and not `-EINVAL` (`:159`);
   a process that has closed the queue still passes membership to its children
   (`:176`); the close of an empty queue through a left-over descriptor makes
   `member_count` wrap (`:267`; `st = "wrecked"`); the buffer is not bounded (`:136`); `:76` holds a stray token, so
   that the file compiles only without it.

Files (`A2/file.c`, `A2/fs.c`):

4. Neither `dup2` nor `fork` counts the descriptors it makes, `close` and `exit`
   uncount them: the first close frees the object of the others (`file.c:153`,
   `223`). Hence the `~copied` in `RefsCounted`.
5. A failed write's -1 is added to the offset (`file.c:145`; `fs.c:303`, "s_pos is
   inclusive It will read data from s_pos"). At offset 0 it becomes -1. A write that
   fits from there passes the test of `flat_write`, which compares with the end only,
   and stores in the last byte of the file before (`fs.c:330-339`), which the process
   may never have opened; a read gets that byte. With a longer write that fails
   several times the offset goes further back. For the first file the bytes lie
   before the store. The run `files` and the proofs include it: `OffsetInFile` and
   `OnlyWritersChange` are what remains true.
6. `open` runs past `files[]` when all descriptors are taken, and uses a NULL
   inode when the file system is full (`file.c:199`); neither `alloc_file` nor
   `alloc_memory_buffer` looks whether it got a page.
7. `sendfile` writes `count` bytes even when fewer were read, and loses its
   buffer page on an invalid inode (`file.c:235`); a new object's page is not
   zeroed (`file.c:27`); the inode of a standard object is not set; at exit
   `do_file_close` is called with NULL for a descriptor that was never opened.

Debugger (`A3/debug.c`):

8. Setting a disabled breakpoint marks it enabled without INT3 (`:190`); a
   removed breakpoint still traps (`:225`, `:236`).
9. `wait_and_continue` after the debuggee's exit schedules the dead slot
   (`:363`), and without any child an uninitialised pointer (`:370`).
10. Registers and backtrace of a stopped process are never filled in (`:312`,
    `:343`), nor is the number of entries of a backtrace.

Memory mapping (`A4/mmap.c`, `A4/entry.c`):

11. A taken hint is mapped at the end of the dummy area, over what is there
    (`mmap.c:372`; run `memory_hint`, test `Task1/testcase4.c`).
12. `sorted_Insert` frees the wrong node when it merges with the area on the
    right only; `Task1/testcase2.c` reaches it. These two tests are not in the run `memory`.
13. The test whether a range is taken looks at its two ends only, so a fixed
    mapping or a hint can swallow an area; `mmap(NULL)` returns the end of the
    area before when the new one was merged with it.
14. `make_hugepage` of a range without a whole huge page does not end, leaves an
    area that starts inside the range and ends after it overlapping the new one,
    and does not compare the last area's end with the range.
15. `break_hugepage` unlinks all areas before the first one it breaks, converts
    the wrong range of an area that ends inside the request, and ignores a
    request for the tail of an area.
16. `free` returns at the first huge page, so huge pages stay mapped after
    munmap, and a later walk takes user data for a page table.
17. A page fault takes the protection of the access for that of the page, and
    sets the write bits of the upper levels by the first access only: a page
    first read is not writable later.
18. `overlap` cuts addresses to an `int`; the calls other than mmap use the
    missing dummy node before the first mmap; the dummy's `vm_next` is not
    initialised; fork shares the list between parent and child; the frames of
    small pages are given back twice by the conversion to a huge page; growing
    the stack by several pages installs the last one twice.

Assignment 1:

19. No pipe end is ever closed: players never see the end of the game, the
    umpire never sees that a player is missing and waits for ever
    (`Part2/2.1/umpire.c:47`), a command that prints nothing blocks the parent
    (`Part1/1.2/executeInParallel.c:94`), one that prints more than a pipe holds
    blocks itself and the parent.
20. A player of `umpire2.c` that cannot be started writes the umpire's buffered
    "p0 p1 ..." into its output pipe, where it is taken for moves.
21. A move is read with `fgets(move, 3, ..)` into one byte; a tournament of no
    players does not end; more than 100 commands overflow the table of pipes;
    only the first 1000 bytes of an output are shown, with the terminator
    written behind the buffer, and reach the file when stdout's buffer is full or
    at the end, so that a parent that is stuck in `read` leaves the file without
    them; the output file is opened without O_TRUNC, and what was longer stays
    behind (`executeInParallel.c:48`; `runTests.sh` removes it first); the
    commands share the input file as standard input (`:47`); a child killed by a signal counts as exit status 0.

## 7. What is not modelled

* Signals and alarms of the scheduler's kernel: registration and delivery are in
  an object file, and no test program uses them. SIGSEGV ends the process in
  `Memory`.
* Pipes of gemOS, boot, allocator, context creation and interrupts: object
  files.
* The user libraries: stubs and formatting.
* The debugger's own test programs: what they compare, registers and backtrace,
  is never filled in by the code (divergence 10).
* A page that goes from a queue to a file or back (`A2/file.c:27`): `MsgQueue`
  and `Files` are separate models of two uses of one kernel.
* What happens after undefined behaviour: the models stop there and say so.

What a next step could take up: the preconditions under which `make_hugepage`
and `break_hugepage` keep the list, as theorems about `Mmap` and the others
instead of guards of the free program; one model of pages shared by queues and
files; what a missing player leaves in its pipe when there are more than ten
players (`Leftover` counts one digit for each).
