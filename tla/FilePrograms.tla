----------------------------- MODULE FilePrograms ------------------------------
(***************************************************************************)
(* The programs that use the files of module Files: the tests of user/     *)
(* test_cases_part1, with the output files beside them, and one free       *)
(* program whose processes make any calls of a small set.  The text of the *)
(* tests, 17 bytes, is two bytes here.                                     *)
(***************************************************************************)
EXTENDS Files

CONSTANTS
    Programs,       \* the programs run
    FreeNames,      \* names the free program opens
    Texts,          \* what it writes, longer than a file included
    Offsets,        \* where it seeks to, negative included
    MaxCalls

ASSUME ProgramsAssumption ==
    /\ Texts \subseteq Seq(STRING) /\ Offsets \subseteq Int
    /\ MaxCalls \in Nat

VARIABLES
    prog,       \* a test, or "free"
    pc,         \* calls made
    reg,        \* a test's descriptors
    failed      \* a call returned, or a buffer held, something else than the output file says

pvars == <<prog, pc, reg, failed>>

Text == <<"a", "b">>
Count == Len(Text)
Last  == MaxOpenFiles - 1
Any   == -99                \* the test does not look at the result

Open(to, name, mode, creat, want) ==
    [op |-> "open", fd |-> to, name |-> name, mode |-> mode, creat |-> creat, want |-> want]
Write(fd, want) == [op |-> "write", fd |-> fd, want |-> want]
Read(fd, bytes, want) == [op |-> "read", fd |-> fd, bytes |-> bytes, want |-> want]
Close(fd, want) == [op |-> "close", fd |-> fd, want |-> want]
Seek(fd, offset, whence, want) ==
    [op |-> "lseek", fd |-> fd, offset |-> offset, whence |-> whence, want |-> want]
Dup2(fd, new, want) == [op |-> "dup2", fd |-> fd, new |-> new, want |-> want]
Send(out, in, want) == [op |-> "sendfile", fd |-> out, in |-> in, want |-> want]
Exit == [op |-> "exit", fd |-> "fd", want |-> Any]

RW == {"R", "W"}

common_ops ==
    << Open("fd", "f", {"W"}, TRUE, 3), Write("fd", Count), Read("fd", << >>, EACCES),
       Close("fd", 0), Close("fd", EINVAL),
       Open("fd", "f", {"R"}, FALSE, 3), Read("fd", Text, Count), Write("fd", EACCES),
       Close("fd", 0), Close("fd", Any), Close("fd", EINVAL), Close("fd", Any), Exit >>

open_read_write ==
    << Open("fd", "f", RW, TRUE, Any), Write("fd", Count), Open("fd2", "f", {"R"}, FALSE, Any),
       Read("fd2", Text, Count), Close("fd2", Any), Close("fd", Any), Exit >>

dup2_lseek ==
    << Open("fd", "f", RW, TRUE, Any), Write("fd", Any), Dup2("fd", Last, Last),
       Seek("fd", 0, "CUR", Count), Exit >>

sendfile ==
    << Open("fd", "f", RW, TRUE, Any), Open("fd2", "g", RW, TRUE, Any), Write("fd", Any),
       Seek("fd", 0, "SET", Any), Send("fd2", "fd", Any), Seek("fd", 0, "SET", Any),
       Open("fd3", "g", {"R"}, FALSE, Any), Read("fd3", Text, Any), Read("fd", Text, Any),
       Close("fd3", Any), Close("fd", Any), Close("fd2", Any), Exit >>

Code == [common_ops |-> common_ops, open_read_write |-> open_read_write,
         dup2_lseek |-> dup2_lseek, sendfile |-> sendfile]

Tests == DOMAIN Code
-------------------------------------------------------------------------------
(* The steps of a test *)

PInit == /\ Init /\ prog \in Programs
         /\ pc = 0 /\ reg = [r \in {"fd", "fd2", "fd3"} |-> NULL] /\ failed = FALSE

IsTest     == prog \in Tests
Op         == Code[prog][pc + 1]
Here(kind) == IsTest /\ pc < Len(Code[prog]) /\ Op.op = kind
At         == reg[Op.fd]

Returns(result) == /\ failed' = (failed \/ (Op.want # Any /\ Op.want # result))
                   /\ UNCHANGED reg

Advance == pc' = pc + 1 /\ UNCHANGED prog

TestStep ==
    /\ \/ /\ Here("open") /\ do_file_open(Init0, Op.name, Op.mode, Op.creat)
          /\ reg' = [reg EXCEPT ![Op.fd] = do_open_result(Init0, Op.name, Op.creat)]
          /\ failed' = (failed \/ (Op.want # Any /\ Op.want # do_open_result(Init0, Op.name, Op.creat)))
       \/ Here("write") /\ do_file_write(Init0, At, Text) /\ Returns(do_write_result(Init0, At, Text))
       \/ /\ Here("read") /\ do_file_read(Init0, At, Count)
          /\ failed' = \/ failed
                       \/ Op.want # Any /\ Op.want # do_read_result(Init0, At, Count)
                       \/ Op.bytes # << >> /\ BytesRead(Init0, At, Count) # Op.bytes
          /\ UNCHANGED reg
       \/ Here("close") /\ do_close(Init0, At) /\ Returns(do_close_result(Init0, At))
       \/ /\ Here("lseek") /\ do_lseek(Init0, At, Op.offset, Op.whence)
          /\ Returns(do_lseek_result(Init0, At, Op.offset, Op.whence))
       \/ Here("dup2") /\ fd_dup2(Init0, At, Op.new) /\ Returns(fd_dup2_result(Init0, At, Op.new))
       \/ /\ Here("sendfile") /\ do_sendfile(Init0, At, reg[Op.in], -1, Count)
          /\ Returns(do_sendfile_result(Init0, At, reg[Op.in], -1, Count))
       \/ Here("exit") /\ do_file_exit(Init0) /\ Returns(0)
    /\ Advance

-------------------------------------------------------------------------------
(* The free program *)

FreeCall == prog = "free" /\ pc < MaxCalls /\ Advance /\ UNCHANGED <<reg, failed>>

IsRegular(p, fd) == IsOpen(p, fd) /\ Object(p, fd).kind # "std"

FreeOpen ==
    FreeCall /\ \E p \in alive, name \in FreeNames, mode \in {{"R"}, RW} :
        do_file_open(p, name, mode, mode = RW)

FreeAccess ==
    FreeCall /\ \E p \in alive, fd \in Fds :
        \/ /\ IsOpen(p, fd) => IsRegular(p, fd)
           /\ \/ do_file_read(p, fd, Count)
              \/ \E data \in Texts : do_file_write(p, fd, data)
              \/ \E x \in Offsets, whence \in {"SET", "CUR", "END"} : do_lseek(p, fd, x, whence)
        \/ \E in \in Fds : /\ IsRegular(p, in) /\ IsRegular(p, fd)
                           /\ \E offset \in {-1, 0} : do_sendfile(p, fd, in, offset, Count)

FreeDescriptor ==
    FreeCall /\ \E p \in alive :
        \/ \E fd \in Fds : do_close(p, fd)
        \/ \E old \in Fds, new \in Fds : old # new /\ fd_dup2(p, old, new)
        \/ \E c \in Pids : do_fork(p, c)
        \/ do_file_exit(p)

Next == TestStep \/ FreeOpen \/ FreeAccess \/ FreeDescriptor

\* A test runs on; the kernel does not stop it.
Spec == PInit /\ [][Next]_<<vars, pvars>> /\ WF_<<vars, pvars>>(TestStep)

-------------------------------------------------------------------------------
\* For TLC: seeks, one before the file; a byte, and more than a file of three bytes holds.
MCOffsets == {-1, 0, 1}
MCTexts == {<<"c">>, <<"c", "d", "c", "d">>}

Descriptors(pg) == {d \in alive \X Fds : files[d[1]][d[2]] = pg}

\* The state has the types of the code: no file is longer than its place on the disk
\* (flat_write), no two valid inodes have one name (flat_create_inode), and a process
\* that has exited holds no descriptor.
TypeOK ==
    /\ alive \subseteq Pids
    /\ \A p \in Pids, fd \in Fds : files[p][fd] \in Pages \cup {NULL} /\ (p \notin alive => ~IsOpen(p, fd))
    /\ \A pg \in Pages : /\ obj[pg].kind \in {"free", "std", "reg"} /\ obj[pg].ino \in {NULL} \cup DOMAIN inode
                         /\ obj[pg].rc \in Nat /\ (obj[pg].rc = 0 <=> obj[pg].kind = "free")
    /\ \A i \in DOMAIN inode : inode[i].size \in 0 .. FileSize
    /\ \A i, j \in DOMAIN inode : inode[i].valid /\ inode[j].valid /\ inode[i].name = inode[j].name => i = j
    /\ kernel \in {"ok", "freedObject", "noInode", "noDescriptor", "noPage", "beforeStore"}

\* The reference count of a file object never exceeds the number of descriptors that
\* lead to it, so that the last close frees it; and while neither dup2 nor fork, which
\* do not count, has copied a descriptor, it is that number, so that nothing is freed
\* too early and the two ends of an object's life agree (alloc_file, do_file_close,
\* std_close, open_standard_IO, do_file_exit).
RefsCounted ==
    \A pg \in Pages : /\ obj[pg].rc <= Cardinality(Descriptors(pg))
                      /\ ~copied => obj[pg].rc = Cardinality(Descriptors(pg))

\* The offset of an open file is never past the end of the file, which may have grown,
\* and been written and sent, through other objects meanwhile, and never further before
\* its start than the longest write was too long for a file (fs.c:303, "s_pos is
\* inclusive It will read data from s_pos": a write that fails at the start moves the
\* offset before it, and one that fits from there stops that; do_write_regular,
\* do_lseek_regular).  So it is in the file when no write is longer than a file.
Lengths == {Len(data) : data \in Texts} \cup {Count}
OffsetInFile ==
    \A pg \in Pages : obj[pg].kind = "reg" /\ obj[pg].ino # NULL =>
        /\ obj[pg].offp <= inode[obj[pg].ino].size
        /\ obj[pg].offp >= 0 \/ \E n \in Lengths : obj[pg].offp >= FileSize - n

\* A file's bytes change only while an object is open for writing on it, or on a later
\* file with an offset so far before its start that it lies in this one or before it:
\* nobody else's write reaches them, although all files share one range of memory and
\* pages of objects are used again (flat_write).
Bytes(i) == [k \in 0 .. FileSize - 1 |-> disk[Start(i) + k]]
Reaches(o, i) == o.ino = i \/ (o.ino > i /\ o.offp + (o.ino - i - 1) * FileSize < 0)
OnlyWritersChange ==
    [][\A i \in DOMAIN inode : Bytes(i)' # Bytes(i) =>
          \E pg \in Pages : obj[pg].kind = "reg" /\ "W" \in obj[pg].mode /\ Reaches(obj[pg], i)]_<<vars, pvars>>

\* Every test of user/test_cases_part1 runs to its end and prints what its output file
\* shows.
TestsPass == IsTest => <>(IsTest /\ pc = Len(Code[prog]) /\ ~failed)
==============================================================================
