-------------------------------- MODULE Files --------------------------------
(***************************************************************************)
(* Files of gemOS, Assignment 2, part 1: the descriptors of the processes, *)
(* the file objects they point to (file.c, entry.c) and the flat file      *)
(* system below (fs.c).                                                    *)
(*                                                                         *)
(* A file object takes a page of its own, which goes back to the page      *)
(* allocator when its reference count becomes 0.  The inodes lie one after *)
(* the other on the disk, FileSize bytes each.  Errors are negative        *)
(* numbers, as in the code.  When the code goes on with a freed page, no   *)
(* page, a NULL inode, an index past an array or a byte before the first   *)
(* file, "kernel" says so and the model stops.                             *)
(***************************************************************************)
EXTENDS Integers, Sequences, FiniteSets

CONSTANTS
    Pids, Init0,    \* process identifiers, and the process that is there at first
    MaxOpenFiles,   \* MAX_OPEN_FILES: descriptors 0 .. MaxOpenFiles - 1
    NumFiles,       \* NUM_FILES
    FileSize,       \* FILE_SIZE
    Pages           \* pages of the region for kernel data, numbered

ASSUME FilesAssumption ==
    /\ Init0 \in Pids /\ MaxOpenFiles \in Nat /\ MaxOpenFiles > 3
    /\ NumFiles \in Nat \ {0} /\ FileSize \in Nat \ {0}
    /\ Pages \subseteq Nat \ {0} /\ {1, 2, 3} \subseteq Pages

VARIABLES
    alive,      \* processes that have not exited
    files,      \* pid |-> the table files[]: a page or NULL
    obj,        \* page |-> the file object in it
    inode,      \* the inodes: valid, name, file_size
    disk,       \* the bytes of all files
    kernel,     \* "ok", or why the code's behaviour is not defined from here on
    copied      \* dup2 or fork has made a descriptor, which neither counts

vars == <<alive, files, obj, inode, disk, kernel, copied>>

NULL   == 0
EINVAL == -1
EACCES == -4

\* The names open() looks for before it looks for a file, and their descriptors.
Standard == [stdin |-> 0, stdout |-> 1, stderr |-> 2]

Fds == 0 .. MaxOpenFiles - 1
Least(S) == CHOOSE x \in S : \A y \in S : x <= y
Larger(m, n) == IF m >= n THEN m ELSE n

FreeObject == [kind |-> "free", rc |-> 0, mode |-> {}, offp |-> 0, ino |-> NULL]

\* What alloc_file and its callers put in the page.
StandardObject(fd) == [kind |-> "std", rc |-> 1, mode |-> IF fd = 0 THEN {"R"} ELSE {"W"},
                       offp |-> 0, ino |-> NULL]
RegularObject(i, mode) == [kind |-> "reg", rc |-> 1, mode |-> mode, offp |-> 0, ino |-> i]

\* One process, with its three standard descriptors.
Init ==
    /\ alive  = {Init0}
    /\ files  = [p \in Pids |-> [fd \in Fds |-> IF p = Init0 /\ fd < 3 THEN fd + 1 ELSE NULL]]
    /\ obj    = [pg \in Pages |-> IF pg \in 1 .. 3 THEN StandardObject(pg - 1) ELSE FreeObject]
    /\ inode  = [i \in 1 .. NumFiles |-> [valid |-> FALSE, name |-> "", size |-> 0]]
    /\ disk   = [b \in 0 .. NumFiles * FileSize - 1 |-> "0"]
    /\ kernel = "ok" /\ copied = FALSE

-------------------------------------------------------------------------------
(* Descriptors and file objects *)

IsOpen(p, fd) == files[p][fd] # NULL
Object(p, fd) == obj[files[p][fd]]
Lost(p, fd)   == IsOpen(p, fd) /\ Object(p, fd).kind = "free"

\* The pages of the region are given out lowest first: a page that is freed is
\* taken again as soon as possible.
FreePages == {pg \in Pages : obj[pg].kind = "free"}
NewPage   == Least(FreePages)

FreeFds(p) == {fd \in 3 .. MaxOpenFiles - 1 : ~IsOpen(p, fd)}

\* Not the code, but what a slip in it could be: a close frees the object whatever
\* its count.
UnrefEarly(o, pg, n) == [o EXCEPT ![pg] = FreeObject]

\* n closes of page pg.  A freed page still holds its count of 0, and a close that
\* finds it does nothing.
Unref(o, pg, n) == [o EXCEPT ![pg] = IF o[pg].rc <= n THEN FreeObject ELSE [o[pg] EXCEPT !.rc = @ - n]]

Running(p) == p \in alive /\ kernel = "ok"

Stop(why) == kernel' = why /\ UNCHANGED <<alive, files, obj, inode, disk, copied>>

\* open("stdin") and the like: a second descriptor of the object, or a new object.
StdResult(p, fd) == IF IsOpen(p, fd) THEN Least(FreeFds(p)) ELSE fd

open_standard_IO(p, fd) ==
    \/ Lost(p, fd) /\ Stop("freedObject")
    \/ IsOpen(p, fd) /\ ~Lost(p, fd) /\ FreeFds(p) = {} /\ Stop("noDescriptor")
    \/ /\ IsOpen(p, fd) /\ ~Lost(p, fd) /\ FreeFds(p) # {}
       /\ obj'   = [obj EXCEPT ![files[p][fd]].rc = @ + 1]
       /\ files' = [files EXCEPT ![p][StdResult(p, fd)] = files[p][fd]]
       /\ UNCHANGED <<alive, inode, disk, kernel, copied>>
    \/ /\ ~IsOpen(p, fd)
       /\ IF FreePages = {} THEN Stop("noPage")
          ELSE /\ obj'   = [obj EXCEPT ![NewPage] = StandardObject(fd)]
               /\ files' = [files EXCEPT ![p][fd] = NewPage]
               /\ UNCHANGED <<alive, inode, disk, kernel, copied>>

-------------------------------------------------------------------------------
(* The flat file system *)

\* A slip: the files overlap by a byte.
StartShort(i) == (i - 1) * (FileSize - 1)

Start(i) == (i - 1) * FileSize

\* An offset may be negative (do_write_regular): n bytes from there lie, in part, in
\* the file before, or, with the first file, before all of them.
BeforeStore(i, off, n) == n > 0 /\ Start(i) + off < 0

lookup_inode(name) == {i \in DOMAIN inode : inode[i].valid /\ inode[i].name = name}

\* The first inode that is not valid, NULL when the file system is full.
get_free_inode ==
    LET free == {i \in DOMAIN inode : ~inode[i].valid}
    IN IF free = {} THEN NULL ELSE Least(free)

\* What flat_read copies: at most n bytes from offset off, none past the file's end.
flat_read(i, n, off) ==
    LET left == inode[i].size - off
    IN [k \in 1 .. (IF left <= 0 THEN 0 ELSE IF n > left THEN left ELSE n) |-> disk[Start(i) + off + k - 1]]

\* A slip: the offset is forgotten.
FitsShort(data, off) == Len(data) <= FileSize

Fits(data, off) == Len(data) <= FileSize - off

flat_write(i, data, off) ==
    /\ disk'  = [b \in DOMAIN disk |-> LET k == b - Start(i) - off + 1
                                       IN IF k \in DOMAIN data THEN data[k] ELSE disk[b]]
    /\ inode' = [inode EXCEPT ![i].size = Larger(@, off + Len(data))]

-------------------------------------------------------------------------------
(* The system calls, and what they return *)

do_open_result(p, name, creat) ==
    IF name \in DOMAIN Standard THEN StdResult(p, Standard[name])
    ELSE IF lookup_inode(name) = {} /\ ~creat THEN EINVAL ELSE Least(FreeFds(p))

\* The search for a descriptor runs past the end of files[] when all are open.
do_regular_file_open(p, name, mode, creat) ==
    LET found == lookup_inode(name)
        i     == IF found # {} THEN Least(found) ELSE get_free_inode
    IN \/ found = {} /\ ~creat /\ UNCHANGED vars
       \/ (found # {} \/ creat) /\ FreeFds(p) = {} /\ Stop("noDescriptor")
       \/ (found # {} \/ creat) /\ FreeFds(p) # {} /\ FreePages = {} /\ Stop("noPage")
       \/ /\ (found # {} \/ creat) /\ FreeFds(p) # {} /\ FreePages # {}
          /\ inode' = IF found # {} \/ i = NULL THEN inode
                      ELSE [inode EXCEPT ![i] = [valid |-> TRUE, name |-> name, size |-> 0]]
          /\ obj'   = [obj EXCEPT ![NewPage] = RegularObject(i, mode)]
          /\ files' = [files EXCEPT ![p][Least(FreeFds(p))] = NewPage]
          /\ UNCHANGED <<alive, disk, kernel, copied>>

do_file_open(p, name, mode, creat) ==
    /\ Running(p)
    /\ IF name \in DOMAIN Standard THEN open_standard_IO(p, Standard[name])
       ELSE do_regular_file_open(p, name, mode, creat)

\* Why a call that needs the modes in need cannot be followed any further.
Trouble(p, fd, need) ==
    CASE ~IsOpen(p, fd) -> "ok"
      [] Lost(p, fd)    -> "freedObject"
      [] Object(p, fd).kind = "reg" /\ need \subseteq Object(p, fd).mode /\ Object(p, fd).ino = NULL -> "noInode"
      [] OTHER -> "ok"

Refused(p, fd, need) ==
    IF ~IsOpen(p, fd) THEN EINVAL ELSE IF need \subseteq Object(p, fd).mode THEN 0 ELSE EACCES

\* The call reaches the file system: the standard objects have no file.
Transfers(p, fd, need) == Refused(p, fd, need) = 0 /\ Object(p, fd).kind = "reg"

\* What a read gets: the keyboard gives one character.
BytesRead(p, fd, n) ==
    LET o == Object(p, fd) IN IF o.kind = "std" THEN <<"0">> ELSE flat_read(o.ino, n, o.offp)

do_read_result(p, fd, n) ==
    IF Refused(p, fd, {"R"}) # 0 THEN Refused(p, fd, {"R"}) ELSE Len(BytesRead(p, fd, n))

\* A slip: the offset stays where it is.
MovedNot(o, pg, n) == o

\* o with the offset of page pg moved by n.
Moved(o, pg, n) == [o EXCEPT ![pg].offp = @ + n]

ReadsBefore(p, fd, n) ==
    Transfers(p, fd, {"R"}) /\ BeforeStore(Object(p, fd).ino, Object(p, fd).offp, n)

do_file_read(p, fd, n) ==
    LET why == IF Trouble(p, fd, {"R"}) = "ok" /\ ReadsBefore(p, fd, n) THEN "beforeStore"
               ELSE Trouble(p, fd, {"R"})
    IN /\ Running(p)
       /\ \/ why # "ok" /\ Stop(why)
          \/ /\ why = "ok" /\ Transfers(p, fd, {"R"})
             /\ obj' = Moved(obj, files[p][fd], do_read_result(p, fd, n))
             /\ UNCHANGED <<alive, files, inode, disk, kernel, copied>>
          \/ /\ why = "ok" /\ ~Transfers(p, fd, {"R"})
             /\ UNCHANGED vars

\* The result of a failed write is added to the offset like that of any other.
do_write_regular(o, pg, data) ==
    LET i == o[pg].ino  off == o[pg].offp
    IN IF Fits(data, off)
       THEN obj' = Moved(o, pg, Len(data)) /\ flat_write(i, data, off)
       ELSE obj' = Moved(o, pg, -1) /\ UNCHANGED <<inode, disk>>

WritesBefore(o, pg, data) ==
    Fits(data, o[pg].offp) /\ BeforeStore(o[pg].ino, o[pg].offp, Len(data))

do_write_result(p, fd, data) ==
    LET o == Object(p, fd)
    IN IF Refused(p, fd, {"W"}) # 0 THEN Refused(p, fd, {"W"})
       ELSE IF o.kind = "std" \/ Fits(data, o.offp) THEN Len(data) ELSE -1

do_file_write(p, fd, data) ==
    LET why == IF /\ Trouble(p, fd, {"W"}) = "ok" /\ Transfers(p, fd, {"W"})
                  /\ WritesBefore(obj, files[p][fd], data) THEN "beforeStore"
               ELSE Trouble(p, fd, {"W"})
    IN /\ Running(p)
       /\ \/ why # "ok" /\ Stop(why)
          \/ /\ why = "ok" /\ Transfers(p, fd, {"W"})
             /\ do_write_regular(obj, files[p][fd], data)
             /\ UNCHANGED <<alive, files, kernel, copied>>
          \/ /\ why = "ok" /\ ~Transfers(p, fd, {"W"})
             /\ UNCHANGED vars

\* Where a seek goes; an offset before the file is a huge unsigned one, past its end.
SeekTarget(p, fd, offset, whence) ==
    offset + CASE whence = "SET" -> 0
               [] whence = "CUR" -> Object(p, fd).offp
               [] whence = "END" -> inode[Object(p, fd).ino].size

\* A slip: an offset past the end of the file is accepted.
do_lseek_past(p, fd, offset, whence) ==
    IF ~IsOpen(p, fd) THEN EINVAL
    ELSE IF Object(p, fd).kind = "std" THEN EINVAL
    ELSE LET x == SeekTarget(p, fd, offset, whence)
         IN IF x < 0 THEN EINVAL ELSE x

do_lseek_result(p, fd, offset, whence) ==
    IF ~IsOpen(p, fd) THEN EINVAL
    ELSE IF Object(p, fd).kind = "std" THEN EINVAL
    ELSE LET x == SeekTarget(p, fd, offset, whence)
         IN IF x < 0 \/ x > inode[Object(p, fd).ino].size THEN EINVAL ELSE x

do_lseek(p, fd, offset, whence) ==
    LET why == Trouble(p, fd, {})
    IN /\ Running(p)
       /\ \/ why # "ok" /\ Stop(why)
          \/ /\ why = "ok" /\ do_lseek_result(p, fd, offset, whence) >= 0
             /\ obj' = [obj EXCEPT ![files[p][fd]].offp = do_lseek_result(p, fd, offset, whence)]
             /\ UNCHANGED <<alive, files, inode, disk, kernel, copied>>
          \/ /\ why = "ok" /\ do_lseek_result(p, fd, offset, whence) < 0
             /\ UNCHANGED vars

\* Closing a descriptor whose object is gone does nothing.
do_close_result(p, fd) == IF ~IsOpen(p, fd) \/ Lost(p, fd) THEN EINVAL ELSE 0

do_close(p, fd) ==
    /\ Running(p)
    /\ IF IsOpen(p, fd)
       THEN /\ obj'   = Unref(obj, files[p][fd], 1)
            /\ files' = [files EXCEPT ![p][fd] = NULL]
            /\ UNCHANGED <<alive, inode, disk, kernel, copied>>
       ELSE UNCHANGED vars

fd_dup2_result(p, old, new) == IF IsOpen(p, old) THEN new ELSE EINVAL

\* The object is not told of its second descriptor.
fd_dup2(p, old, new) ==
    /\ Running(p)
    /\ IF IsOpen(p, old) /\ old # new
       THEN /\ obj'    = IF IsOpen(p, new) THEN Unref(obj, files[p][new], 1) ELSE obj
            /\ files'  = [files EXCEPT ![p][new] = files[p][old]]
            /\ copied' = TRUE
            /\ UNCHANGED <<alive, inode, disk, kernel>>
       ELSE UNCHANGED vars

\* A buffer of n bytes that begins with the bytes read.
Buffer(bytes, n) == [k \in 1 .. n |-> IF k \in DOMAIN bytes THEN bytes[k] ELSE "junk"]

sendfile_refused(p, out, in) ==
    IF ~IsOpen(p, out) \/ ~IsOpen(p, in) THEN EINVAL
    ELSE IF "R" \notin Object(p, in).mode \/ "W" \notin Object(p, out).mode THEN EACCES ELSE 0

\* The bytes sent, and the objects after they were read: without an offset of its
\* own (NULL here is -1) the call reads at the descriptor's and moves it.
SendsFrom(p, in, offset) == IF offset < 0 THEN Object(p, in).offp ELSE offset
Sent(p, in, offset, n) == Buffer(flat_read(Object(p, in).ino, n, SendsFrom(p, in, offset)), n)
AfterRead(p, in, offset, n) ==
    IF offset < 0 THEN Moved(obj, files[p][in], Len(flat_read(Object(p, in).ino, n, Object(p, in).offp))) ELSE obj

do_sendfile_result(p, out, in, offset, n) ==
    IF sendfile_refused(p, out, in) # 0 THEN sendfile_refused(p, out, in)
    ELSE IF Fits(Sent(p, in, offset, n), AfterRead(p, in, offset, n)[files[p][out]].offp) THEN n ELSE -1

SendsBefore(p, out, in, offset, n) ==
    \/ BeforeStore(Object(p, in).ino, SendsFrom(p, in, offset), n)
    \/ WritesBefore(AfterRead(p, in, offset, n), files[p][out], Sent(p, in, offset, n))

\* Both files are regular: the inode of a standard one is not set.  The bytes go
\* through a page taken for the call.
do_sendfile(p, out, in, offset, n) ==
    LET why == IF Trouble(p, in, {"R"}) # "ok" THEN Trouble(p, in, {"R"})
               ELSE IF Trouble(p, out, {"W"}) # "ok" THEN Trouble(p, out, {"W"})
               ELSE IF sendfile_refused(p, out, in) # 0 THEN "ok"
               ELSE IF FreePages = {} THEN "noPage"
               ELSE IF SendsBefore(p, out, in, offset, n) THEN "beforeStore" ELSE "ok"
    IN /\ Running(p)
       /\ \/ why # "ok" /\ Stop(why)
          \/ /\ why = "ok" /\ sendfile_refused(p, out, in) # 0
             /\ UNCHANGED vars
          \/ /\ why = "ok" /\ sendfile_refused(p, out, in) = 0
             /\ do_write_regular(AfterRead(p, in, offset, n), files[p][out], Sent(p, in, offset, n))
             /\ UNCHANGED <<alive, files, kernel, copied>>

\* The child's context is a copy of the parent's, files[] included.
do_fork(p, c) ==
    /\ Running(p) /\ c \notin alive
    /\ alive'  = alive \cup {c}
    /\ files'  = [files EXCEPT ![c] = files[p]]
    /\ copied' = TRUE
    /\ UNCHANGED <<obj, inode, disk, kernel>>

do_file_exit(p) ==
    /\ Running(p)
    /\ alive' = alive \ {p}
    /\ files' = [files EXCEPT ![p] = [fd \in Fds |-> NULL]]
    /\ obj'   = [pg \in Pages |-> LET n == Cardinality({fd \in Fds : files[p][fd] = pg})
                                  IN IF n = 0 THEN obj[pg] ELSE Unref(obj, pg, n)[pg]]
    /\ UNCHANGED <<inode, disk, kernel, copied>>
==============================================================================
