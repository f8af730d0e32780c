------------------------------ MODULE FilesProofs ------------------------------
(***************************************************************************)
(* The free program of module FilePrograms moves no offset past the end of *)
(* its file, nor further before its start than its longest write is too    *)
(* long for a file, and a file's bytes change only under an object that is *)
(* open for writing and reaches them, for any number of processes,         *)
(* descriptors, pages and calls and any size and number of files.          *)
(***************************************************************************)
EXTENDS FilePrograms, FiniteSetTheorems, DataFacts

Modes   == {"R", "W"}
Objects == [kind : {"free", "std", "reg"}, rc : Int, mode : SUBSET Modes, offp : Int, ino : 0 .. NumFiles]
Inodes  == [valid : BOOLEAN, name : FreeNames \cup {""}, size : 0 .. FileSize]
Room    == 0 .. NumFiles * FileSize - 1

\* How far before its start, and past its end, an offset of a file of s bytes may lie.
Low(x) == x >= 0 \/ \E n \in Lengths : x >= FileSize - n
Within(x, s) == x \in Int /\ x <= s /\ Low(x)

\* The part of the invariant about one object o and the inodes d.
Inside(o, d) ==
    o.kind = "reg" /\ o.ino # NULL => d[o.ino].valid /\ Within(o.offp, d[o.ino].size)

\* The inductive invariant.  That an open file's inode is valid is what keeps another
\* file from taking the inode, and its size from falling back to 0 under an offset.
FInv ==
    /\ prog = "free"
    /\ alive \subseteq Pids
    /\ files \in [Pids -> [Fds -> Pages \cup {NULL}]]
    /\ obj \in [Pages -> Objects]
    /\ inode \in [1 .. NumFiles -> Inodes]
    /\ DOMAIN disk = Room
    /\ \A pg \in Pages : Inside(obj[pg], inode)

-------------------------------------------------------------------------------
(* Choices and arithmetic *)

\* Least chooses a member of a set of natural numbers.
LEMMA LeastIn ==
  ASSUME NEW S, S \subseteq Nat, S # {}
  PROVE  Least(S) \in S
<1>1. PICK d \in S : \A e \in S : d <= e
  BY NatLeast
<1> QED
  BY <1>1 DEF Least

\* A new page is one of the pages, and no object is in it.
LEMMA NewPageFree ==
  ASSUME FInv, FreePages # {}
  PROVE  NewPage \in Pages /\ obj[NewPage].kind = "free"
<1>1. FreePages \subseteq Nat
  BY FilesAssumption DEF FreePages
<1>2. NewPage \in FreePages
  BY <1>1, LeastIn DEF NewPage
<1> QED
  BY <1>2 DEF FreePages

\* A new descriptor is one of the descriptors, and not open.
LEMMA NewFd ==
  ASSUME NEW p, FreeFds(p) # {}
  PROVE  Least(FreeFds(p)) \in Fds /\ ~IsOpen(p, Least(FreeFds(p)))
<1>1. FreeFds(p) \subseteq Nat /\ FreeFds(p) \subseteq Fds
  BY FilesAssumption DEF FreeFds, Fds
<1>2. Least(FreeFds(p)) \in FreeFds(p)
  BY <1>1, LeastIn
<1> QED
  BY <1>1, <1>2 DEF FreeFds

\* get_free_inode gives an inode that is not valid, or NULL.
LEMMA NewInode ==
  ASSUME FInv
  PROVE  get_free_inode = NULL \/ (get_free_inode \in 1 .. NumFiles /\ ~inode[get_free_inode].valid)
<1> DEFINE free == {i \in DOMAIN inode : ~inode[i].valid}
<1>1. DOMAIN inode = 1 .. NumFiles
  BY DEF FInv
<1>2. CASE free = {}
  BY <1>2 DEF get_free_inode
<1>3. CASE free # {}
  <2>1. free \subseteq Nat
    BY <1>1, FilesAssumption
  <2>2. Least(free) \in free
    BY <2>1, <1>3, LeastIn
  <2>3. get_free_inode = Least(free)
    BY <1>3 DEF get_free_inode
  <2> QED
    BY <2>2, <2>3, <1>1
<1> QED
  BY <1>2, <1>3

\* A file that lookup_inode finds is one of the inodes, and it is valid.
LEMMA FoundInode ==
  ASSUME FInv, NEW name, lookup_inode(name) # {}
  PROVE  Least(lookup_inode(name)) \in 1 .. NumFiles /\ inode[Least(lookup_inode(name))].valid
<1>1. lookup_inode(name) \subseteq Nat
  BY FilesAssumption DEF FInv, lookup_inode
<1>2. Least(lookup_inode(name)) \in lookup_inode(name)
  BY <1>1, LeastIn
<1> QED
  BY <1>2 DEF FInv, lookup_inode

\* The lengths of the writes, and what follows for the offsets.
LEMMA LengthInt ==
  ASSUME NEW n \in Lengths
  PROVE  n \in Nat
BY ProgramsAssumption DEF Lengths, Count, Text

LEMMA LowUp ==
  ASSUME NEW x \in Int, NEW y \in Int, x <= y, Low(x)
  PROVE  Low(y)
<1>1. CASE x >= 0
  BY <1>1 DEF Low
<1>2. ASSUME NEW n \in Lengths, x >= FileSize - n PROVE Low(y)
  <2>1. n \in Nat /\ FileSize \in Nat
    BY LengthInt, FilesAssumption
  <2>2. y >= FileSize - n
    BY <1>2, <2>1
  <2> QED
    BY <2>2 DEF Low
<1> QED
  BY <1>1, <1>2 DEF Low

LEMMA FromStart ==
  ASSUME NEW s \in Nat, NEW x \in 0 .. s
  PROVE  Within(x, s)
BY DEF Within, Low

\* A byte of file j at which a write to file i arrives, from offset off on and not past
\* the end of its file: the offset lies so far before file i.
LEMMA Overlap ==
  ASSUME NEW i \in 1 .. NumFiles, NEW j \in 1 .. NumFiles, i # j,
         NEW k \in 0 .. FileSize - 1, NEW m \in Int, NEW off \in Int, off <= m, m <= FileSize - 1,
         Start(i) + m = Start(j) + k
  PROVE  i > j /\ off + (i - j - 1) * FileSize < 0
<1> USE FilesAssumption
<1>1. i - j >= 1 \/ j - i >= 1
  OBVIOUS
<1>2. ASSUME NEW d \in Int, d >= 1 PROVE d * FileSize >= FileSize
  BY <1>2
<1>3. (i - 1) * FileSize - (j - 1) * FileSize = (i - j) * FileSize
  OBVIOUS
<1>4. (j - 1) * FileSize - (i - 1) * FileSize = (j - i) * FileSize
  OBVIOUS
<1>5. (i - j - 1) * FileSize = (i - j) * FileSize - FileSize
  OBVIOUS
<1> DEFINE a == (i - 1) * FileSize  b == (j - 1) * FileSize  c == (i - j) * FileSize
           d == (j - i) * FileSize  e == (i - j - 1) * FileSize
<1>6. /\ a \in Int /\ b \in Int /\ c \in Int /\ d \in Int /\ e \in Int
      /\ a - b = c /\ b - a = d /\ e = c - FileSize /\ a + m = b + k
  BY <1>3, <1>4, <1>5 DEF Start
<1>7. ~(j - i >= 1)
  <2> SUFFICES ASSUME j - i >= 1 PROVE FALSE
    OBVIOUS
  <2>1. d >= FileSize
    BY <1>2
  <2> HIDE DEF a, b, c, d, e
  <2> QED
    BY <1>6, <2>1
<1>8. off + e < 0
  <2> HIDE DEF a, b, c, d, e
  <2> QED
    BY <1>6
<1> QED
  BY <1>1, <1>7, <1>8 DEF e

-------------------------------------------------------------------------------
(* Steps that leave the file system alone *)

\* What becomes of an object when descriptors are closed, counted or moved from: it is
\* gone, or its file and offset stay.
SameFile(o, n) == n.kind # "reg" \/ (n.kind = o.kind /\ n.ino = o.ino /\ n.offp = o.offp)

\* The invariant survives a step that keeps the files and, at each object, its file.
LEMMA KeepFiles ==
  ASSUME FInv, prog' = "free", alive' \subseteq Pids,
         files' \in [Pids -> [Fds -> Pages \cup {NULL}]], obj' \in [Pages -> Objects],
         UNCHANGED <<inode, disk>>,
         \A pg \in Pages : SameFile(obj[pg], obj'[pg])
  PROVE  FInv'
<1>1. ASSUME NEW pg \in Pages PROVE Inside(obj'[pg], inode')
  <2>1. SameFile(obj[pg], obj'[pg]) /\ Inside(obj[pg], inode)
    BY <1>1 DEF FInv
  <2> QED
    BY <2>1 DEF SameFile, Inside
<1> QED
  BY <1>1 DEF FInv

\* A step that changes nothing of them.
LEMMA KeepAll ==
  ASSUME FInv, prog' = "free", UNCHANGED <<alive, files, obj, inode, disk>>
  PROVE  FInv'
BY DEF FInv, Inside

\* A close keeps the types, and the file of every object it leaves.
LEMMA UnrefKeeps ==
  ASSUME FInv, NEW pg \in Pages, NEW n \in Int
  PROVE  /\ Unref(obj, pg, n) \in [Pages -> Objects]
         /\ \A q \in Pages : SameFile(obj[q], Unref(obj, pg, n)[q])
<1>1. obj \in [Pages -> Objects] /\ obj[pg] \in Objects
  BY DEF FInv
<1>2. FreeObject \in Objects /\ FreeObject.kind = "free"
  BY FilesAssumption DEF FreeObject, Objects, NULL
<1>3. [obj[pg] EXCEPT !.rc = @ - n] \in Objects
  BY <1>1 DEF Objects
<1> QED
  BY <1>1, <1>2, <1>3 DEF Unref, SameFile, Objects

\* An open descriptor leads to a page.
LEMMA OpenPage ==
  ASSUME FInv, NEW p \in Pids, NEW fd \in Fds, IsOpen(p, fd)
  PROVE  files[p][fd] \in Pages /\ Object(p, fd) \in Objects /\ Inside(Object(p, fd), inode)
BY DEF FInv, IsOpen, Object

\* A descriptor is put in the table.
LEMMA PutFd ==
  ASSUME FInv, NEW p \in Pids, NEW fd \in Fds, NEW v \in Pages \cup {NULL}
  PROVE  [files EXCEPT ![p][fd] = v] \in [Pids -> [Fds -> Pages \cup {NULL}]]
BY DEF FInv

LEMMA CloseKeeps ==
  ASSUME FInv, prog' = "free", NEW p \in Pids, NEW fd \in Fds, do_close(p, fd)
  PROVE  FInv'
<1>1. CASE IsOpen(p, fd)
  <2>1. files[p][fd] \in Pages
    BY <1>1, OpenPage
  <2>2. /\ obj' = Unref(obj, files[p][fd], 1) /\ files' = [files EXCEPT ![p][fd] = NULL]
        /\ alive' = alive /\ UNCHANGED <<inode, disk>>
    BY <1>1 DEF do_close
  <2>3. obj' \in [Pages -> Objects] /\ \A q \in Pages : SameFile(obj[q], obj'[q])
    BY <2>1, <2>2, UnrefKeeps
  <2>4. files' \in [Pids -> [Fds -> Pages \cup {NULL}]]
    BY <2>2, PutFd
  <2>5. alive' \subseteq Pids
    BY <2>2 DEF FInv
  <2> QED
    BY <2>2, <2>3, <2>4, <2>5, KeepFiles
<1>2. CASE ~IsOpen(p, fd)
  BY <1>2, KeepAll DEF do_close, vars
<1> QED
  BY <1>1, <1>2

LEMMA Dup2Keeps ==
  ASSUME FInv, prog' = "free", NEW p \in Pids, NEW old \in Fds, NEW new \in Fds, fd_dup2(p, old, new)
  PROVE  FInv'
<1>1. CASE IsOpen(p, old) /\ old # new
  <2>1. files[p][old] \in Pages
    BY <1>1, OpenPage
  <2>2. /\ obj' = IF IsOpen(p, new) THEN Unref(obj, files[p][new], 1) ELSE obj
        /\ files' = [files EXCEPT ![p][new] = files[p][old]]
        /\ alive' = alive /\ UNCHANGED <<inode, disk>>
    BY <1>1 DEF fd_dup2
  <2>3. obj' \in [Pages -> Objects] /\ \A q \in Pages : SameFile(obj[q], obj'[q])
    <3>1. CASE IsOpen(p, new)
      <4>1. files[p][new] \in Pages
        BY <3>1, OpenPage
      <4> QED
        BY <2>2, <3>1, <4>1, UnrefKeeps
    <3>2. CASE ~IsOpen(p, new)
      BY <2>2, <3>2 DEF FInv, SameFile
    <3> QED
      BY <3>1, <3>2
  <2>4. files' \in [Pids -> [Fds -> Pages \cup {NULL}]]
    BY <2>1, <2>2, PutFd
  <2>5. alive' \subseteq Pids
    BY <2>2 DEF FInv
  <2> QED
    BY <2>2, <2>3, <2>4, <2>5, KeepFiles
<1>2. CASE ~(IsOpen(p, old) /\ old # new)
  BY <1>2, KeepAll DEF fd_dup2, vars
<1> QED
  BY <1>1, <1>2

LEMMA ForkKeeps ==
  ASSUME FInv, prog' = "free", NEW p \in Pids, NEW c \in Pids, do_fork(p, c)
  PROVE  FInv'
<1>1. files' \in [Pids -> [Fds -> Pages \cup {NULL}]] /\ alive' \subseteq Pids
  BY DEF FInv, do_fork
<1>2. obj' = obj /\ UNCHANGED <<inode, disk>>
  BY DEF do_fork
<1>3. obj' \in [Pages -> Objects] /\ \A q \in Pages : SameFile(obj[q], obj'[q])
  BY <1>2 DEF FInv, SameFile
<1> QED
  BY <1>1, <1>2, <1>3, KeepFiles

LEMMA ExitKeeps ==
  ASSUME FInv, prog' = "free", NEW p \in Pids, do_file_exit(p)
  PROVE  FInv'
<1> DEFINE N(pg) == Cardinality({fd \in Fds : files[p][fd] = pg})
           G(pg) == IF N(pg) = 0 THEN obj[pg] ELSE Unref(obj, pg, N(pg))[pg]
<1>1. ASSUME NEW pg \in Pages PROVE N(pg) \in Int
  <2>1. IsFiniteSet(Fds)
    BY FilesAssumption, FS_Interval DEF Fds
  <2>2. IsFiniteSet({fd \in Fds : files[p][fd] = pg})
    BY <2>1, FS_Subset
  <2> QED
    BY <2>2, FS_CardinalityType
<1> HIDE DEF N
<1>2. ASSUME NEW pg \in Pages PROVE G(pg) \in Objects /\ SameFile(obj[pg], G(pg))
  <2>1. CASE N(pg) = 0
    BY <2>1 DEF FInv, SameFile
  <2>2. CASE N(pg) # 0
    <3>1. Unref(obj, pg, N(pg)) \in [Pages -> Objects]
      BY <1>1, UnrefKeeps
    <3>2. SameFile(obj[pg], Unref(obj, pg, N(pg))[pg])
      BY <1>1, UnrefKeeps
    <3> QED
      BY <2>2, <3>1, <3>2
  <2> QED
    BY <2>1, <2>2
<1>3. obj' = [pg \in Pages |-> G(pg)]
  BY DEF do_file_exit, N
<1> HIDE DEF G
<1>4. obj' \in [Pages -> Objects] /\ \A q \in Pages : SameFile(obj[q], obj'[q])
  BY <1>2, <1>3
<1>5. files' \in [Pids -> [Fds -> Pages \cup {NULL}]]
  BY DEF FInv, do_file_exit
<1>6. alive' \subseteq Pids /\ UNCHANGED <<inode, disk>>
  BY DEF FInv, do_file_exit
<1> QED
  BY <1>4, <1>5, <1>6, KeepFiles

\* What stops the kernel changes nothing else.
LEMMA StopKeeps ==
  ASSUME FInv, prog' = "free", NEW why, Stop(why)
  PROVE  FInv'
BY KeepAll DEF Stop

-------------------------------------------------------------------------------
(* open *)

\* A descriptor of its own for an object that takes a new page, on a file that is valid.
LEMMA NewObjectKeeps ==
  ASSUME FInv, prog' = "free", NEW p \in Pids, NEW fd \in Fds, FreePages # {}, NEW o \in Objects,
         obj' = [obj EXCEPT ![NewPage] = o], files' = [files EXCEPT ![p][fd] = NewPage],
         UNCHANGED <<alive, disk>>, inode' \in [1 .. NumFiles -> Inodes],
         \A q \in Pages : Inside(obj[q], inode'), Inside(o, inode')
  PROVE  FInv'
<1>1. NewPage \in Pages
  BY NewPageFree
<1>2. obj' \in [Pages -> Objects]
  BY <1>1 DEF FInv
<1>3. files' \in [Pids -> [Fds -> Pages \cup {NULL}]]
  BY <1>1, PutFd
<1> QED
  BY <1>2, <1>3 DEF FInv

LEMMA StandardObjects ==
  ASSUME NEW fd \in 0 .. 2
  PROVE  StandardObject(fd) \in Objects /\ StandardObject(fd).kind = "std"
BY FilesAssumption DEF StandardObject, Objects, Modes, NULL

LEMMA OpenStandardKeeps ==
  ASSUME FInv, prog' = "free", NEW p \in Pids, NEW fd \in 0 .. 2, open_standard_IO(p, fd)
  PROVE  FInv' /\ disk' = disk
<1>0. fd \in Fds
  BY FilesAssumption DEF Fds
<1>1. CASE \E why : Stop(why)
  BY <1>1, StopKeeps DEF Stop
<1>2. CASE /\ IsOpen(p, fd) /\ FreeFds(p) # {}
           /\ obj'   = [obj EXCEPT ![files[p][fd]].rc = @ + 1]
           /\ files' = [files EXCEPT ![p][StdResult(p, fd)] = files[p][fd]]
           /\ UNCHANGED <<alive, inode, disk, kernel, copied>>
  <2>1. files[p][fd] \in Pages
    BY <1>0, <1>2, OpenPage
  <2>2. StdResult(p, fd) \in Fds
    BY <1>2, NewFd DEF StdResult
  <2>3. files' \in [Pids -> [Fds -> Pages \cup {NULL}]]
    BY <1>2, <2>1, <2>2, PutFd
  <2>4. obj' \in [Pages -> Objects] /\ \A q \in Pages : SameFile(obj[q], obj'[q])
    <3>1. obj \in [Pages -> Objects] /\ obj[files[p][fd]] \in Objects
      BY <2>1 DEF FInv
    <3> DEFINE n == [obj[files[p][fd]] EXCEPT !.rc = @ + 1]
    <3>2. n \in Objects /\ SameFile(obj[files[p][fd]], n)
      BY <3>1 DEF Objects, SameFile
    <3>3. obj' = [obj EXCEPT ![files[p][fd]] = n]
      BY <1>2
    <3> HIDE DEF n
    <3> QED
      BY <2>1, <3>1, <3>2, <3>3 DEF SameFile
  <2>5. alive' \subseteq Pids
    BY <1>2 DEF FInv
  <2> QED
    BY <1>2, <2>3, <2>4, <2>5, KeepFiles
<1>3. CASE /\ FreePages # {}
           /\ obj'   = [obj EXCEPT ![NewPage] = StandardObject(fd)]
           /\ files' = [files EXCEPT ![p][fd] = NewPage]
           /\ UNCHANGED <<alive, inode, disk, kernel, copied>>
  <2>1. StandardObject(fd) \in Objects /\ Inside(StandardObject(fd), inode')
    BY StandardObjects DEF Inside
  <2>2. inode' \in [1 .. NumFiles -> Inodes] /\ \A q \in Pages : Inside(obj[q], inode')
    BY <1>3 DEF FInv
  <2> QED
    BY <1>0, <1>3, <2>1, <2>2, NewObjectKeeps
<1> QED
  BY <1>1, <1>2, <1>3 DEF open_standard_IO

\* What alloc_inode fills in.
LEMMA NewInodes ==
  ASSUME NEW name \in FreeNames
  PROVE  [valid |-> TRUE, name |-> name, size |-> 0] \in Inodes
<1>1. 0 \in 0 .. FileSize
  BY FilesAssumption
<1> QED
  BY <1>1, Zenon DEF Inodes

\* The size of a file is a natural number, at most the room it has.
LEMMA Sizes ==
  ASSUME FInv, NEW i \in 1 .. NumFiles
  PROVE  inode[i] \in Inodes /\ inode[i].size \in Nat /\ inode[i].size <= FileSize
<1>1. inode[i] \in Inodes
  BY DEF FInv
<1>2. inode[i].size \in 0 .. FileSize
  BY <1>1, Zenon DEF Inodes
<1> QED
  BY <1>1, <1>2, FilesAssumption

LEMMA OpenRegularKeeps ==
  ASSUME FInv, prog' = "free", NEW p \in Pids, NEW name \in FreeNames, NEW mode \in SUBSET Modes,
         NEW creat \in BOOLEAN, do_regular_file_open(p, name, mode, creat)
  PROVE  FInv' /\ disk' = disk
<1> DEFINE found == lookup_inode(name)
           i == IF found # {} THEN Least(found) ELSE get_free_inode
<1>1. CASE \E why : Stop(why)
  BY <1>1, StopKeeps DEF Stop
<1>2. CASE UNCHANGED vars
  BY <1>2, KeepAll DEF vars
<1>3. CASE /\ FreeFds(p) # {} /\ FreePages # {}
           /\ inode' = IF found # {} \/ i = NULL THEN inode
                       ELSE [inode EXCEPT ![i] = [valid |-> TRUE, name |-> name, size |-> 0]]
           /\ obj'   = [obj EXCEPT ![NewPage] = RegularObject(i, mode)]
           /\ files' = [files EXCEPT ![p][Least(FreeFds(p))] = NewPage]
           /\ UNCHANGED <<alive, disk, kernel, copied>>
  <2> DEFINE o == RegularObject(i, mode)
             n == [valid |-> TRUE, name |-> name, size |-> 0]
  <2>1. i = NULL \/ i \in 1 .. NumFiles
    BY FoundInode, NewInode
  <2>2. o \in Objects
    BY <2>1, FilesAssumption DEF RegularObject, Objects, NULL
  <2>3. n \in Inodes
    BY NewInodes
  <2>4. o.offp = 0 /\ o.ino = i
    BY DEF RegularObject
  <2>5. Inside(o, inode') /\ inode' \in [1 .. NumFiles -> Inodes] /\ \A q \in Pages : Inside(obj[q], inode')
    <3> HIDE DEF o
    <3>1. CASE found # {}
      <4>1. inode' = inode /\ inode[i].valid /\ i \in 1 .. NumFiles
        BY <1>3, <3>1, FoundInode
      <4>2. inode[i].size \in Nat
        BY <4>1, Sizes
      <4>3. Inside(o, inode')
        BY <2>4, <4>1, <4>2, FromStart DEF Inside
      <4> QED
        BY <4>1, <4>3 DEF FInv
    <3>2. CASE i = NULL
      BY <1>3, <2>4, <3>2 DEF FInv, Inside
    <3>3. CASE found = {} /\ i # NULL
      <4>1. inode' = [inode EXCEPT ![i] = n] /\ i \in 1 .. NumFiles /\ ~inode[i].valid
        BY <1>3, <2>1, <3>3, NewInode
      <4>2. inode' \in [1 .. NumFiles -> Inodes] /\ inode'[i] = n
        BY <2>3, <4>1 DEF FInv
      <4>3. Inside(o, inode')
        BY <2>4, <4>2, FromStart DEF Inside
      <4>4. ASSUME NEW q \in Pages PROVE Inside(obj[q], inode')
        <5>1. Inside(obj[q], inode) /\ obj[q].ino \in 0 .. NumFiles
          BY DEF FInv, Objects
        <5>2. CASE obj[q].kind = "reg" /\ obj[q].ino # NULL
          <6>1. obj[q].ino # i /\ obj[q].ino \in 1 .. NumFiles
            BY <4>1, <5>1, <5>2, FilesAssumption DEF Inside, NULL
          <6>2. inode'[obj[q].ino] = inode[obj[q].ino]
            BY <4>1, <6>1 DEF FInv
          <6> QED
            BY <5>1, <6>2 DEF Inside
        <5> QED
          BY <5>2 DEF Inside
      <4> QED
        BY <4>2, <4>3, <4>4
    <3> QED
      BY <3>1, <3>2, <3>3
  <2>6. Least(FreeFds(p)) \in Fds
    BY <1>3, NewFd
  <2>7. obj' = [obj EXCEPT ![NewPage] = o] /\ disk' = disk /\ UNCHANGED <<alive, disk>>
    BY <1>3
  <2> HIDE DEF o
  <2>8. FInv'
    BY <1>3, <2>2, <2>5, <2>6, <2>7, NewObjectKeeps
  <2> QED
    BY <2>7, <2>8
<1> QED
  BY <1>1, <1>2, <1>3 DEF do_regular_file_open

LEMMA OpenKeeps ==
  ASSUME FInv, prog' = "free", NEW p \in Pids, NEW name \in FreeNames, NEW mode \in SUBSET Modes,
         NEW creat \in BOOLEAN, do_file_open(p, name, mode, creat)
  PROVE  FInv' /\ disk' = disk
<1>1. CASE name \in DOMAIN Standard
  <2>1. Standard[name] \in 0 .. 2
    BY <1>1 DEF Standard
  <2>2. open_standard_IO(p, Standard[name])
    BY <1>1 DEF do_file_open
  <2> QED
    BY <2>1, <2>2, OpenStandardKeeps
<1>2. CASE name \notin DOMAIN Standard
  BY <1>2, OpenRegularKeeps DEF do_file_open
<1> QED
  BY <1>1, <1>2

-------------------------------------------------------------------------------
(* read and lseek *)

\* No descriptor and no count changes.
Uncounted == /\ UNCHANGED <<alive, files, copied>>
             /\ \A q \in Pages : obj'[q].rc = obj[q].rc /\ obj'[q].kind = obj[q].kind

LEMMA StopUncounted ==
  ASSUME NEW why, Stop(why) \/ UNCHANGED vars
  PROVE  Uncounted
BY DEF Stop, vars, Uncounted

\* Moving an object's offset within its bounds.
LEMMA MovedInside ==
  ASSUME NEW o \in [Pages -> Objects], NEW d, \A q \in Pages : Inside(o[q], d),
         NEW pg \in Pages, NEW n \in Int, Within(o[pg].offp + n, d[o[pg].ino].size)
  PROVE  /\ Moved(o, pg, n) \in [Pages -> Objects]
         /\ \A q \in Pages : Inside(Moved(o, pg, n)[q], d)
         /\ Moved(o, pg, n)[pg].offp = o[pg].offp + n
         /\ \A q \in Pages : /\ Moved(o, pg, n)[q].kind = o[q].kind
                             /\ Moved(o, pg, n)[q].rc = o[q].rc
                             /\ Moved(o, pg, n)[q].ino = o[q].ino
                             /\ q # pg => Moved(o, pg, n)[q].offp = o[q].offp
<1> DEFINE m == [o[pg] EXCEPT !.offp = @ + n]
<1>1. /\ m \in Objects /\ m.kind = o[pg].kind /\ m.ino = o[pg].ino /\ m.offp = o[pg].offp + n
      /\ m.rc = o[pg].rc
  BY DEF Objects
<1>2. Moved(o, pg, n) = [o EXCEPT ![pg] = m]
  BY DEF Moved
<1>3. Inside(m, d)
  BY <1>1 DEF Inside
<1> HIDE DEF m
<1> QED
  BY <1>1, <1>2, <1>3

\* A read gets no more than there is from its offset on.
LEMMA ReadLen ==
  ASSUME FInv, NEW i \in 1 .. NumFiles, NEW n \in Nat, NEW off \in Int, off <= inode[i].size
  PROVE  Len(flat_read(i, n, off)) \in 0 .. inode[i].size - off
<1> DEFINE left == inode[i].size - off
           m == IF left <= 0 THEN 0 ELSE IF n > left THEN left ELSE n
           e(k) == disk[Start(i) + off + k - 1]
<1>1. inode[i].size \in Nat
  BY Sizes
<1>2. m \in Nat /\ m \in 0 .. inode[i].size - off
  BY <1>1
<1>3. flat_read(i, n, off) = [k \in 1 .. m |-> e(k)]
  BY DEF flat_read
<1> HIDE DEF m, e
<1>4. Len(flat_read(i, n, off)) = m
  BY <1>2, <1>3
<1> QED
  BY <1>2, <1>4

\* What a call that reaches the file system knows of its object.
LEMMA Reached ==
  ASSUME FInv, NEW p \in Pids, NEW fd \in Fds, NEW need \in SUBSET Modes,
         Trouble(p, fd, need) = "ok", IsOpen(p, fd), Object(p, fd).kind = "reg",
         need \subseteq Object(p, fd).mode
  PROVE  /\ files[p][fd] \in Pages /\ obj[files[p][fd]] = Object(p, fd) /\ Object(p, fd) \in Objects
         /\ Object(p, fd).ino \in 1 .. NumFiles
         /\ Within(Object(p, fd).offp, inode[Object(p, fd).ino].size)
<1>1. files[p][fd] \in Pages /\ Object(p, fd) \in Objects /\ Inside(Object(p, fd), inode)
  BY OpenPage
<1>2. Object(p, fd).ino # NULL
  BY DEF Trouble, Lost
<1>3. Object(p, fd).ino \in 1 .. NumFiles
  BY <1>1, <1>2, FilesAssumption DEF Objects, NULL
<1> QED
  BY <1>1, <1>2, <1>3 DEF Inside, Object

LEMMA ReadKeeps ==
  ASSUME FInv, prog' = "free", NEW p \in Pids, NEW fd \in Fds, NEW n \in Nat, do_file_read(p, fd, n)
  PROVE  FInv' /\ disk' = disk /\ Uncounted
<1>1. CASE \E why : Stop(why)
  BY <1>1, StopKeeps, StopUncounted DEF Stop
<1>2. CASE UNCHANGED vars
  BY <1>2, KeepAll, StopUncounted DEF vars
<1>3. CASE /\ Trouble(p, fd, {"R"}) = "ok" /\ Transfers(p, fd, {"R"})
           /\ obj' = Moved(obj, files[p][fd], do_read_result(p, fd, n))
           /\ UNCHANGED <<alive, files, inode, disk, kernel, copied>>
  <2> DEFINE o == Object(p, fd)
  <2>1. IsOpen(p, fd) /\ o.kind = "reg" /\ {"R"} \subseteq o.mode /\ Refused(p, fd, {"R"}) = 0
    BY <1>3 DEF Transfers, Refused, EINVAL, EACCES
  <2>2. /\ files[p][fd] \in Pages /\ obj[files[p][fd]] = o /\ o \in Objects
        /\ o.ino \in 1 .. NumFiles /\ Within(o.offp, inode[o.ino].size)
    BY <1>3, <2>1, Reached DEF Modes
  <2>3. do_read_result(p, fd, n) = Len(flat_read(o.ino, n, o.offp))
    BY <2>1 DEF do_read_result, BytesRead
  <2> HIDE DEF o
  <2>4. inode[o.ino].size \in Nat
    BY <2>2, Sizes
  <2>5. do_read_result(p, fd, n) \in 0 .. inode[o.ino].size - o.offp
    BY <2>2, <2>3, ReadLen DEF Within
  <2>6. do_read_result(p, fd, n) \in Int /\ Within(o.offp + do_read_result(p, fd, n), inode[o.ino].size)
    <3> DEFINE d == do_read_result(p, fd, n)
    <3>1. o.offp \in Int /\ Low(o.offp)
      BY <2>2 DEF Within
    <3> HIDE DEF d
    <3>2. d \in Int /\ o.offp + d \in Int /\ o.offp <= o.offp + d /\ o.offp + d <= inode[o.ino].size
      BY <2>4, <2>5, <3>1 DEF d
    <3>3. Low(o.offp + d)
      BY <3>1, <3>2, LowUp
    <3> QED
      BY <3>2, <3>3 DEF Within, d
  <2>7. obj \in [Pages -> Objects] /\ \A q \in Pages : Inside(obj[q], inode)
    BY DEF FInv
  <2>8. /\ obj' \in [Pages -> Objects] /\ \A q \in Pages : Inside(obj'[q], inode)
        /\ \A q \in Pages : obj'[q].rc = obj[q].rc /\ obj'[q].kind = obj[q].kind
    BY <1>3, <2>2, <2>6, <2>7, MovedInside
  <2>9. FInv'
    BY <1>3, <2>8 DEF FInv
  <2> QED
    BY <1>3, <2>8, <2>9 DEF Uncounted
<1> QED
  BY <1>1, <1>2, <1>3 DEF do_file_read

LEMMA SeekKeeps ==
  ASSUME FInv, prog' = "free", NEW p \in Pids, NEW fd \in Fds, NEW x \in Int,
         NEW whence \in {"SET", "CUR", "END"}, IsOpen(p, fd) => IsRegular(p, fd), do_lseek(p, fd, x, whence)
  PROVE  FInv' /\ disk' = disk /\ Uncounted
<1> DEFINE r == do_lseek_result(p, fd, x, whence)
<1>1. CASE \E why : Stop(why)
  BY <1>1, StopKeeps, StopUncounted DEF Stop
<1>2. CASE UNCHANGED vars
  BY <1>2, KeepAll, StopUncounted DEF vars
<1>3. CASE /\ Trouble(p, fd, {}) = "ok" /\ r >= 0
           /\ obj' = [obj EXCEPT ![files[p][fd]].offp = r]
           /\ UNCHANGED <<alive, files, inode, disk, kernel, copied>>
  <2> DEFINE o == Object(p, fd)
  <2>1. IsOpen(p, fd)
    BY <1>3 DEF do_lseek_result, EINVAL
  <2>2. o.kind = "reg"
    <3>1. o \in Objects /\ o.kind # "std"
      BY <2>1, OpenPage DEF IsRegular
    <3>2. o.kind # "free"
      BY <1>3, <2>1 DEF Trouble, Lost
    <3> QED
      BY <3>1, <3>2 DEF Objects
  <2>3. /\ files[p][fd] \in Pages /\ obj[files[p][fd]] = o /\ o \in Objects
        /\ o.ino \in 1 .. NumFiles /\ Within(o.offp, inode[o.ino].size)
    BY <1>3, <2>1, <2>2, Reached
  <2>4. inode[o.ino].size \in Nat
    BY <2>3, Sizes
  <2>5. SeekTarget(p, fd, x, whence) \in Int
    BY <2>3, <2>4 DEF SeekTarget, Within
  <2>6. r \in 0 .. inode[o.ino].size
    <3>1. r = LET y == SeekTarget(p, fd, x, whence)
              IN IF y < 0 \/ y > inode[o.ino].size THEN EINVAL ELSE y
      BY <2>1, <2>2 DEF do_lseek_result
    <3> HIDE DEF r, o
    <3> QED
      BY <1>3, <2>4, <2>5, <3>1 DEF EINVAL
  <2> DEFINE m == [o EXCEPT !.offp = r]
  <2>7. obj' = [obj EXCEPT ![files[p][fd]] = m]
    BY <1>3, <2>3
  <2> HIDE DEF r, o
  <2>8. m \in Objects /\ Inside(m, inode) /\ m.rc = o.rc /\ m.kind = o.kind
    <3>1. m.ino = o.ino /\ m.kind = o.kind /\ m.offp = r /\ m \in Objects /\ m.rc = o.rc
      BY <2>3, <2>4, <2>6 DEF Objects
    <3>2. Inside(o, inode)
      BY <2>3 DEF FInv
    <3> HIDE DEF m
    <3> QED
      BY <2>4, <2>6, <3>1, <3>2, FromStart DEF Inside
  <2> HIDE DEF m
  <2>9. /\ obj' \in [Pages -> Objects] /\ \A q \in Pages : Inside(obj'[q], inode)
        /\ \A q \in Pages : obj'[q].rc = obj[q].rc /\ obj'[q].kind = obj[q].kind
    BY <2>3, <2>7, <2>8 DEF FInv
  <2>10. FInv'
    BY <1>3, <2>9 DEF FInv
  <2> QED
    BY <1>3, <2>9, <2>10 DEF Uncounted
<1> QED
  BY <1>1, <1>2, <1>3 DEF do_lseek

-------------------------------------------------------------------------------
(* write and sendfile *)

\* A byte of a file is a byte of the disk.
LEMMA Placed ==
  ASSUME NEW i \in 1 .. NumFiles, NEW k \in 0 .. FileSize - 1
  PROVE  Start(i) + k \in Room
<1> USE FilesAssumption
<1>1. (i - 1) * FileSize \in Nat
  OBVIOUS
<1>2. ASSUME NEW d \in Nat PROVE d * FileSize >= 0
  BY <1>2
<1>3. (NumFiles - i) * FileSize >= 0
  BY <1>2
<1>4. NumFiles * FileSize - i * FileSize = (NumFiles - i) * FileSize
  OBVIOUS
<1>5. (i - 1) * FileSize = i * FileSize - FileSize
  OBVIOUS
<1> DEFINE a == NumFiles * FileSize  b == i * FileSize  c == (i - 1) * FileSize  e == (NumFiles - i) * FileSize
<1>6. a \in Int /\ b \in Int /\ c \in Nat /\ e >= 0 /\ a - b = e /\ c = b - FileSize /\ e \in Int
  BY <1>1, <1>3, <1>4, <1>5
<1> HIDE DEF a, b, c, e
<1>7. c + k \in 0 .. a - 1
  BY <1>6
<1> QED
  BY <1>7 DEF Start, Room, a, c

\* A write keeps the offset within its bounds, the file grows as far as the write goes,
\* and only bytes that the object reaches change.
LEMMA WriteKeeps ==
  ASSUME FInv, prog' = "free", NEW o \in [Pages -> Objects], \A q \in Pages : Inside(o[q], inode),
         NEW pg \in Pages, o[pg].kind = "reg", o[pg].ino \in 1 .. NumFiles,
         NEW data, Len(data) \in Lengths, DOMAIN data = 1 .. Len(data),
         do_write_regular(o, pg, data), UNCHANGED <<alive, files>>
  PROVE  /\ FInv' /\ \A j \in 1 .. NumFiles : Bytes(j)' # Bytes(j) => Reaches(o[pg], j)
         /\ \A q \in Pages : obj'[q].rc = o[q].rc /\ obj'[q].kind = o[q].kind
<1> DEFINE i == o[pg].ino  off == o[pg].offp
<1>1. Within(off, inode[i].size) /\ inode[i].valid
  BY FilesAssumption DEF Inside, NULL
<1>2. inode[i] \in Inodes /\ inode[i].size \in Nat /\ inode[i].size <= FileSize /\ FileSize \in Nat
  BY Sizes, FilesAssumption
<1>3. off \in Int /\ off <= inode[i].size /\ Low(off) /\ Len(data) \in Nat
  BY <1>1, LengthInt DEF Within
<1>4. CASE Fits(data, off)
  <2>1. obj' = Moved(o, pg, Len(data)) /\ flat_write(i, data, off)
    BY <1>4 DEF do_write_regular
  <2>2. off + Len(data) \in Int /\ off + Len(data) <= FileSize
    BY <1>2, <1>3, <1>4 DEF Fits
  <2> DEFINE big == Larger(inode[i].size, off + Len(data))
             n == [inode[i] EXCEPT !.size = big]
  <2>3. big \in 0 .. FileSize /\ big >= inode[i].size /\ big >= off + Len(data)
    BY <1>2, <2>2 DEF Larger
  <2>4. inode' = [inode EXCEPT ![i] = n]
    BY <2>1 DEF flat_write
  <2> HIDE DEF big
  <2>5. n \in Inodes /\ n.size = big /\ n.valid = inode[i].valid
    BY <1>2, <2>3, Zenon DEF Inodes
  <2> HIDE DEF n
  <2>6. inode' \in [1 .. NumFiles -> Inodes] /\ inode'[i] = n /\ \A j \in 1 .. NumFiles : j # i => inode'[j] = inode[j]
    BY <2>4, <2>5 DEF FInv
  <2>7. \A q \in Pages : Inside(o[q], inode')
    <3> SUFFICES ASSUME NEW q \in Pages, o[q].kind = "reg", o[q].ino # NULL
                 PROVE  inode'[o[q].ino].valid /\ Within(o[q].offp, inode'[o[q].ino].size)
      BY DEF Inside
    <3>0. o[q] \in Objects /\ Inside(o[q], inode)
      OBVIOUS
    <3>4. o[q].ino \in 0 .. NumFiles
      BY <3>0 DEF Objects
    <3>5. Within(o[q].offp, inode[o[q].ino].size) /\ inode[o[q].ino].valid
      BY <3>0 DEF Inside
    <3>1. o[q].ino \in 1 .. NumFiles /\ Within(o[q].offp, inode[o[q].ino].size) /\ inode[o[q].ino].valid
      BY <3>4, <3>5, FilesAssumption DEF NULL
    <3>2. CASE o[q].ino = i
      BY <1>2, <2>3, <2>5, <2>6, <3>1, <3>2 DEF Within
    <3>3. CASE o[q].ino # i
      BY <2>6, <3>1, <3>3
    <3> QED
      BY <3>2, <3>3
  <2>8. Within(off + Len(data), inode'[i].size) /\ Len(data) \in Int
    <3>1. off <= off + Len(data) /\ off + Len(data) <= inode'[i].size
      BY <1>3, <2>2, <2>3, <2>5, <2>6
    <3> QED
      BY <1>3, <2>2, <3>1, LowUp DEF Within
  <2>9. /\ obj' \in [Pages -> Objects] /\ \A q \in Pages : Inside(obj'[q], inode')
        /\ \A q \in Pages : obj'[q].rc = o[q].rc /\ obj'[q].kind = o[q].kind
    BY <2>1, <2>7, <2>8, MovedInside
  <2>10. DOMAIN disk' = Room
    BY <2>1 DEF flat_write, FInv
  <2>11. FInv'
    BY <2>6, <2>9, <2>10 DEF FInv
  <2>12. ASSUME NEW j \in 1 .. NumFiles, ~Reaches(o[pg], j) PROVE Bytes(j)' = Bytes(j)
    <3>1. ASSUME NEW k \in 0 .. FileSize - 1 PROVE disk'[Start(j) + k] = disk[Start(j) + k]
      <4> DEFINE b == Start(j) + k
                 x == b - Start(i) - off + 1
      <4>1. b \in Room
        BY Placed
      <4>2. disk'[b] = IF x \in DOMAIN data THEN data[x] ELSE disk[b]
        <5> HIDE DEF b
        <5> QED
          BY <2>1, <4>1 DEF flat_write, FInv
      <4>3. x \notin 1 .. Len(data)
        <5>1. Start(i) \in Int /\ Start(j) \in Int
          BY FilesAssumption DEF Start
        <5>2. SUFFICES ASSUME x \in 1 .. Len(data) PROVE FALSE
          OBVIOUS
        <5> DEFINE m == off + x - 1
        <5>3. m \in Int /\ off <= m /\ m <= FileSize - 1 /\ b = Start(i) + m
          <6>1. k \in Int /\ Len(data) \in Nat /\ FileSize \in Nat /\ off \in Int /\ off + Len(data) <= FileSize
            BY <1>2, <1>3, <2>2
          <6> HIDE DEF i, off
          <6>2. x \in Int /\ x >= 1 /\ x <= Len(data)
            BY <5>1, <5>2, <6>1
          <6>3. b = Start(i) + m
            BY <5>1, <6>1, <6>2, SMTT(20)
          <6> HIDE DEF x
          <6>4. m \in Int /\ off <= m /\ m <= FileSize - 1
            BY <6>1, <6>2
          <6> QED
            BY <6>3, <6>4
        <5>4. i # j
          BY <2>12 DEF Reaches
        <5>5. i > j /\ off + (i - j - 1) * FileSize < 0
          <6> HIDE DEF m, off
          <6> QED
            BY <1>3, <5>3, <5>4, Overlap
        <5> QED
          BY <2>12, <5>5 DEF Reaches
      <4> QED
        BY <4>2, <4>3
    <3> QED
      BY <3>1 DEF Bytes, Start
  <2> QED
    BY <2>9, <2>11, <2>12
<1>5. CASE ~Fits(data, off)
  <2>1. obj' = Moved(o, pg, -1) /\ UNCHANGED <<inode, disk>>
    BY <1>5 DEF do_write_regular
  <2>2. Within(off + (-1), inode[i].size)
    <3>1. off + (-1) >= FileSize - Len(data) /\ off + (-1) <= inode[i].size
      BY <1>2, <1>3, <1>5 DEF Fits
    <3> QED
      BY <1>3, <3>1 DEF Within, Low
  <2>3. /\ obj' \in [Pages -> Objects] /\ \A q \in Pages : Inside(obj'[q], inode')
        /\ \A q \in Pages : obj'[q].rc = o[q].rc /\ obj'[q].kind = o[q].kind
    BY <2>1, <2>2, MovedInside
  <2>4. FInv'
    BY <2>1, <2>3 DEF FInv
  <2> QED
    BY <2>1, <2>3, <2>4 DEF Bytes
<1> QED
  BY <1>4, <1>5

\* No bytes change but those that an object open for writing reaches.
Guarded == \A i \in DOMAIN inode : Bytes(i)' # Bytes(i) =>
              \E pg \in Pages : obj[pg].kind = "reg" /\ "W" \in obj[pg].mode /\ Reaches(obj[pg], i)

\* A read that moves the offset first makes it reach no more.
LEMMA ReachesLower ==
  ASSUME NEW o \in Objects, NEW q \in Objects, o.ino = q.ino, o.offp <= q.offp,
         NEW i \in 1 .. NumFiles, Reaches(q, i)
  PROVE  Reaches(o, i)
<1> DEFINE d == (o.ino - i - 1) * FileSize
<1>1. o.offp \in Int /\ q.offp \in Int /\ o.ino \in Int /\ FileSize \in Int
  BY FilesAssumption DEF Objects
<1>2. d \in Int
  BY <1>1
<1>3. o.ino = i \/ (o.ino > i /\ q.offp + d < 0)
  BY DEF Reaches
<1> HIDE DEF d
<1>4. o.ino = i \/ (o.ino > i /\ o.offp + d < 0)
  BY <1>1, <1>2, <1>3
<1> QED
  BY <1>4 DEF Reaches, d

\* A call that leaves the disk alone.
LEMMA QuietGuarded ==
  ASSUME disk' = disk
  PROVE  Guarded
BY DEF Guarded, Bytes

LEMMA WriteCallKeeps ==
  ASSUME FInv, prog' = "free", NEW p \in Pids, NEW fd \in Fds, NEW data \in Texts,
         do_file_write(p, fd, data)
  PROVE  FInv' /\ Guarded /\ Uncounted
<1>1. CASE \E why : Stop(why)
  BY <1>1, StopKeeps, QuietGuarded, StopUncounted DEF Stop
<1>2. CASE UNCHANGED vars
  BY <1>2, KeepAll, QuietGuarded, StopUncounted DEF vars
<1>3. CASE /\ Trouble(p, fd, {"W"}) = "ok" /\ Transfers(p, fd, {"W"})
           /\ do_write_regular(obj, files[p][fd], data)
           /\ UNCHANGED <<alive, files, kernel, copied>>
  <2> DEFINE pg == files[p][fd]
  <2>1. /\ IsOpen(p, fd) /\ Object(p, fd).kind = "reg" /\ {"W"} \subseteq Object(p, fd).mode
    BY <1>3 DEF Transfers, Refused, EINVAL, EACCES
  <2>2. /\ pg \in Pages /\ obj[pg] = Object(p, fd) /\ obj[pg].ino \in 1 .. NumFiles
    BY <1>3, <2>1, Reached DEF Modes
  <2>4. Len(data) \in Lengths /\ DOMAIN data = 1 .. Len(data)
    BY ProgramsAssumption DEF Lengths
  <2>5. obj \in [Pages -> Objects] /\ \A q \in Pages : Inside(obj[q], inode)
    BY DEF FInv
  <2>6. obj[pg].kind = "reg" /\ "W" \in obj[pg].mode
    BY <2>1, <2>2
  <2> HIDE DEF pg
  <2>7. do_write_regular(obj, pg, data) /\ UNCHANGED <<alive, files>>
    BY <1>3 DEF pg
  <2>8. /\ FInv' /\ \A j \in 1 .. NumFiles : Bytes(j)' # Bytes(j) => Reaches(obj[pg], j)
        /\ \A q \in Pages : obj'[q].rc = obj[q].rc /\ obj'[q].kind = obj[q].kind
    BY <2>2, <2>4, <2>5, <2>6, <2>7, WriteKeeps
  <2>9. DOMAIN inode = 1 .. NumFiles
    BY DEF FInv
  <2> QED
    BY <1>3, <2>2, <2>6, <2>8, <2>9 DEF Guarded, Uncounted
<1> QED
  BY <1>1, <1>2, <1>3 DEF do_file_write

\* What sendfile's write starts from: the objects after the read.
LEMMA AfterReadKeeps ==
  ASSUME FInv, NEW p \in Pids, NEW in \in Fds, NEW offset \in Int, NEW n \in Nat,
         IsOpen(p, in), Object(p, in).kind = "reg", {"R"} \subseteq Object(p, in).mode,
         Trouble(p, in, {"R"}) = "ok"
  PROVE  LET o == AfterRead(p, in, offset, n)
         IN /\ o \in [Pages -> Objects] /\ \A q \in Pages : Inside(o[q], inode)
            /\ \A q \in Pages : /\ o[q].kind = obj[q].kind /\ o[q].ino = obj[q].ino
                                /\ o[q].rc = obj[q].rc
                                /\ o[q].offp = obj[q].offp \/ o[q].offp > obj[q].offp
<1>0. obj \in [Pages -> Objects] /\ \A q \in Pages : Inside(obj[q], inode)
  BY DEF FInv
<1> DEFINE pg == files[p][in]  ob == Object(p, in)
           m == Len(flat_read(ob.ino, n, ob.offp))
<1>1. CASE offset < 0
  <2>1. /\ pg \in Pages /\ obj[pg] = ob /\ ob \in Objects
        /\ ob.ino \in 1 .. NumFiles /\ Within(ob.offp, inode[ob.ino].size)
    BY Reached DEF Modes
  <2>2. AfterRead(p, in, offset, n) = Moved(obj, pg, m)
    BY <1>1 DEF AfterRead
  <2> HIDE DEF pg, ob
  <2>3. inode[ob.ino].size \in Nat
    BY <2>1, Sizes
  <2>4. m \in 0 .. inode[ob.ino].size - ob.offp
    BY <2>1, ReadLen DEF Within
  <2> HIDE DEF m
  <2>5. m \in Nat /\ m \in Int /\ Within(ob.offp + m, inode[ob.ino].size)
    BY <2>1, <2>3, <2>4, LowUp DEF Within
  <2>6. obj[pg].offp \in Int
    BY <2>1 DEF Within
  <2> DEFINE o == Moved(obj, pg, m)
  <2>7. /\ o \in [Pages -> Objects] /\ \A q \in Pages : Inside(o[q], inode)
        /\ o[pg].offp = obj[pg].offp + m
        /\ \A q \in Pages : /\ o[q].kind = obj[q].kind /\ o[q].ino = obj[q].ino
                            /\ o[q].rc = obj[q].rc
                            /\ q # pg => o[q].offp = obj[q].offp
    BY <1>0, <2>1, <2>5, MovedInside
  <2>8. o[pg].offp = obj[pg].offp \/ o[pg].offp > obj[pg].offp
    BY <2>5, <2>6, <2>7
  <2> HIDE DEF o
  <2>9. ASSUME NEW q \in Pages PROVE o[q].offp = obj[q].offp \/ o[q].offp > obj[q].offp
    BY <2>7, <2>8
  <2> QED
    BY <2>2, <2>7, <2>9 DEF o
<1>2. CASE ~(offset < 0)
  BY <1>0, <1>2 DEF AfterRead
<1> QED
  BY <1>1, <1>2

LEMMA SendKeeps ==
  ASSUME FInv, prog' = "free", NEW p \in Pids, NEW out \in Fds, NEW in \in Fds,
         NEW offset \in Int, IsRegular(p, in), IsRegular(p, out),
         do_sendfile(p, out, in, offset, Count)
  PROVE  FInv' /\ Guarded /\ Uncounted
<1>1. CASE \E why : Stop(why)
  BY <1>1, StopKeeps, QuietGuarded, StopUncounted DEF Stop
<1>2. CASE UNCHANGED vars
  BY <1>2, KeepAll, QuietGuarded, StopUncounted DEF vars
<1>3. CASE /\ Trouble(p, in, {"R"}) = "ok" /\ Trouble(p, out, {"W"}) = "ok"
           /\ sendfile_refused(p, out, in) = 0
           /\ do_write_regular(AfterRead(p, in, offset, Count), files[p][out], Sent(p, in, offset, Count))
           /\ UNCHANGED <<alive, files, kernel, copied>>
  <2>1. /\ IsOpen(p, in) /\ Object(p, in).kind = "reg" /\ {"R"} \subseteq Object(p, in).mode
        /\ IsOpen(p, out) /\ Object(p, out).kind = "reg" /\ {"W"} \subseteq Object(p, out).mode
    <3>1. /\ IsOpen(p, in) /\ {"R"} \subseteq Object(p, in).mode
          /\ IsOpen(p, out) /\ {"W"} \subseteq Object(p, out).mode
      BY <1>3 DEF sendfile_refused, EINVAL, EACCES
    <3>2. Object(p, in).kind # "free" /\ Object(p, out).kind # "free"
      BY <1>3, <3>1 DEF Trouble, Lost
    <3>3. Object(p, in) \in Objects /\ Object(p, out) \in Objects
      BY <3>1, OpenPage
    <3> QED
      BY <3>1, <3>2, <3>3 DEF IsRegular, Objects
  <2> DEFINE pg == files[p][out]
             o == AfterRead(p, in, offset, Count)
             data == Sent(p, in, offset, Count)
  <2>2. /\ pg \in Pages /\ obj[pg] = Object(p, out) /\ obj[pg].ino \in 1 .. NumFiles
    BY <1>3, <2>1, Reached DEF Modes
  <2>4. Count = 2 /\ Len(Text) = 2
    BY DEF Count, Text
  <2>5. Len(data) = 2 /\ DOMAIN data = 1 .. 2
    BY <2>4 DEF Sent, Buffer
  <2>6. /\ o \in [Pages -> Objects] /\ \A q \in Pages : Inside(o[q], inode)
        /\ \A q \in Pages : /\ o[q].kind = obj[q].kind /\ o[q].ino = obj[q].ino
                            /\ o[q].rc = obj[q].rc
                            /\ o[q].offp = obj[q].offp \/ o[q].offp > obj[q].offp
    <3>1. Count \in Nat
      BY <2>4
    <3> QED
      BY <1>3, <2>1, <3>1, AfterReadKeeps
  <2>7. obj[pg].kind = "reg" /\ "W" \in obj[pg].mode
    BY <2>1, <2>2
  <2>8. do_write_regular(o, pg, data) /\ UNCHANGED <<alive, files>>
    BY <1>3
  <2> HIDE DEF pg, o, data
  <2>9. o[pg] \in Objects /\ obj[pg] \in Objects /\ obj[pg].offp <= o[pg].offp
    <3>1. o[pg] \in Objects /\ obj[pg] \in Objects
      BY <2>2, <2>6 DEF FInv
    <3>2. o[pg].offp \in Int /\ obj[pg].offp \in Int
      BY <3>1, Zenon DEF Objects
    <3>3. o[pg].offp = obj[pg].offp \/ o[pg].offp > obj[pg].offp
      BY <2>2, <2>6
    <3> QED
      BY <3>1, <3>2, <3>3
  <2>10. Len(data) \in Lengths /\ DOMAIN data = 1 .. Len(data)
    BY <2>4, <2>5 DEF Lengths
  <2>11. o[pg].kind = "reg" /\ o[pg].ino = obj[pg].ino /\ o[pg].ino \in 1 .. NumFiles
    BY <2>2, <2>6, <2>7
  <2>12. /\ FInv' /\ \A j \in 1 .. NumFiles : Bytes(j)' # Bytes(j) => Reaches(o[pg], j)
         /\ \A q \in Pages : obj'[q].rc = o[q].rc /\ obj'[q].kind = o[q].kind
    BY <2>2, <2>6, <2>8, <2>10, <2>11, WriteKeeps
  <2>13. DOMAIN inode = 1 .. NumFiles
    BY DEF FInv
  <2>14. \A j \in 1 .. NumFiles : Bytes(j)' # Bytes(j) => Reaches(obj[pg], j)
    BY <2>9, <2>11, <2>12, ReachesLower
  <2> QED
    BY <1>3, <2>2, <2>6, <2>7, <2>12, <2>13, <2>14 DEF Guarded, Uncounted
<1> QED
  BY <1>1, <1>2, <1>3 DEF do_sendfile

-------------------------------------------------------------------------------
(* The steps together *)

LEMMA InitEstablishes ==
  ASSUME Programs = {"free"}
  PROVE  PInit => FInv
<1> SUFFICES ASSUME PInit PROVE FInv
  OBVIOUS
<1> USE FilesAssumption
<1>1. prog = "free" /\ alive \subseteq Pids
  BY DEF PInit, Init
<1>2. files \in [Pids -> [Fds -> Pages \cup {NULL}]]
  <2>1. ASSUME NEW fd \in Fds, fd < 3 PROVE fd + 1 \in Pages
    <3>1. fd + 1 \in {1, 2, 3}
      BY <2>1 DEF Fds
    <3> QED
      BY <3>1
  <2> QED
    BY <2>1 DEF PInit, Init
<1>3. obj \in [Pages -> Objects] /\ \A pg \in Pages : obj[pg].kind # "reg"
  <2>1. FreeObject \in Objects /\ FreeObject.kind = "free"
    BY DEF FreeObject, Objects, NULL
  <2>2. ASSUME NEW pg \in 1 .. 3
        PROVE  StandardObject(pg - 1) \in Objects /\ StandardObject(pg - 1).kind = "std"
    <3>1. pg - 1 \in 0 .. 2
      OBVIOUS
    <3> QED
      BY <3>1, StandardObjects
  <2>3. obj = [pg \in Pages |-> IF pg \in 1 .. 3 THEN StandardObject(pg - 1) ELSE FreeObject]
    BY DEF PInit, Init
  <2> QED
    BY <2>1, <2>2, <2>3
<1>4. inode \in [1 .. NumFiles -> Inodes]
  <2>1. 0 \in 0 .. FileSize
    OBVIOUS
  <2>2. [valid |-> FALSE, name |-> "", size |-> 0] \in Inodes
    BY <2>1, Zenon DEF Inodes
  <2> QED
    BY <2>2 DEF PInit, Init
<1>5. DOMAIN disk = Room
  BY DEF PInit, Init, Room
<1> QED
  BY <1>1, <1>2, <1>3, <1>4, <1>5 DEF FInv, Inside

\* No step of the free program breaks the invariant, or changes a file's bytes but
\* through an object that is open for writing and reaches them.
LEMMA StepKeeps ==
  ASSUME FInv, Next
  PROVE  FInv' /\ Guarded
<1>1. ~IsTest
  <2>1. prog = "free"
    BY DEF FInv
  <2>2. DOMAIN Code = {"common_ops", "open_read_write", "dup2_lseek", "sendfile"}
    BY DEF Code
  <2> QED
    BY <2>1, <2>2 DEF IsTest, Tests
<1>2. ~TestStep
  BY <1>1 DEF TestStep, Here
<1>3. alive \subseteq Pids
  BY DEF FInv
<1>4. CASE FreeOpen
  <2>1. PICK p \in alive, name \in FreeNames, mode \in {{"R"}, RW} : do_file_open(p, name, mode, mode = RW)
    BY <1>4 DEF FreeOpen
  <2>2. prog' = "free" /\ p \in Pids /\ mode \in SUBSET Modes /\ (mode = RW) \in BOOLEAN
    BY <1>3, <1>4 DEF FreeOpen, FreeCall, Advance, FInv, RW, Modes
  <2> QED
    BY <2>1, <2>2, OpenKeeps, QuietGuarded
<1>5. CASE FreeAccess
  <2>1. prog' = "free"
    BY <1>5 DEF FreeAccess, FreeCall, Advance, FInv
  <2>2. PICK p \in alive, fd \in Fds :
          \/ /\ IsOpen(p, fd) => IsRegular(p, fd)
             /\ \/ do_file_read(p, fd, Count)
                \/ \E data \in Texts : do_file_write(p, fd, data)
                \/ \E x \in Offsets, whence \in {"SET", "CUR", "END"} : do_lseek(p, fd, x, whence)
          \/ \E in \in Fds : /\ IsRegular(p, in) /\ IsRegular(p, fd)
                             /\ \E offset \in {-1, 0} : do_sendfile(p, fd, in, offset, Count)
    BY <1>5 DEF FreeAccess
  <2>3. p \in Pids /\ Count \in Nat
    BY <1>3 DEF Count, Text
  <2>4. CASE do_file_read(p, fd, Count)
    BY <2>1, <2>3, <2>4, ReadKeeps, QuietGuarded
  <2>5. ASSUME NEW data \in Texts, do_file_write(p, fd, data)
        PROVE  FInv' /\ Guarded
    BY <2>1, <2>3, <2>5, WriteCallKeeps
  <2>6. ASSUME NEW x \in Offsets, NEW whence \in {"SET", "CUR", "END"}, do_lseek(p, fd, x, whence),
               IsOpen(p, fd) => IsRegular(p, fd)
        PROVE  FInv' /\ Guarded
    <3>1. x \in Int
      BY ProgramsAssumption
    <3> QED
      BY <2>1, <2>3, <2>6, <3>1, SeekKeeps, QuietGuarded
  <2>7. ASSUME NEW in \in Fds, IsRegular(p, in), IsRegular(p, fd),
               NEW offset \in {-1, 0}, do_sendfile(p, fd, in, offset, Count)
        PROVE  FInv' /\ Guarded
    <3>1. offset \in Int
      OBVIOUS
    <3> QED
      BY <2>1, <2>3, <2>7, <3>1, SendKeeps
  <2> QED
    BY <2>2, <2>4, <2>5, <2>6, <2>7
<1>6. CASE FreeDescriptor
  <2>1. prog' = "free"
    BY <1>6 DEF FreeDescriptor, FreeCall, Advance, FInv
  <2>2. PICK p \in alive :
          \/ \E fd \in Fds : do_close(p, fd)
          \/ \E old \in Fds, new \in Fds : old # new /\ fd_dup2(p, old, new)
          \/ \E c \in Pids : do_fork(p, c)
          \/ do_file_exit(p)
    BY <1>6 DEF FreeDescriptor
  <2>3. p \in Pids
    BY <1>3
  <2>4. FInv'
    BY <2>1, <2>2, <2>3, CloseKeeps, Dup2Keeps, ForkKeeps, ExitKeeps
  <2>5. disk' = disk
    BY <2>2 DEF do_close, fd_dup2, do_fork, do_file_exit, vars
  <2> QED
    BY <2>4, <2>5, QuietGuarded
<1> QED
  BY <1>2, <1>4, <1>5, <1>6 DEF Next

\* The invariant gives both properties.
LEMMA InvAlways ==
  ASSUME Programs = {"free"}
  PROVE  Spec => []FInv
<1>1. PInit => FInv
  BY InitEstablishes
<1>2. FInv /\ [Next]_<<vars, pvars>> => FInv'
  <2> SUFFICES ASSUME FInv, [Next]_<<vars, pvars>> PROVE FInv'
    OBVIOUS
  <2>1. CASE UNCHANGED <<vars, pvars>>
    BY <2>1, KeepAll DEF vars, pvars, FInv
  <2> QED
    BY <2>1, StepKeeps
<1> QED
  BY <1>1, <1>2, PTL DEF Spec

\* However processes open, read, write, seek, send, copy and close, the offset of every
\* open file is never past the end of that file, and never further before its start than
\* the longest write is too long for a file (fs.c, flat_read, flat_write; file.c,
\* do_write_regular, do_lseek_regular).
THEOREM OffsetInFileAlways ==
  ASSUME Programs = {"free"}
  PROVE  Spec => []OffsetInFile
<1>1. FInv => OffsetInFile
  BY DEF FInv, Inside, Within, Low, OffsetInFile
<1> QED
  BY <1>1, InvAlways, PTL

\* The bytes of a file change only while an object is open for writing on it, or on a
\* later one and with an offset that lies in it or before it, although all files share
\* one disk and the pages of objects are used again (fs.c, flat_write).
THEOREM OnlyWritersChangeAlways ==
  ASSUME Programs = {"free"}
  PROVE  Spec => OnlyWritersChange
<1>1. FInv /\ [Next]_<<vars, pvars>> =>
        [\A i \in DOMAIN inode : Bytes(i)' # Bytes(i) =>
           \E pg \in Pages : obj[pg].kind = "reg" /\ "W" \in obj[pg].mode /\ Reaches(obj[pg], i)]_<<vars, pvars>>
  <2> SUFFICES ASSUME FInv, Next PROVE Guarded
    BY DEF Guarded
  <2> QED
    BY StepKeeps
<1> QED
  BY <1>1, InvAlways, PTL DEF Spec, OnlyWritersChange

-------------------------------------------------------------------------------
(* Reference counts *)

\* The inductive invariant of the counts, page by page: an object with a count of 0 is
\* gone, so that a new object starts where no descriptor is counted.
Counted(pg) ==
    /\ obj[pg].rc \in Nat /\ (obj[pg].rc = 0 <=> obj[pg].kind = "free")
    /\ obj[pg].rc <= Cardinality(Descriptors(pg))
    /\ ~copied => obj[pg].rc = Cardinality(Descriptors(pg))

CInv == FInv /\ IsFiniteSet(alive) /\ \A pg \in Pages : Counted(pg)

LEMMA FiniteTable ==
  ASSUME NEW A, IsFiniteSet(A), NEW S, S \subseteq A \X Fds
  PROVE  IsFiniteSet(S) /\ Cardinality(S) \in Nat
<1>1. IsFiniteSet(Fds)
  BY FilesAssumption, FS_Interval DEF Fds
<1>2. IsFiniteSet(A \X Fds)
  BY <1>1, FS_Product
<1>3. IsFiniteSet(S)
  BY <1>2, FS_Subset
<1> QED
  BY <1>3, FS_CardinalityType

LEMMA FiniteDescriptors ==
  ASSUME IsFiniteSet(alive), NEW pg
  PROVE  IsFiniteSet(Descriptors(pg)) /\ Cardinality(Descriptors(pg)) \in Nat
<1>1. Descriptors(pg) \subseteq alive \X Fds
  BY DEF Descriptors
<1> QED
  BY <1>1, FiniteTable

\* The count of a page after n closes.
LEMMA UnrefCount ==
  ASSUME CInv, NEW pg \in Pages, NEW n \in Nat
  PROVE  /\ Unref(obj, pg, n)[pg].rc = IF obj[pg].rc <= n THEN 0 ELSE obj[pg].rc - n
         /\ Unref(obj, pg, n)[pg].kind = IF obj[pg].rc <= n THEN "free" ELSE obj[pg].kind
         /\ \A q \in Pages : q # pg => Unref(obj, pg, n)[q] = obj[q]
<1>1. obj \in [Pages -> Objects] /\ obj[pg] \in Objects
  BY DEF CInv, FInv
<1> DEFINE m == [obj[pg] EXCEPT !.rc = @ - n]
           v == IF obj[pg].rc <= n THEN FreeObject ELSE m
<1>2. m.rc = obj[pg].rc - n /\ m.kind = obj[pg].kind
  BY <1>1 DEF Objects
<1>3. FreeObject.rc = 0 /\ FreeObject.kind = "free"
  BY DEF FreeObject
<1>4. Unref(obj, pg, n) = [obj EXCEPT ![pg] = v]
  BY DEF Unref
<1> HIDE DEF m
<1> QED
  BY <1>1, <1>2, <1>3, <1>4

\* A page whose descriptors decrease by n when its object is closed n times.
LEMMA LessCounted ==
  ASSUME CInv, NEW pg \in Pages, NEW n \in Nat, copied' = copied,
         obj'[pg].rc = IF obj[pg].rc <= n THEN 0 ELSE obj[pg].rc - n,
         obj'[pg].kind = IF obj[pg].rc <= n THEN "free" ELSE obj[pg].kind,
         Cardinality(Descriptors(pg))' = Cardinality(Descriptors(pg)) - n,
         Cardinality(Descriptors(pg))' \in Nat
  PROVE  Counted(pg)'
<1> DEFINE a == Cardinality(Descriptors(pg))  b == Cardinality(Descriptors(pg))'
<1>1. Counted(pg)
  BY DEF CInv
<1>2. a \in Nat /\ b \in Nat /\ b = a - n
  BY FiniteDescriptors DEF CInv
<1>3. /\ obj[pg].rc \in Nat /\ (obj[pg].rc = 0 <=> obj[pg].kind = "free")
      /\ obj[pg].rc <= a /\ (~copied => obj[pg].rc = a)
  BY <1>1 DEF Counted
<1> HIDE DEF a, b
<1>4. /\ obj'[pg].rc \in Nat /\ (obj'[pg].rc = 0 <=> obj'[pg].kind = "free")
      /\ obj'[pg].rc <= b /\ (~copied' => obj'[pg].rc = b)
  BY <1>2, <1>3
<1> QED
  BY <1>4 DEF Counted, a, b

\* A page that keeps its descriptors and its object's count.
LEMMA SameCounted ==
  ASSUME CInv, NEW pg \in Pages, copied' = copied, obj'[pg].rc = obj[pg].rc, obj'[pg].kind = obj[pg].kind,
         Descriptors(pg)' = Descriptors(pg)
  PROVE  Counted(pg)'
BY DEF CInv, Counted

\* Changes of nothing that counts.
LEMMA IdleCounted ==
  ASSUME CInv, FInv', UNCHANGED <<alive, files, copied>>,
         \A pg \in Pages : obj'[pg].rc = obj[pg].rc /\ obj'[pg].kind = obj[pg].kind
  PROVE  CInv'
<1>1. ASSUME NEW pg \in Pages PROVE Counted(pg)'
  <2>1. Descriptors(pg)' = Descriptors(pg)
    BY DEF Descriptors
  <2> QED
    BY <2>1, SameCounted
<1> QED
  BY <1>1 DEF CInv

\* One entry of a table changes: the descriptors of each page lose it or gain it.
LEMMA OneEntry ==
  ASSUME CInv, NEW p \in alive, NEW fd \in Fds, NEW v, alive' = alive, files' = [files EXCEPT ![p][fd] = v],
         NEW q \in Pages
  PROVE  Descriptors(q)' = IF q = v THEN Descriptors(q) \cup {<<p, fd>>} ELSE Descriptors(q) \ {<<p, fd>>}
<1>1. files \in [Pids -> [Fds -> Pages \cup {NULL}]] /\ alive \subseteq Pids
  BY DEF CInv, FInv
<1>2. ASSUME NEW x \in alive, NEW f \in Fds
      PROVE  files'[x][f] = q <=> IF <<x, f>> = <<p, fd>> THEN q = v ELSE files[x][f] = q
  <2>1. x \in Pids
    BY <1>1
  <2> QED
    BY <1>1, <2>1
<1>3. ASSUME NEW d \in alive \X Fds
      PROVE  files'[d[1]][d[2]] = q <=> IF d = <<p, fd>> THEN q = v ELSE files[d[1]][d[2]] = q
  <2>1. d[1] \in alive /\ d[2] \in Fds /\ d = <<d[1], d[2]>>
    OBVIOUS
  <2> QED
    BY <1>2, <2>1
<1>4. <<p, fd>> \in alive \X Fds
  OBVIOUS
<1> QED
  BY <1>3, <1>4 DEF Descriptors

\* A page that gains a descriptor and a count.
LEMMA MoreCounted ==
  ASSUME CInv, NEW pg \in Pages, copied' = copied, NEW d, d \notin Descriptors(pg),
         obj'[pg].rc = obj[pg].rc + 1, obj'[pg].kind # "free",
         Descriptors(pg)' = Descriptors(pg) \cup {d}
  PROVE  Counted(pg)'
<1> DEFINE a == Cardinality(Descriptors(pg))  b == Cardinality(Descriptors(pg))'
<1>1. Counted(pg)
  BY DEF CInv
<1>2. IsFiniteSet(Descriptors(pg)) /\ a \in Nat
  BY FiniteDescriptors DEF CInv
<1>3. b = a + 1
  BY <1>2, FS_AddElement
<1>4. /\ obj[pg].rc \in Nat /\ (obj[pg].rc = 0 <=> obj[pg].kind = "free")
      /\ obj[pg].rc <= a /\ (~copied => obj[pg].rc = a)
  BY <1>1 DEF Counted
<1> HIDE DEF a, b
<1>5. /\ obj'[pg].rc \in Nat /\ (obj'[pg].rc = 0 <=> obj'[pg].kind = "free")
      /\ obj'[pg].rc <= b /\ (~copied' => obj'[pg].rc = b)
  BY <1>2, <1>3, <1>4
<1> QED
  BY <1>5 DEF Counted, a, b

LEMMA CloseCounted ==
  ASSUME CInv, FInv', NEW p \in Pids, NEW fd \in Fds, do_close(p, fd)
  PROVE  CInv'
<1>1. CASE IsOpen(p, fd)
  <2>1. PICK pg \in Pages : pg = files[p][fd]
    BY <1>1, OpenPage DEF CInv
  <2>2. /\ obj' = Unref(obj, pg, 1) /\ files' = [files EXCEPT ![p][fd] = NULL]
        /\ alive' = alive /\ copied' = copied /\ p \in alive
    BY <1>1, <2>1 DEF do_close, Running
  <2>3. pg # NULL /\ files \in [Pids -> [Fds -> Pages \cup {NULL}]]
    BY <1>1, <2>1 DEF IsOpen, CInv, FInv
  <2>4. ASSUME NEW q \in Pages PROVE Descriptors(q)' = Descriptors(q) \ {<<p, fd>>}
    <3>1. q # NULL
      BY FilesAssumption DEF NULL
    <3> QED
      BY <2>2, <3>1, OneEntry
  <2>5. <<p, fd>> \in Descriptors(pg)
    BY <2>1, <2>2 DEF Descriptors
  <2>6. Counted(pg)'
    <3>1. IsFiniteSet(Descriptors(pg)) /\ Cardinality(Descriptors(pg)) \in Nat
      BY FiniteDescriptors DEF CInv
    <3>2. /\ Cardinality(Descriptors(pg))' = Cardinality(Descriptors(pg)) - 1
          /\ Cardinality(Descriptors(pg))' \in Nat
      BY <2>1, <2>4, <2>5, <3>1, FS_RemoveElement, FS_CardinalityType
    <3> QED
      BY <2>1, <2>2, <3>2, UnrefCount, LessCounted
  <2>7. ASSUME NEW q \in Pages, q # pg PROVE Counted(q)'
    <3>1. <<p, fd>> \notin Descriptors(q)
      BY <2>1, <2>7 DEF Descriptors
    <3>2. Descriptors(q)' = Descriptors(q)
      BY <2>4, <3>1
    <3> QED
      BY <2>1, <2>2, <2>7, <3>2, UnrefCount, SameCounted
  <2> QED
    BY <2>2, <2>6, <2>7 DEF CInv
<1>2. CASE ~IsOpen(p, fd)
  BY <1>2, IdleCounted DEF do_close, vars
<1> QED
  BY <1>1, <1>2

\* With copied set, what is left is that no count is too high.
LEMMA CopyCounted ==
  ASSUME CInv, NEW pg \in Pages, copied' = TRUE, IsFiniteSet(alive'),
         \/ obj'[pg].rc = obj[pg].rc /\ obj'[pg].kind = obj[pg].kind
         \/ /\ obj'[pg].rc = IF obj[pg].rc <= 1 THEN 0 ELSE obj[pg].rc - 1
            /\ obj'[pg].kind = IF obj[pg].rc <= 1 THEN "free" ELSE obj[pg].kind,
         Descriptors(pg) \subseteq Descriptors(pg)'
  PROVE  Counted(pg)'
<1> DEFINE a == Cardinality(Descriptors(pg))  b == Cardinality(Descriptors(pg))'
<1>1. Counted(pg)
  BY DEF CInv
<1>2. IsFiniteSet(Descriptors(pg))' /\ b \in Nat
  <2>1. Descriptors(pg)' \subseteq alive' \X Fds
    BY DEF Descriptors
  <2> QED
    BY <2>1, FiniteTable
<1>3. a \in Nat /\ a <= b
  BY <1>2, FiniteDescriptors, FS_Subset DEF CInv
<1>4. /\ obj[pg].rc \in Nat /\ (obj[pg].rc = 0 <=> obj[pg].kind = "free") /\ obj[pg].rc <= a
  BY <1>1 DEF Counted
<1> HIDE DEF a, b
<1>5. /\ obj'[pg].rc \in Nat /\ (obj'[pg].rc = 0 <=> obj'[pg].kind = "free") /\ obj'[pg].rc <= b
  BY <1>2, <1>3, <1>4
<1> QED
  BY <1>5 DEF Counted, a, b

LEMMA Dup2Counted ==
  ASSUME CInv, FInv', NEW p \in Pids, NEW old \in Fds, NEW new \in Fds, fd_dup2(p, old, new)
  PROVE  CInv'
<1>1. CASE IsOpen(p, old) /\ old # new
  <2>1. PICK v \in Pages : v = files[p][old]
    BY <1>1, OpenPage DEF CInv
  <2>2. /\ obj' = IF IsOpen(p, new) THEN Unref(obj, files[p][new], 1) ELSE obj
        /\ files' = [files EXCEPT ![p][new] = v]
        /\ alive' = alive /\ copied' = TRUE /\ p \in alive /\ IsFiniteSet(alive')
    BY <1>1, <2>1 DEF fd_dup2, Running, CInv
  <2> DEFINE d == <<p, new>>
  <2>3. ASSUME NEW q \in Pages
        PROVE  Descriptors(q)' = IF q = v THEN Descriptors(q) \cup {d} ELSE Descriptors(q) \ {d}
    BY <2>2, OneEntry
  <2>4. ASSUME NEW q \in Pages PROVE d \in Descriptors(q) <=> files[p][new] = q
    BY <2>2 DEF Descriptors
  <2> HIDE DEF d
  <2>5. ASSUME NEW q \in Pages, q = v \/ files[p][new] # q PROVE Counted(q)'
    <3>1. Descriptors(q) \subseteq Descriptors(q)'
      BY <2>3, <2>4, <2>5
    <3>2. \/ obj'[q].rc = obj[q].rc /\ obj'[q].kind = obj[q].kind
          \/ /\ obj'[q].rc = IF obj[q].rc <= 1 THEN 0 ELSE obj[q].rc - 1
             /\ obj'[q].kind = IF obj[q].rc <= 1 THEN "free" ELSE obj[q].kind
      <4>1. CASE IsOpen(p, new)
        <5>1. files[p][new] \in Pages
          BY <4>1, OpenPage DEF CInv
        <5> QED
          BY <2>2, <4>1, <5>1, UnrefCount
      <4>2. CASE ~IsOpen(p, new)
        BY <2>2, <4>2
      <4> QED
        BY <4>1, <4>2
    <3> QED
      BY <2>2, <3>1, <3>2, CopyCounted
  <2>6. ASSUME NEW q \in Pages, q # v, files[p][new] = q PROVE Counted(q)'
    <3>1. IsOpen(p, new)
      BY <2>6, FilesAssumption DEF IsOpen, NULL
    <3>2. IsFiniteSet(Descriptors(q)) /\ Cardinality(Descriptors(q)) \in Nat
      BY FiniteDescriptors DEF CInv
    <3>3. /\ Cardinality(Descriptors(q))' = Cardinality(Descriptors(q)) - 1
          /\ Cardinality(Descriptors(q))' \in Nat
      BY <2>3, <2>4, <2>6, <3>2, FS_RemoveElement, FS_CardinalityType
    <3> DEFINE a == Cardinality(Descriptors(q))  b == Cardinality(Descriptors(q))'
    <3>4. /\ obj'[q].rc = IF obj[q].rc <= 1 THEN 0 ELSE obj[q].rc - 1
          /\ obj'[q].kind = IF obj[q].rc <= 1 THEN "free" ELSE obj[q].kind
      BY <2>2, <2>6, <3>1, UnrefCount
    <3>5. obj[q].rc \in Nat /\ (obj[q].rc = 0 <=> obj[q].kind = "free") /\ obj[q].rc <= a
      BY DEF CInv, Counted
    <3>6. a \in Nat /\ b \in Nat /\ b = a - 1
      BY <3>2, <3>3
    <3> HIDE DEF a, b
    <3>7. /\ obj'[q].rc \in Nat /\ (obj'[q].rc = 0 <=> obj'[q].kind = "free") /\ obj'[q].rc <= b
      BY <3>4, <3>5, <3>6
    <3> QED
      BY <2>2, <3>7 DEF Counted, b
  <2> QED
    BY <2>2, <2>5, <2>6 DEF CInv
<1>2. CASE ~(IsOpen(p, old) /\ old # new)
  BY <1>2, IdleCounted DEF fd_dup2, vars
<1> QED
  BY <1>1, <1>2

LEMMA ForkCounted ==
  ASSUME CInv, FInv', NEW p \in Pids, NEW c \in Pids, do_fork(p, c)
  PROVE  CInv'
<1>1. /\ alive' = alive \cup {c} /\ files' = [files EXCEPT ![c] = files[p]] /\ c \notin alive
      /\ copied' = TRUE /\ obj' = obj
  BY DEF do_fork
<1>2. IsFiniteSet(alive')
  BY <1>1, FS_AddElement DEF CInv
<1>3. ASSUME NEW pg \in Pages PROVE Descriptors(pg) \subseteq Descriptors(pg)'
  <2>1. ASSUME NEW d \in Descriptors(pg) PROVE d \in Descriptors(pg)'
    <3>1. d \in alive \X Fds /\ files[d[1]][d[2]] = pg /\ d[1] \in alive
      BY DEF Descriptors
    <3>2. files'[d[1]] = files[d[1]]
      BY <1>1, <3>1 DEF CInv, FInv
    <3> QED
      BY <1>1, <3>1, <3>2 DEF Descriptors
  <2> QED
    BY <2>1
<1>4. ASSUME NEW pg \in Pages PROVE Counted(pg)'
  BY <1>1, <1>2, <1>3, CopyCounted
<1> QED
  BY <1>2, <1>4 DEF CInv

LEMMA ExitCounted ==
  ASSUME CInv, FInv', NEW p \in Pids, do_file_exit(p)
  PROVE  CInv'
<1> DEFINE N(pg) == Cardinality({fd \in Fds : files[p][fd] = pg})
<1>1. /\ alive' = alive \ {p} /\ p \in alive /\ copied' = copied
      /\ files' = [files EXCEPT ![p] = [fd \in Fds |-> NULL]]
      /\ obj' = [pg \in Pages |-> IF N(pg) = 0 THEN obj[pg] ELSE Unref(obj, pg, N(pg))[pg]]
  BY DEF do_file_exit, Running
<1>2. IsFiniteSet(alive')
  BY <1>1, FS_RemoveElement DEF CInv
<1>3. ASSUME NEW pg \in Pages PROVE Counted(pg)'
  <2> DEFINE F == {fd \in Fds : files[p][fd] = pg}
  <2>1. IsFiniteSet(F) /\ N(pg) \in Nat
    <3>1. IsFiniteSet(Fds)
      BY FilesAssumption, FS_Interval DEF Fds
    <3>2. IsFiniteSet(F)
      BY <3>1, FS_Subset
    <3> QED
      BY <3>2, FS_CardinalityType
  <2>2. IsFiniteSet(Descriptors(pg))
    BY FiniteDescriptors DEF CInv
  <2>3. Descriptors(pg) \cap ({p} \X F) = {p} \X F
    BY <1>1 DEF Descriptors
  <2>4. Cardinality({p} \X F) = N(pg)
    <3>1. IsFiniteSet({p}) /\ Cardinality({p}) = 1
      BY FS_Singleton
    <3>2. Cardinality({p} \X F) = Cardinality({p}) * Cardinality(F)
      BY <2>1, <3>1, FS_Product
    <3> QED
      BY <2>1, <3>1, <3>2
  <2>5. Descriptors(pg)' = Descriptors(pg) \ ({p} \X F)
    <3>1. ASSUME NEW x \in alive, x # p PROVE files'[x] = files[x]
      BY <1>1, <3>1 DEF CInv, FInv
    <3>2. Descriptors(pg)' = {d \in alive \X Fds : d[1] # p /\ files[d[1]][d[2]] = pg}
      BY <1>1, <3>1 DEF Descriptors
    <3>3. Descriptors(pg) \ ({p} \X F) = {d \in alive \X Fds : d[1] # p /\ files[d[1]][d[2]] = pg}
      BY DEF Descriptors
    <3> QED
      BY <3>2, <3>3
  <2> HIDE DEF N, F
  <2>6. Cardinality(Descriptors(pg))' = Cardinality(Descriptors(pg)) - N(pg)
    <3> DEFINE D == Descriptors(pg)  T == {p} \X F
    <3>1. D \cap T = T /\ Cardinality(T) = N(pg) /\ Descriptors(pg)' = D \ T /\ IsFiniteSet(D)
      BY <2>2, <2>3, <2>4, <2>5
    <3> HIDE DEF T, D
    <3>3. Cardinality(D \ T) = Cardinality(D) - Cardinality(D \cap T)
      BY <3>1, FS_Difference
    <3> QED
      BY <3>1, <3>3 DEF D
  <2>7. Cardinality(Descriptors(pg))' \in Nat
    <3>1. Descriptors(pg)' \subseteq alive' \X Fds
      BY DEF Descriptors
    <3> QED
      BY <1>2, <3>1, FiniteTable
  <2>8. PICK n \in Nat : n = N(pg)
    BY <2>1
  <2>9. obj'[pg] = IF n = 0 THEN obj[pg] ELSE Unref(obj, pg, n)[pg]
    BY <1>1, <2>8 DEF N
  <2>10. /\ obj'[pg].rc = IF obj[pg].rc <= n THEN 0 ELSE obj[pg].rc - n
         /\ obj'[pg].kind = IF obj[pg].rc <= n THEN "free" ELSE obj[pg].kind
    <3>1. CASE n = 0
      <4>1. obj[pg].rc \in Nat /\ (obj[pg].rc = 0 <=> obj[pg].kind = "free")
        BY DEF CInv, Counted
      <4> QED
        BY <2>9, <3>1, <4>1
    <3>2. CASE n # 0
      BY <2>9, <3>2, UnrefCount
    <3> QED
      BY <3>1, <3>2
  <2> QED
    BY <1>1, <2>6, <2>7, <2>8, <2>10, LessCounted
<1> QED
  BY <1>2, <1>3 DEF CInv

\* A step that puts v, whose count grows by one or starts at one, in an empty place.
LEMMA EntryCounted ==
  ASSUME CInv, FInv', NEW p \in alive, NEW fd \in Fds, ~IsOpen(p, fd), NEW v \in Pages,
         UNCHANGED <<alive, copied>>, files' = [files EXCEPT ![p][fd] = v],
         obj'[v].rc = obj[v].rc + 1, obj'[v].kind # "free", \A q \in Pages : q # v => obj'[q] = obj[q]
  PROVE  CInv'
<1>1. ASSUME NEW q \in Pages PROVE <<p, fd>> \notin Descriptors(q)
  BY FilesAssumption DEF Descriptors, IsOpen, NULL
<1>2. Counted(v)'
  <2>1. Descriptors(v)' = Descriptors(v) \cup {<<p, fd>>}
    BY OneEntry
  <2> QED
    BY <1>1, <2>1, MoreCounted
<1>3. ASSUME NEW q \in Pages, q # v PROVE Counted(q)'
  <2>1. Descriptors(q)' = Descriptors(q) \ {<<p, fd>>}
    BY <1>3, OneEntry, ZenonT(60)
  <2>2. Descriptors(q)' = Descriptors(q)
    BY <1>1, <2>1
  <2> QED
    BY <1>3, <2>2, SameCounted
<1> QED
  BY <1>2, <1>3 DEF CInv

\* The count of an object in a new page.
LEMMA NewObjectCounted ==
  ASSUME CInv, FInv', NEW p \in alive, NEW fd \in Fds, ~IsOpen(p, fd), FreePages # {}, NEW o,
         o.rc = 1, o.kind # "free", obj' = [obj EXCEPT ![NewPage] = o],
         UNCHANGED <<alive, copied>>, files' = [files EXCEPT ![p][fd] = NewPage]
  PROVE  CInv'
<1>1. PICK v \in Pages : v = NewPage
  BY NewPageFree DEF CInv
<1>2. obj[v].rc = 0
  BY <1>1, NewPageFree DEF CInv, Counted
<1>3. obj' = [obj EXCEPT ![v] = o] /\ obj \in [Pages -> Objects]
  BY <1>1 DEF CInv, FInv
<1>4. obj'[v] = o /\ \A q \in Pages : q # v => obj'[q] = obj[q]
  BY <1>3
<1>5. obj'[v].rc = obj[v].rc + 1 /\ obj'[v].kind # "free"
  BY <1>2, <1>4
<1>6. files' = [files EXCEPT ![p][fd] = v]
  BY <1>1
<1> QED
  BY <1>4, <1>5, <1>6, EntryCounted, ZenonT(60)

LEMMA OpenCounted ==
  ASSUME CInv, FInv', NEW p \in alive, NEW name, NEW mode, NEW creat, do_file_open(p, name, mode, creat)
  PROVE  CInv'
<1>0. p \in Pids
  BY DEF CInv, FInv
<1>1. CASE (\E why : Stop(why)) \/ UNCHANGED vars
  BY <1>1, IdleCounted, StopUncounted DEF Uncounted
<1>2. ASSUME NEW fd \in 0 .. 2, open_standard_IO(p, fd) PROVE CInv'
  <2>0. fd \in Fds
    BY FilesAssumption DEF Fds
  <2>1. CASE /\ IsOpen(p, fd) /\ FreeFds(p) # {} /\ ~Lost(p, fd)
             /\ obj'   = [obj EXCEPT ![files[p][fd]].rc = @ + 1]
             /\ files' = [files EXCEPT ![p][StdResult(p, fd)] = files[p][fd]]
             /\ UNCHANGED <<alive, inode, disk, kernel, copied>>
    <3>1. PICK v \in Pages : v = files[p][fd]
      BY <1>0, <2>0, <2>1, OpenPage DEF CInv
    <3>2. obj \in [Pages -> Objects] /\ obj[v] \in Objects /\ obj[v].kind # "free"
      BY <2>1, <3>1 DEF CInv, FInv, Lost, Object
    <3> DEFINE m == [obj[v] EXCEPT !.rc = @ + 1]
    <3>3. m.rc = obj[v].rc + 1 /\ m.kind # "free"
      BY <3>2 DEF Objects
    <3>4. obj' = [obj EXCEPT ![v] = m]
      BY <2>1, <3>1
    <3> HIDE DEF m
    <3>5. obj'[v] = m /\ \A q \in Pages : q # v => obj'[q] = obj[q]
      BY <3>2, <3>4
    <3>6. PICK f \in Fds : f = StdResult(p, fd) /\ ~IsOpen(p, f)
      BY <2>1, NewFd DEF StdResult
    <3>7. files' = [files EXCEPT ![p][f] = v]
      BY <2>1, <3>1, <3>6
    <3>8. obj'[v].rc = obj[v].rc + 1 /\ obj'[v].kind # "free" /\ UNCHANGED <<alive, copied>>
      BY <2>1, <3>3, <3>5
    <3> QED
      BY <3>5, <3>6, <3>7, <3>8, EntryCounted
  <2>2. CASE /\ ~IsOpen(p, fd) /\ FreePages # {}
             /\ obj'   = [obj EXCEPT ![NewPage] = StandardObject(fd)]
             /\ files' = [files EXCEPT ![p][fd] = NewPage]
             /\ UNCHANGED <<alive, inode, disk, kernel, copied>>
    <3>1. StandardObject(fd).rc = 1 /\ StandardObject(fd).kind # "free"
      BY DEF StandardObject
    <3> QED
      BY <2>0, <2>2, <3>1, NewObjectCounted
  <2> QED
    BY <1>1, <1>2, <2>1, <2>2 DEF open_standard_IO
<1>3. ASSUME do_regular_file_open(p, name, mode, creat) PROVE CInv'
  <2> DEFINE found == lookup_inode(name)
             i == IF found # {} THEN Least(found) ELSE get_free_inode
  <2>1. CASE /\ FreeFds(p) # {} /\ FreePages # {}
             /\ obj'   = [obj EXCEPT ![NewPage] = RegularObject(i, mode)]
             /\ files' = [files EXCEPT ![p][Least(FreeFds(p))] = NewPage]
             /\ UNCHANGED <<alive, disk, kernel, copied>>
    <3>1. RegularObject(i, mode).rc = 1 /\ RegularObject(i, mode).kind # "free"
      BY DEF RegularObject
    <3>2. PICK f \in Fds : f = Least(FreeFds(p)) /\ ~IsOpen(p, f)
      BY <2>1, NewFd
    <3> HIDE DEF i
    <3>3. files' = [files EXCEPT ![p][f] = NewPage]
      BY <2>1, <3>2
    <3> QED
      BY <2>1, <3>1, <3>2, <3>3, NewObjectCounted
  <2> QED
    BY <1>1, <1>3, <2>1 DEF do_regular_file_open
<1>4. CASE name \in DOMAIN Standard
  <2>1. Standard[name] \in 0 .. 2
    BY <1>4 DEF Standard
  <2> QED
    BY <1>2, <1>4, <2>1 DEF do_file_open
<1> QED
  BY <1>3, <1>4 DEF do_file_open

\* At first the three standard objects have one descriptor each.
LEMMA InitCounted ==
  ASSUME Programs = {"free"}, PInit
  PROVE  CInv
<1>1. FInv
  BY InitEstablishes
<1>2. IsFiniteSet(alive) /\ alive = {Init0} /\ Init0 \in Pids
  BY FilesAssumption, FS_Singleton DEF PInit, Init
<1>3. files[Init0] = [fd \in Fds |-> IF fd < 3 THEN fd + 1 ELSE NULL]
  BY <1>2 DEF PInit, Init
<1>4. obj = [pg \in Pages |-> IF pg \in 1 .. 3 THEN StandardObject(pg - 1) ELSE FreeObject] /\ ~copied
  BY DEF PInit, Init
<1>5. ASSUME NEW pg \in Pages, pg \in 1 .. 3 PROVE Counted(pg)
  <2>1. ASSUME NEW f \in Fds PROVE files[Init0][f] = pg <=> f = pg - 1
    BY <1>3, <1>5, FilesAssumption DEF Fds, NULL
  <2>2. pg - 1 \in Fds
    BY <1>5, FilesAssumption DEF Fds
  <2>3. Descriptors(pg) = {<<Init0, pg - 1>>}
    <3>1. ASSUME NEW d \in alive \X Fds PROVE files[d[1]][d[2]] = pg <=> d = <<Init0, pg - 1>>
      <4>1. d[1] = Init0 /\ d[2] \in Fds /\ d = <<d[1], d[2]>>
        BY <1>2
      <4> QED
        BY <2>1, <4>1
    <3>2. <<Init0, pg - 1>> \in alive \X Fds
      BY <1>2, <2>2
    <3> QED
      BY <3>1, <3>2 DEF Descriptors
  <2>4. Cardinality(Descriptors(pg)) = 1
    BY <2>3, FS_Singleton
  <2>5. obj[pg].rc = 1 /\ obj[pg].kind = "std"
    BY <1>4, <1>5 DEF StandardObject
  <2> QED
    BY <2>4, <2>5 DEF Counted
<1>6. ASSUME NEW pg \in Pages, pg \notin 1 .. 3 PROVE Counted(pg)
  <2>1. ASSUME NEW f \in Fds PROVE files[Init0][f] # pg
    BY <1>3, <1>6, FilesAssumption DEF Fds, NULL
  <2>2. Descriptors(pg) = {}
    <3>1. ASSUME NEW d \in alive \X Fds PROVE files[d[1]][d[2]] # pg
      BY <1>2, <2>1
    <3> QED
      BY <3>1 DEF Descriptors
  <2>3. Cardinality(Descriptors(pg)) = 0
    BY <2>2, FS_EmptySet
  <2>4. obj[pg].rc = 0 /\ obj[pg].kind = "free"
    BY <1>4, <1>6 DEF FreeObject
  <2> QED
    BY <2>3, <2>4 DEF Counted
<1> QED
  BY <1>1, <1>2, <1>5, <1>6 DEF CInv

LEMMA StepCounted ==
  ASSUME CInv, FInv', Next
  PROVE  CInv'
<1>1. ~TestStep
  <2>1. prog = "free"
    BY DEF CInv, FInv
  <2>2. DOMAIN Code = {"common_ops", "open_read_write", "dup2_lseek", "sendfile"}
    BY DEF Code
  <2> QED
    BY <2>1, <2>2 DEF TestStep, Here, IsTest, Tests
<1>2. alive \subseteq Pids /\ FInv /\ prog' = "free"
  BY DEF CInv, FInv
<1>3. CASE FreeOpen
  BY <1>3, OpenCounted DEF FreeOpen
<1>4. CASE FreeAccess
  <2>1. PICK p \in alive, fd \in Fds :
          \/ /\ IsOpen(p, fd) => IsRegular(p, fd)
             /\ \/ do_file_read(p, fd, Count)
                \/ \E data \in Texts : do_file_write(p, fd, data)
                \/ \E x \in Offsets, whence \in {"SET", "CUR", "END"} : do_lseek(p, fd, x, whence)
          \/ \E in \in Fds : /\ IsRegular(p, in) /\ IsRegular(p, fd)
                             /\ \E offset \in {-1, 0} : do_sendfile(p, fd, in, offset, Count)
    BY <1>4 DEF FreeAccess
  <2>2. p \in Pids /\ Count \in Nat
    BY <1>2 DEF Count, Text
  <2>3. ASSUME do_file_read(p, fd, Count) PROVE Uncounted
    BY <1>2, <2>2, <2>3, ReadKeeps
  <2>4. ASSUME NEW data \in Texts, do_file_write(p, fd, data)
        PROVE  Uncounted
    BY <1>2, <2>2, <2>4, WriteCallKeeps
  <2>5. ASSUME NEW x \in Offsets, NEW whence \in {"SET", "CUR", "END"}, do_lseek(p, fd, x, whence),
               IsOpen(p, fd) => IsRegular(p, fd)
        PROVE  Uncounted
    <3>1. x \in Int
      BY ProgramsAssumption
    <3> QED
      BY <1>2, <2>2, <2>5, <3>1, SeekKeeps
  <2>6. ASSUME NEW in \in Fds, IsRegular(p, in), IsRegular(p, fd),
               NEW offset \in {-1, 0}, do_sendfile(p, fd, in, offset, Count)
        PROVE  Uncounted
    <3>1. offset \in Int
      OBVIOUS
    <3> QED
      BY <1>2, <2>2, <2>6, <3>1, SendKeeps
  <2>7. Uncounted
    BY <2>1, <2>3, <2>4, <2>5, <2>6
  <2> QED
    BY <2>7, IdleCounted DEF Uncounted
<1>5. CASE FreeDescriptor
  <2>1. PICK p \in alive :
          \/ \E fd \in Fds : do_close(p, fd)
          \/ \E old \in Fds, new \in Fds : old # new /\ fd_dup2(p, old, new)
          \/ \E c \in Pids : do_fork(p, c)
          \/ do_file_exit(p)
    BY <1>5 DEF FreeDescriptor
  <2>2. p \in Pids
    BY <1>2
  <2> QED
    BY <2>1, <2>2, CloseCounted, Dup2Counted, ForkCounted, ExitCounted
<1> QED
  BY <1>1, <1>3, <1>4, <1>5 DEF Next

\* No count is higher than the number of descriptors that lead to the object, and while
\* nothing was copied it is that number, for any processes, tables and pages
\* (file.c, do_file_close, open_standard_IO, do_file_exit).
THEOREM RefsCountedAlways ==
  ASSUME Programs = {"free"}
  PROVE  Spec => []RefsCounted
<1>1. PInit => CInv
  BY InitCounted
<1>2. CInv /\ [Next]_<<vars, pvars>> => CInv'
  <2> SUFFICES ASSUME CInv, [Next]_<<vars, pvars>> PROVE CInv'
    OBVIOUS
  <2>1. CASE UNCHANGED <<vars, pvars>>
    <3>1. FInv' /\ UNCHANGED vars
      BY <2>1, KeepAll DEF vars, pvars, CInv, FInv
    <3> QED
      BY <3>1, IdleCounted DEF vars
  <2>2. CASE Next
    <3>1. FInv'
      BY <2>2, StepKeeps DEF CInv
    <3> QED
      BY <2>2, <3>1, StepCounted
  <2> QED
    BY <2>1, <2>2
<1>3. CInv => RefsCounted
  BY DEF CInv, Counted, RefsCounted
<1> QED
  BY <1>1, <1>2, <1>3, PTL DEF Spec

-------------------------------------------------------------------------------
(* Types *)

\* What TypeOK says beyond the invariants above: exited processes hold no descriptor,
\* valid inodes have different names, and the kernel is in a known state.
Closed == \A p \in Pids, fd \in Fds : p \notin alive => ~IsOpen(p, fd)
Named  == \A i, j \in DOMAIN inode :
             inode[i].valid /\ inode[j].valid /\ inode[i].name = inode[j].name => i = j
States == {"ok", "freedObject", "noInode", "noDescriptor", "noPage", "beforeStore"}
TInv == CInv /\ Closed /\ Named /\ kernel \in States

\* A call that changes no table, no name and no process.
LEMMA SameTyped ==
  ASSUME TInv, UNCHANGED <<alive, files>>, DOMAIN inode' = DOMAIN inode,
         \A i \in DOMAIN inode : inode'[i].valid = inode[i].valid /\ inode'[i].name = inode[i].name,
         kernel' \in States
  PROVE  Closed' /\ Named' /\ kernel' \in States
BY DEF TInv, Closed, Named, IsOpen

LEMMA StopTyped ==
  ASSUME TInv, NEW why \in States, Stop(why) \/ UNCHANGED vars
  PROVE  Closed' /\ Named' /\ kernel' \in States
BY SameTyped DEF Stop, vars, TInv

\* A process that lives changes its own table only.
LEMMA OwnTable ==
  ASSUME TInv, NEW p \in alive, alive' = alive,
         \/ files' = files
         \/ \E fd \in Fds, v \in Pages \cup {NULL} : files' = [files EXCEPT ![p][fd] = v]
  PROVE  Closed'
<1>1. files \in [Pids -> [Fds -> Pages \cup {NULL}]]
  BY DEF TInv, CInv, FInv
<1>2. ASSUME NEW q \in Pids, q # p PROVE files'[q] = files[q]
  BY <1>1, <1>2
<1> QED
  BY <1>2 DEF TInv, Closed, IsOpen

LEMMA DescriptorTyped ==
  ASSUME TInv, NEW p \in alive,
         \/ \E fd \in Fds : do_close(p, fd)
         \/ \E old \in Fds, new \in Fds : old # new /\ fd_dup2(p, old, new)
         \/ \E c \in Pids : do_fork(p, c)
         \/ do_file_exit(p)
  PROVE  Closed' /\ Named' /\ kernel' \in States
<1>0. p \in Pids /\ files \in [Pids -> [Fds -> Pages \cup {NULL}]] /\ FInv
  BY DEF TInv, CInv, FInv
<1>1. inode' = inode /\ kernel' = kernel
  BY DEF do_close, fd_dup2, do_fork, do_file_exit, vars
<1>2. Named' /\ kernel' \in States
  BY <1>1 DEF TInv, Named
<1>3. ASSUME NEW fd \in Fds, do_close(p, fd) PROVE Closed'
  <2>1. /\ alive' = alive
        /\ files' = files \/ files' = [files EXCEPT ![p][fd] = NULL]
    BY <1>3 DEF do_close, vars
  <2> QED
    BY <2>1, OwnTable
<1>4. ASSUME NEW old \in Fds, NEW new \in Fds, fd_dup2(p, old, new) PROVE Closed'
  <2>1. /\ alive' = alive
        /\ files' = files \/ files' = [files EXCEPT ![p][new] = files[p][old]]
    BY <1>4 DEF fd_dup2, vars
  <2>2. files[p][old] \in Pages \cup {NULL}
    BY <1>0
  <2> QED
    BY <2>1, <2>2, OwnTable
<1>5. ASSUME NEW c \in Pids, do_fork(p, c) PROVE Closed'
  <2>1. alive' = alive \cup {c} /\ files' = [files EXCEPT ![c] = files[p]]
    BY <1>5 DEF do_fork
  <2>2. ASSUME NEW q \in Pids, q # c PROVE files'[q] = files[q]
    BY <1>0, <2>1, <2>2
  <2> QED
    BY <2>1, <2>2 DEF TInv, Closed, IsOpen
<1>6. ASSUME do_file_exit(p) PROVE Closed'
  <2>1. alive' = alive \ {p} /\ files' = [files EXCEPT ![p] = [fd \in Fds |-> NULL]]
    BY <1>6 DEF do_file_exit
  <2>2. ASSUME NEW q \in Pids, q # p PROVE files'[q] = files[q]
    BY <1>0, <2>1, <2>2
  <2>3. ASSUME NEW fd \in Fds PROVE files'[p][fd] = NULL
    BY <1>0, <2>1
  <2> QED
    BY <2>1, <2>2, <2>3 DEF TInv, Closed, IsOpen
<1> QED
  BY <1>2, <1>3, <1>4, <1>5, <1>6

LEMMA OpenTyped ==
  ASSUME TInv, NEW p \in alive, NEW name \in FreeNames, NEW mode, NEW creat, do_file_open(p, name, mode, creat)
  PROVE  Closed' /\ Named' /\ kernel' \in States
<1>0. p \in Pids /\ files \in [Pids -> [Fds -> Pages \cup {NULL}]] /\ FInv /\ kernel \in States
  BY DEF TInv, CInv, FInv
<1>1. CASE \E why \in States : Stop(why) \/ UNCHANGED vars
  BY <1>1, StopTyped
<1>2. ASSUME NEW fd \in 0 .. 2, open_standard_IO(p, fd) PROVE Closed' /\ Named' /\ kernel' \in States
  <2>0. fd \in Fds
    BY FilesAssumption DEF Fds
  <2>1. CASE /\ FreeFds(p) # {} /\ IsOpen(p, fd)
             /\ files' = [files EXCEPT ![p][StdResult(p, fd)] = files[p][fd]]
             /\ UNCHANGED <<alive, inode, disk, kernel, copied>>
    <3>1. StdResult(p, fd) \in Fds /\ files[p][fd] \in Pages \cup {NULL}
      BY <1>0, <2>0, <2>1, NewFd DEF StdResult
    <3>2. Closed'
      BY <2>1, <3>1, OwnTable
    <3> QED
      BY <1>0, <2>1, <3>2 DEF TInv, Named
  <2>2. CASE /\ FreePages # {}
             /\ files' = [files EXCEPT ![p][fd] = NewPage]
             /\ UNCHANGED <<alive, inode, disk, kernel, copied>>
    <3>1. NewPage \in Pages \cup {NULL}
      BY <1>0, <2>2, NewPageFree
    <3>2. Closed'
      BY <2>0, <2>2, <3>1, OwnTable
    <3> QED
      BY <1>0, <2>2, <3>2 DEF TInv, Named
  <2> QED
    BY <1>1, <1>2, <2>1, <2>2 DEF open_standard_IO, States
<1>3. ASSUME do_regular_file_open(p, name, mode, creat) PROVE Closed' /\ Named' /\ kernel' \in States
  <2> DEFINE found == lookup_inode(name)
             i == IF found # {} THEN Least(found) ELSE get_free_inode
             n == [valid |-> TRUE, name |-> name, size |-> 0]
  <2>1. CASE /\ FreeFds(p) # {} /\ FreePages # {}
             /\ inode' = IF found # {} \/ i = NULL THEN inode ELSE [inode EXCEPT ![i] = n]
             /\ files' = [files EXCEPT ![p][Least(FreeFds(p))] = NewPage]
             /\ UNCHANGED <<alive, disk, kernel, copied>>
    <3>1. Closed'
      <4>1. Least(FreeFds(p)) \in Fds /\ NewPage \in Pages \cup {NULL}
        BY <1>0, <2>1, NewFd, NewPageFree
      <4> QED
        BY <2>1, <4>1, OwnTable
    <3>2. Named'
      <4>1. CASE inode' = inode
        BY <4>1 DEF TInv, Named
      <4>2. CASE found = {} /\ i # NULL
        <5>1. i \in DOMAIN inode /\ inode' = [inode EXCEPT ![i] = n]
          BY <1>0, <2>1, <4>2, NewInode DEF FInv
        <5>2. ASSUME NEW j \in DOMAIN inode PROVE ~(inode[j].valid /\ inode[j].name = name)
          BY <4>2, <5>2 DEF lookup_inode
        <5>3. n.name = name
          OBVIOUS
        <5> HIDE DEF i, n
        <5> QED
          BY <5>1, <5>2, <5>3 DEF TInv, Named
      <4> QED
        BY <2>1, <4>1, <4>2
    <3> QED
      BY <1>0, <2>1, <3>1, <3>2
  <2> QED
    BY <1>0, <1>1, <1>3, <2>1 DEF do_regular_file_open, States
<1>4. CASE name \in DOMAIN Standard
  <2>1. Standard[name] \in 0 .. 2
    BY <1>4 DEF Standard
  <2> QED
    BY <1>2, <1>4, <2>1 DEF do_file_open
<1> QED
  BY <1>3, <1>4 DEF do_file_open

LEMMA TroubleStates ==
  ASSUME NEW p, NEW fd, NEW need
  PROVE  Trouble(p, fd, need) \in States
BY DEF Trouble, States

\* A write changes no inode but in size.
LEMMA WriteTyped ==
  ASSUME TInv, NEW o, NEW pg, NEW data, do_write_regular(o, pg, data), UNCHANGED <<alive, files, kernel>>
  PROVE  Closed' /\ Named' /\ kernel' \in States
<1>1. inode \in [1 .. NumFiles -> Inodes]
  BY DEF TInv, CInv, FInv
<1>2. inode' = inode \/ \E i, x : inode' = [inode EXCEPT ![i].size = x]
  BY DEF do_write_regular, flat_write
<1>3. DOMAIN inode' = DOMAIN inode
  BY <1>1, <1>2
<1>4. ASSUME NEW j \in DOMAIN inode PROVE inode'[j].valid = inode[j].valid /\ inode'[j].name = inode[j].name
  <2>1. inode[j] \in Inodes
    BY <1>1
  <2>2. ASSUME NEW x PROVE LET n == [inode[j] EXCEPT !.size = x]
                           IN n.valid = inode[j].valid /\ n.name = inode[j].name
    BY <2>1 DEF Inodes
  <2>3. CASE inode' = inode
    BY <2>3
  <2>4. ASSUME NEW i, NEW x, inode' = [inode EXCEPT ![i].size = x]
        PROVE  inode'[j].valid = inode[j].valid /\ inode'[j].name = inode[j].name
    <3>1. inode'[j] = IF i = j THEN [inode[j] EXCEPT !.size = x] ELSE inode[j]
      BY <1>1, <2>4
    <3> QED
      BY <2>2, <3>1
  <2> QED
    BY <1>2, <2>3, <2>4
<1> QED
  BY <1>3, <1>4, SameTyped DEF TInv

LEMMA AccessTyped ==
  ASSUME TInv, NEW p \in alive, NEW fd \in Fds,
         \/ do_file_read(p, fd, Count)
         \/ \E data \in Texts : do_file_write(p, fd, data)
         \/ \E x \in Offsets, whence \in {"SET", "CUR", "END"} : do_lseek(p, fd, x, whence)
         \/ \E in \in Fds, offset \in {-1, 0} : do_sendfile(p, fd, in, offset, Count)
  PROVE  Closed' /\ Named' /\ kernel' \in States
<1>0. kernel \in States /\ {"ok", "noPage", "beforeStore"} \subseteq States
  BY DEF TInv, States
<1>1. ASSUME UNCHANGED <<alive, files, inode, kernel>> PROVE Closed' /\ Named' /\ kernel' \in States
  BY <1>0, <1>1, SameTyped
<1>2. ASSUME do_file_read(p, fd, Count) PROVE Closed' /\ Named' /\ kernel' \in States
  BY <1>0, <1>1, <1>2, TroubleStates, StopTyped DEF do_file_read, vars
<1>3. ASSUME NEW data \in Texts, do_file_write(p, fd, data) PROVE Closed' /\ Named' /\ kernel' \in States
  BY <1>0, <1>1, <1>3, TroubleStates, StopTyped, WriteTyped DEF do_file_write, vars
<1>4. ASSUME NEW x \in Offsets, NEW whence \in {"SET", "CUR", "END"}, do_lseek(p, fd, x, whence)
      PROVE  Closed' /\ Named' /\ kernel' \in States
  BY <1>1, <1>4, TroubleStates, StopTyped DEF do_lseek, vars
<1>5. ASSUME NEW in \in Fds, NEW offset \in {-1, 0}, do_sendfile(p, fd, in, offset, Count)
      PROVE  Closed' /\ Named' /\ kernel' \in States
  BY <1>0, <1>1, <1>5, TroubleStates, StopTyped, WriteTyped DEF do_sendfile, vars
<1> QED
  BY <1>2, <1>3, <1>4, <1>5

\* Whatever the free program calls, tables, objects and inodes keep their types, no file
\* outgrows its room, no two files have one name, and exited processes hold nothing.
THEOREM TypesAlways ==
  ASSUME Programs = {"free"}
  PROVE  Spec => []TypeOK
<1>1. PInit => TInv
  <2> SUFFICES ASSUME PInit PROVE TInv
    OBVIOUS
  <2>1. CInv /\ FInv
    BY InitCounted DEF CInv
  <2>2. Closed
    BY FilesAssumption DEF PInit, Init, Closed, IsOpen
  <2>3. Named /\ kernel \in States
    BY DEF PInit, Init, Named, States
  <2> QED
    BY <2>1, <2>2, <2>3 DEF TInv
<1>2. TInv /\ [Next]_<<vars, pvars>> => TInv'
  <2> SUFFICES ASSUME TInv, [Next]_<<vars, pvars>> PROVE TInv'
    OBVIOUS
  <2>1. CASE UNCHANGED <<vars, pvars>>
    <3>1. FInv' /\ UNCHANGED vars
      BY <2>1, KeepAll DEF vars, pvars, TInv, CInv, FInv
    <3>2. CInv'
      BY <3>1, IdleCounted DEF vars, TInv
    <3>3. "ok" \in States
      BY DEF States
    <3> QED
      BY <3>1, <3>2, <3>3, StopTyped DEF TInv
  <2>2. CASE Next
    <3>1. FInv'
      BY <2>2, StepKeeps DEF TInv, CInv
    <3>2. CInv'
      BY <2>2, <3>1, StepCounted DEF TInv
    <3>3. ~TestStep
      <4>1. prog = "free"
        BY DEF TInv, CInv, FInv
      <4>2. DOMAIN Code = {"common_ops", "open_read_write", "dup2_lseek", "sendfile"}
        BY DEF Code
      <4> QED
        BY <4>1, <4>2 DEF TestStep, Here, IsTest, Tests
    <3>4. CASE FreeOpen
      BY <3>2, <3>4, OpenTyped DEF FreeOpen, TInv
    <3>5. CASE FreeAccess
      BY <3>2, <3>5, AccessTyped DEF FreeAccess, TInv
    <3>6. CASE FreeDescriptor
      BY <3>2, <3>6, DescriptorTyped DEF FreeDescriptor, TInv
    <3> QED
      BY <2>2, <3>3, <3>4, <3>5, <3>6 DEF Next
  <2> QED
    BY <2>1, <2>2
<1>3. TInv => TypeOK
  <2> SUFFICES ASSUME TInv PROVE TypeOK
    OBVIOUS
  <2>1. /\ alive \subseteq Pids /\ files \in [Pids -> [Fds -> Pages \cup {NULL}]]
        /\ obj \in [Pages -> Objects] /\ inode \in [1 .. NumFiles -> Inodes]
    BY DEF TInv, CInv, FInv
  <2>2. ASSUME NEW p \in Pids, NEW fd \in Fds
        PROVE  files[p][fd] \in Pages \cup {NULL} /\ (p \notin alive => ~IsOpen(p, fd))
    BY <2>1 DEF TInv, Closed
  <2>3. ASSUME NEW pg \in Pages
        PROVE  /\ obj[pg].kind \in {"free", "std", "reg"} /\ obj[pg].ino \in {NULL} \cup DOMAIN inode
               /\ obj[pg].rc \in Nat /\ (obj[pg].rc = 0 <=> obj[pg].kind = "free")
    <3>1. obj[pg] \in Objects
      BY <2>1
    <3>2. obj[pg].kind \in {"free", "std", "reg"} /\ obj[pg].ino \in 0 .. NumFiles
      BY <3>1 DEF Objects
    <3>3. obj[pg].ino \in {NULL} \cup DOMAIN inode
      BY <2>1, <3>2, FilesAssumption DEF NULL
    <3> QED
      BY <3>2, <3>3 DEF TInv, CInv, Counted
  <2>4. ASSUME NEW i \in DOMAIN inode PROVE inode[i].size \in 0 .. FileSize
    BY <2>1 DEF Inodes
  <2>5. Named /\ kernel \in States
    BY DEF TInv
  <2> QED
    BY <2>1, <2>2, <2>3, <2>4, <2>5 DEF TypeOK, Named, States
<1> QED
  BY <1>1, <1>2, <1>3, PTL DEF Spec
==============================================================================
