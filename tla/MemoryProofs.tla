---------------------------- MODULE MemoryProofs ----------------------------
EXTENDS MCMemory, DataFacts

-------------------------------------------------------------------------------
(* The inductive invariant of the programs other than the tests *)

\* The area lies after the dummy and consists of whole pages of its type.
UnitOf(a) == IF a.type = "huge" THEN HugeSize ELSE PageSize

AreaSet ==
    {a \in [start : Nat, end : Nat, prot : Prots, type : {"normal", "huge"}] :
        /\ Dummy.end <= a.start /\ a.start < a.end
        /\ a.start % UnitOf(a) = 0 /\ a.end % UnitOf(a) = 0}

Before(a, b) == a.end <= b.start /\ ~Mergeable(a, b)

ListOK(list) ==
    /\ list \in Seq(AreaSet)
    /\ \A i, j \in DOMAIN list : i < j => Before(list[i], list[j])

Elems(list) == {list[i] : i \in DOMAIN list}

\* Some area of type t holds y.
In(list, y, t) == \E a \in Elems(list) : Holds(a, y) /\ a.type = t

HugeAt(pm, h)  == h \in DOMAIN pm /\ pm[h].kind = "huge"
TableAt(pm, h) == h \in DOMAIN pm /\ pm[h].kind = "table"

\* The tables agree with the list: a huge-page range has a huge page exactly if it is
\* in a huge area, and a small page is present only inside a small-page area, through
\* a table.  A page has memory only through one of the two.  The lists and tables are
\* parameters, so that the lemmas apply to a state and to the next one.
TablesOK(list, pm, pt, m) ==
    /\ DOMAIN pm \subseteq Nat
    /\ \A h \in DOMAIN pm : pm[h] \in [kind : {"table", "huge"}, w : BOOLEAN]
    /\ \A h \in Nat : HugeAt(pm, h) <=> In(list, h * HugeSize, "huge")
    /\ DOMAIN pt \subseteq DOMAIN m /\ DOMAIN m \subseteq Nat
    /\ \A p \in DOMAIN m : p \in DOMAIN pt \/ HugeAt(pm, RangeOf(p * PageSize))
    /\ \A p \in DOMAIN pt :
          TableAt(pm, RangeOf(p * PageSize)) /\ In(list, p * PageSize, "normal")
    /\ \A p \in DOMAIN m : m[p] \in Values \cup {Junk}

StateOK ==
    /\ hasDummy \in BOOLEAN /\ alive \in BOOLEAN /\ lost \in Nat
    /\ kernel \in {"ok", "strayFree"}
    /\ pud \in {"absent", "ro", "rw"}

\* All of the stack from next up is present and writable.
StackSound(sp, next) ==
    /\ next \in Nat /\ next % PageSize = 0 /\ StackSeg.start <= next
    /\ \A p \in PageOf(next) .. PageOf(StackSeg.next) - 1 : p \in DOMAIN sp /\ sp[p]

MemInv == ListOK(areas) /\ TablesOK(areas, pmd, pte, mem) /\ StateOK
          /\ StackSound(segPte, stackNext)

IInv == ~IsTest => MemInv

-------------------------------------------------------------------------------
(* Pages and huge-page ranges: multiples of a unit u *)

LEMMA DivMod ==
  ASSUME NEW n \in Int, NEW u \in Nat \ {0}
  PROVE  /\ n \div u \in Int /\ n % u \in 0 .. u - 1
         /\ n = u * (n \div u) + (n % u)
OBVIOUS

LEMMA DivNat ==
  ASSUME NEW n \in Nat, NEW u \in Nat \ {0}
  PROVE  n \div u \in Nat
OBVIOUS

LEMMA Times ==
  ASSUME NEW k \in Int, NEW u \in Nat \ {0}
  PROVE  k * u \in Int /\ (k \in Nat => k * u \in Nat) /\ k * u = u * k /\ (k + 1) * u = k * u + u
OBVIOUS

LEMMA TimesLess ==
  ASSUME NEW j \in Int, NEW k \in Int, NEW u \in Nat \ {0}
  PROVE  j < k <=> j * u + u <= k * u
OBVIOUS

\* n \div u is the only k with k * u <= n < (k + 1) * u.
LEMMA DivIs ==
  ASSUME NEW n \in Int, NEW k \in Int, NEW u \in Nat \ {0}
  PROVE  n \div u = k <=> k * u <= n /\ n < k * u + u
OBVIOUS

LEMMA MultipleIs ==
  ASSUME NEW n \in Int, NEW u \in Nat \ {0}
  PROVE  n % u = 0 <=> \E k \in Int : n = k * u
<1>1. n % u = 0 => n = (n \div u) * u
  BY DivMod, Times
<1>2. ASSUME NEW k \in Int, n = k * u
      PROVE  n % u = 0
  <2>1. n \div u = k
    BY <1>2, DivIs, Times
  <2> QED BY <1>2, <2>1, DivMod, Times
<1> QED
  BY <1>1, <1>2, DivMod

LEMMA MultipleGap ==
  ASSUME NEW u \in Nat \ {0}, NEW m \in Int, NEW n \in Int, m % u = 0, n % u = 0
  PROVE  m < n => m + u <= n
<1>1. PICK j \in Int : m = j * u
  BY MultipleIs
<1>2. PICK k \in Int : n = k * u
  BY MultipleIs
<1>3. m < n => j < k
  BY <1>1, <1>2, TimesLess, Times
<1> QED
  BY <1>1, <1>2, <1>3, TimesLess, Times

LEMMA MultipleSum ==
  ASSUME NEW u \in Nat \ {0}, NEW m \in Int, NEW n \in Int, m % u = 0, n % u = 0
  PROVE  (m + n) % u = 0
<1>1. PICK j \in Int : m = j * u
  BY MultipleIs
<1>2. PICK k \in Int : n = k * u
  BY MultipleIs
<1>3. m + n = (j + k) * u
  BY <1>1, <1>2
<1> QED
  BY <1>3, MultipleIs

LEMMA TimesMultiple ==
  ASSUME NEW u \in Nat \ {0}, NEW k \in Int
  PROVE  (k * u) % u = 0
BY MultipleIs, Times

LEMMA DownIs ==
  ASSUME NEW u \in Nat \ {0}, NEW n \in Int
  PROVE  /\ Down(n, u) \in Int /\ Down(n, u) % u = 0
         /\ Down(n, u) <= n /\ n < Down(n, u) + u
<1>1. n \div u \in Int
  BY DivMod
<1> QED
  BY <1>1, DivIs, TimesMultiple, Times DEF Down

LEMMA UpIs ==
  ASSUME NEW u \in Nat \ {0}, NEW n \in Int
  PROVE  /\ Up(n, u) \in Int /\ Up(n, u) % u = 0
         /\ n <= Up(n, u) /\ Up(n, u) < n + u
<1>1. n + u - 1 \in Int /\ Up(n, u) = Down(n + u - 1, u)
  BY DEF Up, Down
<1> QED
  BY <1>1, DownIs

LEMMA Sizes ==
  /\ PageSize \in Nat \ {0} /\ HugeSize \in Nat \ {0} /\ MmapStart \in Nat
  /\ PageSize <= HugeSize
  /\ \A n \in Int : n % HugeSize = 0 => n % PageSize = 0
  /\ MmapStart % PageSize = 0
<1>1. PICK k \in Int : HugeSize = k * PageSize
  BY SizesAssumption, MultipleIs
<1>2. ASSUME NEW n \in Int, n % HugeSize = 0
      PROVE  n % PageSize = 0
  <2>1. PICK j \in Int : n = j * HugeSize
    BY <1>2, SizesAssumption, MultipleIs
  <2>2. n = (j * k) * PageSize /\ j * k \in Int
    BY <1>1, <2>1, SizesAssumption
  <2> QED BY <2>2, SizesAssumption, MultipleIs
<1>3. PageSize <= HugeSize
  <2>1. 0 % PageSize = 0
    BY SizesAssumption
  <2> QED BY <2>1, SizesAssumption, MultipleGap
<1>4. MmapStart % PageSize = 0
  <2>1. MmapStart \in Int /\ MmapStart % HugeSize = 0
    BY SizesAssumption
  <2> QED BY <1>2, <2>1, Zenon
<1>5. PageSize \in Nat \ {0} /\ HugeSize \in Nat \ {0} /\ MmapStart \in Nat
  BY SizesAssumption
<1> QED
  BY <1>2, <1>3, <1>4, <1>5

LEMMA PageSum ==
  \A m, n \in Int : m % PageSize = 0 /\ n % PageSize = 0 => (m + n) % PageSize = 0
BY SizesAssumption, MultipleSum

LEMMA PageGap ==
  \A m, n \in Int : m % PageSize = 0 /\ n % PageSize = 0 /\ m < n => m + PageSize <= n
BY SizesAssumption, MultipleGap

LEMMA UnitIs ==
  ASSUME NEW a \in AreaSet, NEW n \in Int
  PROVE  /\ UnitOf(a) \in Nat \ {0}
         /\ n % HugeSize = 0 => n % UnitOf(a) = 0
         /\ a.type = "normal" /\ n % PageSize = 0 => n % UnitOf(a) = 0
BY Sizes DEF UnitOf

-------------------------------------------------------------------------------
(* Lists of areas in order *)

\* Some area of the list holds y, with this protection and type.
Has(list, y, p, t) == \E a \in Elems(list) : Holds(a, y) /\ a.prot = p /\ a.type = t

LEMMA AreaFields ==
  ASSUME NEW a \in AreaSet
  PROVE  /\ a.start \in Nat /\ a.end \in Nat /\ a.prot \in Prots /\ a.type \in {"normal", "huge"}
         /\ Dummy.end <= a.start /\ a.start < a.end
         /\ a.start % UnitOf(a) = 0 /\ a.end % UnitOf(a) = 0
         /\ a = [start |-> a.start, end |-> a.end, prot |-> a.prot, type |-> a.type]
BY DEF AreaSet

LEMMA EmptyOK == ListOK(<< >>) /\ Elems(<< >>) = {}
BY DEF ListOK, Elems

LEMMA OneOK ==
  ASSUME NEW a \in AreaSet
  PROVE  ListOK(<<a>>) /\ Elems(<<a>>) = {a}
BY DEF ListOK, Elems

LEMMA ElemsType ==
  ASSUME NEW list, ListOK(list)
  PROVE  /\ Len(list) \in Nat /\ DOMAIN list = 1 .. Len(list)
         /\ Elems(list) \subseteq AreaSet
         /\ \A i \in DOMAIN list : list[i] \in AreaSet /\ list[i] \in Elems(list)
BY DEF ListOK, Elems

\* Two lists, one after the other.
LEMMA CatOK ==
  ASSUME NEW l, NEW r, ListOK(l), ListOK(r),
         \A a \in Elems(l), b \in Elems(r) : Before(a, b)
  PROVE  ListOK(l \o r) /\ Elems(l \o r) = Elems(l) \cup Elems(r)
<1>1. l \in Seq(AreaSet) /\ r \in Seq(AreaSet)
  BY DEF ListOK
<1>2. /\ l \o r \in Seq(AreaSet) /\ Len(l \o r) = Len(l) + Len(r)
      /\ \A j \in 1 .. Len(l) : (l \o r)[j] = l[j]
      /\ \A j \in 1 .. Len(r) : (l \o r)[Len(l) + j] = r[j]
  BY <1>1
<1> DEFINE s == l \o r
<1>3. /\ s \in Seq(AreaSet) /\ Len(l) \in Nat /\ Len(r) \in Nat /\ Len(s) = Len(l) + Len(r)
      /\ DOMAIN l = 1 .. Len(l) /\ DOMAIN r = 1 .. Len(r) /\ DOMAIN s = 1 .. Len(l) + Len(r)
  BY <1>1, <1>2
<1>4. /\ \A j \in DOMAIN s : j <= Len(l) => s[j] = l[j] /\ j \in DOMAIN l
      /\ \A j \in DOMAIN s : j > Len(l) => s[j] = r[j - Len(l)] /\ j - Len(l) \in DOMAIN r
  <2>1. ASSUME NEW j \in DOMAIN s, j > Len(l)
        PROVE  j - Len(l) \in 1 .. Len(r) /\ Len(l) + (j - Len(l)) = j
    BY <1>3, <2>1
  <2> HIDE DEF s
  <2>2. \A j \in DOMAIN s : j > Len(l) => s[j] = r[j - Len(l)]
    BY <2>1, <1>2 DEF s
  <2> QED BY <1>2, <1>3, <2>1, <2>2 DEF s
<1>5. Elems(s) = Elems(l) \cup Elems(r)
  <2>1. Elems(s) \subseteq Elems(l) \cup Elems(r)
    <3> HIDE DEF s
    <3> QED BY <1>3, <1>4 DEF Elems
  <2>2. Elems(l) \subseteq Elems(s)
    <3>1. \A j \in DOMAIN l : j \in DOMAIN s /\ s[j] = l[j]
      BY <1>2, <1>3
    <3> HIDE DEF s
    <3> QED BY <3>1 DEF Elems
  <2>3. Elems(r) \subseteq Elems(s)
    <3>1. \A j \in 1 .. Len(r) : Len(l) + j \in 1 .. Len(l) + Len(r)
      BY <1>3
    <3>2. \A j \in DOMAIN r : Len(l) + j \in DOMAIN s /\ s[Len(l) + j] = r[j]
      BY <1>2, <1>3, <3>1
    <3> HIDE DEF s
    <3> QED BY <3>2 DEF Elems
  <2> QED BY <2>1, <2>2, <2>3
<1>6. ASSUME NEW i \in DOMAIN s, NEW j \in DOMAIN s, i < j
      PROVE  Before(s[i], s[j])
  <2> HIDE DEF s
  <2>1. CASE j <= Len(l)
    <3>1. i <= Len(l)
      BY <1>3, <1>6, <2>1
    <3> QED BY <1>4, <1>6, <2>1, <3>1 DEF ListOK
  <2>2. CASE i > Len(l)
    <3>1. j > Len(l) /\ i - Len(l) < j - Len(l)
      BY <1>3, <1>6, <2>2
    <3> QED BY <1>4, <2>2, <3>1 DEF ListOK
  <2>3. CASE i <= Len(l) /\ j > Len(l)
    BY <1>4, <2>3 DEF Elems
  <2> QED BY <1>3, <2>1, <2>2, <2>3
<1> HIDE DEF s
<1>7. ListOK(s)
  BY <1>3, <1>6 DEF ListOK
<1> QED
  BY <1>5, <1>7 DEF s

\* A stretch of a list.
LEMMA SubOK ==
  ASSUME NEW list, ListOK(list), NEW m \in Int, NEW n \in Int, 1 <= m, n <= Len(list)
  PROVE  ListOK(SubSeq(list, m, n)) /\ Elems(SubSeq(list, m, n)) = {list[i] : i \in m .. n}
<1> DEFINE s == SubSeq(list, m, n)
<1>1. list \in Seq(AreaSet) /\ Len(list) \in Nat /\ DOMAIN list = 1 .. Len(list)
  BY DEF ListOK
<1>2. CASE m > n
  <2>1. s = << >>
    BY <1>1, <1>2
  <2>2. m .. n = {}
    BY <1>2
  <2> QED BY <2>1, <2>2, EmptyOK
<1>3. CASE m <= n
  <2>1. /\ s \in Seq(AreaSet) /\ Len(s) = n - m + 1 /\ DOMAIN s = 1 .. n - m + 1
        /\ \A i \in 1 .. n - m + 1 : s[i] = list[m + i - 1]
    BY <1>1, <1>3
  <2>2. \A i \in 1 .. n - m + 1 : m + i - 1 \in m .. n /\ m + i - 1 \in DOMAIN list
    BY <1>1, <1>3
  <2>3. \A i \in m .. n : i - m + 1 \in 1 .. n - m + 1 /\ m + (i - m + 1) - 1 = i
    OBVIOUS
  <2> HIDE DEF s
  <2>4. Elems(s) = {list[i] : i \in m .. n}
    <3>1. Elems(s) \subseteq {list[i] : i \in m .. n}
      BY <2>1, <2>2 DEF Elems
    <3>2. ASSUME NEW i \in m .. n PROVE list[i] \in Elems(s)
      BY <2>1, <2>3 DEF Elems
    <3> QED BY <3>1, <3>2
  <2>5. ASSUME NEW i \in DOMAIN s, NEW j \in DOMAIN s, i < j
        PROVE  Before(s[i], s[j])
    <3>1. m + i - 1 < m + j - 1
      BY <2>1, <2>5
    <3> QED BY <2>1, <2>2, <3>1 DEF ListOK
  <2>6. ListOK(s)
    BY <2>1, <2>5 DEF ListOK
  <2> QED BY <2>4, <2>6 DEF s
<1> QED
  BY <1>2, <1>3

-------------------------------------------------------------------------------
(* sorted_Insert *)

\* Areas that are before one another share no address, and two areas of a list that
\* hold the same address are one.
LEMMA OneHolder ==
  ASSUME NEW list, ListOK(list), NEW a \in Elems(list), NEW b \in Elems(list),
         NEW y \in Int, Holds(a, y), Holds(b, y)
  PROVE  a = b
<1>1. PICK i \in DOMAIN list : a = list[i]
  BY DEF Elems
<1>2. PICK j \in DOMAIN list : b = list[j]
  BY DEF Elems
<1>3. i \in Int /\ j \in Int
  BY ElemsType
<1>4. a \in AreaSet /\ b \in AreaSet
  BY ElemsType
<1>5. ~ (a.end <= b.start) /\ ~ (b.end <= a.start)
  BY <1>4, AreaFields DEF Holds
<1> QED
  BY <1>1, <1>2, <1>3, <1>5 DEF ListOK, Before

\* The first position of a list whose next area passes a test, given as the set G of
\* the indices of the areas that pass.
LEMMA FirstOfSet ==
  ASSUME NEW n \in Nat, NEW G
  PROVE  LET Ok(i) == /\ i = n \/ i + 1 \in G
                      /\ \A j \in 0 .. i - 1 : j + 1 \notin G
         IN  \E i \in 0 .. n : Ok(i)
<1> DEFINE D == {i \in 0 .. n : i = n \/ i + 1 \in G}
<1>1. D \subseteq Nat /\ n \in D
  OBVIOUS
<1>2. PICK i \in D : \A e \in D : i <= e
  <2> HIDE DEF D
  <2> QED BY <1>1, NatLeast
<1>3. \A j \in 0 .. i - 1 : j \in 0 .. n /\ ~ (i <= j)
  OBVIOUS
<1>4. \A j \in 0 .. i - 1 : j + 1 \notin G
  BY <1>2, <1>3
<1> QED
  BY <1>4

\* Where sorted_Insert puts a node.
InsertAt(list, e) == FirstPosition(list, LAMBDA j, next : next.start >= e)

LEMMA InsertAtIs ==
  ASSUME NEW list, ListOK(list), NEW e \in Int
  PROVE  /\ InsertAt(list, e) \in 0 .. Len(list)
         /\ \A j \in DOMAIN list : IF j <= InsertAt(list, e) THEN list[j].start < e
                                                             ELSE list[j].start >= e
<1> DEFINE G == {j \in DOMAIN list : list[j].start >= e}
           n == Len(list)
           Ok(i) == /\ i = n \/ i + 1 \in G
                    /\ \A j \in 0 .. i - 1 : j + 1 \notin G
           P(i) == /\ i = Len(list) \/ list[i + 1].start >= e
                   /\ \A j \in 0 .. i - 1 : ~ (list[j + 1].start >= e)
<1>1. n \in Nat /\ DOMAIN list = 1 .. n
  BY ElemsType
<1>2. \E i \in 0 .. n : Ok(i)
  <2> HIDE DEF n, G
  <2> QED BY <1>1, FirstOfSet
<1>3. ASSUME NEW i \in 0 .. n, Ok(i)
      PROVE  P(i)
  <2>1. i = Len(list) \/ list[i + 1].start >= e
    BY <1>3
  <2>2. \A j \in 0 .. i - 1 : j + 1 \in DOMAIN list
    BY <1>1
  <2>3. \A j \in 0 .. i - 1 : ~ (list[j + 1].start >= e)
    BY <1>3, <2>2
  <2> QED BY <2>1, <2>3
<1>4. InsertAt(list, e) = CHOOSE i \in 0 .. Len(list) : P(i)
  BY DEF InsertAt, FirstPosition
<1> DEFINE k == InsertAt(list, e)
<1>5. k \in 0 .. n /\ P(k)
  <2>1. \E i \in 0 .. Len(list) : P(i)
    BY <1>2, <1>3
  <2> HIDE DEF P
  <2> QED BY <1>4, <2>1
<1>6. ASSUME NEW j \in DOMAIN list
      PROVE  list[j].start \in Int
  BY <1>6, ElemsType, AreaFields
<1>7. ASSUME NEW j \in DOMAIN list, j <= k
      PROVE  list[j].start < e
  <2>1. j - 1 \in 0 .. k - 1 /\ j - 1 + 1 = j
    BY <1>1, <1>5, <1>7
  <2>2. ~ (list[j].start >= e)
    BY <1>5, <2>1
  <2> QED BY <1>6, <2>2
<1>8. ASSUME NEW j \in DOMAIN list, ~ (j <= k)
      PROVE  list[j].start >= e
  <2>1. k + 1 \in DOMAIN list /\ list[k + 1].start >= e /\ k + 1 <= j
    BY <1>1, <1>5, <1>8
  <2>2. CASE j = k + 1
    BY <2>1, <2>2
  <2>3. CASE j # k + 1
    <3>1. k + 1 < j
      BY <1>1, <1>5, <2>1, <2>3
    <3>2. list[k + 1].end <= list[j].start
      BY <2>1, <3>1 DEF ListOK, Before
    <3>3. list[k + 1].start < list[k + 1].end /\ list[k + 1].end \in Int
      BY <2>1, ElemsType, AreaFields
    <3> QED BY <1>6, <2>1, <3>2, <3>3
  <2> QED BY <2>2, <2>3
<1> QED
  BY <1>5, <1>7, <1>8

\* sorted_Insert keeps the list in order, adds the addresses of the node, and leaves
\* the areas of the other type alone.
LEMMA InsertOK ==
  ASSUME NEW list, ListOK(list), NEW node \in AreaSet,
         \A a \in Elems(list) : a.end <= node.start \/ node.end <= a.start
  PROVE  LET R == sorted_Insert(list, node)
         IN  /\ ListOK(R.list)
             /\ \A y \in Int : \A p, t : Has(R.list, y, p, t) <=>
                   Has(list, y, p, t) \/ (Holds(node, y) /\ node.prot = p /\ node.type = t)
             /\ \A a \in Elems(list) : a.type # node.type => a \in Elems(R.list)
             /\ R.stray \in BOOLEAN
<1> DEFINE i     == InsertAt(list, node.end)
           left  == i > 0 /\ Mergeable(list[i], node)
           right == i < Len(list) /\ Mergeable(node, list[i + 1])
           whole == [node EXCEPT !.start = IF left  THEN list[i].start   ELSE @,
                                 !.end   = IF right THEN list[i + 1].end ELSE @]
           m == IF left THEN i - 1 ELSE i
           n == IF right THEN i + 2 ELSE i + 1
           low  == SubSeq(list, 1, m)
           high == SubSeq(list, n, Len(list))
           R == sorted_Insert(list, node)
<1>1. R.list = low \o <<whole>> \o high /\ R.stray \in BOOLEAN
  BY DEF sorted_Insert, InsertAt
<1>2. /\ Len(list) \in Nat /\ DOMAIN list = 1 .. Len(list)
      /\ node.start \in Nat /\ node.end \in Nat /\ node.start < node.end
  BY ElemsType, AreaFields
<1>3. /\ i \in 0 .. Len(list)
      /\ \A j \in DOMAIN list : IF j <= i THEN list[j].start < node.end
                                          ELSE list[j].start >= node.end
  <2> DEFINE e == node.end
  <2>1. e \in Int
    BY <1>2
  <2> HIDE DEF e
  <2>2. /\ InsertAt(list, e) \in 0 .. Len(list)
        /\ \A j \in DOMAIN list : IF j <= InsertAt(list, e) THEN list[j].start < e
                                                             ELSE list[j].start >= e
    BY <2>1, InsertAtIs
  <2> QED BY <2>2 DEF e
<1> HIDE DEF i
<1>4. ASSUME NEW j \in DOMAIN list
      PROVE  /\ list[j] \in AreaSet /\ list[j].start \in Nat /\ list[j].end \in Nat
             /\ list[j].start < list[j].end /\ list[j].prot \in Prots
             /\ list[j].type \in {"normal", "huge"}
  BY <1>4, ElemsType, AreaFields
<1>5. ASSUME NEW j \in DOMAIN list, j <= i
      PROVE  list[j].end <= node.start
  <2>1. ~ (node.end <= list[j].start)
    BY <1>2, <1>3, <1>4, <1>5
  <2> QED BY <2>1, ElemsType
<1>6. ASSUME NEW j \in DOMAIN list, NEW k \in DOMAIN list, j < k
      PROVE  list[j].end <= list[k].start /\ ~ Mergeable(list[j], list[k])
  BY <1>6 DEF ListOK, Before
<1>7. /\ left  => i \in DOMAIN list /\ list[i].end = node.start /\ list[i].prot = node.prot
                  /\ list[i].type = node.type
      /\ right => i + 1 \in DOMAIN list /\ list[i + 1].start = node.end /\ list[i + 1].prot = node.prot
                  /\ list[i + 1].type = node.type
  BY <1>2, <1>3 DEF Mergeable
<1>8. /\ whole.prot = node.prot /\ whole.type = node.type
      /\ whole.start = IF left THEN list[i].start ELSE node.start
      /\ whole.end = IF right THEN list[i + 1].end ELSE node.end
  BY AreaFields
<1>9. m \in Int /\ n \in Int /\ m <= Len(list) /\ 1 <= n /\ 1 .. m \subseteq DOMAIN list
      /\ n .. Len(list) \subseteq DOMAIN list /\ m < n
  BY <1>2, <1>3

<1> HIDE DEF left, right, whole, m, n, low, high, R
<1>10. whole \in AreaSet
  <2>1. node \in AreaSet /\ whole = [start |-> whole.start, end |-> whole.end, prot |-> node.prot, type |-> node.type]
    <3>1. node \in [start : Nat, end : Nat, prot : Prots, type : {"normal", "huge"}]
      BY DEF AreaSet
    <3> DEFINE s0 == IF left  THEN list[i].start   ELSE node.start
               e0 == IF right THEN list[i + 1].end ELSE node.end
    <3>2. whole = [node EXCEPT !.start = s0, !.end = e0]
      BY DEF whole
    <3>3. s0 = whole.start /\ e0 = whole.end
      BY <1>8
    <3> HIDE DEF s0, e0
    <3>4. whole = [start |-> s0, end |-> e0, prot |-> node.prot, type |-> node.type]
      BY <3>1, <3>2
    <3> QED BY <3>3, <3>4
  <2>2. UnitOf(whole) = UnitOf(node)
    BY <1>8 DEF UnitOf
  <2>3. /\ whole.start \in Nat /\ Dummy.end <= whole.start /\ whole.start <= node.start
        /\ whole.start % UnitOf(node) = 0
    <3>1. CASE left
      <4>1. list[i] \in AreaSet /\ UnitOf(list[i]) = UnitOf(node) /\ list[i].start <= node.start
        BY <1>2, <1>4, <1>7, <3>1 DEF UnitOf
      <4> QED BY <1>8, <3>1, <4>1, AreaFields
    <3>2. CASE ~ left
      BY <1>8, <3>2, AreaFields
    <3> QED BY <3>1, <3>2
  <2>4. whole.end \in Nat /\ node.end <= whole.end /\ whole.end % UnitOf(node) = 0
    <3>1. CASE right
      <4>1. list[i + 1] \in AreaSet /\ UnitOf(list[i + 1]) = UnitOf(node) /\ node.end <= list[i + 1].end
        BY <1>2, <1>4, <1>7, <3>1 DEF UnitOf
      <4> QED BY <1>8, <3>1, <4>1, AreaFields
    <3>2. CASE ~ right
      BY <1>8, <3>2, AreaFields
    <3> QED BY <3>1, <3>2
  <2>5. whole.start < whole.end
    BY <1>2, <2>3, <2>4
  <2>6. node.prot \in Prots /\ node.type \in {"normal", "huge"}
    BY AreaFields
  <2>7. whole \in [start : Nat, end : Nat, prot : Prots, type : {"normal", "huge"}]
    BY <2>1, <2>3, <2>4, <2>6
  <2> QED BY <2>2, <2>3, <2>4, <2>5, <2>7 DEF AreaSet
<1>11. ASSUME NEW j \in 1 .. m
       PROVE  Before(list[j], whole)
  <2>1. CASE left
    <3>1. j \in DOMAIN list /\ i \in DOMAIN list /\ j < i
      BY <1>2, <1>3, <1>7, <1>9, <2>1 DEF m
    <3> QED BY <1>6, <1>7, <1>8, <2>1, <3>1 DEF Before, Mergeable
  <2>2. CASE ~ left
    <3>1. j \in DOMAIN list /\ j <= i /\ whole.start = node.start
      BY <1>3, <1>8, <1>9, <2>2 DEF m
    <3>2. list[j].end <= whole.start
      BY <1>5, <3>1
    <3>3. CASE j = i
      <4>1. ~ Mergeable(list[j], node)
        BY <2>2, <3>1, <3>3, <1>2, <1>3 DEF left
      <4> QED BY <1>8, <3>1, <3>2, <4>1 DEF Before, Mergeable
    <3>4. CASE j # i
      <4>1. j < i /\ i \in DOMAIN list
        BY <1>2, <1>3, <3>1, <3>4
      <4>2. list[j].end < whole.start
        <5>1. list[j].end <= list[i].start /\ list[i].start < list[i].end /\ list[i].end <= node.start
          BY <1>3, <1>4, <1>5, <1>6, <3>1, <4>1
        <5> QED BY <1>2, <1>4, <3>1, <4>1, <5>1
      <4> QED BY <1>2, <1>4, <3>1, <4>2 DEF Before, Mergeable
    <3> QED BY <3>3, <3>4
  <2> QED BY <2>1, <2>2
<1>12. ASSUME NEW j \in n .. Len(list)
       PROVE  Before(whole, list[j])
  <2>1. CASE right
    <3>1. j \in DOMAIN list /\ i + 1 \in DOMAIN list /\ i + 1 < j
      BY <1>2, <1>3, <1>7, <1>9, <2>1 DEF n
    <3> QED BY <1>6, <1>7, <1>8, <2>1, <3>1 DEF Before, Mergeable
  <2>2. CASE ~ right
    <3>1. j \in DOMAIN list /\ i + 1 <= j /\ whole.end = node.end /\ i + 1 \in DOMAIN list
      BY <1>2, <1>3, <1>8, <1>9, <2>2 DEF n
    <3>2. whole.end <= list[j].start
      BY <1>2, <1>3, <1>4, <3>1
    <3>3. CASE j = i + 1
      <4>1. ~ Mergeable(node, list[j])
        BY <2>2, <3>1, <3>3, <1>2, <1>3 DEF right
      <4> QED BY <1>8, <3>1, <3>2, <4>1 DEF Before, Mergeable
    <3>4. CASE j # i + 1
      <4>1. i + 1 < j
        BY <1>2, <1>3, <3>1, <3>4
      <4>2. whole.end < list[j].start
        <5>1. list[i + 1].end <= list[j].start /\ list[i + 1].start < list[i + 1].end
              /\ node.end <= list[i + 1].start
          BY <1>2, <1>3, <1>4, <1>6, <3>1, <4>1
        <5> QED BY <1>2, <1>4, <3>1, <4>1, <5>1
      <4> QED BY <1>2, <1>4, <3>1, <4>2 DEF Before, Mergeable
    <3> QED BY <3>3, <3>4
  <2> QED BY <2>1, <2>2
<1>13. ASSUME NEW j \in 1 .. m, NEW k \in n .. Len(list)
       PROVE  Before(list[j], list[k])
  <2>1. j \in DOMAIN list /\ k \in DOMAIN list /\ j < k
    BY <1>2, <1>9
  <2> QED BY <1>6, <2>1 DEF Before
<1>14. ListOK(low) /\ Elems(low) = {list[j] : j \in 1 .. m}
  BY <1>9, SubOK DEF low
<1>15. ListOK(high) /\ Elems(high) = {list[j] : j \in n .. Len(list)}
  BY <1>2, <1>9, SubOK DEF high
<1> DEFINE one == <<whole>>
           lw  == low \o one
<1>16. ListOK(one) /\ Elems(one) = {whole}
  BY <1>10, OneOK
<1>17. ListOK(lw) /\ Elems(lw) = Elems(low) \cup {whole}
  <2>1. \A a \in Elems(low), b \in Elems(one) : Before(a, b)
    BY <1>11, <1>14, <1>16
  <2> HIDE DEF one
  <2> QED BY <1>14, <1>16, <2>1, CatOK
<1>18. ListOK(R.list) /\ Elems(R.list) = Elems(low) \cup {whole} \cup Elems(high)
  <2>1. \A a \in Elems(lw), b \in Elems(high) : Before(a, b)
    BY <1>12, <1>13, <1>14, <1>15, <1>17
  <2>2. R.list = lw \o high
    BY <1>1
  <2> HIDE DEF lw
  <2> QED BY <1>15, <1>17, <2>1, <2>2, CatOK
<1>19. ASSUME NEW j \in DOMAIN list
       PROVE  \/ list[j] \in Elems(R.list)
              \/ left /\ j = i
              \/ right /\ j = i + 1
  <2>1. \/ j \in 1 .. m \/ j \in n .. Len(list)
        \/ left /\ j = i
        \/ right /\ j = i + 1
    BY <1>2, <1>3, <1>9 DEF m, n
  <2> QED BY <1>14, <1>15, <1>18, <2>1
<1>20. ASSUME NEW y \in Int, Holds(whole, y)
       PROVE  Holds(node, y) \/ (left /\ Holds(list[i], y)) \/ (right /\ Holds(list[i + 1], y))
  BY <1>2, <1>4, <1>7, <1>8, <1>10, <1>20 DEF Holds
<1>21. ASSUME NEW y \in Int, Holds(node, y) \/ (left /\ Holds(list[i], y)) \/ (right /\ Holds(list[i + 1], y))
       PROVE  Holds(whole, y)
  BY <1>2, <1>4, <1>7, <1>8, <1>10, <1>21 DEF Holds
<1>22. ASSUME NEW y \in Int, NEW p, NEW t
       PROVE  Has(R.list, y, p, t) <=>
                Has(list, y, p, t) \/ (Holds(node, y) /\ node.prot = p /\ node.type = t)
  <2>1. ASSUME NEW a \in Elems(R.list), Holds(a, y) /\ a.prot = p /\ a.type = t
        PROVE  Has(list, y, p, t) \/ (Holds(node, y) /\ node.prot = p /\ node.type = t)
    <3>1. CASE a \in Elems(low) \cup Elems(high)
      <4>1. a \in Elems(list)
        BY <1>9, <1>14, <1>15, <3>1 DEF Elems
      <4> QED BY <2>1, <4>1 DEF Has
    <3>2. CASE a = whole
      <4>1. CASE left /\ Holds(list[i], y)
        BY <1>7, <1>8, <2>1, <3>2, <4>1 DEF Has, Elems
      <4>2. CASE right /\ Holds(list[i + 1], y)
        BY <1>7, <1>8, <2>1, <3>2, <4>2 DEF Has, Elems
      <4>3. CASE Holds(node, y)
        BY <1>8, <2>1, <3>2, <4>3
      <4> QED BY <1>20, <2>1, <3>2, <4>1, <4>2, <4>3
    <3> QED BY <1>18, <3>1, <3>2
  <2>2. ASSUME NEW a \in Elems(list), Holds(a, y) /\ a.prot = p /\ a.type = t
        PROVE  Has(R.list, y, p, t)
    <3>1. PICK j \in DOMAIN list : a = list[j]
      BY DEF Elems
    <3>2. CASE list[j] \in Elems(R.list)
      BY <2>2, <3>1, <3>2 DEF Has
    <3>3. CASE (left /\ j = i) \/ (right /\ j = i + 1)
      <4>1. Holds(whole, y) /\ whole.prot = p /\ whole.type = t
        BY <1>7, <1>8, <1>21, <2>2, <3>1, <3>3
      <4> QED BY <1>18, <4>1 DEF Has
    <3> QED BY <1>19, <3>2, <3>3
  <2>3. ASSUME Holds(node, y) /\ node.prot = p /\ node.type = t
        PROVE  Has(R.list, y, p, t)
    BY <1>8, <1>18, <1>21, <2>3 DEF Has
  <2> QED BY <2>1, <2>2, <2>3 DEF Has
<1>23. ASSUME NEW a \in Elems(list), a.type # node.type
       PROVE  a \in Elems(R.list)
  BY <1>7, <1>19, <1>23 DEF Elems
<1> QED
  BY <1>1, <1>18, <1>22, <1>23, SMTT(20) DEF R

-------------------------------------------------------------------------------
(* Areas cut into pieces: vm_area_unmap and vm_area_make_hugepage *)

\* b is what is left of area a, or a part of it.
PieceOf(b, a) == a.start <= b.start /\ b.end <= a.end /\ b.prot = a.prot /\ b.type = a.type

LEMMA PiecesBefore ==
  ASSUME NEW a \in AreaSet, NEW c \in AreaSet, Before(a, c),
         NEW b \in AreaSet, NEW d \in AreaSet, PieceOf(b, a), PieceOf(d, c)
  PROVE  Before(b, d)
<1>1. /\ a.end \in Nat /\ c.start \in Nat /\ b.end \in Nat /\ d.start \in Nat
  BY AreaFields
<1> QED
  BY <1>1 DEF Before, PieceOf, Mergeable

\* Joined by its recursion equations.
LEMMA JoinedIs ==
  ASSUME NEW ls \in Seq(Seq(AreaSet))
  PROVE  \E g : /\ g[0] = << >>
                /\ \A i \in 1 .. Len(ls) : g[i] = g[i - 1] \o ls[i]
                /\ Joined(ls) = g[Len(ls)]
<1> DEFINE n == Len(ls)
           X == Seq(AreaSet)
           x0 == << >>
           step == [i \in 1 .. n |-> [x \in X |-> x \o ls[i]]]
           Rec(f) == f = [i \in 0 .. n |-> IF i = 0 THEN << >> ELSE f[i - 1] \o ls[i]]
           g == Recursion(X, x0, 0, n, step)
<1>1. n \in Nat /\ 0 \in Nat /\ 0 <= n /\ x0 \in X
  OBVIOUS
<1>2. /\ \A i \in 0 + 1 .. n, x \in X : step[i][x] \in X
      /\ \A i \in 0 + 1 .. n, x \in X : step[i][x] = x \o ls[i]
  OBVIOUS
<1>3. g \in [0 .. n -> X] /\ g[0] = x0 /\ \A i \in 0 + 1 .. n : g[i] = step[i][g[i - 1]]
  <2>1. g = Recursion(X, x0, 0, n, step)
    OBVIOUS
  <2>3. Steps(X, 0, n, step)
    BY <1>2 DEF Steps
  <2> HIDE DEF X, x0, step, n, g
  <2>2. Follows(g, X, x0, 0, n, step)
    BY <1>1, <2>1, <2>3, RecursionExists, Zenon
  <2> QED BY <2>2 DEF Follows
<1> HIDE DEF g
<1>4. g[0] = << >> /\ \A i \in 1 .. n : g[i] = g[i - 1] \o ls[i]
  <2>1. ASSUME NEW i \in 1 .. n
        PROVE  i \in 0 + 1 .. n /\ i - 1 \in 0 .. n /\ g[i - 1] \in X
    <3>1. i \in 0 + 1 .. n /\ i - 1 \in 0 .. n
      BY <1>1
    <3> HIDE DEF X, n
    <3> QED BY <1>3, <3>1
  <2> HIDE DEF X, step, n
  <2>2. g[0] = << >>
    BY <1>3 DEF x0
  <2> QED BY <1>2, <1>3, <2>1, <2>2
<1>5. Rec(g)
  <2>1. \A i \in 0 .. n : i # 0 => i \in 1 .. n
    BY <1>1
  <2> HIDE DEF X, step, g
  <2> QED BY <1>3, <1>4, <2>1
<1> DEFINE f0 == CHOOSE f : Rec(f)
<1>6. Rec(f0)
  <2> HIDE DEF g
  <2> QED BY <1>5
<1>7. Joined(ls) = f0[n]
  BY DEF Joined
<1>8. f0[0] = << >> /\ \A i \in 1 .. n : f0[i] = f0[i - 1] \o ls[i]
  <2>1. \A i \in 0 .. n : f0[i] = IF i = 0 THEN << >> ELSE f0[i - 1] \o ls[i]
    <3> HIDE DEF f0
    <3> QED BY <1>6
  <2>2. 0 \in 0 .. n /\ \A i \in 1 .. n : i \in 0 .. n /\ i # 0
    BY <1>1
  <2> HIDE DEF f0
  <2> QED BY <2>1, <2>2, Zenon
<1> HIDE DEF f0
<1> QED
  BY <1>7, <1>8

\* A list whose areas are replaced by pieces of them is in order.
LEMMA JoinedOK ==
  ASSUME NEW list, ListOK(list), NEW ls \in Seq(Seq(AreaSet)), Len(ls) = Len(list),
         \A i \in DOMAIN list : ListOK(ls[i]) /\ \A b \in Elems(ls[i]) : PieceOf(b, list[i])
  PROVE  /\ ListOK(Joined(ls))
         /\ Elems(Joined(ls)) = UNION {Elems(ls[i]) : i \in DOMAIN list}
<1> DEFINE n == Len(list)
           Sub(k) == UNION {Elems(ls[i]) : i \in 1 .. k}
<1>1. n \in Nat /\ DOMAIN list = 1 .. n /\ n = Len(ls)
  BY ElemsType
<1>2. \E g : /\ g[0] = << >>
             /\ \A i \in 1 .. n : g[i] = g[i - 1] \o ls[i]
             /\ Joined(ls) = g[n]
  BY <1>1, JoinedIs
<1> HIDE DEF n
<1>0. PICK g : /\ g[0] = << >>
               /\ \A i \in 1 .. n : g[i] = g[i - 1] \o ls[i]
               /\ Joined(ls) = g[n]
  BY <1>2
<1> DEFINE G == {k \in 0 .. n : ListOK(g[k]) /\ Elems(g[k]) = Sub(k)}
<1>3. 0 \in G
  BY <1>1, <1>0, EmptyOK
<1>4. ASSUME NEW k \in 0 .. n - 1, k \in G
      PROVE  k + 1 \in G
  <2>1. k + 1 \in 1 .. n /\ k + 1 \in 0 .. n /\ k + 1 - 1 = k /\ k + 1 \in DOMAIN list
    BY <1>1
  <2>2. g[k + 1] = g[k] \o ls[k + 1]
    <3> DEFINE m == k + 1
    <3>1. m \in 1 .. n /\ m - 1 = k
      BY <2>1
    <3> HIDE DEF m
    <3>2. g[m] = g[k] \o ls[m]
      BY <1>0, <3>1
    <3> QED BY <3>2 DEF m
  <2>3. ASSUME NEW b \in Elems(g[k]), NEW d \in Elems(ls[k + 1])
        PROVE  Before(b, d)
    <3>1. PICK i \in 1 .. k : b \in Elems(ls[i])
      BY <1>4
    <3>2. i \in DOMAIN list /\ i < k + 1
      BY <1>1, <2>1
    <3>3. Before(list[i], list[k + 1])
      BY <2>1, <3>2 DEF ListOK
    <3>4. PieceOf(b, list[i]) /\ PieceOf(d, list[k + 1])
      BY <2>1, <2>3, <3>1, <3>2
    <3>5. b \in AreaSet /\ d \in AreaSet /\ list[i] \in AreaSet /\ list[k + 1] \in AreaSet
      BY <2>1, <2>3, <3>1, <3>2, ElemsType
    <3> QED BY <3>3, <3>4, <3>5, PiecesBefore
  <2> DEFINE u == g[k]
             v == ls[k + 1]
  <2>4. ListOK(u) /\ ListOK(v)
    BY <1>4, <2>1
  <2>5. ListOK(u \o v) /\ Elems(u \o v) = Elems(u) \cup Elems(v)
    <3>1. \A b \in Elems(u), d \in Elems(v) : Before(b, d)
      BY <2>3
    <3> HIDE DEF u, v
    <3> QED BY <2>4, <3>1, CatOK
  <2>6. 1 .. k + 1 = 1 .. k \cup {k + 1}
    OBVIOUS
  <2>7. Sub(k + 1) = Sub(k) \cup Elems(v)
    BY <2>6
  <2> QED BY <1>4, <2>1, <2>2, <2>5, <2>7
<1>5. \A k \in 0 .. n : k \in G
  <2> HIDE DEF G, n
  <2> QED BY <1>1, <1>3, <1>4, IntervalInduction
<1>6. n \in G
  <2>1. n \in 0 .. n
    BY <1>1
  <2> HIDE DEF G
  <2> QED BY <1>5, <2>1
<1> QED
  BY <1>1, <1>0, <1>6

LEMMA TwoOK ==
  ASSUME NEW a \in AreaSet, NEW b \in AreaSet, Before(a, b)
  PROVE  ListOK(<<a, b>>) /\ Elems(<<a, b>>) = {a, b}
<1> DEFINE s == <<a, b>>
<1>1. s \in Seq(AreaSet) /\ DOMAIN s = {1, 2} /\ s[1] = a /\ s[2] = b
  OBVIOUS
<1> HIDE DEF s
<1>2. Elems(s) = {a, b}
  BY <1>1 DEF Elems
<1>3. ASSUME NEW i \in DOMAIN s, NEW j \in DOMAIN s, i < j
      PROVE  Before(s[i], s[j])
  <2>1. i = 1 /\ j = 2
    BY <1>1, <1>3
  <2> QED BY <1>1, <2>1
<1> QED
  BY <1>1, <1>2, <1>3 DEF ListOK, s

\* The part of an area below x, and the part from x on.
LEMMA CutBelow ==
  ASSUME NEW a \in AreaSet, NEW x \in Int, a.start < x, x <= a.end, x % UnitOf(a) = 0
  PROVE  LET b == [a EXCEPT !.end = x]
         IN  /\ b \in AreaSet /\ b.start = a.start /\ b.end = x
             /\ b.prot = a.prot /\ b.type = a.type
<1> DEFINE b == [a EXCEPT !.end = x]
<1>1. a \in [start : Nat, end : Nat, prot : Prots, type : {"normal", "huge"}] /\ x \in Nat
  BY AreaFields
<1>2. b \in [start : Nat, end : Nat, prot : Prots, type : {"normal", "huge"}]
      /\ b.start = a.start /\ b.end = x /\ b.prot = a.prot /\ b.type = a.type
  BY <1>1
<1> HIDE DEF b
<1>3. UnitOf(b) = UnitOf(a)
  BY <1>2 DEF UnitOf
<1>4. b \in AreaSet
  BY <1>2, <1>3, AreaFields DEF AreaSet
<1> QED
  BY <1>2, <1>4 DEF b

LEMMA CutAbove ==
  ASSUME NEW a \in AreaSet, NEW x \in Int, a.start <= x, x < a.end, x % UnitOf(a) = 0
  PROVE  LET b == [a EXCEPT !.start = x]
         IN  /\ b \in AreaSet /\ b.start = x /\ b.end = a.end
             /\ b.prot = a.prot /\ b.type = a.type
<1> DEFINE b == [a EXCEPT !.start = x]
<1>1. a \in [start : Nat, end : Nat, prot : Prots, type : {"normal", "huge"}] /\ x \in Nat
      /\ Dummy.end <= x
  <2>1. Dummy.end \in Int
    BY Sizes DEF Dummy, Area
  <2> QED BY <2>1, AreaFields
<1>2. b \in [start : Nat, end : Nat, prot : Prots, type : {"normal", "huge"}]
      /\ b.start = x /\ b.end = a.end /\ b.prot = a.prot /\ b.type = a.type
  BY <1>1
<1> HIDE DEF b
<1>3. UnitOf(b) = UnitOf(a)
  BY <1>2 DEF UnitOf
<1>4. b \in AreaSet
  BY <1>1, <1>2, <1>3, AreaFields DEF AreaSet
<1> QED
  BY <1>2, <1>4 DEF b

\* What munmap leaves of one area: nothing changes in a huge area outside the range,
\* and a small-page area loses the addresses from addr up to the rounded end.
LEMMA UnmapAreaOK ==
  ASSUME NEW a \in AreaSet, NEW addr \in Int, NEW length \in Int,
         length > 0, addr % PageSize = 0,
         a.type = "huge" => a.end <= addr \/ UnmapEnd(a, addr, length) <= a.start
  PROVE  LET P == UnmapArea(a, addr, length)
             e == addr + Up(length, PageSize)
         IN  /\ ListOK(P)
             /\ \A b \in Elems(P) : PieceOf(b, a)
             /\ a.type = "huge" => P = <<a>>
             /\ a.type = "normal" => \A y \in Int :
                  (\E b \in Elems(P) : Holds(b, y)) <=> Holds(a, y) /\ ~ (addr <= y /\ y < e)
<1> DEFINE P == UnmapArea(a, addr, length)
           e == UnmapEnd(a, addr, length)
           lo == [a EXCEPT !.end = addr]
           hi == [a EXCEPT !.start = e]
<1>1. /\ a.start \in Nat /\ a.end \in Nat /\ a.start < a.end
      /\ a.type \in {"normal", "huge"}
  BY AreaFields
<1>2. e \in Int /\ addr < e
  <2> DEFINE u == IF a.type = "normal" THEN PageSize ELSE HugeSize
             v == Up(length, u)
  <2>1. u \in Nat \ {0} /\ e = addr + v
    BY Sizes DEF UnmapEnd
  <2> HIDE DEF u, e
  <2>2. v \in Int /\ length <= v
    BY <2>1, UpIs
  <2> HIDE DEF v
  <2> QED BY <2>1, <2>2
<1>3. a.type = "normal" => e = addr + Up(length, PageSize) /\ e % UnitOf(a) = 0 /\ addr % UnitOf(a) = 0
  <2>1. Up(length, PageSize) \in Int /\ Up(length, PageSize) % PageSize = 0
    BY Sizes, UpIs
  <2> DEFINE v == Up(length, PageSize)
  <2> HIDE DEF v
  <2>2. (addr + v) % PageSize = 0
    BY <2>1, Sizes, MultipleSum DEF v
  <2> QED BY <2>2 DEF v, UnmapEnd, UnitOf
<1>4. a.type = "huge" => P = <<a>>
  BY <1>1, <1>2 DEF UnmapArea
<1> DEFINE Kept(y) == Holds(a, y) /\ ~ (addr <= y /\ y < e)
           Good == /\ ListOK(P)
                   /\ \A b \in Elems(P) : PieceOf(b, a)
                   /\ \A y \in Int : (\E b \in Elems(P) : Holds(b, y)) <=> Kept(y)
<1> HIDE DEF e
<1>5. a.start < addr /\ addr < a.end /\ a.type = "normal" =>
        /\ lo \in AreaSet /\ lo.start = a.start /\ lo.end = addr
        /\ lo.prot = a.prot /\ lo.type = a.type
  BY <1>1, <1>3, CutBelow
<1>6. a.start < e /\ e < a.end /\ a.type = "normal" =>
        /\ hi \in AreaSet /\ hi.start = e /\ hi.end = a.end
        /\ hi.prot = a.prot /\ hi.type = a.type
  BY <1>1, <1>2, <1>3, CutAbove
<1> HIDE DEF lo, hi
<1>7. ASSUME P = <<a>>, a.end <= addr \/ e <= a.start
      PROVE  Good
  <2>1. ListOK(P) /\ Elems(P) = {a}
    BY <1>7, OneOK
  <2>2. PieceOf(a, a)
    BY <1>1 DEF PieceOf
  <2>3. \A y \in Int : Holds(a, y) <=> Kept(y)
    BY <1>1, <1>2, <1>7 DEF Holds
  <2> QED BY <2>1, <2>2, <2>3
<1>8. CASE a.type = "huge"
  BY <1>4, <1>7, <1>8, OneOK, <1>1 DEF PieceOf, e
<1>9. CASE a.type = "normal"
  <2>1. CASE a.start >= addr /\ a.end <= e
    <3>1. P = << >>
      BY <1>1, <1>2, <2>1 DEF UnmapArea, e
    <3>2. \A y \in Int : ~ Kept(y)
      BY <1>1, <1>2, <2>1 DEF Holds
    <3>3. Good
      BY <3>1, <3>2, EmptyOK
    <3> QED BY <1>3, <1>9, <3>3 DEF e
  <2>2. CASE addr > a.start /\ e < a.end
    <3>1. P = <<lo, hi>>
      BY <1>1, <1>2, <2>2 DEF UnmapArea, e, lo, hi
    <3>2. Before(lo, hi)
      BY <1>1, <1>2, <1>5, <1>6, <1>9, <2>2 DEF Before, Mergeable
    <3>3. ListOK(P) /\ Elems(P) = {lo, hi}
      BY <1>1, <1>2, <1>5, <1>6, <1>9, <2>2, <3>1, <3>2, TwoOK
    <3>4. PieceOf(lo, a) /\ PieceOf(hi, a)
      BY <1>1, <1>2, <1>5, <1>6, <1>9, <2>2 DEF PieceOf
    <3>5. \A y \in Int : Holds(lo, y) \/ Holds(hi, y) <=> Kept(y)
      BY <1>1, <1>2, <1>5, <1>6, <1>9, <2>2 DEF Holds
    <3>6. Good
      BY <3>3, <3>4, <3>5
    <3> QED BY <1>3, <1>9, <3>6 DEF e
  <2>3. CASE a.end <= e /\ a.end > addr /\ a.start < addr
    <3>1. P = <<lo>>
      BY <1>1, <1>2, <2>3 DEF UnmapArea, e, lo
    <3>2. ListOK(P) /\ Elems(P) = {lo}
      BY <1>5, <1>9, <2>3, <3>1, OneOK
    <3>3. PieceOf(lo, a)
      BY <1>1, <1>5, <1>9, <2>3 DEF PieceOf
    <3>4. \A y \in Int : Holds(lo, y) <=> Kept(y)
      BY <1>1, <1>2, <1>5, <1>9, <2>3 DEF Holds
    <3>5. Good
      BY <3>2, <3>3, <3>4
    <3> QED BY <1>3, <1>9, <3>5 DEF e
  <2>4. CASE a.start >= addr /\ a.start < e /\ a.end > e
    <3>1. P = <<hi>>
      BY <1>1, <1>2, <2>4 DEF UnmapArea, e, hi
    <3>2. ListOK(P) /\ Elems(P) = {hi}
      BY <1>6, <1>9, <2>4, <3>1, OneOK
    <3>3. PieceOf(hi, a)
      BY <1>1, <1>2, <1>6, <1>9, <2>4 DEF PieceOf
    <3>4. \A y \in Int : Holds(hi, y) <=> Kept(y)
      BY <1>1, <1>2, <1>6, <1>9, <2>4 DEF Holds
    <3>5. Good
      BY <3>2, <3>3, <3>4
    <3> QED BY <1>3, <1>9, <3>5 DEF e
  <2>5. CASE a.end <= addr \/ e <= a.start
    <3>1. P = <<a>>
      BY <1>1, <1>2, <2>5 DEF UnmapArea, e
    <3>2. Good
      BY <1>7, <2>5, <3>1
    <3> QED BY <1>3, <1>9, <3>2 DEF e
  <2> QED BY <1>1, <1>2, <2>1, <2>2, <2>3, <2>4, <2>5
<1> QED
  BY <1>1, <1>8, <1>9

\* What a list holds when its areas are replaced by pieces of them.  C is the set of
\* the addresses, with the type of the area, that are cut out.
LEMMA PiecesOK ==
  ASSUME NEW list, ListOK(list), NEW ls \in [DOMAIN list -> Seq(AreaSet)], NEW C,
         \A i \in DOMAIN list :
            /\ ListOK(ls[i]) /\ \A b \in Elems(ls[i]) : PieceOf(b, list[i])
            /\ \A y \in Int : (\E b \in Elems(ls[i]) : Holds(b, y))
                                 <=> Holds(list[i], y) /\ <<y, list[i].type>> \notin C
  PROVE  /\ ListOK(Joined(ls))
         /\ \A y \in Int : \A p, t : Has(Joined(ls), y, p, t)
                                    <=> Has(list, y, p, t) /\ <<y, t>> \notin C
<1>1. Len(list) \in Nat /\ DOMAIN list = 1 .. Len(list)
  BY ElemsType
<1>3. ls \in Seq(Seq(AreaSet)) /\ Len(ls) = Len(list)
  BY <1>1
<1> DEFINE J == Joined(ls)
<1>4. ListOK(J) /\ Elems(J) = UNION {Elems(ls[i]) : i \in DOMAIN list}
  BY <1>3, JoinedOK
<1> HIDE DEF J
<1>5. ASSUME NEW y \in Int, NEW p, NEW t
      PROVE  Has(J, y, p, t) <=> Has(list, y, p, t) /\ <<y, t>> \notin C
  <2>1. ASSUME NEW b \in Elems(J), Holds(b, y) /\ b.prot = p /\ b.type = t
        PROVE  Has(list, y, p, t) /\ <<y, t>> \notin C
    <3>1. PICK i \in DOMAIN list : b \in Elems(ls[i])
      BY <1>4
    <3>2. PieceOf(b, list[i]) /\ Holds(list[i], y) /\ <<y, list[i].type>> \notin C
      BY <2>1, <3>1
    <3> QED BY <2>1, <3>2 DEF PieceOf, Has, Elems
  <2>2. ASSUME NEW a \in Elems(list), Holds(a, y) /\ a.prot = p /\ a.type = t, <<y, t>> \notin C
        PROVE  Has(J, y, p, t)
    <3>1. PICK i \in DOMAIN list : a = list[i]
      BY DEF Elems
    <3>2. PICK b \in Elems(ls[i]) : Holds(b, y)
      BY <2>2, <3>1
    <3>3. PieceOf(b, list[i]) /\ b \in Elems(J)
      BY <1>4, <3>2
    <3> QED BY <2>2, <3>1, <3>2, <3>3 DEF PieceOf, Has
  <2> QED BY <2>1, <2>2 DEF Has
<1> QED
  BY <1>4, <1>5 DEF J

\* munmap takes the addresses of its range from the small-page areas and keeps the
\* list in order.
LEMMA UnmapOK ==
  ASSUME NEW list, ListOK(list), NEW addr \in Int, NEW length \in Int,
         length > 0, addr % PageSize = 0,
         \A a \in Elems(list) :
            a.type = "huge" => a.end <= addr \/ UnmapEnd(a, addr, length) <= a.start
  PROVE  LET new == vm_area_unmap(list, addr, length)
             e   == addr + Up(length, PageSize)
         IN  /\ ListOK(new)
             /\ \A y \in Int : \A p, t : Has(new, y, p, t) <=>
                   Has(list, y, p, t) /\ ~ (t = "normal" /\ addr <= y /\ y < e)
<1> DEFINE e  == addr + Up(length, PageSize)
           ls == [i \in DOMAIN list |-> UnmapArea(list[i], addr, length)]
           C  == {c \in Int \X {"normal"} : addr <= c[1] /\ c[1] < e}
<1>1. ASSUME NEW i \in DOMAIN list
      PROVE  /\ ListOK(ls[i]) /\ \A b \in Elems(ls[i]) : PieceOf(b, list[i])
             /\ \A y \in Int : (\E b \in Elems(ls[i]) : Holds(b, y))
                                  <=> Holds(list[i], y) /\ <<y, list[i].type>> \notin C
  <2>1. list[i] \in AreaSet /\ list[i] \in Elems(list) /\ list[i].type \in {"normal", "huge"}
    BY ElemsType, AreaFields
  <2> DEFINE a == list[i]
             P == UnmapArea(a, addr, length)
  <2>2. /\ ListOK(P) /\ \A b \in Elems(P) : PieceOf(b, a)
        /\ a.type = "huge" => P = <<a>>
        /\ a.type = "normal" => \A y \in Int :
             (\E b \in Elems(P) : Holds(b, y)) <=> Holds(a, y) /\ ~ (addr <= y /\ y < e)
    BY <2>1, UnmapAreaOK
  <2>3. a.type = "huge" => Elems(P) = {a}
    BY <2>1, <2>2, OneOK
  <2>4. ls[i] = P
    OBVIOUS
  <2>5. \A y \in Int : <<y, a.type>> \notin C <=> ~ (a.type = "normal" /\ addr <= y /\ y < e)
    OBVIOUS
  <2> HIDE DEF P, ls, a, e, C
  <2>6. a.type \in {"normal", "huge"}
    BY <2>1 DEF a
  <2>7. \A y \in Int : (\E b \in Elems(P) : Holds(b, y)) <=> Holds(a, y) /\ <<y, a.type>> \notin C
    <3>1. CASE a.type = "normal"
      BY <2>2, <2>5, <3>1
    <3>2. CASE a.type = "huge"
      BY <2>3, <2>5, <3>2
    <3> QED BY <2>6, <3>1, <3>2
  <2> QED BY <2>2, <2>4, <2>7 DEF a
<1>2. ls \in [DOMAIN list -> Seq(AreaSet)]
  <2>1. \A i \in DOMAIN list : UnmapArea(list[i], addr, length) \in Seq(AreaSet)
    BY <1>1 DEF ListOK
  <2> QED BY <2>1
<1>3. vm_area_unmap(list, addr, length) = Joined(ls)
  BY DEF vm_area_unmap
<1>4. \A y \in Int : \A t : <<y, t>> \notin C <=> ~ (t = "normal" /\ addr <= y /\ y < e)
  OBVIOUS
<1> HIDE DEF ls, C, e
<1>5. /\ ListOK(Joined(ls))
      /\ \A y \in Int : \A p, t : Has(Joined(ls), y, p, t)
                                 <=> Has(list, y, p, t) /\ <<y, t>> \notin C
  BY <1>1, <1>2, PiecesOK
<1> QED
  BY <1>3, <1>4, <1>5 DEF e

\* What make_hugepage leaves of one area: an area that the range covers or that lies
\* beside it is only lost where the range is.
LEMMA CutAreaOK ==
  ASSUME NEW a \in AreaSet, NEW x \in Int, NEW l \in Int, x < l,
         x % HugeSize = 0, l % HugeSize = 0,
         (a.start <= x /\ l <= a.end) \/ a.end <= x \/ l <= a.start
  PROVE  LET P == CutForHuge(a, x, l)
         IN  /\ ListOK(P)
             /\ \A b \in Elems(P) : PieceOf(b, a)
             /\ \A y \in Int :
                  (\E b \in Elems(P) : Holds(b, y)) <=> Holds(a, y) /\ ~ (x <= y /\ y < l)
<1> DEFINE P == CutForHuge(a, x, l)
           lo == [a EXCEPT !.end = x]
           hi == [a EXCEPT !.start = l]
           Kept(y) == Holds(a, y) /\ ~ (x <= y /\ y < l)
           Good == /\ ListOK(P)
                   /\ \A b \in Elems(P) : PieceOf(b, a)
                   /\ \A y \in Int : (\E b \in Elems(P) : Holds(b, y)) <=> Kept(y)
<1>1. /\ a.start \in Nat /\ a.end \in Nat /\ a.start < a.end
      /\ x % UnitOf(a) = 0 /\ l % UnitOf(a) = 0
  BY AreaFields, UnitIs
<1>2. a.start < x /\ x <= a.end =>
        /\ lo \in AreaSet /\ lo.start = a.start /\ lo.end = x
        /\ lo.prot = a.prot /\ lo.type = a.type
  BY <1>1, CutBelow
<1>3. a.start <= l /\ l < a.end =>
        /\ hi \in AreaSet /\ hi.start = l /\ hi.end = a.end
        /\ hi.prot = a.prot /\ hi.type = a.type
  BY <1>1, CutAbove
<1>4. CASE a.end <= x \/ l <= a.start
  <2>1. P = <<a>>
    BY <1>1, <1>4 DEF CutForHuge
  <2>2. ListOK(P) /\ Elems(P) = {a}
    BY <2>1, OneOK
  <2>3. PieceOf(a, a)
    BY <1>1 DEF PieceOf
  <2>4. \A y \in Int : Holds(a, y) <=> Kept(y)
    BY <1>1, <1>4 DEF Holds
  <2> QED BY <2>2, <2>3, <2>4
<1>5. CASE a.start <= x /\ l <= a.end
  <2> DEFINE u == IF a.start # x THEN <<lo>> ELSE << >>
             v == IF a.end > l THEN <<hi>> ELSE << >>
  <2>1. P = u \o v
    BY <1>1, <1>5 DEF CutForHuge
  <2>2. ListOK(u) /\ Elems(u) = IF a.start # x THEN {lo} ELSE {}
    <3>1. CASE a.start # x
      <4>1. lo \in AreaSet /\ u = <<lo>>
        BY <1>1, <1>2, <1>5, <3>1
      <4> HIDE DEF lo, u
      <4> QED BY <3>1, <4>1, OneOK
    <3>2. CASE a.start = x
      <4>1. u = << >>
        BY <3>2
      <4> QED BY <3>2, <4>1, EmptyOK
    <3> QED BY <3>1, <3>2
  <2>3. ListOK(v) /\ Elems(v) = IF a.end > l THEN {hi} ELSE {}
    <3>1. CASE a.end > l
      <4>1. hi \in AreaSet /\ v = <<hi>>
        BY <1>1, <1>3, <1>5, <3>1
      <4> HIDE DEF hi, v
      <4> QED BY <3>1, <4>1, OneOK
    <3>2. CASE ~ (a.end > l)
      <4>1. v = << >>
        BY <3>2
      <4> QED BY <3>2, <4>1, EmptyOK
    <3> QED BY <3>1, <3>2
  <2>4. a.start # x /\ a.end > l => Before(lo, hi)
    BY <1>1, <1>2, <1>3, <1>5 DEF Before, Mergeable
  <2> HIDE DEF u, v, P, lo, hi
  <2>5. \A b \in Elems(u), d \in Elems(v) : Before(b, d)
    BY <2>2, <2>3, <2>4
  <2>6. ListOK(P) /\ Elems(P) = Elems(u) \cup Elems(v)
    BY <2>1, <2>2, <2>3, <2>5, CatOK
  <2>7. /\ a.start # x => PieceOf(lo, a)
        /\ a.end > l => PieceOf(hi, a)
    BY <1>1, <1>2, <1>3, <1>5 DEF PieceOf
  <2>8. \A b \in Elems(P) : PieceOf(b, a)
    BY <2>2, <2>3, <2>6, <2>7
  <2>9. ASSUME NEW y \in Int
        PROVE  (\E b \in Elems(P) : Holds(b, y)) <=> Kept(y)
    <3>1. (\E b \in Elems(P) : Holds(b, y)) <=>
            \/ a.start # x /\ Holds(lo, y)
            \/ a.end > l /\ Holds(hi, y)
      BY <2>2, <2>3, <2>6
    <3> QED BY <1>1, <1>2, <1>3, <1>5, <3>1 DEF Holds
  <2> QED BY <2>6, <2>8, <2>9 DEF P
<1> QED
  BY <1>4, <1>5

\* A range of which a list holds nothing lies beside every area.
LEMMA NothingThere ==
  ASSUME NEW list, ListOK(list), NEW x \in Int, NEW l \in Int, x < l,
         \A y \in Int : \A p, t : Has(list, y, p, t) => ~ (x <= y /\ y < l)
  PROVE  \A a \in Elems(list) : a.end <= x \/ l <= a.start
<1> SUFFICES ASSUME NEW a \in Elems(list), ~ (a.end <= x \/ l <= a.start)
             PROVE  FALSE
  OBVIOUS
<1>1. a.start \in Int /\ a.end \in Int /\ a.start < a.end
  BY ElemsType, AreaFields
<1>2. PICK y \in Int : Holds(a, y) /\ x <= y /\ y < l
  <2>1. CASE x <= a.start
    BY <1>1, <2>1 DEF Holds
  <2>2. CASE a.start < x
    BY <1>1, <2>2 DEF Holds
  <2> QED BY <1>1, <2>1, <2>2
<1>3. Has(list, y, a.prot, a.type)
  BY <1>2 DEF Has
<1> QED
  BY <1>2, <1>3

LEMMA NewArea ==
  ASSUME NEW s \in Int, NEW e \in Int, NEW p \in Prots, NEW t \in {"normal", "huge"},
         Dummy.end <= s, s < e,
         s % (IF t = "huge" THEN HugeSize ELSE PageSize) = 0,
         e % (IF t = "huge" THEN HugeSize ELSE PageSize) = 0
  PROVE  /\ Area(s, e, p, t) \in AreaSet
         /\ Area(s, e, p, t).start = s /\ Area(s, e, p, t).end = e
         /\ Area(s, e, p, t).prot = p /\ Area(s, e, p, t).type = t
<1>1. Dummy.end \in Nat
  BY Sizes DEF Dummy, Area
<1> DEFINE a == Area(s, e, p, t)
<1>2. /\ a \in [start : Nat, end : Nat, prot : Prots, type : {"normal", "huge"}]
      /\ a.start = s /\ a.end = e /\ a.prot = p /\ a.type = t
  BY <1>1 DEF Area
<1> HIDE DEF a
<1>3. a \in AreaSet
  BY <1>2 DEF AreaSet, UnitOf
<1> QED
  BY <1>2, <1>3 DEF a

\* make_hugepage on a range that one small-page area covers.
LEMMA MakeOK ==
  ASSUME NEW list, ListOK(list), NEW addr \in Int, NEW length \in Int, NEW prot \in Prots,
         Up(addr, HugeSize) < Down(addr + length, HugeSize), Dummy.end <= Up(addr, HugeSize),
         \A a \in Elems(list) :
            \/ a.start <= Up(addr, HugeSize) /\ Down(addr + length, HugeSize) <= a.end
            \/ a.end <= Up(addr, HugeSize) \/ Down(addr + length, HugeSize) <= a.start
  PROVE  LET new == vm_area_make_hugepage(list, addr, length, prot)
             x == Up(addr, HugeSize)
             l == Down(addr + length, HugeSize)
         IN  /\ ListOK(new.list) /\ new.stray \in BOOLEAN
             /\ \A y \in Int : \A p, t : Has(new.list, y, p, t) <=>
                   IF x <= y /\ y < l THEN p = prot /\ t = "huge" ELSE Has(list, y, p, t)
<1> DEFINE x  == Up(addr, HugeSize)
           l  == Down(addr + length, HugeSize)
           ls == [i \in DOMAIN list |-> CutForHuge(list[i], x, l)]
           C  == {c \in Int \X {"normal", "huge"} : x <= c[1] /\ c[1] < l}
           J  == Joined(ls)
           node == Area(x, l, prot, "huge")
           new  == vm_area_make_hugepage(list, addr, length, prot)
<1>0. new = sorted_Insert(J, node)
  BY DEF vm_area_make_hugepage
<1>1. /\ x \in Int /\ l \in Int /\ x < l /\ Dummy.end <= x
      /\ x % HugeSize = 0 /\ l % HugeSize = 0
  BY Sizes, UpIs, DownIs
<1>2. \A a \in Elems(list) : (a.start <= x /\ l <= a.end) \/ a.end <= x \/ l <= a.start
  OBVIOUS
<1> HIDE DEF x, l
<1>3. ASSUME NEW i \in DOMAIN list
      PROVE  /\ ListOK(ls[i]) /\ \A b \in Elems(ls[i]) : PieceOf(b, list[i])
             /\ \A y \in Int : (\E b \in Elems(ls[i]) : Holds(b, y))
                                  <=> Holds(list[i], y) /\ <<y, list[i].type>> \notin C
  <2>1. list[i] \in AreaSet /\ list[i] \in Elems(list) /\ list[i].type \in {"normal", "huge"}
    BY ElemsType, AreaFields
  <2> DEFINE a == list[i]
             P == CutForHuge(a, x, l)
  <2>2. /\ ListOK(P) /\ \A b \in Elems(P) : PieceOf(b, a)
        /\ \A y \in Int : (\E b \in Elems(P) : Holds(b, y)) <=> Holds(a, y) /\ ~ (x <= y /\ y < l)
    BY <1>1, <1>2, <2>1, CutAreaOK
  <2>3. ls[i] = P
    OBVIOUS
  <2>4. \A y \in Int : <<y, a.type>> \notin C <=> ~ (x <= y /\ y < l)
    BY <2>1
  <2> HIDE DEF P, ls, a, C
  <2> QED BY <2>2, <2>3, <2>4 DEF a
<1>4. ls \in [DOMAIN list -> Seq(AreaSet)]
  <2>1. \A i \in DOMAIN list : CutForHuge(list[i], x, l) \in Seq(AreaSet)
    BY <1>3 DEF ListOK
  <2> QED BY <2>1
<1>5. \A y \in Int, t \in {"normal", "huge"} : <<y, t>> \notin C <=> ~ (x <= y /\ y < l)
  OBVIOUS
<1> HIDE DEF ls, C, new, node
<1>6. /\ ListOK(J)
      /\ \A y \in Int : \A p, t : Has(J, y, p, t) <=> Has(list, y, p, t) /\ <<y, t>> \notin C
  BY <1>3, <1>4, PiecesOK
<1>7. \A y \in Int : \A p, t : Has(list, y, p, t) => t \in {"normal", "huge"}
  BY ElemsType, AreaFields DEF Has
<1>8. \A y \in Int : \A p, t : Has(J, y, p, t) <=> Has(list, y, p, t) /\ ~ (x <= y /\ y < l)
  BY <1>5, <1>6, <1>7
<1>9. /\ node \in AreaSet /\ node.start = x /\ node.end = l
      /\ node.prot = prot /\ node.type = "huge"
  BY <1>1, NewArea DEF node
<1> HIDE DEF J
<1>10. \A a \in Elems(J) : a.end <= node.start \/ node.end <= a.start
  BY <1>1, <1>6, <1>8, <1>9, NothingThere
<1>11. /\ ListOK(new.list) /\ new.stray \in BOOLEAN
       /\ \A y \in Int : \A p, t : Has(new.list, y, p, t) <=>
             Has(J, y, p, t) \/ (Holds(node, y) /\ node.prot = p /\ node.type = t)
  BY <1>0, <1>6, <1>9, <1>10, InsertOK
<1>12. ASSUME NEW y \in Int, NEW p, NEW t
       PROVE  Has(new.list, y, p, t) <=>
                IF x <= y /\ y < l THEN p = prot /\ t = "huge" ELSE Has(list, y, p, t)
  <2>1. Holds(node, y) <=> x <= y /\ y < l
    BY <1>9 DEF Holds
  <2> QED BY <1>8, <1>9, <1>11, <2>1
<1> QED
  BY <1>11, <1>12 DEF x, l, new

-------------------------------------------------------------------------------
(* vm_area_map *)

LEMMA DummyEnd == Dummy.end \in Nat /\ Dummy.end > 0 /\ Dummy.end % PageSize = 0
                  /\ Dummy.end = MmapStart + PageSize
<1>1. Dummy.end = MmapStart + PageSize
  BY DEF Dummy, Area
<1>2. PageSize % PageSize = 0 /\ PageSize \in Int /\ MmapStart \in Int
  <2>1. PageSize \in Int /\ PageSize \in Nat \ {0} /\ PageSize = 1 * PageSize
    BY Sizes
  <2> QED BY <2>1, Sizes, MultipleIs
<1>3. (MmapStart + PageSize) % PageSize = 0
  BY Sizes, <1>2, PageSum, Zenon
<1> QED
  BY <1>1, <1>3, Sizes

\* The end of an area, or of the dummy, bounds the areas up to it.
LEMMA EndOfIs ==
  ASSUME NEW list, ListOK(list), NEW k \in 0 .. Len(list)
  PROVE  /\ EndOf(list, k) \in Nat /\ EndOf(list, k) % PageSize = 0
         /\ Dummy.end <= EndOf(list, k)
         /\ \A j \in DOMAIN list : j <= k => list[j].end <= EndOf(list, k)
         /\ k < Len(list) => EndOf(list, k) <= list[k + 1].start
<1>1. /\ Len(list) \in Nat /\ DOMAIN list = 1 .. Len(list)
      /\ \A j \in DOMAIN list : list[j] \in AreaSet
  BY ElemsType
<1>2. CASE k = 0
  <2>1. k < Len(list) => Dummy.end <= list[1].start
    BY <1>1, <1>2, AreaFields
  <2> QED BY <1>1, <1>2, <2>1, DummyEnd DEF EndOf
<1>3. CASE k # 0
  <2>1. k \in DOMAIN list /\ EndOf(list, k) = list[k].end
    BY <1>1, <1>3 DEF EndOf
  <2> DEFINE a == list[k]
  <2>2. a.end \in Nat /\ Dummy.end <= a.end /\ a.end % UnitOf(a) = 0 /\ a.start < a.end
        /\ a.start \in Nat /\ Dummy.end <= a.start
    BY <1>1, <2>1, AreaFields, DummyEnd
  <2>3. a.end % PageSize = 0
    <3>1. a.end \in Int
      BY <2>2
    <3> HIDE DEF a
    <3>2. a.end % HugeSize = 0 => a.end % PageSize = 0
      BY <3>1, Sizes, Zenon
    <3> QED BY <2>2, <3>2 DEF UnitOf
  <2>4. ASSUME NEW j \in DOMAIN list, j <= k
        PROVE  list[j].end <= list[k].end
    <3>1. CASE j = k
      BY <3>1, <2>2
    <3>2. CASE j # k
      <4>1. j < k
        BY <1>1, <2>1, <2>4, <3>2
      <4>2. list[j].end <= list[k].start
        BY <2>1, <4>1 DEF ListOK, Before
      <4>3. list[j].end \in Nat
        BY <1>1, AreaFields
      <4> QED BY <2>2, <4>2, <4>3
    <3> QED BY <3>1, <3>2
  <2>5. k < Len(list) => list[k].end <= list[k + 1].start
    <3>1. k < Len(list) => k + 1 \in DOMAIN list /\ k < k + 1
      BY <1>1
    <3> QED BY <2>1, <3>1 DEF ListOK, Before
  <2> QED BY <2>1, <2>2, <2>3, <2>4, <2>5
<1> QED
  BY <1>2, <1>3

\* The gap that mmap(NULL) takes is behind the last area, or long enough.
LEMMA FirstGapIs ==
  ASSUME NEW list, ListOK(list), NEW len \in Nat \ {0}
  PROVE  LET k == FirstGap(list, len)
         IN  /\ k \in 0 .. Len(list)
             /\ \A a \in Elems(list) : a.end <= EndOf(list, k) \/ EndOf(list, k) + len <= a.start
<1> DEFINE Wide(j) == list[j + 1].start < EndOf(list, j) \/ list[j + 1].start - EndOf(list, j) >= len
           G == {j \in DOMAIN list : Wide(j - 1)}
           n == Len(list)
           P(i) == /\ i = Len(list) \/ Wide(i)
                   /\ \A j \in 0 .. i - 1 : ~ Wide(j)
           k == FirstGap(list, len)
<1>1. n \in Nat /\ DOMAIN list = 1 .. n
  BY ElemsType
<1>2. PICK m \in 0 .. n : /\ m = n \/ m + 1 \in G
                          /\ \A j \in 0 .. m - 1 : j + 1 \notin G
  <2> HIDE DEF n, G
  <2> QED BY <1>1, FirstOfSet
<1>3. P(m)
  <2>1. \A j \in 0 .. n - 1 : j + 1 \in DOMAIN list /\ j + 1 - 1 = j
    BY <1>1
  <2>2. \A j \in 0 .. n - 1 : j + 1 \in G <=> Wide(j)
    <3> HIDE DEF Wide
    <3> QED BY <2>1
  <2>0. m \in 0 .. n
    <3> HIDE DEF G, n
    <3> QED BY <1>2
  <2>3. m \in 0 .. n - 1 \/ m = n
    <3>1. n \in Nat
      BY <1>1
    <3> HIDE DEF n
    <3> QED BY <2>0, <3>1
  <2>4. \A j \in 0 .. m - 1 : j \in 0 .. n - 1
    BY <1>1, <2>0
  <2> HIDE DEF Wide, G
  <2> QED BY <1>2, <2>2, <2>3, <2>4
<1>4. k = CHOOSE i \in 0 .. Len(list) : P(i)
  BY DEF FirstGap, FirstPosition
<1>5. k \in 0 .. n /\ P(k)
  <2>1. \E i \in 0 .. Len(list) : P(i)
    BY <1>3
  <2> HIDE DEF P, k
  <2> QED BY <1>4, <2>1
<1> HIDE DEF k
<1>6. ASSUME NEW a \in Elems(list)
      PROVE  a.end <= EndOf(list, k) \/ EndOf(list, k) + len <= a.start
  <2>1. PICK j \in DOMAIN list : a = list[j]
    BY DEF Elems
  <2>2. /\ EndOf(list, k) \in Nat
        /\ j <= k => list[j].end <= EndOf(list, k)
        /\ k < Len(list) => EndOf(list, k) <= list[k + 1].start
    BY <1>5, EndOfIs
  <2>3. CASE j <= k
    BY <2>1, <2>2, <2>3
  <2>4. CASE ~ (j <= k)
    <3>0. k \in 0 .. n
      BY <1>5
    <3>1. k + 1 \in DOMAIN list /\ k < n /\ k # n /\ k + 1 <= j
      <4>1. j \in 1 .. n
        BY <1>1, <2>1
      <4> HIDE DEF n
      <4>2. k + 1 \in 1 .. n /\ k < n /\ k # n /\ k + 1 <= j
        BY <1>1, <2>4, <3>0, <4>1
      <4> QED BY <1>1, <4>2
    <3>2. list[k + 1].start \in Nat /\ list[k + 1].end \in Nat /\ list[k + 1].start < list[k + 1].end
          /\ list[j].start \in Nat
      BY <3>1, ElemsType, AreaFields
    <3>3. EndOf(list, k) + len <= list[k + 1].start
      BY <1>5, <2>2, <3>1, <3>2
    <3>4. list[k + 1].start <= list[j].start
      <4>1. CASE j = k + 1
        BY <3>2, <4>1
      <4>2. CASE j # k + 1
        <5>1. k + 1 < j
          BY <1>1, <1>5, <3>1, <4>2
        <5>2. list[k + 1].end <= list[j].start
          BY <3>1, <5>1 DEF ListOK, Before
        <5> QED BY <3>2, <5>2
      <4> QED BY <4>1, <4>2
    <3> QED BY <2>1, <2>2, <3>2, <3>3, <3>4
  <2> QED BY <2>3, <2>4
<1> QED
  BY <1>5, <1>6 DEF k

\* mmap of a free range, or of any range: a range that was free is held by a new
\* small-page area, and everything else is as it was.
LEMMA MapOK ==
  ASSUME NEW list, ListOK(list), NEW addr \in Nat, NEW length \in Int, length > 0,
         NEW prot \in Prots, NEW flags,
         addr = NULL \/ /\ Dummy.end <= addr
                        /\ \A a \in Elems(list) : \/ a.end <= Up(addr, PageSize)
                                                  \/ Up(addr, PageSize) + Up(length, PageSize) <= a.start
  PROVE  LET m   == vm_area_map(list, addr, length, prot, flags)
             len == Up(length, PageSize)
         IN  /\ ListOK(m.list) /\ m.stray \in BOOLEAN
             /\ \E s \in Nat :
                  /\ \A y \in Int : \A p, t : Has(list, y, p, t) => ~ (s <= y /\ y < s + len)
                  /\ \A y \in Int : \A p, t : Has(m.list, y, p, t) <=>
                       IF s <= y /\ y < s + len THEN p = prot /\ t = "normal" ELSE Has(list, y, p, t)
<1> DEFINE len  == Up(length, PageSize)
           from == Up(addr, PageSize)
           prev == IF addr = NULL THEN FirstGap(list, len) ELSE 0
           s    == IF addr = NULL \/ (flags # "fixed" /\ Taken(list, from, from + len))
                   THEN EndOf(list, prev) ELSE from
           node == Area(s, s + len, prot, "normal")
           ins  == sorted_Insert(list, node)
           m    == vm_area_map(list, addr, length, prot, flags)
<1>1. m.list = ins.list /\ m.stray = ins.stray
  BY DEF vm_area_map
<1>2. len \in Nat \ {0} /\ len % PageSize = 0
  <2>1. len \in Int /\ len % PageSize = 0 /\ length <= len
    BY Sizes, UpIs
  <2> HIDE DEF len
  <2> QED BY <2>1
<1>3. from \in Int /\ from % PageSize = 0 /\ addr <= from
  BY Sizes, UpIs
<1>0. addr # NULL => /\ Dummy.end <= addr
                     /\ \A a \in Elems(list) : a.end <= from \/ from + len <= a.start
  OBVIOUS
<1> HIDE DEF len, from, ins, m
<1>4. /\ s \in Nat /\ s % PageSize = 0 /\ Dummy.end <= s
      /\ \A a \in Elems(list) : a.end <= s \/ s + len <= a.start
  <2>1. CASE addr = NULL
    <3> DEFINE k == FirstGap(list, len)
    <3>1. /\ k \in 0 .. Len(list)
          /\ \A a \in Elems(list) : a.end <= EndOf(list, k) \/ EndOf(list, k) + len <= a.start
      BY <1>2, FirstGapIs
    <3>2. s = EndOf(list, k)
      BY <2>1
    <3> HIDE DEF k, s
    <3>3. EndOf(list, k) \in Nat /\ EndOf(list, k) % PageSize = 0 /\ Dummy.end <= EndOf(list, k)
      BY <3>1, EndOfIs
    <3> QED BY <3>1, <3>2, <3>3
  <2>2. CASE addr # NULL
    <3>1. Dummy.end <= addr /\ \A a \in Elems(list) : a.end <= from \/ from + len <= a.start
      BY <1>0, <2>2
    <3>2. ~ Taken(list, from, from + len)
      <4>1. ASSUME NEW i \in DOMAIN list
            PROVE  ~ (Holds(list[i], from) \/ (list[i].start < from + len /\ from + len <= list[i].end))
        <5>1. list[i] \in Elems(list) /\ list[i].start \in Nat /\ list[i].end \in Nat
              /\ list[i].start < list[i].end
          BY ElemsType, AreaFields
        <5> QED BY <1>2, <1>3, <3>1, <5>1 DEF Holds
      <4> QED BY <4>1 DEF Taken
    <3>3. s = from
      BY <2>2, <3>2
    <3> QED BY <1>3, <3>1, <3>3, DummyEnd
  <2> QED BY <2>1, <2>2
<1> HIDE DEF s
<1>5. (s + len) % PageSize = 0 /\ s + len \in Int /\ s < s + len
  <2>1. s \in Int /\ len \in Int
    BY <1>2, <1>4
  <2>2. (s + len) % PageSize = 0
    BY <1>2, <1>4, <2>1, PageSum, Zenon
  <2> QED BY <1>2, <1>4, <2>2
<1>6. /\ node \in AreaSet /\ node.start = s /\ node.end = s + len
      /\ node.prot = prot /\ node.type = "normal"
  <2> DEFINE e == s + len
  <2>1. e \in Int /\ s < e /\ e % PageSize = 0 /\ s \in Int
    BY <1>4, <1>5
  <2> HIDE DEF e
  <2>2. LET a == Area(s, e, prot, "normal")
        IN  a \in AreaSet /\ a.start = s /\ a.end = e /\ a.prot = prot /\ a.type = "normal"
    BY <1>4, <2>1, NewArea
  <2> QED BY <2>2 DEF e
<1> HIDE DEF node
<1>7. /\ ListOK(ins.list) /\ ins.stray \in BOOLEAN
      /\ \A y \in Int : \A p, t : Has(ins.list, y, p, t) <=>
            Has(list, y, p, t) \/ (Holds(node, y) /\ node.prot = p /\ node.type = t)
  BY <1>4, <1>6, InsertOK DEF ins
<1>8. ASSUME NEW y \in Int, NEW p, NEW t, Has(list, y, p, t)
      PROVE  ~ (s <= y /\ y < s + len)
  <2>1. PICK a \in Elems(list) : Holds(a, y)
    BY <1>8 DEF Has
  <2>2. a.start \in Nat /\ a.end \in Nat
    BY ElemsType, AreaFields
  <2> QED BY <1>2, <1>4, <2>1, <2>2 DEF Holds
<1>9. ASSUME NEW y \in Int, NEW p, NEW t
      PROVE  Has(ins.list, y, p, t) <=>
               IF s <= y /\ y < s + len THEN p = prot /\ t = "normal" ELSE Has(list, y, p, t)
  <2>1. Holds(node, y) <=> s <= y /\ y < s + len
    BY <1>6 DEF Holds
  <2> QED BY <1>6, <1>7, <1>8, <2>1
<1> QED
  BY <1>1, <1>4, <1>7, <1>8, <1>9 DEF m, len

-------------------------------------------------------------------------------
(* vm_area_break_hugepage *)

\* An area has one place in a list.
LEMMA PlaceIs ==
  ASSUME NEW list, ListOK(list), NEW k \in DOMAIN list
  PROVE  (CHOOSE i \in DOMAIN list : list[i] = list[k]) = k
<1> DEFINE c == CHOOSE i \in DOMAIN list : list[i] = list[k]
<1>1. c \in DOMAIN list /\ list[c] = list[k]
  OBVIOUS
<1> HIDE DEF c
<1>2. c \in Int /\ k \in Int /\ list[k].start \in Nat /\ list[k].end \in Nat
      /\ list[k].start < list[k].end
  BY <1>1, ElemsType, AreaFields
<1>3. ~ Before(list[k], list[k])
  BY <1>2 DEF Before
<1>4. ~ (c < k) /\ ~ (k < c)
  BY <1>1, <1>3 DEF ListOK
<1>5. c = k
  BY <1>2, <1>4
<1> QED BY <1>5 DEF c

\* An area of a list replaced by a part of it.
LEMMA ReplaceOK ==
  ASSUME NEW list, ListOK(list), NEW k \in DOMAIN list, NEW b \in AreaSet, PieceOf(b, list[k])
  PROVE  LET new == [list EXCEPT ![k] = b]
         IN  ListOK(new) /\ Elems(new) = (Elems(list) \ {list[k]}) \cup {b}
<1> DEFINE new == [list EXCEPT ![k] = b]
<1>1. Len(list) \in Nat /\ DOMAIN list = 1 .. Len(list) /\ list \in Seq(AreaSet)
      /\ \A i \in DOMAIN list : list[i] \in AreaSet
  BY ElemsType DEF ListOK
<1>2. new \in Seq(AreaSet) /\ DOMAIN new = DOMAIN list
  BY <1>1
<1>3. \A i \in DOMAIN list : new[i] = IF i = k THEN b ELSE list[i]
  BY <1>1
<1> HIDE DEF new
<1>4. ASSUME NEW i \in DOMAIN list
      PROVE  PieceOf(new[i], list[i]) /\ new[i] \in AreaSet
  <2>1. PieceOf(list[i], list[i])
    BY <1>1, AreaFields DEF PieceOf
  <2> QED BY <1>1, <1>3, <2>1
<1>5. ASSUME NEW i \in DOMAIN new, NEW j \in DOMAIN new, i < j
      PROVE  Before(new[i], new[j])
  <2>1. Before(list[i], list[j])
    BY <1>2, <1>5 DEF ListOK
  <2> QED BY <1>1, <1>2, <1>4, <2>1, PiecesBefore
<1>6. ListOK(new)
  BY <1>2, <1>5 DEF ListOK
<1>7. \A i \in DOMAIN list : i # k => list[i] # list[k]
  <2>1. ASSUME NEW i \in DOMAIN list, list[i] = list[k]
        PROVE  i = k
    <3>1. (CHOOSE m \in DOMAIN list : list[m] = list[i]) = i
      BY PlaceIs
    <3>2. (CHOOSE m \in DOMAIN list : list[m] = list[k]) = k
      BY PlaceIs
    <3> QED BY <2>1, <3>1, <3>2
  <2> QED BY <2>1
<1>8. Elems(new) = (Elems(list) \ {list[k]}) \cup {b}
  <2>1. Elems(new) \subseteq (Elems(list) \ {list[k]}) \cup {b}
    BY <1>2, <1>3, <1>7 DEF Elems
  <2>2. b \in Elems(new)
    BY <1>2, <1>3 DEF Elems
  <2>3. Elems(list) \ {list[k]} \subseteq Elems(new)
    BY <1>2, <1>3 DEF Elems
  <2> QED BY <2>1, <2>2, <2>3
<1> QED
  BY <1>6, <1>8 DEF new

\* The part of a huge area that a break makes small is whole huge-page ranges of it.
LEMMA BrokenIs ==
  ASSUME NEW a \in AreaSet, NEW x \in Int, NEW l \in Int, x < l,
         x % HugeSize = 0, l % HugeSize = 0,
         a.type = "huge" => ~ (a.start < x /\ x < a.end /\ a.end < l)
  PROVE  LET v == BrokenRange(a, x, l)
         IN  /\ v.prot = a.prot /\ v.type = "normal" /\ v.start \in Int /\ v.end \in Int
             /\ v.start # v.end =>
                  /\ a.type = "huge" /\ v \in AreaSet
                  /\ a.start <= v.start /\ v.start < v.end /\ v.end <= a.end
                  /\ x <= v.start /\ v.end <= l
                  /\ v.start % HugeSize = 0 /\ v.end % HugeSize = 0
                  /\ \/ a.start >= x /\ a.end <= l /\ v.start = a.start /\ v.end = a.end
                     \/ a.start >= x /\ a.end > l /\ v.start = a.start /\ v.end = l
                     \/ a.start < x /\ l < a.end /\ v.start = x /\ v.end = l
<1> DEFINE v == BrokenRange(a, x, l)
<1>1. /\ a.start \in Nat /\ a.end \in Nat /\ a.start < a.end /\ Dummy.end <= a.start
      /\ a.prot \in Prots /\ a.type \in {"normal", "huge"}
      /\ a.type = "huge" => a.start % HugeSize = 0 /\ a.end % HugeSize = 0
  BY AreaFields DEF UnitOf
<1>2. v.prot = a.prot /\ v.type = "normal"
  BY <1>1 DEF BrokenRange, Area
<1>3. /\ v.start \in Int /\ v.end \in Int
      /\ v.start # v.end =>
           /\ a.type = "huge"
           /\ \/ a.start >= x /\ a.end <= l /\ v.start = a.start /\ v.end = a.end
              \/ a.start >= x /\ a.start < l /\ a.end > l /\ v.start = a.start /\ v.end = l
              \/ a.start < x /\ l < a.end /\ v.start = x /\ v.end = l
  BY <1>1 DEF BrokenRange, Area
<1>4. v = Area(v.start, v.end, a.prot, "normal")
  BY <1>1 DEF BrokenRange, Area
<1> HIDE DEF v
<1>5. ASSUME v.start # v.end
      PROVE  /\ a.start <= v.start /\ v.start < v.end /\ v.end <= a.end
             /\ x <= v.start /\ v.end <= l
             /\ v.start % HugeSize = 0 /\ v.end % HugeSize = 0
  BY <1>1, <1>3, <1>5
<1>6. ASSUME v.start # v.end
      PROVE  v \in AreaSet
  <2> DEFINE s == v.start
             e == v.end
  <2>1. s \in Int /\ e \in Int /\ s < e /\ Dummy.end <= s
    BY <1>1, <1>3, <1>5, <1>6, DummyEnd
  <2>2. s % PageSize = 0 /\ e % PageSize = 0
    <3>1. s % HugeSize = 0 /\ e % HugeSize = 0
      BY <1>5, <1>6
    <3> HIDE DEF s, e
    <3> QED BY <2>1, <3>1, Sizes, Zenon
  <2> HIDE DEF s, e
  <2>3. Area(s, e, a.prot, "normal") \in AreaSet
    BY <1>1, <2>1, <2>2, NewArea
  <2> QED BY <1>4, <2>3 DEF s, e
<1> QED
  BY <1>2, <1>3, <1>5, <1>6 DEF v

\* What the loop of break_hugepage keeps.
BreakStates == {st \in [list : Seq(AreaSet), stray : BOOLEAN, lost : Nat] : ListOK(st.list)}

\* The loop's step for one area: the area's broken part becomes small, and the other
\* huge areas stay.
LEMMA BreakAreaOK ==
  ASSUME NEW st \in BreakStates, NEW a \in AreaSet, NEW x \in Int, NEW l \in Int, x < l,
         x % HugeSize = 0, l % HugeSize = 0,
         a.type = "huge" => /\ ~ (a.start < x /\ x < a.end /\ a.end < l)
                            /\ a \in Elems(st.list)
                            /\ a.start >= x /\ a.end <= l => st.list[1] = a
  PROVE  LET new == BreakArea(st, a, x, l)
             v   == BrokenRange(a, x, l)
         IN  /\ new \in BreakStates
             /\ \A y \in Int : \A p, t : Has(new.list, y, p, t) <=>
                  IF Holds(v, y) THEN p = a.prot /\ t = "normal" ELSE Has(st.list, y, p, t)
             /\ \A b \in Elems(st.list) : b # a /\ b.type = "huge" => b \in Elems(new.list)
<1> DEFINE new  == BreakArea(st, a, x, l)
           v    == BrokenRange(a, x, l)
           list == st.list
           k    == CHOOSE i \in DOMAIN list : list[i] = a
           Good == /\ new \in BreakStates
                   /\ \A y \in Int : \A p, t : Has(new.list, y, p, t) <=>
                        IF Holds(v, y) THEN p = a.prot /\ t = "normal" ELSE Has(list, y, p, t)
                   /\ \A b \in Elems(list) : b # a /\ b.type = "huge" => b \in Elems(new.list)
<1>1. /\ v.prot = a.prot /\ v.type = "normal" /\ v.start \in Int /\ v.end \in Int
      /\ v.start # v.end =>
           /\ a.type = "huge" /\ v \in AreaSet
           /\ a.start <= v.start /\ v.start < v.end /\ v.end <= a.end
           /\ x <= v.start /\ v.end <= l
           /\ v.start % HugeSize = 0 /\ v.end % HugeSize = 0
           /\ \/ a.start >= x /\ a.end <= l /\ v.start = a.start /\ v.end = a.end
              \/ a.start >= x /\ a.end > l /\ v.start = a.start /\ v.end = l
              \/ a.start < x /\ l < a.end /\ v.start = x /\ v.end = l
  BY BrokenIs
<1>2. ListOK(list) /\ st.stray \in BOOLEAN /\ st.lost \in Nat
      /\ st \in [list : Seq(AreaSet), stray : BOOLEAN, lost : Nat]
  BY DEF BreakStates
<1>3. Len(list) \in Nat /\ DOMAIN list = 1 .. Len(list) /\ Elems(list) \subseteq AreaSet
      /\ \A i \in DOMAIN list : list[i] \in AreaSet /\ list[i] \in Elems(list)
  BY <1>2, ElemsType
<1>4. /\ a.start \in Nat /\ a.end \in Nat /\ a.start < a.end
      /\ l % UnitOf(a) = 0 /\ x % UnitOf(a) = 0
  BY AreaFields, UnitIs
<1> HIDE DEF v
<1>5. ASSUME v.start = v.end
      PROVE  Good
  <2>1. new = st
    BY <1>5 DEF BreakArea, v
  <2>2. \A y \in Int : ~ Holds(v, y)
    BY <1>1, <1>5 DEF Holds
  <2> HIDE DEF new
  <2> QED BY <2>1, <2>2
<1>6. ASSUME v.start # v.end
      PROVE  Good
  <2>1. a \in Elems(list) /\ a.type = "huge"
        /\ (a.start >= x /\ a.end <= l => list[1] = a)
    BY <1>1, <1>6
  <2>2. k \in DOMAIN list /\ list[k] = a
    BY <2>1 DEF Elems
  <2> DEFINE Put1(rest) == sorted_Insert(rest, v)
  <2>3. ASSUME NEW rest, ListOK(rest),
               \A b \in Elems(rest) : b.end <= v.start \/ v.end <= b.start,
               \A y \in Int : \A p, t : ~ Holds(v, y) => (Has(rest, y, p, t) <=> Has(list, y, p, t)),
               \A b \in Elems(list) : b # a => b \in Elems(rest),
               NEW n \in Nat,
               new = [list |-> Put1(rest).list, stray |-> st.stray \/ Put1(rest).stray,
                      lost |-> st.lost + n]
        PROVE  Good
    <3> DEFINE R == Put1(rest)
    <3>1. v \in AreaSet
      BY <1>1, <1>6
    <3>2. /\ ListOK(R.list)
          /\ \A y \in Int : \A p, t : Has(R.list, y, p, t) <=>
                Has(rest, y, p, t) \/ (Holds(v, y) /\ v.prot = p /\ v.type = t)
          /\ \A b \in Elems(rest) : b.type # v.type => b \in Elems(R.list)
          /\ R.stray \in BOOLEAN
      BY <2>3, <3>1, InsertOK
    <3> HIDE DEF R
    <3>3. new.list = R.list /\ new \in BreakStates
      BY <1>2, <2>3, <3>2 DEF BreakStates, ListOK, R
    <3>4. \A y \in Int : \A p, t : Holds(v, y) => ~ Has(rest, y, p, t)
      <4> SUFFICES ASSUME NEW y \in Int, Holds(v, y), NEW b \in Elems(rest), Holds(b, y)
                   PROVE  FALSE
        BY DEF Has
      <4>1. b.start \in Nat /\ b.end \in Nat
        BY <2>3, ElemsType, AreaFields
      <4> QED BY <1>1, <2>3, <4>1 DEF Holds
    <3>5. \A y \in Int : \A p, t : Has(R.list, y, p, t) <=>
             IF Holds(v, y) THEN p = a.prot /\ t = "normal" ELSE Has(list, y, p, t)
      BY <1>1, <2>3, <3>2, <3>4
    <3>6. \A b \in Elems(list) : b # a /\ b.type = "huge" => b \in Elems(R.list)
      BY <1>1, <2>3, <3>2
    <3> HIDE DEF new
    <3> QED BY <3>3, <3>5, <3>6
  <2> HIDE DEF k
  <2>4. ASSUME NEW c \in Elems(list), c # a
        PROVE  /\ c.end <= a.start \/ a.end <= c.start
               /\ c.start \in Nat /\ c.end \in Nat
    <3>1. PICK i \in DOMAIN list : c = list[i]
      BY DEF Elems
    <3>2. i < k \/ k < i
      BY <1>3, <2>2, <2>4, <3>1
    <3>3. Before(c, a) \/ Before(a, c)
      BY <1>2, <2>2, <3>1, <3>2 DEF ListOK
    <3> QED BY <1>3, <3>3, AreaFields DEF Before
  <2>5. \A y \in Int : \A p, t : Has(list, y, p, t) <=>
           \/ Holds(a, y) /\ p = a.prot /\ t = a.type
           \/ \E c \in Elems(list) \ {a} : Holds(c, y) /\ c.prot = p /\ c.type = t
    BY <2>1 DEF Has
  <2>6. CASE a.start >= x /\ a.end <= l
    <3> DEFINE rest == SubSeq(list, k + 1, Len(list))
    <3>1. k = 1
      <4>1. 1 \in DOMAIN list
        BY <1>3, <2>2
      <4>2. (CHOOSE i \in DOMAIN list : list[i] = list[1]) = 1
        <5> HIDE DEF list
        <5> QED BY <1>2, <4>1, PlaceIs
      <4> QED BY <2>1, <2>6, <4>2 DEF k
    <3>2. new = [list |-> Put1(rest).list, stray |-> st.stray \/ Put1(rest).stray,
                 lost |-> st.lost + (k - 1)]
      BY <1>4, <1>6, <2>6 DEF BreakArea, v, k
    <3>3. ListOK(rest) /\ Elems(rest) = {list[i] : i \in k + 1 .. Len(list)}
      <4> HIDE DEF list
      <4>1. k + 1 \in Int /\ Len(list) \in Int /\ 1 <= k + 1 /\ Len(list) <= Len(list)
        BY <1>3, <3>1
      <4> QED BY <1>2, <4>1, SubOK
    <3>4. Elems(rest) = Elems(list) \ {a}
      <4>1. \A i \in k + 1 .. Len(list) : i \in DOMAIN list /\ k < i
        BY <1>3, <3>1
      <4>2. \A i \in DOMAIN list : i # k => i \in k + 1 .. Len(list)
        BY <1>3, <3>1
      <4>3. \A i \in k + 1 .. Len(list) : list[i] # a
        <5> SUFFICES ASSUME NEW i \in k + 1 .. Len(list), list[i] = a PROVE FALSE
          OBVIOUS
        <5>1. Before(a, a)
          BY <1>2, <2>2, <4>1 DEF ListOK
        <5> QED BY <1>4, <5>1 DEF Before
      <4> HIDE DEF rest, list
      <4>4. Elems(rest) \subseteq Elems(list) \ {a}
        BY <1>3, <3>3, <4>1, <4>3
      <4>5. Elems(list) \ {a} \subseteq Elems(rest)
        BY <2>2, <3>3, <4>2 DEF Elems
      <4> QED BY <4>4, <4>5
    <3>5. v.start = a.start /\ v.end = a.end
      BY <1>1, <1>4, <1>6, <2>6
    <3>6. \A b \in Elems(rest) : b.end <= v.start \/ v.end <= b.start
      BY <2>4, <3>4, <3>5
    <3>7. \A y \in Int : \A p, t : ~ Holds(v, y) => (Has(rest, y, p, t) <=> Has(list, y, p, t))
      <4>1. \A y \in Int : Holds(v, y) <=> Holds(a, y)
        BY <3>5 DEF Holds
      <4> HIDE DEF rest, list
      <4> QED BY <2>5, <3>4, <4>1 DEF Has
    <3> DEFINE n == k - 1
    <3>8. n \in Nat /\ n = k - 1
      BY <3>1
    <3> HIDE DEF rest, new, Good, list, n, Put1
    <3>9. \A b \in Elems(list) : b # a => b \in Elems(rest)
      BY <3>4
    <3> QED BY <2>3, <3>2, <3>3, <3>6, <3>7, <3>8, <3>9
  <2>7. CASE a.start >= x /\ a.end > l
    <3> DEFINE b == [a EXCEPT !.start = l]
               rest == [list EXCEPT ![k] = b]
    <3>1. v.start = a.start /\ v.end = l /\ a.start < l
      BY <1>1, <1>4, <1>6, <2>7
    <3>2. b \in AreaSet /\ b.start = l /\ b.end = a.end /\ b.prot = a.prot /\ b.type = a.type
      BY <1>4, <2>7, <3>1, CutAbove
    <3>3. new = [list |-> Put1(rest).list, stray |-> st.stray \/ Put1(rest).stray,
                 lost |-> st.lost + 0]
      <4>1. [list EXCEPT ![k].start = l] = rest
        BY <2>2
      <4>2. new = [list |-> Put1([list EXCEPT ![k].start = l]).list,
                   stray |-> st.stray \/ Put1([list EXCEPT ![k].start = l]).stray,
                   lost |-> st.lost + 0]
        BY <1>4, <1>6, <2>7 DEF BreakArea, v, k
      <4> HIDE DEF rest, new
      <4> QED BY <4>1, <4>2
    <3> HIDE DEF b
    <3>4. ListOK(rest) /\ Elems(rest) = (Elems(list) \ {a}) \cup {b}
      <4>1. PieceOf(b, list[k])
        BY <1>4, <2>2, <3>1, <3>2 DEF PieceOf
      <4> HIDE DEF list
      <4>2. ListOK(rest) /\ Elems(rest) = (Elems(list) \ {list[k]}) \cup {b}
        <5>1. k \in DOMAIN list /\ b \in AreaSet /\ ListOK(list)
          BY <1>2, <2>2, <3>2
        <5>2. ListOK([list EXCEPT ![k] = b])
          BY <4>1, <5>1, ReplaceOK
        <5>3. Elems([list EXCEPT ![k] = b]) = (Elems(list) \ {list[k]}) \cup {b}
          BY <4>1, <5>1, ReplaceOK
        <5> QED BY <5>2, <5>3
      <4> QED BY <2>2, <4>2
    <3> HIDE DEF rest
    <3>5. ASSUME NEW c \in Elems(rest)
          PROVE  c.end <= v.start \/ v.end <= c.start
      <4>1. CASE c = b
        BY <3>1, <3>2, <4>1, <1>4
      <4>2. CASE c # b
        <5>1. c \in Elems(list) /\ c # a
          BY <3>4, <4>2
        <5> QED BY <1>4, <2>4, <2>7, <3>1, <5>1
      <4> QED BY <4>1, <4>2
    <3>6. ASSUME NEW y \in Int, NEW p, NEW t, ~ Holds(v, y)
          PROVE  Has(rest, y, p, t) <=> Has(list, y, p, t)
      <4>1. Holds(a, y) <=> Holds(b, y)
        BY <1>4, <2>7, <3>1, <3>2, <3>6 DEF Holds
      <4> HIDE DEF list
      <4>2. Has(rest, y, p, t) <=>
              \/ Holds(b, y) /\ p = b.prot /\ t = b.type
              \/ \E c \in Elems(list) \ {a} : Holds(c, y) /\ c.prot = p /\ c.type = t
        BY <3>4 DEF Has
      <4> QED BY <2>5, <3>2, <4>1, <4>2
    <3>7. \A c \in Elems(list) : c # a => c \in Elems(rest)
      BY <3>4
    <3> DEFINE n == 0
    <3>8. n \in Nat /\ n = 0
      OBVIOUS
    <3>9. new = [list |-> Put1(rest).list, stray |-> st.stray \/ Put1(rest).stray,
                 lost |-> st.lost + n]
      BY <3>3
    <3> HIDE DEF new, Good, list, n, Put1
    <3> QED BY <2>3, <3>4, <3>5, <3>6, <3>7, <3>8, <3>9
  <2>8. CASE a.start < x /\ l < a.end
    <3> DEFINE lo   == [a EXCEPT !.end = x]
               hi   == [a EXCEPT !.start = l]
               low  == SubSeq(list, 1, k - 1)
               high == SubSeq(list, k + 1, Len(list))
               mid  == <<lo, v, hi>>
    <3>1. v.start = x /\ v.end = l /\ v \in AreaSet
      BY <1>1, <1>4, <1>6, <2>8
    <3>2. lo \in AreaSet /\ lo.start = a.start /\ lo.end = x /\ lo.prot = a.prot /\ lo.type = a.type
      <4>1. x <= a.end
        BY <1>4, <2>8
      <4> QED BY <1>4, <2>8, <4>1, CutBelow
    <3>3. hi \in AreaSet /\ hi.start = l /\ hi.end = a.end /\ hi.prot = a.prot /\ hi.type = a.type
      <4>1. a.start <= l
        BY <1>4, <2>8
      <4> QED BY <1>4, <2>8, <4>1, CutAbove
    <3>4. new = [st EXCEPT !.list = low \o mid \o high]
      BY <1>4, <1>6, <2>8 DEF BreakArea, v, k
    <3> HIDE DEF lo, hi
    <3>5. ListOK(mid) /\ Elems(mid) = {lo, v, hi}
      <4> DEFINE two == <<lo, v>>
                 one == <<hi>>
      <4>1. Before(lo, v) /\ Before(lo, hi) /\ Before(v, hi)
        BY <1>1, <1>4, <1>6, <2>1, <3>1, <3>2, <3>3 DEF Before, Mergeable
      <4>2. ListOK(two) /\ Elems(two) = {lo, v}
        BY <3>1, <3>2, <4>1, TwoOK
      <4>3. ListOK(one) /\ Elems(one) = {hi}
        BY <3>3, OneOK
      <4>4. mid = two \o one
        OBVIOUS
      <4> HIDE DEF two, one, mid
      <4> QED BY <4>1, <4>2, <4>3, <4>4, CatOK
    <3> HIDE DEF mid
    <3>6. ListOK(low) /\ Elems(low) = {list[i] : i \in 1 .. k - 1}
      <4>1. k - 1 \in Int /\ 1 <= 1 /\ k - 1 <= Len(list)
        BY <1>3, <2>2
      <4> HIDE DEF list
      <4> QED BY <1>2, <4>1, SubOK
    <3>7. ListOK(high) /\ Elems(high) = {list[i] : i \in k + 1 .. Len(list)}
      <4>1. k + 1 \in Int /\ Len(list) \in Int /\ 1 <= k + 1 /\ Len(list) <= Len(list)
        BY <1>3, <2>2
      <4> HIDE DEF list
      <4> QED BY <1>2, <4>1, SubOK
    <3>8. ASSUME NEW i \in 1 .. k - 1
          PROVE  i \in DOMAIN list /\ Before(list[i], a)
      <4>1. i \in DOMAIN list /\ i < k
        BY <1>3, <2>2
      <4> QED BY <1>2, <2>2, <4>1 DEF ListOK
    <3>9. ASSUME NEW i \in k + 1 .. Len(list)
          PROVE  i \in DOMAIN list /\ Before(a, list[i])
      <4>1. i \in DOMAIN list /\ k < i
        BY <1>3, <2>2
      <4> QED BY <1>2, <2>2, <4>1 DEF ListOK
    <3>10. ASSUME NEW c \in Elems(low)
           PROVE  /\ c \in Elems(list) /\ c # a
                  /\ \A d \in Elems(mid) : Before(c, d)
                  /\ \A d \in Elems(high) : Before(c, d)
      <4>1. PICK i \in 1 .. k - 1 : c = list[i]
        BY <3>6
      <4>2. c \in Elems(list) /\ Before(c, a) /\ c \in AreaSet /\ i \in DOMAIN list
        BY <1>3, <3>8, <4>1
      <4>3. c.start \in Nat /\ c.end \in Nat /\ c.start < c.end
        BY <4>2, AreaFields
      <4>4. c # a
        BY <1>4, <4>2 DEF Before
      <4>5. Before(c, lo) /\ Before(c, v) /\ Before(c, hi)
        BY <1>4, <2>8, <3>1, <3>2, <3>3, <4>2, <4>3 DEF Before, Mergeable
      <4>6. ASSUME NEW d \in Elems(high)
            PROVE  Before(c, d)
        <5>1. PICK j \in k + 1 .. Len(list) : d = list[j]
          BY <3>7
        <5>2. j \in DOMAIN list /\ i < j
          BY <1>3, <2>2, <3>9, <4>1, <5>1
        <5> QED BY <1>2, <4>1, <4>2, <5>1, <5>2 DEF ListOK
      <4> QED BY <3>5, <4>2, <4>4, <4>5, <4>6
    <3>11. ASSUME NEW d \in Elems(high)
           PROVE  /\ d \in Elems(list) /\ d # a
                  /\ \A c \in Elems(mid) : Before(c, d)
      <4>1. PICK i \in k + 1 .. Len(list) : d = list[i]
        BY <3>7
      <4>2. d \in Elems(list) /\ Before(a, d) /\ d \in AreaSet
        BY <1>3, <3>9, <4>1
      <4>3. d.start \in Nat /\ d.end \in Nat /\ d.start < d.end
        BY <4>2, AreaFields
      <4>4. d # a
        BY <1>4, <4>2 DEF Before
      <4>5. Before(lo, d) /\ Before(v, d) /\ Before(hi, d)
        BY <1>4, <2>8, <3>1, <3>2, <3>3, <4>2, <4>3 DEF Before, Mergeable
      <4> QED BY <3>5, <4>2, <4>4, <4>5
    <3> DEFINE lm == low \o mid
               R  == lm \o high
    <3> HIDE DEF low, high, list
    <3>12. ListOK(lm) /\ Elems(lm) = Elems(low) \cup Elems(mid)
      BY <3>5, <3>6, <3>10, CatOK
    <3> HIDE DEF lm
    <3>13. ListOK(R) /\ Elems(R) = Elems(low) \cup Elems(mid) \cup Elems(high)
      <4>1. \A c \in Elems(lm), d \in Elems(high) : Before(c, d)
        BY <3>10, <3>11, <3>12
      <4> QED BY <3>7, <3>12, <4>1, CatOK
    <3> HIDE DEF R
    <3>14. Elems(R) = (Elems(list) \ {a}) \cup {lo, v, hi}
      <4>1. Elems(list) \ {a} \subseteq Elems(low) \cup Elems(high)
        <5> SUFFICES ASSUME NEW c \in Elems(list), c # a PROVE c \in Elems(low) \cup Elems(high)
          OBVIOUS
        <5>1. PICK i \in DOMAIN list : c = list[i]
          BY DEF Elems
        <5>2. i # k
          BY <2>2, <5>1
        <5>3. i \in 1 .. k - 1 \/ i \in k + 1 .. Len(list)
          BY <1>3, <2>2, <5>1, <5>2
        <5> QED BY <3>6, <3>7, <5>1, <5>3
      <4> QED BY <3>5, <3>10, <3>11, <3>13, <4>1
    <3>15. new.list = R /\ new \in BreakStates
      <4>1. new = [st EXCEPT !.list = R]
        BY <3>4 DEF R, lm
      <4> HIDE DEF new
      <4> QED BY <1>2, <3>13, <4>1 DEF BreakStates, ListOK
    <3>16. ASSUME NEW y \in Int, NEW p, NEW t
           PROVE  Has(R, y, p, t) <=>
                    IF Holds(v, y) THEN p = a.prot /\ t = "normal" ELSE Has(list, y, p, t)
      <4>1. Has(R, y, p, t) <=>
              \/ Holds(lo, y) /\ p = a.prot /\ t = a.type
              \/ Holds(v, y) /\ p = a.prot /\ t = "normal"
              \/ Holds(hi, y) /\ p = a.prot /\ t = a.type
              \/ \E c \in Elems(list) \ {a} : Holds(c, y) /\ c.prot = p /\ c.type = t
        BY <1>1, <3>2, <3>3, <3>14 DEF Has
      <4>2. Holds(v, y) => ~ Holds(lo, y) /\ ~ Holds(hi, y) /\ Holds(a, y)
        BY <1>4, <2>8, <3>1, <3>2, <3>3 DEF Holds
      <4>3. ~ Holds(v, y) => (Holds(a, y) <=> Holds(lo, y) \/ Holds(hi, y))
        BY <1>4, <2>8, <3>1, <3>2, <3>3 DEF Holds
      <4>4. Holds(a, y) => ~ \E c \in Elems(list) \ {a} : Holds(c, y)
        BY <1>4, <2>4 DEF Holds
      <4>5. CASE Holds(v, y)
        BY <4>1, <4>2, <4>4, <4>5
      <4>6. CASE ~ Holds(v, y)
        BY <2>5, <4>1, <4>3, <4>6
      <4> QED BY <4>5, <4>6
    <3>17. \A b \in Elems(list) : b # a /\ b.type = "huge" => b \in Elems(R)
      BY <3>14
    <3> HIDE DEF new
    <3> QED BY <3>15, <3>16, <3>17
  <2> QED
    BY <1>1, <1>4, <1>6, <2>6, <2>7, <2>8
<1> HIDE DEF new, list
<1> QED
  BY <1>5, <1>6 DEF new, list, v

\* The calls that the loop serves as it should: what is in the guard of FreeHuge.
BreakWell(list, x, l) ==
    \A i \in DOMAIN list : list[i].type = "huge" =>
        /\ ~ (list[i].start < x /\ x < list[i].end /\ list[i].end < l)
        /\ list[i].start >= x /\ list[i].end <= l => i = 1

\* y is in the broken part of one of the first j areas.
Broken(list, j, x, l, y) == \E i \in 1 .. j : Holds(BrokenRange(list[i], x, l), y)

\* The loop by its recursion equations.
LEMMA BreakIs ==
  ASSUME NEW list, Len(list) \in Nat, NEW addr \in Int, NEW length \in Int
  PROVE  \E g : /\ g[0] = [list |-> list, stray |-> FALSE, lost |-> 0]
                /\ \A i \in 1 .. Len(list) : g[i] = BreakArea(g[i - 1], list[i], addr, addr + length)
                /\ vm_area_break_hugepage(list, addr, length) = g[Len(list)]
<1> DEFINE n  == Len(list)
           x0 == [list |-> list, stray |-> FALSE, lost |-> 0]
           F(st, i) == BreakArea(st, list[i], addr, addr + length)
           Upto(g, j) == g = [i \in 0 .. j |-> IF i = 0 THEN x0 ELSE F(g[i - 1], i)]
           G == {j \in 0 .. n : \E g : Upto(g, j)}
           after == CHOOSE g : Upto(g, n)
<1>1. vm_area_break_hugepage(list, addr, length) = after[n]
  BY DEF vm_area_break_hugepage
<1>0. n \in Nat /\ 0 \in 0 .. n
  OBVIOUS
<1> HIDE DEF F, x0, n
<1>2. 0 \in G
  <2> DEFINE g == [i \in 0 .. 0 |-> x0]
  <2>1. Upto(g, 0)
    OBVIOUS
  <2> HIDE DEF g
  <2> QED BY <1>0, <2>1
<1>3. ASSUME NEW j \in 0 .. n - 1, j \in G
      PROVE  j + 1 \in G
  <2>1. PICK g : Upto(g, j)
    BY <1>3
  <2> DEFINE m == j + 1
             h == [i \in 0 .. m |-> IF i = m THEN F(g[j], m) ELSE g[i]]
  <2>2. /\ m \in Nat /\ m # 0 /\ m - 1 = j /\ j \in 0 .. j /\ m \in 0 .. n
        /\ \A i \in 0 .. m : i # m => i \in 0 .. j
        /\ \A i \in 0 .. m : i # 0 => i - 1 \in 0 .. m /\ i - 1 # m
    BY <1>0
  <2>3. \A i \in 0 .. j : g[i] = IF i = 0 THEN x0 ELSE F(g[i - 1], i)
    BY <2>1
  <2> HIDE DEF m
  <2>4. \A i \in 0 .. m : h[i] = IF i = m THEN F(g[j], m) ELSE g[i]
    OBVIOUS
  <2>5. ASSUME NEW i \in 0 .. m
        PROVE  h[i] = IF i = 0 THEN x0 ELSE F(h[i - 1], i)
    <3> HIDE DEF h
    <3>1. CASE i = m
      <4>1. h[i - 1] = g[j]
        BY <2>2, <2>4, <3>1
      <4> QED BY <2>2, <2>4, <3>1, <4>1
    <3>2. CASE i # m
      <4>1. h[i] = g[i] /\ i \in 0 .. j
        BY <2>2, <2>4, <3>2
      <4>2. i # 0 => h[i - 1] = g[i - 1]
        BY <2>2, <2>4
      <4> QED BY <2>3, <4>1, <4>2
    <3> QED BY <3>1, <3>2
  <2>6. h = [i \in 0 .. m |-> h[i]]
    OBVIOUS
  <2>7. Upto(h, m)
    <3> HIDE DEF h
    <3> QED BY <2>5, <2>6
  <2> QED BY <2>2, <2>7 DEF m
<1>4. \A j \in 0 .. n : j \in G
  <2>1. n \in Nat /\ 0 \in Nat
    BY DEF n
  <2> HIDE DEF G
  <2> QED BY <1>2, <1>3, <2>1, IntervalInduction
<1>5. Upto(after, n)
  <2>1. n \in 0 .. n
    BY DEF n
  <2>2. \E g : Upto(g, n)
    BY <1>4, <2>1
  <2> HIDE DEF Upto
  <2> QED BY <2>2
<1> HIDE DEF after
<1>6. after[0] = x0 /\ \A i \in 1 .. n : after[i] = F(after[i - 1], i)
  <2>1. \A i \in 0 .. n : after[i] = IF i = 0 THEN x0 ELSE F(after[i - 1], i)
    BY <1>5
  <2>2. 0 \in 0 .. n /\ \A i \in 1 .. n : i \in 0 .. n /\ i # 0
    BY DEF n
  <2> HIDE DEF Upto
  <2> QED BY <2>1, <2>2, Zenon
<1> QED
  BY <1>1, <1>6 DEF F, x0, n

\* break_hugepage turns the broken parts into small-page areas of the same
\* protection and changes nothing else.
LEMMA BreakOK ==
  ASSUME NEW list, ListOK(list), NEW addr \in Int, NEW length \in Int, length > 0,
         addr % HugeSize = 0, (addr + length) % HugeSize = 0, BreakWell(list, addr, addr + length)
  PROVE  LET new == vm_area_break_hugepage(list, addr, length)
         IN  /\ new \in BreakStates
             /\ \A y \in Int : \A p, t : Has(new.list, y, p, t) <=>
                  IF Broken(list, Len(list), addr, addr + length, y)
                  THEN t = "normal" /\ Has(list, y, p, "huge")
                  ELSE Has(list, y, p, t)
<1> DEFINE x == addr
           l == addr + length
           n == Len(list)
           x0 == [list |-> list, stray |-> FALSE, lost |-> 0]
           V(i) == BrokenRange(list[i], x, l)
           Turned(j, y, p, t) == IF Broken(list, j, x, l, y)
                                 THEN t = "normal" /\ Has(list, y, p, "huge")
                                 ELSE Has(list, y, p, t)
           Good(st, j) == /\ st \in BreakStates
                          /\ \A y \in Int : \A p, t : Has(st.list, y, p, t) <=> Turned(j, y, p, t)
                          /\ \A i \in DOMAIN list : j < i /\ list[i].type = "huge" =>
                               list[i] \in Elems(st.list)
<1>1. /\ n \in Nat /\ DOMAIN list = 1 .. n
      /\ \A i \in DOMAIN list : list[i] \in AreaSet /\ list[i] \in Elems(list)
  BY ElemsType
<1>2. x \in Int /\ l \in Int /\ x < l /\ x % HugeSize = 0 /\ l % HugeSize = 0
  OBVIOUS
<1>3. BreakWell(list, x, l)
  OBVIOUS
<1>4. PICK g : /\ g[0] = x0
               /\ \A i \in 1 .. n : g[i] = BreakArea(g[i - 1], list[i], x, l)
               /\ vm_area_break_hugepage(list, addr, length) = g[n]
  <2>1. Len(list) \in Nat
    BY <1>1
  <2> QED BY <2>1, BreakIs
<1> DEFINE G == {j \in 0 .. n : Good(g[j], j)}
<1>5. 0 \in G
  <2>1. g[0] \in BreakStates /\ g[0].list = list
    BY <1>4 DEF BreakStates, ListOK
  <2>2. \A y : ~ Broken(list, 0, x, l, y)
    BY DEF Broken
  <2>3. 0 \in 0 .. n
    BY <1>1
  <2> HIDE DEF x0, l, n
  <2> QED BY <1>1, <2>1, <2>2, <2>3
<1> HIDE DEF x, l, n
<1>6. ASSUME NEW j \in 0 .. n - 1, j \in G
      PROVE  j + 1 \in G
  <2> DEFINE m  == j + 1
             a  == list[m]
             st == g[j]
             nw == g[m]
             v  == BrokenRange(a, x, l)
  <2>1. m \in DOMAIN list /\ m \in 1 .. n /\ m \in 0 .. n /\ m - 1 = j /\ j < m /\ 1 .. m = 1 .. j \cup {m}
    BY <1>1
  <2>2. Good(st, j)
    BY <1>6
  <2>3. nw = BreakArea(st, a, x, l)
    <3> HIDE DEF m
    <3>1. g[m] = BreakArea(g[m - 1], list[m], x, l)
      BY <1>4, <2>1
    <3> QED BY <2>1, <3>1
  <2>4. a \in AreaSet /\ a \in Elems(list) /\ a.type \in {"normal", "huge"}
    BY <1>1, <2>1, AreaFields
  <2>5. a.type = "huge" => /\ ~ (a.start < x /\ x < a.end /\ a.end < l)
                           /\ a.start >= x /\ a.end <= l => m = 1
                           /\ a \in Elems(st.list)
    <3> HIDE DEF m
    <3> QED BY <1>3, <2>1, <2>2 DEF BreakWell
  <2>6. a.type = "huge" => (a.start >= x /\ a.end <= l => st.list[1] = a)
    <3>1. m = 1 => j = 0
      BY <2>1
    <3>2. g[0].list = list
      BY <1>4
    <3> HIDE DEF m
    <3> QED BY <2>5, <3>1, <3>2
  <2> HIDE DEF m, a, st, nw, v, Good
  <2>7. /\ nw \in BreakStates
        /\ \A y \in Int : \A p, t : Has(nw.list, y, p, t) <=>
              IF Holds(v, y) THEN p = a.prot /\ t = "normal" ELSE Has(st.list, y, p, t)
        /\ \A b \in Elems(st.list) : b # a /\ b.type = "huge" => b \in Elems(nw.list)
    <3>1. st \in BreakStates
      BY <2>2 DEF Good
    <3>2. a.type = "huge" => /\ ~ (a.start < x /\ x < a.end /\ a.end < l)
                             /\ a \in Elems(st.list)
                             /\ a.start >= x /\ a.end <= l => st.list[1] = a
      BY <2>5, <2>6
    <3> DEFINE R == BreakArea(st, a, x, l)
    <3>3. R \in BreakStates
      BY <1>2, <2>4, <3>1, <3>2, BreakAreaOK
    <3>4. \A y \in Int : \A p, t : Has(R.list, y, p, t) <=>
              IF Holds(v, y) THEN p = a.prot /\ t = "normal" ELSE Has(st.list, y, p, t)
      BY <1>2, <2>4, <3>1, <3>2, BreakAreaOK DEF v
    <3>5. \A b \in Elems(st.list) : b # a /\ b.type = "huge" => b \in Elems(R.list)
      BY <1>2, <2>4, <3>1, <3>2, BreakAreaOK
    <3> HIDE DEF R
    <3> QED BY <2>3, <3>3, <3>4, <3>5 DEF R
  <2>8. /\ v.start # v.end => a.type = "huge" /\ a.start <= v.start /\ v.end <= a.end
        /\ v.start \in Int /\ v.end \in Int
    <3>1. a.type = "huge" => ~ (a.start < x /\ x < a.end /\ a.end < l)
      BY <2>5
    <3> QED BY <1>2, <2>4, <3>1, BrokenIs DEF v
  <2>9. ASSUME NEW y \in Int, Holds(v, y)
        PROVE  a.type = "huge" /\ Holds(a, y)
    <3>1. v.start # v.end
      BY <2>8, <2>9 DEF Holds
    <3>2. a.start \in Nat /\ a.end \in Nat
      BY <2>4, AreaFields
    <3> QED BY <2>8, <2>9, <3>1, <3>2 DEF Holds
  <2>10. ASSUME NEW y \in Int, NEW p, NEW t
         PROVE  Has(nw.list, y, p, t) <=> Turned(m, y, p, t)
    <3>1. Broken(list, m, x, l, y) <=> Broken(list, j, x, l, y) \/ Holds(v, y)
      BY <2>1 DEF Broken, v, a
    <3>2. CASE Holds(v, y)
      <4>1. Has(list, y, p, "huge") <=> p = a.prot
        <5>1. a.type = "huge" /\ Holds(a, y)
          BY <2>9, <3>2
        <5>2. \A b \in Elems(list) : Holds(b, y) => b = a
          BY <2>4, <5>1, OneHolder
        <5> QED BY <2>4, <5>1, <5>2 DEF Has
      <4> QED BY <2>7, <3>1, <3>2, <4>1
    <3>3. CASE ~ Holds(v, y)
      <4>1. Has(st.list, y, p, t) <=> Turned(j, y, p, t)
        BY <2>2 DEF Good
      <4> QED BY <2>7, <3>1, <3>3, <4>1
    <3> QED BY <3>2, <3>3
  <2>11. ASSUME NEW i \in DOMAIN list, m < i, list[i].type = "huge"
         PROVE  list[i] \in Elems(nw.list)
    <3>1. j < i
      BY <1>1, <2>1, <2>11
    <3>2. list[i] \in Elems(st.list)
      BY <2>2, <2>11, <3>1 DEF Good
    <3>3. list[i] # a
      <4>1. Before(a, list[i])
        BY <2>1, <2>11 DEF ListOK, a
      <4>2. a.start \in Nat /\ a.end \in Nat /\ a.start < a.end
        BY <2>4, AreaFields
      <4> QED BY <4>1, <4>2 DEF Before
    <3> QED BY <2>7, <2>11, <3>2, <3>3
  <2>12. Good(nw, m)
    <3> HIDE DEF Turned
    <3> QED BY <2>7, <2>10, <2>11 DEF Good
  <2> QED BY <2>1, <2>12 DEF m, nw
<1>7. \A j \in 0 .. n : j \in G
  <2> HIDE DEF G
  <2> QED BY <1>1, <1>5, <1>6, IntervalInduction
<1>8. Good(g[n], n)
  <2>1. n \in 0 .. n
    BY <1>1
  <2> HIDE DEF Good
  <2> QED BY <1>7, <2>1
<1> QED
  BY <1>4, <1>8 DEF x, l, n

-------------------------------------------------------------------------------
(* Pages and ranges *)

LEMMA PagesIs ==
  ASSUME NEW s \in Nat, NEW e \in Int
  PROVE  Pages(s, e) = {p \in Nat : s <= p * PageSize /\ p * PageSize < e}
<1> DEFINE j == s \div PageSize
           k == e \div PageSize
<1>1. PageSize \in Nat \ {0}
  BY Sizes
<1>2. /\ j \in Nat /\ k \in Int
      /\ j * PageSize <= s /\ e < k * PageSize + PageSize
      /\ j * PageSize \in Int /\ k * PageSize \in Int
  <2>1. j \in Nat /\ k \in Int
    BY <1>1, DivNat, DivMod
  <2>2. j * PageSize <= s
    BY <1>1, <2>1, DivIs
  <2>3. e < k * PageSize + PageSize
    BY <1>1, <2>1, DivIs
  <2> QED BY <1>1, <2>1, <2>2, <2>3, Times
<1>3. Pages(s, e) = {p \in j .. k : s <= p * PageSize /\ p * PageSize < e}
  BY DEF Pages
<1> HIDE DEF j, k
<1>4. ASSUME NEW p \in Nat, s <= p * PageSize, p * PageSize < e
      PROVE  p \in j .. k
  <2>1. p * PageSize \in Int
    BY <1>1, Times
  <2>2. ~ (p < j)
    <3>1. p < j => p * PageSize + PageSize <= j * PageSize
      BY <1>1, <1>2, TimesLess
    <3> QED BY <1>1, <1>2, <1>4, <2>1, <3>1
  <2>3. ~ (k < p)
    <3>1. k < p => k * PageSize + PageSize <= p * PageSize
      BY <1>1, <1>2, TimesLess
    <3> QED BY <1>1, <1>2, <1>4, <2>1, <3>1
  <2> QED BY <1>2, <2>2, <2>3
<1>5. j .. k \subseteq Nat
  BY <1>2
<1> QED
  BY <1>3, <1>4, <1>5

LEMMA RangesIs ==
  ASSUME NEW s \in Nat, NEW e \in Int
  PROVE  Ranges(s, e) = {h \in Nat : s <= h * HugeSize /\ h * HugeSize < e}
<1> DEFINE j == s \div HugeSize
           k == e \div HugeSize
<1>1. HugeSize \in Nat \ {0}
  BY Sizes
<1>2. /\ j \in Nat /\ k \in Int
      /\ j * HugeSize <= s /\ e < k * HugeSize + HugeSize
      /\ j * HugeSize \in Int /\ k * HugeSize \in Int
  <2>1. j \in Nat /\ k \in Int
    BY <1>1, DivNat, DivMod
  <2>2. j * HugeSize <= s
    BY <1>1, <2>1, DivIs
  <2>3. e < k * HugeSize + HugeSize
    BY <1>1, <2>1, DivIs
  <2> QED BY <1>1, <2>1, <2>2, <2>3, Times
<1>3. Ranges(s, e) = {h \in j .. k : s <= h * HugeSize /\ h * HugeSize < e}
  BY DEF Ranges
<1> HIDE DEF j, k
<1>4. ASSUME NEW h \in Nat, s <= h * HugeSize, h * HugeSize < e
      PROVE  h \in j .. k
  <2>1. h * HugeSize \in Int
    BY <1>1, Times
  <2>2. ~ (h < j)
    <3>1. h < j => h * HugeSize + HugeSize <= j * HugeSize
      BY <1>1, <1>2, TimesLess
    <3> QED BY <1>1, <1>2, <1>4, <2>1, <3>1
  <2>3. ~ (k < h)
    <3>1. k < h => k * HugeSize + HugeSize <= h * HugeSize
      BY <1>1, <1>2, TimesLess
    <3> QED BY <1>1, <1>2, <1>4, <2>1, <3>1
  <2> QED BY <1>2, <2>2, <2>3
<1>5. j .. k \subseteq Nat
  BY <1>2
<1> QED
  BY <1>3, <1>4, <1>5

LEMMA PageIs ==
  ASSUME NEW y \in Nat
  PROVE  /\ PageOf(y) \in Nat /\ PageOf(y) * PageSize \in Nat
         /\ (PageOf(y) * PageSize) % PageSize = 0
         /\ PageOf(y) * PageSize <= y /\ y < PageOf(y) * PageSize + PageSize
<1>1. PageSize \in Nat \ {0}
  BY Sizes
<1>2. PageOf(y) \in Nat
  BY <1>1, DivNat DEF PageOf
<1> QED
  BY <1>1, <1>2, DivIs, Times, TimesMultiple DEF PageOf

LEMMA RangeIs ==
  ASSUME NEW y \in Nat
  PROVE  /\ RangeOf(y) \in Nat /\ RangeOf(y) * HugeSize \in Nat
         /\ (RangeOf(y) * HugeSize) % HugeSize = 0
         /\ RangeOf(y) * HugeSize <= y /\ y < RangeOf(y) * HugeSize + HugeSize
<1>1. HugeSize \in Nat \ {0}
  BY Sizes
<1>2. RangeOf(y) \in Nat
  BY <1>1, DivNat DEF RangeOf
<1> QED
  BY <1>1, <1>2, DivIs, Times, TimesMultiple DEF RangeOf

\* Between two multiples of a unit lies y exactly if the unit that y is in does.
LEMMA UnitBetween ==
  ASSUME NEW u \in Nat \ {0}, NEW s \in Int, NEW e \in Int, s % u = 0, e % u = 0,
         NEW d \in Int, d % u = 0, NEW y \in Int, d <= y, y < d + u
  PROVE  s <= y /\ y < e <=> s <= d /\ d < e
<1>1. d < s => d + u <= s
  BY MultipleGap
<1>2. d < e => d + u <= e
  BY MultipleGap
<1> QED
  BY <1>1, <1>2

\* The same for pages and for huge-page ranges.
LEMMA PageBetween ==
  \A s, e, d, y \in Int :
    s % PageSize = 0 /\ e % PageSize = 0 /\ d % PageSize = 0 /\ d <= y /\ y < d + PageSize
      => (s <= y /\ y < e <=> s <= d /\ d < e)
BY Sizes, UnitBetween

LEMMA HugeBetween ==
  \A s, e, d, y \in Int :
    s % HugeSize = 0 /\ e % HugeSize = 0 /\ d % HugeSize = 0 /\ d <= y /\ y < d + HugeSize
      => (s <= y /\ y < e <=> s <= d /\ d < e)
BY Sizes, UnitBetween

LEMMA HoldsPage ==
  ASSUME NEW a \in AreaSet, NEW y \in Nat
  PROVE  Holds(a, y) <=> Holds(a, PageOf(y) * PageSize)
<1> DEFINE d == PageOf(y) * PageSize
<1>1. d % PageSize = 0 /\ d <= y /\ y < d + PageSize
  BY PageIs
<1>2. d \in Int /\ y \in Int
  BY PageIs
<1>3. a.start \in Int /\ a.end \in Int
  BY AreaFields
<1>4. a.start % PageSize = 0
  BY <1>3, AreaFields, Sizes, Zenon DEF UnitOf
<1>5. a.end % PageSize = 0
  BY <1>3, AreaFields, Sizes, Zenon DEF UnitOf
<1> HIDE DEF d
<1>6. a.start <= y /\ y < a.end <=> a.start <= d /\ d < a.end
  BY <1>1, <1>2, <1>3, <1>4, <1>5, PageBetween, Zenon
<1> QED
  BY <1>6 DEF Holds, d

LEMMA HoldsRange ==
  ASSUME NEW a \in AreaSet, a.type = "huge", NEW y \in Nat
  PROVE  Holds(a, y) <=> Holds(a, RangeOf(y) * HugeSize)
<1> DEFINE d == RangeOf(y) * HugeSize
<1>1. d % HugeSize = 0 /\ d <= y /\ y < d + HugeSize
  BY RangeIs
<1>2. d \in Int /\ y \in Int
  BY RangeIs
<1>3. a.start \in Int /\ a.end \in Int
  BY AreaFields
<1>4. a.start % HugeSize = 0 /\ a.end % HugeSize = 0
  BY AreaFields DEF UnitOf
<1> HIDE DEF d
<1>5. a.start <= y /\ y < a.end <=> a.start <= d /\ d < a.end
  BY <1>1, <1>2, <1>3, <1>4, HugeBetween, Zenon
<1> QED
  BY <1>5 DEF Holds, d

\* The huge-page ranges between two multiples of HugeSize are those of its addresses.
LEMMA RangeBetween ==
  ASSUME NEW x \in Nat, NEW l \in Int, x % HugeSize = 0, l % HugeSize = 0, NEW y \in Nat
  PROVE  RangeOf(y) \in Ranges(x, l) <=> x <= y /\ y < l
<1> DEFINE d == RangeOf(y) * HugeSize
<1>1. d % HugeSize = 0 /\ d <= y /\ y < d + HugeSize
  BY RangeIs
<1>2. RangeOf(y) \in Ranges(x, l) <=> x <= d /\ d < l
  BY RangeIs, RangesIs
<1>3. d \in Int /\ y \in Int /\ x \in Int /\ l \in Int
  BY RangeIs
<1> HIDE DEF d
<1>4. x <= y /\ y < l <=> x <= d /\ d < l
  BY <1>1, <1>3, HugeBetween, Zenon
<1> QED
  BY <1>2, <1>4

LEMMA TimesNat ==
  ASSUME NEW k \in Nat
  PROVE  k * PageSize \in Nat /\ k * HugeSize \in Nat
BY Sizes, Times

LEMMA RangeTimes ==
  ASSUME NEW h \in Nat
  PROVE  RangeOf(h * HugeSize) = h
<1>1. h * HugeSize \in Nat /\ HugeSize \in Nat \ {0}
  BY TimesNat, Sizes
<1> QED
  BY <1>1, DivIs DEF RangeOf

\* The pages of a range.
LEMMA PagesOfRangeIs ==
  ASSUME NEW h \in Nat
  PROVE  PagesOfRange(h) = {p \in Nat : RangeOf(p * PageSize) = h}
<1> DEFINE d == h * HugeSize
<1>1. d \in Nat /\ HugeSize \in Nat \ {0} /\ (h + 1) * HugeSize = d + HugeSize
  BY TimesNat, Sizes, Times
<1>2. PagesOfRange(h) = {p \in Nat : d <= p * PageSize /\ p * PageSize < d + HugeSize}
  <2> DEFINE e == d + HugeSize
  <2>1. PagesOfRange(h) = Pages(d, e) /\ e \in Int
    BY <1>1 DEF PagesOfRange
  <2> HIDE DEF d, e
  <2>2. Pages(d, e) = {p \in Nat : d <= p * PageSize /\ p * PageSize < e}
    BY <1>1, <2>1, PagesIs
  <2> QED BY <2>1, <2>2 DEF e
<1>3. ASSUME NEW p \in Nat
      PROVE  RangeOf(p * PageSize) = h <=> d <= p * PageSize /\ p * PageSize < d + HugeSize
  <2> DEFINE y == p * PageSize
  <2>1. y \in Nat
    BY TimesNat
  <2> HIDE DEF y
  <2>2. y \div HugeSize = h <=> h * HugeSize <= y /\ y < h * HugeSize + HugeSize
    BY <1>1, <2>1, DivIs
  <2> QED BY <2>2 DEF y, RangeOf
<1> QED
  BY <1>2, <1>3

\* The range of an address is that of its page.
LEMMA RangeOfPageIs ==
  ASSUME NEW y \in Nat
  PROVE  RangeOf(PageOf(y) * PageSize) = RangeOf(y)
<1> DEFINE d == PageOf(y) * PageSize
           r == RangeOf(y) * HugeSize
<1>1. d \in Nat /\ d % PageSize = 0 /\ d <= y /\ y < d + PageSize
  BY PageIs
<1>2. r \in Nat /\ r % HugeSize = 0 /\ r <= y /\ y < r + HugeSize /\ RangeOf(y) \in Nat
  BY RangeIs
<1>3. PageSize \in Nat \ {0} /\ HugeSize \in Nat \ {0}
  BY Sizes
<1> HIDE DEF d, r
<1>4. r \in Int /\ d \in Int
  BY <1>1, <1>2
<1>5. r % PageSize = 0
  BY <1>2, <1>4, Sizes, Zenon
<1>8. d < r => d + PageSize <= r
  BY <1>1, <1>4, <1>5, PageGap, Zenon
<1>6. r <= d /\ d < r + HugeSize
  BY <1>1, <1>2, <1>3, <1>8
<1>7. d \div HugeSize = RangeOf(y)
  <2>1. RangeOf(y) \in Int
    BY <1>2
  <2> DEFINE k == RangeOf(y)
  <2>2. k * HugeSize <= d /\ d < k * HugeSize + HugeSize
    BY <1>6 DEF r
  <2>3. k \in Int
    BY <1>2
  <2> HIDE DEF k
  <2>4. d \div HugeSize = k
    BY <1>3, <1>4, <2>2, <2>3, DivIs
  <2> QED BY <2>4 DEF k
<1> QED
  BY <1>7 DEF d, RangeOf

-------------------------------------------------------------------------------
(* Lists and page tables *)

LEMMA InHas ==
  ASSUME NEW list, ListOK(list), NEW y, NEW t
  PROVE  In(list, y, t) <=> \E p : Has(list, y, p, t)
BY DEF In, Has

LEMMA InHas2 ==
  ASSUME NEW list, NEW new, NEW y, NEW t,
         \A p : Has(new, y, p, t) <=> Has(list, y, p, t)
  PROVE  In(new, y, t) <=> In(list, y, t)
BY DEF In, Has

\* An address is in an area of one type and one protection only.
LEMMA OneKind ==
  ASSUME NEW list, ListOK(list), NEW y \in Int, NEW p, NEW t, NEW q, NEW r,
         Has(list, y, p, t), Has(list, y, q, r)
  PROVE  p = q /\ t = r
BY OneHolder DEF Has

LEMMA NotBoth ==
  ASSUME NEW list, ListOK(list), NEW y \in Int, In(list, y, "normal")
  PROVE  ~ In(list, y, "huge")
<1>1. SUFFICES ASSUME In(list, y, "huge") PROVE FALSE
  OBVIOUS
<1>2. PICK a \in Elems(list) : Holds(a, y) /\ a.type = "normal"
  BY DEF In
<1>3. PICK b \in Elems(list) : Holds(b, y) /\ b.type = "huge"
  BY <1>1 DEF In
<1>4. a = b
  BY <1>2, <1>3, OneHolder
<1> QED
  BY <1>2, <1>3, <1>4

\* A huge area holds an address and the start of its range together, and any area an
\* address and the start of its page.
LEMMA InRange ==
  ASSUME NEW list, ListOK(list), NEW y \in Nat
  PROVE  In(list, RangeOf(y) * HugeSize, "huge") <=> In(list, y, "huge")
<1>1. ASSUME NEW a \in Elems(list), a.type = "huge"
      PROVE  Holds(a, y) <=> Holds(a, RangeOf(y) * HugeSize)
  <2>1. a \in AreaSet
    BY ElemsType
  <2> QED BY <1>1, <2>1, HoldsRange
<1> QED
  BY <1>1 DEF In

LEMMA InPage ==
  ASSUME NEW list, ListOK(list), NEW y \in Nat, NEW t
  PROVE  In(list, PageOf(y) * PageSize, t) <=> In(list, y, t)
<1>1. ASSUME NEW a \in Elems(list)
      PROVE  Holds(a, y) <=> Holds(a, PageOf(y) * PageSize)
  <2>1. a \in AreaSet
    BY ElemsType
  <2> QED BY <2>1, HoldsPage
<1> QED
  BY <1>1 DEF In

\* The range of an address has a huge page exactly if a huge area holds it.
LEMMA HugeIs ==
  ASSUME NEW list, ListOK(list), NEW pm, NEW pt, NEW m, TablesOK(list, pm, pt, m),
         NEW y \in Nat
  PROVE  HugeAt(pm, RangeOf(y)) <=> In(list, y, "huge")
<1>1. RangeOf(y) \in Nat
  BY RangeIs
<1>2. HugeAt(pm, RangeOf(y)) <=> In(list, RangeOf(y) * HugeSize, "huge")
  BY <1>1 DEF TablesOK
<1> QED
  BY <1>2, InRange

\* A page that has memory is in an area, and is small exactly if the area is.
LEMMA MemIn ==
  ASSUME NEW list, ListOK(list), NEW pm, NEW pt, NEW m, TablesOK(list, pm, pt, m),
         NEW p \in DOMAIN m
  PROVE  /\ p \in Nat /\ p * PageSize \in Nat
         /\ \E t \in {"normal", "huge"} : In(list, p * PageSize, t)
         /\ In(list, p * PageSize, "normal") => p \in DOMAIN pt
<1>1. p \in Nat /\ p * PageSize \in Nat
  BY TimesNat DEF TablesOK
<1>2. HugeAt(pm, RangeOf(p * PageSize)) <=> In(list, p * PageSize, "huge")
  BY <1>1, HugeIs
<1>3. p \in DOMAIN pt \/ HugeAt(pm, RangeOf(p * PageSize))
  BY DEF TablesOK
<1>4. p \in DOMAIN pt => In(list, p * PageSize, "normal")
  BY DEF TablesOK
<1>5. In(list, p * PageSize, "normal") => ~ In(list, p * PageSize, "huge")
  BY <1>1, NotBoth
<1> QED
  BY <1>1, <1>2, <1>3, <1>4, <1>5

\* What a call must say of the new list and tables.
LEMMA TablesFrom ==
  ASSUME NEW list, NEW new, NEW pm, NEW pt, NEW m, TablesOK(list, pm, pt, m),
         \A y \in Int : In(list, y, "huge") <=> In(new, y, "huge"),
         \A y \in Int : In(list, y, "normal") => In(new, y, "normal")
  PROVE  TablesOK(new, pm, pt, m)
<1>1. \A h \in Nat : h * HugeSize \in Int
  BY TimesNat
<1>2. \A p \in DOMAIN pt : p \in Nat /\ p * PageSize \in Int
  BY TimesNat DEF TablesOK
<1>3. \A h \in Nat : HugeAt(pm, h) <=> In(new, h * HugeSize, "huge")
  BY <1>1 DEF TablesOK
<1>4. \A p \in DOMAIN pt : In(new, p * PageSize, "normal")
  BY <1>2 DEF TablesOK
<1> QED
  BY <1>3, <1>4 DEF TablesOK

\* mmap: a range that was free is held by a small-page area.
LEMMA MapTables ==
  ASSUME NEW list, NEW new, NEW pm, NEW pt, NEW m, TablesOK(list, pm, pt, m), NEW C, NEW prot,
         \A y \in Int : \A p, t : Has(list, y, p, t) => y \notin C,
         \A y \in Int : \A p, t : Has(new, y, p, t) <=>
            IF y \in C THEN p = prot /\ t = "normal" ELSE Has(list, y, p, t)
  PROVE  TablesOK(new, pm, pt, m)
<1>1. ASSUME NEW y \in Int
      PROVE  In(list, y, "huge") <=> In(new, y, "huge")
  <2>1. \A p : Has(new, y, p, "huge") <=> Has(list, y, p, "huge")
    OBVIOUS
  <2> QED BY <2>1, InHas2
<1>2. ASSUME NEW y \in Int, In(list, y, "normal")
      PROVE  In(new, y, "normal")
  <2>1. PICK p : Has(list, y, p, "normal")
    BY <1>2 DEF In, Has
  <2>2. Has(new, y, p, "normal")
    BY <2>1
  <2> QED BY <2>2 DEF In, Has
<1> QED
  BY <1>1, <1>2, TablesFrom

\* munmap: the small-page areas lose the addresses of C, and the tables lose at least
\* the small pages there.
LEMMA UnmapTables ==
  ASSUME NEW list, NEW new, NEW pm, NEW pt, NEW m, TablesOK(list, pm, pt, m), NEW C, NEW ps,
         \A y \in Int : \A p, t : Has(new, y, p, t) <=> Has(list, y, p, t) /\ ~ (t = "normal" /\ y \in C),
         \A p \in DOMAIN pt : p * PageSize \in C => p \in ps
  PROVE  TablesOK(new, pm, Without(pt, ps), Without(m, ps \cap DOMAIN pt))
<1> DEFINE pt2 == Without(pt, ps)
           m2 == Without(m, ps \cap DOMAIN pt)
<1>1. /\ DOMAIN pt2 = DOMAIN pt \ ps /\ DOMAIN m2 = DOMAIN m \ (ps \cap DOMAIN pt)
      /\ \A p \in DOMAIN m2 : m2[p] = m[p]
  BY DEF Without
<1> HIDE DEF pt2, m2
<1>2. /\ \A h \in Nat : h * HugeSize \in Int
      /\ \A p \in DOMAIN pt : p \in Nat /\ p * PageSize \in Int
  BY TimesNat DEF TablesOK
<1>3. ASSUME NEW y \in Int
      PROVE  In(new, y, "huge") <=> In(list, y, "huge")
  <2>1. \A p : Has(new, y, p, "huge") <=> Has(list, y, p, "huge")
    OBVIOUS
  <2> QED BY <2>1, InHas2
<1>4. \A h \in Nat : HugeAt(pm, h) <=> In(new, h * HugeSize, "huge")
  BY <1>2, <1>3 DEF TablesOK
<1>5. ASSUME NEW p \in DOMAIN pt2
      PROVE  In(new, p * PageSize, "normal")
  <2>1. p \in DOMAIN pt /\ p * PageSize \in Int /\ p * PageSize \notin C
    BY <1>1, <1>2
  <2>2. PICK q : Has(list, p * PageSize, q, "normal")
    BY <2>1 DEF TablesOK, In, Has
  <2>3. Has(new, p * PageSize, q, "normal")
    BY <2>1, <2>2
  <2> QED BY <2>3 DEF In, Has
<1>6. TablesOK(new, pm, pt2, m2)
  BY <1>1, <1>4, <1>5 DEF TablesOK
<1> QED
  BY <1>6 DEF pt2, m2

\* The pages that munmap frees: those of the range that are in small-page areas.
LEMMA FreedIs ==
  ASSUME NEW list, ListOK(list), NEW addr \in Nat, NEW length \in Int
  PROVE  FreedPages(list, addr, length) =
           {p \in Nat : /\ In(list, p * PageSize, "normal")
                        /\ addr <= p * PageSize /\ p * PageSize < addr + Up(length, PageSize)}
<1> DEFINE e == addr + Up(length, PageSize)
           PsOf(i) == LET r == FreedRange(list[i], addr, length)
                      IN IF r.type = "normal" THEN Pages(r.start, r.end) ELSE {}
<1>1. e \in Int
  BY Sizes, UpIs
<1>2. ASSUME NEW i \in DOMAIN list
      PROVE  PsOf(i) = {p \in Nat : /\ list[i].type = "normal" /\ Holds(list[i], p * PageSize)
                                    /\ addr <= p * PageSize /\ p * PageSize < e}
  <2> DEFINE a == list[i]
             lo == IF a.start >= addr THEN a.start ELSE addr
             hi == IF a.end <= e THEN a.end ELSE e
  <2>1. a \in AreaSet /\ a.start \in Nat /\ a.end \in Nat
    BY ElemsType, AreaFields
  <2>2. CASE a.type = "normal"
    <3>1. PsOf(i) = Pages(lo, hi)
      BY <2>2 DEF FreedRange, UnmapEnd
    <3>2. lo \in Nat /\ hi \in Int
      BY <1>1, <2>1
    <3>3. \A n \in Int : lo <= n /\ n < hi <=> a.start <= n /\ n < a.end /\ addr <= n /\ n < e
      BY <1>1, <2>1
    <3> HIDE DEF lo, hi, e
    <3>4. Pages(lo, hi) = {p \in Nat : lo <= p * PageSize /\ p * PageSize < hi}
      BY <3>2, PagesIs
    <3>5. \A p \in Nat : p * PageSize \in Int
      BY TimesNat
    <3> HIDE DEF PsOf
    <3>6. ASSUME NEW p \in Nat
          PROVE  lo <= p * PageSize /\ p * PageSize < hi <=>
                    Holds(a, p * PageSize) /\ addr <= p * PageSize /\ p * PageSize < e
      BY <3>3, <3>5, Zenon DEF Holds
    <3> QED BY <2>2, <3>1, <3>4, <3>6
  <2>3. CASE a.type # "normal"
    BY <2>3 DEF FreedRange
  <2> QED BY <2>2, <2>3
<1> HIDE DEF e
<1>3. FreedPages(list, addr, length) = UNION {PsOf(i) : i \in DOMAIN list}
  BY DEF FreedPages
<1> HIDE DEF PsOf
<1>4. \A p \in Nat : In(list, p * PageSize, "normal") <=>
        \E i \in DOMAIN list : list[i].type = "normal" /\ Holds(list[i], p * PageSize)
  BY DEF In, Elems
<1>5. FreedPages(list, addr, length) =
        {p \in Nat : In(list, p * PageSize, "normal") /\ addr <= p * PageSize /\ p * PageSize < e}
  BY <1>2, <1>3, <1>4
<1> QED
  BY <1>5 DEF e

\* A fault in an area: the area is of small pages, or the page was present.
LEMMA FaultTables ==
  ASSUME NEW list, ListOK(list), NEW pm, NEW pt, NEW m, TablesOK(list, pm, pt, m),
         NEW y \in Nat, NEW w \in BOOLEAN, In(list, y, "normal")
  PROVE  LET h == RangeOf(y)
             p == PageOf(y)
         IN  TablesOK(list,
                      IF h \in DOMAIN pm THEN pm ELSE Put(pm, {h}, [kind |-> "table", w |-> w]),
                      IF p \notin DOMAIN pt THEN Put(pt, {p}, w) ELSE pt,
                      IF p \notin DOMAIN pt THEN Put(m, {p}, Junk) ELSE m)
<1> DEFINE h == RangeOf(y)
           p == PageOf(y)
           pm2 == IF h \in DOMAIN pm THEN pm ELSE Put(pm, {h}, [kind |-> "table", w |-> w])
           pt2 == IF p \notin DOMAIN pt THEN Put(pt, {p}, w) ELSE pt
           m2  == IF p \notin DOMAIN pt THEN Put(m, {p}, Junk) ELSE m
<1>1. h \in Nat /\ p \in Nat /\ RangeOf(p * PageSize) = h
  BY RangeIs, PageIs, RangeOfPageIs
<1>2. In(list, p * PageSize, "normal")
  BY InPage
<1>3. ~ HugeAt(pm, h)
  BY NotBoth, HugeIs
<1> HIDE DEF h, p
<1>4. /\ DOMAIN pm2 = DOMAIN pm \cup {h}
      /\ \A x \in DOMAIN pm : pm2[x] = pm[x]
      /\ pm2[h] \in [kind : {"table", "huge"}, w : BOOLEAN] /\ pm2[h].kind = "table"
  <2>1. CASE h \in DOMAIN pm
    <3>1. pm2 = pm
      BY <2>1
    <3>2. pm[h] \in [kind : {"table", "huge"}, w : BOOLEAN]
      BY <2>1 DEF TablesOK
    <3>3. pm[h].kind # "huge"
      BY <1>3, <2>1 DEF HugeAt
    <3>4. pm[h].kind = "table"
      BY <3>2, <3>3
    <3> QED BY <2>1, <3>1, <3>2, <3>4
  <2>2. CASE h \notin DOMAIN pm
    <3>1. pm2 = Put(pm, {h}, [kind |-> "table", w |-> w])
      BY <2>2
    <3>2. DOMAIN pm2 = DOMAIN pm \cup {h} /\ pm2[h] = [kind |-> "table", w |-> w]
      BY <3>1 DEF Put
    <3>3. \A x \in DOMAIN pm : pm2[x] = pm[x]
      BY <2>2, <3>1 DEF Put
    <3> QED BY <3>2, <3>3
  <2> QED BY <2>1, <2>2
<1>5. /\ DOMAIN pt2 = DOMAIN pt \cup {p}
      /\ DOMAIN m2 = DOMAIN m \cup {p} \/ (p \in DOMAIN pt /\ m2 = m)
      /\ \A x \in DOMAIN m2 : m2[x] = Junk \/ (x \in DOMAIN m /\ m2[x] = m[x])
  BY DEF Put
<1> HIDE DEF pm2, pt2, m2
<1>6. DOMAIN pm2 \subseteq Nat /\ DOMAIN m2 \subseteq Nat /\ DOMAIN pt2 \subseteq DOMAIN m2
  BY <1>1, <1>4, <1>5 DEF TablesOK
<1>7. \A x \in DOMAIN pm2 : pm2[x] \in [kind : {"table", "huge"}, w : BOOLEAN]
  BY <1>4 DEF TablesOK
<1>8. /\ \A x : HugeAt(pm2, x) <=> HugeAt(pm, x)
      /\ \A x : TableAt(pm, x) => TableAt(pm2, x)
      /\ TableAt(pm2, h)
  BY <1>3, <1>4 DEF HugeAt, TableAt
<1>9. \A x \in Nat : HugeAt(pm2, x) <=> In(list, x * HugeSize, "huge")
  BY <1>8 DEF TablesOK
<1>10. \A x \in DOMAIN m2 : x \in DOMAIN pt2 \/ HugeAt(pm2, RangeOf(x * PageSize))
  BY <1>5, <1>8 DEF TablesOK
<1>11. \A x \in DOMAIN pt2 : TableAt(pm2, RangeOf(x * PageSize)) /\ In(list, x * PageSize, "normal")
  BY <1>1, <1>2, <1>5, <1>8 DEF TablesOK
<1>12. \A x \in DOMAIN m2 : m2[x] \in Values \cup {Junk}
  BY <1>5 DEF TablesOK
<1>13. TablesOK(list, pm2, pt2, m2)
  BY <1>6, <1>7, <1>9, <1>10, <1>11, <1>12 DEF TablesOK
<1> QED
  BY <1>13 DEF pm2, pt2, m2, h, p

LEMMA ModSmall ==
  ASSUME NEW u \in Nat \ {0}, NEW n \in Int, 0 <= n, n < u
  PROVE  n % u = n
BY DivIs, DivMod

\* overlap is what its name says of ranges that an int can hold.
LEMMA OverlapIs ==
  ASSUME NEW s1 \in Int, NEW e1 \in Int, NEW s2 \in Int, NEW e2 \in Int,
         MmapStart <= s1, s1 <= e1, FitsInt(e1), MmapStart <= s2, s2 <= e2, FitsInt(e2)
  PROVE  overlap(s1, e1, s2, e2) <=> e1 > s2 /\ e2 > s1
<1>1. /\ MmapStart \in Int /\ HugeSize \in Nat /\ IntSpan \in Nat \ {0}
  BY SizesAssumption
<1>2. ASSUME NEW n \in Int, MmapStart <= n, n - MmapStart + HugeSize < IntSpan
      PROVE  ToInt(n) = n - MmapStart + HugeSize
  <2> DEFINE v == n - MmapStart + HugeSize
  <2>1. v \in Int /\ 0 <= v /\ v < IntSpan
    BY <1>1, <1>2
  <2> HIDE DEF v
  <2>2. v % IntSpan = v
    BY <1>1, <2>1, ModSmall
  <2> QED BY <2>2 DEF ToInt, v
<1>3. /\ s1 - MmapStart + HugeSize < IntSpan /\ e1 - MmapStart + HugeSize < IntSpan
      /\ s2 - MmapStart + HugeSize < IntSpan /\ e2 - MmapStart + HugeSize < IntSpan
      /\ MmapStart <= e1 /\ MmapStart <= e2
  BY <1>1 DEF FitsInt
<1>4. /\ ToInt(s1) = s1 - MmapStart + HugeSize /\ ToInt(e1) = e1 - MmapStart + HugeSize
      /\ ToInt(s2) = s2 - MmapStart + HugeSize /\ ToInt(e2) = e2 - MmapStart + HugeSize
  BY <1>2, <1>3
<1> QED
  BY <1>1, <1>4 DEF overlap

\* When make_hugepage has found no error, all that the range touches is of small pages
\* and of the protection asked for.
NoHugeError(list, addr, length, prot) == HugeError(list, addr, length, prot, FALSE) = "none"
EndsFit(list) == \A i \in DOMAIN list : FitsInt(list[i].end)
NormalIn(list, s, e, prot) == \A i \in DOMAIN list :
    list[i].end > s /\ e > list[i].start => list[i].type = "normal" /\ list[i].prot = prot

LEMMA NoError ==
  ASSUME NEW list, ListOK(list), NEW addr \in Nat, NEW length \in Int, NEW prot \in Prots,
         Dummy.end <= addr, FitsInt(addr + length), EndsFit(list),
         NoHugeError(list, addr, length, prot)
  PROVE  NormalIn(list, addr, addr + length, prot)
<1> SUFFICES ASSUME NEW i \in DOMAIN list, list[i].end > addr, addr + length > list[i].start
             PROVE  list[i].type = "normal" /\ list[i].prot = prot
  BY DEF NormalIn
<1>0. HugeError(list, addr, length, prot, FALSE) = "none" /\ FitsInt(list[i].end)
  BY DEF NoHugeError, EndsFit
<1>1. /\ list[i].start \in Nat /\ list[i].end \in Nat /\ list[i].start < list[i].end
      /\ Dummy.end <= list[i].start /\ list[i].type \in {"normal", "huge"}
  BY ElemsType, AreaFields
<1>2. MmapStart \in Nat /\ MmapStart <= addr /\ MmapStart <= list[i].start
  BY <1>1, DummyEnd, Sizes
<1> DEFINE Touched(j) == overlap(list[j].start, list[j].end, addr, addr + length)
<1>3. length > 0
  BY <1>0 DEF HugeError
<1>4. ~ (list[i].type = "huge" /\ Touched(i)) /\ ~ (Touched(i) /\ list[i].prot # prot)
  <2>1. ~ \E j \in DOMAIN list : list[j].type = "huge" /\ Touched(j)
    BY <1>0 DEF HugeError
  <2>2. ~ \E j \in DOMAIN list : Touched(j) /\ list[j].prot # prot
    BY <1>0 DEF HugeError
  <2> QED BY <2>1, <2>2
<1>5. Touched(i)
  <2> DEFINE s == list[i].start
             e == list[i].end
             f == addr + length
  <2>1. /\ s \in Int /\ e \in Int /\ f \in Int /\ addr \in Int
        /\ MmapStart <= s /\ s <= e /\ FitsInt(e)
        /\ MmapStart <= addr /\ addr <= f /\ FitsInt(f) /\ e > addr /\ f > s
    BY <1>0, <1>1, <1>2, <1>3
  <2> HIDE DEF s, e, f
  <2>2. overlap(s, e, addr, f)
    BY <2>1, OverlapIs
  <2> QED BY <2>2 DEF s, e, f
<1> QED
  BY <1>1, <1>3, <1>4, <1>5

\* A range that is mapped throughout in small pages and passes these tests lies in
\* one area.
LEMMA OneCover ==
  ASSUME NEW list, ListOK(list), NEW x \in Nat, NEW l \in Int, NEW prot, x < l,
         x % PageSize = 0,
         \A p \in Nat : x <= p * PageSize /\ p * PageSize < l => In(list, p * PageSize, "normal"),
         \A i \in DOMAIN list : list[i].end > x /\ l > list[i].start =>
                                  list[i].type = "normal" /\ list[i].prot = prot
  PROVE  \E i \in DOMAIN list : list[i].start <= x /\ l <= list[i].end
<1>1. ASSUME NEW y \in Nat, x <= y, y < l, y % PageSize = 0
      PROVE  \E i \in DOMAIN list : Holds(list[i], y)
  <2>1. PICK k \in Int : y = k * PageSize
    BY <1>1, Sizes, MultipleIs
  <2>2. k \in Nat
    BY <2>1, Sizes
  <2>3. In(list, y, "normal")
    BY <1>1, <2>1, <2>2
  <2> QED BY <2>3 DEF In, Elems
<1>2. PICK i \in DOMAIN list : Holds(list[i], x)
  BY <1>1
<1>3. ASSUME NEW j \in DOMAIN list
      PROVE  /\ list[j].start \in Nat /\ list[j].end \in Nat /\ list[j].start < list[j].end
             /\ j \in Int
  BY ElemsType, AreaFields
<1>4. list[i].start <= x /\ x < list[i].end
  BY <1>2 DEF Holds
<1>5. l <= list[i].end
  <2> DEFINE y == list[i].end
  <2>1. SUFFICES ASSUME y < l PROVE FALSE
    BY <1>3
  <2>2. y % PageSize = 0
    <3>1. list[i] \in AreaSet /\ list[i].end \in Int
      BY <1>3, ElemsType
    <3> QED BY <3>1, AreaFields, Sizes, Zenon DEF UnitOf
  <2>3. y \in Nat /\ x <= y
    BY <1>3, <1>4
  <2>4. PICK j \in DOMAIN list : Holds(list[j], y)
    BY <1>1, <2>1, <2>2, <2>3
  <2>5. list[j].start <= y /\ y < list[j].end
    BY <2>4 DEF Holds
  <2>6. i < j
    <3>1. CASE j < i
      <4>1. list[j].end <= list[i].start
        BY <3>1 DEF ListOK, Before
      <4> QED BY <1>3, <1>4, <2>5, <4>1
    <3>2. i # j
      BY <1>3, <2>5
    <3> QED BY <1>3, <3>1, <3>2
  <2>7. y <= list[j].start /\ ~ Mergeable(list[i], list[j])
    BY <2>6 DEF ListOK, Before
  <2>8. list[i].end = list[j].start
    BY <1>3, <2>5, <2>7
  <2>9. list[i].end > x /\ l > list[i].start /\ list[j].end > x /\ l > list[j].start
    BY <1>3, <1>4, <2>1, <2>5, <2>8
  <2>10. list[i].type = list[j].type /\ list[i].prot = list[j].prot
    BY <2>9
  <2> QED BY <2>7, <2>8, <2>10 DEF Mergeable
<1> QED
  BY <1>4, <1>5

\* The areas beside the one that covers a range lie beside the range.
LEMMA BesideCover ==
  ASSUME NEW list, ListOK(list), NEW x \in Int, NEW l \in Int, NEW i \in DOMAIN list,
         list[i].start <= x, l <= list[i].end, NEW a \in Elems(list)
  PROVE  (a.start <= x /\ l <= a.end) \/ a.end <= x \/ l <= a.start
<1>1. PICK j \in DOMAIN list : a = list[j]
  BY DEF Elems
<1>2. /\ list[i].start \in Nat /\ list[i].end \in Nat /\ i \in Int
      /\ list[j].start \in Nat /\ list[j].end \in Nat /\ j \in Int
  BY ElemsType, AreaFields
<1>3. i < j => list[i].end <= list[j].start
  BY DEF ListOK, Before
<1>4. j < i => list[j].end <= list[i].start
  BY DEF ListOK, Before
<1> QED
  BY <1>1, <1>2, <1>3, <1>4

LEMMA PagesOfRanges ==
  ASSUME NEW hs, hs \subseteq Nat
  PROVE  UNION {PagesOfRange(h) : h \in hs} = {p \in Nat : RangeOf(p * PageSize) \in hs}
<1>1. \A h \in hs : PagesOfRange(h) = {p \in Nat : RangeOf(p * PageSize) = h}
  BY PagesOfRangeIs
<1>2. ASSUME NEW p
      PROVE  p \in UNION {PagesOfRange(h) : h \in hs}
               <=> p \in {q \in Nat : RangeOf(q * PageSize) \in hs}
  <2>1. p \in UNION {PagesOfRange(h) : h \in hs} <=> \E h \in hs : p \in PagesOfRange(h)
    OBVIOUS
  <2>2. \A h \in hs : p \in PagesOfRange(h) <=> p \in Nat /\ RangeOf(p * PageSize) = h
    BY <1>1
  <2> QED BY <2>1, <2>2
<1> QED
  BY <1>2

\* The ranges hs are those of the addresses C.
RangesOf(hs, C) == \A y \in Nat : RangeOf(y) \in hs <=> y \in C

\* new is list with the addresses C in huge areas.
Widened(list, new, C, prot) ==
    \A y \in Int : \A p, t : Has(new, y, p, t) <=>
        IF y \in C THEN p = prot /\ t = "huge" ELSE Has(list, y, p, t)

\* new is list with the huge addresses C, whole ranges, made small.
Split(list, new, C) ==
    /\ \A y \in Int : y \in C => In(list, y, "huge")
    /\ \A y \in Int : \A p, t : Has(new, y, p, t) <=>
          IF y \in C THEN t = "normal" /\ Has(list, y, p, "huge") ELSE Has(list, y, p, t)

\* The tables (pm, pt, m) with the ranges hs, of the pages ps, made huge.
HugeTables(hs, ps, pm, pt, m, pm2, pt2, m2) ==
    /\ hs \subseteq Nat /\ \A p : p \in ps <=> p \in Nat /\ RangeOf(p * PageSize) \in hs
    /\ DOMAIN pm2 = DOMAIN pm \cup hs
    /\ \A h \in hs : pm2[h] \in [kind : {"table", "huge"}, w : BOOLEAN] /\ pm2[h].kind = "huge"
    /\ \A h \in DOMAIN pm : h \notin hs => pm2[h] = pm[h]
    /\ DOMAIN pt2 = DOMAIN pt \ ps
    /\ DOMAIN m2 = DOMAIN m \cup ps
    /\ \A p \in DOMAIN m2 : m2[p] = IF p \in DOMAIN m THEN m[p] ELSE Junk

\* The tables with the huge ranges hs made small.
SmallTables(hs, ps, pm, pt, m, pm2, pt2, m2) ==
    /\ hs \subseteq DOMAIN pm /\ \A p : p \in ps <=> p \in Nat /\ RangeOf(p * PageSize) \in hs
    /\ DOMAIN pm2 = DOMAIN pm \cup hs
    /\ \A h \in DOMAIN pm2 :
          pm2[h] = IF h \in hs THEN [kind |-> "table", w |-> pm[h].w] ELSE pm[h]
    /\ DOMAIN pt2 = DOMAIN pt \cup ps
    /\ DOMAIN m2 = DOMAIN m \cup ps
    /\ \A p \in DOMAIN m2 : m2[p] = IF p \in DOMAIN m THEN m[p] ELSE Junk

\* make_hugepage: the ranges hs, those of the addresses C, become huge.
LEMMA MakeTables ==
  ASSUME NEW list, NEW new, NEW pm, NEW pt, NEW m, TablesOK(list, pm, pt, m),
         NEW hs, NEW ps, NEW pm2, NEW pt2, NEW m2, HugeTables(hs, ps, pm, pt, m, pm2, pt2, m2),
         NEW C, NEW prot, RangesOf(hs, C), Widened(list, new, C, prot)
  PROVE  TablesOK(new, pm2, pt2, m2)
<1> USE DEF HugeTables, RangesOf, Widened
<1>1. ps = {p \in Nat : RangeOf(p * PageSize) \in hs}
  OBVIOUS
<1>4. DOMAIN m2 = DOMAIN m \cup ps /\ \A p \in DOMAIN m2 : m2[p] \in Values \cup {Junk}
  BY DEF TablesOK
<1>5. /\ \A x : HugeAt(pm2, x) <=> x \in hs \/ HugeAt(pm, x)
      /\ \A x : TableAt(pm, x) /\ x \notin hs => TableAt(pm2, x)
  BY DEF HugeAt, TableAt
<1>6. /\ \A x \in DOMAIN pm2 : pm2[x] \in [kind : {"table", "huge"}, w : BOOLEAN]
      /\ DOMAIN pm2 \subseteq Nat /\ DOMAIN m2 \subseteq Nat /\ DOMAIN pt2 \subseteq DOMAIN m2
  BY <1>1, <1>4 DEF TablesOK
<1>7. ASSUME NEW h \in Nat
      PROVE  HugeAt(pm2, h) <=> In(new, h * HugeSize, "huge")
  <2> DEFINE y == h * HugeSize
  <2>1. y \in Nat /\ RangeOf(y) = h
    BY TimesNat, RangeTimes
  <2>2. HugeAt(pm, h) <=> In(list, y, "huge")
    BY DEF TablesOK
  <2> HIDE DEF y
  <2>3. h \in hs <=> y \in C
    BY <2>1
  <2>4. In(new, y, "huge") <=> y \in C \/ In(list, y, "huge")
    <3>1. In(new, y, "huge") <=> \E p : Has(new, y, p, "huge")
      BY DEF In, Has
    <3>2. In(list, y, "huge") <=> \E p : Has(list, y, p, "huge")
      BY DEF In, Has
    <3>3. \A p : Has(new, y, p, "huge") <=> IF y \in C THEN p = prot ELSE Has(list, y, p, "huge")
      BY <2>1
    <3> QED BY <3>1, <3>2, <3>3
  <2>5. HugeAt(pm2, h) <=> In(new, y, "huge")
    BY <1>5, <2>2, <2>3, <2>4
  <2> QED BY <2>5 DEF y
<1>8. \A p \in DOMAIN m2 : p \in DOMAIN pt2 \/ HugeAt(pm2, RangeOf(p * PageSize))
  BY <1>1, <1>4, <1>5 DEF TablesOK
<1>9. ASSUME NEW p \in DOMAIN pt2
      PROVE  TableAt(pm2, RangeOf(p * PageSize)) /\ In(new, p * PageSize, "normal")
  <2> DEFINE y == p * PageSize
  <2>1. p \in DOMAIN pt /\ p \in Nat /\ y \in Nat /\ RangeOf(y) \notin hs
    BY <1>1, TimesNat DEF TablesOK
  <2>2. TableAt(pm, RangeOf(y)) /\ In(list, y, "normal")
    BY <2>1 DEF TablesOK
  <2> HIDE DEF y
  <2>3. TableAt(pm2, RangeOf(y)) /\ y \notin C
    BY <1>5, <2>1, <2>2
  <2>4. PICK q : Has(list, y, q, "normal")
    BY <2>2 DEF In, Has
  <2>5. Has(new, y, q, "normal")
    BY <2>1, <2>3, <2>4
  <2>6. In(new, y, "normal")
    BY <2>5 DEF In, Has
  <2> QED BY <2>3, <2>6 DEF y
<1> QED
  BY <1>4, <1>6, <1>7, <1>8, <1>9 DEF TablesOK

\* break_hugepage: the huge ranges hs, those of the addresses C, become full tables.
LEMMA BreakTables ==
  ASSUME NEW list, ListOK(list), NEW new, NEW pm, NEW pt, NEW m, TablesOK(list, pm, pt, m),
         NEW hs, NEW ps, NEW pm2, NEW pt2, NEW m2, SmallTables(hs, ps, pm, pt, m, pm2, pt2, m2),
         NEW C, RangesOf(hs, C), Split(list, new, C)
  PROVE  TablesOK(new, pm2, pt2, m2)
<1> USE DEF SmallTables, RangesOf, Split
<1>1. DOMAIN pt2 = DOMAIN pt \cup ps
  OBVIOUS
<1>2. /\ DOMAIN pm2 = DOMAIN pm
      /\ \A h \in hs : /\ pm2[h] \in [kind : {"table", "huge"}, w : BOOLEAN]
                       /\ pm2[h].kind = "table"
      /\ \A h \in DOMAIN pm : h \notin hs => pm2[h] = pm[h]
  <2>1. DOMAIN pm2 = DOMAIN pm \cup hs
    OBVIOUS
  <2>2. ASSUME NEW h \in hs
        PROVE  pm2[h] \in [kind : {"table", "huge"}, w : BOOLEAN] /\ pm2[h].kind = "table"
    <3>1. pm2[h] = [kind |-> "table", w |-> pm[h].w]
      OBVIOUS
    <3>2. pm[h].w \in BOOLEAN
      BY DEF TablesOK
    <3> QED BY <3>1, <3>2
  <2>3. \A h \in DOMAIN pm : h \notin hs => pm2[h] = pm[h]
    OBVIOUS
  <2> QED BY <2>1, <2>2, <2>3
<1>4. DOMAIN m2 = DOMAIN m \cup ps /\ \A p \in DOMAIN m2 : m2[p] \in Values \cup {Junk}
  BY DEF TablesOK
<1>5. /\ \A x : HugeAt(pm2, x) <=> x \notin hs /\ HugeAt(pm, x)
      /\ \A x : TableAt(pm, x) => TableAt(pm2, x)
      /\ \A x \in hs : TableAt(pm2, x)
  BY <1>2 DEF HugeAt, TableAt
<1>6. /\ \A x \in DOMAIN pm2 : pm2[x] \in [kind : {"table", "huge"}, w : BOOLEAN]
      /\ DOMAIN pm2 \subseteq Nat /\ DOMAIN m2 \subseteq Nat /\ DOMAIN pt2 \subseteq DOMAIN m2
  BY <1>1, <1>2, <1>4 DEF TablesOK
<1>7. ASSUME NEW h \in Nat
      PROVE  HugeAt(pm2, h) <=> In(new, h * HugeSize, "huge")
  <2> DEFINE y == h * HugeSize
  <2>1. y \in Nat /\ RangeOf(y) = h
    BY TimesNat, RangeTimes
  <2>2. HugeAt(pm, h) <=> In(list, y, "huge")
    BY DEF TablesOK
  <2> HIDE DEF y
  <2>3. h \in hs <=> y \in C
    BY <2>1
  <2>4. In(new, y, "huge") <=> y \notin C /\ In(list, y, "huge")
    <3>1. In(new, y, "huge") <=> \E p : Has(new, y, p, "huge")
      BY DEF In, Has
    <3>2. In(list, y, "huge") <=> \E p : Has(list, y, p, "huge")
      BY DEF In, Has
    <3>3. \A p : Has(new, y, p, "huge") <=> y \notin C /\ Has(list, y, p, "huge")
      BY <2>1
    <3> QED BY <3>1, <3>2, <3>3
  <2>5. HugeAt(pm2, h) <=> In(new, y, "huge")
    BY <1>5, <2>2, <2>3, <2>4
  <2> QED BY <2>5 DEF y
<1>8. \A p \in DOMAIN m2 : p \in DOMAIN pt2 \/ HugeAt(pm2, RangeOf(p * PageSize))
  <2>1. DOMAIN m \subseteq Nat
    BY DEF TablesOK
  <2> QED BY <1>1, <1>4, <1>5, <2>1 DEF TablesOK
<1>9. ASSUME NEW p \in DOMAIN pt2
      PROVE  TableAt(pm2, RangeOf(p * PageSize)) /\ In(new, p * PageSize, "normal")
  <2> DEFINE y == p * PageSize
  <2>1. p \in Nat /\ y \in Nat
    BY <1>1, TimesNat DEF TablesOK
  <2>2. CASE RangeOf(y) \in hs
    <3> HIDE DEF y
    <3>1. y \in C /\ In(list, y, "huge")
      BY <2>1, <2>2
    <3>2. PICK q : Has(list, y, q, "huge")
      BY <3>1 DEF In, Has
    <3>3. Has(new, y, q, "normal")
      BY <2>1, <3>1, <3>2
    <3>4. In(new, y, "normal") /\ TableAt(pm2, RangeOf(y))
      BY <1>5, <2>2, <3>3 DEF In, Has
    <3> QED BY <3>4 DEF y
  <2>3. CASE RangeOf(y) \notin hs
    <3>1. p \in DOMAIN pt
      BY <1>1, <2>3
    <3>2. TableAt(pm, RangeOf(y)) /\ In(list, y, "normal")
      BY <3>1 DEF TablesOK
    <3> HIDE DEF y
    <3>3. TableAt(pm2, RangeOf(y)) /\ y \notin C
      BY <1>5, <2>1, <2>3, <3>2
    <3>4. PICK q : Has(list, y, q, "normal")
      BY <3>2 DEF In, Has
    <3>5. Has(new, y, q, "normal")
      BY <2>1, <3>3, <3>4
    <3>6. In(new, y, "normal")
      BY <3>5 DEF In, Has
    <3> QED BY <3>3, <3>6 DEF y
  <2> QED BY <2>2, <2>3
<1> QED
  BY <1>4, <1>6, <1>7, <1>8, <1>9 DEF TablesOK

-------------------------------------------------------------------------------
(* What each call of the free program does *)

LEMMA UpSame ==
  ASSUME NEW a \in Int, a % PageSize = 0
  PROVE  Up(a, PageSize) = a
<1> DEFINE b == Up(a, PageSize)
<1>1. b \in Int /\ b % PageSize = 0 /\ a <= b /\ b < a + PageSize
  BY Sizes, UpIs
<1> HIDE DEF b
<1>2. a < b => a + PageSize <= b
  BY <1>1, PageGap, Zenon
<1>3. b = a
  BY <1>1, <1>2, Sizes
<1> QED
  BY <1>3 DEF b

LEMMA FreeInputs ==
  /\ \A a \in FreeAddrs : a \in Nat /\ Dummy.end <= a /\ a # NULL
  /\ \A n \in FreeLens : n \in Int
  /\ \A p \in FreeProts : p \in Prots
  /\ \A a \in FreeStores \cup SegStores : a \in Nat
<1>1. Dummy.end \in Nat /\ Dummy.end > 0
  BY DummyEnd
<1> QED
  BY <1>1, FreeAssumption DEF NULL

\* new is list with a range that was free mapped in small pages.
Added(list, new, s, e, prot) ==
    /\ \A y \in Int : \A p, t : Has(list, y, p, t) => ~ (s <= y /\ y < e)
    /\ \A y \in Int : \A p, t : Has(new, y, p, t) <=>
          IF s <= y /\ y < e THEN p = prot /\ t = "normal" ELSE Has(list, y, p, t)

\* mmap fails, or a range that was free is held by a new small-page area.
MapMoves ==
    /\ UNCHANGED <<lost, alive, tables, segments>>
    /\ hasDummy \in BOOLEAN => hasDummy' \in BOOLEAN
    /\ \/ UNCHANGED <<areas, kernel>>
       \/ /\ ListOK(areas') /\ kernel' \in {"ok", "strayFree"}
          /\ \E s \in Nat, e \in Int, prot \in Prots : Added(areas, areas', s, e, prot)

LEMMA MmapIs ==
  ASSUME ListOK(areas), NEW addr \in Nat, NEW length \in Int, NEW prot \in Prots, NEW flags,
         addr = NULL \/ /\ Dummy.end <= addr
                        /\ \A a \in Elems(areas) : \/ a.end <= Up(addr, PageSize)
                                                   \/ Up(addr, PageSize) + Up(length, PageSize) <= a.start,
         Mmap(addr, length, prot, flags)
  PROVE  MapMoves
<1> DEFINE m == vm_area_map(areas, addr, length, prot, flags)
           len == Up(length, PageSize)
<1>1. UNCHANGED <<lost, alive, tables, segments>> /\ hasDummy' = (hasDummy \/ length > 0)
  BY DEF Mmap
<1>2. CASE MapFails(areas, addr, length, flags)
  BY <1>1, <1>2 DEF Mmap, MapMoves
<1>3. CASE ~ MapFails(areas, addr, length, flags)
  <2>1. length > 0
    BY <1>3 DEF MapFails
  <2>2. areas' = m.list /\ SetKernel(m.stray)
    BY <1>3 DEF Mmap
  <2>3. /\ ListOK(m.list) /\ m.stray \in BOOLEAN
        /\ \E s \in Nat :
             /\ \A y \in Int : \A p, t : Has(areas, y, p, t) => ~ (s <= y /\ y < s + len)
             /\ \A y \in Int : \A p, t : Has(m.list, y, p, t) <=>
                  IF s <= y /\ y < s + len THEN p = prot /\ t = "normal" ELSE Has(areas, y, p, t)
    BY <2>1, MapOK
  <2>4. len \in Int
    BY Sizes, UpIs
  <2> HIDE DEF m, len
  <2>5. kernel' \in {"ok", "strayFree"}
    BY <2>2 DEF SetKernel
  <2>6. PICK s \in Nat : Added(areas, areas', s, s + len, prot)
    BY <2>2, <2>3 DEF Added
  <2>7. s + len \in Int
    BY <2>4, <2>6
  <2>8. \E s1 \in Nat, e1 \in Int, p \in Prots : Added(areas, areas', s1, e1, p)
    BY <2>6, <2>7
  <2> QED BY <1>1, <2>2, <2>3, <2>5, <2>8 DEF MapMoves
<1> QED
  BY <1>2, <1>3

LEMMA FreeIs ==
  ASSUME NEW s, NEW e, Free(s, e)
  PROVE  \A a \in Elems(areas) : a.end <= s \/ e <= a.start
BY DEF Free, Elems

LEMMA MapStep ==
  ASSUME ListOK(areas), FreeMmap
  PROVE  MapMoves
<1>2. PICK len \in FreeLens, prot \in FreeProts :
        \/ Mmap(NULL, len, prot, "none")
        \/ \E a \in FreeAddrs :
             /\ Taken(areas, a, a + Up(len, PageSize)) \/ Free(a, a + Up(len, PageSize))
             /\ Mmap(a, len, prot, "fixed")
        \/ \E a \in FreeAddrs :
             Free(Up(a, PageSize), Up(a, PageSize) + Up(len, PageSize)) /\ Mmap(a, len, prot, "none")
  BY DEF FreeMmap
<1>3. len \in Int /\ prot \in Prots
  BY <1>2, FreeInputs
<1>4. CASE Mmap(NULL, len, prot, "none")
  <2>1. NULL \in Nat
    BY DEF NULL
  <2> QED BY <1>3, <1>4, <2>1, MmapIs
<1>5. ASSUME NEW a \in FreeAddrs,
             Taken(areas, a, a + Up(len, PageSize)) \/ Free(a, a + Up(len, PageSize)),
             Mmap(a, len, prot, "fixed")
      PROVE  MapMoves
  <2>1. a \in Nat /\ Dummy.end <= a /\ a # NULL
    BY FreeInputs
  <2>2. CASE MapFails(areas, a, len, "fixed")
    <3>1. UNCHANGED <<areas, kernel, lost, alive, tables, segments>> /\ hasDummy' = (hasDummy \/ len > 0)
      BY <1>5, <2>2 DEF Mmap
    <3> QED BY <3>1 DEF MapMoves
  <2>3. CASE ~ MapFails(areas, a, len, "fixed")
    <3>1. a % PageSize = 0 /\ ~ Taken(areas, a, a + Up(len, PageSize))
      BY <2>3 DEF MapFails
    <3>2. Up(a, PageSize) = a
      BY <2>1, <3>1, UpSame
    <3>3. \A b \in Elems(areas) : \/ b.end <= Up(a, PageSize)
                                  \/ Up(a, PageSize) + Up(len, PageSize) <= b.start
      BY <1>5, <3>1, <3>2, FreeIs
    <3> QED BY <1>3, <1>5, <2>1, <3>3, MmapIs
  <2> QED BY <2>2, <2>3
<1>6. ASSUME NEW a \in FreeAddrs,
             Free(Up(a, PageSize), Up(a, PageSize) + Up(len, PageSize)), Mmap(a, len, prot, "none")
      PROVE  MapMoves
  <2>1. a \in Nat /\ Dummy.end <= a
    BY FreeInputs
  <2>2. \A b \in Elems(areas) : \/ b.end <= Up(a, PageSize)
                                \/ Up(a, PageSize) + Up(len, PageSize) <= b.start
    BY <1>6, FreeIs
  <2> QED BY <1>3, <1>6, <2>1, <2>2, MmapIs
<1> QED
  BY <1>2, <1>4, <1>5, <1>6

\* new is list without the small-page part of a range.
Freed(list, new, s, e) ==
    \A y \in Int : \A p, t : Has(new, y, p, t) <=>
        Has(list, y, p, t) /\ ~ (t = "normal" /\ s <= y /\ y < e)

SmallPages(list, s, e) ==
    {p \in Nat : In(list, p * PageSize, "normal") /\ s <= p * PageSize /\ p * PageSize < e}

\* munmap fails, or a range loses its small pages and their entries; it never walks
\* through the entry of a huge page.
UnmapMoves ==
    /\ UNCHANGED <<hasDummy, lost, alive, kernel, pud, pmd, segments>>
    /\ \/ UNCHANGED <<areas, pte, mem>>
       \/ /\ ListOK(areas')
          /\ \E s \in Nat, e \in Int :
                /\ Freed(areas, areas', s, e)
                /\ pte' = Without(pte, SmallPages(areas, s, e))
                /\ mem' = Without(mem, SmallPages(areas, s, e) \cap DOMAIN pte)

LEMMA UnmapStep ==
  ASSUME ListOK(areas), TablesOK(areas, pmd, pte, mem), FreeMunmap
  PROVE  UnmapMoves
<1>1. PICK a \in FreeAddrs, len \in FreeLens :
        /\ \A i \in DOMAIN areas : areas[i].type = "huge" =>
              areas[i].end <= a \/ UnmapEnd(areas[i], a, len) <= areas[i].start
        /\ Munmap(a, len)
  BY DEF FreeMunmap
<1>2. a \in Nat /\ len \in Int
  BY <1>1, FreeInputs
<1>3. UNCHANGED <<hasDummy, lost, alive, segments>>
  BY <1>1 DEF Munmap
<1>4. CASE MunmapFails(a, len)
  BY <1>1, <1>3, <1>4 DEF Munmap, UnmapMoves, tables
<1>5. CASE ~ MunmapFails(a, len)
  <2> DEFINE e == a + Up(len, PageSize)
             ps == FreedPages(areas, a, len)
  <2>1. len > 0 /\ a % PageSize = 0
    BY <1>2, <1>5 DEF MunmapFails
  <2>2. /\ areas' = vm_area_unmap(areas, a, len)
        /\ pte' = Without(pte, ps) /\ mem' = Without(mem, ps \cap DOMAIN pte)
        /\ kernel' = IF WalksIntoData(ps) THEN "walksData" ELSE kernel
        /\ UNCHANGED <<pud, pmd>>
    BY <1>1, <1>5 DEF Munmap
  <2>3. e \in Int
    BY <1>2, Sizes, UpIs
  <2>4. \A b \in Elems(areas) : b.type = "huge" => b.end <= a \/ UnmapEnd(b, a, len) <= b.start
    BY <1>1 DEF Elems
  <2>5. /\ ListOK(vm_area_unmap(areas, a, len))
        /\ \A y \in Int : \A p, t : Has(vm_area_unmap(areas, a, len), y, p, t) <=>
              Has(areas, y, p, t) /\ ~ (t = "normal" /\ a <= y /\ y < e)
    BY <1>2, <2>1, <2>4, UnmapOK
  <2>6. ps = SmallPages(areas, a, e)
    BY <1>2, FreedIs DEF SmallPages
  <2> HIDE DEF ps, e
  <2>7. ~ WalksIntoData(ps)
    <3>1. ASSUME NEW p \in ps PROVE ~ IsHuge(RangeOf(p * PageSize))
      <4> DEFINE y == p * PageSize
      <4>1. y \in Nat /\ In(areas, y, "normal")
        BY <2>6, TimesNat DEF SmallPages
      <4> HIDE DEF y
      <4>2. ~ HugeAt(pmd, RangeOf(y))
        BY <4>1, NotBoth, HugeIs
      <4> QED BY <4>2 DEF y, HugeAt, IsHuge
    <3> QED BY <3>1 DEF WalksIntoData
  <2>8. ListOK(areas') /\ Freed(areas, areas', a, e)
    BY <2>2, <2>5 DEF Freed
  <2> QED BY <1>2, <1>3, <2>2, <2>3, <2>6, <2>7, <2>8 DEF UnmapMoves
<1> QED
  BY <1>4, <1>5

\* new is list with a range of small pages made huge.
Made(list, new, x, l, prot) ==
    /\ x % HugeSize = 0 /\ l % HugeSize = 0 /\ x < l
    /\ \A y \in Int : x <= y /\ y < l => In(list, y, "normal")
    /\ \A y \in Int : \A p, t : Has(new, y, p, t) <=>
          IF x <= y /\ y < l THEN p = prot /\ t = "huge" ELSE Has(list, y, p, t)

\* make_hugepage fails, or a range of small pages becomes huge; it neither loops nor
\* walks through the entry of a huge page.
MakeMoves ==
    /\ UNCHANGED <<hasDummy, lost, alive, segments>>
    /\ \/ UNCHANGED <<areas, kernel, tables>>
       \/ /\ ListOK(areas') /\ kernel' \in {"ok", "strayFree"}
          /\ \E x \in Nat, l \in Int, prot \in Prots :
                Made(areas, areas', x, l, prot) /\ copy_php(x, l, prot)

LEMMA MakeStep ==
  ASSUME ListOK(areas), TablesOK(areas, pmd, pte, mem),
         NEW a \in Nat, Dummy.end <= a, NEW len \in Int, NEW prot \in Prots,
         Up(a, HugeSize) < Down(a + len, HugeSize),
         MappedAll(Up(a, HugeSize), Down(a + len, HugeSize), "normal"),
         FitsInt(a + len), \A i \in DOMAIN areas : FitsInt(areas[i].end),
         MakeHugepage(a, len, prot, FALSE)
  PROVE  MakeMoves
<1> DEFINE x == Up(a, HugeSize)
           l == Down(a + len, HugeSize)
           err == HugeError(areas, a, len, prot, FALSE)
           m == vm_area_make_hugepage(areas, a, len, prot)
<1>1. a \in Nat /\ Dummy.end <= a /\ len \in Int /\ prot \in Prots
  OBVIOUS
<1>2. UNCHANGED <<hasDummy, lost, alive, segments>>
  BY DEF MakeHugepage
<1>3. CASE err # "none"
  BY <1>2, <1>3 DEF MakeHugepage, MakeMoves
<1>4. CASE err = "none"
  <2>1. /\ x \in Int /\ l \in Int /\ x % HugeSize = 0 /\ l % HugeSize = 0 /\ x < l
        /\ a <= x /\ l <= a + len
    BY <1>1, Sizes, UpIs, DownIs
  <2>2. x \in Nat
    BY <1>1, <2>1
  <2>3. x % PageSize = 0
    BY <2>1, Sizes, Zenon
  <2>4. ~ NeverEnds(areas, x, l)
    BY <2>1 DEF NeverEnds
  <2>5. \/ /\ \E h \in Ranges(x, l) : IsHuge(h)
        \/ /\ ~ \E h \in Ranges(x, l) : IsHuge(h)
           /\ areas' = m.list /\ SetKernel(m.stray) /\ copy_php(x, l, prot)
    BY <1>4, <2>4 DEF MakeHugepage
  <2>6. \A p \in Nat : x <= p * PageSize /\ p * PageSize < l => In(areas, p * PageSize, "normal")
    <3>1. MappedAll(x, l, "normal")
      OBVIOUS
    <3> HIDE DEF x, l
    <3>2. Pages(x, l) = {p \in Nat : x <= p * PageSize /\ p * PageSize < l}
      BY <2>1, <2>2, PagesIs
    <3> QED BY <3>1, <3>2 DEF MappedAll, In, Elems
  <2>7. ASSUME NEW i \in DOMAIN areas, areas[i].end > x, l > areas[i].start
        PROVE  areas[i].type = "normal" /\ areas[i].prot = prot
    <3>1. areas[i].start \in Nat /\ areas[i].end \in Nat
      BY ElemsType, AreaFields
    <3>2. areas[i].end > a /\ a + len > areas[i].start
      BY <1>1, <2>1, <2>7, <3>1
    <3>3. NoHugeError(areas, a, len, prot) /\ EndsFit(areas)
      BY <1>4 DEF NoHugeError, EndsFit
    <3> HIDE DEF x, l, err, m
    <3>4. NormalIn(areas, a, a + len, prot)
      BY <1>1, <3>3, NoError, Zenon
    <3> QED BY <2>7, <3>2, <3>4 DEF NormalIn
  <2>8. PICK i \in DOMAIN areas : areas[i].start <= x /\ l <= areas[i].end
    <3> HIDE DEF x, l
    <3> QED BY <2>1, <2>2, <2>3, <2>6, <2>7, OneCover
  <2>9. areas[i].type = "normal" /\ areas[i].start \in Nat /\ areas[i].end \in Nat
    <3>1. areas[i].start \in Nat /\ areas[i].end \in Nat
      BY ElemsType, AreaFields
    <3> HIDE DEF x, l
    <3> QED BY <2>1, <2>7, <2>8, <3>1
  <2>10. ASSUME NEW y \in Int, x <= y, y < l
         PROVE  In(areas, y, "normal")
    <3>1. Holds(areas[i], y) /\ areas[i] \in Elems(areas)
      <4> HIDE DEF x, l
      <4> QED BY <2>1, <2>8, <2>9, <2>10 DEF Holds, Elems
    <3> QED BY <2>9, <3>1 DEF In
  <2>11. ~ \E h \in Ranges(x, l) : IsHuge(h)
    <3> HIDE DEF x, l
    <3>1. ASSUME NEW h \in Ranges(x, l) PROVE ~ IsHuge(h)
      <4> DEFINE y == h * HugeSize
      <4>1. h \in Nat /\ x <= y /\ y < l
        BY <2>1, <2>2, RangesIs
      <4>2. y \in Nat
        BY <4>1, TimesNat
      <4>3. HugeAt(pmd, h) <=> In(areas, y, "huge")
        BY <4>1 DEF TablesOK
      <4> HIDE DEF y
      <4>4. In(areas, y, "normal")
        BY <2>10, <4>1, <4>2
      <4>5. ~ HugeAt(pmd, h)
        BY <4>2, <4>3, <4>4, NotBoth
      <4> QED BY <4>5 DEF HugeAt, IsHuge
    <3> QED BY <3>1
  <2>12. areas' = m.list /\ SetKernel(m.stray) /\ copy_php(x, l, prot)
    BY <2>5, <2>11
  <2>13. Dummy.end <= x
    BY <1>1, <2>1, DummyEnd
  <2>14. \A b \in Elems(areas) : \/ b.start <= x /\ l <= b.end
                                 \/ b.end <= x \/ l <= b.start
    <3> HIDE DEF x, l
    <3> QED BY <2>1, <2>8, BesideCover
  <2>15. /\ ListOK(m.list) /\ m.stray \in BOOLEAN
         /\ \A y \in Int : \A p, t : Has(m.list, y, p, t) <=>
              IF x <= y /\ y < l THEN p = prot /\ t = "huge" ELSE Has(areas, y, p, t)
    <3>1. ListOK(m.list)
      BY <2>1, <2>13, <2>14, MakeOK
    <3>2. m.stray \in BOOLEAN
      BY <2>1, <2>13, <2>14, MakeOK
    <3>3. \A y \in Int : \A p, t : Has(m.list, y, p, t) <=>
              IF x <= y /\ y < l THEN p = prot /\ t = "huge" ELSE Has(areas, y, p, t)
      BY <2>1, <2>13, <2>14, MakeOK
    <3> QED BY <3>1, <3>2, <3>3
  <2> HIDE DEF x, l, m
  <2>16. kernel' \in {"ok", "strayFree"}
    BY <2>12, <2>15 DEF SetKernel
  <2>17. Made(areas, areas', x, l, prot)
    BY <2>1, <2>10, <2>12, <2>15 DEF Made
  <2>18. ListOK(areas')
    BY <2>12, <2>15
  <2>19. \E x1 \in Nat, l1 \in Int, p \in Prots :
            Made(areas, areas', x1, l1, p) /\ copy_php(x1, l1, p)
    BY <1>1, <2>1, <2>2, <2>12, <2>17
  <2> QED BY <1>2, <2>16, <2>18, <2>19 DEF MakeMoves
<1> QED
  BY <1>3, <1>4

\* The ranges that break_hugepage makes small hold exactly the broken addresses.
BrokenRanges(list, x, l) ==
    UNION {Ranges(b.start, b.end) : b \in {BrokenRange(list[i], x, l) : i \in DOMAIN list}}

LEMMA NoRanges ==
  ASSUME NEW s \in Int
  PROVE  Ranges(s, s) = {}
<1>1. ASSUME NEW h \in Ranges(s, s) PROVE FALSE
  <2>1. s \div HugeSize \in Int
    BY Sizes, DivMod
  <2>2. h \in Int /\ s <= h * HugeSize /\ h * HugeSize < s
    BY <2>1 DEF Ranges
  <2>3. h * HugeSize \in Int
    BY <2>2, Sizes, Times
  <2> QED BY <2>2, <2>3
<1> QED
  BY <1>1

LEMMA BrokenPiece ==
  ASSUME NEW a \in AreaSet, NEW x \in Nat, NEW l \in Int, x < l,
         x % HugeSize = 0, l % HugeSize = 0,
         a.type = "huge" => ~ (a.start < x /\ x < a.end /\ a.end < l)
  PROVE  LET v == BrokenRange(a, x, l)
         IN  /\ Ranges(v.start, v.end) \subseteq Nat
             /\ \A y \in Nat : RangeOf(y) \in Ranges(v.start, v.end) <=> Holds(v, y)
             /\ \A y \in Int : Holds(v, y) => a.type = "huge" /\ Holds(a, y)
<1> DEFINE v == BrokenRange(a, x, l)
<1>1. /\ v.start \in Int /\ v.end \in Int
      /\ v.start # v.end => /\ a.type = "huge" /\ v \in AreaSet
                            /\ a.start <= v.start /\ v.start < v.end /\ v.end <= a.end
                            /\ v.start % HugeSize = 0 /\ v.end % HugeSize = 0
  BY BrokenIs
<1>2. a.start \in Int /\ a.end \in Int
  BY AreaFields
<1> HIDE DEF v
<1>3. CASE v.start = v.end
  <2>1. Ranges(v.start, v.end) = {}
    BY <1>1, <1>3, NoRanges
  <2>2. \A y \in Int : ~ Holds(v, y)
    BY <1>1, <1>3 DEF Holds
  <2> QED BY <2>1, <2>2 DEF v
<1>4. CASE v.start # v.end
  <2> DEFINE s == v.start
             e == v.end
  <2>1. s \in Nat /\ e \in Int /\ s % HugeSize = 0 /\ e % HugeSize = 0
    BY <1>1, <1>4, AreaFields
  <2>2. \A y \in Int : Holds(v, y) <=> s <= y /\ y < e
    BY DEF Holds
  <2>3. \A y \in Int : Holds(v, y) => a.type = "huge" /\ Holds(a, y)
    BY <1>1, <1>2, <1>4 DEF Holds
  <2> HIDE DEF s, e
  <2>4. \A y \in Nat : RangeOf(y) \in Ranges(s, e) <=> s <= y /\ y < e
    BY <2>1, RangeBetween
  <2>5. Ranges(s, e) \subseteq Nat
    BY <2>1, RangesIs
  <2>6. \A y \in Nat : RangeOf(y) \in Ranges(s, e) <=> Holds(v, y)
    BY <2>2, <2>4
  <2> QED BY <2>3, <2>5, <2>6 DEF s, e, v
<1> QED
  BY <1>3, <1>4

LEMMA BrokenRangesAre ==
  ASSUME NEW list, ListOK(list), NEW x \in Nat, NEW l \in Int, x < l,
         x % HugeSize = 0, l % HugeSize = 0, BreakWell(list, x, l)
  PROVE  /\ BrokenRanges(list, x, l) \subseteq Nat
         /\ \A y \in Nat : RangeOf(y) \in BrokenRanges(list, x, l)
                              <=> Broken(list, Len(list), x, l, y)
         /\ \A y \in Int : Broken(list, Len(list), x, l, y) => In(list, y, "huge")
<1> DEFINE v(i) == BrokenRange(list[i], x, l)
<1>1. ASSUME NEW i \in DOMAIN list
      PROVE  /\ Ranges(v(i).start, v(i).end) \subseteq Nat
             /\ \A y \in Nat : RangeOf(y) \in Ranges(v(i).start, v(i).end) <=> Holds(v(i), y)
             /\ \A y \in Int : Holds(v(i), y) => list[i].type = "huge" /\ Holds(list[i], y)
  <2> DEFINE a == list[i]
  <2>1. a \in AreaSet
    BY ElemsType
  <2>2. a.type = "huge" => ~ (a.start < x /\ x < a.end /\ a.end < l)
    BY DEF BreakWell
  <2> HIDE DEF a
  <2>3. /\ Ranges(BrokenRange(a, x, l).start, BrokenRange(a, x, l).end) \subseteq Nat
        /\ \A y \in Nat : RangeOf(y) \in Ranges(BrokenRange(a, x, l).start, BrokenRange(a, x, l).end)
                             <=> Holds(BrokenRange(a, x, l), y)
        /\ \A y \in Int : Holds(BrokenRange(a, x, l), y) => a.type = "huge" /\ Holds(a, y)
    BY <2>1, <2>2, BrokenPiece
  <2> QED BY <2>3 DEF a
<1>2. DOMAIN list = 1 .. Len(list)
  BY ElemsType
<1>3. BrokenRanges(list, x, l) = UNION {Ranges(v(i).start, v(i).end) : i \in DOMAIN list}
  BY DEF BrokenRanges
<1>4. \A y : Broken(list, Len(list), x, l, y) <=> \E i \in DOMAIN list : Holds(v(i), y)
  BY <1>2 DEF Broken
<1> HIDE DEF v
<1>5. BrokenRanges(list, x, l) \subseteq Nat
  BY <1>1, <1>3
<1>6. \A y \in Nat : RangeOf(y) \in BrokenRanges(list, x, l) <=> Broken(list, Len(list), x, l, y)
  BY <1>1, <1>3, <1>4
<1>7. \A y \in Int : Broken(list, Len(list), x, l, y) => In(list, y, "huge")
  BY <1>1, <1>4 DEF In, Elems
<1> QED
  BY <1>5, <1>6, <1>7

\* The tables when the ranges hs, all of them huge, become full of small pages.
SplitTables(hs) ==
    LET ps == {p \in Nat : RangeOf(p * PageSize) \in hs}
    IN IF hs = {} THEN UNCHANGED tables
       ELSE \E pr :
            /\ pud' = PudEntry(pr)
            /\ pmd' = [h \in DOMAIN pmd \cup hs |->
                         IF h \in hs THEN [kind |-> "table", w |-> pmd[h].w] ELSE pmd[h]]
            /\ DOMAIN pte' = DOMAIN pte \cup ps
            /\ mem' = [p \in DOMAIN mem \cup ps |-> IF p \in DOMAIN mem THEN mem[p] ELSE Junk]

\* break_hugepage fails, or huge ranges become small.
BreakMoves ==
    /\ UNCHANGED <<hasDummy, alive, segments>>
    /\ lost \in Nat => lost' \in Nat
    /\ \/ UNCHANGED <<areas, kernel, tables>>
       \/ /\ ListOK(areas') /\ kernel' \in {"ok", "strayFree"}
          /\ \E C \in SUBSET Int, hs \in SUBSET DOMAIN pmd :
                RangesOf(hs, C) /\ Split(areas, areas', C) /\ SplitTables(hs)

LEMMA CopyHpp ==
  ASSUME NEW broken, NEW hs, hs = UNION {Ranges(b.start, b.end) : b \in broken},
         hs \subseteq Nat, \A h \in hs : IsHuge(h), copy_hpp(broken)
  PROVE  SplitTables(hs)
<1> DEFINE H == {h \in UNION {Ranges(b.start, b.end) : b \in broken} : ~ IsTable(h)}
           ps == UNION {PagesOfRange(h) : h \in H}
           ProtOf(h) == (CHOOSE b \in broken : h \in Ranges(b.start, b.end)).prot
           W(h)   == IF h \in DOMAIN pmd THEN pmd[h].w ELSE "W" \in ProtOf(h)
           HOf(p) == RangeOf(p * PageSize)
<1>1. H = hs
  BY DEF IsHuge, IsTable
<1>2. H = {} => UNCHANGED tables
  BY DEF copy_hpp
<1>3. H # {} => pud' = PudEntry("W" \in ProtOf(CHOOSE h \in H : TRUE))
  BY DEF copy_hpp
<1>4. H # {} => pmd' = [h \in DOMAIN pmd \cup H |->
                         IF h \in H THEN [kind |-> "table", w |-> W(h)] ELSE pmd[h]]
  BY DEF copy_hpp
<1>5. H # {} => pte' = [p \in DOMAIN pte \cup ps |-> IF p \in ps THEN W(HOf(p)) ELSE pte[p]]
  BY DEF copy_hpp
<1>6. H # {} => mem' = [p \in DOMAIN mem \cup ps |-> IF p \in DOMAIN mem THEN mem[p] ELSE Junk]
  BY DEF copy_hpp
<1>7. H \subseteq Nat /\ \A h \in H : h \in DOMAIN pmd
  BY <1>1 DEF IsHuge
<1> HIDE DEF H
<1>8. ps = {p \in Nat : RangeOf(p * PageSize) \in H}
  BY <1>7, PagesOfRanges
<1> HIDE DEF ps, HOf, ProtOf
<1>9. H = {} => SplitTables(H)
  BY <1>2 DEF SplitTables
<1>10. ASSUME H # {} PROVE SplitTables(H)
  <2>1. [h \in DOMAIN pmd \cup H |-> IF h \in H THEN [kind |-> "table", w |-> W(h)] ELSE pmd[h]]
          = [h \in DOMAIN pmd \cup H |->
                IF h \in H THEN [kind |-> "table", w |-> pmd[h].w] ELSE pmd[h]]
    <3>1. \A h \in H : W(h) = pmd[h].w
      BY <1>7
    <3> HIDE DEF W
    <3> QED BY <3>1
  <2> HIDE DEF W
  <2>2. DOMAIN pte' = DOMAIN pte \cup ps
    BY <1>5, <1>10
  <2>3. \E pr : pud' = PudEntry(pr)
    BY <1>3, <1>10
  <2>4. pmd' = [h \in DOMAIN pmd \cup H |->
                IF h \in H THEN [kind |-> "table", w |-> pmd[h].w] ELSE pmd[h]]
    BY <1>4, <1>10, <2>1
  <2> QED BY <1>6, <1>8, <1>10, <2>2, <2>3, <2>4 DEF SplitTables
<1>11. SplitTables(H)
  BY <1>9, <1>10
<1> QED
  BY <1>1, <1>11

LEMMA BreakStep ==
  ASSUME ListOK(areas), TablesOK(areas, pmd, pte, mem),
         NEW a \in Nat, NEW len \in Int,
         \A i \in DOMAIN areas : areas[i].type = "huge" =>
            /\ areas[i].start >= a /\ areas[i].end <= a + len => i = 1
            /\ areas[i].start < a /\ areas[i].end > a => areas[i].end >= a + len,
         BreakHugepage(a, len)
  PROVE  BreakMoves
<1> DEFINE l == a + len
           b == vm_area_break_hugepage(areas, a, len)
           hs == BrokenRanges(areas, a, l)
           C == {y \in Int : Broken(areas, Len(areas), a, l, y)}
<1>1. UNCHANGED <<hasDummy, alive, segments>>
  BY DEF BreakHugepage
<1>2. CASE BreakFails(a, len)
  BY <1>1, <1>2 DEF BreakHugepage, BreakMoves
<1>3. CASE ~ BreakFails(a, len)
  <2>1. len > 0 /\ len % HugeSize = 0 /\ a % HugeSize = 0 /\ l \in Int /\ a < l
    BY <1>3 DEF BreakFails
  <2>2. l % HugeSize = 0
    <3>1. /\ HugeSize \in Nat \ {0} /\ a \in Int /\ len \in Int
          /\ a % HugeSize = 0 /\ len % HugeSize = 0
      BY <2>1, Sizes
    <3>2. (a + len) % HugeSize = 0
      BY <3>1, MultipleSum, Zenon
    <3> QED BY <3>2
  <2>3. /\ areas' = b.list /\ lost' = lost + b.lost /\ SetKernel(b.stray)
        /\ copy_hpp({BrokenRange(areas[i], a, l) : i \in DOMAIN areas})
    BY <1>3 DEF BreakHugepage
  <2>4. BreakWell(areas, a, l)
    <3>1. ASSUME NEW i \in DOMAIN areas, areas[i].type = "huge"
          PROVE  /\ ~ (areas[i].start < a /\ a < areas[i].end /\ areas[i].end < l)
                 /\ areas[i].start >= a /\ areas[i].end <= l => i = 1
      <4>1. areas[i].start \in Nat /\ areas[i].end \in Nat
        BY ElemsType, AreaFields
      <4> QED BY <2>1, <3>1, <4>1
    <3> QED BY <3>1 DEF BreakWell
  <2>5. b \in BreakStates
    BY <2>1, <2>2, <2>4, BreakOK
  <2>6. \A y \in Int : \A p, t : Has(b.list, y, p, t) <=>
           IF Broken(areas, Len(areas), a, l, y) THEN t = "normal" /\ Has(areas, y, p, "huge")
                                                 ELSE Has(areas, y, p, t)
    <3>1. (a + len) % HugeSize = 0 /\ BreakWell(areas, a, a + len)
      BY <2>2, <2>4
    <3>2. \A y \in Int : \A p, t : Has(vm_area_break_hugepage(areas, a, len).list, y, p, t) <=>
             IF Broken(areas, Len(areas), a, a + len, y) THEN t = "normal" /\ Has(areas, y, p, "huge")
                                                         ELSE Has(areas, y, p, t)
      <4> HIDE DEF l, b
      <4> QED BY <2>1, <3>1, BreakOK
    <3> QED BY <3>2
  <2> HIDE DEF l, b
  <2>7. /\ hs \subseteq Nat
        /\ \A y \in Nat : RangeOf(y) \in hs <=> y \in C
        /\ \A y \in Int : y \in C => In(areas, y, "huge")
    BY <2>1, <2>2, <2>4, BrokenRangesAre
  <2>8. Split(areas, areas', C)
    BY <2>3, <2>6, <2>7 DEF Split
  <2>9. hs = UNION {Ranges(v.start, v.end) : v \in {BrokenRange(areas[i], a, l) : i \in DOMAIN areas}}
    BY DEF BrokenRanges
  <2>10. C \in SUBSET Int
    OBVIOUS
  <2> HIDE DEF hs, C
  <2>11. \A h \in hs : IsHuge(h)
    <3>1. ASSUME NEW h \in hs PROVE IsHuge(h)
      <4> DEFINE y == h * HugeSize
      <4>1. h \in Nat /\ y \in Nat /\ RangeOf(y) = h
        BY <2>7, TimesNat, RangeTimes
      <4>2. HugeAt(pmd, h) <=> In(areas, y, "huge")
        BY <4>1 DEF TablesOK
      <4> HIDE DEF y
      <4>3. In(areas, y, "huge")
        BY <2>7, <4>1
      <4> QED BY <4>2, <4>3 DEF HugeAt, IsHuge
    <3> QED BY <3>1
  <2>12. SplitTables(hs)
    BY <2>3, <2>7, <2>9, <2>11, CopyHpp
  <2>13. hs \in SUBSET DOMAIN pmd
    BY <2>11 DEF IsHuge
  <2>14. /\ b.list \in Seq(AreaSet) /\ b.stray \in BOOLEAN /\ b.lost \in Nat /\ ListOK(b.list)
    BY <2>5 DEF BreakStates
  <2>15. ListOK(areas') /\ kernel' \in {"ok", "strayFree"} /\ (lost \in Nat => lost' \in Nat)
    BY <2>3, <2>14 DEF SetKernel
  <2> QED BY <1>1, <2>7, <2>8, <2>10, <2>12, <2>13, <2>15 DEF BreakMoves, RangesOf
<1> QED
  BY <1>2, <1>3

\* An access: nothing, a store to a page, or a small page brought in.
AccessMoves ==
    /\ UNCHANGED <<areas, hasDummy, lost, kernel>>
    /\ alive \in BOOLEAN => alive' \in BOOLEAN
    /\ \/ UNCHANGED tables
       \/ /\ UNCHANGED <<pud, pmd, pte>>
          /\ \E p \in Nat, v \in Values : mem' = [mem EXCEPT ![p] = v]
       \/ \E y \in Nat, w \in BOOLEAN : In(areas, y, "normal") /\ make_entry(y, w, "normal")

LEMMA PagefaultIs ==
  ASSUME ListOK(areas), TablesOK(areas, pmd, pte, mem), NEW y \in Nat, NEW w \in BOOLEAN,
         ~ Present(y), vm_area_pagefault(y, w)
  PROVE  \/ UNCHANGED tables /\ alive' = FALSE
         \/ In(areas, y, "normal") /\ make_entry(y, w, "normal") /\ alive' = alive
<1> DEFINE held == {i \in DOMAIN areas : Holds(areas[i], y)}
           k    == CHOOSE i \in held : \A j \in held : i <= j
<1>1. CASE held = {}
  BY <1>1 DEF vm_area_pagefault, Sigsegv
<1>2. CASE held # {}
  <2>1. make_entry(y, w, areas[k].type) /\ alive' = alive
    BY <1>2 DEF vm_area_pagefault
  <2>2. k \in held
    <3>1. held \subseteq Nat
      BY ElemsType
    <3> HIDE DEF held
    <3>2. \E i \in held : \A j \in held : i <= j
      BY <1>2, <3>1, NatLeast
    <3> QED BY <3>2
  <2>3. k \in DOMAIN areas /\ Holds(areas[k], y)
    BY <2>2
  <2> HIDE DEF held, k
  <2>4. areas[k] \in Elems(areas) /\ areas[k].type \in {"normal", "huge"}
    BY <2>3, ElemsType, AreaFields
  <2>5. areas[k].type # "huge"
    <3>1. ~ HugeAt(pmd, RangeOf(y))
      BY DEF Present, IsHuge, HugeAt
    <3>2. ~ In(areas, y, "huge")
      BY <3>1, HugeIs
    <3> QED BY <2>3, <2>4, <3>2 DEF In
  <2>6. areas[k].type = "normal"
    BY <2>4, <2>5
  <2>7. In(areas, y, "normal")
    BY <2>3, <2>4, <2>6 DEF In
  <2> QED BY <2>1, <2>6, <2>7
<1> QED
  BY <1>1, <1>2

LEMMA FaultStep ==
  ASSUME ListOK(areas), TablesOK(areas, pmd, pte, mem), NEW y \in Nat, NEW w \in BOOLEAN,
         do_page_fault(y, w)
  PROVE  AccessMoves
<1>1. UNCHANGED <<areas, hasDummy, lost, kernel>>
  BY DEF do_page_fault
<1>2. CASE UNCHANGED tables /\ (alive' = alive \/ alive' = FALSE)
  BY <1>1, <1>2 DEF AccessMoves
<1>3. CASE SegOf(y) = "mmap" /\ ~ IsPresent(y) /\ vm_area_pagefault(y, w)
  <2>1. ~ Present(y)
    BY <1>3 DEF IsPresent, InMmap
  <2>2. \/ UNCHANGED tables /\ alive' = FALSE
        \/ In(areas, y, "normal") /\ make_entry(y, w, "normal") /\ alive' = alive
    BY <1>3, <2>1, PagefaultIs
  <2> QED BY <1>1, <2>2 DEF AccessMoves
<1>4. \/ UNCHANGED tables /\ (alive' = alive \/ alive' = FALSE)
      \/ SegOf(y) = "mmap" /\ ~ IsPresent(y) /\ vm_area_pagefault(y, w)
  BY DEF do_page_fault, Sigsegv, tables
<1> QED
  BY <1>2, <1>3, <1>4

LEMMA AccessStep ==
  ASSUME ListOK(areas), TablesOK(areas, pmd, pte, mem), FreeAccess
  PROVE  AccessMoves
<1>1. PICK a \in IF prog = "free" THEN FreeStores ELSE SegStores :
        \/ Load(a)
        \/ \E v \in Values : Store(a, v)
        \/ \E w \in BOOLEAN : do_page_fault(a, w)
  BY DEF FreeAccess
<1>2. a \in Nat
  BY <1>1, FreeInputs
<1>3. CASE Load(a)
  BY <1>3 DEF Load, vars, tables, AccessMoves
<1>4. ASSUME NEW v \in Values, Store(a, v)
      PROVE  AccessMoves
  <2>1. PageOf(a) \in Nat
    BY <1>2, PageIs
  <2>2. UNCHANGED <<areas, hasDummy, lost, kernel, alive, pud, pmd, pte>>
    BY <1>4 DEF Store
  <2>3. mem' = mem \/ mem' = [mem EXCEPT ![PageOf(a)] = v]
    BY <1>4 DEF Store
  <2> QED BY <2>1, <2>2, <2>3 DEF AccessMoves, tables
<1>5. ASSUME NEW w \in BOOLEAN, do_page_fault(a, w)
      PROVE  AccessMoves
  BY <1>2, <1>5, FaultStep
<1> QED
  BY <1>1, <1>3, <1>4, <1>5

-------------------------------------------------------------------------------
(* The stack *)

\* A page below the stack changes nothing in it.
LEMMA BelowStack ==
  ASSUME NEW sp, NEW next, StackSound(sp, next), NEW y \in Nat, y < StackSeg.start, NEW w
  PROVE  StackSound(Put(sp, {PageOf(y)}, w), next)
<1>1. next \in Nat /\ StackSeg.start <= next /\ next % PageSize = 0 /\ StackSeg.start \in Nat
  BY SegmentsAssumption DEF StackSound
<1>2. PageOf(next) \in Nat /\ PageOf(y) \in Nat
  BY <1>1, PageIs
<1>3. PageOf(y) < PageOf(next)
  <2> DEFINE j == PageOf(y)
             k == PageOf(next)
  <2>1. j * PageSize <= y /\ next < k * PageSize + PageSize /\ j * PageSize \in Nat
        /\ k * PageSize \in Nat /\ k * PageSize <= next
    BY <1>1, PageIs
  <2>2. j \in Nat /\ k \in Nat /\ PageSize \in Nat \ {0}
    BY <1>2, Sizes
  <2>3. next = k * PageSize
    <3>1. next = PageSize * (next \div PageSize) + (next % PageSize)
      BY <1>1, <2>2, DivMod
    <3> QED BY <1>1, <2>2, <3>1, Times DEF PageOf
  <2> HIDE DEF j, k
  <2>4. k < j => k * PageSize + PageSize <= j * PageSize
    BY <2>2, TimesLess
  <2>5. j = k => j * PageSize = k * PageSize
    OBVIOUS
  <2>6. j < k
    BY <1>1, <2>1, <2>2, <2>3, <2>4, <2>5
  <2> QED BY <2>6 DEF j, k
<1>4. ASSUME NEW p \in PageOf(next) .. PageOf(StackSeg.next) - 1
      PROVE  p \in DOMAIN Put(sp, {PageOf(y)}, w) /\ Put(sp, {PageOf(y)}, w)[p]
  <2>1. p \in DOMAIN sp /\ sp[p]
    BY DEF StackSound
  <2>2. p \notin {PageOf(y)}
    BY <1>2, <1>3
  <2>3. p \in DOMAIN Put(sp, {PageOf(y)}, w) /\ Put(sp, {PageOf(y)}, w)[p] = sp[p]
    BY <2>1, <2>2 DEF Put
  <2> QED BY <2>1, <2>3
<1> QED
  BY <1>1, <1>4 DEF StackSound

\* The stack grows to a page of its segment with all the pages in between.
LEMMA GrowSound ==
  ASSUME NEW sp, NEW next, StackSound(sp, next), NEW y \in Nat, StackSeg.start <= y, y < next
  PROVE  StackSound(Put(sp, PageOf(y) .. (next \div PageSize) - 1, TRUE), PageOf(y) * PageSize)
<1> DEFINE low == PageOf(y)
           new == low * PageSize
           S   == low .. PageOf(next) - 1
           sp2 == Put(sp, S, TRUE)
<1>1. low \in Nat /\ new \in Nat /\ new % PageSize = 0 /\ new <= y /\ y < new + PageSize
  BY PageIs
<1>2. PageOf(new) = low
  <2>1. PageSize \in Nat \ {0} /\ low \in Int /\ new \in Int
    BY <1>1, Sizes
  <2>2. low * PageSize <= new /\ new < low * PageSize + PageSize
    BY <2>1
  <2> HIDE DEF low, new
  <2> QED BY <2>1, <2>2, DivIs DEF PageOf
<1>3. StackSeg.start <= new
  <2> DEFINE s == StackSeg.start
  <2>1. s \in Int /\ y \in Int /\ new \in Int
    BY <1>1, SegmentsAssumption
  <2>2. s % PageSize = 0
    BY SegmentsAssumption
  <2>3. s <= y
    OBVIOUS
  <2> HIDE DEF s, new
  <2>4. new < s => new + PageSize <= s
    BY <1>1, <2>1, <2>2, PageGap, Zenon
  <2>5. s <= new
    BY <1>1, <2>1, <2>3, <2>4, Sizes
  <2> QED BY <2>5 DEF s
<1>4. PageOf(next) \in Nat /\ PageOf(StackSeg.next) \in Nat
  <2>1. next \in Nat /\ StackSeg.next \in Nat
    BY SegmentsAssumption DEF StackSound
  <2> QED BY <2>1, PageIs
<1> HIDE DEF low, new
<1>5. ASSUME NEW p \in low .. PageOf(StackSeg.next) - 1
      PROVE  p \in DOMAIN sp2 /\ sp2[p]
  <2>1. CASE p \in S
    <3>1. p \in DOMAIN sp2 /\ sp2[p] = TRUE
      <4> HIDE DEF S
      <4> QED BY <2>1 DEF Put
    <3> QED BY <3>1
  <2>2. CASE p \notin S
    <3>1. p \in PageOf(next) .. PageOf(StackSeg.next) - 1
      BY <1>1, <1>4, <2>2
    <3>2. p \in DOMAIN sp /\ sp[p]
      BY <3>1 DEF StackSound
    <3>3. p \in DOMAIN sp2 /\ sp2[p] = sp[p]
      <4> HIDE DEF S
      <4> QED BY <2>2, <3>2 DEF Put
    <3> QED BY <3>2, <3>3
  <2> QED BY <2>1, <2>2
<1> HIDE DEF S, sp2
<1>6. StackSound(sp2, new)
  BY <1>1, <1>2, <1>3, <1>5 DEF StackSound
<1> QED
  BY <1>6 DEF sp2, S, low, new, PageOf

LEMMA StackStep ==
  ASSUME StackSound(segPte, stackNext), FreeAccess
  PROVE  StackSound(segPte', stackNext')
<1>1. PICK a \in IF prog = "free" THEN FreeStores ELSE SegStores :
        \/ Load(a)
        \/ \E v \in Values : Store(a, v)
        \/ \E w \in BOOLEAN : do_page_fault(a, w)
  BY DEF FreeAccess
<1>2. a \in Nat
  BY <1>1, FreeInputs
<1>3. CASE UNCHANGED segments
  BY <1>3 DEF segments
<1>4. ASSUME NEW w \in BOOLEAN, a < StackSeg.start, install_page_table(PageOf(a), w),
             stackNext' = stackNext
      PROVE  StackSound(segPte', stackNext')
  <2>1. StackSound(Put(segPte, {PageOf(a)}, w), stackNext)
    BY <1>2, <1>4, BelowStack
  <2> QED BY <1>4, <2>1 DEF install_page_table
<1>5. CASE a >= StackSeg.start /\ a < stackNext /\ GrowStack(a)
  <2>1. StackSeg.start <= a
    BY <1>2, <1>5, SegmentsAssumption
  <2>2. StackSound(Put(segPte, PageOf(a) .. (stackNext \div PageSize) - 1, TRUE), PageOf(a) * PageSize)
    BY <1>2, <1>5, <2>1, GrowSound
  <2> QED BY <1>5, <2>2 DEF GrowStack
<1>6. ASSUME NEW w \in BOOLEAN, do_page_fault(a, w)
      PROVE  StackSound(segPte', stackNext')
  <2>1. CASE IsPresent(a) \/ SegOf(a) \notin {"data", "rodata", "stack"}
    <3>1. UNCHANGED segments
      BY <1>6, <2>1 DEF do_page_fault, Sigsegv, vm_area_pagefault
    <3> QED BY <1>3, <3>1
  <2>2. CASE ~ IsPresent(a) /\ SegOf(a) = "data"
    <3>1. UNCHANGED segments \/ (a < DataSeg.next /\ install_page_table(PageOf(a), w) /\ stackNext' = stackNext)
      BY <1>6, <2>2 DEF do_page_fault, Sigsegv
    <3>2. a < DataSeg.next => a < StackSeg.start
      BY <1>2, SegmentsAssumption
    <3> QED BY <1>3, <1>4, <3>1, <3>2
  <2>3. CASE ~ IsPresent(a) /\ SegOf(a) = "rodata"
    <3>1. UNCHANGED segments \/ (a < RoSeg.next /\ install_page_table(PageOf(a), w) /\ stackNext' = stackNext)
      BY <1>6, <2>3 DEF do_page_fault, Sigsegv
    <3>2. a < RoSeg.next => a < StackSeg.start
      BY <1>2, SegmentsAssumption
    <3> QED BY <1>3, <1>4, <3>1, <3>2
  <2>4. CASE ~ IsPresent(a) /\ SegOf(a) = "stack"
    <3>1. UNCHANGED segments \/ (a < stackNext /\ GrowStack(a))
      BY <1>6, <2>4 DEF do_page_fault, Sigsegv
    <3>2. a >= StackSeg.start
      BY <2>4 DEF SegOf
    <3> QED BY <1>3, <1>5, <3>1, <3>2
  <2> QED BY <2>1, <2>2, <2>3, <2>4
<1>7. Load(a) => UNCHANGED segments
  BY DEF Load, vars
<1>8. ASSUME NEW v \in Values, Store(a, v)
      PROVE  UNCHANGED segments
  BY <1>8 DEF Store
<1> QED
  BY <1>1, <1>3, <1>6, <1>7, <1>8

-------------------------------------------------------------------------------
(* The invariant is inductive *)

FreeNext == FreeMmap \/ FreeMunmap \/ FreeHuge \/ FreeAccess

LEMMA PudIs ==
  ASSUME NEW w, pud \in {"absent", "ro", "rw"}
  PROVE  PudEntry(w) \in {"absent", "ro", "rw"}
BY DEF PudEntry

LEMMA MapInv ==
  ASSUME MemInv, MapMoves
  PROVE  MemInv'
<1>1. ListOK(areas')
  BY DEF MemInv, MapMoves
<1>2. TablesOK(areas', pmd', pte', mem')
  <2>1. CASE areas' = areas
    BY <2>1 DEF MemInv, MapMoves, tables
  <2>2. ASSUME NEW s \in Nat, NEW e \in Int, NEW prot \in Prots, Added(areas, areas', s, e, prot)
        PROVE  TablesOK(areas', pmd, pte, mem)
    <3> DEFINE C == {y \in Int : s <= y /\ y < e}
    <3>1. /\ \A y \in Int : \A p, t : Has(areas, y, p, t) => y \notin C
          /\ \A y \in Int : \A p, t : Has(areas', y, p, t) <=>
                IF y \in C THEN p = prot /\ t = "normal" ELSE Has(areas, y, p, t)
      BY <2>2 DEF Added
    <3>2. TablesOK(areas, pmd, pte, mem)
      BY DEF MemInv
    <3> HIDE DEF C
    <3> QED BY <3>1, <3>2, MapTables
  <2> QED BY <2>1, <2>2 DEF MapMoves, tables
<1>3. StateOK'
  BY DEF MemInv, MapMoves, StateOK, tables
<1>4. StackSound(segPte', stackNext')
  BY DEF MemInv, MapMoves, segments
<1> QED
  BY <1>1, <1>2, <1>3, <1>4 DEF MemInv

LEMMA UnmapInv ==
  ASSUME MemInv, UnmapMoves
  PROVE  MemInv'
<1>1. ListOK(areas')
  BY DEF MemInv, UnmapMoves
<1>2. TablesOK(areas', pmd', pte', mem')
  <2>1. CASE UNCHANGED <<areas, pte, mem>>
    BY <2>1 DEF MemInv, UnmapMoves
  <2>2. ASSUME NEW s \in Nat, NEW e \in Int, Freed(areas, areas', s, e)
        PROVE  TablesOK(areas', pmd, Without(pte, SmallPages(areas, s, e)),
                        Without(mem, SmallPages(areas, s, e) \cap DOMAIN pte))
    <3> DEFINE C == {y \in Int : s <= y /\ y < e}
               ps == SmallPages(areas, s, e)
    <3>1. TablesOK(areas, pmd, pte, mem)
      BY DEF MemInv
    <3>2. \A y \in Int : \A p, t : Has(areas', y, p, t) <=>
             Has(areas, y, p, t) /\ ~ (t = "normal" /\ y \in C)
      BY <2>2 DEF Freed
    <3>3. \A p \in DOMAIN pte : p * PageSize \in C => p \in ps
      BY <3>1 DEF TablesOK, SmallPages
    <3> HIDE DEF C, ps
    <3>4. TablesOK(areas', pmd, Without(pte, ps), Without(mem, ps \cap DOMAIN pte))
      BY <3>1, <3>2, <3>3, UnmapTables
    <3> QED BY <3>4 DEF ps
  <2> QED BY <2>1, <2>2 DEF UnmapMoves
<1>3. StateOK'
  BY DEF MemInv, UnmapMoves, StateOK
<1>4. StackSound(segPte', stackNext')
  BY DEF MemInv, UnmapMoves, segments
<1> QED
  BY <1>1, <1>2, <1>3, <1>4 DEF MemInv

LEMMA MakeInv ==
  ASSUME MemInv, MakeMoves
  PROVE  MemInv'
<1>1. ListOK(areas')
  BY DEF MemInv, MakeMoves
<1>2. TablesOK(areas', pmd', pte', mem') /\ pud' \in {"absent", "ro", "rw"}
  <2>0. TablesOK(areas, pmd, pte, mem) /\ pud \in {"absent", "ro", "rw"}
    BY DEF MemInv, StateOK
  <2>1. CASE UNCHANGED <<areas, kernel, tables>>
    BY <2>0, <2>1 DEF tables
  <2>2. ASSUME NEW x \in Nat, NEW l \in Int, NEW prot \in Prots,
               Made(areas, areas', x, l, prot), copy_php(x, l, prot)
        PROVE  TablesOK(areas', pmd', pte', mem') /\ pud' \in {"absent", "ro", "rw"}
    <3> DEFINE C == {y \in Int : x <= y /\ y < l}
               hs == Ranges(x, l)
               ps == UNION {PagesOfRange(h) : h \in hs}
               w  == "W" \in prot
    <3>1. hs \subseteq Nat /\ \A y \in Nat : RangeOf(y) \in hs <=> x <= y /\ y < l
      <4>1. x % HugeSize = 0 /\ l % HugeSize = 0
        BY <2>2 DEF Made
      <4> QED BY <4>1, RangesIs, RangeBetween
    <3>2. RangesOf(hs, C)
      BY <3>1 DEF RangesOf
    <3>3. Widened(areas, areas', C, prot)
      BY <2>2 DEF Made, Widened
    <3>4. hs # {}
      <4>1. x < l
        BY <2>2 DEF Made
      <4> QED BY <3>1, <4>1
    <3>5. /\ pud' = PudEntry(w) /\ pmd' = Put(pmd, hs, [kind |-> "huge", w |-> w])
          /\ pte' = Without(pte, ps)
          /\ mem' = [p \in DOMAIN mem \cup ps |-> IF p \in DOMAIN mem THEN mem[p] ELSE Junk]
      <4> HIDE DEF hs
      <4>1. Ranges(x, l) = hs
        BY DEF hs
      <4> QED BY <2>2, <3>4, <4>1 DEF copy_php
    <3>6. w \in BOOLEAN
      OBVIOUS
    <3> HIDE DEF C, hs, w
    <3>8. \A p : p \in ps <=> p \in Nat /\ RangeOf(p * PageSize) \in hs
      BY <3>1, PagesOfRanges
    <3> HIDE DEF ps
    <3>9. /\ DOMAIN mem' = DOMAIN mem \cup ps
          /\ \A p \in DOMAIN mem' : mem'[p] = IF p \in DOMAIN mem THEN mem[p] ELSE Junk
      BY <3>5
    <3>10. /\ DOMAIN pmd' = DOMAIN pmd \cup hs
           /\ \A h \in hs : pmd'[h] = [kind |-> "huge", w |-> w]
           /\ \A h \in DOMAIN pmd : h \notin hs => pmd'[h] = pmd[h]
      BY <3>5 DEF Put
    <3>11. \A h \in hs : /\ pmd'[h] \in [kind : {"table", "huge"}, w : BOOLEAN]
                          /\ pmd'[h].kind = "huge"
      BY <3>6, <3>10
    <3>12. DOMAIN pte' = DOMAIN pte \ ps
      BY <3>5 DEF Without
    <3>7. TablesOK(areas', pmd', pte', mem')
      <4>1. HugeTables(hs, ps, pmd, pte, mem, pmd', pte', mem')
        BY <3>1, <3>8, <3>9, <3>10, <3>11, <3>12 DEF HugeTables
      <4> QED BY <2>0, <3>2, <3>3, <4>1, MakeTables
    <3> QED BY <2>0, <3>5, <3>7, PudIs
  <2> QED BY <2>1, <2>2 DEF MakeMoves
<1>3. StateOK'
  BY <1>2 DEF MemInv, MakeMoves, StateOK
<1>4. StackSound(segPte', stackNext')
  BY DEF MemInv, MakeMoves, segments
<1> QED
  BY <1>1, <1>2, <1>3, <1>4 DEF MemInv

LEMMA SplitIs ==
  ASSUME NEW hs, hs \subseteq DOMAIN pmd, hs # {}, SplitTables(hs)
  PROVE  LET ps == {p \in Nat : RangeOf(p * PageSize) \in hs}
         IN  SmallTables(hs, ps, pmd, pte, mem, pmd', pte', mem')
<1> DEFINE ps == {p \in Nat : RangeOf(p * PageSize) \in hs}
<1>1. /\ pmd' = [h \in DOMAIN pmd \cup hs |->
                    IF h \in hs THEN [kind |-> "table", w |-> pmd[h].w] ELSE pmd[h]]
      /\ DOMAIN pte' = DOMAIN pte \cup ps
      /\ mem' = [p \in DOMAIN mem \cup ps |-> IF p \in DOMAIN mem THEN mem[p] ELSE Junk]
  BY DEF SplitTables
<1>2. \A p : p \in ps <=> p \in Nat /\ RangeOf(p * PageSize) \in hs
  OBVIOUS
<1> HIDE DEF ps
<1>3. /\ DOMAIN pmd' = DOMAIN pmd \cup hs
      /\ \A h \in DOMAIN pmd' :
            pmd'[h] = IF h \in hs THEN [kind |-> "table", w |-> pmd[h].w] ELSE pmd[h]
  BY <1>1
<1>4. /\ DOMAIN mem' = DOMAIN mem \cup ps
      /\ \A p \in DOMAIN mem' : mem'[p] = IF p \in DOMAIN mem THEN mem[p] ELSE Junk
  BY <1>1
<1>5. SmallTables(hs, ps, pmd, pte, mem, pmd', pte', mem')
  BY <1>1, <1>2, <1>3, <1>4 DEF SmallTables
<1> QED
  BY <1>5 DEF ps

\* With no range to break, nothing changes.
LEMMA SplitNothing ==
  ASSUME NEW list, ListOK(list), NEW new, NEW C, RangesOf({}, C), Split(list, new, C)
  PROVE  \A y \in Int : \A p, t : Has(new, y, p, t) <=> Has(list, y, p, t)
<1>1. ASSUME NEW y \in Int PROVE y \notin C
  <2>1. y \in Nat => y \notin C
    BY DEF RangesOf
  <2>2. SUFFICES ASSUME y \in C PROVE y \in Nat
    BY <2>1
  <2>3. PICK a \in Elems(list) : Holds(a, y)
    BY <2>2 DEF Split, In
  <2>4. a.start \in Nat
    BY ElemsType, AreaFields
  <2> QED BY <2>3, <2>4 DEF Holds
<1> QED
  BY <1>1 DEF Split

LEMMA BreakInv ==
  ASSUME MemInv, BreakMoves
  PROVE  MemInv'
<1>1. ListOK(areas')
  BY DEF MemInv, BreakMoves
<1>2. TablesOK(areas', pmd', pte', mem') /\ pud' \in {"absent", "ro", "rw"}
  <2>0. ListOK(areas) /\ TablesOK(areas, pmd, pte, mem) /\ pud \in {"absent", "ro", "rw"}
    BY DEF MemInv, StateOK
  <2>1. CASE UNCHANGED <<areas, kernel, tables>>
    BY <2>0, <2>1 DEF tables
  <2>2. ASSUME NEW C \in SUBSET Int, NEW hs \in SUBSET DOMAIN pmd,
               RangesOf(hs, C), Split(areas, areas', C), SplitTables(hs)
        PROVE  TablesOK(areas', pmd', pte', mem') /\ pud' \in {"absent", "ro", "rw"}
    <3>1. CASE hs = {}
      <4>1. UNCHANGED tables
        BY <2>2, <3>1 DEF SplitTables
      <4>2. \A y \in Int : \A p, t : Has(areas', y, p, t) <=> Has(areas, y, p, t)
        BY <2>0, <2>2, <3>1, SplitNothing
      <4>3. ASSUME NEW y \in Int, NEW t PROVE In(areas', y, t) <=> In(areas, y, t)
        BY <4>2, InHas2
      <4>4. TablesOK(areas', pmd, pte, mem)
        BY <2>0, <4>3, TablesFrom
      <4> QED BY <2>0, <4>1, <4>4 DEF tables
    <3>2. CASE hs # {}
      <4> DEFINE ps == {p \in Nat : RangeOf(p * PageSize) \in hs}
      <4>1. SmallTables(hs, ps, pmd, pte, mem, pmd', pte', mem')
        BY <2>2, <3>2, SplitIs
      <4>2. \E pr : pud' = PudEntry(pr)
        BY <2>2, <3>2 DEF SplitTables
      <4> HIDE DEF ps
      <4>3. TablesOK(areas', pmd', pte', mem')
        BY <2>0, <2>2, <4>1, BreakTables
      <4> QED BY <2>0, <4>2, <4>3, PudIs
    <3> QED BY <3>1, <3>2
  <2> QED BY <2>1, <2>2 DEF BreakMoves
<1>3. StateOK'
  BY <1>2 DEF MemInv, BreakMoves, StateOK
<1>4. StackSound(segPte', stackNext')
  BY DEF MemInv, BreakMoves, segments
<1> QED
  BY <1>1, <1>2, <1>3, <1>4 DEF MemInv

LEMMA StoreTables ==
  ASSUME NEW list, NEW pm, NEW pt, NEW m, TablesOK(list, pm, pt, m), NEW p, NEW v \in Values
  PROVE  TablesOK(list, pm, pt, [m EXCEPT ![p] = v])
<1> DEFINE m2 == [m EXCEPT ![p] = v]
<1>1. DOMAIN m2 = DOMAIN m /\ \A x \in DOMAIN m2 : m2[x] = v \/ m2[x] = m[x]
  OBVIOUS
<1> HIDE DEF m2
<1>2. TablesOK(list, pm, pt, m2)
  BY <1>1 DEF TablesOK
<1> QED
  BY <1>2 DEF m2

LEMMA AccessInv ==
  ASSUME MemInv, AccessMoves, StackSound(segPte', stackNext')
  PROVE  MemInv'
<1>1. ListOK(areas')
  BY DEF MemInv, AccessMoves
<1>2. TablesOK(areas', pmd', pte', mem') /\ pud' \in {"absent", "ro", "rw"}
  <2>0. ListOK(areas) /\ TablesOK(areas, pmd, pte, mem) /\ pud \in {"absent", "ro", "rw"}
        /\ areas' = areas
    BY DEF MemInv, StateOK, AccessMoves
  <2>1. CASE UNCHANGED tables
    BY <2>0, <2>1 DEF tables
  <2>2. ASSUME NEW p \in Nat, NEW v \in Values, UNCHANGED <<pud, pmd, pte>>,
               mem' = [mem EXCEPT ![p] = v]
        PROVE  TablesOK(areas', pmd', pte', mem') /\ pud' \in {"absent", "ro", "rw"}
    BY <2>0, <2>2, StoreTables
  <2>3. ASSUME NEW y \in Nat, NEW w \in BOOLEAN, In(areas, y, "normal"), make_entry(y, w, "normal")
        PROVE  TablesOK(areas', pmd', pte', mem') /\ pud' \in {"absent", "ro", "rw"}
    <3> DEFINE h == RangeOf(y)
               p == PageOf(y)
    <3>1. /\ pud' = PudEntry(w)
          /\ pmd' = IF h \in DOMAIN pmd THEN pmd ELSE Put(pmd, {h}, [kind |-> "table", w |-> w])
          /\ pte' = IF p \notin DOMAIN pte THEN Put(pte, {p}, w) ELSE pte
          /\ mem' = IF p \notin DOMAIN pte THEN Put(mem, {p}, Junk) ELSE mem
      BY <2>3 DEF make_entry
    <3>2. TablesOK(areas,
                   IF h \in DOMAIN pmd THEN pmd ELSE Put(pmd, {h}, [kind |-> "table", w |-> w]),
                   IF p \notin DOMAIN pte THEN Put(pte, {p}, w) ELSE pte,
                   IF p \notin DOMAIN pte THEN Put(mem, {p}, Junk) ELSE mem)
      BY <2>0, <2>3, FaultTables
    <3> HIDE DEF h, p
    <3> QED BY <2>0, <3>1, <3>2, PudIs
  <2> QED BY <2>1, <2>2, <2>3 DEF AccessMoves
<1>3. StateOK'
  BY <1>2 DEF MemInv, AccessMoves, StateOK
<1> QED
  BY <1>1, <1>2, <1>3 DEF MemInv

LEMMA HugeStep ==
  ASSUME ListOK(areas), TablesOK(areas, pmd, pte, mem), FreeHuge
  PROVE  MakeMoves \/ BreakMoves
<1>1. PICK a \in FreeAddrs, len \in FreeLens :
        \/ \E prot \in FreeProts :
             /\ Up(a, HugeSize) < Down(a + len, HugeSize)
             /\ MappedAll(Up(a, HugeSize), Down(a + len, HugeSize), "normal")
             /\ FitsInt(a + len) /\ \A i \in DOMAIN areas : FitsInt(areas[i].end)
             /\ MakeHugepage(a, len, prot, FALSE)
        \/ /\ MappedAll(a, a + len, "huge") \/ BreakFails(a, len)
           /\ \A i \in DOMAIN areas : areas[i].type = "huge" =>
                /\ areas[i].start >= a /\ areas[i].end <= a + len => i = 1
                /\ areas[i].start < a /\ areas[i].end > a => areas[i].end >= a + len
           /\ BreakHugepage(a, len)
  BY DEF FreeHuge
<1>2. a \in Nat /\ Dummy.end <= a /\ len \in Int
  BY <1>1, FreeInputs
<1>3. ASSUME NEW prot \in FreeProts,
             Up(a, HugeSize) < Down(a + len, HugeSize),
             MappedAll(Up(a, HugeSize), Down(a + len, HugeSize), "normal"),
             FitsInt(a + len), \A i \in DOMAIN areas : FitsInt(areas[i].end),
             MakeHugepage(a, len, prot, FALSE)
      PROVE  MakeMoves
  <2>1. prot \in Prots
    BY FreeInputs
  <2> QED BY <1>2, <1>3, <2>1, MakeStep
<1>4. ASSUME \A i \in DOMAIN areas : areas[i].type = "huge" =>
                /\ areas[i].start >= a /\ areas[i].end <= a + len => i = 1
                /\ areas[i].start < a /\ areas[i].end > a => areas[i].end >= a + len,
             BreakHugepage(a, len)
      PROVE  BreakMoves
  BY <1>2, <1>4, BreakStep
<1> QED
  BY <1>1, <1>3, <1>4

LEMMA StepInv ==
  ASSUME MemInv, FreeNext
  PROVE  MemInv'
<1>0. ListOK(areas) /\ TablesOK(areas, pmd, pte, mem) /\ StackSound(segPte, stackNext)
  BY DEF MemInv
<1>1. CASE FreeMmap
  BY <1>0, <1>1, MapStep, MapInv
<1>2. CASE FreeMunmap
  BY <1>0, <1>2, UnmapStep, UnmapInv
<1>3. CASE FreeHuge
  BY <1>0, <1>3, HugeStep, MakeInv, BreakInv
<1>4. CASE FreeAccess
  BY <1>0, <1>4, AccessStep, StackStep, AccessInv
<1> QED
  BY <1>1, <1>2, <1>3, <1>4 DEF FreeNext

LEMMA InitInv ==
  ASSUME Init
  PROVE  MemInv
<1>0. DOMAIN << >> = {}
  OBVIOUS
<1>1. ListOK(areas)
  BY <1>0 DEF Init, ListOK
<1>2. TablesOK(areas, pmd, pte, mem)
  BY <1>0 DEF Init, TablesOK, HugeAt, In, Elems
<1>3. StateOK
  BY DEF Init, StateOK
<1>4. StackSound(segPte, stackNext)
  <2>1. stackNext = StackSeg.next
    BY DEF Init
  <2>2. StackSeg.next \in Nat /\ StackSeg.next % PageSize = 0 /\ StackSeg.start <= StackSeg.next
    BY SegmentsAssumption
  <2>3. PageOf(stackNext) \in Int
    BY <2>1, <2>2, PageIs
  <2> QED BY <2>1, <2>2, <2>3 DEF StackSound
<1> QED
  BY <1>1, <1>2, <1>3, <1>4 DEF MemInv

LEMMA KeepsProg == Next => UNCHANGED prog
BY DEF Next, TestStep, TestCall, TestPmap, TestAccess, TestFault, FreeMmap, FreeMunmap, FreeHuge,
       FreeAccess, FreeCall, Advance, pvars

LEMMA NextIsFree == Next /\ ~IsTest => FreeNext
BY DEF Next, TestStep, TestCall, TestPmap, TestAccess, TestFault, FreeNext, Here

LEMMA KeepsInv == IInv /\ [Next]_<<vars, pvars>> => IInv'
<1> SUFFICES ASSUME IInv, [Next]_<<vars, pvars>>, ~IsTest'
             PROVE  MemInv'
  BY DEF IInv
<1>1. UNCHANGED prog
  BY KeepsProg DEF pvars
<1>2. IsTest' = IsTest
  BY <1>1 DEF IsTest
<1>3. MemInv
  BY <1>2 DEF IInv
<1>4. CASE Next
  BY <1>2, <1>3, <1>4, NextIsFree, StepInv
<1>5. CASE UNCHANGED <<vars, pvars>>
  BY <1>3, <1>5 DEF vars, tables, segments, MemInv, StateOK
<1> QED
  BY <1>4, <1>5

\* Whatever the sizes, the segments and the requests: the lists and the tables of the
\* free program and of the one that only accesses the other segments stay well-formed.
THEOREM IInvAlways == Spec => []IInv
<1>1. PInit => IInv
  BY InitInv DEF PInit, IInv
<1> QED
  BY <1>1, KeepsInv, PTL DEF Spec

-------------------------------------------------------------------------------
(* The properties that TLC checks *)

LEMMA TypeOKIs == MemInv => TypeOK
<1> SUFFICES ASSUME MemInv PROVE TypeOK
  OBVIOUS
<1>0. ListOK(areas) /\ TablesOK(areas, pmd, pte, mem) /\ StateOK
  BY DEF MemInv
<1>1. ASSUME NEW i \in DOMAIN areas
      PROVE  /\ areas[i].start \in Nat /\ areas[i].end \in Nat
             /\ areas[i].prot \in Prots /\ areas[i].type \in {"normal", "huge"}
  BY <1>0, ElemsType, AreaFields
<1>2. DOMAIN mem = DOMAIN pte \cup {p \in DOMAIN mem : IsHuge(RangeOf(p * PageSize))}
  BY <1>0 DEF TablesOK, HugeAt, IsHuge
<1>3. \A p \in DOMAIN pte : IsTable(RangeOf(p * PageSize))
  BY <1>0 DEF TablesOK, TableAt, IsTable
<1>4. \A h \in DOMAIN pmd : pmd[h] \in [kind : {"table", "huge"}, w : BOOLEAN]
  BY <1>0 DEF TablesOK
<1>5. \A p \in DOMAIN mem : mem[p] \in Values \cup {Junk}
  BY <1>0 DEF TablesOK
<1> QED
  BY <1>0, <1>1, <1>2, <1>3, <1>4, <1>5 DEF TypeOK, StateOK

LEMMA ListInOrderIs == MemInv => ListInOrder
<1> SUFFICES ASSUME ListOK(areas), NEW i \in DOMAIN areas
             PROVE  /\ EndOf(areas, i - 1) <= areas[i].start /\ areas[i].start < areas[i].end
                    /\ i > 1 => ~Mergeable(areas[i - 1], areas[i])
  BY DEF ListInOrder, MemInv
<1>0. i \in Nat /\ i >= 1 /\ i <= Len(areas) /\ Len(areas) \in Nat /\ DOMAIN areas = 1 .. Len(areas)
  BY ElemsType
<1>1. EndOf(areas, i - 1) <= areas[i].start
  <2> DEFINE k == i - 1
  <2>1. k \in 0 .. Len(areas) /\ k < Len(areas) /\ k + 1 = i
    BY <1>0
  <2> HIDE DEF k
  <2>2. EndOf(areas, k) <= areas[k + 1].start
    BY <2>1, EndOfIs
  <2> QED BY <2>1, <2>2 DEF k
<1>2. areas[i].start < areas[i].end
  BY ElemsType, AreaFields
<1>3. ASSUME i > 1 PROVE ~Mergeable(areas[i - 1], areas[i])
  <2>1. i - 1 \in DOMAIN areas /\ i - 1 < i
    BY <1>0, <1>3
  <2> QED BY <2>1 DEF ListOK, Before
<1> QED
  BY <1>1, <1>2, <1>3

LEMMA NoStrayPageIs == MemInv => NoStrayPage
<1> SUFFICES ASSUME TablesOK(areas, pmd, pte, mem), NEW p \in DOMAIN pte
             PROVE  \E i \in HeldBy(p) : areas[i].type = "normal"
  BY DEF NoStrayPage, MemInv
<1>1. In(areas, p * PageSize, "normal")
  BY DEF TablesOK
<1> QED
  BY <1>1 DEF In, Elems, HeldBy

LEMMA TablesAgreeIs == MemInv => TablesAgree
<1> SUFFICES ASSUME ListOK(areas), TablesOK(areas, pmd, pte, mem), NEW i \in DOMAIN areas,
                    NEW p \in Pages(areas[i].start, areas[i].end)
             PROVE  IsHuge(RangeOf(p * PageSize)) <=> areas[i].type = "huge"
  BY DEF TablesAgree, MemInv
<1> DEFINE y == p * PageSize
<1>1. areas[i].start \in Nat /\ areas[i].end \in Int
  BY ElemsType, AreaFields
<1>2. p \in Nat /\ Holds(areas[i], y)
  BY <1>1, PagesIs DEF Holds
<1>3. y \in Nat
  BY <1>2, TimesNat
<1>4. IsHuge(RangeOf(y)) <=> In(areas, y, "huge")
  <2> HIDE DEF y
  <2>1. HugeAt(pmd, RangeOf(y)) <=> In(areas, y, "huge")
    BY <1>3, HugeIs
  <2> QED BY <2>1 DEF HugeAt, IsHuge
<1>5. areas[i] \in Elems(areas)
  BY DEF Elems
<1>6. In(areas, y, "huge") <=> areas[i].type = "huge"
  <2> HIDE DEF y
  <2>1. ASSUME In(areas, y, "huge") PROVE areas[i].type = "huge"
    <3>1. PICK b \in Elems(areas) : Holds(b, y) /\ b.type = "huge"
      BY <2>1 DEF In
    <3>2. b = areas[i]
      BY <1>2, <1>3, <1>5, <3>1, OneHolder
    <3> QED BY <3>1, <3>2
  <2> QED BY <1>2, <1>5, <2>1 DEF In
<1> QED
  BY <1>4, <1>6

\* Outside the tests the state always has the types of the code, and every page that has
\* memory has it through one entry of the tables.
THEOREM TypeOKAlways == Spec => [](~IsTest => TypeOK)
<1>1. IInv => (~IsTest => TypeOK)
  BY TypeOKIs DEF IInv
<1> QED
  BY <1>1, IInvAlways, PTL

\* However mmap, munmap, make_hugepage and break_hugepage insert, merge, cut and remove
\* areas, the list stays in address order, without overlaps and without neighbours that
\* could be merged.
THEOREM ListInOrderAlways == Spec => [](~IsTest => ListInOrder)
<1>1. IInv => (~IsTest => ListInOrder)
  BY ListInOrderIs DEF IInv
<1> QED
  BY <1>1, IInvAlways, PTL

\* No small page outlives the area it was in: munmap and make_hugepage free every page of
\* the ranges they take from an area.
THEOREM NoStrayPageAlways == Spec => [](~IsTest => NoStrayPage)
<1>1. IInv => (~IsTest => NoStrayPage)
  BY NoStrayPageIs DEF IInv
<1> QED
  BY <1>1, IInvAlways, PTL

\* The page tables and the list of areas always agree on where the huge pages are.
THEOREM TablesAgreeAlways == Spec => [](~IsTest => TablesAgree)
<1>1. IInv => (~IsTest => TablesAgree)
  BY TablesAgreeIs DEF IInv
<1> QED
  BY <1>1, IInvAlways, PTL

\* However far below the stack an access is, the stack that do_page_fault grows has no hole.
THEOREM StackWholeAlways == Spec => [](~IsTest => StackWhole)
<1>1. IInv => (~IsTest => StackWhole)
  BY DEF IInv, MemInv, StackSound, StackWhole
<1> QED
  BY <1>1, IInvAlways, PTL

\* With its requests kept to those that mmap.c serves as it should, the program never
\* makes the kernel loop (vm_area_make_hugepage with no whole huge page in its range) nor
\* walk through a huge page as if it were a page table (free_range, copy_php).
THEOREM KernelSound == Spec => [](~IsTest => kernel \in {"ok", "strayFree"})
<1>1. IInv => (~IsTest => kernel \in {"ok", "strayFree"})
  BY DEF IInv, MemInv, StateOK
<1> QED
  BY <1>1, IInvAlways, PTL

-------------------------------------------------------------------------------
(* What the program sees of a list and of the contents, page by page *)

HeldIn(list, p) == {i \in DOMAIN list : Holds(list[i], p * PageSize)}

MapIn(list) ==
    [p \in MmapPages |->
        LET a == list[CHOOSE i \in HeldIn(list, p) : TRUE]
        IN IF HeldIn(list, p) = {} THEN [mapped |-> FALSE, prot |-> {}, huge |-> FALSE]
           ELSE [mapped |-> TRUE, prot |-> a.prot, huge |-> a.type = "huge"]]

StoreIn(list, m) ==
    [p \in MmapPages |-> IF HeldIn(list, p) = {} \/ p \notin DOMAIN m THEN Junk ELSE m[p]]

LEMMA Shown ==
  /\ PageMap = MapIn(areas) /\ PageStore = StoreIn(areas, mem)
  /\ PageMap' = MapIn(areas') /\ PageStore' = StoreIn(areas', mem')
BY DEF PageMap, PageStore, MapIn, StoreIn, HeldBy, HeldIn

LEMMA MmapPage ==
  ASSUME NEW p \in MmapPages
  PROVE  p \in Nat /\ p * PageSize \in Nat
<1>1. PageSize \in Nat
  BY Sizes
<1>2. p \in Nat
  BY MmapPagesAssumption
<1> QED
  BY <1>1, <1>2, TimesNat

\* The area that holds a page says how it is mapped.
LEMMA MapIs ==
  ASSUME NEW list, ListOK(list), NEW p \in MmapPages, NEW pr, NEW t,
         Has(list, p * PageSize, pr, t)
  PROVE  MapIn(list)[p] = [mapped |-> TRUE, prot |-> pr, huge |-> t = "huge"]
<1> DEFINE y == p * PageSize
           k == CHOOSE i \in HeldIn(list, p) : TRUE
<1>1. y \in Int
  BY MmapPage
<1>2. PICK b \in Elems(list) : Holds(b, y) /\ b.prot = pr /\ b.type = t
  BY DEF Has
<1>3. HeldIn(list, p) # {}
  BY <1>2 DEF Elems, HeldIn
<1>4. k \in HeldIn(list, p)
  BY <1>3
<1> HIDE DEF k
<1>5. list[k] \in Elems(list) /\ Holds(list[k], y)
  BY <1>4 DEF Elems, HeldIn
<1>6. list[k] = b
  <2> HIDE DEF y
  <2> QED BY <1>1, <1>2, <1>5, OneHolder
<1>7. MapIn(list)[p] = [mapped |-> TRUE, prot |-> list[k].prot, huge |-> list[k].type = "huge"]
  BY <1>3 DEF MapIn, k
<1> QED
  BY <1>2, <1>6, <1>7

LEMMA MapFields ==
  ASSUME NEW list, ListOK(list), NEW p \in MmapPages, NEW pr, NEW t,
         Has(list, p * PageSize, pr, t)
  PROVE  MapIn(list)[p].mapped /\ (MapIn(list)[p].huge <=> t = "huge")
<1> DEFINE h == t = "huge"
<1>1. MapIn(list)[p] = [mapped |-> TRUE, prot |-> pr, huge |-> h]
  BY MapIs
<1> HIDE DEF h
<1>2. MapIn(list)[p].mapped /\ (MapIn(list)[p].huge <=> h)
  BY <1>1
<1> QED
  BY <1>2 DEF h

LEMMA MapFree ==
  ASSUME NEW list, NEW p \in MmapPages, \A pr, t : ~ Has(list, p * PageSize, pr, t)
  PROVE  MapIn(list)[p] = [mapped |-> FALSE, prot |-> {}, huge |-> FALSE]
<1>1. HeldIn(list, p) = {}
  BY DEF Has, Elems, HeldIn
<1> QED
  BY <1>1 DEF MapIn

LEMMA SameMap ==
  ASSUME NEW list, NEW new, ListOK(list), ListOK(new), NEW p \in MmapPages,
         \A pr, t : Has(new, p * PageSize, pr, t) <=> Has(list, p * PageSize, pr, t)
  PROVE  MapIn(new)[p] = MapIn(list)[p]
<1>1. ASSUME NEW pr, NEW t, Has(list, p * PageSize, pr, t)
      PROVE  MapIn(new)[p] = MapIn(list)[p]
  <2>1. MapIn(list)[p] = [mapped |-> TRUE, prot |-> pr, huge |-> t = "huge"]
    BY <1>1, MapIs
  <2>2. MapIn(new)[p] = [mapped |-> TRUE, prot |-> pr, huge |-> t = "huge"]
    BY <1>1, MapIs
  <2> QED BY <2>1, <2>2
<1>2. ASSUME \A pr, t : ~ Has(list, p * PageSize, pr, t)
      PROVE  MapIn(new)[p] = MapIn(list)[p]
  <2>1. \A pr, t : ~ Has(new, p * PageSize, pr, t)
    BY <1>2
  <2> QED BY <1>2, <2>1, MapFree
<1> QED
  BY <1>1, <1>2

\* The content of a page, and that a program sees it.
Content(m, p) == IF p \in DOMAIN m THEN m[p] ELSE Junk

LEMMA StoreIs ==
  ASSUME NEW list, ListOK(list), NEW pm, NEW pt, NEW m, TablesOK(list, pm, pt, m),
         NEW p \in MmapPages
  PROVE  StoreIn(list, m)[p] = Content(m, p)
<1>1. ASSUME p \in DOMAIN m PROVE HeldIn(list, p) # {}
  <2>1. \E t \in {"normal", "huge"} : In(list, p * PageSize, t)
    BY <1>1, MemIn
  <2> QED BY <2>1 DEF In, Elems, HeldIn
<1> QED
  BY <1>1 DEF StoreIn, Content

\* Pages of one huge-page range have the same number divided by the pages in a huge page.
LEMMA SameRange ==
  ASSUME NEW p \in Nat, NEW q \in Nat,
         q \div (HugeSize \div PageSize) = p \div (HugeSize \div PageSize)
  PROVE  RangeOf(q * PageSize) = RangeOf(p * PageSize)
<1> DEFINE r == HugeSize \div PageSize
<1>1. PageSize \in Nat \ {0} /\ HugeSize \in Nat \ {0}
  BY Sizes
<1>2. PICK n \in Int : HugeSize = n * PageSize
  <2>1. HugeSize % PageSize = 0 /\ HugeSize \in Int
    BY SizesAssumption
  <2> QED BY <1>1, <2>1, MultipleIs
<1>3. n \in Nat \ {0}
  BY <1>1, <1>2
<1>4. r = n
  BY <1>1, <1>2, DivIs
<1> HIDE DEF r
<1>5. ASSUME NEW a \in Nat PROVE RangeOf(a * PageSize) = a \div n
  <2> DEFINE k == a \div n
  <2>1. k \in Int /\ k * n <= a /\ a + 1 <= k * n + n
    BY <1>3, DivIs, DivNat
  <2>2. k * n \in Int /\ k * n + n \in Int
    BY <1>3, <2>1
  <2> HIDE DEF k
  <2>3. (k * n) * PageSize <= a * PageSize
    BY <1>1, <2>1, <2>2
  <2>4. (a + 1) * PageSize <= (k * n + n) * PageSize
    BY <1>1, <2>1, <2>2
  <2>5. (k * n) * PageSize = k * HugeSize /\ (k * n + n) * PageSize = k * HugeSize + HugeSize
    BY <1>1, <1>2, <2>1, <2>2
  <2>6. (a + 1) * PageSize = a * PageSize + PageSize /\ a * PageSize \in Int /\ k * HugeSize \in Int
    BY <1>1, <2>1, Times
  <2>7. k * HugeSize <= a * PageSize /\ a * PageSize < k * HugeSize + HugeSize
    BY <1>1, <2>3, <2>4, <2>5, <2>6
  <2>8. (a * PageSize) \div HugeSize = k
    BY <1>1, <2>1, <2>6, <2>7, DivIs
  <2> QED BY <2>8 DEF k, RangeOf
<1>6. q \div n = p \div n
  BY <1>4 DEF r
<1> QED
  BY <1>5, <1>6

-------------------------------------------------------------------------------
(* Each call is one operation of AddressSpace, or a stutter *)

\* The pages a step changes: the set that A!ANext takes.
Changed == {p \in MmapPages : PageMap'[p] # PageMap[p]}

LEMMA MapFunctions ==
  /\ DOMAIN PageMap = MmapPages /\ DOMAIN PageMap' = MmapPages
  /\ PageMap = [p \in MmapPages |-> PageMap[p]] /\ PageMap' = [p \in MmapPages |-> PageMap'[p]]
  /\ PageStore = [p \in MmapPages |-> PageStore[p]] /\ PageStore' = [p \in MmapPages |-> PageStore'[p]]
BY DEF PageMap, PageStore

\* Contents that no step changes are not seen to change.
LEMMA StoreSame ==
  ASSUME MemInv, MemInv', \A p \in MmapPages : Content(mem', p) = Content(mem, p)
  PROVE  PageStore' = PageStore
<1>1. ASSUME NEW p \in MmapPages PROVE PageStore'[p] = PageStore[p]
  <2>1. StoreIn(areas, mem)[p] = Content(mem, p)
    BY StoreIs DEF MemInv
  <2>2. StoreIn(areas', mem')[p] = Content(mem', p)
    BY StoreIs DEF MemInv
  <2> QED BY <2>1, <2>2, Shown
<1> QED
  BY <1>1, MapFunctions

LEMMA MapSame ==
  ASSUME ListOK(areas), ListOK(areas'),
         \A p \in MmapPages : \A pr, t : Has(areas', p * PageSize, pr, t) <=> Has(areas, p * PageSize, pr, t)
  PROVE  PageMap' = PageMap
<1>1. \A p \in MmapPages : PageMap'[p] = PageMap[p]
  BY SameMap, Shown
<1> QED
  BY <1>1, MapFunctions

LEMMA MapRef ==
  ASSUME MemInv, MemInv', MapMoves
  PROVE  (\E prot \in Prots : A!AMap(Changed, prot)) \/ UNCHANGED <<PageMap, PageStore>>
<1>0. ListOK(areas) /\ ListOK(areas') /\ mem' = mem
  BY DEF MemInv, MapMoves, tables
<1>1. PageStore' = PageStore
  BY <1>0, StoreSame
<1>2. CASE areas' = areas
  <2>1. PageMap' = PageMap
    BY <1>0, <1>2, MapSame
  <2> QED BY <1>1, <2>1
<1>3. ASSUME NEW s \in Nat, NEW e \in Int, NEW prot \in Prots, Added(areas, areas', s, e, prot)
      PROVE  A!AMap(Changed, prot) \/ UNCHANGED <<PageMap, PageStore>>
  <2> DEFINE S == {p \in MmapPages : s <= p * PageSize /\ p * PageSize < e}
             free == [mapped |-> FALSE, prot |-> {}, huge |-> FALSE]
             small == [mapped |-> TRUE, prot |-> prot, huge |-> FALSE]
  <2>1. ASSUME NEW p \in S PROVE PageMap[p] = free /\ PageMap'[p] = small
    <3> DEFINE y == p * PageSize
    <3>1. p \in MmapPages /\ y \in Int /\ s <= y /\ y < e
      BY MmapPage
    <3> HIDE DEF y
    <3>2. \A pr, t : ~ Has(areas, y, pr, t)
      BY <1>3, <3>1 DEF Added
    <3>3. Has(areas', y, prot, "normal")
      BY <1>3, <3>1 DEF Added
    <3>4. MapIn(areas)[p] = free
      BY <3>1, <3>2, MapFree DEF y
    <3>5. MapIn(areas')[p] = [mapped |-> TRUE, prot |-> prot, huge |-> "normal" = "huge"]
      BY <1>0, <3>1, <3>3, MapIs DEF y
    <3> QED BY <3>4, <3>5, Shown
  <2>2. ASSUME NEW p \in MmapPages, p \notin S PROVE PageMap'[p] = PageMap[p]
    <3> DEFINE y == p * PageSize
    <3>1. y \in Int /\ ~ (s <= y /\ y < e)
      BY <2>2, MmapPage
    <3> HIDE DEF y, S
    <3>2. \A pr, t : Has(areas', y, pr, t) <=> Has(areas, y, pr, t)
      BY <1>3, <3>1 DEF Added
    <3>3. MapIn(areas')[p] = MapIn(areas)[p]
      BY <1>0, <3>2, SameMap DEF y
    <3> QED BY <3>3, Shown
  <2>3. S \subseteq MmapPages
    OBVIOUS
  <2>4. free # small /\ ~ free.mapped
    OBVIOUS
  <2> HIDE DEF S
  <2>5. Changed = S
    BY <2>1, <2>2, <2>3, <2>4 DEF Changed
  <2>6. PageMap' = [p \in MmapPages |-> IF p \in S THEN small ELSE PageMap[p]]
    BY <2>1, <2>2, <2>3, MapFunctions
  <2>7. CASE S = {}
    <3>1. \A p \in MmapPages : PageMap'[p] = PageMap[p]
      BY <2>2, <2>7
    <3>2. PageMap' = PageMap
      BY <3>1, MapFunctions
    <3> QED BY <1>1, <3>2
  <2>8. CASE S # {}
    <3>1. \A p \in S : ~ PageMap[p].mapped
      BY <2>1, <2>4
    <3> QED BY <1>1, <2>5, <2>6, <2>8, <3>1 DEF A!AMap, A!Mapped, A!As
  <2> QED BY <2>7, <2>8
<1> QED
  BY <1>2, <1>3 DEF MapMoves

LEMMA UnmapRef ==
  ASSUME MemInv, MemInv', UnmapMoves
  PROVE  A!AUnmap(Changed) \/ UNCHANGED <<PageMap, PageStore>>
<1>0. ListOK(areas) /\ ListOK(areas') /\ TablesOK(areas, pmd, pte, mem) /\ TablesOK(areas', pmd', pte', mem')
  BY DEF MemInv
<1>1. CASE UNCHANGED <<areas, pte, mem>>
  <2>1. PageMap' = PageMap
    BY <1>0, <1>1, MapSame
  <2>2. PageStore' = PageStore
    BY <1>1, StoreSame
  <2> QED BY <2>1, <2>2
<1>2. ASSUME NEW s \in Nat, NEW e \in Int, Freed(areas, areas', s, e),
             mem' = Without(mem, SmallPages(areas, s, e) \cap DOMAIN pte)
      PROVE  A!AUnmap(Changed)
  <2> DEFINE S == {p \in MmapPages : p \in SmallPages(areas, s, e)}
             free == [mapped |-> FALSE, prot |-> {}, huge |-> FALSE]
  <2>1. ASSUME NEW p \in S
        PROVE  PageMap[p].mapped /\ ~ PageMap[p].huge /\ PageMap'[p] = free
    <3> DEFINE y == p * PageSize
    <3>1. p \in MmapPages /\ y \in Int /\ s <= y /\ y < e /\ In(areas, y, "normal")
      BY MmapPage DEF SmallPages
    <3>9. ~ In(areas, y, "huge")
      <4> HIDE DEF y
      <4> QED BY <1>0, <3>1, NotBoth
    <3> HIDE DEF y
    <3>2. PICK pr : Has(areas, y, pr, "normal")
      BY <3>1 DEF In, Has
    <3>3. ASSUME NEW q, NEW t PROVE ~ Has(areas', y, q, t)
      <4>1. SUFFICES ASSUME Has(areas', y, q, t) PROVE FALSE
        OBVIOUS
      <4>2. Has(areas, y, q, t) /\ t # "normal"
        BY <1>2, <3>1, <4>1 DEF Freed
      <4>3. t = "normal"
        BY <1>0, <3>1, <3>2, <4>2, OneKind
      <4> QED BY <4>2, <4>3
    <3>4. MapIn(areas)[p].mapped /\ ~ MapIn(areas)[p].huge
      <4>1. MapIn(areas)[p].mapped /\ (MapIn(areas)[p].huge <=> "normal" = "huge")
        BY <1>0, <3>1, <3>2, MapFields DEF y
      <4> QED BY <4>1
    <3>5. MapIn(areas')[p] = free
      BY <3>1, <3>3, MapFree DEF y
    <3> QED BY <3>4, <3>5, Shown
  <2>2. ASSUME NEW p \in MmapPages, p \notin S PROVE PageMap'[p] = PageMap[p]
    <3> DEFINE y == p * PageSize
    <3>1. y \in Int /\ ~ (In(areas, y, "normal") /\ s <= y /\ y < e)
      BY <2>2, MmapPage DEF SmallPages
    <3> HIDE DEF y, S
    <3>2. ASSUME NEW q, NEW t PROVE Has(areas', y, q, t) <=> Has(areas, y, q, t)
      BY <1>2, <3>1 DEF Freed, Has, In
    <3>3. MapIn(areas')[p] = MapIn(areas)[p]
      BY <1>0, <3>2, SameMap DEF y
    <3> QED BY <3>3, Shown
  <2>3. S \subseteq MmapPages
    OBVIOUS
  <2>4. ASSUME NEW p \in MmapPages
        PROVE  PageStore'[p] = IF p \in S THEN Junk ELSE PageStore[p]
    <3>1. PageStore[p] = Content(mem, p)
      BY <1>0, StoreIs, Shown
    <3>2. PageStore'[p] = Content(mem', p)
      BY <1>0, StoreIs, Shown
    <3>3. p \in S /\ p \in DOMAIN mem => p \in DOMAIN pte
      BY <1>0, MemIn DEF SmallPages
    <3>4. S = {q \in MmapPages : q \in SmallPages(areas, s, e)}
      OBVIOUS
    <3> HIDE DEF S
    <3>5. /\ DOMAIN mem' = DOMAIN mem \ (SmallPages(areas, s, e) \cap DOMAIN pte)
          /\ \A q \in DOMAIN mem' : mem'[q] = mem[q]
      BY <1>2 DEF Without
    <3> QED BY <3>1, <3>2, <3>3, <3>4, <3>5 DEF Content
  <2> HIDE DEF S
  <2>5. Changed = S
    <3>1. \A p \in S : PageMap'[p] # PageMap[p]
      BY <2>1
    <3> QED BY <2>2, <2>3, <3>1 DEF Changed
  <2>6. PageMap' = [p \in MmapPages |-> IF p \in S THEN free ELSE PageMap[p]]
    BY <2>1, <2>2, <2>3, MapFunctions
  <2>7. PageStore' = [p \in MmapPages |-> IF p \in S THEN Junk ELSE PageStore[p]]
    BY <2>3, <2>4, MapFunctions
  <2>8. \A p \in S : PageMap[p].mapped /\ ~ PageMap[p].huge
    BY <2>1
  <2> QED BY <2>5, <2>6, <2>7, <2>8 DEF A!AUnmap, A!Mapped, A!InHuge, A!Free
<1> QED
  BY <1>1, <1>2 DEF UnmapMoves

\* The pages of a set of whole ranges.
LEMMA WholeIs ==
  ASSUME NEW S, S \subseteq MmapPages, NEW hs,
         \A p \in MmapPages : p \in S <=> RangeOf(p * PageSize) \in hs
  PROVE  A!Whole(S)
<1>1. ASSUME NEW p \in S, NEW q \in MmapPages,
             q \div (HugeSize \div PageSize) = p \div (HugeSize \div PageSize)
      PROVE  q \in S
  <2>1. p \in Nat /\ q \in Nat
    BY MmapPage
  <2>2. RangeOf(q * PageSize) = RangeOf(p * PageSize)
    BY <1>1, <2>1, SameRange
  <2> QED BY <2>2
<1> QED
  BY <1>1 DEF A!Whole, A!RangeOfPage

\* Contents do not change when pages that had none get memory.
LEMMA ContentSame ==
  ASSUME NEW m, NEW m2, NEW ps, DOMAIN m2 = DOMAIN m \cup ps,
         \A p \in DOMAIN m2 : m2[p] = IF p \in DOMAIN m THEN m[p] ELSE Junk
  PROVE  \A p : Content(m2, p) = Content(m, p)
BY DEF Content

LEMMA MakeRef ==
  ASSUME MemInv, MemInv', MakeMoves
  PROVE  (\E prot \in Prots : A!AMakeHuge(Changed, prot)) \/ UNCHANGED <<PageMap, PageStore>>
<1>0. ListOK(areas) /\ ListOK(areas')
  BY DEF MemInv
<1>1. CASE UNCHANGED <<areas, kernel, tables>>
  <2>1. PageMap' = PageMap
    BY <1>0, <1>1, MapSame
  <2>2. PageStore' = PageStore
    BY <1>1, StoreSame DEF tables
  <2> QED BY <2>1, <2>2
<1>2. ASSUME NEW x \in Nat, NEW l \in Int, NEW prot \in Prots,
             Made(areas, areas', x, l, prot), copy_php(x, l, prot)
      PROVE  A!AMakeHuge(Changed, prot)
  <2> DEFINE S == {p \in MmapPages : x <= p * PageSize /\ p * PageSize < l}
             huge == [mapped |-> TRUE, prot |-> prot, huge |-> TRUE]
  <2>1. ASSUME NEW p \in S
        PROVE  PageMap[p].mapped /\ ~ PageMap[p].huge /\ PageMap'[p] = huge
    <3> DEFINE y == p * PageSize
    <3>1. p \in MmapPages /\ y \in Int /\ x <= y /\ y < l
      BY MmapPage
    <3> HIDE DEF y
    <3>2. PICK pr : Has(areas, y, pr, "normal")
      BY <1>2, <3>1 DEF In, Has, Made
    <3>3. Has(areas', y, prot, "huge")
      BY <1>2, <3>1 DEF Made
    <3>4. MapIn(areas)[p].mapped /\ ~ MapIn(areas)[p].huge
      <4>1. MapIn(areas)[p].mapped /\ (MapIn(areas)[p].huge <=> "normal" = "huge")
        BY <1>0, <3>1, <3>2, MapFields DEF y
      <4> QED BY <4>1
    <3>5. MapIn(areas')[p] = [mapped |-> TRUE, prot |-> prot, huge |-> "huge" = "huge"]
      BY <1>0, <3>1, <3>3, MapIs DEF y
    <3> QED BY <3>4, <3>5, Shown
  <2>2. ASSUME NEW p \in MmapPages, p \notin S PROVE PageMap'[p] = PageMap[p]
    <3> DEFINE y == p * PageSize
    <3>1. y \in Int /\ ~ (x <= y /\ y < l)
      BY <2>2, MmapPage
    <3> HIDE DEF y, S
    <3>2. \A pr, t : Has(areas', y, pr, t) <=> Has(areas, y, pr, t)
      BY <1>2, <3>1 DEF Made
    <3>3. MapIn(areas')[p] = MapIn(areas)[p]
      BY <1>0, <3>2, SameMap DEF y
    <3> QED BY <3>3, Shown
  <2>3. S \subseteq MmapPages
    OBVIOUS
  <2>4. ASSUME NEW p \in MmapPages PROVE p \in S <=> RangeOf(p * PageSize) \in Ranges(x, l)
    <3> DEFINE y == p * PageSize
    <3>1. y \in Nat
      BY MmapPage
    <3>2. x % HugeSize = 0 /\ l % HugeSize = 0
      BY <1>2 DEF Made
    <3>3. p \in S <=> x <= y /\ y < l
      OBVIOUS
    <3> HIDE DEF y, S
    <3>4. RangeOf(y) \in Ranges(x, l) <=> x <= y /\ y < l
      BY <3>1, <3>2, RangeBetween
    <3> QED BY <3>3, <3>4 DEF y
  <2>5. PageStore' = PageStore
    <3>1. CASE UNCHANGED tables
      BY <3>1, StoreSame DEF tables
    <3>2. ASSUME NEW ps, mem' = [p \in DOMAIN mem \cup ps |-> IF p \in DOMAIN mem THEN mem[p] ELSE Junk]
          PROVE  PageStore' = PageStore
      <4>1. /\ DOMAIN mem' = DOMAIN mem \cup ps
            /\ \A p \in DOMAIN mem' : mem'[p] = IF p \in DOMAIN mem THEN mem[p] ELSE Junk
        BY <3>2
      <4>2. \A p : Content(mem', p) = Content(mem, p)
        BY <4>1, ContentSame
      <4> QED BY <4>2, StoreSame
    <3> QED BY <1>2, <3>1, <3>2 DEF copy_php
  <2> HIDE DEF S
  <2>6. A!Whole(S)
    BY <2>3, <2>4, WholeIs
  <2>7. \A p \in S : PageMap[p].mapped /\ ~ PageMap[p].huge
    BY <2>1
  <2>8. Changed = S
    <3>1. \A p \in S : PageMap'[p] # PageMap[p]
      BY <2>1
    <3> QED BY <2>2, <2>3, <3>1 DEF Changed
  <2>9. PageMap' = [p \in MmapPages |-> IF p \in S THEN huge ELSE PageMap[p]]
    BY <2>1, <2>2, <2>3, MapFunctions
  <2> QED BY <2>5, <2>6, <2>7, <2>8, <2>9 DEF A!AMakeHuge, A!Mapped, A!InHuge, A!As
<1> QED
  BY <1>1, <1>2 DEF MakeMoves

LEMMA MadeSmall ==
  ASSUME NEW pr
  PROVE  [[mapped |-> TRUE, prot |-> pr, huge |-> TRUE] EXCEPT !.huge = FALSE]
           = [mapped |-> TRUE, prot |-> pr, huge |-> FALSE]
<1> DEFINE r == [mapped |-> TRUE, prot |-> pr, huge |-> TRUE]
           m == [r EXCEPT !.huge = FALSE]
           R == [mapped : BOOLEAN, prot : {pr}, huge : BOOLEAN]
<1>1. r \in R
  OBVIOUS
<1>2. r.mapped = TRUE /\ r.prot = pr
  OBVIOUS
<1> HIDE DEF r
<1>3. m \in R
  BY <1>1
<1>4. m.mapped = r.mapped /\ m.prot = r.prot
  BY <1>1
<1>5. m.huge = FALSE
  BY <1>1
<1> HIDE DEF m
<1>6. m = [mapped |-> m.mapped, prot |-> m.prot, huge |-> m.huge]
  BY <1>3
<1>7. m = [mapped |-> TRUE, prot |-> pr, huge |-> FALSE]
  BY <1>2, <1>4, <1>5, <1>6
<1> QED
  BY <1>7 DEF m, r

LEMMA BreakRef ==
  ASSUME MemInv, MemInv', BreakMoves
  PROVE  A!ABreakHuge(Changed) \/ UNCHANGED <<PageMap, PageStore>>
<1>0. ListOK(areas) /\ ListOK(areas')
  BY DEF MemInv
<1>1. CASE UNCHANGED <<areas, kernel, tables>>
  <2>1. PageMap' = PageMap
    BY <1>0, <1>1, MapSame
  <2>2. PageStore' = PageStore
    BY <1>1, StoreSame DEF tables
  <2> QED BY <2>1, <2>2
<1>2. ASSUME NEW C \in SUBSET Int, NEW hs \in SUBSET DOMAIN pmd,
             RangesOf(hs, C), Split(areas, areas', C), SplitTables(hs)
      PROVE  A!ABreakHuge(Changed)
  <2> DEFINE S == {p \in MmapPages : p * PageSize \in C}
  <2>1. ASSUME NEW p \in S
        PROVE  /\ PageMap[p].mapped /\ PageMap[p].huge /\ ~ PageMap'[p].huge
               /\ PageMap'[p] = [PageMap[p] EXCEPT !.huge = FALSE]
    <3> DEFINE y == p * PageSize
    <3>1. p \in MmapPages /\ y \in Int /\ y \in C
      BY MmapPage
    <3> HIDE DEF y
    <3>2. PICK pr : Has(areas, y, pr, "huge")
      BY <1>2, <3>1 DEF In, Has, Split
    <3>3. Has(areas', y, pr, "normal")
      BY <1>2, <3>1, <3>2 DEF Split
    <3>4. MapIn(areas)[p].mapped /\ MapIn(areas)[p].huge
      <4>1. MapIn(areas)[p].mapped /\ (MapIn(areas)[p].huge <=> "huge" = "huge")
        BY <1>0, <3>1, <3>2, MapFields DEF y
      <4> QED BY <4>1
    <3>5. ~ MapIn(areas')[p].huge
      <4>1. MapIn(areas')[p].mapped /\ (MapIn(areas')[p].huge <=> "normal" = "huge")
        BY <1>0, <3>1, <3>3, MapFields DEF y
      <4> QED BY <4>1
    <3>6. MapIn(areas)[p] = [mapped |-> TRUE, prot |-> pr, huge |-> "huge" = "huge"]
      BY <1>0, <3>1, <3>2, MapIs DEF y
    <3>7. MapIn(areas')[p] = [mapped |-> TRUE, prot |-> pr, huge |-> "normal" = "huge"]
      BY <1>0, <3>1, <3>3, MapIs DEF y
    <3>8. MapIn(areas')[p] = [MapIn(areas)[p] EXCEPT !.huge = FALSE]
      <4>1. ("huge" = "huge") = TRUE /\ ("normal" = "huge") = FALSE
        OBVIOUS
      <4>2. MapIn(areas)[p] = [mapped |-> TRUE, prot |-> pr, huge |-> TRUE]
        BY <3>6, <4>1
      <4>3. MapIn(areas')[p] = [mapped |-> TRUE, prot |-> pr, huge |-> FALSE]
        BY <3>7, <4>1
      <4> QED BY <4>2, <4>3, MadeSmall
    <3> QED BY <3>4, <3>5, <3>8, Shown
  <2>2. ASSUME NEW p \in MmapPages, p \notin S PROVE PageMap'[p] = PageMap[p]
    <3> DEFINE y == p * PageSize
    <3>1. y \in Int /\ y \notin C
      BY <2>2, MmapPage
    <3> HIDE DEF y, S
    <3>2. \A pr, t : Has(areas', y, pr, t) <=> Has(areas, y, pr, t)
      BY <1>2, <3>1 DEF Split
    <3>3. MapIn(areas')[p] = MapIn(areas)[p]
      BY <1>0, <3>2, SameMap DEF y
    <3> QED BY <3>3, Shown
  <2>3. S \subseteq MmapPages
    OBVIOUS
  <2>4. ASSUME NEW p \in MmapPages PROVE p \in S <=> RangeOf(p * PageSize) \in hs
    <3> DEFINE y == p * PageSize
    <3>1. y \in Nat
      BY MmapPage
    <3>2. p \in S <=> y \in C
      OBVIOUS
    <3> HIDE DEF y, S
    <3>3. RangeOf(y) \in hs <=> y \in C
      BY <1>2, <3>1 DEF RangesOf
    <3> QED BY <3>2, <3>3 DEF y
  <2>5. PageStore' = PageStore
    <3>1. CASE UNCHANGED tables
      BY <3>1, StoreSame DEF tables
    <3>2. ASSUME NEW ps, mem' = [p \in DOMAIN mem \cup ps |-> IF p \in DOMAIN mem THEN mem[p] ELSE Junk]
          PROVE  PageStore' = PageStore
      <4>1. /\ DOMAIN mem' = DOMAIN mem \cup ps
            /\ \A p \in DOMAIN mem' : mem'[p] = IF p \in DOMAIN mem THEN mem[p] ELSE Junk
        BY <3>2
      <4>2. \A p : Content(mem', p) = Content(mem, p)
        BY <4>1, ContentSame
      <4> QED BY <4>2, StoreSame
    <3> QED BY <1>2, <3>1, <3>2 DEF SplitTables
  <2> HIDE DEF S
  <2>6. A!Whole(S)
    BY <2>3, <2>4, WholeIs
  <2>7. \A p \in S : PageMap[p].mapped /\ PageMap[p].huge
    BY <2>1
  <2>8. Changed = S
    <3>1. \A p \in S : PageMap'[p] # PageMap[p]
      BY <2>1
    <3> QED BY <2>2, <2>3, <3>1 DEF Changed
  <2>9. PageMap' = [p \in MmapPages |-> IF p \in S THEN [PageMap[p] EXCEPT !.huge = FALSE]
                                         ELSE PageMap[p]]
    BY <2>1, <2>2, <2>3, MapFunctions
  <2> QED BY <2>5, <2>6, <2>7, <2>8, <2>9 DEF A!ABreakHuge, A!InHuge
<1> QED
  BY <1>1, <1>2 DEF BreakMoves

LEMMA AccessRef ==
  ASSUME MemInv, MemInv', AccessMoves
  PROVE  \/ \E p \in MmapPages, v \in Values : A!AStore(p, v)
         \/ UNCHANGED <<PageMap, PageStore>>
<1>0. ListOK(areas) /\ ListOK(areas') /\ TablesOK(areas, pmd, pte, mem) /\ areas' = areas
  BY DEF MemInv, AccessMoves
<1>1. PageMap' = PageMap
  BY <1>0, MapSame
<1>2. CASE UNCHANGED tables
  <2>1. PageStore' = PageStore
    BY <1>2, StoreSame DEF tables
  <2> QED BY <1>1, <2>1
<1>3. ASSUME NEW p \in Nat, NEW v \in Values, mem' = [mem EXCEPT ![p] = v]
      PROVE  \/ p \in MmapPages /\ A!AStore(p, v)
             \/ UNCHANGED <<PageMap, PageStore>>
  <2>1. CASE p \in MmapPages /\ p \in DOMAIN mem
    <3>1. PageMap[p].mapped
      <4>1. PICK t \in {"normal", "huge"} : In(areas, p * PageSize, t)
        BY <1>0, <2>1, MemIn
      <4>2. PICK pr : Has(areas, p * PageSize, pr, t)
        BY <4>1 DEF In, Has
      <4>3. MapIn(areas)[p].mapped
        BY <1>0, <2>1, <4>2, MapFields
      <4> QED BY <4>3, Shown
    <3>2. ASSUME NEW q \in MmapPages
          PROVE  PageStore'[q] = IF q = p THEN v ELSE PageStore[q]
      <4>1. PageStore[q] = Content(mem, q)
        BY <1>0, StoreIs, Shown
      <4>2. PageStore'[q] = Content(mem', q)
        <5>1. TablesOK(areas', pmd', pte', mem')
          BY DEF MemInv
        <5> QED BY <1>0, <5>1, StoreIs, Shown
      <4>3. DOMAIN mem' = DOMAIN mem /\ \A x \in DOMAIN mem' : mem'[x] = IF x = p THEN v ELSE mem[x]
        BY <1>3
      <4> QED BY <2>1, <4>1, <4>2, <4>3 DEF Content
    <3>3. PageStore' = [PageStore EXCEPT ![p] = v]
      BY <2>1, <3>2, MapFunctions
    <3> QED BY <1>1, <2>1, <3>1, <3>3 DEF A!AStore, A!Mapped
  <2>2. CASE ~ (p \in MmapPages /\ p \in DOMAIN mem)
    <3>1. DOMAIN mem' = DOMAIN mem /\ \A x \in DOMAIN mem' : x # p => mem'[x] = mem[x]
      BY <1>3
    <3>2. \A q \in MmapPages : Content(mem', q) = Content(mem, q)
      BY <2>2, <3>1 DEF Content
    <3>3. PageStore' = PageStore
      BY <3>2, StoreSame
    <3> QED BY <1>1, <3>3
  <2> QED BY <2>1, <2>2
<1>4. ASSUME NEW y \in Nat, NEW w \in BOOLEAN, In(areas, y, "normal"), make_entry(y, w, "normal")
      PROVE  UNCHANGED <<PageMap, PageStore>>
  <2> DEFINE p == PageOf(y)
  <2>1. mem' = IF p \notin DOMAIN pte THEN Put(mem, {p}, Junk) ELSE mem
    BY <1>4 DEF make_entry
  <2>2. In(areas, p * PageSize, "normal")
    BY <1>0, <1>4, InPage
  <2> HIDE DEF p
  <2>3. p \in DOMAIN mem => p \in DOMAIN pte
    BY <1>0, <2>2, MemIn
  <2>4. \A q : Content(mem', q) = Content(mem, q)
    <3>1. CASE p \in DOMAIN pte
      BY <2>1, <3>1
    <3>2. CASE p \notin DOMAIN pte
      <4>1. /\ DOMAIN mem' = DOMAIN mem \cup {p}
            /\ \A q \in DOMAIN mem' : mem'[q] = IF q \in DOMAIN mem THEN mem[q] ELSE Junk
        BY <2>1, <2>3, <3>2 DEF Put
      <4> QED BY <4>1, ContentSame
    <3> QED BY <3>1, <3>2
  <2>5. PageStore' = PageStore
    BY <2>4, StoreSame
  <2> QED BY <1>1, <2>5
<1> QED
  BY <1>2, <1>3, <1>4 DEF AccessMoves

LEMMA ImplementsInit == Init => A!AInit
<1> SUFFICES ASSUME Init PROVE A!AInit
  OBVIOUS
<1>1. MemInv
  BY InitInv
<1>2. areas = << >> /\ mem = << >>
  BY DEF Init
<1>3. ASSUME NEW p \in MmapPages
      PROVE  PageMap[p] = [mapped |-> FALSE, prot |-> {}, huge |-> FALSE] /\ PageStore[p] = Junk
  <2>1. \A pr, t : ~ Has(areas, p * PageSize, pr, t)
    BY <1>2 DEF Has, Elems
  <2>2. Content(mem, p) = Junk
    BY <1>2 DEF Content
  <2>3. MapIn(areas)[p] = [mapped |-> FALSE, prot |-> {}, huge |-> FALSE]
    BY <2>1, MapFree
  <2>4. StoreIn(areas, mem)[p] = Content(mem, p)
    BY <1>1, StoreIs DEF MemInv
  <2> QED BY <2>2, <2>3, <2>4, Shown
<1>4. PageMap = [p \in MmapPages |-> [mapped |-> FALSE, prot |-> {}, huge |-> FALSE]]
  BY <1>3, MapFunctions
<1>5. PageStore = [p \in MmapPages |-> Junk]
  BY <1>3, MapFunctions
<1> QED
  BY <1>4, <1>5 DEF A!AInit, A!Free

LEMMA ImplementsStep ==
  ASSUME MemInv, MemInv', FreeNext
  PROVE  A!ANext \/ UNCHANGED <<PageMap, PageStore>>
<1>0. ListOK(areas) /\ TablesOK(areas, pmd, pte, mem)
  BY DEF MemInv
<1>1. Changed \in {{p \in MmapPages : PageMap'[p] # PageMap[p]}}
  BY DEF Changed
<1>2. CASE FreeMmap
  <2>1. (\E prot \in Prots : A!AMap(Changed, prot)) \/ UNCHANGED <<PageMap, PageStore>>
    BY <1>0, <1>2, MapStep, MapRef
  <2> QED BY <1>1, <2>1 DEF A!ANext
<1>3. CASE FreeMunmap
  <2>1. A!AUnmap(Changed) \/ UNCHANGED <<PageMap, PageStore>>
    BY <1>0, <1>3, UnmapStep, UnmapRef
  <2> QED BY <1>1, <2>1 DEF A!ANext
<1>4. CASE FreeHuge
  <2>1. CASE MakeMoves
    <3>1. (\E prot \in Prots : A!AMakeHuge(Changed, prot)) \/ UNCHANGED <<PageMap, PageStore>>
      BY <2>1, MakeRef
    <3> QED BY <1>1, <3>1 DEF A!ANext
  <2>2. CASE BreakMoves
    <3>1. A!ABreakHuge(Changed) \/ UNCHANGED <<PageMap, PageStore>>
      BY <2>2, BreakRef
    <3> QED BY <1>1, <3>1 DEF A!ANext
  <2> QED BY <1>0, <1>4, <2>1, <2>2, HugeStep
<1>5. CASE FreeAccess
  <2>1. \/ \E p \in MmapPages, v \in Values : A!AStore(p, v)
        \/ UNCHANGED <<PageMap, PageStore>>
    BY <1>0, <1>5, AccessStep, AccessRef
  <2> QED BY <2>1 DEF A!ANext
<1> QED
  BY <1>2, <1>3, <1>4, <1>5 DEF FreeNext

\* The free program gets what AddressSpace promises, whatever the sizes, the requests and
\* their number, and at whatever set of pages one looks, all of them included: a call maps free pages, unmaps the pages asked for, or converts whole
\* ranges with their contents, a store changes one mapped page, and a fault nothing.
THEOREM AddressSpaceImplemented == Spec /\ ~IsTest => ImplementsAddressSpace
<1>1. ~IsTest /\ [Next]_<<vars, pvars>> => (~IsTest)'
  <2> SUFFICES ASSUME ~IsTest, [Next]_<<vars, pvars>> PROVE (~IsTest)'
    OBVIOUS
  <2>1. UNCHANGED prog
    BY KeepsProg DEF pvars
  <2> QED BY <2>1 DEF IsTest
<1>2. ~IsTest /\ IInv /\ IInv' /\ (~IsTest)' /\ [Next]_<<vars, pvars>> => [A!ANext]_(A!avars)
  <2> SUFFICES ASSUME ~IsTest, IInv, IInv', (~IsTest)', [Next]_<<vars, pvars>>
               PROVE  [A!ANext]_(A!avars)
    OBVIOUS
  <2>1. MemInv /\ MemInv'
    BY DEF IInv
  <2>2. CASE Next
    <3>1. A!ANext \/ UNCHANGED <<PageMap, PageStore>>
      BY <2>1, <2>2, NextIsFree, ImplementsStep
    <3> QED BY <3>1 DEF A!avars
  <2>3. CASE UNCHANGED <<vars, pvars>>
    <3>1. UNCHANGED <<PageMap, PageStore>>
      BY <2>3 DEF vars, tables, PageMap, PageStore, HeldBy
    <3> QED BY <3>1 DEF A!avars
  <2> QED BY <2>2, <2>3
<1>3. PInit => A!AInit
  BY ImplementsInit DEF PInit
<1> QED
  BY <1>1, <1>2, <1>3, IInvAlways, PTL DEF Spec, ImplementsAddressSpace, A!ASpec

=============================================================================
