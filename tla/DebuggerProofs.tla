--------------------------- MODULE DebuggerProofs ---------------------------
(***************************************************************************)
(* Theorems about Scheduler and Debugger, for any number of slots,         *)
(* addresses and breakpoints: the round-robin choice, the breakpoint list, *)
(* and the hand-over of the CPU between the debugger and its debuggees.    *)
(***************************************************************************)
EXTENDS Debugger, DataFacts
-----------------------------------------------------------------------------
(* The scheduler.                                                          *)

\* pick_next_context returns the swapper, or a READY user process that no
\* other READY one precedes in the cyclic order.
LEMMA PickNextLemma ==
  ASSUME NEW ps, NEW s \in Slots
  PROVE  /\ PickNext(ps, s) \in Slots
         /\ PickNext(ps, s) # 0 => /\ PickNext(ps, s) \in Users
                                   /\ ps[PickNext(ps, s)] = "READY"
         /\ \A u \in Users : ps[u] = "READY" =>
              /\ PickNext(ps, s) # 0
              /\ Distance(s, PickNext(ps, s)) <= Distance(s, u)
<1> DEFINE ready == {t \in Users : ps[t] = "READY"}
<1> USE SchedAssumption
<1>1. CASE ready = {}
  BY <1>1 DEF PickNext, Slots, Users
<1>2. CASE ready # {}
  <2>1. \A t \in Users : Distance(s, t) \in Nat
    BY DEF Distance, Users, Slots
  <2>2. \E t \in ready : \A u \in ready : Distance(s, t) <= Distance(s, u)
    <3> DEFINE D == {Distance(s, t) : t \in ready}
    <3>1. \E d \in D : \A e \in D : d <= e
      <4>1. PICK t0 \in ready : TRUE
        BY <1>2
      <4>2. D \subseteq Nat /\ D # {}
        BY <2>1, <4>1
      <4> QED
        BY <4>2, NatLeast
    <3> QED
      BY <3>1
  <2> QED
    BY <1>2, <2>2 DEF PickNext, Slots, Users
<1> QED
  BY <1>1, <1>2
-----------------------------------------------------------------------------
\* Types hold, at most one process is RUNNING, and the loaded one can run.
SchedInv == SchedTypeOK /\ OneRunning

\* Loading the process that pick_next_context returns, from a table in which
\* nobody is RUNNING any more, establishes the invariant.
LEMMA SwitchLemma ==
  ASSUME NEW ps \in [Slots -> States], current \in Slots,
         \A s \in Slots : ps[s] # "RUNNING",
         Switch(ps, PickNext(ps, current))
  PROVE  /\ pstate' \in [Slots -> States]
         /\ current' \in Slots
         /\ OneRunning'
<1>1. PickNext(ps, current) \in Slots
  BY PickNextLemma
<1> QED
  BY <1>1 DEF Switch, OneRunning, States, Runnable

LEMMA SchedInvStep ==
  ASSUME SchedInv, [SchedNext]_svars
  PROVE  SchedInv'
<1> USE SchedAssumption
<1>1. CASE Tick
  <2> DEFINE ps == [s \in Slots |-> IF s = current \/ s \in Woken THEN "READY"
                                                                ELSE pstate[s]]
             next == PickNext(ps, current)
  <2>1. ps \in [Slots -> States] /\ \A s \in Slots : ps[s] # "RUNNING"
    BY DEF SchedInv, SchedTypeOK, OneRunning, States
  <2>2. ticks' \in [Slots -> 0 .. MaxSleep]
    BY <1>1 DEF Tick, SchedInv, SchedTypeOK
  <2>3. CASE next = current
    BY <1>1, <2>1, <2>2, <2>3 DEF Tick, SchedInv, SchedTypeOK, OneRunning, Runnable
  <2>4. CASE next # current
    <3>1. Switch(ps, next)
      BY <1>1, <2>4 DEF Tick
    <3> QED
      BY <2>1, <2>2, <3>1, SwitchLemma DEF SchedInv, SchedTypeOK
  <2> QED
    BY <2>3, <2>4
<1>2. ASSUME NEW n \in 1 .. MaxSleep, Sleep(n) PROVE SchedInv'
  <2> DEFINE ps == [pstate EXCEPT ![current] = "WAITING"]
  <2>1. ps \in [Slots -> States] /\ \A s \in Slots : ps[s] # "RUNNING"
    BY DEF SchedInv, SchedTypeOK, OneRunning, States
  <2>2. ticks' \in [Slots -> 0 .. MaxSleep]
    BY <1>2 DEF Sleep, SchedInv, SchedTypeOK
  <2>3. Switch(ps, PickNext(ps, current))
    BY <1>2 DEF Sleep
  <2> QED
    BY <2>1, <2>2, <2>3, SwitchLemma DEF SchedInv, SchedTypeOK
<1>3. ASSUME NEW c \in Slots, Fork(c) PROVE SchedInv'
  BY <1>3 DEF Fork, IsNewSlot, SchedInv, SchedTypeOK, OneRunning, States, Runnable
<1>4. CASE Exit
  <2> DEFINE ps == [pstate EXCEPT ![current] = "UNUSED"]
  <2>1. ps \in [Slots -> States] /\ \A s \in Slots : ps[s] # "RUNNING"
    BY DEF SchedInv, SchedTypeOK, OneRunning, States
  <2>2. Switch(ps, PickNext(ps, current)) /\ UNCHANGED ticks
    BY <1>4 DEF Exit
  <2> QED
    BY <2>1, <2>2, SwitchLemma DEF SchedInv, SchedTypeOK
<1>5. CASE UNCHANGED svars
  BY <1>5 DEF svars, SchedInv, SchedTypeOK, OneRunning
<1> QED
  BY <1>1, <1>2, <1>3, <1>4, <1>5 DEF SchedNext

\* At most one process is RUNNING, and the loaded context is never one that
\* waits or has exited, however processes fork, sleep, exit and are preempted.
THEOREM OneRunningAlways == SchedSpec => [](SchedTypeOK /\ OneRunning)
<1>1. SchedInit => SchedInv
  BY SchedAssumption DEF SchedInit, SchedInv, SchedTypeOK, OneRunning, Slots,
                         States, Runnable
<1>2. SchedInv /\ [SchedNext]_svars => SchedInv'
  BY SchedInvStep
<1> QED
  BY <1>1, <1>2, PTL DEF SchedSpec, SchedInv

\* Every process has one of the kernel's states and a timer that is a number of ticks,
\* and `current` is a slot of the table, whatever schedule_context picks.
THEOREM SchedTypesAlways == SchedSpec => []SchedTypeOK
BY OneRunningAlways, PTL
-----------------------------------------------------------------------------
\* Nobody between the current process and the one picked next is READY, so
\* what is READY has come closer.
LEMMA CloserLemma ==
  ASSUME NEW ps, NEW s \in Slots, NEW p \in Users, ps[p] = "READY",
         PickNext(ps, s) # p
  PROVE  Distance(PickNext(ps, s), p) < Distance(s, p)
<1> DEFINE next == PickNext(ps, s)
<1>1. next \in Users /\ Distance(s, next) <= Distance(s, p)
  BY PickNextLemma
<1> HIDE DEF next
<1>2. Distance(next, p) < Distance(s, p)
  BY <1>1, SchedAssumption DEF Distance, Users, Slots, next
<1> QED
  BY <1>2 DEF next

\* A READY process waits for at most one turn of every other: each change of
\* the current process brings the round-robin scan closer to it.
THEOREM TurnsApproachAlways == SchedSpec => TurnsApproach
<1> DEFINE Closer == \A p \in Users :
             pstate[p] = "READY" /\ pstate'[p] = "READY" /\ current' # current
               => Distance(current', p) < Distance(current, p)
<1>1. SchedInv /\ [SchedNext]_svars => [Closer]_svars
  <2> SUFFICES ASSUME SchedInv, SchedNext, NEW p \in Users,
                      pstate[p] = "READY", pstate'[p] = "READY",
                      current' # current
               PROVE  Distance(current', p) < Distance(current, p)
    BY DEF svars
  <2>0. p \in Slots /\ current \in Slots /\ pstate \in [Slots -> States]
    BY DEF Users, Slots, SchedInv, SchedTypeOK
  <2>1. ASSUME NEW ps \in [Slots -> States], ps[p] = "READY",
               Switch(ps, PickNext(ps, current))
        PROVE  Distance(current', p) < Distance(current, p)
    <3>1. PickNext(ps, current) # p
      BY <2>0, <2>1 DEF Switch
    <3> QED
      BY <2>0, <2>1, <3>1, CloserLemma DEF Switch
  <2>2. CASE Tick
    <3> DEFINE ps == [s \in Slots |-> IF s = current \/ s \in Woken THEN "READY"
                                                                  ELSE pstate[s]]
    <3>1. ps \in [Slots -> States] /\ ps[p] = "READY"
      BY <2>0 DEF States
    <3>2. Switch(ps, PickNext(ps, current))
      BY <2>2 DEF Tick
    <3> QED
      BY <2>1, <3>1, <3>2
  <2>3. ASSUME NEW n \in 1 .. MaxSleep, Sleep(n)
        PROVE  Distance(current', p) < Distance(current, p)
    <3> DEFINE ps == [pstate EXCEPT ![current] = "WAITING"]
    <3>1. Switch(ps, PickNext(ps, current))
      BY <2>3 DEF Sleep
    <3>2. p # current
      BY <2>0, <3>1, PickNextLemma DEF Switch
    <3>3. ps \in [Slots -> States] /\ ps[p] = "READY"
      BY <2>0, <3>2 DEF States
    <3> QED
      BY <2>1, <3>1, <3>3
  <2>4. ASSUME NEW c \in Slots, Fork(c)
        PROVE  Distance(current', p) < Distance(current, p)
    BY <2>4 DEF Fork
  <2>5. CASE Exit
    <3> DEFINE ps == [pstate EXCEPT ![current] = "UNUSED"]
    <3>1. Switch(ps, PickNext(ps, current))
      BY <2>5 DEF Exit
    <3>2. p # current
      BY <2>0, <3>1, PickNextLemma DEF Switch
    <3>3. ps \in [Slots -> States] /\ ps[p] = "READY"
      BY <2>0, <3>2 DEF States
    <3> QED
      BY <2>1, <3>1, <3>3
  <2> QED
    BY <2>2, <2>3, <2>4, <2>5 DEF SchedNext
<1>2. SchedSpec => []SchedInv
  BY OneRunningAlways DEF SchedInv
<1> QED
  BY <1>1, <1>2, PTL DEF SchedSpec, TurnsApproach
-----------------------------------------------------------------------------
(* The loop of pick_next_context computes PickNext.                        *)

\* From any slot, the n-th slot the loop tries is the user slot at cyclic
\* distance n, so that it tries every user slot once and ends with its own.
LEMMA TriedLemma ==
  ASSUME NEW s \in Slots, NEW tried,
         \A n \in Users :
           tried[n] = IF n = 1 THEN IF s + 1 = MaxProcesses THEN 1 ELSE s + 1
                      ELSE IF tried[n - 1] = 0 THEN 0 ELSE Succ(s, tried[n - 1])
  PROVE  \A n \in Users : tried[n] \in Users /\ Distance(s, tried[n]) = n
<1> USE SchedAssumption
<1> DEFINE Right(n) == tried[n] \in Users /\ Distance(s, tried[n]) = n
           D == {n \in Users : ~ Right(n)}
<1>1. ASSUME NEW n \in D, \A e \in D : n <= e
      PROVE  FALSE
  <2>1. n \in Users /\ ~ Right(n)
    BY <1>1
  <2>2. CASE n = 1
    <3>1. tried[n] = IF s + 1 = MaxProcesses THEN 1 ELSE s + 1
      BY <2>1, <2>2
    <3> QED
      BY <2>1, <2>2, <3>1 DEF Slots, Users, Distance
  <2>3. CASE n # 1
    <3>1. n - 1 \in Users /\ ~ (n <= n - 1)
      BY <2>1, <2>3 DEF Users
    <3>2. Right(n - 1)
      <4> HIDE DEF Right
      <4> QED BY <1>1, <3>1
    <3>3. tried[n] = IF tried[n - 1] = 0 THEN 0 ELSE Succ(s, tried[n - 1])
      BY <2>1, <2>3
    <3> DEFINE t == tried[n - 1]
    <3>4. t \in Users /\ Distance(s, t) = n - 1 /\ tried[n] = IF t = 0 THEN 0 ELSE Succ(s, t)
      BY <3>2, <3>3
    <3>5. tried[n] = Succ(s, t)
      BY <3>4 DEF Users
    <3> HIDE DEF t
    <3>6. CASE s = 0
      <4>1. t = n - 1
        BY <3>4, <3>6 DEF Users, Distance
      <4>2. tried[n] = n
        BY <2>1, <2>3, <3>5, <3>6, <4>1 DEF Users, Succ
      <4> QED
        BY <2>1, <3>6, <4>2 DEF Users, Distance
    <3>7. CASE s # 0
      <4>1. t # s
        BY <2>1, <3>4, <3>7 DEF Slots, Users, Distance
      <4>2. tried[n] = IF t + 1 < MaxProcesses THEN t + 1 ELSE 1
        BY <3>5, <3>7, <4>1 DEF Succ
      <4>3. tried[n] \in Users
        BY <3>4, <4>2 DEF Users
      <4>4. Distance(s, tried[n]) = n
        <5>1. /\ n \in Int /\ s \in 1 .. MaxProcesses - 1
              /\ t \in 1 .. MaxProcesses - 1
              /\ (IF t > s THEN t - s ELSE t - s + MaxProcesses - 1) = n - 1
          BY <2>1, <3>4, <3>7 DEF Users, Slots, Distance
        <5>2. tried[n] \in 1 .. MaxProcesses - 1
          BY <4>3 DEF Users
        <5> DEFINE u == tried[n]
        <5>3. u = IF t + 1 < MaxProcesses THEN t + 1 ELSE 1
          BY <4>2
        <5> HIDE DEF u
        <5>4. Distance(s, u) = n
          BY <4>1, <5>1, <5>3 DEF Distance
        <5> QED BY <5>4 DEF u
      <4> QED
        BY <2>1, <4>3, <4>4
    <3> QED
      BY <3>6, <3>7
  <2> QED
    BY <2>2, <2>3
<1>2. D = {}
  <2>1. D \subseteq Nat
    BY DEF Users
  <2> HIDE DEF D
  <2> QED BY <1>1, <2>1, NatLeast
<1> QED
  BY <1>2

LEMMA LoopLemma ==
  ASSUME NEW ps, NEW s \in Slots
  PROVE  PickLoop(ps, s) = PickNext(ps, s)
<1> USE SchedAssumption
<1> DEFINE Body(f) == [n \in Users |->
                 IF n = 1 THEN IF s + 1 = MaxProcesses THEN 1 ELSE s + 1
                 ELSE IF f[n - 1] = 0 THEN 0 ELSE Succ(s, f[n - 1])]
           tried == CHOOSE f : f = Body(f)
           hits == {n \in Users : tried[n] # 0 /\ ps[tried[n]] = "READY"}
           ready == {t \in Users : ps[t] = "READY"}
<1>1. \E f : f = Body(f)
  <2> DEFINE next == [t \in Slots |-> IF t = 0 THEN 0 ELSE Succ(s, t)]
             step == [i \in 2 .. MaxProcesses - 1 |-> next]
             first == IF s + 1 = MaxProcesses THEN 1 ELSE s + 1
  <2>1. first \in Slots /\ next \in [Slots -> Slots]
    BY DEF Slots, Succ
  <2>2. /\ 1 \in Nat /\ MaxProcesses - 1 \in Nat /\ 1 <= MaxProcesses - 1
        /\ \A i \in 1 + 1 .. MaxProcesses - 1, t \in Slots : step[i][t] \in Slots
    BY <2>1
  <2> DEFINE g == Recursion(Slots, first, 1, MaxProcesses - 1, step)
  <2>4. /\ g \in [1 .. MaxProcesses - 1 -> Slots] /\ g[1] = first
        /\ \A i \in 1 + 1 .. MaxProcesses - 1 : g[i] = step[i][g[i - 1]]
    <3>1. Steps(Slots, 1, MaxProcesses - 1, step)
      BY <2>2 DEF Steps
    <3> HIDE DEF first, step
    <3>2. Follows(g, Slots, first, 1, MaxProcesses - 1, step)
      BY <2>1, <2>2, <3>1, RecursionExists, Zenon
    <3> QED BY <3>2 DEF Follows
  <2> HIDE DEF g
  <2>5. ASSUME NEW n \in Users
        PROVE  g[n] = IF n = 1 THEN first
                      ELSE IF g[n - 1] = 0 THEN 0 ELSE Succ(s, g[n - 1])
    <3>1. CASE n = 1
      BY <2>4, <3>1
    <3>2. CASE n # 1
      <4>1. n \in 1 + 1 .. MaxProcesses - 1 /\ n - 1 \in 1 .. MaxProcesses - 1
        BY <3>2 DEF Users
      <4>2. g[n] = next[g[n - 1]] /\ g[n - 1] \in Slots
        BY <2>4, <4>1
      <4> HIDE DEF first
      <4> QED BY <3>2, <4>2
    <3> QED BY <3>1, <3>2
  <2>6. g = Body(g)
    BY <2>4, <2>5 DEF Users
  <2> QED BY <2>6
<1>2. tried = Body(tried)
  <2> HIDE DEF Body
  <2> QED BY <1>1
<1>3. \A n \in Users : tried[n] \in Users /\ Distance(s, tried[n]) = n
  <2>1. \A n \in Users :
          tried[n] = IF n = 1 THEN IF s + 1 = MaxProcesses THEN 1 ELSE s + 1
                     ELSE IF tried[n - 1] = 0 THEN 0 ELSE Succ(s, tried[n - 1])
    <3> HIDE DEF tried
    <3> QED BY <1>2
  <2> HIDE DEF tried
  <2> QED BY <2>1, TriedLemma
<1>4. PickLoop(ps, s) = IF hits = {} THEN 0
                        ELSE tried[CHOOSE n \in hits : \A m \in hits : n <= m]
  BY DEF PickLoop
<1>5. PickNext(ps, s) = IF ready = {} THEN 0
                        ELSE CHOOSE t \in ready : \A u \in ready : Distance(s, t) <= Distance(s, u)
  BY DEF PickNext
<1> HIDE DEF tried
<1>6. \A t \in Users : Distance(s, t) \in Users
  BY DEF Distance, Users, Slots
<1>7. \A t, u \in Users : Distance(s, t) = Distance(s, u) => t = u
  BY DEF Distance, Users, Slots
<1>8. \A t \in Users : tried[Distance(s, t)] = t
  BY <1>3, <1>6, <1>7
<1>9. /\ \A n \in hits : tried[n] \in ready
      /\ \A t \in ready : Distance(s, t) \in hits
  BY <1>3, <1>6, <1>8 DEF Users
<1>10. CASE hits = {}
  BY <1>4, <1>5, <1>9, <1>10
<1>11. CASE hits # {}
  <2> HIDE DEF hits, ready
  <2>1. hits \subseteq Users /\ hits \subseteq Nat
    BY DEF hits, Users
  <2> DEFINE n0 == CHOOSE n \in hits : \A m \in hits : n <= m
  <2>2. n0 \in hits /\ \A m \in hits : n0 <= m
    BY <1>11, <2>1, NatLeast
  <2> HIDE DEF n0
  <2>3. /\ tried[n0] \in ready
        /\ \A u \in ready : Distance(s, tried[n0]) <= Distance(s, u)
    BY <1>3, <1>9, <2>1, <2>2
  <2>4. ASSUME NEW t \in ready, \A u \in ready : Distance(s, t) <= Distance(s, u)
        PROVE  t = tried[n0]
    <3>1. t \in Users /\ tried[n0] \in Users
      BY <2>3 DEF ready
    <3>2. Distance(s, t) \in Int /\ Distance(s, tried[n0]) \in Int
      BY <1>6, <3>1 DEF Users
    <3>3. /\ Distance(s, t) <= Distance(s, tried[n0])
          /\ Distance(s, tried[n0]) <= Distance(s, t)
      BY <2>3, <2>4
    <3>4. Distance(s, t) = Distance(s, tried[n0])
      BY <3>2, <3>3
    <3> QED BY <1>7, <3>1, <3>4
  <2>5. PickNext(ps, s) = tried[n0]
    BY <1>5, <2>3, <2>4
  <2> QED BY <1>4, <1>11, <2>5 DEF n0
<1> QED
  BY <1>10, <1>11

\* The wrap-around loop of pick_next_context returns the cyclically next READY
\* user process, and the swapper only if there is none, in every process table.
THEOREM LoopIsCyclicAlways == SchedSpec => []LoopIsCyclic
<1>1. LoopIsCyclic
  BY LoopLemma DEF LoopIsCyclic
<1> QED
  BY <1>1, PTL
-----------------------------------------------------------------------------
(* The breakpoint list.                                                    *)

\* Marking the entry at i changes nothing but that entry's status.
LEMMA MarkLemma ==
  ASSUME NEW s \in Seq(Breakpoint), NEW i \in DOMAIN s, NEW v \in {0, 1}
  PROVE  /\ Marked(s, i, v) \in Seq(Breakpoint)
         /\ Len(Marked(s, i, v)) = Len(s)
         /\ DOMAIN Marked(s, i, v) = DOMAIN s
         /\ \A k \in DOMAIN s :
              /\ Marked(s, i, v)[k].num = s[k].num
              /\ Marked(s, i, v)[k].addr = s[k].addr
              /\ Marked(s, i, v)[k].status = IF k = i THEN v ELSE s[k].status
<1> DEFINE b == [s[i] EXCEPT !.status = v]
           t == Marked(s, i, v)
<1>1. b \in Breakpoint /\ b.num = s[i].num /\ b.addr = s[i].addr /\ b.status = v
  <2>1. s[i] \in Breakpoint
    OBVIOUS
  <2> QED
    BY <2>1 DEF Breakpoint
<1>2. t = [s EXCEPT ![i] = b]
  BY DEF Marked
<1> HIDE DEF b, t
<1>3. /\ t \in Seq(Breakpoint) /\ Len(t) = Len(s) /\ DOMAIN t = DOMAIN s
      /\ \A k \in DOMAIN s : t[k] = IF k = i THEN b ELSE s[k]
  BY <1>1, <1>2
<1> QED
  BY <1>1, <1>3 DEF t

\* What the list's properties rest on: numbers given out are never above
\* bp_num, so that a new entry has the largest.
ListInv == /\ bps \in Seq(Breakpoint)
           /\ bp_num \in 0 .. MaxNum
           /\ code \in [Addrs -> {INT3_OPCODE, PUSHRBP_OPCODE}]
           /\ \A i \in DOMAIN bps : bps[i].num <= bp_num
           /\ ListInOrder
           /\ DisabledRuns

\* An address that is listed has an entry, which is the only one.
LEMMA EntryLemma ==
  ASSUME NEW a \in Addrs, Listed(a)
  PROVE  Entry(a) \in DOMAIN bps /\ bps[Entry(a)].addr = a
BY DEF Listed, Entry

LEMMA SetKeepsList ==
  ASSUME ListInv, NEW a \in Addrs, SetBreakpoint(a)
  PROVE  ListInv'
<1> USE DebugAssumption
<1>1. CASE Listed(a)
  <2>1. bps' = Marked(bps, Entry(a), 1) /\ UNCHANGED <<bp_num, code>>
    BY <1>1 DEF SetBreakpoint
  <2>2. Entry(a) \in DOMAIN bps
    BY <1>1, EntryLemma
  <2>3. /\ bps' \in Seq(Breakpoint) /\ Len(bps') = Len(bps) /\ DOMAIN bps' = DOMAIN bps
        /\ \A k \in DOMAIN bps : /\ bps'[k].num = bps[k].num
                                /\ bps'[k].addr = bps[k].addr
                                /\ bps'[k].status = IF k = Entry(a) THEN 1
                                                                  ELSE bps[k].status
    <3> DEFINE t == Marked(bps, Entry(a), 1)
    <3>1. bps \in Seq(Breakpoint)
      BY DEF ListInv
    <3>2. /\ t \in Seq(Breakpoint) /\ Len(t) = Len(bps) /\ DOMAIN t = DOMAIN bps
          /\ \A k \in DOMAIN bps :
               /\ t[k].num = bps[k].num
               /\ t[k].addr = bps[k].addr
               /\ t[k].status = IF k = Entry(a) THEN 1 ELSE bps[k].status
      BY <2>2, <3>1, MarkLemma
    <3>3. bps' = t
      BY <2>1
    <3> HIDE DEF t
    <3> QED
      BY <3>2, <3>3
  <2> QED
    BY <2>1, <2>3, SMTT(20) DEF ListInv, ListInOrder, DisabledRuns
<1>2. CASE ~Listed(a)
  <2> DEFINE new == [num |-> bp_num + 1, addr |-> a, status |-> 1]
  <2>1. /\ Len(bps) < MAX_BREAKPOINTS /\ bp_num < MaxNum
        /\ bp_num' = bp_num + 1
        /\ bps' = Append(bps, new)
        /\ code' = [code EXCEPT ![a] = INT3_OPCODE]
    BY <1>2 DEF SetBreakpoint
  <2>2. new \in Breakpoint
    BY <2>1 DEF Breakpoint, ListInv
  <2>3. /\ bps' \in Seq(Breakpoint) /\ Len(bps') = Len(bps) + 1
        /\ \A i \in 1 .. Len(bps) : bps'[i] = bps[i]
        /\ bps'[Len(bps) + 1] = new
    BY <2>1, <2>2 DEF ListInv
  <2>4. \A i \in DOMAIN bps : bps[i].addr # a
    BY <1>2 DEF Listed
  <2>5. /\ Len(bps) \in Nat /\ DOMAIN bps = 1 .. Len(bps)
        /\ DOMAIN bps' = 1 .. Len(bps) + 1
        /\ \A i \in DOMAIN bps : bps[i] \in Breakpoint /\ bps[i].num <= bp_num
        /\ new.num = bp_num + 1 /\ new.addr = a /\ new.status = 1
    BY <2>3 DEF ListInv
  <2> HIDE DEF new
  <2>6. ListInOrder'
    <3>1. Len(bps') <= MAX_BREAKPOINTS
      BY <2>1, <2>3, <2>5
    <3>2. ASSUME NEW i \in DOMAIN bps', NEW j \in DOMAIN bps', i < j
          PROVE  bps'[i].num < bps'[j].num /\ bps'[i].addr # bps'[j].addr
      <4>1. i \in DOMAIN bps /\ bps'[i] = bps[i]
        BY <2>3, <2>5, <3>2
      <4>2. CASE j \in DOMAIN bps
        BY <2>3, <2>5, <3>2, <4>1, <4>2 DEF ListInv, ListInOrder
      <4>3. CASE j = Len(bps) + 1
        <5>1. bps[i].num \in Nat /\ bps[i].num <= bp_num /\ bp_num \in Nat
          BY <2>5, <4>1 DEF Breakpoint, ListInv
        <5> QED
          BY <2>3, <2>4, <2>5, <4>1, <4>3, <5>1
      <4> QED
        BY <2>5, <4>2, <4>3
    <3> QED
      BY <3>1, <3>2 DEF ListInOrder
  <2>7. DisabledRuns'
    <3>1. ASSUME NEW i \in DOMAIN bps', bps'[i].status = 0
          PROVE  code'[bps'[i].addr] = PUSHRBP_OPCODE
      <4>1. i \in DOMAIN bps /\ bps'[i] = bps[i]
        BY <2>3, <2>5, <3>1
      <4>2. bps[i].addr \in Addrs /\ bps[i].addr # a
        BY <2>4, <2>5, <4>1 DEF Breakpoint
      <4> QED
        BY <2>1, <3>1, <4>1, <4>2 DEF ListInv, DisabledRuns
    <3> QED
      BY <3>1 DEF DisabledRuns
  <2>8. \A i \in DOMAIN bps' : bps'[i].num <= bp_num'
    BY <2>1, <2>3, <2>5 DEF ListInv, Breakpoint
  <2> QED
    BY <2>1, <2>3, <2>6, <2>7, <2>8 DEF ListInv
<1> QED
  BY <1>1, <1>2

LEMMA RemoveKeepsList ==
  ASSUME ListInv, NEW a \in Addrs, RemoveBreakpoint(a)
  PROVE  ListInv'
<1>1. Entry(a) \in 1 .. Len(bps)
  BY EntryLemma DEF RemoveBreakpoint, ListInv
<1>2. bps' = Removed(bps, Entry(a)) /\ UNCHANGED <<bp_num, code>>
  BY DEF RemoveBreakpoint, RemoveAt, Removed
<1>3. /\ bps' \in Seq(Breakpoint) /\ Len(bps') = Len(bps) - 1
      /\ \A k \in 1 .. Len(bps) - 1 :
           bps'[k] = IF k < Entry(a) THEN bps[k] ELSE bps[k + 1]
  BY <1>1, <1>2, RemovedLemma DEF ListInv
<1>4. Len(bps) \in Nat /\ DOMAIN bps = 1 .. Len(bps) /\ DOMAIN bps' = 1 .. Len(bps) - 1
  BY <1>3 DEF ListInv
<1>5. \A k \in DOMAIN bps' :
        \E j \in DOMAIN bps : bps'[k] = bps[j] /\ j = IF k < Entry(a) THEN k ELSE k + 1
  BY <1>1, <1>3, <1>4
<1>6. \A i \in DOMAIN bps' : bps'[i].num <= bp_num'
  BY <1>2, <1>5 DEF ListInv
<1>7. DisabledRuns'
  BY <1>2, <1>5 DEF ListInv, DisabledRuns
<1>8. ListInOrder'
  <2>1. Len(bps') <= MAX_BREAKPOINTS
    BY <1>3, <1>4, DebugAssumption DEF ListInv, ListInOrder
  <2>2. ASSUME NEW i \in DOMAIN bps', NEW j \in DOMAIN bps', i < j
        PROVE  bps'[i].num < bps'[j].num /\ bps'[i].addr # bps'[j].addr
    <3>1. PICK k \in DOMAIN bps, l \in DOMAIN bps :
            bps'[i] = bps[k] /\ bps'[j] = bps[l] /\ k < l
      BY <1>1, <1>4, <1>5, <2>2
    <3> QED
      BY <3>1 DEF ListInv, ListInOrder
  <2> QED
    BY <2>1, <2>2 DEF ListInOrder
<1> QED
  BY <1>2, <1>3, <1>6, <1>7, <1>8 DEF ListInv

LEMMA StatusKeepsList ==
  ASSUME ListInv, NEW a \in Addrs, EnableBreakpoint(a) \/ DisableBreakpoint(a)
  PROVE  ListInv'
<1>1. PICK status \in {0, 1}, opcode \in {INT3_OPCODE, PUSHRBP_OPCODE} :
        /\ status = 0 <=> opcode = PUSHRBP_OPCODE
        /\ SetStatus(a, status, opcode)
  BY DEF EnableBreakpoint, DisableBreakpoint, INT3_OPCODE, PUSHRBP_OPCODE
<1>2. Entry(a) \in DOMAIN bps /\ bps[Entry(a)].addr = a
  BY <1>1, EntryLemma DEF SetStatus
<1>3. /\ bps' = Marked(bps, Entry(a), status)
      /\ code' = IF bps[Entry(a)].status # status THEN [code EXCEPT ![a] = opcode]
                                                  ELSE code
      /\ UNCHANGED bp_num
  BY <1>1 DEF SetStatus
<1>4. /\ bps' \in Seq(Breakpoint) /\ Len(bps') = Len(bps) /\ DOMAIN bps' = DOMAIN bps
      /\ \A i \in DOMAIN bps : /\ bps'[i].num = bps[i].num
                               /\ bps'[i].addr = bps[i].addr
                               /\ bps'[i].status = IF i = Entry(a) THEN status
                                                                 ELSE bps[i].status
  <2> DEFINE t == Marked(bps, Entry(a), status)
  <2>1. bps \in Seq(Breakpoint)
    BY DEF ListInv
  <2>2. /\ t \in Seq(Breakpoint) /\ Len(t) = Len(bps) /\ DOMAIN t = DOMAIN bps
        /\ \A k \in DOMAIN bps :
             /\ t[k].num = bps[k].num
             /\ t[k].addr = bps[k].addr
             /\ t[k].status = IF k = Entry(a) THEN status ELSE bps[k].status
    BY <1>2, <2>1, MarkLemma, ZenonT(60)
  <2>3. bps' = t
    BY <1>3
  <2> HIDE DEF t
  <2> QED
    BY <2>2, <2>3
<1>5. \A i \in DOMAIN bps : bps[i].addr = a => i = Entry(a)
  BY <1>2 DEF ListInv, ListInOrder
<1>6. ListInOrder'
  BY <1>4 DEF ListInv, ListInOrder
<1>7. DisabledRuns'
  BY <1>1, <1>2, <1>3, <1>4, <1>5, SMTT(20)
     DEF ListInv, DisabledRuns, Breakpoint, INT3_OPCODE, PUSHRBP_OPCODE
<1> QED
  BY <1>1, <1>3, <1>4, <1>6, <1>7 DEF ListInv

LEMMA ListInvStep ==
  ASSUME ListInv, [Next]_vars
  PROVE  ListInv'
<1>1. ASSUME UNCHANGED listvars PROVE ListInv'
  BY <1>1 DEF listvars, ListInv, ListInOrder, DisabledRuns
<1>2. ASSUME bps' = <<>>, bp_num' \in {0, bp_num}, UNCHANGED code PROVE ListInv'
  BY <1>2, DebugAssumption DEF ListInv, ListInOrder, DisabledRuns
<1>3. CASE ListCall
  <2>1. CASE BecomeDebugger
    BY <1>2, <2>1 DEF BecomeDebugger
  <2> QED
    BY <1>3, <2>1, SetKeepsList, RemoveKeepsList, StatusKeepsList DEF ListCall
<1>4. CASE ExitReporting
  BY <1>1, <1>2, <1>4 DEF ExitReporting, listvars
<1>5. ASSUME \/ TickD \/ WaitAndContinue \/ UNCHANGED vars
             \/ \E a \in Addrs : Call(a)
             \/ \E n \in 1 .. MaxSleep : SleepD(n)
             \/ \E c \in Slots : ForkStopped(c)
      PROVE  ListInv'
  BY <1>1, <1>5 DEF TickD, WaitAndContinue, Call, SleepD, ForkStopped, vars,
                    dvars, listvars
<1> QED
  BY <1>3, <1>4, <1>5 DEF Next, SessionNext, SessionStep, ChildStep, UnguardedStep

\* The list stays within MAX_BREAKPOINTS, in increasing order of number with
\* no address twice, and a disabled breakpoint has its opcode back, whatever
\* calls the debugger makes and whatever its debuggees do.
THEOREM ListAlways == Spec => [](ListInOrder /\ DisabledRuns)
<1>1. Init => ListInv
  BY DebugAssumption DEF Init, ListInv, ListInOrder, DisabledRuns
<1>2. ListInv /\ [Next]_vars => ListInv'
  BY ListInvStep
<1>3. ListInv => ListInOrder /\ DisabledRuns
  BY DEF ListInv
<1> QED
  BY <1>1, <1>2, <1>3, PTL DEF Spec

\* A breakpoint that is disabled stops nobody: the opcode of the function is back.
THEOREM DisabledRunsAlways == Spec => []DisabledRuns
BY ListAlways, PTL
-----------------------------------------------------------------------------
(* The hand-over of the CPU.                                               *)

\* Exited, or parked.
Idle(s) == pstate[s] = "UNUSED" \/ Parked(s)

\* Slots 0 and 1 have the swapper for parent; the swapper never waits, and
\* all debuggees are children of slot 1.
Family == /\ pstate[0] \in Runnable /\ ~isdbg[0]
          /\ ppid[0] = 0 /\ 1 \in Slots /\ ppid[1] = 0
          /\ \A s \in Users \ {1} : /\ ~isdbg[s]
                                    /\ pstate[s] # "UNUSED" => ppid[s] = 1

\* Nobody is debugged before there is a debugger, nor after it has gone.
NeedDebugger == pstate[1] = "UNUSED" \/ ~isdbg[1] =>
                  \A s \in Users \ {1} : pstate[s] = "UNUSED"

\* Among the debugger and its debuggees one at most is awake or will wake by
\* itself.
OneAwake == \A s, t \in Users : s # t => Idle(s) \/ Idle(t)

\* Only who waits has ticks to sleep.
NoStaleTicks == \A s \in Slots : pstate[s] # "WAITING" => ticks[s] = 0

HandInv == /\ SchedInv
           /\ ppid \in [Slots -> Slots] /\ isdbg \in [Slots -> BOOLEAN]
           /\ Family /\ NeedDebugger /\ OneAwake /\ NoStaleTicks

LEMMA HandInvHandshake ==
  ASSUME HandInv
  PROVE  OneRunning /\ Handshake
<1>1. ASSUME pstate[1] # "UNUSED", ~Parked(1), NEW c \in Debuggees
      PROVE  Parked(c)
  <2>1. 1 \in Users /\ c \in Users /\ c # 1 /\ pstate[c] # "UNUSED"
    BY SchedAssumption DEF HandInv, Family, Debuggees, Users
  <2>2. Idle(c)
    BY <1>1, <2>1 DEF HandInv, OneAwake, Idle
  <2> QED
    BY <2>1, <2>2 DEF Idle
<1> QED
  BY <1>1 DEF HandInv, SchedInv, Handshake

\* The timer and a sleep wake no parked process and revive none that exited.
LEMMA TickKeepsIdle ==
  ASSUME HandInv, Tick
  PROVE  /\ SchedInv' /\ NoStaleTicks'
         /\ \A s \in Slots : /\ pstate'[s] = "UNUSED" <=> pstate[s] = "UNUSED"
                             /\ Parked(s) => Parked(s)'
                             /\ pstate[s] \in Runnable => pstate'[s] \in Runnable
<1> DEFINE ps == [s \in Slots |-> IF s = current \/ s \in Woken THEN "READY"
                                                              ELSE pstate[s]]
           next == PickNext(ps, current)
<1>1. SchedInv'
  BY SchedInvStep DEF HandInv, SchedNext
<1>2. /\ current \in Slots /\ pstate \in [Slots -> States]
      /\ ticks \in [Slots -> 0 .. MaxSleep] /\ pstate[current] \in Runnable
  BY DEF HandInv, SchedInv, SchedTypeOK, OneRunning
<1>3. /\ ticks' = [s \in Slots |->
                     IF pstate[s] = "WAITING" /\ ticks[s] > 0 THEN ticks[s] - 1
                                                              ELSE ticks[s]]
      /\ pstate' = ps \/ pstate' = [ps EXCEPT ![next] = "RUNNING"]
  BY DEF Tick, Switch
<1>4. next \in Slots /\ ps[next] \in Runnable
  <2>1. next \in Slots /\ (next # 0 => ps[next] = "READY")
    BY <1>2, PickNextLemma
  <2>2. 0 \in Slots /\ pstate[0] \in Runnable
    BY SchedAssumption DEF HandInv, Family, Slots
  <2> QED
    BY <2>1, <2>2 DEF Runnable
<1> HIDE DEF next
<1>5. ASSUME NEW s \in Slots
      PROVE  /\ pstate'[s] = "UNUSED" <=> pstate[s] = "UNUSED"
             /\ Parked(s) => Parked(s)'
             /\ pstate[s] \in Runnable => pstate'[s] \in Runnable
             /\ pstate'[s] # "WAITING" => ticks'[s] = 0
  <2>1. pstate'[s] = ps[s] \/ (s = next /\ pstate'[s] = "RUNNING")
    BY <1>3
  <2> QED
    BY <1>2, <1>3, <1>4, <2>1, SchedAssumption
       DEF Parked, Woken, Runnable, HandInv, NoStaleTicks
<1> QED
  BY <1>1, <1>5 DEF NoStaleTicks

LEMMA SleepKeepsIdle ==
  ASSUME HandInv, NEW n \in 1 .. MaxSleep, Sleep(n)
  PROVE  /\ SchedInv' /\ NoStaleTicks'
         /\ \A s \in Slots : /\ pstate'[s] = "UNUSED" <=> pstate[s] = "UNUSED"
                             /\ Parked(s) => Parked(s)'
         /\ pstate'[0] \in Runnable
<1> DEFINE ps == [pstate EXCEPT ![current] = "WAITING"]
           next == PickNext(ps, current)
<1>1. SchedInv'
  BY SchedInvStep DEF HandInv, SchedNext
<1>2. /\ current \in Slots /\ pstate \in [Slots -> States]
      /\ ticks \in [Slots -> 0 .. MaxSleep] /\ pstate[current] \in Runnable
  BY DEF HandInv, SchedInv, SchedTypeOK, OneRunning
<1>3. /\ ticks' = [ticks EXCEPT ![current] = n] /\ current # 0
      /\ pstate' = [ps EXCEPT ![next] = "RUNNING"]
  BY DEF Sleep, Switch
<1>4. 0 \in Slots /\ pstate[0] \in Runnable
  BY SchedAssumption DEF HandInv, Family, Slots
<1>5. next \in Slots /\ ps[next] \in Runnable
  <2>1. next \in Slots /\ (next # 0 => ps[next] = "READY")
    BY <1>2, PickNextLemma
  <2> QED
    BY <1>3, <1>4, <2>1 DEF Runnable
<1> HIDE DEF next
<1>6. ASSUME NEW s \in Slots
      PROVE  /\ pstate'[s] = "UNUSED" <=> pstate[s] = "UNUSED"
             /\ Parked(s) => Parked(s)'
             /\ pstate'[s] # "WAITING" => ticks'[s] = 0
  BY <1>2, <1>3, <1>5, SchedAssumption DEF Parked, Runnable, HandInv, NoStaleTicks
<1>7. pstate'[0] \in Runnable
  BY <1>2, <1>3, <1>4, <1>5 DEF Runnable
<1> QED
  BY <1>1, <1>6, <1>7 DEF NoStaleTicks

\* While one of them runs all others are idle.
LEMMA OthersIdle ==
  ASSUME HandInv
  PROVE  /\ current \in Slots /\ pstate[current] \in Runnable /\ ticks[current] = 0
         /\ current \in Users => \A s \in Users \ {current} : Idle(s)
BY DEF HandInv, SchedInv, SchedTypeOK, OneRunning, OneAwake, NoStaleTicks, Idle,
       Parked, Runnable

\* The timer or a sleep: no process table but theirs changes.
LEMMA QuietKeepsHand ==
  ASSUME HandInv, UNCHANGED <<ppid, isdbg>>,
         Tick \/ \E n \in 1 .. MaxSleep : Sleep(n)
  PROVE  HandInv'
<1>1. /\ SchedInv' /\ NoStaleTicks' /\ pstate'[0] \in Runnable
      /\ \A s \in Slots : /\ pstate'[s] = "UNUSED" <=> pstate[s] = "UNUSED"
                          /\ Parked(s) => Parked(s)'
  <2>1. 0 \in Slots /\ pstate[0] \in Runnable
    BY SchedAssumption DEF HandInv, Family, Slots
  <2> QED
    BY <2>1, TickKeepsIdle, SleepKeepsIdle
<1>2. \A s \in Slots : Idle(s) => Idle(s)'
  BY <1>1 DEF Idle
<1>3. Users \subseteq Slots /\ 1 \in Slots
  BY SchedAssumption DEF Users, Slots
<1> QED
  BY <1>1, <1>2, <1>3 DEF HandInv, Family, NeedDebugger, OneAwake

LEMMA ListCallKeepsHand ==
  ASSUME HandInv, current = 1, ListCall
  PROVE  HandInv'
<1>1. /\ UNCHANGED <<svars, ppid>>
      /\ isdbg' = isdbg \/ isdbg' = [isdbg EXCEPT ![1] = TRUE]
  BY DEF ListCall, BecomeDebugger, SetBreakpoint, RemoveBreakpoint,
         EnableBreakpoint, DisableBreakpoint, SetStatus
<1>2. pstate[1] # "UNUSED"
  BY OthersIdle DEF Runnable
<1>3. UNCHANGED <<pstate, ticks, current, ppid>>
  BY <1>1 DEF svars
<1>4. SchedInv' /\ OneAwake' /\ NoStaleTicks'
  BY <1>3 DEF HandInv, SchedInv, SchedTypeOK, OneRunning, OneAwake, NoStaleTicks,
              Idle, Parked
<1>5. /\ isdbg' \in [Slots -> BOOLEAN]
      /\ \A s \in Slots \ {1} : isdbg'[s] = isdbg[s]
      /\ isdbg[1] => isdbg'[1]
  BY <1>1 DEF HandInv, Family
<1>6. 0 \in Slots \ {1} /\ \A s \in Users \ {1} : s \in Slots \ {1}
  BY SchedAssumption DEF Users, Slots
<1>7. Family'
  BY <1>3, <1>5, <1>6 DEF HandInv, Family
<1>8. NeedDebugger'
  BY <1>2, <1>3, <1>5 DEF HandInv, NeedDebugger
<1> QED
  BY <1>3, <1>4, <1>5, <1>7, <1>8 DEF HandInv

\* The new child is parked until its debugger waits for it.
LEMMA ForkKeepsHand ==
  ASSUME HandInv, current = 1, isdbg[1], NEW c \in Slots, ForkStopped(c)
  PROVE  HandInv'
<1>1. c \in Users \ {1} /\ pstate[c] = "UNUSED"
  BY OthersIdle DEF ForkStopped, IsNewSlot, HandInv, Family, Runnable, Users, Slots
<1>2. /\ pstate' = [pstate EXCEPT ![c] = "WAITING"]
      /\ ticks' = [ticks EXCEPT ![c] = 0]
      /\ ppid' = [ppid EXCEPT ![c] = 1]
      /\ isdbg' = [isdbg EXCEPT ![c] = FALSE]
      /\ UNCHANGED current
  BY OthersIdle DEF ForkStopped
<1>3. 0 \in Slots /\ 1 \in Slots /\ 0 \in 0 .. MaxSleep
  BY SchedAssumption DEF Slots
<1>4. SchedInv'
  BY <1>1, <1>2, <1>3 DEF HandInv, SchedInv, SchedTypeOK, OneRunning, States, Runnable
<1>5. Family' /\ NeedDebugger' /\ NoStaleTicks'
  BY <1>1, <1>2, <1>3, OthersIdle DEF HandInv, Family, NeedDebugger, NoStaleTicks,
     SchedInv, SchedTypeOK, Users, Slots, Runnable
<1>6. OneAwake'
  BY <1>1, <1>2, <1>3 DEF HandInv, OneAwake, Idle, Parked,
     SchedInv, SchedTypeOK, Users, Slots
<1> QED
  BY <1>2, <1>3, <1>4, <1>5, <1>6 DEF HandInv

\* wait_and_continue parks the debugger and runs a child, dead or alive.
LEMMA ContinueKeepsHand ==
  ASSUME HandInv, current = 1, isdbg[1], WaitAndContinue
  PROVE  HandInv'
<1> DEFINE c == Child(1)
<1>1. c \in Slots /\ ppid[c] = 1
  <2>1. \E s \in Slots : /\ ppid[s] = 1
                         /\ \A t \in Slots : ppid[t] = 1 => s <= t
    <3> DEFINE D == {s \in Slots : ppid[s] = 1}
    <3>1. D \subseteq Nat /\ D # {}
      BY DEF WaitAndContinue, Slots
    <3>2. \E s \in D : \A t \in D : s <= t
      BY <3>1, NatLeast
    <3> QED
      BY <3>2
  <2> QED
    BY <2>1 DEF Child
<1>2. c \in Users \ {1}
  BY <1>1 DEF HandInv, Family, Users, Slots
<1>3. /\ pstate' = [pstate EXCEPT ![1] = "WAITING", ![c] = "RUNNING"]
      /\ current' = c
      /\ UNCHANGED <<ticks, ppid, isdbg>>
  BY DEF WaitAndContinue, Switch, dvars
<1> HIDE DEF c
<1>4. /\ 1 \in Slots /\ c \in Slots /\ pstate \in [Slots -> States]
      /\ ticks[1] = 0 /\ ticks[c] = 0
      /\ \A s \in Users \ {1} : Idle(s)
  <2>1. 1 \in Users /\ 1 \in Slots
    BY SchedAssumption DEF Users, Slots
  <2>2. ticks[1] = 0 /\ \A s \in Users \ {1} : Idle(s)
    BY <2>1, OthersIdle
  <2>3. ticks[c] = 0
    BY <1>1, <1>2, <2>2 DEF Idle, Parked, HandInv, NoStaleTicks
  <2> QED
    BY <1>1, <2>1, <2>2, <2>3 DEF HandInv, SchedInv, SchedTypeOK
<1>5. /\ pstate'[1] = "WAITING" /\ pstate'[c] = "RUNNING"
      /\ \A s \in Slots \ {1, c} : pstate'[s] = pstate[s]
      /\ pstate' \in [Slots -> States]
  BY <1>2, <1>3, <1>4 DEF States
<1>6. SchedInv'
  BY <1>2, <1>3, <1>4, <1>5 DEF HandInv, SchedInv, SchedTypeOK, OneRunning, Runnable
<1>7. Family' /\ NeedDebugger' /\ NoStaleTicks'
  BY <1>1, <1>2, <1>3, <1>4, <1>5
     DEF HandInv, Family, NeedDebugger, NoStaleTicks, Users, Slots
<1>8. OneAwake'
  BY <1>2, <1>3, <1>4, <1>5 DEF OneAwake, Idle, Parked, Users, Slots
<1> QED
  BY <1>3, <1>6, <1>7, <1>8 DEF HandInv

\* What a running debuggee finds: its debugger parked, and all other
\* debuggees idle.
LEMMA ChildAlone ==
  ASSUME HandInv, current \in Users \ {1}
  PROVE  /\ 1 \in Slots /\ current \in Slots
         /\ ppid[current] = 1 /\ ~isdbg[current]
         /\ pstate[1] = "WAITING" /\ ticks[1] = 0 /\ ticks[current] = 0
         /\ \A s \in Users \ {current} : Idle(s)
<1>1. pstate[current] # "UNUSED"
  BY OthersIdle DEF Runnable
<1>2. 1 \in Users \ {current} /\ 1 \in Slots
  BY SchedAssumption DEF Users, Slots
<1> QED
  BY <1>1, <1>2, OthersIdle DEF HandInv, Family, NeedDebugger, Idle, Parked

\* A breakpoint parks the debuggee and runs its debugger.
LEMMA CallKeepsHand ==
  ASSUME HandInv, current \in Users \ {1}, NEW a \in Addrs, Call(a)
  PROVE  HandInv'
<1> DEFINE p == current
<1>1. CASE code[a] = INT3_OPCODE
  <2>1. /\ pstate' = [pstate EXCEPT ![p] = "WAITING", ![1] = "RUNNING"]
        /\ current' = 1
        /\ UNCHANGED <<ticks, ppid, isdbg>>
    BY <1>1, ChildAlone DEF Call, Switch
  <2>2. pstate \in [Slots -> States]
    BY DEF HandInv, SchedInv, SchedTypeOK
  <2>3. /\ pstate'[p] = "WAITING" /\ pstate'[1] = "RUNNING"
        /\ \A s \in Slots \ {1, p} : pstate'[s] = pstate[s]
        /\ pstate' \in [Slots -> States]
    BY <2>1, <2>2, ChildAlone DEF States
  <2>4. SchedInv'
    BY <2>1, <2>2, <2>3, ChildAlone
       DEF HandInv, SchedInv, SchedTypeOK, OneRunning, Runnable
  <2>5. Family' /\ NeedDebugger' /\ NoStaleTicks'
    BY <2>1, <2>2, <2>3, ChildAlone, OthersIdle
       DEF HandInv, Family, NeedDebugger, NoStaleTicks, Users, Slots, Runnable
  <2>6. OneAwake'
    BY <2>1, <2>2, <2>3, ChildAlone DEF OneAwake, Idle, Parked, Users, Slots
  <2> QED
    BY <2>1, <2>4, <2>5, <2>6 DEF HandInv
<1>2. CASE code[a] # INT3_OPCODE
  <2>1. UNCHANGED <<pstate, current, ticks, ppid, isdbg>>
    BY <1>2 DEF Call
  <2> QED
    BY <2>1 DEF HandInv, SchedInv, SchedTypeOK, OneRunning, Family, NeedDebugger,
                OneAwake, NoStaleTicks, Idle, Parked
<1> QED
  BY <1>1, <1>2

\* An exit makes a debuggee's parent READY, which nobody but the swapper then
\* keeps from running.
LEMMA ExitKeepsHand ==
  ASSUME HandInv, ExitReporting,
         \/ current \in Users \ {1}
         \/ current = 1 /\ isdbg[1] /\ Debuggees = {}
  PROVE  HandInv'
<1> DEFINE p == current
           woken == IF isdbg[p] THEN pstate ELSE [pstate EXCEPT ![ppid[p]] = "READY"]
           ps == [woken EXCEPT ![p] = "UNUSED"]
           next == PickNext(ps, p)
<1>1. /\ pstate' = [ps EXCEPT ![next] = "RUNNING"] /\ current' = next
      /\ UNCHANGED <<ticks, ppid, isdbg>> /\ Switch(ps, next)
  BY DEF ExitReporting, Switch
<1>2. /\ p \in Users /\ p \in Slots /\ 0 \in Slots /\ 1 \in Slots
      /\ pstate \in [Slots -> States] /\ pstate[0] \in Runnable
      /\ \A s \in Slots : ticks[s] \in Nat
  BY OthersIdle, SchedAssumption, SMTT(20)
     DEF HandInv, SchedInv, SchedTypeOK, Family, Users, Slots
<1>3. /\ ps \in [Slots -> States] /\ ps[p] = "UNUSED"
      /\ \A s \in Slots \ {1, p} : ps[s] = pstate[s]
      /\ p # 1 => ps[1] = "READY"
  BY <1>2, ChildAlone DEF States, Users
<1>4. \A s \in Slots : ps[s] # "RUNNING"
  BY <1>2, <1>3 DEF HandInv, SchedInv, OneRunning
<1>5. SchedInv'
  <2>1. ticks' \in [Slots -> 0 .. MaxSleep]
    BY <1>1 DEF HandInv, SchedInv, SchedTypeOK
  <2> QED
    BY <1>1, <1>2, <1>3, <1>4, <2>1, SwitchLemma, ZenonT(60) DEF SchedInv, SchedTypeOK
<1>6. next \in Slots /\ (next # 0 => next \in Users /\ ps[next] = "READY")
  BY <1>2, PickNextLemma
<1>7. ps[0] \in Runnable
  BY <1>2, <1>3 DEF Users
<1> HIDE DEF next, ps, woken
<1>8. ASSUME NEW s \in Users \ {1}
      PROVE  /\ pstate'[s] = IF s = p THEN "UNUSED" ELSE pstate[s]
             /\ Idle(s)'
  <2>1. s \in Slots
    BY DEF Users, Slots
  <2>2. s # p => Idle(s)
    BY <1>2, OthersIdle
  <2>3. s # next
    BY <1>3, <1>6, <2>1, <2>2 DEF Idle, Parked, Users
  <2> QED
    BY <1>1, <1>2, <1>3, <2>1, <2>2, <2>3 DEF Idle, Parked
<1>9. OneAwake'
  BY <1>8 DEF OneAwake
<1>10. /\ pstate'[0] \in Runnable
       /\ p # 1 => pstate'[1] \in Runnable
  BY <1>1, <1>2, <1>3, <1>6, <1>7 DEF Runnable
<1>11. Family'
  BY <1>1, <1>2, <1>8, <1>10 DEF HandInv, Family
<1>12. NeedDebugger'
  <2>1. CASE p = 1
    BY <1>8, <2>1 DEF HandInv, Family, Debuggees, NeedDebugger, Users
  <2>2. CASE p # 1
    <3>1. isdbg[1]
      BY <1>2, <2>2, OthersIdle DEF HandInv, NeedDebugger, Runnable
    <3> QED
      BY <1>1, <1>10, <2>2, <3>1 DEF NeedDebugger, Runnable
  <2> QED
    BY <2>1, <2>2
<1>13. NoStaleTicks'
  <2>1. ASSUME NEW s \in Slots, pstate'[s] # "WAITING" PROVE ticks[s] = 0
    <3>1. CASE s \in Users \ {1}
      BY <1>2, <1>8, <2>1, <3>1, OthersIdle DEF HandInv, NoStaleTicks, Runnable
    <3>2. CASE s = 0
      BY <1>2, <3>2 DEF HandInv, NoStaleTicks, Runnable
    <3>3. CASE s = 1
      BY <1>2, <3>3, OthersIdle, ChildAlone DEF HandInv, NoStaleTicks, Runnable
    <3> QED
      BY <2>1, <3>1, <3>2, <3>3 DEF Users, Slots
  <2> QED
    BY <1>1, <2>1 DEF NoStaleTicks
<1> QED
  BY <1>1, <1>5, <1>9, <1>11, <1>12, <1>13 DEF HandInv

LEMMA HandInvStep ==
  ASSUME HandInv, [Next]_vars
  PROVE  HandInv'
<1>1. CASE TickD
  BY <1>1, QuietKeepsHand DEF TickD, dvars
<1>2. ASSUME NEW n \in 1 .. MaxSleep, SleepD(n) PROVE HandInv'
  BY <1>2, QuietKeepsHand DEF SleepD
<1>3. CASE ChildStep
  BY <1>2, <1>3, CallKeepsHand, ExitKeepsHand DEF ChildStep
<1>4. CASE SessionStep
  BY <1>2, <1>4, ListCallKeepsHand, ForkKeepsHand, ContinueKeepsHand, ExitKeepsHand
     DEF SessionStep
<1>5. CASE UnguardedStep
  BY <1>5, ForkKeepsHand, ContinueKeepsHand DEF UnguardedStep
<1>6. CASE UNCHANGED vars
  BY <1>6 DEF vars, svars, dvars, HandInv, SchedInv, SchedTypeOK, OneRunning, Family,
              NeedDebugger, OneAwake, NoStaleTicks, Idle, Parked
<1> QED
  BY <1>1, <1>3, <1>4, <1>5, <1>6 DEF Next, SessionNext

LEMMA HandInvInit == Init => HandInv
<1> SUFFICES ASSUME Init PROVE HandInv
  OBVIOUS
<1>1. 0 \in Slots /\ 1 \in Slots /\ 0 \in 0 .. MaxSleep
  BY SchedAssumption DEF Slots
<1> QED
  BY <1>1 DEF Init, SchedInit, HandInv, SchedInv, SchedTypeOK, OneRunning, Family,
     NeedDebugger, OneAwake, NoStaleTicks, Idle, Parked, States, Runnable, Users, Slots

\* Debugger and debuggees never run together, and no timer wakes one while
\* the other runs, however many debuggees there are, whichever of them
\* wait_and_continue picks, and whoever sleeps or exits meanwhile.
THEOREM HandshakeAlways == Spec => [](OneRunning /\ Handshake)
<1> QED
  BY HandInvInit, HandInvStep, HandInvHandshake, PTL DEF Spec

\* At most one of debugger and debuggees has the CPU.
THEOREM OneAtATimeAlways == Spec => []OneRunning
BY HandshakeAlways, PTL
-----------------------------------------------------------------------------
\* In a session the debugger's children all use slot 2, one after the other.
SessionInv == HandInv /\ \A s \in Slots : ppid[s] = 1 => s = 2

\* No call to wait_and_continue of a session picks a dead slot, and an exit or
\* a breakpoint wakes a parent that lives.
LEMMA SessionStepLemma ==
  ASSUME SessionInv, [SessionNext]_vars
  PROVE  /\ SessionInv'
         /\ \A s \in Slots : pstate[s] = "UNUSED" /\ pstate'[s] # "UNUSED"
                               => ForkStopped(s)
<1>1. HandInv /\ HandInv'
  BY HandInvStep DEF SessionInv, Next
<1> DEFINE Alive == \A s \in Slots : pstate[s] = "UNUSED" /\ pstate'[s] # "UNUSED"
                                       => ForkStopped(s)
<1>2. ASSUME UNCHANGED ppid PROVE SessionInv'
  BY <1>1, <1>2 DEF SessionInv
<1>3. ASSUME UNCHANGED pstate PROVE Alive
  BY <1>3
<1>4. ASSUME TickD PROVE SessionInv' /\ Alive
  BY <1>1, <1>2, <1>4, TickKeepsIdle DEF TickD, dvars
<1>5. ASSUME NEW n \in 1 .. MaxSleep, SleepD(n) PROVE SessionInv' /\ Alive
  BY <1>1, <1>2, <1>5, SleepKeepsIdle DEF SleepD
<1>6. ASSUME NEW a \in Addrs, current \in Users \ {1}, Call(a)
      PROVE  SessionInv' /\ Alive
  <2>1. UNCHANGED ppid
    BY <1>6 DEF Call
  <2>2. \/ UNCHANGED pstate
        \/ pstate' = [pstate EXCEPT ![current] = "WAITING", ![1] = "RUNNING"]
    BY <1>1, <1>6, ChildAlone DEF Call, Switch
  <2>3. pstate[1] # "UNUSED" /\ pstate[current] # "UNUSED"
    BY <1>1, <1>6, ChildAlone, OthersIdle DEF Runnable
  <2>4. Alive
    BY <1>1, <2>2, <2>3 DEF HandInv, SchedInv, SchedTypeOK
  <2> QED
    BY <1>2, <2>1, <2>4
<1>7. ASSUME ExitReporting,
             \/ current \in Users \ {1}
             \/ current = 1 /\ isdbg[1]
      PROVE  SessionInv' /\ Alive
  <2> DEFINE woken == IF isdbg[current] THEN pstate
                                        ELSE [pstate EXCEPT ![ppid[current]] = "READY"]
             ps == [woken EXCEPT ![current] = "UNUSED"]
             next == PickNext(ps, current)
  <2>1. pstate' = [ps EXCEPT ![next] = "RUNNING"] /\ UNCHANGED ppid
    BY <1>7 DEF ExitReporting, Switch
  <2>2. /\ current \in Slots /\ pstate \in [Slots -> States]
        /\ pstate[0] # "UNUSED"
    BY <1>1 DEF HandInv, SchedInv, SchedTypeOK, Family, Runnable
  <2>3. \A s \in Slots : pstate[s] = "UNUSED" => ps[s] = "UNUSED"
    BY <1>1, <1>7, <2>2, ChildAlone, OthersIdle
  <2>4. /\ next = 0 \/ ps[next] # "UNUSED"
        /\ DOMAIN ps = Slots
    BY <2>2, PickNextLemma
  <2> HIDE DEF next, ps
  <2>5. Alive
    BY <2>1, <2>2, <2>3, <2>4
  <2> QED
    BY <1>2, <2>1, <2>5
<1>8. ASSUME NEW c \in Slots, current = 1, Debuggees = {}, ForkStopped(c)
      PROVE  SessionInv' /\ Alive
  <2>1. \A s \in Users \ {1} : pstate[s] = "UNUSED"
    BY <1>1, <1>8 DEF HandInv, Family, Debuggees, Users
  <2>2. pstate[0] # "UNUSED" /\ pstate[1] # "UNUSED"
    BY <1>1, <1>8, OthersIdle DEF HandInv, Family, Runnable
  <2>3. c = 2
    <3>1. c \in Users \ {1}
      BY <1>8, <2>2 DEF ForkStopped, IsNewSlot, Users, Slots
    <3>2. 2 \in Slots /\ 2 \in Users \ {1}
      BY <3>1, SchedAssumption DEF Users, Slots
    <3>3. ~(2 < c)
      BY <1>8, <2>1, <3>2 DEF ForkStopped, IsNewSlot
    <3> QED
      BY <3>1, <3>3 DEF Users
  <2>4. /\ pstate' = [pstate EXCEPT ![c] = "WAITING"]
        /\ ppid' = [ppid EXCEPT ![c] = 1]
    BY <1>8 DEF ForkStopped
  <2>5. Alive
    BY <1>1, <1>8, <2>4 DEF HandInv, SchedInv, SchedTypeOK
  <2>6. \A s \in Slots : ppid'[s] = 1 => s = 2
    BY <1>1, <2>3, <2>4 DEF SessionInv, HandInv
  <2> QED
    BY <1>1, <2>5, <2>6 DEF SessionInv
<1>9. ASSUME current = 1, Debuggees # {}, WaitAndContinue
      PROVE  SessionInv' /\ Alive
  <2>1. PICK d \in Users : ppid[d] = 1 /\ pstate[d] # "UNUSED"
    BY <1>9 DEF Debuggees
  <2>2. d \in Slots /\ d = 2
    BY <2>1 DEF SessionInv, Users, Slots
  <2>3. Child(1) = 2
    BY <2>1, <2>2 DEF Child, SessionInv, Slots
  <2>4. /\ pstate' = [pstate EXCEPT ![1] = "WAITING", ![2] = "RUNNING"]
        /\ UNCHANGED ppid
    BY <1>9, <2>3 DEF WaitAndContinue, Switch, dvars
  <2>5. pstate[1] # "UNUSED"
    BY <1>1, <1>9, OthersIdle DEF Runnable
  <2>6. Alive
    BY <1>1, <2>1, <2>2, <2>4, <2>5 DEF HandInv, SchedInv, SchedTypeOK
  <2> QED
    BY <1>2, <2>4, <2>6
<1>10. ASSUME ListCall PROVE SessionInv' /\ Alive
  <2>1. UNCHANGED <<pstate, ppid>>
    BY <1>10 DEF ListCall, BecomeDebugger, SetBreakpoint, RemoveBreakpoint,
                 EnableBreakpoint, DisableBreakpoint, SetStatus, svars
  <2> QED
    BY <1>2, <1>3, <2>1
<1>11. ASSUME UNCHANGED vars PROVE SessionInv' /\ Alive
  BY <1>2, <1>3, <1>11 DEF vars, svars, dvars
<1> HIDE DEF Alive
<1>12. SessionInv' /\ Alive
  BY <1>4, <1>5, <1>6, <1>7, <1>8, <1>9, <1>10, <1>11
     DEF SessionNext, ChildStep, SessionStep
<1> QED
  BY <1>12 DEF Alive

\* A debuggee that has exited never runs again, and neither does a debugger,
\* as long as the debugger continues nobody but the debuggee that lives.
THEOREM DeadStayDeadAlways == SessionSpec => DeadStayDead
<1> DEFINE Alive == \A s \in Slots : pstate[s] = "UNUSED" /\ pstate'[s] # "UNUSED"
                                       => ForkStopped(s)
<1>1. Init => SessionInv
  BY HandInvInit DEF Init, SessionInv
<1>2. SessionInv /\ [SessionNext]_vars => SessionInv' /\ [Alive]_vars
  BY SessionStepLemma
<1> QED
  BY <1>1, <1>2, PTL DEF SessionSpec, DeadStayDead
-----------------------------------------------------------------------------
(* What the debugger reads when it runs, and the types of the state.       *)

\* The saved registers and the rest of a slot; nothing bounds them but their type.
SavedOK == /\ rax \in [Slots -> Addrs \cup {CHILD_EXIT}]
           /\ at \in [Slots -> Addrs \cup {0}]
           /\ todo \in [Slots -> 0 .. Work]

LEMMA SavedOKStep ==
  ASSUME HandInv, SavedOK, [Next]_vars
  PROVE  SavedOK'
<1>1. CASE UNCHANGED <<rax, at, todo>>
  BY <1>1 DEF SavedOK
<1>2. ASSUME NEW n \in 1 .. MaxSleep, SleepD(n) PROVE SavedOK'
  BY <1>2, DebugAssumption DEF SleepD, SavedOK
<1>3. ASSUME NEW a \in Addrs, current \in Users \ {1}, Call(a) PROVE SavedOK'
  <2>1. rax' \in [Slots -> Addrs \cup {CHILD_EXIT}]
    BY <1>3, ChildAlone DEF Call, SavedOK
  <2>2. at' \in [Slots -> Addrs \cup {0}]
    BY <1>3, ChildAlone DEF Call, SavedOK
  <2>3. todo' \in [Slots -> 0 .. Work]
    BY <1>3, DebugAssumption, ChildAlone DEF Call, SavedOK
  <2> QED
    BY <2>1, <2>2, <2>3 DEF SavedOK
<1>4. ASSUME NEW c \in Slots, ForkStopped(c) PROVE SavedOK'
  BY <1>4, DebugAssumption DEF ForkStopped, SavedOK, CHILD_EXIT
<1>5. CASE ExitReporting
  BY <1>5 DEF ExitReporting, SavedOK
<1>6. CASE ListCall
  BY <1>6 DEF ListCall, BecomeDebugger, SetBreakpoint, RemoveBreakpoint,
              EnableBreakpoint, DisableBreakpoint, SetStatus, SavedOK
<1>7. CASE TickD \/ WaitAndContinue \/ UNCHANGED vars
  BY <1>1, <1>7 DEF TickD, WaitAndContinue, vars, dvars
<1> QED
  BY <1>2, <1>3, <1>4, <1>5, <1>6, <1>7
     DEF Next, SessionNext, SessionStep, ChildStep, UnguardedStep

LEMMA SavedOKInit == Init => SavedOK
BY DebugAssumption DEF Init, SavedOK, CHILD_EXIT

\* The state keeps its types, with any number of debuggees.
THEOREM TypesAlways == Spec => []TypeOK
<1>1. Init => ListInv
  BY DebugAssumption DEF Init, ListInv, ListInOrder, DisabledRuns
<1>2. ListInv /\ HandInv /\ SavedOK => TypeOK
  BY DEF ListInv, HandInv, SavedOK, SchedInv, TypeOK
<1> QED
  BY <1>1, <1>2, ListInvStep, HandInvInit, HandInvStep, SavedOKInit, SavedOKStep, PTL DEF Spec

\* What wait_and_continue has left for the debugger to read.
Report == IF Debuggees = {} THEN rax[1] = CHILD_EXIT
          ELSE \A c \in Debuggees : at[c] # 0 => rax[1] = at[c]

\* Before there is a debugger nothing has been reported.
ReportInv == /\ SessionInv /\ SavedOK
             /\ ~isdbg[1] => rax[1] = CHILD_EXIT
             /\ isdbg[1] /\ ~Parked(1) => Report

\* The timer, a sleep and the list calls leave the report and the debuggees alone.
LEMMA QuietKeepsReport ==
  ASSUME ReportInv, UNCHANGED <<ppid, rax, at>>, isdbg[1] => isdbg'[1],
         \A s \in Slots : pstate'[s] = "UNUSED" <=> pstate[s] = "UNUSED",
         Parked(1) => Parked(1)'
  PROVE  /\ ~isdbg'[1] => rax'[1] = CHILD_EXIT
         /\ isdbg'[1] /\ ~Parked(1)' => Report'
<1>1. Debuggees' = Debuggees
  BY DEF Debuggees, Users, Slots
<1>2. ~isdbg[1] => Debuggees = {}
  BY SchedAssumption DEF ReportInv, SessionInv, HandInv, NeedDebugger, Family, Debuggees, Users
<1> QED
  BY <1>1, <1>2 DEF ReportInv, Report

LEMMA ReportInvStep ==
  ASSUME ReportInv, [SessionNext]_vars
  PROVE  ReportInv'
<1> DEFINE Goal == /\ ~isdbg'[1] => rax'[1] = CHILD_EXIT
                   /\ isdbg'[1] /\ ~Parked(1)' => Report'
<1>1. HandInv /\ SessionInv' /\ SavedOK' /\ SavedOK
  BY SessionStepLemma, SavedOKStep DEF ReportInv, SessionInv, Next
<1> SUFFICES Goal
  BY <1>1 DEF ReportInv
<1>2. 1 \in Slots /\ 1 \in Users
  BY SchedAssumption DEF Slots, Users
<1>3. CASE TickD
  BY <1>1, <1>2, <1>3, TickKeepsIdle, QuietKeepsReport DEF TickD, dvars
<1>4. ASSUME NEW n \in 1 .. MaxSleep, SleepD(n) PROVE Goal
  BY <1>1, <1>2, <1>4, SleepKeepsIdle, QuietKeepsReport DEF SleepD
<1>5. CASE current = 1 /\ ListCall
  <2>1. UNCHANGED <<svars, ppid, rax, at>>
    BY <1>5 DEF ListCall, BecomeDebugger, SetBreakpoint, RemoveBreakpoint,
                EnableBreakpoint, DisableBreakpoint, SetStatus
  <2>2. isdbg[1] => isdbg'[1]
    <3>1. isdbg' = isdbg \/ isdbg' = [isdbg EXCEPT ![1] = TRUE]
      BY <1>5 DEF ListCall, BecomeDebugger, SetBreakpoint, RemoveBreakpoint,
                  EnableBreakpoint, DisableBreakpoint, SetStatus
    <3> QED
      BY <1>1, <1>2, <3>1 DEF HandInv
  <2> QED
    BY <2>1, <2>2, QuietKeepsReport DEF svars, Parked
<1>6. ASSUME NEW c \in Slots, current = 1, isdbg[1], ForkStopped(c) PROVE Goal
  <2>1. c # 1 /\ c \in Slots
    BY <1>1, <1>6, OthersIdle DEF ForkStopped, IsNewSlot, Runnable
  <2>2. /\ pstate'[c] = "WAITING" /\ ppid'[c] = 1 /\ at'[c] = 0
        /\ isdbg' = [isdbg EXCEPT ![c] = FALSE]
    BY <1>1, <1>6 DEF ForkStopped, HandInv, SchedInv, SchedTypeOK, SavedOK
  <2>3. \A d \in Debuggees' : d = c
    BY <1>1, <2>1, <2>2 DEF Debuggees, SessionInv, Users, Slots
  <2>4. c \in Debuggees'
    BY <1>1, <2>1, <2>2 DEF Debuggees, SessionInv, HandInv, Family, Users, Slots
  <2>5. isdbg'[1]
    BY <1>1, <1>2, <1>6, <2>1, <2>2 DEF HandInv
  <2> QED
    BY <2>2, <2>3, <2>4, <2>5 DEF Report
<1>7. CASE current = 1 /\ isdbg[1] /\ Debuggees # {} /\ WaitAndContinue
  <2>1. PICK d \in Users : ppid[d] = 1 /\ pstate[d] # "UNUSED"
    BY <1>7 DEF Debuggees
  <2>2. Child(1) = 2
    BY <2>1 DEF Child, ReportInv, SessionInv, Users, Slots
  <2>3. /\ pstate' = [pstate EXCEPT ![1] = "WAITING", ![2] = "RUNNING"]
        /\ UNCHANGED <<ticks, isdbg>>
    BY <1>7, <2>2 DEF WaitAndContinue, Switch, dvars
  <2>4. ticks[1] = 0
    BY <1>1, <1>7, OthersIdle
  <2>5. Parked(1)'
    BY <1>1, <1>2, <2>3, <2>4 DEF Parked, HandInv, SchedInv, SchedTypeOK
  <2> QED
    BY <1>7, <2>3, <2>5
<1>8. ASSUME NEW a \in Addrs, current \in Users \ {1}, Call(a) PROVE Goal
  <2>1. Parked(1) /\ isdbg[1] /\ ppid[current] = 1 /\ current \in Slots
    BY <1>1, <1>8, ChildAlone, OthersIdle DEF Parked, HandInv, NeedDebugger, Runnable
  <2>2. CASE code[a] = INT3_OPCODE
    <3>1. at' = [at EXCEPT ![current] = a] /\ rax' = [rax EXCEPT ![1] = a]
          /\ UNCHANGED <<ppid, isdbg>>
      BY <1>8, <2>1, <2>2 DEF Call
    <3>2. at'[current] = a /\ rax'[1] = a
      BY <1>1, <1>2, <2>1, <3>1 DEF SavedOK
    <3>3. current = 2 /\ \A c \in Debuggees' : c = 2
      BY <1>1, <2>1, <3>1 DEF ReportInv, SessionInv, Debuggees, Users, Slots
    <3>4. current \in Debuggees'
      <4>1. pstate' = [pstate EXCEPT ![current] = "WAITING", ![1] = "RUNNING"]
        BY <1>8, <2>1, <2>2 DEF Call, Switch
      <4>2. pstate'[current] # "UNUSED"
        BY <1>1, <2>1, <4>1 DEF HandInv, SchedInv, SchedTypeOK
      <4> QED
        BY <1>8, <2>1, <3>1, <4>2 DEF Debuggees
    <3>5. Report'
      BY <3>2, <3>3, <3>4 DEF Report
    <3> QED
      BY <2>1, <3>1, <3>5
  <2>3. CASE code[a] # INT3_OPCODE
    BY <1>8, <2>1, <2>3 DEF Call, Parked
  <2> QED
    BY <2>2, <2>3
<1>9. CASE ExitReporting /\ current \in Users \ {1}
  <2>1. isdbg[1] /\ ppid[current] = 1 /\ current \in Slots /\ ~isdbg[current]
    BY <1>1, <1>9, ChildAlone, OthersIdle DEF HandInv, NeedDebugger, Runnable
  <2> DEFINE ps == [[pstate EXCEPT ![1] = "READY"] EXCEPT ![current] = "UNUSED"]
             next == PickNext(ps, current)
  <2>2. /\ rax' = [rax EXCEPT ![1] = CHILD_EXIT] /\ UNCHANGED <<ppid, isdbg>>
        /\ pstate' = [ps EXCEPT ![next] = "RUNNING"]
    BY <1>9, <2>1 DEF ExitReporting, Switch
  <2>3. ps \in [Slots -> States] /\ ps[current] = "UNUSED" /\ current \in Users
    BY <1>1, <1>9, <2>1 DEF HandInv, SchedInv, SchedTypeOK, States
  <2> HIDE DEF ps
  <2>4. next # current
    <3>1. next # 0 => ps[next] = "READY"
      BY <2>1, PickNextLemma
    <3>2. current # 0
      BY <2>3 DEF Users
    <3> QED
      BY <2>3, <3>1, <3>2
  <2> HIDE DEF next
  <2>5. pstate'[current] = "UNUSED"
    BY <2>1, <2>2, <2>3, <2>4
  <2>6. Debuggees' = {}
    <3>1. current = 2
      BY <2>1 DEF ReportInv, SessionInv
    <3>2. \A s \in Slots : ppid[s] = 1 => s = 2
      BY DEF ReportInv, SessionInv
    <3> QED
      BY <2>2, <2>5, <3>1, <3>2 DEF Debuggees, Users, Slots
  <2> QED
    BY <1>1, <1>2, <2>1, <2>2, <2>6 DEF Report, SavedOK
<1>10. CASE ExitReporting /\ current = 1 /\ isdbg[1] /\ Debuggees = {}
  <2>1. UNCHANGED <<rax, ppid, isdbg>> /\ rax[1] = CHILD_EXIT
    BY <1>1, <1>10, OthersIdle DEF ExitReporting, ReportInv, Report, Parked, Runnable
  <2>2. \A s \in Users : pstate[s] = "UNUSED" => pstate'[s] = "UNUSED"
    <3> DEFINE ps == [pstate EXCEPT ![1] = "UNUSED"]
               next == PickNext(ps, 1)
    <3>1. pstate' = [ps EXCEPT ![next] = "RUNNING"] /\ ps \in [Slots -> States]
      BY <1>1, <1>10 DEF ExitReporting, Switch, HandInv, SchedInv, SchedTypeOK, States
    <3>2. next # 0 => ps[next] = "READY"
      BY <1>2, PickNextLemma
    <3>3. \A s \in Users : s \in Slots /\ s # 0 /\ (pstate[s] = "UNUSED" => ps[s] = "UNUSED")
      BY <1>1 DEF Users, Slots, HandInv, SchedInv, SchedTypeOK
    <3> HIDE DEF next, ps
    <3> QED
      BY <3>1, <3>2, <3>3
  <2>3. Debuggees' = {}
    BY <1>10, <2>1, <2>2 DEF Debuggees
  <2> QED
    BY <1>10, <2>1, <2>3 DEF Report
<1>11. CASE UNCHANGED vars
  BY <1>11, QuietKeepsReport DEF vars, svars, dvars, Parked
<1>12. Goal
  BY <1>3, <1>4, <1>5, <1>6, <1>7, <1>8, <1>9, <1>10, <1>11
     DEF SessionNext, ChildStep, SessionStep
<1> QED
  BY <1>1, <1>12 DEF ReportInv

\* When the debugger runs, what wait_and_continue returned is the stop of the
\* debuggee that lives or the exit of the last one, in every session and however
\* long the debugger sleeps in between.
THEOREM ReportsLastStopAlways == SessionSpec => []ReportsLastStop
<1>1. Init => ReportInv
  <2> SUFFICES ASSUME Init PROVE ReportInv
    OBVIOUS
  <2>1. SessionInv /\ SavedOK
    BY HandInvInit, SavedOKInit DEF Init, SessionInv
  <2> QED
    BY <2>1, SchedAssumption DEF Init, ReportInv, CHILD_EXIT, Slots
<1>2. ReportInv => ReportsLastStop
  BY DEF ReportInv, ReportsLastStop, Report
<1> QED
  BY <1>1, <1>2, ReportInvStep, PTL DEF SessionSpec
=============================================================================
