------------------------------ MODULE Debugger ------------------------------
(***************************************************************************)
(* The gemOS kernel of Assignment 3: the process table of Scheduler with   *)
(* the debugger system calls of debug.c and its hooks in fork, exit and    *)
(* the INT3 exception.  Debugger and debuggee hand the CPU to each other   *)
(* through process states: the debugger waits while the debuggee runs, and *)
(* the debuggee is parked from a breakpoint until it is continued.         *)
(*                                                                         *)
(* Slot 1 (init) is the debugger; it and its children share the code       *)
(* pages, so a breakpoint it writes is executed by them.                   *)
(***************************************************************************)
EXTENDS Scheduler, Sequences, SequencesExt

CONSTANTS Addrs,             \* first instructions of functions
          MAX_BREAKPOINTS,   \* entries of the breakpoint list
          MaxNum,            \* bound: breakpoints ever set
          Work               \* bound: function calls and sleeps of a debuggee

ASSUME DebugAssumption == /\ Addrs \subseteq Nat \ {0} /\ Addrs # {}
                          /\ MAX_BREAKPOINTS \in Nat \ {0}
                          /\ MaxNum \in Nat
                          /\ Work \in Nat

INT3_OPCODE == "INT3"
PUSHRBP_OPCODE == "PUSH"
CHILD_EXIT == 0

VARIABLES
  ppid,      \* ppid of every slot; a freed slot keeps it
  isdbg,     \* the slot's dbg pointer is not NULL
  bps,       \* the debugger's breakpoint list, in list order
  bp_num,    \* the number last given to a breakpoint
  code,      \* the opcode byte at every function
  rax,       \* saved rax of every slot, as set by the kernel on a resume
  at,        \* the function a process was last stopped in, 0 before any
  todo       \* steps a process may still take

dvars == <<ppid, isdbg, bps, bp_num, code, rax, at, todo>>
listvars == <<bps, bp_num, code>>
vars == <<svars, dvars>>

Breakpoint == [num : 1 .. MaxNum, addr : Addrs, status : {0, 1}]

TypeOK == /\ SchedTypeOK
          /\ ppid \in [Slots -> Slots]
          /\ isdbg \in [Slots -> BOOLEAN]
          /\ bps \in Seq(Breakpoint)
          /\ bp_num \in 0 .. MaxNum
          /\ code \in [Addrs -> {INT3_OPCODE, PUSHRBP_OPCODE}]
          /\ rax \in [Slots -> Addrs \cup {CHILD_EXIT}]
          /\ at \in [Slots -> Addrs \cup {0}]
          /\ todo \in [Slots -> 0 .. Work]
-----------------------------------------------------------------------------
(* Mutated forms of the definitions below: the bugs the properties exclude.*)

\* An address that is listed already gets a second entry.
SetBreakpointAgain(a) ==
  /\ current = 1 /\ isdbg[1]
  /\ Len(bps) < MAX_BREAKPOINTS /\ bp_num < MaxNum
  /\ bp_num' = bp_num + 1
  /\ bps' = Append(bps, [num |-> bp_num + 1, addr |-> a, status |-> 1])
  /\ code' = [code EXCEPT ![a] = INT3_OPCODE]
  /\ UNCHANGED <<svars, ppid, isdbg, rax, at, todo>>

\* The entry is marked and the code left as it is.
SetStatusOnly(a, status, opcode) ==
  /\ current = 1 /\ isdbg[1]
  /\ \E i \in DOMAIN bps : /\ bps[i].addr = a
                          /\ bps' = [bps EXCEPT ![i].status = status]
  /\ UNCHANGED <<svars, ppid, isdbg, bp_num, code, rax, at, todo>>

\* debugger_on_fork does not park the child.
ForkReady(c) ==
  /\ current # 0
  /\ IsNewSlot(c)
  /\ pstate' = [pstate EXCEPT ![c] = "READY"]
  /\ ticks' = [ticks EXCEPT ![c] = ticks[current]]
  /\ ppid' = [ppid EXCEPT ![c] = current]
  /\ isdbg' = [isdbg EXCEPT ![c] = FALSE]
  /\ rax' = [rax EXCEPT ![c] = 0]
  /\ at' = [at EXCEPT ![c] = 0]
  /\ todo' = [todo EXCEPT ![c] = Work]
  /\ UNCHANGED <<current, listvars>>

\* int3_handler schedules the debugger without a result.
CallNoResult(a) ==
  LET p == current
  IN  /\ p \in Users /\ ~isdbg[p]
      /\ todo[p] > 0
      /\ todo' = [todo EXCEPT ![p] = @ - 1]
      /\ IF code[a] = INT3_OPCODE
         THEN /\ at' = [at EXCEPT ![p] = a]
              /\ Switch([pstate EXCEPT ![p] = "WAITING"], ppid[p])
         ELSE UNCHANGED <<at, pstate, current>>
      /\ UNCHANGED <<rax, ticks, ppid, isdbg, listvars>>

\* The exit of a debuggee is not reported to its parent.
ExitUnreported ==
  LET p == current
      ps == [pstate EXCEPT ![p] = "UNUSED"]
  IN  /\ p # 0
      /\ bps' = IF isdbg[p] THEN <<>> ELSE bps
      /\ Switch(ps, PickNext(ps, p))
      /\ UNCHANGED <<rax, ticks, ppid, isdbg, bp_num, code, at, todo>>
-----------------------------------------------------------------------------
(* The breakpoint list.                                                    *)

Listed(a) == \E i \in DOMAIN bps : bps[i].addr = a
Entry(a) == CHOOSE i \in DOMAIN bps : bps[i].addr = a

\* The list with the status of entry i set to v.
Marked(s, i, v) == [s EXCEPT ![i].status = v]

\* The system calls below are made by the running debugger.
Debugging == current = 1 /\ isdbg[1]

\* do_set_breakpoint.  An address that is listed is marked enabled and its
\* code left as it is; a new one goes to the end of the list.
SetBreakpoint(a) ==
  /\ Debugging
  /\ \/ /\ Listed(a)
        /\ bps' = Marked(bps, Entry(a), 1)
        /\ UNCHANGED <<bp_num, code>>
     \/ /\ ~Listed(a) /\ Len(bps) < MAX_BREAKPOINTS
        /\ bp_num < MaxNum
        /\ bp_num' = bp_num + 1
        /\ bps' = Append(bps, [num |-> bp_num + 1, addr |-> a, status |-> 1])
        /\ code' = [code EXCEPT ![a] = INT3_OPCODE]
  /\ UNCHANGED <<svars, ppid, isdbg, rax, at, todo>>

\* do_remove_breakpoint; the opcode is not put back.
RemoveBreakpoint(a) ==
  /\ Debugging
  /\ Listed(a)
  /\ bps' = RemoveAt(bps, Entry(a))
  /\ UNCHANGED <<svars, ppid, isdbg, bp_num, code, rax, at, todo>>

\* do_enable_breakpoint and do_disable_breakpoint: write the opcode if the
\* status changes.
SetStatus(a, status, opcode) ==
  /\ Debugging
  /\ Listed(a)
  /\ bps' = Marked(bps, Entry(a), status)
  /\ code' = IF bps[Entry(a)].status # status THEN [code EXCEPT ![a] = opcode]
                                              ELSE code
  /\ UNCHANGED <<svars, ppid, isdbg, bp_num, rax, at, todo>>

EnableBreakpoint(a) == SetStatus(a, 1, INT3_OPCODE)
DisableBreakpoint(a) == SetStatus(a, 0, PUSHRBP_OPCODE)

\* do_become_debugger: a fresh list.
BecomeDebugger ==
  /\ current = 1
  /\ isdbg' = [isdbg EXCEPT ![1] = TRUE]
  /\ bps' = <<>> /\ bp_num' = 0
  /\ UNCHANGED <<svars, ppid, code, rax, at, todo>>
-----------------------------------------------------------------------------
(* Handing over the CPU.                                                   *)

\* do_fork with debugger_on_fork: the child is no debugger and waits.
ForkStopped(c) ==
  /\ current # 0
  /\ IsNewSlot(c)
  /\ pstate' = [pstate EXCEPT ![c] = "WAITING"]
  /\ ticks' = [ticks EXCEPT ![c] = ticks[current]]
  /\ ppid' = [ppid EXCEPT ![c] = current]
  /\ isdbg' = [isdbg EXCEPT ![c] = FALSE]
  /\ rax' = [rax EXCEPT ![c] = 0]
  /\ at' = [at EXCEPT ![c] = 0]
  /\ todo' = [todo EXCEPT ![c] = Work]
  /\ UNCHANGED <<current, listvars>>

\* The slot do_wait_and_continue takes for the child: the first with this
\* parent, whatever its state.
Child(p) == CHOOSE s \in Slots : /\ ppid[s] = p
                                 /\ \A t \in Slots : ppid[t] = p => s <= t

\* do_wait_and_continue, where there is such a slot.
WaitAndContinue ==
  /\ current # 0
  /\ \E s \in Slots : ppid[s] = current
  /\ Switch([pstate EXCEPT ![current] = "WAITING"], Child(current))
  /\ UNCHANGED <<ticks, dvars>>

\* A process other than the debugger calls a function: int3_handler if there
\* is a breakpoint, otherwise nothing the kernel sees.
Call(a) ==
  LET p == current
      parent == ppid[p]
  IN  /\ p \in Users /\ ~isdbg[p]
      /\ todo[p] > 0
      /\ todo' = [todo EXCEPT ![p] = @ - 1]
      /\ IF code[a] = INT3_OPCODE
         THEN /\ at' = [at EXCEPT ![p] = a]
              /\ rax' = [rax EXCEPT ![parent] = a]
              /\ Switch([pstate EXCEPT ![p] = "WAITING"], parent)
         ELSE UNCHANGED <<at, rax, pstate, current>>
      /\ UNCHANGED <<ticks, ppid, isdbg, listvars>>

\* do_exit with debugger_on_exit: a debugger's list is freed, the exit of any
\* other process makes its parent READY with CHILD_EXIT for result.
ExitReporting ==
  LET p == current
      woken == IF isdbg[p] THEN pstate ELSE [pstate EXCEPT ![ppid[p]] = "READY"]
      ps == [woken EXCEPT ![p] = "UNUSED"]
  IN  /\ p # 0
      /\ IF isdbg[p] THEN bps' = <<>> /\ UNCHANGED rax
                     ELSE rax' = [rax EXCEPT ![ppid[p]] = CHILD_EXIT] /\ UNCHANGED bps
      /\ Switch(ps, PickNext(ps, p))
      /\ UNCHANGED <<ticks, ppid, isdbg, bp_num, code, at, todo>>

TickD == Tick /\ UNCHANGED dvars

\* Sleeping uses up a step of anyone but the debugger.
SleepD(n) == /\ Sleep(n)
             /\ \/ isdbg[current] /\ UNCHANGED todo
                \/ /\ ~isdbg[current] /\ todo[current] > 0
                   /\ todo' = [todo EXCEPT ![current] = @ - 1]
             /\ UNCHANGED <<ppid, isdbg, listvars, rax, at>>
-----------------------------------------------------------------------------
Init == /\ SchedInit
        /\ ppid = [s \in Slots |-> 0]
        /\ isdbg = [s \in Slots |-> FALSE]
        /\ bps = <<>> /\ bp_num = 0
        /\ code = [a \in Addrs |-> PUSHRBP_OPCODE]
        /\ rax = [s \in Slots |-> 0]
        /\ at = [s \in Slots |-> 0]
        /\ todo = [s \in Slots |-> 0]

ListCall == \/ BecomeDebugger
            \/ \E a \in Addrs : \/ SetBreakpoint(a) \/ RemoveBreakpoint(a)
                                \/ EnableBreakpoint(a) \/ DisableBreakpoint(a)

\* The debuggees of the debugger that have not exited.
Debuggees == {s \in Users : ppid[s] = 1 /\ pstate[s] # "UNUSED"}

\* A step of a process other than init.
ChildStep == /\ current \in Users \ {1}
             /\ \/ \E a \in Addrs : Call(a)
                \/ \E n \in 1 .. MaxSleep : SleepD(n)
                \/ todo[current] = 0 /\ ExitReporting

\* A session as the assignment describes it: init becomes the debugger, forks
\* one debuggee at a time, continues it only while it lives, and exits last.
SessionStep ==
  /\ current = 1
  /\ \/ ListCall
     \/ isdbg[1] /\ Debuggees = {} /\ \E c \in Slots : ForkStopped(c)
     \/ isdbg[1] /\ Debuggees # {} /\ WaitAndContinue
     \/ \E n \in 1 .. MaxSleep : SleepD(n)
     \/ isdbg[1] /\ Debuggees = {} /\ ExitReporting

SessionNext == TickD \/ ChildStep \/ SessionStep

\* The debugger may also fork more debuggees and call wait_and_continue when
\* none is left to continue (a dead slot that still names it is).
UnguardedStep == /\ current = 1 /\ isdbg[1]
                 /\ WaitAndContinue \/ \E c \in Slots : ForkStopped(c)

Next == SessionNext \/ UnguardedStep

Spec == Init /\ [][Next]_vars

\* The timer ticks, and a process that has the CPU goes on executing.
SessionSpec == /\ Init /\ [][SessionNext]_vars
               /\ WF_vars(TickD)
               /\ WF_vars(ChildStep)
-----------------------------------------------------------------------------
(* Properties.                                                             *)

\* The list holds an address once, in increasing order of number, within
\* MAX_BREAKPOINTS: what info_breakpoints copies out.
ListInOrder ==
  /\ Len(bps) <= MAX_BREAKPOINTS
  /\ \A i, j \in DOMAIN bps : i < j => /\ bps[i].num < bps[j].num
                                       /\ bps[i].addr # bps[j].addr

\* A disabled breakpoint never stops anyone: its opcode is back in the code.
DisabledRuns ==
  \A i \in DOMAIN bps : bps[i].status = 0 => code[bps[i].addr] = PUSHRBP_OPCODE

\* Debugger and debuggee never run together: while the debugger can run or
\* sleeps by its own wish, its debuggee is parked and no timer will wake it.
Parked(s) == pstate[s] = "WAITING" /\ ticks[s] = 0
Handshake == isdbg[1] /\ pstate[1] # "UNUSED" /\ ~Parked(1)
                => \A c \in Debuggees : Parked(c)

\* What wait_and_continue returned is still what happened last, whenever the
\* debugger runs: the stop of the live debuggee, or the exit of the last one.
ReportsLastStop ==
  isdbg[1] /\ ~Parked(1) =>
    IF Debuggees = {} THEN rax[1] = CHILD_EXIT
    ELSE \A c \in Debuggees : at[c] # 0 => rax[1] = at[c]

\* Only fork brings a slot back into use.
DeadStayDead ==
  [][\A s \in Slots : pstate[s] = "UNUSED" /\ pstate'[s] # "UNUSED"
        => ForkStopped(s)]_vars

\* wait_and_continue returns: a parked debugger is made runnable again, by a
\* breakpoint or by the exit of the debuggee, even one that sleeps meanwhile.
WaitReturns == pstate[1] = "WAITING" ~> pstate[1] # "WAITING"
=============================================================================
