----------------------------- MODULE Scheduler -----------------------------
(***************************************************************************)
(* The gemOS process table and its round-robin scheduler (schedule.c), as  *)
(* driven by fork, exit and sleep of user processes and by the timer.      *)
(* Slot 0 is the swapper (idle) process, slot 1 is init.  One CPU; the     *)
(* kernel is entered by a system call of the current process or a tick,    *)
(* and each entry runs to completion.                                      *)
(***************************************************************************)
EXTENDS Integers, FiniteSets

CONSTANTS MaxProcesses,  \* MAX_PROCESSES: slots 0 .. MaxProcesses - 1
          MaxSleep       \* longest sleep, in ticks

ASSUME SchedAssumption == /\ MaxProcesses \in Nat /\ MaxProcesses > 1
                          /\ MaxSleep \in Nat \ {0}

Slots == 0 .. MaxProcesses - 1
Users == 1 .. MaxProcesses - 1

VARIABLES pstate,    \* exec_context.state of every slot (NEW never outlasts fork)
          ticks,     \* ticks_to_sleep
          current    \* the context whose address space and stack are loaded

svars == <<pstate, ticks, current>>

States == {"UNUSED", "READY", "RUNNING", "WAITING"}
Runnable == {"READY", "RUNNING"}

SchedTypeOK == /\ pstate \in [Slots -> States]
               /\ ticks \in [Slots -> 0 .. MaxSleep]
               /\ current \in Slots
-----------------------------------------------------------------------------
(* Mutated forms of the definitions below.                                 *)

\* The scan ends at the last slot instead of wrapping to the first.
SuccNoWrap(s, t) == IF t = s \/ t + 1 = MaxProcesses THEN 0 ELSE t + 1

\* The scan starts at slot 1 each time.
PickLowest(ps, s) ==
  LET ready == {t \in Users : ps[t] = "READY"}
  IN  IF ready = {} THEN 0 ELSE CHOOSE t \in ready : \A u \in ready : t <= u

\* Any slot that does not wait will do, used or not.
PickAwake(ps, s) ==
  LET awake == {t \in Users : ps[t] # "WAITING"}
  IN  IF awake = {} THEN 0 ELSE CHOOSE t \in awake : \A u \in awake : t <= u

\* The incoming process is marked, the one it replaces is marked again.
SwitchMarksBoth(ps, next) ==
  /\ pstate' = [s \in Slots |-> IF s \in {next, current} THEN "RUNNING" ELSE ps[s]]
  /\ current' = next

\* Counts run down and nobody is woken.
WokenNever == {}

\* One tick more than was asked for.
SleepLonger(n) ==
  LET ps == [pstate EXCEPT ![current] = "WAITING"]
  IN  /\ current # 0
      /\ ticks' = [ticks EXCEPT ![current] = n + 1]
      /\ pstate' = [ps EXCEPT ![PickLowest(ps, current)] = "RUNNING"]
      /\ current' = PickLowest(ps, current)
-----------------------------------------------------------------------------
(* pick_next_context, twice: as the loop of the code, and as what it does. *)

\* The slot the loop tries after t, scanning on behalf of s; 0 ends it.
Succ(s, t) == IF t = s THEN 0
              ELSE IF t + 1 < MaxProcesses THEN t + 1
              ELSE IF s = 0 THEN 0 ELSE 1

PickLoop(ps, s) ==
  LET tried[n \in Users] ==
        IF n = 1 THEN IF s + 1 = MaxProcesses THEN 1 ELSE s + 1
        ELSE IF tried[n - 1] = 0 THEN 0 ELSE Succ(s, tried[n - 1])
      hits == {n \in Users : tried[n] # 0 /\ ps[tried[n]] = "READY"}
  IN  IF hits = {} THEN 0
      ELSE tried[CHOOSE n \in hits : \A m \in hits : n <= m]

\* How far t is from s in the cyclic order of the user slots; s is last.
Distance(s, t) == IF t > s THEN t - s ELSE t - s + MaxProcesses - 1

\* The READY user process that comes next after s, else the swapper.
PickNext(ps, s) ==
  LET ready == {t \in Users : ps[t] = "READY"}
  IN  IF ready = {} THEN 0
      ELSE CHOOSE t \in ready : \A u \in ready : Distance(s, t) <= Distance(s, u)
-----------------------------------------------------------------------------
(* Entries into the kernel.                                                *)

\* schedule(): load next; ps is the process table at the call.
Switch(ps, next) == /\ pstate' = [ps EXCEPT ![next] = "RUNNING"]
                    /\ current' = next

\* do_cleanup() takes the machine down when the last user process is gone.
Up == \E s \in Users : pstate[s] # "UNUSED"

\* Sleepers whose count this tick takes to zero.
Woken == {s \in Slots : pstate[s] = "WAITING" /\ ticks[s] = 1}

\* handle_timer_tick.  A process that is picked again stays marked READY.
Tick ==
  LET ps == [s \in Slots |-> IF s = current \/ s \in Woken THEN "READY"
                                                           ELSE pstate[s]]
      next == PickNext(ps, current)
  IN  /\ Up
      /\ ticks' = [s \in Slots |->
                     IF pstate[s] = "WAITING" /\ ticks[s] > 0 THEN ticks[s] - 1
                                                              ELSE ticks[s]]
      /\ IF next = current THEN pstate' = ps /\ UNCHANGED current
                           ELSE Switch(ps, next)

\* do_sleep of the current process.
Sleep(n) ==
  LET ps == [pstate EXCEPT ![current] = "WAITING"]
  IN  /\ current # 0
      /\ ticks' = [ticks EXCEPT ![current] = n]
      /\ Switch(ps, PickNext(ps, current))

\* get_new_ctx: the lowest UNUSED slot.
IsNewSlot(c) == /\ pstate[c] = "UNUSED"
                /\ \A s \in Slots : s < c => pstate[s] # "UNUSED"

\* do_fork; the context is copied whole, the child is READY.
Fork(c) ==
  /\ current # 0
  /\ IsNewSlot(c)
  /\ pstate' = [pstate EXCEPT ![c] = "READY"]
  /\ ticks' = [ticks EXCEPT ![c] = ticks[current]]
  /\ UNCHANGED current

\* do_exit of the current process.
Exit ==
  LET ps == [pstate EXCEPT ![current] = "UNUSED"]
  IN  /\ current # 0
      /\ UNCHANGED ticks
      /\ Switch(ps, PickNext(ps, current))
-----------------------------------------------------------------------------
SchedInit == /\ pstate = [s \in Slots |-> IF s = 0 THEN "READY" ELSE
                                          IF s = 1 THEN "RUNNING" ELSE "UNUSED"]
             /\ ticks = [s \in Slots |-> 0]
             /\ current = 1

SchedNext == \/ Tick
             \/ \E n \in 1 .. MaxSleep : Sleep(n)
             \/ \E c \in Slots : Fork(c)
             \/ Exit

\* The timer keeps ticking; nothing is assumed of the processes.
SchedSpec == SchedInit /\ [][SchedNext]_svars /\ WF_svars(Tick)
-----------------------------------------------------------------------------
(* Properties.                                                             *)

\* One process at most is marked RUNNING, and the loaded context is never one
\* that waits or has exited (every path of schedule() and of the tick).
OneRunning == /\ \A s \in Slots : pstate[s] = "RUNNING" => s = current
              /\ pstate[current] \in Runnable

\* The wrap-around loop of pick_next_context returns the cyclically next READY
\* user process whatever slot it starts from, and the swapper only if none is.
LoopIsCyclic == \A s \in Slots : PickLoop(pstate, s) = PickNext(pstate, s)

\* No process starves: one that is READY gets the CPU, however the others
\* fork, sleep and exit.
NoStarvation == \A p \in Users : pstate[p] = "READY" ~> current = p

\* Nobody sleeps through: a sleeper is awake again when its count says so.
SleepersWake == \A p \in Users : pstate[p] = "WAITING" ~> pstate[p] # "WAITING"

\* Nor is it overtaken: every change of the current process brings the scan
\* closer to a process that stays READY, so it waits for at most as many
\* turns as there are user slots.
TurnsApproach ==
  [][\A p \in Users :
       pstate[p] = "READY" /\ pstate'[p] = "READY" /\ current' # current
         => Distance(current', p) < Distance(current, p)]_svars
=============================================================================
