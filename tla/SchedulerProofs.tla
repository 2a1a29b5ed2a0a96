--------------------------- MODULE SchedulerProofs ---------------------------
(***************************************************************************)
(* Theorems about Scheduler for every MaxId, MaxTicks and Killable, and    *)
(* about Console, which extends it, for every depth of nested handlers.    *)
(* What is proved of the scheduler alone holds under the keyboard          *)
(* interrupt as well, since every step of Console is one of Scheduler or   *)
(* leaves it alone.                                                        *)
(***************************************************************************)
EXTENDS Console, SequenceTheorems, WellFoundedInduction, TLAPS

-----------------------------------------------------------------------------
(* Facts about the operators of the timer interrupt.                       *)

(* The ids are natural numbers, and the two permanent tasks have ids.       *)
LEMMA IdsAreNaturals ==
    Ids \subseteq Nat /\ {MainTask, IdleTask} \subseteq Ids
BY MaxIdAssumption DEF Ids, MainTask, IdleTask

(* Every set of tasks that is not empty has a member of the least id.      *)
LEMMA LeastExists ==
    ASSUME NEW S \in SUBSET Nat, S # {}
    PROVE  Least(S) \in S /\ \A y \in S : Least(S) <= y
<1> DEFINE less == {p \in Nat \X Nat : p[1] < p[2]}
<1>1. IsWellFoundedOn(less, Nat)
  BY NatLessThanWellFounded DEF OpToRel
<1> HIDE DEF less
<1>2. PICK x \in S : \A y \in S : ~(<<y, x>> \in less)
  BY <1>1, WFMin
<1>3. ASSUME NEW y \in S PROVE x <= y
  <2>1. ASSUME y < x PROVE FALSE
    <3>1. <<y, x>> \in less
      BY <2>1 DEF less
    <3>2. QED
      BY <1>2, <3>1
  <2>2. QED
    BY <2>1
<1>4. QED
  BY <1>3 DEF Least

(* get_next_task returns a runnable task, or the idle task when there is   *)
(* none.                                                                   *)
LEMMA NextTaskRunnable ==
    ASSUME NEW R \in SUBSET Ids, NEW c \in Ids
    PROVE  \/ NextTask(R, c) \in R
           \/ NextTask(R, c) = IdleTask /\ R = {}
<1> DEFINE behind == {t \in R : t > c}
           before == {t \in R : t < c}
<1>1. behind \in SUBSET Nat /\ before \in SUBSET Nat
  BY IdsAreNaturals
<1>2. CASE behind # {}
  <2>1. NextTask(R, c) = Least(behind)
    BY <1>2 DEF NextTask
  <2>2. QED
    BY <1>1, <1>2, <2>1, LeastExists
<1>3. CASE behind = {} /\ before # {}
  <2>1. NextTask(R, c) = Least(before)
    BY <1>3 DEF NextTask
  <2>2. QED
    BY <1>1, <1>3, <2>1, LeastExists
<1>4. CASE behind = {} /\ before = {} /\ c \in R
  BY <1>4 DEF NextTask
<1>5. CASE behind = {} /\ before = {} /\ c \notin R
  <2>1. R = {}
    BY <1>5, IdsAreNaturals
  <2>2. QED
    BY <1>5, <2>1 DEF NextTask
<1>6. QED
  BY <1>2, <1>3, <1>4, <1>5

(* Between the task that loses the processor and the one get_next_task     *)
(* chooses, in the order of the list, there is no runnable task.           *)
LEMMA NextTaskIsNext ==
    ASSUME NEW R \in SUBSET Ids, NEW c \in Ids, NextTask(R, c) # c,
           NEW t \in R
    PROVE  ~PassedOver(t, c, NextTask(R, c))
<1> DEFINE behind == {u \in R : u > c}
           before == {u \in R : u < c}
<1>1. behind \in SUBSET Nat /\ before \in SUBSET Nat /\ t \in Nat /\ c \in Nat
  BY IdsAreNaturals
<1>2. CASE behind # {}
  <2>1. NextTask(R, c) = Least(behind)
    BY <1>2 DEF NextTask
  <2>2. Least(behind) \in behind /\ \A y \in behind : Least(behind) <= y
    BY <1>1, <1>2, LeastExists
  <2>3. QED
    BY <1>1, <2>1, <2>2 DEF PassedOver
<1>3. CASE behind = {} /\ before # {}
  <2>1. NextTask(R, c) = Least(before)
    BY <1>3 DEF NextTask
  <2>2. Least(before) \in before /\ \A y \in before : Least(before) <= y
    BY <1>1, <1>3, LeastExists
  <2>3. QED
    BY <1>1, <1>3, <2>1, <2>2 DEF PassedOver
<1>4. CASE behind = {} /\ before = {}
  <2>1. c \in R
    BY <1>1, <1>4, IdsAreNaturals
  <2>2. NextTask(R, c) = c
    BY <1>4, <2>1 DEF NextTask
  <2>3. QED
    BY <2>2
<1>5. QED
  BY <1>2, <1>3, <1>4
-----------------------------------------------------------------------------
(* The inductive invariant.  CurrentLive needs that the two permanent      *)
(* tasks are on the list and that nothing terminates them; AsleepOffCpu    *)
(* and ExitNeverReturns need what get_next_task may fall back to, and      *)
(* that nothing sleeps or exits before scheduler_start.                    *)
Permanent == {MainTask, IdleTask} \subseteq live \ is_terminated

OldIds == \A t \in live : t < next_task_id

UncreatedAtStart == \A t \in Ids : t >= next_task_id => pc[t] = "run"

PermanentRun == pc[MainTask] = "run" /\ pc[IdleTask] = "run"

LeaversTerminated ==
    \A t \in live : pc[t] \in {"leaving", "spin"} => t \in is_terminated

BeforeStart ==
    ~scheduler_active => current_task = MainTask /\ is_sleeping = {}

Inv ==
    /\ TypeOK
    /\ Permanent
    /\ OldIds
    /\ UncreatedAtStart
    /\ PermanentRun
    /\ LeaversTerminated
    /\ BeforeStart
    /\ CurrentLive
    /\ ExitNeverReturns
    /\ AsleepOffCpu

(* scheduler_init establishes the invariant.                                *)
LEMMA InitInv == Init => Inv
<1> SUFFICES ASSUME Init PROVE Inv
  OBVIOUS
<1> USE IdsAreNaturals, MaxIdAssumption, MaxTicksAssumption DEF Init
<1>1. TypeOK
  <2>1. live \subseteq Ids /\ current_task \in Ids
    OBVIOUS
  <2>2. next_task_id \in 3..(MaxId + 1)
    BY DEF IdleTask
  <2>3. sleep_ticks \in [Ids -> 0..MaxTicks]
    OBVIOUS
  <2>4. pc \in [Ids -> Points]
    BY DEF Points
  <2>5. QED
    BY <2>1, <2>2, <2>3, <2>4 DEF TypeOK
<1>2. /\ Permanent /\ OldIds /\ UncreatedAtStart /\ PermanentRun
      /\ LeaversTerminated /\ BeforeStart
  BY DEF Permanent, OldIds, UncreatedAtStart, PermanentRun, LeaversTerminated,
         BeforeStart, MainTask, IdleTask
<1>3. CurrentLive /\ ExitNeverReturns /\ AsleepOffCpu
  BY DEF CurrentLive, ExitNeverReturns, AsleepOffCpu, MainTask, IdleTask
<1>4. QED
  BY <1>1, <1>2, <1>3 DEF Inv

(* One run of timer_handler, whatever the sleepers it is entered with.     *)
LEMMA TimerKeepsTypes ==
    ASSUME Inv, NEW sleeping \in SUBSET live,
           NEW ticks \in [Ids -> 0..MaxTicks],
           TimerHandler(sleeping, ticks)
    PROVE  /\ live' = live \ Reaped
           /\ live' \subseteq Ids
           /\ is_sleeping' \subseteq sleeping \cap live'
           /\ is_terminated' \subseteq {current_task}
           /\ is_terminated' = is_terminated \ Reaped
           /\ is_terminated' \subseteq live'
           /\ sleep_ticks' \in [Ids -> 0..MaxTicks]
           /\ next_task_id' = next_task_id
           /\ scheduler_active' = scheduler_active
<1>1. /\ live' = live \ Reaped
      /\ is_sleeping' = sleeping \ (Expired(sleeping, ticks) \cup Reaped)
      /\ is_terminated' = is_terminated \ Reaped
      /\ next_task_id' = next_task_id
      /\ scheduler_active' = scheduler_active
  BY DEF TimerHandler
<1>2. live \subseteq Ids /\ is_terminated \subseteq live
  BY DEF Inv, TypeOK
<1>3. sleep_ticks' \in [Ids -> 0..MaxTicks]
  <2>1. \A t \in Ids : (IF t \in sleeping /\ ticks[t] > 0 THEN ticks[t] - 1
                                                        ELSE ticks[t])
                      \in 0..MaxTicks
    BY MaxTicksAssumption
  <2>2. QED
    BY <2>1 DEF TimerHandler
<1>4. QED
  BY <1>1, <1>2, <1>3 DEF Reaped

(* Where timer_handler switches to: a runnable task or the idle task; before*)
(* scheduler_start the main task runs on.                                   *)
LEMMA TimerDispatch ==
    ASSUME Inv, NEW sleeping \in SUBSET live,
           NEW ticks \in [Ids -> 0..MaxTicks],
           TimerHandler(sleeping, ticks)
    PROVE  IF scheduler_active
           THEN current_task' \in Runnable' \cup {IdleTask}
           ELSE current_task' = MainTask
<1>1. CASE scheduler_active
  <2>1. Runnable' \in SUBSET Ids
    BY TimerKeepsTypes DEF Runnable
  <2>2. current_task \in Ids
    BY DEF Inv, TypeOK
  <2>3. current_task' = NextTask(Runnable', current_task)
    BY <1>1 DEF TimerHandler
  <2>4. QED
    BY <1>1, <2>1, <2>2, <2>3, NextTaskRunnable
<1>2. CASE ~scheduler_active
  BY <1>2 DEF TimerHandler, Inv, BeforeStart
<1>3. QED
  BY <1>1, <1>2

(* timer_handler keeps the invariant, whether the code behind the interrupt *)
(* stays where it is (point is unchanged) or goes on behind its yield.      *)
LEMMA TimerKeepsInv ==
    ASSUME Inv, NEW sleeping \in SUBSET live,
           NEW ticks \in [Ids -> 0..MaxTicks],
           TimerHandler(sleeping, ticks),
           ~scheduler_active => sleeping = {},
           NEW point \in {pc[current_task], AfterYield(pc[current_task])},
           pc' = [pc EXCEPT ![current_task] = point]
    PROVE  Inv'
<1> USE IdsAreNaturals
<1>1. /\ live \subseteq Ids /\ current_task \in Ids /\ pc \in [Ids -> Points]
      /\ next_task_id \in 3..(MaxId + 1) /\ scheduler_active \in BOOLEAN
      /\ current_task \in live /\ is_terminated \subseteq live
  BY DEF Inv, TypeOK, CurrentLive
<1>2. /\ live' = live \ Reaped
      /\ live' \subseteq Ids
      /\ is_sleeping' \subseteq sleeping \cap live'
      /\ is_terminated' = is_terminated \ Reaped
      /\ is_terminated' \subseteq live'
      /\ sleep_ticks' \in [Ids -> 0..MaxTicks]
      /\ next_task_id' = next_task_id
      /\ scheduler_active' = scheduler_active
  BY TimerKeepsTypes
<1>3. IF scheduler_active
      THEN current_task' \in Runnable' \cup {IdleTask}
      ELSE current_task' = MainTask
  BY TimerDispatch
<1>4. point \in Points /\ (point \in {"leaving", "spin"} =>
                             pc[current_task] \in {"leaving", "spin"})
  BY <1>1 DEF AfterYield, Points
<1>5. Permanent'
  BY <1>2 DEF Inv, Permanent, Reaped
<1>6. CurrentLive'
  BY <1>3, <1>5 DEF CurrentLive, Permanent, Runnable
<1>7. TypeOK'
  BY <1>1, <1>2, <1>4, <1>6 DEF TypeOK, CurrentLive
<1>8. OldIds'
  BY <1>2 DEF Inv, OldIds
<1>9. UncreatedAtStart'
  <2>1. SUFFICES ASSUME NEW t \in Ids, t >= next_task_id
                 PROVE  pc'[t] = "run"
    BY <1>2 DEF UncreatedAtStart
  <2>2. current_task < next_task_id
    BY <1>1 DEF Inv, OldIds
  <2>3. t # current_task
    BY <1>1, <2>1, <2>2
  <2>4. QED
    BY <1>1, <2>1, <2>3 DEF Inv, UncreatedAtStart
<1>10. PermanentRun'
  BY <1>1 DEF Inv, PermanentRun, AfterYield
<1>11. LeaversTerminated'
  <2>1. SUFFICES ASSUME NEW t \in live', pc'[t] \in {"leaving", "spin"}
                 PROVE  t \in is_terminated'
    BY DEF LeaversTerminated
  <2>2. CASE t = current_task
    <3>1. t \in is_terminated
      BY <1>1, <1>4, <2>1, <2>2 DEF Inv, LeaversTerminated
    <3>2. QED
      BY <1>2, <2>2, <3>1 DEF Reaped
  <2>3. CASE t # current_task
    <3>1. pc[t] \in {"leaving", "spin"} /\ t \in live
      BY <1>1, <1>2, <2>1, <2>3
    <3>2. t \in is_terminated
      BY <3>1 DEF Inv, LeaversTerminated
    <3>3. QED
      BY <1>2, <2>1, <2>3, <3>2 DEF Reaped
  <2>4. QED
    BY <2>2, <2>3
<1>12. BeforeStart'
  BY <1>2, <1>3 DEF BeforeStart
<1>13. ExitNeverReturns'
  <2>1. CASE current_task' \in Runnable'
    BY <2>1, <1>11 DEF ExitNeverReturns, LeaversTerminated, Runnable
  <2>2. CASE current_task' \in {MainTask, IdleTask}
    BY <2>2, <1>10 DEF ExitNeverReturns, PermanentRun
  <2>3. QED
    BY <1>3, <2>1, <2>2
<1>14. AsleepOffCpu'
  BY <1>2, <1>3 DEF AsleepOffCpu, Runnable
<1>15. QED
  BY <1>5, <1>6, <1>7, <1>8, <1>9, <1>10, <1>11, <1>12, <1>13, <1>14 DEF Inv

(* The clamped number of ticks is one a task can sleep.                     *)
LEMMA SleepTicksInRange ==
    ASSUME NEW n \in 0..MaxTicks
    PROVE  SleepTicks(n) \in 0..MaxTicks
BY MaxTicksAssumption DEF SleepTicks

(* Every step keeps the invariant as long as the shell is never given the  *)
(* id of the idle task to kill.                                            *)
LEMMA NextKeepsInv ==
    ASSUME IdleTask \notin Killable, Inv, [Next]_vars
    PROVE  Inv'
<1> USE IdsAreNaturals
<1>0. /\ live \subseteq Ids /\ current_task \in Ids /\ pc \in [Ids -> Points]
      /\ next_task_id \in 3..(MaxId + 1) /\ scheduler_active \in BOOLEAN
      /\ current_task \in live /\ is_terminated \subseteq live
      /\ is_sleeping \in SUBSET live
      /\ sleep_ticks \in [Ids -> 0..MaxTicks]
  BY DEF Inv, TypeOK, CurrentLive
<1>1. CASE Start
  BY <1>1 DEF Inv, Start, TypeOK, Permanent, OldIds, UncreatedAtStart,
     PermanentRun, LeaversTerminated, BeforeStart, CurrentLive,
     ExitNeverReturns, AsleepOffCpu
<1>2. CASE Tick
  <2>1. pc' = [pc EXCEPT ![current_task] = pc[current_task]]
    BY <1>0, <1>2 DEF Tick
  <2>2. ~scheduler_active => is_sleeping = {}
    BY DEF Inv, BeforeStart
  <2>3. TimerHandler(is_sleeping, sleep_ticks)
    BY <1>2 DEF Tick
  <2>4. QED
    BY <1>0, <2>1, <2>2, <2>3, TimerKeepsInv
<1>3. CASE Yield
  <2>1. pc' = [pc EXCEPT ![current_task] = AfterYield(pc[current_task])]
    BY <1>3 DEF Yield
  <2>2. ~scheduler_active => is_sleeping = {}
    BY DEF Inv, BeforeStart
  <2>3. TimerHandler(is_sleeping, sleep_ticks)
    BY <1>3 DEF Yield
  <2>4. QED
    BY <1>0, <2>1, <2>2, <2>3, TimerKeepsInv
<1>4. CASE CreateTask
  <2>1. next_task_id \in Ids /\ next_task_id \notin live
    BY <1>0, <1>4, MaxIdAssumption DEF CreateTask, Ids, Inv, OldIds
  <2>2. TypeOK'
    BY <1>0, <1>4, <2>1, MaxIdAssumption DEF CreateTask, TypeOK, Ids
  <2>3. OldIds' /\ UncreatedAtStart'
    BY <1>0, <1>4 DEF CreateTask, Inv, OldIds, UncreatedAtStart
  <2>4. LeaversTerminated'
    BY <1>0, <1>4, <2>1 DEF CreateTask, Inv, LeaversTerminated,
                            UncreatedAtStart
  <2>5. Permanent' /\ PermanentRun' /\ BeforeStart' /\ CurrentLive'
    BY <1>4 DEF CreateTask, Inv, Permanent, PermanentRun, BeforeStart,
                CurrentLive
  <2>6. ExitNeverReturns' /\ AsleepOffCpu'
    BY <1>4 DEF CreateTask, Inv, ExitNeverReturns, AsleepOffCpu
  <2>7. QED
    BY <2>2, <2>3, <2>4, <2>5, <2>6 DEF Inv
<1>5. ASSUME NEW n \in 0..MaxTicks, Sleep(n) PROVE Inv'
  <2>1. pc' = [pc EXCEPT ![current_task] = "timed"]
    BY <1>5 DEF Sleep, Goto
  <2>2. TypeOK'
    BY <1>0, <1>5, <2>1, SleepTicksInRange DEF Sleep, TypeOK, Points
  <2>3. /\ UncreatedAtStart' /\ PermanentRun' /\ LeaversTerminated'
        /\ ExitNeverReturns'
    BY <1>0, <1>5, <2>1 DEF Sleep, Inv, OldIds, UncreatedAtStart, PermanentRun,
       LeaversTerminated, ExitNeverReturns
  <2>4. Permanent' /\ OldIds' /\ BeforeStart' /\ CurrentLive'
    BY <1>5 DEF Sleep, Inv, Permanent, OldIds, BeforeStart, CurrentLive
  <2>5. AsleepOffCpu'
    BY <1>5 DEF Sleep, Inv, AsleepOffCpu
  <2>6. QED
    BY <2>2, <2>3, <2>4, <2>5 DEF Inv
<1>6. CASE FallAsleep
  <2>1. pc' = [pc EXCEPT ![current_task] = "dozing"]
    BY <1>6 DEF FallAsleep, Goto
  <2>2. current_task \notin {MainTask, IdleTask}
    BY <1>6 DEF FallAsleep, Inv, PermanentRun
  <2>3. TypeOK'
    BY <1>0, <1>6, <2>1 DEF FallAsleep, TypeOK, Points
  <2>4. UncreatedAtStart'
    BY <1>0, <1>6, <2>1 DEF FallAsleep, Inv, OldIds, UncreatedAtStart
  <2>5. /\ PermanentRun' /\ LeaversTerminated' /\ ExitNeverReturns'
        /\ AsleepOffCpu'
    BY <1>0, <1>6, <2>1, <2>2 DEF FallAsleep, Inv, PermanentRun,
       LeaversTerminated, ExitNeverReturns, AsleepOffCpu
  <2>6. BeforeStart'
    BY <1>6, <2>2 DEF FallAsleep, Inv, BeforeStart
  <2>7. Permanent' /\ OldIds' /\ CurrentLive'
    BY <1>6 DEF FallAsleep, Inv, Permanent, OldIds, CurrentLive
  <2>8. QED
    BY <2>3, <2>4, <2>5, <2>6, <2>7 DEF Inv
<1>7. ASSUME NEW n \in 0..MaxTicks, CommandSleep(n) PROVE Inv'
  <2> DEFINE ticks == [sleep_ticks EXCEPT ![current_task] = SleepTicks(n)]
  <2>1. pc' = [pc EXCEPT ![current_task] = pc[current_task]]
    BY <1>0, <1>7 DEF CommandSleep
  <2>2. is_sleeping \cup {current_task} \in SUBSET live
    BY <1>0
  <2>3. ticks \in [Ids -> 0..MaxTicks]
    BY <1>0, SleepTicksInRange
  <2>4. scheduler_active /\ TimerHandler(is_sleeping \cup {current_task}, ticks)
    BY <1>7 DEF CommandSleep
  <2> HIDE DEF ticks
  <2>5. QED
    BY <2>1, <2>2, <2>3, <2>4, TimerKeepsInv
<1>8. CASE ExitTask
  <2>1. pc' = [pc EXCEPT ![current_task] = "leaving"]
    BY <1>8 DEF ExitTask, Goto
  <2>2. TypeOK'
    BY <1>0, <1>8, <2>1 DEF ExitTask, TypeOK, Points
  <2>3. UncreatedAtStart' /\ PermanentRun' /\ LeaversTerminated'
    BY <1>0, <1>8, <2>1 DEF ExitTask, Inv, OldIds, UncreatedAtStart,
       PermanentRun, LeaversTerminated
  <2>4. Permanent' /\ OldIds' /\ BeforeStart' /\ CurrentLive'
    BY <1>8 DEF ExitTask, Inv, Permanent, OldIds, BeforeStart, CurrentLive
  <2>5. ExitNeverReturns' /\ AsleepOffCpu'
    BY <1>0, <1>8, <2>1 DEF ExitTask, Inv, ExitNeverReturns, AsleepOffCpu
  <2>6. QED
    BY <2>2, <2>3, <2>4, <2>5 DEF Inv
<1>9. ASSUME NEW pid \in Killable, Kill(pid) PROVE Inv'
  <2>1. pid \in live \ {MainTask, IdleTask}
    BY <1>9 DEF Kill
  <2>2. TypeOK' /\ Permanent' /\ LeaversTerminated'
    BY <1>9, <2>1 DEF Kill, Inv, TypeOK, Permanent, LeaversTerminated
  <2>3. QED
    BY <1>9, <2>2 DEF Kill, Inv, OldIds, UncreatedAtStart, PermanentRun,
       BeforeStart, CurrentLive, ExitNeverReturns, AsleepOffCpu
<1>10. CASE UNCHANGED vars
  BY <1>10 DEF vars, Inv, TypeOK, Permanent, OldIds, UncreatedAtStart,
     PermanentRun, LeaversTerminated, BeforeStart, CurrentLive,
     ExitNeverReturns, AsleepOffCpu
<1>11. QED
  BY <1>1, <1>2, <1>3, <1>4, <1>5, <1>6, <1>7, <1>8, <1>9, <1>10 DEF Next

-----------------------------------------------------------------------------
(* The theorems.  What they assume of Killable is what process_kill does   *)
(* not ensure: it spares the main task only.  None needs the fairness of   *)
(* Spec, so they are about SafeSpec.                                       *)

(* The invariant holds in every reachable state.                            *)
LEMMA InvHolds ==
    ASSUME IdleTask \notin Killable
    PROVE  SafeSpec => []Inv
<1>1. Init => Inv
  BY InitInv
<1>2. Inv /\ [Next]_vars => Inv'
  BY NextKeepsInv
<1>3. QED
  BY <1>1, <1>2, PTL DEF SafeSpec

(* The fields of the tasks and the globals keep their ranges.              *)
THEOREM TypeCorrect ==
    ASSUME IdleTask \notin Killable
    PROVE  SafeSpec => []TypeOK
<1>1. Inv => TypeOK
  BY DEF Inv
<1>2. QED
  BY <1>1, InvHolds, PTL

(* The reaper never frees the task the processor runs on.                  *)
THEOREM CurrentTaskIsLive ==
    ASSUME IdleTask \notin Killable
    PROVE  SafeSpec => []CurrentLive
<1>1. Inv => CurrentLive
  BY DEF Inv
<1>2. QED
  BY <1>1, InvHolds, PTL

(* scheduler_exit_task does not come back from its yield.                  *)
THEOREM ExitDoesNotReturn ==
    ASSUME IdleTask \notin Killable
    PROVE  SafeSpec => []ExitNeverReturns
<1>1. Inv => ExitNeverReturns
  BY DEF Inv
<1>2. QED
  BY <1>1, InvHolds, PTL

(* No task but the idle one runs on while it sleeps.                       *)
THEOREM SleepersAreOffTheCpu ==
    ASSUME IdleTask \notin Killable
    PROVE  SafeSpec => []AsleepOffCpu
<1>1. Inv => AsleepOffCpu
  BY DEF Inv
<1>2. QED
  BY <1>1, InvHolds, PTL

(* A switch made by timer_handler passes over no runnable task.             *)
LEMMA TimerPassesNoTaskOver ==
    ASSUME Inv, NEW sleeping \in SUBSET live,
           NEW ticks \in [Ids -> 0..MaxTicks],
           TimerHandler(sleeping, ticks),
           current_task' # current_task,
           NEW t \in Runnable \cap Runnable'
    PROVE  ~PassedOver(t, current_task, current_task')
<1>1. Runnable' \in SUBSET Ids
  BY TimerKeepsTypes DEF Runnable
<1>2. current_task \in Ids
  BY DEF Inv, TypeOK
<1>3. current_task' = NextTask(Runnable', current_task)
  BY DEF TimerHandler
<1>4. QED
  BY <1>1, <1>2, <1>3, NextTaskIsNext

(* Round robin passes over no task that is and stays runnable.             *)
THEOREM RoundRobin ==
    ASSUME IdleTask \notin Killable
    PROVE  SafeSpec => NoTaskPassedOver
<1> DEFINE Fair == current_task' # current_task =>
                     \A t \in Runnable \cap Runnable' :
                        ~PassedOver(t, current_task, current_task')
<1>1. Inv /\ [Next]_vars => [Fair]_vars
  <2>1. SUFFICES ASSUME Inv, Next PROVE Fair
    OBVIOUS
  <2>2. /\ is_sleeping \in SUBSET live /\ current_task \in live
        /\ sleep_ticks \in [Ids -> 0..MaxTicks]
    BY <2>1 DEF Inv, TypeOK, CurrentLive
  <2>3. CASE Tick \/ Yield
    <3>1. TimerHandler(is_sleeping, sleep_ticks)
      BY <2>3 DEF Tick, Yield
    <3>2. QED
      BY <2>1, <2>2, <3>1, TimerPassesNoTaskOver
  <2>4. ASSUME NEW n \in 0..MaxTicks, CommandSleep(n) PROVE Fair
    <3> DEFINE ticks == [sleep_ticks EXCEPT ![current_task] = SleepTicks(n)]
    <3>1. ticks \in [Ids -> 0..MaxTicks]
      BY <2>2, SleepTicksInRange
    <3>2. TimerHandler(is_sleeping \cup {current_task}, ticks)
      BY <2>4 DEF CommandSleep
    <3> HIDE DEF ticks
    <3>3. QED
      BY <2>1, <2>2, <3>1, <3>2, TimerPassesNoTaskOver
  <2>5. CASE current_task' = current_task
    BY <2>5
  <2>6. QED
    BY <2>1, <2>3, <2>4, <2>5 DEF Next, Start, CreateTask, Sleep, FallAsleep,
       ExitTask, Kill
<1>2. QED
  BY <1>1, InvHolds, PTL DEF SafeSpec, NoTaskPassedOver

-----------------------------------------------------------------------------
(* Scheduler implements CpuSharing.                                        *)

(* The refinement mapping maps every task to a phase of CpuSharing.         *)
LEMMA PhaseType == \A t \in Ids : Phase(t) \in Sharing!Phases
BY DEF Phase, Sharing!Phases

(* One run of timer_handler, whatever it wakes, reaps and switches to, is   *)
(* one PassOn of CpuSharing.                                                *)
LEMMA TimerIsPassOn ==
    ASSUME Inv, Inv', NEW sleeping \in SUBSET live,
           sleeping \in {is_sleeping, is_sleeping \cup {current_task}},
           NEW ticks \in [Ids -> 0..MaxTicks],
           TimerHandler(sleeping, ticks)
    PROVE  Sharing!PassOn
<1> USE IdsAreNaturals
<1>1. /\ live \subseteq Ids /\ is_sleeping \subseteq live
      /\ is_terminated \subseteq live /\ current_task \in live
      /\ next_task_id \in Nat
      /\ \A t \in live : t < next_task_id
  BY MaxIdAssumption DEF Inv, TypeOK, CurrentLive, OldIds
<1>2. /\ live' = live \ Reaped
      /\ is_sleeping' \subseteq sleeping \cap live'
      /\ is_terminated' = is_terminated \ Reaped
      /\ next_task_id' = next_task_id
      /\ current_task' \in Ids
  BY TimerKeepsTypes DEF Inv, TypeOK
<1>3. ASSUME NEW t \in Ids
      PROVE  \/ Phase(t)' = Phase(t)
             \/ Phase(t) = "ready" /\ Phase(t)' = "asleep" /\ t = current_task
             \/ Phase(t) = "asleep" /\ Phase(t)' = "ready"
             \/ Phase(t) = "ended" /\ Phase(t)' = "gone" /\ t # current_task
  <2>1. CASE t \notin live
    BY <1>1, <1>2, <2>1 DEF Phase
  <2>2. CASE t \in is_terminated
    BY <1>1, <1>2, <2>2 DEF Phase, Reaped
  <2>3. CASE t \in live \ is_terminated
    <3>1. t \in live' \ is_terminated'
      BY <1>2, <2>3 DEF Reaped
    <3>2. t \in is_sleeping' => t \in is_sleeping \/ t = current_task
      BY <1>2
    <3>3. QED
      BY <1>1, <1>2, <2>3, <3>1, <3>2 DEF Phase
  <2>4. QED
    BY <2>1, <2>2, <2>3
<1>4. Phase(current_task)' = "ready" \/ current_task' = IdleTask
  <2>1. CASE current_task' \in Runnable'
    BY <1>1, <1>2, <2>1 DEF Phase, Runnable
  <2>2. CASE current_task' = MainTask /\ ~scheduler_active
    <3>1. MainTask \in live' \ is_terminated'
      BY DEF Inv, Permanent
    <3>2. is_sleeping' = {} /\ ~scheduler_active'
      BY <2>2 DEF Inv, BeforeStart, TimerHandler
    <3>3. QED
      BY <1>1, <1>2, <2>2, <3>1, <3>2 DEF Phase
  <2>3. QED
    BY <2>1, <2>2, TimerDispatch
<1> DEFINE phase == [t \in Ids |-> Phase(t)]
<1>5. phase' \in [Ids -> Sharing!Phases]
  <2>1. \A t \in Ids : Phase(t)' \in Sharing!Phases
    BY <1>3, PhaseType DEF Sharing!Phases
  <2>2. QED
    BY <2>1
<1>6. \A t \in Ids : \/ phase'[t] = phase[t]
                     \/ Sharing!DozesOff(t)
                     \/ Sharing!Wakes(t)
                     \/ Sharing!GivenBack(t)
  BY <1>3 DEF Sharing!DozesOff, Sharing!Wakes, Sharing!GivenBack
<1>7. phase'[current_task'] = "ready" \/ current_task' = IdleTask
  BY <1>2, <1>4
<1>8. QED
  BY <1>2, <1>5, <1>6, <1>7 DEF Sharing!PassOn

(* The tasks scheduler_init makes are the ones CpuSharing starts with.      *)
LEMMA InitImplements == Init => Sharing!Init
<1> SUFFICES ASSUME Init PROVE Sharing!Init
  OBVIOUS
<1>1. ASSUME NEW t \in Ids
      PROVE  Phase(t) = IF t \in {MainTask, IdleTask} THEN "ready" ELSE "none"
  BY IdsAreNaturals DEF Init, Phase, Ids, MainTask, IdleTask
<1>2. QED
  BY <1>1 DEF Init, Sharing!Init

(* A step that only ends task t, or ends it again.                         *)
LEMMA EndsOneTask ==
    ASSUME Inv, NEW t \in live \ {MainTask, IdleTask},
           is_terminated' = is_terminated \cup {t},
           UNCHANGED <<live, next_task_id, current_task, is_sleeping>>
    PROVE  Sharing!End(t) \/ UNCHANGED Sharing!vars
<1>1. t \in Ids /\ t < next_task_id /\ next_task_id \in Nat
  BY MaxIdAssumption DEF Inv, TypeOK, OldIds
<1>2. \A u \in Ids : u # t => Phase(u)' = Phase(u)
  BY DEF Phase
<1>3. Phase(t)' = "ended"
  BY <1>1, IdsAreNaturals DEF Phase
<1>4. Phase(t) \in {"ready", "asleep", "ended"}
  BY <1>1, IdsAreNaturals DEF Phase
<1>5. CASE Phase(t) = "ended"
  <2>1. \A u \in Ids : Phase(u)' = Phase(u)
    BY <1>2, <1>3, <1>5
  <2>2. QED
    BY <2>1 DEF Sharing!vars
<1>6. CASE Phase(t) # "ended"
  BY <1>1, <1>2, <1>3, <1>4, <1>6 DEF Sharing!End
<1>7. QED
  BY <1>5, <1>6

(* Every step of the scheduler is a step of CpuSharing or a stutter.        *)
LEMMA NextImplements ==
    ASSUME IdleTask \notin Killable, Inv, Inv', [Next]_vars
    PROVE  [Sharing!Next]_Sharing!vars
<1> USE IdsAreNaturals
<1>0. /\ live \subseteq Ids /\ current_task \in live
      /\ is_sleeping \in SUBSET live
      /\ sleep_ticks \in [Ids -> 0..MaxTicks]
      /\ next_task_id \in Nat
      /\ \A t \in live : t < next_task_id
  BY MaxIdAssumption DEF Inv, TypeOK, CurrentLive, OldIds
<1>1. ASSUME UNCHANGED <<live, next_task_id, current_task, is_sleeping,
                         is_terminated>>
      PROVE  UNCHANGED Sharing!vars
  BY <1>1 DEF Sharing!vars, Phase
<1>2. CASE Tick \/ Yield
  <2>1. TimerHandler(is_sleeping, sleep_ticks)
    BY <1>2 DEF Tick, Yield
  <2>2. QED
    BY <1>0, <2>1, TimerIsPassOn DEF Sharing!Next
<1>3. CASE CreateTask
  <2>1. next_task_id \in Ids /\ next_task_id \notin live
    BY <1>0, <1>3, MaxIdAssumption DEF CreateTask, Ids
  <2>2. \A u \in Ids : u # next_task_id => Phase(u)' = Phase(u)
    BY <1>0, <1>3 DEF CreateTask, Phase
  <2>3. Phase(next_task_id) = "none"
    BY <1>0 DEF Phase
  <2>4. next_task_id \notin is_sleeping \cup is_terminated
    BY <2>1 DEF Inv, TypeOK
  <2>5. \A u \in Ids : u = next_task_id => Phase(u)' = "ready"
    BY <1>0, <1>3, <2>1, <2>4 DEF CreateTask, Phase
  <2>6. Sharing!Create(next_task_id)
    BY <1>3, <2>1, <2>2, <2>3, <2>5 DEF CreateTask, Sharing!Create
  <2>7. QED
    BY <2>1, <2>6 DEF Sharing!Next
<1>4. ASSUME NEW n \in 0..MaxTicks, CommandSleep(n)
      PROVE  Sharing!Next
  <2> DEFINE ticks == [sleep_ticks EXCEPT ![current_task] = SleepTicks(n)]
  <2>1. ticks \in [Ids -> 0..MaxTicks]
    BY <1>0, SleepTicksInRange
  <2>2. TimerHandler(is_sleeping \cup {current_task}, ticks)
    BY <1>4 DEF CommandSleep
  <2> HIDE DEF ticks
  <2>3. QED
    BY <1>0, <2>1, <2>2, TimerIsPassOn DEF Sharing!Next
<1>5. CASE FallAsleep
  <2>1. current_task \in Ids /\ current_task < next_task_id
    BY <1>0
  <2>2. \A u \in Ids : u # current_task => Phase(u)' = Phase(u)
    BY <1>5 DEF FallAsleep, Phase
  <2>3. CASE Phase(current_task) = "ready"
    <3>1. \A u \in Ids : u = current_task => Phase(u)' = "asleep"
      BY <1>0, <1>5, <2>1, <2>3 DEF FallAsleep, Phase
    <3>2. Sharing!Doze
      BY <1>5, <2>1, <2>2, <2>3, <3>1 DEF FallAsleep, Sharing!Doze
    <3>3. QED
      BY <3>2 DEF Sharing!Next
  <2>4. CASE Phase(current_task) # "ready"
    <3>1. \A u \in Ids : u = current_task => Phase(u)' = Phase(u)
      BY <1>0, <1>5, <2>1, <2>4 DEF FallAsleep, Phase
    <3>2. UNCHANGED Sharing!vars
      BY <1>5, <2>2, <3>1 DEF FallAsleep, Sharing!vars
    <3>3. QED
      BY <3>2
  <2>5. QED
    BY <2>3, <2>4
<1>6. CASE ExitTask
  <2>1. current_task \in live \ {MainTask, IdleTask}
    BY <1>0, <1>6 DEF ExitTask
  <2>2. Sharing!End(current_task) \/ UNCHANGED Sharing!vars
    BY <1>6, <2>1, EndsOneTask DEF ExitTask
  <2>3. QED
    BY <1>0, <2>1, <2>2 DEF Sharing!Next
<1>7. ASSUME NEW pid \in Killable, Kill(pid)
      PROVE  Sharing!Next \/ UNCHANGED Sharing!vars
  <2>1. pid \in live \ {MainTask, IdleTask}
    BY <1>7 DEF Kill
  <2>2. Sharing!End(pid) \/ UNCHANGED Sharing!vars
    BY <1>7, <2>1, EndsOneTask DEF Kill
  <2>3. QED
    BY <1>0, <2>1, <2>2 DEF Sharing!Next
<1>8. ASSUME NEW n \in 0..MaxTicks, Sleep(n)
      PROVE  UNCHANGED Sharing!vars
  BY <1>8, <1>1 DEF Sleep
<1>9. CASE Start \/ UNCHANGED vars
  BY <1>9, <1>1 DEF Start, vars
<1>10. QED
  BY <1>2, <1>3, <1>4, <1>5, <1>6, <1>7, <1>8, <1>9 DEF Next

(* The scheduler keeps the promise of CpuSharing for any number of tasks.  *)
THEOREM Implementation ==
    ASSUME IdleTask \notin Killable
    PROVE  SafeSpec => ImplementsCpuSharing
<1>1. Init => Sharing!Init
  BY InitImplements
<1>2. Inv /\ Inv' /\ [Next]_vars => [Sharing!Next]_Sharing!vars
  BY NextImplements
<1>3. QED
  BY <1>1, <1>2, InvHolds, PTL
     DEF SafeSpec, ImplementsCpuSharing, Sharing!Spec

-----------------------------------------------------------------------------
(* The keyboard interrupt on top of the scheduler.                         *)

(* Whatever a handler does around it, a step is one of the scheduler's, or *)
(* none.                                                                   *)
LEMMA StepOfScheduler == [ConsoleNext]_console => [Next]_vars
<1> SUFFICES ASSUME [ConsoleNext]_console PROVE [Next]_vars
  OBVIOUS
<1>1. NewTask => CreateTask \/ UNCHANGED vars
  BY DEF NewTask
<1>2. CASE ConsoleStart \/ TimerInterrupt \/ TaskStep \/ TaskYield \/ ReadKey
  BY <1>2 DEF ConsoleStart, TimerInterrupt, TaskStep, TaskYield, ReadKey, Next
<1>3. CASE Type \/ KeyWithin \/ CommandWaits \/ CommandBeepAtBoot
           \/ BeepEnds \/ Acknowledge
  BY <1>3 DEF Type, KeyWithin, CommandWaits, CommandBeepAtBoot, BeepEnds,
              Acknowledge
<1>4. CASE CommandBeep
  <2>1. MaxTicks \in 0..MaxTicks
    BY MaxTicksAssumption
  <2>2. QED
    BY <1>4, <2>1 DEF CommandBeep, Next
<1>5. CASE CommandOpens \/ SecondTask
  BY <1>1, <1>5 DEF CommandOpens, SecondTask, Next
<1>6. CASE UNCHANGED console
  BY <1>6 DEF console
<1>7. QED
  BY <1>2, <1>3, <1>4, <1>5, <1>6 DEF ConsoleNext

(* The keyboard interrupt leaves the scheduler the scheduler.              *)
THEOREM ConsoleImplementsScheduler == ConsoleSpec => SafeSpec
<1>1. ConsoleInit => Init
  BY DEF ConsoleInit
<1>2. QED
  BY <1>1, StepOfScheduler, PTL DEF ConsoleSpec, SafeSpec

(* What timer_handler promises holds under the keyboard interrupt too: the *)
(* processor is on a live task, a task that has exited is not resumed, one *)
(* that sleeps, be it on top of a handler, is off the processor, and round *)
(* robin passes over nobody.                                               *)
THEOREM ConsoleScheduling ==
    ASSUME IdleTask \notin Killable
    PROVE  ConsoleSpec => /\ [](CurrentLive /\ ExitNeverReturns /\ AsleepOffCpu)
                          /\ NoTaskPassedOver
                          /\ ImplementsCpuSharing
BY ConsoleImplementsScheduler, CurrentTaskIsLive, ExitDoesNotReturn,
   SleepersAreOffTheCpu, RoundRobin, Implementation, PTL

-----------------------------------------------------------------------------
(* The handlers on the tasks' stacks.                                      *)

(* Who is where: what the scheduler has to say for InServiceOwned, also if *)
(* the idle task is killed.                                                *)
TasksOK ==
    /\ live \subseteq Ids
    /\ next_task_id \in Nat \ {0}
    /\ current_task \in Ids

(* timer_handler keeps the ranges of the task list.                        *)
LEMMA TimerKeepsTasks ==
    ASSUME TasksOK, NEW sleeping, NEW ticks, TimerHandler(sleeping, ticks)
    PROVE  TasksOK'
<1>1. live' \subseteq live /\ next_task_id' = next_task_id
  BY DEF TimerHandler
<1>2. Runnable' \in SUBSET Ids /\ current_task \in Ids
  BY <1>1 DEF TasksOK, Runnable
<1>3. NextTask(Runnable', current_task) \in Ids
  BY <1>2, NextTaskRunnable, IdsAreNaturals
<1>4. current_task' \in Ids
  BY <1>2, <1>3 DEF TimerHandler
<1>5. QED
  BY <1>1, <1>4 DEF TasksOK

(* So does every step of the scheduler.                                    *)
LEMMA SchedulerKeepsTasks ==
    ASSUME TasksOK, [Next]_vars
    PROVE  TasksOK'
<1>1. CASE Tick \/ Yield \/ \E n \in 0..MaxTicks : CommandSleep(n)
  BY <1>1, TimerKeepsTasks DEF Tick, Yield, CommandSleep
<1>2. CASE CreateTask
  <2>1. next_task_id \in Ids /\ next_task_id + 1 \in Nat \ {0}
    BY <1>2, MaxIdAssumption DEF TasksOK, CreateTask, Ids
  <2>2. QED
    BY <1>2, <2>1 DEF TasksOK, CreateTask
<1>3. CASE Start \/ FallAsleep \/ ExitTask \/ UNCHANGED vars
  BY <1>3 DEF TasksOK, Start, FallAsleep, ExitTask, vars
<1>4. ASSUME NEW n \in 0..MaxTicks, Sleep(n) PROVE TasksOK'
  BY <1>4 DEF TasksOK, Sleep
<1>5. ASSUME NEW p \in Killable, Kill(p) PROVE TasksOK'
  BY <1>5 DEF TasksOK, Kill
<1>6. QED
  BY <1>1, <1>2, <1>3, <1>4, <1>5 DEF Next

(* The stacks.                                                             *)
StacksOK ==
    /\ in_service \in Ids \cup {None}
    /\ frames \in [Ids -> Seq(HandlerPoints)]
    /\ \A t \in Ids : Len(frames[t]) <= MaxNested

ConsoleInv == TasksOK /\ StacksOK /\ InServiceOwned

(* A handler is left at a point: it has one frame more.                    *)
LEMMA LeavePushes ==
    ASSUME ConsoleInv, Interrupt, NEW point \in HandlerPoints, Leave(point)
    PROVE  /\ frames' \in [Ids -> Seq(HandlerPoints)]
           /\ \A t \in Ids : Len(frames'[t]) <= MaxNested
           /\ frames'[current_task] # <<>>
<1>1. PICK l : l = frames[current_task]
  OBVIOUS
<1>2. /\ frames \in [Ids -> Seq(HandlerPoints)] /\ current_task \in Ids
      /\ \A t \in Ids : Len(frames[t]) <= MaxNested
      /\ l \in Seq(HandlerPoints) /\ Len(l) \in Nat /\ Len(l) < MaxNested
  BY <1>1 DEF ConsoleInv, TasksOK, StacksOK, Interrupt
<1>3. PICK r : r = <<point>> \o l
  OBVIOUS
<1>4. r \in Seq(HandlerPoints) /\ Len(r) = 1 + Len(l)
  <2>1. <<point>> \in Seq(HandlerPoints) /\ Len(<<point>>) = 1
    OBVIOUS
  <2>2. QED
    BY <1>2, <1>3, <2>1, ConcatProperties
<1>5. frames' = [frames EXCEPT ![current_task] = r]
  BY <1>1, <1>3 DEF Leave
<1>6. Len(r) <= MaxNested /\ r # <<>>
  BY <1>2, <1>4, MaxNestedAssumption
<1>7. QED
  BY <1>2, <1>4, <1>5, <1>6

(* A handler returns, or goes on to its acknowledgement.                   *)
LEMMA ReturnPops ==
    ASSUME ConsoleInv, frames[current_task] # <<>>,
           NEW l, l \in {Tail(frames[current_task]),
                         <<"eoi">> \o Tail(frames[current_task])},
           frames' = [frames EXCEPT ![current_task] = l]
    PROVE  /\ frames' \in [Ids -> Seq(HandlerPoints)]
           /\ \A t \in Ids : Len(frames'[t]) <= MaxNested
<1>1. PICK r : r = frames[current_task]
  OBVIOUS
<1>2. /\ frames \in [Ids -> Seq(HandlerPoints)] /\ current_task \in Ids
      /\ \A t \in Ids : Len(frames[t]) <= MaxNested
      /\ r \in Seq(HandlerPoints) /\ r # <<>> /\ Len(r) \in Nat /\ Len(r) <= MaxNested
  BY <1>1 DEF ConsoleInv, TasksOK, StacksOK
<1>3. Tail(r) \in Seq(HandlerPoints) /\ Len(Tail(r)) = Len(r) - 1
      /\ Len(Tail(r)) \in Nat
  BY <1>2, HeadTailProperties
<1>4. l \in Seq(HandlerPoints) /\ Len(l) <= Len(r) /\ Len(l) \in Nat
  <2>1. CASE l = Tail(r)
    <3>1. l \in Seq(HandlerPoints) /\ Len(l) \in Nat /\ Len(l) = Len(r) - 1
      BY <1>3, <2>1
    <3>2. QED
      BY <1>2, <3>1
  <2>2. CASE l = <<"eoi">> \o Tail(r)
    <3>1. <<"eoi">> \in Seq(HandlerPoints) /\ Len(<<"eoi">>) = 1
      BY DEF HandlerPoints
    <3>2. l \in Seq(HandlerPoints) /\ Len(l) = 1 + (Len(r) - 1)
      BY <1>3, <2>2, <3>1, ConcatProperties
    <3>3. QED
      BY <1>2, <3>2
  <2>3. QED
    BY <1>1, <2>1, <2>2
<1>5. Len(l) <= MaxNested
  BY <1>2, <1>4, MaxNestedAssumption
<1>6. QED
  BY <1>2, <1>4, <1>5

(* At boot no handler is on any stack and IRQ1 is not in service.          *)
LEMMA ConsoleBegins == ConsoleInit => ConsoleInv
<1> SUFFICES ASSUME ConsoleInit PROVE ConsoleInv
  OBVIOUS
<1>1. TasksOK
  BY MaxIdAssumption
     DEF ConsoleInit, TasksOK, Init, Ids, MainTask, IdleTask
<1>2. <<>> \in Seq(HandlerPoints) /\ Len(<<>>) <= MaxNested
  BY MaxNestedAssumption
<1>3. StacksOK /\ InServiceOwned
  BY <1>2 DEF ConsoleInit, StacksOK, InServiceOwned
<1>4. QED
  BY <1>1, <1>3 DEF ConsoleInv

(* Ending the service of IRQ1 early, as int 0x20 does, leaves nothing      *)
(* without an owner.                                                       *)
LEMMA StacksStay ==
    ASSUME ConsoleInv, frames' = frames, in_service' \in {None, in_service}
    PROVE  StacksOK' /\ InServiceOwned'
BY DEF ConsoleInv, StacksOK, InServiceOwned

(* Each interrupt, command, and return of a handler keeps the invariant.   *)
LEMMA ConsoleKeeps == ConsoleInv /\ [ConsoleNext]_console => ConsoleInv'
<1> SUFFICES ASSUME ConsoleInv, [ConsoleNext]_console PROVE ConsoleInv'
  OBVIOUS
<1>0. /\ TasksOK /\ StacksOK /\ InServiceOwned /\ current_task \in Ids
      /\ frames \in [Ids -> Seq(HandlerPoints)]
  BY DEF ConsoleInv, TasksOK, StacksOK
<1>1. TasksOK'
  BY <1>0, StepOfScheduler, SchedulerKeepsTasks
<1>2. CASE ConsoleStart \/ TimerInterrupt \/ TaskStep \/ TaskYield \/ ReadKey
  <2>1. frames' = frames /\ in_service' \in {None, in_service}
    BY <1>2, Zenon
       DEF ConsoleStart, TimerInterrupt, TaskStep, TaskYield, ReadKey, EndsAny,
           shell
  <2>2. QED
    BY <1>1, <2>1, StacksStay DEF ConsoleInv
<1>3. CASE Type \/ UNCHANGED console
  <2>1. frames' = frames /\ in_service' \in {None, in_service}
    BY <1>3, Zenon DEF Type, shell, console
  <2>2. QED
    BY <1>1, <2>1, StacksStay DEF ConsoleInv
<1>4. CASE KeyWithin \/ CommandWaits \/ CommandBeepAtBoot
  <2>1. frames' = frames /\ in_service' \in {None, in_service}
    BY <1>4, Zenon DEF KeyWithin, CommandWaits, CommandBeepAtBoot, EndsAny
  <2>2. QED
    BY <1>1, <2>1, StacksStay DEF ConsoleInv
<1>5. CASE CommandBeep
  <2>1. Interrupt /\ Leave("beep") /\ in_service' = None
    BY <1>5, Zenon DEF CommandBeep, EndsAny
  <2>2. "beep" \in HandlerPoints
    BY DEF HandlerPoints
  <2>3. /\ frames' \in [Ids -> Seq(HandlerPoints)]
        /\ \A t \in Ids : Len(frames'[t]) <= MaxNested
    BY <2>1, <2>2, LeavePushes, Zenon
  <2>4. QED
    BY <1>1, <2>1, <2>3 DEF StacksOK, InServiceOwned, ConsoleInv
<1>6. CASE CommandOpens
  <2>1. PICK point \in HandlerPoints : Interrupt /\ Leave(point)
    <3>1. Interrupt /\ (Leave("create") \/ Leave("eoi"))
      BY <1>6, Zenon DEF CommandOpens
    <3>2. "create" \in HandlerPoints /\ "eoi" \in HandlerPoints
      BY DEF HandlerPoints
    <3>3. QED
      BY <3>1, <3>2
  <2>2. in_service' = current_task
    BY <1>6, Zenon DEF CommandOpens
  <2>3. /\ frames' \in [Ids -> Seq(HandlerPoints)]
        /\ \A t \in Ids : Len(frames'[t]) <= MaxNested
        /\ frames'[current_task] # <<>>
    BY <2>1, LeavePushes, Zenon
  <2>4. QED
    BY <1>0, <1>1, <2>2, <2>3 DEF StacksOK, InServiceOwned, ConsoleInv
<1>7. CASE BeepEnds \/ Acknowledge
  <2>1. Handler \in HandlerPoints /\ in_service' = None
        /\ frames' = [frames EXCEPT ![current_task]
                                       = Tail(frames[current_task])]
    BY <1>7, Zenon DEF BeepEnds, Acknowledge, EndsAny, Return, HandlerPoints
  <2>2. frames[current_task] # <<>>
    BY <2>1, NoneAssumption DEF Handler
  <2>3. /\ frames' \in [Ids -> Seq(HandlerPoints)]
        /\ \A t \in Ids : Len(frames'[t]) <= MaxNested
    BY <2>1, <2>2, ReturnPops
  <2>4. QED
    BY <1>1, <2>1, <2>3 DEF StacksOK, InServiceOwned, ConsoleInv
<1>8. CASE SecondTask
  <2>1. Handler \in HandlerPoints /\ in_service' = in_service
        /\ frames' = [frames EXCEPT ![current_task]
                            = <<"eoi">> \o Tail(frames[current_task])]
    BY <1>8, Zenon DEF SecondTask, HandlerPoints
  <2>2. PICK r : r = <<"eoi">> \o Tail(frames[current_task])
    OBVIOUS
  <2>3. frames[current_task] # <<>>
    BY <2>1, NoneAssumption DEF Handler
  <2>4. /\ frames' \in [Ids -> Seq(HandlerPoints)]
        /\ \A t \in Ids : Len(frames'[t]) <= MaxNested
    BY <2>1, <2>3, ReturnPops
  <2>5. r # <<>>
    <3>1. Tail(frames[current_task]) \in Seq(HandlerPoints)
      BY <1>0, <2>3, HeadTailProperties
    <3>2. <<"eoi">> \in Seq(HandlerPoints) /\ Len(<<"eoi">>) = 1
      BY DEF HandlerPoints
    <3>3. Len(r) = 1 + Len(Tail(frames[current_task]))
      BY <2>2, <3>1, <3>2, ConcatProperties
    <3>4. Len(Tail(frames[current_task])) \in Nat
      BY <3>1
    <3>5. Len(r) # 0
      BY <3>3, <3>4
    <3>6. QED
      BY <3>5
  <2>6. frames' = [frames EXCEPT ![current_task] = r]
    BY <2>1, <2>2
  <2>7. in_service # None => frames'[in_service] # <<>>
    <3>1. in_service # None => in_service \in Ids
                               /\ frames[in_service] # <<>>
      BY <1>0 DEF StacksOK, InServiceOwned
    <3>2. QED
      BY <1>0, <2>5, <2>6, <3>1
  <2>8. QED
    BY <1>0, <1>1, <2>1, <2>4, <2>7
       DEF StacksOK, InServiceOwned, ConsoleInv
<1>9. QED
  BY <1>2, <1>3, <1>4, <1>5, <1>6, <1>7, <1>8 DEF ConsoleNext

(* The latches of the keyboard and the speaker.                            *)
Flags == kbd \in BOOLEAN /\ has_char \in BOOLEAN /\ speaker \in BOOLEAN

(* The flags of the keyboard and of the speaker stay Booleans.             *)
LEMMA FlagsNext == Flags /\ [ConsoleNext]_console => Flags'
<1> SUFFICES ASSUME Flags, [ConsoleNext]_console PROVE Flags'
  OBVIOUS
<1> USE DEF Flags
<1>1. TRUE \in BOOLEAN /\ FALSE \in BOOLEAN
  OBVIOUS
<1>2. CASE ConsoleStart \/ TimerInterrupt \/ TaskStep \/ TaskYield \/ UNCHANGED console
  BY <1>2, Zenon DEF ConsoleStart, TimerInterrupt, TaskStep, TaskYield, shell, console
<1>3. CASE ReadKey
  BY <1>1, <1>3, Zenon DEF ReadKey
<1>4. CASE Type
  BY <1>1, <1>4, Zenon DEF Type, shell
<1>5. CASE KeyWithin \/ CommandWaits
  BY <1>1, <1>5, Zenon DEF KeyWithin, CommandWaits, Interrupt
<1>6. CASE CommandBeepAtBoot \/ CommandBeep \/ CommandOpens
  BY <1>1, <1>6, Zenon
     DEF CommandBeepAtBoot, CommandBeep, CommandOpens, Interrupt
<1>7. CASE BeepEnds \/ Acknowledge \/ SecondTask
  BY <1>1, <1>7, Zenon DEF BeepEnds, Acknowledge, SecondTask
<1>8. QED
  BY <1>2, <1>3, <1>4, <1>5, <1>6, <1>7 DEF ConsoleNext

(* IRQ1 is in service only while a handler that will acknowledge it is on  *)
(* some task's stack, whichever handlers nest, yield and are killed.       *)
THEOREM ConsoleInServiceOwned == ConsoleSpec => []InServiceOwned
<1>1. ConsoleInv => InServiceOwned
  BY DEF ConsoleInv
<1>2. QED
  BY <1>1, ConsoleBegins, ConsoleKeeps, PTL DEF ConsoleSpec

(* No stack holds more handlers than the bound, and the scheduler's fields *)
(* keep their types.                                                       *)
THEOREM ConsoleTypes ==
    ASSUME IdleTask \notin Killable
    PROVE  ConsoleSpec => []ConsoleTypeOK
<1>1. Inv /\ ConsoleInv /\ Flags => ConsoleTypeOK
  BY DEF Inv, ConsoleInv, StacksOK, Flags, ConsoleTypeOK
<1>2. ConsoleInit => Flags
  BY DEF ConsoleInit, Flags
<1>3. QED
  BY <1>1, <1>2, ConsoleBegins, ConsoleKeeps, FlagsNext, InvHolds,
     ConsoleImplementsScheduler, PTL DEF ConsoleSpec
=============================================================================
