------------------------------ MODULE Scheduler ------------------------------
(***************************************************************************)
(* The round-robin scheduler of src/kernel/scheduler.cpp on one processor. *)
(*                                                                         *)
(* next_task_id only grows and a task is appended to the tail of the task  *)
(* list in the same cli section that hands out its id, so the list is      *)
(* always in the order of the ids: the set live stands for it (module      *)
(* TaskList keeps the pointers and implements this module).  Every gate of *)
(* the IDT is an interrupt gate, so a handler, like a cli section, is one  *)
(* step; a kernel task is preempted between any two steps.  The keyboard   *)
(* handler executes shell commands on top of whatever task it interrupts,  *)
(* so any task, at any point of its own code, may create, kill and sleep.  *)
(*                                                                         *)
(* Left out: the fields no branch of the scheduler reads (name, fds,       *)
(* parent_pid, exit_code, state: ps and process_wait, which nothing calls, *)
(* read the last two), the contents of stacks, and the uptime counter.     *)
(***************************************************************************)
EXTENDS Integers

CONSTANTS
    MaxId,      \* bound: the ids next_task_id hands out are 1..MaxId
    MaxTicks,   \* bound: the longest sleep, in ticks of 10 ms
    Killable    \* the ids the shell's kill command is given

Ids == 1..MaxId
MainTask == 1       \* main_kernel_task, the context of kmain
IdleTask == 2       \* idle_task, created by scheduler_init

ASSUME MaxIdAssumption == MaxId \in Nat /\ MaxId >= IdleTask
ASSUME MaxTicksAssumption == MaxTicks \in Nat \ {0}
ASSUME KillableAssumption == Killable \subseteq Ids

VARIABLES
    live,               \* the tasks of the task list
    next_task_id,
    current_task,
    scheduler_active,
    is_sleeping,        \* the tasks whose is_sleeping flag is set
    sleep_ticks,        \* the sleep_ticks field of each task
    is_terminated,      \* the tasks whose is_terminated flag is set
    pc                  \* where the code of each task stands

vars == <<live, next_task_id, current_task, scheduler_active, is_sleeping,
          sleep_ticks, is_terminated, pc>>

(***************************************************************************)
(* "run" is any code outside the calls below.  "timed" and "dozing" are    *)
(* the points of scheduler_sleep after sleep_ticks and after is_sleeping   *)
(* is written; "leaving" is the point of scheduler_exit_task before its    *)
(* yield and "spin" the while (1) behind it.                               *)
(***************************************************************************)
Points == {"run", "timed", "dozing", "leaving", "spin"}

(* Mutant: sleepers are runnable.                                          *)
RunnableOrAsleep == live \ is_terminated

Runnable == live \ (is_sleeping \cup is_terminated)

TypeOK ==
    /\ live \subseteq Ids
    /\ next_task_id \in 3..(MaxId + 1)
    /\ current_task \in Ids
    /\ scheduler_active \in BOOLEAN
    /\ is_sleeping \subseteq live
    /\ sleep_ticks \in [Ids -> 0..MaxTicks]
    /\ is_terminated \subseteq live
    /\ pc \in [Ids -> Points]

-----------------------------------------------------------------------------
(* scheduler_init has made the main task and the idle task; interrupts are *)
(* enabled by kmain before it calls scheduler_start.                       *)
Init ==
    /\ live = {MainTask, IdleTask}
    /\ next_task_id = 3
    /\ current_task = MainTask
    /\ scheduler_active = FALSE
    /\ is_sleeping = {}
    /\ sleep_ticks = [t \in Ids |-> 0]
    /\ is_terminated = {}
    /\ pc = [t \in Ids |-> "run"]

Start ==
    /\ ~scheduler_active
    /\ current_task = MainTask
    /\ pc[MainTask] = "run"
    /\ scheduler_active' = TRUE
    /\ UNCHANGED <<live, next_task_id, current_task, is_sleeping, sleep_ticks,
                   is_terminated, pc>>

-----------------------------------------------------------------------------
(* The timer interrupt.                                                    *)

Least(S) == CHOOSE x \in S : \A y \in S : x <= y

(* Mutant: without another runnable task the current one goes on.          *)
NextTaskOrCurrent(runnable, current) ==
    LET behind == {t \in runnable : t > current}
        before == {t \in runnable : t < current}
    IN  CASE behind # {} -> Least(behind)
          [] behind = {} /\ before # {} -> Least(before)
          [] OTHER -> current

(* Mutant: the search starts at the head of the list.                      *)
NextTaskFromHead(runnable, current) ==
    IF runnable \ {current} # {} THEN Least(runnable \ {current}) ELSE IdleTask

(* get_next_task: the first runnable task behind the current one, from the *)
(* head of the list when there is none up to its tail, then the current    *)
(* task itself, then the idle task, whatever its flags.                    *)
NextTask(runnable, current) ==
    LET behind == {t \in runnable : t > current}
        before == {t \in runnable : t < current}
    IN  CASE behind # {} -> Least(behind)
          [] behind = {} /\ before # {} -> Least(before)
          [] behind = {} /\ before = {} /\ current \in runnable -> current
          [] OTHER -> IdleTask

(* Mutants: the reaper does not spare the current task; it does not reach  *)
(* the tail.                                                               *)
ReapedWithCurrent == is_terminated

ReapedButTail ==
    {t \in is_terminated \ {current_task} : \E u \in live : u > t}

Reaped == is_terminated \ {current_task}

(* Mutant: the countdown does not reach the tail.                          *)
ExpiredButTail(sleeping, ticks) ==
    {t \in sleeping : ticks[t] <= 1 /\ \E u \in live : u > t}

Expired(sleeping, ticks) == {t \in sleeping : ticks[t] <= 1}

(* timer_handler, entered with the given sleepers and their ticks: the     *)
(* countdown, the reaper, and the switch to another task.                  *)
TimerHandler(sleeping, ticks) ==
    /\ sleep_ticks' = [t \in Ids |-> IF t \in sleeping /\ ticks[t] > 0
                                     THEN ticks[t] - 1
                                     ELSE ticks[t]]
    /\ is_sleeping' = sleeping \ (Expired(sleeping, ticks) \cup Reaped)
    /\ live' = live \ Reaped
    /\ is_terminated' = is_terminated \ Reaped
    /\ current_task' = IF scheduler_active
                       THEN NextTask(Runnable', current_task)
                       ELSE current_task
    /\ UNCHANGED <<next_task_id, scheduler_active>>

(* IRQ0: the current task is interrupted where it stands.                  *)
Tick == TimerHandler(is_sleeping, sleep_ticks) /\ UNCHANGED pc

(* scheduler_yield: int 0x20 runs the same handler; the code behind the    *)
(* int is where the task stands when it is resumed.                        *)
AfterYield(point) ==
    CASE point = "dozing" -> "run"
      [] point = "leaving" -> "spin"
      [] OTHER -> point

Yield ==
    /\ pc[current_task] \in {"run", "dozing", "leaving"}
    /\ TimerHandler(is_sleeping, sleep_ticks)
    /\ pc' = [pc EXCEPT ![current_task] = AfterYield(@)]

-----------------------------------------------------------------------------
(* Calls of the current task.                                              *)

Goto(point) == pc' = [pc EXCEPT ![current_task] = point]

CreateTask ==
    /\ next_task_id <= MaxId
    /\ live' = live \cup {next_task_id}
    /\ next_task_id' = next_task_id + 1
    /\ UNCHANGED <<current_task, scheduler_active, is_sleeping, sleep_ticks,
                   is_terminated, pc>>

(* Mutant: n - 1 without the clamp.                                        *)
SleepTicksOffByOne(n) == n - 1

(* n is ms / 10; a sleep below one tick becomes one tick.                  *)
SleepTicks(n) == IF n = 0 THEN 1 ELSE n

(* scheduler_sleep called by a created task, up to the write of            *)
(* sleep_ticks; kmain and the idle loop do not call it.                    *)
Sleep(n) ==
    /\ scheduler_active
    /\ current_task \notin {MainTask, IdleTask}
    /\ pc[current_task] = "run"
    /\ sleep_ticks' = [sleep_ticks EXCEPT ![current_task] = SleepTicks(n)]
    /\ Goto("timed")
    /\ UNCHANGED <<live, next_task_id, current_task, scheduler_active,
                   is_sleeping, is_terminated>>

FallAsleep ==
    /\ pc[current_task] = "timed"
    /\ is_sleeping' = is_sleeping \cup {current_task}
    /\ Goto("dozing")
    /\ UNCHANGED <<live, next_task_id, current_task, scheduler_active,
                   sleep_ticks, is_terminated>>

(* scheduler_sleep called by a shell command (beep, mouse): the keyboard   *)
(* handler runs with interrupts disabled, so nothing comes between the     *)
(* writes and the yield, and the interrupted code resumes where it stood.  *)
CommandSleep(n) ==
    /\ scheduler_active
    /\ TimerHandler(is_sleeping \cup {current_task},
                    [sleep_ticks EXCEPT ![current_task] = SleepTicks(n)])
    /\ UNCHANGED pc

(* Mutant: the idle loop may return.                                       *)
ExitAnyTask ==
    /\ current_task # MainTask
    /\ pc[current_task] = "run"
    /\ is_terminated' = is_terminated \cup {current_task}
    /\ Goto("leaving")
    /\ UNCHANGED <<live, next_task_id, current_task, scheduler_active,
                   is_sleeping, sleep_ticks>>

(* scheduler_exit_task: a created task calls SYS_EXIT or returns from its  *)
(* entry point.  kmain and the idle loop never return.                     *)
ExitTask ==
    /\ current_task \notin {MainTask, IdleTask}
    /\ pc[current_task] = "run"
    /\ is_terminated' = is_terminated \cup {current_task}
    /\ Goto("leaving")
    /\ UNCHANGED <<live, next_task_id, current_task, scheduler_active,
                   is_sleeping, sleep_ticks>>

(* process_kill, called by the shell on top of whatever current_task does. *)
Kill(pid) ==
    /\ pid \in live \ {MainTask}
    /\ is_terminated' = is_terminated \cup {pid}
    /\ UNCHANGED <<live, next_task_id, current_task, scheduler_active,
                   is_sleeping, sleep_ticks, pc>>

Next ==
    \/ Start
    \/ Tick
    \/ Yield
    \/ CreateTask
    \/ \E n \in 0..MaxTicks : Sleep(n)
    \/ FallAsleep
    \/ \E n \in 0..MaxTicks : CommandSleep(n)
    \/ ExitTask
    \/ \E pid \in Killable : Kill(pid)

(* kmain runs on to scheduler_start, and the PIT interrupts 100 times a    *)
(* second whatever the tasks do.                                           *)
Fairness == WF_vars(Start) /\ WF_vars(Tick)

SafeSpec == Init /\ [][Next]_vars

Spec == SafeSpec /\ Fairness
-----------------------------------------------------------------------------
(* Properties.                                                             *)

(* The memory of the task the processor runs on is not freed: the reaper   *)
(* in timer_handler never deletes the stack it will return to.  Holds as   *)
(* long as nobody kills the idle task, which process_kill does not spare.  *)
CurrentLive == current_task \in live

(* The while (1) behind the yield of scheduler_exit_task is never run: a   *)
(* task that has marked itself terminated is not resumed, neither by the   *)
(* fallbacks of get_next_task nor before the reaper comes.                 *)
ExitNeverReturns == pc[current_task] # "spin"

(* A task does not run on past its own scheduler_sleep while is_sleeping   *)
(* is set.  The idle task is excepted: get_next_task returns it whatever   *)
(* its flags, so a command that sleeps in its context may return at once.  *)
AsleepOffCpu ==
    current_task \in is_sleeping \ {IdleTask} => pc[current_task] = "dozing"

(* Only the timer's interrupt counts down the sleepers: a step a task      *)
(* takes by itself does not shorten anybody's sleep.                       *)
SleepCountsTicks ==
    [][pc' # pc => \A t \in Ids : sleep_ticks'[t] >= sleep_ticks[t]]_vars

(* Round robin: going round the list from the task that loses the          *)
(* processor to the one that gets it, get_next_task passes over no task    *)
(* that was and is runnable.                                               *)
PassedOver(t, from, to) ==
    IF from < to THEN from < t /\ t < to ELSE from < t \/ t < to

NoTaskPassedOver ==
    [][current_task' # current_task =>
         \A t \in Runnable \cap Runnable' :
            ~PassedOver(t, current_task, current_task')]_vars

(* A runnable task gets the processor, or stops being runnable.            *)
RunnableRuns ==
    \A t \in Ids : t \in Runnable ~> (t = current_task \/ t \notin Runnable)

(* The countdown of timer_handler wakes every sleeper.  The idle task is   *)
(* excepted: as it runs on while it sleeps, the next command that sleeps   *)
(* in its context may start the countdown afresh each time.                *)
SleeperWakes ==
    \A t \in Ids \ {IdleTask} : t \in is_sleeping ~> t \notin is_sleeping

(* A task that exited or was killed is reaped, so its stacks are freed.    *)
TerminatedReaped == \A t \in Ids : t \in is_terminated ~> t \notin live

(* The scheduler keeps the promise of CpuSharing.                          *)
Phase(t) ==
    CASE t >= next_task_id -> "none"
      [] t < next_task_id /\ t \notin live -> "gone"
      [] t \in live /\ t \in is_terminated -> "ended"
      [] t \in live \ is_terminated /\ t \in is_sleeping -> "asleep"
      [] OTHER -> "ready"

Sharing == INSTANCE CpuSharing WITH
    Tasks <- Ids, Main <- MainTask, Idle <- IdleTask,
    phase <- [t \in Ids |-> Phase(t)], cpu <- current_task

ImplementsCpuSharing == Sharing!Spec
=============================================================================
