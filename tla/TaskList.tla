------------------------------ MODULE TaskList ------------------------------
(***************************************************************************)
(* The task list of src/kernel/scheduler.cpp with its pointers: the tail   *)
(* insertion of scheduler_create_task, the walk that wakes, the walk that  *)
(* unlinks and deletes, and the walk of get_next_task.  It implements      *)
(* Scheduler with live the tasks that the chain from the head reaches; the *)
(* actions that leave the list alone are those of Scheduler.               *)
(***************************************************************************)
EXTENDS Integers

CONSTANTS MaxId, MaxTicks, Killable     \* as in Scheduler

Null == 0
Ids == 1..MaxId

ASSUME MaxIdAssumption == MaxId \in Nat /\ MaxId >= 2
ASSUME MaxTicksAssumption == MaxTicks \in Nat \ {0}
ASSUME KillableAssumption == Killable \subseteq Ids

VARIABLES
    task_list_head,
    task_list_tail,
    next,               \* the next field of each task
    next_task_id, current_task, scheduler_active, is_sleeping, sleep_ticks,
    is_terminated, pc   \* as in Scheduler

list == <<task_list_head, task_list_tail, next>>
vars == <<list, next_task_id, current_task, scheduler_active, is_sleeping,
          sleep_ticks, is_terminated, pc>>

(* Where a walk along the next pointers stands after k tasks.  A list has  *)
(* at most MaxId tasks, so this loop and those below end within MaxId      *)
(* turns.                                                                  *)
Walk ==
    LET at[k \in 0..MaxId] ==
            IF k = 0 THEN task_list_head
                     ELSE LET t == at[k - 1]
                          IN  IF t = Null THEN Null ELSE next[t]
    IN  at

Chain == {Walk[k] : k \in 0..MaxId} \ {Null}

Sched == INSTANCE Scheduler WITH live <- Chain

Init ==
    /\ task_list_head = Sched!MainTask
    /\ task_list_tail = Sched!IdleTask
    /\ next = [t \in Ids |-> IF t = Sched!MainTask THEN Sched!IdleTask
                                                   ELSE Null]
    /\ Sched!Init

-----------------------------------------------------------------------------
(* Mutant: task_list_tail stays.                                           *)
AppendWithoutTail(t) ==
    /\ next' = [next EXCEPT ![task_list_tail] = t]
    /\ UNCHANGED <<task_list_head, task_list_tail>>

(* scheduler_create_task: the new task goes behind the tail.               *)
AppendTask(t) ==
    IF task_list_tail # Null
    THEN /\ next' = [next EXCEPT ![task_list_tail] = t]
         /\ task_list_tail' = t
         /\ UNCHANGED task_list_head
    ELSE /\ task_list_head' = t
         /\ task_list_tail' = t
         /\ UNCHANGED next

CreateTask ==
    /\ next_task_id <= MaxId
    /\ AppendTask(next_task_id)
    /\ next_task_id' = next_task_id + 1
    /\ UNCHANGED <<current_task, scheduler_active, is_sleeping, sleep_ticks,
                   is_terminated, pc>>

-----------------------------------------------------------------------------
(* Mutant: task_list_tail stays.                                           *)
UnlinkKeepingTail(l, t, prev) ==
    [head |-> IF prev = Null THEN l.next[t] ELSE l.head,
     tail |-> l.tail,
     next |-> [u \in Ids |-> CASE u = prev -> l.next[t]
                               [] u = t -> Null
                               [] OTHER -> l.next[u]]]

(* The list l while the reaper walks it, and the list once t, which        *)
(* follows prev, is unlinked and deleted.                                  *)
Unlink(l, t, prev) ==
    [head |-> IF prev = Null THEN l.next[t] ELSE l.head,
     tail |-> IF t = l.tail THEN prev ELSE l.tail,
     next |-> [u \in Ids |-> CASE u = prev -> l.next[t]
                               [] u = t -> Null
                               [] OTHER -> l.next[u]]]

(* One turn of the reaper's loop, which ends when t is null: the list, the *)
(* task t it has come to, and prev.                                        *)
ReapTurn(at) ==
    LET l == at.list
        t == at.task
    IN  CASE t = Null -> at
          [] t # Null /\ t \in is_terminated \ {current_task} ->
                [list |-> Unlink(l, t, at.prev), task |-> l.next[t],
                 prev |-> at.prev]
          [] OTHER -> [list |-> l, task |-> l.next[t], prev |-> t]

ReapTurns(l) ==
    LET turn[k \in 0..MaxId] ==
            IF k = 0 THEN [list |-> l, task |-> l.head, prev |-> Null]
                     ELSE ReapTurn(turn[k - 1])
    IN  turn

Reap(l) == ReapTurns(l)[MaxId].list

(* The loop of get_next_task on the list the reaper leaves; asleep are the *)
(* tasks whose is_sleeping flag is then set.                               *)
Following(l, t) == IF l.next[t] = Null THEN l.head ELSE l.next[t]

SearchTurn(l, t, asleep) ==
    IF t = current_task \/ t \notin asleep \cup is_terminated
    THEN t
    ELSE Following(l, t)

SearchTurns(l, asleep) ==
    LET turn[k \in 0..MaxId] ==
            IF k = 0 THEN Following(l, current_task)
                     ELSE SearchTurn(l, turn[k - 1], asleep)
    IN  turn

FirstRunnable(l, asleep) ==
    LET t == SearchTurns(l, asleep)[MaxId]
    IN  IF t \notin asleep \cup is_terminated THEN t ELSE Sched!IdleTask

TimerHandler(sleeping, ticks) ==
    LET counted == [t \in Ids |-> IF t \in Chain \cap sleeping /\ ticks[t] > 0
                                  THEN ticks[t] - 1
                                  ELSE ticks[t]]
        asleep == {t \in sleeping : t \in Chain => counted[t] > 0}
        l == Reap([head |-> task_list_head, tail |-> task_list_tail,
                   next |-> next])
        dead == {t \in is_terminated : t \in Chain /\ t # current_task}
    IN  /\ sleep_ticks' = counted
        /\ is_sleeping' = asleep \ dead
        /\ is_terminated' = is_terminated \ dead
        /\ task_list_head' = l.head
        /\ task_list_tail' = l.tail
        /\ next' = l.next
        /\ current_task' = IF scheduler_active
                           THEN FirstRunnable(l, asleep)
                           ELSE current_task
        /\ UNCHANGED <<next_task_id, scheduler_active>>

Tick == TimerHandler(is_sleeping, sleep_ticks) /\ UNCHANGED pc

Yield ==
    /\ pc[current_task] \in {"run", "dozing", "leaving"}
    /\ TimerHandler(is_sleeping, sleep_ticks)
    /\ pc' = [pc EXCEPT ![current_task] = Sched!AfterYield(@)]

CommandSleep(n) ==
    /\ scheduler_active
    /\ TimerHandler(is_sleeping \cup {current_task},
                    [sleep_ticks EXCEPT
                        ![current_task] = Sched!SleepTicks(n)])
    /\ UNCHANGED pc

(* process_kill walks the list up to the task with that id.                *)
Kill(pid) == UNCHANGED list /\ Sched!Kill(pid)

Next ==
    \/ UNCHANGED list /\ Sched!Start
    \/ Tick
    \/ Yield
    \/ CreateTask
    \/ \E n \in 0..MaxTicks : UNCHANGED list /\ Sched!Sleep(n)
    \/ UNCHANGED list /\ Sched!FallAsleep
    \/ \E n \in 0..MaxTicks : CommandSleep(n)
    \/ UNCHANGED list /\ Sched!ExitTask
    \/ \E pid \in Killable : Kill(pid)

Spec == Init /\ [][Next]_vars

-----------------------------------------------------------------------------
(* Properties.                                                             *)

TypeOK ==
    /\ task_list_head \in Ids \cup {Null}
    /\ task_list_tail \in Ids \cup {Null}
    /\ next \in [Ids -> Ids \cup {Null}]

(* The tail pointer is the last task of the chain from the head, whichever *)
(* tasks of the list were unlinked: the next task created is not appended  *)
(* to a deleted one, and no deleted task can be reached.  And the list     *)
(* stays in the order of the ids, which is why Scheduler may take it as a  *)
(* set: round robin goes by age.                                           *)
ListOK ==
    /\ TypeOK
    /\ task_list_tail \in Chain
    /\ \A t \in Chain : /\ next[t] = Null <=> t = task_list_tail
                        /\ next[t] # Null => next[t] > t

(* The pointer walks do what Scheduler says of the set of tasks.           *)
ImplementsScheduler == Sched!SafeSpec
=============================================================================
