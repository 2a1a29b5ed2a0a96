------------------------------ MODULE CpuSharing ------------------------------
(***************************************************************************)
(* What a scheduler with one processor promises: the life of a task and    *)
(* who may hold the processor, without lists, ticks or program points.     *)
(***************************************************************************)

CONSTANTS
    Tasks,      \* the tasks there may ever be
    Main,       \* the task that runs first and never ends
    Idle        \* the task that runs when no other can

Phases == {"none", "ready", "asleep", "ended", "gone"}

VARIABLES
    phase,      \* where each task is in its life, a member of Phases
    cpu         \* the task that holds the processor

vars == <<phase, cpu>>

Init ==
    /\ phase = [t \in Tasks |-> IF t \in {Main, Idle} THEN "ready" ELSE "none"]
    /\ cpu = Main

Create(t) ==
    /\ phase[t] = "none"
    /\ phase' = [phase EXCEPT ![t] = "ready"]
    /\ UNCHANGED cpu

(* Only the task that runs goes to sleep.                                  *)
Doze ==
    /\ phase[cpu] = "ready"
    /\ phase' = [phase EXCEPT ![cpu] = "asleep"]
    /\ UNCHANGED cpu

(* A task ends at any time, by itself or by the hand of another, but the   *)
(* main task and the idle task never do.                                   *)
End(t) ==
    /\ t \notin {Main, Idle}
    /\ phase[t] \in {"ready", "asleep"}
    /\ phase' = [phase EXCEPT ![t] = "ended"]
    /\ UNCHANGED cpu

(* The processor is passed on: its holder may doze off, sleepers may wake, *)
(* the memory of ended tasks may be given back, but never that of the task *)
(* that is running, and the next holder is ready, or the idle task.        *)
DozesOff(t) == phase[t] = "ready" /\ phase'[t] = "asleep" /\ t = cpu
Wakes(t) == phase[t] = "asleep" /\ phase'[t] = "ready"
GivenBack(t) == phase[t] = "ended" /\ phase'[t] = "gone" /\ t # cpu

PassOn ==
    /\ phase' \in [Tasks -> Phases]
    /\ \A t \in Tasks : phase'[t] = phase[t] \/ DozesOff(t) \/ Wakes(t)
                                        \/ GivenBack(t)
    /\ cpu' \in Tasks
    /\ phase'[cpu'] = "ready" \/ cpu' = Idle

Next ==
    \/ \E t \in Tasks : Create(t) \/ End(t)
    \/ Doze
    \/ PassOn

Spec == Init /\ [][Next]_vars
=============================================================================
