-------------------------------- MODULE Console --------------------------------
(***************************************************************************)
(* The keyboard interrupt on top of Scheduler: the PS/2 keyboard, IRQ1 and *)
(* its in-service bit in the PIC, keyboard_handler, and the commands of    *)
(* the shell that let others run before the handler has ended.             *)
(*                                                                         *)
(* The handler runs with interrupts disabled and acknowledges IRQ1 at its  *)
(* end.  A command that creates or kills a task enables interrupts for the *)
(* rest of the handler; one that sleeps gives the processor away through   *)
(* int 0x20, whose handler sends an end of interrupt that no timer         *)
(* interrupt asked for, which then ends IRQ1.  In both cases the handler's *)
(* frame stays on the stack of the task it has interrupted.                *)
(*                                                                         *)
(* The shell's line is left out: any key may end a line with any command.  *)
(***************************************************************************)
EXTENDS Scheduler, Sequences

CONSTANTS
    MaxNested,                  \* bound: the handlers on one stack
    None

ASSUME MaxNestedAssumption == MaxNested \in Nat \ {0}

VARIABLES
    kbd,            \* the keyboard has a key to be read
    in_service,     \* the task whose interruption by IRQ1 the PIC has not
                    \* seen the end of, or None
    has_char,       \* a key has not been read by keyboard_get_key
    frames,         \* what each task's stack holds of unfinished handlers
    speaker         \* sounds

shell == <<has_char, frames, speaker>>
console == <<vars, kbd, in_service, shell>>

Created == Ids \ {MainTask, IdleTask}

(* The points at which a handler can be left: in the sleep of beep, and,   *)
(* with interrupts enabled, before a second task is created and before the *)
(* acknowledgement.                                                        *)
HandlerPoints == {"beep", "create", "eoi"}

ASSUME NoneAssumption == None \notin Ids /\ None \notin HandlerPoints

(* The handler the processor is in, or None in a task's own code.          *)
Handler == IF frames[current_task] = <<>> THEN None ELSE Head(frames[current_task])

InterruptsOn == Handler # "beep"

ConsoleInit ==
    /\ Init
    /\ kbd = FALSE /\ in_service = None /\ has_char = FALSE
    /\ frames = [t \in Ids |-> <<>>]
    /\ speaker = FALSE

-----------------------------------------------------------------------------
(* The timer and the tasks' own code.                                      *)

(* An int 0x20 comes with no interrupt of the timer in service: the end of *)
(* interrupt that timer_handler sends ends IRQ1.                           *)
EndsAny == in_service' = None

(* IRQ0: what its handler ends is itself.                                  *)
TimerInterrupt ==
    /\ InterruptsOn
    /\ Tick
    /\ UNCHANGED <<kbd, in_service, shell>>

ConsoleStart == Handler = None /\ Start /\ UNCHANGED <<kbd, in_service, shell>>

TaskStep ==
    /\ Handler = None /\ current_task \in Created
    /\ \/ \E n \in 0..MaxTicks : Sleep(n)
       \/ FallAsleep
       \/ ExitTask
    /\ UNCHANGED <<kbd, in_service, shell>>

(* scheduler_yield, at the end of scheduler_sleep and in a task's code.    *)
TaskYield ==
    /\ Handler = None /\ current_task \in Created
    /\ Yield
    /\ EndsAny
    /\ UNCHANGED <<kbd, shell>>

(* SYS_READ_KEY, one round of its loop: the system call, too, has          *)
(* interrupts disabled between the test of has_char and the yield.         *)
ReadKey ==
    /\ Handler = None /\ current_task \in Created
    /\ pc[current_task] = "run"
    /\ IF has_char
       THEN has_char' = FALSE /\ UNCHANGED <<vars, in_service>>
       ELSE Tick /\ EndsAny /\ UNCHANGED has_char
    /\ UNCHANGED <<kbd, frames, speaker>>

-----------------------------------------------------------------------------
(* The keyboard interrupt.                                                 *)

(* Somebody types; the keyboard keeps one key until it is read.            *)
Type ==
    /\ ~kbd
    /\ kbd' = TRUE
    /\ UNCHANGED <<vars, in_service, shell>>

(* IRQ1 comes in any task, and in an unfinished handler with interrupts    *)
(* enabled.                                                                *)
Interrupt ==
    /\ kbd
    /\ in_service = None
    /\ InterruptsOn
    /\ Len(frames[current_task]) < MaxNested
    /\ kbd' = FALSE

(* A key that ends no line, or one with an empty line or a command that    *)
(* does not leave the handler: IRQ1 is in service and out again.  The      *)
(* release of a key and a key without a character leave has_char alone.    *)
KeyWithin ==
    /\ Interrupt
    /\ has_char' \in {TRUE, has_char}
    /\ EndsAny
    /\ UNCHANGED <<vars, frames, speaker>>

Leave(point) == frames' = [frames EXCEPT ![current_task] = <<point>> \o @]

(* The waits of mouse and guitest for a key: the Enter that has begun the  *)
(* command has just set has_char, so they take that key and do not wait.   *)
CommandWaits ==
    /\ Interrupt
    /\ has_char' = FALSE
    /\ EndsAny
    /\ UNCHANGED <<vars, frames, speaker>>

(* beep: the speaker is on, and the task that was interrupted sleeps; the  *)
(* int 0x20 of the yield ends IRQ1.                                        *)
CommandBeep ==
    /\ Interrupt
    /\ scheduler_active
    /\ has_char' = TRUE /\ speaker' = TRUE
    /\ Leave("beep")
    /\ CommandSleep(MaxTicks)
    /\ EndsAny

(* scheduler_sleep returns at once before scheduler_start: the sound ends. *)
CommandBeepAtBoot ==
    /\ Interrupt
    /\ ~scheduler_active
    /\ has_char' = TRUE /\ speaker' = FALSE
    /\ EndsAny
    /\ UNCHANGED <<vars, frames>>

(* Past the bound of the ids no task is created.                           *)
NewTask == IF next_task_id <= MaxId THEN CreateTask ELSE UNCHANGED vars

(* tasktest and ipctest create two tasks, syscalltest, usertest, run and   *)
(* exec one; kill ends one, if there is one of that id.  All enable        *)
(* interrupts while IRQ1 is in service.                                    *)
CommandOpens ==
    /\ Interrupt
    /\ \/ NewTask /\ (Leave("create") \/ Leave("eoi"))
       \/ (\E pid \in Killable : Kill(pid)) /\ Leave("eoi")
       \/ UNCHANGED vars /\ Leave("eoi")
    /\ has_char' = TRUE
    /\ in_service' = current_task
    /\ UNCHANGED speaker

-----------------------------------------------------------------------------
(* The rest of a handler, when the task it is on has the processor.        *)

Return == frames' = [frames EXCEPT ![current_task] = Tail(@)]

(* Mutant of BeepEnds: the speaker is left on.                             *)
BeepEndsSounding ==
    /\ Handler = "beep"
    /\ Return /\ EndsAny
    /\ UNCHANGED <<vars, kbd, has_char, speaker>>

(* beep is resumed: the sound and the handler end, uninterrupted.          *)
BeepEnds ==
    /\ Handler = "beep"
    /\ speaker' = FALSE
    /\ Return /\ EndsAny
    /\ UNCHANGED <<vars, kbd, has_char>>

(* The second task of tasktest.                                            *)
SecondTask ==
    /\ Handler = "create"
    /\ NewTask
    /\ frames' = [frames EXCEPT ![current_task] = <<"eoi">> \o Tail(@)]
    /\ UNCHANGED <<kbd, in_service, has_char, speaker>>

(* Mutant of Acknowledge: the handler returns without it.                  *)
ReturnOnly ==
    /\ Handler = "eoi"
    /\ Return
    /\ UNCHANGED <<vars, kbd, in_service, has_char, speaker>>

(* The prompt, PIC_sendEOI(1) and the return of the handler.               *)
Acknowledge ==
    /\ Handler = "eoi"
    /\ Return /\ EndsAny
    /\ UNCHANGED <<vars, kbd, has_char, speaker>>

HandlerStep(t) ==
    current_task = t /\ (BeepEnds \/ SecondTask \/ Acknowledge)

KeyboardInterrupt ==
    KeyWithin \/ CommandWaits \/ CommandBeep \/ CommandBeepAtBoot \/ CommandOpens

ConsoleNext ==
    \/ ConsoleStart \/ TimerInterrupt
    \/ TaskStep \/ TaskYield \/ ReadKey \/ Type
    \/ KeyWithin \/ CommandWaits \/ CommandBeep \/ CommandBeepAtBoot
    \/ CommandOpens
    \/ BeepEnds \/ SecondTask \/ Acknowledge

(* As in Scheduler; a handler needs far less than the 10 ms a task has     *)
(* until the next tick; an interrupt stays pending until it is taken.      *)
ConsoleFairness ==
    /\ WF_console(ConsoleStart) /\ WF_console(TimerInterrupt)
    /\ \A t \in Ids : SF_console(HandlerStep(t))
    /\ SF_console(KeyboardInterrupt)

ConsoleSpec == ConsoleInit /\ [][ConsoleNext]_console /\ ConsoleFairness

-----------------------------------------------------------------------------
(* Properties.                                                             *)

ConsoleTypeOK ==
    /\ TypeOK
    /\ in_service \in Ids \cup {None}
    /\ kbd \in BOOLEAN /\ has_char \in BOOLEAN /\ speaker \in BOOLEAN
    /\ frames \in [Ids -> Seq(HandlerPoints)]
    /\ \A t \in Ids : Len(frames[t]) <= MaxNested

(* A handler that will acknowledge IRQ1 is under way as long as IRQ1 is in *)
(* service, be it on the stack of a task that was killed: no order in      *)
(* which handlers nest, yield and end leaves the bit set behind them all.  *)
InServiceOwned == in_service # None => frames[in_service] # <<>>

(* The task that was interrupted has ended, and the rest of the handler    *)
(* with it.                                                                *)
Lost(t) == t \in is_terminated \/ t \notin live

(* Every key is taken from the keyboard in the end, whatever the commands  *)
(* do, unless a command has killed the very task that it interrupted.      *)
KeysTaken ==
    kbd ~> ~kbd \/ (in_service # None /\ Lost(in_service))

(* beep falls silent, unless the task it sleeps on top of is killed.       *)
BeepFallsSilent ==
    speaker ~> ~speaker \/ \E t \in Ids : frames[t] # <<>> /\ Lost(t)
=============================================================================
