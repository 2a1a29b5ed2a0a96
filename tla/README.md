# TrieternalX-OS in TLA+

TrieternalX-OS is a 32-bit x86 kernel for one processor: a preemptive
round-robin scheduler, a kernel heap, message passing, user tasks loaded from
ELF files, a shell, a file tree, a FAT reader and a small GUI. It has no
tests. This directory holds TLA+ models of the parts where order, preemption
and failure decide whether the kernel survives, the TLC runs that check them,
and proofs, for every value of the constants, about eight of them.

All paths below are relative to `src/`; `kernel/` and `drivers/` stand for
`src/src/kernel/` and `src/src/drivers/`.

## The system

What makes this kernel hard to reason about is one design decision: the shell
has no task. `keyboard_handler` (IRQ1) collects a line and calls
`shell_execute` in the interrupt, on the stack and in the context of whatever
task it interrupted. A command may therefore create, kill and put to sleep the
task it happens to run on top of. All gates of the IDT are interrupt gates, so
handlers start with interrupts disabled, but `scheduler_create_task` and
`process_kill` end with `sti` whatever the caller's state was, and
`scheduler_yield` is `int 0x20`, that is, a run of the timer's own handler.

| Component | State | Operations | Hard because | Correct if |
|---|---|---|---|---|
| Scheduler (`kernel/scheduler.cpp`) | task list (head, tail, next), `current_task`, flags and ticks of each task | create, yield, sleep, exit, kill, timer handler (countdown, reaper, switch) | a task dies while it runs; flags change between a task's own steps; the reaper deletes what others may point to | the processor is only on tasks that exist; nobody starves; sleepers wake; ended tasks are reaped |
| Kernel heap (`kernel/kheap.cpp`) | list of blocks, end of the mapped region | `kmalloc`, `kfree`, `heap_grow` | growth fails half way; merging and splitting in any order | blocks do not overlap; owners keep their bytes; neighbours are merged |
| IPC (`kernel/ipc.cpp`) | pool of 64 messages, 16 mailboxes with head, tail, count | send, receive, create mailbox | no lock and callers are preempted; pool and mailboxes run out | queues: nothing lost, reordered, doubled or leaked |
| Physical and virtual memory (`kernel/pmm.cpp`, `kernel/vmm.cpp`), ELF loader (`kernel/elf.cpp`) | frame bitmap, page directories | allocate, map, create and free address spaces, load | partial failure; directories shared by copying entries | every frame has one owner |
| Keyboard, PIC, shell (`drivers/keyboard.cpp`, `drivers/pic.cpp`, `kernel/shell.cpp`) | last key, line buffer, in-service bits | IRQ1, commands, waits for a key | handlers nest when a command yields; a key goes to two readers | IRQ1 is acknowledged and the next key taken; what beep began it ends |
| File tree (`kernel/fs.cpp`, `kernel/api.cpp`) | table of nodes with child and sibling indexes | create, write, look up, list | nodes with the same path, without a parent, under a file; full table; no memory | listings end and show each node once; what a path names never changes |
| FAT (`kernel/fat.cpp`), ATA (`drivers/ata.cpp`) | the disk, read by sector; the fields of the boot sector | directory scan, cluster chains | chains that end early or run in circles; polling without limit | the file is the chain's content |
| GUI (`kernel/gui.cpp`), services (`kernel/services.cpp`) | windows, focus, menu, explorer, viewer, terminal window, list of services | one handler for all keys, redraw | stale content; selections in lists that change; focus on closed windows | what is shown is what is there; a key has something to act upon |
| Mouse (`drivers/mouse.cpp`) | bytes of a packet, position, pixels under the cursor | IRQ12, drawing the cursor | lost bytes, a late answer from the initialisation; the picture changes under the cursor | the packets are found again; the cursor leaves no trace |
| Console (`kernel/vga.cpp`, `drivers/vbe.cpp`) | row and column, screen | `putchar`, `clear` | tasks are preempted between an increment and its test, the shell prints in an interrupt | the next character comes on the screen |
| Boot, GDT/IDT, timer, PCI, speaker, log | registers | port I/O, output | `beep` sleeps in the keyboard interrupt | - |

Interactions: the timer interrupt runs the scheduler; the scheduler takes Task
structures and stacks from the heap and gives them back in the timer interrupt;
the heap takes frames from the physical memory manager and page tables through
the virtual one; the shell calls everything; IPC tasks sleep in the scheduler.

## Modules

| Module | What it is |
|---|---|
| `CpuSharing` | Abstract: the life of a task and who may hold the processor. |
| `Scheduler` | `scheduler.cpp` with the task list as a set; implements `CpuSharing`. |
| `TaskList` | The same with head, tail and next; implements `Scheduler`. |
| `TaskListProofs` | Theorems about `TaskList`: the pointers are a list, and do what `Scheduler` says. |
| `Allocator` | Abstract: what an allocator promises its callers. |
| `KHeap` | `kheap.cpp`; implements `Allocator`. |
| `KHeapProofs` | Theorems about `KHeap`. |
| `MessageQueues` | Abstract: one queue per task. |
| `IPC` | `ipc.cpp`, one step per shared access; implements `MessageQueues` when calls are not preempted. |
| `IPCProofs` | Theorems about `IPC` without preemption. |
| `AddressSpaces` | `pmm.cpp` and `vmm.cpp`, and what `elf.cpp` and `scheduler.cpp` do with them for user tasks. |
| `AddressSpacesProofs` | Theorems about `AddressSpaces` as long as no task with a directory is reaped. |
| `FileStore` | Abstract: paths keep their kind, contents only grow. |
| `FileTree` | `fs.cpp` and the shell's commands on files; implements `FileStore`. |
| `Gui` | The windows, the file explorer and the viewer of `gui.cpp`, on top of `FileTree`. |
| `GuiProofs` | Theorems about `FileTree` and `Gui`. |
| `Fat` | `fat.cpp` on FAT16 and FAT32, with what `ata.cpp` reads for it. |
| `FatProofs` | Theorems about `Fat`. |
| `Console` | The keyboard interrupt on top of `Scheduler`: IRQ1, the PIC, nested handlers, `beep`. |
| `SchedulerProofs` | Theorems about `Scheduler` and about `Console`, which extends it. |
| `Desktop` | Windows, focus, start menu, services and terminal window of `gui.cpp`. |
| `Mouse` | The decoder of `mouse.cpp` and its cursor over what `gui.cpp` draws. |
| `Terminal` | Where `putchar` writes, in text mode and on the frame buffer, statement by statement. |
| `ScreenProofs` | Theorems about `Terminal`, `Desktop` and `Mouse`: what is on the screen. |
| `MCScheduler`, `MCTaskList`, `MCAddressSpaces`, `MCGui`, `MCFat`, `MCMouse` | Values of `Killable`, `Programs`, `Paths`, `Images` and `Shape` for TLC. |

Definitions named after a mutation (`...KeepingTail`, `NextTaskFromHead`, ...)
and marked `Mutant` stand next to the definition they change. They are not part
of any specification: each shows that some property notices that mistake.

### Scheduler

`Tick` is IRQ0 in any task, `Yield` the same handler through `int 0x20`;
`TimerHandler` is the whole handler in the order of the code: the countdown,
the reaper, the switch. `Sleep`/`FallAsleep`/`Yield` are the three steps of
`scheduler_sleep` between which a kernel task may be preempted; `CommandSleep`
is the same function called from a shell command, with interrupts disabled.
`ExitTask` and `Kill` only set flags; the memory goes when the handler reaps.
A command that sleeps on top of the idle task is resumed at once when nothing
else is runnable, because `get_next_task` falls back to that task whatever its
flags; `AsleepOffCpu` and `SleeperWakes` except it for that reason.
`pc` records where a task stands in `scheduler_sleep` and
`scheduler_exit_task`. The set `live` stands for the list because ids grow and
tasks are appended; `ListOK` and `ImplementsScheduler` in `TaskList` are
exactly that abstraction, checked by TLC and proved in `TaskListProofs`. There a
loop along the pointers is a function of the number of turns (`ReapTurns`,
`SearchTurns`, and `Walk` for the tasks the list holds); a list has at most
`MaxId` tasks, so `MaxId` turns are enough, which the proof shows.

Left out: names, file descriptors, `parent_pid`, `state` and `exit_code`
(read by `ps` and by `process_wait`, which has no caller), the contents of
stacks, `process_exit`, `process_wait` and `switch_to_user_mode` (no callers).

### KHeap

Addresses are scaled: a header has 4 bytes, a page 12, a page table 24, and
sizes are rounded to 2. A call is cut into the search, each page that
`heap_grow` maps, and the retry of the recursive call. Frames come from a
counter that other parts of the kernel also change between calls. Callers own
what they were given and free it once; sizes near 2^32 are excluded.

### IPC

`pc` walks through the loads and stores of each call. With `Preemptive` the
timer may come between any two of them, as it may in the kernel; without it
calls run to their end, which shows that the algorithm itself is right.

### AddressSpaces

The bitmap, the kernel's directory, the directories copied from it and the
contents of the page tables, down to the user flag. `MapPage` is
`vmm_map_page`, which writes the kernel's directory whatever CR3 holds.
`LoadElf`, `LoadPage`, `CopyPage` and `LoadFails` are the loops of the ELF loader,
`MakeDirectory` the copying of the tables for a new user task, `TakeStacks` its
two calls of `vmm_map_page` afterwards and `Reap` the part of the timer handler
that frees the task's memory. Commands run in the keyboard interrupt and the
creation of a task in a cli section, so the steps of one command are not
interleaved with another's; only the heap may grow while a task takes its
stacks.

`cr3` is the directory that is loaded: `Switch` gives it that of a user task or,
for a kernel task, the kernel's. A command runs in whatever is loaded, and that
matters to the loader. It maps a page in the kernel's directory and zeroes
it by its physical address (`LoadPage`), but copies to the address the segment is
linked to (`CopyPage`), which is some page of the interrupted task (`Target`);
if the task has none there, `PageFault` leads to the handler's endless loop,
`Halted`. `content` is what a frame holds as far as the loader is concerned: the
image it last copied there, or zeros. A segment may end behind any page
(`segment` holds the pages that were mapped for it and not yet copied to).

Left out: what programs write themselves, `vmm_unmap_page` (no caller), the
framebuffer mapped at boot and the layout of segments in an ELF file: a program
is the set of pages it maps, each once, and the file holds all of it. A directory
for which the frames ran out may lack tables of the kernel's own memory, and the
machine would stop when it is loaded; the model goes on, which only adds
behaviours. A frame that gets a second use is not followed further; that it gets
one is the error `FramesHaveOneOwner` reports.

### FileTree and Gui

`vfs_nodes` is the table with its `first_child` and `next_sibling` indexes. No
node is ever given back, so the used ones are always the first. `AddNode` is
`vfs_mkdir` and `vfs_create`, which differ in one flag; like the code it looks
neither for a node of that path nor at what the parent is. A path is cut at its
slashes, because the parent is found by the text before the last one.
`Write` takes its new buffer before it frees the old one.

`Gui` adds a step for every key that changes the windows, the explorer or the
viewer, in the order `gui_handle_key` tests them: the start menu takes only the
arrows, Enter and Esc, so the function keys and backspace reach what is behind
it. While the GUI is on, no key reaches the shell; what the GUI keeps when it
is left (`current_dir`, the selection, the viewer's pointer) meets files that
the shell has changed when it is entered again. `fs_init` is the initial state:
a command of the shell cannot be typed in the time it takes.

### Fat

The disk is an image: a table of links, the two sectors of a root directory and
the numbers of a boot sector, laid out as the format says. `Images` holds every
image up to what no file can tell apart; nothing writes to it. The module has
two halves that know nothing of each other: the code's arithmetic
(`ClusterSector`, `NextCluster`, `Volume`) and the format's (`ClusterStart`,
`Link`, `SectorOf`), and `CopiesTheFile` compares them sector by sector.

A step is one call of `ata_read_sectors`, which answers or fails, with what the
code does until the next call. `Scan` is the loop that `fat_list_root`,
`fat_get_file_size` and the first half of `fat_read_file` share, with their
differences: only the listing stops at the end mark for good, and only FAT32
goes on behind a sector it cannot read. `Command` is `lsdisk`, or the size and
then the content for `catdisk`, `run` and `exec`. Left out: which bytes make a
name, and FAT32 directories of more than two clusters or of clusters that do not
lie one behind the other (`ImagesAssumption`).

A boot sector is taken to be one that a formatter writes. The code accepts any
sector that ends in 55AA and divides by two of its fields
(`kernel/fat.cpp:151,155`), which may be 0. The field `bytes_per_sector` and the
literal 512 of `kernel/fat.cpp:404` are one constant here, so a disk on which they differ is
not covered.

`AnswersFromDirectory` compares what was listed, sector by sector, with
`Listing`, the files in the sectors up to the end mark. A file of size 0 is
answered with "not found", and so is a file behind an empty one of that name,
because `fat_get_file_size` has only the one answer for both.

### Console

`Console` is `Scheduler` with the keyboard interrupt on top. `frames[t]` is the
stack of handlers that stand unfinished on the stack of task `t`, each at the
point where it can be left: in `beep`'s sleep, before the second task of
`tasktest`, or before `PIC_sendEOI(1)`. `Interrupt` is what IRQ1 needs to come,
`CommandBeep` and `CommandOpens` are the commands that leave the handler open,
`KeyWithin` and `CommandWaits` those that do not. `in_service` remembers on
which task's stack IRQ1 was taken, which the PIC does not know; an `int 0x20`
ends it early (`EndsAny`), and then handlers nest. Left out: the shell's line
(any key may end one with any command) and the commands' output.

### Desktop

One action per key and window, guarded as `gui_handle_key` tests them. Lines of
the terminal window are numbers in the order in which they are printed.
`Restart` is the reboot; `MenuPower` may also have no effect, as on a machine
that knows none of the three ports. Left out: the drawing, and the explorer and
the viewer's content, which `Gui` has.

### Mouse

`phase` is the byte the mouse means, `mouse_cycle` the one the driver takes it
for. `ByteLost` loses any byte and `StrayByte` is the answer that `mouse_init`
did not wait for. A byte other than a first one is calm if it does not look
like a first one; after `Enough` = 4 calm bytes the two agree, and with 3 they
need not. `fb`, `last_drawn` and `saved_cursor_pixels` are the code's; each
picture the GUI draws tells all its points apart, so that a pixel put back at
the wrong place shows. Left out: buttons, the wheel.

### Terminal

The kernel is compiled without optimisation (`Makefile`), so `putchar` is cut
at every load and store of its two counters: a task may be preempted between
any two. The shell prints in the keyboard interrupt and a user task in a system
call, so their characters are one step. The two consoles have the same shape
and one pair of counters here, since which of them is used is settled at boot.
`overlapped` is a history variable: somebody printed while another was in
`putchar`. Left out: glyphs, colours, the hardware cursor.

## Runs

| Run | Shows | Result |
|---|---|---|
| `Scheduler.cfg` | `CurrentLive`, `ExitNeverReturns`, `AsleepOffCpu`, `NoTaskPassedOver`, refinement of `CpuSharing`, and under fairness `RunnableRuns`, `SleeperWakes`, `TerminatedReaped` | holds |
| `TaskList.cfg` | `ListOK`, refinement of `Scheduler` | holds |
| `KHeap.cfg` | `ListOK`, `Coalesced`, `GrowsOnce`, refinement of `Allocator` | holds |
| `IPC.cfg` | `NoMessageLost`, `PoolConserved`, refinement of `MessageQueues` | holds |
| `IPCPreempted.cfg` | a message whose `ipc_send` returned 0 is not lost under preemption | violated: two senders claim one slot |
| `AddressSpaces.cfg` | `FramesHaveOneOwner`, `NoFrameLeaked`, `AddressSpacesArePrivate` but for the pages a load on top of a user task overwrites, as long as no task with a directory of its own has been reaped | holds |
| `Gui.cfg` | `TreeOK`, `BuffersOwnedOnce`, `SelectionInRange`, `ListingFresh`, refinement of `FileStore` | holds |
| `Fat.cfg` | `CopiesTheFile`, `PrintedComplete`, `AnswersFromDirectory`, and under fairness `CommandEnds` | holds |
| `Console.cfg` | `InServiceOwned`, and under fairness `KeysTaken`, `BeepFallsSilent`, unless a task is killed under a handler | holds |
| `Desktop.cfg` | `KeysHaveTarget`, `TermShowsLast` | holds |
| `Mouse.cfg` | `InStep`, `CursorShown` | holds |
| `Terminal.cfg` | `OnScreen`: always on a frame buffer, in text mode until two have printed at once | holds |

Bounds. `MaxId` 4 (5 for the list) gives two (three) created tasks beside the
main and the idle one: enough for every position of a task in the list (first,
middle, last, alone) and for one task to die while another takes its turn.
`MaxTicks` 4 (2 for the list) tells "0, clamped to 1", "the last tick" and "more to come"
apart, and leaves room for a sleep that is begun anew before it is over, which
is why `SleeperWakes` excepts the idle task: it runs on while it sleeps, and the
next command may set its ticks again. The heap has three pages and two page tables, requests that force a
split, an exact fit and a growth of one and of two pages, and at most three
free frames, so that growth fails at every page. IPC has two tasks, two
messages and two mailboxes, so both run out, and one more send than twice the
pool is not needed for a slot to be reused. Address spaces have four
identity-mapped tables of four pages, of which two frames are reserved, one
entry for programs and one for the heap, two user tasks and two programs at the
same address: 14 frames are enough for one whole directory and not for two, so
frames run out at every point of a load and of a creation. One program is longer
than the other, so a load on top of a task overwrites a page of it and faults at the
next. As no frame comes free once a load has failed, nothing is loaded over what
it left behind; that case is not covered. The file tree has
five nodes, three of them there from the start, so that two may be created, in
any order: duplicates, orphans whose directory comes later, files under files.
Two buffers let one write succeed and the next fail; three entries in the
explorer's listing are one less than the root can have. `MCSymmetry` exchanges
the buffers, which nothing tells apart.

A FAT sector has 8 bytes: two directory entries, four entries of a FAT16 table
or two of a FAT32 one, so links lie in several sectors of the table. Clusters
have one or two sectors; files have part of a sector or two and a half; chains
are too short, circular, or lead into another file; directories have the end
mark in either sector or none, deleted entries, long names and old entries
behind the end. `Fat32Clusters` 4 makes three clusters FAT16 and four FAT32, so
both sides of the boundary are there. Circular directories are listed only if
all their sectors have an end mark, since the listing would grow for ever
otherwise; for `CommandEnds` they are the stated exception. `Console` has one
created task beside the two permanent ones, which may be killed, and
`MaxNested` 2 handlers on one stack: one that is interrupted and one that
interrupts it, on each of three stacks. The terminal window has 5 lines
(`Rows`), fewer than a command prints (7), and 12 lines are printed without a
clear, enough to scroll the first answer out. The mouse's screen is 3 by 2 and
its cursor 2 by 2 with one point missing, so it is clipped at both edges and
overlaps itself as it moves. Two tasks print on a screen of 3 by 2 whose
counters may run past it (`MaxRow`, `MaxColumn`), which is what the test for
equality does not recover from.

Fairness. In `Scheduler` and `Console` `WF(Tick)`: the PIT interrupts a hundred times a second and every
cli section is finite, so the timer handler runs again and again whatever the
tasks do. `WF(Start)`: `kmain` runs on to `scheduler_start`. Tasks need not
yield, exit or make progress. `Console` adds that a handler which again and again has the
processor gets its step done (`SF(HandlerStep(t))`: what is left of a handler
takes microseconds and a turn lasts until the next tick, 10 ms) and that a
pending IRQ1 is taken if it can be again and again (`SF(KeyboardInterrupt)`: the
PIC keeps it). `Fat` assumes `WF(Step)`: the drive answers every read, with the
sector or with an error, and the handler that reads runs to its end.

`CHECK_DEADLOCK` is never switched off.

## Known deviations

What the models show the code to do other than one would expect, or than a text
of the repository says. Except for the first, no run stands for them: each is
an exception in a property or a restriction of a configuration, and TLC finds
the counterexample as soon as that is taken away.

- Two senders under preemption take one message slot (`IPCPreempted.cfg`).
- `kill 2` ends the idle task, to which `get_next_task` then falls back although it
  is freed: `CurrentLive` fails once `Killable` holds `IdleTask`.
- Sleeps are counted in ticks (README.md:27 of the repository), but a yield is a
  run of the timer's handler and counts as one: `SleepCountsTicks` of `Scheduler`.
- A command that sleeps on top of the idle task, with nothing else runnable,
  returns at once: the exceptions in `AsleepOffCpu` and `SleeperWakes`.
- The reaper frees every frame that a user task's directory maps, all
  identity-mapped memory included: `FramesHaveOneOwner` fails with
  `Reaping = TRUE`.
- The loader copies a program through the directory of the task it interrupts. If
  that is a user task, its own pages are overwritten, and those it shares with another
  task, while the new program keeps zeros (`kernel/elf.cpp:107`); if it has no page
  at that address, the page fault handler halts. `AddressSpacesArePrivate` fails without
  the exception `Overwritten`.
- A directory also maps the pages of programs loaded before it was made, so tasks
  share frames (`Uses` counts such a frame once).
- Creating a task with a directory leaves the kernel's directory loaded
  (`kernel/scheduler.cpp:146`): a user task that was interrupted goes on in it
  until the next switch (`MapStacks`).
- `vmm_map_page` takes page 0 for a table when no frame is left
  (`kernel/vmm.cpp:59`): the exception in `FramesHaveOneOwner`.
- The user flag of a task's code and stack is set in another directory, and too late:
  `UserCanRun` of `AddressSpaces` fails with the first user task.
- The viewer shows a buffer that was freed if the file was written to between two
  visits of the GUI: `ViewerShowsFile` of `Gui`.
- In text mode two increments before one test of `terminal_row` take the cursor
  past the last line for good (`kernel/vga.cpp:166`): the condition
  `vbe_active \/ ~overlapped` of `OnScreen`.
- If the task is killed on top of which a handler has not yet ended, IRQ1 stays in
  service and the keyboard is dead, or the speaker sounds on: the exceptions in
  `KeysTaken` and `BeepFallsSilent`.
- `mouse` and `guitest` wait for a key, but find the Enter that began them
  (`CommandWaits` of `Console`). Keys typed while a command sleeps are appended to
  its line and lost when it returns (`kernel/shell.cpp:792`).
- A search on disk goes on behind the directory's end mark, where the listing
  stops; a chain that ends early or cannot be read gives a short file with the answer true (`PrintedComplete`).
- A FAT32 root directory whose chain runs in a circle is searched for ever, in the
  keyboard interrupt, for a file that is not there: the exception in `CommandEnds`.
- Closing the viewer gives the focus to the explorer, be it open or not
  (`KeysHaveTarget`). F4 toggles the viewer, while README.md:286 of the
  repository says the terminal; README.md:288 gives Space + C for closing the focused
  window, which `gui_handle_key` does not know.

## Proofs

### The scheduler

`SchedulerProofs` proves of `SafeSpec`, for every `MaxId`, `MaxTicks` and every set of ids
the shell may be asked to kill that does not hold the idle task's:
`TypeCorrect`, `CurrentTaskIsLive`, `ExitDoesNotReturn`,
`SleepersAreOffTheCpu`, `RoundRobin` and `Implementation` (the refinement of
`CpuSharing`). The assumption is not an idealisation to forget: without it
`CurrentLive` is false (Known deviations).

The inductive invariant `Inv` adds to the properties what they rest on: the
main and the idle task are on the list and not terminated (`Permanent`; the
fallback of `get_next_task` is then safe), ids on the list are below
`next_task_id` (`OldIds`; a new task takes a fresh one), a task that has not
been created stands at its entry (`UncreatedAtStart`), the permanent tasks
never sleep or exit by their own code (`PermanentRun`), a task in
`scheduler_exit_task` has its flag set (`LeaversTerminated`), and before
`scheduler_start` only the main task runs and nobody sleeps (`BeforeStart`).
`LeastExists` (every set of ids has a least one, by well-foundedness),
`NextTaskRunnable` and `NextTaskIsNext` say what `get_next_task` returns;
`TimerKeepsInv` is the step of the handler, used for ticks, yields and sleeping
commands alike. `TimerIsPassOn` and `EndsOneTask` carry the refinement.

### The task list

`TaskListProofs` proves, with the same assumption, that the singly linked list
is one (`TailStaysLast`) and that it implements the set `live`
(`ListImplementsScheduler`). `IsList(l, S)` says that the pointers of `l` hold
exactly the tasks of `S` in the order of their ids: the head is the least, the
tail the only one without a successor, each other points to the least of those
above it, and tasks outside point nowhere. `ListInv` is that of the chain, with
the places of the current, the permanent and the flagged tasks in it.

The loops are the hard part. The recursive functions exist (`TurnsExist`), and
what each turn keeps holds after every turn (`TurnByTurn`, by the least
counterexample). The walk meets the tasks of the list and no others (`ChainIs`).
The reaper, come to a task, has before it a list of what it let live and knows
the last of these in `prev` (`Reaping`, `Before`), whichever of head, middle and
tail it unlinked (`UnlinkKeepsList`); so it leaves a list of the others
(`ReapKeepsList`). The search, going round from the current task, has passed no
runnable one (`Searching`) and gets further with each turn (`Distance`); so it
finds what `NextTask` defines (`FirstRunnableIsNextTask`), that is the next by
age or, after a whole round, the current task or the idle one. `TimerRefines`
puts these together, `AppendKeepsList` is the tail insertion.

### The keyboard interrupt

In the same module, what is proved of the scheduler is taken over to `Console`:
`ConsoleImplementsScheduler` maps each step, handlers that nest, sleep and are
lost with their task included, to one of `Scheduler` or to none, and
`ConsoleScheduling` draws the conclusion, with the same assumption that the idle
task may not be killed. `ConsoleInServiceOwned` needs no such assumption. Its
invariant says, beside `InServiceOwned`, that a stack holds at most `MaxNested`
handlers, each at a point where a handler can be left (`StacksOK`), and what the
ranges of the scheduler's fields are when any task, also the idle one, may die
(`TasksOK`, weaker than the scheduler's own invariant). An `int 0x20` only ever clears `in_service`, and
whoever takes a handler off a stack is the handler that acknowledges; so the
bit is never left behind.

### The heap

`KHeapProofs` proves `HeapListOK`, `HeapCoalesced`, `HeapGrowsOnce` and
`HeapImplementsAllocator` for every region, page size, header, alignment and set
of requests, with growth failing at any page. `HeapInv` adds to `ListOK` that
fields are set only in headers (`FieldsOnlyInHeaders`; a merged header is
forgotten, so it can be made again), that callers own blocks that are in use
(`OwnedIsUsed`), that the mapped region ends at a page (`WholePages`), how far
`heap_grow` has come and what it will append (`Growing`), and that at most the
block it has just appended follows a free one (`OnlyAppendedFollows`). The last
is what makes `Coalesced` inductive: `heap_grow` appends a free block without
looking at its predecessor, and only the retry or the next growth merges
it. `ListByBlocks` breaks the list into a statement about each block and its
neighbour, so that a split, a merge of two or three and an append each touch a
few blocks only.

### Messages

`IPCProofs` assumes `~Preemptive`, as `IPCPreempted.cfg` shows the properties to
be false otherwise, and proves `IPCTypeOK`, `IPCNoMessageLost`,
`IPCPoolConserved` and `IPCImplementsQueues` for any number of messages,
mailboxes and tasks. `IPCInv` says that there are queues `q`, one sequence of
messages for each mailbox, such that `Inv(q)`: the pool's links are those of `q`
(heads, tails, successors and, unless a call is about to store it, counts), no
message is in two places (`Apart`), and every claimed message is in a queue or
held by the one call that is under way. Quantifying over the queues, and not
computing them from the links, keeps recursion out of the invariant;
`Chain`, with which the properties are stated, is shown to compute `q`
afterwards (`ChainIs`, by the least counterexample, as induction over data is
out of the prover's reach).

### Address spaces

`AddressSpacesProofs` assumes `~Reaping`, as the reaper of a task with a
directory gives frames away that others use (Known deviations), and proves
`AddressTypeOK`, `AddressOneOwner`, `AddressNoLeak` and `AddressPrivate` for
every size of memory and of tables, every set of programs and every number of
tasks. `AddressInv` holds what these rest on: the reserved frames are
marked and the first tables static, and frame 0, which `pmm_alloc_frame` also
returns when nothing is free, becomes a table only then (`KernelTables`); a
task's tables are frames, and a task that is not under way has no directory
(`Directories`); a task that is being created shares the kernel's pages
(`Created`); and, the part that is hard to see, as long as there are free frames
each image page that the kernel maps was just loaded or is mapped by a task as
well (`Covered`). That is why a program that is loaded over another leaks no
frame: the page it replaces in the kernel's tables is still in a task's copy.
For the bytes `AddressPrivate` needs one invariant more: the pages just mapped for a
segment have frames that no task has (`SegmentIsFresh`), so neither zeroing them
nor a copy through the kernel's own directory touches a task's program
(`ProgramsKept`). What a copy through a task's directory writes is the exception
`Overwritten`.
`CopiesAre` and `MakeDirectoryIs` say what the copying of the tables does to
the free frames, and a lemma for each action keeps the invariant.

### Files and explorer

`GuiProofs` proves the properties of `FileTree` under all of `Gui`'s steps, for
every size of the table, set of paths, content and supply of buffers:
`GuiTypeOK`, `GuiTreeOK`, `GuiBuffersOwnedOnce`, `GuiSelectionInRange`,
`GuiListingFresh` and `GuiImplementsFileStore`. The invariant `FilesInv` rests on
one fact about the links: `next_sibling` always leads to an older node
(`Linked`), so a walk ends and lists no node twice (`WalkEnds`,
`ListFalls`), whatever orphans and duplicates there are. `ListsOK` relates each
list to the parents that paths had when they were made, `OwnedOK` the buffers
to the nodes that hold them. `AddNodeChildren` and `SetDataLists` say what the
two operations on the table do to all lists at once.

### The disk

`FatProofs` proves `FatCopiesTheFile`, `FatPrintedComplete` and
`FatAnswersFromDirectory` for every disk, every size of a sector that is a
multiple of 4, and every size of a cluster. Of a disk it is assumed that its
count of clusters decides between FAT16 and FAT32, as fat_init does, and that
the fields have their ranges; a file's links may lead anywhere. The root
directory may have any number of sectors on FAT16; on FAT32 it has one cluster,
or two of which the second lies behind the first, and these may run in a circle.
`VolumeIs`, `ClusterSectorIs` and `NextClusterIs` prove the code's
arithmetic to be the format's. `FatInv` says where the loop stands: for some `j`,
`j` whole clusters and `s` sectors have been copied, the current cluster is the
`j`-th of the file's chain, and the count of bytes is that of the sectors
(`Copying`). `AtCluster` is the test of the loop, in the one lemma that the
scan's end and `FollowChain` share.

`DirectoryInv` says the same of the scan, as long as every sector could be read:
the sector read next is the `Place`-th of the directory (`SectorRead`, for both
layouts), and in all before it there was nothing that ends the scan, while
exactly their files were listed (`Passed`). A FAT32 scan that has found its entry
still asks for the next link, and meanwhile `Found` holds the entry. When the
directory's chain runs in a circle, nothing in the whole of it ends the scan,
which is the second half of `Passed`; `NextDirectoryClusterAnswers` shows that
such a scan never comes to an answer. `SeenIs` proves that the loops see the
entries in use, and `ListingIs` and `AbsentIs` turn `Passed` and `Found` into
the two answers the property speaks of.

### The screen

`ScreenProofs` treats what is on the screen. It extends `Terminal`, `Desktop` and
`Mouse`, which share no variable, so each theorem is about one of the three
specifications (`Spec`, `DesktopSpec`, `MouseSpec`).

`StaysOnScreen` is `OnScreen` for every width,
height, tabulator and any number of tasks that print, from the assumptions on
the sizes alone. `OnScreen` speaks only of states in which nobody is in
`putchar`; the inductive invariant says how the counters stand in between. On
the frame buffer, whoever takes the row off the screen still has the test for
it before him, or what follows that test (`RowInHand`, `ColumnInHand`): that is
why tests with `>=` repair what tasks do to each other. `RowStaysInHand` and
`ColumnStaysInHand` reduce this to the one task that makes a step. In text mode, while no
two have printed at once, only one task is in `putchar`, and `AtStatement` says
how far off the screen each statement may find the counters (`OneAtATime`).
`StatementKeepsInv` has a case for each statement, `ShellKeepsInv` one for each
kind of character. `Bounded` is a guard of the model and is not used.

`DesktopKeysHaveTarget` needs of `DesktopInv`, beside the property, the types
of the two tables of services: what the window shows is as long as the table
that it copies, so the selected index stays in both.
`DesktopTermShowsLast` rests on `TermInv`: the window holds the last
`Min(Rows, n)` of the `n` lines printed since it was empty (`LastLines`).
`PrintShowsLast` is one line, and `PrintsShowLast` any number of them, by the least
counterexample, as the fold over an answer's lines is data.

`MouseInStep` counts (`DecoderInv`): how many more calm bytes are needed before
the decoder is in step depends on the byte it waits for and on the one that
comes (`Needed`), and each calm byte brings it closer. `MouseCursorShown` says in
`CursorInv` which pixels the cursor covers, clipped at the edges (`Covers`), that
`saved_cursor_pixels` holds the picture's pixels under exactly these, and that
the rest of the screen is the picture; drawing and lifting the cursor are
inverse to each other whatever its shape.

### What is only model-checked

- Liveness (`RunnableRuns`, `SleeperWakes`, `TerminatedReaped`, `KeysTaken`,
  `BeepFallsSilent`, `CommandEnds`): it rests on fairness.
- `IPC` under preemption and address spaces after the reaper, whose properties are
  false (Known deviations).

## Not modelled

The drawing of the GUI and the primitives under it, PCI and the log (reads and
output without state of their own), the boot sequence and the descriptor
tables, and the map from scan codes to characters, which is data. Of `ata.cpp`,
the polling of the status register: it has no limit for a busy drive, and `Fat` assumes that the
drive answers; `ata_write_sectors` has no caller. Of the virtual memory, heaps that outgrow
their first page table while a user task lives, and the layout of segments in
an ELF file. The test tasks of `ipctest`, whose sender sends to pid 2, the idle
task (`kernel/ipc.cpp:234`), and whose receiver indexes its buffer with the
length of the message rather than of what was copied (`kernel/ipc.cpp:123`).
Failed allocations in `scheduler_create_task`, which it does not test for
(`kernel/scheduler.cpp:167`). Code without callers is named above.

## Plan

1. `AddressSpaces`, extended: the layout of segments, the heap's entries in the
   directories of running tasks, and the count of used frames.
2. The IPC test tasks composed with `Scheduler`; the shell's line in `Console`.
