---------------------------- MODULE AddressSpaces ----------------------------
(***************************************************************************)
(* Physical frames and page directories: src/kernel/pmm.cpp, vmm.cpp and   *)
(* what elf.cpp and scheduler.cpp do with them when a user task is loaded, *)
(* created and reaped.                                                     *)
(*                                                                         *)
(* The tables of the first IdentityTables directory entries map all        *)
(* physical memory to itself; entries from FirstHigh on hold the kernel    *)
(* heap; programs are loaded in between.  A command runs in the keyboard   *)
(* interrupt, a cli section or the timer interrupt, so nothing interleaves *)
(* with it; it is cut into steps only to follow its loops.  A task that is *)
(* "ready" may run.  Of the contents of frames the model keeps whose image *)
(* the loader wrote there, not what a program writes itself; page tables   *)
(* and directories are kept until a frame gets a second use, which is an   *)
(* error here (FramesHaveOneOwner).                                        *)
(***************************************************************************)
EXTENDS Integers, FiniteSets

CONSTANTS
    IdentityTables,     \* the identity-mapped entries (32)
    FirstHigh,          \* the first entry of the kernel's half (768)
    NumEntries,         \* entries of a directory (1024)
    TableSize,          \* pages per table (1024)
    NumReserved,        \* reserved_frames of pmm_init (1024)
    Programs,           \* the programs on disk: the sets of pages they load
    Tasks,              \* bound: the user tasks that are ever created
    Reaping             \* whether tasks with a directory are reaped as well

Entries == 0..(NumEntries - 1)
Slots == 0..(TableSize - 1)
NumFrames == IdentityTables * TableSize
Frames == 0..(NumFrames - 1)
Reserved == 0..(NumReserved - 1)
HeapPages == (FirstHigh * TableSize)..(NumEntries * TableSize - 1)
ImagePages == NumFrames..(FirstHigh * TableSize - 1)

ASSUME SizesAssumption ==
    /\ IdentityTables \in Nat \ {0} /\ TableSize \in Nat \ {0}
    /\ FirstHigh \in Nat /\ IdentityTables <= FirstHigh
    /\ NumEntries \in Nat /\ FirstHigh < NumEntries
    /\ NumReserved \in 2..NumFrames
ASSUME ProgramsAssumption == Programs \subseteq (SUBSET ImagePages) \ {{}}
ASSUME ReapingAssumption == Reaping \in BOOLEAN

Null == 0               \* nullptr, and the address of frame 0
None == -1              \* no frame, no task

(* Page tables lie in frames, or in identity_page_tables of the kernel.    *)
StaticTable(e) == NumFrames + e
Tables == Frames \cup {StaticTable(e) : e \in 0..(IdentityTables - 1)}

(* A user task whose code is part of the kernel (usertest) runs there.     *)
KernelCode == 1

VARIABLES
    pmm_bitmap,             \* the frames whose bit is set
    kernel_page_directory,
    table,                  \* the contents of the tables
    page_directory,         \* the frame of each task's directory, or Null
    directory,              \* the contents of the tasks' directories
    heap_current_end,       \* the first heap page that is not mapped
    cr3,                    \* the task whose directory is loaded, or None
                            \* for the kernel's
    content,                \* the program whose image lies in a frame, {}
                            \* for zeros
    state,                  \* where each task is in its life
    code, stack,            \* the pages a user task runs in: that of its
                            \* entry point and those of its user stack
    pc, image, todo,        \* the point of the command in progress, the
    segment, new            \* program it loads, the pages still to map,
                            \* those to be copied to before the next are
                            \* mapped, and the task it creates

pmm == pmm_bitmap
vmm == <<kernel_page_directory, table, page_directory, directory>>
command == <<pc, image, todo, segment, new>>
vars ==
    <<pmm, vmm, heap_current_end, cr3, content, state, code, stack, command>>

(* Entries of directories and tables: present if there is a frame, and the *)
(* user flag.                                                              *)
Absent == [frame |-> None, user |-> FALSE]
Present(entry) == entry.frame # None

DirectoryEntry == [frame : Tables \cup {None}, user : BOOLEAN]
PageEntry == [frame : Frames \cup {None}, user : BOOLEAN]

TypeOK ==
    /\ pmm_bitmap \subseteq Frames
    /\ kernel_page_directory \in [Entries -> DirectoryEntry]
    /\ table \in [Tables -> [Slots -> PageEntry]]
    /\ page_directory \in [Tasks -> Frames]
    /\ directory \in [Tasks -> [Entries -> DirectoryEntry]]
    /\ heap_current_end - 1 \in HeapPages \cup {FirstHigh * TableSize - 1}
    /\ cr3 \in Tasks \cup {None}
    /\ content \in [Frames -> Programs \cup {{}}]
    /\ state \in [Tasks -> {"none", "ready", "gone"}]
    /\ code \in [Tasks -> ImagePages \cup {Null, KernelCode}]
    /\ stack \in [Tasks -> SUBSET HeapPages]
    /\ pc \in {"idle", "load", "copy", "stacks", "halted"}
    /\ image \in Programs \cup {{}}
    /\ todo \subseteq image
    /\ segment \subseteq image \ todo
    /\ new \in Tasks \cup {None}

(* pmm_init and vmm_init.                                                  *)
Init ==
    /\ pmm_bitmap = Reserved
    /\ kernel_page_directory =
          [e \in Entries |-> IF e < IdentityTables
                             THEN [frame |-> StaticTable(e), user |-> FALSE]
                             ELSE Absent]
    /\ table = [x \in Tables |-> [s \in Slots |->
                    IF x \in Frames THEN Absent
                    ELSE [frame |-> (x - NumFrames) * TableSize + s,
                          user |-> FALSE]]]
    /\ page_directory = [t \in Tasks |-> Null]
    /\ directory = [t \in Tasks |-> [e \in Entries |-> Absent]]
    /\ heap_current_end = FirstHigh * TableSize
    /\ cr3 = None
    /\ content = [f \in Frames |-> {}]
    /\ state = [t \in Tasks |-> "none"]
    /\ code = [t \in Tasks |-> Null]
    /\ stack = [t \in Tasks |-> {}]
    /\ pc = "idle" /\ image = {} /\ todo = {} /\ segment = {} /\ new = None

(* The tasks that run in a directory of their own.                         *)
Ready == {t \in Tasks : state[t] = "ready" /\ page_directory[t] # Null}

(* timer_handler loads the directory of the task it passes on to, the      *)
(* kernel's for a task without one.  A directory that lacks a table of the *)
(* kernel's own memory would stop the machine; the model goes on.          *)
Switch(t) ==
    /\ pc = "idle"
    /\ cr3' = t
    /\ UNCHANGED <<pmm, vmm, heap_current_end, content, state, code, stack,
                   command>>

-----------------------------------------------------------------------------
(* pmm_alloc_frame takes the first frame whose bit is clear.               *)

(* Mutant of Free: one frame too many is looked at.                        *)
FreeOneTooMany == (0..NumFrames) \ pmm_bitmap

Free == Frames \ pmm_bitmap

(* The member of S with n members below it.                                *)
Nth(S, n) == CHOOSE x \in S : Cardinality({y \in S : y < x}) = n

First(S) == Nth(S, 0)

Entry(v) == v \div TableSize
Slot(v) == v % TableSize

(* The table entry for page v in directory d, Absent when there is none.   *)
Lookup(d, v) ==
    IF Present(d[Entry(v)]) THEN table[d[Entry(v)].frame][Slot(v)] ELSE Absent

(* Mutant of MapPage: the table is taken without setting its bit.          *)
MapPageTableNotMarked(v, f, user) ==
    LET e == Entry(v)
        left == Free \ {f}
        x == IF Present(kernel_page_directory[e])
             THEN kernel_page_directory[e].frame
             ELSE IF left = {} THEN Null ELSE First(left)
        old == IF Present(kernel_page_directory[e])
               THEN table[x] ELSE [s \in Slots |-> Absent]
    IN  /\ pmm_bitmap' = pmm_bitmap \cup {f}
        /\ kernel_page_directory' =
              [kernel_page_directory EXCEPT
                  ![e] = [frame |-> x, user |-> @.user \/ user]]
        /\ table' = [table EXCEPT
                ![x] = [old EXCEPT ![Slot(v)] = [frame |-> f, user |-> user]]]

(* vmm_map_page of page v to frame f, which has just been taken: a table   *)
(* that is missing is taken from the frames left, and without one page 0   *)
(* is used.  Only the kernel's directory is written.                       *)
MapPage(v, f, user) ==
    LET e == Entry(v)
        left == Free \ {f}
        x == IF Present(kernel_page_directory[e])
             THEN kernel_page_directory[e].frame
             ELSE IF left = {} THEN Null ELSE First(left)
        old == IF Present(kernel_page_directory[e])
               THEN table[x] ELSE [s \in Slots |-> Absent]
    IN  /\ pmm_bitmap' = pmm_bitmap \cup {f} \cup ({x} \cap Frames)
        /\ kernel_page_directory' =
              [kernel_page_directory EXCEPT
                  ![e] = [frame |-> x, user |-> @.user \/ user]]
        /\ table' = [table EXCEPT
                ![x] = [old EXCEPT ![Slot(v)] = [frame |-> f, user |-> user]]]

-----------------------------------------------------------------------------
(* Mutant of GrowHeap: the frame is taken before the bound is tested.      *)
GrowHeapFrameFirst ==
    /\ pc \in {"idle", "stacks"}
    /\ Free # {}
    /\ IF heap_current_end \in HeapPages
       THEN /\ MapPage(heap_current_end, First(Free), FALSE)
            /\ heap_current_end' = heap_current_end + 1
       ELSE /\ pmm_bitmap' = pmm_bitmap \cup {First(Free)}
            /\ UNCHANGED <<kernel_page_directory, table, heap_current_end>>
    /\ UNCHANGED <<page_directory, directory, cr3, content, state, code, stack,
                   command>>

(* heap_grow, one page, for any kmalloc.                                   *)
GrowHeap ==
    /\ pc \in {"idle", "stacks"}
    /\ heap_current_end \in HeapPages
    /\ Free # {}
    /\ MapPage(heap_current_end, First(Free), FALSE)
    /\ heap_current_end' = heap_current_end + 1
    /\ UNCHANGED <<page_directory, directory, cr3, content, state, code, stack,
                   command>>

(* run and exec: elf_load_from_memory maps the pages of the image into the *)
(* kernel's directory, whatever is there already.                          *)
LoadElf(program) ==
    /\ pc = "idle"
    /\ \E t \in Tasks : state[t] = "none"
    /\ pc' = "load"
    /\ image' = program
    /\ todo' = program
    /\ UNCHANGED <<pmm, vmm, heap_current_end, cr3, content, state, code, stack,
                   segment, new>>

(* A file that is not an ELF image, or one without a segment, is refused   *)
(* before any page is mapped.                                              *)
RefuseElf ==
    /\ pc = "idle"
    /\ UNCHANGED vars

(* A page of a segment gets a zeroed frame.                                *)
LoadPage ==
    /\ pc = "load" /\ todo # {}
    /\ Free # {}
    /\ MapPage(First(todo), First(Free), TRUE)
    /\ content' = [content EXCEPT ![First(Free)] = {}]
    /\ todo' = todo \ {First(todo)}
    /\ segment' = segment \cup {First(todo)}
    /\ UNCHANGED <<page_directory, directory, heap_current_end, cr3, state,
                   code, stack, pc, image, new>>

(* Out of frames: the load fails, the pages loaded so far stay.            *)
LoadFails ==
    /\ pc = "load" /\ todo # {}
    /\ Free = {}
    /\ pc' = "idle" /\ image' = {} /\ todo' = {} /\ segment' = {}
    /\ UNCHANGED <<pmm, vmm, heap_current_end, cr3, content, state, code, stack,
                   new>>

(* What the loader finds at page v of the segment: not the page it has     *)
(* just mapped, but what the directory of the interrupted task has there.  *)
Target(v) ==
    Lookup(IF cr3 = None THEN kernel_page_directory ELSE directory[cr3], v)

(* Behind the last page of a segment, which may be any, its bytes are      *)
(* copied to the addresses they are linked to, before the next segment.    *)
CopyPage ==
    /\ pc \in {"load", "copy"} /\ segment # {}
    /\ Present(Target(First(segment)))
    /\ content' = [content EXCEPT ![Target(First(segment)).frame] = image]
    /\ segment' = segment \ {First(segment)}
    /\ pc' = IF segment' = {} THEN "load" ELSE "copy"
    /\ UNCHANGED <<pmm, vmm, heap_current_end, cr3, state, code, stack, image,
                   todo, new>>

(* page_fault_handler: the interrupted task has no such page.              *)
PageFault ==
    /\ pc \in {"load", "copy"} /\ segment # {}
    /\ ~Present(Target(First(segment)))
    /\ pc' = "halted"
    /\ UNCHANGED <<pmm, vmm, heap_current_end, cr3, content, state, code, stack,
                   image, todo, segment, new>>

(* It ends in a loop that nothing leaves.                                  *)
Halted ==
    /\ pc = "halted"
    /\ UNCHANGED vars

-----------------------------------------------------------------------------
(* scheduler_create_task with is_user.                                     *)

LowTables == {e \in 0..(FirstHigh - 1) : Present(kernel_page_directory[e])}

(* Mutant of MakeDirectory: the entries of the lower part are copied too,  *)
(* not their tables.                                                       *)
MakeDirectoryShared(t) ==
    IF Free = {}
    THEN UNCHANGED <<pmm, vmm>>
    ELSE /\ pmm_bitmap' = pmm_bitmap \cup {First(Free)}
         /\ page_directory' = [page_directory EXCEPT ![t] = First(Free)]
         /\ directory' = [directory EXCEPT ![t] = kernel_page_directory]
         /\ UNCHANGED <<kernel_page_directory, table>>

(* vmm_create_user_page_dir: a frame for the directory and, as long as     *)
(* there are any, one for a copy of each table of the lower part; the      *)
(* entries of the kernel's half are copied themselves.                     *)
MakeDirectory(t) ==
    LET d == First(Free)
        left == Free \ {d}
        rank(e) == Cardinality({x \in LowTables : x < e})
        copied == {e \in LowTables : rank(e) < Cardinality(left)}
        copy(e) == Nth(left, rank(e))
    IN  IF Free = {}
        THEN UNCHANGED <<pmm, vmm>>
        ELSE /\ pmm_bitmap' = pmm_bitmap \cup {d} \cup {copy(e) : e \in copied}
             /\ table' = [x \in Tables |->
                    IF \E e \in copied : x = copy(e)
                    THEN LET e == CHOOSE e \in copied : x = copy(e)
                         IN  table[kernel_page_directory[e].frame]
                    ELSE table[x]]
             /\ page_directory' = [page_directory EXCEPT ![t] = d]
             /\ directory' = [directory EXCEPT ![t] =
                    [e \in Entries |->
                        CASE e >= FirstHigh -> kernel_page_directory[e]
                          [] e \in copied ->
                                [kernel_page_directory[e] EXCEPT
                                    !.frame = copy(e)]
                          [] OTHER -> Absent]]
             /\ UNCHANGED kernel_page_directory

CreateTask(t, entry) ==
    /\ state[t] = "none"
    /\ MakeDirectory(t)
    /\ code' = [code EXCEPT ![t] = entry]
    /\ pc' = "stacks" /\ image' = {} /\ new' = t
    /\ UNCHANGED <<heap_current_end, cr3, content, state, stack, todo, segment>>

RunProgram(t) ==
    /\ pc = "load" /\ todo = {} /\ segment = {}
    /\ \E entry \in image : CreateTask(t, entry)

UserTest(t) ==
    /\ pc = "idle"
    /\ CreateTask(t, KernelCode)

(* The user stack is 4096 bytes of the heap that begin anywhere in page b; *)
(* unless that is the first byte they end in the page behind it.  The page *)
(* where they begin and that of the entry point are made accessible, in    *)
(* the kernel's directory: b = None is a kmalloc that failed.  The task's  *)
(* directory is loaded for that, and the kernel's one afterwards, whatever *)
(* was loaded before.                                                      *)
MapStacks(b, pages) ==
    LET opened == {code[new], b} \ {None}
        page(x, s) == {v \in opened :
                          /\ kernel_page_directory[Entry(v)].frame = x
                          /\ Slot(v) = s
                          /\ Present(table[x][s])}
    IN  /\ pc = "stacks"
        /\ kernel_page_directory' = [e \in Entries |->
              [kernel_page_directory[e] EXCEPT
                  !.user = @ \/ \E v \in opened : Entry(v) = e]]
        /\ table' = [x \in Tables |-> [s \in Slots |->
              [table[x][s] EXCEPT !.user = @ \/ page(x, s) # {}]]]
        /\ stack' = [stack EXCEPT ![new] = pages]
        /\ state' = [state EXCEPT ![new] = "ready"]
        /\ cr3' = IF page_directory[new] = Null THEN cr3 ELSE None
        /\ pc' = "idle" /\ new' = None
        /\ UNCHANGED <<pmm, page_directory, directory, heap_current_end,
                       content, code, image, todo, segment>>

Mapped == {v \in HeapPages : v < heap_current_end}

TakeStacks ==
    \/ \E b \in Mapped : MapStacks(b, {b})
    \/ \E b \in Mapped : b + 1 \in Mapped /\ MapStacks(b, {b, b + 1})
    \/ (Free = {} \/ heap_current_end \notin HeapPages) /\ MapStacks(None, {})

-----------------------------------------------------------------------------
(* The reaper of timer_handler: vmm_free_user_pages frees every frame that *)
(* the lower part of the task's directory maps, the tables and last the    *)
(* directory.                                                              *)
Reap(t) ==
    LET low == {directory[t][e].frame :
                   e \in {e \in 0..(FirstHigh - 1) : Present(directory[t][e])}}
        pages == {table[x][s].frame : x \in low, s \in Slots}
    IN  /\ Reaping \/ page_directory[t] = Null
        /\ pc = "idle"
        /\ state[t] = "ready" /\ t # cr3
        /\ state' = [state EXCEPT ![t] = "gone"]
        /\ pmm_bitmap' = IF page_directory[t] = Null THEN pmm_bitmap
                         ELSE pmm_bitmap \ (pages \cup low
                                                  \cup {page_directory[t]})
        /\ page_directory' = [page_directory EXCEPT ![t] = Null]
        /\ directory' = [directory EXCEPT ![t] = [e \in Entries |-> Absent]]
        /\ UNCHANGED <<kernel_page_directory, table, heap_current_end, cr3,
                       content, code, stack, command>>

Next ==
    \/ \E t \in Ready \cup {None} : Switch(t)
    \/ GrowHeap
    \/ \E program \in Programs : LoadElf(program)
    \/ RefuseElf
    \/ LoadPage
    \/ LoadFails
    \/ CopyPage
    \/ PageFault
    \/ Halted
    \/ \E t \in Tasks : RunProgram(t) \/ UserTest(t)
    \/ TakeStacks
    \/ \E t \in Tasks : Reap(t)

Spec == Init /\ [][Next]_vars

-----------------------------------------------------------------------------
(* Properties.                                                             *)

Spaces == {kernel_page_directory} \cup {directory[t] : t \in Ready}

(* Who uses which frame: the heap, the programs, tables and directories.   *)
Uses ==
    {<<"heap", v, Lookup(kernel_page_directory, v).frame>> : v \in Mapped}
    \cup {<<"image", v, Lookup(d, v).frame>> : v \in ImagePages, d \in Spaces}
    \cup {<<"table", e, kernel_page_directory[e].frame>> : e \in Entries}
    \cup {<<"copy", <<t, e>>, directory[t][e].frame>> :
             t \in Tasks, e \in 0..(FirstHigh - 1)}
    \cup {<<"directory", t, page_directory[t]>> : t \in Tasks}

InFrames == {use \in Uses : use[3] \in Frames \ {Null}}

(* A frame in use is not free, not one of the reserved frames, and has one *)
(* use only; however many loads fail half way and however often the        *)
(* frames run out.  Frame 0 is excepted: it is nullptr, and vmm_map_page   *)
(* takes it for a table when there is no frame.                            *)
FramesHaveOneOwner ==
    /\ \A use \in InFrames : use[3] \in pmm_bitmap \ Reserved
    /\ \A use1, use2 \in InFrames : use1[3] = use2[3] => use1 = use2

(* Every frame that is not free is reserved or in use: a program that is   *)
(* loaded over another one, or not to the end, leaks none.                 *)
NoFrameLeaked ==
    pc # "stacks" => pmm_bitmap \subseteq Reserved \cup {u[3] : u \in InFrames}

(* The frames the loader writes in place of those it has just mapped, when *)
(* it runs on top of a user task: the pages that task has at the addresses *)
(* of the segment.                                                         *)
Overwritten ==
    IF cr3 = None THEN {} ELSE {Lookup(directory[cr3], v).frame : v \in segment}

(* The address space of a task does not change under it: programs that are *)
(* loaded later, even at the same addresses, and pages opened for other    *)
(* user tasks show neither in the lower part of its directory nor in the   *)
(* pages of its program.  The exception is what the code does wrong: a     *)
(* load that interrupts a user task writes into that task's pages, and     *)
(* into those another task shares with it.                                 *)
AddressSpacesArePrivate ==
    [][\A t \in Ready : t \in Ready' =>
          /\ \A v \in 0..(FirstHigh * TableSize - 1) :
                Lookup(directory[t], v)' = Lookup(directory[t], v)
          /\ \A f \in {Lookup(directory[t], v).frame : v \in ImagePages} :
                f \notin Overwritten \cup {None} => content'[f] = content[f]
      ]_vars

(* A user task can run in user mode: its code and its stack are accessible *)
(* to it in its own directory.                                             *)
UserCanRun ==
    \A t \in Ready : \A v \in {code[t]} \cup stack[t] :
        directory[t][Entry(v)].user /\ Lookup(directory[t], v).user
=============================================================================
