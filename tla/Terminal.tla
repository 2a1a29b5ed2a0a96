------------------------------- MODULE Terminal -------------------------------
(***************************************************************************)
(* Where the console writes: VGA::Terminal::putchar of src/kernel/vga.cpp  *)
(* in text mode, and vbe_console_putchar of src/drivers/vbe.cpp on a frame *)
(* buffer.                                                                 *)
(*                                                                         *)
(* Tasks print with interrupts enabled, and the timer may come between any *)
(* two statements of putchar, and between the load and the store of an     *)
(* increment: the kernel is compiled without optimisation.  The shell      *)
(* prints in the keyboard interrupt, and a user task in a system call, so  *)
(* a character of theirs is one step, between any two of a task's.         *)
(*                                                                         *)
(* terminal_row and terminal_column of the text mode and console_y and     *)
(* console_x of the other are one pair here, as one of the two is used for *)
(* good after the boot.  The characters' shapes and colours are left out,  *)
(* and so are the commands that enable interrupts while they print.        *)
(***************************************************************************)
EXTENDS Integers

CONSTANTS
    Printers,           \* the tasks that print
    Width, Height,      \* 80 by 25, or 100 by 75
    TabStop,            \* 8
    MaxRow, MaxColumn   \* bounds: nobody goes on further off the screen

ASSUME SizesAssumption ==
    /\ Width \in Nat \ {0} /\ Height \in Nat \ {0} /\ TabStop \in Nat \ {0}
    /\ MaxRow \in Nat /\ MaxRow >= Height
    /\ MaxColumn \in Nat /\ MaxColumn >= Width

VARIABLES
    vbe_active,
    row, column,
    pc,                 \* the statement of putchar each task is at
    reg,                \* the value of an increment it has loaded
    overlapped          \* somebody printed while another was in putchar

vars == <<vbe_active, row, column, pc, reg, overlapped>>

Points == {"idle",
           "first column", "load row", "store row",
           "load column", "store column",
           "wrap", "wrap column", "wrap load", "wrap store",
           "scroll", "last row", "last column"}

Bounded == row <= MaxRow /\ column <= MaxColumn

Quiet == \A t \in Printers : pc[t] = "idle"

Init ==
    /\ vbe_active \in BOOLEAN
    /\ row = 0 /\ column = 0
    /\ pc = [t \in Printers |-> "idle"]
    /\ reg = [t \in Printers |-> 0]
    /\ overlapped = FALSE

(* Text mode tests for equality, the frame buffer's console does not.      *)
Wraps(c) == IF vbe_active THEN c >= Width ELSE c = Width

(* Mutant: the frame buffer's console tests as text mode does.             *)
OverflowsExactly(r) == r = Height

Overflows(r) == IF vbe_active THEN r >= Height ELSE r = Height

-----------------------------------------------------------------------------
(* A task prints, statement by statement: a newline, or a glyph, and then  *)
(* the tests for the end of the line and of the screen.                    *)

TaskPutchar(t) ==
    /\ pc[t] = "idle"
    /\ \E s \in {"first column", "load column"} : pc' = [pc EXCEPT ![t] = s]
    /\ overlapped' = (overlapped \/ ~Quiet)
    /\ UNCHANGED <<vbe_active, row, column, reg>>

Goes(t, from, to) ==
    /\ pc[t] = from
    /\ pc' = [pc EXCEPT ![t] = to]
    /\ UNCHANGED <<vbe_active, overlapped>>

FirstColumn(t) ==
    /\ \/ Goes(t, "first column", "load row")
       \/ Goes(t, "wrap column", "wrap load")
       \/ Goes(t, "last column", "idle")
    /\ column' = 0
    /\ UNCHANGED <<row, reg>>

LoadRow(t) ==
    /\ Bounded
    /\ Goes(t, "load row", "store row") \/ Goes(t, "wrap load", "wrap store")
    /\ reg' = [reg EXCEPT ![t] = row]
    /\ UNCHANGED <<row, column>>

StoreRow(t) ==
    /\ Goes(t, "store row", "wrap") \/ Goes(t, "wrap store", "scroll")
    /\ row' = reg[t] + 1
    /\ reg' = [reg EXCEPT ![t] = 0]
    /\ UNCHANGED column

LoadColumn(t) ==
    /\ Bounded
    /\ Goes(t, "load column", "store column")
    /\ reg' = [reg EXCEPT ![t] = column]
    /\ UNCHANGED <<row, column>>

StoreColumn(t) ==
    /\ Goes(t, "store column", "wrap")
    /\ column' = reg[t] + 1
    /\ reg' = [reg EXCEPT ![t] = 0]
    /\ UNCHANGED row

TestColumn(t) ==
    /\ Goes(t, "wrap", IF Wraps(column) THEN "wrap column" ELSE "scroll")
    /\ UNCHANGED <<row, column, reg>>

TestRow(t) ==
    /\ Goes(t, "scroll", IF Overflows(row) THEN "last row" ELSE "idle")
    /\ UNCHANGED <<row, column, reg>>

(* Having scrolled, text mode also goes to the first column.               *)
LastRow(t) ==
    /\ Goes(t, "last row", IF vbe_active THEN "idle" ELSE "last column")
    /\ row' = Height - 1
    /\ UNCHANGED <<column, reg>>

-----------------------------------------------------------------------------
(* The shell prints, and clears.                                           *)

(* The column behind a character, and whether its line ends.  Text mode    *)
(* knows of no carriage return and no tabulator and draws them.            *)
Behind(c) ==
    CASE c \in {"newline", "return"} -> 0
      [] c = "backspace" -> IF column > 0 THEN column - 1 ELSE 0
      [] c = "tab" -> ((column + TabStop) \div TabStop) * TabStop
      [] OTHER -> column + 1

Characters ==
    {"newline", "backspace", "glyph"}
        \cup IF vbe_active THEN {"return", "tab"} ELSE {}

ShellPutchar(c) ==
    LET wraps == Wraps(Behind(c)) /\ (vbe_active \/ c # "backspace")
        down == row + (IF c = "newline" THEN 1 ELSE 0) + (IF wraps THEN 1 ELSE 0)
    IN  /\ c \in Characters
        /\ Bounded
        /\ row' = IF Overflows(down) THEN Height - 1 ELSE down
        /\ column' = IF wraps \/ (Overflows(down) /\ ~vbe_active)
                     THEN 0 ELSE Behind(c)
        /\ overlapped' = (overlapped \/ ~Quiet)
        /\ UNCHANGED <<vbe_active, pc, reg>>

(* clear, and gui_stop.                                                    *)
Clear ==
    /\ row' = 0 /\ column' = 0
    /\ overlapped' = ~Quiet
    /\ UNCHANGED <<vbe_active, pc, reg>>

TaskStep(t) ==
    \/ TaskPutchar(t)
    \/ FirstColumn(t) \/ LoadRow(t) \/ StoreRow(t)
    \/ LoadColumn(t) \/ StoreColumn(t) \/ TestColumn(t)
    \/ TestRow(t) \/ LastRow(t)

Next ==
    \/ \E t \in Printers : TaskStep(t)
    \/ \E c \in {"newline", "return", "backspace", "tab", "glyph"} : ShellPutchar(c)
    \/ Clear

Spec == Init /\ [][Next]_vars

-----------------------------------------------------------------------------
(* Properties.                                                             *)

TypeOK ==
    /\ vbe_active \in BOOLEAN /\ overlapped \in BOOLEAN
    /\ row \in Nat /\ column \in Nat
    /\ pc \in [Printers -> Points]
    /\ reg \in [Printers -> Nat]

(* When nobody is in putchar the next character comes on the screen.  The  *)
(* frame buffer's console finds back whatever tasks and the shell did to   *)
(* each other; in text mode, where two increments before one test of       *)
(* terminal_row take it past the last line for good, it holds until two    *)
(* have printed at once, and again after clear.                            *)
OnScreen ==
    Quiet /\ (vbe_active \/ ~overlapped) =>
        row \in 0 .. Height - 1 /\ column \in 0 .. Width - 1
=============================================================================
