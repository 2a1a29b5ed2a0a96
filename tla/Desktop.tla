-------------------------------- MODULE Desktop --------------------------------
(***************************************************************************)
(* The desktop of src/kernel/gui.cpp: its five windows, the start menu,    *)
(* the window of services with src/kernel/services.cpp behind it, and the  *)
(* terminal window.  What the explorer and the viewer show is in Gui.      *)
(*                                                                         *)
(* A key is handled in the keyboard interrupt with interrupts disabled: a  *)
(* step.  Lines of the terminal are numbered as they are printed.          *)
(***************************************************************************)
EXTENDS Integers, Sequences

CONSTANTS
    Rows,           \* the lines of the terminal window (9)
    MaxInput,       \* the longest input line of the terminal (40)
    Services,       \* the number of services (6)
    MaxPrinted      \* bound: the lines printed without a clear

ASSUME RowsAssumption == Rows \in Nat \ {0}
ASSUME MaxInputAssumption == MaxInput \in Nat
ASSUME ServicesAssumption == Services \in Nat \ {0}

VARIABLES
    gui_active, active_window, window_visible,
    start_menu_open, start_menu_selected,
    services_list,          \* which services are running
    sys_services,           \* the same as the window shows it
    service_selected_index,
    term_lines, term_input_len,
    printed                 \* the lines printed since the terminal was empty

windows == <<active_window, window_visible>>
menu == <<start_menu_open, start_menu_selected>>
services == <<services_list, sys_services, service_selected_index>>
terminal == <<term_lines, term_input_len, printed>>
desktop == <<gui_active, windows, menu, services, terminal>>

Help == 0
Explorer == 1
ServiceWindow == 2
Viewer == 3
TerminalWindow == 4

Separator == 4          \* the entry of the menu that is a line

DesktopInit ==
    /\ gui_active = FALSE
    /\ active_window = Help /\ window_visible = {Help}
    /\ start_menu_open = FALSE /\ start_menu_selected = 0
    /\ services_list = [i \in 1..Services |-> TRUE]
    /\ sys_services = <<>> /\ service_selected_index = 0
    /\ term_lines = <<>> /\ term_input_len = 0
    /\ printed = 0

-----------------------------------------------------------------------------
(* The terminal window.                                                    *)

(* Mutant of TermPrint: a line too few is kept when the window scrolls.    *)
TermPrintScrollsTwo(lines, text) ==
    Append(IF Len(lines) >= Rows THEN SubSeq(lines, 3, Rows) ELSE lines, text)

(* term_print: the window scrolls up by a line if it is full.              *)
TermPrint(lines, text) ==
    Append(IF Len(lines) >= Rows THEN SubSeq(lines, 2, Rows) ELSE lines, text)

(* The terminal after n more lines.                                        *)
Prints(lines, from, n) ==
    LET after[k \in 0..n] ==
            IF k = 0 THEN lines ELSE TermPrint(after[k - 1], from + k)
    IN  after[n]

PrintLines(n) ==
    /\ printed + n <= MaxPrinted
    /\ term_lines' = Prints(term_lines, printed, n)
    /\ printed' = printed + n

(* term_init: three lines of greeting.                                     *)
TermInit ==
    /\ term_lines' = Prints(<<>>, 0, 3)
    /\ printed' = 3
    /\ term_input_len' = 0

(* term_execute: the prompt, and the answer, of one line or of the six     *)
(* of neofetch; clear empties the window; the empty line has no answer.    *)
TermExecute ==
    \/ term_input_len = 0 /\ PrintLines(1)
    \/ term_input_len > 0 /\ \E answer \in {1, 6} : PrintLines(1 + answer)
    \/ term_input_len > 0 /\ term_lines' = <<>> /\ printed' = 0

-----------------------------------------------------------------------------
(* Entering and leaving the GUI.                                           *)

GuiStart ==
    /\ ~gui_active
    /\ gui_active' = TRUE
    /\ active_window' = Help /\ window_visible' = {Help}
    /\ start_menu_open' = FALSE /\ start_menu_selected' = 0
    /\ TermInit
    /\ sys_services' = services_list
    /\ UNCHANGED <<services_list, service_selected_index>>

(* Esc with the menu closed.                                               *)
GuiStop ==
    /\ gui_active /\ ~start_menu_open
    /\ gui_active' = FALSE
    /\ UNCHANGED <<windows, menu, services, terminal>>

(* The machine starts anew: the services run, the GUI is off.              *)
Restart ==
    /\ gui_active' = FALSE
    /\ active_window' = Help /\ window_visible' = {Help}
    /\ start_menu_open' = FALSE /\ start_menu_selected' = 0
    /\ services_list' = [i \in 1..Services |-> TRUE]
    /\ sys_services' = <<>> /\ service_selected_index' = 0
    /\ term_lines' = <<>> /\ term_input_len' = 0
    /\ printed' = 0

-----------------------------------------------------------------------------
(* The start menu.                                                         *)

(* F5.                                                                     *)
ToggleMenu ==
    /\ gui_active
    /\ start_menu_open' = ~start_menu_open
    /\ start_menu_selected' = IF start_menu_open THEN start_menu_selected ELSE 0
    /\ UNCHANGED <<gui_active, windows, services, terminal>>

InMenu == gui_active /\ start_menu_open

(* The arrows pass over the separator and wrap around.                     *)
MenuDown ==
    LET next == IF start_menu_selected + 1 = Separator THEN start_menu_selected + 2
                ELSE start_menu_selected + 1
    IN  /\ InMenu
        /\ start_menu_selected' = IF next > 6 THEN 0 ELSE next
        /\ UNCHANGED <<gui_active, windows, start_menu_open, services, terminal>>

(* Mutant of MenuUp: it stops on the separator.                            *)
MenuUpToSeparator ==
    /\ InMenu
    /\ start_menu_selected' = IF start_menu_selected = 0 THEN 6
                              ELSE start_menu_selected - 1
    /\ UNCHANGED <<gui_active, windows, start_menu_open, services, terminal>>

MenuUp ==
    LET next == IF start_menu_selected - 1 = Separator THEN start_menu_selected - 2
                ELSE start_menu_selected - 1
    IN  /\ InMenu
        /\ start_menu_selected' = IF next < 0 THEN 6 ELSE next
        /\ UNCHANGED <<gui_active, windows, start_menu_open, services, terminal>>

MenuClose ==
    /\ InMenu
    /\ start_menu_open' = FALSE
    /\ UNCHANGED <<gui_active, windows, start_menu_selected, services, terminal>>

(* A window is shown, has the focus, and its list is fetched.              *)
Open(w) ==
    /\ active_window' = w
    /\ window_visible' = window_visible \cup {w}
    /\ sys_services' = IF w = ServiceWindow THEN services_list ELSE sys_services
    /\ UNCHANGED <<services_list, service_selected_index>>

(* Enter on one of the first four entries.                                 *)
MenuOpen ==
    /\ InMenu /\ start_menu_selected \in 0..3
    /\ start_menu_open' = FALSE
    /\ Open(<<TerminalWindow, Explorer, ServiceWindow, Help>>[start_menu_selected + 1])
    /\ UNCHANGED <<gui_active, start_menu_selected, terminal>>

(* Enter on reboot or on shutdown, which has no effect on machines that    *)
(* know none of the three ports it writes.                                 *)
MenuPower ==
    /\ InMenu /\ start_menu_selected \in 5..6
    /\ \/ Restart
       \/ /\ start_menu_selected = 6
          /\ start_menu_open' = FALSE
          /\ UNCHANGED <<gui_active, windows, start_menu_selected, services,
                         terminal>>

-----------------------------------------------------------------------------
(* The windows.  Keys that the menu does not take go to them while it is   *)
(* open, too: all but the arrows, Enter and Esc.                           *)

(* F1, F2 and F3.                                                          *)
OpenWindow ==
    /\ gui_active
    /\ \E w \in {Help, Explorer, ServiceWindow} : Open(w)
    /\ UNCHANGED <<gui_active, menu, terminal>>

CloseViewer ==
    /\ window_visible' = window_visible \ {Viewer}
    /\ active_window' = Explorer

(* F4.                                                                     *)
ToggleViewer ==
    /\ gui_active
    /\ IF active_window = Viewer THEN CloseViewer
       ELSE /\ active_window' = Viewer
            /\ window_visible' = window_visible \cup {Viewer}
    /\ UNCHANGED <<gui_active, menu, services, terminal>>

In(w) == gui_active /\ active_window = w /\ w \in window_visible

BackspaceInViewer ==
    /\ In(Viewer)
    /\ CloseViewer
    /\ UNCHANGED <<gui_active, menu, services, terminal>>

(* Enter on a file of the explorer, if it can be read.                     *)
EnterFile ==
    /\ In(Explorer) /\ ~start_menu_open
    /\ active_window' = Viewer
    /\ window_visible' = window_visible \cup {Viewer}
    /\ UNCHANGED <<gui_active, menu, services, terminal>>

SelectService ==
    /\ In(ServiceWindow) /\ ~start_menu_open
    /\ \/ /\ service_selected_index < Len(sys_services) - 1
          /\ service_selected_index' = service_selected_index + 1
       \/ /\ service_selected_index > 0
          /\ service_selected_index' = service_selected_index - 1
    /\ UNCHANGED <<gui_active, windows, menu, services_list, sys_services, terminal>>

(* toggle_service looks for the selected service by its name.              *)
ToggleService ==
    /\ In(ServiceWindow) /\ ~start_menu_open
    /\ Len(sys_services) > 0
    /\ services_list' = [services_list EXCEPT ![service_selected_index + 1] = ~@]
    /\ sys_services' = services_list'
    /\ UNCHANGED <<gui_active, windows, menu, service_selected_index, terminal>>

TermEnter ==
    /\ In(TerminalWindow) /\ ~start_menu_open
    /\ TermExecute
    /\ term_input_len' = 0
    /\ UNCHANGED <<gui_active, windows, menu, services>>

(* The command shutdown; where it has an effect, the machine starts anew.  *)
TermShutdown ==
    /\ In(TerminalWindow) /\ ~start_menu_open
    /\ term_input_len > 0
    /\ Restart

TermKey ==
    /\ In(TerminalWindow)
    /\ \/ term_input_len < MaxInput /\ term_input_len' = term_input_len + 1
       \/ term_input_len > 0 /\ term_input_len' = term_input_len - 1
    /\ UNCHANGED <<gui_active, windows, menu, services, term_lines, printed>>

DesktopNext ==
    \/ GuiStart \/ GuiStop
    \/ ToggleMenu \/ MenuDown \/ MenuUp \/ MenuClose \/ MenuOpen \/ MenuPower
    \/ OpenWindow \/ ToggleViewer \/ BackspaceInViewer \/ EnterFile
    \/ SelectService \/ ToggleService
    \/ TermEnter \/ TermShutdown \/ TermKey

DesktopSpec == DesktopInit /\ [][DesktopNext]_desktop

-----------------------------------------------------------------------------
(* Properties.                                                             *)

(* Any key has something to act upon: in the menu an entry that is none    *)
(* but the separator, in the service window a service, and otherwise a     *)
(* window that is on the screen.  The exception is what the code does when *)
(* the viewer is closed: the focus goes to the explorer, be it open or not.*)
KeysHaveTarget ==
    gui_active =>
        /\ start_menu_selected \in (0..6) \ {Separator}
        /\ active_window \in window_visible \cup {Explorer}
        /\ service_selected_index < Len(sys_services)

(* The terminal shows the last lines that were printed since it was empty, *)
(* in their order and as many as it has room for.                          *)
TermShowsLast ==
    LET n == IF printed < Rows THEN printed ELSE Rows
    IN  term_lines = [i \in 1..n |-> printed - n + i]
=============================================================================
