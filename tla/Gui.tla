--------------------------------- MODULE Gui ---------------------------------
(***************************************************************************)
(* The windows of src/kernel/gui.cpp on top of the file system: which one  *)
(* is active, the start menu, the file explorer's listing and the viewer.  *)
(*                                                                         *)
(* keyboard_handler gives every key to gui_handle_key while the GUI is on  *)
(* and to the shell while it is off, in the interrupt: a key is a step.    *)
(* Left out: drawing, the place in the start menu, the input line of the   *)
(* terminal window and the list of services, which no action here needs.   *)
(***************************************************************************)
EXTENDS FileTree

CONSTANT MaxFiles       \* the entries of dir_files (12)

ASSUME MaxFilesAssumption == MaxFiles \in Nat

(* The windows; the help, the terminal and the services are as one here,   *)
(* as opening any of them only makes it the active one.                    *)
Windows == {"plain", "explorer", "viewer"}

VARIABLES
    gui_active, active_window, window_visible, start_menu_open,
    current_dir, dir_files, file_selected_index,
    viewer_content          \* a pointer: the buffer the viewer shows, or None

explorer == <<current_dir, dir_files, file_selected_index>>
windows == <<active_window, window_visible>>
guiVars == <<gui_active, windows, start_menu_open, explorer, viewer_content>>
vars == <<files, guiVars>>

(* Mutant of ListFiles: all children, however many entries there are.      *)
ListFilesUnbounded(path) ==
    LET dir_idx == Find(vfs_nodes, path)
    IN  IF dir_idx = None THEN <<>> ELSE Children(vfs_nodes, dir_idx)

(* api_list_files: at most MaxFiles children of the directory; none if     *)
(* there is no such path.                                                  *)
ListFiles(path) ==
    LET dir_idx == Find(vfs_nodes, path)
        shown(children) ==
            SubSeq(children, 1,
                   IF Len(children) < MaxFiles THEN Len(children) ELSE MaxFiles)
    IN  IF dir_idx = None THEN <<>> ELSE shown(Children(vfs_nodes, dir_idx))

GuiInit ==
    /\ Init
    /\ gui_active = FALSE
    /\ active_window = "plain"
    /\ window_visible = {"plain"}
    /\ start_menu_open = FALSE
    /\ current_dir = RootPath
    /\ dir_files = <<>> /\ file_selected_index = 0
    /\ viewer_content = None

(* While the GUI is off the keys go to the shell.                          *)
Shell == ~gui_active /\ ShellCommand /\ UNCHANGED guiVars

(* Mutant of GuiStart: the listing is not refreshed.                       *)
GuiStartWithoutRefresh ==
    /\ ~gui_active
    /\ gui_active' = TRUE
    /\ active_window' = "plain"
    /\ window_visible' = {"plain"}
    /\ start_menu_open' = FALSE
    /\ UNCHANGED <<files, explorer, viewer_content>>

(* gui_start: the explorer's directory and the viewer stay as they were.   *)
GuiStart ==
    /\ ~gui_active
    /\ gui_active' = TRUE
    /\ active_window' = "plain"
    /\ window_visible' = {"plain"}
    /\ start_menu_open' = FALSE
    /\ dir_files' = ListFiles(current_dir)
    /\ UNCHANGED <<files, current_dir, file_selected_index, viewer_content>>

-----------------------------------------------------------------------------
(* gui_handle_key.                                                         *)

(* F5.                                                                     *)
ToggleMenu ==
    /\ gui_active
    /\ start_menu_open' = ~start_menu_open
    /\ UNCHANGED <<files, gui_active, windows, explorer, viewer_content>>

(* Esc with the menu open.                                                *)
MenuClose ==
    /\ gui_active /\ start_menu_open
    /\ start_menu_open' = FALSE
    /\ UNCHANGED <<files, gui_active, windows, explorer, viewer_content>>

Open(w) ==
    /\ active_window' = w
    /\ window_visible' = window_visible \cup {w}
    /\ dir_files' = IF w = "explorer" THEN ListFiles(current_dir) ELSE dir_files
    /\ UNCHANGED <<current_dir, file_selected_index>>

(* Enter in the menu, on the entry of a window; the arrows reach them all, *)
(* and two more that reboot and shut down the machine.                     *)
MenuEnter ==
    /\ gui_active /\ start_menu_open
    /\ start_menu_open' = FALSE
    /\ \E w \in {"plain", "explorer"} : Open(w)
    /\ UNCHANGED <<files, gui_active, viewer_content>>

(* F1, F2 and F3; like all keys below also when the menu is open, unless   *)
(* the menu takes them.                                                    *)
OpenWindow ==
    /\ gui_active
    /\ \E w \in {"plain", "explorer"} : Open(w)
    /\ UNCHANGED <<files, gui_active, start_menu_open, viewer_content>>

CloseViewer ==
    /\ window_visible' = window_visible \ {"viewer"}
    /\ active_window' = "explorer"

(* F4 opens the viewer or closes it, backspace closes it.                  *)
ToggleViewer ==
    /\ gui_active
    /\ \/ active_window = "viewer" /\ CloseViewer
       \/ /\ active_window # "viewer"
          /\ active_window' = "viewer"
          /\ window_visible' = window_visible \cup {"viewer"}
    /\ UNCHANGED <<files, gui_active, start_menu_open, explorer, viewer_content>>

BackspaceInViewer ==
    /\ gui_active
    /\ active_window = "viewer" /\ "viewer" \in window_visible
    /\ CloseViewer
    /\ UNCHANGED <<files, gui_active, start_menu_open, explorer, viewer_content>>

(* Esc with the menu closed: gui_stop.                                     *)
GuiStop ==
    /\ gui_active /\ ~start_menu_open
    /\ gui_active' = FALSE
    /\ UNCHANGED <<files, windows, start_menu_open, explorer, viewer_content>>

(* The keys of the file explorer; while the menu is open it takes all of   *)
(* them but backspace.                                                     *)
InExplorer ==
    gui_active /\ active_window = "explorer" /\ "explorer" \in window_visible

Select ==
    /\ InExplorer /\ ~start_menu_open
    /\ \/ /\ file_selected_index < Len(dir_files) - 1
          /\ file_selected_index' = file_selected_index + 1
       \/ /\ file_selected_index > 0
          /\ file_selected_index' = file_selected_index - 1
    /\ UNCHANGED <<files, gui_active, windows, start_menu_open, current_dir,
                   dir_files, viewer_content>>

(* Mutant of ShowDir: the selection stays where it was.                    *)
ShowDirKeepingSelection(dir) ==
    /\ current_dir' = dir
    /\ dir_files' = ListFiles(dir)
    /\ UNCHANGED file_selected_index

(* refresh_file_list with a new current_dir; the selection begins anew.    *)
ShowDir(dir) ==
    /\ current_dir' = dir
    /\ dir_files' = ListFiles(dir)
    /\ file_selected_index' = 0

Selected == vfs_nodes[dir_files[file_selected_index + 1]]

(* Enter on a directory, which shows the directory of that name in the     *)
(* root; from any other directory it only starts the listing afresh.       *)
EnterDir ==
    /\ InExplorer /\ ~start_menu_open
    /\ Len(dir_files) > 0
    /\ Selected.dir
    /\ ShowDir(IF current_dir = RootPath THEN <<"", Name(Selected.path)>>
               ELSE current_dir)
    /\ UNCHANGED <<files, gui_active, windows, start_menu_open, viewer_content>>

(* Enter on a file opens the viewer on the file of that name in            *)
(* current_dir, if there is one and it has content.                        *)
EnterFile ==
    LET path == IF current_dir = RootPath THEN <<"", Name(Selected.path)>>
                ELSE Append(current_dir, Name(Selected.path))
        idx == Find(vfs_nodes, path)
    IN  /\ InExplorer /\ ~start_menu_open
        /\ Len(dir_files) > 0
        /\ ~Selected.dir
        /\ idx # None /\ ~vfs_nodes[idx].dir /\ vfs_nodes[idx].data # None
        /\ viewer_content' = vfs_nodes[idx].data
        /\ active_window' = "viewer"
        /\ window_visible' = window_visible \cup {"viewer"}
        /\ UNCHANGED <<files, gui_active, start_menu_open, explorer>>

BackspaceInExplorer ==
    /\ InExplorer
    /\ current_dir # RootPath
    /\ ShowDir(RootPath)
    /\ UNCHANGED <<files, gui_active, windows, start_menu_open, viewer_content>>

Next ==
    \/ Shell \/ GuiStart \/ GuiStop
    \/ ToggleMenu \/ MenuClose \/ MenuEnter
    \/ OpenWindow \/ ToggleViewer \/ BackspaceInViewer
    \/ Select \/ EnterDir \/ EnterFile \/ BackspaceInExplorer

Spec == GuiInit /\ [][Next]_vars

-----------------------------------------------------------------------------
(* Properties.                                                             *)

TypeOK ==
    /\ FilesTypeOK
    /\ gui_active \in BOOLEAN
    /\ active_window \in Windows
    /\ window_visible \subseteq Windows
    /\ start_menu_open \in BOOLEAN
    /\ current_dir \in {RootPath} \cup {<<"", Name(p)>> : p \in AllPaths}
    /\ dir_files \in Seq(DOMAIN vfs_nodes) /\ Len(dir_files) <= MaxFiles
    /\ viewer_content \in Buffers \cup {None}

(* The explorer's selection is one of the files listed: Enter takes        *)
(* dir_files[file_selected_index] after testing only that there are any.   *)
(* The selection survives leaving the GUI, creating files and coming back. *)
SelectionInRange == file_selected_index < Len(dir_files) \/ file_selected_index = 0

(* While the GUI is on, the explorer shows what is in its directory, also  *)
(* after files were created in the shell or another directory was entered. *)
ListingFresh == gui_active => dir_files = ListFiles(current_dir)

(* What the viewer shows is the content of a file: not a buffer that was   *)
(* freed because the file was written to since it was opened.              *)
ViewerShowsFile ==
    gui_active /\ "viewer" \in window_visible /\ viewer_content # None =>
        \E i \in DOMAIN vfs_nodes : vfs_nodes[i].data = viewer_content
=============================================================================
