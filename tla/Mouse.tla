--------------------------------- MODULE Mouse ---------------------------------
(***************************************************************************)
(* The PS/2 mouse of src/drivers/mouse.cpp: the decoding of its three-byte *)
(* packets, and the cursor, which is drawn over what the GUI has drawn and *)
(* taken off from a copy of what it covers.                                *)
(*                                                                         *)
(* A byte may be lost on its way, and a byte that mouse_init has failed to *)
(* take may come first: mouse_read gives up after a number of polls, and   *)
(* takes a key typed during boot for the mouse's answer.  The mouse's and  *)
(* the keyboard's handler both run with interrupts disabled, so a handler  *)
(* is one step.                                                            *)
(*                                                                         *)
(* The screen has PixelWidth times PixelHeight points for the 800 times    *)
(* 600, the cursor a square of CursorSize for its 10 times 10. The buttons,*)
(* which only the command mouse prints, are left out, and so are           *)
(* interrupts that bring no byte of the mouse, which change nothing.       *)
(***************************************************************************)
EXTENDS Integers, Sequences, FiniteSetsExt

CONSTANTS
    PixelWidth, PixelHeight, CursorSize,
    Shape,              \* the offsets of the cursor's points (cursor_map)
    Pictures,           \* what gui_render_vbe may draw
    Headers, Deltas,    \* the first byte, the other bytes of a packet
    None

Ack == 250              \* 0xFA, the mouse's answer to a command

XSign == 16
YSign == 32
Bit(byte, b) == (byte \div b) % 2 = 1

(* Bit 3 is set in the first byte of every packet.                         *)
Sync(byte) == Bit(byte, 8)

ASSUME ScreenAssumption ==
    /\ PixelWidth \in Nat \ {0} /\ PixelHeight \in Nat \ {0}
    /\ CursorSize \in Nat \ {0}
ASSUME BytesAssumption ==
    /\ Headers \subseteq 0..255 /\ Deltas \subseteq 0..255
    /\ \A h \in Headers : Sync(h)

Pixels == (0 .. PixelWidth - 1) \X (0 .. PixelHeight - 1)
Offsets == (0 .. CursorSize - 1) \X (0 .. CursorSize - 1)

ASSUME ShapeAssumption == Shape \subseteq Offsets

(* None is no place on the screen.                                         *)
ASSUME NoneAssumption == None \notin Int \X Int

VARIABLES
    vbe_is_active, is_in_gui_mode,      \* what the functions of that name answer
    mouse_byte,                 \* the bytes the decoder has of a packet
    mouse_x, mouse_y,
    fb,                         \* the frame buffer
    last_drawn,                 \* where the cursor was drawn, or None
    saved_cursor_pixels,
    picture,                    \* what gui_render_vbe has drawn last
    smeared,                    \* a task has printed over it since
    stray,                      \* an answer mouse_init has left behind
    phase,                      \* the byte of a packet the mouse sends next
    in_step,                    \* nothing lost, or enough calm bytes since
    calm                        \* when it is not: the bytes since the last
                                \* loss or movement that looks like a first
                                \* byte

mouse_cycle == Len(mouse_byte)

decoder == <<mouse_byte, mouse_x, mouse_y>>
cursor == <<fb, last_drawn, saved_cursor_pixels>>
stream == <<stray, phase, calm, in_step>>
screen == <<vbe_is_active, is_in_gui_mode, picture, smeared>>
mouse == <<screen, decoder, cursor, stream>>

(* So many calm bytes in a row bring the decoder back in step; the bound   *)
(* is sharp.                                                               *)
Enough == 4

(* Every picture tells all points apart, so that a point that is put back  *)
(* in a wrong place shows.                                                 *)
Drawn(p) == [q \in Pixels |-> <<p, q>>]
Console == [q \in Pixels |-> <<None, q>>]

At(p, o) == <<p[1] + o[1], p[2] + o[2]>>

(* What of a set of offsets from p is on the screen.                       *)
Clipped(p, offsets) == {At(p, o) : o \in offsets} \cap Pixels

WithCursor(f, p) == [q \in Pixels |-> IF q \in Clipped(p, Shape) THEN "cursor" ELSE f[q]]

MouseInit ==
    /\ vbe_is_active \in BOOLEAN
    /\ is_in_gui_mode = FALSE /\ picture = None /\ smeared = FALSE
    /\ mouse_byte = <<>>
    /\ mouse_x = PixelWidth \div 2 /\ mouse_y = PixelHeight \div 2
    /\ fb = Console
    /\ last_drawn = None
    /\ saved_cursor_pixels = [o \in Offsets |-> None]
    /\ stray \in BOOLEAN
    /\ phase = 0 /\ calm = 0 /\ in_step = ~stray

-----------------------------------------------------------------------------
(* The cursor.                                                             *)

(* The screen f without the cursor that is drawn at p.                     *)
Lifted(f, p) ==
    IF p = None THEN f
    ELSE [q \in Pixels |->
             IF q \in Clipped(p, Offsets)
             THEN saved_cursor_pixels[<<q[1] - p[1], q[2] - p[2]>>]
             ELSE f[q]]

(* Put back what the cursor covered, copy what it will cover, draw it.     *)
DrawCursor(f, last, p) ==
    LET under == Lifted(f, last)
    IN  /\ saved_cursor_pixels' =
              [o \in Offsets |-> IF At(p, o) \in Pixels THEN under[At(p, o)]
                                 ELSE saved_cursor_pixels[o]]
        /\ fb' = WithCursor(under, p)
        /\ last_drawn' = p

(* Mutant: gui_render_vbe does not reset the cursor.                       *)
RenderWithoutReset(p) ==
    IF vbe_is_active
    THEN /\ picture' = p /\ smeared' = FALSE
         /\ DrawCursor(Drawn(p), last_drawn, <<mouse_x, mouse_y>>)
    ELSE UNCHANGED <<picture, smeared, cursor>>

(* The GUI draws all of the screen and then the cursor, as a new one.      *)
Render(p) ==
    IF vbe_is_active
    THEN /\ picture' = p /\ smeared' = FALSE
         /\ DrawCursor(Drawn(p), None, <<mouse_x, mouse_y>>)
    ELSE UNCHANGED <<picture, smeared, cursor>>

-----------------------------------------------------------------------------
(* The mouse interrupt.                                                    *)

Clamp(v, limit) == Max({0, Min({v, limit - 1})})

(* Nine bits, of which the sign is in the first byte.                      *)
Movement(byte, negative) == IF negative THEN byte - 256 ELSE byte

(* Mutant: any byte is taken for a first one.                              *)
FirstByteAny(data) ==
    /\ mouse_cycle = 0
    /\ mouse_byte' = <<data>>
    /\ UNCHANGED <<mouse_x, mouse_y, cursor>>

FirstByte(data) ==
    /\ mouse_cycle = 0
    /\ Sync(data)
    /\ mouse_byte' = <<data>>
    /\ UNCHANGED <<mouse_x, mouse_y, cursor>>

NoFirstByte(data) ==
    /\ mouse_cycle = 0
    /\ ~Sync(data)
    /\ UNCHANGED <<decoder, cursor>>

SecondByte(data) ==
    /\ mouse_cycle = 1
    /\ mouse_byte' = Append(mouse_byte, data)
    /\ UNCHANGED <<mouse_x, mouse_y, cursor>>

ThirdByte(data) ==
    LET first == mouse_byte[1]
    IN  /\ mouse_cycle = 2
        /\ mouse_byte' = <<>>
        /\ mouse_x' = Clamp(mouse_x + Movement(mouse_byte[2], Bit(first, XSign)),
                            PixelWidth)
        /\ mouse_y' = Clamp(mouse_y - Movement(data, Bit(first, YSign)),
                            PixelHeight)
        /\ IF is_in_gui_mode /\ vbe_is_active
           THEN DrawCursor(fb, last_drawn, <<mouse_x', mouse_y'>>)
           ELSE UNCHANGED cursor

Handle(data) ==
    /\ FirstByte(data) \/ NoFirstByte(data) \/ SecondByte(data) \/ ThirdByte(data)
    /\ UNCHANGED screen

(* The first byte may be the answer mouse_init has not taken.              *)
StrayByte ==
    /\ stray
    /\ Handle(Ack)
    /\ stray' = FALSE
    /\ UNCHANGED <<phase, calm, in_step>>

(* The mouse sends its packets byte by byte.                               *)
Sends(byte) ==
    /\ ~stray
    /\ byte \in IF phase = 0 THEN Headers ELSE Deltas
    /\ phase' = (phase + 1) % 3
    /\ UNCHANGED stray

IsCalm(byte) == phase = 0 \/ ~Sync(byte)

ByteComes(byte) ==
    /\ Sends(byte)
    /\ Handle(byte)
    /\ in_step' = (in_step \/ (calm + 1 = Enough /\ IsCalm(byte)))
    /\ calm' = IF in_step' \/ ~IsCalm(byte) THEN 0 ELSE calm + 1

ByteLost ==
    /\ \E byte \in Headers \cup Deltas : Sends(byte)
    /\ calm' = 0 /\ in_step' = FALSE
    /\ UNCHANGED <<screen, decoder, cursor>>

-----------------------------------------------------------------------------
(* The GUI and the console.                                                *)

(* gui, or a key in the GUI.                                               *)
GuiDraws(p) ==
    /\ is_in_gui_mode' = TRUE
    /\ Render(p)
    /\ UNCHANGED <<vbe_is_active, decoder, stream>>

(* gui_stop clears the console and forgets nothing of the cursor.          *)
GuiStops ==
    /\ is_in_gui_mode
    /\ is_in_gui_mode' = FALSE
    /\ fb' = Console
    /\ UNCHANGED <<vbe_is_active, picture, smeared, last_drawn,
                   saved_cursor_pixels, decoder, stream>>

(* A task that prints while the GUI is on writes over it, and scrolls it.  *)
TaskPrints ==
    /\ vbe_is_active /\ is_in_gui_mode
    /\ fb' = Console
    /\ smeared' = TRUE
    /\ UNCHANGED <<vbe_is_active, is_in_gui_mode, picture, last_drawn,
                   saved_cursor_pixels, decoder, stream>>

MouseNext ==
    \/ StrayByte
    \/ \E byte \in Headers \cup Deltas : ByteComes(byte)
    \/ ByteLost
    \/ \E p \in Pictures : GuiDraws(p)
    \/ GuiStops
    \/ TaskPrints

MouseSpec == MouseInit /\ [][MouseNext]_mouse

-----------------------------------------------------------------------------
(* Properties.                                                             *)

(* The decoder takes the byte the mouse means: as long as nothing is lost, *)
(* and after a loss, or after a stray answer at boot, as soon as enough    *)
(* bytes came of a mouse that moves so little that its movements do not    *)
(* look like first bytes.                                                  *)
InStep == in_step /\ ~stray => mouse_cycle = phase

(* In the GUI the screen is what was drawn last with the cursor where the  *)
(* mouse is, also at the edges of the screen: the cursor leaves no trace   *)
(* of where it was, not even of where it was before the GUI was left, or   *)
(* before a task printed and the GUI was drawn again.                      *)
CursorShown ==
    vbe_is_active /\ is_in_gui_mode /\ ~smeared =>
        fb = WithCursor(Drawn(picture), <<mouse_x, mouse_y>>)

=============================================================================
