----------------------------- MODULE ScreenProofs -----------------------------
(***************************************************************************)
(* Theorems about what is on the screen: the characters of the console     *)
(* (Terminal), the windows of the desktop (Desktop) and the cursor of the  *)
(* mouse (Mouse), three state machines side by side.  They hold            *)
(* for every size of the screen, any number of tasks that print, and every *)
(* order of keys and bytes.                                                *)
(***************************************************************************)
EXTENDS Terminal, Desktop, Mouse, SequenceTheorems, WellFoundedInduction, TLAPS

-----------------------------------------------------------------------------
(* The characters of the console.                                          *)

(* Names for the two Boolean variables, which the provers take as they are *)
(* where they reason about numbers.                                        *)
Vbe == vbe_active
Alone == ~overlapped

(* The frame buffer's console: whoever takes the row, or the column, off   *)
(* the screen still has the test for it before him, or what follows it.    *)
Hands == {"wrap", "wrap column", "wrap load", "wrap store", "scroll", "last row"}

RowInHand ==
    Vbe /\ row >= Height =>
        \E t \in Printers : pc[t] \in Hands

ColumnInHand ==
    Vbe /\ column >= Width =>
        \E t \in Printers : pc[t] \in {"wrap", "wrap column"}

(* Text mode, while nobody has printed at the same time as another: how    *)
(* far off the screen the position can be at each statement.               *)
AtStatement(t) ==
    /\ pc[t] \in {"idle", "first column", "load column"} => row < Height /\ column < Width
    /\ pc[t] \in {"load row", "wrap load"} => row < Height /\ column = 0
    /\ pc[t] \in {"store row", "wrap store"} => reg[t] < Height /\ column = 0
    /\ pc[t] = "store column" => row < Height /\ reg[t] < Width
    /\ pc[t] = "wrap" => \/ row <= Height /\ column < Width
                         \/ row < Height /\ column = Width
    /\ pc[t] = "wrap column" => row < Height
    /\ pc[t] \in {"scroll", "last row"} => row <= Height /\ column < Width
    /\ pc[t] = "last column" => row < Height

OneAtATime ==
    ~Vbe /\ Alone =>
        /\ Quiet => row < Height /\ column < Width
        /\ \A t \in Printers : pc[t] # "idle" =>
              AtStatement(t) /\ \A u \in Printers \ {t} : pc[u] = "idle"

Inv == TypeOK /\ RowInHand /\ ColumnInHand /\ OneAtATime

-----------------------------------------------------------------------------

(* The column behind a character is a natural number.                      *)
LEMMA BehindIsNat ==
    ASSUME TypeOK, NEW c
    PROVE  Behind(c) \in Nat
<1>1. CASE c \in {"newline", "return"}
  BY <1>1 DEF Behind
<1>2. CASE c = "backspace"
  BY <1>2 DEF Behind, TypeOK
<1>3. CASE c = "tab"
  <2>1. TabStop \in Nat /\ TabStop > 0
    BY SizesAssumption
  <2>2. column + TabStop \in Nat
    BY <2>1 DEF TypeOK
  <2>3. (column + TabStop) \div TabStop \in Nat
    BY <2>1, <2>2
  <2> DEFINE stops == (column + TabStop) \div TabStop
  <2>4. stops * TabStop \in Nat
    <3> HIDE DEF stops
    <3>1. stops \in Nat
      BY <2>3 DEF stops
    <3> QED
      BY <3>1, <2>1
  <2> QED
    BY <1>3, <2>4 DEF Behind
<1>4. CASE c \notin {"newline", "return", "backspace", "tab"}
  BY <1>4 DEF Behind, TypeOK
<1> QED
  BY <1>1, <1>2, <1>3, <1>4

(* A cleared screen, with nobody in putchar.                               *)
LEMMA InitInv == Init => Inv
<1> SUFFICES ASSUME Init PROVE Inv
  OBVIOUS
<1>1. TypeOK
  BY DEF Init, TypeOK, Points
<1>2. Height > 0 /\ Width > 0 /\ Height \in Nat /\ Width \in Nat
  BY SizesAssumption
<1>3. RowInHand /\ ColumnInHand
  BY <1>2 DEF Init, RowInHand, ColumnInHand
<1>4. OneAtATime
  BY <1>2 DEF Init, OneAtATime, Quiet
<1> QED
  BY <1>1, <1>3, <1>4 DEF Inv

(* What a statement of one task does to the counters of all.               *)
LEMMA GoesTo ==
    ASSUME TypeOK, NEW t \in Printers, NEW from, NEW to, Goes(t, from, to)
    PROVE  /\ pc[t] = from /\ pc'[t] = to
           /\ \A u \in Printers \ {t} : pc'[u] = pc[u]
           /\ to \in Points => pc' \in [Printers -> Points]
           /\ UNCHANGED <<vbe_active, overlapped>>
BY DEF Goes, TypeOK

(* Which console is used is settled by two variables.                      *)
LEMMA Flags ==
    ASSUME UNCHANGED <<vbe_active, overlapped>>
    PROVE  (Vbe' <=> Vbe) /\ (Alone' <=> Alone)
BY DEF Vbe, Alone

(* The row stays in somebody's hand if a statement takes it off the screen *)
(* only to a point before its test, and leaves it there only when another  *)
(* task has it in hand; and the same of the column.                        *)
LEMMA RowStaysInHand ==
    ASSUME RowInHand, NEW t \in Printers,
           \A u \in Printers \ {t} : pc'[u] = pc[u],
           Vbe' <=> Vbe,
           row' >= Height => pc'[t] \in Hands \/ (row >= Height /\ pc[t] \notin Hands)
    PROVE  RowInHand'
BY DEF RowInHand

(* The same for the column: a step of one task that does not take it off   *)
(* the screen leaves the test for it with whoever had it.                  *)
LEMMA ColumnStaysInHand ==
    ASSUME ColumnInHand, NEW t \in Printers,
           \A u \in Printers \ {t} : pc'[u] = pc[u],
           Vbe' <=> Vbe,
           column' >= Width => \/ pc'[t] \in {"wrap", "wrap column"}
                               \/ column >= Width /\ pc[t] \notin {"wrap", "wrap column"}
    PROVE  ColumnInHand'
BY DEF ColumnInHand

(* In text mode it is enough to look at the one task that prints.          *)
LEMMA OneStatement ==
    ASSUME OneAtATime, NEW t \in Printers,
           pc[t] # "idle",
           \A u \in Printers \ {t} : pc'[u] = pc[u],
           Vbe' <=> Vbe, Alone' <=> Alone,
           ~Vbe /\ AtStatement(t) => AtStatement(t)'
    PROVE  OneAtATime'
<1> SUFFICES ASSUME ~Vbe', Alone'
             PROVE  /\ Quiet' => row' < Height /\ column' < Width
                    /\ \A v \in Printers : pc'[v] # "idle" =>
                          AtStatement(v)' /\ \A u \in Printers \ {v} : pc'[u] = "idle"
  BY DEF OneAtATime
<1>1. AtStatement(t) /\ \A u \in Printers \ {t} : pc[u] = "idle"
  BY DEF OneAtATime
<1>2. AtStatement(t)'
  BY <1>1
<1>3. Quiet' => row' < Height /\ column' < Width
  BY <1>2 DEF Quiet, AtStatement
<1>4. ASSUME NEW v \in Printers, pc'[v] # "idle"
      PROVE  AtStatement(v)' /\ \A u \in Printers \ {v} : pc'[u] = "idle"
  <2>1. v = t
    BY <1>1, <1>4
  <2> QED
    BY <1>1, <1>2, <2>1
<1> QED
  BY <1>3, <1>4

(* A task begins to print.                                                 *)
LEMMA PutcharKeepsInv ==
    ASSUME Inv, NEW t \in Printers, TaskPutchar(t)
    PROVE  Inv'
<1>1. PICK s \in {"first column", "load column"} : pc' = [pc EXCEPT ![t] = s]
  BY DEF TaskPutchar
<1>2. /\ pc[t] = "idle" /\ pc'[t] = s
      /\ \A u \in Printers \ {t} : pc'[u] = pc[u]
      /\ overlapped' = (overlapped \/ ~Quiet)
      /\ UNCHANGED <<vbe_active, row, column, reg>>
  BY <1>1 DEF TaskPutchar, Inv, TypeOK
<1>3. TypeOK'
  BY <1>1, <1>2 DEF Inv, TypeOK, Quiet, Points
<1>4. RowInHand' /\ ColumnInHand'
  <2>1. Vbe' <=> Vbe
    BY <1>2 DEF Vbe
  <2> QED
    BY <1>2, <2>1, RowStaysInHand, ColumnStaysInHand DEF Inv, Hands
<1>5. OneAtATime'
  <2> SUFFICES ASSUME ~Vbe', Alone'
               PROVE  /\ Quiet' => row' < Height /\ column' < Width
                      /\ \A v \in Printers : pc'[v] # "idle" =>
                            AtStatement(v)' /\ \A u \in Printers \ {v} : pc'[u] = "idle"
    BY DEF OneAtATime
  <2>1. ~Vbe /\ Alone /\ Quiet
    BY <1>2 DEF Vbe, Alone
  <2>2. row < Height /\ column < Width
    BY <2>1 DEF Inv, OneAtATime
  <2>3. AtStatement(t)'
    BY <1>2, <2>2 DEF AtStatement
  <2> QED
    BY <1>2, <2>1, <2>2, <2>3 DEF Quiet
<1> QED
  BY <1>3, <1>4, <1>5 DEF Inv

(* The statements of putchar.                                              *)
LEMMA StatementKeepsInv ==
    ASSUME Inv, NEW t \in Printers, TaskStep(t), ~TaskPutchar(t)
    PROVE  Inv'
<1>1. /\ Height > 0 /\ Width > 0 /\ Height \in Nat /\ Width \in Nat
      /\ row \in Nat /\ column \in Nat /\ reg[t] \in Nat /\ reg \in [Printers -> Nat]
  BY SizesAssumption DEF Inv, TypeOK
<1> DEFINE Moved ==
      /\ pc[t] # "idle" /\ pc' \in [Printers -> Points]
      /\ \A u \in Printers \ {t} : pc'[u] = pc[u]
      /\ UNCHANGED <<vbe_active, overlapped>>
      /\ row' \in Nat /\ column' \in Nat /\ reg' \in [Printers -> Nat]
    Row == Vbe /\ row' >= Height =>
              pc'[t] \in Hands \/ (row >= Height /\ pc[t] \notin Hands)
    Column == Vbe /\ column' >= Width =>
                 \/ pc'[t] \in {"wrap", "wrap column"}
                 \/ column >= Width /\ pc[t] \notin {"wrap", "wrap column"}
    One == ~Vbe /\ AtStatement(t) => AtStatement(t)'
<1>2. SUFFICES Moved /\ Row /\ Column /\ One
  <2>1. (Vbe' <=> Vbe) /\ (Alone' <=> Alone)
    BY <1>2, Flags
  <2>2. TypeOK'
    BY <1>2 DEF Inv, TypeOK
  <2>3. RowInHand'
    BY <1>2, <2>1, RowStaysInHand DEF Inv, RowInHand
  <2>4. ColumnInHand'
    BY <1>2, <2>1, ColumnStaysInHand DEF Inv, ColumnInHand
  <2>5. OneAtATime'
    BY <1>2, <2>1, OneStatement DEF Inv
  <2> QED
    BY <2>2, <2>3, <2>4, <2>5 DEF Inv
<1> USE DEF Hands
<1>3. ASSUME NEW from, NEW to \in Points, Goes(t, from, to)
      PROVE  /\ pc[t] = from /\ pc'[t] = to
             /\ \A u \in Printers \ {t} : pc'[u] = pc[u]
             /\ UNCHANGED <<vbe_active, overlapped>>
             /\ pc' \in [Printers -> Points]
  BY <1>3, GoesTo DEF Inv
<1>4. CASE FirstColumn(t)
  <2>1. column' = 0 /\ row' = row /\ reg' = reg
    BY <1>4 DEF FirstColumn
  <2>5. column' \in Nat /\ column' < Width /\ ~(column' >= Width)
    BY <1>1, <2>1
  <2>2. CASE Goes(t, "first column", "load row")
    <3>1. /\ pc[t] = "first column" /\ pc'[t] = "load row"
          /\ pc' \in [Printers -> Points]
          /\ \A u \in Printers \ {t} : pc'[u] = pc[u]
          /\ UNCHANGED <<vbe_active, overlapped>>
      BY <1>3, <2>2 DEF Points
    <3>2. Moved
      BY <1>1, <2>1, <2>5, <3>1
    <3>3. Row /\ Column
      BY <1>1, <2>1, <2>5, <3>1
    <3>4. One
      BY <1>1, <2>1, <2>5, <3>1 DEF AtStatement
    <3> QED
      BY <3>2, <3>3, <3>4
  <2>3. CASE Goes(t, "wrap column", "wrap load")
    <3>1. /\ pc[t] = "wrap column" /\ pc'[t] = "wrap load"
          /\ pc' \in [Printers -> Points]
          /\ \A u \in Printers \ {t} : pc'[u] = pc[u]
          /\ UNCHANGED <<vbe_active, overlapped>>
      BY <1>3, <2>3 DEF Points
    <3>2. Moved
      BY <1>1, <2>1, <2>5, <3>1
    <3>3. Row /\ Column
      BY <1>1, <2>1, <2>5, <3>1
    <3>4. One
      BY <1>1, <2>1, <2>5, <3>1 DEF AtStatement
    <3> QED
      BY <3>2, <3>3, <3>4
  <2>4. CASE Goes(t, "last column", "idle")
    <3>1. /\ pc[t] = "last column" /\ pc'[t] = "idle"
          /\ pc' \in [Printers -> Points]
          /\ \A u \in Printers \ {t} : pc'[u] = pc[u]
          /\ UNCHANGED <<vbe_active, overlapped>>
      BY <1>3, <2>4 DEF Points
    <3>2. Moved
      BY <1>1, <2>1, <2>5, <3>1
    <3>3. Row /\ Column
      BY <1>1, <2>1, <2>5, <3>1
    <3>4. One
      BY <1>1, <2>1, <2>5, <3>1 DEF AtStatement
    <3> QED
      BY <3>2, <3>3, <3>4
  <2> QED
    BY <1>4, <2>2, <2>3, <2>4 DEF FirstColumn
<1>5. CASE LoadRow(t)
  <2>1. reg' = [reg EXCEPT ![t] = row] /\ row' = row /\ column' = column
    BY <1>5 DEF LoadRow
  <2>2. reg'[t] = row /\ reg' \in [Printers -> Nat]
    BY <1>1, <2>1
  <2>3. CASE Goes(t, "load row", "store row")
    <3>1. /\ pc[t] = "load row" /\ pc'[t] = "store row"
          /\ pc' \in [Printers -> Points]
          /\ \A u \in Printers \ {t} : pc'[u] = pc[u]
          /\ UNCHANGED <<vbe_active, overlapped>>
      BY <1>3, <2>3 DEF Points
    <3>2. Moved
      BY <1>1, <2>1, <2>2, <3>1
    <3>3. Row /\ Column
      BY <1>1, <2>1, <2>2, <3>1
    <3>4. One
      BY <1>1, <2>1, <2>2, <3>1 DEF AtStatement
    <3> QED
      BY <3>2, <3>3, <3>4
  <2>4. CASE Goes(t, "wrap load", "wrap store")
    <3>1. /\ pc[t] = "wrap load" /\ pc'[t] = "wrap store"
          /\ pc' \in [Printers -> Points]
          /\ \A u \in Printers \ {t} : pc'[u] = pc[u]
          /\ UNCHANGED <<vbe_active, overlapped>>
      BY <1>3, <2>4 DEF Points
    <3>2. Moved
      BY <1>1, <2>1, <2>2, <3>1
    <3>3. Row /\ Column
      BY <1>1, <2>1, <2>2, <3>1
    <3>4. One
      BY <1>1, <2>1, <2>2, <3>1 DEF AtStatement
    <3> QED
      BY <3>2, <3>3, <3>4
  <2> QED
    BY <1>5, <2>3, <2>4 DEF LoadRow
<1>6. CASE StoreRow(t)
  <2>1. row' = reg[t] + 1 /\ reg' = [reg EXCEPT ![t] = 0] /\ column' = column
    BY <1>6 DEF StoreRow
  <2>2. row' \in Nat /\ reg' \in [Printers -> Nat]
    BY <1>1, <2>1
  <2>5. (reg[t] < Height => row' <= Height) /\ (column = 0 => column' < Width)
    BY <1>1, <2>1
  <2>3. CASE Goes(t, "store row", "wrap")
    <3>1. /\ pc[t] = "store row" /\ pc'[t] = "wrap"
          /\ pc' \in [Printers -> Points]
          /\ \A u \in Printers \ {t} : pc'[u] = pc[u]
          /\ UNCHANGED <<vbe_active, overlapped>>
      BY <1>3, <2>3 DEF Points
    <3>2. Moved
      BY <1>1, <2>1, <2>2, <3>1
    <3>3. Row /\ Column
      BY <1>1, <2>1, <2>2, <3>1
    <3>4. One
      BY <1>1, <2>1, <2>2, <2>5, <3>1 DEF AtStatement
    <3> QED
      BY <3>2, <3>3, <3>4
  <2>4. CASE Goes(t, "wrap store", "scroll")
    <3>1. /\ pc[t] = "wrap store" /\ pc'[t] = "scroll"
          /\ pc' \in [Printers -> Points]
          /\ \A u \in Printers \ {t} : pc'[u] = pc[u]
          /\ UNCHANGED <<vbe_active, overlapped>>
      BY <1>3, <2>4 DEF Points
    <3>2. Moved
      BY <1>1, <2>1, <2>2, <3>1
    <3>3. Row /\ Column
      BY <1>1, <2>1, <2>2, <3>1
    <3>4. One
      BY <1>1, <2>1, <2>2, <2>5, <3>1 DEF AtStatement
    <3> QED
      BY <3>2, <3>3, <3>4
  <2> QED
    BY <1>6, <2>3, <2>4 DEF StoreRow
<1>7. CASE LoadColumn(t)
  <2>5. Goes(t, "load column", "store column")
    BY <1>7 DEF LoadColumn
  <2>6. reg' = [reg EXCEPT ![t] = column] /\ row' = row /\ column' = column
    BY <1>7 DEF LoadColumn
  <2>7. reg'[t] = column /\ reg' \in [Printers -> Nat]
    BY <1>1, <2>6
  <2>1. /\ pc[t] = "load column" /\ pc'[t] = "store column"
        /\ pc' \in [Printers -> Points]
        /\ \A u \in Printers \ {t} : pc'[u] = pc[u]
        /\ UNCHANGED <<vbe_active, overlapped>>
    BY <1>3, <2>5 DEF Points
  <2>2. Moved
    BY <1>1, <2>6, <2>7, <2>1
  <2>3. Row /\ Column
    BY <1>1, <2>6, <2>7, <2>1
  <2>4. One
    BY <1>1, <2>6, <2>7, <2>1 DEF AtStatement
  <2> QED
    BY <2>2, <2>3, <2>4
<1>8. CASE StoreColumn(t)
  <2>5. Goes(t, "store column", "wrap")
    BY <1>8 DEF StoreColumn
  <2>6. column' = reg[t] + 1 /\ reg' = [reg EXCEPT ![t] = 0] /\ row' = row
    BY <1>8 DEF StoreColumn
  <2>7. column' \in Nat /\ reg' \in [Printers -> Nat]
    BY <1>1, <2>6
  <2>8. /\ row < Height => row' < Height /\ row' <= Height
        /\ reg[t] < Width => column' < Width \/ column' = Width
    BY <1>1, <2>6
  <2>1. /\ pc[t] = "store column" /\ pc'[t] = "wrap"
        /\ pc' \in [Printers -> Points]
        /\ \A u \in Printers \ {t} : pc'[u] = pc[u]
        /\ UNCHANGED <<vbe_active, overlapped>>
    BY <1>3, <2>5 DEF Points
  <2>2. Moved
    BY <1>1, <2>6, <2>7, <2>1
  <2>3. Row /\ Column
    BY <1>1, <2>6, <2>7, <2>1
  <2>4. One
    BY <1>1, <2>6, <2>7, <2>8, <2>1 DEF AtStatement
  <2> QED
    BY <2>2, <2>3, <2>4
<1>9. CASE TestColumn(t)
  <2>1. row' = row /\ column' = column /\ reg' = reg
    BY <1>9 DEF TestColumn
  <2>2. CASE Wraps(column)
    <3>5. Goes(t, "wrap", "wrap column")
      BY <1>9, <2>2 DEF TestColumn
    <3>6. (Vbe /\ column >= Width) \/ (~Vbe /\ column = Width)
      BY <2>2, Zenon DEF Wraps, Vbe
    <3>7. column = Width => ~(column < Width)
      BY <1>1
    <3>1. /\ pc[t] = "wrap" /\ pc'[t] = "wrap column"
          /\ pc' \in [Printers -> Points]
          /\ \A u \in Printers \ {t} : pc'[u] = pc[u]
          /\ UNCHANGED <<vbe_active, overlapped>>
      BY <1>3, <3>5 DEF Points
    <3>2. Moved
      BY <1>1, <2>1, <3>6, <3>1
    <3>3. Row /\ Column
      BY <1>1, <2>1, <3>6, <3>1
    <3>4. One
      BY <1>1, <2>1, <3>6, <3>7, <3>1 DEF AtStatement
    <3> QED
      BY <3>2, <3>3, <3>4
  <2>3. CASE ~Wraps(column)
    <3>5. Goes(t, "wrap", "scroll")
      BY <1>9, <2>3 DEF TestColumn
    <3>6. (Vbe /\ ~(column >= Width)) \/ (~Vbe /\ column # Width)
      BY <2>3, Zenon DEF Wraps, Vbe
    <3>1. /\ pc[t] = "wrap" /\ pc'[t] = "scroll"
          /\ pc' \in [Printers -> Points]
          /\ \A u \in Printers \ {t} : pc'[u] = pc[u]
          /\ UNCHANGED <<vbe_active, overlapped>>
      BY <1>3, <3>5 DEF Points
    <3>2. Moved
      BY <1>1, <2>1, <3>6, <3>1
    <3>3. Row /\ Column
      BY <1>1, <2>1, <3>6, <3>1
    <3>4. One
      BY <1>1, <2>1, <3>6, <3>1 DEF AtStatement
    <3> QED
      BY <3>2, <3>3, <3>4
  <2> QED
    BY <2>2, <2>3
<1>10. CASE TestRow(t)
  <2>1. row' = row /\ column' = column /\ reg' = reg
    BY <1>10 DEF TestRow
  <2>2. CASE Overflows(row)
    <3>5. Goes(t, "scroll", "last row")
      BY <1>10, <2>2 DEF TestRow
    <3>6. (Vbe /\ row >= Height) \/ (~Vbe /\ row = Height)
      BY <2>2, Zenon DEF Overflows, Vbe
    <3>1. /\ pc[t] = "scroll" /\ pc'[t] = "last row"
          /\ pc' \in [Printers -> Points]
          /\ \A u \in Printers \ {t} : pc'[u] = pc[u]
          /\ UNCHANGED <<vbe_active, overlapped>>
      BY <1>3, <3>5 DEF Points
    <3>2. Moved
      BY <1>1, <2>1, <3>6, <3>1
    <3>3. Row /\ Column
      BY <1>1, <2>1, <3>6, <3>1
    <3>4. One
      BY <1>1, <2>1, <3>6, <3>1 DEF AtStatement
    <3> QED
      BY <3>2, <3>3, <3>4
  <2>3. CASE ~Overflows(row)
    <3>5. Goes(t, "scroll", "idle")
      BY <1>10, <2>3 DEF TestRow
    <3>6. (Vbe /\ ~(row >= Height)) \/ (~Vbe /\ row # Height)
      BY <2>3, Zenon DEF Overflows, Vbe
    <3>1. /\ pc[t] = "scroll" /\ pc'[t] = "idle"
          /\ pc' \in [Printers -> Points]
          /\ \A u \in Printers \ {t} : pc'[u] = pc[u]
          /\ UNCHANGED <<vbe_active, overlapped>>
      BY <1>3, <3>5 DEF Points
    <3>2. Moved
      BY <1>1, <2>1, <3>6, <3>1
    <3>3. Row /\ Column
      BY <1>1, <2>1, <3>6, <3>1
    <3>4. One
      BY <1>1, <2>1, <3>6, <3>1 DEF AtStatement
    <3> QED
      BY <3>2, <3>3, <3>4
  <2> QED
    BY <2>2, <2>3
<1>11. CASE LastRow(t)
  <2>1. row' = Height - 1 /\ column' = column /\ reg' = reg
    BY <1>11 DEF LastRow
  <2>4. row' \in Nat /\ row' < Height /\ ~(row' >= Height)
    BY <1>1, <2>1
  <2>2. CASE Vbe
    <3>5. Goes(t, "last row", "idle")
      BY <1>11, <2>2 DEF LastRow, Vbe
    <3>1. /\ pc[t] = "last row" /\ pc'[t] = "idle"
          /\ pc' \in [Printers -> Points]
          /\ \A u \in Printers \ {t} : pc'[u] = pc[u]
          /\ UNCHANGED <<vbe_active, overlapped>>
      BY <1>3, <3>5 DEF Points
    <3>2. Moved
      BY <1>1, <2>1, <2>2, <2>4, <3>1
    <3>3. Row /\ Column
      BY <1>1, <2>1, <2>2, <2>4, <3>1
    <3>4. One
      BY <1>1, <2>1, <2>2, <2>4, <3>1 DEF AtStatement
    <3> QED
      BY <3>2, <3>3, <3>4
  <2>3. CASE ~Vbe
    <3>5. Goes(t, "last row", "last column")
      BY <1>11, <2>3 DEF LastRow, Vbe
    <3>1. /\ pc[t] = "last row" /\ pc'[t] = "last column"
          /\ pc' \in [Printers -> Points]
          /\ \A u \in Printers \ {t} : pc'[u] = pc[u]
          /\ UNCHANGED <<vbe_active, overlapped>>
      BY <1>3, <3>5 DEF Points
    <3>2. Moved
      BY <1>1, <2>1, <2>3, <2>4, <3>1
    <3>3. Row /\ Column
      BY <1>1, <2>1, <2>3, <2>4, <3>1
    <3>4. One
      BY <1>1, <2>1, <2>3, <2>4, <3>1 DEF AtStatement
    <3> QED
      BY <3>2, <3>3, <3>4
  <2> QED
    BY <2>2, <2>3
<1> QED
  BY <1>4, <1>5, <1>6, <1>7, <1>8, <1>9, <1>10, <1>11 DEF TaskStep

(* A character of the shell's: it is back on the screen at its end, and in *)
(* text mode no task is in putchar unless the two overlap.                 *)
LEMMA ShellKeepsInv ==
    ASSUME Inv, NEW c, ShellPutchar(c)
    PROVE  Inv'
<1> DEFINE wraps == Wraps(Behind(c)) /\ (vbe_active \/ c # "backspace")
           down == row + (IF c = "newline" THEN 1 ELSE 0) + (IF wraps THEN 1 ELSE 0)
<1>1. Height > 0 /\ Width > 0 /\ Height \in Nat /\ Width \in Nat
  BY SizesAssumption
<1>2. Behind(c) \in Nat
  BY BehindIsNat DEF Inv
<1>3. /\ row' = IF Overflows(down) THEN Height - 1 ELSE down
      /\ column' = IF wraps \/ (Overflows(down) /\ ~vbe_active) THEN 0 ELSE Behind(c)
      /\ overlapped' = (overlapped \/ ~Quiet)
      /\ UNCHANGED <<vbe_active, pc, reg>>
      /\ c \in Characters
  BY DEF ShellPutchar
<1>4. down \in Nat
  BY DEF Inv, TypeOK
<1> HIDE DEF down
<1>5. TypeOK'
  <2>1. row' \in Nat /\ column' \in Nat
    BY <1>1, <1>2, <1>3, <1>4
  <2> QED
    BY <1>3, <2>1 DEF Inv, TypeOK, Quiet
<1>6. RowInHand' /\ ColumnInHand'
  <2> SUFFICES ASSUME Vbe PROVE row' < Height /\ column' < Width
    <3>1. Vbe' <=> Vbe
      BY <1>3 DEF Vbe
    <3>2. row' \in Nat /\ column' \in Nat
      BY <1>5 DEF TypeOK
    <3>3. (row' < Height => ~(row' >= Height)) /\ (column' < Width => ~(column' >= Width))
      BY <1>1, <3>2
    <3> QED
      BY <3>1, <3>3 DEF RowInHand, ColumnInHand
  <2>1. (Overflows(down) <=> down >= Height) /\ (wraps <=> Behind(c) >= Width)
    BY Zenon DEF Overflows, Wraps, Vbe
  <2>2. column' = IF wraps THEN 0 ELSE Behind(c)
    BY <1>3, Zenon DEF Vbe
  <2> HIDE DEF wraps
  <2> QED
    BY <1>1, <1>2, <1>3, <1>4, <2>1, <2>2
<1>7. OneAtATime'
  <2> SUFFICES ASSUME ~Vbe', Alone'
               PROVE  /\ row' < Height /\ column' < Width
                      /\ \A t \in Printers : pc'[t] = "idle"
    BY DEF OneAtATime
  <2>1. ~Vbe /\ Alone /\ Quiet
    BY <1>3 DEF Vbe, Alone
  <2>7. \A n : Overflows(n) <=> n = Height
    BY <2>1, Zenon DEF Overflows, Vbe
  <2>8. \A n : Wraps(n) <=> n = Width
    BY <2>1, Zenon DEF Wraps, Vbe
  <2>9. column' = IF wraps \/ Overflows(down) THEN 0 ELSE Behind(c)
    BY <1>3, <2>1, Zenon DEF Vbe
  <2>10. row \in Nat /\ column \in Nat
    BY DEF Inv, TypeOK
  <2>11. wraps <=> Behind(c) = Width /\ c # "backspace"
    BY <2>1, <2>8, Zenon DEF Vbe
  <2>2. row < Height /\ column < Width
    BY <2>1 DEF Inv, OneAtATime
  <2>3. c \in {"newline", "backspace", "glyph"}
    BY <1>3, <2>1 DEF Characters, Vbe
  <2>4. CASE c = "newline"
    <3>1. Behind(c) = 0
      BY <2>4 DEF Behind
    <3>2. ~wraps
      BY <1>1, <2>11, <3>1
    <3>3. down = row + 1
      BY <2>4, <2>10, <3>2 DEF down
    <3> QED
      BY <1>1, <1>3, <2>1, <2>2, <2>7, <2>9, <2>10, <3>1, <3>2, <3>3 DEF Quiet
  <2>5. CASE c = "backspace"
    <3>1. Behind(c) \in Nat /\ Behind(c) < Width
      BY <1>1, <1>2, <2>2, <2>5, <2>10 DEF Behind
    <3>2. ~wraps
      BY <2>5, <2>11
    <3>3. down = row
      BY <2>5, <2>10, <3>2 DEF down
    <3> QED
      BY <1>1, <1>3, <2>1, <2>2, <2>7, <2>9, <2>10, <3>1, <3>2, <3>3 DEF Quiet
  <2>6. CASE c = "glyph"
    <3>1. Behind(c) = column + 1
      BY <2>6 DEF Behind
    <3>2. wraps <=> column + 1 = Width
      BY <2>6, <2>11, <3>1
    <3>3. down = IF wraps THEN row + 1 ELSE row
      BY <2>6, <2>10 DEF down
    <3> HIDE DEF wraps
    <3> QED
      BY <1>1, <1>3, <2>1, <2>2, <2>7, <2>9, <2>10, <3>1, <3>2, <3>3 DEF Quiet
  <2> QED
    BY <2>3, <2>4, <2>5, <2>6
<1> QED
  BY <1>5, <1>6, <1>7 DEF Inv

(* clear, whoever is in putchar.                                           *)
LEMMA ClearKeepsInv ==
    ASSUME Inv, Clear
    PROVE  Inv'
<1>1. Height > 0 /\ Width > 0 /\ Height \in Nat /\ Width \in Nat
  BY SizesAssumption
<1>2. TypeOK'
  BY DEF Clear, Inv, TypeOK, Quiet
<1>3. RowInHand' /\ ColumnInHand'
  <2>1. ~(row' >= Height) /\ ~(column' >= Width)
    BY <1>1 DEF Clear
  <2> QED
    BY <2>1 DEF RowInHand, ColumnInHand
<1>4. OneAtATime'
  BY <1>1 DEF Clear, OneAtATime, Quiet, Alone
<1> QED
  BY <1>2, <1>3, <1>4 DEF Inv

(* A step that changes nothing.                                            *)
LEMMA StutterKeepsInv ==
    ASSUME Inv, UNCHANGED vars
    PROVE  Inv'
BY DEF Inv, TypeOK, RowInHand, ColumnInHand, OneAtATime, AtStatement, Quiet, Vbe, Alone, vars

(* The invariant gives OnScreen: when nobody is in putchar, nobody has the *)
(* row or the column in hand.                                              *)
LEMMA InvShowsOnScreen == Inv => OnScreen
<1> SUFFICES ASSUME Inv, Quiet, vbe_active \/ ~overlapped
             PROVE  row \in 0 .. Height - 1 /\ column \in 0 .. Width - 1
  BY DEF OnScreen
<1>1. Height \in Nat /\ Width \in Nat /\ row \in Nat /\ column \in Nat
  BY SizesAssumption DEF Inv, TypeOK
<1>2. row < Height /\ column < Width
  <2>1. CASE Vbe
    <3>1. ~(row >= Height) /\ ~(column >= Width)
      BY <2>1 DEF Inv, RowInHand, ColumnInHand, Quiet, Hands
    <3> QED
      BY <1>1, <3>1
  <2>2. CASE ~Vbe
    <3>1. Alone
      BY <2>2 DEF Vbe, Alone
    <3> QED
      BY <2>2, <3>1 DEF Inv, OneAtATime
  <2> QED
    BY <2>1, <2>2
<1> QED
  BY <1>1, <1>2

(* The next character of whoever prints when nobody else does comes on the *)
(* screen: always on a frame buffer, and in text mode as long as no two    *)
(* have printed at once since it was cleared.                              *)
THEOREM StaysOnScreen == Spec => []OnScreen
<1>1. Init => Inv
  BY InitInv
<1>2. Inv /\ [Next]_vars => Inv'
  BY PutcharKeepsInv, StatementKeepsInv, ShellKeepsInv, ClearKeepsInv, StutterKeepsInv DEF Next
<1>3. Inv => OnScreen
  BY InvShowsOnScreen
<1> QED
  BY <1>1, <1>2, <1>3, PTL DEF Spec

-----------------------------------------------------------------------------
(* The desktop.                                                            *)

(* What the keys act upon.  The services are fetched when the GUI starts,  *)
(* and a restart, which empties the window's copy, leaves the GUI.         *)
DesktopInv ==
    /\ start_menu_selected \in (0..6) \ {Separator}
    /\ services_list \in [1..Services -> BOOLEAN]
    /\ sys_services \in {<<>>} \cup [1..Services -> BOOLEAN]
    /\ service_selected_index \in 0 .. Services - 1
    /\ gui_active =>
          /\ sys_services # <<>>
          /\ active_window \in window_visible \cup {Explorer}

(* There are as many services in the window as in the list.                *)
LEMMA ServicesFetched ==
    ASSUME NEW s \in [1..Services -> BOOLEAN]
    PROVE  Len(s) = Services /\ s # <<>>
<1>1. Services \in Nat /\ Services # 0
  BY ServicesAssumption
<1>2. s \in Seq(BOOLEAN) /\ Len(s) = Services
  BY <1>1
<1> QED BY <1>1, <1>2

(* The machine starts, or starts anew, with the GUI off.                   *)
LEMMA DesktopRestarts ==
    /\ DesktopInit => DesktopInv
    /\ Restart => DesktopInv'
<1>1. 0 \in 0 .. Services - 1 /\ 0 \in (0..6) \ {Separator}
  BY ServicesAssumption DEF Separator
<1>2. [i \in 1..Services |-> TRUE] \in [1..Services -> BOOLEAN]
  OBVIOUS
<1>3. DesktopInit => DesktopInv
  BY <1>1, <1>2 DEF DesktopInit, DesktopInv
<1>4. Restart => DesktopInv'
  BY <1>1, <1>2 DEF Restart, DesktopInv
<1> QED BY <1>3, <1>4

(* Keys that leave the services alone, and whose window, if they move the  *)
(* focus, is shown or is the explorer.                                     *)
LEMMA DesktopStays ==
    ASSUME DesktopInv,
           UNCHANGED <<services_list, sys_services, service_selected_index>>,
           gui_active' => gui_active,
           start_menu_selected' \in (0..6) \ {Separator},
           gui_active => active_window' \in window_visible' \cup {Explorer}
    PROVE  DesktopInv'
BY DEF DesktopInv

(* The menu.                                                               *)
LEMMA MenuKeeps ==
    ASSUME DesktopInv,
           ToggleMenu \/ MenuDown \/ MenuUp \/ MenuClose
    PROVE  DesktopInv'
<1>1. start_menu_selected \in (0..6) \ {4}
  BY DEF DesktopInv, Separator
<1>2. start_menu_selected' \in (0..6) \ {4}
  <2>1. CASE ToggleMenu
    BY <1>1, <2>1 DEF ToggleMenu
  <2>2. CASE MenuDown
    BY <1>1, <2>2 DEF MenuDown, Separator
  <2>3. CASE MenuUp
    BY <1>1, <2>3 DEF MenuUp, Separator
  <2>4. CASE MenuClose
    BY <1>1, <2>4 DEF MenuClose
  <2> QED BY <2>1, <2>2, <2>3, <2>4
<1>3. UNCHANGED <<gui_active, active_window, window_visible, services_list,
                  sys_services, service_selected_index>>
  BY DEF ToggleMenu, MenuDown, MenuUp, MenuClose, windows,
         services
<1> QED BY <1>2, <1>3 DEF DesktopInv, Separator

(* A window that is opened has the focus and is shown; that of the         *)
(* services is filled.                                                     *)
LEMMA OpenKeeps ==
    ASSUME DesktopInv, NEW w, Open(w),
           UNCHANGED <<gui_active, start_menu_selected>>
    PROVE  DesktopInv'
<1>1. active_window' \in window_visible' \cup {Explorer}
  BY DEF Open
<1>2. services_list' = services_list
      /\ service_selected_index' = service_selected_index
      /\ sys_services' \in {sys_services, services_list}
  BY DEF Open
<1>3. services_list # <<>>
  BY ServicesFetched DEF DesktopInv
<1> QED BY <1>1, <1>2, <1>3 DEF DesktopInv

(* Enter on an entry of the menu.                                          *)
LEMMA MenuEntersKeep ==
    ASSUME DesktopInv, MenuOpen \/ MenuPower
    PROVE  DesktopInv'
<1>1. CASE MenuOpen
  BY <1>1, OpenKeeps DEF MenuOpen
<1>2. CASE MenuPower
  <2>1. CASE Restart
    BY <2>1, DesktopRestarts
  <2>2. CASE UNCHANGED <<gui_active, windows, start_menu_selected, services>>
    BY <2>2 DEF DesktopInv, windows, services
  <2> QED BY <1>2, <2>1, <2>2 DEF MenuPower
<1> QED BY <1>1, <1>2

(* The windows.                                                            *)
LEMMA WindowsKeep ==
    ASSUME DesktopInv,
           \/ OpenWindow \/ ToggleViewer \/ BackspaceInViewer
           \/ EnterFile \/ GuiStop
    PROVE  DesktopInv'
<1>1. CASE OpenWindow
  BY <1>1, OpenKeeps DEF OpenWindow, menu
<1>2. CASE ToggleViewer
  <2>1. active_window' \in window_visible' \cup {Explorer}
    BY <1>2 DEF ToggleViewer, CloseViewer
  <2> QED BY <1>2, <2>1 DEF ToggleViewer, DesktopInv, menu, services
<1>3. CASE BackspaceInViewer
  BY <1>3 DEF BackspaceInViewer, CloseViewer, DesktopInv, menu, services
<1>4. CASE EnterFile
  BY <1>4 DEF EnterFile, DesktopInv, menu, services
<1>5. CASE GuiStop
  BY <1>5 DEF GuiStop, DesktopInv, windows, menu, services
<1> QED BY <1>1, <1>2, <1>3, <1>4, <1>5

(* The window of services.                                                 *)
LEMMA ServiceKeysKeep ==
    ASSUME DesktopInv,
           SelectService \/ ToggleService
    PROVE  DesktopInv'
<1>1. /\ service_selected_index \in 0 .. Services - 1 /\ Services \in Nat
      /\ gui_active /\ sys_services \in [1..Services -> BOOLEAN]
  BY ServicesAssumption DEF DesktopInv, SelectService, ToggleService, In
<1>2. UNCHANGED <<gui_active, active_window, window_visible, start_menu_selected>>
  BY DEF SelectService, ToggleService, windows, menu
<1>3. CASE SelectService
  <2>1. Len(sys_services) = Services
    BY <1>1, ServicesFetched
  <2>2. service_selected_index' \in 0 .. Services - 1
    BY <1>1, <1>3, <2>1 DEF SelectService
  <2> QED BY <1>2, <1>3, <2>2 DEF SelectService, DesktopInv
<1>4. CASE ToggleService
  <2>1. services_list' \in [1..Services -> BOOLEAN]
    BY <1>4 DEF ToggleService, DesktopInv
  <2>2. sys_services' = services_list'
        /\ service_selected_index' = service_selected_index
    BY <1>4 DEF ToggleService
  <2>3. services_list' # <<>>
    BY <2>1, ServicesFetched
  <2> QED BY <1>1, <1>2, <2>1, <2>2, <2>3 DEF DesktopInv
<1> QED BY <1>3, <1>4

(* The terminal window, and the start of the GUI.                          *)
LEMMA TerminalKeysKeep ==
    ASSUME DesktopInv,
           GuiStart \/ TermEnter \/ TermShutdown \/ TermKey
    PROVE  DesktopInv'
<1>1. CASE GuiStart
  <2>1. services_list # <<>>
    BY ServicesFetched DEF DesktopInv
  <2> QED BY <1>1, <2>1 DEF GuiStart, DesktopInv, Separator
<1>2. CASE TermEnter \/ TermKey
  BY <1>2 DEF TermEnter, TermKey, DesktopInv, windows, menu, services
<1>3. CASE TermShutdown
  BY <1>3, DesktopRestarts DEF TermShutdown
<1> QED BY <1>1, <1>2, <1>3

(* Each key keeps the invariant.                                           *)
LEMMA DesktopStep ==
    ASSUME DesktopInv, [DesktopNext]_desktop
    PROVE  DesktopInv'
<1>1. CASE UNCHANGED desktop
  BY <1>1 DEF desktop, DesktopInv, windows, menu, services
<1> QED
  BY <1>1, MenuKeeps, MenuEntersKeep, WindowsKeep, ServiceKeysKeep,
     TerminalKeysKeep DEF DesktopNext

(* Whatever keys come in whatever order, the next one has something to act *)
(* upon: an entry of the menu that is none but the separator, a service    *)
(* of the window's copy, a window that is shown, or the explorer.          *)
THEOREM DesktopKeysHaveTarget ==
    DesktopSpec => []KeysHaveTarget
<1>1. DesktopInv => KeysHaveTarget
  <2> SUFFICES ASSUME DesktopInv, gui_active PROVE KeysHaveTarget
    BY DEF KeysHaveTarget
  <2>1. Len(sys_services) = Services
    BY ServicesFetched DEF DesktopInv
  <2>2. service_selected_index < Services
    BY ServicesAssumption DEF DesktopInv
  <2> QED BY <2>1, <2>2 DEF DesktopInv, KeysHaveTarget
<1>2. DesktopInit => DesktopInv
  BY DesktopRestarts
<1>3. DesktopInv /\ [DesktopNext]_desktop => DesktopInv'
  BY DesktopStep
<1> QED BY <1>1, <1>2, <1>3, PTL DEF DesktopSpec

-----------------------------------------------------------------------------
(* The terminal window.                                                    *)

(* Every set of numbers that is not empty has a least one.                 *)
LEMMA LeastExists ==
    ASSUME NEW S \in SUBSET Nat, S # {}
    PROVE  \E x \in S : \A y \in S : x <= y
<1> DEFINE less == {p \in Nat \X Nat : p[1] < p[2]}
<1>1. IsWellFoundedOn(less, Nat)
  BY NatLessThanWellFounded DEF OpToRel
<1> HIDE DEF less
<1>2. PICK x \in S : \A y \in S : ~(<<y, x>> \in less)
  BY <1>1, WFMin
<1>3. ASSUME NEW y \in S PROVE x <= y
  <2>1. y < x => <<y, x>> \in less
    BY DEF less
  <2> QED BY <1>2, <2>1
<1> QED BY <1>3

(* How many of n lines the window shows, and which.                        *)
Room(n) == IF n < Rows THEN n ELSE Rows
LastLines(n) == [i \in 1..Room(n) |-> n - Room(n) + i]

(* term_print shows the last lines if the window did so before.            *)
LEMMA PrintShowsLast ==
    ASSUME NEW n \in Nat
    PROVE  TermPrint(LastLines(n), n + 1) = LastLines(n + 1)
<1> DEFINE l == LastLines(n)
<1>1. Rows \in Nat /\ Rows >= 1
  BY RowsAssumption
<1>2. l \in Seq(Int) /\ Len(l) = Room(n) /\ Room(n) \in Nat
  BY <1>1 DEF LastLines, Room
<1>3. \A i \in 1..Room(n) : l[i] = n - Room(n) + i
  BY DEF LastLines
<1> HIDE DEF l
<1>4. CASE n < Rows
  <2>1. Room(n) = n /\ Room(n + 1) = n + 1 /\ n + 1 \in Int
    BY <1>1, <1>4 DEF Room
  <2>2. TermPrint(l, n + 1) = Append(l, n + 1)
    BY <1>1, <1>2, <1>4, <2>1 DEF TermPrint
  <2> DEFINE a == Append(l, n + 1)
  <2>3. /\ a \in Seq(Int) /\ Len(a) = n + 1
        /\ \A i \in 1..n : a[i] = l[i]
        /\ a[n + 1] = n + 1
    BY <1>2, <2>1, AppendProperties
  <2> HIDE DEF a
  <2>4. \A i \in 1..(n + 1) : a[i] = i
    BY <1>3, <2>1, <2>3
  <2>5. a = [i \in 1..(n + 1) |-> i]
    BY <2>3, <2>4
  <2>6. LastLines(n + 1) = [i \in 1..(n + 1) |-> i]
    BY <2>1 DEF LastLines
  <2> QED BY <2>2, <2>5, <2>6 DEF a, l
<1>5. CASE n >= Rows
  <2>1. Room(n) = Rows /\ Room(n + 1) = Rows /\ n + 1 \in Int
    BY <1>1, <1>5 DEF Room
  <2> DEFINE s == SubSeq(l, 2, Rows)
  <2>2. \A i \in 2..Rows : l[i] \in Int
    BY <1>1, <1>3, <2>1
  <2>3. /\ s \in Seq(Int) /\ Len(s) = Rows - 1
        /\ \A i \in 1 .. Rows - 1 : s[i] = l[i + 1]
    <3>1. s \in Seq(Int) /\ Len(s) = IF 2 <= Rows THEN Rows - 2 + 1 ELSE 0
      BY <1>1, <2>2, SubSeqProperties
    <3>2. \A i \in 1 .. Rows - 2 + 1 : s[i] = l[2 + i - 1]
      BY <1>1, <2>2, SubSeqProperties
    <3> HIDE DEF s
    <3> QED BY <1>1, <3>1, <3>2
  <2>4. TermPrint(l, n + 1) = Append(s, n + 1)
    BY <1>1, <1>2, <2>1 DEF TermPrint
  <2> HIDE DEF s
  <2> DEFINE a == Append(s, n + 1)
  <2>5. /\ a \in Seq(Int) /\ Len(a) = Rows
        /\ \A i \in 1 .. Rows - 1 : a[i] = s[i]
        /\ a[Rows] = n + 1
    <3>1. Len(s) + 1 = Rows
      BY <1>1, <2>3
    <3> QED BY <2>1, <2>3, <3>1, AppendProperties
  <2> HIDE DEF a
  <2>6. \A i \in 1..Rows : a[i] = (n + 1) - Rows + i
    <3>1. ASSUME NEW i \in 1..Rows PROVE a[i] = (n + 1) - Rows + i
      <4>1. CASE i = Rows
        BY <1>1, <2>5, <4>1
      <4>2. CASE i # Rows
        <5>1. i \in 1 .. Rows - 1 /\ i + 1 \in 1..Rows
          BY <1>1, <4>2
        <5>2. a[i] = l[i + 1] /\ l[i + 1] = n - Rows + (i + 1)
          BY <1>3, <2>1, <2>3, <2>5, <5>1
        <5> QED BY <1>1, <5>2
      <4> QED BY <4>1, <4>2
    <3> QED BY <3>1
  <2>7. a = [i \in 1..Rows |-> (n + 1) - Rows + i]
    BY <2>5, <2>6
  <2>8. LastLines(n + 1) = [i \in 1..Rows |-> (n + 1) - Rows + i]
    <3>1. LastLines(n + 1)
              = [i \in 1..Room(n + 1) |-> (n + 1) - Room(n + 1) + i]
      BY DEF LastLines
    <3> QED BY <2>1, <3>1, Zenon
  <2> QED BY <2>4, <2>7, <2>8 DEF a, l
<1> QED BY <1>1, <1>4, <1>5

(* The window after k more lines, if f has what it showed before.          *)
After(f, lines, from, k) ==
    IF k = 0 THEN lines ELSE TermPrint(f[k - 1], from + k)

(* So does it after any number of lines.                                   *)
LEMMA PrintsShowLast ==
    ASSUME NEW from \in Nat, NEW n \in Nat
    PROVE  Prints(LastLines(from), from, n) = LastLines(from + n)
<1> DEFINE lines == LastLines(from)
           shown == [k \in 0..n |-> LastLines(from + k)]
           IsIt(f) == f = [k \in 0..n |-> After(f, lines, from, k)]
<1>1. \A k \in 0..n : k # 0 => k - 1 \in 0..n /\ from + (k - 1) \in Nat
                               /\ from + (k - 1) + 1 = from + k
  OBVIOUS
<1>2. \A k \in 0..n : After(shown, lines, from, k) = LastLines(from + k)
  <2>1. ASSUME NEW k \in 0..n, k # 0
        PROVE  After(shown, lines, from, k) = LastLines(from + k)
    <3>1. shown[k - 1] = LastLines(from + (k - 1))
      BY <1>1, <2>1
    <3>2. After(shown, lines, from, k)
              = TermPrint(LastLines(from + (k - 1)), from + k)
      BY <2>1, <3>1 DEF After
    <3> HIDE DEF shown, lines
    <3>3. PICK m \in Nat : m = from + (k - 1) /\ m + 1 = from + k
      BY <1>1, <2>1
    <3>4. TermPrint(LastLines(m), m + 1) = LastLines(m + 1)
      BY <3>3, PrintShowsLast
    <3> QED BY <3>2, <3>3, <3>4
  <2>2. After(shown, lines, from, 0) = LastLines(from + 0)
    <3>1. from + 0 = from
      OBVIOUS
    <3> QED BY <3>1 DEF After
  <2> HIDE DEF shown, lines
  <2> QED BY <2>1, <2>2
<1>3. IsIt(shown)
  BY <1>2
<1> DEFINE after == CHOOSE f : IsIt(f)
<1>4. IsIt(after)
  BY <1>3
<1>5. Prints(lines, from, n) = after[n]
  BY DEF Prints, After
<1> HIDE DEF after
<1> DEFINE Wrong == {k \in 0..n : after[k] # LastLines(from + k)}
<1>6. Wrong = {}
  <2> SUFFICES ASSUME Wrong # {} PROVE FALSE
    OBVIOUS
  <2>1. PICK k \in Wrong : \A i \in Wrong : k <= i
    <3>1. Wrong \in SUBSET Nat
      OBVIOUS
    <3> HIDE DEF Wrong
    <3> QED BY <3>1, LeastExists
  <2>2. after[k] = After(after, lines, from, k)
    BY <1>4
  <2>3. k # 0
    BY <2>2 DEF After
  <2>4. after[k - 1] = LastLines(from + (k - 1))
    BY <1>1, <2>1, <2>3
  <2>5. after[k] = LastLines(from + k)
    BY <1>1, <2>2, <2>3, <2>4, PrintShowsLast DEF After
  <2> QED BY <2>5
<1>7. after[n] = LastLines(from + n)
  BY <1>6
<1> QED BY <1>5, <1>7

TermInv == printed \in Nat /\ term_lines = LastLines(printed)

(* An empty window shows the last of no lines.                             *)
LEMMA NothingPrinted ==
    LastLines(0) = <<>>
BY RowsAssumption DEF LastLines, Room

(* Any number of lines may be printed, up to the bound.                    *)
LEMMA PrintLinesKeep ==
    ASSUME TermInv, NEW n \in Nat, PrintLines(n)
    PROVE  TermInv'
BY PrintsShowLast DEF PrintLines, TermInv

(* The greeting, and the answer to a line.                                 *)
LEMMA TermNext ==
    ASSUME TermInv, [DesktopNext]_desktop
    PROVE  TermInv'
<1>1. CASE UNCHANGED terminal
  BY <1>1 DEF terminal, TermInv
<1>2. CASE GuiStart
  <2>1. 0 + 3 = 3 /\ 0 \in Nat /\ 3 \in Nat
    OBVIOUS
  <2>2. Prints(<<>>, 0, 3) = LastLines(3)
    BY <2>1, NothingPrinted, PrintsShowLast
  <2> QED BY <1>2, <2>1, <2>2 DEF GuiStart, TermInit, TermInv
<1>3. CASE TermEnter
  <2>1. 1 \in Nat /\ \A a \in {1, 6} : 1 + a \in Nat
    OBVIOUS
  <2>2. \/ \E n \in Nat : PrintLines(n)
        \/ term_lines' = <<>> /\ printed' = 0
    BY <1>3, <2>1 DEF TermEnter, TermExecute
  <2> QED BY <2>2, PrintLinesKeep, NothingPrinted DEF TermInv
<1>4. CASE Restart
  BY <1>4, NothingPrinted DEF Restart, TermInv
<1>5. CASE UNCHANGED <<term_lines, printed>>
  BY <1>5 DEF TermInv
<1> QED
  BY <1>1, <1>2, <1>3, <1>4, <1>5
     DEF DesktopNext, desktop, GuiStop, ToggleMenu, MenuDown, MenuUp,
         MenuClose, MenuOpen, MenuPower, OpenWindow, ToggleViewer,
         BackspaceInViewer, EnterFile, SelectService, ToggleService,
         TermShutdown, TermKey

(* Scrolling loses no line too many and none too few: the terminal window  *)
(* shows the last lines that were printed, for every height.               *)
THEOREM DesktopTermShowsLast ==
    DesktopSpec => []TermShowsLast
<1>1. TermInv => TermShowsLast
  BY DEF TermInv, TermShowsLast, LastLines, Room
<1>2. DesktopInit => TermInv
  BY NothingPrinted DEF DesktopInit, TermInv
<1>3. TermInv /\ [DesktopNext]_desktop => TermInv'
  BY TermNext
<1> QED BY <1>1, <1>2, <1>3, PTL DEF DesktopSpec

-----------------------------------------------------------------------------
(* The mouse's bytes.                                                      *)

(* How many calm bytes bring the decoder back in step, when it has c bytes *)
(* of a packet and the mouse sends its byte number p next.  The worst case *)
(* is a decoder that takes the last byte of a packet for its second one.   *)
Needed(c, p) ==
    CASE c = p -> 0
      [] c = 0 /\ p = 2 -> 1
      [] c = 0 /\ p = 1 -> 2
      [] c = 2 /\ p = 1 -> 2
      [] c = 1 /\ p = 2 -> 4
      [] OTHER -> 3

BytesOK ==
    /\ mouse_byte \in Seq(Int) /\ mouse_cycle \in 0..2
    /\ phase \in 0..2 /\ calm \in 0..3
    /\ in_step \in BOOLEAN /\ stray \in BOOLEAN

DecoderInv ==
    /\ BytesOK
    /\ stray => mouse_cycle = 0 /\ phase = 0 /\ calm = 0 /\ ~in_step
    /\ in_step => mouse_cycle = phase
    /\ ~in_step => Needed(mouse_cycle, phase) + calm <= 4

(* How many bytes of a packet the decoder has after the next one.          *)
CycleAfter(c, sync) == IF c = 0 /\ ~sync THEN 0 ELSE (c + 1) % 3

(* The handler counts the bytes of a packet from one that looks like a     *)
(* first one on.                                                           *)
LEMMA HandleCounts ==
    ASSUME BytesOK, NEW byte \in Int, Handle(byte)
    PROVE  /\ mouse_byte' \in Seq(Int)
           /\ mouse_cycle' = CycleAfter(mouse_cycle, Sync(byte))
<1>1. mouse_byte \in Seq(Int) /\ Len(mouse_byte) \in 0..2
  BY DEF BytesOK, mouse_cycle
<1>2. CASE FirstByte(byte)
  <2>1. mouse_byte' \in Seq(Int) /\ Len(mouse_byte') = 1
    BY <1>2 DEF FirstByte
  <2>2. Len(mouse_byte) = 0 /\ Sync(byte)
    BY <1>2 DEF FirstByte, mouse_cycle
  <2> QED BY <2>1, <2>2 DEF mouse_cycle, CycleAfter
<1>3. CASE NoFirstByte(byte)
  <2>1. mouse_byte' = mouse_byte /\ Len(mouse_byte) = 0 /\ ~Sync(byte)
    BY <1>3 DEF NoFirstByte, decoder, mouse_cycle
  <2> QED BY <1>1, <2>1 DEF mouse_cycle, CycleAfter
<1>4. CASE SecondByte(byte)
  <2>1. mouse_byte' = Append(mouse_byte, byte) /\ Len(mouse_byte) = 1
    BY <1>4 DEF SecondByte, mouse_cycle
  <2>2. mouse_byte' \in Seq(Int) /\ Len(mouse_byte') = Len(mouse_byte) + 1
    BY <1>1, <2>1, AppendProperties
  <2>3. Len(mouse_byte') = 2
    BY <2>1, <2>2
  <2> QED BY <2>1, <2>2, <2>3 DEF mouse_cycle, CycleAfter
<1>5. CASE ThirdByte(byte)
  <2>1. mouse_byte' = <<>> /\ Len(mouse_byte) = 2
    BY <1>5 DEF ThirdByte, mouse_cycle
  <2>2. mouse_byte' \in Seq(Int) /\ Len(mouse_byte') = 0
    BY <2>1
  <2> QED BY <2>1, <2>2 DEF mouse_cycle, CycleAfter
<1> QED BY <1>2, <1>3, <1>4, <1>5 DEF Handle

(* A decoder in step stays in step; one that is not comes closer with each *)
(* calm byte, and is never further away than four.                         *)
LEMMA ComesCloser ==
    ASSUME NEW c \in 0..2, NEW p \in 0..2, NEW sync \in BOOLEAN, p = 0 => sync
    PROVE  LET d == CycleAfter(c, sync)
               q == (p + 1) % 3
           IN  /\ d \in 0..2 /\ q \in 0..2
               /\ c = p => d = q
               /\ p = 0 \/ ~sync =>
                     Needed(d, q) = 0 \/ Needed(d, q) + 1 <= Needed(c, p)
<1>1. (0 + 1) % 3 = 1 /\ (1 + 1) % 3 = 2 /\ (2 + 1) % 3 = 0
  OBVIOUS
<1>2. CASE c = 0
  BY <1>1, <1>2 DEF CycleAfter, Needed
<1>3. CASE c = 1
  BY <1>1, <1>3 DEF CycleAfter, Needed
<1>4. CASE c = 2
  BY <1>1, <1>4 DEF CycleAfter, Needed
<1> QED BY <1>2, <1>3, <1>4

(* What Needed ranges over.                                                *)
LEMMA NeededAtMost ==
    ASSUME NEW c \in 0..2, NEW p \in 0..2
    PROVE  Needed(c, p) \in 0..4 /\ (Needed(c, p) = 0 => c = p)
BY DEF Needed

(* The mouse sends a byte of its packet.                                   *)
LEMMA SendsIs ==
    ASSUME BytesOK, NEW byte, Sends(byte)
    PROVE  /\ ~stray /\ stray' = stray
           /\ phase' = (phase + 1) % 3 /\ phase' \in 0..2
           /\ phase = 0 => Sync(byte)
BY BytesAssumption DEF BytesOK, Sends

(* A byte of the mouse comes.                                              *)
LEMMA ByteKeepsStep ==
    ASSUME DecoderInv, NEW byte \in Int, ByteComes(byte)
    PROVE  DecoderInv'
<1> DEFINE c == mouse_cycle
           sync == Sync(byte)
           d == CycleAfter(c, sync)
           q == (phase + 1) % 3
<1>1. BytesOK /\ c \in 0..2 /\ phase \in 0..2 /\ calm \in 0..3
  BY DEF DecoderInv, BytesOK
<1>2. /\ mouse_byte' \in Seq(Int) /\ mouse_cycle' = d
      /\ ~stray /\ stray' = stray /\ phase' = q /\ (phase = 0 => sync)
  BY <1>1, HandleCounts, SendsIs DEF ByteComes
<1>3. sync \in BOOLEAN
  BY DEF Sync, Bit
<1>4. /\ d \in 0..2 /\ q \in 0..2 /\ (c = phase => d = q)
      /\ phase = 0 \/ ~sync =>
            Needed(d, q) = 0 \/ Needed(d, q) + 1 <= Needed(c, phase)
  BY <1>1, <1>2, <1>3, ComesCloser
<1>5. /\ Needed(c, phase) \in 0..4 /\ Needed(d, q) \in 0..4
      /\ Needed(d, q) = 0 => d = q
  BY <1>1, <1>4, NeededAtMost
<1>6. (in_step => c = phase) /\ (~in_step => Needed(c, phase) + calm <= 4)
  BY DEF DecoderInv
<1> DEFINE is_calm == IsCalm(byte)
<1>7. is_calm <=> phase = 0 \/ ~sync
  BY DEF IsCalm
<1>8. /\ in_step' = (in_step \/ (calm + 1 = 4 /\ is_calm))
      /\ calm' = IF in_step' \/ ~is_calm THEN 0 ELSE calm + 1
  BY DEF ByteComes, Enough
<1> HIDE DEF c, sync, d, q, is_calm
<1>9. CASE in_step
  <2>1. in_step' /\ calm' = 0 /\ in_step' \in BOOLEAN
    BY <1>8, <1>9
  <2>2. d = q
    BY <1>4, <1>6, <1>9
  <2> QED BY <1>1, <1>2, <1>4, <2>1, <2>2 DEF DecoderInv, BytesOK
<1>10. CASE ~in_step /\ is_calm /\ calm = 3
  <2>0. calm + 1 = 4
    BY <1>10
  <2>1. in_step' /\ calm' = 0 /\ in_step' \in BOOLEAN
    BY <1>8, <1>10, <2>0, Zenon
  <2>2. Needed(d, q) = 0
    BY <1>4, <1>5, <1>6, <1>7, <1>10
  <2> QED BY <1>1, <1>2, <1>4, <1>5, <2>1, <2>2 DEF DecoderInv, BytesOK
<1>11. CASE ~in_step /\ is_calm /\ calm # 3
  <2>0. calm + 1 # 4
    BY <1>1, <1>11
  <2>1. ~in_step' /\ calm' = calm + 1 /\ in_step' \in BOOLEAN
    BY <1>8, <1>11, <2>0, Zenon
  <2>2. Needed(d, q) + (calm + 1) <= 4 /\ calm + 1 \in 0..3
    BY <1>1, <1>4, <1>5, <1>6, <1>7, <1>11
  <2> QED BY <1>1, <1>2, <1>4, <2>1, <2>2 DEF DecoderInv, BytesOK
<1>12. CASE ~in_step /\ ~is_calm
  <2>1. ~in_step' /\ calm' = 0 /\ in_step' \in BOOLEAN
    BY <1>8, <1>12
  <2>2. Needed(d, q) + 0 <= 4
    BY <1>5
  <2> QED BY <1>1, <1>2, <1>4, <2>1, <2>2 DEF DecoderInv, BytesOK
<1> QED BY <1>9, <1>10, <1>11, <1>12

(* The stray answer comes, a byte is lost, or none moves.                  *)
LEMMA StepKeepsStep ==
    ASSUME DecoderInv, [MouseNext]_mouse
    PROVE  DecoderInv'
<1>1. CASE StrayByte
  <2>1. /\ stray /\ ~in_step /\ calm = 0 /\ phase = 0 /\ BytesOK
        /\ UNCHANGED <<phase, calm, in_step>> /\ stray' = FALSE
        /\ Handle(Ack) /\ Ack \in Int
    BY <1>1 DEF StrayByte, DecoderInv, Ack
  <2>2. mouse_cycle' = CycleAfter(mouse_cycle, Sync(Ack))
        /\ mouse_byte' \in Seq(Int)
    BY <2>1, HandleCounts
  <2>3. mouse_cycle' \in 0..2
    BY <2>1, <2>2 DEF CycleAfter, BytesOK
  <2>4. Needed(mouse_cycle', phase') + calm' <= 4
    <3>1. phase' = 0 /\ calm' = 0 /\ 0 \in 0..2
      BY <2>1
    <3>2. Needed(mouse_cycle', 0) \in 0..4
      BY <2>3, <3>1, NeededAtMost
    <3> QED BY <3>1, <3>2
  <2> QED BY <2>1, <2>2, <2>3, <2>4 DEF DecoderInv, BytesOK
<1>2. ASSUME NEW byte \in Headers \cup Deltas, ByteComes(byte)
      PROVE  DecoderInv'
  <2>1. byte \in Int
    BY BytesAssumption
  <2> QED BY <1>2, <2>1, ByteKeepsStep
<1>3. CASE ByteLost
  <2>1. PICK byte : Sends(byte)
    BY <1>3 DEF ByteLost
  <2>2. ~stray' /\ phase' \in 0..2 /\ stray' = stray
    BY <2>1, SendsIs DEF DecoderInv
  <2>3. /\ mouse_byte' = mouse_byte /\ mouse_cycle' = mouse_cycle
        /\ calm' = 0 /\ in_step' = FALSE
    BY <1>3 DEF ByteLost, decoder, mouse_cycle
  <2>4. Needed(mouse_cycle', phase') \in 0..4
    BY <2>2, <2>3, NeededAtMost DEF DecoderInv, BytesOK
  <2>5. Needed(mouse_cycle', phase') + calm' <= 4
    BY <2>3, <2>4
  <2>6. BytesOK'
    <3>1. stray' \in BOOLEAN /\ in_step' \in BOOLEAN
      BY <2>2, <2>3, Zenon DEF DecoderInv, BytesOK
    <3> QED BY <2>2, <2>3, <3>1 DEF DecoderInv, BytesOK
  <2> QED BY <2>2, <2>3, <2>5, <2>6, Zenon DEF DecoderInv
<1>4. CASE UNCHANGED <<decoder, stream>>
  BY <1>4 DEF decoder, stream, mouse_cycle, DecoderInv, BytesOK
<1> QED
  BY <1>1, <1>2, <1>3, <1>4
     DEF MouseNext, mouse, GuiDraws, GuiStops, TaskPrints

(* The decoder takes the byte the mouse means, unless one was lost; and    *)
(* four bytes of a calm mouse in a row bring it back, whichever bytes were *)
(* lost and whatever the mouse answered during boot.                       *)
THEOREM MouseInStep ==
    MouseSpec => []InStep
<1>1. DecoderInv => InStep
  BY DEF DecoderInv, InStep
<1>2. MouseInit => DecoderInv
  <2> SUFFICES ASSUME MouseInit PROVE DecoderInv
    OBVIOUS
  <2>1. /\ mouse_byte = <<>> /\ phase = 0 /\ calm = 0
        /\ stray \in BOOLEAN /\ in_step = ~stray
    BY DEF MouseInit
  <2>2. mouse_byte \in Seq(Int) /\ mouse_cycle = 0
    BY <2>1 DEF mouse_cycle
  <2>3. Needed(0, 0) = 0
    BY DEF Needed
  <2>4. Needed(mouse_cycle, phase) + calm <= 4
    BY <2>1, <2>2, <2>3
  <2>5. BytesOK
    <3>1. stray \in BOOLEAN /\ in_step \in BOOLEAN
      BY <2>1, Zenon
    <3> QED BY <2>1, <2>2, <3>1 DEF BytesOK
  <2> QED BY <2>1, <2>2, <2>4, <2>5, Zenon DEF DecoderInv
<1>3. DecoderInv /\ [MouseNext]_mouse => DecoderInv'
  BY StepKeepsStep
<1> QED BY <1>1, <1>2, <1>3, PTL DEF MouseSpec

-----------------------------------------------------------------------------
(* The cursor.                                                             *)

(* The mouse stays on the screen.                                          *)
PositionOK ==
    /\ mouse_byte \in Seq(Int)
    /\ mouse_x \in 0 .. PixelWidth - 1 /\ mouse_y \in 0 .. PixelHeight - 1

(* The cursor is drawn at p over the picture, and what it covers is saved, *)
(* as far as it is on the screen.                                          *)
Covers(f, saved, pic, p) ==
    /\ f = WithCursor(Drawn(pic), p)
    /\ \A o \in Offsets :
          At(p, o) \in Pixels => saved[o] = Drawn(pic)[At(p, o)]

CursorInv ==
    /\ PositionOK
    /\ vbe_is_active /\ is_in_gui_mode /\ ~smeared =>
          /\ last_drawn = <<mouse_x, mouse_y>>
          /\ Covers(fb, saved_cursor_pixels, picture, last_drawn)

(* Clamp keeps a position on the screen.                                   *)
LEMMA ClampIs ==
    ASSUME NEW v \in Int, NEW limit \in Nat \ {0}
    PROVE  Clamp(v, limit) \in 0 .. limit - 1
<1>1. PICK m \in {v, limit - 1} : \A y \in {v, limit - 1} : m <= y
  OBVIOUS
<1>2. Min({v, limit - 1}) \in {v, limit - 1}
      /\ \A y \in {v, limit - 1} : Min({v, limit - 1}) <= y
  BY <1>1 DEF Min
<1> DEFINE n == Min({v, limit - 1})
<1>3. n \in Int /\ n <= limit - 1
  BY <1>2
<1> HIDE DEF n
<1>4. PICK k \in {0, n} : \A y \in {0, n} : k >= y
  BY <1>3
<1>5. Max({0, n}) \in {0, n} /\ \A y \in {0, n} : Max({0, n}) >= y
  BY <1>4 DEF Max
<1> DEFINE a == Max({0, n})
<1>6. a \in {0, n} /\ a >= 0
  BY <1>5
<1> HIDE DEF a
<1>7. a \in 0 .. limit - 1
  BY <1>3, <1>6
<1> QED BY <1>7 DEF Clamp, a, n

(* Lifting the cursor brings the picture back, at the edges too.           *)
LEMMA LiftedIsDrawn ==
    ASSUME NEW p \in Int \X Int, NEW pic,
           Covers(fb, saved_cursor_pixels, pic, p)
    PROVE  Lifted(fb, p) = Drawn(pic)
<1>1. p # None
  BY NoneAssumption
<1> DEFINE old(q) == IF q \in Clipped(p, Offsets)
                     THEN saved_cursor_pixels[<<q[1] - p[1], q[2] - p[2]>>]
                     ELSE fb[q]
<1>2. Lifted(fb, p) = [q \in Pixels |-> old(q)]
  BY <1>1 DEF Lifted
<1>3. ASSUME NEW q \in Pixels PROVE old(q) = Drawn(pic)[q]
  <2>1. CASE q \in Clipped(p, Offsets)
    <3>1. PICK o \in Offsets : q = At(p, o)
      BY <2>1 DEF Clipped
    <3>2. <<q[1] - p[1], q[2] - p[2]>> = o
      <4>1. PICK a \in Int, b \in Int : p = <<a, b>>
        OBVIOUS
      <4>2. PICK i \in Int, j \in Int : o = <<i, j>>
        BY DEF Offsets
      <4>3. q = <<a + i, b + j>>
        BY <3>1, <4>1, <4>2 DEF At
      <4>4. (a + i) - a = i /\ (b + j) - b = j
        OBVIOUS
      <4> QED BY <4>1, <4>2, <4>3, <4>4
    <3> QED BY <2>1, <3>1, <3>2 DEF Covers
  <2>2. CASE q \notin Clipped(p, Offsets)
    <3>1. q \notin Clipped(p, Shape)
      BY <2>2, ShapeAssumption DEF Clipped
    <3>2. fb[q] = Drawn(pic)[q]
      BY <3>1 DEF Covers, WithCursor
    <3> QED BY <2>2, <3>2
  <2> QED BY <2>1, <2>2
<1> HIDE DEF old
<1>4. [q \in Pixels |-> old(q)] = [q \in Pixels |-> Drawn(pic)[q]]
  BY <1>3
<1>5. Drawn(pic) = [q \in Pixels |-> Drawn(pic)[q]]
  BY DEF Drawn
<1> QED BY <1>2, <1>4, <1>5

(* Drawn over the picture, the cursor covers it.                           *)
LEMMA CursorCovers ==
    ASSUME NEW f, NEW last, NEW p, NEW pic, Lifted(f, last) = Drawn(pic),
           DrawCursor(f, last, p)
    PROVE  last_drawn' = p /\ Covers(fb', saved_cursor_pixels', pic, p)
<1>1. /\ saved_cursor_pixels' =
              [o \in Offsets |-> IF At(p, o) \in Pixels
                                   THEN Drawn(pic)[At(p, o)]
                                   ELSE saved_cursor_pixels[o]]
      /\ fb' = WithCursor(Drawn(pic), p)
      /\ last_drawn' = p
  BY DEF DrawCursor
<1> QED BY <1>1 DEF Covers

(* The bytes of a packet move the mouse, and the cursor with it.           *)
LEMMA HandleKeepsCursor ==
    ASSUME CursorInv,
           NEW byte \in Int, Handle(byte)
    PROVE  CursorInv'
<1>1. /\ mouse_byte \in Seq(Int) /\ mouse_x \in Int /\ mouse_y \in Int
      /\ mouse_x \in 0 .. PixelWidth - 1 /\ mouse_y \in 0 .. PixelHeight - 1
  BY ScreenAssumption DEF CursorInv, PositionOK
<1>2. UNCHANGED <<vbe_is_active, is_in_gui_mode, picture, smeared>>
  BY DEF Handle, screen
<1>3. CASE ~ThirdByte(byte)
  <2>1. mouse_byte' \in {mouse_byte, <<byte>>, Append(mouse_byte, byte)}
        /\ UNCHANGED <<mouse_x, mouse_y, fb, last_drawn, saved_cursor_pixels>>
    BY <1>3 DEF Handle, FirstByte, NoFirstByte, SecondByte,
                decoder, cursor
  <2>2. mouse_byte' \in Seq(Int)
    <3>1. <<byte>> \in Seq(Int) /\ Append(mouse_byte, byte) \in Seq(Int)
      BY <1>1, AppendProperties
    <3> QED BY <1>1, <2>1, <3>1, Zenon
  <2> QED BY <1>2, <2>1, <2>2 DEF CursorInv, PositionOK
<1>4. CASE ThirdByte(byte)
  <2>1. mouse_byte[2] \in Int
    <3>1. Len(mouse_byte) = 2
      BY <1>4 DEF ThirdByte, mouse_cycle
    <3>2. 2 \in 1..Len(mouse_byte)
      BY <3>1
    <3> QED BY <1>1, <3>2
  <2> DEFINE dx == Movement(mouse_byte[2], Bit(mouse_byte[1], XSign))
             dy == Movement(byte, Bit(mouse_byte[1], YSign))
  <2>2. dx \in Int /\ dy \in Int
    BY <2>1 DEF Movement
  <2>3. /\ mouse_byte' = <<>>
        /\ mouse_x' = Clamp(mouse_x + dx, PixelWidth)
        /\ mouse_y' = Clamp(mouse_y - dy, PixelHeight)
        /\ is_in_gui_mode /\ vbe_is_active =>
              DrawCursor(fb, last_drawn, <<mouse_x', mouse_y'>>)
    BY <1>4 DEF ThirdByte
  <2> HIDE DEF dx, dy
  <2>4. mouse_x + dx \in Int /\ mouse_y - dy \in Int
    BY <1>1, <2>2
  <2>5. PositionOK'
    BY <2>3, <2>4, ClampIs, ScreenAssumption DEF PositionOK
  <2>6. ASSUME vbe_is_active, is_in_gui_mode, ~smeared
        PROVE  last_drawn' = <<mouse_x', mouse_y'>>
               /\ Covers(fb', saved_cursor_pixels', picture, last_drawn')
    <3>1. last_drawn \in Int \X Int
          /\ Covers(fb, saved_cursor_pixels, picture, last_drawn)
      BY <1>1, <2>6 DEF CursorInv
    <3>2. Lifted(fb, last_drawn) = Drawn(picture)
      BY <3>1, LiftedIsDrawn
    <3> QED BY <2>3, <2>6, <3>2, CursorCovers
  <2> QED BY <1>2, <2>5, <2>6 DEF CursorInv
<1> QED BY <1>3, <1>4

(* The GUI draws, a task prints over it, the GUI is left.                  *)
LEMMA StepKeepsCursor ==
    ASSUME CursorInv, [MouseNext]_mouse
    PROVE  CursorInv'
<1>1. CASE StrayByte
  BY <1>1, HandleKeepsCursor DEF StrayByte, Ack
<1>2. ASSUME NEW byte \in Headers \cup Deltas, ByteComes(byte)
      PROVE  CursorInv'
  <2>1. byte \in Int
    BY BytesAssumption
  <2> QED BY <1>2, <2>1, HandleKeepsCursor DEF ByteComes
<1>3. ASSUME NEW p \in Pictures, GuiDraws(p)
      PROVE  CursorInv'
  <2>1. UNCHANGED <<vbe_is_active, mouse_byte, mouse_x, mouse_y>>
    BY <1>3 DEF GuiDraws, decoder
  <2>2. ASSUME vbe_is_active
        PROVE  /\ picture' = p /\ last_drawn' = <<mouse_x, mouse_y>>
               /\ Covers(fb', saved_cursor_pixels', p, last_drawn')
    <3>1. DrawCursor(Drawn(p), None, <<mouse_x, mouse_y>>) /\ picture' = p
      BY <1>3, <2>2 DEF GuiDraws, Render
    <3>2. Lifted(Drawn(p), None) = Drawn(p)
      BY DEF Lifted
    <3> QED BY <3>1, <3>2, CursorCovers
  <2> QED BY <2>1, <2>2 DEF CursorInv, PositionOK
<1>4. CASE GuiStops
  BY <1>4 DEF GuiStops, CursorInv, PositionOK, decoder
<1>5. CASE TaskPrints
  BY <1>5 DEF TaskPrints, CursorInv, PositionOK, decoder
<1>6. CASE UNCHANGED <<screen, decoder, cursor>>
  BY <1>6 DEF screen, decoder, cursor, CursorInv, PositionOK
<1> QED
  BY <1>1, <1>2, <1>3, <1>4, <1>5, <1>6 DEF MouseNext, mouse, ByteLost

(* The cursor leaves no trace, for every shape and size of it and of the   *)
(* screen: what it covers is put back before it moves on.                  *)
THEOREM MouseCursorShown ==
    MouseSpec => []CursorShown
<1>1. CursorInv => CursorShown
  BY DEF CursorInv, Covers, CursorShown
<1>2. MouseInit => CursorInv
  <2> SUFFICES ASSUME MouseInit PROVE CursorInv
    OBVIOUS
  <2>1. mouse_byte \in Seq(Int) /\ ~is_in_gui_mode
    BY DEF MouseInit
  <2>2. /\ PixelWidth \div 2 \in 0 .. PixelWidth - 1
        /\ PixelHeight \div 2 \in 0 .. PixelHeight - 1
    BY ScreenAssumption
  <2> QED BY <2>1, <2>2 DEF MouseInit, CursorInv, PositionOK
<1>3. CursorInv /\ [MouseNext]_mouse => CursorInv'
  BY StepKeepsCursor
<1> QED BY <1>1, <1>2, <1>3, PTL DEF MouseSpec
=============================================================================
